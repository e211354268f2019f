# A verification project for PTPlus (PicoTun)

PTPlus is a reverse tunnel. A *client* behind a firewall keeps several
connections ("tunnels") to a public *server*; each is an HTTP upgrade followed
by an AES-256-GCM packet layer and an smux session. The server listens on
public TCP and UDP ports and forwards each user over a stream that it opens on
one of those sessions; the client dials the target and relays.

The modules here are translated from the Go code in `src/` (and, for the
restart of a crashed client, from the systemd unit that `setup.sh` writes).
`PROJECT.json` maps every definition to the lines it stands for, and lists the
runs, the hazards, the findings and the theorems.

## 1. Inventory

| Component | State it keeps | Operations | Hard behaviour | What makes it correct |
|---|---|---|---|---|
| Server session pool and reverse TCP (`server.go`) | `sessions` under `poolMu`, `poolIdx`, each session's atomic `streams`, the smux closed flag | `handleTunnel`, `addSession`, `removeSession`, `openReverseStream`, `leastLoadedSession`, `handleReverseTCPConn`, `handleStream`, `healthMonitor` | three goroutines remove the same entry; the session dies between being picked and used; every error return must uncount; the index overflows | pooled at most once, counters exact, no live session lost, closed ones leave and drain, users are served or told |
| Reverse UDP ports (`startReverseUDP`) | `peers` under `mu`, a reader goroutine per flow | datagram loop, reader, sweeper | the reader's cleanup deletes by address; `lastSeen` is stored after the unlock; `mu` is held over a call without a deadline | an entry is the flow of that address, streams uncounted once, idle flows swept, readers leave |
| Client pool and path failover (`client.go`) | `sessions` under `sessMu`; per worker `pathIdx` and `failCount` | `poolWorker`, `connectAndServe`, `OpenStream`, `sessionHealthCheck` | the copy of the pool is stale when used; a nil connection is closed after a failed handshake and the process dies; failures are told apart by wall-clock time | no session leaked, none pooled without an owner, a dead one is redialed, failover reaches every path |
| Encrypted packet layer (`encrypted_conn.go`) | `readBuf`, the packets on the socket | `Write`, `burstWrite`, `writePacket`, `Read` | packets longer than the caller's buffer; chunks; padding that only one side sees; a length whose sum overflows; a failing socket | it is a byte stream |
| Stream header and dispatch (`client.go`, `server.go`) | the bytes of a stream before the relay, a read deadline | tag, 2-byte length, target; streams of v2.4 servers without a tag; fake streams | one byte decides between the formats; bytes arrive in any pieces; the deadline must be gone before the relay; `OpenStream` ignores its writes' errors | the target dialed is the target sent |
| Relay (`relay`) | two copying goroutines and the one that waits for them | copy, close both ends, wait | the first EOF closes the other direction; the second copier may be blocked in a write | silence cuts nothing, a reader that has ended nothing sees no early end, whatever ends tears everything down |
| Fake traffic | a loop per session | open, write, close | outlives its session until the next tick; not counted | leads to no dial, ends with its session |
| Mimicry (`mimic.go`) | `bufio.Reader` around the 101 answer | `ClientHandshake`, server's hijack | bytes behind the answer; no deadline | no byte of the tunnel lost at the switch |
| Configuration (`config.go`) | the file and the struct | defaults, profile, aliases, migration, save | the order of the steps; the save is in place and may stop anywhere; what was derived is saved beside what it came from | a file gives the same settings at every start but for listed exceptions, never another user's key or mode |
| smux parameters (`buildSmuxConfig`) | none | jittered keepalive, timeout, buffers | a random interval at each end, floors | smux accepts them, and no end times out the other |
| TLS fragmentation and raw dialing (`tls_fragment*.go`) | descriptors `fd` and `epfd` | `DialFragmented`, `dialRawTCP`, `waitConnect` | a number that is closed twice; descriptors run out; two dials under one timeout each | no descriptor left behind, none of another goroutine closed |
| Command line, decoy page, unused helpers, installer | see `components` in `PROJECT.json` | | | |

Interaction: workers of the client pool bring up connections; each is one
`handleTunnel` on the server. Both ends put a packet layer and an smux session
on it. Users and UDP flows of the server open streams on pooled sessions; the
client's dispatch reads their header and relays. Pools, counters and maps are
shared memory under mutexes; everything else is messages in streams. The hard
parts are concurrency (goroutines over two pools and a map), partial failure
(four layers opened one after the other, three functions that count streams),
time (deadlines, and calls that have none) and the client's crash loop.

## 2. Modules

**`SessionPool`** - the server's pool. One process per tunnel (`handleTunnel`),
per user (`handleReverseTCPConn` with `openReverseStream`), per stream that a
client opens (`handleStream`) and the monitor. A use of `poolMu` that contains
no loop is one step; a scan and the monitor's pass hold the lock over several,
so that everything done *without* the lock (the closed flag, the counters) moves
between their steps. `streams` and the closed flag are not guarded in the code
and not in the model. `poolIdx` is a `uint64` of `2 * IntMax + 2` values and
`ToInt` and `GoRem` are Go's conversion and remainder. smux is external: a
session breaks, is closed by keepalive, and `OpenStream`, `AcceptStream` and
`Write` fail on it.

**`PoolLedger`** - what the pool promises to the rest of the server: members
join and leave once, load is added to members, and only what was added is taken
away. `SessionPool!ImplementsLedger` is the refinement, with the sessions that
have left as `gone`.

**`UdpFlows`** - one UDP port: the loop's steps between `mu` and the blocking
calls, a reader goroutine per flow, the sweeper with its iteration over a Go map
(any order, entries may vanish).

**`ClientPool`** - the workers, one step per layer of `connectAndServe`, their
choice of a path, the users of `OpenStream` with their copy of the pool, the
crash (`up` becomes FALSE: `conn.Close()` on the nil that a
failed `ClientHandshake` returned) and systemd's restart. The health check takes
`sessMu`, looks at one entry per step and unlocks; what holds the lock in between
waits, what does not (a session that dies) moves. `OpenStream` is exported, and
nothing in the repository calls it: its user is external.

**`ByteStream`** - one direction of a connection as smux sees it: what is read
is a prefix of what was written. **`EncryptedConn`** - the packet layer:
chunks, padding with its 2-byte length, packets on the socket, `readBuf`. The
length is a `uint16` and so is its sum with 2, which may overflow; where the
slice that it bounds is then out of range (`Panics`), the reader's process is gone
(`ReadPanics`, `crashed`).
`EncryptedConn!ImplementsStream` is the refinement, with the same variables.

**`StreamRelay`** - one stream from end to end: user, opener, acceptor, target,
and the three connections between them. Its kind says who opens: the server for
a user (`reverse`), a v2.4 server without a tag (`legacy`), the client's
`OpenStream` (`forward`; its caller is external), the server's fake traffic
(`fake`). The acceptor reads
the header byte by byte under its deadline; each relay is two copiers, which
read and write in separate steps, and the goroutine that closes both ends. A
connection is a pair of pipes; an end closes (`shut`, `deaf`), what arrives at a
closed end is answered with a reset, the socket of the session may fail and lose
what is on its way. `ImplementsStreams` says that both directions are a
`ByteStream`; its payload is numbered modulo 256, so that a byte lost, doubled or
out of order shows. Which ticks of the fake traffic are skipped is left to chance.

**`RawDial`** - the descriptor table of the process, the steps of `dialRawTCP`
that open or close one, the fallback of `DialFragmented`, and other goroutines
that open and close theirs. A number is closed whoever has it by then, as the
kernel does it. Every system call may fail.

**`ConfigLoad`** - the file of each end; `LoadConfig` as the composition of its
steps; the save of a migrated file as a truncation and a write, with a crash or an
error before, between or in the middle of them; `main`'s choice of the mode;
restarts and edits. What is left of a save that did not come to its end is an
empty file, one that is no YAML, with which every start ends, or the beginning of
the YAML (`Beginning`, in the `Order` of the keys). A file is a record of those
keys that the steps overwrite for each other, `session_timeout` among them, or
that both ends must agree about, `smux.version` among them. `Padding`, `Longest`, `KeepAliveTimeout` and
`SmuxAccepts` are what the packet layer, `buildSmuxConfig` and smux make of them.

**`MCSessionPool`, `MCEncryptedConn`, `MCStreamRelay`, `MCRawDial`,
`MCConfigLoad`** - symmetry sets and the configurations, messages, targets and
files that TLC uses.

**`SliceLemmas`** and **`SessionPool_proofs`**, **`UdpFlows_proofs`**,
**`ClientPool_proofs`**, **`EncryptedConn_proofs`**, **`StreamRelay_proofs`**,
**`RawDial_proofs`**, **`ConfigLoad_proofs`** - the proofs.

## 3. Runs

| Run | Question | Instance |
|---|---|---|
| `pool_safety` | Is the pool consistent under every interleaving? | two tunnels, three users, `MaxStreams` 1, `IntMax` 1 |
| `pool_live` | Do closed sessions leave and drain, broken ones close, users get an answer? | one tunnel, two users, one stream of the client, `FairSpec` |
| `udp_flows` | Is the flow table sound, and does it empty? | two addresses, two flows, `FairSpec` |
| `client_pool` | Is a session ever leaked, doubled or lost; is a dead one redialed, and does failover come round? | two workers, two paths (one TLS, one slow), one user, two session names, `FairSpec` |
| `conn_stream` | Is the packet layer a byte stream? | nine configurations, messages of 6, 7 and 8 bytes, read buffers of 2 and 4, `FairSpec` |
| `stream_relay` | Does a stream reach its target whole, stay open, and end? | four kinds, a target of two bytes, one byte of payload each way, buffers of one byte, `FairSpec` |
| `raw_dial` | Does a dial give back its descriptors, and only its own? | two dialers, two others, four descriptors |
| `config_load` | Which settings survive a restart, and do two ends agree? | both ends, some 300 files of the client against ten of the server, one edit |
| `udp_orphan`, `client_switch`, `conn_tail`, `config_edit` | Does the code do what a comment or document says? | TLC finds that it does not; see section 6 |

Bounds, and why they are enough:

* Two sessions are what "another session of the pool" takes; three users fill
  one session past its limit while a third evicts it. A tunnel comes up once per
  name. `IntMax` 1 makes the counter leave the range of an `int` with the second
  user. The theorems hold for any number of tunnels and users and any limit.
* In `UdpFlows` a flow name is used once; two suffice for a flow and the one
  that replaces it.
* In `ClientPool` a session name is used again when no pointer to the old
  session is left (`Unreferenced`), so that behaviours are infinite. Two names
  give each worker a session at a time, or one worker a session while the pool
  or a stale copy still holds the old one; safety is proved for any number.
  A worker that finds no free name fails to wrap,
  as it may anyway. `failCount` stops at 3, since the code compares it with 3 only. Where
  `OpenStream` starts in its copy (`rrIndex`) is any place.
* In `EncryptedConn` a byte has `Base` = 3 values, so the 2-byte length goes to
  8 instead of 65535. A message of 6 bytes is the longest that padding carries; 7
  and 8 are the lengths whose sum with 2 overflows: they are lost with the reader
  where packets are padded, and arrive where they are not or are split first. `MinChunk` is 5 for 2048: longer than the 4
  bytes below which nothing is padded. Both ends have the same configuration,
  except for the key in one case. `MaxSent` bounds what is written.
* In `StreamRelay` a byte of payload stands for what one `Read` returns, so one
  each way is enough to be held by a copier, to be buffered and to be lost, and
  with `Cap` 1 a writer blocks behind it. The target has two bytes, so that it
  arrives in pieces. What these bounds leave open is proved for every target of 1
  to 255 bytes, any payload and any buffers.
* In `RawDial` four descriptors are one less than two dialers in `waitConnect`
  and an open connection of another goroutine need, so that each of the calls
  that open one fails at times for want of one.
* In `ConfigLoad` the client's file leaves out or sets one group of keys at a
  time (keep-alive, buffers, padding, pool size, session timeout, version of smux)
  under six profiles and both versions, and lists every mapping; the server's are
  those whose padding, profile or version may differ, and have one to be added.
  Buffers are left out, 512 KB (which migration raises) or 3000 KB (which it does
  not); keep-alive and jitter are 1 and 0 or the most that `InTime` speaks of.
  A save is cut off behind the key, or in the middle of the list. Nothing is
  said of a file cut off before the key: disks are written by the block, and the
  first block has it (`CutsAssumption`). The program does not call `fsync`; a power
  failure after the write leaves the same files as one in the middle of it.
  `FirstLikeLater` compares any later start with the first since the last edit,
  so that one edit shows a file before and after it. Each of the properties is
  proved for any values of these keys.

`CHECK_DEADLOCK FALSE` is set for `pool_safety`, where every tunnel and user may
be done, for the two runs of `EncryptedConn`, where everything is sent, and for
`stream_relay`, where the stream has come to its end.

## 4. Fairness

Goroutines that can run do run, and a mutex is handed to whoever waits for ever
(Go's mutexes have a starvation mode, an `RWMutex` lets no reader pass a waiting
writer): strong fairness for steps that need a lock, weak for the others.
In `ClientPool` the steps of `ServeStep` are at different places of a worker, so
that one formula stands for all of them. smux closes a session whose socket failed as soon as one of its loops notices, and
keepalive closes it at the latest. The tickers of the monitor, the sweeper and
the health check tick. systemd restarts a dead process.

There is *no* fairness where the code has no deadline: the TLS and HTTP
handshakes of the client, writes to a stream that is open, the call that opens a
stream with `mu` held in `startReverseUDP`, and nothing makes a peer act. Hence
`ReadersLeave` and `IdleFlowsSwept` assume that those opens return
(`OpensReturn`), `DeadSessionRedialed` speaks of a worker that has a session,
and `RefusedTriesAll` of attempts that end at the dial. In `EncryptedConn` smux's
receiver reads on: this holds as long as the streams of the session are consumed.

In `StreamRelay` the goroutines run, the tickers tick, the header's deadline
passes, a dial ends, and keepalive closes both ends of a session whose socket
has failed. The user and the target read what has come to them (a relay has no
deadline and waits for a reader for ever) but need neither send nor close.
`RawDial` and `ConfigLoad` state safety only and assume no fairness.

## 5. What is proved

All theorems hold for every value of the constants that the named assumptions of
the modules allow. tlapm checks them with Z3, Zenon and LS4.

* **`SessionPool_proofs`**: `TypeCorrect`, `PoolOwnedAlways`,
  `CountExactAlways`, `PoolInvAlways`, `PanicOnlyByOverflowAlways`,
  `NoOrphanSessionAlways`, the action property `FullOnlyIfAllClosedAlways`, and
  `LedgerImplemented`. `NoIndexPanicWhileFits` is what can be promised of the
  index: no panic while the users fit an `int`. The argument goes in layers, each
  inductive relative to the ones before: types; lock exclusion; the pool
  (no duplicates, and only of tunnels whose goroutine will still call
  `removeSession`, which is why dropping the *first* match is enough); whoever
  has a session got one that was added; the counter of a session is the
  cardinality of `Holders`, which each step changes by one element; and for
  `FullOnlyIfAllClosed` that the second scan has skipped closed sessions only,
  which stay closed while it holds the read lock.
* **`UdpFlows_proofs`**: `TypeCorrect`, `MapSoundAlways`, `LoadExactAlways`.
* **`ClientPool_proofs`**: `TypeCorrect`, `PoolOwnedAlways`, `NoLeakAlways`,
  `LiveStaysPooledAlways`. `Owned`, the conjunction of the first three, is
  inductive and none of them is alone: that a name taken for a new session is
  not pooled needs `PoolOwned`, that two workers never share one needs `NoLeak`,
  and both need to know where a worker has a session. A fourth part, `CheckInv`,
  is about the middle of a health check: while it holds the lock, the entries it
  keeps and those still to look at are entries of the pool, each once, and all
  of those whose session is not closed. It is what `PoolOwned` needs at the unlock, where the slice is
  replaced, and `LiveStaysPooled` for the entries that the check drops.
* **`EncryptedConn_proofs`**: `TypeCorrect`; `CodecRoundTrip`, that `Read` makes
  of a packet what `writePacket` was given, for every byte size, padding and
  data, and that it panics on padded data of the two greatest lengths and on no
  other; `NeverPanics`; and `StreamImplemented`, the refinement of `ByteStream`. Its invariant
  `StreamInv` says that there are cuts of `sent`, one per packet in flight, such
  that packet *i* decodes to the bytes between cut *i - 1* and cut *i*, that
  `got` and `readBuf` end at the first cut and, while the socket is up, `rest`
  begins at the last. It and `NeverPanics` need `Disciplined`: messages longer than 4
  bytes whose length plus 2 fits a `uint16`, and no splitting together with stealth padding unless
  obfuscation is on. Without the last condition the theorem is false, which is
  what the run `conn_tail` shows.
* **`StreamRelay_proofs`**, for every target of 1 to 255 bytes, every payload and
  every size of the buffers, in layers of which each uses the ones before:
  * `DialsTargetAlways`. The bytes that the opener writes to the stream are
    numbered, the tag with 0 (a v2.4 server begins at 1). `HeaderInv` says that,
    while the acceptor reads the header, what is in the pipe are the bytes from
    the one it reads next (`At`) and, while nothing has failed (`Clear`), ends
    before the one that is written next (`End`). The second part is needed for
    the first: an opener whose connection has failed goes on without having
    written its header, and its payload must not be taken for it.
  * `TypeCorrect`. `Control` says which places of opener, acceptor and copiers go
    together and what they have closed by then (`Opening`, `Accepting`,
    `Copying`), `Closings` that an end that is deaf says nothing more.
  * `StaysOpenAlways`. Nothing in the tunnel ends by itself: `Lasting` says that,
    while both peers are open and no socket has failed, no copier is done and no
    inner end is closed, or the target was never dialed. Each of the reasons a
    copier may stop for (`CopyEndMeans`, `CopyFailMeans`) is a close that cannot
    have happened.
  * `StreamsImplemented`, that each direction refines `ByteStream`. A direction
    goes through five places: the peer's socket, one copier's hand, the stream,
    the other copier's hand, the reader's socket. `Moves` lists the ways in which
    one step moves a direction (a byte in, a byte out, one place emptied into the
    next, a tail lost), there is a lemma per process that its actions are of
    these ways, and `Shift` adds the lengths; the rest is about `Shift` alone.
    `Counted` says that no byte is in two places, and `Contents` that every place
    holds a segment of `sent`, one behind the other, as long as the places before
    it lead to the reader (`Live1` to `Live5`).
  * `CompleteAtEofAlways`. `Reasons` names why a step may lose a byte (a reset of
    an end that was closed, a failed socket), and `Arrivals` that, while the other
    direction is open and whole, nothing of this one is lost, and a relay ends
    only because the writer has closed and all it wrote has passed: the EOF is
    then behind the last byte.
* **`RawDial_proofs`**: `TypeCorrect`, `NoDescriptorLeakAlways` and the action
  property `FirstTheftAlways`: as long as every goroutine's numbers are its own,
  no step but the second close after a failed `FileConn` takes one away. That a
  free number is nobody's and that a number has one owner are the lemmas each
  step needs; that the kernel takes the lowest free number is not used.
* **`ConfigLoad_proofs`**, for any files, ports and number of edits.
  * `OwnSettingsAlways`. Each step of `LoadConfig` keeps mode and key, so a file
    is always empty or its user's own, and an empty one does not start.
  * `TypeCorrect`, `FirstLikeLaterAlways`, `EndsAgreeAlways`, from one invariant,
    `Settled`, and from lemmas about the pipeline: `LoadOf` says field by field
    what `LoadConfig` makes of a file, `WholeAgain` what it makes of its own
    output, `Again` that this is the same but for the fields in `Wavers`.
    `Settled` says of each end that its file is lost, untouched or a migrated one
    that agrees with the user's (`From`); that `LoadConfig` makes of it what the
    first start ran with (`OnDisk`); and that what is about to be saved is the
    first load of an untouched file (`Loading`). The last part is the heart of it:
    if a later load could be saved, the deviations of `Wavers` would add up. A
    file that was cut off is a case of its own (`Torn`): of the current version, so
    that it is never migrated again, and of nobody's settings but the mode and key.
  * `CurrentEditsApplyAlways`, from `Currents`: a file of the current version is
    never rewritten, so it has no `forward` but its user's. This is what the code
    keeps of `EditsApply`, and no run checks it.
* **`SliceLemmas`**: removal from and append to a duplicate-free slice.

Only model-checked: every liveness property (fairness and ENABLED are out of the
prover's reach), and `NothingLost`, `EditsApply`, `OpenFlowsMapped` and
`AutoSwitch`, which are false. Every other property of the runs is a theorem.

## 6. Where the code and its documents differ

Shown by a run of their own:

* `udp_orphan`: the cleanup of a swept flow removes the entry of the flow that
  replaced it; that stream is then never swept.
* `client_switch`: a first path that accepts connections and fails the upgrade
  crashes the client, which restarts on the same path for ever.
* `conn_tail`: with `burst_split` and `random_padding` a last chunk of 3 or 4
  bytes may be taken for a padded one, and bytes of the stream are lost.
* `config_edit`: the migration saves the `forward` section it derived from
  `maps` (`config.go:447`, `config.go:510`), and a `forward` that is there wins:
  mappings added to `maps` afterwards are never served.

Met on the way, part of what the passing properties say:

* `max_streams_per_session` (`README.md:57`) is no limit: the check and the
  increment are apart, and the fallback ignores it. The comment "evict and retry
  once" (`server.go:374`) stands over code that does not retry.
* The "overflow protection" of the round-robin index (`server.go:345`) is none:
  the index goes negative with the conversion and the server panics, after 2^63
  calls on a 64-bit build and 2^31 on a 32-bit one. `PanicOnlyByOverflow` says
  that this is the only way to panic there.
* `tls_fragment_linux.go:69-71` closes a number that `f.Close()` has closed
  already; by then it may be another goroutine's (`FirstTheft`). With a
  `dial_timeout` of 15 s or more a failed `DialFragmented`, which dials twice,
  counts as the death of a long session, and the path is never left.
* `random_padding` is `true` by default according to `README.md:49`, but `false`
  in a version-2 file that leaves it out, and a gaming or latency profile turns it
  off. Ends that pad differently do not understand each other; `EndsAgree` says
  when that happens.
* The sum in `data[2 : 2+origLen]` (`encrypted_conn.go:239`, `:262`) is a `uint16`.
  A padded frame of 65526 or 65527 data bytes, with the 8 bytes of smux's header a
  length of 65534 or 65535, makes it 0 or 1: the slice is out of range and the
  reader's process ends. In longer frames the length itself wraps, and data is
  lost. Only a `frame_size` of 65526 and more makes such frames; the default is
  far below. `Panics` and `EveryByteArrives` say so.
* The first start after an upgrade uses other values than every later one under
  the gaming, latency and lowcpu profiles, and, under any, with a
  `session_timeout` of 15 under `advanced`, which is 30 at the first start and 15
  at every later one (`Wavers`). Migration raises a stream
  buffer of 512 KB or 1 MB to 4 MB and leaves a receive buffer of any other size as
  it is: smux refuses one that is now the smaller (`BuffersFit`).
* An end with a `keepalive` of 25 and a `keepalive_jitter` above 10 may be silent
  for longer than 30 seconds, after which an end with the defaults gives up the
  session (`InTime`). Both cases came up when `EndsAgree` was to be proved for
  every file, and are outside what it says.
* A crash between the truncation and the write of the migrated file leaves an
  empty one, and the process ends at every start with "unknown mode"; one in the
  middle of the write, or a full disk, leaves the beginning of it. That loads
  without an error: the end runs with its mode and key, defaults for the other
  keys, and what is left of its mappings.
* `startReverseUDP` holds `mu` while it opens a stream, with writes that have no
  deadline: a tunnel that stalls stops the whole port (`OpensReturn`).
* `keepalive_jitter` is half of the "±2s" of `README.md:50`. The comment "try as
  forward stream (old protocol)" at `server.go:246` stands over a return. An
  untagged target of 512 to 767 bytes would be taken for a tagged stream
  (`client.go:283`), so `StreamRelay` takes targets of up to 255 bytes.
  `MaxUDPFlows` and `MaxConnections` are compared with nothing.

## 7. Plan

Done, in this order: `SessionPool` with `PoolLedger`; `UdpFlows`; `ClientPool`;
`EncryptedConn` with `ByteStream`; `StreamRelay` with header, relay and fake
traffic; `ConfigLoad` with the smux parameters; `RawDial`; proofs of each.

Left:

1. `Mimicry`: the bytes behind the 101 answer and `bufferedConn`; `FragmentedConn`:
   the pieces of the first write. Both refine `ByteStream`.
2. Theorems that say how much of the other violated properties the code does keep,
   as `CurrentEditsApply` and `StreamImplemented` do of `EditsApply` and
   `NothingLost`.
3. A composition of a worker, a `handleTunnel` and their streams, as far as TLC
   can take it; today the interfaces are the outcomes of the smux calls.

Not modelled, and why:

* the decoy page and the validation of requests: a stateless decision on one
  request, of which `SessionPool` has both outcomes;
* the helpers that nothing calls (`ApplyObfuscation`, `EncryptPSK` and others),
  which are in no behaviour of the program.
  `Client.OpenStream` has no caller either, but is exported, shares the pool with
  the workers and has its other end in the dispatch: it is modelled, and whoever
  calls it is external;
* raw socket options, cipher lists, sizes and delays of fragments, the wording of
  HTTP headers, key derivation: data that no property here tells apart;
* keys of the configuration that one step fills in and nothing else touches, and
  the parsing of YAML;
* the wizards, kernel tuning and update of the installer: text handling. Its
  systemd unit and its editing of a configuration are in `ClientPool` and
  `ConfigLoad`;
* what a goroutine costs: memory, sockets and CPU are without a bound in the code.
