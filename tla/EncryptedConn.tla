---------------------------- MODULE EncryptedConn ----------------------------
(***************************************************************************)
(* One direction of the packet layer between smux and the socket:          *)
(* src/encrypted_conn.go.  Write cuts, pads, seals and frames; Read does   *)
(* the reverse and keeps what the caller's buffer has no room for.         *)
(*                                                                         *)
(* AES-256-GCM and the 4-byte length before a packet are kept as what they *)
(* guarantee: a packet arrives whole, and opens with the key that sealed   *)
(* it only.  The 2-byte length inside a padded packet is modelled byte by  *)
(* byte, since Read looks for it in packets that were never padded too,    *)
(* and its arithmetic with its width, in which it may overflow.            *)
(***************************************************************************)
EXTENDS Integers, Sequences, FiniteSets, SequencesExt

CONSTANTS
  Base,       \* the values of a byte: 256
  MinChunk,   \* the shortest burst chunk but for the last: 2048
  Modes,      \* the configurations: records with the fields of ModeFields
  Messages,   \* what smux may hand to one Write
  ReadSizes,  \* lengths of the buffers smux reads into
  MaxSent     \* bound: the bytes handed to Write in one behaviour

ASSUME BaseAssumption == Base \in Nat /\ Base > 1

Byte == 0..(Base - 1)
Word == Base * Base  \* the values of a uint16
Packet == Seq(Byte) \ {<<>>}

\* Writes of at most this many bytes get no stealth padding.
Small == 4

ASSUME ChunkAssumption == MinChunk \in Nat /\ MinChunk > Small

ModeFields == [
  obfs : BOOLEAN,      \* obfs.Enabled
  stealth : BOOLEAN,   \* stealth.RandomPadding
  split : BOOLEAN,     \* stealth.BurstSplit
  maxBurst : Nat,      \* stealth.MaxBurstSize
  minPad : Nat,        \* MinPadding and MaxPadding of the padding in use
  maxPad : Nat,
  samePsk : BOOLEAN ]  \* the two ends have the same pre-shared key

ASSUME ModesAssumption == Modes \subseteq ModeFields
ASSUME MessagesAssumption == Messages \subseteq Seq(Byte) \ {<<>>}
ASSUME SizesAssumption == ReadSizes \subseteq Nat \ {0}

VARIABLES
  mode,     \* the configuration, the same on both ends but for the key
  sent,     \* every byte handed to Write so far
  rest,     \* what the running Write has still to send
  bursting, \* that Write is a burstWrite
  wire,     \* the packets in flight, padded, in the order of the socket
  up,       \* the socket has not failed
  readBuf,  \* EncryptedConn.readBuf
  got,      \* every byte Read has returned so far
  ended,    \* Read has returned an error
  crashed   \* Read has panicked, and its process is gone

vars == <<mode, sent, rest, bursting, wire, up, readBuf, got, ended, crashed>>

Init ==
  /\ mode \in Modes
  /\ sent = <<>> /\ rest = <<>> /\ bursting = FALSE
  /\ wire = <<>> /\ up = TRUE
  /\ readBuf = <<>> /\ got = <<>> /\ ended = FALSE
  /\ crashed = FALSE

-----------------------------------------------------------------------------
(* Padding                                                                 *)

\* binary.BigEndian, PutUint16(uint16(n)) and Uint16
PutUint16(n) == <<(n \div Base) % Base, n % Base>>
Uint16(p) == p[1] * Base + p[2]

Least(a, b) == IF a <= b THEN a ELSE b

\* addPadding draws from MinPadding up to, not including, MaxPadding, and
\* addStealthPadding up to and including it.
PadLengths(m) ==
  LET top == IF m.obfs THEN m.maxPad - 1 ELSE m.maxPad
  IN {m.minPad} \cup m.minPad..top

AddPadding(data, pad) == PutUint16(Len(data)) \o data \o pad

\* The payloads writePacket may make of data
Payloads(m, data) ==
  IF m.obfs \/ (m.stealth /\ Len(data) > Small)
  THEN {AddPadding(data, pad) : pad \in UNION {[1..k -> Byte] : k \in PadLengths(m)}}
  ELSE {data}

\* removePadding and removeStealthPadding, which refuses a zero length; Valid
\* says when they do not return nil.  The comparison adds in int.
Valid(m, pkt) ==
  /\ Len(pkt) >= 2
  /\ Uint16(pkt) + 2 <= Len(pkt)
  /\ m.obfs \/ Uint16(pkt) # 0

\* 2 + origLen, which is a uint16: of the two greatest lengths it is 0 or 1.
DataEnd(pkt) == (2 + Uint16(pkt)) % Word

\* data[2 : 2+origLen], of which Panics says where it is out of range.
RemovePadding(pkt) == SubSeq(pkt, 3, DataEnd(pkt))

Opens(m, pkt) == m.samePsk /\ (m.obfs => Valid(m, pkt))

Panics(m, pkt) ==
  m.samePsk /\ (m.obfs \/ m.stealth) /\ Valid(m, pkt) /\ DataEnd(pkt) < 2

Plaintext(m, pkt) ==
  IF (m.obfs \/ m.stealth) /\ Valid(m, pkt) THEN RemovePadding(pkt) ELSE pkt

-----------------------------------------------------------------------------
(* Write, one at a time: smux has a single sender and writeMu.             *)

\* Mutant: the writer does not wait for a running Write.
Write_Overlap(d) ==
  /\ Len(sent) + Len(d) <= MaxSent
  /\ sent' = sent \o d
  /\ rest' = d
  /\ bursting' = (mode.split /\ Len(d) > mode.maxBurst)
  /\ UNCHANGED <<mode, wire, up, readBuf, got, ended, crashed>>

Write(d) ==
  /\ rest = <<>>
  /\ Len(sent) + Len(d) <= MaxSent
  /\ sent' = sent \o d
  /\ rest' = d
  /\ bursting' = (mode.split /\ Len(d) > mode.maxBurst)
  /\ UNCHANGED <<mode, wire, up, readBuf, got, ended, crashed>>

\* maxBurst <= 0 becomes 4096; secureRandInt of a negative number is 0, so that
\* a limit below MinChunk gives chunks of MinChunk.
MaxBurst == IF mode.maxBurst = 0 THEN 2 * MinChunk ELSE mode.maxBurst

\* Mutant: the chunks of a burst are drawn from zero on.
ChunkSizes_Zero ==
  IF bursting
  THEN {Least(n, Len(rest)) : n \in 0..MaxBurst}
  ELSE {Len(rest)}

ChunkSizes ==
  IF bursting
  THEN {Least(n, Len(rest)) : n \in {MinChunk} \cup MinChunk..MaxBurst}
  ELSE {Len(rest)}

WritePacket ==
  /\ rest # <<>> /\ up
  /\ \E n \in ChunkSizes :
       /\ \E payload \in Payloads(mode, SubSeq(rest, 1, n)) :
            wire' = Append(wire, payload)
       /\ rest' = SubSeq(rest, n + 1, Len(rest))
  /\ UNCHANGED <<mode, sent, bursting, up, readBuf, got, ended, crashed>>

\* conn.Write fails; what it has sent of the packet is no packet.
WriteError ==
  /\ rest # <<>> /\ ~up
  /\ rest' = <<>>
  /\ UNCHANGED <<mode, sent, bursting, wire, up, readBuf, got, ended, crashed>>

-----------------------------------------------------------------------------
(* Read, one at a time: smux has a single receiver and readMu.             *)

ReadBuffered(size) ==
  /\ ~ended /\ ~crashed /\ readBuf # <<>>
  /\ got' = got \o SubSeq(readBuf, 1, Least(size, Len(readBuf)))
  /\ readBuf' = SubSeq(readBuf, size + 1, Len(readBuf))
  /\ UNCHANGED <<mode, sent, rest, bursting, wire, up, ended, crashed>>

\* Mutant: what does not fit into the caller's buffer is lost.
ReadPacket_Drops(size) ==
  /\ ~ended /\ ~crashed /\ readBuf = <<>>
  /\ wire # <<>> /\ Opens(mode, Head(wire)) /\ ~Panics(mode, Head(wire))
  /\ LET plain == Plaintext(mode, Head(wire)) IN
       /\ got' = got \o SubSeq(plain, 1, Least(size, Len(plain)))
       /\ readBuf' = <<>>
  /\ wire' = Tail(wire)
  /\ UNCHANGED <<mode, sent, rest, bursting, up, ended, crashed>>

ReadPacket(size) ==
  /\ ~ended /\ ~crashed /\ readBuf = <<>>
  /\ wire # <<>> /\ Opens(mode, Head(wire)) /\ ~Panics(mode, Head(wire))
  /\ LET plain == Plaintext(mode, Head(wire)) IN
       /\ got' = got \o SubSeq(plain, 1, Least(size, Len(plain)))
       /\ readBuf' = SubSeq(plain, size + 1, Len(plain))
  /\ wire' = Tail(wire)
  /\ UNCHANGED <<mode, sent, rest, bursting, up, ended, crashed>>

\* The slice is out of range, which nobody recovers from: the reader's process ends
\* and its socket is closed.
ReadPanics ==
  /\ ~ended /\ ~crashed /\ readBuf = <<>>
  /\ wire # <<>> /\ Panics(mode, Head(wire))
  /\ crashed' = TRUE
  /\ up' = FALSE
  /\ UNCHANGED <<mode, sent, rest, bursting, wire, readBuf, got, ended>>

\* The packet does not open, or the socket has failed: smux closes the session.
ReadError ==
  /\ ~ended /\ ~crashed /\ readBuf = <<>>
  /\ IF wire = <<>> THEN ~up ELSE ~Opens(mode, Head(wire))
  /\ ended' = TRUE
  /\ UNCHANGED <<mode, sent, rest, bursting, wire, up, readBuf, got, crashed>>

\* The socket fails, and may take with it the packets at the end of the stream.
SocketFails ==
  /\ up
  /\ up' = FALSE
  /\ \E n \in 0..Len(wire) : wire' = SubSeq(wire, 1, n)
  /\ UNCHANGED <<mode, sent, rest, bursting, readBuf, got, ended, crashed>>

-----------------------------------------------------------------------------

WriteStep == (\E d \in Messages : Write(d)) \/ WritePacket \/ WriteError
ReadStep ==
  \/ \E k \in ReadSizes : ReadBuffered(k) \/ ReadPacket(k)
  \/ ReadPanics
  \/ ReadError

Next == WriteStep \/ ReadStep \/ SocketFails

Spec == Init /\ [][Next]_vars

\* smux's sender finishes a Write, its receiver reads on until an error.
Fairness == WF_vars(WritePacket \/ WriteError) /\ WF_vars(ReadStep)

FairSpec == Spec /\ Fairness

-----------------------------------------------------------------------------

\* The types.  No packet is empty, which Read would refuse and end the session for,
\* and what is left of a Write that is no burst is the message it was given.
TypeOK ==
  /\ mode \in Modes
  /\ sent \in Seq(Byte) /\ rest \in Seq(Byte) /\ bursting \in BOOLEAN
  /\ rest # <<>> /\ ~bursting => rest \in Messages
  /\ wire \in Seq(Packet) /\ up \in BOOLEAN
  /\ readBuf \in Seq(Byte) /\ got \in Seq(Byte)
  /\ ended \in BOOLEAN /\ crashed \in BOOLEAN

\* What is on its way, decoded by the rule Read will use, is what was written
\* and not yet read: no length, chunk or remainder is off by one anywhere.
Pending ==
  readBuf \o FlattenSeq([i \in 1..Len(wire) |-> Plaintext(mode, wire[i])]) \o rest

NothingLost == up => got \o Pending = sent

\* The layer is a byte stream, also across a failure of the socket or of the reader.
Stream == INSTANCE ByteStream WITH Bytes <- Byte
ImplementsStream == Stream!Spec

\* What is written is read, or the reader hears that the connection has ended.  Its
\* process ends instead only for a padded packet whose data has one of the two
\* greatest lengths a uint16 counts: then at least that many bytes are unread.
EveryByteArrives ==
  \A n \in 1..MaxSent :
    Len(sent) >= n ~>
      \/ Len(got) >= n
      \/ ended
      \/ crashed /\ (mode.obfs \/ mode.stealth) /\ Len(sent) - Len(got) >= Word - 2
=============================================================================
