---------------------------- MODULE SessionPool ----------------------------
(***************************************************************************)
(* The session pool of the PicoTun server (src/server.go): handleTunnel    *)
(* adds a session and serves its incoming streams, reverse TCP users pick  *)
(* a session for an outgoing stream, the health monitor evicts.            *)
(*                                                                         *)
(* The pool is guarded by the RWMutex poolMu; the stream counters and the  *)
(* closed flag of a session are read and written without it.  A process in *)
(* a scan holds the read lock from one step to the next, the monitor       *)
(* (mon > 0) holds the write lock; every other use of the lock is one step.*)
(***************************************************************************)
EXTENDS Integers, Sequences, FiniteSets, SequencesExt

CONSTANTS
  Sessions,    \* tunnels that clients may bring up, each at most once
  Conns,       \* users accepted by startReverseTCP
  Inbound,     \* streams that clients open on a session
  MaxStreams,  \* Advanced.MaxStreamsPerSession
  IntMax,      \* the largest int of the build: 2^63 - 1 on the released ones
  None

ASSUME SessionsAssumption == None \notin Sessions
ASSUME ProcsAssumption == /\ IsFiniteSet(Conns) /\ IsFiniteSet(Inbound)
                          /\ Conns \cap Inbound = {}
ASSUME LimitsAssumption == MaxStreams \in Nat /\ IntMax \in Nat \ {0}

Procs == Conns \cup Inbound

VARIABLES
  pool,     \* Server.sessions
  handler,  \* the goroutine of handleTunnel that serves each session
  link,     \* the smux session: IsClosed() is link = "closed"; on a "broken"
            \* one the socket has failed and IsClosed() is still false
  streams,  \* serverSession.streams
  poolIdx,  \* Server.poolIdx, a uint64
  pc,       \* where each user and each inbound stream is
  at,       \* the session it has picked or was accepted on
  scan,     \* the locals of the two pool scans of a user
  mon       \* the health monitor: 0, or the index it looks at next

vars == <<pool, handler, link, streams, poolIdx, pc, at, scan, mon>>

HandlerStates == {"idle", "starting", "accepting", "leaving", "closing",
                  "done", "rejected"}
ConnStates == {"new", "scan", "overloaded", "least", "open", "opened",
               "evict", "shut", "tag", "target", "relay", "done", "failed",
               "panic"}
InboundStates == {"unborn", "spawned", "type", "header", "dial", "relay",
                  "done"}

\* Between the two atomic.AddInt64 of its goroutine a stream is counted.
Counted == {"tag", "target", "relay", "type", "header", "dial"}
Holders(s) == {p \in Procs : pc[p] \in Counted /\ at[p] = s}

\* Where a process has a session.
Picked == Counted \cup {"spawned", "open", "opened", "evict", "shut"}

NoScan == [start |-> 0, i |-> 0, load |-> 0]

Init ==
  /\ pool = <<>>
  /\ handler = [s \in Sessions |-> "idle"]
  /\ link = [s \in Sessions |-> "none"]
  /\ streams = [s \in Sessions |-> 0]
  /\ poolIdx = 0
  /\ pc = [p \in Procs |-> IF p \in Conns THEN "new" ELSE "unborn"]
  /\ at = [p \in Procs |-> None]
  /\ scan = [c \in Conns |-> NoScan]
  /\ mon = 0

-----------------------------------------------------------------------------
(* The lock, and the slice under it.                                       *)

Readers == {c \in Conns : pc[c] \in {"scan", "least"}}
CanRead == mon = 0
CanWrite == mon = 0 /\ Readers = {}

\* removeSession: the first entry equal to s, if there is one
RemoveSession(s) ==
  \/ \E i \in 1..Len(pool) :
       /\ pool[i] = s
       /\ \A j \in 1..(i - 1) : pool[j] # s
       /\ pool' = RemoveAt(pool, i)
  \/ /\ s \notin Range(pool)
     /\ UNCHANGED pool

Goto(p, to) == pc' = [pc EXCEPT ![p] = to]
Add(s, d) == streams' = [streams EXCEPT ![s] = @ + d]

-----------------------------------------------------------------------------
(* handleTunnel, one goroutine per HTTP request.                           *)

\* A request that is no upgrade gets the decoy; a failed hijack, write or
\* wrapping closes the connection.
Reject(s) ==
  /\ handler[s] = "idle"
  /\ handler' = [handler EXCEPT ![s] = "rejected"]
  /\ UNCHANGED <<pool, link, streams, poolIdx, pc, at, scan, mon>>

\* smux.Server has started its loops: the session lives before it is pooled.
StartSession(s) ==
  /\ handler[s] = "idle"
  /\ handler' = [handler EXCEPT ![s] = "starting"]
  /\ link' = [link EXCEPT ![s] = "live"]
  /\ UNCHANGED <<pool, streams, poolIdx, pc, at, scan, mon>>

AddSession(s) ==
  /\ handler[s] = "starting"
  /\ CanWrite
  /\ handler' = [handler EXCEPT ![s] = "accepting"]
  /\ pool' = Append(pool, s)
  /\ UNCHANGED <<link, streams, poolIdx, pc, at, scan, mon>>

\* AcceptStream selects among the queue, the socket error and the closed flag:
\* a queued stream may be returned whatever the state of the session.
AcceptStream(s, p) ==
  /\ handler[s] = "accepting"
  /\ pc[p] = "unborn"
  /\ Goto(p, "spawned")
  /\ at' = [at EXCEPT ![p] = s]
  /\ UNCHANGED <<pool, handler, link, streams, poolIdx, scan, mon>>

AcceptError(s) ==
  /\ handler[s] = "accepting"
  /\ link[s] \in {"broken", "closed"}
  /\ handler' = [handler EXCEPT ![s] = "leaving"]
  /\ UNCHANGED <<pool, link, streams, poolIdx, pc, at, scan, mon>>

\* Mutant: the goroutine ends without removeSession.
LeaveRemove_Kept(s) ==
  /\ handler[s] = "leaving"
  /\ handler' = [handler EXCEPT ![s] = "closing"]
  /\ UNCHANGED <<pool, link, streams, poolIdx, pc, at, scan, mon>>

LeaveRemove(s) ==
  /\ handler[s] = "leaving"
  /\ CanWrite
  /\ RemoveSession(s)
  /\ handler' = [handler EXCEPT ![s] = "closing"]
  /\ UNCHANGED <<link, streams, poolIdx, pc, at, scan, mon>>

\* Mutant: the goroutine ends without sess.Close().
LeaveClose_Open(s) ==
  /\ handler[s] = "closing"
  /\ handler' = [handler EXCEPT ![s] = "done"]
  /\ UNCHANGED <<pool, link, streams, poolIdx, pc, at, scan, mon>>

LeaveClose(s) ==
  /\ handler[s] = "closing"
  /\ handler' = [handler EXCEPT ![s] = "done"]
  /\ link' = [link EXCEPT ![s] = "closed"]
  /\ UNCHANGED <<pool, streams, poolIdx, pc, at, scan, mon>>

-----------------------------------------------------------------------------
(* smux under the session (external): the socket fails, or keep-alive runs *)
(* out and closes the session.                                             *)

BreakLink(s) ==
  /\ link[s] = "live"
  /\ link' = [link EXCEPT ![s] = "broken"]
  /\ UNCHANGED <<pool, handler, streams, poolIdx, pc, at, scan, mon>>

KeepAliveExpires(s) ==
  /\ link[s] \in {"live", "broken"}
  /\ link' = [link EXCEPT ![s] = "closed"]
  /\ UNCHANGED <<pool, handler, streams, poolIdx, pc, at, scan, mon>>

-----------------------------------------------------------------------------
(* handleStream: one goroutine per stream accepted from a client.          *)

CountInbound(p) ==
  /\ pc[p] = "spawned"
  /\ Add(at[p], 1)
  /\ Goto(p, "type")
  /\ UNCHANGED <<pool, handler, link, poolIdx, at, scan, mon>>

\* The type byte is StreamTypeForward, the header is well formed, the dial
\* succeeds: each read has a deadline, the dial a timeout.
InboundProgress(p) ==
  /\ \/ pc[p] = "type" /\ Goto(p, "header")
     \/ pc[p] = "header" /\ Goto(p, "dial")
     \/ pc[p] = "dial" /\ Goto(p, "relay")
  /\ UNCHANGED <<pool, handler, link, streams, poolIdx, at, scan, mon>>

\* Any return of handleStream: a deadline, an unknown type, a bad length, a
\* failed dial, or the end of the relay; the deferred function uncounts.
InboundExit(p) ==
  /\ p \in Inbound
  /\ pc[p] \in {"type", "header", "dial", "relay"}
  /\ Add(at[p], -1)
  /\ Goto(p, "done")
  /\ UNCHANGED <<pool, handler, link, poolIdx, at, scan, mon>>

-----------------------------------------------------------------------------
(* handleReverseTCPConn and openReverseStream: one goroutine per user.     *)

\* int(u) for a uint64 u, and Go's % which takes the sign of the dividend
ToInt(u) == IF u <= IntMax THEN u ELSE u - 2 * (IntMax + 1)
GoRem(a, n) == IF a >= 0 THEN a % n ELSE -((-a) % n)

NoSessions(c) ==
  /\ pc[c] = "new"
  /\ CanRead
  /\ pool = <<>>
  /\ Goto(c, "failed")
  /\ UNCHANGED <<pool, handler, link, streams, poolIdx, at, scan, mon>>

\* Mutant: the slice is read without RLock.
BeginScan_NoLock(c) ==
  /\ pc[c] = "new"
  /\ pool # <<>>
  /\ poolIdx' = (poolIdx + 1) % (2 * (IntMax + 1))
  /\ scan' = [scan EXCEPT ![c].start = GoRem(ToInt(poolIdx'), Len(pool))]
  /\ Goto(c, "scan")
  /\ UNCHANGED <<pool, handler, link, streams, at, mon>>

BeginScan(c) ==
  /\ pc[c] = "new"
  /\ CanRead
  /\ pool # <<>>
  /\ poolIdx' = (poolIdx + 1) % (2 * (IntMax + 1))
  /\ scan' = [scan EXCEPT ![c].start = GoRem(ToInt(poolIdx'), Len(pool))]
  /\ Goto(c, "scan")
  /\ UNCHANGED <<pool, handler, link, streams, at, mon>>

\* Mutant: (startIdx + i) is not reduced modulo n.
ScanIndex_NoMod(c) == scan[c].start + scan[c].i + 1

ScanIndex(c) == GoRem(scan[c].start + scan[c].i, Len(pool)) + 1
Eligible(s) == link[s] # "closed" /\ streams[s] < MaxStreams

ScanSkip(c) ==
  /\ pc[c] = "scan"
  /\ scan[c].i < Len(pool)
  /\ ScanIndex(c) \in 1..Len(pool)
  /\ ~Eligible(pool[ScanIndex(c)])
  /\ scan' = [scan EXCEPT ![c].i = @ + 1]
  /\ UNCHANGED <<pool, handler, link, streams, poolIdx, pc, at, mon>>

ScanPick(c) ==
  /\ pc[c] = "scan"
  /\ scan[c].i < Len(pool)
  /\ ScanIndex(c) \in 1..Len(pool)
  /\ Eligible(pool[ScanIndex(c)])
  /\ at' = [at EXCEPT ![c] = pool[ScanIndex(c)]]
  /\ scan' = [scan EXCEPT ![c] = NoScan]
  /\ Goto(c, "open")
  /\ UNCHANGED <<pool, handler, link, streams, poolIdx, mon>>

\* s.sessions[idx] with a negative idx: the panic ends the process
ScanPanic(c) ==
  /\ pc[c] = "scan"
  /\ scan[c].i < Len(pool)
  /\ ScanIndex(c) \notin 1..Len(pool)
  /\ Goto(c, "panic")
  /\ UNCHANGED <<pool, handler, link, streams, poolIdx, at, scan, mon>>

\* bestSS == nil: the read lock is released, leastLoadedSession takes it again.
ScanEnd(c) ==
  /\ pc[c] = "scan"
  /\ scan[c].i >= Len(pool)
  /\ scan' = [scan EXCEPT ![c] = NoScan]
  /\ Goto(c, "overloaded")
  /\ UNCHANGED <<pool, handler, link, streams, poolIdx, at, mon>>

BeginLeast(c) ==
  /\ pc[c] = "overloaded"
  /\ CanRead
  /\ Goto(c, "least")
  /\ UNCHANGED <<pool, handler, link, streams, poolIdx, at, scan, mon>>

\* Mutant: the second scan honours the limit as well.
Better_Limited(c, s) ==
  /\ link[s] # "closed"
  /\ streams[s] < MaxStreams
  /\ at[c] = None \/ streams[s] < scan[c].load

\* at[c] is best, scan[c].load is bestLoad
Better(c, s) ==
  link[s] # "closed" /\ (at[c] = None \/ streams[s] < scan[c].load)

LeastStep(c) ==
  /\ pc[c] = "least"
  /\ scan[c].i < Len(pool)
  /\ LET s == pool[scan[c].i + 1] IN
       IF Better(c, s)
       THEN /\ at' = [at EXCEPT ![c] = s]
            /\ scan' = [scan EXCEPT ![c].i = @ + 1, ![c].load = streams[s]]
       ELSE /\ scan' = [scan EXCEPT ![c].i = @ + 1]
            /\ UNCHANGED at
  /\ UNCHANGED <<pool, handler, link, streams, poolIdx, pc, mon>>

\* Mutant: bestSS == nil is not checked.
LeastEnd_Unchecked(c) ==
  /\ pc[c] = "least"
  /\ scan[c].i >= Len(pool)
  /\ scan' = [scan EXCEPT ![c] = NoScan]
  /\ Goto(c, "open")
  /\ UNCHANGED <<pool, handler, link, streams, poolIdx, at, mon>>

\* Mutant: a user who finds every session full starts over.
LeastEnd_Retry(c) ==
  /\ pc[c] = "least"
  /\ scan[c].i >= Len(pool)
  /\ scan' = [scan EXCEPT ![c] = NoScan]
  /\ Goto(c, IF at[c] = None THEN "overloaded" ELSE "open")
  /\ UNCHANGED <<pool, handler, link, streams, poolIdx, at, mon>>

LeastEnd(c) ==
  /\ pc[c] = "least"
  /\ scan[c].i >= Len(pool)
  /\ scan' = [scan EXCEPT ![c] = NoScan]
  /\ Goto(c, IF at[c] = None THEN "failed" ELSE "open")
  /\ UNCHANGED <<pool, handler, link, streams, poolIdx, at, mon>>

\* OpenStream fails on a closed session, and on any other when the SYN is not
\* written in time; it may succeed on one whose receiving side is broken.
OpenOk(c) ==
  /\ pc[c] = "open"
  /\ link[at[c]] # "closed"
  /\ Goto(c, "opened")
  /\ UNCHANGED <<pool, handler, link, streams, poolIdx, at, scan, mon>>

OpenFail(c) ==
  /\ pc[c] = "open"
  /\ Goto(c, "evict")
  /\ UNCHANGED <<pool, handler, link, streams, poolIdx, at, scan, mon>>

Evict(c) ==
  /\ pc[c] = "evict"
  /\ CanWrite
  /\ RemoveSession(at[c])
  /\ Goto(c, "shut")
  /\ UNCHANGED <<handler, link, streams, poolIdx, at, scan, mon>>

\* Mutant: the evicted session is not closed.
EvictClose_Open(c) ==
  /\ pc[c] = "shut"
  /\ Goto(c, "failed")
  /\ UNCHANGED <<pool, handler, link, streams, poolIdx, at, scan, mon>>

EvictClose(c) ==
  /\ pc[c] = "shut"
  /\ link' = [link EXCEPT ![at[c]] = "closed"]
  /\ Goto(c, "failed")
  /\ UNCHANGED <<pool, handler, streams, poolIdx, at, scan, mon>>

CountStream(c) ==
  /\ pc[c] = "opened"
  /\ Add(at[c], 1)
  /\ Goto(c, "tag")
  /\ UNCHANGED <<pool, handler, link, poolIdx, at, scan, mon>>

\* The type tag, then the target header; a write to a closed session fails.
WriteOk(c) ==
  /\ \/ pc[c] = "tag" /\ Goto(c, "target")
     \/ pc[c] = "target" /\ Goto(c, "relay")
  /\ link[at[c]] # "closed"
  /\ UNCHANGED <<pool, handler, link, streams, poolIdx, at, scan, mon>>

\* Mutant: an error return forgets the counter.
WriteFail_Counted(c) ==
  /\ pc[c] \in {"tag", "target"}
  /\ Goto(c, "failed")
  /\ UNCHANGED <<pool, handler, link, streams, poolIdx, at, scan, mon>>

WriteFail(c) ==
  /\ pc[c] \in {"tag", "target"}
  /\ Add(at[c], -1)
  /\ Goto(c, "failed")
  /\ UNCHANGED <<pool, handler, link, poolIdx, at, scan, mon>>

\* Mutants: the deferred function uncounts twice, or not at all.
RelayEnd_Twice(c) ==
  /\ c \in Conns
  /\ pc[c] = "relay"
  /\ Add(at[c], -2)
  /\ Goto(c, "done")
  /\ UNCHANGED <<pool, handler, link, poolIdx, at, scan, mon>>
RelayEnd_Counted(c) ==
  /\ c \in Conns
  /\ pc[c] = "relay"
  /\ Goto(c, "done")
  /\ UNCHANGED <<pool, handler, link, streams, poolIdx, at, scan, mon>>

RelayEnd(c) ==
  /\ c \in Conns
  /\ pc[c] = "relay"
  /\ Add(at[c], -1)
  /\ Goto(c, "done")
  /\ UNCHANGED <<pool, handler, link, poolIdx, at, scan, mon>>

-----------------------------------------------------------------------------
(* healthMonitor: one pass over the pool under the write lock.             *)

MonitorLock ==
  /\ CanWrite
  /\ mon' = 1
  /\ UNCHANGED <<pool, handler, link, streams, poolIdx, pc, at, scan>>

\* The pass compacts the slice in place.  Nobody reads it before the unlock,
\* so dropping an entry when it is looked at is the same.
MonitorStep ==
  /\ mon \in 1..Len(pool)
  /\ IF link[pool[mon]] = "closed"
     THEN pool' = RemoveAt(pool, mon) /\ UNCHANGED mon
     ELSE mon' = mon + 1 /\ UNCHANGED pool
  /\ UNCHANGED <<handler, link, streams, poolIdx, pc, at, scan>>

\* Mutant: the monitor does not unlock.
MonitorUnlock_Never ==
  /\ mon > Len(pool)
  /\ UNCHANGED vars

MonitorUnlock ==
  /\ mon > Len(pool)
  /\ mon' = 0
  /\ UNCHANGED <<pool, handler, link, streams, poolIdx, pc, at, scan>>

-----------------------------------------------------------------------------

TunnelStep(s) ==
  \/ Reject(s) \/ StartSession(s) \/ AddSession(s) \/ AcceptError(s)
  \/ LeaveRemove(s) \/ LeaveClose(s)

LinkStep(s) == BreakLink(s) \/ KeepAliveExpires(s)

InboundStep(p) == CountInbound(p) \/ InboundProgress(p) \/ InboundExit(p)

OpenStep(c) ==
  \/ NoSessions(c) \/ BeginScan(c) \/ ScanSkip(c) \/ ScanPick(c) \/ ScanPanic(c)
  \/ ScanEnd(c) \/ BeginLeast(c) \/ LeastStep(c) \/ LeastEnd(c)

ConnStep(c) ==
  \/ OpenStep(c) \/ OpenOk(c) \/ OpenFail(c) \/ Evict(c) \/ EvictClose(c)
  \/ CountStream(c) \/ WriteOk(c) \/ WriteFail(c) \/ RelayEnd(c)

MonitorPass == MonitorLock \/ MonitorStep \/ MonitorUnlock

Panicked == \E c \in Conns : pc[c] = "panic"

Next ==
  /\ ~Panicked
  /\ \/ \E s \in Sessions : TunnelStep(s) \/ LinkStep(s)
     \/ \E s \in Sessions, p \in Inbound : AcceptStream(s, p)
     \/ \E p \in Inbound : InboundStep(p)
     \/ \E c \in Conns : ConnStep(c)
     \/ MonitorPass

Spec == Init /\ [][Next]_vars

-----------------------------------------------------------------------------
(* Fairness.  A blocked Lock keeps new readers out and a starving RLock or  *)
(* Lock is served (sync.RWMutex), hence strong fairness where the lock is   *)
(* taken; reads have deadlines, the dial and OpenStream time out, and every *)
(* call on a stream of a closed session returns.  Nothing is assumed of a   *)
(* write or a relay on a session that lives: the peer may stall it.         *)

OpenSettles(c) == OpenOk(c) \/ OpenFail(c)
InboundTimed(p) ==
  pc[p] # "relay" /\ (CountInbound(p) \/ InboundProgress(p) \/ InboundExit(p))
Severed(p) == /\ at[p] # None /\ link[at[p]] = "closed"
              /\ InboundExit(p) \/ WriteFail(p) \/ RelayEnd(p)

Fairness ==
  /\ \A s \in Sessions : /\ SF_vars(AddSession(s)) /\ WF_vars(AcceptError(s))
                          /\ SF_vars(LeaveRemove(s)) /\ WF_vars(LeaveClose(s))
  /\ \A p \in Inbound : WF_vars(InboundTimed(p))
  /\ \A p \in Procs : WF_vars(Severed(p))
  /\ \A c \in Conns : /\ SF_vars(OpenStep(c)) /\ WF_vars(OpenSettles(c))
                       /\ SF_vars(Evict(c)) /\ WF_vars(EvictClose(c))
                       /\ WF_vars(CountStream(c))
  /\ WF_vars(MonitorPass)

FairSpec == Spec /\ Fairness

-----------------------------------------------------------------------------
(* Invariants                                                              *)

TypeOK ==
  /\ pool \in Seq(Sessions)
  /\ handler \in [Sessions -> HandlerStates]
  /\ link \in [Sessions -> {"none", "live", "broken", "closed"}]
  /\ streams \in [Sessions -> Int]
  /\ poolIdx \in 0..(2 * IntMax + 1)
  /\ pc \in [Procs -> ConnStates \cup InboundStates]
  /\ \A c \in Conns : pc[c] \in ConnStates
  /\ \A p \in Inbound : pc[p] \in InboundStates
  /\ at \in [Procs -> Sessions \cup {None}]
  /\ \A p \in Procs : pc[p] \in Picked => at[p] \in Sessions
  /\ scan \in [Conns -> [start : Int, i : Nat, load : Int]]
  /\ mon \in Nat

\* A session is in the pool at most once, and only while its goroutine has
\* still to take it out: removeSession, which drops one entry, leaves none.
PoolOwned ==
  /\ IsInjective(pool)
  /\ \A s \in Range(pool) : handler[s] \in {"accepting", "leaving"}

\* serverSession.streams, kept by atomic additions on every path of three
\* functions, is the number of streams that are between the two additions:
\* no error path counts a stream twice or forgets it.
CountExact == \A s \in Sessions : streams[s] = Cardinality(Holders(s))

\* A session whose goroutine still accepts streams is in the pool, or it is
\* closed, or the user who evicted it is about to close it: no live tunnel is
\* left that users cannot be given.
NoOrphanSession ==
  \A s \in Sessions :
    handler[s] = "accepting" =>
      \/ s \in Range(pool)
      \/ link[s] = "closed"
      \/ \E c \in Conns : pc[c] = "shut" /\ at[c] = s

\* The round-robin scan stays inside the slice: openReverseStream does not
\* panic on s.sessions[idx], as its comment "with overflow protection" says.
NoIndexPanic == ~Panicked

\* What the above rest on: the monitor and a scan exclude each other; whoever
\* has a session got one that was added; a scan for the least loaded session
\* has best = nil only while it has met closed sessions alone; and while the
\* users so far fit an int, the counter is at most their number.
LockExclusion == mon = 0 \/ Readers = {}

Joined == {"accepting", "leaving", "closing", "done"}
PickedJoined == \A p \in Procs : at[p] # None => handler[at[p]] \in Joined

LeastSeen ==
  \A c \in Conns :
    /\ pc[c] = "overloaded" => scan[c] = NoScan
    /\ pc[c] = "least" /\ at[c] = None =>
         \A k \in 1..Len(pool) : k <= scan[c].i => link[pool[k]] = "closed"

Fits == Cardinality(Conns) <= IntMax
New == {c \in Conns : pc[c] = "new"}
CounterFits ==
  Fits => /\ poolIdx + Cardinality(New) <= Cardinality(Conns)
          /\ \A c \in Conns : scan[c].start >= 0

PoolInv == LockExclusion /\ PickedJoined /\ LeastSeen /\ CounterFits

\* Only the conversion of the counter can take the scan out of the slice; a
\* session added or removed by another goroutine never does.
PanicOnlyByOverflow ==
  \A c \in Conns : pc[c] = "panic" => scan[c].start < 0

-----------------------------------------------------------------------------
(* Action properties                                                       *)

\* "all sessions full" is only said when every session of the pool is closed:
\* the second scan ignores the limit, and nothing it skipped can come back
\* while it holds the read lock.
FullOnlyIfAllClosed ==
  [][\A c \in Conns :
       pc[c] = "least" /\ pc'[c] = "failed" =>
         \A s \in Range(pool) : link[s] = "closed"]_vars

\* The promise to the rest of the server (see PoolLedger): a session joins and
\* leaves the pool once, whichever of handleTunnel, a user and the monitor
\* removes it, and no stream is uncounted that was not counted.
Retired == {s \in Sessions : handler[s] \in Joined /\ s \notin Range(pool)}

Ledger == INSTANCE PoolLedger
            WITH members <- Range(pool), gone <- Retired, load <- streams

ImplementsLedger == Ledger!Spec

-----------------------------------------------------------------------------
(* Liveness                                                                *)

\* A closed session leaves the pool for good, even if it closed before
\* handleTunnel had added it.
ClosedLeavesPool ==
  \A s \in Sessions : link[s] = "closed" ~> [](s \notin Range(pool))

\* The counter of a closed session comes back to zero and stays there.
ClosedDrains ==
  \A s \in Sessions : link[s] = "closed" ~> [](streams[s] = 0)

\* A session whose socket failed is closed, whoever notices first.
BrokenCloses == \A s \in Sessions : link[s] = "broken" ~> link[s] = "closed"

\* A session that has left the pool is closed: neither eviction nor the end of
\* handleTunnel leaks it.
RetiredCloses == \A s \in Sessions : s \in Retired ~> link[s] = "closed"

\* A user who connects is given a stream or is turned away.
UserServed == \A c \in Conns : pc[c] = "new" ~> pc[c] \in {"tag", "failed"}
=============================================================================
