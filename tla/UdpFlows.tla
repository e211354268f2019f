------------------------------ MODULE UdpFlows ------------------------------
(***************************************************************************)
(* One reverse UDP port of the server: startReverseUDP of src/server.go.   *)
(* Three kinds of goroutine share the map of flows under mu: the loop that *)
(* reads datagrams (and keeps mu while it opens a stream), a reader per    *)
(* flow, and the sweeper of idle flows.                                    *)
(***************************************************************************)
EXTENDS Integers, FiniteSets

CONSTANTS
  Addrs,   \* source addresses of datagrams
  Flows,   \* the udpPeer objects, each allocated once
  None

ASSUME NoneAssumption == None \notin Flows /\ None \notin Addrs
ASSUME FlowsAssumption == IsFiniteSet(Flows)

VARIABLES
  peers,   \* the map: address -> flow, or None
  raddr,   \* the address a flow was opened for
  stream,  \* its stream: "closed" by the sweeper, "ended" by the other side
  reader,  \* its reader goroutine
  stale,   \* lastSeen is older than UDPFlowTimeout
  loop,    \* the datagram loop
  key,     \* the address of the datagram it handles
  cur,     \* the flow it has looked up
  sweep,   \* the addresses the sweeper has still to visit
  load     \* the additions to the stream counters of sessions by these flows

vars == <<peers, raddr, stream, reader, stale, loop, key, cur, sweep, load>>
flow == <<raddr, stream, reader, stale>>

StreamStates == {"none", "open", "closed", "ended"}
ReaderStates == {"none", "reading", "leaving", "uncounting", "done"}

Init ==
  /\ peers = [a \in Addrs |-> None]
  /\ raddr = [f \in Flows |-> None]
  /\ stream = [f \in Flows |-> "none"]
  /\ reader = [f \in Flows |-> "none"]
  /\ stale = [f \in Flows |-> FALSE]
  /\ loop = "receive"
  /\ key = None
  /\ cur = None
  /\ sweep = {}
  /\ load = 0

\* mu is held by the loop while it opens a stream, and by the sweeper's pass.
Unlocked == loop # "open" /\ sweep = {}

Mapped(f) == \E a \in Addrs : peers[a] = f

-----------------------------------------------------------------------------
(* The datagram loop.                                                      *)

Receive(a) ==
  /\ loop = "receive"
  /\ loop' = "lookup"
  /\ key' = a
  /\ UNCHANGED <<peers, flow, cur, sweep, load>>

\* Mutant: the loop takes what the map has without the ok check.
Hit_Unchecked ==
  /\ loop = "lookup"
  /\ Unlocked
  /\ cur' = peers[key]
  /\ loop' = "touch"
  /\ UNCHANGED <<peers, flow, key, sweep, load>>

Hit ==
  /\ loop = "lookup"
  /\ Unlocked
  /\ peers[key] # None
  /\ cur' = peers[key]
  /\ loop' = "touch"
  /\ UNCHANGED <<peers, flow, key, sweep, load>>

Miss ==
  /\ loop = "lookup"
  /\ Unlocked
  /\ peers[key] = None
  /\ loop' = "open"
  /\ UNCHANGED <<peers, flow, key, cur, sweep, load>>

\* openReverseStream (module SessionPool) returns a stream it has counted; the
\* reader is started and mu released.
OpenOk(f) ==
  /\ loop = "open"
  /\ reader[f] = "none"
  /\ raddr' = [raddr EXCEPT ![f] = key]
  /\ stream' = [stream EXCEPT ![f] = "open"]
  /\ reader' = [reader EXCEPT ![f] = "reading"]
  /\ peers' = [peers EXCEPT ![key] = f]
  /\ cur' = f
  /\ load' = load + 1
  /\ loop' = "touch"
  /\ UNCHANGED <<stale, key, sweep>>

OpenFail ==
  /\ loop = "open"
  /\ loop' = "receive"
  /\ UNCHANGED <<peers, flow, key, cur, sweep, load>>

\* lastSeen is stored after mu.Unlock: the flow may have been swept meanwhile.
Touch ==
  /\ loop = "touch"
  /\ stale' = [stale EXCEPT ![cur] = FALSE]
  /\ loop' = "write"
  /\ UNCHANGED <<peers, raddr, stream, reader, key, cur, sweep, load>>

\* stream.Write has no deadline: it waits while the peer's window is full, and
\* returns when the stream ends.
Write ==
  /\ loop = "write"
  /\ loop' = "receive"
  /\ UNCHANGED <<peers, flow, key, cur, sweep, load>>

-----------------------------------------------------------------------------
(* The reader of a flow.                                                   *)

\* Read returns what is buffered even when the stream has ended.
ReadData(f) ==
  /\ reader[f] = "reading"
  /\ stale' = [stale EXCEPT ![f] = FALSE]
  /\ UNCHANGED <<peers, raddr, stream, reader, loop, key, cur, sweep, load>>

ReadError(f) ==
  /\ reader[f] = "reading"
  /\ stream[f] \in {"closed", "ended"}
  /\ reader' = [reader EXCEPT ![f] = "leaving"]
  /\ UNCHANGED <<peers, raddr, stream, stale, loop, key, cur, sweep, load>>

\* Mutant: the entry is left to the sweeper.
Forget_NoDelete(f) ==
  /\ reader[f] = "leaving"
  /\ reader' = [reader EXCEPT ![f] = "uncounting"]
  /\ UNCHANGED <<peers, raddr, stream, stale, loop, key, cur, sweep, load>>

\* Mutant: the reader waits to find its own entry.
Forget_OwnOnly(f) ==
  /\ reader[f] = "leaving"
  /\ Unlocked
  /\ peers[raddr[f]] = f
  /\ peers' = [peers EXCEPT ![raddr[f]] = None]
  /\ reader' = [reader EXCEPT ![f] = "uncounting"]
  /\ UNCHANGED <<raddr, stream, stale, loop, key, cur, sweep, load>>

\* delete(peers, raddr.String()): whatever flow the address has now
Forget(f) ==
  /\ reader[f] = "leaving"
  /\ Unlocked
  /\ peers' = [peers EXCEPT ![raddr[f]] = None]
  /\ reader' = [reader EXCEPT ![f] = "uncounting"]
  /\ UNCHANGED <<raddr, stream, stale, loop, key, cur, sweep, load>>

\* Mutant: the deferred decrement is skipped.
Uncount_Skipped(f) ==
  /\ reader[f] = "uncounting"
  /\ reader' = [reader EXCEPT ![f] = "done"]
  /\ UNCHANGED <<peers, raddr, stream, stale, loop, key, cur, sweep, load>>

Uncount(f) ==
  /\ reader[f] = "uncounting"
  /\ reader' = [reader EXCEPT ![f] = "done"]
  /\ load' = load - 1
  /\ UNCHANGED <<peers, raddr, stream, stale, loop, key, cur, sweep>>

-----------------------------------------------------------------------------
(* The sweeper, the other side of a stream, and time.                      *)

SweepStart ==
  /\ Unlocked
  /\ sweep' = {a \in Addrs : peers[a] # None}
  /\ UNCHANGED <<peers, flow, loop, key, cur, load>>

\* Mutant: the comparison with the timeout is the wrong way round.
SweepVisit_Fresh(a) ==
  /\ a \in sweep
  /\ sweep' = sweep \ {a}
  /\ IF ~stale[peers[a]]
     THEN /\ stream' = [stream EXCEPT ![peers[a]] =
                          IF @ = "open" THEN "closed" ELSE @]
          /\ peers' = [peers EXCEPT ![a] = None]
     ELSE UNCHANGED <<peers, stream>>
  /\ UNCHANGED <<raddr, reader, stale, loop, key, cur, load>>

\* The map is walked in any order; lastSeen is read when an entry is reached.
SweepVisit(a) ==
  /\ a \in sweep
  /\ sweep' = sweep \ {a}
  /\ IF stale[peers[a]]
     THEN /\ stream' = [stream EXCEPT ![peers[a]] =
                          IF @ = "open" THEN "closed" ELSE @]
          /\ peers' = [peers EXCEPT ![a] = None]
     ELSE UNCHANGED <<peers, stream>>
  /\ UNCHANGED <<raddr, reader, stale, loop, key, cur, load>>

\* The other side closes the stream, or its session dies (external).
StreamEnds(f) ==
  /\ stream[f] = "open"
  /\ stream' = [stream EXCEPT ![f] = "ended"]
  /\ UNCHANGED <<peers, raddr, reader, stale, loop, key, cur, sweep, load>>

Age(f) ==
  /\ stream[f] # "none"
  /\ stale' = [stale EXCEPT ![f] = TRUE]
  /\ UNCHANGED <<peers, raddr, stream, reader, loop, key, cur, sweep, load>>

-----------------------------------------------------------------------------

Loop ==
  \/ \E a \in Addrs : Receive(a)
  \/ Hit \/ Miss \/ (\E f \in Flows : OpenOk(f)) \/ OpenFail \/ Touch \/ Write

Reader(f) == ReadData(f) \/ ReadError(f) \/ Forget(f) \/ Uncount(f)

Sweeper == SweepStart \/ \E a \in Addrs : SweepVisit(a)

Next ==
  \/ Loop
  \/ Sweeper
  \/ \E f \in Flows : Reader(f) \/ StreamEnds(f) \/ Age(f)

\* Goroutines run, a blocked Lock is served (sync.Mutex hands over to a starved
\* waiter), and the sweeper's ticker ticks.  No fairness for the call that
\* opens a stream nor for Write while the stream is open: neither is timed.
Fairness ==
  /\ SF_vars(Hit) /\ SF_vars(Miss) /\ WF_vars(Touch)
  /\ WF_vars(Write /\ stream[cur] # "open")
  /\ SF_vars(SweepStart)
  /\ \A a \in Addrs : WF_vars(SweepVisit(a))
  /\ \A f \in Flows : /\ WF_vars(ReadError(f))
                       /\ SF_vars(Forget(f))
                       /\ WF_vars(Uncount(f))

Spec == Init /\ [][Next]_vars
FairSpec == Spec /\ Fairness

-----------------------------------------------------------------------------

TypeOK ==
  /\ peers \in [Addrs -> Flows \cup {None}]
  /\ raddr \in [Flows -> Addrs \cup {None}]
  /\ stream \in [Flows -> StreamStates]
  /\ reader \in [Flows -> ReaderStates]
  /\ stale \in [Flows -> BOOLEAN]
  /\ loop \in {"receive", "lookup", "open", "touch", "write"}
  /\ key \in Addrs \cup {None}
  /\ loop # "receive" => key \in Addrs
  /\ cur \in Flows \cup {None}
  /\ loop \in {"touch", "write"} => cur \in Flows
  /\ sweep \subseteq {a \in Addrs : peers[a] # None}
  /\ load \in Int

\* An entry of the map is a flow of that address whose reader has not yet
\* forgotten it: the loop never writes to the flow of another address.
MapSound ==
  \A a \in Addrs : peers[a] # None =>
    raddr[peers[a]] = a /\ reader[peers[a]] \in {"reading", "leaving"}

\* Every stream these flows have counted on a session is uncounted once,
\* when its reader is done: also when the sweeper and the reader both drop the
\* entry, and when the stream is swept while the loop still writes to it.
Live == {f \in Flows : reader[f] \in {"reading", "leaving", "uncounting"}}
LoadExact == load = Cardinality(Live)

\* The comment of the sweeper's Close says that it "triggers reader goroutine
\* exit + cleanup".  The cleanup deletes by address: when the peer has sent
\* again before it runs, it drops the new flow, whose stream stays open and
\* counted with no entry through which the sweeper could time it out.
OpenFlowsMapped ==
  \A f \in Flows :
    reader[f] = "reading" /\ stream[f] = "open" => peers[raddr[f]] = f

\* Both properties below hold as long as the loop does not hang in the call
\* that opens a stream, which it makes with mu held and without a deadline.
OpensReturn == []<>(loop # "open")

\* A reader whose stream was closed by the sweeper or the other side leaves and
\* gives its place back.
ReadersLeave ==
  OpensReturn =>
    \A f \in Flows : stream[f] \in {"closed", "ended"} ~> reader[f] = "done"

\* No flow stays idle in the map for ever, even one the loop is blocked on.
IdleFlowsSwept ==
  OpensReturn => \A f \in Flows : ~<>[](Mapped(f) /\ stale[f])
=============================================================================
