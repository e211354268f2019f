------------------------- MODULE SessionPool_proofs -------------------------
(***************************************************************************)
(* Proofs about the session pool, for every number of sessions, users and  *)
(* streams.                                                                *)
(***************************************************************************)
EXTENDS SessionPool, SliceLemmas, FiniteSetTheorems, TLAPS

-----------------------------------------------------------------------------
(* The slice under removeSession.                                          *)

LEMMA RemoveSessionType ==
  ASSUME TypeOK, NEW s, RemoveSession(s)
  PROVE  pool' \in Seq(Sessions)
BY RemoveAtElements DEF TypeOK, RemoveSession

LEMMA RemoveSessionRange ==
  ASSUME TypeOK, IsInjective(pool), NEW s, RemoveSession(s)
  PROVE  /\ IsInjective(pool')
         /\ Range(pool') = Range(pool) \ {s}
BY RemoveAtRange DEF TypeOK, RemoveSession

-----------------------------------------------------------------------------
(* Type correctness.                                                       *)

LEMMA SmallMod ==
  ASSUME NEW m \in Nat, NEW a \in 0..(m - 1)
  PROVE  a % m = a
OBVIOUS

LEMMA GoRemInt ==
  ASSUME NEW a \in Int, NEW n \in Nat \ {0}
  PROVE  GoRem(a, n) \in Int /\ (a >= 0 => GoRem(a, n) \in 0..(n - 1))
BY DEF GoRem

LEMMA NextIndexType ==
  ASSUME NEW r \in [start : Int, i : Nat, load : Int]
  PROVE  [r EXCEPT !.i = r.i + 1] \in [start : Int, i : Nat, load : Int]
<1>1. r.i + 1 \in Nat
  OBVIOUS
<1>2. QED
  BY <1>1

\* The types hold throughout, and a process that has picked a session or was
\* accepted on one has it: bestSS is never nil where it is used.
THEOREM TypeCorrect == Spec => []TypeOK
<1>1. Init => TypeOK
  <2>1. \A p \in Procs : p \in Conns \/ p \in Inbound
    BY DEF Procs
  <2>2. QED
    BY <2>1, ProcsAssumption, LimitsAssumption
       DEF Init, TypeOK, Picked, Counted, ConnStates, InboundStates,
           HandlerStates, NoScan, Procs
<1>2. ASSUME TypeOK, [Next]_vars
      PROVE  TypeOK'
  <2> USE <1>2 DEF TypeOK, Procs
  <2>1. ASSUME NEW s \in Sessions, TunnelStep(s) \/ LinkStep(s)
        PROVE  TypeOK'
    <3>1. CASE Reject(s)
      BY <3>1 DEF Reject, HandlerStates
    <3>2. CASE StartSession(s)
      BY <3>2 DEF StartSession, HandlerStates
    <3>3. CASE AddSession(s)
      BY AppendRange, <3>3 DEF AddSession, HandlerStates
    <3>4. CASE AcceptError(s)
      BY <3>4 DEF AcceptError, HandlerStates
    <3>5. CASE LeaveRemove(s)
      BY RemoveSessionType, <3>5 DEF LeaveRemove, HandlerStates
    <3>6. CASE LeaveClose(s)
      BY <3>6 DEF LeaveClose, HandlerStates
    <3>7. CASE BreakLink(s)
      BY <3>7 DEF BreakLink, HandlerStates
    <3>8. CASE KeepAliveExpires(s)
      BY <3>8 DEF KeepAliveExpires, HandlerStates
    <3>9. QED
      BY <2>1, <3>1, <3>2, <3>3, <3>4, <3>5, <3>6, <3>7, <3>8 DEF TunnelStep, LinkStep
  <2>2. ASSUME NEW s \in Sessions, NEW p \in Inbound, AcceptStream(s, p)
        PROVE  TypeOK'
    BY <2>2, ProcsAssumption DEF AcceptStream, Goto, InboundStates
  <2>3. ASSUME NEW p \in Inbound, InboundStep(p)
        PROVE  TypeOK'
    <3>1. CASE CountInbound(p)
      BY <3>1, ProcsAssumption DEF CountInbound, Goto, Add, InboundStates, Picked
    <3>2. CASE InboundProgress(p)
      BY <3>2, ProcsAssumption
         DEF InboundProgress, Goto, InboundStates, Picked, Counted
    <3>3. CASE InboundExit(p)
      BY <3>3, ProcsAssumption
         DEF InboundExit, Goto, Add, InboundStates, Picked, Counted
    <3>4. QED
      BY <2>3, <3>1, <3>2, <3>3 DEF InboundStep
  <2>4. ASSUME NEW c \in Conns, ConnStep(c)
        PROVE  TypeOK'
    <3>1. CASE NoSessions(c)
      BY <3>1, ProcsAssumption
         DEF NoSessions, Goto, ConnStates, Picked, Counted
    <3>2. CASE BeginScan(c)
      <4>1. Len(pool) \in Nat \ {0} /\ poolIdx' \in 0..(2 * IntMax + 1)
        BY <3>2, LimitsAssumption DEF BeginScan
      <4>2. GoRem(ToInt(poolIdx'), Len(pool)) \in Int
        <5>1. ToInt(poolIdx') \in Int
          BY <4>1, LimitsAssumption DEF ToInt
        <5>2. QED
          BY <4>1, <5>1, GoRemInt
      <4>3. scan' \in [Conns -> [start : Int, i : Nat, load : Int]]
        BY <3>2, <4>2 DEF BeginScan
      <4>4. QED
        BY <3>2, <4>1, <4>3, ProcsAssumption
           DEF BeginScan, Goto, ConnStates, Picked, Counted
    <3>3. CASE ScanSkip(c)
      <4>1. scan' \in [Conns -> [start : Int, i : Nat, load : Int]]
        <5>1. [scan[c] EXCEPT !.i = scan[c].i + 1]
                \in [start : Int, i : Nat, load : Int]
          BY NextIndexType
        <5>2. scan' = [scan EXCEPT ![c] = [scan[c] EXCEPT !.i = scan[c].i + 1]]
          BY <3>3 DEF ScanSkip
        <5>3. QED
          BY <5>1, <5>2
      <4>2. QED
        BY <3>3, <4>1 DEF ScanSkip
    <3>4. CASE ScanPick(c)
      BY <3>4, ProcsAssumption
         DEF ScanPick, Goto, ConnStates, Picked, Counted, NoScan
    <3>5. CASE ScanPanic(c)
      BY <3>5, ProcsAssumption
         DEF ScanPanic, Goto, ConnStates, Picked, Counted
    <3>6. CASE ScanEnd(c)
      BY <3>6, ProcsAssumption
         DEF ScanEnd, Goto, ConnStates, Picked, Counted, NoScan
    <3>7. CASE BeginLeast(c)
      BY <3>7, ProcsAssumption
         DEF BeginLeast, Goto, ConnStates, Picked, Counted
    <3>8. CASE LeastStep(c)
      <4>1. scan[c].i + 1 \in 1..Len(pool)
        BY <3>8 DEF LeastStep
      <4>2. pool[scan[c].i + 1] \in Sessions
        BY <4>1
      <4>3. scan' \in [Conns -> [start : Int, i : Nat, load : Int]]
        <5> DEFINE r == [scan[c] EXCEPT !.i = scan[c].i + 1]
                   q == [r EXCEPT !.load = streams[pool[scan[c].i + 1]]]
        <5>1. r \in [start : Int, i : Nat, load : Int]
          BY NextIndexType
        <5>2. q \in [start : Int, i : Nat, load : Int]
          BY <4>2, <5>1, streams[pool[scan[c].i + 1]] \in Int
        <5>3. \/ scan' = [scan EXCEPT ![c] = r]
              \/ scan' = [scan EXCEPT ![c] = q]
          BY <3>8 DEF LeastStep
        <5>4. QED
          BY <5>1, <5>2, <5>3
      <4>4. QED
        BY <3>8, <4>2, <4>3, ProcsAssumption
           DEF LeastStep, ConnStates, Picked, Counted
    <3>9. CASE LeastEnd(c)
      BY <3>9, ProcsAssumption
         DEF LeastEnd, Goto, ConnStates, Picked, Counted, NoScan
    <3>10. CASE OpenOk(c)
      BY <3>10, ProcsAssumption
         DEF OpenOk, Goto, ConnStates, Picked, Counted
    <3>11. CASE OpenFail(c)
      BY <3>11, ProcsAssumption
         DEF OpenFail, Goto, ConnStates, Picked, Counted
    <3>12. CASE Evict(c)
      BY RemoveSessionType, <3>12, ProcsAssumption
         DEF Evict, Goto, ConnStates, Picked, Counted
    <3>13. CASE EvictClose(c)
      BY <3>13, ProcsAssumption
         DEF EvictClose, Goto, ConnStates, Picked, Counted
    <3>14. CASE CountStream(c)
      BY <3>14, ProcsAssumption
         DEF CountStream, Goto, ConnStates, Picked, Counted, Add
    <3>15. CASE WriteOk(c)
      BY <3>15, ProcsAssumption
         DEF WriteOk, Goto, ConnStates, Picked, Counted
    <3>16. CASE WriteFail(c)
      BY <3>16, ProcsAssumption
         DEF WriteFail, Goto, ConnStates, Picked, Counted, Add
    <3>17. CASE RelayEnd(c)
      BY <3>17, ProcsAssumption
         DEF RelayEnd, Goto, ConnStates, Picked, Counted, Add
    <3>18. QED
      BY <2>4, <3>1, <3>2, <3>3, <3>4, <3>5, <3>6, <3>7, <3>8, <3>9, <3>10,
         <3>11, <3>12, <3>13, <3>14, <3>15, <3>16, <3>17
         DEF ConnStep, OpenStep
  <2>5. CASE MonitorPass
    <3>1. CASE MonitorLock
      BY <3>1 DEF MonitorLock
    <3>2. CASE MonitorStep
      <4>1. mon \in 1..Len(pool)
        BY <3>2 DEF MonitorStep
      <4>2. pool' \in Seq(Sessions) /\ mon' \in Nat
        <5>1. RemoveAt(pool, mon) \in Seq(Sessions)
          BY <4>1, RemoveAtElements
        <5>2. QED
          BY <3>2, <5>1 DEF MonitorStep
      <4>3. QED
        BY <3>2, <4>2 DEF MonitorStep
    <3>3. CASE MonitorUnlock
      BY <3>3 DEF MonitorUnlock
    <3>4. QED
      BY <2>5, <3>1, <3>2, <3>3 DEF MonitorPass
  <2>6. CASE UNCHANGED vars
    BY <2>6 DEF vars
  <2>7. QED
    BY <2>1, <2>2, <2>3, <2>4, <2>5, <2>6, <1>2 DEF Next
<1>3. QED
  BY <1>1, <1>2, PTL DEF Spec

-----------------------------------------------------------------------------
(* What a step may do to the pool, to a handler and to a session.          *)

LEMMA PoolChange ==
  ASSUME [Next]_vars
  PROVE  \/ \E s \in Sessions : AddSession(s) \/ LeaveRemove(s)
         \/ \E c \in Conns : Evict(c)
         \/ MonitorStep
         \/ UNCHANGED pool
<1>1. ASSUME NEW s \in Sessions, TunnelStep(s) \/ LinkStep(s),
             ~AddSession(s), ~LeaveRemove(s)
      PROVE  UNCHANGED pool
  BY <1>1 DEF TunnelStep, LinkStep, Reject, StartSession, AcceptError,
              LeaveClose, BreakLink, KeepAliveExpires
<1>2. ASSUME NEW s \in Sessions, NEW p \in Inbound, AcceptStream(s, p)
      PROVE  UNCHANGED pool
  BY <1>2 DEF AcceptStream
<1>3. ASSUME NEW p \in Inbound, InboundStep(p)
      PROVE  UNCHANGED pool
  BY <1>3 DEF InboundStep, CountInbound, InboundProgress, InboundExit
<1>4. ASSUME NEW c \in Conns, ConnStep(c), ~Evict(c)
      PROVE  UNCHANGED pool
  BY <1>4 DEF ConnStep, OpenStep, NoSessions, BeginScan, ScanSkip, ScanPick,
              ScanPanic, ScanEnd, BeginLeast, LeastStep, LeastEnd, OpenOk,
              OpenFail, EvictClose, CountStream, WriteOk, WriteFail, RelayEnd
<1>5. ASSUME MonitorPass, ~MonitorStep
      PROVE  UNCHANGED pool
  BY <1>5 DEF MonitorPass, MonitorLock, MonitorUnlock
<1>6. QED
  BY <1>1, <1>2, <1>3, <1>4, <1>5 DEF Next, vars

LEMMA HandlerChange ==
  ASSUME [Next]_vars
  PROVE  \/ \E s \in Sessions : TunnelStep(s)
         \/ UNCHANGED handler
<1>1. ASSUME NEW s \in Sessions, LinkStep(s)
      PROVE  UNCHANGED handler
  BY <1>1 DEF LinkStep, BreakLink, KeepAliveExpires
<1>2. ASSUME NEW s \in Sessions, NEW p \in Inbound, AcceptStream(s, p)
      PROVE  UNCHANGED handler
  BY <1>2 DEF AcceptStream
<1>3. ASSUME NEW p \in Inbound, InboundStep(p)
      PROVE  UNCHANGED handler
  BY <1>3 DEF InboundStep, CountInbound, InboundProgress, InboundExit
<1>4. ASSUME NEW c \in Conns, ConnStep(c)
      PROVE  UNCHANGED handler
  BY <1>4 DEF ConnStep, OpenStep, NoSessions, BeginScan, ScanSkip, ScanPick,
              ScanPanic, ScanEnd, BeginLeast, LeastStep, LeastEnd, OpenOk,
              OpenFail, Evict, EvictClose, CountStream, WriteOk, WriteFail,
              RelayEnd
<1>5. ASSUME MonitorPass
      PROVE  UNCHANGED handler
  BY <1>5 DEF MonitorPass, MonitorLock, MonitorStep, MonitorUnlock
<1>6. QED
  BY <1>1, <1>2, <1>3, <1>4, <1>5 DEF Next, vars

LEMMA ClosedStays ==
  ASSUME TypeOK, [Next]_vars, NEW s \in Sessions,
         handler[s] # "idle", link[s] = "closed"
  PROVE  link'[s] = "closed"
<1> USE DEF TypeOK
<1>1. ASSUME NEW r \in Sessions, TunnelStep(r) \/ LinkStep(r)
      PROVE  link'[s] = "closed"
  BY <1>1 DEF TunnelStep, LinkStep, Reject, StartSession, AddSession,
              AcceptError, LeaveRemove, LeaveClose, BreakLink, KeepAliveExpires
<1>2. ASSUME NEW r \in Sessions, NEW p \in Inbound, AcceptStream(r, p)
      PROVE  link'[s] = "closed"
  BY <1>2 DEF AcceptStream
<1>3. ASSUME NEW p \in Inbound, InboundStep(p)
      PROVE  link'[s] = "closed"
  BY <1>3 DEF InboundStep, CountInbound, InboundProgress, InboundExit
<1>4. ASSUME NEW c \in Conns, ConnStep(c)
      PROVE  link'[s] = "closed"
  <2>1. CASE EvictClose(c)
    BY <2>1 DEF EvictClose
  <2>2. CASE ~EvictClose(c)
    BY <1>4, <2>2
       DEF ConnStep, OpenStep, NoSessions, BeginScan, ScanSkip, ScanPick,
           ScanPanic, ScanEnd, BeginLeast, LeastStep, LeastEnd, OpenOk,
           OpenFail, Evict, CountStream, WriteOk, WriteFail, RelayEnd
  <2>3. QED
    BY <2>1, <2>2
<1>5. ASSUME MonitorPass
      PROVE  link'[s] = "closed"
  BY <1>5 DEF MonitorPass, MonitorLock, MonitorStep, MonitorUnlock
<1>6. QED
  BY <1>1, <1>2, <1>3, <1>4, <1>5 DEF Next, vars

LEMMA JoinedStays ==
  ASSUME TypeOK, [Next]_vars, NEW s \in Sessions, handler[s] \in Joined
  PROVE  handler'[s] \in Joined
<1>1. ASSUME NEW r \in Sessions, TunnelStep(r)
      PROVE  handler'[s] \in Joined
  BY <1>1 DEF TypeOK, Joined, TunnelStep, Reject, StartSession, AddSession,
              AcceptError, LeaveRemove, LeaveClose
<1>2. QED
  BY <1>1, HandlerChange

-----------------------------------------------------------------------------
(* The pool holds a session once, and only while its goroutine will take   *)
(* it out.                                                                 *)

LEMMA MonitorDrops ==
  ASSUME TypeOK, IsInjective(pool), MonitorStep
  PROVE  /\ IsInjective(pool')
         /\ \/ UNCHANGED pool
            \/ \E s \in Range(pool) :
                 link[s] = "closed" /\ Range(pool') = Range(pool) \ {s}
<1>1. mon \in 1..Len(pool) /\ pool \in Seq(Sessions)
  BY DEF MonitorStep, TypeOK
<1>2. pool[mon] \in Range(pool)
  BY <1>1 DEF Range
<1>3. CASE link[pool[mon]] = "closed"
  <2>1. pool' = RemoveAt(pool, mon)
    BY <1>3 DEF MonitorStep
  <2>2. QED
    BY <1>1, <1>2, <1>3, <2>1, RemoveAtRange
<1>4. CASE link[pool[mon]] # "closed"
  BY <1>4 DEF MonitorStep
<1>5. QED
  BY <1>3, <1>4

\* addSession puts a session in once, and each of the three places that take
\* it out leaves no second entry behind.
THEOREM PoolOwnedAlways == Spec => []PoolOwned
<1>1. Init => PoolOwned
  BY DEF Init, PoolOwned, IsInjective, Range
<1>2. ASSUME TypeOK, PoolOwned, [Next]_vars
      PROVE  PoolOwned'
  <2> USE <1>2
  <2>1. ASSUME NEW s \in Sessions, TunnelStep(s)
        PROVE  PoolOwned'
    <3>1. CASE AddSession(s)
      <4>1. s \notin Range(pool)
        BY <3>1 DEF AddSession, PoolOwned
      <4>2. IsInjective(pool') /\ Range(pool') = Range(pool) \cup {s}
        BY <3>1, <4>1, AppendRange DEF AddSession, PoolOwned, TypeOK
      <4>3. QED
        BY <3>1, <4>2 DEF AddSession, PoolOwned, TypeOK
    <3>2. CASE LeaveRemove(s)
      <4>1. IsInjective(pool') /\ Range(pool') = Range(pool) \ {s}
        BY <3>2, RemoveSessionRange DEF LeaveRemove, PoolOwned
      <4>2. QED
        BY <3>2, <4>1 DEF LeaveRemove, PoolOwned, TypeOK
    <3>3. CASE ~AddSession(s) /\ ~LeaveRemove(s)
      <4>1. UNCHANGED pool
        BY <2>1, <3>3 DEF TunnelStep, Reject, StartSession, AcceptError,
                          LeaveClose
      <4>2. ASSUME NEW r \in Range(pool)
            PROVE  handler'[r] \in {"accepting", "leaving"}
        <5>1. r \in Sessions /\ handler[r] \in {"accepting", "leaving"}
          BY DEF Range, TypeOK, PoolOwned
        <5>2. QED
          BY <2>1, <3>3, <5>1 DEF TunnelStep, Reject, StartSession, AcceptError,
                                  LeaveClose, TypeOK
      <4>3. QED
        BY <4>1, <4>2 DEF PoolOwned
    <3>4. QED
      BY <3>1, <3>2, <3>3
  <2>2. ASSUME NEW c \in Conns, Evict(c)
        PROVE  PoolOwned'
    <3>1. IsInjective(pool') /\ Range(pool') = Range(pool) \ {at[c]}
      BY <2>2, RemoveSessionRange DEF Evict, PoolOwned
    <3>2. QED
      BY <2>2, <3>1 DEF Evict, PoolOwned
  <2>3. ASSUME MonitorStep
        PROVE  PoolOwned'
    <3>1. IsInjective(pool') /\ Range(pool') \subseteq Range(pool)
      BY <2>3, MonitorDrops DEF PoolOwned
    <3>2. QED
      BY <2>3, <3>1 DEF MonitorStep, PoolOwned
  <2>4. CASE UNCHANGED <<pool, handler>>
    BY <2>4 DEF PoolOwned
  <2>5. QED
    BY <2>1, <2>2, <2>3, <2>4, PoolChange, HandlerChange DEF TunnelStep
<1>3. QED
  BY <1>1, <1>2, TypeCorrect, PTL DEF Spec

-----------------------------------------------------------------------------
(* The counters are exact.                                                 *)

LEMMA HoldersFinite ==
  ASSUME NEW s
  PROVE  IsFiniteSet(Holders(s))
<1>1. IsFiniteSet(Procs)
  BY ProcsAssumption, FS_Union DEF Procs
<1>2. Holders(s) \subseteq Procs
  BY DEF Holders
<1>3. QED
  BY <1>1, <1>2, FS_Subset

LEMMA CountUp ==
  ASSUME TypeOK, CountExact, NEW p \in Procs, NEW l \in Counted,
         pc[p] \notin Counted, at[p] \in Sessions,
         Goto(p, l), Add(at[p], 1), UNCHANGED at
  PROVE  CountExact'
<1>1. ASSUME NEW s \in Sessions, s # at[p]
      PROVE  Holders(s)' = Holders(s) /\ streams'[s] = streams[s]
  BY <1>1 DEF Holders, Goto, Add, TypeOK
<1>2. /\ Holders(at[p])' = Holders(at[p]) \cup {p}
      /\ p \notin Holders(at[p])
      /\ streams'[at[p]] = streams[at[p]] + 1
  BY DEF Holders, Goto, Add, TypeOK
<1>3. Cardinality(Holders(at[p]) \cup {p}) = Cardinality(Holders(at[p])) + 1
  BY <1>2, HoldersFinite, FS_AddElement
<1>4. ASSUME NEW s \in Sessions
      PROVE  streams'[s] = Cardinality(Holders(s)')
  <2>1. CASE s = at[p]
    BY <1>2, <1>3, <2>1 DEF CountExact
  <2>2. CASE s # at[p]
    BY <1>1, <2>2 DEF CountExact
  <2>3. QED
    BY <2>1, <2>2
<1>5. QED
  BY <1>4 DEF CountExact

LEMMA CountDown ==
  ASSUME TypeOK, CountExact, NEW p \in Procs, NEW l, l \notin Counted,
         pc[p] \in Counted, at[p] \in Sessions,
         Goto(p, l), Add(at[p], -1), UNCHANGED at
  PROVE  /\ CountExact'
         /\ streams[at[p]] > 0
<1>1. ASSUME NEW s \in Sessions, s # at[p]
      PROVE  Holders(s)' = Holders(s) /\ streams'[s] = streams[s]
  BY <1>1 DEF Holders, Goto, Add, TypeOK
<1>2. /\ Holders(at[p])' = Holders(at[p]) \ {p}
      /\ p \in Holders(at[p])
      /\ streams'[at[p]] = streams[at[p]] - 1
  BY DEF Holders, Goto, Add, TypeOK
<1>3. Cardinality(Holders(at[p]) \ {p}) = Cardinality(Holders(at[p])) - 1
  BY <1>2, HoldersFinite, FS_RemoveElement
<1>4. ASSUME NEW s \in Sessions
      PROVE  streams'[s] = Cardinality(Holders(s)')
  <2>1. CASE s = at[p]
    BY <1>2, <1>3, <2>1 DEF CountExact
  <2>2. CASE s # at[p]
    BY <1>1, <2>2 DEF CountExact
  <2>3. QED
    BY <2>1, <2>2
<1>5. streams[at[p]] > 0
  <2>1. IsFiniteSet(Holders(at[p]) \ {p})
    BY HoldersFinite, FS_RemoveElement
  <2>2. Cardinality(Holders(at[p]) \ {p}) \in Nat
    BY <2>1, FS_CardinalityType
  <2>3. streams[at[p]] \in Int /\ streams[at[p]] = Cardinality(Holders(at[p]))
    BY DEF CountExact, TypeOK
  <2>4. QED
    BY <1>3, <2>2, <2>3
<1>6. QED
  BY <1>4, <1>5 DEF CountExact

LEMMA CountSame ==
  ASSUME CountExact, UNCHANGED streams,
         \A p \in Procs : pc'[p] \in Counted <=> pc[p] \in Counted,
         \A p \in Procs : pc[p] \in Counted => at'[p] = at[p]
  PROVE  CountExact'
<1>1. ASSUME NEW s \in Sessions
      PROVE  Holders(s)' = Holders(s)
  BY DEF Holders
<1>2. QED
  BY <1>1 DEF CountExact

\* serverSession.streams is the number of streams in use on the session,
\* whatever fails and whichever goroutine is between its two additions.
THEOREM CountExactAlways == Spec => []CountExact
<1>1. Init => CountExact
  <2>1. ASSUME Init, NEW s \in Sessions
        PROVE  streams[s] = Cardinality(Holders(s))
    <3>1. Holders(s) = {}
      BY <2>1 DEF Init, Holders, Counted
    <3>2. QED
      BY <2>1, <3>1, FS_EmptySet DEF Init
  <2>2. QED
    BY <2>1 DEF CountExact
<1>2. ASSUME TypeOK, CountExact, [Next]_vars
      PROVE  CountExact'
  <2> USE <1>2
  <2>1. ASSUME NEW s \in Sessions, TunnelStep(s) \/ LinkStep(s)
        PROVE  CountExact'
    <3>1. UNCHANGED <<streams, pc, at>>
      BY <2>1 DEF TunnelStep, LinkStep, Reject, StartSession, AddSession,
                  AcceptError, LeaveRemove, LeaveClose, BreakLink,
                  KeepAliveExpires
    <3>2. QED
      BY <3>1, CountSame
  <2>2. ASSUME NEW s \in Sessions, NEW p \in Inbound, AcceptStream(s, p)
        PROVE  CountExact'
    <3>1. /\ \A q \in Procs : pc'[q] \in Counted <=> pc[q] \in Counted
          /\ \A q \in Procs : pc[q] \in Counted => at'[q] = at[q]
      BY <2>2 DEF AcceptStream, Goto, Counted, TypeOK
    <3>2. QED
      BY <2>2, <3>1, CountSame DEF AcceptStream
  <2>3. ASSUME NEW p \in Inbound, InboundStep(p)
        PROVE  CountExact'
    <3>1. p \in Procs
      BY DEF Procs
    <3>2. CASE CountInbound(p)
      BY <3>1, <3>2, CountUp DEF CountInbound, Counted, Picked, TypeOK
    <3>3. CASE InboundProgress(p)
      <4>1. \A q \in Procs : pc'[q] \in Counted <=> pc[q] \in Counted
        BY <3>3 DEF InboundProgress, Goto, Counted, TypeOK
      <4>2. QED
        BY <3>3, <4>1, CountSame DEF InboundProgress
    <3>4. CASE InboundExit(p)
      BY <3>1, <3>4, CountDown DEF InboundExit, Counted, Picked, TypeOK
    <3>5. QED
      BY <2>3, <3>2, <3>3, <3>4 DEF InboundStep
  <2>4. ASSUME NEW c \in Conns, ConnStep(c)
        PROVE  CountExact'
    <3>1. c \in Procs
      BY DEF Procs
    <3>2. CASE CountStream(c)
      BY <3>1, <3>2, CountUp DEF CountStream, Counted, Picked, TypeOK
    <3>3. CASE WriteFail(c)
      BY <3>1, <3>3, CountDown DEF WriteFail, Counted, Picked, TypeOK
    <3>4. CASE RelayEnd(c)
      BY <3>1, <3>4, CountDown DEF RelayEnd, Counted, Picked, TypeOK
    <3>5. CASE ~CountStream(c) /\ ~WriteFail(c) /\ ~RelayEnd(c)
      <4>1. UNCHANGED streams
        BY <2>4, <3>5
           DEF ConnStep, OpenStep, NoSessions, BeginScan, ScanSkip, ScanPick,
               ScanPanic, ScanEnd, BeginLeast, LeastStep, LeastEnd, OpenOk,
               OpenFail, Evict, EvictClose, WriteOk
      <4>2. \A q \in Procs : pc'[q] \in Counted <=> pc[q] \in Counted
        BY <2>4, <3>5
           DEF ConnStep, OpenStep, NoSessions, BeginScan, ScanSkip, ScanPick,
               ScanPanic, ScanEnd, BeginLeast, LeastStep, LeastEnd, OpenOk,
               OpenFail, Evict, EvictClose, WriteOk, Goto, Counted, TypeOK
      <4>3. \A q \in Procs : pc[q] \in Counted => at'[q] = at[q]
        BY <2>4, <3>5
           DEF ConnStep, OpenStep, NoSessions, BeginScan, ScanSkip, ScanPick,
               ScanPanic, ScanEnd, BeginLeast, LeastStep, LeastEnd, OpenOk,
               OpenFail, Evict, EvictClose, WriteOk, Counted, TypeOK
      <4>4. QED
        BY <4>1, <4>2, <4>3, CountSame
    <3>6. QED
      BY <3>2, <3>3, <3>4, <3>5
  <2>5. CASE MonitorPass
    <3>1. UNCHANGED <<streams, pc, at>>
      BY <2>5 DEF MonitorPass, MonitorLock, MonitorStep, MonitorUnlock
    <3>2. QED
      BY <3>1, CountSame
  <2>6. CASE UNCHANGED vars
    BY <2>6, CountSame DEF vars
  <2>7. QED
    BY <2>1, <2>2, <2>3, <2>4, <2>5, <2>6 DEF Next
<1>3. QED
  BY <1>1, <1>2, TypeCorrect, PTL DEF Spec

-----------------------------------------------------------------------------
(* The scans: what the read lock protects.                                 *)

LEMMA LockExclusionStep ==
  ASSUME TypeOK, LockExclusion, [Next]_vars
  PROVE  LockExclusion'
<1> USE DEF TypeOK
<1>1. ASSUME NEW s \in Sessions, TunnelStep(s) \/ LinkStep(s)
      PROVE  LockExclusion'
  <2>1. UNCHANGED <<pc, mon>>
    BY <1>1 DEF TunnelStep, LinkStep, Reject, StartSession, AddSession,
                AcceptError, LeaveRemove, LeaveClose, BreakLink,
                KeepAliveExpires
  <2>2. QED
    BY <2>1 DEF LockExclusion, Readers
<1>2. ASSUME NEW p \in Procs, NEW l, l \notin {"scan", "least"},
             Goto(p, l), UNCHANGED mon
      PROVE  LockExclusion'
  BY <1>2 DEF LockExclusion, Readers, Goto, Procs
<1>3. ASSUME NEW s \in Sessions, NEW p \in Inbound, AcceptStream(s, p)
      PROVE  LockExclusion'
  BY <1>2, <1>3 DEF AcceptStream, Procs
<1>4. ASSUME NEW p \in Inbound, InboundStep(p)
      PROVE  LockExclusion'
  BY <1>2, <1>4 DEF InboundStep, CountInbound, InboundProgress, InboundExit, Procs
<1>5. ASSUME NEW c \in Conns, ConnStep(c)
      PROVE  LockExclusion'
  <2>1. CASE BeginScan(c) \/ BeginLeast(c)
    BY <2>1 DEF BeginScan, BeginLeast, CanRead, LockExclusion
  <2>2. CASE ScanSkip(c) \/ LeastStep(c)
    BY <2>2 DEF ScanSkip, LeastStep, LockExclusion, Readers
  <2>3. CASE ~BeginScan(c) /\ ~BeginLeast(c) /\ ~ScanSkip(c) /\ ~LeastStep(c)
    BY <1>2, <1>5, <2>3
       DEF ConnStep, OpenStep, NoSessions, ScanPick, ScanPanic, ScanEnd,
           LeastEnd, OpenOk, OpenFail, Evict, EvictClose, CountStream, WriteOk,
           WriteFail, RelayEnd, Procs
  <2>4. QED
    BY <2>1, <2>2, <2>3
<1>6. CASE MonitorPass
  <2>1. CASE MonitorLock
    BY <2>1 DEF MonitorLock, CanWrite, LockExclusion, Readers
  <2>2. CASE MonitorStep
    <3>1. mon \in 1..Len(pool) /\ UNCHANGED pc
      BY <2>2 DEF MonitorStep
    <3>2. mon # 0
      BY <3>1
    <3>3. QED
      BY <3>1, <3>2 DEF LockExclusion, Readers
  <2>3. CASE MonitorUnlock
    BY <2>3 DEF MonitorUnlock, LockExclusion
  <2>4. QED
    BY <1>6, <2>1, <2>2, <2>3 DEF MonitorPass
<1>7. CASE UNCHANGED vars
  BY <1>7 DEF vars, LockExclusion, Readers
<1>8. QED
  BY <1>1, <1>3, <1>4, <1>5, <1>6, <1>7 DEF Next

LEMMA FrozenForReaders ==
  ASSUME TypeOK, LockExclusion, [Next]_vars, Readers # {}
  PROVE  UNCHANGED pool
<1>1. mon = 0 /\ ~CanWrite
  BY DEF LockExclusion, CanWrite
<1>2. ~MonitorStep
  BY <1>1 DEF MonitorStep, TypeOK
<1>3. QED
  BY <1>1, <1>2, PoolChange DEF AddSession, LeaveRemove, Evict

LEMMA PickedJoinedStep ==
  ASSUME TypeOK, PoolOwned, PickedJoined, [Next]_vars
  PROVE  PickedJoined'
<1>1. ASSUME NEW p \in Procs, at'[p] # None
      PROVE  at'[p] \in Sessions /\ (at'[p] = at[p] \/ handler[at'[p]] \in Joined)
  <2>1. CASE UNCHANGED at
    BY <1>1, <2>1 DEF TypeOK
  <2>2. ASSUME NEW s \in Sessions, NEW q \in Inbound, AcceptStream(s, q)
        PROVE  at'[p] \in Sessions
               /\ (at'[p] = at[p] \/ handler[at'[p]] \in Joined)
    BY <1>1, <2>2 DEF AcceptStream, Joined, TypeOK, Procs
  <2>3. ASSUME NEW c \in Conns, ScanPick(c)
        PROVE  at'[p] \in Sessions
               /\ (at'[p] = at[p] \/ handler[at'[p]] \in Joined)
    <3>1. /\ pool[ScanIndex(c)] \in Sessions
          /\ handler[pool[ScanIndex(c)]] \in Joined
      BY <2>3 DEF ScanPick, PoolOwned, Joined, Range, TypeOK
    <3>2. at' = [at EXCEPT ![c] = pool[ScanIndex(c)]]
      BY <2>3 DEF ScanPick
    <3>3. QED
      BY <1>1, <3>1, <3>2 DEF TypeOK
  <2>4. ASSUME NEW c \in Conns, LeastStep(c)
        PROVE  at'[p] \in Sessions
               /\ (at'[p] = at[p] \/ handler[at'[p]] \in Joined)
    <3>1. scan[c].i + 1 \in 1..Len(pool)
      BY <2>4 DEF LeastStep, TypeOK
    <3>2. /\ pool[scan[c].i + 1] \in Sessions
          /\ handler[pool[scan[c].i + 1]] \in Joined
      BY <3>1 DEF PoolOwned, Joined, Range, TypeOK
    <3>3. \/ at' = [at EXCEPT ![c] = pool[scan[c].i + 1]]
          \/ UNCHANGED at
      BY <2>4 DEF LeastStep
    <3>4. QED
      BY <1>1, <3>2, <3>3 DEF TypeOK
  <2>5. \/ UNCHANGED at
        \/ \E s \in Sessions, q \in Inbound : AcceptStream(s, q)
        \/ \E c \in Conns : ScanPick(c) \/ LeastStep(c)
    <3>1. ASSUME NEW s \in Sessions, TunnelStep(s) \/ LinkStep(s)
          PROVE  UNCHANGED at
      BY <3>1 DEF TunnelStep, LinkStep, Reject, StartSession, AddSession,
                  AcceptError, LeaveRemove, LeaveClose, BreakLink,
                  KeepAliveExpires
    <3>2. ASSUME NEW q \in Inbound, InboundStep(q)
          PROVE  UNCHANGED at
      BY <3>2 DEF InboundStep, CountInbound, InboundProgress, InboundExit
    <3>3. ASSUME NEW c \in Conns, ConnStep(c), ~ScanPick(c), ~LeastStep(c)
          PROVE  UNCHANGED at
      BY <3>3
         DEF ConnStep, OpenStep, NoSessions, BeginScan, ScanSkip, ScanPanic,
             ScanEnd, BeginLeast, LeastEnd, OpenOk, OpenFail, Evict,
             EvictClose, CountStream, WriteOk, WriteFail, RelayEnd
    <3>4. ASSUME MonitorPass
          PROVE  UNCHANGED at
      BY <3>4 DEF MonitorPass, MonitorLock, MonitorStep, MonitorUnlock
    <3>5. QED
      BY <3>1, <3>2, <3>3, <3>4 DEF Next, vars
  <2>6. QED
    BY <2>1, <2>2, <2>3, <2>4, <2>5
<1>2. ASSUME NEW p \in Procs, at'[p] # None
      PROVE  handler'[at'[p]] \in Joined
  BY <1>1, <1>2, JoinedStays DEF PickedJoined
<1>3. QED
  BY <1>2 DEF PickedJoined

LEMMA LocalsAreLocal ==
  ASSUME TypeOK, [Next]_vars, NEW d \in Conns, ~ConnStep(d)
  PROVE  pc'[d] = pc[d] /\ at'[d] = at[d] /\ scan'[d] = scan[d]
<1> USE ProcsAssumption DEF TypeOK, Procs
<1>1. ASSUME NEW s \in Sessions, TunnelStep(s) \/ LinkStep(s)
      PROVE  UNCHANGED <<pc, at, scan>>
  BY <1>1 DEF TunnelStep, LinkStep, Reject, StartSession, AddSession,
              AcceptError, LeaveRemove, LeaveClose, BreakLink, KeepAliveExpires
<1>2. ASSUME NEW s \in Sessions, NEW p \in Inbound, AcceptStream(s, p)
      PROVE  pc'[d] = pc[d] /\ at'[d] = at[d] /\ scan'[d] = scan[d]
  BY <1>2 DEF AcceptStream, Goto
<1>3. ASSUME NEW p \in Inbound, InboundStep(p)
      PROVE  pc'[d] = pc[d] /\ at'[d] = at[d] /\ scan'[d] = scan[d]
  BY <1>3 DEF InboundStep, CountInbound, InboundProgress, InboundExit, Goto
<1>4. ASSUME NEW c \in Conns, c # d, ConnStep(c)
      PROVE  pc'[d] = pc[d] /\ at'[d] = at[d] /\ scan'[d] = scan[d]
  <2>1. CASE OpenStep(c)
    BY <1>4, <2>1
       DEF OpenStep, NoSessions, BeginScan, ScanSkip, ScanPick, ScanPanic,
           ScanEnd, BeginLeast, LeastStep, LeastEnd, Goto
  <2>2. CASE ~OpenStep(c)
    BY <1>4, <2>2
       DEF ConnStep, OpenOk, OpenFail, Evict, EvictClose, CountStream, WriteOk,
           WriteFail, RelayEnd, Goto
  <2>3. QED
    BY <2>1, <2>2
<1>5. ASSUME MonitorPass
      PROVE  UNCHANGED <<pc, at, scan>>
  BY <1>5 DEF MonitorPass, MonitorLock, MonitorStep, MonitorUnlock
<1>6. QED
  BY <1>1, <1>2, <1>3, <1>4, <1>5 DEF Next, vars

LEMMA PooledClosedStays ==
  ASSUME TypeOK, PoolOwned, [Next]_vars, NEW k \in 1..Len(pool),
         link[pool[k]] = "closed"
  PROVE  link'[pool[k]] = "closed"
<1>1. pool[k] \in Sessions /\ pool[k] \in Range(pool)
  BY DEF Range, TypeOK
<1>2. handler[pool[k]] # "idle"
  BY <1>1 DEF PoolOwned
<1>3. QED
  BY <1>1, <1>2, ClosedStays

LEMMA LeastSeenStep ==
  ASSUME TypeOK, TypeOK', PoolOwned, LockExclusion, LeastSeen, [Next]_vars
  PROVE  LeastSeen'
<1> DEFINE Seen(c) ==
             /\ pc[c] = "overloaded" => scan[c] = NoScan
             /\ pc[c] = "least" /\ at[c] = None =>
                  \A k \in 1..Len(pool) : k <= scan[c].i => link[pool[k]] = "closed"
<1>1. ASSUME NEW d \in Conns, pc[d] = "least"
      PROVE  UNCHANGED pool
  BY <1>1, FrozenForReaders DEF Readers
<1>2. ASSUME NEW d \in Conns, ~ConnStep(d)
      PROVE  Seen(d)'
  <2>1. pc'[d] = pc[d] /\ at'[d] = at[d] /\ scan'[d] = scan[d]
    BY <1>2, LocalsAreLocal
  <2>2. CASE pc[d] = "least"
    <3>1. pool' = pool
      BY <1>1, <2>2
    <3>2. at[d] = None => \A k \in 1..Len(pool) :
                            k <= scan[d].i => link[pool[k]] = "closed"
      BY <2>2 DEF LeastSeen
    <3>3. at[d] = None => \A k \in 1..Len(pool) :
                            k <= scan[d].i => link'[pool[k]] = "closed"
      BY <3>2, PooledClosedStays
    <3>4. QED
      BY <2>1, <2>2, <3>1, <3>3
  <2>3. CASE pc[d] # "least"
    BY <2>1, <2>3 DEF LeastSeen, NoScan
  <2>4. QED
    BY <2>2, <2>3
<1>3. ASSUME NEW d \in Conns, ConnStep(d)
      PROVE  Seen(d)'
  <2>1. CASE BeginLeast(d)
    <3>1. scan'[d] = NoScan
      BY <2>1 DEF BeginLeast, LeastSeen
    <3>2. pc'[d] = "least" /\ scan'[d].i = 0
      BY <2>1, <3>1 DEF BeginLeast, Goto, TypeOK, Procs, NoScan
    <3>3. QED
      BY <3>2
  <2>2. CASE LeastStep(d)
    <3> DEFINE s == pool[scan[d].i + 1]
    <3>1. /\ pool' = pool /\ link' = link /\ pc' = pc
          /\ pc[d] = "least"
          /\ scan[d].i + 1 \in 1..Len(pool)
      BY <2>2 DEF LeastStep, TypeOK
    <3>2. s \in Sessions
      BY <3>1 DEF TypeOK
    <3>3. scan'[d].i = scan[d].i + 1
      BY <2>2 DEF LeastStep, TypeOK
    <3>4. ASSUME at'[d] = None
          PROVE  at[d] = None /\ link[s] = "closed"
      <4>1. ~Better(d, s)
        <5>1. SUFFICES ASSUME Better(d, s)
                       PROVE  at'[d] = s
          BY <3>2, <3>4, SessionsAssumption
        <5>2. at' = [at EXCEPT ![d] = s]
          BY <2>2, <5>1 DEF LeastStep
        <5>3. QED
          BY <5>2 DEF TypeOK, Procs
      <4>2. at' = at
        BY <2>2, <4>1 DEF LeastStep
      <4>3. QED
        BY <3>4, <4>1, <4>2 DEF Better
    <3>5. ASSUME at'[d] = None, NEW k \in 1..Len(pool), k <= scan[d].i + 1
          PROVE  link[pool[k]] = "closed"
      <4>1. CASE k <= scan[d].i
        BY <3>1, <3>4, <3>5, <4>1 DEF LeastSeen
      <4>2. CASE k = scan[d].i + 1
        BY <3>4, <3>5, <4>2
      <4>3. scan[d].i \in Nat
        BY DEF TypeOK
      <4>4. QED
        BY <3>5, <4>1, <4>2, <4>3
    <3>6. QED
      BY <3>1, <3>3, <3>5
  <2>3. CASE ScanEnd(d)
    BY <2>3 DEF ScanEnd, Goto, TypeOK, Procs
  <2>4. CASE ~BeginLeast(d) /\ ~LeastStep(d) /\ ~ScanEnd(d)
    <3>1. pc'[d] \notin {"overloaded", "least"}
      BY <1>3, <2>4
         DEF ConnStep, OpenStep, NoSessions, BeginScan, ScanSkip, ScanPick,
             ScanPanic, LeastEnd, OpenOk, OpenFail, Evict, EvictClose,
             CountStream, WriteOk, WriteFail, RelayEnd, Goto, TypeOK, Procs
    <3>2. QED
      BY <3>1
  <2>5. QED
    BY <2>1, <2>2, <2>3, <2>4
<1>4. QED
  BY <1>2, <1>3 DEF LeastSeen

LEMMA CounterFitsStep ==
  ASSUME TypeOK, TypeOK', CounterFits, [Next]_vars
  PROVE  CounterFits'
<1> SUFFICES ASSUME Fits
             PROVE  /\ poolIdx' + Cardinality(New') <= Cardinality(Conns)
                    /\ \A c \in Conns : scan'[c].start >= 0
  BY DEF CounterFits, Fits
<1>1. /\ IsFiniteSet(New) /\ IsFiniteSet(Conns)
      /\ Cardinality(New) \in Nat /\ Cardinality(Conns) \in Nat
  <2>1. New \subseteq Conns
    BY DEF New
  <2>2. IsFiniteSet(New)
    BY <2>1, ProcsAssumption, FS_Subset
  <2>3. QED
    BY <2>2, ProcsAssumption, FS_CardinalityType
<1>2. /\ poolIdx + Cardinality(New) <= Cardinality(Conns)
      /\ \A c \in Conns : scan[c].start >= 0
      /\ poolIdx \in Nat /\ Cardinality(Conns) <= IntMax /\ IntMax \in Nat
  BY LimitsAssumption DEF CounterFits, TypeOK, Fits
<1>3. ASSUME NEW c \in Conns, NoSessions(c) \/ BeginScan(c)
      PROVE  /\ poolIdx' + Cardinality(New') <= Cardinality(Conns)
             /\ \A d \in Conns : scan'[d].start >= 0
  <2>1. New' = New \ {c} /\ c \in New
    BY <1>3 DEF New, NoSessions, BeginScan, Goto, TypeOK, Procs
  <2>2. Cardinality(New') = Cardinality(New) - 1
    BY <1>1, <2>1, FS_RemoveElement
  <2>3. CASE NoSessions(c)
    BY <1>1, <1>2, <2>2, <2>3 DEF NoSessions
  <2>4. CASE BeginScan(c)
    <3>1. poolIdx + 1 <= IntMax
      <4>1. Cardinality(New) >= 1
        <5>1. Cardinality(New) # 0
          BY <1>1, <2>1, FS_EmptySet
        <5>2. QED
          BY <1>1, <5>1
      <4>2. QED
        BY <1>1, <1>2, <4>1
    <3>2. poolIdx' = poolIdx + 1
      <4>1. PICK m \in Nat : m = 2 * (IntMax + 1)
        BY <1>2
      <4>2. poolIdx + 1 \in 0..(m - 1)
        BY <1>2, <3>1, <4>1
      <4>3. (poolIdx + 1) % m = poolIdx + 1
        BY <4>1, <4>2, SmallMod
      <4>4. poolIdx' = (poolIdx + 1) % (2 * (IntMax + 1))
        BY <2>4 DEF BeginScan
      <4>5. QED
        BY <4>1, <4>3, <4>4
    <3>3. GoRem(ToInt(poolIdx'), Len(pool)) >= 0
      <4>1. Len(pool) \in Nat \ {0}
        BY <2>4 DEF BeginScan, TypeOK
      <4>2. ToInt(poolIdx') = poolIdx + 1
        BY <3>1, <3>2 DEF ToInt
      <4>3. GoRem(poolIdx + 1, Len(pool)) \in 0..(Len(pool) - 1)
        <5>1. poolIdx + 1 \in Int /\ poolIdx + 1 >= 0
          BY <1>2
        <5>2. QED
          BY <4>1, <5>1, GoRemInt
      <4>4. QED
        BY <4>1, <4>2, <4>3
    <3>4. ASSUME NEW d \in Conns
          PROVE  scan'[d].start >= 0
      <4>1. scan' = [scan EXCEPT ![c].start = GoRem(ToInt(poolIdx'), Len(pool))]
        BY <2>4 DEF BeginScan
      <4>2. CASE d = c
        BY <3>3, <4>1, <4>2 DEF TypeOK
      <4>3. CASE d # c
        BY <1>2, <4>1, <4>3 DEF TypeOK
      <4>4. QED
        BY <4>2, <4>3
    <3>5. QED
      BY <1>1, <1>2, <2>2, <3>2, <3>4
  <2>5. QED
    BY <1>3, <2>3, <2>4
<1>4. ASSUME UNCHANGED poolIdx, New' = New,
             \A d \in Conns : scan'[d].start = scan[d].start \/ scan'[d] = NoScan
      PROVE  /\ poolIdx' + Cardinality(New') <= Cardinality(Conns)
             /\ \A d \in Conns : scan'[d].start >= 0
  BY <1>2, <1>4 DEF NoScan
<1>5. ASSUME NEW c \in Conns, ConnStep(c), ~NoSessions(c), ~BeginScan(c)
      PROVE  /\ UNCHANGED poolIdx
             /\ pc[c] # "new" /\ pc'[c] # "new"
             /\ \A d \in Conns : d # c => pc'[d] = pc[d]
             /\ \A d \in Conns : scan'[d].start = scan[d].start \/ scan'[d] = NoScan
  <2>1. UNCHANGED poolIdx /\ pc[c] # "new"
    BY <1>5
       DEF ConnStep, OpenStep, ScanSkip, ScanPick, ScanPanic, ScanEnd,
           BeginLeast, LeastStep, LeastEnd, OpenOk, OpenFail, Evict,
           EvictClose, CountStream, WriteOk, WriteFail, RelayEnd
  <2>2. /\ pc'[c] # "new"
        /\ \A d \in Conns : d # c => pc'[d] = pc[d]
    BY <1>5
       DEF ConnStep, OpenStep, ScanSkip, ScanPick, ScanPanic, ScanEnd,
           BeginLeast, LeastStep, LeastEnd, OpenOk, OpenFail, Evict,
           EvictClose, CountStream, WriteOk, WriteFail, RelayEnd, Goto,
           TypeOK, Procs
  <2>3. ASSUME NEW d \in Conns
        PROVE  scan'[d].start = scan[d].start \/ scan'[d] = NoScan
    <3>1. CASE ScanSkip(c) \/ LeastStep(c)
      <4>1. PICK r : scan' = [scan EXCEPT ![c] = r] /\ r.start = scan[c].start
        <5>1. CASE ScanSkip(c)
          <6> DEFINE q == [scan[c] EXCEPT !.i = scan[c].i + 1]
          <6>1. scan' = [scan EXCEPT ![c] = q]
            BY <5>1 DEF ScanSkip
          <6>2. q.start = scan[c].start
            BY DEF TypeOK
          <6> HIDE DEF q
          <6>3. QED
            BY <6>1, <6>2
        <5>2. CASE LeastStep(c)
          <6> DEFINE q == [scan[c] EXCEPT !.i = scan[c].i + 1]
                     r == [q EXCEPT !.load = streams[pool[scan[c].i + 1]]]
          <6>1. \/ scan' = [scan EXCEPT ![c] = q]
                \/ scan' = [scan EXCEPT ![c] = r]
            BY <5>2 DEF LeastStep
          <6>2. q.start = scan[c].start /\ r.start = scan[c].start
            BY DEF TypeOK
          <6>3. QED
            BY <6>1, <6>2
        <5>3. QED
          BY <3>1, <5>1, <5>2
      <4>2. QED
        BY <4>1 DEF TypeOK
    <3>2. CASE ScanPick(c) \/ ScanEnd(c) \/ LeastEnd(c)
      BY <3>2 DEF ScanPick, ScanEnd, LeastEnd, TypeOK
    <3>3. CASE UNCHANGED scan
      BY <3>3
    <3>4. QED
      BY <1>5, <3>1, <3>2, <3>3
         DEF ConnStep, OpenStep, ScanPanic, BeginLeast, OpenOk, OpenFail, Evict,
             EvictClose, CountStream, WriteOk, WriteFail, RelayEnd
  <2>4. QED
    BY <2>1, <2>2, <2>3
<1>6. ASSUME \A c \in Conns : ~ConnStep(c)
      PROVE  UNCHANGED poolIdx
  BY <1>6 DEF Next, vars, TunnelStep, LinkStep, Reject, StartSession,
              AddSession, AcceptError, LeaveRemove, LeaveClose, BreakLink,
              KeepAliveExpires, AcceptStream, InboundStep, CountInbound,
              InboundProgress, InboundExit, MonitorPass, MonitorLock,
              MonitorStep, MonitorUnlock
<1>7. CASE \E c \in Conns : ConnStep(c) /\ ~NoSessions(c) /\ ~BeginScan(c)
  <2>1. PICK c \in Conns : ConnStep(c) /\ ~NoSessions(c) /\ ~BeginScan(c)
    BY <1>7
  <2>2. New' = New
    BY <1>5, <2>1 DEF New
  <2>3. QED
    BY <1>4, <1>5, <2>1, <2>2
<1>8. CASE \A c \in Conns : ~ConnStep(c)
  <2>1. \A d \in Conns : pc'[d] = pc[d] /\ scan'[d] = scan[d]
    BY <1>8, LocalsAreLocal
  <2>2. New' = New
    BY <2>1 DEF New
  <2>3. QED
    BY <1>4, <1>6, <1>8, <2>1, <2>2
<1>9. QED
  BY <1>3, <1>7, <1>8 DEF ConnStep, OpenStep

\* The strengthening: what the scans, the lock and the counter rely on.
THEOREM PoolInvAlways == Spec => []PoolInv
<1>1. Init => PoolInv
  <2>1. ASSUME Init
        PROVE  CounterFits
    <3>1. New = Conns
      BY <2>1 DEF Init, New, Procs
    <3>2. poolIdx = 0 /\ \A c \in Conns : scan[c].start = 0
      BY <2>1 DEF Init, NoScan
    <3>3. Cardinality(Conns) \in Nat
      BY ProcsAssumption, FS_CardinalityType
    <3>4. QED
      BY <3>1, <3>2, <3>3 DEF CounterFits
  <2>2. Init => LockExclusion /\ PickedJoined /\ LeastSeen
    BY DEF Init, LockExclusion, PickedJoined, LeastSeen, Procs
  <2>3. QED
    BY <2>1, <2>2 DEF PoolInv
<1>2. TypeOK /\ TypeOK' /\ PoolOwned /\ PoolInv /\ [Next]_vars => PoolInv'
  BY LockExclusionStep, PickedJoinedStep, LeastSeenStep, CounterFitsStep
     DEF PoolInv
<1>3. QED
  BY <1>1, <1>2, TypeCorrect, PoolOwnedAlways, PTL DEF Spec

-----------------------------------------------------------------------------
(* What the pool offers to users.                                          *)

\* No goroutine but the one that converts an overflowed counter can panic.
THEOREM PanicOnlyByOverflowAlways == Spec => []PanicOnlyByOverflow
<1>1. Init => PanicOnlyByOverflow
  BY DEF Init, PanicOnlyByOverflow, Procs
<1>2. ASSUME TypeOK, PanicOnlyByOverflow, [Next]_vars
      PROVE  PanicOnlyByOverflow'
  <2>1. ASSUME NEW d \in Conns, pc'[d] = "panic"
        PROVE  scan'[d].start < 0
    <3>1. CASE ~ConnStep(d)
      BY <2>1, <3>1, <1>2, LocalsAreLocal DEF PanicOnlyByOverflow
    <3>2. CASE ScanPanic(d)
      <4>1. SUFFICES ASSUME scan[d].start >= 0
                     PROVE  FALSE
        BY <3>2, <1>2 DEF ScanPanic, TypeOK
      <4>2. /\ scan[d].start + scan[d].i \in Nat
            /\ Len(pool) \in Nat \ {0}
        BY <3>2, <4>1, <1>2 DEF ScanPanic, TypeOK
      <4>3. GoRem(scan[d].start + scan[d].i, Len(pool)) \in 0..(Len(pool) - 1)
        <5>1. /\ scan[d].start + scan[d].i \in Int
              /\ scan[d].start + scan[d].i >= 0
          BY <4>2
        <5>2. QED
          BY <4>2, <5>1, GoRemInt
      <4>4. ScanIndex(d) \in 1..Len(pool)
        BY <4>2, <4>3 DEF ScanIndex
      <4>5. QED
        BY <3>2, <4>4 DEF ScanPanic
    <3>3. CASE ConnStep(d) /\ ~ScanPanic(d)
      <4>1. pc'[d] # "panic"
        BY <3>3, <1>2
           DEF ConnStep, OpenStep, NoSessions, BeginScan, ScanSkip, ScanPick,
               ScanEnd, BeginLeast, LeastStep, LeastEnd, OpenOk, OpenFail,
               Evict, EvictClose, CountStream, WriteOk, WriteFail, RelayEnd,
               Goto, TypeOK, Procs
      <4>2. QED
        BY <2>1, <4>1
    <3>4. QED
      BY <3>1, <3>2, <3>3
  <2>2. QED
    BY <2>1 DEF PanicOnlyByOverflow
<1>3. QED
  BY <1>1, <1>2, TypeCorrect, PTL DEF Spec

\* While there have been no more users than an int can count, the scan stays
\* inside the slice.
THEOREM NoIndexPanicWhileFits ==
  ASSUME Cardinality(Conns) <= IntMax
  PROVE  Spec => []NoIndexPanic
<1>1. TypeOK /\ PanicOnlyByOverflow /\ PoolInv => NoIndexPanic
  BY DEF PanicOnlyByOverflow, PoolInv, CounterFits, Fits, NoIndexPanic,
         Panicked, TypeOK
<1>2. QED
  BY <1>1, TypeCorrect, PanicOnlyByOverflowAlways, PoolInvAlways, PTL

\* A user is told "all sessions full" only when every pooled session is closed.
THEOREM FullOnlyIfAllClosedAlways == Spec => FullOnlyIfAllClosed
<1>1. ASSUME TypeOK, PoolOwned, PoolInv, [Next]_vars,
             NEW c \in Conns, pc[c] = "least", pc'[c] = "failed",
             NEW s \in Range(pool)
      PROVE  link[s] = "closed"
  <2> USE <1>1 DEF TypeOK, Procs
  <2>1. ConnStep(c)
    BY LocalsAreLocal
  <2>2. LeastEnd(c)
    <3>1. CASE LeastStep(c)
      BY <3>1 DEF LeastStep
    <3>2. CASE ~LeastStep(c) /\ ~LeastEnd(c)
      BY <2>1, <3>2
         DEF ConnStep, OpenStep, NoSessions, BeginScan, ScanSkip, ScanPick,
             ScanPanic, ScanEnd, BeginLeast, OpenOk, OpenFail, Evict,
             EvictClose, CountStream, WriteOk, WriteFail, RelayEnd
    <3>3. QED
      BY <3>1, <3>2
  <2>3. at[c] = None /\ scan[c].i >= Len(pool)
    BY <2>2 DEF LeastEnd, Goto
  <2>4. PICK k \in 1..Len(pool) : s = pool[k]
    <3>1. DOMAIN pool = 1..Len(pool)
      OBVIOUS
    <3>2. QED
      BY <3>1, <1>1 DEF Range
  <2>5. k <= scan[c].i
    BY <2>3, <2>4
  <2>6. QED
    BY <2>3, <2>4, <2>5 DEF PoolInv, LeastSeen
<1>2. TypeOK /\ PoolOwned /\ PoolInv /\ [Next]_vars =>
        [\A c \in Conns :
           pc[c] = "least" /\ pc'[c] = "failed" =>
             \A s \in Range(pool) : link[s] = "closed"]_vars
  BY <1>1
<1>3. QED
  BY <1>2, TypeCorrect, PoolOwnedAlways, PoolInvAlways, PTL
     DEF Spec, FullOnlyIfAllClosed

LEMMA RemovedOnlyOne ==
  ASSUME TypeOK, PoolOwned, [Next]_vars, NEW s \in Range(pool), s \notin Range(pool')
  PROVE  \/ LeaveRemove(s)
         \/ \E c \in Conns : Evict(c) /\ at[c] = s
         \/ MonitorStep /\ link[s] = "closed"
<1>1. IsInjective(pool)
  BY DEF PoolOwned
<1>2. ASSUME NEW r \in Sessions, AddSession(r)
      PROVE  FALSE
  BY <1>2, AppendRange DEF AddSession, TypeOK
<1>3. ASSUME NEW r \in Sessions, LeaveRemove(r)
      PROVE  r = s
  <2>1. Range(pool') = Range(pool) \ {r}
    BY <1>1, <1>3, RemoveSessionRange DEF LeaveRemove
  <2>2. QED
    BY <2>1
<1>4. ASSUME NEW c \in Conns, Evict(c)
      PROVE  at[c] = s
  <2>1. Range(pool') = Range(pool) \ {at[c]}
    BY <1>1, <1>4, RemoveSessionRange DEF Evict
  <2>2. QED
    BY <2>1
<1>5. ASSUME MonitorStep
      PROVE  link[s] = "closed"
  <2>1. pool' # pool
    OBVIOUS
  <2>2. PICK r \in Range(pool) :
          link[r] = "closed" /\ Range(pool') = Range(pool) \ {r}
    BY <1>1, <1>5, <2>1, MonitorDrops
  <2>3. QED
    BY <2>2
<1>6. pool' # pool
  OBVIOUS
<1>7. QED
  BY <1>2, <1>3, <1>4, <1>5, <1>6, PoolChange

\* No session that still accepts streams is lost to users while it lives: it is
\* in the pool, or closed, or in the hands of the user who evicts it.
THEOREM NoOrphanSessionAlways == Spec => []NoOrphanSession
<1>1. Init => NoOrphanSession
  BY DEF Init, NoOrphanSession
<1>2. ASSUME TypeOK, TypeOK', PoolOwned, NoOrphanSession, [Next]_vars
      PROVE  NoOrphanSession'
  <2> SUFFICES ASSUME NEW s \in Sessions, handler'[s] = "accepting",
                      s \notin Range(pool')
               PROVE  \/ link'[s] = "closed"
                      \/ \E c \in Conns : pc'[c] = "shut" /\ at'[c] = s
    BY DEF NoOrphanSession
  <2> USE <1>2
  <2>1. ASSUME NEW c \in Conns, pc[c] = "shut", at[c] = s
        PROVE  \/ link'[s] = "closed"
               \/ pc'[c] = "shut" /\ at'[c] = s
    <3>1. CASE ~ConnStep(c)
      BY <2>1, <3>1, LocalsAreLocal
    <3>2. CASE ConnStep(c)
      <4>1. EvictClose(c)
        BY <2>1, <3>2
           DEF ConnStep, OpenStep, NoSessions, BeginScan, ScanSkip, ScanPick,
               ScanPanic, ScanEnd, BeginLeast, LeastStep, LeastEnd, OpenOk,
               OpenFail, Evict, CountStream, WriteOk, WriteFail, RelayEnd
      <4>2. QED
        BY <2>1, <4>1 DEF EvictClose, TypeOK
    <3>3. QED
      BY <3>1, <3>2
  <2>2. CASE handler[s] = "accepting" /\ s \notin Range(pool)
    <3>1. CASE link[s] = "closed"
      BY <2>2, <3>1, ClosedStays
    <3>2. CASE \E c \in Conns : pc[c] = "shut" /\ at[c] = s
      BY <2>1, <3>2
    <3>3. QED
      BY <2>2, <3>1, <3>2 DEF NoOrphanSession
  <2>3. CASE s \in Range(pool)
    <3>1. CASE LeaveRemove(s)
      BY <3>1 DEF LeaveRemove, TypeOK
    <3>2. ASSUME NEW c \in Conns, Evict(c), at[c] = s
          PROVE  pc'[c] = "shut" /\ at'[c] = s
      BY <3>2 DEF Evict, Goto, TypeOK, Procs
    <3>3. CASE MonitorStep /\ link[s] = "closed"
      BY <3>3 DEF MonitorStep
    <3>4. QED
      BY <2>3, <3>1, <3>2, <3>3, RemovedOnlyOne
  <2>4. CASE handler[s] # "accepting" /\ s \notin Range(pool)
    <3>1. PICK r \in Sessions : TunnelStep(r)
      BY <2>4, HandlerChange
    <3>2. AddSession(s)
      BY <2>4, <3>1 DEF TunnelStep, Reject, StartSession, AddSession, AcceptError,
                        LeaveRemove, LeaveClose, TypeOK
    <3>3. s \in Range(pool')
      BY <3>2, AppendRange DEF AddSession, TypeOK
    <3>4. QED
      BY <3>3
  <2>5. QED
    BY <2>2, <2>3, <2>4
<1>3. QED
  BY <1>1, <1>2, TypeCorrect, PoolOwnedAlways, PTL DEF Spec

-----------------------------------------------------------------------------
(* The pool keeps the ledger.                                              *)

LEMMA JoinsByAdding ==
  ASSUME TypeOK, [Next]_vars, NEW s \in Sessions, handler'[s] \in Joined,
         ~AddSession(s)
  PROVE  handler[s] \in Joined
<1>1. ASSUME NEW r \in Sessions, TunnelStep(r)
      PROVE  handler[s] \in Joined
  BY <1>1 DEF TypeOK, Joined, TunnelStep, Reject, StartSession, AddSession,
              AcceptError, LeaveRemove, LeaveClose
<1>2. QED
  BY <1>1, HandlerChange

LEMMA RetiredSame ==
  ASSUME TypeOK, [Next]_vars, UNCHANGED pool
  PROVE  Retired' = Retired
<1>1. ASSUME NEW s \in Sessions
      PROVE  ~AddSession(s)
  <2>1. Append(pool, s) # pool
    BY AppendProperties DEF TypeOK
  <2>2. QED
    BY <2>1 DEF AddSession
<1>2. QED
  BY <1>1, JoinsByAdding, JoinedStays DEF Retired

\* Taking a session out moves it from the members to the retired.
LEMMA RemovalRetires ==
  ASSUME TypeOK, PoolOwned, [Next]_vars, UNCHANGED streams,
         NEW r \in Range(pool), Range(pool') = Range(pool) \ {r},
         \A s \in Sessions : ~AddSession(s)
  PROVE  Ledger!Leave(r)
<1>1. r \in Sessions /\ handler[r] \in Joined
  BY DEF PoolOwned, Joined, Range, TypeOK
<1>2. \A s \in Sessions : handler'[s] \in Joined <=> handler[s] \in Joined
  BY JoinsByAdding, JoinedStays
<1>3. Retired' = Retired \cup {r}
  BY <1>1, <1>2 DEF Retired
<1>4. QED
  BY <1>3 DEF Ledger!Leave

LEMMA LedgerStep ==
  ASSUME TypeOK, PoolOwned, CountExact, PoolInv, [Next]_vars
  PROVE  [Ledger!Next]_<<Range(pool), Retired, streams>>
<1> DEFINE Stutter == UNCHANGED <<Range(pool), Retired, streams>>
           Goal == Ledger!Next \/ Stutter
<1>1. ASSUME UNCHANGED <<pool, streams>>
      PROVE  Stutter
  BY <1>1, RetiredSame
<1>2. ASSUME NEW s \in Sessions, AddSession(s)
      PROVE  Ledger!Join(s)
  <2>1. s \notin Range(pool) /\ handler[s] \notin Joined
    BY <1>2 DEF AddSession, PoolOwned, Joined
  <2>2. Range(pool') = Range(pool) \cup {s}
    BY <1>2, AppendRange DEF AddSession, TypeOK
  <2>3. \A r \in Sessions : r # s => handler'[r] = handler[r]
    BY <1>2 DEF AddSession, TypeOK
  <2>4. Retired' = Retired
    BY <2>1, <2>2, <2>3 DEF Retired
  <2>5. QED
    BY <1>2, <2>1, <2>2, <2>4 DEF Ledger!Join, AddSession, Retired
<1>3. ASSUME NEW s, RemoveSession(s), UNCHANGED streams,
             \A r \in Sessions : ~AddSession(r)
      PROVE  Goal
  <2>1. Range(pool') = Range(pool) \ {s}
    BY <1>3, RemoveSessionRange DEF PoolOwned
  <2>2. CASE s \in Range(pool)
    <3>1. s \in Sessions
      BY <2>2 DEF Range, TypeOK
    <3>2. Ledger!Leave(s)
      BY <1>3, <2>1, <2>2, RemovalRetires
    <3>3. QED
      BY <3>1, <3>2 DEF Ledger!Next
  <2>3. CASE s \notin Range(pool)
    <3>1. UNCHANGED pool
      BY <1>3, <2>3 DEF RemoveSession, Range, TypeOK
    <3>2. QED
      BY <1>1, <1>3, <3>1
  <2>4. QED
    BY <2>2, <2>3
<1>4. ASSUME NEW p \in Procs, at[p] \in Sessions, UNCHANGED pool,
             Add(at[p], 1)
      PROVE  Goal
  <2>1. at[p] \in Range(pool) \cup Retired
    BY <1>4, SessionsAssumption DEF PoolInv, PickedJoined, Retired
  <2>2. Ledger!Take(at[p])
    BY <1>4, <2>1, RetiredSame DEF Ledger!Take, Add
  <2>3. QED
    BY <1>4, <2>2 DEF Ledger!Next
<1>5. ASSUME NEW p \in Procs, at[p] \in Sessions, UNCHANGED pool,
             streams[at[p]] > 0, Add(at[p], -1)
      PROVE  Goal
  <2>1. Ledger!Give(at[p])
    BY <1>5, RetiredSame DEF Ledger!Give, Add, TypeOK
  <2>2. QED
    BY <1>5, <2>1 DEF Ledger!Next
<1>6. ASSUME NEW s \in Sessions, TunnelStep(s) \/ LinkStep(s)
      PROVE  Goal
  <2>1. CASE AddSession(s)
    BY <1>2, <2>1 DEF Ledger!Next
  <2>2. CASE LeaveRemove(s)
    <3>1. \A r \in Sessions : ~AddSession(r)
      BY <2>2 DEF LeaveRemove, AddSession, TypeOK
    <3>2. QED
      BY <1>3, <2>2, <3>1 DEF LeaveRemove
  <2>3. CASE ~AddSession(s) /\ ~LeaveRemove(s)
    BY <1>1, <1>6, <2>3
       DEF TunnelStep, LinkStep, Reject, StartSession, AcceptError, LeaveClose,
           BreakLink, KeepAliveExpires
  <2>4. QED
    BY <2>1, <2>2, <2>3
<1>7. ASSUME NEW s \in Sessions, NEW p \in Inbound, AcceptStream(s, p)
      PROVE  Goal
  BY <1>1, <1>7 DEF AcceptStream
<1>8. ASSUME NEW p \in Inbound, InboundStep(p)
      PROVE  Goal
  <2>1. p \in Procs
    BY DEF Procs
  <2>2. CASE CountInbound(p)
    BY <1>4, <2>1, <2>2 DEF CountInbound, Picked, TypeOK
  <2>3. CASE InboundProgress(p)
    BY <1>1, <2>3 DEF InboundProgress
  <2>4. CASE InboundExit(p)
    BY <1>5, <2>1, <2>4, CountDown DEF InboundExit, Picked, Counted, TypeOK
  <2>5. QED
    BY <1>8, <2>2, <2>3, <2>4 DEF InboundStep
<1>9. ASSUME NEW c \in Conns, ConnStep(c)
       PROVE  Goal
  <2>1. c \in Procs
    BY DEF Procs
  <2>2. CASE Evict(c)
    <3>1. \A r \in Sessions : ~AddSession(r)
      BY <2>2 DEF Evict, AddSession, TypeOK
    <3>2. QED
      BY <1>3, <2>2, <3>1 DEF Evict
  <2>3. CASE CountStream(c)
    BY <1>4, <2>1, <2>3 DEF CountStream, Picked, TypeOK
  <2>4. CASE WriteFail(c)
    BY <1>5, <2>1, <2>4, CountDown DEF WriteFail, Picked, Counted, TypeOK
  <2>5. CASE RelayEnd(c)
    BY <1>5, <2>1, <2>5, CountDown DEF RelayEnd, Picked, Counted, TypeOK
  <2>6. CASE ~Evict(c) /\ ~CountStream(c) /\ ~WriteFail(c) /\ ~RelayEnd(c)
    BY <1>1, <1>9, <2>6
       DEF ConnStep, OpenStep, NoSessions, BeginScan, ScanSkip, ScanPick,
           ScanPanic, ScanEnd, BeginLeast, LeastStep, LeastEnd, OpenOk,
           OpenFail, EvictClose, WriteOk
  <2>7. QED
    BY <2>2, <2>3, <2>4, <2>5, <2>6
<1>10. CASE MonitorPass
  <2>1. CASE MonitorStep
    <3>1. UNCHANGED <<streams, handler>>
      BY <2>1 DEF MonitorStep
    <3>2. CASE UNCHANGED pool
      BY <1>1, <3>1, <3>2
    <3>3. CASE \E s \in Range(pool) : Range(pool') = Range(pool) \ {s}
      <4>1. PICK s \in Range(pool) : Range(pool') = Range(pool) \ {s}
        BY <3>3
      <4>2. s \in Sessions
        BY DEF Range, TypeOK
      <4>3. \A r \in Sessions : ~AddSession(r)
        BY <3>1 DEF AddSession, TypeOK
      <4>4. QED
        BY <3>1, <4>1, <4>2, <4>3, RemovalRetires DEF Ledger!Next
    <3>4. QED
      BY <2>1, <3>2, <3>3, MonitorDrops DEF PoolOwned
  <2>2. CASE ~MonitorStep
    BY <1>1, <1>10, <2>2 DEF MonitorPass, MonitorLock, MonitorUnlock
  <2>3. QED
    BY <2>1, <2>2
<1>11. CASE UNCHANGED vars
  BY <1>1, <1>11 DEF vars
<1>12. QED
  BY <1>6, <1>7, <1>8, <1>9, <1>10, <1>11 DEF Next

\* The locks, scans and goroutines of the pool implement the ledger: a session
\* joins once and leaves once, and only counted streams are uncounted.
THEOREM LedgerImplemented == Spec => ImplementsLedger
<1>1. Init => Ledger!Init
  BY DEF Init, Ledger!Init, Range, Retired, Joined
<1>2. TypeOK /\ PoolOwned /\ CountExact /\ PoolInv /\ [Next]_vars
        => [Ledger!Next]_(Ledger!ledger)
  BY LedgerStep DEF Ledger!ledger
<1>3. QED
  BY <1>1, <1>2, TypeCorrect, PoolOwnedAlways, CountExactAlways, PoolInvAlways,
     PTL DEF Spec, ImplementsLedger, Ledger!Spec
=============================================================================
