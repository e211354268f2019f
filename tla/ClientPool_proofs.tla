------------------------- MODULE ClientPool_proofs -------------------------
(***************************************************************************)
(* Proofs about the client's pool, for every number of workers, users,     *)
(* sessions and paths.                                                     *)
(***************************************************************************)
EXTENDS ClientPool, SliceLemmas

-----------------------------------------------------------------------------
(* The slice.                                                              *)

LEMMA RemoveSessionType ==
  ASSUME TypeOK, NEW s, RemoveSession(s)
  PROVE  pool' \in Seq(Sessions)
BY RemoveAtElements DEF TypeOK, RemoveSession

LEMMA RemoveSessionRange ==
  ASSUME TypeOK, IsInjective(pool), NEW s, RemoveSession(s)
  PROVE  /\ IsInjective(pool')
         /\ Range(pool') = Range(pool) \ {s}
BY RemoveAtRange DEF TypeOK, RemoveSession

\* The loop of the health check goes on to the next entry.
LEMMA TailRange ==
  ASSUME NEW S, NEW q \in Seq(S), q # <<>>
  PROVE  /\ Tail(q) \in Seq(S) /\ Head(q) \in S
         /\ Range(q) = {Head(q)} \cup Range(Tail(q))
         /\ IsInjective(q) => IsInjective(Tail(q)) /\ Head(q) \notin Range(Tail(q))
<1> DEFINE t == Tail(q)
<1>1. /\ Head(q) \in S /\ Head(q) = q[1] /\ t \in Seq(S) /\ Len(t) = Len(q) - 1
      /\ \A k \in 1..Len(t) : t[k] = q[k + 1]
  BY HeadTailProperties
<1>2. /\ Len(q) \in Nat /\ Len(q) >= 1
      /\ DOMAIN q = 1..Len(q) /\ DOMAIN t = 1..(Len(q) - 1)
  BY <1>1, EmptySeq
<1> HIDE DEF t
<1>3. \A k \in 1..(Len(q) - 1) : k + 1 \in 1..Len(q) /\ k + 1 # 1
  BY <1>2
<1>4. \A k \in 1..Len(q) : k = 1 \/ (k - 1 \in 1..(Len(q) - 1) /\ (k - 1) + 1 = k)
  BY <1>2
<1>5. Range(q) = {Head(q)} \cup Range(t)
  <2>1. ASSUME NEW k \in 1..Len(q)
        PROVE  q[k] \in {Head(q)} \cup Range(t)
    <3>1. CASE k = 1
      BY <1>1, <3>1
    <3>2. CASE k # 1
      <4>1. k - 1 \in DOMAIN t /\ t[k - 1] = q[k]
        BY <1>1, <1>2, <1>4, <3>2
      <4>2. QED
        BY <4>1 DEF Range
    <3>3. QED
      BY <3>1, <3>2
  <2>2. Range(q) \subseteq {Head(q)} \cup Range(t)
    BY <1>2, <2>1 DEF Range
  <2>3. Head(q) \in Range(q)
    <3>1. 1 \in DOMAIN q
      BY <1>2
    <3>2. QED
      BY <1>1, <3>1 DEF Range
  <2>4. Range(t) \subseteq Range(q)
    BY <1>1, <1>2, <1>3 DEF Range
  <2>5. QED
    BY <2>2, <2>3, <2>4
<1>6. ASSUME IsInjective(q)
      PROVE  IsInjective(t) /\ Head(q) \notin Range(t)
  <2>1. \A x, y \in 1..Len(q) : q[x] = q[y] => x = y
    BY <1>2, <1>6 DEF IsInjective
  <2>2. ASSUME NEW j \in 1..(Len(q) - 1), NEW k \in 1..(Len(q) - 1), t[j] = t[k]
        PROVE  j = k
    BY <1>1, <1>2, <1>3, <2>1, <2>2
  <2>3. \A k \in 1..(Len(q) - 1) : t[k] # Head(q)
    <3>1. 1 \in 1..Len(q)
      BY <1>2
    <3>2. QED
      BY <1>1, <1>2, <1>3, <2>1, <3>1
  <2>4. QED
    BY <1>2, <2>2, <2>3 DEF IsInjective, Range
<1>7. QED
  BY <1>1, <1>5, <1>6 DEF t

-----------------------------------------------------------------------------
(* Type correctness.                                                       *)

LEMMA ReturnType ==
  ASSUME TypeOK, NEW w \in Workers, NEW maybeSlow \in BOOLEAN, Return(w, maybeSlow)
  PROVE  /\ quick' \in [Workers -> BOOLEAN]
         /\ pc' = [pc EXCEPT ![w] = "failed"]
BY DEF TypeOK, Return, Goto

LEMMA ConnectType ==
  ASSUME TypeOK, NEW w \in Workers, ConnectStep(w)
  PROVE  TypeOK'
<1> USE DEF TypeOK, WorkerStates, Owning, Goto, check
<1>1. CASE DialOk(w)
  BY <1>1 DEF DialOk
<1>2. CASE DialFail(w)
  <2>1. quick' \in [Workers -> BOOLEAN]
    <3>1. quick' = [quick EXCEPT ![w] = TRUE] \/ quick' = [quick EXCEPT ![w] = FALSE]
      BY <1>2 DEF DialFail, Return
    <3>2. QED
      BY <3>1
  <2>2. QED
    BY <1>2, <2>1 DEF DialFail, Return
<1>3. CASE TlsOk(w)
  BY <1>3 DEF TlsOk
<1>4. CASE TlsFail(w)
  BY <1>4, ReturnType DEF TlsFail
<1>5. CASE HandshakeOk(w)
  BY <1>5 DEF HandshakeOk
<1>6. CASE HandshakeFail(w)
  <2>1. <<>> \in Seq(Sessions) /\ 0 \in Paths /\ 0 \in 0..MaxFailsBeforeSwitch
    BY PathsAssumption DEF Paths, MaxFailsBeforeSwitch
  <2>2. QED
    BY <1>6, <2>1 DEF HandshakeFail
<1>7. CASE WrapFail(w)
  BY <1>7, ReturnType DEF WrapFail
<1>8. ASSUME NEW s \in Sessions, WrapOk(w, s)
      PROVE  TypeOK'
  BY <1>8, SessionsAssumption DEF WrapOk
<1>9. QED
  BY <1>1, <1>2, <1>3, <1>4, <1>5, <1>6, <1>7, <1>8 DEF ConnectStep

LEMMA WorkType ==
  ASSUME TypeOK, NEW w \in Workers, ServeStep(w) \/ RetryStep(w)
  PROVE  TypeOK'
<1> USE DEF TypeOK, WorkerStates, Owning, Goto, check
<1>1. CASE AddSession(w)
  <2>1. sess[w] \in Sessions
    BY <1>1 DEF AddSession
  <2>2. pool' \in Seq(Sessions)
    BY <1>1, <2>1, AppendRange DEF AddSession
  <2>3. QED
    BY <1>1, <2>2 DEF AddSession
<1>2. CASE AcceptError(w)
  BY <1>2 DEF AcceptError
<1>3. CASE LeaveRemove(w)
  <2>1. pool' \in Seq(Sessions)
    BY <1>3, RemoveSessionType DEF LeaveRemove
  <2>2. QED
    BY <1>3, <2>1 DEF LeaveRemove
<1>4. CASE LeaveClose(w)
  BY <1>4, ReturnType DEF LeaveClose
<1>5. CASE SwitchPath(w)
  <2>1. (path[w] + 1) % NPaths \in Paths
    BY PathsAssumption DEF Paths
  <2>2. QED
    BY <1>5, <2>1 DEF SwitchPath, MaxFailsBeforeSwitch
<1>6. CASE KeepPath(w)
  BY <1>6 DEF KeepPath, Failures, MaxFailsBeforeSwitch
<1>7. CASE Retry(w)
  BY <1>7 DEF Retry
<1>8. QED
  BY <1>1, <1>2, <1>3, <1>4, <1>5, <1>6, <1>7 DEF ServeStep, RetryStep

LEMMA UserType ==
  ASSUME TypeOK, NEW u \in Users, UserStep(u)
  PROVE  TypeOK'
<1> USE DEF TypeOK, worker, check
<1>1. CASE Snapshot(u)
  <2>1. \A k \in 1..Len(pool) :
          SubSeq(pool, k, Len(pool)) \o SubSeq(pool, 1, k - 1) \in Seq(Sessions)
    BY SubSeqProperties, ConcatProperties
  <2>2. snap' \in [Users -> Seq(Sessions)]
    BY <1>1, <2>1 DEF Snapshot
  <2>3. QED
    BY <1>1, <2>2 DEF Snapshot
<1>2. CASE SkipClosed(u)
  <2>1. Tail(snap[u]) \in Seq(Sessions)
    BY <1>2, HeadTailProperties DEF SkipClosed
  <2>2. QED
    BY <1>2, <2>1 DEF SkipClosed
<1>3. CASE OpenOk(u)
  BY <1>3 DEF OpenOk
<1>4. CASE OpenFail(u)
  <2>1. Tail(snap[u]) \in Seq(Sessions) /\ pool' \in Seq(Sessions)
    BY <1>4, HeadTailProperties, RemoveSessionType DEF OpenFail
  <2>2. QED
    BY <1>4, <2>1 DEF OpenFail
<1>5. QED
  BY <1>1, <1>2, <1>3, <1>4 DEF UserStep

LEMMA CheckType ==
  ASSUME TypeOK, CheckPass
  PROVE  TypeOK'
<1> USE DEF TypeOK, worker
<1>1. CASE CheckLock
  BY <1>1 DEF CheckLock
<1>2. CASE CheckStep
  <2>1. Tail(todo) \in Seq(Sessions) /\ Head(todo) \in Sessions
    BY <1>2, TailRange DEF CheckStep
  <2>2. alive' \in Seq(Sessions)
    BY <1>2, <2>1, AppendProperties DEF CheckStep
  <2>3. QED
    BY <1>2, <2>1, <2>2 DEF CheckStep
<1>3. CASE CheckUnlock
  BY <1>3, EmptySeq DEF CheckUnlock
<1>4. QED
  BY <1>1, <1>2, <1>3 DEF CheckPass

\* The types hold: in particular pathIdx always indexes c.paths, and a worker
\* has a session exactly between smux.Client and sess.Close().
THEOREM TypeCorrect == Spec => []TypeOK
<1>1. Init => TypeOK
  <2>1. <<>> \in Seq(Sessions) /\ 0 \in Paths /\ 0 \in 0..MaxFailsBeforeSwitch
    BY PathsAssumption DEF Paths, MaxFailsBeforeSwitch
  <2>2. QED
    BY <2>1 DEF Init, TypeOK, WorkerStates, Owning
<1>2. ASSUME TypeOK, [Next]_vars
      PROVE  TypeOK'
  <2>1. CASE CheckPass
    BY <1>2, <2>1, CheckType
  <2>2. ASSUME NEW s \in Sessions, LinkStep(s)
        PROVE  TypeOK'
    BY <1>2, <2>2 DEF TypeOK, LinkStep, BreakLink, KeepAliveExpires, worker, check
  <2>3. CASE Restart
    BY <1>2, <2>3 DEF TypeOK, Restart, worker, check
  <2>4. CASE UNCHANGED vars
    BY <1>2, <2>4 DEF TypeOK, vars, worker, check
  <2>5. QED
    BY <1>2, <2>1, <2>2, <2>3, <2>4, ConnectType, WorkType, UserType DEF Next
<1>3. QED
  BY <1>1, <1>2, PTL DEF Spec
-----------------------------------------------------------------------------
(* Who owns a session.                                                     *)

\* In the middle of a health check nothing is lost yet and nothing is there
\* twice: a session of the pool that is not closed is still to be looked at or
\* kept, since nobody can add one while the lock is held.
CheckInv ==
  /\ ~checking => todo = <<>> /\ alive = <<>>
  /\ IsInjective(todo) /\ IsInjective(alive)
  /\ Range(todo) \cap Range(alive) = {}
  /\ Range(todo) \cup Range(alive) \subseteq Range(pool)
  /\ checking => \A s \in Range(pool) :
       link[s] # "closed" => s \in Range(todo) \cup Range(alive)

\* PoolOwned and NoLeak need each other: a session that joins the pool is not
\* there yet because its worker is the only one to own it.
Owned == TypeOK /\ PoolOwned /\ NoLeak /\ CheckInv

\* The steps that leave the pool, the workers' sessions and the set of sessions
\* that are not closed alone, but for a worker that moves between two states in
\* which it owns one, or between two in which it does not.
LEMMA OwnedUnmoved ==
  ASSUME Owned, UNCHANGED <<pool, sess>>,
         \A w \in Workers : pc[w] \in {"serving", "remove"}
                             => pc'[w] \in {"serving", "remove"},
         \A s \in Sessions : link'[s] \in {"live", "broken"}
                             => link[s] \in {"live", "broken"}
  PROVE  PoolOwned' /\ NoLeak'
<1>1. \A s \in Range(pool) :
        \E w \in Workers : sess'[w] = s /\ pc'[w] \in {"serving", "remove"}
  BY DEF Owned, PoolOwned
<1>2. Range(pool') = Range(pool) /\ IsInjective(pool')
  BY DEF Owned, PoolOwned
<1>3. QED
  BY <1>1, <1>2 DEF Owned, PoolOwned, NoLeak

\* The pool shrinks and nothing else changes.
LEMMA OwnedShrink ==
  ASSUME Owned, UNCHANGED <<pc, sess, link>>,
         IsInjective(pool'), Range(pool') \subseteq Range(pool)
  PROVE  PoolOwned' /\ NoLeak'
BY DEF Owned, PoolOwned, NoLeak

LEMMA OwnedConnect ==
  ASSUME Owned, NEW w \in Workers, ConnectStep(w)
  PROVE  PoolOwned' /\ NoLeak'
<1> USE DEF Goto
<1>1. pc \in [Workers -> WorkerStates] /\ sess \in [Workers -> Sessions \cup {None}]
  BY DEF Owned, TypeOK
<1>2. CASE \/ DialOk(w) \/ DialFail(w) \/ TlsOk(w) \/ TlsFail(w)
           \/ HandshakeOk(w) \/ WrapFail(w)
  <2>1. UNCHANGED <<pool, sess, link>>
    BY <1>2 DEF DialOk, DialFail, TlsOk, TlsFail, HandshakeOk, WrapFail
  <2>2. pc[w] \notin {"serving", "remove"}
    BY <1>2 DEF DialOk, DialFail, TlsOk, TlsFail, HandshakeOk, WrapFail
  <2>3. \A v \in Workers : v # w => pc'[v] = pc[v]
    BY <1>1, <1>2 DEF DialOk, DialFail, TlsOk, TlsFail, HandshakeOk, WrapFail, Return
  <2>4. QED
    BY <2>1, <2>2, <2>3, OwnedUnmoved
<1>3. CASE HandshakeFail(w)
  <2>1. IsInjective(<<>>) /\ Range(<<>>) = {}
    BY DEF IsInjective, Range
  <2>2. pool' = <<>>
    BY <1>3 DEF HandshakeFail
  <2>3. PoolOwned'
    BY <2>1, <2>2 DEF PoolOwned
  <2>4. NoLeak'
    BY <1>3 DEF HandshakeFail, NoLeak
  <2>5. QED
    BY <2>3, <2>4
<1>4. ASSUME NEW s \in Sessions, WrapOk(w, s)
      PROVE  PoolOwned' /\ NoLeak'
  <2>1. /\ pool' = pool /\ s \notin Range(pool)
        /\ \A v \in Workers : sess[v] # s
        /\ pc[w] = "wrap" /\ pc' = [pc EXCEPT ![w] = "add"]
        /\ sess' = [sess EXCEPT ![w] = s]
        /\ link' = [link EXCEPT ![s] = "live"]
    BY <1>4 DEF WrapOk, Unreferenced
  <2>2. sess[w] = None
    BY <2>1 DEF Owned, TypeOK, Owning
  <2>3. \A v \in Workers : v # w => sess'[v] = sess[v] /\ pc'[v] = pc[v]
    BY <1>1, <2>1
  <2>4. PoolOwned'
    <3>1. ASSUME NEW t \in Range(pool)
          PROVE  \E v \in Workers : sess'[v] = t /\ pc'[v] \in {"serving", "remove"}
      <4>1. PICK v \in Workers : sess[v] = t /\ pc[v] \in {"serving", "remove"}
        BY <3>1 DEF Owned, PoolOwned
      <4>2. v # w
        BY <2>1, <4>1
      <4>3. QED
        BY <2>3, <4>1, <4>2
    <3>2. QED
      BY <2>1, <3>1 DEF Owned, PoolOwned
  <2>5. \A u, v \in Workers : sess'[u] = sess'[v] /\ sess'[u] # None => u = v
    BY <1>1, <2>1, <2>3 DEF Owned, NoLeak
  <2>6. ASSUME NEW t \in Sessions, link'[t] \in {"live", "broken"}
        PROVE  \E v \in Workers : sess'[v] = t
    <3>1. CASE t = s
      BY <1>1, <2>1, <3>1
    <3>2. CASE t # s
      <4>1. link[t] \in {"live", "broken"}
        BY <2>1, <2>6, <3>2 DEF Owned, TypeOK
      <4>2. PICK v \in Workers : sess[v] = t
        BY <4>1 DEF Owned, NoLeak
      <4>3. v # w
        BY <2>2, <4>2, SessionsAssumption
      <4>4. QED
        BY <2>3, <4>2, <4>3
    <3>3. QED
      BY <3>1, <3>2
  <2>7. QED
    BY <2>4, <2>5, <2>6 DEF NoLeak
<1>5. QED
  BY <1>2, <1>3, <1>4 DEF ConnectStep

LEMMA OwnedServe ==
  ASSUME Owned, NEW w \in Workers, ServeStep(w)
  PROVE  PoolOwned' /\ NoLeak'
<1> USE DEF Goto
<1>1. /\ pc \in [Workers -> WorkerStates] /\ sess \in [Workers -> Sessions \cup {None}]
      /\ link \in [Sessions -> {"none", "live", "broken", "closed"}]
  BY DEF Owned, TypeOK
<1>2. pc[w] \in Owning => sess[w] \in Sessions
  BY DEF Owned, TypeOK
<1>3. CASE AddSession(w)
  <2>1. /\ pc[w] = "add" /\ pc' = [pc EXCEPT ![w] = "serving"]
        /\ pool' = Append(pool, sess[w]) /\ UNCHANGED <<link, sess>>
    BY <1>3 DEF AddSession
  <2>2. sess[w] \in Sessions
    BY <1>2, <2>1 DEF Owning
  <2>3. sess[w] \notin Range(pool)
    <3>1. SUFFICES ASSUME sess[w] \in Range(pool)
                   PROVE  FALSE
      OBVIOUS
    <3>2. PICK v \in Workers : sess[v] = sess[w] /\ pc[v] \in {"serving", "remove"}
      BY <3>1 DEF Owned, PoolOwned
    <3>3. v = w
      BY <2>2, <3>2, SessionsAssumption DEF Owned, NoLeak
    <3>4. QED
      BY <2>1, <3>2, <3>3
  <2>4. Range(pool') = Range(pool) \cup {sess[w]} /\ IsInjective(pool')
    BY <2>1, <2>2, <2>3, AppendRange DEF Owned, TypeOK, PoolOwned
  <2>5. \A v \in Workers : pc[v] \in {"serving", "remove"} => pc'[v] = pc[v]
    BY <1>1, <2>1
  <2>6. pc'[w] = "serving"
    BY <1>1, <2>1
  <2>7. PoolOwned'
    BY <2>1, <2>4, <2>5, <2>6 DEF Owned, PoolOwned
  <2>8. NoLeak'
    BY <2>1 DEF Owned, NoLeak
  <2>9. QED
    BY <2>7, <2>8
<1>4. CASE AcceptError(w)
  <2>1. /\ pc' = [pc EXCEPT ![w] = "remove"]
        /\ UNCHANGED <<pool, link, sess>>
    BY <1>4 DEF AcceptError
  <2>2. QED
    BY <1>1, <2>1, OwnedUnmoved
<1>5. CASE LeaveRemove(w)
  <2>1. /\ pc[w] = "remove" /\ pc' = [pc EXCEPT ![w] = "close"]
        /\ RemoveSession(sess[w]) /\ UNCHANGED <<link, sess>>
    BY <1>5 DEF LeaveRemove
  <2>2. Range(pool') = Range(pool) \ {sess[w]} /\ IsInjective(pool')
    BY <2>1, RemoveSessionRange DEF Owned, PoolOwned
  <2>3. ASSUME NEW s \in Range(pool')
        PROVE  \E v \in Workers : sess'[v] = s /\ pc'[v] \in {"serving", "remove"}
    <3>1. PICK v \in Workers : sess[v] = s /\ pc[v] \in {"serving", "remove"}
      BY <2>2, <2>3 DEF Owned, PoolOwned
    <3>2. v # w
      BY <2>2, <2>3, <3>1
    <3>3. QED
      BY <1>1, <2>1, <3>1, <3>2
  <2>4. PoolOwned'
    BY <2>2, <2>3 DEF PoolOwned
  <2>5. NoLeak'
    BY <2>1 DEF Owned, NoLeak
  <2>6. QED
    BY <2>4, <2>5
<1>6. CASE LeaveClose(w)
  <2>1. /\ pc[w] = "close" /\ link' = [link EXCEPT ![sess[w]] = "closed"]
        /\ sess' = [sess EXCEPT ![w] = None] /\ pc' = [pc EXCEPT ![w] = "failed"]
        /\ pool' = pool
    BY <1>6 DEF LeaveClose, Return
  <2>2. sess[w] \in Sessions
    BY <1>2, <2>1 DEF Owning
  <2>3. \A v \in Workers : v # w => sess'[v] = sess[v] /\ pc'[v] = pc[v]
    BY <1>1, <2>1
  <2>4. PoolOwned'
    <3>1. ASSUME NEW t \in Range(pool)
          PROVE  \E v \in Workers : sess'[v] = t /\ pc'[v] \in {"serving", "remove"}
      <4>1. PICK v \in Workers : sess[v] = t /\ pc[v] \in {"serving", "remove"}
        BY <3>1 DEF Owned, PoolOwned
      <4>2. v # w
        BY <2>1, <4>1
      <4>3. QED
        BY <2>3, <4>1, <4>2
    <3>2. QED
      BY <2>1, <3>1 DEF Owned, PoolOwned
  <2>5. \A u, v \in Workers : sess'[u] = sess'[v] /\ sess'[u] # None => u = v
    BY <1>1, <2>1, <2>3 DEF Owned, NoLeak
  <2>6. ASSUME NEW t \in Sessions, link'[t] \in {"live", "broken"}
        PROVE  \E v \in Workers : sess'[v] = t
    <3>1. t # sess[w] /\ link[t] \in {"live", "broken"}
      BY <1>1, <2>1, <2>2, <2>6
    <3>2. PICK v \in Workers : sess[v] = t
      BY <3>1 DEF Owned, NoLeak
    <3>3. QED
      BY <2>3, <3>1, <3>2
  <2>7. QED
    BY <2>4, <2>5, <2>6 DEF NoLeak
<1>7. QED
  BY <1>3, <1>4, <1>5, <1>6 DEF ServeStep

LEMMA OwnedUser ==
  ASSUME Owned, NEW u \in Users, UserStep(u)
  PROVE  PoolOwned' /\ NoLeak'
<1>1. UNCHANGED <<pc, sess, link>>
  BY DEF UserStep, Snapshot, SkipClosed, OpenOk, OpenFail, worker
<1>2. IsInjective(pool') /\ Range(pool') \subseteq Range(pool)
  <2>1. CASE OpenFail(u)
    BY <2>1, RemoveSessionRange DEF OpenFail, Owned, PoolOwned
  <2>2. CASE Snapshot(u) \/ SkipClosed(u) \/ OpenOk(u)
    BY <2>2 DEF Snapshot, SkipClosed, OpenOk, Owned, PoolOwned
  <2>3. QED
    BY <2>1, <2>2 DEF UserStep
<1>3. QED
  BY <1>1, <1>2, OwnedShrink

LEMMA OwnedCheck ==
  ASSUME Owned, CheckPass
  PROVE  PoolOwned' /\ NoLeak'
<1>1. UNCHANGED <<pc, sess, link>>
  BY DEF CheckPass, CheckLock, CheckStep, CheckUnlock, worker
<1>2. IsInjective(pool') /\ Range(pool') \subseteq Range(pool)
  <2>1. CASE CheckUnlock
    BY <2>1 DEF CheckUnlock, Owned, CheckInv
  <2>2. CASE CheckLock \/ CheckStep
    BY <2>2 DEF CheckLock, CheckStep, Owned, PoolOwned
  <2>3. QED
    BY <2>1, <2>2 DEF CheckPass
<1>3. QED
  BY <1>1, <1>2, OwnedShrink

\* The steps that wait for the lock, and those that leave the pool alone and
\* open none of its sessions.
LEMMA CheckUnmoved ==
  ASSUME CheckInv, UNCHANGED check,
         \/ ~checking
         \/ /\ pool' = pool
            /\ \A s \in Range(pool) : link'[s] # "closed" => link[s] # "closed"
  PROVE  CheckInv'
<1>1. CASE ~checking
  <2>1. Range(<<>>) = {}
    BY DEF Range
  <2>2. QED
    BY <1>1, <2>1 DEF CheckInv, check
<1>2. CASE checking
  BY <1>2 DEF CheckInv, check
<1>3. QED
  BY <1>1, <1>2

LEMMA CheckInvStep ==
  ASSUME Owned, CheckStep
  PROVE  CheckInv'
<1>1. /\ todo # <<>> /\ todo' = Tail(todo)
      /\ alive' = IF link[Head(todo)] = "closed" THEN alive
                                                ELSE Append(alive, Head(todo))
      /\ UNCHANGED <<pool, link, checking>>
  BY DEF CheckStep
<1>2. todo \in Seq(Sessions) /\ alive \in Seq(Sessions)
  BY DEF Owned, TypeOK
<1>3. /\ Head(todo) \in Sessions
      /\ Range(todo) = {Head(todo)} \cup Range(todo')
      /\ IsInjective(todo') /\ Head(todo) \notin Range(todo')
  BY <1>1, <1>2, TailRange DEF Owned, CheckInv
<1>4. checking
  BY <1>1 DEF Owned, CheckInv
<1>5. CASE link[Head(todo)] = "closed"
  BY <1>1, <1>3, <1>4, <1>5 DEF Owned, CheckInv
<1>6. CASE link[Head(todo)] # "closed"
  <2>1. Head(todo) \notin Range(alive)
    BY <1>3 DEF Owned, CheckInv
  <2>2. Range(alive') = Range(alive) \cup {Head(todo)} /\ IsInjective(alive')
    BY <1>1, <1>2, <1>3, <1>6, <2>1, AppendRange DEF Owned, CheckInv
  <2>3. QED
    BY <1>1, <1>3, <1>4, <2>2 DEF Owned, CheckInv
<1>7. QED
  BY <1>5, <1>6

LEMMA CheckInvPreserved ==
  ASSUME Owned, [Next]_vars
  PROVE  CheckInv'
<1>1. IsInjective(<<>>) /\ Range(<<>>) = {}
  BY DEF IsInjective, Range
<1>2. CheckInv
  BY DEF Owned
<1>3. ASSUME NEW w \in Workers, ConnectStep(w)
      PROVE  CheckInv'
  <2>1. CASE HandshakeFail(w)
    BY <1>1, <2>1 DEF HandshakeFail, CheckInv
  <2>2. ASSUME NEW s \in Sessions, WrapOk(w, s)
        PROVE  CheckInv'
    <3>1. /\ UNCHANGED <<check, pool>> /\ s \notin Range(pool)
          /\ link' = [link EXCEPT ![s] = "live"]
      BY <2>2 DEF WrapOk, Unreferenced
    <3>2. \A t \in Range(pool) : link'[t] # "closed" => link[t] # "closed"
      BY <3>1 DEF Owned, TypeOK
    <3>3. QED
      BY <1>2, <3>1, <3>2, CheckUnmoved
  <2>3. CASE \/ DialOk(w) \/ DialFail(w) \/ TlsOk(w) \/ TlsFail(w)
             \/ HandshakeOk(w) \/ WrapFail(w)
    <3>1. UNCHANGED <<check, pool, link>>
      BY <2>3 DEF DialOk, DialFail, TlsOk, TlsFail, HandshakeOk, WrapFail
    <3>2. QED
      BY <1>2, <3>1, CheckUnmoved
  <2>4. QED
    BY <1>3, <2>1, <2>2, <2>3 DEF ConnectStep
<1>4. ASSUME NEW w \in Workers, ServeStep(w) \/ RetryStep(w)
      PROVE  CheckInv'
  <2>1. CASE AddSession(w) \/ LeaveRemove(w)
    BY <1>2, <2>1, CheckUnmoved DEF AddSession, LeaveRemove
  <2>2. CASE LeaveClose(w)
    <3>1. UNCHANGED <<check, pool>> /\ link' = [link EXCEPT ![sess[w]] = "closed"]
      BY <2>2 DEF LeaveClose
    <3>2. \A t \in Range(pool) : link'[t] # "closed" => link[t] # "closed"
      BY <3>1 DEF Owned, TypeOK
    <3>3. QED
      BY <1>2, <3>1, <3>2, CheckUnmoved
  <2>3. CASE AcceptError(w) \/ RetryStep(w)
    <3>1. UNCHANGED <<check, pool, link>>
      BY <2>3 DEF AcceptError, RetryStep, SwitchPath, KeepPath, Retry
    <3>2. QED
      BY <1>2, <3>1, CheckUnmoved
  <2>4. QED
    BY <1>4, <2>1, <2>2, <2>3 DEF ServeStep
<1>5. CASE CheckPass
  <2>1. CASE CheckLock
    <3>1. /\ checking' /\ todo' = pool /\ alive' = <<>>
          /\ UNCHANGED <<pool, link>>
      BY <1>2, <2>1 DEF CheckLock, CheckInv
    <3>2. QED
      BY <1>1, <3>1 DEF CheckInv, Owned, PoolOwned
  <2>2. CASE CheckUnlock
    BY <1>1, <1>2, <2>2 DEF CheckUnlock, CheckInv
  <2>3. QED
    BY <1>5, <2>1, <2>2, CheckInvStep DEF CheckPass
<1>6. ASSUME NEW u \in Users, UserStep(u)
      PROVE  CheckInv'
  <2>1. UNCHANGED <<check, link>> /\ (pool' = pool \/ ~checking)
    BY <1>6 DEF UserStep, Snapshot, SkipClosed, OpenOk, OpenFail
  <2>2. QED
    BY <1>2, <2>1, CheckUnmoved
<1>7. ASSUME NEW s \in Sessions, LinkStep(s)
      PROVE  CheckInv'
  <2>1. UNCHANGED <<check, pool>>
    BY <1>7 DEF LinkStep, BreakLink, KeepAliveExpires
  <2>2. \A t \in Range(pool) : link'[t] # "closed" => link[t] # "closed"
    <3>1. \/ link' = [link EXCEPT ![s] = "broken"]
          \/ link' = [link EXCEPT ![s] = "closed"]
      BY <1>7 DEF LinkStep, BreakLink, KeepAliveExpires
    <3>2. link[s] # "closed" /\ link \in [Sessions -> {"none", "live", "broken", "closed"}]
      BY <1>7 DEF LinkStep, BreakLink, KeepAliveExpires, Owned, TypeOK
    <3>3. \A t \in DOMAIN link : t = s \/ link'[t] = link[t]
      BY <3>1
    <3>4. Range(pool) \subseteq DOMAIN link
      BY <3>2 DEF Range, Owned, TypeOK
    <3>5. QED
      BY <3>2, <3>3, <3>4
  <2>3. QED
    BY <1>2, <2>1, <2>2, CheckUnmoved
<1>8. CASE Restart \/ UNCHANGED vars
  <2>1. UNCHANGED <<check, pool, link>>
    BY <1>8 DEF Restart, vars
  <2>2. QED
    BY <1>2, <2>1, CheckUnmoved
<1>9. QED
  BY <1>3, <1>4, <1>5, <1>6, <1>7, <1>8 DEF Next

LEMMA OwnedAlways == Spec => []Owned
<1>1. Init => PoolOwned /\ NoLeak /\ CheckInv
  BY DEF Init, PoolOwned, NoLeak, CheckInv, IsInjective, Range
<1>2. ASSUME Owned, [Next]_vars
      PROVE  PoolOwned' /\ NoLeak'
  <2>1. ASSUME NEW w \in Workers, RetryStep(w)
        PROVE  PoolOwned' /\ NoLeak'
    <3>1. /\ UNCHANGED <<pool, sess, link>>
          /\ pc[w] \notin {"serving", "remove"}
      BY <2>1 DEF RetryStep, SwitchPath, KeepPath, Retry
    <3>2. \A v \in Workers : v # w => pc'[v] = pc[v]
      BY <1>2, <2>1 DEF RetryStep, SwitchPath, KeepPath, Retry, Goto, Owned, TypeOK
    <3>3. QED
      BY <1>2, <3>1, <3>2, OwnedUnmoved
  <2>2. CASE CheckPass
    BY <1>2, <2>2, OwnedCheck
  <2>3. ASSUME NEW s \in Sessions, LinkStep(s)
        PROVE  PoolOwned' /\ NoLeak'
    <3>1. UNCHANGED <<pool, pc, sess>>
      BY <2>3 DEF LinkStep, BreakLink, KeepAliveExpires, worker
    <3>2. \A t \in Sessions : link'[t] \in {"live", "broken"}
                              => link[t] \in {"live", "broken"}
      BY <1>2, <2>3 DEF LinkStep, BreakLink, KeepAliveExpires, Owned, TypeOK
    <3>3. QED
      BY <1>2, <3>1, <3>2, OwnedUnmoved
  <2>4. CASE Restart \/ UNCHANGED vars
    <3>1. UNCHANGED <<pool, pc, sess, link>>
      BY <2>4 DEF Restart, vars, worker
    <3>2. QED
      BY <1>2, <3>1, OwnedUnmoved
  <2>5. QED
    BY <1>2, <2>1, <2>2, <2>3, <2>4, OwnedConnect, OwnedServe, OwnedUser DEF Next
<1>3. QED
  BY <1>1, <1>2, CheckInvPreserved, TypeCorrect, PTL DEF Spec, Owned

\* The pool never lists a session twice or one whose worker is past removeSession.
THEOREM PoolOwnedAlways == Spec => []PoolOwned
BY OwnedAlways, PTL DEF Owned

\* No session is served twice, and none that is open is without a worker.
THEOREM NoLeakAlways == Spec => []NoLeak
BY OwnedAlways, PTL DEF Owned

-----------------------------------------------------------------------------
(* Who takes a session out of the pool.                                    *)

\* Only OpenStream takes out a session that is served and open: the health
\* check keeps it, and another worker removes another session.
THEOREM LiveStaysPooledAlways == Spec => LiveStaysPooled
<1> DEFINE Kept(w) ==
      /\ pc[w] = "serving" /\ pc'[w] = "serving"
      /\ link[sess[w]] # "closed"
      /\ sess[w] \in Range(pool) \ Range(pool')
      => \E u \in Users : snap[u] # <<>> /\ Head(snap[u]) = sess[w]
<1>1. ASSUME Owned, [Next]_vars, NEW w \in Workers
      PROVE  Kept(w)
  <2>1. SUFFICES ASSUME pc[w] = "serving", pc'[w] = "serving",
                        link[sess[w]] # "closed",
                        sess[w] \in Range(pool), sess[w] \notin Range(pool')
                 PROVE  \E u \in Users : snap[u] # <<>> /\ Head(snap[u]) = sess[w]
    OBVIOUS
  <2>2. pool' # pool
    BY <2>1
  <2>3. ASSUME NEW v \in Workers, ConnectStep(v)
        PROVE  FALSE
    <3>1. HandshakeFail(v)
      BY <2>2, <2>3 DEF ConnectStep, DialOk, DialFail, TlsOk, TlsFail, HandshakeOk,
                        WrapFail, WrapOk
    <3>2. QED
      BY <2>1, <3>1 DEF HandshakeFail
  <2>4. ASSUME NEW v \in Workers, ServeStep(v)
        PROVE  FALSE
    <3>1. AddSession(v) \/ LeaveRemove(v)
      BY <2>2, <2>4 DEF ServeStep, AcceptError, LeaveClose
    <3>2. CASE AddSession(v)
      <4>1. sess[v] \in Sessions /\ pool' = Append(pool, sess[v])
        BY <1>1, <3>2 DEF AddSession, Owned, TypeOK, Owning
      <4>2. QED
        BY <1>1, <2>1, <4>1, AppendRange DEF Owned, TypeOK
    <3>3. CASE LeaveRemove(v)
      <4>1. Range(pool') = Range(pool) \ {sess[v]}
        BY <1>1, <3>3, RemoveSessionRange DEF LeaveRemove, Owned, PoolOwned
      <4>2. sess[v] = sess[w] /\ sess[w] # None
        BY <1>1, <2>1, <4>1 DEF Owned, TypeOK, Owning
      <4>3. v = w
        BY <1>1, <4>2 DEF Owned, NoLeak
      <4>4. QED
        BY <2>1, <3>3, <4>3 DEF LeaveRemove
    <3>4. QED
      BY <3>1, <3>2, <3>3
  <2>5. ASSUME NEW v \in Workers, RetryStep(v)
        PROVE  FALSE
    BY <2>2, <2>5 DEF RetryStep, SwitchPath, KeepPath, Retry
  <2>6. CASE CheckPass
    <3>1. CheckUnlock
      BY <2>2, <2>6 DEF CheckPass, CheckLock, CheckStep
    <3>2. Range(<<>>) = {}
      BY DEF Range
    <3>3. sess[w] \in Range(alive)
      BY <1>1, <2>1, <3>1, <3>2 DEF CheckUnlock, Owned, CheckInv
    <3>4. QED
      BY <2>1, <3>1, <3>3 DEF CheckUnlock
  <2>7. ASSUME NEW u \in Users, UserStep(u)
        PROVE  \E x \in Users : snap[x] # <<>> /\ Head(snap[x]) = sess[w]
    <3>1. OpenFail(u)
      BY <2>2, <2>7 DEF UserStep, Snapshot, SkipClosed, OpenOk
    <3>2. Range(pool') = Range(pool) \ {Head(snap[u])} /\ snap[u] # <<>>
      BY <1>1, <3>1, RemoveSessionRange DEF OpenFail, Owned, PoolOwned
    <3>3. QED
      BY <2>1, <3>2
  <2>8. ASSUME NEW s \in Sessions, LinkStep(s)
        PROVE  FALSE
    BY <2>2, <2>8 DEF LinkStep, BreakLink, KeepAliveExpires
  <2>9. CASE Restart \/ UNCHANGED vars
    BY <2>2, <2>9 DEF Restart, vars
  <2>10. QED
    BY <1>1, <2>3, <2>4, <2>5, <2>6, <2>7, <2>8, <2>9 DEF Next
<1>2. ASSUME Owned, [Next]_vars
      PROVE  [\A w \in Workers : Kept(w)]_vars
  BY <1>1, <1>2
<1>3. QED
  BY <1>2, OwnedAlways, PTL DEF Spec, LiveStaysPooled
=============================================================================
