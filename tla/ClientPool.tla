----------------------------- MODULE ClientPool -----------------------------
(***************************************************************************)
(* The connection pool of the PicoTun client (src/client.go): the workers  *)
(* that keep one session each and fail over between paths, the slice of    *)
(* sessions they share with OpenStream and the health check, the crash of  *)
(* the process and its restart by systemd.                                 *)
(*                                                                         *)
(* The health check holds sessMu over a loop, of which each pass is a step *)
(* here.  Every other use of sessMu is one step, which waits for the lock. *)
(* What happens to an object when nothing refers to it any more does not   *)
(* matter: a session name may be used again then.                          *)
(*                                                                         *)
(* OpenStream is exported and nothing in the repository calls it; a user   *)
(* stands for a goroutine of a program that uses the package.              *)
(***************************************************************************)
EXTENDS Integers, Sequences, FiniteSets, SequencesExt

CONSTANTS
  Workers,   \* the goroutines poolWorker
  Users,     \* goroutines that call OpenStream, outside the repository
  Sessions,  \* names for the smux sessions that exist at one time
  NPaths,    \* len(c.paths)
  TlsPaths,  \* the paths with transport httpsmux or wssmux
  SlowPaths, \* the paths whose dial may take 30 s: with fragmentation, where
             \* DialFragmented dials twice, a DialTimeout of 15 s is enough
  None

ASSUME SessionsAssumption == None \notin Sessions
ASSUME PathsAssumption == NPaths \in Nat \ {0}

Paths == 0..(NPaths - 1)
MaxFailsBeforeSwitch == 3

VARIABLES
  up,     \* the process runs
  pool,   \* Client.sessions
  link,   \* each smux session: IsClosed() is link = "closed"; on a "broken" one
          \* the socket has failed and IsClosed() is still false
  pc,     \* where each worker is
  path,   \* its pathIdx
  fails,  \* its failCount, of which nothing asks more than whether it is 3
  quick,  \* its connDuration was below 30 s; TRUE again once it has been looked at
  sess,   \* the session it serves
  checking, \* the health check holds sessMu
  todo,     \* the entries of the slice its loop has still to look at
  alive,    \* those it keeps
  snap    \* the copy of the pool a user has still to try

worker == <<pc, path, fails, quick, sess>>
check == <<checking, todo, alive>>
vars == <<up, pool, link, worker, check, snap>>

WorkerStates == {"connect", "tls", "handshake", "wrap", "add", "serving",
                 "remove", "close", "failed", "sleep"}

\* The states of a worker that has a session.
Owning == {"add", "serving", "remove", "close"}

Init ==
  /\ up = TRUE
  /\ pool = <<>>
  /\ link = [s \in Sessions |-> "none"]
  /\ pc = [w \in Workers |-> "connect"]
  /\ path = [w \in Workers |-> 0]
  /\ fails = [w \in Workers |-> 0]
  /\ quick = [w \in Workers |-> TRUE]
  /\ sess = [w \in Workers |-> None]
  /\ checking = FALSE
  /\ todo = <<>>
  /\ alive = <<>>
  /\ snap = [u \in Users |-> <<>>]

\* No pointer to s is left.
Unreferenced(s) ==
  /\ s \notin Range(pool)
  /\ \A w \in Workers : sess[w] # s
  /\ \A u \in Users : s \notin Range(snap[u])

Goto(w, to) == pc' = [pc EXCEPT ![w] = to]

\* removeSession: the first entry equal to s, if there is one
RemoveSession(s) ==
  \/ \E i \in 1..Len(pool) :
       /\ pool[i] = s
       /\ \A j \in 1..(i - 1) : pool[j] # s
       /\ pool' = RemoveAt(pool, i)
  \/ /\ s \notin Range(pool)
     /\ UNCHANGED pool

-----------------------------------------------------------------------------
(* connectAndServe                                                         *)

\* An error return of connectAndServe, after less than 30 s or, perhaps, more.
Return(w, maybeSlow) ==
  /\ Goto(w, "failed")
  /\ \E q \in {TRUE, ~maybeSlow} : quick' = [quick EXCEPT ![w] = q]

DialOk(w) ==
  /\ pc[w] = "connect"
  /\ Goto(w, IF path[w] \in TlsPaths THEN "tls" ELSE "handshake")
  /\ UNCHANGED <<up, pool, link, path, fails, quick, sess, check, snap>>

DialFail(w) ==
  /\ pc[w] = "connect"
  /\ Return(w, path[w] \in SlowPaths)
  /\ UNCHANGED <<up, pool, link, path, fails, sess, check, snap>>

\* uConn.Handshake has no deadline.
TlsOk(w) ==
  /\ pc[w] = "tls"
  /\ Goto(w, "handshake")
  /\ UNCHANGED <<up, pool, link, path, fails, quick, sess, check, snap>>

TlsFail(w) ==
  /\ pc[w] = "tls"
  /\ Return(w, TRUE)
  /\ UNCHANGED <<up, pool, link, path, fails, sess, check, snap>>

\* ClientHandshake has no deadline either.
HandshakeOk(w) ==
  /\ pc[w] = "handshake"
  /\ Goto(w, "wrap")
  /\ UNCHANGED <<up, pool, link, path, fails, quick, sess, check, snap>>

\* ClientHandshake returns nil with its error, and conn.Close() is called on
\* that nil: the panic ends the process and all it had.
HandshakeFail(w) ==
  /\ pc[w] = "handshake"
  /\ up' = FALSE
  /\ pool' = <<>>
  /\ link' = [s \in Sessions |-> "none"]
  /\ pc' = [v \in Workers |-> "connect"]
  /\ path' = [v \in Workers |-> 0]
  /\ fails' = [v \in Workers |-> 0]
  /\ quick' = [v \in Workers |-> TRUE]
  /\ sess' = [v \in Workers |-> None]
  /\ checking' = FALSE
  /\ todo' = <<>>
  /\ alive' = <<>>
  /\ snap' = [u \in Users |-> <<>>]

\* NewEncryptedConn or smux.Client refuses; the connection is closed.
WrapFail(w) ==
  /\ pc[w] = "wrap"
  /\ Return(w, TRUE)
  /\ UNCHANGED <<up, pool, link, path, fails, sess, check, snap>>

WrapOk(w, s) ==
  /\ pc[w] = "wrap"
  /\ Unreferenced(s)
  /\ sess' = [sess EXCEPT ![w] = s]
  /\ link' = [link EXCEPT ![s] = "live"]
  /\ Goto(w, "add")
  /\ UNCHANGED <<up, pool, path, fails, quick, check, snap>>

\* Mutant: the append does not wait for the lock.
AddSession_Unlocked(w) ==
  /\ pc[w] = "add"
  /\ pool' = Append(pool, sess[w])
  /\ Goto(w, "serving")
  /\ UNCHANGED <<up, link, path, fails, quick, sess, check, snap>>

AddSession(w) ==
  /\ pc[w] = "add"
  /\ ~checking
  /\ pool' = Append(pool, sess[w])
  /\ Goto(w, "serving")
  /\ UNCHANGED <<up, link, path, fails, quick, sess, check, snap>>

\* Mutant: the loop asks IsClosed() and does not see the socket error.
AcceptError_Closed(w) ==
  /\ pc[w] = "serving"
  /\ link[sess[w]] = "closed"
  /\ Goto(w, "remove")
  /\ UNCHANGED <<up, pool, link, path, fails, quick, sess, check, snap>>

\* AcceptStream fails; until then it starts handleReverseStream goroutines,
\* which leave the pool alone.
AcceptError(w) ==
  /\ pc[w] = "serving"
  /\ link[sess[w]] \in {"broken", "closed"}
  /\ Goto(w, "remove")
  /\ UNCHANGED <<up, pool, link, path, fails, quick, sess, check, snap>>

\* Mutant: the removal does not wait for the lock.
LeaveRemove_Unlocked(w) ==
  /\ pc[w] = "remove"
  /\ RemoveSession(sess[w])
  /\ Goto(w, "close")
  /\ UNCHANGED <<up, link, path, fails, quick, sess, check, snap>>

LeaveRemove(w) ==
  /\ pc[w] = "remove"
  /\ ~checking
  /\ RemoveSession(sess[w])
  /\ Goto(w, "close")
  /\ UNCHANGED <<up, link, path, fails, quick, sess, check, snap>>

\* Mutant: sess.Close() is not called.
LeaveClose_Open(w) ==
  /\ pc[w] = "close"
  /\ sess' = [sess EXCEPT ![w] = None]
  /\ Return(w, TRUE)
  /\ UNCHANGED <<up, pool, link, path, fails, check, snap>>

LeaveClose(w) ==
  /\ pc[w] = "close"
  /\ link' = [link EXCEPT ![sess[w]] = "closed"]
  /\ sess' = [sess EXCEPT ![w] = None]
  /\ Return(w, TRUE)
  /\ UNCHANGED <<up, pool, path, fails, check, snap>>

-----------------------------------------------------------------------------
(* poolWorker: what follows an error.                                      *)

Failures(w) ==
  IF ~quick[w] THEN 0
  ELSE IF fails[w] < MaxFailsBeforeSwitch THEN fails[w] + 1 ELSE fails[w]

\* Mutants: pathIdx is not reduced modulo the number of paths,
\* or the last path is never left for the first.
SwitchPath_NoMod(w) ==
  /\ pc[w] = "failed"
  /\ Failures(w) >= MaxFailsBeforeSwitch
  /\ NPaths > 1
  /\ path' = [path EXCEPT ![w] = @ + 1]
  /\ fails' = [fails EXCEPT ![w] = 0]
  /\ Goto(w, "sleep")
  /\ quick' = [quick EXCEPT ![w] = TRUE]
  /\ UNCHANGED <<up, pool, link, sess, check, snap>>
SwitchPath_NoWrap(w) ==
  /\ pc[w] = "failed"
  /\ Failures(w) >= MaxFailsBeforeSwitch
  /\ path[w] + 1 < NPaths
  /\ path' = [path EXCEPT ![w] = @ + 1]
  /\ fails' = [fails EXCEPT ![w] = 0]
  /\ Goto(w, "sleep")
  /\ quick' = [quick EXCEPT ![w] = TRUE]
  /\ UNCHANGED <<up, pool, link, sess, check, snap>>

SwitchPath(w) ==
  /\ pc[w] = "failed"
  /\ Failures(w) >= MaxFailsBeforeSwitch
  /\ NPaths > 1
  /\ path' = [path EXCEPT ![w] = (@ + 1) % NPaths]
  /\ fails' = [fails EXCEPT ![w] = 0]
  /\ Goto(w, "sleep")
  /\ quick' = [quick EXCEPT ![w] = TRUE]
  /\ UNCHANGED <<up, pool, link, sess, check, snap>>

KeepPath(w) ==
  /\ pc[w] = "failed"
  /\ Failures(w) < MaxFailsBeforeSwitch \/ NPaths = 1
  /\ fails' = [fails EXCEPT ![w] = Failures(w)]
  /\ Goto(w, "sleep")
  /\ quick' = [quick EXCEPT ![w] = TRUE]
  /\ UNCHANGED <<up, pool, link, path, sess, check, snap>>

\* The back-off, graduated or fixed, is over.
Retry(w) ==
  /\ pc[w] = "sleep"
  /\ Goto(w, "connect")
  /\ UNCHANGED <<up, pool, link, path, fails, quick, sess, check, snap>>

-----------------------------------------------------------------------------
(* sessionHealthCheck                                                      *)

\* The loop ranges over the slice as it is now.
CheckLock ==
  /\ ~checking
  /\ checking' = TRUE
  /\ todo' = pool
  /\ UNCHANGED <<up, pool, link, worker, alive, snap>>

\* The code writes the kept entries over the front of the array that the loop
\* reads, never past the entry it is at.  Nobody else sees the array before the
\* unlock, so they are kept apart here.
CheckStep ==
  /\ todo # <<>>
  /\ alive' = IF link[Head(todo)] = "closed" THEN alive
                                             ELSE Append(alive, Head(todo))
  /\ todo' = Tail(todo)
  /\ UNCHANGED <<up, pool, link, worker, checking, snap>>

CheckUnlock ==
  /\ checking
  /\ todo = <<>>
  /\ pool' = alive
  /\ alive' = <<>>
  /\ checking' = FALSE
  /\ UNCHANGED <<up, link, worker, todo, snap>>

-----------------------------------------------------------------------------
(* OpenStream                                                              *)

\* The copy is tried from a place the counter rrIndex chooses.
Snapshot(u) ==
  /\ ~checking
  /\ snap[u] = <<>>
  /\ \E k \in 1..Len(pool) :
       snap' = [snap EXCEPT ![u] = SubSeq(pool, k, Len(pool))
                                   \o SubSeq(pool, 1, k - 1)]
  /\ UNCHANGED <<up, pool, link, worker, check>>

SkipClosed(u) ==
  /\ snap[u] # <<>>
  /\ link[Head(snap[u])] = "closed"
  /\ snap' = [snap EXCEPT ![u] = Tail(@)]
  /\ UNCHANGED <<up, pool, link, worker, check>>

\* The two writes that follow are not checked.
OpenOk(u) ==
  /\ snap[u] # <<>>
  /\ link[Head(snap[u])] # "closed"
  /\ snap' = [snap EXCEPT ![u] = <<>>]
  /\ UNCHANGED <<up, pool, link, worker, check>>

\* OpenStream failed: the session is taken out of the pool and not closed.
OpenFail(u) ==
  /\ ~checking
  /\ snap[u] # <<>>
  /\ RemoveSession(Head(snap[u]))
  /\ snap' = [snap EXCEPT ![u] = Tail(@)]
  /\ UNCHANGED <<up, link, worker, check>>

-----------------------------------------------------------------------------
(* smux and systemd                                                        *)

BreakLink(s) ==
  /\ link[s] = "live"
  /\ link' = [link EXCEPT ![s] = "broken"]
  /\ UNCHANGED <<up, pool, worker, check, snap>>

KeepAliveExpires(s) ==
  /\ link[s] \in {"live", "broken"}
  /\ link' = [link EXCEPT ![s] = "closed"]
  /\ UNCHANGED <<up, pool, worker, check, snap>>

\* Restart=always: the worker states are those of Init already.
Restart ==
  /\ ~up
  /\ up' = TRUE
  /\ UNCHANGED <<pool, link, worker, check, snap>>

-----------------------------------------------------------------------------

ConnectStep(w) ==
  \/ DialOk(w) \/ DialFail(w) \/ TlsOk(w) \/ TlsFail(w)
  \/ HandshakeOk(w) \/ HandshakeFail(w)
  \/ WrapFail(w) \/ (\E s \in Sessions : WrapOk(w, s))

ServeStep(w) ==
  \/ AddSession(w) \/ AcceptError(w) \/ LeaveRemove(w) \/ LeaveClose(w)

RetryStep(w) == SwitchPath(w) \/ KeepPath(w) \/ Retry(w)

CheckPass == CheckLock \/ CheckStep \/ CheckUnlock

UserStep(u) == Snapshot(u) \/ SkipClosed(u) \/ OpenOk(u) \/ OpenFail(u)

LinkStep(s) == BreakLink(s) \/ KeepAliveExpires(s)

Next ==
  \/ /\ up
     /\ \/ \E w \in Workers : ConnectStep(w) \/ ServeStep(w) \/ RetryStep(w)
        \/ CheckPass
        \/ \E u \in Users : UserStep(u)
        \/ \E s \in Sessions : LinkStep(s)
  \/ Restart

Spec == Init /\ [][Next]_vars

\* Goroutines run, who waits for sessMu gets it in the end (Go's mutex starves
\* nobody), the dial is timed, AcceptStream of a dead session returns,
\* systemd restarts.  (The steps of ServeStep are taken in different states of pc.)
\* Nothing is assumed of the TLS and HTTP handshakes, which
\* have no deadline, nor of the death of a session that lives.
Fairness ==
  /\ \A w \in Workers :
       /\ WF_vars(up /\ (DialOk(w) \/ DialFail(w)))
       /\ WF_vars(up /\ (WrapFail(w) \/ \E s \in Sessions : WrapOk(w, s)))
       /\ SF_vars(up /\ ServeStep(w))
       /\ WF_vars(up /\ RetryStep(w))
  /\ WF_vars(up /\ CheckPass)
  /\ WF_vars(Restart)

FairSpec == Spec /\ Fairness

-----------------------------------------------------------------------------

TypeOK ==
  /\ up \in BOOLEAN
  /\ pool \in Seq(Sessions)
  /\ link \in [Sessions -> {"none", "live", "broken", "closed"}]
  /\ pc \in [Workers -> WorkerStates]
  /\ path \in [Workers -> Paths]
  /\ fails \in [Workers -> 0..MaxFailsBeforeSwitch]
  /\ quick \in [Workers -> BOOLEAN]
  /\ sess \in [Workers -> Sessions \cup {None}]
  /\ \A w \in Workers : pc[w] \in Owning <=> sess[w] # None
  /\ checking \in BOOLEAN
  /\ todo \in Seq(Sessions)
  /\ alive \in Seq(Sessions)
  /\ snap \in [Users -> Seq(Sessions)]

\* The pool lists a session at most once and only while a worker will still
\* take it out: a health check never puts back what a worker or OpenStream
\* removed, and removeSession never hits the session of another worker.
PoolOwned ==
  /\ IsInjective(pool)
  /\ \A s \in Range(pool) :
       \E w \in Workers : sess[w] = s /\ pc[w] \in {"serving", "remove"}

\* No two workers serve one session, and a session that is not closed has a
\* worker that will close it: no error path of connectAndServe leaks one.  The
\* connections below a session are no objects of this module.
NoLeak ==
  /\ \A v, w \in Workers : sess[v] = sess[w] /\ sess[v] # None => v = w
  /\ \A s \in Sessions :
       link[s] \in {"live", "broken"} => \E w \in Workers : sess[w] = s

-----------------------------------------------------------------------------

\* A session that is served and not closed leaves the pool only when a user
\* whose OpenStream failed takes it out, which is the one way to end up with a
\* tunnel that works and that nobody can be given: no health check loses one
\* that was added or died around it, and no worker removes another's.
LiveStaysPooled ==
  [][\A w \in Workers :
       /\ pc[w] = "serving" /\ pc'[w] = "serving"
       /\ link[sess[w]] # "closed"
       /\ sess[w] \in Range(pool) \ Range(pool')
       => \E u \in Users : snap[u] # <<>> /\ Head(snap[u]) = sess[w]]_vars

-----------------------------------------------------------------------------

\* A worker whose session died dials again, also when it dies in the middle of
\* a health check or while a user evicts it.
DeadSessionRedialed ==
  \A w \in Workers :
    (pc[w] = "serving" /\ link[sess[w]] # "live") ~> pc[w] = "connect"

\* Failover, where the code does it: when from some time on every attempt of a
\* worker ends at the dial in less than 30 s, the worker tries every path for
\* ever, the first one included.
Refused(w) ==
  up /\ pc[w] \in {"connect", "failed", "sleep"} /\ (pc[w] = "failed" => quick[w])

RefusedTriesAll ==
  \A w \in Workers : <>[]Refused(w) => \A p \in Paths : []<>(path[w] = p)

\* setup.sh says of a backup path: "If main IP is blocked, PicoTun auto-switches
\* to backup."  No session ever comes up on the first path, no handshake hangs,
\* and yet no worker leaves that path: a failed handshake crashes the
\* client, which restarts on the first path; where a dial may take 30 s, its
\* failure counts as the death of a long session besides.
MainBlocked == \A w \in Workers : path[w] = 0 => sess[w] = None
HandshakesReturn ==
  \A w \in Workers : []<>(pc[w] \notin {"tls", "handshake"})

AutoSwitch ==
  []MainBlocked /\ HandshakesReturn => <>(\E w \in Workers : path[w] # 0)
=============================================================================
