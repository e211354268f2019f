----------------------------- MODULE PoolLedger -----------------------------
(***************************************************************************)
(* What the session pool promises, without locks, scans or goroutines: a   *)
(* session joins once, leaves once and never comes back, and its load is a *)
(* count of streams that rises only for a session that has joined and      *)
(* never falls below zero.                                                 *)
(***************************************************************************)
EXTENDS Integers

CONSTANT Sessions

VARIABLES members, gone, load

ledger == <<members, gone, load>>

Init ==
  /\ members = {}
  /\ gone = {}
  /\ load = [s \in Sessions |-> 0]

Join(s) ==
  /\ s \notin members \cup gone
  /\ members' = members \cup {s}
  /\ UNCHANGED <<gone, load>>

Leave(s) ==
  /\ s \in members
  /\ members' = members \ {s}
  /\ gone' = gone \cup {s}
  /\ UNCHANGED load

\* A stream may still be counted on a session that has just left.
Take(s) ==
  /\ s \in members \cup gone
  /\ load' = [load EXCEPT ![s] = @ + 1]
  /\ UNCHANGED <<members, gone>>

Give(s) ==
  /\ load[s] > 0
  /\ load' = [load EXCEPT ![s] = @ - 1]
  /\ UNCHANGED <<members, gone>>

Next == \E s \in Sessions : Join(s) \/ Leave(s) \/ Take(s) \/ Give(s)

Spec == Init /\ [][Next]_ledger
=============================================================================
