----------------------------- MODULE ByteStream -----------------------------
(***************************************************************************)
(* What one direction of a tunnel connection promises to smux: the bytes   *)
(* read are the bytes written, in order, none missing, doubled or altered, *)
(* until the reader is told that the connection has ended.                 *)
(***************************************************************************)
EXTENDS Naturals, Sequences

CONSTANT Bytes

VARIABLES
  sent,     \* every byte handed to Write so far
  got,      \* every byte Read has returned so far
  ended     \* Read has returned an error

stream == <<sent, got, ended>>

Init == sent = <<>> /\ got = <<>> /\ ended = FALSE

Send ==
  /\ sent' \in Seq(Bytes)
  /\ Len(sent') > Len(sent)
  /\ SubSeq(sent', 1, Len(sent)) = sent
  /\ UNCHANGED <<got, ended>>

Receive ==
  /\ ~ended
  /\ \E n \in (Len(got) + 1)..Len(sent) : got' = SubSeq(sent, 1, n)
  /\ UNCHANGED <<sent, ended>>

End ==
  /\ ended' = TRUE
  /\ UNCHANGED <<sent, got>>

Next == Send \/ Receive \/ End

Spec == Init /\ [][Next]_stream
=============================================================================
