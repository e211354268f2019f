--------------------------- MODULE MCEncryptedConn ---------------------------
(***************************************************************************)
(* Instances of EncryptedConn for TLC.  A byte has 3 values, so that the   *)
(* 2-byte length goes to 8, and the messages are longer than Small as the  *)
(* frames of smux, which have a header of 8 bytes, are: two of 7 and 8     *)
(* bytes, which are too long for padding, and one of 6, which is just not. *)
(***************************************************************************)
EXTENDS EncryptedConn

Plain == [obfs |-> FALSE, stealth |-> FALSE, split |-> FALSE, maxBurst |-> 0,
          minPad |-> 0, maxPad |-> 0, samePsk |-> TRUE]
Obfs == [Plain EXCEPT !.obfs = TRUE, !.minPad = 1, !.maxPad = 1]
Stealth == [Plain EXCEPT !.stealth = TRUE, !.minPad = 1, !.maxPad = 2]
Splitting(m) == [m EXCEPT !.split = TRUE, !.maxBurst = 6]

AllModes == {Plain, Obfs, Stealth, Splitting(Plain), Splitting(Obfs),
             Splitting(Stealth), [Splitting(Plain) EXCEPT !.maxBurst = 0],
             [Splitting(Plain) EXCEPT !.maxBurst = 2], [Obfs EXCEPT !.samePsk = FALSE]}

\* No 3 or 4 bytes at the end of these look like a padded packet.
Clear == {<<1, 2, 0, 1, 2, 0, 0, 2>>, <<1, 0, 2, 1, 2, 0, 2>>, <<2, 0, 1, 1, 2, 0>>}

SplitStealth == {Splitting(Stealth)}

\* The last three bytes of this do.
Tailed == {<<1, 1, 1, 1, 1, 0, 1, 2>>}
=============================================================================
