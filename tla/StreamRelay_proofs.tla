------------------------- MODULE StreamRelay_proofs -------------------------
(***************************************************************************)
(* Proofs about one stream from end to end, for every target of 1 to 255   *)
(* bytes, every amount of payload and every size of the buffers:           *)
(*                                                                         *)
(*   DialsTargetAlways    what is dialed is what was asked for             *)
(*   TypeCorrect          types, and where the goroutines can be           *)
(*   StaysOpenAlways      the tunnel cuts no connection by itself          *)
(*   StreamsImplemented   each direction is a stream of bytes              *)
(*   CompleteAtEofAlways  nothing is missing when a reader comes to the    *)
(*                        EOF with its own side open                       *)
(*                                                                         *)
(* HeaderInv numbers the bytes of the header that are on the way and ties  *)
(* them to what the opener has written and the acceptor has read.  Control *)
(* says which of the two goroutines can be where while the other is where  *)
(* it is.  Shift says how the payload of one direction moves through its   *)
(* five places (the two queues of the peers, the stream, and the hands of  *)
(* two copiers) in any step, and Reasons why some of it is lost; Counted   *)
(* and Contents follow from that, and Arrivals from why a relay ends.      *)
(***************************************************************************)
EXTENDS StreamRelay, SequenceTheorems, TLAPS

-----------------------------------------------------------------------------
(* What the operators on sequences return                                  *)

LEMMA TailOf ==
  ASSUME NEW S, NEW s \in Seq(S), s # <<>>
  PROVE  /\ s[1] \in S /\ Tail(s) \in Seq(S)
         /\ Len(s) \in Nat /\ Len(s) >= 1 /\ Len(Tail(s)) = Len(s) - 1
         /\ \A i \in 1..Len(Tail(s)) : Tail(s)[i] = s[i + 1]
OBVIOUS

LEMMA PrefixOf ==
  ASSUME NEW S, NEW s \in Seq(S), NEW k \in 0..Len(s)
  PROVE  /\ SubSeq(s, 1, k) \in Seq(S) /\ Len(SubSeq(s, 1, k)) = k
         /\ \A i \in 1..k : i \in 1..Len(s) /\ SubSeq(s, 1, k)[i] = s[i]
OBVIOUS

LEMMA RestOf ==
  ASSUME NEW S, NEW s \in Seq(S), NEW n \in Nat, Len(s) = n + 2
  PROVE  /\ SubSeq(s, 3, Len(s)) \in Seq(S) /\ Len(SubSeq(s, 3, Len(s))) = n
         /\ \A i \in 1..n : SubSeq(s, 3, Len(s))[i] = s[i + 2]
OBVIOUS

LEMMA AppendOf ==
  ASSUME NEW S, NEW s \in Seq(S), NEW x \in S
  PROVE  /\ Append(s, x) \in Seq(S) /\ Len(s) \in Nat /\ Len(Append(s, x)) = Len(s) + 1
         /\ Append(s, x)[Len(s) + 1] = x
         /\ \A i \in 1..Len(s) : Append(s, x)[i] = s[i]
OBVIOUS

LEMMA OneOf ==
  ASSUME NEW S, NEW x \in S
  PROVE  <<x>> \in Seq(S) /\ Len(<<x>>) = 1 /\ <<x>>[1] = x
OBVIOUS

LEMMA TwoBefore ==
  ASSUME NEW S, NEW a \in S, NEW b \in S, NEW t \in Seq(S)
  PROVE  /\ <<a, b>> \o t \in Seq(S) /\ Len(<<a, b>> \o t) = Len(t) + 2
         /\ (<<a, b>> \o t)[1] = a /\ (<<a, b>> \o t)[2] = b
         /\ \A i \in 1..Len(t) : (<<a, b>> \o t)[i + 2] = t[i]
<1>1. PICK s \in Seq(S) : s = <<a, b>> /\ Len(s) = 2 /\ s[1] = a /\ s[2] = b
  <2>1. <<a, b>> \in Seq(S)
    OBVIOUS
  <2>2. Len(<<a, b>>) = 2 /\ <<a, b>>[1] = a /\ <<a, b>>[2] = b
    OBVIOUS
  <2>3. QED
    BY <2>1, <2>2, Zenon
<1>2. /\ s \o t \in Seq(S) /\ Len(s \o t) = Len(t) + 2
      /\ (s \o t)[1] = a /\ (s \o t)[2] = b
      /\ \A i \in 1..Len(t) : (s \o t)[i + 2] = t[i]
  BY <1>1
<1>3. QED
  BY <1>1, <1>2, Zenon

-----------------------------------------------------------------------------
(* Shapes                                                                  *)

Shapes ==
  /\ kind \in Kinds
  /\ q \in [Pipes -> Seq(0..255)]
  /\ DOMAIN pc = 1..2
  /\ pc[1] = "tag" => kind # "legacy"
  /\ copier \in [Copiers -> {"off", "run", "done"}]
  /\ hand \in [Copiers -> Seq(0..255)]
  /\ head \in Seq(0..255)
  /\ sent \in [Dirs -> Seq(0..255)]

LEMMA PipesAre ==
  /\ \A n \in Relays, d \in Dirs :
       /\ Source(n, d) \in Pipes /\ Sink(n, d) \in Pipes /\ <<n, d>> \in Copiers
  /\ \A i \in 1..3, n \in 0..3 :
       n \in {i - 1, i} => /\ In(n, i) \in Pipes /\ Out(n, i) \in Pipes
                           /\ In(n, i) # Out(n, i)
  /\ <<"up", 2>> \in Pipes
BY DEF Relays, Dirs, Source, Sink, Pipes, Copiers, In, Out

LEMMA HeaderType ==
  ASSUME kind \in Kinds
  PROVE  /\ Header \in Seq(0..255)
         /\ kind # "fake" =>
              /\ Len(Header) = Len(Target) + 2
              /\ Header[1] = 0 /\ Header[2] = Len(Target)
              /\ \A i \in 1..Len(Target) : Header[i + 2] = Target[i]
         /\ kind = "fake" => Len(Header) = 1
<1>1. CASE kind = "fake"
  BY <1>1 DEF Header, StreamTypeReverse
<1>2. CASE kind # "fake"
  <2>1. Target \in Seq(0..255) /\ Len(Target) \in 1..255
    BY TargetAssumption
  <2>2. Len(Target) \div 256 = 0 /\ Len(Target) % 256 = Len(Target)
    <3>1. \A n \in 1..255 : n \div 256 = 0 /\ n % 256 = n
      OBVIOUS
    <3>2. QED
      BY <2>1, <3>1
  <2>3. Header = <<0, Len(Target)>> \o Target
    BY <1>2, <2>2 DEF Header
  <2>4. 0 \in 0..255 /\ Len(Target) \in 0..255
    BY <2>1
  <2>5. /\ Header \in Seq(0..255) /\ Len(Header) = Len(Target) + 2
        /\ Header[1] = 0 /\ Header[2] = Len(Target)
        /\ \A i \in 1..Len(Target) : Header[i + 2] = Target[i]
    <3>1. PICK n \in 0..255 : n = Len(Target)
      BY <2>4
    <3>2. PICK t \in Seq(0..255) : t = Target
      BY <2>1
    <3>3. PICK h : h = <<0, n>> \o t
      OBVIOUS
    <3>4. /\ h \in Seq(0..255) /\ Len(h) = Len(t) + 2 /\ h[1] = 0 /\ h[2] = n
          /\ \A i \in 1..Len(t) : h[i + 2] = t[i]
      BY <2>4, <3>3, TwoBefore
    <3>5. Header = h
      BY <2>3, <3>1, <3>2, <3>3
    <3>6. QED
      BY <3>1, <3>2, <3>4, <3>5, Zenon
  <2>6. QED
    BY <1>2, <2>5
<1>3. QED
  BY <1>1, <1>2

LEMMA TargetLength ==
  /\ Len(Target) \in 1..255
  /\ Len(Target) \in Nat
  /\ Len(Target) >= 1
<1>1. \A n \in 1..255 : n \in Nat /\ n >= 1
  OBVIOUS
<1>2. QED
  BY <1>1, TargetAssumption

LEMMA BehindLength ==
  ASSUME NEW s \in Seq(0..255), Len(s) = Len(Target) + 2
  PROVE  /\ SubSeq(s, 3, Len(s)) \in Seq(0..255)
         /\ Len(SubSeq(s, 3, Len(s))) = Len(Target)
         /\ \A i \in 1..Len(Target) : SubSeq(s, 3, Len(s))[i] = s[i + 2]
<1>1. PICK n \in Nat : n = Len(Target)
  BY TargetLength
<1>2. Len(s) = n + 2
  BY <1>1
<1>3. /\ SubSeq(s, 3, Len(s)) \in Seq(0..255) /\ Len(SubSeq(s, 3, Len(s))) = n
      /\ \A i \in 1..n : SubSeq(s, 3, Len(s))[i] = s[i + 2]
  BY <1>2, RestOf
<1>4. QED
  BY <1>1, <1>3

LEMMA HeaderLength ==
  ASSUME kind \in Kinds
  PROVE  Len(Header) \in Nat /\ Len(Header) >= 1
<1>1. Len(Header) = Len(Target) + 2 \/ Len(Header) = 1
  BY HeaderType
<1>2. \A n \in Nat : n + 2 \in Nat /\ n + 2 >= 1
  OBVIOUS
<1>3. 1 \in Nat /\ 1 >= 1
  OBVIOUS
<1>4. QED
  BY <1>1, <1>2, <1>3, TargetLength, Zenon

LEMMA TagType ==
  ASSUME kind \in {"reverse", "forward", "fake"}
  PROVE  /\ kind = "reverse" => Tag = 2
         /\ kind = "forward" => Tag = 1
         /\ kind = "fake" => Tag = 255
BY DEF Tag, StreamTypeReverse, StreamTypeForward, StreamTypeFake

LEMMA PutType ==
  ASSUME Shapes, NEW p \in Pipes, NEW bytes \in Seq(0..255), Put(p, bytes)
  PROVE  /\ q' \in [Pipes -> Seq(0..255)]
         /\ \A r \in Pipes : r # p => q'[r] = q[r]
         /\ q'[p] = IF p[2] = 2 /\ link = "dead" THEN q[p] ELSE q[p] \o bytes
<1>1. q[p] \o bytes \in Seq(0..255)
  BY DEF Shapes
<1>2. QED
  BY <1>1 DEF Put, Shapes

LEMMA TakeType ==
  ASSUME Shapes, NEW b, Take(b)
  PROVE  /\ q' \in [Pipes -> Seq(0..255)]
         /\ q[<<"up", 2>>] # <<>> /\ b = q[<<"up", 2>>][1] /\ b \in 0..255
         /\ q'[<<"up", 2>>] = Tail(q[<<"up", 2>>])
<1>1. q[<<"up", 2>>] \in Seq(0..255)
  BY PipesAre DEF Shapes
<1>2. /\ q[<<"up", 2>>] # <<>> /\ b = q[<<"up", 2>>][1]
      /\ q' = [q EXCEPT ![<<"up", 2>>] = Tail(q[<<"up", 2>>])]
  BY DEF Take
<1>3. Tail(q[<<"up", 2>>]) \in Seq(0..255) /\ b \in 0..255
  BY <1>1, <1>2, TailOf, Zenon
<1>4. QED
  BY <1>2, <1>3, PipesAre DEF Shapes

LEMMA InitShapes == Init => Shapes
BY DEF Init, Shapes


LEMMA ShapesStep == Shapes /\ [Next]_vars => Shapes'
<1> SUFFICES ASSUME Shapes, [Next]_vars PROVE Shapes'
  OBVIOUS
<1> USE DEF Goto
<1>s. ASSUME UNCHANGED <<kind, q, hand, head, sent>>, DOMAIN pc' = 1..2,
             pc'[1] = "tag" => kind # "legacy",
             copier' \in [Copiers -> {"off", "run", "done"}]
      PROVE  Shapes'
  BY <1>s DEF Shapes
<1>c. \A n \in Relays :
        StartCopiers(n) => copier' \in [Copiers -> {"off", "run", "done"}]
  BY DEF StartCopiers, Shapes
<1>e. <<>> \in Seq(0..255)
  OBVIOUS
<1>g. /\ GiveUp => DOMAIN pc' = 1..2 /\ pc'[1] = pc[1]
      /\ \A state : GoOn(state) => DOMAIN pc' = 1..2 /\ pc'[1] = pc[1]
  BY DEF GiveUp, GoOn, Shapes
<1>1. CASE UNCHANGED vars
  BY <1>1 DEF vars, Shapes
<1>2. CASE OpenStream
  <2>1. DOMAIN pc' = 1..2 /\ (pc'[1] = "tag" => kind # "legacy")
    BY <1>2 DEF OpenStream
  <2>2. QED
    BY <1>2, <2>1, <1>s DEF OpenStream, pipes, parse, ends, Shapes
<1>3. CASE OpenFail
  BY <1>3, <1>s DEF OpenFail, parse, ends, Shapes
<1>4. CASE WriteFail
  <2>1. UNCHANGED <<kind, q, hand, head, sent>>
    BY <1>4 DEF WriteFail, parse, ends
  <2>2. \/ pc' = [pc EXCEPT ![1] = "relay"] /\ StartCopiers(1)
        \/ pc' = [pc EXCEPT ![1] = "close"] /\ UNCHANGED copier
        \/ pc' = [pc EXCEPT ![1] = "leave"] /\ UNCHANGED copier
    <3>1. CASE kind = "forward"
      BY <1>4, <3>1 DEF WriteFail
    <3>2. CASE kind = "fake"
      BY <1>4, <3>2 DEF WriteFail
    <3>3. CASE kind \notin {"forward", "fake"}
      BY <1>4, <3>3 DEF WriteFail
    <3>4. QED
      BY <3>1, <3>2, <3>3
  <2>3. copier' \in [Copiers -> {"off", "run", "done"}]
    BY <2>2, <1>c DEF Shapes, Relays
  <2>4. DOMAIN pc' = 1..2 /\ pc'[1] # "tag"
    BY <2>2 DEF Shapes
  <2>5. QED
    BY <2>1, <2>3, <2>4, <1>s
<1>5. CASE CloseFake \/ FakeLoopEnds
  BY <1>5, <1>s DEF CloseFake, FakeLoopEnds, pipes, parse, ends, Shapes
<1>6. CASE Accept \/ AcceptError
  BY <1>6, <1>s DEF Accept, AcceptError, pipes, parse, ends, Shapes
<1>7. CASE HeaderFail \/ DrainEnd \/ DialFail
  BY <1>7, <1>s DEF HeaderFail, DrainEnd, DialFail, GiveUp, parse, ends, Shapes
<1>8. CASE DialOk
  BY <1>8, <1>s, <1>c DEF DialOk, pipes, parse, ends, Shapes, Relays
<1>9. ASSUME NEW n \in Relays, CloseA(n) \/ CloseB(n) \/ Leave(n) PROVE Shapes'
  <2>1. UNCHANGED <<kind, q, hand, head, sent, copier>>
    BY <1>9 DEF CloseA, CloseB, Leave, parse, ends
  <2>2. DOMAIN pc' = 1..2 /\ (pc'[1] = "tag" => kind # "legacy")
    BY <1>9 DEF CloseA, CloseB, Leave, Shapes, Relays
  <2>3. QED
    BY <2>1, <2>2, <1>s DEF Shapes
<1>10. ASSUME NEW n \in Relays, Notice(n) PROVE Shapes'
  BY <1>10, <1>s DEF Notice, pipes, parse, ends, Shapes
<1>11. ASSUME NEW n \in Relays, NEW d \in Dirs, CopyEnd(n, d) \/ CopyFail(n, d)
       PROVE  Shapes'
  <2>1. copier' \in [Copiers -> {"off", "run", "done"}]
    BY <1>11 DEF CopyEnd, CopyFail, Shapes
  <2>h. hand' \in [Copiers -> Seq(0..255)]
    BY <1>11, <1>e DEF CopyEnd, CopyFail, Shapes
  <2>2. UNCHANGED <<kind, q, pc, head, sent>>
    BY <1>11 DEF CopyEnd, CopyFail, pipes, parse, ends
  <2>3. QED
    BY <2>1, <2>h, <2>2 DEF Shapes
<1>12. ASSUME NEW n, NEW i, Hangup(n, i) PROVE Shapes'
  BY <1>12 DEF Hangup, parse, ends, Shapes
<1>13. CASE WriteTag
  <2>1. kind \in {"reverse", "forward", "fake"}
    BY <1>13, KindsAssumption DEF WriteTag, Shapes
  <2>2. <<Tag>> \in Seq(0..255)
    BY <2>1, TagType
  <2>3. q' \in [Pipes -> Seq(0..255)]
    BY <1>13, <2>2, PutType, PipesAre DEF WriteTag
  <2>4. QED
    BY <1>13, <2>3 DEF WriteTag, parse, ends, Shapes
<1>14. CASE WriteHeader
  <2>1. Header \in Seq(0..255)
    BY HeaderType DEF Shapes
  <2>2. q' \in [Pipes -> Seq(0..255)]
    BY <1>14, <2>1, PutType, PipesAre DEF WriteHeader
  <2>3. /\ UNCHANGED <<kind, hand, head, sent>>
        /\ \/ pc' = [pc EXCEPT ![1] = "close"] /\ UNCHANGED copier
           \/ pc' = [pc EXCEPT ![1] = "relay"] /\ StartCopiers(1)
    BY <1>14 DEF WriteHeader, parse, ends
  <2>4. copier' \in [Copiers -> {"off", "run", "done"}]
    BY <2>3, <1>c DEF Shapes, Relays
  <2>5. QED
    BY <2>2, <2>3, <2>4 DEF Shapes
<1>15. ASSUME NEW n \in Relays, NEW d \in Dirs, CopyWrite(n, d) PROVE Shapes'
  <2>1. hand[<<n, d>>] \in Seq(0..255)
    BY PipesAre DEF Shapes
  <2>2. q' \in [Pipes -> Seq(0..255)]
    BY <1>15, <2>1, PutType, PipesAre DEF CopyWrite
  <2>3. hand' \in [Copiers -> Seq(0..255)]
    BY <1>15, <1>e DEF CopyWrite, Shapes
  <2>4. QED
    BY <1>15, <2>2, <2>3 DEF CopyWrite, parse, ends, Shapes
<1>16. ASSUME NEW n \in Relays, NEW d \in Dirs, CopyRead(n, d) PROVE Shapes'
  <2> DEFINE p == Source(n, d)
  <2>1. q[p] \in Seq(0..255) /\ q[p] # <<>>
    BY <1>16, PipesAre DEF CopyRead, Shapes
  <2> HIDE DEF p
  <2>2. <<q[p][1]>> \in Seq(0..255) /\ Tail(q[p]) \in Seq(0..255)
    <3>1. q[p][1] \in 0..255 /\ Tail(q[p]) \in Seq(0..255)
      BY <2>1, TailOf, Zenon
    <3>2. QED
      BY <3>1, OneOf, Zenon
  <2>3. /\ hand' = [hand EXCEPT ![<<n, d>>] = <<q[p][1]>>]
        /\ q' = [q EXCEPT ![p] = Tail(q[p])]
        /\ UNCHANGED <<kind, pc, copier, head, sent>>
    BY <1>16 DEF CopyRead, parse, ends, p
  <2>4. q' \in [Pipes -> Seq(0..255)] /\ hand' \in [Copiers -> Seq(0..255)]
    BY <2>2, <2>3 DEF Shapes
  <2>5. QED
    BY <2>3, <2>4 DEF Shapes
<1>17. ASSUME NEW b, Take(b), \/ UNCHANGED head
                              \/ head' \in {<<>>, <<b>>, Append(head, b)},
              UNCHANGED <<kind, hand, copier, sent>>,
              DOMAIN pc' = 1..2, pc'[1] = pc[1]
       PROVE  Shapes'
  <2>1. b \in 0..255 /\ q' \in [Pipes -> Seq(0..255)]
    BY <1>17, TakeType
  <2>2. head' \in Seq(0..255)
    <3>1. head \in Seq(0..255)
      BY DEF Shapes
    <3>2. Append(head, b) \in Seq(0..255)
      BY <2>1, <3>1, AppendOf
    <3>3. <<b>> \in Seq(0..255)
      BY <2>1, OneOf
    <3>4. QED
      BY <1>17, <3>1, <3>2, <3>3, <1>e
  <2>3. QED
    BY <1>17, <2>1, <2>2 DEF Shapes
<1>18. CASE ReadTag
  <2>1. PICK b \in 0..255 :
          /\ Take(b)
          /\ head' = IF Route(b) = "legacy" THEN <<b>> ELSE <<>>
          /\ CASE Route(b) = "unknown" -> GiveUp
               [] Route(b) = "legacy" -> GoOn("len")
               [] OTHER -> GoOn(Route(b))
    BY <1>18 DEF ReadTag
  <2>2. DOMAIN pc' = 1..2 /\ pc'[1] = pc[1]
    BY <2>1, <1>g
  <2>3. UNCHANGED <<kind, hand, copier, sent>>
    BY <1>18 DEF ReadTag, ends
  <2>4. QED
    BY <2>1, <2>2, <2>3, <1>17
<1>19. CASE ReadLen
  <2>1. PICK b \in 0..255 :
          /\ Take(b)
          /\ head' = Append(head, b)
          /\ GiveUp \/ \E state \in {"len", "target"} : GoOn(state)
    BY <1>19 DEF ReadLen
  <2>2. DOMAIN pc' = 1..2 /\ pc'[1] = pc[1]
    BY <2>1, <1>g
  <2>3. UNCHANGED <<kind, hand, copier, sent>>
    BY <1>19 DEF ReadLen, ends
  <2>4. QED
    BY <2>1, <2>2, <2>3, <1>17
<1>20. CASE ReadTarget
  <2>1. PICK b \in 0..255 :
          /\ Take(b)
          /\ head' = Append(head, b)
          /\ \E state \in {"target", "dial"} : pc' = [pc EXCEPT ![2] = state]
    BY <1>20 DEF ReadTarget
  <2>2. DOMAIN pc' = 1..2 /\ pc'[1] = pc[1]
    BY <2>1 DEF Shapes
  <2>3. UNCHANGED <<kind, hand, copier, sent>>
    BY <1>20 DEF ReadTarget, ends
  <2>4. QED
    BY <2>1, <2>2, <2>3, <1>17
<1>21. CASE Drain
  BY <1>21, <1>17 DEF Drain, parse, ends, Shapes
<1>22. ASSUME NEW p \in Peers, Send(p[1], p[2]) PROVE Shapes'
  <2> DEFINE o == Out(p[1], p[2])
             x == (10 * p[2] + Len(sent[o[1]])) % 256
  <2>1. o \in Pipes /\ o[1] \in Dirs /\ p[2] \in Nat
    BY DEF Peers, Out, Pipes, Dirs
  <2>2. /\ q' = [q EXCEPT ![o] = Append(@, x)]
        /\ sent' = [sent EXCEPT ![o[1]] = Append(@, x)]
        /\ UNCHANGED <<kind, pc, copier, hand, head>>
    BY <1>22 DEF Send, parse
  <2>3. q[o] \in Seq(0..255) /\ sent[o[1]] \in Seq(0..255)
    BY <2>1 DEF Shapes
  <2>4. x \in 0..255
    <3>1. \A a, l \in Nat : (10 * a + l) % 256 \in 0..255
      OBVIOUS
    <3>2. Len(sent[o[1]]) \in Nat
      BY <2>3
    <3>3. QED
      BY <2>1, <3>1, <3>2, Zenon
  <2> HIDE DEF o, x
  <2>5. Append(q[o], x) \in Seq(0..255) /\ Append(sent[o[1]], x) \in Seq(0..255)
    BY <2>3, <2>4, AppendOf, Zenon
  <2>6. q' \in [Pipes -> Seq(0..255)] /\ sent' \in [Dirs -> Seq(0..255)]
    BY <2>2, <2>5 DEF Shapes
  <2>7. QED
    BY <2>2, <2>6 DEF Shapes
<1>23. ASSUME NEW p \in Peers, Receive(p[1], p[2]) PROVE Shapes'
  <2> DEFINE o == In(p[1], p[2])
  <2>1. o \in Pipes
    BY DEF Peers, In, Pipes, Dirs
  <2>2. /\ q[o] # <<>> /\ q' = [q EXCEPT ![o] = Tail(@)]
        /\ UNCHANGED <<kind, pc, copier, hand, head, sent>>
    BY <1>23 DEF Receive, parse
  <2> HIDE DEF o
  <2>3. Tail(q[o]) \in Seq(0..255)
    <3>1. q[o] \in Seq(0..255)
      BY <2>1 DEF Shapes
    <3>2. QED
      BY <2>2, <3>1, TailOf, Zenon
  <2>4. q' \in [Pipes -> Seq(0..255)]
    BY <2>2, <2>3 DEF Shapes
  <2>5. QED
    BY <2>2, <2>4 DEF Shapes
<1>24. ASSUME NEW i \in 1..3, NEW n \in 0..3, n \in {i - 1, i}, Reset(n, i) PROVE Shapes'
  <2> DEFINE a == In(n, i)
             o == Out(n, i)
  <2>1. a \in Pipes /\ o \in Pipes /\ a # o
    BY <1>24, PipesAre
  <2>2. PICK k \in 0..Len(q[o]) : q' = [q EXCEPT ![a] = <<>>, ![o] = SubSeq(@, 1, k)]
    BY <1>24 DEF Reset
  <2>3. UNCHANGED <<kind, pc, copier, hand, head, sent>>
    BY <1>24 DEF Reset, parse, ends
  <2> HIDE DEF a, o
  <2>4. SubSeq(q[o], 1, k) \in Seq(0..255)
    <3>1. q[o] \in Seq(0..255)
      BY <2>1 DEF Shapes
    <3>2. QED
      BY <2>2, <3>1, PrefixOf, Zenon
  <2>5. q' \in [Pipes -> Seq(0..255)]
    <3>1. q \in [Pipes -> Seq(0..255)]
      BY DEF Shapes
    <3>2. [q EXCEPT ![a] = <<>>] \in [Pipes -> Seq(0..255)]
      BY <1>e, <3>1
    <3>3. [q EXCEPT ![a] = <<>>][o] = q[o]
      BY <2>1, <3>1
    <3>4. q' = [[q EXCEPT ![a] = <<>>] EXCEPT ![o] = SubSeq(q[o], 1, k)]
      BY <2>2, <3>3
    <3>5. QED
      BY <2>4, <3>2, <3>4
  <2>6. QED
    BY <2>3, <2>5 DEF Shapes
<1>25. CASE Break
  <2>1. PICK j \in 0..Len(q[<<"up", 2>>]), k \in 0..Len(q[<<"down", 2>>]) :
          q' = [q EXCEPT ![<<"up", 2>>] = SubSeq(@, 1, j), ![<<"down", 2>>] = SubSeq(@, 1, k)]
    BY <1>25 DEF Break
  <2>2. /\ UNCHANGED <<kind, copier, hand, head, sent>>
        /\ pc' = pc \/ pc' = [pc EXCEPT ![2] = "none"]
    BY <1>25 DEF Break, parse, ends
  <2>3. q[<<"up", 2>>] \in Seq(0..255) /\ q[<<"down", 2>>] \in Seq(0..255)
    BY DEF Shapes, Pipes, Dirs
  <2>4. /\ SubSeq(q[<<"up", 2>>], 1, j) \in Seq(0..255)
        /\ SubSeq(q[<<"down", 2>>], 1, k) \in Seq(0..255)
    BY <2>1, <2>3, PrefixOf, Zenon
  <2>5. q' \in [Pipes -> Seq(0..255)]
    BY <2>1, <2>4 DEF Shapes
  <2>6. QED
    BY <2>2, <2>5 DEF Shapes
<1>26. CASE OpenerStep
  BY <1>26, <1>2, <1>3, <1>4, <1>5, <1>13, <1>14 DEF OpenerStep
<1>27. CASE AcceptorStep
  BY <1>27, <1>6, <1>7, <1>8, <1>18, <1>19, <1>20, <1>21 DEF AcceptorStep
<1>28. QED
  BY <1>1, <1>9, <1>10, <1>11, <1>12, <1>15, <1>16, <1>22, <1>23, <1>24, <1>25, <1>26, <1>27
  DEF Next, RelayStep, CopierStep, PeerStep

LinkType == link \in {"up", "dead"}

LEMMA LinkStep == LinkType /\ [Next]_vars => LinkType'
<1> SUFFICES ASSUME LinkType, [Next]_vars PROVE LinkType'
  OBVIOUS
<1>1. CASE UNCHANGED vars
  BY <1>1 DEF vars, LinkType
<1>2. CASE OpenerStep
  BY <1>2 DEF LinkType, OpenerStep, OpenStream, OpenFail, WriteTag, WriteHeader,
              WriteFail, CloseFake, FakeLoopEnds
<1>3. CASE AcceptorStep
  BY <1>3 DEF LinkType, AcceptorStep, Accept, AcceptError, ReadTag, ReadLen, ReadTarget,
              HeaderFail, Drain, DrainEnd, DialOk, DialFail
<1>4. ASSUME NEW n \in Relays, RelayStep(n) \/ Notice(n) PROVE LinkType'
  BY <1>4 DEF LinkType, RelayStep, CloseA, CloseB, Leave, Notice
<1>5. ASSUME NEW n \in Relays, NEW d \in Dirs, CopierStep(n, d) PROVE LinkType'
  BY <1>5 DEF LinkType, CopierStep, CopyRead, CopyEnd, CopyWrite, CopyFail
<1>6. ASSUME NEW p \in Peers, PeerStep(p[1], p[2]) PROVE LinkType'
  BY <1>6 DEF LinkType, PeerStep, Send, Receive, Hangup
<1>7. ASSUME NEW n, NEW i, Reset(n, i) PROVE LinkType'
  BY <1>7 DEF LinkType, Reset
<1>8. CASE Break
  BY <1>8 DEF LinkType, Break
<1>9. QED
  BY <1>1, <1>2, <1>3, <1>4, <1>5, <1>6, <1>7, <1>8 DEF Next

-----------------------------------------------------------------------------
(* What is on its way to the acceptor                                      *)

Stream == <<"up", 2>>

\* The acceptor has not come to the end of the header.
Reading == {"none", "syn", "tag", "len", "target"}

\* The bytes the opener writes, by number: 0 is the tag, which a v2.4 server leaves
\* out, and the header follows from 1.
First == IF kind = "legacy" THEN 1 ELSE 0
Word(i) == IF i = 0 THEN Tag ELSE Header[i]

\* The number of the byte that is read next, and of the one that is written next.
At == IF pc[2] \in {"none", "syn", "tag"} THEN First ELSE Len(head) + 1
End == At + Len(q[Stream])

Coming ==
  \A i \in 1..Len(q[Stream]) :
    At + i - 1 <= Len(Header) => q[Stream][i] = Word(At + i - 1)

\* Nothing has gone wrong on the way.
Clear == link = "up" /\ Stream \notin shut /\ Stream \notin deaf /\ 1 \notin noticed

Written ==
  /\ pc[1] \in {"open", "tag"} => End = First
  /\ pc[1] = "head" => End = 1
  /\ copier[<<1, "up">>] = "run" => End > Len(Header)

HeaderInv ==
  /\ pc[1] = "open" => pc[2] = "none"
  /\ copier[<<2, "up">>] = "run" => pc[2] \notin Reading
  /\ pc[2] \in Reading => Stream \notin deaf /\ Coming /\ (Clear => Written)
  /\ pc[2] \in {"len", "target"} =>
       kind # "fake" /\ \A i \in 1..Len(head) : i <= Len(Header) => head[i] = Header[i]
  /\ pc[2] = "len" => Len(head) < 2
  /\ pc[2] = "target" => Len(head) \in 2..(Len(Target) + 1)
  /\ DialsTarget

LEMMA InitHeader == Init => HeaderInv
<1> SUFFICES ASSUME Init PROVE HeaderInv
  OBVIOUS
<1>1. /\ pc[1] = "open" /\ pc[2] = "none"
      /\ q[Stream] = <<>> /\ deaf = {} /\ dialed = <<>>
      /\ copier[<<1, "up">>] = "off" /\ copier[<<2, "up">>] = "off"
  BY PipesAre DEF Init, Stream, Copiers, Relays, Dirs
<1>2. Len(q[Stream]) = 0 /\ First \in Nat
  BY <1>1 DEF First
<1>3. Coming /\ Written
  BY <1>1, <1>2 DEF Coming, Written, End, At
<1>4. QED
  BY <1>1, <1>3 DEF HeaderInv, DialsTarget

\* The same numbers, where kind and what they depend on stay.
LEMMA SameWords ==
  ASSUME kind' = kind
  PROVE  First' = First /\ Header' = Header /\ \A i : Word(i)' = Word(i)
BY DEF First, Header, Word, Tag

\* A step that neither writes the header nor reads it.
LEMMA QuietStep ==
  ASSUME Shapes, Shapes', HeaderInv, kind' = kind, dialed' = dialed, head' = head,
         q'[Stream] = q[Stream] \/ pc[2] \notin Reading,
         pc'[2] = pc[2] \/ pc'[2] \notin Reading \/ (pc[2] = "syn" /\ pc'[2] = "tag"),
         pc'[2] \in Reading /\ Stream \in deaf' => Stream \in deaf,
         link' = "up" => link = "up",
         shut \subseteq shut', deaf \subseteq deaf', noticed \subseteq noticed',
         pc'[1] = pc[1] \/ pc'[1] \notin {"open", "tag", "head"},
         pc'[1] = "open" => pc'[2] = "none",
         copier'[<<1, "up">>] = "run" => copier[<<1, "up">>] = "run" \/ ~Clear,
         copier'[<<2, "up">>] = "run" => pc'[2] \notin Reading
  PROVE  HeaderInv'
<1>w. First' = First /\ Header' = Header /\ \A i : Word(i)' = Word(i)
  BY SameWords
<1>1. CASE pc'[2] \in Reading
  <2>1. pc[2] \in Reading /\ q'[Stream] = q[Stream]
    BY <1>1 DEF Reading
  <2>2. At' = At /\ End' = End
    BY <1>1, <1>w, <2>1 DEF At, End, Reading
  <2>3. Coming'
    BY <1>w, <2>1, <2>2 DEF Coming, HeaderInv
  <2>4. Stream \notin deaf'
    BY <1>1, <2>1 DEF HeaderInv
  <2>5. Clear' => Clear
    BY DEF Clear
  <2>6. Clear' => Written'
    BY <1>w, <2>1, <2>2, <2>5 DEF HeaderInv, Written
  <2>7. /\ pc'[2] \in {"len", "target"} =>
             kind # "fake" /\ \A i \in 1..Len(head) : i <= Len(Header) => head[i] = Header[i]
        /\ pc'[2] = "len" => Len(head) < 2
        /\ pc'[2] = "target" => Len(head) \in 2..(Len(Target) + 1)
    BY <1>1 DEF HeaderInv, Reading
  <2>8. QED
    BY <1>w, <2>3, <2>4, <2>6, <2>7 DEF HeaderInv, DialsTarget
<1>2. CASE pc'[2] \notin Reading
  BY <1>2 DEF HeaderInv, DialsTarget, Reading
<1>3. QED
  BY <1>1, <1>2

\* The reader takes the next byte: it is the one that was meant.
LEMMA TakeByte ==
  ASSUME Shapes, HeaderInv, pc[2] \in Reading, NEW b, Take(b)
  PROVE  b \in Nat /\ (At <= Len(Header) => b = Word(At))
<1>1. /\ q[Stream] \in Seq(0..255) /\ q[Stream] # <<>> /\ b = q[Stream][1] /\ b \in Nat
  <2>1. b \in 0..255
    BY TakeType
  <2>2. b \in Nat
    BY <2>1
  <2>3. QED
    BY <2>2, TakeType, PipesAre DEF Shapes, Stream
<1>2. At \in Nat
  BY DEF At, First, Shapes
<1>3. 1 \in 1..Len(q[Stream]) /\ At + 1 - 1 = At
  BY <1>1, <1>2
<1>4. At + 1 - 1 <= Len(Header) => q[Stream][1] = Word(At + 1 - 1)
  BY <1>3 DEF HeaderInv, Coming
<1>5. QED
  BY <1>1, <1>3, <1>4

\* And the rest stays what it was.
LEMMA TakeStep ==
  ASSUME Shapes, Shapes', HeaderInv, pc[2] \in Reading, NEW b, Take(b),
         kind' = kind, UNCHANGED <<shut, link, noticed, copier>>,
         pc'[1] = pc[1], pc'[2] \in Reading => deaf' = deaf /\ At' = At + 1
  PROVE  pc'[2] \in Reading => Stream \notin deaf' /\ Coming' /\ (Clear' => Written')
<1>w. First' = First /\ Header' = Header /\ \A i : Word(i)' = Word(i)
  BY SameWords
<1>1. /\ q[Stream] \in Seq(0..255) /\ q[Stream] # <<>> /\ b = q[Stream][1]
      /\ q'[Stream] = Tail(q[Stream])
  BY TakeType, PipesAre DEF Shapes, Stream
<1>2. /\ Len(q[Stream]) \in Nat /\ Len(q[Stream]) >= 1
      /\ Len(q'[Stream]) = Len(q[Stream]) - 1
      /\ \A i \in 1..Len(q'[Stream]) : q'[Stream][i] = q[Stream][i + 1]
  BY <1>1
<1>3. Stream \notin deaf /\ Coming /\ (Clear => Written)
  BY DEF HeaderInv
<1>4. At \in Nat
  BY DEF At, First, Shapes
<1>5. ASSUME pc'[2] \in Reading
      PROVE  Stream \notin deaf' /\ Coming' /\ (Clear' => Written')
  <2>1. At' = At + 1 /\ deaf' = deaf
    BY <1>5
  <2>2. ASSUME NEW i \in 1..Len(q'[Stream]), At' + i - 1 <= Len(Header)
        PROVE  q'[Stream][i] = Word(At' + i - 1)
    <3>1. i + 1 \in 1..Len(q[Stream]) /\ At + (i + 1) - 1 = At' + i - 1
      BY <1>2, <1>4, <2>1
    <3>2. At + (i + 1) - 1 <= Len(Header) => q[Stream][i + 1] = Word(At + (i + 1) - 1)
      BY <1>3, <3>1 DEF Coming
    <3>3. QED
      BY <1>2, <2>2, <3>1, <3>2
  <2>3. Coming'
    BY <1>w, <2>2 DEF Coming
  <2>4. End' = End
    <3>1. End = At + Len(q[Stream]) /\ End' = At' + Len(q'[Stream])
      BY DEF End
    <3>2. \A a, l \in Nat : (a + 1) + (l - 1) = a + l
      OBVIOUS
    <3>3. End' = (At + 1) + (Len(q[Stream]) - 1)
      BY <1>2, <2>1, <3>1, Zenon
    <3>4. QED
      BY <1>2, <1>4, <3>1, <3>2, <3>3, Zenon
  <2>5. Clear' => Clear
    BY <2>1 DEF Clear
  <2>6. Clear' => Written'
    BY <1>w, <1>3, <2>4, <2>5 DEF Written
  <2>7. QED
    BY <1>3, <2>1, <2>3, <2>6
<1>6. QED
  BY <1>5

\* The opener writes: what it writes follows what is on its way.
LEMMA PutStep ==
  ASSUME Shapes, Shapes', LinkType, HeaderInv, NEW bytes \in Seq(0..255), Put(Stream, bytes),
         kind' = kind, UNCHANGED <<shut, deaf, link, noticed, head, dialed>>,
         Stream \notin shut, 1 \notin noticed, pc'[2] = pc[2],
         pc[2] \in Reading /\ Clear =>
           /\ \A i \in 1..Len(bytes) :
                End + i - 1 <= Len(Header) => bytes[i] = Word(End + i - 1)
           /\ pc'[1] \in {"open", "tag"} => End + Len(bytes) = First
           /\ pc'[1] = "head" => End + Len(bytes) = 1
           /\ copier'[<<1, "up">>] = "run" => End + Len(bytes) > Len(Header),
         pc'[1] = "open" => pc'[2] = "none",
         copier'[<<2, "up">>] = copier[<<2, "up">>]
  PROVE  HeaderInv'
<1>w. First' = First /\ Header' = Header /\ \A i : Word(i)' = Word(i)
  BY SameWords
<1>1. CASE pc[2] \in Reading /\ Clear
  <2>1. q'[Stream] = q[Stream] \o bytes
    BY <1>1, PutType, PipesAre DEF Stream, Clear
  <2>2. q[Stream] \in Seq(0..255)
    BY PipesAre DEF Shapes, Stream
  <2>3. /\ Len(q'[Stream]) = Len(q[Stream]) + Len(bytes)
        /\ Len(q[Stream]) \in Nat /\ Len(bytes) \in Nat
        /\ \A i \in 1..Len(q[Stream]) : q'[Stream][i] = q[Stream][i]
        /\ \A i \in (Len(q[Stream]) + 1)..(Len(q[Stream]) + Len(bytes)) :
             q'[Stream][i] = bytes[i - Len(q[Stream])]
    BY <2>1, <2>2
  <2>4. At \in Nat /\ At' = At
    BY <1>w DEF At, First, Shapes
  <2>5. End' = End + Len(bytes)
    BY <2>3, <2>4 DEF End
  <2>6. ASSUME NEW i \in 1..Len(q'[Stream]), At + i - 1 <= Len(Header)
        PROVE  q'[Stream][i] = Word(At + i - 1)
    <3>1. CASE i <= Len(q[Stream])
      <4>1. i \in 1..Len(q[Stream])
        BY <2>3, <3>1
      <4>2. q[Stream][i] = Word(At + i - 1)
        BY <1>1, <2>6, <4>1 DEF HeaderInv, Coming
      <4>3. QED
        BY <2>3, <4>1, <4>2
    <3>2. CASE i > Len(q[Stream])
      <4> DEFINE j == i - Len(q[Stream])
      <4>1. j \in 1..Len(bytes) /\ End + j - 1 = At + i - 1
        <5>1. PICK a, n, m \in Nat : a = At /\ n = Len(q[Stream]) /\ m = Len(bytes)
          BY <2>3, <2>4
        <5>2. i \in 1..(n + m) /\ i > n /\ End = a + n
          BY <2>3, <3>2, <5>1, Zenon DEF End
        <5>3. i - n \in 1..m /\ (a + n) + (i - n) - 1 = a + i - 1
          BY <5>2
        <5>4. QED
          BY <5>1, <5>2, <5>3, Zenon
      <4>2. q'[Stream][i] = bytes[j]
        <5>1. \A n, m \in Nat : \A k \in 1..(n + m) : k > n => k \in (n + 1)..(n + m)
          OBVIOUS
        <5>2. i \in (Len(q[Stream]) + 1)..(Len(q[Stream]) + Len(bytes))
          BY <2>3, <3>2, <5>1, Zenon
        <5>3. QED
          BY <2>3, <5>2, Zenon
      <4> HIDE DEF j
      <4>3. bytes[j] = Word(End + j - 1)
        BY <1>1, <2>6, <4>1
      <4>4. QED
        BY <4>1, <4>2, <4>3
    <3>3. QED
      BY <2>3, <3>1, <3>2
  <2>7. Coming'
    BY <1>w, <2>4, <2>6 DEF Coming
  <2>8. Written'
    BY <1>1, <1>w, <2>5 DEF Written
  <2>9. Stream \notin deaf'
    BY <1>1 DEF Clear
  <2>10. QED
    BY <1>w, <2>7, <2>8, <2>9 DEF HeaderInv, DialsTarget
<1>2. CASE pc[2] \in Reading /\ ~Clear
  <2>1. Stream \notin deaf /\ Coming
    BY <1>2 DEF HeaderInv
  <2>2. link # "up" /\ ~Clear'
    BY <1>2, <2>1 DEF Clear
  <2>3. q'[Stream] = q[Stream]
    BY <2>2, PutType, PipesAre DEF Stream, LinkType
  <2>4. At' = At /\ Coming'
    BY <1>w, <2>1, <2>3 DEF At, Coming
  <2>5. QED
    BY <1>w, <2>1, <2>2, <2>4 DEF HeaderInv, DialsTarget
<1>3. CASE pc[2] \notin Reading
  BY <1>3 DEF HeaderInv, DialsTarget, Reading
<1>4. QED
  BY <1>1, <1>2, <1>3

LEMMA HeaderStep == Shapes /\ Shapes' /\ LinkType /\ HeaderInv /\ [Next]_vars => HeaderInv'
<1> SUFFICES ASSUME Shapes, Shapes', LinkType, HeaderInv, [Next]_vars PROVE HeaderInv'
  OBVIOUS
<1> USE DEF Goto
<1>p. pc[1] = "open" => pc[2] = "none"
  BY DEF HeaderInv
<1>c. copier[<<2, "up">>] = "run" => pc[2] \notin Reading
  BY DEF HeaderInv
<1>s. \A n \in Relays, d \in Dirs :
        StartCopiers(n) => copier'[<<n, d>>] = "run"
                           /\ \A m \in Relays : m # n => copier'[<<m, d>>] = copier[<<m, d>>]
  BY DEF StartCopiers, Copiers
<1>1. CASE UNCHANGED vars
  BY <1>1, <1>p, <1>c, QuietStep DEF vars
<1>2. CASE OpenStream
  <2>1. /\ pc[1] = "open" /\ pc[2] = "none" /\ pc'[2] \in {"none", "syn"}
        /\ pc'[1] = IF kind = "legacy" THEN "head" ELSE "tag"
        /\ UNCHANGED <<kind, q, shut, deaf, link, noticed, copier, head, dialed>>
    BY <1>2, <1>p DEF OpenStream, pipes, parse
  <2>2. First' = First /\ Header' = Header /\ \A i : Word(i)' = Word(i)
    BY <2>1, SameWords
  <2>3. At = First /\ At' = First /\ End' = End
    BY <2>1, <2>2 DEF At, End
  <2>4. Stream \notin deaf /\ Coming /\ (Clear => Written)
    BY <2>1 DEF HeaderInv, Reading
  <2>5. Coming' /\ (Clear' <=> Clear)
    BY <2>1, <2>2, <2>3, <2>4 DEF Coming, Clear
  <2>6. Clear' => Written'
    BY <2>1, <2>2, <2>3, <2>4, <2>5 DEF Written, First
  <2>7. QED
    BY <1>c, <2>1, <2>4, <2>5, <2>6 DEF HeaderInv, DialsTarget, Reading
<1>3. CASE OpenFail
  <2>1. pc' = [pc EXCEPT ![1] = "gone"]
        /\ UNCHANGED <<kind, q, link, noticed, copier, head, dialed>>
    BY <1>3 DEF OpenFail, parse
  <2>2. shut \subseteq shut' /\ deaf \subseteq deaf' /\ (Stream \in deaf' => Stream \in deaf)
    BY <1>3 DEF OpenFail, Close, In, Stream
  <2>3. QED
    BY <1>c, <2>1, <2>2, QuietStep DEF Shapes
<1>4. CASE WriteFail
  <2>1. /\ \/ pc' = [pc EXCEPT ![1] = "relay"] /\ StartCopiers(1)
           \/ pc' = [pc EXCEPT ![1] = "close"] /\ UNCHANGED copier
           \/ pc' = [pc EXCEPT ![1] = "leave"] /\ UNCHANGED copier
        /\ UNCHANGED <<shut, deaf>> \/ Close(1, 2)
    <3>1. CASE kind = "forward"
      BY <1>4, <3>1 DEF WriteFail
    <3>2. CASE kind = "fake"
      BY <1>4, <3>2 DEF WriteFail
    <3>3. CASE kind \notin {"forward", "fake"}
      BY <1>4, <3>3 DEF WriteFail
    <3>4. QED
      BY <3>1, <3>2, <3>3
  <2>2. ~Clear /\ UNCHANGED <<kind, q, link, noticed, head, dialed>>
    BY <1>4 DEF WriteFail, WriteFails, Clear, Stream, parse
  <2>3. shut \subseteq shut' /\ deaf \subseteq deaf' /\ (Stream \in deaf' => Stream \in deaf)
    BY <2>1 DEF Close, In, Stream
  <2>4. copier'[<<2, "up">>] = copier[<<2, "up">>]
    BY <2>1, <1>s DEF Relays, Dirs
  <2>5. pc'[2] = pc[2] /\ pc'[1] \notin {"open", "tag", "head"}
    BY <2>1 DEF Shapes
  <2>6. QED
    BY <1>c, <2>2, <2>3, <2>4, <2>5, QuietStep
<1>5. CASE CloseFake \/ FakeLoopEnds
  <2>1. UNCHANGED <<kind, q, link, noticed, copier, head, dialed>>
    BY <1>5 DEF CloseFake, FakeLoopEnds, pipes, parse
  <2>2. shut \subseteq shut' /\ deaf \subseteq deaf' /\ (Stream \in deaf' => Stream \in deaf)
    BY <1>5 DEF CloseFake, FakeLoopEnds, pipes, Close, In, Stream
  <2>3. pc'[2] = pc[2] /\ pc'[1] \notin {"open", "tag", "head"}
    BY <1>5 DEF CloseFake, FakeLoopEnds, Shapes
  <2>4. QED
    BY <1>c, <2>1, <2>2, <2>3, QuietStep
<1>6. CASE WriteTag
  <2>1. /\ pc[1] = "tag" /\ pc'[1] = "head" /\ pc'[2] = pc[2]
        /\ Stream \notin shut /\ 1 \notin noticed /\ Put(Stream, <<Tag>>)
        /\ UNCHANGED <<kind, shut, deaf, link, noticed, copier, head, dialed>>
    BY <1>6 DEF WriteTag, WriteOpen, Stream, parse, Shapes
  <2>2. kind \in {"reverse", "forward", "fake"}
    BY <2>1, KindsAssumption DEF Shapes
  <2>3. <<Tag>> \in Seq(0..255) /\ Len(<<Tag>>) = 1 /\ <<Tag>>[1] = Tag
    BY <2>2, TagType
  <2>4. ASSUME pc[2] \in Reading, Clear
        PROVE  End = 0 /\ (copier[<<1, "up">>] = "run" => End > Len(Header))
    BY <2>1, <2>2, <2>4 DEF HeaderInv, Written, First
  <2>5. Word(0) = Tag
    BY DEF Word
  <2>6. Len(Header) \in Nat
    BY HeaderType DEF Shapes
  <2>7. ASSUME pc[2] \in Reading, Clear
        PROVE  /\ \A i \in 1..Len(<<Tag>>) :
                    End + i - 1 <= Len(Header) => <<Tag>>[i] = Word(End + i - 1)
               /\ End + Len(<<Tag>>) = 1
               /\ copier[<<1, "up">>] = "run" => End + Len(<<Tag>>) > Len(Header)
    BY <2>3, <2>4, <2>5, <2>6, <2>7
  <2>8. QED
    BY <2>1, <2>3, <2>7, PutStep
<1>7. CASE WriteHeader
  <2>1. /\ pc[1] = "head" /\ pc'[1] \in {"close", "relay"} /\ pc'[2] = pc[2]
        /\ Stream \notin shut /\ 1 \notin noticed /\ Put(Stream, Header)
        /\ UNCHANGED <<kind, shut, deaf, link, noticed, head, dialed>>
        /\ UNCHANGED copier \/ StartCopiers(1)
    BY <1>7 DEF WriteHeader, WriteOpen, Stream, parse, Shapes
  <2>2. Header \in Seq(0..255) /\ Len(Header) \in Nat
    BY HeaderType DEF Shapes
  <2>3. ASSUME pc[2] \in Reading, Clear PROVE End = 1
    BY <2>1, <2>3 DEF HeaderInv, Written
  <2>4. \A i \in 1..Len(Header) : 1 + i - 1 = i /\ Word(i) = Header[i]
    BY DEF Word
  <2>5. copier'[<<2, "up">>] = copier[<<2, "up">>]
    BY <2>1, <1>s DEF Relays, Dirs
  <2>6. ASSUME pc[2] \in Reading, Clear
        PROVE  /\ \A i \in 1..Len(Header) :
                    End + i - 1 <= Len(Header) => Header[i] = Word(End + i - 1)
               /\ End + Len(Header) > Len(Header)
    BY <2>2, <2>3, <2>4, <2>6
  <2>7. QED
    BY <2>1, <2>2, <2>5, <2>6, PutStep
<1>8. CASE Accept
  <2>1. /\ pc[2] = "syn" /\ pc'[2] = "tag" /\ pc'[1] = pc[1]
        /\ UNCHANGED <<kind, q, shut, deaf, link, noticed, copier, head, dialed>>
    BY <1>8 DEF Accept, pipes, Shapes
  <2>2. QED
    BY <1>p, <1>c, <2>1, QuietStep DEF Reading
<1>9. CASE AcceptError \/ HeaderFail \/ DrainEnd \/ DialFail \/ DialOk
  <2>1. /\ pc[2] \notin {"none"} /\ pc'[1] = pc[1] /\ pc'[2] \in {"gone", "relay"}
        /\ UNCHANGED <<kind, q, link, noticed, head, dialed>>
        /\ UNCHANGED copier \/ StartCopiers(2)
    BY <1>9 DEF AcceptError, HeaderFail, DrainEnd, DialFail, DialOk, GiveUp,
                pipes, parse, Shapes
  <2>2. shut \subseteq shut' /\ deaf \subseteq deaf'
    BY <1>9 DEF AcceptError, HeaderFail, DrainEnd, DialFail, DialOk, GiveUp, Close, pipes
  <2>3. copier'[<<1, "up">>] = copier[<<1, "up">>]
    BY <2>1, <1>s DEF Relays, Dirs
  <2>4. QED
    BY <1>p, <2>1, <2>2, <2>3, QuietStep DEF Reading
<1>10. ASSUME NEW n \in Relays, CloseA(n) \/ CloseB(n) \/ Leave(n) PROVE HeaderInv'
  <2>1. UNCHANGED <<kind, q, link, noticed, copier, head, dialed>>
    BY <1>10 DEF CloseA, CloseB, Leave, parse
  <2>2. shut \subseteq shut' /\ deaf \subseteq deaf'
    BY <1>10 DEF CloseA, CloseB, Leave, Close
  <2>3. CASE n = 1
    <3>1. pc'[2] = pc[2] /\ pc'[1] \in {"closeB", "wait", "gone"}
      BY <1>10, <2>3 DEF CloseA, CloseB, Leave, Shapes
    <3>2. Stream \in deaf' => Stream \in deaf
      BY <1>10, <2>3 DEF CloseA, CloseB, Leave, Close, In, Stream
    <3>3. QED
      BY <1>c, <2>1, <2>2, <3>1, <3>2, QuietStep
  <2>4. CASE n = 2
    <3>1. pc'[1] = pc[1] /\ pc[2] # "none" /\ pc'[2] \in {"closeB", "wait", "gone"}
      BY <1>10, <2>4 DEF CloseA, CloseB, Leave, Shapes
    <3>2. QED
      BY <1>p, <2>1, <2>2, <3>1, QuietStep DEF Reading
  <2>5. QED
    BY <2>3, <2>4 DEF Relays
<1>11. ASSUME NEW n \in Relays, Notice(n) PROVE HeaderInv'
  <2>1. /\ UNCHANGED <<kind, q, shut, deaf, link, pc, copier, head, dialed>>
        /\ noticed \subseteq noticed'
    BY <1>11 DEF Notice, pipes, parse
  <2>2. QED
    BY <1>p, <1>c, <2>1, QuietStep
<1>12. ASSUME NEW n \in Relays, NEW d \in Dirs, CopyEnd(n, d) \/ CopyFail(n, d)
       PROVE  HeaderInv'
  <2>1. UNCHANGED <<kind, q, shut, deaf, link, noticed, pc, head, dialed>>
    BY <1>12 DEF CopyEnd, CopyFail, pipes, parse
  <2>2. copier' = [copier EXCEPT ![<<n, d>>] = "done"]
    BY <1>12 DEF CopyEnd, CopyFail
  <2>3. \A c \in Copiers : copier'[c] = "run" => copier[c] = "run"
    BY <2>2 DEF Shapes
  <2>4. <<1, "up">> \in Copiers /\ <<2, "up">> \in Copiers
    BY DEF Copiers, Relays, Dirs
  <2>5. QED
    BY <1>p, <1>c, <2>1, <2>3, <2>4, QuietStep
<1>13. ASSUME NEW n \in Relays, NEW d \in Dirs, CopyRead(n, d) PROVE HeaderInv'
  <2>1. /\ UNCHANGED <<kind, shut, deaf, link, noticed, pc, copier, head, dialed>>
        /\ copier[<<n, d>>] = "run"
        /\ q' = [q EXCEPT ![Source(n, d)] = Tail(@)]
    BY <1>13 DEF CopyRead, Copy, parse
  <2>2. CASE Source(n, d) = Stream
    <3>1. n = 2 /\ d = "up"
      BY <2>2 DEF Source, Stream, Relays, Dirs
    <3>2. pc[2] \notin Reading
      BY <1>c, <2>1, <3>1
    <3>3. QED
      BY <1>p, <1>c, <2>1, <3>2, QuietStep
  <2>3. CASE Source(n, d) # Stream
    <3>1. q'[Stream] = q[Stream]
      BY <2>1, <2>3, PipesAre DEF Stream, Shapes
    <3>2. QED
      BY <1>p, <1>c, <2>1, <3>1, QuietStep
  <2>4. QED
    BY <2>2, <2>3
<1>14. ASSUME NEW n \in Relays, NEW d \in Dirs, CopyWrite(n, d) PROVE HeaderInv'
  <2>1. /\ UNCHANGED <<kind, shut, deaf, link, noticed, pc, copier, head, dialed>>
        /\ copier[<<n, d>>] = "run" /\ Put(Sink(n, d), hand[<<n, d>>])
        /\ WriteOpen(n, Sink(n, d))
    BY <1>14 DEF CopyWrite, Store, parse
  <2>2. hand[<<n, d>>] \in Seq(0..255)
    BY PipesAre DEF Shapes
  <2>3. CASE Sink(n, d) = Stream
    <3>1. n = 1 /\ d = "up"
      BY <2>3 DEF Sink, Stream, Relays, Dirs
    <3>2. Stream \notin shut /\ 1 \notin noticed
      BY <2>1, <2>3, <3>1 DEF WriteOpen, Stream
    <3>3. Put(Stream, hand[<<1, "up">>]) /\ hand[<<1, "up">>] \in Seq(0..255)
      BY <2>1, <2>2, <2>3, <3>1
    <3>4. Len(hand[<<1, "up">>]) \in Nat /\ Len(Header) \in Nat
      BY <3>3, HeaderType DEF Shapes
    <3>5. ASSUME pc[2] \in Reading, Clear
          PROVE  /\ End > Len(Header) /\ End \in Nat
                 /\ pc[1] \notin {"open", "tag", "head"}
      <4>1. Written /\ copier[<<1, "up">>] = "run"
        BY <2>1, <3>1, <3>5 DEF HeaderInv
      <4>2. End > Len(Header)
        BY <4>1 DEF Written
      <4>3. Len(Header) >= 1 /\ First \in {0, 1}
        BY HeaderLength DEF First, Shapes
      <4>4. End \in Nat
        <5>1. At \in Nat
          BY <4>3 DEF At, Shapes
        <5>3. q[Stream] \in Seq(0..255)
          BY PipesAre DEF Shapes, Stream
        <5>2. QED
          BY <5>1, <5>3 DEF End
      <4>5. QED
        BY <4>1, <4>2, <4>3, <4>4 DEF Written
    <3>6. QED
      BY <1>p, <2>1, <3>2, <3>3, <3>4, <3>5, PutStep
  <2>4. CASE Sink(n, d) # Stream
    <3>1. q'[Stream] = q[Stream]
      BY <2>1, <2>2, <2>4, PutType, PipesAre DEF Stream
    <3>2. QED
      BY <1>p, <1>c, <2>1, <3>1, QuietStep
  <2>5. QED
    BY <2>3, <2>4
<1>15. CASE ReadTag
  <2>1. PICK b \in 0..255 :
          /\ Take(b)
          /\ head' = IF Route(b) = "legacy" THEN <<b>> ELSE <<>>
          /\ CASE Route(b) = "unknown" -> GiveUp
               [] Route(b) = "legacy" -> GoOn("len")
               [] OTHER -> GoOn(Route(b))
    BY <1>15 DEF ReadTag
  <2>2. /\ pc[2] = "tag" /\ UNCHANGED <<kind, link, noticed, copier, dialed>>
    BY <1>15 DEF ReadTag
  <2>3. Route(b) \in {"len", "unknown", "drain", "legacy"}
    BY DEF Route
  <2>4. PICK to \in {"gone", "len", "drain"} :
          /\ pc' = [pc EXCEPT ![2] = to]
          /\ to = "len" => UNCHANGED <<shut, deaf>> /\ Route(b) \in {"len", "legacy"}
    BY <2>1, <2>3 DEF GiveUp, GoOn
  <2>5. pc'[1] = pc[1] /\ pc'[2] = to
    BY <2>4 DEF Shapes
  <2>6. CASE to # "len"
    <3>1. pc'[2] \notin Reading
      BY <2>5, <2>6 DEF Reading
    <3>2. QED
      BY <1>p, <1>c, <2>2, <2>5, <3>1 DEF HeaderInv, DialsTarget, Reading
  <2>7. CASE to = "len"
    <3>1. pc[2] \in Reading /\ At = First
      BY <2>2 DEF Reading, At
    <3>2. b = Word(First)
      <4>1. First <= Len(Header)
        BY HeaderLength DEF First, Shapes
      <4>2. QED
        BY <2>1, <3>1, <4>1, TakeByte
    <3>3. \/ kind = "legacy" /\ head' = <<b>> /\ b = Header[1]
          \/ kind \in {"reverse", "forward"} /\ head' = <<>>
      <4>1. CASE kind = "legacy"
        <5>1. b = Header[1] /\ b = 0
          BY <3>2, <4>1, HeaderType DEF First, Word, Shapes
        <5>2. Route(b) = "legacy"
          BY <4>1, <5>1 DEF Route, StreamTypeReverse, StreamTypeFake
        <5>3. QED
          BY <2>1, <4>1, <5>1, <5>2
      <4>2. CASE kind = "reverse"
        <5>1. b = 2
          BY <3>2, <4>2, TagType DEF First, Word
        <5>2. Route(b) = "len"
          BY <4>2, <5>1 DEF Route, StreamTypeForward, StreamTypeReverse, StreamTypeFake
        <5>3. QED
          BY <2>1, <4>2, <5>2
      <4>3. CASE kind = "forward"
        <5>1. b = 1
          BY <3>2, <4>3, TagType DEF First, Word
        <5>2. Route(b) = "len"
          BY <4>3, <5>1 DEF Route, StreamTypeForward, StreamTypeReverse, StreamTypeFake
        <5>3. QED
          BY <2>1, <4>3, <5>2
      <4>4. CASE kind = "fake"
        <5>1. b = 255
          BY <3>2, <4>4, TagType DEF First, Word
        <5>2. Route(b) = "drain"
          BY <4>4, <5>1 DEF Route, StreamTypeReverse, StreamTypeFake
        <5>3. QED
          BY <2>4, <2>7, <5>2
      <4>5. QED
        BY <4>1, <4>2, <4>3, <4>4, KindsAssumption DEF Shapes
    <3>4. /\ Len(head') < 2 /\ At' = At + 1
          /\ \A i \in 1..Len(head') : head'[i] = Header[i]
      <4>1. At' = Len(head') + 1
        BY <2>5, <2>7 DEF At
      <4>2. CASE kind = "legacy"
        <5>1. Len(head') = 1 /\ head'[1] = Header[1] /\ First = 1
          BY <3>3, <4>2 DEF First
        <5>2. QED
          BY <3>1, <4>1, <5>1
      <4>3. CASE kind # "legacy"
        <5>1. Len(head') = 0 /\ First = 0
          BY <3>3, <4>3 DEF First
        <5>2. QED
          BY <3>1, <4>1, <5>1
      <4>4. QED
        BY <4>2, <4>3
    <3>5. Stream \notin deaf' /\ Coming' /\ (Clear' => Written')
      BY <2>1, <2>2, <2>4, <2>5, <2>7, <3>1, <3>4, TakeStep DEF Reading
    <3>6. Header' = Header
      BY <2>2, SameWords
    <3>7. kind # "fake" /\ pc'[1] # "open"
      BY <1>p, <2>2, <2>5, <3>3
    <3>8. copier'[<<2, "up">>] # "run"
      BY <1>c, <2>2, <3>1
    <3>9. QED
      BY <2>2, <2>5, <2>7, <3>4, <3>5, <3>6, <3>7, <3>8 DEF HeaderInv, DialsTarget
  <2>8. QED
    BY <2>6, <2>7
<1>16. ASSUME NEW b, Take(b), pc[2] \in {"len", "target"}, head' = Append(head, b),
              UNCHANGED <<kind, link, noticed, copier>>, pc'[1] = pc[1],
              pc'[2] \in {"len", "target"} => UNCHANGED <<shut, deaf>>
       PROVE  /\ Len(head') = Len(head) + 1
              /\ \A i \in 1..Len(head') : i <= Len(Header) => head'[i] = Header[i]
              /\ pc'[2] \in {"len", "target"} =>
                   Stream \notin deaf' /\ Coming' /\ (Clear' => Written')
  <2>1. pc[2] \in Reading /\ At = Len(head) + 1
    BY <1>16 DEF Reading, At
  <2>2. b \in Nat /\ (Len(head) + 1 <= Len(Header) => b = Word(Len(head) + 1))
    BY <1>16, <2>1, TakeByte
  <2>3. /\ head \in Seq(0..255) /\ Len(head) \in Nat /\ Len(head') = Len(head) + 1
        /\ head'[Len(head) + 1] = b
        /\ \A i \in 1..Len(head) : head'[i] = head[i]
    BY <1>16, <2>2 DEF Shapes
  <2>4. \A i \in 1..Len(head') : i <= Len(Header) => head'[i] = Header[i]
    <3>1. \A i \in 1..Len(head) : i <= Len(Header) => head[i] = Header[i]
      BY <1>16 DEF HeaderInv
    <3>2. Word(Len(head) + 1) = Header[Len(head) + 1]
      BY <2>3 DEF Word
    <3>3. QED
      BY <2>2, <2>3, <3>1, <3>2
  <2>5. ASSUME pc'[2] \in {"len", "target"}
        PROVE  Stream \notin deaf' /\ Coming' /\ (Clear' => Written')
    <3>1. pc'[2] \in Reading /\ At' = At + 1 /\ deaf' = deaf /\ shut' = shut
      BY <1>16, <2>1, <2>3, <2>5 DEF Reading, At
    <3>2. QED
      BY <1>16, <2>1, <3>1, TakeStep
  <2>6. QED
    BY <2>3, <2>4, <2>5
<1>17. CASE ReadLen
  <2>1. PICK b \in 0..255, to \in {"gone", "len", "target"} :
          /\ Take(b) /\ head' = Append(head, b)
          /\ pc' = [pc EXCEPT ![2] = to]
          /\ to # "gone" => UNCHANGED <<shut, deaf>>
          /\ to = "len" => Len(head') < 2
          /\ to = "target" => ~(Len(head') < 2)
    BY <1>17 DEF ReadLen, GiveUp, GoOn
  <2>2. /\ pc[2] = "len" /\ UNCHANGED <<kind, link, noticed, copier, dialed>>
    BY <1>17 DEF ReadLen
  <2>3. pc'[1] = pc[1] /\ pc'[2] = to
    BY <2>1 DEF Shapes
  <2>4. kind # "fake" /\ Len(head) < 2 /\ Len(head) \in Nat
        /\ pc'[1] # "open" /\ copier'[<<2, "up">>] # "run"
    BY <1>p, <1>c, <2>2, <2>3 DEF HeaderInv, Shapes, Reading
  <2>5. /\ Len(head') = Len(head) + 1
        /\ \A i \in 1..Len(head') : i <= Len(Header) => head'[i] = Header[i]
        /\ to \in {"len", "target"} =>
             Stream \notin deaf' /\ Coming' /\ (Clear' => Written')
    BY <2>1, <2>2, <2>3, <1>16
  <2>6. Header' = Header
    BY <2>2, SameWords
  <2>7. to = "target" => Len(head') \in 2..(Len(Target) + 1)
    <3>1. \A m, t \in Nat : m < 2 /\ ~(m + 1 < 2) /\ t >= 1 => m + 1 \in 2..(t + 1)
      OBVIOUS
    <3>2. to = "target" => ~(Len(head) + 1 < 2)
      BY <2>1, <2>5
    <3>3. QED
      BY <2>4, <2>5, <3>1, <3>2, TargetLength
  <2>8. QED
    BY <2>1, <2>2, <2>3, <2>4, <2>5, <2>6, <2>7 DEF HeaderInv, DialsTarget, Reading
<1>18. CASE ReadTarget
  <2>1. PICK b \in 0..255 :
          /\ Take(b) /\ head' = Append(head, b)
          /\ \/ /\ Len(head') - 2 < TargetLen(head)
                /\ pc' = [pc EXCEPT ![2] = "target"]
                /\ UNCHANGED dialed
             \/ /\ ~(Len(head') - 2 < TargetLen(head))
                /\ pc' = [pc EXCEPT ![2] = "dial"]
                /\ dialed' = SubSeq(head', 3, Len(head'))
    BY <1>18 DEF ReadTarget
  <2>2. /\ pc[2] = "target" /\ UNCHANGED <<kind, shut, deaf, link, noticed, copier>>
    BY <1>18 DEF ReadTarget
  <2>3. pc'[1] = pc[1]
    BY <2>1 DEF Shapes
  <2>4. /\ kind # "fake" /\ Len(head) \in 2..(Len(Target) + 1)
        /\ pc'[1] # "open" /\ copier'[<<2, "up">>] # "run"
        /\ \A i \in 1..Len(head) : i <= Len(Header) => head[i] = Header[i]
    BY <1>p, <1>c, <2>2, <2>3 DEF HeaderInv, Reading
  <2>5. /\ Len(head') = Len(head) + 1
        /\ \A i \in 1..Len(head') : i <= Len(Header) => head'[i] = Header[i]
        /\ pc'[2] \in {"len", "target"} =>
             Stream \notin deaf' /\ Coming' /\ (Clear' => Written')
    BY <2>1, <2>2, <2>3, <1>16
  <2>6. Header' = Header
    BY <2>2, SameWords
  <2>7. /\ Len(Header) = Len(Target) + 2
        /\ Header[1] = 0 /\ Header[2] = Len(Target)
        /\ \A i \in 1..Len(Target) : Header[i + 2] = Target[i]
    BY <2>4, HeaderType DEF Shapes
  <2>8. TargetLen(head) = Len(Target)
    <3>1. head[1] = 0 /\ head[2] = Len(Target)
      BY <2>4, <2>7, TargetLength
    <3>2. QED
      BY <3>1, TargetLength DEF TargetLen
  <2>9. CASE Len(head') - 2 < Len(Target)
    <3>1. pc'[2] = "target" /\ UNCHANGED dialed
      BY <2>1, <2>8, <2>9 DEF Shapes
    <3>2. Len(head') \in 2..(Len(Target) + 1)
      BY <2>4, <2>5, <2>9, TargetLength
    <3>3. QED
      BY <2>2, <2>4, <2>5, <2>6, <3>1, <3>2 DEF HeaderInv, DialsTarget
  <2>10. CASE ~(Len(head') - 2 < Len(Target))
    <3>1. pc'[2] = "dial" /\ dialed' = SubSeq(head', 3, Len(head'))
      BY <2>1, <2>8, <2>10 DEF Shapes
    <3>2. Len(head') = Len(Target) + 2
      BY <2>4, <2>5, <2>10, TargetLength
    <3>3. dialed' = Target
      <4>1. head' \in Seq(0..255) /\ Target \in Seq(0..255)
        BY TargetAssumption DEF Shapes
      <4>2. /\ Len(dialed') = Len(Target)
            /\ \A i \in 1..Len(Target) : dialed'[i] = head'[i + 2]
            /\ dialed' \in Seq(0..255)
        BY <3>1, <3>2, <4>1, BehindLength, Zenon
      <4>3. \A i \in 1..Len(Target) : head'[i + 2] = Target[i]
        BY <2>5, <2>7, <3>2, TargetLength
      <4>4. QED
        BY <4>1, <4>2, <4>3
    <3>4. QED
      BY <2>2, <2>4, <3>1, <3>3 DEF HeaderInv, DialsTarget, Reading
  <2>11. QED
    BY <2>9, <2>10
<1>19. CASE Drain
  <2>1. /\ pc[2] = "drain"
        /\ UNCHANGED <<kind, shut, deaf, link, noticed, pc, copier, head, dialed>>
    BY <1>19 DEF Drain, parse
  <2>2. pc[2] \notin Reading
    BY <2>1 DEF Reading
  <2>3. QED
    BY <1>p, <1>c, <2>1, <2>2, QuietStep
<1>20. ASSUME NEW p \in Peers, PeerStep(p[1], p[2]) PROVE HeaderInv'
  <2>1. /\ UNCHANGED <<kind, link, noticed, pc, copier, head, dialed>>
        /\ shut \subseteq shut' /\ deaf \subseteq deaf'
    BY <1>20 DEF PeerStep, Send, Receive, Hangup, Close, parse
  <2>2. /\ In(p[1], p[2]) # Stream /\ Out(p[1], p[2]) # Stream
        /\ In(p[1], p[2]) \in Pipes /\ Out(p[1], p[2]) \in Pipes
    BY DEF Peers, In, Out, Stream, Pipes, Dirs
  <2>3. Stream \in deaf' => Stream \in deaf
    BY <1>20, <2>2 DEF PeerStep, Send, Receive, Hangup, Close
  <2>4. q'[Stream] = q[Stream]
    <3>1. Stream \in Pipes /\ DOMAIN q = Pipes
      BY PipesAre DEF Stream, Shapes
    <3>2. ASSUME NEW x \in Pipes, x # Stream, NEW v, q' = [q EXCEPT ![x] = v]
          PROVE  q'[Stream] = q[Stream]
      BY <3>1, <3>2
    <3>3. CASE Send(p[1], p[2])
      <4>1. PICK b : q' = [q EXCEPT ![Out(p[1], p[2])] = Append(q[Out(p[1], p[2])], b)]
        BY <3>3 DEF Send
      <4>2. QED
        BY <2>2, <3>2, <4>1
    <3>4. CASE Receive(p[1], p[2])
      <4>1. q' = [q EXCEPT ![In(p[1], p[2])] = Tail(q[In(p[1], p[2])])]
        BY <3>4 DEF Receive
      <4>2. QED
        BY <2>2, <3>2, <4>1
    <3>5. CASE Hangup(p[1], p[2])
      BY <3>5 DEF Hangup
    <3>6. QED
      BY <1>20, <3>3, <3>4, <3>5 DEF PeerStep
  <2>5. QED
    BY <1>p, <1>c, <2>1, <2>3, <2>4, QuietStep
<1>21. ASSUME NEW i \in 1..3, NEW n \in 0..3, n \in {i - 1, i}, Reset(n, i)
       PROVE  HeaderInv'
  <2>1. UNCHANGED <<kind, shut, deaf, link, noticed, pc, copier, head, dialed>>
    BY <1>21 DEF Reset, parse
  <2>2. PICK k \in 0..Len(q[Out(n, i)]) :
          /\ i = 2 => k = Len(q[Out(n, i)])
          /\ q' = [q EXCEPT ![In(n, i)] = <<>>, ![Out(n, i)] = SubSeq(@, 1, k)]
    BY <1>21 DEF Reset
  <2>3. q[Stream] \in Seq(0..255) /\ Stream \in Pipes
    BY PipesAre DEF Shapes, Stream
  <2>4. In(n, i) # Out(n, i)
    BY <1>21, PipesAre
  <2>5. CASE In(n, i) = Stream
    <3>1. pc[2] \notin Reading
      BY <1>21, <2>5 DEF Reset, HeaderInv
    <3>2. QED
      BY <1>p, <1>c, <2>1, <3>1, QuietStep
  <2>6. CASE In(n, i) # Stream
    <3>1. Out(n, i) = Stream => i = 2
      BY DEF Out, Stream
    <3>2. SubSeq(q[Stream], 1, Len(q[Stream])) = q[Stream]
      BY <2>3
    <3>3. q'[Stream] = q[Stream]
      BY <2>2, <2>3, <2>6, <3>1, <3>2 DEF Shapes
    <3>4. QED
      BY <1>p, <1>c, <2>1, <3>3, QuietStep
  <2>7. QED
    BY <2>5, <2>6
<1>22. CASE Break
  <2>1. PICK j \in 0..Len(q[Stream]), k \in 0..Len(q[<<"down", 2>>]) :
          q' = [q EXCEPT ![Stream] = SubSeq(@, 1, j), ![<<"down", 2>>] = SubSeq(@, 1, k)]
    BY <1>22 DEF Break, Stream
  <2>2. /\ link' = "dead"
        /\ UNCHANGED <<kind, shut, deaf, noticed, copier, head, dialed>>
        /\ pc' = pc \/ (pc[2] = "syn" /\ pc' = [pc EXCEPT ![2] = "none"])
    BY <1>22 DEF Break, parse
  <2>3. pc'[1] = pc[1] /\ (pc'[2] = pc[2] \/ (pc[2] = "syn" /\ pc'[2] = "none"))
    BY <2>2 DEF Shapes
  <2>4. q[Stream] \in Seq(0..255) /\ Stream \in Pipes /\ Stream # <<"down", 2>>
    BY PipesAre DEF Shapes, Stream
  <2>5. q'[Stream] = SubSeq(q[Stream], 1, j)
    BY <2>1, <2>4 DEF Shapes
  <2>6. /\ Len(q'[Stream]) = j
        /\ \A i \in 1..j : i \in 1..Len(q[Stream]) /\ q'[Stream][i] = q[Stream][i]
    <3>1. /\ Len(SubSeq(q[Stream], 1, j)) = j
          /\ \A i \in 1..j : /\ i \in 1..Len(q[Stream])
                            /\ SubSeq(q[Stream], 1, j)[i] = q[Stream][i]
      BY <2>1, <2>4
    <3>2. QED
      BY <2>5, <3>1
  <2>7. First' = First /\ Header' = Header /\ \A i : Word(i)' = Word(i)
    BY <2>2, SameWords
  <2>8. At' = At
    BY <2>2, <2>3, <2>7 DEF At
  <2>9. pc[2] \in Reading => Coming'
    BY <2>6, <2>7, <2>8 DEF HeaderInv, Coming
  <2>10. ~Clear'
    BY <2>2 DEF Clear
  <2>11. QED
    BY <1>p, <2>2, <2>3, <2>7, <2>9, <2>10 DEF HeaderInv, DialsTarget, Reading
<1>23. CASE OpenerStep
  BY <1>23, <1>2, <1>3, <1>4, <1>5, <1>6, <1>7 DEF OpenerStep
<1>24. CASE AcceptorStep
  BY <1>24, <1>8, <1>9, <1>15, <1>17, <1>18, <1>19 DEF AcceptorStep
<1>25. QED
  BY <1>1, <1>10, <1>11, <1>12, <1>13, <1>14, <1>20, <1>21, <1>22, <1>23, <1>24
  DEF Next, RelayStep, CopierStep

\* Whoever opens the stream and whatever is lost, reset or closed on the way, the
\* target that is dialed is the target that was asked for, and a fake stream leads to
\* no dial: for every target of 1 to 255 bytes.
THEOREM DialsTargetAlways == Spec => []DialsTarget
<1> DEFINE Inv == Shapes /\ LinkType /\ HeaderInv
<1>1. Init => Inv
  BY InitShapes, InitHeader DEF Init, LinkType
<1>2. Inv /\ [Next]_vars => Inv'
  BY ShapesStep, LinkStep, HeaderStep
<1>3. Inv => DialsTarget
  BY DEF HeaderInv
<1>4. QED
  BY <1>1, <1>2, <1>3, PTL DEF Spec

-----------------------------------------------------------------------------
(* The forms of the steps with several outcomes                            *)

LEMMA WriteFailForms ==
  WriteFail =>
    /\ pc[1] \in {"tag", "head"} /\ WriteFails(1, Stream)
    /\ UNCHANGED <<kind, q, link, noticed, hand, head, armed, dialed, counted, sent, got>>
    /\ \/ /\ kind = "forward"
          /\ pc' = [pc EXCEPT ![1] = "relay"] /\ StartCopiers(1) /\ UNCHANGED <<shut, deaf>>
       \/ /\ kind = "fake"
          /\ pc' = [pc EXCEPT ![1] = "close"] /\ UNCHANGED <<shut, deaf, copier>>
       \/ /\ kind \notin {"forward", "fake"}
          /\ pc' = [pc EXCEPT ![1] = "leave"] /\ Close(1, 2) /\ UNCHANGED copier
<1> SUFFICES ASSUME WriteFail
             PROVE  /\ pc[1] \in {"tag", "head"} /\ WriteFails(1, Stream)
                    /\ UNCHANGED <<kind, q, link, noticed, hand, head, armed, dialed, counted,
                                   sent, got>>
                    /\ \/ /\ kind = "forward"
                          /\ pc' = [pc EXCEPT ![1] = "relay"] /\ StartCopiers(1)
                          /\ UNCHANGED <<shut, deaf>>
                       \/ /\ kind = "fake"
                          /\ pc' = [pc EXCEPT ![1] = "close"] /\ UNCHANGED <<shut, deaf, copier>>
                       \/ /\ kind \notin {"forward", "fake"}
                          /\ pc' = [pc EXCEPT ![1] = "leave"] /\ Close(1, 2) /\ UNCHANGED copier
  OBVIOUS
<1>1. /\ pc[1] \in {"tag", "head"} /\ WriteFails(1, Stream)
      /\ UNCHANGED <<kind, q, link, noticed, hand, head, armed, dialed, counted, sent, got>>
  BY DEF WriteFail, Stream, parse, ends
<1>2. CASE kind = "forward"
  BY <1>1, <1>2 DEF WriteFail, Goto
<1>3. CASE kind = "fake"
  BY <1>1, <1>3 DEF WriteFail, Goto
<1>4. CASE kind \notin {"forward", "fake"}
  BY <1>1, <1>4 DEF WriteFail, Goto
<1>5. QED
  BY <1>2, <1>3, <1>4

LEMMA ReadTagForms ==
  ReadTag =>
    \E b \in 0..255 :
      /\ pc[2] = "tag" /\ Take(b)
      /\ UNCHANGED <<kind, link, noticed, copier, hand, armed, dialed, sent, got>>
      /\ head' = IF Route(b) = "legacy" THEN <<b>> ELSE <<>>
      /\ \/ Route(b) = "unknown" /\ GiveUp
         \/ Route(b) \in {"len", "legacy"} /\ GoOn("len")
         \/ Route(b) = "drain" /\ GoOn("drain")
<1> SUFFICES ASSUME NEW b \in 0..255, pc[2] = "tag", Take(b),
                    CASE Route(b) = "unknown" -> GiveUp
                      [] Route(b) = "legacy" -> GoOn("len")
                      [] OTHER -> GoOn(Route(b))
             PROVE  \/ Route(b) = "unknown" /\ GiveUp
                    \/ Route(b) \in {"len", "legacy"} /\ GoOn("len")
                    \/ Route(b) = "drain" /\ GoOn("drain")
  BY DEF ReadTag, ends
<1>1. Route(b) \in {"len", "unknown", "drain", "legacy"}
  BY DEF Route
<1>2. CASE Route(b) = "unknown"
  BY <1>2
<1>3. CASE Route(b) = "legacy"
  BY <1>3
<1>4. CASE Route(b) \in {"len", "drain"}
  BY <1>4
<1>5. QED
  BY <1>1, <1>2, <1>3, <1>4

LEMMA ReadLenForms ==
  ReadLen =>
    \E b \in 0..255 :
      /\ pc[2] = "len" /\ Take(b) /\ head' = Append(head, b)
      /\ UNCHANGED <<kind, link, noticed, copier, hand, armed, dialed, sent, got>>
      /\ \/ Len(head') < 2 /\ GoOn("len")
         \/ ~(Len(head') < 2) /\ GoOn("target")
         \/ GiveUp
BY DEF ReadLen, ends

LEMMA ReadTargetForms ==
  ReadTarget =>
    \E b \in 0..255 :
      /\ pc[2] = "target" /\ Take(b) /\ head' = Append(head, b)
      /\ UNCHANGED <<kind, shut, deaf, link, noticed, copier, hand, counted, sent, got>>
      /\ \/ /\ Len(head') - 2 < TargetLen(head)
            /\ pc' = [pc EXCEPT ![2] = "target"] /\ UNCHANGED <<armed, dialed>>
         \/ /\ ~(Len(head') - 2 < TargetLen(head))
            /\ pc' = [pc EXCEPT ![2] = "dial"] /\ armed' = FALSE
            /\ dialed' = SubSeq(head', 3, Len(head'))
BY DEF ReadTarget, Goto, ends

-----------------------------------------------------------------------------
(* What may close, and what only grows                                     *)

NodeEnds == {<<0, 1>>, <<1, 1>>, <<1, 2>>, <<2, 2>>, <<2, 3>>, <<3, 3>>}

Closes ==
  \/ UNCHANGED <<shut, deaf>>
  \/ \E e \in NodeEnds : Close(e[1], e[2])
  \/ \E p \in Peers : shut' = shut \cup {Out(p[1], p[2])} /\ UNCHANGED deaf

LEMMA ClosesStep == [Next]_vars => Closes
<1> SUFFICES ASSUME [Next]_vars PROVE Closes
  OBVIOUS
<1>c. /\ Close(1, 1) => Closes
      /\ Close(1, 2) => Closes
      /\ Close(2, 2) => Closes
      /\ Close(2, 3) => Closes
      /\ UNCHANGED <<shut, deaf>> => Closes
  BY DEF Closes, NodeEnds
<1>1. CASE UNCHANGED vars
  BY <1>1, <1>c DEF vars
<1>2. CASE OpenStream \/ OpenFail \/ WriteTag \/ WriteHeader \/ CloseFake \/ FakeLoopEnds
  BY <1>2, <1>c DEF OpenStream, OpenFail, WriteTag, WriteHeader, CloseFake, FakeLoopEnds, pipes
<1>3. CASE WriteFail
  BY <1>3, <1>c, WriteFailForms
<1>4. CASE Accept \/ AcceptError \/ HeaderFail \/ Drain \/ DrainEnd \/ DialOk \/ DialFail
  BY <1>4, <1>c DEF Accept, AcceptError, HeaderFail, Drain, DrainEnd, DialOk, DialFail,
                    GiveUp, pipes
<1>5. CASE ReadTag \/ ReadLen \/ ReadTarget
  BY <1>5, <1>c, ReadTagForms, ReadLenForms, ReadTargetForms DEF GiveUp, GoOn
<1>6. ASSUME NEW n \in Relays, RelayStep(n) \/ Notice(n) PROVE Closes
  BY <1>6, <1>c DEF RelayStep, CloseA, CloseB, Leave, Notice, Relays, pipes
<1>7. ASSUME NEW n \in Relays, NEW d \in Dirs, CopierStep(n, d) PROVE Closes
  BY <1>7, <1>c DEF CopierStep, CopyRead, CopyEnd, CopyWrite, CopyFail, pipes
<1>8. ASSUME NEW p \in Peers, PeerStep(p[1], p[2]) PROVE Closes
  <2>1. p \in NodeEnds
    BY DEF Peers, NodeEnds
  <2>2. QED
    BY <1>8, <2>1 DEF PeerStep, Send, Receive, Hangup, Closes
<1>9. ASSUME NEW n, NEW i, Reset(n, i) PROVE Closes
  BY <1>9, <1>c DEF Reset
<1>10. CASE Break
  BY <1>10, <1>c DEF Break
<1>11. QED
  BY <1>1, <1>2, <1>3, <1>4, <1>5, <1>6, <1>7, <1>8, <1>9, <1>10
  DEF Next, OpenerStep, AcceptorStep

LEMMA ClosesGrow == Closes => shut \subseteq shut' /\ deaf \subseteq deaf'
BY DEF Closes, Close

\* The pipes of a direction, and its relays: Near is next to the reader.
Back(d) == IF d = "up" THEN "down" ELSE "up"
Near(d) == IF d = "up" THEN 2 ELSE 1
Far(d) == IF d = "up" THEN 1 ELSE 2
ToReader(d) == IF d = "up" THEN <<"up", 3>> ELSE <<"down", 1>>
Mid(d) == <<d, 2>>
FromWriter(d) == IF d = "up" THEN <<"up", 1>> ELSE <<"down", 3>>

\* Who has closed its ear has closed its mouth.
Closings ==
  \A d \in Dirs :
    /\ ToReader(d) \in deaf => FromWriter(Back(d)) \in shut
    /\ Mid(d) \in deaf => Mid(Back(d)) \in shut
    /\ FromWriter(d) \in deaf => ToReader(Back(d)) \in shut

Ends == shut \subseteq Pipes /\ deaf \subseteq Pipes

LEMMA InitEnds == Init => Ends /\ Closings
BY DEF Init, Ends, Closings

LEMMA EndsStep == Ends /\ [Next]_vars => Ends'
<1> SUFFICES ASSUME Ends, Closes PROVE Ends'
  BY ClosesStep
<1>1. ASSUME NEW e \in NodeEnds \cup Peers PROVE In(e[1], e[2]) \in Pipes /\ Out(e[1], e[2]) \in Pipes
  BY PipesAre DEF NodeEnds, Peers
<1>2. QED
  BY <1>1 DEF Ends, Closes, Close

\* What each Close closes.
LEMMA CloseIs ==
  /\ Close(0, 1) <=> shut' = shut \cup {FromWriter("up")} /\ deaf' = deaf \cup {ToReader("down")}
  /\ Close(1, 1) <=> shut' = shut \cup {ToReader("down")} /\ deaf' = deaf \cup {FromWriter("up")}
  /\ Close(1, 2) <=> shut' = shut \cup {Mid("up")} /\ deaf' = deaf \cup {Mid("down")}
  /\ Close(2, 2) <=> shut' = shut \cup {Mid("down")} /\ deaf' = deaf \cup {Mid("up")}
  /\ Close(2, 3) <=> shut' = shut \cup {ToReader("up")} /\ deaf' = deaf \cup {FromWriter("down")}
  /\ Close(3, 3) <=> shut' = shut \cup {FromWriter("down")} /\ deaf' = deaf \cup {ToReader("up")}
BY DEF Close, In, Out, ToReader, FromWriter, Mid

\* They are six different pipes.
LEMMA PipesDiffer ==
  /\ \A d \in Dirs : /\ Back(d) \in Dirs /\ Back(Back(d)) = d /\ Back(d) # d
                     /\ Near(d) \in Relays /\ Far(d) \in Relays /\ Near(d) # Far(d)
                     /\ Near(Back(d)) = Far(d) /\ Far(Back(d)) = Near(d)
                     /\ ToReader(d) \in Pipes /\ Mid(d) \in Pipes /\ FromWriter(d) \in Pipes
  /\ \A d, e \in Dirs : /\ ToReader(d) # Mid(e) /\ Mid(d) # FromWriter(e)
                        /\ ToReader(d) # FromWriter(e)
                        /\ d # e => /\ ToReader(d) # ToReader(e) /\ Mid(d) # Mid(e)
                                    /\ FromWriter(d) # FromWriter(e)
BY DEF Dirs, Relays, Pipes, Back, Near, Far, ToReader, Mid, FromWriter

LEMMA ClosingsStep == Closings /\ [Next]_vars => Closings'
<1> SUFFICES ASSUME Closings, Closes PROVE Closings'
  BY ClosesStep
<1>1. CASE UNCHANGED <<shut, deaf>>
  BY <1>1 DEF Closings
<1>2. ASSUME NEW p \in Peers, shut' = shut \cup {Out(p[1], p[2])}, UNCHANGED deaf
      PROVE  Closings'
  BY <1>2 DEF Closings
<1>3. ASSUME NEW e \in NodeEnds, Close(e[1], e[2]) PROVE Closings'
  <2>1. PICK d \in Dirs :
          \/ shut' = shut \cup {FromWriter(d)} /\ deaf' = deaf \cup {ToReader(Back(d))}
          \/ shut' = shut \cup {ToReader(d)} /\ deaf' = deaf \cup {FromWriter(Back(d))}
          \/ shut' = shut \cup {Mid(d)} /\ deaf' = deaf \cup {Mid(Back(d))}
    <3>1. "up" \in Dirs /\ "down" \in Dirs /\ Back("up") = "down" /\ Back("down") = "up"
      BY DEF Dirs, Back
    <3>2. Close(0, 1) \/ Close(1, 1) \/ Close(1, 2) \/ Close(2, 2) \/ Close(2, 3) \/ Close(3, 3)
      BY <1>3 DEF NodeEnds
    <3>3. QED
      BY <3>1, <3>2, CloseIs
  <2>2. ASSUME NEW c \in Dirs
        PROVE  /\ ToReader(c) \in deaf' => FromWriter(Back(c)) \in shut'
               /\ Mid(c) \in deaf' => Mid(Back(c)) \in shut'
               /\ FromWriter(c) \in deaf' => ToReader(Back(c)) \in shut'
    BY <2>1, PipesDiffer DEF Closings
  <2>3. QED
    BY <2>2 DEF Closings
<1>4. QED
  BY <1>1, <1>2, <1>3 DEF Closes

\* kind stays, a dead socket stays dead, and a closed session closed.
LEMMA Growing ==
  [Next]_vars => kind' = kind /\ (link' = "up" => link = "up") /\ noticed \subseteq noticed'
<1> DEFINE Grows == kind' = kind /\ (link' = "up" => link = "up") /\ noticed \subseteq noticed'
<1> SUFFICES ASSUME [Next]_vars PROVE Grows
  OBVIOUS
<1>1. CASE UNCHANGED vars
  BY <1>1 DEF vars
<1>2. CASE OpenerStep
  BY <1>2 DEF OpenerStep, OpenStream, OpenFail, WriteTag, WriteHeader, WriteFail, CloseFake,
              FakeLoopEnds
<1>3. CASE AcceptorStep
  BY <1>3 DEF AcceptorStep, Accept, AcceptError, ReadTag, ReadLen, ReadTarget, HeaderFail,
              Drain, DrainEnd, DialOk, DialFail
<1>4. ASSUME NEW n \in Relays, RelayStep(n) \/ Notice(n) PROVE Grows
  BY <1>4 DEF RelayStep, CloseA, CloseB, Leave, Notice
<1>5. ASSUME NEW n \in Relays, NEW d \in Dirs, CopierStep(n, d) PROVE Grows
  BY <1>5 DEF CopierStep, CopyRead, CopyEnd, CopyWrite, CopyFail
<1>6. ASSUME NEW p \in Peers, PeerStep(p[1], p[2]) PROVE Grows
  BY <1>6 DEF PeerStep, Send, Receive, Hangup
<1>7. ASSUME NEW n, NEW i, Reset(n, i) PROVE Grows
  BY <1>7 DEF Reset
<1>8. CASE Break
  BY <1>8 DEF Break
<1>9. QED
  BY <1>1, <1>2, <1>3, <1>4, <1>5, <1>6, <1>7, <1>8 DEF Next

-----------------------------------------------------------------------------
(* Types                                                                   *)

Flags == noticed \subseteq Relays /\ armed \in BOOLEAN /\ counted \in BOOLEAN

LEMMA FlagsStep == Flags /\ [Next]_vars => Flags'
<1> SUFFICES ASSUME Flags, [Next]_vars PROVE Flags'
  OBVIOUS
<1>1. CASE UNCHANGED vars
  BY <1>1 DEF vars, Flags
<1>2. CASE OpenStream \/ OpenFail \/ WriteTag \/ WriteHeader \/ CloseFake \/ FakeLoopEnds
  BY <1>2 DEF OpenStream, OpenFail, WriteTag, WriteHeader, CloseFake, FakeLoopEnds, parse, Flags
<1>3. CASE WriteFail
  BY <1>3, WriteFailForms DEF Flags
<1>4. CASE Accept \/ AcceptError \/ HeaderFail \/ Drain \/ DrainEnd \/ DialOk \/ DialFail
  BY <1>4 DEF Accept, AcceptError, HeaderFail, Drain, DrainEnd, DialOk, DialFail, GiveUp,
              parse, Flags
<1>5. CASE ReadTag \/ ReadLen \/ ReadTarget
  <2>1. noticed' = noticed /\ armed' \in {armed, FALSE}
    BY <1>5, ReadTagForms, ReadLenForms, ReadTargetForms, Zenon
  <2>2. CASE ReadTag
    <3>1. GiveUp \/ GoOn("len") \/ GoOn("drain")
      BY <2>2, ReadTagForms, Zenon
    <3>2. counted' \in BOOLEAN
      BY <3>1 DEF GiveUp, GoOn, Flags
    <3>3. QED
      BY <2>1, <3>2 DEF Flags
  <2>3. CASE ReadLen
    <3>1. GiveUp \/ GoOn("len") \/ GoOn("target")
      BY <2>3, ReadLenForms, Zenon
    <3>2. counted' \in BOOLEAN
      BY <3>1 DEF GiveUp, GoOn, Flags
    <3>3. QED
      BY <2>1, <3>2 DEF Flags
  <2>4. CASE ReadTarget
    <3>1. counted' = counted
      BY <2>4, ReadTargetForms, Zenon
    <3>2. QED
      BY <2>1, <3>1 DEF Flags
  <2>5. QED
    BY <1>5, <2>2, <2>3, <2>4
<1>6. ASSUME NEW n \in Relays, RelayStep(n) \/ Notice(n) PROVE Flags'
  BY <1>6 DEF RelayStep, CloseA, CloseB, Leave, Notice, parse, Flags
<1>7. ASSUME NEW n \in Relays, NEW d \in Dirs, CopierStep(n, d) PROVE Flags'
  BY <1>7 DEF CopierStep, CopyRead, CopyEnd, CopyWrite, CopyFail, parse, Flags
<1>8. ASSUME NEW p \in Peers, PeerStep(p[1], p[2]) PROVE Flags'
  BY <1>8 DEF PeerStep, Send, Receive, Hangup, parse, Flags
<1>9. ASSUME NEW n, NEW i, Reset(n, i) PROVE Flags'
  BY <1>9 DEF Reset, parse, Flags
<1>10. CASE Break
  BY <1>10 DEF Break, parse, Flags
<1>11. QED
  BY <1>1, <1>2, <1>3, <1>4, <1>5, <1>6, <1>7, <1>8, <1>9, <1>10
  DEF Next, OpenerStep, AcceptorStep

\* What the acceptor dialed, and what the ends have read.
LEMMA DialedType == HeaderInv => dialed \in Seq(0..255)
<1>1. <<>> \in Seq(0..255)
  OBVIOUS
<1>2. QED
  BY <1>1, TargetAssumption DEF HeaderInv, DialsTarget

Texts == got \in [Dirs -> Seq(0..255)]

LEMMA TextsStep == Shapes /\ Texts /\ [Next]_vars => Texts'
<1> SUFFICES ASSUME Shapes, Texts, [Next]_vars PROVE Texts'
  OBVIOUS
<1>1. CASE UNCHANGED vars
  BY <1>1 DEF vars, Texts
<1>2. CASE OpenStream \/ OpenFail \/ WriteTag \/ WriteHeader \/ CloseFake \/ FakeLoopEnds
  BY <1>2 DEF OpenStream, OpenFail, WriteTag, WriteHeader, CloseFake, FakeLoopEnds, parse, ends,
              Texts
<1>3. CASE WriteFail
  BY <1>3, WriteFailForms DEF Texts
<1>4. CASE Accept \/ AcceptError \/ HeaderFail \/ Drain \/ DrainEnd \/ DialOk \/ DialFail
  BY <1>4 DEF Accept, AcceptError, HeaderFail, Drain, DrainEnd, DialOk, DialFail, parse, ends,
              Texts
<1>5. CASE ReadTag \/ ReadLen \/ ReadTarget
  BY <1>5, ReadTagForms, ReadLenForms, ReadTargetForms DEF Texts
<1>7. ASSUME NEW n \in Relays, RelayStep(n) \/ Notice(n) PROVE Texts'
  BY <1>7 DEF RelayStep, CloseA, CloseB, Leave, Notice, parse, ends, Texts
<1>8. ASSUME NEW n \in Relays, NEW d \in Dirs, CopierStep(n, d) PROVE Texts'
  BY <1>8 DEF CopierStep, CopyRead, CopyEnd, CopyWrite, CopyFail, parse, ends, Texts
<1>9. ASSUME NEW p \in Peers, Send(p[1], p[2]) \/ Hangup(p[1], p[2]) PROVE Texts'
  BY <1>9 DEF Send, Hangup, parse, ends, Texts
<1>10. ASSUME NEW p \in Peers, Receive(p[1], p[2]) PROVE Texts'
  <2> DEFINE r == In(p[1], p[2])
  <2>1. r \in Pipes /\ r[1] \in Dirs
    BY DEF Peers, In, Pipes, Dirs
  <2>2. q[r] \in Seq(0..255) /\ got[r[1]] \in Seq(0..255)
    BY <2>1 DEF Shapes, Texts
  <2>3. q[r] # <<>> /\ got' = [got EXCEPT ![r[1]] = Append(got[r[1]], q[r][1])] /\ UNCHANGED dialed
    BY <1>10 DEF Receive, parse
  <2> HIDE DEF r
  <2>4. Append(got[r[1]], q[r][1]) \in Seq(0..255)
    <3>1. q[r][1] \in 0..255
      BY <2>2, <2>3, TailOf, Zenon
    <3>2. QED
      BY <2>2, <3>1, AppendOf, Zenon
  <2>5. QED
    BY <2>3, <2>4 DEF Texts
<1>11. ASSUME NEW n, NEW i, Reset(n, i) PROVE Texts'
  BY <1>11 DEF Reset, parse, ends, Texts
<1>12. CASE Break
  BY <1>12 DEF Break, parse, ends, Texts
<1>13. QED
  BY <1>1, <1>2, <1>3, <1>4, <1>5, <1>7, <1>8, <1>9, <1>10, <1>11, <1>12
  DEF Next, OpenerStep, AcceptorStep, PeerStep

\* Where the goroutines are; the copiers run while their relay does.
OpenerAt == {"open", "tag", "head", "close", "ticker", "relay", "closeB", "wait", "leave", "gone"}
AcceptorAt == {"none", "syn", "tag", "len", "target", "drain", "dial", "relay", "closeB",
               "wait", "gone"}
Relaying == {"relay", "closeB", "wait"}

Places ==
  /\ pc[1] \in OpenerAt /\ pc[2] \in AcceptorAt
  /\ \A n \in Relays, d \in Dirs : copier[<<n, d>>] = "run" => pc[n] \in Relaying

LEMMA Started ==
  ASSUME NEW n \in Relays, StartCopiers(n)
  PROVE  \A m \in Relays, d \in Dirs :
           copier'[<<m, d>>] = IF m = n THEN "run" ELSE copier[<<m, d>>]
BY DEF StartCopiers, Copiers

LEMMA PlacesStep == Shapes /\ HeaderInv /\ Places /\ [Next]_vars => Places'
<1> SUFFICES ASSUME Shapes, HeaderInv, Places, [Next]_vars PROVE Places'
  OBVIOUS
<1> USE DEF Goto
\* A step of one goroutine that starts no copier, or its own.
<1>s. ASSUME NEW n \in Relays, NEW to, pc' = [pc EXCEPT ![n] = to],
             to \in IF n = 1 THEN OpenerAt ELSE AcceptorAt,
             \/ UNCHANGED copier /\ (to \in Relaying \/ pc[n] \notin Relaying)
             \/ StartCopiers(n) /\ to \in Relaying
      PROVE  Places'
  <2>1. pc'[n] = to /\ \A m \in Relays : m # n => pc'[m] = pc[m]
    BY <1>s DEF Shapes, Relays
  <2>2. ASSUME NEW m \in Relays, NEW d \in Dirs, copier'[<<m, d>>] = "run"
        PROVE  pc'[m] \in Relaying
    BY <1>s, <2>1, <2>2, Started DEF Places
  <2>3. QED
    BY <1>s, <2>1, <2>2 DEF Places, Relays
<1>q. ASSUME UNCHANGED pc, \A n \in Relays, d \in Dirs :
                             copier'[<<n, d>>] = "run" => copier[<<n, d>>] = "run"
      PROVE  Places'
  BY <1>q DEF Places
<1>r. 1 \in Relays /\ 2 \in Relays
  BY DEF Relays
<1> USE DEF Relaying, OpenerAt, AcceptorAt
<1>1. CASE UNCHANGED vars
  BY <1>1, <1>q DEF vars
<1>2. CASE OpenStream
  <2>1. /\ pc'[1] \in {"head", "tag"} /\ (pc'[2] = "syn" \/ pc'[2] = pc[2])
        /\ pc[1] = "open" /\ pc[2] = "none" /\ UNCHANGED copier
    BY <1>2 DEF OpenStream, HeaderInv
  <2>2. QED
    BY <2>1 DEF Places, Relays
<1>3. CASE OpenFail \/ WriteTag \/ CloseFake \/ FakeLoopEnds
  BY <1>3, <1>s, <1>r DEF OpenFail, WriteTag, CloseFake, FakeLoopEnds
<1>4. CASE WriteHeader
  BY <1>4, <1>s, <1>r DEF WriteHeader
<1>5. CASE WriteFail
  BY <1>5, <1>s, <1>r, WriteFailForms
<1>6. CASE Accept \/ AcceptError \/ HeaderFail \/ DrainEnd \/ DialOk \/ DialFail
  BY <1>6, <1>s, <1>r DEF Accept, AcceptError, HeaderFail, DrainEnd, DialOk, DialFail, GiveUp
<1>7. CASE ReadTag \/ ReadLen \/ ReadTarget
  <2>1. /\ pc[2] \in {"tag", "len", "target"} /\ UNCHANGED copier
        /\ \E to \in {"len", "drain", "target", "dial", "gone"} : pc' = [pc EXCEPT ![2] = to]
    BY <1>7, ReadTagForms, ReadLenForms, ReadTargetForms DEF GiveUp, GoOn
  <2>2. PICK to \in {"len", "drain", "target", "dial", "gone"} : pc' = [pc EXCEPT ![2] = to]
    BY <2>1
  <2>3. to \in (IF 2 = 1 THEN OpenerAt ELSE AcceptorAt) /\ pc[2] \notin Relaying
    BY <2>1
  <2>4. QED
    BY <2>1, <2>2, <2>3, <1>s, <1>r
<1>8. CASE Drain
  BY <1>8, <1>q DEF Drain
<1>9. ASSUME NEW n \in Relays, CloseA(n) \/ CloseB(n) PROVE Places'
  BY <1>9, <1>s DEF CloseA, CloseB, Relays
<1>10. ASSUME NEW n \in Relays, Leave(n) PROVE Places'
  <2>1. /\ pc' = [pc EXCEPT ![n] = "gone"] /\ UNCHANGED copier
        /\ \A d \in Dirs : copier[<<n, d>>] # "run"
    BY <1>10 DEF Leave, Places
  <2>2. pc'[n] = "gone" /\ \A m \in Relays : m # n => pc'[m] = pc[m]
    BY <2>1 DEF Shapes, Relays
  <2>3. QED
    BY <2>1, <2>2 DEF Places, Relays
<1>11. ASSUME NEW n \in Relays, Notice(n) PROVE Places'
  BY <1>11, <1>q DEF Notice
<1>12. ASSUME NEW n \in Relays, NEW d \in Dirs, CopierStep(n, d) PROVE Places'
  <2>1. \/ UNCHANGED copier
        \/ copier' = [copier EXCEPT ![<<n, d>>] = "done"]
    BY <1>12 DEF CopierStep, CopyRead, CopyEnd, CopyWrite, CopyFail
  <2>2. \A m \in Relays, e \in Dirs : copier'[<<m, e>>] = "run" => copier[<<m, e>>] = "run"
    BY <2>1, PipesAre DEF Shapes
  <2>3. UNCHANGED pc
    BY <1>12 DEF CopierStep, CopyRead, CopyEnd, CopyWrite, CopyFail
  <2>4. QED
    BY <2>2, <2>3, <1>q
<1>13. ASSUME NEW p \in Peers, PeerStep(p[1], p[2]) PROVE Places'
  BY <1>13, <1>q DEF PeerStep, Send, Receive, Hangup
<1>14. ASSUME NEW n, NEW i, Reset(n, i) PROVE Places'
  BY <1>14, <1>q DEF Reset
<1>15. CASE Break
  BY <1>15, <1>q, <1>s, <1>r DEF Break
<1>16. QED
  BY <1>1, <1>2, <1>3, <1>4, <1>5, <1>6, <1>7, <1>8, <1>9, <1>10, <1>11, <1>12, <1>13, <1>14, <1>15
  DEF Next, OpenerStep, AcceptorStep, RelayStep

\* The type of every variable.
Typed == Shapes /\ LinkType /\ HeaderInv /\ Ends /\ Flags /\ Texts /\ Places

LEMMA InitTyped == Init => Typed
<1>0. <<>> \in Seq(0..255)
  OBVIOUS
<1>1. Init => Flags /\ Texts
  BY <1>0 DEF Init, Flags, Texts
<1>2. Init => Places
  BY DEF Init, Places, OpenerAt, AcceptorAt, Copiers
<1>3. QED
  BY <1>1, <1>2, InitShapes, InitHeader, InitEnds DEF Typed, Init, LinkType

LEMMA TypedStep == Typed /\ [Next]_vars => Typed'
BY ShapesStep, LinkStep, HeaderStep, EndsStep, FlagsStep, TextsStep, PlacesStep DEF Typed

LEMMA TypedOK == Typed => TypeOK
<1> SUFFICES ASSUME Typed PROVE TypeOK
  OBVIOUS
<1>1. DOMAIN pc = Relays
  BY DEF Typed, Shapes, Relays
<1>2. ASSUME NEW c \in Copiers, copier[c] = "run" PROVE pc[c[1]] \in {"relay", "closeB", "wait"}
  <2>1. PICK n \in Relays, d \in Dirs : c = <<n, d>>
    BY DEF Copiers
  <2>2. QED
    BY <1>2, <2>1 DEF Typed, Places, Relaying
<1>3. dialed \in Seq(0..255)
  BY DialedType DEF Typed
<1>4. QED
  BY <1>1, <1>2, <1>3
  DEF Typed, TypeOK, Shapes, LinkType, Ends, Flags, Texts, Places, OpenerAt, AcceptorAt

\* The type invariant of the stream and of its two relays.
THEOREM TypeCorrect == Spec => []TypeOK
<1>1. Spec => []Typed
  BY InitTyped, TypedStep, PTL DEF Spec
<1>2. QED
  BY <1>1, TypedOK, PTL

\* The tag tells the acceptor what the opener meant.
LEMMA TagMeans ==
  ASSUME Shapes, HeaderInv, pc[2] = "tag", NEW b, Take(b)
  PROVE  /\ kind = "legacy" => b = Header[1] /\ Route(b) = "legacy"
         /\ kind \in {"reverse", "forward"} => Route(b) = "len"
         /\ kind = "fake" => Route(b) = "drain"
<1>1. pc[2] \in Reading /\ At = First
  BY DEF Reading, At
<1>2. b = Word(First)
  <2>1. First <= Len(Header)
    BY HeaderLength DEF First, Shapes
  <2>2. QED
    BY <1>1, <2>1, TakeByte
<1>3. CASE kind = "legacy"
  <2>1. b = Header[1] /\ b = 0
    BY <1>2, <1>3, HeaderType DEF First, Word, Shapes
  <2>2. Route(b) = "legacy"
    BY <1>3, <2>1 DEF Route, StreamTypeReverse, StreamTypeFake
  <2>3. QED
    BY <1>3, <2>1, <2>2
<1>4. CASE kind # "legacy"
  <2>1. /\ kind = "reverse" => b = 2
        /\ kind = "forward" => b = 1
        /\ kind = "fake" => b = 255
    BY <1>2, <1>4, TagType DEF First, Word
  <2>2. QED
    BY <1>4, <2>1 DEF Route, StreamTypeForward, StreamTypeReverse, StreamTypeFake
<1>5. QED
  BY <1>3, <1>4

\* And the length tells how much of the target is still to come.
LEMMA LengthMeans ==
  ASSUME Shapes, HeaderInv, pc[2] = "target"
  PROVE  /\ kind # "fake" /\ Len(Header) = Len(Target) + 2
         /\ Len(head) \in 2..(Len(Target) + 1)
         /\ TargetLen(head) = Len(Target)
<1>1. /\ kind # "fake" /\ Len(head) \in 2..(Len(Target) + 1)
      /\ \A i \in 1..Len(head) : i <= Len(Header) => head[i] = Header[i]
  BY DEF HeaderInv
<1>2. Len(Header) = Len(Target) + 2 /\ Header[1] = 0 /\ Header[2] = Len(Target)
  BY <1>1, HeaderType DEF Shapes
<1>3. head[1] = 0 /\ head[2] = Len(Target)
  BY <1>1, <1>2, TargetLength
<1>4. TargetLen(head) = Len(Target)
  BY <1>3, TargetLength DEF TargetLen
<1>5. QED
  BY <1>1, <1>2, <1>4

-----------------------------------------------------------------------------
(* Who is where                                                            *)

Early == {"open", "tag", "head"}
Served == {"dial", "relay", "closeB", "wait"}

\* The acceptor never comes to a dial, or did not succeed with it.
NeverDialed ==
  \/ kind = "fake"
  \/ /\ copier[<<2, "up">>] = "off"
     /\ pc[2] = "gone" \/ (pc[2] = "none" /\ pc[1] # "open")

Opening ==
  /\ link = "up" => noticed = {}
  /\ pc[1] \in Early => /\ Mid("up") \notin shut /\ ToReader("down") \notin shut
                        /\ \A d \in Dirs : copier[<<1, d>>] = "off"
  /\ pc[1] \in {"close", "ticker"} => kind = "fake"
  /\ pc[1] \in {"closeB", "wait"} => ToReader("down") \in shut
  /\ link = "up" /\ pc[1] \in Early =>
       pc[2] \in Reading \cup {"drain", "gone"} /\ copier[<<2, "up">>] = "off"
  /\ link = "up" /\ pc[1] = "leave" => NeverDialed
  /\ link = "up" /\ pc[1] = "gone" => NeverDialed \/ ToReader("down") \in shut
  /\ link = "up" /\ pc[2] = "none" => pc[1] \in {"open", "gone"}

Accepting ==
  /\ pc[2] \in Reading \cup {"drain", "dial"} =>
       /\ Mid("up") \notin deaf /\ Mid("down") \notin shut
       /\ copier[<<2, "up">>] = "off"
  /\ copier[<<2, "up">>] = "off" =>
       copier[<<2, "down">>] = "off" /\ ToReader("up") \notin shut /\ sent["down"] = <<>>
  /\ pc[2] = "gone" /\ link = "up" => Mid("up") \in deaf
  /\ pc[2] = "drain" => kind = "fake"
  /\ pc[2] \in Served => ~armed /\ kind # "fake" /\ Len(head) = Len(Header)

Copying ==
  /\ \A n \in Relays : pc[n] = "relay" => \A d \in Dirs : copier[<<n, d>>] # "off"
  /\ \A n \in Relays :
       pc[n] \in {"closeB", "wait"} => \E d \in Dirs : copier[<<n, d>>] = "done"
  /\ \A n \in Relays, d \in Dirs : copier[<<n, d>>] # "run" => hand[<<n, d>>] = <<>>
  /\ kind = "fake" => sent["up"] = <<>> /\ \A n \in Relays, d \in Dirs : copier[<<n, d>>] = "off"

Control == Opening /\ Accepting /\ Copying

LEMMA Each ==
  /\ 1 \in Relays /\ 2 \in Relays /\ "up" \in Dirs /\ "down" \in Dirs
  /\ \A n \in Relays : n = 1 \/ n = 2
  /\ \A d \in Dirs : d = "up" \/ d = "down"
  /\ Mid("up") = Stream
BY DEF Relays, Dirs, Mid, Stream

LEMMA InitControl == Init => Control
<1> SUFFICES ASSUME Init PROVE Control
  OBVIOUS
<1>1. \A n \in Relays, d \in Dirs : copier[<<n, d>>] = "off" /\ hand[<<n, d>>] = <<>>
  BY DEF Init, Copiers
<1>2. copier[<<2, "up">>] = "off" /\ copier[<<2, "down">>] = "off"
  BY <1>1, Each
<1>3. pc[1] = "open" /\ pc[2] = "none" /\ shut = {} /\ deaf = {} /\ noticed = {}
      /\ sent["up"] = <<>> /\ sent["down"] = <<>>
  BY DEF Init, Dirs
<1>4. Opening /\ Accepting
  BY <1>1, <1>2, <1>3, Each DEF Opening, Accepting, Reading, Early, Served
<1>5. Copying
  BY <1>1, <1>3, Each DEF Copying
<1>6. QED
  BY <1>4, <1>5 DEF Control

LEMMA ControlStep ==
  Typed /\ Closings /\ Control /\ [Next]_vars => Control' /\ (NeverDialed => NeverDialed')
<1> SUFFICES ASSUME Typed, Closings, Control, [Next]_vars
             PROVE  Control' /\ (NeverDialed => NeverDialed')
  OBVIOUS
<1> DEFINE Goal == Control' /\ (NeverDialed => NeverDialed')
<1> SUFFICES Goal
  OBVIOUS
<1> USE DEF Goto
<1>t. /\ Shapes /\ (pc[1] = "open" => pc[2] = "none")
      /\ pc[1] \in OpenerAt /\ pc[2] \in AcceptorAt
      /\ copier \in [Copiers -> {"off", "run", "done"}]
      /\ DOMAIN pc = 1..2
  BY DEF Typed, Shapes, HeaderInv, Places
<1>c. Opening /\ Accepting /\ Copying
  BY DEF Control
<1>k. kind' = kind /\ Header' = Header /\ (link' = "up" => link = "up")
  BY Growing, SameWords
<1>y. ASSUME UNCHANGED <<hand, sent, copier>>,
             \A n \in Relays : pc'[n] \in Relaying => pc'[n] = pc[n]
      PROVE  Copying'
  BY <1>c, <1>k, <1>y DEF Copying, Relaying
\* A step that moves neither goroutine and no copier.
<1>q. ASSUME UNCHANGED <<pc, copier, hand, armed, head>>,
             link' = "up" => noticed' = {},
             Mid("up") \in shut' => Mid("up") \in shut,
             Mid("down") \in shut' => Mid("down") \in shut,
             ToReader("up") \in shut' => ToReader("up") \in shut \/ copier[<<2, "up">>] # "off",
             ToReader("down") \in shut' <=> ToReader("down") \in shut,
             Mid("up") \in deaf' <=> Mid("up") \in deaf,
             sent'["up"] = sent["up"] \/ kind # "fake",
             sent'["down"] = sent["down"] \/ copier[<<2, "up">>] # "off"
      PROVE  Goal
  <2>1. NeverDialed' <=> NeverDialed
    BY <1>q, <1>k DEF NeverDialed
  <2>2. Opening'
    BY <1>q, <1>k, <1>c, <2>1 DEF Opening
  <2>3. Accepting'
    BY <1>q, <1>k, <1>c DEF Accepting
  <2>4. Copying'
    BY <1>q, <1>k, <1>c DEF Copying
  <2>5. QED
    BY <2>1, <2>2, <2>3, <2>4 DEF Control
<1>1. CASE UNCHANGED vars
  BY <1>1, <1>q, <1>c DEF vars, Opening
<1>2. CASE OpenStream
  <2>1. /\ pc[1] = "open" /\ pc[2] = "none"
        /\ pc'[1] \in {"head", "tag"} /\ pc'[2] = IF link = "up" THEN "syn" ELSE "none"
        /\ UNCHANGED <<shut, deaf, link, noticed, copier, hand, armed, head, sent>>
    BY <1>2, <1>t DEF OpenStream, pipes, parse, ends
  <2>2. ~NeverDialed \/ kind = "fake"
    BY <2>1 DEF NeverDialed
  <2>3. Opening'
    BY <1>k, <1>c, <2>1 DEF Opening, Early, Reading
  <2>4. Accepting'
    BY <1>k, <1>c, <2>1 DEF Accepting, Reading, Served
  <2>5. Copying'
    BY <1>y, <2>1, Each DEF Relaying
  <2>6. QED
    BY <1>k, <2>2, <2>3, <2>4, <2>5 DEF Control, NeverDialed
<1>3. CASE OpenFail \/ CloseFake \/ FakeLoopEnds
  <2>1. PICK to \in {"gone", "ticker"} :
          /\ pc' = [pc EXCEPT ![1] = to]
          /\ to = "ticker" => pc[1] = "close"
          /\ pc[1] = "open" \/ kind = "fake"
          /\ UNCHANGED <<link, noticed, copier, hand, armed, head, sent>>
    BY <1>3, <1>c DEF OpenFail, CloseFake, FakeLoopEnds, parse, ends, Opening
  <2>2. pc'[1] = to /\ pc'[2] = pc[2]
    BY <1>t, <2>1
  <2>3. /\ Mid("down") \in shut' => Mid("down") \in shut
        /\ ToReader("up") \in shut' => ToReader("up") \in shut
        /\ Mid("up") \in deaf' <=> Mid("up") \in deaf
    BY <1>3, CloseIs, PipesDiffer, Each DEF OpenFail, CloseFake, FakeLoopEnds, pipes
  <2>4. NeverDialed'
    BY <1>t, <1>c, <1>k, <2>1, <2>2 DEF NeverDialed, Accepting, Reading
  <2>5. Opening'
    BY <1>k, <1>c, <2>1, <2>2, <2>4 DEF Opening, Early
  <2>6. Accepting'
    BY <1>k, <1>c, <2>1, <2>2, <2>3 DEF Accepting
  <2>7. Copying'
    BY <1>y, <2>1, <2>2, Each DEF Relaying
  <2>8. QED
    BY <2>4, <2>5, <2>6, <2>7 DEF Control
<1>4. CASE WriteTag
  <2>1. /\ pc[1] = "tag" /\ pc'[1] = "head" /\ pc'[2] = pc[2]
        /\ UNCHANGED <<shut, deaf, link, noticed, copier, hand, armed, head, sent>>
    BY <1>4, <1>t DEF WriteTag, parse, ends
  <2>2. NeverDialed' <=> NeverDialed
    BY <1>k, <2>1 DEF NeverDialed
  <2>3. Opening'
    BY <1>k, <1>c, <2>1, <2>2 DEF Opening, Early
  <2>4. Accepting'
    BY <1>k, <1>c, <2>1 DEF Accepting
  <2>5. Copying'
    BY <1>y, <2>1, Each DEF Relaying
  <2>6. QED
    BY <2>2, <2>3, <2>4, <2>5 DEF Control
<1>5. CASE WriteHeader \/ WriteFail
  <2>1. PICK to \in {"close", "relay", "leave"} :
          /\ pc[1] \in {"tag", "head"} /\ pc' = [pc EXCEPT ![1] = to]
          /\ to = "close" => kind = "fake" /\ UNCHANGED copier
          /\ to = "relay" => kind # "fake" /\ StartCopiers(1)
          /\ to = "leave" => UNCHANGED copier /\ WriteFails(1, Stream)
          /\ UNCHANGED <<shut, deaf>> \/ (to = "leave" /\ Close(1, 2))
          /\ UNCHANGED <<link, noticed, hand, armed, head, sent>>
    BY <1>5, WriteFailForms DEF WriteHeader, parse, ends
  <2>2. pc'[1] = to /\ pc'[2] = pc[2]
    BY <1>t, <2>1
  <2>3. /\ \A d \in Dirs : copier'[<<2, d>>] = copier[<<2, d>>]
        /\ \A d \in Dirs : copier'[<<1, d>>] = IF to = "relay" THEN "run" ELSE copier[<<1, d>>]
    BY <2>1, Started, Each
  <2>4. /\ Mid("down") \in shut' <=> Mid("down") \in shut
        /\ ToReader("up") \in shut' <=> ToReader("up") \in shut
        /\ ToReader("down") \in shut' <=> ToReader("down") \in shut
        /\ Mid("up") \in deaf' <=> Mid("up") \in deaf
    BY <2>1, CloseIs, PipesDiffer, Each
  <2>5. NeverDialed' <=> NeverDialed
    BY <1>k, <2>1, <2>2, <2>3, Each DEF NeverDialed
  <2>6. to = "leave" /\ link = "up" => NeverDialed
    <3>1. to = "leave" /\ link = "up" => Stream \in deaf
      BY <1>c, <2>1, Each DEF WriteFails, Opening, Early, Stream
    <3>2. QED
      BY <1>c, <2>1, <3>1, Each DEF Opening, Accepting, NeverDialed, Early
  <2>7. Opening'
    BY <1>k, <1>c, <2>1, <2>2, <2>3, <2>4, <2>5, <2>6, Each DEF Opening, Early
  <2>8. Accepting'
    BY <1>k, <1>c, <2>1, <2>2, <2>3, <2>4, Each DEF Accepting
  <2>9. Copying'
    <3>1. CASE to # "relay"
      BY <1>y, <2>1, <2>2, <3>1, Each DEF Relaying
    <3>2. CASE to = "relay"
      <4>1. \A n \in Relays : pc'[n] = "relay" => \A d \in Dirs : copier'[<<n, d>>] # "off"
        BY <1>c, <2>2, <2>3, <3>2, Each DEF Copying
      <4>2. \A n \in Relays :
              pc'[n] \in {"closeB", "wait"} => \E d \in Dirs : copier'[<<n, d>>] = "done"
        <5>1. pc'[2] \in {"closeB", "wait"} => \E d \in Dirs : copier[<<2, d>>] = "done"
          BY <1>c, <2>2, Each DEF Copying
        <5>2. QED
          BY <2>2, <2>3, <3>2, <5>1, Each
      <4>3. \A n \in Relays, d \in Dirs : copier'[<<n, d>>] # "run" => hand'[<<n, d>>] = <<>>
        BY <1>c, <2>1, <2>3, <3>2, Each DEF Copying
      <4>4. QED
        BY <1>k, <2>1, <3>2, <4>1, <4>2, <4>3 DEF Copying
    <3>3. QED
      BY <3>1, <3>2
  <2>10. QED
    BY <2>5, <2>7, <2>8, <2>9 DEF Control
<1>6. CASE Accept
  <2>1. /\ pc[2] = "syn" /\ pc'[2] = "tag" /\ pc'[1] = pc[1]
        /\ UNCHANGED <<shut, deaf, link, noticed, copier, hand, head, sent>>
    BY <1>6, <1>t DEF Accept, pipes, ends
  <2>2. NeverDialed' <=> NeverDialed
    BY <1>k, <2>1 DEF NeverDialed
  <2>3. Opening'
    BY <1>k, <1>c, <2>1, <2>2 DEF Opening, Reading
  <2>4. Accepting'
    BY <1>k, <1>c, <2>1 DEF Accepting, Reading, Served
  <2>5. Copying'
    BY <1>y, <2>1, Each DEF Relaying
  <2>6. QED
    BY <2>2, <2>3, <2>4, <2>5 DEF Control
\* The acceptor gives up before the relay.
<1>g. ASSUME pc[2] \in {"syn", "tag", "len", "target", "drain", "dial"},
             pc' = [pc EXCEPT ![2] = "gone"],
             UNCHANGED <<link, noticed, copier, hand, armed, sent>>,
             \/ UNCHANGED <<shut, deaf>> /\ link # "up"
             \/ Close(2, 2)
      PROVE  Goal
  <2>1. pc'[1] = pc[1] /\ pc'[2] = "gone"
    BY <1>t, <1>g
  <2>2. /\ Mid("up") \in shut' <=> Mid("up") \in shut
        /\ ToReader("up") \in shut' <=> ToReader("up") \in shut
        /\ ToReader("down") \in shut' <=> ToReader("down") \in shut
        /\ link = "up" => Mid("up") \in deaf'
    BY <1>g, CloseIs, PipesDiffer, Each
  <2>3. NeverDialed'
    BY <1>c, <1>g, <2>1 DEF NeverDialed, Accepting, Reading
  <2>4. Opening'
    BY <1>k, <1>c, <1>g, <2>1, <2>2, <2>3 DEF Opening
  <2>5. Accepting'
    BY <1>k, <1>c, <1>g, <2>1, <2>2 DEF Accepting, Reading, Served
  <2>6. Copying'
    BY <1>y, <1>g, <2>1, Each DEF Relaying
  <2>7. QED
    BY <2>3, <2>4, <2>5, <2>6 DEF Control
<1>7. CASE AcceptError \/ HeaderFail \/ DrainEnd \/ DialFail
  <2>1. /\ pc[2] \in {"syn", "tag", "len", "target", "drain", "dial"}
        /\ pc' = [pc EXCEPT ![2] = "gone"]
        /\ UNCHANGED <<link, noticed, copier, hand, armed, sent>>
    BY <1>7 DEF AcceptError, HeaderFail, DrainEnd, DialFail, GiveUp, parse, ends
  <2>2. \/ UNCHANGED <<shut, deaf>> /\ link # "up"
        \/ Close(2, 2)
    BY <1>7, <1>c DEF AcceptError, HeaderFail, DrainEnd, DialFail, GiveUp, pipes, Opening
  <2>3. QED
    BY <1>g, <2>1, <2>2
\* The acceptor reads on.
<1>r. ASSUME NEW to \in {"len", "target", "drain", "dial"},
             pc[2] \in {"tag", "len", "target"}, pc' = [pc EXCEPT ![2] = to],
             UNCHANGED <<shut, deaf, link, noticed, copier, hand, sent>>,
             to = "drain" => kind = "fake",
             to = "dial" => pc[2] = "target" /\ armed' = FALSE /\ Len(head') = Len(Header)
      PROVE  Goal
  <2>1. pc'[1] = pc[1] /\ pc'[2] = to
    BY <1>t, <1>r
  <2>2. NeverDialed' <=> NeverDialed
    BY <1>k, <1>r, <2>1 DEF NeverDialed
  <2>3. to = "dial" => ~(link = "up" /\ pc[1] \in Early)
    <3>1. ASSUME to = "dial", link = "up", pc[1] \in Early PROVE FALSE
      <4>1. Clear
        BY <1>c, <1>r, <3>1, Each DEF Clear, Opening, Accepting, Reading
      <4>2. pc[2] = "target" /\ Written /\ Len(head) \in 2..(Len(Target) + 1)
        BY <1>r, <3>1, <4>1 DEF Typed, HeaderInv, Reading
      <4>3. At \in Nat /\ At >= 3 /\ q[Stream] \in Seq(0..255)
        BY <1>t, <4>2, TargetLength, PipesAre DEF At, Shapes, Stream
      <4>4. End >= 3
        BY <4>3 DEF End
      <4>5. QED
        BY <1>t, <3>1, <4>2, <4>4 DEF Written, First, Early
    <3>2. QED
      BY <3>1
  <2>4. Opening'
    BY <1>k, <1>c, <1>r, <2>1, <2>2, <2>3 DEF Opening, Reading
  <2>5. to = "dial" => kind # "fake"
    BY <1>r DEF Typed, HeaderInv
  <2>6. Accepting'
    BY <1>k, <1>c, <1>r, <2>1, <2>5 DEF Accepting, Reading, Served
  <2>7. Copying'
    BY <1>y, <1>r, <2>1, Each DEF Relaying
  <2>8. QED
    BY <2>2, <2>4, <2>6, <2>7 DEF Control
<1>8. CASE ReadTag
  <2>1. PICK b \in 0..255 :
          /\ pc[2] = "tag" /\ Take(b)
          /\ UNCHANGED <<kind, link, noticed, copier, hand, armed, dialed, sent, got>>
          /\ \/ Route(b) = "unknown" /\ GiveUp
             \/ Route(b) \in {"len", "legacy"} /\ GoOn("len")
             \/ Route(b) = "drain" /\ GoOn("drain")
    BY <1>8, ReadTagForms
  <2>2. Route(b) = "drain" => kind = "fake"
    BY <1>t, <2>1, TagMeans, KindsAssumption DEF Typed, Shapes
  <2>3. CASE GiveUp
    BY <1>g, <2>1, <2>3 DEF GiveUp
  <2>4. CASE GoOn("len")
    BY <1>r, <2>1, <2>4 DEF GoOn
  <2>5. CASE Route(b) = "drain" /\ GoOn("drain")
    BY <1>r, <2>1, <2>2, <2>5 DEF GoOn
  <2>6. QED
    BY <2>1, <2>3, <2>4, <2>5
<1>9. CASE ReadLen
  <2>1. /\ pc[2] = "len" /\ UNCHANGED <<link, noticed, copier, hand, armed, sent>>
        /\ GoOn("len") \/ GoOn("target") \/ GiveUp
    BY <1>9, ReadLenForms
  <2>2. CASE GiveUp
    BY <1>g, <2>1, <2>2 DEF GiveUp
  <2>3. CASE GoOn("len")
    BY <1>r, <2>1, <2>3 DEF GoOn
  <2>4. CASE GoOn("target")
    BY <1>r, <2>1, <2>4 DEF GoOn
  <2>5. QED
    BY <2>1, <2>2, <2>3, <2>4
<1>10. CASE ReadTarget
  <2>1. PICK b \in 0..255 :
          /\ pc[2] = "target" /\ Take(b) /\ head' = Append(head, b)
          /\ UNCHANGED <<shut, deaf, link, noticed, copier, hand, sent>>
          /\ \/ pc' = [pc EXCEPT ![2] = "target"]
             \/ /\ ~(Len(head') - 2 < TargetLen(head))
                /\ pc' = [pc EXCEPT ![2] = "dial"] /\ armed' = FALSE
    BY <1>10, ReadTargetForms
  <2>2. /\ Len(Header) = Len(Target) + 2 /\ TargetLen(head) = Len(Target)
        /\ Len(head) \in 2..(Len(Target) + 1)
    BY <1>t, <2>1, LengthMeans DEF Typed
  <2>3. Len(head') = Len(head) + 1
    <3>1. head \in Seq(0..255)
      BY <1>t DEF Shapes
    <3>2. QED
      BY <2>1, <3>1, AppendOf
  <2>4. ~(Len(head') - 2 < TargetLen(head)) => Len(head') = Len(Header)
    BY <2>2, <2>3, TargetLength
  <2>5. CASE pc' = [pc EXCEPT ![2] = "target"]
    BY <1>r, <2>1, <2>5
  <2>6. CASE pc' = [pc EXCEPT ![2] = "dial"] /\ armed' = FALSE /\ Len(head') = Len(Header)
    BY <1>r, <2>1, <2>6
  <2>7. QED
    BY <2>1, <2>4, <2>5, <2>6
<1>11. CASE Drain
  BY <1>11, <1>q, <1>c DEF Drain, parse, ends, Opening
<1>12. CASE DialOk
  <2>1. /\ pc[2] = "dial" /\ pc'[2] = "relay" /\ pc'[1] = pc[1] /\ StartCopiers(2)
        /\ UNCHANGED <<shut, deaf, link, noticed, hand, armed, head, sent>>
    BY <1>12, <1>t DEF DialOk, pipes, parse, ends
  <2>2. /\ \A d \in Dirs : copier'[<<1, d>>] = copier[<<1, d>>]
        /\ \A d \in Dirs : copier'[<<2, d>>] = "run"
    BY <2>1, Started, Each
  <2>3. ~NeverDialed /\ kind # "fake" /\ ~(link = "up" /\ pc[1] \in Early)
    BY <1>c, <2>1 DEF NeverDialed, Accepting, Served, Opening, Reading
  <2>4. Opening'
    BY <1>k, <1>c, <2>1, <2>2, <2>3, Each DEF Opening
  <2>5. Accepting'
    BY <1>k, <1>c, <2>1, <2>2, Each DEF Accepting, Reading, Served
  <2>6. Copying'
    <3>1. \A n \in Relays : pc'[n] = "relay" => \A d \in Dirs : copier'[<<n, d>>] # "off"
      BY <1>c, <2>1, <2>2, Each DEF Copying
    <3>2. \A n \in Relays :
            pc'[n] \in {"closeB", "wait"} => \E d \in Dirs : copier'[<<n, d>>] = "done"
      <4>1. pc'[1] \in {"closeB", "wait"} => \E d \in Dirs : copier[<<1, d>>] = "done"
        BY <1>c, <2>1, Each DEF Copying
      <4>2. QED
        BY <2>1, <2>2, <4>1, Each
    <3>3. \A n \in Relays, d \in Dirs : copier'[<<n, d>>] # "run" => hand'[<<n, d>>] = <<>>
      BY <1>c, <2>1, <2>2, Each DEF Copying
    <3>4. QED
      BY <1>k, <2>3, <3>1, <3>2, <3>3 DEF Copying
  <2>7. QED
    BY <2>3, <2>4, <2>5, <2>6 DEF Control
\* A relay goes on.
<1>13. ASSUME NEW n \in Relays, CloseA(n) \/ CloseB(n) PROVE Goal
  <2>1. PICK to \in {"closeB", "wait"} :
          /\ pc[n] \in {"relay", "closeB"} /\ pc' = [pc EXCEPT ![n] = to]
          /\ \E d \in Dirs : copier[<<n, d>>] = "done"
          /\ to = "closeB" => Close(n, n)
          /\ to = "wait" => pc[n] = "closeB" /\ Close(n, n + 1)
          /\ UNCHANGED <<link, noticed, copier, hand, armed, head, sent>>
    BY <1>13, <1>c DEF CloseA, CloseB, parse, ends, Copying
  <2>2. pc'[n] = to /\ \A m \in Relays : m # n => pc'[m] = pc[m]
    BY <1>t, <2>1 DEF Relays
  <2>3. /\ \A m \in Relays : pc'[m] = "relay" => \A d \in Dirs : copier'[<<m, d>>] # "off"
        /\ \A m \in Relays :
             pc'[m] \in {"closeB", "wait"} => \E d \in Dirs : copier'[<<m, d>>] = "done"
    BY <1>c, <2>1, <2>2 DEF Copying
  <2>4. Copying'
    BY <1>c, <1>k, <2>1, <2>3 DEF Copying
  <2>5. NeverDialed' <=> NeverDialed
    BY <1>k, <2>1, <2>2, Each DEF NeverDialed
  <2>6. CASE n = 1
    <3>1. /\ pc'[1] = to /\ pc'[2] = pc[2]
          /\ Mid("down") \in shut' => Mid("down") \in shut
          /\ ToReader("up") \in shut' => ToReader("up") \in shut
          /\ to = "closeB" => ToReader("down") \in shut'
          /\ ToReader("down") \in shut => ToReader("down") \in shut'
          /\ Mid("up") \in deaf' <=> Mid("up") \in deaf
      BY <2>1, <2>2, <2>6, CloseIs, PipesDiffer, Each
    <3>2. Opening'
      BY <1>k, <1>c, <2>1, <2>5, <2>6, <3>1 DEF Opening, Early
    <3>3. Accepting'
      BY <1>k, <1>c, <2>1, <3>1 DEF Accepting
    <3>4. QED
      BY <2>4, <2>5, <3>2, <3>3 DEF Control
  <2>7. CASE n = 2
    <3>1. /\ pc'[2] = to /\ pc'[1] = pc[1]
          /\ Mid("up") \in shut' <=> Mid("up") \in shut
          /\ ToReader("down") \in shut' <=> ToReader("down") \in shut
      BY <2>1, <2>2, <2>7, CloseIs, PipesDiffer, Each
    <3>2. copier[<<2, "up">>] # "off"
      BY <1>c, <2>1, <2>7, Each DEF Accepting
    <3>3. Opening'
      BY <1>k, <1>c, <2>1, <2>5, <2>7, <3>1, <3>2 DEF Opening, Reading
    <3>4. Accepting'
      BY <1>k, <1>c, <2>1, <2>7, <3>1, <3>2 DEF Accepting, Reading, Served
    <3>5. QED
      BY <2>4, <2>5, <3>3, <3>4 DEF Control
  <2>8. QED
    BY <2>6, <2>7, Each
<1>14. ASSUME NEW n \in Relays, Leave(n) PROVE Goal
  <2>1. /\ pc[n] \in {"wait", "leave"} /\ pc' = [pc EXCEPT ![n] = "gone"]
        /\ Close(n, n)
        /\ UNCHANGED <<link, noticed, copier, hand, armed, head, sent>>
    BY <1>14, Each DEF Leave, parse, ends
  <2>2. pc'[n] = "gone" /\ \A m \in Relays : m # n => pc'[m] = pc[m]
    BY <1>t, <2>1 DEF Relays
  <2>3. Copying'
    BY <1>y, <2>1, <2>2 DEF Relaying
  <2>4. CASE n = 1
    <3>1. /\ pc'[1] = "gone" /\ pc'[2] = pc[2]
          /\ Mid("down") \in shut' => Mid("down") \in shut
          /\ ToReader("up") \in shut' => ToReader("up") \in shut
          /\ ToReader("down") \in shut'
          /\ Mid("up") \in deaf' <=> Mid("up") \in deaf
      BY <2>1, <2>2, <2>4, CloseIs, PipesDiffer, Each
    <3>2. NeverDialed' <=> NeverDialed
      BY <1>k, <2>1, <2>4, <3>1 DEF NeverDialed
    <3>3. Opening'
      BY <1>k, <1>c, <2>1, <3>1 DEF Opening, Early
    <3>4. Accepting'
      BY <1>k, <1>c, <2>1, <3>1 DEF Accepting
    <3>5. QED
      BY <2>3, <3>2, <3>3, <3>4 DEF Control
  <2>5. CASE n = 2
    <3>1. /\ pc'[2] = "gone" /\ pc'[1] = pc[1] /\ pc[2] = "wait"
          /\ Mid("up") \in shut' <=> Mid("up") \in shut
          /\ ToReader("up") \in shut' <=> ToReader("up") \in shut
          /\ ToReader("down") \in shut' <=> ToReader("down") \in shut
          /\ Mid("up") \in deaf'
      BY <1>t, <2>1, <2>2, <2>5, CloseIs, PipesDiffer, Each DEF AcceptorAt
    <3>2. copier[<<2, "up">>] # "off"
      <4>1. \E d \in Dirs : copier[<<2, d>>] = "done"
        BY <1>c, <3>1, Each DEF Copying
      <4>2. QED
        BY <1>c, <4>1, Each DEF Accepting
    <3>3. NeverDialed => NeverDialed'
      BY <1>k, <3>2 DEF NeverDialed
    <3>4. Opening'
      BY <1>k, <1>c, <2>1, <3>1, <3>2, <3>3 DEF Opening, Reading
    <3>5. Accepting'
      BY <1>k, <1>c, <2>1, <3>1, <3>2 DEF Accepting, Reading, Served
    <3>6. QED
      BY <2>3, <3>3, <3>4, <3>5 DEF Control
  <2>6. QED
    BY <2>4, <2>5, Each
<1>15. ASSUME NEW n \in Relays, Notice(n) PROVE Goal
  BY <1>15, <1>q DEF Notice, pipes, parse, ends
<1>16. ASSUME NEW n \in Relays, NEW d \in Dirs, CopierStep(n, d) PROVE Goal
  <2>1. /\ UNCHANGED <<shut, deaf, link, noticed, pc, armed, head, sent>>
        /\ copier[<<n, d>>] = "run"
    BY <1>16 DEF CopierStep, CopyRead, CopyEnd, CopyWrite, CopyFail, Copy, Store, pipes,
                 parse, ends
  <2>2. /\ UNCHANGED copier \/ copier' = [copier EXCEPT ![<<n, d>>] = "done"]
        /\ \/ UNCHANGED hand
           \/ hand' = [hand EXCEPT ![<<n, d>>] = <<>>]
           \/ UNCHANGED copier /\ \E b : hand' = [hand EXCEPT ![<<n, d>>] = b]
    BY <1>16 DEF CopierStep, CopyRead, CopyEnd, CopyWrite, CopyFail
  <2>3. UNCHANGED hand \/ hand'[<<n, d>>] = <<>> \/ copier' = copier
    BY <2>2, PipesAre, <1>t DEF Shapes
  <2>4. \A m \in Relays, e \in Dirs :
          /\ <<m, e>> # <<n, d>> => copier'[<<m, e>>] = copier[<<m, e>>]
                                    /\ hand'[<<m, e>>] = hand[<<m, e>>]
          /\ copier'[<<m, e>>] = copier[<<m, e>>]
               \/ (<<m, e>> = <<n, d>> /\ copier'[<<m, e>>] = "done")
    BY <2>2, PipesAre, <1>t DEF Shapes
  <2>5. \A m \in Relays, e \in Dirs :
          /\ copier'[<<m, e>>] = "off" <=> copier[<<m, e>>] = "off"
          /\ copier[<<m, e>>] = "done" => copier'[<<m, e>>] = "done"
    BY <2>1, <2>4
  <2>6. NeverDialed' <=> NeverDialed
    BY <1>k, <2>1, <2>5, Each DEF NeverDialed
  <2>7. Opening'
    BY <1>k, <1>c, <2>1, <2>5, <2>6, Each DEF Opening
  <2>8. Accepting'
    BY <1>k, <1>c, <2>1, <2>5, Each DEF Accepting
  <2>9. Copying'
    <3>1. \A m \in Relays : pc'[m] = "relay" => \A e \in Dirs : copier'[<<m, e>>] # "off"
      BY <1>c, <2>1, <2>5 DEF Copying
    <3>2. \A m \in Relays :
            pc'[m] \in {"closeB", "wait"} => \E e \in Dirs : copier'[<<m, e>>] = "done"
      BY <1>c, <2>1, <2>5 DEF Copying
    <3>3. \A m \in Relays, e \in Dirs : copier'[<<m, e>>] # "run" => hand'[<<m, e>>] = <<>>
      <4>1. TAKE m \in Relays, e \in Dirs
      <4>2. CASE <<m, e>> = <<n, d>>
        <5>1. copier[<<n, d>>] # "run" => hand[<<n, d>>] = <<>>
          BY <1>c DEF Copying
        <5>2. CASE copier' = copier
          BY <2>1, <4>2, <5>2
        <5>3. CASE copier' # copier
          <6>1. \/ hand' = hand /\ hand[<<n, d>>] = <<>>
                \/ hand' = [hand EXCEPT ![<<n, d>>] = <<>>]
            BY <1>16, <5>3 DEF CopierStep, CopyRead, CopyEnd, CopyWrite, CopyFail, Copy
          <6>2. hand'[<<n, d>>] = <<>>
            BY <1>t, <6>1, PipesAre DEF Shapes
          <6>3. QED
            BY <4>2, <6>2
        <5>4. QED
          BY <5>2, <5>3
      <4>3. CASE <<m, e>> # <<n, d>>
        BY <1>c, <2>4, <4>3 DEF Copying
      <4>4. QED
        BY <4>2, <4>3
    <3>4. kind = "fake" => \A m \in Relays, e \in Dirs : copier'[<<m, e>>] = "off"
      BY <1>c, <2>5 DEF Copying
    <3>5. QED
      BY <1>c, <1>k, <2>1, <3>1, <3>2, <3>3, <3>4 DEF Copying
  <2>10. QED
    BY <2>6, <2>7, <2>8, <2>9 DEF Control
<1>17. ASSUME NEW p \in Peers, PeerStep(p[1], p[2]) PROVE Goal
  <2>1. UNCHANGED <<link, noticed, pc, copier, hand, armed, head>>
    BY <1>17 DEF PeerStep, Send, Receive, Hangup, parse
  <2>2. /\ Mid("up") \in shut' => Mid("up") \in shut
        /\ Mid("down") \in shut' => Mid("down") \in shut
        /\ ToReader("up") \in shut' => ToReader("up") \in shut
        /\ ToReader("down") \in shut' <=> ToReader("down") \in shut
        /\ Mid("up") \in deaf' <=> Mid("up") \in deaf
    BY <1>17 DEF PeerStep, Send, Receive, Hangup, Close, Peers, In, Out, Mid, ToReader
  <2>3. \/ UNCHANGED sent
        \/ Connected(p[1]) /\ \E x : sent' = [sent EXCEPT ![Out(p[1], p[2])[1]] = x]
    BY <1>17 DEF PeerStep, Send, Receive, Hangup, ends
  <2>4. /\ sent'["up"] = sent["up"] \/ kind # "fake"
        /\ sent'["down"] = sent["down"] \/ copier[<<2, "up">>] # "off"
    BY <1>t, <2>3, Each DEF Connected, Peers, Out, Shapes
  <2>5. link' = "up" => noticed' = {}
    BY <1>c, <2>1 DEF Opening
  <2>6. QED
    BY <1>q, <2>1, <2>2, <2>4, <2>5
<1>18. ASSUME NEW n, NEW i, Reset(n, i) PROVE Goal
  BY <1>18, <1>q, <1>c DEF Reset, parse, ends, Opening
<1>19. CASE Break
  <2>1. /\ link' # "up" /\ UNCHANGED <<shut, deaf, noticed, copier, hand, armed, head, sent>>
        /\ pc'[1] = pc[1]
        /\ pc'[2] = pc[2] \/ (pc[2] = "syn" /\ pc'[2] = "none")
    BY <1>19, <1>t DEF Break, parse, ends
  <2>2. NeverDialed => NeverDialed'
    BY <1>k, <2>1 DEF NeverDialed
  <2>3. Opening'
    BY <1>k, <1>c, <2>1 DEF Opening
  <2>4. Accepting'
    BY <1>k, <1>c, <2>1 DEF Accepting, Reading, Served
  <2>5. Copying'
    BY <1>y, <2>1, Each DEF Relaying
  <2>6. QED
    BY <2>2, <2>3, <2>4, <2>5 DEF Control
<1>20. QED
  BY <1>1, <1>2, <1>3, <1>4, <1>5, <1>6, <1>7, <1>8, <1>9, <1>10, <1>11, <1>12, <1>13, <1>14,
     <1>15, <1>16, <1>17, <1>18, <1>19
  DEF Next, OpenerStep, AcceptorStep, RelayStep

-----------------------------------------------------------------------------
(* Which relay has ended, and why                                          *)

\* The relay next to the reader of d has ended: a copier is done, or one of its
\* two connections is closed.
Ended(d) ==
  \/ \E e \in Dirs : copier[<<Near(d), e>>] = "done"
  \/ ToReader(d) \in shut
  \/ Mid(Back(d)) \in shut

Steady == Typed /\ Closings /\ Control

LEMMA InitSteady == Init => Steady
BY InitTyped, InitEnds, InitControl DEF Steady

LEMMA SteadyStep == Steady /\ [Next]_vars => Steady'
BY TypedStep, ClosingsStep, ControlStep DEF Steady

\* A relay on a session that stands ends with one of its copiers.
LEMMA EndedStep ==
  ASSUME Steady, [Next]_vars, link' = "up", ~NeverDialed', NEW d \in Dirs, Ended(d)'
  PROVE  Ended(d) \/ \E e \in Dirs : CopyEnd(Near(d), e) \/ CopyFail(Near(d), e)
<1> DEFINE Goal == Ended(d) \/ \E e \in Dirs : CopyEnd(Near(d), e) \/ CopyFail(Near(d), e)
<1> SUFFICES Goal
  OBVIOUS
<1> USE DEF Goto
<1>c. /\ Opening /\ Accepting /\ Copying /\ Opening' /\ Accepting' /\ ~NeverDialed
      /\ kind # "fake" /\ link = "up" /\ noticed = {}
  BY ControlStep, Growing DEF Steady, Control, NeverDialed, Opening
<1>t. /\ Shapes /\ (pc[1] = "open" => pc[2] = "none")
      /\ copier \in [Copiers -> {"off", "run", "done"}] /\ DOMAIN pc = 1..2
      /\ pc[2] \in AcceptorAt
  BY DEF Steady, Typed, Shapes, HeaderInv, Places
\* A step that closes none of the two, and ends no copier.
<1>q. ASSUME ToReader(d) \in shut' => ToReader(d) \in shut,
             Mid(Back(d)) \in shut' => Mid(Back(d)) \in shut,
             \A n \in Relays, e \in Dirs : copier'[<<n, e>>] = "done" => copier[<<n, e>>] = "done"
      PROVE  Goal
  BY <1>q, PipesDiffer DEF Ended
<1>g. GiveUp /\ UNCHANGED copier => pc[2] \notin Reading \cup {"drain", "dial"}
  BY <1>c, <1>t DEF GiveUp, Accepting, NeverDialed
<1>1. CASE UNCHANGED vars
  BY <1>1, <1>q DEF vars
<1>2. CASE OpenStream \/ WriteTag \/ Accept \/ Drain \/ AcceptError
  BY <1>2, <1>q DEF OpenStream, WriteTag, Accept, Drain, AcceptError, pipes
<1>3. CASE OpenFail \/ CloseFake \/ FakeLoopEnds
  <2>1. pc[1] = "open" /\ pc'[1] = "gone" /\ pc'[2] = "none" /\ UNCHANGED copier
    BY <1>3, <1>c, <1>t DEF OpenFail, CloseFake, FakeLoopEnds, Opening
  <2>2. QED
    BY <1>c, <1>t, <2>1 DEF Accepting, Reading, NeverDialed
<1>4. CASE WriteHeader \/ WriteFail
  <2>1. pc'[1] # "leave"
    BY <1>c DEF Opening
  <2>2. /\ UNCHANGED <<shut, deaf>>
        /\ UNCHANGED copier \/ StartCopiers(1)
    BY <1>4, <1>t, <2>1, WriteFailForms DEF WriteHeader
  <2>3. QED
    BY <1>q, <2>2, Started, Each
<1>5. CASE HeaderFail \/ DrainEnd \/ DialFail
  BY <1>5, <1>g DEF HeaderFail, DrainEnd, DialFail, Reading
<1>6. CASE ReadTag \/ ReadLen \/ ReadTarget
  <2>1. /\ pc[2] \in Reading /\ UNCHANGED copier
        /\ GiveUp \/ UNCHANGED <<shut, deaf>>
    BY <1>6, ReadTagForms, ReadLenForms, ReadTargetForms DEF GoOn, Reading
  <2>2. QED
    BY <1>q, <1>g, <2>1
<1>7. CASE DialOk
  <2>1. UNCHANGED <<shut, deaf>> /\ StartCopiers(2)
    BY <1>7 DEF DialOk, pipes
  <2>2. QED
    BY <1>q, <2>1, Started, Each
<1>8. ASSUME NEW n \in Relays, RelayStep(n) PROVE Goal
  <2>1. pc[n] # "leave"
    BY <1>c, <1>t, Each DEF Opening, AcceptorAt
  <2>2. /\ \E e \in Dirs : copier[<<n, e>>] = "done"
        /\ Close(n, n) \/ Close(n, n + 1)
        /\ UNCHANGED copier
    BY <1>8, <1>c, <2>1, Each DEF RelayStep, CloseA, CloseB, Leave, Copying
  <2>3. CASE n = Near(d)
    BY <2>2, <2>3 DEF Ended
  <2>4. CASE n # Near(d)
    <3>1. /\ ToReader(d) \in shut' => ToReader(d) \in shut
          /\ Mid(Back(d)) \in shut' => Mid(Back(d)) \in shut
      BY <2>2, <2>4, CloseIs, PipesDiffer, Each DEF Near, Back
    <3>2. QED
      BY <1>q, <2>2, <3>1
  <2>5. QED
    BY <2>3, <2>4
<1>9. ASSUME NEW n \in Relays, Notice(n) PROVE Goal
  BY <1>9, <1>q DEF Notice, pipes
<1>10. ASSUME NEW n \in Relays, NEW e \in Dirs, CopyRead(n, e) \/ CopyWrite(n, e) PROVE Goal
  BY <1>10, <1>q DEF CopyRead, CopyWrite
<1>11. ASSUME NEW n \in Relays, NEW e \in Dirs, CopyEnd(n, e) \/ CopyFail(n, e) PROVE Goal
  <2>1. CASE n = Near(d)
    BY <1>11, <2>1
  <2>2. CASE n # Near(d)
    <3>1. UNCHANGED <<shut, deaf>> /\ copier' = [copier EXCEPT ![<<n, e>>] = "done"]
      BY <1>11 DEF CopyEnd, CopyFail, pipes
    <3>2. \A f \in Dirs : copier'[<<Near(d), f>>] = copier[<<Near(d), f>>]
      BY <1>t, <2>2, <3>1, PipesAre, PipesDiffer
    <3>3. Ended(d)
      BY <3>1, <3>2 DEF Ended
    <3>4. QED
      BY <3>3
  <2>3. QED
    BY <2>1, <2>2
<1>12. ASSUME NEW p \in Peers, PeerStep(p[1], p[2]) PROVE Goal
  <2>1. /\ ToReader(d) \in shut' => ToReader(d) \in shut
        /\ Mid(Back(d)) \in shut' => Mid(Back(d)) \in shut
        /\ UNCHANGED copier
    BY <1>12, PipesDiffer
    DEF PeerStep, Send, Receive, Hangup, Close, Peers, In, Out, Mid, ToReader, Dirs
  <2>2. QED
    BY <1>q, <2>1
<1>13. ASSUME NEW n, NEW i, Reset(n, i) PROVE Goal
  BY <1>13, <1>q DEF Reset
<1>14. CASE Break
  BY <1>14, <1>q DEF Break
<1>15. QED
  BY <1>1, <1>2, <1>3, <1>4, <1>5, <1>6, <1>7, <1>8, <1>9, <1>10, <1>11, <1>12, <1>13, <1>14
  DEF Next, OpenerStep, AcceptorStep, CopierStep

LEMMA CopierPipes ==
  \A d \in Dirs :
    /\ Source(Near(d), d) = Mid(d) /\ Sink(Near(d), d) = ToReader(d)
    /\ Source(Far(d), d) = FromWriter(d) /\ Sink(Far(d), d) = Mid(d)
BY DEF Dirs, Near, Far, Source, Sink, Mid, ToReader, FromWriter

\* What a copier that reads the end has seen, on a session that stands.
LEMMA CopyEndMeans ==
  ASSUME Steady, link = "up", NEW d \in Dirs
  PROVE  /\ CopyEnd(Near(d), d) =>
              /\ hand[<<Near(d), d>>] = <<>>
              /\ Ended(d) \/ (Mid(d) \in shut /\ Ended(Back(d)) /\ q[Mid(d)] = <<>>)
         /\ CopyEnd(Far(d), d) =>
              /\ hand[<<Far(d), d>>] = <<>>
              /\ Ended(Back(d)) \/ (FromWriter(d) \in shut /\ q[FromWriter(d)] = <<>>)
<1>1. noticed = {}
  BY DEF Steady, Control, Opening
<1>2. ASSUME NEW n \in Relays, NEW e \in Dirs, copier[<<n, e>>] = "run" PROVE n = 2 => ~armed
  BY <1>2 DEF Steady, Typed, Places, Control, Accepting, Relaying, Served
<1>3. ASSUME NEW n \in Relays, NEW e \in Dirs, CopyEnd(n, e)
      PROVE  /\ hand[<<n, e>>] = <<>>
             /\ \/ Source(n, e) \in deaf
                \/ Source(n, e) \in shut /\ q[Source(n, e)] = <<>>
  BY <1>1, <1>2, <1>3 DEF CopyEnd, Copy, ReadEnds, TimedOut
<1>4. Mid(d) \in shut => Ended(Back(d))
  BY PipesDiffer DEF Ended
<1>5. /\ Mid(d) \in deaf => Ended(d)
      /\ FromWriter(d) \in deaf => Ended(Back(d))
  BY PipesDiffer DEF Steady, Closings, Ended
<1>6. QED
  BY <1>3, <1>4, <1>5, CopierPipes, PipesDiffer

\* And one that cannot write.
LEMMA CopyFailMeans ==
  ASSUME Steady, link = "up", NEW d \in Dirs
  PROVE  /\ CopyFail(Near(d), d) => Ended(d) \/ ToReader(d) \in deaf
         /\ CopyFail(Far(d), d) => Ended(d) \/ Ended(Back(d))
<1>1. noticed = {}
  BY DEF Steady, Control, Opening
<1>2. ASSUME NEW n \in Relays, NEW e \in Dirs, CopyFail(n, e)
      PROVE  Sink(n, e) \in shut \/ Sink(n, e) \in deaf
  BY <1>1, <1>2 DEF CopyFail, WriteFails
<1>3. Mid(d) \in shut => Ended(Back(d))
  BY PipesDiffer DEF Ended
<1>4. Mid(d) \in deaf => Ended(d)
  BY PipesDiffer DEF Steady, Closings, Ended
<1>5. ToReader(d) \in shut => Ended(d)
  BY DEF Ended
<1>6. QED
  BY <1>2, <1>3, <1>4, <1>5, CopierPipes, PipesDiffer

-----------------------------------------------------------------------------
(* A connection that both ends keep open stays open                        *)

PeersOpen == \A d \in Dirs : FromWriter(d) \notin shut /\ ToReader(d) \notin deaf

Lasting == link = "up" /\ ~NeverDialed /\ PeersOpen => \A d \in Dirs : ~Ended(d)

LEMMA InitLasting == Init => Lasting
<1> SUFFICES ASSUME Init, NEW d \in Dirs PROVE ~Ended(d)
  BY DEF Lasting
<1>1. \A n \in Relays, e \in Dirs : copier[<<n, e>>] = "off"
  BY DEF Init, Copiers
<1>2. QED
  BY <1>1, PipesDiffer DEF Init, Ended

LEMMA LastingStep == Steady /\ Lasting /\ [Next]_vars => Lasting'
<1> SUFFICES ASSUME Steady, Lasting, [Next]_vars, link' = "up", ~NeverDialed', PeersOpen',
                    NEW d \in Dirs, Ended(d)'
             PROVE  FALSE
  BY DEF Lasting
<1>1. link = "up" /\ ~NeverDialed
  BY Growing, ControlStep DEF Steady
<1>2. PeersOpen
  BY ClosesStep, ClosesGrow DEF PeersOpen
<1>3. \A e \in Dirs : ~Ended(e)
  BY <1>1, <1>2 DEF Lasting
<1>4. PICK e \in Dirs : CopyEnd(Near(d), e) \/ CopyFail(Near(d), e)
  BY <1>1, <1>3, EndedStep
<1>5. Near(d) = Near(e) \/ Near(d) = Far(e)
  BY DEF Dirs, Near, Far
<1>6. Back(e) \in Dirs
  BY PipesDiffer
<1>7. FromWriter(e) \notin shut /\ ToReader(e) \notin deaf
  BY <1>2 DEF PeersOpen
<1>8. QED
  BY <1>1, <1>3, <1>4, <1>5, <1>6, <1>7, CopyEndMeans, CopyFailMeans

\* A connection that user and target keep open is not cut by the tunnel, however
\* long it is silent: the deadline of the header is gone when the relay begins.
THEOREM StaysOpenAlways == Spec => []StaysOpen
<1>1. Init => Steady /\ Lasting
  BY InitSteady, InitLasting
<1>2. Steady /\ Lasting /\ [Next]_vars => (Steady /\ Lasting)'
  BY SteadyStep, LastingStep
<1>3. Steady /\ Lasting => StaysOpen
  <2> SUFFICES ASSUME Steady, Lasting, link = "up", pc[2] = "relay",
                      \A p \in Peers : Out(p[1], p[2]) \notin shut /\ In(p[1], p[2]) \notin deaf
               PROVE  pc[1] = "relay" /\ \A c \in Copiers : copier[c] = "run"
    BY DEF StaysOpen
  <2>1. PeersOpen
    <3>1. <<0, 1>> \in Peers /\ <<3, 3>> \in Peers
      BY DEF Peers
    <3>2. /\ Out(0, 1) \notin shut /\ In(0, 1) \notin deaf
          /\ Out(3, 3) \notin shut /\ In(3, 3) \notin deaf
      BY <3>1
    <3>3. QED
      BY <3>2 DEF PeersOpen, Dirs, In, Out, FromWriter, ToReader
  <2>2. Opening /\ Accepting /\ Copying /\ pc[1] \in OpenerAt /\ copier \in [Copiers -> {"off", "run", "done"}]
    BY DEF Steady, Typed, Control, Places, Shapes
  <2>3. \A d \in Dirs : copier[<<2, d>>] # "off"
    BY <2>2, Each DEF Copying
  <2>4. kind # "fake" /\ ~NeverDialed
    BY <2>2, <2>3, Each DEF NeverDialed, Copying
  <2>5. \A d \in Dirs : ~Ended(d)
    BY <2>1, <2>4 DEF Lasting
  <2>6. \A n \in Relays, d \in Dirs : copier[<<n, d>>] # "done"
    BY <2>5, Each DEF Ended, Near
  <2>7. pc[1] = "relay"
    <3>1. pc[1] \notin Early
      BY <2>2 DEF Opening, Reading
    <3>2. ToReader("down") \notin shut
      BY <2>5, Each DEF Ended
    <3>3. QED
      BY <2>2, <2>4, <3>1, <3>2 DEF Opening, Early, OpenerAt
  <2>8. \A n \in Relays, d \in Dirs : copier[<<n, d>>] # "off"
    <3>1. \A d \in Dirs : copier[<<1, d>>] # "off"
      BY <2>2, <2>7, Each, Zenon DEF Copying
    <3>2. QED
      BY <2>3, <3>1, Each, Zenon
  <2>9. QED
    BY <2>2, <2>6, <2>7, <2>8 DEF Copiers
<1>4. QED
  BY <1>1, <1>2, <1>3, PTL DEF Spec

-----------------------------------------------------------------------------
(* What a direction carries, from its reader to its writer                 *)

\* s without its first k elements.
Behind(s, k) == IF Len(s) <= k THEN <<>> ELSE SubSeq(s, k + 1, Len(s))

LEMMA SubSeqOf ==
  ASSUME NEW S, NEW s \in Seq(S), NEW k \in Nat, k < Len(s)
  PROVE  /\ SubSeq(s, k + 1, Len(s)) \in Seq(S)
         /\ Len(SubSeq(s, k + 1, Len(s))) = Len(s) - k
         /\ \A i \in 1..(Len(s) - k) : SubSeq(s, k + 1, Len(s))[i] = s[k + i]
OBVIOUS

LEMMA BehindOf ==
  ASSUME NEW S, NEW s \in Seq(S), NEW k \in Nat
  PROVE  /\ Behind(s, k) \in Seq(S)
         /\ Len(Behind(s, k)) \in Nat
         /\ Len(s) <= k => Len(Behind(s, k)) = 0 /\ Behind(s, k) = <<>>
         /\ k <= Len(s) => Len(Behind(s, k)) = Len(s) - k
         /\ \A i \in 1..Len(Behind(s, k)) : k + i \in 1..Len(s) /\ Behind(s, k)[i] = s[k + i]
<1>0. Len(s) \in Nat
  OBVIOUS
<1>1. CASE Len(s) <= k
  <2>1. Behind(s, k) = <<>>
    BY <1>1 DEF Behind
  <2>2. <<>> \in Seq(S) /\ Len(<<>>) = 0
    OBVIOUS
  <2>3. \A i \in 1..0 : FALSE
    OBVIOUS
  <2>4. k <= Len(s) => 0 = Len(s) - k
    BY <1>0, <1>1
  <2>5. QED
    BY <2>1, <2>2, <2>3, <2>4
<1>2. CASE k < Len(s)
  <2>1. Behind(s, k) = SubSeq(s, k + 1, Len(s))
    BY <1>0, <1>2 DEF Behind
  <2>2. /\ Behind(s, k) \in Seq(S) /\ Len(Behind(s, k)) = Len(s) - k
        /\ \A i \in 1..(Len(s) - k) : Behind(s, k)[i] = s[k + i]
    BY <1>2, <2>1, SubSeqOf
  <2>3. \A i \in 1..(Len(s) - k) : k + i \in 1..Len(s)
    BY <1>0
  <2>4. QED
    BY <1>0, <1>2, <2>2, <2>3
<1>3. QED
  BY <1>0, <1>1, <1>2

LEMMA SameSeq ==
  ASSUME NEW S, NEW s \in Seq(S), NEW t \in Seq(S), Len(s) = Len(t),
         \A i \in 1..Len(s) : s[i] = t[i]
  PROVE  s = t
OBVIOUS

LEMMA BehindNone == ASSUME NEW S, NEW s \in Seq(S) PROVE Behind(s, 0) = s
<1>1. Behind(s, 0) \in Seq(S) /\ Len(Behind(s, 0)) = Len(s) /\ Len(s) \in Nat
  BY BehindOf
<1>2. \A i \in 1..Len(Behind(s, 0)) : Behind(s, 0)[i] = s[0 + i]
  BY BehindOf
<1>3. \A i \in 1..Len(Behind(s, 0)) : Behind(s, 0)[i] = s[i]
  BY <1>1, <1>2
<1>4. QED
  BY <1>1, <1>3, SameSeq

LEMMA BehindTail ==
  ASSUME NEW S, NEW s \in Seq(S), s # <<>>, NEW k \in Nat
  PROVE  Behind(Tail(s), k) = Behind(s, k + 1)
<1>1. PICK r \in Seq(S) : r = Tail(s)
  BY TailOf
<1>2. PICK j \in Nat : j = k + 1
  OBVIOUS
<1>3. /\ Len(s) \in Nat /\ Len(r) = Len(s) - 1 /\ Len(s) >= 1
      /\ \A i \in 1..Len(r) : r[i] = s[i + 1]
  BY <1>1, TailOf
<1>4. /\ Behind(r, k) \in Seq(S) /\ Len(Behind(r, k)) \in Nat
      /\ Len(r) <= k => Len(Behind(r, k)) = 0
      /\ k <= Len(r) => Len(Behind(r, k)) = Len(r) - k
      /\ \A i \in 1..Len(Behind(r, k)) : k + i \in 1..Len(r) /\ Behind(r, k)[i] = r[k + i]
  BY BehindOf
<1>5. /\ Behind(s, j) \in Seq(S) /\ Len(Behind(s, j)) \in Nat
      /\ Len(s) <= j => Len(Behind(s, j)) = 0
      /\ j <= Len(s) => Len(Behind(s, j)) = Len(s) - j
      /\ \A i \in 1..Len(Behind(s, j)) : j + i \in 1..Len(s) /\ Behind(s, j)[i] = s[j + i]
  BY BehindOf
<1>6. PICK t \in Seq(S), u \in Seq(S) : t = Behind(r, k) /\ u = Behind(s, j)
  BY <1>4, <1>5
<1>7. Len(t) = Len(u)
  BY <1>2, <1>3, <1>4, <1>5, <1>6
<1>8. ASSUME NEW i \in 1..Len(t) PROVE t[i] = u[i]
  <2>1. k + i \in 1..Len(r) /\ t[i] = r[k + i]
    BY <1>4, <1>6
  <2>2. u[i] = s[j + i]
    BY <1>5, <1>6, <1>7
  <2>3. r[k + i] = s[(k + i) + 1]
    BY <1>3, <2>1
  <2>4. (k + i) + 1 = j + i
    BY <1>2
  <2>5. QED
    BY <2>1, <2>2, <2>3, <2>4
<1>9. t = u
  BY <1>7, <1>8, SameSeq
<1>10. QED
  BY <1>1, <1>2, <1>6, <1>9

LEMMA ConcatOf ==
  ASSUME NEW S, NEW s \in Seq(S), NEW t \in Seq(S)
  PROVE  /\ s \o t \in Seq(S) /\ Len(s) \in Nat /\ Len(t) \in Nat
         /\ Len(s \o t) = Len(s) + Len(t)
         /\ \A i \in 1..Len(s) : (s \o t)[i] = s[i]
         /\ \A i \in 1..Len(t) : (s \o t)[Len(s) + i] = t[i]
OBVIOUS

LEMMA BehindConcat ==
  ASSUME NEW S, NEW s \in Seq(S), NEW t \in Seq(S), NEW k \in Nat, k <= Len(s)
  PROVE  Behind(s \o t, k) = Behind(s, k) \o t
<1>1. PICK r \in Seq(S), u \in Seq(S) : r = s \o t /\ u = Behind(s, k)
  BY ConcatOf, BehindOf
<1>2. /\ Len(s) \in Nat /\ Len(t) \in Nat /\ Len(r) = Len(s) + Len(t)
      /\ \A i \in 1..Len(s) : r[i] = s[i]
      /\ \A i \in 1..Len(t) : r[Len(s) + i] = t[i]
  BY <1>1, ConcatOf
<1>3. /\ Len(u) = Len(s) - k
      /\ \A i \in 1..Len(u) : k + i \in 1..Len(s) /\ u[i] = s[k + i]
  BY <1>1, BehindOf
<1>4. k <= Len(r)
  BY <1>2
<1>5. /\ Behind(r, k) \in Seq(S) /\ Len(Behind(r, k)) = Len(r) - k
      /\ \A i \in 1..Len(Behind(r, k)) : Behind(r, k)[i] = r[k + i]
  BY <1>4, BehindOf
<1>6. PICK v \in Seq(S), w \in Seq(S) : v = Behind(r, k) /\ w = u \o t
  BY <1>5, ConcatOf
<1>7. /\ Len(w) = Len(u) + Len(t) /\ Len(u) \in Nat
      /\ \A i \in 1..Len(u) : w[i] = u[i]
      /\ \A i \in 1..Len(t) : w[Len(u) + i] = t[i]
  BY <1>6, ConcatOf
<1>8. Len(v) = Len(w)
  BY <1>2, <1>3, <1>5, <1>6, <1>7
<1>9. ASSUME NEW i \in 1..Len(v) PROVE v[i] = w[i]
  <2>0. v[i] = r[k + i] /\ Len(w) = Len(u) + Len(t) /\ i \in 1..Len(w)
    BY <1>5, <1>6, <1>7, <1>8
  <2>1. CASE i <= Len(u)
    <3>1. i \in 1..Len(u)
      BY <1>7, <2>1
    <3>2. QED
      BY <1>2, <1>3, <1>7, <2>0, <3>1
  <2>2. CASE i > Len(u)
    <3>1. PICK j \in 1..Len(t) : i = Len(u) + j
      <4>1. i - Len(u) \in 1..Len(t) /\ i = Len(u) + (i - Len(u))
        BY <1>2, <1>7, <2>0, <2>2
      <4>2. QED
        BY <4>1
    <3>2. k + i = Len(s) + j
      BY <1>2, <1>3, <3>1
    <3>3. QED
      BY <1>2, <1>7, <2>0, <3>1, <3>2
  <2>3. QED
    BY <1>7, <2>0, <2>1, <2>2
<1>10. v = w
  BY <1>8, <1>9, SameSeq
<1>11. QED
  BY <1>1, <1>6, <1>10

-----------------------------------------------------------------------------
(* The ways a direction moves                                              *)

\* The payload of a direction, wherever it is.  On the stream the rest of the
\* header comes first, and what comes after the acceptor is gone nobody reads.
Skip(d) == IF d = "up" /\ At <= Len(Header) THEN Len(Header) + 1 - At ELSE 0

AtReader(d) == q[ToReader(d)]
InNear(d) == hand[<<Near(d), d>>]
InMid(d) ==
  IF d = "up" /\ (kind = "fake" \/ pc[2] = "gone") THEN <<>> ELSE Behind(q[Mid(d)], Skip(d))
InFar(d) == hand[<<Far(d), d>>]
AtWriter(d) == q[FromWriter(d)]

\* How far what the writer sends can still come.
Live1(d) == ToReader(d) \notin deaf
Live2(d) == Live1(d) /\ ToReader(d) \notin shut /\ copier[<<Near(d), d>>] # "done"
Live3(d) == Live2(d) /\ Mid(d) \notin deaf /\ ~(d = "up" /\ pc[2] = "gone")
Live4(d) == Live3(d) /\ Mid(d) \notin shut /\ link = "up" /\ copier[<<Far(d), d>>] # "done"
Live5(d) == Live4(d) /\ FromWriter(d) \notin deaf

\* s is what t begins with.
Part(s, t) == Len(s) <= Len(t) /\ \A i \in 1..Len(s) : s[i] = t[i]

LEMMA PartOf ==
  ASSUME NEW S, NEW s \in Seq(S)
  PROVE  Part(s, s) /\ Part(<<>>, s)
<1>1. Len(s) \in Nat /\ Len(<<>>) = 0 /\ \A i \in 1..0 : FALSE
  OBVIOUS
<1>2. QED
  BY <1>1 DEF Part

\* What arrived at a closed end is thrown away.
Cleared(p) == p \in deaf /\ q[p] # <<>> /\ q'[p] = <<>>

\* Why something is lost.
Reasons(d) ==
  /\ AtReader(d)' # AtReader(d) => Cleared(ToReader(d)) \/ Cleared(FromWriter(Back(d)))
  /\ InNear(d)' # InNear(d) => CopyFail(Near(d), d)
  /\ InMid(d)' # InMid(d) =>
       Mid(d) \in deaf \/ link' = "dead" \/ (d = "up" /\ pc'[2] = "gone")
  /\ InFar(d)' # InFar(d) =>
       CopyFail(Far(d), d) \/ link' = "dead" \/ (d = "up" /\ pc'[2] = "gone")
  /\ AtWriter(d)' # AtWriter(d) => Cleared(FromWriter(d)) \/ Cleared(ToReader(Back(d)))

\* The ways one direction moves: something is lost, and then what is behind it is
\* lost too or cannot arrive any more; or one piece moves on.
Loses(d) ==
  /\ Reasons(d)
  /\ got'[d] = got[d] /\ sent'[d] = sent[d]
  /\ Part(AtReader(d)', AtReader(d)) /\ (Live2(d)' => AtReader(d)' = AtReader(d))
  /\ InNear(d)' = InNear(d) \/ (InNear(d)' = <<>> /\ ~Live2(d)')
  /\ Part(InMid(d)', InMid(d)) /\ (Live4(d)' => InMid(d)' = InMid(d))
  /\ InFar(d)' = InFar(d) \/ (InFar(d)' = <<>> /\ ~Live4(d)')
  /\ Part(AtWriter(d)', AtWriter(d))
  /\ Live5(d)' /\ FromWriter(d) \notin shut' => AtWriter(d)' = AtWriter(d)

Receives(d) ==
  /\ ToReader(d) \notin deaf
  /\ AtReader(d) # <<>> /\ AtReader(d)' = Tail(AtReader(d))
  /\ got'[d] = Append(got[d], AtReader(d)[1])
  /\ sent'[d] = sent[d] /\ InNear(d)' = InNear(d) /\ InMid(d)' = InMid(d)
  /\ InFar(d)' = InFar(d) /\ AtWriter(d)' = AtWriter(d)

WritesOut(d) ==
  /\ ToReader(d) \notin shut /\ copier[<<Near(d), d>>] # "done"
  /\ AtReader(d)' = AtReader(d) \o InNear(d) /\ InNear(d)' = <<>>
  /\ got'[d] = got[d] /\ sent'[d] = sent[d] /\ InMid(d)' = InMid(d)
  /\ InFar(d)' = InFar(d) /\ AtWriter(d)' = AtWriter(d)

ReadsMid(d) ==
  /\ Mid(d) \notin deaf /\ ~(d = "up" /\ pc[2] = "gone")
  /\ InNear(d) = <<>> /\ InMid(d) # <<>>
  /\ InNear(d)' = <<InMid(d)[1]>> /\ InMid(d)' = Tail(InMid(d))
  /\ got'[d] = got[d] /\ sent'[d] = sent[d] /\ AtReader(d)' = AtReader(d)
  /\ InFar(d)' = InFar(d) /\ AtWriter(d)' = AtWriter(d)

WritesMid(d) ==
  /\ Mid(d) \notin shut /\ link = "up" /\ copier[<<Far(d), d>>] # "done"
  /\ InMid(d)' = InMid(d) \o InFar(d) /\ InFar(d)' = <<>>
  /\ got'[d] = got[d] /\ sent'[d] = sent[d] /\ AtReader(d)' = AtReader(d)
  /\ InNear(d)' = InNear(d) /\ AtWriter(d)' = AtWriter(d)

ReadsIn(d) ==
  /\ FromWriter(d) \notin deaf
  /\ InFar(d) = <<>> /\ AtWriter(d) # <<>>
  /\ InFar(d)' = <<AtWriter(d)[1]>> /\ AtWriter(d)' = Tail(AtWriter(d))
  /\ got'[d] = got[d] /\ sent'[d] = sent[d] /\ AtReader(d)' = AtReader(d)
  /\ InNear(d)' = InNear(d) /\ InMid(d)' = InMid(d)

Sends(d) ==
  /\ FromWriter(d) \notin shut
  /\ \E x \in 0..255 :
       AtWriter(d)' = Append(AtWriter(d), x) /\ sent'[d] = Append(sent[d], x)
  /\ got'[d] = got[d] /\ AtReader(d)' = AtReader(d)
  /\ InNear(d)' = InNear(d) /\ InMid(d)' = InMid(d) /\ InFar(d)' = InFar(d)

Moves(d) ==
  Loses(d) \/ Receives(d) \/ WritesOut(d) \/ ReadsMid(d) \/ WritesMid(d) \/ ReadsIn(d) \/ Sends(d)

LEMMA SkipType ==
  ASSUME Shapes, NEW d \in Dirs
  PROVE  /\ Skip(d) \in Nat /\ At \in Nat /\ Len(Header) \in Nat
         /\ d = "up" /\ At <= Len(Header) => Skip(d) = Len(Header) + 1 - At
         /\ d # "up" \/ At > Len(Header) => Skip(d) = 0
<1>1. At \in Nat /\ Len(Header) \in Nat
  BY HeaderLength DEF At, First, Shapes
<1>2. QED
  BY <1>1 DEF Skip

LEMMA CarriedType ==
  ASSUME Shapes, NEW d \in Dirs
  PROVE  /\ AtReader(d) \in Seq(0..255) /\ InNear(d) \in Seq(0..255) /\ InMid(d) \in Seq(0..255)
         /\ InFar(d) \in Seq(0..255) /\ AtWriter(d) \in Seq(0..255) /\ q[Mid(d)] \in Seq(0..255)
<1>1. /\ AtReader(d) \in Seq(0..255) /\ q[Mid(d)] \in Seq(0..255) /\ AtWriter(d) \in Seq(0..255)
  BY PipesDiffer DEF Shapes, AtReader, AtWriter
<1>2. InNear(d) \in Seq(0..255) /\ InFar(d) \in Seq(0..255)
  BY PipesAre, PipesDiffer DEF Shapes, InNear, InFar
<1>3. InMid(d) \in Seq(0..255)
  <2>1. Behind(q[Mid(d)], Skip(d)) \in Seq(0..255)
    BY <1>1, SkipType, BehindOf
  <2>2. <<>> \in Seq(0..255)
    OBVIOUS
  <2>3. QED
    BY <2>1, <2>2 DEF InMid
<1>4. QED
  BY <1>1, <1>2, <1>3

\* What is done stays done.
LEMMA DoneStays ==
  ASSUME Steady, [Next]_vars, NEW n \in Relays, NEW d \in Dirs, copier[<<n, d>>] = "done"
  PROVE  copier'[<<n, d>>] = "done"
<1>t. /\ Opening /\ Accepting /\ copier \in [Copiers -> {"off", "run", "done"}]
      /\ <<n, d>> \in Copiers
  BY PipesAre DEF Steady, Control, Typed, Shapes
<1>1. CASE UNCHANGED vars
  BY <1>1 DEF vars
<1>2. CASE OpenStream \/ OpenFail \/ WriteTag \/ CloseFake \/ FakeLoopEnds
  BY <1>2 DEF OpenStream, OpenFail, WriteTag, CloseFake, FakeLoopEnds
<1>3. CASE WriteHeader \/ WriteFail
  <2>1. pc[1] \in Early /\ (UNCHANGED copier \/ StartCopiers(1))
    BY <1>3, WriteFailForms DEF WriteHeader, Early
  <2>2. n = 2
    BY <1>t, <2>1, Each DEF Opening
  <2>3. QED
    BY <2>1, <2>2, Started, Each
<1>4. CASE DialOk
  <2>1. pc[2] = "dial" /\ StartCopiers(2)
    BY <1>4 DEF DialOk
  <2>2. n = 1
    BY <1>t, <2>1, Each DEF Accepting
  <2>3. QED
    BY <2>1, <2>2, Started, Each
<1>5. CASE Accept \/ AcceptError \/ ReadTag \/ ReadLen \/ ReadTarget \/ HeaderFail
           \/ Drain \/ DrainEnd \/ DialFail
  BY <1>5, ReadTagForms, ReadLenForms, ReadTargetForms
  DEF Accept, AcceptError, HeaderFail, Drain, DrainEnd, DialFail
<1>6. ASSUME NEW m \in Relays, RelayStep(m) \/ Notice(m) PROVE copier'[<<n, d>>] = "done"
  BY <1>6 DEF RelayStep, CloseA, CloseB, Leave, Notice
<1>7. ASSUME NEW m \in Relays, NEW e \in Dirs, CopierStep(m, e) PROVE copier'[<<n, d>>] = "done"
  BY <1>7, <1>t DEF CopierStep, CopyRead, CopyEnd, CopyWrite, CopyFail
<1>8. ASSUME NEW p \in Peers, PeerStep(p[1], p[2]) PROVE copier'[<<n, d>>] = "done"
  BY <1>8 DEF PeerStep, Send, Receive, Hangup
<1>9. ASSUME NEW m, NEW i, Reset(m, i) PROVE copier'[<<n, d>>] = "done"
  BY <1>9 DEF Reset
<1>10. CASE Break
  BY <1>10 DEF Break
<1>11. QED
  BY <1>1, <1>2, <1>3, <1>4, <1>5, <1>6, <1>7, <1>8, <1>9, <1>10
  DEF Next, OpenerStep, AcceptorStep

LEMMA GoneStays == Steady /\ [Next]_vars /\ pc[2] = "gone" => pc'[2] = "gone"
<1> SUFFICES ASSUME Steady, [Next]_vars, pc[2] = "gone" PROVE pc'[2] = "gone"
  OBVIOUS
<1> USE DEF Goto
<1>t. DOMAIN pc = 1..2 /\ (pc[1] = "open" => pc[2] = "none")
  BY DEF Steady, Typed, Shapes, HeaderInv
<1>1. CASE UNCHANGED vars
  BY <1>1 DEF vars
<1>2. CASE OpenStream \/ OpenFail \/ WriteTag \/ WriteHeader \/ WriteFail \/ CloseFake \/ FakeLoopEnds
  BY <1>2, <1>t, WriteFailForms DEF OpenStream, OpenFail, WriteTag, WriteHeader, CloseFake, FakeLoopEnds
<1>3. CASE AcceptorStep
  BY <1>3, ReadTagForms, ReadLenForms, ReadTargetForms
  DEF AcceptorStep, Accept, AcceptError, HeaderFail, Drain, DrainEnd, DialOk, DialFail
<1>4. ASSUME NEW m \in Relays, RelayStep(m) \/ Notice(m) PROVE pc'[2] = "gone"
  BY <1>4, <1>t DEF RelayStep, CloseA, CloseB, Leave, Notice, Relays
<1>5. ASSUME NEW m \in Relays, NEW e \in Dirs, CopierStep(m, e) PROVE pc'[2] = "gone"
  BY <1>5 DEF CopierStep, CopyRead, CopyEnd, CopyWrite, CopyFail
<1>6. ASSUME NEW p \in Peers, PeerStep(p[1], p[2]) PROVE pc'[2] = "gone"
  BY <1>6 DEF PeerStep, Send, Receive, Hangup
<1>7. ASSUME NEW m, NEW i, Reset(m, i) PROVE pc'[2] = "gone"
  BY <1>7 DEF Reset
<1>8. CASE Break
  BY <1>8 DEF Break
<1>9. QED
  BY <1>1, <1>2, <1>3, <1>4, <1>5, <1>6, <1>7, <1>8 DEF Next, OpenerStep

\* What is cut stays cut.
LEMMA LiveStep ==
  ASSUME Steady, [Next]_vars, NEW d \in Dirs
  PROVE  /\ Live1(d)' => Live1(d)
         /\ Live2(d)' => Live2(d)
         /\ Live3(d)' => Live3(d)
         /\ Live4(d)' => Live4(d)
         /\ Live5(d)' => Live5(d)
<1>1. /\ shut \subseteq shut' /\ deaf \subseteq deaf' /\ (link' = "up" => link = "up")
      /\ pc[2] = "gone" => pc'[2] = "gone"
  BY ClosesStep, ClosesGrow, Growing, GoneStays
<1>2. /\ copier[<<Near(d), d>>] = "done" => copier'[<<Near(d), d>>] = "done"
      /\ copier[<<Far(d), d>>] = "done" => copier'[<<Far(d), d>>] = "done"
  BY DoneStays, PipesDiffer
<1>3. QED
  BY <1>1, <1>2 DEF Live1, Live2, Live3, Live4, Live5

\* What the acceptor has read is as far as it was.
LEMMA AtSame ==
  ASSUME kind' = kind, head' = head,
         pc'[2] = pc[2] \/ (pc'[2] \in {"none", "syn", "tag"} <=> pc[2] \in {"none", "syn", "tag"})
  PROVE  At' = At
BY DEF At, First

LEMMA MidSame ==
  ASSUME kind' = kind, NEW d \in Dirs, q'[Mid(d)] = q[Mid(d)],
         d = "down" \/ (At' = At /\ (pc'[2] = "gone" <=> pc[2] = "gone"))
  PROVE  InMid(d)' = InMid(d)
<1>1. Header' = Header
  BY SameWords
<1>2. CASE d = "down"
  <2>1. Skip(d)' = 0 /\ Skip(d) = 0
    BY <1>2 DEF Skip
  <2>2. QED
    BY <1>2, <2>1 DEF InMid, Mid
<1>3. CASE d = "up" /\ At' = At /\ (pc'[2] = "gone" <=> pc[2] = "gone")
  <2>1. Skip(d)' = Skip(d)
    BY <1>1, <1>3 DEF Skip
  <2>2. QED
    BY <1>3, <2>1 DEF InMid, Mid
<1>4. QED
  BY <1>2, <1>3, Each

LEMMA MidGone == pc'[2] = "gone" => InMid("up")' = <<>> /\ ~Live3("up")' /\ ~Live4("up")'
BY DEF InMid, Live3, Live4

\* What passes the direction by.
PassBy(d) ==
  /\ q'[ToReader(d)] = q[ToReader(d)] /\ q'[FromWriter(d)] = q[FromWriter(d)]
  /\ hand'[<<Near(d), d>>] = hand[<<Near(d), d>>]
  /\ hand'[<<Far(d), d>>] = hand[<<Far(d), d>>]
  /\ sent'[d] = sent[d] /\ got'[d] = got[d]

LEMMA QuietMoves ==
  ASSUME Steady, NEW d \in Dirs, PassBy(d),
         \/ InMid(d)' = InMid(d)
         \/ InMid(d)' = <<>> /\ ~Live4(d)' /\ (Mid(d) \in deaf \/ (d = "up" /\ pc'[2] = "gone"))
  PROVE  Moves(d)
<1>1. /\ AtReader(d)' = AtReader(d) /\ AtWriter(d)' = AtWriter(d)
      /\ InNear(d)' = InNear(d) /\ InFar(d)' = InFar(d)
  BY DEF PassBy, AtReader, AtWriter, InNear, InFar
<1>2. /\ Part(AtReader(d), AtReader(d)) /\ Part(AtWriter(d), AtWriter(d))
      /\ Part(InMid(d), InMid(d)) /\ Part(<<>>, InMid(d))
  BY CarriedType, PartOf DEF Steady, Typed
<1>3. Reasons(d)
  BY <1>1 DEF Reasons
<1>4. QED
  BY <1>1, <1>2, <1>3 DEF Moves, Loses, PassBy

\* A step that touches neither what is carried nor the header.
LEMMA StillMoves ==
  ASSUME Steady, NEW d \in Dirs, UNCHANGED <<kind, q, hand, head, sent, got>>,
         \/ pc'[2] = pc[2]
         \/ pc'[2] = "gone"
         \/ /\ pc[2] # "gone"
            /\ pc'[2] \in {"none", "syn", "tag"} <=> pc[2] \in {"none", "syn", "tag"}
  PROVE  Moves(d)
<1>1. PassBy(d)
  BY DEF PassBy
<1>2. CASE pc'[2] = "gone"
  <2>1. d = "down" => InMid(d)' = InMid(d)
    BY MidSame
  <2>2. QED
    BY <1>1, <1>2, <2>1, MidGone, QuietMoves, Each
<1>3. CASE pc'[2] # "gone"
  <2>1. At' = At /\ (pc'[2] = "gone" <=> pc[2] = "gone")
    BY <1>3, AtSame
  <2>2. QED
    BY <1>1, <2>1, MidSame, QuietMoves
<1>4. QED
  BY <1>2, <1>3

\* The opener writes the tag or the header: there is no payload before it.
LEMMA WriteMoves ==
  ASSUME Steady, NEW d \in Dirs, NEW bytes \in Seq(0..255),
         pc[1] \in {"tag", "head"}, WriteOpen(1, Stream), Put(Stream, bytes),
         pc[1] = "tag" => Len(bytes) = 1,
         pc[1] = "head" => Len(bytes) = Len(Header),
         UNCHANGED <<kind, hand, head, sent, got>>, pc'[2] = pc[2]
  PROVE  Moves(d)
<1>t. Shapes /\ HeaderInv /\ Opening /\ Accepting
  BY Each DEF Steady, Typed, Control
<1>1. /\ q'[Stream] = IF link = "dead" THEN q[Stream] ELSE q[Stream] \o bytes
      /\ \A r \in Pipes : r # Stream => q'[r] = q[r]
  BY <1>t, PutType, PipesAre DEF Stream
<1>2. PassBy(d)
  BY <1>1, PipesDiffer, Each DEF PassBy
<1>3. At' = At /\ Header' = Header
  BY AtSame, SameWords
<1>4. CASE d = "down" \/ link = "dead"
  <2>1. q'[Mid(d)] = q[Mid(d)]
    BY <1>1, <1>4, PipesDiffer, Each
  <2>2. QED
    BY <1>2, <1>3, <2>1, MidSame, QuietMoves
<1>5. CASE d = "up" /\ (kind = "fake" \/ pc[2] = "gone")
  BY <1>2, <1>5, QuietMoves DEF InMid
<1>6. CASE d = "up" /\ link = "up" /\ kind # "fake" /\ pc[2] # "gone"
  <2>1. pc[2] \in Reading /\ Clear
    BY <1>t, <1>6, Each DEF Opening, Accepting, Early, Clear
  <2>2. Written
    BY <1>t, <2>1 DEF HeaderInv
  <2>3. q[Stream] \in Seq(0..255) /\ At \in Nat /\ Len(Header) \in Nat /\ Len(Header) >= 1
    BY <1>t, PipesAre, SkipType, HeaderLength, Each DEF Shapes, Stream
  <2>4. Len(q[Stream]) \in Nat /\ Len(q'[Stream]) = Len(q[Stream]) + Len(bytes) /\ Len(bytes) \in Nat
        /\ q'[Stream] \in Seq(0..255)
    BY <1>1, <1>6, <2>3, ConcatOf
  <2>5. At + Len(q[Stream]) = IF pc[1] = "tag" THEN 0 ELSE 1
    BY <1>t, <2>2 DEF Written, End, Shapes, First
  <2>6. At <= Len(Header) /\ Len(q[Stream]) <= Len(Header) + 1 - At
        /\ Len(q'[Stream]) <= Len(Header) + 1 - At
    <3>1. ASSUME NEW a \in Nat, NEW l \in Nat, NEW h \in Nat, h >= 1, NEW m \in Nat,
                 (a + l = 0 /\ m = 1) \/ (a + l = 1 /\ m = h)
          PROVE  a <= h /\ l <= h + 1 - a /\ l + m <= h + 1 - a
      BY <3>1
    <3>2. \/ At + Len(q[Stream]) = 0 /\ Len(bytes) = 1
          \/ At + Len(q[Stream]) = 1 /\ Len(bytes) = Len(Header)
      BY <2>5
    <3>3. QED
      BY <2>3, <2>4, <3>1, <3>2
  <2>7. Skip(d) = Len(Header) + 1 - At /\ Skip(d)' = Len(Header) + 1 - At
    BY <1>3, <1>6, <2>6 DEF Skip
  <2>8. InMid(d) = <<>> /\ InMid(d)' = <<>>
    BY <1>6, <2>6, <2>7, Each DEF InMid, Behind
  <2>9. QED
    BY <1>2, <2>8, QuietMoves
<1>7. QED
  BY <1>4, <1>5, <1>6, Each DEF Steady, Typed, LinkType

\* The acceptor reads a byte of the header.
LEMMA TakeMoves ==
  ASSUME Steady, NEW d \in Dirs, NEW b, Take(b), UNCHANGED <<kind, hand, sent, got>>,
         \/ kind = "fake"
         \/ pc'[2] = "gone"
         \/ pc[2] # "gone" /\ At <= Len(Header) /\ At' = At + 1
  PROVE  Moves(d)
<1>t. Shapes
  BY DEF Steady, Typed
<1>1. /\ q'[Stream] = Tail(q[Stream]) /\ q[Stream] # <<>>
      /\ \A r \in Pipes : r # Stream => q'[r] = q[r]
  BY <1>t, TakeType DEF Stream, Take, Shapes
<1>2. PassBy(d)
  BY <1>1, PipesDiffer, Each DEF PassBy
<1>3. CASE d = "down"
  <2>1. q'[Mid(d)] = q[Mid(d)]
    BY <1>1, <1>3, PipesDiffer, Each
  <2>2. QED
    BY <1>2, <1>3, <2>1, MidSame, QuietMoves
<1>4. CASE d = "up" /\ kind = "fake"
  BY <1>2, <1>4, QuietMoves DEF InMid
<1>5. CASE d = "up" /\ pc'[2] = "gone"
  BY <1>2, <1>5, MidGone, QuietMoves
<1>6. CASE d = "up" /\ kind # "fake" /\ pc'[2] # "gone" /\ pc[2] # "gone"
           /\ At <= Len(Header) /\ At' = At + 1
  <2>1. Header' = Header /\ At \in Nat /\ Len(Header) \in Nat
    BY <1>t, SameWords, SkipType
  <2>2. PICK k \in Nat : k = Len(Header) - At
    <3>1. Len(Header) - At \in Nat
      BY <1>6, <2>1
    <3>2. QED
      BY <3>1
  <2>3. Skip(d) = k + 1
    BY <1>6, <2>1, <2>2 DEF Skip
  <2>4. Skip(d)' = k
    <3>1. At + 1 <= Len(Header) => Len(Header) + 1 - (At + 1) = k
      BY <2>1, <2>2
    <3>2. ~(At + 1 <= Len(Header)) => k = 0
      BY <1>6, <2>1, <2>2
    <3>3. QED
      BY <1>6, <2>1, <3>1, <3>2 DEF Skip
  <2>5. q[Stream] \in Seq(0..255)
    BY <1>t, PipesAre DEF Shapes, Stream
  <2>6. Behind(Tail(q[Stream]), k) = Behind(q[Stream], k + 1)
    BY <1>1, <2>5, BehindTail
  <2>7. InMid(d)' = InMid(d)
    BY <1>1, <1>6, <2>3, <2>4, <2>6, Each DEF InMid
  <2>8. QED
    BY <1>2, <2>7, QuietMoves
<1>7. QED
  BY <1>3, <1>4, <1>5, <1>6, Each

-----------------------------------------------------------------------------
(* Every step moves every direction in one of these ways                   *)

LEMMA OpenerMoves == ASSUME Steady, OpenerStep, NEW d \in Dirs PROVE Moves(d)
<1> USE DEF Goto
<1>t. /\ Shapes /\ DOMAIN pc = 1..2 /\ (pc[1] = "open" => pc[2] = "none")
  BY DEF Steady, Typed, Shapes, HeaderInv
<1>1. CASE OpenStream
  <2>1. pc[2] = "none" /\ pc'[2] \in {"none", "syn"}
    BY <1>1, <1>t DEF OpenStream
  <2>2. QED
    BY <1>1, <2>1, StillMoves DEF OpenStream, pipes, parse, ends
<1>2. CASE OpenFail \/ CloseFake \/ FakeLoopEnds
  BY <1>2, <1>t, StillMoves DEF OpenFail, CloseFake, FakeLoopEnds, pipes, parse, ends
<1>3. CASE WriteFail
  BY <1>3, <1>t, WriteFailForms, StillMoves
<1>4. CASE WriteTag
  <2>1. kind \in {"reverse", "forward", "fake"}
    BY <1>4, <1>t, KindsAssumption DEF WriteTag, Shapes
  <2>2. <<Tag>> \in Seq(0..255) /\ Len(<<Tag>>) = 1
    BY <2>1, TagType
  <2>3. /\ pc[1] = "tag" /\ WriteOpen(1, Stream) /\ Put(Stream, <<Tag>>) /\ pc'[2] = pc[2]
        /\ UNCHANGED <<kind, hand, head, sent, got>>
    BY <1>4, <1>t DEF WriteTag, Stream, parse, ends
  <2>4. PICK bytes \in Seq(0..255) : bytes = <<Tag>>
    BY <2>2
  <2>5. QED
    BY <2>2, <2>3, <2>4, WriteMoves
<1>5. CASE WriteHeader
  <2>1. Header \in Seq(0..255)
    BY <1>t, HeaderType DEF Shapes
  <2>2. /\ pc[1] = "head" /\ WriteOpen(1, Stream) /\ Put(Stream, Header)
        /\ UNCHANGED <<kind, hand, head, sent, got>>
        /\ \E to \in {"close", "relay"} : pc' = [pc EXCEPT ![1] = to]
    BY <1>5 DEF WriteHeader, Stream, parse, ends
  <2>3. pc'[2] = pc[2]
    BY <1>t, <2>2
  <2>4. PICK bytes \in Seq(0..255) : bytes = Header
    BY <2>1
  <2>5. QED
    BY <2>2, <2>3, <2>4, WriteMoves
<1>6. QED
  BY <1>1, <1>2, <1>3, <1>4, <1>5 DEF OpenerStep

LEMMA AcceptorMoves == ASSUME Steady, AcceptorStep, NEW d \in Dirs PROVE Moves(d)
<1> USE DEF Goto
<1>t. /\ Shapes /\ HeaderInv /\ DOMAIN pc = 1..2 /\ head \in Seq(0..255) /\ Len(Header) \in Nat
      /\ Len(Header) >= 1
  BY HeaderLength DEF Steady, Typed, Shapes
<1>1. CASE Accept \/ AcceptError \/ HeaderFail \/ DrainEnd \/ DialOk \/ DialFail
  <2>1. /\ UNCHANGED <<kind, q, hand, head, sent, got>>
        /\ \/ pc'[2] = "gone"
           \/ /\ pc[2] # "gone"
              /\ pc'[2] \in {"none", "syn", "tag"} <=> pc[2] \in {"none", "syn", "tag"}
    BY <1>1, <1>t DEF Accept, AcceptError, HeaderFail, DrainEnd, DialOk, DialFail, GiveUp, pipes,
                      parse, ends
  <2>2. QED
    BY <2>1, StillMoves
<1>2. CASE Drain
  <2>1. pc[2] = "drain" /\ UNCHANGED <<kind, hand, sent, got>> /\ \E b \in 0..255 : Take(b)
    BY <1>2 DEF Drain, ends
  <2>2. kind = "fake"
    BY <2>1 DEF Steady, Control, Accepting
  <2>3. QED
    BY <2>1, <2>2, TakeMoves
<1>3. CASE ReadTag
  <2>1. PICK b \in 0..255 :
          /\ pc[2] = "tag" /\ Take(b)
          /\ UNCHANGED <<kind, hand, sent, got>>
          /\ head' = IF Route(b) = "legacy" THEN <<b>> ELSE <<>>
          /\ \/ Route(b) = "unknown" /\ GiveUp
             \/ Route(b) \in {"len", "legacy"} /\ GoOn("len")
             \/ Route(b) = "drain" /\ GoOn("drain")
    BY <1>3, ReadTagForms
  <2>2. CASE GiveUp
    <3>1. pc'[2] = "gone"
      BY <1>t, <2>2 DEF GiveUp
    <3>2. QED
      BY <2>1, <3>1, TakeMoves
  <2>3. CASE kind = "fake"
    BY <2>1, <2>3, TakeMoves
  <2>4. CASE kind # "fake" /\ ~GiveUp
    <3>1. kind \in {"reverse", "forward", "legacy"}
      BY <1>t, <2>4, KindsAssumption DEF Shapes
    <3>2. /\ kind = "legacy" => Route(b) = "legacy"
          /\ kind # "legacy" => Route(b) = "len"
      BY <1>t, <2>1, <3>1, TagMeans
    <3>3. pc'[2] = "len"
      BY <1>t, <2>1, <2>4, <3>2 DEF GoOn
    <3>4. At = First /\ At' = Len(head') + 1
      BY <2>1, <3>3 DEF At
    <3>5. CASE kind = "legacy"
      <4>1. At = 1 /\ head' = <<b>>
        BY <2>1, <3>2, <3>4, <3>5 DEF First
      <4>2. Len(head') = 1
        BY <4>1
      <4>3. QED
        BY <1>t, <2>1, <3>3, <3>4, <4>1, <4>2, TakeMoves
    <3>6. CASE kind # "legacy"
      <4>1. At = 0 /\ head' = <<>>
        BY <2>1, <3>2, <3>4, <3>6 DEF First
      <4>2. Len(head') = 0
        BY <4>1
      <4>3. QED
        BY <1>t, <2>1, <3>3, <3>4, <4>1, <4>2, TakeMoves
    <3>7. QED
      BY <3>5, <3>6
  <2>5. QED
    BY <2>2, <2>3, <2>4
\* A byte of the length or of the target.
<1>r. ASSUME NEW b \in 0..255, Take(b), head' = Append(head, b), pc[2] \in {"len", "target"},
             UNCHANGED <<kind, hand, sent, got>>,
             Len(head) < Len(Header), pc'[2] \in {"len", "target", "dial", "gone"}
      PROVE  Moves(d)
  <2>1. Len(head') = Len(head) + 1 /\ Len(head) \in Nat
    BY <1>t, <1>r, AppendOf
  <2>2. CASE pc'[2] = "gone"
    BY <1>r, <2>2, TakeMoves
  <2>3. CASE pc'[2] # "gone"
    <3>1. At = Len(head) + 1 /\ At' = Len(head') + 1
      BY <1>r, <2>3 DEF At
    <3>2. At <= Len(Header) /\ At' = At + 1
      BY <1>t, <1>r, <2>1, <3>1
    <3>3. QED
      BY <1>r, <2>3, <3>2, TakeMoves
  <2>4. QED
    BY <2>2, <2>3
<1>4. CASE ReadLen
  <2>1. PICK b \in 0..255 :
          /\ pc[2] = "len" /\ Take(b) /\ head' = Append(head, b)
          /\ UNCHANGED <<kind, hand, sent, got>>
          /\ GoOn("len") \/ GoOn("target") \/ GiveUp
    BY <1>4, ReadLenForms
  <2>2. pc'[2] \in {"len", "target", "gone"}
    BY <1>t, <2>1 DEF GoOn, GiveUp
  <2>3. Len(head) < Len(Header)
    <3>1. Len(head) < 2 /\ Len(Header) = Len(Target) + 2
      BY <1>t, <2>1, HeaderType DEF HeaderInv, Shapes
    <3>2. Len(head) \in Nat
      BY <1>t
    <3>3. QED
      BY <3>1, <3>2, TargetLength
  <2>4. QED
    BY <1>r, <2>1, <2>2, <2>3
<1>5. CASE ReadTarget
  <2>1. PICK b \in 0..255 :
          /\ pc[2] = "target" /\ Take(b) /\ head' = Append(head, b)
          /\ UNCHANGED <<kind, hand, sent, got>>
          /\ \E to \in {"target", "dial"} : pc' = [pc EXCEPT ![2] = to]
    BY <1>5, ReadTargetForms
  <2>2. pc'[2] \in {"target", "dial"}
    BY <1>t, <2>1
  <2>3. Len(head) < Len(Header)
    <3>1. Len(head) \in 2..(Len(Target) + 1) /\ Len(Header) = Len(Target) + 2
      BY <1>t, <2>1, LengthMeans
    <3>2. QED
      BY <3>1, TargetLength
  <2>4. QED
    BY <1>r, <2>1, <2>2, <2>3
<1>6. QED
  BY <1>1, <1>2, <1>3, <1>4, <1>5 DEF AcceptorStep

\* The acceptor has read the header when it relays.
LEMMA RelayedMid ==
  ASSUME Steady, Shapes', NEW d \in Dirs, kind # "fake", d = "up" => pc[2] \in Served
  PROVE  InMid(d) = q[Mid(d)] /\ (UNCHANGED <<kind, head, pc>> => InMid(d)' = q'[Mid(d)])
<1>t. Shapes
  BY DEF Steady, Typed
<1>1. Skip(d) = 0
  <2>1. d = "up" => At > Len(Header)
    <3>1. d = "up" => At = Len(Header) + 1
      BY DEF Steady, Control, Accepting, Served, At
    <3>2. QED
      BY <1>t, <3>1, SkipType
  <2>2. QED
    BY <1>t, <2>1, SkipType
<1>2. UNCHANGED <<kind, head, pc>> => Skip(d)' = 0
  BY <1>1, AtSame, SameWords DEF Skip
<1>3. ASSUME NEW s \in Seq(0..255) PROVE Behind(s, 0) = s
  BY BehindNone
<1>4. q[Mid(d)] \in Seq(0..255)
  BY <1>t, CarriedType
<1>5. InMid(d) = q[Mid(d)]
  BY <1>1, <1>3, <1>4 DEF InMid, Served
<1>6. ASSUME UNCHANGED <<kind, head, pc>> PROVE InMid(d)' = q'[Mid(d)]
  <2>1. InMid(d)' = Behind(q'[Mid(d)], 0)
    BY <1>2, <1>6 DEF InMid, Mid, Served
  <2>2. q'[Mid(d)] \in Seq(0..255)
    BY PipesDiffer DEF Shapes
  <2>3. QED
    BY <1>3, <2>1, <2>2
<1>7. QED
  BY <1>5, <1>6

LEMMA CopierMoves ==
  ASSUME Steady, [Next]_vars, NEW n \in Relays, NEW e \in Dirs, CopierStep(n, e), NEW d \in Dirs
  PROVE  Moves(d)
<1>t. /\ Shapes /\ Shapes' /\ Opening /\ Accepting /\ Copying /\ Places /\ HeaderInv /\ LinkType
  BY SteadyStep DEF Steady, Typed, Control
<1>k. UNCHANGED <<kind, pc, head, sent, got>>
  BY DEF CopierStep, CopyRead, CopyEnd, CopyWrite, CopyFail, parse, ends
<1>a. At' = At /\ Header' = Header
  BY <1>k, AtSame, SameWords
<1>p. /\ Source(n, e) \in Pipes /\ Sink(n, e) \in Pipes /\ <<n, e>> \in Copiers
      /\ <<Near(d), d>> \in Copiers /\ <<Far(d), d>> \in Copiers
      /\ q \in [Pipes -> Seq(0..255)] /\ hand \in [Copiers -> Seq(0..255)]
  BY <1>t, PipesAre, PipesDiffer DEF Shapes
<1>c. copier[<<n, e>>] = "run" => kind # "fake" /\ (n = 2 => pc[2] \in Served)
  BY <1>t, <1>p, Each DEF Copying, Places, Relaying, Served
<1>e. n = Near(e) \/ n = Far(e)
  BY Each DEF Near, Far
\* The other direction.
<1>1. CASE d # e
  <2>1. /\ ToReader(d) # Source(n, e) /\ Mid(d) # Source(n, e) /\ FromWriter(d) # Source(n, e)
        /\ ToReader(d) # Sink(n, e) /\ Mid(d) # Sink(n, e) /\ FromWriter(d) # Sink(n, e)
        /\ <<Near(d), d>> # <<n, e>> /\ <<Far(d), d>> # <<n, e>>
    BY <1>1, <1>e, CopierPipes, PipesDiffer
  <2>2. \A p \in Pipes : p # Source(n, e) /\ p # Sink(n, e) => q'[p] = q[p]
    <3>1. CASE CopyRead(n, e)
      BY <1>p, <3>1 DEF CopyRead
    <3>2. CASE CopyWrite(n, e)
      BY <1>p, <1>t, <3>2, PutType DEF CopyWrite
    <3>3. CASE CopyEnd(n, e) \/ CopyFail(n, e)
      BY <3>3 DEF CopyEnd, CopyFail, pipes
    <3>4. QED
      BY <3>1, <3>2, <3>3 DEF CopierStep
  <2>3. \A c \in Copiers : c # <<n, e>> => hand'[c] = hand[c]
    BY <1>p DEF CopierStep, CopyRead, CopyEnd, CopyWrite, CopyFail
  <2>4. /\ q'[ToReader(d)] = q[ToReader(d)] /\ q'[Mid(d)] = q[Mid(d)]
        /\ q'[FromWriter(d)] = q[FromWriter(d)]
    BY <2>1, <2>2, PipesDiffer
  <2>5. PassBy(d)
    BY <1>k, <1>p, <2>1, <2>3, <2>4 DEF PassBy
  <2>6. QED
    BY <1>a, <1>k, <2>4, <2>5, MidSame, QuietMoves
<1>2. CASE d = e /\ CopyEnd(n, e)
  <2>1. UNCHANGED <<q, hand>>
    BY <1>2 DEF CopyEnd, pipes
  <2>2. QED
    BY <1>k, <2>1, StillMoves
<1>u. /\ AtReader(d) \in Seq(0..255) /\ InNear(d) \in Seq(0..255) /\ InMid(d) \in Seq(0..255)
      /\ InFar(d) \in Seq(0..255) /\ AtWriter(d) \in Seq(0..255) /\ q[Mid(d)] \in Seq(0..255)
  BY <1>t, CarriedType
<1>q. /\ Part(AtReader(d), AtReader(d)) /\ Part(InMid(d), InMid(d)) /\ Part(AtWriter(d), AtWriter(d))
      /\ Part(<<>>, InMid(d))
  BY <1>u, PartOf
<1>3. CASE d = e /\ CopyFail(n, e)
  <2>1. /\ UNCHANGED q /\ hand'[<<n, d>>] = <<>> /\ copier'[<<n, d>>] = "done"
        /\ \A c \in Copiers : c # <<n, d>> => hand'[c] = hand[c]
    BY <1>3, <1>p, <1>t DEF CopyFail, pipes, Shapes
  <2>2. AtReader(d)' = AtReader(d) /\ InMid(d)' = InMid(d) /\ AtWriter(d)' = AtWriter(d)
    BY <1>a, <1>k, <2>1, MidSame DEF AtReader, AtWriter
  <2>3. CASE n = Near(d)
    <3>1. InNear(d)' = <<>> /\ ~Live2(d)' /\ InFar(d)' = InFar(d)
      BY <1>p, <2>1, <2>3, PipesDiffer DEF InNear, InFar, Live2
    <3>2. Reasons(d)
      BY <1>3, <2>2, <2>3, <3>1 DEF Reasons
    <3>3. QED
      BY <1>k, <1>q, <2>2, <3>1, <3>2 DEF Moves, Loses
  <2>4. CASE n = Far(d)
    <3>1. InFar(d)' = <<>> /\ ~Live4(d)' /\ InNear(d)' = InNear(d)
      BY <1>p, <2>1, <2>4, PipesDiffer DEF InNear, InFar, Live4
    <3>2. Reasons(d)
      BY <1>3, <2>2, <2>4, <3>1 DEF Reasons
    <3>3. QED
      BY <1>k, <1>q, <2>2, <3>1, <3>2 DEF Moves, Loses
  <2>5. QED
    BY <1>3, <1>e, <2>3, <2>4
<1>4. CASE d = e /\ CopyRead(n, e)
  <2>1. /\ copier[<<n, d>>] = "run" /\ hand[<<n, d>>] = <<>> /\ q[Source(n, d)] # <<>>
        /\ Source(n, d) \notin deaf
        /\ q'[Source(n, d)] = Tail(q[Source(n, d)])
        /\ hand'[<<n, d>>] = <<q[Source(n, d)][1]>>
        /\ \A p \in Pipes : p # Source(n, d) => q'[p] = q[p]
        /\ \A c \in Copiers : c # <<n, d>> => hand'[c] = hand[c]
    BY <1>4, <1>p DEF CopyRead, Copy
  <2>2. CASE n = Near(d)
    <3>1. Source(n, d) = Mid(d) /\ kind # "fake" /\ (d = "up" => pc[2] \in Served)
      BY <1>c, <1>4, <2>1, <2>2, CopierPipes, Each DEF Near
    <3>2. InMid(d) = q[Mid(d)] /\ InMid(d)' = q'[Mid(d)]
      BY <1>k, <1>t, <3>1, RelayedMid
    <3>3. /\ InNear(d) = <<>> /\ InMid(d) # <<>> /\ InNear(d)' = <<InMid(d)[1]>>
          /\ InMid(d)' = Tail(InMid(d)) /\ InFar(d)' = InFar(d)
          /\ AtReader(d)' = AtReader(d) /\ AtWriter(d)' = AtWriter(d)
      BY <1>p, <2>1, <2>2, <3>1, <3>2, PipesDiffer DEF InNear, InFar, AtReader, AtWriter
    <3>4. Mid(d) \notin deaf /\ ~(d = "up" /\ pc[2] = "gone")
      BY <2>1, <3>1 DEF Served
    <3>5. QED
      BY <1>k, <3>3, <3>4 DEF Moves, ReadsMid
  <2>3. CASE n = Far(d)
    <3>1. Source(n, d) = FromWriter(d)
      BY <2>3, CopierPipes
    <3>2. q'[Mid(d)] = q[Mid(d)]
      BY <2>1, <3>1, PipesDiffer
    <3>3. InMid(d)' = InMid(d)
      BY <1>a, <1>k, <3>2, MidSame
    <3>4. /\ InFar(d) = <<>> /\ AtWriter(d) # <<>> /\ InFar(d)' = <<AtWriter(d)[1]>>
          /\ AtWriter(d)' = Tail(AtWriter(d)) /\ InNear(d)' = InNear(d)
          /\ AtReader(d)' = AtReader(d)
      BY <1>p, <2>1, <2>3, <3>1, PipesDiffer DEF InNear, InFar, AtReader, AtWriter
    <3>5. QED
      BY <1>k, <2>1, <3>1, <3>3, <3>4 DEF Moves, ReadsIn
  <2>4. QED
    BY <1>4, <1>e, <2>2, <2>3
<1>5. CASE d = e /\ CopyWrite(n, e)
  <2>1. /\ copier[<<n, d>>] = "run" /\ hand'[<<n, d>>] = <<>>
        /\ Put(Sink(n, d), hand[<<n, d>>]) /\ WriteOpen(n, Sink(n, d))
        /\ \A c \in Copiers : c # <<n, d>> => hand'[c] = hand[c]
        /\ hand[<<n, d>>] \in Seq(0..255)
    BY <1>5, <1>p DEF CopyWrite, Store
  <2>p. /\ \A p \in Pipes : p # Sink(n, d) => q'[p] = q[p]
        /\ q'[Sink(n, d)] = IF Sink(n, d)[2] = 2 /\ link = "dead" THEN q[Sink(n, d)]
                            ELSE q[Sink(n, d)] \o hand[<<n, d>>]
    BY <1>p, <1>t, <1>5, <2>1, PutType
  <2>2. CASE n = Near(d)
    <3>1. Sink(n, d) = ToReader(d) /\ ToReader(d)[2] # 2
      BY <2>2, CopierPipes DEF ToReader
    <3>2. q'[Mid(d)] = q[Mid(d)]
      BY <2>p, <3>1, PipesDiffer
    <3>3. InMid(d)' = InMid(d)
      BY <1>a, <1>k, <3>2, MidSame
    <3>4. /\ AtReader(d)' = AtReader(d) \o InNear(d) /\ InNear(d)' = <<>> /\ InFar(d)' = InFar(d)
          /\ AtWriter(d)' = AtWriter(d)
      BY <1>p, <2>1, <2>p, <2>2, <3>1, PipesDiffer DEF InNear, InFar, AtReader, AtWriter
    <3>5. QED
      BY <1>k, <2>1, <2>2, <3>1, <3>3, <3>4 DEF Moves, WritesOut, WriteOpen
  <2>3. CASE n = Far(d)
    <3>1. Sink(n, d) = Mid(d) /\ Mid(d)[2] = 2
      BY <2>3, CopierPipes DEF Mid
    <3>2. /\ AtReader(d)' = AtReader(d) /\ InNear(d)' = InNear(d) /\ InFar(d)' = <<>>
          /\ AtWriter(d)' = AtWriter(d) /\ InFar(d) = hand[<<n, d>>]
      BY <1>p, <2>1, <2>p, <2>3, <3>1, PipesDiffer DEF InNear, InFar, AtReader, AtWriter
    <3>3. CASE link = "dead"
      <4>1. q'[Mid(d)] = q[Mid(d)]
        BY <2>p, <3>1, <3>3
      <4>2. InMid(d)' = InMid(d)
        BY <1>a, <1>k, <4>1, MidSame
      <4>3. link' = "dead"
        BY <1>5, <3>3 DEF CopyWrite
      <4>4. ~Live4(d)'
        BY <4>3 DEF Live4
      <4>5. Reasons(d)
        BY <3>2, <4>2, <4>3 DEF Reasons
      <4>6. QED
        BY <1>k, <1>q, <3>2, <4>2, <4>4, <4>5 DEF Moves, Loses
    <3>4. CASE d = "up" /\ pc[2] = "gone"
      <4>1. InMid(d) = <<>> /\ InMid(d)' = <<>> /\ ~Live4(d)'
        BY <1>k, <3>4, MidGone DEF InMid
      <4>2. Reasons(d)
        BY <1>k, <3>2, <3>4, <4>1 DEF Reasons
      <4>3. QED
        BY <1>k, <1>q, <3>2, <4>1, <4>2 DEF Moves, Loses
    <3>5. CASE link = "up" /\ ~(d = "up" /\ pc[2] = "gone")
      <4>1. q'[Mid(d)] = q[Mid(d)] \o InFar(d)
        BY <2>p, <3>1, <3>2, <3>5
      <4>2. Skip(d)' = Skip(d)
        BY <1>a DEF Skip
      <4>3. InMid(d) = Behind(q[Mid(d)], Skip(d)) /\ InMid(d)' = Behind(q'[Mid(d)], Skip(d))
        BY <1>c, <1>k, <1>5, <2>1, <3>5, <4>2 DEF InMid, Mid
      <4>4. Skip(d) \in Nat /\ At \in Nat /\ Len(Header) \in Nat /\ Len(q[Mid(d)]) \in Nat
        BY <1>t, <1>u, SkipType
      <4>5. Skip(d) <= Len(q[Mid(d)])
        <5>1. CASE d = "down" \/ At > Len(Header)
          <6>1. Skip(d) = 0
            BY <1>t, <5>1, SkipType
          <6>2. QED
            BY <4>4, <6>1
        <5>2. CASE d = "up" /\ At <= Len(Header)
          <6>1. kind # "fake" /\ n = 1 /\ noticed = {} /\ Mid(d) = Stream
            BY <1>c, <1>t, <1>5, <2>1, <2>3, <3>5, <5>2, Each DEF Far, Opening
          <6>2. pc[2] \in Reading
            <7>1. pc[2] \notin Served
              <8>1. Len(head) = Len(Header) => ~(Len(head) + 1 <= Len(Header))
                BY <4>4
              <8>2. QED
                BY <1>t, <5>2, <8>1 DEF Accepting, Served, At
            <7>2. QED
              BY <1>t, <3>5, <5>2, <6>1, <7>1 DEF Places, AcceptorAt, Reading, Served, Accepting
          <6>3. Clear
            BY <1>t, <2>1, <3>1, <3>5, <6>1, <6>2, <5>2, Each DEF Accepting, Clear, WriteOpen
          <6>4. End > Len(Header)
            BY <1>t, <1>5, <2>1, <5>2, <6>1, <6>2, <6>3 DEF HeaderInv, Written
          <6>5. At + Len(q[Mid(d)]) > Len(Header)
            BY <6>1, <6>4 DEF End
          <6>6. Skip(d) = Len(Header) + 1 - At
            BY <5>2 DEF Skip
          <6>7. QED
            BY <4>4, <6>5, <6>6
        <5>3. QED
          BY <4>4, <5>1, <5>2, Each
      <4>6. InMid(d)' = InMid(d) \o InFar(d)
        <5>1. PICK s \in Seq(0..255), t \in Seq(0..255), k \in Nat :
                s = q[Mid(d)] /\ t = InFar(d) /\ k = Skip(d)
          BY <1>u, <4>4
        <5>2. Behind(s \o t, k) = Behind(s, k) \o t
          BY <4>5, <5>1, BehindConcat
        <5>3. QED
          BY <4>1, <4>3, <5>1, <5>2
      <4>7. QED
        BY <1>k, <2>1, <2>3, <3>1, <3>2, <3>5, <4>6 DEF Moves, WritesMid, WriteOpen
    <3>6. QED
      BY <1>t, <3>3, <3>4, <3>5 DEF LinkType
  <2>4. QED
    BY <1>5, <1>e, <2>2, <2>3
<1>6. QED
  BY <1>1, <1>2, <1>3, <1>4, <1>5 DEF CopierStep

\* The user writes "up" and reads "down", the target the other way round.
LEMMA PeerPipes ==
  ASSUME NEW p \in Peers
  PROVE  \E e \in Dirs : /\ Out(p[1], p[2]) = FromWriter(e) /\ Out(p[1], p[2])[1] = e
                         /\ In(p[1], p[2]) = ToReader(Back(e)) /\ In(p[1], p[2])[1] = Back(e)
BY DEF Peers, In, Out, FromWriter, ToReader, Back, Dirs

LEMMA PeerMoves ==
  ASSUME Steady, NEW p \in Peers, PeerStep(p[1], p[2]), NEW d \in Dirs
  PROVE  Moves(d)
<1>t. Shapes /\ Texts
  BY DEF Steady, Typed
<1>k. UNCHANGED <<kind, pc, head, hand, shut>> \/ Hangup(p[1], p[2])
  BY DEF PeerStep, Send, Receive, parse
<1>1. CASE Hangup(p[1], p[2])
  BY <1>1, StillMoves DEF Hangup, parse, ends
<1>2. CASE Send(p[1], p[2])
  <2>0. PICK e \in Dirs : Out(p[1], p[2]) = FromWriter(e) /\ Out(p[1], p[2])[1] = e
    BY PeerPipes
  <2>1. PICK x \in 0..255 :
          /\ q' = [q EXCEPT ![FromWriter(e)] = Append(q[FromWriter(e)], x)]
          /\ sent' = [sent EXCEPT ![e] = Append(sent[e], x)]
    <3> DEFINE x == (10 * p[2] + Len(sent[e])) % 256
    <3>1. /\ q' = [q EXCEPT ![FromWriter(e)] = Append(q[FromWriter(e)], x)]
          /\ sent' = [sent EXCEPT ![e] = Append(sent[e], x)]
      BY <1>2, <2>0 DEF Send
    <3>2. x \in 0..255
      <4>1. \A a, l \in Nat : (10 * a + l) % 256 \in 0..255
        OBVIOUS
      <4>2. Len(sent[e]) \in Nat /\ p[2] \in Nat
        BY <1>t DEF Shapes, Peers
      <4>3. QED
        BY <4>1, <4>2, Zenon
    <3>3. QED
      BY <3>1, <3>2
  <2>2. /\ UNCHANGED <<kind, pc, head, hand, got>> /\ FromWriter(e) \notin shut
        /\ q \in [Pipes -> Seq(0..255)] /\ sent \in [Dirs -> Seq(0..255)]
    BY <1>t, <1>2, <2>0 DEF Send, parse, Shapes
  <2>3. q'[Mid(d)] = q[Mid(d)] /\ q'[ToReader(d)] = q[ToReader(d)]
    BY <2>1, <2>2, PipesDiffer
  <2>4. InMid(d)' = InMid(d)
    BY <2>2, <2>3, AtSame, MidSame
  <2>5. CASE d = e
    <3>1. AtWriter(d)' = Append(AtWriter(d), x) /\ sent'[d] = Append(sent[d], x)
      BY <2>1, <2>2, <2>5, PipesDiffer DEF AtWriter
    <3>2. AtReader(d)' = AtReader(d) /\ InNear(d)' = InNear(d) /\ InFar(d)' = InFar(d)
      BY <2>2, <2>3 DEF AtReader, InNear, InFar
    <3>3. QED
      BY <2>2, <2>4, <2>5, <3>1, <3>2 DEF Moves, Sends
  <2>6. CASE d # e
    <3>1. PassBy(d)
      BY <2>1, <2>2, <2>3, <2>6, PipesDiffer DEF PassBy
    <3>2. QED
      BY <2>4, <3>1, QuietMoves
  <2>7. QED
    BY <2>5, <2>6
<1>3. CASE Receive(p[1], p[2])
  <2>0. PICK e \in Dirs : In(p[1], p[2]) = ToReader(e) /\ In(p[1], p[2])[1] = e
    BY PeerPipes, PipesDiffer
  <2>1. /\ q[ToReader(e)] # <<>> /\ ToReader(e) \notin deaf
        /\ q' = [q EXCEPT ![ToReader(e)] = Tail(q[ToReader(e)])]
        /\ got' = [got EXCEPT ![e] = Append(got[e], q[ToReader(e)][1])]
        /\ UNCHANGED <<kind, pc, head, hand, sent>>
        /\ q \in [Pipes -> Seq(0..255)] /\ got \in [Dirs -> Seq(0..255)]
    BY <1>t, <1>3, <2>0 DEF Receive, parse, Shapes, Texts
  <2>3. q'[Mid(d)] = q[Mid(d)] /\ q'[FromWriter(d)] = q[FromWriter(d)]
    BY <2>1, PipesDiffer
  <2>4. InMid(d)' = InMid(d)
    BY <2>1, <2>3, AtSame, MidSame
  <2>5. CASE d = e
    <3>1. AtReader(d) # <<>> /\ AtReader(d)' = Tail(AtReader(d))
          /\ got'[d] = Append(got[d], AtReader(d)[1])
      BY <2>1, <2>5, PipesDiffer DEF AtReader
    <3>2. AtWriter(d)' = AtWriter(d) /\ InNear(d)' = InNear(d) /\ InFar(d)' = InFar(d)
      BY <2>1, <2>3 DEF AtWriter, InNear, InFar
    <3>3. QED
      BY <2>1, <2>4, <2>5, <3>1, <3>2 DEF Moves, Receives
  <2>6. CASE d # e
    <3>1. PassBy(d)
      BY <2>1, <2>3, <2>6, PipesDiffer DEF PassBy
    <3>2. QED
      BY <2>4, <3>1, QuietMoves
  <2>7. QED
    BY <2>5, <2>6
<1>4. QED
  BY <1>1, <1>2, <1>3 DEF PeerStep

\* A reset clears what comes in at an end that is closed, and what goes out of it
\* is then not written any more.
LEMMA ResetPipes ==
  ASSUME NEW i \in 1..3, NEW n \in 0..3, n \in {i - 1, i}
  PROVE  \E e \in Dirs :
           \/ Out(n, i) = FromWriter(e) /\ In(n, i) = ToReader(Back(e)) /\ i # 2
           \/ Out(n, i) = ToReader(e) /\ In(n, i) = FromWriter(Back(e)) /\ i # 2
           \/ Out(n, i) = Mid(e) /\ In(n, i) = Mid(Back(e)) /\ i = 2
BY DEF In, Out, FromWriter, ToReader, Mid, Back, Dirs

LEMMA WholePrefix == ASSUME NEW S, NEW s \in Seq(S) PROVE SubSeq(s, 1, Len(s)) = s
OBVIOUS

LEMMA PrefixPart ==
  ASSUME NEW S, NEW s \in Seq(S), NEW m \in 0..Len(s), NEW k \in Nat
  PROVE  Part(SubSeq(s, 1, m), s) /\ Part(Behind(SubSeq(s, 1, m), k), Behind(s, k))
<1>1. PICK r \in Seq(S) : r = SubSeq(s, 1, m)
  BY PrefixOf
<1>2. Len(s) \in Nat /\ Len(r) = m /\ \A i \in 1..m : i \in 1..Len(s) /\ r[i] = s[i]
  BY <1>1, PrefixOf
<1>3. /\ Behind(r, k) \in Seq(S) /\ Len(Behind(r, k)) \in Nat
      /\ Len(r) <= k => Len(Behind(r, k)) = 0
      /\ k <= Len(r) => Len(Behind(r, k)) = Len(r) - k
      /\ \A i \in 1..Len(Behind(r, k)) : k + i \in 1..Len(r) /\ Behind(r, k)[i] = r[k + i]
  BY BehindOf
<1>4. /\ Behind(s, k) \in Seq(S) /\ Len(Behind(s, k)) \in Nat
      /\ Len(s) <= k => Len(Behind(s, k)) = 0
      /\ k <= Len(s) => Len(Behind(s, k)) = Len(s) - k
      /\ \A i \in 1..Len(Behind(s, k)) : k + i \in 1..Len(s) /\ Behind(s, k)[i] = s[k + i]
  BY BehindOf
<1>5. Len(Behind(r, k)) <= Len(Behind(s, k))
  BY <1>2, <1>3, <1>4
<1>6. ASSUME NEW i \in 1..Len(Behind(r, k)) PROVE Behind(r, k)[i] = Behind(s, k)[i]
  <2>1. i \in 1..Len(Behind(s, k))
    BY <1>3, <1>4, <1>5
  <2>2. Behind(r, k)[i] = r[k + i] /\ k + i \in 1..Len(r)
    BY <1>3
  <2>3. Behind(s, k)[i] = s[k + i]
    BY <1>4, <2>1
  <2>4. QED
    BY <1>2, <2>2, <2>3
<1>7. Part(r, s) /\ Part(Behind(r, k), Behind(s, k))
  BY <1>2, <1>5, <1>6 DEF Part
<1>8. QED
  BY <1>1, <1>7

LEMMA ResetMoves ==
  ASSUME Steady, NEW i \in 1..3, NEW n \in 0..3, n \in {i - 1, i}, Reset(n, i), NEW d \in Dirs
  PROVE  Moves(d)
<1>t. Shapes /\ q \in [Pipes -> Seq(0..255)]
  BY DEF Steady, Typed, Shapes
<1>0. PICK e \in Dirs :
        \/ Out(n, i) = FromWriter(e) /\ In(n, i) = ToReader(Back(e)) /\ i # 2
        \/ Out(n, i) = ToReader(e) /\ In(n, i) = FromWriter(Back(e)) /\ i # 2
        \/ Out(n, i) = Mid(e) /\ In(n, i) = Mid(Back(e)) /\ i = 2
  BY ResetPipes
<1> DEFINE a == In(n, i)
           o == Out(n, i)
<1>1. /\ a \in Pipes /\ o \in Pipes /\ a # o /\ a \in deaf
      /\ UNCHANGED <<kind, shut, deaf, pc, copier, head, hand, sent, got>>
  BY PipesAre DEF Reset, parse, ends
<1>2. PICK k \in 0..Len(q[o]) :
        /\ i = 2 => k = Len(q[o])
        /\ q' = [q EXCEPT ![a] = <<>>, ![o] = SubSeq(@, 1, k)]
  BY DEF Reset
<1>z. q[a] # <<>>
  BY DEF Reset
<1> HIDE DEF a, o
<1>3. /\ q'[a] = <<>> /\ q'[o] = SubSeq(q[o], 1, k)
      /\ \A p \in Pipes : p # a /\ p # o => q'[p] = q[p]
  BY <1>t, <1>1, <1>2
<1>u. /\ AtReader(d) \in Seq(0..255) /\ InNear(d) \in Seq(0..255) /\ InMid(d) \in Seq(0..255)
      /\ InFar(d) \in Seq(0..255) /\ AtWriter(d) \in Seq(0..255) /\ q[o] \in Seq(0..255)
  BY <1>t, <1>1, CarriedType
<1>4. /\ Part(AtReader(d), AtReader(d)) /\ Part(InMid(d), InMid(d)) /\ Part(AtWriter(d), AtWriter(d))
      /\ Part(<<>>, AtReader(d)) /\ Part(<<>>, InMid(d)) /\ Part(<<>>, AtWriter(d))
      /\ Part(SubSeq(q[o], 1, k), q[o])
  <2>1. PICK j \in Nat : j = 0
    OBVIOUS
  <2>2. QED
    BY <1>u, PartOf, PrefixPart, <2>1
<1>5. /\ InNear(d)' = InNear(d) /\ InFar(d)' = InFar(d) /\ sent'[d] = sent[d] /\ got'[d] = got[d]
  BY <1>1 DEF InNear, InFar
<1>6. At' = At
  BY <1>1, AtSame
<1>7. CASE o = FromWriter(e) /\ a = ToReader(Back(e))
  <2>1. InMid(d)' = InMid(d)
    BY <1>1, <1>3, <1>6, <1>7, MidSame, PipesDiffer
  <2>2. CASE d = e
    <3>1. FromWriter(d) \in shut'
      BY <1>1, <1>7, <2>2, PipesDiffer DEF Steady, Closings
    <3>2. AtReader(d)' = AtReader(d) /\ AtWriter(d)' = SubSeq(q[o], 1, k) /\ AtWriter(d) = q[o]
      BY <1>3, <1>7, <2>2, PipesDiffer DEF AtReader, AtWriter
    <3>3. Cleared(ToReader(Back(d)))
      BY <1>1, <1>3, <1>7, <1>z, <2>2 DEF Cleared
    <3>4. Reasons(d)
      BY <1>5, <2>1, <3>2, <3>3 DEF Reasons
    <3>5. QED
      BY <1>4, <1>5, <2>1, <3>1, <3>2, <3>4 DEF Moves, Loses
  <2>3. CASE d # e
    <3>1. d = Back(e) /\ ToReader(d) \in deaf'
      BY <1>1, <1>7, <2>3, Each DEF Back
    <3>2. AtReader(d)' = <<>> /\ AtWriter(d)' = AtWriter(d) /\ ~Live2(d)' /\ ~Live4(d)'
      BY <1>3, <1>7, <2>3, <3>1, PipesDiffer
      DEF AtReader, AtWriter, Live1, Live2, Live3, Live4
    <3>3. Cleared(ToReader(d))
      BY <1>1, <1>3, <1>7, <1>z, <3>1 DEF Cleared
    <3>4. Reasons(d)
      BY <1>5, <2>1, <3>2, <3>3 DEF Reasons
    <3>5. QED
      BY <1>4, <1>5, <2>1, <3>2, <3>4 DEF Moves, Loses
  <2>4. QED
    BY <2>2, <2>3
<1>8. CASE o = ToReader(e) /\ a = FromWriter(Back(e))
  <2>1. InMid(d)' = InMid(d)
    BY <1>1, <1>3, <1>6, <1>8, MidSame, PipesDiffer
  <2>2. CASE d = e
    <3>1. ToReader(d) \in shut'
      BY <1>1, <1>8, <2>2, PipesDiffer DEF Steady, Closings
    <3>2. AtWriter(d)' = AtWriter(d) /\ AtReader(d)' = SubSeq(q[o], 1, k) /\ AtReader(d) = q[o]
      BY <1>3, <1>8, <2>2, PipesDiffer DEF AtReader, AtWriter
    <3>3. ~Live2(d)'
      BY <3>1 DEF Live2
    <3>4. Cleared(FromWriter(Back(d)))
      BY <1>1, <1>3, <1>8, <1>z, <2>2 DEF Cleared
    <3>5. Reasons(d)
      BY <1>5, <2>1, <3>2, <3>4 DEF Reasons
    <3>6. QED
      BY <1>4, <1>5, <2>1, <3>2, <3>3, <3>5 DEF Moves, Loses
  <2>3. CASE d # e
    <3>1. d = Back(e) /\ FromWriter(d) \in deaf'
      BY <1>1, <1>8, <2>3, Each DEF Back
    <3>2. AtWriter(d)' = <<>> /\ AtReader(d)' = AtReader(d) /\ ~Live5(d)'
      BY <1>3, <1>8, <2>3, <3>1, PipesDiffer DEF AtReader, AtWriter, Live5
    <3>3. Cleared(FromWriter(d))
      BY <1>1, <1>3, <1>8, <1>z, <3>1 DEF Cleared
    <3>4. Reasons(d)
      BY <1>5, <2>1, <3>2, <3>3 DEF Reasons
    <3>5. QED
      BY <1>4, <1>5, <2>1, <3>2, <3>4 DEF Moves, Loses
  <2>4. QED
    BY <2>2, <2>3
<1>9. CASE o = Mid(e) /\ a = Mid(Back(e)) /\ i = 2
  <2>1. PassBy(d)
    BY <1>1, <1>3, <1>9, PipesDiffer DEF PassBy
  <2>2. CASE d = e
    <3>1. q'[Mid(d)] = q[Mid(d)]
      BY <1>2, <1>3, <1>9, <1>u, <2>2, WholePrefix
    <3>2. QED
      BY <1>1, <1>6, <2>1, <3>1, MidSame, QuietMoves
  <2>3. CASE d # e
    <3>1. d = Back(e) /\ Mid(d) \in deaf'
      BY <1>1, <1>9, <2>3, Each DEF Back
    <3>2. q'[Mid(d)] = <<>> /\ ~Live4(d)'
      BY <1>3, <1>9, <3>1 DEF Live3, Live4
    <3>3. InMid(d)' = <<>>
      <4>1. Header' = Header
        BY <1>1, SameWords
      <4>2. Skip(d)' = Skip(d)
        BY <1>6, <4>1 DEF Skip
      <4>3. \A j \in Nat : Behind(<<>>, j) = <<>>
        BY DEF Behind
      <4>4. Skip(d) \in Nat
        BY <1>t, SkipType
      <4>5. QED
        BY <3>2, <4>2, <4>3, <4>4 DEF InMid, Mid
    <3>4. QED
      BY <1>1, <2>1, <3>1, <3>2, <3>3, QuietMoves
  <2>4. QED
    BY <2>2, <2>3
<1>10. QED
  BY <1>0, <1>7, <1>8, <1>9 DEF a, o

LEMMA BreakMoves == ASSUME Steady, Break, NEW d \in Dirs PROVE Moves(d)
<1>t. Shapes /\ DOMAIN pc = 1..2 /\ q \in [Pipes -> Seq(0..255)]
  BY DEF Steady, Typed, Shapes
<1>1. PICK j \in 0..Len(q[<<"up", 2>>]), k \in 0..Len(q[<<"down", 2>>]) :
        q' = [q EXCEPT ![<<"up", 2>>] = SubSeq(@, 1, j), ![<<"down", 2>>] = SubSeq(@, 1, k)]
  BY DEF Break
<1>2. /\ UNCHANGED <<kind, head, hand, sent, got>> /\ link' = "dead"
      /\ pc'[2] = pc[2] \/ (pc[2] = "syn" /\ pc'[2] = "none")
  BY <1>t DEF Break, parse, ends, Goto
<1>3. At' = At /\ Header' = Header /\ (pc'[2] = "gone" <=> pc[2] = "gone")
  BY <1>2, AtSame, SameWords
<1>4. PICK m \in 0..Len(q[Mid(d)]) : q'[Mid(d)] = SubSeq(q[Mid(d)], 1, m)
  <2>1. <<"up", 2>> \in Pipes /\ <<"down", 2>> \in Pipes /\ <<"up", 2>> # <<"down", 2>>
    BY DEF Pipes, Dirs
  <2>2. /\ q'[<<"up", 2>>] = SubSeq(q[<<"up", 2>>], 1, j)
        /\ q'[<<"down", 2>>] = SubSeq(q[<<"down", 2>>], 1, k)
    BY <1>t, <1>1, <2>1
  <2>3. d = "up" => Mid(d) = <<"up", 2>>
    BY DEF Mid
  <2>4. d = "down" => Mid(d) = <<"down", 2>>
    BY DEF Mid
  <2>5. QED
    BY <2>2, <2>3, <2>4, Each
<1>5. q'[ToReader(d)] = q[ToReader(d)] /\ q'[FromWriter(d)] = q[FromWriter(d)]
  <2>1. \A p \in Pipes : p # Mid("up") /\ p # Mid("down") => q'[p] = q[p]
    BY <1>t, <1>1 DEF Mid
  <2>2. QED
    BY <2>1, PipesDiffer, Each
<1>6. /\ AtReader(d)' = AtReader(d) /\ AtWriter(d)' = AtWriter(d)
      /\ InNear(d)' = InNear(d) /\ InFar(d)' = InFar(d) /\ sent'[d] = sent[d] /\ got'[d] = got[d]
  BY <1>2, <1>5 DEF AtReader, AtWriter, InNear, InFar
<1>7. /\ AtReader(d) \in Seq(0..255) /\ InMid(d) \in Seq(0..255) /\ AtWriter(d) \in Seq(0..255)
      /\ q[Mid(d)] \in Seq(0..255)
  BY <1>t, CarriedType
<1>8. Part(InMid(d)', InMid(d))
  <2>1. CASE d = "up" /\ (kind = "fake" \/ pc[2] = "gone")
    <3>1. InMid(d)' = <<>>
      BY <1>2, <1>3, <2>1 DEF InMid
    <3>2. QED
      BY <1>7, <3>1, PartOf
  <2>2. CASE ~(d = "up" /\ (kind = "fake" \/ pc[2] = "gone"))
    <3>1. Skip(d)' = Skip(d) /\ Skip(d) \in Nat
      BY <1>t, <1>3, SkipType DEF Skip
    <3>2. InMid(d) = Behind(q[Mid(d)], Skip(d)) /\ InMid(d)' = Behind(q'[Mid(d)], Skip(d))
      BY <1>2, <1>3, <2>2, <3>1 DEF InMid, Mid
    <3>3. PICK k1 \in Nat, s \in Seq(0..255) : k1 = Skip(d) /\ s = q[Mid(d)]
      BY <1>7, <3>1
    <3>4. Part(Behind(SubSeq(s, 1, m), k1), Behind(s, k1))
      BY <3>3, PrefixPart
    <3>5. QED
      BY <1>4, <3>2, <3>3, <3>4
  <2>3. QED
    BY <2>1, <2>2
<1>9. ~Live4(d)'
  BY <1>2 DEF Live4
<1>10. Part(AtReader(d), AtReader(d)) /\ Part(AtWriter(d), AtWriter(d))
  BY <1>7, PartOf
<1>11. Reasons(d)
  BY <1>2, <1>6 DEF Reasons
<1>12. QED
  BY <1>6, <1>8, <1>9, <1>10, <1>11 DEF Moves, Loses, Live5

\* Every step moves a direction in one of these ways.
LEMMA MovesStep == ASSUME Steady, [Next]_vars, NEW d \in Dirs PROVE Moves(d)
<1> USE DEF Goto
<1>t. DOMAIN pc = 1..2 /\ pc[2] \in AcceptorAt
  BY DEF Steady, Typed, Shapes, Places
<1>1. CASE UNCHANGED vars
  BY <1>1, StillMoves DEF vars
<1>2. ASSUME NEW n \in Relays, RelayStep(n) \/ Notice(n) PROVE Moves(d)
  <2>1. UNCHANGED <<kind, q, hand, head, sent, got>>
    BY <1>2 DEF RelayStep, CloseA, CloseB, Leave, Notice, pipes, parse, ends
  <2>2. /\ pc'[2] = pc[2] \/ pc'[2] = "gone" \/ (pc[2] = "relay" /\ pc'[2] = "closeB")
           \/ (pc[2] = "closeB" /\ pc'[2] = "wait")
    BY <1>2, <1>t, Each DEF RelayStep, CloseA, CloseB, Leave, Notice
  <2>3. QED
    BY <2>1, <2>2, StillMoves
<1>3. QED
  BY <1>1, <1>2, OpenerMoves, AcceptorMoves, CopierMoves, PeerMoves, ResetMoves, BreakMoves
  DEF Next

-----------------------------------------------------------------------------
(* Nothing is there twice                                                  *)

Carried ==
  \A d \in Dirs :
    /\ AtReader(d) \in Seq(0..255) /\ InNear(d) \in Seq(0..255) /\ InMid(d) \in Seq(0..255)
    /\ InFar(d) \in Seq(0..255) /\ AtWriter(d) \in Seq(0..255)
    /\ got[d] \in Seq(0..255) /\ sent[d] \in Seq(0..255)

LEMMA CarriedOK == Steady => Carried
<1> SUFFICES ASSUME Steady PROVE Carried
  OBVIOUS
<1>1. Shapes /\ Texts
  BY DEF Steady, Typed
<1>2. QED
  BY <1>1, CarriedType DEF Carried, Shapes, Texts

LEMMA CarriedNext == Steady /\ [Next]_vars => Carried'
<1>1. Steady' => Carried'
  BY CarriedOK, PTL
<1>2. QED
  BY <1>1, SteadyStep

\* Where each part of a direction begins in what was sent, if nothing was lost.
P1(d) == Len(got[d]) + Len(AtReader(d))
P2(d) == P1(d) + Len(InNear(d))
P3(d) == P2(d) + Len(InMid(d))
P4(d) == P3(d) + Len(InFar(d))
Total(d) == P4(d) + Len(AtWriter(d))

\* Nothing is there twice, and nothing has been lost.
Counted == \A d \in Dirs : Total(d) <= Len(sent[d])
Whole(d) == Total(d) = Len(sent[d])

LEMMA Lengths ==
  ASSUME Carried, NEW d \in Dirs
  PROVE  /\ Len(got[d]) \in Nat /\ Len(sent[d]) \in Nat /\ Len(AtReader(d)) \in Nat
         /\ Len(InNear(d)) \in Nat /\ Len(InMid(d)) \in Nat /\ Len(InFar(d)) \in Nat
         /\ Len(AtWriter(d)) \in Nat
         /\ P1(d) \in Nat /\ P2(d) \in Nat /\ P3(d) \in Nat /\ P4(d) \in Nat /\ Total(d) \in Nat
<1>1. /\ Len(got[d]) \in Nat /\ Len(sent[d]) \in Nat /\ Len(AtReader(d)) \in Nat
      /\ Len(InNear(d)) \in Nat /\ Len(InMid(d)) \in Nat /\ Len(InFar(d)) \in Nat
      /\ Len(AtWriter(d)) \in Nat
  <2>1. \A s \in Seq(0..255) : Len(s) \in Nat
    OBVIOUS
  <2>2. QED
    BY <2>1 DEF Carried
<1>2. QED
  BY <1>1 DEF P1, P2, P3, P4, Total

Sizes ==
  \A d \in Dirs :
         /\ Len(got[d]) \in Nat /\ Len(sent[d]) \in Nat /\ Len(AtReader(d)) \in Nat
         /\ Len(InNear(d)) \in Nat /\ Len(InMid(d)) \in Nat /\ Len(InFar(d)) \in Nat
         /\ Len(AtWriter(d)) \in Nat
         /\ P1(d) \in Nat /\ P2(d) \in Nat /\ P3(d) \in Nat /\ P4(d) \in Nat /\ Total(d) \in Nat

LEMMA SizesOK == Steady => Sizes
BY CarriedOK, Lengths DEF Sizes

LEMMA SizesNext == Steady /\ [Next]_vars => Sizes'
<1>1. Steady' => Sizes'
  BY SizesOK, PTL
<1>2. QED
  BY <1>1, SteadyStep

\* How the parts of a direction shift.
Shift(d) ==
  \/ /\ Loses(d) /\ Len(AtReader(d)') <= Len(AtReader(d)) /\ Len(InNear(d)') <= Len(InNear(d))
     /\ Len(InMid(d)') <= Len(InMid(d)) /\ Len(InFar(d)') <= Len(InFar(d))
     /\ Len(AtWriter(d)') <= Len(AtWriter(d))
  \/ /\ Receives(d) /\ Len(got'[d]) = Len(got[d]) + 1
     /\ Len(AtReader(d)') = Len(AtReader(d)) - 1
     /\ P1(d)' = P1(d) /\ P2(d)' = P2(d) /\ P3(d)' = P3(d) /\ P4(d)' = P4(d)
     /\ Total(d)' = Total(d)
  \/ /\ WritesOut(d)
     /\ P1(d)' = P2(d) /\ P2(d)' = P2(d) /\ P3(d)' = P3(d) /\ P4(d)' = P4(d)
     /\ Total(d)' = Total(d)
  \/ /\ ReadsMid(d)
     /\ P1(d)' = P1(d) /\ P2(d) = P1(d) /\ P2(d)' = P2(d) + 1 /\ P3(d)' = P3(d)
     /\ P4(d)' = P4(d) /\ Total(d)' = Total(d)
  \/ /\ WritesMid(d)
     /\ P1(d)' = P1(d) /\ P2(d)' = P2(d) /\ P3(d)' = P4(d) /\ P4(d)' = P4(d)
     /\ Total(d)' = Total(d)
  \/ /\ ReadsIn(d)
     /\ P1(d)' = P1(d) /\ P2(d)' = P2(d) /\ P3(d)' = P3(d) /\ P4(d) = P3(d)
     /\ P4(d)' = P4(d) + 1 /\ Total(d)' = Total(d)
  \/ /\ Sends(d)
     /\ P1(d)' = P1(d) /\ P2(d)' = P2(d) /\ P3(d)' = P3(d) /\ P4(d)' = P4(d)
     /\ Total(d)' = Total(d) + 1 /\ Len(sent'[d]) = Len(sent[d]) + 1

LEMMA TailSize == ASSUME NEW s \in Seq(0..255), s # <<>> PROVE Len(Tail(s)) = Len(s) - 1 /\ s[1] \in 0..255
BY TailOf

LEMMA ShiftStep == ASSUME Steady, [Next]_vars, NEW d \in Dirs PROVE Shift(d)
<1>c. Carried /\ Carried' /\ Sizes /\ Sizes'
  BY CarriedOK, CarriedNext, SizesOK, SizesNext
<1>t. /\ AtReader(d) \in Seq(0..255) /\ InNear(d) \in Seq(0..255) /\ InMid(d) \in Seq(0..255)
      /\ InFar(d) \in Seq(0..255) /\ AtWriter(d) \in Seq(0..255)
      /\ got[d] \in Seq(0..255) /\ sent[d] \in Seq(0..255)
  BY <1>c DEF Carried
<1>n. /\ Len(got[d]) \in Nat /\ Len(sent[d]) \in Nat /\ Len(AtReader(d)) \in Nat
      /\ Len(InNear(d)) \in Nat /\ Len(InMid(d)) \in Nat /\ Len(InFar(d)) \in Nat
      /\ Len(AtWriter(d)) \in Nat
  BY <1>c DEF Sizes
<1>m. /\ Len(got'[d]) \in Nat /\ Len(AtReader(d)') \in Nat /\ Len(InNear(d)') \in Nat
      /\ Len(InMid(d)') \in Nat /\ Len(InFar(d)') \in Nat /\ Len(AtWriter(d)') \in Nat
  BY <1>c DEF Sizes
<1>e. Len(<<>>) = 0
  OBVIOUS
<1>1. CASE Loses(d)
  BY <1>1, <1>n, <1>e DEF Shift, Loses, Part
<1>2. CASE Receives(d)
  <2>1. Len(AtReader(d)') = Len(AtReader(d)) - 1
    BY <1>t, <1>2, TailSize DEF Receives
  <2>2. Len(got'[d]) = Len(got[d]) + 1
    <3>1. AtReader(d)[1] \in 0..255
      BY <1>t, <1>2, TailSize DEF Receives
    <3>2. QED
      BY <1>t, <1>2, <3>1, AppendOf DEF Receives
  <2>3. /\ Len(InNear(d)') = Len(InNear(d)) /\ Len(InMid(d)') = Len(InMid(d))
        /\ Len(InFar(d)') = Len(InFar(d)) /\ Len(AtWriter(d)') = Len(AtWriter(d))
    BY <1>2 DEF Receives
  <2>4. QED
    BY <1>2, <1>n, <2>1, <2>2, <2>3 DEF Shift, P1, P2, P3, P4, Total
<1>3. CASE WritesOut(d)
  <2>1. Len(AtReader(d)') = Len(AtReader(d)) + Len(InNear(d)) /\ Len(InNear(d)') = 0
    BY <1>t, <1>3, <1>e, ConcatOf DEF WritesOut
  <2>2. /\ Len(got'[d]) = Len(got[d]) /\ Len(InMid(d)') = Len(InMid(d))
        /\ Len(InFar(d)') = Len(InFar(d)) /\ Len(AtWriter(d)') = Len(AtWriter(d))
    BY <1>3 DEF WritesOut
  <2>3. QED
    <3>n. P1(d) \in Nat /\ P2(d) \in Nat /\ P3(d) \in Nat /\ P4(d) \in Nat
      BY <1>c DEF Sizes
    <3>1. P1(d)' = P2(d)
      <4>1. P1(d)' = Len(got[d]) + (Len(AtReader(d)) + Len(InNear(d)))
        BY <2>1, <2>2 DEF P1
      <4>2. P2(d) = (Len(got[d]) + Len(AtReader(d))) + Len(InNear(d))
        BY DEF P1, P2
      <4>3. PICK a \in Nat, b \in Nat, c \in Nat :
              a = Len(got[d]) /\ b = Len(AtReader(d)) /\ c = Len(InNear(d))
        BY <1>n
      <4>4. a + (b + c) = (a + b) + c
        OBVIOUS
      <4>5. QED
        BY <4>1, <4>2, <4>3, <4>4
    <3>2. P2(d)' = P2(d)
      BY <1>n, <1>m, <2>1, <2>2, <3>n, <3>1 DEF P2
    <3>3. P3(d)' = P3(d)
      BY <1>n, <1>m, <2>1, <2>2, <3>n, <3>2 DEF P3
    <3>4. P4(d)' = P4(d)
      BY <1>n, <1>m, <2>1, <2>2, <3>n, <3>3 DEF P4
    <3>5. Total(d)' = Total(d)
      BY <1>n, <1>m, <2>1, <2>2, <3>n, <3>4 DEF Total
    <3>6. QED
      BY <1>3, <2>1, <3>1, <3>2, <3>3, <3>4, <3>5 DEF Shift
<1>4. CASE ReadsMid(d)
  <2>1. /\ Len(InNear(d)) = 0 /\ Len(InMid(d)') = Len(InMid(d)) - 1
    BY <1>t, <1>4, <1>e, TailSize DEF ReadsMid
  <2>2. Len(InNear(d)') = 1
    BY <1>4 DEF ReadsMid
  <2>3. /\ Len(got'[d]) = Len(got[d]) /\ Len(AtReader(d)') = Len(AtReader(d))
        /\ Len(InFar(d)') = Len(InFar(d)) /\ Len(AtWriter(d)') = Len(AtWriter(d))
    BY <1>4 DEF ReadsMid
  <2>4. QED
    BY <1>4, <1>n, <2>1, <2>2, <2>3 DEF Shift, P1, P2, P3, P4, Total
<1>5. CASE WritesMid(d)
  <2>1. Len(InMid(d)') = Len(InMid(d)) + Len(InFar(d)) /\ Len(InFar(d)') = 0
    BY <1>t, <1>5, <1>e, ConcatOf DEF WritesMid
  <2>2. /\ Len(got'[d]) = Len(got[d]) /\ Len(AtReader(d)') = Len(AtReader(d))
        /\ Len(InNear(d)') = Len(InNear(d)) /\ Len(AtWriter(d)') = Len(AtWriter(d))
    BY <1>5 DEF WritesMid
  <2>3. QED
    <3>n. P1(d) \in Nat /\ P2(d) \in Nat /\ P3(d) \in Nat /\ P4(d) \in Nat
      BY <1>c DEF Sizes
    <3>1. P1(d)' = P1(d)
      BY <1>n, <1>m, <2>1, <2>2, <3>n DEF P1
    <3>2. P2(d)' = P2(d)
      BY <1>n, <1>m, <2>1, <2>2, <3>n, <3>1 DEF P2
    <3>3. P3(d)' = P4(d)
      BY <1>n, <1>m, <2>1, <2>2, <3>n, <3>2 DEF P3, P4
    <3>4. P4(d)' = P4(d)
      BY <1>n, <1>m, <2>1, <2>2, <3>n, <3>3 DEF P4
    <3>5. Total(d)' = Total(d)
      BY <1>n, <1>m, <2>1, <2>2, <3>n, <3>4 DEF Total
    <3>6. QED
      BY <1>5, <2>1, <3>1, <3>2, <3>3, <3>4, <3>5 DEF Shift
<1>6. CASE ReadsIn(d)
  <2>1. /\ Len(InFar(d)) = 0 /\ Len(AtWriter(d)') = Len(AtWriter(d)) - 1
    BY <1>t, <1>6, <1>e, TailSize DEF ReadsIn
  <2>2. Len(InFar(d)') = 1
    BY <1>6 DEF ReadsIn
  <2>3. /\ Len(got'[d]) = Len(got[d]) /\ Len(AtReader(d)') = Len(AtReader(d))
        /\ Len(InNear(d)') = Len(InNear(d)) /\ Len(InMid(d)') = Len(InMid(d))
    BY <1>6 DEF ReadsIn
  <2>4. QED
    BY <1>6, <1>n, <2>1, <2>2, <2>3 DEF Shift, P1, P2, P3, P4, Total
<1>7. CASE Sends(d)
  <2>1. Len(AtWriter(d)') = Len(AtWriter(d)) + 1 /\ Len(sent'[d]) = Len(sent[d]) + 1
    BY <1>t, <1>7, AppendOf DEF Sends
  <2>2. /\ Len(got'[d]) = Len(got[d]) /\ Len(AtReader(d)') = Len(AtReader(d))
        /\ Len(InNear(d)') = Len(InNear(d)) /\ Len(InMid(d)') = Len(InMid(d))
        /\ Len(InFar(d)') = Len(InFar(d))
    BY <1>7 DEF Sends
  <2>3. QED
    <3>n. P1(d) \in Nat /\ P2(d) \in Nat /\ P3(d) \in Nat /\ P4(d) \in Nat
      BY <1>c DEF Sizes
    <3>1. P1(d)' = P1(d)
      BY <1>n, <1>m, <2>1, <2>2, <3>n DEF P1
    <3>2. P2(d)' = P2(d)
      BY <1>n, <1>m, <2>1, <2>2, <3>n, <3>1 DEF P2
    <3>3. P3(d)' = P3(d)
      BY <1>n, <1>m, <2>1, <2>2, <3>n, <3>2 DEF P3
    <3>4. P4(d)' = P4(d)
      BY <1>n, <1>m, <2>1, <2>2, <3>n, <3>3 DEF P4
    <3>5. Total(d)' = Total(d) + 1
      BY <1>n, <1>m, <2>1, <2>2, <3>n, <3>4 DEF Total
    <3>6. QED
      BY <1>7, <2>1, <3>1, <3>2, <3>3, <3>4, <3>5 DEF Shift
<1>8. QED
  BY MovesStep, <1>1, <1>2, <1>3, <1>4, <1>5, <1>6, <1>7 DEF Moves

\* What is missing is missing for ever.
LEMMA MissingStep ==
  ASSUME Steady, [Next]_vars, NEW d \in Dirs
  PROVE  Total(d)' - Len(sent'[d]) <= Total(d) - Len(sent[d])
<1>1. Shift(d) /\ Sizes /\ Sizes'
  BY ShiftStep, SizesOK, SizesNext
<1>n. /\ Len(got[d]) \in Nat /\ Len(sent[d]) \in Nat /\ Len(AtReader(d)) \in Nat
      /\ Len(InNear(d)) \in Nat /\ Len(InMid(d)) \in Nat /\ Len(InFar(d)) \in Nat
      /\ Len(AtWriter(d)) \in Nat /\ Total(d) \in Nat
  BY <1>1 DEF Sizes
<1>m. /\ Len(AtReader(d)') \in Nat
      /\ Len(InNear(d)') \in Nat /\ Len(InMid(d)') \in Nat /\ Len(InFar(d)') \in Nat
      /\ Len(AtWriter(d)') \in Nat
  BY <1>1 DEF Sizes
<1>2. CASE /\ Loses(d) /\ Len(AtReader(d)') <= Len(AtReader(d)) /\ Len(InNear(d)') <= Len(InNear(d))
           /\ Len(InMid(d)') <= Len(InMid(d)) /\ Len(InFar(d)') <= Len(InFar(d))
           /\ Len(AtWriter(d)') <= Len(AtWriter(d))
  <2>1. got'[d] = got[d] /\ sent'[d] = sent[d]
    BY <1>2 DEF Loses
  <2>2. QED
    BY <1>2, <1>n, <1>m, <2>1 DEF P1, P2, P3, P4, Total
<1>3. CASE Sends(d) /\ Total(d)' = Total(d) + 1 /\ Len(sent'[d]) = Len(sent[d]) + 1
  BY <1>3, <1>n
<1>4. CASE Total(d)' = Total(d) /\ sent'[d] = sent[d]
  BY <1>4, <1>n
<1>5. QED
  BY <1>1, <1>2, <1>3, <1>4 DEF Shift, Receives, WritesOut, ReadsMid, WritesMid, ReadsIn

LEMMA InitCounted == Init => Counted
<1> SUFFICES ASSUME Init, NEW d \in Dirs PROVE Total(d) <= Len(sent[d])
  BY DEF Counted
<1>1. /\ got[d] = <<>> /\ sent[d] = <<>> /\ AtReader(d) = <<>> /\ InNear(d) = <<>>
      /\ InFar(d) = <<>> /\ AtWriter(d) = <<>> /\ q[Mid(d)] = <<>>
  BY PipesDiffer, PipesAre DEF Init, AtReader, InNear, InFar, AtWriter
<1>2. InMid(d) = <<>>
  <2>1. Behind(<<>>, Skip(d)) = <<>>
    <3>1. Skip(d) \in Nat
      BY InitShapes, SkipType
    <3>2. QED
      BY <3>1 DEF Behind
  <2>2. QED
    BY <1>1, <2>1 DEF InMid
<1>3. Len(<<>>) = 0
  OBVIOUS
<1>4. QED
  BY <1>1, <1>2, <1>3 DEF P1, P2, P3, P4, Total

LEMMA CountedStep == Steady /\ Counted /\ [Next]_vars => Counted'
<1> SUFFICES ASSUME Steady, Counted, [Next]_vars, NEW d \in Dirs PROVE Total(d)' <= Len(sent'[d])
  BY DEF Counted
<1>1. Sizes /\ Sizes'
  BY SizesOK, SizesNext
<1>2. /\ Total(d) \in Nat /\ Len(sent[d]) \in Nat /\ Total(d)' \in Nat /\ Len(sent'[d]) \in Nat
  BY <1>1 DEF Sizes
<1>3. Total(d)' - Len(sent'[d]) <= Total(d) - Len(sent[d])
  BY MissingStep
<1>4. Total(d) <= Len(sent[d])
  BY DEF Counted
<1>5. QED
  BY <1>2, <1>3, <1>4

LEMMA WholeStep ==
  ASSUME Steady, Counted, [Next]_vars, NEW d \in Dirs, Whole(d)'
  PROVE  Whole(d)
<1>1. Sizes /\ Sizes'
  BY SizesOK, SizesNext
<1>2. /\ Total(d) \in Nat /\ Len(sent[d]) \in Nat /\ Total(d)' \in Nat /\ Len(sent'[d]) \in Nat
  BY <1>1 DEF Sizes
<1>3. Total(d)' - Len(sent'[d]) <= Total(d) - Len(sent[d])
  BY MissingStep
<1>4. Total(d) <= Len(sent[d]) /\ Total(d)' = Len(sent'[d])
  BY DEF Counted, Whole
<1>5. QED
  BY <1>2, <1>3, <1>4 DEF Whole

-----------------------------------------------------------------------------
(* Every part is the piece of what was sent that belongs there             *)

Segment(s, t, from) == \A i \in 1..Len(s) : s[i] = t[from + i]

LEMMA SegmentNone == ASSUME NEW t, NEW from PROVE Segment(<<>>, t, from)
<1>1. Len(<<>>) = 0 /\ \A i \in 1..0 : FALSE
  OBVIOUS
<1>2. QED
  BY <1>1 DEF Segment

LEMMA SegmentOne == ASSUME NEW x, NEW t, NEW from, x = t[from + 1] PROVE Segment(<<x>>, t, from)
<1>1. Len(<<x>>) = 1 /\ <<x>>[1] = x /\ \A i \in 1..1 : i = 1
  OBVIOUS
<1>2. QED
  BY <1>1 DEF Segment

LEMMA SegmentTail ==
  ASSUME NEW s \in Seq(0..255), NEW t, NEW from \in Nat, s # <<>>, Segment(s, t, from)
  PROVE  s[1] = t[from + 1] /\ Segment(Tail(s), t, from + 1)
<1>1. PICK r \in Seq(0..255) : r = Tail(s)
  BY TailOf
<1>2. Len(s) \in Nat /\ Len(s) >= 1 /\ Len(r) = Len(s) - 1 /\ \A i \in 1..Len(r) : r[i] = s[i + 1]
  BY <1>1, TailOf
<1>3. ASSUME NEW i \in 1..Len(r) PROVE r[i] = t[(from + 1) + i]
  <2>1. i + 1 \in 1..Len(s) /\ from + (i + 1) = (from + 1) + i
    BY <1>2
  <2>2. s[i + 1] = t[from + (i + 1)]
    BY <2>1 DEF Segment
  <2>3. QED
    BY <1>2, <2>1, <2>2
<1>4. 1 \in 1..Len(s)
  BY <1>2
<1>5. QED
  BY <1>1, <1>3, <1>4 DEF Segment

LEMMA SegmentConcat ==
  ASSUME NEW s \in Seq(0..255), NEW u \in Seq(0..255), NEW t, NEW from \in Nat, NEW then \in Nat,
         Segment(s, t, from), Segment(u, t, then), then = from + Len(s)
  PROVE  Segment(s \o u, t, from)
<1>1. PICK r \in Seq(0..255) : r = s \o u
  BY ConcatOf
<1>2. /\ Len(s) \in Nat /\ Len(u) \in Nat /\ Len(r) = Len(s) + Len(u)
      /\ \A i \in 1..Len(s) : r[i] = s[i]
      /\ \A i \in 1..Len(u) : r[Len(s) + i] = u[i]
  BY <1>1, ConcatOf
<1>3. ASSUME NEW i \in 1..Len(r) PROVE r[i] = t[from + i]
  <2>1. CASE i \in 1..Len(s)
    BY <1>2, <2>1 DEF Segment
  <2>2. CASE i \notin 1..Len(s)
    <3>1. i - Len(s) \in 1..Len(u) /\ i = Len(s) + (i - Len(s)) /\ then + (i - Len(s)) = from + i
      BY <1>2, <2>2
    <3>2. PICK j \in 1..Len(u) : i = Len(s) + j /\ then + j = from + i
      BY <3>1
    <3>3. r[Len(s) + j] = u[j] /\ u[j] = t[then + j]
      BY <1>2 DEF Segment
    <3>4. QED
      BY <3>2, <3>3
  <2>3. QED
    BY <2>1, <2>2
<1>4. QED
  BY <1>1, <1>3 DEF Segment

LEMMA SegmentAppend ==
  ASSUME NEW s \in Seq(0..255), NEW x \in 0..255, NEW t, NEW from \in Nat,
         Segment(s, t, from), x = t[from + Len(s) + 1]
  PROVE  Segment(Append(s, x), t, from)
<1>1. PICK r \in Seq(0..255) : r = Append(s, x)
  BY AppendOf
<1>2. /\ Len(s) \in Nat /\ Len(r) = Len(s) + 1 /\ r[Len(s) + 1] = x
      /\ \A i \in 1..Len(s) : r[i] = s[i]
  BY <1>1, AppendOf
<1>3. ASSUME NEW i \in 1..Len(r) PROVE r[i] = t[from + i]
  <2>1. CASE i \in 1..Len(s)
    BY <1>2, <2>1 DEF Segment
  <2>2. CASE i \notin 1..Len(s)
    <3>1. i = Len(s) + 1 /\ from + i = from + Len(s) + 1
      BY <1>2, <2>2
    <3>2. QED
      BY <1>2, <3>1
  <2>3. QED
    BY <2>1, <2>2
<1>4. QED
  BY <1>1, <1>3 DEF Segment

LEMMA SegmentPart ==
  ASSUME NEW r, NEW s, NEW t, NEW from, Len(r) \in Nat, Len(s) \in Nat,
         Part(r, s), Segment(s, t, from)
  PROVE  Segment(r, t, from)
BY DEF Part, Segment

LEMMA SegmentGrow ==
  ASSUME NEW s \in Seq(0..255), NEW t \in Seq(0..255), NEW x \in 0..255, NEW from \in Nat,
         from + Len(s) <= Len(t), Segment(s, t, from)
  PROVE  Segment(s, Append(t, x), from)
<1>1. PICK u \in Seq(0..255) : u = Append(t, x)
  BY AppendOf
<1>2. Len(s) \in Nat /\ Len(t) \in Nat /\ \A i \in 1..Len(t) : u[i] = t[i]
  BY <1>1, AppendOf
<1>3. ASSUME NEW i \in 1..Len(s) PROVE s[i] = u[from + i]
  <2>1. from + i \in 1..Len(t)
    BY <1>2
  <2>2. QED
    BY <1>2, <2>1 DEF Segment
<1>4. QED
  BY <1>1, <1>3 DEF Segment

Content(d) ==
  /\ Segment(got[d], sent[d], 0)
  /\ Live1(d) => Segment(AtReader(d), sent[d], Len(got[d]))
  /\ Live2(d) => Segment(InNear(d), sent[d], P1(d))
  /\ Live3(d) => Segment(InMid(d), sent[d], P2(d))
  /\ Live4(d) => Segment(InFar(d), sent[d], P3(d))
  /\ Live5(d) => Segment(AtWriter(d), sent[d], P4(d))
  /\ Live5(d) /\ FromWriter(d) \notin shut => Whole(d)

Contents == \A d \in Dirs : Content(d)

LEMMA InitContents == Init => Contents
<1> SUFFICES ASSUME Init, NEW d \in Dirs PROVE Content(d)
  BY DEF Contents
<1>1. Steady /\ Counted
  BY InitSteady, InitCounted
<1>2. Sizes
  BY <1>1, SizesOK
<1>3. /\ Len(got[d]) \in Nat /\ Len(AtReader(d)) \in Nat /\ Len(InNear(d)) \in Nat
      /\ Len(InMid(d)) \in Nat /\ Len(InFar(d)) \in Nat /\ Len(AtWriter(d)) \in Nat
      /\ Total(d) <= Len(sent[d])
  BY <1>1, <1>2 DEF Sizes, Counted
<1>4. Len(sent[d]) = 0
  <2>1. sent[d] = <<>> /\ Len(<<>>) = 0
    BY DEF Init
  <2>2. QED
    BY <2>1
<1>5. /\ Len(got[d]) = 0 /\ Len(AtReader(d)) = 0 /\ Len(InNear(d)) = 0 /\ Len(InMid(d)) = 0
      /\ Len(InFar(d)) = 0 /\ Len(AtWriter(d)) = 0 /\ Whole(d)
  BY <1>3, <1>4 DEF P1, P2, P3, P4, Total, Whole
<1>6. \A i \in 1..0 : FALSE
  OBVIOUS
<1>7. QED
  BY <1>5, <1>6 DEF Content, Segment

LEMMA ContentsStep == Steady /\ Counted /\ Contents /\ [Next]_vars => Contents'
<1> SUFFICES ASSUME Steady, Counted, Contents, [Next]_vars, NEW d \in Dirs PROVE Content(d)'
  BY DEF Contents
<1>s. Shift(d) /\ Sizes /\ Sizes' /\ Carried /\ Carried'
  BY ShiftStep, SizesOK, SizesNext, CarriedOK, CarriedNext
<1>n. /\ Len(got[d]) \in Nat /\ Len(sent[d]) \in Nat /\ Len(AtReader(d)) \in Nat
      /\ Len(InNear(d)) \in Nat /\ Len(InMid(d)) \in Nat /\ Len(InFar(d)) \in Nat
      /\ Len(AtWriter(d)) \in Nat
      /\ P1(d) \in Nat /\ P2(d) \in Nat /\ P3(d) \in Nat /\ P4(d) \in Nat /\ Total(d) \in Nat
  BY <1>s DEF Sizes
<1>m. /\ Len(AtReader(d)') \in Nat /\ Len(InNear(d)') \in Nat /\ Len(InMid(d)') \in Nat
      /\ Len(InFar(d)') \in Nat /\ Len(AtWriter(d)') \in Nat
  BY <1>s DEF Sizes
<1>t. /\ AtReader(d) \in Seq(0..255) /\ InNear(d) \in Seq(0..255) /\ InMid(d) \in Seq(0..255)
      /\ InFar(d) \in Seq(0..255) /\ AtWriter(d) \in Seq(0..255)
      /\ got[d] \in Seq(0..255) /\ sent[d] \in Seq(0..255)
  BY <1>s DEF Carried
<1>l. /\ Live1(d)' => Live1(d)
      /\ Live2(d)' => Live2(d)
      /\ Live3(d)' => Live3(d)
      /\ Live4(d)' => Live4(d)
      /\ Live5(d)' => Live5(d)
      /\ Live2(d)' => Live1(d)'
      /\ Live3(d)' => Live2(d)'
      /\ Live4(d)' => Live3(d)'
      /\ Live5(d)' => Live4(d)'
      /\ FromWriter(d) \in shut => FromWriter(d) \in shut'
  BY LiveStep, ClosesStep, ClosesGrow DEF Live2, Live3, Live4, Live5
<1>c. /\ Segment(got[d], sent[d], 0)
      /\ Live1(d) => Segment(AtReader(d), sent[d], Len(got[d]))
      /\ Live2(d) => Segment(InNear(d), sent[d], P1(d))
      /\ Live3(d) => Segment(InMid(d), sent[d], P2(d))
      /\ Live4(d) => Segment(InFar(d), sent[d], P3(d))
      /\ Live5(d) => Segment(AtWriter(d), sent[d], P4(d))
      /\ Live5(d) /\ FromWriter(d) \notin shut => Whole(d)
  BY DEF Contents, Content
<1>0. \A t, from : Segment(<<>>, t, from)
  BY SegmentNone
<1>1. CASE Loses(d)
  <2>1. /\ got'[d] = got[d] /\ sent'[d] = sent[d]
        /\ Part(AtReader(d)', AtReader(d)) /\ (Live2(d)' => AtReader(d)' = AtReader(d))
        /\ InNear(d)' = InNear(d) \/ (InNear(d)' = <<>> /\ ~Live2(d)')
        /\ Part(InMid(d)', InMid(d)) /\ (Live4(d)' => InMid(d)' = InMid(d))
        /\ InFar(d)' = InFar(d) \/ (InFar(d)' = <<>> /\ ~Live4(d)')
        /\ Part(AtWriter(d)', AtWriter(d))
        /\ Live5(d)' /\ FromWriter(d) \notin shut' => AtWriter(d)' = AtWriter(d)
    BY <1>1 DEF Loses
  <2>2. Live2(d)' => P1(d)' = P1(d)
    BY <2>1 DEF P1
  <2>3. Live2(d)' => P2(d)' = P2(d)
    BY <2>1, <2>2 DEF P2
  <2>4. Live4(d)' => P3(d)' = P3(d)
    BY <1>l, <2>1, <2>3 DEF P3
  <2>5. Live4(d)' => P4(d)' = P4(d)
    BY <2>1, <2>4 DEF P4
  <2>6. Live1(d)' => Segment(AtReader(d)', sent'[d], Len(got'[d]))
    BY <1>c, <1>l, <1>n, <1>m, <2>1, SegmentPart
  <2>7. Live2(d)' => Segment(InNear(d)', sent'[d], P1(d)')
    BY <1>c, <1>l, <2>1, <2>2
  <2>8. Live3(d)' => Segment(InMid(d)', sent'[d], P2(d)')
    BY <1>c, <1>l, <1>n, <1>m, <2>1, <2>3, SegmentPart
  <2>9. Live4(d)' => Segment(InFar(d)', sent'[d], P3(d)')
    BY <1>c, <1>l, <2>1, <2>4
  <2>10. Live5(d)' => Segment(AtWriter(d)', sent'[d], P4(d)')
    BY <1>c, <1>l, <1>n, <1>m, <2>1, <2>5, SegmentPart
  <2>11. Live5(d)' /\ FromWriter(d) \notin shut' => Whole(d)'
    <3>1. Live5(d)' /\ FromWriter(d) \notin shut' => Total(d)' = Total(d)
      BY <1>l, <2>1, <2>5 DEF Total
    <3>2. QED
      BY <1>c, <1>l, <2>1, <3>1 DEF Whole
  <2>12. QED
    BY <1>c, <2>1, <2>6, <2>7, <2>8, <2>9, <2>10, <2>11 DEF Content
<1>2. CASE /\ Receives(d) /\ Len(got'[d]) = Len(got[d]) + 1
           /\ Len(AtReader(d)') = Len(AtReader(d)) - 1
           /\ P1(d)' = P1(d) /\ P2(d)' = P2(d) /\ P3(d)' = P3(d) /\ P4(d)' = P4(d)
           /\ Total(d)' = Total(d)
  <2>1. /\ AtReader(d) # <<>> /\ AtReader(d)' = Tail(AtReader(d))
        /\ got'[d] = Append(got[d], AtReader(d)[1])
        /\ sent'[d] = sent[d] /\ InNear(d)' = InNear(d) /\ InMid(d)' = InMid(d)
        /\ InFar(d)' = InFar(d) /\ AtWriter(d)' = AtWriter(d) /\ Live1(d)
    BY <1>2 DEF Receives, Live1
  <2>2. PICK s \in Seq(0..255), x \in 0..255 : s = AtReader(d) /\ x = s[1]
    BY <1>t, <2>1, TailSize
  <2>3. x = sent[d][Len(got[d]) + 1] /\ Segment(Tail(s), sent[d], Len(got[d]) + 1)
    BY <1>c, <1>n, <2>1, <2>2, SegmentTail
  <2>4. Segment(got'[d], sent'[d], 0)
    <3>1. 0 + Len(got[d]) + 1 = Len(got[d]) + 1
      BY <1>n
    <3>2. Segment(Append(got[d], x), sent[d], 0)
      BY <1>c, <1>t, <2>3, <3>1, SegmentAppend
    <3>3. QED
      BY <2>1, <2>2, <3>2
  <2>5. Segment(AtReader(d)', sent'[d], Len(got'[d]))
    BY <1>2, <2>1, <2>2, <2>3
  <2>6. QED
    BY <1>2, <1>c, <1>l, <2>1, <2>4, <2>5 DEF Content, Whole
<1>3. CASE /\ WritesOut(d)
           /\ P1(d)' = P2(d) /\ P2(d)' = P2(d) /\ P3(d)' = P3(d) /\ P4(d)' = P4(d)
           /\ Total(d)' = Total(d)
  <2>1. /\ Live1(d) => Live2(d)
        /\ AtReader(d)' = AtReader(d) \o InNear(d) /\ InNear(d)' = <<>>
        /\ got'[d] = got[d] /\ sent'[d] = sent[d] /\ InMid(d)' = InMid(d)
        /\ InFar(d)' = InFar(d) /\ AtWriter(d)' = AtWriter(d)
    BY <1>3 DEF WritesOut, Live2
  <2>2. Live1(d)' => Segment(AtReader(d)', sent'[d], Len(got'[d]))
    <3>1. P1(d) = Len(got[d]) + Len(AtReader(d))
      BY DEF P1
    <3>2. Live1(d)' => Segment(AtReader(d) \o InNear(d), sent[d], Len(got[d]))
      BY <1>c, <1>l, <1>n, <1>t, <2>1, <3>1, SegmentConcat
    <3>3. QED
      BY <2>1, <3>2
  <2>3. QED
    BY <1>0, <1>3, <1>c, <1>l, <2>1, <2>2 DEF Content, Whole
<1>4. CASE /\ ReadsMid(d)
           /\ P1(d)' = P1(d) /\ P2(d) = P1(d) /\ P2(d)' = P2(d) + 1 /\ P3(d)' = P3(d)
           /\ P4(d)' = P4(d) /\ Total(d)' = Total(d)
  <2>1. /\ Live2(d) => Live3(d)
        /\ InMid(d) # <<>> /\ InNear(d)' = <<InMid(d)[1]>> /\ InMid(d)' = Tail(InMid(d))
        /\ got'[d] = got[d] /\ sent'[d] = sent[d] /\ AtReader(d)' = AtReader(d)
        /\ InFar(d)' = InFar(d) /\ AtWriter(d)' = AtWriter(d)
    BY <1>4 DEF ReadsMid, Live3
  <2>2. Live3(d) => /\ InMid(d)[1] = sent[d][P2(d) + 1]
                    /\ Segment(Tail(InMid(d)), sent[d], P2(d) + 1)
    BY <1>c, <1>n, <1>t, <2>1, SegmentTail
  <2>3. Live2(d)' => Segment(InNear(d)', sent'[d], P1(d)')
    BY <1>4, <1>l, <2>1, <2>2, SegmentOne
  <2>4. Live3(d)' => Segment(InMid(d)', sent'[d], P2(d)')
    BY <1>4, <1>l, <2>1, <2>2
  <2>5. QED
    BY <1>4, <1>c, <1>l, <2>1, <2>3, <2>4 DEF Content, Whole
<1>5. CASE /\ WritesMid(d)
           /\ P1(d)' = P1(d) /\ P2(d)' = P2(d) /\ P3(d)' = P4(d) /\ P4(d)' = P4(d)
           /\ Total(d)' = Total(d)
  <2>1. /\ Live3(d) => Live4(d)
        /\ InMid(d)' = InMid(d) \o InFar(d) /\ InFar(d)' = <<>>
        /\ got'[d] = got[d] /\ sent'[d] = sent[d] /\ AtReader(d)' = AtReader(d)
        /\ InNear(d)' = InNear(d) /\ AtWriter(d)' = AtWriter(d)
    BY <1>5 DEF WritesMid, Live4
  <2>2. Live3(d)' => Segment(InMid(d)', sent'[d], P2(d)')
    <3>1. P3(d) = P2(d) + Len(InMid(d))
      BY DEF P3
    <3>2. Live3(d)' => Segment(InMid(d) \o InFar(d), sent[d], P2(d))
      BY <1>c, <1>l, <1>n, <1>t, <2>1, <3>1, SegmentConcat
    <3>3. QED
      BY <1>5, <2>1, <3>2
  <2>3. QED
    BY <1>0, <1>5, <1>c, <1>l, <2>1, <2>2 DEF Content, Whole
<1>6. CASE /\ ReadsIn(d)
           /\ P1(d)' = P1(d) /\ P2(d)' = P2(d) /\ P3(d)' = P3(d) /\ P4(d) = P3(d)
           /\ P4(d)' = P4(d) + 1 /\ Total(d)' = Total(d)
  <2>1. /\ Live4(d) => Live5(d)
        /\ AtWriter(d) # <<>> /\ InFar(d)' = <<AtWriter(d)[1]>> /\ AtWriter(d)' = Tail(AtWriter(d))
        /\ got'[d] = got[d] /\ sent'[d] = sent[d] /\ AtReader(d)' = AtReader(d)
        /\ InNear(d)' = InNear(d) /\ InMid(d)' = InMid(d)
    BY <1>6 DEF ReadsIn, Live5
  <2>2. Live5(d) => /\ AtWriter(d)[1] = sent[d][P4(d) + 1]
                    /\ Segment(Tail(AtWriter(d)), sent[d], P4(d) + 1)
    BY <1>c, <1>n, <1>t, <2>1, SegmentTail
  <2>3. Live4(d)' => Segment(InFar(d)', sent'[d], P3(d)')
    BY <1>6, <1>l, <2>1, <2>2, SegmentOne
  <2>4. Live5(d)' => Segment(AtWriter(d)', sent'[d], P4(d)')
    BY <1>6, <1>l, <2>1, <2>2
  <2>5. QED
    BY <1>6, <1>c, <1>l, <2>1, <2>3, <2>4 DEF Content, Whole
<1>7. CASE /\ Sends(d)
           /\ P1(d)' = P1(d) /\ P2(d)' = P2(d) /\ P3(d)' = P3(d) /\ P4(d)' = P4(d)
           /\ Total(d)' = Total(d) + 1 /\ Len(sent'[d]) = Len(sent[d]) + 1
  <2>1. PICK x \in 0..255 : AtWriter(d)' = Append(AtWriter(d), x) /\ sent'[d] = Append(sent[d], x)
    BY <1>7 DEF Sends
  <2>2. /\ FromWriter(d) \notin shut /\ got'[d] = got[d] /\ AtReader(d)' = AtReader(d)
        /\ InNear(d)' = InNear(d) /\ InMid(d)' = InMid(d) /\ InFar(d)' = InFar(d)
    BY <1>7 DEF Sends
  <2>3. Total(d) <= Len(sent[d])
    BY DEF Counted
  <2>4. /\ 0 + Len(got[d]) <= Len(sent[d]) /\ Len(got[d]) + Len(AtReader(d)) <= Len(sent[d])
        /\ P1(d) + Len(InNear(d)) <= Len(sent[d]) /\ P2(d) + Len(InMid(d)) <= Len(sent[d])
        /\ P3(d) + Len(InFar(d)) <= Len(sent[d]) /\ P4(d) + Len(AtWriter(d)) <= Len(sent[d])
    BY <1>n, <2>3 DEF P1, P2, P3, P4, Total
  <2>5. /\ Segment(got[d], sent'[d], 0)
        /\ Live1(d) => Segment(AtReader(d), sent'[d], Len(got[d]))
        /\ Live2(d) => Segment(InNear(d), sent'[d], P1(d))
        /\ Live3(d) => Segment(InMid(d), sent'[d], P2(d))
        /\ Live4(d) => Segment(InFar(d), sent'[d], P3(d))
        /\ Live5(d) => Segment(AtWriter(d), sent'[d], P4(d))
    <3>1. ASSUME NEW s \in Seq(0..255), NEW from \in Nat, from + Len(s) <= Len(sent[d]),
                 Segment(s, sent[d], from)
          PROVE  Segment(s, sent'[d], from)
      <4>1. sent[d] \in Seq(0..255)
        BY <1>t
      <4>2. Segment(s, Append(sent[d], x), from)
        BY <3>1, <4>1, SegmentGrow
      <4>3. QED
        BY <2>1, <4>2
    <3>2. 0 \in Nat
      OBVIOUS
    <3>3. Segment(got[d], sent'[d], 0)
      BY <1>c, <1>t, <2>4, <3>1, <3>2, Zenon
    <3>4. Live1(d) => Segment(AtReader(d), sent'[d], Len(got[d]))
      BY <1>c, <1>n, <1>t, <2>4, <3>1, Zenon
    <3>5. Live2(d) => Segment(InNear(d), sent'[d], P1(d))
      BY <1>c, <1>n, <1>t, <2>4, <3>1, Zenon
    <3>6. Live3(d) => Segment(InMid(d), sent'[d], P2(d))
      BY <1>c, <1>n, <1>t, <2>4, <3>1, Zenon
    <3>7. Live4(d) => Segment(InFar(d), sent'[d], P3(d))
      BY <1>c, <1>n, <1>t, <2>4, <3>1, Zenon
    <3>8. Live5(d) => Segment(AtWriter(d), sent'[d], P4(d))
      BY <1>c, <1>n, <1>t, <2>4, <3>1, Zenon
    <3>9. QED
      BY <3>3, <3>4, <3>5, <3>6, <3>7, <3>8
  <2>6. Live5(d) => Segment(AtWriter(d)', sent'[d], P4(d)')
    <3>1. Live5(d) => x = sent'[d][P4(d) + Len(AtWriter(d)) + 1]
      <4>1. sent'[d][Len(sent[d]) + 1] = x
        BY <1>t, <2>1, AppendOf
      <4>2. Live5(d) => P4(d) + Len(AtWriter(d)) = Len(sent[d])
        BY <1>c, <2>2 DEF Whole, Total
      <4>3. QED
        BY <4>1, <4>2
    <3>2. Live5(d) => Segment(Append(AtWriter(d), x), sent'[d], P4(d))
      BY <1>n, <1>t, <2>5, <3>1, SegmentAppend
    <3>3. QED
      BY <1>7, <2>1, <3>2
  <2>7. Live5(d)' /\ FromWriter(d) \notin shut' => Whole(d)'
    BY <1>7, <1>c, <1>l DEF Whole
  <2>8. QED
    BY <1>7, <1>l, <2>2, <2>5, <2>6, <2>7 DEF Content
<1>8. QED
  BY <1>s, <1>1, <1>2, <1>3, <1>4, <1>5, <1>6, <1>7 DEF Shift

-----------------------------------------------------------------------------
(* Each direction is a stream of bytes                                     *)

\* One direction sends, receives or stands still.
StreamMoves(d) ==
  \/ sent'[d] = sent[d] /\ got'[d] = got[d]
  \/ /\ sent'[d] \in Seq(0..255) /\ Len(sent'[d]) > Len(sent[d])
     /\ SubSeq(sent'[d], 1, Len(sent[d])) = sent[d]
     /\ got'[d] = got[d]
  \/ /\ \E n \in (Len(got[d]) + 1)..Len(sent[d]) : got'[d] = SubSeq(sent[d], 1, n)
     /\ sent'[d] = sent[d]

Streaming == Steady /\ Counted /\ Contents

LEMMA InitStreaming == Init => Streaming
BY InitSteady, InitCounted, InitContents DEF Streaming

LEMMA StreamingStep == Streaming /\ [Next]_vars => Streaming'
BY SteadyStep, CountedStep, ContentsStep DEF Streaming

LEMMA StreamStep == ASSUME Streaming, [Next]_vars, NEW d \in Dirs PROVE StreamMoves(d)
<1>s. Steady /\ Counted /\ Shift(d) /\ Sizes /\ Carried /\ Carried' /\ Counted' /\ Contents'
  BY StreamingStep, ShiftStep, SizesOK, CarriedOK, CarriedNext DEF Streaming
<1>t. /\ got[d] \in Seq(0..255) /\ sent[d] \in Seq(0..255) /\ got'[d] \in Seq(0..255)
      /\ sent'[d] \in Seq(0..255)
  BY <1>s DEF Carried
<1>1. CASE sent'[d] = sent[d] /\ got'[d] = got[d]
  BY <1>1 DEF StreamMoves
<1>2. CASE Receives(d) /\ Len(got'[d]) = Len(got[d]) + 1
  <2>1. PICK g \in Seq(0..255), s \in Seq(0..255) : g = got'[d] /\ s = sent[d] /\ s = sent'[d]
    BY <1>t, <1>2 DEF Receives
  <2>2. /\ Len(got[d]) \in Nat /\ Len(s) \in Nat /\ Len(g) = Len(got[d]) + 1
    BY <1>t, <1>2, <2>1, ConcatOf
  <2>3. Len(g) <= Len(s)
    <3>1. Len(AtReader(d)) >= 1
      BY <1>s, <1>2, TailOf DEF Receives, Carried
    <3>2. Total(d) <= Len(s)
      BY <1>s, <2>1 DEF Counted
    <3>3. /\ Len(got[d]) \in Nat /\ Len(AtReader(d)) \in Nat
          /\ Len(InNear(d)) \in Nat /\ Len(InMid(d)) \in Nat /\ Len(InFar(d)) \in Nat
          /\ Len(AtWriter(d)) \in Nat
      BY <1>s DEF Sizes
    <3>4. QED
      BY <2>2, <3>1, <3>2, <3>3 DEF P1, P2, P3, P4, Total
  <2>4. \A i \in 1..Len(g) : g[i] = s[i]
    <3>1. Segment(g, s, 0)
      BY <1>s, <2>1 DEF Contents, Content
    <3>2. \A i \in 1..Len(g) : 0 + i = i
      BY <2>2
    <3>3. QED
      BY <3>1, <3>2 DEF Segment
  <2>5. PICK n \in 0..Len(s) : n = Len(g)
    BY <2>2, <2>3
  <2>6. SubSeq(s, 1, n) = g
    <3>1. PICK r \in Seq(0..255) : r = SubSeq(s, 1, n)
      BY PrefixOf
    <3>2. Len(r) = n /\ \A i \in 1..n : r[i] = s[i]
      BY <3>1, PrefixOf
    <3>3. g = r
      BY <2>4, <2>5, <3>2, SameSeq
    <3>4. QED
      BY <3>1, <3>3
  <2>7. n \in (Len(got[d]) + 1)..Len(sent[d])
    BY <2>1, <2>2, <2>3, <2>5
  <2>8. QED
    BY <2>1, <2>6, <2>7 DEF StreamMoves
<1>3. CASE Sends(d)
  <2>1. PICK x \in 0..255, s \in Seq(0..255) : s = sent[d] /\ sent'[d] = Append(s, x)
    BY <1>t, <1>3 DEF Sends
  <2>2. PICK u \in Seq(0..255) : u = Append(s, x)
    BY AppendOf
  <2>3. Len(s) \in Nat /\ Len(u) = Len(s) + 1 /\ \A i \in 1..Len(s) : u[i] = s[i]
    BY <2>2, AppendOf
  <2>4. PICK n \in 0..Len(u) : n = Len(s)
    BY <2>3
  <2>5. PICK r \in Seq(0..255) : r = SubSeq(u, 1, n)
    BY PrefixOf
  <2>6. Len(r) = n /\ \A i \in 1..n : r[i] = u[i]
    BY <2>5, PrefixOf
  <2>7. r = s
    BY <2>3, <2>4, <2>6, SameSeq
  <2>8. QED
    BY <1>3, <2>1, <2>2, <2>3, <2>4, <2>5, <2>7 DEF StreamMoves, Sends
<1>4. QED
  BY <1>s, <1>1, <1>2, <1>3
  DEF Shift, Loses, WritesOut, ReadsMid, WritesMid, ReadsIn

\* Both directions are streams of bytes: what has been read is what has been
\* written, from the first byte on, with nothing left out, doubled or mixed with
\* the header.
THEOREM StreamsImplemented == Spec => ImplementsStreams
<1>1. Init => Up!Init /\ Down!Init
  BY DEF Init, Up!Init, Down!Init, Dirs
<1>2. Streaming /\ [Next]_vars => [Up!Next]_(Up!stream) /\ [Down!Next]_(Down!stream)
  <2> SUFFICES ASSUME Streaming, [Next]_vars
               PROVE  [Up!Next]_(Up!stream) /\ [Down!Next]_(Down!stream)
    OBVIOUS
  <2>1. StreamMoves("up") /\ StreamMoves("down")
    BY StreamStep, Each
  <2>2. [Up!Next]_(Up!stream)
    BY <2>1 DEF StreamMoves, Up!Next, Up!Send, Up!Receive, Up!stream
  <2>3. [Down!Next]_(Down!stream)
    BY <2>1 DEF StreamMoves, Down!Next, Down!Send, Down!Receive, Down!stream
  <2>4. QED
    BY <2>2, <2>3
<1>3. QED
  BY <1>1, <1>2, InitStreaming, StreamingStep, PTL DEF Spec, ImplementsStreams, Up!Spec, Down!Spec

-----------------------------------------------------------------------------
(* What has arrived when a reader comes to the end                         *)

\* The other direction of d is whole and not ended: then nothing of d is missing,
\* and a relay has ended only because the writer of d has, and after all it wrote.
Answering(d) ==
  link = "up" /\ ~NeverDialed /\ FromWriter(Back(d)) \notin shut /\ Whole(Back(d))

Sent(d) == FromWriter(d) \in shut /\ AtWriter(d) = <<>> /\ InFar(d) = <<>>
Passed(d) == InMid(d) = <<>> /\ InNear(d) = <<>>

Arriving(d) ==
  Answering(d) =>
    /\ Whole(d)
    /\ Ended(d) \/ Ended(Back(d)) => Sent(d)
    /\ Ended(d) => Passed(d)

Arrivals == \A d \in Dirs : Arriving(d)

LEMMA InitArrivals == Init => Arrivals
<1> SUFFICES ASSUME Init PROVE Arrivals
  OBVIOUS
<1>1. \A n \in Relays, e \in Dirs : copier[<<n, e>>] = "off"
  BY DEF Init, Copiers
<1>2. shut = {}
  BY DEF Init
<1>3. \A d \in Dirs : ~Ended(d)
  BY <1>1, <1>2, PipesDiffer DEF Ended
<1>4. ASSUME NEW d \in Dirs PROVE Whole(d)
  <2>1. Sizes /\ Total(d) <= Len(sent[d])
    BY InitSteady, SizesOK, InitCounted DEF Counted
  <2>2. Len(sent[d]) = 0
    <3>1. sent[d] = <<>> /\ Len(<<>>) = 0
      BY DEF Init
    <3>2. QED
      BY <3>1
  <2>3. Total(d) \in Nat
    BY <2>1 DEF Sizes
  <2>4. QED
    BY <2>1, <2>2, <2>3 DEF Whole
<1>5. QED
  BY <1>3, <1>4, PipesDiffer DEF Arrivals, Arriving

LEMMA NoLength == ASSUME NEW s \in Seq(0..255) PROVE Len(s) = 0 <=> s = <<>>
OBVIOUS

\* Where nothing is missing after a step, the step has lost nothing.
LEMMA NothingLost ==
  ASSUME Steady, [Next]_vars, NEW c \in Dirs, Whole(c), Whole(c)'
  PROVE  /\ ~Cleared(ToReader(c)) /\ ~Cleared(FromWriter(c))
         /\ ~CopyFail(Near(c), c) /\ ~CopyFail(Far(c), c)
<1>s. Shift(c) /\ Sizes /\ Sizes' /\ Carried /\ Carried'
  BY ShiftStep, SizesOK, SizesNext, CarriedOK, CarriedNext
<1>n. /\ Len(got[c]) \in Nat /\ Len(sent[c]) \in Nat /\ Len(AtReader(c)) \in Nat
      /\ Len(InNear(c)) \in Nat /\ Len(InMid(c)) \in Nat /\ Len(InFar(c)) \in Nat
      /\ Len(AtWriter(c)) \in Nat
  BY <1>s DEF Sizes
<1>m. /\ Len(AtReader(c)') \in Nat /\ Len(InNear(c)') \in Nat /\ Len(InMid(c)') \in Nat
      /\ Len(InFar(c)') \in Nat /\ Len(AtWriter(c)') \in Nat
  BY <1>s DEF Sizes
<1>t. /\ AtReader(c) \in Seq(0..255) /\ InNear(c) \in Seq(0..255) /\ InMid(c) \in Seq(0..255)
      /\ InFar(c) \in Seq(0..255) /\ AtWriter(c) \in Seq(0..255)
  BY <1>s DEF Carried
<1>u. Shapes /\ q \in [Pipes -> Seq(0..255)] /\ hand \in [Copiers -> Seq(0..255)]
  BY DEF Steady, Typed, Shapes
\* Three of them throw a part away, which no way of moving on does.
<1>c. /\ Cleared(ToReader(c)) => AtReader(c) # <<>> /\ AtReader(c)' = <<>> /\ ToReader(c) \in deaf
      /\ Cleared(FromWriter(c)) =>
           AtWriter(c) # <<>> /\ AtWriter(c)' = <<>> /\ FromWriter(c) \in deaf
  BY DEF Cleared, AtReader, AtWriter
<1>f. /\ CopyFail(Near(c), c) => InNear(c) # <<>> /\ InNear(c)' = <<>> /\ AtReader(c)' = AtReader(c)
      /\ CopyFail(Far(c), c) => InFar(c) # <<>> /\ InFar(c)' = <<>> /\ q' = q
  BY <1>u, PipesAre, PipesDiffer DEF CopyFail, Store, InNear, InFar, AtReader, pipes
<1>1. CASE Loses(c) /\ Len(AtReader(c)') <= Len(AtReader(c)) /\ Len(InNear(c)') <= Len(InNear(c))
           /\ Len(InMid(c)') <= Len(InMid(c)) /\ Len(InFar(c)') <= Len(InFar(c))
           /\ Len(AtWriter(c)') <= Len(AtWriter(c))
  <2>1. /\ Len(AtReader(c)') = Len(AtReader(c)) /\ Len(InNear(c)') = Len(InNear(c))
        /\ Len(InFar(c)') = Len(InFar(c)) /\ Len(AtWriter(c)') = Len(AtWriter(c))
    <3>1. got'[c] = got[c] /\ sent'[c] = sent[c]
      BY <1>1 DEF Loses
    <3>2. Total(c)' = Total(c)
      BY <3>1 DEF Whole
    <3>3. QED
      BY <1>1, <1>n, <1>m, <3>1, <3>2 DEF P1, P2, P3, P4, Total
  <2>2. Len(<<>>) = 0
    OBVIOUS
  <2>3. QED
    BY <1>c, <1>f, <1>t, <2>1, <2>2, NoLength
<1>w. ASSUME NEW n, CopyFail(n, c) PROVE got'[c] = got[c]
  BY <1>w DEF CopyFail, ends
<1>2. CASE Receives(c)
  <2>1. got'[c] # got[c]
    <3>1. AtReader(c)[1] \in 0..255 /\ got[c] \in Seq(0..255)
      BY <1>s, <1>t, <1>2, TailSize DEF Receives, Carried
    <3>2. Len(got'[c]) = Len(got[c]) + 1
      BY <1>2, <3>1, AppendOf DEF Receives
    <3>3. QED
      BY <1>n, <3>2
  <2>2. QED
    BY <1>2, <1>c, <1>w, <2>1 DEF Receives
<1>3. CASE WritesOut(c)
  <2>1. Cleared(ToReader(c)) => FALSE
    <3>1. Len(AtReader(c)') = Len(AtReader(c)) + Len(InNear(c))
      BY <1>3, <1>t, ConcatOf DEF WritesOut
    <3>2. Len(AtReader(c)') = 0 => Len(AtReader(c)) = 0
      <4>1. PICK a \in Nat, b \in Nat : a = Len(AtReader(c)) /\ b = Len(InNear(c))
        BY <1>n
      <4>2. a + b = 0 => a = 0
        OBVIOUS
      <4>3. QED
        BY <3>1, <4>1, <4>2
    <3>3. Len(<<>>) = 0
      OBVIOUS
    <3>4. QED
      BY <1>c, <1>t, <3>2, <3>3, NoLength
  <2>2. CopyFail(Near(c), c) => FALSE
    <3>1. CopyFail(Near(c), c) => copier'[<<Near(c), c>>] = "done"
      BY <1>u, PipesAre, PipesDiffer DEF CopyFail, Shapes
    <3>2. CopyFail(Near(c), c) => AtReader(c) = AtReader(c) \o InNear(c)
      BY <1>3, <1>f DEF WritesOut
    <3>3. Len(AtReader(c) \o InNear(c)) = Len(AtReader(c)) + Len(InNear(c))
      BY <1>t, ConcatOf
    <3>4. CopyFail(Near(c), c) => Len(InNear(c)) = 0
      BY <1>n, <3>2, <3>3
    <3>5. QED
      BY <1>f, <1>t, <3>4, NoLength
  <2>3. QED
    BY <1>3, <1>c, <1>f, <2>1, <2>2 DEF WritesOut
<1>4. CASE ReadsMid(c)
  <2>1. InNear(c)' # <<>>
    BY <1>4 DEF ReadsMid
  <2>2. QED
    BY <1>4, <1>c, <1>f, <2>1 DEF ReadsMid
<1>5. CASE WritesMid(c)
  <2>1. CopyFail(Far(c), c) => FALSE
    <3>1. CopyFail(Far(c), c) => InMid(c)' = InMid(c)
      <4>1. CopyFail(Far(c), c) => UNCHANGED <<kind, q, pc, head>>
        BY DEF CopyFail, pipes, parse
      <4>2. QED
        BY <4>1, AtSame, MidSame
    <3>2. Len(InMid(c) \o InFar(c)) = Len(InMid(c)) + Len(InFar(c))
      BY <1>t, ConcatOf
    <3>3. CopyFail(Far(c), c) => Len(InFar(c)) = 0
      BY <1>n, <1>5, <3>1, <3>2 DEF WritesMid
    <3>4. QED
      BY <1>f, <1>t, <3>3, NoLength
  <2>2. QED
    BY <1>5, <1>c, <1>f, <2>1 DEF WritesMid
<1>6. CASE ReadsIn(c)
  <2>1. InFar(c)' # <<>>
    BY <1>6 DEF ReadsIn
  <2>2. QED
    BY <1>6, <1>c, <1>f, <2>1 DEF ReadsIn
<1>7. CASE Sends(c)
  <2>1. PICK x \in 0..255, s \in Seq(0..255) :
          s = AtWriter(c) /\ AtWriter(c)' = Append(s, x)
    BY <1>7, <1>t DEF Sends
  <2>2. AtWriter(c)' # <<>>
    BY <2>1
  <2>3. QED
    BY <1>7, <1>c, <1>f, <2>2 DEF Sends
<1>8. QED
  BY <1>s, <1>1, <1>2, <1>3, <1>4, <1>5, <1>6, <1>7 DEF Shift

LEMMA AnsweringStep ==
  ASSUME Steady, Counted, [Next]_vars, NEW d \in Dirs, Answering(d)'
  PROVE  /\ Answering(d) /\ link' = "up" /\ ~NeverDialed'
         /\ FromWriter(Back(d)) \notin shut /\ ToReader(d) \notin deaf
         /\ \A m \in {Near(Back(d)), Far(Back(d))} : ~CopyFail(m, Back(d))
         /\ ~Cleared(ToReader(Back(d))) /\ ~Cleared(FromWriter(Back(d)))
<1>1. Back(d) \in Dirs
  BY PipesDiffer
<1>2. link = "up" /\ ~NeverDialed
  BY Growing, ControlStep DEF Steady, Answering
<1>3. FromWriter(Back(d)) \notin shut
  BY ClosesStep, ClosesGrow DEF Answering
<1>4. Whole(Back(d)) /\ Whole(Back(d))'
  BY <1>1, WholeStep DEF Answering
<1>5. ToReader(d) \notin deaf
  BY <1>3 DEF Steady, Closings
<1>6. QED
  BY <1>1, <1>2, <1>3, <1>4, <1>5, NothingLost DEF Answering

\* A relay ends because the writer has, after all it wrote.
LEMMA SentStep ==
  ASSUME Steady, Counted, Arrivals, [Next]_vars, NEW d \in Dirs, Answering(d)',
         Ended(d)' \/ Ended(Back(d))'
  PROVE  Sent(d)
<1>a. /\ Answering(d) /\ link = "up" /\ link' = "up" /\ ~NeverDialed'
      /\ FromWriter(Back(d)) \notin shut /\ ToReader(d) \notin deaf
      /\ ~CopyFail(Near(Back(d)), Back(d)) /\ ~CopyFail(Far(Back(d)), Back(d))
  BY AnsweringStep DEF Answering
<1>b. /\ Back(d) \in Dirs /\ Back(Back(d)) = d
      /\ Near(Back(d)) = Far(d) /\ Far(Back(d)) = Near(d)
      /\ \A e \in Dirs : e = d \/ e = Back(d)
  BY PipesDiffer DEF Dirs
<1>1. CASE Ended(d) \/ Ended(Back(d))
  BY <1>1, <1>a DEF Arrivals, Arriving
<1>2. CASE ~Ended(d) /\ ~Ended(Back(d))
  <2>1. /\ ~CopyEnd(Near(d), d) /\ ~CopyFail(Near(d), d) /\ ~CopyFail(Far(d), d)
        /\ CopyEnd(Far(d), d) => Sent(d)
    BY <1>2, <1>a, CopyEndMeans, CopyFailMeans DEF Sent, AtWriter, InFar
  <2>2. ~CopyEnd(Near(Back(d)), Back(d)) /\ ~CopyEnd(Far(Back(d)), Back(d))
    BY <1>2, <1>a, <1>b, CopyEndMeans
  <2>3. CASE Ended(d)'
    <3>1. PICK e \in Dirs : CopyEnd(Near(d), e) \/ CopyFail(Near(d), e)
      BY <1>2, <1>a, <2>3, EndedStep
    <3>2. QED
      BY <1>a, <1>b, <2>1, <2>2, <3>1
  <2>4. CASE Ended(Back(d))'
    <3>1. PICK e \in Dirs : CopyEnd(Near(Back(d)), e) \/ CopyFail(Near(Back(d)), e)
      BY <1>2, <1>a, <1>b, <2>4, EndedStep
    <3>2. QED
      BY <1>a, <1>b, <2>1, <2>2, <3>1
  <2>5. QED
    BY <2>3, <2>4
<1>3. QED
  BY <1>1, <1>2

\* The relay next to the reader ends when it has passed on all of it.
LEMMA PassedStep ==
  ASSUME Steady, Counted, Arrivals, [Next]_vars, NEW d \in Dirs, Answering(d)', Ended(d)'
  PROVE  Passed(d)
<1>a. /\ Answering(d) /\ link = "up" /\ link' = "up" /\ ~NeverDialed'
      /\ FromWriter(Back(d)) \notin shut /\ ToReader(d) \notin deaf
      /\ ~CopyFail(Near(Back(d)), Back(d)) /\ ~CopyFail(Far(Back(d)), Back(d))
  BY AnsweringStep DEF Answering
<1>b. /\ Back(d) \in Dirs /\ Back(Back(d)) = d /\ Far(Back(d)) = Near(d)
      /\ \A e \in Dirs : e = d \/ e = Back(d)
  BY PipesDiffer DEF Dirs
<1>1. CASE Ended(d)
  BY <1>1, <1>a DEF Arrivals, Arriving
<1>2. CASE ~Ended(d)
  <2>1. PICK e \in Dirs : CopyEnd(Near(d), e) \/ CopyFail(Near(d), e)
    BY <1>2, <1>a, EndedStep
  <2>2. ~CopyFail(Near(d), d) /\ ~CopyEnd(Far(Back(d)), Back(d))
    BY <1>2, <1>a, <1>b, CopyEndMeans, CopyFailMeans
  <2>3. CopyEnd(Near(d), d)
    BY <1>a, <1>b, <2>1, <2>2
  <2>4. hand[<<Near(d), d>>] = <<>> /\ q[Mid(d)] = <<>>
    BY <1>2, <1>a, <2>3, CopyEndMeans
  <2>5. InMid(d) = <<>>
    <3>1. <<>> \in Seq(0..255) /\ Skip(d) \in Nat /\ Len(<<>>) = 0
      BY SkipType DEF Steady, Typed
    <3>2. Behind(<<>>, Skip(d)) = <<>>
      BY <3>1 DEF Behind
    <3>3. QED
      BY <2>4, <3>2 DEF InMid
  <2>6. QED
    BY <2>4, <2>5 DEF Passed, InNear
<1>3. QED
  BY <1>1, <1>2

LEMMA EmptyPart == ASSUME NEW s \in Seq(0..255), Part(s, <<>>) PROVE s = <<>>
<1>1. Len(<<>>) = 0 /\ Len(s) \in Nat
  OBVIOUS
<1>2. Len(s) = 0
  BY <1>1 DEF Part
<1>3. QED
  BY <1>2, NoLength

\* What is behind the end of what was sent stays empty.
LEMMA SentStays ==
  ASSUME Steady, [Next]_vars, NEW d \in Dirs, Sent(d)
  PROVE  Sent(d)' /\ (Passed(d) => Passed(d)')
<1>1. Moves(d) /\ Carried'
  BY MovesStep, CarriedNext
<1>2. FromWriter(d) \in shut'
  BY ClosesStep, ClosesGrow DEF Sent
<1>3. AtWriter(d)' \in Seq(0..255) /\ InMid(d)' \in Seq(0..255)
  BY <1>1 DEF Carried
<1>4. <<>> \o <<>> = <<>>
  OBVIOUS
<1>5. CASE Loses(d)
  BY <1>2, <1>3, <1>5, EmptyPart DEF Loses, Sent, Passed
<1>6. CASE Receives(d) \/ WritesOut(d) \/ ReadsMid(d)
  BY <1>2, <1>6 DEF Receives, WritesOut, ReadsMid, Sent, Passed
<1>7. CASE WritesMid(d)
  BY <1>2, <1>4, <1>7 DEF WritesMid, Sent, Passed
<1>8. CASE ReadsIn(d) \/ Sends(d)
  BY <1>8 DEF ReadsIn, Sends, Sent
<1>9. QED
  BY <1>1, <1>5, <1>6, <1>7, <1>8 DEF Moves

LEMMA WholeKept ==
  ASSUME Steady, Counted, Arrivals, [Next]_vars, NEW d \in Dirs, Answering(d)'
  PROVE  Whole(d)'
<1>a. /\ Answering(d) /\ link = "up" /\ link' = "up"
      /\ FromWriter(Back(d)) \notin shut /\ ToReader(d) \notin deaf
      /\ ~Cleared(ToReader(Back(d))) /\ ~Cleared(FromWriter(Back(d)))
  BY AnsweringStep DEF Answering
<1>b. Back(d) \in Dirs /\ Back(Back(d)) = d
  BY PipesDiffer
<1>w. /\ Whole(d)
      /\ Ended(d) \/ Ended(Back(d)) => Sent(d)
      /\ Ended(d) => Passed(d)
  BY <1>a DEF Arrivals, Arriving
<1>s. Shift(d) /\ Sizes /\ Carried'
  BY ShiftStep, SizesOK, CarriedNext
<1>1. CASE Total(d)' = Total(d) /\ sent'[d] = sent[d]
  BY <1>1, <1>w DEF Whole
<1>2. CASE Total(d)' = Total(d) + 1 /\ Len(sent'[d]) = Len(sent[d]) + 1
  BY <1>2, <1>w DEF Whole
<1>3. CASE Loses(d)
  <2>1. AtReader(d)' = AtReader(d)
    <3>1. ~Cleared(ToReader(d))
      BY <1>a DEF Cleared
    <3>2. QED
      BY <1>3, <1>a, <3>1 DEF Loses, Reasons
  <2>2. InNear(d)' = InNear(d)
    <3>1. CopyFail(Near(d), d) => InNear(d) # <<>> /\ Ended(d)
      BY <1>a, CopyFailMeans DEF CopyFail, Store, InNear
    <3>2. QED
      BY <1>3, <1>w, <3>1 DEF Loses, Reasons, Passed
  <2>3. d = "up" /\ pc'[2] = "gone" => Ended(d)'
    <3>1. Accepting' /\ Closings'
      BY SteadyStep DEF Steady, Control
    <3>2. pc'[2] = "gone" => Mid("up") \in deaf'
      BY <1>a, <3>1 DEF Accepting
    <3>3. Mid("up") \in deaf' => Mid(Back("up")) \in shut'
      BY <3>1, Each DEF Closings
    <3>4. QED
      BY <3>2, <3>3 DEF Ended
  <2>4. d = "up" /\ pc'[2] = "gone" => Passed(d) /\ Sent(d)
    BY <2>3, PassedStep, SentStep
  <2>5. InMid(d)' = InMid(d)
    <3>1. Mid(d) \in deaf => Ended(d)
      BY DEF Steady, Closings, Ended
    <3>2. InMid(d)' # InMid(d) => InMid(d) = <<>>
      BY <1>3, <1>a, <1>w, <2>4, <3>1 DEF Loses, Reasons, Passed
    <3>3. InMid(d) = <<>> => InMid(d)' = <<>>
      BY <1>3, <1>s, EmptyPart DEF Loses, Carried
    <3>4. QED
      BY <3>2, <3>3
  <2>6. InFar(d)' = InFar(d)
    <3>1. CopyFail(Far(d), d) => Ended(d) \/ Ended(Back(d))
      BY <1>a, CopyFailMeans
    <3>2. InFar(d)' # InFar(d) => InFar(d) = <<>>
      BY <1>3, <1>a, <1>w, <2>4, <3>1 DEF Loses, Reasons, Sent
    <3>3. QED
      BY <1>3, <3>2 DEF Loses
  <2>7. AtWriter(d)' = AtWriter(d)
    <3>1. FromWriter(d) \in deaf => Ended(Back(d))
      BY <1>b DEF Steady, Closings, Ended
    <3>2. ~Cleared(FromWriter(d))
      BY <1>w, <3>1 DEF Cleared, Sent, AtWriter
    <3>3. QED
      BY <1>3, <1>a, <3>2 DEF Loses, Reasons
  <2>8. got'[d] = got[d] /\ sent'[d] = sent[d]
    BY <1>3 DEF Loses
  <2>9. Total(d)' = Total(d)
    BY <2>1, <2>2, <2>5, <2>6, <2>7, <2>8 DEF Total, P1, P2, P3, P4
  <2>10. QED
    BY <1>1, <2>8, <2>9
<1>4. QED
  BY <1>s, <1>1, <1>2, <1>3 DEF Shift, Receives, WritesOut, ReadsMid, WritesMid, ReadsIn

LEMMA ArrivalsStep == Steady /\ Counted /\ Arrivals /\ [Next]_vars => Arrivals'
<1> SUFFICES ASSUME Steady, Counted, Arrivals, [Next]_vars, NEW d \in Dirs, Answering(d)'
             PROVE  /\ Whole(d)'
                    /\ Ended(d)' \/ Ended(Back(d))' => Sent(d)'
                    /\ Ended(d)' => Passed(d)'
  BY DEF Arrivals, Arriving
<1>1. Ended(d)' \/ Ended(Back(d))' => Sent(d) /\ Sent(d)'
  BY SentStep, SentStays
<1>2. Ended(d)' => Passed(d)'
  BY <1>1, PassedStep, SentStays
<1>3. QED
  BY <1>1, <1>2, WholeKept

\* relay closes both connections at the first EOF, and still cuts nothing off for
\* a reader that keeps its own side open and all of whose bytes have arrived.
THEOREM CompleteAtEofAlways == Spec => []CompleteAtEof
<1>1. Init => Streaming /\ Arrivals
  BY InitStreaming, InitArrivals
<1>2. Streaming /\ Arrivals /\ [Next]_vars => (Streaming /\ Arrivals)'
  BY StreamingStep, ArrivalsStep DEF Streaming
<1>3. Streaming /\ Arrivals => CompleteAtEof
  <2> SUFFICES ASSUME Streaming, Arrivals, NEW p \in Peers, link = "up",
                      In(p[1], p[2]) \in shut, q[In(p[1], p[2])] = <<>>,
                      Out(p[1], p[2]) \notin shut,
                      got[Out(p[1], p[2])[1]] = sent[Out(p[1], p[2])[1]]
               PROVE  got[In(p[1], p[2])[1]] = sent[In(p[1], p[2])[1]]
    BY DEF CompleteAtEof
  <2>1. PICK d \in Dirs :
          /\ In(p[1], p[2]) = ToReader(d) /\ In(p[1], p[2])[1] = d
          /\ Out(p[1], p[2]) = FromWriter(Back(d)) /\ Out(p[1], p[2])[1] = Back(d)
    BY PeerPipes, PipesDiffer
  <2>2. /\ ToReader(d) \in shut /\ AtReader(d) = <<>> /\ FromWriter(Back(d)) \notin shut
        /\ got[Back(d)] = sent[Back(d)] /\ Back(d) \in Dirs
    BY <2>1, PipesDiffer DEF AtReader
  <2>3. /\ Steady /\ Counted /\ Contents /\ Sizes /\ Carried /\ Opening /\ Accepting /\ Copying
    BY SizesOK, CarriedOK DEF Streaming, Steady, Control
  <2>n. \A e \in Dirs :
          /\ Len(got[e]) \in Nat /\ Len(sent[e]) \in Nat /\ Len(AtReader(e)) \in Nat
          /\ Len(InNear(e)) \in Nat /\ Len(InMid(e)) \in Nat /\ Len(InFar(e)) \in Nat
          /\ Len(AtWriter(e)) \in Nat /\ Total(e) <= Len(sent[e])
    BY <2>3 DEF Sizes, Counted
  <2>e. Len(<<>>) = 0
    OBVIOUS
  <2>t. got[d] \in Seq(0..255) /\ sent[d] \in Seq(0..255)
    BY <2>3 DEF Carried
  <2>4. CASE NeverDialed
    <3>1. sent[d] = <<>>
      BY <2>2, <2>3, <2>4, Each DEF NeverDialed, Accepting, Copying
    <3>2. Len(got[d]) = 0
      <4>1. Len(sent[d]) = 0
        BY <2>e, <3>1
      <4>2. Total(d) <= Len(sent[d])
        BY <2>n
      <4>3. QED
        BY <2>n, <4>1, <4>2 DEF Total, P1, P2, P3, P4
    <3>3. QED
      BY <2>1, <2>t, <3>1, <3>2, NoLength
  <2>5. CASE ~NeverDialed
    <3>1. Whole(Back(d))
      <4>1. Len(got[Back(d)]) = Len(sent[Back(d)])
        BY <2>2
      <4>2. Total(Back(d)) >= Len(got[Back(d)]) /\ Total(Back(d)) <= Len(sent[Back(d)])
        BY <2>2, <2>n DEF Total, P1, P2, P3, P4
      <4>3. Total(Back(d)) \in Nat
        BY <2>2, <2>3 DEF Sizes
      <4>4. QED
        BY <2>2, <2>n, <4>1, <4>2, <4>3 DEF Whole
    <3>2. Answering(d) /\ Ended(d)
      BY <2>2, <2>5, <3>1 DEF Answering, Ended
    <3>3. Whole(d) /\ Sent(d) /\ Passed(d)
      BY <3>2 DEF Arrivals, Arriving
    <3>4. Len(got[d]) = Len(sent[d])
      <4>1. /\ Len(AtReader(d)) = 0 /\ Len(InNear(d)) = 0 /\ Len(InMid(d)) = 0
            /\ Len(InFar(d)) = 0 /\ Len(AtWriter(d)) = 0
        BY <2>2, <2>e, <3>3 DEF Sent, Passed
      <4>2. QED
        BY <2>n, <3>3, <4>1 DEF Whole, Total, P1, P2, P3, P4
    <3>5. Segment(got[d], sent[d], 0)
      BY <2>3 DEF Contents, Content
    <3>6. \A i \in 1..Len(got[d]) : got[d][i] = sent[d][i]
      <4>1. \A i \in 1..Len(got[d]) : 0 + i = i
        BY <2>n
      <4>2. QED
        BY <3>5, <4>1 DEF Segment
    <3>7. got[d] = sent[d]
      BY <2>t, <3>4, <3>6, SameSeq
    <3>8. QED
      BY <2>1, <3>7
  <2>6. QED
    BY <2>4, <2>5
<1>4. QED
  BY <1>1, <1>2, <1>3, PTL DEF Spec
=============================================================================
