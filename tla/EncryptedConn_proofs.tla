------------------------ MODULE EncryptedConn_proofs ------------------------
(***************************************************************************)
(* Proofs about EncryptedConn, for every size of a byte, every set of      *)
(* configurations and messages and every length of the read buffers.       *)
(*                                                                         *)
(* First the codec: what Read makes of a packet is what writePacket made   *)
(* it of.  Then the stream: every packet in flight decodes to a segment of *)
(* sent, the segments follow each other, and got and readBuf end where     *)
(* they begin.                                                             *)
(***************************************************************************)
EXTENDS EncryptedConn, SequenceTheorems, TLAPS

-----------------------------------------------------------------------------
(* Sequences                                                               *)

\* The segment of s after the first a elements and up to element b
LEMMA Segment ==
  ASSUME NEW S, NEW s \in Seq(S), NEW a \in Nat, NEW b \in a..Len(s)
  PROVE  /\ SubSeq(s, a + 1, b) \in Seq(S)
         /\ Len(SubSeq(s, a + 1, b)) = b - a
         /\ \A i \in 1..(b - a) : SubSeq(s, a + 1, b)[i] = s[a + i]
<1>1. \A i \in (a + 1)..b : s[i] \in S
  BY ElementOfSeq
<1>2. a + 1 \in Int /\ b \in Int
  OBVIOUS
<1>3. /\ SubSeq(s, a + 1, b) \in Seq(S)
      /\ Len(SubSeq(s, a + 1, b)) = IF a + 1 <= b THEN b - (a + 1) + 1 ELSE 0
      /\ \A i \in 1..(b - (a + 1) + 1) : SubSeq(s, a + 1, b)[i] = s[a + 1 + i - 1]
  BY <1>1, <1>2, SubSeqProperties
<1> QED
  BY <1>3

\* The segments of a segment are segments.
LEMMA SegmentOfSegment ==
  ASSUME NEW S, NEW s \in Seq(S), NEW a \in Nat, NEW b \in a..Len(s),
         NEW c \in Nat, NEW d \in c..(b - a)
  PROVE  SubSeq(SubSeq(s, a + 1, b), c + 1, d) = SubSeq(s, a + c + 1, a + d)
<1> DEFINE t == SubSeq(s, a + 1, b)
<1>1. /\ t \in Seq(S) /\ Len(t) = b - a
      /\ \A i \in 1..(b - a) : t[i] = s[a + i]
  BY Segment
<1> HIDE DEF t
<1>2. /\ SubSeq(t, c + 1, d) \in Seq(S) /\ Len(SubSeq(t, c + 1, d)) = d - c
      /\ \A i \in 1..(d - c) : SubSeq(t, c + 1, d)[i] = t[c + i]
  BY <1>1, Segment
<1>3. a + c \in Nat /\ a + d \in (a + c)..Len(s)
  OBVIOUS
<1>4. /\ SubSeq(s, a + c + 1, a + d) \in Seq(S)
      /\ Len(SubSeq(s, a + c + 1, a + d)) = d - c
      /\ \A i \in 1..(d - c) : SubSeq(s, a + c + 1, a + d)[i] = s[a + c + i]
  BY <1>3, Segment
<1>5. \A i \in 1..(d - c) : t[c + i] = s[a + c + i]
  BY <1>1
<1>6. SubSeq(t, c + 1, d) = SubSeq(s, a + c + 1, a + d)
  BY <1>2, <1>4, <1>5, SeqEqual
<1> QED
  BY <1>6 DEF t

\* Appending moves no segment.
LEMMA SegmentOfPrefix ==
  ASSUME NEW S, NEW s \in Seq(S), NEW d \in Seq(S),
         NEW a \in Nat, NEW b \in a..Len(s)
  PROVE  SubSeq(s \o d, a + 1, b) = SubSeq(s, a + 1, b)
<1>1. /\ s \o d \in Seq(S) /\ Len(s \o d) = Len(s) + Len(d)
      /\ \A i \in 1..(Len(s) + Len(d)) :
           (s \o d)[i] = IF i <= Len(s) THEN s[i] ELSE d[i - Len(s)]
  BY ConcatProperties
<1>2. Len(s) \in Nat /\ Len(d) \in Nat
  OBVIOUS
<1>3. /\ SubSeq(s, a + 1, b) \in Seq(S) /\ Len(SubSeq(s, a + 1, b)) = b - a
      /\ \A i \in 1..(b - a) : SubSeq(s, a + 1, b)[i] = s[a + i]
  BY Segment
<1>4. b \in a..Len(s \o d)
  BY <1>1, <1>2
<1>5. /\ SubSeq(s \o d, a + 1, b) \in Seq(S)
      /\ Len(SubSeq(s \o d, a + 1, b)) = b - a
      /\ \A i \in 1..(b - a) : SubSeq(s \o d, a + 1, b)[i] = (s \o d)[a + i]
  BY <1>1, <1>4, Segment
<1>6. \A i \in 1..(b - a) : (s \o d)[a + i] = s[a + i]
  BY <1>1, <1>2
<1> QED
  BY <1>3, <1>5, <1>6, SeqEqual

\* What is appended is the segment after the old end.
LEMMA SegmentAppended ==
  ASSUME NEW S, NEW s \in Seq(S), NEW d \in Seq(S)
  PROVE  SubSeq(s \o d, Len(s) + 1, Len(s \o d)) = d
<1>1. /\ s \o d \in Seq(S) /\ Len(s \o d) = Len(s) + Len(d)
      /\ \A i \in 1..(Len(s) + Len(d)) :
           (s \o d)[i] = IF i <= Len(s) THEN s[i] ELSE d[i - Len(s)]
  BY ConcatProperties
<1>2. Len(s) \in Nat /\ Len(d) \in Nat
  OBVIOUS
<1>3. Len(s \o d) \in Len(s)..Len(s \o d)
  BY <1>1, <1>2
<1> DEFINE t == SubSeq(s \o d, Len(s) + 1, Len(s \o d))
<1>4. /\ t \in Seq(S) /\ Len(t) = Len(s \o d) - Len(s)
      /\ \A i \in 1..(Len(s \o d) - Len(s)) : t[i] = (s \o d)[Len(s) + i]
  BY <1>1, <1>2, <1>3, Segment
<1> HIDE DEF t
<1>5. Len(t) = Len(d)
  BY <1>1, <1>2, <1>4
<1>6. \A i \in 1..Len(d) : (s \o d)[Len(s) + i] = d[i]
  BY <1>1, <1>2
<1>7. \A i \in 1..Len(t) : t[i] = d[i]
  BY <1>1, <1>2, <1>4, <1>5, <1>6
<1>8. t = d
  BY <1>4, <1>5, <1>7, SeqEqual
<1> QED
  BY <1>8 DEF t

\* Two adjacent segments make one.
LEMMA SegmentsJoin ==
  ASSUME NEW S, NEW s \in Seq(S), NEW a \in 0..Len(s), NEW b \in a..Len(s)
  PROVE  SubSeq(s, 1, a) \o SubSeq(s, a + 1, b) = SubSeq(s, 1, b)
<1>1. 1 \in 1..(Len(s) + 1) /\ a \in (1 - 1)..Len(s)
  OBVIOUS
<1> QED
  BY <1>1, ConcatAdjacentSubSeq

-----------------------------------------------------------------------------
(* The codec                                                               *)

\* The remainder of a number that is not twice the divisor
LEMMA Remainder ==
  ASSUME NEW q \in Nat \ {0}, NEW x \in Nat, x < 2 * q
  PROVE  x % q = IF x < q THEN x ELSE x - q
<1>1. x = q * (x \div q) + (x % q) /\ x \div q \in Nat /\ x % q \in 0..(q - 1)
  BY Z3
<1> DEFINE k == x \div q
           r == x % q
<1>2. x = q * k + r /\ k \in Nat /\ r \in 0..(q - 1)
  BY <1>1
<1> HIDE DEF k, r
<1>3. CASE k = 0
  BY <1>2, <1>3 DEF r
<1>4. CASE k = 1
  BY <1>2, <1>4 DEF r
<1>5. CASE k >= 2
  <2>1. q * k >= q * 2
    BY <1>2, <1>5, Z3
  <2>2. QED
    BY <1>2, <2>1
<1>6. QED
  BY <1>2, <1>3, <1>4, <1>5

LEMMA WordType == Word \in Nat /\ Word >= 4
<1>1. Base * Base \in Nat /\ Base * Base >= 2 * Base
  BY BaseAssumption, Z3
<1>2. QED
  BY <1>1, BaseAssumption DEF Word

\* A length that a uint16 has is what its two bytes say.
LEMMA LengthRoundTrip ==
  ASSUME NEW n \in Nat
  PROVE  /\ PutUint16(n) \in Seq(Byte) /\ Len(PutUint16(n)) = 2
         /\ n < Word => Uint16(PutUint16(n)) = n
<1> USE BaseAssumption
<1>1. n = Base * (n \div Base) + (n % Base)
      /\ n \div Base \in Nat /\ n % Base \in 0..(Base - 1)
  BY Z3
<1>2. (n \div Base) % Base \in 0..(Base - 1)
  BY <1>1, Z3
<1>3. PutUint16(n) \in Seq(Byte) /\ Len(PutUint16(n)) = 2
  BY <1>1, <1>2 DEF PutUint16, Byte
<1>4. ASSUME n < Word PROVE Uint16(PutUint16(n)) = n
  <2>1. n \div Base < Base
    BY <1>1, <1>4, Z3 DEF Word
  <2>2. (n \div Base) % Base = n \div Base
    BY <1>1, <2>1, Z3
  <2>3. Uint16(PutUint16(n)) = ((n \div Base) % Base) * Base + (n % Base)
    BY DEF Uint16, PutUint16
  <2>4. (n \div Base) * Base + (n % Base) = n
    BY <1>1, Z3
  <2>5. QED
    BY <2>2, <2>3, <2>4
<1>5. QED
  BY <1>3, <1>4

\* What addPadding returns, byte by byte where it matters
LEMMA Padded ==
  ASSUME NEW data \in Seq(Byte), NEW pad \in Seq(Byte)
  PROVE  LET pkt == AddPadding(data, pad)
             l == PutUint16(Len(data))
         IN /\ pkt \in Seq(Byte)
            /\ Len(pkt) = 2 + Len(data) + Len(pad)
            /\ pkt[1] = l[1] /\ pkt[2] = l[2]
            /\ SubSeq(pkt, 3, 2 + Len(data)) = data
<1> DEFINE l == PutUint16(Len(data))
           h == l \o data
           pkt == AddPadding(data, pad)
<1>1. Len(data) \in Nat /\ Len(pad) \in Nat
  OBVIOUS
<1>2. l \in Seq(Byte) /\ Len(l) = 2
  BY <1>1, LengthRoundTrip
<1>3. pkt = h \o pad
  BY DEF AddPadding
<1> HIDE DEF l, pkt
<1>4. /\ h \in Seq(Byte) /\ Len(h) = 2 + Len(data)
      /\ \A i \in 1..2 : h[i] = l[i]
  <2>1. /\ h \in Seq(Byte) /\ Len(h) = Len(l) + Len(data)
        /\ \A i \in 1..(Len(l) + Len(data)) :
             h[i] = IF i <= Len(l) THEN l[i] ELSE data[i - Len(l)]
    BY <1>2, ConcatProperties
  <2>2. QED
    BY <1>1, <1>2, <2>1
<1>5. SubSeq(h, 3, 2 + Len(data)) = data
  <2>1. SubSeq(h, Len(l) + 1, Len(h)) = data
    BY <1>2, SegmentAppended
  <2>2. QED
    BY <1>2, <1>4, <2>1
<1> HIDE DEF h
<1>6. /\ pkt \in Seq(Byte) /\ Len(pkt) = 2 + Len(data) + Len(pad)
      /\ \A i \in 1..2 : pkt[i] = h[i]
  <2>1. h \in Seq(Byte)
    BY <1>4
  <2>2. /\ h \o pad \in Seq(Byte) /\ Len(h \o pad) = Len(h) + Len(pad)
        /\ \A i \in 1..(Len(h) + Len(pad)) :
             (h \o pad)[i] = IF i <= Len(h) THEN h[i] ELSE pad[i - Len(h)]
    BY <2>1, ConcatProperties
  <2>3. QED
    BY <1>1, <1>3, <1>4, <2>2
<1>7. pkt[1] = l[1] /\ pkt[2] = l[2]
  BY <1>1, <1>4, <1>6
<1>8. SubSeq(pkt, 2 + 1, 2 + Len(data)) = SubSeq(h, 2 + 1, 2 + Len(data))
  <2>1. 2 \in Nat /\ 2 + Len(data) \in 2..Len(h)
    BY <1>1, <1>4
  <2>2. QED
    BY <1>3, <1>4, <2>1, SegmentOfPrefix
<1>9. SubSeq(pkt, 3, 2 + Len(data)) = data
  BY <1>5, <1>8
<1> QED
  BY <1>6, <1>7, <1>9 DEF l, pkt

\* A payload that addPadding has made is valid.  removePadding takes the data from
\* it whatever the padding is, or panics, for the data of the two greatest lengths.
LEMMA RemoveUndoesAdd ==
  ASSUME NEW m \in ModeFields, NEW data \in Seq(Byte), data # <<>>,
         Len(data) < Word, NEW pad \in Seq(Byte)
  PROVE  LET pkt == AddPadding(data, pad)
         IN /\ Valid(m, pkt)
            /\ DataEnd(pkt) < 2 <=> Len(data) + 2 >= Word
            /\ Len(data) + 2 < Word => RemovePadding(pkt) = data
<1> DEFINE l == PutUint16(Len(data))
           pkt == AddPadding(data, pad)
<1>1. Len(data) \in Nat \ {0} /\ Len(pad) \in Nat
  BY EmptySeq
<1>2. Uint16(l) = Len(data)
  BY <1>1, LengthRoundTrip
<1>3. /\ pkt \in Seq(Byte) /\ Len(pkt) = 2 + Len(data) + Len(pad)
      /\ pkt[1] = l[1] /\ pkt[2] = l[2]
      /\ SubSeq(pkt, 3, 2 + Len(data)) = data
  BY Padded
<1> HIDE DEF l, pkt
<1>4. Uint16(pkt) = Len(data)
  BY <1>2, <1>3 DEF Uint16
<1>5. Valid(m, pkt)
  BY <1>1, <1>3, <1>4 DEF Valid
<1>6. Word \in Nat /\ Word >= 4 /\ Len(data) < Word
  BY WordType
<1>7. DataEnd(pkt) = IF 2 + Len(data) < Word THEN 2 + Len(data) ELSE (2 + Len(data)) - Word
  <2> DEFINE k == 2 + Len(data)
  <2>1. Word \in Nat \ {0} /\ k \in Nat /\ k < 2 * Word
    BY <1>1, <1>6
  <2>2. DataEnd(pkt) = k % Word
    BY <1>4 DEF DataEnd
  <2> HIDE DEF k
  <2>3. k % Word = IF k < Word THEN k ELSE k - Word
    BY <2>1, Remainder, Zenon
  <2>4. QED
    BY <2>2, <2>3 DEF k
<1>8. DataEnd(pkt) < 2 <=> Len(data) + 2 >= Word
  BY <1>1, <1>6, <1>7
<1>9. ASSUME Len(data) + 2 < Word PROVE RemovePadding(pkt) = data
  <2>1. DataEnd(pkt) = 2 + Len(data)
    BY <1>1, <1>6, <1>7, <1>9
  <2>2. QED
    BY <1>3, <2>1 DEF RemovePadding
<1> QED
  BY <1>5, <1>8, <1>9 DEF pkt

\* Data that Read takes for padded only if writePacket padded it
Unambiguous(m, data) == m.obfs \/ ~m.stealth \/ Len(data) > Small

\* What Read makes of a packet is what writePacket was given, whatever the padding
\* bytes, except for data of at most 4 bytes under stealth padding alone and for
\* padded data of the two greatest lengths a uint16 has: on every packet of those,
\* and on no other, Read panics.
THEOREM CodecRoundTrip ==
  ASSUME NEW m \in ModeFields, NEW data \in Seq(Byte), data # <<>>,
         Len(data) < Word, Unambiguous(m, data),
         NEW p \in Payloads(m, data)
  PROVE  /\ p \in Packet
         /\ m.obfs => Valid(m, p)
         /\ Panics(m, p) <=>
              m.samePsk /\ (m.obfs \/ m.stealth) /\ Len(data) + 2 >= Word
         /\ ~(m.obfs \/ m.stealth) \/ Len(data) + 2 < Word => Plaintext(m, p) = data
<1>0. Len(data) \in Nat /\ Word \in Nat
  BY WordType
<1>1. CASE m.obfs \/ (m.stealth /\ Len(data) > Small)
  <2>1. PICK pad \in UNION {[1..k -> Byte] : k \in PadLengths(m)} :
          p = AddPadding(data, pad)
    BY <1>1, Zenon DEF Payloads
  <2>2. PadLengths(m) \subseteq Nat
    BY DEF PadLengths, ModeFields
  <2>3. pad \in Seq(Byte)
    BY <2>2, SeqDef
  <2>4. /\ Valid(m, p)
        /\ DataEnd(p) < 2 <=> Len(data) + 2 >= Word
        /\ Len(data) + 2 < Word => RemovePadding(p) = data
    BY <2>1, <2>3, RemoveUndoesAdd
  <2>5. p \in Packet
    <3>1. p \in Seq(Byte) /\ Len(p) >= 2
      BY <2>1, <2>3, Padded
    <3>2. QED
      BY <3>1, EmptySeq DEF Packet
  <2>6. m.obfs \/ m.stealth
    BY <1>1
  <2>7. Panics(m, p) <=> m.samePsk /\ Len(data) + 2 >= Word
    BY <2>4, <2>6 DEF Panics
  <2>8. Len(data) + 2 < Word => Plaintext(m, p) = data
    BY <2>4, <2>6 DEF Plaintext
  <2>9. QED
    BY <1>0, <2>4, <2>5, <2>6, <2>7, <2>8
<1>2. CASE ~(m.obfs \/ (m.stealth /\ Len(data) > Small))
  <2>1. p = data
    BY <1>2 DEF Payloads
  <2>2. ~m.obfs /\ ~m.stealth
    BY <1>2 DEF Unambiguous
  <2>3. QED
    BY <2>1, <2>2 DEF Plaintext, Panics, Packet
<1>3. QED
  BY <1>1, <1>2

-----------------------------------------------------------------------------
(* Types                                                                   *)

LEMMA PayloadType ==
  ASSUME NEW m \in ModeFields, NEW data \in Packet, NEW p \in Payloads(m, data)
  PROVE  p \in Packet
<1>0. data \in Seq(Byte)
  BY DEF Packet
<1>1. CASE p = data
  BY <1>1
<1>2. CASE p # data
  <2>1. PICK pad \in UNION {[1..k -> Byte] : k \in PadLengths(m)} :
          p = AddPadding(data, pad)
    BY <1>2, Zenon DEF Payloads
  <2>2. PadLengths(m) \subseteq Nat
    BY DEF PadLengths, ModeFields
  <2>3. pad \in Seq(Byte)
    BY <2>2, SeqDef
  <2>4. p \in Seq(Byte) /\ Len(p) = 2 + Len(data) + Len(pad)
    BY <1>0, <2>1, <2>3, Padded
  <2>5. Len(p) # 0
    BY <1>0, <2>3, <2>4
  <2>6. QED
    BY <2>4, <2>5, EmptySeq DEF Packet
<1>3. QED
  BY <1>1, <1>2

\* Where Read does not panic, the data it takes lies within the packet.
LEMMA DataInPacket ==
  ASSUME NEW m, NEW p \in Packet, Valid(m, p)
  PROVE  DataEnd(p) \in Nat /\ (DataEnd(p) >= 2 => DataEnd(p) \in 2..Len(p))
<1>1. p \in Seq(Byte) /\ Len(p) \in Nat
  BY DEF Packet
<1>2. p[1] \in Byte /\ p[2] \in Byte
  BY <1>1 DEF Valid
<1>3. Uint16(p) \in Nat
  BY <1>2, BaseAssumption DEF Uint16, Byte
<1>4. Uint16(p) < Word
  <2>1. p[1] * Base <= (Base - 1) * Base
    BY <1>2, BaseAssumption, Z3 DEF Byte
  <2>2. (Base - 1) * Base = Base * Base - Base
    BY BaseAssumption, Z3
  <2> DEFINE w == Base * Base
             h == p[1] * Base
  <2>3. w \in Nat /\ h \in Nat
    BY <1>2, BaseAssumption, Z3 DEF Byte
  <2>4. h <= w - Base /\ p[2] <= Base - 1
    BY <1>2, <2>1, <2>2, BaseAssumption DEF Byte
  <2> HIDE DEF w, h
  <2>5. h + p[2] < w
    BY <1>2, <2>3, <2>4, BaseAssumption DEF Byte
  <2>6. QED
    BY <2>5 DEF w, h, Word, Uint16
<1> DEFINE n == Uint16(p)
<1>5. n \in Nat /\ n < Word /\ Word \in Nat /\ Word >= 4 /\ n + 2 <= Len(p)
  BY <1>3, <1>4, WordType DEF Valid
<1>6. DataEnd(p) = (2 + n) % Word
  BY DEF DataEnd
<1> HIDE DEF n
<1>7. (2 + n) % Word = IF 2 + n < Word THEN 2 + n ELSE (2 + n) - Word
  <2> DEFINE k == 2 + n
  <2>1. Word \in Nat \ {0} /\ k \in Nat /\ k < 2 * Word
    BY <1>5
  <2> HIDE DEF k
  <2>2. k % Word = IF k < Word THEN k ELSE k - Word
    BY <2>1, Remainder, Zenon
  <2>3. QED
    BY <2>2 DEF k
<1>8. QED
  BY <1>1, <1>5, <1>6, <1>7

LEMMA PlaintextType ==
  ASSUME NEW m, NEW p \in Packet
  PROVE  Plaintext(m, p) \in Seq(Byte)
<1>0. p \in Seq(Byte)
  BY DEF Packet
<1>1. ASSUME Valid(m, p) PROVE RemovePadding(p) \in Seq(Byte)
  <2>1. DataEnd(p) \in Nat /\ (DataEnd(p) >= 2 => DataEnd(p) \in 2..Len(p))
    BY <1>1, DataInPacket
  <2>2. CASE DataEnd(p) >= 2
    <3>1. 2 \in Nat /\ DataEnd(p) \in 2..Len(p)
      BY <2>1, <2>2
    <3>2. SubSeq(p, 2 + 1, DataEnd(p)) \in Seq(Byte)
      BY <1>0, <3>1, Segment
    <3>3. QED
      BY <3>2 DEF RemovePadding
  <2>3. CASE ~(DataEnd(p) >= 2)
    <3>1. SubSeq(p, 3, DataEnd(p)) = <<>>
      BY <1>0, <2>1, <2>3, SubSeqEmpty
    <3>2. QED
      BY <3>1, EmptySeq DEF RemovePadding
  <2>4. QED
    BY <2>2, <2>3
<1>2. QED
  BY <1>0, <1>1 DEF Plaintext

LEMMA ModeTyped == TypeOK => mode \in ModeFields
  BY ModesAssumption DEF TypeOK

\* A chunk is not empty and lies within what is still to send.
LEMMA ChunkFits ==
  ASSUME TypeOK, rest # <<>>, NEW n \in ChunkSizes
  PROVE  n \in 1..Len(rest) /\ (~bursting => n = Len(rest))
<1>1. Len(rest) \in Nat \ {0}
  BY EmptySeq DEF TypeOK
<1>2. MaxBurst \in Nat
  BY ModeTyped, ChunkAssumption DEF MaxBurst, ModeFields
<1>3. MinChunk \in Nat /\ MinChunk > 0
  BY ChunkAssumption DEF Small
<1>4. CASE bursting
  <2>1. PICK k \in {MinChunk} \cup MinChunk..MaxBurst : n = Least(k, Len(rest))
    BY <1>4 DEF ChunkSizes
  <2>2. k \in Nat /\ k > 0
    BY <1>2, <1>3
  <2>3. QED
    BY <1>1, <1>4, <2>1, <2>2 DEF Least
<1>5. CASE ~bursting
  BY <1>1, <1>5 DEF ChunkSizes
<1>6. QED
  BY <1>4, <1>5

\* Both halves of a non-empty sequence cut after n elements, or after its end
LEMMA CutTypes ==
  ASSUME NEW s \in Seq(Byte), NEW n \in Nat
  PROVE  /\ SubSeq(s, 1, Least(n, Len(s))) \in Seq(Byte)
         /\ SubSeq(s, n + 1, Len(s)) \in Seq(Byte)
<1>1. Len(s) \in Nat /\ Least(n, Len(s)) \in 0..Len(s)
  BY DEF Least
<1>2. SubSeq(s, 0 + 1, Least(n, Len(s))) \in Seq(Byte)
  BY <1>1, Segment
<1>3. CASE n <= Len(s)
  <2>1. Len(s) \in n..Len(s)
    BY <1>1, <1>3
  <2>2. SubSeq(s, n + 1, Len(s)) \in Seq(Byte)
    BY <2>1, Segment
  <2>3. QED
    BY <1>2, <2>2
<1>4. CASE ~(n <= Len(s))
  <2>1. SubSeq(s, n + 1, Len(s)) = <<>>
    BY <1>1, <1>4, SubSeqEmpty
  <2>2. QED
    BY <1>2, <2>1, EmptySeq
<1>5. QED
  BY <1>3, <1>4

LEMMA SizeTyped == ReadSizes \subseteq Nat \ {0}
  BY SizesAssumption

LEMMA TypeStep == TypeOK /\ [Next]_vars => TypeOK'
<1> SUFFICES ASSUME TypeOK, [Next]_vars PROVE TypeOK'
  OBVIOUS
<1> USE DEF TypeOK
<1>1. ASSUME NEW d \in Messages, Write(d) PROVE TypeOK'
  <2>1. d \in Seq(Byte)
    BY MessagesAssumption
  <2>2. sent' \in Seq(Byte)
    BY <1>1, <2>1, ConcatProperties DEF Write
  <2>3. bursting' \in BOOLEAN
    BY <1>1 DEF Write
  <2>4. rest' \in Messages
    BY <1>1 DEF Write
  <2>5. QED
    BY <1>1, <2>1, <2>2, <2>3, <2>4 DEF Write
<1>2. ASSUME WritePacket PROVE TypeOK'
  <2>1. PICK n \in ChunkSizes :
          /\ \E payload \in Payloads(mode, SubSeq(rest, 1, n)) :
               wire' = Append(wire, payload)
          /\ rest' = SubSeq(rest, n + 1, Len(rest))
    BY <1>2 DEF WritePacket
  <2>2. n \in 1..Len(rest) /\ (~bursting => n = Len(rest))
    BY <1>2, ChunkFits DEF WritePacket
  <2>3. SubSeq(rest, 0 + 1, n) \in Packet
    <3>1. SubSeq(rest, 0 + 1, n) \in Seq(Byte) /\ Len(SubSeq(rest, 0 + 1, n)) = n - 0
      BY <2>2, Segment
    <3>2. n \in Nat /\ n >= 1
      BY <2>2
    <3>3. Len(SubSeq(rest, 0 + 1, n)) # 0
      BY <3>1, <3>2
    <3>4. SubSeq(rest, 0 + 1, n) # <<>>
      BY <3>3, EmptySeq, Zenon
    <3>5. QED
      BY <3>1, <3>4, Zenon DEF Packet
  <2>4. PICK payload \in Payloads(mode, SubSeq(rest, 1, n)) :
          wire' = Append(wire, payload)
    BY <2>1
  <2>5. payload \in Packet
    <3>1. SubSeq(rest, 1, n) \in Packet /\ mode \in ModeFields
      BY <2>3, ModeTyped
    <3>2. QED
      BY <3>1, <2>4, PayloadType, Zenon
  <2>6. wire' \in Seq(Packet)
    BY <2>4, <2>5, AppendProperties
  <2>7. Len(rest) \in n..Len(rest) /\ n \in Nat
    BY <2>2
  <2>8. rest' \in Seq(Byte) /\ Len(rest') = Len(rest) - n
    BY <2>1, <2>7, Segment
  <2>9. ~bursting => rest' = <<>>
    BY <2>2, <2>7, <2>8, EmptySeq
  <2>10. UNCHANGED <<mode, sent, bursting, up, readBuf, got, ended, crashed>>
    BY <1>2 DEF WritePacket
  <2>11. QED
    BY <2>6, <2>8, <2>9, <2>10
<1>3. ASSUME WriteError PROVE TypeOK'
  BY <1>3, EmptySeq DEF WriteError
<1>4. ASSUME NEW k \in ReadSizes, ReadBuffered(k) PROVE TypeOK'
  <2>1. k \in Nat
    BY SizeTyped
  <2>2. /\ SubSeq(readBuf, 1, Least(k, Len(readBuf))) \in Seq(Byte)
        /\ SubSeq(readBuf, k + 1, Len(readBuf)) \in Seq(Byte)
    BY <2>1, CutTypes
  <2>3. got' \in Seq(Byte) /\ readBuf' \in Seq(Byte)
    BY <1>4, <2>2, ConcatProperties DEF ReadBuffered
  <2>4. QED
    BY <1>4, <2>3 DEF ReadBuffered
<1>5. ASSUME NEW k \in ReadSizes, ReadPacket(k) PROVE TypeOK'
  <2> DEFINE plain == Plaintext(mode, Head(wire))
  <2>1. k \in Nat
    BY SizeTyped
  <2>2. wire # <<>> /\ Head(wire) \in Packet /\ Tail(wire) \in Seq(Packet)
    BY <1>5, HeadTailProperties DEF ReadPacket
  <2>3. plain \in Seq(Byte)
    BY <2>2, PlaintextType
  <2>4. /\ got' = got \o SubSeq(plain, 1, Least(k, Len(plain)))
        /\ readBuf' = SubSeq(plain, k + 1, Len(plain))
    BY <1>5 DEF ReadPacket
  <2> HIDE DEF plain
  <2>5. /\ SubSeq(plain, 1, Least(k, Len(plain))) \in Seq(Byte)
        /\ SubSeq(plain, k + 1, Len(plain)) \in Seq(Byte)
    BY <2>1, <2>3, CutTypes
  <2>6. got' \in Seq(Byte) /\ readBuf' \in Seq(Byte)
    BY <2>4, <2>5, ConcatProperties
  <2>7. QED
    BY <1>5, <2>2, <2>6 DEF ReadPacket
<1>6. ASSUME ReadError PROVE TypeOK'
  BY <1>6 DEF ReadError
<1>7. ASSUME ReadPanics PROVE TypeOK'
  BY <1>7 DEF ReadPanics
<1>8. ASSUME SocketFails PROVE TypeOK'
  <2>1. PICK n \in 0..Len(wire) : wire' = SubSeq(wire, 1, n)
    BY <1>8 DEF SocketFails
  <2>2. SubSeq(wire, 0 + 1, n) \in Seq(Packet)
    BY Segment
  <2>3. wire' \in Seq(Packet)
    BY <2>1, <2>2
  <2>4. QED
    BY <1>8, <2>3 DEF SocketFails
<1>9. CASE UNCHANGED vars
  BY <1>9 DEF vars
<1>10. QED
  BY <1>1, <1>2, <1>3, <1>4, <1>5, <1>6, <1>7, <1>8, <1>9
  DEF Next, WriteStep, ReadStep

\* The types hold, for every size of a byte, configuration and set of messages: no
\* chunk, remainder or buffer is cut outside the data it is taken from, no packet
\* sent is empty, and only a burst ever leaves a part of its message unsent.
THEOREM TypeCorrect == Spec => []TypeOK
<1>1. Init => TypeOK
  BY EmptySeq DEF Init, TypeOK
<1>2. QED
  BY <1>1, TypeStep, PTL DEF Spec

-----------------------------------------------------------------------------
(* The stream                                                              *)

\* The inductive invariant.  cut[i] is how many bytes of sent come before the
\* end of packet i in flight; those of packet 0 have been taken off the wire.
Cuts(cut) ==
  /\ \A i \in 1..Len(wire) :
       /\ cut[i - 1] < cut[i]
       /\ Plaintext(mode, wire[i]) = SubSeq(sent, cut[i - 1] + 1, cut[i])
  /\ Len(got) <= cut[0]
  /\ got = SubSeq(sent, 1, Len(got))
  /\ readBuf = SubSeq(sent, Len(got) + 1, cut[0])
  /\ up => rest = SubSeq(sent, cut[Len(wire)] + 1, Len(sent))

\* What is left of a Write is a whole message until a burst has cut it.
RestInv ==
  rest # <<>> =>
    /\ Len(rest) + 2 < Word
    /\ IF bursting THEN mode.split ELSE Len(rest) > Small

CutInv == \E cut \in [0..Len(wire) -> 0..Len(sent)] : Cuts(cut)

StreamInv == TypeOK /\ RestInv /\ CutInv

\* What the callers and the configuration must keep to: messages are longer
\* than Small, as frames of smux are, and with the 2 bytes of their length shorter
\* than what a uint16 counts, as the frames of streams are not all; and splitting
\* and stealth padding are not used together without obfuscation.
Disciplined ==
  /\ \A d \in Messages : Small < Len(d) /\ Len(d) + 2 < Word
  /\ \A m \in Modes : m.obfs \/ ~m.stealth \/ ~m.split

\* Where a read of k bytes ends that begins after g bytes, with c at hand
Reach(g, c, k) == g + Least(k, c - g)

\* Reading k bytes of what is buffered after got
LEMMA Take ==
  ASSUME NEW s \in Seq(Byte), NEW c \in 0..Len(s), NEW g \in 0..c,
         NEW k \in Nat \ {0}
  PROVE  /\ Reach(g, c, k) \in g..c
         /\ g < c => g < Reach(g, c, k)
         /\ Len(SubSeq(s, g + 1, c)) = c - g
         /\ SubSeq(s, 1, g) \o SubSeq(SubSeq(s, g + 1, c), 1, Least(k, c - g))
              = SubSeq(s, 1, Reach(g, c, k))
         /\ SubSeq(SubSeq(s, g + 1, c), k + 1, c - g)
              = SubSeq(s, Reach(g, c, k) + 1, c)
<1> DEFINE h == g + Least(k, c - g)
           buf == SubSeq(s, g + 1, c)
<1>1. /\ g \in Nat /\ c \in Nat /\ c \in g..Len(s) /\ Len(s) \in Nat
      /\ h \in g..c /\ Least(k, c - g) \in 0..(c - g)
      /\ g < c => g < h
  BY DEF Least
<1>2. buf \in Seq(Byte) /\ Len(buf) = c - g
  BY <1>1, Segment
<1>3. SubSeq(buf, 0 + 1, Least(k, c - g)) = SubSeq(s, g + 0 + 1, g + Least(k, c - g))
  BY <1>1, SegmentOfSegment
<1>4. SubSeq(buf, 1, Least(k, c - g)) = SubSeq(s, g + 1, h)
  BY <1>1, <1>3
<1>5. SubSeq(s, 1, g) \o SubSeq(s, g + 1, h) = SubSeq(s, 1, h)
  <2>1. g \in 0..Len(s) /\ h \in g..Len(s)
    BY <1>1
  <2>2. QED
    BY <2>1, SegmentsJoin
<1>6. SubSeq(buf, k + 1, c - g) = SubSeq(s, h + 1, c)
  <2>1. CASE k <= c - g
    <3>1. k \in Nat /\ c - g \in k..(c - g) /\ h = g + k
      BY <1>1, <2>1 DEF Least
    <3>2. SubSeq(buf, k + 1, c - g) = SubSeq(s, g + k + 1, g + (c - g))
      BY <1>1, <3>1, SegmentOfSegment
    <3>3. g + (c - g) = c /\ g + k + 1 = h + 1
      BY <1>1, <3>1
    <3>4. QED
      BY <3>2, <3>3
  <2>2. CASE ~(k <= c - g)
    <3>1. h = c
      BY <1>1, <2>2 DEF Least
    <3>2. SubSeq(buf, k + 1, c - g) = <<>>
      BY <1>1, <2>2, SubSeqEmpty
    <3>3. SubSeq(s, c + 1, c) = <<>>
      BY <1>1, SubSeqEmpty
    <3>4. QED
      BY <3>1, <3>2, <3>3
  <2>3. QED
    BY <2>1, <2>2
<1> HIDE DEF h
<1>7. h = Reach(g, c, k)
  BY DEF h, Reach
<1>8. SubSeq(s, 1, g) \o SubSeq(buf, 1, Least(k, c - g)) = SubSeq(s, 1, h)
  BY <1>4, <1>5
<1>9. QED
  BY <1>1, <1>2, <1>6, <1>7, <1>8

LEMMA StreamInit == Init => StreamInv
<1> SUFFICES ASSUME Init PROVE StreamInv
  OBVIOUS
<1>1. TypeOK
  BY EmptySeq DEF Init, TypeOK
<1>2. RestInv
  BY DEF Init, RestInv
<1>3. CutInv
  <2> DEFINE cut == [i \in 0..0 |-> 0]
  <2>1. /\ Len(wire) = 0 /\ Len(sent) = 0 /\ Len(got) = 0
        /\ sent = <<>> /\ got = <<>> /\ readBuf = <<>> /\ rest = <<>>
    BY DEF Init
  <2>2. SubSeq(<<>>, 1, 0) = <<>>
    BY SubSeqEmpty
  <2>3. cut \in [0..Len(wire) -> 0..Len(sent)] /\ cut[0] = 0
    BY <2>1
  <2> HIDE DEF cut
  <2>4. Cuts(cut)
    BY <2>1, <2>2, <2>3 DEF Cuts
  <2>5. QED
    BY <2>3, <2>4 DEF CutInv
<1>4. QED
  BY <1>1, <1>2, <1>3 DEF StreamInv

LEMMA WriteKeeps ==
  ASSUME StreamInv, TypeOK', Disciplined, NEW d \in Messages, Write(d)
  PROVE  StreamInv' /\ Stream!Send
<1>1. TypeOK
  BY DEF StreamInv
<1>2. PICK cut \in [0..Len(wire) -> 0..Len(sent)] : Cuts(cut)
  BY DEF StreamInv, CutInv
<1>3. /\ d \in Seq(Byte) /\ Small < Len(d) /\ Len(d) + 2 < Word
      /\ sent \in Seq(Byte) /\ Len(wire) \in Nat /\ Len(sent) \in Nat
      /\ Len(d) \in Nat /\ Len(got) \in Nat
  BY <1>1, MessagesAssumption DEF Disciplined, TypeOK
<1>4. /\ rest = <<>> /\ rest' = d /\ sent' = sent \o d
      /\ bursting' = (mode.split /\ Len(d) > mode.maxBurst)
      /\ UNCHANGED <<mode, wire, up, readBuf, got, ended, crashed>>
  BY DEF Write
<1>5. sent' \in Seq(Byte) /\ Len(sent') = Len(sent) + Len(d)
  BY <1>3, <1>4, ConcatProperties
<1>6. RestInv'
  <2>1. CASE bursting'
    BY <1>3, <1>4, <2>1 DEF RestInv
  <2>2. CASE ~bursting'
    BY <1>3, <1>4, <2>2 DEF RestInv
  <2>3. QED
    BY <2>1, <2>2
<1>7. \A a, b \in Nat : a <= b /\ b <= Len(sent) =>
        SubSeq(sent', a + 1, b) = SubSeq(sent, a + 1, b)
  <2>1. ASSUME NEW a \in Nat, NEW b \in Nat, a <= b, b <= Len(sent)
        PROVE  SubSeq(sent \o d, a + 1, b) = SubSeq(sent, a + 1, b)
    <3>1. b \in a..Len(sent)
      BY <2>1
    <3>2. QED
      BY <1>3, <3>1, SegmentOfPrefix
  <2>2. QED
    BY <1>4, <2>1
<1>8. cut \in [0..Len(wire') -> 0..Len(sent')]
  BY <1>3, <1>4, <1>5
<1>9. Cuts(cut)'
  <2>1. ASSUME NEW i \in 1..Len(wire')
        PROVE  /\ cut[i - 1] < cut[i]
               /\ Plaintext(mode', wire'[i]) = SubSeq(sent', cut[i - 1] + 1, cut[i])
    <3>1. i \in 1..Len(wire) /\ i - 1 \in 0..Len(wire) /\ i \in 0..Len(wire)
      BY <1>3, <1>4
    <3>2. /\ cut[i - 1] < cut[i]
          /\ Plaintext(mode, wire[i]) = SubSeq(sent, cut[i - 1] + 1, cut[i])
      BY <1>2, <3>1 DEF Cuts
    <3>3. /\ cut[i - 1] \in Nat /\ cut[i] \in Nat
          /\ cut[i - 1] <= cut[i] /\ cut[i] <= Len(sent)
      <4>1. cut[i - 1] \in 0..Len(sent) /\ cut[i] \in 0..Len(sent)
        BY <3>1
      <4>2. QED
        BY <1>3, <3>2, <4>1
    <3>4. SubSeq(sent', cut[i - 1] + 1, cut[i]) = SubSeq(sent, cut[i - 1] + 1, cut[i])
      BY <1>7, <3>3, Zenon
    <3>5. QED
      BY <1>4, <3>2, <3>4
  <2>2. cut[0] \in Nat /\ cut[0] <= Len(sent)
    BY <1>2, <1>3
  <2>3. Len(got) <= cut[0] /\ Len(got) <= Len(sent)
    BY <1>2, <1>3, <2>2 DEF Cuts
  <2>4. got = SubSeq(sent', 1, Len(got))
    <3>1. SubSeq(sent', 0 + 1, Len(got)) = SubSeq(sent, 0 + 1, Len(got))
      <4>1. 0 \in Nat /\ 0 <= Len(got)
        BY <1>3
      <4>2. QED
        BY <1>3, <1>7, <2>3, <4>1, Zenon
    <3>2. QED
      BY <1>2, <3>1 DEF Cuts
  <2>5. readBuf = SubSeq(sent', Len(got) + 1, cut[0])
    <3>1. SubSeq(sent', Len(got) + 1, cut[0]) = SubSeq(sent, Len(got) + 1, cut[0])
      BY <1>3, <1>7, <2>2, <2>3, Zenon
    <3>2. QED
      BY <1>2, <3>1 DEF Cuts
  <2>6. ASSUME up PROVE rest' = SubSeq(sent', cut[Len(wire)] + 1, Len(sent'))
    <3>1. SubSeq(sent, cut[Len(wire)] + 1, Len(sent)) = <<>>
      BY <1>2, <1>4, <2>6 DEF Cuts
    <3>2. cut[Len(wire)] \in Nat /\ Len(sent) \in cut[Len(wire)]..Len(sent)
      BY <1>2, <1>3
    <3>3. Len(SubSeq(sent, cut[Len(wire)] + 1, Len(sent))) = Len(sent) - cut[Len(wire)]
      BY <1>3, <3>2, Segment, Zenon
    <3>4. cut[Len(wire)] = Len(sent)
      <4>1. Len(sent) - cut[Len(wire)] = 0
        BY <3>1, <3>3
      <4>2. QED
        BY <1>3, <3>2, <4>1
    <3>5. SubSeq(sent \o d, Len(sent) + 1, Len(sent \o d)) = d
      BY <1>3, SegmentAppended
    <3>6. QED
      BY <1>4, <3>4, <3>5
  <2>7. QED
    BY <1>4, <2>1, <2>3, <2>4, <2>5, <2>6 DEF Cuts
<1>10. CutInv'
  BY <1>8, <1>9 DEF CutInv
<1>11. Stream!Send
  <2>1. SubSeq(sent', 0 + 1, Len(sent)) = SubSeq(sent, 0 + 1, Len(sent))
    <3>1. 0 \in Nat /\ 0 <= Len(sent) /\ Len(sent) <= Len(sent)
      BY <1>3
    <3>2. QED
      BY <1>3, <1>7, <3>1, Zenon
  <2>2. SubSeq(sent, 1, Len(sent)) = sent
    BY <1>3, SubSeqFull
  <2>3. Len(sent') > Len(sent)
    BY <1>3, <1>5 DEF Small
  <2>4. QED
    BY <1>4, <1>5, <2>1, <2>2, <2>3 DEF Stream!Send
<1>12. QED
  BY <1>6, <1>10, <1>11 DEF StreamInv

\* Where the chunk cut from rest lies in sent
LEMMA ChunkInSent ==
  ASSUME NEW s \in Seq(Byte), NEW a \in 0..Len(s),
         NEW r, r = SubSeq(s, a + 1, Len(s)), NEW n \in 1..Len(r)
  PROVE  /\ a + n \in 0..Len(s)
         /\ SubSeq(r, 1, n) \in Seq(Byte) /\ Len(SubSeq(r, 1, n)) = n
         /\ SubSeq(r, 1, n) = SubSeq(s, a + 1, a + n)
         /\ SubSeq(r, n + 1, Len(r)) = SubSeq(s, a + n + 1, Len(s))
         /\ Len(SubSeq(r, n + 1, Len(r))) = Len(r) - n
<1>1. a \in Nat /\ Len(s) \in Nat /\ Len(s) \in a..Len(s)
  OBVIOUS
<1>2. r \in Seq(Byte) /\ Len(r) = Len(s) - a
  BY <1>1, Segment
<1>3. n \in Nat /\ n > 0 /\ n \in 0..(Len(s) - a) /\ Len(s) - a \in n..(Len(s) - a)
  BY <1>1, <1>2
<1>4. SubSeq(r, 0 + 1, n) = SubSeq(s, a + 0 + 1, a + n)
  BY <1>1, <1>3, SegmentOfSegment
<1>5. SubSeq(r, n + 1, Len(s) - a) = SubSeq(s, a + n + 1, a + (Len(s) - a))
  BY <1>1, <1>3, SegmentOfSegment
<1>6. SubSeq(r, 0 + 1, n) \in Seq(Byte) /\ Len(SubSeq(r, 0 + 1, n)) = n - 0
  <2>1. n \in 0..Len(r)
    BY <1>2, <1>3
  <2>2. QED
    BY <1>2, <2>1, Segment
<1>7. Len(SubSeq(r, n + 1, Len(r))) = Len(r) - n
  <2>1. Len(r) \in n..Len(r)
    BY <1>2, <1>3
  <2>2. QED
    BY <1>2, <1>3, <2>1, Segment
<1>8. a + 0 + 1 = a + 1 /\ a + (Len(s) - a) = Len(s) /\ 0 + 1 = 1 /\ n - 0 = n
      /\ a + n \in 0..Len(s)
  BY <1>1, <1>3
<1>9. QED
  BY <1>2, <1>4, <1>5, <1>6, <1>7, <1>8

\* A chunk comes out of its packet as it went in, without a panic.
LEMMA ChunkDecodes ==
  ASSUME TypeOK, RestInv, Disciplined, rest # <<>>, NEW n \in ChunkSizes,
         NEW payload \in Payloads(mode, SubSeq(rest, 1, n))
  PROVE  /\ payload \in Packet
         /\ Plaintext(mode, payload) = SubSeq(rest, 1, n)
         /\ ~Panics(mode, payload)
<1> DEFINE chunk == SubSeq(rest, 1, n)
<1>1. n \in 1..Len(rest) /\ (~bursting => n = Len(rest))
  BY ChunkFits
<1>2. mode \in ModeFields /\ rest \in Seq(Byte) /\ Len(rest) \in Nat
  BY ModeTyped DEF TypeOK
<1>3. chunk \in Seq(Byte) /\ Len(chunk) = n
  <2>1. SubSeq(rest, 0 + 1, n) \in Seq(Byte) /\ Len(SubSeq(rest, 0 + 1, n)) = n - 0
    BY <1>1, <1>2, Segment
  <2>2. QED
    BY <1>1, <2>1
<1> HIDE DEF chunk
<1>4. Len(rest) + 2 < Word /\ (IF bursting THEN mode.split ELSE Len(rest) > Small)
  BY DEF RestInv
<1>5. chunk # <<>> /\ Len(chunk) < Word /\ Len(chunk) + 2 < Word
  BY <1>1, <1>2, <1>3, <1>4, WordType, EmptySeq
<1>6. Unambiguous(mode, chunk)
  <2>1. ASSUME bursting PROVE Unambiguous(mode, chunk)
    <3>1. mode \in Modes /\ mode.split
      BY <1>4, <2>1, Zenon DEF TypeOK
    <3>2. QED
      BY <3>1, Zenon DEF Disciplined, Unambiguous
  <2>2. ASSUME ~bursting PROVE Unambiguous(mode, chunk)
    <3>1. Len(chunk) > Small
      BY <1>1, <1>3, <1>4, <2>2
    <3>2. QED
      BY <3>1, Zenon DEF Unambiguous
  <2>3. QED
    BY <2>1, <2>2
<1>7. payload \in Payloads(mode, chunk)
  BY DEF chunk
<1>8. /\ payload \in Packet
      /\ Panics(mode, payload) <=>
           mode.samePsk /\ (mode.obfs \/ mode.stealth) /\ Len(chunk) + 2 >= Word
      /\ ~(mode.obfs \/ mode.stealth) \/ Len(chunk) + 2 < Word
           => Plaintext(mode, payload) = chunk
  BY <1>2, <1>3, <1>5, <1>6, <1>7, CodecRoundTrip, Zenon
<1>9. ~(Len(chunk) + 2 >= Word)
  BY <1>3, <1>1, <1>5, WordType
<1>10. QED
  BY <1>5, <1>8, <1>9, Zenon DEF chunk

LEMMA WritePacketKeeps ==
  ASSUME StreamInv, TypeOK', Disciplined, WritePacket
  PROVE  StreamInv' /\ UNCHANGED Stream!stream
<1>1. TypeOK /\ mode \in ModeFields
  BY ModeTyped DEF StreamInv
<1>2. PICK cut \in [0..Len(wire) -> 0..Len(sent)] : Cuts(cut)
  BY DEF StreamInv, CutInv
<1>3. PICK n \in ChunkSizes :
        /\ \E payload \in Payloads(mode, SubSeq(rest, 1, n)) :
             wire' = Append(wire, payload)
        /\ rest' = SubSeq(rest, n + 1, Len(rest))
  BY DEF WritePacket
<1>4. rest # <<>> /\ up
      /\ UNCHANGED <<mode, sent, bursting, up, readBuf, got, ended, crashed>>
  BY DEF WritePacket
<1> DEFINE chunk == SubSeq(rest, 1, n)
           l == Len(wire)
           c == cut[l]
<1>5. PICK payload \in Payloads(mode, chunk) : wire' = Append(wire, payload)
  BY <1>3
<1>6. /\ n \in 1..Len(rest)
      /\ ~bursting => n = Len(rest)
      /\ Len(rest) \in Nat /\ l \in Nat /\ Len(sent) \in Nat
      /\ sent \in Seq(Byte) /\ rest \in Seq(Byte) /\ wire \in Seq(Packet)
  BY <1>1, <1>4, ChunkFits DEF TypeOK
<1>7. c \in 0..Len(sent) /\ rest = SubSeq(sent, c + 1, Len(sent))
  <2>1. Len(wire) \in 0..Len(wire)
    BY <1>6
  <2>2. cut[Len(wire)] \in 0..Len(sent)
    BY <2>1
  <2>3. rest = SubSeq(sent, cut[Len(wire)] + 1, Len(sent))
    BY <1>2, <1>4 DEF Cuts
  <2>4. QED
    BY <2>2, <2>3
<1>8. /\ c + n \in 0..Len(sent)
      /\ chunk \in Seq(Byte) /\ Len(chunk) = n
      /\ chunk = SubSeq(sent, c + 1, c + n)
      /\ rest' = SubSeq(sent, c + n + 1, Len(sent))
      /\ Len(rest') = Len(rest) - n
  <2>1. /\ c + n \in 0..Len(sent)
        /\ SubSeq(rest, 1, n) \in Seq(Byte) /\ Len(SubSeq(rest, 1, n)) = n
        /\ SubSeq(rest, 1, n) = SubSeq(sent, c + 1, c + n)
        /\ SubSeq(rest, n + 1, Len(rest)) = SubSeq(sent, c + n + 1, Len(sent))
        /\ Len(SubSeq(rest, n + 1, Len(rest))) = Len(rest) - n
    <3>1. /\ sent \in Seq(Byte) /\ c \in 0..Len(sent)
          /\ rest = SubSeq(sent, c + 1, Len(sent)) /\ n \in 1..Len(rest)
      BY <1>6, <1>7
    <3> HIDE DEF c
    <3>2. QED
      BY ONLY <3>1, ChunkInSent
  <2>2. QED
    BY <1>3, <2>1
<1> HIDE DEF chunk
<1>9. payload \in Packet /\ Plaintext(mode, payload) = SubSeq(rest, 1, n)
  BY <1>1, <1>4, <1>5, ChunkDecodes, Zenon DEF StreamInv, chunk
<1>10. payload \in Packet /\ Plaintext(mode, payload) = chunk
  BY <1>9 DEF chunk
<1>11. /\ Len(wire') = l + 1 /\ wire'[l + 1] = payload
       /\ \A i \in 1..l : wire'[i] = wire[i]
  BY <1>5, <1>6, <1>10, AppendProperties
<1>12. PICK cut2 \in [0..Len(wire') -> 0..Len(sent')] :
         (\A i \in 0..l : cut2[i] = cut[i]) /\ cut2[l + 1] = c + n
  <2> DEFINE f == [i \in 0..(l + 1) |-> IF i <= l THEN cut[i] ELSE c + n]
  <2>1. \A i \in 0..l : cut[i] \in 0..Len(sent)
    OBVIOUS
  <2>2. f \in [0..Len(wire') -> 0..Len(sent')]
    BY <1>4, <1>6, <1>8, <1>11, <2>1
  <2>3. (\A i \in 0..l : f[i] = cut[i]) /\ f[l + 1] = c + n
    BY <1>6
  <2> HIDE DEF f
  <2>4. QED
    BY <2>2, <2>3
<1> HIDE DEF c
<1>13. Cuts(cut2)'
  <2>1. ASSUME NEW i \in 1..Len(wire')
        PROVE  /\ cut2[i - 1] < cut2[i]
               /\ Plaintext(mode', wire'[i]) = SubSeq(sent', cut2[i - 1] + 1, cut2[i])
    <3>1. CASE i \in 1..l
      <4>1. i - 1 \in 0..l /\ i \in 0..l
        BY <1>6, <3>1
      <4>2. cut2[i - 1] = cut[i - 1] /\ cut2[i] = cut[i] /\ wire'[i] = wire[i]
        BY <1>11, <1>12, <3>1, <4>1
      <4>3. QED
        BY <1>2, <1>4, <3>1, <4>2 DEF Cuts
    <3>2. CASE i = l + 1
      <4>1. i - 1 = l /\ l \in 0..l
        BY <1>6, <3>2
      <4>2. cut2[i - 1] = c /\ cut2[i] = c + n /\ wire'[i] = payload
        BY <1>11, <1>12, <3>2, <4>1 DEF c
      <4>3. c < c + n
        BY <1>6, <1>7
      <4>4. QED
        BY <1>4, <1>8, <1>10, <4>2, <4>3
    <3>3. QED
      BY <1>6, <1>11, <3>1, <3>2
  <2>2. cut2[0] = cut[0] /\ cut2[Len(wire')] = c + n
    BY <1>6, <1>11, <1>12
  <2>3. QED
    BY <1>2, <1>4, <1>8, <2>1, <2>2 DEF Cuts
<1>14. CutInv'
  <2>1. \E cut3 \in [0..Len(wire') -> 0..Len(sent')] : Cuts(cut3)'
    BY <1>12, <1>13, Zenon
  <2>2. QED
    BY <2>1, Zenon DEF CutInv
<1>15. RestInv'
  <2>0. /\ Len(rest') = Len(rest) - n /\ n \in 1..Len(rest)
        /\ Len(rest) \in Nat
        /\ ~bursting => n = Len(rest)
    BY <1>6, <1>8, Zenon
  <2>1. CASE bursting
    <3>1. Len(rest) + 2 < Word /\ mode.split
      BY <1>4, <2>1 DEF StreamInv, RestInv
    <3>2. Len(rest') + 2 < Word
      BY <2>0, <3>1, WordType
    <3>3. QED
      BY <1>4, <2>1, <3>1, <3>2 DEF RestInv
  <2>2. CASE ~bursting
    <3>1. Len(rest') = 0
      BY <2>0, <2>2
    <3>2. rest' \in Seq(Byte)
      BY DEF TypeOK
    <3>3. rest' = <<>>
      BY <3>1, <3>2, EmptySeq
    <3>4. QED
      BY <3>3 DEF RestInv
  <2>3. QED
    BY <2>1, <2>2
<1>16. QED
  BY <1>4, <1>14, <1>15 DEF StreamInv, Stream!stream

\* Reading moves the end of got forward over sent.
LEMMA ReadIsReceive ==
  ASSUME TypeOK, ~ended, UNCHANGED <<sent, ended>>,
         NEW g \in Nat, Len(got) = g, NEW h \in (g + 1)..Len(sent),
         got' = SubSeq(sent, 1, h)
  PROVE  Stream!Receive
<1>1. h \in (Len(got) + 1)..Len(sent)
  OBVIOUS
<1>2. QED
  BY <1>1 DEF Stream!Receive

LEMMA ReadBufferedKeeps ==
  ASSUME StreamInv, TypeOK', NEW k \in ReadSizes, ReadBuffered(k)
  PROVE  StreamInv' /\ Stream!Receive
<1>1. TypeOK
  BY DEF StreamInv
<1>2. PICK cut \in [0..Len(wire) -> 0..Len(sent)] : Cuts(cut)
  BY DEF StreamInv, CutInv
<1>3. /\ ~ended /\ readBuf # <<>>
      /\ got' = got \o SubSeq(readBuf, 1, Least(k, Len(readBuf)))
      /\ readBuf' = SubSeq(readBuf, k + 1, Len(readBuf))
      /\ UNCHANGED <<mode, sent, rest, bursting, wire, up, ended, crashed>>
  BY DEF ReadBuffered
<1>4. /\ sent \in Seq(Byte) /\ Len(sent) \in Nat /\ Len(wire) \in Nat
      /\ Len(got) \in Nat /\ k \in Nat \ {0}
  BY <1>1, SizeTyped DEF TypeOK
<1>5. cut[0] \in 0..Len(sent)
  BY <1>4
<1>6. /\ Len(got) \in 0..cut[0] /\ got = SubSeq(sent, 1, Len(got))
      /\ readBuf = SubSeq(sent, Len(got) + 1, cut[0])
  BY <1>2, <1>4, <1>5 DEF Cuts
<1>7. Len(got) < cut[0]
  <2>1. SUFFICES ASSUME Len(got) = cut[0] PROVE FALSE
    BY <1>4, <1>5, <1>6
  <2>2. SubSeq(sent, Len(got) + 1, cut[0]) = <<>>
    BY <1>4, <1>5, <2>1, SubSeqEmpty
  <2>3. QED
    BY <1>3, <1>6, <2>2
<1> DEFINE h == Reach(Len(got), cut[0], k)
<1>8. /\ h \in Len(got)..cut[0]
      /\ Len(got) < cut[0] => Len(got) < h
      /\ SubSeq(sent, 1, Len(got)) \o SubSeq(readBuf, 1, Least(k, Len(readBuf)))
           = SubSeq(sent, 1, h)
      /\ SubSeq(readBuf, k + 1, Len(readBuf)) = SubSeq(sent, h + 1, cut[0])
  <2>1. /\ sent \in Seq(Byte) /\ cut[0] \in 0..Len(sent)
        /\ Len(got) \in 0..cut[0] /\ k \in Nat \ {0}
    BY <1>4, <1>5, <1>6, Zenon
  <2> DEFINE seg == SubSeq(sent, Len(got) + 1, cut[0])
  <2>2. /\ h \in Len(got)..cut[0]
        /\ Len(got) < cut[0] => Len(got) < h
        /\ Len(seg) = cut[0] - Len(got)
        /\ SubSeq(sent, 1, Len(got)) \o SubSeq(seg, 1, Least(k, cut[0] - Len(got)))
             = SubSeq(sent, 1, h)
        /\ SubSeq(seg, k + 1, cut[0] - Len(got)) = SubSeq(sent, h + 1, cut[0])
    BY <2>1, Take, Zenon
  <2>3. readBuf = seg
    BY <1>6, Zenon
  <2> HIDE DEF h, seg
  <2>4. QED
    BY <2>2, <2>3
<1> HIDE DEF h
<1>9. got' = SubSeq(sent, 1, h) /\ readBuf' = SubSeq(sent, h + 1, cut[0])
  BY <1>3, <1>6, <1>8
<1>10. h \in (Len(got) + 1)..Len(sent) /\ h <= cut[0] /\ h \in 0..Len(sent)
  BY <1>4, <1>5, <1>7, <1>8
<1>11. Len(got') = h
  <2>1. Len(SubSeq(sent, 0 + 1, h)) = h - 0
    BY <1>4, <1>10, Segment
  <2>2. QED
    BY <1>9, <1>10, <2>1
<1>12. Cuts(cut)'
  BY <1>2, <1>3, <1>9, <1>10, <1>11 DEF Cuts
<1>13. CutInv'
  BY <1>3, <1>12 DEF CutInv
<1>14. RestInv'
  BY <1>3 DEF StreamInv, RestInv
<1>15. Stream!Receive
  BY <1>1, <1>3, <1>4, <1>9, <1>10, ReadIsReceive
<1>16. QED
  BY <1>13, <1>14, <1>15 DEF StreamInv

LEMMA ReadPacketKeeps ==
  ASSUME StreamInv, TypeOK', NEW k \in ReadSizes, ReadPacket(k)
  PROVE  StreamInv' /\ Stream!Receive
<1>1. TypeOK
  BY DEF StreamInv
<1>2. PICK cut \in [0..Len(wire) -> 0..Len(sent)] : Cuts(cut)
  BY DEF StreamInv, CutInv
<1> DEFINE plain == Plaintext(mode, wire[1])
           l == Len(wire)
<1>3. /\ ~ended /\ readBuf = <<>> /\ wire # <<>>
      /\ got' = got \o SubSeq(plain, 1, Least(k, Len(plain)))
      /\ readBuf' = SubSeq(plain, k + 1, Len(plain))
      /\ wire' = Tail(wire)
      /\ UNCHANGED <<mode, sent, rest, bursting, up, ended, crashed>>
  <2>1. wire \in Seq(Packet) /\ wire # <<>>
    BY <1>1 DEF ReadPacket, TypeOK
  <2>2. Head(wire) = wire[1]
    BY <2>1
  <2>3. QED
    BY <2>2, Zenon DEF ReadPacket
<1>4. /\ sent \in Seq(Byte) /\ Len(sent) \in Nat /\ l \in Nat \ {0}
      /\ wire \in Seq(Packet)
      /\ Len(got) \in Nat /\ k \in Nat \ {0}
  <2>1. wire \in Seq(Packet) /\ sent \in Seq(Byte) /\ got \in Seq(Byte)
    BY <1>1 DEF TypeOK
  <2>2. Len(wire) \in Nat \ {0}
    BY <1>3, <2>1, EmptySeq
  <2>3. QED
    BY <2>1, <2>2, SizeTyped
<1>5. cut[0] \in 0..Len(sent) /\ cut[1] \in 0..Len(sent)
  <2>1. 0 \in 0..Len(wire) /\ 1 \in 0..Len(wire)
    BY <1>4
  <2>2. QED
    BY <2>1
<1>6. /\ cut[0] < cut[1]
      /\ plain = SubSeq(sent, cut[0] + 1, cut[1])
      /\ Len(got) <= cut[0] /\ got = SubSeq(sent, 1, Len(got))
      /\ readBuf = SubSeq(sent, Len(got) + 1, cut[0])
  <2>1. 1 \in 1..Len(wire) /\ 1 - 1 = 0
    BY <1>4
  <2>2. cut[1 - 1] < cut[1] /\ plain = SubSeq(sent, cut[1 - 1] + 1, cut[1])
    BY <1>2, <2>1 DEF Cuts
  <2>3. QED
    BY <1>2, <2>1, <2>2 DEF Cuts
<1>7. Len(got) = cut[0]
  <2>1. cut[0] \in Len(got)..Len(sent)
    BY <1>4, <1>5, <1>6
  <2>2. Len(SubSeq(sent, Len(got) + 1, cut[0])) = cut[0] - Len(got)
    BY <1>4, <2>1, Segment
  <2>3. cut[0] - Len(got) = 0
    BY <1>3, <1>6, <2>2, EmptySeq
  <2>4. QED
    BY <1>4, <1>5, <2>3
<1> HIDE DEF plain
<1> DEFINE h == Reach(Len(got), cut[1], k)
<1>8. /\ h \in Len(got)..cut[1]
      /\ Len(got) < cut[1] => Len(got) < h
      /\ SubSeq(sent, 1, Len(got)) \o SubSeq(plain, 1, Least(k, Len(plain)))
           = SubSeq(sent, 1, h)
      /\ SubSeq(plain, k + 1, Len(plain)) = SubSeq(sent, h + 1, cut[1])
  <2>1. Len(got) \in 0..cut[1] /\ plain = SubSeq(sent, Len(got) + 1, cut[1])
    BY <1>4, <1>5, <1>6, <1>7
  <2>2. plain \in Seq(Byte)
    <3>1. wire[1] \in Packet
      BY <1>4
    <3>2. QED
      BY <3>1, PlaintextType DEF plain
  <2>3. QED
    <3>1. /\ sent \in Seq(Byte) /\ cut[1] \in 0..Len(sent)
          /\ Len(got) \in 0..cut[1] /\ k \in Nat \ {0}
      BY <1>4, <1>5, <2>1, Zenon
    <3> DEFINE seg == SubSeq(sent, Len(got) + 1, cut[1])
    <3>2. /\ h \in Len(got)..cut[1]
          /\ Len(got) < cut[1] => Len(got) < h
          /\ Len(seg) = cut[1] - Len(got)
          /\ SubSeq(sent, 1, Len(got)) \o SubSeq(seg, 1, Least(k, cut[1] - Len(got)))
               = SubSeq(sent, 1, h)
          /\ SubSeq(seg, k + 1, cut[1] - Len(got)) = SubSeq(sent, h + 1, cut[1])
      BY <3>1, Take, Zenon
    <3>3. plain = seg
      BY <2>1, Zenon
    <3> HIDE DEF h, seg
    <3>4. QED
      BY <3>2, <3>3
<1> HIDE DEF h
<1>9. got' = SubSeq(sent, 1, h) /\ readBuf' = SubSeq(sent, h + 1, cut[1])
  BY <1>3, <1>6, <1>8
<1>10. h \in (Len(got) + 1)..Len(sent) /\ h <= cut[1] /\ h \in 0..Len(sent)
  <2>1. Len(got) < cut[1]
    BY <1>6, <1>7
  <2>2. h \in Len(got)..cut[1] /\ Len(got) < h
    BY <1>8, <2>1
  <2>3. QED
    BY <1>4, <1>5, <2>2
<1>11. Len(got') = h
  <2>1. Len(SubSeq(sent, 0 + 1, h)) = h - 0
    BY <1>4, <1>10, Segment
  <2>2. QED
    BY <1>9, <1>10, <2>1
<1>12. Len(wire') = l - 1 /\ \A i \in 1..(l - 1) : wire'[i] = wire[i + 1]
  <2>1. /\ Tail(wire) \in Seq(Packet) /\ Len(Tail(wire)) = l - 1
        /\ \A i \in 1..Len(Tail(wire)) : Tail(wire)[i] = wire[i + 1]
    BY <1>3, <1>4, HeadTailProperties
  <2>2. QED
    BY <1>3, <2>1
<1>13. PICK cut2 \in [0..Len(wire') -> 0..Len(sent')] :
         \A i \in 0..(l - 1) : cut2[i] = cut[i + 1]
  <2> DEFINE f == [i \in 0..(l - 1) |-> cut[i + 1]]
  <2>1. \A i \in 0..(l - 1) : cut[i + 1] \in 0..Len(sent)
    BY <1>4
  <2>2. f \in [0..Len(wire') -> 0..Len(sent')]
    BY <1>3, <1>12, <2>1
  <2>3. \A i \in 0..(l - 1) : f[i] = cut[i + 1]
    OBVIOUS
  <2> HIDE DEF f
  <2>4. QED
    BY <2>2, <2>3
<1>14. Cuts(cut2)'
  <2>1. ASSUME NEW i \in 1..Len(wire')
        PROVE  /\ cut2[i - 1] < cut2[i]
               /\ Plaintext(mode', wire'[i]) = SubSeq(sent', cut2[i - 1] + 1, cut2[i])
    <3>1. /\ i \in 1..(l - 1) /\ i - 1 \in 0..(l - 1) /\ i \in 0..(l - 1)
          /\ i + 1 \in 1..Len(wire) /\ (i + 1) - 1 = i /\ (i - 1) + 1 = i
      BY <1>4, <1>12
    <3>2. cut2[i - 1] = cut[i] /\ cut2[i] = cut[i + 1] /\ wire'[i] = wire[i + 1]
      BY <1>12, <1>13, <3>1
    <3>3. /\ cut[(i + 1) - 1] < cut[i + 1]
          /\ Plaintext(mode, wire[i + 1]) = SubSeq(sent, cut[(i + 1) - 1] + 1, cut[i + 1])
      BY <1>2, <3>1 DEF Cuts
    <3>4. QED
      BY <1>3, <3>1, <3>2, <3>3
  <2>2. cut2[0] = cut[1] /\ cut2[Len(wire')] = cut[l]
    <3>1. 0 \in 0..(l - 1) /\ l - 1 \in 0..(l - 1) /\ (l - 1) + 1 = l /\ 0 + 1 = 1
      BY <1>4
    <3>2. QED
      BY <1>12, <1>13, <3>1
  <2>3. up => rest = SubSeq(sent, cut[l] + 1, Len(sent))
    BY <1>2 DEF Cuts
  <2>4. QED
    BY <1>3, <1>9, <1>10, <1>11, <2>1, <2>2, <2>3 DEF Cuts
<1>15. CutInv'
  <2>1. \E cut3 \in [0..Len(wire') -> 0..Len(sent')] : Cuts(cut3)'
    BY <1>13, <1>14, Zenon
  <2>2. QED
    BY <2>1, Zenon DEF CutInv
<1>16. RestInv'
  BY <1>3 DEF StreamInv, RestInv
<1>17. Stream!Receive
  BY <1>1, <1>3, <1>4, <1>9, <1>10, ReadIsReceive
<1>18. QED
  BY <1>15, <1>16, <1>17 DEF StreamInv

LEMMA SocketFailsKeeps ==
  ASSUME StreamInv, TypeOK', SocketFails
  PROVE  StreamInv' /\ UNCHANGED Stream!stream
<1>1. TypeOK
  BY DEF StreamInv
<1>2. PICK cut \in [0..Len(wire) -> 0..Len(sent)] : Cuts(cut)
  BY DEF StreamInv, CutInv
<1>3. PICK n \in 0..Len(wire) : wire' = SubSeq(wire, 1, n)
  BY DEF SocketFails
<1>4. ~up' /\ UNCHANGED <<mode, sent, rest, bursting, readBuf, got, ended, crashed>>
  BY DEF SocketFails
<1>5. /\ wire \in Seq(Packet) /\ Len(wire) \in Nat /\ n \in Nat /\ n <= Len(wire)
      /\ Len(sent) \in Nat
  BY <1>1 DEF TypeOK
<1>6. Len(wire') = n /\ \A i \in 1..n : wire'[i] = wire[i]
  <2>1. /\ Len(SubSeq(wire, 0 + 1, n)) = n - 0
        /\ \A i \in 1..(n - 0) : SubSeq(wire, 0 + 1, n)[i] = wire[0 + i]
    BY <1>5, Segment
  <2>2. QED
    BY <1>3, <1>5, <2>1
<1>7. PICK cut2 \in [0..Len(wire') -> 0..Len(sent')] :
        \A i \in 0..n : cut2[i] = cut[i]
  <2> DEFINE f == [i \in 0..n |-> cut[i]]
  <2>1. \A i \in 0..n : cut[i] \in 0..Len(sent)
    BY <1>5
  <2>2. f \in [0..Len(wire') -> 0..Len(sent')]
    BY <1>4, <1>6, <2>1
  <2>3. \A i \in 0..n : f[i] = cut[i]
    OBVIOUS
  <2> HIDE DEF f
  <2>4. QED
    BY <2>2, <2>3
<1>8. Cuts(cut2)'
  <2>1. ASSUME NEW i \in 1..Len(wire')
        PROVE  /\ cut2[i - 1] < cut2[i]
               /\ Plaintext(mode', wire'[i]) = SubSeq(sent', cut2[i - 1] + 1, cut2[i])
    <3>1. i \in 1..n /\ i \in 1..Len(wire) /\ i - 1 \in 0..n /\ i \in 0..n
      BY <1>5, <1>6
    <3>2. cut2[i - 1] = cut[i - 1] /\ cut2[i] = cut[i] /\ wire'[i] = wire[i]
      BY <1>6, <1>7, <3>1
    <3>3. QED
      BY <1>2, <1>4, <3>1, <3>2 DEF Cuts
  <2>2. cut2[0] = cut[0]
    BY <1>5, <1>7
  <2>3. QED
    BY <1>2, <1>4, <2>1, <2>2 DEF Cuts
<1>9. CutInv'
  <2>1. \E cut3 \in [0..Len(wire') -> 0..Len(sent')] : Cuts(cut3)'
    BY <1>7, <1>8, Zenon
  <2>2. QED
    BY <2>1, Zenon DEF CutInv
<1>10. RestInv'
  BY <1>4 DEF StreamInv, RestInv
<1>11. QED
  BY <1>4, <1>9, <1>10 DEF StreamInv, Stream!stream

LEMMA StreamStep ==
  ASSUME StreamInv, Disciplined, [Next]_vars
  PROVE  StreamInv' /\ [Stream!Next]_(Stream!stream)
<1>1. TypeOK'
  BY TypeStep DEF StreamInv
<1>2. CASE \E d \in Messages : Write(d)
  BY <1>1, <1>2, WriteKeeps DEF Stream!Next
<1>3. CASE WritePacket
  BY <1>1, <1>3, WritePacketKeeps
<1>4. CASE WriteError
  <2>1. rest' = <<>> /\ ~up
        /\ UNCHANGED <<mode, sent, bursting, wire, up, readBuf, got, ended, crashed>>
    BY <1>4 DEF WriteError
  <2>2. RestInv'
    BY <2>1 DEF RestInv
  <2>3. CutInv'
    BY <2>1 DEF StreamInv, CutInv, Cuts
  <2>4. QED
    BY <1>1, <2>1, <2>2, <2>3 DEF StreamInv, Stream!stream
<1>5. CASE \E k \in ReadSizes : ReadBuffered(k)
  BY <1>1, <1>5, ReadBufferedKeeps DEF Stream!Next
<1>6. CASE \E k \in ReadSizes : ReadPacket(k)
  BY <1>1, <1>6, ReadPacketKeeps DEF Stream!Next
<1>7. CASE ReadError
  <2>1. /\ ended' = TRUE
        /\ UNCHANGED <<mode, sent, rest, bursting, wire, up, readBuf, got, crashed>>
    BY <1>7 DEF ReadError
  <2>2. RestInv'
    BY <2>1 DEF StreamInv, RestInv
  <2>3. CutInv'
    BY <2>1 DEF StreamInv, CutInv, Cuts
  <2>4. Stream!End
    BY <2>1 DEF Stream!End
  <2>5. QED
    BY <1>1, <2>2, <2>3, <2>4 DEF StreamInv, Stream!Next
<1>8. CASE ReadPanics
  <2>1. /\ up' = FALSE
        /\ UNCHANGED <<mode, sent, rest, bursting, wire, readBuf, got, ended>>
    BY <1>8 DEF ReadPanics
  <2>2. RestInv'
    BY <2>1 DEF StreamInv, RestInv
  <2>3. CutInv'
    BY <2>1 DEF StreamInv, CutInv, Cuts
  <2>4. QED
    BY <1>1, <2>1, <2>2, <2>3 DEF StreamInv, Stream!stream
<1>9. CASE SocketFails
  BY <1>1, <1>9, SocketFailsKeeps
<1>10. CASE UNCHANGED vars
  <2>1. UNCHANGED <<mode, sent, rest, bursting, wire, up, readBuf, got, ended, crashed>>
    BY <1>10 DEF vars
  <2>2. RestInv'
    BY <2>1 DEF StreamInv, RestInv
  <2>3. CutInv'
    BY <2>1 DEF StreamInv, CutInv, Cuts
  <2>4. QED
    BY <1>1, <2>1, <2>2, <2>3 DEF StreamInv, Stream!stream
<1>11. QED
  BY <1>2, <1>3, <1>4, <1>5, <1>6, <1>7, <1>8, <1>9, <1>10
  DEF Next, WriteStep, ReadStep

\* Under that discipline the packet layer is a byte stream, whatever the
\* padding, the chunks, the read buffers and the moment the socket fails: no
\* byte that Write was given is lost, doubled or altered between two others.
THEOREM StreamImplemented == Disciplined /\ Spec => ImplementsStream
<1>1. Disciplined /\ Init => StreamInv /\ Stream!Init
  <2>1. Init => Stream!Init
    BY DEF Init, Stream!Init
  <2>2. QED
    BY <2>1, StreamInit
<1>2. Disciplined /\ StreamInv /\ [Next]_vars
        => StreamInv' /\ [Stream!Next]_(Stream!stream)
  BY StreamStep
<1>3. Disciplined /\ Spec => [][Stream!Next]_(Stream!stream)
  <2>1. SUFFICES ASSUME Disciplined PROVE Spec => [][Stream!Next]_(Stream!stream)
    OBVIOUS
  <2>2. Init => StreamInv
    BY StreamInit
  <2>3. StreamInv /\ [Next]_vars => StreamInv' /\ [Stream!Next]_(Stream!stream)
    BY <1>2, <2>1
  <2>4. QED
    BY <2>2, <2>3, PTL DEF Spec
<1>4. Spec /\ Disciplined => Stream!Init
  BY <1>1 DEF Spec
<1>5. QED
  BY <1>3, <1>4 DEF ImplementsStream, Stream!Spec

-----------------------------------------------------------------------------
(* No panic                                                                *)

\* Nothing is in flight that the reader would panic on.
Harmless == ~crashed /\ \A i \in 1..Len(wire) : ~Panics(mode, wire[i])

LEMMA HarmlessStep ==
  ASSUME StreamInv, Harmless, Disciplined, [Next]_vars
  PROVE  Harmless'
<1>1. TypeOK /\ wire \in Seq(Packet) /\ Len(wire) \in Nat
  BY DEF StreamInv, TypeOK
<1>2. CASE WritePacket
  <2>1. PICK n \in ChunkSizes :
          \E payload \in Payloads(mode, SubSeq(rest, 1, n)) :
            wire' = Append(wire, payload)
    BY <1>2 DEF WritePacket
  <2>2. PICK payload \in Payloads(mode, SubSeq(rest, 1, n)) :
          wire' = Append(wire, payload)
    BY <2>1
  <2>3. rest # <<>> /\ UNCHANGED <<mode, crashed>>
    BY <1>2 DEF WritePacket
  <2>4. payload \in Packet /\ ~Panics(mode, payload)
    BY <1>1, <2>2, <2>3, ChunkDecodes, Zenon DEF StreamInv
  <2>5. /\ Len(wire') = Len(wire) + 1 /\ wire'[Len(wire) + 1] = payload
        /\ \A i \in 1..Len(wire) : wire'[i] = wire[i]
    BY <1>1, <2>2, <2>4, AppendProperties
  <2>6. ASSUME NEW i \in 1..Len(wire') PROVE ~Panics(mode', wire'[i])
    <3>1. CASE i \in 1..Len(wire)
      BY <2>3, <2>5, <3>1 DEF Harmless
    <3>2. CASE i = Len(wire) + 1
      BY <2>3, <2>4, <2>5, <3>2
    <3>3. QED
      BY <1>1, <2>5, <3>1, <3>2
  <2>7. QED
    BY <2>3, <2>6 DEF Harmless
<1>3. CASE \E k \in ReadSizes : ReadPacket(k)
  <2>1. wire # <<>> /\ wire' = Tail(wire) /\ UNCHANGED <<mode, crashed>>
    BY <1>3 DEF ReadPacket
  <2>2. /\ Len(wire') = Len(wire) - 1
        /\ \A i \in 1..Len(wire') : wire'[i] = wire[i + 1]
    BY <1>1, <2>1, HeadTailProperties
  <2>3. ASSUME NEW i \in 1..Len(wire') PROVE ~Panics(mode', wire'[i])
    <3>1. i + 1 \in 1..Len(wire)
      BY <1>1, <2>2
    <3>2. ~Panics(mode, wire[i + 1])
      BY <3>1 DEF Harmless
    <3>3. QED
      BY <2>1, <2>2, <3>2
  <2>4. QED
    BY <2>1, <2>3 DEF Harmless
<1>4. ~ReadPanics
  <2>1. SUFFICES ASSUME ReadPanics PROVE FALSE
    OBVIOUS
  <2>2. wire # <<>> /\ Panics(mode, Head(wire))
    BY <2>1 DEF ReadPanics
  <2>3. Head(wire) = wire[1] /\ 1 \in 1..Len(wire)
    BY <1>1, <2>2, EmptySeq
  <2>4. QED
    BY <2>2, <2>3 DEF Harmless
<1>5. CASE SocketFails
  <2>1. PICK n \in 0..Len(wire) : wire' = SubSeq(wire, 1, n)
    BY <1>5 DEF SocketFails
  <2>2. UNCHANGED <<mode, crashed>>
    BY <1>5 DEF SocketFails
  <2>3. /\ Len(SubSeq(wire, 0 + 1, n)) = n - 0
        /\ \A i \in 1..(n - 0) : SubSeq(wire, 0 + 1, n)[i] = wire[0 + i]
    BY <1>1, Segment
  <2>4. n \in Nat /\ n <= Len(wire)
    BY <1>1
  <2>5. Len(wire') = n /\ \A i \in 1..n : wire'[i] = wire[i]
    BY <2>1, <2>3, <2>4
  <2>6. ASSUME NEW i \in 1..Len(wire') PROVE ~Panics(mode', wire'[i])
    <3>1. i \in 1..Len(wire) /\ wire'[i] = wire[i]
      BY <1>1, <2>4, <2>5
    <3>2. QED
      BY <2>2, <3>1 DEF Harmless
  <2>7. QED
    BY <2>2, <2>6 DEF Harmless
<1>6. CASE UNCHANGED <<mode, wire, crashed>>
  BY <1>6 DEF Harmless
<1>7. WriteStep => WritePacket \/ UNCHANGED <<mode, wire, crashed>>
  BY DEF WriteStep, Write, WriteError
<1>8. ReadStep => \/ \E k \in ReadSizes : ReadPacket(k)
                  \/ UNCHANGED <<mode, wire, crashed>>
  BY <1>4 DEF ReadStep, ReadBuffered, ReadError
<1>9. QED
  BY <1>2, <1>3, <1>5, <1>6, <1>7, <1>8 DEF Next, vars

\* The reader's process is safe under the same discipline: removePadding never
\* slices out of range, so that only messages of the two greatest lengths do harm.
THEOREM NeverPanics == Disciplined /\ Spec => []~crashed
<1>1. SUFFICES ASSUME Disciplined PROVE Spec => []~crashed
  OBVIOUS
<1>2. Init => StreamInv /\ Harmless
  <2>1. Init => Harmless
    BY DEF Init, Harmless
  <2>2. QED
    BY <2>1, StreamInit
<1>3. StreamInv /\ Harmless /\ [Next]_vars => StreamInv' /\ Harmless'
  BY <1>1, StreamStep, HarmlessStep
<1>4. Harmless => ~crashed
  BY DEF Harmless
<1>5. QED
  BY <1>2, <1>3, <1>4, PTL DEF Spec
=============================================================================
