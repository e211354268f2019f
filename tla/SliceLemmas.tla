---------------------------- MODULE SliceLemmas ----------------------------
(***************************************************************************)
(* What append and removal do to a slice without duplicates: facts about   *)
(* sequences that the proofs about both session pools rest on.             *)
(***************************************************************************)
EXTENDS Integers, Sequences, SequencesExt, SequenceTheorems, TLAPS

\* Removing entry i moves the later entries one place down.
LEMMA RemoveAtElements ==
  ASSUME NEW S, NEW q \in Seq(S), NEW i \in 1..Len(q)
  PROVE  /\ RemoveAt(q, i) \in Seq(S)
         /\ Len(RemoveAt(q, i)) = Len(q) - 1
         /\ \A k \in 1..(Len(q) - 1) :
              RemoveAt(q, i)[k] = IF k < i THEN q[k] ELSE q[k + 1]
<1> DEFINE a == SubSeq(q, 1, i - 1)
           b == SubSeq(q, i + 1, Len(q))
<1>1. /\ a \in Seq(S) /\ Len(a) = i - 1
      /\ \A k \in 1..(i - 1) : a[k] = q[k]
  BY SubSeqProperties
<1>2. /\ b \in Seq(S) /\ Len(b) = Len(q) - i
      /\ \A k \in 1..(Len(q) - i) : b[k] = q[i + k]
  BY SubSeqProperties
<1>3. RemoveAt(q, i) = a \o b
  BY DEF RemoveAt
<1> HIDE DEF a, b
<1>4. /\ a \o b \in Seq(S)
      /\ Len(a \o b) = Len(q) - 1
      /\ \A k \in 1..(Len(q) - 1) :
           (a \o b)[k] = IF k <= Len(a) THEN a[k] ELSE b[k - Len(a)]
  <2>1. /\ a \o b \in Seq(S)
        /\ Len(a \o b) = Len(a) + Len(b)
        /\ \A k \in 1..(Len(a) + Len(b)) :
             (a \o b)[k] = IF k <= Len(a) THEN a[k] ELSE b[k - Len(a)]
    BY <1>1, <1>2, ConcatProperties
  <2>2. Len(q) \in Nat /\ Len(a) + Len(b) = Len(q) - 1
    BY <1>1, <1>2
  <2>3. QED
    BY <2>1, <2>2
<1>5. ASSUME NEW k \in 1..(Len(q) - 1)
      PROVE  (a \o b)[k] = IF k < i THEN q[k] ELSE q[k + 1]
  <2>1. CASE k < i
    BY <1>1, <1>4, <2>1
  <2>2. CASE ~(k < i)
    <3>1. k - Len(a) \in 1..(Len(q) - i) /\ i + (k - Len(a)) = k + 1
      BY <1>1, <2>2
    <3>2. ~(k <= Len(a))
      BY <1>1, <2>2
    <3>3. (a \o b)[k] = b[k - Len(a)]
      BY <1>4, <3>2
    <3>4. b[k - Len(a)] = q[i + (k - Len(a))]
      BY <1>2, <3>1
    <3>5. (a \o b)[k] = q[k + 1]
      BY <3>1, <3>3, <3>4, Zenon
    <3>6. QED
      BY <2>2, <3>5
  <2>3. QED
    BY <2>1, <2>2
<1>6. QED
  BY <1>3, <1>4, <1>5

\* Removing an entry of a slice without duplicates removes that session, and
\* leaves no duplicates.
LEMMA RemoveAtRange ==
  ASSUME NEW S, NEW q \in Seq(S), NEW i \in 1..Len(q), IsInjective(q)
  PROVE  /\ IsInjective(RemoveAt(q, i))
         /\ Range(RemoveAt(q, i)) = Range(q) \ {q[i]}
<1> DEFINE r == RemoveAt(q, i)
<1>1. /\ r \in Seq(S) /\ Len(r) = Len(q) - 1
      /\ \A k \in 1..(Len(q) - 1) : r[k] = IF k < i THEN q[k] ELSE q[k + 1]
  BY RemoveAtElements
<1>2. /\ DOMAIN r = 1..(Len(q) - 1) /\ DOMAIN q = 1..Len(q) /\ Len(q) \in Nat
  BY <1>1
<1> HIDE DEF r
<1>3. ASSUME NEW j \in 1..(Len(q) - 1), NEW k \in 1..(Len(q) - 1), r[j] = r[k]
      PROVE  j = k
  <2>1. \A x, y \in 1..Len(q) : q[x] = q[y] => x = y
    BY <1>2 DEF IsInjective
  <2>2. QED
    BY <1>1, <1>2, <1>3, <2>1
<1>4. ASSUME NEW k \in 1..(Len(q) - 1)
      PROVE  r[k] \in Range(q) \ {q[i]}
  <2>1. PICK m \in 1..Len(q) : r[k] = q[m] /\ m # i
    <3>1. k \in 1..Len(q) /\ k + 1 \in 1..Len(q)
      BY <1>2
    <3>2. CASE k < i
      BY <1>1, <3>1, <3>2
    <3>3. CASE ~(k < i)
      <4>1. k + 1 # i /\ r[k] = q[k + 1]
        BY <1>1, <1>2, <3>3
      <4>2. QED
        BY <3>1, <4>1
    <3>4. QED
      BY <3>2, <3>3
  <2>2. q[m] # q[i]
    BY <1>2, <2>1 DEF IsInjective
  <2>3. QED
    BY <1>2, <2>1, <2>2 DEF Range
<1>5. ASSUME NEW j \in 1..Len(q), j # i
      PROVE  q[j] \in Range(r)
  <2>1. CASE j < i
    <3>1. j \in 1..(Len(q) - 1) /\ r[j] = q[j]
      BY <1>1, <1>2, <2>1
    <3>2. QED
      BY <1>2, <3>1 DEF Range
  <2>2. CASE j > i
    <3>1. j - 1 \in 1..(Len(q) - 1) /\ r[j - 1] = q[j]
      BY <1>1, <1>2, <2>2
    <3>2. QED
      BY <1>2, <3>1 DEF Range
  <2>3. QED
    BY <1>2, <1>5, <2>1, <2>2
<1>6. IsInjective(r)
  BY <1>2, <1>3 DEF IsInjective
<1>7. Range(r) = Range(q) \ {q[i]}
  <2>1. Range(r) \subseteq Range(q) \ {q[i]}
    BY <1>2, <1>4 DEF Range
  <2>2. Range(q) \ {q[i]} \subseteq Range(r)
    BY <1>2, <1>5 DEF Range
  <2>3. QED
    BY <2>1, <2>2
<1>8. QED
  BY <1>6, <1>7 DEF r

\* Appending adds one session, and no duplicate if it was not there.
LEMMA AppendRange ==
  ASSUME NEW S, NEW q \in Seq(S), NEW e \in S
  PROVE  /\ Append(q, e) \in Seq(S)
         /\ Range(Append(q, e)) = Range(q) \cup {e}
         /\ IsInjective(q) /\ e \notin Range(q) => IsInjective(Append(q, e))
<1> DEFINE r == Append(q, e)
<1>1. /\ r \in Seq(S) /\ Len(r) = Len(q) + 1 /\ r[Len(q) + 1] = e
      /\ \A k \in 1..Len(q) : r[k] = q[k]
  BY AppendProperties
<1>2. /\ DOMAIN r = 1..(Len(q) + 1) /\ DOMAIN q = 1..Len(q) /\ Len(q) \in Nat
  BY <1>1
<1> HIDE DEF r
<1>3. Range(r) = Range(q) \cup {e}
  <2>1. \A k \in 1..(Len(q) + 1) : k \in 1..Len(q) \/ k = Len(q) + 1
    BY <1>2
  <2>2. Range(r) \subseteq Range(q) \cup {e}
    BY <1>1, <1>2, <2>1 DEF Range
  <2>3. \A k \in 1..Len(q) : k \in DOMAIN r
    BY <1>2
  <2>4. e \in Range(r)
    <3>1. Len(q) + 1 \in DOMAIN r
      BY <1>2
    <3>2. QED
      BY <1>1, <3>1 DEF Range
  <2>5. Range(q) \subseteq Range(r)
    BY <1>1, <1>2, <2>3 DEF Range
  <2>6. QED
    BY <2>2, <2>4, <2>5
<1>4. ASSUME IsInjective(q), e \notin Range(q)
      PROVE  IsInjective(r)
  <2>1. \A x, y \in 1..Len(q) : q[x] = q[y] => x = y
    BY <1>2, <1>4 DEF IsInjective
  <2>2. \A x \in 1..Len(q) : q[x] # e
    BY <1>2, <1>4 DEF Range
  <2>3. \A x, y \in 1..(Len(q) + 1) : r[x] = r[y] => x = y
    BY <1>1, <1>2, <2>1, <2>2
  <2>4. QED
    BY <1>2, <2>3 DEF IsInjective
<1>5. QED
  BY <1>1, <1>3, <1>4 DEF r
=============================================================================
