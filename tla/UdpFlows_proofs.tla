-------------------------- MODULE UdpFlows_proofs --------------------------
(***************************************************************************)
(* Proofs about a reverse UDP port, for any number of peers and flows.     *)
(***************************************************************************)
EXTENDS UdpFlows, FiniteSetTheorems, TLAPS

\* The types hold, and the loop uses an address and a flow only when it has one.
THEOREM TypeCorrect == Spec => []TypeOK
<1>1. Init => TypeOK
  BY DEF Init, TypeOK, StreamStates, ReaderStates
<1>2. ASSUME TypeOK, [Next]_vars
      PROVE  TypeOK'
  <2> USE <1>2, NoneAssumption DEF TypeOK, StreamStates, ReaderStates, flow
  <2>1. CASE Loop
    <3>1. ASSUME NEW a \in Addrs, Receive(a)
          PROVE  TypeOK'
      BY <3>1 DEF Receive
    <3>2. CASE Hit
      BY <3>2 DEF Hit
    <3>3. CASE Miss
      BY <3>3 DEF Miss
    <3>4. ASSUME NEW f \in Flows, OpenOk(f)
          PROVE  TypeOK'
      BY <3>4 DEF OpenOk
    <3>5. CASE OpenFail
      BY <3>5 DEF OpenFail
    <3>6. CASE Touch
      BY <3>6 DEF Touch
    <3>7. CASE Write
      BY <3>7 DEF Write
    <3>8. QED
      BY <2>1, <3>1, <3>2, <3>3, <3>4, <3>5, <3>6, <3>7 DEF Loop
  <2>2. CASE Sweeper
    <3>1. CASE SweepStart
      BY <3>1 DEF SweepStart
    <3>2. ASSUME NEW a \in Addrs, SweepVisit(a)
          PROVE  TypeOK'
      <4>1. peers[a] \in Flows
        BY <3>2 DEF SweepVisit
      <4>2. stream' \in [Flows -> StreamStates]
        BY <3>2, <4>1 DEF SweepVisit
      <4>3. peers' \in [Addrs -> Flows \cup {None}]
        BY <3>2 DEF SweepVisit
      <4>4. \A b \in Addrs : b # a => peers'[b] = peers[b]
        BY <3>2 DEF SweepVisit
      <4>5. sweep' \subseteq {b \in Addrs : peers'[b] # None}
        BY <3>2, <4>4 DEF SweepVisit
      <4>6. QED
        BY <3>2, <4>2, <4>3, <4>5 DEF SweepVisit
    <3>3. QED
      BY <2>2, <3>1, <3>2 DEF Sweeper
  <2>3. ASSUME NEW f \in Flows, Reader(f) \/ StreamEnds(f) \/ Age(f)
        PROVE  TypeOK'
    <3>1. CASE ReadData(f)
      BY <3>1 DEF ReadData
    <3>2. CASE ReadError(f)
      BY <3>2 DEF ReadError
    <3>3. CASE Forget(f)
      BY <3>3 DEF Forget, Unlocked
    <3>4. CASE Uncount(f)
      BY <3>4 DEF Uncount
    <3>5. CASE StreamEnds(f)
      BY <3>5 DEF StreamEnds
    <3>6. CASE Age(f)
      BY <3>6 DEF Age
    <3>7. QED
      BY <2>3, <3>1, <3>2, <3>3, <3>4, <3>5, <3>6 DEF Reader
  <2>4. CASE UNCHANGED vars
    BY <2>4 DEF vars
  <2>5. QED
    BY <1>2, <2>1, <2>2, <2>3, <2>4 DEF Next
<1>3. QED
  BY <1>1, <1>2, PTL DEF Spec

\* The map leads from an address to a flow of that address whose reader has not
\* yet deleted it, although the cleanup of an older flow deletes by address.
THEOREM MapSoundAlways == Spec => []MapSound
<1>1. Init => MapSound
  BY DEF Init, MapSound
<1>2. ASSUME TypeOK, MapSound, [Next]_vars
      PROVE  MapSound'
  <2> USE <1>2, NoneAssumption DEF TypeOK, MapSound, flow
  <2>1. CASE Loop
    <3>1. ASSUME NEW f \in Flows, OpenOk(f)
          PROVE  MapSound'
      BY <3>1 DEF OpenOk
    <3>2. CASE UNCHANGED <<peers, raddr, reader>>
      BY <3>2
    <3>3. QED
      BY <2>1, <3>1, <3>2
         DEF Loop, Receive, Hit, Miss, OpenFail, Touch, Write
  <2>2. CASE Sweeper
    <3>1. UNCHANGED <<raddr, reader>>
      BY <2>2 DEF Sweeper, SweepStart, SweepVisit
    <3>2. \A a \in Addrs : peers'[a] \in {peers[a], None}
      BY <2>2 DEF Sweeper, SweepStart, SweepVisit
    <3>3. QED
      BY <3>1, <3>2
  <2>3. ASSUME NEW f \in Flows, Reader(f) \/ StreamEnds(f) \/ Age(f)
        PROVE  MapSound'
    <3>1. CASE ReadError(f)
      BY <3>1 DEF ReadError
    <3>2. CASE Forget(f)
      BY <3>2 DEF Forget
    <3>3. CASE Uncount(f)
      BY <3>3 DEF Uncount
    <3>4. CASE ReadData(f) \/ StreamEnds(f) \/ Age(f)
      BY <3>4 DEF ReadData, StreamEnds, Age
    <3>5. QED
      BY <2>3, <3>1, <3>2, <3>3, <3>4 DEF Reader
  <2>4. CASE UNCHANGED vars
    BY <2>4 DEF vars
  <2>5. QED
    BY <1>2, <2>1, <2>2, <2>3, <2>4 DEF Next
<1>3. QED
  BY <1>1, <1>2, TypeCorrect, PTL DEF Spec

\* The flows' share of the stream counters is the number of live readers.
THEOREM LoadExactAlways == Spec => []LoadExact
<1>1. Init => LoadExact
  <2>1. Init => Live = {}
    BY DEF Init, Live
  <2>2. QED
    BY <2>1, FS_EmptySet DEF Init, LoadExact
<1>2. ASSUME TypeOK, LoadExact, [Next]_vars
      PROVE  LoadExact'
  <2> USE <1>2 DEF TypeOK, flow
  <2>1. IsFiniteSet(Live)
    BY FlowsAssumption, FS_Subset DEF Live
  <2>2. ASSUME NEW f \in Flows, OpenOk(f)
        PROVE  LoadExact'
    <3>1. Live' = Live \cup {f} /\ f \notin Live
      BY <2>2 DEF OpenOk, Live
    <3>2. Cardinality(Live') = Cardinality(Live) + 1
      BY <2>1, <3>1, FS_AddElement
    <3>3. QED
      BY <2>2, <3>2 DEF OpenOk, LoadExact
  <2>3. ASSUME NEW f \in Flows, Uncount(f)
        PROVE  LoadExact'
    <3>1. Live' = Live \ {f} /\ f \in Live
      BY <2>3 DEF Uncount, Live
    <3>2. Cardinality(Live') = Cardinality(Live) - 1
      BY <2>1, <3>1, FS_RemoveElement
    <3>3. QED
      BY <2>3, <3>2 DEF Uncount, LoadExact
  <2>4. ASSUME NEW f \in Flows, ReadError(f) \/ Forget(f)
        PROVE  LoadExact'
    <3>1. Live' = Live
      BY <2>4 DEF ReadError, Forget, Live
    <3>2. QED
      BY <2>4, <3>1 DEF ReadError, Forget, LoadExact
  <2>5. CASE UNCHANGED <<reader, load>>
    BY <2>5 DEF Live, LoadExact
  <2>6. QED
    BY <2>2, <2>3, <2>4, <2>5
       DEF Next, Loop, Receive, Hit, Miss, OpenFail, Touch, Write, Sweeper,
           SweepStart, SweepVisit, Reader, ReadData, StreamEnds, Age, vars
<1>3. QED
  BY <1>1, <1>2, TypeCorrect, PTL DEF Spec
=============================================================================
