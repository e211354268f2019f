-------------------------- MODULE ConfigLoad_proofs --------------------------
(***************************************************************************)
(* Proofs about ConfigLoad, for every set of files, of mappings and every  *)
(* number of edits:                                                        *)
(*   OwnSettingsAlways        no end runs without the mode and the key of  *)
(*                            its user (from IInv),                        *)
(*   TypeCorrect              an end that is up has settings of the        *)
(*                            current version without a zero among them,   *)
(*   FirstLikeLaterAlways     an end runs at every start as at the first,  *)
(*                            but for what Wavers lists,                   *)
(*   EndsAgreeAlways          two ends pad alike, speak one version of     *)
(*                            smux, do not time each other out and have    *)
(*                            buffers that smux accepts                    *)
(*                            (both from Settled, and both but for files   *)
(*                            that were cut off),                          *)
(*   CurrentEditsApplyAlways  what a user adds to a file of the current    *)
(*                            version is served after the next start       *)
(*                            (from Currents).                             *)
(* For all but the first, LoadConfig is first put in a form that says      *)
(* field by field what becomes of a file (LoadOf), what becomes of that at *)
(* the next start (Again, WholeAgain), and what of it the two ends must    *)
(* agree about (From).                                                     *)
(***************************************************************************)
EXTENDS ConfigLoad, FiniteSetTheorems, TLAPS

-----------------------------------------------------------------------------
(* The steps of LoadConfig hand on the mode and the key                    *)

Named(c) == "mode" \in DOMAIN c /\ "psk" \in DOMAIN c

Keeps(c, r) == Named(r) /\ r.mode = c.mode /\ r.psk = c.psk

LEMMA EmptyIsNamed == Named(EmptyFile) /\ EmptyFile.mode = ""
BY DEF Named, EmptyFile

LEMMA FileIsNamed ==
  ASSUME NEW c \in File
  PROVE  Named(c)
BY DEF Named, File

LEMMA DefaultsStep ==
  ASSUME NEW c, Named(c)
  PROVE  Keeps(c, ApplyBaseDefaults(c))
BY DEF Keeps, Named, ApplyBaseDefaults

LEMMA ProfileStep ==
  ASSUME NEW c, Named(c)
  PROVE  Keeps(c, ApplyProfile(c))
BY DEF Keeps, Named, ApplyProfile

LEMMA ForwardStep ==
  ASSUME NEW c, Named(c)
  PROVE  Keeps(c, ConvertMapsToForward(c))
BY DEF Keeps, Named, ConvertMapsToForward

LEMMA AliasStep ==
  ASSUME NEW c, Named(c)
  PROVE  Keeps(c, SyncAliases(c))
BY DEF Keeps, Named, SyncAliases

LEMMA MigrateStep ==
  ASSUME NEW c, Named(c)
  PROVE  Keeps(c, MigrateConfig(c))
BY DEF Keeps, Named, MigrateConfig

LEMMA LoadStep ==
  ASSUME NEW c, Named(c)
  PROVE  Keeps(c, LoadConfig(c))
<1> DEFINE b == ApplyBaseDefaults(c)
           p == ApplyProfile(b)
           f == ConvertMapsToForward(p)
           a == SyncAliases(f)
<1>1. Keeps(c, b)
  BY DefaultsStep
<1>2. Keeps(b, p)
  BY <1>1, ProfileStep DEF Keeps
<1>3. Keeps(p, f)
  BY <1>2, ForwardStep DEF Keeps
<1>4. Keeps(f, a)
  BY <1>3, AliasStep DEF Keeps
<1>5. Keeps(a, MigrateConfig(a))
  BY <1>4, MigrateStep DEF Keeps
<1>6. LoadConfig(c) = MigrateConfig(a)
  BY DEF LoadConfig
<1> HIDE DEF b, p, f, a
<1>7. QED
  BY <1>1, <1>2, <1>3, <1>4, <1>5, <1>6 DEF Keeps

\* So does an edit of the mappings.
LEMMA MapsStep ==
  ASSUME NEW c, Named(c), NEW maps, NEW d, d = [c EXCEPT !.maps = maps]
  PROVE  Keeps(c, d)
BY DEF Keeps, Named

\* A file that was cut off still begins with them.
LEMMA CutStep ==
  ASSUME NEW c, Named(c), NEW n \in Cuts
  PROVE  Keeps(c, Beginning(c, n))
<1>1. 2 \in 1..n /\ 3 \in 1..n
  BY CutsAssumption
<1>2. Order[2] = "mode" /\ Order[3] = "psk"
  BY DEF Order
<1>3. QED
  BY <1>1, <1>2 DEF Keeps, Named, Beginning

-----------------------------------------------------------------------------
(* The inductive invariant                                                 *)

\* A file is the empty one or has the mode and the key its user wrote.
Own(e, c) == Named(c) /\ (c.mode = "" \/ (c.mode = asked[e].mode /\ c.psk = asked[e].psk))

Domains ==
  /\ DOMAIN disk = Ends /\ DOMAIN run = Ends
  /\ DOMAIN pc = Ends /\ DOMAIN asked = Ends

\* What is on the disk and what an end has loaded is its own or empty, and by the
\* time it is up it is not empty.
IInv ==
  /\ Domains
  /\ \A e \in Ends :
       /\ Own(e, disk[e]) /\ Own(e, run[e]) /\ Named(asked[e])
       /\ pc[e] = "up" => run[e].mode # ""

LEMMA InitInv == Init => IInv
<1> SUFFICES ASSUME Init PROVE IInv
  OBVIOUS
<1>1. ASSUME NEW e \in Ends PROVE Named(disk[e]) /\ asked[e] = disk[e]
  <2>1. disk[e] \in Files[e] /\ asked = disk
    BY DEF Init
  <2>2. QED
    BY <2>1, FilesAssumption, FileIsNamed
<1>2. Domains
  BY DEF Init, Domains
<1>3. \A e \in Ends : run[e] = EmptyFile /\ pc[e] = "down"
  BY DEF Init
<1>4. QED
  BY <1>1, <1>2, <1>3, EmptyIsNamed DEF IInv, Own

\* A step of one end leaves the others alone.
LEMMA OneEnd ==
  ASSUME IInv, NEW e \in Ends, Domains',
         \A f \in Ends : f # e =>
           /\ disk'[f] = disk[f] /\ run'[f] = run[f]
           /\ pc'[f] = pc[f] /\ asked'[f] = asked[f],
         Own(e, disk[e])', Own(e, run[e])', Named(asked'[e]),
         pc'[e] = "up" => run'[e].mode # ""
  PROVE  IInv'
<1>1. ASSUME NEW f \in Ends, f # e
      PROVE  /\ Own(f, disk[f])' /\ Own(f, run[f])' /\ Named(asked'[f])
             /\ pc'[f] = "up" => run'[f].mode # ""
  <2>1. /\ disk'[f] = disk[f] /\ run'[f] = run[f]
        /\ pc'[f] = pc[f] /\ asked'[f] = asked[f]
    BY <1>1
  <2>2. /\ Own(f, disk[f]) /\ Own(f, run[f]) /\ Named(asked[f])
        /\ pc[f] = "up" => run[f].mode # ""
    BY DEF IInv
  <2>3. QED
    BY <2>1, <2>2 DEF Own
<1>2. QED
  BY <1>1 DEF IInv

LEMMA InvStep == IInv /\ [Next]_vars => IInv'
<1> SUFFICES ASSUME IInv, [Next]_vars PROVE IInv'
  OBVIOUS
<1> USE DEF Goto
<1>i. ASSUME NEW e \in Ends
      PROVE  /\ Own(e, disk[e]) /\ Own(e, run[e]) /\ Named(asked[e])
             /\ Named(disk[e])
  BY DEF IInv, Own
<1>1. CASE UNCHANGED vars
  BY <1>1 DEF vars, IInv, Own, Domains
<1>2. ASSUME NEW e \in Ends, Load(e) PROVE IInv'
  <2> DEFINE c == LoadConfig(disk[e])
  <2>1. Keeps(disk[e], c)
    BY <1>i, LoadStep
  <2>2. /\ run' = [run EXCEPT ![e] = c]
        /\ pc' = [pc EXCEPT ![e] = IF disk[e].version < CurrentConfigVersion
                                     THEN "save" ELSE "loaded"]
        /\ UNCHANGED <<disk, asked>>
    BY <1>2 DEF Load
  <2> HIDE DEF c
  <2>3. Domains'
    BY <2>2 DEF IInv, Domains
  <2>4. run'[e] = c /\ pc'[e] # "up"
    BY <2>2 DEF IInv, Domains
  <2>5. \A f \in Ends : f # e => run'[f] = run[f] /\ pc'[f] = pc[f]
    BY <2>2 DEF IInv, Domains
  <2>6. Own(e, disk[e])' /\ Own(e, run[e])' /\ Named(asked'[e])
    BY <1>i, <2>1, <2>2, <2>4 DEF Own, Keeps
  <2>7. QED
    BY OneEnd, <2>2, <2>3, <2>4, <2>5, <2>6
<1>3. ASSUME NEW e \in Ends, NEW c, Own(e, c), disk' = [disk EXCEPT ![e] = c],
             NEW to \in {"down", "write", "loaded"}, pc' = [pc EXCEPT ![e] = to],
             UNCHANGED <<run, asked>>
      PROVE  IInv'
  <2>1. Domains'
    BY <1>3 DEF IInv, Domains
  <2>2. disk'[e] = c /\ pc'[e] # "up"
    BY <1>3 DEF IInv, Domains
  <2>3. \A f \in Ends : f # e => disk'[f] = disk[f] /\ pc'[f] = pc[f]
    BY <1>3 DEF IInv, Domains
  <2>4. Own(e, disk[e])' /\ Own(e, run[e])' /\ Named(asked'[e])
    BY <1>3, <1>i, <2>2 DEF Own
  <2>5. QED
    BY OneEnd, <1>3, <2>1, <2>2, <2>3, <2>4
<1>4. ASSUME NEW e \in Ends, Truncate(e) PROVE IInv'
  <2>1. Own(e, EmptyFile)
    BY EmptyIsNamed DEF Own
  <2>2. QED
    BY <1>3, <1>4, <2>1 DEF Truncate
<1>5. ASSUME NEW e \in Ends, Write(e) PROVE IInv'
  BY <1>3, <1>5, <1>i DEF Write
<1>6. ASSUME NEW e \in Ends, CutOff(e), disk' # disk,
             NEW to \in {"down", "loaded"}, pc' = [pc EXCEPT ![e] = to], UNCHANGED <<run, asked>>
      PROVE  IInv'
  <2>1. PICK c : disk' = [disk EXCEPT ![e] = c]
                 /\ (c = EmptyFile \/ \E n \in Cuts : c = Beginning(run[e], n))
    BY <1>6 DEF CutOff
  <2>2. ASSUME c = EmptyFile PROVE Own(e, c)
    BY <2>2, EmptyIsNamed DEF Own
  <2>3. ASSUME NEW n \in Cuts, c = Beginning(run[e], n) PROVE Own(e, c)
    <3>1. Keeps(run[e], c)
      BY <1>i, <2>3, CutStep DEF Own
    <3>2. QED
      BY <1>i, <3>1 DEF Own, Keeps
  <2>4. Own(e, c)
    BY <2>1, <2>2, <2>3
  <2>5. QED
    BY <1>3, <1>6, <2>1, <2>4
<1>7. ASSUME NEW e \in Ends, OpenFails(e) \/ WriteFails(e) \/ Start(e) \/ Stop(e), disk' = disk
      PROVE  IInv'
  <2>1. UNCHANGED <<disk, run, asked>>
    BY <1>7 DEF OpenFails, WriteFails, Start, Stop
  <2>2. PICK to \in {"loaded", "up", "down"} :
          pc' = [pc EXCEPT ![e] = to] /\ (to = "up" => run[e].mode # "")
    BY <1>7 DEF OpenFails, WriteFails, Start, Stop
  <2>3. Domains' /\ pc'[e] = to
    BY <2>1, <2>2 DEF IInv, Domains
  <2>4. \A f \in Ends : f # e => pc'[f] = pc[f]
    BY <2>2 DEF IInv, Domains
  <2>5. Own(e, disk[e])' /\ Own(e, run[e])' /\ Named(asked'[e])
    BY <1>i, <2>1 DEF Own
  <2>6. QED
    BY OneEnd, <2>1, <2>2, <2>3, <2>4, <2>5
<1>8. ASSUME NEW e \in Ends, Edit(e) PROVE IInv'
  <2>1. PICK p \in Ports :
          /\ disk' = [disk EXCEPT ![e].maps = @ \cup {p}]
          /\ asked' = [asked EXCEPT ![e].maps = @ \cup {p}]
          /\ UNCHANGED <<run, pc>>
    BY <1>8 DEF Edit
  <2>2. Domains'
    BY <2>1 DEF IInv, Domains
  <2>3. \A f \in Ends : f # e => disk'[f] = disk[f] /\ asked'[f] = asked[f]
    BY <2>1 DEF IInv, Domains
  <2>4. /\ disk'[e] = [disk[e] EXCEPT !.maps = disk[e].maps \cup {p}]
        /\ asked'[e] = [asked[e] EXCEPT !.maps = asked[e].maps \cup {p}]
    BY <2>1 DEF IInv, Domains
  <2>5. Keeps(disk[e], disk'[e]) /\ Keeps(asked[e], asked'[e])
    <3>1. Keeps(disk[e], disk'[e])
      BY <1>i, <2>4, MapsStep
    <3>2. Keeps(asked[e], asked'[e])
      BY <1>i, <2>4, MapsStep
    <3>3. QED
      BY <3>1, <3>2
  <2>6. Own(e, disk[e])' /\ Own(e, run[e])' /\ Named(asked'[e])
    BY <1>i, <2>1, <2>5 DEF Own, Keeps
  <2>7. pc'[e] = "up" => run'[e].mode # ""
    BY <2>1 DEF IInv
  <2>8. QED
    BY OneEnd, <2>1, <2>2, <2>3, <2>6, <2>7
<1>9. ASSUME NEW e \in Ends, WriteFails(e) \/ Stop(e), disk' # disk PROVE IInv'
  <2>1. CutOff(e) /\ UNCHANGED <<run, asked>>
    BY <1>9 DEF WriteFails, Stop
  <2>2. PICK to \in {"down", "loaded"} : pc' = [pc EXCEPT ![e] = to]
    BY <1>9 DEF WriteFails, Stop
  <2>3. QED
    BY <1>9, <1>6, <2>1, <2>2
<1>10. ASSUME NEW e \in Ends, LoadFails(e) PROVE IInv'
  BY <1>1, <1>10 DEF LoadFails
<1>11. QED
  BY <1>1, <1>2, <1>4, <1>5, <1>7, <1>8, <1>9, <1>10 DEF Next, OpenFails, Start

LEMMA InvImpliesOwn == IInv => OwnSettings
BY DEF IInv, Own, OwnSettings

\* A file lost between the truncation and the write, or cut off in its middle, never
\* starts an end with another mode or without the key of its user.
THEOREM OwnSettingsAlways == Spec => []OwnSettings
BY InitInv, InvStep, InvImpliesOwn, PTL DEF Spec

-----------------------------------------------------------------------------
(* What each step of LoadConfig makes of a record, field by field          *)

Keys == {"version", "mode", "psk", "profile", "keepAlive", "jitter", "maxRecv", "maxStream",
           "randomPadding", "obfuscation", "obfs", "maps", "forward", "pool",
           "smux", "timeout", "advTimeout"}

Typed(c) ==
  /\ c.version \in {0, 2} /\ c.mode \in Modes /\ c.psk \in {"", Key} /\ c.profile \in Profiles
  /\ c.keepAlive \in Nat /\ c.jitter \in Nat /\ c.maxRecv \in Nat /\ c.maxStream \in Nat
  /\ c.randomPadding \in BOOLEAN /\ c.obfuscation \in BOOLEAN /\ c.obfs \in BOOLEAN
  /\ c.maps \in SUBSET Ports /\ c.forward \in SUBSET Ports /\ c.pool \in Nat
  /\ c.smux \in Nat /\ c.timeout \in Nat /\ c.advTimeout \in Nat

Rec(c) == DOMAIN c = Keys /\ c = [x \in Keys |-> c[x]]

LEMMA FileIs == ASSUME NEW c \in File PROVE Rec(c) /\ Typed(c)
BY DEF File, Rec, Keys, Typed

LEMMA IsFile == ASSUME NEW c, Rec(c), Typed(c) PROVE c \in File
BY DEF File, Rec, Keys, Typed

\* Some fields of a record are given new values.
Same(r, c, changed) == \A x \in Keys \ changed : r[x] = c[x]

LEMMA PutPool ==
  ASSUME NEW c, Rec(c), NEW v1,
         NEW r, r = [c EXCEPT !.pool = v1]
  PROVE  /\ Rec(r) /\ Same(r, c, {"pool"})
         /\ r.pool = v1
<1>1. DOMAIN c = Keys
  BY DEF Rec
<1>2. DOMAIN r = Keys
  BY <1>1
<1>3. r = [x \in DOMAIN r |-> r[x]]
  OBVIOUS
<1>4. r.pool = v1
  BY <1>1 DEF Keys
<1>5. Same(r, c, {"pool"})
  BY <1>1 DEF Same
<1>6. QED
  BY <1>2, <1>3, <1>4, <1>5 DEF Rec

LEMMA PutForward ==
  ASSUME NEW c, Rec(c), NEW v1,
         NEW r, r = [c EXCEPT !.forward = v1]
  PROVE  /\ Rec(r) /\ Same(r, c, {"forward"})
         /\ r.forward = v1
<1>1. DOMAIN c = Keys
  BY DEF Rec
<1>2. DOMAIN r = Keys
  BY <1>1
<1>3. r = [x \in DOMAIN r |-> r[x]]
  OBVIOUS
<1>4. r.forward = v1
  BY <1>1 DEF Keys
<1>5. Same(r, c, {"forward"})
  BY <1>1 DEF Same
<1>6. QED
  BY <1>2, <1>3, <1>4, <1>5 DEF Rec

LEMMA PutObfs ==
  ASSUME NEW c, Rec(c), NEW v1,
         NEW r, r = [c EXCEPT !.obfs = v1]
  PROVE  /\ Rec(r) /\ Same(r, c, {"obfs"})
         /\ r.obfs = v1
<1>1. DOMAIN c = Keys
  BY DEF Rec
<1>2. DOMAIN r = Keys
  BY <1>1
<1>3. r = [x \in DOMAIN r |-> r[x]]
  OBVIOUS
<1>4. r.obfs = v1
  BY <1>1 DEF Keys
<1>5. Same(r, c, {"obfs"})
  BY <1>1 DEF Same
<1>6. QED
  BY <1>2, <1>3, <1>4, <1>5 DEF Rec

LEMMA PutMaps ==
  ASSUME NEW c, Rec(c), NEW v1,
         NEW r, r = [c EXCEPT !.maps = v1]
  PROVE  /\ Rec(r) /\ Same(r, c, {"maps"})
         /\ r.maps = v1
<1>1. DOMAIN c = Keys
  BY DEF Rec
<1>2. DOMAIN r = Keys
  BY <1>1
<1>3. r = [x \in DOMAIN r |-> r[x]]
  OBVIOUS
<1>4. r.maps = v1
  BY <1>1 DEF Keys
<1>5. Same(r, c, {"maps"})
  BY <1>1 DEF Same
<1>6. QED
  BY <1>2, <1>3, <1>4, <1>5 DEF Rec

\* What a profile makes of the keep-alive time, of a buffer, of the padding and of
\* the pool.
AliveIn(p, n) == IF p \in Gaming THEN 1 ELSE IF p \in LowCpu THEN 5 ELSE n
BufferIn(p, n) == IF p = "streaming" THEN 2048 ELSE IF p \in LowCpu THEN 512 ELSE n
PaddingIn(p, b) == IF p \in Gaming THEN FALSE ELSE b
PoolIn(p, n) ==
  IF p \in {"speed", "aggressive", "streaming"} THEN AtLeast(n, 4)
  ELSE IF p \in Gaming THEN AtLeast(n, 6)
  ELSE IF p \in LowCpu THEN (IF n \in {1, 2} THEN n ELSE 2)
  ELSE OrElse(n, 4)

Chosen(p) == IF p = "" THEN "balanced" ELSE p

\* What the defaults make of the session timeout n, and migration of that.
TimeoutIn(a, n) == IF a > 0 THEN a ELSE OrElse(n, 30)
Raised(n) == IF n = 15 THEN 30 ELSE n

Defaulted == {"profile", "keepAlive", "jitter", "maxRecv", "maxStream", "smux", "timeout"}

LEMMA DefaultsOf ==
  ASSUME NEW c, Rec(c), NEW r, r = ApplyBaseDefaults(c)
  PROVE  /\ Rec(r) /\ Same(r, c, Defaulted)
         /\ r.profile = Chosen(c.profile)
         /\ r.keepAlive = OrElse(c.keepAlive, 2) /\ r.jitter = OrElse(c.jitter, 2)
         /\ r.maxRecv = OrElse(c.maxRecv, 4096) /\ r.maxStream = OrElse(c.maxStream, 4096)
         /\ r.smux = OrElse(c.smux, 2) /\ r.timeout = TimeoutIn(c.advTimeout, c.timeout)
<1> DEFINE v1 == Chosen(c.profile)
           v2 == OrElse(c.keepAlive, 2)
           v3 == OrElse(c.jitter, 2)
           v4 == OrElse(c.maxRecv, 4096)
           v5 == OrElse(c.maxStream, 4096)
           v6 == OrElse(c.smux, 2)
           v7 == TimeoutIn(c.advTimeout, c.timeout)
<1>1. r = [c EXCEPT !.profile = v1, !.keepAlive = v2, !.jitter = v3, !.maxRecv = v4,
                    !.maxStream = v5, !.smux = v6, !.timeout = v7]
  BY DEF ApplyBaseDefaults, Chosen, TimeoutIn
<1> HIDE DEF v1, v2, v3, v4, v5, v6, v7
<1>2. /\ Rec(r) /\ Same(r, c, Defaulted)
      /\ r.profile = v1 /\ r.keepAlive = v2 /\ r.jitter = v3 /\ r.maxRecv = v4 /\ r.maxStream = v5
      /\ r.smux = v6 /\ r.timeout = v7
  <2>1. DOMAIN c = Keys
    BY DEF Rec
  <2>2. DOMAIN r = Keys
    BY <1>1, <2>1
  <2>3. r = [x \in DOMAIN r |-> r[x]]
    BY <1>1
  <2>4. /\ r.profile = v1 /\ r.keepAlive = v2 /\ r.jitter = v3 /\ r.maxRecv = v4
        /\ r.maxStream = v5 /\ r.smux = v6 /\ r.timeout = v7
    BY <1>1, <2>1 DEF Keys
  <2>5. Same(r, c, Defaulted)
    BY <1>1, <2>1 DEF Same, Defaulted
  <2>6. QED
    BY <2>2, <2>3, <2>4, <2>5 DEF Rec
<1>3. QED
  BY <1>2 DEF v1, v2, v3, v4, v5, v6, v7

LEMMA ProfileOf ==
  ASSUME NEW c, Rec(c), NEW r, r = ApplyProfile(c)
  PROVE  /\ Rec(r)
         /\ Same(r, c, {"keepAlive", "maxRecv", "maxStream", "randomPadding", "pool"})
         /\ r.keepAlive = AliveIn(c.profile, c.keepAlive)
         /\ r.maxRecv = BufferIn(c.profile, c.maxRecv)
         /\ r.maxStream = BufferIn(c.profile, c.maxStream)
         /\ r.randomPadding = PaddingIn(c.profile, c.randomPadding)
         /\ r.pool = PoolIn(c.profile, c.pool)
<1>1. CASE c.profile \in {"speed", "aggressive"}
  <2> DEFINE n == AtLeast(c.pool, 4)
  <2>1. r = [c EXCEPT !.pool = n]
    BY <1>1 DEF ApplyProfile, Gaming, LowCpu
  <2>2. n = PoolIn(c.profile, c.pool)
    BY <1>1 DEF PoolIn
  <2> HIDE DEF n
  <2>3. Rec(r) /\ Same(r, c, {"pool"}) /\ r.pool = n
    BY <2>1, PutPool
  <2>4. /\ r.keepAlive = c.keepAlive /\ r.maxRecv = c.maxRecv /\ r.maxStream = c.maxStream
        /\ r.randomPadding = c.randomPadding
    BY <2>3 DEF Same, Keys
  <2>5. Same(r, c, {"keepAlive", "maxRecv", "maxStream", "randomPadding", "pool"})
    BY <2>3 DEF Same
  <2>6. c.profile \notin Gaming /\ c.profile \notin LowCpu /\ c.profile # "streaming"
    BY <1>1 DEF Gaming, LowCpu
  <2>7. /\ AliveIn(c.profile, c.keepAlive) = c.keepAlive
        /\ BufferIn(c.profile, c.maxRecv) = c.maxRecv
        /\ BufferIn(c.profile, c.maxStream) = c.maxStream
    BY <2>6 DEF AliveIn, BufferIn
  <2>8. PaddingIn(c.profile, c.randomPadding) = c.randomPadding
    BY <2>6, Zenon DEF PaddingIn
  <2>9. QED
    BY <2>2, <2>3, <2>4, <2>5, <2>7, <2>8
<1>2. CASE c.profile \in Gaming
  <2> DEFINE k == 1
             b == FALSE
             n == AtLeast(c.pool, 6)
  <2>1. r = [c EXCEPT !.keepAlive = k, !.randomPadding = b, !.pool = n]
    BY <1>2 DEF ApplyProfile, Gaming, LowCpu
  <2>2. /\ n = PoolIn(c.profile, c.pool) /\ k = AliveIn(c.profile, c.keepAlive)
        /\ b = PaddingIn(c.profile, c.randomPadding)
    BY <1>2 DEF PoolIn, AliveIn, PaddingIn, Gaming
  <2> HIDE DEF k, b, n
  <2>3. Rec(r) /\ Same(r, c, {"keepAlive", "randomPadding", "pool"}) /\ r.keepAlive = k /\ r.randomPadding = b /\ r.pool = n
    <3>1. DOMAIN c = Keys
      BY DEF Rec
    <3>2. DOMAIN r = Keys
      BY <2>1, <3>1
    <3>3. r = [x \in DOMAIN r |-> r[x]]
      BY <2>1
    <3>4. r.keepAlive = k /\ r.randomPadding = b /\ r.pool = n
      BY <2>1, <3>1 DEF Keys
    <3>5. Same(r, c, {"keepAlive", "randomPadding", "pool"})
      BY <2>1, <3>1 DEF Same
    <3>6. QED
      BY <3>2, <3>3, <3>4, <3>5 DEF Rec
  <2>4. r.maxRecv = c.maxRecv /\ r.maxStream = c.maxStream
    BY <2>3 DEF Same, Keys
  <2>5. QED
    BY <1>2, <2>2, <2>3, <2>4 DEF Same, BufferIn, Gaming, LowCpu
<1>3. CASE c.profile = "streaming"
  <2> DEFINE m == 2048
             n == AtLeast(c.pool, 4)
  <2>1. r = [c EXCEPT !.maxRecv = m, !.maxStream = m, !.pool = n]
    BY <1>3 DEF ApplyProfile, Gaming, LowCpu
  <2>2. /\ n = PoolIn(c.profile, c.pool) /\ m = BufferIn(c.profile, c.maxRecv) /\ m = BufferIn(c.profile, c.maxStream)
    BY <1>3 DEF PoolIn, BufferIn
  <2> HIDE DEF m, n
  <2>3. Rec(r) /\ Same(r, c, {"maxRecv", "maxStream", "pool"}) /\ r.maxRecv = m /\ r.maxStream = m /\ r.pool = n
    <3>1. DOMAIN c = Keys
      BY DEF Rec
    <3>2. DOMAIN r = Keys
      BY <2>1, <3>1
    <3>3. r = [x \in DOMAIN r |-> r[x]]
      BY <2>1
    <3>4. r.maxRecv = m /\ r.maxStream = m /\ r.pool = n
      BY <2>1, <3>1 DEF Keys
    <3>5. Same(r, c, {"maxRecv", "maxStream", "pool"})
      BY <2>1, <3>1 DEF Same
    <3>6. QED
      BY <3>2, <3>3, <3>4, <3>5 DEF Rec
  <2>4. r.keepAlive = c.keepAlive /\ r.randomPadding = c.randomPadding
    BY <2>3 DEF Same, Keys
  <2>5. QED
    BY <1>3, <2>2, <2>3, <2>4 DEF Same, AliveIn, PaddingIn, Gaming, LowCpu
<1>4. CASE c.profile \in LowCpu
  <2> DEFINE k == 5
             m == 512
             n == IF c.pool \in {1, 2} THEN c.pool ELSE 2
  <2>1. r = [c EXCEPT !.keepAlive = k, !.maxRecv = m, !.maxStream = m, !.pool = n]
    BY <1>4 DEF ApplyProfile, Gaming, LowCpu
  <2>2. /\ n = PoolIn(c.profile, c.pool) /\ k = AliveIn(c.profile, c.keepAlive)
        /\ m = BufferIn(c.profile, c.maxRecv) /\ m = BufferIn(c.profile, c.maxStream)
    BY <1>4 DEF PoolIn, AliveIn, BufferIn, Gaming, LowCpu
  <2> HIDE DEF k, m, n
  <2>3. Rec(r) /\ Same(r, c, {"keepAlive", "maxRecv", "maxStream", "pool"})
        /\ r.keepAlive = k /\ r.maxRecv = m /\ r.maxStream = m /\ r.pool = n
    <3>1. DOMAIN c = Keys
      BY DEF Rec
    <3>2. DOMAIN r = Keys
      BY <2>1, <3>1
    <3>3. r = [x \in DOMAIN r |-> r[x]]
      BY <2>1
    <3>4. r.keepAlive = k /\ r.maxRecv = m /\ r.maxStream = m /\ r.pool = n
      BY <2>1, <3>1 DEF Keys
    <3>5. Same(r, c, {"keepAlive", "maxRecv", "maxStream", "pool"})
      BY <2>1, <3>1 DEF Same
    <3>6. QED
      BY <3>2, <3>3, <3>4, <3>5 DEF Rec
  <2>4. r.randomPadding = c.randomPadding
    BY <2>3 DEF Same, Keys
  <2>5. QED
    BY <1>4, <2>2, <2>3, <2>4 DEF Same, PaddingIn, Gaming, LowCpu
<1>5. CASE c.profile \notin {"speed", "aggressive", "streaming"} \cup Gaming \cup LowCpu
  <2> DEFINE n == OrElse(c.pool, 4)
  <2>1. r = [c EXCEPT !.pool = n]
    BY <1>5 DEF ApplyProfile, Gaming, LowCpu
  <2>2. n = PoolIn(c.profile, c.pool)
    BY <1>5 DEF PoolIn
  <2> HIDE DEF n
  <2>3. Rec(r) /\ Same(r, c, {"pool"}) /\ r.pool = n
    BY <2>1, PutPool
  <2>4. /\ r.keepAlive = c.keepAlive /\ r.maxRecv = c.maxRecv /\ r.maxStream = c.maxStream
        /\ r.randomPadding = c.randomPadding
    BY <2>3 DEF Same, Keys
  <2>5. Same(r, c, {"keepAlive", "maxRecv", "maxStream", "randomPadding", "pool"})
    BY <2>3 DEF Same
  <2>6. c.profile \notin Gaming /\ c.profile \notin LowCpu /\ c.profile # "streaming"
    BY <1>5
  <2>7. /\ AliveIn(c.profile, c.keepAlive) = c.keepAlive
        /\ BufferIn(c.profile, c.maxRecv) = c.maxRecv
        /\ BufferIn(c.profile, c.maxStream) = c.maxStream
    BY <2>6 DEF AliveIn, BufferIn
  <2>8. PaddingIn(c.profile, c.randomPadding) = c.randomPadding
    BY <2>6, Zenon DEF PaddingIn
  <2>9. QED
    BY <2>2, <2>3, <2>4, <2>5, <2>7, <2>8
<1>6. QED
  BY <1>1, <1>2, <1>3, <1>4, <1>5

LEMMA ForwardOf ==
  ASSUME NEW c, Rec(c), NEW r, r = ConvertMapsToForward(c)
  PROVE  /\ Rec(r) /\ Same(r, c, {"forward"})
         /\ r.forward = IF c.forward = {} THEN c.maps ELSE c.forward
<1>1. CASE c.forward = {}
  <2>1. r = [c EXCEPT !.forward = c.maps]
    BY <1>1 DEF ConvertMapsToForward
  <2>2. QED
    BY <1>1, <2>1, PutForward
<1>2. CASE c.forward # {}
  BY <1>2 DEF ConvertMapsToForward, Same
<1>3. QED
  BY <1>1, <1>2

LEMMA AliasOf ==
  ASSUME NEW c, Rec(c), NEW r, r = SyncAliases(c)
  PROVE  Rec(r) /\ Same(r, c, {"obfs"}) /\ r.obfs = (c.obfs \/ c.obfuscation)
<1> DEFINE v == c.obfs \/ c.obfuscation
<1>1. r = [c EXCEPT !.obfs = v]
  BY DEF SyncAliases
<1> HIDE DEF v
<1>2. Rec(r) /\ Same(r, c, {"obfs"}) /\ r.obfs = v
  BY <1>1, PutObfs
<1>3. QED
  BY <1>2 DEF v

\* What migration makes of the keep-alive time.
Migrated(p, n) == IF n = 1 /\ p # "gaming" THEN 2 ELSE n

Changed == {"version", "maxRecv", "maxStream", "keepAlive", "randomPadding", "timeout"}

LEMMA MigrateOf ==
  ASSUME NEW c, Rec(c), NEW r, r = MigrateConfig(c)
  PROVE  /\ c.version = 2 => r = c
         /\ c.version = 0 =>
              /\ Rec(r)
              /\ Same(r, c, Changed)
              /\ r.version = 2 /\ r.maxRecv = Buffer(c.maxRecv) /\ r.maxStream = Buffer(c.maxStream)
              /\ r.keepAlive = Migrated(c.profile, c.keepAlive) /\ r.timeout = Raised(c.timeout)
              /\ r.randomPadding = TRUE
<1>1. CASE c.version = 2
  BY <1>1 DEF MigrateConfig, CurrentConfigVersion
<1>2. CASE c.version = 0
  <2> DEFINE v1 == 2
             v2 == Buffer(c.maxRecv)
             v3 == Buffer(c.maxStream)
             v4 == Migrated(c.profile, c.keepAlive)
             v5 == TRUE
             v6 == Raised(c.timeout)
  <2>1. r = [c EXCEPT !.version = v1, !.maxRecv = v2, !.maxStream = v3, !.keepAlive = v4,
                      !.timeout = v6, !.randomPadding = v5]
    BY <1>2 DEF MigrateConfig, CurrentConfigVersion, Migrated, Raised
  <2> HIDE DEF v1, v2, v3, v4, v5, v6
  <2>2. /\ Rec(r)
        /\ Same(r, c, Changed)
        /\ r.version = v1 /\ r.maxRecv = v2 /\ r.maxStream = v3 /\ r.keepAlive = v4
        /\ r.randomPadding = v5 /\ r.timeout = v6
    <3>1. DOMAIN c = Keys
      BY DEF Rec
    <3>2. DOMAIN r = Keys
      BY <2>1, <3>1
    <3>3. r = [x \in DOMAIN r |-> r[x]]
      BY <2>1
    <3>4. /\ r.version = v1 /\ r.maxRecv = v2 /\ r.maxStream = v3 /\ r.keepAlive = v4
          /\ r.randomPadding = v5 /\ r.timeout = v6
      BY <2>1, <3>1 DEF Keys
    <3>5. Same(r, c, Changed)
      BY <2>1, <3>1 DEF Same, Changed
    <3>6. QED
      BY <3>2, <3>3, <3>4, <3>5 DEF Rec
  <2>3. QED
    BY <1>2, <2>2 DEF v1, v2, v3, v4, v5, v6
<1>3. QED
  BY <1>1, <1>2

-----------------------------------------------------------------------------
(* What LoadConfig makes of a file                                         *)

\* What the pipeline as a whole makes of a file, field by field.
Loaded(r, c) ==
  /\ Rec(r) /\ r.version = 2
  /\ r.mode = c.mode /\ r.psk = c.psk /\ r.obfuscation = c.obfuscation /\ r.maps = c.maps
  /\ r.profile = Chosen(c.profile)
  /\ r.jitter = OrElse(c.jitter, 2)
  /\ r.pool = PoolIn(Chosen(c.profile), c.pool)
  /\ r.obfs = (c.obfs \/ c.obfuscation)
  /\ r.forward = (IF c.forward = {} THEN c.maps ELSE c.forward)
  /\ r.smux = OrElse(c.smux, 2) /\ r.advTimeout = c.advTimeout

\* The rest of it for a file of the current version.
AsSet(r, c) ==
  /\ r.keepAlive = AliveIn(Chosen(c.profile), OrElse(c.keepAlive, 2))
  /\ r.maxRecv = BufferIn(Chosen(c.profile), OrElse(c.maxRecv, 4096))
  /\ r.maxStream = BufferIn(Chosen(c.profile), OrElse(c.maxStream, 4096))
  /\ r.randomPadding = PaddingIn(Chosen(c.profile), c.randomPadding)
  /\ r.timeout = TimeoutIn(c.advTimeout, c.timeout)

\* And for one of the old version.
AsMigrated(r, c) ==
  /\ r.keepAlive = Migrated(Chosen(c.profile),
                            AliveIn(Chosen(c.profile), OrElse(c.keepAlive, 2)))
  /\ r.maxRecv = Buffer(BufferIn(Chosen(c.profile), OrElse(c.maxRecv, 4096)))
  /\ r.maxStream = Buffer(BufferIn(Chosen(c.profile), OrElse(c.maxStream, 4096)))
  /\ r.randomPadding = TRUE
  /\ r.timeout = Raised(TimeoutIn(c.advTimeout, c.timeout))

LEMMA LoadOf ==
  ASSUME NEW c, Rec(c), c.version \in {0, 2}, NEW r, r = LoadConfig(c)
  PROVE  /\ Loaded(r, c)
         /\ c.version = 2 => AsSet(r, c)
         /\ c.version = 0 => AsMigrated(r, c)
<1>1. PICK b : b = ApplyBaseDefaults(c)
  OBVIOUS
<1>2. PICK p : p = ApplyProfile(b)
  OBVIOUS
<1>3. PICK f : f = ConvertMapsToForward(p)
  OBVIOUS
<1>4. PICK a : a = SyncAliases(f)
  OBVIOUS
<1>5. r = MigrateConfig(a)
  BY <1>1, <1>2, <1>3, <1>4 DEF LoadConfig
<1>6. /\ Rec(b) /\ Same(b, c, Defaulted)
      /\ b.profile = Chosen(c.profile)
      /\ b.keepAlive = OrElse(c.keepAlive, 2) /\ b.jitter = OrElse(c.jitter, 2)
      /\ b.maxRecv = OrElse(c.maxRecv, 4096) /\ b.maxStream = OrElse(c.maxStream, 4096)
      /\ b.smux = OrElse(c.smux, 2) /\ b.timeout = TimeoutIn(c.advTimeout, c.timeout)
  BY <1>1, DefaultsOf
<1>7. /\ Rec(p)
      /\ Same(p, b, {"keepAlive", "maxRecv", "maxStream", "randomPadding", "pool"})
      /\ p.keepAlive = AliveIn(b.profile, b.keepAlive)
      /\ p.maxRecv = BufferIn(b.profile, b.maxRecv)
      /\ p.maxStream = BufferIn(b.profile, b.maxStream)
      /\ p.randomPadding = PaddingIn(b.profile, b.randomPadding)
      /\ p.pool = PoolIn(b.profile, b.pool)
  BY <1>2, <1>6, ProfileOf
<1>8. /\ Rec(f) /\ Same(f, p, {"forward"})
      /\ f.forward = IF p.forward = {} THEN p.maps ELSE p.forward
  BY <1>3, <1>7, ForwardOf
<1>9. Rec(a) /\ Same(a, f, {"obfs"}) /\ a.obfs = (f.obfs \/ f.obfuscation)
  BY <1>4, <1>8, AliasOf
<1>10. /\ b.version = c.version /\ b.mode = c.mode /\ b.psk = c.psk
       /\ b.obfuscation = c.obfuscation /\ b.maps = c.maps /\ b.randomPadding = c.randomPadding
       /\ b.obfs = c.obfs /\ b.forward = c.forward /\ b.pool = c.pool
       /\ b.advTimeout = c.advTimeout
  BY <1>6 DEF Same, Keys, Defaulted
<1>11. /\ p.version = b.version /\ p.mode = b.mode /\ p.psk = b.psk
       /\ p.obfuscation = b.obfuscation /\ p.maps = b.maps /\ p.profile = b.profile
       /\ p.jitter = b.jitter /\ p.obfs = b.obfs /\ p.forward = b.forward
       /\ p.smux = b.smux /\ p.timeout = b.timeout /\ p.advTimeout = b.advTimeout
  BY <1>7 DEF Same, Keys
<1>12. /\ f.version = p.version /\ f.mode = p.mode /\ f.psk = p.psk
       /\ f.obfuscation = p.obfuscation /\ f.maps = p.maps /\ f.profile = p.profile
       /\ f.jitter = p.jitter /\ f.obfs = p.obfs /\ f.pool = p.pool
       /\ f.keepAlive = p.keepAlive /\ f.maxRecv = p.maxRecv /\ f.maxStream = p.maxStream
       /\ f.randomPadding = p.randomPadding
       /\ f.smux = p.smux /\ f.timeout = p.timeout /\ f.advTimeout = p.advTimeout
  BY <1>8 DEF Same, Keys
<1>13. /\ a.version = f.version /\ a.mode = f.mode /\ a.psk = f.psk
       /\ a.obfuscation = f.obfuscation /\ a.maps = f.maps /\ a.profile = f.profile
       /\ a.jitter = f.jitter /\ a.pool = f.pool /\ a.forward = f.forward
       /\ a.keepAlive = f.keepAlive /\ a.maxRecv = f.maxRecv /\ a.maxStream = f.maxStream
       /\ a.randomPadding = f.randomPadding
       /\ a.smux = f.smux /\ a.timeout = f.timeout /\ a.advTimeout = f.advTimeout
  BY <1>9 DEF Same, Keys
<1>14. /\ a.version = c.version /\ a.mode = c.mode /\ a.psk = c.psk
       /\ a.obfuscation = c.obfuscation /\ a.maps = c.maps
       /\ a.profile = Chosen(c.profile) /\ a.jitter = OrElse(c.jitter, 2)
       /\ a.pool = PoolIn(Chosen(c.profile), c.pool)
       /\ a.smux = OrElse(c.smux, 2) /\ a.advTimeout = c.advTimeout
  BY <1>6, <1>7, <1>10, <1>11, <1>12, <1>13
<1>15. a.obfs = (c.obfs \/ c.obfuscation)
  BY <1>9, <1>10, <1>11, <1>12
<1>16. a.forward = (IF c.forward = {} THEN c.maps ELSE c.forward)
  BY <1>8, <1>10, <1>11, <1>13
<1>17. /\ a.keepAlive = AliveIn(Chosen(c.profile), OrElse(c.keepAlive, 2))
       /\ a.maxRecv = BufferIn(Chosen(c.profile), OrElse(c.maxRecv, 4096))
       /\ a.maxStream = BufferIn(Chosen(c.profile), OrElse(c.maxStream, 4096))
       /\ a.randomPadding = PaddingIn(Chosen(c.profile), c.randomPadding)
       /\ a.timeout = TimeoutIn(c.advTimeout, c.timeout)
  BY <1>6, <1>7, <1>10, <1>11, <1>12, <1>13
<1>18. CASE c.version = 2
  <2>1. r = a
    BY <1>5, <1>9, <1>14, <1>18, MigrateOf
  <2>2. Loaded(r, c)
    BY <2>1, <1>9, <1>14, <1>15, <1>16, <1>18 DEF Loaded
  <2>3. AsSet(r, c)
    BY <2>1, <1>17 DEF AsSet
  <2>4. QED
    BY <2>2, <2>3, <1>18
<1>19. CASE c.version = 0
  <2>1. /\ Rec(r)
        /\ Same(r, a, Changed)
        /\ r.version = 2 /\ r.maxRecv = Buffer(a.maxRecv) /\ r.maxStream = Buffer(a.maxStream)
        /\ r.keepAlive = Migrated(a.profile, a.keepAlive)
        /\ r.randomPadding = TRUE /\ r.timeout = Raised(a.timeout)
    BY <1>5, <1>9, <1>14, <1>19, MigrateOf
  <2>2. /\ r.mode = a.mode /\ r.psk = a.psk
        /\ r.obfuscation = a.obfuscation /\ r.maps = a.maps /\ r.profile = a.profile
        /\ r.jitter = a.jitter /\ r.pool = a.pool /\ r.forward = a.forward /\ r.obfs = a.obfs
        /\ r.smux = a.smux /\ r.advTimeout = a.advTimeout
    BY <2>1 DEF Same, Keys, Changed
  <2>3. Loaded(r, c)
    BY <2>1, <2>2, <1>14, <1>15, <1>16 DEF Loaded
  <2>4. AsMigrated(r, c)
    BY <2>1, <1>14, <1>17 DEF AsMigrated
  <2>5. QED
    BY <2>3, <2>4, <1>19
<1>20. QED
  BY <1>18, <1>19

-----------------------------------------------------------------------------
(* Of a file, it makes settings without a zero                             *)

LEMMA NumbersOf ==
  ASSUME NEW n \in Nat, NEW p
  PROVE  /\ PoolIn(p, n) \in Nat /\ PoolIn(p, n) > 0
         /\ AliveIn(p, n) \in Nat /\ BufferIn(p, n) \in Nat
         /\ Migrated(p, n) \in Nat /\ Buffer(n) \in Nat
         /\ \A a \in Nat : TimeoutIn(a, n) \in Nat /\ TimeoutIn(a, n) > 0
         /\ Raised(n) \in Nat
         /\ n > 0 => /\ Raised(n) > 0 /\ AliveIn(p, n) > 0 /\ BufferIn(p, n) > 0
                     /\ Migrated(p, n) > 0 /\ Buffer(n) > 0
<1>1. OrElse(n, 4) \in Nat /\ OrElse(n, 4) > 0
  BY DEF OrElse
<1>2. AtLeast(n, 4) \in Nat /\ AtLeast(n, 4) > 0 /\ AtLeast(n, 6) \in Nat /\ AtLeast(n, 6) > 0
  BY DEF AtLeast
<1>3. PoolIn(p, n) \in Nat /\ PoolIn(p, n) > 0
  BY <1>1, <1>2 DEF PoolIn
<1>4. AliveIn(p, n) \in Nat /\ (n > 0 => AliveIn(p, n) > 0)
  BY DEF AliveIn
<1>5. BufferIn(p, n) \in Nat /\ (n > 0 => BufferIn(p, n) > 0)
  BY DEF BufferIn
<1>6. Migrated(p, n) \in Nat /\ (n > 0 => Migrated(p, n) > 0)
  BY DEF Migrated
<1>7. Buffer(n) \in Nat /\ (n > 0 => Buffer(n) > 0)
  BY DEF Buffer
<1>8. \A a \in Nat : TimeoutIn(a, n) \in Nat /\ TimeoutIn(a, n) > 0
  BY DEF TimeoutIn, OrElse
<1>9. Raised(n) \in Nat /\ (n > 0 => Raised(n) > 0)
  BY DEF Raised
<1>10. QED
  BY <1>3, <1>4, <1>5, <1>6, <1>7, <1>8, <1>9

LEMMA ChosenIs ==
  ASSUME NEW p \in Profiles
  PROVE  Chosen(p) \in Profiles /\ Chosen(p) # ""
BY DEF Chosen, Profiles

\* Settings that LoadConfig has made.
Whole(r) ==
  /\ r \in File /\ r.version = 2 /\ r.profile # ""
  /\ r.keepAlive > 0 /\ r.jitter > 0 /\ r.maxRecv > 0 /\ r.maxStream > 0 /\ r.pool > 0
  /\ r.smux > 0 /\ r.timeout > 0

LEMMA LoadIsWhole ==
  ASSUME NEW c \in File, NEW r, r = LoadConfig(c)
  PROVE  Whole(r)
<1>1. Rec(c) /\ Typed(c)
  BY FileIs
<1>2. /\ Loaded(r, c)
      /\ c.version = 2 => AsSet(r, c)
      /\ c.version = 0 => AsMigrated(r, c)
  BY <1>1, LoadOf DEF Typed
<1>3. PICK p : p = Chosen(c.profile)
  OBVIOUS
<1>4. p \in Profiles /\ p # ""
  BY <1>1, <1>3, ChosenIs DEF Typed
<1>5. /\ r.jitter \in Nat /\ r.jitter > 0 /\ r.pool \in Nat /\ r.pool > 0
      /\ r.smux \in Nat /\ r.smux > 0 /\ r.advTimeout \in Nat
  <2>1. c.jitter \in Nat /\ c.pool \in Nat /\ c.smux \in Nat /\ c.advTimeout \in Nat
    BY <1>1 DEF Typed
  <2>2. /\ r.jitter = OrElse(c.jitter, 2) /\ r.pool = PoolIn(p, c.pool)
        /\ r.smux = OrElse(c.smux, 2) /\ r.advTimeout = c.advTimeout
    BY <1>2, <1>3 DEF Loaded
  <2>3. r.pool \in Nat /\ r.pool > 0
    BY <2>1, <2>2, NumbersOf
  <2>4. r.jitter \in Nat /\ r.jitter > 0 /\ r.smux \in Nat /\ r.smux > 0
    BY <2>1, <2>2 DEF OrElse
  <2>5. QED
    BY <2>1, <2>2, <2>3, <2>4
<1>6. PICK k, m, s : /\ k = OrElse(c.keepAlive, 2) /\ m = OrElse(c.maxRecv, 4096)
                     /\ s = OrElse(c.maxStream, 4096)
  OBVIOUS
<1>7. k \in Nat /\ k > 0 /\ m \in Nat /\ m > 0 /\ s \in Nat /\ s > 0
  <2>1. c.keepAlive \in Nat /\ c.maxRecv \in Nat /\ c.maxStream \in Nat
    BY <1>1 DEF Typed
  <2>2. QED
    BY <2>1, <1>6 DEF OrElse
<1>8. /\ AliveIn(p, k) \in Nat /\ AliveIn(p, k) > 0
      /\ BufferIn(p, m) \in Nat /\ BufferIn(p, m) > 0
      /\ BufferIn(p, s) \in Nat /\ BufferIn(p, s) > 0
  BY <1>7, NumbersOf
<1>9. /\ r.keepAlive \in Nat /\ r.keepAlive > 0
      /\ r.maxRecv \in Nat /\ r.maxRecv > 0
      /\ r.maxStream \in Nat /\ r.maxStream > 0
      /\ r.randomPadding \in BOOLEAN
  <2>1. CASE c.version = 2
    <3>1. /\ r.keepAlive = AliveIn(p, k) /\ r.maxRecv = BufferIn(p, m)
          /\ r.maxStream = BufferIn(p, s) /\ r.randomPadding = PaddingIn(p, c.randomPadding)
      BY <2>1, <1>2, <1>3, <1>6 DEF AsSet
    <3>2. PaddingIn(p, c.randomPadding) \in BOOLEAN
      BY <1>1 DEF PaddingIn, Typed
    <3>3. QED
      BY <3>1, <3>2, <1>8
  <2>2. CASE c.version = 0
    <3>1. /\ r.keepAlive = Migrated(p, AliveIn(p, k)) /\ r.maxRecv = Buffer(BufferIn(p, m))
          /\ r.maxStream = Buffer(BufferIn(p, s)) /\ r.randomPadding = TRUE
      BY <2>2, <1>2, <1>3, <1>6 DEF AsMigrated
    <3>2. /\ Migrated(p, AliveIn(p, k)) \in Nat /\ Migrated(p, AliveIn(p, k)) > 0
          /\ Buffer(BufferIn(p, m)) \in Nat /\ Buffer(BufferIn(p, m)) > 0
          /\ Buffer(BufferIn(p, s)) \in Nat /\ Buffer(BufferIn(p, s)) > 0
      BY <1>8, NumbersOf
    <3>3. QED
      BY <3>1, <3>2
  <2>3. QED
    BY <2>1, <2>2, <1>1 DEF Typed
<1>10. r.profile \in Profiles /\ r.profile # ""
  BY <1>2, <1>3, <1>4 DEF Loaded
<1>11. r.timeout \in Nat /\ r.timeout > 0
  <2>1. PICK t : t = TimeoutIn(c.advTimeout, c.timeout)
    OBVIOUS
  <2>2. c.advTimeout \in Nat /\ c.timeout \in Nat
    BY <1>1 DEF Typed
  <2>3. t \in Nat /\ t > 0
    BY <2>1, <2>2, NumbersOf
  <2>4. Raised(t) \in Nat /\ Raised(t) > 0
    BY <2>3, NumbersOf
  <2>5. r.timeout = t \/ r.timeout = Raised(t)
    <3>1. CASE c.version = 2
      BY <1>2, <2>1, <3>1 DEF AsSet
    <3>2. CASE c.version = 0
      BY <1>2, <2>1, <3>2 DEF AsMigrated
    <3>3. QED
      BY <1>1, <3>1, <3>2 DEF Typed
  <2>6. QED
    BY <2>3, <2>4, <2>5
<1>12. /\ r.version = 2 /\ r.mode \in Modes /\ r.psk \in {"", Key} /\ r.obfuscation \in BOOLEAN
       /\ r.maps \in SUBSET Ports
  BY <1>1, <1>2 DEF Loaded, Typed
<1>13. r.obfs \in BOOLEAN
  BY <1>1, <1>2 DEF Loaded, Typed
<1>14. r.forward \in SUBSET Ports
  BY <1>1, <1>2 DEF Loaded, Typed
<1>15. Rec(r)
  BY <1>2 DEF Loaded
<1>16. Typed(r)
  BY <1>11, <1>5, <1>9, <1>10, <1>12, <1>13, <1>14 DEF Typed
<1>17. r \in File
  BY <1>15, <1>16, IsFile
<1>18. QED
  BY <1>11, <1>5, <1>9, <1>10, <1>12, <1>17 DEF Whole

Alike(r, c, f) == \A x \in Keys : r[x] # c[x] => x \in Wavers(f)

LEMMA WaversOf ==
  ASSUME NEW f \in File, f.version = 0, NEW p, p = Chosen(f.profile)
  PROVE  /\ p \in Gaming => "randomPadding" \in Wavers(f)
         /\ p = "latency" => "keepAlive" \in Wavers(f)
         /\ p \in LowCpu => "maxRecv" \in Wavers(f) /\ "maxStream" \in Wavers(f)
         /\ f.advTimeout = 15 => "timeout" \in Wavers(f)
<1>1. p \in {"gaming", "latency", "lowcpu", "cpu-efficient"} => p = f.profile
  BY DEF Chosen
<1>2. CASE p = "gaming"
  BY <1>1, <1>2 DEF Wavers, CurrentConfigVersion, Gaming, LowCpu
<1>3. CASE p = "latency"
  BY <1>1, <1>3 DEF Wavers, CurrentConfigVersion, Gaming, LowCpu
<1>4. CASE p \in LowCpu
  BY <1>1, <1>4 DEF Wavers, CurrentConfigVersion, Gaming, LowCpu
<1>5. f.advTimeout = 15 => "timeout" \in Wavers(f)
  BY DEF Wavers, CurrentConfigVersion
<1>6. QED
  BY <1>2, <1>3, <1>4, <1>5 DEF Gaming

\* What the pipeline makes of settings it has made before.
LEMMA WholeAgain ==
  ASSUME NEW c, Whole(c), NEW r, r = LoadConfig(c)
  PROVE  /\ Rec(r) /\ r.version = c.version /\ r.mode = c.mode /\ r.psk = c.psk
         /\ r.obfuscation = c.obfuscation /\ r.maps = c.maps /\ r.profile = c.profile
         /\ r.jitter = c.jitter
         /\ r.pool = PoolIn(c.profile, c.pool)
         /\ r.obfs = (c.obfs \/ c.obfuscation)
         /\ r.forward = (IF c.forward = {} THEN c.maps ELSE c.forward)
         /\ r.keepAlive = AliveIn(c.profile, c.keepAlive)
         /\ r.maxRecv = BufferIn(c.profile, c.maxRecv)
         /\ r.maxStream = BufferIn(c.profile, c.maxStream)
         /\ r.randomPadding = PaddingIn(c.profile, c.randomPadding)
         /\ r.smux = c.smux /\ r.advTimeout = c.advTimeout
         /\ r.timeout = IF c.advTimeout > 0 THEN c.advTimeout ELSE c.timeout
<1>1. Rec(c) /\ Typed(c)
  BY FileIs DEF Whole
<1>2. Loaded(r, c) /\ AsSet(r, c)
  BY <1>1, LoadOf DEF Whole, Typed
<1>3. Chosen(c.profile) = c.profile
  BY DEF Whole, Chosen
<1>4. /\ OrElse(c.jitter, 2) = c.jitter /\ OrElse(c.keepAlive, 2) = c.keepAlive
      /\ OrElse(c.maxRecv, 4096) = c.maxRecv /\ OrElse(c.maxStream, 4096) = c.maxStream
      /\ OrElse(c.smux, 2) = c.smux /\ OrElse(c.timeout, 30) = c.timeout
  <2>1. /\ c.jitter \in Nat /\ c.jitter > 0 /\ c.keepAlive \in Nat /\ c.keepAlive > 0
        /\ c.maxRecv \in Nat /\ c.maxRecv > 0 /\ c.maxStream \in Nat /\ c.maxStream > 0
        /\ c.smux \in Nat /\ c.smux > 0 /\ c.timeout \in Nat /\ c.timeout > 0
    BY <1>1 DEF Whole, Typed
  <2>2. ASSUME NEW n \in Nat, n > 0, NEW d PROVE OrElse(n, d) = n
    BY <2>2 DEF OrElse
  <2>3. QED
    BY <2>1, <2>2
<1>5. /\ Rec(r) /\ r.version = c.version /\ r.mode = c.mode /\ r.psk = c.psk
      /\ r.obfuscation = c.obfuscation /\ r.maps = c.maps /\ r.profile = c.profile
      /\ r.jitter = c.jitter /\ r.pool = PoolIn(c.profile, c.pool)
      /\ r.smux = c.smux /\ r.advTimeout = c.advTimeout
  <2>1. c.version = 2
    BY DEF Whole
  <2>2. QED
    BY <2>1, <1>2, <1>3, <1>4 DEF Loaded
<1>6. /\ r.obfs = (c.obfs \/ c.obfuscation)
      /\ r.forward = (IF c.forward = {} THEN c.maps ELSE c.forward)
  BY <1>2 DEF Loaded
<1>7. /\ r.keepAlive = AliveIn(c.profile, c.keepAlive)
      /\ r.maxRecv = BufferIn(c.profile, c.maxRecv)
      /\ r.maxStream = BufferIn(c.profile, c.maxStream)
      /\ r.randomPadding = PaddingIn(c.profile, c.randomPadding)
  BY <1>2, <1>3, <1>4 DEF AsSet
<1>8. r.timeout = IF c.advTimeout > 0 THEN c.advTimeout ELSE c.timeout
  BY <1>2, <1>4 DEF AsSet, TimeoutIn
<1>9. QED
  BY <1>5, <1>6, <1>7, <1>8

LEMMA PoolTwice ==
  ASSUME NEW p, NEW n \in Nat
  PROVE  PoolIn(p, PoolIn(p, n)) = PoolIn(p, n)
<1>1. CASE p \in {"speed", "aggressive", "streaming"}
  BY <1>1 DEF PoolIn, AtLeast
<1>2. CASE p \in Gaming
  BY <1>2 DEF PoolIn, AtLeast, Gaming
<1>3. CASE p \in LowCpu
  <2>1. p \notin {"speed", "aggressive", "streaming"} /\ p \notin Gaming
    BY <1>3 DEF LowCpu, Gaming
  <2>2. \A m : PoolIn(p, m) = IF m \in {1, 2} THEN m ELSE 2
    BY <2>1, <1>3 DEF PoolIn
  <2>3. QED
    BY <2>2
<1>4. CASE p \notin {"speed", "aggressive", "streaming"} \cup Gaming \cup LowCpu
  <2>1. \A m : PoolIn(p, m) = OrElse(m, 4)
    BY <1>4 DEF PoolIn
  <2>2. QED
    BY <2>1 DEF OrElse
<1>5. QED
  BY <1>1, <1>2, <1>3, <1>4

-----------------------------------------------------------------------------
(* Of its own settings, it makes the same, and what both ends agree about  *)

LEMMA Again ==
  ASSUME NEW f \in File, f.version = 0,
         NEW c, c = LoadConfig(f), NEW r, r = LoadConfig(c)
  PROVE  Alike(r, c, f)
<1>1. Rec(f) /\ Typed(f)
  BY FileIs
<1>2. Loaded(c, f) /\ AsMigrated(c, f)
  BY <1>1, LoadOf
<1>3. Whole(c)
  BY LoadIsWhole
<1>4. PICK p : p = Chosen(f.profile)
  OBVIOUS
<1>5. c.profile = p
  BY <1>2, <1>4 DEF Loaded
<1>6. /\ r.version = c.version /\ r.mode = c.mode /\ r.psk = c.psk
      /\ r.obfuscation = c.obfuscation /\ r.maps = c.maps /\ r.profile = c.profile
      /\ r.jitter = c.jitter /\ r.smux = c.smux /\ r.advTimeout = c.advTimeout
  BY <1>3, WholeAgain
<1>7. r.pool = c.pool
  <2>1. c.pool = PoolIn(p, f.pool) /\ f.pool \in Nat
    BY <1>1, <1>2, <1>4 DEF Loaded, Typed
  <2>2. r.pool = PoolIn(p, c.pool)
    BY <1>3, <1>5, WholeAgain
  <2>3. QED
    BY <2>1, <2>2, PoolTwice
<1>8. r.obfs = c.obfs
  <2>1. r.obfs = (c.obfs \/ c.obfuscation)
    BY <1>3, WholeAgain
  <2>2. c.obfs = (f.obfs \/ f.obfuscation) /\ c.obfuscation = f.obfuscation
    BY <1>2 DEF Loaded
  <2>3. QED
    BY <2>1, <2>2
<1>9. r.forward = c.forward
  <2>1. r.forward = (IF c.forward = {} THEN c.maps ELSE c.forward)
    BY <1>3, WholeAgain
  <2>2. c.forward = (IF f.forward = {} THEN f.maps ELSE f.forward) /\ c.maps = f.maps
    BY <1>2 DEF Loaded
  <2>3. QED
    BY <2>1, <2>2
<1>10. r.keepAlive # c.keepAlive => "keepAlive" \in Wavers(f)
  <2>1. r.keepAlive = AliveIn(p, c.keepAlive)
    BY <1>3, <1>5, WholeAgain
  <2>2. PICK k : c.keepAlive = Migrated(p, AliveIn(p, k))
    BY <1>2, <1>4 DEF AsMigrated
  <2>3. CASE p = "latency"
    BY <2>3, <1>4, WaversOf
  <2>4. CASE p = "gaming"
    BY <2>1, <2>2, <2>4 DEF AliveIn, Migrated, Gaming
  <2>5. CASE p \in LowCpu
    BY <2>1, <2>2, <2>5 DEF AliveIn, Migrated, LowCpu, Gaming
  <2>6. CASE p \notin Gaming /\ p \notin LowCpu
    BY <2>1, <2>6 DEF AliveIn
  <2>7. QED
    BY <2>3, <2>4, <2>5, <2>6 DEF Gaming
<1>11. ASSUME NEW n, NEW m, NEW d, m = Buffer(BufferIn(p, d)), n = BufferIn(p, m), n # m
       PROVE  p \in LowCpu
  <2>1. CASE p = "streaming"
    BY <2>1, <1>11 DEF Buffer, BufferIn
  <2>2. CASE p # "streaming" /\ p \notin LowCpu
    BY <2>2, <1>11 DEF BufferIn
  <2>3. QED
    BY <2>1, <2>2
<1>12. /\ r.maxRecv # c.maxRecv => "maxRecv" \in Wavers(f)
       /\ r.maxStream # c.maxStream => "maxStream" \in Wavers(f)
  <2>1. r.maxRecv = BufferIn(p, c.maxRecv) /\ r.maxStream = BufferIn(p, c.maxStream)
    BY <1>3, <1>5, WholeAgain
  <2>2. /\ c.maxRecv = Buffer(BufferIn(p, OrElse(f.maxRecv, 4096)))
        /\ c.maxStream = Buffer(BufferIn(p, OrElse(f.maxStream, 4096)))
    BY <1>2, <1>4 DEF AsMigrated
  <2>3. r.maxRecv # c.maxRecv \/ r.maxStream # c.maxStream => p \in LowCpu
    BY <2>1, <2>2, <1>11
  <2>4. QED
    BY <2>3, <1>4, WaversOf
<1>13. r.randomPadding # c.randomPadding => "randomPadding" \in Wavers(f)
  <2>1. r.randomPadding = PaddingIn(p, c.randomPadding)
    BY <1>3, <1>5, WholeAgain
  <2>2. CASE p \in Gaming
    BY <2>2, <1>4, WaversOf
  <2>3. CASE p \notin Gaming
    BY <2>1, <2>3, Zenon DEF PaddingIn
  <2>4. QED
    BY <2>2, <2>3
<1>14. r.timeout # c.timeout => "timeout" \in Wavers(f)
  <2>1. r.timeout = IF c.advTimeout > 0 THEN c.advTimeout ELSE c.timeout
    BY <1>3, WholeAgain
  <2>2. c.timeout = Raised(TimeoutIn(f.advTimeout, f.timeout)) /\ c.advTimeout = f.advTimeout
    BY <1>2 DEF Loaded, AsMigrated
  <2>3. CASE f.advTimeout = 15
    BY <2>3, WaversOf
  <2>4. CASE f.advTimeout > 0 /\ f.advTimeout # 15
    BY <2>1, <2>2, <2>4 DEF TimeoutIn, Raised
  <2>5. CASE ~(f.advTimeout > 0)
    BY <2>1, <2>2, <2>5
  <2>6. QED
    BY <2>3, <2>4, <2>5
<1>15. SUFFICES ASSUME NEW x \in Keys, r[x] # c[x] PROVE x \in Wavers(f)
  BY DEF Alike
<1>16. x \in {"keepAlive", "maxRecv", "maxStream", "randomPadding", "timeout"}
  BY <1>6, <1>7, <1>8, <1>9, <1>15 DEF Keys
<1>17. QED
  BY <1>10, <1>12, <1>13, <1>14, <1>15, <1>16

\* What EndsAgree needs of the settings r of an end whose user has written f.
FitFrom(r, f) ==
  LET m == OrElse(f.maxRecv, 4096)
      s == OrElse(f.maxStream, 4096) IN
  /\ s <= m
  /\ ~(f.version = 0 /\ Buffer(s) # s /\ Buffer(m) = m /\ m < 4096)
  => r.maxStream <= r.maxRecv

From(r, f) ==
  /\ r.profile = Chosen(f.profile)
  /\ r.obfs = f.obfuscation /\ r.obfuscation = f.obfuscation
  /\ f.version = 2 => r.randomPadding = PaddingIn(f.profile, f.randomPadding)
  /\ f.version = 0 /\ f.profile \notin Gaming => r.randomPadding = TRUE
  /\ f.keepAlive <= 25 => r.keepAlive <= 25
  /\ f.jitter <= 10 => r.jitter <= 10
  /\ r.smux = OrElse(f.smux, 2)
  /\ FitFrom(r, f)

LEMMA FromOnce ==
  ASSUME NEW f \in File, ~f.obfs, NEW r, r = LoadConfig(f)
  PROVE  From(r, f)
<1>1. Rec(f) /\ Typed(f)
  BY FileIs
<1>2. /\ Loaded(r, f)
      /\ f.version = 2 => AsSet(r, f)
      /\ f.version = 0 => AsMigrated(r, f)
  BY <1>1, LoadOf DEF Typed
<1>3. PICK p : p = Chosen(f.profile)
  OBVIOUS
<1>4. p \in Gaming <=> f.profile \in Gaming
  BY <1>3 DEF Chosen, Gaming
<1>5. PICK k, m, s : /\ k = OrElse(f.keepAlive, 2) /\ m = OrElse(f.maxRecv, 4096)
                     /\ s = OrElse(f.maxStream, 4096)
  OBVIOUS
<1>6. f.keepAlive \in Nat /\ f.maxRecv \in Nat /\ f.maxStream \in Nat /\ f.jitter \in Nat
  BY <1>1 DEF Typed
<1>7. k \in Nat /\ m \in Nat /\ s \in Nat /\ (f.keepAlive <= 25 => k <= 25)
  BY <1>5, <1>6 DEF OrElse
<1>8. r.profile = p
  BY <1>2, <1>3 DEF Loaded
<1>9. r.obfuscation = f.obfuscation /\ r.obfs = (f.obfs \/ f.obfuscation)
  BY <1>2 DEF Loaded
<1>10. r.obfs = f.obfuscation
  <2>1. f.obfuscation \in BOOLEAN
    BY <1>1 DEF Typed
  <2>2. QED
    BY <2>1, <1>9
<1>11. f.jitter <= 10 => r.jitter <= 10
  BY <1>2, <1>6 DEF Loaded, OrElse
<1>12. r.smux = OrElse(f.smux, 2)
  BY <1>2 DEF Loaded
<1>13. CASE f.version = 2
  <2>1. /\ r.keepAlive = AliveIn(p, k) /\ r.maxRecv = BufferIn(p, m)
        /\ r.maxStream = BufferIn(p, s) /\ r.randomPadding = PaddingIn(p, f.randomPadding)
    BY <1>2, <1>3, <1>5, <1>13 DEF AsSet
  <2>2. f.keepAlive <= 25 => r.keepAlive <= 25
    BY <2>1, <1>7 DEF AliveIn
  <2>3. r.randomPadding = PaddingIn(f.profile, f.randomPadding)
    BY <2>1, <1>4, Zenon DEF PaddingIn
  <2>4. s <= m => r.maxStream <= r.maxRecv
    BY <2>1, <1>7 DEF BufferIn
  <2>5. FitFrom(r, f)
    BY <2>4, <1>5 DEF FitFrom
  <2>6. QED
    BY <2>2, <2>3, <2>5, <1>3, <1>8, <1>9, <1>10, <1>11, <1>13, <1>12 DEF From
<1>14. CASE f.version = 0
  <2>1. /\ r.keepAlive = Migrated(p, AliveIn(p, k)) /\ r.maxRecv = Buffer(BufferIn(p, m))
        /\ r.maxStream = Buffer(BufferIn(p, s)) /\ r.randomPadding = TRUE
    BY <1>2, <1>3, <1>5, <1>14 DEF AsMigrated
  <2>2. f.keepAlive <= 25 => r.keepAlive <= 25
    <3>1. AliveIn(p, k) \in Nat /\ (f.keepAlive <= 25 => AliveIn(p, k) <= 25)
      BY <1>7 DEF AliveIn
    <3>2. QED
      BY <3>1, <2>1 DEF Migrated
  <2>3. s <= m /\ ~(Buffer(s) # s /\ Buffer(m) = m /\ m < 4096) => r.maxStream <= r.maxRecv
    <3>1. CASE p = "streaming" \/ p \in LowCpu
      <4>1. BufferIn(p, m) = BufferIn(p, s) /\ BufferIn(p, m) \in Nat
        <5>1. CASE p = "streaming"
          BY <5>1 DEF BufferIn
        <5>2. CASE p # "streaming" /\ p \in LowCpu
          <6>1. \A n : BufferIn(p, n) = 512
            BY <5>2 DEF BufferIn
          <6>2. QED
            BY <6>1
        <5>3. QED
          BY <3>1, <5>1, <5>2
      <4>2. r.maxStream = r.maxRecv /\ r.maxRecv \in Nat
        BY <4>1, <2>1 DEF Buffer
      <4>3. QED
        BY <4>2
    <3>2. CASE p # "streaming" /\ p \notin LowCpu
      <4>1. r.maxRecv = Buffer(m) /\ r.maxStream = Buffer(s)
        BY <3>2, <2>1 DEF BufferIn
      <4>2. QED
        BY <4>1, <1>7 DEF Buffer
    <3>3. QED
      BY <3>1, <3>2
  <2>4. FitFrom(r, f)
    BY <2>3, <1>5, <1>14 DEF FitFrom
  <2>5. QED
    BY <2>1, <2>2, <2>4, <1>3, <1>8, <1>9, <1>10, <1>11, <1>14, <1>12 DEF From
<1>15. QED
  BY <1>13, <1>14, <1>1 DEF Typed

LEMMA Versions == 2 # 0
OBVIOUS

LEMMA FromAgain ==
  ASSUME NEW f \in File, NEW c, Whole(c), From(c, f), f.version = 0, NEW r, r = LoadConfig(c)
  PROVE  From(r, f)
<1>1. /\ r.profile = c.profile /\ r.obfuscation = c.obfuscation /\ r.jitter = c.jitter
      /\ r.obfs = (c.obfs \/ c.obfuscation)
      /\ r.keepAlive = AliveIn(c.profile, c.keepAlive)
      /\ r.maxRecv = BufferIn(c.profile, c.maxRecv)
      /\ r.maxStream = BufferIn(c.profile, c.maxStream)
      /\ r.randomPadding = PaddingIn(c.profile, c.randomPadding)
  BY WholeAgain
<1>2. r.profile = Chosen(f.profile) /\ r.obfuscation = f.obfuscation /\ (f.jitter <= 10 => r.jitter <= 10)
  BY <1>1 DEF From
<1>3. r.obfs = f.obfuscation
  <2>1. f.obfuscation \in BOOLEAN
    BY FileIs DEF Typed
  <2>2. c.obfs = f.obfuscation /\ c.obfuscation = f.obfuscation
    BY DEF From
  <2>3. QED
    BY <2>1, <2>2, <1>1
<1>4. c.keepAlive \in Nat /\ c.maxRecv \in Nat /\ c.maxStream \in Nat
  BY FileIs DEF Whole, Typed
<1>5. f.keepAlive <= 25 => r.keepAlive <= 25
  BY <1>1, <1>4 DEF From, AliveIn
<1>6. f.profile \notin Gaming => r.randomPadding = TRUE
  <2>1. SUFFICES ASSUME f.profile \notin Gaming PROVE r.randomPadding = TRUE
    OBVIOUS
  <2>2. c.profile \notin Gaming
    BY <2>1 DEF From, Chosen, Gaming
  <2>3. c.randomPadding = TRUE
    BY <2>1 DEF From
  <2>4. QED
    BY <2>2, <2>3, <1>1, Zenon DEF PaddingIn
<1>7. c.maxStream <= c.maxRecv => r.maxStream <= r.maxRecv
  BY <1>1, <1>4 DEF BufferIn
<1>8. FitFrom(r, f)
  BY <1>7 DEF From, FitFrom
<1>9. r.smux = OrElse(f.smux, 2)
  <2>1. r.smux = c.smux
    BY WholeAgain
  <2>2. QED
    BY <2>1 DEF From
<1>10. QED
  BY <1>2, <1>3, <1>5, <1>6, <1>8, <1>9, Versions DEF From

-----------------------------------------------------------------------------
(* One end: what each step keeps                                           *)

\* The types of what belongs to one end, and the file its user wrote.
Sorted(d, r, at, f, s) ==
  /\ d \in File /\ r \in File /\ f \in File
  /\ f.mode # "" /\ ~f.obfs
  /\ at \in {"down", "save", "write", "loaded", "up"}
  /\ s = {} \/ \E c \in File : s = {c}

\* A file d is lost, or as its user wrote it, or what migration has saved of it.
Origin(d, f) ==
  \/ d.mode = ""
  \/ d = f
  \/ f.version = 0 /\ Whole(d) /\ From(d, f)

\* What the next start makes of the file d is like what the first one made of it.
OnDisk(d, f, s) ==
  /\ s = {} => d.mode # ""
  /\ d.mode # "" /\ d.version = 0 => s \subseteq {LoadConfig(d)}
  /\ d.mode # "" => \A c \in s : Alike(LoadConfig(d), c, f)

\* The same of what this start has made of it, of which migration saves only the
\* first.
Loading(r, at, f, s) ==
  /\ at # "down" => Whole(r) /\ (r.mode # "" => From(r, f))
  /\ at \in {"save", "write"} =>
       /\ s # {}
       /\ r.mode # "" => s = {r} /\ f.version = 0 /\ r = LoadConfig(f)
  /\ at \in {"loaded", "up"} /\ r.mode # "" => \A c \in s : Alike(r, c, f)
  /\ at = "up" => r.mode # ""

Sound(d, r, at, f, s) ==
  Sorted(d, r, at, f, s) /\ Origin(d, f) /\ OnDisk(d, f, s) /\ Loading(r, at, f, s)

LEMMA AlikeItself ==
  ASSUME NEW r, NEW f
  PROVE  Alike(r, r, f)
BY DEF Alike

\* The settings made of a file that is there are what From says.
LEMMA FromDisk ==
  ASSUME NEW d \in File, NEW f \in File, ~f.obfs, Origin(d, f), d.mode # "",
         NEW r, r = LoadConfig(d)
  PROVE  /\ Whole(r) /\ From(r, f)
         /\ d.version = 0 => d = f
<1>1. Whole(r)
  BY LoadIsWhole
<1>2. CASE d = f
  BY <1>1, <1>2, FromOnce
<1>3. CASE f.version = 0 /\ Whole(d) /\ From(d, f)
  <2>1. From(r, f)
    BY <1>3, FromAgain
  <2>2. d.version # 0
    BY <1>3, Versions DEF Whole
  <2>3. QED
    BY <1>1, <2>1, <2>2
<1>4. QED
  BY <1>2, <1>3 DEF Origin

LEMMA LoadKeeps ==
  ASSUME NEW d, NEW r0, NEW f, NEW s0, Sound(d, r0, "down", f, s0),
         NEW r, r = LoadConfig(d),
         NEW s, s = IF s0 = {} THEN {r} ELSE s0,
         NEW at, at = IF d.version < CurrentConfigVersion THEN "save" ELSE "loaded"
  PROVE  Sound(d, r, at, f, s)
<1>1. d \in File /\ f \in File /\ ~f.obfs /\ Origin(d, f) /\ f.mode # ""
  BY DEF Sound, Sorted
<1>2. s0 = {} \/ \E c \in File : s0 = {c}
  BY DEF Sound, Sorted
<1>3. Whole(r)
  BY <1>1, LoadIsWhole
<1>4. d.mode # "" => From(r, f) /\ (d.version = 0 => d = f)
  BY <1>1, FromDisk
<1>5. r.mode = d.mode /\ d.version \in {0, 2}
  <2>1. Rec(d) /\ Typed(d)
    BY <1>1, FileIs
  <2>2. QED
    BY <2>1, LoadOf DEF Typed, Loaded
<1>6. s # {} /\ \E c \in File : s = {c}
  BY <1>2, <1>3 DEF Whole
<1>7. at = IF d.version = 0 THEN "save" ELSE "loaded"
  BY <1>5 DEF CurrentConfigVersion
<1>8. Sorted(d, r, at, f, s)
  BY <1>1, <1>3, <1>6, <1>7 DEF Sorted, Whole
<1>9. OnDisk(d, f, s0)
  BY DEF Sound
<1>10. d.mode # "" /\ d.version = 0 => s = {r}
  BY <1>9, <1>6 DEF OnDisk
<1>11. d.mode # "" => \A c \in s : Alike(r, c, f)
  <2>1. CASE s0 = {}
    BY <2>1, AlikeItself
  <2>2. CASE s0 # {}
    BY <2>2, <1>9 DEF OnDisk
  <2>3. QED
    BY <2>1, <2>2
<1>12. OnDisk(d, f, s)
  BY <1>6, <1>10, <1>11 DEF OnDisk
<1>13. Loading(r, at, f, s)
  BY <1>3, <1>4, <1>5, <1>6, <1>7, <1>10, <1>11 DEF Loading
<1>14. QED
  BY <1>1, <1>8, <1>12, <1>13 DEF Sound

LEMMA EmptyIsFile == EmptyFile \in File
<1>1. Rec(EmptyFile)
  BY DEF EmptyFile, Rec, Keys
<1>2. Typed(EmptyFile)
  BY DEF EmptyFile, Typed, Modes, Profiles
<1>3. QED
  BY <1>1, <1>2, IsFile

LEMMA TruncateKeeps ==
  ASSUME NEW d, NEW r, NEW f, NEW s, NEW at \in {"save", "write"}, Sound(d, r, at, f, s)
  PROVE  Sound(EmptyFile, r, "write", f, s)
<1>1. Sorted(EmptyFile, r, "write", f, s)
  BY EmptyIsFile DEF Sound, Sorted
<1>2. Origin(EmptyFile, f)
  BY EmptyIsNamed DEF Origin
<1>3. Loading(r, "write", f, s)
  BY DEF Sound, Loading
<1>4. OnDisk(EmptyFile, f, s)
  BY EmptyIsNamed DEF Sound, Loading, OnDisk
<1>5. QED
  BY <1>1, <1>2, <1>3, <1>4 DEF Sound

\* A step that leaves the file and the settings alone.
LEMMA MoveKeeps ==
  ASSUME NEW d, NEW r, NEW f, NEW s, NEW at, Sound(d, r, at, f, s),
         NEW to,
         \/ at \in {"save", "write"} /\ to = "loaded"
         \/ at = "loaded" /\ to = "up" /\ r.mode # ""
         \/ to = "down"
  PROVE  Sound(d, r, to, f, s)
<1>1. Sorted(d, r, to, f, s)
  BY DEF Sound, Sorted
<1>2. Loading(r, to, f, s)
  <2>1. CASE at \in {"save", "write"} /\ to = "loaded"
    <3>1. r.mode # "" => s = {r}
      BY <2>1 DEF Sound, Loading
    <3>2. r.mode # "" => \A c \in s : Alike(r, c, f)
      BY <3>1, AlikeItself
    <3>3. QED
      BY <2>1, <3>2 DEF Sound, Loading
  <2>2. CASE at = "loaded" /\ to = "up" /\ r.mode # ""
    BY <2>2 DEF Sound, Loading
  <2>3. CASE to = "down"
    BY <2>3 DEF Loading
  <2>4. QED
    BY <2>1, <2>2, <2>3
<1>3. QED
  BY <1>1, <1>2 DEF Sound

LEMMA WriteKeeps ==
  ASSUME NEW d, NEW r, NEW f, NEW s, Sound(d, r, "write", f, s)
  PROVE  Sound(r, r, "loaded", f, s)
<1>1. Sound(d, r, "loaded", f, s)
  BY MoveKeeps
<1>2. r \in File /\ f \in File /\ Whole(r) /\ s # {}
  BY DEF Sound, Sorted, Loading
<1>3. r.mode # "" => s = {r} /\ f.version = 0 /\ r = LoadConfig(f) /\ From(r, f)
  BY DEF Sound, Loading
<1>4. Sorted(r, r, "loaded", f, s)
  BY <1>1, <1>2 DEF Sound, Sorted
<1>5. Origin(r, f)
  BY <1>2, <1>3 DEF Origin
<1>6. r.mode # "" => \A c \in s : Alike(LoadConfig(r), c, f)
  <2>1. SUFFICES ASSUME r.mode # "" PROVE Alike(LoadConfig(r), r, f)
    BY <1>3
  <2>2. PICK q : q = LoadConfig(r)
    OBVIOUS
  <2>3. Alike(q, r, f)
    BY <1>2, <1>3, <2>1, <2>2, Again
  <2>4. QED
    BY <2>2, <2>3
<1>7. OnDisk(r, f, s)
  <2>1. r.version # 0
    BY <1>2, Versions DEF Whole
  <2>2. QED
    BY <1>2, <1>6, <2>1 DEF OnDisk
<1>8. Loading(r, "loaded", f, s)
  BY <1>1 DEF Sound
<1>9. QED
  BY <1>4, <1>5, <1>7, <1>8 DEF Sound

\* An edit of the mappings.
LEMMA MapsOf ==
  ASSUME NEW c \in File, NEW p \in Ports, NEW m, m = c.maps \cup {p},
         NEW d, d = [c EXCEPT !.maps = m]
  PROVE  d \in File /\ Same(d, c, {"maps"})
<1>1. Rec(c) /\ Typed(c)
  BY FileIs
<1>2. Rec(d) /\ Same(d, c, {"maps"}) /\ d.maps = m
  BY <1>1, PutMaps
<1>3. m \in SUBSET Ports
  BY <1>1 DEF Typed
<1>4. Typed(d)
  BY <1>1, <1>2, <1>3 DEF Typed, Same, Keys
<1>5. QED
  BY <1>2, <1>4, IsFile

LEMMA FromSame ==
  ASSUME NEW r, NEW f, From(r, f), NEW r2, NEW f2,
         Same(r2, r, {"maps"}), Same(f2, f, {"maps"})
  PROVE  From(r2, f2)
<1>1. /\ r2.profile = r.profile /\ r2.obfs = r.obfs /\ r2.obfuscation = r.obfuscation
      /\ r2.randomPadding = r.randomPadding /\ r2.keepAlive = r.keepAlive
      /\ r2.jitter = r.jitter /\ r2.smux = r.smux /\ r2.maxRecv = r.maxRecv /\ r2.maxStream = r.maxStream
  BY DEF Same, Keys
<1>2. /\ f2.profile = f.profile /\ f2.obfuscation = f.obfuscation
      /\ f2.randomPadding = f.randomPadding /\ f2.keepAlive = f.keepAlive
      /\ f2.jitter = f.jitter /\ f2.maxRecv = f.maxRecv /\ f2.maxStream = f.maxStream
      /\ f2.version = f.version /\ f2.smux = f.smux
  BY DEF Same, Keys
<1>3. FitFrom(r2, f2)
  BY <1>1, <1>2 DEF From, FitFrom
<1>4. QED
  BY <1>1, <1>2, <1>3 DEF From

LEMMA EditKeeps ==
  ASSUME NEW d, NEW r, NEW f, NEW s, NEW at, Sound(d, r, at, f, s),
         at \in {"up", "down"}, d.mode # "", NEW p \in Ports,
         NEW d2, d2 = [d EXCEPT !.maps = d.maps \cup {p}],
         NEW f2, f2 = [f EXCEPT !.maps = f.maps \cup {p}]
  PROVE  Sound(d2, r, at, f2, {})
<1>1. d \in File /\ f \in File /\ r \in File /\ ~f.obfs /\ f.mode # ""
  BY DEF Sound, Sorted
<1>2. d2 \in File /\ Same(d2, d, {"maps"})
  BY <1>1, MapsOf
<1>3. f2 \in File /\ Same(f2, f, {"maps"})
  BY <1>1, MapsOf
<1>4. f2.mode = f.mode /\ f2.obfs = f.obfs /\ f2.version = f.version /\ d2.mode = d.mode
  BY <1>2, <1>3 DEF Same, Keys
<1>5. Sorted(d2, r, at, f2, {})
  BY <1>1, <1>2, <1>3, <1>4 DEF Sound, Sorted
<1>6. Same(r, r, {"maps"})
  BY DEF Same
<1>7. Origin(d2, f2)
  <2>1. CASE d = f
    BY <2>1 DEF Origin
  <2>2. CASE f.version = 0 /\ Whole(d) /\ From(d, f)
    <3>1. From(d2, f2)
      BY <2>2, <1>2, <1>3, FromSame
    <3>2. Whole(d2)
      BY <2>2, <1>2 DEF Whole, Same, Keys
    <3>3. QED
      BY <2>2, <1>4, <3>1, <3>2 DEF Origin
  <2>3. QED
    BY <2>1, <2>2 DEF Sound, Origin
<1>8. OnDisk(d2, f2, {})
  BY <1>4 DEF OnDisk
<1>9. at = "up" => Whole(r) /\ From(r, f) /\ r.mode # ""
  BY DEF Sound, Loading
<1>10. at = "up" => From(r, f2)
  BY <1>3, <1>6, <1>9, FromSame
<1>11. Loading(r, at, f2, {})
  BY <1>9, <1>10 DEF Loading
<1>12. QED
  BY <1>5, <1>7, <1>8, <1>11 DEF Sound

\* What a file that was cut off is: one that is not migrated again.
Torn(d, r, at, f, s) ==
  /\ Sorted(d, r, at, f, s)
  /\ d.version = 2 /\ at \notin {"save", "write"}
  /\ at # "down" => Whole(r)
  /\ at = "up" => r.mode # ""

Texts == {"whole", "cut", "garbled"}

Right(d, t, r, at, f, s) == IF t = "cut" THEN Torn(d, r, at, f, s) ELSE Sound(d, r, at, f, s)

LEMMA BeginningIsFile ==
  ASSUME NEW c \in File, c.version = 2, NEW n \in Cuts, NEW d, d = Beginning(c, n)
  PROVE  d \in File /\ d.version = 2
<1>1. Rec(c) /\ Typed(c) /\ Rec(EmptyFile) /\ Typed(EmptyFile)
  BY EmptyIsFile, FileIs
<1>2. \A x \in Keys : d[x] = c[x] \/ d[x] = EmptyFile[x]
  BY <1>1 DEF Beginning, Rec
<1>3. Rec(d)
  BY <1>1 DEF Beginning, Rec
<1>4. Typed(d)
  <2>1. /\ d.version \in {0, 2} /\ d.mode \in Modes /\ d.psk \in {"", Key}
        /\ d.profile \in Profiles
    BY <1>1, <1>2 DEF Typed, Keys
  <2>2. d.keepAlive \in Nat /\ d.jitter \in Nat /\ d.maxRecv \in Nat /\ d.maxStream \in Nat
    BY <1>1, <1>2 DEF Typed, Keys
  <2>3. d.randomPadding \in BOOLEAN /\ d.obfuscation \in BOOLEAN /\ d.obfs \in BOOLEAN
    BY <1>1, <1>2 DEF Typed, Keys
  <2>4. d.maps \in SUBSET Ports /\ d.forward \in SUBSET Ports
    BY <1>1, <1>2 DEF Typed, Keys
  <2>5. d.pool \in Nat /\ d.smux \in Nat /\ d.timeout \in Nat /\ d.advTimeout \in Nat
    BY <1>1, <1>2 DEF Typed, Keys
  <2>6. QED
    BY <2>1, <2>2, <2>3, <2>4, <2>5 DEF Typed
<1>5. d.version = 2
  <2>1. 1 \in 1..n /\ Order[1] = "version"
    BY CutsAssumption DEF Order
  <2>2. "version" \in DOMAIN c
    BY <1>1 DEF Rec, Keys
  <2>3. QED
    BY <2>1, <2>2 DEF Beginning
<1>6. QED
  BY <1>3, <1>4, <1>5, IsFile

\* The write of the migrated settings ends half way.
LEMMA CutKeeps ==
  ASSUME NEW d, NEW r, NEW f, NEW s, Sound(d, r, "write", f, s), NEW n \in Cuts,
         NEW b, b = Beginning(r, n), NEW to \in {"down", "loaded"}
  PROVE  Torn(b, r, to, f, s)
<1>1. Whole(r)
  BY DEF Sound, Loading
<1>2. b \in File /\ b.version = 2
  BY <1>1, BeginningIsFile DEF Whole
<1>3. Sorted(b, r, to, f, s)
  BY <1>2 DEF Sound, Sorted
<1>4. QED
  BY <1>1, <1>2, <1>3 DEF Torn

\* The write fails or is stopped, and leaves d2 and t2.
LEMMA CutOffKeeps ==
  ASSUME NEW d, NEW t \in Texts, NEW r, NEW f, NEW s, Right(d, t, r, "write", f, s),
         NEW d2, NEW t2, NEW to \in {"down", "loaded"},
         \/ d2 = d /\ t2 = t
         \/ d2 = EmptyFile /\ t2 = "garbled"
         \/ \E n \in Cuts : d2 = Beginning(r, n) /\ t2 = "cut"
  PROVE  Right(d2, t2, r, to, f, s) /\ t2 \in Texts
<1>1. Sound(d, r, "write", f, s) /\ t # "cut"
  BY DEF Right, Torn
<1>2. CASE d2 = d /\ t2 = t
  <2>1. Sound(d2, r, to, f, s)
    BY <1>1, <1>2, MoveKeeps
  <2>2. QED
    BY <1>1, <1>2, <2>1 DEF Right
<1>3. CASE d2 = EmptyFile /\ t2 = "garbled"
  <2>1. Sound(d2, r, "write", f, s)
    BY <1>1, <1>3, TruncateKeeps
  <2>2. Sound(d2, r, to, f, s)
    BY <2>1, MoveKeeps
  <2>3. QED
    BY <1>3, <2>2 DEF Right, Texts
<1>4. ASSUME NEW n \in Cuts, d2 = Beginning(r, n), t2 = "cut"
      PROVE  Right(d2, t2, r, to, f, s) /\ t2 \in Texts
  <2>1. Torn(d2, r, to, f, s)
    BY <1>1, <1>4, CutKeeps
  <2>2. QED
    BY <1>4, <2>1 DEF Right, Texts
<1>5. QED
  BY <1>2, <1>3, <1>4

LEMMA RightLoad ==
  ASSUME NEW d, NEW t, NEW r0, NEW f, NEW s0, Right(d, t, r0, "down", f, s0),
         NEW r, r = LoadConfig(d),
         NEW s, s = IF s0 = {} THEN {r} ELSE s0,
         NEW at, at = IF d.version < CurrentConfigVersion THEN "save" ELSE "loaded"
  PROVE  Right(d, t, r, at, f, s)
<1>1. CASE t # "cut"
  <2>1. Sound(d, r0, "down", f, s0)
    BY <1>1 DEF Right
  <2>2. Sound(d, r, at, f, s)
    BY <2>1, LoadKeeps
  <2>3. QED
    BY <1>1, <2>2 DEF Right
<1>2. CASE t = "cut"
  <2>1. Torn(d, r0, "down", f, s0)
    BY <1>2 DEF Right
  <2>2. d \in File /\ d.version = 2 /\ (s0 = {} \/ \E c \in File : s0 = {c})
    BY <2>1 DEF Torn, Sorted
  <2>3. at = "loaded"
    BY <2>2 DEF CurrentConfigVersion
  <2>4. Whole(r)
    BY <2>2, LoadIsWhole
  <2>5. Sorted(d, r, at, f, s)
    BY <2>1, <2>2, <2>3, <2>4 DEF Torn, Sorted, Whole
  <2>6. QED
    BY <1>2, <2>2, <2>3, <2>4, <2>5 DEF Right, Torn
<1>3. QED
  BY <1>1, <1>2

LEMMA RightMove ==
  ASSUME NEW d, NEW t, NEW r, NEW f, NEW s, NEW at, Right(d, t, r, at, f, s),
         NEW to,
         \/ at \in {"save", "write"} /\ to = "loaded"
         \/ at = "loaded" /\ to = "up" /\ r.mode # ""
         \/ to = "down"
  PROVE  Right(d, t, r, to, f, s)
<1>1. CASE t # "cut"
  <2>1. Sound(d, r, at, f, s)
    BY <1>1 DEF Right
  <2>2. Sound(d, r, to, f, s)
    BY <2>1, MoveKeeps
  <2>3. QED
    BY <1>1, <2>2 DEF Right
<1>2. CASE t = "cut"
  BY <1>2 DEF Right, Torn, Sorted
<1>3. QED
  BY <1>1, <1>2

LEMMA RightEdit ==
  ASSUME NEW d, NEW t, NEW r, NEW f, NEW s, NEW at, Right(d, t, r, at, f, s),
         at \in {"up", "down"}, d.mode # "", NEW p \in Ports,
         NEW d2, d2 = [d EXCEPT !.maps = d.maps \cup {p}],
         NEW f2, f2 = [f EXCEPT !.maps = f.maps \cup {p}]
  PROVE  Right(d2, t, r, at, f2, {})
<1>1. CASE t # "cut"
  <2>1. Sound(d, r, at, f, s)
    BY <1>1 DEF Right
  <2>2. Sound(d2, r, at, f2, {})
    BY <2>1, EditKeeps
  <2>3. QED
    BY <1>1, <2>2 DEF Right
<1>2. CASE t = "cut"
  <2>1. Torn(d, r, at, f, s)
    BY <1>2 DEF Right
  <2>2. d \in File /\ f \in File
    BY <2>1 DEF Torn, Sorted
  <2>3. d2 \in File /\ Same(d2, d, {"maps"}) /\ f2 \in File /\ Same(f2, f, {"maps"})
    BY <2>2, MapsOf
  <2>4. f2.mode = f.mode /\ f2.obfs = f.obfs /\ d2.version = d.version
    BY <2>3 DEF Same, Keys
  <2>5. QED
    BY <1>2, <2>1, <2>3, <2>4 DEF Right, Torn, Sorted
<1>3. QED
  BY <1>1, <1>2

-----------------------------------------------------------------------------
(* All ends                                                                *)

Shape ==
  /\ text \in [Ends -> Texts]
  /\ disk \in [Ends -> File] /\ run \in [Ends -> File] /\ asked \in [Ends -> File]
  /\ pc \in [Ends -> {"down", "save", "write", "loaded", "up"}]
  /\ DOMAIN first = Ends /\ first = [e \in Ends |-> first[e]]
  /\ edits \in [Ends -> 0..MaxEdits]

Kept(e) == Right(disk[e], text[e], run[e], pc[e], asked[e], first[e])

Settled == Shape /\ \A e \in Ends : Kept(e)

LEMMA InitSettled == Init => Settled
<1> SUFFICES ASSUME Init PROVE Settled
  OBVIOUS
<1>1. ASSUME NEW e \in Ends PROVE disk[e] \in File /\ disk[e].mode # "" /\ ~disk[e].obfs
  <2>1. disk[e] \in Files[e]
    BY DEF Init
  <2>2. disk[e] \in File /\ Written(disk[e])
    BY <2>1, FilesAssumption
  <2>3. QED
    BY <2>2 DEF Written
<1>2. /\ disk \in [Ends -> UNION {Files[e] : e \in Ends}] /\ asked = disk
      /\ text = [e \in Ends |-> "whole"]
      /\ run = [e \in Ends |-> EmptyFile] /\ pc = [e \in Ends |-> "down"]
      /\ first = [e \in Ends |-> {}] /\ edits = [e \in Ends |-> 0]
  BY DEF Init
<1>3. Shape
  <2>1. disk \in [Ends -> File]
    BY <1>1, <1>2
  <2>2. run \in [Ends -> File]
    BY <1>2, EmptyIsFile
  <2>3. pc \in [Ends -> {"down", "save", "write", "loaded", "up"}]
    BY <1>2
  <2>4. DOMAIN first = Ends /\ first = [e \in Ends |-> first[e]]
    BY <1>2
  <2>5. edits \in [Ends -> 0..MaxEdits]
    BY <1>2, EditsAssumption
  <2>6. text \in [Ends -> Texts]
    BY <1>2 DEF Texts
  <2>7. QED
    BY <1>2, <2>1, <2>2, <2>3, <2>4, <2>5, <2>6 DEF Shape
<1>4. ASSUME NEW e \in Ends PROVE Kept(e)
  <2>1. PICK d : d = disk[e]
    OBVIOUS
  <2>2. /\ text[e] = "whole" /\ asked[e] = d /\ run[e] = EmptyFile /\ pc[e] = "down" /\ first[e] = {}
        /\ d \in File /\ d.mode # "" /\ ~d.obfs
    BY <1>1, <1>2, <2>1
  <2>3. Sorted(d, EmptyFile, "down", d, {})
    BY <2>2, EmptyIsFile DEF Sorted
  <2>4. Origin(d, d)
    BY DEF Origin
  <2>5. OnDisk(d, d, {})
    BY <2>2 DEF OnDisk
  <2>6. Loading(EmptyFile, "down", d, {})
    BY DEF Loading
  <2>7. Sound(d, EmptyFile, "down", d, {})
    BY <2>3, <2>4, <2>5, <2>6 DEF Sound
  <2>8. QED
    BY <2>1, <2>2, <2>7 DEF Kept, Right
<1>5. QED
  BY <1>3, <1>4 DEF Settled

\* What a step of the end e leaves alone, and what it gives e.
StepOf(e, d, t, r, at, f, s) ==
  /\ disk' = [disk EXCEPT ![e] = d] /\ text' = [text EXCEPT ![e] = t]
  /\ run' = [run EXCEPT ![e] = r]
  /\ pc' = [pc EXCEPT ![e] = at] /\ asked' = [asked EXCEPT ![e] = f]
  /\ first' = [first EXCEPT ![e] = s]
  /\ edits' \in [Ends -> 0..MaxEdits]

LEMMA StepKeeps ==
  ASSUME Settled, NEW e \in Ends, NEW d, NEW t \in Texts, NEW r, NEW at, NEW f, NEW s,
         StepOf(e, d, t, r, at, f, s), Right(d, t, r, at, f, s)
  PROVE  Settled'
<1>1. /\ d \in File /\ r \in File /\ f \in File
      /\ at \in {"down", "save", "write", "loaded", "up"}
  BY DEF Right, Sound, Torn, Sorted
<1>2. Shape'
  <2>1. disk' \in [Ends -> File] /\ run' \in [Ends -> File] /\ asked' \in [Ends -> File]
    BY <1>1 DEF Settled, Shape, StepOf
  <2>2. pc' \in [Ends -> {"down", "save", "write", "loaded", "up"}]
    BY <1>1 DEF Settled, Shape, StepOf
  <2>3. DOMAIN first' = Ends /\ first' = [x \in Ends |-> first'[x]]
    BY DEF Settled, Shape, StepOf
  <2>4. text' \in [Ends -> Texts]
    BY DEF Settled, Shape, StepOf
  <2>5. QED
    BY <2>1, <2>2, <2>3, <2>4 DEF Shape, StepOf
<1>3. /\ disk'[e] = d /\ text'[e] = t /\ run'[e] = r /\ pc'[e] = at
      /\ asked'[e] = f /\ first'[e] = s
  BY DEF Settled, Shape, StepOf
<1>4. ASSUME NEW g \in Ends, g # e
      PROVE  /\ disk'[g] = disk[g] /\ text'[g] = text[g] /\ run'[g] = run[g]
             /\ pc'[g] = pc[g] /\ asked'[g] = asked[g] /\ first'[g] = first[g]
  BY <1>4 DEF Settled, Shape, StepOf
<1>5. ASSUME NEW g \in Ends PROVE Kept(g)'
  <2>1. CASE g = e
    BY <2>1, <1>3 DEF Kept
  <2>2. CASE g # e
    <3>1. Kept(g)
      BY DEF Settled
    <3>2. QED
      BY <2>2, <3>1, <1>4 DEF Kept
  <2>3. QED
    BY <2>1, <2>2
<1>6. QED
  BY <1>2, <1>5 DEF Settled

\* What a step does not name, it leaves alone.
LEMMA Untouched ==
  ASSUME Settled, NEW e \in Ends
  PROVE  /\ disk = [disk EXCEPT ![e] = disk[e]] /\ text = [text EXCEPT ![e] = text[e]]
         /\ run = [run EXCEPT ![e] = run[e]]
         /\ pc = [pc EXCEPT ![e] = pc[e]] /\ asked = [asked EXCEPT ![e] = asked[e]]
         /\ first = [first EXCEPT ![e] = first[e]]
         /\ edits \in [Ends -> 0..MaxEdits] /\ text[e] \in Texts
<1>1. disk = [disk EXCEPT ![e] = disk[e]] /\ run = [run EXCEPT ![e] = run[e]]
  BY DEF Settled, Shape
<1>2. pc = [pc EXCEPT ![e] = pc[e]] /\ asked = [asked EXCEPT ![e] = asked[e]]
  BY DEF Settled, Shape
<1>3. first = [first EXCEPT ![e] = first[e]]
  BY DEF Settled, Shape
<1>4. edits \in [Ends -> 0..MaxEdits]
  BY DEF Settled, Shape
<1>5. text = [text EXCEPT ![e] = text[e]] /\ text[e] \in Texts
  BY DEF Settled, Shape
<1>6. QED
  BY <1>1, <1>2, <1>3, <1>4, <1>5

LEMMA SettledStep == Settled /\ [Next]_vars => Settled'
<1> SUFFICES ASSUME Settled, [Next]_vars PROVE Settled'
  OBVIOUS
<1>k. ASSUME NEW e \in Ends
      PROVE  Right(disk[e], text[e], run[e], pc[e], asked[e], first[e]) /\ text[e] \in Texts
  BY DEF Settled, Kept, Shape
<1>1. CASE UNCHANGED vars
  BY <1>1 DEF vars, Settled, Shape, Kept
<1>2. ASSUME NEW e \in Ends, Load(e) PROVE Settled'
  <2>1. PICK c : c = LoadConfig(disk[e])
    OBVIOUS
  <2>2. PICK s : s = IF first[e] = {} THEN {c} ELSE first[e]
    OBVIOUS
  <2>3. PICK at : at = IF disk[e].version < CurrentConfigVersion THEN "save" ELSE "loaded"
    OBVIOUS
  <2>4. /\ pc[e] = "down"
        /\ run' = [run EXCEPT ![e] = c]
        /\ first' = [first EXCEPT ![e] = s]
        /\ pc' = [pc EXCEPT ![e] = at]
        /\ disk' = disk /\ text' = text /\ asked' = asked /\ edits' = edits
    BY <1>2, <2>1, <2>2, <2>3 DEF Load, Goto
  <2>5. Right(disk[e], text[e], run[e], "down", asked[e], first[e])
    BY <1>k, <2>4
  <2>6. Right(disk[e], text[e], c, at, asked[e], s)
    BY <2>1, <2>2, <2>3, <2>5, RightLoad
  <2>7. StepOf(e, disk[e], text[e], c, at, asked[e], s)
    BY <2>4, Untouched DEF StepOf
  <2>8. QED
    BY <1>k, <2>6, <2>7, StepKeeps
<1>3. ASSUME NEW e \in Ends, Truncate(e) PROVE Settled'
  <2>1. Right(EmptyFile, text[e], run[e], "write", asked[e], first[e])
    <3>1. Right(disk[e], text[e], run[e], "save", asked[e], first[e])
      BY <1>3, <1>k DEF Truncate
    <3>2. Sound(disk[e], run[e], "save", asked[e], first[e]) /\ text[e] # "cut"
      BY <3>1 DEF Right, Torn
    <3>3. Sound(EmptyFile, run[e], "write", asked[e], first[e])
      BY <3>2, TruncateKeeps
    <3>4. QED
      BY <3>2, <3>3 DEF Right
  <2>2. StepOf(e, EmptyFile, text[e], run[e], "write", asked[e], first[e])
    BY <1>3, Untouched DEF StepOf, Truncate, Goto
  <2>3. QED
    BY <1>k, <2>1, <2>2, StepKeeps
<1>4. ASSUME NEW e \in Ends, Write(e) PROVE Settled'
  <2>1. Right(run[e], text[e], run[e], "loaded", asked[e], first[e])
    <3>1. Right(disk[e], text[e], run[e], "write", asked[e], first[e])
      BY <1>4, <1>k DEF Write
    <3>2. Sound(disk[e], run[e], "write", asked[e], first[e]) /\ text[e] # "cut"
      BY <3>1 DEF Right, Torn
    <3>3. Sound(run[e], run[e], "loaded", asked[e], first[e])
      BY <3>2, WriteKeeps
    <3>4. QED
      BY <3>2, <3>3 DEF Right
  <2>2. StepOf(e, run[e], text[e], run[e], "loaded", asked[e], first[e])
    BY <1>4, Untouched DEF StepOf, Write, Goto
  <2>3. QED
    BY <1>k, <2>1, <2>2, StepKeeps
<1>5. ASSUME NEW e \in Ends, WriteFails(e) \/ (Stop(e) /\ pc[e] = "write") PROVE Settled'
  <2>1. /\ pc[e] = "write" /\ CutOff(e)
        /\ UNCHANGED <<run, asked, first, edits>>
    BY <1>5 DEF WriteFails, Stop
  <2>2. PICK to \in {"down", "loaded"} : pc' = [pc EXCEPT ![e] = to]
    BY <1>5 DEF WriteFails, Stop, Goto
  <2>3. PICK d, t :
          /\ disk' = [disk EXCEPT ![e] = d] /\ text' = [text EXCEPT ![e] = t]
          /\ \/ d = disk[e] /\ t = text[e]
             \/ d = EmptyFile /\ t = "garbled"
             \/ \E n \in Cuts : d = Beginning(run[e], n) /\ t = "cut"
    <3>1. CASE UNCHANGED <<disk, text>>
      <4>1. disk' = [disk EXCEPT ![e] = disk[e]] /\ text' = [text EXCEPT ![e] = text[e]]
        BY <3>1, Untouched
      <4>2. QED
        BY <4>1
    <3>2. CASE ~UNCHANGED <<disk, text>>
      BY <2>1, <3>2 DEF CutOff
    <3>3. QED
      BY <3>1, <3>2
  <2>4. Right(disk[e], text[e], run[e], "write", asked[e], first[e]) /\ text[e] \in Texts
    BY <1>k, <2>1
  <2>5. Right(d, t, run[e], to, asked[e], first[e]) /\ t \in Texts
    BY <2>3, <2>4, CutOffKeeps
  <2>6. StepOf(e, d, t, run[e], to, asked[e], first[e])
    BY <2>1, <2>2, <2>3, Untouched DEF StepOf
  <2>7. QED
    BY <2>5, <2>6, StepKeeps
<1>6. ASSUME NEW e \in Ends, OpenFails(e) \/ Start(e) \/ (Stop(e) /\ pc[e] # "write")
      PROVE  Settled'
  <2>1. UNCHANGED <<disk, text, run, asked, first, edits>>
    BY <1>6 DEF OpenFails, Start, Stop
  <2>2. PICK to :
          /\ pc' = [pc EXCEPT ![e] = to]
          /\ \/ pc[e] \in {"save", "write"} /\ to = "loaded"
             \/ pc[e] = "loaded" /\ to = "up" /\ run[e].mode # ""
             \/ to = "down"
    BY <1>6 DEF OpenFails, Start, Stop, Goto
  <2>3. Right(disk[e], text[e], run[e], to, asked[e], first[e])
    BY <1>k, <2>2, RightMove
  <2>4. StepOf(e, disk[e], text[e], run[e], to, asked[e], first[e])
    BY <2>1, <2>2, Untouched DEF StepOf
  <2>5. QED
    BY <1>k, <2>3, <2>4, StepKeeps
<1>7. ASSUME NEW e \in Ends, Edit(e) PROVE Settled'
  <2>1. PICK p \in Ports :
          /\ disk' = [disk EXCEPT ![e].maps = @ \cup {p}]
          /\ asked' = [asked EXCEPT ![e].maps = @ \cup {p}]
    BY <1>7 DEF Edit
  <2>2. /\ edits[e] < MaxEdits /\ pc[e] \in {"up", "down"} /\ disk[e].mode # ""
        /\ first' = [first EXCEPT ![e] = {}]
        /\ edits' = [edits EXCEPT ![e] = edits[e] + 1]
        /\ text' = text /\ run' = run /\ pc' = pc
    BY <1>7 DEF Edit
  <2>3. PICK d, f : /\ d = [disk[e] EXCEPT !.maps = disk[e].maps \cup {p}]
                    /\ f = [asked[e] EXCEPT !.maps = asked[e].maps \cup {p}]
    OBVIOUS
  <2>4. Right(d, text[e], run[e], pc[e], f, {})
    BY <1>k, <2>2, <2>3, RightEdit
  <2>5. edits' \in [Ends -> 0..MaxEdits]
    <3>1. edits \in [Ends -> 0..MaxEdits]
      BY DEF Settled, Shape
    <3>2. edits[e] + 1 \in 0..MaxEdits
      <4>1. PICK n : n = edits[e]
        OBVIOUS
      <4>2. n \in 0..MaxEdits /\ n < MaxEdits
        BY <2>2, <3>1, <4>1
      <4>3. n + 1 \in 0..MaxEdits
        BY <4>2, EditsAssumption
      <4>4. QED
        BY <4>1, <4>3
    <3>3. QED
      BY <2>2, <3>1, <3>2
  <2>6. disk' = [disk EXCEPT ![e] = d] /\ asked' = [asked EXCEPT ![e] = f]
    BY <2>1, <2>3
  <2>7. StepOf(e, d, text[e], run[e], pc[e], f, {})
    BY <2>2, <2>5, <2>6, Untouched DEF StepOf
  <2>8. QED
    BY <1>k, <2>4, <2>7, StepKeeps
<1>8. ASSUME NEW e \in Ends, LoadFails(e) PROVE Settled'
  BY <1>1, <1>8 DEF LoadFails
<1>9. QED
  BY <1>1, <1>2, <1>3, <1>4, <1>5, <1>6, <1>7, <1>8 DEF Next

LEMMA SettledAlways == Spec => []Settled
BY InitSettled, SettledStep, PTL DEF Spec

LEMMA SettledTypes == Settled => TypeOK
<1> SUFFICES ASSUME Settled PROVE TypeOK
  OBVIOUS
<1>1. ASSUME NEW e \in Ends PROVE first[e] \subseteq File /\ Cardinality(first[e]) <= 1
  <2>1. first[e] = {} \/ \E c \in File : first[e] = {c}
    BY DEF Settled, Kept, Right, Torn, Sound, Sorted
  <2>2. CASE first[e] = {}
    BY <2>2, FS_EmptySet
  <2>3. ASSUME NEW c \in File, first[e] = {c} PROVE first[e] \subseteq File /\ Cardinality(first[e]) <= 1
    BY <2>3, FS_Singleton
  <2>4. QED
    BY <2>1, <2>2, <2>3
<1>2. ASSUME NEW e \in Ends, pc[e] = "up"
      PROVE  /\ run[e].version = CurrentConfigVersion
             /\ \A x \in {"keepAlive", "jitter", "maxRecv", "maxStream", "pool", "smux", "timeout"} :
                  run[e][x] > 0
  <2>1. Whole(run[e])
    BY <1>2 DEF Settled, Kept, Right, Torn, Sound, Loading
  <2>2. QED
    BY <2>1 DEF Whole, CurrentConfigVersion
<1>3. QED
  BY <1>1, <1>2 DEF Settled, Shape, Texts, TypeOK

LEMMA SettledAlike == Settled => FirstLikeLater
<1> SUFFICES ASSUME Settled PROVE FirstLikeLater
  OBVIOUS
<1>1. Fields = Keys
  BY DEF Fields, EmptyFile, Keys
<1>2. ASSUME NEW e \in Ends, pc[e] = "up", text[e] # "cut", NEW c \in first[e]
      PROVE  Alike(run[e], c, asked[e])
  BY <1>2 DEF Settled, Kept, Right, Sound, Loading
<1>3. QED
  BY <1>1, <1>2 DEF FirstLikeLater, Alike

LEMMA SettledAgrees == Settled => EndsAgree
<1> SUFFICES ASSUME Settled PROVE EndsAgree
  OBVIOUS
<1>1. ASSUME NEW e \in Ends, pc[e] = "up", text[e] # "cut"
      PROVE  /\ From(run[e], asked[e])
             /\ Typed(run[e]) /\ Typed(asked[e])
  <2>1. From(run[e], asked[e])
    BY <1>1 DEF Settled, Kept, Right, Sound, Loading
  <2>2. run[e] \in File /\ asked[e] \in File
    BY DEF Settled, Shape
  <2>3. QED
    BY <2>1, <2>2, FileIs
<1>2. SUFFICES ASSUME NEW e \in Ends, NEW g \in Ends, pc[e] = "up", pc[g] = "up",
                      text[e] # "cut", text[g] # "cut"
               PROVE  SamePadding(e, g) /\ SameVersion(e, g) /\ InTime(e, g) /\ BuffersFit(e)
  BY DEF EndsAgree
<1>3. PICK r, f, q, h : r = run[e] /\ f = asked[e] /\ q = run[g] /\ h = asked[g]
  OBVIOUS
<1>4. From(r, f) /\ From(q, h) /\ Typed(r) /\ Typed(f) /\ Typed(q) /\ Typed(h)
  BY <1>1, <1>2, <1>3
<1>5. SamePadding(e, g)
  <2>1. SUFFICES ASSUME f.version = h.version, f.obfuscation = h.obfuscation,
                        f.randomPadding = h.randomPadding,
                        f.obfuscation \/ ((f.profile \in Gaming) <=> (h.profile \in Gaming)),
                        f.obfuscation \/ ~(f.profile \in Gaming /\ f.version = 0)
                 PROVE  Padding(r) = Padding(q)
    BY <1>3 DEF SamePadding
  <2>2. r.obfs = f.obfuscation /\ q.obfs = f.obfuscation
    BY <1>4, <2>1 DEF From
  <2>3. CASE f.obfuscation
    BY <2>2, <2>3 DEF Padding
  <2>4. CASE ~f.obfuscation
    <3>1. r.randomPadding = q.randomPadding
      <4>1. CASE f.version = 2
        <5>1. /\ r.randomPadding = PaddingIn(f.profile, f.randomPadding)
              /\ q.randomPadding = PaddingIn(h.profile, h.randomPadding)
          BY <4>1, <1>4, <2>1 DEF From
        <5>2. QED
          BY <5>1, <2>1, <2>4 DEF PaddingIn
      <4>2. CASE f.version = 0
        <5>1. r.randomPadding = TRUE /\ q.randomPadding = TRUE
          BY <4>2, <1>4, <2>1, <2>4 DEF From
        <5>2. QED
          BY <5>1
      <4>3. QED
        BY <4>1, <4>2, <1>4 DEF Typed
    <3>2. QED
      BY <3>1, <2>2 DEF Padding
  <2>5. QED
    BY <2>3, <2>4
<1>6. InTime(e, g)
  <2>1. SUFFICES ASSUME f.keepAlive <= 25, f.jitter <= 10
                 PROVE  Longest(r) < KeepAliveTimeout(Shortest(q))
    BY <1>3 DEF InTime
  <2>2. r.keepAlive <= 25 /\ r.jitter <= 10
    BY <1>4, <2>1 DEF From
  <2>3. r.keepAlive \in Nat /\ r.jitter \in Nat /\ q.keepAlive \in Nat /\ q.jitter \in Nat
    BY <1>4 DEF Typed
  <2>4. Longest(r) < 30000
    BY <2>2, <2>3 DEF Longest, AtLeast
  <2>5. Shortest(q) \in Int
    BY <2>3 DEF Shortest, AtLeast
  <2>6. KeepAliveTimeout(Shortest(q)) \in Int /\ KeepAliveTimeout(Shortest(q)) >= 30000
    BY <2>5 DEF KeepAliveTimeout, AtLeast
  <2>7. Longest(r) \in Int
    BY <2>3 DEF Longest, AtLeast
  <2>8. QED
    BY <2>4, <2>6, <2>7
<1>7. BuffersFit(e)
  BY <1>3, <1>4 DEF BuffersFit, SmuxAccepts, From, FitFrom
<1>8. SameVersion(e, g)
  BY <1>3, <1>4 DEF SameVersion, From
<1>9. QED
  BY <1>5, <1>6, <1>7, <1>8

-----------------------------------------------------------------------------
(* A file of the current version is never rewritten                        *)

\* EditsApply, for an end whose file is of the current version: no forward section
\* made from older mappings gets into such a file.
CurrentEditsApply ==
  \A e \in Ends :
    pc[e] = "up" /\ first[e] # {} /\ asked[e].version = CurrentConfigVersion
      => run[e].forward = asked[e].maps

Untampered(e) ==
  asked[e].version = CurrentConfigVersion =>
    /\ disk[e] = asked[e] /\ asked[e].forward = {}
    /\ pc[e] \notin {"save", "write"}
    /\ pc[e] \in {"loaded", "up"} /\ first[e] # {} => run[e].forward = asked[e].maps

Currents == \A e \in Ends : Untampered(e)

LEMMA InitCurrents == Init => Currents
<1> SUFFICES ASSUME Init, NEW e \in Ends PROVE Untampered(e)
  BY DEF Currents
<1>1. disk[e] \in Files[e] /\ asked = disk
  BY DEF Init
<1>2. disk[e].forward = {}
  BY <1>1, FilesAssumption DEF Written
<1>3. pc[e] = "down"
  BY DEF Init
<1>4. QED
  BY <1>1, <1>2, <1>3 DEF Untampered

LEMMA CurrentsStep == Settled /\ Currents /\ [Next]_vars => Currents'
<1> SUFFICES ASSUME Settled, Currents, [Next]_vars PROVE Currents'
  OBVIOUS
<1>d. DOMAIN disk = Ends /\ DOMAIN run = Ends /\ DOMAIN pc = Ends /\ DOMAIN asked = Ends
      /\ DOMAIN first = Ends
  BY DEF Settled, Shape
<1>o. ASSUME NEW e \in Ends, Untampered(e)',
             \A g \in Ends : g # e =>
               /\ disk'[g] = disk[g] /\ run'[g] = run[g] /\ pc'[g] = pc[g]
               /\ asked'[g] = asked[g] /\ first'[g] = first[g]
      PROVE  Currents'
  <2>1. ASSUME NEW g \in Ends, g # e PROVE Untampered(g)'
    <3>1. Untampered(g)
      BY DEF Currents
    <3>2. QED
      BY <1>o, <2>1, <3>1 DEF Untampered
  <2>2. QED
    BY <1>o, <2>1 DEF Currents
<1>1. CASE UNCHANGED vars
  BY <1>1 DEF vars, Currents, Untampered
<1>2. ASSUME NEW e \in Ends, Load(e) PROVE Currents'
  <2>1. PICK c : c = LoadConfig(disk[e])
    OBVIOUS
  <2>2. PICK s, at : /\ s = (IF first[e] = {} THEN {c} ELSE first[e])
                     /\ at = (IF disk[e].version < CurrentConfigVersion THEN "save" ELSE "loaded")
    OBVIOUS
  <2>3. /\ run' = [run EXCEPT ![e] = c] /\ first' = [first EXCEPT ![e] = s]
        /\ pc' = [pc EXCEPT ![e] = at] /\ disk' = disk /\ asked' = asked
    BY <1>2, <2>1, <2>2 DEF Load, Goto
  <2>4. run'[e] = c /\ pc'[e] = at
    BY <1>d, <2>3
  <2>5. \A g \in Ends : g # e => run'[g] = run[g] /\ pc'[g] = pc[g] /\ first'[g] = first[g]
    BY <1>d, <2>3
  <2>6. SUFFICES ASSUME asked[e].version = CurrentConfigVersion
                 PROVE  at = "loaded" /\ c.forward = asked[e].maps /\ disk[e] = asked[e]
                        /\ asked[e].forward = {}
    BY <1>o, <2>3, <2>4, <2>5 DEF Untampered
  <2>7. disk[e] = asked[e] /\ asked[e].forward = {}
    BY <2>6 DEF Currents, Untampered
  <2>8. at = "loaded"
    BY <2>2, <2>6, <2>7 DEF CurrentConfigVersion
  <2>9. Rec(disk[e]) /\ disk[e].version \in {0, 2}
    BY FileIs DEF Settled, Shape, Typed
  <2>10. Loaded(c, disk[e])
    BY <2>1, <2>9, LoadOf
  <2>11. QED
    BY <2>7, <2>8, <2>10 DEF Loaded
<1>3. ASSUME NEW e \in Ends, \/ Truncate(e) \/ OpenFails(e) \/ Write(e) \/ WriteFails(e)
                             \/ Stop(e) /\ pc[e] = "write"
      PROVE  Currents'
  <2>1. pc[e] \in {"save", "write"} /\ asked' = asked
    BY <1>3 DEF Truncate, OpenFails, Write, WriteFails, Stop
  <2>2. asked[e].version # CurrentConfigVersion
    BY <2>1 DEF Currents, Untampered
  <2>3. Untampered(e)'
    BY <2>1, <2>2 DEF Untampered
  <2>4. \A g \in Ends : g # e => disk'[g] = disk[g] /\ pc'[g] = pc[g]
    BY <1>3, <1>d DEF Truncate, OpenFails, Write, WriteFails, Stop, CutOff, Goto
  <2>5. run' = run /\ first' = first
    BY <1>3 DEF Truncate, OpenFails, Write, WriteFails, Stop
  <2>6. QED
    BY <1>o, <2>1, <2>3, <2>4, <2>5
<1>4. ASSUME NEW e \in Ends, Start(e) \/ (Stop(e) /\ pc[e] # "write") PROVE Currents'
  <2>1. UNCHANGED <<disk, run, asked, first>>
    BY <1>4 DEF Start, Stop
  <2>2. PICK to : /\ pc' = [pc EXCEPT ![e] = to]
                  /\ to = "down" \/ (to = "up" /\ pc[e] = "loaded")
    <3>1. CASE Start(e)
      <4>1. PICK to : to = (IF run[e].mode = "" THEN "down" ELSE "up")
        OBVIOUS
      <4>2. pc' = [pc EXCEPT ![e] = to] /\ pc[e] = "loaded"
        BY <3>1, <4>1 DEF Start, Goto
      <4>3. QED
        BY <4>1, <4>2
    <3>2. CASE Stop(e)
      BY <3>2 DEF Stop, Goto
    <3>3. QED
      BY <1>4, <3>1, <3>2
  <2>3. pc'[e] = to /\ \A g \in Ends : g # e => pc'[g] = pc[g]
    BY <1>d, <2>2
  <2>4. Untampered(e)'
    BY <2>1, <2>2, <2>3 DEF Currents, Untampered
  <2>5. QED
    BY <1>o, <2>1, <2>3, <2>4
<1>5. ASSUME NEW e \in Ends, Edit(e) PROVE Currents'
  <2>1. PICK p \in Ports :
          /\ disk' = [disk EXCEPT ![e].maps = @ \cup {p}]
          /\ asked' = [asked EXCEPT ![e].maps = @ \cup {p}]
    BY <1>5 DEF Edit
  <2>2. first' = [first EXCEPT ![e] = {}] /\ run' = run /\ pc' = pc
    BY <1>5 DEF Edit
  <2>3. /\ disk'[e] = [disk[e] EXCEPT !.maps = disk[e].maps \cup {p}]
        /\ asked'[e] = [asked[e] EXCEPT !.maps = asked[e].maps \cup {p}]
        /\ first'[e] = {}
    BY <1>d, <2>1, <2>2
  <2>4. \A g \in Ends : g # e => /\ disk'[g] = disk[g] /\ asked'[g] = asked[g]
                                /\ first'[g] = first[g]
    BY <1>d, <2>1, <2>2
  <2>5. asked'[e].version = asked[e].version /\ asked'[e].forward = asked[e].forward
    <3>1. asked[e] \in File
      BY DEF Settled, Shape
    <3>2. Same(asked'[e], asked[e], {"maps"})
      BY <2>3, <3>1, MapsOf
    <3>3. QED
      BY <3>2 DEF Same, Keys
  <2>6. Untampered(e)'
    BY <2>2, <2>3, <2>5 DEF Currents, Untampered
  <2>7. QED
    BY <1>o, <2>2, <2>4, <2>6
<1>6. ASSUME NEW e \in Ends, LoadFails(e) PROVE Currents'
  BY <1>1, <1>6 DEF LoadFails
<1>7. QED
  BY <1>1, <1>2, <1>3, <1>4, <1>5, <1>6 DEF Next

LEMMA CurrentsApply == Currents => CurrentEditsApply
BY DEF Currents, Untampered, CurrentEditsApply

-----------------------------------------------------------------------------
(* The theorems                                                            *)

\* Whatever a file lists or leaves out and wherever the migration was interrupted, an
\* end that is up has settings of the current version, and none that smux or the pool
\* would take for zero.
THEOREM TypeCorrect == Spec => []TypeOK
BY SettledAlways, SettledTypes, PTL

\* LoadConfig goes through its own output at the next start: the settings are those of
\* the first start, unless the save was cut off, but for three profiles, which migration
\* and applyProfile set differently, and for a session timeout of 15 seconds under
\* advanced:, which migration and applyBaseDefaults do.
THEOREM FirstLikeLaterAlways == Spec => []FirstLikeLater
BY SettledAlways, SettledAlike, PTL

\* Two users who ask for the same padding and version of smux get them, no keep-alive
\* comes too late for the other end, and smux accepts the buffers, at every start of
\* either end before and after its migration, unless its file was cut off.
THEOREM EndsAgreeAlways == Spec => []EndsAgree
BY SettledAlways, SettledAgrees, PTL

\* A mapping that a user adds to a file of the current version is served after the next
\* start: what loses it in a file of the old version is the migration alone.
THEOREM CurrentEditsApplyAlways == Spec => []CurrentEditsApply
<1>1. Settled /\ Currents /\ [Next]_vars => (Settled /\ Currents)'
  BY SettledStep, CurrentsStep
<1>2. QED
  BY <1>1, InitSettled, InitCurrents, CurrentsApply, PTL DEF Spec
=============================================================================
