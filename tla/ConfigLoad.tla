----------------------------- MODULE ConfigLoad -----------------------------
(***************************************************************************)
(* The configuration file of each end and the settings the end runs with   *)
(* (src/config.go): LoadConfig's pipeline of defaults, profile, aliases    *)
(* and migration, the migration's rewriting of the file, and what the two  *)
(* ends of a tunnel need to have in common.  A file is a record of the     *)
(* fields that the steps of the pipeline overwrite for each other and of   *)
(* those both ends must agree about; 0, "" and {} stand for a key that is  *)
(* not there.  Buffers are in KB, times in seconds.                        *)
(***************************************************************************)
EXTENDS Integers, Sequences, FiniteSets

CONSTANTS
  Ends,     \* the machines, named by their mode
  Files,    \* the files a user of each end may have written
  Ports,    \* the mappings a user may add
  Key,      \* the pre-shared key
  Cuts,     \* the keys that may be left of a file cut off (bound)
  MaxEdits  \* edits of a file (bound)

Modes == {"server", "client", ""}
Profiles == {"", "balanced", "speed", "aggressive", "gaming", "latency",
             "streaming", "lowcpu", "cpu-efficient"}

File == [version : {0, 2}, mode : Modes, psk : {"", Key}, profile : Profiles,
         keepAlive : Nat, jitter : Nat, maxRecv : Nat, maxStream : Nat,
         randomPadding : BOOLEAN, obfuscation : BOOLEAN, obfs : BOOLEAN,
         maps : SUBSET Ports, forward : SUBSET Ports, pool : Nat,
         smux : Nat, timeout : Nat, advTimeout : Nat]

\* The order in which yaml.Marshal writes the keys.
Order == <<"version", "mode", "psk", "profile", "maps", "pool", "keepAlive", "maxRecv",
           "maxStream", "smux", "advTimeout", "obfuscation", "randomPadding", "jitter",
           "forward", "obfs", "timeout">>

\* A file written for the program by hand or by the installer.
Written(f) == f.mode # "" /\ f.psk = Key /\ f.forward = {} /\ ~f.obfs

ASSUME EndsAssumption == Ends \subseteq {"server", "client"}
ASSUME FilesAssumption ==
  \A e \in Ends : \A f \in Files[e] : f \in File /\ Written(f) /\ f.mode = e
ASSUME KeyAssumption == Key # ""
ASSUME EditsAssumption == MaxEdits \in Nat
\* Disks are written by the block: the first has the version, the mode and the key.
ASSUME CutsAssumption == Cuts \subseteq 3..16

VARIABLES
  disk,   \* the file of each end
  text,   \* whether it is all there, cut off, or no YAML
  run,    \* what LoadConfig has made of it
  pc,     \* "down", or where main is
  asked,  \* the file as its user wrote it
  first,  \* the settings of the first start since, or {}
  edits   \* edits so far

vars == <<disk, text, run, pc, asked, first, edits>>

-----------------------------------------------------------------------------
(* LoadConfig                                                              *)

CurrentConfigVersion == 2

\* What yaml.Unmarshal makes of a file that os.WriteFile has only truncated.
EmptyFile ==
  [version |-> 0, mode |-> "", psk |-> "", profile |-> "",
   keepAlive |-> 0, jitter |-> 0, maxRecv |-> 0, maxStream |-> 0,
   randomPadding |-> FALSE, obfuscation |-> FALSE, obfs |-> FALSE,
   maps |-> {}, forward |-> {}, pool |-> 0, smux |-> 0, timeout |-> 0, advTimeout |-> 0]

OrElse(n, default) == IF n <= 0 THEN default ELSE n
AtLeast(n, least) == IF n < least THEN least ELSE n

ApplyBaseDefaults(c) ==
  [c EXCEPT !.profile = IF @ = "" THEN "balanced" ELSE @,
            !.keepAlive = OrElse(@, 2),
            !.jitter = OrElse(@, 2),
            !.maxRecv = OrElse(@, 4096),
            !.maxStream = OrElse(@, 4096),
            !.smux = OrElse(@, 2),
            !.timeout = IF c.advTimeout > 0 THEN c.advTimeout ELSE OrElse(@, 30)]

Gaming == {"gaming", "latency"}
LowCpu == {"lowcpu", "cpu-efficient"}

ApplyProfile(c) ==
  CASE c.profile \in {"speed", "aggressive"} ->
         [c EXCEPT !.pool = AtLeast(@, 4)]
    [] c.profile \in Gaming ->
         [c EXCEPT !.keepAlive = 1, !.randomPadding = FALSE, !.pool = AtLeast(@, 6)]
    [] c.profile = "streaming" ->
         [c EXCEPT !.maxRecv = 2048, !.maxStream = 2048, !.pool = AtLeast(@, 4)]
    [] c.profile \in LowCpu ->
         [c EXCEPT !.keepAlive = 5, !.maxRecv = 512, !.maxStream = 512,
                   !.pool = IF @ \in {1, 2} THEN @ ELSE 2]
    [] OTHER -> [c EXCEPT !.pool = OrElse(@, 4)]

ConvertMapsToForward(c) ==
  IF c.forward = {} THEN [c EXCEPT !.forward = c.maps] ELSE c

SyncAliases(c) == [c EXCEPT !.obfs = @ \/ c.obfuscation]

\* Mutant: so does 2 MB, which the streaming profile sets.
Buffer_Streaming(n) == IF n \in {512, 1024, 2048} THEN 4096 ELSE n

\* The old defaults of 512 KB and 1 MB become the new one.
Buffer(n) == IF n \in {512, 1024} THEN 4096 ELSE n

\* Mutant: the version is left as it was.
MigrateConfig_OldVersion(c) ==
  IF c.version >= CurrentConfigVersion THEN c
  ELSE [c EXCEPT !.maxRecv = Buffer(@),
                 !.maxStream = Buffer(@),
                 !.keepAlive = IF @ = 1 /\ c.profile # "gaming" THEN 2 ELSE @,
                 !.timeout = IF @ = 15 THEN 30 ELSE @,
                 !.randomPadding = TRUE]

MigrateConfig(c) ==
  IF c.version >= CurrentConfigVersion THEN c
  ELSE [c EXCEPT !.version = CurrentConfigVersion,
                 !.maxRecv = Buffer(@),
                 !.maxStream = Buffer(@),
                 !.keepAlive = IF @ = 1 /\ c.profile # "gaming" THEN 2 ELSE @,
                 !.timeout = IF @ = 15 THEN 30 ELSE @,
                 !.randomPadding = TRUE]

LoadConfig(c) ==
  MigrateConfig(SyncAliases(ConvertMapsToForward(ApplyProfile(ApplyBaseDefaults(c)))))

-----------------------------------------------------------------------------
(* What EncryptedConn and buildSmuxConfig make of the settings             *)

\* The padding that Write adds and Read takes off.
Padding(c) ==
  IF c.obfs THEN "obfs" ELSE IF c.randomPadding THEN "stealth" ELSE "none"

\* In ms: the keep-alive interval has a jitter of half of what is configured to
\* either side, and a floor; the timeout has one of its own.
Longest(c) == AtLeast(1000 * c.keepAlive + 500 * c.jitter - 1, 500)
Shortest(c) == AtLeast(1000 * c.keepAlive - 500 * c.jitter, 500)

\* Mutant: the timeout has no floor.
KeepAliveTimeout_NoFloor(interval) == 15 * interval

KeepAliveTimeout(interval) == AtLeast(15 * interval, 30000)

\* smux.VerifyConfig
SmuxAccepts(c) == c.smux \in {1, 2} /\ c.maxStream <= c.maxRecv

-----------------------------------------------------------------------------

Init ==
  /\ disk \in {d \in [Ends -> UNION {Files[e] : e \in Ends}] :
                 \A e \in Ends : d[e] \in Files[e]}
  /\ text = [e \in Ends |-> "whole"]
  /\ run = [e \in Ends |-> EmptyFile]
  /\ pc = [e \in Ends |-> "down"]
  /\ asked = disk
  /\ first = [e \in Ends |-> {}]
  /\ edits = [e \in Ends |-> 0]

Goto(e, to) == pc' = [pc EXCEPT ![e] = to]

\* LoadConfig up to SaveConfig: the file is read and gone through.
Load(e) ==
  LET c == LoadConfig(disk[e]) IN
  /\ pc[e] = "down"
  /\ text[e] # "garbled"
  /\ run' = [run EXCEPT ![e] = c]
  /\ first' = [first EXCEPT ![e] = IF @ = {} THEN {c} ELSE @]
  /\ Goto(e, IF disk[e].version < CurrentConfigVersion THEN "save" ELSE "loaded")
  /\ UNCHANGED <<disk, text, asked, edits>>

\* yaml.Unmarshal returns an error and log.Fatalf ends the process.
LoadFails(e) ==
  /\ pc[e] = "down"
  /\ text[e] = "garbled"
  /\ UNCHANGED vars

\* os.WriteFile opens the file, which truncates it, or fails to.
Truncate(e) ==
  /\ pc[e] = "save"
  /\ disk' = [disk EXCEPT ![e] = EmptyFile]
  /\ Goto(e, "write")
  /\ UNCHANGED <<text, run, asked, first, edits>>

OpenFails(e) ==
  /\ pc[e] = "save"
  /\ Goto(e, "loaded")
  /\ UNCHANGED <<disk, text, run, asked, first, edits>>

Write(e) ==
  /\ pc[e] = "write"
  /\ disk' = [disk EXCEPT ![e] = run[e]]
  /\ Goto(e, "loaded")
  /\ UNCHANGED <<text, run, asked, first, edits>>

\* The keys a file begins with.
Beginning(c, n) ==
  [x \in DOMAIN c |-> IF \E i \in 1..n : Order[i] = x THEN c[x] ELSE EmptyFile[x]]

\* What is left of a write that did not come to its end: nothing, a file that is no
\* YAML, or the first keys of what LoadConfig made.  A key whose value is cut short
\* counts as lost: what is claimed of such a file is true of any value.
CutOff(e) ==
  \/ UNCHANGED <<disk, text>>
  \/ /\ disk' = [disk EXCEPT ![e] = EmptyFile]
     /\ text' = [text EXCEPT ![e] = "garbled"]
  \/ \E n \in Cuts :
       /\ disk' = [disk EXCEPT ![e] = Beginning(run[e], n)]
       /\ text' = [text EXCEPT ![e] = "cut"]

\* No space is left: a warning, and the program goes on.
WriteFails(e) ==
  /\ pc[e] = "write"
  /\ CutOff(e)
  /\ Goto(e, "loaded")
  /\ UNCHANGED <<run, asked, first, edits>>

\* Mutant: a mode that is not there is the server's.
Start_Default(e) ==
  /\ pc[e] = "loaded"
  /\ Goto(e, "up")
  /\ UNCHANGED <<disk, text, run, asked, first, edits>>

\* main: the server or the client starts, or log.Fatalf ends the process.
Start(e) ==
  /\ pc[e] = "loaded"
  /\ Goto(e, IF run[e].mode = "" THEN "down" ELSE "up")
  /\ UNCHANGED <<disk, text, run, asked, first, edits>>

\* A crash, a reboot or systemctl stop, at any point.
Stop(e) ==
  /\ pc[e] # "down"
  /\ IF pc[e] = "write" THEN CutOff(e) ELSE UNCHANGED <<disk, text>>
  /\ Goto(e, "down")
  /\ UNCHANGED <<run, asked, first, edits>>

\* The user adds a mapping to maps: in the file.
Edit(e) ==
  /\ edits[e] < MaxEdits
  /\ pc[e] \in {"up", "down"}
  /\ disk[e].mode # ""
  /\ \E p \in Ports \ disk[e].maps :
       /\ disk' = [disk EXCEPT ![e].maps = @ \cup {p}]
       /\ asked' = [asked EXCEPT ![e].maps = @ \cup {p}]
  /\ first' = [first EXCEPT ![e] = {}]
  /\ edits' = [edits EXCEPT ![e] = @ + 1]
  /\ UNCHANGED <<text, run, pc>>

Next ==
  \E e \in Ends :
    \/ Load(e) \/ LoadFails(e) \/ Truncate(e) \/ OpenFails(e) \/ Write(e)
    \/ WriteFails(e) \/ Start(e) \/ Stop(e) \/ Edit(e)

Spec == Init /\ [][Next]_vars

-----------------------------------------------------------------------------

\* The types; whatever its file lists or leaves out, and wherever it was cut off, an
\* end that is up has settings of the current version without a zero among them.
TypeOK ==
  /\ disk \in [Ends -> File]
  /\ text \in [Ends -> {"whole", "cut", "garbled"}]
  /\ run \in [Ends -> File]
  /\ pc \in [Ends -> {"down", "save", "write", "loaded", "up"}]
  /\ asked \in [Ends -> File]
  /\ \A e \in Ends : first[e] \subseteq File /\ Cardinality(first[e]) <= 1
  /\ edits \in [Ends -> 0..MaxEdits]
  /\ \A e \in Ends : pc[e] = "up" =>
       /\ run[e].version = CurrentConfigVersion
       /\ \A x \in {"keepAlive", "jitter", "maxRecv", "maxStream", "pool", "smux", "timeout"} :
            run[e][x] > 0

Fields == DOMAIN EmptyFile

\* Settings that migrateConfig changes after applyProfile or applyBaseDefaults has set
\* them, so that those change them back at the next start.
Wavers(f) ==
  IF f.version = CurrentConfigVersion THEN {}
  ELSE (IF f.advTimeout = 15 THEN {"timeout"} ELSE {})
         \cup CASE f.profile = "gaming" -> {"randomPadding"}
                [] f.profile = "latency" -> {"randomPadding", "keepAlive"}
                [] f.profile \in LowCpu -> {"maxRecv", "maxStream"}
                [] OTHER -> {}

\* An end that starts again from a file its user has not touched since runs as it
\* did the first time, whether the migration was saved or not, unless the save was
\* cut off: but for what the gaming, latency and lowcpu profiles and a session timeout
\* of 15 seconds under advanced: set, in a file of the old version.
FirstLikeLater ==
  \A e \in Ends : pc[e] = "up" /\ text[e] # "cut" =>
    \A c \in first[e], x \in Fields : run[e][x] # c[x] => x \in Wavers(asked[e])

\* An end that is up has the mode and the key its user wrote: a file that was lost
\* between the truncation and the write, or cut off by either's failure, does not start
\* an end without a key.
OwnSettings ==
  \A e \in Ends : pc[e] = "up" =>
    run[e].mode = asked[e].mode /\ run[e].psk = asked[e].psk

\* Users who ask for the same padding, in files of the same version, get it, if
\* neither or both chose a gaming profile, and then in a file of version 2; or if
\* they ask for obfuscation, which comes before it.
SamePadding(e, f) ==
  asked[e].version = asked[f].version =>
    \/ asked[e].obfuscation # asked[f].obfuscation
    \/ asked[e].randomPadding # asked[f].randomPadding
    \/ /\ ~asked[e].obfuscation
       /\ \/ (asked[e].profile \in Gaming) # (asked[f].profile \in Gaming)
          \/ asked[e].profile \in Gaming /\ asked[e].version = 0
    \/ Padding(run[e]) = Padding(run[f])

\* No end takes the other for dead because its keep-alives are slow, as long as its
\* user asks for no more than 25 seconds and a jitter of 10.
InTime(e, f) ==
  asked[e].keepAlive <= 25 /\ asked[e].jitter <= 10 =>
    Longest(run[e]) < KeepAliveTimeout(Shortest(run[f]))

\* smux accepts the version and the buffers if it would accept those of the file,
\* except that migration may raise a stream buffer of 512 KB or 1 MB to 4 MB and leave a
\* receive buffer that is larger than the one and smaller than the other.
BuffersFit(e) ==
  LET r == OrElse(asked[e].maxRecv, 4096)
      s == OrElse(asked[e].maxStream, 4096) IN
  /\ OrElse(asked[e].smux, 2) \in {1, 2}
  /\ s <= r
  /\ ~(asked[e].version = 0 /\ Buffer(s) # s /\ Buffer(r) = r /\ r < 4096)
  => SmuxAccepts(run[e])

\* Users who ask for the same version of smux, or one for what the other leaves out,
\* get it.
SameVersion(e, f) ==
  OrElse(asked[e].smux, 2) = OrElse(asked[f].smux, 2) => run[e].smux = run[f].smux

\* What File lists keeps no two ends that are up from having a session: they pad alike,
\* speak the same version of smux, neither times out the other, and smux accepts what
\* each has; in every profile, at every start before and after the migration of either,
\* but for the cases these four leave out and a file that was cut off.  (More has to
\* match, the key above all: that is the users' to see to.)
EndsAgree ==
  \A e, f \in {x \in Ends : pc[x] = "up" /\ text[x] # "cut"} :
    SamePadding(e, f) /\ SameVersion(e, f) /\ InTime(e, f) /\ BuffersFit(e)

\* setup.sh opens the file in an editor and asks "Restart service to apply?": an
\* end that has started since runs the mappings its file lists.
EditsApply ==
  \A e \in Ends : pc[e] = "up" /\ text[e] # "cut" /\ first[e] # {} => run[e].forward = asked[e].maps
=============================================================================
