---------------------------- MODULE StreamRelay ----------------------------
(***************************************************************************)
(* One smux stream from end to end (src/server.go, src/client.go).  Four   *)
(* nodes stand in a row and connection i joins node i - 1 to node i:       *)
(*                                                                         *)
(*   0 user --1-- 1 opener --2-- 2 acceptor --3-- 3 target                 *)
(*                                                                         *)
(* 1 and 3 are TCP connections, 2 is the stream.  The opener writes a tag  *)
(* and the target, the acceptor reads them under a deadline, dials, and    *)
(* then both relay.  kind says who they are:                               *)
(*   reverse  the server opens for a user, the client accepts              *)
(*   legacy   a v2.4 server opens, without a tag, and the client accepts   *)
(*   forward  the client's OpenStream, and the server's handleStream       *)
(*   fake     the server's fakeTrafficLoop, and the client drains          *)
(* OpenStream is exported and nothing in the repository calls it.  Its     *)
(* caller is external: here it relays what OpenStream gave it, the way the *)
(* repository's own openers do.                                            *)
(* A byte of payload stands for what one Read returns; the bytes are       *)
(* numbered, so that a lost or a doubled one shows.                        *)
(***************************************************************************)
EXTENDS Integers, Sequences, SequencesExt

CONSTANTS
  Kinds,    \* the kinds of stream to consider
  Target,   \* the bytes of the target
  MaxUp,    \* how much the user sends (bound)
  MaxDown,  \* how much the target sends (bound)
  Cap       \* how much a connection buffers beyond the header

ASSUME KindsAssumption == Kinds \subseteq {"reverse", "legacy", "forward", "fake"}
ASSUME TargetAssumption == Target \in Seq(0..255) /\ Len(Target) \in 1..255
ASSUME BoundsAssumption == MaxUp \in Nat /\ MaxDown \in Nat /\ Cap \in Nat \ {0}

StreamTypeForward == 1
StreamTypeReverse == 2
StreamTypeFake == 255
MaxTarget == 4096

Dirs == {"up", "down"}
Relays == {1, 2}
Pipes == Dirs \X (1..3)
Copiers == Relays \X Dirs

VARIABLES
  kind,
  q,        \* what each pipe carries or its reader has received and not read
  shut,     \* the pipes whose writer has ended: EOF follows what they carry
  deaf,     \* the pipes whose reader has closed
  link,     \* the socket below the session
  noticed,  \* the relays whose end of the session is closed
  pc,       \* the two goroutines that own the stream
  copier,   \* the two copiers of each relay: "off", "run" or "done"
  hand,     \* what a copier has read and not written, at most one byte
  head,     \* the bytes of the header the acceptor has read
  armed,    \* its read deadline is set
  dialed,   \* the target it dialed
  counted,  \* the stream counts in serverSession.streams
  sent,     \* what the user ("up") and the target ("down") have written
  got       \* what the target ("up") and the user ("down") have read

vars == <<kind, q, shut, deaf, link, noticed, pc, copier, hand, head, armed,
          dialed, counted, sent, got>>
pipes == <<q, shut, deaf>>
ends == <<sent, got>>
parse == <<head, armed, dialed>>

\* The pipe of connection i that leaves node n, and the one that enters it.
Out(n, i) == <<IF n < i THEN "up" ELSE "down", i>>
In(n, i) == <<IF n < i THEN "down" ELSE "up", i>>

\* Where a copier of relay n reads and writes.
Source(n, d) == <<d, IF d = "up" THEN n ELSE n + 1>>
Sink(n, d) == <<d, IF d = "up" THEN n + 1 ELSE n>>

Init ==
  /\ kind \in Kinds
  /\ q = [p \in Pipes |-> <<>>]
  /\ shut = {}
  /\ deaf = {}
  /\ link = "up"
  /\ noticed = {}
  /\ pc = <<"open", "none">>
  /\ copier = [c \in Copiers |-> "off"]
  /\ hand = [c \in Copiers |-> <<>>]
  /\ head = <<>>
  /\ armed = FALSE
  /\ dialed = <<>>
  /\ counted = FALSE
  /\ sent = [d \in Dirs |-> <<>>]
  /\ got = [d \in Dirs |-> <<>>]

Goto(n, to) == pc' = [pc EXCEPT ![n] = to]

\* Node n closes its end of connection i: its reads and writes fail from now on.
Close(n, i) ==
  /\ shut' = shut \cup {Out(n, i)}
  /\ deaf' = deaf \cup {In(n, i)}

StartCopiers(n) ==
  copier' = [c \in Copiers |-> IF c[1] = n THEN "run" ELSE copier[c]]

\* What is written to the stream on a socket that has failed is gone.
Put(p, bytes) ==
  q' = IF p[2] = 2 /\ link = "dead" THEN q ELSE [q EXCEPT ![p] = @ \o bytes]

\* A write of relay n to p fails: the end is closed, the session is, or the
\* other end has closed and said so.
WriteFails(n, p) == p \in shut \/ p \in deaf \/ (p[2] = 2 /\ n \in noticed)

WriteOpen(n, p) == p \notin shut /\ ~(p[2] = 2 /\ n \in noticed)

\* A read of relay n from p returns EOF or an error, when nothing is left.
ReadEnds(n, p) ==
  \/ p \in deaf
  \/ /\ q[p] = <<>>
     /\ \/ p \in shut /\ (p[2] = 2 => link = "up")
        \/ p[2] = 2 /\ n \in noticed

-----------------------------------------------------------------------------
(* The opener                                                              *)

\* openReverseStream and OpenStream on a session they found; for "fake" a tick
\* of fakeTrafficLoop.  The stream is not counted before it is open.
OpenStream ==
  /\ pc[1] = "open"
  /\ 1 \notin noticed
  /\ counted' = (kind = "reverse")
  /\ pc' = <<IF kind = "legacy" THEN "head" ELSE "tag",
             IF link = "up" THEN "syn" ELSE pc[2]>>
  /\ UNCHANGED <<kind, pipes, link, noticed, copier, hand, parse, ends>>

\* No session, or OpenStream failed: the user is sent away.  fakeTrafficLoop
\* returns at the first tick after the session closed.
OpenFail ==
  /\ pc[1] = "open"
  /\ kind = "fake" => 1 \in noticed
  /\ Goto(1, "gone")
  /\ IF kind = "fake" THEN UNCHANGED <<shut, deaf>> ELSE Close(1, 1)
  /\ UNCHANGED <<kind, q, link, noticed, copier, hand, parse, counted, ends>>

Tag == CASE kind = "reverse" -> StreamTypeReverse
         [] kind = "forward" -> StreamTypeForward
         [] kind = "fake" -> StreamTypeFake

WriteTag ==
  /\ pc[1] = "tag"
  /\ WriteOpen(1, <<"up", 2>>)
  /\ Put(<<"up", 2>>, <<Tag>>)
  /\ Goto(1, "head")
  /\ UNCHANGED <<kind, shut, deaf, link, noticed, copier, hand, parse, counted, ends>>

\* The length, in two bytes, and the target; a fake stream has random bytes.
Header ==
  IF kind = "fake" THEN <<StreamTypeReverse>>
  ELSE <<Len(Target) \div 256, Len(Target) % 256>> \o Target

WriteHeader ==
  /\ pc[1] = "head"
  /\ WriteOpen(1, <<"up", 2>>)
  /\ Put(<<"up", 2>>, Header)
  /\ IF kind = "fake" THEN Goto(1, "close") /\ UNCHANGED copier
                      ELSE Goto(1, "relay") /\ StartCopiers(1)
  /\ UNCHANGED <<kind, shut, deaf, link, noticed, hand, parse, counted, ends>>

\* Mutant: nothing is closed or uncounted after the error.
WriteFail_Forgets ==
  /\ pc[1] \in {"tag", "head"}
  /\ WriteFails(1, <<"up", 2>>)
  /\ Goto(1, "gone")
  /\ UNCHANGED <<kind, pipes, link, noticed, copier, hand, parse, counted, ends>>

\* openReverseStream closes the stream and returns.  OpenStream and sendFakeData
\* do not look at the error: the external caller of OpenStream has a stream and
\* no error, and relays on it.
WriteFail ==
  /\ pc[1] \in {"tag", "head"}
  /\ WriteFails(1, <<"up", 2>>)
  /\ CASE kind = "forward" -> Goto(1, "relay") /\ StartCopiers(1) /\ UNCHANGED <<shut, deaf>>
       [] kind = "fake" -> Goto(1, "close") /\ UNCHANGED <<shut, deaf, copier>>
       [] OTHER -> Goto(1, "leave") /\ Close(1, 2) /\ UNCHANGED copier
  /\ UNCHANGED <<kind, q, link, noticed, hand, parse, counted, ends>>

\* sendFakeData has slept.  The loop goes on; what it does with the next stream
\* is what it did with this one.
CloseFake ==
  /\ pc[1] = "close"
  /\ Close(1, 2)
  /\ Goto(1, "ticker")
  /\ UNCHANGED <<kind, q, link, noticed, copier, hand, parse, counted, ends>>

FakeLoopEnds ==
  /\ pc[1] = "ticker"
  /\ 1 \in noticed
  /\ Goto(1, "gone")
  /\ UNCHANGED <<kind, pipes, link, noticed, copier, hand, parse, counted, ends>>

-----------------------------------------------------------------------------
(* The acceptor, up to the relay                                           *)

Accept ==
  /\ pc[2] = "syn"
  /\ 2 \notin noticed
  /\ Goto(2, "tag")
  /\ armed' = TRUE
  /\ counted' = (counted \/ kind = "forward")
  /\ UNCHANGED <<kind, pipes, link, noticed, copier, hand, head, dialed, ends>>

\* The session closed before its accept loop came to the stream.
AcceptError ==
  /\ pc[2] = "syn"
  /\ 2 \in noticed
  /\ Goto(2, "gone")
  /\ UNCHANGED <<kind, pipes, link, noticed, copier, hand, parse, counted, ends>>

\* A return before the relay, with its deferred calls.
GiveUp ==
  /\ Goto(2, "gone")
  /\ Close(2, 2)
  /\ counted' = (counted /\ kind # "forward")

GoOn(state) ==
  /\ Goto(2, state)
  /\ UNCHANGED <<shut, deaf, counted>>

\* The next byte of the stream.
Take(b) ==
  /\ q[<<"up", 2>>] # <<>>
  /\ b = q[<<"up", 2>>][1]
  /\ q' = [q EXCEPT ![<<"up", 2>>] = Tail(@)]

\* The tags of the server's handleStream and of the client's
\* handleReverseStream: what follows them.
Route(b) ==
  CASE kind = "forward" -> IF b = StreamTypeForward THEN "len" ELSE "unknown"
    [] b = StreamTypeReverse -> "len"
    [] b = StreamTypeFake -> "drain"
    [] OTHER -> "legacy"

\* handleLegacyStream takes the tag for the first byte of the length.
ReadTag ==
  \E b \in 0..255 :
    /\ pc[2] = "tag"
    /\ Take(b)
    /\ head' = IF Route(b) = "legacy" THEN <<b>> ELSE <<>>
    /\ CASE Route(b) = "unknown" -> GiveUp
         [] Route(b) = "legacy" -> GoOn("len")
         [] OTHER -> GoOn(Route(b))
    /\ UNCHANGED <<kind, link, noticed, copier, hand, armed, dialed, ends>>

\* Mutant: the length counts the tag.
TargetLen_Tag(h) == 256 * h[1] + h[2] + 1

TargetLen(h) == 256 * h[1] + h[2]

ReadLen ==
  \E b \in 0..255 :
    /\ pc[2] = "len"
    /\ Take(b)
    /\ head' = Append(head, b)
    /\ IF Len(head') < 2 THEN GoOn("len")
       ELSE IF TargetLen(head') \in 1..MaxTarget THEN GoOn("target") ELSE GiveUp
    /\ UNCHANGED <<kind, link, noticed, copier, hand, armed, dialed, ends>>

\* Mutant: the deadline stays.
ReadTarget_Armed ==
  \E b \in 0..255 :
    /\ pc[2] = "target"
    /\ Take(b)
    /\ head' = Append(head, b)
    /\ IF Len(head') - 2 < TargetLen(head)
         THEN Goto(2, "target") /\ UNCHANGED dialed
         ELSE Goto(2, "dial") /\ dialed' = SubSeq(head', 3, Len(head'))
    /\ UNCHANGED <<kind, shut, deaf, link, noticed, copier, hand, armed, counted, ends>>

\* With the last byte of the target the deadline is taken away.
ReadTarget ==
  \E b \in 0..255 :
    /\ pc[2] = "target"
    /\ Take(b)
    /\ head' = Append(head, b)
    /\ IF Len(head') - 2 < TargetLen(head)
         THEN Goto(2, "target") /\ UNCHANGED <<armed, dialed>>
         ELSE /\ Goto(2, "dial")
              /\ armed' = FALSE
              /\ dialed' = SubSeq(head', 3, Len(head'))
    /\ UNCHANGED <<kind, shut, deaf, link, noticed, copier, hand, counted, ends>>

\* A read that waits ends when the deadline passes.
TimedOut(n, p) == n = 2 /\ p = <<"up", 2>> /\ armed /\ q[p] = <<>>

HeaderFail ==
  /\ pc[2] \in {"tag", "len", "target"}
  /\ ReadEnds(2, <<"up", 2>>) \/ TimedOut(2, <<"up", 2>>)
  /\ GiveUp
  /\ UNCHANGED <<kind, q, link, noticed, copier, hand, parse, ends>>

Drain ==
  /\ pc[2] = "drain"
  /\ \E b \in 0..255 : Take(b)
  /\ UNCHANGED <<kind, shut, deaf, link, noticed, pc, copier, hand, parse, counted, ends>>

DrainEnd ==
  /\ pc[2] = "drain"
  /\ ReadEnds(2, <<"up", 2>>) \/ TimedOut(2, <<"up", 2>>)
  /\ GiveUp
  /\ UNCHANGED <<kind, q, link, noticed, copier, hand, parse, ends>>

DialOk ==
  /\ pc[2] = "dial"
  /\ Goto(2, "relay")
  /\ StartCopiers(2)
  /\ UNCHANGED <<kind, pipes, link, noticed, hand, parse, counted, ends>>

DialFail ==
  /\ pc[2] = "dial"
  /\ GiveUp
  /\ UNCHANGED <<kind, q, link, noticed, copier, hand, parse, ends>>

-----------------------------------------------------------------------------
(* relay: two copiers and the goroutine that waits for the first of them   *)

Copy(c) == copier[c] = "run" /\ hand[c] = <<>>
Store(c) == copier[c] = "run" /\ hand[c] # <<>>

CopyRead(n, d) ==
  LET p == Source(n, d) IN
  /\ Copy(<<n, d>>)
  /\ p \notin deaf
  /\ q[p] # <<>>
  /\ hand' = [hand EXCEPT ![<<n, d>>] = <<q[p][1]>>]
  /\ q' = [q EXCEPT ![p] = Tail(@)]
  /\ UNCHANGED <<kind, shut, deaf, link, noticed, pc, copier, parse, counted, ends>>

CopyEnd(n, d) ==
  /\ Copy(<<n, d>>)
  /\ ReadEnds(n, Source(n, d)) \/ TimedOut(n, Source(n, d))
  /\ copier' = [copier EXCEPT ![<<n, d>>] = "done"]
  /\ UNCHANGED <<kind, pipes, link, noticed, pc, hand, parse, counted, ends>>

\* The stream's window takes the header besides.
Room(p) == Len(q[p]) < IF p = <<"up", 2>> THEN Len(Header) + 1 + Cap ELSE Cap

\* Mutant: the buffer is written again.
CopyWrite_Again(n, d) ==
  LET p == Sink(n, d) IN
  /\ Store(<<n, d>>)
  /\ WriteOpen(n, p)
  /\ Room(p)
  /\ Put(p, hand[<<n, d>>])
  /\ UNCHANGED <<kind, shut, deaf, link, noticed, pc, copier, hand, parse, counted, ends>>

CopyWrite(n, d) ==
  LET p == Sink(n, d) IN
  /\ Store(<<n, d>>)
  /\ WriteOpen(n, p)
  /\ Room(p)
  /\ Put(p, hand[<<n, d>>])
  /\ hand' = [hand EXCEPT ![<<n, d>>] = <<>>]
  /\ UNCHANGED <<kind, shut, deaf, link, noticed, pc, copier, parse, counted, ends>>

CopyFail(n, d) ==
  /\ Store(<<n, d>>)
  /\ WriteFails(n, Sink(n, d))
  /\ hand' = [hand EXCEPT ![<<n, d>>] = <<>>]
  /\ copier' = [copier EXCEPT ![<<n, d>>] = "done"]
  /\ UNCHANGED <<kind, pipes, link, noticed, pc, parse, counted, ends>>

\* a.Close(), after the first copier: the user at the opener, the stream at the
\* acceptor.
CloseA(n) ==
  /\ pc[n] = "relay"
  /\ \E d \in Dirs : copier[<<n, d>>] = "done"
  /\ Close(n, n)
  /\ Goto(n, "closeB")
  /\ UNCHANGED <<kind, q, link, noticed, copier, hand, parse, counted, ends>>

CloseB(n) ==
  /\ pc[n] = "closeB"
  /\ Close(n, n + 1)
  /\ Goto(n, "wait")
  /\ UNCHANGED <<kind, q, link, noticed, copier, hand, parse, counted, ends>>

\* Mutant: relay waits for one copier only.
Leave_First(n) ==
  /\ pc[n] \in {"wait", "leave"}
  /\ IF n = 1 THEN Close(1, 1) ELSE Close(2, 2)
  /\ counted' = (counted /\ kind # (IF n = 1 THEN "reverse" ELSE "forward"))
  /\ Goto(n, "gone")
  /\ UNCHANGED <<kind, q, link, noticed, copier, hand, parse, ends>>

\* The return of relay, or of openReverseStream with an error, and the deferred
\* calls: the server uncounts the stream, the opener closes the user.
Leave(n) ==
  /\ \/ pc[n] = "wait" /\ \A d \in Dirs : copier[<<n, d>>] = "done"
     \/ pc[n] = "leave"
  /\ IF n = 1 THEN Close(1, 1) ELSE Close(2, 2)
  /\ counted' = (counted /\ kind # (IF n = 1 THEN "reverse" ELSE "forward"))
  /\ Goto(n, "gone")
  /\ UNCHANGED <<kind, q, link, noticed, copier, hand, parse, ends>>

-----------------------------------------------------------------------------
(* The user, who is node 0 on connection 1, the target, who is node 3 on   *)
(* connection 3, and the network.                                          *)

Connected(n) == IF n = 0 THEN kind # "fake" ELSE copier[<<2, "up">>] # "off"
Peers == {<<0, 1>>, <<3, 3>>}

Send(n, i) ==
  LET d == Out(n, i)[1] IN
  /\ Connected(n)
  /\ Out(n, i) \notin shut
  /\ Room(Out(n, i))
  /\ Len(sent[d]) < IF n = 0 THEN MaxUp ELSE MaxDown
  /\ \E b \in {(10 * i + Len(sent[d])) % 256} :
       /\ q' = [q EXCEPT ![Out(n, i)] = Append(@, b)]
       /\ sent' = [sent EXCEPT ![d] = Append(@, b)]
  /\ UNCHANGED <<kind, shut, deaf, link, noticed, pc, copier, hand, parse, counted, got>>

Receive(n, i) ==
  LET d == In(n, i)[1] IN
  /\ Connected(n)
  /\ In(n, i) \notin deaf
  /\ q[In(n, i)] # <<>>
  /\ got' = [got EXCEPT ![d] = Append(@, q[In(n, i)][1])]
  /\ q' = [q EXCEPT ![In(n, i)] = Tail(@)]
  /\ UNCHANGED <<kind, shut, deaf, link, noticed, pc, copier, hand, parse, counted, sent>>

\* The end of what it has to say, with or without an ear for the answer.
Hangup(n, i) ==
  /\ Connected(n)
  /\ \/ Out(n, i) \notin shut /\ shut' = shut \cup {Out(n, i)} /\ UNCHANGED deaf
     \/ In(n, i) \notin deaf /\ Close(n, i)
  /\ UNCHANGED <<kind, q, link, noticed, pc, copier, hand, parse, counted, ends>>

\* What arrives at a closed end is thrown away, and TCP answers with a reset
\* that may overtake what this end sent before it closed.
Reset(n, i) ==
  /\ In(n, i) \in deaf
  /\ q[In(n, i)] # <<>>
  /\ \E k \in 0..Len(q[Out(n, i)]) :
       /\ i = 2 => k = Len(q[Out(n, i)])
       /\ q' = [q EXCEPT ![In(n, i)] = <<>>, ![Out(n, i)] = SubSeq(@, 1, k)]
  /\ UNCHANGED <<kind, shut, deaf, link, noticed, pc, copier, hand, parse, counted, ends>>

\* The socket of the session fails: what has not arrived is lost, the opening
\* of the stream too.
Break ==
  /\ link = "up"
  /\ link' = "dead"
  /\ \E j \in 0..Len(q[<<"up", 2>>]), k \in 0..Len(q[<<"down", 2>>]) :
       q' = [q EXCEPT ![<<"up", 2>>] = SubSeq(@, 1, j), ![<<"down", 2>>] = SubSeq(@, 1, k)]
  /\ \/ UNCHANGED pc
     \/ pc[2] = "syn" /\ Goto(2, "none")
  /\ UNCHANGED <<kind, shut, deaf, noticed, copier, hand, parse, counted, ends>>

\* An error of the socket, or keepalive, closes the session of one side.
Notice(n) ==
  /\ link = "dead"
  /\ n \notin noticed
  /\ noticed' = noticed \cup {n}
  /\ UNCHANGED <<kind, pipes, link, pc, copier, hand, parse, counted, ends>>

-----------------------------------------------------------------------------

OpenerStep ==
  \/ OpenStream \/ OpenFail \/ WriteTag \/ WriteHeader \/ WriteFail
  \/ CloseFake \/ FakeLoopEnds

AcceptorStep ==
  \/ Accept \/ AcceptError \/ ReadTag \/ ReadLen \/ ReadTarget \/ HeaderFail
  \/ Drain \/ DrainEnd \/ DialOk \/ DialFail

CopierStep(n, d) ==
  CopyRead(n, d) \/ CopyEnd(n, d) \/ CopyWrite(n, d) \/ CopyFail(n, d)

RelayStep(n) == CloseA(n) \/ CloseB(n) \/ Leave(n)

PeerStep(n, i) ==
  Send(n, i) \/ Receive(n, i) \/ Hangup(n, i)

Next ==
  \/ OpenerStep
  \/ AcceptorStep
  \/ \E n \in Relays : RelayStep(n) \/ Notice(n) \/ \E d \in Dirs : CopierStep(n, d)
  \/ \E p \in Peers : PeerStep(p[1], p[2])
  \/ \E i \in 1..3, n \in 0..3 : n \in {i - 1, i} /\ Reset(n, i)
  \/ Break

Spec == Init /\ [][Next]_vars

\* Goroutines run, tickers tick, deadlines pass, a dial ends, and a session on a
\* dead socket is closed by keepalive.
\* The user and the target need not close and need not send, but what has come
\* to them they read: a relay has no deadline and waits for that for ever.
Fairness ==
  /\ WF_vars(OpenerStep)
  /\ WF_vars(AcceptorStep)
  /\ \A n \in Relays :
       /\ WF_vars(RelayStep(n))
       /\ WF_vars(Notice(n))
       /\ \A d \in Dirs : WF_vars(CopierStep(n, d))
  /\ \A p \in Peers : WF_vars(Receive(p[1], p[2]))

FairSpec == Spec /\ Fairness

-----------------------------------------------------------------------------

TypeOK ==
  /\ kind \in Kinds
  /\ q \in [Pipes -> Seq(0..255)]
  /\ shut \subseteq Pipes
  /\ deaf \subseteq Pipes
  /\ link \in {"up", "dead"}
  /\ noticed \subseteq Relays
  /\ DOMAIN pc = Relays
  /\ pc[1] \in {"open", "tag", "head", "close", "ticker", "relay", "closeB",
                "wait", "leave", "gone"}
  /\ pc[2] \in {"none", "syn", "tag", "len", "target", "drain", "dial", "relay",
                "closeB", "wait", "gone"}
  /\ copier \in [Copiers -> {"off", "run", "done"}]
  /\ \A c \in Copiers : copier[c] = "run" => pc[c[1]] \in {"relay", "closeB", "wait"}
  /\ hand \in [Copiers -> Seq(0..255)]
  /\ head \in Seq(0..255)
  /\ armed \in BOOLEAN
  /\ dialed \in Seq(0..255)
  /\ counted \in BOOLEAN
  /\ sent \in [Dirs -> Seq(0..255)]
  /\ got \in [Dirs -> Seq(0..255)]

\* The target that is dialed is the target that was asked for, whichever of the
\* three ways to say it the opener used and however the bytes arrive; a fake
\* stream never leads to a dial.
DialsTarget == dialed # <<>> => kind # "fake" /\ dialed = Target

\* A connection that both ends keep open is not cut by the tunnel, however long
\* it is silent: only the end of the user, of the target or of the session ends
\* a relay.  The session ends with its socket, or when another user's failed
\* OpenStream evicts and closes it while it lives (handleReverseTCPConn); both
\* are link = "dead" here.
StaysOpen ==
  /\ link = "up"
  /\ pc[2] = "relay"
  /\ \A p \in Peers : Out(p[1], p[2]) \notin shut /\ In(p[1], p[2]) \notin deaf
  => pc[1] = "relay" /\ \A c \in Copiers : copier[c] = "run"

\* relay closes both connections at the first EOF.  Still nothing is cut off for
\* a reader that has not ended its own side and all of whose bytes have arrived:
\* when it comes to the EOF it has everything that was sent to it.
CompleteAtEof ==
  \A p \in Peers :
    LET d == In(p[1], p[2])[1]
        back == Out(p[1], p[2])[1]
    IN /\ link = "up"
       /\ In(p[1], p[2]) \in shut \ deaf
       /\ q[In(p[1], p[2])] = <<>>
       /\ Out(p[1], p[2]) \notin shut
       /\ got[back] = sent[back]
       => got[d] = sent[d]

\* In each direction the user and the target have one stream of bytes between
\* them, without the header, the drained bytes or anything twice.
Up == INSTANCE ByteStream
        WITH Bytes <- 0..255, sent <- sent["up"], got <- got["up"], ended <- FALSE
Down == INSTANCE ByteStream
          WITH Bytes <- 0..255, sent <- sent["down"], got <- got["down"], ended <- FALSE
ImplementsStreams == Up!Spec /\ Down!Spec

\* Once an end of the chain has ended, or the socket has failed, everything is
\* torn down: both goroutines return and the server no longer counts the stream.
\* The loop of the fake traffic lives exactly as long as its session.
Over ==
  \/ link = "dead"
  \/ \E n \in Relays : pc[n] \in {"gone", "ticker"}
  \/ <<"up", 1>> \in shut
  \/ <<"down", 3>> \in shut

TornDown ==
  /\ pc[1] = "gone" \/ (pc[1] = "ticker" /\ link = "up")
  /\ pc[2] \in {"none", "gone"}
  /\ ~counted

EndsTearDown == Over ~> TornDown
=============================================================================
