------------------------------ MODULE RawDial ------------------------------
(***************************************************************************)
(* DialFragmented of the client (src/tls_fragment.go) and dialRawTCP below *)
(* it (src/tls_fragment_linux.go), which work with raw descriptors while   *)
(* other goroutines open and close theirs.  A descriptor is a number; the  *)
(* table of the process says which file is behind it, and Close closes     *)
(* whatever is behind a number by then.                                    *)
(***************************************************************************)
EXTENDS Integers, FiniteSets

CONSTANTS
  Dialers,  \* pool workers that dial with fragmentation
  Others,   \* goroutines with a descriptor of the runtime's: users, targets
  NFds,     \* RLIMIT_NOFILE, less what stays open
  None

ASSUME ProcsAssumption == Dialers \cap Others = {}
ASSUME NFdsAssumption == NFds \in Nat \ {0}
ASSUME NoneAssumption == None \notin Nat

Fds == 0..(NFds - 1)

VARIABLES
  table,  \* the file behind each number, named by who opened it and what for
  pc,     \* where each dialer is
  fd,     \* fd, the socket, in dialRawTCP
  epfd,   \* epfd in waitConnect
  conn,   \* the descriptor of the net.Conn a goroutine has
  failed  \* net.FileConn has returned an error in this dial

vars == <<table, pc, fd, epfd, conn, failed>>

Procs == Dialers \cup Others
Files == (Dialers \X {"socket", "epoll"}) \cup (Procs \X {"conn"})

ASSUME NoneIsNoFile == None \notin Files

Free == {f \in Fds : table[f] = None}

Init ==
  /\ table = [f \in Fds |-> None]
  /\ pc = [d \in Dialers |-> "socket"]
  /\ fd = [d \in Dialers |-> None]
  /\ epfd = [d \in Dialers |-> None]
  /\ conn = [p \in Procs |-> None]
  /\ failed = [d \in Dialers |-> FALSE]

Goto(d, to) == pc' = [pc EXCEPT ![d] = to]

\* The kernel gives the lowest number that is free.
Opens(f, file) ==
  /\ f \in Free
  /\ \A g \in Free : f <= g
  /\ table' = [table EXCEPT ![f] = file]

Closes(f) == table' = [table EXCEPT ![f] = None]

-----------------------------------------------------------------------------
(* dialRawTCP                                                              *)

Socket(d) ==
  /\ pc[d] = "socket"
  /\ \E f \in Fds :
       /\ Opens(f, <<d, "socket">>)
       /\ fd' = [fd EXCEPT ![d] = f]
  /\ Goto(d, "connect")
  /\ UNCHANGED <<epfd, conn, failed>>

\* A name that does not resolve, an IPv6 address, or no descriptor left.
NoSocket(d) ==
  /\ pc[d] = "socket"
  /\ Goto(d, "fallback")
  /\ UNCHANGED <<table, fd, epfd, conn, failed>>

\* Connected at once, in progress, or refused.
Connect(d) ==
  /\ pc[d] = "connect"
  /\ \E to \in {"file", "epoll", "giveUp"} : Goto(d, to)
  /\ UNCHANGED <<table, fd, epfd, conn, failed>>

EpollCreate(d) ==
  /\ pc[d] = "epoll"
  /\ \E f \in Fds :
       /\ Opens(f, <<d, "epoll">>)
       /\ epfd' = [epfd EXCEPT ![d] = f]
  /\ Goto(d, "wait")
  /\ UNCHANGED <<fd, conn, failed>>

\* Mutant: the error is not looked at.
EpollCreateFail_Ignored(d) ==
  /\ pc[d] = "epoll"
  /\ Goto(d, "wait")
  /\ UNCHANGED <<table, fd, epfd, conn, failed>>

EpollCreateFail(d) ==
  /\ pc[d] = "epoll"
  /\ Goto(d, "giveUp")
  /\ UNCHANGED <<table, fd, epfd, conn, failed>>

\* Mutant: the deferred call closes the socket.
WaitConnect_ClosesSocket(d) ==
  /\ pc[d] = "wait"
  /\ Closes(fd[d])
  /\ epfd' = [epfd EXCEPT ![d] = None]
  /\ \E to \in {"file", "giveUp"} : Goto(d, to)
  /\ UNCHANGED <<fd, conn, failed>>

\* waitConnect returns: connected, or a timeout, a signal, an error of the
\* socket.  The deferred call closes epfd on every path.
WaitConnect(d) ==
  /\ pc[d] = "wait"
  /\ Closes(epfd[d])
  /\ epfd' = [epfd EXCEPT ![d] = None]
  /\ \E to \in {"file", "giveUp"} : Goto(d, to)
  /\ UNCHANGED <<fd, conn, failed>>

\* Mutant: the error path of waitConnect leaves the socket open.
GiveUp_Open(d) ==
  /\ pc[d] = "giveUp"
  /\ fd' = [fd EXCEPT ![d] = None]
  /\ Goto(d, "fallback")
  /\ UNCHANGED <<table, epfd, conn, failed>>

GiveUp(d) ==
  /\ pc[d] = "giveUp"
  /\ Closes(fd[d])
  /\ fd' = [fd EXCEPT ![d] = None]
  /\ Goto(d, "fallback")
  /\ UNCHANGED <<epfd, conn, failed>>

\* net.FileConn duplicates the descriptor.
FileConn(d) ==
  /\ pc[d] = "file"
  /\ \E f \in Fds :
       /\ Opens(f, <<d, "conn">>)
       /\ conn' = [conn EXCEPT ![d] = f]
  /\ Goto(d, "closeFile")
  /\ UNCHANGED <<fd, epfd, failed>>

\* For one, because no descriptor is left.
FileConnFail(d) ==
  /\ pc[d] = "file"
  /\ failed' = [failed EXCEPT ![d] = TRUE]
  /\ Goto(d, "closeFile")
  /\ UNCHANGED <<table, fd, epfd, conn>>

\* f.Close(), before the error is looked at.
CloseFile(d) ==
  /\ pc[d] = "closeFile"
  /\ Closes(fd[d])
  /\ IF failed[d]
       THEN Goto(d, "closeAgain") /\ UNCHANGED fd
       ELSE Goto(d, "done") /\ fd' = [fd EXCEPT ![d] = None]
  /\ UNCHANGED <<epfd, conn, failed>>

\* if err != nil { syscall.Close(fd) }, of the number that f.Close() has closed.
CloseAgain(d) ==
  /\ pc[d] = "closeAgain"
  /\ Closes(fd[d])
  /\ fd' = [fd EXCEPT ![d] = None]
  /\ failed' = [failed EXCEPT ![d] = FALSE]
  /\ Goto(d, "fallback")
  /\ UNCHANGED <<epfd, conn>>

-----------------------------------------------------------------------------
(* DialFragmented, and what becomes of the connection                      *)

Fallback(d) ==
  /\ pc[d] = "fallback"
  /\ \E f \in Fds :
       /\ Opens(f, <<d, "conn">>)
       /\ conn' = [conn EXCEPT ![d] = f]
  /\ Goto(d, "done")
  /\ UNCHANGED <<fd, epfd, failed>>

FallbackFail(d) ==
  /\ pc[d] = "fallback"
  /\ Goto(d, "socket")
  /\ UNCHANGED <<table, fd, epfd, conn, failed>>

\* The worker is done with the connection and dials again.
CloseConn(d) ==
  /\ pc[d] = "done"
  /\ Closes(conn[d])
  /\ conn' = [conn EXCEPT ![d] = None]
  /\ Goto(d, "socket")
  /\ UNCHANGED <<fd, epfd, failed>>

OtherOpen(p) ==
  /\ conn[p] = None
  /\ \E f \in Fds :
       /\ Opens(f, <<p, "conn">>)
       /\ conn' = [conn EXCEPT ![p] = f]
  /\ UNCHANGED <<pc, fd, epfd, failed>>

OtherClose(p) ==
  /\ conn[p] # None
  /\ Closes(conn[p])
  /\ conn' = [conn EXCEPT ![p] = None]
  /\ UNCHANGED <<pc, fd, epfd, failed>>

-----------------------------------------------------------------------------

DialRawTCP(d) ==
  \/ Socket(d) \/ NoSocket(d) \/ Connect(d)
  \/ EpollCreate(d) \/ EpollCreateFail(d) \/ WaitConnect(d) \/ GiveUp(d)
  \/ FileConn(d) \/ FileConnFail(d) \/ CloseFile(d) \/ CloseAgain(d)

DialFragmented(d) == DialRawTCP(d) \/ Fallback(d) \/ FallbackFail(d)

Next ==
  \/ \E d \in Dialers : DialFragmented(d) \/ CloseConn(d)
  \/ \E p \in Others : OtherOpen(p) \/ OtherClose(p)

Spec == Init /\ [][Next]_vars

-----------------------------------------------------------------------------

\* The types; a step that closes a descriptor has one to close.
TypeOK ==
  /\ table \in [Fds -> Files \cup {None}]
  /\ pc \in [Dialers -> {"socket", "connect", "epoll", "wait", "giveUp", "file",
                         "closeFile", "closeAgain", "fallback", "done"}]
  /\ fd \in [Dialers -> Fds \cup {None}]
  /\ epfd \in [Dialers -> Fds \cup {None}]
  /\ conn \in [Procs -> Fds \cup {None}]
  /\ failed \in [Dialers -> BOOLEAN]
  /\ \A d \in Dialers :
       /\ fd[d] # None <=> pc[d] \notin {"socket", "fallback", "done"}
       /\ epfd[d] # None <=> pc[d] = "wait"
       /\ failed[d] => pc[d] \in {"closeFile", "closeAgain"}
       /\ pc[d] = "closeAgain" => failed[d]
       /\ conn[d] # None <=> pc[d] = "done" \/ (pc[d] = "closeFile" /\ ~failed[d])

\* Who has which number: f.Close() has given fd back.
Has(p, use, f) ==
  CASE use = "socket" -> fd[p] = f /\ pc[p] # "closeAgain"
    [] use = "epoll" -> epfd[p] = f
    [] use = "conn" -> conn[p] = f

\* Every file that is open is in the hands of the goroutine that opened it: no
\* path through connect, epoll, FileConn and the fallback leaves one behind.
NoDescriptorLeak ==
  \A f \in Fds : table[f] # None => Has(table[f][1], table[f][2], f)

\* The converse: what a goroutine has is open and is its own.
OwnsItsDescriptors ==
  \A f \in Fds, x \in Files : Has(x[1], x[2], f) => table[f] = x

\* It is lost by the second close after a failed FileConn and in no other way:
\* timeouts, refusals and a full table on the way there do no harm.
FirstTheft ==
  [][OwnsItsDescriptors /\ ~OwnsItsDescriptors'
       => \E d \in Dialers : pc[d] = "closeAgain" /\ table[fd[d]] # None]_vars
=============================================================================
