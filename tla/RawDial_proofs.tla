--------------------------- MODULE RawDial_proofs ---------------------------
(***************************************************************************)
(* Proofs about the descriptors of DialFragmented, for every number of     *)
(* dialers, of other goroutines and of descriptors.                        *)
(***************************************************************************)
EXTENDS RawDial, TLAPS

LEMMA NoneIsNoFd == None \notin Fds
BY NoneAssumption, NFdsAssumption DEF Fds

-----------------------------------------------------------------------------
(* Types                                                                   *)

LEMMA OpensType ==
  ASSUME TypeOK, NEW f \in Fds, NEW file \in Files, Opens(f, file)
  PROVE  /\ table' \in [Fds -> Files \cup {None}]
         /\ table[f] = None
         /\ table' = [table EXCEPT ![f] = file]
BY DEF TypeOK, Opens, Free

LEMMA ClosesType ==
  ASSUME TypeOK, NEW f, Closes(f)
  PROVE  table' \in [Fds -> Files \cup {None}]
BY DEF TypeOK, Closes

LEMMA InitType == Init => TypeOK
BY ProcsAssumption DEF Init, TypeOK, Procs

LEMMA TypeStep == TypeOK /\ [Next]_vars => TypeOK'
<1> SUFFICES ASSUME TypeOK, [Next]_vars PROVE TypeOK'
  OBVIOUS
<1> USE NoneIsNoFd DEF Goto
<1>f. \A d \in Dialers : <<d, "socket">> \in Files /\ <<d, "epoll">> \in Files
  BY DEF Files
<1>g. \A p \in Procs : <<p, "conn">> \in Files
  BY DEF Files
<1>d. Dialers \subseteq Procs
  BY DEF Procs
<1>1. CASE UNCHANGED vars
  BY <1>1 DEF vars, TypeOK
<1>2. ASSUME NEW d \in Dialers, Socket(d) PROVE TypeOK'
  <2>1. PICK f \in Fds : Opens(f, <<d, "socket">>) /\ fd' = [fd EXCEPT ![d] = f]
    BY <1>2 DEF Socket
  <2>2. table' \in [Fds -> Files \cup {None}]
    BY <2>1, <1>f, OpensType
  <2>3. QED
    BY <1>2, <2>1, <2>2 DEF TypeOK, Socket
<1>3. ASSUME NEW d \in Dialers, NoSocket(d) \/ Connect(d) \/ EpollCreateFail(d)
                                  \/ FileConnFail(d) \/ FallbackFail(d)
      PROVE  TypeOK'
  <2>1. CASE NoSocket(d)
    BY <2>1 DEF TypeOK, NoSocket
  <2>2. CASE Connect(d)
    BY <2>2 DEF TypeOK, Connect
  <2>3. CASE EpollCreateFail(d)
    BY <2>3 DEF TypeOK, EpollCreateFail
  <2>4. CASE FileConnFail(d)
    BY <2>4 DEF TypeOK, FileConnFail
  <2>5. CASE FallbackFail(d)
    BY <2>5 DEF TypeOK, FallbackFail
  <2>6. QED
    BY <1>3, <2>1, <2>2, <2>3, <2>4, <2>5
<1>4. ASSUME NEW d \in Dialers, EpollCreate(d) PROVE TypeOK'
  <2>1. PICK f \in Fds : Opens(f, <<d, "epoll">>) /\ epfd' = [epfd EXCEPT ![d] = f]
    BY <1>4 DEF EpollCreate
  <2>2. table' \in [Fds -> Files \cup {None}]
    BY <2>1, <1>f, OpensType
  <2>3. QED
    BY <1>4, <2>1, <2>2 DEF TypeOK, EpollCreate
<1>5. ASSUME NEW d \in Dialers, WaitConnect(d) PROVE TypeOK'
  <2>1. table' \in [Fds -> Files \cup {None}]
    BY <1>5, ClosesType DEF WaitConnect
  <2>2. QED
    BY <1>5, <2>1 DEF TypeOK, WaitConnect
<1>6. ASSUME NEW d \in Dialers, GiveUp(d) \/ CloseFile(d) \/ CloseAgain(d) PROVE TypeOK'
  <2>1. table' \in [Fds -> Files \cup {None}]
    BY <1>6, ClosesType DEF GiveUp, CloseFile, CloseAgain
  <2>2. CASE GiveUp(d)
    BY <2>1, <2>2 DEF TypeOK, GiveUp
  <2>3. CASE CloseFile(d)
    BY <2>1, <2>3 DEF TypeOK, CloseFile
  <2>4. CASE CloseAgain(d)
    BY <2>1, <2>4 DEF TypeOK, CloseAgain
  <2>5. QED
    BY <1>6, <2>2, <2>3, <2>4
<1>7. ASSUME NEW d \in Dialers, FileConn(d) \/ Fallback(d) PROVE TypeOK'
  <2>1. PICK f \in Fds : Opens(f, <<d, "conn">>) /\ conn' = [conn EXCEPT ![d] = f]
    BY <1>7 DEF FileConn, Fallback
  <2>2. table' \in [Fds -> Files \cup {None}]
    BY <2>1, <1>d, <1>g, OpensType
  <2>3. QED
    BY <1>7, <2>1, <2>2, <1>d DEF TypeOK, FileConn, Fallback
<1>8. ASSUME NEW d \in Dialers, CloseConn(d) PROVE TypeOK'
  <2>1. table' \in [Fds -> Files \cup {None}]
    BY <1>8, ClosesType DEF CloseConn
  <2>2. QED
    BY <1>8, <2>1, <1>d DEF TypeOK, CloseConn
<1>9. ASSUME NEW p \in Others, OtherOpen(p) PROVE TypeOK'
  <2>1. PICK f \in Fds : Opens(f, <<p, "conn">>) /\ conn' = [conn EXCEPT ![p] = f]
    BY <1>9 DEF OtherOpen
  <2>p. p \in Procs /\ p \notin Dialers
    BY ProcsAssumption DEF Procs
  <2>2. table' \in [Fds -> Files \cup {None}]
    BY <2>1, <2>p, <1>g, OpensType
  <2>3. \A d \in Dialers : conn'[d] = conn[d]
    BY <2>1, <2>p, <1>d DEF TypeOK
  <2>4. QED
    BY <1>9, <2>1, <2>2, <2>3, <2>p DEF TypeOK, OtherOpen
<1>10. ASSUME NEW p \in Others, OtherClose(p) PROVE TypeOK'
  <2>p. p \in Procs /\ p \notin Dialers
    BY ProcsAssumption DEF Procs
  <2>2. table' \in [Fds -> Files \cup {None}]
    BY <1>10, ClosesType DEF OtherClose
  <2>3. \A d \in Dialers : conn'[d] = conn[d]
    BY <1>10, <2>p, <1>d DEF TypeOK, OtherClose
  <2>4. QED
    BY <1>10, <2>2, <2>3, <2>p DEF TypeOK, OtherClose
<1>11. QED
  BY <1>1, <1>2, <1>3, <1>4, <1>5, <1>6, <1>7, <1>8, <1>9, <1>10
  DEF Next, DialFragmented, DialRawTCP

\* The types hold, and a step that closes a descriptor has one: a dialer has a
\* socket, an epoll descriptor and a connection exactly between the calls that
\* give and take them.
THEOREM TypeCorrect == Spec => []TypeOK
BY InitType, TypeStep, PTL DEF Spec

-----------------------------------------------------------------------------
(* Leaks                                                                   *)

\* A file is a goroutine and what it opened it for.
LEMMA FileFields ==
  ASSUME TypeOK, NEW f \in Fds, table[f] # None
  PROVE  \/ /\ table[f][1] \in Dialers
            /\ table[f][2] \in {"socket", "epoll"}
         \/ /\ table[f][1] \in Procs
            /\ table[f][2] = "conn"
<1>1. table[f] \in Files
  BY DEF TypeOK
<1>2. QED
  BY <1>1, Zenon DEF Files

\* What has f still has it.
Keeps(f) ==
  /\ \A d \in Dialers : fd[d] = f /\ pc[d] # "closeAgain"
                          => fd'[d] = f /\ pc'[d] # "closeAgain"
  /\ \A d \in Dialers : epfd[d] = f => epfd'[d] = f
  /\ \A p \in Procs : conn[p] = f => conn'[p] = f

LEMMA KeepsHas ==
  ASSUME TypeOK, NoDescriptorLeak, NEW f \in Fds, table[f] # None,
         table'[f] = table[f], Keeps(f)
  PROVE  Has(table[f][1], table[f][2], f)'
<1>1. Has(table[f][1], table[f][2], f)
  BY DEF NoDescriptorLeak
<1>2. CASE table[f][1] \in Dialers /\ table[f][2] = "socket"
  <2>1. fd[table[f][1]] = f /\ pc[table[f][1]] # "closeAgain"
    BY <1>1, <1>2 DEF Has
  <2>2. fd'[table[f][1]] = f /\ pc'[table[f][1]] # "closeAgain"
    BY <2>1, <1>2 DEF Keeps
  <2>3. QED
    BY <2>2, <1>2 DEF Has
<1>3. CASE table[f][1] \in Dialers /\ table[f][2] = "epoll"
  <2>1. epfd[table[f][1]] = f
    BY <1>1, <1>3 DEF Has
  <2>2. epfd'[table[f][1]] = f
    BY <2>1, <1>3 DEF Keeps
  <2>3. QED
    BY <2>2, <1>3 DEF Has
<1>4. CASE table[f][1] \in Procs /\ table[f][2] = "conn"
  <2>1. conn[table[f][1]] = f
    BY <1>1, <1>4 DEF Has
  <2>2. conn'[table[f][1]] = f
    BY <2>1, <1>4 DEF Keeps
  <2>3. QED
    BY <2>2, <1>4 DEF Has
<1>5. QED
  BY <1>2, <1>3, <1>4, FileFields

LEMMA InitLeak == Init => NoDescriptorLeak
BY DEF Init, NoDescriptorLeak

LEMMA LeakStep == TypeOK /\ TypeOK' /\ NoDescriptorLeak /\ [Next]_vars => NoDescriptorLeak'
<1> SUFFICES ASSUME TypeOK, TypeOK', NoDescriptorLeak, [Next]_vars,
                    NEW f \in Fds, table'[f] # None
             PROVE  Has(table[f][1], table[f][2], f)'
  BY DEF NoDescriptorLeak
<1> USE NoneIsNoFd DEF Goto
<1>d. Dialers \subseteq Procs /\ \A p \in Others : p \in Procs /\ p \notin Dialers
  BY ProcsAssumption DEF Procs
<1>k. ASSUME table'[f] = table[f], Keeps(f) PROVE Has(table[f][1], table[f][2], f)'
  BY <1>k, KeepsHas
<1>1. CASE UNCHANGED vars
  BY <1>1, <1>k DEF vars, Keeps
<1>2. ASSUME NEW d \in Dialers, Socket(d) PROVE Has(table[f][1], table[f][2], f)'
  <2>1. PICK g \in Fds : Opens(g, <<d, "socket">>) /\ fd' = [fd EXCEPT ![d] = g]
    BY <1>2 DEF Socket
  <2>2. CASE f = g
    <3>1. table'[f][1] = d /\ table'[f][2] = "socket"
      BY <2>1, <2>2 DEF Opens, TypeOK
    <3>2. fd'[d] = f /\ pc'[d] = "connect"
      BY <1>2, <2>1, <2>2 DEF Socket, TypeOK
    <3>3. QED
      BY <3>1, <3>2 DEF Has
  <2>3. CASE f # g
    <3>1. table'[f] = table[f]
      BY <2>1, <2>3 DEF Opens, TypeOK
    <3>2. fd[d] = None
      BY <1>2 DEF Socket, TypeOK
    <3>3. Keeps(f)
      BY <1>2, <2>1, <3>2 DEF Keeps, Socket, TypeOK
    <3>4. QED
      BY <3>1, <3>3, <1>k
  <2>4. QED
    BY <2>2, <2>3
<1>3. ASSUME NEW d \in Dialers, NoSocket(d) \/ Connect(d) \/ EpollCreateFail(d)
                                  \/ FileConnFail(d) \/ FallbackFail(d)
      PROVE  Has(table[f][1], table[f][2], f)'
  <2>1. UNCHANGED <<table, fd, epfd, conn>>
    BY <1>3 DEF NoSocket, Connect, EpollCreateFail, FileConnFail, FallbackFail
  <2>2. \A e \in Dialers : pc'[e] = "closeAgain" => pc[e] = "closeAgain"
    BY <1>3 DEF NoSocket, Connect, EpollCreateFail, FileConnFail, FallbackFail, TypeOK
  <2>3. QED
    BY <2>1, <2>2, <1>k DEF Keeps
<1>4. ASSUME NEW d \in Dialers, EpollCreate(d) PROVE Has(table[f][1], table[f][2], f)'
  <2>1. PICK g \in Fds : Opens(g, <<d, "epoll">>) /\ epfd' = [epfd EXCEPT ![d] = g]
    BY <1>4 DEF EpollCreate
  <2>2. CASE f = g
    <3>1. table'[f][1] = d /\ table'[f][2] = "epoll"
      BY <2>1, <2>2 DEF Opens, TypeOK
    <3>2. epfd'[d] = f
      BY <2>1, <2>2 DEF TypeOK
    <3>3. QED
      BY <3>1, <3>2 DEF Has
  <2>3. CASE f # g
    <3>1. table'[f] = table[f]
      BY <2>1, <2>3 DEF Opens, TypeOK
    <3>2. epfd[d] = None
      BY <1>4 DEF EpollCreate, TypeOK
    <3>3. Keeps(f)
      BY <1>4, <2>1, <3>2 DEF Keeps, EpollCreate, TypeOK
    <3>4. QED
      BY <3>1, <3>3, <1>k
  <2>4. QED
    BY <2>2, <2>3
<1>5. ASSUME NEW d \in Dialers,
             WaitConnect(d) \/ GiveUp(d) \/ CloseFile(d) \/ CloseAgain(d) \/ CloseConn(d)
      PROVE  Has(table[f][1], table[f][2], f)'
  <2>1. table'[f] = table[f]
    BY <1>5 DEF TypeOK, Closes, WaitConnect, GiveUp, CloseFile, CloseAgain, CloseConn
  <2>2. CASE WaitConnect(d)
    <3>1. f # epfd[d]
      BY <2>2 DEF TypeOK, Closes, WaitConnect
    <3>2. Keeps(f)
      BY <2>2, <3>1 DEF Keeps, TypeOK, WaitConnect
    <3>3. QED
      BY <2>1, <3>2, <1>k
  <2>3. CASE GiveUp(d)
    <3>1. f # fd[d]
      BY <2>3 DEF TypeOK, Closes, GiveUp
    <3>2. Keeps(f)
      BY <2>3, <3>1 DEF Keeps, TypeOK, GiveUp
    <3>3. QED
      BY <2>1, <3>2, <1>k
  <2>4. CASE CloseFile(d)
    <3>1. f # fd[d]
      BY <2>4 DEF TypeOK, Closes, CloseFile
    <3>2. /\ UNCHANGED <<epfd, conn>>
          /\ \A e \in Dialers : e # d => fd'[e] = fd[e] /\ pc'[e] = pc[e]
      BY <2>4 DEF TypeOK, CloseFile
    <3>3. Keeps(f)
      BY <3>1, <3>2 DEF Keeps
    <3>4. QED
      BY <2>1, <3>3, <1>k
  <2>5. CASE CloseAgain(d)
    <3>1. f # fd[d]
      BY <2>5 DEF TypeOK, Closes, CloseAgain
    <3>2. Keeps(f)
      BY <2>5, <3>1 DEF Keeps, TypeOK, CloseAgain
    <3>3. QED
      BY <2>1, <3>2, <1>k
  <2>6. CASE CloseConn(d)
    <3>1. f # conn[d]
      BY <2>6, <1>d DEF TypeOK, Closes, CloseConn
    <3>2. Keeps(f)
      BY <2>6, <3>1, <1>d DEF Keeps, TypeOK, CloseConn
    <3>3. QED
      BY <2>1, <3>2, <1>k
  <2>7. QED
    BY <1>5, <2>2, <2>3, <2>4, <2>5, <2>6
<1>6. ASSUME NEW p \in Procs, conn[p] = None,
             NEW g \in Fds, Opens(g, <<p, "conn">>), conn' = [conn EXCEPT ![p] = g],
             UNCHANGED <<fd, epfd>>,
             \A d \in Dialers : pc'[d] = "closeAgain" => pc[d] = "closeAgain"
      PROVE  Has(table[f][1], table[f][2], f)'
  <2>2. CASE f = g
    <3>1. table'[f][1] = p /\ table'[f][2] = "conn"
      BY <1>6, <2>2 DEF Opens, TypeOK
    <3>2. conn'[p] = f
      BY <1>6, <2>2 DEF TypeOK
    <3>3. QED
      BY <3>1, <3>2 DEF Has
  <2>3. CASE f # g
    <3>1. table'[f] = table[f]
      BY <1>6, <2>3 DEF Opens, TypeOK
    <3>2. Keeps(f)
      BY <1>6 DEF Keeps, TypeOK
    <3>3. QED
      BY <3>1, <3>2, <1>k
  <2>4. QED
    BY <2>2, <2>3
<1>7. ASSUME NEW d \in Dialers, FileConn(d) \/ Fallback(d)
      PROVE  Has(table[f][1], table[f][2], f)'
  <2>1. PICK g \in Fds : Opens(g, <<d, "conn">>) /\ conn' = [conn EXCEPT ![d] = g]
    BY <1>7 DEF FileConn, Fallback
  <2>2. conn[d] = None
    BY <1>7 DEF FileConn, Fallback, TypeOK
  <2>3. \A e \in Dialers : pc'[e] = "closeAgain" => pc[e] = "closeAgain"
    BY <1>7 DEF FileConn, Fallback, TypeOK
  <2>4. UNCHANGED <<fd, epfd>>
    BY <1>7 DEF FileConn, Fallback
  <2>5. QED
    BY <1>6, <1>d, <2>1, <2>2, <2>3, <2>4
<1>8. ASSUME NEW p \in Others, OtherOpen(p) PROVE Has(table[f][1], table[f][2], f)'
  <2>1. PICK g \in Fds : Opens(g, <<p, "conn">>) /\ conn' = [conn EXCEPT ![p] = g]
    BY <1>8 DEF OtherOpen
  <2>2. conn[p] = None /\ UNCHANGED <<fd, epfd, pc>>
    BY <1>8 DEF OtherOpen
  <2>3. QED
    BY <1>6, <1>d, <2>1, <2>2
<1>9. ASSUME NEW p \in Others, OtherClose(p) PROVE Has(table[f][1], table[f][2], f)'
  <2>1. table'[f] = table[f]
    BY <1>9 DEF TypeOK, Closes, OtherClose
  <2>2. f # conn[p]
    BY <1>9, <1>d DEF TypeOK, Closes, OtherClose
  <2>3. Keeps(f)
    BY <1>9, <2>2, <1>d DEF Keeps, TypeOK, OtherClose
  <2>4. QED
    BY <2>1, <2>3, <1>k
<1>10. QED
  BY <1>1, <1>2, <1>3, <1>4, <1>5, <1>7, <1>8, <1>9
  DEF Next, DialFragmented, DialRawTCP

\* No path through socket, connect, epoll, FileConn and the fallback leaves a
\* descriptor behind, whatever fails and whoever closes a number that is not its own.
THEOREM NoDescriptorLeakAlways == Spec => []NoDescriptorLeak
<1>1. Init => TypeOK /\ NoDescriptorLeak
  BY InitType, InitLeak
<1>2. (TypeOK /\ NoDescriptorLeak) /\ [Next]_vars => (TypeOK /\ NoDescriptorLeak)'
  BY TypeStep, LeakStep
<1>3. QED
  BY <1>1, <1>2, PTL DEF Spec

-----------------------------------------------------------------------------
(* Thefts                                                                  *)

\* OwnsItsDescriptors, one conjunct for each use of a descriptor.
Owns ==
  /\ \A d \in Dialers, f \in Fds :
       fd[d] = f /\ pc[d] # "closeAgain" => table[f] = <<d, "socket">>
  /\ \A d \in Dialers, f \in Fds : epfd[d] = f => table[f] = <<d, "epoll">>
  /\ \A p \in Procs, f \in Fds : conn[p] = f => table[f] = <<p, "conn">>

LEMMA OwnsIsOwns == OwnsItsDescriptors <=> Owns
<1>1. ASSUME OwnsItsDescriptors PROVE Owns
  <2>0. \A f \in Fds, x \in Files : Has(x[1], x[2], f) => table[f] = x
    BY <1>1 DEF OwnsItsDescriptors
  <2>1. ASSUME NEW d \in Dialers, NEW f \in Fds, fd[d] = f, pc[d] # "closeAgain"
        PROVE  table[f] = <<d, "socket">>
    <3>1. <<d, "socket">> \in Files
      BY DEF Files
    <3>2. Has(d, "socket", f)
      BY <2>1 DEF Has
    <3>3. QED
      BY <2>0, <3>1, <3>2
  <2>2. ASSUME NEW d \in Dialers, NEW f \in Fds, epfd[d] = f PROVE table[f] = <<d, "epoll">>
    <3>1. <<d, "epoll">> \in Files
      BY DEF Files
    <3>2. Has(d, "epoll", f)
      BY <2>2 DEF Has
    <3>3. QED
      BY <2>0, <3>1, <3>2
  <2>3. ASSUME NEW p \in Procs, NEW f \in Fds, conn[p] = f PROVE table[f] = <<p, "conn">>
    <3>1. <<p, "conn">> \in Files
      BY DEF Files
    <3>2. Has(p, "conn", f)
      BY <2>3 DEF Has
    <3>3. QED
      BY <2>0, <3>1, <3>2
  <2>4. QED
    BY <2>1, <2>2, <2>3 DEF Owns
<1>2. ASSUME Owns, NEW f \in Fds, NEW x \in Files, Has(x[1], x[2], f) PROVE table[f] = x
  <2>1. CASE \E d \in Dialers : x = <<d, "socket">>
    <3>1. PICK d \in Dialers : x = <<d, "socket">>
      BY <2>1
    <3>2. fd[d] = f /\ pc[d] # "closeAgain"
      BY <1>2, <3>1 DEF Has
    <3>3. QED
      BY <1>2, <3>1, <3>2 DEF Owns
  <2>2. CASE \E d \in Dialers : x = <<d, "epoll">>
    <3>1. PICK d \in Dialers : x = <<d, "epoll">>
      BY <2>2
    <3>2. epfd[d] = f
      BY <1>2, <3>1 DEF Has
    <3>3. QED
      BY <1>2, <3>1, <3>2 DEF Owns
  <2>3. CASE \E p \in Procs : x = <<p, "conn">>
    <3>1. PICK p \in Procs : x = <<p, "conn">>
      BY <2>3
    <3>2. conn[p] = f
      BY <1>2, <3>1 DEF Has
    <3>3. QED
      BY <1>2, <3>1, <3>2 DEF Owns
  <2>4. QED
    BY <1>2, <2>1, <2>2, <2>3 DEF Files
<1>3. QED
  BY <1>1, <1>2 DEF OwnsItsDescriptors

\* A number that is free is nobody's.
LEMMA FreeIsNobodys ==
  ASSUME Owns, NEW g \in Fds, table[g] = None
  PROVE  /\ \A d \in Dialers : fd[d] = g => pc[d] = "closeAgain"
         /\ \A d \in Dialers : epfd[d] # g
         /\ \A p \in Procs : conn[p] # g
<1>1. \A d \in Dialers : <<d, "socket">> # None /\ <<d, "epoll">> # None
  BY NoneIsNoFile DEF Files
<1>2. \A p \in Procs : <<p, "conn">> # None
  BY NoneIsNoFile DEF Files
<1>3. QED
  BY <1>1, <1>2 DEF Owns

\* A number has one owner.
LEMMA OneOwner ==
  ASSUME Owns, NEW g \in Fds
  PROVE  /\ \A d, e \in Dialers :
              fd[d] = g /\ pc[d] # "closeAgain" /\ fd[e] = g /\ pc[e] # "closeAgain" => d = e
         /\ \A d, e \in Dialers : epfd[d] = g /\ epfd[e] = g => d = e
         /\ \A p, q \in Procs : conn[p] = g /\ conn[q] = g => p = q
         /\ \A d, e \in Dialers : ~(fd[d] = g /\ pc[d] # "closeAgain" /\ epfd[e] = g)
         /\ \A d \in Dialers, p \in Procs :
              ~(fd[d] = g /\ pc[d] # "closeAgain" /\ conn[p] = g)
         /\ \A d \in Dialers, p \in Procs : ~(epfd[d] = g /\ conn[p] = g)
BY DEF Owns

LEMMA TheftStep ==
  ASSUME TypeOK, TypeOK', Owns, [Next]_vars,
         \A d \in Dialers : pc[d] = "closeAgain" => table[fd[d]] = None
  PROVE  Owns'
<1> USE NoneIsNoFd DEF Goto
<1>d. Dialers \subseteq Procs /\ \A p \in Others : p \in Procs /\ p \notin Dialers
  BY ProcsAssumption DEF Procs
<1>1. CASE UNCHANGED vars
  BY <1>1 DEF vars, Owns
<1>2. ASSUME NEW d \in Dialers, Socket(d) PROVE Owns'
  <2>1. PICK g \in Fds : Opens(g, <<d, "socket">>) /\ fd' = [fd EXCEPT ![d] = g]
    BY <1>2 DEF Socket
  <2>2. /\ table[g] = None /\ table'[g] = <<d, "socket">>
        /\ \A f \in Fds : f # g => table'[f] = table[f]
    BY <2>1 DEF Opens, Free, TypeOK
  <2>3. /\ fd'[d] = g /\ UNCHANGED <<epfd, conn>>
        /\ \A e \in Dialers : e # d => fd'[e] = fd[e] /\ pc'[e] = pc[e]
    BY <1>2, <2>1 DEF Socket, TypeOK
  <2>4. ASSUME NEW e \in Dialers, NEW f \in Fds, fd'[e] = f, pc'[e] # "closeAgain"
        PROVE  table'[f] = <<e, "socket">>
    <3>1. CASE e = d
      BY <2>2, <2>3, <2>4, <3>1
    <3>2. CASE e # d
      <4>1. fd[e] = f /\ pc[e] # "closeAgain"
        BY <2>3, <2>4, <3>2
      <4>2. f # g
        BY <2>2, <4>1, FreeIsNobodys
      <4>3. QED
        BY <2>2, <4>1, <4>2 DEF Owns
    <3>3. QED
      BY <3>1, <3>2
  <2>5. ASSUME NEW e \in Dialers, NEW f \in Fds, epfd'[e] = f
        PROVE  table'[f] = <<e, "epoll">>
    <3>1. epfd[e] = f
      BY <2>3, <2>5
    <3>2. f # g
      BY <2>2, <3>1, FreeIsNobodys
    <3>3. QED
      BY <2>2, <3>1, <3>2 DEF Owns
  <2>6. ASSUME NEW e \in Procs, NEW f \in Fds, conn'[e] = f
        PROVE  table'[f] = <<e, "conn">>
    <3>1. conn[e] = f
      BY <2>3, <2>6
    <3>2. f # g
      BY <2>2, <3>1, FreeIsNobodys
    <3>3. QED
      BY <2>2, <3>1, <3>2 DEF Owns
  <2>7. QED
    BY <2>4, <2>5, <2>6 DEF Owns
<1>3. ASSUME NEW d \in Dialers, NoSocket(d) \/ Connect(d) \/ EpollCreateFail(d)
                                  \/ FileConnFail(d) \/ FallbackFail(d)
      PROVE  Owns'
  <2>1. UNCHANGED <<table, fd, epfd, conn>>
    BY <1>3 DEF NoSocket, Connect, EpollCreateFail, FileConnFail, FallbackFail
  <2>2. \A e \in Dialers : pc[e] = "closeAgain" => pc'[e] = "closeAgain"
    BY <1>3 DEF NoSocket, Connect, EpollCreateFail, FileConnFail, FallbackFail, TypeOK
  <2>3. QED
    BY <2>1, <2>2 DEF Owns
<1>4. ASSUME NEW d \in Dialers, EpollCreate(d) PROVE Owns'
  <2>1. PICK g \in Fds : Opens(g, <<d, "epoll">>) /\ epfd' = [epfd EXCEPT ![d] = g]
    BY <1>4 DEF EpollCreate
  <2>2. /\ table[g] = None /\ table'[g] = <<d, "epoll">>
        /\ \A f \in Fds : f # g => table'[f] = table[f]
    BY <2>1 DEF Opens, Free, TypeOK
  <2>3. /\ epfd'[d] = g /\ UNCHANGED <<fd, conn>>
        /\ \A e \in Dialers : e # d => epfd'[e] = epfd[e]
        /\ \A e \in Dialers : pc[e] = "closeAgain" => pc'[e] = "closeAgain"
    BY <1>4, <2>1 DEF EpollCreate, TypeOK
  <2>4. ASSUME NEW e \in Dialers, NEW f \in Fds, fd'[e] = f, pc'[e] # "closeAgain"
        PROVE  table'[f] = <<e, "socket">>
    <3>1. fd[e] = f /\ pc[e] # "closeAgain"
      BY <2>3, <2>4
    <3>2. f # g
      BY <2>2, <3>1, FreeIsNobodys
    <3>3. QED
      BY <2>2, <3>1, <3>2 DEF Owns
  <2>5. ASSUME NEW e \in Dialers, NEW f \in Fds, epfd'[e] = f
        PROVE  table'[f] = <<e, "epoll">>
    <3>1. CASE e = d
      BY <2>2, <2>3, <2>5, <3>1
    <3>2. CASE e # d
      <4>1. epfd[e] = f
        BY <2>3, <2>5, <3>2
      <4>2. f # g
        BY <2>2, <4>1, FreeIsNobodys
      <4>3. QED
        BY <2>2, <4>1, <4>2 DEF Owns
    <3>3. QED
      BY <3>1, <3>2
  <2>6. ASSUME NEW e \in Procs, NEW f \in Fds, conn'[e] = f
        PROVE  table'[f] = <<e, "conn">>
    <3>1. conn[e] = f
      BY <2>3, <2>6
    <3>2. f # g
      BY <2>2, <3>1, FreeIsNobodys
    <3>3. QED
      BY <2>2, <3>1, <3>2 DEF Owns
  <2>7. QED
    BY <2>4, <2>5, <2>6 DEF Owns
<1>5. ASSUME NEW d \in Dialers, WaitConnect(d) PROVE Owns'
  <2>1. epfd[d] \in Fds
    BY <1>5 DEF WaitConnect, TypeOK
  <2>2. \A f \in Fds : f # epfd[d] => table'[f] = table[f]
    BY <1>5 DEF WaitConnect, Closes, TypeOK
  <2>3. /\ epfd'[d] = None /\ UNCHANGED <<fd, conn>>
        /\ \A e \in Dialers : e # d => epfd'[e] = epfd[e]
        /\ \A e \in Dialers : pc[e] = "closeAgain" => pc'[e] = "closeAgain"
    BY <1>5 DEF WaitConnect, TypeOK
  <2>4. ASSUME NEW e \in Dialers, NEW f \in Fds, fd'[e] = f, pc'[e] # "closeAgain"
        PROVE  table'[f] = <<e, "socket">>
    <3>1. fd[e] = f /\ pc[e] # "closeAgain"
      BY <2>3, <2>4
    <3>2. f # epfd[d]
      BY <2>1, <2>3, <2>4, <3>1, OneOwner
    <3>3. QED
      BY <2>2, <3>1, <3>2 DEF Owns
  <2>5. ASSUME NEW e \in Dialers, NEW f \in Fds, epfd'[e] = f
        PROVE  table'[f] = <<e, "epoll">>
    <3>1. epfd[e] = f
      BY <2>3, <2>5
    <3>2. f # epfd[d]
      BY <2>1, <2>3, <2>5, <3>1, OneOwner
    <3>3. QED
      BY <2>2, <3>1, <3>2 DEF Owns
  <2>6. ASSUME NEW q \in Procs, NEW f \in Fds, conn'[q] = f
        PROVE  table'[f] = <<q, "conn">>
    <3>1. conn[q] = f
      BY <2>3, <2>6
    <3>2. f # epfd[d]
      BY <2>1, <2>3, <2>6, <3>1, OneOwner
    <3>3. QED
      BY <2>2, <3>1, <3>2 DEF Owns
  <2>7. QED
    BY <2>4, <2>5, <2>6 DEF Owns
<1>6. ASSUME NEW d \in Dialers, GiveUp(d) \/ CloseFile(d) PROVE Owns'
  <2>1. fd[d] \in Fds /\ pc[d] # "closeAgain"
    BY <1>6 DEF GiveUp, CloseFile, TypeOK
  <2>2. \A f \in Fds : f # fd[d] => table'[f] = table[f]
    BY <1>6 DEF GiveUp, CloseFile, Closes, TypeOK
  <2>3. /\ fd'[d] = None \/ pc'[d] = "closeAgain"
        /\ UNCHANGED <<epfd, conn>>
        /\ \A e \in Dialers : e # d => fd'[e] = fd[e] /\ pc'[e] = pc[e]
    BY <1>6 DEF GiveUp, CloseFile, TypeOK
  <2>4. ASSUME NEW e \in Dialers, NEW f \in Fds, fd'[e] = f, pc'[e] # "closeAgain"
        PROVE  table'[f] = <<e, "socket">>
    <3>1. fd[e] = f /\ pc[e] # "closeAgain"
      BY <2>3, <2>4
    <3>2. f # fd[d]
      BY <2>1, <2>3, <2>4, <3>1, OneOwner
    <3>3. QED
      BY <2>2, <3>1, <3>2 DEF Owns
  <2>5. ASSUME NEW e \in Dialers, NEW f \in Fds, epfd'[e] = f
        PROVE  table'[f] = <<e, "epoll">>
    <3>1. epfd[e] = f
      BY <2>3, <2>5
    <3>2. f # fd[d]
      BY <2>1, <2>3, <2>5, <3>1, OneOwner
    <3>3. QED
      BY <2>2, <3>1, <3>2 DEF Owns
  <2>6. ASSUME NEW q \in Procs, NEW f \in Fds, conn'[q] = f
        PROVE  table'[f] = <<q, "conn">>
    <3>1. conn[q] = f
      BY <2>3, <2>6
    <3>2. f # fd[d]
      BY <2>1, <2>3, <2>6, <3>1, OneOwner
    <3>3. QED
      BY <2>2, <3>1, <3>2 DEF Owns
  <2>7. QED
    BY <2>4, <2>5, <2>6 DEF Owns
<1>7. ASSUME NEW d \in Dialers, CloseAgain(d) PROVE Owns'
  <2>1. fd[d] \in Fds /\ table[fd[d]] = None
    BY <1>7 DEF CloseAgain, TypeOK
  <2>2. table' = table
    BY <1>7, <2>1 DEF CloseAgain, Closes, TypeOK
  <2>3. /\ fd'[d] = None /\ UNCHANGED <<epfd, conn>>
        /\ \A e \in Dialers : e # d => fd'[e] = fd[e] /\ pc'[e] = pc[e]
    BY <1>7 DEF CloseAgain, TypeOK
  <2>4. QED
    BY <2>2, <2>3 DEF Owns
<1>8. ASSUME NEW p \in Procs, NEW g \in Fds,
             Opens(g, <<p, "conn">>), conn' = [conn EXCEPT ![p] = g],
             UNCHANGED <<fd, epfd>>,
             \A e \in Dialers : pc[e] = "closeAgain" => pc'[e] = "closeAgain"
      PROVE  Owns'
  <2>2. /\ table[g] = None /\ table'[g] = <<p, "conn">>
        /\ \A f \in Fds : f # g => table'[f] = table[f]
    BY <1>8 DEF Opens, Free, TypeOK
  <2>3. conn'[p] = g /\ \A q \in Procs : q # p => conn'[q] = conn[q]
    BY <1>8 DEF TypeOK
  <2>4. QED
    BY <1>8, <2>2, <2>3, FreeIsNobodys DEF Owns
<1>9. ASSUME NEW d \in Dialers, FileConn(d) \/ Fallback(d) PROVE Owns'
  <2>1. PICK g \in Fds : Opens(g, <<d, "conn">>) /\ conn' = [conn EXCEPT ![d] = g]
    BY <1>9 DEF FileConn, Fallback
  <2>2. \A e \in Dialers : pc[e] = "closeAgain" => pc'[e] = "closeAgain"
    BY <1>9 DEF FileConn, Fallback, TypeOK
  <2>3. UNCHANGED <<fd, epfd>>
    BY <1>9 DEF FileConn, Fallback
  <2>4. QED
    BY <1>8, <1>d, <2>1, <2>2, <2>3
<1>10. ASSUME NEW p \in Others, OtherOpen(p) PROVE Owns'
  <2>1. PICK g \in Fds : Opens(g, <<p, "conn">>) /\ conn' = [conn EXCEPT ![p] = g]
    BY <1>10 DEF OtherOpen
  <2>2. UNCHANGED <<fd, epfd, pc>>
    BY <1>10 DEF OtherOpen
  <2>3. QED
    BY <1>8, <1>d, <2>1, <2>2
<1>11. ASSUME NEW p \in Procs, conn[p] # None, Closes(conn[p]),
              conn' = [conn EXCEPT ![p] = None], UNCHANGED <<fd, epfd>>,
              \A e \in Dialers : pc[e] = "closeAgain" => pc'[e] = "closeAgain"
       PROVE  Owns'
  <2>1. conn[p] \in Fds
    BY <1>11 DEF TypeOK
  <2>2. \A f \in Fds : f # conn[p] => table'[f] = table[f]
    BY <1>11 DEF Closes, TypeOK
  <2>3. conn'[p] = None /\ \A q \in Procs : q # p => conn'[q] = conn[q]
    BY <1>11 DEF TypeOK
  <2>4. ASSUME NEW e \in Dialers, NEW f \in Fds, fd'[e] = f, pc'[e] # "closeAgain"
        PROVE  table'[f] = <<e, "socket">>
    <3>1. fd[e] = f /\ pc[e] # "closeAgain"
      BY <1>11, <2>3, <2>4
    <3>2. f # conn[p]
      BY <1>11, <2>1, <2>3, <2>4, <3>1, OneOwner
    <3>3. QED
      BY <2>2, <3>1, <3>2 DEF Owns
  <2>5. ASSUME NEW e \in Dialers, NEW f \in Fds, epfd'[e] = f
        PROVE  table'[f] = <<e, "epoll">>
    <3>1. epfd[e] = f
      BY <1>11, <2>3, <2>5
    <3>2. f # conn[p]
      BY <1>11, <2>1, <2>3, <2>5, <3>1, OneOwner
    <3>3. QED
      BY <2>2, <3>1, <3>2 DEF Owns
  <2>6. ASSUME NEW q \in Procs, NEW f \in Fds, conn'[q] = f
        PROVE  table'[f] = <<q, "conn">>
    <3>1. conn[q] = f
      BY <1>11, <2>3, <2>6
    <3>2. f # conn[p]
      BY <1>11, <2>1, <2>3, <2>6, <3>1, OneOwner
    <3>3. QED
      BY <2>2, <3>1, <3>2 DEF Owns
  <2>7. QED
    BY <2>4, <2>5, <2>6 DEF Owns
<1>12. ASSUME NEW d \in Dialers, CloseConn(d) PROVE Owns'
  <2>1. /\ conn[d] # None /\ Closes(conn[d]) /\ conn' = [conn EXCEPT ![d] = None]
        /\ UNCHANGED <<fd, epfd>>
        /\ \A e \in Dialers : pc[e] = "closeAgain" => pc'[e] = "closeAgain"
    BY <1>12 DEF CloseConn, TypeOK
  <2>2. QED
    BY <1>11, <1>d, <2>1
<1>13. ASSUME NEW p \in Others, OtherClose(p) PROVE Owns'
  <2>1. /\ conn[p] # None /\ Closes(conn[p]) /\ conn' = [conn EXCEPT ![p] = None]
        /\ UNCHANGED <<fd, epfd, pc>>
    BY <1>13 DEF OtherClose
  <2>2. QED
    BY <1>11, <1>d, <2>1
<1>14. QED
  BY <1>1, <1>2, <1>3, <1>4, <1>5, <1>6, <1>7, <1>9, <1>10, <1>12, <1>13
  DEF Next, DialFragmented, DialRawTCP

\* A goroutine loses a descriptor only where a dialer closes for the second time a
\* number that f.Close() gave back and that is somebody else's by now.
THEOREM FirstTheftAlways == Spec => FirstTheft
<1>1. TypeOK /\ TypeOK' /\ [Next]_vars
        => [OwnsItsDescriptors /\ ~OwnsItsDescriptors'
              => \E d \in Dialers : pc[d] = "closeAgain" /\ table[fd[d]] # None]_vars
  <2>1. OwnsItsDescriptors <=> Owns
    BY OwnsIsOwns
  <2>2. OwnsItsDescriptors' <=> Owns'
    BY OwnsIsOwns, PTL
  <2>3. QED
    BY <2>1, <2>2, TheftStep
<1>2. QED
  BY <1>1, TypeCorrect, PTL DEF Spec, FirstTheft
=============================================================================
