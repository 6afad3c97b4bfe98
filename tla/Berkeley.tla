------------------------------ MODULE Berkeley -----------------------------
(***************************************************************************)
(* The BSD-style functions of ksocket/berkeley.c and their descriptor      *)
(* table: KsArray, indexed by a counter KsIndex that only ever grows.      *)
(* Nothing protects the table, so the steps of threads interleave:         *)
(*                                                                         *)
(*   "idle" -> "ks" (in a blocking function of ksocket.c) -> "idle", or    *)
(*   "ks" -> "read" -> "bump" -> "store" -> "idle" for what opens a socket *)
(*           (KsIndex is read, incremented, and the slot written),         *)
(*   "ks" -> "clear" -> "idle" for closesocket.                            *)
(*                                                                         *)
(* The functions of ksocket.c appear by what they do to KSOCKETs: they     *)
(* create one, free one, or use one that must exist.                       *)
(***************************************************************************)
EXTENDS Naturals

CONSTANTS
  Threads,
  Handles,        \* KSOCKETs there may be at a time
  NULL,
  SOCKETFD_MAX,   \* slots of KsArray (128 in the code)
  IndexRange,     \* values of KsIndex, a ULONG (2^32 in the code)
  OneOpener,      \* TRUE: the application opens sockets in one thread at a time
  ClosesInTime    \* TRUE: and opens none while the next slot is in use

ASSUME BerkeleyAssumption ==
  /\ SOCKETFD_MAX \in Nat \ {0}
  /\ IndexRange \in Nat \ {0}
  /\ SOCKETFD_MAX <= IndexRange /\ IndexRange % SOCKETFD_MAX = 0
  /\ OneOpener \in BOOLEAN /\ ClosesInTime \in BOOLEAN
  /\ NULL \notin Handles

\* The function of ksocket.c each function calls.  recvfrom calls KsSendTo.
KsFunction == [
  socket_connection |-> "KsCreateConnectionSocket",
  socket_listen     |-> "KsCreateListenSocket",
  socket_datagram   |-> "KsCreateDatagramSocket",
  accept            |-> "KsAccept",
  connect           |-> "KsConnect",
  bind              |-> "KsBind",
  send              |-> "KsSend",
  sendto            |-> "KsSendTo",
  recv              |-> "KsRecv",
  recvfrom          |-> "KsSendTo",
  closesocket       |-> "KsCloseSocket"]

CreateFunctions == {"socket_connection", "socket_listen", "socket_datagram"}
OpenFunctions   == CreateFunctions \cup {"accept"}
UseFunctions    == DOMAIN KsFunction \ (OpenFunctions \cup {"closesocket"})

Descriptors == 0 .. SOCKETFD_MAX - 1
TO_SOCKETFD(i) == i % SOCKETFD_MAX

VARIABLES
  KsArray,  \* the KSOCKET in each slot, or NULL
  KsIndex,
  live,     \* KSOCKETs that are allocated
  held,     \* descriptors the application was given and has not closed
  halted,   \* a function of ksocket.c was passed no KSOCKET, or a freed one
  pc, fn,   \* per thread: position and function
  sockfd,   \* the descriptor passed in, or the one computed for a new socket
  Socket,   \* the KSOCKET read from the slot of sockfd
  new,      \* the KSOCKET that was opened
  index     \* KsIndex as it was read

threadVars == <<pc, fn, sockfd, Socket, new, index>>
tableVars == <<KsArray, KsIndex, live, held, halted>>
vars == <<threadVars, tableVars>>

Init ==
  /\ KsArray = [fd \in Descriptors |-> NULL]
  /\ KsIndex = 0
  /\ live = {} /\ held = {}
  /\ halted = FALSE
  /\ pc = [t \in Threads |-> "idle"]
  /\ fn = [t \in Threads |-> "none"]
  /\ sockfd = [t \in Threads |-> 0]
  /\ Socket = [t \in Threads |-> NULL]
  /\ new = [t \in Threads |-> NULL]
  /\ index = [t \in Threads |-> 0]

-----------------------------------------------------------------------------
\* The locals of a thread that is out of the library are gone.
Return(t) ==
  /\ pc' = [pc EXCEPT ![t] = "idle"]
  /\ fn' = [fn EXCEPT ![t] = "none"]
  /\ sockfd' = [sockfd EXCEPT ![t] = 0]
  /\ Socket' = [Socket EXCEPT ![t] = NULL]
  /\ new' = [new EXCEPT ![t] = NULL]
  /\ index' = [index EXCEPT ![t] = 0]

Goto(t, p) == pc' = [pc EXCEPT ![t] = p]

\* What the application must see to, as the table does not.
MayOpen(f) ==
  f \in OpenFunctions =>
    /\ OneOpener => \A u \in Threads : fn[u] \notin OpenFunctions
    /\ ClosesInTime =>
         /\ TO_SOCKETFD(KsIndex) \notin held
         /\ \A u \in Threads :
              fn[u] = "closesocket" => sockfd[u] # TO_SOCKETFD(KsIndex)

\* The application passes a descriptor it holds, in one call at a time.
MayPass(fd) ==
  /\ fd \in held
  /\ \A u \in Threads :
       pc[u] # "idle" /\ fn[u] \notin CreateFunctions \cup {"closesocket"}
         => sockfd[u] # fd

\* socket_connection, socket_listen, socket_datagram.
Create(t, f) ==
  /\ pc[t] = "idle"
  /\ f \in CreateFunctions
  /\ MayOpen(f)
  /\ Goto(t, "ks")
  /\ fn' = [fn EXCEPT ![t] = f]
  /\ UNCHANGED <<sockfd, Socket, new, index, tableVars>>

\* Every other function but listen, which does nothing, starts by reading the
\* slot and calling into ksocket.c with what it finds there.
CallOn(t, f, fd) ==
  /\ pc[t] = "idle"
  /\ f \notin CreateFunctions
  /\ MayPass(fd)
  /\ MayOpen(f)
  /\ \/ /\ KsArray[fd] \in live
        /\ Goto(t, "ks")
        /\ fn' = [fn EXCEPT ![t] = f]
        /\ sockfd' = [sockfd EXCEPT ![t] = fd]
        /\ Socket' = [Socket EXCEPT ![t] = KsArray[fd]]
        /\ held' = IF f = "closesocket" THEN held \ {fd} ELSE held
        /\ UNCHANGED <<new, index, halted>>
     \/ /\ KsArray[fd] \notin live
        /\ halted' = TRUE
        /\ UNCHANGED <<threadVars, held>>
  /\ UNCHANGED <<KsArray, KsIndex, live>>

\* The function of ksocket.c returns.
KsOpens(t) ==
  /\ pc[t] = "ks" /\ fn[t] \in OpenFunctions
  /\ \/ /\ \E h \in Handles \ live :
             /\ live' = live \cup {h}
             /\ new' = [new EXCEPT ![t] = h]
        /\ Goto(t, "read")
        /\ UNCHANGED <<fn, sockfd, Socket, index>>
     \/ Return(t) /\ UNCHANGED live
  /\ UNCHANGED <<KsArray, KsIndex, held, halted>>

KsUses(t) ==
  /\ pc[t] = "ks" /\ fn[t] \in UseFunctions
  /\ Return(t)
  /\ UNCHANGED tableVars

\* Seeded variant: the slot is cleared but KsCloseSocket is not called.
ClosesNothing(t) ==
  /\ pc[t] = "ks" /\ fn[t] = "closesocket"
  /\ Goto(t, "clear")
  /\ UNCHANGED <<fn, sockfd, Socket, new, index, tableVars>>

KsCloses(t) ==
  /\ pc[t] = "ks" /\ fn[t] = "closesocket"
  /\ live' = live \ {Socket[t]}
  /\ Goto(t, "clear")
  /\ UNCHANGED <<fn, sockfd, Socket, new, index, KsArray, KsIndex, held,
                 halted>>

\* sockfd = TO_SOCKETFD(KsIndex++), which reads KsIndex and then writes it.
ReadIndex(t) ==
  /\ pc[t] = "read"
  /\ index' = [index EXCEPT ![t] = KsIndex]
  /\ Goto(t, "bump")
  /\ UNCHANGED <<fn, sockfd, Socket, new, tableVars>>

BumpIndex(t) ==
  /\ pc[t] = "bump"
  /\ KsIndex' = (index[t] + 1) % IndexRange
  /\ sockfd' = [sockfd EXCEPT ![t] = TO_SOCKETFD(index[t])]
  /\ Goto(t, "store")
  /\ UNCHANGED <<fn, Socket, new, index, KsArray, live, held, halted>>

\* Seeded variant: accept stores the listening socket.
StoreListener(t) ==
  /\ pc[t] = "store"
  /\ KsArray' = [KsArray EXCEPT ![sockfd[t]] =
                   IF fn[t] = "accept" THEN Socket[t] ELSE new[t]]
  /\ held' = held \cup {sockfd[t]}
  /\ Return(t)
  /\ UNCHANGED <<KsIndex, live, halted>>

\* KsArray[sockfd] = Socket, and the descriptor is returned.
StoreSlot(t) ==
  /\ pc[t] = "store"
  /\ KsArray' = [KsArray EXCEPT ![sockfd[t]] = new[t]]
  /\ held' = held \cup {sockfd[t]}
  /\ Return(t)
  /\ UNCHANGED <<KsIndex, live, halted>>

\* Seeded variant: the slot after the descriptor's is cleared.
ClearNextSlot(t) ==
  /\ pc[t] = "clear"
  /\ KsArray' = [KsArray EXCEPT ![TO_SOCKETFD(sockfd[t] + 1)] = NULL]
  /\ Return(t)
  /\ UNCHANGED <<KsIndex, live, held, halted>>

ClearSlot(t) ==
  /\ pc[t] = "clear"
  /\ KsArray' = [KsArray EXCEPT ![sockfd[t]] = NULL]
  /\ Return(t)
  /\ UNCHANGED <<KsIndex, live, held, halted>>

-----------------------------------------------------------------------------
Step(t) ==
  \/ \E f \in CreateFunctions : Create(t, f)
  \/ \E f \in DOMAIN KsFunction, fd \in Descriptors : CallOn(t, f, fd)
  \/ KsOpens(t)
  \/ KsUses(t)
  \/ KsCloses(t)
  \/ ReadIndex(t)
  \/ BumpIndex(t)
  \/ StoreSlot(t)
  \/ ClearSlot(t)

Next == ~halted /\ \E t \in Threads : Step(t)

Spec == Init /\ [][Next]_vars

-----------------------------------------------------------------------------
\* Every variable keeps to the values its comment names.
TypeOK ==
  /\ KsArray \in [Descriptors -> Handles \cup {NULL}]
  /\ KsIndex \in 0 .. IndexRange - 1
  /\ live \subseteq Handles
  /\ held \subseteq Descriptors
  /\ halted \in BOOLEAN
  /\ pc \in [Threads -> {"idle", "ks", "read", "bump", "store", "clear"}]
  /\ fn \in [Threads -> DOMAIN KsFunction \cup {"none"}]
  /\ sockfd \in [Threads -> Descriptors]
  /\ Socket \in [Threads -> Handles \cup {NULL}]
  /\ new \in [Threads -> Handles \cup {NULL}]
  /\ index \in [Threads -> 0 .. IndexRange - 1]

\* A descriptor the application holds names a KSOCKET that is allocated, and
\* no other descriptor it holds names the same one (berkeley.c:416-420, 565-569).
HeldNamesLive ==
  /\ \A fd \in held : KsArray[fd] \in live
  /\ \A fd, d \in held : KsArray[fd] = KsArray[d] => fd = d

\* A KSOCKET that is allocated can be reached: through a descriptor the
\* application holds or a call that has not returned (berkeley.c:418, 506, 569).
NoOrphan ==
  \A h \in live :
    \/ \E fd \in held : KsArray[fd] = h
    \/ \E t \in Threads : h \in {new[t], Socket[t]}

\* No call passes a missing or a freed KSOCKET down (berkeley.c:471, 565).
NoBadSocket == ~halted

\* The descriptors are those of a BSD-style API: each names its own socket
\* until it is closed, and each call acts on the socket its descriptor names
\* (README.md:8-9, berkeley.c:416-420, 471, 504-508, 565-569).
Table == INSTANCE DescriptorTable WITH
  Objects <- Handles,
  None    <- NULL,
  named   <- [fd \in Descriptors |-> IF fd \in held THEN KsArray[fd] ELSE NULL],
  target  <- Socket

ImplementsDescriptorTable == Table!TableSpec
=============================================================================
