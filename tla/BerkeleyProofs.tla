--------------------------- MODULE BerkeleyProofs ---------------------------
(***************************************************************************)
(* Theorems about the descriptor table of berkeley.c, for any number of    *)
(* threads, slots and index values.  Type correctness holds for every      *)
(* application; the rest needs one that opens sockets in one thread at a   *)
(* time and none while the next slot is in use (Discipline).               *)
(***************************************************************************)
EXTENDS Berkeley, TLAPS

Discipline == OneOpener /\ ClosesInTime

-----------------------------------------------------------------------------
(***************************************************************************)
(* Type correctness.                                                       *)
(***************************************************************************)

LEMMA ModInRange ==
  ASSUME NEW i \in Nat, NEW n \in Nat \ {0}
  PROVE  i % n \in 0 .. n - 1
  OBVIOUS

LEMMA SlotIsDescriptor ==
  ASSUME NEW i \in Nat
  PROVE  TO_SOCKETFD(i) \in Descriptors
  BY ModInRange, BerkeleyAssumption DEF TO_SOCKETFD, Descriptors

LEMMA TypeInit == Init => TypeOK
<1> SUFFICES ASSUME Init PROVE TypeOK
  OBVIOUS
<1>1. 0 \in Descriptors /\ 0 \in 0 .. IndexRange - 1
  BY BerkeleyAssumption DEF Descriptors
<1> QED  BY <1>1 DEF Init, TypeOK

LEMMA TypeReturn ==
  ASSUME TypeOK, NEW t \in Threads, Return(t)
  PROVE  /\ pc' \in [Threads -> {"idle", "ks", "read", "bump", "store", "clear"}]
         /\ fn' \in [Threads -> DOMAIN KsFunction \cup {"none"}]
         /\ sockfd' \in [Threads -> Descriptors]
         /\ Socket' \in [Threads -> Handles \cup {NULL}]
         /\ new' \in [Threads -> Handles \cup {NULL}]
         /\ index' \in [Threads -> 0 .. IndexRange - 1]
  BY BerkeleyAssumption DEF TypeOK, Return, Descriptors

LEMMA TypeStep ==
  ASSUME TypeOK, NEW t \in Threads, Step(t)
  PROVE  TypeOK'
<1>1. ASSUME NEW f \in CreateFunctions, Create(t, f) PROVE TypeOK'
  BY <1>1 DEF TypeOK, Create, Goto, tableVars, CreateFunctions, KsFunction
<1>2. ASSUME NEW f \in DOMAIN KsFunction, NEW fd \in Descriptors, CallOn(t, f, fd)
      PROVE  TypeOK'
  <2>1. KsArray[fd] \in Handles \cup {NULL}
    BY DEF TypeOK
  <2>2. CASE KsArray[fd] \notin live
    BY <1>2, <2>2 DEF TypeOK, CallOn, threadVars
  <2>3. CASE KsArray[fd] \in live
    <3>1. fn' \in [Threads -> DOMAIN KsFunction \cup {"none"}]
      BY <1>2, <2>3 DEF TypeOK, CallOn
    <3> QED  BY <1>2, <2>1, <2>3, <3>1 DEF TypeOK, CallOn, Goto
  <2> QED  BY <2>2, <2>3
<1>3. CASE KsOpens(t)
  <2>1. CASE Return(t) /\ UNCHANGED live
    BY <1>3, <2>1, TypeReturn DEF TypeOK, KsOpens
  <2> QED  BY <1>3, <2>1 DEF TypeOK, KsOpens, Goto
<1>4. CASE KsUses(t)
  BY <1>4, TypeReturn DEF TypeOK, KsUses, tableVars
<1>5. CASE KsCloses(t)
  BY <1>5 DEF TypeOK, KsCloses, Goto
<1>6. CASE ReadIndex(t)
  BY <1>6 DEF TypeOK, ReadIndex, Goto, tableVars
<1>7. CASE BumpIndex(t)
  <2>1. index[t] \in Nat
    BY DEF TypeOK
  <2>2. KsIndex' \in 0 .. IndexRange - 1
    <3>1. index[t] + 1 \in Nat
      BY <2>1
    <3>2. (index[t] + 1) % IndexRange \in 0 .. IndexRange - 1
      BY <3>1, ModInRange, BerkeleyAssumption
    <3> QED  BY <1>7, <3>2 DEF BumpIndex
  <2>3. TO_SOCKETFD(index[t]) \in Descriptors
    BY <2>1, SlotIsDescriptor
  <2> QED  BY <1>7, <2>2, <2>3 DEF TypeOK, BumpIndex, Goto
<1>8. CASE StoreSlot(t)
  <2>1. new[t] \in Handles \cup {NULL} /\ sockfd[t] \in Descriptors
    BY DEF TypeOK
  <2> QED  BY <1>8, <2>1, TypeReturn DEF TypeOK, StoreSlot
<1>9. CASE ClearSlot(t)
  BY <1>9, TypeReturn DEF TypeOK, ClearSlot
<1> QED  BY <1>1, <1>2, <1>3, <1>4, <1>5, <1>6, <1>7, <1>8, <1>9 DEF Step

LEMMA TypeNext == TypeOK /\ [Next]_vars => TypeOK'
<1>1. TypeOK /\ UNCHANGED vars => TypeOK'
  BY DEF TypeOK, vars, threadVars, tableVars
<1> QED  BY <1>1, TypeStep DEF Next

\* Slots, indices and KSOCKET pointers keep to their ranges: in particular
\* every descriptor indexes KsArray, across the wrap of KsIndex too
\* (berkeley.c:8-11, 416, 439, 463, 504).
THEOREM TableTypeCorrect == Spec => []TypeOK
  BY TypeInit, TypeNext, PTL DEF Spec

-----------------------------------------------------------------------------
(***************************************************************************)
(* The inductive invariant.  An opening thread has a slot reserved by the  *)
(* index from the moment it is called; a closing thread has the only       *)
(* pointer to a KSOCKET no descriptor names any more.                      *)
(***************************************************************************)

HasNew(t) == pc[t] \in {"read", "bump", "store"}
Closing(t) == fn[t] = "closesocket" /\ pc[t] = "ks"

\* The slot an opening thread will store to.
Slot(t) == CASE pc[t] = "bump" -> TO_SOCKETFD(index[t])
             [] pc[t] = "store" -> sockfd[t]
             [] OTHER -> TO_SOCKETFD(KsIndex)

\* The position of a thread fits its function.
PlaceInv ==
  \A t \in Threads :
    /\ (pc[t] = "idle") <=> (fn[t] = "none")
    /\ pc[t] = "idle" => Socket[t] = NULL
    /\ HasNew(t) => fn[t] \in OpenFunctions
    /\ pc[t] = "clear" => fn[t] = "closesocket"
    /\ pc[t] = "bump" => index[t] = KsIndex

\* One thread opens a socket, and no descriptor in use names its slot.
SlotInv ==
  /\ \A t, u \in Threads : fn[t] \in OpenFunctions /\ fn[u] \in OpenFunctions => t = u
  /\ \A t \in Threads : fn[t] \in OpenFunctions =>
       /\ Slot(t) \notin held
       /\ \A u \in Threads : fn[u] = "closesocket" => sockfd[u] # Slot(t)

\* A new KSOCKET is not in the table yet.
NewInv ==
  \A t \in Threads : HasNew(t) =>
    /\ new[t] \in live
    /\ \A fd \in held : KsArray[fd] # new[t]
    /\ \A u \in Threads : Closing(u) => Socket[u] # new[t]

\* A KSOCKET that is being closed is no other descriptor's.
CloseInv ==
  /\ \A t \in Threads : fn[t] = "closesocket" => sockfd[t] \notin held
  /\ \A t \in Threads : Closing(t) =>
       /\ Socket[t] \in live
       /\ \A fd \in held : KsArray[fd] # Socket[t]
  /\ \A t, u \in Threads : Closing(t) /\ Closing(u) /\ Socket[t] = Socket[u] => t = u

\* A KSOCKET is named by a descriptor, or being opened or closed.
ReachInv ==
  \A h \in live :
    \/ \E fd \in held : KsArray[fd] = h
    \/ \E t \in Threads : (HasNew(t) /\ new[t] = h) \/ (Closing(t) /\ Socket[t] = h)

TableInv == /\ TypeOK /\ ~halted
            /\ PlaceInv /\ SlotInv /\ NewInv /\ CloseInv
            /\ HeldNamesLive /\ ReachInv

-----------------------------------------------------------------------------
(***************************************************************************)
(* Every step preserves it.                                                *)
(***************************************************************************)

LEMMA FunctionKinds ==
  /\ "none" \notin OpenFunctions \cup UseFunctions
  /\ "closesocket" \notin OpenFunctions \cup UseFunctions
  /\ \A f \in UseFunctions : f \notin OpenFunctions
  /\ CreateFunctions \subseteq OpenFunctions
  /\ \A f \in OpenFunctions : f # "none" /\ f # "closesocket"
  /\ \A f \in DOMAIN KsFunction : f # "none"
  BY DEF OpenFunctions, CreateFunctions, UseFunctions, KsFunction

LEMMA TableInit == Init => TableInv
<1> SUFFICES ASSUME Init PROVE TableInv
  OBVIOUS
<1>1. TypeOK
  BY TypeInit
<1>2. PlaceInv /\ SlotInv /\ NewInv /\ CloseInv /\ HeldNamesLive /\ ReachInv
  BY FunctionKinds
  DEF Init, PlaceInv, SlotInv, NewInv, CloseInv, HeldNamesLive, ReachInv,
      HasNew, Closing
<1> QED  BY <1>1, <1>2 DEF TableInv, Init

LEMMA CreateInv ==
  ASSUME Discipline, TableInv, TypeOK',
         NEW t \in Threads, NEW f \in CreateFunctions, Create(t, f)
  PROVE  TableInv'
<1> USE DEF TableInv
<1>1. /\ f \in OpenFunctions
      /\ pc[t] = "idle" /\ fn[t] = "none"
      /\ pc' = [pc EXCEPT ![t] = "ks"] /\ fn' = [fn EXCEPT ![t] = f]
      /\ UNCHANGED <<sockfd, Socket, new, index, tableVars>>
  BY FunctionKinds DEF Create, Goto, PlaceInv
<1>2. pc'[t] = "ks" /\ fn'[t] = f
  BY <1>1 DEF TypeOK
<1>3. \A u \in Threads \ {t} : pc'[u] = pc[u] /\ fn'[u] = fn[u]
  BY <1>1 DEF TypeOK
<1>4. \A u \in Threads : HasNew(u)' <=> HasNew(u)
  BY <1>1, <1>2, <1>3 DEF HasNew
<1>5. \A u \in Threads : Closing(u)' <=> Closing(u)
  BY <1>1, <1>2, <1>3, FunctionKinds DEF Closing
<1>6. \A u \in Threads \ {t} : Slot(u)' = Slot(u)
  BY <1>1, <1>3 DEF Slot, tableVars
<1>7. PlaceInv'
  BY <1>1, <1>2, <1>3, <1>4, FunctionKinds DEF PlaceInv, tableVars
<1>8. SlotInv'
  BY <1>1, <1>2, <1>3, <1>6, FunctionKinds
  DEF SlotInv, Discipline, Create, MayOpen, Slot, tableVars
<1>9. NewInv' /\ CloseInv' /\ HeldNamesLive' /\ ReachInv' /\ ~halted'
  <2>1. NewInv'
    BY <1>1, <1>4, <1>5 DEF NewInv, tableVars
  <2>2. CloseInv'
    BY <1>1, <1>2, <1>3, <1>5, FunctionKinds DEF CloseInv, tableVars
  <2>3. HeldNamesLive' /\ ~halted'
    BY <1>1 DEF HeldNamesLive, tableVars
  <2>4. ReachInv'
    BY <1>1, <1>4, <1>5 DEF ReachInv, tableVars
  <2> QED  BY <2>1, <2>2, <2>3, <2>4
<1> QED  BY <1>7, <1>8, <1>9

\* A thread that has neither a new KSOCKET nor one to close returns.
LEMMA ReturnInv ==
  ASSUME TableInv, TypeOK', NEW t \in Threads, Return(t),
         ~HasNew(t), ~Closing(t),
         UNCHANGED <<KsIndex, live, held, halted>>,
         \A fd \in held : KsArray'[fd] = KsArray[fd]
  PROVE  TableInv'
<1> USE DEF TableInv
<1>1. pc'[t] = "idle" /\ fn'[t] = "none" /\ Socket'[t] = NULL
  BY DEF TypeOK, Return
<1>2. \A u \in Threads \ {t} :
        /\ pc'[u] = pc[u] /\ fn'[u] = fn[u] /\ sockfd'[u] = sockfd[u]
        /\ Socket'[u] = Socket[u] /\ new'[u] = new[u] /\ index'[u] = index[u]
  BY DEF TypeOK, Return
<1>3. \A u \in Threads : /\ HasNew(u)' <=> (u # t /\ HasNew(u))
                         /\ Closing(u)' <=> (u # t /\ Closing(u))
  BY <1>1, <1>2 DEF HasNew, Closing
<1>4. \A u \in Threads \ {t} : Slot(u)' = Slot(u)
  BY <1>2 DEF Slot
<1>5. PlaceInv'
  BY <1>1, <1>2, <1>3 DEF PlaceInv
<1>6. SlotInv'
  BY <1>1, <1>2, <1>4, FunctionKinds DEF SlotInv
<1>7. NewInv'
  BY <1>2, <1>3 DEF NewInv
<1>8. CloseInv'
  BY <1>1, <1>2, <1>3 DEF CloseInv
<1>9. HeldNamesLive' /\ ~halted'
  BY DEF HeldNamesLive
<1>10. ReachInv'
  BY <1>2, <1>3 DEF ReachInv
<1> QED  BY <1>5, <1>6, <1>7, <1>8, <1>9, <1>10

LEMMA CallOnInv ==
  ASSUME Discipline, TableInv, TypeOK', NEW t \in Threads,
         NEW f \in DOMAIN KsFunction, NEW fd \in Descriptors, CallOn(t, f, fd)
  PROVE  TableInv'
<1> USE DEF TableInv
<1>1. /\ pc[t] = "idle" /\ fn[t] = "none" /\ fd \in held /\ KsArray[fd] \in live
      /\ pc' = [pc EXCEPT ![t] = "ks"] /\ fn' = [fn EXCEPT ![t] = f]
      /\ sockfd' = [sockfd EXCEPT ![t] = fd]
      /\ Socket' = [Socket EXCEPT ![t] = KsArray[fd]]
      /\ held' = IF f = "closesocket" THEN held \ {fd} ELSE held
      /\ UNCHANGED <<new, index, halted, KsArray, KsIndex, live>>
  BY DEF CallOn, MayPass, HeldNamesLive, Goto, PlaceInv
<1>2. /\ pc'[t] = "ks" /\ fn'[t] = f /\ sockfd'[t] = fd /\ Socket'[t] = KsArray[fd]
      /\ held' \subseteq held
  BY <1>1 DEF TypeOK
<1>3. \A u \in Threads \ {t} :
        /\ pc'[u] = pc[u] /\ fn'[u] = fn[u] /\ sockfd'[u] = sockfd[u]
        /\ Socket'[u] = Socket[u]
  BY <1>1 DEF TypeOK
<1>4. \A u \in Threads : HasNew(u)' <=> HasNew(u)
  BY <1>1, <1>2, <1>3 DEF HasNew
<1>5. /\ \A u \in Threads \ {t} : Closing(u)' <=> Closing(u)
      /\ Closing(t)' <=> f = "closesocket"
      /\ ~Closing(t)
  BY <1>1, <1>2, <1>3 DEF Closing
<1>6. \A u \in Threads \ {t} : Slot(u)' = Slot(u)
  BY <1>1, <1>3 DEF Slot
<1>7. PlaceInv'
  BY <1>1, <1>2, <1>3, <1>4, FunctionKinds DEF PlaceInv
<1>8. SlotInv'
  <2>1. \A u, v \in Threads :
          fn'[u] \in OpenFunctions /\ fn'[v] \in OpenFunctions => u = v
    BY <1>2, <1>3 DEF SlotInv, CallOn, Discipline, MayOpen
  <2>2. \A u \in Threads \ {t} : fn[u] \in OpenFunctions =>
          /\ Slot(u)' \notin held'
          /\ \A v \in Threads : fn'[v] = "closesocket" => sockfd'[v] # Slot(u)'
    BY <1>1, <1>2, <1>3, <1>6 DEF SlotInv
  <2>3. f \in OpenFunctions =>
          /\ Slot(t)' \notin held'
          /\ \A v \in Threads : fn'[v] = "closesocket" => sockfd'[v] # Slot(t)'
    BY <1>1, <1>2, <1>3, FunctionKinds DEF CallOn, Discipline, MayOpen, Slot
  <2> QED  BY <1>2, <1>3, <2>1, <2>2, <2>3 DEF SlotInv
<1>9. NewInv'
  BY <1>1, <1>2, <1>3, <1>4, <1>5 DEF NewInv
<1>10. CloseInv'
  <2>1. \A u \in Threads : fn'[u] = "closesocket" => sockfd'[u] \notin held'
    BY <1>1, <1>2, <1>3 DEF CloseInv
  <2>2. \A u \in Threads : Closing(u)' =>
          /\ Socket'[u] \in live
          /\ \A d \in held' : KsArray[d] # Socket'[u]
    BY <1>1, <1>2, <1>3, <1>5 DEF CloseInv, HeldNamesLive
  <2>3. \A u, v \in Threads :
          Closing(u)' /\ Closing(v)' /\ Socket'[u] = Socket'[v] => u = v
    BY <1>1, <1>2, <1>3, <1>5 DEF CloseInv
  <2> QED  BY <1>1, <2>1, <2>2, <2>3 DEF CloseInv
<1>11. HeldNamesLive' /\ ~halted'
  BY <1>1, <1>2 DEF HeldNamesLive
<1>12. ReachInv'
  BY <1>1, <1>2, <1>3, <1>4, <1>5 DEF ReachInv
<1> QED  BY <1>7, <1>8, <1>9, <1>10, <1>11, <1>12

\* The moves of a thread that keeps its function: only its own locals and,
\* in OpensInv and ClosesInv, the set of live KSOCKETs change.
LEMMA OpensInv ==
  ASSUME TableInv, TypeOK', NEW t \in Threads, KsOpens(t)
  PROVE  TableInv'
<1> USE DEF TableInv
<1>1. CASE Return(t) /\ UNCHANGED live
  <2>1. ~HasNew(t) /\ ~Closing(t)
    BY FunctionKinds DEF KsOpens, HasNew, Closing
  <2> QED  BY <1>1, <2>1, ReturnInv DEF KsOpens
<1>2. ASSUME NEW h \in Handles \ live, live' = live \cup {h},
             new' = [new EXCEPT ![t] = h], Goto(t, "read"),
             UNCHANGED <<fn, sockfd, Socket, index, KsArray, KsIndex, held, halted>>
      PROVE  TableInv'
  <2>1. pc'[t] = "read" /\ new'[t] = h /\ pc[t] = "ks" /\ fn[t] \in OpenFunctions
    BY <1>2 DEF TypeOK, Goto, KsOpens
  <2>2. \A u \in Threads \ {t} : pc'[u] = pc[u] /\ new'[u] = new[u]
    BY <1>2 DEF TypeOK, Goto
  <2>3. \A u \in Threads : /\ HasNew(u)' <=> (u = t \/ HasNew(u))
                           /\ Closing(u)' <=> Closing(u)
    BY <1>2, <2>1, <2>2, FunctionKinds DEF HasNew, Closing
  <2>4. \A u \in Threads : Slot(u)' = Slot(u)
    BY <1>2, <2>1, <2>2 DEF Slot
  <2>5. PlaceInv'
    BY <1>2, <2>1, <2>2, <2>3 DEF PlaceInv
  <2>6. SlotInv'
    BY <1>2, <2>4 DEF SlotInv
  <2>7. NewInv'
    BY <1>2, <2>1, <2>2, <2>3 DEF NewInv, CloseInv, HeldNamesLive
  <2>8. CloseInv'
    BY <1>2, <2>3 DEF CloseInv
  <2>9. HeldNamesLive' /\ ~halted'
    BY <1>2 DEF HeldNamesLive
  <2>10. ReachInv'
    BY <1>2, <2>1, <2>2, <2>3 DEF ReachInv, HasNew
  <2> QED  BY <2>5, <2>6, <2>7, <2>8, <2>9, <2>10
<1> QED  BY <1>1, <1>2 DEF KsOpens

LEMMA ClosesInv ==
  ASSUME TableInv, TypeOK', NEW t \in Threads, KsCloses(t)
  PROVE  TableInv'
<1> USE DEF TableInv
<1>1. /\ Closing(t) /\ live' = live \ {Socket[t]} /\ pc' = [pc EXCEPT ![t] = "clear"]
      /\ UNCHANGED <<fn, sockfd, Socket, new, index, KsArray, KsIndex, held, halted>>
  BY DEF KsCloses, Goto, Closing
<1>2. pc'[t] = "clear" /\ fn[t] = "closesocket" /\ pc[t] = "ks"
  BY <1>1 DEF TypeOK, Closing
<1>3. \A u \in Threads \ {t} : pc'[u] = pc[u]
  BY <1>1 DEF TypeOK
<1>4. \A u \in Threads : /\ HasNew(u)' <=> HasNew(u)
                         /\ Closing(u)' <=> (u # t /\ Closing(u))
  BY <1>1, <1>2, <1>3 DEF HasNew, Closing
<1>5. \A u \in Threads : Slot(u)' = Slot(u)
  BY <1>1, <1>2, <1>3 DEF Slot
<1>6. PlaceInv'
  BY <1>1, <1>2, <1>3, <1>4 DEF PlaceInv
<1>7. SlotInv'
  BY <1>1, <1>5 DEF SlotInv
<1>8. NewInv'
  BY <1>1, <1>4 DEF NewInv
<1>9. CloseInv'
  BY <1>1, <1>4 DEF CloseInv
<1>10. HeldNamesLive' /\ ~halted'
  BY <1>1 DEF HeldNamesLive, CloseInv
<1>11. ReachInv'
  BY <1>1, <1>4 DEF ReachInv
<1> QED  BY <1>6, <1>7, <1>8, <1>9, <1>10, <1>11

\* ReadIndex and BumpIndex keep the slot that is reserved.
LEMMA IndexInv ==
  ASSUME TableInv, TypeOK', NEW t \in Threads, ReadIndex(t) \/ BumpIndex(t)
  PROVE  TableInv'
<1> USE DEF TableInv
<1>1. /\ HasNew(t) /\ fn[t] \in OpenFunctions
      /\ UNCHANGED <<fn, Socket, new, KsArray, live, held, halted>>
  BY DEF ReadIndex, BumpIndex, HasNew, PlaceInv, tableVars
<1>2. \A u \in Threads \ {t} :
        /\ pc'[u] = pc[u] /\ sockfd'[u] = sockfd[u] /\ index'[u] = index[u]
        /\ fn[u] \notin OpenFunctions /\ ~HasNew(u)
  BY <1>1 DEF TypeOK, ReadIndex, BumpIndex, Goto, SlotInv, PlaceInv
<1>3. pc'[t] \in {"bump", "store"} /\ Slot(t)' = Slot(t)
  BY DEF TypeOK, ReadIndex, BumpIndex, Goto, Slot, tableVars
<1>4. pc'[t] = "bump" => index'[t] = KsIndex'
  BY DEF TypeOK, ReadIndex, BumpIndex, Goto, tableVars
<1>5. \A u \in Threads : HasNew(u)' <=> HasNew(u)
  BY <1>1, <1>2, <1>3 DEF HasNew
<1>6. \A u \in Threads : Closing(u)' <=> Closing(u)
  BY <1>1, <1>2, <1>3, FunctionKinds DEF Closing
<1>7. \A u \in Threads : fn[u] = "closesocket" => sockfd'[u] = sockfd[u]
  BY <1>1, <1>2, FunctionKinds
<1>8. PlaceInv'
  BY <1>1, <1>2, <1>3, <1>4, <1>5, FunctionKinds DEF PlaceInv, HasNew
<1>9. SlotInv'
  BY <1>1, <1>2, <1>3, <1>7 DEF SlotInv
<1>10. NewInv'
  BY <1>1, <1>5, <1>6 DEF NewInv
<1>11. CloseInv'
  BY <1>1, <1>6, <1>7 DEF CloseInv
<1>12. HeldNamesLive' /\ ~halted' /\ ReachInv'
  BY <1>1, <1>5, <1>6 DEF HeldNamesLive, ReachInv
<1> QED  BY <1>8, <1>9, <1>10, <1>11, <1>12

LEMMA StoreInv ==
  ASSUME TableInv, TypeOK', NEW t \in Threads, StoreSlot(t)
  PROVE  TableInv'
<1> USE DEF TableInv
<1>1. /\ pc[t] = "store" /\ HasNew(t) /\ fn[t] \in OpenFunctions
      /\ Slot(t) = sockfd[t] /\ sockfd[t] \in Descriptors \ held
      /\ KsArray' = [KsArray EXCEPT ![sockfd[t]] = new[t]]
      /\ held' = held \cup {sockfd[t]}
      /\ Return(t)
      /\ UNCHANGED <<KsIndex, live, halted>>
  BY DEF StoreSlot, HasNew, PlaceInv, SlotInv, Slot, TypeOK
<1>2. /\ KsArray'[sockfd[t]] = new[t]
      /\ \A fd \in held : KsArray'[fd] = KsArray[fd]
  BY <1>1 DEF TypeOK
<1>3. pc'[t] = "idle" /\ fn'[t] = "none" /\ Socket'[t] = NULL
  BY <1>1 DEF TypeOK, Return
<1>4. \A u \in Threads \ {t} :
        /\ pc'[u] = pc[u] /\ fn'[u] = fn[u] /\ sockfd'[u] = sockfd[u]
        /\ Socket'[u] = Socket[u] /\ new'[u] = new[u] /\ index'[u] = index[u]
        /\ fn[u] \notin OpenFunctions /\ ~HasNew(u)
  BY <1>1 DEF TypeOK, Return, SlotInv, PlaceInv
<1>5. \A u \in Threads : /\ ~HasNew(u)'
                         /\ Closing(u)' <=> Closing(u)
                         /\ Closing(u) => u # t
  BY <1>1, <1>3, <1>4, FunctionKinds DEF HasNew, Closing
<1>6. PlaceInv'
  BY <1>1, <1>3, <1>4, <1>5 DEF PlaceInv
<1>7. SlotInv'
  BY <1>3, <1>4, FunctionKinds DEF SlotInv
<1>8. NewInv'
  BY <1>5 DEF NewInv
<1>9. CloseInv'
  <2>1. \A u \in Threads : fn'[u] = "closesocket" => sockfd'[u] \notin held'
    BY <1>1, <1>3, <1>4 DEF CloseInv, SlotInv
  <2>2. \A u \in Threads : Closing(u) => \A fd \in held' : KsArray'[fd] # Socket[u]
    BY <1>1, <1>2 DEF CloseInv, NewInv
  <2> QED  BY <1>1, <1>4, <1>5, <2>1, <2>2 DEF CloseInv
<1>10. HeldNamesLive' /\ ~halted'
  BY <1>1, <1>2 DEF HeldNamesLive, NewInv
<1>11. ReachInv'
  <2>1. \A h \in live : h # new[t] =>
          \/ \E fd \in held' : KsArray'[fd] = h
          \/ \E u \in Threads : Closing(u)' /\ Socket'[u] = h
    BY <1>1, <1>2, <1>4, <1>5 DEF ReachInv
  <2> QED  BY <1>1, <1>2, <2>1 DEF ReachInv
<1> QED  BY <1>6, <1>7, <1>8, <1>9, <1>10, <1>11

LEMMA NextInv == Discipline /\ TableInv /\ [Next]_vars => TableInv'
<1> SUFFICES ASSUME Discipline, TableInv, [Next]_vars
             PROVE  TableInv'
  OBVIOUS
<1>1. TypeOK'
  BY TypeNext DEF TableInv
<1>2. CASE UNCHANGED vars
  BY <1>1, <1>2
  DEF TableInv, vars, threadVars, tableVars, PlaceInv, SlotInv, NewInv, CloseInv,
      HeldNamesLive, ReachInv, HasNew, Closing, Slot
<1>3. ASSUME NEW t \in Threads, Step(t) PROVE TableInv'
  <2>1. CASE KsUses(t)
    BY <1>1, <2>1, ReturnInv, FunctionKinds
    DEF KsUses, HasNew, Closing, tableVars
  <2>2. CASE ClearSlot(t)
    <3>1. fn[t] = "closesocket" /\ sockfd[t] \notin held
      BY <2>2 DEF ClearSlot, TableInv, PlaceInv, CloseInv
    <3>2. \A fd \in held : KsArray'[fd] = KsArray[fd]
      BY <2>2, <3>1 DEF ClearSlot, TableInv, TypeOK
    <3> QED  BY <1>1, <2>2, <3>2, ReturnInv DEF ClearSlot, HasNew, Closing
  <2> QED
    BY <1>1, <1>3, <2>1, <2>2, CreateInv, CallOnInv, OpensInv, ClosesInv,
       IndexInv, StoreInv
    DEF Step
<1> QED  BY <1>2, <1>3 DEF Next

LEMMA TableInvAlways == Discipline /\ Spec => []TableInv
<1> SUFFICES ASSUME Discipline PROVE Spec => []TableInv
  OBVIOUS
<1>1. TableInv /\ [Next]_vars => TableInv'
  BY NextInv
<1> QED  BY <1>1, TableInit, PTL DEF Spec

-----------------------------------------------------------------------------
\* Under the discipline every descriptor the application holds names its own
\* KSOCKET, which is allocated (berkeley.c:416-420, 565-569).
THEOREM HeldAreLive == Discipline /\ Spec => []HeldNamesLive
<1>1. TableInv => HeldNamesLive
  BY DEF TableInv
<1> QED  BY <1>1, TableInvAlways, PTL

\* And no KSOCKET is lost (berkeley.c:418, 506, 569).
THEOREM NoneOrphaned == Discipline /\ Spec => []NoOrphan
<1>1. TableInv => NoOrphan
  BY DEF TableInv, ReachInv, NoOrphan
<1> QED  BY <1>1, TableInvAlways, PTL

\* No function of ksocket.c is called without a KSOCKET or with a freed one
\* (berkeley.c:471-561).
THEOREM NoneBad == Discipline /\ Spec => []NoBadSocket
<1>1. TableInv => NoBadSocket
  BY DEF TableInv, NoBadSocket
<1> QED  BY <1>1, TableInvAlways, PTL

-----------------------------------------------------------------------------
(***************************************************************************)
(* The refinement.  Named is the abstract table: what each descriptor that *)
(* is held names.                                                          *)
(***************************************************************************)

Named == [fd \in Descriptors |-> IF fd \in held THEN KsArray[fd] ELSE NULL]

\* Calling with a descriptor is a StartCall; every other step but StoreSlot
\* leaves the abstract table alone and ends at most the call of its thread.
LEMMA SimulateCallOn ==
  ASSUME TableInv, NEW t \in Threads, NEW f \in DOMAIN KsFunction,
         NEW fd \in Descriptors, CallOn(t, f, fd)
  PROVE  Table!StartCall(t, fd)
<1>1. /\ pc[t] = "idle" /\ fd \in held /\ KsArray[fd] \in live
      /\ Socket' = [Socket EXCEPT ![t] = KsArray[fd]]
      /\ held' = IF f = "closesocket" THEN held \ {fd} ELSE held
      /\ UNCHANGED KsArray
  BY DEF CallOn, MayPass, TableInv, HeldNamesLive
<1>2. Socket[t] = NULL
  BY <1>1 DEF TableInv, PlaceInv
<1>3. KsArray[fd] # NULL
  BY <1>1, BerkeleyAssumption DEF TableInv, TypeOK
<1>4. Named[fd] = KsArray[fd]
  BY <1>1 DEF Named
<1>5. Named' \in {Named, [Named EXCEPT ![fd] = NULL]}
  BY <1>1 DEF Named
<1> QED  BY <1>1, <1>2, <1>3, <1>4, <1>5 DEF Table!StartCall, Named

LEMMA SimulateStore ==
  ASSUME TableInv, NEW t \in Threads, StoreSlot(t)
  PROVE  \E fd \in Descriptors, h \in Handles : Table!Open(fd, h) /\ Table!EndCall(t)
<1>1. /\ sockfd[t] \in Descriptors \ held /\ new[t] \in live /\ live \subseteq Handles
      /\ KsArray' = [KsArray EXCEPT ![sockfd[t]] = new[t]]
      /\ held' = held \cup {sockfd[t]}
      /\ Socket' = [Socket EXCEPT ![t] = NULL]
  BY DEF StoreSlot, Return, HasNew, TableInv, PlaceInv, SlotInv, NewInv, Slot, TypeOK
<1>2. Named[sockfd[t]] = NULL
  BY <1>1 DEF Named
<1>3. \A d \in Descriptors : Named[d] # new[t]
  BY <1>1, BerkeleyAssumption DEF Named, TableInv, NewInv, HasNew, StoreSlot
<1>4. Named' = [Named EXCEPT ![sockfd[t]] = new[t]]
  BY <1>1 DEF Named, TableInv, TypeOK
<1> QED  BY <1>1, <1>2, <1>3, <1>4 DEF Table!Open, Table!EndCall, Named

LEMMA SimulateOther ==
  ASSUME TableInv, NEW t \in Threads,
         \/ \E f \in CreateFunctions : Create(t, f)
         \/ KsOpens(t) \/ KsUses(t) \/ KsCloses(t)
         \/ ReadIndex(t) \/ BumpIndex(t) \/ ClearSlot(t)
  PROVE  /\ UNCHANGED Named
         /\ Table!EndCall(t) \/ UNCHANGED Socket
<1>1. UNCHANGED held
  BY DEF Create, KsOpens, KsUses, KsCloses, ReadIndex, BumpIndex, ClearSlot, tableVars
<1>2. UNCHANGED Named
  <2>1. CASE ClearSlot(t)
    <3>1. sockfd[t] \notin held
      BY <2>1 DEF ClearSlot, TableInv, PlaceInv, CloseInv
    <3> QED  BY <1>1, <2>1, <3>1 DEF ClearSlot, Named, TableInv, TypeOK
  <2>2. CASE UNCHANGED KsArray
    BY <1>1, <2>2 DEF Named
  <2> QED
    BY <2>1, <2>2
    DEF Create, KsOpens, KsUses, KsCloses, ReadIndex, BumpIndex, tableVars
<1>3. Table!EndCall(t) \/ UNCHANGED Socket
  BY DEF Create, KsOpens, KsUses, KsCloses, ReadIndex, BumpIndex, ClearSlot,
         Return, Table!EndCall
<1> QED  BY <1>2, <1>3

\* Under the discipline berkeley.c implements the descriptor table of a
\* BSD-style API: a descriptor names one socket from the open that returned it
\* to its closesocket, and each call acts on the socket its descriptor names.
THEOREM DescriptorTableImplemented == Discipline /\ Spec => ImplementsDescriptorTable
<1> SUFFICES ASSUME Discipline PROVE Spec => ImplementsDescriptorTable
  OBVIOUS
<1>1. Init => Table!TableInit
  BY DEF Init, Table!TableInit
<1>2. TableInv /\ [Next]_vars => [Table!TableNext]_(Table!tableVars)
  <2> SUFFICES ASSUME TableInv, [Next]_vars
               PROVE  Table!TableNext \/ UNCHANGED Table!tableVars
    OBVIOUS
  <2>1. CASE UNCHANGED vars
    BY <2>1 DEF vars, threadVars, tableVars, Table!tableVars
  <2>2. ASSUME NEW t \in Threads, Step(t)
        PROVE  Table!TableNext \/ UNCHANGED Table!tableVars
    <3>1. ASSUME NEW f \in DOMAIN KsFunction, NEW fd \in Descriptors, CallOn(t, f, fd)
          PROVE  Table!TableNext
      BY <3>1, SimulateCallOn DEF Table!TableNext
    <3>2. CASE StoreSlot(t)
      BY <3>2, SimulateStore DEF Table!TableNext
    <3>3. CASE \/ \E f \in CreateFunctions : Create(t, f)
               \/ KsOpens(t) \/ KsUses(t) \/ KsCloses(t)
               \/ ReadIndex(t) \/ BumpIndex(t) \/ ClearSlot(t)
      <4>1. UNCHANGED Named /\ (Table!EndCall(t) \/ UNCHANGED Socket)
        BY <3>3, SimulateOther
      <4> QED  BY <4>1 DEF Table!TableNext, Table!tableVars, Named
    <3> QED  BY <2>2, <3>1, <3>2, <3>3 DEF Step
  <2> QED  BY <2>1, <2>2 DEF Next
<1>3. TableInv /\ [Next]_vars => TableInv'
  BY NextInv
<1> QED
  BY <1>1, <1>2, <1>3, TableInit, PTL
  DEF Spec, ImplementsDescriptorTable, Table!TableSpec
=============================================================================
