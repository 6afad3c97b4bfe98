--------------------------- MODULE AddrInfoProofs ---------------------------
(***************************************************************************)
(* Theorems about getaddrinfo, for lists of any length.  The invariant     *)
(* says exactly what a call has allocated at each of its steps.            *)
(***************************************************************************)
EXTENDS AddrInfo, TLAPS

\* The converted strings, from "service" and from "hints" on.
Node    == IF call.node THEN {NodeName} ELSE {}
Strings == Node \cup IF call.service THEN {ServiceName} ELSE {}

\* What is allocated at each step; in an unwinding, if the call is Foreseen.
Holdings ==
  CASE pc = "node"    -> CallerNames
    [] pc = "service" -> CallerNames \cup Node
    [] pc = "hints"   -> CallerNames \cup Strings \cup Blocks("hints", call.hints, at - 1)
    [] pc = "resolve" -> CallerNames \cup Strings \cup HintBlocks
    [] pc = "res"     -> CallerNames \cup Strings \cup WskBlocks
                           \cup Blocks("res", list, at - 1)
    [] pc = "held"    -> CallerNames \cup Strings \cup ResBlocks
    [] pc = "freed"   -> CallerNames \cup Strings
    [] pc = "unwind"  -> CallerNames \cup Strings
                           \cup (IF side = "res" THEN WskBlocks \cup Blocks("res", list, at)
                                                 ELSE {})
    [] pc = "failed"  -> CallerNames

PlaceInv ==
  /\ pc \in {"node", "service", "hints", "resolve"} => side = "hints"
  /\ pc \in {"res", "held", "freed"} => side = "res"
  /\ pc \in {"hints", "res"} => at >= 1
  /\ pc = "unwind" => at < Len(Source(side))

Failing == pc \in {"unwind", "failed"}

Ledger == (Failing => Foreseen) => mem = Holdings /\ ~bad

LedgerInv == TypeOK /\ PlaceInv /\ Ledger

-----------------------------------------------------------------------------
LEMMA Constants ==
  ASSUME TypeOK
  PROVE  /\ call.node \in BOOLEAN /\ call.service \in BOOLEAN
         /\ call.hints \in Seq(BOOLEAN) /\ list \in Seq(BOOLEAN)
         /\ Len(call.hints) \in Nat /\ Len(list) \in Nat
         /\ Len(Source(side)) \in Nat
  BY AddrInfoAssumption DEF TypeOK, Source

LEMMA PlaceInit == Init => TypeOK /\ PlaceInv
<1> SUFFICES ASSUME Init PROVE TypeOK /\ PlaceInv
  OBVIOUS
<1>1. Len(call.hints) \in Nat /\ Source(side) = call.hints
  BY AddrInfoAssumption DEF Init, Source
<1>2. at \in 0 .. Len(Source(side)) + 1
  BY <1>1 DEF Init
<1>3. TypeOK
  BY <1>2 DEF Init, TypeOK
<1>4. PlaceInv
  BY DEF Init, PlaceInv
<1> QED  BY <1>3, <1>4

LEMMA PlaceNext ==
  ASSUME TypeOK, PlaceInv, [Next]_vars
  PROVE  TypeOK' /\ PlaceInv'
<1>1. CASE UNCHANGED vars
  BY <1>1 DEF vars, TypeOK, PlaceInv, Source
<1>2. CASE Next
  <2>1. UNCHANGED <<call, list>>
    BY <1>2
    DEF Next, ConvertNode, ConvertService, ConvertElement, UnwindElement,
        ConversionFails, HintsConverted, KsGetAddrInfo, ResultConverted, freeaddrinfo
  <2>2. bad' \in BOOLEAN
    BY <1>2
    DEF TypeOK, Next, ConvertNode, ConvertService, ConvertElement, UnwindElement,
        ConversionFails, HintsConverted, KsGetAddrInfo, ResultConverted,
        freeaddrinfo, Allocate, Free, Error2, Error3
  <2> DEFINE Placed ==
        /\ pc' \in {"node", "service", "hints", "resolve", "res", "unwind",
                    "held", "freed", "failed"}
        /\ side' \in {"hints", "res"}
        /\ at' \in 0 .. Len(Source(side)') + 1
        /\ PlaceInv'
  <2>3. Placed
    <3> USE <2>1, Constants DEF TypeOK, PlaceInv, Source, Goto
    <3>1. CASE ConvertNode
      BY <3>1 DEF ConvertNode
    <3>2. CASE ConvertService
      BY <3>2 DEF ConvertService
    <3>3. CASE ConvertElement
      BY <3>3 DEF ConvertElement
    <3>4. CASE UnwindElement
      BY <3>4 DEF UnwindElement
    <3>5. CASE ConversionFails
      BY <3>5 DEF ConversionFails
    <3>6. CASE HintsConverted
      BY <3>6 DEF HintsConverted
    <3>7. CASE KsGetAddrInfo
      BY <3>7 DEF KsGetAddrInfo
    <3>8. CASE ResultConverted
      BY <3>8 DEF ResultConverted
    <3>9. CASE freeaddrinfo
      BY <3>9 DEF freeaddrinfo
    <3> QED  BY <1>2, <3>1, <3>2, <3>3, <3>4, <3>5, <3>6, <3>7, <3>8, <3>9 DEF Next
  <2> QED  BY <2>1, <2>2, <2>3 DEF TypeOK
<1> QED  BY <1>1, <1>2

\* The variables of getaddrinfo keep their types, and it never reads beyond
\* the end of a list it converts or unwinds (berkeley.c:120-128, 213-222).
THEOREM AddrInfoTypeCorrect == Spec => []TypeOK
<1>1. TypeOK /\ PlaceInv /\ [Next]_vars => TypeOK' /\ PlaceInv'
  BY PlaceNext
<1> QED  BY <1>1, PlaceInit, PTL DEF Spec

-----------------------------------------------------------------------------
\* The memory of a list, element by element.
LEMMA BlocksOwner ==
  ASSUME NEW o, NEW names, NEW n
  PROVE  \A b \in Blocks(o, names, n) : b[1] = o
  BY DEF Blocks

LEMMA BlocksEmpty ==
  ASSUME NEW o, NEW names
  PROVE  Blocks(o, names, 0) = {}
  BY DEF Blocks

LEMMA BlocksGrow ==
  ASSUME NEW o, NEW names \in Seq(BOOLEAN), NEW n \in 1 .. Len(names)
  PROVE  Blocks(o, names, n)
           = Blocks(o, names, n - 1)
               \cup {o} \X {n} \X (IF names[n] THEN {"struct", "name"} ELSE {"struct"})
<1>1. names[n] \in BOOLEAN
  OBVIOUS
<1>2. 1 .. n = (1 .. n - 1) \cup {n}
  OBVIOUS
<1> QED  BY <1>1, <1>2 DEF Blocks

LEMMA BlocksBeyond ==
  ASSUME NEW o, NEW names, NEW n \in Nat, NEW i \in Nat, i > n, NEW x
  PROVE  <<o, i, x>> \notin Blocks(o, names, n)
  BY DEF Blocks

\* Whose the memory is tells the sets of the ledger apart.
LEMMA Owners ==
  /\ \A b \in CallerNames : b[1] = "caller"
  /\ \A b \in Node : b[1] = "node"
  /\ \A b \in Strings : b[1] \in {"node", "service"}
  /\ \A b \in HintBlocks : b[1] = "hints"
  /\ \A b \in WskBlocks : b[1] = "wsk"
  /\ \A b \in ResBlocks : b[1] = "res"
  BY DEF CallerNames, Blocks, Node, Strings, NodeName, ServiceName, HintBlocks,
         WskBlocks, ResBlocks

\* What is allocated and not the caller's can be freed.
LEMMA FreeAllocated ==
  ASSUME NEW kept, NEW blocks, Free(blocks, FALSE), mem = kept \cup blocks,
         CallerNames \subseteq kept, kept \cap blocks = {}
  PROVE  mem' = kept /\ ~bad'
  BY DEF Free

-----------------------------------------------------------------------------
LEMMA LedgerInit == Init => Ledger
  BY DEF Init, Ledger, Holdings

LEMMA LedgerNext ==
  ASSUME LedgerInv, Next, Failing' => Foreseen
  PROVE  mem' = Holdings' /\ ~bad'
<1>1. UNCHANGED <<call, list>> /\ ~bad /\ (Failing => Failing')
  BY DEF Failing, Goto, Next, ConvertNode, ConvertService, ConvertElement,
         UnwindElement, ConversionFails, HintsConverted, KsGetAddrInfo,
         ResultConverted, freeaddrinfo
<1>2. mem = Holdings
  BY <1>1 DEF LedgerInv, Ledger
<1>3. /\ CallerNames' = CallerNames /\ Strings' = Strings /\ Node' = Node
      /\ HintBlocks' = HintBlocks /\ WskBlocks' = WskBlocks /\ ResBlocks' = ResBlocks
  BY <1>1
  DEF CallerNames, Strings, Node, HintBlocks, WskBlocks, ResBlocks, Blocks,
      NodeName, ServiceName
<1>4. \A n : /\ \A b \in Blocks("hints", call.hints, n) : b[1] = "hints"
             /\ \A b \in Blocks("res", list, n) : b[1] = "res"
  BY BlocksOwner
<1>5. /\ Blocks("hints", call.hints, 0) = {} /\ Blocks("res", list, 0) = {}
      /\ Blocks("hints", call.hints, Len(call.hints)) = HintBlocks
      /\ Blocks("res", list, Len(list)) = ResBlocks
  BY BlocksEmpty DEF HintBlocks, ResBlocks
<1> USE Constants DEF LedgerInv, TypeOK, Failing
<1>6. CASE ConvertNode
  BY <1>2, <1>3, <1>6, <1>1 DEF ConvertNode, Goto, Allocate, Holdings, Node
<1>7. CASE ConvertService
  <2>1. CASE pc' = "hints"
    <3>1. /\ pc = "service" /\ at' = 1 /\ bad' = bad
          /\ mem' = mem \cup (IF call.service THEN {ServiceName} ELSE {})
      BY <1>7, <2>1 DEF ConvertService, Goto, Allocate
    <3>2. mem' = CallerNames \cup Strings
      BY <3>1, <1>2 DEF Holdings, Strings
    <3> QED  BY <1>1, <1>3, <1>5, <2>1, <3>1, <3>2 DEF Holdings
  <2>2. CASE pc' = "failed"
    <3>1. pc = "service" /\ Error2({}) /\ Foreseen
      BY <1>1, <1>7, <2>2 DEF ConvertService, Goto
    <3>2. Free({NodeName}, FALSE) /\ mem = CallerNames \cup {NodeName}
      BY <1>2, <3>1 DEF Error2, Holdings, Foreseen, Node
    <3>3. NodeName \notin CallerNames
      BY <3>1, Owners DEF Foreseen, Node, NodeName
    <3>4. mem' = CallerNames /\ ~bad'
      BY <3>2, <3>3 DEF Free
    <3> QED  BY <1>3, <2>2, <3>4 DEF Holdings
  <2> QED  BY <1>7, <2>1, <2>2 DEF ConvertService, Goto
<1>8. CASE ConvertElement
  <2>1. CASE pc' = pc
    <3>1. /\ pc \in {"hints", "res"} /\ side' = side /\ at' = at + 1 /\ bad' = bad
          /\ at \in 1 .. Len(Source(side))
          /\ mem' = mem \cup {side} \X {at} \X (IF Source(side)[at] THEN {"struct", "name"}
                                                                    ELSE {"struct"})
      BY <1>8, <2>1 DEF ConvertElement, Goto, Allocate, PlaceInv
    <3>2. CASE pc = "hints"
      <4>1. Blocks("hints", call.hints, at)
              = Blocks("hints", call.hints, at - 1)
                  \cup {"hints"} \X {at} \X (IF call.hints[at] THEN {"struct", "name"}
                                                               ELSE {"struct"})
        BY <3>1, <3>2, BlocksGrow DEF PlaceInv, Source
      <4>2. mem' = CallerNames \cup Strings \cup Blocks("hints", call.hints, at)
        BY <3>1, <3>2, <4>1, <1>2 DEF Holdings, PlaceInv, Source
      <4> QED  BY <1>1, <1>3, <2>1, <3>1, <3>2, <4>2 DEF Holdings
    <3>3. CASE pc = "res"
      <4>1. Blocks("res", list, at)
              = Blocks("res", list, at - 1)
                  \cup {"res"} \X {at} \X (IF list[at] THEN {"struct", "name"}
                                                       ELSE {"struct"})
        BY <3>1, <3>3, BlocksGrow DEF PlaceInv, Source
      <4>2. mem' = CallerNames \cup Strings \cup WskBlocks \cup Blocks("res", list, at)
        BY <3>1, <3>3, <4>1, <1>2 DEF Holdings, PlaceInv, Source
      <4> QED  BY <1>1, <1>3, <2>1, <3>1, <3>3, <4>2 DEF Holdings
    <3> QED  BY <3>1, <3>2, <3>3
  <2>2. CASE pc' = "unwind"
    <3>1. /\ pc \in {"hints", "res"} /\ side' = side /\ at' = at - 1
          /\ mem' = mem /\ bad' = bad
          /\ at \in 1 .. Len(Source(side))
      BY <1>8, <2>2 DEF ConvertElement, Goto, PlaceInv
    <3>2. CASE pc = "hints"
      <4>1. side = "hints" /\ at = 1
        <5>1. side = "hints" /\ Source(side) = call.hints
          BY <3>2 DEF PlaceInv, Source
        <5>2. Len(call.hints) = 1
          BY <2>2 DEF Foreseen
        <5>3. at \in 1 .. 1
          BY <3>1, <5>1, <5>2
        <5> QED  BY <5>1, <5>3
      <4>2. mem = CallerNames \cup Strings
        BY <1>2, <1>5, <3>2, <4>1 DEF Holdings
      <4> QED  BY <1>1, <1>3, <2>2, <3>1, <4>1, <4>2 DEF Holdings
    <3>3. CASE pc = "res"
      <4>1. mem = CallerNames \cup Strings \cup WskBlocks \cup Blocks("res", list, at - 1)
        BY <1>2, <3>3 DEF Holdings
      <4>2. side = "res"
        BY <3>3 DEF PlaceInv
      <4> QED  BY <1>1, <1>3, <2>2, <3>1, <4>1, <4>2 DEF Holdings
    <3> QED  BY <3>1, <3>2, <3>3
  <2> QED  BY <1>8, <2>1, <2>2 DEF ConvertElement, Goto
<1>9. CASE UnwindElement
  <2>1. pc = "unwind" /\ at > 0 /\ at < Len(Source(side)) /\ Foreseen
    BY <1>1, <1>9 DEF UnwindElement, PlaceInv
  <2>2. side = "res"
    <3>1. Len(call.hints) = 1 /\ at \in Int
      BY <2>1 DEF Foreseen
    <3>2. side = "hints" => at < 1
      BY <2>1, <3>1 DEF Source
    <3> QED  BY <2>1, <3>1, <3>2
  <2>3. at \in 1 .. Len(list) - 1 /\ list[at] /\ Source(side) = list
    BY <2>1, <2>2 DEF Foreseen, Source
  <2>4. Blocks("res", list, at)
          = Blocks("res", list, at - 1) \cup {"res"} \X {at} \X {"struct", "name"}
    BY <2>3, BlocksGrow
  <2> DEFINE element == {<<"res", at, "struct">>} \cup {"res"} \X {at} \X {"name"}
             kept    == CallerNames \cup Strings \cup WskBlocks \cup Blocks("res", list, at - 1)
  <2>5. mem = kept \cup element
    BY <1>2, <2>1, <2>2, <2>4 DEF Holdings
  <2>6. kept \cap element = {}
    <3>1. \A b \in element : b[1] = "res" /\ b \notin Blocks("res", list, at - 1)
      BY <2>3 DEF Blocks
    <3> QED  BY <3>1, Owners
  <2>7. Free(element, FALSE)
    BY <1>9, <2>2, <2>3 DEF UnwindElement
  <2>8. mem' = kept /\ ~bad'
    <3> HIDE DEF element
    <3> QED  BY <2>5, <2>6, <2>7, FreeAllocated
  <2> QED  BY <1>1, <1>3, <1>9, <2>2, <2>8 DEF UnwindElement, Goto, Holdings
<1>10. CASE ConversionFails
  <2>1. pc = "unwind" /\ at = 0 /\ Foreseen /\ pc' = "failed"
    BY <1>1, <1>10 DEF ConversionFails, Goto
  <2> DEFINE wsk == IF side = "res" THEN WskBlocks ELSE {}
  <2>2. mem = CallerNames \cup (wsk \cup Strings)
    BY <1>2, <1>5, <2>1 DEF Holdings
  <2>3. CallerNames \cap (wsk \cup Strings) = {}
    BY Owners
  <2>4. Free(wsk \cup Strings, FALSE)
    BY <1>10, <2>1 DEF ConversionFails, Error3, Free, Strings, Node, Foreseen
  <2>5. mem' = CallerNames /\ ~bad'
    BY <2>2, <2>3, <2>4, FreeAllocated
  <2> QED  BY <1>3, <2>1, <2>5 DEF Holdings
<1>11. CASE HintsConverted
  <2>1. at - 1 = Len(call.hints) /\ pc = "hints"
    BY <1>11 DEF HintsConverted, PlaceInv, Source
  <2>2. mem = CallerNames \cup Strings \cup HintBlocks
    BY <1>2, <1>5, <2>1 DEF Holdings
  <2> QED  BY <1>1, <1>3, <1>11, <2>2 DEF HintsConverted, Goto, Holdings
<1>12. CASE KsGetAddrInfo
  <2>1. mem = CallerNames \cup Strings \cup HintBlocks
    BY <1>2, <1>12 DEF KsGetAddrInfo, Holdings
  <2>2. CASE pc' = "res"
    <3>1. mem' = (mem \ HintBlocks) \cup WskBlocks /\ ~bad' /\ at' = 1
      BY <1>12, <2>1, <2>2 DEF KsGetAddrInfo, Goto
    <3>2. (CallerNames \cup Strings) \cap HintBlocks = {}
      BY Owners
    <3>3. mem' = CallerNames \cup Strings \cup WskBlocks
      BY <2>1, <3>1, <3>2
    <3> QED  BY <1>1, <1>3, <1>5, <2>2, <3>1, <3>3 DEF Holdings
  <2>3. CASE pc' = "failed"
    <3>1. Foreseen
      BY <2>3
    <3>2. Error3(HintBlocks)
      <4>1. call.hints # <<>>
        <5>1. Len(<<>>) # 1
          OBVIOUS
        <5>2. Len(call.hints) = 1
          BY <3>1 DEF Foreseen
        <5> QED  BY <5>1, <5>2, Zenon
      <4> QED  BY <1>12, <2>3, <4>1 DEF KsGetAddrInfo, Goto
    <3>3. Free(HintBlocks \cup Strings, FALSE)
      BY <3>1, <3>2 DEF Error3, Free, Strings, Node, Foreseen
    <3>4. mem = CallerNames \cup (HintBlocks \cup Strings)
      BY <2>1
    <3>5. CallerNames \cap (HintBlocks \cup Strings) = {}
      BY Owners
    <3>6. mem' = CallerNames /\ ~bad'
      BY <3>3, <3>4, <3>5, FreeAllocated
    <3> QED  BY <1>3, <2>3, <3>6 DEF Holdings
  <2> QED  BY <1>12, <2>2, <2>3 DEF KsGetAddrInfo, Goto
<1>13. CASE ResultConverted
  <2>1. at - 1 = Len(list) /\ pc = "res"
    BY <1>13 DEF ResultConverted, PlaceInv, Source
  <2> DEFINE kept == CallerNames \cup Strings \cup ResBlocks
  <2>2. mem = kept \cup WskBlocks
    BY <1>2, <1>5, <2>1 DEF Holdings
  <2>3. kept \cap WskBlocks = {}
    BY Owners
  <2>4. mem' = kept /\ ~bad'
    BY <1>13, <2>2, <2>3, FreeAllocated DEF ResultConverted
  <2> QED  BY <1>3, <1>13, <2>4 DEF ResultConverted, Goto, Holdings
<1>14. CASE freeaddrinfo
  <2>1. mem = (CallerNames \cup Strings) \cup ResBlocks
    BY <1>2, <1>14 DEF freeaddrinfo, Holdings
  <2>2. (CallerNames \cup Strings) \cap ResBlocks = {}
    BY Owners
  <2>3. mem' = CallerNames \cup Strings /\ ~bad'
    BY <1>14, <2>1, <2>2, FreeAllocated DEF freeaddrinfo
  <2> QED  BY <1>3, <1>14, <2>3 DEF freeaddrinfo, Goto, Holdings
<1> QED
  BY <1>6, <1>7, <1>8, <1>9, <1>10, <1>11, <1>12, <1>13, <1>14 DEF Next

LEMMA Conservation == Spec => []LedgerInv
<1>1. Init => LedgerInv
  BY PlaceInit, LedgerInit DEF LedgerInv
<1>2. ASSUME LedgerInv, [Next]_vars PROVE LedgerInv'
  <2>1. TypeOK' /\ PlaceInv'
    BY <1>2, PlaceNext DEF LedgerInv
  <2>2. CASE UNCHANGED vars
    <3>1. Holdings' = Holdings
      BY <2>2 DEF vars, Holdings, CallerNames, Strings, Node, HintBlocks,
                  WskBlocks, ResBlocks, Blocks, NodeName, ServiceName
    <3> QED  BY <1>2, <2>1, <2>2, <3>1 DEF LedgerInv, Ledger, Failing, Foreseen, vars
  <2>3. CASE Next
    <3>1. Foreseen' = Foreseen
      BY <2>3
      DEF Foreseen, Next, ConvertNode, ConvertService, ConvertElement,
          UnwindElement, ConversionFails, HintsConverted, KsGetAddrInfo,
          ResultConverted, freeaddrinfo
    <3> QED  BY <1>2, <2>1, <2>3, <3>1, LedgerNext DEF LedgerInv, Ledger
  <2> QED  BY <1>2, <2>2, <2>3
<1> QED  BY <1>1, <1>2, PTL DEF Spec

\* In the calls the error paths are good for, however long the answer is and
\* whichever allocation fails, getaddrinfo frees nothing twice and nothing it
\* did not allocate (berkeley.c:140-144, 234-238, 366, 390-394).
THEOREM FreesValid == Spec => []FreesAreValid
<1>1. LedgerInv => FreesAreValid
  BY DEF LedgerInv, Ledger, FreesAreValid
<1> QED  BY <1>1, Conservation, PTL

\* A failed call of that kind has given back all it allocated: the converted
\* strings, the hints, WSK's list and the converted part of the result
\* (berkeley.c:234-241, 366-397).
THEOREM FailuresBalance == Spec => []FailureLeavesNothing
<1>1. LedgerInv => FailureLeavesNothing
  BY DEF LedgerInv, Ledger, Holdings, Failing, FailureLeavesNothing
<1> QED  BY <1>1, Conservation, PTL

\* Every list handed out is complete, for any arguments (berkeley.c:172-232).
THEOREM ResultComplete == Spec => []ResultIsComplete
<1>1. LedgerInv => ResultIsComplete
  BY DEF LedgerInv, Ledger, Holdings, Failing, ResultIsComplete
<1> QED  BY <1>1, Conservation, PTL

\* freeaddrinfo leaves nothing of the list, and getaddrinfo had left nothing
\* of the hints and of WSK's list (berkeley.c:366, 382, 400-406).
THEOREM ListsFreed == Spec => []ListsAreFreed
<1>1. LedgerInv => ListsAreFreed
  BY DEF LedgerInv, Ledger, Holdings, Failing, ListsAreFreed, Strings, Node
<1> QED  BY <1>1, Conservation, PTL
=============================================================================
