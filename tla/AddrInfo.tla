------------------------------ MODULE AddrInfo ------------------------------
(***************************************************************************)
(* getaddrinfo and freeaddrinfo of ksocket/berkeley.c and the conversions  *)
(* KspUtil* of address lists, as a ledger of the memory they allocate and  *)
(* free.  A call goes through                                              *)
(*                                                                         *)
(*   "node" -> "service" -> "hints" (conversion of the hints, by element)  *)
(*          -> "resolve" (KsGetAddrInfo, then the hints are freed)         *)
(*          -> "res" (conversion of the result, by element)                *)
(*          -> "held" (the application has the list) -> "freed",           *)
(*                                                                         *)
(* and from a failed conversion through "unwind", back along the elements, *)
(* to "failed".  Any allocation may fail.  A list is a sequence that says  *)
(* of each element whether it has a canonical name.                        *)
(***************************************************************************)
EXTENDS Integers, Sequences

CONSTANTS
  Calls,  \* calls: node and service given or not, and the list of hints
  Lists   \* the lists that WSK may return

ASSUME AddrInfoAssumption ==
  /\ Calls \subseteq [node : BOOLEAN, service : BOOLEAN, hints : Seq(BOOLEAN)]
  /\ Lists \subseteq Seq(BOOLEAN) \ {<<>>}

VARIABLES
  call,  \* the arguments
  list,  \* what WSK answers
  pc,
  side,  \* the list being converted, "hints" or "res"
  at,    \* the element of that list
  mem,   \* memory that is allocated
  bad    \* something was freed that the library had not allocated, or NULL read

vars == <<call, list, pc, side, at, mem, bad>>

\* Memory: strings of a call, and structures, names and addresses of lists,
\* where "caller" is the application's list of hints and "wsk" that of WSK.
NodeName    == <<"node", 0, "name">>
ServiceName == <<"service", 0, "name">>

Blocks(owner, names, n) ==
  {b \in {owner} \X (1 .. n) \X {"struct", "name"} : b[3] = "name" => names[b[2]]}

CallerNames == {b \in Blocks("caller", call.hints, Len(call.hints)) : b[3] = "name"}
HintBlocks  == Blocks("hints", call.hints, Len(call.hints))
WskBlocks   == Blocks("wsk", list, Len(list))
                 \cup {"wsk"} \X (1 .. Len(list)) \X {"address"}
ResBlocks   == Blocks("res", list, Len(list))

Source(s) == IF s = "hints" THEN call.hints ELSE list

Init ==
  /\ call \in Calls /\ list \in Lists
  /\ pc = "node" /\ side = "hints" /\ at = 1
  /\ mem = CallerNames
  /\ bad = FALSE

-----------------------------------------------------------------------------
Goto(p, s, i) == pc' = p /\ side' = s /\ at' = i

Allocate(blocks) == mem' = mem \cup blocks /\ UNCHANGED bad

\* Freeing a string variable that was never set frees whatever is on the
\* stack: harmless if that happens to be NULL.
Free(blocks, unset) ==
  /\ mem' = mem \ blocks
  /\ bad' \in IF ~(blocks \subseteq mem \ CallerNames) THEN {TRUE}
              ELSE IF unset THEN BOOLEAN ELSE {FALSE}

\* Error2 and Error3 of getaddrinfo, with what else is freed on the way.
Error2(blocks) == Free(blocks \cup IF call.node THEN {NodeName} ELSE {}, ~call.node)
Error3(blocks) ==
  Free(blocks \cup (IF call.service THEN {ServiceName} ELSE {})
              \cup (IF call.node THEN {NodeName} ELSE {}),
       ~call.service \/ ~call.node)

ConvertNode ==
  /\ pc = "node"
  /\ \/ /\ Allocate(IF call.node THEN {NodeName} ELSE {})
        /\ Goto("service", "hints", 1)
     \/ /\ call.node
        /\ Goto("failed", "hints", 1)
        /\ UNCHANGED <<mem, bad>>
  /\ UNCHANGED <<call, list>>

\* Seeded variant: a failure leaves by Error3.
ConvertServiceFreesBoth ==
  /\ pc = "service"
  /\ \/ /\ Allocate(IF call.service THEN {ServiceName} ELSE {})
        /\ Goto("hints", "hints", 1)
     \/ /\ call.service
        /\ Error3({})
        /\ Goto("failed", "hints", 1)
  /\ UNCHANGED <<call, list>>

ConvertService ==
  /\ pc = "service"
  /\ \/ /\ Allocate(IF call.service THEN {ServiceName} ELSE {})
        /\ Goto("hints", "hints", 1)
     \/ /\ call.service
        /\ Error2({})
        /\ Goto("failed", "hints", 1)
  /\ UNCHANGED <<call, list>>

\* Seeded variant: the name of an element is not converted.
ConvertWithoutName ==
  /\ pc \in {"hints", "res"}
  /\ at <= Len(Source(side))
  /\ \/ /\ Allocate({<<side, at, "struct">>})
        /\ Goto(pc, side, at + 1)
     \/ /\ Goto("unwind", side, at - 1)
        /\ UNCHANGED <<mem, bad>>
  /\ UNCHANGED <<call, list>>

\* KspUtilAddrInfoToAddrInfoEx and KspUtilAddrInfoExToAddrInfo convert an
\* element before the next one; one that fails frees its own structure and
\* returns to the element before it.
ConvertElement ==
  /\ pc \in {"hints", "res"}
  /\ at <= Len(Source(side))
  /\ \/ /\ Allocate({side} \X {at} \X (IF Source(side)[at] THEN {"struct", "name"}
                                                          ELSE {"struct"}))
        /\ Goto(pc, side, at + 1)
     \/ /\ Goto("unwind", side, at - 1)
        /\ UNCHANGED <<mem, bad>>
  /\ UNCHANGED <<call, list>>

\* Error3 of an element whose successors could not be converted: the ANSI
\* string it frees is the application's when hints are converted, the new one
\* when a result is, and unset when the element has no name.
UnwindElement ==
  /\ pc = "unwind"
  /\ at > 0
  /\ LET name == {IF side = "hints" THEN "caller" ELSE "res"} \X {at} \X {"name"}
     IN  IF Source(side)[at] THEN Free({<<side, at, "struct">>} \cup name, FALSE)
                             ELSE Free({<<side, at, "struct">>}, TRUE)
  /\ Goto("unwind", side, at - 1)
  /\ UNCHANGED <<call, list>>

\* The conversion has failed; that of a result is followed by KsFreeAddrInfo.
ConversionFails ==
  /\ pc = "unwind"
  /\ at = 0
  /\ Error3(IF side = "res" THEN WskBlocks ELSE {})
  /\ Goto("failed", side, 0)
  /\ UNCHANGED <<call, list>>

HintsConverted ==
  /\ pc = "hints"
  /\ at > Len(call.hints)
  /\ Goto("resolve", side, at)
  /\ UNCHANGED <<call, list, mem, bad>>

\* Seeded variant: the converted hints are freed only after a success.
ResolveKeepsHints ==
  /\ pc = "resolve"
  /\ \/ /\ mem' = (mem \ HintBlocks) \cup WskBlocks
        /\ Goto("res", "res", 1)
        /\ UNCHANGED bad
     \/ Error3({}) /\ Goto("failed", "hints", 0)
  /\ UNCHANGED <<call, list>>

\* KsGetAddrInfo, and KspUtilFreeAddrInfoEx of the hints, which dereferences
\* NULL when there are none.
KsGetAddrInfo ==
  /\ pc = "resolve"
  /\ \/ /\ call.hints = <<>>
        /\ bad' = TRUE
        /\ Goto("failed", "hints", 0)
        /\ UNCHANGED mem
     \/ /\ call.hints # <<>>
        /\ mem' = (mem \ HintBlocks) \cup WskBlocks
        /\ bad' = ~(HintBlocks \subseteq mem)
        /\ Goto("res", "res", 1)
     \/ /\ call.hints # <<>>
        /\ Error3(HintBlocks)
        /\ Goto("failed", "hints", 0)
  /\ UNCHANGED <<call, list>>

ResultConverted ==
  /\ pc = "res"
  /\ at > Len(list)
  /\ Free(WskBlocks, FALSE)
  /\ Goto("held", side, at)
  /\ UNCHANGED <<call, list>>

\* Seeded variant: only the first element is freed.
FreesFirstElement ==
  /\ pc = "held"
  /\ Free(Blocks("res", list, 1), FALSE)
  /\ Goto("freed", side, at)
  /\ UNCHANGED <<call, list>>

\* KspUtilFreeAddrInfo, from the last element to the first.
freeaddrinfo ==
  /\ pc = "held"
  /\ Free(ResBlocks, FALSE)
  /\ Goto("freed", side, at)
  /\ UNCHANGED <<call, list>>

Next ==
  /\ ~bad
  /\ \/ ConvertNode
     \/ ConvertService
     \/ ConvertElement
     \/ UnwindElement
     \/ ConversionFails
     \/ HintsConverted
     \/ KsGetAddrInfo
     \/ ResultConverted
     \/ freeaddrinfo

Spec == Init /\ [][Next]_vars

-----------------------------------------------------------------------------
\* The variables keep to the values their comments name.
TypeOK ==
  /\ call \in Calls /\ list \in Lists
  /\ pc \in {"node", "service", "hints", "resolve", "res", "unwind",
             "held", "freed", "failed"}
  /\ side \in {"hints", "res"}
  /\ at \in 0 .. Len(Source(side)) + 1
  /\ bad \in BOOLEAN

\* The calls the error paths are good for: with node, service and one element
\* of hints, answered by a list in which all but the last element have a name.
Foreseen ==
  /\ call.node /\ call.service
  /\ Len(call.hints) = 1
  /\ \A i \in 1 .. Len(list) - 1 : list[i]

\* In those, nothing is freed that the library did not allocate, or that it
\* had freed or not set, and no NULL list is walked, whichever step fails
\* (berkeley.c:140-144, 234-238, 271-297, 366, 390-394).
FreesAreValid == Foreseen => ~bad

\* And a call that fails has given back everything it allocated
\* (berkeley.c:140-147, 234-241, 366-397).
FailureLeavesNothing == Foreseen /\ pc = "failed" => mem = CallerNames

\* The list that is handed out is complete, with the name of each element
\* that has one (berkeley.c:172-232).
ResultIsComplete == pc = "held" => ResBlocks \subseteq mem

\* After freeaddrinfo nothing of either list remains.  The strings converted
\* from node and service do: no path but the failures frees them
\* (berkeley.c:382-388, 400-406).
ListsAreFreed == pc = "freed" => mem \subseteq CallerNames \cup {NodeName, ServiceName}

\* The addresses of the list are there for as long as the application has it
\* (berkeley.c:211, 382).
AddressesValid == pc = "held" => \A i \in 1 .. Len(list) : <<"wsk", i, "address">> \in mem
=============================================================================
