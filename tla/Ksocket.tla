------------------------------ MODULE Ksocket ------------------------------
(***************************************************************************)
(* The kernel socket layer, ksocket/ksocket.c.  Every public function runs *)
(* in a kernel thread, hands an IRP to the Winsock Kernel provider (WSK),  *)
(* blocks until the IRP's completion routine signals an event, and then    *)
(* runs a tail of its own.  A KSOCKET owns one IRP and one event (its      *)
(* AsyncContext); KsGetAddrInfo keeps an AsyncContext on its stack.        *)
(*                                                                         *)
(* A call by thread t goes through pc[t] =                                 *)
(*   "idle" -> "call"  (AsyncContext reset, WSK about to be called)        *)
(*          -> "wait"  (KspAsyncContextWaitForCompletion)                  *)
(*          -> "tail"  (Status is known, rest of the function) -> "idle".  *)
(***************************************************************************)
EXTENDS Naturals, FiniteSets

CONSTANTS
  Threads,       \* kernel threads that call the library
  Sockets,       \* pool blocks a KSOCKET can be allocated in
  WskSockets,    \* sockets of the WSK provider (PWSK_SOCKET)
  NULL,          \* no AsyncContext, no WSK socket
  ExclusiveUse,  \* TRUE: the application never runs two calls on one KSOCKET
  Faults,        \* failures injected in this instance, a subset of FaultKinds
  Workload       \* bound: the functions that the application calls

FaultKinds == {"pool", "irp", "mdl", "create", "close", "capture"}

\* An AsyncContext is found in a KSOCKET or on the stack of a thread.
Contexts == Sockets \cup Threads

Dispatches == {"listen", "connection", "datagram"}
CreateOps  == {"createListen", "createConnection", "createDatagram"}
OpeningOps == CreateOps \cup {"accept"}
BufferOps  == {"send", "recv", "sendto", "recvfrom"}
Ops == OpeningOps \cup BufferOps
         \cup {"none", "bind", "connectBind", "connect", "close", "getaddrinfo"}

ASSUME KsocketAssumption ==
  /\ ExclusiveUse \in BOOLEAN
  /\ Faults \subseteq FaultKinds
  /\ Workload \subseteq Ops
  /\ Threads \cap Sockets = {}
  /\ NULL \notin Threads \cup Sockets \cup WskSockets

\* The dispatch table of the WSK socket that a successful call opens.
NewDispatch == [createListen     |-> "listen",
                createConnection |-> "connection",
                createDatagram   |-> "datagram",
                accept           |-> "connection"]

Outcomes == {"success", "failure"}

VARIABLES
  reg,        \* WskRegistration: none, registered, captured or released
  halted,     \* the machine stopped (a NULL IRP or MDL was dereferenced)
  pool,       \* the blocks of Sockets that are allocated
  app,        \* KSOCKETs the application got and has not passed to KsCloseSocket
  wskSocket,  \* KSOCKET.WskSocket
  irp,        \* AsyncContext.Irp: none, bare, or armed with a completion routine
  event,      \* AsyncContext.CompletionEvent is signalled
  ioStatus,   \* Irp->IoStatus.Status
  ioInfo,     \* Irp->IoStatus.Information, when it is a PWSK_SOCKET
  pc, op, ctx, status,  \* per thread: position, function, AsyncContext, Status
  mdl,        \* per thread: the buffer's pages are locked by an MDL
  inflight,   \* requests WSK has not answered: <<AsyncContext, thread>>
  reply,      \* ghost: what WSK answered to the thread's latest request
  open        \* WSK: the dispatch of each open WSK socket, or "closed"

threadVars == <<pc, op, ctx, status>>
contextVars == <<irp, event, ioStatus, ioInfo>>
vars == <<reg, halted, pool, app, wskSocket, contextVars, threadVars, mdl,
          inflight, reply, open>>

Init ==
  /\ reg = "none"
  /\ halted = FALSE
  /\ pool = {} /\ app = {}
  /\ wskSocket = [s \in Sockets |-> NULL]
  /\ irp = [c \in Contexts |-> "none"]
  /\ event = [c \in Contexts |-> FALSE]
  /\ ioStatus = [c \in Contexts |-> "failure"]
  /\ ioInfo = [c \in Contexts |-> NULL]
  /\ pc = [t \in Threads |-> "idle"]
  /\ op = [t \in Threads |-> "none"]
  /\ ctx = [t \in Threads |-> NULL]
  /\ status = [t \in Threads |-> "none"]
  /\ mdl = [t \in Threads |-> FALSE]
  /\ inflight = {}
  /\ reply = [t \in Threads |-> "none"]
  /\ open = [w \in WskSockets |-> "closed"]

-----------------------------------------------------------------------------
(***************************************************************************)
(* The AsyncContext.                                                       *)
(***************************************************************************)

\* The event is initialised and an IRP allocated and armed; the allocation
\* may fail, which leaves AsyncContext.Irp NULL.
KspAsyncContextAllocate(c) ==
  /\ event' = [event EXCEPT ![c] = FALSE]
  /\ ioStatus' = [ioStatus EXCEPT ![c] = "success"]  \* a fresh IRP is zeroed
  /\ ioInfo' = [ioInfo EXCEPT ![c] = NULL]
  /\ \/ irp' = [irp EXCEPT ![c] = "armed"]
     \/ "irp" \in Faults /\ irp' = [irp EXCEPT ![c] = "none"]

\* The fields of a freed AsyncContext get their initial values, so that
\* states differ only in memory that is allocated.
KspAsyncContextFree(c) ==
  /\ irp' = [irp EXCEPT ![c] = "none"]
  /\ event' = [event EXCEPT ![c] = FALSE]
  /\ ioStatus' = [ioStatus EXCEPT ![c] = "failure"]
  /\ ioInfo' = [ioInfo EXCEPT ![c] = NULL]

\* Seeded variants of KspAsyncContextReset: without KeResetEvent, and without
\* IoSetCompletionRoutine.
ResetKeepsEvent(c) ==
  /\ ioStatus' = [ioStatus EXCEPT ![c] = "failure"]
  /\ ioInfo' = [ioInfo EXCEPT ![c] = NULL]
  /\ irp' = [irp EXCEPT ![c] = "armed"]
  /\ UNCHANGED event

ResetDoesNotArm(c) ==
  /\ event' = [event EXCEPT ![c] = FALSE]
  /\ ioStatus' = [ioStatus EXCEPT ![c] = "failure"]
  /\ ioInfo' = [ioInfo EXCEPT ![c] = NULL]
  /\ irp' = [irp EXCEPT ![c] = IF @ = "armed" THEN "armed" ELSE "bare"]

\* KeResetEvent, IoReuseIrp(STATUS_UNSUCCESSFUL), IoSetCompletionRoutine.
KspAsyncContextReset(c) ==
  /\ event' = [event EXCEPT ![c] = FALSE]
  /\ ioStatus' = [ioStatus EXCEPT ![c] = "failure"]
  /\ ioInfo' = [ioInfo EXCEPT ![c] = NULL]
  /\ irp' = [irp EXCEPT ![c] = "armed"]

\* Seeded variant: the routine returns without KeSetEvent.
CompletionRoutineKeepsSilent(c) == event' = event

KspAsyncContextCompletionRoutine(c) == event' = [event EXCEPT ![c] = TRUE]

\* Seeded variants: a receive may give up its wait, or Status is not read back.
WaitGivesUp(t) ==
  /\ pc[t] = "wait"
  /\ status[t] = "pending" => event[ctx[t]] \/ op[t] = "recv"
  /\ pc' = [pc EXCEPT ![t] = "tail"]
  /\ status' = [status EXCEPT ![t] = IF @ = "pending" THEN ioStatus[ctx[t]] ELSE @]
  /\ event' = [event EXCEPT ![ctx[t]] = FALSE]
  /\ UNCHANGED <<reg, halted, pool, app, wskSocket, irp, ioStatus, ioInfo, op,
                 ctx, mdl, inflight, reply, open>>

WaitKeepsStatus(t) ==
  /\ pc[t] = "wait"
  /\ status[t] = "pending" => event[ctx[t]]
  /\ pc' = [pc EXCEPT ![t] = "tail"]
  /\ UNCHANGED <<reg, halted, pool, app, wskSocket, contextVars, op, ctx,
                 status, mdl, inflight, reply, open>>

\* A synchronization event lets one waiter through and resets itself; Status
\* is read from the IRP only when the WSK call had returned STATUS_PENDING.
KspAsyncContextWaitForCompletion(t) ==
  /\ pc[t] = "wait"
  /\ \/ /\ status[t] = "pending"
        /\ event[ctx[t]]
        /\ event' = [event EXCEPT ![ctx[t]] = FALSE]
        /\ status' = [status EXCEPT ![t] = ioStatus[ctx[t]]]
     \/ /\ status[t] # "pending"
        /\ UNCHANGED <<event, status>>
  /\ pc' = [pc EXCEPT ![t] = "tail"]
  /\ UNCHANGED <<reg, halted, pool, app, wskSocket, irp, ioStatus, ioInfo, op,
                 ctx, mdl, inflight, reply, open>>

-----------------------------------------------------------------------------
(***************************************************************************)
(* The WSK provider: it takes a request with an IRP and answers it at once *)
(* or later; an answer completes the IRP, which runs the completion        *)
(* routine the IRP is armed with and disarms the IRP.                      *)
(***************************************************************************)

WskComplete(c, t, v) ==
  /\ v = "failure" => /\ op[t] = "close" => "close" \in Faults
                      /\ op[t] \in CreateOps => "create" \in Faults
  /\ ioStatus' = [ioStatus EXCEPT ![c] = v]
  /\ reply' = [reply EXCEPT ![t] = v]
  /\ \/ /\ v = "success" /\ op[t] \in OpeningOps
        /\ \E w \in WskSockets :
             /\ open[w] = "closed"
             /\ open' = [open EXCEPT ![w] = NewDispatch[op[t]]]
             /\ ioInfo' = [ioInfo EXCEPT ![c] = w]
     \/ /\ v = "success" /\ op[t] = "close"
        /\ open' = [open EXCEPT ![wskSocket[c]] = "closed"]
        /\ UNCHANGED ioInfo
     \/ /\ v = "failure" \/ op[t] \notin OpeningOps \cup {"close"}
        /\ UNCHANGED <<open, ioInfo>>
  /\ \/ /\ irp[c] = "armed"
        /\ KspAsyncContextCompletionRoutine(c)
        /\ irp' = [irp EXCEPT ![c] = "bare"]
     \/ /\ irp[c] # "armed"
        /\ UNCHANGED <<event, irp>>

\* The call through the dispatch table.  WSK answers before it returns, or
\* returns STATUS_PENDING.
WskCall(t) ==
  /\ pc[t] = "call"
  /\ pc' = [pc EXCEPT ![t] = "wait"]
  /\ \/ \E v \in Outcomes :
          /\ WskComplete(ctx[t], t, v)
          /\ status' = [status EXCEPT ![t] = v]
          /\ UNCHANGED inflight
     \/ /\ status' = [status EXCEPT ![t] = "pending"]
        /\ reply' = [reply EXCEPT ![t] = "none"]
        /\ inflight' = inflight \cup {<<ctx[t], t>>}
        /\ UNCHANGED <<contextVars, open>>
  /\ UNCHANGED <<reg, halted, pool, app, wskSocket, op, ctx, mdl>>

\* WSK completes a pending request.
WskAnswer(t) ==
  /\ \E r \in inflight, v \in Outcomes :
       /\ r[2] = t
       /\ inflight' = inflight \ {r}
       /\ WskComplete(r[1], t, v)
  /\ UNCHANGED <<reg, halted, pool, app, wskSocket, threadVars, mdl>>

-----------------------------------------------------------------------------
(***************************************************************************)
(* The public functions.  Entering one runs it up to its first WSK call.   *)
(***************************************************************************)

Call(t, c, o) ==
  /\ pc' = [pc EXCEPT ![t] = "call"]
  /\ op' = [op EXCEPT ![t] = o]
  /\ ctx' = [ctx EXCEPT ![t] = c]
  /\ status' = [status EXCEPT ![t] = "none"]

Return(t) ==
  /\ pc' = [pc EXCEPT ![t] = "idle"]
  /\ op' = [op EXCEPT ![t] = "none"]
  /\ ctx' = [ctx EXCEPT ![t] = NULL]
  /\ status' = [status EXCEPT ![t] = "none"]
  /\ reply' = [reply EXCEPT ![t] = "none"]

CanCall(t, o) == reg = "captured" /\ pc[t] = "idle" /\ o \in Workload

\* The application passes s to a function that suits its dispatch table, and,
\* under ExclusiveUse, only when no other call on s is running.
CanUse(t, s, o, dispatches) ==
  /\ CanCall(t, o)
  /\ s \in app
  /\ open[wskSocket[s]] \in dispatches
  /\ ExclusiveUse => \A u \in Threads : ctx[u] # s

\* Bound: a socket is opened only while WSK has room for it beside the sockets
\* being opened, so that a full instance never makes WSK refuse one.
CanOpen == Cardinality({w \in WskSockets : open[w] # "closed"})
             + Cardinality({u \in Threads : op[u] \in OpeningOps})
               < Cardinality(WskSockets)

\* KspAsyncContextReset of a NULL IRP stops the machine.
Enter(t, s, o) ==
  \/ /\ irp[s] # "none"
     /\ KspAsyncContextReset(s)
     /\ Call(t, s, o)
     /\ UNCHANGED halted
  \/ /\ irp[s] = "none"
     /\ halted' = TRUE
     /\ UNCHANGED <<contextVars, threadVars>>

\* KsInitialize: the version check and WskRegister change nothing when they
\* fail; a failed capture leaves the registration behind.
KsInitialize ==
  /\ reg = "none"
  /\ \/ reg' = "captured"
     \/ "capture" \in Faults /\ reg' = "registered"
  /\ UNCHANGED <<halted, pool, app, wskSocket, contextVars, threadVars, mdl,
                 inflight, reply, open>>

\* KsDestroy releases the provider; WskDeregister blocks until the client has
\* no open socket and no outstanding request.  The application calls it when
\* it holds no socket and no call is running.
KsDestroy ==
  /\ reg = "captured"
  /\ app = {}
  /\ \A t \in Threads : pc[t] = "idle"
  /\ reg' = "released"
  /\ UNCHANGED <<halted, pool, app, wskSocket, contextVars, threadVars, mdl,
                 inflight, reply, open>>

WskDeregister ==
  /\ reg = "released"
  /\ inflight = {}
  /\ \A w \in WskSockets : open[w] = "closed"
  /\ reg' = "none"
  /\ UNCHANGED <<halted, pool, app, wskSocket, contextVars, threadVars, mdl,
                 inflight, reply, open>>

\* Seeded variant: the result of KspAsyncContextAllocate is not checked.
GetAddrInfoUnchecked(t) ==
  /\ CanCall(t, "getaddrinfo")
  /\ KspAsyncContextAllocate(t)
  /\ Call(t, t, "getaddrinfo")
  /\ UNCHANGED <<reg, halted, pool, app, wskSocket, mdl, inflight, reply, open>>

KsGetAddrInfo(t) ==
  /\ CanCall(t, "getaddrinfo")
  /\ KspAsyncContextAllocate(t)
  /\ \/ irp'[t] # "none" /\ Call(t, t, "getaddrinfo")
     \/ irp'[t] = "none" /\ UNCHANGED threadVars
  /\ UNCHANGED <<reg, halted, pool, app, wskSocket, mdl, inflight, reply, open>>

\* KsCreateSocket, reached through KsCreateConnectionSocket and its siblings.
\* Without a free block it returns and changes nothing; without an IRP it
\* returns and leaves the block allocated.
KsCreateSocket(t, o) ==
  /\ CanCall(t, o)
  /\ CanOpen
  /\ \E s \in Sockets \ pool :
       /\ pool' = pool \cup {s}
       /\ KspAsyncContextAllocate(s)
       /\ \/ irp'[s] # "none" /\ Call(t, s, o)
          \/ irp'[s] = "none" /\ UNCHANGED threadVars
  /\ UNCHANGED <<reg, halted, app, wskSocket, mdl, inflight, reply, open>>

KsCloseSocket(t, s) ==
  /\ CanUse(t, s, "close", Dispatches)
  /\ Enter(t, s, "close")
  /\ app' = app \ {s}
  /\ UNCHANGED <<reg, pool, wskSocket, mdl, inflight, reply, open>>

KsBind(t, s) ==
  /\ CanUse(t, s, "bind", Dispatches)
  /\ Enter(t, s, "bind")
  /\ UNCHANGED <<reg, pool, app, wskSocket, mdl, inflight, reply, open>>

KsAccept(t, s) ==
  /\ CanUse(t, s, "accept", {"listen"})
  /\ CanOpen
  /\ Enter(t, s, "accept")
  /\ UNCHANGED <<reg, pool, app, wskSocket, mdl, inflight, reply, open>>

\* KsConnect first binds the socket to INADDR_ANY.
KsConnect(t, s) ==
  /\ CanUse(t, s, "connectBind", {"connection"})
  /\ Enter(t, s, "connectBind")
  /\ UNCHANGED <<reg, pool, app, wskSocket, mdl, inflight, reply, open>>

\* The buffer's pages are locked before the AsyncContext is reset.  A failed
\* IoAllocateMdl or probe is not handled (the __try is commented out).
EnterLocked(t, s, o) ==
  \/ /\ mdl' = [mdl EXCEPT ![t] = TRUE]
     /\ Enter(t, s, o)
  \/ /\ "mdl" \in Faults
     /\ halted' = TRUE
     /\ UNCHANGED <<mdl, contextVars, threadVars>>

KsSendRecv(t, s, o) ==
  /\ CanUse(t, s, o, {"connection"})
  /\ EnterLocked(t, s, o)
  /\ UNCHANGED <<reg, pool, app, wskSocket, inflight, reply, open>>

KsSendRecvUdp(t, s, o) ==
  /\ CanUse(t, s, o, {"datagram"})
  /\ EnterLocked(t, s, o)
  /\ UNCHANGED <<reg, pool, app, wskSocket, inflight, reply, open>>

-----------------------------------------------------------------------------
(***************************************************************************)
(* The rest of a function, once Status is known.                           *)
(***************************************************************************)

Succeeded(t) == status[t] = "success"

ReturnStatus(t) ==
  /\ pc[t] = "tail"
  /\ op[t] \in {"bind", "connect"}
  /\ Return(t)
  /\ UNCHANGED <<reg, halted, pool, app, wskSocket, contextVars, mdl,
                 inflight, open>>

\* KsConnect resets the AsyncContext again and calls WskConnect.
ConnectAfterBind(t) ==
  /\ pc[t] = "tail"
  /\ op[t] = "connectBind"
  /\ \/ /\ Succeeded(t)
        /\ KspAsyncContextReset(ctx[t])
        /\ Call(t, ctx[t], "connect")
        /\ reply' = [reply EXCEPT ![t] = "none"]
     \/ /\ ~Succeeded(t)
        /\ Return(t)
        /\ UNCHANGED contextVars
  /\ UNCHANGED <<reg, halted, pool, app, wskSocket, mdl, inflight, open>>

\* Seeded variant: the pages stay locked when the request failed.
ReleaseBufferOnSuccess(t) ==
  /\ pc[t] = "tail"
  /\ op[t] \in BufferOps
  /\ mdl' = [mdl EXCEPT ![t] = ~Succeeded(t)]
  /\ Return(t)
  /\ UNCHANGED <<reg, halted, pool, app, wskSocket, contextVars, inflight, open>>

\* KsSendRecv and KsSendRecvUdp unlock the pages and free the MDL.
ReleaseBuffer(t) ==
  /\ pc[t] = "tail"
  /\ op[t] \in BufferOps
  /\ mdl' = [mdl EXCEPT ![t] = FALSE]
  /\ Return(t)
  /\ UNCHANGED <<reg, halted, pool, app, wskSocket, contextVars, inflight, open>>

\* KsCreateSocket hands the KSOCKET out; when WSK refused, the block and its
\* IRP stay allocated.
SaveCreated(t) ==
  /\ pc[t] = "tail"
  /\ op[t] \in CreateOps
  /\ \/ /\ Succeeded(t)
        /\ wskSocket' = [wskSocket EXCEPT ![ctx[t]] = ioInfo[ctx[t]]]
        /\ app' = app \cup {ctx[t]}
     \/ /\ ~Succeeded(t)
        /\ UNCHANGED <<wskSocket, app>>
  /\ Return(t)
  /\ UNCHANGED <<reg, halted, pool, contextVars, mdl, inflight, open>>

\* Seeded variants of SaveAccepted: the new KSOCKET is not handed out, wraps
\* the listening socket, or gets no AsyncContext.
AcceptedNotHandedOut(t) ==
  /\ pc[t] = "tail"
  /\ op[t] = "accept"
  /\ Return(t)
  /\ UNCHANGED <<reg, halted, pool, app, wskSocket, contextVars, mdl,
                 inflight, open>>

\* KsAccept wraps the accepted socket in a new KSOCKET.  Without memory it
\* drops the WSK socket; it ignores a failure to allocate the IRP.
SaveAccepted(t) ==
  /\ pc[t] = "tail"
  /\ op[t] = "accept"
  /\ \/ /\ Succeeded(t)
        /\ \E s \in Sockets \ pool :
             /\ pool' = pool \cup {s}
             /\ wskSocket' = [wskSocket EXCEPT ![s] = ioInfo[ctx[t]]]
             /\ KspAsyncContextAllocate(s)
             /\ app' = app \cup {s}
     \/ /\ Succeeded(t) => pool = Sockets \/ "pool" \in Faults
        /\ UNCHANGED <<pool, wskSocket, app, contextVars>>
  /\ Return(t)
  /\ UNCHANGED <<reg, halted, mdl, inflight, open>>

\* Seeded variant: the IRP is freed and the block is not.
FreeClosedForgetsBlock(t) ==
  /\ pc[t] = "tail"
  /\ op[t] = "close"
  /\ KspAsyncContextFree(ctx[t])
  /\ Return(t)
  /\ UNCHANGED <<reg, halted, pool, app, wskSocket, mdl, inflight, open>>

\* KsCloseSocket frees the IRP and the block whatever Status is.
FreeClosed(t) ==
  /\ pc[t] = "tail"
  /\ op[t] = "close"
  /\ KspAsyncContextFree(ctx[t])
  /\ pool' = pool \ {ctx[t]}
  /\ wskSocket' = [wskSocket EXCEPT ![ctx[t]] = NULL]
  /\ Return(t)
  /\ UNCHANGED <<reg, halted, app, mdl, inflight, open>>

FreeAddrInfoContext(t) ==
  /\ pc[t] = "tail"
  /\ op[t] = "getaddrinfo"
  /\ KspAsyncContextFree(ctx[t])
  /\ Return(t)
  /\ UNCHANGED <<reg, halted, pool, app, wskSocket, mdl, inflight, open>>

-----------------------------------------------------------------------------
\* The steps of a call that is running, all taken by its thread.
Proceed(t) ==
  \/ WskCall(t)
  \/ KspAsyncContextWaitForCompletion(t)
  \/ ReturnStatus(t)
  \/ ConnectAfterBind(t)
  \/ ReleaseBuffer(t)
  \/ SaveCreated(t)
  \/ SaveAccepted(t)
  \/ FreeClosed(t)
  \/ FreeAddrInfoContext(t)

\* The calls the application may make.
Begin(t) ==
  \/ KsGetAddrInfo(t)
  \/ \E o \in CreateOps : KsCreateSocket(t, o)
  \/ \E s \in Sockets :
       \/ KsCloseSocket(t, s)
       \/ KsBind(t, s)
       \/ KsAccept(t, s)
       \/ KsConnect(t, s)
       \/ \E o \in {"send", "recv"} : KsSendRecv(t, s, o)
       \/ \E o \in {"sendto", "recvfrom"} : KsSendRecvUdp(t, s, o)

Next ==
  /\ ~halted
  /\ \/ KsInitialize
     \/ KsDestroy
     \/ WskDeregister
     \/ \E t \in Threads : Begin(t) \/ Proceed(t) \/ WskAnswer(t)

Spec == Init /\ [][Next]_vars

\* A thread that can go on does.  No fairness makes the application call a
\* function.
ThreadFairness ==
  /\ WF_vars(~halted /\ WskDeregister)
  /\ \A t \in Threads : WF_vars(~halted /\ Proceed(t))

\* WSK answers what it is asked.  An accept or a receive is answered when a
\* peer acts, so this also asks peers to act.
WskFairness == \A t \in Threads : WF_vars(~halted /\ WskAnswer(t))

FairSpec == Spec /\ ThreadFairness

-----------------------------------------------------------------------------
(***************************************************************************)
(* Properties.                                                             *)
(***************************************************************************)

\* Every variable keeps to the values its comment names.
TypeOK ==
  /\ reg \in {"none", "registered", "captured", "released"}
  /\ halted \in BOOLEAN
  /\ pool \subseteq Sockets
  /\ app \subseteq Sockets
  /\ wskSocket \in [Sockets -> WskSockets \cup {NULL}]
  /\ irp \in [Contexts -> {"none", "bare", "armed"}]
  /\ event \in [Contexts -> BOOLEAN]
  /\ ioStatus \in [Contexts -> Outcomes]
  /\ ioInfo \in [Contexts -> WskSockets \cup {NULL}]
  /\ pc \in [Threads -> {"idle", "call", "wait", "tail"}]
  /\ op \in [Threads -> Ops]
  /\ ctx \in [Threads -> Contexts \cup {NULL}]
  /\ status \in [Threads -> Outcomes \cup {"none", "pending"}]
  /\ mdl \in [Threads -> BOOLEAN]
  /\ inflight \subseteq Contexts \X Threads
  /\ reply \in [Threads -> Outcomes \cup {"none"}]
  /\ open \in [WskSockets -> Dispatches \cup {"closed"}]

\* WSK holds at most one request per IRP: the IRP of a KSOCKET is reused for
\* the next function only after the completion routine ran for the previous
\* one (ksocket.c:118-122).
OneRequestPerIrp == \A r, q \in inflight : r[1] = q[1] => r = q

\* A request is with WSK only under an IRP that has the completion routine
\* set and an event that is not signalled yet, so that its answer, and
\* nothing else, wakes the caller (ksocket.c:108-117, 132-141).
ArmedWhenSubmitted ==
  \A r \in inflight : irp[r[1]] = "armed" /\ ~event[r[1]]

\* A function goes on after its wait with the Status WSK gave to this very
\* request: never that of an earlier call on the same AsyncContext, nor the
\* STATUS_UNSUCCESSFUL that IoReuseIrp stores (ksocket.c:132-138, 158-165).
ReplyIsOwn ==
  \A t \in Threads : pc[t] = "tail" => status[t] = reply[t] /\ reply[t] # "none"

\* The pages of a caller's buffer stay locked as long as WSK may touch them,
\* and a thread that is out of the library has none locked
\* (ksocket.c:546-550, 599-602).
BufferLocked ==
  /\ \A r \in inflight : op[r[2]] \in BufferOps => mdl[r[2]]
  /\ \A t \in Threads : pc[t] = "idle" /\ ~halted => ~mdl[t]

\* While a function uses a KSOCKET, or WSK owes an answer that goes to its
\* IRP and event, the block and the IRP are allocated (ksocket.c:381-393).
NoUseAfterFree ==
  LET used == {ctx[t] : t \in {u \in Threads : pc[u] # "idle"}}
                \cup {r[1] : r \in inflight}
  IN  \A c \in used : irp[c] # "none" /\ c \in pool \cup Threads

\* Every WSK socket that is open can still be closed by someone: a KSOCKET of
\* the application or of a running KsCloseSocket wraps it, or the function
\* that opened it has not returned (ksocket.c:326-332, 456-470, 378-395).
NoLostSocket ==
  \A w \in WskSockets : open[w] # "closed" =>
    \/ \E s \in app : wskSocket[s] = w
    \/ \E t \in Threads :
         \/ op[t] = "close" /\ wskSocket[ctx[t]] = w
         \/ op[t] \in OpeningOps /\ reply[t] = "success" /\ ioInfo[ctx[t]] = w

\* A block is allocated only while the application or a running function
\* holds it: what a function does not hand out it frees (ksocket.c:118-120,
\* 286-335, 378-393).
NoLeak == \A s \in pool : s \in app \/ \E t \in Threads : ctx[t] = s

\* Every call returns to the application when WSK answers what it is asked.
CallsReturn ==
  WskFairness => \A t \in Threads : pc[t] # "idle" ~> pc[t] = "idle"

\* KsDestroy returns when WSK answers what it is asked: WskDeregister is not
\* held up by a socket or a request that nobody can close or complete any more
\* (ksocket.c:212-224).
DestroyReturns == WskFairness => (reg = "released" ~> reg = "none")
-----------------------------------------------------------------------------
\* The blocking call that the rounds with IRP and event add up to.
StageOf(t) == CASE pc[t] \in {"idle", "call"} -> "idle"
                [] pc[t] = "wait" -> "issued"
                [] pc[t] = "tail" -> "delivered"

ResultOf(t) == IF pc[t] = "tail" THEN status[t] ELSE "none"

Sync == INSTANCE SyncCall WITH
  None    <- "none",
  Answers <- Outcomes,
  stage   <- [t \in Threads |-> StageOf(t)],
  answer  <- reply,
  result  <- [t \in Threads |-> ResultOf(t)]

\* Each function of ksocket.c hands its caller exactly the answer WSK gave to
\* its request, once, and only after WSK gave it (ksocket.c:154-166).
ImplementsSyncCall == Sync!SyncSpec

\* And every answer WSK gives is delivered, whatever the other threads do and
\* though WSK may never answer them (ksocket.c:144-152, 158-160).
ImplementsSyncDelivery == Sync!SyncFairSpec
=============================================================================
