--------------------------- MODULE KsocketProofs ---------------------------
(***************************************************************************)
(* Theorems about Ksocket, for any number of threads, KSOCKETs and WSK     *)
(* sockets, any workload and any faults.  What concerns the one IRP of a   *)
(* KSOCKET holds when the application uses a KSOCKET in one call at a time *)
(* (ExclusiveUse); type correctness needs no such discipline.              *)
(***************************************************************************)
EXTENDS Ksocket, FiniteSetTheorems, TLAPS

\* The AsyncContext a running call uses: one of a KSOCKET, or one on a stack.
ContextOK ==
  \A t \in Threads :
    /\ pc[t] # "idle" => ctx[t] \in Contexts
    /\ pc[t] # "idle" /\ op[t] # "getaddrinfo" => ctx[t] \in Sockets

TypeInv == TypeOK /\ ContextOK

-----------------------------------------------------------------------------
\* The initial values have their types.
LEMMA TypeInit == Init => TypeInv
<1>1. Init => TypeOK
  <2> SUFFICES ASSUME Init PROVE TypeOK
    OBVIOUS
  <2>1. /\ event \in [Contexts -> BOOLEAN]
        /\ mdl \in [Threads -> BOOLEAN]
        /\ halted \in BOOLEAN
    BY DEF Init
  <2>2. /\ irp \in [Contexts -> {"none", "bare", "armed"}]
        /\ ioStatus \in [Contexts -> Outcomes]
        /\ ioInfo \in [Contexts -> WskSockets \cup {NULL}]
        /\ wskSocket \in [Sockets -> WskSockets \cup {NULL}]
        /\ open \in [WskSockets -> Dispatches \cup {"closed"}]
    BY DEF Init, Outcomes
  <2>3. /\ pc \in [Threads -> {"idle", "call", "wait", "tail"}]
        /\ op \in [Threads -> Ops]
        /\ ctx \in [Threads -> Contexts \cup {NULL}]
        /\ status \in [Threads -> Outcomes \cup {"none", "pending"}]
        /\ reply \in [Threads -> Outcomes \cup {"none"}]
    BY DEF Init, Ops
  <2>4. /\ reg \in {"none", "registered", "captured", "released"}
        /\ pool \subseteq Sockets /\ app \subseteq Sockets
        /\ inflight \subseteq Contexts \X Threads
    BY DEF Init
  <2> QED  BY <2>1, <2>2, <2>3, <2>4 DEF TypeOK
<1>2. Init => ContextOK
  BY DEF Init, ContextOK
<1> QED  BY <1>1, <1>2 DEF TypeInv

\* A call that is entered has a typed function and AsyncContext.
LEMMA TypeBegin == TypeInv /\ (\E t \in Threads : Begin(t)) => TypeInv'
<1> SUFFICES ASSUME TypeInv, NEW t \in Threads, Begin(t)
             PROVE  TypeInv'
  OBVIOUS
<1> USE KsocketAssumption
    DEF TypeInv, TypeOK, ContextOK, Contexts, contextVars, threadVars, Call,
        KspAsyncContextAllocate, KspAsyncContextReset, Outcomes
<1>1. CASE KsGetAddrInfo(t)
  <2>1. TypeOK'
    <3>1. irp' \in [Contexts -> {"none", "bare", "armed"}]
          /\ event' \in [Contexts -> BOOLEAN]
      BY <1>1 DEF KsGetAddrInfo
    <3>2. ioStatus' \in [Contexts -> Outcomes]
          /\ ioInfo' \in [Contexts -> WskSockets \cup {NULL}]
      BY <1>1 DEF KsGetAddrInfo
    <3>3. pc' \in [Threads -> {"idle", "call", "wait", "tail"}]
          /\ op' \in [Threads -> Ops]
      BY <1>1 DEF KsGetAddrInfo, Ops
    <3>4. ctx' \in [Threads -> Contexts \cup {NULL}]
          /\ status' \in [Threads -> Outcomes \cup {"none", "pending"}]
      BY <1>1 DEF KsGetAddrInfo
    <3> QED  BY <1>1, <3>1, <3>2, <3>3, <3>4 DEF KsGetAddrInfo
  <2>2. ContextOK'
    BY <1>1 DEF KsGetAddrInfo, CanCall
  <2> QED  BY <2>1, <2>2
<1>2. ASSUME NEW o \in CreateOps, KsCreateSocket(t, o)
      PROVE  TypeInv'
  <2>1. TypeOK'
    <3>1. irp' \in [Contexts -> {"none", "bare", "armed"}]
          /\ event' \in [Contexts -> BOOLEAN]
      BY <1>2 DEF KsCreateSocket
    <3>2. ioStatus' \in [Contexts -> Outcomes]
          /\ ioInfo' \in [Contexts -> WskSockets \cup {NULL}]
          /\ pool' \subseteq Sockets
      BY <1>2 DEF KsCreateSocket
    <3>3. pc' \in [Threads -> {"idle", "call", "wait", "tail"}]
          /\ op' \in [Threads -> Ops]
      BY <1>2 DEF KsCreateSocket, Ops, OpeningOps
    <3>4. ctx' \in [Threads -> Contexts \cup {NULL}]
          /\ status' \in [Threads -> Outcomes \cup {"none", "pending"}]
      BY <1>2 DEF KsCreateSocket
    <3> QED  BY <1>2, <3>1, <3>2, <3>3, <3>4 DEF KsCreateSocket
  <2>2. ContextOK'
    BY <1>2 DEF KsCreateSocket, CanCall
  <2> QED  BY <2>1, <2>2
<1>3. ASSUME NEW s \in Sockets, NEW o \in Ops, Enter(t, s, o),
             mdl' \in [Threads -> BOOLEAN], app' \subseteq app,
             UNCHANGED <<reg, pool, wskSocket, inflight, reply, open>>
      PROVE  TypeInv'
  <2>1. CASE /\ KspAsyncContextReset(s)
             /\ Call(t, s, o)
             /\ UNCHANGED halted
    <3>1. TypeOK'
      BY <1>3, <2>1
    <3>2. ContextOK'
      BY <1>3, <2>1
    <3> QED  BY <3>1, <3>2
  <2>2. CASE halted' = TRUE /\ UNCHANGED <<contextVars, threadVars>>
    BY <1>3, <2>2
  <2> QED  BY <1>3, <2>1, <2>2 DEF Enter
<1>4. ASSUME NEW s \in Sockets, NEW o \in BufferOps, EnterLocked(t, s, o),
             UNCHANGED <<reg, pool, app, wskSocket, inflight, reply, open>>
      PROVE  TypeInv'
  <2>1. CASE Enter(t, s, o) /\ mdl' = [mdl EXCEPT ![t] = TRUE]
    BY <1>3, <1>4, <2>1 DEF Ops
  <2>2. CASE halted' = TRUE /\ UNCHANGED <<mdl, contextVars, threadVars>>
    BY <1>4, <2>2
  <2> QED  BY <1>4, <2>1, <2>2 DEF EnterLocked
<1>5. ASSUME NEW s \in Sockets,
             \/ KsCloseSocket(t, s)
             \/ KsBind(t, s)
             \/ KsAccept(t, s)
             \/ KsConnect(t, s)
      PROVE  TypeInv'
  BY <1>3, <1>5
  DEF KsCloseSocket, KsBind, KsAccept, KsConnect, Ops, OpeningOps
<1>6. ASSUME NEW s \in Sockets,
             \/ \E o \in {"send", "recv"} : KsSendRecv(t, s, o)
             \/ \E o \in {"sendto", "recvfrom"} : KsSendRecvUdp(t, s, o)
      PROVE  TypeInv'
  BY <1>4, <1>6 DEF KsSendRecv, KsSendRecvUdp, BufferOps
<1> HIDE DEF TypeInv, TypeOK, ContextOK, Contexts, contextVars, threadVars, Call,
             KspAsyncContextAllocate, KspAsyncContextReset, Outcomes
<1> QED  BY <1>1, <1>2, <1>5, <1>6 DEF Begin

\* WSK stores typed answers in the IRP of the request.
LEMMA TypeComplete ==
  ASSUME TypeInv, NEW c \in Contexts, NEW t \in Threads, NEW v \in Outcomes,
         WskComplete(c, t, v)
  PROVE  /\ irp' \in [Contexts -> {"none", "bare", "armed"}]
         /\ event' \in [Contexts -> BOOLEAN]
         /\ ioStatus' \in [Contexts -> Outcomes]
         /\ ioInfo' \in [Contexts -> WskSockets \cup {NULL}]
         /\ reply' \in [Threads -> Outcomes \cup {"none"}]
         /\ open' \in [WskSockets -> Dispatches \cup {"closed"}]
<1> USE DEF TypeInv, TypeOK
<1>1. /\ ioStatus' \in [Contexts -> Outcomes]
      /\ reply' \in [Threads -> Outcomes \cup {"none"}]
  BY DEF WskComplete
<1>2. /\ irp' \in [Contexts -> {"none", "bare", "armed"}]
      /\ event' \in [Contexts -> BOOLEAN]
  BY DEF WskComplete, KspAsyncContextCompletionRoutine
<1>3. /\ ioInfo' \in [Contexts -> WskSockets \cup {NULL}]
      /\ open' \in [WskSockets -> Dispatches \cup {"closed"}]
  BY DEF WskComplete, OpeningOps, CreateOps, NewDispatch, Dispatches
<1> QED  BY <1>1, <1>2, <1>3

LEMMA TypeAnswer == TypeInv /\ (\E t \in Threads : WskAnswer(t)) => TypeInv'
<1> SUFFICES ASSUME TypeInv, NEW t \in Threads, WskAnswer(t)
             PROVE  TypeInv'
  OBVIOUS
<1>1. PICK r \in inflight, v \in Outcomes :
        /\ r[2] = t
        /\ inflight' = inflight \ {r}
        /\ WskComplete(r[1], t, v)
  BY DEF WskAnswer
<1>2. r[1] \in Contexts
  BY DEF TypeInv, TypeOK
<1>3. TypeOK'
  BY <1>1, <1>2, TypeComplete DEF WskAnswer, threadVars, TypeInv, TypeOK
<1>4. ContextOK'
  BY DEF WskAnswer, threadVars, TypeInv, ContextOK
<1> QED  BY <1>3, <1>4 DEF TypeInv

\* The steps of a running call keep types and contexts.
LEMMA TypeProceed == TypeInv /\ (\E t \in Threads : Proceed(t)) => TypeInv'
<1> SUFFICES ASSUME TypeInv, NEW t \in Threads, Proceed(t)
             PROVE  TypeInv'
  OBVIOUS
<1>1. CASE WskCall(t)
  <2>1. ctx[t] \in Contexts
    BY <1>1 DEF WskCall, TypeInv, ContextOK
  <2>2. ContextOK'
    BY <1>1 DEF WskCall, TypeInv, TypeOK, ContextOK
  <2>3. CASE \E v \in Outcomes : /\ WskComplete(ctx[t], t, v)
                                 /\ status' = [status EXCEPT ![t] = v]
                                 /\ UNCHANGED inflight
    <3>1. PICK v \in Outcomes : /\ WskComplete(ctx[t], t, v)
                                /\ status' = [status EXCEPT ![t] = v]
                                /\ UNCHANGED inflight
      BY <2>3
    <3>2. TypeOK'
      BY <1>1, <2>1, <3>1, TypeComplete DEF WskCall, TypeInv, TypeOK
    <3> QED  BY <2>2, <3>2 DEF TypeInv
  <2>4. CASE /\ status' = [status EXCEPT ![t] = "pending"]
             /\ reply' = [reply EXCEPT ![t] = "none"]
             /\ inflight' = inflight \cup {<<ctx[t], t>>}
             /\ UNCHANGED <<contextVars, open>>
    BY <1>1, <2>1, <2>2, <2>4
    DEF WskCall, contextVars, TypeInv, TypeOK
  <2> QED  BY <1>1, <2>3, <2>4 DEF WskCall
<1> USE DEF TypeInv, TypeOK, ContextOK, contextVars, threadVars, Return
<1>2. CASE KspAsyncContextWaitForCompletion(t)
  <2>1. event' \in [Contexts -> BOOLEAN]
    BY <1>2 DEF KspAsyncContextWaitForCompletion
  <2>2. status' \in [Threads -> Outcomes \cup {"none", "pending"}]
    BY <1>2 DEF KspAsyncContextWaitForCompletion
  <2>3. pc' \in [Threads -> {"idle", "call", "wait", "tail"}]
    BY <1>2 DEF KspAsyncContextWaitForCompletion
  <2>4. TypeOK'
    BY <1>2, <2>1, <2>2, <2>3 DEF KspAsyncContextWaitForCompletion
  <2>5. ContextOK'
    BY <1>2 DEF KspAsyncContextWaitForCompletion
  <2> QED  BY <2>4, <2>5
<1>3. CASE ReturnStatus(t)
  BY <1>3 DEF ReturnStatus, Ops
<1>4. CASE ConnectAfterBind(t)
  <2>1. CASE /\ KspAsyncContextReset(ctx[t])
             /\ Call(t, ctx[t], "connect")
             /\ reply' = [reply EXCEPT ![t] = "none"]
    <3>1. ctx[t] \in Sockets
      BY <1>4 DEF ConnectAfterBind
    <3>2. TypeOK'
      BY <1>4, <2>1, <3>1
      DEF ConnectAfterBind, KspAsyncContextReset, Call, Ops, Outcomes, Contexts
    <3>3. ContextOK'
      BY <1>4, <2>1, <3>1 DEF ConnectAfterBind, Call, Contexts
    <3> QED  BY <3>2, <3>3
  <2>2. CASE Return(t) /\ UNCHANGED contextVars
    BY <1>4, <2>2 DEF ConnectAfterBind, Ops
  <2> QED  BY <1>4, <2>1, <2>2 DEF ConnectAfterBind
<1>5. CASE ReleaseBuffer(t)
  BY <1>5 DEF ReleaseBuffer, Ops
<1>6. CASE SaveCreated(t)
  BY <1>6 DEF SaveCreated, Ops, CreateOps
<1>7. CASE SaveAccepted(t)
  <2>1. ContextOK'
    BY <1>7 DEF SaveAccepted
  <2>2. CASE \E s \in Sockets \ pool :
               /\ pool' = pool \cup {s}
               /\ wskSocket' = [wskSocket EXCEPT ![s] = ioInfo[ctx[t]]]
               /\ KspAsyncContextAllocate(s)
               /\ app' = app \cup {s}
    <3>1. PICK s \in Sockets \ pool :
            /\ pool' = pool \cup {s}
            /\ wskSocket' = [wskSocket EXCEPT ![s] = ioInfo[ctx[t]]]
            /\ KspAsyncContextAllocate(s)
            /\ app' = app \cup {s}
      BY <2>2
    <3>2. wskSocket' \in [Sockets -> WskSockets \cup {NULL}]
      BY <1>7, <3>1 DEF SaveAccepted
    <3>3. /\ irp' \in [Contexts -> {"none", "bare", "armed"}]
          /\ event' \in [Contexts -> BOOLEAN]
          /\ ioStatus' \in [Contexts -> Outcomes]
          /\ ioInfo' \in [Contexts -> WskSockets \cup {NULL}]
      <4>1. irp' \in [Contexts -> {"none", "bare", "armed"}]
        BY <3>1 DEF KspAsyncContextAllocate
      <4>2. event' \in [Contexts -> BOOLEAN]
        BY <3>1 DEF KspAsyncContextAllocate
      <4>3. ioStatus' \in [Contexts -> Outcomes]
        BY <3>1 DEF KspAsyncContextAllocate, Outcomes
      <4>4. ioInfo' \in [Contexts -> WskSockets \cup {NULL}]
        BY <3>1 DEF KspAsyncContextAllocate
      <4> QED  BY <4>1, <4>2, <4>3, <4>4
    <3>4. TypeOK'
      BY <1>7, <3>1, <3>2, <3>3 DEF SaveAccepted, Ops
    <3> QED  BY <2>1, <3>4
  <2>3. CASE UNCHANGED <<pool, wskSocket, app, contextVars>>
    BY <1>7, <2>1, <2>3 DEF SaveAccepted, Ops
  <2> QED  BY <1>7, <2>2, <2>3 DEF SaveAccepted
<1>8. CASE FreeClosed(t)
  BY <1>8 DEF FreeClosed, KspAsyncContextFree, Ops, Outcomes
<1>9. CASE FreeAddrInfoContext(t)
  BY <1>9 DEF FreeAddrInfoContext, KspAsyncContextFree, Ops, Outcomes
<1> QED
  BY <1>1, <1>2, <1>3, <1>4, <1>5, <1>6, <1>7, <1>8, <1>9 DEF Proceed

LEMMA TypeNext == TypeInv /\ [Next]_vars => TypeInv'
<1> SUFFICES ASSUME TypeInv, [Next]_vars
             PROVE  TypeInv'
  OBVIOUS
<1>1. CASE KsInitialize \/ KsDestroy \/ WskDeregister
  BY <1>1 DEF KsInitialize, KsDestroy, WskDeregister, contextVars, threadVars,
              TypeInv, TypeOK, ContextOK
<1>2. CASE UNCHANGED vars
  BY <1>2 DEF vars, contextVars, threadVars, TypeInv, TypeOK, ContextOK
<1> QED
  BY <1>1, <1>2, TypeBegin, TypeProceed, TypeAnswer DEF Next

\* Every variable of the library keeps its type, shared KSOCKETs or not
\* (ksocket.c as a whole).
THEOREM TypeCorrect == Spec => []TypeOK
<1>1. TypeInv => TypeOK
  BY DEF TypeInv
<1> QED  BY <1>1, TypeInit, TypeNext, PTL DEF Spec

-----------------------------------------------------------------------------
(***************************************************************************)
(* The inductive invariant of a call.  It says who owns an AsyncContext    *)
(* (ContextInv, AppInv), in which state the AsyncContext is at each        *)
(* position of the call that owns it (StageInv), that WSK's requests are   *)
(* those of waiting calls (RequestInv), and which calls lock pages.        *)
(***************************************************************************)
ContextInv ==
  \A t \in Threads :
    /\ pc[t] = "idle" => op[t] = "none" /\ ctx[t] = NULL
    /\ pc[t] # "idle" =>
         /\ op[t] # "none"
         /\ op[t] = "getaddrinfo" => ctx[t] = t
         /\ op[t] # "getaddrinfo" => ctx[t] \in pool
         /\ irp[ctx[t]] # "none"
    /\ \A u \in Threads : ctx[t] = ctx[u] => t = u \/ ctx[t] = NULL

\* A KSOCKET that is being created or closed is not in the application's hands.
AppInv ==
  /\ app \subseteq pool
  /\ \A t \in Threads : op[t] \in CreateOps \cup {"close"} => ctx[t] \notin app

\* The AsyncContext is armed and its event clear from the reset on, until WSK
\* answers; a caller that waits finds the answer in the IRP.
Armed(t) == irp[ctx[t]] = "armed" /\ ~event[ctx[t]]

StageInv ==
  \A t \in Threads :
    /\ pc[t] = "call" => Armed(t)
    /\ pc[t] = "wait" =>
         \/ status[t] = "pending" /\ reply[t] = "none" /\ Armed(t)
         \/ status[t] = "pending" /\ reply[t] = ioStatus[ctx[t]]
         \/ status[t] = reply[t] /\ reply[t] \in Outcomes
    /\ pc[t] = "tail" => status[t] = reply[t] /\ reply[t] \in Outcomes

RequestInv ==
  \A r \in inflight :
    /\ pc[r[2]] = "wait"
    /\ ctx[r[2]] = r[1]
    /\ status[r[2]] = "pending"
    /\ reply[r[2]] = "none"

LockInv ==
  \A t \in Threads : /\ op[t] \in BufferOps => mdl[t]
                     /\ mdl[t] => op[t] \in BufferOps \/ halted

CallInv == TypeInv /\ ContextInv /\ AppInv /\ StageInv /\ RequestInv /\ LockInv
-----------------------------------------------------------------------------
LEMMA CallInit == Init => CallInv
<1> SUFFICES ASSUME Init PROVE CallInv
  OBVIOUS
<1>1. ContextInv
  BY DEF Init, ContextInv
<1>2. AppInv /\ RequestInv
  BY DEF Init, AppInv, RequestInv, CreateOps
<1>3. StageInv
  BY DEF Init, StageInv
<1>4. LockInv
  BY DEF Init, LockInv, BufferOps
<1> QED  BY <1>1, <1>2, <1>3, <1>4, TypeInit DEF CallInv

\* Two threads that run calls use different AsyncContexts.
LEMMA OwnContext ==
  ASSUME CallInv, NEW t \in Threads, NEW u \in Threads, t # u, pc[t] # "idle"
  PROVE  ctx[t] # ctx[u]
  BY KsocketAssumption
  DEF CallInv, TypeInv, ContextOK, ContextInv, Contexts

\* Entering a function on a KSOCKET that no other call uses.
LEMMA EnterCallInv ==
  ASSUME CallInv, TypeInv', ~halted,
         NEW t \in Threads, NEW s \in app, NEW o \in Ops \ CreateOps,
         pc[t] = "idle", o \notin {"none", "getaddrinfo"},
         \A u \in Threads : ctx[u] # s,
         Enter(t, s, o),
         app' = IF o = "close" THEN app \ {s} ELSE app,
         \/ mdl' = mdl /\ o \notin BufferOps
         \/ mdl' = [mdl EXCEPT ![t] = TRUE] /\ (o \in BufferOps \/ halted'),
         UNCHANGED <<pool, inflight, reply>>
  PROVE  CallInv'
<1> USE DEF CallInv
<1>a. s \in Sockets /\ s \in pool /\ s \in Contexts
  BY DEF AppInv, TypeInv, TypeOK, Contexts
<1>b. /\ pc \in [Threads -> {"idle", "call", "wait", "tail"}]
      /\ op \in [Threads -> Ops]
      /\ ctx \in [Threads -> Contexts \cup {NULL}]
      /\ status \in [Threads -> Outcomes \cup {"none", "pending"}]
      /\ irp \in [Contexts -> {"none", "bare", "armed"}]
      /\ ioStatus \in [Contexts -> Outcomes]
      /\ event \in [Contexts -> BOOLEAN]
      /\ mdl \in [Threads -> BOOLEAN]
  BY DEF TypeInv, TypeOK
<1>1. CASE KspAsyncContextReset(s) /\ Call(t, s, o) /\ UNCHANGED halted
  <2> USE <1>1, <1>a, <1>b DEF KspAsyncContextReset, Call
  <2>1. ContextInv'
    BY DEF ContextInv
  <2>2. AppInv'
    BY DEF AppInv, CreateOps
  <2>3. StageInv'
    BY DEF StageInv, Armed, ContextInv, TypeInv, ContextOK
  <2>4. RequestInv'
    BY DEF RequestInv, TypeInv, TypeOK
  <2>5. LockInv'
    <3>1. CASE mdl' = mdl /\ o \notin BufferOps
      BY <3>1 DEF LockInv, ContextInv, BufferOps
    <3>2. CASE mdl' = [mdl EXCEPT ![t] = TRUE] /\ o \in BufferOps
      BY <3>2 DEF LockInv
    <3> QED  BY <3>1, <3>2
  <2> QED  BY <2>1, <2>2, <2>3, <2>4, <2>5
<1>2. CASE halted' = TRUE /\ UNCHANGED <<contextVars, threadVars>>
  <2> USE <1>2 DEF contextVars, threadVars
  <2>1. ContextInv' /\ AppInv' /\ RequestInv'
    BY DEF ContextInv, AppInv, RequestInv
  <2>2. StageInv'
    BY DEF StageInv, Armed
  <2>3. LockInv'
    BY <1>b DEF LockInv
  <2> QED  BY <2>1, <2>2, <2>3
<1> QED  BY <1>1, <1>2 DEF Enter
\* Every call the application begins.
LEMMA BeginCallInv ==
  ASSUME ExclusiveUse, CallInv, TypeInv', ~halted,
         NEW t \in Threads, Begin(t)
  PROVE  CallInv'
<1> USE DEF CallInv
<1>b. /\ pc \in [Threads -> {"idle", "call", "wait", "tail"}]
      /\ op \in [Threads -> Ops]
      /\ ctx \in [Threads -> Contexts \cup {NULL}]
      /\ status \in [Threads -> Outcomes \cup {"none", "pending"}]
      /\ irp \in [Contexts -> {"none", "bare", "armed"}]
      /\ ioStatus \in [Contexts -> Outcomes]
      /\ event \in [Contexts -> BOOLEAN]
      /\ mdl \in [Threads -> BOOLEAN]
  BY DEF TypeInv, TypeOK
<1>1. CASE KsGetAddrInfo(t)
  <2>1. PICK i \in {"armed", "none"} : irp' = [irp EXCEPT ![t] = i]
    BY <1>1 DEF KsGetAddrInfo, KspAsyncContextAllocate
  <2>2. /\ t \in Contexts
        /\ \A u \in Threads : ctx[u] # t
    BY <1>1, KsocketAssumption
    DEF KsGetAddrInfo, CanCall, ContextInv, TypeInv, TypeOK, Contexts
  <2>3. CASE i = "armed"
    <3> USE <1>1, <1>b, <2>1, <2>2, <2>3
        DEF KsGetAddrInfo, CanCall, KspAsyncContextAllocate, Call
    <3>1. ContextInv'
      BY DEF ContextInv
    <3>2. AppInv'
      BY DEF AppInv, CreateOps
    <3>3. StageInv'
      BY DEF StageInv, Armed, ContextInv, TypeInv, ContextOK
    <3>4. RequestInv'
      BY DEF RequestInv, TypeInv, TypeOK
    <3>5. LockInv'
      BY DEF LockInv, ContextInv, BufferOps
    <3> QED  BY <3>1, <3>2, <3>3, <3>4, <3>5
  <2>4. CASE i = "none"
    <3> USE <1>1, <1>b, <2>1, <2>2, <2>4
        DEF KsGetAddrInfo, CanCall, KspAsyncContextAllocate, threadVars
    <3>1. ContextInv' /\ AppInv' /\ RequestInv'
      BY DEF ContextInv, AppInv, RequestInv, TypeInv, ContextOK
    <3>2. StageInv'
      BY DEF StageInv, Armed, TypeInv, ContextOK
    <3>3. LockInv'
      BY DEF LockInv
    <3> QED  BY <3>1, <3>2, <3>3
  <2> QED  BY <2>1, <2>3, <2>4
<1>2. ASSUME NEW o \in CreateOps, KsCreateSocket(t, o)
      PROVE  CallInv'
  <2>1. PICK s \in Sockets \ pool :
          /\ pool' = pool \cup {s}
          /\ KspAsyncContextAllocate(s)
          /\ \/ irp'[s] # "none" /\ Call(t, s, o)
             \/ irp'[s] = "none" /\ UNCHANGED threadVars
    BY <1>2 DEF KsCreateSocket
  <2>2. PICK i \in {"armed", "none"} : irp' = [irp EXCEPT ![s] = i]
    BY <2>1 DEF KspAsyncContextAllocate
  <2>3. /\ s \in Contexts
        /\ s \notin app
        /\ \A u \in Threads : ctx[u] # s
    BY <2>1, KsocketAssumption
    DEF ContextInv, AppInv, TypeInv, TypeOK, Contexts
  <2>4. CASE i = "armed"
    <3> USE <1>2, <1>b, <2>1, <2>2, <2>3, <2>4
        DEF KsCreateSocket, CanCall, KspAsyncContextAllocate, Call
    <3>1. ContextInv'
      BY DEF ContextInv, CreateOps
    <3>2. AppInv'
      BY DEF AppInv
    <3>3. StageInv'
      BY DEF StageInv, Armed, ContextInv, TypeInv, ContextOK
    <3>4. RequestInv'
      BY DEF RequestInv, TypeInv, TypeOK
    <3>5. LockInv'
      BY DEF LockInv, ContextInv, CreateOps, BufferOps
    <3> QED  BY <3>1, <3>2, <3>3, <3>4, <3>5
  <2>5. CASE i = "none"
    <3> USE <1>2, <1>b, <2>1, <2>2, <2>3, <2>5
        DEF KsCreateSocket, CanCall, KspAsyncContextAllocate, threadVars
    <3>1. ContextInv' /\ AppInv' /\ RequestInv'
      BY DEF ContextInv, AppInv, RequestInv, TypeInv, ContextOK
    <3>2. StageInv'
      BY DEF StageInv, Armed, TypeInv, ContextOK
    <3>3. LockInv'
      BY DEF LockInv
    <3> QED  BY <3>1, <3>2, <3>3
  <2> QED  BY <2>2, <2>4, <2>5
<1>3. ASSUME NEW s \in Sockets,
             \/ KsCloseSocket(t, s)
             \/ KsBind(t, s)
             \/ KsAccept(t, s)
             \/ KsConnect(t, s)
      PROVE  CallInv'
  <2>1. PICK o \in {"close", "bind", "accept", "connectBind"} :
          /\ CanUse(t, s, o, Dispatches)
          /\ Enter(t, s, o)
          /\ app' = IF o = "close" THEN app \ {s} ELSE app
          /\ UNCHANGED <<pool, mdl, inflight, reply>>
    BY <1>3
    DEF KsCloseSocket, KsBind, KsAccept, KsConnect, CanUse, Dispatches
  <2>2. o \in Ops \ CreateOps /\ o \notin BufferOps \cup {"none", "getaddrinfo"}
    BY DEF Ops, OpeningOps, CreateOps, BufferOps
  <2>3. pc[t] = "idle" /\ s \in app /\ \A u \in Threads : ctx[u] # s
    BY <2>1 DEF CanUse, CanCall
  <2> QED  BY <2>1, <2>2, <2>3, EnterCallInv
<1>4. ASSUME NEW s \in Sockets, NEW o \in BufferOps,
             KsSendRecv(t, s, o) \/ KsSendRecvUdp(t, s, o)
      PROVE  CallInv'
  <2>1. /\ CanUse(t, s, o, Dispatches)
        /\ EnterLocked(t, s, o)
        /\ UNCHANGED <<pool, app, inflight, reply>>
    BY <1>4 DEF KsSendRecv, KsSendRecvUdp, CanUse, Dispatches
  <2>2. o \in Ops \ CreateOps /\ o \notin {"none", "getaddrinfo", "close"}
    BY DEF Ops, CreateOps, BufferOps
  <2>3. pc[t] = "idle" /\ s \in app /\ \A u \in Threads : ctx[u] # s
    BY <2>1 DEF CanUse, CanCall
  <2>4. CASE mdl' = [mdl EXCEPT ![t] = TRUE] /\ Enter(t, s, o)
    BY <2>1, <2>2, <2>3, <2>4, EnterCallInv
  <2>5. CASE halted' = TRUE /\ UNCHANGED <<mdl, contextVars, threadVars>>
    <3> USE <2>1, <2>5 DEF contextVars, threadVars
    <3>1. ContextInv' /\ AppInv' /\ RequestInv'
      BY DEF ContextInv, AppInv, RequestInv
    <3>2. StageInv'
      BY DEF StageInv, Armed
    <3>3. LockInv'
      BY DEF LockInv
    <3> QED  BY <3>1, <3>2, <3>3
  <2> QED  BY <2>1, <2>4, <2>5 DEF EnterLocked
<1> QED
  BY <1>1, <1>2, <1>3, <1>4 DEF Begin, BufferOps
\* An answer of WSK reaches the AsyncContext of one call that waits or is
\* about to wait, and nothing of another call.
LEMMA CompleteFrame ==
  ASSUME TypeInv, NEW c \in Contexts, NEW t \in Threads, NEW v \in Outcomes,
         irp[c] # "none", WskComplete(c, t, v)
  PROVE  /\ irp'[c] # "none"
         /\ ioStatus'[c] = v
         /\ reply'[t] = v
         /\ \A d \in Contexts : d # c => /\ irp'[d] = irp[d]
                                        /\ event'[d] = event[d]
                                        /\ ioStatus'[d] = ioStatus[d]
         /\ \A u \in Threads : u # t => reply'[u] = reply[u]
  BY DEF WskComplete, KspAsyncContextCompletionRoutine, TypeInv, TypeOK

LEMMA AnswerCallInv ==
  ASSUME CallInv, TypeInv', NEW t \in Threads, WskAnswer(t)
  PROVE  CallInv'
<1> USE DEF CallInv
<1>1. PICK r \in inflight, v \in Outcomes :
        /\ r[2] = t
        /\ inflight' = inflight \ {r}
        /\ WskComplete(r[1], t, v)
  BY DEF WskAnswer
<1>2. /\ pc[t] = "wait" /\ ctx[t] = r[1] /\ status[t] = "pending"
      /\ r[1] \in Contexts /\ r = <<r[1], t>>
      /\ irp[r[1]] # "none"
  BY <1>1 DEF RequestInv, ContextInv, TypeInv, TypeOK
<1>3. \A u \in Threads : u # t => ctx[u] # r[1]
  BY <1>2, OwnContext
<1>4. /\ irp'[r[1]] # "none"
      /\ ioStatus'[r[1]] = v
      /\ reply'[t] = v
      /\ \A d \in Contexts : d # r[1] => /\ irp'[d] = irp[d]
                                        /\ event'[d] = event[d]
                                        /\ ioStatus'[d] = ioStatus[d]
      /\ \A u \in Threads : u # t => reply'[u] = reply[u]
  BY <1>1, <1>2, CompleteFrame
<1>5. UNCHANGED <<halted, pool, app, pc, op, ctx, status, mdl>>
  BY DEF WskAnswer, threadVars
<1>6. ContextInv'
  BY <1>2, <1>3, <1>4, <1>5 DEF ContextInv, TypeInv, ContextOK
<1>7. AppInv' /\ LockInv'
  BY <1>5 DEF AppInv, LockInv
<1>8. StageInv'
  BY <1>2, <1>3, <1>4, <1>5 DEF StageInv, Armed, TypeInv, ContextOK
<1>9. RequestInv'
  <2> SUFFICES ASSUME NEW q \in inflight, q # r
               PROVE  /\ pc[q[2]] = "wait" /\ ctx[q[2]] = q[1]
                      /\ status[q[2]] = "pending" /\ reply'[q[2]] = "none"
    BY <1>1, <1>5 DEF RequestInv
  <2>1. /\ pc[q[2]] = "wait" /\ ctx[q[2]] = q[1]
        /\ status[q[2]] = "pending" /\ reply[q[2]] = "none"
    BY DEF RequestInv
  <2>2. q[2] \in Threads /\ q = <<q[1], q[2]>>
    BY DEF TypeInv, TypeOK
  <2>3. q[2] # t
    BY <1>2, <2>1, <2>2
  <2> QED  BY <1>4, <2>1, <2>2, <2>3
<1> QED  BY <1>6, <1>7, <1>8, <1>9

LEMMA WskCallInv ==
  ASSUME CallInv, TypeInv', NEW t \in Threads, WskCall(t)
  PROVE  CallInv'
<1> USE DEF CallInv
<1>1. /\ pc[t] = "call" /\ pc' = [pc EXCEPT ![t] = "wait"]
      /\ UNCHANGED <<halted, pool, app, op, ctx, mdl>>
      /\ pc \in [Threads -> {"idle", "call", "wait", "tail"}]
      /\ status \in [Threads -> Outcomes \cup {"none", "pending"}]
      /\ reply \in [Threads -> Outcomes \cup {"none"}]
  BY DEF WskCall, TypeInv, TypeOK
<1>2. /\ ctx[t] \in Contexts
      /\ irp[ctx[t]] # "none"
      /\ Armed(t)
      /\ \A u \in Threads : u # t => ctx[u] # ctx[t]
      /\ \A r \in inflight : r[2] # t
  BY <1>1, OwnContext DEF ContextInv, StageInv, RequestInv, TypeInv, ContextOK
<1>3. AppInv' /\ LockInv'
  BY <1>1 DEF AppInv, LockInv
<1>4. ASSUME NEW v \in Outcomes, WskComplete(ctx[t], t, v),
             status' = [status EXCEPT ![t] = v], UNCHANGED inflight
      PROVE  CallInv'
  <2>1. /\ irp'[ctx[t]] # "none"
        /\ reply'[t] = v
        /\ \A d \in Contexts : d # ctx[t] => /\ irp'[d] = irp[d]
                                            /\ event'[d] = event[d]
                                            /\ ioStatus'[d] = ioStatus[d]
        /\ \A u \in Threads : u # t => reply'[u] = reply[u]
    BY <1>2, <1>4, CompleteFrame
  <2>2. ContextInv'
    BY <1>1, <1>2, <2>1 DEF ContextInv, TypeInv, ContextOK
  <2>3. StageInv'
    BY <1>1, <1>2, <1>4, <2>1 DEF StageInv, Armed, TypeInv, ContextOK
  <2>4. RequestInv'
    BY <1>1, <1>2, <1>4, <2>1 DEF RequestInv, TypeInv, TypeOK
  <2> QED  BY <1>3, <2>2, <2>3, <2>4
<1>5. CASE /\ status' = [status EXCEPT ![t] = "pending"]
           /\ reply' = [reply EXCEPT ![t] = "none"]
           /\ inflight' = inflight \cup {<<ctx[t], t>>}
           /\ UNCHANGED <<contextVars, open>>
  <2> USE <1>1, <1>2, <1>5 DEF contextVars
  <2>1. ContextInv'
    BY DEF ContextInv, TypeInv, ContextOK
  <2>2. StageInv'
    BY DEF StageInv, Armed
  <2>3. RequestInv'
    BY DEF RequestInv, TypeInv, TypeOK
  <2> QED  BY <1>3, <2>1, <2>2, <2>3
<1> QED  BY <1>4, <1>5 DEF WskCall
LEMMA ProceedCallInv ==
  ASSUME CallInv, TypeInv', ~halted, NEW t \in Threads, Proceed(t)
  PROVE  CallInv'
<1> USE DEF CallInv
<1>a. /\ pc \in [Threads -> {"idle", "call", "wait", "tail"}]
      /\ op \in [Threads -> Ops]
      /\ ctx \in [Threads -> Contexts \cup {NULL}]
      /\ status \in [Threads -> Outcomes \cup {"none", "pending"}]
      /\ reply \in [Threads -> Outcomes \cup {"none"}]
      /\ irp \in [Contexts -> {"none", "bare", "armed"}]
      /\ ioStatus \in [Contexts -> Outcomes]
      /\ event \in [Contexts -> BOOLEAN]
      /\ mdl \in [Threads -> BOOLEAN]
      /\ pool \subseteq Sockets /\ app \subseteq Sockets
  BY DEF TypeInv, TypeOK
<1>b. pc[t] # "idle" => /\ ctx[t] \in Contexts
                        /\ \A u \in Threads : u # t => ctx[u] # ctx[t]
  BY OwnContext DEF TypeInv, ContextOK
\* What returning does to the invariant, when the other calls keep theirs.
<1>c. ASSUME pc[t] = "tail", Return(t),
             app' \subseteq pool',
             \A u \in Threads : u # t /\ ctx[u] \in pool => ctx[u] \in pool',
             \A u \in Threads : u # t /\ op[u] \in CreateOps \cup {"close"}
                                 => ctx[u] \notin app',
             \A u \in Threads : u # t /\ pc[u] # "idle" =>
               /\ irp'[ctx[u]] = irp[ctx[u]]
               /\ event'[ctx[u]] = event[ctx[u]]
               /\ ioStatus'[ctx[u]] = ioStatus[ctx[u]],
             LockInv',
             UNCHANGED <<halted, inflight>>
      PROVE  CallInv'
  <2> USE <1>a, <1>c DEF Return
  <2>1. ContextInv'
    BY DEF ContextInv
  <2>2. AppInv'
    BY DEF AppInv, CreateOps
  <2>3. StageInv'
    BY DEF StageInv, Armed
  <2>4. RequestInv'
    BY DEF RequestInv, TypeInv, TypeOK
  <2> QED  BY <2>1, <2>2, <2>3, <2>4
\* A function that locks no pages returns.
<1>d. ASSUME Return(t), op[t] \notin BufferOps, UNCHANGED <<halted, mdl>>
      PROVE  LockInv'
  BY <1>a, <1>d DEF Return, LockInv, BufferOps
<1>1. CASE WskCall(t)
  BY <1>1, WskCallInv
<1>2. CASE KspAsyncContextWaitForCompletion(t)
  <2> USE <1>2, <1>a, <1>b DEF KspAsyncContextWaitForCompletion
  <2>1. ContextInv' /\ AppInv' /\ LockInv'
    BY DEF ContextInv, AppInv, LockInv
  <2>2. /\ status'[t] = reply[t] /\ reply[t] \in Outcomes
        /\ \A u \in Threads : u # t => status'[u] = status[u]
        /\ \A d \in Contexts : d # ctx[t] => event'[d] = event[d]
    <3>1. \/ status[t] = "pending" /\ Armed(t)
          \/ status[t] = "pending" /\ reply[t] = ioStatus[ctx[t]]
          \/ status[t] = reply[t] /\ reply[t] \in Outcomes
      BY DEF StageInv
    <3>2. CASE status[t] = "pending" /\ event[ctx[t]]
               /\ event' = [event EXCEPT ![ctx[t]] = FALSE]
               /\ status' = [status EXCEPT ![t] = ioStatus[ctx[t]]]
      BY <3>1, <3>2 DEF Armed, Outcomes
    <3>3. CASE status[t] # "pending" /\ UNCHANGED <<event, status>>
      BY <3>1, <3>3
    <3> QED  BY <3>2, <3>3
  <2>3. StageInv'
    BY <2>2 DEF StageInv, Armed, TypeInv, ContextOK
  <2>4. \A r \in inflight : r[2] # t
    BY <2>2 DEF RequestInv, Outcomes
  <2>5. RequestInv'
    BY <2>2, <2>4 DEF RequestInv, TypeInv, TypeOK
  <2> QED  BY <2>1, <2>3, <2>5
<1>3. CASE ReturnStatus(t)
  BY <1>3, <1>c, <1>d DEF ReturnStatus, BufferOps, AppInv, contextVars
<1>4. CASE ConnectAfterBind(t)
  <2>1. CASE /\ KspAsyncContextReset(ctx[t])
             /\ Call(t, ctx[t], "connect")
             /\ reply' = [reply EXCEPT ![t] = "none"]
    <3> USE <1>4, <1>a, <1>b, <2>1
        DEF ConnectAfterBind, KspAsyncContextReset, Call
    <3>1. ContextInv'
      BY DEF ContextInv, TypeInv, ContextOK
    <3>2. AppInv'
      BY DEF AppInv, CreateOps
    <3>3. StageInv'
      BY DEF StageInv, Armed, TypeInv, ContextOK
    <3>4. RequestInv'
      BY DEF RequestInv, TypeInv, TypeOK
    <3>5. LockInv'
      BY DEF LockInv, BufferOps
    <3> QED  BY <3>1, <3>2, <3>3, <3>4, <3>5
  <2>2. CASE Return(t) /\ UNCHANGED contextVars
    BY <1>4, <1>c, <1>d, <2>2 DEF ConnectAfterBind, BufferOps, AppInv, contextVars
  <2> QED  BY <1>4, <2>1, <2>2 DEF ConnectAfterBind
<1>5. CASE ReleaseBuffer(t)
  <2>1. /\ pc[t] = "tail" /\ Return(t)
        /\ mdl' = [mdl EXCEPT ![t] = FALSE]
        /\ UNCHANGED <<halted, pool, app, irp, event, ioStatus, inflight>>
    BY <1>5 DEF ReleaseBuffer, contextVars
  <2>2. LockInv'
    BY <1>a, <2>1 DEF Return, LockInv, BufferOps
  <2> QED  BY <1>c, <2>1, <2>2 DEF AppInv
<1>6. CASE SaveCreated(t)
  <2>1. /\ pc[t] = "tail" /\ op[t] \in CreateOps /\ Return(t)
        /\ app' = app \cup {ctx[t]} \/ app' = app
        /\ UNCHANGED <<halted, pool, irp, event, ioStatus, mdl, inflight>>
    BY <1>6 DEF SaveCreated, contextVars
  <2>2. ctx[t] \in pool /\ op[t] \notin BufferOps
    BY <2>1 DEF ContextInv, CreateOps, BufferOps
  <2>3. \A u \in Threads : u # t => ctx[u] # ctx[t]
    BY <1>b, <2>1
  <2> QED  BY <1>c, <1>d, <2>1, <2>2, <2>3 DEF AppInv
<1>7. CASE SaveAccepted(t)
  <2>1. pc[t] = "tail" /\ op[t] \notin BufferOps /\ Return(t)
        /\ UNCHANGED <<halted, mdl, inflight>>
    BY <1>7 DEF SaveAccepted, BufferOps
  <2>2. ASSUME NEW s \in Sockets \ pool,
               pool' = pool \cup {s}, app' = app \cup {s},
               KspAsyncContextAllocate(s)
        PROVE  CallInv'
    <3>1. \A u \in Threads : ctx[u] # s
      BY KsocketAssumption DEF ContextInv
    <3>2. \A d \in Contexts : d # s => /\ irp'[d] = irp[d]
                                     /\ event'[d] = event[d]
                                     /\ ioStatus'[d] = ioStatus[d]
      BY <1>a, <2>2 DEF KspAsyncContextAllocate
    <3> QED  BY <1>c, <1>d, <2>1, <2>2, <3>1, <3>2 DEF AppInv, TypeInv, ContextOK
  <2>3. CASE UNCHANGED <<pool, wskSocket, app, contextVars>>
    BY <1>c, <1>d, <2>1, <2>3 DEF AppInv, contextVars
  <2> QED  BY <1>7, <2>2, <2>3 DEF SaveAccepted
<1>8. CASE FreeClosed(t)
  <2>1. /\ pc[t] = "tail" /\ op[t] = "close" /\ Return(t)
        /\ KspAsyncContextFree(ctx[t])
        /\ pool' = pool \ {ctx[t]}
        /\ UNCHANGED <<halted, app, mdl, inflight>>
    BY <1>8 DEF FreeClosed
  <2>2. /\ ctx[t] \notin app /\ op[t] \notin BufferOps
        /\ \A u \in Threads : u # t => ctx[u] # ctx[t]
    BY <1>b, <2>1 DEF AppInv, BufferOps
  <2>3. \A d \in Contexts : d # ctx[t] => /\ irp'[d] = irp[d]
                                        /\ event'[d] = event[d]
                                        /\ ioStatus'[d] = ioStatus[d]
    BY <1>a, <2>1 DEF KspAsyncContextFree
  <2> QED  BY <1>c, <1>d, <2>1, <2>2, <2>3 DEF AppInv, TypeInv, ContextOK
<1>9. CASE FreeAddrInfoContext(t)
  <2>1. /\ pc[t] = "tail" /\ op[t] = "getaddrinfo" /\ Return(t)
        /\ KspAsyncContextFree(ctx[t])
        /\ UNCHANGED <<halted, pool, app, mdl, inflight>>
    BY <1>9 DEF FreeAddrInfoContext
  <2>2. /\ op[t] \notin BufferOps
        /\ \A u \in Threads : u # t => ctx[u] # ctx[t]
    BY <1>b, <2>1 DEF BufferOps
  <2>3. \A d \in Contexts : d # ctx[t] => /\ irp'[d] = irp[d]
                                        /\ event'[d] = event[d]
                                        /\ ioStatus'[d] = ioStatus[d]
    BY <1>a, <2>1 DEF KspAsyncContextFree
  <2> QED  BY <1>c, <1>d, <2>1, <2>2, <2>3 DEF AppInv, TypeInv, ContextOK
<1> QED
  BY <1>1, <1>2, <1>3, <1>4, <1>5, <1>6, <1>7, <1>8, <1>9 DEF Proceed

LEMMA NextCallInv == ExclusiveUse /\ CallInv /\ [Next]_vars => CallInv'
<1> SUFFICES ASSUME ExclusiveUse, CallInv, [Next]_vars
             PROVE  CallInv'
  OBVIOUS
<1>1. TypeInv'
  BY TypeNext DEF CallInv
<1>2. CASE UNCHANGED vars
  BY <1>1, <1>2 DEF vars, contextVars, threadVars, CallInv, ContextInv, AppInv,
                    StageInv, Armed, RequestInv, LockInv
<1>3. CASE KsInitialize \/ KsDestroy \/ WskDeregister
  BY <1>1, <1>3 DEF KsInitialize, KsDestroy, WskDeregister, contextVars,
                    threadVars, CallInv, ContextInv, AppInv, StageInv, Armed,
                    RequestInv, LockInv
<1>4. CASE ~halted /\ \E t \in Threads : Begin(t) \/ Proceed(t) \/ WskAnswer(t)
  BY <1>1, <1>4, BeginCallInv, ProceedCallInv, AnswerCallInv
<1> QED  BY <1>2, <1>3, <1>4 DEF Next

LEMMA CallInvAlways == ExclusiveUse /\ Spec => []CallInv
<1> SUFFICES ASSUME ExclusiveUse PROVE Spec => []CallInv
  OBVIOUS
<1>1. CallInv /\ [Next]_vars => CallInv'
  BY NextCallInv
<1> QED  BY <1>1, CallInit, PTL DEF Spec

-----------------------------------------------------------------------------
(***************************************************************************)
(* What the invariant implies.                                             *)
(***************************************************************************)

\* WSK holds at most one request per IRP (ksocket.c:118-122).
THEOREM OneRequest == ExclusiveUse /\ Spec => []OneRequestPerIrp
<1>1. CallInv => OneRequestPerIrp
  <2> SUFFICES ASSUME CallInv, NEW r \in inflight, NEW q \in inflight,
                      r[1] = q[1]
               PROVE  r = q
    BY DEF OneRequestPerIrp
  <2>1. /\ r = <<r[1], r[2]>> /\ q = <<q[1], q[2]>>
        /\ r[2] \in Threads /\ q[2] \in Threads
    BY DEF CallInv, TypeInv, TypeOK
  <2>2. ctx[r[2]] = ctx[q[2]] /\ pc[r[2]] # "idle"
    BY DEF CallInv, RequestInv
  <2> QED  BY <2>1, <2>2, OwnContext
<1> QED  BY <1>1, CallInvAlways, PTL

\* A request is with WSK only under an armed IRP and a clear event
\* (ksocket.c:108-117, 132-141).
THEOREM RequestsArmed == ExclusiveUse /\ Spec => []ArmedWhenSubmitted
<1>1. CallInv => ArmedWhenSubmitted
  BY DEF CallInv, TypeInv, TypeOK, RequestInv, StageInv, Armed,
         ArmedWhenSubmitted, Outcomes
<1> QED  BY <1>1, CallInvAlways, PTL

\* A function continues with the Status of its own request
\* (ksocket.c:132-138, 158-165).
THEOREM OwnReply == ExclusiveUse /\ Spec => []ReplyIsOwn
<1>1. CallInv => ReplyIsOwn
  BY DEF CallInv, StageInv, ReplyIsOwn, Outcomes
<1> QED  BY <1>1, CallInvAlways, PTL

\* The pages WSK may touch are locked, and none stays locked
\* (ksocket.c:546-550, 599-602).
THEOREM LockedBuffers == ExclusiveUse /\ Spec => []BufferLocked
<1>1. CallInv => BufferLocked
  BY DEF CallInv, TypeInv, TypeOK, ContextInv, LockInv, BufferLocked, BufferOps
<1> QED  BY <1>1, CallInvAlways, PTL

\* No function and no answer of WSK uses a block or an IRP that is freed
\* (ksocket.c:381-393).
THEOREM MemorySafe == ExclusiveUse /\ Spec => []NoUseAfterFree
<1>1. CallInv => NoUseAfterFree
  <2> SUFFICES ASSUME CallInv
               PROVE  NoUseAfterFree
    OBVIOUS
  <2>1. \A t \in Threads :
          pc[t] # "idle" => irp[ctx[t]] # "none" /\ ctx[t] \in pool \cup Threads
    BY DEF CallInv, ContextInv
  <2>2. \A r \in inflight :
          /\ r[2] \in Threads /\ pc[r[2]] # "idle" /\ ctx[r[2]] = r[1]
    BY DEF CallInv, TypeInv, TypeOK, RequestInv
  <2> QED  BY <2>1, <2>2 DEF NoUseAfterFree
<1> QED  BY <1>1, CallInvAlways, PTL

-----------------------------------------------------------------------------
(***************************************************************************)
(* ksocket.c implements the blocking call.                                 *)
(***************************************************************************)

\* The abstract state as the mapping of Sync has it.
StageMap == [t \in Threads |-> StageOf(t)]
ResultMap == [t \in Threads |-> ResultOf(t)]

\* What the mapping makes of the position of thread t.
LEMMA MapAt ==
  ASSUME NEW t \in Threads
  PROVE  /\ pc[t] \in {"idle", "call"} => StageOf(t) = "idle" /\ ResultOf(t) = "none"
         /\ pc[t] = "wait" => StageOf(t) = "issued" /\ ResultOf(t) = "none"
         /\ pc[t] = "tail" => StageOf(t) = "delivered" /\ ResultOf(t) = status[t]
  BY DEF StageOf, ResultOf

LEMMA MapAtNext ==
  ASSUME NEW t \in Threads
  PROVE  /\ pc'[t] \in {"idle", "call"} => StageOf(t)' = "idle" /\ ResultOf(t)' = "none"
         /\ pc'[t] = "wait" => StageOf(t)' = "issued" /\ ResultOf(t)' = "none"
         /\ pc'[t] = "tail" => StageOf(t)' = "delivered" /\ ResultOf(t)' = status'[t]
  BY DEF StageOf, ResultOf

\* A thread that does not move keeps its abstract state.
LEMMA MapOther ==
  ASSUME NEW u \in Threads, pc'[u] = pc[u], status'[u] = status[u]
  PROVE  StageOf(u)' = StageOf(u) /\ ResultOf(u)' = ResultOf(u)
  BY DEF StageOf, ResultOf

\* The abstract state sees a step of thread t at t alone.
LEMMA MapStep ==
  ASSUME NEW t \in Threads,
         \A u \in Threads : u # t => pc'[u] = pc[u] /\ status'[u] = status[u]
  PROVE  /\ StageMap' = [StageMap EXCEPT ![t] = StageOf(t)']
         /\ ResultMap' = [ResultMap EXCEPT ![t] = ResultOf(t)']
<1>1. \A u \in Threads : u # t => StageOf(u)' = StageOf(u) /\ ResultOf(u)' = ResultOf(u)
  BY MapOther
<1> QED  BY <1>1 DEF StageMap, ResultMap
\* The four abstract actions, as steps of pc, status and reply.
LEMMA MapIssue ==
  ASSUME NEW t \in Threads, TypeInv, pc[t] = "call",
         pc' = [pc EXCEPT ![t] = "wait"],
         NEW v \in Outcomes \cup {"none"}, reply' = [reply EXCEPT ![t] = v],
         \A u \in Threads : u # t => status'[u] = status[u]
  PROVE  Sync!Issue(t)
<1>1. /\ StageMap' = [StageMap EXCEPT ![t] = "issued"]
      /\ ResultMap' = [ResultMap EXCEPT ![t] = "none"]
  BY MapStep, MapAtNext DEF TypeInv, TypeOK
<1>2. StageMap[t] = "idle" /\ ResultMap[t] = "none"
  BY MapAt DEF StageMap, ResultMap
<1>3. ResultMap' = ResultMap
  BY <1>1, <1>2 DEF ResultMap
<1> QED  BY <1>1, <1>2, <1>3 DEF Sync!Issue, StageMap, ResultMap

LEMMA MapAnswer ==
  ASSUME NEW t \in Threads, pc[t] = "wait", reply[t] = "none",
         UNCHANGED <<pc, status>>,
         NEW v \in Outcomes, reply' = [reply EXCEPT ![t] = v]
  PROVE  Sync!Answer(t)
<1>1. StageMap' = StageMap /\ ResultMap' = ResultMap
  BY MapOther DEF StageMap, ResultMap
<1>2. StageMap[t] = "issued"
  BY MapAt DEF StageMap
<1> QED  BY <1>1, <1>2 DEF Sync!Answer, StageMap, ResultMap

LEMMA MapDeliver ==
  ASSUME NEW t \in Threads, TypeInv, pc[t] = "wait",
         pc' = [pc EXCEPT ![t] = "tail"],
         \A u \in Threads : u # t => status'[u] = status[u],
         status'[t] = reply[t], reply[t] # "none", reply' = reply
  PROVE  Sync!Deliver(t)
<1>1. /\ StageMap' = [StageMap EXCEPT ![t] = "delivered"]
      /\ ResultMap' = [ResultMap EXCEPT ![t] = reply[t]]
  BY MapStep, MapAtNext DEF TypeInv, TypeOK
<1>2. StageMap[t] = "issued"
  BY MapAt DEF StageMap
<1> QED  BY <1>1, <1>2 DEF Sync!Deliver, StageMap, ResultMap

LEMMA MapFinish ==
  ASSUME NEW t \in Threads, TypeInv, pc[t] = "tail",
         NEW p \in {"idle", "call"}, pc' = [pc EXCEPT ![t] = p],
         \A u \in Threads : u # t => status'[u] = status[u],
         reply' = [reply EXCEPT ![t] = "none"]
  PROVE  Sync!Finish(t)
<1>1. /\ StageMap' = [StageMap EXCEPT ![t] = "idle"]
      /\ ResultMap' = [ResultMap EXCEPT ![t] = "none"]
  BY MapStep, MapAtNext DEF TypeInv, TypeOK
<1>2. StageMap[t] = "delivered"
  BY MapAt DEF StageMap
<1> QED  BY <1>1, <1>2 DEF Sync!Finish, StageMap, ResultMap

\* Steps outside the wait leave the abstract state alone.
LEMMA MapStutter ==
  ASSUME reply' = reply,
         \A u \in Threads : StageOf(u)' = StageOf(u) /\ ResultOf(u)' = ResultOf(u)
  PROVE  UNCHANGED Sync!syncVars
  BY DEF Sync!syncVars

LEMMA SimulateBegin ==
  ASSUME TypeInv, NEW t \in Threads, Begin(t)
  PROVE  UNCHANGED Sync!syncVars
<1>1. /\ pc[t] = "idle" /\ reply' = reply
      /\ \/ UNCHANGED threadVars
         \/ \E o \in Ops, c \in Contexts : Call(t, c, o)
  <2>1. CASE KsGetAddrInfo(t)
    BY <2>1 DEF KsGetAddrInfo, CanCall, Contexts, Ops
  <2>2. ASSUME NEW o \in CreateOps, KsCreateSocket(t, o)
        PROVE  <1>1!:
    BY <2>2 DEF KsCreateSocket, CanCall, Contexts, Ops, OpeningOps
  <2>3. ASSUME NEW s \in Sockets,
               \/ KsCloseSocket(t, s)
               \/ KsBind(t, s)
               \/ KsAccept(t, s)
               \/ KsConnect(t, s)
        PROVE  <1>1!:
    BY <2>3 DEF KsCloseSocket, KsBind, KsAccept, KsConnect, CanUse, CanCall,
                Enter, Contexts, Ops, OpeningOps
  <2>4. ASSUME NEW s \in Sockets, NEW o \in BufferOps,
               KsSendRecv(t, s, o) \/ KsSendRecvUdp(t, s, o)
        PROVE  <1>1!:
    BY <2>4 DEF KsSendRecv, KsSendRecvUdp, CanUse, CanCall, EnterLocked, Enter,
                Contexts, Ops
  <2> QED  BY <2>1, <2>2, <2>3, <2>4 DEF Begin, BufferOps
<1>2. CASE UNCHANGED threadVars
  BY <1>1, <1>2, MapOther, MapStutter DEF threadVars
<1>3. ASSUME NEW o \in Ops, NEW c \in Contexts, Call(t, c, o)
      PROVE  UNCHANGED Sync!syncVars
  <2>1. /\ pc'[t] = "call"
        /\ \A u \in Threads : u # t => pc'[u] = pc[u] /\ status'[u] = status[u]
    BY <1>3 DEF Call, TypeInv, TypeOK
  <2>2. StageOf(t)' = StageOf(t) /\ ResultOf(t)' = ResultOf(t)
    BY <1>1, <2>1, MapAt, MapAtNext
  <2> QED  BY <1>1, <2>1, <2>2, MapOther, MapStutter
<1> QED  BY <1>1, <1>2, <1>3
LEMMA SimulateAnswer ==
  ASSUME CallInv, NEW t \in Threads, WskAnswer(t)
  PROVE  Sync!Answer(t)
<1>1. PICK r \in inflight, v \in Outcomes : r[2] = t /\ WskComplete(r[1], t, v)
  BY DEF WskAnswer
<1>2. pc[t] = "wait" /\ reply[t] = "none"
  BY <1>1 DEF CallInv, RequestInv
<1>3. reply' = [reply EXCEPT ![t] = v] /\ UNCHANGED <<pc, status>>
  BY <1>1 DEF WskComplete, WskAnswer, threadVars
<1> QED  BY <1>2, <1>3, MapAnswer

LEMMA SimulateProceed ==
  ASSUME CallInv, NEW t \in Threads, Proceed(t)
  PROVE  Sync!Issue(t) \/ Sync!Deliver(t) \/ Sync!Finish(t)
<1>a. TypeInv
  BY DEF CallInv
<1>b. /\ pc \in [Threads -> {"idle", "call", "wait", "tail"}]
      /\ status \in [Threads -> Outcomes \cup {"none", "pending"}]
  BY <1>a DEF TypeInv, TypeOK
<1>c. ASSUME pc[t] = "tail", Return(t)
      PROVE  Sync!Finish(t)
  BY <1>a, <1>b, <1>c, MapFinish DEF Return
<1>1. CASE WskCall(t)
  <2>1. /\ pc[t] = "call" /\ pc' = [pc EXCEPT ![t] = "wait"]
        /\ \A u \in Threads : u # t => status'[u] = status[u]
        /\ \E v \in Outcomes \cup {"none"} : reply' = [reply EXCEPT ![t] = v]
    BY <1>1, <1>b DEF WskCall, WskComplete
  <2> QED  BY <1>a, <2>1, MapIssue
<1>2. CASE KspAsyncContextWaitForCompletion(t)
  <2>1. /\ pc[t] = "wait" /\ pc' = [pc EXCEPT ![t] = "tail"] /\ reply' = reply
        /\ \A u \in Threads : u # t => status'[u] = status[u]
    BY <1>2, <1>b DEF KspAsyncContextWaitForCompletion
  <2>2. \/ status[t] = "pending" /\ Armed(t)
        \/ status[t] = "pending" /\ reply[t] = ioStatus[ctx[t]]
        \/ status[t] = reply[t] /\ reply[t] \in Outcomes
    BY <2>1 DEF CallInv, StageInv
  <2>3. ctx[t] \in Contexts /\ ioStatus[ctx[t]] \in Outcomes
    BY <1>a, <2>1 DEF TypeInv, TypeOK, ContextOK
  <2>4. status'[t] = reply[t] /\ reply[t] # "none"
    <3>1. CASE status[t] = "pending" /\ event[ctx[t]]
               /\ status' = [status EXCEPT ![t] = ioStatus[ctx[t]]]
      BY <1>b, <2>2, <2>3, <3>1 DEF Armed, Outcomes
    <3>2. CASE status[t] # "pending" /\ status' = status
      BY <2>2, <3>2 DEF Outcomes
    <3> QED  BY <1>2, <3>1, <3>2 DEF KspAsyncContextWaitForCompletion
  <2> QED  BY <1>a, <2>1, <2>4, MapDeliver
<1>3. CASE ConnectAfterBind(t)
  <2>1. CASE Call(t, ctx[t], "connect") /\ reply' = [reply EXCEPT ![t] = "none"]
    <3>1. /\ pc[t] = "tail" /\ pc' = [pc EXCEPT ![t] = "call"]
          /\ \A u \in Threads : u # t => status'[u] = status[u]
      BY <1>3, <1>b, <2>1 DEF ConnectAfterBind, Call
    <3> QED  BY <1>a, <2>1, <3>1, MapFinish
  <2>2. CASE Return(t)
    BY <1>3, <1>c, <2>2 DEF ConnectAfterBind
  <2> QED  BY <1>3, <2>1, <2>2 DEF ConnectAfterBind
<1>4. CASE \/ ReturnStatus(t) \/ ReleaseBuffer(t) \/ SaveCreated(t)
           \/ SaveAccepted(t) \/ FreeClosed(t) \/ FreeAddrInfoContext(t)
  BY <1>4, <1>c DEF ReturnStatus, ReleaseBuffer, SaveCreated, SaveAccepted,
                    FreeClosed, FreeAddrInfoContext
<1> QED  BY <1>1, <1>2, <1>3, <1>4 DEF Proceed

\* Every function of ksocket.c is a blocking call: it is handed the answer of
\* its own request, after WSK gave it, and once (ksocket.c:154-166).
THEOREM SyncCallImplemented == ExclusiveUse /\ Spec => ImplementsSyncCall
<1> SUFFICES ASSUME ExclusiveUse PROVE Spec => ImplementsSyncCall
  OBVIOUS
<1>1. Init => Sync!SyncInit
  BY MapAt DEF Init, Sync!SyncInit
<1>2. CallInv /\ [Next]_vars => [Sync!SyncNext]_(Sync!syncVars)
  <2> SUFFICES ASSUME CallInv, [Next]_vars
               PROVE  Sync!SyncNext \/ UNCHANGED Sync!syncVars
    OBVIOUS
  <2>1. CASE UNCHANGED vars
    BY <2>1, MapOther, MapStutter DEF vars, threadVars
  <2>2. CASE KsInitialize \/ KsDestroy \/ WskDeregister
    BY <2>2, MapOther, MapStutter
    DEF KsInitialize, KsDestroy, WskDeregister, threadVars
  <2>3. ASSUME NEW t \in Threads, Begin(t) \/ Proceed(t) \/ WskAnswer(t)
        PROVE  Sync!SyncNext \/ UNCHANGED Sync!syncVars
    BY <2>3, SimulateBegin, SimulateProceed, SimulateAnswer
    DEF Sync!SyncNext, CallInv
  <2> QED  BY <2>1, <2>2, <2>3 DEF Next
<1>3. CallInv /\ [Next]_vars => CallInv'
  BY NextCallInv
<1> QED
  BY <1>1, <1>2, <1>3, CallInit, PTL DEF Spec, ImplementsSyncCall, Sync!SyncSpec

-----------------------------------------------------------------------------
(***************************************************************************)
(* Who closes what: no block of the pool and no WSK socket is left without *)
(* anybody to free or close it.  Unlike the theorems above these ask that  *)
(* some calls do not fail; the theorems name the failures that would       *)
(* falsify them.                                                           *)
(***************************************************************************)

\* A function that neither makes nor frees a KSOCKET works on one of the
\* application's.
UsesApp ==
  \A t \in Threads :
    op[t] \in {"bind", "connectBind", "connect", "accept"} \cup BufferOps => ctx[t] \in app

\* A call that has not asked WSK yet has no answer, and the answers that
\* cannot be a failure are none.
AnswerInv ==
  \A t \in Threads :
    /\ pc[t] \in {"idle", "call"} => reply[t] = "none"
    /\ op[t] = "close" /\ reply[t] = "failure" => "close" \in Faults
    /\ op[t] \in CreateOps /\ reply[t] = "failure" => "create" \in Faults

\* KSOCKETs have their IRP.
IrpInv == "irp" \notin Faults => \A s \in app : irp[s] # "none"

OwnInv == CallInv /\ UsesApp /\ AnswerInv /\ IrpInv

-----------------------------------------------------------------------------
\* Who is to close a WSK socket: a KSOCKET that wraps it, unless WSK has closed
\* it already, or a function that has opened it and not returned.
Wrapping == app \cup {ctx[t] : t \in {u \in Threads : op[u] = "close" /\ reply[u] # "success"}}
Opening  == {t \in Threads : op[t] \in OpeningOps /\ reply[t] = "success"}

\* They close sockets that are open, each its own, and every open one.
ClaimsOpen ==
  /\ \A s \in Wrapping : wskSocket[s] \in WskSockets /\ open[wskSocket[s]] # "closed"
  /\ \A t \in Opening : ioInfo[ctx[t]] \in WskSockets /\ open[ioInfo[ctx[t]]] # "closed"

ClaimsDistinct ==
  /\ \A s, r \in Wrapping : wskSocket[s] = wskSocket[r] => s = r
  /\ \A t, u \in Opening : ioInfo[ctx[t]] = ioInfo[ctx[u]] => t = u
  /\ \A s \in Wrapping, t \in Opening : wskSocket[s] # ioInfo[ctx[t]]

ClaimsCover ==
  \A w \in WskSockets : open[w] # "closed" =>
    \/ \E s \in Wrapping : wskSocket[s] = w
    \/ \E t \in Opening : ioInfo[ctx[t]] = w

ClaimInv == ClaimsOpen /\ ClaimsDistinct /\ ClaimsCover
-----------------------------------------------------------------------------
\* A call on a KSOCKET either resets its AsyncContext and runs, or stops the
\* machine.
UseBegins(t, s, o) ==
  /\ KspAsyncContextReset(s) /\ Call(t, s, o)
  /\ app' = IF o = "close" THEN app \ {s} ELSE app

UseHalts(s) ==
  /\ halted' /\ UNCHANGED <<contextVars, threadVars>>
  /\ app' = app \/ (app' = app \ {s} /\ irp[s] = "none")

LEMMA BeginUse ==
  ASSUME ExclusiveUse, NEW t \in Threads, Begin(t), ~KsGetAddrInfo(t),
         \A o \in CreateOps : ~KsCreateSocket(t, o)
  PROVE  \E s \in app, o \in {"close", "bind", "accept", "connectBind"} \cup BufferOps :
           /\ pc[t] = "idle" /\ open[wskSocket[s]] \in Dispatches
           /\ \A u \in Threads : ctx[u] # s
           /\ UseBegins(t, s, o) \/ UseHalts(s)
           /\ UNCHANGED <<reg, pool, wskSocket, inflight, reply, open>>
<1>1. ASSUME NEW s \in Sockets,
             KsCloseSocket(t, s) \/ KsBind(t, s) \/ KsAccept(t, s) \/ KsConnect(t, s)
      PROVE  \E o \in {"close", "bind", "accept", "connectBind"} :
               /\ CanUse(t, s, o, Dispatches) /\ Enter(t, s, o)
               /\ app' = IF o = "close" THEN app \ {s} ELSE app
               /\ UNCHANGED <<reg, pool, wskSocket, inflight, reply, open>>
  BY <1>1 DEF KsCloseSocket, KsBind, KsAccept, KsConnect, CanUse, Dispatches
<1>2. ASSUME NEW s \in Sockets, NEW o \in BufferOps,
             KsSendRecv(t, s, o) \/ KsSendRecvUdp(t, s, o)
      PROVE  /\ CanUse(t, s, o, Dispatches) /\ EnterLocked(t, s, o)
             /\ UNCHANGED <<reg, pool, app, wskSocket, inflight, reply, open>>
  BY <1>2 DEF KsSendRecv, KsSendRecvUdp, CanUse, Dispatches
<1>3. ASSUME NEW s, NEW o, CanUse(t, s, o, Dispatches)
      PROVE  /\ s \in app /\ pc[t] = "idle" /\ open[wskSocket[s]] \in Dispatches
             /\ \A u \in Threads : ctx[u] # s
  BY <1>3 DEF CanUse, CanCall
<1>4. ASSUME NEW s, NEW o, Enter(t, s, o), app' = IF o = "close" THEN app \ {s} ELSE app
      PROVE  UseBegins(t, s, o) \/ UseHalts(s)
  BY <1>4 DEF Enter, UseBegins, UseHalts
<1>5. ASSUME NEW s, NEW o \in BufferOps, EnterLocked(t, s, o), app' = app
      PROVE  UseBegins(t, s, o) \/ UseHalts(s)
  BY <1>5 DEF EnterLocked, Enter, UseBegins, UseHalts, BufferOps
<1>6. CASE \E s \in Sockets :
             KsCloseSocket(t, s) \/ KsBind(t, s) \/ KsAccept(t, s) \/ KsConnect(t, s)
  BY <1>1, <1>3, <1>4, <1>6
<1>7. CASE \E s \in Sockets, o \in BufferOps : KsSendRecv(t, s, o) \/ KsSendRecvUdp(t, s, o)
  BY <1>2, <1>3, <1>5, <1>7
<1> QED  BY <1>6, <1>7 DEF Begin, BufferOps

-----------------------------------------------------------------------------
(***************************************************************************)
(* The invariant of the KSOCKETs a call may touch.                         *)
(***************************************************************************)
LEMMA OwnInit == Init => OwnInv
<1> SUFFICES ASSUME Init PROVE OwnInv
  OBVIOUS
<1>1. UsesApp
  BY DEF Init, UsesApp, BufferOps
<1>2. AnswerInv /\ IrpInv
  BY DEF Init, AnswerInv, IrpInv, CreateOps
<1> QED  BY <1>1, <1>2, CallInit DEF OwnInv

LEMMA BeginOwn ==
  ASSUME ExclusiveUse, OwnInv, CallInv', NEW t \in Threads, Begin(t)
  PROVE  OwnInv'
<1>a. /\ pc \in [Threads -> {"idle", "call", "wait", "tail"}]
      /\ op \in [Threads -> Ops] /\ ctx \in [Threads -> Contexts \cup {NULL}]
      /\ irp \in [Contexts -> {"none", "bare", "armed"}]
      /\ app \subseteq pool /\ pool \subseteq Sockets
  BY DEF OwnInv, CallInv, TypeInv, TypeOK, AppInv
<1>b. UsesApp /\ AnswerInv /\ IrpInv
  BY DEF OwnInv
<1>1. CASE KsGetAddrInfo(t)
  <2>1. /\ pc[t] = "idle" /\ UNCHANGED <<app, reply>>
        /\ \A s \in Sockets : irp'[s] = irp[s]
        /\ Call(t, t, "getaddrinfo") \/ UNCHANGED threadVars
    BY <1>1, <1>a, KsocketAssumption DEF KsGetAddrInfo, CanCall, KspAsyncContextAllocate, Contexts
  <2>2. UsesApp' /\ AnswerInv'
    BY <1>a, <1>b, <2>1 DEF UsesApp, AnswerInv, Call, threadVars, CreateOps, BufferOps
  <2>3. IrpInv'
    BY <1>a, <1>b, <2>1 DEF IrpInv
  <2> QED  BY <2>2, <2>3 DEF OwnInv
<1>2. ASSUME NEW o \in CreateOps, KsCreateSocket(t, o)
      PROVE  OwnInv'
  <2>1. PICK s \in Sockets \ pool : KspAsyncContextAllocate(s)
    BY <1>2 DEF KsCreateSocket
  <2>2. /\ pc[t] = "idle" /\ UNCHANGED <<app, reply>>
        /\ \A r \in app : irp'[r] = irp[r]
    BY <1>2, <1>a, <2>1 DEF KsCreateSocket, CanCall, KspAsyncContextAllocate, Contexts
  <2>3. (\E c : Call(t, c, o)) \/ UNCHANGED threadVars
    BY <1>2 DEF KsCreateSocket
  <2>4. UsesApp' /\ AnswerInv'
    BY <1>a, <1>b, <2>2, <2>3 DEF UsesApp, AnswerInv, Call, threadVars, CreateOps, BufferOps
  <2>5. IrpInv'
    BY <1>b, <2>2 DEF IrpInv
  <2> QED  BY <2>4, <2>5 DEF OwnInv
<1>3. CASE ~KsGetAddrInfo(t) /\ \A o \in CreateOps : ~KsCreateSocket(t, o)
  <2>1. PICK s \in app, o \in {"close", "bind", "accept", "connectBind"} \cup BufferOps :
           /\ pc[t] = "idle"
           /\ \A u \in Threads : ctx[u] # s
           /\ UseBegins(t, s, o) \/ UseHalts(s)
           /\ UNCHANGED reply
    BY <1>3, BeginUse
  <2>2. CASE UseBegins(t, s, o)
    <3>1. UsesApp'
      BY <1>a, <1>b, <2>1, <2>2 DEF UsesApp, UseBegins, Call, BufferOps
    <3>2. AnswerInv'
      BY <1>a, <1>b, <2>1, <2>2 DEF AnswerInv, UseBegins, Call, BufferOps, CreateOps
    <3>3. IrpInv'
      BY <1>a, <1>b, <2>2 DEF IrpInv, UseBegins, KspAsyncContextReset, Contexts
    <3> QED  BY <3>1, <3>2, <3>3 DEF OwnInv
  <2>3. CASE UseHalts(s)
    <3>1. UsesApp' /\ IrpInv'
      BY <1>b, <2>1, <2>3 DEF UsesApp, IrpInv, UseHalts, contextVars, threadVars
    <3>2. AnswerInv'
      BY <1>b, <2>1, <2>3 DEF AnswerInv, UseHalts, contextVars, threadVars
    <3> QED  BY <3>1, <3>2 DEF OwnInv
  <2> QED  BY <2>1, <2>2, <2>3
<1> QED  BY <1>1, <1>2, <1>3
\* An answer of WSK leaves the KSOCKETs alone.
LEMMA CompleteOwn ==
  ASSUME OwnInv, NEW c \in Contexts, NEW t \in Threads, NEW v \in Outcomes,
         pc'[t] \notin {"idle", "call"}, irp[c] # "none",
         WskComplete(c, t, v), UNCHANGED <<app, op, ctx>>,
         \A u \in Threads : u # t => pc'[u] = pc[u]
  PROVE  UsesApp' /\ AnswerInv' /\ IrpInv'
<1>1. /\ irp'[c] # "none" /\ reply'[t] = v
      /\ \A d \in Contexts : d # c => irp'[d] = irp[d]
      /\ \A u \in Threads : u # t => reply'[u] = reply[u]
  BY CompleteFrame DEF OwnInv, CallInv
<1>2. v = "failure" => /\ op[t] = "close" => "close" \in Faults
                       /\ op[t] \in CreateOps => "create" \in Faults
  BY DEF WskComplete
<1>3. UsesApp'
  BY DEF OwnInv, UsesApp
<1>4. AnswerInv'
  BY <1>1, <1>2 DEF OwnInv, AnswerInv
<1>5. IrpInv'
  BY <1>1 DEF OwnInv, IrpInv, CallInv, TypeInv, TypeOK, Contexts
<1> QED  BY <1>3, <1>4, <1>5

LEMMA AnswerOwn ==
  ASSUME OwnInv, CallInv', NEW t \in Threads, WskAnswer(t)
  PROVE  OwnInv'
<1>1. PICK r \in inflight, v \in Outcomes : r[2] = t /\ WskComplete(r[1], t, v)
  BY DEF WskAnswer
<1>2. r[1] \in Contexts /\ pc[t] = "wait" /\ irp[r[1]] # "none"
  BY <1>1 DEF OwnInv, CallInv, TypeInv, TypeOK, RequestInv, ContextInv
<1>3. UNCHANGED <<app, op, ctx, pc>>
  BY DEF WskAnswer, threadVars
<1> QED  BY <1>1, <1>2, <1>3, CompleteOwn DEF OwnInv

\* A call that returns without an effect on the others.
LEMMA ReturnOwn ==
  ASSUME OwnInv, CallInv', NEW t \in Threads, Return(t),
         app \subseteq app',
         "irp" \notin Faults => \A s \in app' : irp'[s] # "none"
  PROVE  OwnInv'
<1>1. /\ pc \in [Threads -> {"idle", "call", "wait", "tail"}] /\ op \in [Threads -> Ops]
      /\ ctx \in [Threads -> Contexts \cup {NULL}]
      /\ reply \in [Threads -> Outcomes \cup {"none"}]
  BY DEF OwnInv, CallInv, TypeInv, TypeOK
<1>2. UsesApp'
  BY <1>1 DEF OwnInv, UsesApp, Return, BufferOps
<1>3. AnswerInv'
  BY <1>1 DEF OwnInv, AnswerInv, Return, CreateOps
<1> QED  BY <1>2, <1>3 DEF OwnInv, IrpInv

LEMMA ProceedOwn ==
  ASSUME OwnInv, CallInv', NEW t \in Threads, Proceed(t)
  PROVE  OwnInv'
<1>a. /\ pc \in [Threads -> {"idle", "call", "wait", "tail"}] /\ op \in [Threads -> Ops]
      /\ ctx \in [Threads -> Contexts \cup {NULL}]
      /\ reply \in [Threads -> Outcomes \cup {"none"}]
      /\ irp \in [Contexts -> {"none", "bare", "armed"}]
      /\ app \subseteq pool /\ pool \subseteq Sockets
  BY DEF OwnInv, CallInv, TypeInv, TypeOK, AppInv
<1>b. UsesApp /\ AnswerInv /\ IrpInv
  BY DEF OwnInv
<1>c. ASSUME Return(t), UNCHANGED <<app, irp>>
      PROVE  OwnInv'
  BY <1>b, <1>c, ReturnOwn DEF IrpInv
<1>1. CASE WskCall(t)
  <2>1. /\ pc' = [pc EXCEPT ![t] = "wait"] /\ UNCHANGED <<app, op, ctx>>
        /\ ctx[t] \in Contexts /\ irp[ctx[t]] # "none"
    BY <1>1 DEF WskCall, OwnInv, CallInv, TypeInv, ContextOK, ContextInv
  <2>2. CASE \E v \in Outcomes : WskComplete(ctx[t], t, v)
    <3>1. pc'[t] = "wait" /\ \A u \in Threads : u # t => pc'[u] = pc[u]
      BY <1>a, <2>1
    <3> QED  BY <2>1, <2>2, <3>1, CompleteOwn DEF OwnInv
  <2>3. CASE reply' = [reply EXCEPT ![t] = "none"] /\ UNCHANGED contextVars
    BY <1>a, <1>b, <2>1, <2>3 DEF OwnInv, UsesApp, AnswerInv, IrpInv, contextVars
  <2> QED  BY <1>1, <2>2, <2>3 DEF WskCall
<1>2. CASE KspAsyncContextWaitForCompletion(t)
  <2>1. /\ UNCHANGED <<app, op, ctx, reply, irp>>
        /\ pc[t] = "wait" /\ pc' = [pc EXCEPT ![t] = "tail"]
    BY <1>2 DEF KspAsyncContextWaitForCompletion
  <2> QED  BY <1>a, <1>b, <2>1 DEF OwnInv, UsesApp, AnswerInv, IrpInv
<1>3. CASE ReturnStatus(t)
  BY <1>c, <1>3 DEF ReturnStatus, contextVars
<1>4. CASE ConnectAfterBind(t)
  <2>1. CASE /\ KspAsyncContextReset(ctx[t]) /\ Call(t, ctx[t], "connect")
             /\ reply' = [reply EXCEPT ![t] = "none"]
    <3>1. pc[t] = "tail" /\ op[t] = "connectBind" /\ app' = app
      BY <1>4 DEF ConnectAfterBind
    <3>2. UsesApp'
      BY <1>a, <1>b, <2>1, <3>1 DEF UsesApp, Call, BufferOps
    <3>3. AnswerInv'
      BY <1>a, <1>b, <2>1, <3>1 DEF AnswerInv, Call, CreateOps
    <3>4. IrpInv'
      BY <1>a, <1>b, <2>1, <3>1 DEF IrpInv, KspAsyncContextReset, Contexts
    <3> QED  BY <3>2, <3>3, <3>4 DEF OwnInv
  <2>2. CASE Return(t) /\ UNCHANGED contextVars
    BY <1>c, <1>4, <2>2 DEF ConnectAfterBind, contextVars
  <2> QED  BY <1>4, <2>1, <2>2 DEF ConnectAfterBind
<1>5. CASE ReleaseBuffer(t)
  BY <1>c, <1>5 DEF ReleaseBuffer, contextVars
<1>6. CASE SaveCreated(t)
  <2>1. /\ pc[t] = "tail" /\ op[t] \in CreateOps /\ Return(t) /\ irp' = irp
        /\ app' = app \cup {ctx[t]} \/ app' = app
    BY <1>6 DEF SaveCreated, contextVars
  <2>2. irp[ctx[t]] # "none"
    BY <2>1 DEF OwnInv, CallInv, ContextInv
  <2> QED  BY <1>b, <2>1, <2>2, ReturnOwn DEF IrpInv
<1>7. CASE SaveAccepted(t)
  <2>1. Return(t)
    BY <1>7 DEF SaveAccepted
  <2>2. ASSUME NEW s \in Sockets \ pool, app' = app \cup {s}, KspAsyncContextAllocate(s)
        PROVE  OwnInv'
    <3>1. "irp" \notin Faults => \A r \in app' : irp'[r] # "none"
      BY <1>a, <1>b, <2>2 DEF IrpInv, KspAsyncContextAllocate, Contexts
    <3> QED  BY <2>1, <2>2, <3>1, ReturnOwn
  <2>3. CASE UNCHANGED <<app, contextVars>>
    BY <1>c, <2>1, <2>3 DEF contextVars
  <2> QED  BY <1>7, <2>2, <2>3 DEF SaveAccepted
<1>8. CASE FreeClosed(t) \/ FreeAddrInfoContext(t)
  <2>1. /\ pc[t] = "tail" /\ op[t] \in {"close", "getaddrinfo"} /\ Return(t)
        /\ KspAsyncContextFree(ctx[t]) /\ app' = app
    BY <1>8 DEF FreeClosed, FreeAddrInfoContext
  <2>2. ctx[t] \notin app
    BY <1>a, <2>1, KsocketAssumption DEF OwnInv, CallInv, AppInv, ContextInv
  <2>3. "irp" \notin Faults => \A r \in app' : irp'[r] # "none"
    BY <1>a, <1>b, <2>1, <2>2 DEF IrpInv, KspAsyncContextFree, Contexts
  <2> QED  BY <2>1, <2>3, ReturnOwn
<1> QED  BY <1>1, <1>2, <1>3, <1>4, <1>5, <1>6, <1>7, <1>8 DEF Proceed

LEMMA OwnNext == ExclusiveUse /\ OwnInv /\ [Next]_vars => OwnInv'
<1> SUFFICES ASSUME ExclusiveUse, OwnInv, [Next]_vars
             PROVE  OwnInv'
  OBVIOUS
<1>1. CallInv'
  BY NextCallInv DEF OwnInv
<1>2. CASE KsInitialize \/ KsDestroy \/ WskDeregister \/ UNCHANGED vars
  <2>1. UNCHANGED <<app, op, ctx, pc, reply, irp>>
    BY <1>2 DEF KsInitialize, KsDestroy, WskDeregister, vars, contextVars, threadVars
  <2> QED  BY <1>1, <2>1 DEF OwnInv, UsesApp, AnswerInv, IrpInv
<1> QED  BY <1>1, <1>2, BeginOwn, ProceedOwn, AnswerOwn DEF Next

-----------------------------------------------------------------------------
(***************************************************************************)
(* Blocks of the pool.                                                     *)
(***************************************************************************)

\* A block stays held when its holder goes on, and a function that returns has
\* handed its KSOCKET out or freed it.
LEMMA LeakNext ==
  ASSUME ExclusiveUse, {"irp", "create"} \cap Faults = {}, OwnInv, NoLeak, [Next]_vars
  PROVE  NoLeak'
<1>a. /\ pc \in [Threads -> {"idle", "call", "wait", "tail"}]
      /\ ctx \in [Threads -> Contexts \cup {NULL}] /\ op \in [Threads -> Ops]
      /\ app \subseteq pool /\ pool \subseteq Sockets
  BY DEF OwnInv, CallInv, TypeInv, TypeOK, AppInv
<1>b. \A u \in Threads : pc[u] = "idle" => ctx[u] \notin Sockets
  BY KsocketAssumption DEF OwnInv, CallInv, ContextInv
<1>1. ASSUME UNCHANGED <<pool, app, ctx>>
      PROVE  NoLeak'
  BY <1>1 DEF NoLeak
<1>2. CASE KsInitialize \/ KsDestroy \/ WskDeregister \/ UNCHANGED vars
  BY <1>1, <1>2 DEF KsInitialize, KsDestroy, WskDeregister, vars, threadVars
<1>3. ASSUME NEW t \in Threads, Begin(t)
      PROVE  NoLeak'
  <2>1. CASE KsGetAddrInfo(t)
    BY <1>a, <1>b, <2>1 DEF KsGetAddrInfo, CanCall, Call, threadVars, NoLeak
  <2>2. ASSUME NEW o \in CreateOps, KsCreateSocket(t, o)
        PROVE  NoLeak'
    <3>1. PICK s \in Sockets \ pool :
            /\ pool' = pool \cup {s} /\ KspAsyncContextAllocate(s)
            /\ irp'[s] # "none" => Call(t, s, o)
      BY <2>2 DEF KsCreateSocket
    <3>2. irp'[s] = "armed"
      BY <3>1 DEF KspAsyncContextAllocate, OwnInv, CallInv, TypeInv, TypeOK, Contexts
    <3>3. pc[t] = "idle" /\ app' = app /\ Call(t, s, o)
      BY <2>2, <3>1, <3>2 DEF KsCreateSocket, CanCall
    <3> QED  BY <1>a, <1>b, <3>1, <3>3 DEF Call, NoLeak
  <2>3. CASE ~KsGetAddrInfo(t) /\ \A o \in CreateOps : ~KsCreateSocket(t, o)
    <3>1. PICK s \in app, o \in {"close", "bind", "accept", "connectBind"} \cup BufferOps :
             /\ pc[t] = "idle" /\ pool' = pool
             /\ UseBegins(t, s, o) \/ UseHalts(s)
      BY <1>3, <2>3, BeginUse
    <3>2. CASE UseBegins(t, s, o)
      BY <1>a, <1>b, <3>1, <3>2 DEF UseBegins, Call, NoLeak
    <3>3. CASE UseHalts(s)
      BY <1>1, <3>1, <3>3 DEF UseHalts, threadVars, OwnInv, IrpInv
    <3> QED  BY <3>1, <3>2, <3>3
  <2> QED  BY <2>1, <2>2, <2>3
<1>4. ASSUME NEW t \in Threads, Proceed(t)
      PROVE  NoLeak'
  <2>1. ASSUME Return(t), pool' \subseteq pool \cup app', app \subseteq app',
               ctx[t] \in pool' => ctx[t] \in app'
        PROVE  NoLeak'
    BY <1>a, <2>1 DEF Return, NoLeak
  <2>2. CASE WskCall(t) \/ KspAsyncContextWaitForCompletion(t)
    BY <1>1, <2>2 DEF WskCall, KspAsyncContextWaitForCompletion
  <2>3. CASE ReturnStatus(t) \/ ReleaseBuffer(t)
    BY <2>1, <2>3 DEF ReturnStatus, ReleaseBuffer, OwnInv, UsesApp, BufferOps
  <2>4. CASE ConnectAfterBind(t)
    <3>1. ctx[t] \in app /\ UNCHANGED <<pool, app>>
      BY <2>4 DEF ConnectAfterBind, OwnInv, UsesApp
    <3>2. CASE Call(t, ctx[t], "connect")
      BY <1>1, <1>a, <3>1, <3>2 DEF Call
    <3>3. CASE Return(t)
      BY <2>1, <3>1, <3>3
    <3> QED  BY <2>4, <3>2, <3>3 DEF ConnectAfterBind
  <2>5. CASE SaveCreated(t)
    <3>1. Succeeded(t)
      BY <2>5 DEF SaveCreated, Succeeded, OwnInv, CallInv, StageInv, AnswerInv, Outcomes
    <3> QED  BY <2>1, <2>5, <3>1 DEF SaveCreated
  <2>6. CASE SaveAccepted(t)
    BY <2>1, <2>6 DEF SaveAccepted, OwnInv, UsesApp
  <2>7. CASE FreeClosed(t)
    BY <2>1, <2>7 DEF FreeClosed
  <2>8. CASE FreeAddrInfoContext(t)
    <3>1. ctx[t] \notin pool
      BY <1>a, <2>8, KsocketAssumption DEF FreeAddrInfoContext, OwnInv, CallInv, ContextInv
    <3> QED  BY <2>1, <2>8, <3>1 DEF FreeAddrInfoContext
  <2> QED  BY <1>4, <2>2, <2>3, <2>4, <2>5, <2>6, <2>7, <2>8 DEF Proceed
<1>5. ASSUME NEW t \in Threads, WskAnswer(t)
      PROVE  NoLeak'
  BY <1>1, <1>5 DEF WskAnswer, threadVars
<1> QED  BY <1>2, <1>3, <1>4, <1>5 DEF Next

\* Every block that is allocated is held by the application or by a function
\* that is running, when neither the allocation of an IRP nor WskSocket fails:
\* those are the two failures after which ksocket.c forgets a block
\* (ksocket.c:118-120, 286-335, 378-393).
THEOREM BlocksAreHeld ==
  ExclusiveUse /\ {"irp", "create"} \cap Faults = {} /\ Spec => []NoLeak
<1> SUFFICES ASSUME ExclusiveUse, {"irp", "create"} \cap Faults = {}
             PROVE  Spec => []NoLeak
  OBVIOUS
<1>1. Init => OwnInv /\ NoLeak
  BY OwnInit DEF Init, NoLeak
<1>2. OwnInv /\ NoLeak /\ [Next]_vars => OwnInv' /\ NoLeak'
  BY OwnNext, LeakNext
<1> QED  BY <1>1, <1>2, PTL DEF Spec
-----------------------------------------------------------------------------
(***************************************************************************)
(* WSK sockets.                                                            *)
(***************************************************************************)

\* The types the claims are made of, and that nobody else uses the
\* AsyncContext of a running call.
LEMMA ClaimTypes ==
  ASSUME OwnInv
  PROVE  /\ pc \in [Threads -> {"idle", "call", "wait", "tail"}] /\ op \in [Threads -> Ops]
         /\ ctx \in [Threads -> Contexts \cup {NULL}]
         /\ reply \in [Threads -> Outcomes \cup {"none"}]
         /\ wskSocket \in [Sockets -> WskSockets \cup {NULL}]
         /\ ioInfo \in [Contexts -> WskSockets \cup {NULL}]
         /\ open \in [WskSockets -> Dispatches \cup {"closed"}]
         /\ app \subseteq pool /\ pool \subseteq Sockets /\ Wrapping \subseteq pool
         /\ \A t \in Opening : pc[t] # "idle" /\ ctx[t] \in pool
         /\ \A t, u \in Threads : t # u /\ pc[t] # "idle" => ctx[u] # ctx[t]
<1>1. /\ pc \in [Threads -> {"idle", "call", "wait", "tail"}] /\ op \in [Threads -> Ops]
      /\ ctx \in [Threads -> Contexts \cup {NULL}]
      /\ reply \in [Threads -> Outcomes \cup {"none"}]
      /\ wskSocket \in [Sockets -> WskSockets \cup {NULL}]
      /\ ioInfo \in [Contexts -> WskSockets \cup {NULL}]
      /\ open \in [WskSockets -> Dispatches \cup {"closed"}]
      /\ app \subseteq pool /\ pool \subseteq Sockets
  BY DEF OwnInv, CallInv, TypeInv, TypeOK, AppInv
<1>2. \A t \in Threads : op[t] \in OpeningOps \cup {"close"} => pc[t] # "idle" /\ ctx[t] \in pool
  BY DEF OwnInv, CallInv, ContextInv, OpeningOps, CreateOps
<1>3. \A t, u \in Threads : t # u /\ pc[t] # "idle" => ctx[u] # ctx[t]
  BY OwnContext DEF OwnInv
<1>4. Wrapping \subseteq pool /\ \A t \in Opening : pc[t] # "idle" /\ ctx[t] \in pool
  BY <1>1, <1>2 DEF Wrapping, Opening
<1> QED  BY <1>1, <1>3, <1>4

\* A step that moves no claim.
LEMMA ClaimFrame ==
  ASSUME ClaimInv, open' = open, Wrapping' = Wrapping, Opening' = Opening,
         \A s \in Wrapping : wskSocket'[s] = wskSocket[s],
         \A t \in Opening : ioInfo'[ctx'[t]] = ioInfo[ctx[t]]
  PROVE  ClaimInv'
  BY DEF ClaimInv, ClaimsOpen, ClaimsDistinct, ClaimsCover

\* A thread without a claim moves on.
LEMMA MoveFrame ==
  ASSUME OwnInv, ClaimInv, NEW t \in Threads, UNCHANGED <<app, open>>,
         t \notin Opening, op[t] = "close" => reply[t] = "success",
         op'[t] \in OpeningOps \cup {"close"} => reply'[t] = "none" /\ op'[t] # "close",
         \A u \in Threads : u # t => op'[u] = op[u] /\ ctx'[u] = ctx[u] /\ reply'[u] = reply[u],
         \A s \in Wrapping : wskSocket'[s] = wskSocket[s],
         \A u \in Opening : ioInfo'[ctx[u]] = ioInfo[ctx[u]]
  PROVE  ClaimInv'
<1>1. Opening' = Opening
  BY DEF Opening, OpeningOps, CreateOps
<1>2. Wrapping' = Wrapping
  BY DEF Wrapping
<1>3. \A u \in Opening : u # t /\ u \in Threads
  BY DEF Opening
<1> QED  BY <1>1, <1>2, <1>3, ClaimFrame

\* A KSOCKET that gets a claim, in the place of a function that ends.
LEMMA HandOver ==
  ASSUME OwnInv, ClaimInv, NEW t \in Opening, Return(t),
         NEW s \in Sockets, s \notin Wrapping, app' = app \cup {s}, open' = open,
         wskSocket' = [wskSocket EXCEPT ![s] = ioInfo[ctx[t]]],
         \A u \in Opening : u # t => ioInfo'[ctx[u]] = ioInfo[ctx[u]]
  PROVE  ClaimInv'
<1>a. t \in Threads /\ op[t] # "close"
  BY DEF Opening, OpeningOps, CreateOps
<1>1. Opening' = Opening \ {t} /\ \A u \in Opening' : ctx'[u] = ctx[u]
  BY <1>a, ClaimTypes DEF Opening, Return, OpeningOps, CreateOps
<1>2. Wrapping' = Wrapping \cup {s}
  BY <1>a, ClaimTypes DEF Wrapping, Return
<1>3. wskSocket'[s] = ioInfo[ctx[t]] /\ \A r \in Wrapping : wskSocket'[r] = wskSocket[r]
  BY ClaimTypes
<1>4. \A u \in Opening' : ioInfo'[ctx'[u]] = ioInfo[ctx[u]]
  BY <1>1
<1>5. ClaimsOpen'
  BY <1>1, <1>2, <1>3, <1>4 DEF ClaimInv, ClaimsOpen
<1>6. ClaimsDistinct'
  BY <1>1, <1>2, <1>3, <1>4 DEF ClaimInv, ClaimsDistinct
<1>7. ClaimsCover'
  BY <1>1, <1>2, <1>3, <1>4 DEF ClaimInv, ClaimsCover
<1> QED  BY <1>5, <1>6, <1>7 DEF ClaimInv

\* An answer of WSK that opens a socket makes a claim, and one that closes a
\* socket ends a claim.
LEMMA ClaimComplete ==
  ASSUME OwnInv, ClaimInv, {"create", "close"} \cap Faults = {},
         NEW t \in Threads, NEW v \in Outcomes, pc[t] # "idle", reply[t] = "none",
         WskComplete(ctx[t], t, v), UNCHANGED <<app, wskSocket, op, ctx>>
  PROVE  ClaimInv'
<1>a. ctx[t] \in Contexts /\ t \notin Opening
  BY DEF OwnInv, CallInv, TypeInv, ContextOK, Opening
<1>b. reply' = [reply EXCEPT ![t] = v]
  BY DEF WskComplete
<1>c. \A u \in Opening : u \in Threads /\ u # t /\ ctx[u] # ctx[t]
  BY <1>a, ClaimTypes DEF Opening
<1>1. CASE v = "success" /\ op[t] \in OpeningOps
  <2>1. PICK w \in WskSockets :
          /\ open[w] = "closed" /\ open' = [open EXCEPT ![w] = NewDispatch[op[t]]]
          /\ ioInfo' = [ioInfo EXCEPT ![ctx[t]] = w]
    BY <1>1 DEF WskComplete, OpeningOps, CreateOps
  <2>2. open'[w] # "closed" /\ \A x \in WskSockets : x # w => open'[x] = open[x]
    BY <1>1, <2>1, ClaimTypes DEF NewDispatch, OpeningOps, CreateOps
  <2>3. Opening' = Opening \cup {t}
    BY <1>1, <1>b, ClaimTypes DEF Opening
  <2>4. Wrapping' = Wrapping
    <3>1. \A u \in Threads : op[u] = "close" => reply'[u] = reply[u]
      BY <1>1, <1>b, ClaimTypes DEF OpeningOps, CreateOps
    <3> QED  BY <3>1 DEF Wrapping
  <2>5. ioInfo'[ctx[t]] = w /\ \A u \in Opening : ioInfo'[ctx[u]] = ioInfo[ctx[u]]
    BY <1>a, <1>c, <2>1, ClaimTypes
  <2>6. /\ \A s \in Wrapping : wskSocket[s] # w
        /\ \A u \in Opening : ioInfo[ctx[u]] # w
    BY <2>1 DEF ClaimInv, ClaimsOpen
  <2>7. ClaimsOpen'
    BY <2>2, <2>3, <2>4, <2>5, <2>6 DEF ClaimInv, ClaimsOpen
  <2>8. ClaimsDistinct'
    BY <1>c, <2>3, <2>4, <2>5, <2>6 DEF ClaimInv, ClaimsDistinct
  <2>9. ClaimsCover'
    BY <2>2, <2>3, <2>4, <2>5 DEF ClaimInv, ClaimsCover
  <2> QED  BY <2>7, <2>8, <2>9 DEF ClaimInv
<1>2. CASE v = "success" /\ op[t] = "close"
  <2> DEFINE c == ctx[t]
             w == wskSocket[c]
  <2>1. open' = [open EXCEPT ![w] = "closed"] /\ ioInfo' = ioInfo
    BY <1>2 DEF WskComplete, OpeningOps, CreateOps
  <2>2. c \in Wrapping /\ w \in WskSockets
    BY <1>2 DEF Wrapping, ClaimInv, ClaimsOpen
  <2>3. Opening' = Opening
    BY <1>2, <1>a, <1>b, ClaimTypes DEF Opening, OpeningOps, CreateOps
  <2>4. Wrapping' = Wrapping \ {c}
    <3>1. c \notin app
      BY <1>2 DEF OwnInv, CallInv, AppInv
    <3>2. \A u \in Threads : u # t => ctx[u] # c /\ reply'[u] = reply[u]
      BY <1>b, ClaimTypes
    <3>3. reply'[t] = "success"
      BY <1>2, <1>b, ClaimTypes
    <3> QED  BY <1>2, <3>1, <3>2, <3>3 DEF Wrapping
  <2> HIDE DEF c, w
  <2>5. open'[w] = "closed" /\ \A x \in WskSockets : x # w => open'[x] = open[x]
    BY <2>1, <2>2, ClaimTypes
  <2>6. /\ \A s \in Wrapping \ {c} : wskSocket[s] # w
        /\ \A u \in Opening : ioInfo[ctx[u]] # w
    BY <2>2 DEF ClaimInv, ClaimsDistinct, w
  <2>7. ClaimsOpen'
    BY <2>1, <2>3, <2>4, <2>5, <2>6 DEF ClaimInv, ClaimsOpen
  <2>8. ClaimsDistinct'
    BY <2>1, <2>3, <2>4 DEF ClaimInv, ClaimsDistinct
  <2>9. ClaimsCover'
    BY <2>1, <2>3, <2>4, <2>5 DEF ClaimInv, ClaimsCover, w
  <2> QED  BY <2>7, <2>8, <2>9 DEF ClaimInv
<1>3. CASE v = "failure" \/ op[t] \notin OpeningOps \cup {"close"}
  <2>1. open' = open /\ ioInfo' = ioInfo
    BY <1>3 DEF WskComplete, Outcomes
  <2>2. op[t] # "close"
    BY <1>3 DEF WskComplete, Outcomes
  <2>3. Opening' = Opening
    BY <1>3, <1>a, <1>b, ClaimTypes DEF Opening, Outcomes
  <2>4. Wrapping' = Wrapping
    BY <1>b, <2>2, ClaimTypes DEF Wrapping
  <2> QED  BY <2>1, <2>3, <2>4, ClaimFrame
<1> QED  BY <1>1, <1>2, <1>3 DEF Outcomes
\* Memory for a KSOCKET of every WSK socket and for one of every thread but one.
Room ==
  /\ IsFiniteSet(Threads) /\ IsFiniteSet(Sockets) /\ IsFiniteSet(WskSockets)
  /\ Cardinality(WskSockets) + Cardinality(Threads) <= Cardinality(Sockets) + 1

\* Of the KSOCKETs that are allocated some are the application's, and wrap
\* WSK sockets of their own; the others are being created or closed, each by a
\* thread of its own.  So there is one left for the socket that accept got.
LEMMA AcceptHasRoom ==
  ASSUME OwnInv, ClaimInv, NoLeak, Room, NEW t \in Opening, op[t] = "accept"
  PROVE  pool # Sockets
<1>a. t \in Threads /\ ctx[t] \in app
  BY DEF Opening, OwnInv, UsesApp
<1> DEFINE w == ioInfo[ctx[t]]
           others == Threads \ {t}
           used == {ctx[u] : u \in others}
<1>1. IsFiniteSet(app) /\ Cardinality(app) <= Cardinality(WskSockets \ {w})
  <2> DEFINE f == [s \in app |-> wskSocket[s]]
  <2>1. f \in Injection(app, WskSockets \ {w})
    BY DEF Injection, IsInjective, Wrapping, ClaimInv, ClaimsOpen, ClaimsDistinct
  <2>2. IsFiniteSet(WskSockets \ {w})
    BY FS_RemoveElement DEF Room
  <2> QED  BY <2>1, <2>2, FS_Injection
<1>2. /\ Cardinality(WskSockets \ {w}) = Cardinality(WskSockets) - 1
      /\ Cardinality(WskSockets) \in Nat
  BY FS_RemoveElement, FS_CardinalityType DEF Room, ClaimInv, ClaimsOpen
<1>3. IsFiniteSet(used) /\ Cardinality(used) <= Cardinality(Threads) - 1
  <2> DEFINE g == [u \in others |-> ctx[u]]
  <2>1. g \in Surjection(others, used)
    BY DEF Surjection
  <2>2. IsFiniteSet(others) /\ Cardinality(others) = Cardinality(Threads) - 1
    BY <1>a, FS_RemoveElement DEF Room
  <2> HIDE DEF g, used
  <2> QED  BY <2>1, <2>2, FS_Surjection
<1>4. pool \subseteq app \cup used
  BY <1>a DEF NoLeak
<1>5. /\ IsFiniteSet(app \cup used)
      /\ Cardinality(app \cup used) <= Cardinality(app) + Cardinality(used)
  <2>1. IsFiniteSet(app \cap used)
    BY <1>1, FS_Intersection
  <2>2. /\ Cardinality(app \cap used) \in Nat /\ Cardinality(app) \in Nat
        /\ Cardinality(used) \in Nat
    BY <1>1, <1>3, <2>1, FS_CardinalityType
  <2>3. /\ IsFiniteSet(app \cup used)
        /\ Cardinality(app \cup used)
             = Cardinality(app) + Cardinality(used) - Cardinality(app \cap used)
    BY <1>1, <1>3, FS_Union
  <2> QED  BY <2>2, <2>3
<1>6. Cardinality(pool) <= Cardinality(app \cup used) /\ IsFiniteSet(pool)
  BY <1>4, <1>5, FS_Subset
<1>7. /\ Cardinality(app) \in Nat /\ Cardinality(used) \in Nat /\ Cardinality(pool) \in Nat
      /\ Cardinality(Threads) \in Nat /\ Cardinality(Sockets) \in Nat
      /\ Cardinality(app \cup used) \in Nat
  BY <1>1, <1>3, <1>5, <1>6, FS_CardinalityType DEF Room
<1> HIDE DEF w, used
<1>8. Cardinality(pool) < Cardinality(Sockets)
  BY <1>1, <1>2, <1>3, <1>5, <1>6, <1>7 DEF Room
<1> QED  BY <1>7, <1>8

-----------------------------------------------------------------------------
Allocations == {"irp", "pool", "create", "close"}

LEMMA BeginClaim ==
  ASSUME ExclusiveUse, Allocations \cap Faults = {}, OwnInv, ClaimInv,
         NEW t \in Threads, Begin(t)
  PROVE  ClaimInv'
<1>a. pc[t] = "idle" => /\ reply[t] = "none" /\ t \notin Opening /\ op[t] = "none"
  BY DEF OwnInv, AnswerInv, Opening, CallInv, ContextInv
<1>b. \A u \in Opening : ctx[u] \in pool /\ ctx[u] \in Sockets /\ u \in Threads
  BY ClaimTypes DEF Opening
<1>1. CASE KsGetAddrInfo(t)
  <2>1. /\ pc[t] = "idle" /\ UNCHANGED <<app, reply, wskSocket, open>>
        /\ KspAsyncContextAllocate(t)
        /\ Call(t, t, "getaddrinfo") \/ UNCHANGED threadVars
    BY <1>1 DEF KsGetAddrInfo, CanCall
  <2>2. \A u \in Opening : ioInfo'[ctx[u]] = ioInfo[ctx[u]]
    BY <1>b, <2>1, ClaimTypes, KsocketAssumption DEF KspAsyncContextAllocate, Contexts
  <2>3. /\ op'[t] \notin OpeningOps \cup {"close"}
        /\ \A u \in Threads : u # t => op'[u] = op[u] /\ ctx'[u] = ctx[u]
    BY <1>a, <2>1, ClaimTypes DEF Call, threadVars, OpeningOps, CreateOps
  <2> QED  BY <1>a, <2>1, <2>2, <2>3, MoveFrame
<1>2. ASSUME NEW o \in CreateOps, KsCreateSocket(t, o)
      PROVE  ClaimInv'
  <2>1. PICK s \in Sockets \ pool :
          /\ pc[t] = "idle" /\ UNCHANGED <<app, reply, wskSocket, open>>
          /\ KspAsyncContextAllocate(s)
          /\ Call(t, s, o) \/ UNCHANGED threadVars
    BY <1>2 DEF KsCreateSocket, CanCall
  <2>2. \A u \in Opening : ioInfo'[ctx[u]] = ioInfo[ctx[u]]
    BY <1>b, <2>1, ClaimTypes DEF KspAsyncContextAllocate, Contexts
  <2>3. /\ op'[t] # "close"
        /\ \A u \in Threads : u # t => op'[u] = op[u] /\ ctx'[u] = ctx[u]
    BY <1>a, <2>1, ClaimTypes DEF Call, threadVars, CreateOps
  <2> QED  BY <1>a, <2>1, <2>2, <2>3, MoveFrame
<1>3. CASE ~KsGetAddrInfo(t) /\ \A o \in CreateOps : ~KsCreateSocket(t, o)
  <2>1. PICK s \in app, o \in {"close", "bind", "accept", "connectBind"} \cup BufferOps :
           /\ pc[t] = "idle"
           /\ \A u \in Threads : ctx[u] # s
           /\ UseBegins(t, s, o) \/ UseHalts(s)
           /\ UNCHANGED <<wskSocket, reply, open>>
    BY <1>3, BeginUse
  <2>2. CASE UseBegins(t, s, o)
    <3>1. \A u \in Opening : u # t /\ ctx'[u] = ctx[u] /\ ioInfo'[ctx[u]] = ioInfo[ctx[u]]
      BY <1>a, <1>b, <2>1, <2>2, ClaimTypes
      DEF UseBegins, Call, KspAsyncContextReset, Contexts
    <3>2. Opening' = Opening
      BY <1>a, <2>1, <2>2, ClaimTypes DEF UseBegins, Call, Opening
    <3>3. Wrapping' = Wrapping
      BY <1>a, <2>1, <2>2, ClaimTypes DEF UseBegins, Call, Wrapping
    <3> QED  BY <2>1, <3>1, <3>2, <3>3, ClaimFrame
  <2>3. CASE UseHalts(s)
    <3>1. UNCHANGED <<app, op, ctx, ioInfo>>
      BY <2>3 DEF UseHalts, contextVars, threadVars, OwnInv, IrpInv, Allocations
    <3> QED  BY <2>1, <3>1, ClaimFrame DEF Wrapping, Opening
  <2> QED  BY <2>1, <2>2, <2>3
<1> QED  BY <1>1, <1>2, <1>3
\* A function that holds no claim returns.
LEMMA ReturnClaim ==
  ASSUME OwnInv, ClaimInv, NEW t \in Threads, Return(t), UNCHANGED <<app, open>>,
         t \notin Opening, op[t] = "close" => reply[t] = "success",
         \A s \in Wrapping : wskSocket'[s] = wskSocket[s],
         \A c \in Contexts : c # ctx[t] => ioInfo'[c] = ioInfo[c],
         pc[t] # "idle"
  PROVE  ClaimInv'
<1>1. /\ op'[t] = "none"
      /\ \A u \in Threads : u # t => op'[u] = op[u] /\ ctx'[u] = ctx[u] /\ reply'[u] = reply[u]
  BY ClaimTypes DEF Return
<1>2. \A u \in Opening : u \in Threads /\ ctx[u] \in Contexts /\ ctx[u] # ctx[t]
  BY ClaimTypes DEF Opening, Contexts
<1>3. \A u \in Opening : ioInfo'[ctx[u]] = ioInfo[ctx[u]]
  BY <1>2
<1> QED  BY <1>1, <1>3, MoveFrame DEF OpeningOps, CreateOps

LEMMA ProceedClaim ==
  ASSUME Allocations \cap Faults = {}, Room, OwnInv, ClaimInv, NoLeak,
         NEW t \in Threads, Proceed(t)
  PROVE  ClaimInv'
<1>a. pc[t] = "call" => reply[t] = "none" /\ t \notin Opening
  BY DEF OwnInv, AnswerInv, Opening
<1>b. pc[t] = "tail" => status[t] = reply[t] /\ reply[t] \in Outcomes
  BY DEF OwnInv, CallInv, StageInv
<1>c. pc[t] # "idle" => ctx[t] \in Contexts /\ \A u \in Threads : u # t => ctx[u] # ctx[t]
  BY ClaimTypes DEF OwnInv, CallInv, TypeInv, ContextOK
<1>1. CASE WskCall(t)
  <2>1. pc[t] = "call" /\ UNCHANGED <<app, wskSocket, op, ctx>>
    BY <1>1 DEF WskCall
  <2>2. ASSUME NEW v \in Outcomes, WskComplete(ctx[t], t, v)
        PROVE  ClaimInv'
    BY <1>a, <2>1, <2>2, ClaimComplete DEF Allocations
  <2>3. CASE reply' = [reply EXCEPT ![t] = "none"] /\ UNCHANGED <<contextVars, open>>
    <3>1. reply' = reply
      BY <1>a, <2>1, <2>3, ClaimTypes
    <3> QED  BY <2>1, <2>3, <3>1, ClaimFrame DEF Wrapping, Opening, contextVars
  <2> QED  BY <1>1, <2>2, <2>3 DEF WskCall
<1>2. CASE KspAsyncContextWaitForCompletion(t)
  BY <1>2, ClaimFrame DEF KspAsyncContextWaitForCompletion, Wrapping, Opening
<1>3. CASE ReturnStatus(t) \/ ReleaseBuffer(t)
  <2>1. /\ pc[t] = "tail" /\ Return(t) /\ UNCHANGED <<app, open, wskSocket, ioInfo>>
        /\ op[t] \notin OpeningOps \cup {"close"}
    BY <1>3 DEF ReturnStatus, ReleaseBuffer, contextVars, BufferOps, OpeningOps, CreateOps
  <2> QED  BY <2>1, ReturnClaim DEF Opening
<1>4. CASE ConnectAfterBind(t)
  <2>1. /\ pc[t] = "tail" /\ op[t] = "connectBind" /\ UNCHANGED <<app, open, wskSocket>>
        /\ t \notin Opening
    BY <1>4 DEF ConnectAfterBind, Opening, OpeningOps, CreateOps
  <2>2. CASE /\ KspAsyncContextReset(ctx[t]) /\ Call(t, ctx[t], "connect")
             /\ reply' = [reply EXCEPT ![t] = "none"]
    <3>1. \A u \in Threads : u # t => op'[u] = op[u] /\ ctx'[u] = ctx[u] /\ reply'[u] = reply[u]
      BY <2>2, ClaimTypes DEF Call
    <3>2. op'[t] = "connect"
      BY <2>2, ClaimTypes DEF Call
    <3>3. \A u \in Opening : u \in Threads /\ u # t /\ ioInfo'[ctx[u]] = ioInfo[ctx[u]]
      BY <1>c, <2>1, <2>2, ClaimTypes DEF KspAsyncContextReset, Opening, Contexts
    <3> QED  BY <2>1, <3>1, <3>2, <3>3, MoveFrame DEF OpeningOps, CreateOps
  <2>3. CASE Return(t) /\ UNCHANGED contextVars
    BY <2>1, <2>3, ReturnClaim DEF contextVars
  <2> QED  BY <1>4, <2>2, <2>3 DEF ConnectAfterBind
<1>5. CASE SaveCreated(t)
  <2>1. pc[t] = "tail" /\ op[t] \in CreateOps /\ Return(t) /\ UNCHANGED <<open, ioInfo>>
    BY <1>5 DEF SaveCreated, contextVars
  <2>2. Succeeded(t) /\ t \in Opening
    BY <1>b, <2>1 DEF Succeeded, OwnInv, AnswerInv, Outcomes, Opening, OpeningOps, Allocations
  <2>3. /\ wskSocket' = [wskSocket EXCEPT ![ctx[t]] = ioInfo[ctx[t]]]
        /\ app' = app \cup {ctx[t]}
    BY <1>5, <2>2 DEF SaveCreated
  <2>4. ctx[t] \in Sockets /\ ctx[t] \notin Wrapping
    BY <1>c, <2>1, <2>2, ClaimTypes
    DEF Wrapping, OwnInv, CallInv, AppInv, Opening, CreateOps
  <2> QED  BY <2>1, <2>2, <2>3, <2>4, HandOver
<1>6. CASE SaveAccepted(t)
  <2>1. pc[t] = "tail" /\ op[t] = "accept" /\ Return(t) /\ open' = open
    BY <1>6 DEF SaveAccepted
  <2>2. CASE Succeeded(t)
    <3>1. t \in Opening
      BY <1>b, <2>1, <2>2 DEF Opening, OpeningOps, Succeeded
    <3>2. pool # Sockets
      BY <2>1, <3>1, AcceptHasRoom
    <3>3. PICK s \in Sockets \ pool :
            /\ wskSocket' = [wskSocket EXCEPT ![s] = ioInfo[ctx[t]]]
            /\ KspAsyncContextAllocate(s)
            /\ app' = app \cup {s}
      BY <1>6, <2>2, <3>2 DEF SaveAccepted, Allocations
    <3>4. \A u \in Opening : ioInfo'[ctx[u]] = ioInfo[ctx[u]]
      BY <3>3, ClaimTypes DEF KspAsyncContextAllocate, Contexts
    <3>5. s \notin Wrapping
      BY ClaimTypes
    <3> QED  BY <2>1, <3>1, <3>3, <3>4, <3>5, HandOver
  <2>3. CASE ~Succeeded(t)
    <3>1. UNCHANGED <<wskSocket, app, contextVars>>
      BY <1>6, <2>3 DEF SaveAccepted
    <3>2. t \notin Opening
      BY <1>b, <2>1, <2>3 DEF Opening, Succeeded
    <3> QED  BY <2>1, <3>1, <3>2, ReturnClaim DEF contextVars
  <2> QED  BY <2>2, <2>3
<1>7. CASE FreeClosed(t) \/ FreeAddrInfoContext(t)
  <2>1. /\ pc[t] = "tail" /\ op[t] \in {"close", "getaddrinfo"} /\ Return(t)
        /\ KspAsyncContextFree(ctx[t]) /\ UNCHANGED <<app, open>>
        /\ \/ wskSocket' = wskSocket
           \/ op[t] = "close" /\ wskSocket' = [wskSocket EXCEPT ![ctx[t]] = NULL]
    BY <1>7 DEF FreeClosed, FreeAddrInfoContext
  <2>2. t \notin Opening /\ (op[t] = "close" => reply[t] = "success")
    BY <1>b, <2>1 DEF Opening, OpeningOps, CreateOps, OwnInv, AnswerInv, Outcomes, Allocations
  <2>3. \A s \in Wrapping : wskSocket'[s] = wskSocket[s]
    <3>1. op[t] = "close" => ctx[t] \notin Wrapping
      BY <1>c, <2>1, <2>2 DEF Wrapping, OwnInv, CallInv, AppInv
    <3> QED  BY <2>1, <3>1, ClaimTypes
  <2>4. \A c \in Contexts : c # ctx[t] => ioInfo'[c] = ioInfo[c]
    BY <2>1, ClaimTypes DEF KspAsyncContextFree
  <2> QED  BY <2>1, <2>2, <2>3, <2>4, ReturnClaim
<1> QED  BY <1>1, <1>2, <1>3, <1>4, <1>5, <1>6, <1>7 DEF Proceed

LEMMA ClaimNext ==
  ASSUME ExclusiveUse, Allocations \cap Faults = {}, Room, OwnInv, ClaimInv, NoLeak, [Next]_vars
  PROVE  ClaimInv'
<1>1. CASE KsInitialize \/ KsDestroy \/ WskDeregister \/ UNCHANGED vars
  <2>1. UNCHANGED <<app, op, ctx, reply, ioInfo, wskSocket, open>>
    BY <1>1 DEF KsInitialize, KsDestroy, WskDeregister, vars, contextVars, threadVars
  <2> QED  BY <2>1, ClaimFrame DEF Wrapping, Opening
<1>2. ASSUME NEW t \in Threads, WskAnswer(t)
      PROVE  ClaimInv'
  <2>1. PICK r \in inflight, v \in Outcomes : r[2] = t /\ WskComplete(r[1], t, v)
    BY <1>2 DEF WskAnswer
  <2>2. pc[t] = "wait" /\ reply[t] = "none" /\ ctx[t] = r[1]
    BY <2>1 DEF OwnInv, CallInv, RequestInv
  <2>3. UNCHANGED <<app, wskSocket, op, ctx>>
    BY <1>2 DEF WskAnswer, threadVars
  <2> QED  BY <2>1, <2>2, <2>3, ClaimComplete DEF Allocations
<1> QED  BY <1>1, <1>2, BeginClaim, ProceedClaim DEF Next

\* Every WSK socket that is open can still be closed by someone, however the
\* calls interleave, when WSK closes what it is asked to close, nothing the
\* library allocates is refused, and the pool has room for a KSOCKET of every
\* WSK socket and every other thread.  Each of these is needed: without it
\* KsAccept or KsCloseSocket drops a WSK socket (ksocket.c:326-332, 456-470,
\* 378-395).
THEOREM SocketsAreKept ==
  ExclusiveUse /\ Allocations \cap Faults = {} /\ Room /\ Spec => []NoLostSocket
<1> SUFFICES ASSUME ExclusiveUse, Allocations \cap Faults = {}, Room
             PROVE  Spec => []NoLostSocket
  OBVIOUS
<1> DEFINE I == OwnInv /\ NoLeak /\ ClaimInv
<1>1. Init => I
  <2> SUFFICES ASSUME Init PROVE I
    OBVIOUS
  <2>1. Wrapping = {} /\ Opening = {}
    BY DEF Init, Wrapping, Opening, OpeningOps, CreateOps
  <2>2. ClaimInv
    BY <2>1 DEF Init, ClaimInv, ClaimsOpen, ClaimsDistinct, ClaimsCover
  <2> QED  BY <2>2, OwnInit DEF Init, NoLeak
<1>2. I /\ [Next]_vars => I'
  <2> SUFFICES ASSUME I, [Next]_vars PROVE I'
    OBVIOUS
  <2> QED  BY OwnNext, LeakNext, ClaimNext DEF Allocations
<1>3. I => NoLostSocket
  BY DEF ClaimInv, ClaimsCover, Wrapping, Opening, NoLostSocket
<1> QED  BY <1>1, <1>2, <1>3, PTL DEF Spec
=============================================================================
