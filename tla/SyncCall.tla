----------------------------- MODULE SyncCall ------------------------------
(***************************************************************************)
(* What ksocket.c promises its callers: a blocking call.  A thread issues  *)
(* a request, the provider answers it, and the thread is handed exactly    *)
(* that answer before it goes on.  Nothing here has IRPs or events.        *)
(***************************************************************************)
CONSTANTS Threads, Answers, None

VARIABLES
  stage,   \* of each thread: idle, issued or delivered
  answer,  \* the provider's answer to the thread's request, or None
  result   \* what the thread was handed, or None

syncVars == <<stage, answer, result>>

SyncInit ==
  /\ stage = [t \in Threads |-> "idle"]
  /\ answer = [t \in Threads |-> None]
  /\ result = [t \in Threads |-> None]

\* The provider may answer at once or leave the request pending.
Issue(t) ==
  /\ stage[t] = "idle"
  /\ stage' = [stage EXCEPT ![t] = "issued"]
  /\ \E v \in Answers \cup {None} : answer' = [answer EXCEPT ![t] = v]
  /\ UNCHANGED result

Answer(t) ==
  /\ stage[t] = "issued"
  /\ answer[t] = None
  /\ \E v \in Answers : answer' = [answer EXCEPT ![t] = v]
  /\ UNCHANGED <<stage, result>>

Deliver(t) ==
  /\ stage[t] = "issued"
  /\ answer[t] # None
  /\ stage' = [stage EXCEPT ![t] = "delivered"]
  /\ result' = [result EXCEPT ![t] = answer[t]]
  /\ UNCHANGED answer

Finish(t) ==
  /\ stage[t] = "delivered"
  /\ stage' = [stage EXCEPT ![t] = "idle"]
  /\ answer' = [answer EXCEPT ![t] = None]
  /\ result' = [result EXCEPT ![t] = None]

SyncNext ==
  \E t \in Threads : Issue(t) \/ Answer(t) \/ Deliver(t) \/ Finish(t)

SyncSpec == SyncInit /\ [][SyncNext]_syncVars

\* Every answer given is delivered.
SyncFairSpec == SyncSpec /\ \A t \in Threads : WF_syncVars(Deliver(t))
=============================================================================
