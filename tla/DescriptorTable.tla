-------------------------- MODULE DescriptorTable --------------------------
(***************************************************************************)
(* What a BSD-style socket API promises about descriptors: opening a       *)
(* socket yields a descriptor that names nothing else, the descriptor      *)
(* names that socket until it is closed, and a call on it acts on that     *)
(* socket.                                                                 *)
(***************************************************************************)
CONSTANTS Threads, Descriptors, Objects, None

VARIABLES
  named,   \* the socket each descriptor names, or None
  target   \* the socket the running call of each thread acts on, or None

tableVars == <<named, target>>

TableInit ==
  /\ named = [fd \in Descriptors |-> None]
  /\ target = [t \in Threads |-> None]

Open(fd, h) ==
  /\ named[fd] = None
  /\ \A d \in Descriptors : named[d] # h
  /\ named' = [named EXCEPT ![fd] = h]

\* A call on a descriptor picks the socket; closing also frees the descriptor.
StartCall(t, fd) ==
  /\ target[t] = None
  /\ named[fd] # None
  /\ target' = [target EXCEPT ![t] = named[fd]]
  /\ named' \in {named, [named EXCEPT ![fd] = None]}

EndCall(t) == target' = [target EXCEPT ![t] = None]

\* An accept opens a descriptor in the step that ends it.
TableNext ==
  \E t \in Threads :
    \/ \E fd \in Descriptors : StartCall(t, fd)
    \/ \E fd \in Descriptors, h \in Objects : Open(fd, h) /\ EndCall(t)
    \/ EndCall(t) /\ UNCHANGED named

TableSpec == TableInit /\ [][TableNext]_tableVars
=============================================================================
