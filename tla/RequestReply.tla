---------------------------- MODULE RequestReply ----------------------------
(***************************************************************************)
(* What a client and a server of typed messages promise each other: the    *)
(* client asks one thing at a time, each request is served once, in order, *)
(* and the answer that is shown is the answer to the request that was made.*)
(* When the line has gone down a request may stay without an answer.       *)
(***************************************************************************)
EXTENDS Naturals, Sequences

CONSTANT Types

VARIABLES
  asked, served, shown,  \* the types of the messages, in order
  up                     \* whether the line is up

conversation == <<asked, served, shown, up>>

ConversationInit == asked = <<>> /\ served = <<>> /\ shown = <<>> /\ up = TRUE

Ask ==
  /\ up => shown = asked
  /\ \E type \in Types : asked' = Append(asked, type)
  /\ UNCHANGED <<served, shown, up>>

Serve ==
  /\ Len(served) < Len(asked)
  /\ served' = Append(served, asked[Len(served) + 1])
  /\ UNCHANGED <<asked, shown, up>>

Show ==
  /\ Len(shown) < Len(served)
  /\ shown' = Append(shown, served[Len(shown) + 1])
  /\ UNCHANGED <<asked, served, up>>

GoDown == up /\ up' = FALSE /\ UNCHANGED <<asked, served, shown>>

ConversationSpec ==
  ConversationInit /\ [][Ask \/ Serve \/ Show \/ GoDown]_conversation
=============================================================================
