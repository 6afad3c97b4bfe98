-------------------------- MODULE MCExampleDriver --------------------------
(***************************************************************************)
(* ExampleDriver with two clients, and any of the calls failing but the    *)
(* raw server's send: its result is not read (driver.cpp:180), so when it  *)
(* fails and the connection stays up, the driver waits for the client to   *)
(* close and the client for the driver's text, forever.                    *)
(***************************************************************************)
EXTENDS ExampleDriver

CONSTANTS c1, c2

MCClients == {c1, c2}
MCFailing == (Calls \ (Unfailing \cup {"send_greeting"})) \cup {ClientSend}
=============================================================================
