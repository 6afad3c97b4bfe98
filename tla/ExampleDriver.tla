--------------------------- MODULE ExampleDriver ---------------------------
(***************************************************************************)
(* The example driver (driver.cpp) and the program it talks to,            *)
(* userspace_client.cpp, which the user runs again and again, and perhaps  *)
(* twice at once.  DriverEntry is one sequence of calls; the first client  *)
(* and the first server are written with the descriptors of berkeley.h,    *)
(* the second ones with the classes of ksocket.hpp.  What it reaches at    *)
(* httpbin.org only lets a call succeed or fail.                           *)
(***************************************************************************)
EXTENDS Integers, SequencesExt

CONSTANTS
  Clients,    \* processes of userspace_client
  Failing     \* calls that may fail

\* The calls of DriverEntry, in order.
Program == <<
  "KsInitialize", "getaddrinfo",
  "socket_connection", "connect", "send", "recv", "closesocket",
  "client.setup", "client.connect", "client.send", "client.recv", "~client",
  "socket_listen", "bind", "listen", "accept", "recv_hello", "send_greeting",
  "recv_end", "close_accepted", "close_listener",
  "server.setup", "server.bind", "server.listen", "server.accept",
  "ka.recv_hello", "ka.send_greeting", "ka.recv_end", "~server",
  "KsDestroy" >>

Calls == ToSet(Program)

\* The call of userspace_client that may fail.
ClientSend == "userspace_client_send"

\* The sockets they open; the destructor of an object closes its own.
Opens == [call \in {"socket_connection", "client.setup", "socket_listen", "accept",
                    "server.setup", "server.accept"} |->
  CASE call = "socket_connection" -> "sockfd"
    [] call = "client.setup"      -> "tcp4_client"
    [] call = "socket_listen"     -> "server_sockfd"
    [] call = "accept"            -> "client_sockfd"
    [] call = "server.setup"      -> "tcp4_server"
    [] call = "server.accept"     -> "ka"]

Objects == {"tcp4_client", "tcp4_server", "ka"}
Raw     == {"sockfd", "server_sockfd", "client_sockfd"}

\* What their failure leaves unnoticed: the results of these calls are not read.
Unread == {"getaddrinfo", "socket_listen", "recv_hello", "send_greeting", "recv_end",
           "ka.recv_end"}

\* What closes sockets is taken to do so; Ksocket shows what happens if not.
\* listen only returns 0 (berkeley.c:478).
Unfailing == {"closesocket", "~client", "close_accepted", "close_listener", "~server",
              "KsDestroy", "listen", "server.listen"}

None == "none"

ASSUME ExampleDriverAssumption == Failing \subseteq (Calls \ Unfailing) \cup {ClientSend}

VARIABLES
  pc,         \* the call DriverEntry is at, "success", "failure" or "bugcheck"
  open,       \* sockets of the driver
  registered, \* WSK knows the driver
  res,        \* what getaddrinfo stored: "unset" or "list"
  listening,  \* port 9095 takes connections, as a listening socket of WSK does once bound
  queue,      \* clients whose connection waits to be accepted
  peer,       \* the client whose connection the driver holds
  cpc,        \* of each client: where it is
  conn,       \* its connection: None, "up" or "down"
  hello,      \* its message is on the way
  greeting,   \* the driver's is
  text,       \* it has displayed the driver's text
  failed      \* ghost: a call has failed

driver == <<pc, open, registered, res, peer, failed>>
client == <<cpc, text>>
network == <<listening, queue, conn, hello, greeting>>
vars == <<driver, client, network>>

Init ==
  /\ pc = "KsInitialize" /\ open = {} /\ registered = FALSE
  /\ res = "unset" /\ peer = None /\ failed = FALSE
  /\ cpc = [c \in Clients |-> "start"] /\ text = [c \in Clients |-> FALSE]
  /\ listening = FALSE /\ queue = <<>> /\ conn = [c \in Clients |-> None]
  /\ hello = [c \in Clients |-> FALSE] /\ greeting = [c \in Clients |-> FALSE]

-----------------------------------------------------------------------------
After(call) ==
  IF call = Last(Program) THEN "success"
  ELSE Program[1 + CHOOSE i \in DOMAIN Program : Program[i] = call]

Ended == {"success", "failure", "bugcheck"}

\* The sockets S are closed, and with them the connections that they hold.
Close(S) ==
  LET accepted == IF S \cap {"ka", "client_sockfd"} # {} THEN {peer} ELSE {}
      unbinds  == S \cap {"server_sockfd", "tcp4_server"} # {}
      lost     == accepted \cup (IF unbinds THEN ToSet(queue) ELSE {})
  IN  /\ open' = open \ S
      /\ conn' = [c \in Clients |-> IF c \in lost THEN "down" ELSE conn[c]]
      /\ peer' = IF accepted = {} THEN peer ELSE None
      /\ queue' = IF unbinds THEN <<>> ELSE queue
      /\ listening' = (listening /\ ~unbinds)

\* Seeded variant: an object is left as it is when DriverEntry returns.
FailLeaves(call) ==
  /\ pc = call /\ call \in Failing \ Unread
  /\ pc' = "failure" /\ failed' = TRUE
  /\ UNCHANGED <<open, registered, res, peer, client, network>>

\* A call that fails, or is known to: DriverEntry returns, which destroys the
\* objects in scope and leaves the raw descriptors as they are.
Fail(call) ==
  /\ pc = call /\ call \in Failing \ Unread
  /\ pc' = "failure" /\ failed' = TRUE
  /\ Close(open \cap Objects)
  /\ UNCHANGED <<registered, res, client, hello, greeting>>

\* One whose failure is not looked at.
FailUnread(call) ==
  /\ pc = call /\ call \in (Failing \cap Unread) \ {"socket_listen"}
  /\ pc' = After(call) /\ failed' = TRUE
  /\ UNCHANGED <<open, registered, res, peer, client, network>>

\* Without a listening socket, bind indexes the table of berkeley.c with -1.
ListenFails ==
  /\ pc = "socket_listen" /\ pc \in Failing
  /\ pc' \in {"failure", "bugcheck"} /\ failed' = TRUE
  /\ UNCHANGED <<open, registered, res, peer, client, network>>

\* Without a list, connect is given what an uninitialised res points to.
ConnectUnset ==
  /\ pc = "connect" /\ res = "unset"
  /\ pc' \in {"failure", "bugcheck"}
  /\ UNCHANGED <<open, registered, res, peer, failed, client, network>>

\* Calls that only open a socket, or store a result.
Succeed(call) ==
  /\ pc = call
  /\ call \in {"KsInitialize", "getaddrinfo", "socket_connection", "connect", "send", "recv",
               "client.setup", "client.connect", "client.send", "client.recv",
               "socket_listen", "bind", "listen", "server.setup", "server.bind",
               "server.listen"}
  /\ call = "connect" => res = "list"
  /\ pc' = After(call)
  /\ open' = open \cup (IF call \in DOMAIN Opens THEN {Opens[call]} ELSE {})
  /\ registered' = (registered \/ call = "KsInitialize")
  /\ res' = IF call = "getaddrinfo" THEN "list" ELSE res
  /\ listening' = (listening \/ call \in {"bind", "server.bind"})
  /\ UNCHANGED <<peer, failed, client, queue, conn, hello, greeting>>

\* Seeded variant: the objects are not destroyed with their blocks.
CloseRawOnly(call, S) ==
  /\ pc = call
  /\ pc' = After(call)
  /\ Close(S \cap Raw)
  /\ UNCHANGED <<registered, res, failed, client, hello, greeting>>

\* closesocket, and the ends of the objects' blocks.
CloseSockets(call, S) ==
  /\ pc = call
  /\ pc' = After(call)
  /\ Close(S)
  /\ UNCHANGED <<registered, res, failed, client, hello, greeting>>

\* accept waits for a connection.
Accept(call) ==
  /\ pc = call /\ queue # <<>>
  /\ pc' = After(call)
  /\ open' = open \cup {Opens[call]}
  /\ peer' = Head(queue) /\ queue' = Tail(queue)
  /\ UNCHANGED <<registered, res, failed, client, listening, conn, hello, greeting>>

\* recv of the client's message.  When it ends instead, the raw server goes on
\* and the callback returns false.
RecvHello(call) ==
  /\ pc = call
  /\ \/ /\ hello[peer]
        /\ hello' = [hello EXCEPT ![peer] = FALSE]
        /\ pc' = After(call)
        /\ UNCHANGED <<open, peer, listening, queue, conn>>
     \/ /\ ~hello[peer] /\ conn[peer] = "down"
        /\ IF call \in Unread
           THEN pc' = After(call) /\ UNCHANGED <<open, peer, listening, queue, conn>>
           ELSE pc' = "failure" /\ Close(open \cap Objects)
        /\ UNCHANGED hello
  /\ UNCHANGED <<registered, res, failed, client, greeting>>

\* Seeded variant: the driver waits for the end of the connection first.
SendGreetingLate(call) ==
  /\ pc = call
  /\ conn[peer] = "down"
  /\ pc' = After(call)
  /\ UNCHANGED <<open, registered, res, peer, failed, client, network>>

SendGreeting(call) ==
  /\ pc = call
  /\ pc' = After(call)
  /\ greeting' = [greeting EXCEPT ![peer] = conn[peer] = "up"]
  /\ UNCHANGED <<open, registered, res, peer, failed, client, listening, queue, conn, hello>>

\* recv, in a loop or once, until the client terminates the connection.
RecvEnd(call) ==
  /\ pc = call
  /\ conn[peer] = "down"
  /\ pc' = After(call)
  /\ UNCHANGED <<open, registered, res, peer, failed, client, network>>

\* WskDeregister waits for the sockets of the driver.
KsDestroy ==
  /\ pc = "KsDestroy"
  /\ open = {}
  /\ registered' = FALSE
  /\ pc' = "success"
  /\ UNCHANGED <<open, res, peer, failed, client, network>>

\* The steps that are bound to come: a call that waits does not fail by itself.
Proceed ==
  \/ \E call \in Calls : Succeed(call)
  \/ ConnectUnset
  \/ CloseSockets("closesocket", {"sockfd"})
  \/ CloseSockets("~client", {"tcp4_client"})
  \/ CloseSockets("close_accepted", {"client_sockfd"})
  \/ CloseSockets("close_listener", {"server_sockfd"})
  \/ CloseSockets("~server", {"ka", "tcp4_server"})
  \/ \E call \in {"accept", "server.accept"} : Accept(call)
  \/ \E call \in {"recv_hello", "ka.recv_hello"} : RecvHello(call)
  \/ \E call \in {"send_greeting", "ka.send_greeting"} : SendGreeting(call)
  \/ \E call \in {"recv_end", "ka.recv_end"} : RecvEnd(call)
  \/ KsDestroy

DriverEntry ==
  Proceed \/ ListenFails \/ \E call \in Calls : Fail(call) \/ FailUnread(call)

-----------------------------------------------------------------------------
\* userspace_client.  It tries to connect until the driver listens.
Connect(c) ==
  /\ cpc[c] = "start" /\ listening
  /\ cpc' = [cpc EXCEPT ![c] = "connected"]
  /\ conn' = [conn EXCEPT ![c] = "up"]
  /\ queue' = Append(queue, c)
  /\ UNCHANGED <<driver, text, listening, hello, greeting>>

\* Seeded variant: the client waits for the driver to speak first.
SendHelloNot(c) ==
  /\ cpc[c] = "connected"
  /\ cpc' = [cpc EXCEPT ![c] = "sent"]
  /\ UNCHANGED <<driver, text, network>>

SendHello(c) ==
  /\ cpc[c] = "connected"
  /\ \/ /\ conn[c] = "up"
        /\ cpc' = [cpc EXCEPT ![c] = "sent"]
        /\ hello' = [hello EXCEPT ![c] = TRUE]
        /\ UNCHANGED <<conn, failed>>
     \/ /\ conn[c] = "down" \/ ClientSend \in Failing
        /\ cpc' = [cpc EXCEPT ![c] = "ended"]
        /\ conn' = [conn EXCEPT ![c] = "down"]
        /\ failed' = (failed \/ conn[c] = "up")
        /\ UNCHANGED hello
  /\ UNCHANGED <<pc, open, registered, res, peer, text, listening, queue, greeting>>

\* One recv, and the connection is closed whatever it returned.
RecvGreeting(c) ==
  /\ cpc[c] = "sent"
  /\ greeting[c] \/ conn[c] = "down"
  /\ text' = [text EXCEPT ![c] = greeting[c]]
  /\ greeting' = [greeting EXCEPT ![c] = FALSE]
  /\ conn' = [conn EXCEPT ![c] = "down"]
  /\ cpc' = [cpc EXCEPT ![c] = "ended"]
  /\ UNCHANGED <<driver, listening, queue, hello>>

\* The user runs it again, once the driver is done with its connection.
RunAgain(c) ==
  /\ cpc[c] = "ended"
  /\ c # peer /\ c \notin ToSet(queue)
  /\ cpc' = [cpc EXCEPT ![c] = "start"]
  /\ text' = [text EXCEPT ![c] = FALSE]
  /\ conn' = [conn EXCEPT ![c] = None]
  /\ hello' = [hello EXCEPT ![c] = FALSE]
  /\ UNCHANGED <<driver, listening, queue, greeting>>

Client(c) == Connect(c) \/ SendHello(c) \/ RecvGreeting(c) \/ RunAgain(c)

Next == DriverEntry \/ \E c \in Clients : Client(c)

\* The system runs the driver, and the clients; the user runs a client again
\* when one has ended.
Fairness == WF_vars(Proceed) /\ \A c \in Clients : WF_vars(Client(c))

Spec == Init /\ [][Next]_vars /\ Fairness

-----------------------------------------------------------------------------
\* A DriverEntry that succeeds has closed every socket and is not registered any
\* more.  One that fails, at whatever call, leaves no socket of an object behind,
\* and of the raw ones at most that of the block it failed in
\* (driver.cpp:28-255).
CleanEnd ==
  /\ pc = "success" => open = {} /\ ~registered /\ ~listening
  /\ pc = "failure" => \/ open \subseteq {"sockfd"}
                       \/ open \subseteq {"server_sockfd"}

\* The driver's calls all return in the end: nobody waits for the other forever,
\* and nothing keeps KsDestroy from its end (driver.cpp:166-187, 215-253).
DriverEnds == <>(pc \in Ended)

\* "If everything works fine, there should be a text displayed in
\* userspace_client.exe" (README.md:38): by every run of it whose connection the
\* driver accepts.
TextDisplayed ==
  \A c \in Clients : peer = c ~> text[c] \/ failed
=============================================================================
