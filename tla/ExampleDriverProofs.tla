------------------------ MODULE ExampleDriverProofs ------------------------
(***************************************************************************)
(* Proofs about ExampleDriver: what DriverEntry leaves behind, whichever   *)
(* of its calls fail and however many clients there are.                   *)
(***************************************************************************)
EXTENDS ExampleDriver, TLAPS

\* The sockets that the driver holds when it is about to make a call.
Held(call) ==
  CASE call \in {"connect", "send", "recv", "closesocket"} -> {"sockfd"}
    [] call \in {"client.connect", "client.send", "client.recv", "~client"} -> {"tcp4_client"}
    [] call \in {"bind", "listen", "accept", "close_listener"} -> {"server_sockfd"}
    [] call \in {"recv_hello", "send_greeting", "recv_end", "close_accepted"} ->
         {"server_sockfd", "client_sockfd"}
    [] call \in {"server.bind", "server.listen", "server.accept"} -> {"tcp4_server"}
    [] call \in {"ka.recv_hello", "ka.send_greeting", "ka.recv_end", "~server"} ->
         {"tcp4_server", "ka"}
    [] OTHER -> {}

\* The port is open only as long as a socket is bound to it.
Inv ==
  /\ pc \in Calls => open = Held(pc)
  /\ listening => open \cap {"server_sockfd", "tcp4_server"} # {}
  /\ pc = "success" => open = {} /\ ~registered
  /\ pc = "failure" => open \subseteq {"sockfd"} \/ open \subseteq {"server_sockfd"}

-----------------------------------------------------------------------------
\* The order of the calls.  None is made twice, so After names the next one.
LEMMA Positions ==
  \A i \in 1 .. 30 :
     \/ i = 1 \/ i = 2 \/ i = 3 \/ i = 4 \/ i = 5 \/ i = 6
     \/ i = 7 \/ i = 8 \/ i = 9 \/ i = 10 \/ i = 11 \/ i = 12
     \/ i = 13 \/ i = 14 \/ i = 15 \/ i = 16 \/ i = 17 \/ i = 18
     \/ i = 19 \/ i = 20 \/ i = 21 \/ i = 22 \/ i = 23 \/ i = 24
     \/ i = 25 \/ i = 26 \/ i = 27 \/ i = 28 \/ i = 29 \/ i = 30
  OBVIOUS

LEMMA Injective == \A i, j \in 1 .. 30 : Program[i] = Program[j] => i = j
<1> SUFFICES ASSUME NEW i \in 1 .. 30, NEW j \in 1 .. 30, Program[i] = Program[j]
             PROVE  i = j
  OBVIOUS
<1> QED BY Positions DEF Program

LEMMA ProgramLength == DOMAIN Program = 1 .. 30 /\ Len(Program) = 30
  BY DEF Program

LEMMA AfterAt == \A k \in 1 .. 29 : After(Program[k]) = Program[k + 1]
<1> SUFFICES ASSUME NEW k \in 1 .. 29 PROVE After(Program[k]) = Program[k + 1]
  OBVIOUS
<1>1. (CHOOSE j \in DOMAIN Program : Program[j] = Program[k]) = k
  <2>1. \A j \in DOMAIN Program : Program[j] = Program[k] <=> j = k
    BY ProgramLength, Injective
  <2> QED BY <2>1, ProgramLength
<1>2. Program[k] # Last(Program)
  BY ProgramLength, Injective DEF Last
<1>3. After(Program[k]) = Program[1 + CHOOSE j \in DOMAIN Program : Program[j] = Program[k]]
  BY <1>2, Zenon DEF After
<1>4. After(Program[k]) = Program[1 + k]
  BY <1>1, <1>3, Zenon
<1> QED BY <1>4

LEMMA AfterCall ==
  /\ After("KsInitialize") = "getaddrinfo" /\ After("getaddrinfo") = "socket_connection"
  /\ After("socket_connection") = "connect" /\ After("connect") = "send"
  /\ After("send") = "recv" /\ After("recv") = "closesocket"
  /\ After("closesocket") = "client.setup" /\ After("client.setup") = "client.connect"
  /\ After("client.connect") = "client.send" /\ After("client.send") = "client.recv"
  /\ After("client.recv") = "~client" /\ After("~client") = "socket_listen"
  /\ After("socket_listen") = "bind" /\ After("bind") = "listen"
  /\ After("listen") = "accept" /\ After("accept") = "recv_hello"
  /\ After("recv_hello") = "send_greeting" /\ After("send_greeting") = "recv_end"
  /\ After("recv_end") = "close_accepted" /\ After("close_accepted") = "close_listener"
  /\ After("close_listener") = "server.setup" /\ After("server.setup") = "server.bind"
  /\ After("server.bind") = "server.listen" /\ After("server.listen") = "server.accept"
  /\ After("server.accept") = "ka.recv_hello"
  /\ After("ka.recv_hello") = "ka.send_greeting"
  /\ After("ka.send_greeting") = "ka.recv_end" /\ After("ka.recv_end") = "~server"
  /\ After("~server") = "KsDestroy"
  BY AfterAt DEF Program

LEMMA CallsAre ==
  Calls = {"KsInitialize", "getaddrinfo", "socket_connection", "connect", "send",
           "recv", "closesocket", "client.setup", "client.connect", "client.send",
           "client.recv", "~client", "socket_listen", "bind", "listen", "accept",
           "recv_hello", "send_greeting", "recv_end", "close_accepted",
           "close_listener", "server.setup", "server.bind", "server.listen",
           "server.accept", "ka.recv_hello", "ka.send_greeting", "ka.recv_end",
           "~server", "KsDestroy"}
<1>1. Calls = {Program[i] : i \in 1 .. 30}
  BY ProgramLength DEF Calls, ToSet
<1> QED BY <1>1, Positions DEF Program

-----------------------------------------------------------------------------
LEMMA InitInv == Init => Inv
  BY DEF Init, Inv, Held

\* Close leaves a port without a socket closed.
LEMMA ClosePort ==
  ASSUME NEW S, Inv, Close(S)
  PROVE  /\ open' = open \ S
         /\ listening' => open' \cap {"server_sockfd", "tcp4_server"} # {}
  BY DEF Close, Inv

\* DriverEntry returns with an error: of the raw sockets that of its block remains.
LEMMA FailInv ==
  ASSUME Inv, NEW call \in Calls, Fail(call)
  PROVE  Inv'
<1>1. call \in Failing \ Unread /\ call \notin Unfailing /\ open = Held(call)
  BY ExampleDriverAssumption, CallsAre DEF Fail, Inv, ClientSend
<1>2. open' = open \ Objects /\ pc' = "failure"
  BY DEF Fail, Close
<1>3. open' \subseteq {"sockfd"} \/ open' \subseteq {"server_sockfd"}
  BY <1>1, <1>2, CallsAre DEF Held, Unread, Unfailing, Objects
<1>4. listening' => open' \cap {"server_sockfd", "tcp4_server"} # {}
  BY ClosePort DEF Fail
<1> QED BY <1>2, <1>3, <1>4, CallsAre DEF Inv

LEMMA HaltInv ==
  ASSUME Inv, ListenFails \/ ConnectUnset
  PROVE  Inv'
<1>1. pc \in Calls /\ open = Held(pc) /\ pc \in {"socket_listen", "connect"}
  BY CallsAre DEF ListenFails, ConnectUnset, Inv
<1>2. open \subseteq {"sockfd"}
  BY <1>1 DEF Held
<1>3. pc' \in {"failure", "bugcheck"} /\ UNCHANGED <<open, listening>>
  BY DEF ListenFails, ConnectUnset, network
<1> QED BY <1>2, <1>3, CallsAre DEF Inv

\* A call that opens and closes nothing is followed by one with the same sockets.
LEMMA SameSockets ==
  ASSUME Inv, NEW call \in Calls, pc = call, pc' = After(call), open' = open, listening' = listening,
         Held(After(call)) = Held(call), After(call) \in Calls
  PROVE  Inv'
  BY CallsAre DEF Inv

LEMMA FailUnreadInv ==
  ASSUME Inv, NEW call \in Calls, FailUnread(call)
  PROVE  Inv'
<1>1. After(call) \in Calls /\ Held(After(call)) = Held(call)
  BY AfterCall, CallsAre DEF FailUnread, Unread, Held
<1> QED BY <1>1, SameSockets DEF FailUnread, network

LEMMA SucceedInv ==
  ASSUME Inv, NEW call \in Calls, Succeed(call)
  PROVE  Inv'
<1>1. /\ After(call) \in Calls
      /\ Held(After(call)) = Held(call) \cup (IF call \in DOMAIN Opens THEN {Opens[call]} ELSE {})
      /\ call \in {"bind", "server.bind"} => Held(call) \cap {"server_sockfd", "tcp4_server"} # {}
  <2>1. CASE call = "KsInitialize"
    BY <2>1, AfterCall, CallsAre DEF Opens, Held
  <2>2. CASE call = "getaddrinfo"
    BY <2>2, AfterCall, CallsAre DEF Opens, Held
  <2>3. CASE call = "socket_connection"
    BY <2>3, AfterCall, CallsAre DEF Opens, Held
  <2>4. CASE call = "connect"
    BY <2>4, AfterCall, CallsAre DEF Opens, Held
  <2>5. CASE call = "send"
    BY <2>5, AfterCall, CallsAre DEF Opens, Held
  <2>6. CASE call = "recv"
    BY <2>6, AfterCall, CallsAre DEF Opens, Held
  <2>7. CASE call = "client.setup"
    BY <2>7, AfterCall, CallsAre DEF Opens, Held
  <2>8. CASE call = "client.connect"
    BY <2>8, AfterCall, CallsAre DEF Opens, Held
  <2>9. CASE call = "client.send"
    BY <2>9, AfterCall, CallsAre DEF Opens, Held
  <2>10. CASE call = "client.recv"
    BY <2>10, AfterCall, CallsAre DEF Opens, Held
  <2>11. CASE call = "socket_listen"
    BY <2>11, AfterCall, CallsAre DEF Opens, Held
  <2>12. CASE call = "bind"
    BY <2>12, AfterCall, CallsAre DEF Opens, Held
  <2>13. CASE call = "listen"
    BY <2>13, AfterCall, CallsAre DEF Opens, Held
  <2>14. CASE call = "server.setup"
    BY <2>14, AfterCall, CallsAre DEF Opens, Held
  <2>15. CASE call = "server.bind"
    BY <2>15, AfterCall, CallsAre DEF Opens, Held
  <2>16. CASE call = "server.listen"
    BY <2>16, AfterCall, CallsAre DEF Opens, Held
  <2> QED BY <2>1, <2>2, <2>3, <2>4, <2>5, <2>6, <2>7, <2>8, <2>9, <2>10, <2>11, <2>12, <2>13, <2>14, <2>15, <2>16 DEF Succeed
<1>2. /\ pc = call /\ pc' = After(call) /\ open = Held(call)
      /\ open' = open \cup (IF call \in DOMAIN Opens THEN {Opens[call]} ELSE {})
      /\ listening' = (listening \/ call \in {"bind", "server.bind"})
  BY DEF Succeed, Inv
<1>3. listening' => open' \cap {"server_sockfd", "tcp4_server"} # {}
  BY <1>1, <1>2 DEF Inv
<1> QED BY <1>1, <1>2, <1>3, CallsAre DEF Inv

\* closesocket, and the ends of the blocks.
LEMMA CloseInv ==
  ASSUME Inv, NEW call \in Calls, NEW S, CloseSockets(call, S),
         After(call) \in Calls, Held(After(call)) = Held(call) \ S
  PROVE  Inv'
<1>1. pc = call /\ pc' = After(call) /\ open = Held(call)
  BY DEF CloseSockets, Inv
<1>2. /\ open' = open \ S
      /\ listening' => open' \cap {"server_sockfd", "tcp4_server"} # {}
  BY ClosePort DEF CloseSockets
<1> QED BY <1>1, <1>2, CallsAre DEF Inv

LEMMA AcceptInv ==
  ASSUME Inv, NEW call \in {"accept", "server.accept"}, Accept(call)
  PROVE  Inv'
<1>1. /\ call \in Calls /\ After(call) \in Calls
      /\ Held(After(call)) = Held(call) \cup {Opens[call]}
  BY AfterCall, CallsAre DEF Held, Opens
<1> QED BY <1>1, CallsAre DEF Accept, Inv

LEMMA RecvHelloInv ==
  ASSUME Inv, NEW call \in {"recv_hello", "ka.recv_hello"}, RecvHello(call)
  PROVE  Inv'
<1>1. /\ call \in Calls /\ After(call) \in Calls
      /\ Held(After(call)) = Held(call)
  BY AfterCall, CallsAre DEF Held
<1>2. CASE pc' = After(call) /\ UNCHANGED <<open, listening>>
  BY <1>1, <1>2, SameSockets DEF RecvHello
<1>3. CASE pc' = "failure" /\ Close(open \cap Objects) /\ call \notin Unread
  <2>1. call = "ka.recv_hello" /\ pc = call
    BY <1>3 DEF Unread, RecvHello
  <2>2. open = {"tcp4_server", "ka"}
    BY <2>1, <1>1 DEF Inv, Held
  <2>3. open' = {}
    BY <2>2, <1>3 DEF Close, Objects
  <2> QED BY <2>3, <1>3, ClosePort, CallsAre DEF Inv
<1> QED BY <1>2, <1>3 DEF RecvHello

LEMMA SendRecvInv ==
  ASSUME Inv, NEW call \in {"send_greeting", "ka.send_greeting", "recv_end", "ka.recv_end"},
         SendGreeting(call) \/ RecvEnd(call)
  PROVE  Inv'
<1>1. /\ call \in Calls /\ After(call) \in Calls
      /\ Held(After(call)) = Held(call)
  BY AfterCall, CallsAre DEF Held
<1> QED BY <1>1, SameSockets DEF SendGreeting, RecvEnd, network

LEMMA KsDestroyInv == Inv /\ KsDestroy => Inv'
  BY CallsAre DEF KsDestroy, Inv, network

\* The clients touch nothing of the driver.
LEMMA ClientInv ==
  ASSUME Inv, NEW c \in Clients, Client(c)
  PROVE  Inv'
<1>1. UNCHANGED <<pc, open, registered, listening>>
  BY DEF Client, Connect, SendHello, RecvGreeting, RunAgain, driver, network
<1> QED BY <1>1 DEF Inv

LEMMA ProceedInv ==
  ASSUME Inv, Proceed
  PROVE  Inv'
<1>1. ASSUME CloseSockets("closesocket", {"sockfd"}) PROVE Inv'
  BY <1>1, CloseInv, AfterCall, CallsAre DEF Held
<1>2. ASSUME CloseSockets("~client", {"tcp4_client"}) PROVE Inv'
  BY <1>2, CloseInv, AfterCall, CallsAre DEF Held
<1>3. ASSUME CloseSockets("close_accepted", {"client_sockfd"}) PROVE Inv'
  BY <1>3, CloseInv, AfterCall, CallsAre DEF Held
<1>4. ASSUME CloseSockets("close_listener", {"server_sockfd"}) PROVE Inv'
  BY <1>4, CloseInv, AfterCall, CallsAre DEF Held
<1>5. ASSUME CloseSockets("~server", {"ka", "tcp4_server"}) PROVE Inv'
  BY <1>5, CloseInv, AfterCall, CallsAre DEF Held
<1> QED BY <1>1, <1>2, <1>3, <1>4, <1>5, SucceedInv, HaltInv, AcceptInv, RecvHelloInv,
           SendRecvInv, KsDestroyInv DEF Proceed

LEMMA NextInv == Inv /\ [Next]_vars => Inv'
<1> SUFFICES ASSUME Inv, [Next]_vars PROVE Inv'
  OBVIOUS
<1>1. CASE UNCHANGED vars
  BY <1>1 DEF Inv, vars, driver, network
<1> QED BY <1>1, ProceedInv, HaltInv, FailInv, FailUnreadInv, ClientInv DEF Next, DriverEntry

\* A DriverEntry that succeeds leaves nothing, and one that fails at most the
\* descriptor of the block it failed in, whichever calls may fail.
THEOREM DriverLeavesLittle == Spec => []CleanEnd
<1>1. Inv => CleanEnd
  BY DEF Inv, CleanEnd
<1> QED BY <1>1, InitInv, NextInv, PTL DEF Spec
=============================================================================
