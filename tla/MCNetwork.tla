----------------------------- MODULE MCNetwork -----------------------------
(* Instances of Network and of Endpoints for TLC.                          *)
EXTENDS Network, Endpoints, TLC

(* Descriptor numbers are interchangeable.                                 *)
Renumbered == Permutations(Numbers)

TwoTables == <<"tcp", "tcp6">>
OneEach == [c \in Connections |-> IF c = "a" THEN "tcp" ELSE "tcp6"]

(* No address, loopback, one with all bytes different, and one beside the  *)
(* usual loopback address.                                                 *)
SomeIPv4 == {<<0, 0, 0, 0>>, <<127, 0, 0, 1>>, <<127, 2, 3, 4>>, <<1, 2, 3, 127>>}
SomeIPv6 == {[i \in 1..16 |-> 0], [i \in 1..16 |-> IF i = 16 THEN 1 ELSE 0],
             [i \in 1..16 |-> i], [i \in 1..16 |-> IF i = 1 THEN 127 ELSE 0]}
SomePorts == {0, 80, 65280, 40000}

Endpoints4 == [address : SomeIPv4, port : SomePorts]
Endpoints6 == [address : SomeIPv6, port : SomePorts]
TheSockets(family, shape, endpoints) ==
  [protocol : {"TCP", "UDP"}, family : {family}, shape : {shape}, phase : TcpPhases,
   local : endpoints, remote : endpoints]
AllKindsOfSockets ==
  TheSockets(4, 4, Endpoints4) \cup TheSockets(6, 6, Endpoints6)
  \cup {s \in TheSockets(6, 4, Endpoints4) : Connected(s)}

(* What a socket looks like does not matter to the rounds: every kind of   *)
(* socket is decoded in the initial state, and none in the others.         *)
MCInit == Init /\ listed = SomeSockets
MCNext == Next /\ listed' = {}
MCSpec == MCInit /\ [][MCNext]_<<vars, listed>>
=============================================================================
