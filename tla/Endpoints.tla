------------------------------ MODULE Endpoints ------------------------------
(***************************************************************************)
(* What both backends make of one socket: parse_network_socket of Linux    *)
(* (src/src/network.rs), which reads a line of /proc/<pid>/net, and        *)
(* socket_record of macOS (platform/macos.rs), which reads a structure of  *)
(* libproc; and which remote addresses count as remote.  A number of two   *)
(* hexadecimal digits is a byte, and an address is its bytes in network    *)
(* order: to_string and parse of std::net are inverse to each other.       *)
(* Both kernels run on little-endian machines.                             *)
(***************************************************************************)
EXTENDS Integers, Sequences

Byte == 0..255
Port == 0..65535
IPv4 == [1..4 -> Byte]
IPv6 == [1..16 -> Byte]

(* ::ffff:a.b.c.d, the form of an IPv4 address in an IPv6 socket.          *)
Prefix == <<0, 0, 0, 0, 0, 0, 0, 0, 0, 0, 255, 255>>
Mapped(a) == [i \in 1..16 |-> IF i <= 12 THEN Prefix[i] ELSE a[i - 12]]

TcpPhases == {"closed", "listening", "syn sent", "syn received", "established", "close wait",
              "fin wait 1", "closing", "last ack", "fin wait 2", "time wait"}

(* A socket as it is.  One of family AF_INET6 may talk IPv4 once it is     *)
(* connected: "shape" is that of its addresses.  A UDP socket is connected *)
(* to a port or to none.                                                   *)
Endpoint(Address) == [address : Address, port : Port]
Sockets(family, shape, Address) ==
  [protocol : {"TCP", "UDP"}, family : {family}, shape : {shape}, phase : TcpPhases,
   local : Endpoint(Address), remote : Endpoint(Address)]
Connected(s) == s.remote.port # 0
TalksIPv4(s) == s.family = 6 /\ s.shape = 4
Socket == Sockets(4, 4, IPv4) \cup Sockets(6, 6, IPv6)
          \cup {s \in Sockets(6, 4, IPv4) : Connected(s)}

(* SocketProtocol and SocketRecord; the label of a protocol is TCP or UDP. *)
Protocol(protocol, ipv6) == [label |-> protocol, version |-> IF ipv6 THEN 6 ELSE 4]

CONSTANT SomeSockets
ASSUME EndpointsAssumption == SomeSockets \subseteq Socket

VARIABLE listed   \* the sockets of the table or process that is being read

(* One table or process after another.                                     *)
Decoding == listed \subseteq SomeSockets /\ [][listed' \subseteq SomeSockets]_listed

-----------------------------------------------------------------------------
(* Linux.                                                                  *)

(* seq_printf("%08X") of every 32-bit word of an address as it lies in     *)
(* memory: its last byte comes first.                                      *)
Words(a) == [i \in DOMAIN a |-> a[4 * ((i - 1) \div 4) + 4 - ((i - 1) % 4)]]

(* TCP_ESTABLISHED, ... of include/net/tcp_states.h; UDP has two of them.  *)
LinuxCode == [p \in TcpPhases |->
  CASE p = "established" -> 1  [] p = "syn sent" -> 2    [] p = "syn received" -> 3
    [] p = "fin wait 1" -> 4   [] p = "fin wait 2" -> 5  [] p = "time wait" -> 6
    [] p = "closed" -> 7       [] p = "close wait" -> 8  [] p = "last ack" -> 9
    [] p = "listening" -> 10   [] p = "closing" -> 11]

Printed(s, e) ==
  [address |-> Words(IF TalksIPv4(s) THEN Mapped(e.address) ELSE e.address),
   port |-> e.port]

(* The line of a socket in the table of its protocol and family.           *)
Line(s) ==
  [local |-> Printed(s, s.local), remote |-> Printed(s, s.remote),
   st |-> IF s.protocol = "TCP" THEN LinuxCode[s.phase] ELSE IF Connected(s) THEN 1 ELSE 7]

(* from_str_radix and to_le_bytes: the last byte printed is the first.     *)
decode_ipv4_address(hex) == [i \in 1..4 |-> hex[5 - i]]

(* address[first..last].reverse()                                          *)
reverse(a, first, last) ==
  [i \in DOMAIN a |-> IF i \in first..last THEN a[first + last - i] ELSE a[i]]

decode_ipv6_whole(hex) == reverse(hex, 1, 16)   \* mutant: one number, not four

decode_ipv6_address(hex) ==
  reverse(reverse(reverse(reverse(hex, 1, 4), 5, 8), 9, 12), 13, 16)

parse_network_endpoint(value, ipv6) ==
  [address |-> IF ipv6 THEN decode_ipv6_address(value.address)
               ELSE decode_ipv4_address(value.address),
   port |-> value.port]

TcpNames == <<"ESTABLISHED", "SYN_SENT", "SYN_RECV", "FIN_WAIT1", "FIN_WAIT2", "TIME_WAIT",
              "CLOSE", "CLOSE_WAIT", "LAST_ACK", "LISTEN", "CLOSING", "NEW_SYN_RECV">>

(* Any other number is printed as it is.                                   *)
network_socket_state(protocol, code) ==
  IF protocol = "TCP"
  THEN IF code \in DOMAIN TcpNames THEN TcpNames[code] ELSE "0x.."
  ELSE IF code = 1 THEN "ESTABLISHED" ELSE IF code = 7 THEN "UNCONNECTED" ELSE "0x.."

parse_network_socket(line, protocol, ipv6) ==
  [protocol |-> Protocol(protocol, ipv6),
   local |-> parse_network_endpoint(line.local, ipv6),
   remote |-> parse_network_endpoint(line.remote, ipv6),
   state |-> network_socket_state(protocol, line.st)]

OnLinux(s) == parse_network_socket(Line(s), s.protocol, s.family = 6)

-----------------------------------------------------------------------------
(* macOS.                                                                  *)

(* TCPS_CLOSED, ... of netinet/tcp_fsm.h.                                  *)
MacCode == [p \in TcpPhases |->
  CASE p = "closed" -> 0         [] p = "listening" -> 1    [] p = "syn sent" -> 2
    [] p = "syn received" -> 3   [] p = "established" -> 4  [] p = "close wait" -> 5
    [] p = "fin wait 1" -> 6     [] p = "closing" -> 7      [] p = "last ack" -> 8
    [] p = "fin wait 2" -> 9     [] p = "time wait" -> 10]

(* A port is kept in network order: on these machines, with its two bytes  *)
(* exchanged.  from_be exchanges them once more.                           *)
Exchanged(port) == 256 * (port % 256) + port \div 256
from_be(port) == Exchanged(port)

SocketInfo(s) ==
  [soi_protocol |-> s.protocol, soi_family |-> IF s.family = 4 THEN 2 ELSE 30,
   insi_vflag |-> IF s.shape = 4 THEN 1 ELSE 2,
   insi_laddr |-> s.local.address, insi_lport |-> Exchanged(s.local.port),
   insi_faddr |-> s.remote.address, insi_fport |-> Exchanged(s.remote.port),
   tcpsi_state |-> MacCode[s.phase]]

tcp_state_of_linux(code) == network_socket_state("TCP", code)   \* mutant
tcp_state(code) ==
  IF code \in 0..10
  THEN <<"CLOSE", "LISTEN", "SYN_SENT", "SYN_RECV", "ESTABLISHED", "CLOSE_WAIT", "FIN_WAIT1",
         "CLOSING", "LAST_ACK", "FIN_WAIT2", "TIME_WAIT">>[code + 1]
  ELSE "0x.."

(* from_socket_addrs takes the protocol's version from the addresses.      *)
socket_record(info) ==
  LET family == IF info.insi_vflag = 1 THEN 2 ELSE info.soi_family IN
    [protocol |-> Protocol(info.soi_protocol, family = 30),
     local |-> [address |-> info.insi_laddr, port |-> from_be(info.insi_lport)],
     remote |-> [address |-> info.insi_faddr, port |-> from_be(info.insi_fport)],
     state |-> IF info.soi_protocol = "TCP" THEN tcp_state(info.tcpsi_state)
               ELSE IF info.insi_fport = 0 THEN "UNCONNECTED" ELSE "ESTABLISHED"]

OnMacOS(s) == socket_record(SocketInfo(s))

-----------------------------------------------------------------------------
(* Which connections are remote.                                           *)

is_unspecified(a) == \A i \in DOMAIN a : a[i] = 0
is_loopback_v6(a) == a[16] = 1 /\ \A i \in 1..15 : a[i] = 0

is_remote_address(a, ipv6) ==
  /\ IF ipv6 THEN ~is_loopback_v6(a) ELSE a[1] # 127
  /\ ~is_unspecified(a)

is_remote(r) == is_remote_address(r.remote.address, r.protocol.version = 6)

-----------------------------------------------------------------------------
(* Properties.                                                             *)

(* Each backend files a socket under its own two endpoints, although the   *)
(* kernels hand out addresses and ports in an order of bytes of their own; *)
(* only Linux shows those of an IPv6 socket that talks IPv4 as mapped.     *)
Shown(s, e) == IF TalksIPv4(s) THEN [e EXCEPT !.address = Mapped(@)] ELSE e

EndpointsAreTheSockets == \A s \in listed :
  /\ OnLinux(s).local = Shown(s, s.local) /\ OnLinux(s).remote = Shown(s, s.remote)
  /\ OnMacOS(s).local = s.local /\ OnMacOS(s).remote = s.remote

(* The reports of both systems name protocol and state of a socket alike,  *)
(* although their kernels number the states differently; and they agree on *)
(* which connections are remote but for one case: an IPv6 socket that talks*)
(* IPv4 is remote on Linux even where it does so with this machine, as     *)
(* 127.0.0.1 is no loopback address in the form that Linux shows.          *)
BackendsAgree == \A s \in listed :
  /\ OnLinux(s).protocol.label = OnMacOS(s).protocol.label
  /\ OnLinux(s).state = OnMacOS(s).state
  /\ is_remote(OnLinux(s)) <=> is_remote(OnMacOS(s)) \/ TalksIPv4(s)
=============================================================================
