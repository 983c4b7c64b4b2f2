-------------------------------- MODULE MCServer --------------------------------
(* Three clients, two of them behind one IPv4 address that a dual-stack listener  *)
(* sees as IPv4-mapped, one of those with a local address of the other family;    *)
(* under both caps and none.                                                     *)
EXTENDS TcpServer

a == [family |-> "mapped", host |-> "a"]
b == [family |-> "v6", host |-> "b"]
At(ip, port) == [ip |-> ip, port |-> port]

MCIps == {a, b}
MCHosts == {"a", "b", "here"}
MCConns == 1..3
MCPeer == <<At(a, 40000), At(a, 40001), At(b, 40000)>>
MCLocal == LET here(family) == At([family |-> family, host |-> "here"], 587)
           IN  <<here("mapped"), here("v6"), here("v6")>>
MCCaps == {[total |-> 0, perIp |-> 0], [total |-> 2, perIp |-> 1]}
=============================================================================
