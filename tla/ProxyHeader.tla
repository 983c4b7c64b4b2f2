------------------------------- MODULE ProxyHeader -------------------------------
(***************************************************************************)
(* src/src/proxy/proxy_protocol.rs: the PROXY protocol v2 header of a          *)
(* connection, as the sequence of its bytes.  An address is its family and a   *)
(* host; the octets of a host are opaque, but their number and order are kept. *)
(* "mapped" is an IPv4 address written as IPv6 (::ffff:a.b.c.d).               *)
(***************************************************************************)
EXTENDS Integers, Sequences

CONSTANT Hosts   \* the hosts of addresses

\* std::net::IpAddr and SocketAddr.
IpAddr == [family : {"v4", "mapped", "v6"}, host : Hosts]
SocketAddr == [ip : IpAddr, port : {n \in Nat : n < 65536}]

SIGNATURE == [i \in 1..12 |-> <<"signature", i>>]

Width(family) == IF family = "v4" THEN 4 ELSE 16

\* IpAddr::to_canonical
Canonical(ip) == IF ip.family = "mapped" THEN [ip EXCEPT !.family = "v4"] ELSE ip

octets(ip) == [i \in 1..Width(ip.family) |-> <<ip.host, i>>]
be_bytes(n) == <<n \div 256, n % 256>>

Header(cmd, family, length, block) ==
    SIGNATURE \o <<cmd, family>> \o be_bytes(length) \o block

\* A slip: the addresses are taken as they come.
Mut_v2_header(src, dst) ==
    IF src.ip.family = dst.ip.family
    THEN Header("PROXY", src.ip.family, 2 * Width(src.ip.family) + 4,
                octets(src.ip) \o octets(dst.ip) \o be_bytes(src.port) \o be_bytes(dst.port))
    ELSE Header("LOCAL", "unspec", 0, <<>>)

v2_header(src, dst) ==
    LET s == Canonical(src.ip)
        d == Canonical(dst.ip)
        block == octets(s) \o octets(d) \o be_bytes(src.port) \o be_bytes(dst.port)
    IN  CASE s.family = "v4" /\ d.family = "v4" -> Header("PROXY", "v4", 12, block)
          [] s.family = "v6" /\ d.family = "v6" -> Header("PROXY", "v6", 36, block)
          [] OTHER -> Header("LOCAL", "unspec", 0, <<>>)

-----------------------------------------------------------------------------
(* The receiver, as the protocol's specification has it: it takes as many     *)
(* bytes after the first 16 as they announce; what follows is the client's.   *)

Number(bytes) == 256 * bytes[1] + bytes[2]

Receive(bytes) ==
    LET length == Number(SubSeq(bytes, 15, 16))
        block == SubSeq(bytes, 17, 16 + length)
        w == Width(bytes[14])
    IN  [cmd    |-> bytes[13],
         family |-> bytes[14],
         client |-> IF bytes[13] = "LOCAL" THEN <<>> ELSE SubSeq(block, 1, w),
         port   |-> IF bytes[13] = "LOCAL" THEN 0 ELSE Number(SubSeq(block, 2 * w + 1, 2 * w + 2)),
         data   |-> SubSeq(bytes, 17 + length, Len(bytes))]
=============================================================================
