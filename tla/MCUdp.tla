---------------------------------- MODULE MCUdp ----------------------------------
EXTENDS UdpProxy

CONSTANTS a, b, x, y

\* Two sources at two addresses, or one source alone.
TwoIps == {a, b}
TwoSrcs == {x, y}
OwnIp == [s \in TwoSrcs |-> IF s = x THEN a ELSE b]

OneIp == {a}
OneSrc == {x}
OnlyIp == [s \in OneSrc |-> a]

Unlimited == {[total |-> 0, perIp |-> 0]}
SomeCaps == {[total |-> 0, perIp |-> 0], [total |-> 1, perIp |-> 0], [total |-> 0, perIp |-> 1]}
=============================================================================
