--------------------------------- MODULE MCRelay ---------------------------------
(* No timeout, either one alone, and both.  The floor of the sleep does not     *)
(* divide the timeouts, so that the watchdog can wake late.                     *)
EXTENDS TcpRelay

MCConfigs == {[idle |-> i, half |-> h] : i \in {0, 3}, h \in {0, 2}}
\* The request is larger than a write takes at once.
MCMaxBytes == [d \in Dirs |-> IF d = "up" THEN 2 ELSE 1]
\* For liveness: peers that never read (Window = 0), so that a loop that has read
\* anything stays blocked in its write.
MCOneByte == [d \in Dirs |-> 1]
MCShort == {[idle |-> 0, half |-> 0], [idle |-> 1, half |-> 0], [idle |-> 0, half |-> 1]}
=============================================================================
