----------------------------- MODULE MCRelayProgress -----------------------------
(* TcpRelay with two history variables: how long ago a byte moved, in either     *)
(* direction, by a read or by a write, and the longest such silence so far.      *)
EXTENDS TcpRelay

VARIABLES still, longest

MCDownload == [d \in Dirs |-> IF d = "down" THEN 3 ELSE 0]
MCHalfOnly == {[idle |-> 0, half |-> 2]}

InitProgress == Init /\ still = 0 /\ longest = 0

\* The loops are never late here: time does not pass while one can read or write.
Prompt == \A d \in Dirs : /\ pc[d] = "read" => got[d] = sent[d]
                          /\ pc[d] = "write" => room[d] = 0

NextProgress ==
    /\ \/ Advance /\ Prompt /\ still' = Older(still)
       \/ /\ Environment \/ (\E d \in Dirs : Copy(d)) \/ Watchdog
          /\ still' = IF <<got, out>>' = <<got, out>> THEN still ELSE 0
    /\ longest' = Greater(longest, still')

SpecProgress == InitProgress /\ [][NextProgress]_<<vars, still, longest>>

\* tcp.rs:430-435 says that a surviving direction that is still moving data is
\* never killed mid-transfer, only one that also went silent for the grace period
\* is: the half-close timeout implies a silence as long as the grace.
OnlySilentKilled == reason = "half_close_timeout" => longest >= cfg.half
=============================================================================
