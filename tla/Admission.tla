------------------------------- MODULE Admission -------------------------------
(***************************************************************************)
(* What ConnLimits promises, without its counters: a connection is admitted *)
(* exactly when the guards alive at that moment leave room under both caps, *)
(* it keeps its slot until its guard drops, and a refusal names the layer   *)
(* that was full.  The per-address bookkeeping of limits.rs does not appear.*)
(***************************************************************************)
EXTENDS Naturals, FiniteSets

CONSTANTS Conns, Ips, Caps, NoIp

VARIABLES caps,     \* the configured caps, fixed
          guard,    \* guard[c]: the address whose slot c holds, or NoIp
          verdict   \* the last answer of try_acquire

vars == <<caps, guard, verdict>>

Alive == {c \in Conns : guard[c] # NoIp}
AliveFrom(ip) == {c \in Conns : guard[c] = ip}

NoRoom == caps.total > 0 /\ Cardinality(Alive) >= caps.total
NoRoomFor(ip) == caps.perIp > 0 /\ Cardinality(AliveFrom(ip)) >= caps.perIp

Init == /\ caps \in Caps
        /\ guard = [c \in Conns |-> NoIp]
        /\ verdict = "none"

Enter(c, ip) == /\ guard[c] = NoIp
                /\ ~NoRoom /\ ~NoRoomFor(ip)
                /\ guard' = [guard EXCEPT ![c] = ip]
                /\ verdict' = "admitted"
                /\ UNCHANGED caps

Refuse(c, ip) == /\ guard[c] = NoIp
                 /\ \/ NoRoom /\ verdict' = "total"
                    \/ ~NoRoom /\ NoRoomFor(ip) /\ verdict' = "per_ip"
                 /\ UNCHANGED <<caps, guard>>

Leave(c) == /\ guard[c] # NoIp
            /\ guard' = [guard EXCEPT ![c] = NoIp]
            /\ UNCHANGED <<caps, verdict>>

Next == \E c \in Conns : \/ \E ip \in Ips : Enter(c, ip) \/ Refuse(c, ip)
                         \/ Leave(c)

Spec == Init /\ [][Next]_vars
=============================================================================
