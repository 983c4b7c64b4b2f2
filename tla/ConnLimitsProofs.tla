---------------------------- MODULE ConnLimitsProofs ----------------------------
(***************************************************************************)
(* What try_acquire and Guard::drop of src/src/limits.rs do to the counters,  *)
(* for any state: the facts that the proofs about the limits and about the    *)
(* components that use them share.                                            *)
(***************************************************************************)
EXTENDS ConnLimits, TLAPS

\* What try_acquire leaves in the state it is given: the counts of the address
\* it admits, and of every other address.
LEMMA AdmittedCounts ==
    ASSUME NEW s, NEW cp, NEW ip \in Ips,
           DOMAIN s.perIp \subseteq Ips,
           \A i \in DOMAIN s.perIp : s.perIp[i] \in IpStat
    PROVE  LET t == Admitted(s, cp, ip)
           IN  /\ t.total = s.total + 1
               /\ DOMAIN t = {"total", "perIp", "totalWarned"}
               /\ t.totalWarned = (s.totalWarned \/ WarnsTotal(s, cp))
               /\ DOMAIN t.perIp = DOMAIN s.perIp \cup {ip}
               /\ t.perIp[ip] = [count  |-> Count(s, ip) + 1,
                                 warned |-> Warned(s, ip) \/ WarnsIp(s, cp, ip)]
               /\ \A i \in DOMAIN s.perIp \ {ip} : t.perIp[i] = s.perIp[i]
               /\ \A i \in Ips : Count(s, i) \in Nat
  BY DEF Admitted, Count, IpStat

\* What Guard::drop leaves, for an address that holds a slot.
LEMMA ReleasedCounts ==
    ASSUME NEW s, NEW ip \in Ips,
           s.total \in Nat \ {0},
           ip \in DOMAIN s.perIp,
           DOMAIN s.perIp \subseteq Ips,
           \A i \in DOMAIN s.perIp : s.perIp[i] \in IpStat /\ s.perIp[i].count > 0
    PROVE  LET t == Released(s, ip)
           IN  /\ t.total = s.total - 1
               /\ DOMAIN t = {"total", "perIp", "totalWarned"}
               /\ t.totalWarned = s.totalWarned
               /\ Count(s, ip) = 1 => DOMAIN t.perIp = DOMAIN s.perIp \ {ip}
               /\ Count(s, ip) # 1 => /\ DOMAIN t.perIp = DOMAIN s.perIp
                                      /\ t.perIp[ip] = [count  |-> Count(s, ip) - 1,
                                                        warned |-> s.perIp[ip].warned]
               /\ \A i \in DOMAIN s.perIp \ {ip} : t.perIp[i] = s.perIp[i]
               /\ Count(s, ip) \in Nat \ {0}
  <1>1. /\ Count(s, ip) = s.perIp[ip].count
        /\ Count(s, ip) \in Nat \ {0}
        /\ s.perIp[ip] = [count |-> s.perIp[ip].count, warned |-> s.perIp[ip].warned]
    BY DEF Count, IpStat
  <1>2. QED
    BY <1>1 DEF Released, SaturatingPred
=============================================================================
