------------------------------- MODULE ConnLimits -------------------------------
(***************************************************************************)
(* The data of src/src/limits.rs: the record State that ConnLimits keeps    *)
(* behind its mutex, and what try_acquire and Guard::drop do to it while     *)
(* they hold the mutex, each one state function.  The warnings that are due  *)
(* are decided under the mutex and logged after it (module Limits).          *)
(* A cap of 0 disables its layer.                                           *)
(***************************************************************************)
EXTENDS Naturals

CONSTANTS Ips,   \* source IP addresses
          Caps   \* configured pairs (max_connections, max_per_ip)

ASSUME CapsAssumption == Caps \subseteq [total : Nat, perIp : Nat]

IpStat == [count : Nat, warned : BOOLEAN]

\* State::default(): nothing held, the per_ip map is empty.
EmptyState == [total |-> 0, perIp |-> [ip \in {} |-> 0], totalWarned |-> FALSE]

\* s.per_ip.get(&src_ip).map(|st| st.count).unwrap_or(0)
Count(s, ip) == IF ip \in DOMAIN s.perIp THEN s.perIp[ip].count ELSE 0

\* entry(src_ip).or_default() starts with warned = false.
Warned(s, ip) == ip \in DOMAIN s.perIp /\ s.perIp[ip].warned

Reached90pct(used, cap) == used * 10 >= cap * 9

-----------------------------------------------------------------------------
(* try_acquire: the total cap is looked at first, then the cap per address. *)

\* A slip: one connection more than the cap.
MutTotalFull(s, caps) == caps.total > 0 /\ s.total > caps.total

TotalFull(s, caps) == caps.total > 0 /\ s.total >= caps.total

IpFull(s, caps, ip) == caps.perIp > 0 /\ Count(s, ip) >= caps.perIp

Admits(s, caps, ip) == ~TotalFull(s, caps) /\ ~IpFull(s, caps, ip)

WarnsTotal(s, caps) ==
    ~s.totalWarned /\ caps.total > 0 /\ Reached90pct(s.total + 1, caps.total)

WarnsIp(s, caps, ip) ==
    ~Warned(s, ip) /\ caps.perIp > 0 /\ Reached90pct(Count(s, ip) + 1, caps.perIp)

\* A slip: the warned flag of the total is not set.
MutWarnFlagLost(s, caps, ip) ==
    [total       |-> s.total + 1,
     totalWarned |-> s.totalWarned,
     perIp       |-> [i \in DOMAIN s.perIp \cup {ip} |->
                        IF i = ip
                        THEN [count  |-> Count(s, ip) + 1,
                              warned |-> Warned(s, ip) \/ WarnsIp(s, caps, ip)]
                        ELSE s.perIp[i]]]

\* The state after an admission.
Admitted(s, caps, ip) ==
    [total       |-> s.total + 1,
     totalWarned |-> s.totalWarned \/ WarnsTotal(s, caps),
     perIp       |-> [i \in DOMAIN s.perIp \cup {ip} |->
                        IF i = ip
                        THEN [count  |-> Count(s, ip) + 1,
                              warned |-> Warned(s, ip) \/ WarnsIp(s, caps, ip)]
                        ELSE s.perIp[i]]]

-----------------------------------------------------------------------------
(* Guard::drop: both counters go down, saturating at 0, and an address that *)
(* holds nothing any more leaves the map, its warned flag with it.          *)

SaturatingPred(n) == IF n = 0 THEN 0 ELSE n - 1

\* A slip: the entry stays in the map with count 0.
MutKeepsEmptyEntry(s, ip) ==
    [s EXCEPT !.total = SaturatingPred(@),
              !.perIp = [i \in DOMAIN s.perIp |->
                           IF i = ip
                           THEN [s.perIp[i] EXCEPT !.count = SaturatingPred(@)]
                           ELSE s.perIp[i]]]

\* A slip: the entry leaves with the first guard of the address.
MutRemovesEntry(s, ip) ==
    [s EXCEPT !.total = SaturatingPred(@),
              !.perIp = [i \in DOMAIN s.perIp \ {ip} |-> s.perIp[i]]]

Released(s, ip) ==
    LET kept == IF Count(s, ip) <= 1 THEN DOMAIN s.perIp \ {ip} ELSE DOMAIN s.perIp
    IN  [total       |-> SaturatingPred(s.total),
         totalWarned |-> s.totalWarned,
         perIp       |-> [i \in kept |->
                            IF i = ip
                            THEN [s.perIp[i] EXCEPT !.count = SaturatingPred(@)]
                            ELSE s.perIp[i]]]
=============================================================================
