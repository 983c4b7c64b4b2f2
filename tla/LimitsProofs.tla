------------------------------ MODULE LimitsProofs ------------------------------
(***************************************************************************)
(* Proofs about src/src/limits.rs for every number of connections and       *)
(* addresses and every pair of caps.                                        *)
(***************************************************************************)
EXTENDS Limits, ConnLimitsProofs, FiniteSetTheorems, TLAPS

-----------------------------------------------------------------------------
(* Type correctness and accounting support each other: a guard alive means a *)
(* positive counter, which is what makes the saturating subtraction exact.   *)

Accounting == TypeOK /\ IsFiniteSet(Held) /\ SlotAccounting

LEMMA HeldInit ==
    ASSUME Init
    PROVE  Held = {} /\ \A ip \in Ips : HeldBy(ip) = {}
  BY NoIpAssumption DEF Init, Held, HeldBy

LEMMA HeldAcquire ==
    ASSUME TypeOK, IsFiniteSet(Held), NEW c \in Conns, NEW ip \in Ips,
           guard[c] = NoIp, guard' = [guard EXCEPT ![c] = ip]
    PROVE  /\ Held' = Held \cup {c}
           /\ \A i \in Ips : HeldBy(i)' = IF i = ip THEN HeldBy(i) \cup {c} ELSE HeldBy(i)
           /\ IsFiniteSet(Held')
           /\ Cardinality(Held') = Cardinality(Held) + 1
           /\ \A i \in Ips : Cardinality(HeldBy(i)') = IF i = ip THEN Cardinality(HeldBy(i)) + 1
                                                               ELSE Cardinality(HeldBy(i))
  <1>1. /\ Held' = Held \cup {c} /\ c \notin Held
        /\ \A i \in Ips : HeldBy(i)' = IF i = ip THEN HeldBy(i) \cup {c} ELSE HeldBy(i)
        /\ c \notin HeldBy(ip)
        /\ HeldBy(ip) \subseteq Held
    BY NoIpAssumption DEF TypeOK, Held, HeldBy
  <1>2. IsFiniteSet(HeldBy(ip))
    BY <1>1, FS_Subset
  <1>3. /\ IsFiniteSet(Held \cup {c}) /\ Cardinality(Held \cup {c}) = Cardinality(Held) + 1
        /\ Cardinality(HeldBy(ip) \cup {c}) = Cardinality(HeldBy(ip)) + 1
    BY <1>1, <1>2, FS_AddElement
  <1>4. QED
    BY <1>1, <1>3

LEMMA HeldDrop ==
    ASSUME TypeOK, IsFiniteSet(Held), NEW c \in Conns, NEW ip \in Ips,
           guard[c] = ip, guard' = [guard EXCEPT ![c] = NoIp]
    PROVE  /\ Held' = Held \ {c}
           /\ \A i \in Ips : HeldBy(i)' = IF i = ip THEN HeldBy(i) \ {c} ELSE HeldBy(i)
           /\ IsFiniteSet(Held')
           /\ \A i \in Ips : i = ip => (HeldBy(i)' = {} <=> Cardinality(HeldBy(i)) = 1)
           /\ Cardinality(Held') = Cardinality(Held) - 1
           /\ \A i \in Ips : Cardinality(HeldBy(i)') = IF i = ip THEN Cardinality(HeldBy(i)) - 1
                                                               ELSE Cardinality(HeldBy(i))
           /\ Cardinality(Held) \in Nat \ {0}
           /\ Cardinality(HeldBy(ip)) \in Nat \ {0}
           /\ HeldBy(ip) # {}
  <1>1. /\ Held' = Held \ {c} /\ c \in Held
        /\ \A i \in Ips : HeldBy(i)' = IF i = ip THEN HeldBy(i) \ {c} ELSE HeldBy(i)
        /\ c \in HeldBy(ip)
        /\ HeldBy(ip) \subseteq Held
    BY NoIpAssumption DEF TypeOK, Held, HeldBy
  <1>2. IsFiniteSet(HeldBy(ip))
    BY <1>1, FS_Subset
  <1>3. /\ IsFiniteSet(Held \ {c}) /\ Cardinality(Held \ {c}) = Cardinality(Held) - 1
        /\ IsFiniteSet(HeldBy(ip) \ {c})
        /\ Cardinality(HeldBy(ip) \ {c}) = Cardinality(HeldBy(ip)) - 1
    BY <1>1, <1>2, FS_RemoveElement
  <1>4. /\ Cardinality(Held) \in Nat \ {0}
        /\ Cardinality(HeldBy(ip)) \in Nat \ {0}
        /\ HeldBy(ip) # {}
    BY <1>1, <1>2, FS_EmptySet, FS_CardinalityType
  <1>5. HeldBy(ip) \ {c} = {} <=> Cardinality(HeldBy(ip)) = 1
    BY <1>3, <1>4, FS_EmptySet
  <1>6. QED
    BY <1>1, <1>3, <1>4, <1>5

LEMMA AccountingInit == Init => Accounting
  <1> SUFFICES ASSUME Init PROVE Accounting
    OBVIOUS
  <1>1. Held = {} /\ \A ip \in Ips : HeldBy(ip) = {}
    BY HeldInit
  <1>2. /\ state.total = 0 /\ state.totalWarned = FALSE
        /\ DOMAIN state = {"total", "perIp", "totalWarned"}
        /\ DOMAIN state.perIp = {}
    BY DEF Init, EmptyState
  <1>3. TypeOK
    <2>1. DOMAIN state.perIp \subseteq Ips /\ \A ip \in DOMAIN state.perIp : FALSE
      BY <1>2
    <2>2. guard \in [Conns -> Ips \cup {NoIp}]
      BY DEF Init
    <2>3. warnings \in [total : 0..WarnBound, ip : [Ips -> 0..WarnBound]]
      BY DEF Init, WarnBound
    <2>4. /\ caps \in Caps /\ peak \in Nat
          /\ verdict \in {"none", "admitted", "total", "per_ip"}
          /\ caller = NoConn /\ toLog = {}
      BY DEF Init
    <2>5. state.totalWarned \in BOOLEAN
      BY <1>2, Zenon
    <2>6. QED
      BY <1>2, <2>1, <2>2, <2>3, <2>4, <2>5 DEF TypeOK
  <1>4. SlotAccounting
    BY <1>1, <1>2, FS_EmptySet DEF SlotAccounting, Count
  <1>5. QED
    BY <1>1, <1>3, <1>4, FS_EmptySet DEF Accounting

LEMMA AccountingAcquire ==
    ASSUME Accounting, NEW c \in Conns, NEW ip \in Ips, Acquire(c, ip)
    PROVE  Accounting'
  <1> USE DEF Accounting
  <1>1. guard[c] = NoIp /\ guard' = [guard EXCEPT ![c] = ip]
    BY DEF Acquire, Calls
  <1>2. /\ Held' = Held \cup {c}
        /\ \A i \in Ips : HeldBy(i)' = IF i = ip THEN HeldBy(i) \cup {c} ELSE HeldBy(i)
        /\ IsFiniteSet(Held')
        /\ Cardinality(Held') = Cardinality(Held) + 1
        /\ \A i \in Ips : Cardinality(HeldBy(i)') = IF i = ip THEN Cardinality(HeldBy(i)) + 1
                                                               ELSE Cardinality(HeldBy(i))
    BY <1>1, HeldAcquire
  <1>3. /\ state'.total = state.total + 1
        /\ DOMAIN state' = {"total", "perIp", "totalWarned"}
        /\ state'.totalWarned = (state.totalWarned \/ WarnsTotal(state, caps))
        /\ DOMAIN state'.perIp = DOMAIN state.perIp \cup {ip}
        /\ state'.perIp[ip] = [count  |-> Count(state, ip) + 1,
                               warned |-> Warned(state, ip) \/ WarnsIp(state, caps, ip)]
        /\ \A i \in DOMAIN state.perIp \ {ip} : state'.perIp[i] = state.perIp[i]
        /\ \A i \in Ips : Count(state, i) \in Nat
    <2>1. DOMAIN state.perIp \subseteq Ips
          /\ \A i \in DOMAIN state.perIp : state.perIp[i] \in IpStat
      BY DEF TypeOK
    <2>2. state' = Admitted(state, caps, ip)
      BY DEF Acquire
    <2>3. QED
      BY <2>1, <2>2, AdmittedCounts
  <1>4. TypeOK'
    <2>1. state'.totalWarned \in BOOLEAN
      BY <1>3, Zenon DEF TypeOK, WarnsTotal
    <2>2. (Warned(state, ip) \/ WarnsIp(state, caps, ip)) \in BOOLEAN
      BY Zenon DEF Warned, WarnsIp
    <2>3. state'.perIp[ip] \in IpStat /\ state'.perIp[ip].count > 0
      BY <1>3, <2>2 DEF IpStat
    <2>4. \A i \in DOMAIN state'.perIp : state'.perIp[i] \in IpStat /\ state'.perIp[i].count > 0
      BY <1>3, <2>3 DEF TypeOK
    <2>5. /\ warnings' \in [total : 0..WarnBound, ip : [Ips -> 0..WarnBound]]
          /\ caller' \in Conns /\ toLog' \subseteq Layers /\ guard'[caller'] # NoIp
      BY NoIpAssumption DEF TypeOK, Acquire, Due, Layers
    <2>6. /\ caps' \in Caps
          /\ guard' \in [Conns -> Ips \cup {NoIp}]
          /\ verdict' \in {"none", "admitted", "total", "per_ip"}
          /\ peak' \in Nat
          /\ state'.total \in Nat
          /\ DOMAIN state'.perIp \subseteq Ips
      BY <1>3 DEF TypeOK, Acquire
    <2>7. QED
      BY <1>3, <2>1, <2>4, <2>5, <2>6, NoConnAssumption DEF TypeOK
  <1>5. SlotAccounting'
    <2>1. state'.total = Cardinality(Held')
      BY <1>2, <1>3 DEF SlotAccounting
    <2>2. DOMAIN state'.perIp = {i \in Ips : HeldBy(i)' # {}}
      <3>1. \A i \in Ips : HeldBy(i)' # {} <=> i = ip \/ HeldBy(i) # {}
        BY <1>2
      <3>2. QED
        BY <1>3, <3>1 DEF SlotAccounting
    <2>3. ASSUME NEW i \in Ips
          PROVE  Count(state', i) = Cardinality(HeldBy(i)')
      <3>1. CASE i = ip
        BY <1>2, <1>3, <3>1 DEF SlotAccounting, Count
      <3>2. CASE i # ip
        BY <1>2, <1>3, <3>2 DEF SlotAccounting, Count
      <3>3. QED
        BY <3>1, <3>2
    <2>4. QED
      BY <2>1, <2>2, <2>3 DEF SlotAccounting, Count
  <1>6. QED
    BY <1>2, <1>4, <1>5

LEMMA AccountingDrop ==
    ASSUME Accounting, NEW c \in Conns, DropGuard(c)
    PROVE  Accounting'
  <1> USE DEF Accounting
  <1>1. PICK ip \in Ips : guard[c] = ip
    BY DEF DropGuard, TypeOK
  <1>2. /\ Held' = Held \ {c}
        /\ \A i \in Ips : HeldBy(i)' = IF i = ip THEN HeldBy(i) \ {c} ELSE HeldBy(i)
        /\ IsFiniteSet(Held')
        /\ \A i \in Ips : i = ip => (HeldBy(i)' = {} <=> Cardinality(HeldBy(i)) = 1)
        /\ Cardinality(Held') = Cardinality(Held) - 1
        /\ \A i \in Ips : Cardinality(HeldBy(i)') = IF i = ip THEN Cardinality(HeldBy(i)) - 1
                                                               ELSE Cardinality(HeldBy(i))
        /\ Cardinality(Held) \in Nat \ {0}
        /\ Cardinality(HeldBy(ip)) \in Nat \ {0}
        /\ HeldBy(ip) # {}
    <2>1. guard' = [guard EXCEPT ![c] = NoIp]
      BY DEF DropGuard
    <2>2. TypeOK /\ IsFiniteSet(Held)
      OBVIOUS
    <2>3. QED
      BY <1>1, <2>1, <2>2, HeldDrop
  <1>3. /\ state'.total = state.total - 1
        /\ DOMAIN state' = {"total", "perIp", "totalWarned"}
        /\ state'.totalWarned = state.totalWarned
        /\ Count(state, ip) = 1 => DOMAIN state'.perIp = DOMAIN state.perIp \ {ip}
        /\ Count(state, ip) # 1 => /\ DOMAIN state'.perIp = DOMAIN state.perIp
                                   /\ state'.perIp[ip] = [count  |-> Count(state, ip) - 1,
                                                          warned |-> state.perIp[ip].warned]
        /\ \A i \in DOMAIN state.perIp \ {ip} : state'.perIp[i] = state.perIp[i]
        /\ Count(state, ip) \in Nat \ {0}
    <2>1. state.total \in Nat \ {0} /\ ip \in DOMAIN state.perIp
      BY <1>2 DEF SlotAccounting
    <2>2. DOMAIN state.perIp \subseteq Ips
          /\ \A i \in DOMAIN state.perIp : state.perIp[i] \in IpStat /\ state.perIp[i].count > 0
      BY DEF TypeOK
    <2>3. state' = Released(state, ip)
      BY <1>1 DEF DropGuard
    <2>4. QED
      BY <2>1, <2>2, <2>3, ReleasedCounts
  <1>4. TypeOK'
    <2>1. \A i \in DOMAIN state'.perIp : state'.perIp[i] \in IpStat /\ state'.perIp[i].count > 0
      <3>1. ip \in DOMAIN state.perIp
        BY <1>2 DEF SlotAccounting
      <3>2. Count(state, ip) # 1 => state'.perIp[ip] \in IpStat /\ state'.perIp[ip].count > 0
        BY <1>3, <3>1 DEF TypeOK, IpStat
      <3>3. QED
        BY <1>3, <3>2 DEF TypeOK
    <2>2. /\ state'.total \in Nat /\ state'.totalWarned \in BOOLEAN
          /\ DOMAIN state'.perIp \subseteq Ips
      BY <1>2, <1>3 DEF SlotAccounting, TypeOK
    <2>3. /\ caps' \in Caps
          /\ guard' \in [Conns -> Ips \cup {NoIp}]
          /\ verdict' \in {"none", "admitted", "total", "per_ip"}
          /\ peak' \in Nat
          /\ warnings' \in [total : 0..WarnBound, ip : [Ips -> 0..WarnBound]]
          /\ caller' \in Conns \cup {NoConn} /\ toLog' \subseteq Layers
          /\ caller' = NoConn => toLog' = {}
          /\ caller' # NoConn => guard'[caller'] # NoIp
      BY DEF TypeOK, DropGuard
    <2>4. QED
      BY <1>3, <2>1, <2>2, <2>3 DEF TypeOK
  <1>5. SlotAccounting'
    <2>1. state'.total = Cardinality(Held')
      BY <1>2, <1>3 DEF SlotAccounting
    <2>2. Count(state, ip) = 1 <=> HeldBy(ip)' = {}
      BY <1>2 DEF SlotAccounting
    <2>3. DOMAIN state'.perIp = {i \in Ips : HeldBy(i)' # {}}
      <3>1. DOMAIN state.perIp = {i \in Ips : HeldBy(i) # {}}
        BY DEF SlotAccounting
      <3>2. QED
        BY <1>2, <1>3, <2>2, <3>1
    <2>4. ASSUME NEW i \in Ips
          PROVE  Count(state', i) = Cardinality(HeldBy(i)')
      <3>1. CASE i = ip
        BY <1>2, <1>3, <3>1 DEF SlotAccounting, Count
      <3>2. CASE i # ip
        BY <1>2, <1>3, <3>2 DEF SlotAccounting, Count
      <3>3. QED
        BY <3>1, <3>2
    <2>5. QED
      BY <2>1, <2>3, <2>4 DEF SlotAccounting, Count
  <1>6. QED
    BY <1>2, <1>4, <1>5

LEMMA AccountingStep == Accounting /\ [Next]_vars => Accounting'
  <1> SUFFICES ASSUME Accounting, [Next]_vars PROVE Accounting'
    OBVIOUS
  <1>1. ASSUME NEW c \in Conns, NEW ip \in Ips, Acquire(c, ip)
        PROVE  Accounting'
    BY <1>1, AccountingAcquire
  <1>2. ASSUME NEW c \in Conns, DropGuard(c)
        PROVE  Accounting'
    BY <1>2, AccountingDrop
  <1>3. ASSUME UNCHANGED <<caps, state, guard, peak>>,
               verdict' \in {"none", "admitted", "total", "per_ip"},
               warnings' \in [total : 0..WarnBound, ip : [Ips -> 0..WarnBound]],
               caller' \in {caller, NoConn}, toLog' \subseteq toLog,
               caller' = NoConn => toLog' = {}
        PROVE  Accounting'
    <2>1. TypeOK'
      BY <1>3 DEF Accounting, TypeOK
    <2>2. Held' = Held /\ \A ip \in Ips : HeldBy(ip)' = HeldBy(ip)
      BY <1>3 DEF Held, HeldBy
    <2>3. SlotAccounting'
      BY <1>3, <2>2 DEF Accounting, SlotAccounting, Count
    <2>4. QED
      BY <2>1, <2>2, <2>3 DEF Accounting
  <1>4. ASSUME NEW c \in Conns, NEW ip \in Ips, RejectTotal(c, ip)
        PROVE  Accounting'
    BY <1>3, <1>4 DEF RejectTotal, Accounting, TypeOK
  <1>5. ASSUME NEW c \in Conns, NEW ip \in Ips, RejectPerIp(c, ip)
        PROVE  Accounting'
    BY <1>3, <1>5 DEF RejectPerIp, Accounting, TypeOK
  <1>6. ASSUME LogTotal \/ LogPerIp \/ ReturnsGuard
        PROVE  Accounting'
    <2>1. warnings' \in [total : 0..WarnBound, ip : [Ips -> 0..WarnBound]]
      BY <1>6 DEF LogTotal, LogPerIp, ReturnsGuard, Bump, WarnBound, Accounting, TypeOK
    <2>2. QED
      BY <1>3, <1>6, <2>1 DEF LogTotal, LogPerIp, ReturnsGuard, Accounting, TypeOK
  <1>7. CASE UNCHANGED vars
    BY <1>3, <1>7 DEF vars, Accounting, TypeOK
  <1>8. QED
    BY <1>1, <1>2, <1>4, <1>5, <1>6, <1>7 DEF Next, TryAcquire

\* The counters of limits.rs are always well formed: no address stays in the
\* map without a slot, no count is negative.
THEOREM LimitsType == Spec => []TypeOK
  <1>1. Accounting => TypeOK
    BY DEF Accounting
  <1>2. QED
    BY <1>1, AccountingInit, AccountingStep, PTL DEF Spec

\* For any number of connections, in any order of admissions, refusals and
\* drops, the counters that try_acquire and Guard::drop keep are the numbers of
\* guards alive.
THEOREM LimitsAccounting == Spec => []SlotAccounting
  <1>1. Accounting => SlotAccounting
    BY DEF Accounting
  <1>2. QED
    BY <1>1, AccountingInit, AccountingStep, PTL DEF Spec

-----------------------------------------------------------------------------
(* The caps bound the guards alive, not only the counters.                  *)

CapsInv == Accounting /\ CapsRespected

LEMMA CapsInit == Init => CapsInv
  <1> SUFFICES ASSUME Init PROVE CapsRespected
    BY AccountingInit DEF CapsInv
  <1>1. caps.total \in Nat /\ caps.perIp \in Nat
    BY CapsAssumption DEF Init
  <1>2. QED
    BY <1>1, HeldInit, FS_EmptySet DEF CapsRespected

LEMMA CapsStep == CapsInv /\ [Next]_vars => CapsInv'
  <1> SUFFICES ASSUME CapsInv, [Next]_vars PROVE CapsRespected'
    BY AccountingStep DEF CapsInv
  <1> USE DEF CapsInv, Accounting
  <1>0. caps.total \in Nat /\ caps.perIp \in Nat
    BY CapsAssumption DEF TypeOK
  <1>1. ASSUME NEW c \in Conns, NEW ip \in Ips, Acquire(c, ip)
        PROVE  CapsRespected'
    <2>1. /\ IsFiniteSet(Held')
          /\ Cardinality(Held') = Cardinality(Held) + 1
          /\ \A i \in Ips : Cardinality(HeldBy(i)') = IF i = ip THEN Cardinality(HeldBy(i)) + 1
                                                                 ELSE Cardinality(HeldBy(i))
      <3>1. guard[c] = NoIp /\ guard' = [guard EXCEPT ![c] = ip] /\ TypeOK /\ IsFiniteSet(Held)
        BY <1>1 DEF Acquire, Calls
      <3>2. QED
        BY <3>1, HeldAcquire
    <2>2. /\ caps' = caps
          /\ caps.total > 0 => ~ (Cardinality(Held) >= caps.total)
          /\ caps.perIp > 0 => ~ (Cardinality(HeldBy(ip)) >= caps.perIp)
      BY <1>1 DEF Acquire, Admits, TotalFull, IpFull, SlotAccounting
    <2>3. Cardinality(Held) \in Nat
      BY FS_CardinalityType
    <2>4. \A i \in Ips : Cardinality(HeldBy(i)) \in Nat
      <3>1. \A i \in Ips : HeldBy(i) \subseteq Held
        BY NoIpAssumption DEF HeldBy, Held
      <3>2. QED
        BY <3>1, FS_Subset, FS_CardinalityType
    <2>5. QED
      BY <1>0, <2>1, <2>2, <2>3, <2>4 DEF CapsRespected
  <1>2. ASSUME NEW c \in Conns, DropGuard(c)
        PROVE  CapsRespected'
    <2>1. PICK ip \in Ips : guard[c] = ip
      BY <1>2 DEF DropGuard, TypeOK
    <2>2. /\ Cardinality(Held') = Cardinality(Held) - 1
          /\ \A i \in Ips : Cardinality(HeldBy(i)') = IF i = ip THEN Cardinality(HeldBy(i)) - 1
                                                                 ELSE Cardinality(HeldBy(i))
          /\ Cardinality(Held) \in Nat \ {0}
          /\ Cardinality(HeldBy(ip)) \in Nat \ {0}
      <3>1. guard' = [guard EXCEPT ![c] = NoIp] /\ TypeOK /\ IsFiniteSet(Held)
        BY <1>2 DEF DropGuard
      <3>2. QED
        BY <2>1, <3>1, HeldDrop
    <2>3. QED
      BY <1>0, <1>2, <2>2 DEF CapsRespected, DropGuard
  <1>3. ASSUME UNCHANGED <<caps, guard>>
        PROVE  CapsRespected'
    BY <1>3 DEF CapsRespected, Held, HeldBy
  <1>4. QED
    BY <1>1, <1>2, <1>3
    DEF Next, TryAcquire, RejectTotal, RejectPerIp, LogTotal, LogPerIp, ReturnsGuard, vars

\* Whatever the caps, never more guards alive than they allow: the promise an
\* operator reads in max_connections and max_per_ip.
THEOREM LimitsCaps == Spec => []CapsRespected
  <1>1. CapsInv => CapsRespected
    BY DEF CapsInv
  <1>2. QED
    BY <1>1, CapsInit, CapsStep, PTL DEF Spec

-----------------------------------------------------------------------------
(* The warnings.  Inductive because the flag of a layer is set as long as    *)
(* its usage is at 90 percent, set under the mutex at the very step that gets *)
(* there; whoever finds it set finds the warning logged, or the call that set *)
(* it still on its way to log it, with its slot held.                        *)

Pending == IF "total" \in toLog THEN 1 ELSE 0
PendingFor(ip) == caller # NoConn /\ guard[caller] = ip /\ "per_ip" \in toLog

WarnInv ==
    /\ warnings.total + Pending = IF state.totalWarned THEN 1 ELSE 0
    /\ peak >= state.total
    /\ state.totalWarned <=> caps.total > 0 /\ Reached90pct(peak, caps.total)
    /\ \A ip \in Ips :
         /\ Warned(state, ip) => warnings.ip[ip] > 0 \/ PendingFor(ip)
         /\ caps.perIp > 0 /\ Reached90pct(Count(state, ip), caps.perIp) => Warned(state, ip)

LEMMA WarnInit == Init => WarnInv
  <1> SUFFICES ASSUME Init PROVE WarnInv
    OBVIOUS
  <1>1. caps.total \in Nat /\ caps.perIp \in Nat
    BY CapsAssumption DEF Init
  <1>2. /\ state.total = 0 /\ state.totalWarned = FALSE /\ peak = 0
        /\ warnings.total = 0 /\ toLog = {} /\ \A ip \in Ips : ip \notin DOMAIN state.perIp
    BY DEF Init, EmptyState
  <1>3. QED
    BY <1>1, <1>2 DEF WarnInv, Pending, Reached90pct, Warned, Count

LEMMA WarnStep == Accounting /\ WarnInv /\ [Next]_vars => WarnInv'
  <1> SUFFICES ASSUME Accounting, WarnInv, [Next]_vars PROVE WarnInv'
    OBVIOUS
  <1> USE DEF Accounting
  <1>0. /\ caps.total \in Nat /\ caps.perIp \in Nat /\ state.total \in Nat /\ peak \in Nat
        /\ state.totalWarned \in BOOLEAN
    BY CapsAssumption DEF TypeOK
  <1>1. ASSUME NEW c \in Conns, NEW ip \in Ips, Acquire(c, ip)
        PROVE  WarnInv'
    <2>1. /\ state'.total = state.total + 1
          /\ state'.totalWarned = (state.totalWarned \/ WarnsTotal(state, caps))
          /\ DOMAIN state'.perIp = DOMAIN state.perIp \cup {ip}
          /\ state'.perIp[ip] = [count  |-> Count(state, ip) + 1,
                                 warned |-> Warned(state, ip) \/ WarnsIp(state, caps, ip)]
          /\ \A i \in DOMAIN state.perIp \ {ip} : state'.perIp[i] = state.perIp[i]
          /\ \A i \in Ips : Count(state, i) \in Nat
      <3>1. /\ DOMAIN state.perIp \subseteq Ips
            /\ \A i \in DOMAIN state.perIp : state.perIp[i] \in IpStat
            /\ state' = Admitted(state, caps, ip)
        BY <1>1 DEF TypeOK, Acquire
      <3>2. QED
        BY <3>1, AdmittedCounts
    <2>2. /\ caps' = caps /\ warnings' = warnings
          /\ toLog = {} /\ caller = NoConn
          /\ "total" \in toLog' <=> WarnsTotal(state, caps)
          /\ "per_ip" \in toLog' <=> WarnsIp(state, caps, ip)
          /\ caller' # NoConn /\ guard'[caller'] = ip
          /\ peak' = IF state.total + 1 > peak THEN state.total + 1 ELSE peak
      BY <1>1, <2>1, NoConnAssumption DEF Acquire, Calls, Due, TypeOK
    <2>3. WarnsTotal(state, caps) <=>
            ~state.totalWarned /\ caps.total > 0 /\ (state.total + 1) * 10 >= caps.total * 9
      BY DEF WarnsTotal, Reached90pct
    <2> DEFINE w == WarnsTotal(state, caps)
    <2>a. state'.totalWarned <=> (state.totalWarned \/ w)
      BY <2>1, Zenon
    <2> HIDE DEF w
    <2>4. state'.totalWarned <=> caps'.total > 0 /\ Reached90pct(peak', caps'.total)
      BY <1>0, <2>1, <2>2, <2>3, <2>a DEF WarnInv, Reached90pct, w
    <2>5. warnings'.total + Pending' = IF state'.totalWarned THEN 1 ELSE 0
      <3>1. w => ~state.totalWarned
        BY <2>3 DEF w
      <3>2. warnings'.total = warnings.total /\ Pending = 0 /\ Pending' = IF w THEN 1 ELSE 0
        BY <2>2 DEF w, Pending
      <3>3. warnings.total \in Nat
        BY DEF TypeOK, WarnBound
      <3>4. QED
        BY <2>a, <3>1, <3>2, <3>3 DEF WarnInv
    <2>6. ASSUME NEW i \in Ips
          PROVE  /\ Warned(state', i) => warnings'.ip[i] > 0 \/ PendingFor(i)'
                 /\ caps'.perIp > 0 /\ Reached90pct(Count(state', i), caps'.perIp)
                      => Warned(state', i)
      <3>1. CASE i = ip
        <4>1. /\ Count(state', i) = Count(state, ip) + 1
              /\ Warned(state', i) <=> Warned(state, ip) \/ WarnsIp(state, caps, ip)
          <5>1. ip \in DOMAIN state'.perIp
            BY <2>1
          <5>2. state'.perIp[ip].count = Count(state, ip) + 1
            BY <2>1
          <5>3. state'.perIp[ip].warned = (Warned(state, ip) \/ WarnsIp(state, caps, ip))
            BY <2>1
          <5>4. Count(state', i) = Count(state, ip) + 1
            BY <3>1, <5>1, <5>2 DEF Count
          <5>5. Warned(state', i) <=> Warned(state, ip) \/ WarnsIp(state, caps, ip)
            BY <3>1, <5>1, <5>3, Zenon DEF Warned
          <5>6. QED
            BY <5>4, <5>5
        <4>2. Warned(state', i) => warnings'.ip[i] > 0 \/ PendingFor(i)'
          BY <2>2, <3>1, <4>1 DEF WarnInv, PendingFor
        <4>3. caps'.perIp > 0 /\ Reached90pct(Count(state', i), caps'.perIp) => Warned(state', i)
          BY <2>2, <4>1 DEF WarnsIp
        <4>4. QED
          BY <4>2, <4>3
      <3>2. CASE i # ip
        <4>1. Count(state', i) = Count(state, i) /\ (Warned(state', i) <=> Warned(state, i))
          BY <2>1, <3>2 DEF Count, Warned
        <4>2. QED
          BY <2>2, <3>2, <4>1 DEF WarnInv, PendingFor
      <3>3. QED
        BY <3>1, <3>2
    <2>7. peak' >= state'.total
      BY <1>0, <2>1, <2>2
    <2>8. QED
      BY <2>4, <2>5, <2>6, <2>7 DEF WarnInv, Warned, Count
  <1>2. ASSUME NEW c \in Conns, DropGuard(c)
        PROVE  WarnInv'
    <2>1. PICK ip \in Ips : guard[c] = ip
      BY <1>2 DEF DropGuard, TypeOK
    <2>2. state.total \in Nat \ {0} /\ ip \in DOMAIN state.perIp
      <3>1. guard' = [guard EXCEPT ![c] = NoIp] /\ TypeOK /\ IsFiniteSet(Held)
        BY <1>2 DEF DropGuard
      <3>2. Cardinality(Held) \in Nat \ {0} /\ HeldBy(ip) # {}
        BY <2>1, <3>1, HeldDrop
      <3>3. QED
        BY <3>2 DEF SlotAccounting
    <2>3. /\ state'.total = state.total - 1
          /\ state'.totalWarned = state.totalWarned
          /\ Count(state, ip) = 1 => DOMAIN state'.perIp = DOMAIN state.perIp \ {ip}
          /\ Count(state, ip) # 1 => /\ DOMAIN state'.perIp = DOMAIN state.perIp
                                     /\ state'.perIp[ip] = [count  |-> Count(state, ip) - 1,
                                                            warned |-> state.perIp[ip].warned]
          /\ \A i \in DOMAIN state.perIp \ {ip} : state'.perIp[i] = state.perIp[i]
          /\ Count(state, ip) \in Nat \ {0}
      <3>1. DOMAIN state.perIp \subseteq Ips
            /\ \A i \in DOMAIN state.perIp : state.perIp[i] \in IpStat /\ state.perIp[i].count > 0
        BY DEF TypeOK
      <3>2. state' = Released(state, ip)
        BY <1>2, <2>1 DEF DropGuard
      <3>3. QED
        BY <2>2, <3>1, <3>2, ReleasedCounts
    <2>4. /\ caps' = caps /\ warnings' = warnings /\ peak' = peak
          /\ Pending' = Pending
          /\ \A i \in Ips : PendingFor(i)' <=> PendingFor(i)
      BY <1>2 DEF DropGuard, Pending, PendingFor, TypeOK
    <2>5. ASSUME NEW i \in Ips
          PROVE  /\ Warned(state', i) => warnings'.ip[i] > 0 \/ PendingFor(i)'
                 /\ caps'.perIp > 0 /\ Reached90pct(Count(state', i), caps'.perIp)
                      => Warned(state', i)
      <3>1. CASE i = ip /\ Count(state, ip) = 1
        BY <1>0, <2>3, <2>4, <3>1 DEF Warned, Count, Reached90pct
      <3>2. CASE i = ip /\ Count(state, ip) # 1
        <4>1. /\ Count(state', i) = Count(state, ip) - 1
              /\ Warned(state', i) <=> Warned(state, ip)
          BY <2>2, <2>3, <3>2 DEF Warned, Count
        <4>2. QED
          BY <1>0, <2>3, <2>4, <3>2, <4>1 DEF WarnInv, Reached90pct
      <3>3. CASE i # ip
        <4>1. Count(state', i) = Count(state, i) /\ (Warned(state', i) <=> Warned(state, i))
          BY <2>3, <3>3 DEF Count, Warned
        <4>2. QED
          BY <2>4, <4>1 DEF WarnInv
      <3>4. QED
        BY <3>1, <3>2, <3>3
    <2>6. /\ warnings'.total + Pending' = IF state'.totalWarned THEN 1 ELSE 0
          /\ peak' >= state'.total
          /\ state'.totalWarned <=> caps'.total > 0 /\ Reached90pct(peak', caps'.total)
      BY <1>0, <2>3, <2>4 DEF WarnInv
    <2>7. QED
      BY <2>5, <2>6 DEF WarnInv, Warned, Count
  <1>3. CASE LogTotal
    <2>1. /\ UNCHANGED <<caps, state, peak>> /\ warnings'.ip = warnings.ip
          /\ \A i \in Ips : PendingFor(i)' <=> PendingFor(i)
      BY <1>3 DEF LogTotal, PendingFor, TypeOK
    <2>2. Pending = 1 /\ Pending' = 0 /\ warnings'.total = Bump(warnings.total)
      BY <1>3 DEF LogTotal, Pending, TypeOK
    <2>3. warnings'.total = warnings.total + Pending
      BY <2>2 DEF WarnInv, Bump, WarnBound, TypeOK
    <2>4. QED
      BY <2>1, <2>2, <2>3 DEF WarnInv, Warned, Count, TypeOK, WarnBound
  <1>4. CASE LogPerIp
    <2>1. UNCHANGED <<caps, state, peak>> /\ warnings'.total = warnings.total /\ Pending' = Pending
      BY <1>4 DEF LogPerIp, Pending, TypeOK
    <2>2. ASSUME NEW i \in Ips, Warned(state, i)
          PROVE  warnings'.ip[i] > 0
      <3>1. warnings.ip \in [Ips -> 0..WarnBound]
            /\ warnings'.ip = [warnings.ip EXCEPT ![guard[caller]] = Bump(@)]
        BY <1>4 DEF LogPerIp, TypeOK
      <3>2. CASE guard[caller] = i
        BY <3>1, <3>2 DEF Bump, WarnBound
      <3>3. CASE guard[caller] # i
        BY <2>2, <3>1, <3>3 DEF WarnInv, PendingFor
      <3>4. QED
        BY <3>2, <3>3
    <2>3. QED
      BY <2>1, <2>2 DEF WarnInv, Warned, Count
  <1>5. CASE ReturnsGuard
    <2>1. /\ UNCHANGED <<caps, state, peak, warnings>> /\ Pending' = Pending
          /\ \A i \in Ips : ~PendingFor(i)
      BY <1>5 DEF ReturnsGuard, Pending, PendingFor
    <2>2. QED
      BY <2>1 DEF WarnInv, Warned, Count
  <1>6. ASSUME UNCHANGED <<caps, state, guard, caller, toLog, peak, warnings>>
        PROVE  WarnInv'
    BY <1>6 DEF WarnInv, Pending, PendingFor, Warned, Count
  <1>7. QED
    BY <1>1, <1>2, <1>3, <1>4, <1>5, <1>6 DEF Next, TryAcquire, RejectTotal, RejectPerIp, vars

\* Whatever the caps, and whatever drops between the unlock and the log: a refusal
\* of a layer comes after its warning was logged, as the header of limits.rs promises.
THEOREM LimitsWarnFirst == Spec => []WarnedBeforeRejecting
  <1>1. Accounting /\ WarnInv => WarnedBeforeRejecting
    <2> SUFFICES ASSUME Accounting, WarnInv PROVE WarnedBeforeRejecting
      OBVIOUS
    <2>1. /\ caps.total \in Nat /\ caps.perIp \in Nat /\ state.total \in Nat /\ peak \in Nat
          /\ \A ip \in Ips : Count(state, ip) \in Nat
          /\ warnings.total \in Nat
          /\ caller = NoConn => Pending = 0 /\ \A ip \in Ips : ~PendingFor(ip)
      BY CapsAssumption
      DEF Accounting, TypeOK, Count, IpStat, WarnBound, Pending, PendingFor
    <2>2. QED
      BY <2>1 DEF WarnedBeforeRejecting, WarnInv, TotalFull, IpFull, Reached90pct
  <1>2. QED
    BY <1>1, AccountingInit, AccountingStep, WarnInit, WarnStep, PTL DEF Spec

\* The total is warned about once, exactly when the peak usage was at 90 percent.
THEOREM LimitsWarnOnce == Spec => []TotalWarnsOnce
  <1>1. WarnInv => TotalWarnsOnce
    BY DEF WarnInv, Pending, TotalWarnsOnce
  <1>2. QED
    BY <1>1, AccountingInit, AccountingStep, WarnInit, WarnStep, PTL DEF Spec

-----------------------------------------------------------------------------
(* The counters implement the gate that looks at the guards alive.          *)

LEMMA GateInit == Init => A!Init
  BY DEF Init, A!Init

LEMMA GateStep == Accounting /\ [Next]_vars => [A!Next]_(A!vars)
  <1> SUFFICES ASSUME Accounting, [Next]_vars PROVE [A!Next]_(A!vars)
    OBVIOUS
  <1>1. /\ A!NoRoom <=> TotalFull(state, caps)
        /\ \A ip \in Ips : A!NoRoomFor(ip) <=> IpFull(state, caps, ip)
    <2>1. A!Alive = Held /\ \A ip \in Ips : A!AliveFrom(ip) = HeldBy(ip)
      BY DEF A!Alive, A!AliveFrom, Held, HeldBy
    <2>2. /\ A!Cardinality(A!Alive) = Cardinality(Held)
          /\ \A ip \in Ips : A!Cardinality(A!AliveFrom(ip)) = Cardinality(HeldBy(ip))
      BY <2>1, Zenon DEF A!Cardinality, Cardinality
    <2>3. QED
      BY <2>2 DEF Accounting, SlotAccounting, A!NoRoom, A!NoRoomFor, TotalFull, IpFull
  <1>2. ASSUME NEW c \in Conns, NEW ip \in Ips, Acquire(c, ip)
        PROVE  A!Next
    <2>1. A!Enter(c, ip)
      BY <1>1, <1>2 DEF Calls, Acquire, Admits, A!Enter
    <2>2. QED
      BY <2>1 DEF A!Next
  <1>3. ASSUME NEW c \in Conns, NEW ip \in Ips, RejectPerIp(c, ip)
        PROVE  A!Next
    <2>1. A!Refuse(c, ip)
      BY <1>1, <1>3 DEF Calls, RejectPerIp, A!Refuse
    <2>2. QED
      BY <2>1 DEF A!Next
  <1>4. ASSUME NEW c \in Conns, NEW ip \in Ips, RejectTotal(c, ip)
        PROVE  A!Next
    <2>1. A!Refuse(c, ip)
      BY <1>1, <1>4 DEF Calls, RejectTotal, A!Refuse
    <2>2. QED
      BY <2>1 DEF A!Next
  <1>5. ASSUME NEW c \in Conns, DropGuard(c)
        PROVE  A!Next
    <2>1. A!Leave(c)
      BY <1>5 DEF DropGuard, A!Leave
    <2>2. QED
      BY <2>1 DEF A!Next
  <1>6. CASE UNCHANGED <<caps, guard, verdict>>
    BY <1>6 DEF A!vars
  <1>7. QED
    BY <1>2, <1>3, <1>4, <1>5, <1>6 DEF Next, TryAcquire, LogTotal, LogPerIp, ReturnsGuard, vars

\* ConnLimits implements the abstract gate: every answer of try_acquire is the
\* one a gate gives that counts the guards alive, whatever was refused, dropped
\* or warned about before.
THEOREM LimitsImplementsAdmission == Spec => Admission
  <1>1. Spec => []Accounting
    BY AccountingInit, AccountingStep, PTL DEF Spec
  <1>2. QED
    BY <1>1, GateInit, GateStep, PTL DEF Spec, Admission, A!Spec
=============================================================================
