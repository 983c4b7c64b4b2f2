----------------------------- MODULE UdpProxyProofs -----------------------------
(***************************************************************************)
(* Proofs about the UDP proxy of src/src/proxy/udp.rs: for any sources, any    *)
(* number of setups, any caps, timeouts and queue sizes.                       *)
(***************************************************************************)
EXTENDS UdpProxy, ConnLimitsProofs, FiniteSetTheorems, TLAPS

-----------------------------------------------------------------------------
(* Least elements, and induction by the least counterexample.                *)

\* Induction for a set of naturals.
LEMMA NatSetInduction ==
  ASSUME NEW G \in SUBSET Nat, 0 \in G, \A n \in G : n + 1 \in G
  PROVE  G = Nat
  <1> DEFINE B == Nat \ G
  <1> SUFFICES ASSUME B # {} PROVE FALSE
    OBVIOUS
  <1>1. PICK x \in B : \A y \in B : ~ (<<y, x>> \in OpToRel(<, Nat))
    <2> HIDE DEF B
    <2>1. B \subseteq Nat
      BY DEF B
    <2>2. QED
      BY <2>1, WFMin, NatLessThanWellFounded
  <1>2. x \in Nat /\ x # 0
    OBVIOUS
  <1>3. x - 1 \in B
    BY <1>2
  <1>4. <<x - 1, x>> \in OpToRel(<, Nat)
    BY <1>2 DEF OpToRel
  <1>5. QED
    BY <1>1, <1>3, <1>4

\* Min is the least element.
LEMMA MinLeast ==
  ASSUME NEW T \in SUBSET Nat, T # {}
  PROVE  Min(T) \in T /\ \A y \in T : Min(T) <= y
  <1>1. PICK x \in T : \A y \in T : ~ (<<y, x>> \in OpToRel(<, Nat))
    BY WFMin, NatLessThanWellFounded
  <1>2. ASSUME NEW y \in T PROVE x <= y
    <2>1. y < x => <<y, x>> \in OpToRel(<, Nat)
      BY DEF OpToRel
    <2>2. ~(y < x)
      BY <1>1, <2>1
    <2>3. QED
      BY <2>2
  <1>3. \E m \in T : \A y \in T : m <= y
    BY <1>2
  <1>4. QED
    BY <1>3 DEF Min

-----------------------------------------------------------------------------
(* Dropping several sessions is dropping them one by one.                     *)

\* The session the fold drops first.
Some(S) == CHOOSE x \in S : TRUE

\* it[S] is what is left of l when the sessions of S are dropped.
Unrolls(it, l, gone) ==
    it = [S \in SUBSET gone |->
            IF S = {} THEN l ELSE Released(it[S \ {Some(S)}], IpOf[src[Some(S)]])]

\* The recursion of Freed has a solution.
LEMMA FreedUnrolls ==
  ASSUME NEW l, NEW gone, IsFiniteSet(gone)
  PROVE  \E it : Unrolls(it, l, gone) /\ Freed(l, gone) = it[gone]
  <1> DEFINE Step(it) == [S \in SUBSET gone |->
                            IF S = {} THEN l ELSE Released(it[S \ {Some(S)}], IpOf[src[Some(S)]])]
             Upto(it, n) == \A S \in SUBSET gone : Cardinality(S) <= n => it[S] = Step(it)[S]
             G == {n \in Nat : \E it : Upto(Step(it), n)}
  <1>1. \A S \in SUBSET gone : IsFiniteSet(S) /\ Cardinality(S) \in Nat
                               /\ Cardinality(S) <= Cardinality(gone)
    BY FS_Subset, FS_CardinalityType
  <1>2. 0 \in G
    <2> DEFINE f == [S \in SUBSET gone |-> l]
    <2>1. ASSUME NEW S \in SUBSET gone, Cardinality(S) <= 0 PROVE S = {}
      BY <1>1, <2>1, FS_EmptySet
    <2>2. ASSUME NEW S \in SUBSET gone, Cardinality(S) <= 0 PROVE Step(f)[S] = Step(Step(f))[S]
      BY <2>1, <2>2
    <2>3. Upto(Step(f), 0)
      BY <2>2
    <2>4. QED
      BY <2>3
  <1>3. ASSUME NEW n \in G PROVE n + 1 \in G
    <2>1. PICK it : Upto(Step(it), n)
      BY <1>3
    <2> DEFINE f == Step(it)
    <2>2. ASSUME NEW S \in SUBSET gone, Cardinality(S) <= n + 1
          PROVE  Step(f)[S] = Step(Step(f))[S]
      <3>1. CASE S = {}
        BY <3>1
      <3>2. CASE S # {}
        <4> DEFINE R == S \ {Some(S)}
        <4>1. Some(S) \in S
          BY <3>2 DEF Some
        <4>2. R \in SUBSET gone /\ Cardinality(R) = Cardinality(S) - 1
          BY <1>1, <4>1, FS_RemoveElement
        <4>3. Cardinality(R) <= n
          BY <1>1, <2>2, <4>2
        <4>4. f[R] = Step(f)[R]
          BY <2>1, <4>2, <4>3
        <4>5. /\ Step(f)[S] = Released(f[R], IpOf[src[Some(S)]])
              /\ Step(Step(f))[S] = Released(Step(f)[R], IpOf[src[Some(S)]])
          BY <3>2
        <4>6. QED
          BY <4>4, <4>5
      <3>3. QED
        BY <3>1, <3>2
    <2>3. Upto(Step(f), n + 1)
      BY <2>2
    <2>4. \E g : Upto(Step(g), n + 1)
      <3> HIDE DEF Upto, Step
      <3>1. QED
        BY <2>3
    <2>5. n + 1 \in Nat
      BY <1>3
    <2>6. QED
      BY <2>4, <2>5
  <1>4. Cardinality(gone) \in G
    <2> HIDE DEF G
    <2>1. G \in SUBSET Nat
      BY DEF G
    <2>2. G = Nat
      BY <1>2, <1>3, <2>1, NatSetInduction
    <2>3. Cardinality(gone) \in Nat
      BY FS_CardinalityType
    <2>4. QED
      BY <2>2, <2>3
  <1>5. PICK it : Upto(Step(it), Cardinality(gone))
    BY <1>4
  <1>6. Step(it) = Step(Step(it))
    BY <1>1, <1>5
  <1>7. Unrolls(Step(it), l, gone)
    BY <1>6 DEF Unrolls
  <1>8. Freed(l, gone) = (CHOOSE f : Unrolls(f, l, gone))[gone]
    BY DEF Freed, FoldSet, MapThenFoldSet, Unrolls, Some
  <1>9. QED
    BY <1>7, <1>8

-----------------------------------------------------------------------------
(* The limits' counters and the sessions H that hold their slots, whose       *)
(* sources are given by sr.                                                   *)

\* The sessions of H whose source has address i.
At(H, sr, i) == {s \in H : IpOf[sr[s]] = i}

Matches(l, H, sr) ==
    /\ l.total = Cardinality(H)
    /\ DOMAIN l.perIp \subseteq Ips
    /\ \A i \in DOMAIN l.perIp : l.perIp[i] \in IpStat /\ l.perIp[i].count > 0
    /\ \A i \in Ips : Count(l, i) = Cardinality(At(H, sr, i))

\* There are finitely many sessions.
LEMMA SidsFinite ==
  ASSUME NEW H \in SUBSET Sids
  PROVE  IsFiniteSet(H) /\ Cardinality(H) \in Nat
  <1>1. IsFiniteSet(Sids)
    BY FS_Interval, UdpAssumption DEF Sids
  <1>2. IsFiniteSet(H)
    BY <1>1, FS_Subset
  <1>3. QED
    BY <1>2, FS_CardinalityType

\* Only what holds them and where it is matters.
LEMMA MatchesStays ==
  ASSUME NEW l, NEW H, NEW sr, NEW sr2, Matches(l, H, sr), \A s \in H : sr2[s] = sr[s]
  PROVE  Matches(l, H, sr2)
  <1>1. \A i \in Ips : At(H, sr2, i) = At(H, sr, i)
    BY DEF At
  <1>2. QED
    BY <1>1 DEF Matches

\* try_acquire for a session that holds nothing yet.
LEMMA MatchesAdmitted ==
  ASSUME NEW l, NEW cp, NEW H \in SUBSET Sids, NEW sr, NEW s \in Sids \ H, IpOf[sr[s]] \in Ips,
         Matches(l, H, sr)
  PROVE  Matches(Admitted(l, cp, IpOf[sr[s]]), H \cup {s}, sr)
  <1> DEFINE ip == IpOf[sr[s]]
             t == Admitted(l, cp, ip)
             K == H \cup {s}
  <1>1. /\ DOMAIN l.perIp \subseteq Ips
        /\ \A i \in DOMAIN l.perIp : l.perIp[i] \in IpStat /\ l.perIp[i].count > 0
        /\ l.total = Cardinality(H)
        /\ \A i \in Ips : Count(l, i) = Cardinality(At(H, sr, i))
    BY DEF Matches
  <1>2. /\ t.total = l.total + 1
        /\ DOMAIN t.perIp = DOMAIN l.perIp \cup {ip}
        /\ t.perIp[ip] = [count  |-> Count(l, ip) + 1,
                          warned |-> Warned(l, ip) \/ WarnsIp(l, cp, ip)]
        /\ \A i \in DOMAIN l.perIp \ {ip} : t.perIp[i] = l.perIp[i]
        /\ \A i \in Ips : Count(l, i) \in Nat
    <2> HIDE DEF ip
    <2>1. ip \in Ips
      BY DEF ip
    <2>2. QED
      BY <1>1, <2>1, AdmittedCounts
  <1> HIDE DEF t
  <1>3. ip \in Ips /\ IsFiniteSet(H) /\ Cardinality(H) \in Nat /\ s \notin H
    BY SidsFinite
  <1>4. t.total = Cardinality(K)
    <2>1. Cardinality(K) = Cardinality(H) + 1
      BY <1>3, FS_AddElement
    <2>2. QED
      BY <1>1, <1>2, <2>1
  <1>5. t.perIp[ip].count = Count(l, ip) + 1 /\ t.perIp[ip] \in IpStat /\ t.perIp[ip].count > 0
    <2>1. (Warned(l, ip) \/ WarnsIp(l, cp, ip)) \in BOOLEAN
      OBVIOUS
    <2>2. QED
      BY <1>2, <1>3, <2>1 DEF IpStat
  <1>6. \A i \in DOMAIN t.perIp : t.perIp[i] \in IpStat /\ t.perIp[i].count > 0
    BY <1>1, <1>2, <1>5
  <1>7. Count(t, ip) = Cardinality(At(K, sr, ip))
    <2>1. At(K, sr, ip) = At(H, sr, ip) \cup {s} /\ s \notin At(H, sr, ip)
      BY <1>3 DEF At
    <2>2. IsFiniteSet(At(H, sr, ip))
      <3>1. At(H, sr, ip) \in SUBSET Sids
        BY DEF At
      <3>2. QED
        BY <3>1, SidsFinite
    <2>3. Cardinality(At(K, sr, ip)) = Cardinality(At(H, sr, ip)) + 1
      BY <2>1, <2>2, FS_AddElement
    <2>4. Count(t, ip) = Count(l, ip) + 1
      BY <1>2, <1>5 DEF Count
    <2>5. QED
      BY <1>1, <1>3, <2>3, <2>4
  <1>8. ASSUME NEW i \in Ips, i # ip PROVE Count(t, i) = Cardinality(At(K, sr, i))
    <2>1. At(K, sr, i) = At(H, sr, i)
      BY <1>8 DEF At
    <2>2. Count(t, i) = Count(l, i)
      BY <1>2, <1>8 DEF Count
    <2>3. QED
      BY <1>1, <2>1, <2>2
  <1>9. QED
    BY <1>1, <1>2, <1>3, <1>4, <1>6, <1>7, <1>8 DEF Matches, t

\* Guard::drop for one session that holds a slot.
LEMMA MatchesReleased ==
  ASSUME NEW l, NEW H \in SUBSET Sids, NEW sr, NEW s \in H, IpOf[sr[s]] \in Ips,
         Matches(l, H, sr)
  PROVE  Matches(Released(l, IpOf[sr[s]]), H \ {s}, sr)
  <1> DEFINE ip == IpOf[sr[s]]
             t == Released(l, ip)
             K == H \ {s}
  <1>1. /\ DOMAIN l.perIp \subseteq Ips
        /\ \A i \in DOMAIN l.perIp : l.perIp[i] \in IpStat /\ l.perIp[i].count > 0
        /\ l.total = Cardinality(H)
        /\ \A i \in Ips : Count(l, i) = Cardinality(At(H, sr, i))
    BY DEF Matches
  <1>2. /\ ip \in Ips /\ IsFiniteSet(H) /\ Cardinality(H) \in Nat
        /\ \A i \in Ips : IsFiniteSet(At(H, sr, i)) /\ Cardinality(At(H, sr, i)) \in Nat
    <2>1. \A i \in Ips : At(H, sr, i) \in SUBSET Sids
      BY DEF At
    <2>2. QED
      BY <2>1, SidsFinite
  <1>3. Cardinality(K) = Cardinality(H) - 1 /\ Cardinality(H) # 0
    <2>1. Cardinality(K) = Cardinality(H) - 1
      BY <1>2, FS_RemoveElement
    <2>2. Cardinality(H) # 0
      BY <1>2, FS_EmptySet
    <2>3. QED
      BY <2>1, <2>2
  <1>4. /\ Cardinality(At(K, sr, ip)) = Cardinality(At(H, sr, ip)) - 1
        /\ Cardinality(At(H, sr, ip)) # 0
    <2>1. At(K, sr, ip) = At(H, sr, ip) \ {s} /\ s \in At(H, sr, ip)
      BY DEF At
    <2>2. IsFiniteSet(At(H, sr, ip))
      BY <1>2
    <2>3. Cardinality(At(K, sr, ip)) = Cardinality(At(H, sr, ip)) - 1
      <3> DEFINE A == At(H, sr, ip)
      <3>1. IsFiniteSet(A) /\ s \in A
        BY <2>1, <2>2
      <3> HIDE DEF A
      <3>2. Cardinality(A \ {s}) = Cardinality(A) - 1
        BY <3>1, FS_RemoveElement
      <3>3. QED
        BY <2>1, <3>2 DEF A
    <2>4. Cardinality(At(H, sr, ip)) # 0
      BY <2>1, <2>2, FS_EmptySet
    <2>5. QED
      BY <2>3, <2>4
  <1>5. ip \in DOMAIN l.perIp /\ Count(l, ip) # 0
    BY <1>1, <1>2, <1>4 DEF Count
  <1>6. /\ t.total = l.total - 1
        /\ Count(l, ip) = 1 => DOMAIN t.perIp = DOMAIN l.perIp \ {ip}
        /\ Count(l, ip) # 1 => /\ DOMAIN t.perIp = DOMAIN l.perIp
                               /\ t.perIp[ip] = [count  |-> Count(l, ip) - 1,
                                                 warned |-> l.perIp[ip].warned]
        /\ \A i \in DOMAIN l.perIp \ {ip} : t.perIp[i] = l.perIp[i]
        /\ Count(l, ip) \in Nat \ {0}
    <2>1. l.total \in Nat \ {0}
      BY <1>1, <1>2, <1>3
    <2> HIDE DEF ip
    <2>2. QED
      BY <1>1, <1>2, <1>5, <2>1, ReleasedCounts
  <1> HIDE DEF t
  <1>7. /\ DOMAIN t.perIp \subseteq Ips
        /\ \A i \in DOMAIN t.perIp : t.perIp[i] \in IpStat /\ t.perIp[i].count > 0
        /\ Count(t, ip) = Count(l, ip) - 1
    <2>1. CASE Count(l, ip) = 1
      BY <1>1, <1>6, <2>1 DEF Count
    <2>2. CASE Count(l, ip) # 1
      <3>1. l.perIp[ip].warned \in BOOLEAN
        BY <1>1, <1>5 DEF IpStat
      <3>2. t.perIp[ip] \in IpStat /\ t.perIp[ip].count > 0 /\ t.perIp[ip].count = Count(l, ip) - 1
        BY <1>6, <2>2, <3>1 DEF IpStat
      <3>3. QED
        BY <1>1, <1>5, <1>6, <2>2, <3>2 DEF Count
    <2>3. QED
      BY <2>1, <2>2
  <1>8. ASSUME NEW i \in Ips, i # ip PROVE Count(t, i) = Cardinality(At(K, sr, i))
    <2>1. At(K, sr, i) = At(H, sr, i)
      BY <1>8 DEF At
    <2>2. Count(t, i) = Count(l, i)
      BY <1>6, <1>8 DEF Count
    <2>3. QED
      BY <1>1, <2>1, <2>2
  <1>9. Count(t, ip) = Cardinality(At(K, sr, ip)) /\ t.total = Cardinality(K)
    BY <1>1, <1>2, <1>3, <1>4, <1>6, <1>7
  <1>10. \A i \in Ips : Count(t, i) = Cardinality(At(K, sr, i))
    BY <1>8, <1>9
  <1>11. QED
    BY <1>7, <1>9, <1>10 DEF Matches, t

\* Dropping any of the sessions leaves the counters to the others.
LEMMA MatchesFreed ==
  ASSUME NEW l, NEW H \in SUBSET Sids, NEW gone \in SUBSET H,
         \A s \in H : IpOf[src[s]] \in Ips, Matches(l, H, src)
  PROVE  Matches(Freed(l, gone), H \ gone, src)
  <1>1. IsFiniteSet(gone)
    <2>1. gone \in SUBSET Sids
      OBVIOUS
    <2>2. QED
      BY <2>1, SidsFinite
  <1>2. PICK it : Unrolls(it, l, gone) /\ Freed(l, gone) = it[gone]
    BY <1>1, FreedUnrolls
  <1> DEFINE G == {n \in Nat : \A S \in SUBSET gone :
                     Cardinality(S) = n => Matches(it[S], H \ S, src)}
  <1>3. \A S \in SUBSET gone : IsFiniteSet(S) /\ Cardinality(S) \in Nat
    BY <1>1, FS_Subset, FS_CardinalityType
  <1>4. 0 \in G
    <2>1. ASSUME NEW S \in SUBSET gone, Cardinality(S) = 0 PROVE Matches(it[S], H \ S, src)
      <3>1. S = {}
        BY <1>3, <2>1, FS_EmptySet
      <3>2. it[S] = l
        BY <1>2, <3>1 DEF Unrolls
      <3>3. H \ S = H
        BY <3>1
      <3>4. QED
        BY <3>2, <3>3
    <2>2. QED
      BY <2>1
  <1>5. ASSUME NEW n \in G PROVE n + 1 \in G
    <2>1. ASSUME NEW S \in SUBSET gone, Cardinality(S) = n + 1
          PROVE  Matches(it[S], H \ S, src)
      <3> DEFINE s == Some(S)
                 R == S \ {s}
      <3>1. S # {}
        <4>1. n \in Nat /\ n + 1 # 0
          BY <1>5
        <4>2. QED
          BY <2>1, <4>1, FS_EmptySet
      <3>2. s \in S
        BY <3>1 DEF Some
      <3>3. R \in SUBSET gone /\ Cardinality(R) = n
        BY <1>3, <2>1, <3>2, FS_RemoveElement
      <3>4. Matches(it[R], H \ R, src)
        BY <1>5, <3>3
      <3>5. it[S] = Released(it[R], IpOf[src[s]])
        BY <1>2, <3>1 DEF Unrolls
      <3> HIDE DEF s
      <3>6. H \ R \in SUBSET Sids /\ s \in H \ R /\ IpOf[src[s]] \in Ips
        BY <3>2
      <3>7. Matches(Released(it[R], IpOf[src[s]]), (H \ R) \ {s}, src)
        <4> HIDE DEF R
        <4>1. QED
          BY <3>4, <3>6, MatchesReleased
      <3>8. (H \ R) \ {s} = H \ S
        BY <3>2
      <3>9. QED
        BY <3>5, <3>7, <3>8
    <2>2. QED
      BY <1>5, <2>1
  <1>6. G = Nat
    <2> HIDE DEF G
    <2>1. G \in SUBSET Nat
      BY DEF G
    <2>2. QED
      BY <1>4, <1>5, <2>1, NatSetInduction
  <1>7. Matches(it[gone], H \ gone, src)
    BY <1>3, <1>6
  <1>8. QED
    BY <1>2, <1>7

-----------------------------------------------------------------------------
(* The inductive invariant.                                                  *)

\* The types of the tasks' variables; timers stay within their bounds.
TypeOK ==
    /\ caps \in Caps /\ idle \in Idles
    /\ map \in [Srcs -> Sids \cup {NoSession}]
    /\ started \in 0..MaxSetups
    /\ src \in [Sids -> Srcs \cup {NoSrc}]
    /\ setup \in [Sids -> {"none", "open", "opened", "insert", "clear", "end"}]
    /\ relays \in [Sids -> SUBSET Tasks]
    /\ dead \in [Sids -> BOOLEAN]
    /\ queue \in [Sids -> 0..QueueSize]
    /\ quiet \in [Sids -> Nat]
    /\ lpc \in {"select", "lookup", "admit", "drain", "exited"}
    /\ lsrc \in Srcs \cup {NoSrc} /\ (lpc \in {"lookup", "admit"} => lsrc \in Srcs)
    /\ draining \in BOOLEAN /\ stop \in BOOLEAN /\ force \in BOOLEAN /\ wakeup \in BOOLEAN
    /\ cpc \in {"calc", "wait", "retain", "ended"}
    /\ nap \in Nat /\ lag \in Nat

\* Sessions are numbered as they start; one in the map is there under its own source
\* and was put there by a setup that has only its pending mark left to clear.
Sessions ==
    /\ \A s \in Sids : setup[s] = "none" <=> s > started
    /\ \A s \in Sids : setup[s] # "none" => src[s] \in Srcs
    /\ \A x \in Srcs : map[x] # NoSession =>
                         src[map[x]] = x /\ setup[map[x]] \in {"clear", "end"}

\* The limits' state and the sessions, and the cap that admitted them.
SlotsInv ==
    /\ Matches(slots, Holders, src)
    /\ caps.total > 0 => slots.total <= caps.total

\* The counters of the metrics.
CountsInv ==
    /\ opened \in Nat /\ closed \in [{"idle_timeout", "error", "shutdown"} -> Nat]
    /\ ClosedOnce

IInv == /\ TypeOK /\ Sessions /\ OneSetupPerSource /\ SlotsInv
        /\ GaugeTracksMap /\ CountsInv /\ SleepCoversDeadlines

-----------------------------------------------------------------------------
(* Types.                                                                    *)

LEMMA Constants ==
  /\ IpOf \in [Srcs -> Ips] /\ Idles \subseteq Nat /\ CleanTick \in Nat
  /\ QueueSize \in Nat \ {0} /\ MaxSetups \in Nat /\ MaxAge \in Nat
  /\ NoSession \notin Sids
  BY UdpAssumption DEF Sids, NoSession

LEMMA TypeInit == Init => TypeOK
  <1> SUFFICES ASSUME Init PROVE TypeOK
    OBVIOUS
  <1> USE DEF Init
  <1>1. caps \in Caps /\ idle \in Idles /\ started \in 0..MaxSetups
    BY Constants
  <1>2. map \in [Srcs -> Sids \cup {NoSession}] /\ src \in [Sids -> Srcs \cup {NoSrc}]
    OBVIOUS
  <1>3. /\ setup \in [Sids -> {"none", "open", "opened", "insert", "clear", "end"}]
        /\ relays \in [Sids -> SUBSET Tasks] /\ dead \in [Sids -> BOOLEAN]
    OBVIOUS
  <1>4. queue \in [Sids -> 0..QueueSize] /\ quiet \in [Sids -> Nat]
    BY Constants
  <1>5. QED
    BY <1>1, <1>2, <1>3, <1>4 DEF TypeOK

LEMMA TypeListener == TypeOK /\ (Listener \/ Packet) => TypeOK'
  <1> SUFFICES ASSUME TypeOK, Listener \/ Packet PROVE TypeOK'
    OBVIOUS
  <1> USE DEF confVars, setupVars, sessVars, listenVars, tokenVars, cleanVars, metricVars
  <1>1. CASE ForceStop
    <2>1. dead' \in [Sids -> BOOLEAN]
      BY <1>1 DEF ForceStop, TypeOK
    <2>2. QED
      BY <1>1, <2>1 DEF ForceStop, TypeOK
  <1>2. CASE StartDraining \/ DrainSessions \/ DrainPending \/ DropFirst
    BY <1>2 DEF StartDraining, DrainSessions, DrainPending, DropFirst, TypeOK
  <1>3. CASE LookupLive
    <2>1. map[lsrc] \in Sids
      BY <1>3 DEF LookupLive, TypeOK
    <2>2. quiet' \in [Sids -> Nat]
      BY <1>3, <2>1 DEF LookupLive, TypeOK
    <2>3. queue' \in [Sids -> 0..QueueSize]
      BY <1>3, <2>1, Constants DEF LookupLive, TypeOK
    <2>4. QED
      BY <1>3, <2>2, <2>3 DEF LookupLive, TypeOK
  <1>4. CASE LookupDead
    <2>1. map' \in [Srcs -> Sids \cup {NoSession}]
      BY <1>4 DEF LookupDead, TypeOK
    <2>2. QED
      BY <1>4, <2>1 DEF LookupDead, SlowPath, TypeOK
  <1>5. CASE LookupNone
    BY <1>5 DEF LookupNone, SlowPath, TypeOK
  <1>6. CASE Admit
    <2>1. started' \in 0..MaxSetups /\ started' \in Sids
      BY <1>6, Constants DEF Admit, TypeOK, Sids
    <2>2. src' \in [Sids -> Srcs \cup {NoSrc}]
      BY <1>6, <2>1 DEF Admit, TypeOK
    <2>3. setup' \in [Sids -> {"none", "open", "opened", "insert", "clear", "end"}]
      BY <1>6, <2>1 DEF Admit, TypeOK
    <2>4. QED
      BY <1>6, <2>1, <2>2, <2>3 DEF Admit, TypeOK
  <1>7. CASE Packet
    BY <1>7 DEF Packet, Recv, TypeOK
  <1>8. QED
    BY <1>1, <1>2, <1>3, <1>4, <1>5, <1>6, <1>7 DEF Listener, Lookup

LEMMA TypeSetup == ASSUME TypeOK, NEW s \in Sids, Setup(s) PROVE TypeOK'
  <1> USE DEF confVars, setupVars, sessVars, listenVars, tokenVars, cleanVars, metricVars
  <1>1. setup' \in [Sids -> {"none", "open", "opened", "insert", "clear", "end"}]
    BY DEF Setup, OpenFails, Opens, GivesUp, QueuesFirst, Inserts, Clears, TypeOK
  <1>2. CASE OpenFails(s) \/ Clears(s)
    BY <1>1, <1>2 DEF OpenFails, Clears, TypeOK
  <1>3. CASE Opens(s)
    <2>1. relays' \in [Sids -> SUBSET Tasks] /\ quiet' \in [Sids -> Nat]
      BY <1>3 DEF Opens, TypeOK
    <2>2. QED
      BY <1>1, <1>3, <2>1 DEF Opens, TypeOK
  <1>4. CASE GivesUp(s)
    <2>1. dead' \in [Sids -> BOOLEAN]
      BY <1>4 DEF GivesUp, TypeOK
    <2>2. QED
      BY <1>1, <1>4, <2>1 DEF GivesUp, TypeOK
  <1>5. CASE QueuesFirst(s)
    <2>1. queue' \in [Sids -> 0..QueueSize]
      BY <1>5, Constants DEF QueuesFirst, TypeOK
    <2>2. QED
      BY <1>1, <1>5, <2>1 DEF QueuesFirst, TypeOK
  <1>6. CASE Inserts(s)
    <2>1. map' \in [Srcs -> Sids \cup {NoSession}]
      BY <1>6 DEF Inserts, TypeOK
    <2>2. QED
      BY <1>1, <1>6, <2>1 DEF Inserts, TypeOK
  <1>7. QED
    BY <1>2, <1>3, <1>4, <1>5, <1>6 DEF Setup

LEMMA TypeRelay ==
  ASSUME TypeOK, NEW s \in Sids, Traffic(s) \/ UpStops(s) \/ DownStops(s)
  PROVE  TypeOK'
  <1> USE DEF confVars, setupVars, sessVars, listenVars, tokenVars, cleanVars, metricVars
  <1>1. CASE Forwards(s)
    <2>1. queue[s] \in 0..QueueSize /\ queue[s] > 0
      BY <1>1 DEF Forwards, TypeOK
    <2>2. queue[s] - 1 \in 0..QueueSize
      BY <2>1, Constants
    <2>3. queue' \in [Sids -> 0..QueueSize]
      BY <1>1, <2>2 DEF Forwards, TypeOK
    <2>4. quiet' \in [Sids -> Nat]
      BY <1>1 DEF Forwards, TypeOK
    <2>5. QED
      BY <1>1, <2>3, <2>4 DEF Forwards, TypeOK
  <1>2. CASE Answers(s)
    <2>1. quiet' \in [Sids -> Nat]
      BY <1>2 DEF Answers, TypeOK
    <2>2. QED
      BY <1>2, <2>1 DEF Answers, TypeOK
  <1>3. ASSUME NEW k \in Tasks, Ends(s, k) PROVE TypeOK'
    <2>1. relays' \in [Sids -> SUBSET Tasks] /\ dead' \in [Sids -> BOOLEAN]
      BY <1>3 DEF Ends, TypeOK
    <2>2. queue' \in [Sids -> 0..QueueSize]
      BY <1>3, Constants DEF Ends, TypeOK
    <2>3. QED
      BY <1>3, <2>1, <2>2 DEF Ends, TypeOK
  <1>4. QED
    BY <1>1, <1>2, <1>3 DEF Traffic, UpFails, DownFails, UpStops, DownStops, Tasks

\* How long the cleanup task sleeps: never past a deadline, never longer than a tick.
LEMMA NapBounds ==
  ASSUME TypeOK, CalcWait
  PROVE  /\ nap' \in Nat
         /\ idle > 0 /\ nap' > 0 => \A s \in Mapped : quiet[s] + nap' <= idle
  <1> DEFINE T == IdleLeft \cup {CleanTick}
  <1>1. idle \in Nat /\ CleanTick \in Nat /\ \A s \in Mapped : quiet[s] \in Nat
    BY Constants DEF TypeOK, Mapped
  <1>2. T \in SUBSET Nat /\ T # {}
    BY <1>1 DEF IdleLeft
  <1>3. Min(T) \in T /\ \A y \in T : Min(T) <= y
    <2> HIDE DEF T
    <2>1. QED
      BY <1>2, MinLeast
  <1>4. /\ nap' = IF \E s \in Mapped : dead[s] THEN 0 ELSE IF idle > 0 THEN Min(T) ELSE CleanTick
    BY DEF CalcWait
  <1>5. nap' \in Nat
    BY <1>1, <1>2, <1>3, <1>4
  <1>6. ASSUME idle > 0, nap' > 0, NEW s \in Mapped PROVE quiet[s] + nap' <= idle
    <2> DEFINE y == IF quiet[s] >= idle THEN 0 ELSE idle - quiet[s]
    <2>1. y \in T
      BY DEF IdleLeft
    <2>2. nap' = Min(T)
      BY <1>1, <1>4, <1>6
    <2>3. nap' <= y
      BY <1>3, <2>1, <2>2
    <2>4. QED
      BY <1>1, <1>5, <1>6, <2>3
  <1>7. QED
    BY <1>5, <1>6

LEMMA TypeCleanup == TypeOK /\ (Cleanup \/ Advance) => TypeOK'
  <1> SUFFICES ASSUME TypeOK, Cleanup \/ Advance PROVE TypeOK'
    OBVIOUS
  <1> USE DEF confVars, setupVars, sessVars, listenVars, tokenVars, cleanVars, metricVars
  <1>1. CASE CalcWait
    <2>1. nap' \in Nat
      BY <1>1, NapBounds
    <2>2. QED
      BY <1>1, <2>1 DEF CalcWait, TypeOK
  <1>2. CASE CleanupStops \/ CleanupWakes \/ CleanupRises
    BY <1>2 DEF CleanupStops, CleanupWakes, CleanupRises, TypeOK
  <1>3. CASE Retain
    <2>1. dead' \in [Sids -> BOOLEAN]
      BY <1>3 DEF Retain, TypeOK
    <2>2. map' \in [Srcs -> Sids \cup {NoSession}]
      BY <1>3 DEF Retain, Without, TypeOK
    <2>3. QED
      BY <1>3, <2>1, <2>2 DEF Retain, TypeOK
  <1>4. CASE Advance
    <2>1. quiet' \in [Sids -> Nat]
      BY <1>4, Constants DEF Advance, Older, TypeOK
    <2>2. nap' \in Nat /\ lag' \in Nat
      BY <1>4 DEF Advance, TypeOK
    <2>3. QED
      BY <1>4, <2>1, <2>2 DEF Advance, TypeOK
  <1>5. QED
    BY <1>1, <1>2, <1>3, <1>4 DEF Cleanup

LEMMA TypeNext == TypeOK /\ [Next]_vars => TypeOK'
  <1> SUFFICES ASSUME TypeOK, [Next]_vars PROVE TypeOK'
    OBVIOUS
  <1> USE DEF confVars, setupVars, sessVars, listenVars, tokenVars, cleanVars, metricVars
  <1>1. CASE UNCHANGED vars
    BY <1>1 DEF vars, TypeOK
  <1>2. CASE Stop \/ ForceShutdown
    BY <1>2 DEF Stop, ForceShutdown, TypeOK
  <1>3. QED
    BY <1>1, <1>2, TypeListener, TypeSetup, TypeRelay, TypeCleanup DEF Next

-----------------------------------------------------------------------------
(* The sessions and their setups.                                            *)

\* Most steps leave the sessions, the setups and the limits alone.
Aside == UNCHANGED <<caps, idle, slots, map, pending, started, src, setup>>

\* Next, split by who moves.
LEMMA Steps ==
  ASSUME [Next]_vars
  PROVE  \/ Aside /\ (UNCHANGED metricVars \/ ForceStop)
         \/ Admit \/ LookupDead \/ Retain
         \/ \E s \in Sids : Setup(s)
  <1> USE DEF Aside, confVars, setupVars, metricVars
  <1>1. CASE UNCHANGED vars
    BY <1>1 DEF vars
  <1>2. CASE Stop \/ ForceShutdown
    BY <1>2 DEF Stop, ForceShutdown
  <1>3. CASE Listener \/ Packet
    BY <1>3 DEF Listener, Lookup, Packet, ForceStop, StartDraining, DrainSessions, DrainPending,
                LookupLive, LookupNone, DropFirst, Recv
  <1>4. ASSUME NEW s \in Sids, Traffic(s) \/ UpStops(s) \/ DownStops(s)
        PROVE  Aside /\ UNCHANGED metricVars
    BY <1>4 DEF Traffic, Forwards, Answers, UpFails, DownFails, UpStops, DownStops, Ends
  <1>5. CASE Cleanup \/ Advance
    BY <1>5 DEF Cleanup, CalcWait, CleanupStops, CleanupWakes, CleanupRises, Advance
  <1>6. QED
    BY <1>1, <1>2, <1>3, <1>4, <1>5 DEF Next

\* A new setup gets a number of its own.
LEMMA FreshSid ==
  ASSUME TypeOK, Sessions, Admit
  PROVE  /\ started' \in Sids /\ setup[started'] = "none" /\ started' \notin Mapped
         /\ lsrc \in Srcs /\ src'[started'] = lsrc /\ setup'[started'] = "open"
         /\ \A s \in Sids : s # started' => src'[s] = src[s] /\ setup'[s] = setup[s]
  <1>1. started' \in Sids /\ started' > started
    BY Constants DEF Admit, TypeOK, Sids
  <1>2. setup[started'] = "none" /\ lsrc \in Srcs
    BY <1>1 DEF Sessions, Admit, TypeOK
  <1>3. started' \notin Mapped
    BY <1>2, Constants DEF Sessions, Mapped
  <1>4. QED
    BY <1>1, <1>2, <1>3 DEF Admit, TypeOK

\* What the step of a setup does to its place.
LEMMA SetupSteps ==
  ASSUME TypeOK, Sessions, NEW s \in Sids, Setup(s)
  PROVE  /\ src' = src /\ started' = started /\ caps' = caps /\ src[s] \in Srcs
         /\ \A t \in Sids : t # s => setup'[t] = setup[t]
         /\ \/ setup[s] = "open" /\ setup'[s] \in {"opened", "clear"}
            \/ setup[s] = "opened" /\ setup'[s] \in {"insert", "clear"}
            \/ setup[s] = "insert" /\ setup'[s] = "clear"
            \/ setup[s] = "clear" /\ setup'[s] = "end"
  <1>1. setup[s] # "none"
    BY DEF Setup, OpenFails, Opens, GivesUp, QueuesFirst, Inserts, Clears
  <1>2. src[s] \in Srcs
    BY <1>1 DEF Sessions
  <1>3. QED
    BY <1>2 DEF Setup, OpenFails, Opens, GivesUp, QueuesFirst, Inserts, Clears, TypeOK, confVars

\* A session's numbers and its place fit in every step.
LEMMA SessionsNext == TypeOK /\ Sessions /\ [Next]_vars => Sessions'
  <1> SUFFICES ASSUME TypeOK, Sessions, [Next]_vars PROVE Sessions'
    OBVIOUS
  <1>1. CASE Aside
    BY <1>1 DEF Aside, Sessions
  <1>2. CASE Admit
    <2>1. \A s \in Sids : setup'[s] = "none" <=> s > started'
      BY <1>2, FreshSid DEF Sessions, Admit, TypeOK, Sids
    <2>2. \A s \in Sids : setup'[s] # "none" => src'[s] \in Srcs
      BY <1>2, FreshSid DEF Sessions
    <2>3. ASSUME NEW x \in Srcs, map'[x] # NoSession
          PROVE  src'[map'[x]] = x /\ setup'[map'[x]] \in {"clear", "end"}
      <3>1. map' = map
        BY <1>2 DEF Admit
      <3>2. map[x] \in Sids /\ map[x] # started'
        BY <1>2, <2>3, <3>1, FreshSid DEF TypeOK, Mapped
      <3>3. QED
        BY <1>2, <2>3, <3>1, <3>2, FreshSid DEF Sessions
    <2>4. QED
      BY <2>1, <2>2, <2>3 DEF Sessions
  <1>3. CASE LookupDead \/ Retain
    <2>1. src' = src /\ setup' = setup /\ started' = started
      BY <1>3 DEF LookupDead, Retain, setupVars
    <2>2. \A x \in Srcs : map'[x] \in {map[x], NoSession}
      BY <1>3 DEF LookupDead, Retain, Without, TypeOK
    <2>3. QED
      BY <2>1, <2>2 DEF Sessions
  <1>4. ASSUME NEW s \in Sids, Setup(s) PROVE Sessions'
    <2>1. /\ src' = src /\ started' = started /\ src[s] \in Srcs
          /\ \A t \in Sids : t # s => setup'[t] = setup[t]
          /\ setup[s] # "none" /\ setup'[s] # "none"
          /\ setup[s] \in {"clear", "end"} => setup'[s] \in {"clear", "end"}
      BY <1>4, SetupSteps
    <2>2. (\A x \in Srcs : map'[x] = map[x] \/ (map'[x] = s /\ x = src[s] /\ setup'[s] = "clear"))
      BY <1>4, <2>1 DEF Setup, OpenFails, Opens, GivesUp, QueuesFirst, Inserts, Clears, TypeOK
    <2>3. \A t \in Sids : setup'[t] = "none" <=> t > started'
      BY <2>1 DEF Sessions
    <2>4. \A t \in Sids : setup'[t] # "none" => src'[t] \in Srcs
      BY <2>1 DEF Sessions
    <2>5. ASSUME NEW x \in Srcs, map'[x] # NoSession
          PROVE  src'[map'[x]] = x /\ setup'[map'[x]] \in {"clear", "end"}
      BY <2>1, <2>2, <2>5 DEF Sessions, TypeOK
    <2>6. QED
      BY <2>3, <2>4, <2>5 DEF Sessions
  <1>5. QED
    BY <1>1, <1>2, <1>3, <1>4, Steps

\* A burst of first packets, and every way a setup ends.
LEMMA SetupsNext ==
  ASSUME TypeOK, Sessions, OneSetupPerSource, [Next]_vars
  PROVE  OneSetupPerSource'
  <1>1. CASE Aside
    BY <1>1 DEF Aside, OneSetupPerSource, InFlight
  <1>2. CASE LookupDead \/ Retain
    BY <1>2 DEF LookupDead, Retain, setupVars, OneSetupPerSource, InFlight
  <1>3. CASE Admit
    <2>1. InFlight' = InFlight \cup {started'}
      BY <1>3, FreshSid DEF InFlight
    <2>2. \A s \in InFlight : s \in Sids /\ s # started' /\ src'[s] = src[s]
      BY <1>3, FreshSid DEF InFlight
    <2>3. pending' = pending \cup {lsrc} /\ lsrc \notin pending /\ src'[started'] = lsrc
      BY <1>3, FreshSid DEF Admit
    <2>4. pending' = {src'[s] : s \in InFlight'}
      BY <2>1, <2>2, <2>3 DEF OneSetupPerSource
    <2>5. \A s, t \in InFlight' : src'[s] = src'[t] => s = t
      BY <2>1, <2>2, <2>3 DEF OneSetupPerSource
    <2>6. QED
      BY <2>4, <2>5 DEF OneSetupPerSource
  <1>4. ASSUME NEW s \in Sids, Clears(s) PROVE OneSetupPerSource'
    <2>1. Setup(s)
      BY <1>4 DEF Setup
    <2>2. InFlight' = InFlight \ {s} /\ s \in InFlight
      BY <1>4, <2>1, SetupSteps DEF InFlight, Clears
    <2>3. src' = src /\ pending' = pending \ {src[s]}
      BY <1>4 DEF Clears
    <2>4. pending' = {src'[t] : t \in InFlight'}
      BY <2>2, <2>3 DEF OneSetupPerSource
    <2>5. QED
      BY <2>2, <2>3, <2>4 DEF OneSetupPerSource
  <1>5. ASSUME NEW s \in Sids, Setup(s), ~Clears(s) PROVE OneSetupPerSource'
    <2>1. pending' = pending /\ setup[s] # "clear"
      BY <1>5 DEF Setup, OpenFails, Opens, GivesUp, QueuesFirst, Inserts, setupVars
    <2>2. InFlight' = InFlight /\ src' = src
      BY <1>5, <2>1, SetupSteps DEF InFlight
    <2>3. QED
      BY <2>1, <2>2 DEF OneSetupPerSource
  <1>6. QED
    BY <1>1, <1>2, <1>3, <1>4, <1>5, Steps

-----------------------------------------------------------------------------
(* The map.                                                                  *)

\* A session is in the map once, and a setup that has not inserted its session has
\* none there.
LEMMA MappedFacts ==
  ASSUME TypeOK, Sessions
  PROVE  /\ Mapped \subseteq Sids /\ Holders \subseteq Sids
         /\ \A x \in Srcs : map[x] # NoSession => map[x] \in Mapped
         /\ \A s \in Mapped : src[s] \in Srcs /\ map[src[s]] = s /\ setup[s] \in {"clear", "end"}
         /\ \A s \in Holders : src[s] \in Srcs /\ IpOf[src[s]] \in Ips
  <1>1. Mapped \subseteq Sids /\ Holders \subseteq Sids
    BY DEF Mapped, Holders
  <1>2. \A x \in Srcs : map[x] # NoSession => map[x] \in Mapped
    BY DEF TypeOK, Mapped
  <1>3. ASSUME NEW s \in Mapped
        PROVE  src[s] \in Srcs /\ map[src[s]] = s /\ setup[s] \in {"clear", "end"}
    <2>1. PICK x \in Srcs : map[x] = s
      BY DEF Mapped
    <2>2. QED
      BY <2>1, Constants DEF Mapped, Sessions
  <1>4. \A s \in Holders : src[s] \in Srcs
    BY <1>3 DEF Holders, Sessions
  <1>5. QED
    BY <1>1, <1>2, <1>3, <1>4, Constants

\* Its size counts sessions as well as sources.
LEMMA MapSize ==
  ASSUME TypeOK, Sessions
  PROVE  Size(map) = Cardinality(Mapped) /\ Size(map) \in Nat
  <1> DEFINE X == {x \in Srcs : map[x] # NoSession}
             f == [s \in Mapped |-> src[s]]
  <1>1. IsFiniteSet(Mapped) /\ Cardinality(Mapped) \in Nat
    BY MappedFacts, SidsFinite
  <1>2. f \in [Mapped -> X]
    BY MappedFacts, Constants
  <1>3. IsInjective(f)
    BY MappedFacts DEF IsInjective
  <1>4. \A x \in X : \E s \in Mapped : f[s] = x
    BY MappedFacts DEF Sessions
  <1>5. ExistsBijection(Mapped, X)
    <2> HIDE DEF f, X
    <2>1. f \in Bijection(Mapped, X)
      BY <1>2, <1>3, <1>4 DEF Bijection, Injection, Surjection
    <2>2. QED
      BY <2>1 DEF ExistsBijection
  <1>6. Cardinality(X) = Cardinality(Mapped)
    BY <1>1, <1>5, FS_Bijection
  <1>7. QED
    BY <1>1, <1>6 DEF Size

\* The same of the next state.
LEMMA MapSizeNext ==
  (TypeOK /\ Sessions)' => (Size(map) = Cardinality(Mapped) /\ Size(map) \in Nat)'
  <1>1. TypeOK /\ Sessions => Size(map) = Cardinality(Mapped) /\ Size(map) \in Nat
    BY MapSize
  <1>2. QED
    BY <1>1, PTL

\* Evicting sessions takes them, and nobody else, out of the map.
LEMMA Evicts ==
  ASSUME TypeOK, Sessions, NEW gone \in SUBSET Mapped, map' = Without(gone)
  PROVE  Mapped' = Mapped \ gone
  <1>1. \A x \in Srcs : map'[x] = IF map[x] \in gone THEN NoSession ELSE map[x]
    BY DEF Without
  <1>2. \A s \in Sids : s \in Mapped' <=> \E x \in Srcs : map'[x] = s
    BY DEF Mapped
  <1>3. ASSUME NEW s \in Mapped' PROVE s \in Mapped \ gone
    BY <1>1, <1>3, Constants DEF Mapped
  <1>4. ASSUME NEW s \in Mapped \ gone PROVE s \in Mapped'
    BY <1>1, <1>2, MappedFacts
  <1>5. QED
    BY <1>3, <1>4

\* The listener's eviction is one of them.
LEMMA LookupEvicts ==
  ASSUME TypeOK, Sessions, LookupDead
  PROVE  map[lsrc] \in Mapped /\ map' = Without({map[lsrc]})
  <1>1. lsrc \in Srcs /\ map[lsrc] # NoSession /\ map' = [map EXCEPT ![lsrc] = NoSession]
    BY DEF LookupDead, TypeOK
  <1>2. map[lsrc] \in Mapped
    BY <1>1, MappedFacts
  <1>3. \A x \in Srcs : map[x] = map[lsrc] <=> x = lsrc
    BY <1>1 DEF Sessions
  <1>4. \A x \in Srcs : map'[x] = Without({map[lsrc]})[x]
    BY <1>1, <1>3 DEF Without, TypeOK
  <1>5. map' \in [Srcs -> Sids \cup {NoSession}]
    BY <1>1 DEF TypeOK
  <1>6. QED
    BY <1>2, <1>4, <1>5 DEF Without

\* An insertion puts its session in the place of the one it replaces.
LEMMA InsertReplaces ==
  ASSUME TypeOK, Sessions, NEW s \in Sids, Inserts(s)
  PROVE  /\ s \notin Mapped /\ src[s] \in Srcs
         /\ Mapped' = (Mapped \ {map[src[s]]}) \cup {s}
  <1>1. src[s] \in Srcs /\ s \notin Mapped
    BY SetupSteps, MappedFacts DEF Setup, Inserts
  <1>2. map' = [map EXCEPT ![src[s]] = s]
    BY DEF Inserts
  <1>3. \A t \in Sids : t \in Mapped' <=> \E x \in Srcs : map'[x] = t
    BY DEF Mapped
  <1>4. s \in Mapped'
    BY <1>1, <1>2, <1>3 DEF TypeOK
  <1>5. ASSUME NEW t \in Sids, t # s PROVE t \in Mapped' <=> t \in Mapped \ {map[src[s]]}
    <2>1. ASSUME t \in Mapped' PROVE t \in Mapped \ {map[src[s]]}
      <3>1. PICK x \in Srcs : map'[x] = t
        BY <1>3, <2>1
      <3>2. x # src[s] /\ map[x] = t
        BY <1>1, <1>2, <1>5, <3>1 DEF TypeOK
      <3>3. t \in Mapped
        BY <3>2 DEF Mapped
      <3>4. map[src[s]] # t
        BY <1>1, <3>2, Constants DEF Sessions
      <3>5. QED
        BY <3>3, <3>4
    <2>2. ASSUME t \in Mapped, t # map[src[s]] PROVE t \in Mapped'
      <3>1. src[t] \in Srcs /\ map[src[t]] = t /\ src[t] # src[s]
        BY <2>2, MappedFacts
      <3>2. map'[src[t]] = t
        BY <1>2, <3>1 DEF TypeOK
      <3>3. QED
        BY <1>3, <3>1, <3>2
    <2>3. QED
      BY <2>1, <2>2
  <1>6. Mapped' \subseteq Sids /\ Mapped \subseteq Sids
    BY DEF Mapped
  <1>7. QED
    BY <1>1, <1>4, <1>5, <1>6

-----------------------------------------------------------------------------
(* The limits.                                                               *)

\* The set-ups that hold a slot and are not in the map.
SetsUp == {s \in Sids : setup[s] \in {"open", "opened", "insert"}}

LEMMA HoldersSplit == Holders = Mapped \cup SetsUp /\ Holders' = Mapped' \cup SetsUp'
  BY DEF Holders, SetsUp

\* A step that drops some of the holders, and them alone.
LEMMA SlotsShrink ==
  ASSUME TypeOK, Sessions, SlotsInv, NEW gone \in SUBSET Holders,
         slots' = Freed(slots, gone), Holders' = Holders \ gone, src' = src, caps' = caps
  PROVE  SlotsInv'
  <1>1. Matches(slots', Holders', src')
    BY MatchesFreed, MappedFacts DEF SlotsInv
  <1>2. /\ slots.total = Cardinality(Holders) /\ slots'.total = Cardinality(Holders')
    BY <1>1 DEF SlotsInv, Matches
  <1>3. /\ IsFiniteSet(Holders) /\ Cardinality(Holders) \in Nat /\ Cardinality(Holders') \in Nat
        /\ Cardinality(Holders') <= Cardinality(Holders)
    <2>1. Holders \in SUBSET Sids /\ Holders' \in SUBSET Sids /\ Holders' \in SUBSET Holders
      BY MappedFacts
    <2>2. IsFiniteSet(Holders) /\ Cardinality(Holders) \in Nat /\ Cardinality(Holders') \in Nat
      BY <2>1, SidsFinite
    <2>3. QED
      BY <2>1, <2>2, FS_Subset
  <1>4. caps.total \in Nat
    BY CapsAssumption DEF TypeOK
  <1>5. QED
    BY <1>1, <1>2, <1>3, <1>4 DEF SlotsInv

\* Nobody takes or gives back a slot.
LEMMA SlotsStay ==
  ASSUME SlotsInv, slots' = slots, Holders' = Holders, src' = src, caps' = caps
  PROVE  SlotsInv'
  BY DEF SlotsInv

\* try_acquire admits below the cap only.
LEMMA SlotsAdmit ==
  ASSUME TypeOK, Sessions, SlotsInv, Admit
  PROVE  SlotsInv'
  <1> DEFINE n == started'
  <1>1. n \in Sids /\ n \notin Holders /\ lsrc \in Srcs /\ src'[n] = lsrc
    BY FreshSid, HoldersSplit DEF SetsUp
  <1>2. Holders' = Holders \cup {n}
    <2>1. Mapped' = Mapped
      BY DEF Admit, Mapped
    <2>2. SetsUp' = SetsUp \cup {n}
      BY FreshSid DEF SetsUp
    <2>3. QED
      BY <2>1, <2>2, HoldersSplit
  <1>3. \A s \in Holders : src'[s] = src[s]
    BY <1>1, FreshSid, MappedFacts
  <1>4. Matches(slots, Holders, src')
    BY <1>3, MatchesStays DEF SlotsInv
  <1>5. Holders \in SUBSET Sids /\ n \in Sids \ Holders /\ IpOf[src'[n]] \in Ips
    BY <1>1, MappedFacts, Constants
  <1>6. Matches(Admitted(slots, caps, IpOf[src'[n]]), Holders \cup {n}, src')
    <2> HIDE DEF n
    <2>1. QED
      BY <1>4, <1>5, MatchesAdmitted
  <1>7. slots' = Admitted(slots, caps, IpOf[src'[n]]) /\ caps' = caps /\ ~TotalFull(slots, caps)
    BY <1>1 DEF Admit, confVars, Admits
  <1>8. Matches(slots', Holders', src')
    BY <1>2, <1>6, <1>7
  <1>9. caps'.total > 0 => slots'.total <= caps'.total
    <2>1. slots'.total = slots.total + 1
      BY <1>7 DEF Admitted
    <2>2. slots.total \in Nat
      BY <1>5, SidsFinite DEF SlotsInv, Matches
    <2>3. caps.total \in Nat
      BY CapsAssumption DEF TypeOK
    <2>4. QED
      BY <1>7, <2>1, <2>2, <2>3 DEF TotalFull
  <1>10. QED
    BY <1>8, <1>9 DEF SlotsInv

\* A setup keeps its slot until its session is in the map or given up.
LEMMA SlotsSetup ==
  ASSUME TypeOK, Sessions, SlotsInv, NEW s \in Sids, Setup(s)
  PROVE  SlotsInv'
  <1>1. /\ src' = src /\ caps' = caps /\ src[s] \in Srcs
        /\ \A t \in Sids : t # s => setup'[t] = setup[t]
    BY SetupSteps
  <1>2. CASE OpenFails(s) \/ GivesUp(s)
    <2>1. s \in SetsUp /\ s \notin Mapped /\ setup'[s] = "clear"
      BY <1>2, MappedFacts DEF OpenFails, GivesUp, SetsUp, TypeOK
    <2>2. Mapped' = Mapped /\ slots' = Freed(slots, {s})
      BY <1>2 DEF OpenFails, GivesUp, Mapped
    <2>3. SetsUp' = SetsUp \ {s}
      BY <1>1, <2>1 DEF SetsUp
    <2>4. Holders' = Holders \ {s} /\ {s} \in SUBSET Holders
      BY <2>1, <2>2, <2>3, HoldersSplit
    <2>5. QED
      BY <1>1, <2>2, <2>4, SlotsShrink
  <1>3. CASE Opens(s) \/ QueuesFirst(s) \/ Clears(s)
    <2>1. Mapped' = Mapped /\ slots' = slots
      BY <1>3 DEF Opens, QueuesFirst, Clears, Mapped
    <2>2. SetsUp' = SetsUp
      BY <1>1, <1>3 DEF Opens, QueuesFirst, Clears, SetsUp, TypeOK
    <2>3. QED
      BY <1>1, <2>1, <2>2, HoldersSplit, SlotsStay
  <1>4. CASE Inserts(s)
    <2> DEFINE old == map[src[s]]
               gone == {old} \ {NoSession}
    <2>1. s \in SetsUp /\ s \notin Mapped /\ setup'[s] = "clear" /\ slots' = Freed(slots, gone)
      BY <1>4, MappedFacts DEF Inserts, SetsUp, TypeOK
    <2>2. Mapped' = (Mapped \ {old}) \cup {s}
      BY <1>4, InsertReplaces
    <2>3. SetsUp' = SetsUp \ {s}
      BY <1>1, <2>1 DEF SetsUp
    <2>4. gone \subseteq Mapped /\ NoSession \notin Mapped /\ Mapped \cap SetsUp = {}
      BY <1>1, MappedFacts, Constants DEF SetsUp
    <2>5. Holders' = Holders \ gone
      BY <2>1, <2>2, <2>3, <2>4, HoldersSplit
    <2>6. gone \in SUBSET Holders
      BY <2>4, HoldersSplit
    <2> HIDE DEF gone
    <2>7. QED
      BY <1>1, <2>1, <2>5, <2>6, SlotsShrink
  <1>5. QED
    BY <1>2, <1>3, <1>4 DEF Setup

\* Slots follow their holders in every step.
LEMMA SlotsNext == ASSUME TypeOK, Sessions, SlotsInv, [Next]_vars PROVE SlotsInv'
  <1>1. CASE Aside
    BY <1>1, SlotsStay DEF Aside, Holders, Mapped
  <1>2. ASSUME NEW gone \in SUBSET Mapped, map' = Without(gone), slots' = Freed(slots, gone),
               src' = src, setup' = setup, caps' = caps
        PROVE  SlotsInv'
    <2>1. Mapped' = Mapped \ gone
      BY <1>2, Evicts
    <2>2. SetsUp' = SetsUp /\ gone \cap SetsUp = {}
      BY <1>2, MappedFacts DEF SetsUp
    <2>3. Holders' = Holders \ gone /\ gone \in SUBSET Holders
      BY <1>2, <2>1, <2>2, HoldersSplit
    <2>4. QED
      BY <1>2, <2>3, SlotsShrink
  <1>3. CASE LookupDead
    <2>1. /\ {map[lsrc]} \in SUBSET Mapped /\ map' = Without({map[lsrc]})
          /\ slots' = Freed(slots, {map[lsrc]})
          /\ src' = src /\ setup' = setup /\ caps' = caps
      BY <1>3, LookupEvicts DEF LookupDead, setupVars, confVars
    <2>2. QED
      BY <1>2, <2>1
  <1>4. CASE Retain
    <2>1. \E gone \in SUBSET Mapped :
            /\ map' = Without(gone) /\ slots' = Freed(slots, gone)
            /\ src' = src /\ setup' = setup /\ caps' = caps
      BY <1>4 DEF Retain, setupVars, confVars
    <2>2. QED
      BY <1>2, <2>1
  <1>5. QED
    BY <1>1, <1>3, <1>4, SlotsAdmit, SlotsSetup, Steps

-----------------------------------------------------------------------------
(* The metrics.                                                              *)

\* force_shutdown is never taken back.
LEMMA ForceStays == [Next]_vars => (force => force')
  <1> SUFFICES ASSUME [Next]_vars, force PROVE force'
    OBVIOUS
  <1> USE DEF tokenVars
  <1>1. CASE UNCHANGED vars
    BY <1>1 DEF vars
  <1>2. CASE Stop \/ ForceShutdown
    BY <1>2 DEF Stop, ForceShutdown
  <1>3. CASE Listener \/ Packet
    BY <1>3 DEF Listener, Lookup, Packet, ForceStop, StartDraining, DrainSessions, DrainPending,
                LookupLive, LookupDead, LookupNone, Admit, DropFirst, Recv
  <1>4. ASSUME NEW s \in Sids, Setup(s) PROVE force'
    BY <1>4 DEF Setup, OpenFails, Opens, GivesUp, QueuesFirst, Inserts, Clears
  <1>5. ASSUME NEW s \in Sids, Traffic(s) \/ UpStops(s) \/ DownStops(s) PROVE force'
    BY <1>5 DEF Traffic, Forwards, Answers, UpFails, DownFails, UpStops, DownStops, Ends
  <1>6. CASE Cleanup \/ Advance
    BY <1>6 DEF Cleanup, CalcWait, CleanupStops, CleanupWakes, CleanupRises, Retain, Advance
  <1>7. QED
    BY <1>1, <1>2, <1>3, <1>4, <1>5, <1>6 DEF Next

\* Map and gauge change together.
LEMMA GaugeNext == GaugeTracksMap /\ [Next]_vars => GaugeTracksMap'
  <1> SUFFICES ASSUME GaugeTracksMap, [Next]_vars, ~force' PROVE active' = Size(map')
    BY DEF GaugeTracksMap, Size
  <1>1. active = Size(map) /\ ~force
    BY ForceStays DEF GaugeTracksMap
  <1>2. CASE Aside /\ (UNCHANGED metricVars \/ ForceStop)
    BY <1>1, <1>2 DEF Aside, metricVars, ForceStop
  <1>3. CASE Admit
    BY <1>1, <1>3 DEF Admit, metricVars
  <1>4. CASE LookupDead \/ Retain
    BY <1>4 DEF LookupDead, Retain
  <1>5. ASSUME NEW s \in Sids, Setup(s) PROVE active' = Size(map')
    BY <1>1, <1>5 DEF Setup, OpenFails, Opens, GivesUp, QueuesFirst, Inserts, Clears, metricVars
  <1>6. QED
    BY <1>2, <1>3, <1>4, <1>5, Steps

\* What a session is counted closed under.
Reasons == {"idle_timeout", "error", "shutdown"}

\* Steps that close no session and count none.
LEMMA CountsStay ==
  ASSUME CountsInv, [Next]_vars, map' = map, opened' = opened, closed' = closed
  PROVE  CountsInv'
  <1>1. force => force'
    BY ForceStays
  <1>2. QED
    BY <1>1 DEF CountsInv, ClosedOnce, Size

\* A session is counted closed in the step that takes it out of the map.
LEMMA CountsEvict ==
  ASSUME TypeOK, Sessions, TypeOK', Sessions', CountsInv, [Next]_vars,
         NEW broken \in SUBSET Mapped, NEW stale \in SUBSET Mapped, broken \cap stale = {},
         map' = Without(broken \cup stale), opened' = opened,
         closed' = [closed EXCEPT !["error"] = @ + Cardinality(broken),
                                  !["idle_timeout"] = @ + Cardinality(stale)]
  PROVE  CountsInv'
  <1> DEFINE gone == broken \cup stale
  <1>1. Mapped' = Mapped \ gone
    BY Evicts
  <1>2. /\ Size(map) = Cardinality(Mapped) /\ Cardinality(Mapped) \in Nat
        /\ Size(map)' = Cardinality(Mapped') /\ Cardinality(Mapped') \in Nat
    <2>1. Size(map) = Cardinality(Mapped) /\ Size(map) \in Nat
      BY MapSize
    <2>2. (Size(map) = Cardinality(Mapped) /\ Size(map) \in Nat)'
      BY MapSizeNext
    <2>3. QED
      BY <2>1, <2>2
  <1>3. /\ IsFiniteSet(broken) /\ Cardinality(broken) \in Nat
        /\ IsFiniteSet(stale) /\ Cardinality(stale) \in Nat /\ IsFiniteSet(Mapped)
    <2>1. broken \in SUBSET Sids /\ stale \in SUBSET Sids /\ Mapped \in SUBSET Sids
      BY MappedFacts
    <2>2. QED
      BY <2>1, SidsFinite
  <1>4. Cardinality(gone) = Cardinality(broken) + Cardinality(stale)
    <2>1. Cardinality(gone) = Cardinality(broken) + Cardinality(stale) - Cardinality(broken \cap stale)
      BY <1>3, FS_Union
    <2>2. Cardinality(broken \cap stale) = 0
      BY FS_EmptySet
    <2>3. QED
      BY <1>3, <2>1, <2>2
  <1>5. Cardinality(Mapped') = Cardinality(Mapped) - Cardinality(gone)
    <2>1. Cardinality(Mapped \ gone) = Cardinality(Mapped) - Cardinality(Mapped \cap gone)
      BY <1>3, FS_Difference
    <2>2. Mapped \cap gone = gone
      OBVIOUS
    <2>3. QED
      BY <1>1, <2>1, <2>2
  <1>6. closed \in [Reasons -> Nat] /\ opened \in Nat
    BY DEF CountsInv, Reasons
  <1>7. /\ closed'["error"] = closed["error"] + Cardinality(broken)
        /\ closed'["idle_timeout"] = closed["idle_timeout"] + Cardinality(stale)
        /\ closed'["shutdown"] = closed["shutdown"]
    BY <1>6 DEF Reasons
  <1>8. closed' \in [Reasons -> Nat]
    BY <1>3, <1>6 DEF Reasons
  <1>9. \A r \in Reasons : closed[r] \in Nat
    BY <1>6
  <1>10. /\ closed["error"] \in Nat /\ closed["idle_timeout"] \in Nat /\ closed["shutdown"] \in Nat
    BY <1>9 DEF Reasons
  <1>11. ~force' => closed'["error"] + closed'["idle_timeout"] + closed'["shutdown"] + Size(map)' <= opened'
    <2>1. ASSUME ~force' PROVE closed["error"] + closed["idle_timeout"] + closed["shutdown"] + Size(map) <= opened
      BY <2>1, ForceStays DEF CountsInv, ClosedOnce
    <2> HIDE DEF gone
    <2>2. QED
      BY <1>2, <1>3, <1>4, <1>5, <1>6, <1>7, <1>10, <2>1
  <1>12. QED
    BY <1>6, <1>8, <1>11 DEF CountsInv, ClosedOnce, Reasons

\* An insertion adds at most one session to the map, and counts it.
LEMMA CountsInsert ==
  ASSUME TypeOK, Sessions, TypeOK', Sessions', CountsInv, [Next]_vars,
         NEW s \in Sids, Inserts(s)
  PROVE  CountsInv'
  <1>1. Mapped' \subseteq Mapped \cup {s} /\ s \notin Mapped
    BY InsertReplaces
  <1>2. /\ Size(map) = Cardinality(Mapped) /\ Cardinality(Mapped) \in Nat
        /\ Size(map)' = Cardinality(Mapped') /\ Cardinality(Mapped') \in Nat
    <2>1. Size(map) = Cardinality(Mapped) /\ Size(map) \in Nat
      BY MapSize
    <2>2. (Size(map) = Cardinality(Mapped) /\ Size(map) \in Nat)'
      BY MapSizeNext
    <2>3. QED
      BY <2>1, <2>2
  <1>3. Cardinality(Mapped') <= Cardinality(Mapped) + 1
    <2>1. IsFiniteSet(Mapped)
      <3>1. Mapped \in SUBSET Sids
        BY DEF Mapped
      <3>2. QED
        BY <3>1, SidsFinite
    <2>2. IsFiniteSet(Mapped \cup {s}) /\ Cardinality(Mapped \cup {s}) = Cardinality(Mapped) + 1
      BY <1>1, <2>1, FS_AddElement
    <2>3. Mapped' \in SUBSET (Mapped \cup {s})
      BY <1>1
    <2>4. QED
      BY <2>2, <2>3, FS_Subset
  <1>4. closed' = closed /\ opened' = opened + 1
    BY DEF Inserts
  <1>5. closed \in [Reasons -> Nat] /\ opened \in Nat
    BY DEF CountsInv, Reasons
  <1>6. /\ closed["error"] \in Nat /\ closed["idle_timeout"] \in Nat /\ closed["shutdown"] \in Nat
    BY <1>5 DEF Reasons
  <1>7. ~force' => closed'["error"] + closed'["idle_timeout"] + closed'["shutdown"] + Size(map)' <= opened'
    <2>1. ASSUME ~force' PROVE closed["error"] + closed["idle_timeout"] + closed["shutdown"] + Size(map) <= opened
      BY <2>1, ForceStays DEF CountsInv, ClosedOnce
    <2>2. QED
      BY <1>2, <1>3, <1>4, <1>5, <1>6, <2>1
  <1>8. QED
    BY <1>4, <1>5, <1>7 DEF CountsInv, ClosedOnce, Reasons

\* Every way a session ends is counted once.
LEMMA CountsNext ==
  ASSUME TypeOK, Sessions, TypeOK', Sessions', CountsInv, [Next]_vars
  PROVE  CountsInv'
  <1>1. CASE Aside /\ UNCHANGED metricVars
    BY <1>1, CountsStay DEF Aside, metricVars
  <1>2. CASE ForceStop
    <2>1. Size(map) \in Nat
      BY MapSize
    <2>2. closed' \in [Reasons -> Nat] /\ opened' \in Nat
      BY <1>2, <2>1 DEF ForceStop, CountsInv, Reasons
    <2>3. force'
      BY <1>2 DEF ForceStop, tokenVars
    <2>4. QED
      BY <2>2, <2>3 DEF CountsInv, ClosedOnce, Reasons
  <1>3. CASE Admit
    BY <1>3, CountsStay DEF Admit, metricVars
  <1>4. CASE LookupDead
    <2> DEFINE d == map[lsrc]
    <2>1. d \in Mapped /\ map' = Without({d} \cup {})
      BY <1>4, LookupEvicts
    <2>2. Cardinality({d}) = 1 /\ Cardinality({}) = 0
      BY FS_Singleton, FS_EmptySet
    <2>3. closed \in [Reasons -> Nat]
      BY DEF CountsInv, Reasons
    <2>4. closed' = [closed EXCEPT !["error"] = @ + Cardinality({d}),
                                   !["idle_timeout"] = @ + Cardinality({})]
      <3>1. closed' = [closed EXCEPT !["error"] = @ + 1]
        BY <1>4 DEF LookupDead
      <3>2. \A r \in Reasons : closed[r] \in Nat
        BY <2>3
      <3>3. closed["idle_timeout"] \in Nat
        BY <3>2 DEF Reasons
      <3>4. closed["idle_timeout"] + 0 = closed["idle_timeout"]
        BY <3>3
      <3>5. [closed EXCEPT !["error"] = @ + 1]
              = [closed EXCEPT !["error"] = @ + 1, !["idle_timeout"] = @ + 0]
        BY <2>3, <3>4 DEF Reasons
      <3>6. QED
        BY <2>2, <3>1, <3>5
    <2>5. opened' = opened
      BY <1>4 DEF LookupDead
    <2> HIDE DEF d
    <2>6. {d} \in SUBSET Mapped /\ {} \in SUBSET Mapped /\ {d} \cap {} = {}
      BY <2>1
    <2>7. QED
      BY <2>1, <2>4, <2>5, <2>6, CountsEvict
  <1>5. CASE Retain
    <2> DEFINE broken == {s \in Mapped : dead[s]}
               stale == {s \in Mapped \ broken : Stale(s)}
    <2>1. /\ map' = Without(broken \cup stale) /\ opened' = opened
          /\ closed' = [closed EXCEPT !["error"] = @ + Cardinality(broken),
                                      !["idle_timeout"] = @ + Cardinality(stale)]
      BY <1>5 DEF Retain
    <2>2. broken \in SUBSET Mapped /\ stale \in SUBSET Mapped /\ broken \cap stale = {}
      OBVIOUS
    <2> HIDE DEF broken, stale
    <2>3. QED
      BY <2>1, <2>2, CountsEvict
  <1>6. ASSUME NEW s \in Sids, Setup(s), ~Inserts(s) PROVE CountsInv'
    BY <1>6, CountsStay DEF Setup, OpenFails, Opens, GivesUp, QueuesFirst, Clears, metricVars
  <1>7. QED
    BY <1>1, <1>2, <1>3, <1>4, <1>5, <1>6, CountsInsert, Steps

-----------------------------------------------------------------------------
(* The cleanup task's sleep.                                                 *)

\* The steps of the others bring no deadline nearer: activity makes a session younger.
LEMMA SleepStays ==
  ASSUME TypeOK, SleepCoversDeadlines, UNCHANGED <<cpc, nap, idle, wakeup>>,
         Mapped' \subseteq Mapped, \A s \in Sids : quiet'[s] \in {0, quiet[s]}
  PROVE  SleepCoversDeadlines'
  <1>1. idle \in Nat /\ nap \in Nat
    BY Constants DEF TypeOK
  <1> SUFFICES ASSUME cpc = "wait", ~wakeup, idle > 0, nap > 0, NEW s \in Mapped'
               PROVE  quiet'[s] + nap <= idle
    BY DEF SleepCoversDeadlines
  <1>2. s \in Mapped /\ s \in Sids
    BY DEF Mapped
  <1>3. quiet[s] + nap <= idle /\ quiet[s] \in Nat
    BY <1>2 DEF SleepCoversDeadlines, TypeOK
  <1>4. quiet'[s] = 0 \/ quiet'[s] = quiet[s]
    BY <1>2
  <1>5. QED
    BY <1>1, <1>3, <1>4

\* While time passes the sleep shortens as the sessions age.
LEMMA SleepAdvance ==
  ASSUME TypeOK, SleepCoversDeadlines, Advance
  PROVE  SleepCoversDeadlines'
  <1>1. /\ cpc' = cpc /\ wakeup' = wakeup /\ idle' = idle
        /\ nap' = IF nap > 0 THEN nap - 1 ELSE 0
        /\ map' = map
    BY DEF Advance, confVars
  <1>2. Mapped' = Mapped
    BY <1>1 DEF Mapped
  <1>3. idle \in Nat /\ nap \in Nat /\ MaxAge \in Nat
    BY Constants DEF TypeOK
  <1> SUFFICES ASSUME cpc = "wait", ~wakeup, idle > 0, nap' > 0, NEW s \in Mapped
               PROVE  quiet'[s] + nap' <= idle
    BY <1>1, <1>2 DEF SleepCoversDeadlines
  <1>4. nap > 0 /\ nap' = nap - 1
    BY <1>1, <1>3
  <1>5. s \in Sids /\ quiet[s] + nap <= idle /\ quiet[s] \in Nat
    BY <1>4 DEF SleepCoversDeadlines, TypeOK, Mapped
  <1>6. quiet'[s] = Older(quiet[s]) \/ quiet'[s] = quiet[s]
    BY <1>5 DEF Advance
  <1>7. quiet'[s] \in Nat /\ quiet'[s] <= quiet[s] + 1
    BY <1>3, <1>5, <1>6 DEF Older
  <1>8. QED
    BY <1>3, <1>4, <1>5, <1>7

\* Every step that moves a deadline moves it away.
LEMMA SleepNext ==
  ASSUME TypeOK, Sessions, SleepCoversDeadlines, [Next]_vars
  PROVE  SleepCoversDeadlines'
  <1> USE DEF confVars, setupVars, sessVars, cleanVars
  <1> DEFINE Same == UNCHANGED <<cpc, nap, idle, wakeup>>
             Younger == \A s \in Sids : quiet'[s] \in {0, quiet[s]}
  <1>1. map' = map => Mapped' = Mapped
    BY DEF Mapped
  <1>2. CASE UNCHANGED vars \/ Stop \/ ForceShutdown \/ Packet
    <2>1. Same /\ quiet' = quiet /\ map' = map
      BY <1>2 DEF vars, Stop, ForceShutdown, Packet, Recv
    <2>2. QED
      BY <1>1, <2>1, SleepStays
  <1>3. CASE Listener
    <2>1. Same
      BY <1>3 DEF Listener, Lookup, ForceStop, StartDraining, DrainSessions, DrainPending,
                  LookupLive, LookupDead, LookupNone, Admit, DropFirst
    <2>2. Younger
      BY <1>3 DEF Listener, Lookup, ForceStop, StartDraining, DrainSessions, DrainPending,
                  LookupLive, LookupDead, LookupNone, Admit, DropFirst, TypeOK
    <2>3. CASE LookupDead
      <3>1. {map[lsrc]} \in SUBSET Mapped /\ map' = Without({map[lsrc]})
        BY <2>3, LookupEvicts
      <3>2. Mapped' = Mapped \ {map[lsrc]}
        BY <3>1, Evicts
      <3>3. QED
        BY <2>1, <2>2, <3>2, SleepStays
    <2>4. CASE ~LookupDead
      <3>1. map' = map
        BY <1>3, <2>4 DEF Listener, Lookup, ForceStop, StartDraining, DrainSessions, DrainPending,
                          LookupLive, LookupNone, Admit, DropFirst
      <3>2. QED
        BY <1>1, <2>1, <2>2, <3>1, SleepStays
    <2>5. QED
      BY <2>3, <2>4
  <1>4. ASSUME NEW s \in Sids, Setup(s) PROVE SleepCoversDeadlines'
    <2>1. CASE Inserts(s)
      BY <2>1 DEF Inserts, SleepCoversDeadlines
    <2>2. CASE ~Inserts(s)
      <3>1. Same /\ map' = map
        BY <1>4, <2>2 DEF Setup, OpenFails, Opens, GivesUp, QueuesFirst, Clears
      <3>2. Younger
        BY <1>4, <2>2 DEF Setup, OpenFails, Opens, GivesUp, QueuesFirst, Clears, TypeOK
      <3>3. QED
        BY <1>1, <3>1, <3>2, SleepStays
    <2>3. QED
      BY <2>1, <2>2
  <1>5. ASSUME NEW s \in Sids, Traffic(s) \/ UpStops(s) \/ DownStops(s)
        PROVE  SleepCoversDeadlines'
    <2>1. Same /\ map' = map
      BY <1>5 DEF Traffic, Forwards, Answers, UpFails, DownFails, UpStops, DownStops, Ends
    <2>2. Younger
      BY <1>5 DEF Traffic, Forwards, Answers, UpFails, DownFails, UpStops, DownStops, Ends, TypeOK
    <2>3. QED
      BY <1>1, <2>1, <2>2, SleepStays
  <1>6. CASE CalcWait
    <2>1. map' = map /\ quiet' = quiet /\ idle' = idle
      BY <1>6 DEF CalcWait
    <2>2. idle > 0 /\ nap' > 0 => \A s \in Mapped : quiet[s] + nap' <= idle
      BY <1>6, NapBounds
    <2>3. QED
      BY <1>1, <2>1, <2>2 DEF SleepCoversDeadlines
  <1>7. CASE CleanupStops \/ CleanupWakes \/ CleanupRises \/ Retain
    <2>1. cpc' # "wait"
      BY <1>7 DEF CleanupStops, CleanupWakes, CleanupRises, Retain
    <2>2. QED
      BY <2>1 DEF SleepCoversDeadlines
  <1>8. QED
    BY <1>2, <1>3, <1>4, <1>5, <1>6, <1>7, SleepAdvance DEF Next, Cleanup

-----------------------------------------------------------------------------
(* The invariant.                                                            *)

LEMMA InvInit == Init => IInv
  <1> SUFFICES ASSUME Init PROVE IInv
    OBVIOUS
  <1>1. TypeOK
    BY TypeInit
  <1>2. Sessions
    BY Constants DEF Init, Sessions, Sids
  <1>3. Mapped = {} /\ InFlight = {} /\ Holders = {}
    <2>1. \A x \in Srcs : map[x] = NoSession
      BY DEF Init
    <2>2. \A s \in Sids : setup[s] = "none"
      BY DEF Init
    <2>3. Mapped = {}
      BY <2>1, Constants DEF Mapped
    <2>4. InFlight = {}
      BY <2>2 DEF InFlight
    <2>5. QED
      BY <2>2, <2>3, <2>4 DEF Holders
  <1>4. OneSetupPerSource
    BY <1>3 DEF Init, OneSetupPerSource
  <1>5. SlotsInv
    <2>1. slots.total = 0 /\ DOMAIN slots.perIp = {}
      BY DEF Init, EmptyState
    <2>2. Cardinality({}) = 0
      BY FS_EmptySet
    <2>3. \A i \in Ips : Count(slots, i) = 0 /\ At(Holders, src, i) = {}
      BY <1>3, <2>1 DEF Count, At
    <2>4. Matches(slots, Holders, src)
      BY <1>3, <2>1, <2>2, <2>3 DEF Matches
    <2>5. caps.total \in Nat
      BY <1>1, CapsAssumption DEF TypeOK
    <2>6. QED
      BY <2>1, <2>4, <2>5 DEF SlotsInv
  <1>6. Size(map) = 0
    <2>1. Size(map) = Cardinality(Mapped)
      BY <1>1, <1>2, MapSize
    <2>2. QED
      BY <1>3, <2>1, FS_EmptySet
  <1>7. GaugeTracksMap
    BY <1>6 DEF Init, GaugeTracksMap
  <1>8. CountsInv
    BY <1>6 DEF Init, CountsInv, ClosedOnce
  <1>9. SleepCoversDeadlines
    BY DEF Init, SleepCoversDeadlines
  <1>10. QED
    BY <1>1, <1>2, <1>4, <1>5, <1>7, <1>8, <1>9 DEF IInv

LEMMA InvNext == IInv /\ [Next]_vars => IInv'
  <1> SUFFICES ASSUME IInv, [Next]_vars PROVE IInv'
    OBVIOUS
  <1>1. /\ TypeOK /\ Sessions /\ OneSetupPerSource /\ SlotsInv
        /\ GaugeTracksMap /\ CountsInv /\ SleepCoversDeadlines
    BY DEF IInv
  <1>2. TypeOK' /\ Sessions'
    BY <1>1, TypeNext, SessionsNext
  <1>3. OneSetupPerSource' /\ SlotsInv'
    BY <1>1, SetupsNext, SlotsNext
  <1>4. GaugeTracksMap' /\ CountsInv'
    BY <1>1, <1>2, GaugeNext, CountsNext
  <1>5. SleepCoversDeadlines'
    BY <1>1, SleepNext
  <1>6. QED
    BY <1>2, <1>3, <1>4, <1>5 DEF IInv

\* The listener, the setups, the cleanup task and the relays keep the map, the pending
\* set, the limits, the metrics and the cleanup task's sleep of src/src/proxy/udp.rs
\* consistent with each other, whatever the order of their steps.
THEOREM Inductive == Spec => []IInv
  BY InvInit, InvNext, PTL DEF Spec

\* The pending set is exactly the sources with a setup task, one task each: a burst of
\* first packets opens one session, and PendingGuard::drop frees the source on every
\* way out of the setup.
THEOREM OneSetup == Spec => []OneSetupPerSource
  <1>1. IInv => OneSetupPerSource
    BY DEF IInv
  <1>2. QED
    BY <1>1, Inductive, PTL

\* The guards that the sessions and the setups hold, and nothing else, are what the
\* limits count, in total and for each address: no way to drop a session (evicted by the
\* listener or the cleanup task, replaced by insert, given up by its setup) leaks a slot
\* or gives one back twice, and so max_connections bounds the sessions.
THEOREM SlotsBalance == Spec => []SlotsAreSessions
  <1>1. IInv => SlotsAreSessions
    <2> SUFFICES ASSUME IInv PROVE SlotsAreSessions
      OBVIOUS
    <2>1. Matches(slots, Holders, src) /\ (caps.total > 0 => slots.total <= caps.total)
      BY DEF IInv, SlotsInv
    <2>2. QED
      BY <2>1 DEF SlotsAreSessions, Matches, At
  <1>2. QED
    BY <1>1, Inductive, PTL

\* Before a forced shutdown the active gauge is the size of the map after every insert
\* and every eviction.
THEOREM Gauge == Spec => []GaugeTracksMap
  <1>1. IInv => GaugeTracksMap
    BY DEF IInv
  <1>2. QED
    BY <1>1, Inductive, PTL

\* Before a forced shutdown each session is counted in connections_closed at most once,
\* by whoever takes it out of the map, although the listener and the cleanup task both
\* look for dead sessions.
THEOREM CountedOnce == Spec => []ClosedOnce
  <1>1. IInv => ClosedOnce
    BY DEF IInv, CountsInv
  <1>2. QED
    BY <1>1, Inductive, PTL

\* The cleanup task never sleeps past the idle deadline of a session in the map, also not
\* of one inserted while it sleeps: that insert left a permit in cleanup_wakeup.
THEOREM SleepInTime == Spec => []SleepCoversDeadlines
  <1>1. IInv => SleepCoversDeadlines
    BY DEF IInv
  <1>2. QED
    BY <1>1, Inductive, PTL

\* Only retain takes the cleanup task from the clock to the next calculation.
LEMMA OnlyRetain == ASSUME Next, cpc = "retain", cpc' = "calc" PROVE Retain
  <1> USE DEF cleanVars
  <1>1. CASE Stop \/ ForceShutdown
    BY <1>1 DEF Stop, ForceShutdown
  <1>2. CASE Listener \/ Packet
    BY <1>2 DEF Listener, Lookup, Packet, ForceStop, StartDraining, DrainSessions, DrainPending,
                LookupLive, LookupDead, LookupNone, Admit, DropFirst, Recv
  <1>3. ASSUME NEW s \in Sids, Setup(s) PROVE cpc' = cpc
    BY <1>3 DEF Setup, OpenFails, Opens, GivesUp, QueuesFirst, Inserts, Clears
  <1>4. ASSUME NEW s \in Sids, Traffic(s) \/ UpStops(s) \/ DownStops(s) PROVE cpc' = cpc
    BY <1>4 DEF Traffic, Forwards, Answers, UpFails, DownFails, UpStops, DownStops, Ends
  <1>5. CASE Cleanup \/ Advance
    BY <1>5 DEF Cleanup, CalcWait, CleanupStops, CleanupWakes, CleanupRises, Advance
  <1>6. QED
    BY <1>1, <1>2, <1>3, <1>4, <1>5 DEF Next

\* The cleanup task evicts no live session that saw traffic within the idle timeout: the
\* clock it compares with is never ahead of the one that stamps the activity.
THEOREM EvictsSilent == Spec => EvictsOnlySilent
  <1>1. IInv /\ [Next]_vars => [cpc = "retain" /\ cpc' = "calc" =>
           \A s \in Mapped \ Mapped' : dead[s] \/ (idle > 0 /\ quiet[s] >= idle)]_vars
    <2> SUFFICES ASSUME IInv, Next, cpc = "retain", cpc' = "calc",
                        NEW s \in Mapped \ Mapped', ~dead[s]
                 PROVE  idle > 0 /\ quiet[s] >= idle
      BY Zenon
    <2> DEFINE broken == {t \in Mapped : dead[t]}
               stale == {t \in Mapped \ broken : Stale(t)}
    <2>1. map' = Without(broken \cup stale)
      BY OnlyRetain DEF Retain
    <2>2. Stale(s)
      <3>1. PICK x \in Srcs : map[x] = s
        BY DEF Mapped
      <3>2. map'[x] # s
        BY <3>1 DEF Mapped
      <3>3. s \in broken \cup stale
        BY <2>1, <3>1, <3>2 DEF Without
      <3>4. QED
        BY <3>3
    <2>3. idle \in Nat /\ quiet[s] \in Nat /\ lag \in Nat
      BY Constants DEF IInv, TypeOK, Mapped
    <2>4. QED
      BY <2>2, <2>3 DEF Stale
  <1>2. QED
    BY <1>1, Inductive, PTL DEF Spec, EvictsOnlySilent
=============================================================================
