--------------------------------- MODULE Limits ---------------------------------
(***************************************************************************)
(* src/src/limits.rs as a state machine: connections ask for a slot with    *)
(* try_acquire, hold a Guard, and give the slot back when the Guard drops.  *)
(* Under the mutex try_acquire decides, counts and sets the warned flags;    *)
(* it unlocks before it logs the warnings and returns the Guard.  Guards     *)
(* drop in any task, so also in between, but a ConnLimits has one caller,    *)
(* the proxy's accept or listener loop: no second call starts meanwhile.     *)
(***************************************************************************)
EXTENDS ConnLimits, FiniteSets

CONSTANTS Conns,   \* connections that may ask for a slot
          NoIp,    \* "holds no guard"
          NoConn   \* "no call has yet to return"

ASSUME NoIpAssumption == NoIp \notin Ips
ASSUME NoConnAssumption == NoConn \notin Conns

VARIABLES caps,      \* ConnLimits.max_total and max_per_ip, fixed by new()
          state,     \* ConnLimits.state
          guard,     \* guard[c]: src_ip of the slot c holds, or NoIp
          verdict,   \* what try_acquire decided last
          caller,    \* the connection admitted whose try_acquire has unlocked
                     \* and not returned, or NoConn
          toLog,     \* total_should_warn, per_ip_should_warn of that call
          peak,      \* history: the largest total so far
          warnings   \* history: warn! lines about the total and per address

vars == <<caps, state, guard, verdict, caller, toLog, peak, warnings>>

Held == {c \in Conns : guard[c] # NoIp}
HeldBy(ip) == {c \in Conns : guard[c] = ip}

Layers == {"total", "per_ip"}

\* Warnings are counted up to two: the properties tell none, one and more apart.
WarnBound == 2
Bump(n) == IF n < WarnBound THEN n + 1 ELSE n

Init == /\ caps \in Caps
        /\ state = EmptyState
        /\ guard = [c \in Conns |-> NoIp]
        /\ verdict = "none" /\ caller = NoConn /\ toLog = {}
        /\ peak = 0
        /\ warnings = [total |-> 0, ip |-> [ip \in Ips |-> 0]]

Calls(c) == caller = NoConn /\ guard[c] = NoIp

\* The warnings an admission from ip makes due.
Due(ip) == (IF WarnsTotal(state, caps) THEN {"total"} ELSE {})
             \cup (IF WarnsIp(state, caps, ip) THEN {"per_ip"} ELSE {})

\* What try_acquire does under the mutex when it admits.
Acquire(c, ip) ==
    /\ Calls(c)
    /\ Admits(state, caps, ip)
    /\ state' = Admitted(state, caps, ip)
    /\ guard' = [guard EXCEPT ![c] = ip]
    /\ verdict' = "admitted"
    /\ caller' = c
    /\ toLog' = Due(ip)
    /\ peak' = IF state'.total > peak THEN state'.total ELSE peak
    /\ UNCHANGED <<caps, warnings>>

LogTotal ==
    /\ "total" \in toLog
    /\ toLog' = toLog \ {"total"}
    /\ warnings' = [warnings EXCEPT !.total = Bump(@)]
    /\ UNCHANGED <<caps, state, guard, verdict, caller, peak>>

LogPerIp ==
    /\ toLog = {"per_ip"}
    /\ toLog' = {}
    /\ warnings' = [warnings EXCEPT !.ip[guard[caller]] = Bump(@)]
    /\ UNCHANGED <<caps, state, guard, verdict, caller, peak>>

\* A slip: the Guard is handed out before the warnings are logged.
MutReturnsGuard ==
    /\ caller # NoConn
    /\ caller' = NoConn
    /\ UNCHANGED <<caps, state, guard, verdict, toLog, peak, warnings>>

ReturnsGuard ==
    /\ caller # NoConn /\ toLog = {}
    /\ caller' = NoConn
    /\ UNCHANGED <<caps, state, guard, verdict, toLog, peak, warnings>>

RejectTotal(c, ip) ==
    /\ Calls(c)
    /\ TotalFull(state, caps)
    /\ verdict' = "total"
    /\ UNCHANGED <<caps, state, guard, caller, toLog, peak, warnings>>

\* A slip: the cap per address looked at before the total.
MutPerIpFirst(c, ip) ==
    /\ Calls(c)
    /\ IpFull(state, caps, ip)
    /\ verdict' = "per_ip"
    /\ UNCHANGED <<caps, state, guard, caller, toLog, peak, warnings>>

RejectPerIp(c, ip) ==
    /\ Calls(c)
    /\ ~TotalFull(state, caps)
    /\ IpFull(state, caps, ip)
    /\ verdict' = "per_ip"
    /\ UNCHANGED <<caps, state, guard, caller, toLog, peak, warnings>>

\* The Guard that drops has been returned; another call may be about to log.
DropGuard(c) ==
    /\ guard[c] # NoIp /\ c # caller
    /\ state' = Released(state, guard[c])
    /\ guard' = [guard EXCEPT ![c] = NoIp]
    /\ UNCHANGED <<caps, verdict, caller, toLog, peak, warnings>>

TryAcquire == \/ \E c \in Conns, ip \in Ips :
                   Acquire(c, ip) \/ RejectTotal(c, ip) \/ RejectPerIp(c, ip)
              \/ LogTotal \/ LogPerIp \/ ReturnsGuard

Next == TryAcquire \/ \E c \in Conns : DropGuard(c)

Spec == Init /\ [][Next]_vars

-----------------------------------------------------------------------------
(* Type invariant.  An address is in the map only while it holds a slot, and *)
(* only a call that has not returned has something to log, about a slot that *)
(* is still held.                                                           *)
TypeOK ==
    /\ caps \in Caps
    /\ guard \in [Conns -> Ips \cup {NoIp}]
    /\ verdict \in {"none", "admitted", "total", "per_ip"}
    /\ caller \in Conns \cup {NoConn} /\ toLog \subseteq Layers
    /\ caller = NoConn => toLog = {}
    /\ caller # NoConn => guard[caller] # NoIp
    /\ peak \in Nat
    /\ warnings \in [total : 0..WarnBound, ip : [Ips -> 0..WarnBound]]
    /\ state.total \in Nat
    /\ state.totalWarned \in BOOLEAN
    /\ DOMAIN state = {"total", "perIp", "totalWarned"}
    /\ DOMAIN state.perIp \subseteq Ips
    /\ \A ip \in DOMAIN state.perIp : /\ state.perIp[ip] \in IpStat
                                      /\ state.perIp[ip].count > 0

\* try_acquire and Guard::drop keep two counters that nothing else checks:
\* after any interleaving of admissions, refusals and drops the total equals
\* the number of guards alive, and the map lists exactly the addresses that
\* hold guards, each with their number.
SlotAccounting ==
    /\ state.total = Cardinality(Held)
    /\ DOMAIN state.perIp = {ip \in Ips : HeldBy(ip) # {}}
    /\ \A ip \in Ips : Count(state, ip) = Cardinality(HeldBy(ip))

\* The point of limits.rs: the guards really alive (not the counters) never
\* exceed the total cap, nor those of one address the cap per address; a cap
\* of 0 disables its layer.
CapsRespected ==
    /\ caps.total > 0 => Cardinality(Held) <= caps.total
    /\ caps.perIp > 0 => \A ip \in Ips : Cardinality(HeldBy(ip)) <= caps.perIp

\* "So operators see trouble coming before connections are dropped": whenever
\* try_acquire can be called and would refuse, the warning for the layer that
\* refuses has been logged.  It is logged after the unlock, when another thread
\* may drop guards or find the layer full, but before the one caller can ask again.
WarnedBeforeRejecting ==
    caller = NoConn =>
      /\ TotalFull(state, caps) => warnings.total > 0
      /\ \A ip \in Ips : IpFull(state, caps, ip) => warnings.ip[ip] > 0

\* The warning about the total is logged once in the life of the proxy, and
\* exactly when the usage has ever been at 90 percent of the cap, whatever it
\* fell back to and rose to since; the call that got there may be about to log it.
TotalWarnsOnce ==
    warnings.total + (IF "total" \in toLog THEN 1 ELSE 0) =
        IF caps.total > 0 /\ Reached90pct(peak, caps.total) THEN 1 ELSE 0

-----------------------------------------------------------------------------
(* The counters implement the promise: a caller sees no difference between  *)
(* ConnLimits and a gate that looks at the guards alive.                    *)
A == INSTANCE Admission
Admission == A!Spec
=============================================================================
