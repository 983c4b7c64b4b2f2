-------------------------------- MODULE UdpProxy --------------------------------
(***************************************************************************)
(* The UDP proxy of src/src/proxy/udp.rs: a map from source addresses to     *)
(* sessions, behind a mutex, shared by                                       *)
(*   - the listener, which looks a packet's source up, admits new sources    *)
(*     and drains or stops,                                                  *)
(*   - one setup task per session being opened,                              *)
(*   - the cleanup task, which evicts dead and idle sessions,                *)
(*   - two relay tasks per session, which die with its cancel token.         *)
(* A step of the model is what one task does between two points where        *)
(* another can interfere: a critical section of the map's mutex, of the      *)
(* pending mutex, or an await.                                               *)
(*                                                                         *)
(* Sessions are numbered in the order in which their setups start.  Packets  *)
(* are counted while they wait in a session's channel.  Time is kept as the  *)
(* ages of last_activity and what is left of the cleanup task's sleep.       *)
(***************************************************************************)
EXTENDS ConnLimits, FiniteSets, FiniteSetsExt

CONSTANTS Srcs,        \* source socket addresses
          IpOf,        \* the IP address of each
          Idles,       \* configured idle timeouts, 0 = none
          CleanTick,   \* cap of the cleanup task's sleep (5 s)
          QueueSize,   \* capacity of a session's channel (256)
          MaxSetups,   \* bound: later first packets are lost
          MaxLag,      \* bound: how long the cleanup task waits for the map's lock
          MaxAge       \* bound: ages stop here, where every idle timeout is over

Sids == 1..MaxSetups
NoSession == 0
NoSrc == "nobody"
Tasks == {"up", "down"}

ASSUME UdpAssumption ==
    /\ IpOf \in [Srcs -> Ips]
    /\ Idles \subseteq Nat /\ CleanTick \in Nat
    /\ QueueSize \in Nat \ {0} /\ MaxSetups \in Nat
    /\ MaxLag \in Nat /\ MaxAge \in Nat /\ \A i \in Idles : i + MaxLag <= MaxAge

VARIABLES
    caps, idle,   \* the configuration, fixed
    slots,        \* ConnLimits.state
    map,          \* sessions: the session of a source, or NoSession
    pending,      \* sources with a setup task in flight
    started,      \* setups started so far
    src,          \* src[s]: the source of session s
    setup,        \* setup[s]: where the setup task of s is
    relays,       \* relays[s]: the relay tasks of s that run
    dead,         \* dead[s]: the cancel token of s is cancelled
    queue,        \* queue[s]: packets in the channel of s
    quiet,        \* quiet[s]: now - last_activity of s
    lpc,          \* the listener: "select", "lookup", "admit", "drain" or "exited"
    lsrc,         \* the source of the packet in its hands, or NoSrc
    draining,     \* its flag
    stop, force,  \* the tokens stop_accepting and force_shutdown
    cpc,          \* the cleanup task: "calc", "wait", "retain" or "ended"
    nap,          \* what is left of its sleep
    lag,          \* how long ago it read the clock
    wakeup,       \* the permit of cleanup_wakeup
    opened,       \* connections_total
    closed,       \* connections_closed, by reason
    active        \* the active gauge

confVars == <<caps, idle>>
setupVars == <<pending, started, src, setup>>
sessVars == <<relays, dead, queue, quiet>>
listenVars == <<lpc, lsrc, draining>>
tokenVars == <<stop, force>>
cleanVars == <<cpc, nap, lag>>
metricVars == <<opened, closed, active>>
vars == <<confVars, slots, map, setupVars, sessVars, listenVars, tokenVars,
          cleanVars, wakeup, metricVars>>

Mapped == {s \in Sids : \E x \in Srcs : map[x] = s}
InFlight == {s \in Sids : setup[s] \in {"open", "opened", "insert", "clear"}}
Size(m) == Cardinality({x \in Srcs : m[x] # NoSession})

\* Who holds a slot of the limits: a setup until its session is in the map, or
\* dropped, then the map's entry.
Holders == Mapped \cup {s \in Sids : setup[s] \in {"open", "opened", "insert"}}

\* Dropping sessions gives their slots back.
Freed(l, gone) == FoldSet(LAMBDA s, acc : Released(acc, IpOf[src[s]]), l, gone)

\* Taking sessions out of the map.
Without(gone) == [x \in Srcs |-> IF map[x] \in gone THEN NoSession ELSE map[x]]

\* The map lives as long as a task that can reach it; a session's sender lives with
\* the map's entry or with its setup task.
MapAlive == lpc # "exited" \/ cpc # "ended" \/ InFlight # {}
SenderAlive(s) == setup[s] \in {"opened", "insert"} \/ (s \in Mapped /\ MapAlive)

Init ==
    /\ caps \in Caps /\ idle \in Idles
    /\ slots = EmptyState
    /\ map = [x \in Srcs |-> NoSession]
    /\ pending = {} /\ started = 0
    /\ src = [s \in Sids |-> NoSrc]
    /\ setup = [s \in Sids |-> "none"]
    /\ relays = [s \in Sids |-> {}]
    /\ dead = [s \in Sids |-> FALSE]
    /\ queue = [s \in Sids |-> 0]
    /\ quiet = [s \in Sids |-> 0]
    /\ lpc = "select" /\ lsrc = NoSrc /\ draining = FALSE
    /\ stop = FALSE /\ force = FALSE
    /\ cpc = "calc" /\ nap = 0 /\ lag = 0 /\ wakeup = FALSE
    /\ opened = 0 /\ active = 0
    /\ closed = [r \in {"idle_timeout", "error", "shutdown"} |-> 0]

-----------------------------------------------------------------------------
(* The tokens, cancelled by main.rs: first stop_accepting, then, when the     *)
(* grace period is over, force_shutdown.                                      *)

Stop ==
    /\ ~stop
    /\ stop' = TRUE
    /\ UNCHANGED <<confVars, slots, map, setupVars, sessVars, listenVars, force,
                   cleanVars, wakeup, metricVars>>

ForceShutdown ==
    /\ stop /\ ~force
    /\ force' = TRUE
    /\ UNCHANGED <<confVars, slots, map, setupVars, sessVars, listenVars, stop,
                   cleanVars, wakeup, metricVars>>

-----------------------------------------------------------------------------
(* The listener.  Its select is biased: force_shutdown, then stop_accepting,  *)
(* then the drain tick, then a packet.  A receive error changes nothing.      *)

\* A slip: the listener waits for its sessions to go.
MutForceStop ==
    /\ lpc = "select" /\ force /\ Size(map) = 0
    /\ lpc' = "exited"
    /\ UNCHANGED <<confVars, slots, map, setupVars, sessVars, lsrc, draining,
                   tokenVars, cleanVars, wakeup, metricVars>>

\* All sessions are cancelled and counted; the map keeps its entries.
ForceStop ==
    /\ lpc = "select" /\ force
    /\ dead' = [s \in Sids |-> dead[s] \/ s \in Mapped]
    /\ closed' = [closed EXCEPT !["shutdown"] = @ + Size(map)]
    /\ active' = 0
    /\ lpc' = "exited"
    /\ UNCHANGED <<confVars, slots, map, setupVars, relays, queue, quiet, lsrc, draining,
                   tokenVars, cleanVars, wakeup, opened>>

StartDraining ==
    /\ lpc = "select" /\ ~force /\ stop /\ ~draining
    /\ draining' = TRUE
    /\ UNCHANGED <<confVars, slots, map, setupVars, sessVars, lpc, lsrc, tokenVars,
                   cleanVars, wakeup, metricVars>>

\* The drain tick looks at the sessions under one lock and at the pending setups
\* under another.  A map that is not empty decides the check.
DrainSessions ==
    /\ lpc = "select" /\ ~force /\ draining
    /\ Size(map) = 0
    /\ lpc' = "drain"
    /\ UNCHANGED <<confVars, slots, map, setupVars, sessVars, lsrc, draining, tokenVars,
                   cleanVars, wakeup, metricVars>>

\* A slip: the tick never finds the setups done once there was one.
MutDrainPending ==
    /\ lpc = "drain"
    /\ lpc' = IF pending = {} /\ started = 0 THEN "exited" ELSE "select"
    /\ UNCHANGED <<confVars, slots, map, setupVars, sessVars, lsrc, draining, tokenVars,
                   cleanVars, wakeup, metricVars>>

DrainPending ==
    /\ lpc = "drain"
    /\ lpc' = IF pending = {} THEN "exited" ELSE "select"
    /\ UNCHANGED <<confVars, slots, map, setupVars, sessVars, lsrc, draining, tokenVars,
                   cleanVars, wakeup, metricVars>>

\* A packet arrives; the listener waits for the map's lock.
Recv(x) ==
    /\ lpc = "select" /\ ~force /\ (stop => draining)
    /\ lsrc' = x
    /\ lpc' = "lookup"
    /\ UNCHANGED <<confVars, slots, map, setupVars, sessVars, draining, tokenVars,
                   cleanVars, wakeup, metricVars>>

\* Its source has a live session: it counts as activity and goes into the channel,
\* or is dropped when the channel is full.
LookupLive ==
    /\ lpc = "lookup"
    /\ map[lsrc] # NoSession /\ ~dead[map[lsrc]]
    /\ quiet' = [quiet EXCEPT ![map[lsrc]] = 0]
    /\ queue' = [queue EXCEPT ![map[lsrc]] = IF @ < QueueSize THEN @ + 1 ELSE @]
    /\ lpc' = "select" /\ lsrc' = NoSrc
    /\ UNCHANGED <<confVars, slots, map, setupVars, relays, dead, draining, tokenVars,
                   cleanVars, wakeup, metricVars>>

\* A first packet: while draining it is dropped.
SlowPath ==
    /\ lpc' = IF draining THEN "select" ELSE "admit"
    /\ lsrc' = IF draining THEN NoSrc ELSE lsrc
    /\ UNCHANGED draining

\* A slip: the session is evicted without its slot being given back.
MutLookupDead ==
    /\ lpc = "lookup"
    /\ map[lsrc] # NoSession /\ dead[map[lsrc]]
    /\ map' = [map EXCEPT ![lsrc] = NoSession]
    /\ closed' = [closed EXCEPT !["error"] = @ + 1]
    /\ active' = Size(map')
    /\ SlowPath
    /\ UNCHANGED <<confVars, slots, setupVars, sessVars, tokenVars,
                   cleanVars, wakeup, opened>>

\* Its source has a dead session: that is evicted and the packet goes on as a first.
LookupDead ==
    /\ lpc = "lookup"
    /\ map[lsrc] # NoSession /\ dead[map[lsrc]]
    /\ map' = [map EXCEPT ![lsrc] = NoSession]
    /\ slots' = Freed(slots, {map[lsrc]})
    /\ closed' = [closed EXCEPT !["error"] = @ + 1]
    /\ active' = Size(map')
    /\ SlowPath
    /\ UNCHANGED <<confVars, setupVars, sessVars, tokenVars,
                   cleanVars, wakeup, opened>>

LookupNone ==
    /\ lpc = "lookup"
    /\ map[lsrc] = NoSession
    /\ SlowPath
    /\ UNCHANGED <<confVars, slots, map, setupVars, sessVars, tokenVars,
                   cleanVars, wakeup, metricVars>>

\* A setup for the source is in flight, or the limits refuse (and the fresh pending
\* mark drops again): the packet is dropped.
DropFirst ==
    /\ lpc = "admit"
    /\ lsrc \in pending \/ ~Admits(slots, caps, IpOf[lsrc]) \/ started = MaxSetups
    /\ lpc' = "select" /\ lsrc' = NoSrc
    /\ UNCHANGED <<confVars, slots, map, setupVars, sessVars, draining, tokenVars,
                   cleanVars, wakeup, metricVars>>

\* A slip: a burst of first packets starts a setup each.
MutAdmit ==
    /\ lpc = "admit"
    /\ started < MaxSetups /\ Admits(slots, caps, IpOf[lsrc])
    /\ slots' = Admitted(slots, caps, IpOf[lsrc])
    /\ pending' = pending \cup {lsrc}
    /\ started' = started + 1
    /\ src' = [src EXCEPT ![started'] = lsrc]
    /\ setup' = [setup EXCEPT ![started'] = "open"]
    /\ lpc' = "select" /\ lsrc' = NoSrc
    /\ UNCHANGED <<confVars, map, sessVars, draining, tokenVars,
                   cleanVars, wakeup, metricVars>>

\* The source is marked pending, takes a slot, and its setup task starts.
Admit ==
    /\ lpc = "admit"
    /\ lsrc \notin pending /\ Admits(slots, caps, IpOf[lsrc]) /\ started < MaxSetups
    /\ slots' = Admitted(slots, caps, IpOf[lsrc])
    /\ pending' = pending \cup {lsrc}
    /\ started' = started + 1
    /\ src' = [src EXCEPT ![started'] = lsrc]
    /\ setup' = [setup EXCEPT ![started'] = "open"]
    /\ lpc' = "select" /\ lsrc' = NoSrc
    /\ UNCHANGED <<confVars, map, sessVars, draining, tokenVars,
                   cleanVars, wakeup, metricVars>>

-----------------------------------------------------------------------------
(* A setup task.                                                            *)

\* open_session fails: shutdown, timeout, DNS, bind or connect.  The slot drops
\* with the arguments of the call, the pending mark when the task ends.
OpenFails(s) ==
    /\ setup[s] = "open"
    /\ slots' = Freed(slots, {s})
    /\ setup' = [setup EXCEPT ![s] = "clear"]
    /\ UNCHANGED <<confVars, map, pending, started, src, sessVars, listenVars, tokenVars,
                   cleanVars, wakeup, metricVars>>

\* open_session succeeds and has started both relay tasks.  Its select is biased
\* towards force_shutdown.
Opens(s) ==
    /\ setup[s] = "open" /\ ~force
    /\ setup' = [setup EXCEPT ![s] = "opened"]
    /\ relays' = [relays EXCEPT ![s] = Tasks]
    /\ quiet' = [quiet EXCEPT ![s] = 0]
    /\ UNCHANGED <<confVars, slots, map, pending, started, src, dead, queue, listenVars,
                   tokenVars, cleanVars, wakeup, metricVars>>

\* force_shutdown came meanwhile: the session is cancelled and dropped.
GivesUp(s) ==
    /\ setup[s] = "opened" /\ force
    /\ dead' = [dead EXCEPT ![s] = TRUE]
    /\ slots' = Freed(slots, {s})
    /\ setup' = [setup EXCEPT ![s] = "clear"]
    /\ UNCHANGED <<confVars, map, pending, started, src, relays, queue, quiet, listenVars,
                   tokenVars, cleanVars, wakeup, metricVars>>

\* The first packet goes into the channel, which is closed once the up task ended;
\* the task waits for the map's lock.
QueuesFirst(s) ==
    /\ setup[s] = "opened" /\ ~force
    /\ queue' = [queue EXCEPT ![s] = IF "up" \in relays[s] THEN 1 ELSE 0]
    /\ setup' = [setup EXCEPT ![s] = "insert"]
    /\ UNCHANGED <<confVars, slots, map, pending, started, src, relays, dead, quiet, listenVars,
                   tokenVars, cleanVars, wakeup, metricVars>>

\* A slip: the cleanup task is not woken.
MutInserts(s) ==
    /\ setup[s] = "insert"
    /\ map' = [map EXCEPT ![src[s]] = s]
    /\ slots' = Freed(slots, {map[src[s]]} \ {NoSession})
    /\ opened' = opened + 1
    /\ active' = Size(map')
    /\ setup' = [setup EXCEPT ![s] = "clear"]
    /\ UNCHANGED <<confVars, pending, started, src, sessVars, listenVars, tokenVars,
                   cleanVars, wakeup, closed>>

\* A slip: the gauge is counted up instead of set.
MutInsertsGauge(s) ==
    /\ setup[s] = "insert"
    /\ map' = [map EXCEPT ![src[s]] = s]
    /\ slots' = Freed(slots, {map[src[s]]} \ {NoSession})
    /\ opened' = opened + 1
    /\ active' = active + 1
    /\ wakeup' = TRUE
    /\ setup' = [setup EXCEPT ![s] = "clear"]
    /\ UNCHANGED <<confVars, pending, started, src, sessVars, listenVars, tokenVars,
                   cleanVars, closed>>

\* insert drops a session it replaces.
Inserts(s) ==
    /\ setup[s] = "insert"
    /\ map' = [map EXCEPT ![src[s]] = s]
    /\ slots' = Freed(slots, {map[src[s]]} \ {NoSession})
    /\ opened' = opened + 1
    /\ active' = Size(map')
    /\ wakeup' = TRUE
    /\ setup' = [setup EXCEPT ![s] = "clear"]
    /\ UNCHANGED <<confVars, pending, started, src, sessVars, listenVars, tokenVars,
                   cleanVars, closed>>

\* PendingGuard::drop, the last thing the task does.
Clears(s) ==
    /\ setup[s] = "clear"
    /\ pending' = pending \ {src[s]}
    /\ setup' = [setup EXCEPT ![s] = "end"]
    /\ UNCHANGED <<confVars, slots, map, started, src, sessVars, listenVars, tokenVars,
                   cleanVars, wakeup, metricVars>>

-----------------------------------------------------------------------------
(* The relay tasks of a session.  Either one ends the session by cancelling  *)
(* its token; their selects are biased towards the two tokens.                *)

Running(s, k) == k \in relays[s] /\ ~force /\ ~dead[s]

Forwards(s) ==
    /\ Running(s, "up") /\ queue[s] > 0
    /\ queue' = [queue EXCEPT ![s] = @ - 1]
    /\ quiet' = [quiet EXCEPT ![s] = 0]
    /\ UNCHANGED <<confVars, slots, map, setupVars, relays, dead, listenVars, tokenVars,
                   cleanVars, wakeup, metricVars>>

Answers(s) ==
    /\ Running(s, "down")
    /\ quiet' = [quiet EXCEPT ![s] = 0]
    /\ UNCHANGED <<confVars, slots, map, setupVars, relays, dead, queue, listenVars, tokenVars,
                   cleanVars, wakeup, metricVars>>

\* The end of a task; the channel goes with its receiver, the up task.
Ends(s, k) ==
    /\ relays' = [relays EXCEPT ![s] = @ \ {k}]
    /\ dead' = [dead EXCEPT ![s] = TRUE]
    /\ queue' = IF k = "up" THEN [queue EXCEPT ![s] = 0] ELSE queue
    /\ UNCHANGED <<confVars, slots, map, setupVars, quiet, listenVars, tokenVars,
                   cleanVars, wakeup, metricVars>>

\* Sending a packet up fails; receiving or passing on an answer fails.
UpFails(s) == Running(s, "up") /\ queue[s] > 0 /\ Ends(s, "up")
DownFails(s) == Running(s, "down") /\ Ends(s, "down")

\* A slip: the up task does not notice that its channel closed.
MutUpStops(s) ==
    /\ "up" \in relays[s]
    /\ force \/ dead[s]
    /\ Ends(s, "up")

UpStops(s) ==
    /\ "up" \in relays[s]
    /\ force \/ dead[s] \/ (~SenderAlive(s) /\ queue[s] = 0)
    /\ Ends(s, "up")

DownStops(s) ==
    /\ "down" \in relays[s]
    /\ force \/ dead[s]
    /\ Ends(s, "down")

-----------------------------------------------------------------------------
(* The cleanup task.                                                        *)

\* How long until the first session of the map is idle for too long.
IdleLeft == {IF quiet[s] >= idle THEN 0 ELSE idle - quiet[s] : s \in Mapped}

CalcWait ==
    /\ cpc = "calc"
    /\ nap' = IF \E s \in Mapped : dead[s] THEN 0
              ELSE IF idle > 0 THEN Min(IdleLeft \cup {CleanTick})
              ELSE CleanTick
    /\ cpc' = "wait"
    /\ UNCHANGED <<confVars, slots, map, setupVars, sessVars, listenVars, tokenVars,
                   lag, wakeup, metricVars>>

\* cleanup_shutdown is a child of force_shutdown, cancelled too when the listener
\* returns.
CleanupStops ==
    /\ cpc = "wait" /\ (force \/ lpc = "exited")
    /\ cpc' = "ended"
    /\ UNCHANGED <<confVars, slots, map, setupVars, sessVars, listenVars, tokenVars,
                   nap, lag, wakeup, metricVars>>

CleanupWakes ==
    /\ cpc = "wait" /\ wakeup
    /\ wakeup' = FALSE
    /\ cpc' = "calc"
    /\ UNCHANGED <<confVars, slots, map, setupVars, sessVars, listenVars, tokenVars,
                   nap, lag, metricVars>>

\* The sleep is over: the clock is read before the lock is taken.
CleanupRises ==
    /\ cpc = "wait" /\ nap = 0
    /\ cpc' = "retain"
    /\ lag' = 0
    /\ UNCHANGED <<confVars, slots, map, setupVars, sessVars, listenVars, tokenVars,
                   nap, wakeup, metricVars>>

\* A slip: the ages are subtracted the wrong way round.
MutStale(s) == idle > 0 /\ lag - quiet[s] >= idle

\* A slip: the subtraction wraps for a session that saw traffic since the clock was read.
MutStaleWraps(s) == idle > 0 /\ (quiet[s] < lag \/ quiet[s] - lag >= idle)

Stale(s) == idle > 0 /\ quiet[s] - lag >= idle

\* A slip: dead sessions are left to the listener.
MutRetain ==
    LET gone == {s \in Mapped : ~dead[s] /\ Stale(s)}
    IN  /\ cpc = "retain"
        /\ map' = Without(gone)
        /\ slots' = Freed(slots, gone)
        /\ dead' = [s \in Sids |-> dead[s] \/ s \in gone]
        /\ closed' = [closed EXCEPT !["idle_timeout"] = @ + Cardinality(gone)]
        /\ active' = Size(map')
        /\ cpc' = "calc"
        /\ lag' = 0
        /\ UNCHANGED <<confVars, setupVars, relays, queue, quiet, listenVars, tokenVars,
                       nap, wakeup, opened>>

\* A slip: an idle session is evicted but its tasks are not cancelled, and it is
\* counted twice.
MutRetainTwice ==
    LET gone == {s \in Mapped : dead[s] \/ Stale(s)}
    IN  /\ cpc = "retain"
        /\ map' = Without(gone)
        /\ slots' = Freed(slots, gone)
        /\ dead' = [s \in Sids |-> dead[s] \/ s \in gone]
        /\ closed' = [closed EXCEPT !["error"] = @ + Cardinality(gone),
                                    !["idle_timeout"] = @ + Cardinality(gone)]
        /\ active' = Size(map')
        /\ cpc' = "calc"
        /\ lag' = 0
        /\ UNCHANGED <<confVars, setupVars, relays, queue, quiet, listenVars, tokenVars,
                       nap, wakeup, opened>>

Retain ==
    LET broken == {s \in Mapped : dead[s]}
        stale  == {s \in Mapped \ broken : Stale(s)}
        gone   == broken \cup stale
    IN  /\ cpc = "retain"
        /\ map' = Without(gone)
        /\ slots' = Freed(slots, gone)
        /\ dead' = [s \in Sids |-> dead[s] \/ s \in stale]
        /\ closed' = [closed EXCEPT !["error"] = @ + Cardinality(broken),
                                    !["idle_timeout"] = @ + Cardinality(stale)]
        /\ active' = Size(map')
        /\ cpc' = "calc"
        /\ lag' = 0
        /\ UNCHANGED <<confVars, setupVars, relays, queue, quiet, listenVars, tokenVars,
                       nap, wakeup, opened>>

-----------------------------------------------------------------------------
(* Time.  Ages matter only with an idle timeout and only for sessions in use. *)

Older(age) == IF age < MaxAge THEN age + 1 ELSE MaxAge

Advance ==
    /\ cpc # "ended" /\ (cpc = "retain" => lag < MaxLag)
    /\ quiet' = [s \in Sids |-> IF idle > 0 /\ s \in Holders THEN Older(quiet[s]) ELSE quiet[s]]
    /\ nap' = IF nap > 0 THEN nap - 1 ELSE 0
    /\ lag' = IF cpc = "retain" /\ idle > 0 THEN lag + 1 ELSE 0
    /\ <<quiet, nap, lag>>' # <<quiet, nap, lag>>
    /\ UNCHANGED <<confVars, slots, map, setupVars, relays, dead, queue, listenVars, tokenVars,
                   cpc, wakeup, metricVars>>

-----------------------------------------------------------------------------
Lookup == LookupLive \/ LookupDead \/ LookupNone \/ Admit \/ DropFirst
Listener == ForceStop \/ StartDraining \/ DrainSessions \/ DrainPending \/ Lookup
Packet == \E x \in Srcs : Recv(x)
Setup(s) == \/ OpenFails(s) \/ Opens(s) \/ GivesUp(s) \/ QueuesFirst(s)
            \/ Inserts(s) \/ Clears(s)
Traffic(s) == Forwards(s) \/ Answers(s) \/ UpFails(s) \/ DownFails(s)
Cleanup == CalcWait \/ CleanupStops \/ CleanupWakes \/ CleanupRises \/ Retain

Next == \/ Stop \/ ForceShutdown
        \/ Listener \/ Packet
        \/ \E s \in Sids : Setup(s) \/ Traffic(s) \/ UpStops(s) \/ DownStops(s)
        \/ Cleanup
        \/ Advance

Spec == Init /\ [][Next]_vars

\* Every runnable task is polled and time passes.  A due drain tick wins over
\* packets, and the cleanup task's select picks at random among its ready branches:
\* neither can lose for ever, hence strong fairness.  Nothing is assumed of the
\* sources, the target or main.rs.
FairSpec ==
    /\ Spec
    /\ WF_vars(ForceStop \/ StartDraining \/ DrainPending \/ Lookup)
    /\ SF_vars(DrainSessions)
    /\ \A s \in Sids : /\ WF_vars(Setup(s))
                       /\ WF_vars(Forwards(s) \/ UpFails(s) \/ UpStops(s))
                       /\ WF_vars(DownStops(s))
    /\ WF_vars(Cleanup) /\ SF_vars(CleanupStops)
    /\ WF_vars(Advance)

-----------------------------------------------------------------------------
\* The pending set is exactly the sources of the setup tasks that run, and no two
\* of them are for the same source: a burst of first packets costs one setup, and
\* no exit path of a setup leaves its source locked out.
OneSetupPerSource ==
    /\ pending = {src[s] : s \in InFlight}
    /\ \A s, t \in InFlight : src[s] = src[t] => s = t

\* The limits' counters are the sessions of the map and the setups on their way to
\* it, through failures, evictions, replacements and shutdown; and so the caps
\* bound the sessions that really exist.
SlotsAreSessions ==
    /\ slots.total = Cardinality(Holders)
    /\ \A i \in Ips : Count(slots, i) = Cardinality({s \in Holders : IpOf[src[s]] = i})
    /\ caps.total > 0 => Cardinality(Holders) <= caps.total

\* Until a forced shutdown the active gauge, which four places of the code set, is
\* the size of the map.
GaugeTracksMap == ~force => active = Size(map)

\* Until a forced shutdown no session is counted closed twice, nor while it is
\* still in the map.
ClosedOnce ==
    ~force => closed["error"] + closed["idle_timeout"] + closed["shutdown"] + Size(map) <= opened

\* The cleanup task never sleeps past the idle deadline of a session in the map,
\* although sessions come while it sleeps: then its wakeup permit is there.
SleepCoversDeadlines ==
    cpc = "wait" /\ ~wakeup /\ idle > 0 /\ nap > 0 =>
      \A s \in Mapped : quiet[s] + nap <= idle

\* The clock is read before the lock is waited for, and the traffic of a session does
\* not take the lock: still the cleanup task takes no session out of the map that is
\* alive and saw traffic within the idle timeout, up to the moment it holds the lock.
EvictsOnlySilent ==
    [][cpc = "retain" /\ cpc' = "calc" =>
         \A s \in Mapped \ Mapped' : dead[s] \/ (idle > 0 /\ quiet[s] >= idle)]_vars

-----------------------------------------------------------------------------
\* A dead session leaves the map even if its source sends nothing more ("without
\* this, a dead session would pin its limits slot forever").
DeadEvicted == \A s \in Sids : s \in Mapped /\ dead[s] ~> s \notin Mapped \/ lpc = "exited"

\* With an idle timeout a session sees traffic again or is evicted.
IdleEvicted ==
    \A s \in Sids : idle > 0 /\ s \in Mapped /\ quiet[s] > 0 ~>
                    s \notin Mapped \/ quiet[s] = 0 \/ lpc = "exited"

\* A forced shutdown ends the listener, the cleanup task, every setup and every
\* relay task, also of sessions set up while it happened.
ForceEndsAll ==
    force ~> /\ lpc = "exited" /\ cpc = "ended" /\ InFlight = {}
             /\ \A s \in Sids : relays[s] = {}

\* A draining listener without sessions and setups returns, whatever packets
\* keep coming.
DrainEnds == draining /\ Size(map) = 0 /\ pending = {} ~> lpc = "exited"

\* A session that was dropped (evicted, replaced, or given up with the map) does
\* not leave relay tasks behind.
NoOrphanRelays ==
    \A s \in Sids : setup[s] = "end" /\ ~SenderAlive(s) ~> relays[s] = {}

-----------------------------------------------------------------------------
(* What the repository says and the code does not keep.                     *)

\* udp.rs:333: "No session for this source can be in the map" when a setup inserts.
InsertFindsNone == \A s \in Sids : setup[s] = "insert" => map[src[s]] = NoSession

\* udp.rs:24 and 211: a drained listener has no sessions left.
DrainedMeansEmpty == lpc = "exited" /\ ~force => Size(map) = 0
=============================================================================
