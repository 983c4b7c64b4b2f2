------------------------------- MODULE Supervisor -------------------------------
(***************************************************************************)
(* The process: main and drain of src/src/main.rs over the configuration they *)
(* load (module Config) and the tasks they spawn for it, one per proxy        *)
(* (proxy::run_graceful) and one for the metrics exporter.  main waits for a  *)
(* signal or the first task to end, cancels stop_accepting, drains the tasks  *)
(* within the grace period, cancels force_shutdown, drains again, and turns   *)
(* what it saw into an exit code.                                             *)
(*                                                                         *)
(* A proxy's task binds or fails to.  A TCP proxy then does what the module   *)
(* ProxyTask describes; TcpServer is shown to implement that (ServesAsTask).  *)
(* A UDP proxy keeps its socket while it drains, and decides that it is       *)
(* drained in two looks, between which a set-up may end (UdpProxy, whose run   *)
(* of DrainedMeansEmpty shows it return with a session).  The exporter's task *)
(* returns as soon as it is told to stop (MetricsExporter).                   *)
(***************************************************************************)
EXTENDS Config, FiniteSets

CONSTANTS MaxProxies,  \* the largest number of entries in a file
          Resolve      \* Resolve[host]: the address a host name stands for

ASSUME SupervisorAssumption ==
    /\ MaxProxies \in Nat \ {0}
    /\ \A in \in Inputs : Len(in.file.proxies) <= MaxProxies

VARIABLES
    mpc,          \* main: "start", "select", "grace", "expired", "force" or "exited"
    code,         \* the exit code, or NoCode
    anyError,     \* any_error
    joined,       \* the tasks that left the JoinSet
    left,         \* what is left of the grace period
    stop, force,  \* the tokens
    task,         \* task[t]: "none", "bind", "serve", "drain", "drained", or its result
    busy          \* the proxies with a session

mainVars == <<mpc, code, anyError, joined, left, stop, force>>
vars == <<configVars, mainVars, task, busy>>

\* The exporter's task is 0, the proxies' are counted from 1.
Exporter == 0
Proxies == 1..Len(entries)
Tasks == Proxies \cup (IF metrics = None THEN {} ELSE {Exporter})
Tcp == {t \in Proxies : entries[t].protocol = "tcp"}
Udp == {t \in Proxies : entries[t].protocol = "udp"}

NoCode == -1
Finished == {t \in Tasks : task[t] \in {"ok", "err", "panic"}}
Failed == {t \in Tasks : task[t] \in {"err", "panic"}}

Init ==
    /\ ConfigInit
    /\ mpc = "start" /\ code = NoCode /\ anyError = FALSE
    /\ joined = {} /\ left = 0
    /\ stop = FALSE /\ force = FALSE
    /\ task = [t \in 0..MaxProxies |-> "none"] /\ busy = {}

-----------------------------------------------------------------------------
(* main.                                                                    *)

\* The command line and the file are looked at before anything else.
Loads == mpc = "start" /\ Load /\ UNCHANGED <<mainVars, task, busy>>

\* clap exits with 2, a configuration that is refused with 1.
LoadFails ==
    /\ mpc = "start" /\ loading \in {"usage", "refused"}
    /\ mpc' = "exited" /\ code' = IF loading = "usage" THEN 2 ELSE 1
    /\ UNCHANGED <<configVars, anyError, joined, left, stop, force, task, busy>>

SpawnAll ==
    /\ mpc = "start" /\ loading = "ready"
    /\ mpc' = "select"
    /\ task' = [t \in 0..MaxProxies |-> IF t \in Tasks THEN "bind" ELSE "none"]
    /\ UNCHANGED <<configVars, code, anyError, joined, left, stop, force, busy>>

\* A slip: a failure before any signal is only logged.
MutEndsEarly(t) ==
    /\ mpc = "select" /\ t \in Finished \ joined
    /\ joined' = joined \cup {t}
    /\ UNCHANGED <<configVars, mpc, code, anyError, left, stop, force, task, busy>>

\* A task ends before any signal: the process ends with it, and so do its peers.
EndsEarly(t) ==
    /\ mpc = "select" /\ t \in Finished
    /\ mpc' = "exited"
    /\ code' = IF t \in Failed THEN 1 ELSE 0
    /\ joined' = joined \cup {t}
    /\ UNCHANGED <<configVars, anyError, left, stop, force, task, busy>>

\* SIGINT or SIGTERM.
Signal ==
    /\ mpc = "select"
    /\ mpc' = "grace"
    /\ stop' = TRUE
    /\ left' = grace
    /\ UNCHANGED <<configVars, code, anyError, joined, force, task, busy>>

\* drain: join_next.
DrainJoins(t) ==
    /\ mpc \in {"grace", "force"} /\ t \in Finished \ joined
    /\ joined' = joined \cup {t}
    /\ anyError' = (anyError \/ t \in Failed)
    /\ UNCHANGED <<configVars, mpc, code, left, stop, force, task, busy>>

\* A slip: what the first drain saw is lost with it.
MutTimesOut ==
    /\ mpc = "grace" /\ left = 0
    /\ Finished \subseteq joined /\ joined # Tasks
    /\ mpc' = "expired" /\ anyError' = FALSE
    /\ UNCHANGED <<configVars, code, joined, left, stop, force, task, busy>>

\* timeout polls the drain and then the clock: some task has not been seen to end.
\* The drain is dropped, any_error is not.
TimesOut ==
    /\ mpc = "grace" /\ left = 0
    /\ Finished \subseteq joined /\ joined # Tasks
    /\ mpc' = "expired"
    /\ UNCHANGED <<configVars, code, anyError, joined, left, stop, force, task, busy>>

\* A slip: force_shutdown is not cancelled.
MutForces ==
    /\ mpc = "expired"
    /\ mpc' = "force"
    /\ UNCHANGED <<configVars, code, anyError, joined, left, stop, force, task, busy>>

\* The last task may have ended meanwhile.
Forces ==
    /\ mpc = "expired"
    /\ mpc' = "force" /\ force' = TRUE
    /\ UNCHANGED <<configVars, code, anyError, joined, left, stop, task, busy>>

\* A slip: nothing is awaited after the forced shutdown.
MutByeAtOnce ==
    /\ mpc = "force" \/ (mpc = "grace" /\ joined = Tasks)
    /\ mpc' = "exited"
    /\ code' = IF anyError THEN 1 ELSE 0
    /\ UNCHANGED <<configVars, anyError, joined, left, stop, force, task, busy>>

\* The JoinSet is empty.
Bye ==
    /\ mpc \in {"grace", "force"} /\ joined = Tasks
    /\ mpc' = "exited"
    /\ code' = IF anyError THEN 1 ELSE 0
    /\ UNCHANGED <<configVars, anyError, joined, left, stop, force, task, busy>>

Advance ==
    /\ mpc = "grace" /\ left > 0
    /\ left' = left - 1
    /\ UNCHANGED <<configVars, mpc, code, anyError, joined, stop, force, task, busy>>

-----------------------------------------------------------------------------
(* The tasks, while the process lives.                                       *)

Running == {"bind", "serve", "drain", "drained"}
Alive(t) == mpc \in {"select", "grace", "expired", "force"} /\ task[t] \in Running

Becomes(t, state) ==
    /\ task' = [task EXCEPT ![t] = state]
    /\ UNCHANGED <<configVars, mainVars>>

\* metrics_listen is taken as it is, without expand_listen or validate.
Address(t) == IF t = Exporter THEN metrics ELSE entries[t].listen
Transport(t) == IF t = Exporter THEN "tcp" ELSE entries[t].protocol

\* Two sockets of one protocol and port, of which one is for every address or both
\* are for the same.  Port 0 is any free port.
Collide(t, u) ==
    LET hosts == {Resolve[Address(t).host], Resolve[Address(u).host]}
    IN  /\ Transport(t) = Transport(u)
        /\ Address(t).port.value = Address(u).port.value /\ Address(t).port.value # 0
        /\ Cardinality(hosts) = 1 \/ "0.0.0.0" \in hosts

\* A TCP proxy that drains has closed its socket.
HasSocket(u) == task[u] = "serve" \/ (u \in Udp /\ task[u] \in {"drain", "drained"})

Bindable(t) ==
    /\ check_host_port(Address(t))
    /\ \A u \in Tasks \ {t} : HasSocket(u) => ~Collide(t, u)

\* A bind that could succeed may still fail: another process has the port.
Binds(t) == /\ Alive(t) /\ task[t] = "bind" /\ Bindable(t)
            /\ Becomes(t, "serve") /\ UNCHANGED busy
BindFails(t) == Alive(t) /\ task[t] = "bind" /\ Becomes(t, "err") /\ UNCHANGED busy

\* The connections of a TCP proxy are in the JoinSet of its task and are aborted with
\* it; a UDP session has tasks of its own.
Panics(t) == Alive(t) /\ Becomes(t, "panic") /\ busy' = busy \ ({t} \cap Tcp)

\* Until it has seen stop a TCP proxy opens connections, whatever was cancelled since
\* it looked.  A set-up in flight opens a UDP session also during the drain.
Opens(t) ==
    /\ Alive(t) /\ t \in Proxies \ busy
    /\ \/ t \in Tcp /\ task[t] = "serve"
       \/ t \in Udp /\ task[t] \in {"serve", "drain", "drained"}
    /\ busy' = busy \cup {t}
    /\ UNCHANGED <<configVars, mainVars, task>>

\* The last session ends, as it does after a forced shutdown; one of UDP may be left
\* after the listener.
Empties(t) ==
    /\ mpc # "exited" /\ t \in busy
    /\ busy' = busy \ {t}
    /\ UNCHANGED <<configVars, mainVars, task>>

\* The token stop_accepting is seen: a TCP proxy closes its listener, a UDP proxy
\* sets draining.
Closes(t) == /\ Alive(t) /\ task[t] = "serve" /\ stop /\ t \in Proxies
             /\ Becomes(t, "drain") /\ UNCHANGED busy

\* The last connection was joined.
TcpReturns(t) == /\ Alive(t) /\ task[t] = "drain" /\ t \in Tcp /\ t \notin busy
                 /\ Becomes(t, "ok") /\ UNCHANGED busy

\* The drain tick of a UDP proxy finds no session ...
FindsNoSession(t) == /\ Alive(t) /\ task[t] = "drain" /\ t \in Udp /\ t \notin busy
                     /\ Becomes(t, "drained") /\ UNCHANGED busy

\* ... and then a set-up in flight, or none: it returns, though the one that was in
\* flight at the first look may have opened a session.
FindsPending(t) == Alive(t) /\ task[t] = "drained" /\ Becomes(t, "drain") /\ UNCHANGED busy
UdpReturns(t) == Alive(t) /\ task[t] = "drained" /\ Becomes(t, "ok") /\ UNCHANGED busy

ExporterReturns == /\ Exporter \in Tasks /\ Alive(Exporter) /\ task[Exporter] = "serve" /\ stop
                   /\ Becomes(Exporter, "ok") /\ UNCHANGED busy

\* The UDP listener cancels its sessions and leaves them to end.
ForcedOut(t) == /\ Alive(t) /\ task[t] # "bind" /\ force /\ t \in Udp
                /\ Becomes(t, "ok") /\ UNCHANGED busy

-----------------------------------------------------------------------------
Drains == TimesOut \/ Forces \/ Bye \/ \E t \in Tasks : DrainJoins(t)
Main == \/ Loads \/ LoadFails \/ SpawnAll \/ Signal \/ Drains
        \/ \E t \in Tasks : EndsEarly(t)
Returns(t) == TcpReturns(t) \/ UdpReturns(t) \/ (t = Exporter /\ ExporterReturns)
Task(t) == \/ Binds(t) \/ BindFails(t) \/ Panics(t) \/ Opens(t) \/ Empties(t)
           \/ Closes(t) \/ FindsNoSession(t) \/ FindsPending(t) \/ Returns(t) \/ ForcedOut(t)

Next == Main \/ Advance \/ \E t \in Tasks : Task(t)

Spec == Init /\ [][Next]_vars

\* main is polled when something it waits for is ready, time passes, a bind is
\* decided, and tasks keep the promises above: a TCP proxy looks at its token and
\* joins its connections, which a forced shutdown ends; a UDP listener looks at
\* force_shutdown.  No signal is assumed, no session need ever end by itself.
FairSpec ==
    /\ Spec
    /\ WF_vars(Loads \/ LoadFails \/ SpawnAll)
    /\ WF_vars(Drains \/ \E t \in Tasks : EndsEarly(t))
    /\ WF_vars(Advance)
    /\ \A t \in 0..MaxProxies :
                        /\ WF_vars(Binds(t) \/ BindFails(t))
                        /\ WF_vars(Closes(t)) /\ WF_vars(force /\ Empties(t))
                        /\ WF_vars(Returns(t)) /\ WF_vars(ForcedOut(t))

-----------------------------------------------------------------------------
\* The exit code tells failures: it is 1 exactly when the configuration was refused or
\* a task failed, before the signal, within the grace period ("failures seen before a
\* timeout cancels this future are not lost") or after it.
ExitCodeTellsFailures ==
    mpc = "exited" => /\ code = 1 <=> Failed # {} \/ loading = "refused"
                      /\ code = 2 <=> loading = "usage"

\* After a signal no connection of a TCP proxy is cut by the exit itself: whether the
\* drain ran to its end, was forced, or the last task returned between the timeout and
\* the force, each has ended before the process does.  A UDP session may be cut: its
\* listener can take itself for drained beside it, and a forced one does not await it.
EndsAfterAll == mpc = "exited" /\ stop => busy \cap Tcp = {}

\* A signal ends the process, whatever sessions are open and whichever task fails.
SignalEnds == stop ~> mpc = "exited"

\* "A task finishing before any signal means a bind failure or an unexpected exit -
\* abort immediately": a failure does not leave a half-working process behind.
FailureEnds == \A t \in 0..MaxProxies : t \in Failed ~> mpc = "exited" /\ code = 1
=============================================================================
