---------------------------- MODULE SupervisorProofs ----------------------------
(***************************************************************************)
(* Proofs about main and drain of src/src/main.rs: for every command line and  *)
(* file, any number of proxies, with and without an exporter.                  *)
(***************************************************************************)
EXTENDS Supervisor, ConfigProofs, FiniteSetTheorems

TaskStates == {"none", "bind", "serve", "drain", "drained", "ok", "err", "panic"}

\* main and the configuration it runs: there are tasks only once one was accepted.
RunsWhatItLoaded ==
    /\ ConfigInv
    /\ mpc \in {"start", "select", "grace", "expired", "force", "exited"}
    /\ mpc \in {"select", "grace", "expired", "force"} => loading = "ready"
    /\ mpc = "exited" => loading \in {"ready", "refused", "usage"}
    /\ task \in [0..MaxProxies -> TaskStates]
    /\ loading # "ready" \/ mpc = "start" =>
         \A t \in 0..MaxProxies : task[t] = "none"

\* What a task comes to only after it has seen stop.
Stopping == {"drain", "drained", "ok"}

\* The tokens go with main's place, and before a signal no task drains or returned Ok.
TokensTellPlace ==
    /\ stop \in BOOLEAN /\ force \in BOOLEAN
    /\ mpc \in {"start", "select"} => ~stop
    /\ mpc \in {"grace", "expired", "force"} => stop
    /\ force => stop
    /\ stop => loading = "ready"
    /\ mpc = "exited" /\ ~stop => loading # "ready" \/ Failed # {}
    /\ ~stop => \A t \in 0..MaxProxies : task[t] \notin Stopping

\* A connection needs the task of its TCP proxy: it accepted it and will join it.
Holds(t) == t \in Tcp => task[t] \in {"serve", "drain"}
SessionsNeedTask == /\ mpc = "start" => busy = {}
                    /\ \A t \in busy : t \in Proxies /\ Holds(t)

\* What drain saw is what it remembers, over both of its calls.
DrainRemembers ==
    /\ joined \subseteq Tasks
    /\ mpc \in {"start", "select"} => joined = {}
    /\ \A t \in joined : t \in Finished
    /\ anyError \in BOOLEAN
    /\ mpc # "exited" \/ stop => (anyError <=> joined \cap Failed # {})

\* The exit code, from where main left.
CodeTellsPlace ==
    /\ mpc # "exited" => code = NoCode
    /\ mpc = "exited" =>
         CASE loading = "usage" -> code = 2
           [] loading = "refused" -> code = 1
           [] OTHER -> /\ code = IF Failed # {} THEN 1 ELSE 0
                       /\ stop => joined = Tasks

IInv == /\ RunsWhatItLoaded /\ TokensTellPlace /\ SessionsNeedTask
        /\ DrainRemembers /\ CodeTellsPlace

-----------------------------------------------------------------------------
\* There is a slot for every task main spawns.
LEMMA TasksFit == ConfigInv => Tasks \subseteq 0..MaxProxies
  <1> SUFFICES ASSUME ConfigInv PROVE Tasks \subseteq 0..MaxProxies
    OBVIOUS
  <1>1. MaxProxies \in Nat \ {0} /\ Len(entries) \in Nat
    BY SupervisorAssumption, EntriesLength
  <1>2. CASE entries = <<>>
    BY <1>1, <1>2 DEF Tasks, Proxies, Exporter
  <1>3. CASE entries = <<from_cli(input.args)>>
    <2>1. Proxies = {1}
      BY <1>3 DEF Proxies
    <2>2. QED
      BY <1>1, <2>1 DEF Tasks, Exporter
  <1>4. CASE entries = FileEntries
    <2>1. Len(entries) <= MaxProxies
      BY <1>4, FileLength, SupervisorAssumption DEF ConfigInv
    <2>2. QED
      BY <1>1, <2>1 DEF Tasks, Proxies, Exporter
  <1>5. QED
    BY <1>2, <1>3, <1>4 DEF ConfigInv, Loading, Nothing

\* The tasks are those of the configuration.
LEMMA TasksStay ==
  UNCHANGED configVars => Tasks' = Tasks /\ Proxies' = Proxies /\ Tcp' = Tcp
  BY DEF configVars, Tasks, Proxies, Tcp

\* Without an accepted configuration no task ever ran.
LEMMA NoneFinished == RunsWhatItLoaded /\ loading # "ready" => Failed = {} /\ Finished = {}
  BY TasksFit DEF RunsWhatItLoaded, Failed, Finished

LEMMA IInvInit == Init => IInv
  <1> SUFFICES ASSUME Init PROVE IInv
    OBVIOUS
  <1> USE DEF Init
  <1>1. RunsWhatItLoaded
    BY ConfigStarts DEF RunsWhatItLoaded, TaskStates
  <1>2. TokensTellPlace
    BY DEF TokensTellPlace, Stopping
  <1>3. SessionsNeedTask /\ DrainRemembers /\ CodeTellsPlace
    BY DEF SessionsNeedTask, DrainRemembers, CodeTellsPlace
  <1>4. QED
    BY <1>1, <1>2, <1>3 DEF IInv

\* A stutter.
LEMMA IInvStays == IInv /\ UNCHANGED vars => IInv'
  <1> SUFFICES ASSUME IInv, UNCHANGED vars PROVE IInv'
    OBVIOUS
  <1> USE DEF vars, mainVars
  <1>1. ConfigInv' /\ Tasks' = Tasks /\ Proxies' = Proxies /\ Tcp' = Tcp /\ loading' = loading
    BY ConfigStays, TasksStay DEF IInv, RunsWhatItLoaded, configVars
  <1>2. Finished' = Finished /\ Failed' = Failed
    BY <1>1 DEF Finished, Failed
  <1>3. RunsWhatItLoaded' /\ TokensTellPlace'
    BY <1>1, <1>2 DEF IInv, RunsWhatItLoaded, TokensTellPlace
  <1>4. SessionsNeedTask' /\ DrainRemembers' /\ CodeTellsPlace'
    BY <1>1, <1>2 DEF IInv, SessionsNeedTask, Holds, DrainRemembers, CodeTellsPlace
  <1>5. QED
    BY <1>3, <1>4 DEF IInv

\* While loading there is no task that a change of the entries could touch.
LEMMA IInvLoads == IInv /\ Loads => IInv'
  <1> SUFFICES ASSUME IInv, Loads PROVE IInv'
    OBVIOUS
  <1> USE DEF Loads, mainVars
  <1>1. ConfigInv'
    BY ConfigLoads DEF IInv, RunsWhatItLoaded
  <1>2. RunsWhatItLoaded'
    BY <1>1 DEF IInv, RunsWhatItLoaded
  <1>3. joined = {} /\ busy = {}
    <2>1. joined = {}
      BY DEF IInv, DrainRemembers
    <2>2. busy = {}
      BY DEF IInv, SessionsNeedTask
    <2>3. QED
      BY <2>1, <2>2
  <1>4. TokensTellPlace' /\ SessionsNeedTask' /\ CodeTellsPlace'
    BY <1>3 DEF IInv, TokensTellPlace, SessionsNeedTask, CodeTellsPlace
  <1>5. DrainRemembers'
    BY <1>3 DEF IInv, DrainRemembers
  <1>6. QED
    BY <1>2, <1>4, <1>5 DEF IInv

\* An unusable configuration ends the process before a task exists.
LEMMA IInvLoadFails == IInv /\ LoadFails => IInv'
  <1> SUFFICES ASSUME IInv, LoadFails PROVE IInv'
    OBVIOUS
  <1> USE DEF LoadFails
  <1>1. /\ ConfigInv' /\ Tasks' = Tasks /\ Proxies' = Proxies /\ Tcp' = Tcp /\ loading' = loading
        /\ Finished' = {} /\ Failed' = {} /\ Finished = {} /\ Failed = {}
    <2>1. ConfigInv' /\ Tasks' = Tasks /\ Proxies' = Proxies /\ Tcp' = Tcp /\ loading' = loading
      BY ConfigStays, TasksStay DEF IInv, RunsWhatItLoaded, configVars
    <2>2. QED
      BY <2>1, NoneFinished DEF IInv, Finished, Failed
  <1>2. RunsWhatItLoaded' /\ TokensTellPlace'
    BY <1>1 DEF IInv, RunsWhatItLoaded, TokensTellPlace
  <1>3. SessionsNeedTask' /\ CodeTellsPlace'
    BY <1>1 DEF IInv, SessionsNeedTask, Holds, CodeTellsPlace
  <1>4. DrainRemembers'
    BY <1>1 DEF IInv, DrainRemembers, TokensTellPlace
  <1>5. QED
    BY <1>2, <1>3, <1>4 DEF IInv

\* main spawns into fresh slots.
LEMMA IInvSpawnAll == IInv /\ SpawnAll => IInv'
  <1> SUFFICES ASSUME IInv, SpawnAll PROVE IInv'
    OBVIOUS
  <1> USE DEF SpawnAll
  <1>1. ConfigInv' /\ Tasks' = Tasks /\ Proxies' = Proxies /\ Tcp' = Tcp /\ loading' = loading
    BY ConfigStays, TasksStay DEF IInv, RunsWhatItLoaded, configVars
  <1>2. \A t \in 0..MaxProxies : task'[t] \in {"none", "bind"} /\ task[t] = "none"
    BY DEF IInv, RunsWhatItLoaded
  <1>3. Finished' = {} /\ Failed' = {} /\ joined = {}
    BY <1>1, <1>2, TasksFit DEF IInv, RunsWhatItLoaded, Finished, Failed, DrainRemembers
  <1>4. RunsWhatItLoaded' /\ TokensTellPlace'
    BY <1>1, <1>2 DEF IInv, RunsWhatItLoaded, TokensTellPlace, TaskStates, Stopping
  <1>5. SessionsNeedTask'
    BY DEF IInv, SessionsNeedTask
  <1>6. CodeTellsPlace'
    BY DEF IInv, CodeTellsPlace
  <1>7. DrainRemembers'
    BY <1>1, <1>3 DEF IInv, DrainRemembers, TokensTellPlace
  <1>8. QED
    BY <1>4, <1>5, <1>6, <1>7 DEF IInv

\* Steps of main after the spawn leave the configuration and the tasks alone.
LEMMA MainKeeps ==
  ASSUME IInv, UNCHANGED <<configVars, task, busy>>, mpc' # "start"
  PROVE  /\ ConfigInv' /\ Tasks' = Tasks /\ Proxies' = Proxies /\ Tcp' = Tcp /\ loading' = loading
         /\ Finished' = Finished /\ Failed' = Failed /\ SessionsNeedTask'
  <1>1. ConfigInv' /\ Tasks' = Tasks /\ Proxies' = Proxies /\ Tcp' = Tcp /\ loading' = loading
    BY ConfigStays, TasksStay DEF IInv, RunsWhatItLoaded, configVars
  <1>2. Finished' = Finished /\ Failed' = Failed
    BY <1>1 DEF Finished, Failed
  <1>3. SessionsNeedTask'
    BY <1>1 DEF IInv, SessionsNeedTask, Holds
  <1>4. QED
    BY <1>1, <1>2, <1>3

\* Before a signal only failures end a task, so the first to end decides the code.
LEMMA IInvEndsEarly == ASSUME IInv, NEW t \in Tasks, EndsEarly(t) PROVE IInv'
  <1> USE DEF EndsEarly
  <1>1. /\ ConfigInv' /\ Tasks' = Tasks /\ Proxies' = Proxies /\ Tcp' = Tcp /\ loading' = loading
        /\ Finished' = Finished /\ Failed' = Failed /\ SessionsNeedTask'
    BY MainKeeps
  <1>2. t \in Failed /\ ~stop /\ loading = "ready"
    <2>1. ~stop /\ loading = "ready" /\ t \in 0..MaxProxies
      BY TasksFit DEF IInv, TokensTellPlace, RunsWhatItLoaded
    <2>2. task[t] # "ok"
      BY <2>1 DEF IInv, TokensTellPlace, Stopping
    <2>3. QED
      BY <2>1, <2>2 DEF Finished, Failed
  <1>3. RunsWhatItLoaded' /\ TokensTellPlace'
    BY <1>1, <1>2 DEF IInv, RunsWhatItLoaded, TokensTellPlace
  <1>4. DrainRemembers'
    BY <1>1, <1>2 DEF IInv, DrainRemembers
  <1>5. CodeTellsPlace'
    BY <1>1, <1>2 DEF IInv, CodeTellsPlace
  <1>6. QED
    BY <1>1, <1>3, <1>4, <1>5 DEF IInv

\* drain remembers the result it sees.
LEMMA IInvDrainJoins == ASSUME IInv, NEW t \in Tasks, DrainJoins(t) PROVE IInv'
  <1> USE DEF DrainJoins
  <1>1. /\ ConfigInv' /\ Tasks' = Tasks /\ Proxies' = Proxies /\ Tcp' = Tcp /\ loading' = loading
        /\ Finished' = Finished /\ Failed' = Failed /\ SessionsNeedTask'
    BY MainKeeps
  <1>2. RunsWhatItLoaded' /\ TokensTellPlace'
    BY <1>1 DEF IInv, RunsWhatItLoaded, TokensTellPlace
  <1>3. anyError' <=> joined' \cap Failed' # {}
    BY <1>1 DEF IInv, DrainRemembers
  <1>4. DrainRemembers'
    BY <1>1, <1>3 DEF IInv, DrainRemembers
  <1>5. CodeTellsPlace'
    BY <1>1 DEF IInv, CodeTellsPlace
  <1>6. QED
    BY <1>1, <1>2, <1>4, <1>5 DEF IInv

\* Bye turns what drain remembers into the code, with nothing left to join.
LEMMA IInvBye == IInv /\ Bye => IInv'
  <1> SUFFICES ASSUME IInv, Bye PROVE IInv'
    OBVIOUS
  <1> USE DEF Bye
  <1>1. /\ ConfigInv' /\ Tasks' = Tasks /\ Proxies' = Proxies /\ Tcp' = Tcp /\ loading' = loading
        /\ Finished' = Finished /\ Failed' = Failed /\ SessionsNeedTask'
    BY MainKeeps
  <1>2. loading = "ready" /\ stop
    BY DEF IInv, RunsWhatItLoaded, TokensTellPlace
  <1>3. anyError <=> Failed # {}
    BY DEF IInv, DrainRemembers, Failed
  <1>4. RunsWhatItLoaded' /\ TokensTellPlace'
    BY <1>1, <1>2 DEF IInv, RunsWhatItLoaded, TokensTellPlace
  <1>5. DrainRemembers'
    BY <1>1 DEF IInv, DrainRemembers
  <1>6. CodeTellsPlace'
    BY <1>1, <1>2, <1>3 DEF CodeTellsPlace
  <1>7. QED
    BY <1>1, <1>4, <1>5, <1>6 DEF IInv

\* Every step of main.
LEMMA IInvMain == IInv /\ (Main \/ Advance) => IInv'
  <1> SUFFICES ASSUME IInv, Main \/ Advance PROVE IInv'
    OBVIOUS
  <1>1. ASSUME Signal \/ TimesOut \/ Forces \/ Advance PROVE IInv'
    <2>1. /\ ConfigInv' /\ Tasks' = Tasks /\ Proxies' = Proxies /\ Tcp' = Tcp /\ loading' = loading
          /\ Finished' = Finished /\ Failed' = Failed /\ SessionsNeedTask'
      BY <1>1, MainKeeps DEF Signal, TimesOut, Forces, Advance
    <2>2. RunsWhatItLoaded' /\ TokensTellPlace'
      BY <1>1, <2>1 DEF IInv, RunsWhatItLoaded, TokensTellPlace, Signal, TimesOut, Forces, Advance
    <2>3. DrainRemembers' /\ CodeTellsPlace'
      BY <1>1, <2>1 DEF IInv, DrainRemembers, CodeTellsPlace, Signal, TimesOut, Forces, Advance
    <2>4. QED
      BY <2>1, <2>2, <2>3 DEF IInv
  <1>2. QED
    BY <1>1, IInvLoads, IInvLoadFails, IInvSpawnAll, IInvEndsEarly, IInvDrainJoins, IInvBye
       DEF Main, Drains

\* A session opens or ends: no task notices.
LEMMA IInvSession == ASSUME IInv, NEW t \in Tasks, Opens(t) \/ Empties(t) PROVE IInv'
  <1> USE DEF Opens, Empties, mainVars
  <1>1. ConfigInv' /\ Tasks' = Tasks /\ Proxies' = Proxies /\ Tcp' = Tcp /\ loading' = loading
    BY ConfigStays, TasksStay DEF IInv, RunsWhatItLoaded, configVars
  <1>2. Finished' = Finished /\ Failed' = Failed
    BY <1>1 DEF Finished, Failed
  <1>3. RunsWhatItLoaded' /\ TokensTellPlace'
    <2>1. UNCHANGED <<mpc, stop, force, task>>
      OBVIOUS
    <2>2. RunsWhatItLoaded'
      BY <1>1, <2>1 DEF IInv, RunsWhatItLoaded
    <2>3. TokensTellPlace'
      BY <1>1, <1>2, <2>1 DEF IInv, TokensTellPlace
    <2>4. QED
      BY <2>2, <2>3
  <1>4. SessionsNeedTask'
    <2>1. CASE Opens(t)
      <3>1. mpc # "start" /\ t \in Proxies /\ Holds(t)
        BY <2>1 DEF Alive, Holds, Tcp, Udp
      <3>2. QED
        BY <1>1, <2>1, <3>1 DEF IInv, SessionsNeedTask, Holds
    <2>2. CASE Empties(t)
      BY <1>1, <2>2 DEF IInv, SessionsNeedTask, Holds
    <2>3. QED
      BY <2>1, <2>2
  <1>5. DrainRemembers' /\ CodeTellsPlace'
    BY <1>1, <1>2 DEF IInv, DrainRemembers, CodeTellsPlace
  <1>6. QED
    BY <1>3, <1>4, <1>5 DEF IInv

\* A step of one task: it was running, its entry alone changes, and it drains or returns
\* Ok only after a stop.  Connections stay with tasks that serve or drain.
TaskStep(t) ==
    /\ Alive(t)
    /\ UNCHANGED <<configVars, mainVars>>
    /\ \E s \in TaskStates : task' = [task EXCEPT ![t] = s] /\ (s \in Stopping => stop)
    /\ busy' \subseteq busy /\ \A u \in busy' : Holds(u)'

\* What a task does without a connection, or with one that its next state keeps.
LEMMA BecomesStep ==
  ASSUME IInv, NEW t \in Tasks, NEW s \in TaskStates, Alive(t), Becomes(t, s),
         s \in Stopping => stop, busy' \subseteq busy,
         t \in busy' \cap Tcp => s \in {"serve", "drain"}
  PROVE  TaskStep(t)
  <1> USE DEF Becomes
  <1>1. task \in [0..MaxProxies -> TaskStates] /\ t \in DOMAIN task
    BY TasksFit DEF IInv, RunsWhatItLoaded
  <1>2. Tcp' = Tcp
    BY TasksStay
  <1>3. ASSUME NEW u \in busy', u \in Tcp PROVE task'[u] \in {"serve", "drain"}
    <2>1. u \in Tasks /\ u \in DOMAIN task /\ task[u] \in {"serve", "drain"}
      BY <1>1, <1>3, TasksFit DEF IInv, RunsWhatItLoaded, SessionsNeedTask, Holds, Tasks, Tcp
    <2>2. QED
      BY <1>1, <1>3, <2>1
  <1>4. \A u \in busy' : Holds(u)'
    BY <1>2, <1>3 DEF Holds
  <1>5. QED
    BY <1>4 DEF TaskStep

\* Every other step of a task is one.
LEMMA TaskSteps == ASSUME IInv, NEW t \in Tasks, Task(t) PROVE Opens(t) \/ Empties(t) \/ TaskStep(t)
  <1>1. t \in 0..MaxProxies
    BY TasksFit DEF IInv, RunsWhatItLoaded
  <1>2. task[t] \in Stopping => stop
    BY <1>1 DEF IInv, TokensTellPlace
  <1>3. t \in busy \cap Tcp => task[t] \in {"serve", "drain"}
    BY DEF IInv, SessionsNeedTask, Holds
  <1>4. force => stop
    BY DEF IInv, TokensTellPlace
  <1> USE DEF TaskStates, Stopping
  <1>5. CASE Binds(t) \/ BindFails(t)
    BY <1>3, <1>5, BecomesStep DEF Binds, BindFails
  <1>6. CASE Panics(t)
    BY <1>6, BecomesStep DEF Panics
  <1>7. CASE Closes(t) \/ FindsNoSession(t) \/ FindsPending(t)
    BY <1>2, <1>3, <1>7, BecomesStep DEF Closes, FindsNoSession, FindsPending
  <1>8. CASE TcpReturns(t) \/ UdpReturns(t)
    BY <1>2, <1>3, <1>8, BecomesStep DEF TcpReturns, UdpReturns
  <1>9. CASE t = Exporter /\ ExporterReturns
    <2>1. t \notin Tcp
      BY <1>9 DEF Exporter, Tcp, Proxies
    <2>2. QED
      BY <1>9, <2>1, BecomesStep DEF ExporterReturns
  <1>10. CASE ForcedOut(t)
    <2>1. t \notin Tcp
      BY <1>10 DEF ForcedOut, Tcp, Udp
    <2>2. QED
      BY <1>4, <1>10, <2>1, BecomesStep DEF ForcedOut
  <1>11. QED
    BY <1>5, <1>6, <1>7, <1>8, <1>9, <1>10 DEF Task, Returns

\* What has left the JoinSet does not run, so a task's step is not about it.
LEMMA IInvTask == ASSUME IInv, NEW t \in Tasks, TaskStep(t) PROVE IInv'
  <1> USE DEF mainVars
  <1>1. PICK s \in TaskStates : task' = [task EXCEPT ![t] = s] /\ (s \in Stopping => stop)
    BY DEF TaskStep
  <1>2. /\ UNCHANGED <<configVars, mainVars>> /\ Alive(t)
        /\ busy' \subseteq busy /\ \A u \in busy' : Holds(u)'
    BY DEF TaskStep
  <1>3. ConfigInv' /\ Tasks' = Tasks /\ Proxies' = Proxies /\ Tcp' = Tcp /\ loading' = loading
    BY <1>2, ConfigStays, TasksStay DEF IInv, RunsWhatItLoaded, configVars
  <1>4. /\ mpc \in {"select", "grace", "expired", "force"} /\ loading = "ready"
        /\ task[t] \in Running /\ t \in 0..MaxProxies
        /\ task \in [0..MaxProxies -> TaskStates]
    BY <1>2, TasksFit DEF Alive, IInv, RunsWhatItLoaded
  <1>5. t \notin joined
    BY <1>4 DEF IInv, DrainRemembers, Finished, Running
  <1>6. \A u \in joined : task'[u] = task[u] /\ u \in Tasks
    BY <1>1, <1>4, <1>5, TasksFit DEF IInv, DrainRemembers, RunsWhatItLoaded
  <1>7. RunsWhatItLoaded'
    BY <1>1, <1>2, <1>3, <1>4 DEF IInv, RunsWhatItLoaded
  <1>8. TokensTellPlace'
    BY <1>1, <1>2, <1>3, <1>4 DEF IInv, TokensTellPlace
  <1>9. SessionsNeedTask'
    BY <1>2, <1>3, <1>4 DEF IInv, SessionsNeedTask
  <1>10. DrainRemembers'
    <2>1. joined' \cap Failed' = joined \cap Failed
      BY <1>2, <1>3, <1>6 DEF Failed
    <2>2. \A u \in joined' : u \in Finished'
      BY <1>2, <1>3, <1>6 DEF IInv, DrainRemembers, Finished
    <2>3. QED
      BY <1>2, <1>3, <2>1, <2>2 DEF IInv, DrainRemembers
  <1>11. CodeTellsPlace'
    BY <1>2, <1>4 DEF IInv, CodeTellsPlace
  <1>12. QED
    BY <1>7, <1>8, <1>9, <1>10, <1>11 DEF IInv

\* Every step of the process.
LEMMA IInvNext == IInv /\ [Next]_vars => IInv'
  BY IInvStays, IInvMain, IInvSession, IInvTask, TaskSteps DEF Next

\* IInv holds throughout: the facts about main, its tasks and its configuration that
\* the theorems below are read off from.
THEOREM Inductive == Spec => []IInv
  <1>1. Init => IInv
    BY IInvInit
  <1>2. IInv /\ [Next]_vars => IInv'
    BY IInvNext
  <1>3. QED
    BY <1>1, <1>2, PTL DEF Spec

-----------------------------------------------------------------------------
\* main returns failure exactly when the configuration was refused or a task failed,
\* whenever it failed, and clap's 2 exactly on a usage error.
THEOREM ExitCode == Spec => []ExitCodeTellsFailures
  <1>1. IInv => ExitCodeTellsFailures
    <2> SUFFICES ASSUME IInv, mpc = "exited"
                 PROVE  /\ code = 1 <=> Failed # {} \/ loading = "refused"
                        /\ code = 2 <=> loading = "usage"
      BY DEF ExitCodeTellsFailures
    <2>1. loading # "ready" => Failed = {}
      BY NoneFinished DEF IInv
    <2>2. QED
      BY <2>1 DEF IInv, CodeTellsPlace, RunsWhatItLoaded
  <1>2. QED
    BY <1>1, Inductive, PTL

\* After a signal no connection of a TCP proxy is open when main returns: its task was
\* joined, in either drain, and a task that returned has joined its connections.
THEOREM NothingCut == Spec => []EndsAfterAll
  <1>1. IInv => EndsAfterAll
    <2> SUFFICES ASSUME IInv, mpc = "exited", stop, NEW t \in busy \cap Tcp PROVE FALSE
      BY DEF EndsAfterAll
    <2>1. joined = Tasks
      BY DEF IInv, TokensTellPlace, CodeTellsPlace
    <2>2. task[t] \in {"ok", "err", "panic"}
      BY <2>1 DEF IInv, DrainRemembers, Finished, Tasks, Tcp
    <2>3. task[t] \in {"serve", "drain"}
      BY DEF IInv, SessionsNeedTask, Holds
    <2>4. QED
      BY <2>2, <2>3
  <1>2. QED
    BY <1>1, Inductive, PTL

\* load's single pass over the entries decides what a comparison of all of them would,
\* and from_cli agrees with from_toml.
THEOREM LoadDecides == Spec => []LoadExact
  <1>1. IInv => LoadExact
    BY ConfigExact DEF IInv, RunsWhatItLoaded
  <1>2. QED
    BY <1>1, Inductive, PTL

\* What validate lets through, apply_tcp gets from the kernel: all of L1, and L2 unless
\* user_timeout_ms is beyond the kernel's int, which validate does not look at.
THEOREM OptionsTaken == Spec => []OptionsTake
  <1>1. IInv => OptionsTake
    BY ConfigOptions DEF IInv, RunsWhatItLoaded
  <1>2. QED
    BY <1>1, Inductive, PTL
=============================================================================
