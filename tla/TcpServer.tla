------------------------------- MODULE TcpServer -------------------------------
(***************************************************************************)
(* The TCP proxy around its relays: the accept loop serve_graceful and the   *)
(* connection task handle of src/src/proxy/tcp.rs.  The accept loop admits    *)
(* connections through the limits, joins finished tasks, backs off when       *)
(* accept fails, and when told to stop closes the listener and waits for      *)
(* every task.  A task connects to the target, writes the PROXY header,       *)
(* relays, and counts its outcome.                                            *)
(*                                                                         *)
(* The kernel's accept queue and the clients are the environment.  A relay    *)
(* is the component TcpRelay seen from outside: it may end at any time and    *)
(* does end once force_shutdown is cancelled (EndsOnShutdown there).          *)
(***************************************************************************)
EXTENDS ConnLimits, ProxyHeader, FiniteSets

CONSTANTS Conns,    \* client connections
          Peer,     \* Peer[c]: the address and port c comes from
          Local     \* Local[c]: those it connected to

ASSUME ServerAssumption ==
    /\ Peer \in [Conns -> SocketAddr] /\ Local \in [Conns -> SocketAddr]
    /\ \A c \in Conns : Peer[c].ip \in Ips

\* peer.ip()
IpOf == [c \in Conns |-> Peer[c].ip]

VARIABLES
    caps,           \* max_connections and max_per_ip, fixed
    header,         \* cfg.proxy_protocol, fixed
    slots,          \* ConnLimits.state
    stop, force,    \* the tokens stop_accepting and force_shutdown
    lpc,            \* the loop: what its select polls next, "select" (the token),
                    \* "tasks" (join_next) or "accept"; "backoff", "join", "exited"
    backlog,        \* the kernel's accept queue
    conn,           \* conn[c]: where connection c is
    upstream,       \* upstream[c]: the bytes the target has of c before any data
    opened,         \* connections_total
    rejected,       \* connections_rejected, by reason
    failures,       \* connect_failures
    timeouts,       \* connect_timeouts
    closed,         \* connections_closed, all reasons
    active          \* the active gauge

confVars == <<caps, header>>
tokenVars == <<stop, force>>
outcomeVars == <<failures, timeouts, closed>>
metricVars == <<opened, rejected, outcomeVars, active>>
vars == <<confVars, slots, tokenVars, lpc, backlog, conn, upstream, metricVars>>

In(places) == {c \in Conns : conn[c] \in places}
Move(c, place) == conn' = [conn EXCEPT ![c] = place]

\* The tasks of the JoinSet that hold their guard, and those that have ended.
Guarded == In({"connect", "header", "relay", "closing", "ending"})
Unjoined == In({"ended"})
Listening == lpc \in {"select", "tasks", "accept", "backoff"}

Init ==
    /\ caps \in Caps /\ header \in BOOLEAN
    /\ slots = EmptyState
    /\ stop = FALSE /\ force = FALSE
    /\ lpc = "select" /\ backlog = <<>>
    /\ conn = [c \in Conns |-> "away"] /\ upstream = [c \in Conns |-> <<>>]
    /\ opened = 0 /\ rejected = [total |-> 0, per_ip |-> 0]
    /\ failures = 0 /\ timeouts = 0 /\ closed = 0 /\ active = 0

-----------------------------------------------------------------------------
(* The environment: clients, and main.rs, which cancels stop_accepting and   *)
(* later force_shutdown.                                                     *)

\* The kernel completes the handshake while the socket listens.
ClientConnects(c) ==
    /\ conn[c] = "away" /\ Listening
    /\ backlog' = Append(backlog, c)
    /\ Move(c, "queued")
    /\ UNCHANGED <<confVars, upstream, slots, tokenVars, lpc, metricVars>>

ClientRefused(c) ==
    /\ conn[c] = "away" /\ ~Listening
    /\ Move(c, "refused")
    /\ UNCHANGED <<confVars, upstream, slots, tokenVars, lpc, backlog, metricVars>>

Stop ==
    /\ ~stop /\ stop' = TRUE
    /\ UNCHANGED <<confVars, upstream, slots, force, lpc, backlog, conn, metricVars>>

ForceShutdown ==
    /\ stop /\ ~force /\ force' = TRUE
    /\ UNCHANGED <<confVars, upstream, slots, stop, lpc, backlog, conn, metricVars>>

-----------------------------------------------------------------------------
(* The accept loop.  Its select is biased: it polls stop_accepting, then the  *)
(* tasks, then accept, one after the other.  The tokens are cancelled and the *)
(* tasks end on other threads, also between a poll and the next.              *)

\* A slip: the listener stays open while the tasks are joined.
MutStopListening ==
    /\ lpc = "select" /\ stop
    /\ lpc' = "join"
    /\ UNCHANGED <<confVars, upstream, slots, tokenVars, backlog, conn, metricVars>>

\* drop(listener): the kernel resets what it had queued.
StopListening ==
    /\ lpc = "select" /\ stop
    /\ lpc' = "join"
    /\ backlog' = <<>>
    /\ conn' = [c \in Conns |-> IF conn[c] = "queued" THEN "refused" ELSE conn[c]]
    /\ UNCHANGED <<confVars, upstream, slots, tokenVars, metricVars>>

LoopMoves(to) ==
    lpc' = to /\ UNCHANGED <<confVars, upstream, slots, tokenVars, backlog, conn, metricVars>>

\* stop_accepting.cancelled() is pending.
PollsToken == lpc = "select" /\ ~stop /\ LoopMoves("tasks")

\* join_next() is pending, or there is no connection.
PollsTasks == lpc = "tasks" /\ Unjoined = {} /\ LoopMoves("accept")

\* A task that has ended is joined, by the select or after the loop.
JoinNext(c) ==
    /\ \/ lpc = "tasks" /\ lpc' = "select"
       \/ lpc = "join" /\ UNCHANGED lpc
    /\ conn[c] = "ended"
    /\ Move(c, "joined")
    /\ UNCHANGED <<confVars, upstream, slots, tokenVars, backlog, metricVars>>

\* accept() is pending too: the loop sleeps until something wakes it and polls again.
Pends == lpc = "accept" /\ backlog = <<>> /\ LoopMoves("select")

\* accept() takes the first client, whatever happened since the other polls.
Accepts ==
    /\ lpc = "accept" /\ backlog # <<>>
    /\ backlog' = Tail(backlog)
    /\ lpc' = "select"

Accept ==
    LET c == Head(backlog)
    IN  /\ Accepts
        /\ Admits(slots, caps, IpOf[c])
        /\ slots' = Admitted(slots, caps, IpOf[c])
        /\ opened' = opened + 1
        /\ Move(c, "connect")
        /\ UNCHANGED <<confVars, upstream, tokenVars, rejected, outcomeVars, active>>

\* The stream is dropped; the refusal is counted under the layer that was full.
Reject ==
    LET c == Head(backlog)
        layer == IF TotalFull(slots, caps) THEN "total" ELSE "per_ip"
    IN  /\ Accepts
        /\ ~Admits(slots, caps, IpOf[c])
        /\ rejected' = [rejected EXCEPT ![layer] = @ + 1]
        /\ Move(c, "rejected")
        /\ UNCHANGED <<confVars, upstream, slots, tokenVars, opened, outcomeVars, active>>

\* accept() fails; nothing else is looked at during the pause.
AcceptErr == lpc = "accept" /\ LoopMoves("backoff")

BackoffOver == lpc = "backoff" /\ LoopMoves("select")

\* A slip: the loop returns with tasks still running.
MutReturn == lpc = "join" /\ Unjoined = {} /\ LoopMoves("exited")

\* The JoinSet is empty.
Return == lpc = "join" /\ Unjoined = {} /\ Guarded = {} /\ LoopMoves("exited")

-----------------------------------------------------------------------------
(* handle.  Its selects are biased towards force_shutdown.  A look at the     *)
(* token and the act on it are one step here: the act changes nothing that     *)
(* another task or the loop looks at before the token, so a token cancelled    *)
(* in between is as good as cancelled right after.                            *)

\* A slip: only the connect attempt watches the token.
MutHandleAborts(c) ==
    /\ force /\ conn[c] = "connect"
    /\ Move(c, "ending")
    /\ UNCHANGED <<confVars, upstream, slots, tokenVars, lpc, backlog, metricVars>>

\* The shutdown ends the connect attempt or the header's write; nothing is counted.
HandleAborts(c) ==
    /\ force /\ conn[c] \in {"connect", "header"}
    /\ Move(c, "ending")
    /\ UNCHANGED <<confVars, upstream, slots, tokenVars, lpc, backlog, metricVars>>

Relaying(c) ==
    /\ Move(c, "relay")
    /\ active' = active + 1
    /\ UNCHANGED <<confVars, slots, tokenVars, lpc, backlog, opened, rejected, outcomeVars>>

ConnectedPlain(c) ==
    conn[c] = "connect" /\ ~force /\ ~header /\ Relaying(c) /\ UNCHANGED upstream

ConnectedHeader(c) ==
    /\ conn[c] = "connect" /\ ~force /\ header
    /\ Move(c, "header")
    /\ UNCHANGED <<confVars, upstream, slots, tokenVars, lpc, backlog, metricVars>>

\* local_addr() may fail; then the peer's own address stands in.
HeaderWritten(c) ==
    /\ conn[c] = "header" /\ ~force
    /\ \E dst \in {Local[c], Peer[c]} :
         upstream' = [upstream EXCEPT ![c] = v2_header(Peer[c], dst)]
    /\ Relaying(c)

ConnectTimesOut(c) ==
    /\ conn[c] = "connect" /\ ~force
    /\ timeouts' = timeouts + 1
    /\ Move(c, "ending")
    /\ UNCHANGED <<confVars, upstream, slots, tokenVars, lpc, backlog, opened, rejected, failures, closed,
                   active>>

\* A slip: a header that cannot be written is only logged.
MutConnectFails(c) ==
    /\ conn[c] \in {"connect", "header"} /\ ~force
    /\ failures' = IF conn[c] = "connect" THEN failures + 1 ELSE failures
    /\ Move(c, "ending")
    /\ UNCHANGED <<confVars, upstream, slots, tokenVars, lpc, backlog, opened, rejected, timeouts, closed,
                   active>>

\* The connect attempt or the write of the header fails.
ConnectFails(c) ==
    /\ conn[c] \in {"connect", "header"} /\ ~force
    /\ failures' = failures + 1
    /\ Move(c, "ending")
    /\ UNCHANGED <<confVars, upstream, slots, tokenVars, lpc, backlog, opened, rejected, timeouts, closed,
                   active>>

\* The relay ends, by itself or by the shutdown, and counts its reason.
RelayCloses(c) ==
    /\ conn[c] = "relay"
    /\ closed' = closed + 1
    /\ Move(c, "closing")
    /\ UNCHANGED <<confVars, upstream, slots, tokenVars, lpc, backlog, opened, rejected, failures,
                   timeouts, active>>

RelayLeaves(c) ==
    /\ conn[c] = "closing"
    /\ active' = active - 1
    /\ Move(c, "ending")
    /\ UNCHANGED <<confVars, upstream, slots, tokenVars, lpc, backlog, opened, rejected, outcomeVars>>

\* A slip: a guard that is forgotten.
MutTaskEnds(c) ==
    /\ conn[c] = "ending"
    /\ Move(c, "ended")
    /\ UNCHANGED <<confVars, upstream, slots, tokenVars, lpc, backlog, metricVars>>

\* _guard drops with the task.
TaskEnds(c) ==
    /\ conn[c] = "ending"
    /\ slots' = Released(slots, IpOf[c])
    /\ Move(c, "ended")
    /\ UNCHANGED <<confVars, upstream, tokenVars, lpc, backlog, metricVars>>

-----------------------------------------------------------------------------
Environment == Stop \/ ForceShutdown \/ \E c \in Conns : ClientConnects(c) \/ ClientRefused(c)

Handle(c) == \/ HandleAborts(c) \/ ConnectedPlain(c) \/ ConnectedHeader(c) \/ HeaderWritten(c)
             \/ ConnectTimesOut(c) \/ ConnectFails(c)
             \/ RelayCloses(c) \/ RelayLeaves(c) \/ TaskEnds(c)

Joins == \E c \in Conns : JoinNext(c)
Serves == \/ StopListening \/ PollsToken \/ PollsTasks \/ Joins \/ Pends
          \/ Accept \/ Reject \/ BackoffOver \/ Return
AcceptLoop == Serves \/ AcceptErr

Next == Environment \/ AcceptLoop \/ \E c \in Conns : Handle(c)

Spec == Init /\ [][Next]_vars

\* The runtime polls every task that can go on.  A connect attempt is bounded by its
\* timeout, a relay only by the forced shutdown.  accept() may fail for ever.
Bounded(c) == \/ HandleAborts(c) \/ ConnectedPlain(c) \/ ConnectedHeader(c)
              \/ ConnectTimesOut(c) \/ ConnectFails(c)
              \/ (force /\ RelayCloses(c)) \/ RelayLeaves(c) \/ TaskEnds(c)

FairSpec == /\ Spec
            /\ WF_vars(Serves)
            /\ \A c \in Conns : WF_vars(Bounded(c))

-----------------------------------------------------------------------------
Places == {"away", "queued", "refused", "rejected", "connect", "header", "relay",
           "closing", "ending", "ended", "joined"}

\* The types of the loop, the connections and the metrics; main.rs cancels
\* force_shutdown only after stop_accepting, and the loop ends only when told to.
TypeOK ==
    /\ stop \in BOOLEAN /\ force \in BOOLEAN /\ (force => stop)
    /\ lpc \in {"select", "tasks", "accept", "backoff", "join", "exited"}
    /\ lpc \in {"join", "exited"} => stop
    /\ backlog \in Seq(Conns)
    /\ conn \in [Conns -> Places]
    /\ opened \in Nat /\ rejected \in [total : Nat, per_ip : Nat]
    /\ failures \in Nat /\ timeouts \in Nat /\ closed \in Nat /\ active \in Int

\* The guards of limits.rs, moved into the connection tasks, bound what they should
\* bound: on every exit path of handle the slot lives exactly as long as the task.
SlotsAreTasks ==
    /\ slots.total = Cardinality(Guarded)
    /\ \A i \in Ips : Count(slots, i) = Cardinality({c \in Guarded : IpOf[c] = i})
    /\ caps.total > 0 => Cardinality(Guarded) <= caps.total

\* Every accepted connection is counted under one outcome: a connect failure, a
\* connect timeout, or a close.  Only a forced shutdown lets one leave uncounted.
\* The active gauge is the relays on every path through handle.
OutcomesAddUp ==
    LET counted == failures + timeouts + closed
        undecided == Cardinality(In({"connect", "header", "relay"}))
    IN  /\ counted + undecided <= opened
        /\ ~force => counted + undecided = opened
        /\ active = Cardinality(In({"relay", "closing"}))

\* When serve_graceful returns no task runs, no slot is held, the gauge is back at 0
\* and no client waits in the accept queue: main.rs takes the return for "drained".
ReturnsClean ==
    lpc = "exited" =>
      /\ Guarded = {} /\ Unjoined = {} /\ In({"queued"}) = {}
      /\ slots.total = 0 /\ active = 0

\* "New clients would connect fine and then hang unserved until we exit": once told
\* to stop, the loop refuses every client in the queue, although relays go on and
\* accept() may be failing.
NobodyHangs == \A c \in Conns : stop /\ conn[c] = "queued" ~> conn[c] # "queued"

\* The first bytes a target gets tell it the client's address and port, on an IPv4,
\* IPv6 or dual-stack listener alike, and end where the client's data begins; the
\* LOCAL form, which names nobody, is left to a mismatch of the families.
HeaderTellsClient ==
    \A c \in In({"relay", "closing"}) : header =>
      LET told == Receive(upstream[c] \o <<"data">>)
      IN  /\ told.data = <<"data">>
          /\ \/ /\ told.cmd = "PROXY" /\ told.port = Peer[c].port
                /\ told.client = octets(Canonical(Peer[c].ip))
             \/ /\ told.cmd = "LOCAL"
                /\ Canonical(Peer[c].ip).family # Canonical(Local[c].ip).family

\* Seen from main.rs the server is the task ProxyTask describes: from the step that
\* closes the listener it opens no connection, though it may have opened some after
\* the tokens were cancelled; it returns when the last has ended and not before.
Task == INSTANCE ProxyTask WITH phase <- CASE lpc = "exited" -> "ok"
                                           [] lpc = "join"   -> "drain"
                                           [] OTHER          -> "serve",
                                busy  <- Guarded # {}
ServesAsTask == Task!Spec /\ Task!Live
=============================================================================
