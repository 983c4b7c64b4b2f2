----------------------------- MODULE MetricsExporter -----------------------------
(***************************************************************************)
(* The exporter of src/src/metrics.rs: the accept loop serve, which hands     *)
(* every connection that finds a permit of the semaphore to a task of its own *)
(* and drops the others, and the task, handle_request under REQUEST_TIMEOUT.  *)
(*                                                                         *)
(* A request is a number of pieces, sent one by one.  What a client has sent  *)
(* and the task has not read is in the receive buffer of the socket; a socket *)
(* closed with unread data, or sent to after it was closed, is reset, and a   *)
(* reset destroys an answer the client has not read yet.                      *)
(***************************************************************************)
EXTENDS Integers, FiniteSets

CONSTANTS Clients,         \* connections to the exporter
          Kinds,           \* Kinds[c]: the requests c may send
          Stallers,        \* the clients that may never read
          MAX_INFLIGHT,    \* permits of the semaphore
          REQUEST_TIMEOUT, \* ticks a request may take in all
          DRAIN_TIMEOUT,   \* ticks the drain after the answer may take
          BufSize          \* pieces that fit into the buffer of the request line

\* metrics: the line asks for GET /metrics; eol: the piece with the first newline;
\* size: pieces in all.  The method and path are complete only with the piece path.
ASSUME ExporterAssumption ==
    /\ IsFiniteSet(Clients) /\ MAX_INFLIGHT \in Nat \ {0} /\ BufSize \in Nat \ {0}
    /\ DRAIN_TIMEOUT \in Nat \ {0} /\ REQUEST_TIMEOUT \in Nat /\ DRAIN_TIMEOUT < REQUEST_TIMEOUT
    /\ \A c \in Clients : \A k \in Kinds[c] :
         /\ k \in [metrics : BOOLEAN, path : 1..BufSize, eol : Nat \ {0}, size : Nat \ {0}]
         /\ k.path <= k.eol /\ k.eol <= k.size

VARIABLES
    stop,      \* the token shutdown
    lpc,       \* the loop: "select", "backoff" or "exited"
    permits,   \* what is left of the semaphore
    conn,      \* conn[c]: "away", "queued", "read", "write", "drain", or how it ended
    kind,      \* kind[c]: the request c sends
    stalled,   \* the clients that never read an answer larger than the buffers
    sent,      \* sent[c]: pieces c has sent
    fin,       \* fin[c]: c will send no more
    taken,     \* taken[c]: pieces read by the task
    answer,    \* answer[c]: the status written, or "none"
    seen,      \* seen[c]: what c received: "none", a status, or "lost"
    age,       \* age[c]: ticks since the task of c started
    due,       \* due[c]: the age at which the drain gives up
    wrote      \* history: the age at which the answer was written

clientVars == <<kind, stalled, sent, fin>>
drainVars == <<due, wrote>>
vars == <<stop, lpc, permits, conn, clientVars, taken, answer, seen, age, drainVars>>

InFlight == {c \in Clients : conn[c] \in {"read", "write", "drain"}}
Move(c, place) == conn' = [conn EXCEPT ![c] = place]

Init ==
    /\ stop = FALSE /\ lpc = "select" /\ permits = MAX_INFLIGHT
    /\ conn = [c \in Clients |-> "away"]
    /\ kind \in {k \in [Clients -> UNION {Kinds[c] : c \in Clients}] :
                  \A c \in Clients : k[c] \in Kinds[c]}
    /\ stalled \in SUBSET Stallers
    /\ sent = [c \in Clients |-> 0] /\ fin = [c \in Clients |-> FALSE]
    /\ taken = [c \in Clients |-> 0]
    /\ answer = [c \in Clients |-> "none"] /\ seen = [c \in Clients |-> "none"]
    /\ age = [c \in Clients |-> 0] /\ due = [c \in Clients |-> 0]
    /\ wrote = [c \in Clients |-> 0]

\* The kernel resets the connection of c: an answer not read yet is lost.
Reset(c) ==
    seen' = [seen EXCEPT ![c] = IF @ = "none" /\ answer[c] # "none" THEN "lost" ELSE @]

\* The socket of c is dropped.
Closes(c) == IF sent[c] > taken[c] THEN Reset(c) ELSE UNCHANGED seen

-----------------------------------------------------------------------------
(* The clients, and main.rs, which cancels the token.                        *)

Connects(c) ==
    /\ conn[c] = "away" /\ lpc # "exited"
    /\ Move(c, "queued")
    /\ UNCHANGED <<stop, lpc, permits, clientVars, taken, answer, seen, age, drainVars>>

Closed(c) == conn[c] \notin {"away", "queued", "read", "write", "drain"}

\* The next piece.  Data for a closed socket is answered by a reset, which matters
\* to a client that waits for its answer.
Sends(c) ==
    /\ conn[c] # "away" /\ ~fin[c] /\ sent[c] < kind[c].size
    /\ ~Closed(c) \/ (conn[c] # "error" /\ answer[c] # "none" /\ seen[c] = "none")
    /\ sent' = [sent EXCEPT ![c] = @ + 1]
    /\ IF Closed(c) THEN Reset(c) ELSE UNCHANGED seen
    /\ UNCHANGED <<stop, lpc, permits, conn, kind, stalled, fin, taken, answer, age, drainVars>>

SendsEof(c) ==
    /\ conn[c] # "away" /\ ~fin[c] /\ ~Closed(c)
    /\ fin' = [fin EXCEPT ![c] = TRUE]
    /\ UNCHANGED <<stop, lpc, permits, conn, kind, stalled, sent, taken, answer, seen, age, drainVars>>

\* The client reads the answer the kernel holds for it.
Receives(c) ==
    /\ answer[c] # "none" /\ seen[c] = "none" /\ c \notin stalled
    /\ seen' = [seen EXCEPT ![c] = answer[c]]
    /\ UNCHANGED <<stop, lpc, permits, conn, clientVars, taken, answer, age, drainVars>>

Stop ==
    /\ ~stop /\ stop' = TRUE
    /\ UNCHANGED <<lpc, permits, conn, clientVars, taken, answer, seen, age, drainVars>>

-----------------------------------------------------------------------------
(* serve.  Its select is biased towards the token.                           *)

\* The listener is dropped; the kernel resets what waits in its queue.  The tasks
\* are not joined: they go on until the process exits.
Returns ==
    /\ lpc = "select" /\ stop
    /\ lpc' = "exited"
    /\ conn' = [c \in Clients |-> IF conn[c] = "queued" THEN "refused" ELSE conn[c]]
    /\ UNCHANGED <<stop, permits, clientVars, taken, answer, seen, age, drainVars>>

AcceptErr ==
    /\ lpc = "select" /\ ~stop
    /\ lpc' = "backoff"
    /\ UNCHANGED <<stop, permits, conn, clientVars, taken, answer, seen, age, drainVars>>

BackoffOver ==
    /\ lpc = "backoff"
    /\ lpc' = "select"
    /\ UNCHANGED <<stop, permits, conn, clientVars, taken, answer, seen, age, drainVars>>

\* The order of the accept queue does not matter here.
Accept(c) ==
    /\ lpc = "select" /\ ~stop /\ conn[c] = "queued" /\ permits > 0
    /\ permits' = permits - 1
    /\ Move(c, "read")
    /\ UNCHANGED <<stop, lpc, clientVars, taken, answer, seen, age, drainVars>>

\* try_acquire_owned finds no permit: the stream is dropped.
AtCap(c) ==
    /\ lpc = "select" /\ ~stop /\ conn[c] = "queued" /\ permits = 0
    /\ Move(c, "dropped")
    /\ Closes(c)
    /\ UNCHANGED <<stop, lpc, permits, clientVars, taken, answer, age, drainVars>>

-----------------------------------------------------------------------------
(* handle_request.  A task ends "served", "timeout" or "error", and its permit *)
(* and socket are dropped with it.                                           *)

\* The task of c ends with the socket dropped and the permit given back.
Ends(c, how) ==
    /\ Move(c, how)
    /\ Closes(c)
    /\ permits' = permits + 1
    /\ UNCHANGED <<stop, lpc, clientVars, taken, answer, age, drainVars>>

Least(m, n) == IF m < n THEN m ELSE n

\* The loop goes on: no newline yet, and room in the buffer.
ReadOn(c) == taken'[c] < kind[c].eol /\ taken'[c] < BufSize

\* stream.read returns what has arrived and fits into the buffer.
Reads(c) ==
    /\ conn[c] = "read" /\ sent[c] > taken[c]
    /\ taken' = [taken EXCEPT ![c] = Least(sent[c], BufSize)]
    /\ Move(c, IF ReadOn(c) THEN "read" ELSE "write")
    /\ UNCHANGED <<stop, lpc, permits, clientVars, answer, seen, age, drainVars>>

\* The read returns 0.
ReadsEof(c) ==
    /\ conn[c] = "read" /\ fin[c] /\ sent[c] = taken[c]
    /\ Move(c, "write")
    /\ UNCHANGED <<stop, lpc, permits, clientVars, taken, answer, seen, age, drainVars>>

\* first_line, its method and its path.
Status(c) == IF kind[c].metrics /\ taken[c] >= kind[c].path THEN "200" ELSE "404"

\* Both write_all, the flush and stream.shutdown.
Writes(c) ==
    /\ conn[c] = "write" /\ c \notin stalled
    /\ answer' = [answer EXCEPT ![c] = Status(c)]
    /\ Move(c, "drain")
    /\ due' = [due EXCEPT ![c] = age[c] + DRAIN_TIMEOUT]
    /\ wrote' = [wrote EXCEPT ![c] = age[c]]
    /\ UNCHANGED <<stop, lpc, permits, clientVars, taken, seen, age>>

\* A slip: the drain's timeout starts again with every read.
MutDrains(c) ==
    /\ conn[c] = "drain" /\ sent[c] > taken[c]
    /\ taken' = [taken EXCEPT ![c] = sent[c]]
    /\ due' = [due EXCEPT ![c] = age[c] + DRAIN_TIMEOUT]
    /\ UNCHANGED <<stop, lpc, permits, conn, clientVars, answer, seen, age, wrote>>

Drains(c) ==
    /\ conn[c] = "drain" /\ sent[c] > taken[c]
    /\ taken' = [taken EXCEPT ![c] = sent[c]]
    /\ UNCHANGED <<stop, lpc, permits, conn, clientVars, answer, seen, age, drainVars>>

\* A slip: no drain.
MutDrained(c) == conn[c] = "drain" /\ Ends(c, "served")

\* The drain reads 0 or its timeout elapses; timeout polls the read before the timer.
Drained(c) ==
    /\ conn[c] = "drain" /\ sent[c] = taken[c]
    /\ fin[c] \/ age[c] >= due[c]
    /\ Ends(c, "served")

\* The client resets the connection, and the read or write in progress fails.
Fails(c) == c \in InFlight /\ Ends(c, "error")

\* What the task of c can do without waiting.
Ready(c) ==
    \/ conn[c] \in {"read", "drain"} /\ (sent[c] > taken[c] \/ fin[c])
    \/ conn[c] = "write" /\ c \notin stalled
    \/ conn[c] = "drain" /\ age[c] >= due[c]

\* A slip: no limit on the request as a whole.
MutNoTimeout(c) == FALSE

\* A slip: the permit is not given back by a request that timed out.
MutTimesOut(c) ==
    /\ c \in InFlight /\ age[c] >= REQUEST_TIMEOUT /\ ~Ready(c)
    /\ Move(c, "timeout")
    /\ Closes(c)
    /\ UNCHANGED <<stop, lpc, permits, clientVars, taken, answer, age, drainVars>>

\* REQUEST_TIMEOUT elapses; the request is polled before the timer.
TimesOut(c) == c \in InFlight /\ age[c] >= REQUEST_TIMEOUT /\ ~Ready(c) /\ Ends(c, "timeout")

\* A tick is long: every task that can go on does so before, and due timers fire.
Advance ==
    /\ InFlight # {} /\ \A c \in InFlight : ~Ready(c) /\ age[c] < REQUEST_TIMEOUT
    /\ age' = [c \in Clients |-> IF c \in InFlight THEN age[c] + 1 ELSE age[c]]
    /\ UNCHANGED <<stop, lpc, permits, conn, clientVars, taken, answer, seen, drainVars>>

-----------------------------------------------------------------------------
Client(c) == Connects(c) \/ Sends(c) \/ SendsEof(c) \/ Receives(c)
Loop == Returns \/ AcceptErr \/ BackoffOver \/ \E c \in Clients : Accept(c) \/ AtCap(c)
Task(c) == Reads(c) \/ ReadsEof(c) \/ Writes(c) \/ Drains(c) \/ Drained(c) \/ TimesOut(c)

Next == Stop \/ Loop \/ Advance \/ \E c \in Clients : Client(c) \/ Task(c) \/ Fails(c)

Spec == Init /\ [][Next]_vars

\* The runtime polls what can go on, and time passes.  Nothing is assumed of clients.
FairSpec == /\ Spec
            /\ WF_vars(Returns \/ BackoffOver \/ \E c \in Clients : Accept(c) \/ AtCap(c))
            /\ \A c \in Clients : WF_vars(Task(c))
            /\ WF_vars(Advance)

-----------------------------------------------------------------------------
\* Every permit is held by a task that runs, on each of the ways a task ends, also
\* when serve has returned: the cap neither leaks nor lets more in.
PermitsAreTasks == permits + Cardinality(InFlight) = MAX_INFLIGHT

\* "So a client that simply keeps the connection open can't pin this handler": no
\* client, silent, dripping or not reading, holds a permit longer than
\* REQUEST_TIMEOUT, nor longer than the drain's timeout once it is answered.
HoldsPermitBriefly ==
    \A c \in InFlight : /\ age[c] <= REQUEST_TIMEOUT
                        /\ conn[c] = "drain" => age[c] - wrote[c] <= DRAIN_TIMEOUT

\* An answer is the right one for the whole request line, however its pieces arrive
\* and although an overlong line is cut, and it is not destroyed by our own close
\* ("an RST, which can discard the response we just wrote"): only a client that was
\* still sending when its time was up loses it.
AnswerReaches ==
    \A c \in Clients : answer[c] # "none" =>
      /\ answer[c] = "200" <=> kind[c].metrics /\ sent[c] >= kind[c].path
      /\ seen[c] = "lost" => \/ conn[c] = "error" \/ age[c] = REQUEST_TIMEOUT
                              \/ age[c] - wrote[c] = DRAIN_TIMEOUT

\* Clients that hold every permit and stay silent lock the scraper out only for a
\* while.
PermitsReturn == permits = 0 ~> permits > 0
=============================================================================
