----------------------------- MODULE TcpServerProofs -----------------------------
(***************************************************************************)
(* Proofs about the accept loop and the connection tasks of                   *)
(* src/src/proxy/tcp.rs, for any number of clients, any caps and addresses.   *)
(***************************************************************************)
EXTENDS TcpServer, ConnLimitsProofs, FiniteSetTheorems, SequenceTheorems, TLAPS

HandlePlaces == {"connect", "header", "relay", "closing", "ending"}

\* The steps that only move the accept loop on.
LoopOnly == PollsToken \/ PollsTasks \/ Pends \/ AcceptErr \/ BackoffOver \/ Return

-----------------------------------------------------------------------------
(* Types.                                                                    *)

LEMMA TypeEnvironment == TypeOK /\ Environment => TypeOK'
  <1> SUFFICES ASSUME TypeOK, Environment PROVE TypeOK'
    OBVIOUS
  <1> USE DEF TypeOK, Places, confVars, tokenVars, metricVars, outcomeVars
  <1>1. CASE Stop
    BY <1>1 DEF Stop
  <1>2. CASE ForceShutdown
    BY <1>2 DEF ForceShutdown
  <1>3. ASSUME NEW c \in Conns, ClientConnects(c) PROVE TypeOK'
    BY <1>3 DEF ClientConnects, Move, Listening
  <1>4. ASSUME NEW c \in Conns, ClientRefused(c) PROVE TypeOK'
    BY <1>4 DEF ClientRefused, Move
  <1>5. QED
    BY <1>1, <1>2, <1>3, <1>4 DEF Environment

LEMMA TypeAcceptLoop == TypeOK /\ AcceptLoop => TypeOK'
  <1> SUFFICES ASSUME TypeOK, AcceptLoop PROVE TypeOK'
    OBVIOUS
  <1> USE DEF TypeOK, Places, confVars, tokenVars, metricVars, outcomeVars
  <1>1. CASE StopListening
    BY <1>1 DEF StopListening
  <1>2. ASSUME NEW c \in Conns, JoinNext(c) PROVE TypeOK'
    BY <1>2 DEF JoinNext, Move
  <1>3. CASE Accept
    BY <1>3 DEF Accept, Accepts, Move
  <1>4. CASE Reject
    <2>1. rejected' \in [total : Nat, per_ip : Nat]
      BY <1>4 DEF Reject
    <2>2. QED
      BY <1>4, <2>1 DEF Reject, Accepts, Move
  <1>5. CASE LoopOnly
    BY <1>5 DEF LoopOnly, LoopMoves, PollsToken, PollsTasks, Pends, AcceptErr, BackoffOver, Return
  <1>6. QED
    BY <1>1, <1>2, <1>3, <1>4, <1>5 DEF AcceptLoop, Serves, Joins, LoopOnly

LEMMA TypeHandle == ASSUME TypeOK, NEW c \in Conns, Handle(c) PROVE TypeOK'
  <1> USE DEF TypeOK, Places, Move, confVars, tokenVars, metricVars, outcomeVars
  <1>1. CASE HandleAborts(c)
    BY <1>1 DEF HandleAborts
  <1>2. CASE ConnectedPlain(c)
    BY <1>2 DEF ConnectedPlain, Relaying
  <1>3. CASE ConnectedHeader(c)
    BY <1>3 DEF ConnectedHeader
  <1>4. CASE HeaderWritten(c)
    BY <1>4 DEF HeaderWritten, Relaying
  <1>5. CASE ConnectTimesOut(c)
    BY <1>5 DEF ConnectTimesOut
  <1>6. CASE ConnectFails(c)
    BY <1>6 DEF ConnectFails
  <1>7. CASE RelayCloses(c)
    BY <1>7 DEF RelayCloses
  <1>8. CASE RelayLeaves(c)
    BY <1>8 DEF RelayLeaves
  <1>9. CASE TaskEnds(c)
    BY <1>9 DEF TaskEnds
  <1>10. QED
    BY <1>1, <1>2, <1>3, <1>4, <1>5, <1>6, <1>7, <1>8, <1>9 DEF Handle

\* The loop, the connections and the metrics keep their types: in particular the loop
\* of serve_graceful leaves its select for good only after stop_accepting.
THEOREM ServerType == Spec => []TypeOK
  <1>1. Init => TypeOK
    <2> SUFFICES ASSUME Init PROVE TypeOK
      OBVIOUS
    <2>1. stop \in BOOLEAN /\ force \in BOOLEAN /\ ~stop /\ ~force
      BY DEF Init
    <2>2. conn \in [Conns -> Places]
      BY DEF Init, Places
    <2>3. backlog \in Seq(Conns)
      BY DEF Init
    <2>4. rejected \in [total : Nat, per_ip : Nat]
      BY DEF Init
    <2>5. lpc = "select" /\ opened \in Nat /\ failures \in Nat /\ timeouts \in Nat
          /\ closed \in Nat /\ active \in Int
      BY DEF Init
    <2>6. QED
      BY <2>1, <2>2, <2>3, <2>4, <2>5 DEF TypeOK
  <1>2. TypeOK /\ [Next]_vars => TypeOK'
    <2> SUFFICES ASSUME TypeOK, [Next]_vars PROVE TypeOK'
      OBVIOUS
    <2>1. CASE UNCHANGED vars
      BY <2>1 DEF TypeOK, vars, confVars, tokenVars, metricVars, outcomeVars
    <2>2. QED
      BY <2>1, TypeEnvironment, TypeAcceptLoop, TypeHandle DEF Next
  <1>3. QED
    BY <1>1, <1>2, PTL DEF Spec

-----------------------------------------------------------------------------
(* The refinement of ProxyTask.                                              *)

\* A connection that moves between two places outside handle, or two inside, opens
\* and empties nothing.
LEMMA MoveKeeps ==
    ASSUME TypeOK, NEW c \in Conns, NEW place \in Places, Move(c, place),
           conn[c] \in HandlePlaces <=> place \in HandlePlaces
    PROVE  Guarded' = Guarded
  BY DEF TypeOK, Move, Guarded, In, HandlePlaces

LEMMA MoveLeaves ==
    ASSUME TypeOK, NEW c \in Conns, NEW place \in Places \ HandlePlaces, Move(c, place)
    PROVE  Guarded' = Guarded \ {c}
  BY DEF TypeOK, Move, Guarded, In, HandlePlaces

LEMMA MoveEnters ==
    ASSUME TypeOK, NEW c \in Conns, Move(c, "connect")
    PROVE  Guarded' # {}
  <1>1. c \in Guarded'
    BY DEF TypeOK, Move, Guarded, In
  <1>2. QED
    BY <1>1

Phase == CASE lpc = "exited" -> "ok"
           [] lpc = "join"   -> "drain"
           [] OTHER          -> "serve"

LEMMA StutterOrEmpties ==
    ASSUME UNCHANGED <<stop, force>>, Phase' = Phase, Guarded' \subseteq Guarded
    PROVE  [Task!Next]_(Task!vars)
  <1>1. CASE Guarded' = {} /\ Guarded # {}
    BY <1>1 DEF Task!Next, Task!Empties, Phase
  <1>2. CASE ~(Guarded' = {} /\ Guarded # {})
    BY <1>2 DEF Task!vars, Phase
  <1>3. QED
    BY <1>1, <1>2

LEMMA HandleMaps ==
    ASSUME TypeOK, NEW c \in Conns, Handle(c)
    PROVE  [Task!Next]_(Task!vars)
  <1> USE DEF HandlePlaces, Places, tokenVars
  <1>1. UNCHANGED <<stop, force, lpc>>
    BY DEF Handle, HandleAborts, ConnectedPlain, ConnectedHeader, HeaderWritten, Relaying,
           ConnectTimesOut, ConnectFails, RelayCloses, RelayLeaves, TaskEnds
  <1>2. CASE TaskEnds(c)
    <2>1. Guarded' = Guarded \ {c}
      BY <1>2, MoveLeaves DEF TaskEnds
    <2>2. QED
      BY <1>1, <2>1, StutterOrEmpties DEF Phase
  <1>3. CASE ~TaskEnds(c)
    <2>1. PICK place \in HandlePlaces : conn[c] \in HandlePlaces /\ Move(c, place)
      BY <1>3 DEF Handle, HandleAborts, ConnectedPlain, ConnectedHeader, HeaderWritten,
                  Relaying, ConnectTimesOut, ConnectFails, RelayCloses, RelayLeaves
    <2>2. Guarded' = Guarded
      BY <2>1, MoveKeeps
    <2>3. QED
      BY <1>1, <2>2, StutterOrEmpties DEF Phase
  <1>4. QED
    BY <1>2, <1>3

LEMMA EnvironmentMaps == TypeOK /\ Environment => [Task!Next]_(Task!vars)
  <1> SUFFICES ASSUME TypeOK, Environment PROVE [Task!Next]_(Task!vars)
    OBVIOUS
  <1> USE DEF HandlePlaces, Places, tokenVars
  <1>1. CASE Stop
    <2>1. Guarded' = Guarded
      BY <1>1 DEF Stop, Guarded, In
    <2>2. QED
      BY <1>1, <2>1 DEF Stop, Task!Next, Task!Stop
  <1>2. CASE ForceShutdown
    <2>1. Guarded' = Guarded
      BY <1>2 DEF ForceShutdown, Guarded, In
    <2>2. QED
      BY <1>2, <2>1 DEF ForceShutdown, Task!Next, Task!Force
  <1>3. ASSUME NEW c \in Conns, ClientConnects(c) PROVE [Task!Next]_(Task!vars)
    <2>1. Guarded' = Guarded
      BY <1>3, MoveKeeps DEF ClientConnects
    <2>2. QED
      BY <1>3, <2>1, StutterOrEmpties DEF ClientConnects, Phase
  <1>4. ASSUME NEW c \in Conns, ClientRefused(c) PROVE [Task!Next]_(Task!vars)
    <2>1. Guarded' = Guarded
      BY <1>4, MoveKeeps DEF ClientRefused
    <2>2. QED
      BY <1>4, <2>1, StutterOrEmpties DEF ClientRefused, Phase
  <1>5. QED
    BY <1>1, <1>2, <1>3, <1>4 DEF Environment

LEMMA AcceptLoopMaps == TypeOK /\ AcceptLoop => [Task!Next]_(Task!vars)
  <1> SUFFICES ASSUME TypeOK, AcceptLoop PROVE [Task!Next]_(Task!vars)
    OBVIOUS
  <1> USE DEF HandlePlaces, Places, tokenVars
  <1>1. CASE StopListening
    <2>1. Guarded' = Guarded
      BY <1>1 DEF TypeOK, StopListening, Guarded, In
    <2>2. QED
      BY <1>1, <2>1 DEF StopListening, Task!Next, Task!Closes
  <1>2. ASSUME NEW c \in Conns, JoinNext(c) PROVE [Task!Next]_(Task!vars)
    <2>1. Guarded' = Guarded
      BY <1>2, MoveKeeps DEF JoinNext
    <2>2. UNCHANGED <<stop, force>> /\ Phase' = Phase
      BY <1>2 DEF JoinNext, Phase
    <2>3. QED
      BY <2>1, <2>2, StutterOrEmpties
  <1>3. CASE Accept
    <2>1. /\ lpc = "accept" /\ lpc' = "select" /\ UNCHANGED <<stop, force>>
          /\ Head(backlog) \in Conns /\ Move(Head(backlog), "connect")
      BY <1>3 DEF TypeOK, Accept, Accepts
    <2>2. Guarded' # {}
      BY <2>1, MoveEnters
    <2>3. CASE Guarded = {}
      BY <2>1, <2>2, <2>3 DEF Task!Next, Task!Opens
    <2>4. CASE Guarded # {}
      BY <2>1, <2>2, <2>4 DEF Task!vars
    <2>5. QED
      BY <2>3, <2>4
  <1>4. CASE Reject
    <2>1. /\ UNCHANGED <<stop, force>> /\ Phase' = Phase
          /\ Head(backlog) \in Conns /\ Move(Head(backlog), "rejected")
      BY <1>4 DEF TypeOK, Reject, Accepts, Phase
    <2>2. Guarded' = Guarded \ {Head(backlog)}
      BY <2>1, MoveLeaves
    <2>3. QED
      BY <2>1, <2>2, StutterOrEmpties
  <1>5. CASE PollsToken \/ PollsTasks \/ Pends \/ AcceptErr \/ BackoffOver
    <2>1. UNCHANGED <<stop, force, conn>> /\ Phase' = Phase
      BY <1>5 DEF PollsToken, PollsTasks, Pends, AcceptErr, BackoffOver, LoopMoves, Phase
    <2>2. QED
      BY <2>1, StutterOrEmpties DEF Guarded, In
  <1>6. CASE Return
    <2>1. Guarded' = {} /\ Guarded = {}
      BY <1>6 DEF Return, LoopMoves, Guarded, In
    <2>2. QED
      BY <1>6, <2>1 DEF Return, LoopMoves, Task!Next, Task!Returns
  <1>7. QED
    BY <1>1, <1>2, <1>3, <1>4, <1>5, <1>6 DEF AcceptLoop, Serves, Joins

\* Seen from main.rs the server only ever does what the task of ProxyTask may do: it
\* closes its listener before it returns and only once told to stop, opens no
\* connection after that, though it may between the poll of the token and the accept,
\* and never returns with one open.  This is the safety part of ServesAsTask.
THEOREM ServerIsTask == Spec => Task!Spec
  <1>1. Init => Task!Init
    BY DEF Init, Task!Init, Guarded, In
  <1>2. TypeOK /\ [Next]_vars => [Task!Next]_(Task!vars)
    <2> SUFFICES ASSUME TypeOK, [Next]_vars PROVE [Task!Next]_(Task!vars)
      OBVIOUS
    <2>1. CASE UNCHANGED vars
      <3>1. UNCHANGED <<stop, force>> /\ Phase' = Phase /\ Guarded' = Guarded
        BY <2>1 DEF vars, tokenVars, Guarded, In, Phase
      <3>2. QED
        BY <3>1, StutterOrEmpties
    <2>2. QED
      BY <2>1, EnvironmentMaps, AcceptLoopMaps, HandleMaps DEF Next
  <1>3. QED
    BY <1>1, <1>2, ServerType, PTL DEF Spec, Task!Spec

-----------------------------------------------------------------------------
(* The accept queue: what it holds is queued, and each client once.          *)

\* The accept queue holds the clients that wait, each once.
Queue ==
    /\ \A i \in 1..Len(backlog) : conn[backlog[i]] = "queued"
    /\ \A i, j \in 1..Len(backlog) : backlog[i] = backlog[j] => i = j

LEMMA QueueTail ==
    ASSUME TypeOK, Queue, Accepts, NEW place, Move(Head(backlog), place)
    PROVE  Queue'
  <1>1. /\ backlog # <<>> /\ backlog \in Seq(Conns) /\ conn \in [Conns -> Places]
        /\ backlog' = Tail(backlog)
        /\ conn' = [conn EXCEPT ![Head(backlog)] = place]
    BY DEF TypeOK, Accepts, Move
  <1>2. /\ Len(backlog') = Len(backlog) - 1 /\ Len(backlog) \in Nat \ {0}
        /\ \A i \in 1..Len(backlog') : /\ backlog'[i] = backlog[i + 1]
                                       /\ i + 1 \in 2..Len(backlog)
                                       /\ backlog[i + 1] \in Conns
        /\ Head(backlog) = backlog[1] /\ 1 \in 1..Len(backlog)
    BY <1>1
  <1>3. ASSUME NEW i \in 1..Len(backlog') PROVE conn'[backlog'[i]] = "queued"
    <2>1. backlog[i + 1] # backlog[1]
      BY <1>2 DEF Queue
    <2>2. conn[backlog[i + 1]] = "queued"
      BY <1>2 DEF Queue
    <2>3. QED
      BY <1>1, <1>2, <2>1, <2>2
  <1>4. ASSUME NEW i \in 1..Len(backlog'), NEW j \in 1..Len(backlog'), backlog'[i] = backlog'[j]
        PROVE  i = j
    BY <1>2, <1>4 DEF Queue
  <1>5. QED
    BY <1>3, <1>4 DEF Queue

\* A connection outside the queue moves, and not into it.
LEMMA QueueAside ==
    ASSUME TypeOK, Queue, NEW c \in Conns, conn[c] # "queued", NEW place, Move(c, place),
           UNCHANGED backlog
    PROVE  Queue'
  <1>1. \A i \in 1..Len(backlog) : backlog[i] \in Conns
    BY DEF TypeOK
  <1>2. \A i \in 1..Len(backlog) : conn'[backlog[i]] = "queued"
    BY <1>1 DEF TypeOK, Queue, Move
  <1>3. QED
    BY <1>2 DEF Queue

LEMMA QueueStep == TypeOK /\ Queue /\ [Next]_vars => Queue'
  <1> SUFFICES ASSUME TypeOK, Queue, [Next]_vars PROVE Queue'
    OBVIOUS
  <1>1. ASSUME NEW c \in Conns, ClientConnects(c) PROVE Queue'
    <2>1. /\ backlog' = Append(backlog, c) /\ conn' = [conn EXCEPT ![c] = "queued"]
          /\ conn[c] = "away" /\ backlog \in Seq(Conns) /\ conn \in [Conns -> Places]
      BY <1>1 DEF TypeOK, ClientConnects, Move
    <2>2. /\ Len(backlog') = Len(backlog) + 1 /\ Len(backlog) \in Nat
          /\ backlog'[Len(backlog) + 1] = c
          /\ \A i \in 1..Len(backlog) : backlog'[i] = backlog[i] /\ backlog[i] \in Conns
          /\ \A i \in 1..Len(backlog') : i \in 1..Len(backlog) \/ i = Len(backlog) + 1
      BY <2>1
    <2>3. \A i \in 1..Len(backlog) : backlog[i] # c /\ conn'[backlog[i]] = "queued"
      BY <2>1, <2>2 DEF Queue
    <2>4. \A i \in 1..Len(backlog') : conn'[backlog'[i]] = "queued"
      BY <2>1, <2>2, <2>3
    <2>5. \A i, j \in 1..Len(backlog') : backlog'[i] = backlog'[j] => i = j
      BY <2>2, <2>3 DEF Queue
    <2>6. QED
      BY <2>4, <2>5 DEF Queue
  <1>2. ASSUME NEW c \in Conns, ClientRefused(c) PROVE Queue'
    BY <1>2, QueueAside DEF ClientRefused
  <1>3. CASE Stop \/ ForceShutdown \/ LoopOnly \/ UNCHANGED vars
    <2>1. UNCHANGED <<backlog, conn>>
      BY <1>3 DEF Stop, ForceShutdown, LoopOnly, PollsToken, PollsTasks, Pends, AcceptErr,
             BackoffOver, Return, LoopMoves, vars
    <2>2. QED
      BY <2>1 DEF Queue
  <1>4. CASE StopListening
    BY <1>4 DEF StopListening, Queue
  <1>5. ASSUME NEW c \in Conns, JoinNext(c) PROVE Queue'
    BY <1>5, QueueAside DEF JoinNext
  <1>6. CASE Accept
    BY <1>6, QueueTail DEF Accept
  <1>7. CASE Reject
    BY <1>7, QueueTail DEF Reject
  <1>8. ASSUME NEW c \in Conns, Handle(c) PROVE Queue'
    <2>1. /\ conn[c] # "queued" /\ UNCHANGED backlog
          /\ \E place \in Places : Move(c, place)
      BY <1>8 DEF Places, Handle, HandleAborts, ConnectedPlain, ConnectedHeader, HeaderWritten,
                  Relaying, ConnectTimesOut, ConnectFails, RelayCloses, RelayLeaves, TaskEnds
    <2>2. QED
      BY <2>1, QueueAside
  <1>9. QED
    BY <1>1, <1>2, <1>3, <1>4, <1>5, <1>6, <1>7, <1>8
       DEF Next, Environment, AcceptLoop, Serves, Joins, LoopOnly

-----------------------------------------------------------------------------
(* Outcomes: how a move changes the number of connections in some places.    *)

LEMMA CardMove ==
    ASSUME TypeOK, NEW P, NEW c \in Conns, NEW place, Move(c, place), IsFiniteSet(In(P))
    PROVE  /\ IsFiniteSet(In(P)')
           /\ Cardinality(In(P)) \in Nat
           /\ (place \in P /\ conn[c] \in P) => Cardinality(In(P)') = Cardinality(In(P))
           /\ (place \notin P /\ conn[c] \notin P) => Cardinality(In(P)') = Cardinality(In(P))
           /\ (place \in P /\ conn[c] \notin P) => Cardinality(In(P)') = Cardinality(In(P)) + 1
           /\ (place \notin P /\ conn[c] \in P) => Cardinality(In(P)') = Cardinality(In(P)) - 1
  <1>1. /\ (place \in P <=> conn[c] \in P) => In(P)' = In(P)
        /\ (place \in P /\ conn[c] \notin P) => In(P)' = In(P) \cup {c} /\ c \notin In(P)
        /\ (place \notin P /\ conn[c] \in P) => In(P)' = In(P) \ {c} /\ c \in In(P)
    BY DEF TypeOK, Move, In
  <1>2. /\ IsFiniteSet(In(P) \cup {c}) /\ IsFiniteSet(In(P) \ {c})
        /\ c \notin In(P) => Cardinality(In(P) \cup {c}) = Cardinality(In(P)) + 1
        /\ c \in In(P) => Cardinality(In(P) \ {c}) = Cardinality(In(P)) - 1
    BY FS_AddElement, FS_RemoveElement
  <1>3. Cardinality(In(P)) \in Nat
    BY FS_CardinalityType
  <1>4. QED
    BY <1>1, <1>2, <1>3

UndecidedPlaces == {"connect", "header", "relay"}
RelayPlaces == {"relay", "closing"}
Undecided == In(UndecidedPlaces)
Relays == In(RelayPlaces)

Outcomes == /\ IsFiniteSet(Undecided) /\ IsFiniteSet(Relays)
            /\ OutcomesAddUp

\* Steps that touch neither kind of connection nor any counter.
LEMMA OutcomesKept ==
    ASSUME TypeOK, Outcomes, Undecided' = Undecided, Relays' = Relays,
           force => force', UNCHANGED <<opened, failures, timeouts, closed, active>>
    PROVE  Outcomes'
  <1>1. Cardinality(Undecided) \in Nat
    BY FS_CardinalityType DEF Outcomes
  <1>2. QED
    BY <1>1 DEF Outcomes, OutcomesAddUp, TypeOK, Undecided, Relays, UndecidedPlaces,
              RelayPlaces

LEMMA OutcomesStep == TypeOK /\ Queue /\ Outcomes /\ [Next]_vars => Outcomes'
  <1> SUFFICES ASSUME TypeOK, Queue, Outcomes, [Next]_vars PROVE Outcomes'
    OBVIOUS
  <1> USE DEF tokenVars, metricVars, outcomeVars
  <1> DEFINE u == Cardinality(In(UndecidedPlaces))
             r == Cardinality(In(RelayPlaces))
  <1>p. /\ {"connect", "header", "relay"} = UndecidedPlaces
        /\ {"relay", "closing"} = RelayPlaces
        /\ \A p : p \in UndecidedPlaces <=> p = "connect" \/ p = "header" \/ p = "relay"
        /\ \A p : p \in RelayPlaces <=> p = "relay" \/ p = "closing"
    BY DEF UndecidedPlaces, RelayPlaces
  <1>0. /\ IsFiniteSet(In(UndecidedPlaces)) /\ IsFiniteSet(In(RelayPlaces)) /\ u \in Nat /\ r \in Nat
        /\ failures + timeouts + closed + u <= opened
        /\ ~force => failures + timeouts + closed + u = opened
        /\ active = r
        /\ opened \in Nat /\ failures \in Nat /\ timeouts \in Nat /\ closed \in Nat
    BY FS_CardinalityType DEF TypeOK, Outcomes, OutcomesAddUp, Undecided, Relays,
                                UndecidedPlaces, RelayPlaces
  <1>00. ASSUME IsFiniteSet(In(UndecidedPlaces)'), IsFiniteSet(In(RelayPlaces)'),
                failures' + timeouts' + closed' + Cardinality(In(UndecidedPlaces)') <= opened',
                ~force' => failures' + timeouts' + closed' + Cardinality(In(UndecidedPlaces)') = opened',
                active' = Cardinality(In(RelayPlaces)')
         PROVE  Outcomes'
    BY <1>00 DEF Outcomes, OutcomesAddUp, Undecided, Relays, UndecidedPlaces, RelayPlaces
  <1>1. CASE Stop \/ ForceShutdown \/ LoopOnly \/ UNCHANGED vars
    <2>1. /\ UNCHANGED <<conn, opened, failures, timeouts, closed, active>>
          /\ force => force'
      BY <1>1 DEF Stop, ForceShutdown, LoopOnly, PollsToken, PollsTasks, Pends, AcceptErr,
             BackoffOver, Return, LoopMoves, vars
    <2>2. QED
      BY <2>1, OutcomesKept DEF Undecided, Relays, In
  <1>2. CASE StopListening
    <2>1. Undecided' = Undecided /\ Relays' = Relays
      BY <1>2, <1>p DEF TypeOK, StopListening, Undecided, Relays, In
    <2>2. QED
      BY <1>2, <2>1, OutcomesKept DEF StopListening
  <1>3. ASSUME NEW c \in Conns, NEW place, place \notin UndecidedPlaces \cup RelayPlaces, conn[c] \notin UndecidedPlaces \cup RelayPlaces,
               Move(c, place), UNCHANGED <<opened, failures, timeouts, closed, active, force>>
        PROVE  Outcomes'
    <2>1. Undecided' = Undecided /\ Relays' = Relays
      BY <1>3 DEF TypeOK, Move, Undecided, Relays, In
    <2>2. QED
      BY <1>3, <2>1, OutcomesKept
  <1>4. ASSUME NEW c \in Conns, ClientConnects(c) \/ ClientRefused(c) \/ JoinNext(c) \/ TaskEnds(c)
        PROVE  Outcomes'
    BY <1>3, <1>4, <1>p DEF ClientConnects, ClientRefused, JoinNext, TaskEnds
  <1>5. CASE Accept \/ Reject
    <2>1. Head(backlog) \in Conns /\ conn[Head(backlog)] = "queued"
      BY <1>5 DEF Accept, Reject, Accepts, Queue, TypeOK
    <2>2. CASE Reject
      BY <1>3, <1>p, <2>1, <2>2 DEF Reject
    <2>3. CASE Accept
      <3>1. /\ Move(Head(backlog), "connect") /\ opened' = opened + 1
            /\ UNCHANGED <<failures, timeouts, closed, active, force>>
        BY <2>3 DEF Accept
      <3>2. /\ "connect" \in UndecidedPlaces /\ conn[Head(backlog)] \notin UndecidedPlaces
            /\ "connect" \notin RelayPlaces /\ conn[Head(backlog)] \notin RelayPlaces
        BY <1>p, <2>1, <3>1
      <3>3. /\ IsFiniteSet(In(UndecidedPlaces)') /\ Cardinality(In(UndecidedPlaces)') = u + 1
        BY <1>0, <2>1, <3>1, <3>2, CardMove
      <3>4. /\ IsFiniteSet(In(RelayPlaces)') /\ Cardinality(In(RelayPlaces)') = r
        BY <1>0, <2>1, <3>1, <3>2, CardMove
      <3>5. QED
        BY <1>0, <1>00, <3>1, <3>3, <3>4
    <2>4. QED
      BY <1>5, <2>2, <2>3
  <1>6. ASSUME NEW c \in Conns, Handle(c) PROVE Outcomes'
    <2>1. CASE HandleAborts(c)
      <3>1. /\ Move(c, "ending") /\ conn[c] \in {"connect", "header"} /\ force /\ force'
            /\ UNCHANGED <<opened, failures, timeouts, closed, active>>
        BY <2>1 DEF HandleAborts
      <3>2. /\ "ending" \notin UndecidedPlaces /\ conn[c] \in UndecidedPlaces
            /\ "ending" \notin RelayPlaces /\ conn[c] \notin RelayPlaces
        BY <1>p, <3>1
      <3>3. /\ IsFiniteSet(In(UndecidedPlaces)') /\ Cardinality(In(UndecidedPlaces)') = u - 1
        BY <1>0, <3>1, <3>2, CardMove
      <3>4. /\ IsFiniteSet(In(RelayPlaces)') /\ Cardinality(In(RelayPlaces)') = r
        BY <1>0, <3>1, <3>2, CardMove
      <3>5. QED
        BY <1>0, <1>00, <3>1, <3>3, <3>4
    <2>2. CASE ConnectedPlain(c) \/ HeaderWritten(c)
      <3>1. /\ Move(c, "relay") /\ conn[c] \in {"connect", "header"} /\ active' = active + 1
            /\ UNCHANGED <<opened, failures, timeouts, closed, force>>
        BY <2>2 DEF ConnectedPlain, HeaderWritten, Relaying
      <3>2. /\ "relay" \in UndecidedPlaces /\ conn[c] \in UndecidedPlaces
            /\ "relay" \in RelayPlaces /\ conn[c] \notin RelayPlaces
        BY <1>p, <3>1
      <3>3. /\ IsFiniteSet(In(UndecidedPlaces)') /\ Cardinality(In(UndecidedPlaces)') = u
        BY <1>0, <3>1, <3>2, CardMove
      <3>4. /\ IsFiniteSet(In(RelayPlaces)') /\ Cardinality(In(RelayPlaces)') = r + 1
        BY <1>0, <3>1, <3>2, CardMove
      <3>5. QED
        BY <1>0, <1>00, <3>1, <3>3, <3>4
    <2>3. CASE ConnectedHeader(c)
      <3>1. /\ Move(c, "header") /\ conn[c] = "connect"
            /\ UNCHANGED <<opened, failures, timeouts, closed, active, force>>
        BY <2>3 DEF ConnectedHeader
      <3>2. /\ "header" \in UndecidedPlaces /\ conn[c] \in UndecidedPlaces
            /\ "header" \notin RelayPlaces /\ conn[c] \notin RelayPlaces
        BY <1>p, <3>1
      <3>3. /\ IsFiniteSet(In(UndecidedPlaces)') /\ Cardinality(In(UndecidedPlaces)') = u
        BY <1>0, <3>1, <3>2, CardMove
      <3>4. /\ IsFiniteSet(In(RelayPlaces)') /\ Cardinality(In(RelayPlaces)') = r
        BY <1>0, <3>1, <3>2, CardMove
      <3>5. QED
        BY <1>0, <1>00, <3>1, <3>3, <3>4
    <2>4. CASE ConnectTimesOut(c)
      <3>1. /\ Move(c, "ending") /\ conn[c] \in {"connect", "header"} /\ timeouts' = timeouts + 1
            /\ UNCHANGED <<opened, failures, closed, active, force>>
        BY <2>4 DEF ConnectTimesOut
      <3>2. /\ "ending" \notin UndecidedPlaces /\ conn[c] \in UndecidedPlaces
            /\ "ending" \notin RelayPlaces /\ conn[c] \notin RelayPlaces
        BY <1>p, <3>1
      <3>3. /\ IsFiniteSet(In(UndecidedPlaces)') /\ Cardinality(In(UndecidedPlaces)') = u - 1
        BY <1>0, <3>1, <3>2, CardMove
      <3>4. /\ IsFiniteSet(In(RelayPlaces)') /\ Cardinality(In(RelayPlaces)') = r
        BY <1>0, <3>1, <3>2, CardMove
      <3>5. QED
        BY <1>0, <1>00, <3>1, <3>3, <3>4
    <2>5. CASE ConnectFails(c)
      <3>1. /\ Move(c, "ending") /\ conn[c] \in {"connect", "header"} /\ failures' = failures + 1
            /\ UNCHANGED <<opened, timeouts, closed, active, force>>
        BY <2>5 DEF ConnectFails
      <3>2. /\ "ending" \notin UndecidedPlaces /\ conn[c] \in UndecidedPlaces
            /\ "ending" \notin RelayPlaces /\ conn[c] \notin RelayPlaces
        BY <1>p, <3>1
      <3>3. /\ IsFiniteSet(In(UndecidedPlaces)') /\ Cardinality(In(UndecidedPlaces)') = u - 1
        BY <1>0, <3>1, <3>2, CardMove
      <3>4. /\ IsFiniteSet(In(RelayPlaces)') /\ Cardinality(In(RelayPlaces)') = r
        BY <1>0, <3>1, <3>2, CardMove
      <3>5. QED
        BY <1>0, <1>00, <3>1, <3>3, <3>4
    <2>6. CASE RelayCloses(c)
      <3>1. /\ Move(c, "closing") /\ conn[c] = "relay" /\ closed' = closed + 1
            /\ UNCHANGED <<opened, failures, timeouts, active, force>>
        BY <2>6 DEF RelayCloses
      <3>2. /\ "closing" \notin UndecidedPlaces /\ conn[c] \in UndecidedPlaces
            /\ "closing" \in RelayPlaces /\ conn[c] \in RelayPlaces
        BY <1>p, <3>1
      <3>3. /\ IsFiniteSet(In(UndecidedPlaces)') /\ Cardinality(In(UndecidedPlaces)') = u - 1
        BY <1>0, <3>1, <3>2, CardMove
      <3>4. /\ IsFiniteSet(In(RelayPlaces)') /\ Cardinality(In(RelayPlaces)') = r
        BY <1>0, <3>1, <3>2, CardMove
      <3>5. QED
        BY <1>0, <1>00, <3>1, <3>3, <3>4
    <2>7. CASE RelayLeaves(c)
      <3>1. /\ Move(c, "ending") /\ conn[c] = "closing" /\ active' = active - 1
            /\ UNCHANGED <<opened, failures, timeouts, closed, force>>
        BY <2>7 DEF RelayLeaves
      <3>2. /\ "ending" \notin UndecidedPlaces /\ conn[c] \notin UndecidedPlaces
            /\ "ending" \notin RelayPlaces /\ conn[c] \in RelayPlaces
        BY <1>p, <3>1
      <3>3. /\ IsFiniteSet(In(UndecidedPlaces)') /\ Cardinality(In(UndecidedPlaces)') = u
        BY <1>0, <3>1, <3>2, CardMove
      <3>4. /\ IsFiniteSet(In(RelayPlaces)') /\ Cardinality(In(RelayPlaces)') = r - 1
        BY <1>0, <3>1, <3>2, CardMove
      <3>5. QED
        BY <1>0, <1>00, <3>1, <3>3, <3>4
    <2>8. QED
      BY <1>4, <1>6, <2>1, <2>2, <2>3, <2>4, <2>5, <2>6,
         <2>7 DEF Handle
  <1>7. QED
    BY <1>1, <1>2, <1>4, <1>5, <1>6 DEF Next, Environment, AcceptLoop, Serves, Joins, LoopOnly

LEMMA QueueAlways == Spec => []Queue
  <1>1. Init => Queue
    BY DEF Init, Queue
  <1>2. QED
    BY <1>1, QueueStep, ServerType, PTL DEF Spec

LEMMA OutcomesAlways == Spec => []Outcomes
  <1>1. Init => Outcomes
    <2> SUFFICES ASSUME Init PROVE Outcomes
      OBVIOUS
    <2>1. Undecided = {} /\ Relays = {}
      BY DEF Init, Undecided, Relays, In, UndecidedPlaces, RelayPlaces
    <2>2. /\ IsFiniteSet(Undecided) /\ Cardinality(Undecided) = 0
          /\ IsFiniteSet(Relays) /\ Cardinality(Relays) = 0
      BY <2>1, FS_EmptySet
    <2>3. OutcomesAddUp
      BY <2>2 DEF Init, OutcomesAddUp, Undecided, Relays, UndecidedPlaces, RelayPlaces
    <2>4. QED
      BY <2>2, <2>3 DEF Outcomes
  <1>2. QED
    BY <1>1, OutcomesStep, ServerType, QueueAlways, PTL DEF Spec

\* Whatever way a connection takes through handle, it is counted under exactly one
\* outcome unless a forced shutdown cuts it short, and the active gauge is the relays.
THEOREM ServerOutcomes == Spec => []OutcomesAddUp
  <1>1. Outcomes => OutcomesAddUp
    BY DEF Outcomes
  <1>2. QED
    BY <1>1, OutcomesAlways, PTL

-----------------------------------------------------------------------------
(* Slots: the counters of the limits are the tasks that hold a guard.        *)

HeldOf(i) == {c \in Guarded : IpOf[c] = i}

Slots == /\ caps \in Caps
         /\ DOMAIN slots.perIp \subseteq Ips
         /\ \A i \in DOMAIN slots.perIp : slots.perIp[i] \in IpStat /\ slots.perIp[i].count > 0
         /\ IsFiniteSet(Guarded)
         /\ slots.total = Cardinality(Guarded)
         /\ \A i \in Ips : Count(slots, i) = Cardinality(HeldOf(i))
         /\ caps.total > 0 => Cardinality(Guarded) <= caps.total

LEMMA SlotsKept ==
    ASSUME Slots, Guarded' = Guarded, UNCHANGED <<caps, slots>>
    PROVE  Slots'
  <1>1. \A i \in Ips : HeldOf(i)' = HeldOf(i)
    BY DEF HeldOf, IpOf
  <1>2. QED
    BY <1>1 DEF Slots

LEMMA SlotsAccept == ASSUME TypeOK, Queue, Slots, Accept PROVE Slots'
  <1> DEFINE c == Head(backlog)
             ip == IpOf[c]
  <1>1. c \in Conns /\ conn[c] = "queued"
    BY DEF Accept, Accepts, Queue, TypeOK
  <1>2. ip \in Ips
    BY <1>1, ServerAssumption DEF IpOf
  <1>3. /\ Move(c, "connect") /\ caps' = caps /\ slots' = Admitted(slots, caps, ip)
        /\ Admits(slots, caps, ip)
    BY DEF Accept, confVars
  <1> HIDE DEF c
  <1>4. Guarded' = Guarded \cup {c} /\ c \notin Guarded
    BY <1>1, <1>3 DEF TypeOK, Move, Guarded, In
  <1> HIDE DEF ip
  <1>5. \A i \in Ips : HeldOf(i)' = IF i = ip THEN HeldOf(i) \cup {c} ELSE HeldOf(i)
    BY <1>1, <1>4 DEF HeldOf, IpOf, ip
  <1>6. c \notin HeldOf(ip) /\ HeldOf(ip) \subseteq Guarded
    BY <1>4 DEF HeldOf
  <1>7. IsFiniteSet(HeldOf(ip))
    BY <1>6, FS_Subset DEF Slots
  <1>8. /\ IsFiniteSet(Guarded') /\ Cardinality(Guarded') = Cardinality(Guarded) + 1
        /\ Cardinality(HeldOf(ip) \cup {c}) = Cardinality(HeldOf(ip)) + 1
    BY <1>4, <1>6, <1>7, FS_AddElement DEF Slots
  <1>9. /\ slots'.total = slots.total + 1
        /\ DOMAIN slots'.perIp = DOMAIN slots.perIp \cup {ip}
        /\ slots'.perIp[ip] = [count  |-> Count(slots, ip) + 1,
                               warned |-> Warned(slots, ip) \/ WarnsIp(slots, caps, ip)]
        /\ \A i \in DOMAIN slots.perIp \ {ip} : slots'.perIp[i] = slots.perIp[i]
        /\ \A i \in Ips : Count(slots, i) \in Nat
    BY <1>2, <1>3, AdmittedCounts DEF Slots
  <1>10. \A i \in DOMAIN slots'.perIp : slots'.perIp[i] \in IpStat /\ slots'.perIp[i].count > 0
    <2>1. (Warned(slots, ip) \/ WarnsIp(slots, caps, ip)) \in BOOLEAN
      BY Zenon DEF Warned, WarnsIp
    <2>2. slots'.perIp[ip] \in IpStat /\ slots'.perIp[ip].count > 0
      BY <1>2, <1>9, <2>1 DEF IpStat
    <2>3. QED
      BY <1>9, <2>2 DEF Slots
  <1>11. ASSUME NEW i \in Ips PROVE Count(slots', i) = Cardinality(HeldOf(i)')
    <2>1. CASE i = ip
      <3>1. Cardinality(HeldOf(i)') = Count(slots, ip) + 1
        BY <1>2, <1>5, <1>8, <2>1 DEF Slots
      <3>2. Count(slots', ip) = Count(slots, ip) + 1
        BY <1>9 DEF Count
      <3>3. QED
        BY <2>1, <3>1, <3>2
    <2>2. CASE i # ip
      BY <1>5, <1>9, <2>2 DEF Slots, Count
    <2>3. QED
      BY <2>1, <2>2
  <1>12. caps.total > 0 => Cardinality(Guarded') <= caps.total
    <2>1. caps.total \in Nat /\ Cardinality(Guarded) \in Nat
      BY CapsAssumption, FS_CardinalityType DEF Slots
    <2>2. QED
      BY <1>3, <1>8, <2>1 DEF Admits, TotalFull, Slots
  <1>13. QED
    BY <1>2, <1>3, <1>8, <1>9, <1>10, <1>11, <1>12 DEF Slots

LEMMA SlotsTaskEnds == ASSUME TypeOK, Slots, NEW c \in Conns, TaskEnds(c) PROVE Slots'
  <1> DEFINE ip == IpOf[c]
  <1>1. ip \in Ips
    BY ServerAssumption DEF IpOf
  <1>2. /\ Move(c, "ended") /\ conn[c] = "ending" /\ caps' = caps
        /\ slots' = Released(slots, ip)
    BY DEF TaskEnds, confVars
  <1>3. Guarded' = Guarded \ {c} /\ c \in Guarded
    BY <1>2 DEF TypeOK, Move, Guarded, In
  <1> HIDE DEF ip
  <1>4. \A i \in Ips : HeldOf(i)' = IF i = ip THEN HeldOf(i) \ {c} ELSE HeldOf(i)
    BY <1>3 DEF HeldOf, IpOf, ip
  <1>5. c \in HeldOf(ip) /\ HeldOf(ip) \subseteq Guarded
    BY <1>3 DEF HeldOf, ip
  <1>6. IsFiniteSet(HeldOf(ip))
    BY <1>5, FS_Subset DEF Slots
  <1>7. /\ IsFiniteSet(Guarded') /\ Cardinality(Guarded') = Cardinality(Guarded) - 1
        /\ Cardinality(HeldOf(ip) \ {c}) = Cardinality(HeldOf(ip)) - 1
    BY <1>3, <1>5, <1>6, FS_RemoveElement DEF Slots
  <1>8. Cardinality(Guarded) \in Nat \ {0} /\ Cardinality(HeldOf(ip)) \in Nat \ {0}
    BY <1>3, <1>5, <1>6, FS_EmptySet, FS_CardinalityType DEF Slots
  <1>9. ip \in DOMAIN slots.perIp /\ slots.total \in Nat \ {0}
    BY <1>1, <1>8 DEF Slots, Count
  <1>10. /\ slots'.total = slots.total - 1
         /\ Count(slots, ip) = 1 => DOMAIN slots'.perIp = DOMAIN slots.perIp \ {ip}
         /\ Count(slots, ip) # 1 => /\ DOMAIN slots'.perIp = DOMAIN slots.perIp
                                    /\ slots'.perIp[ip] = [count  |-> Count(slots, ip) - 1,
                                                           warned |-> slots.perIp[ip].warned]
         /\ \A i \in DOMAIN slots.perIp \ {ip} : slots'.perIp[i] = slots.perIp[i]
         /\ Count(slots, ip) \in Nat \ {0}
    BY <1>1, <1>2, <1>9, ReleasedCounts DEF Slots
  <1>11. \A i \in DOMAIN slots'.perIp : slots'.perIp[i] \in IpStat /\ slots'.perIp[i].count > 0
    <2>1. Count(slots, ip) # 1 => slots'.perIp[ip] \in IpStat /\ slots'.perIp[ip].count > 0
      BY <1>9, <1>10 DEF Slots, IpStat
    <2>2. QED
      BY <1>10, <2>1 DEF Slots
  <1>12. ASSUME NEW i \in Ips PROVE Count(slots', i) = Cardinality(HeldOf(i)')
    <2>1. CASE i = ip
      <3>1. Cardinality(HeldOf(i)') = Count(slots, ip) - 1
        BY <1>1, <1>4, <1>7, <2>1 DEF Slots
      <3>2. Count(slots', ip) = Count(slots, ip) - 1
        BY <1>9, <1>10 DEF Count
      <3>3. QED
        BY <2>1, <3>1, <3>2
    <2>2. CASE i # ip
      BY <1>4, <1>10, <2>2 DEF Slots, Count
    <2>3. QED
      BY <2>1, <2>2
  <1>13. caps.total > 0 => Cardinality(Guarded') <= caps.total
    <2>1. caps.total \in Nat
      BY CapsAssumption DEF Slots
    <2>2. QED
      BY <1>7, <1>8, <2>1 DEF Slots
  <1>14. /\ DOMAIN slots'.perIp \subseteq Ips
         /\ slots'.total = Cardinality(Guarded')
    BY <1>7, <1>10 DEF Slots
  <1>15. QED
    BY <1>2, <1>7, <1>11, <1>12, <1>13, <1>14 DEF Slots

LEMMA SlotsStep == TypeOK /\ Queue /\ Slots /\ [Next]_vars => Slots'
  <1> SUFFICES ASSUME TypeOK, Queue, Slots, [Next]_vars PROVE Slots'
    OBVIOUS
  <1> USE DEF confVars
  <1>1. CASE Stop \/ ForceShutdown \/ LoopOnly \/ UNCHANGED vars
    <2>1. UNCHANGED <<caps, slots, conn>>
      BY <1>1 DEF Stop, ForceShutdown, LoopOnly, PollsToken, PollsTasks, Pends, AcceptErr,
             BackoffOver, Return, LoopMoves, vars
    <2>2. QED
      BY <2>1, SlotsKept DEF Guarded, In
  <1>2. CASE StopListening
    <2>1. Guarded' = Guarded
      BY <1>2 DEF TypeOK, StopListening, Guarded, In
    <2>2. QED
      BY <1>2, <2>1, SlotsKept DEF StopListening
  <1>3. CASE Reject
    <2>1. /\ Head(backlog) \in Conns /\ conn[Head(backlog)] = "queued"
          /\ Move(Head(backlog), "rejected") /\ UNCHANGED <<caps, slots>>
      BY <1>3 DEF Reject, Accepts, Queue, TypeOK
    <2>2. Guarded' = Guarded
      BY <2>1, MoveKeeps DEF Places, HandlePlaces
    <2>3. QED
      BY <2>1, <2>2, SlotsKept
  <1>4. ASSUME NEW c \in Conns, ClientConnects(c) \/ ClientRefused(c) \/ JoinNext(c)
        PROVE  Slots'
    <2>1. PICK place \in Places \ HandlePlaces : /\ conn[c] \notin HandlePlaces /\ Move(c, place)
                                                 /\ UNCHANGED <<caps, slots>>
      BY <1>4 DEF ClientConnects, ClientRefused, JoinNext, Places, HandlePlaces
    <2>2. Guarded' = Guarded
      BY <2>1, MoveKeeps
    <2>3. QED
      BY <2>1, <2>2, SlotsKept
  <1>5. ASSUME NEW c \in Conns, Handle(c), ~TaskEnds(c) PROVE Slots'
    <2>1. PICK place \in HandlePlaces : /\ conn[c] \in HandlePlaces /\ Move(c, place)
                                        /\ UNCHANGED <<caps, slots>>
      <3>1. UNCHANGED <<caps, slots>>
        BY <1>5 DEF Handle, HandleAborts, ConnectedPlain, ConnectedHeader, HeaderWritten,
                    Relaying, ConnectTimesOut, ConnectFails, RelayCloses, RelayLeaves
      <3>2. \E place \in HandlePlaces : conn[c] \in HandlePlaces /\ Move(c, place)
        BY <1>5 DEF HandlePlaces, Handle, HandleAborts, ConnectedPlain, ConnectedHeader,
                    HeaderWritten, Relaying, ConnectTimesOut, ConnectFails, RelayCloses,
                    RelayLeaves
      <3>3. QED
        BY <3>1, <3>2
    <2>2. Guarded' = Guarded
      BY <2>1, MoveKeeps DEF HandlePlaces, Places
    <2>3. QED
      BY <2>1, <2>2, SlotsKept
  <1>6. QED
    BY <1>1, <1>2, <1>3, <1>4, <1>5, SlotsAccept, SlotsTaskEnds
       DEF Next, Environment, AcceptLoop, Serves, Joins, LoopOnly

LEMMA SlotsAlways == Spec => []Slots
  <1>1. Init => Slots
    <2> SUFFICES ASSUME Init PROVE Slots
      OBVIOUS
    <2>1. Guarded = {} /\ \A i \in Ips : HeldOf(i) = {}
      BY DEF Init, Guarded, In, HeldOf
    <2>2. slots.total = 0 /\ DOMAIN slots.perIp = {}
      BY DEF Init, EmptyState
    <2>3. caps \in Caps /\ caps.total \in Nat
      BY CapsAssumption DEF Init
    <2>4. QED
      BY <2>1, <2>2, <2>3, FS_EmptySet DEF Slots, Count
  <1>2. QED
    BY <1>1, SlotsStep, ServerType, QueueAlways, PTL DEF Spec

\* On every path through handle the slot is held exactly as long as the task runs, for
\* any number of clients and addresses, and so the total cap bounds the tasks.
THEOREM ServerSlots == Spec => []SlotsAreTasks
  <1>1. Slots => SlotsAreTasks
    BY DEF Slots, SlotsAreTasks, HeldOf
  <1>2. QED
    BY <1>1, SlotsAlways, PTL

-----------------------------------------------------------------------------
(* The return of serve_graceful.                                             *)

Drained == /\ lpc \in {"join", "exited"} => In({"queued"}) = {}
           /\ lpc = "exited" => Guarded = {} /\ Unjoined = {}

LEMMA DrainedStep == TypeOK /\ Drained /\ [Next]_vars => Drained'
  <1> SUFFICES ASSUME TypeOK, Drained, [Next]_vars PROVE Drained'
    OBVIOUS
  <1> USE DEF TypeOK, Drained, Guarded, Unjoined, In, Move
  <1>1. CASE Stop \/ ForceShutdown \/ UNCHANGED vars
    BY <1>1 DEF Stop, ForceShutdown, vars
  <1>2. ASSUME NEW c \in Conns, ClientConnects(c) PROVE Drained'
    BY <1>2 DEF ClientConnects, Listening
  <1>3. ASSUME NEW c \in Conns, ClientRefused(c) PROVE Drained'
    BY <1>3 DEF ClientRefused
  <1>4. CASE StopListening
    BY <1>4 DEF StopListening
  <1>5. ASSUME NEW c \in Conns, JoinNext(c) PROVE Drained'
    BY <1>5 DEF JoinNext
  <1>6. CASE Accept \/ Reject \/ PollsToken \/ PollsTasks \/ Pends \/ AcceptErr \/ BackoffOver
    BY <1>6 DEF Accept, Reject, Accepts, LoopMoves, PollsToken, PollsTasks, Pends, AcceptErr,
                BackoffOver
  <1>7. CASE Return
    BY <1>7 DEF Return, LoopMoves
  <1>8. ASSUME NEW c \in Conns, Handle(c) PROVE Drained'
    <2>1. PICK place \in HandlePlaces \cup {"ended"} :
             conn[c] \in HandlePlaces /\ Move(c, place) /\ UNCHANGED lpc
      BY <1>8 DEF HandlePlaces, Handle, HandleAborts, ConnectedPlain, ConnectedHeader,
                  HeaderWritten, Relaying, ConnectTimesOut, ConnectFails, RelayCloses,
                  RelayLeaves, TaskEnds
    <2>2. lpc # "exited"
      BY <2>1 DEF HandlePlaces
    <2>3. In({"queued"})' \subseteq In({"queued"})
      BY <2>1 DEF HandlePlaces
    <2>4. QED
      BY <2>1, <2>2, <2>3
  <1>9. QED
    BY <1>1, <1>2, <1>3, <1>4, <1>5, <1>6, <1>7, <1>8
       DEF Next, Environment, AcceptLoop, Serves, Joins, LoopOnly

\* When serve_graceful returns nothing is left behind: no task, no slot, no client in
\* the accept queue, and the gauge is back at 0.
THEOREM ServerReturnsClean == Spec => []ReturnsClean
  <1>1. Init => Drained
    BY DEF Init, Drained
  <1>2. Drained /\ Slots /\ Outcomes => ReturnsClean
    <2> SUFFICES ASSUME Drained, Slots, Outcomes, lpc = "exited" PROVE ReturnsClean
      BY DEF ReturnsClean
    <2>1. Guarded = {} /\ Unjoined = {} /\ In({"queued"}) = {}
      BY DEF Drained
    <2>2. Relays = {}
      BY <2>1 DEF Relays, RelayPlaces, Guarded, In
    <2>3. slots.total = 0
      BY <2>1, FS_EmptySet DEF Slots
    <2>4. active = 0
      BY <2>2, FS_EmptySet DEF Outcomes, OutcomesAddUp, Relays, RelayPlaces
    <2>5. QED
      BY <2>1, <2>3, <2>4 DEF ReturnsClean
  <1>3. QED
    BY <1>1, <1>2, DrainedStep, ServerType, SlotsAlways, OutcomesAlways, PTL DEF Spec

-----------------------------------------------------------------------------
(* The PROXY header, as its receiver takes it apart.                         *)

\* A part of a sequence put together of three.
LEMMA MiddlePart ==
  ASSUME NEW S, NEW a \in Seq(S), NEW b \in Seq(S), NEW d \in Seq(S)
  PROVE  SubSeq((a \o b) \o d, Len(a) + 1, Len(a) + Len(b)) = b
  <1> DEFINE m == Len(a) + 1
             n == Len(a) + Len(b)
             all == (a \o b) \o d
  <1>1. Len(a) \in Nat /\ Len(b) \in Nat /\ Len(d) \in Nat
    BY LenProperties
  <1>2. /\ a \o b \in Seq(S) /\ Len(a \o b) = Len(a) + Len(b)
        /\ \A i \in 1..(Len(a) + Len(b)) : (a \o b)[i] = IF i <= Len(a) THEN a[i] ELSE b[i - Len(a)]
    BY ConcatProperties
  <1>3. \A i \in 1..(Len(a \o b) + Len(d)) :
          all[i] = IF i <= Len(a \o b) THEN (a \o b)[i] ELSE d[i - Len(a \o b)]
    BY <1>2, ConcatProperties
  <1>4. \A i \in m..n : all[i] = b[i - Len(a)] /\ i - Len(a) \in 1..Len(b)
    BY <1>1, <1>2, <1>3
  <1>5. \A i \in 1..Len(b) : b[i] \in S
    BY ElementOfSeq
  <1>6. \A i \in m..n : all[i] \in S
    BY <1>4, <1>5
  <1>7. m \in Int /\ n \in Int
    BY <1>1
  <1> HIDE DEF all, m, n
  <1>8. /\ SubSeq(all, m, n) \in Seq(S)
        /\ Len(SubSeq(all, m, n)) = IF m <= n THEN n - m + 1 ELSE 0
        /\ \A i \in 1..(n - m + 1) : SubSeq(all, m, n)[i] = all[m + i - 1]
    BY <1>6, <1>7, SubSeqProperties
  <1>9. n - m + 1 = Len(b) /\ (m <= n <=> Len(b) > 0)
    BY <1>1 DEF m, n
  <1>10. Len(SubSeq(all, m, n)) = Len(b)
    BY <1>1, <1>8, <1>9
  <1>11. \A i \in 1..Len(b) : SubSeq(all, m, n)[i] = b[i]
    <2>1. ASSUME NEW i \in 1..Len(b) PROVE SubSeq(all, m, n)[i] = b[i]
      <3>1. SubSeq(all, m, n)[i] = all[m + i - 1]
        BY <1>8, <1>9
      <3>2. m + i - 1 \in m..n /\ (m + i - 1) - Len(a) = i
        BY <1>1 DEF m, n
      <3>3. QED
        BY <1>4, <3>1, <3>2
    <2>2. QED
      BY <2>1
  <1>12. SubSeq(all, m, n) = b
    BY <1>8, <1>10, <1>11, SeqEqual
  <1>13. QED
    BY <1>12 DEF all, m, n

\* Two neighbours of a sequence, cut out of it.
LEMMA PairOfSeq ==
    ASSUME NEW S, NEW s, NEW m \in Int, \A i \in m..(m + 1) : s[i] \in S
    PROVE  SubSeq(s, m, m + 1)[1] = s[m] /\ SubSeq(s, m, m + 1)[2] = s[m + 1]
  <1>1. \A i \in 1..((m + 1) - m + 1) : SubSeq(s, m, m + 1)[i] = s[m + i - 1]
    BY SubSeqProperties
  <1>2. QED
    BY <1>1

\* u16::to_be_bytes and back.
LEMMA BigEndian == ASSUME NEW n \in Nat PROVE Number(be_bytes(n)) = n
  BY DEF Number, be_bytes

\* Concatenation is associative, of three given parts.
Regroups(a, b, d) == (a \o b) \o d = a \o (b \o d)

\* Parts may be grouped as the reader needs them.
LEMMA Associates == \A S : \A a, b, d \in Seq(S) : Regroups(a, b, d)
  BY DEF Regroups

\* What the target gets: signature, command and family, length, addresses, client's data.
Glued(sig, kind, size, block, data) == (((sig \o kind) \o size) \o block) \o data

\* The announced part of a header: source and destination address, then their ports.
Block(os, od, sp, dp) == ((os \o od) \o sp) \o dp

\* Each part is found where the protocol puts it.
Parsed(sig, kind, size, block, data) ==
    LET all == Glued(sig, kind, size, block, data)
    IN  /\ all[13] = kind[1] /\ all[14] = kind[2]
        /\ SubSeq(all, 15, 16) = size
        /\ SubSeq(all, 17, 16 + Len(block)) = block
        /\ SubSeq(all, 17 + Len(block), Len(all)) = data

\* So are the source's address and port in the announced part.
BlockRead(os, od, sp, dp, S) ==
    LET block == Block(os, od, sp, dp)
    IN  /\ block \in Seq(S) /\ Len(block) = Len(os) + Len(od) + 4
        /\ SubSeq(block, 1, Len(os)) = os
        /\ SubSeq(block, Len(os) + Len(od) + 1, Len(os) + Len(od) + 2) = sp

\* The parts of what a header and the first data are put together of.
LEMMA PartsFound ==
  ASSUME NEW S, NEW sig \in Seq(S), Len(sig) = 12, NEW kind \in Seq(S), Len(kind) = 2,
         NEW size \in Seq(S), Len(size) = 2, NEW block \in Seq(S),
         NEW data \in Seq(S)
  PROVE  Parsed(sig, kind, size, block, data)
  <1> DEFINE length == Len(block)
             all == Glued(sig, kind, size, block, data)
  <1>0. length \in Nat /\ length = Len(block)
    BY LenProperties
  <1> HIDE DEF length, all
  <1>1. PICK a \in Seq(S) : a = sig \o kind /\ Len(a) = 14
    <2>1. sig \o kind \in Seq(S) /\ Len(sig \o kind) = Len(sig) + Len(kind)
      BY Zenon, ConcatProperties
    <2>2. Len(sig) + Len(kind) = 14
      OBVIOUS
    <2>3. QED
      BY Zenon, <2>1, <2>2
  <1>2. PICK h \in Seq(S) : h = a \o size /\ Len(h) = 16
    <2>1. a \o size \in Seq(S) /\ Len(a \o size) = Len(a) + Len(size)
      BY Zenon, <1>1, ConcatProperties
    <2>2. Len(a) + Len(size) = 16
      BY <1>1
    <2>3. QED
      BY Zenon, <2>1, <2>2
  <1>3. PICK p \in Seq(S) : p = h \o block /\ Len(p) = 16 + length
    <2>1. h \o block \in Seq(S) /\ Len(h \o block) = Len(h) + Len(block)
      BY Zenon, <1>2, ConcatProperties
    <2>2. QED
      BY <1>0, <1>2, <2>1
  <1>4. all = p \o data /\ all \in Seq(S) /\ Len(all) = Len(p) + Len(data) /\ Len(data) \in Nat
    BY <1>1, <1>2, <1>3, ConcatProperties, LenProperties DEF Glued, all
  <1>5. PICK rest \in Seq(S) : rest = block \o data
    BY ConcatProperties
  <1>6. PICK tail \in Seq(S) : tail = size \o rest
    BY <1>5, ConcatProperties
  <1>7. all = h \o rest
    <2>1. Regroups(h, block, data)
      BY Zenon, Associates
    <2>2. QED
      BY <1>3, <1>4, <1>5, <2>1 DEF Regroups
  <1>8. all = a \o tail
    <2>1. Regroups(a, size, rest)
      BY Zenon, Associates
    <2>2. QED
      BY <1>2, <1>6, <1>7, <2>1 DEF Regroups
  <1>9. SubSeq(all, 13, 14) = kind
    <2>1. SubSeq((sig \o kind) \o tail, Len(sig) + 1, Len(sig) + Len(kind)) = kind
      BY <1>6, MiddlePart
    <2>2. Len(sig) + 1 = 13 /\ Len(sig) + Len(kind) = 14
      OBVIOUS
    <2>3. QED
      BY <1>1, <1>8, <2>1, <2>2
  <1>14. all[13] = kind[1] /\ all[14] = kind[2]
    <2>1. Len(all) \in Nat /\ Len(all) >= 16
      BY <1>0, <1>3, <1>4
    <2>2. \A i \in 13..14 : all[i] \in S
      BY <1>4, <2>1, ElementOfSeq
    <2>3. SubSeq(all, 13, 13 + 1)[1] = all[13] /\ SubSeq(all, 13, 13 + 1)[2] = all[13 + 1]
      BY <2>2, PairOfSeq
    <2>4. QED
      BY <1>9, <2>3
  <1>10. SubSeq(all, 15, 16) = size
    <2>1. SubSeq((a \o size) \o rest, Len(a) + 1, Len(a) + Len(size)) = size
      BY <1>1, <1>5, MiddlePart
    <2>2. Len(a) + 1 = 15 /\ Len(a) + Len(size) = 16
      BY <1>1
    <2>3. QED
      BY <1>2, <1>7, <2>1, <2>2
  <1>11. SubSeq(all, 17, 16 + length) = block
    <2>1. SubSeq((h \o block) \o data, Len(h) + 1, Len(h) + Len(block)) = block
      BY <1>2, MiddlePart
    <2>2. Len(h) + 1 = 17 /\ Len(h) + Len(block) = 16 + length
      BY <1>0, <1>2
    <2>3. QED
      BY <1>3, <1>4, <2>1, <2>2
  <1>12. SubSeq(all, 17 + length, Len(all)) = data
    <2>1. <<>> \in Seq(S) /\ all = (p \o data) \o <<>>
      BY <1>4, ConcatEmptySeq, EmptySeq
    <2>2. SubSeq((p \o data) \o <<>>, Len(p) + 1, Len(p) + Len(data)) = data
      BY <1>3, <2>1, MiddlePart
    <2>3. Len(p) + 1 = 17 + length
      BY <1>0, <1>3
    <2>4. QED
      BY <1>4, <2>1, <2>2, <2>3
  <1>13. QED
    BY Zenon, <1>0, <1>14, <1>10, <1>11, <1>12 DEF all, Parsed

\* After to_canonical there are two families.
LEMMA CanonicalFamily ==
  ASSUME NEW a \in SocketAddr
  PROVE  Canonical(a.ip).family \in {"v4", "v6"} /\ a.port \in Nat
  <1>1. a.ip \in IpAddr /\ a.port \in Nat
    <2>1. a \in SocketAddr
      OBVIOUS
    <2>2. QED
      BY <2>1 DEF SocketAddr
  <1>2. ASSUME NEW ip \in IpAddr PROVE Canonical(ip).family \in {"v4", "v6"}
    BY DEF IpAddr, Canonical
  <1>3. QED
    BY <1>1, <1>2

\* The parts of the addresses and ports of a header.
LEMMA BlockParts ==
  ASSUME NEW S, NEW os \in Seq(S), NEW od \in Seq(S), NEW sp \in Seq(S), NEW dp \in Seq(S),
         Len(os) # 0, Len(sp) = 2, Len(dp) = 2
  PROVE  BlockRead(os, od, sp, dp, S)
  <1> DEFINE w == Len(os)
             v == Len(od)
             block == Block(os, od, sp, dp)
  <1>0. w \in Nat \ {0} /\ v \in Nat /\ w = Len(os) /\ v = Len(od)
    BY LenProperties
  <1> HIDE DEF w, v, block
  <1>1. PICK a \in Seq(S) : a = os \o od /\ Len(a) = w + v
    <2>1. os \o od \in Seq(S) /\ Len(os \o od) = Len(os) + Len(od)
      BY Zenon, ConcatProperties
    <2>2. Len(os) + Len(od) = w + v
      BY <1>0
    <2>3. QED
      BY Zenon, <2>1, <2>2
  <1>2. PICK b \in Seq(S) : b = a \o sp /\ Len(b) = w + v + 2
    <2>1. a \o sp \in Seq(S) /\ Len(a \o sp) = Len(a) + Len(sp)
      BY Zenon, ConcatProperties
    <2>2. Len(a) + Len(sp) = w + v + 2
      BY <1>0, <1>1
    <2>3. QED
      BY Zenon, <2>1, <2>2
  <1>3. block = b \o dp
    BY <1>1, <1>2 DEF Block, block
  <1>4. block \in Seq(S) /\ Len(block) = w + v + 4
    <2>1. b \o dp \in Seq(S) /\ Len(b \o dp) = Len(b) + Len(dp)
      BY Zenon, ConcatProperties
    <2>2. Len(b) + Len(dp) = w + v + 4
      BY <1>0, <1>2
    <2>3. QED
      BY Zenon, <1>3, <2>1, <2>2
  <1>5. SubSeq(block, 1, w) = os
    <2>1. 1 \in 1..Len(os) /\ w \in 1..Len(os) /\ 1 \in 1..Len(a) /\ w \in 1..Len(a)
          /\ 1 \in 1..Len(b) /\ w \in 1..Len(b)
      BY <1>0, <1>1, <1>2
    <2>2. SubSeq(b \o dp, 1, w) = SubSeq(b, 1, w)
      BY Zenon, <2>1, SubSeqOfConcat1
    <2>3. SubSeq(a \o sp, 1, w) = SubSeq(a, 1, w)
      BY Zenon, <2>1, SubSeqOfConcat1
    <2>4. SubSeq(os \o od, 1, w) = SubSeq(os, 1, w)
      BY Zenon, <2>1, SubSeqOfConcat1
    <2>5. SubSeq(os, 1, Len(os)) = os
      BY Zenon, SubSeqFull
    <2>6. QED
      BY Zenon, <1>0, <1>1, <1>2, <1>3, <2>2, <2>3, <2>4, <2>5
  <1>6. SubSeq(block, w + v + 1, w + v + 2) = sp
    <2>1. SubSeq((a \o sp) \o dp, Len(a) + 1, Len(a) + Len(sp)) = sp
      BY MiddlePart
    <2>2. Len(a) + 1 = w + v + 1 /\ Len(a) + Len(sp) = w + v + 2
      BY <1>0, <1>1
    <2>3. QED
      BY Zenon, <1>2, <1>3, <2>1, <2>2
  <1>7. QED
    BY Zenon, <1>0, <1>4, <1>5, <1>6 DEF block, BlockRead

\* A receiver is told the client or, where the families differ, nobody, and finds the
\* client's first bytes.
LEMMA HeaderRead ==
  ASSUME NEW src \in SocketAddr, NEW dst \in SocketAddr,
         NEW told, told = Receive(v2_header(src, dst) \o <<"data">>)
  PROVE  /\ told.data = <<"data">>
         /\ \/ /\ told.cmd = "PROXY" /\ told.port = src.port
               /\ told.client = octets(Canonical(src.ip))
            \/ /\ told.cmd = "LOCAL"
               /\ Canonical(src.ip).family # Canonical(dst.ip).family
  <1> DEFINE s == Canonical(src.ip)
             d == Canonical(dst.ip)
             w == Width(s.family)
             sp == be_bytes(src.port)
             dp == be_bytes(dst.port)
             block == ((octets(s) \o octets(d)) \o sp) \o dp
             data == <<"data">>
             B == {SIGNATURE[i] : i \in 1..12} \cup Nat
                  \cup {"PROXY", "LOCAL", "v4", "v6", "unspec", "data"}
                  \cup {<<s.host, i>> : i \in 1..16} \cup {<<d.host, i>> : i \in 1..16}
  <1>1. src.port \in Nat /\ dst.port \in Nat
    BY CanonicalFamily
  <1>2. s.family \in {"v4", "v6"} /\ d.family \in {"v4", "v6"}
    BY CanonicalFamily
  <1>3. w \in {4, 16} /\ Width(d.family) \in {4, 16}
    BY <1>2 DEF Width
  <1>4. \A x, y \in B : <<x, y>> \in Seq(B) /\ Len(<<x, y>>) = 2
    OBVIOUS
  <1>5. SIGNATURE \in Seq(B) /\ Len(SIGNATURE) = 12
    <2>1. \A i \in 1..12 : SIGNATURE[i] \in B
      OBVIOUS
    <2> HIDE DEF B
    <2>2. SIGNATURE = [i \in 1..12 |-> SIGNATURE[i]]
      BY DEF SIGNATURE
    <2>3. QED
      BY <2>1, <2>2
  <1>6. octets(s) \in Seq(B) /\ Len(octets(s)) = w /\ octets(d) \in Seq(B)
        /\ Len(octets(d)) = Width(d.family)
    <2>1. \A i \in 1..16 : <<s.host, i>> \in B /\ <<d.host, i>> \in B
      OBVIOUS
    <2> HIDE DEF B
    <2>2. ASSUME NEW ip, NEW n \in {4, 16}, Width(ip.family) = n,
                 \A i \in 1..16 : <<ip.host, i>> \in B
          PROVE  octets(ip) \in Seq(B) /\ Len(octets(ip)) = n
      <3>1. octets(ip) = [i \in 1..n |-> <<ip.host, i>>]
        BY <2>2 DEF octets
      <3>2. \A i \in 1..n : <<ip.host, i>> \in B
        BY <2>2
      <3>3. QED
        BY <3>1, <3>2
    <2> HIDE DEF s, d
    <2>3. QED
      BY <1>3, <2>1, <2>2
  <1>7. \A n \in Nat : be_bytes(n) \in Seq(B) /\ Len(be_bytes(n)) = 2
    BY <1>4 DEF be_bytes
  <1>8. data \in Seq(B) /\ Len(data) = 1
    OBVIOUS
  <1>9. /\ <<"PROXY", s.family>> \in Seq(B) /\ Len(<<"PROXY", s.family>>) = 2
        /\ <<"LOCAL", "unspec">> \in Seq(B) /\ Len(<<"LOCAL", "unspec">>) = 2
    BY <1>2, <1>4
  <1> HIDE DEF B
  <1>10. /\ block \in Seq(B) /\ Len(block) = w + Width(d.family) + 4
         /\ SubSeq(block, 1, w) = octets(s)
         /\ SubSeq(block, w + Width(d.family) + 1, w + Width(d.family) + 2) = sp
    <2> DEFINE os == octets(s)
               od == octets(d)
               v == Width(d.family)
    <2>1. block = Block(os, od, sp, dp)
      BY DEF Block
    <2>2. sp \in Seq(B) /\ Len(sp) = 2 /\ dp \in Seq(B) /\ Len(dp) = 2
      BY <1>1, <1>7
    <2>3. w \in Nat \ {0} /\ v \in Nat
      BY <1>3
    <2>4. os \in Seq(B) /\ Len(os) = w /\ od \in Seq(B) /\ Len(od) = v
      BY <1>6
    <2>7. Len(os) # 0
      BY <2>3, <2>4
    <2> HIDE DEF os, od, sp, dp, block, w, v
    <2>8. BlockRead(os, od, sp, dp, B)
      BY Zenon, <2>2, <2>4, <2>7, BlockParts
    <2>5. /\ block \in Seq(B) /\ Len(block) = w + v + 4
          /\ SubSeq(block, 1, w) = os
          /\ SubSeq(block, w + v + 1, w + v + 2) = sp
      BY Zenon, <2>1, <2>4, <2>8 DEF BlockRead
    <2>6. QED
      BY <2>5 DEF os, v
  <1> DEFINE all == v2_header(src, dst) \o data
  <1>11. ASSUME s.family = d.family
         PROVE  /\ all[13] = "PROXY" /\ all[14] = s.family
                /\ Number(SubSeq(all, 15, 16)) = 2 * w + 4
                /\ SubSeq(all, 17, 16 + (2 * w + 4)) = block
                /\ SubSeq(all, 17 + (2 * w + 4), Len(all)) = data
    <2>1. 2 * w + 4 \in Nat /\ Len(block) = 2 * w + 4
      BY <1>3, <1>10, <1>11
    <2>2. v2_header(src, dst) = Header("PROXY", s.family, 2 * w + 4, block)
      BY <1>2, <1>11 DEF v2_header, Width
    <2> DEFINE kind == <<"PROXY", s.family>>
               size == be_bytes(2 * w + 4)
    <2>3. all = Glued(SIGNATURE, kind, size, block, data)
      BY Zenon, <2>2 DEF Header, Glued
    <2>4. size \in Seq(B) /\ Len(size) = 2 /\ kind \in Seq(B) /\ Len(kind) = 2
      BY <1>7, <1>9, <2>1
    <2>5. kind[1] = "PROXY" /\ kind[2] = s.family
      OBVIOUS
    <2>6. Number(size) = 2 * w + 4
      BY <2>1, BigEndian
    <2> HIDE DEF all, block, data, kind, size, s, d, w
    <2>9. Parsed(SIGNATURE, kind, size, block, data)
      BY Zenon, <1>5, <1>8, <1>10, <2>4, PartsFound
    <2>7. /\ all[13] = kind[1] /\ all[14] = kind[2]
          /\ SubSeq(all, 15, 16) = size
          /\ SubSeq(all, 17, 16 + (2 * w + 4)) = block
          /\ SubSeq(all, 17 + (2 * w + 4), Len(all)) = data
      BY Zenon, <2>1, <2>3, <2>9 DEF Parsed
    <2>8. QED
      BY Zenon, <2>5, <2>6, <2>7
  <1>12. ASSUME s.family # d.family
         PROVE  /\ all[13] = "LOCAL"
                /\ Number(SubSeq(all, 15, 16)) = 0
                /\ SubSeq(all, 17 + 0, Len(all)) = data
    <2>1. v2_header(src, dst) = Header("LOCAL", "unspec", 0, <<>>)
      BY <1>2, <1>12 DEF v2_header
    <2> DEFINE kind == <<"LOCAL", "unspec">>
               size == be_bytes(0)
               none == <<>>
    <2>3. all = Glued(SIGNATURE, kind, size, none, data)
      BY Zenon, <2>1 DEF Header, Glued
    <2>4. size \in Seq(B) /\ Len(size) = 2 /\ none \in Seq(B) /\ Len(none) = 0 /\ 0 \in Nat
          /\ kind \in Seq(B) /\ Len(kind) = 2
      BY <1>7, <1>9
    <2>5. kind[1] = "LOCAL"
      OBVIOUS
    <2>6. Number(size) = 0
      BY BigEndian
    <2> HIDE DEF all, block, data, kind, size, none, s, d, w
    <2>9. Parsed(SIGNATURE, kind, size, none, data)
      BY Zenon, <1>5, <1>8, <2>4, PartsFound
    <2>7. /\ all[13] = kind[1]
          /\ SubSeq(all, 15, 16) = size
          /\ SubSeq(all, 17 + 0, Len(all)) = data
      BY Zenon, <2>3, <2>4, <2>9 DEF Parsed
    <2>8. QED
      BY Zenon, <2>5, <2>6, <2>7
  <1>13. told = Receive(all) /\ told.data = SubSeq(all, 17 + Number(SubSeq(all, 15, 16)), Len(all))
         /\ told.cmd = all[13]
         /\ LET bl == SubSeq(all, 17, 16 + Number(SubSeq(all, 15, 16)))
                v == Width(all[14])
            IN  /\ told.client = IF all[13] = "LOCAL" THEN <<>> ELSE SubSeq(bl, 1, v)
                /\ told.port = IF all[13] = "LOCAL" THEN 0
                               ELSE Number(SubSeq(bl, 2 * v + 1, 2 * v + 2))
    BY DEF Receive
  <1>14. CASE s.family = d.family
    <2>1. Number(SubSeq(all, 15, 16)) = 2 * w + 4 /\ all[13] = "PROXY" /\ all[14] = s.family
      BY Zenon, <1>11, <1>14
    <2>2. told.data = data /\ told.cmd = "PROXY"
      BY Zenon, <1>11, <1>13, <1>14, <2>1
    <2> DEFINE bl == SubSeq(all, 17, 16 + Number(SubSeq(all, 15, 16)))
    <2>3. bl = block
      BY Zenon, <1>11, <1>14, <2>1
    <2> HIDE DEF all, block, sp, s, d, data
    <2>4. told.client = SubSeq(bl, 1, w) /\ told.port = Number(SubSeq(bl, 2 * w + 1, 2 * w + 2))
      <3>1. "PROXY" # "LOCAL"
        OBVIOUS
      <3>2. Width(all[14]) = w
        BY Zenon, <2>1
      <3>3. QED
        BY Zenon, <1>13, <2>1, <3>1, <3>2
    <2>5. SubSeq(block, 2 * w + 1, 2 * w + 2) = sp
      <3>1. 2 * w + 1 = w + Width(d.family) + 1 /\ 2 * w + 2 = w + Width(d.family) + 2
        BY <1>3, <1>14
      <3>2. QED
        BY Zenon, <1>10, <3>1
    <2>6. told.client = octets(s) /\ told.port = Number(sp)
      BY Zenon, <1>10, <2>3, <2>4, <2>5
    <2>7. Number(sp) = src.port
      BY Zenon, <1>1, BigEndian DEF sp
    <2>8. QED
      BY Zenon, <2>2, <2>6, <2>7 DEF s, data
  <1>15. CASE s.family # d.family
    <2>1. told.data = data /\ told.cmd = "LOCAL"
      BY Zenon, <1>12, <1>13, <1>15
    <2>2. QED
      BY Zenon, <1>15, <2>1
  <1>16. QED
    BY Zenon, <1>14, <1>15

\* What the target of a relay has been sent before the client's data.
Sent ==
    /\ upstream = [c \in Conns |-> upstream[c]]
    /\ \A c \in In({"relay", "closing"}) : header =>
         \E dst \in {Local[c], Peer[c]} : upstream[c] = v2_header(Peer[c], dst)

\* Every step but the write of a header leaves the bytes alone, and lets nobody relay
\* who owes a header.
LEMMA SentStays ==
  ASSUME TypeOK, Sent, header' = header, upstream' = upstream,
         header => In({"relay", "closing"})' \subseteq In({"relay", "closing"})
  PROVE  Sent'
  BY DEF Sent

\* handle writes the header of this client before it relays.
LEMMA SentStep == TypeOK /\ Queue /\ Sent /\ [Next]_vars => Sent'
  <1> SUFFICES ASSUME TypeOK, Queue, Sent, [Next]_vars PROVE Sent'
    OBVIOUS
  <1> DEFINE There == In({"relay", "closing"})
  <1>1. CASE Stop \/ ForceShutdown \/ StopListening \/ LoopOnly
             \/ UNCHANGED vars
    <2>1. header' = header /\ upstream' = upstream
      BY <1>1 DEF Stop, ForceShutdown, StopListening, LoopOnly, PollsToken, PollsTasks, Pends, AcceptErr,
             BackoffOver, Return, LoopMoves, vars, confVars
    <2>2. \A c \in Conns : conn'[c] \in {"relay", "closing"} => conn[c] \in {"relay", "closing"}
      BY <1>1 DEF Stop, ForceShutdown, StopListening, LoopOnly, PollsToken, PollsTasks, Pends, AcceptErr,
             BackoffOver, Return, LoopMoves, vars
    <2>3. There' \subseteq There
      BY <2>2 DEF In
    <2>4. QED
      BY <2>1, <2>3, SentStays
  <1>2. ASSUME NEW c \in Conns, NEW place, Move(c, place),
               place \in {"relay", "closing"} => conn[c] \in {"relay", "closing"} \/ ~header,
               header' = header, upstream' = upstream
        PROVE  Sent'
    <2>1. header => There' \subseteq There
      BY <1>2 DEF TypeOK, Move, In
    <2>2. QED
      BY <1>2, <2>1, SentStays
  <1>3. ASSUME NEW c \in Conns, ClientConnects(c) \/ ClientRefused(c) \/ JoinNext(c) PROVE Sent'
    <2>1. /\ Move(c, "queued") \/ Move(c, "refused") \/ Move(c, "joined")
          /\ header' = header /\ upstream' = upstream
      BY <1>3 DEF ClientConnects, ClientRefused, JoinNext, confVars
    <2>2. QED
      BY <1>2, <2>1
  <1>4. CASE Accept \/ Reject
    <2>1. /\ Head(backlog) \in Conns
          /\ Move(Head(backlog), "connect") \/ Move(Head(backlog), "rejected")
          /\ header' = header /\ upstream' = upstream
      BY <1>4 DEF TypeOK, Accept, Reject, Accepts, confVars
    <2>2. QED
      BY <1>2, <2>1
  <1>5. ASSUME NEW c \in Conns, HeaderWritten(c) PROVE Sent'
    <2>1. PICK dst \in {Local[c], Peer[c]} :
            upstream' = [upstream EXCEPT ![c] = v2_header(Peer[c], dst)]
      BY <1>5 DEF HeaderWritten
    <2>2. header' = header /\ Move(c, "relay")
      BY <1>5 DEF HeaderWritten, Relaying, confVars
    <2>3. There' = There \cup {c}
      BY <2>2 DEF TypeOK, Move, In
    <2>4. /\ upstream'[c] = v2_header(Peer[c], dst)
          /\ \A e \in Conns : e # c => upstream'[e] = upstream[e]
          /\ upstream' = [e \in Conns |-> upstream'[e]]
      BY <2>1 DEF Sent
    <2>5. There \subseteq Conns
      BY DEF In
    <2>6. QED
      BY <2>2, <2>3, <2>4, <2>5 DEF Sent
  <1>6. ASSUME NEW c \in Conns, Handle(c), ~HeaderWritten(c) PROVE Sent'
    <2>1. header' = header /\ upstream' = upstream
      BY <1>6 DEF Handle, HandleAborts, ConnectedPlain, ConnectedHeader, Relaying, ConnectTimesOut,
                  ConnectFails, RelayCloses, RelayLeaves, TaskEnds, confVars
    <2>2. \/ \E place \in {"header", "ending", "ended"} : Move(c, place)
          \/ Move(c, "relay") /\ ~header
          \/ Move(c, "closing") /\ conn[c] = "relay"
      BY <1>6 DEF Handle, HandleAborts, ConnectedPlain, ConnectedHeader, Relaying, ConnectTimesOut,
                  ConnectFails, RelayCloses, RelayLeaves, TaskEnds
    <2>3. QED
      BY <1>2, <2>1, <2>2
  <1>7. QED
    BY <1>1, <1>3, <1>4, <1>5, <1>6 DEF Next, Environment, AcceptLoop, Serves, Joins, LoopOnly

\* A target that reads the header learns the client's address and port, whatever
\* addresses and ports the listener's sockets have, and takes the client's data from its
\* first byte on; only where the families really differ it is told LOCAL.
THEOREM ServerHeader == Spec => []HeaderTellsClient
  <1>1. Init => Sent
    BY DEF Init, Sent, In
  <1>2. Sent => HeaderTellsClient
    <2> SUFFICES ASSUME Sent, NEW c \in In({"relay", "closing"}), header,
                        NEW told, told = Receive(upstream[c] \o <<"data">>)
                 PROVE  /\ told.data = <<"data">>
                        /\ \/ /\ told.cmd = "PROXY" /\ told.port = Peer[c].port
                              /\ told.client = octets(Canonical(Peer[c].ip))
                           \/ /\ told.cmd = "LOCAL"
                              /\ Canonical(Peer[c].ip).family # Canonical(Local[c].ip).family
      BY Zenon DEF HeaderTellsClient
    <2>1. PICK dst \in {Local[c], Peer[c]} : upstream[c] = v2_header(Peer[c], dst)
      BY DEF Sent
    <2>2. Peer[c] \in SocketAddr /\ Local[c] \in SocketAddr
      BY ServerAssumption DEF In
    <2>3. dst \in SocketAddr
      BY <2>2
    <2>4. told = Receive(v2_header(Peer[c], dst) \o <<"data">>)
      BY Zenon, <2>1
    <2>5. /\ told.data = <<"data">>
          /\ \/ /\ told.cmd = "PROXY" /\ told.port = Peer[c].port
                /\ told.client = octets(Canonical(Peer[c].ip))
             \/ /\ told.cmd = "LOCAL"
                /\ Canonical(Peer[c].ip).family # Canonical(dst.ip).family
      BY Zenon, <2>2, <2>3, <2>4, HeaderRead
    <2>6. CASE dst = Peer[c]
      BY Zenon, <2>5, <2>6
    <2>7. CASE dst = Local[c]
      BY Zenon, <2>5, <2>7
    <2>8. QED
      BY Zenon, <2>6, <2>7
  <1>3. QED
    BY <1>1, <1>2, SentStep, ServerType, QueueAlways, PTL DEF Spec
=============================================================================
