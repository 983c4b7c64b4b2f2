-------------------------- MODULE MetricsExporterProofs --------------------------
(***************************************************************************)
(* Proofs about the exporter of src/src/metrics.rs: for any finite number of   *)
(* clients, any requests in any number of pieces, any cap and any timeouts of  *)
(* which the drain's is the shorter.                                           *)
(***************************************************************************)
EXTENDS MetricsExporter, FiniteSetTheorems, TLAPS

Running == {"read", "write", "drain"}
Ended == {"served", "timeout", "error"}
Places == {"away", "queued", "refused", "dropped"} \cup Running \cup Ended

\* The types of the loop's, the tasks' and the clients' variables.
TypeOK ==
    /\ stop \in BOOLEAN /\ lpc \in {"select", "backoff", "exited"}
    /\ permits \in Nat
    /\ conn \in [Clients -> Places]
    /\ kind \in [Clients -> UNION {Kinds[c] : c \in Clients}]
    /\ \A c \in Clients : kind[c] \in Kinds[c]
    /\ sent \in [Clients -> Nat] /\ taken \in [Clients -> Nat]
    /\ fin \in [Clients -> BOOLEAN]
    /\ answer \in [Clients -> {"none", "200", "404"}]
    /\ seen \in [Clients -> {"none", "200", "404", "lost"}]
    /\ age \in [Clients -> Nat] /\ due \in [Clients -> Nat] /\ wrote \in [Clients -> Nat]

\* The whole line is read, or all there will ever be of it.
LineRead(c) == taken[c] >= kind[c].path \/ (fin[c] /\ sent[c] = taken[c])

\* The request of c as its task has read it.
ReadInv(c) ==
    /\ taken[c] <= sent[c]
    /\ conn[c] = "write" \/ answer[c] # "none" => LineRead(c)
    /\ answer[c] # "none" => conn[c] \in {"drain"} \cup Ended
    /\ answer[c] # "none" => (answer[c] = "200" <=> kind[c].metrics /\ taken[c] >= kind[c].path)

\* The timers of c, and why its task ended.
TimerInv(c) ==
    /\ age[c] <= REQUEST_TIMEOUT
    /\ conn[c] = "drain" => due[c] = wrote[c] + DRAIN_TIMEOUT /\ age[c] <= due[c]
    /\ conn[c] = "timeout" => age[c] = REQUEST_TIMEOUT
    /\ conn[c] = "served" => fin[c] \/ age[c] - wrote[c] = DRAIN_TIMEOUT

\* When the answer to c is lost.
LossInv(c) ==
    seen[c] = "lost" => \/ conn[c] \in {"error", "timeout"}
                        \/ conn[c] = "served" /\ age[c] - wrote[c] = DRAIN_TIMEOUT

IInv == /\ TypeOK /\ PermitsAreTasks
        /\ \A c \in Clients : ReadInv(c) /\ TimerInv(c) /\ LossInv(c)

-----------------------------------------------------------------------------
(* Types.                                                                    *)

\* What a request is made of.
LEMMA KindType ==
  ASSUME TypeOK, NEW c \in Clients
  PROVE  /\ kind[c].metrics \in BOOLEAN
         /\ kind[c].path \in Nat /\ kind[c].eol \in Nat /\ kind[c].size \in Nat
         /\ kind[c].path <= BufSize /\ kind[c].path <= kind[c].eol /\ kind[c].path > 0
  <1>1. kind[c] \in Kinds[c]
    BY DEF TypeOK
  <1>2. /\ kind[c] \in [metrics : BOOLEAN, path : 1..BufSize, eol : Nat \ {0}, size : Nat \ {0}]
        /\ kind[c].path <= kind[c].eol
    BY <1>1, ExporterAssumption
  <1>3. kind[c].metrics \in BOOLEAN /\ kind[c].path \in 1..BufSize
    BY <1>2
  <1>4. kind[c].eol \in Nat /\ kind[c].size \in Nat
    BY <1>2
  <1>5. QED
    BY <1>2, <1>3, <1>4, ExporterAssumption

\* The timeouts and the cap are naturals.
LEMMA Timeouts ==
  /\ MAX_INFLIGHT \in Nat /\ BufSize \in Nat
  /\ REQUEST_TIMEOUT \in Nat /\ DRAIN_TIMEOUT \in Nat
  BY ExporterAssumption

\* The outcome of a connection is one of those its actions name.
LEMMA EndsType ==
  ASSUME TypeOK, NEW c \in Clients, NEW how \in Ended, Ends(c, how)
  PROVE  TypeOK'
  <1>1. conn' \in [Clients -> Places] /\ permits' \in Nat
    BY DEF Ends, Move, TypeOK, Places
  <1>2. seen' \in [Clients -> {"none", "200", "404", "lost"}]
    BY DEF Ends, Closes, Reset, TypeOK
  <1>3. QED
    BY <1>1, <1>2 DEF Ends, TypeOK, clientVars, drainVars

LEMMA TypeTask == ASSUME TypeOK, NEW c \in Clients, Task(c) \/ Fails(c) PROVE TypeOK'
  <1> USE DEF clientVars, drainVars
  <1>1. CASE Reads(c)
    <2>1. Least(sent[c], BufSize) \in Nat
      BY Timeouts DEF TypeOK, Least
    <2>2. taken' \in [Clients -> Nat]
      BY <1>1, <2>1 DEF Reads, TypeOK
    <2>3. conn' \in [Clients -> Places]
      BY <1>1 DEF Reads, Move, TypeOK, Places, Running
    <2>4. QED
      BY <1>1, <2>2, <2>3 DEF Reads, TypeOK
  <1>2. CASE ReadsEof(c)
    <2>1. conn' \in [Clients -> Places]
      BY <1>2 DEF ReadsEof, Move, TypeOK, Places, Running
    <2>2. QED
      BY <1>2, <2>1 DEF ReadsEof, TypeOK
  <1>3. CASE Writes(c)
    <2>1. conn' \in [Clients -> Places]
      BY <1>3 DEF Writes, Move, TypeOK, Places, Running
    <2>2. answer' \in [Clients -> {"none", "200", "404"}]
      BY <1>3 DEF Writes, Status, TypeOK
    <2>3. due' \in [Clients -> Nat] /\ wrote' \in [Clients -> Nat]
      BY <1>3, Timeouts DEF Writes, TypeOK
    <2>4. QED
      BY <1>3, <2>1, <2>2, <2>3 DEF Writes, TypeOK
  <1>4. CASE Drains(c)
    <2>1. taken' \in [Clients -> Nat]
      BY <1>4 DEF Drains, TypeOK
    <2>2. QED
      BY <1>4, <2>1 DEF Drains, TypeOK
  <1>5. CASE Drained(c) \/ TimesOut(c) \/ Fails(c)
    BY <1>5, EndsType DEF Drained, TimesOut, Fails, Ended
  <1>6. QED
    BY <1>1, <1>2, <1>3, <1>4, <1>5 DEF Task

LEMMA TypeClient == ASSUME TypeOK, NEW c \in Clients, Client(c) PROVE TypeOK'
  <1> USE DEF clientVars, drainVars
  <1>1. CASE Connects(c)
    <2>1. conn' \in [Clients -> Places]
      BY <1>1 DEF Connects, Move, TypeOK, Places
    <2>2. QED
      BY <1>1, <2>1 DEF Connects, TypeOK
  <1>2. CASE Sends(c)
    <2>1. seen' \in [Clients -> {"none", "200", "404", "lost"}]
      BY <1>2 DEF Sends, Reset, TypeOK
    <2>2. sent' \in [Clients -> Nat]
      BY <1>2 DEF Sends, TypeOK
    <2>3. QED
      BY <1>2, <2>1, <2>2 DEF Sends, TypeOK
  <1>3. CASE SendsEof(c)
    <2>1. fin' \in [Clients -> BOOLEAN]
      BY <1>3 DEF SendsEof, TypeOK
    <2>2. QED
      BY <1>3, <2>1 DEF SendsEof, TypeOK
  <1>4. CASE Receives(c)
    <2>1. seen' \in [Clients -> {"none", "200", "404", "lost"}]
      BY <1>4 DEF Receives, TypeOK
    <2>2. QED
      BY <1>4, <2>1 DEF Receives, TypeOK
  <1>5. QED
    BY <1>1, <1>2, <1>3, <1>4 DEF Client

LEMMA TypeLoop == TypeOK /\ (Stop \/ Loop \/ Advance) => TypeOK'
  <1> SUFFICES ASSUME TypeOK, Stop \/ Loop \/ Advance PROVE TypeOK'
    OBVIOUS
  <1> USE DEF clientVars, drainVars
  <1>1. CASE Stop \/ AcceptErr \/ BackoffOver
    BY <1>1 DEF Stop, AcceptErr, BackoffOver, TypeOK
  <1>2. CASE Returns
    <2>1. conn' \in [Clients -> Places]
      BY <1>2 DEF Returns, TypeOK, Places
    <2>2. QED
      BY <1>2, <2>1 DEF Returns, TypeOK
  <1>3. ASSUME NEW c \in Clients, Accept(c) PROVE TypeOK'
    <2>1. conn' \in [Clients -> Places] /\ permits' \in Nat
      BY <1>3 DEF Accept, Move, TypeOK, Places, Running
    <2>2. QED
      BY <1>3, <2>1 DEF Accept, TypeOK
  <1>4. ASSUME NEW c \in Clients, AtCap(c) PROVE TypeOK'
    <2>1. conn' \in [Clients -> Places]
      BY <1>4 DEF AtCap, Move, TypeOK, Places
    <2>2. seen' \in [Clients -> {"none", "200", "404", "lost"}]
      BY <1>4 DEF AtCap, Closes, Reset, TypeOK
    <2>3. QED
      BY <1>4, <2>1, <2>2 DEF AtCap, TypeOK
  <1>5. CASE Advance
    <2>1. age' \in [Clients -> Nat]
      BY <1>5 DEF Advance, TypeOK
    <2>2. QED
      BY <1>5, <2>1 DEF Advance, TypeOK
  <1>6. QED
    BY <1>1, <1>2, <1>3, <1>4, <1>5 DEF Loop

LEMMA TypeNext == TypeOK /\ [Next]_vars => TypeOK'
  <1>1. TypeOK /\ UNCHANGED vars => TypeOK'
    BY DEF vars, clientVars, drainVars, TypeOK
  <1>2. QED
    BY <1>1, TypeLoop, TypeClient, TypeTask DEF Next

LEMMA TypeInit == Init => TypeOK
  <1> SUFFICES ASSUME Init PROVE TypeOK
    OBVIOUS
  <1>1. conn \in [Clients -> Places]
    BY DEF Init, Places
  <1>2. kind \in [Clients -> UNION {Kinds[c] : c \in Clients}] /\ \A c \in Clients : kind[c] \in Kinds[c]
    BY DEF Init
  <1>3. sent \in [Clients -> Nat] /\ taken \in [Clients -> Nat] /\ fin \in [Clients -> BOOLEAN]
    BY DEF Init
  <1>4. /\ answer \in [Clients -> {"none", "200", "404"}]
        /\ seen \in [Clients -> {"none", "200", "404", "lost"}]
    BY DEF Init
  <1>5. age \in [Clients -> Nat] /\ due \in [Clients -> Nat] /\ wrote \in [Clients -> Nat]
    BY DEF Init
  <1>6. stop \in BOOLEAN /\ lpc \in {"select", "backoff", "exited"} /\ permits \in Nat
    BY Timeouts DEF Init
  <1>7. QED
    BY <1>1, <1>2, <1>3, <1>4, <1>5, <1>6 DEF TypeOK

-----------------------------------------------------------------------------
(* Permits.                                                                  *)

LEMMA InFlightFinite == IsFiniteSet(InFlight) /\ Cardinality(InFlight) \in Nat
  <1>1. InFlight \in SUBSET Clients
    BY DEF InFlight
  <1>2. IsFiniteSet(InFlight)
    BY <1>1, FS_Subset, ExporterAssumption
  <1>3. QED
    BY <1>2, FS_CardinalityType

\* A step that neither starts nor ends a task, and gives no permit away.
LEMMA PermitsStay ==
  ASSUME PermitsAreTasks, permits' = permits,
         \A c \in Clients : conn'[c] \in Running <=> conn[c] \in Running
  PROVE  PermitsAreTasks'
  <1>1. InFlight' = InFlight
    BY DEF InFlight, Running
  <1>2. QED
    BY <1>1 DEF PermitsAreTasks

\* An accepted client takes one permit.
LEMMA PermitTaken == ASSUME TypeOK, PermitsAreTasks, NEW c \in Clients, Accept(c) PROVE PermitsAreTasks'
  <1>1. c \notin InFlight /\ permits' = permits - 1
    BY DEF Accept, InFlight
  <1>2. InFlight' = InFlight \cup {c}
    BY DEF Accept, Move, InFlight, TypeOK
  <1>3. Cardinality(InFlight') = Cardinality(InFlight) + 1
    BY <1>1, <1>2, InFlightFinite, FS_AddElement
  <1>4. QED
    BY <1>1, <1>3, InFlightFinite DEF PermitsAreTasks, TypeOK

\* However a task ends, its permit goes back, and only its own.
LEMMA PermitGiven ==
  ASSUME TypeOK, PermitsAreTasks, NEW c \in InFlight, NEW how \in Ended, Ends(c, how)
  PROVE  PermitsAreTasks'
  <1>1. c \in Clients /\ permits' = permits + 1
    BY DEF Ends, InFlight
  <1>2. InFlight' = InFlight \ {c}
    BY <1>1 DEF Ends, Move, InFlight, TypeOK, Ended
  <1>3. Cardinality(InFlight') = Cardinality(InFlight) - 1
    BY <1>2, InFlightFinite, FS_RemoveElement
  <1>4. QED
    BY <1>1, <1>3, InFlightFinite DEF PermitsAreTasks, TypeOK

\* No other step takes or gives one.
LEMMA PermitsNext == TypeOK /\ PermitsAreTasks /\ [Next]_vars => PermitsAreTasks'
  <1> SUFFICES ASSUME TypeOK, PermitsAreTasks, [Next]_vars PROVE PermitsAreTasks'
    OBVIOUS
  <1> USE DEF Running, Move, TypeOK
  <1>1. CASE UNCHANGED vars
    BY <1>1, PermitsStay DEF vars
  <1>2. CASE Stop \/ AcceptErr \/ BackoffOver \/ Advance
    BY <1>2, PermitsStay DEF Stop, AcceptErr, BackoffOver, Advance
  <1>3. CASE Returns
    BY <1>3, PermitsStay DEF Returns
  <1>4. ASSUME NEW c \in Clients, AtCap(c) PROVE PermitsAreTasks'
    BY <1>4, PermitsStay DEF AtCap
  <1>5. ASSUME NEW c \in Clients, Client(c) PROVE PermitsAreTasks'
    BY <1>5, PermitsStay DEF Client, Connects, Sends, SendsEof, Receives
  <1>6. ASSUME NEW c \in Clients, Reads(c) \/ ReadsEof(c) \/ Writes(c) \/ Drains(c)
        PROVE  PermitsAreTasks'
    BY <1>6, PermitsStay DEF Reads, ReadsEof, Writes, Drains
  <1>7. ASSUME NEW c \in Clients, Drained(c) \/ TimesOut(c) \/ Fails(c) PROVE PermitsAreTasks'
    <2>1. c \in InFlight /\ \E how \in Ended : Ends(c, how)
      BY <1>7 DEF Drained, TimesOut, Fails, InFlight, Ended
    <2>2. QED
      BY <2>1, PermitGiven
  <1>8. QED
    BY <1>1, <1>2, <1>3, <1>4, <1>5, <1>6, <1>7, PermitTaken DEF Next, Loop, Task

-----------------------------------------------------------------------------
(* One client's connection.                                                  *)

\* The three parts together.
ClientInv(c) == ReadInv(c) /\ TimerInv(c) /\ LossInv(c)

\* A step that is about something else leaves the connection as it is.
LEMMA Frame ==
  ASSUME NEW d \in Clients, ClientInv(d), kind' = kind,
         conn'[d] = conn[d], sent'[d] = sent[d], taken'[d] = taken[d], fin'[d] = fin[d],
         answer'[d] = answer[d], seen'[d] = seen[d], age'[d] = age[d], due'[d] = due[d],
         wrote'[d] = wrote[d]
  PROVE  ClientInv(d)'
  BY DEF ClientInv, ReadInv, LineRead, TimerInv, LossInv, Ended

\* A task and a client touch only their own connection.
LEMMA Others ==
  ASSUME TypeOK, NEW c \in Clients, Client(c) \/ Task(c) \/ Fails(c) \/ Accept(c) \/ AtCap(c),
         NEW d \in Clients, d # c, ClientInv(d)
  PROVE  ClientInv(d)'
  <1> USE DEF TypeOK, clientVars, drainVars, Move, Reset, Closes
  <1>1. CASE Client(c)
    BY <1>1, Frame DEF Client, Connects, Sends, SendsEof, Receives
  <1>2. CASE Accept(c) \/ AtCap(c)
    BY <1>2, Frame DEF Accept, AtCap
  <1>3. CASE Reads(c) \/ ReadsEof(c) \/ Writes(c) \/ Drains(c)
    BY <1>3, Frame DEF Reads, ReadsEof, Writes, Drains
  <1>4. CASE Drained(c) \/ TimesOut(c) \/ Fails(c)
    BY <1>4, Frame DEF Drained, TimesOut, Fails, Ends
  <1>5. QED
    BY <1>1, <1>2, <1>3, <1>4 DEF Task

\* What the client does never makes a read line incomplete: after its FIN it sends no
\* more.  Data for a closed socket costs it the answer only when the drain's time was up.
LEMMA OwnClient ==
  ASSUME TypeOK, NEW c \in Clients, ClientInv(c), Client(c)
  PROVE  ClientInv(c)'
  <1> USE DEF ClientInv, clientVars, drainVars
  <1>1. CASE Connects(c)
    BY <1>1 DEF Connects, Move, TypeOK, ReadInv, LineRead, TimerInv, LossInv, Ended
  <1>2. CASE Sends(c)
    <2>1. /\ kind' = kind /\ conn'[c] = conn[c] /\ taken'[c] = taken[c] /\ fin'[c] = fin[c]
          /\ answer'[c] = answer[c] /\ age'[c] = age[c] /\ due'[c] = due[c]
          /\ wrote'[c] = wrote[c] /\ sent'[c] = sent[c] + 1 /\ ~fin[c]
          /\ sent[c] \in Nat /\ taken[c] \in Nat
      BY <1>2 DEF Sends, TypeOK
    <2>2. ReadInv(c)'
      BY <2>1 DEF ReadInv, LineRead, Ended
    <2>3. TimerInv(c)'
      BY <2>1 DEF TimerInv
    <2>4. seen'[c] = seen[c] \/ (conn[c] \in {"served", "timeout"})
      BY <1>2 DEF Sends, Closed, TypeOK, Reset, ReadInv, Ended
    <2>5. LossInv(c)'
      BY <2>1, <2>4 DEF LossInv, TimerInv
    <2>6. QED
      BY <2>2, <2>3, <2>5
  <1>3. CASE SendsEof(c)
    BY <1>3 DEF SendsEof, TypeOK, ReadInv, LineRead, TimerInv, LossInv, Ended
  <1>4. CASE Receives(c)
    BY <1>4 DEF Receives, TypeOK, ReadInv, LineRead, TimerInv, LossInv, Ended
  <1>5. QED
    BY <1>1, <1>2, <1>3, <1>4 DEF Client

\* A connection starts with a fresh timer.
LEMMA OwnAccept ==
  ASSUME TypeOK, NEW c \in Clients, ClientInv(c), Accept(c) \/ AtCap(c)
  PROVE  ClientInv(c)'
  <1> USE DEF ClientInv, clientVars, drainVars, ReadInv, LineRead, TimerInv, LossInv, Ended
  <1>1. CASE Accept(c)
    BY <1>1 DEF Accept, Move, TypeOK
  <1>2. CASE AtCap(c)
    <2>1. answer[c] = "none"
      BY <1>2 DEF AtCap, TypeOK
    <2>2. seen'[c] = seen[c]
      BY <1>2, <2>1 DEF AtCap, Closes, Reset, TypeOK
    <2>3. QED
      BY <1>2, <2>1, <2>2 DEF AtCap, Move, TypeOK
  <1>3. QED
    BY <1>1, <1>2

\* The read loop stops with the path in the buffer or at the end of what is sent; the
\* status is decided on nothing less.
LEMMA OwnReads ==
  ASSUME TypeOK, NEW c \in Clients, ClientInv(c),
         Reads(c) \/ ReadsEof(c) \/ Writes(c) \/ Drains(c)
  PROVE  ClientInv(c)'
  <1> USE DEF ClientInv, clientVars, drainVars
  <1>1. CASE Reads(c)
    <2>1. /\ kind' = kind /\ sent'[c] = sent[c] /\ fin'[c] = fin[c] /\ answer'[c] = answer[c]
          /\ seen'[c] = seen[c] /\ age'[c] = age[c] /\ wrote'[c] = wrote[c]
          /\ taken'[c] = Least(sent[c], BufSize) /\ conn[c] = "read"
          /\ sent[c] \in Nat /\ taken[c] \in Nat
      BY <1>1 DEF Reads, TypeOK
    <2>2. taken'[c] <= sent'[c] /\ taken'[c] \in Nat
      BY <2>1, Timeouts DEF Least
    <2>3. answer[c] = "none"
      BY <2>1 DEF ReadInv, Ended
    <2>4. conn'[c] = IF ReadOn(c) THEN "read" ELSE "write"
      BY <1>1 DEF Reads, Move, TypeOK
    <2>5. ~ReadOn(c) => taken'[c] >= kind[c].path
      BY <2>2, KindType, Timeouts DEF ReadOn
    <2>6. ReadInv(c)'
      BY <2>1, <2>2, <2>3, <2>4, <2>5 DEF ReadInv, LineRead
    <2>7. TimerInv(c)' /\ LossInv(c)'
      BY <2>1, <2>4 DEF TimerInv, LossInv
    <2>8. QED
      BY <2>6, <2>7
  <1>2. CASE ReadsEof(c)
    BY <1>2 DEF ReadsEof, Move, TypeOK, ReadInv, LineRead, TimerInv, LossInv, Ended
  <1>3. CASE Writes(c)
    <2>1. /\ kind' = kind /\ sent'[c] = sent[c] /\ fin'[c] = fin[c] /\ answer'[c] = Status(c)
          /\ seen'[c] = seen[c] /\ age'[c] = age[c] /\ wrote'[c] = age[c]
          /\ due'[c] = age[c] + DRAIN_TIMEOUT
          /\ taken'[c] = taken[c] /\ conn[c] = "write" /\ conn'[c] = "drain"
          /\ age[c] \in Nat
      BY <1>3 DEF Writes, Move, TypeOK
    <2>2. ReadInv(c)'
      BY <2>1 DEF ReadInv, LineRead, Status
    <2>3. TimerInv(c)' /\ LossInv(c)'
      BY <2>1, Timeouts DEF TimerInv, LossInv
    <2>4. QED
      BY <2>2, <2>3
  <1>4. CASE Drains(c)
    <2>1. /\ kind' = kind /\ sent'[c] = sent[c] /\ fin'[c] = fin[c] /\ answer'[c] = answer[c]
          /\ seen'[c] = seen[c] /\ age'[c] = age[c] /\ wrote'[c] = wrote[c] /\ due'[c] = due[c]
          /\ taken'[c] = sent[c] /\ conn[c] = "drain" /\ conn'[c] = "drain"
          /\ sent[c] > taken[c] /\ sent[c] \in Nat /\ taken[c] \in Nat
      BY <1>4 DEF Drains, TypeOK
    <2>2. answer[c] # "none" => taken[c] >= kind[c].path /\ taken'[c] >= kind[c].path
      BY <2>1, KindType DEF ReadInv, LineRead
    <2>3. ReadInv(c)'
      BY <2>1, <2>2 DEF ReadInv, LineRead
    <2>4. TimerInv(c)' /\ LossInv(c)'
      BY <2>1 DEF TimerInv, LossInv
    <2>5. QED
      BY <2>3, <2>4
  <1>5. QED
    BY <1>1, <1>2, <1>3, <1>4

\* A task that ends: the drained one has read everything, so its close resets nothing;
\* of the others the reason is on record.
LEMMA OwnEnds ==
  ASSUME TypeOK, NEW c \in Clients, ClientInv(c), Drained(c) \/ TimesOut(c) \/ Fails(c)
  PROVE  ClientInv(c)'
  <1> USE DEF ClientInv
  <1>1. PICK how \in Ended : Ends(c, how) /\ (how = "served" => Drained(c))
                             /\ (how = "timeout" => TimesOut(c))
    BY DEF Drained, TimesOut, Fails, Ended
  <1>2. /\ kind' = kind /\ sent'[c] = sent[c] /\ fin'[c] = fin[c] /\ answer'[c] = answer[c]
        /\ age'[c] = age[c] /\ wrote'[c] = wrote[c] /\ due'[c] = due[c]
        /\ taken'[c] = taken[c] /\ conn'[c] = how
        /\ age[c] \in Nat /\ due[c] \in Nat /\ wrote[c] \in Nat
    BY <1>1 DEF Ends, Move, TypeOK, clientVars, drainVars
  <1>3. conn[c] \in Running
    BY DEF Drained, TimesOut, Fails, InFlight, Running
  <1>4. seen[c] # "lost"
    BY <1>3 DEF LossInv, Running
  <1>5. ReadInv(c)'
    BY <1>2 DEF ReadInv, LineRead, Ended
  <1>6. CASE how = "served"
    <2>1. /\ conn[c] = "drain" /\ sent[c] = taken[c] /\ (fin[c] \/ age[c] >= due[c])
      BY <1>1, <1>6 DEF Drained
    <2>2. seen'[c] = seen[c]
      BY <1>1, <2>1 DEF Ends, Closes, TypeOK
    <2>3. fin[c] \/ age[c] - wrote[c] = DRAIN_TIMEOUT
      BY <1>2, <2>1, Timeouts DEF TimerInv
    <2>4. TimerInv(c)'
      BY <1>2, <1>6, <2>3 DEF TimerInv
    <2>5. LossInv(c)'
      BY <1>4, <2>2 DEF LossInv
    <2>6. QED
      BY <1>5, <2>4, <2>5
  <1>7. CASE how = "timeout"
    <2>1. age[c] = REQUEST_TIMEOUT
      BY <1>1, <1>2, <1>7, Timeouts DEF TimesOut, TimerInv
    <2>2. QED
      BY <1>2, <1>5, <1>7, <2>1 DEF TimerInv, LossInv
  <1>8. CASE how = "error"
    BY <1>2, <1>5, <1>8 DEF TimerInv, LossInv
  <1>9. QED
    BY <1>6, <1>7, <1>8 DEF Ended

\* A tick comes only when no timer is due.
LEMMA OwnAdvance ==
  ASSUME TypeOK, NEW c \in Clients, ClientInv(c), Advance
  PROVE  ClientInv(c)'
  <1>1. /\ kind' = kind /\ conn'[c] = conn[c] /\ sent'[c] = sent[c] /\ taken'[c] = taken[c]
        /\ fin'[c] = fin[c] /\ answer'[c] = answer[c] /\ seen'[c] = seen[c]
        /\ due'[c] = due[c] /\ wrote'[c] = wrote[c]
    BY DEF Advance, clientVars, drainVars
  <1>2. age[c] \in Nat /\ due[c] \in Nat
    BY DEF TypeOK
  <1>3. CASE c \in InFlight
    <2>1. age'[c] = age[c] + 1 /\ age[c] < REQUEST_TIMEOUT /\ ~Ready(c)
      BY <1>3 DEF Advance
    <2>2. conn[c] = "drain" => age[c] < due[c]
      BY <1>2, <2>1 DEF Ready
    <2>3. conn[c] \in Running
      BY <1>3 DEF InFlight, Running
    <2>4. TimerInv(c)'
      BY <1>1, <1>2, <2>1, <2>2, <2>3, Timeouts DEF ClientInv, TimerInv, Running
    <2>5. ReadInv(c)' /\ LossInv(c)'
      BY <1>1, <2>3 DEF ClientInv, ReadInv, LineRead, LossInv, Ended, Running
    <2>6. QED
      BY <2>4, <2>5 DEF ClientInv
  <1>4. CASE c \notin InFlight
    <2>1. age'[c] = age[c]
      BY <1>4 DEF Advance
    <2>2. QED
      BY <1>1, <2>1, Frame
  <1>5. QED
    BY <1>3, <1>4

\* Whoever moves, what is known of every connection stays.
LEMMA ClientsNext ==
  ASSUME TypeOK, [Next]_vars, NEW d \in Clients, ClientInv(d)
  PROVE  ClientInv(d)'
  <1> USE DEF clientVars, drainVars
  <1>1. CASE UNCHANGED vars
    BY <1>1, Frame DEF vars
  <1>2. CASE Stop \/ AcceptErr \/ BackoffOver
    BY <1>2, Frame DEF Stop, AcceptErr, BackoffOver
  <1>3. CASE Returns
    <2>1. conn'[d] = IF conn[d] = "queued" THEN "refused" ELSE conn[d]
      BY <1>3 DEF Returns, TypeOK
    <2>2. QED
      BY <1>3, <2>1 DEF Returns, ClientInv, ReadInv, LineRead, TimerInv, LossInv, Ended
  <1>4. CASE Advance
    BY <1>4, OwnAdvance
  <1>5. ASSUME NEW c \in Clients, Client(c) \/ Task(c) \/ Fails(c) \/ Accept(c) \/ AtCap(c)
        PROVE  ClientInv(d)'
    <2>1. CASE c # d
      BY <1>5, <2>1, Others
    <2>2. CASE c = d
      BY <1>5, <2>2, OwnClient, OwnAccept, OwnReads, OwnEnds DEF Task
    <2>3. QED
      BY <2>1, <2>2
  <1>6. QED
    BY <1>1, <1>2, <1>3, <1>4, <1>5 DEF Next, Loop

-----------------------------------------------------------------------------
\* Types, permits and, for every connection, the inductive facts about its request, its
\* timers and the loss of its answer hold throughout.
THEOREM Inductive == Spec => []IInv
  <1>1. Init => IInv
    <2> SUFFICES ASSUME Init PROVE IInv
      OBVIOUS
    <2>1. InFlight = {}
      BY DEF Init, InFlight
    <2>2. PermitsAreTasks
      BY <2>1, FS_EmptySet, Timeouts DEF Init, PermitsAreTasks
    <2>3. ASSUME NEW c \in Clients PROVE ReadInv(c) /\ TimerInv(c) /\ LossInv(c)
      BY Timeouts DEF Init, ReadInv, TimerInv, LossInv
    <2>4. QED
      BY <2>2, <2>3, TypeInit DEF IInv
  <1>2. IInv /\ [Next]_vars => IInv'
    BY TypeNext, PermitsNext, ClientsNext DEF IInv, ClientInv
  <1>3. QED
    BY <1>1, <1>2, PTL DEF Spec

\* The semaphore neither leaks a permit nor mints one, whatever ends a task.
THEOREM PermitsBalance == Spec => []PermitsAreTasks
  BY Inductive, PTL DEF IInv

\* No client keeps handle_request longer than REQUEST_TIMEOUT, nor its drain longer
\* than DRAIN_TIMEOUT.
THEOREM PermitsHeldBriefly == Spec => []HoldsPermitBriefly
  <1>1. IInv => HoldsPermitBriefly
    <2> SUFFICES ASSUME IInv, NEW c \in InFlight
                 PROVE  /\ age[c] <= REQUEST_TIMEOUT
                        /\ conn[c] = "drain" => age[c] - wrote[c] <= DRAIN_TIMEOUT
      BY DEF HoldsPermitBriefly
    <2>1. c \in Clients /\ TimerInv(c) /\ age[c] \in Nat /\ wrote[c] \in Nat
      BY DEF IInv, InFlight, TypeOK
    <2>2. QED
      BY <2>1, Timeouts DEF TimerInv
  <1>2. QED
    BY <1>1, Inductive, PTL

\* The status answers the request line that was sent, and our own close takes it from
\* no client whose time was not up.
THEOREM AnswersReach == Spec => []AnswerReaches
  <1>1. IInv => AnswerReaches
    <2> SUFFICES ASSUME IInv, NEW c \in Clients, answer[c] # "none"
                 PROVE  /\ answer[c] = "200" <=> kind[c].metrics /\ sent[c] >= kind[c].path
                        /\ seen[c] = "lost" => \/ conn[c] = "error" \/ age[c] = REQUEST_TIMEOUT
                                               \/ age[c] - wrote[c] = DRAIN_TIMEOUT
      BY DEF AnswerReaches
    <2>1. /\ TypeOK /\ ReadInv(c) /\ TimerInv(c) /\ LossInv(c)
          /\ sent[c] \in Nat /\ taken[c] \in Nat
      BY DEF IInv, TypeOK
    <2>2. sent[c] >= kind[c].path <=> taken[c] >= kind[c].path
      BY <2>1, KindType DEF ReadInv, LineRead
    <2>3. answer[c] = "200" <=> kind[c].metrics /\ sent[c] >= kind[c].path
      BY <2>1, <2>2 DEF ReadInv
    <2>4. QED
      BY <2>1, <2>3 DEF LossInv, TimerInv
  <1>2. QED
    BY <1>1, Inductive, PTL
=============================================================================
