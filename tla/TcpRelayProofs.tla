----------------------------- MODULE TcpRelayProofs -----------------------------
(***************************************************************************)
(* Proofs about a relayed TCP connection for every amount of data, every    *)
(* buffer size and every pair of timeouts.                                  *)
(***************************************************************************)
EXTENDS TcpRelay, TLAPS

Other(d) == IF d = "up" THEN "down" ELSE "up"

LEMMA DirFacts ==
    /\ \A d \in Dirs : Src(d) \in Peers /\ Dst(d) \in Peers
    /\ \A d \in Dirs : Other(d) \in Dirs /\ Other(d) # d /\ Dst(Other(d)) = Src(d)
    /\ \A d, e \in Dirs : e = d \/ e = Other(d)
    /\ \A d \in Dirs : Src(d) # Dst(d) /\ Src(Other(d)) = Dst(d)
  BY DEF Dirs, Peers, Src, Dst, Other

-----------------------------------------------------------------------------
(* Type correctness, action by action.                                      *)

LEMMA WakeBounds ==
    ASSUME TypeOK, ~IdleDue, ~HalfDue
    PROVE  Wake \in 1..Tick /\ Wake >= Floor
  <1>1. /\ Floor \in Nat \ {0} /\ Tick \in Nat /\ Floor <= Tick
        /\ cfg.idle \in Nat /\ cfg.half \in Nat
    BY RelayAssumption DEF TypeOK
  <1>2. quiet \in Nat /\ SinceAge \in Nat /\ HalfAge \in Nat
    BY RelayAssumption DEF TypeOK, SinceAge, HalfAge, Lesser, NotArmed
  <1>3. cfg.idle > 0 => cfg.idle - quiet \in Nat
    BY <1>1, <1>2 DEF IdleDue
  <1>4. HalfApplies => cfg.half - HalfAge \in Nat
    BY <1>1, <1>2 DEF HalfDue
  <1>5. QED
    BY <1>1, <1>3, <1>4 DEF Wake, Greater, Lesser

LEMMA TypeInit == Init => TypeOK
  <1> SUFFICES ASSUME Init PROVE TypeOK
    OBVIOUS
  <1>1. room \in [Dirs -> 0..Window] /\ quiet \in 0..MaxAge /\ nap \in 0..Tick
    BY RelayAssumption DEF Init
  <1>2. chan \in Seq(Dirs) /\ armed \in {NotArmed} \cup 0..MaxAge /\ done \subseteq Dirs
    BY DEF Init
  <1>3. QED
    BY <1>1, <1>2 DEF Init, TypeOK

LEMMA TypeStep == TypeOK /\ [Next]_vars => TypeOK'
  <1> SUFFICES ASSUME TypeOK, [Next]_vars PROVE TypeOK'
    OBVIOUS
  <1> USE DEF peerVars, copyVars, watchVars
  <1>1. ASSUME NEW d \in Dirs, PeerSend(d) PROVE TypeOK'
    BY <1>1 DEF PeerSend, TypeOK
  <1>2. ASSUME NEW d \in Dirs, PeerRead(d) PROVE TypeOK'
    <2>1. room' \in [Dirs -> 0..Window]
      BY <1>2, RelayAssumption DEF PeerRead, TypeOK
    <2>2. QED
      BY <1>2, <2>1 DEF PeerRead, TypeOK
  <1>3. ASSUME NEW p \in Peers, PeerFin(p) PROVE TypeOK'
    BY <1>3 DEF PeerFin, TypeOK
  <1>4. ASSUME NEW p \in Peers, PeerReset(p) PROVE TypeOK'
    BY <1>4 DEF PeerReset, TypeOK
  <1>5. ASSUME Shutdown PROVE TypeOK'
    BY <1>5 DEF Shutdown, TypeOK
  <1>6. ASSUME NEW d \in Dirs, ReadData(d) PROVE TypeOK'
    <2>1. got' \in [Dirs -> Nat]
      BY <1>6, RelayAssumption DEF ReadData, TypeOK, Lesser
    <2>2. quiet' \in 0..MaxAge
      BY <1>6, RelayAssumption DEF ReadData
    <2>3. QED
      BY <1>6, <2>1, <2>2 DEF ReadData, TypeOK
  <1>7. ASSUME NEW d \in Dirs, ReadEof(d) PROVE TypeOK'
    BY <1>7 DEF ReadEof, TypeOK
  <1>8. ASSUME NEW d \in Dirs, ReadErr(d) PROVE TypeOK'
    BY <1>8 DEF ReadErr, TypeOK
  <1>9. ASSUME NEW d \in Dirs, WriteSome(d) PROVE TypeOK'
    <2>1. out' \in [Dirs -> Nat] /\ room' \in [Dirs -> 0..Window]
      BY <1>9, RelayAssumption DEF WriteSome, TypeOK
    <2>2. /\ pc' \in [Dirs -> {"read", "write", "report", "done"}]
          /\ total' \in [Dirs -> Nat]
      BY <1>9 DEF WriteSome, TypeOK
    <2>3. QED
      BY <1>9, <2>1, <2>2 DEF WriteSome, TypeOK
  <1>10. ASSUME NEW d \in Dirs, WriteErr(d) PROVE TypeOK'
    BY <1>10 DEF WriteErr, TypeOK
  <1>11. ASSUME NEW d \in Dirs, Break(d) PROVE TypeOK'
    BY <1>11 DEF Break, TypeOK
  <1>12. ASSUME NEW d \in Dirs, Report(d) PROVE TypeOK'
    <2>1. chan' \in Seq(Dirs)
      BY <1>12 DEF Report, TypeOK
    <2>2. QED
      BY <1>12, <2>1 DEF Report, TypeOK
  <1>13. ASSUME CheckEof \/ CheckIdle \/ CheckHalfClose \/ SeeShutdown PROVE TypeOK'
    BY <1>13 DEF CheckEof, CheckIdle, CheckHalfClose, SeeShutdown, Return, envAndCopy, TypeOK
  <1>14. ASSUME CheckNothingDue PROVE TypeOK'
    <2>1. Wake \in 0..Tick
      BY <1>14, WakeBounds DEF CheckNothingDue
    <2>2. SinceAge \in {NotArmed} \cup 0..MaxAge
      BY RelayAssumption DEF SinceAge, TypeOK
    <2>3. QED
      BY <1>14, <2>1, <2>2 DEF CheckNothingDue, envAndCopy, TypeOK
  <1>15. ASSUME RecvErr PROVE TypeOK'
    <2>1. chan' \in Seq(Dirs)
      BY <1>15 DEF RecvErr, TypeOK
    <2>2. QED
      BY <1>15, <2>1 DEF RecvErr, Return, envAndCopy, TypeOK
  <1>16. ASSUME RecvEof PROVE TypeOK'
    <2>1. chan' \in Seq(Dirs) /\ Head(chan) \in Dirs
      BY <1>16 DEF RecvEof, TypeOK
    <2>2. QED
      BY <1>16, <2>1 DEF RecvEof, envAndCopy, TypeOK
  <1>17. ASSUME SleepElapsed \/ Finish PROVE TypeOK'
    BY <1>17 DEF SleepElapsed, Finish, envAndCopy, TypeOK
  <1>18. ASSUME Advance PROVE TypeOK'
    BY <1>18, RelayAssumption DEF Advance, Older, Lesser, NotArmed, TypeOK
  <1>19. ASSUME UNCHANGED vars PROVE TypeOK'
    BY <1>19 DEF vars, TypeOK
  <1>20. QED
    BY <1>1, <1>2, <1>3, <1>4, <1>5, <1>6, <1>7, <1>8, <1>9, <1>10, <1>11, <1>12,
       <1>13, <1>14, <1>15, <1>16, <1>17, <1>18, <1>19
       DEF Next, Environment, Copy, Watchdog, Closed

\* Every variable keeps its type; in particular the watchdog never sleeps longer
\* than WATCHDOG_TICK.
THEOREM RelayType == Spec => []TypeOK
  BY TypeInit, TypeStep, PTL DEF Spec

-----------------------------------------------------------------------------
(* Delivery.  The invariant follows the data of a direction through its copy  *)
(* loop and the news of its end through the channel into the watchdog.        *)

\* What a loop has counted, written and read; a loop about to read has written
\* and counted all it read.
Books ==
    \A d \in Dirs : /\ out[d] <= got[d] /\ got[d] <= sent[d]
                    /\ pc[d] = "read" => out[d] = got[d] /\ total[d] = got[d]
                    /\ pc[d] = "write" => out[d] < got[d]

Ended(d) == pc[d] \in {"report", "done"}

\* An error ends a loop and has a reset behind it; a reset that no call is still to
\* report was reported to one of the loops.
Errors ==
    /\ \A d \in Dirs : end[d] = "Err" => Ended(d) /\ \E p \in Peers : peer[p] = "reset"
    /\ \A p \in Peers : sockErr[p] => peer[p] = "reset"
    /\ \A d \in Dirs :
         peer[Src(d)] = "reset" /\ ~sockErr[Src(d)] => end[d] = "Err" \/ end[Other(d)] = "Err"

\* A loop that ended with Eof, not stopped by the token, has delivered everything,
\* or the other loop ended in an error.
CleanEnds ==
    \A d \in Dirs :
      Ended(d) /\ end[d] = "Eof" /\ ~cancel =>
        /\ out[d] = got[d] /\ total[d] = got[d]
        /\ peer[Src(d)] # "open"
        /\ got[d] = sent[d] \/ end[Other(d)] = "Err"

\* A loop shuts its destination down only when it ends.
Fins == \A d \in Dirs : fin[d] => Ended(d)

\* The watchdog believes only what loops have reported, and the token is
\* cancelled only as it returns, never with "eof".
Verdicts ==
    /\ \A d \in done : pc[d] = "done" /\ end[d] = "Eof"
    /\ \A i \in 1..Len(chan) : pc[chan[i]] = "done"
    /\ wpc \in {"check", "wait"} => ~cancel /\ reason = "none"
    /\ reason = "eof" => done = Dirs /\ ~cancel

Delivery == TypeOK /\ Books /\ Errors /\ CleanEnds /\ Fins /\ Verdicts

LEMMA DeliveryInit == Init => Delivery
  <1> SUFFICES ASSUME Init PROVE Delivery
    OBVIOUS
  <1>1. TypeOK
    BY TypeInit
  <1>2. Books /\ CleanEnds /\ Fins
    BY DEF Init, Books, CleanEnds, Fins, Ended
  <1>3. Errors
    BY DirFacts DEF Init, Errors
  <1>4. Verdicts
    BY DEF Init, Verdicts
  <1>5. QED
    BY <1>1, <1>2, <1>3, <1>4 DEF Delivery

\* The steps of the watchdog, of time and of the shutdown token leave the peers and
\* the loops alone.
LEMMA WatchdogFrame ==
    ASSUME Watchdog \/ Advance \/ Shutdown \/ Closed \/ UNCHANGED vars
    PROVE  UNCHANGED <<peer, sockErr, sent, got, out, total, pc, end, fin>>
  BY DEF Watchdog, CheckEof, CheckIdle, CheckHalfClose, CheckNothingDue, SeeShutdown,
         RecvErr, RecvEof, SleepElapsed, Finish, Advance, Shutdown, Closed,
         envAndCopy, vars, peerVars, copyVars

LEMMA BooksStep == TypeOK /\ Books /\ [Next]_vars => Books'
  <1> SUFFICES ASSUME TypeOK, Books, [Next]_vars PROVE Books'
    OBVIOUS
  <1> USE DEF peerVars, copyVars
  <1>1. ASSUME NEW d \in Dirs, PeerSend(d) PROVE Books'
    BY <1>1 DEF PeerSend, Books, TypeOK
  <1>2. ASSUME NEW d \in Dirs, ReadData(d) PROVE Books'
    <2>1. PICK n \in 1..Lesser(BufSize, sent[d] - got[d]) : got' = [got EXCEPT ![d] = @ + n]
      BY <1>2 DEF ReadData
    <2>2. n \in Nat \ {0} /\ got[d] + n <= sent[d]
      <3>1. sent[d] \in Nat /\ got[d] \in Nat /\ BufSize \in Nat /\ got[d] < sent[d]
        BY <1>2, RelayAssumption DEF ReadData, TypeOK
      <3>2. QED
        BY <2>1, <3>1 DEF Lesser
    <2>3. QED
      BY <1>2, <2>1, <2>2 DEF ReadData, Books, TypeOK
  <1>3. ASSUME NEW d \in Dirs, WriteSome(d) PROVE Books'
    <2>1. /\ pc[d] = "write" /\ out' = [out EXCEPT ![d] = @ + 1]
          /\ got' = got /\ sent' = sent
      BY <1>3 DEF WriteSome
    <2>2. out[d] + 1 <= got[d]
      BY <2>1 DEF Books, TypeOK
    <2>3. CASE out'[d] = got[d]
      BY <1>3, <2>1, <2>2, <2>3 DEF WriteSome, Books, TypeOK
    <2>4. CASE out'[d] # got[d]
      BY <1>3, <2>1, <2>2, <2>4 DEF WriteSome, Books, TypeOK
    <2>5. QED
      BY <2>3, <2>4
  <1>4. ASSUME NEW d \in Dirs,
               ReadEof(d) \/ ReadErr(d) \/ WriteErr(d) \/ Break(d) \/ Report(d)
        PROVE  Books'
    BY <1>4 DEF ReadEof, ReadErr, WriteErr, Break, Report, Books, TypeOK
  <1>5. ASSUME UNCHANGED <<sent, got, out, total, pc>> PROVE Books'
    BY <1>5 DEF Books
  <1>6. ASSUME NEW d \in Dirs, PeerRead(d) PROVE Books'
    BY <1>5, <1>6 DEF PeerRead
  <1>7. ASSUME NEW p \in Peers, PeerFin(p) \/ PeerReset(p) PROVE Books'
    BY <1>5, <1>7 DEF PeerFin, PeerReset
  <1>8. QED
    BY <1>1, <1>2, <1>3, <1>4, <1>5, <1>6, <1>7, WatchdogFrame
       DEF Next, Environment, Copy

LEMMA FinsStep == TypeOK /\ Fins /\ [Next]_vars => Fins'
  <1> SUFFICES ASSUME TypeOK, Fins, [Next]_vars PROVE Fins'
    OBVIOUS
  <1> USE DEF peerVars, copyVars
  <1>1. ASSUME NEW d \in Dirs, Copy(d) PROVE Fins'
    <2>1. /\ fin' = fin \/ (fin' = [fin EXCEPT ![d] = TRUE] /\ pc'[d] \in {"report", "done"})
          /\ pc[d] \in {"report", "done"} => pc'[d] \in {"report", "done"}
          /\ \A e \in Dirs \ {d} : pc'[e] = pc[e]
      BY <1>1 DEF Copy, ReadData, ReadEof, ReadErr, WriteSome, WriteErr, Break, Report, TypeOK
    <2>2. QED
      BY <2>1 DEF Fins, Ended, TypeOK
  <1>2. ASSUME UNCHANGED <<fin, pc>> PROVE Fins'
    BY <1>2 DEF Fins, Ended
  <1>3. ASSUME NEW d \in Dirs, PeerSend(d) \/ PeerRead(d) PROVE Fins'
    BY <1>2, <1>3 DEF PeerSend, PeerRead
  <1>4. ASSUME NEW p \in Peers, PeerFin(p) \/ PeerReset(p) PROVE Fins'
    BY <1>2, <1>4 DEF PeerFin, PeerReset
  <1>5. QED
    BY <1>1, <1>2, <1>3, <1>4, WatchdogFrame DEF Next, Environment

LEMMA ErrorsStep == TypeOK /\ Errors /\ [Next]_vars => Errors'
  <1> SUFFICES ASSUME TypeOK, Errors, [Next]_vars PROVE Errors'
    OBVIOUS
  <1> USE DEF peerVars, copyVars
  <1>1. ASSUME UNCHANGED <<peer, sockErr, pc, end>> PROVE Errors'
    BY <1>1 DEF Errors, Ended
  <1>2. ASSUME NEW d \in Dirs, PeerSend(d) \/ PeerRead(d) PROVE Errors'
    BY <1>1, <1>2 DEF PeerSend, PeerRead
  <1>3. ASSUME NEW p \in Peers, PeerFin(p) PROVE Errors'
    BY <1>3, DirFacts DEF PeerFin, Errors, Ended, TypeOK
  <1>4. ASSUME NEW p \in Peers, PeerReset(p) PROVE Errors'
    BY <1>4, DirFacts DEF PeerReset, Errors, Ended, TypeOK
  <1>5. ASSUME NEW d \in Dirs, ReadData(d) \/ WriteSome(d) \/ ReadEof(d) \/ Break(d) \/ Report(d)
        PROVE  Errors'
    <2>1. /\ peer' = peer /\ sockErr' = sockErr /\ end' = end
          /\ \A e \in Dirs : Ended(e) => Ended(e)'
      BY <1>5 DEF ReadData, WriteSome, ReadEof, Break, Report, Ended, TypeOK
    <2>2. QED
      BY <2>1 DEF Errors
  <1>6. ASSUME NEW d \in Dirs, ReadErr(d) PROVE Errors'
    <2>1. /\ peer' = peer /\ end' = [end EXCEPT ![d] = "Err"]
          /\ sockErr' = [sockErr EXCEPT ![Src(d)] = FALSE]
          /\ Ended(d)' /\ \A e \in Dirs : Ended(e) => Ended(e)'
      BY <1>6 DEF ReadErr, Ended, TypeOK
    <2>2. peer[Src(d)] = "reset"
      BY <1>6, DirFacts DEF ReadErr, Errors
    <2>3. /\ \A e \in Dirs : end'[e] = "Err" => Ended(e)' /\ \E p \in Peers : peer'[p] = "reset"
          /\ \A p \in Peers : sockErr'[p] => peer'[p] = "reset"
      BY <2>1, <2>2, DirFacts DEF Errors, TypeOK
    <2>4. ASSUME NEW e \in Dirs, peer'[Src(e)] = "reset", ~sockErr'[Src(e)]
          PROVE  end'[e] = "Err" \/ end'[Other(e)] = "Err"
      <3>1. e = d \/ Other(e) = d
        BY DirFacts DEF Dirs, Other
      <3>2. Other(e) \in Dirs
        BY DirFacts
      <3>3. QED
        BY <2>1, <3>1, <3>2 DEF TypeOK
    <2>5. QED
      BY <2>3, <2>4 DEF Errors
  <1>7. ASSUME NEW d \in Dirs, WriteErr(d) PROVE Errors'
    <2>1. /\ peer' = peer /\ end' = [end EXCEPT ![d] = "Err"] /\ peer[Dst(d)] = "reset"
          /\ sockErr' = [sockErr EXCEPT ![Dst(d)] = FALSE]
          /\ Ended(d)' /\ \A e \in Dirs : Ended(e) => Ended(e)'
      BY <1>7 DEF WriteErr, Ended, TypeOK
    <2>2. /\ \A e \in Dirs : end'[e] = "Err" => Ended(e)' /\ \E p \in Peers : peer'[p] = "reset"
          /\ \A p \in Peers : sockErr'[p] => peer'[p] = "reset"
      BY <2>1, DirFacts DEF Errors, TypeOK
    <2>3. ASSUME NEW e \in Dirs, peer'[Src(e)] = "reset", ~sockErr'[Src(e)]
          PROVE  end'[e] = "Err" \/ end'[Other(e)] = "Err"
      <3>1. e = d \/ Other(e) = d
        BY DirFacts DEF Dirs, Other
      <3>2. Other(e) \in Dirs
        BY DirFacts
      <3>3. QED
        BY <2>1, <3>1, <3>2 DEF TypeOK
    <2>4. QED
      BY <2>2, <2>3 DEF Errors
  <1>8. QED
    BY <1>1, <1>2, <1>3, <1>4, <1>5, <1>6, <1>7, WatchdogFrame DEF Next, Environment, Copy

LEMMA CleanEndsStep ==
    TypeOK /\ Books /\ Errors /\ CleanEnds /\ [Next]_vars => CleanEnds'
  <1> SUFFICES ASSUME TypeOK, Books, Errors, CleanEnds, [Next]_vars PROVE CleanEnds'
    OBVIOUS
  <1> USE DEF peerVars, copyVars, watchVars
  \* The loops are as they were; the token may have been cancelled.
  <1>1. ASSUME UNCHANGED <<peer, sent, got, out, total, pc, end>>, cancel => cancel'
        PROVE  CleanEnds'
    BY <1>1 DEF CleanEnds, Ended
  <1>2. ASSUME NEW d \in Dirs, PeerSend(d) PROVE CleanEnds'
    BY <1>2 DEF PeerSend, CleanEnds, Ended, TypeOK
  <1>3. ASSUME NEW d \in Dirs, PeerRead(d) PROVE CleanEnds'
    BY <1>1, <1>3 DEF PeerRead
  <1>4. ASSUME NEW p \in Peers, PeerFin(p) \/ PeerReset(p) PROVE CleanEnds'
    <2>1. /\ \A d \in Dirs : peer[Src(d)] # "open" => peer'[Src(d)] # "open"
          /\ UNCHANGED <<sent, got, out, total, pc, end, cancel>>
      BY <1>4, DirFacts DEF PeerFin, PeerReset, TypeOK
    <2>2. QED
      BY <2>1 DEF CleanEnds, Ended
  <1>5. ASSUME NEW d \in Dirs, ReadData(d) \/ WriteSome(d) PROVE CleanEnds'
    <2>1. /\ UNCHANGED <<peer, sent, end, cancel>>
          /\ ~Ended(d) /\ ~Ended(d)'
          /\ \A e \in Dirs \ {d} : /\ got'[e] = got[e] /\ out'[e] = out[e]
                                   /\ total'[e] = total[e] /\ pc'[e] = pc[e]
      BY <1>5 DEF ReadData, WriteSome, Ended, TypeOK
    <2>2. QED
      BY <2>1 DEF CleanEnds, Ended
  <1>6. ASSUME NEW d \in Dirs, ReadEof(d) PROVE CleanEnds'
    <2>1. /\ UNCHANGED <<peer, sent, got, out, total, end, cancel>> /\ pc[d] = "read"
          /\ \A e \in Dirs \ {d} : pc'[e] = pc[e]
      BY <1>6 DEF ReadEof, TypeOK
    <2>2. out[d] = got[d] /\ total[d] = got[d] /\ end[d] # "Err"
      BY <2>1 DEF Books, Errors, Ended
    <2>3. peer[Src(d)] # "open" /\ (got[d] = sent[d] \/ end[Other(d)] = "Err")
      BY <1>6, <2>2, DirFacts DEF ReadEof, Errors
    <2>4. QED
      BY <2>1, <2>2, <2>3 DEF CleanEnds, Ended
  <1>7. ASSUME NEW d \in Dirs, ReadErr(d) \/ WriteErr(d) PROVE CleanEnds'
    <2>1. /\ UNCHANGED <<peer, sent, got, out, total, cancel>>
          /\ end'[d] = "Err" /\ \A e \in Dirs \ {d} : pc'[e] = pc[e] /\ end'[e] = end[e]
      BY <1>7 DEF ReadErr, WriteErr, TypeOK
    <2>2. QED
      BY <2>1, DirFacts DEF CleanEnds, Ended
  <1>8. ASSUME NEW d \in Dirs, Break(d) PROVE CleanEnds'
    BY <1>8 DEF Break, CleanEnds
  <1>9. ASSUME NEW d \in Dirs, Report(d) PROVE CleanEnds'
    <2>1. /\ UNCHANGED <<peer, sent, got, out, total, end, cancel>>
          /\ \A e \in Dirs : Ended(e)' <=> Ended(e)
      BY <1>9 DEF Report, Ended, TypeOK
    <2>2. QED
      BY <2>1 DEF CleanEnds
  <1>10. ASSUME Watchdog \/ Advance \/ Shutdown \/ Closed \/ UNCHANGED vars PROVE CleanEnds'
    <2>1. cancel => cancel'
      BY <1>10 DEF Watchdog, CheckEof, CheckIdle, CheckHalfClose, CheckNothingDue, SeeShutdown,
                   RecvErr, RecvEof, SleepElapsed, Finish, Advance, Shutdown, Closed, Return, vars
    <2>2. QED
      BY <1>1, <1>10, <2>1, WatchdogFrame
  <1>11. QED
    BY <1>2, <1>3, <1>4, <1>5, <1>6, <1>7, <1>8, <1>9, <1>10 DEF Next, Environment, Copy

LEMMA VerdictsStep == TypeOK /\ Errors /\ Verdicts /\ [Next]_vars => Verdicts'
  <1> SUFFICES ASSUME TypeOK, Errors, Verdicts, [Next]_vars PROVE Verdicts'
    OBVIOUS
  <1> USE DEF peerVars, copyVars, watchVars
  <1>0. chan \in Seq(Dirs) /\ Len(chan) \in Nat /\ done \subseteq Dirs
        /\ \A i \in 1..Len(chan) : chan[i] \in Dirs
    BY DEF TypeOK
  <1>1. ASSUME UNCHANGED <<pc, end, chan, wpc, done, cancel, reason>> PROVE Verdicts'
    BY <1>1 DEF Verdicts
  <1>2. ASSUME Environment PROVE Verdicts'
    BY <1>1, <1>2 DEF Environment, PeerSend, PeerRead, PeerFin, PeerReset, Shutdown
  \* A loop that is not done yet is in neither done nor chan.
  <1>3. ASSUME NEW d \in Dirs,
               ReadData(d) \/ ReadEof(d) \/ ReadErr(d) \/ WriteSome(d) \/ WriteErr(d) \/ Break(d)
        PROVE  Verdicts'
    <2>1. /\ pc[d] # "done" /\ \A e \in Dirs \ {d} : pc'[e] = pc[e] /\ end'[e] = end[e]
          /\ UNCHANGED <<chan, wpc, done, cancel, reason>>
      BY <1>3 DEF ReadData, ReadEof, ReadErr, WriteSome, WriteErr, Break, TypeOK
    <2>2. QED
      BY <1>0, <2>1 DEF Verdicts
  <1>4. ASSUME NEW d \in Dirs, Report(d) PROVE Verdicts'
    <2>1. /\ pc[d] = "report" /\ pc'[d] = "done" /\ \A e \in Dirs \ {d} : pc'[e] = pc[e]
          /\ UNCHANGED <<end, wpc, done, cancel, reason>>
      BY <1>4 DEF Report, TypeOK
    <2>2. \A i \in 1..Len(chan') : pc'[chan'[i]] = "done"
      <3>1. CASE chan' = chan
        BY <1>0, <2>1, <3>1 DEF Verdicts
      <3>2. CASE chan' = Append(chan, d)
        <4>1. /\ Len(chan') = Len(chan) + 1 /\ chan'[Len(chan) + 1] = d
              /\ \A i \in 1..Len(chan) : chan'[i] = chan[i]
          BY <1>0, <3>2
        <4>2. QED
          BY <1>0, <2>1, <4>1 DEF Verdicts
      <3>3. QED
        BY <1>4, <3>1, <3>2 DEF Report
    <2>3. QED
      BY <1>0, <2>1, <2>2 DEF Verdicts
  <1>5. ASSUME CheckEof PROVE Verdicts'
    BY <1>5 DEF CheckEof, Return, envAndCopy, Verdicts
  <1>6. ASSUME CheckIdle \/ CheckHalfClose \/ SeeShutdown PROVE Verdicts'
    BY <1>6 DEF CheckIdle, CheckHalfClose, SeeShutdown, Return, envAndCopy, Verdicts
  <1>7. ASSUME CheckNothingDue \/ SleepElapsed \/ Finish PROVE Verdicts'
    BY <1>7 DEF CheckNothingDue, SleepElapsed, Finish, envAndCopy, Verdicts
  <1>8. ASSUME RecvErr \/ RecvEof PROVE Verdicts'
    <2>1. chan # <<>> /\ chan' = Tail(chan) /\ UNCHANGED <<pc, end>>
      BY <1>8 DEF RecvErr, RecvEof, envAndCopy
    <2>2. /\ Head(chan) = chan[1] /\ 1 \in 1..Len(chan)
          /\ Len(chan') = Len(chan) - 1
          /\ \A i \in 1..Len(chan') : chan'[i] = chan[i + 1] /\ i + 1 \in 1..Len(chan)
      BY <1>0, <2>1
    <2>3. \A i \in 1..Len(chan') : pc'[chan'[i]] = "done"
      BY <2>1, <2>2 DEF Verdicts
    <2>4. pc[Head(chan)] = "done"
      BY <2>2 DEF Verdicts
    <2>5. CASE RecvErr
      BY <2>1, <2>3, <2>5 DEF RecvErr, Return, Verdicts
    <2>6. CASE RecvEof
      BY <2>1, <2>3, <2>4, <2>6 DEF RecvEof, Verdicts
    <2>7. QED
      BY <1>8, <2>5, <2>6
  <1>9. ASSUME Advance \/ Closed \/ UNCHANGED vars PROVE Verdicts'
    BY <1>1, <1>9 DEF Advance, Closed, vars
  <1>10. QED
    BY <1>2, <1>3, <1>4, <1>5, <1>6, <1>7, <1>8, <1>9 DEF Next, Copy, Watchdog

LEMMA DeliveryStep == Delivery /\ [Next]_vars => Delivery'
  BY TypeStep, BooksStep, ErrorsStep, CleanEndsStep, FinsStep, VerdictsStep DEF Delivery

\* Whatever the peers send and whenever they stop: a connection closed with "eof"
\* has delivered and counted every byte in both directions.
THEOREM RelayEofDelivers == Spec => []EofMeansDelivered
  <1>1. Delivery => EofMeansDelivered
    <2> SUFFICES ASSUME Delivery, reason = "eof", NEW d \in Dirs
                 PROVE  total[d] = sent[d] /\ out[d] = sent[d] /\ end[d] = "Eof"
      BY DEF EofMeansDelivered
    <2>1. \A e \in Dirs : pc[e] = "done" /\ end[e] = "Eof" /\ ~cancel
      BY DEF Delivery, Verdicts
    <2>2. QED
      BY <2>1, DirFacts DEF Delivery, CleanEnds, Ended
  <1>2. QED
    BY <1>1, DeliveryInit, DeliveryStep, PTL DEF Spec

\* A half-close is passed on only behind the last byte, unless the connection was
\* cut or a peer reset it.
THEOREM RelayHalfClose == Spec => []HalfCloseFaithful
  <1>1. Delivery => HalfCloseFaithful
    <2> SUFFICES ASSUME Delivery, NEW d \in Dirs, fin[d], ~cancel,
                        \A p \in Peers : peer[p] # "reset"
                 PROVE  peer[Src(d)] = "fin" /\ out[d] = sent[d]
      BY DEF HalfCloseFaithful
    <2>1. Ended(d) /\ \A e \in Dirs : end[e] # "Err"
      BY DEF Delivery, Fins, Errors
    <2>2. end[d] = "Eof" /\ peer[Src(d)] \in {"open", "fin", "reset"}
      BY <2>1, DirFacts DEF Delivery, TypeOK
    <2>3. QED
      BY <2>1, <2>2, DirFacts DEF Delivery, CleanEnds
  <1>2. QED
    BY <1>1, DeliveryInit, DeliveryStep, PTL DEF Spec

-----------------------------------------------------------------------------
(* The sleep of the watchdog.                                               *)

LEMMA NapStep == TypeOK /\ NapNeverOversleeps /\ [Next]_vars => NapNeverOversleeps'
  <1> SUFFICES ASSUME TypeOK, NapNeverOversleeps, [Next]_vars PROVE NapNeverOversleeps'
    OBVIOUS
  <1> USE DEF peerVars, copyVars, watchVars
  <1>0. /\ cfg.idle \in Nat /\ cfg.half \in Nat /\ Floor \in Nat \ {0} /\ Tick \in Nat
        /\ quiet \in Nat /\ nap \in Nat /\ SinceAge \in Nat /\ MaxAge \in Nat
        /\ armed \in Int /\ (armed # NotArmed => armed \in Nat)
    BY RelayAssumption DEF TypeOK, SinceAge, NotArmed
  <1>1. ASSUME UNCHANGED <<cfg, done, quiet, armed, nap, wpc>> PROVE NapNeverOversleeps'
    BY <1>1 DEF NapNeverOversleeps, HalfApplies, HalfAge, SinceAge
  <1>2. ASSUME wpc' # "wait" PROVE NapNeverOversleeps'
    BY <1>2 DEF NapNeverOversleeps
  <1>3. ASSUME NEW d \in Dirs, ReadData(d) PROVE NapNeverOversleeps'
    <2>1. UNCHANGED <<cfg, done, armed, nap, wpc>> /\ quiet' = 0
      BY <1>3 DEF ReadData
    <2>2. HalfAge' <= HalfAge /\ HalfAge' \in Nat /\ HalfAge \in Nat
      BY <1>0, <2>1 DEF HalfAge, SinceAge, Lesser
    <2>3. HalfApplies' <=> HalfApplies
      BY <2>1 DEF HalfApplies
    <2>4. QED
      BY <1>0, <2>1, <2>2, <2>3 DEF NapNeverOversleeps
  <1>4. ASSUME Environment PROVE NapNeverOversleeps'
    BY <1>1, <1>4 DEF Environment, PeerSend, PeerRead, PeerFin, PeerReset, Shutdown
  <1>5. ASSUME NEW d \in Dirs,
               ReadEof(d) \/ ReadErr(d) \/ WriteSome(d) \/ WriteErr(d) \/ Break(d) \/ Report(d)
        PROVE  NapNeverOversleeps'
    BY <1>1, <1>5 DEF ReadEof, ReadErr, WriteSome, WriteErr, Break, Report
  <1>6. ASSUME CheckNothingDue PROVE NapNeverOversleeps'
    <2>1. /\ UNCHANGED <<cfg, done, quiet>> /\ nap' = Wake
          /\ armed' = IF HalfApplies THEN SinceAge ELSE armed
          /\ ~IdleDue /\ ~HalfDue
      BY <1>6 DEF CheckNothingDue, envAndCopy
    <2>2. HalfAge \in Nat
      BY <1>0 DEF HalfAge, Lesser
    <2>3. (HalfApplies' <=> HalfApplies) /\ (HalfApplies => HalfAge' = HalfAge)
      BY <1>0, <2>1 DEF HalfApplies, HalfAge, SinceAge, NotArmed
    <2>4. cfg.idle > 0 => quiet < cfg.idle
      BY <1>0, <2>1 DEF IdleDue
    <2>5. HalfApplies => HalfAge < cfg.half
      BY <1>0, <2>1, <2>2 DEF HalfDue
    <2>6. /\ cfg.idle > 0 => Wake <= Greater(Floor, cfg.idle - quiet)
          /\ HalfApplies => Wake <= Greater(Floor, cfg.half - HalfAge)
      BY <1>0, <2>2 DEF Wake, Greater, Lesser
    <2>7. Wake \in Nat
      BY <2>1, WakeBounds
    <2>8. /\ cfg.idle > 0 => quiet + Wake < cfg.idle + Floor
          /\ HalfApplies => HalfAge + Wake < cfg.half + Floor
      BY <1>0, <2>2, <2>4, <2>5, <2>6, <2>7 DEF Greater
    <2>9. QED
      BY <2>1, <2>3, <2>8 DEF NapNeverOversleeps
  <1>7. ASSUME CheckEof \/ CheckIdle \/ CheckHalfClose \/ SeeShutdown \/ RecvErr \/ RecvEof
               \/ SleepElapsed \/ Finish
        PROVE  NapNeverOversleeps'
    BY <1>2, <1>7 DEF CheckEof, CheckIdle, CheckHalfClose, SeeShutdown, RecvErr, RecvEof,
                      SleepElapsed, Finish, Return
  <1>8. ASSUME Advance PROVE NapNeverOversleeps'
    <2>1. /\ UNCHANGED <<cfg, done, wpc>> /\ quiet' = Older(quiet)
          /\ armed' = IF armed = NotArmed THEN NotArmed ELSE Older(armed)
          /\ nap' = IF nap > 0 THEN nap - 1 ELSE 0
      BY <1>8 DEF Advance
    <2>2. quiet' <= quiet + 1 /\ quiet' \in Nat
      BY <1>0, <2>1 DEF Older, Lesser
    <2>3. SinceAge' <= SinceAge + 1 /\ SinceAge' \in Nat
      BY <1>0, <2>1 DEF Older, Lesser, SinceAge, NotArmed
    <2>4. HalfAge' <= HalfAge + 1 /\ HalfAge' \in Nat /\ HalfAge \in Nat
      BY <1>0, <2>2, <2>3 DEF HalfAge, Lesser
    <2>5. HalfApplies' <=> HalfApplies
      BY <2>1 DEF HalfApplies
    <2>6. QED
      BY <1>0, <2>1, <2>2, <2>4, <2>5 DEF NapNeverOversleeps
  <1>9. ASSUME Closed \/ UNCHANGED vars PROVE NapNeverOversleeps'
    BY <1>1, <1>9 DEF Closed, vars
  <1>10. QED
    BY <1>3, <1>4, <1>5, <1>6, <1>7, <1>8, <1>9 DEF Next, Copy, Watchdog

\* For every pair of timeouts the watchdog wakes less than its floor after the
\* nearest deadline, however the deadlines move while it sleeps.
THEOREM RelayNap == Spec => []NapNeverOversleeps
  <1>1. Init => NapNeverOversleeps
    BY DEF Init, NapNeverOversleeps
  <1>2. QED
    BY <1>1, TypeInit, TypeStep, NapStep, PTL DEF Spec
=============================================================================
