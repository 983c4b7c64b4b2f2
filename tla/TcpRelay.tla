-------------------------------- MODULE TcpRelay --------------------------------
(***************************************************************************)
(* One relayed TCP connection: relay, copy_dir and watchdog of              *)
(* src/src/proxy/tcp.rs.                                                    *)
(*                                                                         *)
(* Three tasks run concurrently: a copy loop per direction and the          *)
(* watchdog, which hears of the end of a loop over a channel, enforces the   *)
(* idle (L3) and half-close (L4) timeouts, forwards the shutdown token and   *)
(* decides the close reason.  The peers and their kernels are the            *)
(* environment: they send, stop reading, half-close or reset at any time.    *)
(*                                                                         *)
(* Bytes are counted, not represented.  Time is kept as ages: last_activity  *)
(* is its distance to now, half_close_since likewise, and both saturate at   *)
(* MaxAge, beyond every configured timeout.                                  *)
(***************************************************************************)
EXTENDS Integers, Sequences

CONSTANTS Configs,    \* pairs (idle_timeout_secs, half_close_timeout_secs)
          Tick,       \* WATCHDOG_TICK
          Floor,      \* the least sleep of the watchdog (20 ms)
          BufSize,    \* BUF_SIZE
          Window,     \* what a peer's kernel takes before it stops reading
          MaxBytes,   \* bound: bytes a peer sends, per direction
          MaxAge      \* bound: ages stop here

Dirs == {"up", "down"}
Peers == {"client", "upstream"}

ASSUME RelayAssumption ==
    /\ Configs \subseteq [idle : Nat, half : Nat]
    /\ Floor \in Nat \ {0} /\ Tick \in Nat /\ Floor <= Tick
    /\ BufSize \in Nat \ {0} /\ Window \in Nat
    /\ MaxBytes \in [Dirs -> Nat]
    /\ MaxAge \in Nat
    /\ \A c \in Configs : c.idle + Floor <= MaxAge /\ c.half + Floor <= MaxAge

VARIABLES
    cfg,        \* the timeouts of this proxy, fixed
    peer,       \* peer[p]: "open", "fin" (write side shut down) or "reset"
    sockErr,    \* sockErr[p]: a reset not yet reported by a call on the socket
    sent,       \* bytes the source of a direction has sent
    room,       \* bytes the destination's kernel takes before a write blocks
    got,        \* bytes the copy loop has read
    out,        \* bytes the copy loop has written
    total,      \* bytes it has counted (bytes_total and the close log)
    pc,         \* where the copy loop is
    end,        \* its result
    fin,        \* fin[d]: the write side towards the destination is shut down
    chan,       \* the done channel: directions; the End a message carries is end[d]
    wpc,        \* where the watchdog, then relay, is
    done,       \* up_done and down_done, as a set of directions
    cancel,     \* the token that stops both copy loops
    shutdown,   \* the force_shutdown token of the proxy
    reason,     \* the close reason
    quiet,      \* now - last_activity
    armed,      \* now - half_close_since, or NotArmed
    nap         \* what is left of the watchdog's sleep

peerVars == <<peer, sockErr, sent>>
copyVars == <<got, out, total, pc, end, fin>>
watchVars == <<wpc, done, cancel, reason, armed, nap>>
vars == <<cfg, peerVars, room, copyVars, chan, watchVars, shutdown, quiet>>

Src(d) == IF d = "up" THEN "client" ELSE "upstream"
Dst(d) == IF d = "up" THEN "upstream" ELSE "client"

NotArmed == -1
Lesser(a, b) == IF a <= b THEN a ELSE b
Greater(a, b) == IF a >= b THEN a ELSE b

Init ==
    /\ cfg \in Configs
    /\ peer = [p \in Peers |-> "open"]
    /\ sockErr = [p \in Peers |-> FALSE]
    /\ sent = [d \in Dirs |-> 0]
    /\ room = [d \in Dirs |-> Window]
    /\ got = [d \in Dirs |-> 0]
    /\ out = [d \in Dirs |-> 0]
    /\ total = [d \in Dirs |-> 0]
    /\ pc = [d \in Dirs |-> "read"]
    /\ end = [d \in Dirs |-> "Eof"]
    /\ fin = [d \in Dirs |-> FALSE]
    /\ chan = <<>>
    /\ wpc = "check"
    /\ done = {}
    /\ cancel = FALSE /\ shutdown = FALSE
    /\ reason = "none"
    /\ quiet = 0 /\ armed = NotArmed /\ nap = 0

-----------------------------------------------------------------------------
(* The environment.                                                         *)

PeerSend(d) ==
    /\ peer[Src(d)] = "open" /\ sent[d] < MaxBytes[d]
    /\ sent' = [sent EXCEPT ![d] = @ + 1]
    /\ UNCHANGED <<cfg, peer, sockErr, room, copyVars, chan, watchVars, shutdown, quiet>>

PeerRead(d) ==
    /\ peer[Dst(d)] # "reset" /\ room[d] < Window
    /\ room' = [room EXCEPT ![d] = @ + 1]
    /\ UNCHANGED <<cfg, peerVars, copyVars, chan, watchVars, shutdown, quiet>>

PeerFin(p) ==
    /\ peer[p] = "open"
    /\ peer' = [peer EXCEPT ![p] = "fin"]
    /\ UNCHANGED <<cfg, sockErr, sent, room, copyVars, chan, watchVars, shutdown, quiet>>

PeerReset(p) ==
    /\ peer[p] # "reset"
    /\ peer' = [peer EXCEPT ![p] = "reset"]
    /\ sockErr' = [sockErr EXCEPT ![p] = TRUE]
    /\ UNCHANGED <<cfg, sent, room, copyVars, chan, watchVars, shutdown, quiet>>

\* main.rs cancels the force_shutdown token at any time.
Shutdown ==
    /\ ~shutdown
    /\ shutdown' = TRUE
    /\ UNCHANGED <<cfg, peerVars, room, copyVars, chan, watchVars, quiet>>

-----------------------------------------------------------------------------
(* copy_dir.  Its selects are biased towards the cancel token, but the token *)
(* may be cancelled between the poll of the token and the poll of the socket,*)
(* so an operation may still complete after it.                              *)

ReadData(d) ==
    /\ pc[d] = "read" /\ got[d] < sent[d]
    /\ \E n \in 1..Lesser(BufSize, sent[d] - got[d]) : got' = [got EXCEPT ![d] = @ + n]
    /\ pc' = [pc EXCEPT ![d] = "write"]
    /\ quiet' = 0
    /\ UNCHANGED <<cfg, peerVars, room, out, total, end, fin, chan, watchVars, shutdown>>

\* read returned 0: the source is done and everything was read, or its socket
\* was reset and a failed write of the other direction has taken the error.
ReadEof(d) ==
    /\ pc[d] = "read"
    /\ \/ peer[Src(d)] = "fin" /\ got[d] = sent[d]
       \/ peer[Src(d)] = "reset" /\ ~sockErr[Src(d)]
    /\ fin' = [fin EXCEPT ![d] = TRUE]
    /\ pc' = [pc EXCEPT ![d] = "report"]
    /\ UNCHANGED <<cfg, peerVars, room, got, out, total, end, chan, watchVars, shutdown, quiet>>

ReadErr(d) ==
    /\ pc[d] = "read" /\ sockErr[Src(d)]
    /\ sockErr' = [sockErr EXCEPT ![Src(d)] = FALSE]
    /\ fin' = [fin EXCEPT ![d] = TRUE]
    /\ end' = [end EXCEPT ![d] = "Err"]
    /\ pc' = [pc EXCEPT ![d] = "report"]
    /\ UNCHANGED <<cfg, peer, sent, room, got, out, total, chan, watchVars, shutdown, quiet>>

\* A slip: write instead of write_all.
MutWriteOnce(d) ==
    /\ pc[d] = "write" /\ room[d] > 0 /\ peer[Dst(d)] # "reset"
    /\ out' = [out EXCEPT ![d] = @ + 1]
    /\ room' = [room EXCEPT ![d] = @ - 1]
    /\ pc' = [pc EXCEPT ![d] = "read"]
    /\ total' = [total EXCEPT ![d] = got[d]]
    /\ UNCHANGED <<cfg, peerVars, got, end, fin, chan, watchVars, shutdown, quiet>>

\* One byte of write_all.  The chunk is counted when all of it is written.
WriteSome(d) ==
    /\ pc[d] = "write" /\ room[d] > 0 /\ peer[Dst(d)] # "reset"
    /\ out' = [out EXCEPT ![d] = @ + 1]
    /\ room' = [room EXCEPT ![d] = @ - 1]
    /\ IF out'[d] = got[d]
       THEN /\ pc' = [pc EXCEPT ![d] = "read"]
            /\ total' = [total EXCEPT ![d] = got[d]]
       ELSE UNCHANGED <<pc, total>>
    /\ UNCHANGED <<cfg, peerVars, got, end, fin, chan, watchVars, shutdown, quiet>>

WriteErr(d) ==
    /\ pc[d] = "write" /\ peer[Dst(d)] = "reset"
    /\ sockErr' = [sockErr EXCEPT ![Dst(d)] = FALSE]
    /\ end' = [end EXCEPT ![d] = "Err"]
    /\ pc' = [pc EXCEPT ![d] = "report"]
    /\ UNCHANGED <<cfg, peer, sent, room, got, out, total, fin, chan, watchVars, shutdown, quiet>>

\* A slip: the write is not raced against the token.
MutBreakReadOnly(d) ==
    /\ cancel /\ pc[d] = "read"
    /\ pc' = [pc EXCEPT ![d] = "report"]
    /\ UNCHANGED <<cfg, peerVars, room, got, out, total, end, fin, chan, watchVars, shutdown, quiet>>

\* The token stops the read or the write; end is left as it is.
Break(d) ==
    /\ cancel /\ pc[d] \in {"read", "write"}
    /\ pc' = [pc EXCEPT ![d] = "report"]
    /\ UNCHANGED <<cfg, peerVars, room, got, out, total, end, fin, chan, watchVars, shutdown, quiet>>

\* done.send fails when the watchdog has returned, and never blocks: the channel
\* holds one message per direction.  The task ends, and dropping its write half
\* shuts the write side down if nothing did before.
Report(d) ==
    /\ pc[d] = "report"
    /\ pc' = [pc EXCEPT ![d] = "done"]
    /\ fin' = [fin EXCEPT ![d] = TRUE]
    /\ chan' = IF wpc \in {"check", "wait"} THEN Append(chan, d) ELSE chan
    /\ UNCHANGED <<cfg, peerVars, room, got, out, total, end, watchVars, shutdown, quiet>>

-----------------------------------------------------------------------------
(* watchdog: the checks at the head of its loop, then the select.           *)

envAndCopy == <<cfg, peerVars, room, copyVars, shutdown, quiet>>

\* The watchdog returns r; relay goes on to join the copy loops.
Return(r) ==
    /\ reason' = r
    /\ cancel' = IF r = "eof" THEN cancel ELSE TRUE
    /\ wpc' = "join"

IdleDue == cfg.idle > 0 /\ quiet >= cfg.idle

\* half_close_since.get_or_insert(now): armed on the first check that sees a
\* finished direction.
HalfApplies == cfg.half > 0 /\ done # {}
SinceAge == IF armed = NotArmed THEN 0 ELSE armed
HalfAge == Lesser(SinceAge, quiet)
HalfDue == HalfApplies /\ HalfAge >= cfg.half

CheckEof ==
    /\ wpc = "check" /\ done = Dirs
    /\ Return("eof")
    /\ UNCHANGED <<envAndCopy, chan, done, armed, nap>>

CheckIdle ==
    /\ wpc = "check" /\ done # Dirs
    /\ IdleDue
    /\ Return("idle_timeout")
    /\ UNCHANGED <<envAndCopy, chan, done, armed, nap>>

CheckHalfClose ==
    /\ wpc = "check" /\ done # Dirs
    /\ ~IdleDue /\ HalfDue
    /\ Return("half_close_timeout")
    /\ UNCHANGED <<envAndCopy, chan, done, armed, nap>>

\* A slip: the sleep does not look at the half-close deadline.
MutWake == Greater(Floor, IF cfg.idle > 0 THEN Lesser(Tick, cfg.idle - quiet) ELSE Tick)

\* A slip: the floor is added to the sleep.
MutWakeAdds == Floor + (IF cfg.idle > 0 THEN Lesser(Tick, cfg.idle - quiet) ELSE Tick)

\* The nearest deadline, at most Tick and at least Floor away.
Wake ==
    LET idleLeft == IF cfg.idle > 0 THEN cfg.idle - quiet ELSE Tick
        halfLeft == IF HalfApplies THEN cfg.half - HalfAge ELSE Tick
    IN  Greater(Floor, Lesser(Tick, Lesser(idleLeft, halfLeft)))

\* A slip: the instant the grace began is not kept for the next pass.
MutRearm ==
    /\ wpc = "check" /\ done # Dirs
    /\ ~IdleDue /\ ~HalfDue
    /\ nap' = Wake
    /\ wpc' = "wait"
    /\ UNCHANGED <<envAndCopy, chan, done, cancel, reason, armed>>

CheckNothingDue ==
    /\ wpc = "check" /\ done # Dirs
    /\ ~IdleDue /\ ~HalfDue
    /\ nap' = Wake
    /\ armed' = IF HalfApplies THEN SinceAge ELSE armed
    /\ wpc' = "wait"
    /\ UNCHANGED <<envAndCopy, chan, done, cancel, reason>>

\* A slip: the token is cancelled but the loop goes on.
MutSeeShutdown ==
    /\ wpc = "wait" /\ shutdown
    /\ cancel' = TRUE
    /\ wpc' = "check"
    /\ UNCHANGED <<envAndCopy, chan, done, reason, armed, nap>>

SeeShutdown ==
    /\ wpc = "wait" /\ shutdown
    /\ Return("shutdown")
    /\ UNCHANGED <<envAndCopy, chan, done, armed, nap>>

\* A slip: an error is taken for the end of a direction.
MutRecvErr ==
    /\ wpc = "wait" /\ chan # <<>> /\ end[Head(chan)] = "Err"
    /\ chan' = Tail(chan)
    /\ done' = done \cup {Head(chan)}
    /\ wpc' = "check"
    /\ UNCHANGED <<envAndCopy, cancel, reason, armed, nap>>

RecvErr ==
    /\ wpc = "wait" /\ chan # <<>> /\ end[Head(chan)] = "Err"
    /\ chan' = Tail(chan)
    /\ Return("reset")
    /\ UNCHANGED <<envAndCopy, done, armed, nap>>

RecvEof ==
    /\ wpc = "wait" /\ chan # <<>> /\ end[Head(chan)] = "Eof"
    /\ chan' = Tail(chan)
    /\ done' = done \cup {Head(chan)}
    /\ wpc' = "check"
    /\ UNCHANGED <<envAndCopy, cancel, reason, armed, nap>>

SleepElapsed ==
    /\ wpc = "wait" /\ nap = 0
    /\ wpc' = "check"
    /\ UNCHANGED <<envAndCopy, chan, done, cancel, reason, armed, nap>>

\* relay: both loops are joined, connections_closed[reason] is counted.
Finish ==
    /\ wpc = "join" /\ \A d \in Dirs : pc[d] = "done"
    /\ wpc' = "closed"
    /\ UNCHANGED <<envAndCopy, chan, done, cancel, reason, armed, nap>>

-----------------------------------------------------------------------------
(* Time.                                                                    *)

Older(age) == Lesser(age + 1, MaxAge)

Advance ==
    /\ wpc \in {"check", "wait"}
    /\ quiet < MaxAge \/ armed \in 0..(MaxAge - 1) \/ nap > 0
    /\ quiet' = Older(quiet)
    /\ armed' = IF armed = NotArmed THEN NotArmed ELSE Older(armed)
    /\ nap' = IF nap > 0 THEN nap - 1 ELSE 0
    /\ UNCHANGED <<cfg, peerVars, room, copyVars, chan, wpc, done, cancel, reason, shutdown>>

-----------------------------------------------------------------------------
\* What happens after the sockets are closed is of no interest.
Environment == /\ wpc # "closed"
               /\ \/ \E d \in Dirs : PeerSend(d) \/ PeerRead(d)
                  \/ \E p \in Peers : PeerFin(p) \/ PeerReset(p)
                  \/ Shutdown

Copy(d) == \/ ReadData(d) \/ ReadEof(d) \/ ReadErr(d)
           \/ WriteSome(d) \/ WriteErr(d)
           \/ Break(d) \/ Report(d)

Watchdog == \/ CheckEof \/ CheckIdle \/ CheckHalfClose \/ CheckNothingDue
            \/ SeeShutdown \/ RecvErr \/ RecvEof \/ SleepElapsed
            \/ Finish

Closed == wpc = "closed" /\ UNCHANGED vars

Next == \/ Environment
        \/ \E d \in Dirs : Copy(d)
        \/ Watchdog
        \/ Advance
        \/ Closed

Spec == Init /\ [][Next]_vars

\* The runtime polls every task that can go on, a cancelled token wakes the loops
\* that wait for it, and time passes.  The select of the watchdog picks among its
\* ready branches at random and its sleep is a fresh one on every pass, so a message
\* or the shutdown token cannot lose to the sleep for ever: strong fairness.
\* Nothing is assumed of the peers.
FairSpec == /\ Spec
            /\ \A d \in Dirs : WF_vars(Copy(d)) /\ WF_vars(Break(d))
            /\ WF_vars(Watchdog)
            /\ SF_vars(RecvErr \/ RecvEof) /\ SF_vars(SeeShutdown)
            /\ WF_vars(Advance)

-----------------------------------------------------------------------------
\* The types of the variables; the sleep of the watchdog stays within WATCHDOG_TICK.
TypeOK ==
    /\ cfg \in Configs
    /\ peer \in [Peers -> {"open", "fin", "reset"}]
    /\ sockErr \in [Peers -> BOOLEAN]
    /\ sent \in [Dirs -> Nat]
    /\ room \in [Dirs -> 0..Window]
    /\ got \in [Dirs -> Nat] /\ out \in [Dirs -> Nat] /\ total \in [Dirs -> Nat]
    /\ pc \in [Dirs -> {"read", "write", "report", "done"}]
    /\ end \in [Dirs -> {"Eof", "Err"}]
    /\ fin \in [Dirs -> BOOLEAN]
    /\ chan \in Seq(Dirs)
    /\ wpc \in {"check", "wait", "join", "closed"}
    /\ done \subseteq Dirs
    /\ cancel \in BOOLEAN /\ shutdown \in BOOLEAN
    /\ reason \in {"none", "eof", "idle_timeout", "half_close_timeout", "shutdown", "reset"}
    /\ quiet \in 0..MaxAge
    /\ armed \in {NotArmed} \cup 0..MaxAge
    /\ nap \in 0..Tick

\* The close reason "eof" is a promise to the operator: both peers ended cleanly
\* and every byte either of them ever sent was read, written and counted.  A loop
\* stopped by the token also reports Eof (copy_dir leaves end alone), so this
\* rests on the watchdog having returned by then.
EofMeansDelivered ==
    reason = "eof" =>
      \A d \in Dirs : /\ total[d] = sent[d] /\ out[d] = sent[d]
                      /\ end[d] = "Eof"

\* Half-close propagation: unless the connection was cut (token cancelled, a peer
\* reset), copy_dir shuts the destination's write side down only after the source
\* did and only after everything the source sent was written.
HalfCloseFaithful ==
    \A d \in Dirs :
      fin[d] /\ ~cancel /\ (\A p \in Peers : peer[p] # "reset") =>
        peer[Src(d)] = "fin" /\ out[d] = sent[d]

\* The watchdog's sleep never runs past a deadline by Floor or more, although
\* the deadlines move while it sleeps (data, a direction ending, the arming).
NapNeverOversleeps ==
    wpc = "wait" /\ nap > 0 =>
      /\ cfg.idle > 0 => quiet + nap < cfg.idle + Floor
      /\ HalfApplies => HalfAge + nap < cfg.half + Floor

\* "An error means that peer is gone for good ... stop the surviving direction
\* right away": once a loop ends in an error the connection closes, without any
\* timeout configured and with the other direction blocked in a write.
EndsOnError == \A d \in Dirs : end[d] = "Err" ~> wpc = "closed"

\* A forced shutdown closes every connection, even one whose peer stopped reading.
EndsOnShutdown == shutdown ~> wpc = "closed"

\* With an idle timeout every connection whose peers fall silent closes; with a
\* half-close timeout one that is half open does.
EndsWhenSilent ==
    /\ cfg.idle > 0 ~> wpc = "closed"
    /\ cfg.half > 0 /\ (\E d \in Dirs : pc[d] = "done") ~> wpc = "closed"
=============================================================================
