-------------------------------- MODULE ProxyTask --------------------------------
(***************************************************************************)
(* What main.rs relies on when it waits for a TCP proxy's task                *)
(* (run_graceful), without connections, queues or limits: sessions come and   *)
(* go while it serves; told to stop it closes its listener, and from then on  *)
(* opens none; it returns when the last one has ended, and never while one is *)
(* open.  Until it has seen the token it may open a session, though stop or   *)
(* even force was cancelled: it looks at the token and acts in two steps.     *)
(* The TCP tasks of the module Supervisor behave like this.                   *)
(***************************************************************************)
VARIABLES stop, force,  \* the tokens, cancelled by main.rs
          phase,        \* "serve", "drain" (the listener is closed) or "ok"
          busy          \* some session is open

vars == <<stop, force, phase, busy>>

Init == stop = FALSE /\ force = FALSE /\ phase = "serve" /\ busy = FALSE

Stop == ~stop /\ stop' = TRUE /\ UNCHANGED <<force, phase, busy>>
Force == stop /\ ~force /\ force' = TRUE /\ UNCHANGED <<stop, phase, busy>>

Opens == /\ phase = "serve" /\ ~busy
         /\ busy' = TRUE /\ UNCHANGED <<stop, force, phase>>
Empties == busy /\ busy' = FALSE /\ UNCHANGED <<stop, force, phase>>
Closes == /\ phase = "serve" /\ stop
          /\ phase' = "drain" /\ UNCHANGED <<stop, force, busy>>
Returns == /\ phase = "drain" /\ ~busy
           /\ phase' = "ok" /\ UNCHANGED <<stop, force, busy>>

Next == Stop \/ Force \/ Opens \/ Empties \/ Closes \/ Returns

Spec == Init /\ [][Next]_vars

\* A task that is told to stop closes its listener; one that has, returns when its
\* sessions are over; a forced one returns.
Live == /\ stop ~> phase # "serve"
        /\ phase = "drain" /\ ~busy ~> phase = "ok"
        /\ force ~> phase = "ok"
=============================================================================
