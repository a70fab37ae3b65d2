------------------------------ MODULE Lifecycle ------------------------------
(***************************************************************************)
(* What the reconnect engine promises to the Room that listens to it,      *)
(* whatever its tasks do: one connection that is connected, reconnecting   *)
(* or closed; a reconnection that may turn from a resume into a full       *)
(* reconnect but not back; and lifecycle events in an order from which the *)
(* Room can rebuild that state.  RtcEngine implements it.                  *)
(***************************************************************************)
VARIABLES
  phase,   \* connected, reconnecting or closed
  full,    \* whether a full reconnect is required
  fresh,   \* whether a new session is in place of which the Room was not told
  told     \* the last lifecycle event sent to the Room

vars == <<phase, full, fresh, told>>

\* The events after which the Room takes the connection for established.
Settled == {"Connected", "Resumed", "Restarted"}

Init == phase = "connected" /\ full = FALSE /\ fresh = FALSE /\ told = "Connected"

\* A failure starts a reconnection.
Fail ==
  /\ phase = "connected"
  /\ phase' = "reconnecting"
  /\ full' \in {full, TRUE}
  /\ UNCHANGED <<fresh, told>>

\* A failure of, or during, a resume asks for a full reconnect.
Escalate ==
  /\ phase = "reconnecting"
  /\ full' = TRUE
  /\ UNCHANGED <<phase, fresh, told>>

\* The events that may follow one another.
Follows(e, f) ==
  \/ e \in Settled /\ f \in {"Resuming", "Restarting"}
  \/ e = "Resuming" /\ f \in {"SignalResumed", "Restarting"}
  \/ e = "SignalResumed" /\ f \in {"Resumed", "Restarting"}
  \/ e \in {"Restarting", "SignalRestarted"} /\ f = "SignalRestarted"

Announce ==
  /\ phase = "reconnecting"
  /\ \E e \in {"Resuming", "SignalResumed", "Resumed", "Restarting", "SignalRestarted"} :
        Follows(told, e) /\ told' = e
  /\ told' \in {"Restarting", "SignalRestarted"} => full
  /\ ~fresh
  /\ UNCHANGED <<phase, full, fresh>>

\* A new session is in place: only a full reconnect that reached the server
\* clears the demand for one.
Replace ==
  /\ phase = "reconnecting" /\ full /\ told = "SignalRestarted"
  /\ full' = FALSE /\ fresh' = TRUE
  /\ UNCHANGED <<phase, told>>

\* Restarted is announced for the session that Replace put in place.
AnnounceRestarted ==
  /\ phase = "reconnecting" /\ fresh
  /\ told' = "Restarted" /\ fresh' = FALSE
  /\ UNCHANGED <<phase, full>>

\* The reconnection ends, and the Room has been told so.
Recover ==
  /\ phase = "reconnecting" /\ told \in Settled
  /\ phase' = "connected"
  /\ UNCHANGED <<full, fresh, told>>

\* Closed for good.
Close ==
  /\ phase # "closed"
  /\ phase' = "closed" /\ full' = FALSE /\ fresh' = FALSE /\ told' = "Disconnected"

Next == Fail \/ Escalate \/ Announce \/ Replace \/ AnnounceRestarted \/ Recover \/ Close

Spec == Init /\ [][Next]_vars
=============================================================================
