----------------------------- MODULE TabPromise -----------------------------
(***************************************************************************)
(* What a terminal tab promises its user, without workers, channels or     *)
(* reports: the tab shows where its session stands, late but in order; it  *)
(* says "disconnected" only of a session that is over; and only then does  *)
(* Enter put a new session in its place.                                   *)
(***************************************************************************)
CONSTANT Tabs

VARIABLES
  shown,    \* per tab: what the user sees
  session   \* per tab: where the session behind the tab stands

vars == <<shown, session>>

TypeOK ==
  /\ shown \in [Tabs -> {"none", "connecting", "connected", "disconnected"}]
  /\ session \in [Tabs -> {"none", "attempt", "live", "over"}]

Init == /\ shown = [t \in Tabs |-> "none"]
        /\ session = [t \in Tabs |-> "none"]

Show(t, what) == shown' = [shown EXCEPT ![t] = what]
Become(t, what) == session' = [session EXCEPT ![t] = what]

Open(t) == /\ shown[t] = "none"
           /\ Show(t, "connecting") /\ Become(t, "attempt")

Reach(t) == /\ session[t] = "attempt"
            /\ Become(t, "live") /\ UNCHANGED shown

End(t) == /\ session[t] \in {"attempt", "live"}
          /\ Become(t, "over") /\ UNCHANGED shown

ShowConnected(t) == /\ shown[t] = "connecting" /\ session[t] \in {"live", "over"}
                    /\ Show(t, "connected") /\ UNCHANGED session

ShowDisconnected(t) == /\ shown[t] \in {"connecting", "connected"}
                       /\ session[t] = "over"
                       /\ Show(t, "disconnected") /\ UNCHANGED session

Reconnect(t) == /\ shown[t] = "disconnected"
                /\ Show(t, "connecting") /\ Become(t, "attempt")

Close(t) == /\ shown[t] # "none"
            /\ Show(t, "none") /\ Become(t, "none")

Next == \E t \in Tabs : \/ Open(t) \/ Reach(t) \/ End(t) \/ ShowConnected(t)
                        \/ ShowDisconnected(t) \/ Reconnect(t) \/ Close(t)

Spec == Init /\ [][Next]_vars /\ \A t \in Tabs : WF_vars(ShowDisconnected(t))
=============================================================================
