---------------------------- MODULE MCTabSession ----------------------------
(***************************************************************************)
(* Instances of TabSession for TLC.                                        *)
(***************************************************************************)
EXTENDS TabSession, TLC

CONSTANTS a, b, c, d, w1, w2

FourTabs   == {a, b, c, d}
TwoWorkers == {w1, w2}

LocalTelnetSerialSsh == a :> "local" @@ b :> "telnet" @@ c :> "serial" @@ d :> "ssh"

(* The SSH tab is opened, or tabs of the other kinds.                      *)
TabsNext ==
  /\ Next
  /\ \A t \in Tabs : Kind[t] = "ssh" /\ tab'[t] # "unused" =>
       \A u \in Tabs \ {t} : tab'[u] = "unused"

TabsSpec == Init /\ [][TabsNext]_vars /\ Fairness
=============================================================================
