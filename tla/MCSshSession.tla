---------------------------- MODULE MCSshSession ----------------------------
(***************************************************************************)
(* Instances for TLC of three parts of an SSH session: the system          *)
(* information pages, the process popup and the connections.  A behaviour  *)
(* is one of one of them; the popup has the tabs and workers of the pages  *)
(* to itself.                                                              *)
(***************************************************************************)
EXTENDS ProcessMonitor, SshConnection

CONSTANTS t1, t2

VARIABLE part

TwoPages   == 1..2
TwoWorkers == 1..2

Forward(k, p) == [kind |-> k, port |-> p]
ThreeForwards == <<Forward("local", 1), Forward("remote", 1), Forward("dynamic", 1)>>

SessionInit ==
  /\ part \in {"pages", "processes", "connection"}
  /\ Init /\ MonitorInit /\ ConnectionInit

SessionNext ==
  /\ UNCHANGED part
  /\ \/ part = "pages" /\ Next /\ UNCHANGED <<monitorVars, connectionVars>>
     \/ part = "processes" /\ MonitorNext /\ UNCHANGED connectionVars
     \/ part = "connection" /\ ConnectionNext /\ UNCHANGED allVars

sessionVars == <<part, allVars, connectionVars>>

(* MonitorFairness, in the part it belongs to.                             *)
Here == part = "processes"

PopupFairness ==
  /\ WF_allVars(Here /\ CallbacksRun)
  /\ WF_allVars(Here /\ Tick)
  /\ \A t \in Tabs : WF_allVars(Here /\ ClosedShown(t))
  /\ \A w \in Workers : /\ WF_allVars(Here /\ ShowProcesses(w))
                        /\ WF_allVars(Here /\ TakeOrder(w))

SessionSpec ==
  /\ SessionInit /\ [][SessionNext]_sessionVars
  /\ Fairness /\ PopupFairness /\ ConnectionFairness
=============================================================================
