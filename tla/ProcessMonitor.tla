--------------------------- MODULE ProcessMonitor ---------------------------
(***************************************************************************)
(* The process popup of cloudshell (app.rs, app.slint, ssh.rs): a list of  *)
(* what runs on the host of the terminal on screen.  The worker of that    *)
(* session, and of no other, is to run `ps` over a channel of its own, and *)
(* only while the popup is open.                                           *)
(*                                                                         *)
(* Sessions and tabs are those of SystemInfoPages.  Its pages stay out of  *)
(* this model: a page on screen counts as its terminal (SourceTerminal),   *)
(* and its requests, which take the same channel to the worker as what is  *)
(* sent here, change nothing of what follows.                              *)
(* The popup covers the window: nothing under it can be clicked, but keys  *)
(* still go to the terminal.  The callbacks that follow a click run after  *)
(* it, and what is posted to the window may come in between.               *)
(***************************************************************************)
EXTENDS SystemInfoPages

CONSTANT MaxUnread   \* bounds the clicks made before a worker reads

ASSUME MaxUnreadIsPositive == MaxUnread \in Nat \ {0}

VARIABLES popup,       \* proc-open
          told,        \* the popup and the tab that the callbacks last saw
          orders,      \* SetProcessMonitor, unread, of each worker
          monitor,     \* the channel of `ps` of each worker, lost if it broke
          reports,     \* workers with a ProcessStats that is not applied yet
          list         \* the tab whose processes the popup lists, if any

monitoring  == <<orders, monitor, reports>>
monitorVars == <<popup, told, monitoring, list>>
allVars     == <<vars, monitorVars>>

MonitorInit ==
  /\ popup = FALSE /\ told = [popup |-> FALSE, active |-> Welcome]
  /\ orders = [w \in Workers |-> <<>>]
  /\ monitor = [w \in Workers |-> "off"]
  /\ reports = {} /\ list = None

-----------------------------------------------------------------------------
(* The UI thread.                                                          *)

\* Mutant: the list is left to ProcessStats.
RefreshLeavesList == UNCHANGED list

(* refresh_sidebar, as far as the list is concerned: an open popup gets    *)
(* what the status of a connected tab holds, which may be nothing.         *)
RefreshSidebar ==
  IF popup /\ SourceTerminal \in Tabs /\ status'[SourceTerminal] = "connected"
  THEN list' \in {None, SourceTerminal}
  ELSE UNCHANGED list

(* What set_process_monitor sends to every handle: on for the tab on       *)
(* screen only.  on_set_process_monitor_open does so when the popup opens  *)
(* or closes, on_refresh_sidebar when the tab changes under an open popup. *)
Wanted(w) == SourceTerminal \in Tabs /\ held[SourceTerminal] = w

OrdersFor(w) ==
  IF told.popup # popup THEN <<popup /\ Wanted(w)>>
  ELSE IF popup THEN <<Wanted(w)>> ELSE <<>>

(* The window runs the callbacks of a click before it takes another.       *)
NowTold  == [popup |-> popup, active |-> active]
CanClick == told = NowTold /\ \A w \in Workers : Len(orders[w]) < MaxUnread

OpenPopup ==
  /\ ~popup /\ active \in Tabs /\ status[active] = "connected" /\ CanClick
  /\ popup' = TRUE
  /\ UNCHANGED <<vars, told, monitoring, list>>

ClosePopup ==
  /\ popup /\ CanClick
  /\ popup' = FALSE
  /\ UNCHANGED <<vars, told, monitoring, list>>

(* `changed proc-open` or `changed active-tab-id`.                         *)
CallbacksRun ==
  /\ told # NowTold
  /\ told' = NowTold
  /\ orders' = [w \in Workers |->
                  IF stage[w] # "ended" /\ \E t \in Tabs : held[t] = w
                  THEN orders[w] \o OrdersFor(w)
                  ELSE orders[w]]
  /\ UNCHANGED <<vars, popup, monitor, reports>>
  /\ IF told.active # active THEN RefreshSidebar ELSE UNCHANGED list

(* What is done with the mouse, with nothing over the window.              *)
Click ==
  /\ ~popup /\ CanClick
  /\ \/ \E t \in Tabs : ConnectSession(t)
     \/ \E x \in OnTheBar : Select(x) \/ CloseTab(x)
  /\ UNCHANGED monitorVars

(* Enter reaches the terminal under the popup.  The new worker is told     *)
(* nothing.                                                                *)
PressEnter(t) == Reconnect(t) /\ UNCHANGED monitorVars

(* The reports of a session are applied in order.                          *)
ConnectedShown(t) ==
  /\ ShowConnected(t)
  /\ UNCHANGED <<popup, told, monitoring>>
  /\ IF SourceTerminal = t THEN RefreshSidebar ELSE UNCHANGED list

ClosedShown(t) ==
  /\ held[t] \notin reports
  /\ ShowClosed(t)
  /\ UNCHANGED monitorVars

(* ProcessStats.                                                           *)
ShowProcesses(w) ==
  /\ w \in reports
  /\ reports' = reports \ {w}
  /\ list' = IF popup /\ Wanted(w) THEN SourceTerminal ELSE list
  /\ UNCHANGED <<vars, popup, told, orders, monitor>>

(* ResourceStats of the session on screen refresh the sidebar, and so does *)
(* each sample of this machine.                                            *)
Tick ==
  /\ UNCHANGED <<vars, popup, told, monitoring>>
  /\ RefreshSidebar

-----------------------------------------------------------------------------
(* The worker.                                                             *)

\* Mutant: an order to stop is not obeyed.
TakeOrderToStart(w) ==
  /\ stage[w] = "running" /\ orders[w] # <<>>
  /\ orders' = [orders EXCEPT ![w] = Tail(@)]
  /\ \E m \in {"off", "on", "lost"} :
       /\ monitor' = [monitor EXCEPT ![w] = m]
       /\ IF ~Head(orders[w]) \/ monitor[w] = "on" THEN m = monitor[w]
          ELSE m \in {"on", "lost"}
  /\ UNCHANGED <<vars, popup, told, reports, list>>

(* SetProcessMonitor: opening the channel may fail, closing it cannot.     *)
TakeOrder(w) ==
  /\ stage[w] = "running" /\ orders[w] # <<>>
  /\ orders' = [orders EXCEPT ![w] = Tail(@)]
  /\ \E m \in {"off", "on", "lost"} :
       /\ monitor' = [monitor EXCEPT ![w] = m]
       /\ IF ~Head(orders[w]) THEN m = "off"
          ELSE IF monitor[w] = "on" THEN m = "on" ELSE m \in {"on", "lost"}
  /\ UNCHANGED <<vars, popup, told, reports, list>>

(* A list of the remote `ps` has come in; or its channel ends.             *)
ReadProcesses(w) ==
  /\ stage[w] = "running" /\ monitor[w] = "on"
  /\ reports' = reports \cup {w}
  /\ UNCHANGED <<vars, popup, told, orders, monitor, list>>

MonitorEnds(w) ==
  /\ stage[w] = "running" /\ monitor[w] = "on"
  /\ monitor' = [monitor EXCEPT ![w] = "lost"]
  /\ UNCHANGED <<vars, popup, told, orders, reports, list>>

(* The channels go with the worker.                                        *)
WorkerReturns(w) ==
  /\ Return(w)
  /\ orders' = [orders EXCEPT ![w] = <<>>]
  /\ monitor' = [monitor EXCEPT ![w] = "off"]
  /\ UNCHANGED <<popup, told, reports, list>>

ConnectOver(w) ==
  /\ ConnectEnds(w)
  /\ orders' = [orders EXCEPT ![w] = IF stage'[w] = "ended" THEN <<>> ELSE @]
  /\ UNCHANGED <<popup, told, monitor, reports, list>>

-----------------------------------------------------------------------------
MonitorNext ==
  \/ OpenPopup \/ ClosePopup \/ CallbacksRun
  \/ Click \/ Tick
  \/ \E t \in Tabs : PressEnter(t) \/ ConnectedShown(t) \/ ClosedShown(t)
  \/ \E w \in Workers :
       \/ ShowProcesses(w)
       \/ TakeOrder(w) \/ ReadProcesses(w) \/ MonitorEnds(w)
       \/ ConnectOver(w) \/ WorkerReturns(w)
       \/ LoopEnds(w) /\ UNCHANGED monitorVars

(* The window runs its callbacks, its timer and what is posted to it, and  *)
(* a loop reads its commands.                                              *)
MonitorFairness ==
  /\ WF_allVars(CallbacksRun)
  /\ WF_allVars(Tick)
  /\ \A t \in Tabs : WF_allVars(ClosedShown(t))
  /\ \A w \in Workers : WF_allVars(ShowProcesses(w)) /\ WF_allVars(TakeOrder(w))

MonitorSpec ==
  Init /\ MonitorInit /\ [][MonitorNext]_allVars /\ Fairness /\ MonitorFairness

-----------------------------------------------------------------------------
(* Once its callbacks have run and a worker has read what it was told, it  *)
(* runs `ps` only if the popup is open and its tab on screen: whatever was *)
(* clicked while it was connecting, and whatever was replaced or closed    *)
(* meanwhile, no remote loop is left that nobody looks at ("closing it     *)
(* stops the remote ps loop").                                             *)
OnlyTheScreenIsMonitored ==
  told = NowTold =>
    \A t \in Tabs :
      LET w == held[t]
      IN w # None /\ stage[w] = "running" /\ orders[w] = <<>> /\ monitor[w] = "on"
           => popup /\ SourceTerminal = t

(* A popup that is opened comes to show no other host's processes, and to  *)
(* be fed by the session on screen unless its channel fails, or the popup  *)
(* or the session goes first ("opening the popup starts an on-demand       *)
(* monitor channel"), also if it was closed a moment ago or the list of    *)
(* another tab is still there.  A popup that stays open across a reconnect *)
(* is not fed: no callback runs, and nothing tells the new worker.         *)
JustOpened(t) ==
  /\ popup /\ ~told.popup
  /\ SourceTerminal = t /\ status[t] = "connected"

Gone(t) == ~popup \/ SourceTerminal # t \/ status[t] # "connected"

ComesAlive(t) == monitor[held[t]] # "off" /\ list \in {None, t}

PopupComesAlive == \A t \in Tabs : JustOpened(t) ~> (Gone(t) \/ ComesAlive(t))

(* "While open, the data still refreshes live": this does not hold, for    *)
(* the reason above.                                                       *)
OpenIsLive ==
  \A t \in Tabs : (popup /\ SourceTerminal = t /\ status[t] = "connected")
                   ~> (Gone(t) \/ ComesAlive(t))
=============================================================================
