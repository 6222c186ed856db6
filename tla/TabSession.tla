----------------------------- MODULE TabSession -----------------------------
(***************************************************************************)
(* The life of the terminal tabs of the window and of the session workers  *)
(* behind them: SSH, Telnet, serial port and local shell.                  *)
(*                                                                         *)
(* The UI thread owns the tabs.  A worker runs on the tokio runtime, takes *)
(* commands from one unbounded channel and reports on another; a pump      *)
(* thread per worker posts each report to the UI thread, labelled with the *)
(* id of the TAB and not of the worker.  Enter on a disconnected tab       *)
(* starts a new worker in the same tab (#79), so the reports of the worker *)
(* that is replaced and of the one that replaces it reach the same tab.    *)
(***************************************************************************)
EXTENDS Integers, Sequences

CONSTANTS
  Tabs,       \* tab ids: every click on a session makes a new one
  Workers,    \* runs of a session worker, one per connect or reconnect
  Kind,       \* the SessionKind of each tab
  NoTab, NoWorker,
  MaxCmds,    \* bound: keystrokes queued to one worker
  MaxEvents   \* bound: reports queued when output or a sample is added

Kinds == {"ssh", "telnet", "serial", "local"}

ASSUME KindAssumption == Kind \in [Tabs -> Kinds]
ASSUME NamesAssumption == NoTab \notin Tabs /\ NoWorker \notin Workers
ASSUME BoundsAssumption == MaxCmds \in Nat /\ MaxEvents \in Nat

VARIABLES
  tab,      \* per tab: not opened yet, in the tab bar, or closed
  state,    \* per tab: TabStatus.state, 0 connecting, 1 connected, 2 closed
  lit,      \* per tab: TabInfo.connected, the dot in the tab bar
  handle,   \* per tab: the worker its SessionHandle talks to
  sftpHandle, \* per tab: the worker whose SFTP side channel it holds
  screen,   \* per tab: workers whose output its current parser has taken in
  phase,    \* per worker: how far its task has come
  owner,    \* per worker: the tab it was started for
  reader,   \* per worker: its reader thread runs (serial and local)
  cmds,     \* per worker: its command channel
  events,   \* per worker: its reports, up to the UI thread applying them
  sftp      \* per worker: the SFTP worker spawned with it

uiVars     == <<tab, state, lit, handle, sftpHandle, screen>>
workerVars == <<phase, owner, reader, cmds, events, sftp>>
vars       == <<tab, state, lit, handle, sftpHandle, screen,
                phase, owner, reader, cmds, events, sftp>>

Phases == {"unborn", "connecting", "starting", "greeting", "up",
           "ending", "closing", "done"}
Report == {"Connected", "Closed", "ResourceStats", "Output"}

TypeOK ==
  /\ tab \in [Tabs -> {"unused", "open", "closed"}]
  /\ state \in [Tabs -> {0, 1, 2}]
  /\ lit \in [Tabs -> BOOLEAN]
  /\ handle \in [Tabs -> Workers \cup {NoWorker}]
  /\ sftpHandle \in [Tabs -> Workers \cup {NoWorker}]
  /\ screen \in [Tabs -> SUBSET Workers]
  /\ phase \in [Workers -> Phases]
  /\ owner \in [Workers -> Tabs \cup {NoTab}]
  /\ reader \in [Workers -> BOOLEAN]
  /\ cmds \in [Workers -> Seq({"RawInput", "Close"})]
  /\ events \in [Workers -> Seq(Report)]
  /\ sftp \in [Workers -> {"none", "running", "told", "done"}]

Init ==
  /\ tab = [t \in Tabs |-> "unused"]
  /\ state = [t \in Tabs |-> 0]
  /\ lit = [t \in Tabs |-> FALSE]
  /\ handle = [t \in Tabs |-> NoWorker]
  /\ sftpHandle = [t \in Tabs |-> NoWorker]
  /\ screen = [t \in Tabs |-> {}]
  /\ phase = [w \in Workers |-> "unborn"]
  /\ owner = [w \in Workers |-> NoTab]
  /\ reader = [w \in Workers |-> FALSE]
  /\ cmds = [w \in Workers |-> <<>>]
  /\ events = [w \in Workers |-> <<>>]
  /\ sftp = [w \in Workers |-> "none"]

(***************************************************************************)
(* The UI thread.                                                          *)
(***************************************************************************)

\* Mutant: the SFTP handle is dropped but not told.
DropSftp(t) == sftp

(* The SFTP handle of a tab is removed and told to close: the SFTP worker  *)
(* keeps a sender of its own channel alive, so only this message ends it   *)
(* once it runs.                                                           *)
CloseSftp(t) ==
  IF sftpHandle[t] = NoWorker THEN sftp
  ELSE [sftp EXCEPT ![sftpHandle[t]] = IF @ = "running" THEN "told" ELSE @]

(* start_session_in_tab: a worker, and the SFTP worker of an SSH session,  *)
(* whose handles replace whatever the maps held for the tab.  `told' is    *)
(* the SFTP map after the handler's own calls to close.                    *)
StartSessionInTab(t, w, told) ==
  /\ phase[w] = "unborn"
  /\ phase' = [phase EXCEPT ![w] = "connecting"]
  /\ owner' = [owner EXCEPT ![w] = t]
  /\ handle' = [handle EXCEPT ![t] = w]
  /\ IF Kind[t] = "ssh"
       THEN /\ sftp' = [told EXCEPT ![w] = "running"]
            /\ sftpHandle' = [sftpHandle EXCEPT ![t] = w]
       ELSE /\ sftp' = told
            /\ sftpHandle' = [sftpHandle EXCEPT ![t] = NoWorker]

(* on_connect_session, for a session whose jump host resolves *)
ConnectSession(t, w) ==
  /\ tab[t] = "unused"
  /\ tab' = [tab EXCEPT ![t] = "open"]
  /\ state' = [state EXCEPT ![t] = 0]
  /\ StartSessionInTab(t, w, sftp)
  /\ UNCHANGED <<lit, screen, reader, cmds, events>>

\* Mutant: Enter also restarts a session that still connects.
ReconnectUnlessConnected(t, w) ==
  /\ tab[t] = "open" /\ state[t] # 1
  /\ StartSessionInTab(t, w, CloseSftp(t))
  /\ screen' = [screen EXCEPT ![t] = {}]
  /\ state' = [state EXCEPT ![t] = 0]
  /\ UNCHANGED <<tab, lit, reader, cmds, events>>

(* on_send_key, Enter on a tab whose state is 2: the old shell handle is   *)
(* dropped without a Close, the SFTP one is closed, the parser is new.     *)
Reconnect(t, w) ==
  /\ tab[t] = "open" /\ state[t] = 2
  /\ StartSessionInTab(t, w, CloseSftp(t))
  /\ screen' = [screen EXCEPT ![t] = {}]
  /\ state' = [state EXCEPT ![t] = 0]
  /\ UNCHANGED <<tab, lit, reader, cmds, events>>

(* on_tab_closed on a terminal tab: both handles are removed and told to   *)
(* close, the buffer and the rows go; the TabStatus entry is left behind.  *)
CloseTab(t) ==
  /\ tab[t] = "open"
  /\ tab' = [tab EXCEPT ![t] = "closed"]
  /\ lit' = [lit EXCEPT ![t] = FALSE]
  /\ screen' = [screen EXCEPT ![t] = {}]
  /\ handle' = [handle EXCEPT ![t] = NoWorker]
  /\ cmds' = IF handle[t] = NoWorker \/ phase[handle[t]] = "done" THEN cmds
             ELSE [cmds EXCEPT ![handle[t]] = Append(@, "Close")]
  /\ sftpHandle' = [sftpHandle EXCEPT ![t] = NoWorker]
  /\ sftp' = CloseSftp(t)
  /\ UNCHANGED <<state, phase, owner, reader, events>>

(* on_send_key, any other key: to the tab in front, or with sync_input to  *)
(* every handle.  A worker that is over has dropped its receiver, and the  *)
(* send error is ignored.                                                  *)
Type(targets) ==
  LET listening == {w \in {handle[t] : t \in targets} \ {NoWorker} :
                      phase[w] # "done" /\ Len(cmds[w]) < MaxCmds}
  IN /\ listening # {}
     /\ cmds' = [w \in Workers |-> IF w \in listening
                                   THEN Append(cmds[w], "RawInput")
                                   ELSE cmds[w]]
     /\ UNCHANGED <<uiVars, phase, owner, reader, events, sftp>>

SendKey == \/ \E t \in Tabs : tab[t] = "open" /\ Type({t})
           \/ Type(Tabs)

ShowConnected(t) == /\ state' = [state EXCEPT ![t] = 1]
                    /\ lit' = [lit EXCEPT ![t] = tab[t] = "open"]
ShowClosed(t)    == /\ state' = [state EXCEPT ![t] = 2]
                    /\ lit' = [lit EXCEPT ![t] = FALSE]
ShowAlive(t)     == state' = [state EXCEPT ![t] = 1] /\ UNCHANGED lit

(* Bytes reach a parser only while the tab has one. *)
PutOutput(t, w) == screen' = IF tab[t] = "open"
                         THEN [screen EXCEPT ![t] = @ \cup {w}] ELSE screen

(* apply_session_event_to_window, run by the UI thread for the next report *)
(* of w.  Rows and buffers of a closed tab are gone, its TabStatus is not. *)
(* A Closed also prints its own hint, through the path of Output.          *)
ApplySessionEvent(w) ==
  /\ events[w] # <<>>
  /\ events' = [events EXCEPT ![w] = Tail(@)]
  /\ LET t == owner[w]
         e == Head(events[w])
     IN \/ e = "Connected" /\ ShowConnected(t) /\ UNCHANGED screen
        \/ e = "Closed" /\ ShowClosed(t) /\ PutOutput(t, w)
        \/ e = "ResourceStats" /\ ShowAlive(t) /\ UNCHANGED screen
        \/ e = "Output" /\ PutOutput(t, w) /\ UNCHANGED <<state, lit>>
  /\ UNCHANGED <<tab, handle, sftpHandle, phase, owner, reader, cmds, sftp>>

(***************************************************************************)
(* A session worker.                                                       *)
(***************************************************************************)
IsKind(w, kinds) == owner[w] \in Tabs /\ Kind[owner[w]] \in kinds
Send(w, e)       == events' = [events EXCEPT ![w] = Append(@, e)]
GoTo(w, p)       == phase' = [phase EXCEPT ![w] = p]
Held(w)          == \E t \in Tabs : handle[t] = w

(* The local shell's reader thread is running before Connected is sent. *)
StartReader(w) ==
  /\ phase[w] = "connecting" /\ IsKind(w, {"local"})
  /\ GoTo(w, "starting")
  /\ reader' = [reader EXCEPT ![w] = TRUE]
  /\ UNCHANGED <<uiVars, owner, cmds, events, sftp>>

(* Connected is sent: an SSH or serial worker is then in its loop, a       *)
(* Telnet worker still writes its option hello, a local one its startup    *)
(* command when the session has one.  A serial port gets its reader now.   *)
SendConnected(w) ==
  /\ \/ phase[w] = "connecting" /\ IsKind(w, {"ssh", "telnet", "serial"})
     \/ phase[w] = "starting"
  /\ Send(w, "Connected")
  /\ \/ IsKind(w, {"ssh", "serial", "local"}) /\ GoTo(w, "up")
     \/ IsKind(w, {"telnet", "local"}) /\ GoTo(w, "greeting")
  /\ reader' = [reader EXCEPT ![w] = @ \/ IsKind(w, {"serial"})]
  /\ UNCHANGED <<uiVars, owner, cmds, sftp>>

Greet(w) ==
  /\ phase[w] = "greeting"
  /\ GoTo(w, "up")
  /\ UNCHANGED <<uiVars, owner, reader, cmds, events, sftp>>

\* Mutant: the error is logged and not reported.
FailSilently(w) ==
  /\ phase[w] \in {"connecting", "greeting"}
  /\ GoTo(w, "done")
  /\ cmds' = [cmds EXCEPT ![w] = <<>>]
  /\ UNCHANGED <<uiVars, owner, reader, events, sftp>>

(* An error before the loop returns from run_*; the task around it sends   *)
(* Closed.  A local shell whose startup command cannot be written leaves   *)
(* its reader thread running.                                              *)
FailBeforeLoop(w) ==
  /\ phase[w] \in {"connecting", "greeting"}
  /\ Send(w, "Closed")
  /\ GoTo(w, "done")
  /\ cmds' = [cmds EXCEPT ![w] = <<>>]
  /\ UNCHANGED <<uiVars, owner, reader, sftp>>

(* Bytes of the session; adjacent chunks are one (recv_coalesced_output). *)
EmitOutput(w) ==
  /\ IF IsKind(w, {"serial", "local"}) THEN reader[w] ELSE phase[w] = "up"
  /\ Len(events[w]) < MaxEvents
  /\ events[w] # <<>> => events[w][Len(events[w])] # "Output"
  /\ Send(w, "Output")
  /\ UNCHANGED <<uiVars, phase, owner, reader, cmds, sftp>>

(* A sample of the remote resource monitor, a channel of its own. *)
EmitStats(w) ==
  /\ phase[w] = "up" /\ IsKind(w, {"ssh"})
  /\ Len(events[w]) < MaxEvents
  /\ Send(w, "ResourceStats")
  /\ UNCHANGED <<uiVars, phase, owner, reader, cmds, sftp>>

TakeInput(w) ==
  /\ phase[w] = "up" /\ cmds[w] # <<>> /\ Head(cmds[w]) = "RawInput"
  /\ cmds' = [cmds EXCEPT ![w] = Tail(@)]
  /\ UNCHANGED <<uiVars, phase, owner, reader, events, sftp>>

(* The write fails.  All but the local shell report Closed here, leave the *)
(* loop, and report Closed again at the end of run_*.                      *)
TakeInputFails(w) ==
  /\ phase[w] = "up" /\ cmds[w] # <<>> /\ Head(cmds[w]) = "RawInput"
  /\ cmds' = [cmds EXCEPT ![w] = Tail(@)]
  /\ GoTo(w, "ending")
  /\ IF IsKind(w, {"local"}) THEN UNCHANGED events ELSE Send(w, "Closed")
  /\ UNCHANGED <<uiVars, owner, reader, sftp>>

\* Mutant: a channel without a sender does not end the loop.
TakeCloseOnly(w) ==
  /\ phase[w] = "up" /\ cmds[w] # <<>> /\ Head(cmds[w]) = "Close"
  /\ GoTo(w, "ending")
  /\ cmds' = [cmds EXCEPT ![w] = <<>>]
  /\ UNCHANGED <<uiVars, owner, reader, events, sftp>>

(* A Close, or a channel that is empty and has lost its only sender. *)
TakeClose(w) ==
  /\ phase[w] = "up"
  /\ \/ cmds[w] # <<>> /\ Head(cmds[w]) = "Close"
     \/ cmds[w] = <<>> /\ ~Held(w)
  /\ GoTo(w, "ending")
  /\ cmds' = [cmds EXCEPT ![w] = <<>>]
  /\ UNCHANGED <<uiVars, owner, reader, events, sftp>>

(* The peer closes the channel or the connection, or the shell exits. *)
PeerEnds(w) ==
  /\ phase[w] = "up" /\ IsKind(w, {"ssh", "telnet", "local"})
  /\ GoTo(w, "ending")
  /\ UNCHANGED <<uiVars, owner, reader, cmds, events, sftp>>

(* A Telnet read error reports Closed before the one at the end. *)
ReadFails(w) ==
  /\ phase[w] = "up" /\ IsKind(w, {"telnet"})
  /\ GoTo(w, "ending")
  /\ Send(w, "Closed")
  /\ UNCHANGED <<uiVars, owner, reader, cmds, sftp>>

(* A serial read error reports Closed from the reader thread, which exits; *)
(* the command loop is not told and goes on waiting.                       *)
SerialReaderFails(w) ==
  /\ reader[w] /\ IsKind(w, {"serial"})
  /\ reader' = [reader EXCEPT ![w] = FALSE]
  /\ Send(w, "Closed")
  /\ UNCHANGED <<uiVars, phase, owner, cmds, sftp>>

(* A local reader ends at EOF or on an error, a serial one when `running'  *)
(* is cleared after the loop.                                              *)
ReaderStops(w) ==
  /\ reader[w]
  /\ IsKind(w, {"local"}) \/ phase[w] = "ending"
  /\ reader' = [reader EXCEPT ![w] = FALSE]
  /\ UNCHANGED <<uiVars, phase, owner, cmds, events, sftp>>

(* After its loop an SSH worker sends the incomplete OSC tail it held. *)
FlushPending(w) ==
  /\ phase[w] = "ending" /\ IsKind(w, {"ssh"})
  /\ GoTo(w, "closing")
  /\ Send(w, "Output")
  /\ UNCHANGED <<uiVars, owner, reader, cmds, sftp>>

\* Mutant: the last Closed is forgotten.
FinishSilently(w) ==
  /\ phase[w] \in {"ending", "closing"} /\ ~reader[w]
  /\ GoTo(w, "done")
  /\ cmds' = [cmds EXCEPT ![w] = <<>>]
  /\ UNCHANGED <<uiVars, owner, reader, events, sftp>>

(* The reader is joined, the connection dropped and the last Closed sent. *)
Finish(w) ==
  /\ phase[w] \in {"ending", "closing"} /\ ~reader[w]
  /\ GoTo(w, "done")
  /\ Send(w, "Closed")
  /\ cmds' = [cmds EXCEPT ![w] = <<>>]
  /\ UNCHANGED <<uiVars, owner, reader, sftp>>

(* The SFTP worker acts on Close, or cannot connect. *)
SftpEnds(w) ==
  /\ sftp[w] \in {"running", "told"}
  /\ sftp' = [sftp EXCEPT ![w] = "done"]
  /\ UNCHANGED <<uiVars, phase, owner, reader, cmds, events>>

-----------------------------------------------------------------------------

UI == \/ \E t \in Tabs, w \in Workers : ConnectSession(t, w) \/ Reconnect(t, w)
      \/ \E t \in Tabs : CloseTab(t)
      \/ SendKey

(* The steps that take a started worker to its end, whoever is listening. *)
Progress(w) ==
  \/ StartReader(w) \/ SendConnected(w) \/ Greet(w) \/ FailBeforeLoop(w)
  \/ TakeInput(w) \/ TakeInputFails(w) \/ TakeClose(w) \/ Finish(w)

Peer(w) ==
  \/ EmitOutput(w) \/ EmitStats(w) \/ PeerEnds(w) \/ ReadFails(w)
  \/ SerialReaderFails(w) \/ FlushPending(w)

Next == \/ UI
        \/ \E w \in Workers : \/ Progress(w) \/ Peer(w) \/ ReaderStops(w)
                              \/ ApplySessionEvent(w) \/ SftpEnds(w)

Spec == Init /\ [][Next]_vars

(* The runtime polls a task that can move, the pump and the UI thread run, *)
(* and a reader notices that its device is gone or that it must stop.  The *)
(* remote side and the user owe nothing.                                   *)
Fairness == \A w \in Workers : /\ WF_vars(Progress(w))
                               /\ WF_vars(ReaderStops(w))
                               /\ WF_vars(ApplySessionEvent(w))

FairSpec == Spec /\ Fairness

(***************************************************************************)
(* Properties.                                                             *)
(***************************************************************************)

(* The tab bar never shows a tab as connected when its TabStatus, which    *)
(* decides what the sidebar shows and whether Enter reconnects, does not:  *)
(* one Closed or Connected moves both, whichever worker it came from.      *)
LitMeansConnected == \A t \in Tabs : lit[t] => state[t] = 1

(* An SFTP worker that still runs and has not been told to close is the    *)
(* one its open tab holds: neither a reconnect nor a closed tab leaves one *)
(* behind, which would stay connected to the server until the program ends.*)
SftpReleased ==
  \A w \in Workers : sftp[w] = "running" =>
    owner[w] \in Tabs /\ sftpHandle[owner[w]] = w /\ tab[owner[w]] = "open"

(* A closed tab holds no handle, no lit dot and no screen, whatever reports*)
(* of its worker are still to come.                                        *)
ClosedTabHoldsNothing ==
  \A t \in Tabs : tab[t] # "open" =>
    /\ handle[t] = NoWorker /\ sftpHandle[t] = NoWorker
    /\ ~lit[t] /\ screen[t] = {}

(* "Disconnected, press Enter to reconnect" is on show only when the       *)
(* session of the tab is over (on_send_key replaces it on Enter).  This    *)
(* does not hold of SSH, Telnet and serial tabs, whose workers report      *)
(* Closed twice: the second one may reach the tab after the reconnect.     *)
DisconnectedMeansOver ==
  \A t \in Tabs : tab[t] = "open" /\ state[t] = 2 =>
    phase[handle[t]] = "done"

(* After a reconnect the fresh screen shows the new session only.  This    *)
(* does not hold: the last reports of the old worker go to the same tab.   *)
FreshScreen == \A t \in Tabs : screen[t] \subseteq {handle[t]}

(* The tabs of local shells, whose workers report Closed once and last. *)
LocalTabs == {t \in Tabs : Kind[t] = "local"}

(* A local tab offers the reconnect only when its shell is over: Enter     *)
(* never kills a shell that still runs.                                    *)
LocalDisconnectedMeansOver ==
  \A t \in LocalTabs : tab[t] = "open" /\ state[t] = 2 =>
    phase[handle[t]] = "done"

(* A local tab is shown as connected only when the worker it talks to has  *)
(* sent its Connected, so what is typed there has a shell to reach.        *)
LocalConnectedMeansReached ==
  \A t \in LocalTabs : tab[t] = "open" /\ state[t] = 1 =>
    phase[handle[t]] \notin {"connecting", "starting"}

(* Why the two hold, as an invariant each step preserves: the tab and its  *)
(* worker agree on whose they are; in the reports of a local worker Closed *)
(* comes once, after its task is done, with nothing but output behind it;  *)
(* and a worker that was replaced, or whose Closed is on show, has nothing *)
(* but output left to report.                                              *)
HandlesAgree ==
  /\ \A t \in Tabs : IF tab[t] = "open"
                     THEN handle[t] \in Workers
                     ELSE handle[t] = NoWorker /\ sftpHandle[t] = NoWorker
  /\ \A t \in Tabs, w \in Workers : w \in {handle[t], sftpHandle[t]} =>
       owner[w] = t /\ phase[w] # "unborn"
  /\ \A w \in Workers : phase[w] = "unborn" =>
       events[w] = <<>> /\ ~reader[w] /\ sftp[w] = "none" /\ owner[w] = NoTab
  /\ \A w \in Workers : owner[w] \in Tabs => tab[owner[w]] # "unused"

OnlyOutput(w) == \A i \in 1..Len(events[w]) : events[w][i] = "Output"
Reached(w)    == phase[w] \notin {"unborn", "connecting", "starting"}

ReportsInOrder(w) ==
  \A i \in 1..Len(events[w]) :
    /\ events[w][i] # "ResourceStats"
    /\ events[w][i] = "Connected" => Reached(w)
    /\ events[w][i] = "Closed" =>
         /\ phase[w] = "done"
         /\ \A j \in (i+1)..Len(events[w]) : events[w][j] = "Output"

LocalReportsInOrder ==
  \A w \in Workers : IsKind(w, {"local"}) => ReportsInOrder(w)

LocalReplacedIsOver ==
  \A w \in Workers :
    IsKind(w, {"local"}) /\ tab[owner[w]] = "open" /\ handle[owner[w]] # w =>
      phase[w] = "done" /\ OnlyOutput(w)

LocalShownIsTrue ==
  \A t \in LocalTabs : tab[t] = "open" =>
    /\ state[t] = 1 => Reached(handle[t])
    /\ state[t] = 2 => phase[handle[t]] = "done" /\ OnlyOutput(handle[t])

LocalInv == /\ HandlesAgree /\ LocalReportsInOrder
            /\ LocalReplacedIsOver /\ LocalShownIsTrue

(* The local tabs keep the promise of TabPromise: each step of the program *)
(* is one of its steps or changes nothing the user can tell.               *)
ShownOf(t) == IF tab[t] # "open" THEN "none"
              ELSE CASE state[t] = 0 -> "connecting"
                     [] state[t] = 1 -> "connected"
                     [] state[t] = 2 -> "disconnected"

SessionOf(t) ==
  IF handle[t] = NoWorker THEN "none"
  ELSE CASE phase[handle[t]] \in {"connecting", "starting"} -> "attempt"
         [] phase[handle[t]] = "done" -> "over"
         [] OTHER -> "live"

Promise == INSTANCE TabPromise WITH
             Tabs    <- LocalTabs,
             shown   <- [t \in LocalTabs |-> ShownOf(t)],
             session <- [t \in LocalTabs |-> SessionOf(t)]

LocalTabsKeepPromise == Promise!Spec

(* The end of a session reaches the user: its tab comes to offer the       *)
(* reconnect, unless it was closed or reconnected first.                   *)
EndIsReported ==
  \A t \in Tabs, w \in Workers :
    handle[t] = w /\ phase[w] = "done" ~> state[t] = 2 \/ handle[t] # w

(* A worker no tab holds any more comes to its end: dropping the handle on *)
(* a reconnect and Close on a closed tab are each enough, also when input  *)
(* is queued before them or the connect has not finished.                  *)
ReleasedWorkersStop ==
  \A w \in Workers :
    phase[w] # "unborn" /\ ~Held(w) ~> phase[w] = "done"
=============================================================================
