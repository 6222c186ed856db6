-------------------------- MODULE SystemInfoPages --------------------------
(***************************************************************************)
(* The system information pages of cloudshell (app.rs, ssh.rs): a page is  *)
(* a tab derived from the terminal tab of an SSH session.  It asks the     *)
(* worker of that session for one snapshot at a time; the answer comes     *)
(* back labelled with the id of the page, from a task of its own that may  *)
(* outlive the worker, the page, or the session the page was opened for.   *)
(*                                                                         *)
(* TabSession models how a session starts, ends and reports to its tab;    *)
(* here a tab has the status its present worker last reported, and the     *)
(* stages of a worker are those that decide what becomes of a request.     *)
(***************************************************************************)
EXTENDS Naturals, Sequences, FiniteSets

CONSTANTS Tabs,      \* terminal tabs of SSH sessions
          Workers,   \* runs of run_session, each used once (bounds reconnects)
          Pages,     \* ids of pages, fresh for each page (bounds openings)
          Welcome,   \* the tab that cannot be closed
          None       \* no tab, no worker

ASSUME NamesAreDistinct ==
  /\ Tabs \cap Pages = {} /\ Welcome \notin Tabs \cup Pages
  /\ None \notin Tabs \cup Pages \cup Workers \cup {Welcome}

VARIABLES status,      \* of each tab: closed, or what its session reported
          held,        \* the worker whose handle a tab holds
          stage,       \* of each worker
          inbox,       \* requests a worker has not read; they end with it
          collecting,  \* pages whose snapshot is being collected
          answers,     \* answers that the UI thread has not applied yet
          page,        \* of each page: what it shows
          source,      \* the tab a page was opened for
          active       \* the tab on screen

session == <<status, held, stage>>
asked   == <<inbox, collecting, answers>>
vars    == <<session, asked, page, source, active>>

Exists(p)    == page[p] \notin {"unused", "closed"}
Loading(p)   == page[p] = "loading"
PagesOf(t)   == {p \in Pages : Exists(p) /\ source[p] = t}
OpenTabs     == {t \in Tabs : status[t] # "closed"}
OnTheBar     == {Welcome} \cup OpenTabs \cup {p \in Pages : Exists(p)}
Queued(w, p) == \E i \in 1..Len(inbox[w]) : inbox[w][i] = p

(* The terminal behind what is on screen (source_terminal_id).             *)
SourceTerminal == IF active \in Pages THEN source[active] ELSE active

Init ==
  /\ status = [t \in Tabs |-> "closed"]
  /\ held = [t \in Tabs |-> None]
  /\ stage = [w \in Workers |-> "unused"]
  /\ inbox = [w \in Workers |-> <<>>]
  /\ collecting = {} /\ answers = {}
  /\ page = [p \in Pages |-> "unused"]
  /\ source = [p \in Pages |-> None]
  /\ active = Welcome

-----------------------------------------------------------------------------
(* The UI thread.                                                          *)

StartSession(t) ==
  /\ \E w \in Workers : stage[w] = "unused"
  /\ LET w == CHOOSE v \in Workers : stage[v] = "unused"
     IN /\ held' = [held EXCEPT ![t] = w]
        /\ stage' = [stage EXCEPT ![w] = "connecting"]
  /\ status' = [status EXCEPT ![t] = "connecting"]
  /\ UNCHANGED <<asked, page, source>>

ConnectSession(t) ==
  /\ status[t] = "closed"
  /\ StartSession(t)
  /\ active' = t

(* Enter in a disconnected terminal: the page of the tab stays as it is.   *)
Reconnect(t) ==
  /\ status[t] = "over" /\ active = t
  /\ StartSession(t)
  /\ UNCHANGED active

Select(x) ==
  /\ x \in OnTheBar
  /\ active' = x
  /\ UNCHANGED <<session, asked, page, source>>

(* SessionHandle::request_system_info: the channel takes the request as    *)
(* long as run_session has not returned, also when its loop is over.       *)
CanSend(t) == held[t] # None /\ stage[held[t]] # "ended"

(* request_system_info_page: a page is loading unless the request cannot   *)
(* be sent.                                                                *)
RequestSystemInfo(p, t) ==
  IF CanSend(t)
  THEN /\ page' = [page EXCEPT ![p] = "loading"]
       /\ inbox' = [inbox EXCEPT ![held[t]] = Append(@, p)]
  ELSE /\ page' = [page EXCEPT ![p] = "failed"]
       /\ UNCHANGED inbox

(* The entry of the sidebar, offered for a connected session (the sidebar  *)
(* is refreshed at every change of status): the page of the session, asked *)
(* for a snapshot unless it waits for one.                                 *)
OpenAndAlwaysAsk ==
  LET t == SourceTerminal
  IN /\ t \in Tabs /\ status[t] = "connected" /\ held[t] # None
     /\ \E p \in Pages :
          /\ IF PagesOf(t) # {} THEN p \in PagesOf(t) ELSE page[p] = "unused"
          /\ source' = [source EXCEPT ![p] = t]
          /\ RequestSystemInfo(p, t)
          /\ active' = p
     /\ UNCHANGED <<session, collecting, answers>>

OpenSystemInfo ==
  LET t == SourceTerminal
  IN /\ t \in Tabs /\ status[t] = "connected" /\ held[t] # None
     /\ \/ \E p \in PagesOf(t) :
             /\ IF Loading(p) THEN UNCHANGED <<page, inbox>>
                ELSE RequestSystemInfo(p, t)
             /\ active' = p
             /\ UNCHANGED source
        \/ /\ PagesOf(t) = {} /\ \E p \in Pages : page[p] = "unused"
           /\ LET p == CHOOSE q \in Pages : page[q] = "unused"
              IN /\ source' = [source EXCEPT ![p] = t]
                 /\ RequestSystemInfo(p, t)
                 /\ active' = p
     /\ UNCHANGED <<session, collecting, answers>>

(* The button of a page; it is disabled while the page is loading.         *)
RefreshSystemInfo ==
  /\ active \in Pages /\ ~Loading(active)
  /\ RequestSystemInfo(active, source[active])
  /\ UNCHANGED <<session, collecting, answers, source, active>>

(* on_tab_closed: a terminal takes its pages with it; what was on screen   *)
(* gives way to the source of a closed page, or to the welcome tab.        *)
RemovedAlone(x) == {x}
Removed(x) == IF x \in Tabs THEN {x} \cup PagesOf(x) ELSE {x}

FallBack(x) ==
  IF x \in Pages /\ source[x] \in OpenTabs THEN source[x] ELSE Welcome

GoesOffScreen(x) == active \in Removed(x)

CloseTab(x) ==
  /\ x \in OnTheBar \ {Welcome}
  /\ status' = [t \in Tabs |-> IF t = x THEN "closed" ELSE status[t]]
  /\ held' = [t \in Tabs |-> IF t = x THEN None ELSE held[t]]
  /\ page' = [p \in Pages |-> IF p \in Removed(x) THEN "closed" ELSE page[p]]
  /\ active' = IF GoesOffScreen(x) THEN FallBack(x) ELSE active
  /\ UNCHANGED <<stage, asked, source>>

(* The reports of the worker a tab holds.                                  *)
ShowConnected(t) ==
  /\ status[t] = "connecting" /\ stage[held[t]] = "running"
  /\ status' = [status EXCEPT ![t] = "connected"]
  /\ UNCHANGED <<held, stage, asked, page, source, active>>

ShowClosed(t) ==
  /\ status[t] \in {"connecting", "connected"}
  /\ stage[held[t]] \in {"leaving", "ended"}
  /\ status' = [status EXCEPT ![t] = "over"]
  /\ UNCHANGED <<held, stage, asked, page, source, active>>

(* An answer, good or not, goes to the page it names, if that is there.    *)
ApplySystemInfo(a) ==
  /\ answers' = answers \ {a}
  /\ page' = [p \in Pages |->
                IF p = a.page /\ Exists(p)
                THEN IF a.good THEN "shown" ELSE "failed"
                ELSE page[p]]
  /\ UNCHANGED <<session, inbox, collecting, source, active>>

-----------------------------------------------------------------------------
(* The worker: run_session as far as requests are concerned.               *)

ConnectEnds(w) ==
  /\ stage[w] = "connecting"
  /\ \E s \in {"running", "ended"} : stage' = [stage EXCEPT ![w] = s]
  /\ UNCHANGED <<status, held, asked, page, source, active>>

TakeRequest(w) ==
  /\ stage[w] = "running" /\ inbox[w] # <<>>
  /\ collecting' = collecting \cup {Head(inbox[w])}
  /\ inbox' = [inbox EXCEPT ![w] = Tail(@)]
  /\ UNCHANGED <<session, answers, page, source, active>>

(* The loop ends with its channel or connection at any time, and once it   *)
(* has read Close, or misses its sender, behind the requests.              *)
LoopEnds(w) ==
  /\ stage[w] = "running"
  /\ stage' = [stage EXCEPT ![w] = "leaving"]
  /\ UNCHANGED <<status, held, asked, page, source, active>>

(* The connection is told good-bye, which is awaited, before the channel   *)
(* of the requests is dropped with the requests in it.                     *)
Return(w) ==
  /\ stage[w] = "leaving"
  /\ stage' = [stage EXCEPT ![w] = "ended"]
  /\ UNCHANGED <<status, held, asked, page, source, active>>

(* A task for each request, with a sender of its own: the end of the       *)
(* connection ends its channel, and that is an answer too.                 *)
CollectAndDropErrors(p) ==
  /\ p \in collecting
  /\ collecting' = collecting \ {p}
  /\ \E good \in BOOLEAN :
       answers' = IF good THEN answers \cup {[page |-> p, good |-> good]}
                  ELSE answers
  /\ UNCHANGED <<session, inbox, page, source, active>>

CollectSystemInfo(p) ==
  /\ p \in collecting
  /\ collecting' = collecting \ {p}
  /\ \E good \in BOOLEAN : answers' = answers \cup {[page |-> p, good |-> good]}
  /\ UNCHANGED <<session, inbox, page, source, active>>

-----------------------------------------------------------------------------
User ==
  \/ \E t \in Tabs : ConnectSession(t) \/ Reconnect(t)
  \/ \E x \in OnTheBar : Select(x) \/ CloseTab(x)
  \/ OpenSystemInfo
  \/ RefreshSystemInfo

Apply ==
  \/ \E t \in Tabs : ShowConnected(t) \/ ShowClosed(t)
  \/ \E a \in answers : ApplySystemInfo(a)

Worker(w) == ConnectEnds(w) \/ TakeRequest(w) \/ LoopEnds(w) \/ Return(w)

Next ==
  \/ User
  \/ Apply
  \/ \E w \in Workers : Worker(w)
  \/ \E p \in Pages : CollectSystemInfo(p)

Spec == Init /\ [][Next]_vars

(* The UI thread applies each answer posted to it, a connect ends          *)
(* (TabSession), a loop reads its commands, and a remote command ends or   *)
(* its channel does.  No user has to act and no loop has to end.           *)
Fairness ==
  /\ \A w \in Workers :
       WF_vars(ConnectEnds(w)) /\ WF_vars(TakeRequest(w)) /\ WF_vars(Return(w))
  /\ \A p \in Pages :
       /\ WF_vars(CollectSystemInfo(p))
       /\ WF_vars(\E a \in answers : a.page = p /\ ApplySystemInfo(a))

FairSpec == Spec /\ Fairness

-----------------------------------------------------------------------------
TypeOK ==
  /\ status \in [Tabs -> {"closed", "connecting", "connected", "over"}]
  /\ held \in [Tabs -> Workers \cup {None}]
  /\ stage \in [Workers -> {"unused", "connecting", "running", "leaving", "ended"}]
  /\ inbox \in [Workers -> Seq(Pages)]
  /\ collecting \subseteq Pages
  /\ answers \subseteq [page : Pages, good : BOOLEAN]
  /\ page \in [Pages -> {"unused", "loading", "shown", "failed", "closed"}]
  /\ source \in [Pages -> Tabs \cup {None}]
  /\ active \in Tabs \cup Pages \cup {Welcome}

(* Where the question of a page is: unread, being collected or answered.   *)
Places(p) ==
  {x \in Workers \X (1..Cardinality(Pages)) :
     x[2] <= Len(inbox[x[1]]) /\ inbox[x[1]][x[2]] = p}
  \cup {<<"collecting", q>> : q \in collecting \cap {p}}
  \cup {<<"answer", a>> : a \in {b \in answers : b.page = p}}

(* A page has at most one question on its way, and only while it says that *)
(* it is loading: an answer never falls on a page that shows something     *)
(* newer, or the error that the session is disconnected (open_system_info  *)
(* and the Refresh button ask only a page that is not loading).            *)
OneQuestionPerPage ==
  \A p \in Pages : /\ Cardinality(Places(p)) <= 1
                   /\ Places(p) # {} => page[p] \in {"loading", "closed"}

(* A page never outlives the terminal tab it was opened for, and a         *)
(* terminal has at most one (on_tab_closed removes the derived pages,      *)
(* open_system_info finds the one that is there).                          *)
PagesHaveASource ==
  /\ \A p \in Pages : Exists(p) => source[p] \in OpenTabs
  /\ \A p, q \in Pages : Exists(p) /\ Exists(q) /\ source[p] = source[q] => p = q

(* Whatever is closed, in whatever order, a tab that exists is on screen   *)
(* (the fallback of on_tab_closed).                                        *)
ActiveIsOnTheBar == active \in OnTheBar

(* A loading page gets its answer or is closed, also when the session is   *)
(* replaced or its tab's session dies meanwhile.  The one exception is a   *)
(* request that a worker never read because its connect failed or its loop *)
(* ended: the page then says that it is loading for good, with its button  *)
(* disabled.                                                               *)
Unread(p) ==
  \E w \in Workers : stage[w] \in {"leaving", "ended"} /\ Queued(w, p)

PagesSettle ==
  \A p \in Pages : Loading(p) ~> (~Loading(p) \/ Unread(p))
=============================================================================
