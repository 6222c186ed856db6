----------------------- MODULE SystemInfoPages_proofs -----------------------
(***************************************************************************)
(* What holds of the tab bar, of the questions of the pages and of the     *)
(* process popup, for every set of tabs, workers and pages.                *)
(***************************************************************************)
EXTENDS ProcessMonitor, FiniteSetTheorems, TLAPS

LEMMA QueueTypes ==
  ASSUME NEW S, NEW q \in Seq(S)
  PROVE  /\ \A e \in S : Append(q, e) \in Seq(S)
         /\ q # <<>> => Head(q) \in S /\ Tail(q) \in Seq(S)
OBVIOUS

LEMMA InitTypes == Init => TypeOK
BY DEF Init, TypeOK

LEMMA StartTypes ==
  ASSUME TypeOK, NEW t \in Tabs, StartSession(t)
  PROVE  /\ held' \in [Tabs -> Workers \cup {None}]
         /\ stage' \in [Workers -> {"unused", "connecting", "running",
                                    "leaving", "ended"}]
         /\ status' \in [Tabs -> {"closed", "connecting", "connected", "over"}]
         /\ UNCHANGED <<asked, page, source>>
<1>1. (CHOOSE v \in Workers : stage[v] = "unused") \in Workers
  BY DEF StartSession
<1> QED BY <1>1 DEF StartSession, TypeOK

LEMMA RequestTypes ==
  ASSUME TypeOK, NEW p \in Pages, NEW t \in Tabs, RequestSystemInfo(p, t)
  PROVE  /\ inbox' \in [Workers -> Seq(Pages)]
         /\ page' \in [Pages -> {"unused", "loading", "shown", "failed", "closed"}]
<1>1. CASE CanSend(t)
  <2>1. held[t] \in Workers
    BY <1>1 DEF CanSend, TypeOK
  <2>2. Append(inbox[held[t]], p) \in Seq(Pages)
    BY <2>1, QueueTypes DEF TypeOK
  <2> QED BY <1>1, <2>1, <2>2 DEF RequestSystemInfo, TypeOK
<1>2. CASE ~CanSend(t)
  BY <1>2 DEF RequestSystemInfo, TypeOK
<1> QED BY <1>1, <1>2

LEMMA OpenTypes ==
  ASSUME TypeOK, OpenSystemInfo
  PROVE  /\ TypeOK'
         /\ \E p \in Pages :
              /\ active' = p
              /\ \/ /\ p \in PagesOf(SourceTerminal) /\ UNCHANGED source
                    /\ \/ UNCHANGED <<page, inbox>>
                       \/ RequestSystemInfo(p, SourceTerminal)
                 \/ /\ PagesOf(SourceTerminal) = {}
                    /\ source' = [source EXCEPT ![p] = SourceTerminal]
                    /\ RequestSystemInfo(p, SourceTerminal)
<1>1. SourceTerminal \in Tabs
  BY DEF OpenSystemInfo
<1>2. ASSUME NEW p \in PagesOf(SourceTerminal), active' = p, UNCHANGED source,
             UNCHANGED <<page, inbox>> \/ RequestSystemInfo(p, SourceTerminal)
      PROVE  TypeOK' /\ p \in Pages
  <2>1. p \in Pages
    BY DEF PagesOf
  <2> QED
    BY <1>1, <1>2, <2>1, RequestTypes DEF OpenSystemInfo, TypeOK, session
<1>3. ASSUME NEW p \in Pages, active' = p,
             source' = [source EXCEPT ![p] = SourceTerminal],
             RequestSystemInfo(p, SourceTerminal)
      PROVE  TypeOK'
  BY <1>1, <1>3, RequestTypes DEF OpenSystemInfo, TypeOK, session
<1>4. CASE PagesOf(SourceTerminal) = {} /\ \E p \in Pages : page[p] = "unused"
  <2> DEFINE fresh == CHOOSE q \in Pages : page[q] = "unused"
  <2>1. fresh \in Pages
    BY <1>4
  <2>2. /\ source' = [source EXCEPT ![fresh] = SourceTerminal]
        /\ RequestSystemInfo(fresh, SourceTerminal) /\ active' = fresh
    BY <1>4 DEF OpenSystemInfo
  <2> HIDE DEF fresh
  <2>3. TypeOK'
    BY <1>3, <2>1, <2>2
  <2> QED BY <1>4, <2>1, <2>2, <2>3
<1>5. CASE \E p \in PagesOf(SourceTerminal) :
             /\ IF Loading(p) THEN UNCHANGED <<page, inbox>>
                ELSE RequestSystemInfo(p, SourceTerminal)
             /\ active' = p
             /\ UNCHANGED source
  BY <1>2, <1>5
<1> QED BY <1>4, <1>5 DEF OpenSystemInfo

LEMMA CloseTypes ==
  ASSUME TypeOK, NEW x, CloseTab(x)
  PROVE  TypeOK'
<1>1. FallBack(x) \in Tabs \cup {Welcome}
  BY DEF FallBack, OpenTabs
<1> QED BY <1>1 DEF CloseTab, TypeOK, asked

LEMMA WorkerTypes ==
  ASSUME TypeOK, NEW w \in Workers, Worker(w)
  PROVE  TypeOK' /\ UNCHANGED <<status, page, source, active>>
<1>1. CASE TakeRequest(w)
  <2>1. Head(inbox[w]) \in Pages /\ Tail(inbox[w]) \in Seq(Pages)
    BY <1>1, QueueTypes DEF TakeRequest, TypeOK
  <2> QED BY <1>1, <2>1 DEF TakeRequest, TypeOK, session
<1>2. CASE ConnectEnds(w)
  BY <1>2 DEF ConnectEnds, TypeOK, asked
<1>3. CASE LoopEnds(w) \/ Return(w)
  BY <1>3 DEF LoopEnds, Return, TypeOK, asked
<1> QED BY <1>1, <1>2, <1>3 DEF Worker

-----------------------------------------------------------------------------
(* The two statements about the tab bar support each other: a page can be  *)
(* refreshed only where it is on screen, hence on the bar, hence has a     *)
(* terminal to be asked; and a terminal takes its pages with it because    *)
(* they are its own.                                                       *)
Inv == TypeOK /\ PagesHaveASource /\ ActiveIsOnTheBar

LEMMA ActivePageExists ==
  ASSUME Inv, active \in Pages
  PROVE  Exists(active) /\ source[active] \in OpenTabs
<1>1. active \notin Tabs /\ active # Welcome
  BY NamesAreDistinct
<1>2. Exists(active)
  BY <1>1 DEF Inv, ActiveIsOnTheBar, OnTheBar, OpenTabs
<1> QED BY <1>2 DEF Inv, PagesHaveASource

(* A step that closes nothing, opens no page and moves the screen only to  *)
(* what is on the bar.                                                     *)
LEMMA BarKept ==
  ASSUME Inv, UNCHANGED source,
         \A t \in Tabs : status[t] # "closed" => status'[t] # "closed",
         \A p \in Pages : Exists(p)' <=> Exists(p),
         active' \in OnTheBar \/ (active' \in Tabs /\ status'[active'] # "closed")
  PROVE  (PagesHaveASource /\ ActiveIsOnTheBar)'
<1>1. OpenTabs \subseteq OpenTabs'
  BY DEF OpenTabs
<1>2. OnTheBar \subseteq OnTheBar'
  BY <1>1 DEF OnTheBar
<1>3. PagesHaveASource'
  BY <1>1 DEF Inv, PagesHaveASource
<1>4. ActiveIsOnTheBar'
  BY <1>2 DEF ActiveIsOnTheBar, OnTheBar, OpenTabs
<1> QED BY <1>3, <1>4

LEMMA BarOpen ==
  ASSUME Inv, OpenSystemInfo
  PROVE  (PagesHaveASource /\ ActiveIsOnTheBar)'
<1> DEFINE t == SourceTerminal
<1>1. PICK p \in Pages :
        /\ active' = p
        /\ \/ /\ p \in PagesOf(t) /\ UNCHANGED source
              /\ UNCHANGED <<page, inbox>> \/ RequestSystemInfo(p, t)
           \/ /\ PagesOf(t) = {} /\ source' = [source EXCEPT ![p] = t]
              /\ RequestSystemInfo(p, t)
  BY OpenTypes DEF Inv
<1>2. t \in OpenTabs /\ UNCHANGED status
  BY DEF OpenSystemInfo, OpenTabs, session
<1>3. CASE /\ p \in PagesOf(t) /\ UNCHANGED source
           /\ UNCHANGED <<page, inbox>> \/ RequestSystemInfo(p, t)
  <2>1. \A q \in Pages : Exists(q)' <=> Exists(q)
    BY <1>1, <1>3 DEF RequestSystemInfo, Exists, PagesOf, Inv, TypeOK
  <2>2. active' \in OnTheBar
    BY <1>1, <1>3 DEF PagesOf, OnTheBar
  <2> QED BY <1>2, <1>3, <2>1, <2>2, BarKept
<1>4. CASE /\ PagesOf(t) = {} /\ source' = [source EXCEPT ![p] = t]
           /\ RequestSystemInfo(p, t)
  <2>1. Exists(p)' /\ source'[p] = t
    BY <1>4 DEF RequestSystemInfo, Exists, Inv, TypeOK
  <2>2. \A q \in Pages \ {p} : source'[q] = source[q] /\ (Exists(q)' <=> Exists(q))
    BY <1>4 DEF RequestSystemInfo, Exists, Inv, TypeOK
  <2>3. OpenTabs' = OpenTabs
    BY <1>2 DEF OpenTabs
  <2>4. \A q \in Pages : Exists(q) => source[q] # t
    BY <1>4 DEF PagesOf
  <2>5. PagesHaveASource'
    BY <1>2, <2>1, <2>2, <2>3, <2>4 DEF Inv, PagesHaveASource
  <2>6. ActiveIsOnTheBar'
    BY <1>1, <2>1 DEF ActiveIsOnTheBar, OnTheBar
  <2> QED BY <2>5, <2>6
<1> QED BY <1>1, <1>3, <1>4

LEMMA BarClose ==
  ASSUME Inv, NEW x, CloseTab(x)
  PROVE  (PagesHaveASource /\ ActiveIsOnTheBar)'
<1>1. \A t \in Tabs : t \in OpenTabs' <=> t \in OpenTabs /\ t # x
  BY DEF CloseTab, OpenTabs
<1>2. \A p \in Pages : Exists(p)' <=> Exists(p) /\ p \notin Removed(x)
  BY DEF CloseTab, Exists
<1>3. \A p \in Pages : Exists(p)' => source[p] # x
  BY <1>2, NamesAreDistinct
  DEF Removed, PagesOf, Inv, PagesHaveASource, OpenTabs
<1>4. PagesHaveASource'
  BY <1>1, <1>2, <1>3 DEF Inv, PagesHaveASource, CloseTab, OpenTabs
<1>5. ActiveIsOnTheBar'
  <2>1. CASE active \in Removed(x)
    <3>1. active' = FallBack(x)
      BY <2>1 DEF CloseTab, GoesOffScreen
    <3>2. x \in Pages => x \notin Tabs
      BY NamesAreDistinct
    <3>3. FallBack(x) \in {Welcome} \cup OpenTabs'
      BY <1>1, <3>2 DEF FallBack, OpenTabs
    <3> QED BY <3>1, <3>3 DEF ActiveIsOnTheBar, OnTheBar
  <2>2. CASE active \notin Removed(x)
    <3>1. active' = active
      BY <2>2 DEF CloseTab, GoesOffScreen
    <3>2. active # x
      BY <2>2 DEF Removed
    <3>3. active \in OpenTabs => active \in OpenTabs'
      BY <1>1, <3>2 DEF OpenTabs
    <3>4. active \in {Welcome} \cup OpenTabs \cup {p \in Pages : Exists(p)}
      BY DEF Inv, ActiveIsOnTheBar, OnTheBar
    <3>5. active \in OnTheBar'
      BY <1>2, <2>2, <3>3, <3>4 DEF OnTheBar
    <3> QED BY <3>1, <3>5 DEF ActiveIsOnTheBar
  <2> QED BY <2>1, <2>2
<1> QED BY <1>4, <1>5

-----------------------------------------------------------------------------
LEMMA InitInv == Init => Inv
BY DEF Init, Inv, TypeOK, PagesHaveASource, ActiveIsOnTheBar, OnTheBar, Exists

LEMMA StepInv == Inv /\ [Next]_vars => Inv'
<1> SUFFICES ASSUME Inv, [Next]_vars PROVE Inv'
  OBVIOUS
<1>0. TypeOK /\ ActiveIsOnTheBar
  BY DEF Inv
<1>1. ASSUME NEW t \in Tabs, ConnectSession(t) \/ Reconnect(t)
      PROVE  Inv'
  <2>1. StartSession(t) /\ active' \in {t, active}
    BY <1>1 DEF ConnectSession, Reconnect
  <2>2. TypeOK'
    BY <1>0, <2>1, StartTypes DEF TypeOK, asked
  <2>3. \A u \in Tabs : status'[u] = status[u] \/ status'[u] = "connecting"
    BY <1>0, <2>1 DEF StartSession, TypeOK
  <2>4. status'[t] = "connecting" /\ UNCHANGED <<page, source>>
    BY <1>0, <2>1 DEF StartSession, TypeOK
  <2>5. \A p \in Pages : Exists(p)' <=> Exists(p)
    BY <2>4 DEF Exists
  <2>6. active' = t \/ active' \in OnTheBar
    BY <1>0, <2>1 DEF ActiveIsOnTheBar
  <2>7. (PagesHaveASource /\ ActiveIsOnTheBar)'
    BY <2>3, <2>4, <2>5, <2>6, BarKept
  <2> QED BY <2>2, <2>7 DEF Inv
<1>2. ASSUME NEW x \in OnTheBar, Select(x)
      PROVE  Inv'
  <2>1. TypeOK'
    BY <1>0, <1>2 DEF Select, OnTheBar, OpenTabs, TypeOK, session, asked
  <2>2. (PagesHaveASource /\ ActiveIsOnTheBar)'
    BY <1>2, BarKept DEF Select, Exists, session
  <2> QED BY <2>1, <2>2 DEF Inv
<1>3. CASE OpenSystemInfo
  BY <1>0, <1>3, OpenTypes, BarOpen DEF Inv
<1>4. CASE RefreshSystemInfo
  <2>1. /\ active \in Pages /\ RequestSystemInfo(active, source[active])
        /\ UNCHANGED <<status, held, stage, collecting, answers, source, active>>
    BY <1>4 DEF RefreshSystemInfo, session
  <2>2. Exists(active) /\ source[active] \in Tabs
    BY <2>1, ActivePageExists DEF OpenTabs
  <2>3. TypeOK'
    BY <1>0, <2>1, <2>2, RequestTypes DEF TypeOK
  <2>4. \A p \in Pages : Exists(p)' <=> Exists(p)
    BY <1>0, <2>1, <2>2 DEF RequestSystemInfo, Exists, TypeOK
  <2>5. active' \in OnTheBar
    BY <1>0, <2>1 DEF ActiveIsOnTheBar
  <2>6. (PagesHaveASource /\ ActiveIsOnTheBar)'
    BY <2>1, <2>4, <2>5, BarKept
  <2> QED BY <2>3, <2>6 DEF Inv
<1>5. ASSUME NEW x \in OnTheBar, CloseTab(x)
      PROVE  Inv'
  BY <1>0, <1>5, CloseTypes, BarClose DEF Inv
<1>6. ASSUME NEW t \in Tabs, ShowConnected(t) \/ ShowClosed(t)
      PROVE  Inv'
  <2>1. /\ \E s \in {"connected", "over"} : status' = [status EXCEPT ![t] = s]
        /\ status[t] # "closed"
        /\ UNCHANGED <<held, stage, asked, page, source, active>>
    BY <1>6 DEF ShowConnected, ShowClosed
  <2>2. TypeOK'
    BY <1>0, <2>1 DEF TypeOK, asked
  <2>3. \A u \in Tabs : status[u] # "closed" => status'[u] # "closed"
    BY <1>0, <2>1 DEF TypeOK
  <2>4. (PagesHaveASource /\ ActiveIsOnTheBar)'
    BY <1>0, <2>1, <2>3, BarKept DEF Exists, ActiveIsOnTheBar
  <2> QED BY <2>2, <2>4 DEF Inv
<1>7. ASSUME NEW a \in answers, ApplySystemInfo(a)
      PROVE  Inv'
  <2>1. TypeOK'
    BY <1>0, <1>7 DEF ApplySystemInfo, TypeOK, session
  <2>2. \A p \in Pages : Exists(p)' <=> Exists(p)
    BY <1>7 DEF ApplySystemInfo, Exists
  <2>3. (PagesHaveASource /\ ActiveIsOnTheBar)'
    BY <1>0, <1>7, <2>2, BarKept DEF ApplySystemInfo, ActiveIsOnTheBar, session
  <2> QED BY <2>1, <2>3 DEF Inv
<1>8. ASSUME NEW w \in Workers, Worker(w)
      PROVE  Inv'
  <2>1. TypeOK' /\ UNCHANGED <<status, page, source, active>>
    BY <1>0, <1>8, WorkerTypes
  <2>2. (PagesHaveASource /\ ActiveIsOnTheBar)'
    BY <1>0, <2>1, BarKept DEF Exists, ActiveIsOnTheBar
  <2> QED BY <2>1, <2>2 DEF Inv
<1>9. ASSUME NEW p \in Pages, CollectSystemInfo(p)
      PROVE  Inv'
  <2>1. TypeOK' /\ UNCHANGED <<status, page, source, active>>
    BY <1>0, <1>9 DEF CollectSystemInfo, TypeOK, session
  <2>2. (PagesHaveASource /\ ActiveIsOnTheBar)'
    BY <1>0, <2>1, BarKept DEF Exists, ActiveIsOnTheBar
  <2> QED BY <2>1, <2>2 DEF Inv
<1>10. CASE UNCHANGED vars
  BY <1>10 DEF Inv, TypeOK, PagesHaveASource, ActiveIsOnTheBar, OnTheBar,
     OpenTabs, Exists, vars, session, asked
<1> QED
  BY <1>1, <1>2, <1>3, <1>4, <1>5, <1>6, <1>7, <1>8, <1>9, <1>10
  DEF Next, User, Apply

LEMMA InvHolds == Spec => []Inv
BY InitInv, StepInv, PTL DEF Spec

(* Every variable keeps its type: in particular a worker, a queue or a     *)
(* page is never asked for on behalf of a tab that is not one.             *)
THEOREM TypeCorrect == Spec => []TypeOK
<1>1. Inv => TypeOK
  BY DEF Inv
<1> QED BY <1>1, InvHolds, PTL

(* A page has an open terminal behind it, and no terminal has two pages,   *)
(* whatever is opened, refreshed, closed and replaced.                     *)
THEOREM NoOrphanedPages == Spec => []PagesHaveASource
<1>1. Inv => PagesHaveASource
  BY DEF Inv
<1> QED BY <1>1, InvHolds, PTL

(* What is on screen is on the bar, after every close.                     *)
THEOREM TheScreenIsNeverEmpty == Spec => []ActiveIsOnTheBar
<1>1. Inv => ActiveIsOnTheBar
  BY DEF Inv
<1> QED BY <1>1, InvHolds, PTL
-----------------------------------------------------------------------------
(* The questions of the pages.  A question is in one place at a time: in   *)
(* one queue, once, or being collected, or answered.                       *)
Waits(p) ==
  \/ \E w \in Workers : Queued(w, p)
  \/ p \in collecting
  \/ \E a \in answers : a.page = p

QueuedOnce ==
  \A w, v \in Workers : \A i \in 1..Len(inbox[w]), j \in 1..Len(inbox[v]) :
    inbox[w][i] = inbox[v][j] => w = v /\ i = j

CollectedOnce ==
  \A p \in collecting : /\ \A w \in Workers : ~Queued(w, p)
                        /\ \A a \in answers : a.page # p

AnsweredOnce ==
  \A a \in answers : /\ \A w \in Workers : ~Queued(w, a.page)
                     /\ \A b \in answers : b.page = a.page => b = a

OnlyLoadingWait == \A p \in Pages : Waits(p) => page[p] \in {"loading", "closed"}

AskInv == QueuedOnce /\ CollectedOnce /\ AnsweredOnce /\ OnlyLoadingWait

LEMMA AppendFacts ==
  ASSUME NEW S, NEW q \in Seq(S), NEW e \in S
  PROVE  /\ Len(Append(q, e)) = Len(q) + 1
         /\ \A i \in 1..Len(q) : Append(q, e)[i] = q[i]
         /\ Append(q, e)[Len(q) + 1] = e
OBVIOUS

LEMMA TailFacts ==
  ASSUME NEW S, NEW q \in Seq(S), q # <<>>
  PROVE  /\ Len(q) \in Nat /\ Len(q) >= 1 /\ Head(q) = q[1]
         /\ Len(Tail(q)) = Len(q) - 1
         /\ \A i \in 1..(Len(q) - 1) : Tail(q)[i] = q[i + 1]
OBVIOUS

LEMMA AskInit == Init => AskInv
<1> SUFFICES ASSUME Init PROVE AskInv
  OBVIOUS
<1>1. \A w \in Workers : Len(inbox[w]) = 0
  BY DEF Init
<1>2. \A w \in Workers : \A p : ~Queued(w, p)
  BY <1>1 DEF Queued
<1>3. \A p : ~Waits(p)
  BY <1>2 DEF Waits, Init
<1>4. QueuedOnce
  BY <1>1 DEF QueuedOnce
<1> QED BY <1>2, <1>3, <1>4 DEF AskInv, CollectedOnce, AnsweredOnce, OnlyLoadingWait, Init

(* A page that does not wait may ask.                                      *)
LEMMA AskOne ==
  ASSUME TypeOK, AskInv, NEW p \in Pages, NEW t \in Tabs, ~Waits(p),
         RequestSystemInfo(p, t), UNCHANGED <<collecting, answers>>
  PROVE  AskInv'
<1>1. CASE CanSend(t)
  <2> DEFINE h == held[t]
  <2>1. h \in Workers
    BY <1>1 DEF CanSend, TypeOK
  <2>2. /\ inbox' = [inbox EXCEPT ![h] = Append(@, p)]
        /\ page' = [page EXCEPT ![p] = "loading"]
    BY <1>1 DEF RequestSystemInfo
  <2> HIDE DEF h
  <2>3. \A w \in Workers : inbox[w] \in Seq(Pages) /\ Len(inbox[w]) \in Nat
    BY DEF TypeOK
  <2>4. \A w \in Workers \ {h} : inbox'[w] = inbox[w]
    BY <2>2 DEF TypeOK
  <2>5. inbox'[h] = Append(inbox[h], p)
    BY <2>1, <2>2 DEF TypeOK
  <2>6. ASSUME NEW w \in Workers, NEW i \in 1..Len(inbox'[w])
        PROVE  \/ i \in 1..Len(inbox[w]) /\ inbox'[w][i] = inbox[w][i]
               \/ w = h /\ i = Len(inbox[h]) + 1 /\ inbox'[w][i] = p
    <3>1. CASE w # h
      BY <2>4, <3>1
    <3>2. CASE w = h
      <4>1. /\ Len(inbox'[h]) = Len(inbox[h]) + 1
            /\ \A k \in 1..Len(inbox[h]) : inbox'[h][k] = inbox[h][k]
            /\ inbox'[h][Len(inbox[h]) + 1] = p
        BY <2>1, <2>3, <2>5, AppendFacts
      <4>2. i \in 1..Len(inbox[h]) \/ i = Len(inbox[h]) + 1
        BY <2>1, <2>3, <2>6, <3>2, <4>1
      <4> QED BY <3>2, <4>1, <4>2
    <3> QED BY <3>1, <3>2
  <2>7. \A w \in Workers : \A i \in 1..Len(inbox[w]) : inbox[w][i] # p
    BY DEF Waits, Queued
  <2>8. QueuedOnce'
    <3> SUFFICES ASSUME NEW w \in Workers, NEW v \in Workers,
                        NEW i \in 1..Len(inbox'[w]), NEW j \in 1..Len(inbox'[v]),
                        inbox'[w][i] = inbox'[v][j]
                 PROVE  w = v /\ i = j
      BY DEF QueuedOnce
    <3>1. \/ i \in 1..Len(inbox[w]) /\ inbox'[w][i] = inbox[w][i]
          \/ w = h /\ i = Len(inbox[h]) + 1 /\ inbox'[w][i] = p
      BY <2>6
    <3>2. \/ j \in 1..Len(inbox[v]) /\ inbox'[v][j] = inbox[v][j]
          \/ v = h /\ j = Len(inbox[h]) + 1 /\ inbox'[v][j] = p
      BY <2>6
    <3>3. CASE inbox'[w][i] = p
      BY <2>7, <3>1, <3>2, <3>3
    <3>4. CASE inbox'[w][i] # p
      <4>1. /\ i \in 1..Len(inbox[w]) /\ j \in 1..Len(inbox[v])
            /\ inbox[w][i] = inbox[v][j]
        BY <3>1, <3>2, <3>4
      <4>2. QueuedOnce
        BY DEF AskInv
      <4> QED BY <4>1, <4>2 DEF QueuedOnce
    <3> QED BY <3>3, <3>4
  <2>9. \A w \in Workers : \A q : Queued(w, q)' => Queued(w, q) \/ q = p
    BY <2>6 DEF Queued
  <2>10. CollectedOnce' /\ AnsweredOnce'
    BY <2>9 DEF AskInv, CollectedOnce, AnsweredOnce, Waits
  <2>11. OnlyLoadingWait'
    BY <2>2, <2>9 DEF AskInv, OnlyLoadingWait, Waits, TypeOK
  <2> QED BY <2>8, <2>10, <2>11 DEF AskInv
<1>2. CASE ~CanSend(t)
  <2>1. UNCHANGED inbox /\ page' = [page EXCEPT ![p] = "failed"]
    BY <1>2 DEF RequestSystemInfo
  <2>2. \A q : Waits(q)' <=> Waits(q)
    BY <2>1 DEF Waits, Queued
  <2>3. OnlyLoadingWait'
    BY <2>1, <2>2 DEF AskInv, OnlyLoadingWait, TypeOK
  <2>4. QueuedOnce' /\ CollectedOnce' /\ AnsweredOnce'
    BY <2>1 DEF AskInv, QueuedOnce, CollectedOnce, AnsweredOnce, Queued
  <2> QED BY <2>3, <2>4 DEF AskInv
<1> QED BY <1>1, <1>2

(* Nothing is asked, taken or answered, and what was loading is loading or *)
(* closed.                                                                 *)
LEMMA AskKept ==
  ASSUME AskInv, UNCHANGED asked,
         \A p \in Pages : page[p] \in {"loading", "closed"} => page'[p] \in {"loading", "closed"}
  PROVE  AskInv'
<1>1. \A p : Waits(p)' <=> Waits(p)
  BY DEF Waits, Queued, asked
<1>2. OnlyLoadingWait'
  BY <1>1 DEF AskInv, OnlyLoadingWait
<1>3. QueuedOnce' /\ CollectedOnce' /\ AnsweredOnce'
  BY DEF AskInv, QueuedOnce, CollectedOnce, AnsweredOnce, Queued, asked
<1> QED BY <1>2, <1>3 DEF AskInv

LEMMA AskOpen ==
  ASSUME TypeOK, AskInv, OpenSystemInfo
  PROVE  AskInv'
<1> DEFINE t == SourceTerminal
<1>1. t \in Tabs /\ UNCHANGED <<collecting, answers>>
  BY DEF OpenSystemInfo
<1>2. CASE \E p \in PagesOf(t) : /\ IF Loading(p) THEN UNCHANGED <<page, inbox>>
                                    ELSE RequestSystemInfo(p, t)
                                 /\ active' = p
                                 /\ UNCHANGED source
  <2>1. PICK p \in PagesOf(t) : IF Loading(p) THEN UNCHANGED <<page, inbox>>
                                ELSE RequestSystemInfo(p, t)
    BY <1>2
  <2>2. p \in Pages /\ Exists(p)
    BY DEF PagesOf
  <2>3. CASE Loading(p)
    BY <1>1, <2>1, <2>3, AskKept DEF asked
  <2>4. CASE ~Loading(p)
    <3>1. ~Waits(p)
      BY <2>2, <2>4 DEF AskInv, OnlyLoadingWait, Exists, Loading
    <3> QED BY <1>1, <2>1, <2>2, <2>4, <3>1, AskOne
  <2> QED BY <2>3, <2>4
<1>3. CASE /\ PagesOf(t) = {} /\ \E p \in Pages : page[p] = "unused"
           /\ LET p == CHOOSE q \in Pages : page[q] = "unused"
              IN /\ source' = [source EXCEPT ![p] = t]
                 /\ RequestSystemInfo(p, t)
                 /\ active' = p
  <2> DEFINE fresh == CHOOSE q \in Pages : page[q] = "unused"
  <2>1. fresh \in Pages /\ page[fresh] = "unused"
    BY <1>3
  <2>2. RequestSystemInfo(fresh, t)
    BY <1>3
  <2> HIDE DEF fresh
  <2>3. ~Waits(fresh)
    BY <2>1 DEF AskInv, OnlyLoadingWait
  <2> QED BY <1>1, <2>1, <2>2, <2>3, AskOne
<1> QED BY <1>2, <1>3 DEF OpenSystemInfo

LEMMA AskApply ==
  ASSUME TypeOK, AskInv, NEW a \in answers, ApplySystemInfo(a)
  PROVE  AskInv'
<1>1. /\ answers' = answers \ {a} /\ UNCHANGED <<inbox, collecting>>
      /\ \A p \in Pages : p # a.page => page'[p] = page[p]
  BY DEF ApplySystemInfo
<1>2. QueuedOnce' /\ CollectedOnce' /\ AnsweredOnce'
  BY <1>1 DEF AskInv, QueuedOnce, CollectedOnce, AnsweredOnce, Queued
<1>3. ~Waits(a.page)'
  BY <1>1 DEF AskInv, CollectedOnce, AnsweredOnce, Waits, Queued
<1>4. \A p \in Pages : Waits(p)' => Waits(p)
  BY <1>1 DEF Waits, Queued
<1>5. OnlyLoadingWait'
  BY <1>1, <1>3, <1>4 DEF AskInv, OnlyLoadingWait
<1> QED BY <1>2, <1>5 DEF AskInv

LEMMA AskTake ==
  ASSUME TypeOK, AskInv, NEW w \in Workers, TakeRequest(w)
  PROVE  AskInv'
<1>0. PICK p : p = Head(inbox[w])
  OBVIOUS
<1>1. inbox[w] \in Seq(Pages) /\ inbox[w] # <<>>
  BY DEF TakeRequest, TypeOK
<1>2. /\ Len(inbox[w]) \in Nat /\ Len(inbox[w]) >= 1 /\ p = inbox[w][1]
      /\ Len(Tail(inbox[w])) = Len(inbox[w]) - 1
      /\ \A i \in 1..(Len(inbox[w]) - 1) : Tail(inbox[w])[i] = inbox[w][i + 1]
  BY <1>0, <1>1, TailFacts
<1>3. /\ collecting' = collecting \cup {p} /\ UNCHANGED <<answers, page>>
      /\ inbox'[w] = Tail(inbox[w]) /\ \A v \in Workers \ {w} : inbox'[v] = inbox[v]
  BY <1>0 DEF TakeRequest, TypeOK
<1> DEFINE old(v, i) == IF v = w THEN i + 1 ELSE i
<1>4. ASSUME NEW v \in Workers, NEW i \in 1..Len(inbox'[v])
      PROVE  /\ old(v, i) \in 1..Len(inbox[v]) /\ inbox'[v][i] = inbox[v][old(v, i)]
             /\ v = w => old(v, i) # 1
  <2>1. CASE v = w
    <3>1. i \in 1..(Len(inbox[w]) - 1)
      BY <1>2, <1>3, <1>4, <2>1
    <3>2. i + 1 \in 1..Len(inbox[w]) /\ i + 1 # 1
      BY <1>2, <3>1
    <3>3. inbox'[w][i] = inbox[w][i + 1]
      BY <1>2, <1>3, <3>1
    <3> QED BY <2>1, <3>2, <3>3
  <2>2. CASE v # w
    BY <1>3, <2>2
  <2> QED BY <2>1, <2>2
<1>5. \A v \in Workers : \A i \in 1..Len(inbox'[v]) : i \in Int
  OBVIOUS
<1>6. \A v, u \in Workers : \A i \in 1..Len(inbox'[v]), j \in 1..Len(inbox'[u]) :
        v = u /\ old(v, i) = old(u, j) => i = j
  BY <1>5
<1>7. QueuedOnce'
  <2> SUFFICES ASSUME NEW v \in Workers, NEW u \in Workers,
                      NEW i \in 1..Len(inbox'[v]), NEW j \in 1..Len(inbox'[u]),
                      inbox'[v][i] = inbox'[u][j]
               PROVE  v = u /\ i = j
    BY DEF QueuedOnce
  <2>1. v = u /\ old(v, i) = old(u, j)
    <3>1. PICK k \in 1..Len(inbox[v]) : k = old(v, i) /\ inbox'[v][i] = inbox[v][k]
      BY <1>4
    <3>2. PICK l \in 1..Len(inbox[u]) : l = old(u, j) /\ inbox'[u][j] = inbox[u][l]
      BY <1>4
    <3> HIDE DEF old
    <3>3. inbox[v][k] = inbox[u][l]
      BY <3>1, <3>2
    <3>4. QueuedOnce
      BY DEF AskInv
    <3>5. v = u /\ k = l
      BY <3>3, <3>4 DEF QueuedOnce
    <3> QED BY <3>1, <3>2, <3>5
  <2> QED BY <1>6, <2>1
<1>8. 1 \in 1..Len(inbox[w])
  BY <1>2
<1>9. \A v \in Workers : ~Queued(v, p)'
  <2> SUFFICES ASSUME NEW v \in Workers, NEW i \in 1..Len(inbox'[v]), inbox'[v][i] = p
               PROVE  FALSE
    BY DEF Queued
  <2>1. /\ old(v, i) \in 1..Len(inbox[v]) /\ inbox[v][old(v, i)] = inbox[w][1]
        /\ v = w => old(v, i) # 1
    BY <1>2, <1>4
  <2> HIDE DEF old
  <2> QED BY <1>8, <2>1 DEF AskInv, QueuedOnce
<1>10. \A v \in Workers : \A q : Queued(v, q)' => Queued(v, q)
  <2> HIDE DEF old
  <2> QED BY <1>4 DEF Queued
<1>11. Queued(w, p)
  BY <1>2, <1>8 DEF Queued
<1>12. CollectedOnce'
  BY <1>3, <1>9, <1>10, <1>11 DEF AskInv, CollectedOnce, AnsweredOnce
<1>13. AnsweredOnce'
  BY <1>3, <1>10 DEF AskInv, AnsweredOnce
<1>14. \A q : Waits(q)' => Waits(q)
  BY <1>3, <1>10, <1>11 DEF Waits
<1>15. OnlyLoadingWait'
  BY <1>3, <1>14 DEF AskInv, OnlyLoadingWait
<1> QED BY <1>7, <1>12, <1>13, <1>15 DEF AskInv

LEMMA AskCollect ==
  ASSUME AskInv, NEW p \in Pages, CollectSystemInfo(p)
  PROVE  AskInv'
<1>1. PICK a : /\ a.page = p /\ answers' = answers \cup {a}
               /\ p \in collecting /\ collecting' = collecting \ {p}
               /\ UNCHANGED <<inbox, page>>
  BY DEF CollectSystemInfo
<1>2. QueuedOnce' /\ \A w \in Workers : \A q : Queued(w, q)' <=> Queued(w, q)
  BY <1>1 DEF AskInv, QueuedOnce, Queued
<1>3. CollectedOnce' /\ AnsweredOnce'
  BY <1>1, <1>2 DEF AskInv, CollectedOnce, AnsweredOnce
<1>4. \A q : Waits(q)' => Waits(q)
  BY <1>1, <1>2 DEF Waits
<1>5. OnlyLoadingWait'
  BY <1>1, <1>4 DEF AskInv, OnlyLoadingWait
<1> QED BY <1>2, <1>3, <1>5 DEF AskInv

LEMMA AskStep == Inv /\ AskInv /\ [Next]_vars => AskInv'
<1> SUFFICES ASSUME Inv, AskInv, [Next]_vars PROVE AskInv'
  OBVIOUS
<1>0. TypeOK
  BY DEF Inv
<1>1. ASSUME NEW t \in Tabs, ConnectSession(t) \/ Reconnect(t) \/ ShowConnected(t) \/ ShowClosed(t)
      PROVE  AskInv'
  <2>1. UNCHANGED <<asked, page>>
    BY <1>1 DEF ConnectSession, Reconnect, StartSession, ShowConnected, ShowClosed
  <2> QED BY <2>1, AskKept
<1>2. ASSUME NEW x, Select(x) \/ CloseTab(x)
      PROVE  AskInv'
  <2>1. /\ UNCHANGED asked
        /\ \A p \in Pages : page'[p] = page[p] \/ page'[p] = "closed"
    BY <1>2 DEF Select, CloseTab
  <2> QED BY <2>1, AskKept
<1>3. CASE OpenSystemInfo
  BY <1>0, <1>3, AskOpen
<1>4. CASE RefreshSystemInfo
  <2>1. /\ active \in Pages /\ ~Loading(active) /\ RequestSystemInfo(active, source[active])
        /\ UNCHANGED <<collecting, answers>>
    BY <1>4 DEF RefreshSystemInfo
  <2>2. Exists(active) /\ source[active] \in Tabs
    BY <2>1, ActivePageExists DEF OpenTabs
  <2>3. ~Waits(active)
    BY <2>1, <2>2 DEF AskInv, OnlyLoadingWait, Exists, Loading
  <2> QED BY <1>0, <2>1, <2>2, <2>3, AskOne
<1>5. ASSUME NEW a \in answers, ApplySystemInfo(a)
      PROVE  AskInv'
  BY <1>0, <1>5, AskApply
<1>6. ASSUME NEW w \in Workers, Worker(w)
      PROVE  AskInv'
  <2>1. CASE TakeRequest(w)
    BY <1>0, <2>1, AskTake
  <2>2. CASE ConnectEnds(w) \/ LoopEnds(w) \/ Return(w)
    BY <2>2, AskKept DEF ConnectEnds, LoopEnds, Return
  <2> QED BY <1>6, <2>1, <2>2 DEF Worker
<1>7. ASSUME NEW p \in Pages, CollectSystemInfo(p)
      PROVE  AskInv'
  BY <1>7, AskCollect
<1>8. CASE UNCHANGED vars
  BY <1>8, AskKept DEF vars
<1> QED
  BY <1>1, <1>2, <1>3, <1>4, <1>5, <1>6, <1>7, <1>8 DEF Next, User, Apply

LEMMA OnePlace ==
  ASSUME TypeOK, AskInv, NEW p \in Pages
  PROVE  /\ Places(p) # {} => Waits(p)
         /\ \A x, y \in Places(p) : x = y
<1> DEFINE queued    == {x \in Workers \X (1..Cardinality(Pages)) :
                           x[2] <= Len(inbox[x[1]]) /\ inbox[x[1]][x[2]] = p}
           collected == {<<"collecting", q>> : q \in collecting \cap {p}}
           answered  == {<<"answer", a>> : a \in {b \in answers : b.page = p}}
<1>1. Places(p) = queued \cup collected \cup answered
  BY DEF Places
<1>2. ASSUME NEW x \in queued
      PROVE  /\ x = <<x[1], x[2]>> /\ x[1] \in Workers /\ x[2] \in 1..Len(inbox[x[1]])
             /\ inbox[x[1]][x[2]] = p /\ Queued(x[1], p)
  <2>1. x = <<x[1], x[2]>> /\ x[1] \in Workers /\ x[2] \in 1..Cardinality(Pages)
    BY <1>2
  <2>2. x[2] <= Len(inbox[x[1]]) /\ inbox[x[1]][x[2]] = p
    BY <1>2
  <2>3. Len(inbox[x[1]]) \in Nat
    BY <2>1 DEF TypeOK
  <2>4. x[2] \in 1..Len(inbox[x[1]])
    BY <2>1, <2>2, <2>3
  <2> QED BY <2>1, <2>2, <2>4 DEF Queued
<1>3. \A x \in collected : x = <<"collecting", p>> /\ p \in collecting
  OBVIOUS
<1>4. \A x \in answered : \E a \in answers : a.page = p /\ x = <<"answer", a>>
  OBVIOUS
<1> HIDE DEF queued, collected, answered
<1>5. \A x, y \in queued : x = y
  BY <1>2 DEF AskInv, QueuedOnce
<1>6. \A x, y \in answered : x = y
  BY <1>4 DEF AskInv, AnsweredOnce
<1>7. queued # {} => collected = {} /\ answered = {}
  BY <1>2, <1>3, <1>4 DEF AskInv, CollectedOnce, AnsweredOnce
<1>8. collected # {} => answered = {}
  BY <1>3, <1>4 DEF AskInv, CollectedOnce
<1>9. Places(p) # {} => Waits(p)
  BY <1>1, <1>2, <1>3, <1>4 DEF Waits
<1>10. \A x, y \in Places(p) : x = y
  BY <1>1, <1>3, <1>5, <1>6, <1>7, <1>8
<1> QED BY <1>9, <1>10

(* A page has at most one question on its way, and only while it says that *)
(* it is loading, for any number of pages, tabs and reconnects: no answer  *)
(* falls on what a page shows.                                             *)
THEOREM OneQuestionAtATime == Spec => []OneQuestionPerPage
<1>1. TypeOK /\ AskInv => OneQuestionPerPage
  <2> SUFFICES ASSUME TypeOK, AskInv, NEW p \in Pages
               PROVE  /\ Cardinality(Places(p)) <= 1
                      /\ Places(p) # {} => page[p] \in {"loading", "closed"}
    BY DEF OneQuestionPerPage
  <2>1. Cardinality(Places(p)) <= 1
    <3>1. CASE Places(p) = {}
      BY <3>1, FS_EmptySet
    <3>2. CASE Places(p) # {}
      <4>1. PICK x : x \in Places(p)
        BY <3>2
      <4>2. Places(p) = {x}
        BY <4>1, OnePlace
      <4> QED BY <4>2, FS_Singleton
    <3> QED BY <3>1, <3>2
  <2>2. Places(p) # {} => page[p] \in {"loading", "closed"}
    BY OnePlace DEF AskInv, OnlyLoadingWait
  <2> QED BY <2>1, <2>2
<1>2. Inv => TypeOK
  BY DEF Inv
<1> QED BY <1>1, <1>2, InitInv, StepInv, AskInit, AskStep, PTL DEF Spec
-----------------------------------------------------------------------------
(* The process popup.                                                      *)

MonitorTypeOK ==
  /\ popup \in BOOLEAN
  /\ told \in [popup : BOOLEAN, active : Tabs \cup Pages \cup {Welcome}]
  /\ orders \in [Workers -> Seq(BOOLEAN)]
  /\ monitor \in [Workers -> {"off", "on", "lost"}]
  /\ reports \subseteq Workers
  /\ list \in Tabs \cup {None}

(* No two tabs hold the same worker, and a worker that was never started   *)
(* is held by none.                                                        *)
HeldOnce ==
  /\ \A t \in Tabs : held[t] # None => stage[held[t]] # "unused"
  /\ \A t, u \in Tabs : held[t] # None /\ held[t] = held[u] => t = u

(* A worker outside its loop runs no `ps`, and its channel is empty before *)
(* it starts and after it ends.                                            *)
IdleIsSilent ==
  \A w \in Workers :
    /\ stage[w] \in {"unused", "connecting", "ended"} => monitor[w] = "off"
    /\ stage[w] \in {"unused", "ended"} => orders[w] = <<>>

(* What becomes of the monitor of a worker once it has read all it was     *)
(* told: only the last order counts.  It says "on" for no tab but the one  *)
(* that the callbacks last saw on screen, under an open popup.             *)
LastWord(w) ==
  IF orders[w] = <<>> THEN monitor[w] = "on" ELSE orders[w][Len(orders[w])]

ToldSource ==
  IF told.active \in Pages THEN source[told.active] ELSE told.active

OrdersFollow ==
  \A t \in Tabs :
    held[t] # None /\ LastWord(held[t]) => told.popup /\ ToldSource = t

MonitorInv ==
  Inv /\ MonitorTypeOK /\ HeldOnce /\ IdleIsSilent /\ OrdersFollow

LEMMA NoOrder == <<>> \in Seq(BOOLEAN)
OBVIOUS

LEMMA MonitorInitInv == Init /\ MonitorInit => MonitorInv
<1> SUFFICES ASSUME Init, MonitorInit PROVE MonitorInv
  OBVIOUS
<1>1. MonitorTypeOK
  BY NoOrder DEF MonitorInit, MonitorTypeOK
<1>2. HeldOnce /\ IdleIsSilent /\ OrdersFollow
  BY DEF Init, MonitorInit, HeldOnce, IdleIsSilent, OrdersFollow
<1> QED BY <1>1, <1>2, InitInv DEF MonitorInv

(* To the pages, a step of the popup is one of theirs.                     *)
LEMMA MonitorStepIsPageStep == [MonitorNext]_allVars => [Next]_vars
<1> SUFFICES ASSUME MonitorNext, ~UNCHANGED vars PROVE Next
  BY DEF allVars
<1>1. CASE Click
  BY <1>1 DEF Click, Next, User
<1>2. ASSUME NEW t \in Tabs, PressEnter(t) \/ ConnectedShown(t) \/ ClosedShown(t)
      PROVE  Next
  BY <1>2 DEF PressEnter, ConnectedShown, ClosedShown, Next, User, Apply
<1>3. ASSUME NEW w \in Workers, ConnectOver(w) \/ WorkerReturns(w) \/ LoopEnds(w)
      PROVE  Next
  BY <1>3 DEF ConnectOver, WorkerReturns, Next, Worker
<1> QED
  BY <1>1, <1>2, <1>3 DEF MonitorNext, OpenPopup, ClosePopup, CallbacksRun, Tick,
     ShowProcesses, TakeOrder, ReadProcesses, MonitorEnds

(* What the steps of the pages that the popup has do to workers and tabs.  *)
LEMMA FreshWorker ==
  ASSUME TypeOK, NEW t \in Tabs, StartSession(t)
  PROVE  /\ UNCHANGED source
         /\ \E w \in Workers :
              /\ stage[w] = "unused"
              /\ held' = [held EXCEPT ![t] = w]
              /\ stage' = [stage EXCEPT ![w] = "connecting"]
<1> DEFINE w == CHOOSE v \in Workers : stage[v] = "unused"
<1>1. w \in Workers /\ stage[w] = "unused"
  BY DEF StartSession
<1>2. /\ held' = [held EXCEPT ![t] = w]
      /\ stage' = [stage EXCEPT ![w] = "connecting"]
      /\ UNCHANGED source
  BY DEF StartSession
<1> HIDE DEF w
<1> QED BY <1>1, <1>2

(* A new session leaves no `ps` running: its worker was told nothing.      *)
LEMMA MonitorStart ==
  ASSUME MonitorInv, NEW t \in Tabs, StartSession(t), UNCHANGED monitorVars
  PROVE  HeldOnce' /\ IdleIsSilent' /\ OrdersFollow'
<1>1. TypeOK /\ HeldOnce /\ IdleIsSilent /\ OrdersFollow
  BY DEF MonitorInv, Inv
<1>2. UNCHANGED <<told, orders, monitor, source>>
  BY <1>1, FreshWorker DEF monitorVars, monitoring
<1>3. PICK w \in Workers : /\ stage[w] = "unused"
                           /\ held' = [held EXCEPT ![t] = w]
                           /\ stage' = [stage EXCEPT ![w] = "connecting"]
  BY <1>1, FreshWorker
<1>4. w # None
  BY NamesAreDistinct
<1>5. \A u \in Tabs : held[u] # w
  BY <1>1, <1>3, <1>4 DEF HeldOnce
<1>6. /\ held'[t] = w /\ \A u \in Tabs \ {t} : held'[u] = held[u]
      /\ stage'[w] = "connecting" /\ \A v \in Workers \ {w} : stage'[v] = stage[v]
  BY <1>1, <1>3 DEF TypeOK
<1>7. \A u \in Tabs : held[u] # None => held[u] \in Workers
  BY <1>1 DEF TypeOK
<1>8. HeldOnce'
  BY <1>1, <1>5, <1>6, <1>7 DEF HeldOnce
<1>9. orders[w] = <<>> /\ monitor[w] = "off"
  BY <1>1, <1>3 DEF IdleIsSilent
<1>10. IdleIsSilent'
  BY <1>1, <1>2, <1>6, <1>9 DEF IdleIsSilent
<1>11. OrdersFollow'
  BY <1>1, <1>2, <1>6, <1>9 DEF OrdersFollow, LastWord, ToldSource
<1> QED BY <1>8, <1>10, <1>11

(* A step that tells no worker anything, starts none and ends none; it may *)
(* close a tab.                                                            *)
LEMMA MonitorKept ==
  ASSUME MonitorInv, UNCHANGED <<told, orders, monitor, source>>,
         \A t \in Tabs : held'[t] \in {held[t], None},
         \A w \in Workers :
           stage'[w] = stage[w] \/ stage'[w] \in {"running", "leaving"}
  PROVE  HeldOnce' /\ IdleIsSilent' /\ OrdersFollow'
<1>1. TypeOK /\ HeldOnce /\ IdleIsSilent /\ OrdersFollow
  BY DEF MonitorInv, Inv
<1>2. \A t \in Tabs : held[t] # None => held[t] \in Workers
  BY <1>1 DEF TypeOK
<1>3. HeldOnce'
  BY <1>1, <1>2 DEF HeldOnce
<1>4. IdleIsSilent'
  BY <1>1 DEF IdleIsSilent
<1>5. OrdersFollow'
  BY <1>1 DEF OrdersFollow, LastWord, ToldSource
<1> QED BY <1>3, <1>4, <1>5

(* The callbacks tell every worker that can still be told, and what they   *)
(* say last is about the tab on screen.                                    *)
LEMMA LastOfConcat ==
  ASSUME NEW q \in Seq(BOOLEAN), NEW e \in BOOLEAN
  PROVE  /\ q \o <<e>> # <<>>
         /\ (q \o <<e>>)[Len(q \o <<e>>)] = e
         /\ q \o <<e>> \in Seq(BOOLEAN)
         /\ q \o <<>> = q
OBVIOUS

LEMMA MonitorCallbacks ==
  ASSUME MonitorInv, CallbacksRun
  PROVE  /\ MonitorTypeOK'
         /\ HeldOnce' /\ IdleIsSilent' /\ OrdersFollow'
<1>1. TypeOK /\ MonitorTypeOK /\ HeldOnce /\ IdleIsSilent /\ OrdersFollow
  BY DEF MonitorInv, Inv
<1>2. /\ told' = [popup |-> popup, active |-> active]
      /\ UNCHANGED <<status, held, stage, source, active, popup, monitor, reports>>
  BY DEF CallbacksRun, NowTold, vars, session
<1>3. list' \in Tabs \cup {None}
  BY <1>1 DEF CallbacksRun, RefreshSidebar, MonitorTypeOK
<1>4. \A w \in Workers :
        /\ Wanted(w) \in BOOLEAN
        /\ OrdersFor(w) = IF told.popup # popup THEN <<popup /\ Wanted(w)>>
                          ELSE IF popup THEN <<Wanted(w)>> ELSE <<>>
  BY DEF Wanted, OrdersFor
<1>5. /\ orders' = [w \in Workers |->
                      IF stage[w] # "ended" /\ \E t \in Tabs : held[t] = w
                      THEN orders[w] \o OrdersFor(w) ELSE orders[w]]
      /\ \A w \in Workers : orders[w] \in Seq(BOOLEAN)
      /\ popup \in BOOLEAN
  BY <1>1 DEF CallbacksRun, MonitorTypeOK
<1>6. MonitorTypeOK'
  <2>1. \A w \in Workers : orders[w] \o OrdersFor(w) \in Seq(BOOLEAN)
    <3> SUFFICES ASSUME NEW w \in Workers
                 PROVE  orders[w] \o OrdersFor(w) \in Seq(BOOLEAN)
      OBVIOUS
    <3>1. OrdersFor(w) = <<>> \/ \E e \in BOOLEAN : OrdersFor(w) = <<e>>
      BY <1>4, <1>5
    <3>2. orders[w] \in Seq(BOOLEAN)
      BY <1>5
    <3>3. CASE OrdersFor(w) = <<>>
      BY <3>2, <3>3, LastOfConcat
    <3>4. ASSUME NEW e \in BOOLEAN, OrdersFor(w) = <<e>>
          PROVE  orders[w] \o OrdersFor(w) \in Seq(BOOLEAN)
      BY <3>2, <3>4, LastOfConcat
    <3> QED BY <3>1, <3>3, <3>4
  <2>2. orders' \in [Workers -> Seq(BOOLEAN)]
    BY <1>5, <2>1
  <2>3. told' \in [popup : BOOLEAN, active : Tabs \cup Pages \cup {Welcome}]
    BY <1>1, <1>2, <1>5 DEF TypeOK
  <2> QED BY <1>1, <1>2, <1>3, <2>2, <2>3 DEF MonitorTypeOK
<1>7. HeldOnce'
  BY <1>1, <1>2 DEF HeldOnce
<1>8. IdleIsSilent'
  <2>1. \A w \in Workers : stage[w] \in {"unused", "ended"} => orders'[w] = orders[w]
    <3> SUFFICES ASSUME NEW w \in Workers, stage[w] \in {"unused", "ended"}
                 PROVE  orders'[w] = orders[w]
      OBVIOUS
    <3>1. w # None
      BY NamesAreDistinct
    <3>2. stage[w] = "ended" \/ ~\E t \in Tabs : held[t] = w
      BY <1>1, <3>1 DEF HeldOnce
    <3> QED BY <1>5, <3>2
  <2> QED BY <1>1, <1>2, <2>1 DEF IdleIsSilent
<1>9. OrdersFollow'
  <2> SUFFICES ASSUME NEW t \in Tabs, held[t] # None, LastWord(held[t])'
               PROVE  popup /\ SourceTerminal = t
    BY <1>2 DEF OrdersFollow, ToldSource, SourceTerminal
  <2> DEFINE w == held[t]
  <2>1. w \in Workers
    BY <1>1 DEF TypeOK
  <2>2. stage[w] # "ended"
    <3>1. CASE stage[w] = "ended"
      <4>1. orders'[w] = <<>> /\ monitor'[w] = "off"
        BY <1>1, <1>2, <1>5, <2>1, <3>1 DEF IdleIsSilent
      <4> QED BY <1>2, <4>1 DEF LastWord
    <3> QED BY <3>1
  <2>3. orders'[w] = orders[w] \o OrdersFor(w)
    BY <1>5, <2>1, <2>2
  <2>4. LastWord(w)' = IF orders'[w] = <<>> THEN monitor'[w] = "on"
                       ELSE orders'[w][Len(orders'[w])]
    BY <1>2 DEF LastWord
  <2>5. CASE told.popup = popup /\ ~popup
    <3>1. OrdersFor(w) = <<>> /\ orders[w] \in Seq(BOOLEAN)
      BY <1>4, <1>5, <2>1, <2>5
    <3>2. orders'[w] = orders[w]
      BY <2>3, <3>1, LastOfConcat
    <3>3. LastWord(w)
      BY <1>2, <2>4, <3>2 DEF LastWord
    <3> QED BY <1>1, <2>5, <3>3 DEF OrdersFollow
  <2>6. CASE told.popup # popup \/ popup
    <3> DEFINE e == popup /\ Wanted(w)
    <3>1. OrdersFor(w) = <<e>> /\ e \in BOOLEAN
      BY <1>4, <1>5, <2>1, <2>6
    <3>2. LastWord(w)' = e
      <4> HIDE DEF e
      <4>1. orders[w] \in Seq(BOOLEAN)
        BY <1>5, <2>1
      <4>2. /\ orders[w] \o <<e>> # <<>>
            /\ (orders[w] \o <<e>>)[Len(orders[w] \o <<e>>)] = e
        BY <3>1, <4>1, LastOfConcat
      <4>3. orders'[w] # <<>> /\ orders'[w][Len(orders'[w])] = e
        BY <2>3, <3>1, <4>2, Zenon
      <4> QED BY <2>4, <4>3, Zenon
    <3>3. Wanted(w) /\ popup
      BY <1>2, <3>2
    <3> QED BY <1>1, <3>3 DEF Wanted, HeldOnce
  <2> QED BY <2>5, <2>6
<1> QED BY <1>6, <1>7, <1>8, <1>9

(* A worker that reads an order does what its last word says, or its       *)
(* channel fails.                                                          *)
LEMMA EmptyLen ==
  ASSUME NEW S, NEW q \in Seq(S)
  PROVE  q = <<>> <=> Len(q) = 0
OBVIOUS

LEMMA LastOfTail ==
  ASSUME NEW q \in Seq(BOOLEAN), q # <<>>
  PROVE  /\ Tail(q) \in Seq(BOOLEAN) /\ Head(q) \in BOOLEAN
         /\ Tail(q) = <<>> => q[Len(q)] = Head(q)
         /\ Tail(q) # <<>> => Tail(q)[Len(Tail(q))] = q[Len(q)]
<1>1. /\ Len(q) \in Nat /\ Len(q) >= 1 /\ Head(q) = q[1]
      /\ Len(Tail(q)) = Len(q) - 1
      /\ \A i \in 1..(Len(q) - 1) : Tail(q)[i] = q[i + 1]
  BY TailFacts
<1>2. Tail(q) \in Seq(BOOLEAN) /\ Head(q) \in BOOLEAN
  BY QueueTypes
<1>3. Tail(q) = <<>> <=> Len(Tail(q)) = 0
  BY <1>2, EmptyLen
<1>4. CASE Tail(q) # <<>>
  <2>1. Len(q) - 1 \in 1..(Len(q) - 1)
    BY <1>1, <1>3, <1>4
  <2> QED BY <1>1, <1>2, <1>4, <2>1
<1> QED BY <1>1, <1>2, <1>3, <1>4

LEMMA MonitorTakes ==
  ASSUME MonitorInv, NEW w \in Workers, TakeOrder(w)
  PROVE  /\ MonitorTypeOK'
         /\ HeldOnce' /\ IdleIsSilent' /\ OrdersFollow'
<1>1. TypeOK /\ MonitorTypeOK /\ HeldOnce /\ IdleIsSilent /\ OrdersFollow
  BY DEF MonitorInv, Inv
<1>2. UNCHANGED <<held, stage, source, popup, told, reports, list>>
  BY DEF TakeOrder, vars, session
<1>3. /\ stage[w] = "running" /\ orders[w] \in Seq(BOOLEAN) /\ orders[w] # <<>>
      /\ orders' = [orders EXCEPT ![w] = Tail(orders[w])]
  BY <1>1 DEF TakeOrder, MonitorTypeOK
<1>4. PICK m \in {"off", "on", "lost"} :
        /\ monitor' = [monitor EXCEPT ![w] = m]
        /\ m = "on" => Head(orders[w])
  BY DEF TakeOrder
<1>5. /\ orders'[w] = Tail(orders[w]) /\ monitor'[w] = m
      /\ \A v \in Workers \ {w} : orders'[v] = orders[v] /\ monitor'[v] = monitor[v]
  BY <1>1, <1>3, <1>4 DEF MonitorTypeOK
<1>6. MonitorTypeOK'
  BY <1>1, <1>2, <1>3, <1>4, LastOfTail DEF MonitorTypeOK
<1>7. HeldOnce'
  BY <1>1, <1>2 DEF HeldOnce
<1>8. IdleIsSilent'
  BY <1>1, <1>2, <1>3, <1>5 DEF IdleIsSilent
<1>9. LastWord(w)' => LastWord(w)
  <2>1. CASE Tail(orders[w]) = <<>>
    BY <1>3, <1>4, <1>5, <2>1, LastOfTail DEF LastWord
  <2>2. CASE Tail(orders[w]) # <<>>
    BY <1>3, <1>5, <2>2, LastOfTail DEF LastWord
  <2> QED BY <2>1, <2>2
<1>10. \A v \in Workers : LastWord(v)' => LastWord(v)
  BY <1>5, <1>9 DEF LastWord
<1>11. OrdersFollow'
  <2> SUFFICES ASSUME NEW t \in Tabs, held[t] # None, LastWord(held[t])'
               PROVE  told.popup /\ ToldSource = t
    BY <1>2 DEF OrdersFollow, ToldSource
  <2>1. held[t] \in Workers
    BY <1>1 DEF TypeOK
  <2>2. LastWord(held[t])
    BY <1>2, <1>10, <2>1 DEF LastWord
  <2> QED BY <1>1, <2>2 DEF OrdersFollow
<1> QED BY <1>6, <1>7, <1>8, <1>11

(* Nothing runs on when a channel, a connect or a worker ends.             *)
LEMMA MonitorStops ==
  ASSUME MonitorInv, NEW w \in Workers,
         MonitorEnds(w) \/ WorkerReturns(w) \/ ConnectOver(w)
  PROVE  /\ MonitorTypeOK'
         /\ HeldOnce' /\ IdleIsSilent' /\ OrdersFollow'
<1>1. TypeOK /\ MonitorTypeOK /\ HeldOnce /\ IdleIsSilent /\ OrdersFollow
  BY DEF MonitorInv, Inv
<1>2. UNCHANGED <<held, source, popup, told, reports, list>>
  BY DEF MonitorEnds, WorkerReturns, ConnectOver, ConnectEnds, Return, vars, session
<1>3. /\ stage[w] \notin {"unused", "ended"}
      /\ \E s \in {"running", "ended", stage[w]} : stage' = [stage EXCEPT ![w] = s]
  <2>1. CASE MonitorEnds(w)
    BY <1>1, <2>1 DEF MonitorEnds, vars, session, TypeOK
  <2>2. CASE WorkerReturns(w) \/ ConnectOver(w)
    BY <2>2 DEF WorkerReturns, ConnectOver, ConnectEnds, Return
  <2> QED BY <2>1, <2>2
<1>4. /\ orders' = [orders EXCEPT ![w] = orders'[w]]
      /\ monitor' = [monitor EXCEPT ![w] = monitor'[w]]
      /\ orders'[w] \in {<<>>, orders[w]}
      /\ monitor'[w] \in {"off", "lost"}
      /\ stage'[w] = "ended" => orders'[w] = <<>> /\ monitor'[w] = "off"
      /\ stage'[w] \notin {"unused", "connecting"}
  <2>1. CASE MonitorEnds(w)
    BY <1>1, <2>1 DEF MonitorEnds, MonitorTypeOK, vars, session
  <2>2. CASE WorkerReturns(w)
    BY <1>1, <2>2 DEF WorkerReturns, Return, MonitorTypeOK, TypeOK
  <2>3. CASE ConnectOver(w)
    <3>1. monitor[w] = "off" /\ UNCHANGED monitor
      BY <1>1, <2>3 DEF ConnectOver, ConnectEnds, IdleIsSilent
    <3>2. stage'[w] \in {"running", "ended"}
      BY <1>1, <2>3 DEF ConnectOver, ConnectEnds, TypeOK
    <3>3. orders' = [orders EXCEPT ![w] = IF stage'[w] = "ended" THEN <<>> ELSE orders[w]]
      BY <2>3 DEF ConnectOver
    <3> QED BY <1>1, <3>1, <3>2, <3>3 DEF MonitorTypeOK
  <2> QED BY <2>1, <2>2, <2>3
<1>5. \A v \in Workers \ {w} :
        orders'[v] = orders[v] /\ monitor'[v] = monitor[v] /\ stage'[v] = stage[v]
  BY <1>1, <1>3, <1>4 DEF MonitorTypeOK, TypeOK
<1>6. MonitorTypeOK'
  <2>1. orders' \in [Workers -> Seq(BOOLEAN)]
    <3> DEFINE Queues == Seq(BOOLEAN)
    <3>1. orders \in [Workers -> Queues] /\ <<>> \in Queues
      BY <1>1, NoOrder DEF MonitorTypeOK
    <3> HIDE DEF Queues
    <3>2. orders' \in [Workers -> Queues]
      BY <1>4, <3>1
    <3> QED BY <3>2 DEF Queues
  <2>2. monitor' \in [Workers -> {"off", "on", "lost"}]
    BY <1>1, <1>4 DEF MonitorTypeOK
  <2> QED BY <1>1, <1>2, <2>1, <2>2 DEF MonitorTypeOK
<1>7. HeldOnce'
  BY <1>1, <1>2, <1>3, <1>4, <1>5 DEF HeldOnce, TypeOK
<1>8. IdleIsSilent'
  BY <1>1, <1>4, <1>5 DEF IdleIsSilent
<1>9. \A v \in Workers : LastWord(v)' => LastWord(v)
  BY <1>4, <1>5 DEF LastWord
<1>10. OrdersFollow'
  <2> SUFFICES ASSUME NEW t \in Tabs, held[t] # None, LastWord(held[t])'
               PROVE  told.popup /\ ToldSource = t
    BY <1>2 DEF OrdersFollow, ToldSource
  <2>1. held[t] \in Workers
    BY <1>1 DEF TypeOK
  <2>2. LastWord(held[t])
    BY <1>2, <1>9, <2>1 DEF LastWord
  <2> QED BY <1>1, <2>2 DEF OrdersFollow
<1> QED BY <1>6, <1>7, <1>8, <1>10

LEMMA MonitorStep == MonitorInv /\ [MonitorNext]_allVars => MonitorInv'
<1> SUFFICES ASSUME MonitorInv, [MonitorNext]_allVars PROVE MonitorInv'
  OBVIOUS
<1> DEFINE Rest == HeldOnce' /\ IdleIsSilent' /\ OrdersFollow'
<1>1. TypeOK /\ MonitorTypeOK
  BY DEF MonitorInv, Inv
<1>2. Inv'
  BY MonitorStepIsPageStep, StepInv DEF MonitorInv
<1>3. UNCHANGED <<popup, told, orders, monitor, reports>> /\ list' \in Tabs \cup {None}
      => MonitorTypeOK'
  BY <1>1 DEF MonitorTypeOK
<1>4. UNCHANGED monitorVars => MonitorTypeOK'
  BY <1>1 DEF MonitorTypeOK, monitorVars, monitoring
<1>5. CASE OpenPopup \/ ClosePopup
  <2>1. MonitorTypeOK'
    BY <1>1, <1>5 DEF OpenPopup, ClosePopup, MonitorTypeOK, monitoring
  <2>2. Rest
    BY <1>5, MonitorKept DEF OpenPopup, ClosePopup, monitoring, vars, session
  <2> QED BY <1>2, <2>1, <2>2 DEF MonitorInv
<1>6. CASE CallbacksRun
  BY <1>2, <1>6, MonitorCallbacks DEF MonitorInv
<1>7. CASE Click
  <2>1. UNCHANGED monitorVars
    BY <1>7 DEF Click
  <2>2. Rest
    <3>1. ASSUME NEW t \in Tabs, ConnectSession(t)
          PROVE  Rest
      BY <2>1, <3>1, MonitorStart DEF ConnectSession
    <3>2. ASSUME NEW x, Select(x) \/ CloseTab(x)
          PROVE  Rest
      <4>1. UNCHANGED <<stage, source>>
        BY <3>2 DEF Select, CloseTab, session
      <4>2. \A t \in Tabs : held'[t] \in {held[t], None}
        BY <3>2 DEF Select, CloseTab, session
      <4> QED BY <2>1, <4>1, <4>2, MonitorKept DEF monitorVars, monitoring
    <3> QED BY <1>7, <3>1, <3>2 DEF Click
  <2> QED BY <1>2, <1>4, <2>1, <2>2 DEF MonitorInv
<1>8. ASSUME NEW t \in Tabs, PressEnter(t) PROVE MonitorInv'
  BY <1>2, <1>4, <1>8, MonitorStart DEF PressEnter, Reconnect, MonitorInv
<1>9. ASSUME NEW t \in Tabs, ConnectedShown(t) \/ ClosedShown(t) PROVE MonitorInv'
  <2>1. UNCHANGED <<held, stage, source, popup, told, orders, monitor, reports>>
    BY <1>9 DEF ConnectedShown, ClosedShown, ShowConnected, ShowClosed,
       monitorVars, monitoring
  <2>2. list' \in Tabs \cup {None}
    BY <1>1, <1>9 DEF ConnectedShown, ClosedShown, RefreshSidebar, MonitorTypeOK,
       monitorVars
  <2>3. Rest
    BY <2>1, MonitorKept
  <2> QED BY <1>2, <1>3, <2>1, <2>2, <2>3 DEF MonitorInv
<1>10. ASSUME NEW w \in Workers, ShowProcesses(w) \/ ReadProcesses(w)
       PROVE  MonitorInv'
  <2>1. UNCHANGED <<held, stage, source, popup, told, orders, monitor>>
    BY <1>10 DEF ShowProcesses, ReadProcesses, vars, session
  <2>2. reports' \subseteq Workers /\ list' \in Tabs \cup {None}
    BY <1>1, <1>10 DEF ShowProcesses, ReadProcesses, Wanted, MonitorTypeOK
  <2>3. MonitorTypeOK'
    BY <1>1, <2>1, <2>2 DEF MonitorTypeOK
  <2>4. Rest
    BY <2>1, MonitorKept
  <2> QED BY <1>2, <2>3, <2>4 DEF MonitorInv
<1>11. CASE Tick
  <2>1. UNCHANGED <<held, stage, source, popup, told, orders, monitor, reports>>
    BY <1>11 DEF Tick, vars, session, monitoring
  <2>2. list' \in Tabs \cup {None}
    BY <1>1, <1>11 DEF Tick, RefreshSidebar, MonitorTypeOK
  <2>3. Rest
    BY <2>1, MonitorKept
  <2> QED BY <1>2, <1>3, <2>1, <2>2, <2>3 DEF MonitorInv
<1>12. ASSUME NEW w \in Workers, TakeOrder(w) PROVE MonitorInv'
  BY <1>2, <1>12, MonitorTakes DEF MonitorInv
<1>13. ASSUME NEW w \in Workers, MonitorEnds(w) \/ WorkerReturns(w) \/ ConnectOver(w)
       PROVE  MonitorInv'
  BY <1>2, <1>13, MonitorStops DEF MonitorInv
<1>14. ASSUME NEW w \in Workers, LoopEnds(w), UNCHANGED monitorVars
       PROVE  MonitorInv'
  <2>1. \A v \in Workers : stage'[v] = stage[v] \/ stage'[v] = "leaving"
    BY <1>1, <1>14 DEF LoopEnds, TypeOK
  <2>2. Rest
    BY <1>14, <2>1, MonitorKept DEF LoopEnds, monitorVars, monitoring
  <2> QED BY <1>2, <1>4, <1>14, <2>2 DEF MonitorInv
<1>15. CASE UNCHANGED allVars
  <2>1. UNCHANGED <<held, stage, source, monitorVars>>
    BY <1>15 DEF allVars, vars, session
  <2>2. Rest
    BY <2>1, MonitorKept DEF monitorVars, monitoring
  <2> QED BY <1>2, <1>4, <2>1, <2>2 DEF MonitorInv
<1> QED
  BY <1>5, <1>6, <1>7, <1>8, <1>9, <1>10, <1>11, <1>12, <1>13, <1>14, <1>15
  DEF MonitorNext

LEMMA MonitorInvHolds == MonitorSpec => []MonitorInv
BY MonitorInitInv, MonitorStep, PTL DEF MonitorSpec

(* Whatever is clicked, reconnected and closed in between, once the        *)
(* callbacks have run and a worker has read what it was told, it runs `ps` *)
(* for the tab on screen under an open popup, or not at all.               *)
THEOREM OnlyScreenMonitored == MonitorSpec => []OnlyTheScreenIsMonitored
<1>1. MonitorInv => OnlyTheScreenIsMonitored
  <2> SUFFICES ASSUME MonitorInv, told = NowTold, NEW t \in Tabs, held[t] # None,
                      orders[held[t]] = <<>>, monitor[held[t]] = "on"
               PROVE  popup /\ SourceTerminal = t
    BY DEF OnlyTheScreenIsMonitored
  <2>1. LastWord(held[t])
    BY DEF LastWord
  <2>2. told.popup = popup /\ told.active = active
    BY DEF NowTold
  <2> QED
    BY <2>1, <2>2 DEF MonitorInv, OrdersFollow, ToldSource, SourceTerminal
<1> QED BY <1>1, MonitorInvHolds, PTL
=============================================================================
