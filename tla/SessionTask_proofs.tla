------------------------ MODULE SessionTask_proofs ------------------------
(***************************************************************************)
(* What holds of the task that serves one session, seen from both sides:   *)
(* in the first part by the tabs, for every set of tabs and workers, every *)
(* mix of session kinds and every bound; in the second by the sz that      *)
(* sends it files, for every number of runs, of files and of subpackets,   *)
(* and every number of troubles.                                           *)
(***************************************************************************)
EXTENDS TabSession, ZmodemReceiver, FiniteSetTheorems, TLAPS

(* What a queue holds after a report is added to its end. *)
LEMMA AppendFacts ==
  ASSUME NEW S, NEW q \in Seq(S), NEW e \in S
  PROVE  /\ Append(q, e) \in Seq(S)
         /\ Len(Append(q, e)) = Len(q) + 1
         /\ \A i \in 1..Len(q) : Append(q, e)[i] = q[i]
         /\ Append(q, e)[Len(q) + 1] = e
  OBVIOUS

(* What a queue holds after its first entry is taken. *)
LEMMA TailFacts ==
  ASSUME NEW S, NEW q \in Seq(S), q # <<>>
  PROVE  /\ Tail(q) \in Seq(S)
         /\ Len(q) \in Nat /\ Len(q) > 0 /\ Len(Tail(q)) = Len(q) - 1
         /\ \A i \in 1..Len(Tail(q)) : i + 1 \in 1..Len(q) /\ Tail(q)[i] = q[i + 1]
         /\ Head(q) = q[1] /\ Head(q) \in S
  OBVIOUS

(* Starting a worker keeps the types of what it writes. *)
LEMMA StartTypes ==
  ASSUME TypeOK, NEW t \in Tabs, NEW w \in Workers,
         NEW told \in [Workers -> {"none", "running", "told", "done"}],
         StartSessionInTab(t, w, told)
  PROVE  /\ phase' \in [Workers -> Phases]
         /\ owner' \in [Workers -> Tabs \cup {NoTab}]
         /\ handle' \in [Tabs -> Workers \cup {NoWorker}]
         /\ sftpHandle' \in [Tabs -> Workers \cup {NoWorker}]
         /\ sftp' \in [Workers -> {"none", "running", "told", "done"}]
  BY ZenonT(30) DEF StartSessionInTab, TypeOK, Phases

-----------------------------------------------------------------------------

(* Telling the SFTP worker of a tab, if it has one, keeps its type. *)
LEMMA CloseSftpTypes ==
  ASSUME TypeOK, NEW t \in Tabs
  PROVE  CloseSftp(t) \in [Workers -> {"none", "running", "told", "done"}]
<1>1. CASE sftpHandle[t] = NoWorker
  BY <1>1 DEF CloseSftp, TypeOK
<1>2. CASE sftpHandle[t] # NoWorker
  <2>1. sftpHandle[t] \in Workers
    BY <1>2 DEF TypeOK
  <2> QED BY <1>2, <2>1 DEF CloseSftp, TypeOK
<1> QED BY <1>1, <1>2

(* Adding a report, and taking a command, keep the types of the channels. *)
LEMMA SendTypes ==
  ASSUME TypeOK, NEW w \in Workers, NEW e \in Report, Send(w, e)
  PROVE  events' \in [Workers -> Seq(Report)]
<1>1. Append(events[w], e) \in Seq(Report)
  BY AppendFacts DEF TypeOK
<1> QED BY <1>1 DEF Send, TypeOK

LEMMA TakeTypes ==
  ASSUME TypeOK, NEW w \in Workers, cmds[w] # <<>>,
         cmds' = [cmds EXCEPT ![w] = Tail(@)]
  PROVE  cmds' \in [Workers -> Seq({"RawInput", "Close"})]
<1>1. Tail(cmds[w]) \in Seq({"RawInput", "Close"})
  BY TailFacts DEF TypeOK
<1> QED BY <1>1 DEF TypeOK

(* Every reachable state has the types the program declares. *)
THEOREM TypeCorrect == Spec => []TypeOK
<1>1. Init => TypeOK
  BY DEF Init, TypeOK, Phases
<1>2. TypeOK /\ [Next]_vars => TypeOK'
  <2> SUFFICES ASSUME TypeOK, [Next]_vars PROVE TypeOK'
    OBVIOUS
  <2>1. ASSUME NEW t \in Tabs, NEW w \in Workers, ConnectSession(t, w)
        PROVE  TypeOK'
    <3>1. sftp \in [Workers -> {"none", "running", "told", "done"}]
      BY DEF TypeOK
    <3> QED BY <2>1, <3>1, StartTypes DEF ConnectSession, TypeOK
  <2>2. ASSUME NEW t \in Tabs, NEW w \in Workers, Reconnect(t, w)
        PROVE  TypeOK'
    <3>1. CloseSftp(t) \in [Workers -> {"none", "running", "told", "done"}]
      BY CloseSftpTypes
    <3> QED BY <2>2, <3>1, StartTypes DEF Reconnect, TypeOK
  <2>3. ASSUME NEW t \in Tabs, CloseTab(t) PROVE TypeOK'
    <3>1. sftp' \in [Workers -> {"none", "running", "told", "done"}]
      BY <2>3, CloseSftpTypes DEF CloseTab
    <3>2. cmds' \in [Workers -> Seq({"RawInput", "Close"})]
      <4>1. CASE handle[t] = NoWorker \/ phase[handle[t]] = "done"
        BY <2>3, <4>1 DEF CloseTab, TypeOK
      <4>2. CASE ~(handle[t] = NoWorker \/ phase[handle[t]] = "done")
        BY <2>3, <4>2 DEF CloseTab, TypeOK
      <4> QED BY <4>1, <4>2
    <3> QED BY <2>3, <3>1, <3>2 DEF CloseTab, TypeOK
  <2>4. ASSUME NEW targets \in SUBSET Tabs, Type(targets) PROVE TypeOK'
    <3>1. cmds' \in [Workers -> Seq({"RawInput", "Close"})]
      BY <2>4 DEF Type, TypeOK
    <3> QED BY <2>4, <3>1 DEF Type, uiVars, TypeOK
  <2>5. ASSUME NEW w \in Workers, ApplySessionEvent(w) PROVE TypeOK'
    <3>1. events[w] \in Seq(Report) /\ events[w] # <<>>
      BY <2>5 DEF ApplySessionEvent, ShowConnected, ShowClosed, ShowAlive,
               PutOutput, TypeOK
    <3>2. Tail(events[w]) \in Seq(Report) /\ Head(events[w]) \in Report
      BY <3>1, TailFacts
    <3>3. events' \in [Workers -> Seq(Report)]
      BY <2>5, <3>2 DEF ApplySessionEvent, ShowConnected, ShowClosed,
               ShowAlive, PutOutput, TypeOK
    <3>4. state' \in [Tabs -> {0, 1, 2}]
      BY <2>5 DEF ApplySessionEvent, ShowConnected, ShowClosed, ShowAlive,
               PutOutput, TypeOK
    <3>5. lit' \in [Tabs -> BOOLEAN]
      BY <2>5 DEF ApplySessionEvent, ShowConnected, ShowClosed, ShowAlive,
               PutOutput, TypeOK
    <3>6. screen' \in [Tabs -> SUBSET Workers]
      BY <2>5, <3>2 DEF ApplySessionEvent, ShowConnected, ShowClosed,
               ShowAlive, PutOutput, TypeOK
    <3> QED BY <2>5, <3>3, <3>4, <3>5, <3>6 DEF ApplySessionEvent,
             ShowConnected, ShowClosed, ShowAlive, PutOutput, TypeOK
  <2>6. ASSUME NEW w \in Workers, Progress(w) PROVE TypeOK'
    <3>1. CASE StartReader(w) \/ Greet(w)
      <4>1. CASE StartReader(w)
        BY <4>1 DEF StartReader, GoTo, uiVars, TypeOK, Phases
      <4>2. CASE Greet(w)
        BY <4>2 DEF Greet, GoTo, uiVars, TypeOK, Phases
      <4> QED BY <3>1, <4>1, <4>2
    <3>2. CASE SendConnected(w)
      <4>1. Send(w, "Connected") /\ "Connected" \in Report
        BY <3>2 DEF SendConnected, Report
      <4>2. events' \in [Workers -> Seq(Report)]
        BY <4>1, SendTypes
      <4>3. phase' \in [Workers -> Phases] /\ reader' \in [Workers -> BOOLEAN]
        BY <3>2 DEF SendConnected, GoTo, TypeOK, Phases
      <4>4. UNCHANGED <<uiVars, owner, cmds, sftp>>
        BY <3>2 DEF SendConnected
      <4> QED BY <4>2, <4>3, <4>4 DEF uiVars, TypeOK
    <3>3. CASE FailBeforeLoop(w) \/ Finish(w)
      <4>1. /\ Send(w, "Closed") /\ GoTo(w, "done")
            /\ cmds' = [cmds EXCEPT ![w] = <<>>]
            /\ UNCHANGED <<uiVars, owner, reader, sftp>>
        BY <3>3 DEF FailBeforeLoop, Finish
      <4>2. events' \in [Workers -> Seq(Report)]
        BY <4>1, SendTypes DEF Report
      <4>3. cmds' \in [Workers -> Seq({"RawInput", "Close"})]
        BY <4>1 DEF TypeOK
      <4> QED BY <4>1, <4>2, <4>3 DEF GoTo, uiVars, TypeOK, Phases
    <3>4. CASE TakeInput(w)
      BY <3>4, TakeTypes DEF TakeInput, uiVars, TypeOK
    <3>5. CASE TakeInputFails(w)
      <4>1. cmds' \in [Workers -> Seq({"RawInput", "Close"})]
        BY <3>5, TakeTypes DEF TakeInputFails
      <4>2. events' \in [Workers -> Seq(Report)]
        <5>1. CASE UNCHANGED events
          BY <5>1 DEF TypeOK
        <5>2. CASE Send(w, "Closed")
          BY <5>2, SendTypes DEF Report
        <5> QED BY <3>5, <5>1, <5>2 DEF TakeInputFails
      <4> QED BY <3>5, <4>1, <4>2 DEF TakeInputFails, GoTo, uiVars, TypeOK,
               Phases
    <3>6. CASE TakeClose(w)
      BY <3>6 DEF TakeClose, GoTo, uiVars, TypeOK, Phases
    <3> QED BY <2>6, <3>1, <3>2, <3>3, <3>4, <3>5, <3>6 DEF Progress
  <2>7. ASSUME NEW w \in Workers, Peer(w) PROVE TypeOK'
    <3>1. CASE EmitOutput(w) \/ EmitStats(w)
      BY <3>1, SendTypes DEF EmitOutput, EmitStats, uiVars, TypeOK, Report
    <3>2. CASE PeerEnds(w)
      BY <3>2 DEF PeerEnds, GoTo, uiVars, TypeOK, Phases
    <3>3. CASE ReadFails(w) \/ FlushPending(w)
      <4>1. events' \in [Workers -> Seq(Report)]
        BY <3>3, SendTypes DEF ReadFails, FlushPending, Report
      <4>2. phase' \in [Workers -> Phases]
        BY <3>3 DEF ReadFails, FlushPending, GoTo, TypeOK, Phases
      <4>3. UNCHANGED <<uiVars, owner, reader, cmds, sftp>>
        BY <3>3 DEF ReadFails, FlushPending
      <4> QED BY <4>1, <4>2, <4>3 DEF uiVars, TypeOK
    <3>4. CASE SerialReaderFails(w)
      <4>1. events' \in [Workers -> Seq(Report)]
        <5>1. \E e \in Report : Send(w, e)
          BY <3>4 DEF SerialReaderFails, Report
        <5> QED BY <5>1, SendTypes
      <4> QED BY <3>4, <4>1 DEF SerialReaderFails, uiVars, TypeOK
    <3> QED BY <2>7, <3>1, <3>2, <3>3, <3>4 DEF Peer
  <2>8. ASSUME NEW w \in Workers, ReaderStops(w) \/ SftpEnds(w) PROVE TypeOK'
    BY <2>8 DEF ReaderStops, SftpEnds, uiVars, TypeOK
  <2>9. CASE UNCHANGED vars
    BY <2>9 DEF vars, TypeOK
  <2> QED BY <2>1, <2>2, <2>3, <2>4, <2>5, <2>6, <2>7, <2>8, <2>9 DEF Next, UI,
           SendKey
<1> QED BY <1>1, <1>2, PTL DEF Spec

-----------------------------------------------------------------------------

(* The steps of a started worker: it moves on, and never back to unborn;   *)
(* the tabs, the handles and the other workers do not change.              *)
LEMMA WorkerStep ==
  ASSUME TypeOK, HandlesAgree, NEW w \in Workers,
         Progress(w) \/ Peer(w) \/ ReaderStops(w)
  PROVE  /\ UNCHANGED <<uiVars, owner, sftp>>
         /\ phase[w] # "unborn" /\ phase'[w] # "unborn"
         /\ \A v \in Workers \ {w} : /\ phase'[v] = phase[v]
                                      /\ events'[v] = events[v]
                                      /\ reader'[v] = reader[v]
<1>1. CASE Progress(w)
  BY <1>1 DEF Progress, StartReader, SendConnected, Greet, FailBeforeLoop,
              TakeInput, TakeInputFails, TakeClose, Finish, Send, GoTo, TypeOK
<1>2. CASE Peer(w)
  BY <1>2 DEF Peer, EmitOutput, EmitStats, PeerEnds, ReadFails, HandlesAgree,
              SerialReaderFails, FlushPending, Send, GoTo, IsKind, TypeOK
<1>3. CASE ReaderStops(w)
  BY <1>3 DEF ReaderStops, HandlesAgree, TypeOK
<1> QED BY <1>1, <1>2, <1>3

(* A worker started in a tab that is open afterwards is the tab's own. *)
LEMMA StartAgrees ==
  ASSUME TypeOK, HandlesAgree, NEW t \in Tabs, NEW w \in Workers,
         NEW told \in [Workers -> {"none", "running", "told", "done"}],
         \A v \in Workers : phase[v] = "unborn" => told[v] = "none",
         StartSessionInTab(t, w, told), UNCHANGED <<reader, events>>,
         tab' = [tab EXCEPT ![t] = "open"]
  PROVE  HandlesAgree'
<1> USE NamesAssumption DEF StartSessionInTab, TypeOK
<1>1. \A s \in Tabs : IF tab'[s] = "open" THEN handle'[s] \in Workers
                      ELSE handle'[s] = NoWorker /\ sftpHandle'[s] = NoWorker
  BY DEF HandlesAgree
<1>2. \A s \in Tabs, v \in Workers : v \in {handle'[s], sftpHandle'[s]} =>
        owner'[v] = s /\ phase'[v] # "unborn"
  <2> SUFFICES ASSUME NEW s \in Tabs, NEW v \in Workers,
                      v \in {handle'[s], sftpHandle'[s]}
               PROVE  owner'[v] = s /\ phase'[v] # "unborn"
    OBVIOUS
  <2>1. CASE s = t
    BY <2>1 DEF HandlesAgree
  <2>2. CASE s # t
    <3>1. v \in {handle[s], sftpHandle[s]}
      BY <2>2
    <3>2. owner[v] = s /\ phase[v] # "unborn"
      BY <3>1 DEF HandlesAgree
    <3>3. v # w
      BY <3>2
    <3> QED BY <3>2, <3>3
  <2> QED BY <2>1, <2>2
<1>3. \A v \in Workers : phase'[v] = "unborn" =>
        events'[v] = <<>> /\ ~reader'[v] /\ sftp'[v] = "none" /\ owner'[v] = NoTab
  BY DEF HandlesAgree
<1>4. \A v \in Workers : owner'[v] \in Tabs => tab'[owner'[v]] # "unused"
  BY DEF HandlesAgree
<1> QED BY <1>1, <1>2, <1>3, <1>4 DEF HandlesAgree

(* A tab and the worker it holds agree on whose they are, a tab that is    *)
(* not open holds none, and a worker is started once for one tab.          *)
THEOREM HandlesAlwaysAgree == Spec => []HandlesAgree
<1>1. Init => HandlesAgree
  BY NamesAssumption DEF Init, HandlesAgree
<1>2. TypeOK /\ HandlesAgree /\ [Next]_vars => HandlesAgree'
  <2> SUFFICES ASSUME TypeOK, HandlesAgree, [Next]_vars PROVE HandlesAgree'
    OBVIOUS
  <2> USE NamesAssumption
  <2>1. ASSUME NEW t \in Tabs, NEW w \in Workers, ConnectSession(t, w)
        PROVE  HandlesAgree'
    <3>1. /\ sftp \in [Workers -> {"none", "running", "told", "done"}]
          /\ \A v \in Workers : phase[v] = "unborn" => sftp[v] = "none"
      BY DEF HandlesAgree, TypeOK
    <3> QED BY <2>1, <3>1, StartAgrees DEF ConnectSession
  <2>2. ASSUME NEW t \in Tabs, NEW w \in Workers, Reconnect(t, w)
        PROVE  HandlesAgree'
    <3>1. /\ CloseSftp(t) \in [Workers -> {"none", "running", "told", "done"}]
          /\ \A v \in Workers : phase[v] = "unborn" => CloseSftp(t)[v] = "none"
      BY CloseSftpTypes DEF CloseSftp, HandlesAgree, TypeOK
    <3>2. tab' = [tab EXCEPT ![t] = "open"]
      BY <2>2 DEF Reconnect, TypeOK
    <3> QED BY <2>2, <3>1, <3>2, StartAgrees DEF Reconnect
  <2>3. ASSUME NEW t \in Tabs, CloseTab(t) PROVE HandlesAgree'
    BY <2>3 DEF CloseTab, CloseSftp, HandlesAgree, TypeOK
  <2>4. ASSUME NEW targets \in SUBSET Tabs, Type(targets) PROVE HandlesAgree'
    BY <2>4 DEF Type, uiVars, HandlesAgree
  <2>5. ASSUME NEW w \in Workers, ApplySessionEvent(w) PROVE HandlesAgree'
    BY <2>5 DEF ApplySessionEvent, ShowConnected, ShowClosed, ShowAlive, PutOutput,
             HandlesAgree, TypeOK
  <2>6. ASSUME NEW w \in Workers, Progress(w) \/ Peer(w) \/ ReaderStops(w)
        PROVE  HandlesAgree'
    BY <2>6, WorkerStep DEF HandlesAgree, uiVars
  <2>7. ASSUME NEW w \in Workers, SftpEnds(w) PROVE HandlesAgree'
    BY <2>7 DEF SftpEnds, uiVars, HandlesAgree, TypeOK
  <2>8. CASE UNCHANGED vars
    BY <2>8 DEF vars, HandlesAgree
  <2> QED BY <2>1, <2>2, <2>3, <2>4, <2>5, <2>6, <2>7, <2>8 DEF Next, UI,
           SendKey
<1> QED BY <1>1, <1>2, TypeCorrect, PTL DEF Spec

(* The workers do not touch what the UI thread owns. *)
LEMMA QuietUI ==
  ASSUME NEW w \in Workers,
         Progress(w) \/ Peer(w) \/ ReaderStops(w) \/ SftpEnds(w)
  PROVE  UNCHANGED uiVars
BY DEF Progress, StartReader, SendConnected, Greet, FailBeforeLoop, TakeInput,
       TakeInputFails, TakeClose, Finish, Peer, EmitOutput, EmitStats, PeerEnds,
       ReadFails, SerialReaderFails, FlushPending, ReaderStops, SftpEnds, uiVars

(* A closed tab stays empty, whatever its worker still has to report. *)
THEOREM ClosedHoldsNothing == Spec => []ClosedTabHoldsNothing
<1>1. Init => ClosedTabHoldsNothing
  BY DEF Init, ClosedTabHoldsNothing
<1>2. TypeOK /\ HandlesAgree /\ ClosedTabHoldsNothing /\ [Next]_vars
        => ClosedTabHoldsNothing'
  <2> SUFFICES ASSUME TypeOK, HandlesAgree, ClosedTabHoldsNothing, [Next]_vars
               PROVE  ClosedTabHoldsNothing'
    OBVIOUS
  <2> USE DEF ClosedTabHoldsNothing
  <2>1. ASSUME NEW t \in Tabs, NEW w \in Workers, ConnectSession(t, w)
        PROVE  ClosedTabHoldsNothing'
    BY <2>1 DEF ConnectSession, StartSessionInTab, TypeOK
  <2>2. ASSUME NEW t \in Tabs, NEW w \in Workers, Reconnect(t, w)
        PROVE  ClosedTabHoldsNothing'
    BY <2>2 DEF Reconnect, StartSessionInTab, TypeOK
  <2>3. ASSUME NEW t \in Tabs, CloseTab(t) PROVE ClosedTabHoldsNothing'
    BY <2>3 DEF CloseTab, TypeOK
  <2>4. ASSUME NEW targets \in SUBSET Tabs, Type(targets)
        PROVE  ClosedTabHoldsNothing'
    BY <2>4 DEF Type, uiVars
  <2>5. ASSUME NEW w \in Workers, ApplySessionEvent(w)
        PROVE  ClosedTabHoldsNothing'
    BY <2>5 DEF ApplySessionEvent, ShowConnected, ShowClosed, ShowAlive, PutOutput,
             TypeOK
  <2>6. ASSUME NEW w \in Workers,
               Progress(w) \/ Peer(w) \/ ReaderStops(w) \/ SftpEnds(w)
        PROVE  ClosedTabHoldsNothing'
    BY <2>6, QuietUI DEF uiVars
  <2>7. CASE UNCHANGED vars
    BY <2>7 DEF vars
  <2> QED BY <2>1, <2>2, <2>3, <2>4, <2>5, <2>6, <2>7 DEF Next, UI, SendKey
<1> QED BY <1>1, <1>2, TypeCorrect, HandlesAlwaysAgree, PTL DEF Spec

(* The tab bar never shows a tab as connected that its status does not:    *)
(* the reports of every worker, replaced or not, move the two together.    *)
THEOREM LitNeedsConnected == Spec => []LitMeansConnected
<1>1. Init => LitMeansConnected
  BY DEF Init, LitMeansConnected
<1>2. TypeOK /\ ClosedTabHoldsNothing /\ LitMeansConnected /\ [Next]_vars => LitMeansConnected'
  <2> SUFFICES ASSUME TypeOK, ClosedTabHoldsNothing, LitMeansConnected,
                      [Next]_vars
               PROVE  LitMeansConnected'
    OBVIOUS
  <2> USE DEF LitMeansConnected
  <2>1. ASSUME NEW t \in Tabs, NEW w \in Workers, ConnectSession(t, w)
        PROVE  LitMeansConnected'
    BY <2>1 DEF ConnectSession, ClosedTabHoldsNothing, TypeOK
  <2>2. ASSUME NEW t \in Tabs, NEW w \in Workers, Reconnect(t, w)
        PROVE  LitMeansConnected'
    BY <2>2 DEF Reconnect, TypeOK
  <2>3. ASSUME NEW t \in Tabs, CloseTab(t) PROVE LitMeansConnected'
    BY <2>3 DEF CloseTab, TypeOK
  <2>4. ASSUME NEW targets \in SUBSET Tabs, Type(targets)
        PROVE  LitMeansConnected'
    BY <2>4 DEF Type, uiVars
  <2>5. ASSUME NEW w \in Workers, ApplySessionEvent(w)
        PROVE  LitMeansConnected'
    BY <2>5 DEF ApplySessionEvent, ShowConnected, ShowClosed, ShowAlive, PutOutput,
             TypeOK
  <2>6. ASSUME NEW w \in Workers,
               Progress(w) \/ Peer(w) \/ ReaderStops(w) \/ SftpEnds(w)
        PROVE  LitMeansConnected'
    BY <2>6, QuietUI DEF uiVars
  <2>7. CASE UNCHANGED vars
    BY <2>7 DEF vars
  <2> QED BY <2>1, <2>2, <2>3, <2>4, <2>5, <2>6, <2>7
          DEF Next, UI, SendKey
<1> QED BY <1>1, <1>2, TypeCorrect, ClosedHoldsNothing, PTL DEF Spec

(* An SFTP worker that runs untold is held by its open tab: no reconnect   *)
(* and no closed tab leaves one connected behind the user's back.          *)
THEOREM SftpAlwaysReleased == Spec => []SftpReleased
<1>1. Init => SftpReleased
  BY DEF Init, SftpReleased
<1>2. TypeOK /\ HandlesAgree /\ SftpReleased /\ [Next]_vars => SftpReleased'
  <2> SUFFICES ASSUME TypeOK, HandlesAgree, SftpReleased, [Next]_vars
               PROVE  SftpReleased'
    OBVIOUS
  <2> USE NamesAssumption DEF SftpReleased
  <2>1. ASSUME NEW t \in Tabs, NEW w \in Workers, ConnectSession(t, w)
        PROVE  SftpReleased'
    BY <2>1 DEF ConnectSession, StartSessionInTab, HandlesAgree, TypeOK
  <2>2. ASSUME NEW t \in Tabs, NEW w \in Workers, Reconnect(t, w)
        PROVE  SftpReleased'
    BY <2>2 DEF Reconnect, StartSessionInTab, CloseSftp, HandlesAgree, TypeOK
  <2>3. ASSUME NEW t \in Tabs, CloseTab(t) PROVE SftpReleased'
    BY <2>3 DEF CloseTab, CloseSftp, HandlesAgree, TypeOK
  <2>4. ASSUME NEW targets \in SUBSET Tabs, Type(targets) PROVE SftpReleased'
    BY <2>4 DEF Type, uiVars
  <2>5. ASSUME NEW w \in Workers, ApplySessionEvent(w) PROVE SftpReleased'
    BY <2>5 DEF ApplySessionEvent, ShowConnected, ShowClosed, ShowAlive, PutOutput
  <2>6. ASSUME NEW w \in Workers, Progress(w) \/ Peer(w) \/ ReaderStops(w)
        PROVE  SftpReleased'
    BY <2>6, WorkerStep DEF uiVars
  <2>7. ASSUME NEW w \in Workers, SftpEnds(w) PROVE SftpReleased'
    BY <2>7 DEF SftpEnds, uiVars, TypeOK
  <2>8. CASE UNCHANGED vars
    BY <2>8 DEF vars
  <2> QED BY <2>1, <2>2, <2>3, <2>4, <2>5, <2>6, <2>7, <2>8 DEF Next, UI,
           SendKey
<1> QED BY <1>1, <1>2, TypeCorrect, HandlesAlwaysAgree, PTL DEF Spec

-----------------------------------------------------------------------------

(* What one step of a local shell's worker adds to its reports. *)
LocalStep(w) ==
  \/ /\ events'[w] = events[w]
     /\ Reached(w) => Reached(w)'
     /\ phase[w] = "done" => phase'[w] = "done"
  \/ /\ events'[w] = Append(events[w], "Output")
     /\ phase'[w] = phase[w]
  \/ /\ events'[w] = Append(events[w], "Connected")
     /\ phase[w] # "done" /\ Reached(w)'
  \/ /\ events'[w] = Append(events[w], "Closed")
     /\ phase[w] # "done" /\ phase'[w] = "done"

LEMMA LocalSteps ==
  ASSUME TypeOK, NEW w \in Workers, IsKind(w, {"local"}),
         Progress(w) \/ Peer(w) \/ ReaderStops(w)
  PROVE  LocalStep(w)
<1> USE DEF LocalStep, Reached, Send, GoTo, TypeOK
<1>1. CASE StartReader(w) \/ SendConnected(w) \/ Greet(w) \/ FailBeforeLoop(w)
  BY <1>1 DEF StartReader, SendConnected, Greet, FailBeforeLoop
<1>2. CASE TakeInput(w) \/ TakeInputFails(w) \/ TakeClose(w) \/ Finish(w)
  BY <1>2 DEF TakeInput, TakeInputFails, TakeClose, Finish
<1>3. CASE EmitOutput(w) \/ PeerEnds(w) \/ ReaderStops(w)
  BY <1>3 DEF EmitOutput, PeerEnds, ReaderStops
<1>4. ~(EmitStats(w) \/ ReadFails(w) \/ SerialReaderFails(w) \/ FlushPending(w))
  BY DEF EmitStats, ReadFails, SerialReaderFails, FlushPending, IsKind
<1> QED BY <1>1, <1>2, <1>3, <1>4 DEF Progress, Peer

LEMMA OrderKept ==
  ASSUME TypeOK, NEW w \in Workers, ReportsInOrder(w), LocalStep(w)
  PROVE  ReportsInOrder(w)'
<1>1. events[w] \in Seq(Report)
  BY DEF TypeOK
<1>2. CASE events'[w] = events[w]
  BY <1>2 DEF ReportsInOrder, LocalStep, Reached
<1>3. CASE events'[w] = Append(events[w], "Output") /\ phase'[w] = phase[w]
  BY <1>1, <1>3, AppendFacts DEF ReportsInOrder, Reached, Report
<1>4. CASE /\ events'[w] = Append(events[w], "Connected")
           /\ phase[w] # "done" /\ Reached(w)'
  BY <1>1, <1>4, AppendFacts DEF ReportsInOrder, Report
<1>5. CASE /\ events'[w] = Append(events[w], "Closed")
           /\ phase[w] # "done" /\ phase'[w] = "done"
  BY <1>1, <1>5, AppendFacts DEF ReportsInOrder, Reached, Report
<1> QED BY <1>2, <1>3, <1>4, <1>5 DEF LocalStep

(* A worker that is over adds nothing but output to what it has reported. *)
LEMMA QuietKept ==
  ASSUME TypeOK, NEW w \in Workers, OnlyOutput(w), phase[w] = "done", LocalStep(w)
  PROVE  OnlyOutput(w)' /\ phase'[w] = "done"
<1>1. events[w] \in Seq(Report)
  BY DEF TypeOK
<1>2. CASE events'[w] = events[w]
  BY <1>2 DEF OnlyOutput, LocalStep
<1>3. CASE events'[w] = Append(events[w], "Output") /\ phase'[w] = phase[w]
  BY <1>1, <1>3, AppendFacts DEF OnlyOutput, Report
<1> QED BY <1>2, <1>3 DEF LocalStep

(* Starting a session in a local tab: the new worker has nothing to report *)
(* and every other worker of that tab is over.                             *)
LEMMA StartKeepsLocal ==
  ASSUME TypeOK, HandlesAgree, LocalInv, NEW t \in Tabs, NEW w \in Workers,
         NEW told, StartSessionInTab(t, w, told), UNCHANGED <<reader, events>>,
         tab' = [tab EXCEPT ![t] = "open"], state' = [state EXCEPT ![t] = 0],
         \/ tab[t] = "unused"
         \/ tab[t] = "open" /\ state[t] = 2
  PROVE  LocalReportsInOrder' /\ LocalReplacedIsOver' /\ LocalShownIsTrue'
<1> USE NamesAssumption
<1>1. /\ phase[w] = "unborn" /\ events[w] = <<>>
      /\ phase' = [phase EXCEPT ![w] = "connecting"]
      /\ owner' = [owner EXCEPT ![w] = t]
      /\ handle' = [handle EXCEPT ![t] = w]
      /\ events' = events
  BY DEF StartSessionInTab, HandlesAgree
<1>2. \A v \in Workers \ {w} : /\ phase'[v] = phase[v]
                               /\ owner'[v] = owner[v]
                               /\ IsKind(v, {"local"})' <=> IsKind(v, {"local"})
                               /\ ReportsInOrder(v) <=> ReportsInOrder(v)'
                               /\ OnlyOutput(v) <=> OnlyOutput(v)'
  BY <1>1 DEF TypeOK, IsKind, ReportsInOrder, OnlyOutput, Reached
<1>3. LocalReportsInOrder'
  <2>1. ReportsInOrder(w)'
    BY <1>1 DEF ReportsInOrder
  <2> QED BY <1>2, <2>1 DEF LocalReportsInOrder, LocalInv
<1>4. LocalReplacedIsOver'
  <2> SUFFICES ASSUME NEW v \in Workers, IsKind(v, {"local"})',
                      tab'[owner'[v]] = "open", handle'[owner'[v]] # v
               PROVE  phase'[v] = "done" /\ OnlyOutput(v)'
    BY DEF LocalReplacedIsOver
  <2>1. v # w
    BY <1>1 DEF TypeOK
  <2>2. IsKind(v, {"local"}) /\ owner[v] = owner'[v] /\ owner[v] \in Tabs
    BY <1>2, <2>1 DEF IsKind
  <2>3. CASE owner[v] # t
    <3>1. tab[owner[v]] = "open" /\ handle[owner[v]] # v
      BY <1>1, <2>2, <2>3 DEF TypeOK
    <3> QED BY <1>2, <2>1, <2>2, <3>1 DEF LocalInv, LocalReplacedIsOver
  <2>4. CASE owner[v] = t /\ handle[t] # v
    <3>1. tab[t] = "open"
      BY <2>2, <2>4 DEF HandlesAgree
    <3> QED BY <1>2, <2>1, <2>2, <2>4, <3>1 DEF LocalInv, LocalReplacedIsOver
  <2>5. CASE owner[v] = t /\ handle[t] = v
    <3>1. tab[t] = "open" /\ state[t] = 2 /\ t \in LocalTabs
      BY <2>2, <2>5 DEF HandlesAgree, IsKind, LocalTabs
    <3> QED BY <1>2, <2>1, <2>5, <3>1 DEF LocalInv, LocalShownIsTrue
  <2> QED BY <2>3, <2>4, <2>5
<1>5. LocalShownIsTrue'
  <2> SUFFICES ASSUME NEW s \in LocalTabs, tab'[s] = "open"
               PROVE  /\ state'[s] = 1 => Reached(handle[s])'
                      /\ state'[s] = 2 => /\ phase'[handle'[s]] = "done"
                                         /\ OnlyOutput(handle[s])'
    BY DEF LocalShownIsTrue, Reached, OnlyOutput
  <2>1. CASE s = t
    BY <2>1 DEF TypeOK
  <2>2. CASE s # t
    <3>1. /\ s \in Tabs /\ tab[s] = "open" /\ state'[s] = state[s]
          /\ handle'[s] = handle[s]
      BY <1>1, <2>2 DEF LocalTabs, TypeOK
    <3>2. handle[s] \in Workers \ {w}
      BY <1>1, <3>1 DEF HandlesAgree
    <3> QED BY <1>2, <3>1, <3>2 DEF LocalInv, LocalShownIsTrue, Reached
  <2> QED BY <2>1, <2>2
<1> QED BY <1>3, <1>4, <1>5

(* Applying a report of a local worker shows what is true of its session. *)
LEMMA ApplyKeepsLocal ==
  ASSUME TypeOK, HandlesAgree, LocalInv, NEW w \in Workers, ApplySessionEvent(w)
  PROVE  LocalReportsInOrder' /\ LocalReplacedIsOver' /\ LocalShownIsTrue'
<1>1. /\ events[w] \in Seq(Report) /\ events[w] # <<>>
      /\ events' = [events EXCEPT ![w] = Tail(@)]
      /\ UNCHANGED <<tab, handle, phase, owner>>
  BY DEF ApplySessionEvent, ShowConnected, ShowClosed, ShowAlive, PutOutput, TypeOK
<1>2. /\ Tail(events[w]) \in Seq(Report)
      /\ Len(events[w]) \in Nat /\ Len(events[w]) > 0
      /\ Len(Tail(events[w])) = Len(events[w]) - 1
      /\ \A i \in 1..Len(Tail(events[w])) :
           i + 1 \in 1..Len(events[w]) /\ Tail(events[w])[i] = events[w][i + 1]
      /\ Head(events[w]) = events[w][1]
  BY <1>1, TailFacts
<1>3. events'[w] = Tail(events[w])
  BY <1>1 DEF TypeOK
<1>4. \A v \in Workers \ {w} : events'[v] = events[v]
  BY <1>1 DEF TypeOK
<1>5. OnlyOutput(w) => OnlyOutput(w)'
  BY <1>2, <1>3 DEF OnlyOutput
<1>6. ReportsInOrder(w) => ReportsInOrder(w)'
  <2> SUFFICES ASSUME ReportsInOrder(w), NEW i \in 1..Len(Tail(events[w]))
               PROVE  /\ Tail(events[w])[i] # "ResourceStats"
                      /\ Tail(events[w])[i] = "Connected" => Reached(w)
                      /\ Tail(events[w])[i] = "Closed" =>
                           /\ phase[w] = "done"
                           /\ \A j \in (i+1)..Len(Tail(events[w])) :
                                Tail(events[w])[j] = "Output"
    BY <1>1, <1>3 DEF ReportsInOrder, Reached
  <2>1. i + 1 \in 1..Len(events[w]) /\ Tail(events[w])[i] = events[w][i + 1]
    BY <1>2
  <2>2. \A j \in (i+1)..Len(Tail(events[w])) :
          /\ j + 1 \in ((i+1)+1)..Len(events[w])
          /\ Tail(events[w])[j] = events[w][j + 1]
    BY <1>2
  <2> QED BY <2>1, <2>2 DEF ReportsInOrder
<1>7. LocalReportsInOrder'
  BY <1>1, <1>4, <1>6 DEF LocalInv, LocalReportsInOrder, IsKind,
           ReportsInOrder, Reached
<1>8. LocalReplacedIsOver'
  BY <1>1, <1>4, <1>5 DEF LocalInv, LocalReplacedIsOver, IsKind, OnlyOutput
<1>9. LocalShownIsTrue'
  <2> SUFFICES ASSUME NEW t \in LocalTabs, tab[t] = "open"
               PROVE  /\ state'[t] = 1 => Reached(handle[t])
                      /\ state'[t] = 2 => /\ phase[handle[t]] = "done"
                                         /\ OnlyOutput(handle[t])'
    BY <1>1 DEF LocalShownIsTrue, Reached, OnlyOutput
  <2>1. t \in Tabs /\ handle[t] \in Workers /\ owner[handle[t]] = t
    BY DEF LocalTabs, HandlesAgree
  <2>2. OnlyOutput(handle[t]) => OnlyOutput(handle[t])'
    BY <1>1, <1>4, <1>5, <2>1 DEF OnlyOutput
  <2>3. CASE state'[t] = state[t]
    BY <2>2, <2>3 DEF LocalInv, LocalShownIsTrue
  <2>4. CASE state'[t] # state[t]
    <3>1. /\ owner[w] = t
          /\ \/ Head(events[w]) \in {"Connected", "ResourceStats"} /\ state'[t] = 1
             \/ Head(events[w]) = "Closed" /\ state'[t] = 2
      BY <2>1, <2>4 DEF ApplySessionEvent, ShowConnected, ShowClosed,
               ShowAlive, PutOutput, TypeOK
    <3>2. IsKind(w, {"local"}) /\ ReportsInOrder(w)
      BY <2>1, <3>1 DEF LocalTabs, IsKind, LocalInv, LocalReportsInOrder
    <3>3. handle[t] = w
      <4>1. ~OnlyOutput(w)
        BY <1>2, <3>1 DEF OnlyOutput
      <4> QED BY <3>1, <3>2, <4>1 DEF LocalInv, LocalReplacedIsOver
    <3>4. CASE Head(events[w]) \in {"Connected", "ResourceStats"} /\ state'[t] = 1
      BY <1>2, <3>2, <3>3, <3>4 DEF ReportsInOrder
    <3>5. CASE Head(events[w]) = "Closed" /\ state'[t] = 2
      <4>1. phase[w] = "done" /\ \A j \in 2..Len(events[w]) : events[w][j] = "Output"
        BY <1>2, <3>2, <3>5 DEF ReportsInOrder
      <4>2. \A j \in 1..Len(Tail(events[w])) : j + 1 \in 2..Len(events[w])
        BY <1>2
      <4>3. OnlyOutput(w)'
        BY <1>2, <1>3, <4>1, <4>2 DEF OnlyOutput
      <4> QED BY <1>1, <3>3, <3>5, <4>1, <4>3 DEF OnlyOutput
    <3> QED BY <3>1, <3>4, <3>5
  <2> QED BY <2>3, <2>4
<1> QED BY <1>7, <1>8, <1>9

(* A step of a worker keeps the invariant of the local tabs. *)
LEMMA WorkerKeepsLocal ==
  ASSUME TypeOK, HandlesAgree, LocalInv, NEW w \in Workers,
         Progress(w) \/ Peer(w) \/ ReaderStops(w)
  PROVE  LocalReportsInOrder' /\ LocalReplacedIsOver' /\ LocalShownIsTrue'
<1>1. /\ UNCHANGED <<tab, state, handle, owner>>
      /\ \A v \in Workers \ {w} : phase'[v] = phase[v] /\ events'[v] = events[v]
  BY WorkerStep DEF uiVars
<1>2. IsKind(w, {"local"}) => LocalStep(w)
  BY LocalSteps
<1>3. \A v \in Workers : IsKind(v, {"local"}) =>
        /\ ReportsInOrder(v) => ReportsInOrder(v)'
        /\ Reached(v) /\ ReportsInOrder(v) => Reached(v)'
        /\ OnlyOutput(v) /\ phase[v] = "done" =>
             OnlyOutput(v)' /\ phase'[v] = "done"
  <2> SUFFICES ASSUME NEW v \in Workers, IsKind(v, {"local"})
               PROVE  /\ ReportsInOrder(v) => ReportsInOrder(v)'
                      /\ Reached(v) => Reached(v)'
                      /\ OnlyOutput(v) /\ phase[v] = "done" =>
                           OnlyOutput(v)' /\ phase'[v] = "done"
    OBVIOUS
  <2>1. CASE v = w
    BY <1>2, <2>1, OrderKept, QuietKept DEF LocalStep, Reached
  <2>2. CASE v # w
    BY <1>1, <2>2 DEF ReportsInOrder, Reached, OnlyOutput
  <2> QED BY <2>1, <2>2
<1>4. LocalReportsInOrder'
  BY <1>1, <1>3 DEF LocalInv, LocalReportsInOrder, IsKind
<1>5. LocalReplacedIsOver'
  BY <1>1, <1>3 DEF LocalInv, LocalReplacedIsOver, IsKind
<1>6. LocalShownIsTrue'
  <2>1. \A t \in LocalTabs : tab[t] = "open" =>
          handle[t] \in Workers /\ IsKind(handle[t], {"local"})
    BY DEF LocalTabs, HandlesAgree, IsKind
  <2> QED BY <1>1, <1>3, <2>1
          DEF LocalInv, LocalShownIsTrue, LocalReportsInOrder, LocalTabs
<1> QED BY <1>4, <1>5, <1>6

(* The invariant behind the two display properties of local tabs: Closed   *)
(* is the last thing a local worker says, and it is said once.             *)
THEOREM LocalTabsInOrder == Spec => []LocalInv
<1>1. Init => LocalInv
  BY NamesAssumption DEF Init, LocalInv, HandlesAgree, LocalReportsInOrder,
     LocalReplacedIsOver, LocalShownIsTrue, IsKind, LocalTabs
<1>2. TypeOK /\ HandlesAgree /\ HandlesAgree' /\ LocalInv /\ [Next]_vars => LocalInv'
  <2> SUFFICES ASSUME TypeOK, HandlesAgree, HandlesAgree', LocalInv, [Next]_vars
               PROVE  LocalReportsInOrder' /\ LocalReplacedIsOver' /\ LocalShownIsTrue'
    BY DEF LocalInv
  <2>1. ASSUME NEW t \in Tabs, NEW w \in Workers, ConnectSession(t, w)
        PROVE  LocalReportsInOrder' /\ LocalReplacedIsOver' /\ LocalShownIsTrue'
    BY <2>1, StartKeepsLocal DEF ConnectSession
  <2>2. ASSUME NEW t \in Tabs, NEW w \in Workers, Reconnect(t, w)
        PROVE  LocalReportsInOrder' /\ LocalReplacedIsOver' /\ LocalShownIsTrue'
    <3>1. tab' = [tab EXCEPT ![t] = "open"]
      BY <2>2 DEF Reconnect, TypeOK
    <3> QED BY <2>2, <3>1, StartKeepsLocal DEF Reconnect
  <2>3. ASSUME NEW t \in Tabs, CloseTab(t)
        PROVE  LocalReportsInOrder' /\ LocalReplacedIsOver' /\ LocalShownIsTrue'
    BY <2>3 DEF CloseTab, TypeOK, LocalInv, LocalReportsInOrder,
             ReportsInOrder,
       LocalReplacedIsOver, LocalShownIsTrue, OnlyOutput, Reached, IsKind, LocalTabs
  <2>4. ASSUME NEW w \in Workers, ApplySessionEvent(w)
        PROVE  LocalReportsInOrder' /\ LocalReplacedIsOver' /\ LocalShownIsTrue'
    BY <2>4, ApplyKeepsLocal
  <2>5. ASSUME NEW w \in Workers, Progress(w) \/ Peer(w) \/ ReaderStops(w)
        PROVE  LocalReportsInOrder' /\ LocalReplacedIsOver' /\ LocalShownIsTrue'
    BY <2>5, WorkerKeepsLocal
  <2>6. CASE UNCHANGED <<uiVars, phase, owner, events>>
    BY <2>6 DEF uiVars, LocalInv, LocalReportsInOrder, ReportsInOrder,
       LocalReplacedIsOver, LocalShownIsTrue, OnlyOutput, Reached, IsKind
  <2>7. SendKey \/ (\E w \in Workers : SftpEnds(w)) \/ UNCHANGED vars
          => UNCHANGED <<uiVars, phase, owner, events>>
    BY DEF SendKey, Type, SftpEnds, uiVars, vars
  <2> QED BY <2>1, <2>2, <2>3, <2>4, <2>5, <2>6, <2>7 DEF Next, UI
<1> QED BY <1>1, <1>2, TypeCorrect, HandlesAlwaysAgree, PTL DEF Spec

(* On a local tab Enter restarts only a shell that is over. *)
THEOREM LocalEnterIsSafe == Spec => []LocalDisconnectedMeansOver
<1>1. LocalInv => LocalDisconnectedMeansOver
  BY DEF LocalInv, LocalShownIsTrue, LocalDisconnectedMeansOver
<1> QED BY <1>1, LocalTabsInOrder, PTL

(* A local tab shown as connected has a worker that reached its shell. *)
THEOREM LocalShownConnected == Spec => []LocalConnectedMeansReached
<1>1. LocalInv => LocalConnectedMeansReached
  BY DEF LocalInv, LocalShownIsTrue, LocalConnectedMeansReached, Reached
<1> QED BY <1>1, LocalTabsInOrder, PTL

-----------------------------------------------------------------------------

(* How a step that touches one local tab, or none, moves the abstract state. *)
LEMMA OneTabMoves ==
  ASSUME NEW t \in LocalTabs,
         \A s \in LocalTabs \ {t} : /\ ShownOf(s)' = ShownOf(s)
                                   /\ SessionOf(s)' = SessionOf(s)
  PROVE  /\ [s \in LocalTabs |-> ShownOf(s)]' =
              [[s \in LocalTabs |-> ShownOf(s)] EXCEPT ![t] = ShownOf(t)']
         /\ [s \in LocalTabs |-> SessionOf(s)]' =
              [[s \in LocalTabs |-> SessionOf(s)] EXCEPT ![t] = SessionOf(t)']
  BY DEF LocalTabs

LEMMA NoTabMoves ==
  ASSUME \A s \in LocalTabs : /\ ShownOf(s)' = ShownOf(s)
                             /\ SessionOf(s)' = SessionOf(s)
  PROVE  UNCHANGED Promise!vars
  BY DEF LocalTabs, Promise!vars

(* Starting a session is opening the tab, or reconnecting it. *)
LEMMA StartMoves ==
  ASSUME TypeOK, HandlesAgree, NEW t \in Tabs, NEW w \in Workers,
         NEW told, StartSessionInTab(t, w, told),
         tab' = [tab EXCEPT ![t] = "open"], state' = [state EXCEPT ![t] = 0]
  PROVE  /\ \A s \in LocalTabs \ {t} : /\ ShownOf(s)' = ShownOf(s)
                                       /\ SessionOf(s)' = SessionOf(s)
         /\ ShownOf(t)' = "connecting" /\ SessionOf(t)' = "attempt"
<1> USE NamesAssumption DEF StartSessionInTab, TypeOK
<1>1. ASSUME NEW s \in LocalTabs \ {t}
      PROVE  ShownOf(s)' = ShownOf(s) /\ SessionOf(s)' = SessionOf(s)
  <2>1. s \in Tabs /\ tab'[s] = tab[s] /\ state'[s] = state[s] /\ handle'[s] = handle[s]
    BY DEF LocalTabs
  <2>2. handle[s] \in Workers => handle[s] # w /\ phase'[handle[s]] = phase[handle[s]]
    BY <2>1 DEF HandlesAgree
  <2> QED BY <2>1, <2>2 DEF ShownOf, SessionOf
<1>2. tab'[t] = "open" /\ state'[t] = 0 /\ handle'[t] = w /\ phase'[w] = "connecting"
  OBVIOUS
<1>3. ShownOf(t)' = "connecting" /\ SessionOf(t)' = "attempt"
  BY <1>2 DEF ShownOf, SessionOf
<1> QED BY <1>1, <1>3

(* What a worker's step does to the stage of its session. *)
LEMMA WorkerMoves ==
  ASSUME TypeOK, HandlesAgree, NEW w \in Workers,
         Progress(w) \/ Peer(w) \/ ReaderStops(w)
  PROVE  \/ phase'[w] = phase[w]
         \/ phase[w] \in {"connecting", "starting"} /\ phase'[w] # "unborn"
         \/ phase[w] \notin {"connecting", "starting", "done"}
              /\ phase'[w] \notin {"connecting", "starting"}
<1> USE DEF GoTo, TypeOK
<1>1. CASE StartReader(w) \/ SendConnected(w) \/ Greet(w) \/ FailBeforeLoop(w)
  BY <1>1 DEF StartReader, SendConnected, Greet, FailBeforeLoop
<1>2. CASE TakeInput(w) \/ TakeInputFails(w) \/ TakeClose(w) \/ Finish(w)
  BY <1>2 DEF TakeInput, TakeInputFails, TakeClose, Finish
<1>3. CASE Peer(w) \/ ReaderStops(w)
  BY <1>3 DEF Peer, EmitOutput, EmitStats, PeerEnds, ReadFails,
              SerialReaderFails, FlushPending, ReaderStops
<1> QED BY <1>1, <1>2, <1>3 DEF Progress

(* Every step of the program is a step of the promise, or changes nothing  *)
(* the user of a local tab can tell.                                       *)
LEMMA StepKeepsPromise ==
  ASSUME TypeOK, HandlesAgree, LocalInv, [Next]_vars
  PROVE  [Promise!Next]_(Promise!vars)
<1> USE NamesAssumption
<1> DEFINE shownMap   == [s \in LocalTabs |-> ShownOf(s)]
           sessionMap == [s \in LocalTabs |-> SessionOf(s)]
<1>1. ASSUME NEW t \in Tabs, NEW w \in Workers, ConnectSession(t, w)
      PROVE  [Promise!Next]_(Promise!vars)
  <2>1. tab' = [tab EXCEPT ![t] = "open"] /\ state' = [state EXCEPT ![t] = 0]
    BY <1>1 DEF ConnectSession
  <2>2. /\ \A s \in LocalTabs \ {t} : /\ ShownOf(s)' = ShownOf(s)
                                     /\ SessionOf(s)' = SessionOf(s)
        /\ ShownOf(t)' = "connecting" /\ SessionOf(t)' = "attempt"
    BY <1>1, <2>1, StartMoves DEF ConnectSession
  <2>3. CASE t \notin LocalTabs
    BY <2>2, <2>3, NoTabMoves
  <2>4. CASE t \in LocalTabs
    <3>1. ShownOf(t) = "none"
      BY <1>1 DEF ConnectSession, ShownOf
    <3>2. Promise!Open(t)
      BY <2>2, <2>4, <3>1, OneTabMoves DEF Promise!Open, Promise!Show,
               Promise!Become
    <3> QED BY <2>4, <3>2 DEF Promise!Next
  <2> QED BY <2>3, <2>4
<1>2. ASSUME NEW t \in Tabs, NEW w \in Workers, Reconnect(t, w)
      PROVE  [Promise!Next]_(Promise!vars)
  <2>1. tab' = [tab EXCEPT ![t] = "open"] /\ state' = [state EXCEPT ![t] = 0]
    BY <1>2 DEF Reconnect, TypeOK
  <2>2. /\ \A s \in LocalTabs \ {t} : /\ ShownOf(s)' = ShownOf(s)
                                     /\ SessionOf(s)' = SessionOf(s)
        /\ ShownOf(t)' = "connecting" /\ SessionOf(t)' = "attempt"
    BY <1>2, <2>1, StartMoves DEF Reconnect
  <2>3. CASE t \notin LocalTabs
    BY <2>2, <2>3, NoTabMoves
  <2>4. CASE t \in LocalTabs
    <3>1. ShownOf(t) = "disconnected"
      BY <1>2 DEF Reconnect, ShownOf
    <3>2. Promise!Reconnect(t)
      BY <2>2, <2>4, <3>1, OneTabMoves
         DEF Promise!Reconnect, Promise!Show, Promise!Become
    <3> QED BY <2>4, <3>2 DEF Promise!Next
  <2> QED BY <2>3, <2>4
<1>3. ASSUME NEW t \in Tabs, CloseTab(t) PROVE [Promise!Next]_(Promise!vars)
  <2>1. ASSUME NEW s \in LocalTabs \ {t}
        PROVE  ShownOf(s)' = ShownOf(s) /\ SessionOf(s)' = SessionOf(s)
    BY <1>3 DEF CloseTab, ShownOf, SessionOf, LocalTabs, TypeOK
  <2>2. ShownOf(t)' = "none" /\ SessionOf(t)' = "none"
    BY <1>3 DEF CloseTab, ShownOf, SessionOf, TypeOK
  <2>3. CASE t \notin LocalTabs
    BY <2>1, <2>3, NoTabMoves
  <2>4. CASE t \in LocalTabs
    <3>1. ShownOf(t) # "none"
      BY <1>3 DEF CloseTab, ShownOf, TypeOK
    <3>2. Promise!Close(t)
      BY <2>1, <2>2, <2>4, <3>1, OneTabMoves
         DEF Promise!Close, Promise!Show, Promise!Become
    <3> QED BY <2>4, <3>2 DEF Promise!Next
  <2> QED BY <2>3, <2>4
<1>4. ASSUME NEW w \in Workers, Progress(w) \/ Peer(w) \/ ReaderStops(w)
      PROVE  [Promise!Next]_(Promise!vars)
  <2>1. /\ UNCHANGED <<tab, state, handle, owner>>
        /\ phase[w] # "unborn" /\ phase'[w] # "unborn"
        /\ \A v \in Workers \ {w} : phase'[v] = phase[v]
    BY <1>4, WorkerStep DEF uiVars
  <2>2. ASSUME NEW s \in LocalTabs, handle[s] # w
        PROVE  ShownOf(s)' = ShownOf(s) /\ SessionOf(s)' = SessionOf(s)
    <3>1. handle[s] = NoWorker \/ phase'[handle[s]] = phase[handle[s]]
      BY <2>1, <2>2 DEF LocalTabs, TypeOK
    <3> QED BY <2>1, <3>1 DEF ShownOf, SessionOf
  <2>3. CASE \A s \in LocalTabs : handle[s] # w
    BY <2>2, <2>3, NoTabMoves
  <2>4. ASSUME NEW t \in LocalTabs, handle[t] = w
        PROVE  [Promise!Next]_(Promise!vars)
    <3>1. \A s \in LocalTabs \ {t} : handle[s] # w
      BY <2>4 DEF HandlesAgree, LocalTabs
    <3>2. ShownOf(t)' = ShownOf(t)
      BY <2>1 DEF ShownOf
    <3>3. \/ SessionOf(t)' = SessionOf(t)
          \/ SessionOf(t) = "attempt" /\ SessionOf(t)' \in {"live", "over"}
          \/ SessionOf(t) = "live" /\ SessionOf(t)' = "over"
      BY <1>4, <2>1, <2>4, WorkerMoves DEF SessionOf
    <3>4. CASE SessionOf(t)' = SessionOf(t)
      <4>1. \A s \in LocalTabs : ShownOf(s)' = ShownOf(s) /\ SessionOf(s)' = SessionOf(s)
        BY <2>2, <3>1, <3>2, <3>4
      <4> QED BY <4>1, NoTabMoves
    <3>5. CASE SessionOf(t) = "attempt" /\ SessionOf(t)' = "live"
      <4>1. Promise!Reach(t)
        BY <2>2, <3>1, <3>2, <3>5, OneTabMoves
           DEF Promise!Reach, Promise!Become, LocalTabs
      <4> QED BY <4>1 DEF Promise!Next
    <3>6. CASE SessionOf(t) \in {"attempt", "live"} /\ SessionOf(t)' = "over"
      <4>1. Promise!End(t)
        BY <2>2, <3>1, <3>2, <3>6, OneTabMoves
           DEF Promise!End, Promise!Become, LocalTabs
      <4> QED BY <4>1 DEF Promise!Next
    <3> QED BY <3>3, <3>4, <3>5, <3>6
  <2> QED BY <2>3, <2>4
<1>5. ASSUME NEW w \in Workers, ApplySessionEvent(w)
      PROVE  [Promise!Next]_(Promise!vars)
  <2>1. UNCHANGED <<tab, handle, phase, owner>>
    BY <1>5 DEF ApplySessionEvent, ShowConnected, ShowClosed, ShowAlive, PutOutput
  <2>2. \A s \in LocalTabs : SessionOf(s)' = SessionOf(s)
    BY <2>1 DEF SessionOf
  <2>3. \A s \in LocalTabs : s # owner[w] => ShownOf(s)' = ShownOf(s)
    BY <1>5, <2>1 DEF ApplySessionEvent, ShowConnected, ShowClosed, ShowAlive,
             PutOutput, ShownOf, LocalTabs, TypeOK
  <2>4. CASE \A s \in LocalTabs : ShownOf(s)' = ShownOf(s)
    BY <2>2, <2>4, NoTabMoves
  <2>5. ASSUME NEW t \in LocalTabs, ShownOf(t)' # ShownOf(t)
        PROVE  [Promise!Next]_(Promise!vars)
    <3>1. /\ t \in Tabs /\ t = owner[w] /\ tab[t] = "open" /\ state'[t] # state[t]
          /\ \A s \in LocalTabs \ {t} : ShownOf(s)' = ShownOf(s)
      <4>1. t \in Tabs /\ t = owner[w]
        BY <2>3, <2>5 DEF LocalTabs
      <4>2. tab[t] = "open"
        BY <2>1, <2>5 DEF ShownOf
      <4>3. state'[t] # state[t]
        BY <2>1, <2>5, <4>1 DEF ShownOf, TypeOK
      <4>4. \A s \in LocalTabs \ {t} : ShownOf(s)' = ShownOf(s)
        BY <2>3, <4>1
      <4> QED BY <4>1, <4>2, <4>3, <4>4
    <3>2. events[w] # <<>> /\ events[w] \in Seq(Report)
      BY <1>5 DEF ApplySessionEvent, ShowConnected, ShowClosed, ShowAlive,
               PutOutput, TypeOK
    <3>3. Len(events[w]) \in Nat /\ Len(events[w]) > 0 /\ Head(events[w]) = events[w][1]
      BY <3>2, TailFacts
    <3>4. /\ IsKind(w, {"local"}) /\ ReportsInOrder(w)
      BY <3>1 DEF LocalTabs, IsKind, LocalInv, LocalReportsInOrder
    <3>5. \/ events[w][1] = "Connected" /\ state'[t] = 1
          \/ events[w][1] = "Closed" /\ state'[t] = 2
      <4>1. events[w][1] # "ResourceStats"
        BY <3>3, <3>4 DEF ReportsInOrder
      <4>2. \/ Head(events[w]) = "Connected" /\ state' = [state EXCEPT ![t] = 1]
            \/ Head(events[w]) = "Closed" /\ state' = [state EXCEPT ![t] = 2]
            \/ Head(events[w]) = "ResourceStats"
            \/ state' = state
        BY <1>5, <3>1 DEF ApplySessionEvent, ShowConnected, ShowClosed,
                 ShowAlive, PutOutput
      <4> QED BY <3>1, <3>3, <4>1, <4>2 DEF TypeOK
    <3>6. ~OnlyOutput(w)
      BY <3>3, <3>5 DEF OnlyOutput
    <3>7. handle[t] = w /\ state[t] \in {0, 1}
      BY <2>5, <3>1, <3>4, <3>6
         DEF LocalInv, LocalReplacedIsOver, LocalShownIsTrue, TypeOK
    <3>8. CASE events[w][1] = "Connected" /\ state'[t] = 1
      <4>1. Reached(w)
        BY <3>3, <3>4, <3>8 DEF ReportsInOrder
      <4>2. /\ ShownOf(t) = "connecting" /\ ShownOf(t)' = "connected"
            /\ SessionOf(t) \in {"live", "over"}
        BY <2>1, <3>1, <3>7, <3>8, <4>1 DEF ShownOf, SessionOf, Reached
      <4>3. Promise!ShowConnected(t)
        BY <2>2, <3>1, <4>2, OneTabMoves
           DEF Promise!ShowConnected, Promise!Show, LocalTabs
      <4> QED BY <2>5, <4>3 DEF Promise!Next
    <3>9. CASE events[w][1] = "Closed" /\ state'[t] = 2
      <4>1. phase[w] = "done"
        BY <3>3, <3>4, <3>9 DEF ReportsInOrder
      <4>2. /\ ShownOf(t) \in {"connecting", "connected"}
            /\ ShownOf(t)' = "disconnected" /\ SessionOf(t) = "over"
        BY <2>1, <3>1, <3>7, <3>9, <4>1 DEF ShownOf, SessionOf
      <4>3. Promise!ShowDisconnected(t)
        BY <2>2, <3>1, <4>2, OneTabMoves
           DEF Promise!ShowDisconnected, Promise!Show, LocalTabs
      <4> QED BY <2>5, <4>3 DEF Promise!Next
    <3> QED BY <3>5, <3>8, <3>9
  <2> QED BY <2>4, <2>5
<1>6. CASE UNCHANGED <<uiVars, phase>>
  BY <1>6, NoTabMoves DEF uiVars, ShownOf, SessionOf
<1>7. SendKey \/ (\E w \in Workers : SftpEnds(w)) \/ UNCHANGED vars
        => UNCHANGED <<uiVars, phase>>
  BY DEF SendKey, Type, SftpEnds, uiVars, vars
<1> QED BY <1>1, <1>2, <1>3, <1>4, <1>5, <1>6, <1>7 DEF Next, UI

(* The tabs of local shells implement the promise of TabPromise, the part  *)
(* of it that says what may be shown when (its fairness is checked by TLC).*)
THEOREM LocalTabsRefine == Spec => Promise!Init /\ [][Promise!Next]_(Promise!vars)
<1>1. Init => Promise!Init
  BY DEF Init, Promise!Init, ShownOf, SessionOf, LocalTabs
<1>2. TypeOK /\ HandlesAgree /\ LocalInv /\ [Next]_vars
        => [Promise!Next]_(Promise!vars)
  BY StepKeepsPromise
<1> QED BY <1>1, <1>2, TypeCorrect, HandlesAlwaysAgree, LocalTabsInOrder, PTL
     DEF Spec

-----------------------------------------------------------------------------
(* The second part: the ZMODEM receiver. *)

(***************************************************************************)
(* Sequences that grow at one end and shrink at the other.                 *)
(***************************************************************************)

Behind(s, k) == [i \in 1..(Len(s) - k) |-> s[i + k]]

LEMMA JoinFacts ==
  ASSUME NEW S, NEW a \in Seq(S), NEW b \in Seq(S)
  PROVE  /\ a \o b \in Seq(S) /\ Len(a \o b) = Len(a) + Len(b)
         /\ DOMAIN (a \o b) = 1..(Len(a) + Len(b))
         /\ Len(a) \in Nat /\ Len(b) \in Nat
         /\ \A i \in 1..(Len(a) + Len(b)) :
              (a \o b)[i] = IF i <= Len(a) THEN a[i] ELSE b[i - Len(a)]
  OBVIOUS

LEMMA BehindFacts ==
  ASSUME NEW S, NEW s \in Seq(S), NEW k \in 0..Len(s)
  PROVE  /\ Behind(s, k) \in Seq(S) /\ Len(Behind(s, k)) = Len(s) - k
         /\ DOMAIN Behind(s, k) = 1..(Len(s) - k)
         /\ \A i \in 1..(Len(s) - k) : i + k \in 1..Len(s) /\ Behind(s, k)[i] = s[i + k]
         /\ Behind(s, 0) = s
         /\ k = Len(s) => Behind(s, k) = <<>>
<1>1. Len(s) \in Nat /\ s = [i \in 1..Len(s) |-> s[i]] /\ \A i \in 1..Len(s) : s[i] \in S
  OBVIOUS
<1>2. \A i \in 1..(Len(s) - k) : i + k \in 1..Len(s)
  BY <1>1
<1>3. Behind(s, k) \in [1..(Len(s) - k) -> S] /\ Len(s) - k \in Nat
  BY <1>1, <1>2 DEF Behind
<1>4. Behind(s, k) \in Seq(S) /\ Len(Behind(s, k)) = Len(s) - k
  BY <1>3
<1>5. Behind(s, 0) = s
  BY <1>1 DEF Behind
<1> QED BY <1>1, <1>2, <1>3, <1>4, <1>5 DEF Behind

(* What is the same at every place is the same sequence. *)
LEMMA SameSeq ==
  ASSUME NEW S, NEW a \in Seq(S), NEW b \in Seq(S), Len(a) = Len(b),
         \A i \in 1..Len(a) : a[i] = b[i]
  PROVE  a = b
  OBVIOUS

LEMMA TailBehind ==
  ASSUME NEW S, NEW a \in Seq(S), NEW b \in Seq(S), a # <<>>
  PROVE  /\ Tail(a) \in Seq(S) /\ Head(a) \in S /\ Head(a) = a[1]
         /\ Len(a \o b) >= 1 /\ (a \o b)[1] = Head(a)
         /\ Tail(a) \o b = Behind(a \o b, 1)
<1>1. Tail(a) \in Seq(S) /\ Head(a) \in S /\ Head(a) = a[1] /\ Len(a) \in Nat /\ Len(a) >= 1
      /\ Len(Tail(a)) = Len(a) - 1 /\ \A i \in 1..(Len(a) - 1) : Tail(a)[i] = a[i + 1]
  OBVIOUS
<1>2. PICK c : c = a \o b
  OBVIOUS
<1>3. c \in Seq(S) /\ Len(c) = Len(a) + Len(b) /\ Len(b) \in Nat
      /\ \A i \in 1..(Len(a) + Len(b)) : c[i] = IF i <= Len(a) THEN a[i] ELSE b[i - Len(a)]
  BY <1>2, JoinFacts
<1>4. PICK d : d = Tail(a) \o b
  OBVIOUS
<1>5. d \in Seq(S) /\ Len(d) = Len(a) - 1 + Len(b)
      /\ \A i \in 1..(Len(a) - 1 + Len(b)) : d[i] = IF i <= Len(a) - 1 THEN Tail(a)[i] ELSE b[i - (Len(a) - 1)]
  BY <1>1, <1>4, JoinFacts
<1>6. PICK e : e = Behind(c, 1)
  OBVIOUS
<1>7. e \in Seq(S) /\ Len(e) = Len(c) - 1 /\ \A i \in 1..(Len(c) - 1) : e[i] = c[i + 1]
  <2>1. 1 \in 0..Len(c) /\ c \in Seq(S)
    BY <1>1, <1>3
  <2>2. /\ Behind(c, 1) \in Seq(S) /\ Len(Behind(c, 1)) = Len(c) - 1
        /\ \A i \in 1..(Len(c) - 1) : Behind(c, 1)[i] = c[i + 1]
    BY <2>1, BehindFacts
  <2> QED BY <2>2, <1>6
<1>8. \A i \in 1..Len(d) : d[i] = e[i]
  <2> SUFFICES ASSUME NEW i \in 1..Len(d) PROVE d[i] = e[i]
    OBVIOUS
  <2>1. i \in 1..(Len(a) - 1 + Len(b)) /\ i + 1 \in 1..(Len(a) + Len(b)) /\ i \in 1..(Len(c) - 1)
    BY <1>1, <1>3, <1>5
  <2>2. e[i] = IF i + 1 <= Len(a) THEN a[i + 1] ELSE b[i + 1 - Len(a)]
    BY <2>1, <1>3, <1>7
  <2>3. CASE i <= Len(a) - 1
    BY <2>1, <2>2, <2>3, <1>1, <1>5
  <2>4. CASE ~(i <= Len(a) - 1)
    <3>1. i - (Len(a) - 1) = i + 1 - Len(a)  BY <1>1, <2>1
    <3> QED BY <2>1, <2>2, <2>4, <3>1, <1>1, <1>5
  <2> QED BY <2>3, <2>4
<1>9. d = e
  <2>1. Len(d) = Len(e)  BY <1>1, <1>3, <1>5, <1>7
  <2> QED BY <2>1, <1>5, <1>7, <1>8, SameSeq
<1>10. Len(c) >= 1 /\ c[1] = Head(a)
  BY <1>1, <1>3
<1> QED BY <1>1, <1>2, <1>4, <1>6, <1>9, <1>10

LEMMA AllBehind ==
  ASSUME NEW S, NEW a \in Seq(S), NEW b \in Seq(S)
  PROVE  /\ Len(a) \in 0..Len(a \o b) /\ <<>> \o b = b /\ b = Behind(a \o b, Len(a))
         /\ \A i \in 1..Len(a) : i \in 1..Len(a \o b) /\ (a \o b)[i] = a[i]
<1>1. Len(a) \in Nat /\ Len(b) \in Nat
  OBVIOUS
<1>2. PICK c : c = a \o b
  OBVIOUS
<1>3. c \in Seq(S) /\ Len(c) = Len(a) + Len(b)
      /\ \A i \in 1..(Len(a) + Len(b)) : c[i] = IF i <= Len(a) THEN a[i] ELSE b[i - Len(a)]
  BY <1>2, JoinFacts
<1>4. Len(a) \in 0..Len(c)
  BY <1>1, <1>3
<1>5. PICK e : e = Behind(c, Len(a))
  OBVIOUS
<1>6. e \in Seq(S) /\ Len(e) = Len(c) - Len(a) /\ \A i \in 1..(Len(c) - Len(a)) : e[i] = c[i + Len(a)]
  BY <1>3, <1>4, <1>5, BehindFacts
<1>7. \A i \in 1..Len(b) : b[i] = e[i]
  <2> SUFFICES ASSUME NEW i \in 1..Len(b) PROVE b[i] = e[i]
    OBVIOUS
  <2>1. i \in 1..(Len(c) - Len(a)) /\ i + Len(a) \in 1..(Len(a) + Len(b)) /\ ~(i + Len(a) <= Len(a))
        /\ i + Len(a) - Len(a) = i
    BY <1>1, <1>3
  <2>2. e[i] = c[i + Len(a)]
    BY <2>1, <1>6
  <2>3. c[i + Len(a)] = b[i + Len(a) - Len(a)]
    BY <2>1, <1>3
  <2> QED BY <2>1, <2>2, <2>3
<1>8. b = e
  <2>1. Len(b) = Len(e)  BY <1>1, <1>3, <1>6
  <2> QED BY <2>1, <1>6, <1>7, SameSeq
<1>9. <<>> \o b = b
  OBVIOUS
<1>10. \A i \in 1..Len(a) : i \in 1..Len(c) /\ c[i] = a[i]
  BY <1>1, <1>3
<1> QED BY <1>2, <1>4, <1>5, <1>8, <1>9, <1>10

(* A read takes the first n of a sequence from the others. *)
LEMMA CutFacts ==
  ASSUME NEW S, NEW s \in Seq(S), NEW n \in 1..Len(s)
  PROVE  /\ SubSeq(s, 1, n) \in Seq(S) /\ SubSeq(s, n + 1, Len(s)) \in Seq(S)
         /\ Len(SubSeq(s, 1, n)) = n /\ SubSeq(s, 1, n) # <<>>
         /\ \A i \in 1..n : SubSeq(s, 1, n)[i] = s[i]
         /\ SubSeq(s, n + 1, Len(s)) = Behind(s, n)
         /\ SubSeq(s, 1, n) \o SubSeq(s, n + 1, Len(s)) = s
<1>1. Len(s) \in Nat /\ n \in Nat /\ n >= 1 /\ n <= Len(s)
  OBVIOUS
<1>2. PICK h : h = SubSeq(s, 1, n)
  OBVIOUS
<1>3. h \in Seq(S) /\ Len(h) = n /\ \A i \in 1..n : h[i] = s[i]
  BY <1>1, <1>2
<1>4. PICK t : t = SubSeq(s, n + 1, Len(s))
  OBVIOUS
<1>5. t \in Seq(S) /\ Len(t) = Len(s) - n /\ \A i \in 1..(Len(s) - n) : t[i] = s[i + n]
  BY <1>1, <1>4
<1>6. t = Behind(s, n)
  <2>1. n \in 0..Len(s)  BY <1>1
  <2>2. PICK e : e = Behind(s, n)  OBVIOUS
  <2>3. e \in Seq(S) /\ Len(e) = Len(s) - n /\ \A i \in 1..(Len(s) - n) : e[i] = s[i + n]
    BY <2>1, <2>2, BehindFacts
  <2>4. Len(t) = Len(e) /\ \A i \in 1..Len(t) : t[i] = e[i]
    BY <2>3, <1>5
  <2>5. t = e
    BY <2>3, <2>4, <1>5, SameSeq
  <2> QED BY <2>2, <2>5
<1>7. h \o t = s
  <2>1. PICK c : c = h \o t  OBVIOUS
  <2>9. Len(h) + Len(t) = Len(s)
    BY <1>1, <1>3, <1>5
  <2>8. c \in Seq(S) /\ Len(c) = Len(h) + Len(t)
        /\ \A i \in 1..(Len(h) + Len(t)) : c[i] = IF i <= Len(h) THEN h[i] ELSE t[i - Len(h)]
    <3>1. h \in Seq(S) /\ t \in Seq(S)  BY <1>3, <1>5
    <3> QED BY <2>1, <3>1, JoinFacts
  <2>2. c \in Seq(S) /\ Len(c) = Len(s)
        /\ \A i \in 1..Len(s) : c[i] = IF i <= n THEN h[i] ELSE t[i - n]
    BY <2>8, <2>9, <1>3
  <2>3. \A i \in 1..Len(c) : c[i] = s[i]
    <3> SUFFICES ASSUME NEW i \in 1..Len(c) PROVE c[i] = s[i]
      OBVIOUS
    <3>1. CASE i <= n
      BY <3>1, <2>2, <1>1, <1>3
    <3>2. CASE ~(i <= n)
      <4>1. i - n \in 1..(Len(s) - n) /\ i - n + n = i /\ i \in 1..Len(s)
        BY <3>2, <2>2, <1>1
      <4>2. c[i] = t[i - n]
        BY <3>2, <4>1, <2>2
      <4>3. t[i - n] = s[i - n + n]
        BY <4>1, <1>5
      <4> QED BY <4>1, <4>2, <4>3
    <3> QED BY <3>1, <3>2
  <2>4. c = s
    BY <2>2, <2>3, SameSeq
  <2> QED BY <2>1, <2>4
<1>8. h # <<>>
  BY <1>1, <1>3
<1> QED BY <1>2, <1>3, <1>4, <1>5, <1>6, <1>7, <1>8

LEMMA JoinAgain ==
  ASSUME NEW S, NEW a \in Seq(S), NEW b \in Seq(S), NEW c \in Seq(S)
  PROVE  a \o (b \o c) = (a \o b) \o c
<1>1. Len(a) \in Nat /\ Len(b) \in Nat /\ Len(c) \in Nat
  OBVIOUS
<1>2. PICK bc, ab : bc = b \o c /\ ab = a \o b
  OBVIOUS
<1>3. bc \in Seq(S) /\ Len(bc) = Len(b) + Len(c)
      /\ \A i \in 1..(Len(b) + Len(c)) : bc[i] = IF i <= Len(b) THEN b[i] ELSE c[i - Len(b)]
  BY <1>2, JoinFacts
<1>4. ab \in Seq(S) /\ Len(ab) = Len(a) + Len(b)
      /\ \A i \in 1..(Len(a) + Len(b)) : ab[i] = IF i <= Len(a) THEN a[i] ELSE b[i - Len(a)]
  BY <1>2, JoinFacts
<1>5. PICK l, r : l = a \o bc /\ r = ab \o c
  OBVIOUS
<1>6. l \in Seq(S) /\ Len(l) = Len(a) + Len(bc)
      /\ \A i \in 1..(Len(a) + Len(bc)) : l[i] = IF i <= Len(a) THEN a[i] ELSE bc[i - Len(a)]
  <2>1. bc \in Seq(S) /\ l = a \o bc  BY <1>3, <1>5
  <2> QED BY <2>1, JoinFacts
<1>7. r \in Seq(S) /\ Len(r) = Len(ab) + Len(c)
      /\ \A i \in 1..(Len(ab) + Len(c)) : r[i] = IF i <= Len(ab) THEN ab[i] ELSE c[i - Len(ab)]
  <2>1. ab \in Seq(S) /\ r = ab \o c  BY <1>4, <1>5
  <2> QED BY <2>1, JoinFacts
<1>8. Len(l) = Len(r) /\ Len(l) = Len(a) + Len(b) + Len(c)
  BY <1>1, <1>3, <1>4, <1>6, <1>7
<1>9. \A i \in 1..Len(l) : l[i] = r[i]
  <2> SUFFICES ASSUME NEW i \in 1..Len(l) PROVE l[i] = r[i]
    OBVIOUS
  <2>1. CASE i <= Len(a)
    <3>1. i \in 1..(Len(a) + Len(bc)) /\ i \in 1..(Len(ab) + Len(c)) /\ i <= Len(ab)
          /\ i \in 1..(Len(a) + Len(b))
      BY <2>1, <1>1, <1>3, <1>4, <1>8
    <3>2. l[i] = a[i]
      BY <2>1, <3>1, <1>6
    <3>3. r[i] = a[i]
      BY <2>1, <3>1, <1>4, <1>7
    <3> QED BY <3>2, <3>3
  <2>2. CASE i > Len(a) /\ i <= Len(a) + Len(b)
    <3>1. i - Len(a) \in 1..Len(b) /\ i - Len(a) \in 1..(Len(b) + Len(c)) /\ i \in 1..(Len(a) + Len(bc))
          /\ i \in 1..(Len(ab) + Len(c)) /\ i <= Len(ab) /\ i \in 1..(Len(a) + Len(b)) /\ ~(i <= Len(a))
      BY <2>2, <1>1, <1>3, <1>4, <1>8
    <3>2. l[i] = b[i - Len(a)]
      BY <3>1, <1>3, <1>6
    <3>3. r[i] = b[i - Len(a)]
      BY <3>1, <1>4, <1>7
    <3> QED BY <3>2, <3>3
  <2>3. CASE i > Len(a) + Len(b)
    <3>1. i - Len(a) \in 1..(Len(b) + Len(c)) /\ ~(i - Len(a) <= Len(b)) /\ i \in 1..(Len(a) + Len(bc))
          /\ i \in 1..(Len(ab) + Len(c)) /\ ~(i <= Len(ab)) /\ ~(i <= Len(a))
          /\ i - Len(a) - Len(b) = i - Len(ab)
      BY <2>3, <1>1, <1>3, <1>4, <1>8
    <3>2. l[i] = c[i - Len(a) - Len(b)]
      BY <3>1, <1>3, <1>6
    <3>3. r[i] = c[i - Len(ab)]
      BY <3>1, <1>4, <1>7
    <3> QED BY <3>1, <3>2, <3>3
  <2> QED BY <2>1, <2>2, <2>3, <1>1, <1>8
<1>10. l = r
  BY <1>6, <1>7, <1>8, <1>9, SameSeq
<1> QED BY <1>2, <1>5, <1>10

(* One more at the end of a sequence. *)
LEMMA OneMore ==
  ASSUME NEW S, NEW s \in Seq(S), NEW e \in S
  PROVE  /\ Append(s, e) \in Seq(S) /\ Len(Append(s, e)) = Len(s) + 1 /\ Len(s) \in Nat
         /\ 1..Len(Append(s, e)) = 1..Len(s) \cup {Len(s) + 1}
         /\ Append(s, e)[Len(s) + 1] = e
         /\ \A i \in 1..Len(s) : Append(s, e)[i] = s[i]
  OBVIOUS

LEMMA AppendIsJoin ==
  ASSUME NEW S, NEW a \in Seq(S), NEW b \in Seq(S), NEW t \in S
  PROVE  a \o Append(b, t) = Append(a \o b, t) /\ a \o <<t>> = Append(a, t)
<1>1. <<t>> \in Seq(S) /\ Append(b, t) = b \o <<t>>
  OBVIOUS
<1>2. a \o b \in Seq(S)
  OBVIOUS
<1>3. Append(a \o b, t) = (a \o b) \o <<t>>
  BY <1>2
<1>4. a \o <<t>> = Append(a, t)
  OBVIOUS
<1> QED BY <1>1, <1>3, <1>4, JoinAgain

LEMMA PairJoin ==
  ASSUME NEW S, NEW t \in S, NEW u \in S
  PROVE  <<t>> \o <<u>> = <<t, u>>
<1>1. <<t>> \in Seq(S)
  OBVIOUS
<1>2. <<t>> \o <<u>> = Append(<<t>>, u)
  BY <1>1, AppendIsJoin
<1>3. <<t>> \in Seq(S) /\ <<t, u>> = Append(<<t>>, u)
  OBVIOUS
<1> QED BY <1>2, <1>3

-----------------------------------------------------------------------------
(* What is in a sequence, and what stands behind what. *)
Only(s, X)       == \A i \in 1..Len(s) : s[i] \in X
Contains(s, X)   == \E i \in 1..Len(s) : s[i] \in X
Follows(s, X, Y) == \E i, j \in 1..Len(s) : i < j /\ s[i] \in X /\ s[j] \in Y

LEMMA OneMoreHolds ==
  ASSUME NEW S, NEW s \in Seq(S), NEW e \in S, NEW X, NEW Y
  PROVE  /\ Only(Append(s, e), X) <=> Only(s, X) /\ e \in X
         /\ Contains(Append(s, e), X) <=> Contains(s, X) \/ e \in X
         /\ Follows(Append(s, e), X, Y) <=>
              Follows(s, X, Y) \/ (Contains(s, X) /\ e \in Y)
<1>1. PICK a : a = Append(s, e)
  OBVIOUS
<1>2. PICK n \in Nat : n = Len(s)
  OBVIOUS
<1>3. /\ Len(a) = n + 1 /\ 1..(n + 1) = 1..n \cup {n + 1}
      /\ a[n + 1] = e /\ \A i \in 1..n : a[i] = s[i]
  BY <1>1, <1>2, OneMore
<1>4. \A i \in 1..n : i < n + 1 /\ i \in 1..(n + 1)
  BY <1>2
<1>5. Only(a, X) <=> Only(s, X) /\ e \in X
  BY <1>2, <1>3, Zenon DEF Only
<1>6. Contains(a, X) <=> Contains(s, X) \/ e \in X
  BY <1>2, <1>3, Zenon DEF Contains
<1>7. Follows(s, X, Y) => Follows(a, X, Y)
  BY <1>2, <1>3, <1>4 DEF Follows
<1>8. Contains(s, X) /\ e \in Y => Follows(a, X, Y)
  <2> SUFFICES ASSUME Contains(s, X), e \in Y PROVE Follows(a, X, Y)
    OBVIOUS
  <2>1. PICK i \in 1..n : s[i] \in X
    BY <1>2 DEF Contains
  <2>2. i \in 1..Len(a) /\ n + 1 \in 1..Len(a) /\ i < n + 1 /\ a[i] \in X /\ a[n + 1] \in Y
    BY <2>1, <1>2, <1>3, <1>4
  <2> QED BY <2>2 DEF Follows
<1>9. ASSUME Follows(a, X, Y) PROVE Follows(s, X, Y) \/ (Contains(s, X) /\ e \in Y)
  <2>1. PICK i, j \in 1..(n + 1) : i < j /\ a[i] \in X /\ a[j] \in Y
    BY <1>3, <1>9 DEF Follows
  <2>2. i \in 1..n /\ s[i] \in X
    BY <2>1, <1>2, <1>3
  <2>3. CASE j \in 1..n
    BY <2>1, <2>2, <2>3, <1>2, <1>3 DEF Follows
  <2>4. CASE j = n + 1
    BY <2>1, <2>2, <2>4, <1>2, <1>3 DEF Contains
  <2> QED BY <2>1, <2>3, <2>4, <1>3
<1> QED BY <1>1, <1>5, <1>6, <1>7, <1>8, <1>9

LEMMA BehindHolds ==
  ASSUME NEW S, NEW s \in Seq(S), NEW k \in 0..Len(s), NEW X, NEW Y
  PROVE  /\ Only(s, X) => Only(Behind(s, k), X)
         /\ Contains(Behind(s, k), X) => Contains(s, X)
         /\ Follows(Behind(s, k), X, Y) => Follows(s, X, Y)
<1>1. PICK n \in Nat : n = Len(s)
  OBVIOUS
<1>2. PICK b : b = Behind(s, k)
  OBVIOUS
<1>3. Len(b) = n - k /\ \A i \in 1..(n - k) : i + k \in 1..n /\ b[i] = s[i + k]
  BY <1>1, <1>2, BehindFacts
<1>4. Only(s, X) => Only(b, X)
  BY <1>1, <1>3 DEF Only
<1>5. Contains(b, X) => Contains(s, X)
  BY <1>1, <1>3 DEF Contains
<1>6. ASSUME Follows(b, X, Y) PROVE Follows(s, X, Y)
  <2>1. PICK i, j \in 1..(n - k) : i < j /\ b[i] \in X /\ b[j] \in Y
    BY <1>3, <1>6 DEF Follows
  <2>2. i + k \in 1..n /\ j + k \in 1..n /\ s[i + k] \in X /\ s[j + k] \in Y
    BY <2>1, <1>3
  <2>3. i + k < j + k
    BY <2>1, <1>1
  <2> QED BY <2>2, <2>3, <1>1 DEF Follows
<1> QED BY <1>2, <1>4, <1>5, <1>6

(* What may not stand behind the first is nowhere behind it. *)
LEMMA BehindTheFirst ==
  ASSUME NEW S, NEW s \in Seq(S), Len(s) >= 1, NEW X, NEW Y,
         s[1] \in X, ~Follows(s, X, Y)
  PROVE  ~Contains(Behind(s, 1), Y) /\ Only(Behind(s, 1), S \ Y)
<1>1. PICK n \in Nat : n = Len(s) /\ n >= 1
  OBVIOUS
<1>2. PICK b : b = Behind(s, 1)
  OBVIOUS
<1>3. Len(b) = n - 1 /\ \A i \in 1..(n - 1) : i + 1 \in 1..n /\ b[i] = s[i + 1]
  <2>1. 1 \in 0..Len(s)  BY <1>1
  <2> QED BY <2>1, <1>1, <1>2, BehindFacts
<1>4. ASSUME NEW i \in 1..(n - 1) PROVE b[i] \in S /\ b[i] \notin Y
  <2>1. 1 < i + 1 /\ 1 \in 1..n /\ i + 1 \in 1..n /\ b[i] = s[i + 1]
    BY <1>1, <1>3
  <2>2. s[i + 1] \in S
    BY <2>1, <1>1
  <2>3. s[i + 1] \notin Y
    BY <2>1, <1>1 DEF Follows
  <2> QED BY <2>1, <2>2, <2>3
<1> QED BY <1>2, <1>3, <1>4 DEF Contains, Only

LEMMA OnlyFirst ==
  ASSUME NEW S, NEW s \in Seq(S), NEW X
  PROVE  /\ Only(s, X) /\ Len(s) >= 1 => s[1] \in X
         /\ Only(<<>>, X) /\ ~Contains(<<>>, X)
         /\ s = <<>> <=> ~(Len(s) >= 1)
<1>1. Len(s) >= 1 => 1 \in 1..Len(s)
  OBVIOUS
<1>2. 1..Len(<<>>) = {}
  OBVIOUS
<1>3. s = <<>> <=> ~(Len(s) >= 1)
  OBVIOUS
<1> QED BY <1>1, <1>2, <1>3 DEF Only, Contains

-----------------------------------------------------------------------------
(* What the sender will read: nothing counts behind an answer that ends it. *)
Killers == {"CANCEL", "ZFIN"}
Doomed(h) == \E i \in 1..Len(h) : h[i] \in Killers
Clear(h, i) == \A l \in 1..(i - 1) : h[l] \notin Killers
Has(h, k) == \E i \in 1..Len(h) : h[i] = k /\ Clear(h, i)
Then(h, j, k) == \E i, l \in 1..Len(h) : i < l /\ h[i] = j /\ h[l] = k /\ Clear(h, l)

LEMMA OneMoreReply ==
  ASSUME NEW h \in Seq(Replies), NEW e \in Replies, NEW j, NEW k
  PROVE  /\ Doomed(Append(h, e)) <=> Doomed(h) \/ e \in Killers
         /\ Has(Append(h, e), k) <=> Has(h, k) \/ (~Doomed(h) /\ e = k)
         /\ Then(Append(h, e), j, k) <=>
              Then(h, j, k) \/ (Has(h, j) /\ ~Doomed(h) /\ e = k)
<1>1. PICK a : a = Append(h, e)
  OBVIOUS
<1>2. PICK n \in Nat : n = Len(h)
  OBVIOUS
<1>3. /\ Len(a) = n + 1 /\ 1..(n + 1) = 1..n \cup {n + 1}
      /\ a[n + 1] = e /\ \A i \in 1..n : a[i] = h[i]
  BY <1>1, <1>2, OneMore
<1>4. \A i \in 1..n : 1..(i - 1) \subseteq 1..n /\ i < n + 1
  BY <1>2
<1>5. \A i \in 1..n : Clear(a, i) <=> Clear(h, i)
  BY <1>3, <1>4 DEF Clear
<1>6. Clear(a, n + 1) <=> ~Doomed(h)
  <2>1. 1..(n + 1 - 1) = 1..n  BY <1>2
  <2> QED BY <2>1, <1>2, <1>3 DEF Clear, Doomed
<1>7. Doomed(a) <=> Doomed(h) \/ e \in Killers
  BY <1>2, <1>3, Zenon DEF Doomed
<1>8. Has(a, k) <=> Has(h, k) \/ (~Doomed(h) /\ e = k)
  BY <1>2, <1>3, <1>5, <1>6, Zenon DEF Has
<1>9. ~Doomed(h) => \A i \in 1..n : Clear(h, i)
  BY <1>2, <1>4 DEF Doomed, Clear
<1>10. Then(h, j, k) => Then(a, j, k)
  <2> SUFFICES ASSUME Then(h, j, k) PROVE Then(a, j, k)
    OBVIOUS
  <2>1. PICK i, l \in 1..n : i < l /\ h[i] = j /\ h[l] = k /\ Clear(h, l)
    BY <1>2 DEF Then
  <2>2. i \in 1..Len(a) /\ l \in 1..Len(a) /\ a[i] = j /\ a[l] = k /\ Clear(a, l)
    BY <2>1, <1>3, <1>5
  <2> QED BY <2>1, <2>2 DEF Then
<1>11. Has(h, j) /\ ~Doomed(h) /\ e = k => Then(a, j, k)
  <2> SUFFICES ASSUME Has(h, j), ~Doomed(h), e = k PROVE Then(a, j, k)
    OBVIOUS
  <2>1. PICK i \in 1..n : h[i] = j
    BY <1>2 DEF Has
  <2>2. i < n + 1 /\ i \in 1..Len(a) /\ n + 1 \in 1..Len(a) /\ a[i] = j /\ a[n + 1] = k
        /\ Clear(a, n + 1)
    BY <2>1, <1>3, <1>4, <1>6
  <2> QED BY <2>2 DEF Then
<1>12. ASSUME Then(a, j, k) PROVE Then(h, j, k) \/ (Has(h, j) /\ ~Doomed(h) /\ e = k)
  <2>1. PICK i, l \in 1..(n + 1) : i < l /\ a[i] = j /\ a[l] = k /\ Clear(a, l)
    BY <1>3, <1>12 DEF Then
  <2>2. i \in 1..n /\ h[i] = j
    BY <2>1, <1>2, <1>3
  <2>3. CASE l \in 1..n
    BY <2>1, <2>2, <2>3, <1>2, <1>3, <1>5 DEF Then
  <2>4. CASE l = n + 1
    <3>1. ~Doomed(h) /\ e = k
      BY <2>1, <2>4, <1>3, <1>6
    <3> QED BY <3>1, <2>2, <1>2, <1>9 DEF Has
  <2> QED BY <2>1, <2>3, <2>4, <1>3
<1> QED BY <1>1, <1>7, <1>8, <1>10, <1>11, <1>12

LEMMA ReplyRead ==
  ASSUME NEW h \in Seq(Replies), h # <<>>, NEW j, NEW k
  PROVE  /\ Tail(h) \in Seq(Replies) /\ Head(h) \in Replies
         /\ Has(h, Head(h))
         /\ Head(h) \notin Killers =>
              /\ Doomed(Tail(h)) <=> Doomed(h)
              /\ Has(h, k) <=> Head(h) = k \/ Has(Tail(h), k)
              /\ Then(h, j, k) <=> Then(Tail(h), j, k) \/ (Head(h) = j /\ Has(Tail(h), k))
<1>1. PICK a, e : a = Tail(h) /\ e = Head(h)
  OBVIOUS
<1>2. PICK n \in Nat : n = Len(h) /\ n >= 1
  OBVIOUS
<1>3. /\ a \in Seq(Replies) /\ Len(a) = n - 1 /\ e \in Replies /\ h[1] = e
      /\ \A i \in 1..(n - 1) : a[i] = h[i + 1]
  BY <1>1, <1>2
<1>4. Has(h, e)
  <2>1. Clear(h, 1)  BY DEF Clear
  <2> QED BY <2>1, <1>2, <1>3 DEF Has
<1>5. /\ \A i \in 1..(n - 1) : i + 1 \in 1..n /\ i + 1 > 1
      /\ \A i \in 1..n : i = 1 \/ (i - 1 \in 1..(n - 1) /\ i - 1 + 1 = i)
  BY <1>2
<1>6. ASSUME e \notin Killers
      PROVE  \A i \in 1..(n - 1) : Clear(a, i) <=> Clear(h, i + 1)
  <2> SUFFICES ASSUME NEW i \in 1..(n - 1) PROVE Clear(a, i) <=> Clear(h, i + 1)
    OBVIOUS
  <2>1. ASSUME Clear(h, i + 1) PROVE Clear(a, i)
    <3> SUFFICES ASSUME NEW l \in 1..(i - 1) PROVE a[l] \notin Killers
      BY DEF Clear
    <3>1. l \in 1..(n - 1) /\ l + 1 \in 1..(i + 1 - 1)
      BY <1>2
    <3> QED BY <3>1, <2>1, <1>3 DEF Clear
  <2>2. ASSUME Clear(a, i) PROVE Clear(h, i + 1)
    <3> SUFFICES ASSUME NEW l \in 1..(i + 1 - 1) PROVE h[l] \notin Killers
      BY DEF Clear
    <3>1. CASE l = 1
      BY <3>1, <1>3, <1>6
    <3>2. CASE l # 1
      <4>1. l - 1 \in 1..(i - 1) /\ l - 1 \in 1..(n - 1) /\ l - 1 + 1 = l
        BY <3>2, <1>2
      <4>2. a[l - 1] = h[l]
        BY <4>1, <1>3
      <4> QED BY <4>1, <4>2, <2>2 DEF Clear
    <3> QED BY <3>1, <3>2
  <2> QED BY <2>1, <2>2
<1>7. ASSUME e \notin Killers PROVE Doomed(a) <=> Doomed(h)
  <2>1. ASSUME Doomed(a) PROVE Doomed(h)
    BY <2>1, <1>2, <1>3, <1>5 DEF Doomed
  <2>2. ASSUME Doomed(h) PROVE Doomed(a)
    <3>1. PICK i \in 1..n : h[i] \in Killers
      BY <2>2, <1>2 DEF Doomed
    <3>2. i - 1 \in 1..(n - 1) /\ i - 1 + 1 = i
      BY <3>1, <1>3, <1>5, <1>7
    <3>3. a[i - 1] \in Killers
      BY <3>1, <3>2, <1>3
    <3> QED BY <3>2, <3>3, <1>3 DEF Doomed
  <2> QED BY <2>1, <2>2
<1>8. ASSUME e \notin Killers PROVE Has(h, k) <=> e = k \/ Has(a, k)
  <2>1. ASSUME Has(a, k) PROVE Has(h, k)
    <3>1. PICK i \in 1..(n - 1) : a[i] = k /\ Clear(a, i)
      BY <2>1, <1>3 DEF Has
    <3>2. i + 1 \in 1..n /\ h[i + 1] = k /\ Clear(h, i + 1)
      BY <3>1, <1>3, <1>5, <1>6, <1>8
    <3> QED BY <3>2, <1>2 DEF Has
  <2>2. ASSUME Has(h, k), e # k PROVE Has(a, k)
    <3>1. PICK i \in 1..n : h[i] = k /\ Clear(h, i)
      BY <2>2, <1>2 DEF Has
    <3>2. i - 1 \in 1..(n - 1) /\ i - 1 + 1 = i
      BY <3>1, <2>2, <1>3, <1>5
    <3>3. a[i - 1] = k /\ Clear(a, i - 1)
      BY <3>1, <3>2, <1>3, <1>6, <1>8
    <3> QED BY <3>2, <3>3, <1>3 DEF Has
  <2> QED BY <2>1, <2>2, <1>4
<1>9. ASSUME e \notin Killers
      PROVE  Then(h, j, k) <=> Then(a, j, k) \/ (e = j /\ Has(a, k))
  <2>1. ASSUME Then(a, j, k) PROVE Then(h, j, k)
    <3>1. PICK i, l \in 1..(n - 1) : i < l /\ a[i] = j /\ a[l] = k /\ Clear(a, l)
      BY <2>1, <1>3 DEF Then
    <3>2. i + 1 < l + 1
      BY <3>1, <1>2
    <3>3. i + 1 \in 1..n /\ l + 1 \in 1..n /\ h[i + 1] = j /\ h[l + 1] = k /\ Clear(h, l + 1)
      BY <3>1, <1>3, <1>5, <1>6, <1>9
    <3> QED BY <3>2, <3>3, <1>2 DEF Then
  <2>2. ASSUME e = j, Has(a, k) PROVE Then(h, j, k)
    <3>1. PICK i \in 1..(n - 1) : a[i] = k /\ Clear(a, i)
      BY <2>2, <1>3 DEF Has
    <3>2. i + 1 \in 1..n /\ 1 \in 1..n /\ 1 < i + 1 /\ h[i + 1] = k /\ Clear(h, i + 1)
      BY <3>1, <1>2, <1>3, <1>5, <1>6, <1>9
    <3> QED BY <3>2, <2>2, <1>2, <1>3 DEF Then
  <2>3. ASSUME Then(h, j, k) PROVE Then(a, j, k) \/ (e = j /\ Has(a, k))
    <3>1. PICK i, l \in 1..n : i < l /\ h[i] = j /\ h[l] = k /\ Clear(h, l)
      BY <2>3, <1>2 DEF Then
    <3>2. l - 1 \in 1..(n - 1) /\ l - 1 + 1 = l
      BY <3>1, <1>2
    <3>3. a[l - 1] = k /\ Clear(a, l - 1)
      BY <3>1, <3>2, <1>3, <1>6, <1>9
    <3>4. CASE i = 1
      BY <3>1, <3>2, <3>3, <3>4, <1>3 DEF Has
    <3>5. CASE i # 1
      <4>1. i - 1 \in 1..(n - 1) /\ i - 1 + 1 = i /\ i - 1 < l - 1
        BY <3>1, <3>5, <1>2
      <4>2. a[i - 1] = j
        BY <4>1, <3>1, <1>3
      <4> QED BY <4>1, <4>2, <3>2, <3>3, <1>3 DEF Then
    <3> QED BY <3>4, <3>5
  <2> QED BY <2>1, <2>2, <2>3
<1> QED BY <1>1, <1>3, <1>4, <1>7, <1>8, <1>9

-----------------------------------------------------------------------------
(***************************************************************************)
(* What a step does, said of all that is coming: read and not yet          *)
(* consumed, or still in the channel.                                      *)
(***************************************************************************)
Coming == buf \o fromHost

Gone == sz.stage = "gone"

\* The name of a file comes with its header and its data.
Named == {t \in Tokens : t.kind \in {"ZFILE", "sub"} => t.file # 0}

ZmodemTypes ==
  /\ ZmodemTypeOK
  /\ sz.run = 0 => Gone
  /\ sz.stage \notin {"init", "gone"} => sz.file \in 1..FilesOf[sz.run]
  /\ Only(Coming, Named)

LEMMA ComingFacts ==
  ASSUME ZmodemTypeOK
  PROVE  /\ Coming \in Seq(Tokens) /\ Len(Coming) \in Nat /\ Len(buf) \in 0..Len(Coming)
         /\ DOMAIN Coming = 1..Len(Coming)
         /\ \A i \in 1..Len(Coming) : Coming[i] \in Tokens
         /\ \A i \in 1..Len(buf) : i \in 1..Len(Coming) /\ Coming[i] = buf[i]
         /\ buf = <<>> => Coming = fromHost
<1>1. buf \in Seq(Tokens) /\ fromHost \in Seq(Tokens)
  BY DEF ZmodemTypeOK
<1>2. Coming \in Seq(Tokens)
  BY <1>1, JoinFacts DEF Coming
<1>3. Len(buf) \in 0..Len(Coming) /\ \A i \in 1..Len(buf) : i \in 1..Len(Coming) /\ Coming[i] = buf[i]
  BY <1>1, AllBehind DEF Coming
<1>4. buf = <<>> => Coming = fromHost
  BY <1>1, AllBehind DEF Coming
<1>5. Len(Coming) \in Nat /\ DOMAIN Coming = 1..Len(Coming) /\ \A i \in 1..Len(Coming) : Coming[i] \in Tokens
  BY <1>2
<1> QED BY <1>2, <1>3, <1>4, <1>5

(* The first token is consumed. *)
LEMMA TakesOne ==
  ASSUME ZmodemTypeOK, buf # <<>>, buf' = Tail(buf), fromHost' = fromHost
  PROVE  /\ Len(Coming) >= 1 /\ Coming[1] = Head(buf) /\ Head(buf) \in Tokens
         /\ Coming' = Behind(Coming, 1) /\ buf' \in Seq(Tokens)
<1>1. buf \in Seq(Tokens) /\ fromHost \in Seq(Tokens)
  BY DEF ZmodemTypeOK
<1>2. Coming' = Tail(buf) \o fromHost
  BY DEF Coming
<1> QED BY <1>1, <1>2, TailBehind DEF Coming

(* The rest of the buffer is dropped, or shown. *)
LEMMA TakesBuffer ==
  ASSUME ZmodemTypeOK, buf' = <<>>, fromHost' = fromHost
  PROVE  Coming' = Behind(Coming, Len(buf)) /\ Coming' = fromHost
<1>1. buf \in Seq(Tokens) /\ fromHost \in Seq(Tokens)
  BY DEF ZmodemTypeOK
<1>2. Coming' = <<>> \o fromHost
  BY DEF Coming
<1> QED BY <1>1, <1>2, AllBehind DEF Coming

(* More is read into the buffer, or past it. *)
LEMMA TakesNone ==
  ASSUME ZmodemTypeOK, NEW n \in 1..Len(fromHost), buf = <<>>, Reads(n)
  PROVE  /\ SubSeq(fromHost, 1, n) \in Seq(Tokens) /\ fromHost' \in Seq(Tokens)
         /\ Len(SubSeq(fromHost, 1, n)) = n /\ n \in 1..Len(Coming)
         /\ SubSeq(fromHost, 1, n) # <<>>
         /\ \A i \in 1..n : i \in 1..Len(Coming) /\ SubSeq(fromHost, 1, n)[i] = Coming[i]
         /\ buf' = SubSeq(fromHost, 1, n) => Coming' = Coming
         /\ buf' = <<>> => Coming' = Behind(Coming, n)
<1>1. fromHost \in Seq(Tokens) /\ Coming = fromHost
  BY ComingFacts DEF ZmodemTypeOK
<1>2. fromHost' = SubSeq(fromHost, n + 1, Len(fromHost))
  BY DEF Reads
<1>3. /\ SubSeq(fromHost, 1, n) \in Seq(Tokens) /\ fromHost' \in Seq(Tokens)
      /\ Len(SubSeq(fromHost, 1, n)) = n /\ SubSeq(fromHost, 1, n) # <<>>
      /\ \A i \in 1..n : SubSeq(fromHost, 1, n)[i] = fromHost[i]
      /\ fromHost' = Behind(fromHost, n)
      /\ SubSeq(fromHost, 1, n) \o fromHost' = fromHost
  BY <1>1, <1>2, CutFacts
<1>4. buf' = SubSeq(fromHost, 1, n) => Coming' = Coming
  BY <1>1, <1>3 DEF Coming
<1>5. buf' = <<>> => Coming' = Behind(Coming, n)
  <2> SUFFICES ASSUME buf' = <<>> PROVE Coming' = Behind(Coming, n)
    OBVIOUS
  <2>1. Coming' = <<>> \o fromHost'
    BY DEF Coming
  <2>2. <<>> \o fromHost' = fromHost'
    BY <1>3, AllBehind
  <2> QED BY <2>1, <2>2, <1>1, <1>3
<1>6. \A i \in 1..n : i \in 1..Len(fromHost)
  BY <1>1
<1> QED BY <1>1, <1>3, <1>4, <1>5, <1>6

(* The far side says one token, or two. *)
LEMMA SaysOne ==
  ASSUME ZmodemTypeOK, NEW t \in Tokens, buf' = buf, Says(<<t>>)
  PROVE  Coming' = Append(Coming, t) /\ fromHost' \in Seq(Tokens)
<1>1. buf \in Seq(Tokens) /\ fromHost \in Seq(Tokens)
  BY DEF ZmodemTypeOK
<1>2. fromHost' = Append(fromHost, t)
  BY <1>1, AppendIsJoin DEF Says
<1>3. Coming' = buf \o Append(fromHost, t)
  BY <1>2 DEF Coming
<1>4. buf \o Append(fromHost, t) = Append(buf \o fromHost, t)
  BY <1>1, AppendIsJoin
<1> QED BY <1>1, <1>2, <1>3, <1>4, OneMore DEF Coming

LEMMA SaysTwo ==
  ASSUME ZmodemTypeOK, NEW t \in Tokens, NEW u \in Tokens, buf' = buf, Says(<<t, u>>)
  PROVE  Coming' = Append(Append(Coming, t), u) /\ fromHost' \in Seq(Tokens)
<1>1. buf \in Seq(Tokens) /\ fromHost \in Seq(Tokens)
  BY DEF ZmodemTypeOK
<1>2. <<t>> \in Seq(Tokens) /\ <<t, u>> = Append(<<t>>, u)
  OBVIOUS
<1>3. fromHost \o <<t, u>> = Append(Append(fromHost, t), u)
  BY <1>1, <1>2, AppendIsJoin
<1>4. Append(fromHost, t) \in Seq(Tokens)
  BY <1>1, OneMore
<1>5. buf \o Append(Append(fromHost, t), u) = Append(buf \o Append(fromHost, t), u)
  BY <1>1, <1>4, AppendIsJoin
<1>6. buf \o Append(fromHost, t) = Append(buf \o fromHost, t)
  BY <1>1, AppendIsJoin
<1>7. fromHost' = Append(Append(fromHost, t), u)
  BY <1>3 DEF Says
<1>8. Coming' = buf \o fromHost'
  BY DEF Coming
<1>9. fromHost' \in Seq(Tokens)
  BY <1>4, <1>7, OneMore
<1> QED BY <1>5, <1>6, <1>7, <1>8, <1>9 DEF Coming

LEMMA SaysNothing ==
  ASSUME ZmodemTypeOK, buf' = buf, fromHost' = fromHost \/ Says(<<>>)
  PROVE  Coming' = Coming /\ fromHost' = fromHost
<1>1. fromHost \in Seq(Tokens)
  BY DEF ZmodemTypeOK
<1>2. fromHost' = fromHost
  BY <1>1 DEF Says
<1> QED BY <1>2 DEF Coming

LEMMA SenderTypes ==
  ASSUME ZmodemTypeOK
  PROVE  /\ sz \in [run : 0..Runs, stage : {"init", "file", "data", "eof", "fin", "gone"},
                    file : {0} \cup FileIds, next : 1..(Chunks + 1), open : BOOLEAN,
                    speaks : BOOLEAN]
         /\ sz.run \in 0..Runs /\ sz.file \in {0} \cup FileIds /\ sz.next \in 1..(Chunks + 1)
         /\ sz.stage \in {"init", "file", "data", "eof", "fin", "gone"}
         /\ sz.open \in BOOLEAN /\ sz.speaks \in BOOLEAN
  BY DEF ZmodemTypeOK

LEMMA FileTypes ==
  /\ FileIds \subseteq Nat \ {0}
  /\ \A r \in RunIds : FilesOf[r] \in Nat \ {0} /\ 1..FilesOf[r] \subseteq FileIds /\ 1 \in FileIds
<1>1. \A r \in RunIds : FilesOf[r] \in Nat \ {0}
  BY CountsAssumption DEF RunIds
<1>2. \A r \in RunIds : 1..FilesOf[r] \subseteq FileIds
  BY DEF FileIds
<1>3. \A r \in RunIds : 1 \in 1..FilesOf[r]
  BY <1>1
<1>4. \A r \in RunIds : 1..FilesOf[r] \subseteq Nat \ {0}
  BY <1>1
<1> QED BY <1>1, <1>2, <1>3, <1>4 DEF FileIds

LEMMA RunType ==
  ASSUME ZmodemTypes, ~Gone
  PROVE  sz.run \in RunIds /\ sz.run \in Nat
<1>1. sz.run \in 0..Runs /\ sz.run # 0
  BY SenderTypes DEF ZmodemTypes
<1>2. Runs \in Nat
  BY CountsAssumption
<1> QED BY <1>1, <1>2 DEF RunIds

TokenKinds == Frames \cup {"sub", "OO", "CANs", "text"}
TokenArgs == {"none", "ZCRCE"} \cup Terminators \cup PromptKinds

LEMMA TokenType ==
  ASSUME ZmodemTypes, ~Gone,
         NEW kind \in TokenKinds, NEW n \in 0..Chunks, NEW arg \in TokenArgs
  PROVE  /\ Token(sz, kind, n, arg) \in Tokens
         /\ Token(sz, kind, n, arg).run = sz.run /\ Token(sz, kind, n, arg).file = sz.file
         /\ Token(sz, kind, n, arg).kind = kind /\ Token(sz, kind, n, arg).n = n
         /\ Token(sz, kind, n, arg).arg = arg
<1>1. sz.run \in RunIds /\ sz.file \in {0} \cup FileIds
  BY RunType, SenderTypes DEF ZmodemTypes
<1> QED BY <1>1, Zenon DEF Token, Tokens, TokenKinds, TokenArgs

LEMMA KindsAndArgs ==
  /\ \A k \in Frames : k \in TokenKinds
  /\ Frames = {"ZRQINIT", "ZFILE", "ZDATA", "ZEOF", "ZFIN", "ZABORT"}
  /\ {"sub", "OO", "CANs", "text"} \subseteq TokenKinds
  /\ "none" \in TokenArgs /\ "ZCRCE" \in TokenArgs
  /\ \A a \in Terminators : a \in TokenArgs
  /\ \A a \in PromptKinds : a \in TokenArgs
  /\ 0 \in 0..Chunks
<1>1. 0 \in 0..Chunks
  BY CountsAssumption
<1> QED BY <1>1 DEF TokenKinds, TokenArgs, Frames

-----------------------------------------------------------------------------
(* What each thing the sender says adds to what is coming. *)
LEMMA StartSays ==
  ASSUME ZmodemTypes, StartSz, NEW t, t = Token(sz', "ZRQINIT", 0, "none")
  PROVE  /\ t \in Tokens /\ t.kind = "ZRQINIT" /\ t.run = sz.run + 1 /\ t.file = 0
         /\ t.n = 0 /\ t.arg = "none"
         /\ sz.run + 1 \in RunIds /\ sz.run + 1 > 0
         /\ Coming' = Append(Coming, t) /\ fromHost' \in Seq(Tokens)
<1>1. sz.run \in 0..Runs /\ Runs \in Nat
  BY SenderTypes, CountsAssumption DEF ZmodemTypes
<1>2. sz.run + 1 \in RunIds /\ sz.run + 1 > 0
  BY <1>1 DEF StartSz, RunIds
<1>3. t = [kind |-> "ZRQINIT", run |-> sz.run + 1, file |-> 0, n |-> 0, arg |-> "none"]
  BY DEF Token, StartSz
<1>4. 0 \in 0..Chunks
  BY CountsAssumption
<1>5. t \in Tokens
  BY <1>2, <1>3, <1>4 DEF Tokens, Frames
<1>6. ZmodemTypeOK /\ buf' = buf /\ Says(<<t>>)
  BY DEF ZmodemTypes, StartSz, receiver
<1> QED BY <1>2, <1>3, <1>5, <1>6, SaysOne

LEMMA FileSays ==
  ASSUME ZmodemTypes, ~Gone, NEW f \in FileIds, buf' = buf, SendFile(sz, f)
  PROVE  \E t \in Tokens :
           /\ t.kind = "ZFILE" /\ t.run = sz.run /\ t.file = f
           /\ Coming' = Append(Coming, t) /\ fromHost' \in Seq(Tokens)
<1>1. PICK t : t = [kind |-> "ZFILE", run |-> sz.run, file |-> f, n |-> 0, arg |-> "none"]
  OBVIOUS
<1>2. t = Token(sz', "ZFILE", 0, "none")
  BY <1>1, SenderTypes DEF Token, SendFile, ZmodemTypes
<1>3. 0 \in 0..Chunks
  BY CountsAssumption
<1>4. t \in Tokens
  BY <1>1, <1>3, RunType, Zenon DEF Tokens, Frames
<1>5. ZmodemTypeOK /\ Says(<<t>>)
  BY <1>2 DEF ZmodemTypes, SendFile
<1>6. t.kind = "ZFILE" /\ t.run = sz.run /\ t.file = f
  BY <1>1
<1> QED BY <1>4, <1>5, <1>6, SaysOne

LEMMA FinSays ==
  ASSUME ZmodemTypes, ~Gone, buf' = buf, SendFin(sz)
  PROVE  /\ \E b \in BOOLEAN : sz' = [sz EXCEPT !.stage = "fin", !.speaks = b]
         /\ fromHost' \in Seq(Tokens)
         /\ \/ Coming' = Coming
            \/ \E t \in Tokens : /\ t.kind = "ZFIN" /\ t.run = sz.run /\ t.file = sz.file
                                 /\ Coming' = Append(Coming, t)
<1>1. PICK b \in BOOLEAN : /\ sz' = [sz EXCEPT !.stage = "fin", !.speaks = b]
                           /\ Says(IF b THEN <<Token(sz, "ZFIN", 0, "none")>> ELSE <<>>)
  BY DEF SendFin
<1>2. ZmodemTypeOK /\ fromHost \in Seq(Tokens)
  BY DEF ZmodemTypes, ZmodemTypeOK
<1>3. CASE b
  <2>1. Says(<<Token(sz, "ZFIN", 0, "none")>>)
    BY <1>1, <1>3
  <2>2. /\ Token(sz, "ZFIN", 0, "none") \in Tokens /\ Token(sz, "ZFIN", 0, "none").kind = "ZFIN"
        /\ Token(sz, "ZFIN", 0, "none").run = sz.run /\ Token(sz, "ZFIN", 0, "none").file = sz.file
    BY TokenType, KindsAndArgs
  <2>3. Coming' = Append(Coming, Token(sz, "ZFIN", 0, "none")) /\ fromHost' \in Seq(Tokens)
    BY <2>1, <2>2, <1>2, SaysOne
  <2> QED BY <2>2, <2>3, <1>1
<1>4. CASE ~b
  <2>1. Says(<<>>)
    BY <1>1, <1>4
  <2> QED BY <2>1, <1>1, <1>2, SaysNothing
<1> QED BY <1>3, <1>4

(* An empty subpacket ends an open frame. *)
LEMMA EndSub ==
  ASSUME ZmodemTypes, ~Gone
  PROVE  LET t == Token(sz, "sub", 0, "ZCRCE")
         IN  /\ t \in Tokens /\ t.kind = "sub" /\ t.run = sz.run /\ t.file = sz.file
             /\ t.n = 0 /\ t.arg = "ZCRCE"
  BY TokenType, KindsAndArgs

LEMMA ChunkSays ==
  ASSUME ZmodemTypes, SendChunk
  PROVE  /\ fromHost' \in Seq(Tokens)
         /\ \E t \in Tokens :
              /\ t.kind = "sub" /\ t.run = sz.run /\ t.file = sz.file /\ t.n = sz.next
              /\ sz' = [sz EXCEPT !.next = @ + 1, !.open = t.arg \notin EndOfFrame]
              /\ \/ sz.open /\ Coming' = Append(Coming, t)
                 \/ \E u \in Tokens :
                      /\ ~sz.open /\ u.kind = "ZDATA" /\ u.run = sz.run /\ u.file = sz.file
                      /\ Coming' = Append(Append(Coming, u), t)
<1>0. ZmodemTypeOK /\ ~Gone /\ buf' = buf
  BY DEF ZmodemTypes, SendChunk, receiver, Gone
<1>1. PICK end \in Terminators :
        /\ sz' = [sz EXCEPT !.next = @ + 1, !.open = end \notin EndOfFrame]
        /\ Says((IF sz.open THEN <<>> ELSE <<Token(sz, "ZDATA", 0, "none")>>)
                  \o <<Token(sz, "sub", sz.next, end)>>)
  BY DEF SendChunk
<1>2. sz.next \in 0..Chunks
  <2>1. sz.next \in 1..(Chunks + 1) /\ sz.next <= Chunks
    BY <1>0, SenderTypes DEF SendChunk
  <2> QED BY <2>1, CountsAssumption
<1>3. PICK t : t = Token(sz, "sub", sz.next, end)
  OBVIOUS
<1>4. /\ t \in Tokens /\ t.kind = "sub" /\ t.run = sz.run /\ t.file = sz.file
      /\ t.n = sz.next /\ t.arg = end
  BY <1>0, <1>2, <1>3, TokenType, KindsAndArgs
<1>5. PICK u : u = Token(sz, "ZDATA", 0, "none")
  OBVIOUS
<1>6. u \in Tokens /\ u.kind = "ZDATA" /\ u.run = sz.run /\ u.file = sz.file
  BY <1>0, <1>5, TokenType, KindsAndArgs
<1>7. CASE sz.open
  <2>1. Says(<<t>>)
    <3>1. <<>> \o <<t>> = <<t>>  OBVIOUS
    <3> QED BY <3>1, <1>1, <1>3, <1>7
  <2> QED BY <2>1, <1>0, <1>1, <1>4, <1>7, SaysOne
<1>8. CASE ~sz.open
  <2>1. Says(<<u, t>>)
    <3>1. <<u>> \o <<t>> = <<u, t>>  BY <1>4, <1>6, PairJoin
    <3> QED BY <3>1, <1>1, <1>3, <1>5, <1>8
  <2>2. Coming' = Append(Append(Coming, u), t) /\ fromHost' \in Seq(Tokens)
    BY <2>1, <1>0, <1>4, <1>6, SaysTwo
  <2> QED BY <2>2, <1>1, <1>4, <1>6, <1>8
<1> QED BY <1>7, <1>8

LEMMA EofSays ==
  ASSUME ZmodemTypes, SendEof
  PROVE  /\ fromHost' \in Seq(Tokens)
         /\ \E t \in Tokens :
              /\ t.kind = "ZEOF" /\ t.run = sz.run /\ t.file = sz.file
              /\ \/ ~sz.open /\ Coming' = Append(Coming, t)
                 \/ \E u \in Tokens :
                      /\ sz.open /\ u.kind = "sub" /\ u.run = sz.run /\ u.file = sz.file
                      /\ u.n = 0 /\ u.arg = "ZCRCE"
                      /\ Coming' = Append(Append(Coming, u), t)
<1>0. ZmodemTypeOK /\ ~Gone /\ buf' = buf
  BY DEF ZmodemTypes, SendEof, receiver, Gone
<1>1. PICK t : t = Token(sz, "ZEOF", 0, "none")
  OBVIOUS
<1>2. t \in Tokens /\ t.kind = "ZEOF" /\ t.run = sz.run /\ t.file = sz.file
  BY <1>0, <1>1, TokenType, KindsAndArgs
<1>3. PICK u : u = Token(sz, "sub", 0, "ZCRCE")
  OBVIOUS
<1>4. /\ u \in Tokens /\ u.kind = "sub" /\ u.run = sz.run /\ u.file = sz.file
      /\ u.n = 0 /\ u.arg = "ZCRCE"
  BY <1>0, <1>3, EndSub
<1>5. CASE ~sz.open
  <2>1. Says(<<t>>)
    <3>1. <<>> \o <<t>> = <<t>>  OBVIOUS
    <3> QED BY <3>1, <1>1, <1>5 DEF SendEof, EndFrame
  <2> QED BY <2>1, <1>0, <1>2, <1>5, SaysOne
<1>6. CASE sz.open
  <2>1. Says(<<u, t>>)
    <3>1. <<u>> \o <<t>> = <<u, t>>  BY <1>2, <1>4, PairJoin
    <3> QED BY <3>1, <1>1, <1>3, <1>6 DEF SendEof, EndFrame
  <2>2. Coming' = Append(Append(Coming, u), t) /\ fromHost' \in Seq(Tokens)
    BY <2>1, <1>0, <1>2, <1>4, SaysTwo
  <2> QED BY <2>2, <1>2, <1>4, <1>6
<1> QED BY <1>5, <1>6

LEMMA RestartSays ==
  ASSUME ZmodemTypes, ~Gone, buf' = buf, Restart
  PROVE  /\ fromHost' \in Seq(Tokens)
         /\ \/ ~sz.open /\ Coming' = Coming
            \/ \E u \in Tokens :
                 /\ sz.open /\ u.kind = "sub" /\ u.run = sz.run /\ u.file = sz.file
                 /\ u.n = 0 /\ u.arg = "ZCRCE"
                 /\ Coming' = Append(Coming, u)
<1>0. ZmodemTypeOK /\ fromHost \in Seq(Tokens)
  BY DEF ZmodemTypes, ZmodemTypeOK
<1>1. PICK u : u = Token(sz, "sub", 0, "ZCRCE")
  OBVIOUS
<1>2. /\ u \in Tokens /\ u.kind = "sub" /\ u.run = sz.run /\ u.file = sz.file
      /\ u.n = 0 /\ u.arg = "ZCRCE"
  BY <1>1, EndSub
<1>3. CASE ~sz.open
  <2>1. Says(<<>>)
    BY <1>3 DEF Restart, EndFrame
  <2> QED BY <2>1, <1>0, <1>3, SaysNothing
<1>4. CASE sz.open
  <2>1. Says(<<u>>)
    BY <1>1, <1>4 DEF Restart, EndFrame
  <2> QED BY <2>1, <1>0, <1>2, <1>4, SaysOne
<1> QED BY <1>3, <1>4

LEMMA HeaderSays ==
  ASSUME ZmodemTypes, Unanswered, buf' = buf, RepeatHeader
  PROVE  /\ fromHost' \in Seq(Tokens)
         /\ \E t \in Tokens :
              /\ <<sz.stage, t.kind>> \in {<<"init", "ZRQINIT">>, <<"file", "ZFILE">>,
                                           <<"eof", "ZEOF">>, <<"fin", "ZFIN">>}
              /\ t.run = sz.run /\ t.file = sz.file
              /\ Coming' = Append(Coming, t)
<1>0. ZmodemTypeOK /\ ~Gone
  BY DEF ZmodemTypes, Unanswered, Gone
<1>1. \A kind \in Frames :
        /\ Token(sz, kind, 0, "none") \in Tokens /\ Token(sz, kind, 0, "none").kind = kind
        /\ Token(sz, kind, 0, "none").run = sz.run /\ Token(sz, kind, 0, "none").file = sz.file
  BY <1>0, TokenType, KindsAndArgs
<1>2. ASSUME NEW kind \in Frames, Says(<<Token(sz, kind, 0, "none")>>),
             <<sz.stage, kind>> \in {<<"init", "ZRQINIT">>, <<"file", "ZFILE">>,
                                     <<"eof", "ZEOF">>, <<"fin", "ZFIN">>}
      PROVE  /\ fromHost' \in Seq(Tokens)
             /\ \E t \in Tokens :
                  /\ <<sz.stage, t.kind>> \in {<<"init", "ZRQINIT">>, <<"file", "ZFILE">>,
                                               <<"eof", "ZEOF">>, <<"fin", "ZFIN">>}
                  /\ t.run = sz.run /\ t.file = sz.file
                  /\ Coming' = Append(Coming, t)
  <2>1. Coming' = Append(Coming, Token(sz, kind, 0, "none")) /\ fromHost' \in Seq(Tokens)
    BY <1>0, <1>1, <1>2, SaysOne
  <2> QED BY <2>1, <1>1, <1>2
<1>3. CASE sz.stage = "init"
  <2>1. Says(<<Token(sz, "ZRQINIT", 0, "none")>>)
    BY <1>3 DEF RepeatHeader
  <2> QED BY <2>1, <1>2, <1>3 DEF Frames
<1>4. CASE sz.stage = "file"
  <2>1. Says(<<Token(sz, "ZFILE", 0, "none")>>)
    BY <1>4 DEF RepeatHeader
  <2> QED BY <2>1, <1>2, <1>4 DEF Frames
<1>5. CASE sz.stage = "eof"
  <2>1. Says(<<Token(sz, "ZEOF", 0, "none")>>)
    BY <1>5 DEF RepeatHeader
  <2> QED BY <2>1, <1>2, <1>5 DEF Frames
<1>6. CASE sz.stage = "fin"
  <2>1. Says(<<Token(sz, "ZFIN", 0, "none")>>)
    BY <1>6 DEF RepeatHeader
  <2> QED BY <2>1, <1>2, <1>6 DEF Frames
<1> QED BY <1>3, <1>4, <1>5, <1>6 DEF Unanswered

LEMMA PromptToken ==
  ASSUME ZmodemTypes, ~Gone, NEW kind \in PromptKinds
  PROVE  LET p == Token(sz, "text", 0, kind)
         IN  p \in Tokens /\ p.kind = "text" /\ p.run = sz.run /\ p.file = sz.file
  BY TokenType, KindsAndArgs

(* The last words of the sender, and the prompt behind them. *)
LastWords == {"OO", "CANs", "ZABORT"}

LEMMA LeaveSays ==
  ASSUME ZmodemTypes, ~Gone, buf' = buf, NEW how \in {"ok", "error"}, NEW toks,
         Leave(sz, toks, how),
         toks = <<>> \/ \E k \in LastWords : toks = <<Token(sz, k, 0, "none")>>
  PROVE  /\ fromHost' \in Seq(Tokens)
         /\ \E p \in Tokens :
              /\ p.kind = "text" /\ p.run = sz.run /\ p.file = sz.file
              /\ \/ toks = <<>> /\ Coming' = Append(Coming, p)
                 \/ \E t \in Tokens :
                      /\ toks = <<Token(sz, t.kind, 0, "none")>>
                      /\ t.kind \in LastWords /\ t.run = sz.run /\ t.file = sz.file
                      /\ Coming' = Append(Append(Coming, t), p)
<1>0. ZmodemTypeOK
  BY DEF ZmodemTypes
<1>1. PICK kind \in PromptKinds : Says(toks \o <<Token(sz, "text", 0, kind)>>)
  BY DEF Leave
<1>2. PICK p : p = Token(sz, "text", 0, kind)
  OBVIOUS
<1>3. p \in Tokens /\ p.kind = "text" /\ p.run = sz.run /\ p.file = sz.file
  BY <1>2, PromptToken
<1>4. CASE toks = <<>>
  <2>1. Says(<<p>>)
    <3>1. <<>> \o <<p>> = <<p>>  OBVIOUS
    <3> QED BY <3>1, <1>1, <1>2, <1>4
  <2> QED BY <2>1, <1>0, <1>3, <1>4, SaysOne
<1>5. CASE \E k \in LastWords : toks = <<Token(sz, k, 0, "none")>>
  <2>1. PICK k \in LastWords : toks = <<Token(sz, k, 0, "none")>>
    BY <1>5
  <2>2. PICK t : t = Token(sz, k, 0, "none")
    OBVIOUS
  <2>3. t \in Tokens /\ t.kind = k /\ t.run = sz.run /\ t.file = sz.file
    BY <2>1, <2>2, TokenType, KindsAndArgs DEF LastWords
  <2>4. Says(<<t, p>>)
    <3>1. <<t>> \o <<p>> = <<t, p>>  BY <1>3, <2>3, PairJoin
    <3> QED BY <3>1, <1>1, <1>2, <2>1, <2>2
  <2>5. Coming' = Append(Append(Coming, t), p) /\ fromHost' \in Seq(Tokens)
    BY <2>3, <2>4, <1>0, <1>3, SaysTwo
  <2> QED BY <2>1, <2>2, <2>3, <2>5, <1>3
<1> QED BY <1>4, <1>5

-----------------------------------------------------------------------------
(* What the receiver does at its exits. *)
LEMMA SendsOne ==
  ASSUME ZmodemTypeOK, NEW e \in Replies, send_hex(<<e>>)
  PROVE  toHost' \in Seq(Replies) /\ toHost' = IF up THEN Append(toHost, e) ELSE toHost
<1>1. toHost \in Seq(Replies)
  BY DEF ZmodemTypeOK
<1>2. toHost \o <<e>> = Append(toHost, e) /\ Append(toHost, e) \in Seq(Replies)
  BY <1>1, AppendIsJoin, OneMore
<1> QED BY <1>1, <1>2 DEF send_hex

LEMMA SendsTwo ==
  ASSUME ZmodemTypeOK, NEW d \in Replies, NEW e \in Replies, send_hex(<<d, e>>)
  PROVE  /\ toHost' \in Seq(Replies)
         /\ toHost' = IF up THEN Append(Append(toHost, d), e) ELSE toHost
<1>1. toHost \in Seq(Replies)
  BY DEF ZmodemTypeOK
<1>2. <<d>> \in Seq(Replies) /\ <<d, e>> = Append(<<d>>, e)
  OBVIOUS
<1>3. toHost \o <<d, e>> = Append(toHost \o <<d>>, e) /\ toHost \o <<d>> = Append(toHost, d)
  BY <1>1, <1>2, AppendIsJoin
<1>4. Append(toHost, d) \in Seq(Replies)
  BY <1>1, OneMore
<1>5. Append(Append(toHost, d), e) \in Seq(Replies)
  BY <1>4, OneMore
<1> QED BY <1>1, <1>3, <1>5 DEF send_hex

LEMMA SendsNone ==
  ASSUME ZmodemTypeOK, send_hex(<<>>)
  PROVE  toHost' = toHost
<1>1. toHost \in Seq(Replies) /\ toHost \o <<>> = toHost
  BY DEF ZmodemTypeOK
<1> QED BY <1>1 DEF send_hex

Fates == {"none", "shown", "cut", "lost"}

LEMMA MarkType ==
  ASSUME ZmodemTypeOK, NEW toks \in Seq(Tokens), NEW fate \in {"shown", "lost"}
  PROVE  /\ Mark(toks, fate) \in [RunIds -> Fates]
         /\ \A r \in RunIds :
              IF \E i \in 1..Len(toks) : toks[i].kind = "text" /\ toks[i].run = r
              THEN Mark(toks, fate)[r] = fate
              ELSE Mark(toks, fate)[r] = prompt[r]
<1>1. prompt \in [RunIds -> Fates]
  BY DEF ZmodemTypeOK, Fates
<1>2. DOMAIN toks = 1..Len(toks)
  OBVIOUS
<1> QED BY <1>1, <1>2 DEF Mark, Fates

LEMMA BailFacts ==
  ASSUME ZmodemTypeOK, Bail, fromHost' = fromHost
  PROVE  /\ Coming' = Behind(Coming, Len(buf)) /\ Coming' = fromHost
         /\ pc' = "shell" /\ cur' = 0 /\ buf' = <<>> /\ cooling' = TRUE
         /\ rows' = rows /\ received' = received /\ sz' = sz /\ exit' = exit
         /\ restarted' = restarted /\ up' = up
         /\ toHost' \in Seq(Replies)
         /\ toHost' = IF up THEN Append(toHost, "CANCEL") ELSE toHost
         /\ prompt' = Mark(buf, "lost") /\ prompt' \in [RunIds -> Fates]
<1>1. send_hex(<<"CANCEL">>) /\ Return(Mark(buf, "lost"))
  BY DEF Bail
<1>2. "CANCEL" \in Replies
  BY DEF Replies
<1>3. toHost' \in Seq(Replies) /\ toHost' = IF up THEN Append(toHost, "CANCEL") ELSE toHost
  BY <1>1, <1>2, SendsOne
<1>4. /\ pc' = "shell" /\ cur' = 0 /\ buf' = <<>> /\ cooling' = TRUE
      /\ prompt' = Mark(buf, "lost")
  BY <1>1 DEF Return
<1>5. Coming' = Behind(Coming, Len(buf)) /\ Coming' = fromHost
  BY <1>4, TakesBuffer
<1>6. Mark(buf, "lost") \in [RunIds -> Fates]
  BY MarkType DEF ZmodemTypeOK
<1>7. /\ rows' = rows /\ received' = received /\ sz' = sz /\ exit' = exit
      /\ restarted' = restarted /\ up' = up
  BY DEF Bail
<1> QED BY <1>3, <1>4, <1>5, <1>6, <1>7

(* Good-bye: the receiver waits for the last frames, or is back at once. *)
LEMMA GoodByeFacts ==
  ASSUME ZmodemTypeOK, NEW rest \in Seq(Tokens), GoodBye(rest)
  PROVE  \/ /\ received > 0 /\ pc' = "drain" /\ buf' = rest
            /\ cooling' = cooling /\ cur' = cur /\ prompt' = prompt
            /\ toHost' \in Seq(Replies)
            /\ toHost' = IF up THEN Append(Append(toHost, "ZRINIT"), "ZFIN") ELSE toHost
         \/ /\ ~(received > 0) /\ pc' = "shell" /\ buf' = <<>> /\ cooling' = TRUE
            /\ cur' = 0 /\ prompt' = Mark(rest, "shown")
            /\ prompt' \in [RunIds -> Fates] /\ toHost' = toHost
<1>1. "ZRINIT" \in Replies /\ "ZFIN" \in Replies
  BY DEF Replies
<1>2. CASE received > 0
  <2>1. /\ pc' = "drain" /\ buf' = rest /\ send_hex(<<"ZRINIT", "ZFIN">>)
        /\ cooling' = cooling /\ cur' = cur /\ prompt' = prompt
    BY <1>2 DEF GoodBye
  <2>2. /\ toHost' \in Seq(Replies)
        /\ toHost' = IF up THEN Append(Append(toHost, "ZRINIT"), "ZFIN") ELSE toHost
    BY <2>1, <1>1, SendsTwo
  <2> QED BY <2>1, <2>2, <1>2
<1>3. CASE ~(received > 0)
  <2>1. Return(Mark(rest, "shown")) /\ toHost' = toHost
    BY <1>3 DEF GoodBye
  <2>2. Mark(rest, "shown") \in [RunIds -> Fates]
    BY MarkType
  <2> QED BY <2>1, <2>2, <1>3 DEF Return
<1> QED BY <1>2, <1>3

-----------------------------------------------------------------------------
(* The types. *)
TroublesFit == troubles \subseteq TroubleKinds /\ Cardinality(troubles) <= MaxTroubles

LEMMA TroubleTypes ==
  ASSUME TroublesFit, NEW kind \in TroubleKinds, Trouble(kind)
  PROVE  TroublesFit'
<1>1. IsFiniteSet(TroubleKinds)
  <2>1. TroubleKinds = ((({} \cup {"early"}) \cup {"abort"}) \cup {"drop"}) \cup {"disk"}
    BY DEF TroubleKinds
  <2>2. IsFiniteSet({} \cup {"early"})
    BY FS_EmptySet, FS_AddElement
  <2>3. IsFiniteSet(({} \cup {"early"}) \cup {"abort"})
    BY <2>2, FS_AddElement
  <2>4. IsFiniteSet((({} \cup {"early"}) \cup {"abort"}) \cup {"drop"})
    BY <2>3, FS_AddElement
  <2>5. IsFiniteSet(((({} \cup {"early"}) \cup {"abort"}) \cup {"drop"}) \cup {"disk"})
    BY <2>4, FS_AddElement
  <2> QED BY <2>1, <2>5
<1>2. IsFiniteSet(troubles) /\ Cardinality(troubles) \in Nat
  BY <1>1, FS_Subset, FS_CardinalityType DEF TroublesFit
<1>3. Cardinality(troubles \cup {kind}) = Cardinality(troubles) + 1
  BY <1>2, FS_AddElement DEF Trouble
<1>4. MaxTroubles \in Nat
  BY CountsAssumption
<1>5. Cardinality(troubles) + 1 <= MaxTroubles
  BY <1>2, <1>4 DEF Trouble
<1>6. troubles' = troubles \cup {kind}
  BY DEF Trouble
<1>7. troubles' \subseteq TroubleKinds
  BY <1>6 DEF TroublesFit
<1> QED BY <1>3, <1>5, <1>6, <1>7 DEF TroublesFit

Row == [run : RunIds, file : FileIds, data : Seq(Pieces), state : {"running", "done"}]
RowsFit == rows \in Seq(Row) /\ cur \in 0..Len(rows) /\ received \in Nat
LineFits == buf \in Seq(Tokens) /\ fromHost \in Seq(Tokens) /\ toHost \in Seq(Replies)
SenderFits ==
  /\ sz \in [run : 0..Runs, stage : {"init", "file", "data", "eof", "fin", "gone"},
             file : {0} \cup FileIds, next : 1..(Chunks + 1), open : BOOLEAN, speaks : BOOLEAN]
  /\ exit \in [RunIds -> {"none", "ok", "error"}]
  /\ restarted \subseteq RunIds \X FileIds
LoopFits ==
  /\ pc \in Receiving \cup {"shell", "ended"}
  /\ cooling \in BOOLEAN /\ up \in BOOLEAN
  /\ prompt \in [RunIds -> Fates]
SenderNames ==
  /\ sz.run = 0 => Gone
  /\ sz.stage \notin {"init", "gone"} => sz.file \in 1..FilesOf[sz.run]

LEMMA TypeParts ==
  ZmodemTypes <=> /\ RowsFit /\ LineFits /\ SenderFits /\ LoopFits /\ TroublesFit
                  /\ SenderNames /\ Only(Coming, Named)
<1>1. ZmodemTypeOK <=> RowsFit /\ LineFits /\ SenderFits /\ LoopFits /\ TroublesFit
  BY Zenon DEF ZmodemTypeOK, RowsFit, LineFits, SenderFits, LoopFits, TroublesFit, Row, Fates
<1> QED BY <1>1 DEF ZmodemTypes, SenderNames

LEMMA TypePartsNext ==
  ZmodemTypes' <=> /\ RowsFit' /\ LineFits' /\ SenderFits' /\ LoopFits' /\ TroublesFit'
                   /\ SenderNames' /\ Only(Coming, Named)'
<1>1. ZmodemTypeOK' <=> RowsFit' /\ LineFits' /\ SenderFits' /\ LoopFits' /\ TroublesFit'
  BY Zenon DEF ZmodemTypeOK, RowsFit, LineFits, SenderFits, LoopFits, TroublesFit, Row, Fates
<1> QED BY <1>1 DEF ZmodemTypes, SenderNames

LEMMA ZmodemInitTypes == ZmodemInit => ZmodemTypes
<1> SUFFICES ASSUME ZmodemInit PROVE ZmodemTypes
  OBVIOUS
<1>1. RowsFit /\ LineFits
  BY DEF ZmodemInit, RowsFit, LineFits
<1>2. 0 \in 0..Runs /\ 1 \in 1..(Chunks + 1) /\ MaxTroubles \in Nat
  BY CountsAssumption
<1>3. SenderFits
  BY <1>2 DEF ZmodemInit, SenderFits
<1>4. LoopFits /\ SenderNames
  BY DEF ZmodemInit, LoopFits, SenderNames, Gone, Fates
<1>5. TroublesFit
  <2>1. Cardinality({}) = 0
    BY FS_EmptySet
  <2> QED BY <2>1, <1>2 DEF ZmodemInit, TroublesFit
<1>6. Only(Coming, Named)
  <2>1. Coming = <<>>
    BY DEF Coming, ZmodemInit
  <2>2. 1..Len(Coming) = {}
    BY <2>1
  <2> QED BY <2>2 DEF Only
<1> QED BY <1>1, <1>3, <1>4, <1>5, <1>6, TypeParts

(* What a step of the receiver needs to keep the types. *)
LEMMA ReceiverTypes ==
  ASSUME ZmodemTypes, sz' = sz, exit' = exit, restarted' = restarted,
         NEW k \in 0..Len(Coming), Coming' = Behind(Coming, k),
         LineFits', LoopFits', RowsFit', TroublesFit'
  PROVE  ZmodemTypes'
<1>1. SenderFits' /\ SenderNames'
  <2>1. SenderFits /\ SenderNames
    BY TypeParts
  <2> QED BY <2>1 DEF SenderFits, SenderNames, Gone
<1>2. Only(Coming, Named)'
  <2>1. Coming \in Seq(Tokens) /\ Only(Coming, Named)
    BY ComingFacts DEF ZmodemTypes
  <2>2. Only(Behind(Coming, k), Named)
    BY <2>1, BehindHolds
  <2>3. Only(Coming', Named)
    BY <2>2
  <2> QED BY <2>3 DEF Only, Named
<1> QED BY <1>1, <1>2, TypePartsNext

LEMMA BailTypes ==
  ASSUME ZmodemTypes, Bail, fromHost' = fromHost, TroublesFit'
  PROVE  ZmodemTypes'
<1>0. ZmodemTypeOK /\ RowsFit /\ LineFits /\ LoopFits
  BY TypeParts DEF ZmodemTypes
<1>1. /\ Coming' = Behind(Coming, Len(buf)) /\ Len(buf) \in 0..Len(Coming)
      /\ sz' = sz /\ exit' = exit /\ restarted' = restarted
      /\ pc' = "shell" /\ cur' = 0 /\ buf' = <<>> /\ cooling' = TRUE
      /\ rows' = rows /\ received' = received /\ up' = up
      /\ toHost' \in Seq(Replies) /\ prompt' \in [RunIds -> Fates]
  BY <1>0, BailFacts, ComingFacts
<1>2. RowsFit'
  BY <1>0, <1>1 DEF RowsFit
<1>3. LineFits'
  BY <1>0, <1>1 DEF LineFits
<1>4. LoopFits'
  BY <1>0, <1>1 DEF LoopFits
<1> QED BY <1>1, <1>2, <1>3, <1>4, ReceiverTypes

(* A refused answer: receive is left, with rows and the count as they are by then. *)
LEMMA SendFailsFacts ==
  ASSUME ZmodemTypes, SendFails
  PROVE  /\ Coming' = Behind(Coming, Len(buf)) /\ Coming' = fromHost
         /\ pc' = "shell" /\ cur' = 0 /\ buf' = <<>> /\ cooling' = TRUE
         /\ sz' = sz /\ exit' = exit /\ restarted' = restarted /\ troubles' = troubles
         /\ up = FALSE /\ up' = up /\ toHost' = toHost /\ fromHost' = fromHost
         /\ prompt' = Mark(buf, "lost") /\ prompt' \in [RunIds -> Fates]
<1>0. ZmodemTypeOK /\ up \in BOOLEAN
  BY DEF ZmodemTypes, ZmodemTypeOK
<1>1. /\ pc' = "shell" /\ cur' = 0 /\ buf' = <<>> /\ cooling' = TRUE
      /\ prompt' = Mark(buf, "lost")
      /\ sz' = sz /\ exit' = exit /\ restarted' = restarted /\ troubles' = troubles
      /\ ~up /\ up' = up /\ toHost' = toHost /\ fromHost' = fromHost
  BY DEF SendFails, Return, sender
<1>2. Coming' = Behind(Coming, Len(buf)) /\ Coming' = fromHost
  BY <1>0, <1>1, TakesBuffer
<1>3. Mark(buf, "lost") \in [RunIds -> Fates]
  BY <1>0, MarkType DEF ZmodemTypeOK
<1> QED BY <1>0, <1>1, <1>2, <1>3

LEMMA NoTrouble ==
  ASSUME ZmodemTypes, troubles' = troubles
  PROVE  TroublesFit'
  BY TypeParts DEF TroublesFit

LEMMA HeadHolds ==
  ASSUME ZmodemTypes, buf # <<>>
  PROVE  /\ Head(buf) \in Tokens /\ Head(buf) \in Named /\ Tail(buf) \in Seq(Tokens)
         /\ 1 \in 0..Len(Coming) /\ Len(Coming) >= 1 /\ Coming[1] = Head(buf)
<1>1. buf \in Seq(Tokens) /\ fromHost \in Seq(Tokens) /\ Coming \in Seq(Tokens) /\ Only(Coming, Named)
  BY ComingFacts DEF ZmodemTypes, ZmodemTypeOK
<1>2. /\ Tail(buf) \in Seq(Tokens) /\ Head(buf) \in Tokens
      /\ Len(Coming) >= 1 /\ Coming[1] = Head(buf)
  BY <1>1, TailBehind DEF Coming
<1>3. 1 \in 1..Len(Coming) /\ 1 \in 0..Len(Coming)
  BY <1>1, <1>2
<1>4. Coming[1] \in Named
  BY <1>1, <1>3 DEF Only
<1> QED BY <1>2, <1>3, <1>4

(* The row of a file, and its data. *)
LEMMA RowAdded ==
  ASSUME RowsFit, NEW r \in RunIds, NEW f \in FileIds,
         rows' = Append(rows, [run |-> r, file |-> f, data |-> <<>>, state |-> "running"])
  PROVE  /\ rows' \in Seq(Row) /\ Len(rows') = Len(rows) + 1 /\ Len(rows) \in Nat
         /\ rows'[Len(rows) + 1] = [run |-> r, file |-> f, data |-> <<>>, state |-> "running"]
         /\ \A i \in 1..Len(rows) : rows'[i] = rows[i]
         /\ 1..Len(rows') = 1..Len(rows) \cup {Len(rows) + 1}
<1>1. PICK e : e = [run |-> r, file |-> f, data |-> <<>>, state |-> "running"]
  OBVIOUS
<1>2. <<>> \in Seq(Pieces)
  OBVIOUS
<1>3. e \in Row
  BY <1>1, <1>2, Zenon DEF Row
<1>4. rows \in Seq(Row)
  BY DEF RowsFit
<1> QED BY <1>1, <1>3, <1>4, OneMore

LEMMA WriteFacts ==
  ASSUME RowsFit, NEW t \in Tokens, t \in Named, t.kind = "sub", rows' = WriteChunk(t, rows)
  PROVE  /\ rows' \in Seq(Row) /\ Len(rows') = Len(rows)
         /\ \A i \in 1..Len(rows) :
              /\ rows'[i].run = rows[i].run /\ rows'[i].file = rows[i].file
              /\ rows'[i].state = rows[i].state
              /\ i # cur => rows'[i] = rows[i]
         /\ cur # 0 => rows'[cur].data = IF t.n = 0 THEN rows[cur].data
                                         ELSE Append(rows[cur].data, <<t.run, t.file, t.n>>)
<1>1. rows \in Seq(Row) /\ cur \in 0..Len(rows) /\ Len(rows) \in Nat
  BY DEF RowsFit
<1>2. CASE cur = 0 \/ t.n = 0
  <2>1. rows' = rows
    BY <1>2 DEF WriteChunk
  <2> QED BY <2>1, <1>1, <1>2
<1>3. CASE cur # 0 /\ t.n # 0
  <2>1. rows' = [rows EXCEPT ![cur].data = Append(@, <<t.run, t.file, t.n>>)]
    BY <1>3 DEF WriteChunk
  <2>2. cur \in 1..Len(rows)
    BY <1>1, <1>3
  <2>3. PICK p : p = <<t.run, t.file, t.n>>
    OBVIOUS
  <2>4. p \in Pieces
    <3>1. t.run \in RunIds /\ t.file \in {0} \cup FileIds /\ t.n \in 0..Chunks
      BY DEF Tokens
    <3>2. t.file # 0 /\ t.n # 0
      BY <1>3 DEF Named
    <3>3. t.n \in ChunkIds
      <4>1. Chunks \in Nat  BY CountsAssumption
      <4> QED BY <3>1, <3>2, <4>1 DEF ChunkIds
    <3> QED BY <3>1, <3>2, <3>3, <2>3 DEF Pieces
  <2>5. rows[cur] \in Row
    BY <1>1, <2>2
  <2>6. PICK e : e = [rows[cur] EXCEPT !.data = Append(rows[cur].data, p)]
    OBVIOUS
  <2>7. rows[cur].data \in Seq(Pieces) /\ Append(rows[cur].data, p) \in Seq(Pieces)
    <3>1. rows[cur].data \in Seq(Pieces)
      BY <2>5 DEF Row
    <3> QED BY <3>1, <2>4, OneMore
  <2>8. /\ e \in Row /\ e.run = rows[cur].run /\ e.file = rows[cur].file
        /\ e.state = rows[cur].state /\ e.data = Append(rows[cur].data, p)
    BY <2>5, <2>6, <2>7 DEF Row
  <2>9. rows' = [rows EXCEPT ![cur] = e]
    BY <2>1, <2>3, <2>6
  <2>10. /\ rows' \in Seq(Row) /\ Len(rows') = Len(rows) /\ rows'[cur] = e
         /\ \A i \in 1..Len(rows) : i # cur => rows'[i] = rows[i]
    BY <1>1, <2>2, <2>8, <2>9
  <2> QED BY <2>2, <2>3, <2>8, <2>10, <1>3
<1> QED BY <1>2, <1>3

LEMMA CloseFacts ==
  ASSUME RowsFit, rows' = CloseRow(rows)
  PROVE  /\ rows' \in Seq(Row) /\ Len(rows') = Len(rows)
         /\ \A i \in 1..Len(rows) :
              /\ rows'[i].run = rows[i].run /\ rows'[i].file = rows[i].file
              /\ rows'[i].data = rows[i].data
              /\ rows'[i].state = IF i = cur THEN "done" ELSE rows[i].state
<1>1. rows \in Seq(Row) /\ cur \in 0..Len(rows) /\ Len(rows) \in Nat
  BY DEF RowsFit
<1>2. CASE cur = 0
  BY <1>1, <1>2 DEF CloseRow
<1>3. CASE cur # 0
  <2>1. cur \in 1..Len(rows) /\ rows[cur] \in Row
    BY <1>1, <1>3
  <2>2. PICK e : e = [rows[cur] EXCEPT !.state = "done"]
    OBVIOUS
  <2>3. /\ e \in Row /\ e.run = rows[cur].run /\ e.file = rows[cur].file
        /\ e.state = "done" /\ e.data = rows[cur].data
    BY <2>1, <2>2 DEF Row
  <2>4. rows' = [rows EXCEPT ![cur] = e]
    BY <1>3, <2>2 DEF CloseRow
  <2>5. /\ rows' \in Seq(Row) /\ Len(rows') = Len(rows) /\ rows'[cur] = e
        /\ \A i \in 1..Len(rows) : i # cur => rows'[i] = rows[i]
    BY <1>1, <2>1, <2>3, <2>4
  <2> QED BY <2>1, <2>3, <2>5
<1> QED BY <1>2, <1>3

(* A step of the receiver that consumes the first token of the buffer. *)
LEMMA TakesOneTypes ==
  ASSUME ZmodemTypes, buf # <<>>, buf' = Tail(buf), fromHost' = fromHost,
         sz' = sz, exit' = exit, restarted' = restarted, troubles' = troubles,
         toHost' \in Seq(Replies), LoopFits', RowsFit'
  PROVE  ZmodemTypes'
<1>1. /\ 1 \in 0..Len(Coming) /\ Coming' = Behind(Coming, 1) /\ buf' \in Seq(Tokens)
      /\ fromHost' \in Seq(Tokens)
  BY HeadHolds, TakesOne, TypeParts DEF ZmodemTypes, LineFits
<1>2. LineFits'
  BY <1>1 DEF LineFits
<1>3. TroublesFit'
  BY NoTrouble
<1> QED BY <1>1, <1>2, <1>3, ReceiverTypes

LEMMA GoodByeTypes ==
  ASSUME ZmodemTypes, NEW rest \in Seq(Tokens), GoodBye(rest), fromHost' = fromHost,
         \/ buf # <<>> /\ rest = Tail(buf)
         \/ buf = <<>> /\ rest = <<>>,
         received' = received, rows' = rows, sender' = sender, up' = up
  PROVE  ZmodemTypes'
<1>0. ZmodemTypeOK /\ RowsFit /\ LineFits /\ LoopFits
  BY TypeParts DEF ZmodemTypes
<1>1. sz' = sz /\ exit' = exit /\ restarted' = restarted /\ troubles' = troubles
  BY DEF sender
<1>2. TroublesFit'
  BY <1>1, NoTrouble
<1>3. CASE /\ pc' = "drain" /\ buf' = rest
           /\ cooling' = cooling /\ cur' = cur /\ prompt' = prompt
           /\ toHost' \in Seq(Replies)
  <2>1. LoopFits' /\ RowsFit'
    BY <1>0, <1>3 DEF LoopFits, RowsFit, Receiving
  <2>2. CASE buf # <<>> /\ rest = Tail(buf)
    BY <2>1, <2>2, <1>1, <1>3, TakesOneTypes
  <2>3. CASE buf = <<>> /\ rest = <<>>
    <3>1. Coming' = Behind(Coming, Len(buf)) /\ Len(buf) \in 0..Len(Coming)
      BY <2>3, <1>0, <1>3, TakesBuffer, ComingFacts
    <3>2. LineFits'
      BY <2>3, <1>0, <1>3 DEF LineFits
    <3> QED BY <2>1, <3>1, <3>2, <1>1, <1>2, ReceiverTypes
  <2> QED BY <2>2, <2>3
<1>4. CASE /\ pc' = "shell" /\ buf' = <<>> /\ cooling' = TRUE /\ cur' = 0
           /\ prompt' \in [RunIds -> Fates] /\ toHost' = toHost
  <2>1. LoopFits' /\ RowsFit' /\ LineFits'
    BY <1>0, <1>4 DEF LoopFits, RowsFit, LineFits
  <2>2. Coming' = Behind(Coming, Len(buf)) /\ Len(buf) \in 0..Len(Coming)
    BY <1>0, <1>4, TakesBuffer, ComingFacts
  <2> QED BY <2>1, <2>2, <1>1, <1>2, ReceiverTypes
<1> QED BY <1>0, <1>3, <1>4, GoodByeFacts

LEMMA ReceiveTypes ==
  ASSUME ZmodemTypes, Receive
  PROVE  ZmodemTypes'
<1>0. /\ ZmodemTypeOK /\ RowsFit /\ LineFits /\ LoopFits /\ TroublesFit
      /\ Only(Coming, Named)
  BY TypeParts DEF ZmodemTypes
<1>1. ASSUME NEW n \in 1..Len(fromHost), Fetch(n) PROVE ZmodemTypes'
  <2>1. /\ buf' \in Seq(Tokens) /\ fromHost' \in Seq(Tokens) /\ Coming' = Coming
    BY <1>0, <1>1, TakesNone DEF Fetch
  <2>2. Coming' = Behind(Coming, 0) /\ 0 \in 0..Len(Coming)
    <3>1. Coming \in Seq(Tokens) /\ 0 \in 0..Len(Coming)
      BY <1>0, ComingFacts
    <3> QED BY <2>1, <3>1, BehindFacts
  <2>3. LineFits' /\ LoopFits' /\ RowsFit'
    BY <2>1, <1>0, <1>1 DEF Fetch, LineFits, LoopFits, RowsFit
  <2>4. sz' = sz /\ exit' = exit /\ restarted' = restarted /\ TroublesFit'
    BY <1>1, NoTrouble DEF Fetch, sender
  <2> QED BY <2>2, <2>3, <2>4, ReceiverTypes
<1>2. ASSUME NothingToRead PROVE ZmodemTypes'
  BY <1>2, NoTrouble, BailTypes DEF NothingToRead
<1>3. ASSUME SkipGarbage PROVE ZmodemTypes'
  <2>1. Head(buf) \in Tokens /\ <<Head(buf)>> \in Seq(Tokens)
    BY <1>3, HeadHolds DEF SkipGarbage
  <2>2. prompt' \in [RunIds -> Fates]
    BY <2>1, <1>0, <1>3, MarkType DEF SkipGarbage
  <2>3. LoopFits' /\ RowsFit' /\ toHost' \in Seq(Replies)
    BY <2>2, <1>0, <1>3 DEF SkipGarbage, LoopFits, RowsFit, LineFits
  <2> QED BY <2>3, <1>3, TakesOneTypes DEF SkipGarbage, sender
<1>4. ASSUME OnZRQINIT PROVE ZmodemTypes'
  <2>1. toHost' \in Seq(Replies)
    BY <1>0, <1>4, SendsOne DEF OnZRQINIT, Replies
  <2>2. LoopFits' /\ RowsFit'
    BY <1>0, <1>4 DEF OnZRQINIT, LoopFits, RowsFit
  <2> QED BY <2>1, <2>2, <1>4, TakesOneTypes DEF OnZRQINIT, Header, sender
<1>5. ASSUME OnZFILE PROVE ZmodemTypes'
  <2>1. toHost' \in Seq(Replies)
    BY <1>0, <1>5, SendsOne DEF OnZFILE, Replies
  <2>2. Head(buf) \in Tokens /\ Head(buf) \in Named /\ Head(buf).kind = "ZFILE"
    BY <1>5, HeadHolds DEF OnZFILE, Header
  <2>3. Head(buf).run \in RunIds /\ Head(buf).file \in FileIds
    BY <2>2 DEF Named, Tokens
  <2>4. rows' \in Seq(Row) /\ Len(rows') = Len(rows) + 1 /\ Len(rows) \in Nat
    BY <2>3, <1>0, <1>5, RowAdded DEF OnZFILE, OpenRow
  <2>5. cur' = Len(rows') /\ received' = received
    BY <1>5 DEF OnZFILE
  <2>6. LoopFits' /\ RowsFit'
    BY <2>4, <2>5, <1>0, <1>5 DEF OnZFILE, LoopFits, RowsFit
  <2> QED BY <2>1, <2>6, <1>5, TakesOneTypes DEF OnZFILE, Header, sender
<1>6. ASSUME OnZDATA PROVE ZmodemTypes'
  <2>1. LoopFits' /\ RowsFit' /\ toHost' \in Seq(Replies)
    BY <1>0, <1>6 DEF OnZDATA, LoopFits, RowsFit, LineFits, Receiving
  <2> QED BY <2>1, <1>6, TakesOneTypes DEF OnZDATA, Header, sender
<1>7. ASSUME OnSubpacket PROVE ZmodemTypes'
  <2>1. Head(buf) \in Tokens /\ Head(buf) \in Named /\ Head(buf).kind = "sub"
    BY <1>7, HeadHolds DEF OnSubpacket
  <2>2. rows' \in Seq(Row) /\ Len(rows') = Len(rows)
    BY <2>1, <1>0, <1>7, WriteFacts DEF OnSubpacket
  <2>3. toHost' \in Seq(Replies)
    <3>1. CASE Head(buf).arg \in AckExpected
      BY <3>1, <1>0, <1>7, SendsOne DEF OnSubpacket, Replies
    <3>2. CASE Head(buf).arg \notin AckExpected
      BY <3>2, <1>0, <1>7, SendsNone DEF OnSubpacket, LineFits
    <3> QED BY <3>1, <3>2
  <2>4. pc' \in Receiving
    BY <1>7 DEF OnSubpacket, Receiving
  <2>5. LoopFits' /\ RowsFit'
    BY <2>2, <2>4, <1>0, <1>7 DEF OnSubpacket, LoopFits, RowsFit
  <2> QED BY <2>3, <2>5, <1>7, TakesOneTypes DEF OnSubpacket, sender
<1>8. ASSUME SpoiltSubpacket PROVE ZmodemTypes'
  BY <1>8, NoTrouble, BailTypes DEF SpoiltSubpacket
<1>9. ASSUME OnZEOF PROVE ZmodemTypes'
  <2>1. toHost' \in Seq(Replies)
    BY <1>0, <1>9, SendsOne DEF OnZEOF, Replies
  <2>2. rows' \in Seq(Row) /\ Len(rows') = Len(rows) /\ cur' = 0
    BY <1>0, <1>9, CloseFacts DEF OnZEOF, CountFile
  <2>3. received' \in Nat
    BY <1>0, <1>9 DEF OnZEOF, CountFile, RowsFit
  <2>4. LoopFits' /\ RowsFit'
    BY <2>2, <2>3, <1>0, <1>9 DEF OnZEOF, LoopFits, RowsFit, Receiving
  <2> QED BY <2>1, <2>4, <1>9, TakesOneTypes DEF OnZEOF, Header, sender
<1>10. ASSUME Peek PROVE ZmodemTypes'
  <2>1. CASE Head(buf).kind = "ZFILE"
    <3>1. buf' = buf /\ fromHost' = fromHost /\ Coming' = Coming
      BY <2>1, <1>10 DEF Peek, Coming
    <3>2. Coming' = Behind(Coming, 0) /\ 0 \in 0..Len(Coming)
      <4>1. Coming \in Seq(Tokens) /\ 0 \in 0..Len(Coming)
        BY <1>0, ComingFacts
      <4> QED BY <3>1, <4>1, BehindFacts
    <3>3. LineFits' /\ LoopFits' /\ RowsFit'
      BY <2>1, <1>0, <1>10 DEF Peek, LineFits, LoopFits, RowsFit, Receiving
    <3>4. sz' = sz /\ exit' = exit /\ restarted' = restarted /\ TroublesFit'
      BY <1>10, NoTrouble DEF Peek, sender
    <3> QED BY <3>2, <3>3, <3>4, ReceiverTypes
  <2>2. CASE Head(buf).kind # "ZFILE"
    <3>1. GoodBye(Tail(buf)) /\ buf # <<>> /\ Tail(buf) \in Seq(Tokens)
      BY <2>2, <1>10, HeadHolds DEF Peek
    <3> QED BY <3>1, <1>10, GoodByeTypes DEF Peek
  <2> QED BY <2>1, <2>2
<1>11. ASSUME PeekTimesOut PROVE ZmodemTypes'
  <2>1. <<>> \in Seq(Tokens)
    OBVIOUS
  <2> QED BY <2>1, <1>11, GoodByeTypes DEF PeekTimesOut
<1>12. ASSUME OnZFIN PROVE ZmodemTypes'
  <2>1. GoodBye(Tail(buf)) /\ buf # <<>> /\ Tail(buf) \in Seq(Tokens)
    BY <1>12, HeadHolds DEF OnZFIN, Header
  <2> QED BY <2>1, <1>12, GoodByeTypes DEF OnZFIN
<1>13. ASSUME OnZABORT PROVE ZmodemTypes'
  BY <1>13, NoTrouble, BailTypes DEF OnZABORT
<1>14. ASSUME DiskFails PROVE ZmodemTypes'
  <2>1. TroublesFit'
    BY <1>0, <1>14, TroubleTypes DEF DiskFails, TroubleKinds
  <2> QED BY <2>1, <1>14, BailTypes DEF DiskFails
<1>15. ASSUME Drain PROVE ZmodemTypes'
  <2>1. CASE IsCloseBytes(Head(buf))
    <3>1. LoopFits' /\ RowsFit' /\ toHost' \in Seq(Replies)
      BY <2>1, <1>0, <1>15 DEF Drain, LoopFits, RowsFit, LineFits
    <3> QED BY <3>1, <2>1, <1>15, TakesOneTypes DEF Drain, sender
  <2>2. CASE ~IsCloseBytes(Head(buf))
    <3>1. /\ pc' = "shell" /\ cooling' = TRUE /\ buf' = <<>> /\ cur' = 0
          /\ prompt' = IF StartsLikeOne(Head(buf))
                       THEN [Mark(buf, "shown") EXCEPT ![Head(buf).run] = "cut"]
                       ELSE Mark(buf, "shown")
      BY <2>2, <1>15 DEF Drain, Return
    <3>2. Mark(buf, "shown") \in [RunIds -> Fates] /\ "cut" \in Fates
      BY <1>0, MarkType DEF LineFits, Fates
    <3>3. prompt' \in [RunIds -> Fates]
      BY <3>1, <3>2
    <3>4. LoopFits' /\ RowsFit' /\ LineFits'
      BY <3>1, <3>3, <1>0, <1>15 DEF Drain, LoopFits, RowsFit, LineFits
    <3>5. Coming' = Behind(Coming, Len(buf)) /\ Len(buf) \in 0..Len(Coming)
      BY <3>1, <1>0, <1>15, TakesBuffer, ComingFacts DEF Drain
    <3>6. sz' = sz /\ exit' = exit /\ restarted' = restarted /\ TroublesFit'
      BY <1>15, NoTrouble DEF Drain, sender
    <3> QED BY <3>4, <3>5, <3>6, ReceiverTypes
  <2> QED BY <2>1, <2>2
<1>16. ASSUME DrainEnds PROVE ZmodemTypes'
  <2>1. /\ pc' = "shell" /\ cooling' = TRUE /\ buf' = <<>> /\ cur' = 0 /\ prompt' = prompt
    BY <1>16 DEF DrainEnds, Return
  <2>2. LoopFits' /\ RowsFit' /\ LineFits'
    BY <2>1, <1>0, <1>16 DEF DrainEnds, LoopFits, RowsFit, LineFits
  <2>3. Coming' = Behind(Coming, Len(buf)) /\ Len(buf) \in 0..Len(Coming)
    BY <2>1, <1>0, <1>16, TakesBuffer, ComingFacts DEF DrainEnds
  <2>4. sz' = sz /\ exit' = exit /\ restarted' = restarted /\ TroublesFit'
    BY <1>16, NoTrouble DEF DrainEnds, sender
  <2> QED BY <2>2, <2>3, <2>4, ReceiverTypes
<1>17. ASSUME SendFails PROVE ZmodemTypes'
  <2>1. rows' \in Seq(Row) /\ received' \in Nat
    <3>1. CASE rows' = rows /\ received' = received
      BY <3>1, <1>0 DEF RowsFit
    <3>2. CASE Header("ZFILE") /\ OpenRow(Head(buf)) /\ received' = received
      <4>1. Head(buf) \in Tokens /\ Head(buf) \in Named /\ Head(buf).kind = "ZFILE"
        BY <3>2, HeadHolds DEF Header
      <4>2. Head(buf).run \in RunIds /\ Head(buf).file \in FileIds
        BY <4>1 DEF Named, Tokens
      <4> QED BY <4>2, <3>2, <1>0, RowAdded DEF OpenRow, RowsFit
    <3>3. CASE CountFile
      BY <3>3, <1>0, CloseFacts DEF CountFile, RowsFit
    <3>4. CASE /\ buf # <<>> /\ Head(buf).kind = "sub"
               /\ rows' = WriteChunk(Head(buf), rows) /\ received' = received
      <4>1. Head(buf) \in Tokens /\ Head(buf) \in Named
        BY <3>4, HeadHolds
      <4> QED BY <4>1, <3>4, <1>0, WriteFacts DEF RowsFit
    <3> QED BY <3>1, <3>2, <3>3, <3>4, <1>17 DEF SendFails
  <2>2. RowsFit' /\ LineFits' /\ LoopFits'
    BY <2>1, <1>0, <1>17, SendFailsFacts DEF RowsFit, LineFits, LoopFits
  <2>3. Len(buf) \in 0..Len(Coming) /\ TroublesFit'
    BY <1>0, <1>17, SendFailsFacts, NoTrouble, ComingFacts
  <2> QED BY <2>2, <2>3, <1>17, SendFailsFacts, ReceiverTypes
<1> QED BY <1>1, <1>2, <1>3, <1>4, <1>5, <1>6, <1>7, <1>8, <1>9, <1>10, <1>11, <1>12,
           <1>13, <1>14, <1>15, <1>16, <1>17 DEF Receive

(* No file is open, and nothing is left in the buffer, while nothing is received. *)
AtRest ==
  /\ pc \in {"shell", "ended"} => buf = <<>> /\ cur = 0
  /\ pc = "peek" => cur = 0

LEMMA RestKept ==
  ASSUME AtRest, ZmodemNext
  PROVE  AtRest'
<1>1. ASSUME Receive PROVE AtRest'
  <2>1. ASSUME NEW n \in 1..Len(fromHost), Fetch(n) PROVE AtRest'
    BY <2>1 DEF AtRest, Fetch, Receiving
  <2>2. ASSUME Bail PROVE AtRest'
    BY <2>2 DEF AtRest, Bail, Return
  <2>3. NothingToRead \/ SpoiltSubpacket \/ OnZABORT \/ DiskFails => Bail
    BY DEF NothingToRead, SpoiltSubpacket, OnZABORT, DiskFails
  <2>4. ASSUME NEW rest, GoodBye(rest) PROVE AtRest'
    BY <2>4 DEF AtRest, GoodBye, Return
  <2>5. ASSUME SkipGarbage PROVE AtRest'
    BY <2>5 DEF AtRest, SkipGarbage
  <2>6. ASSUME OnZRQINIT \/ OnZFILE \/ OnZDATA \/ OnSubpacket \/ OnZEOF PROVE AtRest'
    BY <2>6 DEF AtRest, OnZRQINIT, OnZFILE, OnZDATA, OnSubpacket, OnZEOF, Header
  <2>7. ASSUME Peek PROVE AtRest'
    BY <2>4, <2>7 DEF AtRest, Peek
  <2>8. PeekTimesOut \/ OnZFIN => \E rest \in {<<>>, Tail(buf)} : GoodBye(rest)
    BY DEF PeekTimesOut, OnZFIN
  <2>9. ASSUME Drain \/ DrainEnds PROVE AtRest'
    BY <2>9 DEF AtRest, Drain, DrainEnds, Return
  <2>10. ASSUME SendFails PROVE AtRest'
    BY <2>10 DEF AtRest, SendFails, Return
  <2> QED BY <1>1, <2>1, <2>2, <2>3, <2>4, <2>5, <2>6, <2>7, <2>8, <2>9, <2>10 DEF Receive
<1>2. ASSUME SessionLoop PROVE AtRest'
  BY <1>2 DEF AtRest, SessionLoop, ReadOutput, TwoSecondsPass, SessionEnds
<1>3. ASSUME UNCHANGED receiver PROVE AtRest'
  BY <1>3 DEF AtRest, receiver
<1>4. Sz \/ StartSz \/ RepeatEarly \/ RepeatQuiet \/ Abort \/ LineDrops => UNCHANGED receiver
  BY DEF Sz, SendChunk, SendEof, ReadAnswer, StartSz, RepeatEarly, RepeatQuiet, Abort, LineDrops
<1> QED BY <1>1, <1>2, <1>3, <1>4 DEF ZmodemNext, SessionTask

LEMMA SessionLoopTypes ==
  ASSUME ZmodemTypes, AtRest, SessionLoop
  PROVE  ZmodemTypes'
<1>0. /\ ZmodemTypeOK /\ RowsFit /\ LineFits /\ LoopFits /\ TroublesFit
      /\ Only(Coming, Named)
  BY TypeParts DEF ZmodemTypes
<1>1. ASSUME NEW n \in 1..Len(fromHost), ReadOutput(n) PROVE ZmodemTypes'
  <2>1. buf = <<>> /\ Reads(n)
    BY <1>1 DEF AtRest, ReadOutput
  <2>2. PICK data : data = SubSeq(fromHost, 1, n)
    OBVIOUS
  <2>3. /\ data \in Seq(Tokens) /\ fromHost' \in Seq(Tokens) /\ n \in 0..Len(Coming)
        /\ buf' = data => Coming' = Coming
        /\ buf' = <<>> => Coming' = Behind(Coming, n)
    BY <2>1, <2>2, <1>0, TakesNone
  <2>4. sz' = sz /\ exit' = exit /\ restarted' = restarted /\ TroublesFit'
    BY <1>1, NoTrouble DEF ReadOutput, sender
  <2>5. CASE contains_zmodem_init(data) /\ ~cooling
    <3>1. /\ pc' = "header" /\ buf' = data /\ cur' = 0 /\ received' = 0
          /\ prompt' = prompt
      BY <2>2, <2>5, <1>1 DEF ReadOutput
    <3>2. Coming' = Behind(Coming, 0) /\ 0 \in 0..Len(Coming)
      <4>1. Coming \in Seq(Tokens) /\ 0 \in 0..Len(Coming)
        BY <1>0, ComingFacts
      <4> QED BY <2>3, <3>1, <4>1, BehindFacts
    <3>3. LineFits' /\ LoopFits' /\ RowsFit'
      BY <2>3, <3>1, <1>0, <1>1 DEF ReadOutput, LineFits, LoopFits, RowsFit, Receiving
    <3> QED BY <2>4, <3>2, <3>3, ReceiverTypes
  <2>6. CASE ~(contains_zmodem_init(data) /\ ~cooling)
    <3>1. /\ prompt' = Mark(data, "shown") /\ pc' = pc /\ buf' = <<>> /\ cur' = cur
          /\ received' = received
      BY <2>1, <2>2, <2>6, <1>1 DEF ReadOutput
    <3>2. prompt' \in [RunIds -> Fates]
      BY <2>3, <3>1, <1>0, MarkType
    <3>3. LineFits' /\ LoopFits' /\ RowsFit'
      BY <2>3, <3>1, <3>2, <1>0, <1>1 DEF ReadOutput, LineFits, LoopFits, RowsFit
    <3> QED BY <2>3, <2>4, <3>1, <3>3, ReceiverTypes
  <2> QED BY <2>5, <2>6
<1>2. ASSUME TwoSecondsPass \/ SessionEnds PROVE ZmodemTypes'
  <2>1. LineFits' /\ LoopFits' /\ RowsFit'
    BY <1>0, <1>2 DEF TwoSecondsPass, SessionEnds, LineFits, LoopFits, RowsFit
  <2>2. sz' = sz /\ exit' = exit /\ restarted' = restarted /\ TroublesFit'
    BY <1>2, NoTrouble DEF TwoSecondsPass, SessionEnds, sender
  <2>3. Coming' = Behind(Coming, 0) /\ 0 \in 0..Len(Coming)
    <3>1. Coming \in Seq(Tokens) /\ 0 \in 0..Len(Coming)
      BY <1>0, ComingFacts
    <3>2. Coming' = Coming
      BY <1>2 DEF TwoSecondsPass, SessionEnds, Coming
    <3> QED BY <3>1, <3>2, BehindFacts
  <2> QED BY <2>1, <2>2, <2>3, ReceiverTypes
<1> QED BY <1>1, <1>2 DEF SessionLoop

(* What a step of the far side needs to keep the types. *)
LEMMA SenderTypesKept ==
  ASSUME ZmodemTypes, UNCHANGED receiver, up' \in BOOLEAN, TroublesFit',
         fromHost' \in Seq(Tokens), toHost' \in Seq(Replies),
         SenderFits', SenderNames', Only(Coming', Named)
  PROVE  ZmodemTypes'
<1>1. RowsFit' /\ LineFits' /\ LoopFits'
  <2>1. RowsFit /\ LineFits /\ LoopFits
    BY TypeParts
  <2> QED BY <2>1 DEF RowsFit, LineFits, LoopFits, receiver
<1>2. Only(Coming, Named)'
  BY DEF Only, Named
<1> QED BY <1>1, <1>2, TypePartsNext

LEMMA NamedOnes ==
  ASSUME ZmodemTypes
  PROVE  /\ Coming \in Seq(Tokens) /\ Only(Coming, Named)
         /\ \A t \in Named : t \in Tokens => Only(Append(Coming, t), Named)
         /\ \A t \in Named, u \in Named : t \in Tokens /\ u \in Tokens =>
              Only(Append(Append(Coming, t), u), Named)
<1>1. Coming \in Seq(Tokens) /\ Only(Coming, Named)
  BY ComingFacts DEF ZmodemTypes
<1>2. \A t \in Tokens : Append(Coming, t) \in Seq(Tokens)
  BY <1>1, OneMore
<1>3. \A t \in Named : t \in Tokens => Only(Append(Coming, t), Named)
  BY <1>1, OneMoreHolds
<1>4. \A t \in Named, u \in Named : t \in Tokens /\ u \in Tokens =>
        Only(Append(Append(Coming, t), u), Named)
  BY <1>2, <1>3, OneMoreHolds
<1> QED BY <1>1, <1>3, <1>4

LEMMA LeaveTypes ==
  ASSUME ZmodemTypes, ~Gone, UNCHANGED receiver, NEW how \in {"ok", "error"}, NEW toks,
         Leave(sz, toks, how),
         toks = <<>> \/ \E k \in LastWords : toks = <<Token(sz, k, 0, "none")>>,
         restarted' = restarted, up' = up, toHost' \in Seq(Replies), TroublesFit'
  PROVE  ZmodemTypes'
<1>0. ZmodemTypeOK /\ SenderFits /\ LoopFits /\ buf' = buf
  BY TypeParts DEF ZmodemTypes, receiver
<1>1. fromHost' \in Seq(Tokens)
  BY <1>0, LeaveSays
<1>2. Only(Coming', Named)
  <2>1. PICK p \in Tokens :
          /\ p.kind = "text" /\ p.run = sz.run /\ p.file = sz.file
          /\ \/ toks = <<>> /\ Coming' = Append(Coming, p)
             \/ \E t \in Tokens :
                  /\ toks = <<Token(sz, t.kind, 0, "none")>>
                  /\ t.kind \in LastWords /\ t.run = sz.run /\ t.file = sz.file
                  /\ Coming' = Append(Append(Coming, t), p)
    BY <1>0, LeaveSays
  <2>2. p \in Named /\ \A t \in Tokens : t.kind \in LastWords => t \in Named
    BY <2>1 DEF Named, LastWords
  <2> QED BY <2>1, <2>2, NamedOnes
<1>3. sz' = [sz EXCEPT !.stage = "gone", !.open = FALSE] /\ exit' = [exit EXCEPT ![sz.run] = how]
  BY DEF Leave
<1>4. SenderFits' /\ SenderNames'
  BY <1>0, <1>3 DEF SenderFits, SenderNames, Gone
<1> QED BY <1>0, <1>1, <1>2, <1>4, SenderTypesKept DEF LoopFits

LEMMA SendFileTypes ==
  ASSUME ZmodemTypes, ~Gone, UNCHANGED receiver, NEW f \in 1..FilesOf[sz.run], SendFile(sz, f),
         exit' = exit, restarted' = restarted, up' = up, toHost' \in Seq(Replies),
         troubles' = troubles
  PROVE  ZmodemTypes'
<1>0. ZmodemTypeOK /\ SenderFits /\ LoopFits /\ buf' = buf
  BY TypeParts DEF ZmodemTypes, receiver
<1>1. f \in FileIds /\ f # 0
  BY RunType, FileTypes
<1>2. PICK t \in Tokens :
        /\ t.kind = "ZFILE" /\ t.run = sz.run /\ t.file = f
        /\ Coming' = Append(Coming, t) /\ fromHost' \in Seq(Tokens)
  BY <1>0, <1>1, FileSays
<1>3. Only(Coming', Named)
  <2>1. t \in Named
    BY <1>1, <1>2 DEF Named
  <2> QED BY <2>1, <1>2, NamedOnes
<1>4. 1 \in 1..(Chunks + 1)
  BY CountsAssumption
<1>5. sz' = [sz EXCEPT !.stage = "file", !.file = f, !.next = 1]
  BY DEF SendFile
<1>6. SenderFits'
  BY <1>0, <1>1, <1>4, <1>5 DEF SenderFits
<1>7. SenderNames'
  <2>1. sz'.run = sz.run /\ sz'.file = f /\ sz'.stage = "file"
    BY <1>0, <1>5 DEF SenderFits
  <2>2. sz.run # 0
    BY RunType, TypeParts DEF SenderNames, Gone
  <2> QED BY <2>1, <2>2 DEF SenderNames
<1> QED BY <1>0, <1>2, <1>3, <1>6, <1>7, NoTrouble, SenderTypesKept DEF LoopFits

(* The answers the sender acts on, and those it passes over. *)
LEMMA AnswerCases ==
  ASSUME ZmodemTypeOK, NEW reply, Answered(reply)
  PROVE  \/ reply = "CANCEL" /\ ~Gone /\ Leave(sz, <<>>, "error") /\ restarted' = restarted
         \/ /\ reply = "ZFIN" /\ sz.stage = "fin" /\ restarted' = restarted
            /\ Leave(sz, <<Token(sz, "OO", 0, "none")>>, "ok")
         \/ /\ reply = "ZFIN" /\ sz.stage \in {"file", "data", "eof"}
            /\ Leave(sz, <<>>, "error") /\ restarted' = restarted
         \/ /\ reply = "ZRINIT" /\ exit' = exit /\ restarted' = restarted
            /\ \/ sz.stage = "init" /\ SendFile(sz, 1)
               \/ sz.stage = "file" /\ SendFile(sz, sz.file)
               \/ sz.stage = "eof" /\ sz.file < FilesOf[sz.run] /\ SendFile(sz, sz.file + 1)
               \/ sz.stage = "eof" /\ sz.file = FilesOf[sz.run] /\ SendFin(sz)
         \/ /\ reply = "ZRPOS" /\ sz.stage = "file" /\ sz' = [sz EXCEPT !.stage = "data"]
            /\ fromHost' = fromHost /\ exit' = exit /\ restarted' = restarted
         \/ reply = "ZRPOS" /\ sz.stage \in {"data", "eof"} /\ Restart /\ exit' = exit
         \/ /\ sz' = sz /\ fromHost' = fromHost /\ exit' = exit /\ restarted' = restarted
            /\ reply = "CANCEL" => Gone
            /\ reply = "ZFIN" => sz.stage \in {"init", "gone"}
            /\ reply = "ZRPOS" => sz.stage \notin {"file", "data", "eof"}
            /\ reply = "ZRINIT" => sz.stage \notin {"init", "file"}
<1>0. sz.stage \in {"init", "file", "data", "eof", "fin", "gone"}
  BY SenderTypes
<1>1. CASE reply = "CANCEL" /\ sz.stage # "gone"
  BY <1>1 DEF Answered, Gone
<1>2. CASE reply = "ZFIN" /\ sz.stage = "fin"
  BY <1>2 DEF Answered
<1>3. CASE reply = "ZFIN" /\ sz.stage \in {"file", "data", "eof"}
  BY <1>3 DEF Answered
<1>4. CASE reply = "ZRINIT" /\ sz.stage = "init"
  BY <1>4 DEF Answered
<1>5. CASE reply = "ZRINIT" /\ sz.stage = "file"
  BY <1>5 DEF Answered
<1>6. CASE reply = "ZRINIT" /\ sz.stage = "eof" /\ sz.file < FilesOf[sz.run]
  BY <1>6 DEF Answered
<1>7. CASE reply = "ZRINIT" /\ sz.stage = "eof" /\ sz.file = FilesOf[sz.run]
          /\ ~(sz.file < FilesOf[sz.run])
  BY <1>7 DEF Answered
<1>8. CASE reply = "ZRPOS" /\ sz.stage = "file"
  BY <1>8 DEF Answered
<1>9. CASE reply = "ZRPOS" /\ sz.stage \in {"data", "eof"}
  BY <1>9 DEF Answered
<1>10. CASE /\ ~(reply = "CANCEL" /\ sz.stage # "gone")
            /\ ~(reply = "ZFIN" /\ sz.stage = "fin")
            /\ ~(reply = "ZFIN" /\ sz.stage \in {"file", "data", "eof"})
            /\ ~(reply = "ZRINIT" /\ sz.stage = "init")
            /\ ~(reply = "ZRINIT" /\ sz.stage = "file")
            /\ ~(reply = "ZRINIT" /\ sz.stage = "eof" /\ sz.file < FilesOf[sz.run])
            /\ ~(reply = "ZRINIT" /\ sz.stage = "eof" /\ sz.file = FilesOf[sz.run])
            /\ ~(reply = "ZRPOS" /\ sz.stage = "file")
            /\ ~(reply = "ZRPOS" /\ sz.stage \in {"data", "eof"})
  <2>1. sz' = sz /\ fromHost' = fromHost /\ exit' = exit /\ restarted' = restarted
    BY <1>10 DEF Answered
  <2> QED BY <2>1, <1>0, <1>10 DEF Gone
<1>11. CASE reply = "ZRINIT" /\ sz.stage = "eof" /\ sz.file = FilesOf[sz.run]
            /\ sz.file < FilesOf[sz.run]
  BY <1>6, <1>11
<1> QED BY <1>1, <1>2, <1>3, <1>4, <1>5, <1>6, <1>7, <1>8, <1>9, <1>10, <1>11

LEMMA AnswerRead ==
  ASSUME ZmodemTypes, ReadAnswer
  PROVE  /\ toHost \in Seq(Replies) /\ toHost # <<>> /\ toHost' = Tail(toHost)
         /\ toHost' \in Seq(Replies) /\ Head(toHost) \in Replies
         /\ UNCHANGED receiver /\ up' = up /\ up /\ TroublesFit' /\ troubles' = troubles
         /\ Answered(Head(toHost)) /\ buf' = buf
<1>1. toHost \in Seq(Replies) /\ toHost # <<>> /\ toHost' = Tail(toHost)
  BY TypeParts DEF LineFits, ReadAnswer
<1>2. toHost' \in Seq(Replies) /\ Head(toHost) \in Replies
  BY <1>1, ReplyRead
<1> QED BY <1>1, <1>2, NoTrouble DEF ReadAnswer, receiver

LEMMA FarSideTypes ==
  ASSUME ZmodemTypes, Sz \/ StartSz \/ RepeatEarly \/ RepeatQuiet \/ Abort \/ LineDrops
  PROVE  ZmodemTypes'
<1>0. /\ ZmodemTypeOK /\ RowsFit /\ LineFits /\ LoopFits /\ TroublesFit
      /\ SenderFits /\ SenderNames /\ Only(Coming, Named)
  BY TypeParts DEF ZmodemTypes
<1>1. ASSUME StartSz PROVE ZmodemTypes'
  <2>1. PICK t : t = Token(sz', "ZRQINIT", 0, "none")
    OBVIOUS
  <2>2. /\ t \in Tokens /\ t.kind = "ZRQINIT" /\ sz.run + 1 \in RunIds /\ sz.run + 1 > 0
        /\ Coming' = Append(Coming, t) /\ fromHost' \in Seq(Tokens)
    BY <2>1, <1>1, StartSays
  <2>3. t \in Named
    BY <2>2 DEF Named
  <2>4. Only(Coming', Named)
    BY <2>2, <2>3, NamedOnes
  <2>5. sz' = [run |-> sz.run + 1, stage |-> "init", file |-> 0, next |-> 1,
               open |-> FALSE, speaks |-> FALSE]
    BY <1>1 DEF StartSz
  <2>6. 1 \in 1..(Chunks + 1) /\ sz.run + 1 \in 0..Runs
    <3>1. Runs \in Nat /\ Chunks \in Nat
      BY CountsAssumption
    <3> QED BY <2>2, <3>1 DEF RunIds
  <2>7. SenderFits'
    BY <2>5, <2>6, <1>0, <1>1 DEF SenderFits, StartSz
  <2>8. SenderNames'
    BY <2>2, <2>5 DEF SenderNames, Gone
  <2> QED BY <2>2, <2>4, <2>7, <2>8, <1>0, <1>1, NoTrouble, SenderTypesKept
         DEF StartSz, LoopFits, LineFits
<1>2. ASSUME SendChunk PROVE ZmodemTypes'
  <2>1. fromHost' \in Seq(Tokens)
    BY <1>2, ChunkSays
  <2>2. PICK t \in Tokens :
              /\ t.kind = "sub" /\ t.run = sz.run /\ t.file = sz.file /\ t.n = sz.next
              /\ sz' = [sz EXCEPT !.next = @ + 1, !.open = t.arg \notin EndOfFrame]
              /\ \/ sz.open /\ Coming' = Append(Coming, t)
                 \/ \E u \in Tokens :
                      /\ ~sz.open /\ u.kind = "ZDATA" /\ u.run = sz.run /\ u.file = sz.file
                      /\ Coming' = Append(Append(Coming, u), t)
    BY <1>2, ChunkSays
  <2>3. sz.file # 0 /\ sz.stage = "data"
    <3>1. sz.file \in 1..FilesOf[sz.run] /\ sz.stage = "data"
      BY <1>0, <1>2 DEF SenderNames, SendChunk
    <3> QED BY <3>1
  <2>4. t \in Named /\ \A u \in Tokens : u.kind = "ZDATA" => u \in Named
    BY <2>2, <2>3 DEF Named
  <2>5. Only(Coming', Named)
    BY <2>2, <2>4, NamedOnes
  <2>6. sz.next + 1 \in 1..(Chunks + 1)
    <3>1. sz.next \in 1..(Chunks + 1) /\ sz.next <= Chunks
      BY <1>0, <1>2 DEF SenderFits, SendChunk
    <3>2. Chunks \in Nat
      BY CountsAssumption
    <3> QED BY <3>1, <3>2
  <2>7. SenderFits' /\ SenderNames'
    BY <2>2, <2>6, <1>0, <1>2 DEF SenderFits, SenderNames, Gone, SendChunk
  <2> QED BY <2>1, <2>5, <2>7, <1>0, <1>2, NoTrouble, SenderTypesKept
         DEF SendChunk, LoopFits, LineFits
<1>3. ASSUME SendEof PROVE ZmodemTypes'
  <2>1. fromHost' \in Seq(Tokens)
    BY <1>3, EofSays
  <2>2. PICK t \in Tokens :
              /\ t.kind = "ZEOF" /\ t.run = sz.run /\ t.file = sz.file
              /\ \/ ~sz.open /\ Coming' = Append(Coming, t)
                 \/ \E u \in Tokens :
                      /\ sz.open /\ u.kind = "sub" /\ u.run = sz.run /\ u.file = sz.file
                      /\ u.n = 0 /\ u.arg = "ZCRCE"
                      /\ Coming' = Append(Append(Coming, u), t)
    BY <1>3, EofSays
  <2>3. sz.file # 0 /\ sz.stage = "data"
    <3>1. sz.file \in 1..FilesOf[sz.run] /\ sz.stage = "data"
      BY <1>0, <1>3 DEF SenderNames, SendEof
    <3> QED BY <3>1
  <2>4. t \in Named /\ \A u \in Tokens : u.file = sz.file => u \in Named
    BY <2>2, <2>3 DEF Named
  <2>5. Only(Coming', Named)
    BY <2>2, <2>4, NamedOnes
  <2>6. sz' = [sz EXCEPT !.stage = "eof", !.open = FALSE]
    BY <1>3 DEF SendEof
  <2>7. SenderFits' /\ SenderNames'
    BY <2>3, <2>6, <1>0, <1>3 DEF SenderFits, SenderNames, Gone, SendEof
  <2> QED BY <2>1, <2>5, <2>7, <1>0, <1>3, NoTrouble, SenderTypesKept
         DEF SendEof, LoopFits, LineFits
<1>4. ASSUME ReadAnswer PROVE ZmodemTypes'
  <2>0. /\ toHost' \in Seq(Replies) /\ UNCHANGED receiver /\ up' = up /\ TroublesFit'
        /\ troubles' = troubles /\ Answered(Head(toHost)) /\ buf' = buf
    BY <1>4, AnswerRead
  <2>1. ASSUME NEW how \in {"ok", "error"}, NEW toks,
               toks = <<>> \/ \E k \in LastWords : toks = <<Token(sz, k, 0, "none")>>,
               ~Gone, Leave(sz, toks, how), restarted' = restarted
        PROVE  ZmodemTypes'
    BY <2>0, <2>1, LeaveTypes
  <2>2. ASSUME ~Gone, NEW f \in 1..FilesOf[sz.run], SendFile(sz, f), exit' = exit,
               restarted' = restarted
        PROVE  ZmodemTypes'
    BY <2>0, <2>2, SendFileTypes
  <2>3. ASSUME Head(toHost) = "ZRINIT", exit' = exit, restarted' = restarted,
               \/ sz.stage = "init" /\ SendFile(sz, 1)
               \/ sz.stage = "file" /\ SendFile(sz, sz.file)
               \/ sz.stage = "eof" /\ sz.file < FilesOf[sz.run] /\ SendFile(sz, sz.file + 1)
        PROVE  ZmodemTypes'
    <3>1. ~Gone /\ FilesOf[sz.run] \in Nat \ {0}
      <4>1. ~Gone
        BY <2>3 DEF Gone
      <4> QED BY <4>1, RunType, FileTypes
    <3>2. sz.stage = "file" => sz.file \in 1..FilesOf[sz.run]
      BY <1>0 DEF SenderNames
    <3>3. sz.stage = "eof" => sz.file \in 1..FilesOf[sz.run]
      BY <1>0 DEF SenderNames
    <3>4. 1 \in 1..FilesOf[sz.run]
      BY <3>1
    <3>5. sz.stage = "eof" /\ sz.file < FilesOf[sz.run] => sz.file + 1 \in 1..FilesOf[sz.run]
      BY <3>1, <3>3
    <3> QED BY <2>2, <2>3, <3>1, <3>2, <3>4, <3>5
  <2>4. ASSUME sz.stage = "eof", SendFin(sz), exit' = exit, restarted' = restarted
        PROVE  ZmodemTypes'
    <3>1. ~Gone
      BY <2>4 DEF Gone
    <3>2. PICK b \in BOOLEAN : sz' = [sz EXCEPT !.stage = "fin", !.speaks = b]
      BY <3>1, <2>0, <2>4, FinSays
    <3>3. fromHost' \in Seq(Tokens)
      BY <3>1, <2>0, <2>4, FinSays
    <3>4. Only(Coming', Named)
      <4>1. \A t \in Tokens : t.kind = "ZFIN" => t \in Named
        BY DEF Named
      <4>2. \/ Coming' = Coming
            \/ \E t \in Tokens : t.kind = "ZFIN" /\ Coming' = Append(Coming, t)
        BY <3>1, <2>0, <2>4, FinSays
      <4>3. /\ Only(Coming, Named)
            /\ \A t \in Named : t \in Tokens => Only(Append(Coming, t), Named)
        BY NamedOnes
      <4> QED BY <4>1, <4>2, <4>3
    <3>5. SenderFits'
      BY <3>2, <2>4, <1>0 DEF SenderFits
    <3>6. SenderNames'
      BY <3>2, <2>4, <1>0 DEF SenderFits, SenderNames, Gone
    <3> QED BY <3>3, <3>4, <3>5, <3>6, <2>0, <1>0, SenderTypesKept DEF LoopFits
  <2>5. ASSUME sz.stage = "file", sz' = [sz EXCEPT !.stage = "data"], fromHost' = fromHost,
               exit' = exit, restarted' = restarted
        PROVE  ZmodemTypes'
    <3>1. Coming' = Coming
      BY <2>0, <2>5 DEF Coming
    <3>2. SenderFits'
      BY <2>5, <1>0 DEF SenderFits
    <3>3. SenderNames'
      BY <2>5, <1>0 DEF SenderFits, SenderNames, Gone
    <3> QED BY <3>1, <3>2, <3>3, <2>0, <2>5, <1>0, SenderTypesKept DEF LoopFits, LineFits
  <2>6. ASSUME sz.stage \in {"data", "eof"}, Restart, exit' = exit
        PROVE  ZmodemTypes'
    <3>1. ~Gone /\ sz.run \in RunIds
      <4>1. ~Gone
        BY <2>6 DEF Gone
      <4> QED BY <4>1, RunType
    <3>2. sz.file \in 1..FilesOf[sz.run] /\ sz.file # 0 /\ sz.file \in FileIds
      <4>1. sz.file \in 1..FilesOf[sz.run]
        BY <2>6, <1>0 DEF SenderNames
      <4> QED BY <4>1, <3>1, FileTypes
    <3>3. fromHost' \in Seq(Tokens)
      BY <3>1, <2>0, <2>6, RestartSays
    <3>4. Only(Coming', Named)
      <4>1. \A t \in Tokens : t.file = sz.file => t \in Named
        BY <3>2 DEF Named
      <4> QED BY <4>1, <3>1, <2>0, <2>6, <1>0, RestartSays, NamedOnes
    <3>5. sz' = [sz EXCEPT !.stage = "data", !.next = 1, !.open = FALSE]
      BY <2>6 DEF Restart
    <3>6. restarted' \subseteq RunIds \X FileIds
      BY <3>1, <3>2, <2>6, <1>0 DEF Restart, SenderFits
    <3>7. 1 \in 1..(Chunks + 1)
      BY CountsAssumption
    <3>8. SenderFits'
      BY <3>5, <3>6, <3>7, <2>6, <1>0 DEF SenderFits
    <3>9. SenderNames'
      BY <3>5, <3>2, <3>1, <1>0 DEF SenderFits, SenderNames, Gone
    <3> QED BY <3>3, <3>4, <3>8, <3>9, <2>0, <1>0, SenderTypesKept DEF LoopFits
  <2>7. ASSUME sz' = sz, fromHost' = fromHost, exit' = exit, restarted' = restarted
        PROVE  ZmodemTypes'
    <3>1. Coming' = Coming
      BY <2>0, <2>7 DEF Coming
    <3>2. SenderFits' /\ SenderNames'
      BY <2>7, <1>0 DEF SenderFits, SenderNames, Gone
    <3> QED BY <3>1, <3>2, <2>0, <2>7, <1>0, SenderTypesKept DEF LoopFits, LineFits
  <2>8. \A s \in {"file", "data", "eof", "fin"} : sz.stage = s => ~Gone
    BY DEF Gone
  <2>9. "OO" \in LastWords
    BY DEF LastWords
  <2> QED BY <2>0, <2>1, <2>3, <2>4, <2>5, <2>6, <2>7, <2>8, <2>9, <1>0, AnswerCases
<1>5. ASSUME RepeatEarly \/ RepeatQuiet PROVE ZmodemTypes'
  <2>1. /\ Unanswered /\ RepeatHeader /\ UNCHANGED receiver /\ buf' = buf
        /\ sz' = sz /\ exit' = exit /\ restarted' = restarted /\ up' = up /\ toHost' = toHost
    BY <1>5 DEF RepeatEarly, RepeatQuiet, receiver, sender
  <2>2. TroublesFit'
    BY <1>0, <1>5, NoTrouble, TroubleTypes DEF RepeatEarly, RepeatQuiet, TroubleKinds, sender
  <2>3. PICK t \in Tokens :
              /\ <<sz.stage, t.kind>> \in {<<"init", "ZRQINIT">>, <<"file", "ZFILE">>,
                                           <<"eof", "ZEOF">>, <<"fin", "ZFIN">>}
              /\ t.run = sz.run /\ t.file = sz.file
              /\ Coming' = Append(Coming, t)
    BY <2>1, HeaderSays
  <2>4. fromHost' \in Seq(Tokens)
    BY <2>1, HeaderSays
  <2>5. t \in Named
    <3>1. CASE t.kind = "ZFILE"
      <4>1. sz.stage = "file"
        BY <2>3, <3>1
      <4>2. sz.file \in 1..FilesOf[sz.run]
        BY <4>1, <1>0 DEF SenderNames
      <4>3. t.file # 0
        BY <4>2, <2>3
      <4> QED BY <4>3, <2>3 DEF Named
    <3>2. CASE t.kind # "ZFILE"
      BY <3>2, <2>3 DEF Named
    <3> QED BY <3>1, <3>2
  <2>6. Only(Coming', Named)
    BY <2>3, <2>5, NamedOnes
  <2>7. SenderFits' /\ SenderNames'
    BY <2>1, <1>0 DEF SenderFits, SenderNames, Gone
  <2> QED BY <2>1, <2>2, <2>4, <2>6, <2>7, <1>0, SenderTypesKept DEF LoopFits, LineFits
<1>6. ASSUME Abort PROVE ZmodemTypes'
  <2>1. PICK kind \in {"CANs", "ZABORT"} : Leave(sz, <<Token(sz, kind, 0, "none")>>, "error")
    BY <1>6 DEF Abort
  <2>2. TroublesFit'
    BY <1>0, <1>6, TroubleTypes DEF Abort, TroubleKinds
  <2>3. ~Gone /\ kind \in LastWords
    BY <1>6 DEF Abort, Gone, LastWords
  <2>4. UNCHANGED receiver /\ restarted' = restarted /\ up' = up /\ toHost' \in Seq(Replies)
    BY <1>0, <1>6 DEF Abort, LineFits
  <2> QED BY <2>1, <2>2, <2>3, <2>4, LeaveTypes
<1>7. ASSUME LineDrops PROVE ZmodemTypes'
  <2>1. TroublesFit'
    BY <1>0, <1>7, TroubleTypes DEF LineDrops, TroubleKinds
  <2>2. SenderFits' /\ SenderNames'
    BY <1>0, <1>7 DEF SenderFits, SenderNames, Gone, LineDrops
  <2>3. Coming' = Coming
    BY <1>7 DEF LineDrops, receiver, Coming
  <2>4. UNCHANGED receiver /\ up' \in BOOLEAN /\ fromHost' \in Seq(Tokens) /\ toHost' \in Seq(Replies)
    BY <1>0, <1>7 DEF LineDrops, LineFits
  <2> QED BY <2>1, <2>2, <2>3, <2>4, <1>0, SenderTypesKept
<1> QED BY <1>1, <1>2, <1>3, <1>4, <1>5, <1>6, <1>7 DEF Sz

(* Types, and the receiver at rest, hold in every state. *)
LEMMA ZmodemTypesStep ==
  ZmodemTypes /\ AtRest /\ [ZmodemNext]_zmodemVars => ZmodemTypes' /\ AtRest'
<1> SUFFICES ASSUME ZmodemTypes, AtRest, [ZmodemNext]_zmodemVars
             PROVE  ZmodemTypes' /\ AtRest'
  OBVIOUS
<1>1. CASE ZmodemNext
  <2>1. AtRest'
    BY <1>1, RestKept
  <2>2. ZmodemTypes'
    BY <1>1, ReceiveTypes, SessionLoopTypes, FarSideTypes DEF ZmodemNext, SessionTask
  <2> QED BY <2>1, <2>2
<1>2. CASE UNCHANGED zmodemVars
  <2>1. AtRest'
    BY <1>2 DEF AtRest, zmodemVars, receiver
  <2>2. /\ UNCHANGED receiver /\ Coming' = Coming /\ troubles' = troubles
        /\ up' = up /\ fromHost' = fromHost /\ toHost' = toHost
        /\ sz' = sz /\ exit' = exit /\ restarted' = restarted
    BY <1>2 DEF zmodemVars, receiver, sender, Coming
  <2>3. /\ LineFits /\ LoopFits /\ SenderFits /\ SenderNames /\ Only(Coming, Named)
    BY TypeParts
  <2>4. SenderFits' /\ SenderNames' /\ TroublesFit'
    BY <2>2, <2>3, NoTrouble DEF SenderFits, SenderNames, Gone
  <2> QED BY <2>1, <2>2, <2>3, <2>4, SenderTypesKept DEF LineFits, LoopFits
<1> QED BY <1>1, <1>2

(* The receiver and the sender keep to their types. *)
THEOREM ZmodemTypeCorrect == ZmodemSpec => []ZmodemTypeOK
<1>1. ZmodemInit => ZmodemTypes /\ AtRest
  BY ZmodemInitTypes DEF ZmodemInit, AtRest
<1>2. ZmodemTypes => ZmodemTypeOK
  BY DEF ZmodemTypes
<1> QED BY <1>1, <1>2, ZmodemTypesStep, PTL DEF ZmodemSpec

-----------------------------------------------------------------------------
(***************************************************************************)
(* The session task takes tokens from the front, and says what became of   *)
(* the prompts among them.                                                 *)
(***************************************************************************)
IsText(t) == t.kind = "text"

Marked(k) ==
  \A r \in RunIds : IF \E i \in 1..k : IsText(Coming[i]) /\ Coming[i].run = r
                    THEN prompt'[r] # "none" ELSE prompt'[r] = prompt[r]

Moved(k) == k \in 0..Len(Coming) /\ Coming' = Behind(Coming, k) /\ Marked(k)

LEMMA MovedNone ==
  ASSUME ZmodemTypes, Coming' = Coming, prompt' = prompt
  PROVE  Moved(0)
<1>1. Coming \in Seq(Tokens) /\ 0 \in 0..Len(Coming) /\ 1..0 = {}
  BY ComingFacts DEF ZmodemTypes
<1>2. Coming' = Behind(Coming, 0)
  BY <1>1, BehindFacts
<1> QED BY <1>1, <1>2 DEF Moved, Marked

LEMMA MovedOne ==
  ASSUME ZmodemTypes, buf # <<>>, buf' = Tail(buf), fromHost' = fromHost,
         ~IsText(Head(buf)), prompt' = prompt
  PROVE  Moved(1)
<1>1. 1 \in 0..Len(Coming) /\ Coming[1] = Head(buf) /\ Coming' = Behind(Coming, 1)
  BY HeadHolds, TakesOne DEF ZmodemTypes
<1>2. \A i \in 1..1 : i = 1
  OBVIOUS
<1>3. \A i \in 1..1 : ~IsText(Coming[i])
  BY <1>1, <1>2
<1> QED BY <1>1, <1>3 DEF Moved, Marked

LEMMA MarkedBy ==
  ASSUME ZmodemTypes, NEW toks \in Seq(Tokens), NEW fate \in {"shown", "lost"},
         \A i \in 1..Len(toks) : toks[i] = Coming[i], prompt' = Mark(toks, fate)
  PROVE  Marked(Len(toks))
<1>1. \A r \in RunIds :
        IF \E i \in 1..Len(toks) : toks[i].kind = "text" /\ toks[i].run = r
        THEN prompt'[r] = fate ELSE prompt'[r] = prompt[r]
  BY MarkType DEF ZmodemTypes
<1>2. fate # "none"
  OBVIOUS
<1>3. ASSUME NEW r \in RunIds
      PROVE  (\E i \in 1..Len(toks) : toks[i].kind = "text" /\ toks[i].run = r)
               <=> (\E i \in 1..Len(toks) : IsText(Coming[i]) /\ Coming[i].run = r)
  BY DEF IsText
<1> QED BY <1>1, <1>2, <1>3 DEF Marked

LEMMA MovedBuffer ==
  ASSUME ZmodemTypes, buf' = <<>>, fromHost' = fromHost, NEW fate \in {"shown", "lost"},
         prompt' = Mark(buf, fate)
  PROVE  Moved(Len(buf))
<1>1. /\ Coming' = Behind(Coming, Len(buf)) /\ Len(buf) \in 0..Len(Coming)
      /\ buf \in Seq(Tokens) /\ \A i \in 1..Len(buf) : buf[i] = Coming[i]
  BY TakesBuffer, ComingFacts DEF ZmodemTypes, ZmodemTypeOK
<1>2. Marked(Len(buf))
  BY <1>1, MarkedBy
<1> QED BY <1>1, <1>2 DEF Moved

(* The first token goes as well, and is no prompt. *)
LEMMA MovedRest ==
  ASSUME ZmodemTypes, buf # <<>>, buf' = <<>>, fromHost' = fromHost,
         ~IsText(Head(buf)), prompt' = Mark(Tail(buf), "shown")
  PROVE  Moved(Len(buf))
<1>1. /\ Coming' = Behind(Coming, Len(buf)) /\ Len(buf) \in 0..Len(Coming)
      /\ buf \in Seq(Tokens) /\ \A i \in 1..Len(buf) : buf[i] = Coming[i]
  BY TakesBuffer, ComingFacts DEF ZmodemTypes, ZmodemTypeOK
<1>2. PICK n \in Nat : n = Len(buf) /\ n >= 1
  BY <1>1
<1>3. PICK t : t = Tail(buf)
  OBVIOUS
<1>4. t \in Seq(Tokens) /\ Len(t) = n - 1 /\ \A i \in 1..(n - 1) : t[i] = buf[i + 1]
  BY <1>1, <1>2, <1>3
<1>5. \A r \in RunIds :
        IF \E i \in 1..Len(t) : t[i].kind = "text" /\ t[i].run = r
        THEN prompt'[r] = "shown" ELSE prompt'[r] = prompt[r]
  BY <1>3, <1>4, MarkType DEF ZmodemTypes
<1>6. ASSUME NEW r \in RunIds
      PROVE  (\E i \in 1..(n - 1) : t[i].kind = "text" /\ t[i].run = r)
               <=> (\E i \in 1..n : IsText(Coming[i]) /\ Coming[i].run = r)
  <2>1. ASSUME NEW i \in 1..(n - 1), t[i].kind = "text" /\ t[i].run = r
        PROVE  \E j \in 1..n : IsText(Coming[j]) /\ Coming[j].run = r
    <3>1. i + 1 \in 1..n
      BY <1>2
    <3>2. Coming[i + 1] = t[i]
      BY <3>1, <1>1, <1>2, <1>4
    <3> QED BY <3>1, <3>2, <2>1 DEF IsText
  <2>2. ASSUME NEW i \in 1..n, IsText(Coming[i]) /\ Coming[i].run = r
        PROVE  \E j \in 1..(n - 1) : t[j].kind = "text" /\ t[j].run = r
    <3>1. i # 1
      <4>1. Coming[1] = Head(buf)
        BY HeadHolds
      <4> QED BY <4>1, <2>2
    <3>2. i - 1 \in 1..(n - 1) /\ i - 1 + 1 = i
      BY <3>1, <1>2
    <3>3. t[i - 1] = Coming[i]
      BY <3>2, <1>1, <1>2, <1>4
    <3> QED BY <3>2, <3>3, <2>2 DEF IsText
  <2> QED BY <2>1, <2>2
<1>7. Marked(n)
  BY <1>4, <1>5, <1>6 DEF Marked
<1> QED BY <1>1, <1>2, <1>7 DEF Moved

LEMMA GoodByeMoves ==
  ASSUME ZmodemTypes, buf # <<>>, GoodBye(Tail(buf)), fromHost' = fromHost, ~IsText(Head(buf))
  PROVE  Moved(1) \/ Moved(Len(buf))
<1>1. Tail(buf) \in Seq(Tokens) /\ ZmodemTypeOK
  BY HeadHolds DEF ZmodemTypes
<1>2. CASE pc' = "drain" /\ buf' = Tail(buf) /\ prompt' = prompt
  BY <1>2, MovedOne
<1>3. CASE buf' = <<>> /\ prompt' = Mark(Tail(buf), "shown")
  BY <1>3, MovedRest
<1> QED BY <1>1, <1>2, <1>3, GoodByeFacts

LEMMA BailMoves ==
  ASSUME ZmodemTypes, Bail, fromHost' = fromHost
  PROVE  Moved(Len(buf))
  BY BailFacts, MovedBuffer DEF ZmodemTypes

LEMMA SessionTaskMoves ==
  ASSUME ZmodemTypes, AtRest, SessionTask
  PROVE  sz' = sz /\ exit' = exit /\ restarted' = restarted /\ up' = up
         /\ \E k \in 0..Len(Coming) : Moved(k)
<1>0. ZmodemTypeOK
  BY DEF ZmodemTypes
<1>a. \A k : Moved(k) => k \in 0..Len(Coming)
  BY DEF Moved
<1>b. ASSUME Bail, fromHost' = fromHost
      PROVE  sz' = sz /\ exit' = exit /\ restarted' = restarted /\ up' = up
             /\ \E k \in 0..Len(Coming) : Moved(k)
  BY <1>0, <1>a, <1>b, BailFacts, BailMoves
<1>c. sender' = sender => sz' = sz /\ exit' = exit /\ restarted' = restarted
  BY DEF sender
<1>1. ASSUME NEW n \in 1..Len(fromHost), Fetch(n) PROVE Moved(0)
  BY <1>0, <1>1, TakesNone, MovedNone DEF Fetch
<1>2. ASSUME SkipGarbage PROVE \E k : Moved(k)
  <2>1. CASE IsText(Head(buf))
    <3>1. /\ 1 \in 0..Len(Coming) /\ Coming[1] = Head(buf) /\ Coming' = Behind(Coming, 1)
          /\ <<Head(buf)>> \in Seq(Tokens)
      BY <1>0, <1>2, HeadHolds, TakesOne DEF SkipGarbage
    <3>2. Len(<<Head(buf)>>) = 1 /\ \A i \in 1..1 : <<Head(buf)>>[i] = Coming[i]
      BY <3>1
    <3>3. Marked(1)
      BY <3>1, <3>2, <1>2, MarkedBy DEF SkipGarbage
    <3> QED BY <3>1, <3>3 DEF Moved
  <2>2. CASE ~IsText(Head(buf))
    <3>1. prompt' = prompt
      <4>1. <<Head(buf)>> \in Seq(Tokens)
        BY <1>2, HeadHolds DEF SkipGarbage
      <4>2. Len(<<Head(buf)>>) = 1 /\ \A i \in 1..1 : <<Head(buf)>>[i] = Head(buf)
        OBVIOUS
      <4>3. \A r \in RunIds : Mark(<<Head(buf)>>, "lost")[r] = prompt[r]
        <5>1. PICK s : s = <<Head(buf)>>
          OBVIOUS
        <5>2. s \in Seq(Tokens) /\ ~\E i \in 1..Len(s) : s[i].kind = "text"
          BY <2>2, <4>1, <4>2, <5>1 DEF IsText
        <5>3. \A r \in RunIds : Mark(s, "lost")[r] = prompt[r]
          BY <5>2, <1>0, MarkType
        <5> QED BY <5>1, <5>3
      <4>4. prompt \in [RunIds -> Fates] /\ Mark(<<Head(buf)>>, "lost") \in [RunIds -> Fates]
        BY <4>1, <1>0, MarkType DEF ZmodemTypeOK, Fates
      <4> QED BY <4>3, <4>4, <1>2 DEF SkipGarbage
    <3> QED BY <2>2, <3>1, <1>2, MovedOne DEF SkipGarbage
  <2> QED BY <2>1, <2>2
<1>3. ASSUME OnZRQINIT \/ OnZFILE \/ OnZDATA \/ OnSubpacket \/ OnZEOF PROVE Moved(1)
  BY <1>3, MovedOne DEF OnZRQINIT, OnZFILE, OnZDATA, OnSubpacket, OnZEOF, Header, IsText
<1>4. ASSUME Peek PROVE \E k : Moved(k)
  <2>1. CASE Head(buf).kind = "ZFILE"
    BY <2>1, <1>4, MovedNone DEF Peek, Coming
  <2>2. CASE Head(buf).kind # "ZFILE"
    BY <2>2, <1>4, GoodByeMoves DEF Peek, IsFrame, Frames, IsText
  <2> QED BY <2>1, <2>2
<1>5. ASSUME PeekTimesOut PROVE Moved(0)
  <2>1. buf = <<>> /\ GoodBye(<<>>) /\ fromHost' = fromHost /\ <<>> \in Seq(Tokens)
    BY <1>5 DEF PeekTimesOut
  <2>2. buf' = <<>>
    BY <2>1, <1>0, GoodByeFacts
  <2>3. prompt' = prompt
    <3>1. prompt' = Mark(<<>>, "shown") => prompt' = prompt
      <4>1. prompt \in [RunIds -> Fates] /\ Mark(<<>>, "shown") \in [RunIds -> Fates]
        BY <2>1, <1>0, MarkType DEF ZmodemTypeOK, Fates
      <4>2. \A r \in RunIds : Mark(<<>>, "shown")[r] = prompt[r]
        BY DEF Mark
      <4> QED BY <4>1, <4>2
    <3> QED BY <3>1, <2>1, <1>0, GoodByeFacts
  <2> QED BY <2>1, <2>2, <2>3, MovedNone DEF Coming
<1>6. ASSUME OnZFIN PROVE \E k : Moved(k)
  BY <1>6, GoodByeMoves DEF OnZFIN, Header, IsText
<1>7. ASSUME Drain PROVE \E k : Moved(k)
  <2>1. CASE IsCloseBytes(Head(buf))
    BY <2>1, <1>7, MovedOne DEF Drain, IsCloseBytes, IsText
  <2>2. CASE ~IsCloseBytes(Head(buf)) /\ ~StartsLikeOne(Head(buf))
    BY <2>2, <1>7, MovedBuffer DEF Drain, Return
  <2>3. CASE ~IsCloseBytes(Head(buf)) /\ StartsLikeOne(Head(buf))
    <3>1. /\ buf' = <<>> /\ fromHost' = fromHost
          /\ prompt' = [Mark(buf, "shown") EXCEPT ![Head(buf).run] = "cut"]
      BY <2>3, <1>7 DEF Drain, Return
    <3>2. /\ Coming' = Behind(Coming, Len(buf)) /\ Len(buf) \in 0..Len(Coming)
          /\ buf \in Seq(Tokens) /\ \A i \in 1..Len(buf) : buf[i] = Coming[i]
      BY <3>1, <1>0, TakesBuffer, ComingFacts DEF ZmodemTypeOK
    <3>3. /\ Mark(buf, "shown") \in [RunIds -> Fates]
          /\ \A r \in RunIds :
               IF \E i \in 1..Len(buf) : buf[i].kind = "text" /\ buf[i].run = r
               THEN Mark(buf, "shown")[r] = "shown" ELSE Mark(buf, "shown")[r] = prompt[r]
      BY <3>2, <1>0, MarkType
    <3>4. /\ \E i \in 1..Len(buf) : buf[i].kind = "text" /\ buf[i].run = Head(buf).run
      <4>1. 1 \in 1..Len(buf) /\ buf[1] = Head(buf)
        BY <3>2, <1>7 DEF Drain
      <4> QED BY <4>1, <2>3 DEF StartsLikeOne
    <3>5. \A r \in RunIds :
            IF \E i \in 1..Len(buf) : buf[i].kind = "text" /\ buf[i].run = r
            THEN prompt'[r] # "none" ELSE prompt'[r] = prompt[r]
      BY <3>1, <3>3, <3>4
    <3>6. Marked(Len(buf))
      BY <3>2, <3>5 DEF Marked, IsText
    <3> QED BY <3>2, <3>6 DEF Moved
  <2> QED BY <2>1, <2>2, <2>3
<1>8. ASSUME DrainEnds PROVE Moved(0)
  BY <1>8, MovedNone DEF DrainEnds, Return, Coming
<1>9. ASSUME NEW n \in 1..Len(fromHost), ReadOutput(n) PROVE \E k : Moved(k)
  <2>1. buf = <<>> /\ Reads(n)
    BY <1>9 DEF AtRest, ReadOutput
  <2>2. PICK data : data = SubSeq(fromHost, 1, n)
    OBVIOUS
  <2>3. /\ data \in Seq(Tokens) /\ n \in 0..Len(Coming) /\ Len(data) = n
        /\ \A i \in 1..n : data[i] = Coming[i]
        /\ buf' = data => Coming' = Coming
        /\ buf' = <<>> => Coming' = Behind(Coming, n)
    BY <2>1, <2>2, <1>0, TakesNone
  <2>4. CASE contains_zmodem_init(data) /\ ~cooling
    BY <2>2, <2>3, <2>4, <1>9, MovedNone DEF ReadOutput
  <2>5. CASE ~(contains_zmodem_init(data) /\ ~cooling)
    <3>1. buf' = <<>> /\ prompt' = Mark(data, "shown")
      BY <2>1, <2>2, <2>5, <1>9 DEF ReadOutput
    <3>2. Marked(n)
      BY <3>1, <2>3, MarkedBy
    <3> QED BY <3>1, <3>2, <2>3 DEF Moved
  <2> QED BY <2>4, <2>5
<1>10. ASSUME TwoSecondsPass \/ SessionEnds PROVE Moved(0)
  BY <1>10, MovedNone DEF TwoSecondsPass, SessionEnds, Coming
<1>11. ASSUME \/ \E n \in 1..Len(fromHost) : Fetch(n) \/ ReadOutput(n)
              \/ SkipGarbage \/ OnZRQINIT \/ OnZFILE \/ OnZDATA \/ OnSubpacket \/ OnZEOF
              \/ Peek \/ PeekTimesOut \/ OnZFIN \/ Drain \/ DrainEnds
              \/ TwoSecondsPass \/ SessionEnds
       PROVE  sz' = sz /\ exit' = exit /\ restarted' = restarted /\ up' = up
  <2>1. sender' = sender /\ up' = up
    BY <1>11 DEF Fetch, ReadOutput, SkipGarbage, OnZRQINIT, OnZFILE, OnZDATA, OnSubpacket,
       OnZEOF, Peek, PeekTimesOut, OnZFIN, Drain, DrainEnds, TwoSecondsPass, SessionEnds
  <2> QED BY <2>1, <1>c
<1>12. ASSUME NothingToRead \/ SpoiltSubpacket \/ OnZABORT \/ DiskFails
       PROVE  Bail /\ fromHost' = fromHost
  BY <1>12 DEF NothingToRead, SpoiltSubpacket, OnZABORT, DiskFails
<1>13. ASSUME SendFails
       PROVE  /\ sz' = sz /\ exit' = exit /\ restarted' = restarted /\ up' = up
              /\ Moved(Len(buf))
  BY <1>13, SendFailsFacts, MovedBuffer
<1> QED BY <1>a, <1>b, <1>1, <1>2, <1>3, <1>4, <1>5, <1>6, <1>7, <1>8, <1>9, <1>10, <1>11, <1>12,
           <1>13 DEF SessionTask, Receive, SessionLoop

-----------------------------------------------------------------------------
(***************************************************************************)
(* What is coming is of the run that goes on, and its prompt is the last.  *)
(***************************************************************************)
Texts == {t \in Tokens : IsText(t)}

OfThisRun == Only(Coming, {t \in Tokens : t.run = sz.run /\ t.file <= sz.file})
PromptLast ==
  /\ ~Follows(Coming, Texts, Tokens)
  /\ Contains(Coming, Texts) => Gone
PromptDue ==
  /\ \A r \in RunIds : r > sz.run => prompt[r] = "none"
  /\ sz.run = 0 => Coming = <<>>
  /\ sz.run > 0 /\ ~Gone => prompt[sz.run] = "none"
  /\ sz.run > 0 /\ Gone =>
       IF prompt[sz.run] = "none" THEN Contains(Coming, Texts) ELSE Coming = <<>>
AtFirst ==
  /\ sz.stage = "init" => sz.file = 0 /\ Only(Coming, {t \in Tokens : t.kind = "ZRQINIT"})
  /\ sz.stage = "file" =>
       Only(Coming, {t \in Tokens : t.file = sz.file => t.kind = "ZFILE"})

TokensAgree == OfThisRun /\ PromptLast /\ PromptDue /\ AtFirst

LEMMA SessionTaskAgrees ==
  ASSUME ZmodemTypes, TokensAgree, sz' = sz, NEW k, Moved(k)
  PROVE  TokensAgree'
<1>1. Coming \in Seq(Tokens) /\ Len(Coming) \in Nat /\ \A i \in 1..Len(Coming) : Coming[i] \in Tokens
  BY ComingFacts DEF ZmodemTypes
<1>2. k \in 0..Len(Coming) /\ Coming' = Behind(Coming, k) /\ Marked(k)
  BY DEF Moved
<1>3. OfThisRun'
  <2>1. Only(Coming', {t \in Tokens : t.run = sz.run /\ t.file <= sz.file})
    BY <1>1, <1>2, BehindHolds DEF TokensAgree, OfThisRun
  <2> QED BY <2>1 DEF OfThisRun, Only
<1>4. PromptLast'
  <2>1. ~Follows(Coming', Texts, Tokens)
    BY <1>1, <1>2, BehindHolds DEF TokensAgree, PromptLast
  <2>2. Contains(Coming', Texts) => Gone
    BY <1>1, <1>2, BehindHolds DEF TokensAgree, PromptLast
  <2> QED BY <2>1, <2>2 DEF PromptLast, Follows, Contains, Gone
<1>5. AtFirst'
  <2>1. sz.stage = "init" => sz.file = 0 /\ Only(Coming', {t \in Tokens : t.kind = "ZRQINIT"})
    BY <1>1, <1>2, BehindHolds DEF TokensAgree, AtFirst
  <2>2. sz.stage = "file" => Only(Coming', {t \in Tokens : t.file = sz.file => t.kind = "ZFILE"})
    BY <1>1, <1>2, BehindHolds DEF TokensAgree, AtFirst
  <2> QED BY <2>1, <2>2 DEF AtFirst, Only
<1>6. PromptDue'
  <2>1. \A i \in 1..Len(Coming) : Coming[i].run = sz.run
    BY DEF TokensAgree, OfThisRun, Only
  <2>2. \A r \in RunIds : r # sz.run => prompt'[r] = prompt[r]
    <3>1. \A i \in 1..k : i \in 1..Len(Coming)
      BY <1>1, <1>2
    <3> QED BY <2>1, <3>1, <1>2 DEF Marked
  <2>3. \A r \in RunIds : r > sz.run => prompt'[r] = "none"
    <3>1. \A r \in RunIds : r > sz.run => r # sz.run
      <4>1. sz.run \in Nat /\ \A r \in RunIds : r \in Nat
        BY SenderTypes, CountsAssumption DEF ZmodemTypes, RunIds
      <4> QED BY <4>1
    <3> QED BY <2>2, <3>1 DEF TokensAgree, PromptDue
  <2>4. Coming = <<>> => k = 0 /\ Coming' = <<>>
    <3>1. ASSUME Coming = <<>> PROVE k = 0 /\ k = Len(Coming)
      BY <3>1, <1>2
    <3> QED BY <3>1, <1>1, <1>2, BehindFacts
  <2>5. ASSUME sz.run > 0 PROVE sz.run \in RunIds
    <3>1. sz.run \in 0..Runs /\ Runs \in Nat
      BY SenderTypes, CountsAssumption DEF ZmodemTypes
    <3> QED BY <3>1, <2>5 DEF RunIds
  <2>6. ASSUME sz.run > 0, ~Gone PROVE prompt'[sz.run] = "none"
    <3>1. ~Contains(Coming, Texts)
      BY <2>6 DEF TokensAgree, PromptLast
    <3>2. \A i \in 1..k : i \in 1..Len(Coming)
      BY <1>1, <1>2
    <3>3. ~\E i \in 1..k : IsText(Coming[i])
      BY <3>1, <3>2, <1>1 DEF Contains, Texts
    <3> QED BY <3>3, <2>5, <2>6, <1>2 DEF Marked, TokensAgree, PromptDue
  <2>7. ASSUME sz.run > 0, Gone
        PROVE  IF prompt'[sz.run] = "none" THEN Contains(Coming', Texts) ELSE Coming' = <<>>
    <3>1. CASE prompt[sz.run] # "none"
      <4>1. Coming = <<>>
        BY <2>7, <3>1 DEF TokensAgree, PromptDue
      <4>2. k = 0 /\ Coming' = <<>>
        BY <2>4, <4>1
      <4>3. 1..0 = {}
        OBVIOUS
      <4>4. prompt'[sz.run] = prompt[sz.run]
        BY <4>2, <4>3, <2>5, <2>7, <1>2 DEF Marked
      <4> QED BY <4>2, <4>4, <3>1
    <3>2. CASE prompt[sz.run] = "none"
      <4>1. PICK j \in 1..Len(Coming) : Coming[j] \in Texts
        BY <2>7, <3>2 DEF TokensAgree, PromptDue, Contains
      <4>2. j = Len(Coming)
        <5>1. ASSUME j # Len(Coming) PROVE FALSE
          <6>1. j < Len(Coming) /\ Len(Coming) \in 1..Len(Coming)
            BY <5>1, <1>1
          <6> QED BY <6>1, <4>1, <1>1 DEF TokensAgree, PromptLast, Follows
        <5> QED BY <5>1
      <4>3. CASE k = Len(Coming)
        <5>1. Coming' = <<>>
          BY <4>3, <1>1, <1>2, BehindFacts
        <5>2. \E i \in 1..k : IsText(Coming[i]) /\ Coming[i].run = sz.run
          BY <4>1, <4>3, <2>1 DEF Texts
        <5>3. prompt'[sz.run] # "none"
          BY <5>2, <2>5, <2>7, <1>2 DEF Marked
        <5> QED BY <5>1, <5>3
      <4>4. CASE k # Len(Coming)
        <5>1. k \in Nat /\ k < Len(Coming)
          BY <4>4, <1>1, <1>2
        <5>2. ~\E i \in 1..k : IsText(Coming[i])
          <6>1. ASSUME NEW i \in 1..k, IsText(Coming[i]) PROVE FALSE
            <7>1. i \in 1..Len(Coming) /\ i < Len(Coming) /\ Len(Coming) \in 1..Len(Coming)
              BY <5>1, <1>1
            <7>2. Coming[i] \in Texts /\ Coming[Len(Coming)] \in Tokens
              BY <6>1, <7>1, <1>1 DEF Texts
            <7> QED BY <7>1, <7>2 DEF TokensAgree, PromptLast, Follows
          <6> QED BY <6>1
        <5>3. prompt'[sz.run] = "none"
          BY <5>2, <3>2, <2>5, <2>7, <1>2 DEF Marked
        <5>4. Contains(Coming', Texts)
          <6>1. Len(Coming) - k \in 1..(Len(Coming) - k) /\ Len(Coming) - k + k = Len(Coming)
            BY <5>1, <1>1
          <6>a. /\ Len(Behind(Coming, k)) = Len(Coming) - k
                /\ \A i \in 1..(Len(Coming) - k) : Behind(Coming, k)[i] = Coming[i + k]
            BY <1>1, <1>2, BehindFacts
          <6>2. Len(Coming') = Len(Coming) - k /\ Coming'[Len(Coming) - k] = Coming[Len(Coming) - k + k]
            BY <6>a, <6>1, <1>2
          <6>3. Coming'[Len(Coming) - k] \in Texts
            BY <6>1, <6>2, <4>1, <4>2
          <6> QED BY <6>1, <6>2, <6>3 DEF Contains
        <5> QED BY <5>3, <5>4
      <4> QED BY <4>3, <4>4
    <3> QED BY <3>1, <3>2
  <2>8. sz.run = 0 => Coming' = <<>>
    BY <2>4 DEF TokensAgree, PromptDue
  <2> QED BY <2>3, <2>6, <2>7, <2>8 DEF PromptDue, Gone, Contains
<1> QED BY <1>3, <1>4, <1>5, <1>6 DEF TokensAgree

(* The sender adds no token, one, or two of a kind. *)
Adds(Y) ==
  \/ Coming' = Coming
  \/ \E t \in Tokens : t \in Y /\ Coming' = Append(Coming, t)
  \/ \E u, t \in Tokens : u \in Y /\ t \in Y /\ Coming' = Append(Append(Coming, u), t)

LEMMA AddedHold ==
  ASSUME ZmodemTypes, NEW X, NEW Y, Adds(Y), Y \subseteq X, Only(Coming, X)
  PROVE  Only(Coming', X)
<1>1. Coming \in Seq(Tokens) /\ \A u \in Tokens : Append(Coming, u) \in Seq(Tokens)
  BY ComingFacts, OneMore DEF ZmodemTypes
<1>2. \A t \in Tokens : t \in Y => Only(Append(Coming, t), X)
  BY <1>1, OneMoreHolds
<1>3. ASSUME NEW u \in Tokens, NEW t \in Tokens, u \in Y, t \in Y
      PROVE  Only(Append(Append(Coming, u), t), X)
  BY <1>1, <1>2, <1>3, OneMoreHolds
<1> QED BY <1>2, <1>3 DEF Adds

NewTokens(f, K) == {t \in Tokens : t.run = sz.run /\ t.file = f /\ t.kind \in K}

LEMMA FileAdds ==
  ASSUME ZmodemTypes, ~Gone, NEW f \in FileIds, buf' = buf, SendFile(sz, f)
  PROVE  /\ Adds(NewTokens(f, {"ZFILE"}))
         /\ sz' = [sz EXCEPT !.stage = "file", !.file = f, !.next = 1]
         /\ sz'.run = sz.run /\ sz'.file = f /\ sz'.stage = "file" /\ sz'.next = 1
         /\ sz'.open = sz.open
  BY FileSays, SenderTypes DEF Adds, NewTokens, SendFile, ZmodemTypes

LEMMA FinAdds ==
  ASSUME ZmodemTypes, ~Gone, buf' = buf, SendFin(sz)
  PROVE  /\ Adds(NewTokens(sz.file, {"ZFIN"}))
         /\ sz'.run = sz.run /\ sz'.file = sz.file /\ sz'.stage = "fin" /\ sz'.next = sz.next
         /\ sz'.open = sz.open
<1>1. Adds(NewTokens(sz.file, {"ZFIN"}))
  BY FinSays DEF Adds, NewTokens
<1>2. PICK b \in BOOLEAN : sz' = [sz EXCEPT !.stage = "fin", !.speaks = b]
  BY FinSays
<1> QED BY <1>1, <1>2, SenderTypes DEF ZmodemTypes

LEMMA ChunkAdds ==
  ASSUME ZmodemTypes, SendChunk
  PROVE  /\ Adds(NewTokens(sz.file, {"ZDATA", "sub"})) /\ sz.stage = "data" /\ up
         /\ sz'.run = sz.run /\ sz'.file = sz.file /\ sz'.stage = "data"
         /\ sz'.next = sz.next + 1
<1>1. Adds(NewTokens(sz.file, {"ZDATA", "sub"}))
  BY ChunkSays DEF Adds, NewTokens
<1>2. PICK t \in Tokens : sz' = [sz EXCEPT !.next = @ + 1, !.open = t.arg \notin EndOfFrame]
  BY ChunkSays
<1> QED BY <1>1, <1>2, SenderTypes DEF ZmodemTypes, SendChunk

LEMMA EofAdds ==
  ASSUME ZmodemTypes, SendEof
  PROVE  /\ Adds(NewTokens(sz.file, {"sub", "ZEOF"})) /\ sz.stage = "data" /\ up
         /\ sz'.run = sz.run /\ sz'.file = sz.file /\ sz'.stage = "eof" /\ sz'.next = sz.next
         /\ sz'.open = FALSE
  BY EofSays, SenderTypes DEF Adds, NewTokens, ZmodemTypes, SendEof

LEMMA RestartAdds ==
  ASSUME ZmodemTypes, ~Gone, buf' = buf, Restart
  PROVE  /\ Adds(NewTokens(sz.file, {"sub"}))
         /\ sz'.run = sz.run /\ sz'.file = sz.file /\ sz'.stage = "data" /\ sz'.next = 1
         /\ sz'.open = FALSE /\ restarted' = restarted \cup {<<sz.run, sz.file>>}
  BY RestartSays, SenderTypes DEF Adds, NewTokens, ZmodemTypes, Restart

HeaderOf(stage) == CASE stage = "init" -> "ZRQINIT" [] stage = "file" -> "ZFILE"
                     [] stage = "eof" -> "ZEOF" [] stage = "fin" -> "ZFIN"

LEMMA HeaderAdds ==
  ASSUME ZmodemTypes, Unanswered, buf' = buf, RepeatHeader
  PROVE  /\ Adds(NewTokens(sz.file, {HeaderOf(sz.stage)}))
         /\ sz.stage \in {"init", "file", "eof", "fin"}
         /\ HeaderOf(sz.stage) \in {"ZRQINIT", "ZFILE", "ZEOF", "ZFIN"}
         /\ sz.stage = "init" => HeaderOf(sz.stage) = "ZRQINIT"
         /\ sz.stage = "file" => HeaderOf(sz.stage) = "ZFILE"
         /\ sz.stage = "eof" => HeaderOf(sz.stage) = "ZEOF"
         /\ sz.stage = "fin" => HeaderOf(sz.stage) = "ZFIN"
<1>1. PICK t \in Tokens :
          /\ <<sz.stage, t.kind>> \in {<<"init", "ZRQINIT">>, <<"file", "ZFILE">>,
                                       <<"eof", "ZEOF">>, <<"fin", "ZFIN">>}
          /\ t.run = sz.run /\ t.file = sz.file
          /\ Coming' = Append(Coming, t)
  BY HeaderSays
<1>2. t.kind = HeaderOf(sz.stage) /\ sz.stage \in {"init", "file", "eof", "fin"}
  BY <1>1 DEF HeaderOf
<1>3. Adds(NewTokens(sz.file, {HeaderOf(sz.stage)}))
  BY <1>1, <1>2 DEF Adds, NewTokens
<1>4. /\ sz.stage = "init" => HeaderOf(sz.stage) = "ZRQINIT"
      /\ sz.stage = "file" => HeaderOf(sz.stage) = "ZFILE"
      /\ sz.stage = "eof" => HeaderOf(sz.stage) = "ZEOF"
      /\ sz.stage = "fin" => HeaderOf(sz.stage) = "ZFIN"
  BY DEF HeaderOf
<1> QED BY <1>2, <1>3, <1>4

LEMMA TokenNumbers ==
  \A t \in Tokens : t.file \in Nat /\ t.run \in Nat /\ t.n \in Nat /\ t.run \in RunIds
<1>1. {0} \cup FileIds \subseteq Nat
  BY FileTypes
<1>2. RunIds \subseteq Nat
  BY CountsAssumption DEF RunIds
<1>3. 0..Chunks \subseteq Nat
  BY CountsAssumption
<1>4. \A t \in Tokens : t.file \in {0} \cup FileIds /\ t.run \in RunIds /\ t.n \in 0..Chunks
  BY DEF Tokens
<1> QED BY <1>1, <1>2, <1>3, <1>4

LEMMA SenderNumbers ==
  ASSUME ZmodemTypes
  PROVE  sz.file \in Nat /\ sz.run \in Nat /\ sz.next \in Nat
<1>1. sz.run \in 0..Runs /\ sz.file \in {0} \cup FileIds /\ sz.next \in 1..(Chunks + 1)
  BY SenderTypes DEF ZmodemTypes
<1>2. {0} \cup FileIds \subseteq Nat
  BY FileTypes
<1>3. Runs \in Nat /\ Chunks \in Nat
  BY CountsAssumption
<1> QED BY <1>1, <1>2, <1>3

(* What the sender says while it goes on. *)
LEMMA TalkAgrees ==
  ASSUME ZmodemTypes, TokensAgree, ~Gone, sz'.stage # "gone", sz'.run = sz.run,
         sz'.file \in Nat, sz.file <= sz'.file, prompt' = prompt,
         NEW K, "text" \notin K, Adds(NewTokens(sz'.file, K)), AtFirst'
  PROVE  TokensAgree'
<1>1. sz.file \in Nat
  BY SenderNumbers
<1>2. PICK X : X = {t \in Tokens : t.run = sz.run /\ t.file <= sz'.file}
  OBVIOUS
<1>3. Only(Coming', X)
  <2>1. Only(Coming, X)
    <3>1. \A t \in Tokens : t.run = sz.run /\ t.file <= sz.file => t \in X
      <4>1. \A t \in Tokens : t.file \in Nat
        BY TokenNumbers
      <4> QED BY <4>1, <1>1, <1>2
    <3> QED BY <3>1 DEF TokensAgree, OfThisRun, Only
  <2>2. NewTokens(sz'.file, K) \subseteq X
    BY <1>2 DEF NewTokens
  <2> QED BY <2>1, <2>2, AddedHold
<1>4. OfThisRun'
  <2>1. \A i \in 1..Len(Coming') :
          Coming'[i] \in Tokens /\ Coming'[i].run = sz'.run /\ Coming'[i].file <= sz'.file
    BY <1>2, <1>3 DEF Only
  <2> QED BY <2>1 DEF OfThisRun, Only
<1>5. Only(Coming', Tokens \ Texts)
  <2>1. Only(Coming, Tokens \ Texts)
    <3>1. Coming \in Seq(Tokens) /\ ~Contains(Coming, Texts)
      BY ComingFacts DEF ZmodemTypes, TokensAgree, PromptLast
    <3> QED BY <3>1 DEF Contains, Only
  <2>2. NewTokens(sz'.file, K) \subseteq Tokens \ Texts
    BY DEF NewTokens, Texts, IsText
  <2> QED BY <2>1, <2>2, AddedHold
<1>6. PromptLast'
  <2>1. ~Contains(Coming', Texts) /\ ~Follows(Coming', Texts, Tokens)
    BY <1>5 DEF Only, Contains, Follows
  <2> QED BY <2>1 DEF PromptLast, Contains, Follows
<1>7. PromptDue'
  <2>1. sz.run # 0
    BY DEF ZmodemTypes
  <2> QED BY <2>1 DEF PromptDue, TokensAgree, Gone
<1> QED BY <1>4, <1>6, <1>7 DEF TokensAgree

LEMMA LeaveAgrees ==
  ASSUME ZmodemTypes, TokensAgree, ~Gone, UNCHANGED receiver, NEW how \in {"ok", "error"},
         NEW toks, Leave(sz, toks, how),
         toks = <<>> \/ \E k \in LastWords : toks = <<Token(sz, k, 0, "none")>>
  PROVE  TokensAgree'
<1>0. /\ Coming \in Seq(Tokens) /\ \A t \in Tokens : Append(Coming, t) \in Seq(Tokens)
      /\ buf' = buf /\ prompt' = prompt
  BY ComingFacts, OneMore DEF ZmodemTypes, receiver
<1>1. PICK p \in Tokens :
        /\ p.kind = "text" /\ p.run = sz.run /\ p.file = sz.file
        /\ \/ toks = <<>> /\ Coming' = Append(Coming, p)
           \/ \E t \in Tokens :
                /\ toks = <<Token(sz, t.kind, 0, "none")>>
                /\ t.kind \in LastWords /\ t.run = sz.run /\ t.file = sz.file
                /\ Coming' = Append(Append(Coming, t), p)
  BY <1>0, LeaveSays
<1>2. PICK s \in Seq(Tokens) :
        /\ Coming' = Append(s, p)
        /\ s = Coming \/ \E t \in Tokens : /\ t.kind \in LastWords /\ t.run = sz.run
                                           /\ t.file = sz.file /\ s = Append(Coming, t)
  BY <1>0, <1>1
<1>3. /\ sz'.run = sz.run /\ sz'.file = sz.file /\ sz'.stage = "gone"
  BY SenderTypes DEF Leave, ZmodemTypes
<1>4. sz.file \in Nat
  BY SenderNumbers
<1>5. OfThisRun'
  <2>1. PICK X : X = {t \in Tokens : t.run = sz.run /\ t.file <= sz.file}
    OBVIOUS
  <2>2. Only(Coming, X) /\ p \in X
    BY <2>1, <1>1, <1>4 DEF TokensAgree, OfThisRun
  <2>3. \A t \in Tokens : t.run = sz.run /\ t.file = sz.file => t \in X
    BY <2>1, <1>4
  <2>4. Only(s, X)
    <3>1. CASE s = Coming
      BY <3>1, <2>2
    <3>2. ASSUME NEW t \in Tokens, t.run = sz.run, t.file = sz.file, s = Append(Coming, t)
          PROVE  Only(s, X)
      <4>1. t \in X
        BY <3>2, <2>3
      <4> QED BY <4>1, <3>2, <2>2, <1>0, OneMoreHolds
    <3> QED BY <3>1, <3>2, <1>2
  <2>5. Only(Coming', X)
    BY <2>2, <2>4, <1>2, OneMoreHolds
  <2>6. OfThisRun' <=> Only(Coming', {t \in Tokens : t.run = sz'.run /\ t.file <= sz'.file})
    BY DEF OfThisRun, Only
  <2> QED BY <2>1, <2>5, <2>6, <1>3
<1>6. ~Contains(s, Texts)
  <2>1. ~Contains(Coming, Texts)
    BY DEF TokensAgree, PromptLast
  <2>2. \A t \in Tokens : t.kind \in LastWords => t \notin Texts
    BY DEF Texts, IsText, LastWords
  <2> QED BY <2>1, <2>2, <1>0, <1>2, OneMoreHolds
<1>7. PromptLast'
  <2>1. ~Follows(s, Texts, Tokens)
    BY <1>6 DEF Contains, Follows
  <2>2. ~Follows(Coming', Texts, Tokens)
    BY <2>1, <1>2, <1>6, OneMoreHolds
  <2> QED BY <2>2, <1>3 DEF PromptLast, Follows, Contains, Gone
<1>8. PromptDue'
  <2>1. p \in Texts
    BY <1>1 DEF Texts, IsText
  <2>2. Contains(Coming', Texts)
    BY <2>1, <1>2, OneMoreHolds
  <2>3. sz.run # 0 /\ sz.run > 0 /\ prompt[sz.run] = "none"
    <3>1. sz.run \in RunIds /\ sz.run \in Nat /\ sz.run # 0
      BY RunType DEF ZmodemTypes
    <3> QED BY <3>1 DEF TokensAgree, PromptDue
  <2> QED BY <2>2, <2>3, <1>0, <1>3 DEF PromptDue, TokensAgree, Gone, Contains
<1>9. AtFirst'
  BY <1>3 DEF AtFirst
<1> QED BY <1>5, <1>7, <1>8, <1>9 DEF TokensAgree

(* The first words about a file. *)
LEMMA FileAgrees ==
  ASSUME ZmodemTypes, TokensAgree, ~Gone, UNCHANGED receiver, NEW f \in FileIds,
         SendFile(sz, f), sz.file <= f,
         sz.file = f => sz.stage = "file"
  PROVE  TokensAgree'
<1>1. /\ Adds(NewTokens(f, {"ZFILE"})) /\ sz'.run = sz.run /\ sz'.file = f
      /\ sz'.stage = "file" /\ prompt' = prompt
  BY FileAdds DEF receiver
<1>2. f \in Nat /\ sz.file \in Nat
  BY FileTypes, SenderNumbers
<1>3. PICK X : X = {t \in Tokens : t.file = f => t.kind = "ZFILE"}
  OBVIOUS
<1>4. Only(Coming, X)
  <2>1. CASE sz.file = f
    BY <2>1, <1>3 DEF TokensAgree, AtFirst
  <2>2. CASE sz.file # f
    <3>1. \A t \in Tokens : t.file <= sz.file => t \in X
      <4>1. \A t \in Tokens : t.file <= sz.file => t.file # f
        BY <2>2, <1>2, TokenNumbers
      <4> QED BY <4>1, <1>3
    <3> QED BY <3>1 DEF TokensAgree, OfThisRun, Only
  <2> QED BY <2>1, <2>2
<1>5. Only(Coming', X)
  <2>1. NewTokens(f, {"ZFILE"}) \subseteq X
    BY <1>3 DEF NewTokens
  <2> QED BY <2>1, <1>1, <1>4, AddedHold
<1>6. AtFirst'
  BY <1>1, <1>3, <1>5 DEF AtFirst, Only
<1> QED BY <1>1, <1>2, <1>6, TalkAgrees

LEMMA FarSideAgrees ==
  ASSUME ZmodemTypes, TokensAgree, Sz \/ StartSz \/ RepeatEarly \/ RepeatQuiet \/ Abort \/ LineDrops
  PROVE  TokensAgree'
<1>0. /\ Coming \in Seq(Tokens) /\ sz.file \in Nat /\ sz.run \in Nat
      /\ \A t \in Tokens : t.file \in Nat
  BY ComingFacts, SenderNumbers, TokenNumbers DEF ZmodemTypes
<1>a. ASSUME sz' = sz, Coming' = Coming, prompt' = prompt PROVE TokensAgree'
  BY <1>a DEF TokensAgree, OfThisRun, PromptLast, PromptDue, AtFirst, Only, Contains, Follows, Gone
<1>1. ASSUME StartSz PROVE TokensAgree'
  <2>1. PICK t : t = Token(sz', "ZRQINIT", 0, "none")
    OBVIOUS
  <2>2. /\ t \in Tokens /\ t.kind = "ZRQINIT" /\ t.run = sz.run + 1 /\ t.file = 0
        /\ sz.run + 1 \in RunIds /\ sz.run + 1 > 0 /\ Coming' = Append(Coming, t)
    BY <2>1, <1>1, StartSays
  <2>3. /\ sz'.run = sz.run + 1 /\ sz'.stage = "init" /\ sz'.file = 0 /\ prompt' = prompt /\ Gone
    BY <1>1 DEF StartSz, receiver, Gone
  <2>4. Coming = <<>>
    <3>1. CASE sz.run = 0
      BY <3>1 DEF TokensAgree, PromptDue
    <3>2. CASE sz.run # 0
      <4>1. sz.run > 0 /\ prompt[sz.run] # "none"
        BY <3>2, <1>0, <1>1 DEF StartSz
      <4> QED BY <4>1, <2>3 DEF TokensAgree, PromptDue
    <3> QED BY <3>1, <3>2
  <2>5. ASSUME NEW X, t \in X PROVE Only(Coming', X)
    <3>1. Only(Coming, X)
      BY <2>4, <1>0, OnlyFirst
    <3> QED BY <3>1, <2>2, <2>5, <1>0, OneMoreHolds
  <2>6. OfThisRun'
    <3>1. Only(Coming', {u \in Tokens : u.run = sz.run + 1 /\ u.file <= 0})
      BY <2>2, <2>5
    <3> QED BY <3>1, <2>3 DEF OfThisRun, Only
  <2>7. PromptLast'
    <3>1. Only(Coming', Tokens \ Texts)
      BY <2>2, <2>5 DEF Texts, IsText
    <3> QED BY <3>1 DEF Only, PromptLast, Contains, Follows
  <2>8. PromptDue'
    <3>1. \A r \in RunIds : r >= sz.run + 1 => r > sz.run
      BY <1>0, CountsAssumption DEF RunIds
    <3>2. \A r \in RunIds : r >= sz.run + 1 => prompt'[r] = "none"
      BY <3>1, <2>3 DEF TokensAgree, PromptDue
    <3>3. \A r \in RunIds : r > sz.run + 1 => r >= sz.run + 1
      BY <1>0, CountsAssumption DEF RunIds
    <3>4. sz.run + 1 # 0 /\ sz.run + 1 >= sz.run + 1
      BY <1>0
    <3> QED BY <3>2, <3>3, <3>4, <2>2, <2>3 DEF PromptDue, Gone
  <2>9. AtFirst'
    <3>1. Only(Coming', {u \in Tokens : u.kind = "ZRQINIT"})
      BY <2>2, <2>5
    <3> QED BY <3>1, <2>3 DEF AtFirst, Only
  <2> QED BY <2>6, <2>7, <2>8, <2>9 DEF TokensAgree
<1>2. ASSUME SendChunk PROVE TokensAgree'
  <2>1. /\ Adds(NewTokens(sz.file, {"ZDATA", "sub"})) /\ sz.stage = "data"
        /\ sz'.run = sz.run /\ sz'.file = sz.file /\ sz'.stage = "data"
    BY <1>2, ChunkAdds
  <2>2. prompt' = prompt /\ ~Gone /\ AtFirst' /\ sz.file <= sz.file
    BY <2>1, <1>0, <1>2 DEF SendChunk, receiver, Gone, AtFirst
  <2> QED BY <2>1, <2>2, <1>0, TalkAgrees
<1>3. ASSUME SendEof PROVE TokensAgree'
  <2>1. /\ Adds(NewTokens(sz.file, {"sub", "ZEOF"})) /\ sz.stage = "data"
        /\ sz'.run = sz.run /\ sz'.file = sz.file /\ sz'.stage = "eof"
    BY <1>3, EofAdds
  <2>2. prompt' = prompt /\ ~Gone /\ AtFirst' /\ sz.file <= sz.file
    BY <2>1, <1>0, <1>3 DEF SendEof, receiver, Gone, AtFirst
  <2> QED BY <2>1, <2>2, <1>0, TalkAgrees
<1>4. ASSUME ReadAnswer PROVE TokensAgree'
  <2>0. /\ UNCHANGED receiver /\ Answered(Head(toHost)) /\ buf' = buf /\ prompt' = prompt
        /\ ZmodemTypeOK
    BY <1>4, AnswerRead DEF receiver, ZmodemTypes
  <2>1. ASSUME NEW how \in {"ok", "error"}, NEW toks,
               toks = <<>> \/ \E k \in LastWords : toks = <<Token(sz, k, 0, "none")>>,
               ~Gone, Leave(sz, toks, how)
        PROVE  TokensAgree'
    BY <2>0, <2>1, LeaveAgrees
  <2>2. ASSUME \/ sz.stage = "init" /\ SendFile(sz, 1)
               \/ sz.stage = "file" /\ SendFile(sz, sz.file)
               \/ sz.stage = "eof" /\ sz.file < FilesOf[sz.run] /\ SendFile(sz, sz.file + 1)
        PROVE  TokensAgree'
    <3>1. ~Gone
      BY <2>2 DEF Gone
    <3>2. FilesOf[sz.run] \in Nat /\ 1 \in FileIds /\ 1..FilesOf[sz.run] \subseteq FileIds
      BY <3>1, RunType, FileTypes
    <3>3. CASE sz.stage = "init" /\ SendFile(sz, 1)
      <4>1. sz.file = 0 /\ sz.file <= 1 /\ sz.file # 1
        BY <3>3, <1>0 DEF TokensAgree, AtFirst
      <4> QED BY <4>1, <3>1, <3>2, <3>3, <2>0, FileAgrees
    <3>4. CASE sz.stage = "file" /\ SendFile(sz, sz.file)
      <4>1. sz.file \in FileIds /\ sz.file <= sz.file
        BY <3>2, <3>4, <1>0 DEF ZmodemTypes
      <4> QED BY <4>1, <3>1, <3>4, <2>0, FileAgrees
    <3>5. CASE sz.stage = "eof" /\ sz.file < FilesOf[sz.run] /\ SendFile(sz, sz.file + 1)
      <4>1. sz.file + 1 \in 1..FilesOf[sz.run] /\ sz.file <= sz.file + 1 /\ sz.file # sz.file + 1
        BY <3>2, <3>5, <1>0
      <4>2. sz.file + 1 \in FileIds
        BY <4>1, <3>2
      <4> QED BY <4>1, <4>2, <3>1, <3>5, <2>0, FileAgrees
    <3> QED BY <2>2, <3>3, <3>4, <3>5
  <2>3. ASSUME sz.stage = "eof", SendFin(sz) PROVE TokensAgree'
    <3>1. ~Gone
      BY <2>3 DEF Gone
    <3>2. /\ Adds(NewTokens(sz.file, {"ZFIN"}))
          /\ sz'.run = sz.run /\ sz'.file = sz.file /\ sz'.stage = "fin"
      BY <3>1, <2>0, <2>3, FinAdds
    <3>3. AtFirst' /\ sz.file <= sz.file
      BY <3>2, <1>0 DEF AtFirst
    <3> QED BY <3>1, <3>2, <3>3, <2>0, <1>0, TalkAgrees
  <2>4. ASSUME sz.stage = "file", sz' = [sz EXCEPT !.stage = "data"], fromHost' = fromHost
        PROVE  TokensAgree'
    <3>1. /\ Adds(NewTokens(sz.file, {"ZDATA"})) /\ ~Gone
          /\ sz'.run = sz.run /\ sz'.file = sz.file /\ sz'.stage = "data"
      BY <2>0, <2>4, SenderTypes DEF Adds, Coming, Gone
    <3>2. AtFirst' /\ sz.file <= sz.file
      BY <3>1, <1>0 DEF AtFirst
    <3> QED BY <3>1, <3>2, <2>0, <1>0, TalkAgrees
  <2>5. ASSUME sz.stage \in {"data", "eof"}, Restart PROVE TokensAgree'
    <3>1. ~Gone
      BY <2>5 DEF Gone
    <3>2. /\ Adds(NewTokens(sz.file, {"sub"}))
          /\ sz'.run = sz.run /\ sz'.file = sz.file /\ sz'.stage = "data"
      BY <3>1, <2>0, <2>5, RestartAdds
    <3>3. AtFirst' /\ sz.file <= sz.file
      BY <3>2, <1>0 DEF AtFirst
    <3> QED BY <3>1, <3>2, <3>3, <2>0, <1>0, TalkAgrees
  <2>6. ASSUME sz' = sz, fromHost' = fromHost PROVE TokensAgree'
    BY <2>0, <2>6, <1>a DEF Coming
  <2>7. \A s \in {"file", "data", "eof", "fin"} : sz.stage = s => ~Gone
    BY DEF Gone
  <2>8. "OO" \in LastWords
    BY DEF LastWords
  <2> QED BY <2>0, <2>1, <2>2, <2>3, <2>4, <2>5, <2>6, <2>7, <2>8, AnswerCases
<1>5. ASSUME RepeatEarly \/ RepeatQuiet PROVE TokensAgree'
  <2>1. /\ Unanswered /\ RepeatHeader /\ buf' = buf /\ prompt' = prompt /\ sz' = sz
    BY <1>5 DEF RepeatEarly, RepeatQuiet, receiver, sender
  <2>2. PICK kind : kind = HeaderOf(sz.stage)
    OBVIOUS
  <2>3. /\ Adds(NewTokens(sz.file, {kind})) /\ kind # "text" /\ ~Gone
        /\ sz.stage = "init" => kind = "ZRQINIT"
        /\ sz.stage = "file" => kind = "ZFILE"
    BY <2>1, <2>2, HeaderAdds DEF Gone
  <2>4. AtFirst'
    <3>1. CASE sz.stage = "init"
      <4>1. NewTokens(sz.file, {kind}) \subseteq {t \in Tokens : t.kind = "ZRQINIT"}
        BY <3>1, <2>3 DEF NewTokens
      <4>2. Only(Coming', {t \in Tokens : t.kind = "ZRQINIT"})
        BY <4>1, <3>1, <2>3, AddedHold DEF TokensAgree, AtFirst
      <4> QED BY <4>2, <3>1, <2>1 DEF AtFirst, Only, TokensAgree
    <3>2. CASE sz.stage = "file"
      <4>1. NewTokens(sz.file, {kind}) \subseteq {t \in Tokens : t.file = sz.file => t.kind = "ZFILE"}
        BY <3>2, <2>3 DEF NewTokens
      <4>2. Only(Coming', {t \in Tokens : t.file = sz.file => t.kind = "ZFILE"})
        BY <4>1, <3>2, <2>3, AddedHold DEF TokensAgree, AtFirst
      <4> QED BY <4>2, <3>2, <2>1 DEF AtFirst, Only
    <3>3. CASE sz.stage \notin {"init", "file"}
      BY <3>3, <2>1 DEF AtFirst
    <3> QED BY <3>1, <3>2, <3>3
  <2>5. sz.file <= sz.file
    BY <1>0
  <2>6. sz'.stage # "gone" /\ sz'.run = sz.run /\ sz'.file = sz.file
    BY <2>1, <2>3 DEF Gone
  <2> QED BY <2>1, <2>3, <2>4, <2>5, <2>6, <1>0, TalkAgrees
<1>6. ASSUME Abort PROVE TokensAgree'
  <2>1. PICK kind \in {"CANs", "ZABORT"} : Leave(sz, <<Token(sz, kind, 0, "none")>>, "error")
    BY <1>6 DEF Abort
  <2>2. ~Gone /\ kind \in LastWords /\ UNCHANGED receiver
    BY <1>6 DEF Abort, Gone, LastWords
  <2> QED BY <2>1, <2>2, LeaveAgrees
<1>7. ASSUME LineDrops PROVE TokensAgree'
  BY <1>a, <1>7 DEF LineDrops, receiver, Coming
<1> QED BY <1>1, <1>2, <1>3, <1>4, <1>5, <1>6, <1>7 DEF Sz

LEMMA TokensStep ==
  ASSUME ZmodemTypes, AtRest, TokensAgree, [ZmodemNext]_zmodemVars
  PROVE  TokensAgree'
<1>1. ASSUME SessionTask PROVE TokensAgree'
  BY <1>1, SessionTaskMoves, SessionTaskAgrees
<1>2. CASE UNCHANGED zmodemVars
  <2>1. sz' = sz /\ Coming' = Coming /\ prompt' = prompt
    BY <1>2 DEF zmodemVars, receiver, sender, Coming
  <2> QED BY <2>1 DEF TokensAgree, OfThisRun, PromptLast, PromptDue, AtFirst, Only, Contains,
                      Follows, Gone
<1> QED BY <1>1, <1>2, FarSideAgrees DEF ZmodemNext

-----------------------------------------------------------------------------
(***************************************************************************)
(* Where the sender is in a file before and behind a token: what is coming *)
(* leads from the row that is open to what sz says next.                   *)
(***************************************************************************)
Places == [file : Nat, next : Nat, in : {"header", "data"}]

Carries(a, t, b, R) ==
  /\ t.kind = "ZRQINIT" => a.file = 0 /\ b.file = 0 /\ b.in = "header"
  /\ t.kind = "ZFILE" => b.file = t.file /\ b.next = 1 /\ b.in = "header"
  /\ t.kind = "ZDATA" =>
       /\ a.file = t.file /\ b.file = t.file /\ a.in = "header" /\ b.in = "data"
       /\ <<t.run, t.file>> \in R \/ b.next = a.next
  /\ t.kind = "sub" =>
       /\ a.file = t.file /\ b.file = t.file /\ a.in = "data" /\ b.in = IF t.arg \in EndOfFrame THEN "header" ELSE "data"
       /\ \/ <<t.run, t.file>> \in R
          \/ t.n = 0 /\ b.next = a.next
          \/ t.n # 0 /\ t.n = a.next /\ b.next = a.next + 1
  /\ t.kind = "ZEOF" =>
       /\ a.file = t.file /\ b.file = t.file /\ a.in = "header" /\ b.in = "header"
       /\ <<t.run, t.file>> \in R \/ (a.next = Chunks + 1 /\ b.next = a.next)
  /\ t.kind \in {"ZFIN", "ZABORT", "OO", "CANs", "text"} =>
       b.file = a.file /\ b.next = a.next /\ b.in = "header"

Chain(s, a, b, R) ==
  \E q \in [1..(Len(s) + 1) -> Places] :
    /\ q[1] = a /\ q[Len(s) + 1] = b
    /\ \A i \in 1..Len(s) : Carries(q[i], s[i], q[i + 1], R)

LEMMA ChainNone ==
  ASSUME NEW a \in Places, NEW R
  PROVE  Chain(<<>>, a, a, R)
<1>1. PICK q : q = [i \in 1..(Len(<<>>) + 1) |-> a]
  OBVIOUS
<1>2. Len(<<>>) = 0 /\ 1..0 = {}
  OBVIOUS
<1>3. q \in [1..(Len(<<>>) + 1) -> Places] /\ q[1] = a /\ q[Len(<<>>) + 1] = a
  BY <1>1, <1>2
<1> QED BY <1>2, <1>3 DEF Chain

LEMMA ChainMore ==
  ASSUME NEW s \in Seq(Tokens), NEW t \in Tokens, NEW a \in Places, NEW b \in Places,
         NEW c \in Places, NEW R, Chain(s, a, b, R), Carries(b, t, c, R)
  PROVE  Chain(Append(s, t), a, c, R)
<1>1. PICK n \in Nat : n = Len(s)
  OBVIOUS
<1>2. PICK x : x = Append(s, t)
  OBVIOUS
<1>3. /\ Len(x) = n + 1 /\ 1..(n + 1) = 1..n \cup {n + 1}
      /\ x[n + 1] = t /\ \A i \in 1..n : x[i] = s[i]
  BY <1>1, <1>2, OneMore
<1>4. PICK q \in [1..(n + 1) -> Places] :
        q[1] = a /\ q[n + 1] = b /\ \A i \in 1..n : Carries(q[i], s[i], q[i + 1], R)
  BY <1>1 DEF Chain
<1>5. PICK p : p = [i \in 1..(n + 1 + 1) |-> IF i = n + 1 + 1 THEN c ELSE q[i]]
  OBVIOUS
<1>6. /\ p \in [1..(n + 1 + 1) -> Places] /\ p[n + 1 + 1] = c
      /\ \A i \in 1..(n + 1) : p[i] = q[i]
  <2>1. \A i \in 1..(n + 1 + 1) : i = n + 1 + 1 \/ i \in 1..(n + 1)
    BY <1>1
  <2>2. \A i \in 1..(n + 1) : i \in 1..(n + 1 + 1) /\ i # n + 1 + 1
    BY <1>1
  <2>3. n + 1 + 1 \in 1..(n + 1 + 1)
    BY <1>1
  <2> QED BY <2>1, <2>2, <2>3, <1>4, <1>5
<1>7. p[1] = a
  <2>1. 1 \in 1..(n + 1)  BY <1>1
  <2> QED BY <2>1, <1>4, <1>6
<1>8. ASSUME NEW i \in 1..(n + 1) PROVE Carries(p[i], x[i], p[i + 1], R)
  <2>1. CASE i \in 1..n
    <3>1. i + 1 \in 1..(n + 1)
      BY <2>1, <1>1
    <3>2. p[i] = q[i] /\ p[i + 1] = q[i + 1] /\ x[i] = s[i]
      BY <2>1, <3>1, <1>3, <1>6
    <3> QED BY <2>1, <3>2, <1>4
  <2>2. CASE i = n + 1
    <3>1. p[i] = b /\ p[i + 1] = c /\ x[i] = t
      BY <2>2, <1>3, <1>4, <1>6
    <3> QED BY <3>1
  <2> QED BY <2>1, <2>2, <1>3
<1>9. Chain(x, a, c, R)
  <2>1. /\ p \in [1..(Len(x) + 1) -> Places] /\ p[1] = a /\ p[Len(x) + 1] = c
        /\ \A i \in 1..Len(x) : Carries(p[i], x[i], p[i + 1], R)
    BY <1>3, <1>6, <1>7, <1>8
  <2> QED BY <2>1 DEF Chain
<1> QED BY <1>2, <1>9

LEMMA ChainLess ==
  ASSUME NEW s \in Seq(Tokens), NEW k \in 0..Len(s), NEW a \in Places, NEW b \in Places,
         NEW R, Chain(s, a, b, R)
  PROVE  \E c \in Places : /\ Chain(Behind(s, k), c, b, R)
                           /\ k = 0 => c = a
                           /\ k = 1 => Carries(a, s[1], c, R)
<1>1. PICK n \in Nat : n = Len(s) /\ k \in 0..n
  OBVIOUS
<1>2. PICK x : x = Behind(s, k)
  OBVIOUS
<1>3. Len(x) = n - k /\ \A i \in 1..(n - k) : i + k \in 1..n /\ x[i] = s[i + k]
  BY <1>1, <1>2, BehindFacts
<1>4. PICK q \in [1..(n + 1) -> Places] :
        q[1] = a /\ q[n + 1] = b /\ \A i \in 1..n : Carries(q[i], s[i], q[i + 1], R)
  BY <1>1 DEF Chain
<1>5. PICK p : p = [i \in 1..(n - k + 1) |-> q[i + k]]
  OBVIOUS
<1>6. \A i \in 1..(n - k + 1) : i + k \in 1..(n + 1)
  BY <1>1
<1>7. p \in [1..(n - k + 1) -> Places] /\ \A i \in 1..(n - k + 1) : p[i] = q[i + k]
  BY <1>4, <1>5, <1>6
<1>8. 1 \in 1..(n - k + 1) /\ n - k + 1 \in 1..(n - k + 1) /\ n - k + 1 + k = n + 1
  BY <1>1
<1>9. p[1] = q[1 + k] /\ p[n - k + 1] = b /\ p[1] \in Places
  BY <1>4, <1>7, <1>8
<1>10. ASSUME NEW i \in 1..(n - k) PROVE Carries(p[i], x[i], p[i + 1], R)
  <2>1. i \in 1..(n - k + 1) /\ i + 1 \in 1..(n - k + 1) /\ i + 1 + k = i + k + 1
    BY <1>1
  <2>2. p[i] = q[i + k] /\ p[i + 1] = q[i + k + 1] /\ x[i] = s[i + k] /\ i + k \in 1..n
    BY <2>1, <1>3, <1>7
  <2> QED BY <2>2, <1>4
<1>11. Chain(x, p[1], b, R)
  BY <1>3, <1>7, <1>9, <1>10 DEF Chain
<1>12. k = 0 => p[1] = a
  BY <1>4, <1>9
<1>13. k = 1 => Carries(a, s[1], p[1], R)
  <2> SUFFICES ASSUME k = 1 PROVE Carries(a, s[1], p[1], R)
    OBVIOUS
  <2>1. 1 \in 1..n
    BY <1>1
  <2>2. Carries(q[1], s[1], q[1 + 1], R)
    BY <2>1, <1>4
  <2> QED BY <2>2, <1>4, <1>9
<1> QED BY <1>2, <1>9, <1>11, <1>12, <1>13

LEMMA ChainGrows ==
  ASSUME NEW s, NEW a, NEW b, NEW R, NEW T, R \subseteq T, Chain(s, a, b, R)
  PROVE  Chain(s, a, b, T)
<1>1. \A c, t, d : Carries(c, t, d, R) => Carries(c, t, d, T)
  BY DEF Carries
<1> QED BY <1>1 DEF Chain

-----------------------------------------------------------------------------
FirstPieces(r, f, m) == [n \in 1..m |-> <<r, f, n>>]

\* The next token of the channel belongs where the open row ends ...
FitsRow(a) == cur # 0 /\ pc \in {"header", "data"} =>
  /\ rows[cur].run = sz.run /\ rows[cur].file = a.file
  /\ rows[cur].state = "running" /\ a.in = pc
  /\ \/ <<sz.run, a.file>> \in restarted
     \/ rows[cur].data = FirstPieces(sz.run, a.file, a.next - 1)
\* ... and sz goes on where the last one ends.
FrameOf(open) == IF open THEN "data" ELSE "header"
FitsSz(b) ==
  /\ b.file = sz.file /\ b.in = FrameOf(sz.open)
  /\ b.next = sz.next \/ <<sz.run, sz.file>> \in restarted

Ordered == \E a, b \in Places : FitsRow(a) /\ FitsSz(b) /\ Chain(Coming, a, b, restarted)

SenderSteps ==
  /\ sz.open => sz.stage = "data"
  /\ sz.stage = "file" => sz.next = 1
  /\ sz.stage = "eof" => sz.next = Chunks + 1

DataOrdered == Ordered /\ SenderSteps /\ CountedIsWhole

(* A step of the session task that leaves no row open. *)
LEMMA NoRowOpen ==
  ASSUME ZmodemTypes, Ordered, sz' = sz, restarted' = restarted, NEW k, Moved(k),
         cur' = 0 \/ pc' \notin {"header", "data"}
  PROVE  Ordered'
<1>1. PICK a, b \in Places : FitsRow(a) /\ FitsSz(b) /\ Chain(Coming, a, b, restarted)
  BY DEF Ordered
<1>2. Coming \in Seq(Tokens) /\ k \in 0..Len(Coming) /\ Coming' = Behind(Coming, k)
  BY ComingFacts DEF Moved, ZmodemTypes
<1>3. PICK c \in Places : Chain(Behind(Coming, k), c, b, restarted)
  BY <1>1, <1>2, ChainLess
<1>4. Chain(Coming, c, b, restarted)'
  BY <1>2, <1>3 DEF Chain
<1>5. FitsSz(b)' /\ FitsRow(c)'
  BY <1>1 DEF FitsSz, FrameOf, FitsRow
<1> QED BY <1>4, <1>5 DEF Ordered

(* A step that consumes no token, and leaves the row as it is. *)
LEMMA SameRowOpen ==
  ASSUME Ordered, sz' = sz, restarted' = restarted, Coming' = Coming,
         cur' = cur, rows' = rows,
         pc' \in {"header", "data"} => pc' = pc
  PROVE  Ordered'
<1>1. PICK a, b \in Places : FitsRow(a) /\ FitsSz(b) /\ Chain(Coming, a, b, restarted)
  BY DEF Ordered
<1>2. Chain(Coming, a, b, restarted)'
  BY <1>1 DEF Chain
<1>3. FitsSz(b)' /\ FitsRow(a)'
  BY <1>1 DEF FitsSz, FrameOf, FitsRow
<1> QED BY <1>2, <1>3 DEF Ordered

(* The first token is consumed: where it leads, the row has to follow. *)
LEMMA RowFollows ==
  ASSUME ZmodemTypes, Ordered, sz' = sz, restarted' = restarted,
         buf # <<>>, buf' = Tail(buf), fromHost' = fromHost,
         \A a, c \in Places :
           FitsRow(a) /\ Carries(a, Head(buf), c, restarted) => FitsRow(c)'
  PROVE  Ordered'
<1>1. PICK a, b \in Places : FitsRow(a) /\ FitsSz(b) /\ Chain(Coming, a, b, restarted)
  BY DEF Ordered
<1>2. /\ Coming \in Seq(Tokens) /\ 1 \in 0..Len(Coming) /\ Coming' = Behind(Coming, 1)
      /\ Coming[1] = Head(buf)
  BY ComingFacts, HeadHolds, TakesOne DEF ZmodemTypes
<1>3. PICK c \in Places :
        Chain(Behind(Coming, 1), c, b, restarted) /\ Carries(a, Coming[1], c, restarted)
  BY <1>1, <1>2, ChainLess
<1>4. Chain(Coming, c, b, restarted)'
  BY <1>2, <1>3 DEF Chain
<1>5. FitsSz(b)' /\ FitsRow(c)'
  BY <1>1, <1>2, <1>3 DEF FitsSz, FrameOf
<1> QED BY <1>4, <1>5 DEF Ordered

LEMMA NextPiece ==
  ASSUME NEW r, NEW f, NEW m \in Nat, m >= 1
  PROVE  Append(FirstPieces(r, f, m - 1), <<r, f, m>>) = FirstPieces(r, f, m)
<1>0. PICK d : d = [n \in 1..(m - 1) |-> <<r, f, n>>]
  OBVIOUS
<1>1. d \in Seq({<<r, f, n>> : n \in 1..m}) /\ Len(d) = m - 1
  <2>1. m - 1 \in Nat /\ \A n \in 1..(m - 1) : n \in 1..m
    OBVIOUS
  <2> QED BY <2>1, <1>0
<1>2. PICK e : e = [n \in 1..m |-> <<r, f, n>>]
  OBVIOUS
<1>3. e \in Seq({<<r, f, n>> : n \in 1..m}) /\ Len(e) = m
  BY <1>2
<1>4. PICK x : x = Append(d, <<r, f, m>>)
  OBVIOUS
<1>5. /\ x \in Seq({<<r, f, n>> : n \in 1..m}) /\ Len(x) = m /\ x[m] = <<r, f, m>>
      /\ \A i \in 1..(m - 1) : x[i] = d[i]
  <2>1. <<r, f, m>> \in {<<r, f, n>> : n \in 1..m}
    OBVIOUS
  <2> QED BY <2>1, <1>1, <1>4, OneMore
<1>6. \A i \in 1..m : x[i] = e[i]
  <2>1. \A i \in 1..m : i = m \/ i \in 1..(m - 1)
    OBVIOUS
  <2> QED BY <2>1, <1>0, <1>2, <1>5
<1>7. x = e
  BY <1>3, <1>5, <1>6, SameSeq
<1> QED BY <1>0, <1>2, <1>4, <1>7 DEF FirstPieces

(* The receive loop is left: no row stays open. *)
LEMMA GoodByeClosesRow ==
  ASSUME NEW rest, GoodBye(rest)
  PROVE  cur' = 0 \/ pc' \notin {"header", "data"}
  BY DEF GoodBye, Return

LEMMA SessionTaskOrdered ==
  ASSUME ZmodemTypes, AtRest, TokensAgree, DataOrdered, SessionTask
  PROVE  Ordered'
<1>0. /\ ZmodemTypeOK /\ RowsFit /\ Ordered /\ rows \in Seq(Row) /\ cur \in 0..Len(rows)
      /\ Len(rows) \in Nat
  BY TypeParts DEF ZmodemTypes, DataOrdered, RowsFit
<1>k. /\ sz' = sz /\ exit' = exit /\ restarted' = restarted /\ up' = up
      /\ \E k \in 0..Len(Coming) : Moved(k)
  BY SessionTaskMoves
<1>a. ASSUME cur' = 0 \/ pc' \notin {"header", "data"} PROVE Ordered'
  BY <1>0, <1>k, <1>a, NoRowOpen
<1>b. ASSUME Bail PROVE Ordered'
  BY <1>a, <1>b DEF Bail, Return
<1>c. ASSUME buf # <<>> PROVE Head(buf) \in Tokens /\ Head(buf).run = sz.run
                               /\ Head(buf) \in Named
  <2>1. /\ Head(buf) \in Tokens /\ Head(buf) \in Named /\ Coming[1] = Head(buf)
        /\ 1 \in 1..Len(Coming)
    BY <1>c, HeadHolds, ComingFacts DEF ZmodemTypes
  <2> QED BY <2>1 DEF TokensAgree, OfThisRun, Only
<1>r. cur # 0 => cur \in 1..Len(rows) /\ rows[cur] \in Row /\ rows[cur].file # 0
  <2>1. ASSUME cur # 0 PROVE cur \in 1..Len(rows) /\ rows[cur] \in Row
    BY <2>1, <1>0
  <2>2. \A e \in Row : e.file # 0
    BY FileTypes DEF Row
  <2> QED BY <2>1, <2>2
<1>1. ASSUME NEW n \in 1..Len(fromHost), Fetch(n) PROVE Ordered'
  <2>1. Coming' = Coming
    BY <1>0, <1>1, TakesNone DEF Fetch
  <2> QED BY <2>1, <1>0, <1>1, <1>k, SameRowOpen DEF Fetch
<1>2. ASSUME SkipGarbage PROVE Ordered'
  <2>1. CASE pc = "peek"
    BY <2>1, <1>2, <1>a DEF SkipGarbage
  <2>2. CASE pc = "header"
    <3>1. ASSUME NEW a \in Places, NEW c \in Places, FitsRow(a),
                 Carries(a, Head(buf), c, restarted)
          PROVE  FitsRow(c)'
      <4>1. CASE cur = 0
        BY <4>1, <1>2 DEF SkipGarbage, FitsRow
      <4>2. CASE cur # 0
        <5>1. Head(buf).kind \in {"ZFIN", "ZABORT", "OO", "CANs", "text"}
          <6>1. Head(buf) \in Tokens /\ ~IsFrame(Head(buf)) /\ a.in = "header"
            BY <4>2, <2>2, <3>1, <1>2, <1>c DEF SkipGarbage, FitsRow
          <6>2. Head(buf).kind # "sub"
            BY <6>1, <3>1 DEF Carries
          <6>3. Head(buf).kind \in Frames \cup {"sub", "OO", "CANs", "text"}
            BY <6>1 DEF Tokens
          <6> QED BY <6>1, <6>2, <6>3 DEF IsFrame
        <5>2. c.file = a.file /\ c.next = a.next /\ c.in = "header"
          BY <5>1, <3>1 DEF Carries
        <5>3. c.in = "header"
          BY <5>2 DEF Places
        <5> QED BY <5>2, <5>3, <4>2, <2>2, <3>1, <1>2, <1>k DEF SkipGarbage, FitsRow
      <4> QED BY <4>1, <4>2
    <3> QED BY <3>1, <1>0, <1>2, <1>k, RowFollows DEF SkipGarbage
  <2> QED BY <2>1, <2>2, <1>2 DEF SkipGarbage
<1>3. ASSUME OnZRQINIT PROVE Ordered'
  <2>1. ASSUME NEW a \in Places, NEW c \in Places, FitsRow(a),
               Carries(a, Head(buf), c, restarted)
        PROVE  FitsRow(c)'
    <3>1. cur = 0
      BY <2>1, <1>3, <1>r DEF OnZRQINIT, Header, FitsRow, Carries
    <3> QED BY <3>1, <1>3 DEF OnZRQINIT, FitsRow
  <2> QED BY <2>1, <1>0, <1>3, <1>k, RowFollows DEF OnZRQINIT, Header
<1>4. ASSUME OnZFILE PROVE Ordered'
  <2>0. Head(buf).run \in RunIds /\ Head(buf).file \in FileIds /\ Head(buf).run = sz.run
    BY <1>4, <1>c DEF OnZFILE, Header, Tokens, Named
  <2>2. /\ rows' \in Seq(Row) /\ Len(rows') = Len(rows) + 1
        /\ rows'[Len(rows) + 1] = [run |-> Head(buf).run, file |-> Head(buf).file,
                                   data |-> <<>>, state |-> "running"]
    BY <2>0, <1>0, <1>4, RowAdded DEF OnZFILE, OpenRow
  <2>1. ASSUME NEW a \in Places, NEW c \in Places, FitsRow(a),
               Carries(a, Head(buf), c, restarted)
        PROVE  FitsRow(c)'
    <3>1. c.file = Head(buf).file /\ c.next = 1 /\ c.in = "header"
      BY <2>1, <1>4 DEF OnZFILE, Header, Carries, Places
    <3>2. cur' = Len(rows) + 1 /\ pc' = "header"
      BY <2>2, <1>4 DEF OnZFILE, Header
    <3>3. /\ rows'[cur'].run = sz.run /\ rows'[cur'].file = c.file
          /\ rows'[cur'].data = <<>> /\ rows'[cur'].state = "running"
      BY <2>0, <2>2, <3>1, <3>2
    <3>4. FirstPieces(sz.run, c.file, c.next - 1) = <<>>
      BY <3>1 DEF FirstPieces
    <3> QED BY <3>1, <3>2, <3>3, <3>4, <1>k DEF FitsRow
  <2> QED BY <2>1, <1>0, <1>4, <1>k, RowFollows DEF OnZFILE, Header
<1>5. ASSUME OnZDATA PROVE Ordered'
  <2>1. ASSUME NEW a \in Places, NEW c \in Places, FitsRow(a),
               Carries(a, Head(buf), c, restarted)
        PROVE  FitsRow(c)'
    <3>1. CASE cur = 0
      BY <3>1, <1>5 DEF OnZDATA, FitsRow
    <3>2. CASE cur # 0
      <4>1. /\ a.file = Head(buf).file /\ c.file = a.file /\ c.in = "data"
            /\ <<sz.run, a.file>> \in restarted \/ c.next = a.next
        BY <2>1, <1>5, <1>c DEF OnZDATA, Header, Carries, Places
      <4>2. pc = "header" /\ pc' = "data" /\ cur' = cur /\ rows' = rows
        BY <1>5 DEF OnZDATA, Header
      <4> QED BY <3>2, <4>1, <4>2, <2>1, <1>k DEF FitsRow
    <3> QED BY <3>1, <3>2
  <2> QED BY <2>1, <1>0, <1>5, <1>k, RowFollows DEF OnZDATA, Header
<1>6. ASSUME OnSubpacket PROVE Ordered'
  <2>0. /\ Head(buf) \in Tokens /\ Head(buf) \in Named /\ Head(buf).kind = "sub"
        /\ Head(buf).run = sz.run /\ rows' = WriteChunk(Head(buf), rows)
        /\ pc = "data" /\ cur' = cur
        /\ pc' = IF Head(buf).arg \in EndOfFrame THEN "header" ELSE "data"
    BY <1>6, <1>c DEF OnSubpacket
  <2>1. ASSUME NEW a \in Places, NEW c \in Places, FitsRow(a),
               Carries(a, Head(buf), c, restarted)
        PROVE  FitsRow(c)'
    <3>1. CASE cur = 0
      BY <2>0, <3>1 DEF FitsRow
    <3>2. CASE cur # 0
      <4>1. /\ a.file = Head(buf).file /\ c.file = a.file
            /\ c.in = IF Head(buf).arg \in EndOfFrame THEN "header" ELSE "data"
            /\ \/ <<sz.run, a.file>> \in restarted
               \/ Head(buf).n = 0 /\ c.next = a.next
               \/ Head(buf).n # 0 /\ Head(buf).n = a.next /\ c.next = a.next + 1
        BY <2>0, <2>1 DEF Carries
      <4>2. c.in = pc'
        BY <2>0, <4>1
      <4>3. /\ rows'[cur].run = rows[cur].run /\ rows'[cur].file = rows[cur].file
            /\ rows'[cur].state = rows[cur].state
            /\ rows'[cur].data = IF Head(buf).n = 0 THEN rows[cur].data
                  ELSE Append(rows[cur].data, <<Head(buf).run, Head(buf).file, Head(buf).n>>)
        BY <2>0, <3>2, <1>0, <1>r, WriteFacts
      <4>4. /\ rows[cur].run = sz.run /\ rows[cur].file = a.file
            /\ rows[cur].state = "running"
            /\ \/ <<sz.run, a.file>> \in restarted
               \/ rows[cur].data = FirstPieces(sz.run, a.file, a.next - 1)
        BY <2>0, <2>1, <3>2 DEF FitsRow
      <4>5. ASSUME <<sz.run, a.file>> \notin restarted
            PROVE  rows'[cur].data = FirstPieces(sz.run, c.file, c.next - 1)
        <5>1. CASE Head(buf).n = 0
          BY <5>1, <4>1, <4>3, <4>4, <4>5
        <5>2. CASE Head(buf).n # 0
          <6>1. Head(buf).n = a.next /\ c.next = a.next + 1 /\ a.next \in Nat
            BY <5>2, <4>1, <4>5 DEF Places
          <6>2. a.next >= 1 /\ c.next - 1 = a.next
            BY <5>2, <6>1
          <6>3. rows'[cur].data = Append(rows[cur].data, <<sz.run, a.file, a.next>>)
            BY <5>2, <6>1, <4>1, <4>3, <2>0
          <6>4. Append(rows[cur].data, <<sz.run, a.file, a.next>>)
                  = FirstPieces(sz.run, a.file, a.next)
            BY <6>1, <6>2, <4>4, <4>5, NextPiece
          <6> QED BY <6>2, <6>3, <6>4, <4>1
        <5> QED BY <5>1, <5>2
      <4> QED BY <2>0, <4>1, <4>2, <4>3, <4>4, <4>5, <1>k DEF FitsRow
    <3> QED BY <3>1, <3>2
  <2> QED BY <2>1, <1>0, <1>6, <1>k, RowFollows DEF OnSubpacket
<1>7. ASSUME OnZEOF \/ DrainEnds PROVE Ordered'
  BY <1>7, <1>a DEF OnZEOF, DrainEnds, Return
<1>8. ASSUME NothingToRead \/ SpoiltSubpacket \/ OnZABORT \/ DiskFails PROVE Ordered'
  BY <1>8, <1>b DEF NothingToRead, SpoiltSubpacket, OnZABORT, DiskFails
<1>9. ASSUME Peek PROVE Ordered'
  <2>1. CASE Head(buf).kind = "ZFILE"
    BY <2>1, <1>9, <1>a DEF Peek, AtRest
  <2>2. CASE Head(buf).kind # "ZFILE"
    BY <2>2, <1>9, <1>a, GoodByeClosesRow DEF Peek
  <2> QED BY <2>1, <2>2
<1>10. ASSUME PeekTimesOut \/ OnZFIN PROVE Ordered'
  BY <1>10, <1>a, GoodByeClosesRow DEF PeekTimesOut, OnZFIN
<1>11. ASSUME Drain PROVE Ordered'
  BY <1>11, <1>a DEF Drain, Return
<1>12. ASSUME SessionLoop PROVE Ordered'
  BY <1>12, <1>a DEF SessionLoop, ReadOutput, TwoSecondsPass, SessionEnds, AtRest
<1>13. ASSUME SendFails PROVE Ordered'
  BY <1>13, <1>a, SendFailsFacts
<1> QED BY <1>1, <1>2, <1>3, <1>4, <1>5, <1>6, <1>7, <1>8, <1>9, <1>10, <1>11, <1>12, <1>13
       DEF SessionTask, Receive

LEMMA SameRow ==
  ASSUME NEW x \in Row, NEW y \in Row,
         x.run = y.run, x.file = y.file, x.data = y.data, x.state = y.state
  PROVE  x = y
<1>1. /\ x = [run |-> x.run, file |-> x.file, data |-> x.data, state |-> x.state]
      /\ y = [run |-> y.run, file |-> y.file, data |-> y.data, state |-> y.state]
  BY Zenon DEF Row
<1> QED BY <1>1

(* What a step does to a row that says done. *)
LEMMA WholeKept ==
  ASSUME ZmodemTypeOK, CountedIsWhole, restarted \subseteq restarted',
         NEW n \in Nat, Len(rows') = n, rows' \in Seq(Row),
         \A i \in 1..n :
           \/ i \in 1..Len(rows) /\ rows'[i] = rows[i]
           \/ rows'[i].state = "running"
           \/ <<rows'[i].run, rows'[i].file>> \in restarted'
           \/ rows'[i].data = Whole(rows'[i].run, rows'[i].file)
  PROVE  CountedIsWhole'
<1>1. DOMAIN rows' = 1..n /\ DOMAIN rows = 1..Len(rows)
  BY DEF ZmodemTypeOK
<1>2. ASSUME NEW i \in 1..n, rows'[i].state = "done",
             <<rows'[i].run, rows'[i].file>> \notin restarted'
      PROVE  rows'[i].data = Whole(rows'[i].run, rows'[i].file)
  <2>1. CASE i \in 1..Len(rows) /\ rows'[i] = rows[i]
    BY <2>1, <1>1, <1>2 DEF CountedIsWhole
  <2> QED BY <2>1, <1>2
<1> QED BY <1>1, <1>2 DEF CountedIsWhole, Whole

LEMMA SessionTaskCounts ==
  ASSUME ZmodemTypes, TokensAgree, DataOrdered, SessionTask, restarted' = restarted
  PROVE  CountedIsWhole'
<1>0. /\ ZmodemTypeOK /\ RowsFit /\ rows \in Seq(Row) /\ cur \in 0..Len(rows)
      /\ Len(rows) \in Nat /\ CountedIsWhole /\ DOMAIN rows = 1..Len(rows)
  BY TypeParts DEF ZmodemTypes, DataOrdered, RowsFit
<1>a. ASSUME rows' = rows PROVE CountedIsWhole'
  BY <1>0, <1>a, WholeKept
<1>b. ASSUME Bail PROVE CountedIsWhole'
  BY <1>a, <1>b DEF Bail
<1>1. PICK a, b \in Places : FitsRow(a) /\ Chain(Coming, a, b, restarted)
  BY DEF DataOrdered, Ordered
<1>2. ASSUME Header("ZFILE"), OpenRow(Head(buf)) PROVE CountedIsWhole'
  <2>1. Head(buf).run \in RunIds /\ Head(buf).file \in FileIds
    BY <1>2, HeadHolds DEF Header, Tokens, Named
  <2>2. /\ rows' \in Seq(Row) /\ Len(rows') = Len(rows) + 1
        /\ rows'[Len(rows) + 1].state = "running"
        /\ \A i \in 1..Len(rows) : rows'[i] = rows[i]
        /\ 1..Len(rows') = 1..Len(rows) \cup {Len(rows) + 1}
    BY <2>1, <1>0, <1>2, RowAdded DEF OpenRow
  <2>3. Len(rows) + 1 \in Nat
    BY <1>0
  <2> QED BY <2>2, <2>3, <1>0, WholeKept
<1>3. ASSUME pc = "data", buf # <<>>, Head(buf).kind = "sub", rows' = WriteChunk(Head(buf), rows)
      PROVE  CountedIsWhole'
  <2>1. /\ Head(buf) \in Tokens /\ Head(buf) \in Named /\ Head(buf).kind = "sub"
        /\ rows' = WriteChunk(Head(buf), rows) /\ pc = "data"
    BY <1>3, HeadHolds
  <2>2. /\ rows' \in Seq(Row) /\ Len(rows') = Len(rows)
        /\ \A i \in 1..Len(rows) : /\ rows'[i].state = rows[i].state
                                   /\ i # cur => rows'[i] = rows[i]
    BY <2>1, <1>0, WriteFacts
  <2>3. cur # 0 => rows[cur].state = "running"
    BY <2>1, <1>1 DEF FitsRow
  <2>4. \A i \in 1..Len(rows) : i # 0
    OBVIOUS
  <2> QED BY <2>2, <2>3, <2>4, <1>0, WholeKept
<1>4. ASSUME Header("ZEOF"), CountFile PROVE CountedIsWhole'
  <2>1. /\ rows' \in Seq(Row) /\ Len(rows') = Len(rows)
        /\ \A i \in 1..Len(rows) :
             /\ rows'[i].run = rows[i].run /\ rows'[i].file = rows[i].file
             /\ rows'[i].data = rows[i].data
             /\ rows'[i].state = IF i = cur THEN "done" ELSE rows[i].state
    BY <1>0, <1>4, CloseFacts DEF CountFile
  <2>2. pc = "header" /\ buf # <<>> /\ Head(buf).kind = "ZEOF"
    BY <1>4 DEF Header
  <2>3. Head(buf).run = sz.run
    <3>1. Coming[1] = Head(buf) /\ 1 \in 1..Len(Coming)
      BY <2>2, HeadHolds, ComingFacts DEF ZmodemTypes
    <3> QED BY <3>1 DEF TokensAgree, OfThisRun, Only
  <2>4. PICK c \in Places : Carries(a, Head(buf), c, restarted)
    <3>1. /\ Coming \in Seq(Tokens) /\ 1 \in 0..Len(Coming) /\ Coming[1] = Head(buf)
      BY <1>0, <2>2, ComingFacts, HeadHolds
    <3> QED BY <3>1, <1>1, ChainLess
  <2>5. /\ a.file = Head(buf).file /\ a.in = "header"
        /\ <<sz.run, a.file>> \in restarted \/ a.next = Chunks + 1
    BY <2>2, <2>3, <2>4 DEF Carries
  <2>6. ASSUME cur # 0, <<rows[cur].run, rows[cur].file>> \notin restarted
        PROVE  rows[cur].data = Whole(rows[cur].run, rows[cur].file)
    <3>1. /\ rows[cur].run = sz.run /\ rows[cur].file = a.file
          /\ \/ <<sz.run, a.file>> \in restarted
             \/ rows[cur].data = FirstPieces(sz.run, a.file, a.next - 1)
      BY <2>2, <2>6, <1>1 DEF FitsRow
    <3>2. a.next - 1 = Chunks
      BY <2>5, <2>6, <3>1, CountsAssumption
    <3> QED BY <2>6, <3>1, <3>2 DEF FirstPieces, Whole, ChunkIds
  <2>7. ASSUME NEW i \in 1..Len(rows)
        PROVE  \/ rows'[i] = rows[i]
               \/ <<rows'[i].run, rows'[i].file>> \in restarted'
               \/ rows'[i].data = Whole(rows'[i].run, rows'[i].file)
    <3>1. CASE i = cur
      BY <2>1, <2>6, <2>7, <3>1
    <3>2. CASE i # cur
      <4>1. rows'[i] \in Row /\ rows[i] \in Row
        BY <2>1, <2>7, <1>0
      <4>2. rows'[i] = rows[i]
        BY <2>1, <2>7, <3>2, <4>1, SameRow
      <4> QED BY <4>2
    <3> QED BY <3>1, <3>2
  <2> QED BY <2>1, <2>7, <1>0, WholeKept
<1>5. ASSUME \/ \E n \in 1..Len(fromHost) : Fetch(n)
             \/ SkipGarbage \/ OnZRQINIT \/ OnZDATA \/ Peek \/ PeekTimesOut \/ OnZFIN
             \/ Drain \/ DrainEnds \/ SessionLoop
      PROVE  rows' = rows
  BY <1>5 DEF Fetch, SkipGarbage, OnZRQINIT, OnZDATA, Peek, PeekTimesOut, OnZFIN, Drain,
     DrainEnds, SessionLoop, ReadOutput, TwoSecondsPass, SessionEnds
<1>6. NothingToRead \/ SpoiltSubpacket \/ OnZABORT \/ DiskFails => Bail
  BY DEF NothingToRead, SpoiltSubpacket, OnZABORT, DiskFails
<1>7. ASSUME OnZFILE \/ OnSubpacket \/ OnZEOF \/ SendFails PROVE CountedIsWhole'
  BY <1>7, <1>a, <1>2, <1>3, <1>4 DEF OnZFILE, OnSubpacket, OnZEOF, SendFails
<1> QED BY <1>a, <1>b, <1>5, <1>6, <1>7 DEF SessionTask, Receive

(***************************************************************************)
(* The far side says what comes next.                                      *)
(***************************************************************************)
LEMMA SaysNext ==
  ASSUME ZmodemTypes, UNCHANGED receiver, sz'.run = sz.run,
         NEW R, restarted \subseteq R, restarted' = R,
         NEW b \in Places, NEW c \in Places, FitsSz(c)',
         \/ c = b /\ Coming' = Coming
         \/ \E t \in Tokens : Coming' = Append(Coming, t) /\ Carries(b, t, c, R)
         \/ \E t, u \in Tokens, d \in Places :
              /\ Coming' = Append(Append(Coming, t), u)
              /\ Carries(b, t, d, R) /\ Carries(d, u, c, R),
         NEW a \in Places, FitsRow(a), Chain(Coming, a, b, restarted)
  PROVE  Ordered'
<1>1. Coming \in Seq(Tokens) /\ \A t \in Tokens : Append(Coming, t) \in Seq(Tokens)
  BY ComingFacts, OneMore DEF ZmodemTypes
<1>2. Chain(Coming, a, b, R)
  BY ChainGrows
<1>3. \A t \in Tokens, d \in Places :
        Carries(b, t, d, R) => Chain(Append(Coming, t), a, d, R)
  BY <1>1, <1>2, ChainMore
<1>4. \A t, u \in Tokens, d \in Places :
        Carries(b, t, d, R) /\ Carries(d, u, c, R) => Chain(Append(Append(Coming, t), u), a, c, R)
  BY <1>1, <1>3, ChainMore
<1>5. PICK s : s = Coming' /\ Chain(s, a, c, R)
  BY <1>2, <1>3, <1>4
<1>6. Chain(Coming, a, c, restarted)'
  BY <1>5 DEF Chain
<1>7. FitsRow(a)'
  BY DEF FitsRow, receiver
<1> QED BY <1>6, <1>7 DEF Ordered

At(f, n, i) == [file |-> f, next |-> n, in |-> i]

LEMMA EndCarries ==
  ASSUME NEW u \in Tokens, NEW b \in Places, NEW c \in Places, NEW R,
         u.kind = "sub", u.n = 0, u.arg = "ZCRCE", u.file = b.file,
         b.in = "data", c.in = "header", c.file = b.file, c.next = b.next
  PROVE  Carries(b, u, c, R)
<1>1. u.arg \in EndOfFrame
  BY DEF EndOfFrame
<1> QED BY <1>1 DEF Carries

LEMMA LeaveOrdered ==
  ASSUME ZmodemTypes, Ordered, ~Gone, UNCHANGED receiver, NEW how \in {"ok", "error"},
         NEW toks, Leave(sz, toks, how), restarted' = restarted,
         toks = <<>> \/ \E k \in LastWords : toks = <<Token(sz, k, 0, "none")>>
  PROVE  Ordered' /\ SenderSteps'
<1>0. buf' = buf
  BY DEF receiver
<1>1. PICK p \in Tokens :
        /\ p.kind = "text"
        /\ \/ Coming' = Append(Coming, p)
           \/ \E t \in Tokens :
                /\ t.kind \in LastWords /\ Coming' = Append(Append(Coming, t), p)
  BY <1>0, LeaveSays
<1>2. PICK a, b \in Places : FitsRow(a) /\ FitsSz(b) /\ Chain(Coming, a, b, restarted)
  BY DEF Ordered
<1>3. PICK c : c = At(b.file, b.next, "header")
  OBVIOUS
<1>4. c \in Places /\ c.file = b.file /\ c.next = b.next /\ c.in = "header"
  BY <1>3 DEF At, Places, FrameOf
<1>5. /\ sz'.run = sz.run /\ sz'.file = sz.file /\ sz'.stage = "gone" /\ sz'.next = sz.next
      /\ ~sz'.open
  BY SenderTypes DEF Leave, ZmodemTypes
<1>6. FitsSz(c)'
  <2>1. c.in = "header"
    BY <1>4 DEF Places
  <2> QED BY <2>1, <1>2, <1>4, <1>5 DEF FitsSz, FrameOf
<1>7. \A t \in Tokens, e \in Places :
        t.kind \in LastWords \cup {"text"} /\ e.file = b.file /\ e.next = b.next =>
          Carries(e, t, c, restarted)
  BY <1>4 DEF Carries, FrameOf, LastWords
<1>8. Carries(b, p, c, restarted) /\ Carries(c, p, c, restarted)
      /\ \A t \in Tokens : t.kind \in LastWords => Carries(b, t, c, restarted)
  BY <1>1, <1>4, <1>7
<1>9. \/ \E t \in Tokens : Coming' = Append(Coming, t) /\ Carries(b, t, c, restarted)
      \/ \E t, u \in Tokens, d \in Places :
           /\ Coming' = Append(Append(Coming, t), u)
           /\ Carries(b, t, d, restarted) /\ Carries(d, u, c, restarted)
  BY <1>1, <1>4, <1>8
<1>10. Ordered'
  BY <1>2, <1>4, <1>5, <1>6, <1>9, SaysNext
<1> QED BY <1>5, <1>10 DEF SenderSteps

LEMMA SendFileOrdered ==
  ASSUME ZmodemTypes, Ordered, SenderSteps, ~Gone, UNCHANGED receiver, NEW f \in FileIds,
         SendFile(sz, f), restarted' = restarted, sz.stage # "data"
  PROVE  Ordered' /\ SenderSteps'
<1>0. buf' = buf /\ f \in Nat
  BY FileTypes DEF receiver
<1>1. PICK t \in Tokens :
        t.kind = "ZFILE" /\ t.run = sz.run /\ t.file = f /\ Coming' = Append(Coming, t)
  BY <1>0, FileSays
<1>2. PICK a, b \in Places : FitsRow(a) /\ FitsSz(b) /\ Chain(Coming, a, b, restarted)
  BY DEF Ordered
<1>3. /\ sz'.run = sz.run /\ sz'.file = f /\ sz'.stage = "file" /\ sz'.next = 1
      /\ sz'.open = sz.open /\ ~sz.open
  <2>1. sz.open = FALSE
    BY SenderTypes DEF SenderSteps, ZmodemTypes
  <2> QED BY <2>1, <1>0, FileAdds
<1>4. PICK c : c = At(f, 1, "header")
  OBVIOUS
<1>5. c \in Places /\ c.file = f /\ c.next = 1 /\ c.in = "header"
  BY <1>0, <1>4 DEF At, Places, FrameOf
<1>6. FitsSz(c)'
  BY <1>3, <1>5 DEF FitsSz, FrameOf
<1>7. Carries(b, t, c, restarted)
  BY <1>1, <1>5 DEF Carries, FrameOf
<1>8. Ordered'
  BY <1>1, <1>2, <1>3, <1>5, <1>6, <1>7, SaysNext
<1> QED BY <1>3, <1>8 DEF SenderSteps

LEMMA ChunkOrdered ==
  ASSUME ZmodemTypes, Ordered, SenderSteps, SendChunk
  PROVE  Ordered' /\ SenderSteps'
<1>0. UNCHANGED receiver /\ sz.stage = "data" /\ restarted' = restarted
  BY DEF SendChunk
<1>1. PICK t \in Tokens :
        /\ t.kind = "sub" /\ t.run = sz.run /\ t.file = sz.file /\ t.n = sz.next
        /\ sz' = [sz EXCEPT !.next = @ + 1, !.open = t.arg \notin EndOfFrame]
        /\ \/ sz.open /\ Coming' = Append(Coming, t)
           \/ \E u \in Tokens :
                /\ ~sz.open /\ u.kind = "ZDATA" /\ u.run = sz.run /\ u.file = sz.file
                /\ Coming' = Append(Append(Coming, u), t)
  BY ChunkSays
<1>2. PICK a, b \in Places : FitsRow(a) /\ FitsSz(b) /\ Chain(Coming, a, b, restarted)
  BY DEF Ordered
<1>3. /\ sz'.run = sz.run /\ sz'.file = sz.file /\ sz'.stage = "data"
      /\ sz'.next = sz.next + 1 /\ (sz'.open <=> t.arg \notin EndOfFrame)
  BY <1>0, <1>1, SenderTypes DEF ZmodemTypes
<1>4. /\ b.file = sz.file /\ b.in = FrameOf(sz.open) /\ b.next \in Nat /\ b.file \in Nat
      /\ b.next = sz.next \/ <<sz.run, sz.file>> \in restarted
      /\ sz.next \in 1..(Chunks + 1)
  BY <1>2, SenderTypes DEF FitsSz, FrameOf, Places, ZmodemTypes
<1>5. PICK d, c : d = At(b.file, b.next, "data") /\ c = At(b.file, b.next + 1, FrameOf(t.arg \notin EndOfFrame))
  OBVIOUS
<1>6. /\ d \in Places /\ d.file = b.file /\ d.next = b.next /\ d.in = "data"
      /\ c \in Places /\ c.file = b.file /\ c.next = b.next + 1
      /\ c.in = FrameOf(t.arg \notin EndOfFrame)
  BY <1>4, <1>5 DEF At, Places, FrameOf
<1>7. FitsSz(c)'
  BY <1>0, <1>3, <1>4, <1>6 DEF FitsSz, FrameOf
<1>8. sz.next # 0
  BY <1>4
<1>9. \A e \in Places : e.file = b.file /\ e.next = b.next /\ e.in = "data" => Carries(e, t, c, restarted)
  BY <1>1, <1>4, <1>6, <1>8 DEF Carries, FrameOf
<1>10. \A u \in Tokens : ~sz.open /\ u.kind = "ZDATA" /\ u.run = sz.run /\ u.file = sz.file
                          => Carries(b, u, d, restarted)
  BY <1>4, <1>6 DEF Carries, FrameOf
<1>11. sz.open => Carries(b, t, c, restarted)
  BY <1>4, <1>9 DEF FrameOf
<1>12. Carries(d, t, c, restarted)
  BY <1>6, <1>9
<1>13. \/ \E x \in Tokens : Coming' = Append(Coming, x) /\ Carries(b, x, c, restarted)
       \/ \E x, u \in Tokens, e \in Places :
            /\ Coming' = Append(Append(Coming, x), u)
            /\ Carries(b, x, e, restarted) /\ Carries(e, u, c, restarted)
  BY <1>1, <1>6, <1>10, <1>11, <1>12
<1>14. Ordered'
  BY <1>0, <1>2, <1>3, <1>6, <1>7, <1>13, SaysNext
<1> QED BY <1>3, <1>14 DEF SenderSteps

LEMMA EofOrdered ==
  ASSUME ZmodemTypes, Ordered, SenderSteps, SendEof
  PROVE  Ordered' /\ SenderSteps'
<1>0. UNCHANGED receiver /\ restarted' = restarted
  BY DEF SendEof
<1>1. PICK t \in Tokens :
        /\ t.kind = "ZEOF" /\ t.run = sz.run /\ t.file = sz.file
        /\ \/ ~sz.open /\ Coming' = Append(Coming, t)
           \/ \E u \in Tokens :
                /\ sz.open /\ u.kind = "sub" /\ u.run = sz.run /\ u.file = sz.file
                /\ u.n = 0 /\ u.arg = "ZCRCE"
                /\ Coming' = Append(Append(Coming, u), t)
  BY EofSays
<1>2. PICK a, b \in Places : FitsRow(a) /\ FitsSz(b) /\ Chain(Coming, a, b, restarted)
  BY DEF Ordered
<1>3. /\ sz'.run = sz.run /\ sz'.file = sz.file /\ sz'.stage = "eof"
      /\ sz'.next = sz.next /\ ~sz'.open
  BY EofAdds
<1>4. /\ b.file = sz.file /\ b.in = FrameOf(sz.open) /\ b.next \in Nat /\ b.file \in Nat
      /\ b.next = sz.next \/ <<sz.run, sz.file>> \in restarted
      /\ sz.next = Chunks + 1
  <2>1. sz.next = Chunks + 1
    <3>1. sz.next \in 1..(Chunks + 1) /\ sz.next > Chunks
      BY SenderTypes DEF ZmodemTypes, SendEof
    <3> QED BY <3>1, CountsAssumption
  <2> QED BY <2>1, <1>2 DEF FitsSz, FrameOf, Places
<1>5. PICK c : c = At(b.file, b.next, "header")
  OBVIOUS
<1>6. c \in Places /\ c.file = b.file /\ c.next = b.next /\ c.in = "header"
  BY <1>4, <1>5 DEF At, Places, FrameOf
<1>7. FitsSz(c)'
  BY <1>0, <1>3, <1>4, <1>6 DEF FitsSz, FrameOf
<1>8. \A e \in Places : e.file = b.file /\ e.next = b.next /\ e.in = "header" => Carries(e, t, c, restarted)
  BY <1>1, <1>4, <1>6 DEF Carries, FrameOf
<1>9. \A u \in Tokens :
         sz.open /\ u.kind = "sub" /\ u.file = sz.file /\ u.n = 0 /\ u.arg = "ZCRCE" =>
           Carries(b, u, c, restarted)
  <2>1. sz.open => b.in = "data" /\ b.file = sz.file
    BY <1>4 DEF FrameOf
  <2> QED BY <2>1, <1>6, EndCarries
<1>10. ~sz.open => Carries(b, t, c, restarted)
  BY <1>4, <1>8 DEF FrameOf
<1>11. Carries(c, t, c, restarted)
  BY <1>6, <1>8
<1>12. \/ \E x \in Tokens : Coming' = Append(Coming, x) /\ Carries(b, x, c, restarted)
       \/ \E x, u \in Tokens, e \in Places :
            /\ Coming' = Append(Append(Coming, x), u)
            /\ Carries(b, x, e, restarted) /\ Carries(e, u, c, restarted)
  BY <1>1, <1>6, <1>9, <1>10, <1>11
<1>13. Ordered'
  BY <1>0, <1>2, <1>3, <1>6, <1>7, <1>12, SaysNext
<1> QED BY <1>3, <1>4, <1>13 DEF SenderSteps

LEMMA RestartOrdered ==
  ASSUME ZmodemTypes, Ordered, SenderSteps, ~Gone, UNCHANGED receiver, Restart
  PROVE  Ordered' /\ SenderSteps'
<1>0. buf' = buf
  BY DEF receiver
<1>1. \/ ~sz.open /\ Coming' = Coming
      \/ \E u \in Tokens :
           /\ sz.open /\ u.kind = "sub" /\ u.run = sz.run /\ u.file = sz.file
           /\ u.n = 0 /\ u.arg = "ZCRCE" /\ Coming' = Append(Coming, u)
  BY <1>0, RestartSays
<1>2. PICK a, b \in Places : FitsRow(a) /\ FitsSz(b) /\ Chain(Coming, a, b, restarted)
  BY DEF Ordered
<1>3. /\ sz'.run = sz.run /\ sz'.file = sz.file /\ sz'.stage = "data" /\ sz'.next = 1
      /\ ~sz'.open /\ restarted' = restarted \cup {<<sz.run, sz.file>>}
  BY <1>0, RestartAdds
<1>4. b.file = sz.file /\ b.in = FrameOf(sz.open) /\ b.next \in Nat /\ b.file \in Nat
  BY <1>2 DEF FitsSz, FrameOf, Places
<1>5. PICK c : c = At(b.file, b.next, "header")
  OBVIOUS
<1>6. c \in Places /\ c.file = b.file /\ c.next = b.next /\ c.in = "header"
  BY <1>4, <1>5 DEF At, Places, FrameOf
<1>7. FitsSz(c)'
  BY <1>3, <1>4, <1>6 DEF FitsSz, FrameOf
<1>8. \A u \in Tokens :
         sz.open /\ u.kind = "sub" /\ u.file = sz.file /\ u.n = 0 /\ u.arg = "ZCRCE" =>
           Carries(b, u, c, restarted')
  <2>1. sz.open => b.in = "data" /\ b.file = sz.file
    BY <1>4 DEF FrameOf
  <2> QED BY <2>1, <1>6, EndCarries
<1>9. ~sz.open => c = b
  <2>1. ~sz.open => b.in = "header"
    BY <1>4 DEF FrameOf
  <2>2. b = At(b.file, b.next, b.in)
    BY Zenon DEF At, Places
  <2> QED BY <2>1, <2>2, <1>5
<1>10. restarted \subseteq restarted'
  BY <1>3
<1>11. Ordered'
  BY <1>1, <1>2, <1>3, <1>6, <1>7, <1>8, <1>9, <1>10, SaysNext
<1> QED BY <1>3, <1>11 DEF SenderSteps

(* The sender says nothing, and nothing of its place in the file changes. *)
LEMMA SaysNothingOrdered ==
  ASSUME ZmodemTypes, Ordered, UNCHANGED receiver, Coming' = Coming, restarted' = restarted,
         sz'.run = sz.run, sz'.file = sz.file, sz'.next = sz.next, sz'.open = sz.open
  PROVE  Ordered'
<1>1. PICK a, b \in Places : FitsRow(a) /\ FitsSz(b) /\ Chain(Coming, a, b, restarted)
  BY DEF Ordered
<1>2. FitsSz(b)'
  BY <1>1 DEF FitsSz, FrameOf
<1> QED BY <1>1, <1>2, SaysNext

LEMMA RepeatOrdered ==
  ASSUME ZmodemTypes, TokensAgree, Ordered, SenderSteps, RepeatEarly \/ RepeatQuiet
  PROVE  Ordered' /\ SenderSteps'
<1>0. /\ Unanswered /\ RepeatHeader /\ buf' = buf /\ UNCHANGED receiver /\ sz' = sz
      /\ restarted' = restarted
  BY DEF RepeatEarly, RepeatQuiet, receiver, sender
<1>1. PICK t \in Tokens :
        /\ <<sz.stage, t.kind>> \in {<<"init", "ZRQINIT">>, <<"file", "ZFILE">>,
                                     <<"eof", "ZEOF">>, <<"fin", "ZFIN">>}
        /\ t.run = sz.run /\ t.file = sz.file /\ Coming' = Append(Coming, t)
  BY <1>0, HeaderSays
<1>2. PICK a, b \in Places : FitsRow(a) /\ FitsSz(b) /\ Chain(Coming, a, b, restarted)
  BY DEF Ordered
<1>3. sz.stage # "data"
  BY <1>0 DEF Unanswered
<1>4. /\ b.file = sz.file /\ b.in = "header" /\ b.next \in Nat /\ b.file \in Nat
      /\ b.next = sz.next \/ <<sz.run, sz.file>> \in restarted
  BY <1>2, <1>3 DEF FitsSz, FrameOf, Places, SenderSteps
<1>5. FitsSz(b)'
  BY <1>0, <1>2 DEF FitsSz, FrameOf
<1>6. ASSUME t.kind # "ZFILE" PROVE Carries(b, t, b, restarted)
  <2>1. sz.stage = "init" => sz.file = 0
    BY DEF TokensAgree, AtFirst
  <2>2. sz.stage = "eof" => sz.next = Chunks + 1
    BY DEF SenderSteps
  <2> QED BY <2>1, <2>2, <1>1, <1>4, <1>6 DEF Carries
<1>7. ASSUME t.kind = "ZFILE" PROVE Ordered'
  <2>1. sz.stage = "file" /\ sz.next = 1
    BY <1>1, <1>7 DEF SenderSteps
  <2>2. PICK c : c = At(b.file, 1, "header")
    OBVIOUS
  <2>3. c \in Places /\ c.file = b.file /\ c.next = 1 /\ c.in = "header"
    BY <2>2, <1>4 DEF At, Places
  <2>4. FitsSz(c)'
    BY <2>1, <2>3, <1>0, <1>3, <1>4 DEF FitsSz, FrameOf, SenderSteps
  <2>5. Carries(b, t, c, restarted)
    BY <2>3, <1>1, <1>4, <1>7 DEF Carries
  <2> QED BY <2>3, <2>4, <2>5, <1>0, <1>1, <1>2, SaysNext
<1>8. Ordered'
  BY <1>0, <1>1, <1>2, <1>5, <1>6, <1>7, SaysNext
<1> QED BY <1>0, <1>8 DEF SenderSteps

LEMMA StartOrdered ==
  ASSUME ZmodemTypes, TokensAgree, StartSz
  PROVE  Ordered' /\ SenderSteps'
<1>1. PICK t : t = Token(sz', "ZRQINIT", 0, "none")
  OBVIOUS
<1>2. /\ t \in Tokens /\ t.kind = "ZRQINIT" /\ t.file = 0 /\ Coming' = Append(Coming, t)
  BY <1>1, StartSays
<1>3. /\ sz'.stage = "init" /\ sz'.file = 0 /\ sz'.next = 1 /\ ~sz'.open /\ Gone
      /\ pc' = "shell"
  BY DEF StartSz, receiver, Gone
<1>4. Coming = <<>>
  <2>1. sz.run = 0 => Coming = <<>>
    BY DEF TokensAgree, PromptDue
  <2>2. sz.run # 0 => sz.run > 0 /\ prompt[sz.run] # "none"
    BY SenderNumbers DEF StartSz
  <2> QED BY <2>1, <2>2, <1>3 DEF TokensAgree, PromptDue
<1>5. PICK c : c = At(0, 1, "header")
  OBVIOUS
<1>6. c \in Places /\ c.file = 0 /\ c.next = 1 /\ c.in = "header"
  BY <1>5 DEF At, Places
<1>7. Carries(c, t, c, restarted')
  BY <1>2, <1>6 DEF Carries
<1>8. PICK s : s = Coming' /\ Chain(s, c, c, restarted')
  <2>1. Chain(<<>>, c, c, restarted') /\ <<>> \in Seq(Tokens)
    BY <1>6, ChainNone
  <2>2. Chain(Append(<<>>, t), c, c, restarted')
    BY <2>1, <1>2, <1>6, <1>7, ChainMore
  <2> QED BY <2>2, <1>2, <1>4
<1>9. Chain(Coming, c, c, restarted)'
  BY <1>8 DEF Chain
<1>10. FitsSz(c)' /\ FitsRow(c)'
  BY <1>3, <1>6 DEF FitsSz, FrameOf, FitsRow
<1> QED BY <1>3, <1>6, <1>9, <1>10 DEF Ordered, SenderSteps

LEMMA AnswerOrdered ==
  ASSUME ZmodemTypes, Ordered, SenderSteps, ReadAnswer
  PROVE  Ordered' /\ SenderSteps' /\ restarted \subseteq restarted'
<1>0. /\ UNCHANGED receiver /\ Answered(Head(toHost)) /\ buf' = buf /\ ZmodemTypeOK
  BY AnswerRead DEF ZmodemTypes
<1>1. ASSUME NEW how \in {"ok", "error"}, NEW toks,
             toks = <<>> \/ \E k \in LastWords : toks = <<Token(sz, k, 0, "none")>>,
             ~Gone, Leave(sz, toks, how), restarted' = restarted
      PROVE  Ordered' /\ SenderSteps'
  BY <1>0, <1>1, LeaveOrdered
<1>2. ASSUME restarted' = restarted,
             \/ sz.stage = "init" /\ SendFile(sz, 1)
             \/ sz.stage = "file" /\ SendFile(sz, sz.file)
             \/ sz.stage = "eof" /\ sz.file < FilesOf[sz.run] /\ SendFile(sz, sz.file + 1)
      PROVE  Ordered' /\ SenderSteps'
  <2>1. ~Gone /\ sz.stage # "data"
    BY <1>2 DEF Gone
  <2>2. FilesOf[sz.run] \in Nat /\ 1 \in FileIds /\ 1..FilesOf[sz.run] \subseteq FileIds
        /\ sz.file \in Nat
    BY <2>1, RunType, FileTypes, SenderNumbers
  <2>3. sz.stage = "file" => sz.file \in FileIds
    BY <2>2 DEF ZmodemTypes
  <2>4. sz.file < FilesOf[sz.run] => sz.file + 1 \in FileIds
    BY <2>2
  <2> QED BY <2>1, <2>2, <2>3, <2>4, <1>0, <1>2, SendFileOrdered
<1>3. ASSUME sz.stage = "eof", SendFin(sz), restarted' = restarted
      PROVE  Ordered' /\ SenderSteps'
  <2>1. ~Gone
    BY <1>3 DEF Gone
  <2>2. /\ sz'.run = sz.run /\ sz'.file = sz.file /\ sz'.stage = "fin" /\ sz'.next = sz.next
        /\ sz'.open = sz.open
    BY <2>1, <1>0, <1>3, FinAdds
  <2>3. \/ Coming' = Coming
        \/ \E t \in Tokens : t.kind = "ZFIN" /\ Coming' = Append(Coming, t)
    BY <2>1, <1>0, <1>3, FinSays
  <2>4. PICK a, b \in Places : FitsRow(a) /\ FitsSz(b) /\ Chain(Coming, a, b, restarted)
    BY DEF Ordered
  <2>5. ~sz.open /\ b.in = "header" /\ FitsSz(b)'
    BY <2>2, <2>4, <1>3 DEF SenderSteps, FitsSz, FrameOf
  <2>6. \A t \in Tokens : t.kind = "ZFIN" => Carries(b, t, b, restarted)
    BY <2>5 DEF Carries
  <2>7. Ordered'
    BY <2>2, <2>3, <2>4, <2>5, <2>6, <1>0, <1>3, SaysNext
  <2> QED BY <2>2, <2>5, <2>7 DEF SenderSteps
<1>4. ASSUME \/ sz' = sz
             \/ sz.stage = "file" /\ sz' = [sz EXCEPT !.stage = "data"],
             fromHost' = fromHost, restarted' = restarted
      PROVE  Ordered' /\ SenderSteps'
  <2>1. /\ sz'.run = sz.run /\ sz'.file = sz.file /\ sz'.next = sz.next /\ sz'.open = sz.open
        /\ sz' = sz \/ sz'.stage = "data"
    BY <1>0, <1>4, SenderTypes
  <2>2. Coming' = Coming
    BY <1>0, <1>4 DEF Coming
  <2> QED BY <2>1, <2>2, <1>0, <1>4, SaysNothingOrdered DEF SenderSteps
<1>5. ASSUME sz.stage \in {"data", "eof"}, Restart
      PROVE  Ordered' /\ SenderSteps' /\ restarted \subseteq restarted'
  <2>1. ~Gone
    BY <1>5 DEF Gone
  <2>2. restarted \subseteq restarted'
    BY <1>5 DEF Restart
  <2> QED BY <2>1, <2>2, <1>0, <1>5, RestartOrdered
<1>6. \A s \in {"file", "data", "eof", "fin"} : sz.stage = s => ~Gone
  BY DEF Gone
<1>7. "OO" \in LastWords
  BY DEF LastWords
<1> QED BY <1>0, <1>1, <1>2, <1>3, <1>4, <1>5, <1>6, <1>7, AnswerCases

LEMMA FarSideOrdered ==
  ASSUME ZmodemTypes, TokensAgree, DataOrdered,
         Sz \/ StartSz \/ RepeatEarly \/ RepeatQuiet \/ Abort \/ LineDrops
  PROVE  DataOrdered'
<1>1. ASSUME rows' = rows, restarted \subseteq restarted' PROVE CountedIsWhole'
  BY <1>1 DEF DataOrdered, CountedIsWhole, Whole
<1>2. ASSUME SendChunk \/ SendEof PROVE DataOrdered'
  BY <1>1, <1>2, ChunkOrdered, EofOrdered DEF DataOrdered, SendChunk, SendEof, receiver
<1>3. ASSUME ReadAnswer PROVE DataOrdered'
  BY <1>1, <1>3, AnswerOrdered DEF DataOrdered, ReadAnswer, receiver
<1>4. ASSUME StartSz PROVE DataOrdered'
  BY <1>1, <1>4, StartOrdered DEF DataOrdered, StartSz, receiver
<1>5. ASSUME RepeatEarly \/ RepeatQuiet PROVE DataOrdered'
  BY <1>1, <1>5, RepeatOrdered DEF DataOrdered, RepeatEarly, RepeatQuiet, receiver, sender
<1>6. ASSUME Abort PROVE DataOrdered'
  <2>1. PICK kind \in {"CANs", "ZABORT"} : Leave(sz, <<Token(sz, kind, 0, "none")>>, "error")
    BY <1>6 DEF Abort
  <2>2. /\ ~Gone /\ kind \in LastWords /\ UNCHANGED receiver /\ restarted' = restarted
        /\ rows' = rows
    BY <1>6 DEF Abort, Gone, LastWords, receiver
  <2> QED BY <2>1, <2>2, <1>1, LeaveOrdered DEF DataOrdered
<1>7. ASSUME LineDrops PROVE DataOrdered'
  <2>1. /\ sz' = sz /\ UNCHANGED receiver /\ Coming' = Coming /\ restarted' = restarted
        /\ rows' = rows
    BY <1>7 DEF LineDrops, receiver, Coming
  <2> QED BY <2>1, <1>1, SaysNothingOrdered DEF DataOrdered, SenderSteps
<1> QED BY <1>2, <1>3, <1>4, <1>5, <1>6, <1>7 DEF Sz

LEMMA OrderStep ==
  ASSUME ZmodemTypes, AtRest, TokensAgree, DataOrdered, [ZmodemNext]_zmodemVars
  PROVE  DataOrdered'
<1>1. ASSUME SessionTask PROVE DataOrdered'
  <2>1. sz' = sz /\ restarted' = restarted
    BY <1>1, SessionTaskMoves
  <2> QED BY <2>1, <1>1, SessionTaskOrdered, SessionTaskCounts DEF DataOrdered, SenderSteps
<1>2. CASE UNCHANGED zmodemVars
  <2>1. /\ sz' = sz /\ Coming' = Coming /\ restarted' = restarted /\ rows' = rows
        /\ cur' = cur /\ pc' = pc
    BY <1>2 DEF zmodemVars, receiver, sender, Coming
  <2>2. Ordered'
    BY <2>1, SameRowOpen DEF DataOrdered
  <2> QED BY <2>1, <2>2 DEF DataOrdered, SenderSteps, CountedIsWhole, Whole
<1> QED BY <1>1, <1>2, FarSideOrdered DEF ZmodemNext

-----------------------------------------------------------------------------
(***************************************************************************)
(* The rows of the transfer list and the files they are of.                *)
(***************************************************************************)
Done(r, f) ==
  \E i \in 1..Len(rows) : rows[i].run = r /\ rows[i].file = f /\ rows[i].state = "done"

RowsAgree == \A i \in 1..Len(rows) :
  rows[i].run <= sz.run /\ (rows[i].run = sz.run => rows[i].file <= sz.file)

(* Rows keep what they are of, and what is done stays done. *)
LEMMA RowsStay ==
  ASSUME ZmodemTypeOK, RowsAgree, sz' = sz,
         NEW n \in Nat, Len(rows') = n, Len(rows) <= n,
         \A i \in 1..Len(rows) :
           /\ rows'[i].run = rows[i].run /\ rows'[i].file = rows[i].file
           /\ rows[i].state = "done" => rows'[i].state = "done",
         \A i \in 1..n : i \notin 1..Len(rows) =>
           /\ rows'[i].run = sz.run /\ rows'[i].file <= sz.file /\ rows'[i].state # "done"
  PROVE  /\ RowsAgree' /\ \A r, f : Done(r, f) => Done(r, f)'
         /\ (\A i \in 1..Len(rows) : rows'[i].state = "done" => rows[i].state = "done")
              => \A r, f : Done(r, f)' => Done(r, f)
<1>1. Len(rows) \in Nat /\ sz.run \in Nat
  BY SenderTypes, CountsAssumption DEF ZmodemTypeOK
<1>2. \A i \in 1..Len(rows) : i \in 1..n
  BY <1>1
<1>3. RowsAgree'
  <2>1. ASSUME NEW i \in 1..n
        PROVE  rows'[i].run <= sz.run /\ (rows'[i].run = sz.run => rows'[i].file <= sz.file)
    <3>1. CASE i \in 1..Len(rows)
      BY <3>1 DEF RowsAgree
    <3>2. CASE i \notin 1..Len(rows)
      BY <2>1, <3>2, <1>1
    <3> QED BY <3>1, <3>2
  <2> QED BY <2>1 DEF RowsAgree
<1>4. \A r, f : Done(r, f) => Done(r, f)'
  BY <1>2 DEF Done
<1>5. ASSUME \A i \in 1..Len(rows) : rows'[i].state = "done" => rows[i].state = "done",
             NEW r, NEW f, Done(r, f)'
      PROVE  Done(r, f)
  <2>1. PICK i \in 1..n : rows'[i].run = r /\ rows'[i].file = f /\ rows'[i].state = "done"
    BY <1>5 DEF Done
  <2>2. i \in 1..Len(rows)
    BY <2>1
  <2> QED BY <2>1, <2>2, <1>5 DEF Done
<1> QED BY <1>3, <1>4, <1>5

\* A file is counted: its end is taken, answered or not.
Counts == Header("ZEOF") /\ (OnZEOF \/ SendFails)

LEMMA SessionTaskRows ==
  ASSUME ZmodemTypes, TokensAgree, RowsAgree, SessionTask, sz' = sz
  PROVE  /\ RowsAgree' /\ \A r, f : Done(r, f) => Done(r, f)'
         /\ ~Counts => \A r, f : Done(r, f)' => Done(r, f)
         /\ Counts => \A r, f : Done(r, f)' =>
              Done(r, f) \/ (cur # 0 /\ r = rows[cur].run /\ f = rows[cur].file)
<1>0. /\ ZmodemTypeOK /\ RowsFit /\ rows \in Seq(Row) /\ cur \in 0..Len(rows)
      /\ Len(rows) \in Nat /\ Len(rows) <= Len(rows)
  BY TypeParts DEF ZmodemTypes, RowsFit
<1>a. ASSUME rows' = rows
      PROVE  RowsAgree' /\ \A r, f : Done(r, f) <=> Done(r, f)'
  BY <1>a DEF RowsAgree, Done
<1>1. ASSUME Header("ZFILE"), OpenRow(Head(buf))
      PROVE  RowsAgree' /\ \A r, f : Done(r, f) <=> Done(r, f)'
  <2>1. /\ Head(buf) \in Tokens /\ Head(buf) \in Named /\ Head(buf).kind = "ZFILE"
        /\ Coming[1] = Head(buf) /\ 1 \in 1..Len(Coming)
    BY <1>0, <1>1, HeadHolds, ComingFacts DEF Header
  <2>2. /\ Head(buf).run \in RunIds /\ Head(buf).file \in FileIds
        /\ Head(buf).run = sz.run /\ Head(buf).file <= sz.file
    BY <2>1 DEF TokensAgree, OfThisRun, Only, Tokens, Named
  <2>3. PICK e : e = [run |-> Head(buf).run, file |-> Head(buf).file,
                      data |-> <<>>, state |-> "running"]
    OBVIOUS
  <2>4. e.run = sz.run /\ e.file <= sz.file /\ e.state # "done"
    BY <2>2, <2>3
  <2>5. /\ Len(rows') = Len(rows) + 1 /\ rows'[Len(rows) + 1] = e
        /\ \A i \in 1..Len(rows) : rows'[i] = rows[i]
        /\ 1..Len(rows') = 1..Len(rows) \cup {Len(rows) + 1}
    BY <2>2, <2>3, <1>0, <1>1, RowAdded DEF OpenRow
  <2>6. Len(rows) + 1 \in Nat /\ Len(rows) <= Len(rows) + 1
    BY <1>0
  <2> QED BY <2>4, <2>5, <2>6, <1>0, RowsStay
<1>2. ASSUME buf # <<>>, Head(buf).kind = "sub", rows' = WriteChunk(Head(buf), rows)
      PROVE  RowsAgree' /\ \A r, f : Done(r, f) <=> Done(r, f)'
  <2>1. /\ Head(buf) \in Tokens /\ Head(buf) \in Named /\ Head(buf).kind = "sub"
        /\ rows' = WriteChunk(Head(buf), rows)
    BY <1>2, HeadHolds
  <2>2. /\ Len(rows') = Len(rows)
        /\ \A i \in 1..Len(rows) :
             /\ rows'[i].run = rows[i].run /\ rows'[i].file = rows[i].file
             /\ rows'[i].state = rows[i].state
    BY <2>1, <1>0, WriteFacts
  <2> QED BY <2>2, <1>0, RowsStay
<1>3. ASSUME CountFile
      PROVE  /\ RowsAgree' /\ \A r, f : Done(r, f) => Done(r, f)'
             /\ \A r, f : Done(r, f)' =>
                  Done(r, f) \/ (cur # 0 /\ r = rows[cur].run /\ f = rows[cur].file)
  <2>1. /\ Len(rows') = Len(rows)
        /\ \A i \in 1..Len(rows) :
             /\ rows'[i].run = rows[i].run /\ rows'[i].file = rows[i].file
             /\ rows'[i].state = IF i = cur THEN "done" ELSE rows[i].state
    BY <1>0, <1>3, CloseFacts DEF CountFile
  <2>2. RowsAgree' /\ \A r, f : Done(r, f) => Done(r, f)'
    BY <2>1, <1>0, RowsStay
  <2>3. \A i \in 1..Len(rows) : i # 0
    OBVIOUS
  <2>4. \A r, f : Done(r, f)' =>
          Done(r, f) \/ (cur # 0 /\ r = rows[cur].run /\ f = rows[cur].file)
    BY <2>1, <2>3 DEF Done
  <2> QED BY <2>2, <2>4
<1>4. ASSUME \/ \E n \in 1..Len(fromHost) : Fetch(n)
             \/ SkipGarbage \/ OnZRQINIT \/ OnZDATA \/ Peek \/ PeekTimesOut \/ OnZFIN
             \/ Drain \/ DrainEnds \/ SessionLoop \/ Bail
      PROVE  rows' = rows
  BY <1>4 DEF Fetch, SkipGarbage, OnZRQINIT, OnZDATA, Peek, PeekTimesOut, OnZFIN, Drain,
     DrainEnds, SessionLoop, ReadOutput, TwoSecondsPass, SessionEnds, Bail
<1>5. NothingToRead \/ SpoiltSubpacket \/ OnZABORT \/ DiskFails => Bail
  BY DEF NothingToRead, SpoiltSubpacket, OnZABORT, DiskFails
<1>6. /\ Header("ZFILE") => ~Header("ZEOF")
      /\ pc = "data" => ~Header("ZEOF")
      /\ Header("ZRQINIT") => ~Header("ZEOF")
  BY DEF Header
<1>7. rows' = rows =>
        /\ RowsAgree' /\ \A r, f : Done(r, f) => Done(r, f)'
        /\ \A r, f : Done(r, f)' => Done(r, f)
  BY <1>a
<1>8. CASE OnZFILE \/ OnSubpacket \/ OnZEOF \/ SendFails
  <2>1. CASE Header("ZEOF") /\ CountFile
    <3>1. Counts
      BY <1>6, <1>8, <2>1 DEF Counts, OnZFILE, OnSubpacket
    <3> QED BY <3>1, <1>3, <2>1
  <2>2. CASE Header("ZFILE") /\ OpenRow(Head(buf))
    BY <1>1, <1>6, <2>2 DEF Counts
  <2>3. CASE pc = "data" /\ buf # <<>> /\ Head(buf).kind = "sub" /\ rows' = WriteChunk(Head(buf), rows)
    BY <1>2, <1>6, <2>3 DEF Counts
  <2>4. CASE Header("ZRQINIT") /\ rows' = rows
    BY <1>6, <1>7, <2>4 DEF Counts
  <2> QED BY <1>8, <2>1, <2>2, <2>3, <2>4 DEF OnZFILE, OnSubpacket, OnZEOF, SendFails
<1>9. CASE rows' = rows
  BY <1>7, <1>9
<1> QED BY <1>4, <1>5, <1>8, <1>9 DEF SessionTask, Receive

LEMMA FarSideRows ==
  ASSUME ZmodemTypes, TokensAgree, RowsAgree, rows' = rows,
         \/ sz'.run = sz.run /\ sz'.file \in Nat /\ sz.file <= sz'.file
         \/ sz'.run = sz.run + 1
  PROVE  /\ RowsAgree' /\ \A r, f : Done(r, f) <=> Done(r, f)'
<1>1. sz.run \in Nat /\ sz.file \in Nat
  BY SenderNumbers
<1>2. ASSUME NEW i \in 1..Len(rows) PROVE rows[i].run \in Nat /\ rows[i].file \in Nat
  <2>1. rows[i] \in Row
    BY TypeParts DEF RowsFit
  <2>2. RunIds \subseteq Nat /\ FileIds \subseteq Nat
    BY FileTypes, CountsAssumption DEF RunIds
  <2> QED BY <2>1, <2>2 DEF Row
<1>3. RowsAgree'
  <2>1. ASSUME NEW i \in 1..Len(rows)
        PROVE  rows[i].run <= sz'.run /\ (rows[i].run = sz'.run => rows[i].file <= sz'.file)
    <3>1. /\ rows[i].run \in Nat /\ rows[i].file \in Nat /\ rows[i].run <= sz.run
          /\ rows[i].run = sz.run => rows[i].file <= sz.file
      BY <1>2 DEF RowsAgree
    <3> QED BY <3>1, <1>1
  <2> QED BY <2>1 DEF RowsAgree
<1> QED BY <1>3 DEF Done


-----------------------------------------------------------------------------
(***************************************************************************)
(* No file is passed over: what the answers under way let the sender do.   *)
(***************************************************************************)
Delivered(f) == Done(sz.run, f)
Writing == cur # 0 /\ rows[cur].run = sz.run /\ rows[cur].file = sz.file
Files == {t \in Tokens : t.kind = "ZFILE"}
OfTheFile == NewTokens(sz.file, {"ZFILE", "ZDATA", "sub", "ZEOF"})

\* The sender has said which file comes, and may be told to send it.
FileAsked == up /\ sz.stage = "file" =>
  /\ ~Then(toHost, "ZRPOS", "ZRINIT")
  /\ ~Doomed(toHost) =>
       /\ Only(Coming, {t \in Tokens : t.kind = "ZFILE" => t.file = sz.file})
       /\ ~Follows(Coming, Files, Tokens \ Files)
       /\ Has(toHost, "ZRPOS") =>
            /\ pc = "header" /\ Writing
            /\ Only(Coming, OfTheFile) /\ Only(Coming, Files)

\* The sender sends it, and may be told that it is delivered.
FileSent == up /\ sz.stage \in {"data", "eof"} =>
  /\ ~Then(toHost, "ZRINIT", "ZRPOS")
  /\ Delivered(sz.file) /\ ~Doomed(toHost) => ~Contains(Coming, Files)
  /\ ~Delivered(sz.file) => ~Has(toHost, "ZRINIT")
  /\ ~Delivered(sz.file) /\ ~Doomed(toHost) =>
       /\ pc \in {"header", "data"} /\ Writing
       /\ Only(Coming, OfTheFile) /\ ~Follows(Coming, Tokens \ Files, Files)

Starting == sz.stage = "init" =>
  /\ Only(toHost, {"ZRINIT", "CANCEL"})
  /\ pc \in {"shell", "header", "ended"} /\ (pc = "header" => cur = 0)

SentBefore ==
  /\ sz.stage \in {"file", "data", "eof"} => \A f \in 1..(sz.file - 1) : Delivered(f)
  /\ sz.stage = "fin" => \A f \in 1..FilesOf[sz.run] : Delivered(f)
  /\ sz.stage = "file" => ~Delivered(sz.file)

AllSent == \A r \in RunIds : exit[r] = "ok" => \A f \in 1..FilesOf[r] : Done(r, f)

SentKept == RowsAgree /\ AllSent /\ SentBefore /\ Starting /\ FileAsked /\ FileSent

(* Answers that tell the sender nothing it might mistake. *)
Quiet(h, x) ==
  /\ Doomed(h) => Doomed(x)
  /\ Has(x, "ZRPOS") => Has(h, "ZRPOS")
  /\ Has(x, "ZRINIT") => Has(h, "ZRINIT") \/ ~Doomed(h)
  /\ Then(x, "ZRPOS", "ZRINIT") => Then(h, "ZRPOS", "ZRINIT") \/ (Has(h, "ZRPOS") /\ ~Doomed(h))
  /\ Then(x, "ZRINIT", "ZRPOS") => Then(h, "ZRINIT", "ZRPOS")

QuietAnswers(h) ==
  {h, Append(h, "ZRINIT"), Append(h, "ZACK"), Append(h, "CANCEL"),
   Append(Append(h, "ZRINIT"), "ZFIN")}

LEMMA QuietOnes ==
  ASSUME NEW h \in Seq(Replies), NEW x \in QuietAnswers(h)
  PROVE  Quiet(h, x)
<1>1. {"ZRINIT", "ZACK", "CANCEL", "ZFIN", "ZRPOS"} \subseteq Replies
  BY DEF Replies
<1>2. CASE x = h
  BY <1>2 DEF Quiet
<1>3. ASSUME NEW g \in Seq(Replies), NEW e \in Replies, e # "ZRPOS", Quiet(h, g),
             e = "ZRINIT" => g = h
      PROVE  Quiet(h, Append(g, e))
  <2>1. Doomed(Append(g, e)) <=> Doomed(g) \/ e \in Killers
    BY OneMoreReply
  <2>2. \A k \in {"ZRPOS", "ZRINIT"} :
          Has(Append(g, e), k) <=> Has(g, k) \/ (~Doomed(g) /\ e = k)
    BY OneMoreReply
  <2>3. \A j, k \in {"ZRPOS", "ZRINIT"} :
          Then(Append(g, e), j, k) <=> Then(g, j, k) \/ (Has(g, j) /\ ~Doomed(g) /\ e = k)
    BY OneMoreReply
  <2> QED BY <2>1, <2>2, <2>3, <1>3 DEF Quiet
<1>4. Quiet(h, h)
  BY DEF Quiet
<1>5. ASSUME NEW e \in {"ZRINIT", "ZACK", "CANCEL"} PROVE Quiet(h, Append(h, e))
  BY <1>1, <1>3, <1>4
<1>6. Append(h, "ZRINIT") \in Seq(Replies)
  BY <1>1, OneMore
<1>7. Quiet(h, Append(Append(h, "ZRINIT"), "ZFIN"))
  BY <1>1, <1>3, <1>5, <1>6
<1> QED BY <1>2, <1>5, <1>7 DEF QuietAnswers

(* What the session task answers. *)
LEMMA SessionAnswers ==
  ASSUME ZmodemTypes, SessionTask, up
  PROVE  /\ toHost \in Seq(Replies)
         /\ toHost' \in QuietAnswers(toHost) \/ (OnZFILE /\ toHost' = Append(toHost, "ZRPOS"))
         /\ ~OnZFILE => toHost' \in QuietAnswers(toHost)
<1>0. /\ ZmodemTypeOK /\ toHost \in Seq(Replies)
      /\ {"ZRINIT", "ZACK", "CANCEL", "ZFIN", "ZRPOS"} \subseteq Replies
  BY DEF ZmodemTypes, ZmodemTypeOK, Replies
<1>1. ASSUME \/ \E n \in 1..Len(fromHost) : Fetch(n)
             \/ SkipGarbage \/ OnZDATA \/ Drain \/ DrainEnds \/ SessionLoop
      PROVE  toHost' = toHost
  BY <1>1 DEF Fetch, SkipGarbage, OnZDATA, Drain, DrainEnds,
     SessionLoop, ReadOutput, TwoSecondsPass, SessionEnds
<1>2. ASSUME NothingToRead \/ SpoiltSubpacket \/ OnZABORT \/ DiskFails
      PROVE  toHost' = Append(toHost, "CANCEL")
  <2>1. send_hex(<<"CANCEL">>)
    BY <1>2 DEF NothingToRead, SpoiltSubpacket, OnZABORT, DiskFails, Bail
  <2> QED BY <2>1, <1>0, SendsOne
<1>3. ASSUME OnZRQINIT \/ OnZEOF PROVE toHost' = Append(toHost, "ZRINIT")
  <2>1. send_hex(<<"ZRINIT">>)
    BY <1>3 DEF OnZRQINIT, OnZEOF
  <2> QED BY <2>1, <1>0, SendsOne
<1>4. ASSUME OnZFILE PROVE toHost' = Append(toHost, "ZRPOS")
  <2>1. send_hex(<<"ZRPOS">>)
    BY <1>4 DEF OnZFILE
  <2> QED BY <2>1, <1>0, SendsOne
<1>5. ASSUME OnSubpacket PROVE toHost' \in {toHost, Append(toHost, "ZACK")}
  <2>1. send_hex(<<"ZACK">>) \/ send_hex(<<>>)
    BY <1>5 DEF OnSubpacket
  <2> QED BY <2>1, <1>0, SendsOne, SendsNone
<1>6. ASSUME NEW rest \in Seq(Tokens), GoodBye(rest)
      PROVE  toHost' \in {toHost, Append(Append(toHost, "ZRINIT"), "ZFIN")}
  BY <1>0, <1>6, GoodByeFacts
<1>7. ASSUME Peek \/ PeekTimesOut \/ OnZFIN
      PROVE  toHost' \in {toHost, Append(Append(toHost, "ZRINIT"), "ZFIN")}
  <2>1. CASE PeekTimesOut
    <3>1. <<>> \in Seq(Tokens) /\ GoodBye(<<>>)
      BY <2>1 DEF PeekTimesOut
    <3> QED BY <3>1, <1>6
  <2>2. CASE Peek \/ OnZFIN
    <3>1. buf # <<>> /\ (toHost' = toHost \/ GoodBye(Tail(buf)))
      BY <2>2 DEF Peek, OnZFIN, Header
    <3> QED BY <3>1, <1>6, HeadHolds
  <2> QED BY <1>7, <2>1, <2>2
<1>8. /\ toHost \in QuietAnswers(toHost)
      /\ \A e \in {"ZRINIT", "ZACK", "CANCEL"} : Append(toHost, e) \in QuietAnswers(toHost)
      /\ Append(Append(toHost, "ZRINIT"), "ZFIN") \in QuietAnswers(toHost)
  BY DEF QuietAnswers
<1>9. ~SendFails
  BY DEF SendFails
<1> QED BY <1>0, <1>1, <1>2, <1>3, <1>4, <1>5, <1>7, <1>8, <1>9 DEF SessionTask, Receive


\* The sender relies on the row that is open.
Busy ==
  /\ up /\ ~Doomed(toHost)
  /\ \/ sz.stage = "file" /\ Has(toHost, "ZRPOS")
     \/ sz.stage \in {"data", "eof"} /\ ~Delivered(sz.file)

LEMMA BusyMeans ==
  ASSUME Busy, FileAsked, FileSent
  PROVE  /\ pc \in {"header", "data"} /\ Writing /\ cur # 0 /\ Only(Coming, OfTheFile)
         /\ sz.stage \in {"file", "data", "eof"} /\ up /\ ~Doomed(toHost)
         /\ sz.stage = "file" => pc = "header" /\ Only(Coming, Files)
         /\ sz.stage # "file" => ~Delivered(sz.file) /\ ~Follows(Coming, Tokens \ Files, Files)
  BY DEF Busy, FileAsked, FileSent, Writing

(* What holds of all that is coming holds of the rest of it. *)
LEMMA RestHolds ==
  ASSUME ZmodemTypes, NEW k \in 0..Len(Coming), Coming' = Behind(Coming, k), sz' = sz
  PROVE  /\ \A X : Only(Coming, X) => Only(Coming', X)
         /\ \A X : Contains(Coming', X) => Contains(Coming, X)
         /\ \A X, Y : Follows(Coming', X, Y) => Follows(Coming, X, Y)
         /\ OfTheFile' = OfTheFile /\ Files' = Files
<1>1. Coming \in Seq(Tokens)
  BY ComingFacts DEF ZmodemTypes
<1>2. /\ \A X : Only(Coming, X) => Only(Coming', X)
      /\ \A X : Contains(Coming', X) => Contains(Coming, X)
      /\ \A X, Y : Follows(Coming', X, Y) => Follows(Coming, X, Y)
  BY <1>1, BehindHolds
<1>3. OfTheFile' = OfTheFile /\ Files' = Files
  BY DEF OfTheFile, NewTokens, Files
<1> QED BY <1>2, <1>3

LEMMA QuietStep ==
  ASSUME ZmodemTypes, FileAsked, FileSent, sz' = sz, up' = up, toHost \in Seq(Replies),
         NEW k \in 0..Len(Coming), Coming' = Behind(Coming, k),
         Quiet(toHost, toHost'), ~Busy \/ toHost' = Append(toHost, "CANCEL"),
         Delivered(sz.file) => Delivered(sz.file)'
  PROVE  FileAsked' /\ FileSent'
<1>1. /\ \A X : Only(Coming, X) => Only(Coming', X)
      /\ \A X : Contains(Coming', X) => Contains(Coming, X)
      /\ \A X, Y : Follows(Coming', X, Y) => Follows(Coming, X, Y)
  BY RestHolds
<1>2. ASSUME toHost' = Append(toHost, "CANCEL")
      PROVE  /\ Doomed(toHost')
             /\ \A j \in {"ZRPOS", "ZRINIT"} : Has(toHost', j) <=> Has(toHost, j)
             /\ \A j, k_1 \in {"ZRPOS", "ZRINIT"} :
                  Then(toHost', j, k_1) <=> Then(toHost, j, k_1)
  <2>1. "CANCEL" \in Replies /\ "CANCEL" \in Killers
    BY DEF Replies, Killers
  <2>2. PICK x : x = Append(toHost, "CANCEL")
    OBVIOUS
  <2>3. Doomed(x)
    BY <2>1, <2>2, OneMoreReply
  <2>4. \A j \in {"ZRPOS", "ZRINIT"} : Has(x, j) <=> Has(toHost, j)
    BY <2>1, <2>2, OneMoreReply
  <2>5. \A j, l \in {"ZRPOS", "ZRINIT"} : Then(x, j, l) <=> Then(toHost, j, l)
    BY <2>1, <2>2, OneMoreReply
  <2> QED BY <1>2, <2>2, <2>3, <2>4, <2>5
<1>3. ASSUME up, sz.stage = "file" PROVE FileAsked'
  <2>1. ~Then(toHost', "ZRPOS", "ZRINIT")
    <3>1. CASE toHost' = Append(toHost, "CANCEL")
      BY <3>1, <1>2, <1>3 DEF FileAsked
    <3>2. CASE ~Busy
      BY <3>2, <1>3 DEF Busy, FileAsked, Quiet
    <3> QED BY <3>1, <3>2
  <2>2. ASSUME ~Doomed(toHost') PROVE ~Has(toHost', "ZRPOS") /\ ~Doomed(toHost)
    BY <2>2, <1>2, <1>3 DEF Busy, Quiet
  <2>3. ASSUME ~Doomed(toHost')
        PROVE  /\ Only(Coming', {t \in Tokens : t.kind = "ZFILE" => t.file = sz.file})
               /\ ~Follows(Coming', Files, Tokens \ Files)
    BY <2>2, <2>3, <1>1, <1>3 DEF FileAsked
  <2> QED BY <2>1, <2>2, <2>3 DEF FileAsked, Files
<1>4. ASSUME up, sz.stage \in {"data", "eof"} PROVE FileSent'
  <2>1. ~Then(toHost', "ZRINIT", "ZRPOS")
    BY <1>4 DEF FileSent, Quiet
  <2>2. CASE Delivered(sz.file)
    <3>1. Delivered(sz.file)' /\ (~Doomed(toHost') => ~Doomed(toHost))
      BY <2>2 DEF Quiet
    <3>2. ~Doomed(toHost') => ~Contains(Coming', Files)
      BY <3>1, <2>2, <1>1, <1>4 DEF FileSent
    <3> QED BY <3>1, <3>2, <2>1 DEF FileSent, Files
  <2>3. CASE ~Delivered(sz.file)
    <3>1. Doomed(toHost')
      BY <2>3, <1>2, <1>4 DEF Busy, Quiet
    <3>2. ~Has(toHost', "ZRINIT")
      <4>1. CASE toHost' = Append(toHost, "CANCEL")
        BY <4>1, <2>3, <1>2, <1>4 DEF FileSent
      <4>2. CASE ~Busy
        BY <4>2, <2>3, <1>4 DEF Busy, FileSent, Quiet
      <4> QED BY <4>1, <4>2
    <3> QED BY <2>1, <3>1, <3>2 DEF FileSent
  <2> QED BY <2>2, <2>3
<1>5. ~(up /\ sz.stage = "file") => FileAsked'
  BY DEF FileAsked
<1>6. ~(up /\ sz.stage \in {"data", "eof"}) => FileSent'
  BY DEF FileSent
<1> QED BY <1>3, <1>4, <1>5, <1>6

LEMMA BusyStep ==
  ASSUME ZmodemTypes, FileAsked, FileSent, Busy, sz' = sz, up' = up, toHost \in Seq(Replies),
         NEW k \in 0..Len(Coming), Coming' = Behind(Coming, k),
         toHost' = toHost \/ toHost' = Append(toHost, "ZACK"),
         pc' \in {"header", "data"}, sz.stage = "file" => pc' = "header", Writing',
         Delivered(sz.file)' => Delivered(sz.file)
  PROVE  FileAsked' /\ FileSent'
<1>1. /\ \A X : Only(Coming, X) => Only(Coming', X)
      /\ \A X : Contains(Coming', X) => Contains(Coming, X)
      /\ \A X, Y : Follows(Coming', X, Y) => Follows(Coming, X, Y)
      /\ OfTheFile' = OfTheFile /\ Files' = Files
  BY RestHolds
<1>2. /\ Doomed(toHost') <=> Doomed(toHost)
      /\ \A j \in {"ZRPOS", "ZRINIT"} : Has(toHost', j) <=> Has(toHost, j)
      /\ \A j, l \in {"ZRPOS", "ZRINIT"} : Then(toHost', j, l) <=> Then(toHost, j, l)
  <2>1. "ZACK" \in Replies /\ "ZACK" \notin Killers
    BY DEF Replies, Killers
  <2>2. PICK x : x = Append(toHost, "ZACK")
    OBVIOUS
  <2>3. /\ Doomed(x) <=> Doomed(toHost)
        /\ \A j \in {"ZRPOS", "ZRINIT"} : Has(x, j) <=> Has(toHost, j)
        /\ \A j, l \in {"ZRPOS", "ZRINIT"} : Then(x, j, l) <=> Then(toHost, j, l)
    <3>1. Doomed(x) <=> Doomed(toHost)
      BY <2>1, <2>2, OneMoreReply
    <3>2. \A j \in {"ZRPOS", "ZRINIT"} : Has(x, j) <=> Has(toHost, j)
      BY <2>1, <2>2, OneMoreReply
    <3>3. \A j, l \in {"ZRPOS", "ZRINIT"} : Then(x, j, l) <=> Then(toHost, j, l)
      BY <2>1, <2>2, OneMoreReply
    <3> QED BY <3>1, <3>2, <3>3
  <2>4. toHost' = toHost \/ toHost' = x
    BY <2>2
  <2> QED BY <2>3, <2>4
<1>3. /\ sz.stage \in {"file", "data", "eof"} /\ up /\ ~Doomed(toHost)
      /\ Only(Coming, OfTheFile) /\ (sz.stage = "file" => Only(Coming, Files))
      /\ sz.stage # "file" => ~Delivered(sz.file) /\ ~Follows(Coming, Tokens \ Files, Files)
  BY BusyMeans
<1>4. CASE sz.stage = "file"
  <2>1. ~Then(toHost', "ZRPOS", "ZRINIT")
    BY <1>2, <1>3, <1>4 DEF FileAsked
  <2>2. /\ Only(Coming', {t \in Tokens : t.kind = "ZFILE" => t.file = sz.file})
        /\ ~Follows(Coming', Files, Tokens \ Files)
    BY <1>1, <1>3, <1>4 DEF FileAsked
  <2>3. Only(Coming', OfTheFile) /\ Only(Coming', Files)
    BY <1>1, <1>3, <1>4
  <2>4. FileAsked'
    BY <2>1, <2>2, <2>3, <1>1, <1>4 DEF FileAsked
  <2> QED BY <2>4, <1>4 DEF FileSent
<1>5. CASE sz.stage \in {"data", "eof"}
  <2>1. ~Then(toHost', "ZRINIT", "ZRPOS") /\ ~Has(toHost', "ZRINIT")
    BY <1>2, <1>3, <1>5 DEF FileSent
  <2>2. Only(Coming', OfTheFile) /\ ~Follows(Coming', Tokens \ Files, Files)
    BY <1>1, <1>3, <1>5
  <2>3. ~Delivered(sz.file)'
    BY <1>3, <1>5
  <2>4. FileSent'
    BY <2>1, <2>2, <2>3, <1>1, <1>5 DEF FileSent
  <2> QED BY <2>4, <1>5 DEF FileAsked
<1> QED BY <1>3, <1>4, <1>5


LEMMA FirstFits ==
  ASSUME ZmodemTypes, Ordered, buf # <<>>
  PROVE  \E a, c \in Places : FitsRow(a) /\ Carries(a, Head(buf), c, restarted)
<1>1. PICK a, b \in Places : FitsRow(a) /\ FitsSz(b) /\ Chain(Coming, a, b, restarted)
  BY DEF Ordered
<1>2. Coming \in Seq(Tokens) /\ 1 \in 0..Len(Coming) /\ Coming[1] = Head(buf) /\ Len(Coming) >= 1
  BY ComingFacts, HeadHolds DEF ZmodemTypes
<1>3. PICK c \in Places : Carries(a, Coming[1], c, restarted)
  BY <1>1, <1>2, ChainLess
<1> QED BY <1>1, <1>2, <1>3

LEMMA EofOfRow ==
  ASSUME ZmodemTypes, Ordered, Header("ZEOF")
  PROVE  /\ Head(buf) \in Tokens /\ Head(buf).kind = "ZEOF"
         /\ cur # 0 => rows[cur].run = sz.run /\ rows[cur].file = Head(buf).file
<1>1. buf # <<>> /\ Head(buf).kind = "ZEOF" /\ pc = "header"
  BY DEF Header
<1>2. PICK a, c \in Places : FitsRow(a) /\ Carries(a, Head(buf), c, restarted)
  BY <1>1, FirstFits
<1>3. a.file = Head(buf).file
  BY <1>1, <1>2 DEF Carries
<1> QED BY <1>1, <1>2, <1>3, HeadHolds DEF FitsRow

(* The token that comes first is of this run, and what is behind it stays. *)
LEMMA TakesHead ==
  ASSUME ZmodemTypes, TokensAgree, buf # <<>>, buf' = Tail(buf), fromHost' = fromHost
  PROVE  /\ Coming \in Seq(Tokens) /\ Len(Coming) >= 1 /\ 1 \in 0..Len(Coming)
         /\ Coming' = Behind(Coming, 1) /\ Coming[1] = Head(buf)
         /\ Head(buf) \in Tokens /\ Head(buf).run = sz.run
         /\ \A X : Only(Coming, X) => Head(buf) \in X
<1>1. /\ Coming \in Seq(Tokens) /\ Len(Coming) >= 1 /\ 1 \in 0..Len(Coming)
      /\ Coming' = Behind(Coming, 1) /\ Coming[1] = Head(buf) /\ Head(buf) \in Tokens
  BY ComingFacts, HeadHolds, TakesOne DEF ZmodemTypes
<1>2. \A X : Only(Coming, X) => Head(buf) \in X
  BY <1>1, OnlyFirst
<1>3. Head(buf).run = sz.run
  BY <1>2 DEF TokensAgree, OfThisRun
<1> QED BY <1>1, <1>2, <1>3

LEMMA FileOpened ==
  ASSUME ZmodemTypes, TokensAgree, RowsAgree, FileAsked, FileSent, OnZFILE, up, sz' = sz,
         SessionTask
  PROVE  FileAsked' /\ FileSent'
<1>0. /\ Header("ZFILE") /\ buf # <<>> /\ buf' = Tail(buf) /\ fromHost' = fromHost
      /\ pc = "header" /\ pc' = "header" /\ Head(buf).kind = "ZFILE" /\ up'
  BY DEF OnZFILE, Header
<1>1. /\ Coming \in Seq(Tokens) /\ Len(Coming) >= 1 /\ 1 \in 0..Len(Coming)
      /\ Coming' = Behind(Coming, 1) /\ Coming[1] = Head(buf)
      /\ Head(buf) \in Tokens /\ Head(buf).run = sz.run
      /\ \A X : Only(Coming, X) => Head(buf) \in X
  BY <1>0, TakesHead
<1>2. /\ \A X : Only(Coming, X) => Only(Coming', X)
      /\ \A X : Contains(Coming', X) => Contains(Coming, X)
      /\ \A X, Y : Follows(Coming', X, Y) => Follows(Coming, X, Y)
      /\ OfTheFile' = OfTheFile /\ Files' = Files
  BY <1>1, RestHolds
<1>3. Coming[1] \in Files /\ 1 \in 1..Len(Coming)
  BY <1>0, <1>1 DEF Files
<1>4. ASSUME Head(buf).file = sz.file PROVE Writing'
  <2>1. /\ Head(buf).run \in RunIds /\ Head(buf).file \in FileIds /\ RowsFit
    BY <1>0, HeadHolds, TypeParts DEF Tokens, Named
  <2>2. PICK e : e = [run |-> Head(buf).run, file |-> Head(buf).file,
                      data |-> <<>>, state |-> "running"]
    OBVIOUS
  <2>3. e.run = sz.run /\ e.file = sz.file
    BY <2>2, <1>1, <1>4
  <2>4. Len(rows') = Len(rows) + 1 /\ rows'[Len(rows) + 1] = e /\ Len(rows) \in Nat
    BY <2>1, <2>2, RowAdded DEF OnZFILE, OpenRow
  <2>5. cur' = Len(rows) + 1 /\ cur' # 0
    BY <2>4 DEF OnZFILE
  <2> QED BY <2>3, <2>4, <2>5 DEF Writing
<1>5. PICK x : x = Append(toHost, "ZRPOS")
  OBVIOUS
<1>6. /\ toHost' = x /\ (Doomed(x) <=> Doomed(toHost))
      /\ Has(x, "ZRINIT") <=> Has(toHost, "ZRINIT")
      /\ Then(x, "ZRPOS", "ZRINIT") <=> Then(toHost, "ZRPOS", "ZRINIT")
      /\ Then(x, "ZRINIT", "ZRPOS") <=>
           Then(toHost, "ZRINIT", "ZRPOS") \/ (Has(toHost, "ZRINIT") /\ ~Doomed(toHost))
  <2>1. toHost \in Seq(Replies) /\ "ZRPOS" \in Replies /\ "ZRPOS" \notin Killers
    BY TypeParts DEF LineFits, Replies, Killers
  <2>2. send_hex(<<"ZRPOS">>) /\ ZmodemTypeOK
    BY DEF OnZFILE, ZmodemTypes
  <2>3. toHost' = x
    BY <1>5, <2>1, <2>2, SendsOne
  <2> QED BY <1>5, <2>1, <2>3, OneMoreReply
<1>7. Delivered(sz.file)' <=> Delivered(sz.file)
  <2>1. ~Counts
    BY <1>0 DEF Counts, Header
  <2> QED BY <2>1, SessionTaskRows DEF Delivered
<1>8. CASE sz.stage = "file"
  <2>1. ~Then(toHost', "ZRPOS", "ZRINIT")
    BY <1>6, <1>8 DEF FileAsked
  <2>2. ASSUME ~Doomed(toHost')
        PROVE  /\ Only(Coming', {t \in Tokens : t.kind = "ZFILE" => t.file = sz.file})
               /\ ~Follows(Coming', Files, Tokens \ Files)
               /\ Writing' /\ Only(Coming', OfTheFile) /\ Only(Coming', Files)
    <3>1. /\ Only(Coming, {t \in Tokens : t.kind = "ZFILE" => t.file = sz.file})
          /\ ~Follows(Coming, Files, Tokens \ Files)
      BY <2>2, <1>6, <1>8 DEF FileAsked
    <3>2. Writing'
      BY <3>1, <1>0, <1>1, <1>4
    <3>3. Only(Coming', Tokens \ (Tokens \ Files))
      BY <3>1, <1>1, <1>3, BehindTheFirst
    <3>4. Only(Coming', Files)
      BY <3>3 DEF Only
    <3>5. /\ Only(Coming', {t \in Tokens : t.kind = "ZFILE" => t.file = sz.file})
          /\ Only(Coming', {t \in Tokens : t.run = sz.run /\ t.file <= sz.file})
      BY <3>1, <1>2 DEF TokensAgree, OfThisRun
    <3>6. Only(Coming', OfTheFile)
      BY <3>4, <3>5 DEF Only, OfTheFile, NewTokens, Files
    <3> QED BY <3>1, <3>2, <3>4, <3>5, <3>6, <1>2
  <2>3. FileAsked'
    BY <2>1, <2>2, <1>0, <1>2 DEF FileAsked
  <2> QED BY <2>3, <1>8 DEF FileSent
<1>9. CASE sz.stage \in {"data", "eof"}
  <2>1. ~Delivered(sz.file) => ~Has(toHost', "ZRINIT")
    BY <1>6, <1>9 DEF FileSent
  <2>2. CASE Doomed(toHost)
    <3>1. Doomed(toHost') /\ ~Then(toHost', "ZRINIT", "ZRPOS")
      BY <2>2, <1>6, <1>9 DEF FileSent
    <3>2. FileSent'
      BY <3>1, <2>1, <1>7 DEF FileSent
    <3> QED BY <3>2, <1>9 DEF FileAsked
  <2>3. CASE ~Doomed(toHost)
    <3>1. ~Delivered(sz.file)
      BY <2>3, <1>3, <1>9 DEF FileSent, Contains
    <3>2. Only(Coming, OfTheFile) /\ ~Follows(Coming, Tokens \ Files, Files) /\ ~Has(toHost, "ZRINIT")
      BY <3>1, <2>3, <1>9 DEF FileSent
    <3>3. Writing'
      BY <3>2, <1>1, <1>4 DEF OfTheFile, NewTokens
    <3>4. ~Then(toHost', "ZRINIT", "ZRPOS")
      BY <3>2, <1>6, <1>9 DEF FileSent
    <3>5. FileSent'
      BY <3>1, <3>2, <3>3, <3>4, <2>1, <1>0, <1>2, <1>7 DEF FileSent
    <3> QED BY <3>5, <1>9 DEF FileAsked
  <2> QED BY <2>2, <2>3
<1> QED BY <1>8, <1>9 DEF FileAsked, FileSent

LEMMA FileClosed ==
  ASSUME ZmodemTypes, TokensAgree, RowsAgree, Ordered, FileAsked, FileSent, Busy, OnZEOF,
         sz' = sz, SessionTask
  PROVE  FileAsked' /\ FileSent'
<1>0. /\ buf # <<>> /\ buf' = Tail(buf) /\ fromHost' = fromHost /\ up' = up
      /\ Head(buf).kind = "ZEOF"
  BY DEF OnZEOF, Header
<1>1. /\ Coming \in Seq(Tokens) /\ Len(Coming) >= 1 /\ 1 \in 0..Len(Coming)
      /\ Coming' = Behind(Coming, 1) /\ Coming[1] = Head(buf) /\ Head(buf) \in Tokens
      /\ \A X : Only(Coming, X) => Head(buf) \in X
  BY <1>0, TakesHead
<1>2. /\ Writing /\ cur # 0 /\ up /\ ~Doomed(toHost) /\ sz.stage \in {"file", "data", "eof"}
      /\ sz.stage = "file" => Only(Coming, Files)
      /\ sz.stage # "file" => ~Delivered(sz.file) /\ ~Follows(Coming, Tokens \ Files, Files)
  BY BusyMeans
<1>3. sz.stage \in {"data", "eof"}
  BY <1>0, <1>1, <1>2 DEF Files
<1>4. ~Contains(Coming', Files)
  <2>1. Coming[1] \in Tokens \ Files
    BY <1>0, <1>1 DEF Files
  <2> QED BY <2>1, <1>1, <1>2, <1>3, BehindTheFirst
<1>5. Delivered(sz.file)'
  <2>1. rows \in Seq(Row) /\ cur \in 1..Len(rows)
    BY <1>2, TypeParts DEF RowsFit
  <2>2. /\ Len(rows') = Len(rows)
        /\ \A i \in 1..Len(rows) :
             /\ rows'[i].run = rows[i].run /\ rows'[i].file = rows[i].file
             /\ rows'[i].state = IF i = cur THEN "done" ELSE rows[i].state
    BY TypeParts, CloseFacts DEF OnZEOF, CountFile, RowsFit
  <2>3. cur \in 1..Len(rows') /\ rows'[cur].run = sz.run /\ rows'[cur].file = sz.file
        /\ rows'[cur].state = "done"
    BY <2>1, <2>2, <1>2 DEF Writing
  <2> QED BY <2>3 DEF Delivered, Done
<1>6. ~Then(toHost', "ZRINIT", "ZRPOS")
  <2>1. toHost \in Seq(Replies) /\ "ZRINIT" \in Replies /\ send_hex(<<"ZRINIT">>) /\ ZmodemTypeOK
    BY TypeParts DEF LineFits, Replies, OnZEOF, ZmodemTypes
  <2>2. toHost' = Append(toHost, "ZRINIT")
    BY <2>1, <1>2, SendsOne
  <2>3. ~Then(toHost, "ZRINIT", "ZRPOS")
    BY <1>2, <1>3 DEF FileSent
  <2> QED BY <2>1, <2>2, <2>3, OneMoreReply
<1>7. FileSent'
  BY <1>4, <1>5, <1>6 DEF FileSent, Files
<1> QED BY <1>3, <1>7 DEF FileAsked


LEMMA SessionTaskAsks ==
  ASSUME ZmodemTypes, AtRest, TokensAgree, RowsAgree, Ordered, FileAsked, FileSent,
         SessionTask, sz' = sz, up' = up
  PROVE  FileAsked' /\ FileSent'
<1>0. ZmodemTypeOK /\ toHost \in Seq(Replies)
  BY TypeParts DEF LineFits, ZmodemTypes
<1>1. CASE ~up
  BY <1>1 DEF FileAsked, FileSent
<1>2. CASE up /\ OnZFILE
  BY <1>2, FileOpened
<1>3. CASE up /\ OnZEOF /\ Busy
  BY <1>3, FileClosed
<1>4. PICK k \in 0..Len(Coming) : Coming' = Behind(Coming, k)
  BY SessionTaskMoves DEF Moved
<1>5. \A r, f : Done(r, f) => Done(r, f)'
  BY SessionTaskRows
<1>6. Delivered(sz.file) => Delivered(sz.file)'
  BY <1>5 DEF Delivered
<1>7. CASE up /\ ~OnZFILE /\ (~Busy \/ toHost' = Append(toHost, "CANCEL"))
  <2>1. Quiet(toHost, toHost')
    BY <1>7, SessionAnswers, QuietOnes
  <2> QED BY <2>1, <1>0, <1>4, <1>6, <1>7, QuietStep
<1>8. CASE up /\ ~OnZFILE /\ ~OnZEOF /\ Busy /\ toHost' # Append(toHost, "CANCEL")
  <2>1. /\ pc \in {"header", "data"} /\ Writing /\ cur # 0 /\ Only(Coming, OfTheFile)
        /\ sz.stage = "file" => pc = "header" /\ Only(Coming, Files)
    BY <1>8, BusyMeans
  <2>2. Delivered(sz.file)' => Delivered(sz.file)
    BY <1>8, SessionTaskRows DEF Delivered, Counts, SendFails
  <2>3. ASSUME buf # <<>>, buf' = Tail(buf), fromHost' = fromHost
        PROVE  /\ Head(buf).kind \in {"ZFILE", "ZDATA", "sub", "ZEOF"}
               /\ sz.stage = "file" => Head(buf).kind = "ZFILE"
               /\ 1 \in 0..Len(Coming) /\ Coming' = Behind(Coming, 1)
               /\ Head(buf) \in Tokens
    <3>1. /\ \A X : Only(Coming, X) => Head(buf) \in X
          /\ 1 \in 0..Len(Coming) /\ Coming' = Behind(Coming, 1) /\ Head(buf) \in Tokens
      BY <2>3, TakesHead
    <3> QED BY <3>1, <2>1 DEF OfTheFile, NewTokens, Files
  <2>4. ASSUME buf # <<>>
        PROVE  Head(buf).kind \in {"ZFILE", "ZDATA", "sub", "ZEOF"}
    <3>1. Coming \in Seq(Tokens) /\ Len(Coming) >= 1 /\ Coming[1] = Head(buf)
      BY <2>4, <1>0, HeadHolds, ComingFacts
    <3>2. Head(buf) \in OfTheFile
      BY <3>1, <2>1, OnlyFirst
    <3> QED BY <3>2 DEF OfTheFile, NewTokens
  <2>5. ASSUME NEW n \in 1..Len(fromHost), Fetch(n) PROVE FileAsked' /\ FileSent'
    <3>1. /\ pc' = pc /\ cur' = cur /\ rows' = rows /\ toHost' = toHost /\ buf = <<>>
          /\ Reads(n) /\ buf' = SubSeq(fromHost, 1, n)
      BY <2>5 DEF Fetch
    <3>2. Coming' = Coming
      BY <3>1, <1>0, TakesNone
    <3>3. Coming' = Behind(Coming, 0) /\ 0 \in 0..Len(Coming)
      BY <3>2, <1>0, ComingFacts, BehindFacts
    <3>4. Writing'
      BY <3>1, <2>1 DEF Writing
    <3> QED BY <3>1, <3>3, <3>4, <2>1, <2>2, <1>0, <1>8, BusyStep
  <2>6. ASSUME SkipGarbage PROVE FALSE
    <3>1. buf # <<>> /\ ~IsFrame(Head(buf)) /\ pc = "header"
      BY <2>1, <2>6 DEF SkipGarbage
    <3>2. Head(buf).kind = "sub"
      BY <3>1, <2>4 DEF IsFrame, Frames
    <3>3. PICK a, c \in Places : FitsRow(a) /\ Carries(a, Head(buf), c, restarted)
      BY <3>1, FirstFits
    <3>4. a.in = "data"
      BY <3>2, <3>3 DEF Carries
    <3> QED BY <3>1, <3>3, <3>4, <2>1 DEF FitsRow
  <2>7. ~OnZRQINIT /\ ~OnZFIN
    BY <2>4 DEF OnZRQINIT, OnZFIN, Header
  <2>8. ASSUME OnZDATA PROVE FileAsked' /\ FileSent'
    <3>1. /\ pc' = "data" /\ cur' = cur /\ rows' = rows /\ toHost' = toHost /\ buf # <<>>
          /\ buf' = Tail(buf) /\ fromHost' = fromHost /\ Head(buf).kind = "ZDATA"
      BY <2>8 DEF OnZDATA, Header
    <3>2. Writing'
      BY <3>1, <2>1 DEF Writing
    <3>3. sz.stage # "file" /\ 1 \in 0..Len(Coming) /\ Coming' = Behind(Coming, 1)
      BY <3>1, <2>3
    <3> QED BY <3>1, <3>2, <3>3, <2>2, <1>0, <1>8, BusyStep
  <2>9. ASSUME OnSubpacket PROVE FileAsked' /\ FileSent'
    <3>1. /\ pc = "data" /\ pc' \in {"header", "data"} /\ cur' = cur /\ buf # <<>>
          /\ buf' = Tail(buf) /\ fromHost' = fromHost
          /\ rows' = WriteChunk(Head(buf), rows)
          /\ send_hex(<<"ZACK">>) \/ send_hex(<<>>)
      BY <2>9 DEF OnSubpacket
    <3>2. "ZACK" \in Replies
      BY DEF Replies
    <3>3. toHost' = toHost \/ toHost' = Append(toHost, "ZACK")
      BY <3>1, <3>2, <1>0, SendsOne, SendsNone
    <3>4. sz.stage # "file" /\ 1 \in 0..Len(Coming) /\ Coming' = Behind(Coming, 1)
      BY <3>1, <2>1, <2>3
    <3>5. Writing'
      <4>1. /\ Head(buf) \in Tokens /\ Head(buf) \in Named /\ Head(buf).kind = "sub"
        BY <2>9, HeadHolds DEF OnSubpacket
      <4>2. RowsFit /\ cur \in 1..Len(rows)
        BY <2>1, TypeParts DEF RowsFit
      <4>3. rows'[cur].run = rows[cur].run /\ rows'[cur].file = rows[cur].file
        BY <4>1, <4>2, <3>1, WriteFacts
      <4> QED BY <4>3, <3>1, <2>1 DEF Writing
    <3> QED BY <3>1, <3>3, <3>4, <3>5, <2>2, <1>0, <1>8, BusyStep
  <2>10. ~Peek /\ ~PeekTimesOut /\ ~Drain /\ ~DrainEnds /\ ~SessionLoop
    BY <2>1 DEF Peek, PeekTimesOut, Drain, DrainEnds, SessionLoop, ReadOutput, TwoSecondsPass,
       SessionEnds
  <2>11. ~NothingToRead /\ ~SpoiltSubpacket /\ ~OnZABORT /\ ~DiskFails
    <3>1. "CANCEL" \in Replies
      BY DEF Replies
    <3>2. ~send_hex(<<"CANCEL">>)
      BY <3>1, <1>0, <1>8, SendsOne
    <3> QED BY <3>2 DEF NothingToRead, SpoiltSubpacket, OnZABORT, DiskFails, Bail
  <2>12. ~SendFails
    BY <1>8 DEF SendFails
  <2> QED BY <2>5, <2>6, <2>7, <2>8, <2>9, <2>10, <2>11, <2>12, <1>8 DEF SessionTask, Receive
<1> QED BY <1>1, <1>2, <1>3, <1>7, <1>8

(* Before the first file, no more than the session's start is answered. *)
LEMMA SessionTaskStarts ==
  ASSUME ZmodemTypes, AtRest, TokensAgree, Starting, SessionTask, sz' = sz
  PROVE  Starting'
<1> SUFFICES ASSUME sz.stage = "init"
             PROVE  /\ Only(toHost', {"ZRINIT", "CANCEL"})
                    /\ pc' \in {"shell", "header", "ended"} /\ (pc' = "header" => cur' = 0)
  BY DEF Starting
<1>0. /\ ZmodemTypeOK /\ toHost \in Seq(Replies) /\ Only(toHost, {"ZRINIT", "CANCEL"})
      /\ pc \in {"shell", "header", "ended"} /\ (pc = "header" => cur = 0)
      /\ {"ZRINIT", "CANCEL"} \subseteq Replies
  BY TypeParts DEF LineFits, ZmodemTypes, Starting, Replies
<1>1. ASSUME buf # <<>> PROVE Head(buf).kind = "ZRQINIT"
  <2>1. Coming \in Seq(Tokens) /\ Len(Coming) >= 1 /\ Coming[1] = Head(buf)
    BY <1>0, <1>1, HeadHolds, ComingFacts
  <2>2. Head(buf) \in {t \in Tokens : t.kind = "ZRQINIT"}
    BY <2>1, OnlyFirst DEF TokensAgree, AtFirst
  <2> QED BY <2>2
<1>2. ASSUME NEW e \in {"ZRINIT", "CANCEL"}, send_hex(<<e>>)
      PROVE  Only(toHost', {"ZRINIT", "CANCEL"})
  <2>1. toHost' = toHost \/ toHost' = Append(toHost, e)
    BY <1>0, <1>2, SendsOne
  <2>2. PICK x : x = Append(toHost, e)
    OBVIOUS
  <2>3. e \in Replies /\ e \in {"ZRINIT", "CANCEL"}
    BY <1>0
  <2>4. Only(x, {"ZRINIT", "CANCEL"})
    BY <2>2, <2>3, <1>0, OneMoreHolds
  <2> QED BY <2>1, <2>2, <2>4, <1>0
<1>3. ASSUME OnZRQINIT
      PROVE  /\ Only(toHost', {"ZRINIT", "CANCEL"})
             /\ pc' \in {"shell", "header", "ended"} /\ (pc' = "header" => cur' = 0)
  BY <1>0, <1>2, <1>3 DEF OnZRQINIT
<1>4. ASSUME Bail
      PROVE  /\ Only(toHost', {"ZRINIT", "CANCEL"})
             /\ pc' \in {"shell", "header", "ended"} /\ (pc' = "header" => cur' = 0)
  BY <1>2, <1>4 DEF Bail, Return
<1>5. NothingToRead \/ SpoiltSubpacket \/ OnZABORT \/ DiskFails => Bail
  BY DEF NothingToRead, SpoiltSubpacket, OnZABORT, DiskFails
<1>6. ~OnZFILE /\ ~OnZDATA /\ ~OnZEOF /\ ~OnZFIN
  BY <1>1 DEF OnZFILE, OnZDATA, OnZEOF, OnZFIN, Header
<1>7. ~OnSubpacket /\ ~Peek /\ ~PeekTimesOut /\ ~Drain /\ ~DrainEnds
  BY <1>0 DEF OnSubpacket, Peek, PeekTimesOut, Drain, DrainEnds
<1>8. ASSUME \/ \E n \in 1..Len(fromHost) : Fetch(n)
             \/ SkipGarbage \/ SessionLoop
      PROVE  /\ Only(toHost', {"ZRINIT", "CANCEL"})
             /\ pc' \in {"shell", "header", "ended"} /\ (pc' = "header" => cur' = 0)
  BY <1>0, <1>8 DEF Fetch, SkipGarbage, SessionLoop, ReadOutput, TwoSecondsPass, SessionEnds
<1>9. ASSUME SendFails
      PROVE  /\ Only(toHost', {"ZRINIT", "CANCEL"})
             /\ pc' \in {"shell", "header", "ended"} /\ (pc' = "header" => cur' = 0)
  BY <1>0, <1>9, SendFailsFacts
<1> QED BY <1>3, <1>4, <1>5, <1>6, <1>7, <1>8, <1>9 DEF SessionTask, Receive

LEMMA SessionTaskSends ==
  ASSUME ZmodemTypes, AtRest, TokensAgree, DataOrdered, SentKept, SessionTask
  PROVE  SentKept'
<1>1. sz' = sz /\ exit' = exit /\ up' = up
  BY SessionTaskMoves
<1>2. /\ RowsAgree' /\ \A r, f : Done(r, f) => Done(r, f)'
      /\ ~Counts => \A r, f : Done(r, f)' => Done(r, f)
      /\ Counts => \A r, f : Done(r, f)' =>
           Done(r, f) \/ (cur # 0 /\ r = rows[cur].run /\ f = rows[cur].file)
  BY <1>1, SessionTaskRows DEF SentKept
<1>3. FileAsked' /\ FileSent' /\ Starting'
  BY <1>1, SessionTaskAsks, SessionTaskStarts DEF SentKept, DataOrdered
<1>4. AllSent'
  BY <1>1, <1>2 DEF SentKept, AllSent
<1>5. ASSUME sz.stage = "file" PROVE ~Delivered(sz.file)'
  <2>1. ~Delivered(sz.file)
    BY <1>5 DEF SentKept, SentBefore
  <2>2. ASSUME Counts, cur # 0 PROVE rows[cur].file # sz.file
    <3>1. Header("ZEOF") /\ buf # <<>> /\ Head(buf).kind = "ZEOF"
      BY <2>2 DEF Counts, Header
    <3>a. Coming \in Seq(Tokens) /\ Len(Coming) >= 1 /\ Coming[1] = Head(buf)
      BY <3>1, HeadHolds, ComingFacts DEF ZmodemTypes
    <3>2. Head(buf) \in {t \in Tokens : t.file = sz.file => t.kind = "ZFILE"}
      BY <3>a, <1>5, OnlyFirst DEF TokensAgree, AtFirst
    <3>3. rows[cur].file = Head(buf).file
      BY <2>2, <3>1, EofOfRow DEF DataOrdered
    <3> QED BY <3>1, <3>2, <3>3
  <2> QED BY <2>1, <2>2, <1>1, <1>2 DEF Delivered
<1>6. SentBefore'
  BY <1>1, <1>2, <1>5 DEF SentKept, SentBefore, Delivered
<1> QED BY <1>2, <1>3, <1>4, <1>6 DEF SentKept


(* An answer is read, or none. *)
Less(h, x) ==
  /\ Doomed(h) => Doomed(x)
  /\ \A j \in {"ZRPOS", "ZRINIT"} : Has(x, j) => Has(h, j)
  /\ \A j, k \in {"ZRPOS", "ZRINIT"} : Then(x, j, k) => Then(h, j, k)

LEMMA ThenHas ==
  ASSUME NEW h \in Seq(Replies), NEW j, NEW k, Then(h, j, k)
  PROVE  Has(h, j)
<1>1. PICK i, l \in 1..Len(h) : i < l /\ h[i] = j /\ h[l] = k /\ Clear(h, l)
  BY DEF Then
<1>2. 1..(i - 1) \subseteq 1..(l - 1)
  BY <1>1
<1>3. Clear(h, i)
  BY <1>1, <1>2 DEF Clear
<1> QED BY <1>1, <1>3 DEF Has

LEMMA OneAnswerLess ==
  ASSUME NEW h \in Seq(Replies), h # <<>>, Head(h) \notin Killers
  PROVE  /\ Less(h, Tail(h)) /\ Has(h, Head(h)) /\ Tail(h) \in Seq(Replies)
         /\ \A j, k \in {"ZRPOS", "ZRINIT"} : Head(h) = j /\ Has(Tail(h), k) => Then(h, j, k)
         /\ \A j, k \in {"ZRPOS", "ZRINIT"} : Then(Tail(h), j, k) => Has(Tail(h), j)
<1>1. Tail(h) \in Seq(Replies) /\ Has(h, Head(h)) /\ (Doomed(Tail(h)) <=> Doomed(h))
  BY ReplyRead
<1>2. \A k \in {"ZRPOS", "ZRINIT"} : Has(h, k) <=> Head(h) = k \/ Has(Tail(h), k)
  BY ReplyRead
<1>3. \A j, k \in {"ZRPOS", "ZRINIT"} :
        Then(h, j, k) <=> Then(Tail(h), j, k) \/ (Head(h) = j /\ Has(Tail(h), k))
  BY ReplyRead
<1>4. \A j, k \in {"ZRPOS", "ZRINIT"} : Then(Tail(h), j, k) => Has(Tail(h), j)
  BY <1>1, ThenHas
<1> QED BY <1>1, <1>2, <1>3, <1>4 DEF Less

LEMMA AddedFollows ==
  ASSUME ZmodemTypes, NEW X, NEW Y, NEW Z, Adds(Y), Y \cap Z = {}
  PROVE  /\ Contains(Coming', Z) => Contains(Coming, Z)
         /\ Follows(Coming', X, Z) => Follows(Coming, X, Z)
<1>1. Coming \in Seq(Tokens) /\ \A u \in Tokens : Append(Coming, u) \in Seq(Tokens)
  BY ComingFacts, OneMore DEF ZmodemTypes
<1>2. ASSUME NEW s \in Seq(Tokens), NEW t \in Tokens, t \in Y
      PROVE  /\ Contains(Append(s, t), Z) => Contains(s, Z)
             /\ Follows(Append(s, t), X, Z) => Follows(s, X, Z)
  <2>1. t \notin Z
    BY <1>2
  <2> QED BY <2>1, OneMoreHolds
<1>3. CASE Coming' = Coming
  BY <1>3
<1>4. CASE \E t \in Tokens : t \in Y /\ Coming' = Append(Coming, t)
  BY <1>1, <1>2, <1>4
<1>5. CASE \E u, t \in Tokens : u \in Y /\ t \in Y /\ Coming' = Append(Append(Coming, u), t)
  <2>1. PICK u, t \in Tokens : u \in Y /\ t \in Y /\ Coming' = Append(Append(Coming, u), t)
    BY <1>5
  <2>2. /\ Contains(Append(Coming, u), Z) => Contains(Coming, Z)
        /\ Follows(Append(Coming, u), X, Z) => Follows(Coming, X, Z)
    BY <2>1, <1>1, <1>2
  <2>3. Append(Coming, u) \in Seq(Tokens)
    BY <1>1
  <2>4. /\ Contains(Append(Append(Coming, u), t), Z) => Contains(Append(Coming, u), Z)
        /\ Follows(Append(Append(Coming, u), t), X, Z) => Follows(Append(Coming, u), X, Z)
    BY <2>1, <2>3, <1>2
  <2> QED BY <2>1, <2>2, <2>4
<1> QED BY <1>3, <1>4, <1>5 DEF Adds

(* The sender goes on asking for the place of the file, or sending it. *)
LEMMA AskingOn ==
  ASSUME ZmodemTypes, FileAsked, UNCHANGED receiver, up' = up,
         sz.stage = "file", sz'.stage = "file", sz'.run = sz.run, sz'.file = sz.file,
         Less(toHost, toHost'), Adds(NewTokens(sz.file, {"ZFILE"}))
  PROVE  FileAsked' /\ FileSent'
<1>1. /\ OfTheFile' = OfTheFile /\ Files' = Files /\ pc' = pc /\ (Writing' <=> Writing)
  BY DEF receiver, OfTheFile, NewTokens, Files, Writing
<1>2. PICK Y : Y = NewTokens(sz.file, {"ZFILE"})
  OBVIOUS
<1>3. /\ Y \subseteq {t \in Tokens : t.kind = "ZFILE" => t.file = sz.file}
      /\ Y \subseteq OfTheFile /\ Y \subseteq Files /\ Y \cap (Tokens \ Files) = {}
  BY <1>2 DEF OfTheFile, NewTokens, Files
<1>4. \A X : Y \subseteq X /\ Only(Coming, X) => Only(Coming', X)
  BY <1>2, AddedHold
<1>5. Follows(Coming', Files, Tokens \ Files) => Follows(Coming, Files, Tokens \ Files)
  BY <1>2, <1>3, AddedFollows
<1>6. ASSUME up PROVE FileAsked'
  <2>1. ~Then(toHost', "ZRPOS", "ZRINIT")
    BY <1>6 DEF FileAsked, Less
  <2>2. ASSUME ~Doomed(toHost')
        PROVE  /\ Only(Coming', {t \in Tokens : t.kind = "ZFILE" => t.file = sz.file})
               /\ ~Follows(Coming', Files, Tokens \ Files)
    <3>1. /\ Only(Coming, {t \in Tokens : t.kind = "ZFILE" => t.file = sz.file})
          /\ ~Follows(Coming, Files, Tokens \ Files)
      BY <1>6, <2>2 DEF FileAsked, Less
    <3>2. Only(Coming', {t \in Tokens : t.kind = "ZFILE" => t.file = sz.file})
      BY <3>1, <1>3, <1>4
    <3> QED BY <3>1, <3>2, <1>5
  <2>3. ASSUME ~Doomed(toHost'), Has(toHost', "ZRPOS")
        PROVE  pc = "header" /\ Writing /\ Only(Coming', OfTheFile) /\ Only(Coming', Files)
    <3>1. pc = "header" /\ Writing /\ Only(Coming, OfTheFile) /\ Only(Coming, Files)
      BY <1>6, <2>3 DEF FileAsked, Less
    <3> QED BY <3>1, <1>3, <1>4
  <2> QED BY <2>1, <2>2, <2>3, <1>1 DEF FileAsked
<1>7. ~up => FileAsked'
  BY DEF FileAsked
<1> QED BY <1>6, <1>7 DEF FileSent

LEMMA SendingOn ==
  ASSUME ZmodemTypes, FileSent, UNCHANGED receiver, up' = up,
         sz.stage \in {"data", "eof"}, sz'.stage \in {"data", "eof"},
         sz'.run = sz.run, sz'.file = sz.file,
         Less(toHost, toHost'), NEW K, K \subseteq {"ZDATA", "sub", "ZEOF"},
         Adds(NewTokens(sz.file, K)), Delivered(sz.file)' <=> Delivered(sz.file)
  PROVE  FileAsked' /\ FileSent'
<1>1. /\ OfTheFile' = OfTheFile /\ Files' = Files /\ pc' = pc /\ (Writing' <=> Writing)
  BY DEF receiver, OfTheFile, NewTokens, Files, Writing
<1>2. PICK Y : Y = NewTokens(sz.file, K)
  OBVIOUS
<1>3. Y \subseteq OfTheFile /\ Y \cap Files = {}
  BY <1>2 DEF OfTheFile, NewTokens, Files
<1>4. Only(Coming, OfTheFile) => Only(Coming', OfTheFile)
  BY <1>2, <1>3, AddedHold
<1>5. /\ Contains(Coming', Files) => Contains(Coming, Files)
      /\ Follows(Coming', Tokens \ Files, Files) => Follows(Coming, Tokens \ Files, Files)
  BY <1>2, <1>3, AddedFollows
<1>6. ASSUME up PROVE FileSent'
  <2>1. ~Then(toHost', "ZRINIT", "ZRPOS") /\ (~Doomed(toHost') => ~Doomed(toHost))
        /\ (~Delivered(sz.file) => ~Has(toHost', "ZRINIT"))
    BY <1>6 DEF FileSent, Less
  <2>2. ASSUME ~Doomed(toHost), Delivered(sz.file) PROVE ~Contains(Coming', Files)
    BY <2>2, <1>5, <1>6 DEF FileSent
  <2>3. ASSUME ~Doomed(toHost), ~Delivered(sz.file)
        PROVE  /\ pc \in {"header", "data"} /\ Writing
               /\ Only(Coming', OfTheFile) /\ ~Follows(Coming', Tokens \ Files, Files)
    BY <2>3, <1>4, <1>5, <1>6 DEF FileSent
  <2> QED BY <2>1, <2>2, <2>3, <1>1 DEF FileSent
<1>7. ~up => FileSent'
  BY DEF FileSent
<1> QED BY <1>6, <1>7 DEF FileAsked


LEMMA AskingNext ==
  ASSUME ZmodemTypes, NEW f, sz'.stage = "file", sz'.run = sz.run, sz'.file = f,
         Adds(NewTokens(f, {"ZFILE"})), ~Doomed(toHost') => ~Contains(Coming, Files),
         ~Has(toHost', "ZRPOS"), ~Then(toHost', "ZRPOS", "ZRINIT")
  PROVE  FileAsked' /\ FileSent'
<1>1. PICK Y : Y = NewTokens(f, {"ZFILE"})
  OBVIOUS
<1>2. PICK X : X = {t \in Tokens : t.kind = "ZFILE" => t.file = f}
  OBVIOUS
<1>3. Y \subseteq X /\ Y \cap (Tokens \ Files) = {}
  BY <1>1, <1>2 DEF NewTokens, Files
<1>4. ASSUME ~Doomed(toHost')
      PROVE  Only(Coming', X) /\ ~Follows(Coming', Files, Tokens \ Files)
  <2>1. ~Contains(Coming, Files)
    BY <1>4
  <2>2. \A i \in 1..Len(Coming) : Coming[i] \in Tokens
    BY ComingFacts DEF ZmodemTypes
  <2>3. Only(Coming, X) /\ ~Follows(Coming, Files, Tokens \ Files)
    BY <2>1, <2>2, <1>2 DEF Contains, Only, Follows, Files
  <2> QED BY <2>3, <1>1, <1>3, AddedHold, AddedFollows
<1>5. FileAsked'
  BY <1>2, <1>4 DEF FileAsked, Files
<1> QED BY <1>5 DEF FileSent

(* The sender ends: well only after the last file. *)
LEMMA LeaveSends ==
  ASSUME ZmodemTypes, SentKept, ~Gone, NEW toks, NEW how \in {"ok", "error"},
         how = "ok" => sz.stage = "fin", Leave(sz, toks, how),
         RowsAgree', \A r, f : Done(r, f) <=> Done(r, f)'
  PROVE  SentKept'
<1>1. sz'.stage = "gone" /\ exit' = [exit EXCEPT ![sz.run] = how]
  BY SenderTypes DEF Leave, ZmodemTypes
<1>2. exit \in [RunIds -> {"none", "ok", "error"}]
  BY DEF ZmodemTypes, ZmodemTypeOK
<1>3. AllSent'
  <2>1. ASSUME NEW r \in RunIds, exit'[r] = "ok"
        PROVE  \A f \in 1..FilesOf[r] : Done(r, f)
    <3>1. CASE r = sz.run
      <4>1. sz.stage = "fin"
        BY <3>1, <2>1, <1>1, <1>2
      <4> QED BY <4>1, <3>1 DEF SentKept, SentBefore, Delivered
    <3>2. CASE r # sz.run
      <4>1. exit[r] = "ok"
        BY <3>2, <2>1, <1>1, <1>2
      <4> QED BY <4>1 DEF SentKept, AllSent
    <3> QED BY <3>1, <3>2
  <2> QED BY <2>1 DEF AllSent
<1> QED BY <1>1, <1>3 DEF SentKept, SentBefore, Starting, FileAsked, FileSent

(* What the sender reads on its way. *)
LEMMA AnswerRows ==
  ASSUME ZmodemTypes, TokensAgree, RowsAgree, ReadAnswer
  PROVE  RowsAgree' /\ \A r, f : Done(r, f) <=> Done(r, f)'
<1>0. /\ rows' = rows /\ buf' = buf /\ Answered(Head(toHost)) /\ ZmodemTypeOK
      /\ sz.file \in Nat /\ sz.run \in Nat
  BY AnswerRead, SenderNumbers DEF receiver, ZmodemTypes
<1>1. sz'.run = sz.run /\ sz'.file \in Nat /\ sz.file <= sz'.file
  <2>1. ASSUME NEW toks, NEW how, Leave(sz, toks, how)
        PROVE  sz'.run = sz.run /\ sz'.file = sz.file
    BY <2>1, <1>0, SenderTypes DEF Leave
  <2>2. ASSUME NEW f, SendFile(sz, f) PROVE sz'.run = sz.run /\ sz'.file = f
    BY <2>2, <1>0, SenderTypes DEF SendFile
  <2>3. sz.stage = "init" => sz.file = 0
    BY DEF TokensAgree, AtFirst
  <2>4. sz.file <= sz.file + 1 /\ sz.file + 1 \in Nat /\ 0 <= 1 /\ 1 \in Nat /\ sz.file <= sz.file
    BY <1>0
  <2>5. ASSUME SendFin(sz) PROVE sz'.run = sz.run /\ sz'.file = sz.file
    BY <2>5, <1>0, SenderTypes DEF SendFin
  <2>6. ASSUME sz' = [sz EXCEPT !.stage = "data"] \/ Restart
        PROVE  sz'.run = sz.run /\ sz'.file = sz.file
    BY <2>6, <1>0, SenderTypes DEF Restart
  <2> QED BY <1>0, <2>1, <2>2, <2>3, <2>4, <2>5, <2>6, AnswerCases
<1> QED BY <1>0, <1>1, FarSideRows

LEMMA AnswerSends ==
  ASSUME ZmodemTypes, AtRest, TokensAgree, SentKept, ReadAnswer
  PROVE  SentKept'
<1>0. /\ UNCHANGED receiver /\ buf' = buf /\ up /\ up' = up /\ Answered(Head(toHost))
      /\ toHost \in Seq(Replies) /\ toHost # <<>> /\ toHost' = Tail(toHost)
      /\ ZmodemTypeOK /\ pc' = pc /\ cur' = cur
      /\ sz.file \in Nat /\ sz.run \in Nat
  BY AnswerRead, SenderNumbers DEF receiver, ZmodemTypes
<1>a. RowsAgree' /\ \A r, f : Done(r, f) <=> Done(r, f)'
  BY AnswerRows DEF SentKept
<1>b. /\ "ZRINIT" \notin Killers /\ "ZRPOS" \notin Killers
      /\ Head(toHost) \notin Killers <=> Head(toHost) # "CANCEL" /\ Head(toHost) # "ZFIN"
  BY DEF Killers
<1>c. exit' = exit => AllSent'
  BY <1>a DEF SentKept, AllSent
<1>d. Head(toHost) \notin Killers =>
        /\ Less(toHost, toHost') /\ Has(toHost, Head(toHost))
        /\ \A j, k \in {"ZRPOS", "ZRINIT"} :
             Head(toHost) = j /\ Has(toHost', k) => Then(toHost, j, k)
        /\ \A j, k \in {"ZRPOS", "ZRINIT"} : Then(toHost', j, k) => Has(toHost', j)
  BY <1>0, OneAnswerLess
<1>e. Head(toHost) \notin Killers => (Doomed(toHost') <=> Doomed(toHost))
  BY <1>0, ReplyRead
<1>1. ASSUME NEW how \in {"ok", "error"}, NEW toks, how = "ok" => sz.stage = "fin",
             ~Gone, Leave(sz, toks, how)
      PROVE  SentKept'
  BY <1>1, <1>a, LeaveSends
<1>2. ASSUME NEW f \in FileIds, ~Gone, SendFile(sz, f), exit' = exit, f = sz.file + 1,
             Head(toHost) = "ZRINIT",
             \A g \in 1..sz.file : Delivered(g), ~Contains(Coming, Files) \/ Doomed(toHost),
             ~Has(toHost', "ZRPOS")
      PROVE  SentKept'
  <2>1. /\ Adds(NewTokens(f, {"ZFILE"}))
        /\ sz'.run = sz.run /\ sz'.file = f /\ sz'.stage = "file"
    BY <1>0, <1>2, FileAdds
  <2>2. ~Then(toHost', "ZRPOS", "ZRINIT")
    BY <1>2, <1>b, <1>d
  <2>3. FileAsked' /\ FileSent'
    BY <1>2, <2>1, <2>2, <1>b, <1>e, AskingNext
  <2>4. ~Delivered(f)
    <3>1. ~(f <= sz.file)
      BY <1>0, <1>2
    <3> QED BY <3>1 DEF SentKept, RowsAgree, Delivered, Done
  <2>5. SentBefore'
    <3>1. f - 1 = sz.file
      BY <1>0, <1>2
    <3> QED BY <3>1, <2>1, <2>4, <1>2, <1>a DEF SentBefore, Delivered
  <2> QED BY <2>1, <2>3, <2>5, <1>2, <1>a, <1>c DEF SentKept, Starting
<1>3. ASSUME Head(toHost) = "ZRINIT", exit' = exit, sz.stage = "init", SendFile(sz, 1)
      PROVE  SentKept'
  <2>1. ~Gone /\ sz.file = 0
    BY <1>3 DEF Gone, TokensAgree, AtFirst
  <2>2. 1 \in FileIds /\ 1 = sz.file + 1 /\ 1..sz.file = {}
    BY <2>1, RunType, FileTypes
  <2>3. ~Contains(Coming, Files)
    BY <1>3 DEF TokensAgree, AtFirst, Only, Contains, Files
  <2>4. ~Has(toHost', "ZRPOS")
    <3>1. ~Has(toHost, "ZRPOS")
      BY <1>3 DEF SentKept, Starting, Only, Has
    <3> QED BY <3>1, <1>3, <1>b, <1>d DEF Less
  <2> QED BY <2>1, <2>2, <2>3, <2>4, <1>2, <1>3
<1>4. ASSUME Head(toHost) = "ZRINIT", sz.stage = "eof"
      PROVE  /\ \A g \in 1..sz.file : Delivered(g)
             /\ ~Contains(Coming, Files) \/ Doomed(toHost)
             /\ ~Has(toHost', "ZRPOS")
  <2>1. Delivered(sz.file)
    BY <1>0, <1>4, <1>b, <1>d DEF SentKept, FileSent
  <2>2. \A g \in 1..sz.file : g = sz.file \/ g \in 1..(sz.file - 1)
    BY <1>0
  <2>3. \A g \in 1..sz.file : Delivered(g)
    BY <2>1, <2>2, <1>4 DEF SentKept, SentBefore
  <2>4. ~Contains(Coming, Files) \/ Doomed(toHost)
    BY <2>1, <1>0, <1>4 DEF SentKept, FileSent
  <2>5. ~Has(toHost', "ZRPOS")
    BY <1>0, <1>4, <1>b, <1>d DEF SentKept, FileSent
  <2> QED BY <2>3, <2>4, <2>5
<1>5. ASSUME Head(toHost) = "ZRINIT", exit' = exit, sz.stage = "eof",
             sz.file < FilesOf[sz.run], SendFile(sz, sz.file + 1)
      PROVE  SentKept'
  <2>1. ~Gone
    BY <1>5 DEF Gone
  <2>2. sz.file + 1 \in FileIds
    <3>1. FilesOf[sz.run] \in Nat /\ 1..FilesOf[sz.run] \subseteq FileIds
      BY <2>1, RunType, FileTypes
    <3> QED BY <3>1, <1>0, <1>5
  <2> QED BY <2>1, <2>2, <1>2, <1>4, <1>5
<1>6. ASSUME Head(toHost) = "ZRINIT", exit' = exit, sz.stage = "eof",
             sz.file = FilesOf[sz.run], SendFin(sz)
      PROVE  SentKept'
  <2>1. ~Gone
    BY <1>6 DEF Gone
  <2>2. sz'.run = sz.run /\ sz'.stage = "fin"
    BY <2>1, <1>0, <1>6, FinAdds
  <2>3. SentBefore'
    BY <2>2, <1>4, <1>6, <1>a DEF SentBefore, Delivered
  <2> QED BY <2>2, <2>3, <1>6, <1>a, <1>c DEF SentKept, Starting, FileAsked, FileSent
<1>7. ASSUME Head(toHost) = "ZRINIT", exit' = exit, sz.stage = "file", SendFile(sz, sz.file)
      PROVE  SentKept'
  <2>1. ~Gone
    BY <1>7 DEF Gone
  <2>2. sz.file \in FileIds
    <3>1. 1..FilesOf[sz.run] \subseteq FileIds
      BY <2>1, RunType, FileTypes
    <3> QED BY <3>1, <1>7 DEF ZmodemTypes
  <2>3. /\ Adds(NewTokens(sz.file, {"ZFILE"}))
        /\ sz'.run = sz.run /\ sz'.file = sz.file /\ sz'.stage = "file"
    BY <2>1, <2>2, <1>0, <1>7, FileAdds
  <2>4. FileAsked' /\ FileSent'
    BY <2>3, <1>0, <1>7, <1>b, <1>d, AskingOn DEF SentKept
  <2>5. SentBefore'
    BY <2>3, <1>7, <1>a DEF SentKept, SentBefore, Delivered
  <2> QED BY <2>3, <2>4, <2>5, <1>7, <1>a, <1>c DEF SentKept, Starting
<1>8. ASSUME Head(toHost) = "ZRPOS", exit' = exit, sz.stage = "file",
             sz' = [sz EXCEPT !.stage = "data"], fromHost' = fromHost
      PROVE  SentKept'
  <2>1. /\ sz'.run = sz.run /\ sz'.file = sz.file /\ sz'.stage = "data" /\ Coming' = Coming
        /\ OfTheFile' = OfTheFile /\ Files' = Files /\ (Writing' <=> Writing)
    BY <1>0, <1>8, SenderTypes DEF Coming, OfTheFile, NewTokens, Files, Writing, receiver
  <2>2. ~Delivered(sz.file) /\ ~Delivered(sz.file)'
    BY <2>1, <1>8, <1>a DEF SentKept, SentBefore, Delivered
  <2>3. ~Has(toHost', "ZRINIT")
    BY <1>0, <1>8, <1>b, <1>d DEF SentKept, FileAsked
  <2>4. ~Then(toHost', "ZRINIT", "ZRPOS")
    BY <2>3, <1>8, <1>b, <1>d
  <2>5. ASSUME ~Doomed(toHost')
        PROVE  /\ pc = "header" /\ Writing /\ Only(Coming, OfTheFile)
               /\ ~Follows(Coming, Tokens \ Files, Files)
    <3>1. ~Doomed(toHost) /\ Has(toHost, "ZRPOS")
      BY <2>5, <1>8, <1>b, <1>d, <1>e
    <3>2. pc = "header" /\ Writing /\ Only(Coming, OfTheFile) /\ Only(Coming, Files)
      BY <3>1, <1>0, <1>8 DEF SentKept, FileAsked
    <3> QED BY <3>2 DEF Only, Follows
  <2>6. FileSent'
    BY <2>1, <2>2, <2>3, <2>4, <2>5, <1>0 DEF FileSent
  <2>7. SentBefore'
    BY <2>1, <1>8, <1>a DEF SentKept, SentBefore, Delivered
  <2> QED BY <2>1, <2>6, <2>7, <1>8, <1>a, <1>c DEF SentKept, Starting, FileAsked
<1>9. ASSUME Head(toHost) = "ZRPOS", exit' = exit, sz.stage \in {"data", "eof"}, Restart
      PROVE  SentKept'
  <2>1. ~Gone
    BY <1>9 DEF Gone
  <2>2. /\ Adds(NewTokens(sz.file, {"sub"}))
        /\ sz'.run = sz.run /\ sz'.file = sz.file /\ sz'.stage = "data"
    BY <2>1, <1>0, <1>9, RestartAdds
  <2>3. Delivered(sz.file)' <=> Delivered(sz.file)
    BY <2>2, <1>a DEF Delivered
  <2>4. {"sub"} \subseteq {"ZDATA", "sub", "ZEOF"} /\ Less(toHost, toHost')
    BY <1>9, <1>b, <1>d
  <2>5. FileAsked' /\ FileSent'
    BY <2>2, <2>3, <2>4, <1>0, <1>9, SendingOn DEF SentKept
  <2>6. SentBefore'
    BY <2>2, <1>9, <1>a DEF SentKept, SentBefore, Delivered
  <2> QED BY <2>2, <2>5, <2>6, <1>9, <1>a, <1>c DEF SentKept, Starting
<1>10. ASSUME sz' = sz, fromHost' = fromHost, exit' = exit,
              Head(toHost) = "CANCEL" => Gone,
              Head(toHost) = "ZFIN" => sz.stage \in {"init", "gone"}
       PROVE  SentKept'
  <2>1. \A Y : Adds(Y)
    BY <1>0, <1>10 DEF Adds, Coming
  <2>2. Delivered(sz.file)' <=> Delivered(sz.file)
    BY <1>10, <1>a DEF Delivered
  <2>3. sz.stage \in {"file", "data", "eof"} => Less(toHost, toHost')
    BY <1>10, <1>b, <1>d DEF Gone
  <2>4. ASSUME sz.stage = "file" PROVE FileAsked' /\ FileSent'
    BY <2>1, <2>3, <2>4, <1>0, <1>10, AskingOn DEF SentKept
  <2>5. ASSUME sz.stage \in {"data", "eof"} PROVE FileAsked' /\ FileSent'
    <3>1. {"sub"} \subseteq {"ZDATA", "sub", "ZEOF"} /\ Adds(NewTokens(sz.file, {"sub"}))
      BY <2>1
    <3> QED BY <3>1, <2>2, <2>3, <2>5, <1>0, <1>10, SendingOn DEF SentKept
  <2>6. ASSUME sz.stage \notin {"file", "data", "eof"} PROVE FileAsked' /\ FileSent'
    BY <2>6, <1>10 DEF FileAsked, FileSent
  <2>7. FileAsked' /\ FileSent'
    BY <2>4, <2>5, <2>6
  <2>8. SentBefore'
    BY <1>10, <1>a DEF SentKept, SentBefore, Delivered
  <2>9. Starting'
    <3>1. ASSUME NEW X, Only(toHost, X) PROVE Only(Tail(toHost), X)
      <4>1. Len(Tail(toHost)) = Len(toHost) - 1
            /\ \A i \in 1..(Len(toHost) - 1) : i + 1 \in 1..Len(toHost) /\ Tail(toHost)[i] = toHost[i + 1]
        BY <1>0
      <4> QED BY <4>1, <3>1 DEF Only
    <3> QED BY <3>1, <1>0, <1>10 DEF SentKept, Starting
  <2> QED BY <2>7, <2>8, <2>9, <1>10, <1>a, <1>c DEF SentKept
<1>11. \A s \in {"file", "data", "eof", "fin"} : sz.stage = s => ~Gone
  BY DEF Gone
<1> QED BY <1>0, <1>1, <1>3, <1>5, <1>6, <1>7, <1>8, <1>9, <1>10, <1>11, AnswerCases


LEMMA FarSideSends ==
  ASSUME ZmodemTypes, AtRest, TokensAgree, DataOrdered, SentKept,
         Sz \/ StartSz \/ RepeatEarly \/ RepeatQuiet \/ Abort \/ LineDrops
  PROVE  SentKept'
<1>0. /\ sz.file \in Nat /\ sz.run \in Nat /\ sz.file <= sz.file /\ Less(toHost, toHost)
      /\ RowsAgree
  BY SenderNumbers DEF Less, SentKept
<1>a. ASSUME rows' = rows, exit' = exit,
             \/ sz'.run = sz.run /\ sz'.file = sz.file
             \/ sz'.run = sz.run + 1
      PROVE  RowsAgree' /\ AllSent' /\ \A r, f : Done(r, f) <=> Done(r, f)'
  <2>1. RowsAgree' /\ \A r, f : Done(r, f) <=> Done(r, f)'
    BY <1>0, <1>a, FarSideRows
  <2> QED BY <2>1, <1>a DEF SentKept, AllSent
<1>1. ASSUME StartSz PROVE SentKept'
  <2>1. /\ rows' = rows /\ exit' = exit /\ sz'.run = sz.run + 1 /\ sz'.stage = "init"
        /\ toHost' = <<>> /\ pc' = "shell"
    BY <1>1 DEF StartSz, receiver
  <2>2. RowsAgree' /\ AllSent'
    BY <2>1, <1>a
  <2>3. 1..Len(<<>>) = {}
    OBVIOUS
  <2>4. Starting'
    BY <2>1, <2>3 DEF Starting, Only
  <2> QED BY <2>1, <2>2, <2>4 DEF SentKept, SentBefore, FileAsked, FileSent
<1>2. ASSUME SendChunk \/ SendEof PROVE SentKept'
  <2>1. /\ sz.stage = "data" /\ sz'.run = sz.run /\ sz'.file = sz.file
        /\ sz'.stage \in {"data", "eof"}
        /\ \/ Adds(NewTokens(sz.file, {"ZDATA", "sub"}))
           \/ Adds(NewTokens(sz.file, {"sub", "ZEOF"}))
    BY <1>2, ChunkAdds, EofAdds
  <2>2. /\ rows' = rows /\ exit' = exit /\ UNCHANGED receiver /\ up' = up /\ toHost' = toHost
    BY <1>2 DEF SendChunk, SendEof, receiver
  <2>3. RowsAgree' /\ AllSent' /\ \A r, f : Done(r, f) <=> Done(r, f)'
    BY <2>1, <2>2, <1>a
  <2>4. Delivered(sz.file)' <=> Delivered(sz.file)
    BY <2>1, <2>3 DEF Delivered
  <2>5. {"ZDATA", "sub"} \subseteq {"ZDATA", "sub", "ZEOF"}
        /\ {"sub", "ZEOF"} \subseteq {"ZDATA", "sub", "ZEOF"}
    OBVIOUS
  <2>6. FileAsked' /\ FileSent'
    BY <2>1, <2>2, <2>4, <2>5, <1>0, SendingOn DEF SentKept
  <2>7. SentBefore'
    BY <2>1, <2>3 DEF SentKept, SentBefore, Delivered
  <2> QED BY <2>1, <2>3, <2>6, <2>7 DEF SentKept, Starting
<1>3. ASSUME RepeatEarly \/ RepeatQuiet PROVE SentKept'
  <2>1. /\ Unanswered /\ RepeatHeader /\ buf' = buf /\ UNCHANGED receiver /\ sz' = sz
        /\ exit' = exit /\ toHost' = toHost /\ up' = up /\ rows' = rows /\ pc' = pc /\ cur' = cur
    BY <1>3 DEF RepeatEarly, RepeatQuiet, receiver, sender
  <2>2. /\ Adds(NewTokens(sz.file, {HeaderOf(sz.stage)}))
        /\ sz.stage \in {"init", "file", "eof", "fin"}
        /\ sz.stage = "file" => HeaderOf(sz.stage) = "ZFILE"
        /\ sz.stage = "eof" => HeaderOf(sz.stage) = "ZEOF"
    BY <2>1, HeaderAdds
  <2>3. RowsAgree' /\ AllSent' /\ \A r, f : Done(r, f) <=> Done(r, f)'
    BY <2>1, <1>a
  <2>4. Delivered(sz.file)' <=> Delivered(sz.file)
    BY <2>1, <2>3 DEF Delivered
  <2>5. ASSUME sz.stage = "file" PROVE FileAsked' /\ FileSent'
    BY <2>1, <2>2, <2>5, <1>0, AskingOn DEF SentKept
  <2>6. ASSUME sz.stage = "eof" PROVE FileAsked' /\ FileSent'
    <3>1. {"ZEOF"} \subseteq {"ZDATA", "sub", "ZEOF"} /\ Adds(NewTokens(sz.file, {"ZEOF"}))
      BY <2>2, <2>6
    <3> QED BY <3>1, <2>1, <2>4, <2>6, <1>0, SendingOn DEF SentKept
  <2>7. ASSUME sz.stage \in {"init", "fin"} PROVE FileAsked' /\ FileSent'
    BY <2>1, <2>7 DEF FileAsked, FileSent
  <2>8. SentBefore'
    BY <2>1, <2>3 DEF SentKept, SentBefore, Delivered
  <2>9. Starting'
    BY <2>1 DEF SentKept, Starting
  <2> QED BY <2>2, <2>3, <2>5, <2>6, <2>7, <2>8, <2>9 DEF SentKept
<1>4. ASSUME Abort PROVE SentKept'
  <2>1. PICK kind \in {"CANs", "ZABORT"} : Leave(sz, <<Token(sz, kind, 0, "none")>>, "error")
    BY <1>4 DEF Abort
  <2>2. ~Gone /\ rows' = rows /\ sz'.run = sz.run /\ sz'.file = sz.file
    BY <2>1, <1>4, SenderTypes DEF Abort, Gone, receiver, Leave, ZmodemTypes
  <2>3. RowsAgree' /\ \A r, f : Done(r, f) <=> Done(r, f)'
    BY <2>2, <1>0, FarSideRows
  <2>4. "error" \in {"ok", "error"} /\ "error" # "ok"
    OBVIOUS
  <2> QED BY <2>1, <2>2, <2>3, <2>4, LeaveSends
<1>5. ASSUME LineDrops PROVE SentKept'
  <2>1. /\ sz' = sz /\ exit' = exit /\ toHost' = toHost /\ up' = FALSE
        /\ rows' = rows /\ pc' = pc /\ cur' = cur
    BY <1>5 DEF LineDrops, receiver
  <2>2. RowsAgree' /\ AllSent' /\ \A r, f : Done(r, f) <=> Done(r, f)'
    BY <2>1, <1>a
  <2>3. SentBefore'
    BY <2>1, <2>2 DEF SentKept, SentBefore, Delivered
  <2>4. Starting'
    BY <2>1 DEF SentKept, Starting
  <2>5. FileAsked' /\ FileSent'
    BY <2>1 DEF FileAsked, FileSent
  <2> QED BY <2>2, <2>3, <2>4, <2>5 DEF SentKept
<1> QED BY <1>1, <1>2, <1>3, <1>4, <1>5, AnswerSends DEF Sz

LEMMA SentStep ==
  ASSUME ZmodemTypes, AtRest, TokensAgree, DataOrdered, SentKept, [ZmodemNext]_zmodemVars
  PROVE  SentKept'
<1>1. CASE UNCHANGED zmodemVars
  <2>1. /\ sz' = sz /\ Coming' = Coming /\ exit' = exit /\ rows' = rows /\ toHost' = toHost
        /\ cur' = cur /\ pc' = pc /\ up' = up
    BY <1>1 DEF zmodemVars, receiver, sender, Coming
  <2>2. RowsAgree' /\ AllSent'
    BY <2>1 DEF SentKept, RowsAgree, AllSent, Done
  <2>3. SentBefore' /\ Starting'
    BY <2>1 DEF SentKept, SentBefore, Starting, Delivered, Done
  <2>4. /\ Files' = Files /\ OfTheFile' = OfTheFile /\ (Writing' <=> Writing)
        /\ Delivered(sz.file)' <=> Delivered(sz.file)
    BY <2>1 DEF Files, OfTheFile, NewTokens, Writing, Delivered, Done
  <2>5. FileAsked'
    BY <2>1, <2>4 DEF SentKept, FileAsked
  <2>6. FileSent'
    BY <2>1, <2>4 DEF SentKept, FileSent
  <2> QED BY <2>2, <2>3, <2>5, <2>6 DEF SentKept
<1> QED BY <1>1, SessionTaskSends, FarSideSends DEF ZmodemNext

-----------------------------------------------------------------------------
(* The inductive invariant, and how it begins. *)
ZmodemKept == ZmodemTypes /\ AtRest /\ TokensAgree /\ DataOrdered /\ SentKept

LEMMA ZmodemBegins == ZmodemInit => ZmodemKept
<1> SUFFICES ASSUME ZmodemInit PROVE ZmodemKept
  OBVIOUS
<1>1. ZmodemTypes
  BY ZmodemInitTypes
<1>2. /\ pc = "shell" /\ buf = <<>> /\ cur = 0 /\ rows = <<>> /\ fromHost = <<>> /\ toHost = <<>>
      /\ sz.run = 0 /\ sz.stage = "gone" /\ sz.file = 0 /\ sz.next = 1 /\ ~sz.open
      /\ \A r \in RunIds : prompt[r] = "none" /\ exit[r] = "none"
  BY DEF ZmodemInit
<1>3. Coming = <<>> /\ 1..Len(<<>>) = {}
  BY <1>2, ComingFacts, <1>1 DEF ZmodemTypes
<1>4. AtRest
  BY <1>2 DEF AtRest
<1>5. TokensAgree
  BY <1>2, <1>3 DEF TokensAgree, OfThisRun, PromptLast, PromptDue, AtFirst, Only, Contains,
                    Follows, Gone
<1>6. DataOrdered
  <2>1. PICK c : c = At(0, 1, "header")
    OBVIOUS
  <2>2. c \in Places /\ c.file = 0 /\ c.next = 1 /\ c.in = "header"
    BY <2>1 DEF At, Places
  <2>3. FitsRow(c) /\ FitsSz(c) /\ Chain(Coming, c, c, restarted)
    BY <2>2, <1>2, <1>3, ChainNone DEF FitsRow, FitsSz, FrameOf
  <2>4. CountedIsWhole
    BY <1>2 DEF CountedIsWhole
  <2> QED BY <2>2, <2>3, <2>4, <1>2 DEF DataOrdered, Ordered, SenderSteps
<1>7. SentKept
  BY <1>2, <1>3 DEF SentKept, RowsAgree, AllSent, SentBefore, Starting, FileAsked, FileSent
<1> QED BY <1>1, <1>4, <1>5, <1>6, <1>7 DEF ZmodemKept

LEMMA ZmodemKeptStep ==
  ASSUME ZmodemKept, [ZmodemNext]_zmodemVars
  PROVE  ZmodemKept'
<1>1. ZmodemTypes' /\ AtRest'
  BY ZmodemTypesStep, RestKept DEF ZmodemKept, AtRest, zmodemVars, receiver
<1>2. TokensAgree'
  BY TokensStep DEF ZmodemKept
<1>3. DataOrdered'
  BY OrderStep DEF ZmodemKept
<1>4. SentKept'
  BY SentStep DEF ZmodemKept
<1> QED BY <1>1, <1>2, <1>3, <1>4 DEF ZmodemKept

(* A row that says done holds its file, each subpacket once and in order, unless the    *)
(* sender started the file again; and a sender that leaves well has all its files done: *)
(* the number in "file(s) downloaded" (zmodem.rs:224) is right.                         *)
THEOREM DownloadsAreCounted == ZmodemSpec => []CountsAreRight
<1>1. ZmodemInit => ZmodemKept
  BY ZmodemBegins
<1>2. ZmodemKept /\ [ZmodemNext]_zmodemVars => ZmodemKept'
  BY ZmodemKeptStep
<1>3. ZmodemKept => CountsAreRight
  <2> SUFFICES ASSUME ZmodemKept PROVE CountsAreRight
    OBVIOUS
  <2>1. rows \in Seq(Row)
    BY TypeParts DEF ZmodemKept, RowsFit
  <2>2. DOMAIN rows = 1..Len(rows)
    BY <2>1
  <2>3. SentIsCounted
    BY <2>2 DEF ZmodemKept, SentKept, AllSent, Done, SentIsCounted
  <2> QED BY <2>3 DEF ZmodemKept, DataOrdered, CountsAreRight
<1> QED BY <1>1, <1>2, <1>3, PTL DEF ZmodemSpec


-----------------------------------------------------------------------------
(***************************************************************************)
(* The prompt is not swallowed: without a header repeated early, sender    *)
(* and receiver take turns, and nothing is under way that could start      *)
(* another receive over the prompt.                                        *)
(***************************************************************************)
Calm == "early" \notin troubles /\ up
Data == {t \in Tokens : t.kind \in {"ZDATA", "sub"}}
Eofs == {t \in Tokens : t.kind = "ZEOF"}
Fins == {t \in Tokens : t.kind = "ZFIN"}

\* At most the ZFIN of the sender is under way, and it goes unnoticed or is answered.
FinAtMost == Only(Coming, Fins) /\ ~Follows(Coming, Tokens, Tokens)
Tidy == pc \in {"shell", "drain"} \/ (pc = "header" /\ buf # <<>> /\ Head(buf).kind = "ZFIN")

StartPaced == sz.stage = "init" => Len(Coming) + Len(toHost) <= 1
FilePaced == sz.stage = "file" =>
  Len(Coming) + Len(toHost) <= 1 /\ Only(toHost, {"ZRPOS"}) /\ Only(Coming, Files)
DataPaced == sz.stage = "data" =>
  ~Delivered(sz.file) /\ Only(toHost, {"ZACK"}) /\ Only(Coming, Data)
EofPaced == sz.stage = "eof" =>
  IF Delivered(sz.file)
  THEN /\ Coming = <<>> /\ pc = "peek" /\ received > 0
       /\ Only(toHost, {"ZACK", "ZRINIT"}) /\ ~Follows(toHost, {"ZRINIT"}, Replies)
  ELSE /\ Only(toHost, {"ZACK"})
       /\ Only(Coming, Data \cup Eofs) /\ ~Follows(Coming, Eofs, Tokens)
FinPaced == sz.stage = "fin" => toHost = <<>> /\ pc = "peek" /\ received > 0 /\ FinAtMost

Paced == Calm /\ ~Doomed(toHost) =>
  StartPaced /\ FilePaced /\ DataPaced /\ EofPaced /\ FinPaced

\* The receiver has said good-bye, and the sender will read it.
GoodByeSaid == Calm /\ Has(toHost, "ZFIN") =>
  /\ sz.stage # "data"
  /\ sz.stage \in {"file", "eof"} => ~Has(toHost, "ZRPOS")
  /\ sz.stage = "eof" => Coming = <<>> /\ pc \in {"shell", "drain"}
  /\ sz.stage = "fin" => Tidy /\ FinAtMost

\* The sender has left, and the prompt is on its way.
HeaderTokens == {t \in Tokens : IsFrame(t)}
PromptComes ==
  "early" \notin troubles /\ Gone /\ sz.run > 0 /\ exit[sz.run] = "ok" /\ prompt[sz.run] = "none" =>
    /\ Tidy /\ Only(Coming, {t \in Tokens : IsFrame(t) => t.kind = "ZFIN"})
    /\ ~Follows(Coming, Tokens, HeaderTokens)

PromptKept == PromptIsKept /\ Paced /\ GoodByeSaid /\ PromptComes


LEMMA TroublesGrow ==
  ASSUME ZmodemNext
  PROVE  troubles \subseteq troubles'
<1>1. troubles' = troubles \/ \E k : Trouble(k)
  BY DEF ZmodemNext, SessionTask, Receive, Fetch, NothingToRead, SkipGarbage, OnZRQINIT, OnZFILE,
     OnZDATA, OnSubpacket, SpoiltSubpacket, OnZEOF, Peek, PeekTimesOut, OnZFIN, OnZABORT,
     DiskFails, SendFails, Drain, DrainEnds, SessionLoop, ReadOutput, TwoSecondsPass, SessionEnds,
     Sz, SendChunk, SendEof, ReadAnswer, StartSz, RepeatEarly, RepeatQuiet, Abort, LineDrops,
     sender
<1> QED BY <1>1 DEF Trouble

LEMMA HasKiller ==
  ASSUME NEW h \in Seq(Replies), NEW k \in Killers, Has(h, k)
  PROVE  Doomed(h)
  BY DEF Has, Doomed

(* What the receiver answers while it goes on. *)
LEMMA SessionPace ==
  ASSUME ZmodemTypes, AtRest, SessionTask, up, ~Doomed(toHost')
  PROVE  /\ toHost \in Seq(Replies) /\ ~Doomed(toHost)
         /\ \/ toHost' = toHost
            \/ (OnZRQINIT \/ OnZEOF) /\ toHost' = Append(toHost, "ZRINIT")
            \/ OnZFILE /\ toHost' = Append(toHost, "ZRPOS")
            \/ OnSubpacket /\ toHost' = Append(toHost, "ZACK")
         /\ Len(Coming') + Len(toHost') <= Len(Coming) + Len(toHost)
<1>0. /\ ZmodemTypeOK /\ toHost \in Seq(Replies)
      /\ {"ZRINIT", "ZACK", "CANCEL", "ZFIN", "ZRPOS"} \subseteq Replies
      /\ {"CANCEL", "ZFIN"} \subseteq Killers
  BY DEF ZmodemTypes, ZmodemTypeOK, Replies, Killers
<1>1. ASSUME NEW h \in Seq(Replies), NEW e \in Killers, e \in Replies
      PROVE  Doomed(Append(h, e))
  BY <1>1, OneMoreReply
<1>2. toHost' # Append(toHost, "CANCEL") /\ toHost' # Append(Append(toHost, "ZRINIT"), "ZFIN")
  <2>1. Append(toHost, "ZRINIT") \in Seq(Replies)
    BY <1>0, OneMore
  <2> QED BY <2>1, <1>0, <1>1
<1>3. ~Doomed(toHost)
  <2>1. ASSUME toHost' \in QuietAnswers(toHost) PROVE ~Doomed(toHost)
    BY <2>1, <1>0, QuietOnes DEF Quiet
  <2>2. ASSUME toHost' = Append(toHost, "ZRPOS") PROVE ~Doomed(toHost)
    BY <2>2, <1>0, OneMoreReply
  <2> QED BY <2>1, <2>2, SessionAnswers
<1>4. \/ toHost' = toHost
      \/ (OnZRQINIT \/ OnZEOF) /\ toHost' = Append(toHost, "ZRINIT")
      \/ OnZFILE /\ toHost' = Append(toHost, "ZRPOS")
      \/ OnSubpacket /\ toHost' = Append(toHost, "ZACK")
  <2>1. ASSUME OnZRQINIT \/ OnZEOF PROVE toHost' = Append(toHost, "ZRINIT")
    BY <2>1, <1>0, SendsOne DEF OnZRQINIT, OnZEOF
  <2>2. ASSUME OnZFILE PROVE toHost' = Append(toHost, "ZRPOS")
    BY <2>2, <1>0, SendsOne DEF OnZFILE
  <2>3. ASSUME OnSubpacket PROVE toHost' = toHost \/ toHost' = Append(toHost, "ZACK")
    <3>1. send_hex(<<"ZACK">>) \/ send_hex(<<>>)
      BY <2>3 DEF OnSubpacket
    <3> QED BY <3>1, <1>0, SendsOne, SendsNone
  <2>4. ASSUME \/ \E n \in 1..Len(fromHost) : Fetch(n)
               \/ SkipGarbage \/ OnZDATA \/ Drain \/ DrainEnds \/ SessionLoop
        PROVE  toHost' = toHost
    BY <2>4 DEF Fetch, SkipGarbage, OnZDATA, Drain, DrainEnds,
       SessionLoop, ReadOutput, TwoSecondsPass, SessionEnds
  <2>5. ASSUME NothingToRead \/ SpoiltSubpacket \/ OnZABORT \/ DiskFails PROVE FALSE
    <3>1. send_hex(<<"CANCEL">>)
      BY <2>5 DEF NothingToRead, SpoiltSubpacket, OnZABORT, DiskFails, Bail
    <3> QED BY <3>1, <1>0, <1>2, SendsOne
  <2>6. ASSUME NEW rest \in Seq(Tokens), GoodBye(rest) PROVE toHost' = toHost
    BY <1>0, <1>2, <2>6, GoodByeFacts
  <2>7. ASSUME Peek \/ PeekTimesOut \/ OnZFIN PROVE toHost' = toHost
    <3>1. PeekTimesOut => GoodBye(<<>>) /\ <<>> \in Seq(Tokens)
      BY DEF PeekTimesOut
    <3>2. Peek \/ OnZFIN => buf # <<>> /\ (toHost' = toHost \/ GoodBye(Tail(buf)))
      BY DEF Peek, OnZFIN, Header
    <3> QED BY <3>1, <3>2, <2>6, <2>7, HeadHolds
  <2>8. ~SendFails
    BY DEF SendFails
  <2> QED BY <2>1, <2>2, <2>3, <2>4, <2>5, <2>7, <2>8 DEF SessionTask, Receive
<1>5. Coming \in Seq(Tokens) /\ Len(Coming) \in Nat /\ Len(toHost) \in Nat
  BY <1>0, ComingFacts
<1>6. CASE toHost' = toHost
  <2>1. PICK k \in 0..Len(Coming) : Coming' = Behind(Coming, k)
    BY SessionTaskMoves DEF Moved
  <2>2. Len(Coming') = Len(Coming) - k
    BY <2>1, <1>5, BehindFacts
  <2>3. Len(Coming) - k <= Len(Coming)
    BY <2>1, <1>5
  <2> QED BY <2>2, <2>3, <1>4, <1>3, <1>0, <1>5, <1>6
<1>7. ASSUME OnZRQINIT \/ OnZEOF \/ OnZFILE \/ OnSubpacket,
             NEW e \in Replies, toHost' = Append(toHost, e)
      PROVE  Len(Coming') + Len(toHost') <= Len(Coming) + Len(toHost)
  <2>1. buf # <<>> /\ buf' = Tail(buf) /\ fromHost' = fromHost
    BY <1>7 DEF OnZRQINIT, OnZEOF, OnZFILE, OnSubpacket, Header
  <2>2. Coming' = Behind(Coming, 1) /\ 1 \in 0..Len(Coming)
    BY <2>1, TakesOne, HeadHolds, <1>0
  <2>3. Len(Coming') = Len(Coming) - 1
    BY <2>2, <1>5, BehindFacts
  <2>4. Len(toHost') = Len(toHost) + 1
    BY <1>7, <1>0, OneMore
  <2> QED BY <2>3, <2>4, <1>5
<1> QED BY <1>0, <1>3, <1>4, <1>6, <1>7

(* What the first token can be. *)
LEMMA FirstIs ==
  ASSUME ZmodemTypes, buf # <<>>, NEW X, Only(Coming, X)
  PROVE  Head(buf) \in X
  BY HeadHolds, ComingFacts, OnlyFirst DEF ZmodemTypes

LEMMA SessionTaskPaces ==
  ASSUME ZmodemTypes, AtRest, TokensAgree, DataOrdered, SentKept, Paced, SessionTask, sz' = sz,
         up' = up, troubles \subseteq troubles'
  PROVE  Paced'
<1> SUFFICES ASSUME Calm', ~Doomed(toHost')
             PROVE  (StartPaced /\ FilePaced /\ DataPaced /\ EofPaced /\ FinPaced)'
  BY DEF Paced
<1>0. Calm /\ up
  BY DEF Calm
<1>1. /\ toHost \in Seq(Replies) /\ ~Doomed(toHost)
      /\ \/ toHost' = toHost
         \/ (OnZRQINIT \/ OnZEOF) /\ toHost' = Append(toHost, "ZRINIT")
         \/ OnZFILE /\ toHost' = Append(toHost, "ZRPOS")
         \/ OnSubpacket /\ toHost' = Append(toHost, "ZACK")
      /\ Len(Coming') + Len(toHost') <= Len(Coming) + Len(toHost)
  BY <1>0, SessionPace
<1>2. StartPaced /\ FilePaced /\ DataPaced /\ EofPaced /\ FinPaced
  BY <1>0, <1>1 DEF Paced
<1>3. PICK k \in 0..Len(Coming) : Coming' = Behind(Coming, k)
  BY SessionTaskMoves DEF Moved
<1>4. /\ \A X : Only(Coming, X) => Only(Coming', X)
      /\ \A X : Contains(Coming', X) => Contains(Coming, X)
      /\ \A X, Y : Follows(Coming', X, Y) => Follows(Coming, X, Y)
  BY <1>3, RestHolds
<1>5. \A e \in {"ZRINIT", "ZRPOS", "ZACK"} : e \in Replies
  BY DEF Replies
<1>6. Len(Coming) \in Nat /\ Len(toHost) \in Nat /\ Len(Coming') \in Nat /\ Len(toHost') \in Nat
      /\ Coming \in Seq(Tokens) /\ ZmodemTypeOK
  <2>1. Coming \in Seq(Tokens) /\ Len(Coming') = Len(Coming) - k
    BY <1>3, ComingFacts, BehindFacts DEF ZmodemTypes
  <2>2. \A e \in Replies : Append(toHost, e) \in Seq(Replies)
    BY <1>1, OneMore
  <2>3. toHost' \in Seq(Replies)
    BY <2>2, <1>1, <1>5
  <2> QED BY <2>1, <2>3, <1>1 DEF ZmodemTypes
<1>7. OnZRQINIT \/ OnZEOF \/ OnZFILE \/ OnSubpacket => buf # <<>>
  BY DEF OnZRQINIT, OnZEOF, OnZFILE, OnSubpacket, Header
<1>8. /\ OnZRQINIT => Head(buf).kind = "ZRQINIT"
      /\ OnZEOF => Head(buf).kind = "ZEOF"
      /\ OnZFILE => Head(buf).kind = "ZFILE"
      /\ OnSubpacket => Head(buf).kind = "sub"
  BY DEF OnZRQINIT, OnZEOF, OnZFILE, OnSubpacket, Header
<1>9. \A X, e : e \in Replies /\ toHost' = Append(toHost, e) /\ Only(toHost, X) /\ e \in X
        => Only(toHost', X)
  BY <1>1, OneMoreHolds
<1>10. StartPaced'
  BY <1>1, <1>2, <1>6 DEF StartPaced
<1>11. FilePaced'
  <2> SUFFICES ASSUME sz.stage = "file"
               PROVE  Len(Coming') + Len(toHost') <= 1 /\ Only(toHost', {"ZRPOS"}) /\ Only(Coming', Files)
    BY DEF FilePaced, Files
  <2>1. /\ Len(Coming) + Len(toHost) <= 1 /\ Only(toHost, {"ZRPOS"}) /\ Only(Coming, Files)
    BY <1>2 DEF FilePaced
  <2>2. buf # <<>> => Head(buf).kind = "ZFILE"
    BY <2>1, FirstIs DEF Files
  <2>3. Only(toHost', {"ZRPOS"})
    BY <2>1, <2>2, <1>1, <1>5, <1>7, <1>8, <1>9
  <2> QED BY <2>1, <2>3, <1>1, <1>4, <1>6
<1>12. DataPaced'
  <2> SUFFICES ASSUME sz.stage = "data"
               PROVE  ~Delivered(sz.file)' /\ Only(toHost', {"ZACK"}) /\ Only(Coming', Data)
    BY DEF DataPaced, Data
  <2>1. ~Delivered(sz.file) /\ Only(toHost, {"ZACK"}) /\ Only(Coming, Data)
    BY <1>2 DEF DataPaced
  <2>2. buf # <<>> => Head(buf).kind \in {"ZDATA", "sub"}
    BY <2>1, FirstIs DEF Data
  <2>3. Only(toHost', {"ZACK"})
    BY <2>1, <2>2, <1>1, <1>5, <1>7, <1>8, <1>9
  <2>4. ~Counts
    BY <2>2, <1>0, <1>7, <1>8 DEF Counts, SendFails
  <2>5. ~Delivered(sz.file)'
    BY <2>1, <2>4, SessionTaskRows DEF Delivered, SentKept
  <2> QED BY <2>1, <2>3, <2>5, <1>4
<1>13. ASSUME sz.stage = "eof", Delivered(sz.file) PROVE FALSE
  <2>1. Coming = <<>> /\ pc = "peek" /\ received > 0
    BY <1>2, <1>13 DEF EofPaced
  <2>2. buf = <<>> /\ fromHost = <<>>
    <3>1. buf \in Seq(Tokens) /\ fromHost \in Seq(Tokens) /\ Len(buf) \in 0..Len(Coming)
      BY <1>6, ComingFacts DEF ZmodemTypeOK
    <3>2. buf = <<>>
      BY <3>1, <2>1
    <3> QED BY <3>2, <2>1, <1>6, ComingFacts
  <2>3. PeekTimesOut
    BY <2>1, <2>2 DEF SessionTask, Receive, Fetch, NothingToRead, SkipGarbage,
       OnZRQINIT, OnZFILE, OnZDATA, OnSubpacket, SpoiltSubpacket, OnZEOF, Peek, OnZFIN,
       OnZABORT, DiskFails, SendFails, Drain, DrainEnds, SessionLoop, ReadOutput, TwoSecondsPass,
       SessionEnds, Header
  <2>4. GoodBye(<<>>) /\ <<>> \in Seq(Tokens)
    BY <2>3 DEF PeekTimesOut
  <2>5. toHost' = Append(Append(toHost, "ZRINIT"), "ZFIN")
    BY <2>1, <2>4, <1>0, <1>6, GoodByeFacts
  <2>6. Append(toHost, "ZRINIT") \in Seq(Replies) /\ "ZFIN" \in Replies /\ "ZFIN" \in Killers
    BY <1>1, <1>5, OneMore DEF Replies, Killers
  <2>7. Doomed(toHost')
    BY <2>5, <2>6, OneMoreReply
  <2> QED BY <2>7
<1>14. EofPaced'
  <2> SUFFICES ASSUME sz.stage = "eof" PROVE EofPaced'
    BY DEF EofPaced
  <2>1. ~Delivered(sz.file)
    BY <1>13
  <2>2. /\ Only(toHost, {"ZACK"})
        /\ Only(Coming, Data \cup Eofs) /\ ~Follows(Coming, Eofs, Tokens)
    BY <2>1, <1>2 DEF EofPaced
  <2>3. buf # <<>> => Head(buf).kind \in {"ZDATA", "sub", "ZEOF"}
    BY <2>2, FirstIs DEF Data, Eofs
  <2>4. CASE OnZEOF
    <3>1. /\ buf # <<>> /\ buf' = Tail(buf) /\ fromHost' = fromHost /\ pc' = "peek"
          /\ received' = received + (IF cur = 0 THEN 0 ELSE 1) /\ received \in Nat
          /\ Head(buf).kind = "ZEOF"
      BY <2>4, <1>6 DEF OnZEOF, CountFile, Header, ZmodemTypeOK
    <3>2. /\ Len(Coming) >= 1 /\ Coming' = Behind(Coming, 1) /\ Coming[1] = Head(buf)
          /\ Head(buf) \in Tokens /\ Only(Coming, OfTheFile)
          /\ Writing /\ cur # 0
      <4>1. Busy
        BY <2>1, <1>0, <1>1 DEF Busy, Calm
      <4> QED BY <4>1, <3>1, BusyMeans, TakesHead DEF SentKept
    <3>3. Coming' = <<>>
      <4>1. Only(Coming', Tokens \ Tokens)
        <5>1. Coming[1] \in Eofs
          BY <3>1, <3>2 DEF Eofs
        <5> QED BY <5>1, <3>2, <2>2, <1>6, BehindTheFirst
      <4>2. Coming' \in Seq(Tokens) /\ ~(Len(Coming') >= 1)
        <5>1. Coming' \in Seq(Tokens)
          BY <1>3, <1>6, BehindFacts
        <5> QED BY <5>1, <4>1, OnlyFirst
      <4> QED BY <4>2
    <3>4. received' > 0
      BY <3>1, <3>2
    <3>5. toHost' = Append(toHost, "ZRINIT")
      <4>1. send_hex(<<"ZRINIT">>)
        BY <2>4 DEF OnZEOF
      <4> QED BY <4>1, <1>0, <1>5, <1>6, SendsOne
    <3>6. Only(toHost', {"ZACK", "ZRINIT"}) /\ ~Follows(toHost', {"ZRINIT"}, Replies)
      <4>1. Only(toHost, {"ZACK", "ZRINIT"}) /\ ~Contains(toHost, {"ZRINIT"})
            /\ ~Follows(toHost, {"ZRINIT"}, Replies)
        BY <2>2 DEF Only, Contains, Follows
      <4> QED BY <4>1, <3>5, <1>1, <1>5, OneMoreHolds
    <3>7. Delivered(sz.file)'
      <4>1. rows \in Seq(Row) /\ cur \in 1..Len(rows)
        BY <3>2, TypeParts DEF RowsFit
      <4>2. /\ Len(rows') = Len(rows)
            /\ \A i \in 1..Len(rows) :
                 /\ rows'[i].run = rows[i].run /\ rows'[i].file = rows[i].file
                 /\ rows'[i].state = IF i = cur THEN "done" ELSE rows[i].state
        BY <2>4, TypeParts, CloseFacts DEF OnZEOF, CountFile, RowsFit
      <4> QED BY <4>1, <4>2, <3>2 DEF Delivered, Done, Writing
    <3> QED BY <3>1, <3>3, <3>4, <3>6, <3>7 DEF EofPaced
  <2>5. CASE ~OnZEOF
    <3>1. ~Delivered(sz.file)'
      BY <2>1, <2>5, <1>0, SessionTaskRows DEF Delivered, SentKept, Counts, SendFails
    <3>2. Only(toHost', {"ZACK"})
      BY <2>2, <2>3, <2>5, <1>1, <1>5, <1>7, <1>8, <1>9
    <3>3. Only(Coming', Data \cup Eofs) /\ ~Follows(Coming', Eofs, Tokens)
      BY <2>2, <1>4
    <3> QED BY <3>1, <3>2, <3>3 DEF EofPaced, Data, Eofs
  <2> QED BY <2>4, <2>5
<1>15. FinPaced'
  <2> SUFFICES ASSUME sz.stage = "fin"
               PROVE  toHost' = <<>> /\ pc' = "peek" /\ received' > 0 /\ FinAtMost'
    BY DEF FinPaced
  <2>1. toHost = <<>> /\ pc = "peek" /\ received > 0 /\ FinAtMost
    BY <1>2 DEF FinPaced
  <2>2. FinAtMost'
    BY <2>1, <1>4 DEF FinAtMost, Fins
  <2>3. buf # <<>> => Head(buf).kind = "ZFIN"
    BY <2>1, FirstIs DEF FinAtMost, Fins
  <2>4. ~PeekTimesOut /\ ~Peek
    <3>1. ASSUME NEW rest \in Seq(Tokens), GoodBye(rest) PROVE FALSE
      <4>1. toHost' = Append(Append(toHost, "ZRINIT"), "ZFIN")
        BY <3>1, <2>1, <1>0, <1>6, GoodByeFacts
      <4>2. Append(toHost, "ZRINIT") \in Seq(Replies) /\ "ZFIN" \in Replies /\ "ZFIN" \in Killers
        BY <1>1, <1>5, OneMore DEF Replies, Killers
      <4>3. Doomed(toHost')
        BY <4>1, <4>2, OneMoreReply
      <4> QED BY <4>3
    <3>2. PeekTimesOut => GoodBye(<<>>) /\ <<>> \in Seq(Tokens)
      BY DEF PeekTimesOut
    <3>3. Peek => buf # <<>> /\ GoodBye(Tail(buf))
      BY <2>3 DEF Peek
    <3> QED BY <3>1, <3>2, <3>3, HeadHolds
  <2>5. ~SkipGarbage
    BY <2>3 DEF SkipGarbage, IsFrame, Frames
  <2>6. \E n \in 1..Len(fromHost) : Fetch(n)
    BY <2>1, <2>4, <2>5 DEF SessionTask, Receive, NothingToRead,
       OnZRQINIT, OnZFILE, OnZDATA, OnSubpacket, SpoiltSubpacket, OnZEOF, OnZFIN,
       OnZABORT, DiskFails, SendFails, Drain, DrainEnds, SessionLoop, ReadOutput, TwoSecondsPass,
       SessionEnds, Header
  <2> QED BY <2>1, <2>2, <2>6 DEF Fetch
<1> QED BY <1>10, <1>11, <1>12, <1>14, <1>15


(* While at most a ZFIN is under way, the session task starts no receive that lasts, *)
(* and no prompt is lost.                                                            *)
QuietLine ==
  /\ Only(Coming, {t \in Tokens : IsFrame(t) => t.kind = "ZFIN"})
  /\ ~Follows(Coming, Tokens, HeaderTokens)

LEMMA FinIsQuiet == FinAtMost => QuietLine
<1>1. \A t \in Fins : t \in {u \in Tokens : IsFrame(u) => u.kind = "ZFIN"}
  BY DEF Fins
<1> QED BY <1>1 DEF FinAtMost, QuietLine, Only, Follows, HeaderTokens

LEMMA ShownIsNotLost ==
  ASSUME ZmodemTypes, NEW toks \in Seq(Tokens)
  PROVE  \A r \in RunIds : Mark(toks, "shown")[r] = "lost" => prompt[r] = "lost"
<1>1. \A r \in RunIds : Mark(toks, "shown")[r] = "shown" \/ Mark(toks, "shown")[r] = prompt[r]
  BY MarkType DEF ZmodemTypes
<1> QED BY <1>1

LEMMA TidyStep ==
  ASSUME ZmodemTypes, AtRest, Tidy, QuietLine, SessionTask, up \/ Coming # <<>>
  PROVE  Tidy' /\ \A r \in RunIds : prompt'[r] = "lost" => prompt[r] = "lost"
<1>0. /\ ZmodemTypeOK /\ buf \in Seq(Tokens) /\ fromHost \in Seq(Tokens)
      /\ Coming \in Seq(Tokens) /\ Len(Coming) \in Nat /\ (buf = <<>> => Coming = fromHost)
  BY ComingFacts DEF ZmodemTypes, ZmodemTypeOK
<1>a. ASSUME NEW rest \in Seq(Tokens), GoodBye(rest)
      PROVE  Tidy' /\ \A r \in RunIds : prompt'[r] = "lost" => prompt[r] = "lost"
  BY <1>a, <1>0, GoodByeFacts, ShownIsNotLost DEF Tidy
<1>1. ASSUME pc = "shell"
      PROVE  Tidy' /\ \A r \in RunIds : prompt'[r] = "lost" => prompt[r] = "lost"
  <2>1. ASSUME NEW n \in 1..Len(fromHost), ReadOutput(n)
        PROVE  Tidy' /\ \A r \in RunIds : prompt'[r] = "lost" => prompt[r] = "lost"
    <3>1. PICK d : d = SubSeq(fromHost, 1, n)
      OBVIOUS
    <3>2. buf = <<>> /\ Reads(n)
      BY <1>1, <2>1 DEF AtRest, ReadOutput
    <3>3. /\ d \in Seq(Tokens) /\ Len(d) = n /\ d # <<>> /\ n \in 1..Len(Coming)
          /\ \A i \in 1..n : i \in 1..Len(Coming) /\ d[i] = Coming[i]
      BY <3>1, <3>2, <1>0, TakesNone
    <3>4. CASE contains_zmodem_init(d) /\ ~cooling
      <4>1. pc' = "header" /\ buf' = d /\ prompt' = prompt
        BY <3>1, <3>4, <2>1 DEF ReadOutput
      <4>2. PICK i \in 1..n : IsFrame(d[i])
        BY <3>3, <3>4 DEF contains_zmodem_init
      <4>3. i \in 1..Len(Coming) /\ Coming[i] \in HeaderTokens /\ Coming[1] \in Tokens
            /\ 1 \in 1..Len(Coming)
        BY <3>3, <4>2, <1>0 DEF HeaderTokens
      <4>4. i = 1
        BY <4>3, <1>0 DEF QuietLine, Follows
      <4>5. d[1].kind = "ZFIN"
        BY <3>3, <4>2, <4>3, <4>4 DEF QuietLine, Only
      <4>6. Head(d) = d[1]
        BY <3>3
      <4> QED BY <3>3, <4>1, <4>5, <4>6 DEF Tidy
    <3>5. CASE ~(contains_zmodem_init(d) /\ ~cooling)
      <4>1. pc' = "shell" /\ prompt' = Mark(d, "shown")
        BY <3>1, <3>5, <1>1, <2>1 DEF ReadOutput
      <4> QED BY <4>1, <3>3, ShownIsNotLost DEF Tidy
    <3> QED BY <3>4, <3>5
  <2>2. ASSUME TwoSecondsPass
        PROVE  Tidy' /\ \A r \in RunIds : prompt'[r] = "lost" => prompt[r] = "lost"
    BY <1>1, <2>2 DEF TwoSecondsPass, Tidy
  <2>3. ~SessionEnds
    BY <1>0, <1>1 DEF SessionEnds, AtRest
  <2>4. ~Receive
    BY <1>1 DEF Receive, Receiving, Fetch, NothingToRead, SkipGarbage,
       OnZRQINIT, OnZFILE, OnZDATA, OnSubpacket, SpoiltSubpacket, OnZEOF, Peek, PeekTimesOut,
       OnZFIN, OnZABORT, DiskFails, SendFails, Drain, DrainEnds, Header
  <2> QED BY <2>1, <2>2, <2>3, <2>4 DEF SessionTask, SessionLoop
<1>2. ASSUME pc = "drain"
      PROVE  Tidy' /\ \A r \in RunIds : prompt'[r] = "lost" => prompt[r] = "lost"
  <2>1. ASSUME NEW n \in 1..Len(fromHost), Fetch(n)
        PROVE  Tidy' /\ \A r \in RunIds : prompt'[r] = "lost" => prompt[r] = "lost"
    BY <1>2, <2>1 DEF Fetch, Tidy
  <2>2. ASSUME Drain
        PROVE  Tidy' /\ \A r \in RunIds : prompt'[r] = "lost" => prompt[r] = "lost"
    <3>1. CASE pc' = "drain" /\ prompt' = prompt
      BY <3>1 DEF Tidy
    <3>2. CASE pc' = "shell" /\ prompt' = Mark(buf, "shown")
      BY <3>2, <1>0, ShownIsNotLost DEF Tidy
    <3>3. CASE pc' = "shell" /\ prompt' = [Mark(buf, "shown") EXCEPT ![Head(buf).run] = "cut"]
      <4>1. Mark(buf, "shown") \in [RunIds -> Fates]
        BY <1>0, MarkType
      <4>2. \A r \in RunIds : prompt'[r] = "cut" \/ prompt'[r] = Mark(buf, "shown")[r]
        BY <3>3, <4>1
      <4>3. \A r \in RunIds : Mark(buf, "shown")[r] = "lost" => prompt[r] = "lost"
        BY <1>0, ShownIsNotLost
      <4>4. \A r \in RunIds : prompt'[r] = "lost" => prompt[r] = "lost"
        BY <4>2, <4>3
      <4> QED BY <4>4, <3>3 DEF Tidy
    <3> QED BY <3>1, <3>2, <3>3, <1>2, <2>2 DEF Drain, Return
  <2>3. ASSUME DrainEnds
        PROVE  Tidy' /\ \A r \in RunIds : prompt'[r] = "lost" => prompt[r] = "lost"
    BY <2>3 DEF DrainEnds, Return, Tidy
  <2>4. ~SessionLoop
    BY <1>2 DEF SessionLoop, ReadOutput, TwoSecondsPass, SessionEnds
  <2> QED BY <1>2, <2>1, <2>2, <2>3, <2>4 DEF SessionTask, Receive, NothingToRead, SkipGarbage,
     OnZRQINIT, OnZFILE, OnZDATA, OnSubpacket, SpoiltSubpacket, OnZEOF, Peek, PeekTimesOut,
     OnZFIN, OnZABORT, DiskFails, SendFails, Header
<1>3. ASSUME pc = "header", buf # <<>>, Head(buf).kind = "ZFIN"
      PROVE  Tidy' /\ \A r \in RunIds : prompt'[r] = "lost" => prompt[r] = "lost"
  <2>1. OnZFIN
    BY <1>3 DEF SessionTask, SessionLoop, ReadOutput, TwoSecondsPass, SessionEnds, Receive,
       Fetch, NothingToRead, SkipGarbage, IsFrame, Frames,
       OnZRQINIT, OnZFILE, OnZDATA, OnSubpacket, SpoiltSubpacket, OnZEOF, Peek, PeekTimesOut,
       OnZABORT, DiskFails, SendFails, Drain, DrainEnds, Header
  <2>2. GoodBye(Tail(buf)) /\ Tail(buf) \in Seq(Tokens)
    BY <2>1, <1>3, HeadHolds DEF OnZFIN
  <2> QED BY <2>2, <1>a
<1> QED BY <1>1, <1>2, <1>3 DEF Tidy

(* How the receiver comes to say good-bye. *)
LEMMA SaysGoodBye ==
  ASSUME ZmodemTypes, SessionTask, up, ~Has(toHost, "ZFIN"), Has(toHost', "ZFIN")
  PROVE  /\ ~Doomed(toHost) /\ pc' = "drain"
         /\ pc = "peek" \/ (pc = "header" /\ buf # <<>> /\ Head(buf).kind = "ZFIN")
<1>0. /\ ZmodemTypeOK /\ toHost \in Seq(Replies)
      /\ {"ZRINIT", "ZACK", "CANCEL", "ZFIN", "ZRPOS"} \subseteq Replies
  BY DEF ZmodemTypes, ZmodemTypeOK, Replies
<1>1. ASSUME NEW e \in {"ZRINIT", "ZACK", "CANCEL", "ZRPOS"}
      PROVE  ~Has(Append(toHost, e), "ZFIN")
  BY <1>0, OneMoreReply
<1>2. toHost' = Append(Append(toHost, "ZRINIT"), "ZFIN")
  BY <1>1, SessionAnswers DEF QuietAnswers
<1>3. ~Doomed(toHost)
  <2>1. Append(toHost, "ZRINIT") \in Seq(Replies)
    BY <1>0, OneMore
  <2>2. ~Doomed(Append(toHost, "ZRINIT"))
    BY <2>1, <1>0, <1>1, <1>2, OneMoreReply
  <2> QED BY <2>2, <1>0, OneMoreReply
<1>4. \A e \in {"ZRINIT", "ZACK", "CANCEL", "ZRPOS"} : toHost' # Append(toHost, e)
  BY <1>1
<1>5. toHost' # toHost
  OBVIOUS
<1>6. ASSUME NEW rest \in Seq(Tokens), GoodBye(rest) PROVE pc' = "drain"
  BY <1>0, <1>5, <1>6, GoodByeFacts
<1>7. ~OnZRQINIT /\ ~OnZEOF /\ ~OnZFILE
  BY <1>0, <1>4, SendsOne DEF OnZRQINIT, OnZEOF, OnZFILE
<1>8. ~OnSubpacket
  <2>1. OnSubpacket => send_hex(<<"ZACK">>) \/ send_hex(<<>>)
    BY DEF OnSubpacket
  <2> QED BY <2>1, <1>0, <1>4, <1>5, SendsOne, SendsNone
<1>9. ~NothingToRead /\ ~SpoiltSubpacket /\ ~OnZABORT /\ ~DiskFails
  <2>1. ~send_hex(<<"CANCEL">>)
    BY <1>0, <1>4, SendsOne
  <2> QED BY <2>1 DEF NothingToRead, SpoiltSubpacket, OnZABORT, DiskFails, Bail
<1>10. /\ ~SkipGarbage /\ ~OnZDATA /\ ~Drain /\ ~DrainEnds /\ ~SessionLoop
       /\ \A n \in 1..Len(fromHost) : ~Fetch(n)
  BY <1>5 DEF Fetch, SkipGarbage, OnZDATA, Drain, DrainEnds,
     SessionLoop, ReadOutput, TwoSecondsPass, SessionEnds
<1>11. ASSUME Peek PROVE pc' = "drain" /\ pc = "peek"
  <2>1. pc = "peek" /\ buf # <<>> /\ GoodBye(Tail(buf))
    BY <1>5, <1>11 DEF Peek
  <2> QED BY <2>1, <1>6, HeadHolds
<1>12. ASSUME PeekTimesOut PROVE pc' = "drain" /\ pc = "peek"
  <2>1. pc = "peek" /\ GoodBye(<<>>) /\ <<>> \in Seq(Tokens)
    BY <1>12 DEF PeekTimesOut
  <2> QED BY <2>1, <1>6
<1>13. ASSUME OnZFIN PROVE pc' = "drain" /\ pc = "header" /\ buf # <<>> /\ Head(buf).kind = "ZFIN"
  <2>1. pc = "header" /\ buf # <<>> /\ Head(buf).kind = "ZFIN" /\ GoodBye(Tail(buf))
    BY <1>13 DEF OnZFIN, Header
  <2> QED BY <2>1, <1>6, HeadHolds
<1>14. ~SendFails
  BY DEF SendFails
<1> QED BY <1>3, <1>7, <1>8, <1>9, <1>10, <1>11, <1>12, <1>13, <1>14 DEF SessionTask, Receive

LEMMA SessionTaskSaysGoodBye ==
  ASSUME ZmodemTypes, AtRest, TokensAgree, DataOrdered, SentKept, Paced, GoodByeSaid,
         SessionTask, sz' = sz, up' = up, troubles \subseteq troubles'
  PROVE  GoodByeSaid'
<1> SUFFICES ASSUME Calm', Has(toHost', "ZFIN")
             PROVE  /\ sz.stage # "data"
                    /\ sz.stage \in {"file", "eof"} => ~Has(toHost', "ZRPOS")
                    /\ sz.stage = "eof" => Coming' = <<>> /\ pc' \in {"shell", "drain"}
                    /\ sz.stage = "fin" => Tidy' /\ FinAtMost'
  BY DEF GoodByeSaid
<1>0. /\ Calm /\ up /\ toHost \in Seq(Replies) /\ ZmodemTypeOK
      /\ Coming \in Seq(Tokens) /\ buf \in Seq(Tokens)
  BY ComingFacts, TypeParts DEF Calm, LineFits, ZmodemTypes
<1>1. PICK k \in 0..Len(Coming) : Coming' = Behind(Coming, k)
  BY SessionTaskMoves DEF Moved
<1>2. /\ \A X : Only(Coming, X) => Only(Coming', X)
      /\ \A X, Y : Follows(Coming', X, Y) => Follows(Coming, X, Y)
  BY <1>1, RestHolds
<1>3. FinAtMost => FinAtMost'
  BY <1>2 DEF FinAtMost, Fins
<1>4. Coming = <<>> => Coming' = <<>>
  <2>1. Coming' \in Seq(Tokens) /\ Len(Coming') = Len(Coming) - k
    BY <1>0, <1>1, BehindFacts
  <2> QED BY <2>1, <1>1
<1>5. Coming = <<>> => buf = <<>> /\ fromHost = <<>>
  <2>1. Len(buf) \in 0..Len(Coming) /\ (buf = <<>> => Coming = fromHost)
    BY <1>0, ComingFacts
  <2> QED BY <2>1, <1>0
<1>6. CASE Has(toHost, "ZFIN")
  <2>1. /\ sz.stage # "data"
        /\ sz.stage \in {"file", "eof"} => ~Has(toHost, "ZRPOS")
        /\ sz.stage = "eof" => Coming = <<>> /\ pc \in {"shell", "drain"}
        /\ sz.stage = "fin" => Tidy /\ FinAtMost
    BY <1>0, <1>6 DEF GoodByeSaid
  <2>2. Doomed(toHost)
    BY <1>0, <1>6, HasKiller DEF Killers
  <2>3. Has(toHost', "ZRPOS") => Has(toHost, "ZRPOS")
    <3>1. toHost' \in QuietAnswers(toHost) => (Has(toHost', "ZRPOS") => Has(toHost, "ZRPOS"))
      BY <1>0, QuietOnes DEF Quiet
    <3>2. "ZRPOS" \in Replies
      BY DEF Replies
    <3>3. toHost' = Append(toHost, "ZRPOS") => (Has(toHost', "ZRPOS") => Has(toHost, "ZRPOS"))
      BY <3>2, <2>2, <1>0, OneMoreReply
    <3> QED BY <3>1, <3>3, <1>0, SessionAnswers
  <2>4. ASSUME sz.stage = "eof" PROVE pc' \in {"shell", "drain"}
    <3>1. Tidy /\ QuietLine
      <4>1. Only(<<>>, Fins) /\ ~Follows(<<>>, Tokens, Tokens)
        <5>1. 1..Len(<<>>) = {}
          OBVIOUS
        <5> QED BY <5>1 DEF Only, Follows
      <4> QED BY <4>1, <2>1, <2>4, FinIsQuiet DEF Tidy, FinAtMost
    <3>2. Tidy'
      BY <3>1, <1>0, TidyStep
    <3>3. pc' # "header" \/ buf' = <<>>
      <4>1. Coming = <<>> /\ pc \in {"shell", "drain"} /\ fromHost = <<>>
        BY <2>1, <2>4, <1>5
      <4>2. 1..Len(fromHost) = {}
        BY <4>1
      <4> QED BY <4>1, <4>2 DEF SessionTask, SessionLoop, ReadOutput, TwoSecondsPass, SessionEnds,
         Receive, Fetch, NothingToRead, SkipGarbage, OnZRQINIT, OnZFILE, OnZDATA, OnSubpacket,
         SpoiltSubpacket, OnZEOF, Peek, PeekTimesOut, OnZFIN, OnZABORT, DiskFails, SendFails, Drain,
         DrainEnds, Header, Return
    <3> QED BY <3>2, <3>3 DEF Tidy
  <2>5. sz.stage = "fin" => Tidy'
    BY <2>1, <1>0, FinIsQuiet, TidyStep
  <2> QED BY <2>1, <2>3, <2>4, <2>5, <1>3, <1>4
<1>7. CASE ~Has(toHost, "ZFIN")
  <2>1. /\ ~Doomed(toHost) /\ pc' = "drain"
        /\ pc = "peek" \/ (pc = "header" /\ buf # <<>> /\ Head(buf).kind = "ZFIN")
    BY <1>0, <1>7, SaysGoodBye
  <2>2. StartPaced /\ FilePaced /\ DataPaced /\ EofPaced /\ FinPaced
    BY <2>1, <1>0 DEF Paced
  <2>3. ~Busy
    <3>1. ASSUME Busy PROVE FALSE
      <4>1. pc \in {"header", "data"} /\ Only(Coming, OfTheFile)
        BY <3>1, BusyMeans DEF SentKept
      <4>2. buf # <<>> => Head(buf).kind # "ZFIN"
        BY <4>1, FirstIs DEF OfTheFile, NewTokens
      <4> QED BY <4>1, <4>2, <2>1
    <3> QED BY <3>1
  <2>4. sz.stage # "data"
    BY <2>1, <2>2, <2>3, <1>0 DEF Busy, DataPaced
  <2>5. Tidy'
    BY <2>1 DEF Tidy
  <2>6. sz.stage = "eof" => Delivered(sz.file)
    BY <2>1, <2>3, <1>0 DEF Busy
  <2>7. sz.stage = "eof" => Coming = <<>> /\ ~Has(toHost, "ZRPOS")
    BY <2>2, <2>6 DEF EofPaced, Only, Has
  <2>8. sz.stage = "file" => ~Has(toHost, "ZRPOS")
    BY <2>1, <2>3, <1>0 DEF Busy
  <2>9. Has(toHost', "ZRPOS") => Has(toHost, "ZRPOS")
    <3>1. toHost' \in QuietAnswers(toHost)
      <4>1. ASSUME OnZFILE PROVE FALSE
        BY <4>1, <2>1 DEF OnZFILE, Header
      <4> QED BY <4>1, <1>0, SessionAnswers
    <3> QED BY <3>1, <1>0, QuietOnes DEF Quiet
  <2>10. sz.stage = "fin" => FinAtMost
    BY <2>2 DEF FinPaced
  <2> QED BY <2>1, <2>4, <2>5, <2>7, <2>8, <2>9, <2>10, <1>3, <1>4
<1> QED BY <1>6, <1>7


(* The session task loses no prompt of a transfer that went well. *)
LEMMA SessionTaskPrompts ==
  ASSUME ZmodemTypes, AtRest, TokensAgree, PromptIsKept, PromptComes, SessionTask,
         troubles \subseteq troubles'
  PROVE  PromptIsKept' /\ PromptComes'
<1>1. PICK k \in 0..Len(Coming) : Moved(k)
  BY SessionTaskMoves
<1>2. sz' = sz /\ exit' = exit /\ Coming' = Behind(Coming, k) /\ Marked(k)
  BY <1>1, SessionTaskMoves DEF Moved
<1>3. Coming \in Seq(Tokens) /\ sz.run \in 0..Runs
  BY ComingFacts, SenderTypes DEF ZmodemTypes
<1>4. /\ \A X : Only(Coming, X) => Only(Coming', X)
      /\ \A X, Y : Follows(Coming', X, Y) => Follows(Coming, X, Y)
  BY <1>2, RestHolds
<1>5. ASSUME "early" \notin troubles', Gone, sz.run > 0, exit[sz.run] = "ok",
             prompt[sz.run] = "none"
      PROVE  /\ Tidy' /\ Tidy /\ QuietLine
             /\ \A r \in RunIds : prompt'[r] = "lost" => prompt[r] = "lost"
  <2>1. Coming # <<>>
    <3>1. Contains(Coming, Texts)
      BY <1>5 DEF TokensAgree, PromptDue
    <3>2. 1..Len(<<>>) = {}
      OBVIOUS
    <3> QED BY <3>1, <3>2 DEF Contains
  <2>2. Tidy /\ QuietLine
    BY <1>5 DEF PromptComes, QuietLine
  <2> QED BY <2>1, <2>2, TidyStep
<1>6. PromptIsKept'
  <2> SUFFICES ASSUME "early" \notin troubles', NEW r \in RunIds, exit[r] = "ok",
                      prompt'[r] = "lost"
               PROVE  FALSE
    BY <1>2 DEF PromptIsKept
  <2>1. prompt[r] # "lost"
    BY DEF PromptIsKept
  <2>2. PICK i \in 1..k : IsText(Coming[i]) /\ Coming[i].run = r
    BY <2>1, <1>2 DEF Marked
  <2>3. i \in 1..Len(Coming) /\ Coming[i] \in Tokens
    BY <1>1, <1>3, <2>2
  <2>4. r = sz.run
    BY <2>2, <2>3 DEF TokensAgree, OfThisRun, Only
  <2>5. Contains(Coming, Texts)
    BY <2>2, <2>3 DEF Contains, Texts
  <2>6. Gone /\ Coming # <<>> /\ sz.run > 0
    BY <2>3, <2>4, <2>5 DEF TokensAgree, PromptLast, RunIds
  <2>7. prompt[sz.run] = "none"
    BY <2>6 DEF TokensAgree, PromptDue
  <2> QED BY <2>1, <2>4, <2>6, <2>7, <1>5
<1>7. PromptComes'
  <2> SUFFICES ASSUME "early" \notin troubles', Gone, sz.run > 0, exit[sz.run] = "ok",
                      prompt'[sz.run] = "none"
               PROVE  /\ Tidy' /\ Only(Coming', {t \in Tokens : IsFrame(t) => t.kind = "ZFIN"})
                      /\ ~Follows(Coming', Tokens, HeaderTokens)
    BY <1>2 DEF PromptComes, Gone, HeaderTokens
  <2>1. prompt[sz.run] = "none"
    <3>1. sz.run \in RunIds
      BY <1>3 DEF RunIds
    <3> QED BY <3>1, <1>2 DEF Marked
  <2>2. Tidy' /\ QuietLine
    BY <2>1, <1>5
  <2> QED BY <2>2, <1>4 DEF QuietLine
<1> QED BY <1>6, <1>7

-----------------------------------------------------------------------------
(* The far side. *)
LEMMA PromptStays ==
  ASSUME PromptIsKept, prompt' = prompt, troubles \subseteq troubles',
         \A r \in RunIds : exit'[r] = "ok" => exit[r] = "ok" \/ prompt[r] = "none"
  PROVE  PromptIsKept'
  BY DEF PromptIsKept

LEMMA LeavePrompts ==
  ASSUME ZmodemTypes, PromptIsKept, ~Gone, UNCHANGED receiver, NEW toks, Leave(sz, toks, "error"),
         troubles \subseteq troubles'
  PROVE  PromptKept'
<1>1. /\ sz' = [sz EXCEPT !.stage = "gone", !.open = FALSE]
      /\ exit' = [exit EXCEPT ![sz.run] = "error"] /\ prompt' = prompt
  BY DEF Leave, receiver
<1>2. sz'.stage = "gone" /\ sz'.run = sz.run /\ sz.run \in RunIds
  BY <1>1, SenderTypes, RunType DEF ZmodemTypes
<1>3. exit \in [RunIds -> {"none", "ok", "error"}]
  BY DEF ZmodemTypes, ZmodemTypeOK
<1>4. /\ exit'[sz.run] = "error"
      /\ \A r \in RunIds : exit'[r] = "ok" => exit[r] = "ok"
  BY <1>1, <1>2, <1>3
<1>5. PromptIsKept'
  BY <1>1, <1>4, PromptStays
<1>6. Paced' /\ GoodByeSaid'
  BY <1>2 DEF Paced, StartPaced, FilePaced, DataPaced, EofPaced, FinPaced, GoodByeSaid
<1>7. PromptComes'
  BY <1>2, <1>4 DEF PromptComes
<1> QED BY <1>5, <1>6, <1>7 DEF PromptKept

(* One token under way. *)
LEMMA OnlyToken ==
  ASSUME NEW t \in Tokens, NEW X, t \in X
  PROVE  /\ Append(<<>>, t) \in Seq(Tokens) /\ Len(Append(<<>>, t)) = 1
         /\ Only(Append(<<>>, t), X) /\ \A Y, Z : ~Follows(Append(<<>>, t), Y, Z)
<1>1. PICK s : s = Append(<<>>, t)
  OBVIOUS
<1>2. s \in Seq(Tokens) /\ Len(s) = 1 /\ s[1] = t
  BY <1>1
<1>3. \A i \in 1..Len(s) : i = 1
  BY <1>2
<1>4. Only(s, X) /\ \A Y, Z : ~Follows(s, Y, Z)
  BY <1>2, <1>3 DEF Only, Follows
<1> QED BY <1>1, <1>2, <1>4

LEMMA NoToken ==
  /\ \A X : Only(<<>>, X) /\ ~Contains(<<>>, X)
  /\ \A Y, Z : ~Follows(<<>>, Y, Z)
  /\ \A k : ~Has(<<>>, k)
<1>1. 1..Len(<<>>) = {}
  OBVIOUS
<1> QED BY <1>1 DEF Only, Contains, Follows, Has


LEMMA NothingToReply ==
  ASSUME NEW h \in Seq(Replies), h # <<>>
  PROVE  /\ Len(h) \in Nat /\ Len(h) >= 1 /\ Len(Tail(h)) = Len(h) - 1 /\ h[1] = Head(h)
         /\ \A X : Only(h, X) => Only(Tail(h), X) /\ Head(h) \in X
         /\ \A X, Y : Follows(Tail(h), X, Y) => Follows(h, X, Y)
         /\ \A X : Head(h) \in X /\ ~Follows(h, X, Replies) => Tail(h) = <<>>
         /\ Len(h) <= 1 => Tail(h) = <<>>
<1>a. PICK x : x = Tail(h)
  OBVIOUS
<1>1. x \in Seq(Replies) /\ x = Tail(h) /\ Len(x) = Len(h) - 1 /\ Len(x) \in Nat
      /\ \A i \in 1..Len(x) : i + 1 \in 1..Len(h) /\ x[i] = h[i + 1]
  BY <1>a, TailFacts
<1>2. Len(h) \in Nat /\ Len(h) >= 1 /\ h[1] = Head(h) /\ 1 \in 1..Len(h)
  OBVIOUS
<1>3. \A X : Only(h, X) => Only(x, X) /\ Head(h) \in X
  BY <1>1, <1>2 DEF Only
<1>4. ASSUME NEW X, NEW Y, Follows(x, X, Y) PROVE Follows(h, X, Y)
  <2>1. PICK i, j \in 1..Len(x) : i < j /\ x[i] \in X /\ x[j] \in Y
    BY <1>4 DEF Follows
  <2>2. i + 1 \in 1..Len(h) /\ j + 1 \in 1..Len(h) /\ i + 1 < j + 1
        /\ h[i + 1] \in X /\ h[j + 1] \in Y
    BY <2>1, <1>1
  <2> QED BY <2>2 DEF Follows
<1>5. ASSUME x # <<>>, NEW X, Head(h) \in X PROVE Follows(h, X, Replies)
  <2>1. Len(x) >= 1
    BY <1>1, <1>5
  <2>2. 2 \in 1..Len(h) /\ h[2] \in Replies /\ 1 < 2
    BY <2>1, <1>1, <1>2
  <2> QED BY <2>2, <1>2, <1>5 DEF Follows
<1>6. Len(h) <= 1 => x = <<>>
  BY <1>1, <1>2
<1> QED BY <1>1, <1>2, <1>3, <1>4, <1>5, <1>6

(* The far side goes on talking, and neither leaves nor is answered. *)
LEMMA StartPrompts ==
  ASSUME ZmodemTypes, TokensAgree, PromptKept, StartSz
  PROVE  PromptKept'
<1>1. /\ prompt' = prompt /\ exit' = exit /\ troubles' = troubles /\ toHost' = <<>>
      /\ sz'.stage = "init" /\ Gone /\ (sz.run > 0 => prompt[sz.run] # "none")
  BY DEF StartSz, receiver, Gone
<1>2. Coming = <<>>
  BY <1>1, SenderNumbers DEF TokensAgree, PromptDue
<1>3. PICK t : t = Token(sz', "ZRQINIT", 0, "none")
  OBVIOUS
<1>4. t \in Tokens /\ Coming' = Append(<<>>, t)
  BY <1>2, <1>3, StartSays
<1>5. Len(Coming') = 1 /\ Len(toHost') = 0
  BY <1>1, <1>4, OnlyToken
<1>6. Paced'
  BY <1>1, <1>5 DEF Paced, StartPaced, FilePaced, DataPaced, EofPaced, FinPaced
<1>7. GoodByeSaid'
  BY <1>1, NoToken DEF GoodByeSaid
<1>8. PromptIsKept'
  BY <1>1, PromptStays DEF PromptKept
<1>9. PromptComes'
  BY <1>1 DEF PromptComes, Gone
<1> QED BY <1>6, <1>7, <1>8, <1>9 DEF PromptKept

LEMMA SendPrompts ==
  ASSUME ZmodemTypes, TokensAgree, SentKept, PromptKept, SendChunk \/ SendEof
  PROVE  PromptKept'
<1>1. /\ UNCHANGED receiver /\ prompt' = prompt /\ exit' = exit /\ troubles' = troubles
      /\ toHost' = toHost /\ up' = up /\ rows' = rows /\ buf' = buf
  BY DEF SendChunk, SendEof, receiver
<1>2. /\ sz.stage = "data" /\ sz'.run = sz.run /\ sz'.file = sz.file
      /\ sz'.stage \in {"data", "eof"}
  BY ChunkAdds, EofAdds
<1>3. PromptIsKept'
  BY <1>1, PromptStays DEF PromptKept
<1>4. PromptComes'
  BY <1>2 DEF PromptComes, Gone
<1>5. GoodByeSaid'
  <2>1. ~(Calm /\ Has(toHost, "ZFIN"))
    BY <1>2 DEF PromptKept, GoodByeSaid
  <2>2. ~(Calm' /\ Has(toHost', "ZFIN"))
    BY <2>1, <1>1 DEF Calm
  <2> QED BY <2>2 DEF GoodByeSaid
<1>6. ASSUME Calm', ~Doomed(toHost')
      PROVE  ~Delivered(sz.file) /\ ~Delivered(sz.file)' /\ Only(toHost', {"ZACK"}) /\ Only(Coming, Data)
  <2>1. DataPaced
    BY <1>1, <1>6 DEF PromptKept, Paced, Calm
  <2> QED BY <2>1, <1>1, <1>2 DEF DataPaced, Delivered, Done
<1>7. ASSUME SendChunk PROVE Paced'
  <2>1. Adds(NewTokens(sz.file, {"ZDATA", "sub"})) /\ sz'.stage = "data"
    BY <1>7, ChunkAdds
  <2>2. NewTokens(sz.file, {"ZDATA", "sub"}) \subseteq Data
    BY DEF NewTokens, Data
  <2>3. Only(Coming, Data) => Only(Coming', Data)
    BY <2>1, <2>2, AddedHold
  <2> QED BY <2>1, <2>3, <1>2, <1>6 DEF Paced, StartPaced, FilePaced, DataPaced, EofPaced, FinPaced, Data
<1>8. ASSUME SendEof PROVE Paced'
  <2>1. sz'.stage = "eof"
    BY <1>8, EofAdds
  <2>2. PICK t \in Tokens :
          /\ t.kind = "ZEOF"
          /\ \/ Coming' = Append(Coming, t)
             \/ \E u \in Tokens : u.kind = "sub" /\ Coming' = Append(Append(Coming, u), t)
    BY <1>8, EofSays
  <2>3. /\ Coming \in Seq(Tokens) /\ t \in Eofs /\ t \in Data \cup Eofs
        /\ \A u \in Tokens : u.kind = "sub" => u \in Data /\ u \in Data \cup Eofs /\ u \notin Eofs
    BY <2>2, ComingFacts DEF Eofs, Data, ZmodemTypes
  <2>4. ASSUME Only(Coming, Data)
        PROVE  Only(Coming, Data \cup Eofs) /\ ~Contains(Coming, Eofs) /\ ~Follows(Coming, Eofs, Tokens)
    BY <2>4 DEF Only, Contains, Follows, Data, Eofs
  <2>5. ASSUME NEW s \in Seq(Tokens), Only(s, Data \cup Eofs), ~Contains(s, Eofs),
               ~Follows(s, Eofs, Tokens)
        PROVE  Only(Append(s, t), Data \cup Eofs) /\ ~Follows(Append(s, t), Eofs, Tokens)
    BY <2>5, <2>3, OneMoreHolds
  <2>6. ASSUME NEW u \in Tokens, u.kind = "sub", Only(Coming, Data)
        PROVE  /\ Append(Coming, u) \in Seq(Tokens)
               /\ Only(Append(Coming, u), Data \cup Eofs) /\ ~Contains(Append(Coming, u), Eofs)
               /\ ~Follows(Append(Coming, u), Eofs, Tokens)
    BY <2>6, <2>3, <2>4, OneMore, OneMoreHolds
  <2>7. Only(Coming, Data) => Only(Coming', Data \cup Eofs) /\ ~Follows(Coming', Eofs, Tokens)
    BY <2>2, <2>3, <2>4, <2>5, <2>6
  <2>8. EofPaced' \/ ~Calm' \/ Doomed(toHost')
    BY <2>1, <2>7, <1>2, <1>6 DEF EofPaced, Data, Eofs
  <2> QED BY <2>1, <2>8 DEF Paced, StartPaced, FilePaced, DataPaced, FinPaced
<1> QED BY <1>3, <1>4, <1>5, <1>7, <1>8 DEF PromptKept

LEMMA RepeatPrompts ==
  ASSUME ZmodemTypes, AtRest, SentKept, PromptKept, RepeatQuiet
  PROVE  PromptKept'
<1>1. /\ UNCHANGED receiver /\ prompt' = prompt /\ exit' = exit /\ troubles' = troubles
      /\ toHost = <<>> /\ toHost' = <<>> /\ up' = up /\ up /\ buf' = buf /\ sz' = sz
      /\ pc = "shell" /\ Coming = <<>> /\ Unanswered /\ RepeatHeader
  <2>1. pc = "shell" /\ fromHost = <<>> /\ buf = <<>>
    BY DEF RepeatQuiet, AtRest
  <2>2. Coming = <<>>
    BY <2>1, ComingFacts DEF ZmodemTypes
  <2> QED BY <2>1, <2>2 DEF RepeatQuiet, receiver, sender
<1>2. PICK t \in Tokens :
        /\ <<sz.stage, t.kind>> \in {<<"init", "ZRQINIT">>, <<"file", "ZFILE">>,
                                     <<"eof", "ZEOF">>, <<"fin", "ZFIN">>}
        /\ Coming' = Append(<<>>, t)
  BY <1>1, HeaderSays
<1>3. PromptIsKept'
  BY <1>1, PromptStays DEF PromptKept
<1>4. PromptComes'
  BY <1>1, <1>2 DEF PromptComes, Gone
<1>5. GoodByeSaid'
  BY <1>1, NoToken DEF GoodByeSaid
<1>6. ~Doomed(<<>>) /\ Len(<<>>) = 0
  <2>1. 1..Len(<<>>) = {}
    OBVIOUS
  <2> QED BY <2>1 DEF Doomed
<1>7. Len(Coming') = 1
  BY <1>2, OnlyToken
<1>8. sz.stage = "file" => Only(Coming', Files)
  <2>1. sz.stage = "file" => t \in Files
    BY <1>2 DEF Files
  <2> QED BY <2>1, <1>2, OnlyToken
<1>9. sz.stage \notin {"data", "gone"}
  BY <1>2
<1>10. Calm => sz.stage \notin {"eof", "fin"}
  <2>1. ASSUME Calm PROVE EofPaced /\ FinPaced
    BY <2>1, <1>1, <1>6 DEF PromptKept, Paced
  <2>2. Calm /\ sz.stage = "eof" => ~Delivered(sz.file)
    BY <2>1, <1>1 DEF EofPaced
  <2>3. sz.stage = "eof" => Delivered(sz.file)
    BY <1>1, <1>6 DEF SentKept, FileSent
  <2>4. Calm => sz.stage # "fin"
    BY <2>1, <1>1 DEF FinPaced
  <2> QED BY <2>2, <2>3, <2>4
<1>11. Paced'
  <2>1. Calm' => Calm
    BY <1>1 DEF Calm
  <2>2. StartPaced' /\ FilePaced'
    BY <1>1, <1>6, <1>7, <1>8, NoToken DEF StartPaced, FilePaced, Files
  <2>3. Calm' => DataPaced' /\ EofPaced' /\ FinPaced'
    BY <2>1, <1>1, <1>9, <1>10 DEF DataPaced, EofPaced, FinPaced
  <2> QED BY <2>2, <2>3 DEF Paced
<1> QED BY <1>3, <1>4, <1>5, <1>11 DEF PromptKept


(* The sender reads an answer. *)
LEMMA AnswerPrompts ==
  ASSUME ZmodemTypes, AtRest, TokensAgree, SentKept, PromptKept, ReadAnswer
  PROVE  PromptKept'
<1>0. /\ toHost \in Seq(Replies) /\ toHost # <<>> /\ toHost' = Tail(toHost)
      /\ Head(toHost) \in Replies /\ UNCHANGED receiver /\ up' = up /\ up
      /\ troubles' = troubles /\ Answered(Head(toHost)) /\ buf' = buf /\ prompt' = prompt
      /\ rows' = rows /\ pc' = pc /\ received' = received
  BY AnswerRead DEF receiver
<1>1. /\ Len(toHost) \in Nat /\ Len(toHost) >= 1 /\ Len(toHost') = Len(toHost) - 1
      /\ \A X : Only(toHost, X) => Only(toHost', X) /\ Head(toHost) \in X
      /\ \A X, Y : Follows(toHost', X, Y) => Follows(toHost, X, Y)
      /\ \A X : Head(toHost) \in X /\ ~Follows(toHost, X, Replies) => toHost' = <<>>
      /\ Len(toHost) <= 1 => toHost' = <<>>
  BY <1>0, NothingToReply
<1>2. ASSUME Head(toHost) \notin Killers
      PROVE  /\ Doomed(toHost') <=> Doomed(toHost)
             /\ \A k : Has(toHost', k) => Has(toHost, k)
  BY <1>0, <1>2, ReplyRead
<1>3. Has(toHost, Head(toHost))
  BY <1>0, ReplyRead
<1>4. /\ Calm' <=> Calm
      /\ Coming \in Seq(Tokens) /\ Len(Coming) \in Nat
      /\ (Len(Coming) = 0 => Coming = <<>>) /\ Len(<<>>) = 0
      /\ "ZRINIT" \notin Killers /\ "ZRPOS" \notin Killers
  BY <1>0, ComingFacts DEF Calm, ZmodemTypes, Killers
<1>5. Calm /\ ~Doomed(toHost) => StartPaced /\ FilePaced /\ DataPaced /\ EofPaced /\ FinPaced
  BY DEF PromptKept, Paced
<1>6. Calm /\ Has(toHost, "ZFIN") =>
        /\ sz.stage # "data"
        /\ sz.stage \in {"file", "eof"} => ~Has(toHost, "ZRPOS")
        /\ sz.stage = "eof" => Coming = <<>> /\ pc \in {"shell", "drain"}
        /\ sz.stage = "fin" => Tidy /\ FinAtMost
  BY DEF PromptKept, GoodByeSaid
<1>7. PromptIsKept /\ (exit' = exit => PromptIsKept')
  BY <1>0, PromptStays DEF PromptKept
<1>8. sz'.stage # "gone" => PromptComes'
  BY DEF PromptComes, Gone
<1>9. ASSUME ~Gone, Leave(sz, <<>>, "error") PROVE PromptKept'
  BY <1>0, <1>7, <1>9, LeavePrompts
<1>10. ASSUME Head(toHost) = "ZFIN", sz.stage = "fin",
              Leave(sz, <<Token(sz, "OO", 0, "none")>>, "ok")
       PROVE  PromptKept'
  <2>1. ~Gone /\ sz.run \in RunIds /\ sz.run > 0
    BY <1>10, RunType DEF Gone, RunIds
  <2>2. /\ sz' = [sz EXCEPT !.stage = "gone", !.open = FALSE]
        /\ exit' = [exit EXCEPT ![sz.run] = "ok"]
    BY <1>10 DEF Leave
  <2>3. sz'.stage = "gone" /\ sz'.run = sz.run
    BY <2>2, SenderTypes DEF ZmodemTypes
  <2>4. Paced' /\ GoodByeSaid'
    BY <2>3 DEF Paced, StartPaced, FilePaced, DataPaced, EofPaced, FinPaced, GoodByeSaid
  <2>5. PromptIsKept'
    <3>1. exit \in [RunIds -> {"none", "ok", "error"}]
      BY DEF ZmodemTypes, ZmodemTypeOK
    <3>2. \A r \in RunIds : exit'[r] = "ok" => exit[r] = "ok" \/ r = sz.run
      BY <2>2, <3>1
    <3>3. prompt[sz.run] = "none"
      BY <2>1 DEF TokensAgree, PromptDue
    <3> QED BY <3>2, <3>3, <1>0, <1>7, PromptStays
  <2>6. ASSUME Calm PROVE PromptComes'
    <3>1. Tidy /\ FinAtMost
      BY <2>6, <1>3, <1>6, <1>10
    <3>2. Tidy'
      BY <3>1, <1>0 DEF Tidy
    <3>3. PICK Y : Y = {t \in Tokens : ~IsFrame(t)}
      OBVIOUS
    <3>4. Y \cap HeaderTokens = {} /\ Y \subseteq {t \in Tokens : IsFrame(t) => t.kind = "ZFIN"}
      BY <3>3 DEF HeaderTokens
    <3>5. Adds(Y)
      <4>1. PICK p \in Tokens :
              /\ p.kind = "text"
              /\ \/ Coming' = Append(Coming, p)
                 \/ \E t \in Tokens :
                      /\ <<Token(sz, "OO", 0, "none")>> = <<Token(sz, t.kind, 0, "none")>>
                      /\ Coming' = Append(Append(Coming, t), p)
        <5>1. "ok" \in {"ok", "error"} /\ "OO" \in LastWords
          BY DEF LastWords
        <5> QED BY <5>1, <1>0, <1>10, <2>1, LeaveSays
      <4>2. p \in Y
        BY <4>1, <3>3 DEF IsFrame, Frames
      <4>3. ASSUME NEW t \in Tokens,
                   <<Token(sz, "OO", 0, "none")>> = <<Token(sz, t.kind, 0, "none")>>
            PROVE  t \in Y
        <5>1. Token(sz, "OO", 0, "none") = Token(sz, t.kind, 0, "none")
          BY <4>3
        <5>2. t.kind = "OO"
          BY <5>1 DEF Token
        <5> QED BY <5>2, <3>3 DEF IsFrame, Frames
      <4> QED BY <4>1, <4>2, <4>3 DEF Adds
    <3>6. QuietLine'
      <4>1. QuietLine
        BY <3>1, FinIsQuiet
      <4>2. Only(Coming', {t \in Tokens : IsFrame(t) => t.kind = "ZFIN"})
        BY <4>1, <3>4, <3>5, AddedHold DEF QuietLine
      <4>3. ~Follows(Coming', Tokens, HeaderTokens)
        BY <4>1, <3>4, <3>5, AddedFollows DEF QuietLine
      <4> QED BY <4>2, <4>3 DEF QuietLine, HeaderTokens
    <3> QED BY <3>2, <3>6 DEF PromptComes, QuietLine
  <2>7. ~Calm => PromptComes'
    BY <1>0 DEF Calm, PromptComes
  <2> QED BY <2>4, <2>5, <2>6, <2>7 DEF PromptKept
<1>11. ASSUME Head(toHost) = "ZRINIT", exit' = exit, NEW f \in FileIds, SendFile(sz, f),
              sz.stage \in {"init", "file", "eof"}
       PROVE  PromptKept'
  <2>1. ~Gone /\ sz'.stage = "file"
    BY <1>0, <1>11, FileAdds DEF Gone
  <2>2. ASSUME Calm, ~Doomed(toHost) PROVE FilePaced'
    <3>1. Coming = <<>> /\ toHost' = <<>>
      <4>1. CASE sz.stage = "init"
        BY <4>1, <2>2, <1>1, <1>4, <1>5 DEF StartPaced
      <4>2. CASE sz.stage = "file"
        BY <4>2, <2>2, <1>1, <1>5, <1>11 DEF FilePaced
      <4>3. CASE sz.stage = "eof"
        <5>1. Only(toHost, {"ZACK"}) => Head(toHost) \in {"ZACK"}
          BY <1>1
        <5>2. Coming = <<>> /\ ~Follows(toHost, {"ZRINIT"}, Replies)
          BY <5>1, <4>3, <2>2, <1>5, <1>11 DEF EofPaced
        <5>3. Head(toHost) \in {"ZRINIT"}
          BY <1>11
        <5> QED BY <5>2, <5>3, <1>1
      <4> QED BY <4>1, <4>2, <4>3, <1>11
    <3>2. PICK t \in Tokens : t.kind = "ZFILE" /\ Coming' = Append(<<>>, t)
      BY <3>1, <2>1, <1>0, <1>11, FileSays
    <3>3. t \in Files
      BY <3>2 DEF Files
    <3>4. Len(Coming') = 1 /\ Only(Coming', Files)
      BY <3>2, <3>3, OnlyToken
    <3> QED BY <3>1, <3>4, <1>4, NoToken DEF FilePaced, Files
  <2>3. Paced'
    BY <2>1, <2>2, <1>2, <1>4, <1>11 DEF Paced, StartPaced, DataPaced, EofPaced, FinPaced
  <2>4. GoodByeSaid'
    <3>1. ASSUME Calm, Has(toHost', "ZFIN") PROVE ~Has(toHost', "ZRPOS")
      <4>1. Has(toHost, "ZFIN") /\ (Has(toHost', "ZRPOS") => Has(toHost, "ZRPOS"))
        BY <3>1, <1>2, <1>4, <1>11
      <4>2. sz.stage # "init"
        <5>1. ASSUME sz.stage = "init" PROVE FALSE
          <6>1. Only(toHost, {"ZRINIT", "CANCEL"})
            BY <5>1 DEF SentKept, Starting
          <6> QED BY <6>1, <4>1 DEF Only, Has
        <5> QED BY <5>1
      <4> QED BY <4>1, <4>2, <3>1, <1>6, <1>11
    <3> QED BY <3>1, <2>1, <1>4 DEF GoodByeSaid
  <2> QED BY <2>1, <2>3, <2>4, <1>7, <1>8, <1>11 DEF PromptKept
<1>12. ASSUME Head(toHost) = "ZRINIT", exit' = exit, sz.stage = "eof", SendFin(sz)
       PROVE  PromptKept'
  <2>1. ~Gone /\ sz'.stage = "fin"
    BY <1>0, <1>12, FinAdds DEF Gone
  <2>2. ASSUME Coming = <<>> PROVE FinAtMost'
    <3>1. Coming' = <<>> \/ \E t \in Tokens : t.kind = "ZFIN" /\ Coming' = Append(<<>>, t)
      BY <2>1, <2>2, <1>0, <1>12, FinSays
    <3>2. ASSUME NEW t \in Tokens, t.kind = "ZFIN", Coming' = Append(<<>>, t)
          PROVE  Only(Coming', Fins) /\ ~Follows(Coming', Tokens, Tokens)
      <4>1. t \in Fins
        BY <3>2 DEF Fins
      <4> QED BY <4>1, <3>2, OnlyToken
    <3>3. Coming' = <<>> => Only(Coming', Fins) /\ ~Follows(Coming', Tokens, Tokens)
      BY NoToken
    <3> QED BY <3>1, <3>2, <3>3 DEF FinAtMost, Fins
  <2>3. ASSUME Calm, ~Doomed(toHost) PROVE FinPaced'
    <3>1. Only(toHost, {"ZACK"}) => Head(toHost) \in {"ZACK"}
      BY <1>1
    <3>2. Coming = <<>> /\ ~Follows(toHost, {"ZRINIT"}, Replies) /\ pc = "peek" /\ received > 0
      BY <3>1, <2>3, <1>5, <1>12 DEF EofPaced
    <3>3. Head(toHost) \in {"ZRINIT"}
      BY <1>12
    <3>4. toHost' = <<>>
      BY <3>2, <3>3, <1>1
    <3> QED BY <3>2, <3>4, <2>2, <1>0 DEF FinPaced
  <2>4. Paced'
    BY <2>1, <2>3, <1>2, <1>4, <1>12 DEF Paced, StartPaced, FilePaced, DataPaced, EofPaced
  <2>5. GoodByeSaid'
    <3>1. ASSUME Calm, Has(toHost', "ZFIN") PROVE Tidy' /\ FinAtMost'
      <4>1. Coming = <<>> /\ pc \in {"shell", "drain"}
        BY <3>1, <1>2, <1>4, <1>6, <1>12
      <4> QED BY <4>1, <2>2, <1>0 DEF Tidy
    <3> QED BY <3>1, <2>1, <1>4 DEF GoodByeSaid
  <2> QED BY <2>1, <2>4, <2>5, <1>7, <1>8, <1>12 DEF PromptKept
<1>13. ASSUME Head(toHost) = "ZRPOS", exit' = exit, sz.stage = "file",
              sz' = [sz EXCEPT !.stage = "data"], fromHost' = fromHost
       PROVE  PromptKept'
  <2>1. sz'.run = sz.run /\ sz'.file = sz.file /\ sz'.stage = "data" /\ Coming' = Coming
    BY <1>0, <1>13, SenderTypes DEF Coming, ZmodemTypes
  <2>2. ~Delivered(sz.file)'
    <3>1. ~Delivered(sz.file)
      BY <1>13 DEF SentKept, SentBefore
    <3> QED BY <3>1, <2>1, <1>0 DEF Delivered, Done
  <2>3. ASSUME Calm, ~Doomed(toHost) PROVE DataPaced'
    <3>1. Coming = <<>> /\ toHost' = <<>>
      BY <2>3, <1>1, <1>4, <1>5, <1>13 DEF FilePaced
    <3> QED BY <3>1, <2>1, <2>2, NoToken DEF DataPaced
  <2>4. Paced'
    BY <2>1, <2>3, <1>2, <1>4, <1>13 DEF Paced, StartPaced, FilePaced, FinPaced, EofPaced
  <2>5. GoodByeSaid'
    <3>1. ~(Calm /\ Has(toHost', "ZFIN"))
      BY <1>2, <1>3, <1>4, <1>6, <1>13
    <3> QED BY <3>1, <1>4 DEF GoodByeSaid
  <2> QED BY <2>1, <2>4, <2>5, <1>7, <1>8, <1>13 DEF PromptKept
<1>14. ASSUME Head(toHost) = "ZRPOS", exit' = exit, sz.stage \in {"data", "eof"}, Restart
       PROVE  PromptKept'
  <2>1. ~Gone /\ sz'.stage = "data"
    BY <1>0, <1>14, RestartAdds DEF Gone
  <2>2. ~(Calm /\ ~Doomed(toHost))
    <3>1. /\ Only(toHost, {"ZACK"}) => Head(toHost) \in {"ZACK"}
          /\ Only(toHost, {"ZACK", "ZRINIT"}) => Head(toHost) \in {"ZACK", "ZRINIT"}
      BY <1>1
    <3> QED BY <3>1, <1>5, <1>14 DEF DataPaced, EofPaced
  <2>3. ~(Calm /\ Has(toHost', "ZFIN"))
    BY <1>2, <1>3, <1>4, <1>6, <1>14
  <2>4. Paced' /\ GoodByeSaid'
    BY <2>2, <2>3, <1>2, <1>4, <1>14 DEF Paced, GoodByeSaid
  <2> QED BY <2>1, <2>4, <1>7, <1>8, <1>14 DEF PromptKept
<1>15. ASSUME sz' = sz, fromHost' = fromHost, exit' = exit,
              Head(toHost) = "CANCEL" => Gone,
              Head(toHost) = "ZFIN" => sz.stage \in {"init", "gone"}
       PROVE  PromptKept'
  <2>1. Coming' = Coming /\ (Tidy' <=> Tidy) /\ (FinAtMost' <=> FinAtMost)
        /\ (\A f : Delivered(f)' <=> Delivered(f))
    BY <1>0, <1>15 DEF Coming, Tidy, FinAtMost, Fins, Delivered, Done
  <2>2. PromptComes'
    BY <2>1, <1>0, <1>15 DEF PromptKept, PromptComes, Gone, HeaderTokens
  <2>3. CASE Gone
    <3>1. Paced' /\ GoodByeSaid'
      BY <2>3, <1>15 DEF Gone, Paced, StartPaced, FilePaced, DataPaced, EofPaced, FinPaced,
         GoodByeSaid
    <3> QED BY <3>1, <2>2, <1>7, <1>15 DEF PromptKept
  <2>4. CASE ~Gone
    <3>1. Head(toHost) \notin Killers
      <4>1. ASSUME sz.stage = "init" PROVE Head(toHost) # "ZFIN"
        <5>1. Only(toHost, {"ZRINIT", "CANCEL"})
          BY <4>1 DEF SentKept, Starting
        <5>2. Head(toHost) \in {"ZRINIT", "CANCEL"}
          BY <5>1, <1>1
        <5> QED BY <5>2
      <4> QED BY <4>1, <2>4, <1>15 DEF Killers, Gone
    <3>2. GoodByeSaid'
      BY <3>1, <2>1, <1>0, <1>2, <1>4, <1>6, <1>15 DEF GoodByeSaid
    <3>3. ASSUME Calm, ~Doomed(toHost)
          PROVE  (StartPaced /\ FilePaced /\ DataPaced /\ EofPaced /\ FinPaced)'
      <4>1. StartPaced /\ FilePaced /\ DataPaced /\ EofPaced /\ FinPaced
        BY <3>3, <1>5
      <4>2. Len(toHost') \in Nat /\ Len(toHost') <= Len(toHost)
        BY <1>1
      <4>3. StartPaced' /\ FilePaced'
        BY <4>1, <4>2, <2>1, <1>1, <1>4, <1>15 DEF StartPaced, FilePaced, Files
      <4>4. DataPaced' /\ EofPaced'
        BY <4>1, <2>1, <1>0, <1>1, <1>15 DEF DataPaced, EofPaced, Data, Eofs
      <4>5. FinPaced'
        BY <4>1, <1>0, <1>15 DEF FinPaced
      <4> QED BY <4>3, <4>4, <4>5
    <3>4. Paced'
      BY <3>1, <3>3, <1>2, <1>4 DEF Paced
    <3> QED BY <3>2, <3>4, <2>2, <1>7, <1>15 DEF PromptKept
  <2> QED BY <2>3, <2>4
<1>16. \A s \in {"file", "data", "eof", "fin"} : sz.stage = s => ~Gone
  BY DEF Gone
<1>17. /\ sz.stage = "init" => 1 \in FileIds
       /\ sz.stage = "file" => sz.file \in FileIds
       /\ sz.stage = "eof" /\ sz.file < FilesOf[sz.run] => sz.file + 1 \in FileIds
  <2>1. ASSUME ~Gone PROVE 1..FilesOf[sz.run] \subseteq FileIds /\ FilesOf[sz.run] \in Nat /\ 1 \in FileIds
    BY <2>1, RunType, FileTypes
  <2>2. sz.stage \notin {"init", "gone"} => sz.file \in 1..FilesOf[sz.run]
    BY DEF ZmodemTypes
  <2> QED BY <2>1, <2>2 DEF Gone
<1> QED BY <1>0, <1>9, <1>10, <1>11, <1>12, <1>13, <1>14, <1>15, <1>16, <1>17, AnswerCases
     DEF ZmodemTypes

LEMMA FarSidePrompts ==
  ASSUME ZmodemTypes, AtRest, TokensAgree, SentKept, PromptKept,
         Sz \/ StartSz \/ RepeatEarly \/ RepeatQuiet \/ Abort \/ LineDrops
  PROVE  PromptKept'
<1>1. ASSUME Abort PROVE PromptKept'
  <2>1. PICK kind \in {"CANs", "ZABORT"} : Leave(sz, <<Token(sz, kind, 0, "none")>>, "error")
    BY <1>1 DEF Abort
  <2>2. ~Gone /\ UNCHANGED receiver /\ troubles \subseteq troubles'
    BY <1>1 DEF Abort, Gone, Trouble
  <2> QED BY <2>1, <2>2, LeavePrompts DEF PromptKept
<1>2. ASSUME RepeatEarly PROVE PromptKept'
  <2>1. "early" \in troubles'
    BY <1>2 DEF RepeatEarly, Trouble
  <2> QED BY <2>1 DEF PromptKept, PromptIsKept, Paced, GoodByeSaid, PromptComes, Calm
<1>3. ASSUME LineDrops PROVE PromptKept'
  <2>1. /\ UNCHANGED receiver /\ prompt' = prompt /\ exit' = exit /\ sz' = sz /\ up' = FALSE
        /\ troubles \subseteq troubles' /\ Coming' = Coming /\ pc' = pc /\ buf' = buf
    BY <1>3 DEF LineDrops, receiver, Trouble, Coming
  <2>2. PromptIsKept'
    BY <2>1, PromptStays DEF PromptKept
  <2>3. PromptComes'
    BY <2>1 DEF PromptKept, PromptComes, Gone, HeaderTokens, Tidy
  <2> QED BY <2>1, <2>2, <2>3 DEF PromptKept, Paced, GoodByeSaid, Calm
<1> QED BY <1>1, <1>2, <1>3, StartPrompts, SendPrompts, RepeatPrompts, AnswerPrompts DEF Sz

LEMMA PromptStep ==
  ASSUME ZmodemTypes, AtRest, TokensAgree, DataOrdered, SentKept, PromptKept,
         [ZmodemNext]_zmodemVars
  PROVE  PromptKept'
<1>1. CASE UNCHANGED zmodemVars
  <2>1. /\ sz' = sz /\ Coming' = Coming /\ exit' = exit /\ rows' = rows /\ toHost' = toHost
        /\ pc' = pc /\ up' = up /\ buf' = buf /\ prompt' = prompt /\ troubles' = troubles
        /\ received' = received
    BY <1>1 DEF zmodemVars, receiver, sender, Coming
  <2>2. PromptIsKept' /\ PromptComes'
    BY <2>1 DEF PromptKept, PromptIsKept, PromptComes, Gone, HeaderTokens, Tidy
  <2>3. GoodByeSaid'
    BY <2>1 DEF PromptKept, GoodByeSaid, Calm, FinAtMost, Fins, Tidy
  <2>4. \A f : Delivered(f)' <=> Delivered(f)
    BY <2>1 DEF Delivered, Done
  <2>5. Paced'
    BY <2>1, <2>4 DEF PromptKept, Paced, Calm, StartPaced, FilePaced, DataPaced, EofPaced,
       FinPaced, FinAtMost, Fins, Files, Data, Eofs
  <2> QED BY <2>2, <2>3, <2>5 DEF PromptKept
<1>2. CASE SessionTask
  <2>1. sz' = sz /\ up' = up /\ troubles \subseteq troubles'
    BY <1>2, SessionTaskMoves, TroublesGrow DEF ZmodemNext
  <2> QED BY <2>1, <1>2, SessionTaskPaces, SessionTaskSaysGoodBye, SessionTaskPrompts
       DEF PromptKept
<1> QED BY <1>1, <1>2, FarSidePrompts DEF ZmodemNext

(* Without a header repeated early, the prompt that follows a transfer that went well   *)
(* is not swallowed (zmodem.rs:233): whenever it comes, no receive is under way or will *)
(* start over it, and the one that is ending puts it back.                              *)
THEOREM PromptSurvives == ZmodemSpec => []PromptIsKept
<1>1. ZmodemInit => ZmodemKept /\ PromptKept
  <2> SUFFICES ASSUME ZmodemInit PROVE PromptKept
    BY ZmodemBegins
  <2>1. sz.run = 0 /\ sz.stage = "gone" /\ toHost = <<>> /\ \A r \in RunIds : exit[r] = "none"
    BY DEF ZmodemInit
  <2>2. GoodByeSaid
    BY <2>1, NoToken DEF GoodByeSaid
  <2> QED BY <2>1, <2>2 DEF PromptKept, PromptIsKept, PromptComes, Paced, StartPaced, FilePaced,
             DataPaced, EofPaced, FinPaced
<1>2. ZmodemKept /\ PromptKept /\ [ZmodemNext]_zmodemVars => ZmodemKept' /\ PromptKept'
  BY ZmodemKeptStep, PromptStep DEF ZmodemKept
<1>3. ZmodemKept /\ PromptKept => PromptIsKept
  BY DEF PromptKept
<1> QED BY <1>1, <1>2, <1>3, PTL DEF ZmodemSpec
=============================================================================
