------------------------- MODULE SftpPanel_proofs -------------------------
(***************************************************************************)
(* What holds of the SFTP panels for every set of tabs, directories and    *)
(* uploads, and any number of requests and prompts.                        *)
(***************************************************************************)
EXTENDS SftpPanel, TLAPS

(* A command that is sent joins the commands of a worker.                  *)
LEMMA SentTypes ==
  ASSUME TypeOK, NEW t \in Tabs, NEW c \in Targets
  PROVE  Sent(t, c) \in [Tabs -> Seq(Targets)]
<1>1. Append(cmds[t], c) \in Seq(Targets)
  BY DEF TypeOK
<1> QED BY <1>1 DEF Sent, TypeOK

LEMMA CommandTypes ==
  ASSUME NEW t \in Tabs, NEW d \in Dirs,
         NEW op \in {"list", "change", "delete", "read", "view", "write"}
  PROVE  Command(op, d, t) \in Targets
BY DEF Command, Targets

LEMMA PostsTypes ==
  ASSUME TypeOK, NEW t \in Tabs, NEW r \in Reports, Posts(t, r)
  PROVE  reports' \in [Tabs -> Seq(Reports)]
<1>1. Append(reports[t], r) \in Seq(Reports)
  BY DEF TypeOK
<1> QED BY <1>1 DEF Posts, TypeOK

(* The command a worker takes, unless it is told to close, names a         *)
(* directory.                                                              *)
LEMMA TakesTypes ==
  ASSUME TypeOK, NEW t \in Tabs, NEW ops, "close" \notin ops, Takes(t, ops)
  PROVE  /\ Head(cmds[t]).dir \in Dirs
         /\ cmds' \in [Tabs -> Seq(Targets)]
<1>1. cmds[t] \in Seq(Targets) /\ cmds[t] # <<>>
  BY DEF Takes, TypeOK
<1>2. Head(cmds[t]) \in Targets /\ Tail(cmds[t]) \in Seq(Targets)
  BY <1>1
<1>3. Head(cmds[t]).op # "close"
  BY DEF Takes
<1>4. Head(cmds[t]).dir \in Dirs
  BY <1>2, <1>3 DEF Targets
<1> QED BY <1>2, <1>4 DEF Takes, TypeOK

LEMMA AppliesTypes ==
  ASSUME TypeOK, NEW t \in Tabs, NEW kind, Applies(t, kind)
  PROVE  /\ Head(reports[t]) \in Reports /\ Head(reports[t]).kind = kind
         /\ reports' \in [Tabs -> Seq(Reports)]
<1>1. reports[t] \in Seq(Reports) /\ reports[t] # <<>>
  BY DEF Applies, TypeOK
<1>2. Head(reports[t]) \in Reports /\ Tail(reports[t]) \in Seq(Reports)
  BY <1>1
<1> QED BY <1>2 DEF Applies, TypeOK

LEMMA StraysTypes ==
  ASSUME TypeOK, NEW t \in Tabs, NEW d, Strays(t, d)
  PROVE  strayed' \in [Tabs -> BOOLEAN]
<1>1. (strayed[t] \/ lastCwd[t] \notin {d, NoDir}) \in BOOLEAN
  OBVIOUS
<1>2. strayed' = [strayed EXCEPT ![t] = strayed[t] \/ lastCwd[t] \notin {d, NoDir}]
  BY DEF Strays
<1> HIDE DEF Strays
<1> QED BY <1>1, <1>2 DEF TypeOK

LEMMA ReadTypes ==
  ASSUME NEW f \in [Tabs -> [Dirs -> Nat]], NEW t \in Tabs, NEW d \in Dirs
  PROVE  ReadOf(f, t, d) \in Readings
BY DEF ReadOf, Readings

LEMMA ChangedTypes ==
  ASSUME TypeOK, NEW t \in Tabs, NEW d \in Dirs, Changed(t, d) \/ UNCHANGED files
  PROVE  files' \in [Tabs -> [Dirs -> Nat]]
<1>1. CASE Changed(t, d)
  <2>1. files \in [Tabs -> [Dirs -> Nat]]
    BY DEF TypeOK
  <2>2. files' = [files EXCEPT ![t] = [files[t] EXCEPT ![d] = @ + 1]]
    BY <1>1 DEF Changed
  <2>3. files[t] \in [Dirs -> Nat] /\ files[t][d] + 1 \in Nat
    BY <2>1
  <2>4. [files[t] EXCEPT ![d] = @ + 1] \in [Dirs -> Nat]
    BY <2>3
  <2> QED BY <2>1, <2>2, <2>4
<1>2. CASE UNCHANGED files
  BY <1>2 DEF TypeOK
<1> QED BY <1>1, <1>2

-----------------------------------------------------------------------------
(* The types.  Checked rows are rows of a directory, and an upload that    *)
(* runs has one to list.                                                   *)
Placed ==
  /\ \A t \in Tabs : panel[t].checked => panel[t].listing # NoListing
  /\ \A u \in Uploads : upload[u].stage # "unused" => upload[u].listing # NothingRead

Typed == TypeOK /\ Placed

LEMMA InitTypes == Init => Typed
<1> SUFFICES ASSUME Init PROVE Typed
  OBVIOUS
<1>1. NoListing \in Listings /\ NothingRead \in Readings
  BY DEF Listings, Readings
<1>2. TypeOK
  BY <1>1, DirsAssumption, BoundsAssumption DEF Init, TypeOK, Panels, Stages
<1>3. Placed
  BY DEF Init, Placed
<1> QED BY <1>2, <1>3 DEF Typed

LEMMA PanelTypes ==
  ASSUME TypeOK, NEW t \in Tabs
  PROVE  /\ panel[t].path \in Dirs /\ panel[t].listing \in Listings
         /\ panel[t].checked \in BOOLEAN
         /\ panel[t].listing.dir # NoDir => panel[t].listing.dir \in Dirs
         /\ panel[t].listing # NoListing => panel[t].listing.dir \in Dirs
<1>1. panel[t] \in Panels
  BY DEF TypeOK
<1> QED BY <1>1 DEF Panels, Listings, NoListing

LEMMA AsksTypes ==
  ASSUME TypeOK, Asks
  PROVE  requests' \in 0..MaxRequests
BY BoundsAssumption DEF Asks, TypeOK

LEMMA UserTypes ==
  ASSUME TypeOK, NEW t \in Tabs,
         \/ CloseTab(t) \/ Refresh(t) \/ RequestChange(t) \/ OpenFile(t)
         \/ \E d \in Dirs : Navigate(t, d)
  PROVE  TypeOK'
<1>1. CASE CloseTab(t)
  <2>1. [op |-> "close"] \in Targets
    BY DEF Targets
  <2>2. cmds' \in [Tabs -> Seq(Targets)]
    BY <1>1, <2>1, SentTypes DEF CloseTab
  <2> QED BY <1>1, <2>2 DEF CloseTab, TypeOK
<1>2. CASE Refresh(t)
  <2>1. panel[t].path \in Dirs
    BY PanelTypes
  <2>2. cmds' \in [Tabs -> Seq(Targets)]
    BY <1>2, <2>1, CommandTypes, SentTypes DEF Refresh
  <2>3. requests' \in 0..MaxRequests
    BY <1>2, AsksTypes DEF Refresh
  <2>4. strayed' \in [Tabs -> BOOLEAN]
    BY <1>2, StraysTypes DEF Refresh
  <2> QED BY <1>2, <2>2, <2>3, <2>4 DEF Refresh, TypeOK, uiVars, followVars
<1>3. CASE RequestChange(t)
  <2>1. Pointed(t) \subseteq Dirs
    BY PanelTypes DEF Pointed
  <2>2. cmds' \in [Tabs -> Seq(Targets)]
    BY <1>3, <2>1, CommandTypes, SentTypes DEF RequestChange
  <2>3. requests' \in 0..MaxRequests
    BY <1>3, AsksTypes DEF RequestChange
  <2> QED BY <1>3, <2>2, <2>3 DEF RequestChange, TypeOK, uiVars, followVars
<1>4. CASE OpenFile(t)
  <2>1. panel[t].listing.dir \in Dirs
    BY <1>4, PanelTypes DEF OpenFile
  <2>2. cmds' \in [Tabs -> Seq(Targets)]
    BY <1>4, <2>1, CommandTypes, SentTypes DEF OpenFile
  <2>3. requests' \in 0..MaxRequests
    BY <1>4, AsksTypes DEF OpenFile
  <2> QED BY <1>4, <2>2, <2>3 DEF OpenFile, TypeOK, uiVars, followVars
<1>5. ASSUME NEW d \in Dirs, Navigate(t, d)
      PROVE  TypeOK'
  <2>1. cmds' \in [Tabs -> Seq(Targets)]
    BY <1>5, CommandTypes, SentTypes DEF Navigate
  <2>2. requests' \in 0..MaxRequests
    BY <1>5, AsksTypes DEF Navigate
  <2> QED BY <1>5, <2>1, <2>2 DEF Navigate, TypeOK, uiVars
<1> QED BY <1>1, <1>2, <1>3, <1>4, <1>5

LEMMA PanelUpdates ==
  ASSUME NEW p \in Panels, NEW b \in BOOLEAN, NEW d \in Dirs
  PROVE  /\ [p EXCEPT !.checked = b] \in Panels
         /\ [p EXCEPT !.loading = b] \in Panels
         /\ [p EXCEPT !.path = d, !.loading = b] \in Panels
BY DEF Panels

LEMMA PanelOfTab ==
  ASSUME TypeOK, NEW t \in Tabs, NEW p \in Panels, panel' = [panel EXCEPT ![t] = p]
  PROVE  panel' \in [Tabs -> Panels]
BY DEF TypeOK

LEMMA DialogTypes ==
  ASSUME Typed, NEW t \in Tabs, ToggleSelect(t) \/ AskDelete(t) \/ ConfirmDelete(t)
  PROVE  TypeOK'
<1> USE DEF Typed
<1>1. CASE ToggleSelect(t)
  <2>1. (~panel[t].checked) \in BOOLEAN
    OBVIOUS
  <2>2. panel' = [panel EXCEPT ![t] = [panel[t] EXCEPT !.checked = ~panel[t].checked]]
    BY <1>1 DEF ToggleSelect
  <2>3. panel[t] \in Panels
    BY DEF TypeOK
  <2>4. panel' \in [Tabs -> Panels]
    BY <2>1, <2>2, <2>3, PanelUpdates, PanelOfTab, DirsAssumption
  <2> QED BY <1>1, <2>4 DEF ToggleSelect, TypeOK, followVars, workerVars
<1>2. CASE AskDelete(t)
  <2>1. PICK batch \in {FALSE, panel[t].checked} :
          dialog' = [shown |-> TRUE, batch |-> batch, dir |-> panel[t].listing.dir]
    BY <1>2 DEF AskDelete
  <2>2. batch \in BOOLEAN /\ panel[t].listing.dir \in Dirs
    BY <1>2, PanelTypes DEF AskDelete
  <2>3. dialog' \in [shown : BOOLEAN, batch : BOOLEAN, dir : Dirs]
    BY <2>1, <2>2
  <2>4. requests' \in 0..MaxRequests
    BY <1>2, AsksTypes DEF AskDelete
  <2> QED BY <1>2, <2>3, <2>4 DEF AskDelete, TypeOK, followVars, workerVars
<1>3. CASE ConfirmDelete(t)
  <2>1. dialog' \in [shown : BOOLEAN, batch : BOOLEAN, dir : Dirs]
    BY <1>3 DEF ConfirmDelete, TypeOK
  <2>2. CASE dialog.batch /\ ~panel[t].checked
    BY <1>3, <2>1, <2>2 DEF ConfirmDelete, TypeOK, followVars
  <2>3. CASE ~(dialog.batch /\ ~panel[t].checked)
    <3> DEFINE d == IF dialog.batch THEN panel[t].listing.dir ELSE dialog.dir
    <3>1. dialog.dir \in Dirs
      BY DEF TypeOK
    <3>2. d \in Dirs
      BY <2>3, <3>1, PanelTypes DEF Placed
    <3>3. /\ cmds' = Sent(t, Command("delete", d, t))
          /\ deleted' = deleted \cup {<<dialog.dir, d>>}
          /\ panel' = [panel EXCEPT ![t].checked = @ /\ ~dialog.batch]
      BY <1>3, <2>3 DEF ConfirmDelete
    <3> HIDE DEF d
    <3>4. cmds' \in [Tabs -> Seq(Targets)]
      BY <3>2, <3>3, CommandTypes, SentTypes
    <3>5. deleted' \subseteq Dirs \X Dirs
      BY <3>1, <3>2, <3>3, SMTT(30) DEF TypeOK
    <3>6. panel' \in [Tabs -> Panels]
      <4>1. (panel[t].checked /\ ~dialog.batch) \in BOOLEAN
        OBVIOUS
      <4>2. panel' = [panel EXCEPT ![t] =
                        [panel[t] EXCEPT !.checked = panel[t].checked /\ ~dialog.batch]]
        BY <3>3
      <4>3. panel[t] \in Panels
        BY DEF TypeOK
      <4> QED BY <4>1, <4>2, <4>3, PanelUpdates, PanelOfTab, DirsAssumption
    <3> QED BY <1>3, <2>1, <3>4, <3>5, <3>6 DEF ConfirmDelete, TypeOK, followVars
  <2> QED BY <2>2, <2>3
<1> QED BY <1>1, <1>2, <1>3

LEMMA WindowTypes ==
  ASSUME TypeOK, SetFollow \/ CancelDelete \/ Type \/ SaveFile \/ CloseEditor
                 \/ \E t \in Tabs \cup {NoTab} : Select(t)
  PROVE  TypeOK'
<1>1. CASE SetFollow
  <2>1. requests' \in 0..MaxRequests
    BY <1>1, AsksTypes DEF SetFollow
  <2>2. (~follow) \in BOOLEAN
    OBVIOUS
  <2> QED BY <1>1, <2>1, <2>2 DEF SetFollow, TypeOK, uiVars, workerVars
<1>2. CASE CancelDelete
  BY <1>2 DEF CancelDelete, TypeOK, followVars, workerVars
<1>3. CASE Type
  BY <1>3 DEF Type, TypeOK, followVars, workerVars
<1>4. ASSUME WriteText PROVE cmds' \in [Tabs -> Seq(Targets)]
  <2>1. CASE active \in open
    <3>1. active \in Tabs /\ editor.dir \in Dirs /\ editor.from \in Tabs
      BY <2>1 DEF TypeOK
    <3> QED BY <1>4, <2>1, <3>1, CommandTypes, SentTypes DEF WriteText
  <2>2. CASE active \notin open
    BY <1>4, <2>2 DEF WriteText, TypeOK
  <2> QED BY <2>1, <2>2
<1>5. CASE SaveFile
  <2>1. cmds' \in [Tabs -> Seq(Targets)]
    BY <1>4, <1>5 DEF SaveFile
  <2> QED BY <1>5, <2>1 DEF SaveFile, TypeOK, followVars
<1>6. CASE CloseEditor
  <2>1. cmds' \in [Tabs -> Seq(Targets)]
    BY <1>4, <1>6 DEF CloseEditor, TypeOK
  <2> QED BY <1>6, <2>1 DEF CloseEditor, TypeOK, followVars
<1>7. ASSUME NEW t \in Tabs \cup {NoTab}, Select(t)
      PROVE  TypeOK'
  BY <1>7 DEF Select, TypeOK, followVars, workerVars
<1> QED BY <1>1, <1>2, <1>3, <1>5, <1>6, <1>7

LEMMA ShellTypes ==
  ASSUME TypeOK, NEW t \in Tabs, DebounceFires(t) \/ \E d \in Dirs : PumpCwd(t, d)
  PROVE  TypeOK'
<1>1. CASE DebounceFires(t)
  <2>1. debounce[t] \in Dirs
    BY <1>1 DEF DebounceFires, TypeOK
  <2>2. cmds' \in [Tabs -> Seq(Targets)]
    BY <1>1, <2>1, CommandTypes, SentTypes DEF DebounceFires, TypeOK
  <2> QED BY <1>1, <2>2 DEF DebounceFires, TypeOK, uiVars
<1>2. ASSUME NEW d \in Dirs, PumpCwd(t, d)
      PROVE  TypeOK'
  <2>1. CwdChanged(d) \in Reports
    BY DEF CwdChanged, Reports
  <2>2. reports' \in [Tabs -> Seq(Reports)]
    BY <1>2, <2>1, PostsTypes DEF PumpCwd, TypeOK
  <2>3. prompts' \in 0..MaxPrompts
    BY <1>2, BoundsAssumption DEF PumpCwd, TypeOK
  <2>4. strayed' \in [Tabs -> BOOLEAN]
    <3>1. (strayed[t] \/ ~follow) \in BOOLEAN
      OBVIOUS
    <3>2. \/ strayed' = [strayed EXCEPT ![t] = FALSE]
          \/ strayed' = [strayed EXCEPT ![t] = strayed[t] \/ ~follow]
      BY <1>2 DEF PumpCwd
    <3> QED BY <3>1, <3>2 DEF TypeOK
  <2>5. debounce' \in [Tabs -> Dirs \cup {NoDir}]
    <3>1. debounce' = [debounce EXCEPT ![t] = d] \/ debounce' = debounce
      BY <1>2 DEF PumpCwd
    <3> QED BY <3>1 DEF TypeOK
  <2> QED BY <1>2, <2>2, <2>3, <2>4, <2>5 DEF PumpCwd, TypeOK, uiVars, workerVars
<1> QED BY <1>1, <1>2

-----------------------------------------------------------------------------
LEMMA MissesTypes ==
  ASSUME TypeOK, NEW t \in Tabs, Misses(t) \/ UNCHANGED missed
  PROVE  missed' \in [Tabs -> BOOLEAN]
BY DEF Misses, TypeOK

LEMMA HandOfTab ==
  ASSUME TypeOK, NEW t \in Tabs, NEW l \in Readings,
         hand' = [hand EXCEPT ![t] = l] \/ UNCHANGED hand
  PROVE  hand' \in [Tabs -> Readings]
BY DEF TypeOK

LEMMA ListsTypes ==
  ASSUME TypeOK, NEW t \in Tabs, NEW d \in Dirs, Lists(t, d)
  PROVE  /\ hand' \in [Tabs -> Readings] /\ reports' \in [Tabs -> Seq(Reports)]
         /\ missed' \in [Tabs -> BOOLEAN] /\ strayed' \in [Tabs -> BOOLEAN]
<1>1. CASE /\ hand' = [hand EXCEPT ![t] = Read(t, d)]
           /\ UNCHANGED <<reports, missed, strayed>>
  <2>1. files \in [Tabs -> [Dirs -> Nat]]
    BY DEF TypeOK
  <2>2. Read(t, d) \in Readings
    BY <2>1, ReadTypes DEF Read
  <2>3. hand' \in [Tabs -> Readings]
    BY <1>1, <2>2, HandOfTab
  <2> QED BY <1>1, <2>3 DEF TypeOK
<1>2. CASE /\ Posts(t, [kind |-> "error", dir |-> d])
           /\ Strays(t, NoDir) /\ Misses(t) /\ UNCHANGED hand
  <2>1. [kind |-> "error", dir |-> d] \in Reports
    BY DEF Reports
  <2>2. reports' \in [Tabs -> Seq(Reports)]
    BY <1>2, <2>1, PostsTypes
  <2> QED BY <1>2, <2>2, StraysTypes, MissesTypes DEF TypeOK
<1> QED BY <1>1, <1>2 DEF Lists

LEMMA RelistTypes ==
  ASSUME TypeOK, NEW t \in Tabs, NEW d \in Dirs, Relist(t, d),
         Changed(t, d) \/ UNCHANGED files
  PROVE  /\ hand' \in [Tabs -> Readings] /\ missed' \in [Tabs -> BOOLEAN]
         /\ files' \in [Tabs -> [Dirs -> Nat]]
<1>1. files' \in [Tabs -> [Dirs -> Nat]]
  BY ChangedTypes
<1>2. ReadOf(files', t, d) \in Readings
  BY <1>1, ReadTypes
<1>3. hand' \in [Tabs -> Readings]
  BY <1>2, HandOfTab DEF Relist
<1>4. missed' \in [Tabs -> BOOLEAN]
  BY MissesTypes DEF Relist
<1> QED BY <1>1, <1>3, <1>4

LEMMA WorkerTypes ==
  ASSUME TypeOK, NEW t \in Tabs, Worker(t)
  PROVE  TypeOK'
<1> USE DEF unworked, uiVars, followVars
<1>1. CASE SftpReady(t)
  BY <1>1, ListsTypes, DirsAssumption DEF SftpReady, TypeOK
<1>2. CASE SftpFails(t) \/ TakeClose(t)
  <2>1. <<>> \in Seq(Targets)
    OBVIOUS
  <2>2. cmds' = [cmds EXCEPT ![t] = <<>>] /\ worker' = [worker EXCEPT ![t] = "gone"]
    BY <1>2 DEF SftpFails, TakeClose
  <2>3. cmds' \in [Tabs -> Seq(Targets)] /\ worker' \in [Tabs -> {"connecting", "up", "gone"}]
    BY <2>1, <2>2 DEF TypeOK
  <2> QED BY <1>2, <2>3 DEF SftpFails, TakeClose, TypeOK
<1>3. CASE ReportListing(t)
  <2>1. hand[t] \in Readings /\ hand[t] # NothingRead
    BY <1>3 DEF ReportListing, TypeOK
  <2>2. [kind |-> "entries", dir |-> hand[t].dir, seen |-> hand[t].seen] \in Reports
    BY <2>1 DEF Readings, Reports
  <2>3. reports' \in [Tabs -> Seq(Reports)]
    BY <1>3, <2>2, PostsTypes DEF ReportListing
  <2>4. NothingRead \in Readings
    BY DEF Readings
  <2>5. hand' \in [Tabs -> Readings]
    BY <1>3, <2>4, HandOfTab DEF ReportListing
  <2>6. (hand[t].due # files[t][hand[t].dir]) \in BOOLEAN
    OBVIOUS
  <2>7. missed' \in [Tabs -> BOOLEAN]
    BY <1>3, <2>6 DEF ReportListing, TypeOK
  <2> QED BY <1>3, <2>3, <2>5, <2>7 DEF ReportListing, TypeOK
<1>4. CASE TakeList(t)
  <2>1. Head(cmds[t]).dir \in Dirs /\ cmds' \in [Tabs -> Seq(Targets)]
    BY <1>4, TakesTypes DEF TakeList
  <2>2. /\ hand' \in [Tabs -> Readings] /\ reports' \in [Tabs -> Seq(Reports)]
        /\ missed' \in [Tabs -> BOOLEAN] /\ strayed' \in [Tabs -> BOOLEAN]
    BY <1>4, <2>1, ListsTypes DEF TakeList
  <2> QED BY <1>4, <2>1, <2>2 DEF TakeList, TypeOK
<1>5. CASE TakeChange(t)
  <2> DEFINE d == Head(cmds[t]).dir
  <2>1. d \in Dirs /\ cmds' \in [Tabs -> Seq(Targets)]
    BY <1>5, TakesTypes DEF TakeChange
  <2>2. (Changed(t, d) \/ UNCHANGED files) /\ Relist(t, d) /\ Strays(t, d)
    BY <1>5 DEF TakeChange
  <2> HIDE DEF d
  <2>3. /\ hand' \in [Tabs -> Readings] /\ missed' \in [Tabs -> BOOLEAN]
        /\ files' \in [Tabs -> [Dirs -> Nat]]
    BY <2>1, <2>2, RelistTypes
  <2>4. strayed' \in [Tabs -> BOOLEAN]
    BY <2>2, StraysTypes
  <2> QED BY <1>5, <2>1, <2>3, <2>4 DEF TakeChange, TypeOK
<1>6. CASE TakeDelete(t)
  <2> DEFINE d == Head(cmds[t]).dir
  <2>1. d \in Dirs /\ cmds' \in [Tabs -> Seq(Targets)]
    BY <1>6, TakesTypes DEF TakeDelete
  <2>2. \/ Changed(t, d) /\ Relist(t, d) /\ Strays(t, d)
        \/ Misses(t) /\ (Changed(t, d) \/ UNCHANGED files) /\ UNCHANGED <<hand, strayed>>
    BY <1>6 DEF TakeDelete
  <2> HIDE DEF d
  <2>3. /\ hand' \in [Tabs -> Readings] /\ missed' \in [Tabs -> BOOLEAN]
        /\ files' \in [Tabs -> [Dirs -> Nat]] /\ strayed' \in [Tabs -> BOOLEAN]
    <3>1. CASE Changed(t, d) /\ Relist(t, d) /\ Strays(t, d)
      BY <2>1, <3>1, RelistTypes, StraysTypes
    <3>2. CASE Misses(t) /\ (Changed(t, d) \/ UNCHANGED files) /\ UNCHANGED <<hand, strayed>>
      <4>1. files' \in [Tabs -> [Dirs -> Nat]]
        BY <2>1, <3>2, ChangedTypes
      <4>2. missed' \in [Tabs -> BOOLEAN]
        BY <3>2, MissesTypes
      <4> QED BY <3>2, <4>1, <4>2 DEF TypeOK
    <3> QED BY <2>2, <3>1, <3>2
  <2> QED BY <1>6, <2>1, <2>3 DEF TakeDelete, TypeOK
<1>7. CASE TakeRead(t)
  <2>1. Head(cmds[t]).dir \in Dirs /\ cmds' \in [Tabs -> Seq(Targets)]
    BY <1>7, TakesTypes DEF TakeRead
  <2>2. (Head(cmds[t]).op = "read") \in BOOLEAN
    OBVIOUS
  <2>3. [kind |-> "text", dir |-> Head(cmds[t]).dir, edit |-> Head(cmds[t]).op = "read"]
          \in Reports
    BY <2>1, <2>2 DEF Reports
  <2>4. reports' \in [Tabs -> Seq(Reports)]
    BY <1>7, <2>3, PostsTypes DEF TakeRead, TypeOK
  <2> QED BY <1>7, <2>1, <2>4 DEF TakeRead, TypeOK
<1>8. CASE TakeWrite(t)
  <2>1. cmds' \in [Tabs -> Seq(Targets)]
    BY <1>8, TakesTypes DEF TakeWrite
  <2> QED BY <1>8, <2>1 DEF TakeWrite, TypeOK
<1> QED BY <1>1, <1>2, <1>3, <1>4, <1>5, <1>6, <1>7, <1>8 DEF Worker

-----------------------------------------------------------------------------
LEMMA UploadTypes ==
  ASSUME Typed, NEW u \in Uploads,
         UploadTask(u) \/ \E t \in Tabs : RequestUpload(t, u)
  PROVE  Typed'
<1> DEFINE t == upload[u].tab
           l == upload[u].listing
<1> USE DEF unworked, uiVars, followVars
<1>1. /\ upload[u] \in [stage : Stages, tab : Tabs, listing : Readings]
      /\ t \in Tabs /\ l \in Readings
  BY DEF Typed, TypeOK
<1>2. upload[u].stage # "unused" => l.dir \in Dirs
  BY <1>1 DEF Typed, Placed, Readings
<1>3. ASSUME NEW r \in [stage : Stages, tab : Tabs, listing : Readings],
             upload' = [upload EXCEPT ![u] = r], r.listing # NothingRead,
             UNCHANGED panel
      PROVE  /\ upload' \in [Uploads -> [stage : Stages, tab : Tabs, listing : Readings]]
             /\ Placed'
  BY <1>3 DEF Typed, TypeOK, Placed
<1>4. ASSUME upload' = [upload EXCEPT ![u].stage = "over"], upload[u].stage # "unused",
             UNCHANGED panel
      PROVE  /\ upload' \in [Uploads -> [stage : Stages, tab : Tabs, listing : Readings]]
             /\ Placed'
  <2>1. [upload[u] EXCEPT !.stage = "over"] \in [stage : Stages, tab : Tabs, listing : Readings]
    BY <1>1 DEF Stages
  <2>2. upload[u].listing # NothingRead
    BY <1>4 DEF Typed, Placed
  <2> QED BY <1>1, <1>3, <1>4, <2>1, <2>2
<1>5. CASE UploadEnds(u)
  <2>1. upload[u].stage # "unused" /\ UNCHANGED panel
    BY <1>5 DEF UploadEnds
  <2>2. Changed(t, l.dir) \/ UNCHANGED files
    BY <1>5 DEF UploadEnds
  <2>3. files' \in [Tabs -> [Dirs -> Nat]]
    BY <1>1, <1>2, <2>1, <2>2, ChangedTypes DEF Typed
  <2>4. /\ upload' \in [Uploads -> [stage : Stages, tab : Tabs, listing : Readings]]
        /\ Placed' /\ missed' \in [Tabs -> BOOLEAN]
    <3>1. CASE /\ upload' = [upload EXCEPT ![u].stage = "listed",
                                           ![u].listing = ReadOf(files', t, l.dir)]
               /\ UNCHANGED missed
      <4> DEFINE n == ReadOf(files', t, l.dir)
      <4>1. n \in Readings
        BY <1>1, <1>2, <2>1, <2>3, ReadTypes
      <4>2. n # NothingRead
        BY <1>2, <2>1, DirsAssumption DEF ReadOf, NothingRead
      <4>3. upload' = [upload EXCEPT ![u] = [upload[u] EXCEPT !.stage = "listed", !.listing = n]]
        BY <3>1
      <4> HIDE DEF n
      <4>4. [upload[u] EXCEPT !.stage = "listed", !.listing = n]
              \in [stage : Stages, tab : Tabs, listing : Readings]
        BY <1>1, <4>1 DEF Stages
      <4>5. [upload[u] EXCEPT !.stage = "listed", !.listing = n].listing = n
        BY <1>1
      <4> QED BY <1>3, <2>1, <3>1, <4>2, <4>3, <4>4, <4>5 DEF Typed, TypeOK
    <3>2. CASE upload' = [upload EXCEPT ![u].stage = "over"] /\ Misses(t)
      BY <1>1, <1>4, <2>1, <3>2, MissesTypes DEF Typed
    <3> QED BY <1>5, <3>1, <3>2 DEF UploadEnds
  <2> QED BY <1>5, <2>3, <2>4 DEF UploadEnds, Typed, TypeOK
<1>6. CASE UploadReports(u)
  <2>1. upload[u].stage # "unused" /\ UNCHANGED panel
    BY <1>6 DEF UploadReports
  <2>2. [kind |-> "entries", dir |-> l.dir, seen |-> l.seen] \in Reports
    <3>1. l # NothingRead
      BY <2>1 DEF Typed, Placed
    <3> QED BY <1>1, <3>1 DEF Readings, Reports
  <2>3. reports' \in [Tabs -> Seq(Reports)]
    BY <1>1, <1>6, <2>2, PostsTypes DEF UploadReports, Typed
  <2>4. strayed' \in [Tabs -> BOOLEAN]
    BY <1>1, <1>6, StraysTypes DEF UploadReports, Typed
  <2>5. missed' \in [Tabs -> BOOLEAN]
    <3>1. (l.due # files[t][l.dir]) \in BOOLEAN
      OBVIOUS
    <3> QED BY <1>6, <3>1 DEF UploadReports, Typed, TypeOK
  <2>6. /\ upload' \in [Uploads -> [stage : Stages, tab : Tabs, listing : Readings]]
        /\ Placed'
    BY <1>4, <1>6, <2>1 DEF UploadReports
  <2> QED BY <1>6, <2>3, <2>4, <2>5, <2>6 DEF UploadReports, Typed, TypeOK
<1>7. CASE UploadFails(u)
  <2>1. upload[u].stage # "unused" /\ UNCHANGED panel
    BY <1>7 DEF UploadFails
  <2>2. files' \in [Tabs -> [Dirs -> Nat]]
    BY <1>1, <1>2, <1>7, <2>1, ChangedTypes DEF UploadFails, Typed
  <2>3. missed' \in [Tabs -> BOOLEAN]
    BY <1>1, <1>7, MissesTypes DEF UploadFails, Typed
  <2>4. /\ upload' \in [Uploads -> [stage : Stages, tab : Tabs, listing : Readings]]
        /\ Placed'
    BY <1>4, <1>7, <2>1 DEF UploadFails
  <2> QED BY <1>7, <2>2, <2>3, <2>4 DEF UploadFails, Typed, TypeOK
<1>8. ASSUME NEW v \in Tabs, RequestUpload(v, u)
      PROVE  Typed'
  <2> DEFINE r == [stage |-> "copying", tab |-> v,
                   listing |-> [dir |-> panel[v].path, seen |-> 0, due |-> 0]]
  <2>1. panel[v].path \in Dirs
    BY PanelTypes DEF Typed
  <2>2. r \in [stage : Stages, tab : Tabs, listing : Readings] /\ r.listing # NothingRead
    BY <2>1, DirsAssumption DEF Stages, Readings, NothingRead
  <2>3. upload' = [upload EXCEPT ![u] = r] /\ UNCHANGED panel
    BY <1>8 DEF RequestUpload
  <2>4. requests' \in 0..MaxRequests
    BY <1>8, AsksTypes DEF RequestUpload, Typed
  <2> HIDE DEF r
  <2>5. /\ upload' \in [Uploads -> [stage : Stages, tab : Tabs, listing : Readings]]
        /\ Placed'
    BY <1>3, <2>2, <2>3
  <2> QED BY <1>8, <2>4, <2>5 DEF RequestUpload, Typed, TypeOK
<1> QED BY <1>5, <1>6, <1>7, <1>8 DEF UploadTask

LEMMA UiTypes ==
  ASSUME Typed, NEW t \in Tabs, Ui(t)
  PROVE  Typed'
<1> USE DEF unapplied, followVars, workerVars
<1> DEFINE r == Head(reports[t])
<1>1. ASSUME NEW p \in Panels, panel' = [panel EXCEPT ![t] = p] \/ UNCHANGED panel,
             p.checked => p.listing # NoListing, UNCHANGED upload
      PROVE  panel' \in [Tabs -> Panels] /\ Placed'
  <2>1. panel \in [Tabs -> Panels]
    BY DEF Typed, TypeOK
  <2>2. \A v \in Tabs : panel'[v] = panel[v] \/ panel'[v] = p
    BY <1>1, <2>1
  <2> QED BY <1>1, <2>1, <2>2 DEF Typed, Placed
<1>2. panel[t] \in Panels /\ (panel[t].checked => panel[t].listing # NoListing)
  BY DEF Typed, TypeOK, Placed
<1>3. CASE ApplyCwdChanged(t)
  <2>1. r.dir \in Dirs /\ reports' \in [Tabs -> Seq(Reports)]
    BY <1>3, AppliesTypes DEF ApplyCwdChanged, Typed, Reports
  <2> DEFINE p == [panel[t] EXCEPT !.path = r.dir, !.loading = TRUE]
  <2>2. p \in Panels
    BY <1>2, <2>1, PanelUpdates
  <2>3. p.checked => p.listing # NoListing
    BY <1>2 DEF Panels
  <2>4. panel' = [panel EXCEPT ![t] = p] \/ UNCHANGED panel
    BY <1>3 DEF ApplyCwdChanged
  <2> HIDE DEF p
  <2>5. panel' \in [Tabs -> Panels] /\ Placed'
    BY <1>1, <1>3, <2>2, <2>3, <2>4 DEF ApplyCwdChanged
  <2> QED BY <1>3, <2>1, <2>5 DEF ApplyCwdChanged, Typed, TypeOK
<1>4. CASE ApplySftpEntries(t)
  <2>1. r \in Reports /\ r.kind = "entries" /\ reports' \in [Tabs -> Seq(Reports)]
    BY <1>4, AppliesTypes DEF ApplySftpEntries, Typed
  <2>2. r.dir \in Dirs /\ r.seen \in Nat
    BY <2>1 DEF Reports
  <2> DEFINE p == [path |-> r.dir, checked |-> FALSE, loading |-> FALSE,
                   listing |-> [dir |-> r.dir, seen |-> r.seen]]
  <2>3. p \in Panels /\ ~p.checked
    BY <2>2 DEF Panels, Listings
  <2>4. panel' = [panel EXCEPT ![t] = p] \/ UNCHANGED panel
    BY <1>4 DEF ApplySftpEntries
  <2> HIDE DEF p
  <2>5. panel' \in [Tabs -> Panels] /\ Placed'
    BY <1>1, <1>4, <2>3, <2>4 DEF ApplySftpEntries
  <2> QED BY <1>4, <2>1, <2>5 DEF ApplySftpEntries, Typed, TypeOK
<1>5. CASE ApplySftpError(t)
  <2>1. reports' \in [Tabs -> Seq(Reports)]
    BY <1>5, AppliesTypes DEF ApplySftpError, Typed
  <2> DEFINE p == [panel[t] EXCEPT !.loading = FALSE]
  <2>2. p \in Panels
    BY <1>2, PanelUpdates, DirsAssumption
  <2>3. p.checked => p.listing # NoListing
    BY <1>2 DEF Panels
  <2>4. panel' = [panel EXCEPT ![t] = p] \/ UNCHANGED panel
    BY <1>5 DEF ApplySftpError
  <2> HIDE DEF p
  <2>5. panel' \in [Tabs -> Panels] /\ Placed'
    BY <1>1, <1>5, <2>2, <2>3, <2>4 DEF ApplySftpError
  <2> QED BY <1>5, <2>1, <2>5 DEF ApplySftpError, Typed, TypeOK
<1>6. CASE ApplySftpFileText(t)
  <2>1. r \in Reports /\ r.kind = "text" /\ reports' \in [Tabs -> Seq(Reports)]
    BY <1>6, AppliesTypes DEF ApplySftpFileText, Typed
  <2>2. r.dir \in Dirs /\ r.edit \in BOOLEAN
    BY <2>1 DEF Reports
  <2>3. editor' \in [shown : BOOLEAN, dir : Dirs, from : Tabs, dirty : BOOLEAN,
                     readonly : BOOLEAN]
    BY <1>6, <2>2 DEF ApplySftpFileText
  <2>4. Placed'
    BY <1>6 DEF ApplySftpFileText, Typed, Placed
  <2> QED BY <1>6, <2>1, <2>3, <2>4 DEF ApplySftpFileText, Typed, TypeOK
<1> QED BY <1>3, <1>4, <1>5, <1>6 DEF Ui

(* The panel sees of a download of checked rows that they are unchecked.   *)
LEMMA DownloadUnchecks ==
  ASSUME Typed, NEW t \in Tabs, DownloadSelected(t)
  PROVE  ToggleSelect(t)
<1>1. panel[t].checked
  BY DEF DownloadSelected
<1>2. panel[t].listing.dir # NoDir
  BY <1>1, PanelTypes, DirsAssumption DEF Typed, Placed
<1>3. panel' = [panel EXCEPT ![t].checked = ~@]
  BY <1>1 DEF DownloadSelected
<1> QED BY <1>2, <1>3 DEF DownloadSelected, ToggleSelect

(* What checks or unchecks rows does not take the rows away.               *)
LEMMA DialogPlaced ==
  ASSUME Typed, NEW t \in Tabs, ToggleSelect(t) \/ AskDelete(t) \/ ConfirmDelete(t)
  PROVE  Placed'
<1>1. CASE ToggleSelect(t)
  <2>1. panel[t].listing # NoListing
    BY <1>1 DEF ToggleSelect, NoListing
  <2>2. panel \in [Tabs -> Panels]
    BY DEF Typed, TypeOK
  <2>3. \A v \in Tabs \ {t} : panel'[v] = panel[v]
    BY <1>1, <2>2 DEF ToggleSelect
  <2>4. panel'[t].listing = panel[t].listing
    BY <1>1, <2>2 DEF ToggleSelect, Panels
  <2>5. UNCHANGED upload
    BY <1>1 DEF ToggleSelect, workerVars
  <2> QED BY <2>1, <2>3, <2>4, <2>5 DEF Typed, Placed
<1>2. CASE AskDelete(t)
  BY <1>2 DEF AskDelete, workerVars, Typed, Placed
<1>3. CASE ConfirmDelete(t)
  <2>1. \/ UNCHANGED panel
        \/ panel' = [panel EXCEPT ![t].checked = @ /\ ~dialog.batch]
    BY <1>3 DEF ConfirmDelete
  <2>2. panel \in [Tabs -> Panels]
    BY DEF Typed, TypeOK
  <2>3. \A v \in Tabs : /\ panel'[v].listing = panel[v].listing
                        /\ panel'[v].checked => panel[v].checked
    BY <2>1, <2>2 DEF Panels
  <2> QED BY <1>3, <2>3 DEF ConfirmDelete, Typed, Placed
<1> QED BY <1>1, <1>2, <1>3

LEMMA StepTypes == Typed /\ [Next]_vars => Typed'
<1> SUFFICES ASSUME Typed, [Next]_vars PROVE Typed'
  OBVIOUS
<1> USE DEF Typed
<1>1. ASSUME UNCHANGED <<panel, upload>> PROVE Placed'
  BY <1>1 DEF Placed
<1>2. ASSUME NEW t \in Tabs,
             \/ CloseTab(t) \/ Refresh(t) \/ RequestChange(t) \/ OpenFile(t)
             \/ \E d \in Dirs : Navigate(t, d)
      PROVE  Typed'
  <2>1. UNCHANGED <<panel, upload>>
    BY <1>2 DEF CloseTab, Refresh, RequestChange, OpenFile, Navigate, uiVars, followVars
  <2> QED BY <1>1, <1>2, <2>1, UserTypes
<1>3. ASSUME NEW t \in Tabs, ToggleSelect(t) \/ AskDelete(t) \/ ConfirmDelete(t)
      PROVE  Typed'
  BY <1>3, DialogTypes, DialogPlaced
<1>4. ASSUME NEW t \in Tabs, DownloadSelected(t)
      PROVE  Typed'
  BY <1>3, <1>4, DownloadUnchecks
<1>5. CASE SetFollow \/ CancelDelete \/ Type \/ SaveFile \/ CloseEditor
           \/ \E t \in Tabs \cup {NoTab} : Select(t)
  <2>1. UNCHANGED <<panel, upload>>
    BY <1>5 DEF SetFollow, CancelDelete, Type, SaveFile, CloseEditor, Select, uiVars, workerVars
  <2> QED BY <1>1, <1>5, <2>1, WindowTypes
<1>6. ASSUME NEW t \in Tabs, DebounceFires(t) \/ \E d \in Dirs : PumpCwd(t, d)
      PROVE  Typed'
  <2>1. UNCHANGED <<panel, upload>>
    BY <1>6 DEF DebounceFires, PumpCwd, uiVars, workerVars
  <2> QED BY <1>1, <1>6, <2>1, ShellTypes
<1>7. ASSUME NEW t \in Tabs, Worker(t)
      PROVE  Typed'
  <2>1. UNCHANGED <<panel, upload>>
    BY <1>7 DEF Worker, SftpReady, SftpFails, ReportListing, TakeList, TakeChange, TakeDelete,
       TakeRead, TakeWrite, TakeClose, unworked, uiVars
  <2> QED BY <1>1, <1>7, <2>1, WorkerTypes
<1>8. CASE UNCHANGED vars
  BY <1>8 DEF vars, uiVars, followVars, workerVars, TypeOK, Placed
<1> QED
  BY <1>2, <1>3, <1>4, <1>5, <1>6, <1>7, <1>8, UploadTypes, UiTypes DEF Next, User, Shell

(* Every reachable state has the declared types: in particular every       *)
(* command, listing and report names a directory, and what is checked are  *)
(* rows of a directory.                                                    *)
THEOREM TypeCorrect == Spec => []TypeOK
<1>1. Typed => TypeOK
  BY DEF Typed
<1> QED BY <1>1, InitTypes, StepTypes, PTL DEF Spec

-----------------------------------------------------------------------------
(* Why the rows that are deleted are those the user was asked about: while *)
(* the question is up, the tab stays on screen and nobody can check a row, *)
(* and new rows come unchecked.                                            *)
AskedRows ==
  dialog.shown /\ dialog.batch /\ active \in Tabs /\ panel[active].checked =>
    panel[active].listing.dir = dialog.dir

Confirmed == AskedRows /\ DeletedWasConfirmed

LEMMA DialogConfirms ==
  ASSUME Typed, Confirmed, NEW t \in Tabs,
         ToggleSelect(t) \/ AskDelete(t) \/ ConfirmDelete(t)
  PROVE  Confirmed'
<1>1. CASE ToggleSelect(t)
  BY <1>1 DEF ToggleSelect, InFront, Confirmed, AskedRows, DeletedWasConfirmed
<1>2. CASE AskDelete(t)
  <2>1. t = active /\ dialog'.dir = panel[t].listing.dir /\ UNCHANGED <<active, panel, deleted>>
    BY <1>2 DEF AskDelete, InFront
  <2> QED BY <2>1 DEF Confirmed, AskedRows, DeletedWasConfirmed
<1>3. CASE ConfirmDelete(t)
  <2>1. dialog \in [shown : BOOLEAN, batch : BOOLEAN, dir : Dirs]
    BY DEF Typed, TypeOK
  <2>2. ~dialog'.shown
    BY <1>3, <2>1 DEF ConfirmDelete
  <2>3. AskedRows'
    BY <2>2 DEF AskedRows
  <2>4. CASE dialog.batch /\ ~panel[t].checked
    BY <1>3, <2>3, <2>4 DEF ConfirmDelete, Confirmed, DeletedWasConfirmed
  <2>5. CASE ~(dialog.batch /\ ~panel[t].checked)
    <3> DEFINE d == IF dialog.batch THEN panel[t].listing.dir ELSE dialog.dir
    <3>1. t = active /\ dialog.shown /\ deleted' = deleted \cup {<<dialog.dir, d>>}
      BY <1>3, <2>5 DEF ConfirmDelete
    <3>2. d = dialog.dir
      BY <2>5, <3>1 DEF Confirmed, AskedRows
    <3> HIDE DEF d
    <3> QED BY <2>3, <3>1, <3>2 DEF Confirmed, DeletedWasConfirmed
  <2> QED BY <2>4, <2>5
<1> QED BY <1>1, <1>2, <1>3

LEMMA UiConfirms ==
  ASSUME Typed, Confirmed, NEW t \in Tabs, Ui(t)
  PROVE  Confirmed'
<1>1. UNCHANGED <<active, dialog, deleted>>
  BY DEF Ui, ApplyCwdChanged, ApplySftpEntries, ApplySftpError, ApplySftpFileText, unapplied
<1>2. panel \in [Tabs -> Panels]
  BY DEF Typed, TypeOK
<1>3. \A v \in Tabs : panel'[v].checked => /\ panel[v].checked
                                          /\ panel'[v].listing = panel[v].listing
  <2>1. CASE ApplySftpEntries(t)
    <3>1. \A v \in Tabs : panel'[v] = panel[v] \/ ~panel'[v].checked
      BY <1>2, <2>1 DEF ApplySftpEntries
    <3> QED BY <3>1
  <2>2. CASE ApplyCwdChanged(t)
    BY <1>2, <2>2 DEF ApplyCwdChanged, Panels
  <2>3. CASE ApplySftpError(t)
    BY <1>2, <2>3 DEF ApplySftpError, Panels
  <2>4. CASE ApplySftpFileText(t)
    BY <2>4 DEF ApplySftpFileText
  <2> QED BY <2>1, <2>2, <2>3, <2>4 DEF Ui
<1> QED BY <1>1, <1>3 DEF Confirmed, AskedRows, DeletedWasConfirmed

LEMMA StepConfirms == Typed /\ Confirmed /\ [Next]_vars => Confirmed'
<1> SUFFICES ASSUME Typed, Confirmed, [Next]_vars PROVE Confirmed'
  OBVIOUS
<1>1. ASSUME UNCHANGED <<active, panel, dialog, deleted>> PROVE Confirmed'
  BY <1>1 DEF Confirmed, AskedRows, DeletedWasConfirmed
<1>2. ASSUME NEW t \in Tabs \cup {NoTab}, Select(t) \/ (t \in Tabs /\ CloseTab(t))
      PROVE  Confirmed'
  <2>1. ~dialog.shown /\ UNCHANGED <<dialog, deleted>>
    BY <1>2 DEF Select, CloseTab
  <2> QED BY <2>1 DEF Confirmed, AskedRows, DeletedWasConfirmed
<1>3. CASE CancelDelete
  <2>1. dialog \in [shown : BOOLEAN, batch : BOOLEAN, dir : Dirs]
    BY DEF Typed, TypeOK
  <2>2. ~dialog'.shown /\ UNCHANGED deleted
    BY <1>3, <2>1 DEF CancelDelete
  <2> QED BY <2>2 DEF Confirmed, AskedRows, DeletedWasConfirmed
<1>4. ASSUME NEW t \in Tabs,
             \/ Refresh(t) \/ RequestChange(t) \/ OpenFile(t) \/ DebounceFires(t)
             \/ \E d \in Dirs : Navigate(t, d) \/ PumpCwd(t, d)
             \/ \E u \in Uploads : RequestUpload(t, u)
      PROVE  Confirmed'
  BY <1>1, <1>4 DEF Refresh, RequestChange, OpenFile, DebounceFires, Navigate, PumpCwd,
     RequestUpload, uiVars
<1>5. CASE SetFollow \/ Type \/ SaveFile \/ CloseEditor
  BY <1>1, <1>5 DEF SetFollow, Type, SaveFile, CloseEditor, uiVars
<1>6. ASSUME NEW t \in Tabs, Worker(t)
      PROVE  Confirmed'
  BY <1>1, <1>6 DEF Worker, SftpReady, SftpFails, ReportListing, TakeList, TakeChange,
     TakeDelete, TakeRead, TakeWrite, TakeClose, unworked, uiVars
<1>7. ASSUME NEW u \in Uploads, UploadTask(u)
      PROVE  Confirmed'
  BY <1>1, <1>7 DEF UploadTask, UploadEnds, UploadReports, UploadFails, unworked, uiVars
<1>8. CASE UNCHANGED vars
  BY <1>1, <1>8 DEF vars, uiVars
<1> QED
  BY <1>2, <1>3, <1>4, <1>5, <1>6, <1>7, <1>8, DialogConfirms, UiConfirms, DownloadUnchecks
     DEF Next, User, Shell

(* Whatever is listed, followed or uploaded while the user is asked, what  *)
(* the worker is told to delete are rows of the directory the question was *)
(* about.                                                                  *)
THEOREM DeletesAreConfirmed == Spec => []DeletedWasConfirmed
<1>1. Init => Confirmed
  BY DEF Init, Confirmed, AskedRows, DeletedWasConfirmed
<1>2. Confirmed => DeletedWasConfirmed
  BY DEF Confirmed
<1> QED BY <1>1, <1>2, InitTypes, StepTypes, StepConfirms, PTL DEF Spec
-----------------------------------------------------------------------------
(* What comes last in a queue, of the entries that matter.                 *)
NoneIn(q, S)    == \A i \in 1..Len(q) : q[i] \notin S
LastIn(q, S, x) ==
  x \in S /\ \E i \in 1..Len(q) : q[i] = x /\ \A j \in 1..Len(q) : j > i => q[j] \notin S

LEMMA AppendFacts ==
  ASSUME NEW T, NEW q \in Seq(T), NEW e \in T
  PROVE  /\ Len(q) \in Nat /\ Len(Append(q, e)) = Len(q) + 1
         /\ \A i \in 1..Len(q) : Append(q, e)[i] = q[i]
         /\ Append(q, e)[Len(q) + 1] = e
OBVIOUS

LEMMA TailFacts ==
  ASSUME NEW T, NEW q \in Seq(T), q # <<>>
  PROVE  /\ Len(q) \in Nat /\ Len(q) >= 1 /\ Head(q) = q[1]
         /\ Len(Tail(q)) = Len(q) - 1
         /\ \A i \in 1..(Len(q) - 1) : Tail(q)[i] = q[i + 1]
OBVIOUS

LEMMA LastOfAppend ==
  ASSUME NEW T, NEW q \in Seq(T), NEW e \in T, NEW S
  PROVE  /\ e \in S => LastIn(Append(q, e), S, e)
         /\ e \notin S => /\ NoneIn(q, S) => NoneIn(Append(q, e), S)
                          /\ \A x : LastIn(q, S, x) => LastIn(Append(q, e), S, x)
<1> DEFINE n == Len(q)
           p == Append(q, e)
<1>1. /\ n \in Nat /\ Len(p) = n + 1 /\ p[n + 1] = e
      /\ \A i \in 1..n : p[i] = q[i]
  BY AppendFacts
<1> HIDE DEF n, p
<1>2. \A i \in 1..(n + 1) : i = n + 1 \/ i \in 1..n
  BY <1>1
<1>3. n + 1 \in 1..(n + 1) /\ \A j \in 1..(n + 1) : ~(j > n + 1)
  BY <1>1
<1>4. e \in S => LastIn(p, S, e)
  BY <1>1, <1>3 DEF LastIn
<1>5. e \notin S /\ NoneIn(q, S) => NoneIn(p, S)
  BY <1>1, <1>2 DEF NoneIn, n
<1>6. ASSUME e \notin S, NEW x, LastIn(q, S, x)
      PROVE  LastIn(p, S, x)
  <2>1. PICK i \in 1..n : q[i] = x /\ \A j \in 1..n : j > i => q[j] \notin S
    BY <1>6 DEF LastIn, n
  <2>2. i \in 1..(n + 1) /\ p[i] = x
    BY <1>1, <2>1
  <2>3. \A j \in 1..(n + 1) : j > i => p[j] \notin S
    BY <1>1, <1>2, <1>6, <2>1
  <2> QED BY <1>1, <1>6, <2>2, <2>3 DEF LastIn
<1> QED BY <1>4, <1>5, <1>6 DEF p

LEMMA LastOfTail ==
  ASSUME NEW T, NEW q \in Seq(T), q # <<>>, NEW S
  PROVE  /\ NoneIn(q, S) => NoneIn(Tail(q), S) /\ Head(q) \notin S
         /\ \A x : LastIn(q, S, x) =>
              LastIn(Tail(q), S, x) \/ (Head(q) = x /\ NoneIn(Tail(q), S))
<1> DEFINE n == Len(q)
           p == Tail(q)
<1>1. /\ n \in Nat /\ n >= 1 /\ Len(p) = n - 1 /\ Head(q) = q[1]
      /\ \A i \in 1..(n - 1) : p[i] = q[i + 1]
  BY TailFacts
<1> HIDE DEF n, p
<1>2. \A i \in 1..(n - 1) : i + 1 \in 1..n
  BY <1>1
<1>3. NoneIn(q, S) => NoneIn(p, S) /\ Head(q) \notin S
  <2>1. 1 \in 1..n
    BY <1>1
  <2> QED BY <1>1, <1>2, <2>1 DEF NoneIn, n
<1>4. ASSUME NEW x, LastIn(q, S, x)
      PROVE  LastIn(p, S, x) \/ (Head(q) = x /\ NoneIn(p, S))
  <2>1. PICK i \in 1..n : q[i] = x /\ \A j \in 1..n : j > i => q[j] \notin S
    BY <1>4 DEF LastIn, n
  <2>2. CASE i = 1
    <3>1. \A j \in 1..(n - 1) : p[j] \notin S
      BY <1>1, <1>2, <2>1, <2>2
    <3> QED BY <1>1, <2>1, <2>2, <3>1 DEF NoneIn
  <2>3. CASE i # 1
    <3>1. i - 1 \in 1..(n - 1) /\ p[i - 1] = x
      BY <1>1, <2>1, <2>3
    <3>2. \A j \in 1..(n - 1) : j > i - 1 => p[j] \notin S
      BY <1>1, <1>2, <2>1
    <3> QED BY <1>1, <1>4, <3>1, <3>2 DEF LastIn
  <2> QED BY <2>2, <2>3
<1> QED BY <1>3, <1>4 DEF p

-----------------------------------------------------------------------------
(* Why a panel follows the shell: of all that is still to come, in the     *)
(* order it comes, the last that puts a directory on show is for that of   *)
(* the prompt.  What is to come is first what was posted, then the listing *)
(* the command loop holds, then its commands, and last the listing that    *)
(* waits for the 500 ms.                                                   *)
ListCommands == [op : {"list"}, dir : Dirs, from : Tabs]
Placing      == {r \in Reports : r.kind \in {"cwd", "entries"}}

LastPlaced(t, d) ==
  \/ panel[t].path = d /\ NoneIn(reports[t], Placing)
  \/ \E r \in Placing : r.dir = d /\ LastIn(reports[t], Placing, r)

LastList(t, d) == \E c \in ListCommands : c.dir = d /\ LastIn(cmds[t], ListCommands, c)

Heading(t, d) ==
  \/ debounce[t] = d
  \/ debounce[t] = NoDir /\ LastList(t, d)
  \/ /\ debounce[t] = NoDir /\ NoneIn(cmds[t], ListCommands) /\ worker[t] = "up"
     /\ IF hand[t] # NothingRead THEN hand[t].dir = d ELSE LastPlaced(t, d)

Follows(t) ==
  t \in open =>
    /\ lastCwd[t] = shellAt[t]
    /\ worker[t] # "gone" /\ ~strayed[t] /\ shellAt[t] # NoDir => Heading(t, shellAt[t])

FollowInv == \A t \in Tabs : Follows(t)

LEMMA StraysMeans ==
  ASSUME TypeOK, NEW t \in Tabs, NEW d, Strays(t, d)
  PROVE  /\ strayed[t] => strayed'[t]
         /\ ~strayed'[t] => lastCwd[t] \in {d, NoDir}
         /\ \A v \in Tabs \ {t} : strayed'[v] = strayed[v]
<1>1. strayed' = [strayed EXCEPT ![t] = strayed[t] \/ lastCwd[t] \notin {d, NoDir}]
  BY DEF Strays
<1>2. strayed'[t] = (strayed[t] \/ lastCwd[t] \notin {d, NoDir})
  BY <1>1 DEF TypeOK
<1>3. \A v \in Tabs \ {t} : strayed'[v] = strayed[v]
  BY <1>1 DEF TypeOK
<1> HIDE DEF Strays
<1> QED BY <1>2, <1>3

(* What happens to the two queues of a tab.                                *)
SentTo(v, c)   == cmds'[v] \in {cmds[v], Append(cmds[v], c)}
TakenFrom(v)   == cmds[v] # <<>> /\ cmds'[v] = Tail(cmds[v])
AppliedFrom(v) == reports[v] # <<>> /\ reports'[v] = Tail(reports[v])

(* What neither lists, nor puts a directory on show, changes nothing of it.*)
LEMMA FollowKept ==
  ASSUME Typed, NEW v \in Tabs, Follows(v), open' \subseteq open,
         UNCHANGED <<lastCwd[v], shellAt[v], debounce[v], worker[v], hand[v], panel[v].path>>,
         strayed[v] => strayed'[v],
         \/ cmds'[v] = cmds[v]
         \/ \E c \in Targets \ ListCommands : SentTo(v, c)
         \/ TakenFrom(v) /\ Head(cmds[v]) \notin ListCommands,
         \/ reports'[v] = reports[v]
         \/ \E r \in Reports \ Placing : reports'[v] = Append(reports[v], r)
         \/ AppliedFrom(v) /\ Head(reports[v]) \notin Placing
  PROVE  Follows(v)'
<1>1. cmds[v] \in Seq(Targets) /\ reports[v] \in Seq(Reports)
  BY DEF Typed, TypeOK
<1> DEFINE CommandsKept ==
             /\ NoneIn(cmds[v], ListCommands) => NoneIn(cmds'[v], ListCommands)
             /\ \A c \in ListCommands : LastIn(cmds[v], ListCommands, c)
                                          => LastIn(cmds'[v], ListCommands, c)
           ReportsKept ==
             /\ NoneIn(reports[v], Placing) => NoneIn(reports'[v], Placing)
             /\ \A r \in Placing : LastIn(reports[v], Placing, r)
                                     => LastIn(reports'[v], Placing, r)
<1>2. CommandsKept
  <2>1. ASSUME NEW c \in Targets \ ListCommands, SentTo(v, c)
        PROVE  CommandsKept
    BY <1>1, <2>1, LastOfAppend DEF SentTo
  <2>2. CASE TakenFrom(v) /\ Head(cmds[v]) \notin ListCommands
    BY <1>1, <2>2, LastOfTail DEF TakenFrom
  <2> QED BY <2>1, <2>2
<1>3. ReportsKept
  <2>1. ASSUME NEW r \in Reports \ Placing, reports'[v] = Append(reports[v], r)
        PROVE  ReportsKept
    BY <1>1, <2>1, LastOfAppend
  <2>2. CASE AppliedFrom(v) /\ Head(reports[v]) \notin Placing
    BY <1>1, <2>2, LastOfTail DEF AppliedFrom
  <2> QED BY <2>1, <2>2
<1>4. \A d : LastPlaced(v, d) => LastPlaced(v, d)'
  BY <1>3 DEF LastPlaced
<1>5. \A d : LastList(v, d) => LastList(v, d)'
  BY <1>2 DEF LastList
<1>6. \A d : Heading(v, d) => Heading(v, d)'
  BY <1>2, <1>4, <1>5 DEF Heading
<1> QED BY <1>6 DEF Follows
LEMMA IsListCommand ==
  ASSUME NEW c \in Targets
  PROVE  c \in ListCommands <=> c.op = "list"
BY DEF Targets, ListCommands

LEMMA SentIs ==
  ASSUME TypeOK, NEW t \in Tabs, NEW c \in Targets, cmds' = Sent(t, c)
  PROVE  /\ cmds'[t] = IF worker[t] = "gone" THEN cmds[t] ELSE Append(cmds[t], c)
         /\ SentTo(t, c)
         /\ \A v \in Tabs \ {t} : cmds'[v] = cmds[v]
BY DEF Sent, SentTo, TypeOK

(* The next listing that is asked for is that of the followed directory.   *)
LEMMA FollowSends ==
  ASSUME Typed, NEW t \in Tabs, NEW d \in Dirs, Follows(t),
         cmds' = Sent(t, Command("list", d, t)),
         UNCHANGED <<open, panel, lastCwd, shellAt, worker, hand, reports>>,
         strayed[t] => strayed'[t],
         ~strayed'[t] /\ shellAt[t] # NoDir => d = shellAt[t],
         debounce'[t] \in {debounce[t], NoDir},
         debounce[t] # NoDir => debounce'[t] = debounce[t] \/ d = debounce[t]
  PROVE  Follows(t)'
<1> DEFINE c == Command("list", d, t)
<1>1. c \in Targets /\ c \in ListCommands /\ c.dir = d
  BY DEF Command, Targets, ListCommands
<1> HIDE DEF c
<1>2. worker[t] # "gone" => cmds'[t] = Append(cmds[t], c)
  BY <1>1, SentIs DEF Typed, c
<1>3. cmds[t] \in Seq(Targets)
  BY DEF Typed, TypeOK
<1>4. worker[t] # "gone" => LastList(t, d)'
  <2>1. LastIn(Append(cmds[t], c), ListCommands, c)
    BY <1>1, <1>3, LastOfAppend
  <2> QED BY <1>1, <1>2, <2>1 DEF LastList
<1> SUFFICES ASSUME t \in open, worker[t] # "gone", ~strayed'[t], shellAt[t] # NoDir
             PROVE  Heading(t, shellAt[t])'
  BY DEF Follows
<1>5. Heading(t, shellAt[t]) /\ d = shellAt[t]
  BY DEF Follows
<1>6. debounce'[t] = shellAt[t] \/ debounce'[t] = NoDir
  BY <1>5 DEF Heading
<1> QED BY <1>4, <1>5, <1>6 DEF Heading

LEMMA FollowPrompts ==
  ASSUME Typed, FollowInv, NEW t \in Tabs, NEW d \in Dirs, PumpCwd(t, d)
  PROVE  FollowInv'
<1>1. /\ lastCwd'[t] = d /\ shellAt'[t] = d
      /\ \A v \in Tabs \ {t} :
           /\ UNCHANGED <<lastCwd[v], shellAt[v], debounce[v], strayed[v]>>
           /\ reports'[v] = reports[v]
      /\ UNCHANGED <<open, panel, worker, cmds, hand>>
  BY DEF PumpCwd, Posts, Typed, TypeOK, uiVars, workerVars
<1>2. ASSUME NEW v \in Tabs \ {t}
      PROVE  Follows(v)'
  BY <1>1, FollowKept DEF FollowInv
<1>3. Follows(t)'
  <2>1. CASE lastCwd[t] # d /\ follow
    <3>1. debounce'[t] = d
      BY <2>1 DEF PumpCwd, Typed, TypeOK
    <3> QED BY <1>1, <3>1 DEF Follows, Heading
  <2>2. CASE ~(lastCwd[t] # d /\ follow)
    <3>1. UNCHANGED <<debounce, reports>>
      BY <2>2 DEF PumpCwd
    <3>2. strayed' = [strayed EXCEPT ![t] = strayed[t] \/ ~follow]
      BY <2>2 DEF PumpCwd
    <3>3. strayed'[t] = (strayed[t] \/ ~follow)
      BY <3>2 DEF Typed, TypeOK
    <3>4. ~strayed'[t] => lastCwd[t] = d /\ ~strayed[t]
      BY <2>2, <3>3
    <3>5. t \in open /\ ~strayed'[t] /\ worker[t] # "gone" => Heading(t, d)
      BY <3>4, DirsAssumption DEF FollowInv, Follows
    <3>6. Heading(t, d) => Heading(t, d)'
      BY <1>1, <3>1 DEF Heading, LastList, LastPlaced
    <3> QED BY <1>1, <3>5, <3>6 DEF Follows
  <2> QED BY <2>1, <2>2
<1> QED BY <1>2, <1>3 DEF FollowInv

LEMMA FollowUser ==
  ASSUME Typed, FollowInv,
         \/ \E t \in Tabs : \/ CloseTab(t) \/ Refresh(t) \/ RequestChange(t)
                            \/ OpenFile(t) \/ DebounceFires(t)
                            \/ \E d \in Dirs : Navigate(t, d)
                            \/ \E u \in Uploads : RequestUpload(t, u)
         \/ SetFollow \/ CancelDelete \/ Type \/ SaveFile \/ CloseEditor
         \/ \E t \in Tabs \cup {NoTab} : Select(t)
  PROVE  FollowInv'
<1>0. TypeOK
  BY DEF Typed
<1>1. ASSUME NEW t \in Tabs, CloseTab(t) PROVE FollowInv'
  <2> DEFINE c == [op |-> "close"]
  <2>1. c \in Targets /\ c \notin ListCommands
    <3>1. c \in Targets /\ c.op = "close"
      BY DEF Targets
    <3> QED BY <3>1, IsListCommand
  <2>2. cmds' = Sent(t, c)
    BY <1>1 DEF CloseTab
  <2> HIDE DEF c
  <2>3. \A v \in Tabs \ {t} : cmds'[v] = cmds[v] /\ lastCwd'[v] = lastCwd[v]
    BY <1>0, <1>1, <2>1, <2>2, SentIs DEF CloseTab, TypeOK
  <2>4. UNCHANGED <<panel, debounce, shellAt, worker, hand, reports, strayed>>
        /\ open' = open \ {t}
    BY <1>1 DEF CloseTab
  <2>5. ASSUME NEW v \in Tabs \ {t} PROVE Follows(v)'
    BY <2>3, <2>4, FollowKept DEF FollowInv
  <2>6. Follows(t)'
    BY <2>4 DEF Follows
  <2> QED BY <2>5, <2>6 DEF FollowInv
<1>2. ASSUME NEW t \in Tabs, NEW d \in Dirs, Navigate(t, d) PROVE FollowInv'
  <2>1. /\ cmds' = Sent(t, Command("list", d, t)) /\ Command("list", d, t) \in Targets
        /\ lastCwd' = [lastCwd EXCEPT ![t] = NoDir]
        /\ shellAt' = [shellAt EXCEPT ![t] = NoDir]
        /\ strayed' = [strayed EXCEPT ![t] = FALSE]
        /\ UNCHANGED <<open, panel, debounce, worker, hand, reports>>
    BY <1>2, CommandTypes DEF Navigate, uiVars
  <2>2. /\ lastCwd'[t] = NoDir /\ shellAt'[t] = NoDir
        /\ \A v \in Tabs \ {t} :
             UNCHANGED <<lastCwd[v], shellAt[v], strayed[v], cmds[v]>>
    BY <1>0, <2>1, SentIs DEF TypeOK
  <2>3. ASSUME NEW v \in Tabs \ {t} PROVE Follows(v)'
    BY <2>1, <2>2, FollowKept DEF FollowInv
  <2>4. Follows(t)'
    BY <2>2 DEF Follows
  <2> QED BY <2>3, <2>4 DEF FollowInv
<1>3. ASSUME NEW t \in Tabs, Refresh(t) PROVE FollowInv'
  <2> DEFINE d == panel[t].path
  <2>1. d \in Dirs
    BY <1>0, PanelTypes
  <2>2. /\ cmds' = Sent(t, Command("list", d, t)) /\ Command("list", d, t) \in Targets
        /\ UNCHANGED <<open, panel, lastCwd, shellAt, debounce, worker, hand, reports>>
        /\ Strays(t, d)
    BY <1>3, <2>1, CommandTypes DEF Refresh, uiVars, followVars
  <2>3. ASSUME NEW v \in Tabs \ {t} PROVE Follows(v)'
    BY <1>0, <2>1, <2>2, SentIs, StraysMeans, FollowKept DEF FollowInv
  <2>4. t \in open /\ ~strayed'[t] /\ shellAt[t] # NoDir => d = shellAt[t]
    BY <1>0, <2>2, StraysMeans DEF FollowInv, Follows
  <2>5. strayed[t] => strayed'[t]
    BY <1>0, <2>2, StraysMeans
  <2>6. t \in open
    BY <1>3 DEF Refresh, InFront
  <2> HIDE DEF d
  <2>7. Follows(t)'
    BY <2>1, <2>2, <2>4, <2>5, <2>6, FollowSends DEF FollowInv
  <2> QED BY <2>3, <2>7 DEF FollowInv
<1>4. ASSUME NEW t \in Tabs, DebounceFires(t) PROVE FollowInv'
  <2> DEFINE d == debounce[t]
  <2>1. d \in Dirs
    BY <1>0, <1>4 DEF DebounceFires, TypeOK
  <2>2. /\ debounce' = [debounce EXCEPT ![t] = NoDir]
        /\ UNCHANGED <<open, panel, lastCwd, shellAt, worker, hand, reports, strayed>>
        /\ t \in open => cmds' = Sent(t, Command("list", d, t))
        /\ t \notin open => UNCHANGED cmds
        /\ Command("list", d, t) \in Targets
    BY <1>4, <2>1, CommandTypes DEF DebounceFires, uiVars
  <2>3. debounce'[t] = NoDir /\ \A v \in Tabs \ {t} : debounce'[v] = debounce[v]
    BY <1>0, <2>2 DEF TypeOK
  <2>4. \A v \in Tabs \ {t} : cmds'[v] = cmds[v]
    BY <1>0, <2>1, <2>2, SentIs
  <2>5. ASSUME NEW v \in Tabs \ {t} PROVE Follows(v)'
    BY <2>2, <2>3, <2>4, FollowKept DEF FollowInv
  <2>6. Follows(t)'
    <3>1. CASE t \notin open
      BY <2>2, <3>1 DEF Follows
    <3>2. CASE t \in open /\ worker[t] # "gone" /\ ~strayed[t] /\ shellAt[t] # NoDir
      <4>1. d = shellAt[t]
        BY <1>4, <3>2 DEF DebounceFires, FollowInv, Follows, Heading
      <4> HIDE DEF d
      <4> QED BY <2>1, <2>2, <2>3, <3>2, <4>1, FollowSends DEF FollowInv, d
    <3>3. CASE t \in open /\ ~(worker[t] # "gone" /\ ~strayed[t] /\ shellAt[t] # NoDir)
      BY <2>2, <3>3 DEF FollowInv, Follows
    <3> QED BY <3>1, <3>2, <3>3
  <2> QED BY <2>5, <2>6 DEF FollowInv
<1>5. ASSUME NEW c \in Targets, c.op # "list", NEW t \in Tabs,
             cmds' = Sent(t, c) \/ UNCHANGED cmds,
             UNCHANGED <<open, panel, lastCwd, shellAt, debounce, worker, hand, reports,
                         strayed>>
      PROVE  FollowInv'
  <2>1. c \in Targets \ ListCommands
    BY <1>5, IsListCommand
  <2>2. \A v \in Tabs : cmds'[v] = cmds[v] \/ SentTo(v, c)
    BY <1>0, <1>5, SentIs
  <2> QED BY <1>5, <2>1, <2>2, FollowKept DEF FollowInv
<1>6. ASSUME NEW t \in Tabs, RequestChange(t) \/ OpenFile(t) PROVE FollowInv'
  <2>1. Pointed(t) \subseteq Dirs
    BY <1>0, PanelTypes DEF Pointed
  <2>2. PICK d \in Dirs, op \in {"change", "read", "view"} : cmds' = Sent(t, Command(op, d, t))
    <3>1. CASE RequestChange(t)
      BY <2>1, <3>1 DEF RequestChange
    <3>2. CASE OpenFile(t)
      <4>1. panel[t].listing.dir \in Dirs
        BY <1>0, <3>2, PanelTypes DEF OpenFile
      <4> QED BY <3>2, <4>1 DEF OpenFile
    <3> QED BY <1>6, <3>1, <3>2
  <2>3. Command(op, d, t) \in Targets /\ Command(op, d, t).op # "list"
    BY <2>2, CommandTypes DEF Command
  <2>4. UNCHANGED <<open, panel, lastCwd, shellAt, debounce, worker, hand, reports, strayed>>
    BY <1>6 DEF RequestChange, OpenFile, uiVars, followVars
  <2> QED BY <1>5, <2>2, <2>3, <2>4
<1>7. CASE SaveFile \/ CloseEditor
  <2> DEFINE c == Command("write", editor.dir, editor.from)
  <2>1. c \in Targets /\ c.op # "list"
    BY <1>0, CommandTypes DEF TypeOK, Command
  <2>2. \/ active \in Tabs /\ cmds' = Sent(active, c)
        \/ UNCHANGED cmds
    BY <1>0, <1>7 DEF SaveFile, CloseEditor, WriteText, TypeOK
  <2>3. UNCHANGED <<open, panel, lastCwd, shellAt, debounce, worker, hand, reports, strayed>>
    BY <1>7 DEF SaveFile, CloseEditor, followVars
  <2> HIDE DEF c
  <2> QED BY <1>5, <2>1, <2>2, <2>3, FollowKept DEF FollowInv
<1>8. ASSUME \/ SetFollow \/ CancelDelete \/ Type
             \/ \E t \in Tabs \cup {NoTab} : Select(t)
             \/ \E t \in Tabs, u \in Uploads : RequestUpload(t, u)
      PROVE  FollowInv'
  <2>1. UNCHANGED <<open, panel, lastCwd, shellAt, debounce, worker, cmds, hand, reports,
                    strayed>>
    BY <1>8 DEF SetFollow, CancelDelete, Type, Select, RequestUpload, uiVars, followVars,
       workerVars
  <2> QED BY <2>1, FollowKept DEF FollowInv
<1> QED BY <1>1, <1>2, <1>3, <1>4, <1>6, <1>7, <1>8

LEMMA FollowDialog ==
  ASSUME Typed, FollowInv, NEW t \in Tabs,
         ToggleSelect(t) \/ AskDelete(t) \/ ConfirmDelete(t)
  PROVE  FollowInv'
<1>0. TypeOK
  BY DEF Typed
<1>1. UNCHANGED <<open, lastCwd, shellAt, debounce, worker, hand, reports, strayed>>
  BY DEF ToggleSelect, AskDelete, ConfirmDelete, followVars, workerVars
<1>2. \A v \in Tabs : panel'[v].path = panel[v].path
  <2>1. \/ UNCHANGED panel
        \/ \E b : panel' = [panel EXCEPT ![t].checked = b]
    BY DEF ToggleSelect, AskDelete, ConfirmDelete
  <2>2. panel \in [Tabs -> Panels]
    BY <1>0 DEF TypeOK
  <2> QED BY <2>1, <2>2 DEF Panels
<1>3. \/ UNCHANGED cmds
      \/ \E c \in Targets \ ListCommands : \A v \in Tabs : cmds'[v] = cmds[v] \/ SentTo(v, c)
  <2>1. CASE ConfirmDelete(t) /\ ~(dialog.batch /\ ~panel[t].checked)
    <3> DEFINE d == IF dialog.batch THEN panel[t].listing.dir ELSE dialog.dir
               c == Command("delete", d, t)
    <3>1. d \in Dirs
      BY <1>0, <2>1, PanelTypes DEF Typed, Placed, TypeOK
    <3>2. cmds' = Sent(t, c)
      BY <2>1 DEF ConfirmDelete
    <3> HIDE DEF d
    <3>3. c \in Targets /\ c.op # "list"
      BY <3>1, CommandTypes DEF Command
    <3> HIDE DEF c
    <3>4. c \in Targets \ ListCommands
      BY <3>3, IsListCommand
    <3> QED BY <1>0, <3>2, <3>4, SentIs
  <2>2. CASE ~(ConfirmDelete(t) /\ ~(dialog.batch /\ ~panel[t].checked))
    BY <2>2 DEF ToggleSelect, AskDelete, ConfirmDelete, workerVars
  <2> QED BY <2>1, <2>2
<1> QED BY <1>1, <1>2, <1>3, FollowKept DEF FollowInv
(* A listing is in the hands of the command loop, or an error is posted    *)
(* while no directory is followed.                                         *)
LEMMA ListsMeans ==
  ASSUME Typed, NEW t \in Tabs, NEW d \in Dirs, Lists(t, d)
  PROVE  /\ \/ /\ hand'[t] # NothingRead /\ hand'[t].dir = d
               /\ UNCHANGED <<reports, strayed>>
            \/ /\ UNCHANGED hand
               /\ \E r \in Reports \ Placing : reports'[t] = Append(reports[t], r)
               /\ strayed[t] => strayed'[t]
               /\ ~strayed'[t] => lastCwd[t] = NoDir
         /\ \A v \in Tabs \ {t} : UNCHANGED <<hand[v], reports[v], strayed[v]>>
<1>0. TypeOK
  BY DEF Typed
<1>1. CASE hand' = [hand EXCEPT ![t] = Read(t, d)] /\ UNCHANGED <<reports, strayed>>
  <2>1. hand'[t] = Read(t, d) /\ \A v \in Tabs \ {t} : hand'[v] = hand[v]
    BY <1>0, <1>1 DEF TypeOK
  <2>2. Read(t, d).dir = d /\ NothingRead.dir = NoDir
    BY DEF Read, ReadOf, NothingRead
  <2> QED BY <1>1, <2>1, <2>2, DirsAssumption
<1>2. CASE Posts(t, [kind |-> "error", dir |-> d]) /\ Strays(t, NoDir) /\ UNCHANGED hand
  <2> DEFINE r == [kind |-> "error", dir |-> d]
  <2>1. r \in Reports /\ r \notin Placing
    BY DEF Reports, Placing
  <2> HIDE DEF r
  <2>2. /\ reports'[t] = Append(reports[t], r)
        /\ \A v \in Tabs \ {t} : reports'[v] = reports[v]
    BY <1>0, <1>2 DEF Posts, TypeOK, r
  <2> QED BY <1>0, <1>2, <2>1, <2>2, StraysMeans
<1> QED BY <1>1, <1>2 DEF Lists

LEMMA FollowLists ==
  ASSUME Typed, FollowInv, NEW t \in Tabs, SftpReady(t) \/ TakeList(t)
  PROVE  FollowInv'
<1> USE DEF unworked, uiVars, followVars
<1>0. TypeOK
  BY DEF Typed
<1>1. UNCHANGED <<open, panel, lastCwd, shellAt, debounce>>
  BY DEF SftpReady, TakeList
<1>2. PICK d \in Dirs : Lists(t, d) /\ (TakeList(t) => d = Head(cmds[t]).dir)
  <2>1. CASE SftpReady(t) /\ ~TakeList(t)
    BY <2>1, DirsAssumption DEF SftpReady
  <2>2. CASE TakeList(t)
    BY <1>0, <2>2, TakesTypes DEF TakeList
  <2> QED BY <2>1, <2>2
<1>3. /\ \/ /\ hand'[t] # NothingRead /\ hand'[t].dir = d
            /\ UNCHANGED <<reports, strayed>>
         \/ /\ UNCHANGED hand
            /\ \E r \in Reports \ Placing : reports'[t] = Append(reports[t], r)
            /\ strayed[t] => strayed'[t]
            /\ ~strayed'[t] => lastCwd[t] = NoDir
      /\ \A v \in Tabs \ {t} : UNCHANGED <<hand[v], reports[v], strayed[v]>>
  BY <1>2, ListsMeans
<1>4. \A v \in Tabs \ {t} : cmds'[v] = cmds[v] /\ worker'[v] = worker[v]
  BY <1>0 DEF SftpReady, TakeList, Takes, TypeOK
<1>5. ASSUME NEW v \in Tabs \ {t} PROVE Follows(v)'
  BY <1>1, <1>3, <1>4, FollowKept DEF FollowInv
<1>6. worker[t] # "gone" /\ worker'[t] = "up"
  BY <1>0 DEF SftpReady, TakeList, Takes, Idle, TypeOK
<1>7. ASSUME t \in open, ~strayed'[t], shellAt[t] # NoDir
      PROVE  Heading(t, shellAt[t])'
  <2>1. lastCwd[t] # NoDir
    BY <1>7 DEF FollowInv, Follows
  <2>2. hand'[t] # NothingRead /\ hand'[t].dir = d /\ ~strayed[t]
    BY <1>3, <1>7, <2>1
  <2>3. Heading(t, shellAt[t])
    BY <1>6, <1>7, <2>2 DEF FollowInv, Follows
  <2>4. CASE debounce[t] = shellAt[t]
    BY <1>1, <2>4 DEF Heading
  <2>5. CASE TakeList(t) /\ debounce[t] # shellAt[t]
    <3>1. /\ cmds[t] \in Seq(Targets) /\ cmds[t] # <<>> /\ cmds'[t] = Tail(cmds[t])
          /\ Head(cmds[t]).op = "list"
      BY <1>0, <2>5 DEF TakeList, Takes, TypeOK
    <3>2. Head(cmds[t]) \in ListCommands
      <4>1. Head(cmds[t]) \in Targets
        BY <3>1
      <4> QED BY <3>1, <4>1, IsListCommand
    <3>3. ~NoneIn(cmds[t], ListCommands)
      BY <3>1, <3>2, LastOfTail
    <3>4. PICK c \in ListCommands : c.dir = shellAt[t] /\ LastIn(cmds[t], ListCommands, c)
      BY <2>3, <2>5, <3>3 DEF Heading, LastList
    <3>5. CASE LastIn(Tail(cmds[t]), ListCommands, c)
      BY <1>1, <2>3, <2>5, <3>1, <3>4, <3>5 DEF Heading, LastList
    <3>6. CASE Head(cmds[t]) = c /\ NoneIn(Tail(cmds[t]), ListCommands)
      BY <1>1, <1>2, <1>6, <2>2, <2>3, <2>5, <3>1, <3>4, <3>6 DEF Heading
    <3> QED BY <3>1, <3>4, <3>5, <3>6, LastOfTail
  <2>6. CASE SftpReady(t) /\ debounce[t] # shellAt[t]
    <3>1. UNCHANGED cmds /\ worker[t] # "up"
      BY <2>6 DEF SftpReady
    <3> QED BY <1>1, <2>3, <2>6, <3>1 DEF Heading, LastList
  <2> QED BY <2>4, <2>5, <2>6
<1>8. Follows(t)'
  BY <1>1, <1>7 DEF FollowInv, Follows
<1> QED BY <1>5, <1>8 DEF FollowInv

LEMMA FollowChanges ==
  ASSUME Typed, FollowInv, NEW t \in Tabs, TakeChange(t) \/ TakeDelete(t)
  PROVE  FollowInv'
<1> USE DEF unworked, uiVars, followVars
<1> DEFINE d == Head(cmds[t]).dir
<1>0. TypeOK
  BY DEF Typed
<1>1. UNCHANGED <<open, panel, lastCwd, shellAt, debounce, worker, reports>>
  BY DEF TakeChange, TakeDelete
<1>2. /\ worker[t] = "up" /\ hand[t] = NothingRead
      /\ cmds[t] \in Seq(Targets) /\ cmds[t] # <<>> /\ Head(cmds[t]).op # "list"
      /\ cmds'[t] = Tail(cmds[t])
      /\ \A v \in Tabs \ {t} : cmds'[v] = cmds[v]
  BY <1>0 DEF TakeChange, TakeDelete, Takes, Idle, TypeOK
<1>3. Head(cmds[t]) \notin ListCommands
  <2>1. Head(cmds[t]) \in Targets
    BY <1>2
  <2> QED BY <1>2, <2>1, IsListCommand
<1>4. d \in Dirs
  BY <1>0, TakesTypes DEF TakeChange, TakeDelete
<1>5. \/ Relist(t, d) /\ Strays(t, d)
      \/ UNCHANGED <<hand, strayed>>
  BY DEF TakeChange, TakeDelete
<1>6. /\ strayed[t] => strayed'[t]
      /\ \A v \in Tabs \ {t} : strayed'[v] = strayed[v] /\ hand'[v] = hand[v]
      /\ \/ hand'[t] = hand[t]
         \/ /\ hand'[t] # NothingRead /\ hand'[t].dir = d
            /\ ~strayed'[t] => lastCwd[t] \in {d, NoDir}
  <2>1. CASE UNCHANGED <<hand, strayed>>
    BY <2>1
  <2>2. CASE Strays(t, d) /\ UNCHANGED hand
    BY <1>0, <2>2, StraysMeans
  <2>3. CASE Strays(t, d) /\ hand' = [hand EXCEPT ![t] = ReadOf(files', t, d)]
    <3>1. /\ hand'[t] = ReadOf(files', t, d)
          /\ \A v \in Tabs \ {t} : hand'[v] = hand[v]
      BY <1>0, <2>3 DEF TypeOK
    <3>2. ReadOf(files', t, d).dir = d /\ NothingRead.dir = NoDir
      BY DEF ReadOf, NothingRead
    <3>3. hand'[t] # NothingRead /\ hand'[t].dir = d
      BY <1>4, <3>1, <3>2, DirsAssumption
    <3> QED BY <1>0, <2>3, <3>1, <3>3, StraysMeans
  <2> QED BY <1>5, <2>1, <2>2, <2>3 DEF Relist
<1> HIDE DEF d
<1>7. ASSUME NEW v \in Tabs \ {t} PROVE Follows(v)'
  BY <1>1, <1>2, <1>6, FollowKept DEF FollowInv
<1>8. Follows(t)'
  <2>1. CASE hand'[t] = hand[t]
    BY <1>1, <1>2, <1>3, <1>6, <2>1, FollowKept DEF FollowInv, TakenFrom
  <2>2. CASE /\ hand'[t] # NothingRead /\ hand'[t].dir = d
             /\ ~strayed'[t] => lastCwd[t] \in {d, NoDir}
    <3> SUFFICES ASSUME t \in open, ~strayed'[t], shellAt[t] # NoDir
                 PROVE  Heading(t, shellAt[t])'
      BY <1>1 DEF FollowInv, Follows
    <3>1. d = shellAt[t] /\ Heading(t, shellAt[t])
      BY <1>2, <1>6, <2>2 DEF FollowInv, Follows
    <3>2. NoneIn(cmds[t], ListCommands) => NoneIn(cmds'[t], ListCommands)
      BY <1>2, LastOfTail
    <3>3. LastList(t, shellAt[t]) => LastList(t, shellAt[t])'
      BY <1>1, <1>2, <1>3, LastOfTail DEF LastList
    <3> QED BY <1>1, <1>2, <2>2, <3>1, <3>2, <3>3 DEF Heading
  <2> QED BY <1>6, <2>1, <2>2
<1> QED BY <1>7, <1>8 DEF FollowInv

(* A report that puts the followed directory on show comes last of what    *)
(* was posted.                                                             *)
LEMMA FollowPosts ==
  ASSUME Typed, NEW t \in Tabs, NEW r \in Placing, Follows(t),
         reports'[t] = Append(reports[t], r),
         UNCHANGED <<open, panel, lastCwd, shellAt, debounce, cmds, worker>>,
         strayed[t] => strayed'[t],
         \/ hand'[t] = hand[t] /\ (~strayed'[t] => lastCwd[t] \in {r.dir, NoDir})
         \/ hand[t] # NothingRead /\ hand'[t] = NothingRead /\ r.dir = hand[t].dir
  PROVE  Follows(t)'
<1> SUFFICES ASSUME t \in open, worker[t] # "gone", ~strayed'[t], shellAt[t] # NoDir
             PROVE  Heading(t, shellAt[t])'
  BY DEF Follows
<1>1. Heading(t, shellAt[t]) /\ lastCwd[t] = shellAt[t]
  BY DEF Follows
<1>2. reports[t] \in Seq(Reports) /\ r \in Reports
  BY DEF Typed, TypeOK, Placing
<1>3. LastIn(reports'[t], Placing, r)
  <2>1. LastIn(Append(reports[t], r), Placing, r)
    BY <1>2, LastOfAppend
  <2> QED BY <2>1
<1>4. LastPlaced(t, r.dir)'
  BY <1>3 DEF LastPlaced
<1>5. CASE hand'[t] = hand[t] /\ r.dir = shellAt[t]
  BY <1>1, <1>4, <1>5 DEF Heading, LastList
<1>6. CASE hand[t] # NothingRead /\ hand'[t] = NothingRead /\ r.dir = hand[t].dir
  BY <1>1, <1>4, <1>6 DEF Heading, LastList
<1> QED BY <1>1, <1>5, <1>6

LEMMA FollowReports ==
  ASSUME Typed, FollowInv, NEW t \in Tabs, ReportListing(t)
  PROVE  FollowInv'
<1> USE DEF unworked, uiVars, followVars
<1> DEFINE r == [kind |-> "entries", dir |-> hand[t].dir, seen |-> hand[t].seen]
<1>0. TypeOK
  BY DEF Typed
<1>1. /\ hand[t] # NothingRead /\ hand'[t] = NothingRead
      /\ reports'[t] = Append(reports[t], r)
      /\ UNCHANGED <<open, panel, lastCwd, shellAt, debounce, cmds, worker, strayed>>
      /\ \A v \in Tabs \ {t} : hand'[v] = hand[v] /\ reports'[v] = reports[v]
  BY <1>0 DEF ReportListing, Posts, TypeOK
<1>2. r \in Placing /\ r.dir = hand[t].dir
  <2>1. hand[t] \in Readings
    BY <1>0 DEF TypeOK
  <2> QED BY <1>1, <2>1 DEF Readings, Reports, Placing
<1> HIDE DEF r
<1>3. Follows(t)'
  BY <1>1, <1>2, FollowPosts DEF FollowInv
<1>4. ASSUME NEW v \in Tabs \ {t} PROVE Follows(v)'
  BY <1>1, FollowKept DEF FollowInv
<1> QED BY <1>3, <1>4 DEF FollowInv

LEMMA FollowWorker ==
  ASSUME Typed, FollowInv, NEW t \in Tabs, Worker(t)
  PROVE  FollowInv'
<1> USE DEF unworked, uiVars, followVars
<1>0. TypeOK
  BY DEF Typed
<1>1. CASE SftpFails(t) \/ TakeClose(t)
  <2>1. /\ UNCHANGED <<open, panel, lastCwd, shellAt, debounce, hand, reports, strayed>>
        /\ worker'[t] = "gone"
        /\ \A v \in Tabs \ {t} : cmds'[v] = cmds[v] /\ worker'[v] = worker[v]
    BY <1>0, <1>1 DEF SftpFails, TakeClose, TypeOK
  <2>2. ASSUME NEW v \in Tabs \ {t} PROVE Follows(v)'
    BY <2>1, FollowKept DEF FollowInv
  <2>3. Follows(t)'
    BY <2>1 DEF FollowInv, Follows
  <2> QED BY <2>2, <2>3 DEF FollowInv
<1>2. CASE TakeRead(t) \/ TakeWrite(t)
  <2>1. /\ UNCHANGED <<open, panel, lastCwd, shellAt, debounce, hand, worker, strayed>>
        /\ cmds[t] \in Seq(Targets) /\ cmds[t] # <<>> /\ Head(cmds[t]).op # "list"
        /\ cmds'[t] = Tail(cmds[t])
        /\ \A v \in Tabs \ {t} : cmds'[v] = cmds[v]
    BY <1>0, <1>2 DEF TakeRead, TakeWrite, Takes, TypeOK
  <2>2. Head(cmds[t]) \notin ListCommands
    <3>1. Head(cmds[t]) \in Targets
      BY <2>1
    <3> QED BY <2>1, <3>1, IsListCommand
  <2>3. /\ \/ reports'[t] = reports[t]
           \/ \E r \in Reports \ Placing : reports'[t] = Append(reports[t], r)
        /\ \A v \in Tabs \ {t} : reports'[v] = reports[v]
    <3>1. CASE UNCHANGED reports
      BY <3>1
    <3>2. CASE TakeRead(t) /\ ~UNCHANGED reports
      <4> DEFINE r == [kind |-> "text", dir |-> Head(cmds[t]).dir,
                       edit |-> Head(cmds[t]).op = "read"]
      <4>1. Head(cmds[t]).dir \in Dirs
        BY <1>0, <3>2, TakesTypes DEF TakeRead
      <4>2. (Head(cmds[t]).op = "read") \in BOOLEAN
        OBVIOUS
      <4>3. r \in Reports /\ r.kind = "text"
        BY <4>1, <4>2 DEF Reports
      <4>4. Posts(t, r)
        BY <3>2 DEF TakeRead
      <4> HIDE DEF r
      <4> QED BY <1>0, <4>3, <4>4 DEF Posts, TypeOK, Placing
    <3> QED BY <1>2, <3>1, <3>2 DEF TakeWrite
  <2> QED BY <2>1, <2>2, <2>3, FollowKept DEF FollowInv, TakenFrom
<1> QED
  BY <1>1, <1>2, FollowLists, FollowChanges, FollowReports DEF Worker

LEMMA FollowUploads ==
  ASSUME Typed, FollowInv, NEW u \in Uploads, UploadTask(u)
  PROVE  FollowInv'
<1> USE DEF unworked, uiVars, followVars
<1>0. TypeOK
  BY DEF Typed
<1> PICK t \in Tabs, l \in Readings : t = upload[u].tab /\ l = upload[u].listing
  BY <1>0 DEF TypeOK
<1>1. CASE UploadEnds(u) \/ UploadFails(u)
  <2>1. UNCHANGED <<open, panel, lastCwd, shellAt, debounce, worker, cmds, hand, reports,
                    strayed>>
    BY <1>1 DEF UploadEnds, UploadFails
  <2> QED BY <2>1, FollowKept DEF FollowInv
<1>2. CASE UploadReports(u)
  <2> DEFINE r == [kind |-> "entries", dir |-> l.dir, seen |-> l.seen]
  <2>1. /\ Posts(t, r) /\ Strays(t, l.dir)
        /\ UNCHANGED <<open, panel, lastCwd, shellAt, debounce, cmds, worker, hand>>
    BY <1>2 DEF UploadReports
  <2>2. r \in Placing
    <3>1. l # NothingRead
      BY <1>2 DEF UploadReports, Typed, Placed
    <3> QED BY <3>1 DEF Readings, Reports, Placing
  <2>3. r.dir = l.dir
    OBVIOUS
  <2> HIDE DEF r
  <2>4. /\ reports'[t] = Append(reports[t], r)
        /\ \A v \in Tabs \ {t} : reports'[v] = reports[v]
    BY <1>0, <2>1 DEF Posts, TypeOK
  <2>5. /\ strayed[t] => strayed'[t]
        /\ ~strayed'[t] => lastCwd[t] \in {l.dir, NoDir}
        /\ \A v \in Tabs \ {t} : strayed'[v] = strayed[v]
    BY <1>0, <2>1, StraysMeans
  <2>6. Follows(t)'
    BY <1>0, <2>1, <2>2, <2>3, <2>4, <2>5, FollowPosts DEF FollowInv
  <2>7. ASSUME NEW v \in Tabs \ {t} PROVE Follows(v)'
    BY <2>1, <2>4, <2>5, FollowKept DEF FollowInv
  <2> QED BY <2>6, <2>7 DEF FollowInv
<1> QED BY <1>1, <1>2 DEF UploadTask

LEMMA FollowUi ==
  ASSUME Typed, FollowInv, NEW t \in Tabs, Ui(t)
  PROVE  FollowInv'
<1> DEFINE r == Head(reports[t])
<1>0. TypeOK
  BY DEF Typed
<1>1. /\ UNCHANGED <<open, lastCwd, shellAt, debounce, worker, cmds, hand, strayed>>
      /\ reports[t] # <<>> /\ reports[t] \in Seq(Reports)
      /\ reports'[t] = Tail(reports[t])
      /\ \A v \in Tabs \ {t} : reports'[v] = reports[v]
  BY <1>0 DEF Ui, ApplyCwdChanged, ApplySftpEntries, ApplySftpError, ApplySftpFileText,
     Applies, unapplied, followVars, workerVars, TypeOK
<1>2. /\ \A v \in Tabs \ {t} : panel'[v] = panel[v]
      /\ \/ r \in Placing /\ (t \in open => panel'[t].path = r.dir)
         \/ r \notin Placing /\ panel'[t].path = panel[t].path
  <2>1. panel \in [Tabs -> Panels] /\ r \in Reports
    BY <1>0, <1>1 DEF TypeOK
  <2>2. CASE ApplyCwdChanged(t)
    BY <2>1, <2>2 DEF ApplyCwdChanged, Applies, Placing, Panels
  <2>3. CASE ApplySftpEntries(t)
    BY <2>1, <2>3 DEF ApplySftpEntries, Applies, Placing
  <2>4. CASE ApplySftpError(t)
    BY <2>1, <2>4 DEF ApplySftpError, Applies, Placing, Panels
  <2>5. CASE ApplySftpFileText(t)
    BY <2>1, <2>5 DEF ApplySftpFileText, Applies, Placing
  <2> QED BY <2>2, <2>3, <2>4, <2>5 DEF Ui
<1>3. ASSUME NEW v \in Tabs \ {t} PROVE Follows(v)'
  BY <1>1, <1>2, FollowKept DEF FollowInv
<1>4. Follows(t)'
  <2>1. CASE r \notin Placing /\ panel'[t].path = panel[t].path
    BY <1>1, <2>1, FollowKept DEF FollowInv, AppliedFrom
  <2>2. CASE r \in Placing /\ (t \in open => panel'[t].path = r.dir)
    <3>1. ~NoneIn(reports[t], Placing)
      BY <1>1, <2>2, LastOfTail
    <3>2. ASSUME NEW d, t \in open, LastPlaced(t, d)
          PROVE  LastPlaced(t, d)'
      <4>1. PICK x \in Placing : x.dir = d /\ LastIn(reports[t], Placing, x)
        BY <3>1, <3>2 DEF LastPlaced
      <4>2. CASE LastIn(Tail(reports[t]), Placing, x)
        BY <1>1, <4>1, <4>2 DEF LastPlaced
      <4>3. CASE r = x /\ NoneIn(Tail(reports[t]), Placing)
        BY <1>1, <2>2, <3>2, <4>1, <4>3 DEF LastPlaced
      <4> QED BY <1>1, <4>1, <4>2, <4>3, LastOfTail
    <3>3. ASSUME NEW d, t \in open, Heading(t, d)
          PROVE  Heading(t, d)'
      BY <1>1, <3>2, <3>3 DEF Heading, LastList
    <3> QED BY <1>1, <3>3 DEF FollowInv, Follows
  <2> QED BY <1>2, <2>1, <2>2
<1> QED BY <1>3, <1>4 DEF FollowInv

LEMMA FollowStep == Typed /\ FollowInv /\ [Next]_vars => FollowInv'
<1> SUFFICES ASSUME Typed, FollowInv, [Next]_vars PROVE FollowInv'
  OBVIOUS
<1>1. CASE UNCHANGED vars
  BY <1>1, FollowKept DEF FollowInv, vars, uiVars, followVars, workerVars
<1>2. ASSUME NEW t \in Tabs, DownloadSelected(t) PROVE FollowInv'
  BY <1>2, DownloadUnchecks, FollowDialog
<1> QED
  BY <1>1, <1>2, FollowUser, FollowDialog, FollowPrompts, FollowWorker, FollowUploads,
     FollowUi DEF Next, User, Shell

(* "The very next OSC 7 snaps the panel back": once nothing is under way   *)
(* and nothing else was put on show, a panel shows the directory of the    *)
(* last prompt, for any number of prompts, requests, uploads and tabs.     *)
THEOREM PanelFollowsTheShell == Spec => []FollowsTheShell
<1>1. Init => FollowInv
  BY DEF Init, FollowInv, Follows
<1>2. Typed /\ FollowInv => FollowsTheShell
  <2> SUFFICES ASSUME Typed, FollowInv, NEW t \in Tabs, Quiet(t), ~strayed[t],
                      shellAt[t] # NoDir
               PROVE  panel[t].path = shellAt[t]
    BY DEF FollowsTheShell
  <2>1. /\ t \in open /\ worker[t] = "up" /\ hand[t] = NothingRead
        /\ cmds[t] = <<>> /\ reports[t] = <<>> /\ debounce[t] = NoDir
    BY DEF Quiet, Idle
  <2>2. Heading(t, shellAt[t])
    BY <2>1 DEF FollowInv, Follows
  <2>3. \A S, x : ~LastIn(<<>>, S, x)
    BY DEF LastIn
  <2> QED BY <2>1, <2>2, <2>3 DEF Heading, LastList, LastPlaced
<1> QED BY <1>1, <1>2, InitTypes, StepTypes, FollowStep, PTL DEF Spec
-----------------------------------------------------------------------------
(* Why the rows are up to date: whoever changes a directory reads it after *)
(* the change, and what was read is reported, so that the last rows to     *)
(* come are those of a directory nobody changed since, unless that was     *)
(* missed.                                                                 *)
Entries == {r \in Reports : r.kind = "entries"}

LastListed(t) ==
  \/ /\ panel[t].listing.dir # NoDir
     /\ panel[t].listing.seen = files[t][panel[t].listing.dir]
     /\ NoneIn(reports[t], Entries)
  \/ \E r \in Entries : r.seen = files[t][r.dir] /\ LastIn(reports[t], Entries, r)

(* A listing that was read is still to be reported.                        *)
ReadByUpload(t) == \E u \in Uploads : upload[u].tab = t /\ upload[u].stage = "listed"

UpToDate(t) ==
  t \in open /\ worker[t] = "up" /\ ~missed[t] =>
    hand[t] # NothingRead \/ ReadByUpload(t) \/ LastListed(t)

(* What is read is what was there after the last change.                   *)
HonestReadings ==
  /\ \A t \in Tabs : hand[t].seen = hand[t].due
  /\ \A u \in Uploads : upload[u].listing.seen = upload[u].listing.due

ShownInv == HonestReadings /\ \A t \in Tabs : UpToDate(t)

LEMMA ShownKept ==
  ASSUME Typed, NEW v \in Tabs, UpToDate(v), open' \subseteq open,
         UNCHANGED <<files[v], hand[v], panel[v].listing>>,
         worker'[v] = "up" => worker[v] = "up",
         missed[v] => missed'[v],
         ReadByUpload(v) => ReadByUpload(v)',
         \/ reports'[v] = reports[v]
         \/ \E r \in Reports \ Entries : reports'[v] = Append(reports[v], r)
         \/ AppliedFrom(v) /\ Head(reports[v]) \notin Entries
  PROVE  UpToDate(v)'
<1>1. reports[v] \in Seq(Reports)
  BY DEF Typed, TypeOK
<1> DEFINE ReportsKept ==
             /\ NoneIn(reports[v], Entries) => NoneIn(reports'[v], Entries)
             /\ \A r \in Entries : LastIn(reports[v], Entries, r)
                                     => LastIn(reports'[v], Entries, r)
<1>2. ReportsKept
  <2>1. ASSUME NEW r \in Reports \ Entries, reports'[v] = Append(reports[v], r)
        PROVE  ReportsKept
    BY <1>1, <2>1, LastOfAppend
  <2>2. CASE AppliedFrom(v) /\ Head(reports[v]) \notin Entries
    BY <1>1, <2>2, LastOfTail DEF AppliedFrom
  <2> QED BY <2>1, <2>2
<1>3. LastListed(v) => LastListed(v)'
  BY <1>2 DEF LastListed
<1> QED BY <1>3 DEF UpToDate

(* Rows that are reported are up to date, or that was missed.              *)
LEMMA ShownPosts ==
  ASSUME Typed, NEW t \in Tabs, NEW r \in Entries, NEW due,
         reports'[t] = Append(reports[t], r), r.seen = due, UNCHANGED files,
         ~missed'[t] => due = files[t][r.dir]
  PROVE  UpToDate(t)'
<1>1. reports[t] \in Seq(Reports) /\ r \in Reports
  BY DEF Typed, TypeOK, Entries
<1>2. LastIn(Append(reports[t], r), Entries, r)
  BY <1>1, LastOfAppend
<1>3. ~missed'[t] => LastListed(t)'
  BY <1>2 DEF LastListed
<1> QED BY <1>3 DEF UpToDate

LEMMA HonestKept ==
  ASSUME HonestReadings, Typed,
         \/ UNCHANGED hand
         \/ \E t \in Tabs, d \in Dirs : \E f : hand' = [hand EXCEPT ![t] = ReadOf(f, t, d)]
         \/ \E t \in Tabs : hand' = [hand EXCEPT ![t] = NothingRead],
         \A u \in Uploads : upload'[u].listing.seen = upload'[u].listing.due
  PROVE  HonestReadings'
<1>1. NothingRead.seen = NothingRead.due
  BY DEF NothingRead
<1>2. ASSUME NEW t \in Tabs, NEW l, l.seen = l.due, hand' = [hand EXCEPT ![t] = l]
      PROVE  \A v \in Tabs : hand'[v].seen = hand'[v].due
  BY <1>2 DEF HonestReadings, Typed, TypeOK
<1>3. \A t \in Tabs : hand'[t].seen = hand'[t].due
  <2>1. CASE UNCHANGED hand
    BY <2>1 DEF HonestReadings
  <2>2. ASSUME NEW t \in Tabs, NEW d \in Dirs, NEW f,
               hand' = [hand EXCEPT ![t] = ReadOf(f, t, d)]
        PROVE  \A v \in Tabs : hand'[v].seen = hand'[v].due
    <3>1. ReadOf(f, t, d).seen = ReadOf(f, t, d).due
      BY DEF ReadOf
    <3> QED BY <1>2, <2>2, <3>1, Zenon
  <2>3. ASSUME NEW t \in Tabs, hand' = [hand EXCEPT ![t] = NothingRead]
        PROVE  \A v \in Tabs : hand'[v].seen = hand'[v].due
    BY <1>1, <1>2, <2>3
  <2> QED BY <2>1, <2>2, <2>3
<1> QED BY <1>3 DEF HonestReadings

LEMMA ShownElsewhere ==
  ASSUME Typed, ShownInv, UNCHANGED <<files, hand, upload>>, open' \subseteq open,
         \A v \in Tabs : /\ panel'[v].listing = panel[v].listing
                         /\ worker'[v] = "up" => worker[v] = "up"
                         /\ missed[v] => missed'[v]
                         /\ \/ reports'[v] = reports[v]
                            \/ \E r \in Reports \ Entries : reports'[v] = Append(reports[v], r)
                            \/ AppliedFrom(v) /\ Head(reports[v]) \notin Entries
  PROVE  ShownInv'
<1>1. HonestReadings'
  BY DEF ShownInv, HonestReadings
<1>2. \A v \in Tabs : ReadByUpload(v) => ReadByUpload(v)'
  BY DEF ReadByUpload
<1>3. ASSUME NEW v \in Tabs PROVE UpToDate(v)'
  BY <1>2, ShownKept DEF ShownInv
<1> QED BY <1>1, <1>3 DEF ShownInv

LEMMA ShownUser ==
  ASSUME Typed, ShownInv,
         \/ \E t \in Tabs : \/ CloseTab(t) \/ Refresh(t) \/ RequestChange(t)
                            \/ OpenFile(t) \/ DebounceFires(t)
                            \/ ToggleSelect(t) \/ AskDelete(t) \/ ConfirmDelete(t)
                            \/ \E d \in Dirs : Navigate(t, d) \/ PumpCwd(t, d)
         \/ SetFollow \/ CancelDelete \/ Type \/ SaveFile \/ CloseEditor
         \/ \E t \in Tabs \cup {NoTab} : Select(t)
  PROVE  ShownInv'
<1>1. UNCHANGED <<files, hand, upload, worker, missed>> /\ open' \subseteq open
  BY DEF CloseTab, Refresh, RequestChange, OpenFile, DebounceFires, ToggleSelect, AskDelete,
     ConfirmDelete, Navigate, PumpCwd, SetFollow, CancelDelete, Type, SaveFile, CloseEditor,
     Select, uiVars, workerVars
<1>2. \A v \in Tabs : panel'[v].listing = panel[v].listing
  <2>1. UNCHANGED panel \/ \E t, b : panel' = [panel EXCEPT ![t].checked = b]
    BY DEF CloseTab, Refresh, RequestChange, OpenFile, DebounceFires, ToggleSelect, AskDelete,
       ConfirmDelete, Navigate, PumpCwd, SetFollow, CancelDelete, Type, SaveFile, CloseEditor,
       Select, uiVars, workerVars
  <2>2. panel \in [Tabs -> Panels]
    BY DEF Typed, TypeOK
  <2> QED BY <2>1, <2>2 DEF Panels
<1> DEFINE Unlisted(v) ==
             \/ reports'[v] = reports[v]
             \/ \E r \in Reports \ Entries : reports'[v] = Append(reports[v], r)
<1>3. \A v \in Tabs : Unlisted(v)
  <2>1. ASSUME NEW t \in Tabs, NEW d \in Dirs, PumpCwd(t, d), ~UNCHANGED reports
        PROVE  \A v \in Tabs : Unlisted(v)
    <3>1. CwdChanged(d) \in Reports \ Entries
      BY DEF CwdChanged, Reports, Entries
    <3>2. Posts(t, CwdChanged(d))
      BY <2>1 DEF PumpCwd
    <3> QED BY <3>1, <3>2 DEF Posts, Typed, TypeOK
  <2>2. CASE ~\E t \in Tabs, d \in Dirs : PumpCwd(t, d)
    <3>1. UNCHANGED reports
      BY <2>2 DEF CloseTab, Refresh, RequestChange, OpenFile, DebounceFires, ToggleSelect,
         AskDelete, ConfirmDelete, Navigate, SetFollow, CancelDelete, Type, SaveFile,
         CloseEditor, Select
    <3> QED BY <3>1
  <2> QED BY <2>1, <2>2
<1> QED BY <1>1, <1>2, <1>3, ShownElsewhere

LEMMA ShownUi ==
  ASSUME Typed, ShownInv, NEW t \in Tabs, Ui(t)
  PROVE  ShownInv'
<1> DEFINE r == Head(reports[t])
<1>0. TypeOK
  BY DEF Typed
<1>1. /\ UNCHANGED <<open, worker, files, hand, upload, missed>>
      /\ reports[t] # <<>> /\ reports[t] \in Seq(Reports)
      /\ reports'[t] = Tail(reports[t])
      /\ \A v \in Tabs \ {t} : reports'[v] = reports[v]
  BY <1>0 DEF Ui, ApplyCwdChanged, ApplySftpEntries, ApplySftpError, ApplySftpFileText,
     Applies, unapplied, workerVars, TypeOK
<1>2. /\ \A v \in Tabs \ {t} : panel'[v] = panel[v]
      /\ \/ /\ r \in Entries
            /\ t \in open => panel'[t].listing = [dir |-> r.dir, seen |-> r.seen]
         \/ r \notin Entries /\ panel'[t].listing = panel[t].listing
  <2>1. panel \in [Tabs -> Panels] /\ r \in Reports
    BY <1>0, <1>1 DEF TypeOK
  <2>2. CASE ApplyCwdChanged(t)
    BY <2>1, <2>2 DEF ApplyCwdChanged, Applies, Entries, Panels
  <2>3. CASE ApplySftpEntries(t)
    BY <2>1, <2>3 DEF ApplySftpEntries, Applies, Entries
  <2>4. CASE ApplySftpError(t)
    BY <2>1, <2>4 DEF ApplySftpError, Applies, Entries, Panels
  <2>5. CASE ApplySftpFileText(t)
    BY <2>1, <2>5 DEF ApplySftpFileText, Applies, Entries
  <2> QED BY <2>2, <2>3, <2>4, <2>5 DEF Ui
<1>3. CASE r \notin Entries /\ panel'[t].listing = panel[t].listing
  <2>1. \A v \in Tabs : reports'[v] = reports[v] \/ (AppliedFrom(v) /\ Head(reports[v]) \notin Entries)
    BY <1>1, <1>3 DEF AppliedFrom
  <2>2. \A v \in Tabs : panel'[v].listing = panel[v].listing
    BY <1>2, <1>3
  <2> HIDE DEF r
  <2> QED BY <1>1, <2>1, <2>2, ShownElsewhere
<1>4. CASE /\ r \in Entries
           /\ t \in open => panel'[t].listing = [dir |-> r.dir, seen |-> r.seen]
  <2>1. HonestReadings' /\ \A v \in Tabs : ReadByUpload(v) => ReadByUpload(v)'
    BY <1>1 DEF ShownInv, HonestReadings, ReadByUpload
  <2>2. ASSUME NEW v \in Tabs \ {t} PROVE UpToDate(v)'
    BY <1>1, <1>2, <2>1, <2>2, ShownKept DEF ShownInv
  <2>3. UpToDate(t)'
    <3>1. ASSUME t \in open, LastListed(t) PROVE LastListed(t)'
      <4>1. ~NoneIn(reports[t], Entries)
        BY <1>1, <1>4, LastOfTail
      <4>2. PICK x \in Entries : x.seen = files[t][x.dir] /\ LastIn(reports[t], Entries, x)
        BY <3>1, <4>1 DEF LastListed
      <4>3. CASE LastIn(Tail(reports[t]), Entries, x)
        BY <1>1, <4>2, <4>3 DEF LastListed
      <4>4. CASE r = x /\ NoneIn(Tail(reports[t]), Entries)
        <5>1. x.dir # NoDir
          BY <4>2, DirsAssumption DEF Entries, Reports
        <5>2. panel'[t].listing.dir = x.dir /\ panel'[t].listing.seen = x.seen
          BY <1>4, <3>1, <4>4
        <5> QED BY <1>1, <4>2, <4>4, <5>1, <5>2 DEF LastListed
      <4> QED BY <1>1, <4>2, <4>3, <4>4, LastOfTail
    <3> QED BY <1>1, <2>1, <3>1 DEF UpToDate, ShownInv
  <2> QED BY <2>1, <2>2, <2>3 DEF ShownInv
<1> QED BY <1>2, <1>3, <1>4

(* What has read a directory, or missed to, leaves nothing to be said of   *)
(* the rows until the listing is reported.                                 *)
LEMMA ShownReads ==
  ASSUME Typed, ShownInv, NEW t \in Tabs, UNCHANGED <<open, panel, upload>>,
         worker'[t] # "up" \/ missed'[t] \/ hand'[t] # NothingRead,
         \A v \in Tabs \ {t} :
           UNCHANGED <<files[v], hand[v], worker[v], missed[v], reports[v]>>,
         \/ UNCHANGED hand
         \/ \E d \in Dirs : \E f : hand' = [hand EXCEPT ![t] = ReadOf(f, t, d)]
  PROVE  ShownInv'
<1>1. HonestReadings'
  BY HonestKept DEF ShownInv, HonestReadings
<1>2. \A v \in Tabs : ReadByUpload(v) => ReadByUpload(v)'
  BY DEF ReadByUpload
<1>3. ASSUME NEW v \in Tabs \ {t} PROVE UpToDate(v)'
  BY <1>2, <1>3, ShownKept DEF ShownInv
<1>4. UpToDate(t)'
  BY DEF UpToDate
<1> QED BY <1>1, <1>3, <1>4 DEF ShownInv

LEMMA ReadIsSomething ==
  ASSUME NEW f, NEW t \in Tabs, NEW d \in Dirs
  PROVE  ReadOf(f, t, d) # NothingRead
<1>1. ReadOf(f, t, d).dir = d /\ NothingRead.dir = NoDir
  BY DEF ReadOf, NothingRead
<1> QED BY <1>1, DirsAssumption

LEMMA ShownWorker ==
  ASSUME Typed, ShownInv, NEW t \in Tabs, Worker(t)
  PROVE  ShownInv'
<1> USE DEF unworked, uiVars, followVars
<1>0. /\ hand \in [Tabs -> Readings] /\ missed \in [Tabs -> BOOLEAN]
      /\ reports \in [Tabs -> Seq(Reports)] /\ files \in [Tabs -> [Dirs -> Nat]]
      /\ worker \in [Tabs -> {"connecting", "up", "gone"}] /\ TypeOK
  BY DEF Typed, TypeOK
<1>1. UNCHANGED <<open, panel, upload>>
  BY DEF Worker, SftpReady, SftpFails, ReportListing, TakeList, TakeChange, TakeDelete,
     TakeRead, TakeWrite, TakeClose
<1>2. ASSUME NEW d \in Dirs, Lists(t, d), UNCHANGED files, \A v \in Tabs \ {t} : worker'[v] = worker[v]
      PROVE  ShownInv'
  <2>1. CASE hand' = [hand EXCEPT ![t] = Read(t, d)] /\ UNCHANGED <<reports, missed>>
    <3>1. hand' = [hand EXCEPT ![t] = ReadOf(files, t, d)]
      BY <2>1 DEF Read
    <3>2. hand'[t] # NothingRead /\ \A v \in Tabs \ {t} : hand'[v] = hand[v]
      BY <1>0, <3>1, ReadIsSomething
    <3> QED BY <1>1, <1>2, <2>1, <3>1, <3>2, ShownReads
  <2>2. CASE Posts(t, [kind |-> "error", dir |-> d]) /\ Misses(t) /\ UNCHANGED hand
    <3>1. missed'[t] /\ \A v \in Tabs \ {t} : missed'[v] = missed[v] /\ reports'[v] = reports[v]
      BY <1>0, <2>2 DEF Posts, Misses
    <3> QED BY <1>1, <1>2, <2>2, <3>1, ShownReads
  <2> QED BY <1>2, <2>1, <2>2 DEF Lists
<1>3. CASE SftpReady(t)
  BY <1>0, <1>2, <1>3, DirsAssumption DEF SftpReady
<1>4. CASE TakeList(t)
  BY <1>0, <1>2, <1>4, TakesTypes DEF TakeList
<1>5. CASE TakeChange(t) \/ TakeDelete(t)
  <2> DEFINE d == Head(cmds[t]).dir
  <2>1. d \in Dirs
    BY <1>0, <1>5, TakesTypes DEF TakeChange, TakeDelete
  <2>2. /\ UNCHANGED <<worker, reports>> /\ (Changed(t, d) \/ UNCHANGED files)
        /\ Relist(t, d) \/ (Misses(t) /\ UNCHANGED hand)
    BY <1>5 DEF TakeChange, TakeDelete
  <2> HIDE DEF d
  <2>3. \A v \in Tabs \ {t} : files'[v] = files[v]
    BY <1>0, <2>2 DEF Changed
  <2>4. CASE hand' = [hand EXCEPT ![t] = ReadOf(files', t, d)] /\ UNCHANGED missed
    <3>1. hand'[t] # NothingRead /\ \A v \in Tabs \ {t} : hand'[v] = hand[v]
      BY <1>0, <2>1, <2>4, ReadIsSomething
    <3> QED BY <1>1, <2>1, <2>2, <2>3, <2>4, <3>1, ShownReads
  <2>5. CASE Misses(t) /\ UNCHANGED hand
    <3>1. missed'[t] /\ \A v \in Tabs \ {t} : missed'[v] = missed[v]
      BY <1>0, <2>5 DEF Misses
    <3> QED BY <1>1, <2>2, <2>3, <2>5, <3>1, ShownReads
  <2> QED BY <2>2, <2>4, <2>5 DEF Relist
<1>6. CASE SftpFails(t) \/ TakeClose(t)
  <2>1. /\ UNCHANGED <<files, hand, missed, reports>> /\ worker'[t] # "up"
        /\ \A v \in Tabs \ {t} : worker'[v] = worker[v]
    BY <1>0, <1>6 DEF SftpFails, TakeClose
  <2> QED BY <1>1, <2>1, ShownReads
<1>7. CASE TakeRead(t) \/ TakeWrite(t)
  <2>1. UNCHANGED <<files, hand, missed, worker>>
    BY <1>7 DEF TakeRead, TakeWrite
  <2>2. \A v \in Tabs : \/ reports'[v] = reports[v]
                        \/ \E r \in Reports \ Entries : reports'[v] = Append(reports[v], r)
    <3>1. CASE UNCHANGED reports
      BY <3>1
    <3>2. CASE TakeRead(t) /\ ~UNCHANGED reports
      <4> DEFINE r == [kind |-> "text", dir |-> Head(cmds[t]).dir,
                       edit |-> Head(cmds[t]).op = "read"]
      <4>1. Head(cmds[t]).dir \in Dirs
        BY <1>0, <3>2, TakesTypes DEF TakeRead
      <4>2. (Head(cmds[t]).op = "read") \in BOOLEAN
        OBVIOUS
      <4>3. r \in Reports /\ r.kind = "text"
        BY <4>1, <4>2 DEF Reports
      <4>4. Posts(t, r)
        BY <3>2 DEF TakeRead
      <4> HIDE DEF r
      <4> QED BY <1>0, <4>3, <4>4 DEF Posts, Entries
    <3> QED BY <1>7, <3>1, <3>2 DEF TakeWrite
  <2> QED BY <1>1, <2>1, <2>2, ShownElsewhere
<1>8. CASE ReportListing(t)
  <2> DEFINE r == [kind |-> "entries", dir |-> hand[t].dir, seen |-> hand[t].seen]
  <2>1. /\ hand' = [hand EXCEPT ![t] = NothingRead] /\ UNCHANGED <<files, worker>>
        /\ Posts(t, r)
        /\ missed' = [missed EXCEPT ![t] = hand[t].due # files[t][hand[t].dir]]
    BY <1>8 DEF ReportListing
  <2>2. r \in Entries
    <3>1. hand[t] \in Readings /\ hand[t] # NothingRead
      BY <1>0, <1>8 DEF ReportListing
    <3> QED BY <3>1 DEF Readings, Reports, Entries
  <2>3. r.seen = hand[t].due /\ r.dir = hand[t].dir
    BY DEF ShownInv, HonestReadings
  <2> HIDE DEF r
  <2>4. /\ reports'[t] = Append(reports[t], r)
        /\ ~missed'[t] => hand[t].due = files[t][r.dir]
        /\ \A v \in Tabs \ {t} : UNCHANGED <<hand[v], missed[v], reports[v]>>
    BY <1>0, <2>1, <2>3 DEF Posts
  <2>5. HonestReadings' /\ \A v \in Tabs : ReadByUpload(v) => ReadByUpload(v)'
    BY <1>1, <2>1, HonestKept DEF ShownInv, HonestReadings, ReadByUpload
  <2>6. UpToDate(t)'
    BY <2>1, <2>2, <2>3, <2>4, ShownPosts
  <2>7. ASSUME NEW v \in Tabs \ {t} PROVE UpToDate(v)'
    BY <1>1, <2>1, <2>4, <2>5, ShownKept DEF ShownInv
  <2> QED BY <2>5, <2>6, <2>7 DEF ShownInv
<1> QED BY <1>3, <1>4, <1>5, <1>6, <1>7, <1>8 DEF Worker

LEMMA ShownUploads ==
  ASSUME Typed, ShownInv, NEW u \in Uploads,
         UploadTask(u) \/ \E v \in Tabs : RequestUpload(v, u)
  PROVE  ShownInv'
<1> USE DEF unworked, uiVars, followVars
<1>0. /\ upload \in [Uploads -> [stage : Stages, tab : Tabs, listing : Readings]]
      /\ missed \in [Tabs -> BOOLEAN] /\ files \in [Tabs -> [Dirs -> Nat]]
      /\ reports \in [Tabs -> Seq(Reports)]
  BY DEF Typed, TypeOK
<1> PICK t \in Tabs, l \in Readings : t = upload[u].tab /\ l = upload[u].listing
  BY <1>0
<1>1. UNCHANGED <<open, panel, worker, hand>>
  BY DEF UploadTask, UploadEnds, UploadReports, UploadFails, RequestUpload
<1>2. ASSUME NEW r \in [stage : Stages, tab : Tabs, listing : Readings],
             upload' = [upload EXCEPT ![u] = r], r.listing.seen = r.listing.due
      PROVE  /\ HonestReadings' /\ upload'[u] = r
             /\ \A v \in Tabs : upload[u].stage # "listed" \/ v # t
                  => (ReadByUpload(v) => ReadByUpload(v)')
  <2>1. upload'[u] = r /\ \A w \in Uploads \ {u} : upload'[w] = upload[w]
    BY <1>0, <1>2
  <2>2. \A w \in Uploads : upload'[w].listing.seen = upload'[w].listing.due
    BY <1>2, <2>1 DEF ShownInv, HonestReadings
  <2>3. HonestReadings'
    BY <1>1, <2>2, HonestKept DEF ShownInv
  <2>4. \A v \in Tabs : upload[u].stage # "listed" \/ v # t
          => (ReadByUpload(v) => ReadByUpload(v)')
    BY <2>1 DEF ReadByUpload
  <2> QED BY <2>1, <2>3, <2>4
<1>3. l.seen = l.due
  BY DEF ShownInv, HonestReadings
<1>4. ASSUME upload' = [upload EXCEPT ![u].stage = "over"]
      PROVE  /\ HonestReadings'
             /\ \A v \in Tabs : upload[u].stage # "listed" \/ v # t
                  => (ReadByUpload(v) => ReadByUpload(v)')
  <2> DEFINE r == [upload[u] EXCEPT !.stage = "over"]
  <2>1. r \in [stage : Stages, tab : Tabs, listing : Readings] /\ r.listing = l
    BY <1>0 DEF Stages
  <2>2. upload' = [upload EXCEPT ![u] = r]
    BY <1>4
  <2> HIDE DEF r
  <2> QED BY <1>2, <1>3, <2>1, <2>2
<1>5. CASE UploadEnds(u)
  <2>1. /\ upload[u].stage = "copying" /\ UNCHANGED reports
        /\ Changed(t, l.dir) \/ UNCHANGED files
    BY <1>5 DEF UploadEnds
  <2>2. \A v \in Tabs \ {t} : files'[v] = files[v]
    BY <1>0, <2>1 DEF Changed
  <2>3. CASE /\ upload' = [upload EXCEPT ![u].stage = "listed",
                                         ![u].listing = ReadOf(files', t, l.dir)]
             /\ UNCHANGED missed
    <3> DEFINE n == ReadOf(files', t, l.dir)
               r == [upload[u] EXCEPT !.stage = "listed", !.listing = n]
    <3>1. n \in Readings /\ n.seen = n.due
      <4>1. l.dir \in Dirs
        BY <2>1 DEF Typed, Placed, Readings
      <4>2. files' \in [Tabs -> [Dirs -> Nat]]
        BY <2>1, <4>1, ChangedTypes DEF Typed
      <4> QED BY <4>1, <4>2, ReadTypes DEF ReadOf
    <3>2. upload' = [upload EXCEPT ![u] = r]
      BY <2>3
    <3> HIDE DEF n
    <3>3. /\ r \in [stage : Stages, tab : Tabs, listing : Readings] /\ r.listing = n
          /\ r.stage = "listed" /\ r.tab = t
      BY <1>0, <3>1 DEF Stages
    <3> HIDE DEF r
    <3>4. /\ HonestReadings' /\ upload'[u] = r
          /\ \A v \in Tabs : ReadByUpload(v) => ReadByUpload(v)'
      BY <1>2, <2>1, <3>1, <3>2, <3>3
    <3>5. ReadByUpload(t)'
      BY <3>3, <3>4 DEF ReadByUpload
    <3>6. UpToDate(t)'
      BY <3>5 DEF UpToDate
    <3>7. ASSUME NEW v \in Tabs \ {t} PROVE UpToDate(v)'
      BY <1>1, <2>1, <2>2, <2>3, <3>4, ShownKept DEF ShownInv
    <3> QED BY <3>4, <3>6, <3>7 DEF ShownInv
  <2>4. CASE upload' = [upload EXCEPT ![u].stage = "over"] /\ Misses(t)
    <3>1. missed'[t] /\ \A v \in Tabs \ {t} : missed'[v] = missed[v]
      BY <1>0, <2>4 DEF Misses
    <3>2. HonestReadings' /\ \A v \in Tabs : ReadByUpload(v) => ReadByUpload(v)'
      BY <1>4, <2>1, <2>4
    <3>3. UpToDate(t)'
      BY <3>1 DEF UpToDate
    <3>4. ASSUME NEW v \in Tabs \ {t} PROVE UpToDate(v)'
      BY <1>1, <2>1, <2>2, <3>1, <3>2, ShownKept DEF ShownInv
    <3> QED BY <3>2, <3>3, <3>4 DEF ShownInv
  <2> QED BY <1>5, <2>3, <2>4 DEF UploadEnds
<1>6. CASE UploadFails(u)
  <2>1. /\ upload[u].stage = "copying" /\ upload' = [upload EXCEPT ![u].stage = "over"]
        /\ UNCHANGED reports
        /\ \/ Changed(t, l.dir) /\ Misses(t)
           \/ UNCHANGED <<files, missed>>
    BY <1>6 DEF UploadFails
  <2>2. HonestReadings' /\ \A v \in Tabs : ReadByUpload(v) => ReadByUpload(v)'
    BY <1>4, <2>1
  <2>3. /\ \A v \in Tabs \ {t} : files'[v] = files[v] /\ missed'[v] = missed[v]
        /\ missed'[t] \/ (files'[t] = files[t] /\ missed'[t] = missed[t])
    BY <1>0, <2>1 DEF Changed, Misses
  <2>4. ASSUME NEW v \in Tabs PROVE UpToDate(v)'
    <3>1. CASE v = t /\ missed'[t]
      BY <3>1 DEF UpToDate
    <3>2. CASE ~(v = t /\ missed'[t])
      BY <1>1, <2>1, <2>2, <2>3, <3>2, ShownKept DEF ShownInv
    <3> QED BY <3>1, <3>2
  <2> QED BY <2>2, <2>4 DEF ShownInv
<1>7. CASE UploadReports(u)
  <2> DEFINE r == [kind |-> "entries", dir |-> l.dir, seen |-> l.seen]
  <2>1. /\ upload' = [upload EXCEPT ![u].stage = "over"] /\ UNCHANGED files
        /\ Posts(t, r) /\ missed' = [missed EXCEPT ![t] = l.due # files[t][l.dir]]
    BY <1>7 DEF UploadReports
  <2>2. r \in Entries
    <3>1. l # NothingRead
      BY <1>7 DEF UploadReports, Typed, Placed
    <3> QED BY <3>1 DEF Readings, Reports, Entries
  <2>3. r.seen = l.due /\ r.dir = l.dir
    BY <1>3
  <2> HIDE DEF r
  <2>4. /\ reports'[t] = Append(reports[t], r)
        /\ ~missed'[t] => l.due = files[t][r.dir]
        /\ \A v \in Tabs \ {t} : UNCHANGED <<missed[v], reports[v]>>
    BY <1>0, <2>1, <2>3 DEF Posts
  <2>5. HonestReadings' /\ \A v \in Tabs \ {t} : ReadByUpload(v) => ReadByUpload(v)'
    BY <1>4, <2>1
  <2>6. UpToDate(t)'
    BY <2>1, <2>2, <2>3, <2>4, ShownPosts
  <2>7. ASSUME NEW v \in Tabs \ {t} PROVE UpToDate(v)'
    BY <1>1, <2>1, <2>4, <2>5, ShownKept DEF ShownInv
  <2> QED BY <2>5, <2>6, <2>7 DEF ShownInv
<1>8. ASSUME NEW w \in Tabs, RequestUpload(w, u) PROVE ShownInv'
  <2> DEFINE r == [stage |-> "copying", tab |-> w,
                   listing |-> [dir |-> panel[w].path, seen |-> 0, due |-> 0]]
  <2>1. panel[w].path \in Dirs
    BY PanelTypes DEF Typed
  <2>2. r \in [stage : Stages, tab : Tabs, listing : Readings]
        /\ r.listing.seen = r.listing.due
    BY <2>1 DEF Stages, Readings
  <2>3. /\ upload' = [upload EXCEPT ![u] = r] /\ upload[u].stage = "unused"
        /\ UNCHANGED <<files, missed, reports>>
    BY <1>8 DEF RequestUpload
  <2> HIDE DEF r
  <2>4. HonestReadings' /\ \A v \in Tabs : ReadByUpload(v) => ReadByUpload(v)'
    BY <1>2, <2>2, <2>3
  <2>5. ASSUME NEW v \in Tabs PROVE UpToDate(v)'
    BY <1>1, <2>3, <2>4, ShownKept DEF ShownInv
  <2> QED BY <2>4, <2>5 DEF ShownInv
<1> QED BY <1>5, <1>6, <1>7, <1>8 DEF UploadTask

LEMMA ShownStep == Typed /\ ShownInv /\ [Next]_vars => ShownInv'
<1> SUFFICES ASSUME Typed, ShownInv, [Next]_vars PROVE ShownInv'
  OBVIOUS
<1>1. CASE UNCHANGED vars
  BY <1>1, ShownElsewhere DEF vars, uiVars, followVars, workerVars
<1>2. ASSUME NEW t \in Tabs, DownloadSelected(t) PROVE ShownInv'
  BY <1>2, DownloadUnchecks, ShownUser
<1> QED
  BY <1>1, <1>2, ShownUser, ShownUi, ShownWorker, ShownUploads DEF Next, User, Shell

(* What the program added to or took from a directory is on show once all  *)
(* is quiet, however commands, uploads and listings overtook each other,   *)
(* for any number of them.                                                 *)
THEOREM PanelIsUpToDate == Spec => []ShownIsUpToDate
<1>1. Init => ShownInv
  <2>1. NothingRead.seen = NothingRead.due
    BY DEF NothingRead
  <2> QED BY <2>1 DEF Init, ShownInv, HonestReadings, UpToDate
<1>2. Typed /\ ShownInv => ShownIsUpToDate
  <2> SUFFICES ASSUME Typed, ShownInv, NEW t \in Tabs, Quiet(t), ~missed[t]
               PROVE  panel[t].listing.seen = files[t][panel[t].listing.dir]
    BY DEF ShownIsUpToDate
  <2>1. /\ t \in open /\ worker[t] = "up" /\ hand[t] = NothingRead /\ reports[t] = <<>>
        /\ ~ReadByUpload(t)
    BY DEF Quiet, Idle, ReadByUpload
  <2>2. LastListed(t)
    BY <2>1 DEF ShownInv, UpToDate
  <2>3. \A S, x : ~LastIn(<<>>, S, x)
    BY DEF LastIn
  <2> QED BY <2>1, <2>2, <2>3 DEF LastListed
<1> QED BY <1>1, <1>2, InitTypes, StepTypes, ShownStep, PTL DEF Spec
=============================================================================
