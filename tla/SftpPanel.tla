----------------------------- MODULE SftpPanel -----------------------------
(***************************************************************************)
(* The SFTP panels of the SSH tabs: the directory each one shows, what the *)
(* user does there, the panel that follows the shell's cd, the listings of *)
(* the SFTP workers and of their uploads, and the built-in editor.         *)
(*                                                                         *)
(* A worker takes its commands one by one; an upload runs on a task of its *)
(* own and lists its directory when it is done.  Whatever is listed is put *)
(* on show, with its directory.  The directory the panel names is set      *)
(* earlier, by the shell's report.  What goes wrong in a transfer is the   *)
(* subject of SftpTransfers, a worker that is replaced that of TabSession. *)
(***************************************************************************)
EXTENDS Naturals, Sequences, FiniteSets

CONSTANTS
  Tabs, Dirs, Uploads,
  Root, Home,      \* "/" and where a worker starts
  NoTab, NoDir,
  MaxRequests,     \* bound on what the user asks of the workers
  MaxPrompts,      \* bound on the prompts that report a directory
  WithDialogs      \* whether the user deletes, and opens files in the editor

ASSUME DirsAssumption == Root \in Dirs /\ Home \in Dirs /\ NoDir \notin Dirs /\ NoTab \notin Tabs
ASSUME BoundsAssumption ==
  MaxRequests \in Nat /\ MaxPrompts \in Nat /\ WithDialogs \in BOOLEAN /\ IsFiniteSet(Uploads)

VARIABLES
  open,       \* the tabs that are open
  active,     \* the one on screen
  follow,     \* sftp_follow_cd
  lastCwd,    \* sftp_last_cwd, per tab
  debounce,   \* the listing the shell's pump will ask for in 500 ms
  panel,      \* per tab: sftp_path, the listing on show, sftp_loading
  dialog,     \* the confirmation of a delete
  editor,     \* the built-in editor; `from' is not in the code
  worker, cmds,
  hand,       \* per tab: the listing the command loop has read and not reported; `due',
              \* not in the code, is the count it has to show
  upload,     \* the upload tasks
  reports,    \* posted to the UI thread, in order
  files,      \* per tab and directory of its server: a count of what changed
  requests, prompts,
  shellAt,    \* history: where the last prompt was, if the user did not navigate since
  strayed,    \* history: a directory was put on show that is not the followed one
  missed,     \* history: a listing failed, or was old when it was reported
  deleted     \* history: what was to be deleted, and what the worker was told to

uiVars     == <<open, active, panel, dialog, editor>>
followVars == <<follow, lastCwd, debounce, shellAt, prompts>>
workerVars == <<worker, cmds, hand, upload, files, missed>>
vars == <<uiVars, followVars, workerVars, reports, requests, strayed, deleted>>

NoListing == [dir |-> NoDir, seen |-> 0]
Listings  == {NoListing} \cup [dir : Dirs, seen : Nat]
NothingRead == [dir |-> NoDir, seen |-> 0, due |-> 0]
Readings  == {NothingRead} \cup [dir : Dirs, seen : Nat, due : Nat]
Panels    == [path : Dirs, listing : Listings, checked : BOOLEAN, loading : BOOLEAN]
Stages    == {"unused", "copying", "listed", "over"}
Targets   == [op : {"list", "change", "delete", "read", "view", "write"},
              dir : Dirs, from : Tabs] \cup [op : {"close"}]
Reports   == [kind : {"cwd", "error"}, dir : Dirs]
             \cup [kind : {"entries"}, dir : Dirs, seen : Nat]
             \cup [kind : {"text"}, dir : Dirs, edit : BOOLEAN]

TypeOK ==
  /\ open \subseteq Tabs /\ active \in Tabs \cup {NoTab} /\ follow \in BOOLEAN
  /\ lastCwd \in [Tabs -> Dirs \cup {NoDir}] /\ debounce \in [Tabs -> Dirs \cup {NoDir}]
  /\ panel \in [Tabs -> Panels]
  /\ dialog \in [shown : BOOLEAN, batch : BOOLEAN, dir : Dirs]
  /\ editor \in [shown : BOOLEAN, dir : Dirs, from : Tabs, dirty : BOOLEAN, readonly : BOOLEAN]
  /\ worker \in [Tabs -> {"connecting", "up", "gone"}]
  /\ cmds \in [Tabs -> Seq(Targets)]
  /\ hand \in [Tabs -> Readings]
  /\ upload \in [Uploads -> [stage : Stages, tab : Tabs, listing : Readings]]
  /\ reports \in [Tabs -> Seq(Reports)]
  /\ files \in [Tabs -> [Dirs -> Nat]]
  /\ requests \in 0..MaxRequests /\ prompts \in 0..MaxPrompts
  /\ shellAt \in [Tabs -> Dirs \cup {NoDir}]
  /\ strayed \in [Tabs -> BOOLEAN] /\ missed \in [Tabs -> BOOLEAN]
  /\ deleted \subseteq Dirs \X Dirs

\* Every tab was just opened, and its SFTP worker is on its way to the server.
Init ==
  /\ open = Tabs /\ active \in Tabs /\ follow = TRUE
  /\ lastCwd = [t \in Tabs |-> NoDir] /\ debounce = [t \in Tabs |-> NoDir]
  /\ panel = [t \in Tabs |-> [path |-> Root, listing |-> NoListing,
                              checked |-> FALSE, loading |-> TRUE]]
  /\ dialog = [shown |-> FALSE, batch |-> FALSE, dir |-> Root]
  /\ editor = [shown |-> FALSE, dir |-> Root, from |-> active, dirty |-> FALSE,
               readonly |-> TRUE]
  /\ worker = [t \in Tabs |-> "connecting"]
  /\ cmds = [t \in Tabs |-> <<>>]
  /\ hand = [t \in Tabs |-> NothingRead]
  /\ upload = [u \in Uploads |-> [stage |-> "unused", tab |-> active, listing |-> NothingRead]]
  /\ reports = [t \in Tabs |-> <<>>]
  /\ files = [t \in Tabs |-> [d \in Dirs |-> 0]]
  /\ requests = 0 /\ prompts = 0
  /\ shellAt = [t \in Tabs |-> NoDir]
  /\ strayed = [t \in Tabs |-> FALSE] /\ missed = [t \in Tabs |-> FALSE]
  /\ deleted = {}

-----------------------------------------------------------------------------
(***************************************************************************)
(* The user and the UI thread.                                             *)
(***************************************************************************)

Sent(t, c) == [cmds EXCEPT ![t] = IF worker[t] = "gone" THEN @ ELSE Append(@, c)]
Command(op, d, t) == [op |-> op, dir |-> d, from |-> t]

\* No dialog covers the panel of the tab on screen.
InFront(t) == t = active /\ t \in open /\ ~dialog.shown /\ ~editor.shown
Asks == requests < MaxRequests /\ requests' = requests + 1

\* Another tab, or the welcome page.
Select(t) ==
  /\ t \in open \cup {NoTab} /\ t # active /\ ~dialog.shown /\ ~editor.shown
  /\ active' = t
  /\ UNCHANGED <<open, panel, dialog, editor, followVars, workerVars, reports, requests,
                 strayed, deleted>>

\* on_tab_closed: the handle goes and its worker is told to close.  In place of the tab
\* on screen comes the welcome page.
CloseTab(t) ==
  /\ t \in open /\ ~dialog.shown /\ ~editor.shown
  /\ open' = open \ {t}
  /\ active' = IF t = active THEN NoTab ELSE active
  /\ cmds' = Sent(t, [op |-> "close"])
  /\ lastCwd' = [lastCwd EXCEPT ![t] = NoDir]
  /\ UNCHANGED <<panel, dialog, editor, follow, debounce, shellAt, prompts, worker, hand,
                 upload, files, missed, reports, requests, strayed, deleted>>

SetFollow ==
  /\ ~dialog.shown /\ ~editor.shown
  /\ Asks /\ follow' = ~follow
  /\ UNCHANGED <<uiVars, lastCwd, debounce, shellAt, prompts, workerVars, reports, strayed,
                 deleted>>

\* Mutant: the followed directory is not forgotten.
NavigateKeepsCwd(t, d) ==
  /\ InFront(t) /\ Asks
  /\ cmds' = Sent(t, Command("list", d, t))
  /\ shellAt' = [shellAt EXCEPT ![t] = NoDir]
  /\ strayed' = [strayed EXCEPT ![t] = FALSE]
  /\ UNCHANGED <<uiVars, follow, lastCwd, debounce, prompts, worker, hand, upload, files, missed,
                 reports, deleted>>

\* A path, a row, "..", or a node of the tree: the followed directory is forgotten, so
\* that the next prompt snaps the panel back.
Navigate(t, d) ==
  /\ InFront(t) /\ Asks
  /\ lastCwd' = [lastCwd EXCEPT ![t] = NoDir]
  /\ cmds' = Sent(t, Command("list", d, t))
  /\ shellAt' = [shellAt EXCEPT ![t] = NoDir]
  /\ strayed' = [strayed EXCEPT ![t] = FALSE]
  /\ UNCHANGED <<uiVars, follow, debounce, prompts, worker, hand, upload, files, missed,
                 reports, deleted>>

\* This directory, or none, is put on show while another one is followed.
Strays(t, d) == strayed' = [strayed EXCEPT ![t] = @ \/ lastCwd[t] \notin {d, NoDir}]

Refresh(t) ==
  /\ InFront(t) /\ Asks
  /\ cmds' = Sent(t, Command("list", panel[t].path, t))
  /\ Strays(t, panel[t].path)
  /\ UNCHANGED <<uiVars, followVars, worker, hand, upload, files, missed, reports, deleted>>

\* The directories of what the user can point at: the one the panel names, for a new
\* file or folder, and the one of the rows on show, for all else.
Pointed(t) == {panel[t].path, panel[t].listing.dir} \ {NoDir}

\* MkDir, TouchFile, Rename, Chmod.
RequestChange(t) ==
  /\ InFront(t) /\ Asks
  /\ \E d \in Pointed(t) : cmds' = Sent(t, Command("change", d, t))
  /\ UNCHANGED <<uiVars, followVars, worker, hand, upload, files, missed, reports, strayed,
                 deleted>>

\* The check boxes of the rows.
ToggleSelect(t) ==
  /\ WithDialogs /\ InFront(t) /\ panel[t].listing.dir # NoDir
  /\ panel' = [panel EXCEPT ![t].checked = ~@]
  /\ UNCHANGED <<open, active, dialog, editor, followVars, workerVars, reports, requests,
                 strayed, deleted>>

\* The checked rows are downloaded, from the directory the panel names, and unchecked.
DownloadSelected(t) ==
  /\ WithDialogs /\ InFront(t) /\ panel[t].checked
  /\ panel' = [panel EXCEPT ![t].checked = FALSE]
  /\ UNCHANGED <<open, active, dialog, editor, followVars, workerVars, reports, requests,
                 strayed, deleted>>

\* The row in the menu, or the checked rows: the user is asked first.
AskDelete(t) ==
  /\ WithDialogs /\ InFront(t) /\ Asks
  /\ panel[t].listing.dir # NoDir
  /\ \E batch \in {FALSE, panel[t].checked} :
       dialog' = [shown |-> TRUE, batch |-> batch, dir |-> panel[t].listing.dir]
  /\ UNCHANGED <<open, active, panel, editor, followVars, workerVars, reports, strayed, deleted>>

\* One row goes by its path; checked rows are looked up now.
ConfirmDelete(t) ==
  /\ dialog.shown /\ t = active
  /\ dialog' = [dialog EXCEPT !.shown = FALSE]
  /\ IF dialog.batch /\ ~panel[t].checked
     THEN UNCHANGED <<cmds, deleted, panel>>
     ELSE LET d == IF dialog.batch THEN panel[t].listing.dir ELSE dialog.dir IN
          /\ cmds' = Sent(t, Command("delete", d, t))
          /\ deleted' = deleted \cup {<<dialog.dir, d>>}
          /\ panel' = [panel EXCEPT ![t].checked = @ /\ ~dialog.batch]
  /\ UNCHANGED <<open, active, editor, followVars, worker, hand, upload, files, missed, reports,
                 requests, strayed>>

CancelDelete ==
  /\ dialog.shown /\ dialog' = [dialog EXCEPT !.shown = FALSE]
  /\ UNCHANGED <<open, active, panel, editor, followVars, workerVars, reports, requests,
                 strayed, deleted>>

\* Upload into the directory the panel names, or with synchronised input the one the
\* panel of another tab names; the command loop only starts the task.
RequestUpload(t, u) ==
  /\ InFront(active) /\ t \in open /\ worker[t] # "gone" /\ Asks
  /\ upload[u].stage = "unused"
  /\ upload' = [upload EXCEPT ![u] = [stage |-> "copying", tab |-> t,
                                      listing |-> [dir |-> panel[t].path, seen |-> 0,
                                                  due |-> 0]]]
  /\ UNCHANGED <<uiVars, followVars, worker, cmds, hand, files, missed, reports, strayed, deleted>>

\* View or edit a file of the rows on show.
OpenFile(t) ==
  /\ WithDialogs /\ InFront(t) /\ Asks
  /\ panel[t].listing.dir # NoDir
  /\ \E op \in {"read", "view"} : cmds' = Sent(t, Command(op, panel[t].listing.dir, t))
  /\ UNCHANGED <<uiVars, followVars, worker, hand, upload, files, missed, reports, strayed,
                 deleted>>

Type ==
  /\ editor.shown /\ ~editor.readonly /\ editor' = [editor EXCEPT !.dirty = TRUE]
  /\ UNCHANGED <<open, active, panel, dialog, followVars, workerVars, reports, requests,
                 strayed, deleted>>

\* The text goes to the worker of the tab on screen.
WriteText ==
  cmds' = IF active \in open
          THEN Sent(active, Command("write", editor.dir, editor.from)) ELSE cmds

SaveFile ==
  /\ editor.shown /\ ~editor.readonly
  /\ \A t \in open : Len(cmds[t]) < MaxRequests
  /\ WriteText
  /\ editor' = [editor EXCEPT !.dirty = FALSE]
  /\ UNCHANGED <<open, active, panel, dialog, followVars, worker, hand, upload, files, missed,
                 reports, requests, strayed, deleted>>

\* An edited text is saved first.
CloseEditor ==
  /\ editor.shown
  /\ IF ~editor.readonly /\ editor.dirty THEN WriteText ELSE UNCHANGED cmds
  /\ editor' = [editor EXCEPT !.shown = FALSE, !.dirty = FALSE]
  /\ UNCHANGED <<open, active, panel, dialog, followVars, worker, hand, upload, files, missed,
                 reports, requests, strayed, deleted>>

-----------------------------------------------------------------------------
(***************************************************************************)
(* The pump of the shell's reports.                                        *)
(***************************************************************************)

Posts(t, r) == reports' = [reports EXCEPT ![t] = Append(@, r)]
CwdChanged(d) == [kind |-> "cwd", dir |-> d]

\* Mutant: the panel is told of a directory that is not going to be listed.
PumpCwdAnyway(t, d) ==
  /\ prompts < MaxPrompts /\ prompts' = prompts + 1
  /\ lastCwd' = [lastCwd EXCEPT ![t] = d]
  /\ Posts(t, CwdChanged(d))
  /\ IF lastCwd[t] # d /\ follow
     THEN /\ debounce' = [debounce EXCEPT ![t] = d]
          /\ strayed' = [strayed EXCEPT ![t] = FALSE]
     ELSE /\ UNCHANGED debounce
          /\ strayed' = [strayed EXCEPT ![t] = @ \/ ~follow]
  /\ shellAt' = [shellAt EXCEPT ![t] = d]
  /\ UNCHANGED <<uiVars, follow, workerVars, requests, deleted>>

\* A prompt reports its directory (OSC 7).  When it is new and followed, the panel is
\* told and a listing asked for in 500 ms, in place of the one that waited.
PumpCwd(t, d) ==
  /\ prompts < MaxPrompts /\ prompts' = prompts + 1
  /\ lastCwd' = [lastCwd EXCEPT ![t] = d]
  /\ IF lastCwd[t] # d /\ follow
     THEN /\ debounce' = [debounce EXCEPT ![t] = d]
          /\ Posts(t, CwdChanged(d))
          /\ strayed' = [strayed EXCEPT ![t] = FALSE]
     ELSE /\ UNCHANGED <<debounce, reports>>
          /\ strayed' = [strayed EXCEPT ![t] = @ \/ ~follow]
  /\ shellAt' = [shellAt EXCEPT ![t] = d]
  /\ UNCHANGED <<uiVars, follow, workerVars, requests, deleted>>

DebounceFires(t) ==
  /\ debounce[t] # NoDir
  /\ debounce' = [debounce EXCEPT ![t] = NoDir]
  /\ cmds' = IF t \in open THEN Sent(t, Command("list", debounce[t], t)) ELSE cmds
  /\ UNCHANGED <<uiVars, follow, lastCwd, shellAt, prompts, worker, hand, upload, files, missed,
                 reports, requests, strayed, deleted>>

-----------------------------------------------------------------------------
(***************************************************************************)
(* The SFTP worker of a tab.                                               *)
(***************************************************************************)

unworked == <<uiVars, followVars, requests, deleted>>
Idle(t)  == worker[t] = "up" /\ hand[t] = NothingRead
ReadOf(f, t, d) == [dir |-> d, seen |-> f[t][d], due |-> f[t][d]]
Read(t, d)      == ReadOf(files, t, d)
Changed(t, d) == files' = [files EXCEPT ![t][d] = @ + 1]

Misses(t) == missed' = [missed EXCEPT ![t] = TRUE]

\* The listing of a directory, or an error.
Lists(t, d) ==
  \/ hand' = [hand EXCEPT ![t] = Read(t, d)] /\ UNCHANGED <<reports, missed, strayed>>
  \/ /\ Posts(t, [kind |-> "error", dir |-> d])
     /\ Strays(t, NoDir) /\ Misses(t) /\ UNCHANGED hand

\* Connected: the first listing is that of the home directory.
SftpReady(t) ==
  /\ worker[t] = "connecting"
  /\ worker' = [worker EXCEPT ![t] = "up"]
  /\ Lists(t, Home)
  /\ UNCHANGED <<unworked, cmds, upload, files>>

\* No connection, no subsystem: the worker ends.
SftpFails(t) ==
  /\ worker[t] = "connecting"
  /\ worker' = [worker EXCEPT ![t] = "gone"]
  /\ cmds' = [cmds EXCEPT ![t] = <<>>]
  /\ UNCHANGED <<unworked, hand, upload, files, missed, reports, strayed>>

\* A listing that was read is reported.  It is old if the directory changed meanwhile.
ReportListing(t) ==
  /\ hand[t] # NothingRead
  /\ Posts(t, [kind |-> "entries", dir |-> hand[t].dir, seen |-> hand[t].seen])
  /\ hand' = [hand EXCEPT ![t] = NothingRead]
  /\ missed' = [missed EXCEPT ![t] = hand[t].due # files[t][hand[t].dir]]
  /\ UNCHANGED <<unworked, worker, cmds, upload, files, strayed>>

Takes(t, ops) ==
  /\ Idle(t) /\ cmds[t] # <<>> /\ Head(cmds[t]).op \in ops
  /\ cmds' = [cmds EXCEPT ![t] = Tail(@)]

\* ListDir.
TakeList(t) ==
  /\ Takes(t, {"list"})
  /\ Lists(t, Head(cmds[t]).dir)
  /\ UNCHANGED <<unworked, worker, upload, files>>

\* The listing that follows an operation, when it can be had.
Relist(t, d) ==
  \/ hand' = [hand EXCEPT ![t] = ReadOf(files', t, d)] /\ UNCHANGED missed
  \/ Misses(t) /\ UNCHANGED hand

\* Mutant: the directory is listed before it is changed.
TakeChangeEarly(t) ==
  /\ Takes(t, {"change"})
  /\ LET d == Head(cmds[t]).dir IN
     /\ Changed(t, d)
     /\ hand' = [hand EXCEPT ![t] = [ReadOf(files', t, d) EXCEPT !.seen = files[t][d]]]
     /\ UNCHANGED missed
     /\ Strays(t, d)
  /\ UNCHANGED <<unworked, worker, upload, reports>>

\* MkDir, TouchFile, Rename, Chmod: it works or not, and the directory is listed.
TakeChange(t) ==
  /\ Takes(t, {"change"})
  /\ LET d == Head(cmds[t]).dir IN
     /\ Changed(t, d) \/ UNCHANGED files
     /\ Relist(t, d)
     /\ Strays(t, d)
  /\ UNCHANGED <<unworked, worker, upload, reports>>

\* Delete: the directory is listed when it worked.  A folder may have gone in part.
TakeDelete(t) ==
  /\ Takes(t, {"delete"})
  /\ LET d == Head(cmds[t]).dir IN
     \/ Changed(t, d) /\ Relist(t, d) /\ Strays(t, d)
     \/ Misses(t) /\ (Changed(t, d) \/ UNCHANGED files) /\ UNCHANGED <<hand, strayed>>
  /\ UNCHANGED <<unworked, worker, upload, reports>>

\* ReadText: the text for the editor; if there is none, the panel only says so.
TakeRead(t) ==
  /\ Takes(t, {"read", "view"})
  /\ \/ Posts(t, [kind |-> "text", dir |-> Head(cmds[t]).dir,
                  edit |-> Head(cmds[t]).op = "read"])
     \/ UNCHANGED reports
  /\ UNCHANGED <<unworked, worker, hand, upload, files, missed, strayed>>

\* WriteText: nothing is listed, and no file is new.
TakeWrite(t) ==
  /\ Takes(t, {"write"})
  /\ UNCHANGED <<unworked, worker, hand, upload, files, missed, reports, strayed>>

TakeClose(t) ==
  /\ Idle(t) /\ cmds[t] # <<>> /\ Head(cmds[t]).op = "close"
  /\ worker' = [worker EXCEPT ![t] = "gone"]
  /\ cmds' = [cmds EXCEPT ![t] = <<>>]
  /\ UNCHANGED <<unworked, hand, upload, files, missed, reports, strayed>>

\* An upload task: the file or folder is there, or the half that was has been removed,
\* and the directory is read ...
UploadEnds(u) ==
  LET t == upload[u].tab
      d == upload[u].listing.dir IN
  /\ upload[u].stage = "copying" /\ worker[t] = "up"
  /\ Changed(t, d) \/ UNCHANGED files
  /\ \/ /\ upload' = [upload EXCEPT ![u].stage = "listed",
                                    ![u].listing = ReadOf(files', t, d)]
        /\ UNCHANGED missed
     \/ upload' = [upload EXCEPT ![u].stage = "over"] /\ Misses(t)
  /\ UNCHANGED <<unworked, worker, cmds, hand, reports, strayed>>

\* ... and then reported, whatever the panel shows by now.
UploadReports(u) ==
  LET t == upload[u].tab
      l == upload[u].listing IN
  /\ upload[u].stage = "listed"
  /\ upload' = [upload EXCEPT ![u].stage = "over"]
  /\ Posts(t, [kind |-> "entries", dir |-> l.dir, seen |-> l.seen])
  /\ missed' = [missed EXCEPT ![t] = l.due # files[t][l.dir]]
  /\ Strays(t, l.dir)
  /\ UNCHANGED <<unworked, worker, cmds, hand, files>>

\* It fails: the half of a file may stay, and nothing is listed.
UploadFails(u) ==
  /\ upload[u].stage = "copying"
  /\ upload' = [upload EXCEPT ![u].stage = "over"]
  /\ \/ Changed(upload[u].tab, upload[u].listing.dir) /\ Misses(upload[u].tab)
     \/ UNCHANGED <<files, missed>>
  /\ UNCHANGED <<unworked, worker, cmds, hand, reports, strayed>>

-----------------------------------------------------------------------------
(***************************************************************************)
(* apply_session_event_to_window.  A tab that was closed has no panel.     *)
(***************************************************************************)
Applies(t, kind) ==
  /\ reports[t] # <<>> /\ Head(reports[t]).kind = kind
  /\ reports' = [reports EXCEPT ![t] = Tail(@)]

unapplied == <<open, active, dialog, followVars, workerVars, requests, strayed, deleted>>

ApplyCwdChanged(t) ==
  /\ Applies(t, "cwd")
  /\ panel' = IF t \notin open THEN panel
              ELSE [panel EXCEPT ![t].path = Head(reports[t]).dir, ![t].loading = TRUE]
  /\ UNCHANGED <<unapplied, editor>>

\* Mutant: the new rows keep the check marks of the old ones.
ApplySftpEntriesKeepMarks(t) ==
  /\ Applies(t, "entries")
  /\ LET r == Head(reports[t]) IN
     panel' = IF t \notin open THEN panel
              ELSE [panel EXCEPT ![t] = [path |-> r.dir, checked |-> @.checked, loading |-> FALSE,
                                         listing |-> [dir |-> r.dir, seen |-> r.seen]]]
  /\ UNCHANGED <<unapplied, editor>>

\* New rows, none of them checked.
ApplySftpEntries(t) ==
  /\ Applies(t, "entries")
  /\ LET r == Head(reports[t]) IN
     panel' = IF t \notin open THEN panel
              ELSE [panel EXCEPT ![t] = [path |-> r.dir, checked |-> FALSE, loading |-> FALSE,
                                         listing |-> [dir |-> r.dir, seen |-> r.seen]]]
  /\ UNCHANGED <<unapplied, editor>>

\* The rows stay.
ApplySftpError(t) ==
  /\ Applies(t, "error")
  /\ panel' = IF t \notin open THEN panel ELSE [panel EXCEPT ![t].loading = FALSE]
  /\ UNCHANGED <<unapplied, editor>>

\* The editor belongs to the window, not to a tab.
ApplySftpFileText(t) ==
  /\ Applies(t, "text")
  /\ editor' = [shown |-> TRUE, dir |-> Head(reports[t]).dir, from |-> t, dirty |-> FALSE,
                readonly |-> ~Head(reports[t]).edit]
  /\ UNCHANGED <<unapplied, panel>>

-----------------------------------------------------------------------------
User ==
  \/ \E t \in Tabs \cup {NoTab} : Select(t)
  \/ \E t \in Tabs : \/ CloseTab(t) \/ Refresh(t) \/ RequestChange(t)
                     \/ ToggleSelect(t) \/ DownloadSelected(t) \/ AskDelete(t)
                     \/ ConfirmDelete(t) \/ OpenFile(t)
                     \/ \E d \in Dirs : Navigate(t, d)
                     \/ \E u \in Uploads : RequestUpload(t, u)
  \/ SetFollow \/ CancelDelete \/ Type \/ SaveFile \/ CloseEditor

Shell == \E t \in Tabs, d \in Dirs : PumpCwd(t, d)

Ui(t) == \/ ApplyCwdChanged(t) \/ ApplySftpEntries(t) \/ ApplySftpError(t)
         \/ ApplySftpFileText(t)

Worker(t) ==
  \/ SftpReady(t) \/ SftpFails(t) \/ ReportListing(t) \/ TakeList(t) \/ TakeChange(t)
  \/ TakeDelete(t) \/ TakeRead(t) \/ TakeWrite(t) \/ TakeClose(t)

UploadTask(u) == UploadEnds(u) \/ UploadReports(u) \/ UploadFails(u)

Next ==
  \/ User \/ Shell
  \/ \E t \in Tabs : Ui(t) \/ Worker(t) \/ DebounceFires(t)
  \/ \E u \in Uploads : UploadTask(u)

Spec == Init /\ [][Next]_vars

\* The UI thread, the workers and the timers run; a request to a server is answered or
\* fails.
Fairness ==
  \A t \in Tabs : WF_vars(Ui(t)) /\ WF_vars(Worker(t)) /\ WF_vars(DebounceFires(t))

FairSpec == Spec /\ Fairness

-----------------------------------------------------------------------------
(***************************************************************************)
(* Properties.                                                             *)
(***************************************************************************)

\* Nothing is under way that could put a directory on show in this tab.
Quiet(t) ==
  /\ t \in open /\ Idle(t) /\ cmds[t] = <<>> /\ reports[t] = <<>> /\ debounce[t] = NoDir
  /\ \A u \in Uploads : upload[u].tab = t => upload[u].stage \in {"unused", "over"}

\* "The very next OSC 7, same directory or not, snaps the panel back" (app.rs:2417):
\* once everything is quiet, a panel that follows shows the directory of the prompt,
\* however navigation, prompts and listings crossed.  Excepted is a panel in which an
\* operation, an upload or a refresh put another directory on show, a listing failed, or
\* a prompt came while cd was not followed: the next prompt does not bring it back.
FollowsTheShell ==
  \A t \in Tabs : Quiet(t) /\ ~strayed[t] /\ shellAt[t] # NoDir => panel[t].path = shellAt[t]

\* "Refresh the listing so the removed partial file disappears" (sftp.rs:666): what the
\* program added to or took from a directory is on show.  Once all is quiet the rows are
\* those of the directory after the last change made here.  Excepted is what could not be
\* listed, or was changed while its listing was on the way; the new size of a text that
\* was saved is never listed.
ShownIsUpToDate ==
  \A t \in Tabs :
    Quiet(t) /\ ~missed[t] => panel[t].listing.seen = files[t][panel[t].listing.dir]

\* Deletes only what the user was asked about (app.slint:797): rows that took the place
\* of the checked ones while the dialog was up are not deleted.
DeletedWasConfirmed == \A pair \in deleted : pair[1] = pair[2]

\* The panel does not stay "loading" (app.rs:2430), unless its worker is gone.
LoadingEnds ==
  \A t \in Tabs :
    panel[t].loading ~> (~panel[t].loading \/ worker[t] = "gone" \/ t \notin open)

\* "Writes the text back to the remote file" (app.rs:4361).  It does not hold: the text is
\* written to the server of the tab on screen.
EditGoesHome ==
  \A t \in Tabs : \A i \in DOMAIN cmds[t] : cmds[t][i].op = "write" => cmds[t][i].from = t

\* Checked rows are packed in their own directory (app.rs:3893): what is downloaded is
\* looked for in the directory the panel names.  It does not hold: that is set before the
\* rows are there, and stays when they cannot be listed.
CheckedAreWhereNamed ==
  \A t \in open : panel[t].checked => panel[t].path = panel[t].listing.dir
=============================================================================
