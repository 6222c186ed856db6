--------------------------- MODULE SftpTransfers ---------------------------
(***************************************************************************)
(* The transfers of one SFTP worker: its command loop (run_sftp), the      *)
(* tasks it spawns, the map of cancel flags, and the rows of the transfers *)
(* panel in the UI thread.                                                 *)
(*                                                                         *)
(* A transfer runs on a task of its own, so that the loop stays free; a    *)
(* file that is opened with another program is fetched by the loop itself. *)
(* A cancel is a command like any other: the loop raises the flag filed    *)
(* under the id, and the transfer polls it between chunks.                 *)
(***************************************************************************)
EXTENDS Integers, Sequences

CONSTANTS
  Jobs,      \* the transfers the user asks for
  Asked,     \* per job: the kinds of transfer he may ask for
  MaxCmds,   \* bound on the commands waiting
  MaxEvents  \* bound on the progress reports waiting

Kinds == {"file", "archive", "folder", "emptyFolder", "open"}

ASSUME AskedAssumption == Asked \in [Jobs -> SUBSET Kinds]
ASSUME BoundsAssumption == MaxCmds \in Nat \ {0} /\ MaxEvents \in Nat \ {0}

VARIABLES
  kind,       \* per job: what it is
  task,       \* per job: where it is
  outcome,    \* per job: how the copy ended
  registered, \* cancels: the ids with a flag on file
  flagged,    \* the flags that are raised
  temps,      \* the jobs whose archive is on the server
  refused,    \* history: the jobs whose clean-up the server would not do
  loop,       \* the command loop
  cmds,       \* its commands
  conn,       \* the SSH connection is there
  events,     \* SftpTransfer reports on their way to the UI thread
  row,        \* per job: its row; a folder's is the row of the file on show
  held        \* the UI holds the handle of this worker

workerVars == <<registered, flagged, temps, refused, loop, conn>>
uiVars     == <<kind, row, held>>
vars == <<kind, task, outcome, registered, flagged, temps, refused, loop, cmds,
          conn, events, row, held>>

Active == {"active", "preparing"}   \* the rows with a cancel button
Final  == {"done", "failed", "cancelled"}
Moving == {"starting", "packing", "packed", "moving"}
Alive  == Moving \cup {"cleaning", "leaving"}

TypeOK ==
  /\ kind \in [Jobs -> Kinds \cup {"none"}]
  /\ task \in [Jobs -> Alive \cup {"unused", "asked", "over"}]
  /\ outcome \in [Jobs -> Final \cup {"none"}]
  /\ registered \subseteq Jobs /\ flagged \subseteq Jobs
  /\ temps \subseteq Jobs /\ refused \subseteq Jobs
  /\ loop \in {"ready", "opening", "ended"}
  /\ cmds \in Seq([op : {"start", "cancel"}, job : Jobs] \cup [op : {"close"}])
  /\ conn \in BOOLEAN
  /\ events \in Seq([job : Jobs, state : Active \cup Final])
  /\ row \in [Jobs -> Active \cup Final \cup {"none"}]
  /\ held \in BOOLEAN

Init ==
  /\ kind = [j \in Jobs |-> "none"]
  /\ task = [j \in Jobs |-> "unused"]
  /\ outcome = [j \in Jobs |-> "none"]
  /\ registered = {} /\ flagged = {}
  /\ temps = {} /\ refused = {}
  /\ loop = "ready" /\ cmds = <<>> /\ conn = TRUE
  /\ events = <<>>
  /\ row = [j \in Jobs |-> "none"]
  /\ held = TRUE

(***************************************************************************)
(* The UI thread.                                                          *)
(***************************************************************************)

(* download, download_archive, upload, open_temp *)
Request(j, k) ==
  /\ held /\ task[j] = "unused" /\ Len(cmds) < MaxCmds
  /\ kind' = [kind EXCEPT ![j] = k]
  /\ task' = [task EXCEPT ![j] = "asked"]
  /\ cmds' = Append(cmds, [op |-> "start", job |-> j])
  /\ UNCHANGED <<workerVars, outcome, events, row, held>>

(* on_cancel_transfer, broadcast to the handles there are *)
CancelTransfer(j) ==
  /\ held /\ row[j] \in Active /\ Len(cmds) < MaxCmds
  /\ cmds' = Append(cmds, [op |-> "cancel", job |-> j])
  /\ UNCHANGED <<workerVars, uiVars, task, outcome, events>>

(* on_clear_transfers *)
ClearTransfers ==
  /\ \E j \in Jobs : row[j] # "none"
  /\ row' = [j \in Jobs |-> "none"]
  /\ UNCHANGED <<workerVars, kind, held, task, outcome, cmds, events>>

(* The tab is closed or reconnected: the handle is taken out of the map.   *)
Release ==
  /\ held
  /\ held' = FALSE
  /\ cmds' = Append(cmds, [op |-> "close"])
  /\ UNCHANGED <<workerVars, kind, row, task, outcome, events>>

(* apply_session_event_to_window: update the row with that id or insert one*)
ApplyTransfer ==
  /\ events # <<>>
  /\ row' = [row EXCEPT ![Head(events).job] = Head(events).state]
  /\ events' = Tail(events)
  /\ UNCHANGED <<workerVars, kind, held, task, outcome, cmds>>

(***************************************************************************)
(* The command loop.                                                       *)
(***************************************************************************)
NextIs(op) == loop = "ready" /\ cmds # <<>> /\ Head(cmds).op = op

(* Download, DownloadArchive, Upload: the flag is filed before the task is *)
(* spawned.                                                                *)
TakeTransfer(j) ==
  /\ NextIs("start") /\ Head(cmds).job = j /\ kind[j] # "open"
  /\ registered' = registered \cup {j}
  /\ task' = [task EXCEPT ![j] = "starting"]
  /\ cmds' = Tail(cmds)
  /\ UNCHANGED <<uiVars, flagged, temps, refused, loop, conn, outcome, events>>

(* OpenTemp: the loop itself fetches the file, under an id without a flag. *)
TakeOpenTemp(j) ==
  /\ NextIs("start") /\ Head(cmds).job = j /\ kind[j] = "open"
  /\ loop' = "opening"
  /\ task' = [task EXCEPT ![j] = "starting"]
  /\ cmds' = Tail(cmds)
  /\ UNCHANGED <<uiVars, registered, flagged, temps, refused, conn, outcome, events>>

\* Mutant: a cancel that comes before the first byte is lost.
TakeCancelOnceMoving ==
  /\ NextIs("cancel")
  /\ flagged' = IF Head(cmds).job \in registered /\ task[Head(cmds).job] = "moving"
                   /\ kind[Head(cmds).job] # "folder"
                THEN flagged \cup {Head(cmds).job} ELSE flagged
  /\ cmds' = Tail(cmds)
  /\ UNCHANGED <<uiVars, registered, temps, refused, loop, conn, task, outcome, events>>

(* The id on the row of a folder is that of one of its files, which has no *)
(* flag on file.                                                           *)
TakeCancel ==
  /\ NextIs("cancel")
  /\ flagged' = IF Head(cmds).job \in registered
                   /\ kind[Head(cmds).job] # "folder"
                THEN flagged \cup {Head(cmds).job} ELSE flagged
  /\ cmds' = Tail(cmds)
  /\ UNCHANGED <<uiVars, registered, temps, refused, loop, conn, task, outcome, events>>

(* Close ends the loop, and with it the connection all transfers share. *)
TakeClose ==
  /\ NextIs("close")
  /\ loop' = "ended" /\ conn' = FALSE
  /\ cmds' = <<>>
  /\ UNCHANGED <<uiVars, registered, flagged, temps, refused, task, outcome, events>>

(* The network fails; the loop goes on and takes commands in vain. *)
ConnectionLost ==
  /\ conn
  /\ conn' = FALSE
  /\ UNCHANGED <<uiVars, registered, flagged, temps, refused, loop, task, outcome, cmds,
                 events>>

(***************************************************************************)
(* A transfer.                                                             *)
(***************************************************************************)
Whole == {"file", "archive"}   \* one file, under the id of the job

Report(j, state) == events' = Append(events, [job |-> j, state |-> state])
Goto(j, phase)   == task' = [task EXCEPT ![j] = phase]
Ends(j, how)     == outcome' = [outcome EXCEPT ![j] = how]

(* An archive has a row while tar runs. *)
StartPacking(j) ==
  /\ task[j] = "starting" /\ kind[j] = "archive"
  /\ Goto(j, "packing") /\ Report(j, "preparing")
  /\ UNCHANGED <<workerVars, uiVars, outcome, cmds>>

(* exec_remote of tar; it leaves a file behind when it fails, too.  The    *)
(* flag is not looked at before the download of the archive.               *)
PackEnds(j) ==
  /\ task[j] = "packing"
  /\ \/ conn /\ Goto(j, "packed") /\ temps' = temps \cup {j} /\ UNCHANGED outcome
     \/ /\ Goto(j, "cleaning") /\ Ends(j, "failed")
        /\ temps' \in {temps, temps \cup {j}}
  /\ UNCHANGED <<uiVars, registered, flagged, refused, loop, conn, cmds, events>>

(* The remote and the local file are open. *)
StartMoving(j) ==
  /\ conn
  /\ \/ task[j] = "starting" /\ kind[j] \in {"file", "folder", "open"}
     \/ task[j] = "packed"
  /\ Goto(j, "moving") /\ Report(j, "active")
  /\ UNCHANGED <<workerVars, uiVars, outcome, cmds>>

(* Its task says so in the status line and returns. *)
SkipEmptyFolder(j) ==
  /\ task[j] = "starting" /\ kind[j] = "emptyFolder"
  /\ Goto(j, "over") /\ Ends(j, "done")
  /\ UNCHANGED <<workerVars, uiVars, cmds, events>>

(* At most every 150 ms, behind a chunk. *)
Progress(j) ==
  /\ conn /\ task[j] = "moving" /\ Len(events) < MaxEvents
  /\ Report(j, "active")
  /\ UNCHANGED <<workerVars, uiVars, task, outcome, cmds>>

AfterMoving(j) == IF kind[j] = "archive" THEN "cleaning" ELSE "leaving"

(* download_with_session and upload_with_session; a raised flag is looked  *)
(* at between chunks, so the last chunk may still win.                     *)
Complete(j) ==
  /\ conn /\ task[j] = "moving"
  /\ Goto(j, AfterMoving(j)) /\ Ends(j, "done") /\ Report(j, "done")
  /\ UNCHANGED <<workerVars, uiVars, cmds>>

SeeCancel(j) ==
  /\ task[j] = "moving" /\ j \in flagged
  /\ Goto(j, AfterMoving(j)) /\ Ends(j, "cancelled") /\ Report(j, "cancelled")
  /\ UNCHANGED <<workerVars, uiVars, cmds>>

(* The callers of these report an error in the row of a single file and in *)
(* that of an archive, the latter after its clean-up; not in the rows of   *)
(* the files of a folder, nor in that of a file opened elsewhere.          *)
Fail(j) ==
  /\ task[j] \in {"starting", "packed", "moving"}
  /\ task[j] = "starting" => kind[j] \in {"file", "folder", "open"}
  /\ Goto(j, AfterMoving(j)) /\ Ends(j, "failed")
  /\ IF kind[j] = "file" THEN Report(j, "failed") ELSE UNCHANGED events
  /\ UNCHANGED <<workerVars, uiVars, cmds>>

(* rm -f over exec_remote, whose result nobody looks at: a server may      *)
(* refuse another channel or the command, and without a connection nothing *)
(* can be asked of it.                                                     *)
RemoveArchive(j) ==
  /\ temps' \in {temps} \cup (IF conn THEN {temps \ {j}} ELSE {})
  /\ refused' = IF conn /\ j \in temps' THEN refused \cup {j} ELSE refused

\* Mutant: the archive is removed from the server after a success only.
CleanUpAfterSuccess(j) ==
  /\ task[j] = "cleaning"
  /\ IF outcome[j] = "done" THEN RemoveArchive(j) ELSE UNCHANGED <<temps, refused>>
  /\ Goto(j, "leaving")
  /\ IF outcome[j] = "failed" THEN Report(j, "failed") ELSE UNCHANGED events
  /\ UNCHANGED <<uiVars, registered, flagged, loop, conn, outcome, cmds>>

\* Mutant: the row of a failed archive is left as it is.
CleanUpQuietly(j) ==
  /\ task[j] = "cleaning"
  /\ RemoveArchive(j) /\ Goto(j, "leaving")
  /\ UNCHANGED <<uiVars, registered, flagged, loop, conn, outcome, cmds, events>>

(* The archive is to go, however the transfer ended; its row is told of a  *)
(* failure only now.                                                       *)
CleanUp(j) ==
  /\ task[j] = "cleaning"
  /\ RemoveArchive(j) /\ Goto(j, "leaving")
  /\ IF outcome[j] = "failed" THEN Report(j, "failed") ELSE UNCHANGED events
  /\ UNCHANGED <<uiVars, registered, flagged, loop, conn, outcome, cmds>>

(* The task takes its flag off the file; the loop goes on with the next    *)
(* command.                                                                *)
Leave(j) ==
  /\ task[j] = "leaving"
  /\ Goto(j, "over")
  /\ registered' = registered \ {j} /\ flagged' = flagged \ {j}
  /\ loop' = IF kind[j] = "open" THEN "ready" ELSE loop
  /\ UNCHANGED <<uiVars, temps, refused, conn, outcome, cmds, events>>

-----------------------------------------------------------------------------

UI == \/ \E j \in Jobs : \/ \E k \in Asked[j] : Request(j, k)
                         \/ CancelTransfer(j)
      \/ ClearTransfers \/ Release

TakeCommand == \/ \E j \in Jobs : TakeTransfer(j) \/ TakeOpenTemp(j)
               \/ TakeCancel \/ TakeClose

(* The steps around the copy itself, which the remote side answers. *)
Around(j) == \/ StartPacking(j) \/ PackEnds(j) \/ StartMoving(j)
             \/ SkipEmptyFolder(j) \/ CleanUp(j) \/ Leave(j)

Copy(j) == Progress(j) \/ Complete(j) \/ SeeCancel(j) \/ Fail(j)

Next == \/ UI \/ TakeCommand \/ ApplyTransfer \/ ConnectionLost
        \/ \E j \in Jobs : Around(j) \/ Copy(j)

Spec == Init /\ [][Next]_vars

(* The UI thread and the tasks run.  A copy need not come to an end by     *)
(* itself: it stops when it sees its flag, and an unanswered request fails *)
(* once the connection is gone.  A file that is opened is small enough to  *)
(* arrive, which the loop waits for.                                       *)
Fairness ==
  /\ WF_vars(TakeCommand) /\ WF_vars(ApplyTransfer)
  /\ \A j \in Jobs :
       /\ WF_vars(Around(j))
       /\ WF_vars(SeeCancel(j))
       /\ WF_vars(~conn /\ Fail(j))
       /\ WF_vars(kind[j] = "open" /\ (Complete(j) \/ Fail(j)))

FairSpec == Spec /\ Fairness

(***************************************************************************)
(* Properties.                                                             *)
(***************************************************************************)
Pending(j) == \E i \in 1..Len(events) : events[i].job = j

(* What the panel says of a transfer that is over is how it ended, once    *)
(* its reports have arrived: a cancel that came too late shows as done, an *)
(* error after a cancel as an error.  (The files of a folder and an opened *)
(* file have no report of an error, so their rows are left out.)           *)
RowsTellTheOutcome ==
  \A j \in Jobs : kind[j] \in Whole /\ task[j] = "over" /\ ~Pending(j) =>
    row[j] \in {outcome[j], "none"}

(* The cancel button works as long as a single file or an archive is under *)
(* way: its flag is on file under the id the row carries, from before the  *)
(* row can appear until the copy has ended.                                *)
ActiveRowsCanBeCancelled ==
  \A j \in Jobs : row[j] \in Active /\ kind[j] \in Whole =>
    j \in registered \/ outcome[j] # "none"

(* The panel can be believed and acted upon: its rows say how transfers    *)
(* ended, and those that say "under way" can still be stopped.             *)
RowsAreTrue == RowsTellTheOutcome /\ ActiveRowsCanBeCancelled

(* "Success, failure or cancel all reach here": whatever tar left behind is*)
(* removed before its task is over, also when tar or the download failed   *)
(* or the user stopped it.  An archive that is still there then is one the *)
(* server refused to remove, or its connection is gone: the clean-up is a  *)
(* best effort, and nobody is told that it was in vain.                    *)
ArchivesAreRemoved ==
  conn => \A j \in temps : task[j] \in {"leaving", "over"} => j \in refused

(* A transfer that was cancelled, or lost its connection, does not stay in *)
(* the panel as one under way: the cancel gets past whatever the loop is   *)
(* busy with, past the packing of an archive, and past a closed tab.       *)
StoppedTransfersSettle ==
  \A j \in Jobs :
    kind[j] \in Whole /\ row[j] \in Active
      /\ (~conn \/ \E i \in 1..Len(cmds) : cmds[i] = [op |-> "cancel", job |-> j])
    ~> row[j] \notin Active
=============================================================================
