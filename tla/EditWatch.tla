------------------------------ MODULE EditWatch ------------------------------
(***************************************************************************)
(* Files edited with another program (run_sftp and spawn_edit_watcher,     *)
(* sftp.rs): a copy is fetched into one directory for all sessions, under  *)
(* the name of the file; a program opens it; a watcher looks at its time   *)
(* every two seconds and, when that has changed, asks the worker to upload *)
(* the copy to the directory it came from, like any other upload.          *)
(*                                                                         *)
(* A file may be longer than a request: while it is written it is cut.     *)
(***************************************************************************)
EXTENDS Integers, SequencesExt

CONSTANTS
  Editors,    \* SFTP workers of tabs of one server, each used once
  Dirs,       \* remote directories
  FileNames,  \* remote and local names
  Sanitized,  \* sanitize_filename
  Stored,     \* the files there are at first
  MaxOpens,   \* bound: how many files are opened
  MaxSaves,   \* bound: how often a program saves
  MaxUnderWay \* bound: uploads that are ordered or run, when a watcher looks

Paths == [dir : Dirs, name : FileNames]

ASSUME EditAssumption ==
  /\ Sanitized \in [FileNames -> FileNames] /\ Stored \subseteq Paths
  /\ {MaxOpens, MaxSaves, MaxUnderWay} \subseteq Nat

VARIABLES
  remote,    \* per path: its text
  copy,      \* per local name: the text of the copy
  programs,  \* the files whose text is on screen in a program
  orders,    \* per worker: the commands that wait
  fetching,  \* per worker: the fetch the loop is busy with, if any
  closed,    \* the workers whose loop is over
  watchers,  \* the watchers, as they were started
  uploads,   \* the upload tasks that run
  saved,     \* history: per path the text that was last saved in a program
  lost       \* history: paths whose last save may not come home

copies   == <<remote, copy, programs>>
tasks    == <<orders, fetching, closed, watchers, uploads>>
editVars == <<copies, tasks, saved, lost>>

Text(p, n) == [of |-> {p}, n |-> n]
NoText     == [of |-> {}, n |-> 0]
CutText    == [of |-> {}, n |-> 1]
Nothing    == <<>>
LocalName(p) == Sanitized[p.name]
Put(n, text) == copy' = [copy EXCEPT ![n] = text]
\* The copy has a new time, which no watcher of it has seen.
Touched(n, ws) == [i \in DOMAIN ws |-> [ws[i] EXCEPT !.seen = @ /\ LocalName(ws[i].file) # n]]
Order(e, o)  == orders' = [orders EXCEPT ![e] = Append(@, o)]
OrderIs(e, op) == e \notin closed /\ fetching[e] = Nothing /\ orders[e] # <<>> /\ Head(orders[e]).op = op
OrderTaken(e)    == orders' = [orders EXCEPT ![e] = Tail(@)]

EditInit ==
  /\ remote = [p \in Paths |-> IF p \in Stored THEN Text(p, 0) ELSE NoText]
  /\ copy = [n \in FileNames |-> NoText]
  /\ programs = {}
  /\ orders = [e \in Editors |-> <<>>] /\ fetching = [e \in Editors |-> Nothing]
  /\ closed = {} /\ watchers = <<>> /\ uploads = <<>>
  /\ saved = remote /\ lost = {}

-----------------------------------------------------------------------------
(***************************************************************************)
(* The user and his programs.                                              *)
(***************************************************************************)
TabIsOpen(e) == e \notin closed /\ ~\E i \in DOMAIN orders[e] : orders[e][i].op = "close"

Waiting(op) == MapThenSumSet(LAMBDA e : Len(SelectSeq(orders[e], LAMBDA o : o.op = op)), Editors)

Opened ==
  Len(watchers) + Cardinality({e \in Editors : fetching[e] # Nothing})
    + Waiting("open")

\* on_sftp_open_external, on_sftp_edit_external.
OpenExternally(e, p, edit) ==
  /\ TabIsOpen(e) /\ p \in Stored /\ Opened < MaxOpens
  /\ Order(e, [op |-> "open", file |-> p, edit |-> edit])
  /\ UNCHANGED <<copies, fetching, closed, watchers, uploads, saved, lost>>

CloseSftpOf(e) ==
  /\ TabIsOpen(e)
  /\ Order(e, [op |-> "close"])
  /\ UNCHANGED <<copies, fetching, closed, watchers, uploads, saved, lost>>

\* The copy is not as the watcher saw it last.
Changed(i) == ~watchers[i].seen /\ copy[LocalName(watchers[i].file)] # NoText

\* A watcher whose worker is gone goes on, and sends nothing.
Watching(i)   == watchers[i].stage = "watching" /\ watchers[i].editor \notin closed
HasNews(i)    == Watching(i) /\ Changed(i)
Watches(i, p) == Watching(i) /\ watchers[i].file = p
Watched(p) == \E i \in DOMAIN watchers : Watches(i, p)

\* A save that a watcher is to see makes good for those before it.
Save(p) ==
  /\ p \in programs
  /\ \E n \in 1..MaxSaves :
       /\ \A q \in Paths : saved[q].n < n
       /\ n = 1 \/ \E q \in Paths : saved[q].n = n - 1
       /\ Put(LocalName(p), Text(p, n))
       /\ saved' = [saved EXCEPT ![p] = Text(p, n)]
  /\ watchers' = Touched(LocalName(p), watchers)
  /\ lost' = IF Watched(p) THEN lost \ {p} ELSE lost \cup {p}
  /\ UNCHANGED <<remote, programs, orders, fetching, closed, uploads>>

-----------------------------------------------------------------------------
(***************************************************************************)
(* The command loop: it fetches the copy itself.                           *)
(***************************************************************************)
\* The remote file is open, the copy is truncated; or the file cannot be opened.
TakeOpenOrder(e) ==
  /\ OrderIs(e, "open") /\ OrderTaken(e)
  /\ LET p == Head(orders[e]).file
     IN \/ /\ remote[p] # NoText
           /\ Put(LocalName(p), CutText)
           /\ watchers' = Touched(LocalName(p), watchers)
           /\ fetching' = [fetching EXCEPT ![e] = <<Head(orders[e])>>]
        \/ UNCHANGED <<copy, fetching, watchers>>
  /\ UNCHANGED <<remote, programs, closed, uploads, saved, lost>>

\* The copy is whole, a program opens it, and its watcher is spawned.
Fetched(e) ==
  /\ fetching[e] # Nothing
  /\ LET p == fetching[e][1].file
     IN /\ Put(LocalName(p), remote[p])
        /\ programs' = programs \cup {p}
        /\ LET ws == Touched(LocalName(p), watchers)
           IN watchers' = IF fetching[e][1].edit
                          THEN Append(ws, [stage |-> "starting", editor |-> e, file |-> p, seen |-> FALSE])
                          ELSE ws
        /\ lost' = IF remote[p] = saved[p] THEN lost ELSE lost \cup {p}
  /\ fetching' = [fetching EXCEPT ![e] = Nothing]
  /\ UNCHANGED <<remote, orders, closed, uploads, saved>>

\* The copy is removed.
FetchFails(e) ==
  /\ fetching[e] # Nothing
  /\ LET p == fetching[e][1].file
     IN Put(LocalName(p), NoText) /\ lost' = lost \cup {p}
  /\ fetching' = [fetching EXCEPT ![e] = Nothing]
  /\ UNCHANGED <<remote, programs, orders, closed, watchers, uploads, saved>>

TakeUploadOrder(e) ==
  /\ OrderIs(e, "upload") /\ OrderTaken(e)
  /\ LET o == Head(orders[e])
     IN uploads' = Append(uploads, [editor |-> e, from |-> o.name, stage |-> "starting",
                                    to |-> [dir |-> o.dir, name |-> o.name], text |-> NoText])
  /\ UNCHANGED <<copies, fetching, closed, watchers, saved, lost>>

Uploading(p, os) == {i \in DOMAIN os : os[i].op = "upload" /\ [dir |-> os[i].dir, name |-> os[i].name] = p}

\* What waits is not read any more, and no watcher of this worker is heard again.
TakeCloseOrder(e) ==
  /\ OrderIs(e, "close")
  /\ orders' = [orders EXCEPT ![e] = <<>>]
  /\ closed' = closed \cup {e}
  /\ lost' = lost \cup {p \in Paths : Uploading(p, orders[e]) # {}}
                  \cup {watchers[i].file : i \in {x \in DOMAIN watchers : watchers[x].editor = e /\ HasNews(x)}}
  /\ UNCHANGED <<copies, fetching, watchers, uploads, saved>>

-----------------------------------------------------------------------------
(***************************************************************************)
(* spawn_edit_watcher.                                                     *)
(***************************************************************************)
StartWatching(i) ==
  /\ watchers[i].stage = "starting"
  /\ watchers' = [watchers EXCEPT ![i].stage = "watching", ![i].seen = copy[LocalName(watchers[i].file)] # NoText]
  /\ UNCHANGED <<copies, orders, fetching, closed, uploads, saved, lost>>

UnderWay == Len(uploads) + Waiting("upload")

\* Mutant: while an upload of the copy is under way the change is not sent.
LookUnlessBusy(i) ==
  LET w == watchers[i] IN
  /\ HasNews(i) /\ UnderWay < MaxUnderWay
  /\ watchers' = [watchers EXCEPT ![i].seen = TRUE]
  /\ IF \E k \in DOMAIN uploads : uploads[k].from = LocalName(w.file) THEN UNCHANGED orders
     ELSE Order(w.editor, [op |-> "upload", name |-> LocalName(w.file), dir |-> w.file.dir])
  /\ UNCHANGED <<copies, fetching, closed, uploads, saved, lost>>

\* One of the looks that find something.
Look(i) ==
  LET w == watchers[i] IN
  /\ HasNews(i) /\ UnderWay < MaxUnderWay
  /\ watchers' = [watchers EXCEPT ![i].seen = TRUE]
  /\ Order(w.editor, [op |-> "upload", name |-> LocalName(w.file), dir |-> w.file.dir])
  /\ UNCHANGED <<copies, fetching, closed, uploads, saved, lost>>

\* After 1200 looks, or when it finds its worker gone.
StopWatching(i) ==
  /\ watchers[i].stage = "watching"
  /\ watchers' = RemoveAt(watchers, i)
  /\ lost' = IF HasNews(i) THEN lost \cup {watchers[i].file} ELSE lost
  /\ UNCHANGED <<copies, orders, fetching, closed, uploads, saved>>

-----------------------------------------------------------------------------
(***************************************************************************)
(* An upload task (upload_with_session).                                   *)
(***************************************************************************)
Ongoing(p) == {k \in DOMAIN uploads : uploads[k].to = p /\ uploads[k].stage # "starting"}

\* The copy is open, and the remote file is created or truncated.
UploadOpens(k) ==
  LET u == uploads[k] IN
  /\ u.stage = "starting" /\ copy[u.from] # NoText
  /\ remote' = [remote EXCEPT ![u.to] = CutText]
  /\ uploads' = [uploads EXCEPT ![k].stage = "open"]
  /\ lost' = IF Ongoing(u.to) = {} THEN lost ELSE lost \cup {u.to}
  /\ UNCHANGED <<copy, programs, orders, fetching, closed, watchers, saved>>

UploadReads(k) ==
  /\ uploads[k].stage = "open"
  /\ LET text == copy[uploads[k].from]
     IN uploads' = [uploads EXCEPT ![k].stage = "read",
                                   ![k].text = IF text = NoText THEN CutText ELSE text]
  /\ UNCHANGED <<copies, orders, fetching, closed, watchers, saved, lost>>

\* What another upload has removed stays removed.
UploadWrites(k) ==
  /\ uploads[k].stage = "read"
  /\ remote' = [remote EXCEPT ![uploads[k].to] = IF @ = NoText THEN @ ELSE uploads[k].text]
  /\ uploads' = RemoveAt(uploads, k)
  /\ UNCHANGED <<copy, programs, orders, fetching, closed, watchers, saved, lost>>

\* An error or a cancel: what was written is removed from the server, unless the connection
\* is gone or it was not opened.
UploadFails(k) ==
  LET u == uploads[k] IN
  /\ \/ UNCHANGED remote
     \/ u.stage # "starting" /\ remote' = [remote EXCEPT ![u.to] = NoText]
  /\ uploads' = RemoveAt(uploads, k)
  /\ lost' = lost \cup {u.to}
  /\ UNCHANGED <<copy, programs, orders, fetching, closed, watchers, saved>>

-----------------------------------------------------------------------------
EditNext ==
  \/ \E e \in Editors : \/ \E p \in Stored, edit \in BOOLEAN : OpenExternally(e, p, edit)
                        \/ CloseSftpOf(e)
                        \/ TakeOpenOrder(e) \/ Fetched(e) \/ FetchFails(e)
                        \/ TakeUploadOrder(e) \/ TakeCloseOrder(e)
  \/ \E p \in programs : Save(p)
  \/ \E i \in DOMAIN watchers : StartWatching(i) \/ Look(i) \/ StopWatching(i)
  \/ \E k \in DOMAIN uploads : UploadOpens(k) \/ UploadReads(k) \/ UploadWrites(k) \/ UploadFails(k)

EditSpec == EditInit /\ [][EditNext]_editVars

-----------------------------------------------------------------------------
(***************************************************************************)
(* Properties.                                                             *)
(***************************************************************************)

\* No other file has the same copy, and the copy has the name of the file.
Alone(p) == LocalName(p) = p.name /\ \A q \in Stored \ {p} : LocalName(q) # p.name

Quiet(p) ==
  /\ \A e \in Editors : /\ Uploading(p, orders[e]) = {}
                        /\ fetching[e] # Nothing => fetching[e][1].file # p
  /\ \A k \in DOMAIN uploads : uploads[k].to # p
  /\ \A i \in DOMAIN watchers : Watches(i, p) => ~Changed(i)

\* What is saved in the program comes home: once nothing is under way, the file on the
\* server is what was saved last, whenever the save fell: between two looks, while an
\* upload was reading or waiting, or beside a second watcher; and after an upload that was
\* lost the next save makes good.
EditsComeHome ==
  \A p \in Stored : Alone(p) /\ Watched(p) /\ Quiet(p) /\ p \notin lost => remote[p] = saved[p]

\* What a file on the server holds is a text of this file, stated at sftp.rs:1178, "re-upload
\* it to the remote".  It does not hold of two files of one name: they share the copy.
TextsStayHome == \A p \in Paths : remote[p].of \subseteq {p}
=============================================================================
