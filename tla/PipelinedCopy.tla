--------------------------- MODULE PipelinedCopy ---------------------------
(***************************************************************************)
(* One file over SFTP: download_with_session and upload_with_session.      *)
(*                                                                         *)
(* A copy keeps up to MaxInflight requests for chunks on their way; they   *)
(* complete in any order, each with its offset.  The destination is        *)
(* truncated when the copy starts and removed when it fails or is          *)
(* cancelled.  All copies here have the same destination: a file may be    *)
(* downloaded twice, or saved in an editor while it is still uploaded.     *)
(***************************************************************************)
EXTENDS Integers, FiniteSets

CONSTANTS
  Copies,
  Length,       \* the length of the source, in chunks
  MaxInflight,
  Old           \* what the destination held before, if anything

ASSUME LimitsAssumption ==
  /\ Length \in Nat \ {0} /\ MaxInflight \in Nat \ {0}
  /\ IsFiniteSet(Copies) /\ Old \notin Copies

VARIABLES
  upload,     \* the direction
  source,     \* the length of the source now: it may be truncated
  conn,       \* the connection is there
  dest,       \* the file at the destination path, by who created it
  data,       \* per file: who wrote each chunk
  at,         \* per copy: where it is
  total,      \* per copy: the length it was told
  next,       \* per copy: the next chunk to ask for
  inflight,   \* per copy: the chunks on their way
  eof,        \* per upload: no more is read
  err,        \* per copy: something went wrong
  flag,       \* per copy: the cancel flag
  cancelled,  \* per copy: the flag as it was seen
  out,        \* per copy: the file it has open
  overlapped, \* history: the copies that ran beside another one
  unremoved   \* history: the copies whose removal of the rest failed

files == <<source, conn, dest, data>>
vars  == <<upload, files, at, total, next, inflight, eof, err, flag, cancelled,
           out, overlapped, unremoved>>

Offsets == 0..(Length - 1)
Files   == Copies \cup {Old}
Nobody  == [k \in Offsets |-> "hole"]
Running == {"top", "await", "serial", "closing"}
Ended   == {"done", "cancelled", "failed", "returned"}

TypeOK ==
  /\ upload \in BOOLEAN /\ conn \in BOOLEAN
  /\ source \in 0..Length
  /\ dest \in Files \cup {"none"}
  /\ data \in [Files -> [Offsets -> Files \cup {"hole"}]]
  /\ at \in [Copies -> Running \cup Ended \cup {"idle"}]
  /\ total \in [Copies -> 0..Length] /\ next \in [Copies -> 0..Length]
  /\ inflight \in [Copies -> SUBSET Offsets]
  /\ eof \in [Copies -> BOOLEAN] /\ err \in [Copies -> BOOLEAN]
  /\ flag \in [Copies -> BOOLEAN] /\ cancelled \in [Copies -> BOOLEAN]
  /\ out \in [Copies -> Files]
  /\ overlapped \subseteq Copies /\ unremoved \subseteq Copies

Init ==
  /\ upload \in BOOLEAN
  /\ source = Length /\ conn = TRUE
  /\ dest \in {Old, "none"}
  /\ data = [f \in Files |-> IF f = Old THEN [k \in Offsets |-> Old] ELSE Nobody]
  /\ at = [c \in Copies |-> "idle"]
  /\ total = [c \in Copies |-> 0] /\ next = [c \in Copies |-> 0]
  /\ inflight = [c \in Copies |-> {}]
  /\ eof = [c \in Copies |-> FALSE] /\ err = [c \in Copies |-> FALSE]
  /\ flag = [c \in Copies |-> FALSE] /\ cancelled = [c \in Copies |-> FALSE]
  /\ out = [c \in Copies |-> Old]
  /\ overlapped = {} /\ unremoved = {}

Goto(c, phase) == at' = [at EXCEPT ![c] = phase]
Others(c) == {d \in Copies \ {c} : at[d] \in Running}

(* stat, open and create: the destination is truncated.  A size the server *)
(* does not tell counts as zero.                                           *)
Open(c, known) ==
  LET f == IF dest = "none" THEN c ELSE dest
  IN /\ conn /\ at[c] = "idle"
     /\ dest' = f /\ data' = [data EXCEPT ![f] = Nobody]
     /\ out' = [out EXCEPT ![c] = f]
     /\ total' = [total EXCEPT ![c] = IF known THEN source ELSE 0]
     /\ Goto(c, IF upload \/ (known /\ source > 0) THEN "top" ELSE "serial")
     /\ overlapped' = IF Others(c) = {} THEN overlapped
                      ELSE overlapped \cup Others(c) \cup {c}
     /\ UNCHANGED <<upload, source, conn, next, inflight, eof, err, flag,
                    cancelled, unremoved>>

(***************************************************************************)
(* The pipeline of a download.                                             *)
(***************************************************************************)
Full(c)    == next[c] + (MaxInflight - Cardinality(inflight[c]))
To(c, end) == IF Full(c) < end THEN Full(c) ELSE end

(* Requests for the chunks up to the end, as many as there is room for. *)
TopUp(c, end) ==
  /\ inflight' = [inflight EXCEPT ![c] = @ \cup next[c]..(To(c, end) - 1)]
  /\ next' = [next EXCEPT ![c] = IF @ < To(c, end) THEN To(c, end) ELSE @]

\* Mutant: a cancelled download waits for one more chunk.
DownloadTopAwaits(c) ==
  /\ ~upload /\ at[c] = "top"
  /\ cancelled' = [cancelled EXCEPT ![c] = @ \/ flag[c]]
  /\ IF cancelled'[c] \/ err[c] THEN UNCHANGED <<inflight, next>>
     ELSE TopUp(c, total[c])
  /\ Goto(c, IF inflight'[c] = {} /\ ~cancelled'[c] THEN "closing" ELSE "await")
  /\ UNCHANGED <<upload, files, total, eof, err, flag, out, overlapped, unremoved>>

(* The flag is polled and the pipeline filled; with nothing on its way the *)
(* loop is over.                                                           *)
DownloadTop(c) ==
  /\ ~upload /\ at[c] = "top"
  /\ cancelled' = [cancelled EXCEPT ![c] = @ \/ flag[c]]
  /\ IF cancelled'[c] \/ err[c] THEN UNCHANGED <<inflight, next>>
     ELSE TopUp(c, total[c])
  /\ Goto(c, IF inflight'[c] = {} THEN "closing" ELSE "await")
  /\ UNCHANGED <<upload, files, total, eof, err, flag, out, overlapped, unremoved>>

Write(c, k) == data' = [data EXCEPT ![out[c]][k] = c]
Broken(c)   == err' = [err EXCEPT ![c] = TRUE]

\* Mutant: a local write that fails is not noted.
ChunkReadUnnoted(c, k) ==
  /\ ~upload /\ at[c] = "await" /\ k \in inflight[c]
  /\ inflight' = [inflight EXCEPT ![c] = @ \ {k}]
  /\ \/ conn /\ k < source /\ Write(c, k) /\ UNCHANGED err
     \/ UNCHANGED <<data, err>>
     \/ Broken(c) /\ UNCHANGED data
  /\ Goto(c, "top")
  /\ UNCHANGED <<upload, source, conn, dest, total, next, eof, flag, cancelled,
                 out, overlapped, unremoved>>

(* A read completes, any of them: a chunk is written at its offset; one    *)
(* behind the end of the source comes empty and is let pass; a failed read *)
(* or write is kept for the end.                                           *)
ChunkRead(c, k) ==
  /\ ~upload /\ at[c] = "await" /\ k \in inflight[c]
  /\ inflight' = [inflight EXCEPT ![c] = @ \ {k}]
  /\ \/ conn /\ k < source /\ Write(c, k) /\ UNCHANGED err
     \/ conn /\ k >= source /\ UNCHANGED <<data, err>>
     \/ Broken(c) /\ UNCHANGED data
  /\ Goto(c, "top")
  /\ UNCHANGED <<upload, source, conn, dest, total, next, eof, flag, cancelled,
                 out, overlapped, unremoved>>

(* Without a size: one chunk after the other until the end of the source.  *)
(* A local write that fails returns from the function on the spot.         *)
Serial(c) ==
  /\ at[c] = "serial"
  /\ \/ /\ flag[c] /\ Goto(c, "closing")
        /\ cancelled' = [cancelled EXCEPT ![c] = TRUE]
        /\ UNCHANGED <<data, next, err>>
     \/ /\ ~flag[c] /\ conn /\ next[c] < source
        /\ \/ Write(c, next[c]) /\ next' = [next EXCEPT ![c] = @ + 1]
              /\ UNCHANGED at
           \/ Goto(c, "returned") /\ UNCHANGED <<data, next>>
        /\ UNCHANGED <<err, cancelled>>
     \/ /\ ~flag[c] /\ conn /\ next[c] >= source /\ Goto(c, "closing")
        /\ UNCHANGED <<data, next, err, cancelled>>
     \/ /\ ~flag[c] /\ Goto(c, "closing") /\ Broken(c)
        /\ UNCHANGED <<data, next, cancelled>>
  /\ UNCHANGED <<upload, source, conn, dest, total, inflight, eof, flag, out,
                 overlapped, unremoved>>

(***************************************************************************)
(* The pipeline of an upload.                                              *)
(***************************************************************************)

(* The local file is read until its end, or until it cannot be read.       *)
UploadTop(c) ==
  /\ upload /\ at[c] = "top"
  /\ cancelled' = [cancelled EXCEPT ![c] = @ \/ flag[c]]
  /\ LET stop == eof[c] \/ cancelled'[c]
     IN /\ IF stop THEN UNCHANGED <<inflight, next>> ELSE TopUp(c, source)
        /\ \/ /\ eof' = [eof EXCEPT ![c] = stop \/ next'[c] < Full(c)]
              /\ UNCHANGED err
           \/ /\ ~stop
              /\ eof' = [eof EXCEPT ![c] = TRUE]
              /\ Broken(c)
  /\ Goto(c, IF inflight'[c] # {} THEN "await"
             ELSE IF eof'[c] THEN "closing" ELSE "top")
  /\ UNCHANGED <<upload, files, total, flag, out, overlapped, unremoved>>

(* A write completes, any of them; an error ends the loop at once.         *)
ChunkWritten(c, k) ==
  /\ upload /\ at[c] = "await" /\ k \in inflight[c]
  /\ inflight' = [inflight EXCEPT ![c] = @ \ {k}]
  /\ \/ conn /\ Write(c, k) /\ UNCHANGED <<err, eof>>
     \/ Broken(c) /\ eof' = [eof EXCEPT ![c] = TRUE] /\ UNCHANGED data
  /\ Goto(c, IF err'[c] \/ (eof[c] /\ inflight'[c] = {}) THEN "closing" ELSE "top")
  /\ UNCHANGED <<upload, source, conn, dest, total, next, flag, cancelled,
                 out, overlapped, unremoved>>

(***************************************************************************)
(* The end.                                                                *)
(***************************************************************************)

(* The path is removed, whoever created what is there now, a remote one    *)
(* over the connection.  Whether that worked is not looked at.             *)
Remove(c) ==
  \/ ~(upload /\ ~conn) /\ dest' = "none" /\ UNCHANGED unremoved
  \/ unremoved' = unremoved \cup {c} /\ UNCHANGED dest

(* An error wins over a cancel.  The local file of a download is flushed   *)
(* last; when that fails the function returns on the spot.                 *)
Close(c) ==
  /\ at[c] = "closing"
  /\ \/ err[c] /\ Remove(c) /\ Goto(c, "failed")
     \/ ~err[c] /\ cancelled[c] /\ Remove(c) /\ Goto(c, "cancelled")
     \/ /\ ~err[c] /\ ~cancelled[c] /\ UNCHANGED <<dest, unremoved>>
        /\ Goto(c, "done") \/ (~upload /\ Goto(c, "returned"))
  /\ UNCHANGED <<upload, source, conn, data, total, next, inflight, eof, err, flag,
                 cancelled, out, overlapped>>

(***************************************************************************)
(* Around it.                                                              *)
(***************************************************************************)

(* CancelTransfer raises the flag of a copy that is under way. *)
Cancel(c) ==
  /\ at[c] \in Running /\ ~flag[c]
  /\ flag' = [flag EXCEPT ![c] = TRUE]
  /\ UNCHANGED <<upload, files, at, total, next, inflight, eof, err, cancelled,
                 out, overlapped, unremoved>>

(* Another program truncates the source. *)
Shrink ==
  /\ source' \in 0..(source - 1)
  /\ UNCHANGED <<upload, conn, dest, data, at, total, next, inflight, eof, err,
                 flag, cancelled, out, overlapped, unremoved>>

ConnectionLost ==
  /\ conn /\ conn' = FALSE
  /\ UNCHANGED <<upload, source, dest, data, at, total, next, inflight, eof, err,
                 flag, cancelled, out, overlapped, unremoved>>

Run(c) == \/ DownloadTop(c) \/ UploadTop(c) \/ Serial(c) \/ Close(c)
          \/ \E k \in Offsets : ChunkRead(c, k) \/ ChunkWritten(c, k)

Next == \/ \E c \in Copies : \/ \E known \in BOOLEAN : Open(c, known)
                             \/ Run(c) \/ Cancel(c)
        \/ Shrink \/ ConnectionLost

Spec == Init /\ [][Next]_vars

(* A request is answered, or fails with the connection; the task runs.     *)
Fairness == \A c \in Copies : WF_vars(Run(c))

FairSpec == Spec /\ Fairness

(***************************************************************************)
(* Properties.                                                             *)
(***************************************************************************)

(* A copy that ran alone, of a source nobody truncated, reports that it is *)
(* done only when every chunk is in place at the destination, in whatever  *)
(* order the requests completed and however many there were.               *)
Complete(c) == /\ dest = out[c]
               /\ \A k \in 0..(source - 1) : data[dest][k] = c

Ran(c) == at[c] \in Running

DoneIsWhole ==
  [][\A c \in Copies :
       Ran(c) /\ at'[c] = "done" /\ c \notin overlapped /\ source = Length
         => Complete(c)']_vars

(* "The partial local file is removed so no half-downloaded junk is left   *)
(* behind": with no copy under way, what is at the destination is one      *)
(* whole file, the one a copy completed or the one nobody touched.  Left   *)
(* out: copies that ran side by side, a source that shrank, the returns    *)
(* that skip the removal, and the removals that failed unnoticed.          *)
NoJunk ==
  /\ overlapped = {} /\ unremoved = {} /\ source = Length
  /\ \A c \in Copies : ~Ran(c) /\ at[c] # "returned"
  /\ dest # "none"
  => \E w \in Files : \A k \in Offsets : data[dest][k] = w

(* Why a copy is whole, as an invariant each step preserves.  Copies that  *)
(* run side by side know it; one that runs alone has its destination to    *)
(* itself.                                                                 *)
OverlapIsNoted ==
  /\ \A c, d \in Copies : Ran(c) /\ Ran(d) /\ c # d => c \in overlapped
  /\ \A c \in Copies : Ran(c) /\ c \notin overlapped => dest = out[c]

(* Each chunk up to the next one is on its way or in the file, unless an   *)
(* error was noted or the source does not have it.                         *)
NoChunkIsSkipped ==
  \A c \in Copies : Ran(c) /\ c \notin overlapped /\ ~err[c] =>
    \A k \in Offsets : k < next[c] =>
      k \in inflight[c] \/ data[out[c]][k] = c \/ k >= source

(* A copy stops asking at the end of its source, not before; it closes     *)
(* with nothing on its way.                                                *)
NothingIsLeftOut ==
  \A c \in Copies :
    /\ at[c] = "idle" => next[c] = 0 /\ ~eof[c]
    /\ at[c] \in {"idle", "serial"} => inflight[c] = {}
    /\ ~upload /\ at[c] \in {"top", "await"} => total[c] >= source
    /\ Ran(c) /\ eof[c] /\ ~err[c] /\ ~cancelled[c] => next[c] >= source
    /\ at[c] = "closing" /\ ~err[c] /\ ~cancelled[c] =>
         inflight[c] = {} /\ next[c] >= source

CopyInv == TypeOK /\ OverlapIsNoted /\ NoChunkIsSkipped /\ NothingIsLeftOut

(* The two loops end: with a flag raised, an error noted, or a chunk that  *)
(* completes late, no copy waits for a request that was never made.        *)
CopyEnds == \A c \in Copies : Ran(c) ~> at[c] \in Ended

(* "Returns Ok(true) when the whole file was written": a download is done  *)
(* only with every chunk it was to fetch in the local file.  This does not *)
(* hold when the source shrinks: an early end of file is let pass.         *)
DoneMeansWhole ==
  [][\A c \in Copies : ~upload /\ Ran(c) /\ at'[c] = "done" =>
       dest = out[c] /\ \A k \in Offsets : k < total[c] => data[dest][k] = c]_vars
=============================================================================
