------------------------ MODULE PipelinedCopy_proofs ------------------------
(***************************************************************************)
(* What a copy over SFTP guarantees for every length of the source, every  *)
(* width of the pipeline and any number of copies to one destination.      *)
(***************************************************************************)
EXTENDS PipelinedCopy, FiniteSetTheorems, TLAPS

(* The number of requests on their way is a number. *)
LEMMA InflightCounts ==
  ASSUME TypeOK, NEW c \in Copies
  PROVE  Cardinality(inflight[c]) \in Nat
<1>1. IsFiniteSet(Offsets)
  BY FS_Interval, LimitsAssumption DEF Offsets
<1>2. inflight[c] \in SUBSET Offsets
  BY DEF TypeOK
<1>3. IsFiniteSet(inflight[c])
  BY <1>1, <1>2, FS_Subset
<1> QED
  BY <1>3, FS_CardinalityType

(* What filling the pipeline does: it asks for every chunk it passes, and  *)
(* stops short of the end only when the pipeline is full.                  *)
LEMMA TopUpFacts ==
  ASSUME TypeOK, NEW c \in Copies, NEW end \in 0..Length, TopUp(c, end)
  PROVE  /\ inflight' \in [Copies -> SUBSET Offsets]
         /\ next' \in [Copies -> 0..Length]
         /\ \A d \in Copies \ {c} : next'[d] = next[d] /\ inflight'[d] = inflight[d]
         /\ inflight[c] \subseteq inflight'[c]
         /\ \A k \in Offsets : next[c] <= k /\ k < next'[c] => k \in inflight'[c]
         /\ inflight'[c] = {} => next'[c] >= end
         /\ next'[c] < Full(c) => next'[c] >= end
<1> DEFINE full == Full(c)  to == To(c, end)
<1>1. next[c] \in 0..Length /\ inflight[c] \in SUBSET Offsets /\ Length \in Nat \ {0}
  BY LimitsAssumption DEF TypeOK
<1>2. full \in Int
  BY <1>1, InflightCounts, LimitsAssumption DEF Full
<1>3. to \in Int /\ to <= end /\ to <= full /\ (to = full \/ to = end)
  BY <1>2 DEF To
<1>4. next[c]..(to - 1) \in SUBSET Offsets
  BY <1>1, <1>3 DEF Offsets
<1>5. /\ inflight' = [inflight EXCEPT ![c] = @ \cup next[c]..(to - 1)]
      /\ next' = [next EXCEPT ![c] = IF @ < to THEN to ELSE @]
  BY DEF TopUp
<1> HIDE DEF full, to
<1>6. inflight \in [Copies -> SUBSET Offsets] /\ next \in [Copies -> 0..Length]
  BY DEF TypeOK
<1>7. inflight'[c] = inflight[c] \cup next[c]..(to - 1)
  BY <1>5, <1>6
<1>8. next'[c] = IF next[c] < to THEN to ELSE next[c]
  BY <1>5, <1>6
<1>9. (IF next[c] < to THEN to ELSE next[c]) \in 0..Length
  BY <1>1, <1>3
<1>10. inflight' \in [Copies -> SUBSET Offsets]
  BY <1>4, <1>5, <1>6
<1>11. next' \in [Copies -> 0..Length]
  BY <1>5, <1>6, <1>9
<1>12. \A d \in Copies \ {c} : next'[d] = next[d] /\ inflight'[d] = inflight[d]
  BY <1>5, <1>6
<1>13. \A k \in Offsets : next[c] <= k /\ k < next'[c] => k \in inflight'[c]
  <2> SUFFICES ASSUME NEW k \in Offsets, next[c] <= k, k < next'[c]
               PROVE  k \in next[c]..(to - 1)
    BY <1>7
  <2> QED
    BY <1>1, <1>3, <1>8 DEF Offsets
<1>14. next'[c] < full => next'[c] >= end
  BY <1>1, <1>2, <1>3, <1>8
<1>15. inflight'[c] = {} => next'[c] >= end
  <2> SUFFICES ASSUME inflight'[c] = {}
               PROVE  next'[c] >= end
    OBVIOUS
  <2>1. inflight[c] = {} /\ next[c]..(to - 1) = {}
    BY <1>7
  <2>2. Cardinality(inflight[c]) = 0
    BY <2>1, FS_EmptySet
  <2>3. full > next[c]
    BY <1>1, <2>2, LimitsAssumption DEF full, Full
  <2>4. ~(next[c] < to)
    <3> SUFFICES ASSUME next[c] < to
                 PROVE  FALSE
      OBVIOUS
    <3>1. next[c] \in next[c]..(to - 1)
      BY <1>1, <1>3
    <3> QED
      BY <2>1, <3>1
  <2> QED
    BY <1>1, <1>2, <1>3, <1>8, <2>3, <2>4
<1> QED
  BY <1>7, <1>10, <1>11, <1>12, <1>13, <1>14, <1>15 DEF full

-----------------------------------------------------------------------------
(* Types.                                                                  *)

LEMMA InitTypes == Init => TypeOK
<1> SUFFICES ASSUME Init
             PROVE  TypeOK
  OBVIOUS
<1>1. 0 \in 0..Length /\ Length \in 0..Length
  BY LimitsAssumption
<1>2. data \in [Files -> [Offsets -> Files \cup {"hole"}]]
  BY DEF Init, Files, Nobody
<1> QED
  BY <1>1, <1>2 DEF Init, TypeOK, Files

LEMMA WriteTypes ==
  ASSUME TypeOK, NEW c \in Copies, NEW k \in Offsets, Write(c, k)
  PROVE  data' \in [Files -> [Offsets -> Files \cup {"hole"}]]
<1>1. out[c] \in Files /\ data \in [Files -> [Offsets -> Files \cup {"hole"}]]
  BY DEF TypeOK
<1>2. data[out[c]] \in [Offsets -> Files \cup {"hole"}] /\ c \in Files \cup {"hole"}
  BY <1>1 DEF Files
<1>3. [data[out[c]] EXCEPT ![k] = c] \in [Offsets -> Files \cup {"hole"}]
  BY <1>2
<1>4. data' = [data EXCEPT ![out[c]] = [data[out[c]] EXCEPT ![k] = c]]
  BY DEF Write
<1> QED
  BY <1>1, <1>3, <1>4

LEMMA OpenTypes ==
  ASSUME TypeOK, NEW c \in Copies, NEW known \in BOOLEAN, Open(c, known)
  PROVE  TypeOK'
<1> DEFINE f == IF dest = "none" THEN c ELSE dest
<1>1. f \in Files
  BY DEF TypeOK, Files
<1>2. /\ dest' = f /\ data' = [data EXCEPT ![f] = Nobody]
      /\ out' = [out EXCEPT ![c] = f]
  BY DEF Open
<1> HIDE DEF f
<1>3. Nobody \in [Offsets -> Files \cup {"hole"}]
  BY DEF Nobody
<1>4. data' \in [Files -> [Offsets -> Files \cup {"hole"}]]
  BY <1>1, <1>2, <1>3 DEF TypeOK
<1>5. out' \in [Copies -> Files] /\ dest' \in Files \cup {"none"}
  BY <1>1, <1>2 DEF TypeOK
<1>6. total' \in [Copies -> 0..Length]
  <2>1. (IF known THEN source ELSE 0) \in 0..Length
    BY LimitsAssumption DEF TypeOK
  <2> QED
    BY <2>1 DEF Open, TypeOK
<1>7. at' \in [Copies -> Running \cup Ended \cup {"idle"}]
  BY DEF Open, TypeOK, Goto, Running
<1>8. overlapped' \subseteq Copies
  BY DEF Open, TypeOK, Others
<1> QED
  BY <1>4, <1>5, <1>6, <1>7, <1>8 DEF Open, TypeOK

LEMMA DownloadTopTypes ==
  ASSUME TypeOK, NEW c \in Copies, DownloadTop(c)
  PROVE  TypeOK'
<1>1. inflight' \in [Copies -> SUBSET Offsets] /\ next' \in [Copies -> 0..Length]
  <2>1. CASE cancelled'[c] \/ err[c]
    BY <2>1 DEF DownloadTop, TypeOK
  <2>2. CASE ~(cancelled'[c] \/ err[c])
    <3>1. TopUp(c, total[c]) /\ total[c] \in 0..Length
      BY <2>2 DEF DownloadTop, TypeOK
    <3> QED
      BY <3>1, TopUpFacts
  <2> QED
    BY <2>1, <2>2
<1>2. at' \in [Copies -> Running \cup Ended \cup {"idle"}]
  BY DEF DownloadTop, TypeOK, Goto, Running
<1>3. cancelled' \in [Copies -> BOOLEAN]
  BY DEF DownloadTop, TypeOK
<1> QED
  BY <1>1, <1>2, <1>3 DEF DownloadTop, TypeOK, files

LEMMA UploadTopTypes ==
  ASSUME TypeOK, NEW c \in Copies, UploadTop(c)
  PROVE  TypeOK'
<1>1. inflight' \in [Copies -> SUBSET Offsets] /\ next' \in [Copies -> 0..Length]
  <2>1. CASE eof[c] \/ cancelled'[c]
    BY <2>1 DEF UploadTop, TypeOK
  <2>2. CASE ~(eof[c] \/ cancelled'[c])
    <3>1. TopUp(c, source) /\ source \in 0..Length
      BY <2>2 DEF UploadTop, TypeOK
    <3> QED
      BY <3>1, TopUpFacts
  <2> QED
    BY <2>1, <2>2
<1>2. at' \in [Copies -> Running \cup Ended \cup {"idle"}]
  BY DEF UploadTop, TypeOK, Goto, Running
<1>3. cancelled' \in [Copies -> BOOLEAN]
  BY DEF UploadTop, TypeOK
<1>4. eof' \in [Copies -> BOOLEAN]
  <2>1. \/ eof' = [eof EXCEPT ![c] = (eof[c] \/ cancelled'[c]) \/ next'[c] < Full(c)]
        \/ eof' = [eof EXCEPT ![c] = TRUE]
    BY DEF UploadTop
  <2>2. ((eof[c] \/ cancelled'[c]) \/ next'[c] < Full(c)) \in BOOLEAN
    OBVIOUS
  <2> QED
    BY <2>1, <2>2 DEF TypeOK
<1>5. err' \in [Copies -> BOOLEAN]
  BY DEF UploadTop, TypeOK, Broken
<1> QED
  BY <1>1, <1>2, <1>3, <1>4, <1>5 DEF UploadTop, TypeOK, files

LEMMA ChunkReadTypes ==
  ASSUME TypeOK, NEW c \in Copies, NEW k \in Offsets, ChunkRead(c, k)
  PROVE  TypeOK'
<1>1. data' \in [Files -> [Offsets -> Files \cup {"hole"}]]
  BY WriteTypes DEF ChunkRead, TypeOK
<1>2. /\ inflight' \in [Copies -> SUBSET Offsets]
      /\ err' \in [Copies -> BOOLEAN]
      /\ at' \in [Copies -> Running \cup Ended \cup {"idle"}]
  BY DEF ChunkRead, TypeOK, Broken, Goto, Running
<1> QED
  BY <1>1, <1>2 DEF ChunkRead, TypeOK

LEMMA ChunkWrittenTypes ==
  ASSUME TypeOK, NEW c \in Copies, NEW k \in Offsets, ChunkWritten(c, k)
  PROVE  TypeOK'
<1>1. data' \in [Files -> [Offsets -> Files \cup {"hole"}]]
  BY WriteTypes DEF ChunkWritten, TypeOK
<1>2. /\ inflight' \in [Copies -> SUBSET Offsets]
      /\ err' \in [Copies -> BOOLEAN] /\ eof' \in [Copies -> BOOLEAN]
  BY DEF ChunkWritten, TypeOK, Broken
<1>3. at' \in [Copies -> Running \cup Ended \cup {"idle"}]
  BY DEF ChunkWritten, TypeOK, Goto, Running
<1> QED
  BY <1>1, <1>2, <1>3 DEF ChunkWritten, TypeOK

LEMMA SerialTypes ==
  ASSUME TypeOK, NEW c \in Copies, Serial(c)
  PROVE  TypeOK'
<1>1. /\ data' \in [Files -> [Offsets -> Files \cup {"hole"}]]
      /\ next' \in [Copies -> 0..Length]
  <2>1. CASE UNCHANGED <<data, next>>
    BY <2>1 DEF TypeOK
  <2>2. CASE /\ next[c] < source /\ Write(c, next[c])
             /\ next' = [next EXCEPT ![c] = @ + 1]
    <3>1. next[c] \in Offsets /\ next[c] + 1 \in 0..Length
      BY <2>2, LimitsAssumption DEF TypeOK, Offsets
    <3>2. data' \in [Files -> [Offsets -> Files \cup {"hole"}]]
      BY <2>2, <3>1, WriteTypes
    <3> QED
      BY <2>2, <3>1, <3>2 DEF TypeOK
  <2> QED
    BY <2>1, <2>2 DEF Serial
<1>2. /\ err' \in [Copies -> BOOLEAN] /\ cancelled' \in [Copies -> BOOLEAN]
      /\ at' \in [Copies -> Running \cup Ended \cup {"idle"}]
  BY DEF Serial, TypeOK, Broken, Goto, Running, Ended
<1> QED
  BY <1>1, <1>2 DEF Serial, TypeOK

LEMMA CloseTypes ==
  ASSUME TypeOK, NEW c \in Copies, Close(c)
  PROVE  TypeOK'
<1>1. dest' \in Files \cup {"none"}
  BY DEF Close, Remove, TypeOK
<1>2. at' \in [Copies -> Running \cup Ended \cup {"idle"}]
  BY DEF Close, TypeOK, Goto, Ended
<1>3. unremoved' \subseteq Copies
  BY DEF Close, Remove, TypeOK
<1> QED
  BY <1>1, <1>2, <1>3 DEF Close, TypeOK

LEMMA AroundTypes ==
  ASSUME TypeOK, Shrink \/ ConnectionLost \/ \E c \in Copies : Cancel(c)
  PROVE  TypeOK'
<1>1. CASE Shrink
  <2>1. source' \in 0..Length
    BY <1>1, LimitsAssumption DEF Shrink, TypeOK
  <2> QED
    BY <1>1, <2>1 DEF Shrink, TypeOK
<1>2. CASE ConnectionLost
  BY <1>2 DEF ConnectionLost, TypeOK
<1>3. CASE \E c \in Copies : Cancel(c)
  BY <1>3 DEF Cancel, TypeOK, files
<1> QED
  BY <1>1, <1>2, <1>3

LEMMA StepTypes == TypeOK /\ [Next]_vars => TypeOK'
<1> SUFFICES ASSUME TypeOK, [Next]_vars
             PROVE  TypeOK'
  OBVIOUS
<1>1. CASE UNCHANGED vars
  BY <1>1 DEF TypeOK, vars, files
<1>2. ASSUME NEW c \in Copies, NEW known \in BOOLEAN, Open(c, known)
      PROVE  TypeOK'
  BY <1>2, OpenTypes
<1>3. ASSUME NEW c \in Copies, Run(c)
      PROVE  TypeOK'
  BY <1>3, DownloadTopTypes, UploadTopTypes, SerialTypes, CloseTypes,
     ChunkReadTypes, ChunkWrittenTypes DEF Run
<1> QED
  BY <1>1, <1>2, <1>3, AroundTypes DEF Next

(* Every reachable state has the declared types: in particular no chunk is *)
(* ever asked for, or written, beyond the length of the file.              *)
THEOREM TypeCorrect == Spec => []TypeOK
<1> QED
  BY InitTypes, StepTypes, PTL DEF Spec

-----------------------------------------------------------------------------
(* Copies that run side by side.                                           *)

(* A step other than Open starts no copy and leaves its file open.         *)
LEMMA OnlyOpenStarts ==
  ASSUME TypeOK, NEW c \in Copies,
         Run(c) \/ Cancel(c) \/ Shrink \/ ConnectionLost
  PROVE  /\ \A d \in Copies : Ran(d)' => Ran(d)
         /\ \A d \in Copies \ {c} : at'[d] = at[d]
         /\ UNCHANGED <<upload, out, overlapped>>
<1>1. ASSUME Run(c) PROVE /\ \E phase : Goto(c, phase)
                          /\ Ran(c) /\ UNCHANGED <<upload, out, overlapped>>
  <2>1. CASE DownloadTop(c)
    BY <2>1 DEF DownloadTop, Ran, Running, files
  <2>2. CASE UploadTop(c)
    BY <2>2 DEF UploadTop, Ran, Running, files
  <2>3. CASE Serial(c)
    <3>1. CASE UNCHANGED at
      BY <2>3, <3>1 DEF Serial, Ran, Running, Goto, TypeOK
    <3>2. CASE \E phase \in {"closing", "returned"} : Goto(c, phase)
      BY <2>3, <3>2 DEF Serial, Ran, Running
    <3> QED
      BY <2>3, <3>1, <3>2 DEF Serial
  <2>4. CASE Close(c)
    BY <2>4 DEF Close, Ran, Running
  <2>5. ASSUME NEW k \in Offsets, ChunkRead(c, k) \/ ChunkWritten(c, k)
        PROVE  /\ \E phase : Goto(c, phase)
               /\ Ran(c) /\ UNCHANGED <<upload, out, overlapped>>
    BY <2>5 DEF ChunkRead, ChunkWritten, Ran, Running
  <2> QED
    BY <1>1, <2>1, <2>2, <2>3, <2>4, <2>5 DEF Run
<1>2. CASE Run(c)
  BY <1>1, <1>2 DEF Goto, TypeOK, Ran
<1>3. CASE Cancel(c) \/ Shrink \/ ConnectionLost
  BY <1>3 DEF Cancel, Shrink, ConnectionLost, files, Ran
<1> QED
  BY <1>2, <1>3

LEMMA AloneWhenNotNoted ==
  ASSUME OverlapIsNoted, NEW c \in Copies, NEW d \in Copies,
         Ran(c), Ran(d), d \notin overlapped
  PROVE  d = c
<1> QED
  BY DEF OverlapIsNoted

LEMMA OpenNotesOverlap ==
  ASSUME TypeOK, OverlapIsNoted, NEW c \in Copies, NEW known \in BOOLEAN,
         Open(c, known)
  PROVE  /\ OverlapIsNoted'
         /\ \A d \in Copies \ {c} : Ran(d)' => d \in overlapped'
<1>1. \A d \in Copies \ {c} : at'[d] = at[d]
  BY DEF Open, Goto, TypeOK
<1>2. \A d \in Copies \ {c} : Ran(d)' => d \in Others(c)
  BY <1>1 DEF Ran, Others
<1>3. overlapped \subseteq overlapped'
  BY DEF Open
<1>4. Others(c) # {} => c \in overlapped' /\ Others(c) \subseteq overlapped'
  BY DEF Open
<1>5. \A d \in Copies \ {c} : Ran(d)' => d \in overlapped' /\ c \in overlapped'
  BY <1>2, <1>4
<1>6. dest' = out'[c]
  BY DEF Open, TypeOK
<1> QED
  BY <1>5, <1>6 DEF OverlapIsNoted

LEMMA StepNotesOverlap ==
  ASSUME TypeOK, OverlapIsNoted, NEW c \in Copies,
         Run(c) \/ Cancel(c) \/ Shrink \/ ConnectionLost
  PROVE  OverlapIsNoted'
<1>1. /\ \A d \in Copies : Ran(d)' => Ran(d)
      /\ \A d \in Copies \ {c} : at'[d] = at[d]
      /\ UNCHANGED <<upload, out, overlapped>>
  BY OnlyOpenStarts
<1>2. CASE UNCHANGED dest
  BY <1>1, <1>2 DEF OverlapIsNoted
<1>3. CASE Close(c)
  <2>1. ~Ran(c)'
    BY <1>3 DEF Close, Goto, TypeOK, Ran, Running
  <2>2. Ran(c)
    BY <1>3 DEF Close, Ran, Running
  <2>3. \A d \in Copies : Ran(d)' => d \in overlapped'
    BY <1>1, <2>1, <2>2 DEF OverlapIsNoted
  <2> QED
    BY <2>3 DEF OverlapIsNoted
<1>4. UNCHANGED dest \/ Close(c)
  BY DEF Run, DownloadTop, UploadTop, Serial, ChunkRead, ChunkWritten, Cancel,
         Shrink, ConnectionLost, files
<1> QED
  BY <1>2, <1>3, <1>4

-----------------------------------------------------------------------------
(* No chunk is skipped.                                                    *)

Accounted(c) ==
  \A k \in Offsets : k < next[c] =>
    k \in inflight[c] \/ data[out[c]][k] = c \/ k >= source

LEMMA TopsAccount ==
  ASSUME TypeOK, NEW c \in Copies, Accounted(c), DownloadTop(c) \/ UploadTop(c)
  PROVE  Accounted(c)'
<1>1. UNCHANGED <<data, out, source>>
  BY DEF DownloadTop, UploadTop, files
<1>2. CASE UNCHANGED <<inflight, next>>
  BY <1>1, <1>2 DEF Accounted
<1>3. ASSUME NEW end \in 0..Length, TopUp(c, end)
      PROVE  Accounted(c)'
  <2>1. /\ inflight[c] \subseteq inflight'[c]
        /\ \A k \in Offsets : next[c] <= k /\ k < next'[c] => k \in inflight'[c]
    BY <1>3, TopUpFacts
  <2>2. next[c] \in Int /\ \A k \in Offsets : k \in Int
    BY LimitsAssumption DEF TypeOK, Offsets
  <2> QED
    BY <1>1, <2>1, <2>2 DEF Accounted
<1>4. total[c] \in 0..Length /\ source \in 0..Length
  BY DEF TypeOK
<1> QED
  BY <1>2, <1>3, <1>4 DEF DownloadTop, UploadTop

LEMMA ChunksAccount ==
  ASSUME TypeOK, NEW c \in Copies, Accounted(c), ~err'[c],
         NEW i \in Offsets, ChunkRead(c, i) \/ ChunkWritten(c, i)
  PROVE  Accounted(c)'
<1>1. /\ inflight' = [inflight EXCEPT ![c] = @ \ {i}]
      /\ UNCHANGED <<next, out, source>>
  BY DEF ChunkRead, ChunkWritten
<1>2. inflight'[c] = inflight[c] \ {i}
  BY <1>1 DEF TypeOK
<1>3. ~Broken(c)
  BY DEF Broken, TypeOK
<1>4. CASE Write(c, i)
  <2>1. out[c] \in Files /\ data \in [Files -> [Offsets -> Files \cup {"hole"}]]
    BY DEF TypeOK
  <2>2. data'[out[c]] = [data[out[c]] EXCEPT ![i] = c]
    BY <1>4, <2>1 DEF Write
  <2>3. \A k \in Offsets : data'[out[c]][k] = IF k = i THEN c ELSE data[out[c]][k]
    BY <2>1, <2>2
  <2> QED
    BY <1>1, <1>2, <2>3 DEF Accounted
<1>5. CASE i >= source /\ UNCHANGED data
  BY <1>1, <1>2, <1>5 DEF Accounted
<1> QED
  BY <1>3, <1>4, <1>5 DEF ChunkRead, ChunkWritten

LEMMA SerialAccounts ==
  ASSUME TypeOK, NEW c \in Copies, Accounted(c), Serial(c)
  PROVE  Accounted(c)'
<1>1. UNCHANGED <<inflight, out, source>>
  BY DEF Serial
<1>2. CASE UNCHANGED <<data, next>>
  BY <1>1, <1>2 DEF Accounted
<1>3. CASE /\ next[c] < source /\ Write(c, next[c])
           /\ next' = [next EXCEPT ![c] = @ + 1]
  <2>1. out[c] \in Files /\ data \in [Files -> [Offsets -> Files \cup {"hole"}]]
    BY DEF TypeOK
  <2>2. data'[out[c]] = [data[out[c]] EXCEPT ![next[c]] = c]
    BY <1>3, <2>1 DEF Write
  <2>3. \A k \in Offsets : data'[out[c]][k] = IF k = next[c] THEN c ELSE data[out[c]][k]
    BY <2>1, <2>2
  <2>4. next'[c] = next[c] + 1 /\ next[c] \in Int /\ \A k \in Offsets : k \in Int
    BY <1>3, LimitsAssumption DEF TypeOK, Offsets
  <2>5. \A k \in Offsets : k < next'[c] => k < next[c] \/ k = next[c]
    BY <2>4
  <2> QED
    BY <1>1, <2>3, <2>5 DEF Accounted
<1> QED
  BY <1>2, <1>3 DEF Serial

LEMMA RunSkipsNothing ==
  ASSUME TypeOK, OverlapIsNoted, NoChunkIsSkipped, NEW c \in Copies, Run(c)
  PROVE  NoChunkIsSkipped'
<1> SUFFICES ASSUME NEW d \in Copies, Ran(d)', d \notin overlapped', ~err'[d]
             PROVE  Accounted(d)'
  BY DEF NoChunkIsSkipped, Accounted
<1>1. Ran(c)
  BY DEF Run, DownloadTop, UploadTop, Serial, Close, ChunkRead, ChunkWritten,
         Ran, Running
<1>2. Ran(d) /\ d \notin overlapped
  BY OnlyOpenStarts
<1>3. d = c
  BY <1>1, <1>2, AloneWhenNotNoted
<1>4. ~err[c]
  <2>1. err'[c] = err[c] \/ err'[c] = TRUE
    BY DEF Run, DownloadTop, UploadTop, Serial, Close, ChunkRead, ChunkWritten,
           Broken, TypeOK
  <2> QED
    BY <1>3, <2>1 DEF TypeOK
<1>5. Accounted(c)
  BY <1>2, <1>3, <1>4 DEF NoChunkIsSkipped, Accounted
<1>6. ~Close(c)
  BY <1>3 DEF Close, Goto, TypeOK, Ran, Running
<1> QED
  BY <1>3, <1>5, <1>6, TopsAccount, ChunksAccount, SerialAccounts DEF Run

LEMMA StepSkipsNothing ==
  ASSUME TypeOK, OverlapIsNoted, NoChunkIsSkipped, NothingIsLeftOut, [Next]_vars
  PROVE  NoChunkIsSkipped'
<1>1. CASE UNCHANGED vars \/ ConnectionLost \/ \E c \in Copies : Cancel(c)
  BY <1>1 DEF vars, files, ConnectionLost, Cancel, NoChunkIsSkipped, Ran
<1>2. CASE Shrink
  <2>1. source' <= source /\ source \in Int /\ source' \in Int
    BY <1>2 DEF Shrink, TypeOK
  <2>2. \A k \in Offsets : k \in Int
    BY LimitsAssumption DEF Offsets
  <2>3. \A k \in Offsets : k >= source => k >= source'
    BY <2>1, <2>2
  <2>4. UNCHANGED <<at, overlapped, err, next, inflight, data, out>>
    BY <1>2 DEF Shrink
  <2> QED
    BY <2>3, <2>4 DEF NoChunkIsSkipped, Ran
<1>3. ASSUME NEW c \in Copies, NEW known \in BOOLEAN, Open(c, known)
      PROVE  NoChunkIsSkipped'
  <2>1. \A d \in Copies \ {c} : Ran(d)' => d \in overlapped'
    BY <1>3, OpenNotesOverlap
  <2>2. next'[c] = 0
    BY <1>3 DEF Open, NothingIsLeftOut
  <2>3. \A k \in Offsets : ~(k < 0)
    BY LimitsAssumption DEF Offsets
  <2> QED
    BY <2>1, <2>2, <2>3 DEF NoChunkIsSkipped
<1> QED
  BY <1>1, <1>2, <1>3, RunSkipsNothing DEF Next

-----------------------------------------------------------------------------
(* Nothing is left out.                                                    *)

Thorough(c) ==
  /\ at[c] = "idle" => next[c] = 0 /\ ~eof[c]
  /\ at[c] \in {"idle", "serial"} => inflight[c] = {}
  /\ ~upload /\ at[c] \in {"top", "await"} => total[c] >= source
  /\ Ran(c) /\ eof[c] /\ ~err[c] /\ ~cancelled[c] => next[c] >= source
  /\ at[c] = "closing" /\ ~err[c] /\ ~cancelled[c] =>
       inflight[c] = {} /\ next[c] >= source

LEMMA DownloadTopIsThorough ==
  ASSUME TypeOK, NEW c \in Copies, Thorough(c), DownloadTop(c)
  PROVE  Thorough(c)'
<1>1. /\ at[c] = "top" /\ ~upload /\ UNCHANGED <<upload, source, total, eof, err>>
      /\ at'[c] = IF inflight'[c] = {} THEN "closing" ELSE "await"
      /\ cancelled'[c] = (cancelled[c] \/ flag[c])
  BY DEF DownloadTop, Goto, TypeOK, files
<1>2. total[c] >= source /\ total[c] \in 0..Length /\ source \in 0..Length
      /\ next[c] \in 0..Length /\ cancelled[c] \in BOOLEAN /\ flag[c] \in BOOLEAN
  BY <1>1 DEF Thorough, TypeOK
<1>3. CASE cancelled'[c] \/ err[c]
  BY <1>1, <1>2, <1>3 DEF Thorough
<1>4. CASE ~(cancelled'[c] \/ err[c])
  <2>1. TopUp(c, total[c])
    BY <1>4 DEF DownloadTop
  <2>2. /\ inflight'[c] = {} => next'[c] >= total[c]
        /\ next'[c] \in 0..Length
    BY <1>2, <2>1, TopUpFacts
  <2>3. next'[c] >= next[c]
    <3>1. To(c, total[c]) \in Int
      BY <1>2, InflightCounts, LimitsAssumption DEF To, Full
    <3>2. next'[c] = IF next[c] < To(c, total[c]) THEN To(c, total[c]) ELSE next[c]
      BY <2>1 DEF TopUp, TypeOK
    <3> QED
      BY <1>2, <3>1, <3>2
  <2>4. ~cancelled[c] /\ ~err[c]
    BY <1>1, <1>2, <1>4
  <2>5. eof[c] => next[c] >= source
    BY <1>1, <2>4 DEF Thorough, Ran, Running
  <2>6. eof'[c] => next'[c] >= source'
    BY <1>1, <1>2, <2>2, <2>3, <2>5
  <2>7. inflight'[c] = {} => next'[c] >= source'
    BY <1>1, <1>2, <2>2
  <2> QED
    BY <1>1, <1>2, <2>6, <2>7 DEF Thorough
<1> QED
  BY <1>3, <1>4

LEMMA UploadTopIsThorough ==
  ASSUME TypeOK, NEW c \in Copies, Thorough(c), UploadTop(c)
  PROVE  Thorough(c)'
<1>1. /\ at[c] = "top" /\ upload /\ UNCHANGED <<upload, source, total>>
      /\ at'[c] = IF inflight'[c] # {} THEN "await"
                  ELSE IF eof'[c] THEN "closing" ELSE "top"
      /\ cancelled'[c] = (cancelled[c] \/ flag[c])
  BY DEF UploadTop, Goto, TypeOK, files
<1> SUFFICES ASSUME eof'[c], ~err'[c], ~cancelled'[c]
             PROVE  next'[c] >= source'
  BY <1>1 DEF Thorough, Ran, Running
<1>2. /\ source \in 0..Length /\ cancelled[c] \in BOOLEAN /\ flag[c] \in BOOLEAN
      /\ eof[c] \in BOOLEAN /\ err[c] \in BOOLEAN
  BY DEF TypeOK
<1>3. ~cancelled[c]
  BY <1>1, <1>2
<1>4. UNCHANGED err
  BY DEF UploadTop, Broken, TypeOK
<1>5. ~err[c]
  BY <1>4
<1>6. CASE eof[c]
  <2>1. next[c] >= source
    BY <1>1, <1>3, <1>5, <1>6 DEF Thorough, Ran, Running
  <2>2. UNCHANGED next
    BY <1>6 DEF UploadTop
  <2> QED
    BY <1>1, <2>1, <2>2
<1>7. CASE ~eof[c]
  <2>1. TopUp(c, source)
    BY <1>7 DEF UploadTop
  <2>2. ~Broken(c)
    BY <1>2, <1>4, <1>5 DEF Broken, TypeOK
  <2>3. eof' = [eof EXCEPT ![c] = (eof[c] \/ cancelled'[c]) \/ next'[c] < Full(c)]
    BY <2>2 DEF UploadTop
  <2>4. eof'[c] = ((eof[c] \/ cancelled'[c]) \/ next'[c] < Full(c))
    BY <2>3 DEF TypeOK
  <2>5. next'[c] < Full(c)
    BY <1>7, <2>4
  <2> QED
    BY <1>1, <1>2, <2>1, <2>5, TopUpFacts
<1> QED
  BY <1>2, <1>6, <1>7

LEMMA RestIsThorough ==
  ASSUME TypeOK, NEW c \in Copies, Thorough(c),
         \/ Serial(c) \/ Close(c)
         \/ \E k \in Offsets : ChunkRead(c, k) \/ ChunkWritten(c, k)
  PROVE  Thorough(c)'
<1>1. /\ source \in 0..Length /\ next[c] \in 0..Length
      /\ err[c] \in BOOLEAN /\ eof[c] \in BOOLEAN /\ cancelled[c] \in BOOLEAN
  BY DEF TypeOK
<1>2. CASE Serial(c)
  <2>1. /\ at[c] = "serial" /\ inflight[c] = {}
        /\ UNCHANGED <<upload, source, total, inflight, eof>>
    BY <1>2 DEF Serial, Thorough
  <2>2. next'[c] = next[c] \/ next'[c] = next[c] + 1
    BY <1>2 DEF Serial, TypeOK
  <2>3. /\ err[c] => err'[c]
        /\ cancelled[c] => cancelled'[c]
    BY <1>2 DEF Serial, TypeOK, Broken
  <2>4. eof'[c] /\ ~err'[c] /\ ~cancelled'[c] => next'[c] >= source'
    BY <1>1, <2>1, <2>2, <2>3 DEF Thorough, Ran, Running
  <2>5. at'[c] \in {"serial", "closing", "returned"}
    BY <1>2, <2>1 DEF Serial, Goto, TypeOK
  <2>6. at'[c] = "closing" /\ ~err'[c] /\ ~cancelled'[c] => next'[c] >= source'
    BY <1>2, <2>1 DEF Serial, Goto, TypeOK, Broken
  <2> QED
    BY <2>1, <2>4, <2>5, <2>6 DEF Thorough
<1>3. CASE Close(c)
  BY <1>3 DEF Close, Goto, TypeOK, Thorough, Ran, Running
<1>4. ASSUME NEW k \in Offsets, ChunkRead(c, k)
      PROVE  Thorough(c)'
  <2>1. /\ at[c] = "await" /\ at'[c] = "top" /\ ~upload
        /\ UNCHANGED <<upload, source, total, next, eof, cancelled>>
        /\ err[c] => err'[c]
    BY <1>4 DEF ChunkRead, Goto, TypeOK, Broken
  <2> QED
    BY <2>1 DEF Thorough, Ran, Running
<1>5. ASSUME NEW k \in Offsets, ChunkWritten(c, k)
      PROVE  Thorough(c)'
  <2>1. /\ at[c] = "await" /\ upload
        /\ UNCHANGED <<upload, source, total, next, cancelled>>
        /\ at'[c] = IF err'[c] \/ (eof[c] /\ inflight'[c] = {}) THEN "closing"
                    ELSE "top"
    BY <1>5 DEF ChunkWritten, Goto, TypeOK
  <2>2. ~err'[c] => ~err[c] /\ eof'[c] = eof[c]
    BY <1>1, <1>5 DEF ChunkWritten, TypeOK, Broken
  <2> QED
    BY <2>1, <2>2 DEF Thorough, Ran, Running
<1> QED
  BY <1>2, <1>3, <1>4, <1>5

LEMMA StepIsThorough ==
  ASSUME TypeOK, NothingIsLeftOut, [Next]_vars
  PROVE  NothingIsLeftOut'
<1>1. \A d \in Copies : Thorough(d)
  BY DEF NothingIsLeftOut, Thorough
<1> SUFFICES ASSUME NEW d \in Copies
             PROVE  Thorough(d)'
  BY DEF NothingIsLeftOut, Thorough
<1>2. Thorough(d)
  BY <1>1
<1>3. CASE UNCHANGED vars \/ ConnectionLost \/ \E c \in Copies : Cancel(c)
  BY <1>2, <1>3 DEF vars, files, ConnectionLost, Cancel, Thorough, Ran
<1>4. CASE Shrink
  <2>1. source' <= source /\ source \in Int /\ source' \in Int
    BY <1>4 DEF Shrink, TypeOK
  <2>2. total[d] \in Int /\ next[d] \in Int
    BY DEF TypeOK
  <2>3. UNCHANGED <<upload, at, total, next, inflight, eof, err, cancelled>>
    BY <1>4 DEF Shrink
  <2> QED
    BY <1>2, <2>1, <2>2, <2>3 DEF Thorough, Ran
<1>5. ASSUME NEW c \in Copies, NEW known \in BOOLEAN, Open(c, known)
      PROVE  Thorough(d)'
  <2>1. CASE d = c
    <3>1. /\ at[c] = "idle" /\ next[c] = 0 /\ ~eof[c] /\ inflight[c] = {}
          /\ UNCHANGED <<upload, source, next, inflight, eof, err, cancelled>>
      BY <1>2, <1>5, <2>1 DEF Open, Thorough
    <3>2. at'[c] = IF upload \/ (known /\ source > 0) THEN "top" ELSE "serial"
      BY <1>5 DEF Open, Goto, TypeOK
    <3>3. known => total'[c] = source
      BY <1>5 DEF Open, TypeOK
    <3>4. source \in 0..Length
      BY DEF TypeOK
    <3> QED
      BY <2>1, <3>1, <3>2, <3>3, <3>4 DEF Thorough
  <2>2. CASE d # c
    <3>1. at'[d] = at[d] /\ total'[d] = total[d]
          /\ UNCHANGED <<upload, source, next, inflight, eof, err, cancelled>>
      BY <1>5, <2>2 DEF Open, Goto, TypeOK
    <3> QED
      BY <1>2, <3>1 DEF Thorough, Ran
  <2> QED
    BY <2>1, <2>2
<1>6. ASSUME NEW c \in Copies, Run(c), d # c
      PROVE  Thorough(d)'
  <2>1. /\ at'[d] = at[d] /\ next'[d] = next[d] /\ inflight'[d] = inflight[d]
        /\ eof'[d] = eof[d] /\ err'[d] = err[d] /\ cancelled'[d] = cancelled[d]
        /\ UNCHANGED <<upload, source, total>>
    <3>1. CASE DownloadTop(c) \/ UploadTop(c)
      BY <1>6, <3>1 DEF DownloadTop, UploadTop, TopUp, Goto, Broken, TypeOK, files
    <3>2. CASE Serial(c) \/ Close(c)
      BY <1>6, <3>2 DEF Serial, Close, Goto, Broken, TypeOK
    <3>3. CASE \E k \in Offsets : ChunkRead(c, k) \/ ChunkWritten(c, k)
      BY <1>6, <3>3 DEF ChunkRead, ChunkWritten, Goto, Broken, TypeOK
    <3> QED
      BY <1>6, <3>1, <3>2, <3>3 DEF Run
  <2> QED
    BY <1>2, <2>1 DEF Thorough, Ran
<1>7. CASE Run(d)
  BY <1>2, <1>7, DownloadTopIsThorough, UploadTopIsThorough, RestIsThorough DEF Run
<1> QED
  BY <1>3, <1>4, <1>5, <1>6, <1>7 DEF Next

-----------------------------------------------------------------------------
(* The invariant, and what follows from it.                                *)

LEMMA InitCopyInv == Init => CopyInv
<1> SUFFICES ASSUME Init
             PROVE  CopyInv
  OBVIOUS
<1>1. OverlapIsNoted
  BY DEF Init, OverlapIsNoted, Ran, Running
<1>2. NoChunkIsSkipped
  BY DEF Init, NoChunkIsSkipped, Ran, Running
<1>3. NothingIsLeftOut
  BY DEF Init, NothingIsLeftOut, Ran, Running
<1> QED
  BY <1>1, <1>2, <1>3, InitTypes DEF CopyInv

LEMMA StepCopyInv == CopyInv /\ [Next]_vars => CopyInv'
<1> SUFFICES ASSUME CopyInv, [Next]_vars
             PROVE  CopyInv'
  OBVIOUS
<1>1. TypeOK /\ OverlapIsNoted /\ NoChunkIsSkipped /\ NothingIsLeftOut
  BY DEF CopyInv
<1>2. OverlapIsNoted'
  <2>1. CASE UNCHANGED vars
    BY <1>1, <2>1 DEF vars, files, OverlapIsNoted, Ran
  <2>2. CASE Shrink \/ ConnectionLost
    BY <1>1, <2>2 DEF Shrink, ConnectionLost, OverlapIsNoted, Ran
  <2>3. ASSUME NEW c \in Copies, NEW known \in BOOLEAN, Open(c, known)
        PROVE  OverlapIsNoted'
    BY <1>1, <2>3, OpenNotesOverlap
  <2>4. ASSUME NEW c \in Copies, Run(c) \/ Cancel(c)
        PROVE  OverlapIsNoted'
    BY <1>1, <2>4, StepNotesOverlap
  <2> QED
    BY <2>1, <2>2, <2>3, <2>4 DEF Next
<1> QED
  BY <1>1, <1>2, StepTypes, StepSkipsNothing, StepIsThorough DEF CopyInv

(* For every pipeline: overlapping copies are noted, every chunk asked for *)
(* is accounted for, and a copy closes with nothing outstanding.           *)
THEOREM CopyInvHolds == Spec => []CopyInv
<1> QED
  BY InitCopyInv, StepCopyInv, PTL DEF Spec

(* A copy comes to one of the reported ends by its Close only. *)
LEMMA OnlyCloseEnds ==
  ASSUME TypeOK, Next, NEW c \in Copies, Ran(c),
         at'[c] \in {"done", "failed", "cancelled"}
  PROVE  Close(c)
<1>1. at[c] \in Running
  BY DEF Ran
<1>2. at'[c] # at[c]
  BY <1>1 DEF Running
<1>3. ~Shrink /\ ~ConnectionLost /\ \A d \in Copies : ~Cancel(d)
  BY <1>2 DEF Shrink, ConnectionLost, Cancel
<1>4. \A d \in Copies, known \in BOOLEAN : ~Open(d, known)
  BY <1>1, <1>2 DEF Open, Goto, TypeOK, Running
<1>5. Run(c)
  <2>1. PICK d \in Copies : Run(d)
    BY <1>3, <1>4 DEF Next
  <2>2. d = c
    BY <1>2, <2>1, OnlyOpenStarts
  <2> QED
    BY <2>1, <2>2
<1>6. ~DownloadTop(c) /\ ~UploadTop(c)
  BY DEF DownloadTop, UploadTop, Goto, TypeOK
<1>7. \A k \in Offsets : ~ChunkRead(c, k) /\ ~ChunkWritten(c, k)
  BY DEF ChunkRead, ChunkWritten, Goto, TypeOK
<1>8. ~Serial(c)
  BY <1>2 DEF Serial, Goto, TypeOK
<1> QED
  BY <1>5, <1>6, <1>7, <1>8 DEF Run

(* A copy that ran alone of a source that kept its length is done only     *)
(* when the whole of it is in place, for every width of the pipeline and   *)
(* every order in which the requests complete.                             *)
THEOREM DoneAloneIsWhole == Spec => DoneIsWhole
<1>1. ASSUME CopyInv, [Next]_vars, NEW c \in Copies,
             Ran(c), at'[c] = "done", c \notin overlapped, source = Length
      PROVE  Complete(c)'
  <2>1. TypeOK /\ OverlapIsNoted /\ NoChunkIsSkipped /\ NothingIsLeftOut
    BY <1>1 DEF CopyInv
  <2>2. Next
    <3>1. CASE UNCHANGED vars
      BY <1>1, <3>1 DEF vars, Ran, Running
    <3> QED
      BY <1>1, <3>1
  <2>3. Close(c)
    BY <1>1, <2>1, <2>2, OnlyCloseEnds
  <2>4. /\ at[c] = "closing" /\ ~err[c] /\ ~cancelled[c]
        /\ UNCHANGED <<dest, data, source, out>>
    BY <1>1, <2>1, <2>3 DEF Close, Goto, TypeOK
  <2>5. inflight[c] = {} /\ next[c] >= source
    BY <2>1, <2>4 DEF NothingIsLeftOut
  <2>6. dest = out[c]
    BY <1>1, <2>1 DEF OverlapIsNoted
  <2>7. \A k \in 0..(source - 1) : k \in Offsets /\ k < next[c] /\ ~(k >= source)
    BY <1>1, <2>1, <2>5, LimitsAssumption DEF TypeOK, Offsets
  <2>8. \A k \in 0..(source - 1) : data[dest][k] = c
    BY <1>1, <2>1, <2>4, <2>5, <2>6, <2>7 DEF NoChunkIsSkipped
  <2> QED
    BY <2>4, <2>6, <2>8 DEF Complete
<1>2. CopyInv /\ [Next]_vars =>
        [\A c \in Copies :
           Ran(c) /\ at'[c] = "done" /\ c \notin overlapped /\ source = Length
             => Complete(c)']_vars
  BY <1>1
<1> QED
  BY <1>2, CopyInvHolds, PTL DEF Spec, DoneIsWhole

(* With no copy under way the destination holds one whole file or nothing, *)
(* whatever failed or was cancelled before, as long as no two copies ran   *)
(* side by side, the source kept its length and no removal failed.         *)
THEOREM NoJunkIsLeft == Spec => []NoJunk
<1>1. Init => NoJunk
  <2> SUFFICES ASSUME Init, dest # "none"
               PROVE  \E w \in Files : \A k \in Offsets : data[dest][k] = w
    BY DEF NoJunk
  <2>1. dest = Old /\ Old \in Files /\ \A k \in Offsets : data[Old][k] = Old
    BY DEF Init, Files
  <2> QED
    BY <2>1
<1>2. CopyInv /\ NoJunk /\ [Next]_vars => NoJunk'
  <2> SUFFICES ASSUME CopyInv, NoJunk, [Next]_vars,
                      overlapped' = {}, unremoved' = {}, source' = Length,
                      dest' # "none",
                      \A c \in Copies : ~Ran(c)' /\ at'[c] # "returned"
               PROVE  \E w \in Files : \A k \in Offsets : data'[dest'][k] = w
    BY DEF NoJunk
  <2>1. TypeOK /\ OverlapIsNoted /\ NoChunkIsSkipped /\ NothingIsLeftOut
    BY DEF CopyInv
  <2>2. CASE UNCHANGED vars
    BY <2>2 DEF vars, files, NoJunk, Ran
  <2>3. CASE ConnectionLost \/ \E c \in Copies : Cancel(c)
    BY <2>3 DEF ConnectionLost, Cancel, files, NoJunk, Ran
  <2>4. CASE Shrink
    <3>1. source' \in 0..(source - 1) /\ source \in 0..Length /\ Length \in Nat
      BY <2>1, <2>4, LimitsAssumption DEF Shrink, TypeOK
    <3> QED
      BY <3>1
  <2>5. ASSUME NEW c \in Copies, NEW known \in BOOLEAN, Open(c, known)
        PROVE  FALSE
    BY <2>1, <2>5 DEF Open, Goto, TypeOK, Ran, Running
  <2>6. ASSUME NEW c \in Copies, Run(c)
        PROVE  \E w \in Files : \A k \in Offsets : data'[dest'][k] = w
    <3>1. Ran(c) /\ Next
      BY <2>6 DEF Next, Run, DownloadTop, UploadTop, Serial, Close, ChunkRead,
             ChunkWritten, Ran, Running
    <3>2. at'[c] \in {"done", "failed", "cancelled"}
      BY <2>1, <2>6, StepTypes DEF TypeOK, Ran, Ended, Running, Run, DownloadTop,
         UploadTop, Serial, Close, ChunkRead, ChunkWritten, Goto
    <3>3. Close(c)
      BY <2>1, <3>1, <3>2, OnlyCloseEnds
    <3>4. UNCHANGED <<data, source, conn, overlapped, upload, out>>
      BY <3>3 DEF Close
    <3>5. ~err[c] /\ ~cancelled[c] /\ at[c] = "closing" /\ UNCHANGED dest
      BY <3>3, <3>4 DEF Close, Remove
    <3>6. inflight[c] = {} /\ next[c] >= source
      BY <2>1, <3>5 DEF NothingIsLeftOut
    <3>7. dest = out[c] /\ c \notin overlapped
      BY <2>1, <3>1, <3>4 DEF OverlapIsNoted
    <3>8. \A k \in Offsets : k < next[c] /\ ~(k >= source)
      BY <2>1, <3>4, <3>6, LimitsAssumption DEF TypeOK, Offsets
    <3>9. \A k \in Offsets : data[dest][k] = c
      BY <2>1, <3>1, <3>5, <3>6, <3>7, <3>8 DEF NoChunkIsSkipped
    <3> QED
      BY <3>4, <3>5, <3>9 DEF Files
  <2> QED
    BY <2>2, <2>3, <2>4, <2>5, <2>6 DEF Next
<1> QED
  BY <1>1, <1>2, CopyInvHolds, PTL DEF Spec
=============================================================================
