------------------------ MODULE SftpTransfers_proofs ------------------------
(***************************************************************************)
(* What the rows of the transfers panel say, and what is left on the       *)
(* server, for any number of transfers and of commands and reports that    *)
(* wait; and, in the second half, that files edited with another program   *)
(* come home, for any number of workers, files, programs and watchers.     *)
(***************************************************************************)
EXTENDS SftpTransfers, EditWatch, TLAPS

Commands == [op : {"start", "cancel"}, job : Jobs] \cup [op : {"close"}]
Reports  == [job : Jobs, state : Active \cup Final]

LEMMA AppendFacts ==
  ASSUME NEW S, NEW q \in Seq(S), NEW e \in S
  PROVE  /\ Append(q, e) \in Seq(S) /\ Len(q) \in Nat
         /\ Len(Append(q, e)) = Len(q) + 1
         /\ \A i \in 1..Len(q) : Append(q, e)[i] = q[i]
         /\ Append(q, e)[Len(q) + 1] = e
OBVIOUS

LEMMA TailFacts ==
  ASSUME NEW S, NEW q \in Seq(S), q # <<>>
  PROVE  /\ Tail(q) \in Seq(S) /\ Head(q) \in S
         /\ Len(q) \in Nat /\ Len(q) >= 1 /\ Head(q) = q[1]
         /\ Len(Tail(q)) = Len(q) - 1
         /\ \A i \in 1..(Len(q) - 1) : Tail(q)[i] = q[i + 1]
OBVIOUS

LEMMA ElementFacts ==
  ASSUME NEW S, NEW q \in Seq(S)
  PROVE  Len(q) \in Nat /\ DOMAIN q = 1..Len(q) /\ \A i \in 1..Len(q) : q[i] \in S
OBVIOUS

-----------------------------------------------------------------------------
(* The inductive invariant.                                                *)

(* A job is asked for once, and waits as long as its command does: no      *)
(* transfer is started twice.                                              *)
StartsOnce ==
  \A i \in 1..Len(cmds) : cmds[i].op = "start" =>
    /\ task[cmds[i].job] = "asked"
    /\ \A k \in 1..Len(cmds) :
         cmds[k].op = "start" /\ cmds[k].job = cmds[i].job => k = i

(* What is on the server belongs to an archive that will be cleaned up, or *)
(* that the server would not remove.                                       *)
TempsAreOwned ==
  /\ \A j \in Jobs : task[j] = "packing" => kind[j] = "archive"
  /\ \A j \in temps : /\ kind[j] = "archive" /\ task[j] # "unused"
                      /\ conn => \/ task[j] \in {"packed", "moving", "cleaning"}
                                 \/ j \in refused

(* The flag is on file until the copy has ended, and the end is known.     *)
FlagsAreFiled ==
  \A j \in Jobs : kind[j] \in Whole =>
    /\ task[j] \in Moving => j \in registered
    /\ task[j] \in {"cleaning", "leaving", "over"} => outcome[j] # "none"

(* Nothing is reported of what has not begun.                              *)
QuietBefore ==
  \A j \in Jobs : task[j] \in {"unused", "asked"} => row[j] = "none" /\ ~Pending(j)

(* The last word on a job is h: in the reports, or once they have arrived  *)
(* in its row, unless that was cleared.                                    *)
LastSays(j, h) ==
  \/ ~Pending(j) /\ row[j] \in {h, "none"}
  \/ \E i \in 1..Len(events) :
       /\ events[i].job = j /\ events[i].state = h
       /\ \A k \in 1..Len(events) : events[k].job = j => k <= i

EndsAreTold ==
  \A j \in Jobs, h \in Final :
    /\ kind[j] \in Whole /\ outcome[j] = h
    /\ task[j] \in {"leaving", "over"} \/ (task[j] = "cleaning" /\ h # "failed")
    => LastSays(j, h)

Inv == TypeOK /\ StartsOnce /\ TempsAreOwned /\ FlagsAreFiled /\ QuietBefore /\ EndsAreTold

-----------------------------------------------------------------------------
(* Reports.                                                                *)
LEMMA ReportFacts ==
  ASSUME TypeOK, NEW k \in Jobs, NEW s \in Active \cup Final, Report(k, s), UNCHANGED row
  PROVE  /\ events' \in Seq(Reports)
         /\ \A j : Pending(j)' => Pending(j) \/ j = k
         /\ LastSays(k, s)'
         /\ \A j, h : j # k /\ LastSays(j, h) => LastSays(j, h)'
<1> DEFINE e == [job |-> k, state |-> s]
<1>1. e \in Reports /\ events \in Seq(Reports)
  BY DEF Reports, TypeOK
<1>2. e.job = k /\ e.state = s
  OBVIOUS
<1>3. events' = Append(events, e)
  BY DEF Report
<1> HIDE DEF e
<1>4. /\ events' \in Seq(Reports) /\ Len(events) \in Nat
      /\ Len(events') = Len(events) + 1
      /\ \A i \in 1..Len(events) : events'[i] = events[i]
      /\ events'[Len(events) + 1] = e
  BY <1>1, <1>3, AppendFacts
<1>5. \A i \in 1..Len(events') : i \in 1..Len(events) \/ i = Len(events) + 1
  BY <1>4
<1>6. 1..Len(events) \subseteq 1..Len(events')
  BY <1>4
<1>7. \A j : Pending(j)' => Pending(j) \/ j = k
  BY <1>2, <1>4, <1>5 DEF Pending
<1>8. LastSays(k, s)'
  <2>1. Len(events) + 1 \in 1..Len(events')
    BY <1>4
  <2>2. \A i \in 1..Len(events') : i <= Len(events) + 1
    BY <1>4
  <2> QED BY <1>2, <1>4, <2>1, <2>2 DEF LastSays
<1>9. ASSUME NEW j, NEW h, j # k, LastSays(j, h)
      PROVE  LastSays(j, h)'
  <2>1. CASE ~Pending(j) /\ row[j] \in {h, "none"}
    BY <1>7, <1>9, <2>1 DEF LastSays
  <2>2. ASSUME NEW i \in 1..Len(events), events[i].job = j, events[i].state = h,
               \A n \in 1..Len(events) : events[n].job = j => n <= i
        PROVE  LastSays(j, h)'
    <3>1. i \in 1..Len(events') /\ events'[i] = events[i]
      BY <1>4, <1>6
    <3>2. \A n \in 1..Len(events') : events'[n].job = j => n <= i
      BY <1>2, <1>4, <1>5, <1>9, <2>2
    <3> QED BY <2>2, <3>1, <3>2 DEF LastSays
  <2> QED BY <1>9, <2>1, <2>2 DEF LastSays
<1> QED BY <1>4, <1>7, <1>8, <1>9

LEMMA ApplyFacts ==
  ASSUME TypeOK, ApplyTransfer
  PROVE  /\ events' \in Seq(Reports) /\ row' \in [Jobs -> Active \cup Final \cup {"none"}]
         /\ \A j \in Jobs : row'[j] # row[j] => Pending(j)
         /\ \A j : Pending(j)' => Pending(j)
         /\ \A j \in Jobs : \A h : LastSays(j, h) => LastSays(j, h)'
<1> DEFINE n == Len(events)
<1>1. events \in Seq(Reports) /\ events # <<>> /\ events' = Tail(events)
  BY DEF ApplyTransfer, Reports, TypeOK
<1>2. /\ events' \in Seq(Reports) /\ Head(events) \in Reports
      /\ n \in Nat /\ n >= 1 /\ Head(events) = events[1] /\ Len(events') = n - 1
      /\ \A i \in 1..(n - 1) : events'[i] = events[i + 1]
  BY <1>1, TailFacts
<1>3. /\ row' = [row EXCEPT ![events[1].job] = events[1].state]
      /\ events[1].job \in Jobs /\ events[1].state \in Active \cup Final
  BY <1>2 DEF ApplyTransfer, Reports
<1>4. \A i \in 1..Len(events') : i + 1 \in 1..n /\ events'[i] = events[i + 1] /\ i \in Int
  BY <1>2
<1>5. 1 \in 1..n /\ \A i \in 1..n : i # 1 => i - 1 \in 1..Len(events') /\ (i - 1) + 1 = i
  BY <1>2
<1>6. \A j : Pending(j)' => Pending(j)
  BY <1>4 DEF Pending
<1>7. \A j \in Jobs : row'[j] # row[j] => Pending(j)
  BY <1>3, <1>5 DEF Pending, TypeOK
<1>8. ASSUME NEW j \in Jobs, NEW h, LastSays(j, h)
      PROVE  LastSays(j, h)'
  <2>1. CASE ~Pending(j) /\ row[j] \in {h, "none"}
    BY <1>6, <1>7, <2>1 DEF LastSays
  <2>2. ASSUME NEW i \in 1..n, events[i].job = j, events[i].state = h,
               \A m \in 1..n : events[m].job = j => m <= i
        PROVE  LastSays(j, h)'
    <3>1. CASE i = 1
      <4>1. row'[j] = h
        BY <1>3, <2>2, <3>1 DEF TypeOK
      <4>2. \A m \in 1..Len(events') : events'[m].job # j
        BY <1>4, <2>2, <3>1
      <4> QED BY <4>1, <4>2 DEF LastSays, Pending
    <3>2. CASE i # 1
      <4>1. PICK p \in 1..Len(events') : p + 1 = i
        BY <1>5, <3>2
      <4>2. events'[p] = events[i]
        BY <1>4, <4>1
      <4>3. \A m \in 1..Len(events') : events'[m].job = j => m <= p
        BY <1>4, <2>2, <4>1
      <4> QED BY <2>2, <4>2, <4>3 DEF LastSays
    <3> QED BY <3>1, <3>2
  <2> QED BY <1>8, <2>1, <2>2 DEF LastSays
<1> QED BY <1>2, <1>3, <1>6, <1>7, <1>8 DEF TypeOK

(* Nothing is reported.                                                    *)
LEMMA SilentFacts ==
  ASSUME UNCHANGED events, NEW j, row'[j] \in {row[j], "none"}
  PROVE  /\ Pending(j)' <=> Pending(j)
         /\ \A h : LastSays(j, h) => LastSays(j, h)'
BY DEF Pending, LastSays

-----------------------------------------------------------------------------
(* Commands.                                                               *)
LEMMA CmdTypes ==
  ASSUME TypeOK
  PROVE  /\ cmds \in Seq(Commands) /\ Len(cmds) \in Nat
         /\ \A i \in 1..Len(cmds) : cmds[i].op \in {"start", "cancel"} => cmds[i].job \in Jobs
<1>1. cmds \in Seq(Commands)
  BY DEF TypeOK, Commands
<1>2. Len(cmds) \in Nat /\ \A i \in 1..Len(cmds) : cmds[i] \in Commands
  BY <1>1, ElementFacts
<1>3. \A c \in Commands : c.op \in {"start", "cancel"} => c.job \in Jobs
  BY DEF Commands
<1> QED BY <1>1, <1>2, <1>3

LEMMA StartsKept ==
  ASSUME TypeOK, StartsOnce, UNCHANGED cmds,
         \A j \in Jobs : task[j] = "asked" => task'[j] = "asked"
  PROVE  StartsOnce'
BY CmdTypes DEF StartsOnce

LEMMA StartsAppend ==
  ASSUME TypeOK, StartsOnce, NEW c \in Commands, cmds' = Append(cmds, c),
         \A j \in Jobs : task[j] = "asked" => task'[j] = "asked",
         c.op = "start" => task[c.job] # "asked" /\ task'[c.job] = "asked"
  PROVE  StartsOnce' /\ cmds' \in Seq(Commands)
<1>1. cmds \in Seq(Commands)
  BY CmdTypes
<1>2. /\ cmds' \in Seq(Commands) /\ Len(cmds) \in Nat /\ Len(cmds') = Len(cmds) + 1
      /\ \A i \in 1..Len(cmds) : cmds'[i] = cmds[i]
      /\ cmds'[Len(cmds) + 1] = c
  BY <1>1, AppendFacts
<1>3. \A i \in 1..Len(cmds') : i \in 1..Len(cmds) \/ i = Len(cmds) + 1
  BY <1>2
<1>4. ASSUME NEW i \in 1..Len(cmds'), cmds'[i].op = "start"
      PROVE  /\ task'[cmds'[i].job] = "asked"
             /\ \A k \in 1..Len(cmds') :
                  cmds'[k].op = "start" /\ cmds'[k].job = cmds'[i].job => k = i
  <2>1. CASE i \in 1..Len(cmds)
    <3>1. cmds'[i] = cmds[i] /\ task[cmds[i].job] = "asked" /\ cmds[i].job \in Jobs
      BY <1>2, <1>4, <2>1, CmdTypes DEF StartsOnce
    <3>2. ASSUME NEW k \in 1..Len(cmds'), cmds'[k].op = "start", cmds'[k].job = cmds'[i].job
          PROVE  k = i
      <4>1. CASE k \in 1..Len(cmds)
        BY <1>2, <1>4, <2>1, <3>1, <3>2, <4>1 DEF StartsOnce
      <4>2. CASE k = Len(cmds) + 1
        BY <1>2, <3>1, <3>2, <4>2
      <4> QED BY <1>3, <4>1, <4>2
    <3> QED BY <3>1, <3>2
  <2>2. CASE i = Len(cmds) + 1
    <3>1. cmds'[i] = c /\ task[c.job] # "asked" /\ task'[c.job] = "asked"
      BY <1>2, <1>4, <2>2
    <3>2. \A k \in 1..Len(cmds) : cmds'[k].op = "start" => cmds'[k].job # c.job
      BY <1>2, <3>1 DEF StartsOnce
    <3> QED BY <1>3, <2>2, <3>1, <3>2
  <2> QED BY <1>3, <2>1, <2>2
<1>5. StartsOnce'
  BY <1>4 DEF StartsOnce
<1> QED BY <1>2, <1>5

(* A command is taken; if it starts a transfer, no other one does.         *)
LEMMA StartsTaken ==
  ASSUME TypeOK, StartsOnce, cmds # <<>>, cmds' = Tail(cmds),
         \A j \in Jobs : task[j] = "asked" /\ ~(Head(cmds).op = "start" /\ Head(cmds).job = j)
                         => task'[j] = "asked"
  PROVE  StartsOnce' /\ cmds' \in Seq(Commands)
<1> DEFINE n == Len(cmds)
<1>1. cmds \in Seq(Commands)
  BY CmdTypes
<1>2. /\ cmds' \in Seq(Commands) /\ n \in Nat /\ n >= 1 /\ Head(cmds) = cmds[1]
      /\ Len(cmds') = n - 1 /\ \A i \in 1..(n - 1) : cmds'[i] = cmds[i + 1]
  BY <1>1, TailFacts
<1>3. \A i \in 1..Len(cmds') : /\ i + 1 \in 1..n /\ i + 1 # 1
                               /\ cmds'[i] = cmds[i + 1] /\ i \in Int
  BY <1>2
<1>4. 1 \in 1..n
  BY <1>2
<1>5. ASSUME NEW i \in 1..Len(cmds'), cmds'[i].op = "start"
      PROVE  /\ task'[cmds'[i].job] = "asked"
             /\ \A k \in 1..Len(cmds') :
                  cmds'[k].op = "start" /\ cmds'[k].job = cmds'[i].job => k = i
  <2>1. PICK p \in 1..n : p = i + 1 /\ p # 1 /\ cmds'[i] = cmds[p]
    BY <1>3
  <2>2. cmds[p].op = "start" /\ cmds[p].job \in Jobs
    BY <1>5, <2>1, CmdTypes
  <2>3. task[cmds[p].job] = "asked"
    BY <2>2 DEF StartsOnce
  <2>4. ~(Head(cmds).op = "start" /\ Head(cmds).job = cmds[p].job)
    BY <1>2, <1>4, <2>1, <2>2 DEF StartsOnce
  <2>5. ASSUME NEW k \in 1..Len(cmds'), cmds'[k].op = "start", cmds'[k].job = cmds'[i].job
        PROVE  k = i
    <3>1. PICK q \in 1..n : q = k + 1 /\ cmds'[k] = cmds[q]
      BY <1>3
    <3>2. q = p
      BY <2>1, <2>2, <2>5, <3>1 DEF StartsOnce
    <3> QED BY <1>3, <2>1, <3>1, <3>2
  <2> QED BY <2>1, <2>2, <2>3, <2>4, <2>5
<1>6. StartsOnce'
  BY <1>5 DEF StartsOnce
<1> QED BY <1>2, <1>6

-----------------------------------------------------------------------------
(* A step of transfer k, to phase s: what it has to see to.                *)
LEMMA TransferStep ==
  ASSUME Inv, NEW k \in Jobs, NEW s \in Alive \cup {"over"}, task[k] \in Alive,
         Goto(k, s), UNCHANGED <<kind, row, held, cmds, conn>>,
         UNCHANGED events \/ \E st \in Active \cup Final : Report(k, st),
         UNCHANGED outcome \/ \E how \in Final : Ends(k, how),
         registered' \subseteq registered, registered \ {k} \subseteq registered',
         flagged' \subseteq flagged, loop' \in {loop, "ready"},
         temps' \subseteq temps \cup {k},
         refused \subseteq refused', refused' \subseteq refused \cup Jobs,
         s = "packing" => kind[k] = "archive",
         k \in temps' => /\ kind[k] = "archive"
                         /\ conn => \/ s \in {"packed", "moving", "cleaning"}
                                    \/ k \in refused',
         kind[k] \in Whole => /\ s \in Moving => k \in registered'
                              /\ s \in {"cleaning", "leaving", "over"} => outcome'[k] # "none",
         \A h \in Final :
           /\ kind[k] \in Whole /\ outcome'[k] = h
           /\ s \in {"leaving", "over"} \/ (s = "cleaning" /\ h # "failed")
           => LastSays(k, h)'
  PROVE  Inv'
<1>0. TypeOK
  BY DEF Inv
<1>1. /\ task'[k] = s /\ \A j \in Jobs \ {k} : task'[j] = task[j]
      /\ task' \in [Jobs -> Alive \cup {"unused", "asked", "over"}]
  BY <1>0 DEF Goto, TypeOK
<1>2. /\ \A j \in Jobs \ {k} : outcome'[j] = outcome[j]
      /\ outcome' \in [Jobs -> Final \cup {"none"}]
  BY <1>0 DEF Ends, TypeOK
<1>3. task[k] \notin {"unused", "asked"} /\ s \notin {"unused", "asked"}
  BY DEF Alive, Moving
<1>4. /\ events' \in Seq(Reports)
      /\ \A j \in Jobs \ {k} : Pending(j)' => Pending(j)
      /\ \A j \in Jobs \ {k} : \A h : LastSays(j, h) => LastSays(j, h)'
  <2>1. CASE UNCHANGED events
    <3>1. \A j : row'[j] \in {row[j], "none"}
      OBVIOUS
    <3>2. \A j : Pending(j)' <=> Pending(j)
      BY <2>1 DEF Pending
    <3>3. \A j, h : LastSays(j, h) => LastSays(j, h)'
      BY <2>1, <3>1, SilentFacts
    <3> QED BY <1>0, <2>1, <3>2, <3>3 DEF TypeOK, Reports
  <2>2. CASE \E st \in Active \cup Final : Report(k, st)
    <3>1. PICK st \in Active \cup Final : Report(k, st)
      BY <2>2
    <3> QED BY <1>0, <3>1, ReportFacts
  <2> QED BY <2>1, <2>2
<1>5. TypeOK'
  BY <1>0, <1>1, <1>2, <1>4 DEF TypeOK, Reports
<1>6. StartsOnce'
  <2>1. \A j \in Jobs : task[j] = "asked" => task'[j] = "asked"
    BY <1>1, <1>3
  <2> QED BY <1>0, <2>1, StartsKept DEF Inv
<1>7. TempsAreOwned'
  <2>1. \A j \in Jobs : task'[j] = "packing" => kind'[j] = "archive"
    BY <1>1 DEF Inv, TempsAreOwned
  <2>2. ASSUME NEW j \in temps'
        PROVE  /\ kind'[j] = "archive" /\ task'[j] # "unused"
               /\ conn' => task'[j] \in {"packed", "moving", "cleaning"} \/ j \in refused'
    <3>1. CASE j = k
      BY <1>1, <1>3, <2>2, <3>1
    <3>2. CASE j # k
      <4>1. j \in temps /\ j \in Jobs \ {k}
        BY <1>0, <2>2, <3>2 DEF TypeOK
      <4> QED BY <1>1, <4>1 DEF Inv, TempsAreOwned
    <3> QED BY <3>1, <3>2
  <2> QED BY <2>1, <2>2 DEF TempsAreOwned
<1>8. FlagsAreFiled'
  <2> SUFFICES ASSUME NEW j \in Jobs, kind[j] \in Whole
               PROVE  /\ task'[j] \in Moving => j \in registered'
                      /\ task'[j] \in {"cleaning", "leaving", "over"} => outcome'[j] # "none"
    BY DEF FlagsAreFiled
  <2>1. CASE j = k
    BY <1>1, <2>1
  <2>2. CASE j # k
    BY <1>1, <1>2, <2>2 DEF Inv, FlagsAreFiled
  <2> QED BY <2>1, <2>2
<1>9. QuietBefore'
  BY <1>1, <1>3, <1>4 DEF Inv, QuietBefore
<1>10. EndsAreTold'
  <2> SUFFICES ASSUME NEW j \in Jobs, NEW h \in Final, kind[j] \in Whole, outcome'[j] = h,
                      task'[j] \in {"leaving", "over"} \/ (task'[j] = "cleaning" /\ h # "failed")
               PROVE  LastSays(j, h)'
    BY DEF EndsAreTold
  <2>1. CASE j = k
    BY <1>1, <2>1
  <2>2. CASE j # k
    BY <1>1, <1>2, <1>4, <2>2 DEF Inv, EndsAreTold
  <2> QED BY <2>1, <2>2
<1> QED BY <1>5, <1>6, <1>7, <1>8, <1>9, <1>10 DEF Inv

LEMMA AroundStep ==
  ASSUME Inv, NEW j \in Jobs, Around(j)
  PROVE  Inv'
<1>0. TypeOK
  BY DEF Inv
<1> USE DEF Alive, Moving
<1>1. CASE StartPacking(j)
  <2>1. /\ task[j] = "starting" /\ kind[j] = "archive" /\ Goto(j, "packing")
        /\ Report(j, "preparing") /\ UNCHANGED <<workerVars, uiVars, outcome, cmds>>
    BY <1>1 DEF StartPacking
  <2>2. "preparing" \in Active \cup Final
    BY DEF Active
  <2>3. j \in registered
    BY <2>1 DEF Inv, FlagsAreFiled, Whole
  <2>4. conn /\ j \in temps => j \in refused
    BY <2>1 DEF Inv, TempsAreOwned
  <2> QED BY <2>1, <2>2, <2>3, <2>4, TransferStep DEF workerVars, uiVars
<1>2. CASE PackEnds(j)
  <2>1. /\ task[j] = "packing" /\ kind[j] = "archive"
        /\ UNCHANGED <<uiVars, registered, flagged, refused, loop, conn, cmds, events>>
    BY <1>2 DEF PackEnds, Inv, TempsAreOwned
  <2>2. j \in registered
    BY <2>1 DEF Inv, FlagsAreFiled, Whole
  <2>3. CASE conn /\ Goto(j, "packed") /\ temps' = temps \cup {j} /\ UNCHANGED outcome
    BY <2>1, <2>2, <2>3, TransferStep DEF uiVars
  <2>4. CASE /\ Goto(j, "cleaning") /\ Ends(j, "failed")
             /\ temps' \in {temps, temps \cup {j}}
    <3>1. outcome'[j] = "failed" /\ "failed" \in Final
      BY <1>0, <2>4 DEF Ends, TypeOK, Final
    <3> QED BY <2>1, <2>4, <3>1, TransferStep DEF uiVars
  <2> QED BY <1>2, <2>3, <2>4 DEF PackEnds
<1>3. CASE StartMoving(j)
  <2>1. /\ task[j] \in {"starting", "packed"} /\ Goto(j, "moving")
        /\ Report(j, "active") /\ UNCHANGED <<workerVars, uiVars, outcome, cmds>>
    BY <1>3 DEF StartMoving
  <2>2. "active" \in Active \cup Final
    BY DEF Active
  <2>3. kind[j] \in Whole => j \in registered
    BY <2>1 DEF Inv, FlagsAreFiled
  <2>4. j \in temps => kind[j] = "archive"
    BY DEF Inv, TempsAreOwned
  <2> QED BY <2>1, <2>2, <2>3, <2>4, TransferStep DEF workerVars, uiVars
<1>4. CASE SkipEmptyFolder(j)
  <2>1. /\ task[j] = "starting" /\ kind[j] = "emptyFolder" /\ Goto(j, "over")
        /\ Ends(j, "done") /\ UNCHANGED <<workerVars, uiVars, cmds, events>>
    BY <1>4 DEF SkipEmptyFolder
  <2>2. kind[j] \notin Whole /\ "done" \in Final
    BY <2>1 DEF Whole, Final
  <2>3. j \notin temps
    BY <2>1 DEF Inv, TempsAreOwned
  <2> QED BY <2>1, <2>2, <2>3, TransferStep DEF workerVars, uiVars
<1>5. CASE CleanUp(j)
  <2>1. /\ task[j] = "cleaning" /\ Goto(j, "leaving")
        /\ RemoveArchive(j)
        /\ IF outcome[j] = "failed" THEN Report(j, "failed") ELSE UNCHANGED events
        /\ UNCHANGED <<uiVars, registered, flagged, loop, conn, outcome, cmds>>
    BY <1>5 DEF CleanUp
  <2>2. "failed" \in Final
    BY DEF Final
  <2>3. /\ temps' \subseteq temps /\ refused \subseteq refused' /\ refused' \subseteq refused \cup Jobs
        /\ j \in temps' => kind[j] = "archive" /\ (conn => j \in refused')
    BY <1>0, <2>1 DEF Inv, TempsAreOwned, RemoveArchive, TypeOK
  <2>4. kind[j] \in Whole => outcome'[j] # "none"
    BY <2>1 DEF Inv, FlagsAreFiled
  <2>5. ASSUME NEW h \in Final, kind[j] \in Whole, outcome'[j] = h
        PROVE  LastSays(j, h)'
    <3>1. CASE h = "failed"
      BY <1>0, <2>1, <2>2, <2>5, <3>1, ReportFacts DEF uiVars
    <3>2. CASE h # "failed"
      <4>1. LastSays(j, h)
        BY <2>1, <2>5, <3>2 DEF Inv, EndsAreTold
      <4> QED BY <2>1, <2>5, <3>2, <4>1, SilentFacts DEF uiVars
    <3> QED BY <3>1, <3>2
  <2> QED BY <2>1, <2>2, <2>3, <2>4, <2>5, TransferStep DEF uiVars
<1>6. CASE Leave(j)
  <2>1. /\ task[j] = "leaving" /\ Goto(j, "over")
        /\ registered' = registered \ {j} /\ flagged' = flagged \ {j}
        /\ loop' \in {loop, "ready"}
        /\ UNCHANGED <<uiVars, temps, refused, conn, outcome, cmds, events>>
    BY <1>6 DEF Leave
  <2>2. j \in temps => kind[j] = "archive" /\ (conn => j \in refused)
    BY <2>1 DEF Inv, TempsAreOwned
  <2>3. kind[j] \in Whole => outcome'[j] # "none"
    BY <2>1 DEF Inv, FlagsAreFiled
  <2>4. ASSUME NEW h \in Final, kind[j] \in Whole, outcome'[j] = h
        PROVE  LastSays(j, h)'
    <3>1. LastSays(j, h)
      BY <2>1, <2>4 DEF Inv, EndsAreTold
    <3> QED BY <2>1, <3>1, SilentFacts DEF uiVars
  <2> QED BY <2>1, <2>2, <2>3, <2>4, TransferStep DEF uiVars
<1> QED BY <1>1, <1>2, <1>3, <1>4, <1>5, <1>6 DEF Around

(* A copy ends, with or without a report of it.                            *)
LEMMA CopyEnds ==
  ASSUME Inv, NEW j \in Jobs, NEW how \in Final,
         task[j] \in {"starting", "packed", "moving"},
         task[j] = "starting" => kind[j] # "archive",
         Goto(j, AfterMoving(j)), Ends(j, how),
         \/ Report(j, how)
         \/ UNCHANGED events /\ how = "failed" /\ kind[j] # "file",
         UNCHANGED <<workerVars, uiVars, cmds>>
  PROVE  Inv'
<1>0. TypeOK
  BY DEF Inv
<1>1. task[j] \in Alive /\ outcome'[j] = how /\ how # "none"
  BY <1>0 DEF Ends, TypeOK, Alive, Moving, Final
<1>2. j \in temps => kind[j] = "archive"
  BY DEF Inv, TempsAreOwned
<1>3. Report(j, how) => LastSays(j, how)'
  BY <1>0, ReportFacts DEF uiVars
<1>4. CASE kind[j] = "archive"
  <2>1. Goto(j, "cleaning")
    BY <1>4 DEF AfterMoving
  <2>2. "cleaning" \in Alive /\ "cleaning" \notin Moving
    BY DEF Alive, Moving
  <2> QED BY <1>1, <1>2, <1>3, <1>4, <2>1, <2>2, TransferStep DEF workerVars, uiVars
<1>5. CASE kind[j] # "archive"
  <2>1. Goto(j, "leaving")
    BY <1>5 DEF AfterMoving
  <2>2. "leaving" \in Alive /\ "leaving" \notin Moving
    BY DEF Alive, Moving
  <2>3. kind[j] \in Whole => Report(j, how)
    BY <1>5 DEF Whole
  <2> QED BY <1>1, <1>2, <1>3, <1>5, <2>1, <2>2, <2>3, TransferStep DEF workerVars, uiVars
<1> QED BY <1>4, <1>5

LEMMA CopyStep ==
  ASSUME Inv, NEW j \in Jobs, Copy(j)
  PROVE  Inv'
<1>0. TypeOK
  BY DEF Inv
<1>1. CASE Progress(j)
  <2>1. /\ task[j] = "moving" /\ Report(j, "active")
        /\ UNCHANGED <<workerVars, uiVars, task, outcome, cmds>>
    BY <1>1 DEF Progress
  <2>2. Goto(j, "moving")
    BY <1>0, <2>1 DEF Goto, TypeOK
  <2>3. "active" \in Active \cup Final /\ "moving" \in Alive
    BY DEF Active, Alive, Moving
  <2>4. kind[j] \in Whole => j \in registered
    BY <2>1 DEF Inv, FlagsAreFiled, Moving
  <2>5. j \in temps => kind[j] = "archive"
    BY DEF Inv, TempsAreOwned
  <2> QED BY <2>1, <2>2, <2>3, <2>4, <2>5, TransferStep DEF workerVars, uiVars
<1>2. CASE Complete(j)
  BY <1>2, CopyEnds DEF Complete, Final
<1>3. CASE SeeCancel(j)
  BY <1>3, CopyEnds DEF SeeCancel, Final
<1>4. CASE Fail(j)
  BY <1>4, CopyEnds DEF Fail, Final
<1> QED BY <1>1, <1>2, <1>3, <1>4 DEF Copy

-----------------------------------------------------------------------------
(* Nothing moves but commands, rows that are cleared and the connection.   *)
LEMMA CalmStep ==
  ASSUME Inv, TypeOK', StartsOnce',
         UNCHANGED <<kind, task, outcome, registered, temps, refused, events>>,
         conn' => conn, \A j \in Jobs : row'[j] \in {row[j], "none"}
  PROVE  Inv'
<1>1. TempsAreOwned' /\ FlagsAreFiled'
  BY DEF Inv, TempsAreOwned, FlagsAreFiled
<1>2. QuietBefore'
  BY SilentFacts DEF Inv, QuietBefore
<1>3. EndsAreTold'
  <2> SUFFICES ASSUME NEW j \in Jobs, NEW h \in Final, kind[j] \in Whole, outcome[j] = h,
                      task[j] \in {"leaving", "over"} \/ (task[j] = "cleaning" /\ h # "failed")
               PROVE  LastSays(j, h)'
    BY DEF EndsAreTold
  <2>1. LastSays(j, h)
    BY DEF Inv, EndsAreTold
  <2> QED BY <2>1, SilentFacts
<1> QED BY <1>1, <1>2, <1>3 DEF Inv

LEMMA UIStep ==
  ASSUME Inv, UI
  PROVE  Inv'
<1>0. TypeOK /\ StartsOnce
  BY DEF Inv
<1>1. ASSUME NEW j \in Jobs, NEW k \in Asked[j], Request(j, k)
      PROVE  Inv'
  <2> DEFINE c == [op |-> "start", job |-> j]
  <2>1. /\ task[j] = "unused" /\ kind' = [kind EXCEPT ![j] = k]
        /\ task' = [task EXCEPT ![j] = "asked"] /\ cmds' = Append(cmds, c)
        /\ UNCHANGED <<workerVars, outcome, events, row, held>>
    BY <1>1 DEF Request
  <2>2. c \in Commands /\ c.op = "start" /\ c.job = j
    BY DEF Commands
  <2> HIDE DEF c
  <2>3. task'[j] = "asked" /\ \A i \in Jobs : task[i] = "asked" => task'[i] = "asked"
    BY <1>0, <2>1 DEF TypeOK
  <2>4. StartsOnce' /\ cmds' \in Seq(Commands)
    BY <1>0, <2>1, <2>2, <2>3, StartsAppend
  <2>5. k \in Kinds
    BY AskedAssumption
  <2>6. TypeOK'
    BY <1>0, <2>1, <2>4, <2>5 DEF TypeOK, Commands, workerVars
  <2>7. \A i \in Jobs \ {j} : task'[i] = task[i] /\ kind'[i] = kind[i]
    BY <1>0, <2>1 DEF TypeOK
  <2>8. j \notin temps
    BY <2>1 DEF Inv, TempsAreOwned
  <2>9. TempsAreOwned'
    <3>1. \A i \in temps : i \in Jobs \ {j}
      BY <1>0, <2>8 DEF TypeOK
    <3>2. \A i \in temps' : /\ kind'[i] = "archive" /\ task'[i] # "unused"
                            /\ conn' => \/ task'[i] \in {"packed", "moving", "cleaning"}
                                        \/ i \in refused'
      BY <2>1, <2>7, <3>1 DEF Inv, TempsAreOwned, workerVars
    <3>3. \A i \in Jobs : task'[i] = "packing" => kind'[i] = "archive"
      BY <2>3, <2>7 DEF Inv, TempsAreOwned
    <3> QED BY <3>2, <3>3 DEF TempsAreOwned
  <2>10. FlagsAreFiled'
    BY <2>1, <2>3, <2>7 DEF Inv, FlagsAreFiled, Moving, workerVars
  <2>11. QuietBefore'
    BY <2>1, <2>7 DEF Inv, QuietBefore, Pending
  <2>12. EndsAreTold'
    <3> SUFFICES ASSUME NEW i \in Jobs, NEW h \in Final, kind'[i] \in Whole, outcome'[i] = h,
                        task'[i] \in {"leaving", "over"} \/ (task'[i] = "cleaning" /\ h # "failed")
                 PROVE  LastSays(i, h)'
      BY DEF EndsAreTold
    <3>1. i # j
      BY <2>3
    <3>2. LastSays(i, h)
      BY <2>1, <2>7, <3>1 DEF Inv, EndsAreTold
    <3>3. UNCHANGED events /\ row'[i] \in {row[i], "none"}
      BY <2>1
    <3> QED BY <3>2, <3>3, SilentFacts
  <2> QED BY <2>4, <2>6, <2>9, <2>10, <2>11, <2>12 DEF Inv
<1>2. ASSUME NEW j \in Jobs, CancelTransfer(j)
      PROVE  Inv'
  <2> DEFINE c == [op |-> "cancel", job |-> j]
  <2>1. cmds' = Append(cmds, c) /\ UNCHANGED <<workerVars, uiVars, task, outcome, events>>
    BY <1>2 DEF CancelTransfer
  <2>2. c \in Commands /\ c.op # "start"
    BY DEF Commands
  <2> HIDE DEF c
  <2>3. StartsOnce' /\ cmds' \in Seq(Commands)
    BY <1>0, <2>1, <2>2, StartsAppend
  <2>4. TypeOK'
    BY <1>0, <2>1, <2>3 DEF TypeOK, Commands, workerVars, uiVars
  <2> QED BY <2>1, <2>3, <2>4, CalmStep DEF workerVars, uiVars
<1>3. CASE ClearTransfers
  <2>1. /\ \A j \in Jobs : row'[j] = "none"
        /\ row' \in [Jobs -> Active \cup Final \cup {"none"}]
        /\ UNCHANGED <<workerVars, kind, held, task, outcome, cmds, events>>
    BY <1>3 DEF ClearTransfers
  <2>2. TypeOK' /\ StartsOnce'
    BY <1>0, <2>1, StartsKept DEF TypeOK, workerVars
  <2> QED BY <2>1, <2>2, CalmStep DEF workerVars
<1>4. CASE Release
  <2> DEFINE c == [op |-> "close"]
  <2>1. /\ held' = FALSE /\ cmds' = Append(cmds, c)
        /\ UNCHANGED <<workerVars, kind, row, task, outcome, events>>
    BY <1>4 DEF Release
  <2>2. c \in Commands /\ c.op # "start"
    BY DEF Commands
  <2> HIDE DEF c
  <2>3. StartsOnce' /\ cmds' \in Seq(Commands)
    BY <1>0, <2>1, <2>2, StartsAppend
  <2>4. TypeOK'
    BY <1>0, <2>1, <2>3 DEF TypeOK, Commands, workerVars
  <2> QED BY <2>1, <2>3, <2>4, CalmStep DEF workerVars
<1> QED BY <1>1, <1>2, <1>3, <1>4 DEF UI

(* The loop starts a transfer, which waited for that and has no row yet.   *)
LEMMA StartStep ==
  ASSUME Inv, NEW j \in Jobs, NextIs("start"), Head(cmds).job = j,
         task' = [task EXCEPT ![j] = "starting"], cmds' = Tail(cmds),
         registered' \in {registered, registered \cup {j}},
         kind[j] \in Whole => j \in registered',
         loop' \in {loop, "opening"},
         UNCHANGED <<uiVars, flagged, temps, refused, conn, outcome, events>>
  PROVE  Inv'
<1>0. TypeOK /\ StartsOnce
  BY DEF Inv
<1>1. cmds # <<>> /\ Head(cmds).op = "start"
  BY DEF NextIs
<1>2. task'[j] = "starting" /\ \A i \in Jobs \ {j} : task'[i] = task[i]
  BY <1>0 DEF TypeOK
<1>3. task[j] = "asked"
  <2>1. Head(cmds) = cmds[1] /\ 1 \in 1..Len(cmds)
    BY <1>0, <1>1, CmdTypes, TailFacts
  <2> QED BY <1>0, <1>1, <2>1 DEF StartsOnce
<1>4. StartsOnce' /\ cmds' \in Seq(Commands)
  BY <1>0, <1>1, <1>2, StartsTaken
<1>5. TypeOK'
  BY <1>0, <1>4 DEF TypeOK, Commands, uiVars, Alive, Moving
<1>6. TempsAreOwned'
  <2>1. j \in temps => kind[j] = "archive" /\ (conn => j \in refused)
    BY <1>3 DEF Inv, TempsAreOwned
  <2>2. temps \subseteq Jobs
    BY <1>0 DEF TypeOK
  <2> QED BY <1>2, <2>1, <2>2 DEF Inv, TempsAreOwned, uiVars
<1>7. FlagsAreFiled'
  BY <1>2 DEF Inv, FlagsAreFiled, uiVars
<1>8. QuietBefore'
  BY <1>2 DEF Inv, QuietBefore, Pending, uiVars
<1>9. EndsAreTold'
  <2> SUFFICES ASSUME NEW i \in Jobs, NEW h \in Final, kind[i] \in Whole, outcome[i] = h,
                      task'[i] \in {"leaving", "over"} \/ (task'[i] = "cleaning" /\ h # "failed")
               PROVE  LastSays(i, h)'
    BY DEF EndsAreTold, uiVars
  <2>1. LastSays(i, h)
    BY <1>2 DEF Inv, EndsAreTold
  <2>2. UNCHANGED events /\ row'[i] \in {row[i], "none"}
    BY DEF uiVars
  <2> QED BY <2>1, <2>2, SilentFacts
<1> QED BY <1>4, <1>5, <1>6, <1>7, <1>8, <1>9 DEF Inv

LEMMA LoopStep ==
  ASSUME Inv, TakeCommand
  PROVE  Inv'
<1>0. TypeOK /\ StartsOnce
  BY DEF Inv
<1>1. ASSUME NEW j \in Jobs, TakeTransfer(j)
      PROVE  Inv'
  BY <1>1, StartStep DEF TakeTransfer
<1>2. ASSUME NEW j \in Jobs, TakeOpenTemp(j)
      PROVE  Inv'
  BY <1>2, StartStep DEF TakeOpenTemp, Whole
<1>3. CASE TakeCancel
  <2>1. /\ cmds # <<>> /\ Head(cmds).op = "cancel" /\ cmds' = Tail(cmds)
        /\ flagged' \subseteq flagged \cup registered
        /\ UNCHANGED <<uiVars, registered, temps, refused, loop, conn, task, outcome, events>>
    BY <1>3 DEF TakeCancel, NextIs
  <2>2. StartsOnce' /\ cmds' \in Seq(Commands)
    BY <1>0, <2>1, StartsTaken
  <2>3. TypeOK'
    BY <1>0, <2>1, <2>2 DEF TypeOK, Commands, uiVars
  <2> QED BY <2>1, <2>2, <2>3, CalmStep DEF uiVars
<1>4. CASE TakeClose
  <2>1. /\ loop' = "ended" /\ conn' = FALSE /\ cmds' = <<>>
        /\ UNCHANGED <<uiVars, registered, flagged, temps, refused, task, outcome, events>>
    BY <1>4 DEF TakeClose
  <2>2. Len(cmds') = 0
    BY <2>1
  <2>3. StartsOnce'
    BY <2>2 DEF StartsOnce
  <2>4. TypeOK'
    <3>1. cmds' \in Seq(Commands)
      BY <2>1
    <3> QED BY <1>0, <2>1, <3>1 DEF TypeOK, Commands, uiVars
  <2> QED BY <2>1, <2>3, <2>4, CalmStep DEF uiVars
<1> QED BY <1>1, <1>2, <1>3, <1>4 DEF TakeCommand

LEMMA ApplyStep ==
  ASSUME Inv, ApplyTransfer
  PROVE  Inv'
<1>0. TypeOK /\ StartsOnce
  BY DEF Inv
<1>1. UNCHANGED <<workerVars, kind, held, task, outcome, cmds>>
  BY DEF ApplyTransfer
<1>2. TypeOK' /\ StartsOnce'
  BY <1>0, <1>1, ApplyFacts, StartsKept DEF TypeOK, Reports, workerVars
<1>3. TempsAreOwned' /\ FlagsAreFiled'
  BY <1>1 DEF Inv, TempsAreOwned, FlagsAreFiled, workerVars
<1>4. QuietBefore'
  BY <1>0, <1>1, ApplyFacts DEF Inv, QuietBefore
<1>5. EndsAreTold'
  <2> SUFFICES ASSUME NEW j \in Jobs, NEW h \in Final, kind[j] \in Whole, outcome[j] = h,
                      task[j] \in {"leaving", "over"} \/ (task[j] = "cleaning" /\ h # "failed")
               PROVE  LastSays(j, h)'
    BY <1>1 DEF EndsAreTold
  <2>1. LastSays(j, h)
    BY DEF Inv, EndsAreTold
  <2> QED BY <1>0, <2>1, ApplyFacts
<1> QED BY <1>2, <1>3, <1>4, <1>5 DEF Inv

-----------------------------------------------------------------------------
LEMMA InitInv == Init => Inv
<1> SUFFICES ASSUME Init PROVE Inv
  OBVIOUS
<1>1. Len(cmds) = 0 /\ Len(events) = 0
  BY DEF Init
<1>2. StartsOnce /\ \A j : ~Pending(j)
  BY <1>1 DEF StartsOnce, Pending
<1>3. TypeOK
  BY DEF Init, TypeOK
<1>4. QuietBefore
  BY <1>2 DEF Init, QuietBefore
<1>5. TempsAreOwned /\ FlagsAreFiled /\ EndsAreTold
  BY DEF Init, TempsAreOwned, FlagsAreFiled, EndsAreTold, Whole
<1> QED BY <1>2, <1>3, <1>4, <1>5 DEF Inv

LEMMA StepInv == Inv /\ [Next]_vars => Inv'
<1> SUFFICES ASSUME Inv, [Next]_vars PROVE Inv'
  OBVIOUS
<1>0. TypeOK /\ StartsOnce
  BY DEF Inv
<1>1. CASE ConnectionLost
  <2>1. conn' = FALSE /\ UNCHANGED <<uiVars, registered, flagged, temps, refused, loop, task,
                                     outcome, cmds, events>>
    BY <1>1 DEF ConnectionLost
  <2>2. TypeOK' /\ StartsOnce'
    BY <1>0, <2>1, StartsKept DEF TypeOK, uiVars
  <2> QED BY <2>1, <2>2, CalmStep DEF uiVars
<1>2. CASE UNCHANGED vars
  <2>1. TypeOK' /\ StartsOnce'
    BY <1>0, <1>2, StartsKept DEF TypeOK, vars
  <2> QED BY <1>2, <2>1, CalmStep DEF vars
<1> QED
  BY <1>1, <1>2, UIStep, LoopStep, ApplyStep, AroundStep, CopyStep DEF Next

LEMMA InvHolds == Spec => []Inv
BY InitInv, StepInv, PTL DEF Spec

(* Every variable keeps its type.                                          *)
THEOREM TypeCorrect == Spec => []TypeOK
<1>1. Inv => TypeOK
  BY DEF Inv
<1> QED BY <1>1, InvHolds, PTL

(* The rows can be believed and acted upon, for any number of transfers    *)
(* and whatever waits: once its reports have arrived, the row of a file or *)
(* an archive says how the transfer ended, and while it says "under way"   *)
(* the flag of the transfer is on file, unless the copy has just ended.    *)
THEOREM RowsAreAlwaysTrue == Spec => []RowsAreTrue
<1>1. Inv => RowsAreTrue
  <2> SUFFICES ASSUME Inv PROVE RowsAreTrue
    OBVIOUS
  <2>0. TypeOK
    BY DEF Inv
  <2>1. RowsTellTheOutcome
    <3> SUFFICES ASSUME NEW j \in Jobs, kind[j] \in Whole, task[j] = "over", ~Pending(j)
                 PROVE  row[j] \in {outcome[j], "none"}
      BY DEF RowsTellTheOutcome
    <3>1. outcome[j] \in Final
      BY <2>0 DEF Inv, FlagsAreFiled, TypeOK
    <3>2. LastSays(j, outcome[j])
      BY <3>1 DEF Inv, EndsAreTold
    <3> QED BY <3>2 DEF LastSays, Pending
  <2>2. ActiveRowsCanBeCancelled
    <3> SUFFICES ASSUME NEW j \in Jobs, row[j] \in Active, kind[j] \in Whole
                 PROVE  j \in registered \/ outcome[j] # "none"
      BY DEF ActiveRowsCanBeCancelled
    <3>1. row[j] # "none"
      BY DEF Active
    <3>2. task[j] \in Moving \cup {"cleaning", "leaving", "over"}
      BY <2>0, <3>1 DEF Inv, QuietBefore, TypeOK, Alive
    <3> QED BY <3>2 DEF Inv, FlagsAreFiled
  <2> QED BY <2>1, <2>2 DEF RowsAreTrue
<1> QED BY <1>1, InvHolds, PTL

(* However packing, moving and cleaning end, an archive whose task is over *)
(* is gone from the server, unless the connection went first or the server *)
(* would not remove it.                                                    *)
THEOREM ArchivesAreAlwaysRemoved == Spec => []ArchivesAreRemoved
<1>1. Inv => ArchivesAreRemoved
  BY DEF Inv, TempsAreOwned, ArchivesAreRemoved
<1> QED BY <1>1, InvHolds, PTL

(***************************************************************************)
(* Files edited with another program.  A text that was saved before the    *)
(* eyes of a watcher, and not lost since, is on its way: a watcher has yet *)
(* to see it, an order to be taken, an upload to start; or it arrives: one *)
(* upload at most is writing, which will write, has or will have read this *)
(* text, and when there is none the file has it.  Orders and uploads bear  *)
(* the name of the copy, so that the invariant also says that those of a   *)
(* file that is alone are from its own copy.                               *)
(***************************************************************************)

\* Sequences that are joined, and a sequence without its i-th element.
LEMMA JoinFacts ==
  ASSUME NEW S, NEW a \in Seq(S), NEW b \in Seq(S)
  PROVE  /\ a \o b \in Seq(S) /\ Len(a \o b) = Len(a) + Len(b)
         /\ DOMAIN (a \o b) = 1 .. Len(a) + Len(b)
         /\ \A j \in 1 .. Len(a) + Len(b) :
              (a \o b)[j] = IF j <= Len(a) THEN a[j] ELSE b[j - Len(a)]
OBVIOUS

LEMMA RemoveFacts ==
  ASSUME NEW S, NEW q \in Seq(S), NEW i \in 1 .. Len(q)
  PROVE  /\ RemoveAt(q, i) \in Seq(S)
         /\ Len(q) \in Nat /\ DOMAIN q = 1 .. Len(q)
         /\ Len(RemoveAt(q, i)) = Len(q) - 1
         /\ DOMAIN RemoveAt(q, i) = 1 .. Len(q) - 1
         /\ \A j \in 1 .. Len(q) - 1 : RemoveAt(q, i)[j] = IF j < i THEN q[j] ELSE q[j + 1]
<1>1. PICK n \in Nat : n = Len(q) /\ DOMAIN q = 1 .. n  OBVIOUS
<1> DEFINE a == SubSeq(q, 1, i - 1)
           b == SubSeq(q, i + 1, n)
<1>2. i \in 1 .. n  BY <1>1
<1>3. a \in Seq(S) /\ Len(a) = i - 1 /\ \A j \in 1 .. i - 1 : a[j] = q[j]
  BY <1>1, <1>2
<1>4. b \in Seq(S) /\ Len(b) = n - i /\ \A j \in 1 .. n - i : b[j] = q[j + i]
  BY <1>1, <1>2
<1>5. RemoveAt(q, i) = a \o b  BY <1>1 DEF RemoveAt
<1> HIDE DEF a, b
<1>0. Len(a) + Len(b) = n - 1 /\ \A j \in Nat : j < i <=> j <= Len(a)
  BY <1>1, <1>2, <1>3, <1>4
<1>6. a \o b \in Seq(S) /\ Len(a \o b) = n - 1 /\ DOMAIN (a \o b) = 1 .. n - 1
  BY <1>0, <1>3, <1>4, JoinFacts
<1>7. \A j \in 1 .. n - 1 : (a \o b)[j] = IF j < i THEN a[j] ELSE b[j - (i - 1)]
  <2>1. \A j \in 1 .. n - 1 : (a \o b)[j] = IF j <= Len(a) THEN a[j] ELSE b[j - Len(a)]
    BY <1>0, <1>3, <1>4, JoinFacts
  <2> QED BY <2>1, <1>0, <1>3
<1>8. \A j \in 1 .. n - 1 : (a \o b)[j] = IF j < i THEN q[j] ELSE q[j + 1]
  <2> SUFFICES ASSUME NEW j \in 1 .. n - 1 PROVE (a \o b)[j] = IF j < i THEN q[j] ELSE q[j + 1]
    OBVIOUS
  <2>1. CASE j < i  BY <2>1, <1>1, <1>2, <1>3, <1>7
  <2>2. CASE ~(j < i)
    <3>1. j - (i - 1) \in 1 .. n - i /\ (j - (i - 1)) + i = j + 1  BY <2>2, <1>1, <1>2
    <3> QED BY <3>1, <2>2, <1>4, <1>7
  <2> QED BY <2>1, <2>2
<1> QED BY <1>1, <1>5, <1>6, <1>8

OpenOrders  == [op : {"open"}, file : Stored, edit : BOOLEAN]
SendOrders  == [op : {"upload"}, name : FileNames, dir : Dirs]
CloseOrders == [op : {"close"}]
Orders      == OpenOrders \cup SendOrders \cup CloseOrders
Texts       == [of : SUBSET Paths, n : Nat]
Watchers    == [stage : {"starting", "watching"}, editor : Editors, file : Paths, seen : BOOLEAN]
Uploads     == [editor : Editors, from : FileNames, stage : {"starting", "open", "read"},
                to : Paths, text : Texts]

EditTypeOK ==
  /\ remote \in [Paths -> Texts] /\ saved \in [Paths -> Texts]
  /\ copy \in [FileNames -> Texts]
  /\ programs \subseteq Stored /\ lost \subseteq Paths /\ closed \subseteq Editors
  /\ orders \in [Editors -> Seq(Orders)]
  /\ fetching \in [Editors -> {Nothing} \cup {<<o>> : o \in OpenOrders}]
  /\ watchers \in Seq(Watchers) /\ uploads \in Seq(Uploads)

LEMMA TextFacts ==
  /\ NoText \in Texts /\ CutText \in Texts /\ NoText # CutText
  /\ \A p \in Paths, n \in Nat : Text(p, n) \in Texts /\ Text(p, n).of = {p}
  /\ \A p \in Paths : LocalName(p) \in FileNames
  BY EditAssumption DEF Texts, NoText, CutText, Text, LocalName, Paths

LEMMA TouchedFacts ==
  ASSUME NEW ws \in Seq(Watchers), NEW n
  PROVE  /\ Touched(n, ws) \in Seq(Watchers)
         /\ DOMAIN Touched(n, ws) = DOMAIN ws
         /\ \A i \in DOMAIN ws :
              /\ Touched(n, ws)[i].stage = ws[i].stage
              /\ Touched(n, ws)[i].editor = ws[i].editor
              /\ Touched(n, ws)[i].file = ws[i].file
              /\ Touched(n, ws)[i].seen => ws[i].seen /\ LocalName(ws[i].file) # n
<1>1. Len(ws) \in Nat /\ DOMAIN ws = 1 .. Len(ws) /\ \A i \in DOMAIN ws : ws[i] \in Watchers
  OBVIOUS
<1>2. \A i \in DOMAIN ws : [ws[i] EXCEPT !.seen = @ /\ LocalName(ws[i].file) # n] \in Watchers
  BY <1>1 DEF Watchers
<1>3. Touched(n, ws) \in Seq(Watchers)
  BY <1>1, <1>2 DEF Touched
<1>4. \A i \in DOMAIN ws :
              /\ Touched(n, ws)[i].stage = ws[i].stage
              /\ Touched(n, ws)[i].editor = ws[i].editor
              /\ Touched(n, ws)[i].file = ws[i].file
              /\ Touched(n, ws)[i].seen => ws[i].seen /\ LocalName(ws[i].file) # n
  BY <1>1 DEF Touched, Watchers
<1> QED BY <1>3, <1>4 DEF Touched

\* What the loop takes from its orders.
LEMMA HeadFacts ==
  ASSUME EditTypeOK, NEW e \in Editors, NEW op, OrderIs(e, op), OrderTaken(e)
  PROVE  /\ orders' \in [Editors -> Seq(Orders)]
         /\ Head(orders[e]) \in Orders /\ Head(orders[e]).op = op
         /\ op = "open" => Head(orders[e]) \in OpenOrders
         /\ op = "upload" => Head(orders[e]) \in SendOrders
<1>1. orders[e] \in Seq(Orders) /\ orders[e] # <<>>  BY DEF EditTypeOK, OrderIs
<1>2. Tail(orders[e]) \in Seq(Orders) /\ Head(orders[e]) \in Orders  BY <1>1, TailFacts
<1>3. orders' \in [Editors -> Seq(Orders)]  BY <1>2 DEF EditTypeOK, OrderTaken
<1>4. Head(orders[e]).op = op  BY DEF OrderIs
<1> QED BY <1>2, <1>3, <1>4 DEF Orders, OpenOrders, SendOrders, CloseOrders

LEMMA OrderFacts ==
  ASSUME EditTypeOK, NEW e \in Editors, NEW o \in Orders, Order(e, o)
  PROVE  orders' \in [Editors -> Seq(Orders)]
<1>1. Append(orders[e], o) \in Seq(Orders)  BY AppendFacts DEF EditTypeOK
<1> QED BY <1>1 DEF EditTypeOK, Order

LEMMA EditTypesHold == EditInit => EditTypeOK
<1> SUFFICES ASSUME EditInit PROVE EditTypeOK  OBVIOUS
<1>1. remote \in [Paths -> Texts] /\ saved \in [Paths -> Texts] /\ copy \in [FileNames -> Texts]
  BY TextFacts DEF EditInit
<1>2. orders \in [Editors -> Seq(Orders)] /\ watchers \in Seq(Watchers) /\ uploads \in Seq(Uploads)
  BY DEF EditInit
<1> QED BY <1>1, <1>2 DEF EditInit, EditTypeOK

LEMMA EditTypesStay ==
  ASSUME EditTypeOK, [EditNext]_editVars
  PROVE  EditTypeOK'
<1> USE EditAssumption, TextFacts
<1>u. ASSUME UNCHANGED editVars PROVE EditTypeOK'
  BY <1>u DEF EditTypeOK, editVars, copies, tasks
<1>a. ASSUME NEW e \in Editors, NEW p \in Stored, NEW edit \in BOOLEAN, OpenExternally(e, p, edit)
      PROVE EditTypeOK'
  <2>1. [op |-> "open", file |-> p, edit |-> edit] \in Orders  BY DEF Orders, OpenOrders
  <2>2. orders' \in [Editors -> Seq(Orders)]  BY <1>a, <2>1, OrderFacts DEF OpenExternally
  <2> QED BY <1>a, <2>2 DEF EditTypeOK, OpenExternally, copies
<1>b. ASSUME NEW e \in Editors, CloseSftpOf(e) PROVE EditTypeOK'
  <2>1. [op |-> "close"] \in Orders  BY DEF Orders, CloseOrders
  <2>2. orders' \in [Editors -> Seq(Orders)]  BY <1>b, <2>1, OrderFacts DEF CloseSftpOf
  <2> QED BY <1>b, <2>2 DEF EditTypeOK, CloseSftpOf, copies
<1>c. ASSUME NEW e \in Editors, TakeOpenOrder(e) PROVE EditTypeOK'
  <2>0. OrderIs(e, "open") /\ OrderTaken(e)  BY <1>c DEF TakeOpenOrder
  <2>1. orders' \in [Editors -> Seq(Orders)] /\ Head(orders[e]) \in OpenOrders
    BY <2>0, HeadFacts
  <2>2. copy' \in [FileNames -> Texts]
    BY <1>c, <2>1 DEF TakeOpenOrder, EditTypeOK, Put, OpenOrders
  <2>3. watchers' \in Seq(Watchers)
    BY <1>c, TouchedFacts DEF TakeOpenOrder, EditTypeOK
  <2>4. fetching' \in [Editors -> {Nothing} \cup {<<o>> : o \in OpenOrders}]
    <3> DEFINE f == <<Head(orders[e])>>
    <3>1. f \in {Nothing} \cup {<<o>> : o \in OpenOrders}  BY <2>1
    <3>2. fetching' \in {fetching, [fetching EXCEPT ![e] = f]}  BY <1>c DEF TakeOpenOrder
    <3> HIDE DEF f
    <3> QED BY <3>1, <3>2 DEF EditTypeOK
  <2> QED BY <1>c, <2>1, <2>2, <2>3, <2>4 DEF TakeOpenOrder, EditTypeOK
<1>d. ASSUME NEW e \in Editors, Fetched(e) PROVE EditTypeOK'
  <2>1. PICK o \in OpenOrders : fetching[e] = <<o>>  BY <1>d DEF Fetched, EditTypeOK
  <2>2. fetching[e][1] = o /\ o.file \in Stored /\ o.file \in Paths  BY <2>1 DEF OpenOrders
  <2>3. copy' \in [FileNames -> Texts]
    BY <1>d, <2>2 DEF Fetched, EditTypeOK, Put
  <2>4. Touched(LocalName(o.file), watchers) \in Seq(Watchers)
    BY TouchedFacts DEF EditTypeOK
  <2>5. [stage |-> "starting", editor |-> e, file |-> o.file, seen |-> FALSE] \in Watchers
    BY <2>2 DEF Watchers
  <2>6. watchers' \in Seq(Watchers)
    BY <1>d, <2>2, <2>4, <2>5, AppendFacts DEF Fetched
  <2>7. fetching' \in [Editors -> {Nothing} \cup {<<x>> : x \in OpenOrders}]
    BY <1>d DEF Fetched, EditTypeOK
  <2>8. programs' \subseteq Stored /\ lost' \subseteq Paths
    BY <1>d, <2>2 DEF Fetched, EditTypeOK
  <2> QED BY <1>d, <2>3, <2>6, <2>7, <2>8 DEF Fetched, EditTypeOK
<1>e. ASSUME NEW e \in Editors, FetchFails(e) PROVE EditTypeOK'
  <2>1. PICK o \in OpenOrders : fetching[e] = <<o>>  BY <1>e DEF FetchFails, EditTypeOK
  <2>2. fetching[e][1] = o /\ o.file \in Stored /\ o.file \in Paths  BY <2>1 DEF OpenOrders
  <2>3. copy' \in [FileNames -> Texts]
    BY <1>e, <2>2 DEF FetchFails, EditTypeOK, Put
  <2>7. fetching' \in [Editors -> {Nothing} \cup {<<x>> : x \in OpenOrders}]
    BY <1>e DEF FetchFails, EditTypeOK
  <2> QED BY <1>e, <2>2, <2>3, <2>7 DEF FetchFails, EditTypeOK
<1>f. ASSUME NEW e \in Editors, TakeUploadOrder(e) PROVE EditTypeOK'
  <2>0. OrderIs(e, "upload") /\ OrderTaken(e)  BY <1>f DEF TakeUploadOrder
  <2>1. orders' \in [Editors -> Seq(Orders)] /\ Head(orders[e]) \in SendOrders
    BY <2>0, HeadFacts
  <2> DEFINE o == Head(orders[e])
             u == [editor |-> e, from |-> o.name, stage |-> "starting",
                   to |-> [dir |-> o.dir, name |-> o.name], text |-> NoText]
  <2>2. u \in Uploads  BY <2>1 DEF Uploads, SendOrders, Paths
  <2>3. uploads' = Append(uploads, u)  BY <1>f DEF TakeUploadOrder
  <2> HIDE DEF u
  <2>4. uploads' \in Seq(Uploads)
    BY <2>2, <2>3, AppendFacts DEF EditTypeOK
  <2> QED BY <1>f, <2>1, <2>4 DEF TakeUploadOrder, EditTypeOK, copies
<1>g. ASSUME NEW e \in Editors, TakeCloseOrder(e) PROVE EditTypeOK'
  <2>0. \A i \in DOMAIN watchers : watchers[i] \in Watchers  BY ElementFacts DEF EditTypeOK
  <2>1. \A i \in DOMAIN watchers : watchers[i].file \in Paths  BY <2>0 DEF Watchers
  <2>2. lost' \subseteq Paths
    BY <1>g, <2>1 DEF TakeCloseOrder, EditTypeOK
  <2>3. orders' \in [Editors -> Seq(Orders)] /\ closed' \subseteq Editors
    BY <1>g DEF TakeCloseOrder, EditTypeOK
  <2> QED BY <1>g, <2>2, <2>3 DEF TakeCloseOrder, EditTypeOK, copies
<1>h. ASSUME NEW p \in programs, Save(p) PROVE EditTypeOK'
  <2>1. PICK n \in 1 .. MaxSaves : /\ Put(LocalName(p), Text(p, n))
                                   /\ saved' = [saved EXCEPT ![p] = Text(p, n)]
    BY <1>h DEF Save
  <2>2. p \in Paths /\ n \in Nat  BY DEF EditTypeOK
  <2>3. copy' \in [FileNames -> Texts] /\ saved' \in [Paths -> Texts]
    BY <2>1, <2>2 DEF Put, EditTypeOK
  <2>4. watchers' \in Seq(Watchers)
    BY <1>h, TouchedFacts DEF Save, EditTypeOK
  <2> QED BY <1>h, <2>2, <2>3, <2>4 DEF Save, EditTypeOK
<1> DEFINE Changes(i, w) == watchers' = [watchers EXCEPT ![i] = w]
<1>w. ASSUME NEW i \in DOMAIN watchers, NEW w \in Watchers, Changes(i, w)
      PROVE  watchers' \in Seq(Watchers)
  BY <1>w DEF EditTypeOK
<1>x. \A i \in DOMAIN watchers : watchers[i] \in Watchers
  BY ElementFacts DEF EditTypeOK
<1>i. ASSUME NEW i \in DOMAIN watchers, StartWatching(i) PROVE EditTypeOK'
  <2>1. watchers' = [watchers EXCEPT ![i] = [watchers[i] EXCEPT !.stage = "watching",
                                              !.seen = copy[LocalName(watchers[i].file)] # NoText]]
    BY <1>i DEF StartWatching, EditTypeOK
  <2>2. [watchers[i] EXCEPT !.stage = "watching", !.seen = copy[LocalName(watchers[i].file)] # NoText]
          \in Watchers
    BY <1>x DEF Watchers
  <2>3. watchers' \in Seq(Watchers)  BY <2>1, <2>2, <1>w
  <2> QED BY <1>i, <2>3 DEF StartWatching, EditTypeOK, copies
<1>j. ASSUME NEW i \in DOMAIN watchers, Look(i) PROVE EditTypeOK'
  <2>1. watchers' = [watchers EXCEPT ![i] = [watchers[i] EXCEPT !.seen = TRUE]]
    BY <1>j DEF Look
  <2>2. [watchers[i] EXCEPT !.seen = TRUE] \in Watchers  BY <1>x DEF Watchers
  <2>3. watchers' \in Seq(Watchers)  BY <2>1, <2>2, <1>w
  <2>4. watchers[i].editor \in Editors /\ watchers[i].file \in Paths  BY <1>x DEF Watchers
  <2>5. [op |-> "upload", name |-> LocalName(watchers[i].file), dir |-> watchers[i].file.dir] \in Orders
    BY <2>4 DEF Orders, SendOrders, Paths
  <2>6. orders' \in [Editors -> Seq(Orders)]  BY <1>j, <2>4, <2>5, OrderFacts DEF Look
  <2> QED BY <1>j, <2>3, <2>6 DEF Look, EditTypeOK, copies
<1>k. ASSUME NEW i \in DOMAIN watchers, StopWatching(i) PROVE EditTypeOK'
  <2>1. watchers' \in Seq(Watchers)  BY <1>k, RemoveFacts DEF StopWatching, EditTypeOK
  <2>2. watchers[i].file \in Paths  BY <1>x DEF Watchers
  <2> QED BY <1>k, <2>1, <2>2 DEF StopWatching, EditTypeOK, copies
<1>y. \A k \in DOMAIN uploads : uploads[k] \in Uploads
  BY ElementFacts DEF EditTypeOK
<1>z. ASSUME NEW k \in DOMAIN uploads, NEW u \in Uploads, uploads' = [uploads EXCEPT ![k] = u]
      PROVE  uploads' \in Seq(Uploads)
  BY <1>z DEF EditTypeOK
<1>l. ASSUME NEW k \in DOMAIN uploads, UploadOpens(k) PROVE EditTypeOK'
  <2>1. uploads' = [uploads EXCEPT ![k] = [uploads[k] EXCEPT !.stage = "open"]]
    BY <1>l DEF UploadOpens
  <2>2. [uploads[k] EXCEPT !.stage = "open"] \in Uploads  BY <1>y DEF Uploads
  <2>3. uploads' \in Seq(Uploads)  BY <2>1, <2>2, <1>z
  <2>4. uploads[k].to \in Paths  BY <1>y DEF Uploads
  <2> QED BY <1>l, <2>3, <2>4 DEF UploadOpens, EditTypeOK
<1>m. ASSUME NEW k \in DOMAIN uploads, UploadReads(k) PROVE EditTypeOK'
  <2>1. PICK t \in Texts : uploads' = [uploads EXCEPT ![k] = [uploads[k] EXCEPT !.stage = "read", !.text = t]]
    <3>1. copy[uploads[k].from] \in Texts  BY <1>y DEF Uploads, EditTypeOK
    <3> DEFINE t == IF copy[uploads[k].from] = NoText THEN CutText ELSE copy[uploads[k].from]
    <3>2. t \in Texts  BY <3>1
    <3>3. uploads' = [uploads EXCEPT ![k] = [uploads[k] EXCEPT !.stage = "read", !.text = t]]
      BY <1>m DEF UploadReads, EditTypeOK
    <3> QED BY <3>2, <3>3
  <2>2. [uploads[k] EXCEPT !.stage = "read", !.text = t] \in Uploads  BY <1>y DEF Uploads
  <2>3. uploads' \in Seq(Uploads)  BY <2>1, <2>2, <1>z
  <2> QED BY <1>m, <2>3 DEF UploadReads, EditTypeOK, copies
<1>n. ASSUME NEW k \in DOMAIN uploads, UploadWrites(k) PROVE EditTypeOK'
  <2>1. uploads' \in Seq(Uploads)  BY <1>n, RemoveFacts DEF UploadWrites, EditTypeOK
  <2>2. uploads[k].text \in Texts  BY <1>y DEF Uploads
  <2>3. remote' \in [Paths -> Texts]  BY <1>n, <2>2 DEF UploadWrites, EditTypeOK
  <2> QED BY <1>n, <2>1, <2>3 DEF UploadWrites, EditTypeOK
<1>o. ASSUME NEW k \in DOMAIN uploads, UploadFails(k) PROVE EditTypeOK'
  <2>1. uploads' \in Seq(Uploads)  BY <1>o, RemoveFacts DEF UploadFails, EditTypeOK
  <2>2. uploads[k].to \in Paths  BY <1>y DEF Uploads
  <2>3. remote' \in [Paths -> Texts]  BY <1>o DEF UploadFails, EditTypeOK
  <2> QED BY <1>o, <2>1, <2>2, <2>3 DEF UploadFails, EditTypeOK
<1> HIDE DEF Changes
<1> QED BY <1>u, <1>a, <1>b, <1>c, <1>d, <1>e, <1>f, <1>g, <1>h, <1>i, <1>j, <1>k, <1>l, <1>m, <1>n, <1>o
        DEF EditNext

-----------------------------------------------------------------------------
LEMMA TailElements ==
  ASSUME NEW S, NEW q \in Seq(S), q # <<>>
  PROVE  /\ \A i \in DOMAIN Tail(q) : \E j \in DOMAIN q : Tail(q)[i] = q[j]
         /\ \A j \in DOMAIN q : q[j] = Head(q) \/ \E i \in DOMAIN Tail(q) : Tail(q)[i] = q[j]
<1>1. PICK n \in Nat : n = Len(q) /\ DOMAIN q = 1 .. n /\ n >= 1  OBVIOUS
<1>2. DOMAIN Tail(q) = 1 .. n - 1 /\ Head(q) = q[1]  BY <1>1
<1>3. \A i \in 1 .. n - 1 : Tail(q)[i] = q[i + 1]  BY <1>1
<1>4. ASSUME NEW j \in 1 .. n, j # 1
      PROVE  j - 1 \in 1 .. n - 1 /\ Tail(q)[j - 1] = q[j]
  <2>1. j - 1 \in 1 .. n - 1 /\ (j - 1) + 1 = j  BY <1>4
  <2> QED BY <2>1, <1>3
<1>5. \A i \in 1 .. n - 1 : i + 1 \in 1 .. n  OBVIOUS
<1> QED BY <1>1, <1>2, <1>3, <1>4, <1>5

LEMMA AppendElements ==
  ASSUME NEW S, NEW q \in Seq(S), NEW e \in S
  PROVE  /\ \A i \in DOMAIN Append(q, e) : Append(q, e)[i] = e \/ \E j \in DOMAIN q : Append(q, e)[i] = q[j]
         /\ \A j \in DOMAIN q : j \in DOMAIN Append(q, e) /\ Append(q, e)[j] = q[j]
         /\ \E i \in DOMAIN Append(q, e) : Append(q, e)[i] = e
<1>1. PICK n \in Nat : n = Len(q) /\ DOMAIN q = 1 .. n  OBVIOUS
<1>2. DOMAIN Append(q, e) = 1 .. n + 1  BY <1>1
<1>3. \A i \in 1 .. n : Append(q, e)[i] = q[i]  BY <1>1
<1>4. Append(q, e)[n + 1] = e  BY <1>1
<1>5. \A i \in 1 .. n + 1 : i = n + 1 \/ i \in 1 .. n  OBVIOUS
<1> QED BY <1>1, <1>2, <1>3, <1>4, <1>5

LEMMA AppendedIsThere ==
  ASSUME NEW S, NEW q \in Seq(S), NEW e \in S, NEW r, r = Append(q, e)
  PROVE  \E i \in DOMAIN r : r[i] = e
  BY AppendElements

\* The place that the j-th element had before the i-th was taken out.
Past(i, j) == IF j < i THEN j ELSE j + 1

LEMMA RemoveElements ==
  ASSUME NEW S, NEW q \in Seq(S), NEW i \in DOMAIN q
  PROVE  /\ \A j \in DOMAIN RemoveAt(q, i) :
              Past(i, j) \in DOMAIN q \ {i} /\ RemoveAt(q, i)[j] = q[Past(i, j)]
         /\ \A j, k \in DOMAIN RemoveAt(q, i) : Past(i, j) = Past(i, k) => j = k
         /\ \A k \in DOMAIN q \ {i} : \E j \in DOMAIN RemoveAt(q, i) : Past(i, j) = k
<1>1. PICK n \in Nat : n = Len(q) /\ DOMAIN q = 1 .. n  OBVIOUS
<1>2. i \in 1 .. n  BY <1>1
<1>3. DOMAIN RemoveAt(q, i) = 1 .. n - 1  BY <1>1, <1>2, RemoveFacts
<1>4. \A j \in 1 .. n - 1 : RemoveAt(q, i)[j] = IF j < i THEN q[j] ELSE q[j + 1]
  BY <1>1, <1>2, RemoveFacts
<1>5. \A j \in 1 .. n - 1 : Past(i, j) \in (1 .. n) \ {i} /\ RemoveAt(q, i)[j] = q[Past(i, j)]
  BY <1>2, <1>4 DEF Past
<1>6. \A j, k \in 1 .. n - 1 : Past(i, j) = Past(i, k) => j = k
  BY <1>2 DEF Past
<1>7. ASSUME NEW k \in (1 .. n) \ {i}
      PROVE  \E j \in 1 .. n - 1 : Past(i, j) = k
  <2>1. CASE k < i
    <3>1. k \in 1 .. n - 1 /\ Past(i, k) = k  BY <2>1, <1>2 DEF Past
    <3> QED BY <3>1
  <2>2. CASE k > i
    <3>1. k - 1 \in 1 .. n - 1 /\ Past(i, k - 1) = k  BY <2>2, <1>2 DEF Past
    <3> QED BY <3>1
  <2> QED BY <2>1, <2>2, <1>2
<1> QED BY <1>1, <1>3, <1>5, <1>6, <1>7

-----------------------------------------------------------------------------
IsOf(o, q) == o.dir = q.dir /\ o.name = LocalName(q)

OrdersGoHome ==
  \A e \in Editors : \A i \in DOMAIN orders[e] :
    orders[e][i].op = "upload" => \E q \in programs : IsOf(orders[e][i], q)
WatchersWatch == \A i \in DOMAIN watchers : watchers[i].file \in programs
UploadsGoHome ==
  \A k \in DOMAIN uploads :
    \E q \in programs : IsOf(uploads[k].to, q) /\ uploads[k].from = LocalName(q)

AllGoHome == OrdersGoHome /\ WatchersWatch /\ UploadsGoHome

LEMMA AllGoHomeStays ==
  ASSUME EditTypeOK, AllGoHome, [EditNext]_editVars
  PROVE  AllGoHome'
<1>g. programs \subseteq programs'
  BY DEF EditNext, editVars, copies, tasks, OpenExternally, CloseSftpOf, TakeOpenOrder, Fetched, FetchFails,
         TakeUploadOrder, TakeCloseOrder, Save, StartWatching, Look, StopWatching, UploadOpens, UploadReads,
         UploadWrites, UploadFails
<1>t. \A e \in Editors : orders[e] \in Seq(Orders)  BY DEF EditTypeOK
<1>o. ASSUME orders' = orders PROVE OrdersGoHome'
  BY <1>o, <1>g DEF AllGoHome, OrdersGoHome, IsOf, LocalName
<1>w. ASSUME watchers' = watchers PROVE WatchersWatch'
  BY <1>w, <1>g DEF AllGoHome, WatchersWatch
<1>v. ASSUME NEW n, watchers' = Touched(n, watchers) PROVE WatchersWatch'
  BY <1>v, <1>g, TouchedFacts DEF AllGoHome, WatchersWatch, EditTypeOK
<1>l. ASSUME uploads' = uploads PROVE UploadsGoHome'
  BY <1>l, <1>g DEF AllGoHome, UploadsGoHome, IsOf, LocalName
\* The orders of one worker change.
<1>1. ASSUME NEW e \in Editors, NEW os, orders' = [orders EXCEPT ![e] = os],
             \A i \in DOMAIN os : os[i].op = "upload" => \E q \in programs : IsOf(os[i], q)
      PROVE  OrdersGoHome'
  <2> SUFFICES ASSUME NEW f \in Editors, NEW i \in DOMAIN orders'[f], orders'[f][i].op = "upload"
               PROVE  \E q \in programs' : IsOf(orders'[f][i], q)
    BY DEF OrdersGoHome, IsOf, LocalName
  <2>1. CASE f = e  BY <2>1, <1>1, <1>g DEF EditTypeOK
  <2>2. CASE f # e
    <3>1. orders'[f] = orders[f]  BY <2>2, <1>1 DEF EditTypeOK
    <3> QED BY <3>1, <1>g DEF AllGoHome, OrdersGoHome
  <2> QED BY <2>1, <2>2
<1>2. ASSUME NEW e \in Editors, orders[e] # <<>>, OrderTaken(e) PROVE OrdersGoHome'
  <2>1. \A i \in DOMAIN Tail(orders[e]) : Tail(orders[e])[i].op = "upload"
          => \E q \in programs : IsOf(Tail(orders[e])[i], q)
    BY <1>2, <1>t, TailElements DEF AllGoHome, OrdersGoHome
  <2> QED BY <2>1, <1>2, <1>1 DEF OrderTaken
<1>3. ASSUME NEW e \in Editors, NEW o \in Orders, Order(e, o),
             o.op = "upload" => \E q \in programs : IsOf(o, q)
      PROVE  OrdersGoHome'
  <2>1. \A i \in DOMAIN Append(orders[e], o) : Append(orders[e], o)[i].op = "upload"
          => \E q \in programs : IsOf(Append(orders[e], o)[i], q)
    BY <1>3, <1>t, AppendElements DEF AllGoHome, OrdersGoHome
  <2> QED BY <2>1, <1>3, <1>1 DEF Order
<1>4. ASSUME NEW k \in DOMAIN uploads, uploads' = RemoveAt(uploads, k) PROVE UploadsGoHome'
  <2>1. \A j \in DOMAIN uploads' : \E m \in DOMAIN uploads : uploads'[j] = uploads[m]
    BY <1>4, RemoveElements DEF EditTypeOK
  <2> QED BY <2>1, <1>g DEF AllGoHome, UploadsGoHome, IsOf, LocalName
<1>5. ASSUME NEW i \in DOMAIN watchers, watchers' = RemoveAt(watchers, i) PROVE WatchersWatch'
  BY <1>5, <1>g, RemoveElements DEF AllGoHome, WatchersWatch, EditTypeOK
<1>6. ASSUME DOMAIN watchers' = DOMAIN watchers,
             \A i \in DOMAIN watchers : watchers'[i].file = watchers[i].file
      PROVE  WatchersWatch'
  BY <1>6, <1>g DEF AllGoHome, WatchersWatch
<1>7. ASSUME DOMAIN uploads' = DOMAIN uploads,
             \A k \in DOMAIN uploads : uploads'[k].to = uploads[k].to /\ uploads'[k].from = uploads[k].from
      PROVE  UploadsGoHome'
  BY <1>7, <1>g DEF AllGoHome, UploadsGoHome, IsOf, LocalName
<1>x. \A i \in DOMAIN watchers : watchers[i] \in Watchers
  BY ElementFacts DEF EditTypeOK
<1>y. \A k \in DOMAIN uploads : uploads[k] \in Uploads
  BY ElementFacts DEF EditTypeOK
<1>A. ASSUME UNCHANGED editVars PROVE AllGoHome'
  <2>1. orders' = orders /\ watchers' = watchers /\ uploads' = uploads  BY <1>A DEF editVars, copies, tasks
  <2> QED BY <2>1, <1>o, <1>w, <1>l DEF AllGoHome
<1>B. ASSUME NEW e \in Editors, NEW p \in Stored, NEW edit \in BOOLEAN, OpenExternally(e, p, edit)
      PROVE AllGoHome'
  <2> DEFINE o == [op |-> "open", file |-> p, edit |-> edit]
  <2>1. o \in Orders /\ o.op # "upload"  BY DEF Orders, OpenOrders
  <2>2. Order(e, o) /\ watchers' = watchers /\ uploads' = uploads  BY <1>B DEF OpenExternally
  <2> HIDE DEF o
  <2> QED BY <2>1, <2>2, <1>3, <1>w, <1>l DEF AllGoHome
<1>C. ASSUME NEW e \in Editors, CloseSftpOf(e) PROVE AllGoHome'
  <2> DEFINE o == [op |-> "close"]
  <2>1. o \in Orders /\ o.op # "upload"  BY DEF Orders, CloseOrders
  <2>2. Order(e, o) /\ watchers' = watchers /\ uploads' = uploads  BY <1>C DEF CloseSftpOf
  <2> HIDE DEF o
  <2> QED BY <2>1, <2>2, <1>3, <1>w, <1>l DEF AllGoHome
<1>D. ASSUME NEW e \in Editors, TakeOpenOrder(e) PROVE AllGoHome'
  <2>1. OrdersGoHome'  BY <1>D, <1>2 DEF TakeOpenOrder, OrderIs
  <2>2. uploads' = uploads  BY <1>D DEF TakeOpenOrder
  <2>3. WatchersWatch'  BY <1>D, <1>w, <1>v DEF TakeOpenOrder
  <2> QED BY <2>1, <2>2, <2>3, <1>l DEF AllGoHome
<1>E. ASSUME NEW e \in Editors, Fetched(e) PROVE AllGoHome'
  <2>1. PICK o \in OpenOrders : fetching[e] = <<o>>  BY <1>E DEF Fetched, EditTypeOK
  <2>2. fetching[e][1] = o /\ o.file \in Paths  BY <2>1, EditAssumption DEF OpenOrders
  <2> DEFINE ws == Touched(LocalName(o.file), watchers)
             w  == [stage |-> "starting", editor |-> e, file |-> o.file, seen |-> FALSE]
  <2>3. ws \in Seq(Watchers) /\ \A i \in DOMAIN ws : ws[i].file \in programs
    BY SMTT(30), TouchedFacts DEF AllGoHome, WatchersWatch, EditTypeOK
  <2>4. w \in Watchers /\ w.file = o.file /\ o.file \in programs'
    BY <1>E, <2>2 DEF Watchers, Fetched
  <2>5. watchers' = ws \/ watchers' = Append(ws, w)  BY <1>E, <2>2 DEF Fetched
  <2>6. orders' = orders /\ uploads' = uploads  BY <1>E DEF Fetched
  <2> HIDE DEF ws, w
  <2>7. WatchersWatch'
    <3>1. CASE watchers' = ws  BY <3>1, <2>3, <1>g DEF WatchersWatch
    <3>2. CASE watchers' = Append(ws, w)
      BY <3>2, <2>3, <2>4, <1>g, AppendElements DEF WatchersWatch
    <3> QED BY <3>1, <3>2, <2>5
  <2> QED BY <2>6, <2>7, <1>o, <1>l DEF AllGoHome
<1>F. ASSUME NEW e \in Editors, FetchFails(e) PROVE AllGoHome'
  <2>1. orders' = orders /\ watchers' = watchers /\ uploads' = uploads  BY <1>F DEF FetchFails
  <2> QED BY <2>1, <1>o, <1>w, <1>l DEF AllGoHome
<1>G. ASSUME NEW e \in Editors, TakeUploadOrder(e) PROVE AllGoHome'
  <2>0. OrderIs(e, "upload") /\ OrderTaken(e) /\ orders[e] # <<>>  BY <1>G DEF TakeUploadOrder, OrderIs
  <2>1. Head(orders[e]) \in SendOrders /\ Head(orders[e]).op = "upload"  BY <2>0, HeadFacts
  <2>2. orders[e] \in Seq(Orders)  BY DEF EditTypeOK
  <2>3. 1 \in DOMAIN orders[e] /\ Head(orders[e]) = orders[e][1]  BY <2>0, <2>2
  <2>4. PICK q \in programs : IsOf(Head(orders[e]), q)
    BY <2>1, <2>3 DEF AllGoHome, OrdersGoHome
  <2> DEFINE o == Head(orders[e])
             u == [editor |-> e, from |-> o.name, stage |-> "starting",
                   to |-> [dir |-> o.dir, name |-> o.name], text |-> NoText]
  <2>5. u \in Uploads  BY <2>1, TextFacts DEF Uploads, SendOrders, Paths
  <2>6. IsOf(u.to, q) /\ u.from = LocalName(q)  BY <2>4 DEF IsOf
  <2>7. uploads' = Append(uploads, u) /\ watchers' = watchers  BY <1>G DEF TakeUploadOrder
  <2> HIDE DEF u
  <2>8. UploadsGoHome'
    <3> SUFFICES ASSUME NEW k \in DOMAIN uploads'
                 PROVE  \E x \in programs' : IsOf(uploads'[k].to, x) /\ uploads'[k].from = LocalName(x)
      BY DEF UploadsGoHome, IsOf, LocalName
    <3>1. uploads'[k] = u \/ \E j \in DOMAIN uploads : uploads'[k] = uploads[j]
      BY <2>5, <2>7, AppendElements DEF EditTypeOK
    <3>2. CASE uploads'[k] = u  BY <3>2, <2>6, <1>g
    <3>3. CASE \E j \in DOMAIN uploads : uploads'[k] = uploads[j]
      BY <3>3, <1>g DEF AllGoHome, UploadsGoHome
    <3> QED BY <3>1, <3>2, <3>3
  <2> QED BY <2>0, <2>7, <2>8, <1>2, <1>w DEF AllGoHome
<1>H. ASSUME NEW e \in Editors, TakeCloseOrder(e) PROVE AllGoHome'
  <2>1. watchers' = watchers /\ uploads' = uploads /\ orders' = [orders EXCEPT ![e] = <<>>]
    BY <1>H DEF TakeCloseOrder
  <2> DEFINE none == <<>>
  <2>0. orders' = [orders EXCEPT ![e] = none] /\ DOMAIN none = {}  BY <2>1
  <2> HIDE DEF none
  <2>2. OrdersGoHome'  BY <2>0, <1>1
  <2> QED BY <2>1, <2>2, <1>w, <1>l DEF AllGoHome
<1>I. ASSUME NEW p \in programs, Save(p) PROVE AllGoHome'
  <2>1. orders' = orders /\ uploads' = uploads /\ watchers' = Touched(LocalName(p), watchers)
    BY <1>I DEF Save
  <2> QED BY <2>1, <1>o, <1>v, <1>l DEF AllGoHome
<1>J. ASSUME NEW i \in DOMAIN watchers, StartWatching(i) PROVE AllGoHome'
  <2>1. orders' = orders /\ uploads' = uploads  BY <1>J DEF StartWatching
  <2>2. /\ DOMAIN watchers' = DOMAIN watchers
        /\ \A j \in DOMAIN watchers : watchers'[j].file = watchers[j].file
    BY <1>J, <1>x DEF StartWatching, Watchers
  <2> QED BY <2>1, <2>2, <1>o, <1>6, <1>l DEF AllGoHome
<1>K. ASSUME NEW i \in DOMAIN watchers, Look(i) PROVE AllGoHome'
  <2>1. uploads' = uploads  BY <1>K DEF Look
  <2>2. /\ DOMAIN watchers' = DOMAIN watchers
        /\ \A j \in DOMAIN watchers : watchers'[j].file = watchers[j].file
    BY <1>K, <1>x DEF Look, Watchers
  <2> DEFINE f == watchers[i].file
             o == [op |-> "upload", name |-> LocalName(f), dir |-> f.dir]
  <2>3. watchers[i].editor \in Editors /\ f \in Paths /\ f \in programs
    BY <1>x DEF Watchers, AllGoHome, WatchersWatch
  <2>4. o \in Orders /\ IsOf(o, f)
    BY <2>3, TextFacts DEF Orders, SendOrders, Paths, IsOf
  <2>5. Order(watchers[i].editor, o)  BY <1>K DEF Look
  <2> HIDE DEF o, f
  <2>6. OrdersGoHome'  BY <2>3, <2>4, <2>5, <1>3
  <2> QED BY <2>1, <2>2, <2>6, <1>6, <1>l DEF AllGoHome
<1>L. ASSUME NEW i \in DOMAIN watchers, StopWatching(i) PROVE AllGoHome'
  <2>1. orders' = orders /\ uploads' = uploads /\ watchers' = RemoveAt(watchers, i)
    BY <1>L DEF StopWatching
  <2> QED BY <2>1, <1>o, <1>5, <1>l DEF AllGoHome
<1>M. ASSUME NEW k \in DOMAIN uploads, UploadOpens(k) \/ UploadReads(k) PROVE AllGoHome'
  <2>1. orders' = orders /\ watchers' = watchers  BY <1>M DEF UploadOpens, UploadReads
  <2>2. /\ DOMAIN uploads' = DOMAIN uploads
        /\ \A j \in DOMAIN uploads : uploads'[j].to = uploads[j].to /\ uploads'[j].from = uploads[j].from
    BY <1>M, <1>y DEF UploadOpens, UploadReads, Uploads
  <2> QED BY <2>1, <2>2, <1>o, <1>w, <1>7 DEF AllGoHome
<1>N. ASSUME NEW k \in DOMAIN uploads, UploadWrites(k) \/ UploadFails(k) PROVE AllGoHome'
  <2>1. orders' = orders /\ watchers' = watchers /\ uploads' = RemoveAt(uploads, k)
    BY <1>N DEF UploadWrites, UploadFails
  <2> QED BY <2>1, <1>o, <1>w, <1>4 DEF AllGoHome
<1> QED BY <1>A, <1>B, <1>C, <1>D, <1>E, <1>F, <1>G, <1>H, <1>I, <1>J, <1>K, <1>L, <1>M, <1>N DEF EditNext
-----------------------------------------------------------------------------
Fetches(p) == \E e \in Editors : fetching[e] # Nothing /\ fetching[e][1].file = p

\* A watcher has yet to see the text, the worker has yet to take it up, an upload to start.
Unseen(p)  == \E i \in DOMAIN watchers : Watches(i, p) /\ ~watchers[i].seen
Ordered(p) == \E e \in Editors : Uploading(p, orders[e]) # {}
Due(p)     == \E k \in DOMAIN uploads : uploads[k].to = p /\ uploads[k].stage = "starting"

OnItsWay(p) == Unseen(p) \/ Ordered(p) \/ Due(p)

Arriving(p) ==
  /\ \A k, l \in Ongoing(p) : k = l
  /\ \A k \in Ongoing(p) :
       /\ remote[p] = CutText
       /\ Fetches(p) \/ uploads[k].stage = "open" \/ uploads[k].text = saved[p]
  /\ Ongoing(p) = {} => Fetches(p) \/ remote[p] = saved[p]

CopyIsSaved(p) ==
  p \in programs => copy[p.name] # NoText /\ (Fetches(p) \/ copy[p.name] = saved[p])

ComesHome(p) == CopyIsSaved(p) /\ (OnItsWay(p) \/ Arriving(p))

SavedAreOfTheirFile == \A p \in Stored : saved[p].of = {p}

EditInv ==
  /\ EditTypeOK /\ AllGoHome /\ SavedAreOfTheirFile
  /\ \A p \in Stored : Alone(p) /\ p \notin lost => ComesHome(p)

LEMMA AloneFacts ==
  ASSUME NEW p \in Stored, Alone(p)
  PROVE  /\ p \in Paths /\ LocalName(p) = p.name
         /\ \A q \in Stored : LocalName(q) = p.name <=> q = p
         /\ \A q \in Stored, t \in Paths : IsOf(t, q) /\ t = p => q = p
  BY EditAssumption DEF Alone, IsOf

\* An upload to a file that is alone comes from its copy.
LEMMA UploadIsFromTheCopy ==
  ASSUME EditTypeOK, AllGoHome, NEW p \in Stored, Alone(p), NEW k \in DOMAIN uploads, uploads[k].to = p
  PROVE  p \in programs /\ uploads[k].from = p.name
<1>1. PICK q \in programs : IsOf(uploads[k].to, q) /\ uploads[k].from = LocalName(q)
  BY DEF AllGoHome, UploadsGoHome
<1>2. q \in Stored  BY DEF EditTypeOK
<1>3. q = p  BY <1>1, <1>2, AloneFacts
<1> QED BY <1>1, <1>3, AloneFacts

\* The uploads and the file on the server are left alone.
LEMMA ArrivingStays ==
  ASSUME NEW p, Arriving(p), uploads' = uploads, remote'[p] = remote[p], saved'[p] = saved[p],
         Fetches(p) => Fetches(p)'
  PROVE  Arriving(p)'
  BY DEF Arriving, Ongoing, CutText

LEMMA CopyStays ==
  ASSUME NEW p, CopyIsSaved(p), copy'[p.name] = copy[p.name], saved'[p] = saved[p],
         p \in programs' => p \in programs, Fetches(p) => Fetches(p)'
  PROVE  CopyIsSaved(p)'
  BY DEF CopyIsSaved, NoText

\* Watchers that are touched, or joined by another one, have no less to see.
LEMMA UnseenStays ==
  ASSUME EditTypeOK, NEW p, NEW ws, closed' = closed,
         \/ ws = watchers
         \/ \E n : ws = Touched(n, watchers),
         \/ watchers' = ws
         \/ \E w \in Watchers : watchers' = Append(ws, w)
  PROVE  Unseen(p) => Unseen(p)'
<1>1. ws \in Seq(Watchers) /\ DOMAIN ws = DOMAIN watchers
  BY TouchedFacts DEF EditTypeOK
<1>2. \A i \in DOMAIN watchers :
        /\ ws[i].stage = watchers[i].stage /\ ws[i].editor = watchers[i].editor
        /\ ws[i].file = watchers[i].file /\ (ws[i].seen => watchers[i].seen)
  BY TouchedFacts DEF EditTypeOK
<1>3. \A i \in DOMAIN ws : i \in DOMAIN watchers' /\ watchers'[i] = ws[i]
  BY SMTT(30), <1>1, AppendElements
<1> QED BY <1>1, <1>2, <1>3 DEF Unseen, Watches, Watching

LEMMA OrderedStays ==
  ASSUME EditTypeOK, NEW p, NEW e \in Editors,
         \/ \E o \in Orders : Order(e, o)
         \/ orders[e] # <<>> /\ OrderTaken(e) /\ Head(orders[e]).op # "upload"
  PROVE  Ordered(p) => Ordered(p)'
<1> SUFFICES ASSUME Ordered(p) PROVE Ordered(p)'  OBVIOUS
<1> DEFINE IsForP(o) == o.op = "upload" /\ [dir |-> o.dir, name |-> o.name] = p
<1>0. PICK f \in Editors : \E i \in DOMAIN orders[f] : IsForP(orders[f][i])
  BY DEF Ordered, Uploading
<1>1. PICK i \in DOMAIN orders[f] : IsForP(orders[f][i])  BY <1>0
<1>2. \E j \in DOMAIN orders'[f] : orders'[f][j] = orders[f][i]
  <2>1. CASE f # e
    <3>1. orders'[f] = orders[f]  BY <2>1 DEF EditTypeOK, Order, OrderTaken
    <3> QED BY <3>1
  <2>2. CASE f = e
    <3>1. CASE \E o \in Orders : Order(e, o)
      <4>1. PICK o \in Orders : orders'[e] = Append(orders[e], o)  BY <3>1 DEF EditTypeOK, Order
      <4>2. orders[e] \in Seq(Orders)  BY DEF EditTypeOK
      <4> QED BY <4>1, <4>2, <2>2, AppendElements, SMTT(30)
    <3>2. CASE orders[e] # <<>> /\ OrderTaken(e) /\ Head(orders[e]).op # "upload"
      <4>1. orders'[e] = Tail(orders[e])  BY <3>2 DEF EditTypeOK, OrderTaken
      <4>2. orders[e] \in Seq(Orders)  BY DEF EditTypeOK
      <4>3. orders[e][i] = Head(orders[e]) \/ \E j \in DOMAIN Tail(orders[e]) : Tail(orders[e])[j] = orders[e][i]
        BY <4>2, <3>2, <2>2, TailElements
      <4> QED BY <4>1, <4>3, <3>2, <1>1, <2>2
    <3> QED BY <3>1, <3>2
  <2> QED BY <2>1, <2>2
<1>3. PICK j \in DOMAIN orders'[f] : IsForP(orders'[f][j])  BY <1>1, <1>2
<1>4. j \in Uploading(p, orders'[f])  BY <1>3 DEF Uploading
<1> QED BY <1>4 DEF Ordered
LEMMA ArrivingStaysBesideOthers ==
  ASSUME EditTypeOK, NEW p, Arriving(p), NEW k \in DOMAIN uploads, uploads[k].to # p,
         uploads' = RemoveAt(uploads, k), remote'[p] = remote[p], saved'[p] = saved[p],
         Fetches(p) => Fetches(p)'
  PROVE  Arriving(p)'
<1>1. /\ \A j \in DOMAIN uploads' :
           Past(k, j) \in DOMAIN uploads \ {k} /\ uploads'[j] = uploads[Past(k, j)]
      /\ \A j, l \in DOMAIN uploads' : Past(k, j) = Past(k, l) => j = l
      /\ \A m \in DOMAIN uploads \ {k} : \E j \in DOMAIN uploads' : Past(k, j) = m
  BY RemoveElements DEF EditTypeOK
<1>2. \A j \in Ongoing(p)' : Past(k, j) \in Ongoing(p) /\ uploads'[j] = uploads[Past(k, j)]
  BY <1>1 DEF Ongoing
<1>3. \A m \in Ongoing(p) : \E j \in Ongoing(p)' : Past(k, j) = m
  BY <1>1 DEF Ongoing
<1>4. \A j, l \in Ongoing(p)' : j = l  BY <1>1, <1>2 DEF Arriving, Ongoing
<1>5. \A j \in Ongoing(p)' :
        /\ remote'[p] = CutText
        /\ Fetches(p)' \/ uploads'[j].stage = "open" \/ uploads'[j].text = saved'[p]
  BY <1>2 DEF Arriving
<1>6. Ongoing(p)' = {} => Fetches(p)' \/ remote'[p] = saved'[p]
  BY <1>3 DEF Arriving
<1> QED BY <1>4, <1>5, <1>6 DEF Arriving, CutText

LEMMA DueStaysBesideOthers ==
  ASSUME EditTypeOK, NEW p, NEW k \in DOMAIN uploads, uploads' = RemoveAt(uploads, k),
         uploads[k].to # p \/ uploads[k].stage # "starting"
  PROVE  Due(p) => Due(p)'
<1>1. /\ \A j \in DOMAIN uploads' : uploads'[j] = uploads[Past(k, j)]
      /\ \A m \in DOMAIN uploads \ {k} : \E j \in DOMAIN uploads' : Past(k, j) = m
  BY RemoveElements DEF EditTypeOK
<1> QED BY <1>1 DEF Due

LEMMA ComesHomeStays ==
  ASSUME EditInv, [EditNext]_editVars, NEW p \in Stored, Alone(p), p \notin lost'
  PROVE  ComesHome(p)'
<1>t. EditTypeOK /\ AllGoHome /\ saved[p].of = {p}  BY DEF EditInv, SavedAreOfTheirFile
<1>n. /\ p \in Paths /\ LocalName(p) = p.name
      /\ \A q \in Stored : LocalName(q) = p.name <=> q = p
  BY AloneFacts
<1>s. saved[p] # NoText /\ saved[p] # CutText  BY <1>t DEF NoText, CutText
<1>m. p.name \in FileNames  BY <1>n DEF Paths
<1>h. p \notin lost => ComesHome(p)  BY DEF EditInv
<1>d. uploads' = uploads => (Due(p) => Due(p)')  BY DEF Due
<1>o. orders' = orders => (Ordered(p) => Ordered(p)')  BY DEF Ordered, Uploading
<1>f. fetching' = fetching => (Fetches(p) => Fetches(p)')  BY DEF Fetches
<1>w. watchers' = watchers /\ closed' = closed => (Unseen(p) => Unseen(p)')
  BY <1>t, UnseenStays
<1>v. ASSUME NEW n, watchers' = Touched(n, watchers), closed' = closed PROVE Unseen(p) => Unseen(p)'
  BY <1>v, <1>t, UnseenStays
\* Nothing of the file changes.
<1>c. ASSUME copy'[p.name] = copy[p.name], saved'[p] = saved[p], remote'[p] = remote[p],
             p \in programs' => p \in programs, Fetches(p) => Fetches(p)', ComesHome(p)
      PROVE  CopyIsSaved(p)' /\ (uploads' = uploads => (Arriving(p) => Arriving(p)'))
  BY <1>c, CopyStays, ArrivingStays DEF ComesHome
<1>e. ASSUME NEW e \in Editors, fetching[e] # Nothing, fetching[e][1].file # p,
             fetching' = [fetching EXCEPT ![e] = Nothing]
      PROVE  Fetches(p) => Fetches(p)'
  BY <1>e, <1>t DEF Fetches, EditTypeOK
<1>A. ASSUME UNCHANGED editVars PROVE ComesHome(p)'
  <2>1. /\ remote' = remote /\ copy' = copy /\ programs' = programs /\ orders' = orders
        /\ fetching' = fetching /\ closed' = closed /\ watchers' = watchers /\ uploads' = uploads
        /\ saved' = saved /\ lost' = lost
    BY <1>A DEF editVars, copies, tasks
  <2> QED BY <2>1, <1>h, <1>d, <1>o, <1>f, <1>w, <1>c DEF ComesHome, OnItsWay
<1>B. ASSUME NEW e \in Editors, (\E q \in Stored, edit \in BOOLEAN : OpenExternally(e, q, edit)) \/ CloseSftpOf(e)
      PROVE  ComesHome(p)'
  <2>1. /\ remote' = remote /\ copy' = copy /\ programs' = programs
        /\ fetching' = fetching /\ closed' = closed /\ watchers' = watchers /\ uploads' = uploads
        /\ saved' = saved /\ lost' = lost
    BY <1>B DEF OpenExternally, CloseSftpOf, copies
  <2>2. \E o \in Orders : Order(e, o)
    <3>1. ASSUME NEW q \in Stored, NEW edit \in BOOLEAN
          PROVE  [op |-> "open", file |-> q, edit |-> edit] \in Orders
      BY DEF Orders, OpenOrders
    <3>2. [op |-> "close"] \in Orders  BY DEF Orders, CloseOrders
    <3> QED BY <1>B, <3>1, <3>2 DEF OpenExternally, CloseSftpOf
  <2>3. Ordered(p) => Ordered(p)'  BY <1>t, <2>2, OrderedStays
  <2> QED BY <2>1, <2>3, <1>h, <1>d, <1>f, <1>w, <1>c DEF ComesHome, OnItsWay
<1>C. ASSUME NEW e \in Editors, TakeOpenOrder(e) PROVE ComesHome(p)'
  <2>0. OrderIs(e, "open") /\ OrderTaken(e) /\ orders[e] # <<>> /\ fetching[e] = Nothing
    BY <1>C DEF TakeOpenOrder, OrderIs
  <2>1. Head(orders[e]) \in OpenOrders /\ Head(orders[e]).op # "upload"  BY <2>0, <1>t, HeadFacts
  <2> DEFINE q == Head(orders[e]).file
  <2>2. q \in Stored  BY <2>1 DEF OpenOrders
  <2>3. /\ remote' = remote /\ programs' = programs /\ closed' = closed /\ uploads' = uploads
        /\ saved' = saved /\ lost' = lost
    BY <1>C DEF TakeOpenOrder
  <2>4. Ordered(p) => Ordered(p)'  BY <1>t, <2>0, <2>1, OrderedStays
  <2>5. CASE UNCHANGED <<copy, fetching, watchers>>
    BY <2>3, <2>4, <2>5, <1>h, <1>d, <1>f, <1>w, <1>c DEF ComesHome, OnItsWay
  <2>6. CASE /\ Put(LocalName(q), CutText)
             /\ watchers' = Touched(LocalName(q), watchers)
             /\ fetching' = [fetching EXCEPT ![e] = <<Head(orders[e])>>]
    <3>1. Unseen(p) => Unseen(p)'  BY <2>3, <2>6, <1>v
    <3>2. Fetches(p) => Fetches(p)'  BY <2>0, <2>6, <1>t DEF Fetches, EditTypeOK
    <3>3. CASE q = p
      <4>1. fetching'[e] # Nothing /\ fetching'[e][1].file = p
        BY <2>6, <3>3, <1>t DEF EditTypeOK, Nothing
      <4>2. Fetches(p)'  BY <4>1 DEF Fetches, Nothing
      <4>3. copy'[p.name] = CutText  BY <2>6, <3>3, <1>n, <1>m, <1>t DEF Put, EditTypeOK
      <4>4. CopyIsSaved(p)'  BY <4>2, <4>3, TextFacts DEF CopyIsSaved, NoText
      <4>5. Arriving(p) => Arriving(p)'  BY <2>3, <4>2, ArrivingStays
      <4> QED BY <2>3, <2>4, <3>1, <4>4, <4>5, <1>h, <1>d DEF ComesHome, OnItsWay
    <3>4. CASE q # p
      <4>1. copy'[p.name] = copy[p.name]  BY <2>2, <2>6, <3>4, <1>n DEF Put, EditTypeOK
      <4> QED BY <2>3, <2>4, <3>1, <3>2, <4>1, <1>h, <1>d, <1>c DEF ComesHome, OnItsWay
    <3> QED BY <3>3, <3>4
  <2> QED BY <1>C, <2>5, <2>6 DEF TakeOpenOrder
<1>D. ASSUME NEW e \in Editors, Fetched(e) PROVE ComesHome(p)'
  <2>1. PICK o \in OpenOrders : fetching[e] = <<o>>  BY <1>D, <1>t DEF Fetched, EditTypeOK
  <2>2. fetching[e] # Nothing /\ fetching[e][1] = o /\ o.file \in Stored
    BY <2>1, <1>D DEF OpenOrders, Fetched
  <2>3. /\ remote' = remote /\ orders' = orders /\ closed' = closed /\ uploads' = uploads
        /\ saved' = saved /\ copy' = [copy EXCEPT ![LocalName(o.file)] = remote[o.file]]
        /\ programs' = programs \cup {o.file} /\ fetching' = [fetching EXCEPT ![e] = Nothing]
        /\ lost' = IF remote[o.file] = saved[o.file] THEN lost ELSE lost \cup {o.file}
    BY <1>D, <2>2 DEF Fetched, Put
  <2>4. Unseen(p) => Unseen(p)'
    <3> DEFINE ws == Touched(LocalName(o.file), watchers)
               w  == [stage |-> "starting", editor |-> e, file |-> o.file, seen |-> FALSE]
    <3>1. w \in Watchers  BY <2>2, EditAssumption DEF Watchers
    <3>2. watchers' = ws \/ watchers' = Append(ws, w)  BY <1>D, <2>2 DEF Fetched
    <3> HIDE DEF w
    <3>3. watchers' = ws \/ \E x \in Watchers : watchers' = Append(ws, x)  BY <3>1, <3>2
    <3> QED BY <3>3, <2>3, <1>t, UnseenStays
  <2>5. ComesHome(p)  BY <2>3, <1>h
  <2>6. CASE o.file = p
    <3>1. remote[p] = saved[p]  BY <2>3, <2>6
    <3>2. copy'[p.name] = saved[p]  BY <2>3, <2>6, <3>1, <1>n, <1>m, <1>t DEF EditTypeOK
    <3>3. CopyIsSaved(p)'  BY <2>3, <3>2, <1>s DEF CopyIsSaved, NoText
    <3>4. Arriving(p) => Ongoing(p) = {}  BY <3>1, <1>s DEF Arriving
    <3>5. Arriving(p) => Arriving(p)'  BY <2>3, <3>1, <3>4 DEF Arriving, Ongoing
    <3> QED BY <2>3, <2>4, <2>5, <3>3, <3>5, <1>d, <1>o DEF ComesHome, OnItsWay
  <2>7. CASE o.file # p
    <3>1. Fetches(p) => Fetches(p)'  BY <2>2, <2>3, <2>7, <1>e
    <3>2. copy'[p.name] = copy[p.name]  BY <2>2, <2>3, <2>7, <1>n, <1>t DEF EditTypeOK
    <3> QED BY <2>3, <2>4, <2>5, <2>7, <3>1, <3>2, <1>c, <1>d, <1>o DEF ComesHome, OnItsWay
  <2> QED BY <2>6, <2>7
<1>E. ASSUME NEW e \in Editors, FetchFails(e) PROVE ComesHome(p)'
  <2>1. PICK o \in OpenOrders : fetching[e] = <<o>>  BY <1>E, <1>t DEF FetchFails, EditTypeOK
  <2>2. fetching[e] # Nothing /\ fetching[e][1] = o /\ o.file \in Stored
    BY <2>1, <1>E DEF OpenOrders, FetchFails
  <2>3. /\ remote' = remote /\ orders' = orders /\ closed' = closed /\ uploads' = uploads
        /\ saved' = saved /\ copy' = [copy EXCEPT ![LocalName(o.file)] = NoText]
        /\ programs' = programs /\ watchers' = watchers
        /\ fetching' = [fetching EXCEPT ![e] = Nothing]
        /\ lost' = lost \cup {o.file}
    BY <1>E, <2>2 DEF FetchFails, Put
  <2>4. o.file # p /\ ComesHome(p)  BY <2>3, <1>h
  <2>5. Fetches(p) => Fetches(p)'  BY <2>2, <2>3, <2>4, <1>e
  <2>6. copy'[p.name] = copy[p.name]  BY <2>2, <2>3, <2>4, <1>n, <1>t DEF EditTypeOK
  <2> QED BY <2>3, <2>4, <2>5, <2>6, <1>c, <1>d, <1>o, <1>w DEF ComesHome, OnItsWay
<1>F. ASSUME NEW e \in Editors, TakeUploadOrder(e) PROVE ComesHome(p)'
  <2>0. OrderIs(e, "upload") /\ OrderTaken(e) /\ orders[e] # <<>>  BY <1>F DEF TakeUploadOrder, OrderIs
  <2>1. Head(orders[e]) \in SendOrders  BY <2>0, <1>t, HeadFacts
  <2> DEFINE o == Head(orders[e])
             u == [editor |-> e, from |-> o.name, stage |-> "starting",
                   to |-> [dir |-> o.dir, name |-> o.name], text |-> NoText]
  <2>2. u \in Uploads /\ u.stage = "starting" /\ u.to = [dir |-> o.dir, name |-> o.name]
    BY <2>1, TextFacts DEF Uploads, SendOrders, Paths
  <2>3. /\ uploads' = Append(uploads, u) /\ watchers' = watchers /\ remote' = remote /\ copy' = copy
        /\ programs' = programs /\ fetching' = fetching /\ closed' = closed /\ saved' = saved /\ lost' = lost
    BY <1>F DEF TakeUploadOrder, copies
  <2> HIDE DEF u
  <2>4. /\ \A i \in DOMAIN uploads' : uploads'[i] = u \/ i \in DOMAIN uploads
        /\ \A j \in DOMAIN uploads : j \in DOMAIN uploads' /\ uploads'[j] = uploads[j]
        /\ \E i \in DOMAIN uploads' : uploads'[i] = u
    <3>1. uploads \in Seq(Uploads)  BY <1>t DEF EditTypeOK
    <3>2. PICK n \in Nat : n = Len(uploads) /\ DOMAIN uploads = 1 .. n  BY <3>1
    <3>3. DOMAIN uploads' = 1 .. n + 1 /\ uploads'[n + 1] = u  BY <2>2, <2>3, <3>1, <3>2, AppendFacts
    <3>4. \A i \in 1 .. n + 1 : i \in 1 .. n \/ i = n + 1  BY <3>2
    <3> QED BY <2>2, <2>3, <3>1, <3>2, <3>3, <3>4, AppendElements
  <2>5. ComesHome(p)  BY <2>3, <1>h
  <2>6. Due(p) => Due(p)'  BY <2>4 DEF Due
  <2>7. Ordered(p) => Ordered(p)' \/ Due(p)'
    <3> SUFFICES ASSUME Ordered(p), u.to # p PROVE Ordered(p)'
      BY <2>2, <2>4 DEF Due
    <3> DEFINE IsForP(x) == x.op = "upload" /\ [dir |-> x.dir, name |-> x.name] = p
    <3>1. PICK f \in Editors : \E i \in DOMAIN orders[f] : IsForP(orders[f][i])
      BY DEF Ordered, Uploading
    <3>2. PICK i \in DOMAIN orders[f] : IsForP(orders[f][i])  BY <3>1
    <3>3. \E j \in DOMAIN orders'[f] : orders'[f][j] = orders[f][i]
      <4>1. CASE f # e  BY <4>1, <2>0, <1>t DEF OrderTaken, EditTypeOK
      <4>2. CASE f = e
        <5>1. orders'[e] = Tail(orders[e]) /\ orders[e] \in Seq(Orders)
          BY <2>0, <1>t DEF OrderTaken, EditTypeOK
        <5>2. orders[e][i] # o  BY <2>2, <3>2, <4>2
        <5> QED BY <2>0, <4>2, <5>1, <5>2, TailElements
      <4> QED BY <4>1, <4>2
    <3>4. PICK j \in DOMAIN orders'[f] : IsForP(orders'[f][j])  BY <3>2, <3>3
    <3>5. j \in Uploading(p, orders'[f])  BY <3>4 DEF Uploading
    <3> QED BY <3>5 DEF Ordered
  <2>8. Ongoing(p)' = Ongoing(p)  BY <2>2, <2>4 DEF Ongoing
  <2>9. \A k \in Ongoing(p) : uploads'[k] = uploads[k]  BY <2>4 DEF Ongoing
  <2>10. Arriving(p) => Arriving(p)'  BY <2>3, <2>8, <2>9, <1>f DEF Arriving, CutText
  <2>11. CopyIsSaved(p)'  BY <2>3, <2>5, <1>f, CopyStays DEF ComesHome
  <2> QED BY <2>3, <2>5, <2>6, <2>7, <2>10, <2>11, <1>w DEF ComesHome, OnItsWay
<1>G. ASSUME NEW e \in Editors, TakeCloseOrder(e) PROVE ComesHome(p)'
  <2>1. /\ uploads' = uploads /\ watchers' = watchers /\ remote' = remote /\ copy' = copy
        /\ programs' = programs /\ fetching' = fetching /\ closed' = closed \cup {e} /\ saved' = saved
        /\ orders' = [orders EXCEPT ![e] = <<>>]
    BY <1>G DEF TakeCloseOrder, copies
  <2>2. p \notin lost /\ Uploading(p, orders[e]) = {}  BY <1>G, <1>n DEF TakeCloseOrder
  <2>3. \A i \in DOMAIN watchers : watchers[i].editor = e /\ HasNews(i) => watchers[i].file # p
    BY <1>G DEF TakeCloseOrder
  <2>4. ComesHome(p)  BY <2>2, <1>h
  <2>5. Unseen(p) => Unseen(p)'
    <3> SUFFICES ASSUME NEW i \in DOMAIN watchers, Watches(i, p), ~watchers[i].seen
                 PROVE  Unseen(p)'
      BY DEF Unseen
    <3>1. p \in programs  BY <1>t DEF AllGoHome, WatchersWatch, Watches
    <3>2. copy[LocalName(p)] # NoText  BY <3>1, <2>4, <1>n DEF ComesHome, CopyIsSaved
    <3>3. HasNews(i)  BY <3>2 DEF HasNews, Changed, Watches
    <3>4. watchers[i].editor # e  BY <3>3, <2>3 DEF Watches
    <3>5. Watches(i, p)'  BY <3>4, <2>1 DEF Watches, Watching
    <3> QED BY <3>5, <2>1 DEF Unseen
  <2>6. Ordered(p) => Ordered(p)'  BY <2>1, <2>2, <1>t DEF Ordered, EditTypeOK, Uploading
  <2> QED BY <2>1, <2>4, <2>5, <2>6, <1>c, <1>d, <1>f DEF ComesHome, OnItsWay
<1>H. ASSUME NEW q \in programs, Save(q) PROVE ComesHome(p)'
  <2>1. /\ uploads' = uploads /\ remote' = remote /\ programs' = programs /\ orders' = orders
        /\ fetching' = fetching /\ closed' = closed /\ watchers' = Touched(LocalName(q), watchers)
        /\ lost' = IF Watched(q) THEN lost \ {q} ELSE lost \cup {q}
    BY <1>H DEF Save
  <2>2. PICK n \in 1 .. MaxSaves : /\ Put(LocalName(q), Text(q, n))
                                   /\ saved' = [saved EXCEPT ![q] = Text(q, n)]
    BY <1>H DEF Save
  <2>3. n \in Nat /\ q \in Stored /\ q \in Paths  BY <1>t, EditAssumption DEF EditTypeOK
  <2>4. CASE q = p
    <3>1. copy'[p.name] = Text(p, n) /\ saved'[p] = Text(p, n)
      BY <2>2, <2>4, <1>n, <1>m, <1>t DEF Put, EditTypeOK
    <3>2. Text(p, n) # NoText  BY <1>n, <2>3, TextFacts DEF NoText
    <3>3. CopyIsSaved(p)'  BY <3>1, <3>2 DEF CopyIsSaved, NoText
    <3>4. PICK i \in DOMAIN watchers : Watches(i, p)  BY <2>1, <2>4 DEF Watched
    <3>5. /\ DOMAIN watchers' = DOMAIN watchers
          /\ watchers'[i].stage = watchers[i].stage /\ watchers'[i].editor = watchers[i].editor
          /\ watchers'[i].file = watchers[i].file
          /\ watchers'[i].seen => LocalName(watchers[i].file) # LocalName(q)
      BY <2>1, <1>t, TouchedFacts DEF EditTypeOK
    <3>6. Watches(i, p)' /\ ~watchers'[i].seen
      BY <3>4, <3>5, <2>1, <2>4 DEF Watches, Watching
    <3> QED BY <3>3, <3>5, <3>6 DEF ComesHome, OnItsWay, Unseen
  <2>5. CASE q # p
    <3>1. p \notin lost  BY <2>1, <2>5
    <3>2. copy'[p.name] = copy[p.name] /\ saved'[p] = saved[p]
      BY <2>2, <2>3, <2>5, <1>n, <1>t DEF Put, EditTypeOK
    <3>3. Unseen(p) => Unseen(p)'  BY <2>1, <1>v
    <3> QED BY <2>1, <3>1, <3>2, <3>3, <1>c, <1>d, <1>f, <1>h, <1>o DEF ComesHome, OnItsWay
  <2> QED BY <2>4, <2>5
<1>I. ASSUME NEW i \in DOMAIN watchers, StartWatching(i) PROVE ComesHome(p)'
  <2>1. /\ uploads' = uploads /\ remote' = remote /\ copy' = copy /\ programs' = programs /\ orders' = orders
        /\ fetching' = fetching /\ closed' = closed /\ saved' = saved /\ lost' = lost
        /\ watchers[i].stage = "starting"
    BY <1>I DEF StartWatching, copies
  <2>2. DOMAIN watchers' = DOMAIN watchers /\ \A j \in DOMAIN watchers : j # i => watchers'[j] = watchers[j]
    BY <1>I, <1>t DEF StartWatching, EditTypeOK
  <2>3. Unseen(p) => Unseen(p)'
    BY <2>1, <2>2 DEF Unseen, Watches, Watching
  <2> QED BY <2>1, <2>3, <1>c, <1>d, <1>f, <1>h, <1>o DEF ComesHome, OnItsWay
<1>J. ASSUME NEW i \in DOMAIN watchers, Look(i) PROVE ComesHome(p)'
  <2> DEFINE q == watchers[i].file
             e == watchers[i].editor
             o == [op |-> "upload", name |-> LocalName(q), dir |-> q.dir]
  <2>0. watchers[i] \in Watchers  BY <1>t, ElementFacts DEF EditTypeOK
  <2>1. e \in Editors /\ q \in Paths /\ q \in programs /\ q \in Stored
    BY <2>0, <1>t DEF Watchers, AllGoHome, WatchersWatch, EditTypeOK
  <2>2. o \in Orders /\ o.op = "upload" /\ o.name = LocalName(q) /\ o.dir = q.dir
    BY <2>1, TextFacts DEF Orders, SendOrders, Paths
  <2>3. /\ uploads' = uploads /\ remote' = remote /\ copy' = copy /\ programs' = programs
        /\ fetching' = fetching /\ closed' = closed /\ saved' = saved /\ lost' = lost
        /\ watchers' = [watchers EXCEPT ![i].seen = TRUE] /\ Order(e, o)
    BY <1>J DEF Look, copies
  <2> HIDE DEF o
  <2>4. DOMAIN watchers' = DOMAIN watchers /\ \A j \in DOMAIN watchers : j # i => watchers'[j] = watchers[j]
    BY <2>3, <1>t DEF EditTypeOK
  <2>5. Ordered(p) => Ordered(p)'  BY <1>t, <2>1, <2>2, <2>3, OrderedStays
  <2>6. q = p => Ordered(p)'
    <3> SUFFICES ASSUME q = p PROVE Ordered(p)'  OBVIOUS
    <3>1. orders'[e] = Append(orders[e], o) /\ orders[e] \in Seq(Orders)
      BY <2>1, <2>3, <1>t DEF Order, EditTypeOK
    <3>2. PICK j \in DOMAIN orders'[e] : orders'[e][j] = o  BY <2>2, <3>1, AppendedIsThere
    <3>3. [dir |-> o.dir, name |-> o.name] = p  BY <2>2, <1>n DEF Paths
    <3>4. j \in Uploading(p, orders'[e])  BY <2>2, <3>2, <3>3 DEF Uploading
    <3> QED BY <2>1, <3>4 DEF Ordered
  <2>7. Unseen(p) => Unseen(p)' \/ q = p
    BY <2>3, <2>4 DEF Unseen, Watches, Watching
  <2> QED BY <2>3, <2>5, <2>6, <2>7, <1>c, <1>d, <1>f, <1>h DEF ComesHome, OnItsWay
<1>K. ASSUME NEW i \in DOMAIN watchers, StopWatching(i) PROVE ComesHome(p)'
  <2>1. /\ uploads' = uploads /\ remote' = remote /\ copy' = copy /\ programs' = programs /\ orders' = orders
        /\ fetching' = fetching /\ closed' = closed /\ saved' = saved
        /\ watchers' = RemoveAt(watchers, i)
        /\ lost' = IF HasNews(i) THEN lost \cup {watchers[i].file} ELSE lost
    BY <1>K DEF StopWatching, copies
  <2>2. /\ \A j \in DOMAIN watchers' : watchers'[j] = watchers[Past(i, j)]
        /\ \A m \in DOMAIN watchers \ {i} : \E j \in DOMAIN watchers' : Past(i, j) = m
    BY <2>1, <1>t, RemoveElements DEF EditTypeOK
  <2>3. ComesHome(p)  BY <2>1, <1>h
  <2>4. ~(Watches(i, p) /\ ~watchers[i].seen)
    <3> SUFFICES ASSUME Watches(i, p), ~watchers[i].seen PROVE FALSE  OBVIOUS
    <3>1. p \in programs  BY <1>t DEF AllGoHome, WatchersWatch, Watches
    <3>2. copy[LocalName(p)] # NoText  BY <3>1, <2>3, <1>n DEF ComesHome, CopyIsSaved
    <3>3. HasNews(i)  BY <3>2 DEF HasNews, Changed, Watches
    <3> QED BY <3>3, <2>1 DEF Watches
  <2>5. Unseen(p) => Unseen(p)'
    <3> SUFFICES ASSUME NEW m \in DOMAIN watchers, Watches(m, p), ~watchers[m].seen PROVE Unseen(p)'
      BY DEF Unseen
    <3>1. PICK j \in DOMAIN watchers' : watchers'[j] = watchers[m]  BY <2>2, <2>4
    <3> QED BY <3>1, <2>1 DEF Unseen, Watches, Watching
  <2> QED BY <2>1, <2>3, <2>5, <1>c, <1>d, <1>f, <1>o DEF ComesHome, OnItsWay
<1>L. ASSUME NEW k \in DOMAIN uploads, UploadOpens(k) PROVE ComesHome(p)'
  <2>1. /\ watchers' = watchers /\ copy' = copy /\ programs' = programs /\ orders' = orders
        /\ fetching' = fetching /\ closed' = closed /\ saved' = saved
        /\ uploads[k].stage = "starting" /\ uploads' = [uploads EXCEPT ![k].stage = "open"]
        /\ remote' = [remote EXCEPT ![uploads[k].to] = CutText]
        /\ lost' = IF Ongoing(uploads[k].to) = {} THEN lost ELSE lost \cup {uploads[k].to}
    BY <1>L DEF UploadOpens
  <2>2. ComesHome(p)  BY <2>1, <1>h
  <2>3. uploads[k] \in Uploads  BY <1>t, ElementFacts DEF EditTypeOK
  <2>4. /\ DOMAIN uploads' = DOMAIN uploads
        /\ \A j \in DOMAIN uploads : j # k => uploads'[j] = uploads[j]
        /\ uploads'[k].to = uploads[k].to /\ uploads'[k].stage = "open"
    BY <2>1, <2>3, <1>t DEF EditTypeOK, Uploads
  <2>5. CopyIsSaved(p)'  BY <2>1, <2>2, <1>f, CopyStays DEF ComesHome
  <2>6. CASE uploads[k].to = p
    <3>1. Ongoing(p) = {} /\ remote'[p] = CutText  BY <2>1, <2>6, <1>n, <1>t DEF EditTypeOK
    <3>2. Ongoing(p)' = {k}  BY <3>1, <2>4, <2>6 DEF Ongoing
    <3>3. Arriving(p)'  BY <3>1, <3>2, <2>4 DEF Arriving, CutText
    <3> QED BY <3>3, <2>5 DEF ComesHome
  <2>7. CASE uploads[k].to # p
    <3>1. remote'[p] = remote[p]  BY <2>1, <2>7, <1>n, <1>t DEF EditTypeOK
    <3>2. Ongoing(p)' = Ongoing(p) /\ \A j \in Ongoing(p) : uploads'[j] = uploads[j]
      BY <2>4, <2>7 DEF Ongoing
    <3>3. Arriving(p) => Arriving(p)'  BY <2>1, <3>1, <3>2, <1>f DEF Arriving, CutText
    <3>4. Due(p) => Due(p)'  BY <2>4, <2>7 DEF Due
    <3> QED BY <2>1, <2>2, <2>5, <3>3, <3>4, <1>o, <1>w DEF ComesHome, OnItsWay
  <2> QED BY <2>6, <2>7
<1>M. ASSUME NEW k \in DOMAIN uploads, UploadReads(k) PROVE ComesHome(p)'
  <2> DEFINE t == copy[uploads[k].from]
  <2>1. /\ watchers' = watchers /\ copy' = copy /\ programs' = programs /\ orders' = orders /\ remote' = remote
        /\ fetching' = fetching /\ closed' = closed /\ saved' = saved /\ lost' = lost
        /\ uploads[k].stage = "open"
        /\ uploads' = [uploads EXCEPT ![k].stage = "read", ![k].text = IF t = NoText THEN CutText ELSE t]
    BY <1>M DEF UploadReads, copies
  <2>2. ComesHome(p)  BY <2>1, <1>h
  <2>3. uploads[k] \in Uploads  BY <1>t, ElementFacts DEF EditTypeOK
  <2>4. /\ DOMAIN uploads' = DOMAIN uploads
        /\ \A j \in DOMAIN uploads : j # k => uploads'[j] = uploads[j]
        /\ uploads'[k].to = uploads[k].to /\ uploads'[k].stage = "read"
        /\ uploads'[k].text = IF t = NoText THEN CutText ELSE t
    BY <2>1, <2>3, <1>t DEF EditTypeOK, Uploads
  <2>5. CopyIsSaved(p)'  BY <2>1, <2>2, <1>f, CopyStays DEF ComesHome
  <2>6. Due(p) => Due(p)'  BY <2>1, <2>4 DEF Due
  <2>7. Ongoing(p)' = Ongoing(p)  BY <2>1, <2>4 DEF Ongoing
  <2>8. uploads[k].to = p => Fetches(p) \/ uploads'[k].text = saved[p]
    <3> SUFFICES ASSUME uploads[k].to = p PROVE Fetches(p) \/ uploads'[k].text = saved[p]  OBVIOUS
    <3>1. p \in programs /\ uploads[k].from = p.name  BY <1>t, UploadIsFromTheCopy
    <3> QED BY <3>1, <2>2, <2>4 DEF ComesHome, CopyIsSaved
  <2>9. Arriving(p) => Arriving(p)'
    <3> SUFFICES ASSUME Arriving(p) PROVE Arriving(p)'  OBVIOUS
    <3>1. \A j \in Ongoing(p) : Fetches(p) \/ uploads'[j].stage = "open" \/ uploads'[j].text = saved[p]
      BY <2>4, <2>8 DEF Arriving, Ongoing
    <3> QED BY <2>1, <2>7, <3>1, <1>f DEF Arriving, CutText
  <2> QED BY <2>1, <2>2, <2>5, <2>6, <2>9, <1>o, <1>w DEF ComesHome, OnItsWay
<1>N. ASSUME NEW k \in DOMAIN uploads, UploadWrites(k) PROVE ComesHome(p)'
  <2>1. /\ watchers' = watchers /\ copy' = copy /\ programs' = programs /\ orders' = orders
        /\ fetching' = fetching /\ closed' = closed /\ saved' = saved /\ lost' = lost
        /\ uploads[k].stage = "read" /\ uploads' = RemoveAt(uploads, k)
        /\ remote' = [remote EXCEPT ![uploads[k].to] = IF @ = NoText THEN @ ELSE uploads[k].text]
    BY <1>N DEF UploadWrites
  <2>2. ComesHome(p)  BY <2>1, <1>h
  <2>3. CopyIsSaved(p)'  BY <2>1, <2>2, <1>f, CopyStays DEF ComesHome
  <2>4. Due(p) => Due(p)'  BY <2>1, <1>t, DueStaysBesideOthers
  <2>5. Arriving(p) => Arriving(p)'
    <3> SUFFICES ASSUME Arriving(p) PROVE Arriving(p)'  OBVIOUS
    <3>1. CASE uploads[k].to # p
      <4>1. remote'[p] = remote[p]  BY <2>1, <3>1, <1>n, <1>t DEF EditTypeOK
      <4> QED BY <2>1, <3>1, <4>1, <1>t, <1>f, ArrivingStaysBesideOthers
    <3>2. CASE uploads[k].to = p
      <4>1. k \in Ongoing(p)  BY <2>1, <3>2 DEF Ongoing
      <4>2. Fetches(p) \/ uploads[k].text = saved[p]  BY <4>1, <2>1 DEF Arriving
      <4>3. remote[p] # NoText  BY <4>1, TextFacts DEF Arriving
      <4>4. remote'[p] = uploads[k].text  BY <2>1, <3>2, <4>3, <1>n, <1>t DEF EditTypeOK
      <4>5. \A j \in DOMAIN uploads' :
              Past(k, j) \in DOMAIN uploads \ {k} /\ uploads'[j] = uploads[Past(k, j)]
        BY <2>1, <1>t, RemoveElements DEF EditTypeOK
      <4>6. \A j \in Ongoing(p)' : Past(k, j) \in Ongoing(p) /\ Past(k, j) # k
        BY <4>5 DEF Ongoing
      <4>7. Ongoing(p)' = {}  BY <4>1, <4>6 DEF Arriving
      <4> QED BY <2>1, <4>2, <4>4, <4>7, <1>f DEF Arriving
    <3> QED BY <3>1, <3>2
  <2> QED BY <2>1, <2>2, <2>3, <2>4, <2>5, <1>o, <1>w DEF ComesHome, OnItsWay
<1>O. ASSUME NEW k \in DOMAIN uploads, UploadFails(k) PROVE ComesHome(p)'
  <2>1. /\ watchers' = watchers /\ copy' = copy /\ programs' = programs /\ orders' = orders
        /\ fetching' = fetching /\ closed' = closed /\ saved' = saved
        /\ uploads' = RemoveAt(uploads, k) /\ lost' = lost \cup {uploads[k].to}
        /\ remote' \in {remote, [remote EXCEPT ![uploads[k].to] = NoText]}
    BY <1>O DEF UploadFails
  <2>2. ComesHome(p) /\ uploads[k].to # p  BY <2>1, <1>h
  <2>3. CopyIsSaved(p)'  BY <2>1, <2>2, <1>f, CopyStays DEF ComesHome
  <2>4. Due(p) => Due(p)'  BY <2>1, <2>2, <1>t, DueStaysBesideOthers
  <2>5. remote'[p] = remote[p]  BY <2>1, <2>2, <1>n, <1>t DEF EditTypeOK
  <2>6. Arriving(p) => Arriving(p)'
    BY <2>1, <2>2, <2>5, <1>t, <1>f, ArrivingStaysBesideOthers
  <2> QED BY <2>1, <2>2, <2>3, <2>4, <2>6, <1>o, <1>w DEF ComesHome, OnItsWay
<1> QED BY <1>A, <1>B, <1>C, <1>D, <1>E, <1>F, <1>G, <1>H, <1>I, <1>J, <1>K, <1>L, <1>M, <1>N, <1>O
        DEF EditNext

LEMMA EditInvHolds == EditInit => EditInv
<1> SUFFICES ASSUME EditInit PROVE EditInv  OBVIOUS
<1>1. EditTypeOK  BY EditTypesHold
<1>2. AllGoHome  BY DEF EditInit, AllGoHome, OrdersGoHome, WatchersWatch, UploadsGoHome
<1>3. SavedAreOfTheirFile
  BY EditAssumption, TextFacts DEF EditInit, SavedAreOfTheirFile
<1>4. ASSUME NEW p \in Stored PROVE ComesHome(p)
  BY <1>4 DEF EditInit, ComesHome, CopyIsSaved, Arriving, Ongoing
<1> QED BY <1>1, <1>2, <1>3, <1>4 DEF EditInv

LEMMA EditInvStays == EditInv /\ [EditNext]_editVars => EditInv'
<1> SUFFICES ASSUME EditInv, [EditNext]_editVars PROVE EditInv'  OBVIOUS
<1>0. EditTypeOK /\ AllGoHome /\ SavedAreOfTheirFile  BY DEF EditInv
<1>1. EditTypeOK'  BY <1>0, EditTypesStay
<1>2. AllGoHome'  BY <1>0, AllGoHomeStays
<1>3. SavedAreOfTheirFile'
  <2>1. CASE saved' = saved  BY <2>1, <1>0 DEF SavedAreOfTheirFile
  <2>2. ASSUME NEW q \in programs, Save(q) PROVE SavedAreOfTheirFile'
    <3>1. PICK n \in 1 .. MaxSaves : saved' = [saved EXCEPT ![q] = Text(q, n)]  BY <2>2 DEF Save
    <3>2. n \in Nat /\ q \in Paths  BY <1>0, EditAssumption DEF EditTypeOK
    <3>3. Text(q, n).of = {q}  BY <3>2, TextFacts
    <3> QED BY <3>1, <3>3, <1>0, EditAssumption DEF SavedAreOfTheirFile, EditTypeOK
  <2>3. saved' = saved \/ \E q \in programs : Save(q)
    BY DEF EditNext, editVars, OpenExternally, CloseSftpOf, TakeOpenOrder, Fetched, FetchFails,
           TakeUploadOrder, TakeCloseOrder, StartWatching, Look, StopWatching, UploadOpens, UploadReads,
           UploadWrites, UploadFails
  <2> QED BY <2>1, <2>2, <2>3
<1>4. \A p \in Stored : Alone(p) /\ p \notin lost' => ComesHome(p)'  BY ComesHomeStays
<1>5. \A p \in Stored : Alone(p)' <=> Alone(p)  BY DEF Alone, LocalName
<1> QED BY <1>1, <1>2, <1>3, <1>4, <1>5 DEF EditInv

LEMMA ComesHomeSuffices == EditInv => EditsComeHome
<1> SUFFICES ASSUME EditInv, NEW p \in Stored, Alone(p), Watched(p), Quiet(p), p \notin lost
             PROVE  remote[p] = saved[p]
  BY DEF EditsComeHome
<1>1. ComesHome(p) /\ AllGoHome  BY DEF EditInv
<1>2. ~Ordered(p) /\ ~Due(p) /\ ~Fetches(p) /\ Ongoing(p) = {}
  BY DEF Quiet, Ordered, Due, Fetches, Ongoing
<1>3. p \in programs  BY <1>1 DEF Watched, Watches, AllGoHome, WatchersWatch
<1>4. copy[LocalName(p)] # NoText  BY <1>1, <1>3, AloneFacts DEF ComesHome, CopyIsSaved
<1>5. ~Unseen(p)  BY <1>4 DEF Unseen, Quiet, Changed, Watches
<1> QED BY <1>1, <1>2, <1>5 DEF ComesHome, OnItsWay, Arriving

\* Once nothing is under way, the file on the server is what was saved last in a program,
\* for any number of workers, files, programs, watchers and uploads (spawn_edit_watcher,
\* sftp.rs).
THEOREM EditsAllComeHome == EditSpec => []EditsComeHome
<1>1. EditSpec => []EditInv
  BY EditInvHolds, EditInvStays, PTL DEF EditSpec
<1> QED BY <1>1, ComesHomeSuffices, PTL
=============================================================================
