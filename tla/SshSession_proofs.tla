------------------------- MODULE SshSession_proofs -------------------------
(***************************************************************************)
(* What holds of an SSH session, for every value of the constants: of the  *)
(* check of its host key (HostKeyTrust), for every set of connections,     *)
(* hosts and keys and every mix of policies and faults; then of the output *)
(* of its shell (ShellStream), for every stream of any length, wherever a  *)
(* read ends.                                                              *)
(***************************************************************************)
EXTENDS HostKeyTrust, ShellStream, FiniteSetTheorems, TLAPS

(***************************************************************************)
(* The host key check.                                                     *)
(***************************************************************************)
(* The queue after a prompt is added, changed in place, or taken.          *)
LEMMA AppendFacts ==
  ASSUME NEW S, NEW q \in Seq(S), NEW e \in S
  PROVE  /\ Append(q, e) \in Seq(S)
         /\ Len(Append(q, e)) = Len(q) + 1
         /\ \A i \in 1..Len(q) : Append(q, e)[i] = q[i]
         /\ Append(q, e)[Len(q) + 1] = e
  OBVIOUS

LEMMA MapFacts ==
  ASSUME NEW S, NEW n \in Nat, NEW q \in [1..n -> S]
  PROVE  q \in Seq(S) /\ Len(q) = n
  OBVIOUS

LEMMA TailFacts ==
  ASSUME NEW S, NEW q \in Seq(S), q # <<>>
  PROVE  /\ Tail(q) \in Seq(S)
         /\ Len(q) \in Nat /\ Len(q) > 0 /\ Len(Tail(q)) = Len(q) - 1
         /\ \A i \in 1..Len(Tail(q)) : i + 1 \in 1..Len(q) /\ Tail(q)[i] = q[i + 1]
         /\ Head(q) = q[1] /\ Head(q) \in S
  OBVIOUS

-----------------------------------------------------------------------------
(* Types.  A check that has begun knows the key of its server, which is    *)
(* what its prompt shows and its save stores.                              *)
KeyIsKept ==
  /\ \A c \in Checks : pc[c] # "idle" => key[c] \in Keys
  /\ \A i \in 1..Len(queue) : \A c \in queue[i].waiting : key[c] \in Keys

Typed == TypeOK /\ KeyIsKept

LEMMA InitTypes == Init => Typed
<1> SUFFICES ASSUME Init PROVE Typed
  OBVIOUS
<1>1. file \in Contents /\ queue = <<>> /\ Len(queue) = 0
  BY DEF Init
<1>2. KeyIsKept
  BY <1>1 DEF Init, KeyIsKept
<1>3. TypeOK
  <2>1. /\ pc \in [Checks -> Resting \cup Saving \cup {"posted", "queued"}]
        /\ key \in [Checks -> Keys \cup {NoKey}]
        /\ status \in [Checks -> {"none", "match", "unknown", "changed"}]
    BY DEF Init, Resting
  <2>2. /\ snapshot \in [Checks -> Contents]
        /\ decided \in [Hosts -> {"none", "accept", "reject"}]
    BY DEF Init, Contents, Empty
  <2>3. queue \in Seq(Entry)
    BY DEF Init
  <2>4. window \in BOOLEAN /\ disturbed \in BOOLEAN /\ recorded \in Contents
    BY <1>1 DEF Init
  <2> QED BY <1>1, <2>1, <2>2, <2>3, <2>4 DEF TypeOK
<1> QED BY <1>2, <1>3 DEF Typed

LEMMA CheckTypes ==
  ASSUME Typed, NEW c \in Checks, NEW k \in Keys, CheckServerKey(c, k)
  PROVE  Typed'
<1>1. Verify(HostOf[c], k) \in {"match", "unknown", "changed"}
  BY DEF Verify
<1>2. AfterVerify(Policy[c], Verify(HostOf[c], k))
        \in {"trusted", "load", "refused", "posted"}
  BY <1>1 DEF AfterVerify
<1> QED BY <1>1, <1>2 DEF CheckServerKey, Typed, TypeOK, KeyIsKept, Resting, Saving,
                          past

LEMMA SaveTypes ==
  ASSUME Typed, NEW c \in Checks, Save(c)
  PROVE  Typed'
<1>1. CASE LoadKnownHosts(c)
  <2>1. key[c] \in Keys
    BY <1>1 DEF LoadKnownHosts, Typed, KeyIsKept
  <2>2. [file EXCEPT ![HostOf[c]] = {key[c]}] \in Contents
    BY <2>1, HostOfAssumption DEF Typed, TypeOK, Contents
  <2> QED BY <1>1, <2>2 DEF LoadKnownHosts, Typed, TypeOK, KeyIsKept, Saving, past
<1>2. CASE TruncateKnownHosts(c)
  BY <1>2 DEF TruncateKnownHosts, Typed, TypeOK, KeyIsKept, Saving, Contents, Empty,
              past
<1>3. CASE WriteKnownHosts(c)
  BY <1>3 DEF WriteKnownHosts, Typed, TypeOK, KeyIsKept, Resting, Contents, Empty
<1>4. CASE SaveFails(c)
  BY <1>4 DEF SaveFails, Typed, TypeOK, KeyIsKept, Resting, Contents, Empty
<1> QED BY <1>1, <1>2, <1>3, <1>4 DEF Save

(* What the queue becomes when a prompt is posted to it.                   *)
LEMMA MergeFacts ==
  ASSUME TypeOK, NEW c \in Checks, MergePrompt(c)
  PROVE  /\ queue' \in Seq(Entry) /\ Len(queue') = Len(queue)
         /\ \A i \in 1..Len(queue) :
              /\ queue'[i].host = queue[i].host
              /\ queue'[i].waiting = IF queue[i].host = HostOf[c]
                                     THEN queue[i].waiting \cup {c}
                                     ELSE queue[i].waiting
<1>1. \A i \in 1..Len(queue) : queue[i] \in Entry
  BY DEF TypeOK
<1>2. \A i \in 1..Len(queue) : queue'[i] \in Entry
  BY <1>1 DEF MergePrompt, Entry
<1>3. queue' \in [1..Len(queue) -> Entry]
  BY <1>2 DEF MergePrompt
<1>4. Len(queue) \in Nat
  BY DEF TypeOK
<1>5. queue' \in Seq(Entry) /\ Len(queue') = Len(queue)
  BY <1>3, <1>4, MapFacts
<1> QED BY <1>1, <1>5 DEF MergePrompt, Entry

LEMMA EnqueueTypes ==
  ASSUME Typed, NEW c \in Checks, EnqueuePrompt(c)
  PROVE  Typed'
<1>1. CASE decided[HostOf[c]] # "none"
  BY <1>1 DEF EnqueuePrompt, Answer, Typed, TypeOK, KeyIsKept, Resting, Saving, past
<1>2. CASE decided[HostOf[c]] = "none"
  <2>1. CASE MergePrompt(c)
    <3>1. queue' \in Seq(Entry) /\ Len(queue') = Len(queue)
      BY <2>1, MergeFacts DEF Typed
    <3>2. \A i \in 1..Len(queue) : queue'[i].waiting \subseteq queue[i].waiting \cup {c}
      BY <2>1, MergeFacts DEF Typed
    <3>3. TypeOK'
      BY <1>2, <3>1 DEF EnqueuePrompt, Typed, TypeOK, past
    <3>4. UNCHANGED key /\ pc[c] = "posted" /\ pc' = [pc EXCEPT ![c] = "queued"]
      BY <1>2 DEF EnqueuePrompt
    <3>5. KeyIsKept'
      BY <3>1, <3>2, <3>4 DEF Typed, TypeOK, KeyIsKept
    <3> QED BY <3>3, <3>5 DEF Typed
  <2>2. CASE queue' = Append(queue, [host |-> HostOf[c], key |-> key[c],
                                     waiting |-> {c}])
    <3>1. [host |-> HostOf[c], key |-> key[c], waiting |-> {c}] \in Entry
      BY HostOfAssumption DEF EnqueuePrompt, Typed, KeyIsKept, Entry
    <3>2. queue' \in Seq(Entry)
      BY <2>2, <3>1, AppendFacts DEF Typed, TypeOK
    <3>3. \A i \in 1..Len(queue') :
            \/ i \in 1..Len(queue) /\ queue'[i] = queue[i]
            \/ queue'[i].waiting = {c}
      BY <2>2, <3>1, AppendFacts DEF Typed, TypeOK
    <3>4. TypeOK'
      BY <1>2, <3>2 DEF EnqueuePrompt, Typed, TypeOK, past
    <3>5. UNCHANGED key /\ pc[c] = "posted" /\ pc' = [pc EXCEPT ![c] = "queued"]
      BY <1>2 DEF EnqueuePrompt
    <3>6. KeyIsKept'
      BY <3>3, <3>5 DEF Typed, TypeOK, KeyIsKept
    <3> QED BY <3>4, <3>6 DEF Typed
  <2> QED BY <1>2, <2>1, <2>2 DEF EnqueuePrompt
<1> QED BY <1>1, <1>2

LEMMA ResolveTypes ==
  ASSUME Typed, NEW accept \in BOOLEAN, ResolveFront(accept)
  PROVE  Typed'
<1>1. queue \in Seq(Entry) /\ queue # <<>>
  BY DEF Typed, TypeOK, ResolveFront
<1>2. Head(queue) \in Entry /\ Tail(queue) \in Seq(Entry)
  BY <1>1, TailFacts
<1>3. /\ Head(queue).host \in Hosts /\ Head(queue).key \in Keys
      /\ Head(queue).waiting \in SUBSET Checks
  BY <1>2 DEF Entry
<1>4. pc' \in [Checks -> Resting \cup Saving \cup {"posted", "queued"}]
  BY DEF ResolveFront, Answer, Typed, TypeOK, Resting, Saving
<1>5. decided' \in [Hosts -> {"none", "accept", "reject"}]
  BY DEF ResolveFront, Typed, TypeOK
<1>6. KeyIsKept'
  <2>1. \A i \in 1..Len(Tail(queue)) : i + 1 \in 1..Len(queue)
                                       /\ Tail(queue)[i] = queue[i + 1]
    BY <1>1, TailFacts
  <2>2. \A c \in Head(queue).waiting : key[c] \in Keys
    BY <1>1, TailFacts DEF Typed, KeyIsKept
  <2>3. \A c \in Checks : pc'[c] = pc[c] \/ c \in Head(queue).waiting
    BY DEF ResolveFront, Answer
  <2> QED BY <2>1, <2>2, <2>3 DEF ResolveFront, Typed, KeyIsKept
<1> QED
  BY <1>2, <1>4, <1>5, <1>6 DEF ResolveFront, Typed, TypeOK, past

LEMMA UnheardTypes ==
  ASSUME Typed, WindowGone \/ \E c \in Checks : NobodyToAsk(c)
  PROVE  Typed'
<1>1. CASE WindowGone
  <2>1. queue' \in Seq(Entry) /\ Len(queue') = 0
    BY <1>1 DEF WindowGone
  <2>2. \A c \in Checks : pc'[c] = IF pc[c] = "queued" THEN "refused" ELSE pc[c]
    BY <1>1 DEF WindowGone, Answer
  <2>3. pc' \in [Checks -> Resting \cup Saving \cup {"posted", "queued"}]
    BY <1>1 DEF WindowGone, Answer, Typed, TypeOK, Resting
  <2>4. TypeOK'
    BY <1>1, <2>1, <2>3 DEF WindowGone, Typed, TypeOK, past
  <2>5. KeyIsKept'
    <3>1. UNCHANGED key
      BY <1>1 DEF WindowGone
    <3>2. \A c \in Checks : pc'[c] # "idle" => pc[c] # "idle"
      BY <2>2
    <3> QED BY <2>1, <3>1, <3>2 DEF Typed, KeyIsKept
  <2> QED BY <2>4, <2>5 DEF Typed
<1>2. ASSUME NEW c \in Checks, NobodyToAsk(c)
      PROVE  Typed'
  BY <1>2 DEF NobodyToAsk, Typed, TypeOK, KeyIsKept, Resting, past
<1> QED BY <1>1, <1>2

LEMMA StepTypes == Typed /\ [Next]_vars => Typed'
<1> SUFFICES ASSUME Typed, [Next]_vars PROVE Typed'
  OBVIOUS
<1>1. CASE Restart
  BY <1>1 DEF Restart, Typed, TypeOK, KeyIsKept, Resting, Contents, Empty, Entry
<1>2. CASE UNCHANGED vars
  BY <1>2 DEF vars, Typed, TypeOK, KeyIsKept, past
<1> QED
  BY <1>1, <1>2, CheckTypes, SaveTypes, EnqueueTypes, ResolveTypes, UnheardTypes
     DEF Next

(* Every reachable state has the declared types, however many connections  *)
(* ask about however many hosts.                                           *)
THEOREM TypeCorrect == Spec => []TypeOK
<1>1. Typed => TypeOK
  BY DEF Typed
<1> QED BY <1>1, InitTypes, StepTypes, PTL DEF Spec
-----------------------------------------------------------------------------
(* The queue and the blocked checks.  A step of a check that is not        *)
(* blocked leaves both alone.                                              *)
LEMMA QuietStep ==
  ASSUME TypeOK, PromptsMatchChecks, UNCHANGED <<queue, decided>>,
         NEW c \in Checks,
         pc[c] # "queued", pc'[c] # "queued",
         \A d \in Checks \ {c} : pc'[d] = pc[d]
  PROVE  PromptsMatchChecks'
<1>1. \A i \in 1..Len(queue) : queue[i].waiting \subseteq Checks \ {c}
  <2> SUFFICES ASSUME NEW i \in 1..Len(queue)
               PROVE  queue[i].waiting \subseteq Checks \ {c}
    OBVIOUS
  <2>1. queue[i] \in Entry
    BY DEF TypeOK
  <2>2. queue[i].waiting \subseteq Checks
    BY <2>1 DEF Entry
  <2>3. c \notin queue[i].waiting
    BY DEF PromptsMatchChecks
  <2> QED BY <2>2, <2>3
<1>2. \A i \in 1..Len(queue) : \A d \in queue[i].waiting :
        pc'[d] = "queued" /\ HostOf[d] = queue[i].host
  BY <1>1 DEF PromptsMatchChecks
<1>3. \A d \in Checks : pc'[d] = "queued" =>
        \E i \in 1..Len(queue) : d \in queue[i].waiting
  BY DEF PromptsMatchChecks
<1> QED BY <1>2, <1>3 DEF PromptsMatchChecks

LEMMA EnqueueMatches ==
  ASSUME Typed, PromptsMatchChecks, NEW c \in Checks, EnqueuePrompt(c)
  PROVE  PromptsMatchChecks'
<1> DEFINE Alone == [host |-> HostOf[c], key |-> key[c], waiting |-> {c}]
<1>1. CASE decided[HostOf[c]] # "none"
  <2>1. /\ pc[c] # "queued" /\ pc'[c] # "queued"
        /\ \A d \in Checks \ {c} : pc'[d] = pc[d]
        /\ UNCHANGED <<queue, decided>>
    BY <1>1 DEF EnqueuePrompt, Answer, Typed, TypeOK
  <2> QED BY <2>1, QuietStep DEF Typed
<1>2. CASE decided[HostOf[c]] = "none"
  <2>1. /\ pc[c] = "posted" /\ pc'[c] = "queued"
        /\ \A d \in Checks \ {c} : pc'[d] = pc[d]
        /\ UNCHANGED decided
    BY <1>2 DEF EnqueuePrompt, Typed, TypeOK
  <2>2. CASE MergePrompt(c)
    <3>1. /\ Len(queue') = Len(queue)
          /\ \A i \in 1..Len(queue) :
               /\ queue'[i].host = queue[i].host
               /\ queue'[i].waiting = IF queue[i].host = HostOf[c]
                                      THEN queue[i].waiting \cup {c}
                                      ELSE queue[i].waiting
      BY <2>2, MergeFacts DEF Typed
    <3>2. \E i \in 1..Len(queue) : queue[i].host = HostOf[c]
      BY <2>2 DEF MergePrompt, QueuedHosts
    <3>3. ASSUME NEW i \in 1..Len(queue')
          PROVE  /\ decided'[queue'[i].host] = "none"
                 /\ queue'[i].waiting # {}
                 /\ \A d \in queue'[i].waiting :
                      pc'[d] = "queued" /\ HostOf[d] = queue'[i].host
                 /\ \A j \in 1..Len(queue') :
                      queue'[i].host = queue'[j].host => i = j
      <4>1. \A d \in queue[i].waiting : pc'[d] = "queued" /\ HostOf[d] = queue[i].host
        <5> SUFFICES ASSUME NEW d \in queue[i].waiting
                     PROVE  pc'[d] = "queued" /\ HostOf[d] = queue[i].host
          OBVIOUS
        <5>1. queue[i] \in Entry
          BY <3>1, <3>3 DEF Typed, TypeOK
        <5>2. d \in Checks
          BY <5>1 DEF Entry
        <5> QED BY <2>1, <3>1, <3>3, <5>2 DEF PromptsMatchChecks
      <4>2. queue[i].waiting # {}
        BY <3>1, <3>3 DEF PromptsMatchChecks
      <4>3. decided'[queue'[i].host] = "none"
        BY <2>1, <3>1, <3>3 DEF PromptsMatchChecks
      <4>4. \A d \in queue'[i].waiting :
              pc'[d] = "queued" /\ HostOf[d] = queue'[i].host
        BY <2>1, <3>1, <3>3, <4>1, ZenonT(30)
      <4>5. queue'[i].waiting # {}
        BY <3>1, <3>3, <4>2
      <4>6. \A j \in 1..Len(queue') : queue'[i].host = queue'[j].host => i = j
        BY <3>1, <3>3 DEF PromptsMatchChecks
      <4> QED BY <4>3, <4>4, <4>5, <4>6
    <3>4. ASSUME NEW d \in Checks, pc'[d] = "queued"
          PROVE  \E i \in 1..Len(queue') : d \in queue'[i].waiting
      <4>1. CASE d = c
        <5>1. PICK i \in 1..Len(queue) : queue[i].host = HostOf[c]
          BY <3>2
        <5> QED BY <3>1, <4>1, <5>1
      <4>2. CASE d # c
        <5>1. pc[d] = "queued"
          BY <2>1, <3>4, <4>2
        <5>2. PICK i \in 1..Len(queue) : d \in queue[i].waiting
          BY <5>1 DEF PromptsMatchChecks
        <5>3. i \in 1..Len(queue') /\ d \in queue'[i].waiting
          BY <3>1, <5>2
        <5> QED BY <5>3
      <4> QED BY <4>1, <4>2
    <3> QED BY <3>3, <3>4 DEF PromptsMatchChecks
  <2>3. CASE HostOf[c] \notin QueuedHosts /\ queue' = Append(queue, Alone)
    <3>1. Alone \in Entry
      BY <2>1, HostOfAssumption DEF Typed, KeyIsKept, Entry
    <3>2. /\ Len(queue') = Len(queue) + 1 /\ Len(queue) \in Nat
          /\ \A i \in 1..Len(queue) : queue'[i] = queue[i]
          /\ queue'[Len(queue) + 1] = Alone
      BY <2>3, <3>1, AppendFacts DEF Typed, TypeOK
    <3>3. \A i \in 1..Len(queue) : queue[i].host # HostOf[c]
      BY <2>3 DEF QueuedHosts
    <3>4. Alone.host = HostOf[c] /\ Alone.waiting = {c}
      OBVIOUS
    <3>5. ASSUME NEW i \in 1..Len(queue)
          PROVE  /\ decided'[queue[i].host] = "none"
                 /\ queue[i].waiting # {}
                 /\ \A d \in queue[i].waiting :
                      pc'[d] = "queued" /\ HostOf[d] = queue[i].host
      <4>1. queue[i] \in Entry
        BY <3>5 DEF Typed, TypeOK
      <4> QED BY <2>1, <4>1 DEF PromptsMatchChecks, Entry
    <3>6. ASSUME NEW i \in 1..Len(queue'), NEW j \in 1..Len(queue'),
                 queue'[i].host = queue'[j].host
          PROVE  i = j
      <4> HIDE DEF Alone
      <4>1. i \in 1..Len(queue) \/ i = Len(queue) + 1
        BY <3>2
      <4>2. j \in 1..Len(queue) \/ j = Len(queue) + 1
        BY <3>2
      <4> QED BY <3>2, <3>3, <3>4, <3>6, <4>1, <4>2 DEF PromptsMatchChecks
    <3>7. ASSUME NEW i \in 1..Len(queue')
          PROVE  /\ decided'[queue'[i].host] = "none"
                 /\ queue'[i].waiting # {}
                 /\ \A d \in queue'[i].waiting :
                      pc'[d] = "queued" /\ HostOf[d] = queue'[i].host
      <4> HIDE DEF Alone
      <4>1. CASE i \in 1..Len(queue)
        BY <3>2, <3>5, <4>1
      <4>2. CASE i = Len(queue) + 1
        BY <1>2, <2>1, <3>2, <3>4, <4>2
      <4> QED BY <3>2, <3>7, <4>1, <4>2
    <3>8. ASSUME NEW d \in Checks, pc'[d] = "queued"
          PROVE  \E i \in 1..Len(queue') : d \in queue'[i].waiting
      <4> HIDE DEF Alone
      <4>1. CASE d = c
        BY <3>2, <3>4, <4>1
      <4>2. CASE d # c
        BY <2>1, <3>2, <3>8, <4>2 DEF PromptsMatchChecks
      <4> QED BY <4>1, <4>2
    <3> HIDE DEF Alone
    <3> QED BY <3>6, <3>7, <3>8 DEF PromptsMatchChecks
  <2> QED BY <1>2, <2>2, <2>3 DEF EnqueuePrompt
<1> QED BY <1>1, <1>2

LEMMA ResolveMatches ==
  ASSUME Typed, PromptsMatchChecks, NEW accept \in BOOLEAN, ResolveFront(accept)
  PROVE  PromptsMatchChecks'
<1>1. queue \in Seq(Entry) /\ queue # <<>>
  BY DEF Typed, TypeOK, ResolveFront
<1>2. /\ queue' = Tail(queue) /\ Len(queue) \in Nat /\ Len(queue) > 0
      /\ Len(queue') = Len(queue) - 1
      /\ \A i \in 1..Len(queue') : i + 1 \in 1..Len(queue)
                                   /\ queue'[i] = queue[i + 1]
      /\ Head(queue) = queue[1]
  BY <1>1, TailFacts DEF ResolveFront
<1>3. \A i \in 1..Len(queue) : queue[i] \in Entry
  BY <1>1
<1>4. \A d \in Checks : /\ d \in queue[1].waiting => pc'[d] \in {"load", "refused"}
                        /\ d \notin queue[1].waiting => pc'[d] = pc[d]
  BY <1>2 DEF ResolveFront, Answer
<1>5. \A h \in Hosts : h # queue[1].host => decided'[h] = decided[h]
  BY <1>2 DEF ResolveFront, Typed, TypeOK
<1>6. ASSUME NEW i \in 1..Len(queue')
      PROVE  /\ decided'[queue'[i].host] = "none"
             /\ queue'[i].waiting # {}
             /\ \A d \in queue'[i].waiting :
                  pc'[d] = "queued" /\ HostOf[d] = queue'[i].host
  <2>1. /\ i + 1 \in 1..Len(queue) /\ i + 1 # 1 /\ 1 \in 1..Len(queue)
        /\ queue'[i] = queue[i + 1]
    BY <1>2, <1>6
  <2>2. queue[i + 1].host # queue[1].host
    BY <2>1 DEF PromptsMatchChecks
  <2>3. queue[i + 1].host \in Hosts /\ queue[i + 1].waiting \subseteq Checks
    BY <1>3, <2>1 DEF Entry
  <2>4. \A d \in queue[i + 1].waiting : d \notin queue[1].waiting
    BY <2>1, <2>2 DEF PromptsMatchChecks
  <2> QED BY <1>4, <1>5, <2>1, <2>2, <2>3, <2>4 DEF PromptsMatchChecks
<1>7. ASSUME NEW i \in 1..Len(queue'), NEW j \in 1..Len(queue'),
             queue'[i].host = queue'[j].host
      PROVE  i = j
  <2>1. i + 1 = j + 1
    BY <1>2, <1>7 DEF PromptsMatchChecks
  <2> QED BY <1>2, <2>1
<1>8. ASSUME NEW d \in Checks, pc'[d] = "queued"
      PROVE  \E i \in 1..Len(queue') : d \in queue'[i].waiting
  <2>1. d \notin queue[1].waiting /\ pc[d] = "queued"
    BY <1>4, <1>8
  <2>2. PICK k \in 1..Len(queue) : d \in queue[k].waiting
    BY <2>1 DEF PromptsMatchChecks
  <2>3. k # 1 /\ k - 1 \in 1..Len(queue')
    BY <1>2, <2>1, <2>2
  <2>4. queue'[k - 1] = queue[k]
    BY <1>2, <2>3
  <2> QED BY <2>2, <2>3, <2>4
<1> QED BY <1>6, <1>7, <1>8 DEF PromptsMatchChecks

LEMMA OneCheckMoves ==
  ASSUME Typed, NEW c \in Checks,
         Save(c) \/ \E k \in Keys : CheckServerKey(c, k)
  PROVE  /\ pc[c] \notin {"queued", "posted"} /\ pc'[c] # "queued"
         /\ \A d \in Checks \ {c} : pc'[d] = pc[d] /\ status'[d] = status[d]
         /\ UNCHANGED <<queue, decided>>
<1>1. CASE Save(c)
  BY <1>1 DEF Save, LoadKnownHosts, TruncateKnownHosts, WriteKnownHosts,
              SaveFails, Typed, TypeOK
<1>2. ASSUME NEW k \in Keys, CheckServerKey(c, k)
      PROVE  /\ pc[c] \notin {"queued", "posted"} /\ pc'[c] # "queued"
             /\ \A d \in Checks \ {c} : pc'[d] = pc[d] /\ status'[d] = status[d]
             /\ UNCHANGED <<queue, decided>>
  <2>1. AfterVerify(Policy[c], Verify(HostOf[c], k)) # "queued"
    BY DEF AfterVerify
  <2> QED BY <1>2, <2>1 DEF CheckServerKey, Resting, Typed, TypeOK
<1> QED BY <1>1, <1>2

LEMMA StepMatches == Typed /\ PromptsMatchChecks /\ [Next]_vars => PromptsMatchChecks'
<1> SUFFICES ASSUME Typed, PromptsMatchChecks, [Next]_vars
             PROVE  PromptsMatchChecks'
  OBVIOUS
<1>1. ASSUME NEW c \in Checks, Save(c) \/ \E k \in Keys : CheckServerKey(c, k)
      PROVE  PromptsMatchChecks'
  BY <1>1, OneCheckMoves, QuietStep DEF Typed
<1>2. CASE Restart
  BY <1>2 DEF Restart, PromptsMatchChecks
<1>3. CASE UNCHANGED vars
  BY <1>3 DEF vars, PromptsMatchChecks
<1>4. CASE WindowGone
  <2>1. Len(queue') = 0 /\ \A c \in Checks : pc'[c] # "queued"
    BY <1>4 DEF WindowGone, Answer
  <2> QED BY <2>1 DEF PromptsMatchChecks
<1>5. ASSUME NEW c \in Checks, NobodyToAsk(c)
      PROVE  PromptsMatchChecks'
  <2>1. /\ pc[c] # "queued" /\ pc'[c] # "queued"
        /\ \A d \in Checks \ {c} : pc'[d] = pc[d]
        /\ UNCHANGED <<queue, decided>>
    BY <1>5 DEF NobodyToAsk, Typed, TypeOK
  <2> QED BY <2>1, QuietStep DEF Typed
<1> QED BY <1>1, <1>2, <1>3, <1>4, <1>5, EnqueueMatches, ResolveMatches DEF Next

(* The prompts in the queue are of different, undecided hosts, and each    *)
(* blocked check waits in exactly the prompt of its host: the dialog can   *)
(* answer everybody, for any number of connections and hosts.              *)
THEOREM PromptsAlwaysMatch == Spec => []PromptsMatchChecks
<1>1. Init => PromptsMatchChecks
  BY DEF Init, PromptsMatchChecks
<1> QED BY <1>1, InitTypes, StepTypes, StepMatches, PTL DEF Spec

-----------------------------------------------------------------------------
(* Why trust is earned.  Only a check whose policy is `ask' ever waits for *)
(* the dialog, so a yes is a reason for it.  The file holds nothing that   *)
(* was not recorded; and as long as one save at a time runs to its end, it *)
(* is what the save is about to write back, or the file, that has a key of *)
(* every host that was ever recorded.                                      *)
AskersAsk ==
  \A c \in Checks : pc[c] \in {"posted", "queued"} =>
    Policy[c] = "ask" /\ status[c] # "match"

AtFile == {"truncate", "write"}

OneSaves == \A c, d \in Checks : pc[c] \in AtFile /\ pc[d] \in AtFile => c = d

WritesBack == \A c \in Checks : pc[c] \in AtFile =>
                \A h \in Hosts : recorded[h] # {} => snapshot[c][h] # {}

FileKnows == (\A c \in Checks : pc[c] # "write") =>
               \A h \in Hosts : recorded[h] # {} => file[h] # {}

RecordKept == /\ \A h \in Hosts : file[h] \subseteq recorded[h]
              /\ ~disturbed => OneSaves /\ WritesBack /\ FileKnows

Earned == AskersAsk /\ RecordKept

(* A step that leaves the file, and those at it, alone.                    *)
LEMMA FileAlone ==
  ASSUME RecordKept, UNCHANGED <<snapshot, file, past>>,
         \A c \in Checks : pc'[c] = pc[c] \/ (pc[c] \notin AtFile /\ pc'[c] \notin AtFile)
  PROVE  RecordKept'
<1>1. /\ UNCHANGED <<recorded, disturbed>>
      /\ \A c \in Checks : /\ pc'[c] \in AtFile <=> pc[c] \in AtFile
                           /\ pc'[c] = "write" <=> pc[c] = "write"
  BY DEF past, AtFile
<1> QED BY <1>1 DEF RecordKept, OneSaves, WritesBack, FileKnows

LEMMA CheckEarns ==
  ASSUME Typed, Earned, NEW c \in Checks, NEW k \in Keys, CheckServerKey(c, k)
  PROVE  Earned'
<1>1. /\ pc[c] \in Resting /\ pc'[c] = AfterVerify(Policy[c], status'[c])
      /\ status'[c] \in {"match", "unknown", "changed"}
      /\ \A d \in Checks \ {c} : pc'[d] = pc[d] /\ status'[d] = status[d]
  BY DEF CheckServerKey, Verify, Typed, TypeOK
<1>2. Policy[c] \in {"ask", "strict", "accept-new"}
  BY PolicyAssumption
<1>3. /\ pc'[c] \in {"trusted", "load", "refused", "posted"}
      /\ pc'[c] = "posted" => Policy[c] = "ask" /\ status'[c] # "match"
  BY <1>1, <1>2 DEF AfterVerify
<1>4. AskersAsk'
  BY <1>1, <1>3 DEF Earned, AskersAsk
<1>5. RecordKept'
  <2>1. \A d \in Checks : pc'[d] = pc[d] \/ (pc[d] \notin AtFile /\ pc'[d] \notin AtFile)
    BY <1>1, <1>3 DEF AtFile, Resting
  <2> QED BY <2>1, FileAlone DEF Earned, CheckServerKey
<1> QED BY <1>4, <1>5 DEF Earned

LEMMA LoadKeeps ==
  ASSUME Typed, RecordKept, NEW c \in Checks, LoadKnownHosts(c)
  PROVE  RecordKept'
<1>1. /\ pc[c] = "load" /\ pc'[c] = "truncate" /\ UNCHANGED <<file, recorded>>
      /\ \A d \in Checks \ {c} : pc'[d] = pc[d] /\ snapshot'[d] = snapshot[d]
      /\ snapshot'[c] = [file EXCEPT ![HostOf[c]] = {key[c]}]
      /\ ~disturbed' => ~disturbed /\ \A d \in Checks : pc[d] \notin AtFile
  BY DEF LoadKnownHosts, Typed, TypeOK, AtFile
<1>2. ASSUME ~disturbed'
      PROVE  OneSaves' /\ WritesBack' /\ FileKnows'
  <2>1. \A d \in Checks : pc'[d] \in AtFile => d = c
    BY <1>1, <1>2
  <2>2. \A h \in Hosts : recorded[h] # {} => file[h] # {}
    BY <1>1, <1>2 DEF RecordKept, FileKnows, AtFile
  <2>3. \A h \in Hosts : file[h] # {} => snapshot'[c][h] # {}
    <3>1. file \in [Hosts -> SUBSET Keys] /\ HostOf[c] \in Hosts
      BY HostOfAssumption DEF Typed, TypeOK, Contents
    <3>2. \A h \in Hosts : snapshot'[c][h] = IF h = HostOf[c] THEN {key[c]} ELSE file[h]
      BY <1>1, <3>1
    <3> QED BY <3>2
  <2> QED BY <1>1, <2>1, <2>2, <2>3 DEF OneSaves, WritesBack, FileKnows
<1> QED BY <1>1, <1>2 DEF RecordKept

LEMMA TruncateKeeps ==
  ASSUME Typed, RecordKept, NEW c \in Checks, TruncateKnownHosts(c)
  PROVE  RecordKept'
<1>1. /\ pc[c] = "truncate" /\ pc'[c] = "write"
      /\ UNCHANGED <<snapshot, recorded, disturbed>>
      /\ \A d \in Checks \ {c} : pc'[d] = pc[d]
      /\ \A h \in Hosts : file'[h] = {}
  BY DEF TruncateKnownHosts, Typed, TypeOK, Empty, past
<1>2. \A d \in Checks : pc'[d] \in AtFile <=> pc[d] \in AtFile
  BY <1>1 DEF AtFile
<1> QED BY <1>1, <1>2 DEF RecordKept, OneSaves, WritesBack, FileKnows

LEMMA WriteKeeps ==
  ASSUME Typed, RecordKept, NEW c \in Checks, WriteKnownHosts(c)
  PROVE  RecordKept'
<1>1. /\ pc[c] = "write" /\ pc'[c] = "trusted" /\ UNCHANGED disturbed
      /\ \A d \in Checks \ {c} : pc'[d] = pc[d] /\ snapshot'[d] = snapshot[d]
      /\ file' = snapshot[c]
      /\ \A h \in Hosts : recorded'[h] = recorded[h] \cup snapshot[c][h]
  BY DEF WriteKnownHosts, Typed, TypeOK
<1>2. \A h \in Hosts : file'[h] \subseteq recorded'[h]
  BY <1>1
<1>3. ASSUME ~disturbed'
      PROVE  OneSaves' /\ WritesBack' /\ FileKnows'
  <2>1. \A d \in Checks : pc[d] \in AtFile => d = c
    BY <1>1, <1>3 DEF RecordKept, OneSaves, AtFile
  <2>2. \A d \in Checks : pc'[d] \notin AtFile
    BY <1>1, <2>1 DEF AtFile
  <2>3. \A h \in Hosts : recorded[h] # {} => snapshot[c][h] # {}
    BY <1>1, <1>3 DEF RecordKept, WritesBack, AtFile
  <2>4. \A h \in Hosts : recorded'[h] # {} => file'[h] # {}
    BY <1>1, <2>3
  <2> QED BY <2>2, <2>4 DEF OneSaves, WritesBack, FileKnows
<1> QED BY <1>2, <1>3 DEF RecordKept

LEMMA FailKeeps ==
  ASSUME Typed, RecordKept, NEW c \in Checks, SaveFails(c)
  PROVE  RecordKept'
<1>1. /\ pc[c] \in AtFile /\ pc'[c] \notin AtFile /\ UNCHANGED <<file, recorded>>
      /\ \A d \in Checks \ {c} : pc'[d] = pc[d] /\ snapshot'[d] = snapshot[d]
      /\ ~disturbed' => ~disturbed /\ pc[c] # "write"
  BY DEF SaveFails, Typed, TypeOK, AtFile
<1>2. ASSUME ~disturbed'
      PROVE  OneSaves' /\ WritesBack' /\ FileKnows'
  <2>1. \A d \in Checks : pc'[d] \notin AtFile
    BY <1>1, <1>2 DEF RecordKept, OneSaves
  <2>2. \A d \in Checks : pc[d] # "write"
    BY <1>1, <1>2 DEF RecordKept, OneSaves, AtFile
  <2> QED BY <1>1, <1>2, <2>1, <2>2 DEF RecordKept, OneSaves, WritesBack, FileKnows
<1> QED BY <1>1, <1>2 DEF RecordKept

LEMMA SaveEarns ==
  ASSUME Typed, Earned, NEW c \in Checks, Save(c)
  PROVE  Earned'
<1>1. /\ pc[c] \in Saving /\ pc'[c] \in Saving \cup {"trusted", "refused"}
      /\ \A d \in Checks \ {c} : pc'[d] = pc[d]
      /\ UNCHANGED status
  BY DEF Save, LoadKnownHosts, TruncateKnownHosts, WriteKnownHosts, SaveFails,
         Typed, TypeOK, Saving
<1>2. AskersAsk'
  BY <1>1 DEF Earned, AskersAsk, Saving
<1>3. RecordKept'
  BY LoadKeeps, TruncateKeeps, WriteKeeps, FailKeeps DEF Save, Earned
<1> QED BY <1>2, <1>3 DEF Earned

(* The dialog: it takes checks that asked, and moves them, at most, to the *)
(* start of a save.                                                        *)
LEMMA DialogEarns ==
  ASSUME Typed, PromptsMatchChecks, Earned,
         \/ \E c \in Checks : EnqueuePrompt(c) \/ NobodyToAsk(c)
         \/ \E accept \in BOOLEAN : ResolveFront(accept)
         \/ WindowGone
  PROVE  /\ Earned' /\ UNCHANGED key
         /\ \A c \in Checks :
              \/ pc'[c] = pc[c]
              \/ /\ pc[c] \in {"posted", "queued"}
                 /\ pc'[c] = "load" => decided'[HostOf[c]] = "accept"
                 /\ pc'[c] \in {"queued", "load", "refused"}
<1> DEFINE Served ==
      /\ UNCHANGED <<key, status, snapshot, file, past>>
      /\ \A c \in Checks :
              \/ pc'[c] = pc[c]
              \/ /\ pc[c] \in {"posted", "queued"}
                 /\ pc'[c] = "load" => decided'[HostOf[c]] = "accept"
                 /\ pc'[c] \in {"queued", "load", "refused"}
<1>1. Served
  <2>1. CASE WindowGone
    BY <2>1 DEF WindowGone, Answer
  <2>2. ASSUME NEW c \in Checks, NobodyToAsk(c)
        PROVE  Served
    BY <2>2 DEF NobodyToAsk, Typed, TypeOK
  <2>3. ASSUME NEW c \in Checks, EnqueuePrompt(c)
        PROVE  Served
    BY <2>3 DEF EnqueuePrompt, Answer, Typed, TypeOK
  <2>4. ASSUME NEW accept \in BOOLEAN, ResolveFront(accept)
        PROVE  Served
    <3>1. /\ queue \in Seq(Entry) /\ queue # <<>> /\ 1 \in 1..Len(queue)
          /\ Head(queue) = queue[1] /\ Head(queue) \in Entry
      BY <2>4, TailFacts DEF Typed, TypeOK, ResolveFront
    <3>2. /\ queue[1].waiting \in SUBSET Checks /\ queue[1].host \in Hosts
          /\ \A c \in queue[1].waiting : pc[c] = "queued" /\ HostOf[c] = queue[1].host
      BY <3>1 DEF Entry, PromptsMatchChecks
    <3>3. /\ \A c \in Checks : pc'[c] = IF c \notin queue[1].waiting THEN pc[c]
                                        ELSE IF accept THEN "load" ELSE "refused"
          /\ accept => decided'[queue[1].host] = "accept"
          /\ UNCHANGED <<key, status, snapshot, file, past>>
      BY <2>4, <3>1, <3>2 DEF ResolveFront, Answer, Typed, TypeOK
    <3> QED BY <3>2, <3>3
  <2> QED BY <2>1, <2>2, <2>3, <2>4
<1>2. AskersAsk'
  BY <1>1 DEF Earned, AskersAsk
<1>3. RecordKept'
  <2>1. \A c \in Checks : pc'[c] = pc[c] \/ (pc[c] \notin AtFile /\ pc'[c] \notin AtFile)
    BY <1>1 DEF AtFile
  <2> QED BY <1>1, <2>1, FileAlone DEF Earned
<1> QED BY <1>1, <1>2, <1>3 DEF Earned

LEMMA RestartEarns ==
  ASSUME Typed, Earned, Restart
  PROVE  Earned'
<1>1. /\ \A c \in Checks : pc'[c] = "idle"
      /\ UNCHANGED <<file, recorded>>
      /\ ~disturbed' => ~disturbed /\ \A c \in Checks : pc[c] # "write"
  BY DEF Restart, Typed, TypeOK
<1>2. AskersAsk'
  BY <1>1 DEF AskersAsk
<1>3. ~disturbed' => OneSaves' /\ WritesBack' /\ FileKnows'
  BY <1>1 DEF Earned, RecordKept, OneSaves, WritesBack, FileKnows, AtFile
<1> QED BY <1>1, <1>2, <1>3 DEF Earned, RecordKept

(* All of it, along every behaviour.                                       *)
LEMMA EarnedHolds == Spec => []Typed /\ []PromptsMatchChecks /\ []Earned
<1>1. Init => PromptsMatchChecks
  BY DEF Init, PromptsMatchChecks
<1>2. Init => Earned
  BY DEF Init, Earned, AskersAsk, RecordKept, OneSaves, WritesBack, FileKnows, AtFile
<1>3. Typed /\ PromptsMatchChecks /\ Earned /\ [Next]_vars => Earned'
  <2> SUFFICES ASSUME Typed, PromptsMatchChecks, Earned, [Next]_vars
               PROVE  Earned'
    OBVIOUS
  <2>1. CASE UNCHANGED vars
    BY <2>1 DEF vars, past, Earned, AskersAsk, RecordKept, OneSaves, WritesBack,
                FileKnows
  <2> QED
    BY <2>1, CheckEarns, SaveEarns, DialogEarns, RestartEarns DEF Next
<1> QED BY <1>1, <1>2, <1>3, InitTypes, StepTypes, StepMatches, PTL DEF Spec

(* A connection goes on only with a reason its own policy allows: the key  *)
(* was recorded for its host, or no key of the host ever was, or the user  *)
(* accepted a prompt of the host in this run; under accept-new there are   *)
(* the named exceptions, a save that has the file truncated, or one that   *)
(* overlapped another or was cut short.  For every mix of policies and     *)
(* interleaving of checks, dialog and saves, every crash and failed save.  *)
THEOREM TrustIsAlwaysEarned == Spec => TrustIsEarned
<1> DEFINE Reason(c) ==
      \/ key'[c] \in recorded[HostOf[c]]
      \/ /\ Policy[c] = "accept-new"
         /\ recorded[HostOf[c]] = {} \/ disturbed \/ \E d \in Checks : pc[d] = "write"
      \/ Policy[c] = "ask" /\ decided'[HostOf[c]] = "accept"
<1>1. ASSUME Typed, PromptsMatchChecks, Earned, [Next]_vars,
             NEW c \in Checks, SetsOutToTrust(c)
      PROVE  Reason(c)
  <2>1. /\ pc[c] \notin Saving /\ pc'[c] \in {"load", "trusted"}
        /\ pc'[c] # pc[c] \/ key'[c] # key[c]
    BY <1>1 DEF SetsOutToTrust
  <2>2. ASSUME NEW d \in Checks, NEW k \in Keys, CheckServerKey(d, k)
        PROVE  Reason(c)
    <3>1. d = c /\ key'[c] = k
      BY <1>1, <2>1, <2>2 DEF CheckServerKey, Typed, TypeOK
    <3>2. HostOf[c] \in Hosts /\ Policy[c] \in {"ask", "strict", "accept-new"}
      BY HostOfAssumption, PolicyAssumption
    <3>3. pc'[c] = AfterVerify(Policy[c], Verify(HostOf[c], k))
      BY <1>1, <2>2, <3>1 DEF CheckServerKey, Typed, TypeOK
    <3>4. \/ k \in file[HostOf[c]]
          \/ Policy[c] = "accept-new" /\ file[HostOf[c]] = {}
      BY <2>1, <3>2, <3>3 DEF AfterVerify, Verify
    <3>5. file[HostOf[c]] = {} => \/ recorded[HostOf[c]] = {} \/ disturbed
                                  \/ \E e \in Checks : pc[e] = "write"
      BY <1>1, <3>2 DEF Earned, RecordKept, FileKnows
    <3> QED BY <1>1, <3>1, <3>2, <3>4, <3>5 DEF Earned, RecordKept
  <2>3. ASSUME NEW d \in Checks, Save(d)
        PROVE  Reason(c)
    <3>1. pc[d] \in Saving /\ UNCHANGED key /\ \A e \in Checks \ {d} : pc'[e] = pc[e]
      BY <1>1, <2>3 DEF Save, LoadKnownHosts, TruncateKnownHosts, WriteKnownHosts,
                        SaveFails, Typed, TypeOK, Saving
    <3> QED BY <2>1, <3>1
  <2>4. CASE \/ \E d \in Checks : EnqueuePrompt(d) \/ NobodyToAsk(d)
             \/ \E accept \in BOOLEAN : ResolveFront(accept)
             \/ WindowGone
    <3>1. /\ UNCHANGED key
          /\ \A d \in Checks :
              \/ pc'[d] = pc[d]
              \/ /\ pc[d] \in {"posted", "queued"}
                 /\ pc'[d] = "load" => decided'[HostOf[d]] = "accept"
                 /\ pc'[d] \in {"queued", "load", "refused"}
      BY <1>1, <2>4, DialogEarns
    <3>2. Policy[c] = "ask" /\ decided'[HostOf[c]] = "accept"
      BY <1>1, <2>1, <3>1 DEF Earned, AskersAsk
    <3> QED BY <3>2
  <2>5. CASE Restart
    BY <2>1, <2>5 DEF Restart
  <2>6. CASE UNCHANGED vars
    BY <2>1, <2>6 DEF vars
  <2> QED BY <1>1, <2>2, <2>3, <2>4, <2>5, <2>6 DEF Next
<1>2. Typed /\ PromptsMatchChecks /\ Earned /\ [Next]_vars
        => \A c \in Checks : SetsOutToTrust(c) => Reason(c)
  BY <1>1
<1>3. Typed /\ PromptsMatchChecks /\ Earned /\ [Next]_vars
        => [\A c \in Checks : SetsOutToTrust(c) =>
              LET h == HostOf[c]
              IN \/ key'[c] \in recorded[h]
                 \/ /\ Policy[c] = "accept-new"
                    /\ recorded[h] = {} \/ disturbed \/ \E d \in Checks : pc[d] = "write"
                 \/ Policy[c] = "ask" /\ decided'[h] = "accept"]_vars
  BY <1>2
<1> QED BY <1>3, EarnedHolds, PTL DEF Spec, TrustIsEarned

-----------------------------------------------------------------------------
(* The dialog as PromptBroker sees it.                                     *)
LEMMA NoCheckMoves ==
  ASSUME \A d \in Checks : AskOf(d)' = AskOf(d),
         \A h \in Hosts : VerdictOn(h)' = VerdictOn(h)
  PROVE  UNCHANGED Broker!vars
BY DEF Broker!vars

LEMMA OneAskerMoves ==
  ASSUME NEW c \in Checks,
         \A d \in Checks \ {c} : AskOf(d)' = AskOf(d),
         \A h \in Hosts : VerdictOn(h)' = VerdictOn(h)
  PROVE  /\ [d \in Checks |-> AskOf(d)]' =
              [[d \in Checks |-> AskOf(d)] EXCEPT ![c] = AskOf(c)']
         /\ UNCHANGED [h \in Hosts |-> VerdictOn(h)]
OBVIOUS

(* A new check asks, or is decided without the user: only a policy that    *)
(* never asks refuses or saves a key on its own.                           *)
LEMMA CheckAsks ==
  ASSUME Typed, NEW c \in Checks, NEW k \in Keys, CheckServerKey(c, k)
  PROVE  Broker!Ask(c) \/ Broker!Rest(c)
<1>1. /\ pc[c] \in Resting /\ pc'[c] = AfterVerify(Policy[c], status'[c])
      /\ status'[c] \in {"match", "unknown", "changed"}
      /\ \A d \in Checks \ {c} : pc'[d] = pc[d] /\ status'[d] = status[d]
      /\ UNCHANGED decided
  BY DEF CheckServerKey, Verify, Typed, TypeOK
<1>2. Policy[c] \in {"ask", "strict", "accept-new"}
  BY PolicyAssumption
<1>3. \/ pc'[c] = "posted"
      \/ pc'[c] = "trusted" /\ status'[c] = "match"
      \/ pc'[c] \in {"load", "refused"} /\ Policy[c] # "ask"
  BY <1>1, <1>2 DEF AfterVerify
<1>4. AskOf(c) # "waiting" /\ AskOf(c)' \in {"waiting", "quiet"}
  BY <1>1, <1>3 DEF AskOf, Resting, Saving
<1>5. \A d \in Checks \ {c} : AskOf(d)' = AskOf(d)
  BY <1>1 DEF AskOf
<1>6. \A h \in Hosts : VerdictOn(h)' = VerdictOn(h)
  BY <1>1 DEF VerdictOn
<1>7. [d \in Checks |-> AskOf(d)][c] # "waiting"
  BY <1>4
<1> QED BY <1>4, <1>5, <1>6, <1>7, OneAskerMoves DEF Broker!Ask, Broker!Rest

(* A save goes on, or fails, with the answer its check was given.          *)
LEMMA SaveIsSilent ==
  ASSUME Typed, NEW c \in Checks, Save(c)
  PROVE  UNCHANGED Broker!vars
<1>1. /\ pc[c] \in Saving
      /\ \/ pc'[c] \in Saving \cup {"trusted"}
         \/ pc'[c] = "refused" /\ Policy[c] # "ask"
      /\ \A d \in Checks \ {c} : pc'[d] = pc[d]
      /\ UNCHANGED <<status, decided>>
  BY DEF Save, LoadKnownHosts, TruncateKnownHosts, WriteKnownHosts, SaveFails,
         Typed, TypeOK, Saving
<1>2. AskOf(c)' = AskOf(c)
  BY <1>1 DEF AskOf, Saving
<1>3. \A d \in Checks : AskOf(d)' = AskOf(d)
  BY <1>1, <1>2 DEF AskOf
<1> QED BY <1>1, <1>3, NoCheckMoves DEF VerdictOn

(* What the waiting checks are told is what was decided: they asked.       *)
LEMMA AnswerIsTheVerdict ==
  ASSUME Typed, AskersAsk, NEW waiting \in SUBSET Checks, NEW accept \in BOOLEAN,
         \A c \in waiting : pc[c] \in {"posted", "queued"},
         pc' = Answer(waiting, accept), UNCHANGED status
  PROVE  /\ \A c \in waiting : AskOf(c)' = IF accept THEN "yes" ELSE "no"
         /\ \A c \in Checks \ waiting : AskOf(c)' = AskOf(c)
<1>1. \A c \in waiting : Policy[c] = "ask" /\ status[c] # "match"
  BY DEF AskersAsk
<1> QED BY <1>1 DEF Answer, AskOf, Saving

LEMMA EnqueueKeeps ==
  ASSUME Typed, AskersAsk, NEW c \in Checks, EnqueuePrompt(c)
  PROVE  Broker!Repeat(c) \/ UNCHANGED Broker!vars
<1>1. \A h \in Hosts : VerdictOn(h)' = VerdictOn(h)
  BY DEF EnqueuePrompt, VerdictOn
<1>2. pc[c] = "posted" /\ AskOf(c) = "waiting" /\ HostOf[c] \in Hosts /\ UNCHANGED status
  BY HostOfAssumption DEF EnqueuePrompt, AskOf, Saving
<1>3. CASE decided[HostOf[c]] # "none"
  <2> DEFINE accept == decided[HostOf[c]] = "accept"
  <2>1. decided[HostOf[c]] \in {"accept", "reject"}
    BY <1>2, <1>3 DEF Typed, TypeOK
  <2>2. accept \in BOOLEAN /\ pc' = Answer({c}, accept)
    BY <1>3 DEF EnqueuePrompt
  <2>3. VerdictOn(HostOf[c]) = (IF accept THEN "yes" ELSE "no")
    BY <2>1 DEF VerdictOn
  <2> HIDE DEF accept
  <2>4. AskOf(c)' = VerdictOn(HostOf[c]) /\ VerdictOn(HostOf[c]) # "none"
    BY <1>2, <2>2, <2>3, AnswerIsTheVerdict
  <2>5. \A d \in Checks \ {c} : AskOf(d)' = AskOf(d)
    BY <1>2, <2>2, AnswerIsTheVerdict
  <2> QED BY <1>1, <1>2, <2>4, <2>5, OneAskerMoves DEF Broker!Repeat
<1>4. CASE decided[HostOf[c]] = "none"
  <2>1. \A d \in Checks : AskOf(d)' = AskOf(d)
    BY <1>2, <1>4 DEF EnqueuePrompt, AskOf, Saving, Typed, TypeOK
  <2> QED BY <1>1, <2>1, NoCheckMoves
<1> QED BY <1>3, <1>4

(* The answer to the front prompt is the decision on its host.             *)
LEMMA ResolveDecides ==
  ASSUME Typed, AskersAsk, PromptsMatchChecks, NEW accept \in BOOLEAN,
         ResolveFront(accept)
  PROVE  \E h \in Hosts, v \in Broker!Verdicts, told \in SUBSET Checks :
           Broker!Decide(h, v, told)
<1> DEFINE e == Head(queue)
           h == e.host
           told == e.waiting
           v == IF accept THEN "yes" ELSE "no"
<1>1. /\ 1 \in 1..Len(queue) /\ e = queue[1] /\ e \in Entry
  BY TailFacts DEF Typed, TypeOK, ResolveFront
<1>2. h \in Hosts /\ told \in SUBSET Checks /\ v \in Broker!Verdicts
  BY <1>1 DEF Entry, Broker!Verdicts
<1>3. decided[h] = "none" /\ \A c \in told : pc[c] = "queued" /\ HostOf[c] = h
  BY <1>1 DEF PromptsMatchChecks
<1>4. VerdictOn(h) = "none" /\ \A c \in told : AskOf(c) = "waiting"
  BY <1>3 DEF VerdictOn, AskOf, Saving
<1>5. /\ decided' = [decided EXCEPT ![h] = IF accept THEN "accept" ELSE "reject"]
      /\ pc' = Answer(told, accept) /\ UNCHANGED status
  BY DEF ResolveFront
<1> HIDE DEF e, h, told
<1>6. /\ \A c \in told : AskOf(c)' = v
      /\ \A c \in Checks \ told : AskOf(c)' = AskOf(c)
  BY <1>2, <1>3, <1>5, AnswerIsTheVerdict
<1>7. \A r \in Hosts : VerdictOn(r)' = IF r = h THEN v ELSE VerdictOn(r)
  BY <1>2, <1>5 DEF VerdictOn, Typed, TypeOK
<1> HIDE DEF v
<1>8. [r \in Hosts |-> VerdictOn(r)]' = [[r \in Hosts |-> VerdictOn(r)] EXCEPT ![h] = v]
  BY <1>2, <1>7
<1>9. [c \in Checks |-> AskOf(c)]' =
        [c \in Checks |-> IF c \in told THEN v ELSE [d \in Checks |-> AskOf(d)][c]]
  BY <1>2, <1>6
<1>10. \A c \in told : [d \in Checks |-> AskOf(d)][c] = "waiting"
  BY <1>2, <1>4
<1>11. [r \in Hosts |-> VerdictOn(r)][h] = "none"
  BY <1>2, <1>4
<1>12. Broker!Decide(h, v, told)
  BY <1>3, <1>8, <1>9, <1>10, <1>11 DEF Broker!Decide
<1> QED BY <1>2, <1>12

LEMMA StepIsABroker ==
  Typed /\ AskersAsk /\ PromptsMatchChecks /\ [Next]_vars => [StepKeepsPromise]_vars
<1> SUFFICES ASSUME Typed, AskersAsk, PromptsMatchChecks, [Next]_vars, window'
             PROVE  [Broker!Next]_(Broker!vars)
  BY DEF StepKeepsPromise
<1>1. ASSUME NEW c \in Checks, NEW k \in Keys, CheckServerKey(c, k)
      PROVE  [Broker!Next]_(Broker!vars)
  BY <1>1, CheckAsks DEF Broker!Next
<1>2. ASSUME NEW c \in Checks, Save(c) \/ EnqueuePrompt(c)
      PROVE  [Broker!Next]_(Broker!vars)
  BY <1>2, SaveIsSilent, EnqueueKeeps DEF Broker!Next
<1>3. ASSUME NEW accept \in BOOLEAN, ResolveFront(accept)
      PROVE  [Broker!Next]_(Broker!vars)
  BY <1>3, ResolveDecides DEF Broker!Next
<1>4. CASE Restart
  <2>1. \A c \in Checks : AskOf(c)' = "quiet"
    BY <1>4 DEF Restart, AskOf, Saving
  <2>2. \A h \in Hosts : VerdictOn(h)' = "none"
    BY <1>4 DEF Restart, VerdictOn
  <2> QED BY <2>1, <2>2 DEF Broker!Next, Broker!Forget
<1>5. CASE UNCHANGED vars
  BY <1>5, NoCheckMoves DEF vars, AskOf, VerdictOn
<1>6. ~WindowGone /\ \A c \in Checks : ~NobodyToAsk(c)
  BY DEF WindowGone, NobodyToAsk
<1> QED BY <1>1, <1>2, <1>3, <1>4, <1>5, <1>6 DEF Next

(* While there is a window the dialog implements PromptBroker, for every   *)
(* number of connections, hosts and keys and every mix of policies: a host *)
(* is decided once in a run, whoever asks about it is told that decision,  *)
(* and nobody is told anything before it is made.                          *)
THEOREM DialogKeepsPromise == Spec => DialogIsABroker
<1>1. Init => Broker!Init
  BY DEF Init, Broker!Init, AskOf, VerdictOn, Saving
<1>2. Earned => AskersAsk
  BY DEF Earned
<1> QED BY <1>1, <1>2, StepIsABroker, EarnedHolds, PTL
        DEF Spec, DialogIsABroker

-----------------------------------------------------------------------------
(***************************************************************************)
(* The output of the shell. First what its proofs need of the operators.   *)
(***************************************************************************)

(***************************************************************************)
(* Sequences.                                                              *)
(***************************************************************************)
LEMMA SeqFacts ==
  ASSUME NEW S, NEW s \in Seq(S)
  PROVE  /\ Len(s) \in Nat /\ DOMAIN s = 1..Len(s)
         /\ \A i \in 1..Len(s) : s[i] \in S
         /\ s = <<>> <=> Len(s) = 0
  OBVIOUS

LEMMA SameSeq ==
  ASSUME NEW S, NEW a \in Seq(S), NEW b \in Seq(S), Len(a) = Len(b),
         \A i \in 1..Len(a) : a[i] = b[i]
  PROVE  a = b
  OBVIOUS

LEMMA JoinFacts ==
  ASSUME NEW S, NEW a \in Seq(S), NEW b \in Seq(S)
  PROVE  /\ a \o b \in Seq(S) /\ Len(a \o b) = Len(a) + Len(b)
         /\ DOMAIN (a \o b) = 1..(Len(a) + Len(b))
         /\ Len(a) \in Nat /\ Len(b) \in Nat
         /\ \A i \in 1..(Len(a) + Len(b)) :
              (a \o b)[i] = IF i <= Len(a) THEN a[i] ELSE b[i - Len(a)]
  OBVIOUS

LEMMA SubFacts ==
  ASSUME NEW S, NEW s \in Seq(S), NEW p \in Nat \ {0}, NEW q \in Nat, q <= Len(s), p <= q + 1
  PROVE  /\ SubSeq(s, p, q) \in Seq(S) /\ Len(SubSeq(s, p, q)) = q - p + 1
         /\ DOMAIN SubSeq(s, p, q) = 1..(q - p + 1)
         /\ \A i \in 1..(q - p + 1) : p + i - 1 \in 1..Len(s) /\ SubSeq(s, p, q)[i] = s[p + i - 1]
<1>1. Len(s) \in Nat /\ \A i \in 1..Len(s) : s[i] \in S
  OBVIOUS
<1>2. \A i \in 1..(q - p + 1) : p + i - 1 \in 1..Len(s)
  BY <1>1
<1>3. SubSeq(s, p, q) = [i \in 1..(q - p + 1) |-> s[i + p - 1]]
  OBVIOUS
<1>4. \A i \in 1..(q - p + 1) : i + p - 1 = p + i - 1
  OBVIOUS
<1>5. SubSeq(s, p, q) \in [1..(q - p + 1) -> S]
  BY <1>1, <1>2, <1>3, <1>4
<1>6. q - p + 1 \in Nat
  OBVIOUS
<1> QED BY <1>2, <1>3, <1>4, <1>5, <1>6, MapFacts

\* Joining is associative.
LEMMA JoinThree ==
  ASSUME NEW S, NEW a \in Seq(S), NEW b \in Seq(S), NEW c \in Seq(S)
  PROVE  (a \o b) \o c = a \o (b \o c)
<1>1. PICK l, r, x, y : l = x \o c /\ r = a \o y /\ x = a \o b /\ y = b \o c
  OBVIOUS
<1>2. /\ x \in Seq(S) /\ Len(x) = Len(a) + Len(b) /\ Len(a) \in Nat /\ Len(b) \in Nat
      /\ \A i \in 1..(Len(a) + Len(b)) : x[i] = IF i <= Len(a) THEN a[i] ELSE b[i - Len(a)]
  BY <1>1, JoinFacts
<1>3. /\ y \in Seq(S) /\ Len(y) = Len(b) + Len(c) /\ Len(c) \in Nat
      /\ \A i \in 1..(Len(b) + Len(c)) : y[i] = IF i <= Len(b) THEN b[i] ELSE c[i - Len(b)]
  BY <1>1, JoinFacts
<1>4. /\ l \in Seq(S) /\ Len(l) = Len(x) + Len(c)
      /\ \A i \in 1..(Len(x) + Len(c)) : l[i] = IF i <= Len(x) THEN x[i] ELSE c[i - Len(x)]
  BY <1>1, <1>2, JoinFacts
<1>5. /\ r \in Seq(S) /\ Len(r) = Len(a) + Len(y)
      /\ \A i \in 1..(Len(a) + Len(y)) : r[i] = IF i <= Len(a) THEN a[i] ELSE y[i - Len(a)]
  BY <1>1, <1>3, JoinFacts
<1>6. ASSUME NEW i \in 1..Len(l) PROVE l[i] = r[i]
  <2>0. i \in Nat /\ 1 <= i /\ i <= Len(a) + Len(b) + Len(c) /\ i \in 1..(Len(x) + Len(c))
        /\ i \in 1..(Len(a) + Len(y))
    BY <1>2, <1>3, <1>4
  <2>1. CASE i <= Len(a)
    <3>1. i <= Len(x) /\ i \in 1..(Len(a) + Len(b))
      BY <2>0, <2>1, <1>2
    <3> QED BY <2>0, <2>1, <3>1, <1>2, <1>4, <1>5
  <2>2. CASE i > Len(a) /\ i <= Len(a) + Len(b)
    <3>1. i <= Len(x) /\ i \in 1..(Len(a) + Len(b)) /\ ~(i <= Len(a))
      BY <2>0, <2>2, <1>2
    <3>2. i - Len(a) \in 1..(Len(b) + Len(c)) /\ i - Len(a) <= Len(b)
      BY <2>0, <2>2, <1>2, <1>3
    <3>3. l[i] = b[i - Len(a)]
      BY <2>0, <3>1, <1>2, <1>4
    <3>4. r[i] = y[i - Len(a)]
      BY <2>0, <3>1, <1>5
    <3> QED BY <3>2, <3>3, <3>4, <1>3
  <2>3. CASE i > Len(a) + Len(b)
    <3>1. ~(i <= Len(x)) /\ ~(i <= Len(a))
      BY <2>0, <2>3, <1>2
    <3>2. i - Len(a) \in 1..(Len(b) + Len(c)) /\ ~(i - Len(a) <= Len(b))
      BY <2>0, <2>3, <1>2, <1>3
    <3>3. l[i] = c[i - (Len(a) + Len(b))]
      BY <2>0, <3>1, <1>2, <1>4
    <3>4. r[i] = y[i - Len(a)]
      BY <2>0, <3>1, <1>5
    <3>5. i - Len(a) - Len(b) = i - (Len(a) + Len(b))
      BY <2>0, <1>2
    <3> QED BY <3>2, <3>3, <3>4, <3>5, <1>3
  <2> QED BY <2>0, <2>1, <2>2, <2>3, <1>2
<1>7. Len(l) = Len(r)
  BY <1>2, <1>3, <1>4, <1>5
<1>8. l = r
  BY <1>4, <1>5, <1>6, <1>7, SameSeq
<1> QED BY <1>8, <1>1

\* The tokens of a join, of a part, and of an empty sequence.
LEMMA JoinSet ==
  ASSUME NEW S, NEW a \in Seq(S), NEW b \in Seq(S)
  PROVE  ToSet(a \o b) = ToSet(a) \cup ToSet(b)
<1>1. PICK c : c = a \o b
  OBVIOUS
<1>2. /\ DOMAIN c = 1..(Len(a) + Len(b)) /\ Len(a) \in Nat /\ Len(b) \in Nat
      /\ \A i \in 1..(Len(a) + Len(b)) : c[i] = IF i <= Len(a) THEN a[i] ELSE b[i - Len(a)]
  BY <1>1, JoinFacts
<1>3. \A i \in 1..Len(a) : i \in DOMAIN c /\ c[i] = a[i]
  BY <1>2
<1>4. \A i \in 1..Len(b) : i + Len(a) \in DOMAIN c /\ c[i + Len(a)] = b[i]
  BY <1>2
<1>5. \A i \in DOMAIN c : \/ i \in 1..Len(a) /\ c[i] = a[i]
                          \/ i - Len(a) \in 1..Len(b) /\ c[i] = b[i - Len(a)]
  BY <1>2
<1>6. DOMAIN a = 1..Len(a) /\ DOMAIN b = 1..Len(b)
  OBVIOUS
<1>7. ToSet(c) = ToSet(a) \cup ToSet(b)
  BY <1>3, <1>4, <1>5, <1>6 DEF ToSet
<1> QED BY <1>1, <1>7
(***************************************************************************)
(* Positions.                                                              *)
(***************************************************************************)
(* What holds of 0, and of n + 1 if of n, holds of every number: otherwise  *)
(* adding 1 would map a finite set into a smaller one, with no two numbers  *)
(* mapped to the same.                                                     *)
LEMMA CountingUp ==
  ASSUME NEW S, 0 \in S, \A n \in Nat : n \in S => n + 1 \in S
  PROVE  \A n \in Nat : n \in S
<1> SUFFICES ASSUME NEW n \in Nat, n \notin S PROVE FALSE
  OBVIOUS
<1>1. PICK A : A = {i \in 0 .. n : i \in S}
  OBVIOUS
<1>2. PICK B : B = A \ {0}
  OBVIOUS
<1>3. PICK up : up = [i \in A |-> i + 1]
  OBVIOUS
<1>4. IsFiniteSet(A)
  <2>1. IsFiniteSet(0 .. n) /\ A \in SUBSET (0 .. n)
    BY <1>1, FS_Interval
  <2> QED
    BY <2>1, FS_Subset
<1>5. IsFiniteSet(B) /\ Cardinality(B) < Cardinality(A)
  <2>1. 0 \in A
    BY <1>1
  <2>2. Cardinality(A) \in Nat
    BY <1>4, FS_CardinalityType
  <2>3. IsFiniteSet(A \ {0}) /\ Cardinality(A \ {0}) = Cardinality(A) - 1
    BY <1>4, <2>1, FS_RemoveElement
  <2> QED
    BY <1>2, <2>2, <2>3
<1>6. up \in [A -> B]
  BY <1>1, <1>2, <1>3
<1>7. \E x, y \in A : x # y /\ up[x] = up[y]
  BY <1>4, <1>5, <1>6, FS_PigeonHole
<1> QED
  BY <1>7, <1>3, <1>1

(* A set of positions that is not empty has a last one ...                 *)
LEMMA MaxIsLast ==
  ASSUME NEW n \in Nat, NEW s \in SUBSET (1 .. n), s # {}
  PROVE  Max(s) \in s /\ \A i \in s : Max(s) >= i
<1>1. PICK S : S = {m \in Nat : \A t \in SUBSET (1 .. m) : t # {} =>
                                  \E i \in t : \A j \in t : i >= j}
  OBVIOUS
<1>2. 0 \in S
  <2>1. 1 .. 0 = {}
    OBVIOUS
  <2> QED
    BY <1>1, <2>1
<1>3. ASSUME NEW m \in Nat, m \in S PROVE m + 1 \in S
  <2> SUFFICES ASSUME NEW t \in SUBSET (1 .. (m + 1)), t # {}
               PROVE  \E i \in t : \A j \in t : i >= j
    BY <1>1
  <2>1. CASE m + 1 \in t
    BY <2>1
  <2>2. CASE m + 1 \notin t
    <3>1. t \in SUBSET (1 .. m)
      BY <2>2
    <3> QED
      BY <3>1, <1>1, <1>3
  <2> QED
    BY <2>1, <2>2
<1>4. n \in S
  BY <1>2, <1>3, CountingUp
<1> QED
  BY <1>4, <1>1 DEF Max

(* ... and a first one.                                                    *)
LEMMA MinIsFirst ==
  ASSUME NEW n \in Nat, NEW s \in SUBSET (1 .. n), s # {}
  PROVE  Min(s) \in s /\ \A i \in s : Min(s) <= i
<1>1. PICK S : S = {m \in Nat : \A t \in SUBSET (1 .. m) : t # {} =>
                                  \E i \in t : \A j \in t : i <= j}
  OBVIOUS
<1>2. 0 \in S
  <2>1. 1 .. 0 = {}
    OBVIOUS
  <2> QED
    BY <1>1, <2>1
<1>3. ASSUME NEW m \in Nat, m \in S PROVE m + 1 \in S
  <2> SUFFICES ASSUME NEW t \in SUBSET (1 .. (m + 1)), t # {}
               PROVE  \E i \in t : \A j \in t : i <= j
    BY <1>1
  <2>1. CASE \E i \in t : i # m + 1
    <3>1. t \ {m + 1} \in SUBSET (1 .. m) /\ t \ {m + 1} # {}
      BY <2>1
    <3>2. PICK i \in t \ {m + 1} : \A j \in t \ {m + 1} : i <= j
      BY <3>1, <1>1, <1>3
    <3> QED
      BY <3>2
  <2>2. CASE \A i \in t : i = m + 1
    <3>1. PICK i \in t : TRUE
      OBVIOUS
    <3>2. i \in Int /\ \A j \in t : j = i
      BY <2>2
    <3> QED
      BY <3>2
  <2> QED
    BY <2>1, <2>2
<1>4. n \in S
  BY <1>2, <1>3, CountingUp
<1> QED
  BY <1>4, <1>1 DEF Min

LEMMA MaxFromZero ==
  ASSUME NEW n \in Nat, NEW s \in SUBSET (1..n)
  PROVE  LET m == Max({0} \cup s)
         IN  m \in 0..n /\ (m = 0 \/ m \in s) /\ \A i \in s : i <= m
<1>1. \E m \in {0} \cup s : \A i \in {0} \cup s : m >= i
  <2>1. CASE s = {}
    BY <2>1
  <2>2. CASE s # {}
    <3>1. Max(s) \in s /\ \A i \in s : Max(s) >= i
      BY <2>2, MaxIsLast
    <3>2. PICK m \in s : \A i \in s : m >= i
      BY <3>1
    <3>3. m \in Nat /\ m >= 0
      OBVIOUS
    <3> QED BY <3>2, <3>3
  <2> QED BY <2>1, <2>2
<1>2. Max({0} \cup s) \in {0} \cup s /\ \A i \in {0} \cup s : Max({0} \cup s) >= i
  BY <1>1 DEF Max
<1>3. PICK m : m = Max({0} \cup s)
  OBVIOUS
<1>4. (m = 0 \/ m \in s) /\ \A i \in s : m >= i
  BY <1>2, <1>3
<1>5. m \in 0..n /\ \A i \in s : i <= m
  <2>1. \A i \in s : i \in Nat /\ 1 <= i /\ i <= n
    OBVIOUS
  <2>2. m \in Nat /\ m <= n
    <3>1. CASE m = 0
      BY <3>1
    <3>2. CASE m \in s
      BY <3>2, <2>1
    <3> QED BY <3>1, <3>2, <1>4
  <2> QED BY <2>1, <2>2, <1>4
<1> QED BY <1>3, <1>4, <1>5

(* The positions of P up to one of them, counted, are each number up to    *)
(* the size of P once, and in order.                                       *)
UpTo(P, i) == {j \in P : j <= i}

LEMMA FiniteUpTo ==
  ASSUME NEW n \in Nat, NEW P \in SUBSET (1..n), NEW i
  PROVE  /\ IsFiniteSet(P) /\ Cardinality(P) \in Nat
         /\ IsFiniteSet(UpTo(P, i)) /\ Cardinality(UpTo(P, i)) \in Nat
         /\ Cardinality(UpTo(P, i)) <= Cardinality(P)
<1>1. IsFiniteSet(1..n)
  BY FS_Interval
<1>2. IsFiniteSet(P) /\ UpTo(P, i) \in SUBSET P
  BY <1>1, FS_Subset DEF UpTo
<1> QED BY <1>2, FS_Subset, FS_CardinalityType

LEMMA RankGrows ==
  ASSUME NEW n \in Nat, NEW P \in SUBSET (1..n), NEW i \in P, NEW j \in P, i < j
  PROVE  Cardinality(UpTo(P, i)) < Cardinality(UpTo(P, j))
<1>1. UpTo(P, i) \in SUBSET (UpTo(P, j) \ {j}) /\ j \in UpTo(P, j)
  <2>1. i \in Nat /\ j \in Nat /\ \A k \in P : k \in Nat
    OBVIOUS
  <2>2. ASSUME NEW k \in P, k <= i PROVE k <= j /\ k # j
    BY <2>1, <2>2
  <2>3. j <= j
    BY <2>1
  <2> QED BY <2>2, <2>3 DEF UpTo
<1>2. IsFiniteSet(UpTo(P, j)) /\ Cardinality(UpTo(P, j)) \in Nat /\ Cardinality(UpTo(P, i)) \in Nat
  BY FiniteUpTo
<1>3. /\ IsFiniteSet(UpTo(P, j) \ {j})
      /\ Cardinality(UpTo(P, j) \ {j}) = Cardinality(UpTo(P, j)) - 1
  BY <1>1, <1>2, FS_RemoveElement
<1>4. Cardinality(UpTo(P, i)) <= Cardinality(UpTo(P, j) \ {j})
  BY <1>1, <1>3, FS_Subset
<1> QED BY <1>2, <1>3, <1>4

LEMMA RankStarts ==
  ASSUME NEW n \in Nat, NEW P \in SUBSET (1..n), NEW i \in P
  PROVE  Cardinality(UpTo(P, i)) \in 1..Cardinality(P)
<1>1. IsFiniteSet(UpTo(P, i)) /\ i \in UpTo(P, i) /\ Cardinality(UpTo(P, i)) \in Nat
      /\ Cardinality(P) \in Nat /\ Cardinality(UpTo(P, i)) <= Cardinality(P)
  <2>1. i \in UpTo(P, i)
    <3>1. i <= i
      OBVIOUS
    <3> QED BY <3>1 DEF UpTo
  <2> QED BY <2>1, FiniteUpTo
<1>2. Cardinality(UpTo(P, i)) # 0
  BY <1>1, FS_EmptySet
<1> QED BY <1>1, <1>2

LEMMA RankReaches ==
  ASSUME NEW n \in Nat, NEW P \in SUBSET (1..n), NEW r \in 1..Cardinality(P)
  PROVE  \E i \in P : Cardinality(UpTo(P, i)) = r
<1> SUFFICES ASSUME \A i \in P : Cardinality(UpTo(P, i)) # r PROVE FALSE
  OBVIOUS
<1>1. IsFiniteSet(P) /\ Cardinality(P) \in Nat
  BY FiniteUpTo
<1>2. PICK m : m = Cardinality(P)
  OBVIOUS
<1>3. PICK T : T = (1..m) \ {r}
  OBVIOUS
<1>4. IsFiniteSet(T) /\ Cardinality(T) < Cardinality(P)
  <2>1. IsFiniteSet(1..m) /\ Cardinality(1..m) = m
    BY <1>1, <1>2, FS_Interval
  <2>2. IsFiniteSet((1..m) \ {r}) /\ Cardinality((1..m) \ {r}) = m - 1
    BY <2>1, <1>2, FS_RemoveElement
  <2> QED BY <2>2, <1>1, <1>2, <1>3
<1>5. PICK f : f = [i \in P |-> Cardinality(UpTo(P, i))]
  OBVIOUS
<1>6. f \in [P -> T]
  BY <1>5, <1>2, <1>3, RankStarts
<1>7. \E i, j \in P : i # j /\ f[i] = f[j]
  BY <1>1, <1>4, <1>6, FS_PigeonHole
<1>8. PICK i \in P, j \in P : i < j /\ f[i] = f[j]
  <2>1. \A k \in P : k \in Nat
    OBVIOUS
  <2> QED BY <1>7, <2>1
<1>9. Cardinality(UpTo(P, i)) < Cardinality(UpTo(P, j))
  BY <1>8, RankGrows
<1>10. Cardinality(UpTo(P, i)) \in Nat /\ Cardinality(UpTo(P, j)) \in Nat
  BY FiniteUpTo
<1> QED BY <1>5, <1>8, <1>9, <1>10

(* What is taken at some positions: as many, all of them, in their order.  *)
Counts(f, c, b, P) ==
  LET m == Cardinality(P)
  IN  /\ f \in [1..m -> P] /\ \A r \in 1..m : f[r] \in P /\ c[r] = b[f[r]]
      /\ \A i \in P : \E r \in 1..m : f[r] = i
      /\ \A q, r \in 1..m : q < r => f[q] < f[r]

LEMMA PartFacts ==
  ASSUME NEW S, NEW b \in Seq(S), NEW P \in SUBSET (1..Len(b))
  PROVE  /\ Part(b, P) \in Seq(S) /\ Len(Part(b, P)) = Cardinality(P)
         /\ Cardinality(P) \in Nat
         /\ \E f : Counts(f, Part(b, P), b, P)
<1>1. Cardinality(P) \in Nat /\ Len(b) \in Nat
  <2>1. Len(b) \in Nat
    OBVIOUS
  <2> QED BY <2>1, FiniteUpTo
<1>0. \A k \in P : k \in Nat
  OBVIOUS
<1>2. PICK f : f = [r \in 1..Cardinality(P) |-> CHOOSE i \in P : Cardinality(UpTo(P, i)) = r]
  OBVIOUS
<1>3. \A r \in 1..Cardinality(P) : f[r] \in P /\ Cardinality(UpTo(P, f[r])) = r
  BY <1>1, <1>2, RankReaches
<1>4. f \in [1..Cardinality(P) -> P]
  BY <1>2, <1>3
<1>5. ASSUME NEW i \in P PROVE \E r \in 1..Cardinality(P) : f[r] = i
  <2>1. PICK r : r = Cardinality(UpTo(P, i))
    OBVIOUS
  <2>2. r \in 1..Cardinality(P)
    BY <2>1, <1>1, RankStarts
  <2>3. f[r] \in P /\ Cardinality(UpTo(P, f[r])) = r
    BY <2>2, <1>3
  <2>4. ~(f[r] < i)
    <3>1. f[r] < i => Cardinality(UpTo(P, f[r])) < Cardinality(UpTo(P, i))
      BY <2>3, <1>1, RankGrows
    <3> QED BY <3>1, <2>1, <2>2, <2>3
  <2>5. ~(i < f[r])
    <3>1. i < f[r] => Cardinality(UpTo(P, i)) < Cardinality(UpTo(P, f[r]))
      BY <2>3, <1>1, RankGrows
    <3> QED BY <3>1, <2>1, <2>2, <2>3
  <2>6. f[r] \in Nat /\ i \in Nat
    BY <2>3, <1>0
  <2> QED BY <2>2, <2>4, <2>5, <2>6
<1>6. ASSUME NEW q \in 1..Cardinality(P), NEW r \in 1..Cardinality(P), q < r PROVE f[q] < f[r]
  <2>1. f[q] \in P /\ f[r] \in P /\ Cardinality(UpTo(P, f[q])) = q /\ Cardinality(UpTo(P, f[r])) = r
    BY <1>3
  <2>2. f[r] < f[q] => r < q
    <3>1. ASSUME f[r] < f[q] PROVE r < q
      <4>1. Cardinality(UpTo(P, f[r])) < Cardinality(UpTo(P, f[q]))
        BY <3>1, <2>1, <1>1, RankGrows
      <4> QED BY <4>1, <2>1
    <3> QED BY <3>1
  <2>3. f[q] # f[r]
    BY <2>1, <1>6
  <2>4. f[q] \in Nat /\ f[r] \in Nat
    BY <2>1, <1>0
  <2> QED BY <2>2, <2>3, <2>4, <1>6, <1>1
<1>7. Part(b, P) = [r \in 1..Cardinality(P) |-> b[f[r]]]
  BY <1>2 DEF Part, UpTo
<1>8. Part(b, P) \in [1..Cardinality(P) -> S]
  <2>1. \A i \in 1..Len(b) : b[i] \in S
    OBVIOUS
  <2> QED BY <2>1, <1>3, <1>7
<1>9. Part(b, P) \in Seq(S) /\ Len(Part(b, P)) = Cardinality(P)
  BY <1>1, <1>8, MapFacts
<1>10. Counts(f, Part(b, P), b, P)
  BY <1>3, <1>4, <1>5, <1>6, <1>7 DEF Counts
<1> QED BY <1>1, <1>9, <1>10

(***************************************************************************)
(* Buffers: increasing sequences of places in the stream.                  *)
(***************************************************************************)
Below(A, B) == \A i \in A, j \in B : i < j

LEMMA RisingTo ==
  ASSUME NEW a \in Seq(Nat), NEW b \in Seq(Nat)
  PROVE  /\ ToSet(a) \in SUBSET Nat
         /\ ToSet(<<>>) = {} /\ Rising(<<>>)
         /\ Rising(a) /\ Rising(b) /\ Below(ToSet(a), ToSet(b)) => Rising(a \o b)
<1>1. ToSet(a) \in SUBSET Nat
  BY SeqFacts DEF ToSet
<1>2. ToSet(<<>>) = {} /\ Rising(<<>>)
  BY DEF ToSet, Rising
<1>3. ASSUME Rising(a), Rising(b), Below(ToSet(a), ToSet(b)) PROVE Rising(a \o b)
  <2>1. PICK c : c = a \o b
    OBVIOUS
  <2>2. /\ DOMAIN c = 1..(Len(a) + Len(b)) /\ Len(a) \in Nat /\ Len(b) \in Nat
        /\ \A i \in 1..(Len(a) + Len(b)) : c[i] = IF i <= Len(a) THEN a[i] ELSE b[i - Len(a)]
    BY <2>1, JoinFacts
  <2>3. DOMAIN a = 1..Len(a) /\ DOMAIN b = 1..Len(b)
    OBVIOUS
  <2>4. ASSUME NEW i \in DOMAIN c, NEW j \in DOMAIN c, i < j PROVE c[i] < c[j]
    <3>0. i \in Nat /\ j \in Nat /\ 1 <= i /\ j <= Len(a) + Len(b)
      BY <2>2
    <3>1. CASE j <= Len(a)
      <4>1. i \in DOMAIN a /\ j \in DOMAIN a /\ i <= Len(a)
        BY <3>0, <3>1, <2>2, <2>3, <2>4
      <4> QED BY <4>1, <3>1, <2>2, <2>4, <1>3 DEF Rising
    <3>2. CASE i <= Len(a) /\ ~(j <= Len(a))
      <4>1. i \in DOMAIN a /\ j - Len(a) \in DOMAIN b
        BY <3>0, <3>2, <2>2, <2>3
      <4>2. a[i] \in ToSet(a) /\ b[j - Len(a)] \in ToSet(b)
        BY <4>1 DEF ToSet
      <4> QED BY <4>2, <3>2, <2>2, <1>3 DEF Below
    <3>3. CASE ~(i <= Len(a)) /\ ~(j <= Len(a))
      <4>1. i - Len(a) \in DOMAIN b /\ j - Len(a) \in DOMAIN b /\ i - Len(a) < j - Len(a)
        BY <3>0, <3>3, <2>2, <2>3, <2>4
      <4> QED BY <4>1, <3>3, <2>2, <1>3 DEF Rising
    <3> QED BY <3>0, <3>1, <3>2, <3>3, <2>2, <2>4
  <2> QED BY <2>1, <2>4 DEF Rising
<1> QED BY <1>1, <1>2, <1>3

(* A part of an increasing buffer.                                         *)
LEMMA PartRises ==
  ASSUME NEW b \in Seq(Nat), NEW P \in SUBSET (1..Len(b))
  PROVE  /\ Part(b, P) \in Seq(Nat)
         /\ ToSet(Part(b, P)) = {b[i] : i \in P}
         /\ Rising(b) => Rising(Part(b, P))
<1>1. PICK c, m : c = Part(b, P) /\ m = Cardinality(P)
  OBVIOUS
<1>2. c \in Seq(Nat) /\ Len(c) = m /\ m \in Nat
  BY <1>1, PartFacts
<1>3. PICK f : Counts(f, c, b, P)
  BY <1>1, PartFacts
<1>4. DOMAIN c = 1..m /\ DOMAIN b = 1..Len(b)
  BY <1>2
<1>5. /\ \A r \in 1..m : f[r] \in P /\ c[r] = b[f[r]]
      /\ \A i \in P : \E r \in 1..m : f[r] = i
      /\ \A q, r \in 1..m : q < r => f[q] < f[r]
  BY <1>1, <1>3 DEF Counts
<1>6. ToSet(c) = {b[i] : i \in P}
  <2>1. \A i \in P : b[i] \in ToSet(c)
    BY <1>4, <1>5 DEF ToSet
  <2>2. ASSUME NEW x \in ToSet(c) PROVE \E i \in P : x = b[i]
    <3>1. PICK r \in 1..m : x = c[r]
      BY <1>4 DEF ToSet
    <3> QED BY <3>1, <1>5
  <2> QED BY <2>1, <2>2
<1>7. ASSUME Rising(b) PROVE Rising(c)
  <2>1. \A q \in 1..m : f[q] \in DOMAIN b /\ c[q] = b[f[q]]
    BY <1>4, <1>5
  <2> QED BY <2>1, <1>4, <1>5, <1>7 DEF Rising
<1> QED BY <1>1, <1>2, <1>6, <1>7

LEMMA SubRises ==
  ASSUME NEW b \in Seq(Nat), NEW p \in Nat \ {0}, NEW q \in Nat, q <= Len(b), p <= q + 1
  PROVE  /\ SubSeq(b, p, q) \in Seq(Nat)
         /\ ToSet(SubSeq(b, p, q)) = {b[i] : i \in p..q}
         /\ Rising(b) => Rising(SubSeq(b, p, q))
<1>1. PICK c : c = SubSeq(b, p, q)
  OBVIOUS
<1>2. /\ c \in Seq(Nat) /\ DOMAIN c = 1..(q - p + 1) /\ DOMAIN b = 1..Len(b)
      /\ \A i \in 1..(q - p + 1) : p + i - 1 \in 1..Len(b) /\ c[i] = b[p + i - 1]
  BY <1>1, SubFacts
<1>3. \A i \in p..q : i - p + 1 \in 1..(q - p + 1) /\ p + (i - p + 1) - 1 = i
  OBVIOUS
<1>4. \A i \in 1..(q - p + 1) : p + i - 1 \in p..q
  OBVIOUS
<1>5. ToSet(c) = {b[i] : i \in p..q}
  <2>1. \A i \in p..q : b[i] \in ToSet(c)
    <3> SUFFICES ASSUME NEW i \in p..q PROVE b[i] \in ToSet(c)
      OBVIOUS
    <3>1. c[i - p + 1] = b[i] /\ i - p + 1 \in DOMAIN c
      BY <1>2, <1>3
    <3> QED BY <3>1 DEF ToSet
  <2>2. \A x \in ToSet(c) : \E i \in p..q : x = b[i]
    BY <1>2, <1>4 DEF ToSet
  <2> QED BY <2>1, <2>2
<1>6. ASSUME Rising(b) PROVE Rising(c)
  <2>1. \A i, j \in 1..(q - p + 1) : i < j => p + i - 1 < p + j - 1
    OBVIOUS
  <2> QED BY <2>1, <1>2, <1>6 DEF Rising
<1> QED BY <1>1, <1>2, <1>5, <1>6

(* Each token of an increasing buffer is at one place in it, and later     *)
(* places have later tokens.                                               *)
LEMMA PlacesAgree ==
  ASSUME NEW b \in Seq(Nat), Rising(b)
  PROVE  \A i, j \in DOMAIN b : (b[i] < b[j] <=> i < j) /\ (b[i] <= b[j] <=> i <= j)
                                /\ (b[i] = b[j] <=> i = j)
<1> SUFFICES ASSUME NEW i \in DOMAIN b, NEW j \in DOMAIN b
             PROVE  (b[i] < b[j] <=> i < j) /\ (b[i] <= b[j] <=> i <= j) /\ (b[i] = b[j] <=> i = j)
  OBVIOUS
<1>1. i \in Nat /\ j \in Nat /\ b[i] \in Nat /\ b[j] \in Nat
  BY SeqFacts
<1>2. (i < j => b[i] < b[j]) /\ (j < i => b[j] < b[i])
  BY DEF Rising
<1>3. i < j \/ i = j \/ j < i
  BY <1>1
<1>4. CASE i < j  BY <1>1, <1>2, <1>4
<1>5. CASE j < i  BY <1>1, <1>2, <1>5
<1>6. CASE i = j  BY <1>1, <1>6
<1> QED BY <1>3, <1>4, <1>5, <1>6

(***************************************************************************)
(* What is cut out of a buffer.                                            *)
(***************************************************************************)
LEMMA DrainFacts ==
  ASSUME NEW b \in Seq(Nat), NEW p \in Nat \ {0}, NEW q \in Nat, q <= Len(b), p <= q + 1
  PROVE  /\ Drain(b, p, q) \in Seq(Nat)
         /\ ToSet(Drain(b, p, q)) = {b[i] : i \in DOMAIN b \ (p..q)}
         /\ Rising(b) => Rising(Drain(b, p, q))
<1>1. PICK c, d : c = SubSeq(b, 1, p - 1) /\ d = SubSeq(b, q + 1, Len(b))
  OBVIOUS
<1>2. /\ Len(b) \in Nat /\ DOMAIN b = 1..Len(b) /\ p - 1 \in Nat /\ p - 1 <= Len(b)
      /\ q + 1 \in Nat \ {0} /\ q + 1 <= Len(b) + 1
  OBVIOUS
<1>3. c \in Seq(Nat) /\ ToSet(c) = {b[i] : i \in 1..(p - 1)} /\ (Rising(b) => Rising(c))
  <2>1. 1 \in Nat \ {0} /\ 1 <= p - 1 + 1
    BY <1>2
  <2> QED BY <2>1, <1>1, <1>2, SubRises
<1>4. d \in Seq(Nat) /\ ToSet(d) = {b[i] : i \in (q + 1)..Len(b)} /\ (Rising(b) => Rising(d))
  <2>1. Len(b) <= Len(b)
    BY <1>2
  <2> QED BY <2>1, <1>1, <1>2, SubRises
<1>5. DOMAIN b \ (p..q) = 1..(p - 1) \cup (q + 1)..Len(b)
  BY <1>2
<1>6. ToSet(c \o d) = ToSet(c) \cup ToSet(d) /\ c \o d \in Seq(Nat)
  <2>1. c \in Seq(Nat) /\ d \in Seq(Nat)
    BY <1>3, <1>4
  <2>2. c \o d \in Seq(Nat)
    BY <2>1
  <2> QED BY <2>1, <2>2, JoinSet
<1>7. ToSet(c \o d) = {b[i] : i \in DOMAIN b \ (p..q)}
  <2>1. PICK I, J : I = 1..(p - 1) /\ J = (q + 1)..Len(b)
    OBVIOUS
  <2>2. {b[i] : i \in I} \cup {b[i] : i \in J} = {b[i] : i \in I \cup J}
    OBVIOUS
  <2> QED BY <2>1, <2>2, <1>3, <1>4, <1>5, <1>6
<1>8. ASSUME Rising(b) PROVE Rising(c \o d)
  <2>1. ASSUME NEW i \in 1..(p - 1), NEW j \in (q + 1)..Len(b) PROVE b[i] < b[j]
    <3>1. i \in DOMAIN b /\ j \in DOMAIN b /\ i < j
      BY <1>2
    <3> QED BY <3>1, <1>8 DEF Rising
  <2>2. Below(ToSet(c), ToSet(d))
    BY <2>1, <1>3, <1>4 DEF Below
  <2> QED BY <2>2, <1>3, <1>4, <1>8, RisingTo
<1> QED BY <1>1, <1>6, <1>7, <1>8 DEF Drain

LEMMA LineStarts ==
  ASSUME NEW b \in Seq(Nat), NEW p \in 1..Len(b)
  PROVE  /\ LineStart(b, p) \in 1..p
         /\ \A i \in LineStart(b, p)..(p - 1) : ~Is(b, i, {"nl"})
<1>1. PICK N : N = {i \in 1..(p - 1) : Is(b, i, {"nl"})}
  OBVIOUS
<1>2. p - 1 \in Nat /\ N \in SUBSET (1..(p - 1))
  BY <1>1
<1>3. PICK m : m = Max({0} \cup N)
  OBVIOUS
<1>4. m \in 0..(p - 1) /\ \A i \in N : i <= m
  BY <1>2, <1>3, MaxFromZero
<1>5. LineStart(b, p) = m + 1
  BY <1>1, <1>3 DEF LineStart
<1>6. ASSUME NEW i \in (m + 1)..(p - 1) PROVE ~Is(b, i, {"nl"})
  <2>1. i \in 1..(p - 1) /\ ~(i <= m)
    BY <1>4
  <2> QED BY <2>1, <1>1, <1>4
<1>7. m + 1 \in 1..p
  BY <1>4
<1> QED BY <1>5, <1>6, <1>7

(* What is hidden of a buffer is on the line of its first mark.            *)
LEMMA StripFacts ==
  ASSUME NEW b \in Seq(Nat)
  PROVE  LET c == strip_prompt_setup_echo(b)
         IN  /\ c \in Seq(Nat) /\ (Rising(b) => Rising(c))
             /\ \/ c = b
                \/ \E h \in Marks(b) : \E q \in h..Len(b) :
                     /\ ToSet(c) = {b[i] : i \in DOMAIN b \ (LineStart(b, h)..q)}
                     /\ \A i \in h..(q - 1) : ~Is(b, i, {"nl"})
<1>1. CASE Marks(b) = {}
  BY <1>1 DEF strip_prompt_setup_echo
<1>2. CASE Marks(b) # {}
  <2>1. Len(b) \in Nat /\ DOMAIN b = 1..Len(b)
    OBVIOUS
  <2>2. PICK h : h = Min(Marks(b))
    OBVIOUS
  <2>3. Marks(b) \in SUBSET (1..Len(b))
    BY <2>1 DEF Marks, Where
  <2>4. h \in Marks(b) /\ h \in 1..Len(b)
    BY <1>2, <2>1, <2>2, <2>3, MinIsFirst
  <2>5. PICK E : E = {i \in h..Len(b) : Is(b, i, {"nl"})}
    OBVIOUS
  <2>6. PICK q : q = IF E = {} THEN Len(b) ELSE Min(E)
    OBVIOUS
  <2>7. q \in h..Len(b) /\ \A i \in h..(q - 1) : ~Is(b, i, {"nl"})
    <3>1. E \in SUBSET (1..Len(b))
      BY <2>1, <2>4, <2>5
    <3>2. CASE E = {}
      <4>1. q = Len(b)
        BY <3>2, <2>6
      <4>2. \A i \in h..(q - 1) : i \in h..Len(b)
        BY <4>1, <2>1, <2>4
      <4> QED BY <4>1, <4>2, <3>2, <2>1, <2>4, <2>5
    <3>3. CASE E # {}
      <4>1. q \in E /\ \A i \in E : q <= i
        BY <3>1, <3>3, <2>1, <2>6, MinIsFirst
      <4>2. q \in h..Len(b)
        BY <4>1, <2>5
      <4>3. ASSUME NEW i \in h..(q - 1) PROVE ~Is(b, i, {"nl"})
        <5>1. i \in h..Len(b) /\ ~(q <= i)
          BY <4>2, <2>1, <2>4
        <5> QED BY <5>1, <4>1, <2>5
      <4> QED BY <4>2, <4>3
    <3> QED BY <3>2, <3>3
  <2>8. PICK c : c = strip_prompt_setup_echo(b)
    OBVIOUS
  <2>9. c = Drain(b, LineStart(b, h), q)
    BY <1>2, <2>2, <2>5, <2>6, <2>8 DEF strip_prompt_setup_echo
  <2>10. /\ LineStart(b, h) \in Nat \ {0} /\ q \in Nat /\ q <= Len(b) /\ LineStart(b, h) <= q + 1
    BY <2>1, <2>4, <2>7, LineStarts
  <2>11. /\ c \in Seq(Nat) /\ (Rising(b) => Rising(c))
         /\ ToSet(c) = {b[i] : i \in DOMAIN b \ (LineStart(b, h)..q)}
    BY <2>9, <2>10, DrainFacts
  <2> QED BY <2>4, <2>7, <2>8, <2>11
<1> QED BY <1>1, <1>2

LEMMA StripKeeps ==
  ASSUME NEW b \in Seq(Nat)
  PROVE  LET c == strip_prompt_setup_echo(b)
         IN  c \in Seq(Nat) /\ (Rising(b) => Rising(c)) /\ ToSet(c) \subseteq ToSet(b)
<1>1. PICK c : c = strip_prompt_setup_echo(b)
  OBVIOUS
<1>2. c \in Seq(Nat) /\ (Rising(b) => Rising(c))
  BY <1>1, StripFacts
<1>3. c = b \/ \E h, q : ToSet(c) = {b[i] : i \in DOMAIN b \ (LineStart(b, h)..q)}
  BY <1>1, StripFacts
<1>4. ToSet(c) \subseteq ToSet(b)
  BY <1>3 DEF ToSet
<1> QED BY <1>1, <1>2, <1>4

(***************************************************************************)
(* The control strings of an increasing buffer are those of its tokens.    *)
(***************************************************************************)
LEMMA BelAgrees ==
  ASSUME NEW b \in Seq(Nat), Rising(b), NEW p \in DOMAIN b, NEW q \in DOMAIN b
  PROVE  /\ BelWithin(ToSet(b), b[p], b[q]) <=> Some(b, p, q, {"bel"})
         /\ BelWithin(ToSet(b), b[p], b[q] - 1) <=> Some(b, p, q - 1, {"bel"})
<1>1. DOMAIN b = 1..Len(b) /\ \A i \in DOMAIN b : b[i] \in Nat
  OBVIOUS
<1>2. \A i \in DOMAIN b : (b[p] <= b[i] <=> p <= i) /\ (b[i] <= b[q] <=> i <= q)
  BY PlacesAgree
<1>3. ASSUME NEW i \in DOMAIN b PROVE b[i] <= b[q] - 1 <=> i <= q - 1
  <2>1. b[i] < b[q] <=> i < q
    BY PlacesAgree
  <2>2. (b[i] <= b[q] - 1 <=> b[i] < b[q]) /\ (i <= q - 1 <=> i < q)
    BY <1>1
  <2> QED BY <2>1, <2>2
<1>4. \A i \in p..q : i \in DOMAIN b /\ p <= i /\ i <= q
  BY <1>1
<1>5. \A i \in p..(q - 1) : i \in DOMAIN b /\ p <= i /\ i <= q - 1
  BY <1>1
<1>6. \A i \in DOMAIN b : (p <= i /\ i <= q => i \in p..q) /\ (p <= i /\ i <= q - 1 => i \in p..(q - 1))
  BY <1>1
<1>7. BelWithin(ToSet(b), b[p], b[q]) <=> \E i \in DOMAIN b : p <= i /\ i <= q /\ sent[b[i]] = "bel"
  BY <1>2 DEF BelWithin, ToSet
<1>8. BelWithin(ToSet(b), b[p], b[q] - 1)
        <=> \E i \in DOMAIN b : p <= i /\ i <= q - 1 /\ sent[b[i]] = "bel"
  BY <1>2, <1>3 DEF BelWithin, ToSet
<1> QED BY <1>4, <1>5, <1>6, <1>7, <1>8 DEF Some, Is

StringsAt(b, kind) == {o \in Oscs(b) : Is(b, o[1], {kind})}

LEMMA StringsAgree ==
  ASSUME NEW b \in Seq(Nat), Rising(b), NEW kind \in Openers
  PROVE  \A p, q \in DOMAIN b : <<p, q>> \in StringsAt(b, kind) <=> <<b[p], b[q]>> \in StringsOf(ToSet(b), kind)
<1> SUFFICES ASSUME NEW p \in DOMAIN b, NEW q \in DOMAIN b
             PROVE  <<p, q>> \in StringsAt(b, kind) <=> <<b[p], b[q]>> \in StringsOf(ToSet(b), kind)
  OBVIOUS
<1>1. DOMAIN b = 1..Len(b) /\ Len(b) \in Nat
  OBVIOUS
<1>2. <<p, q>> \in StringsAt(b, kind) <=>
        /\ sent[b[p]] = kind /\ sent[b[q]] = "bel" /\ p < q /\ ~Some(b, p, q - 1, {"bel"})
        /\ \A h \in 1..(p - 1) : sent[b[h]] \in Openers => Some(b, h, p, {"bel"})
  BY DEF StringsAt, Oscs, Where, Is
<1>3. <<b[p], b[q]>> \in StringsOf(ToSet(b), kind) <=>
        /\ sent[b[p]] = kind /\ sent[b[q]] = "bel" /\ b[p] < b[q] /\ ~BelWithin(ToSet(b), b[p], b[q] - 1)
        /\ \A x \in ToSet(b) : x < b[p] /\ sent[x] \in Openers => BelWithin(ToSet(b), x, b[p])
  BY DEF StringsOf, ToSet
<1>4. (p < q <=> b[p] < b[q]) /\ (BelWithin(ToSet(b), b[p], b[q] - 1) <=> Some(b, p, q - 1, {"bel"}))
  BY BelAgrees, PlacesAgree
<1>5. (\A h \in 1..(p - 1) : sent[b[h]] \in Openers => Some(b, h, p, {"bel"}))
        <=> \A x \in ToSet(b) : x < b[p] /\ sent[x] \in Openers => BelWithin(ToSet(b), x, b[p])
  <2>1. \A h \in DOMAIN b : BelWithin(ToSet(b), b[h], b[p]) <=> Some(b, h, p, {"bel"})
    BY BelAgrees
  <2>2. \A h \in DOMAIN b : b[h] < b[p] <=> h < p
    BY PlacesAgree
  <2>3. \A h \in 1..(p - 1) : h \in DOMAIN b /\ h < p
    BY <1>1
  <2>4. \A h \in DOMAIN b : h < p => h \in 1..(p - 1)
    BY <1>1
  <2> QED BY <2>1, <2>2, <2>3, <2>4 DEF ToSet
<1> QED BY <1>2, <1>3, <1>4, <1>5

LEMMA StringsAreAt ==
  ASSUME NEW b \in Seq(Nat), Rising(b), NEW kind \in Openers
  PROVE  /\ \A o \in StringsAt(b, kind) : o[1] \in DOMAIN b /\ o[2] \in DOMAIN b /\ o[1] < o[2]
         /\ {b[o[1]] : o \in StringsAt(b, kind)} = {o[1] : o \in StringsOf(ToSet(b), kind)}
         /\ {b[i] : i \in DOMAIN b \ UNION {o[1]..o[2] : o \in StringsAt(b, kind)}}
              = ToSet(b) \ UNION {Body(ToSet(b), o) : o \in StringsOf(ToSet(b), kind)}
<1>1. ASSUME NEW o \in StringsAt(b, kind)
      PROVE  /\ o[1] \in DOMAIN b /\ o[2] \in DOMAIN b /\ o[1] < o[2] /\ o = <<o[1], o[2]>>
             /\ <<b[o[1]], b[o[2]]>> \in StringsOf(ToSet(b), kind)
  <2>1. o[1] \in DOMAIN b /\ o[2] \in DOMAIN b /\ o[1] < o[2] /\ o = <<o[1], o[2]>>
    BY DEF StringsAt, Oscs, Where
  <2> QED BY <2>1, StringsAgree
<1>2. ASSUME NEW o \in StringsOf(ToSet(b), kind)
      PROVE  \E p, q \in DOMAIN b : o = <<b[p], b[q]>> /\ <<p, q>> \in StringsAt(b, kind)
  <2>1. PICK p \in DOMAIN b, q \in DOMAIN b : o = <<b[p], b[q]>>
    BY DEF StringsOf, ToSet
  <2> QED BY <2>1, StringsAgree
<1>3. {b[o[1]] : o \in StringsAt(b, kind)} = {o[1] : o \in StringsOf(ToSet(b), kind)}
  <2>1. ASSUME NEW o \in StringsAt(b, kind) PROVE \E r \in StringsOf(ToSet(b), kind) : b[o[1]] = r[1]
    BY <1>1
  <2>2. ASSUME NEW r \in StringsOf(ToSet(b), kind) PROVE \E o \in StringsAt(b, kind) : r[1] = b[o[1]]
    <3>1. PICK p \in DOMAIN b, q \in DOMAIN b : r = <<b[p], b[q]>> /\ <<p, q>> \in StringsAt(b, kind)
      BY <1>2
    <3>2. r[1] = b[p] /\ <<p, q>>[1] = p
      BY <3>1
    <3> QED BY <3>1, <3>2
  <2> QED BY <2>1, <2>2
<1>4. DOMAIN b = 1..Len(b) /\ Len(b) \in Nat
  OBVIOUS
<1>5. ASSUME NEW i \in DOMAIN b
      PROVE  (\E o \in StringsAt(b, kind) : i \in o[1]..o[2])
               <=> \E r \in StringsOf(ToSet(b), kind) : b[i] \in Body(ToSet(b), r)
  <2>1. ASSUME NEW p \in DOMAIN b, NEW q \in DOMAIN b
        PROVE  i \in p..q <=> b[i] \in Body(ToSet(b), <<b[p], b[q]>>)
    <3>1. (b[p] <= b[i] <=> p <= i) /\ (b[i] <= b[q] <=> i <= q)
      BY PlacesAgree
    <3>2. i \in p..q <=> p <= i /\ i <= q
      BY <1>4
    <3>3. b[i] \in ToSet(b)
      BY DEF ToSet
    <3> QED BY <3>1, <3>2, <3>3 DEF Body
  <2>2. ASSUME NEW o \in StringsAt(b, kind), i \in o[1]..o[2]
        PROVE  \E r \in StringsOf(ToSet(b), kind) : b[i] \in Body(ToSet(b), r)
    BY <2>1, <2>2, <1>1
  <2>3. ASSUME NEW r \in StringsOf(ToSet(b), kind), b[i] \in Body(ToSet(b), r)
        PROVE  \E o \in StringsAt(b, kind) : i \in o[1]..o[2]
    <3>1. PICK p \in DOMAIN b, q \in DOMAIN b : r = <<b[p], b[q]>> /\ <<p, q>> \in StringsAt(b, kind)
      BY <1>2
    <3>2. i \in p..q
      BY <3>1, <2>1, <2>3
    <3> QED BY <3>1, <3>2
  <2> QED BY <2>2, <2>3
<1>6. {b[i] : i \in DOMAIN b \ UNION {o[1]..o[2] : o \in StringsAt(b, kind)}}
        = ToSet(b) \ UNION {Body(ToSet(b), o) : o \in StringsOf(ToSet(b), kind)}
  <2>1. PICK U, V : /\ U = UNION {o[1]..o[2] : o \in StringsAt(b, kind)}
                    /\ V = UNION {Body(ToSet(b), o) : o \in StringsOf(ToSet(b), kind)}
    OBVIOUS
  <2>2. \A i \in DOMAIN b : i \in U <=> b[i] \in V
    BY <1>5, <2>1
  <2>3. {b[i] : i \in DOMAIN b \ U} = ToSet(b) \ V
    BY <2>2 DEF ToSet
  <2> QED BY <2>1, <2>3
<1> QED BY <1>1, <1>3, <1>6
(***************************************************************************)
(* Reports.                                                                *)
(***************************************************************************)
LEMMA LogFacts ==
  ASSUME NEW log \in Seq(Report)
  PROVE  /\ Len(log) \in Nat /\ DOMAIN log = 1..Len(log)
         /\ \A r \in DOMAIN log : log[r] \in Report /\ log[r].data \in Seq(Nat)
<1>1. Len(log) \in Nat /\ DOMAIN log = 1..Len(log) /\ \A r \in 1..Len(log) : log[r] \in Report
  OBVIOUS
<1>2. \A r \in Report : r.data \in Seq(Nat)
  BY DEF Report
<1> QED BY <1>1, <1>2

LEMMA NoneOfType ==
  ASSUME NEW log, NEW type, \A r \in DOMAIN log : log[r].type # type
  PROVE  Ids(log, type) = {} /\ InOrder(log, type)
BY DEF Ids, InOrder, Of

LEMMA LogJoins ==
  ASSUME NEW a \in Seq(Report), NEW b \in Seq(Report), NEW type
  PROVE  /\ Ids(a \o b, type) = Ids(a, type) \cup Ids(b, type)
         /\ InOrder(a, type) /\ InOrder(b, type) /\ Below(Ids(a, type), Ids(b, type))
              => InOrder(a \o b, type)
<1>1. PICK c : c = a \o b
  OBVIOUS
<1>2. /\ DOMAIN c = 1..(Len(a) + Len(b)) /\ Len(a) \in Nat /\ Len(b) \in Nat
      /\ \A i \in 1..(Len(a) + Len(b)) : c[i] = IF i <= Len(a) THEN a[i] ELSE b[i - Len(a)]
  BY <1>1, JoinFacts
<1>3. DOMAIN a = 1..Len(a) /\ DOMAIN b = 1..Len(b)
  OBVIOUS
<1>4. \A i \in DOMAIN a : i \in DOMAIN c /\ c[i] = a[i]
  BY <1>2, <1>3
<1>5. \A i \in DOMAIN b : i + Len(a) \in DOMAIN c /\ c[i + Len(a)] = b[i]
  BY <1>2, <1>3
<1>6. \A i \in DOMAIN c : \/ i \in DOMAIN a /\ c[i] = a[i] /\ i <= Len(a)
                          \/ i - Len(a) \in DOMAIN b /\ c[i] = b[i - Len(a)] /\ ~(i <= Len(a))
  BY <1>2, <1>3
<1>7. Ids(c, type) = Ids(a, type) \cup Ids(b, type)
  <2>1. ASSUME NEW x \in Ids(a, type) PROVE x \in Ids(c, type)
    <3>1. PICK r \in Of(a, type) : x \in ToSet(a[r].data)
      BY DEF Ids
    <3>2. r \in Of(c, type) /\ c[r] = a[r]
      BY <1>4 DEF Of
    <3> QED BY <3>1, <3>2 DEF Ids
  <2>2. ASSUME NEW x \in Ids(b, type) PROVE x \in Ids(c, type)
    <3>1. PICK r \in Of(b, type) : x \in ToSet(b[r].data)
      BY DEF Ids
    <3>2. r + Len(a) \in Of(c, type) /\ c[r + Len(a)] = b[r]
      BY <1>5 DEF Of
    <3> QED BY <3>1, <3>2 DEF Ids
  <2>3. ASSUME NEW x \in Ids(c, type) PROVE x \in Ids(a, type) \cup Ids(b, type)
    <3>1. PICK r \in Of(c, type) : x \in ToSet(c[r].data)
      BY DEF Ids
    <3>2. r \in DOMAIN c /\ c[r].type = type
      BY DEF Of
    <3>3. CASE r \in DOMAIN a /\ c[r] = a[r]
      BY <3>1, <3>2, <3>3 DEF Ids, Of
    <3>4. CASE r - Len(a) \in DOMAIN b /\ c[r] = b[r - Len(a)]
      BY <3>1, <3>2, <3>4 DEF Ids, Of
    <3> QED BY <3>2, <3>3, <3>4, <1>6
  <2> QED BY <2>1, <2>2, <2>3
<1>8. ASSUME InOrder(a, type), InOrder(b, type), Below(Ids(a, type), Ids(b, type))
      PROVE  InOrder(c, type)
  <2>1. \A r \in Of(c, type) : \/ r \in Of(a, type) /\ c[r] = a[r] /\ r <= Len(a)
                               \/ r - Len(a) \in Of(b, type) /\ c[r] = b[r - Len(a)] /\ ~(r <= Len(a))
    BY <1>6 DEF Of
  <2>2. \A r \in Of(c, type) : Rising(c[r].data)
    BY <2>1, <1>8 DEF InOrder
  <2>3. ASSUME NEW q \in Of(c, type), NEW r \in Of(c, type), q < r,
               NEW i \in ToSet(c[q].data), NEW j \in ToSet(c[r].data)
        PROVE  i < j
    <3>0. q \in 1..(Len(a) + Len(b)) /\ r \in 1..(Len(a) + Len(b))
      BY <1>2 DEF Of
    <3>1. CASE q \in Of(a, type) /\ c[q] = a[q] /\ r \in Of(a, type) /\ c[r] = a[r]
      BY <3>1, <2>3, <1>8 DEF InOrder
    <3>2. CASE q \in Of(a, type) /\ c[q] = a[q] /\ r - Len(a) \in Of(b, type) /\ c[r] = b[r - Len(a)]
      <4>1. i \in Ids(a, type) /\ j \in Ids(b, type)
        BY <3>2 DEF Ids
      <4> QED BY <4>1, <1>8 DEF Below
    <3>3. CASE /\ q - Len(a) \in Of(b, type) /\ c[q] = b[q - Len(a)]
               /\ r - Len(a) \in Of(b, type) /\ c[r] = b[r - Len(a)]
      <4>1. q - Len(a) < r - Len(a)
        BY <3>0, <2>3, <1>2
      <4> QED BY <4>1, <3>3, <1>8 DEF InOrder
    <3>4. CASE ~(q <= Len(a)) /\ r <= Len(a)
      BY <3>0, <3>4, <2>3, <1>2
    <3> QED BY <3>1, <3>2, <3>3, <3>4, <2>1
  <2> QED BY <2>2, <2>3 DEF InOrder
<1> QED BY <1>1, <1>7, <1>8

LEMMA OutputFacts ==
  ASSUME NEW b \in Seq(Nat)
  PROVE  /\ Output(b) \in Seq(Report)
         /\ \A r \in DOMAIN Output(b) : Output(b)[r].type = "Output"
         /\ Ids(Output(b), "Output") = ToSet(b)
         /\ Rising(b) => InOrder(Output(b), "Output")
<1>1. CASE b = <<>>
  <2>1. Output(b) = <<>> /\ ToSet(b) = {}
    BY <1>1 DEF Output, ToSet
  <2>2. DOMAIN <<>> = {} /\ <<>> \in Seq(Report)
    OBVIOUS
  <2> QED BY <2>1, <2>2 DEF Ids, InOrder, Of
<1>2. CASE b # <<>>
  <2>1. PICK e : e = [type |-> "Output", data |-> b]
    OBVIOUS
  <2>2. Output(b) = <<e>> /\ e \in Report /\ e.type = "Output" /\ e.data = b
    BY <1>2, <2>1 DEF Output, Report
  <2>3. <<e>> \in Seq(Report) /\ DOMAIN <<e>> = {1} /\ <<e>>[1] = e
    BY <2>2
  <2>4. Of(<<e>>, "Output") = {1}
    BY <2>2, <2>3 DEF Of
  <2>5. Ids(<<e>>, "Output") = ToSet(b)
    BY <2>2, <2>3, <2>4 DEF Ids
  <2>6. Rising(b) => InOrder(<<e>>, "Output")
    BY <2>2, <2>3, <2>4 DEF InOrder
  <2> QED BY <2>2, <2>3, <2>5, <2>6
<1> QED BY <1>1, <1>2

LEMMA TellFacts ==
  ASSUME NEW b \in Seq(Nat), NEW O \in SUBSET Oscs(b),
         NEW type \in {"Output", "CwdChanged", "CommandRan"}
  PROVE  /\ Tell(type, b, O) \in Seq(Report)
         /\ \A r \in DOMAIN Tell(type, b, O) : Tell(type, b, O)[r].type = type
         /\ Ids(Tell(type, b, O), type) = {b[o[1]] : o \in O}
         /\ Rising(b) => InOrder(Tell(type, b, O), type)
<1>1. PICK P : P = {o[1] : o \in O}
  OBVIOUS
<1>2. P \in SUBSET (1..Len(b))
  BY <1>1 DEF Oscs, Where
<1>3. PICK f : f = Part(b, P)
  OBVIOUS
<1>4. f \in Seq(Nat) /\ ToSet(f) = {b[i] : i \in P} /\ (Rising(b) => Rising(f))
  BY <1>2, <1>3, PartRises
<1>5. PICK t : t = Tell(type, b, O)
  OBVIOUS
<1>6. t = [i \in DOMAIN f |-> [type |-> type, data |-> <<f[i]>>]]
  BY <1>1, <1>3, <1>5 DEF Tell
<1>7. /\ Len(f) \in Nat /\ DOMAIN f = 1..Len(f) /\ \A i \in DOMAIN f : f[i] \in Nat
  BY <1>4
<1>8. \A i \in DOMAIN f : t[i].type = type /\ t[i].data = <<f[i]>> /\ t[i] \in Report
  BY <1>6, <1>7 DEF Report
<1>9. t \in [1..Len(f) -> Report]
  BY <1>6, <1>7, <1>8
<1>10. t \in Seq(Report) /\ DOMAIN t = DOMAIN f
  BY <1>6, <1>7, <1>9, MapFacts
<1>11. Of(t, type) = DOMAIN f
  BY <1>8, <1>10 DEF Of
<1>12. \A i \in DOMAIN f : ToSet(t[i].data) = {f[i]}
  <2> SUFFICES ASSUME NEW i \in DOMAIN f PROVE ToSet(<<f[i]>>) = {f[i]}
    BY <1>8
  <2>1. DOMAIN <<f[i]>> = {1} /\ <<f[i]>>[1] = f[i]
    OBVIOUS
  <2> QED BY <2>1 DEF ToSet
<1>13. Ids(t, type) = {b[o[1]] : o \in O}
  <2>1. Ids(t, type) = UNION {{f[i]} : i \in DOMAIN f}
    BY <1>11, <1>12 DEF Ids
  <2>2. Ids(t, type) = ToSet(f)
    BY <2>1 DEF ToSet
  <2> QED BY <2>2, <1>4, <1>1
<1>14. ASSUME Rising(b) PROVE InOrder(t, type)
  <2>1. \A i \in DOMAIN f : Rising(t[i].data)
    <3> SUFFICES ASSUME NEW i \in DOMAIN f PROVE Rising(<<f[i]>>)
      BY <1>8
    <3>1. DOMAIN <<f[i]>> = {1}
      OBVIOUS
    <3> QED BY <3>1 DEF Rising
  <2>2. \A q, r \in DOMAIN f : q < r => f[q] < f[r]
    BY <1>14, <1>4 DEF Rising
  <2>3. \A q, r \in DOMAIN f : q < r => \A i \in ToSet(t[q].data), j \in ToSet(t[r].data) : i < j
    <3> SUFFICES ASSUME NEW q \in DOMAIN f, NEW r \in DOMAIN f, q < r,
                        NEW i \in ToSet(t[q].data), NEW j \in ToSet(t[r].data)
                 PROVE  i < j
      OBVIOUS
    <3>1. i = f[q] /\ j = f[r]
      BY <1>12
    <3> QED BY <3>1, <2>2
  <2> QED BY <2>1, <2>3, <1>11 DEF InOrder
<1> QED BY <1>5, <1>8, <1>10, <1>13, <1>14

(***************************************************************************)
(* Control strings in two parts of the stream, one behind the other.       *)
(***************************************************************************)
Closed(P) == \A h \in P : sent[h] \in Openers => \E k \in P : h < k /\ sent[k] = "bel"

LEMMA StringEnds ==
  ASSUME NEW S, NEW kind, NEW o \in StringsOf(S, kind)
  PROVE  o[1] \in S /\ o[2] \in S /\ o = <<o[1], o[2]>>
<1>1. o \in S \X S
  BY DEF StringsOf
<1> QED BY <1>1

LEMMA StringsStay ==
  ASSUME NEW P \in SUBSET Nat, NEW X \in SUBSET Nat, Below(P, X), NEW kind,
         NEW o \in StringsOf(P, kind)
  PROVE  o \in StringsOf(P \cup X, kind) /\ Body(P \cup X, o) = Body(P, o)
<1>1. PICK S : S = P \cup X
  OBVIOUS
<1>2. \A i \in P, j \in X : i \in Nat /\ j \in Nat /\ i < j /\ ~(j <= i) /\ ~(j < i)
  BY DEF Below
<1>3. PICK p, q : p = o[1] /\ q = o[2]
  OBVIOUS
<1>4. p \in P /\ q \in P /\ o = <<p, q>>
  BY <1>3, StringEnds
<1>5. \A k \in S : k <= q \/ k <= q - 1 \/ k < p => k \in P
  <2> SUFFICES ASSUME NEW k \in X, k <= q \/ k <= q - 1 \/ k < p PROVE FALSE
    BY <1>1
  <2>1. p < k /\ q < k /\ p \in Nat /\ q \in Nat /\ k \in Nat
    BY <1>2, <1>4
  <2> QED BY <2>1
<1>6. BelWithin(S, p, q - 1) <=> BelWithin(P, p, q - 1)
  BY <1>5, <1>1 DEF BelWithin
<1>7. \A h \in P : h < p => (BelWithin(P, h, p) => BelWithin(S, h, p))
  BY <1>1 DEF BelWithin
<1>8. o \in StringsOf(S, kind)
  BY <1>3, <1>4, <1>5, <1>6, <1>7, <1>1 DEF StringsOf
<1>9. Body(S, o) = Body(P, o)
  BY <1>3, <1>5, <1>1 DEF Body
<1> QED BY <1>1, <1>8, <1>9

LEMMA StringsOfTwo ==
  ASSUME NEW P \in SUBSET Nat, NEW X \in SUBSET Nat, Below(P, X), NEW kind \in Openers
  PROVE  /\ Closed(P) => \A o \in StringsOf(X, kind) :
              o \in StringsOf(P \cup X, kind) /\ Body(P \cup X, o) = Body(X, o)
         /\ Closed(P) => StringsOf(P \cup X, kind) \subseteq StringsOf(P, kind) \cup StringsOf(X, kind)
         /\ Closed(P) /\ Closed(X) => Closed(P \cup X)
<1>1. PICK S : S = P \cup X
  OBVIOUS
<1>2. \A i \in P, j \in X : i \in Nat /\ j \in Nat /\ i < j /\ ~(j <= i) /\ ~(j < i)
  BY DEF Below
<1>3. \A i \in S : i \in Nat
  BY <1>1
<1>5. ASSUME Closed(P), NEW o \in StringsOf(X, kind)
      PROVE  o \in StringsOf(S, kind) /\ Body(S, o) = Body(X, o)
  <2>0. PICK p, q : p = o[1] /\ q = o[2]
    OBVIOUS
  <2>1. p \in X /\ q \in X /\ o = <<p, q>>
    BY <2>0, StringEnds
  <2>2. o[1] = p /\ o[2] = q
    BY <2>0
  <2>3. \A k \in S : p <= k => k \in X
    BY <1>1, <1>2, <2>1
  <2>4. BelWithin(S, p, q - 1) <=> BelWithin(X, p, q - 1)
    BY <2>3, <1>1 DEF BelWithin
  <2>5. ASSUME NEW h \in S, h < p, sent[h] \in Openers PROVE BelWithin(S, h, p)
    <3>1. CASE h \in X
      <4>1. BelWithin(X, h, p)
        BY <3>1, <2>2, <2>5 DEF StringsOf
      <4> QED BY <4>1, <1>1 DEF BelWithin
    <3>2. CASE h \in P
      <4>1. PICK k \in P : h < k /\ sent[k] = "bel"
        BY <3>2, <2>5, <1>5 DEF Closed
      <4>2. k \in S /\ h <= k /\ k <= p
        BY <4>1, <1>1, <1>2, <1>3, <2>1
      <4> QED BY <4>1, <4>2 DEF BelWithin
    <3> QED BY <3>1, <3>2, <1>1
  <2>6. o \in StringsOf(S, kind)
    BY <2>1, <2>2, <2>4, <2>5, <1>1 DEF StringsOf
  <2>7. Body(S, o) = Body(X, o)
    BY <2>2, <2>3, <1>1 DEF Body
  <2> QED BY <2>6, <2>7
<1>6. ASSUME Closed(P), NEW o \in StringsOf(S, kind)
      PROVE  o \in StringsOf(P, kind) \cup StringsOf(X, kind)
  <2>1. PICK p \in S, q \in S : o = <<p, q>>
    BY DEF StringsOf
  <2>2. o[1] = p /\ o[2] = q
    BY <2>1
  <2>3. /\ sent[p] = kind /\ sent[q] = "bel" /\ p < q /\ ~BelWithin(S, p, q - 1)
        /\ \A h \in S : h < p /\ sent[h] \in Openers => BelWithin(S, h, p)
    BY <2>2 DEF StringsOf
  <2>4. ~BelWithin(P, p, q - 1) /\ ~BelWithin(X, p, q - 1)
    BY <2>3, <1>1 DEF BelWithin
  <2>5. CASE p \in P /\ q \in P
    <3>1. \A h \in P : h < p /\ BelWithin(S, h, p) => BelWithin(P, h, p)
      BY <2>5, <1>1, <1>2 DEF BelWithin
    <3> QED BY <3>1, <2>1, <2>2, <2>3, <2>4, <2>5, <1>1 DEF StringsOf
  <2>6. CASE p \in X /\ q \in X
    <3>1. \A h \in X : h < p /\ BelWithin(S, h, p) => BelWithin(X, h, p)
      BY <1>1, <1>2 DEF BelWithin
    <3> QED BY <3>1, <2>1, <2>2, <2>3, <2>4, <2>6, <1>1 DEF StringsOf
  <2>7. CASE p \in P /\ q \in X
    <3>1. PICK k \in P : p < k /\ sent[k] = "bel"
      BY <2>3, <2>7, <1>6 DEF Closed
    <3>2. p <= k /\ k <= q - 1
      BY <3>1, <2>7, <1>2, <1>3
    <3> QED BY <3>1, <3>2, <2>4 DEF BelWithin
  <2>8. CASE p \in X /\ q \in P
    BY <2>8, <2>3, <1>2
  <2> QED BY <2>5, <2>6, <2>7, <2>8, <1>1
<1>7. Closed(P) /\ Closed(X) => Closed(S)
  BY <1>1 DEF Closed
<1> QED BY <1>1, <1>5, <1>6, <1>7

LEMMA StringsFollow ==
  ASSUME NEW P \in SUBSET Nat, NEW X \in SUBSET Nat, Below(P, X), Closed(P), NEW kind \in Openers,
         NEW o \in StringsOf(X, kind)
  PROVE  o \in StringsOf(P \cup X, kind) /\ Body(P \cup X, o) = Body(X, o)
BY StringsOfTwo
(***************************************************************************)
(* The invariant.                                                          *)
(***************************************************************************)
(* The reports of a log, when the tokens P of the stream were passed on    *)
(* and H are held back; those in hid may be hidden.                        *)
Cmds(P) == UNION {Body(P, o) : o \in StringsOf(P, "cmd")}

Kept(log, P, H, hid) ==
  /\ InOrder(log, "Output") /\ InOrder(log, "CommandRan")
  /\ Ids(log, "Output") \subseteq P
  /\ Below(P, H)
  /\ Ids(log, "CommandRan") = {o[1] : o \in StringsOf(P, "cmd")}
  /\ P \subseteq Ids(log, "Output") \cup hid \cup Cmds(P)

(* Token i may be hidden: of the tokens all, bl went unsearched and were   *)
(* hidden in the stream up to then, raw, the others in the text txt.       *)
MayHide(i, all, bl, raw, txt) ==
  \E h \in all :
    \/ /\ sent[h] \in Markers
       /\ ~\E k \in (IF i \in bl THEN raw ELSE txt) :
            sent[k] = "nl" /\ ((i <= k /\ k < h) \/ (h < k /\ k < i))
    \/ /\ i \in bl /\ sent[h] \in Hooks /\ h < i
       /\ \A o \in StringsOf({k \in raw : h <= k}, "cwd") : i <= o[2]

Raw    == (1..read) \ moved
Passed == Searched \ Held

StreamTyped ==
  /\ StreamTypeOK
  /\ Held \subseteq 1..read
  /\ ~suppress => echoBuf = <<>>
  /\ suppress => injected
  /\ phase = "up" => dropped = {}

(* The buffers are parts of the stream, the older bytes in oscPending; no  *)
(* control string is cut by their borders; and what follows the first byte *)
(* of echoBuf is in it, too, but for transfers.                            *)
Buffered ==
  /\ Rising(oscPending) /\ Rising(echoBuf) /\ Below(ToSet(oscPending), ToSet(echoBuf))
  /\ Held \subseteq Searched
  /\ cut \ blind \subseteq Passed
  /\ \A i \in ToSet(oscPending) : sent[i] # "bel"
  /\ phase = "up" => Closed(Passed)
  /\ \A k \in Raw : \A e \in ToSet(echoBuf) : e <= k => k \in ToSet(echoBuf)

EchoHidden == \A i \in cut : MayHide(i, 1..read, blind, Raw, Searched \ Cmds(Passed))

StreamInv ==
  /\ StreamTyped
  /\ ~astray => Buffered /\ Kept(Told, Passed, Held, cut) /\ EchoHidden

LEMMA NoStrings ==
  ASSUME NEW X, \/ \A i \in X : sent[i] # "bel"
                \/ \A i \in X : sent[i] \notin Openers
  PROVE  StringsOf(X, "cmd") = {} /\ Cmds(X) = {}
<1>1. StringsOf(X, "cmd") = {}
  <2> SUFFICES ASSUME NEW o \in StringsOf(X, "cmd") PROVE FALSE
    OBVIOUS
  <2>1. o[1] \in X /\ o[2] \in X
    BY StringEnds
  <2>2. sent[o[1]] = "cmd" /\ sent[o[2]] = "bel"
    BY DEF StringsOf
  <2> QED BY <2>1, <2>2 DEF Openers
<1> QED BY <1>1 DEF Cmds

LEMMA CmdsJoin ==
  ASSUME NEW P \in SUBSET Nat, NEW X \in SUBSET Nat, Closed(P), Below(P, X)
  PROVE  /\ StringsOf(P \cup X, "cmd") = StringsOf(P, "cmd") \cup StringsOf(X, "cmd")
         /\ Cmds(P \cup X) = Cmds(P) \cup Cmds(X)
<1>0. "cmd" \in Openers
  BY DEF Openers
<1>1. PICK S, A, B, C : /\ S = P \cup X /\ A = StringsOf(P, "cmd") /\ B = StringsOf(X, "cmd")
                        /\ C = StringsOf(S, "cmd")
  OBVIOUS
<1>2. /\ \A o \in A : o \in C /\ Body(S, o) = Body(P, o)
      /\ \A o \in B : o \in C /\ Body(S, o) = Body(X, o)
      /\ C \subseteq A \cup B
  <2>0. PICK kind : kind = "cmd"
    OBVIOUS
  <2>1. /\ \A o \in StringsOf(P, kind) :
             o \in StringsOf(P \cup X, kind) /\ Body(P \cup X, o) = Body(P, o)
        /\ \A o \in StringsOf(X, kind) :
             o \in StringsOf(P \cup X, kind) /\ Body(P \cup X, o) = Body(X, o)
        /\ StringsOf(P \cup X, kind) \subseteq StringsOf(P, kind) \cup StringsOf(X, kind)
    <3>1. kind \in Openers
      BY <1>0, <2>0
    <3>2. \A o \in StringsOf(P, kind) :
            o \in StringsOf(P \cup X, kind) /\ Body(P \cup X, o) = Body(P, o)
      BY StringsStay
    <3>3. \A o \in StringsOf(X, kind) :
            o \in StringsOf(P \cup X, kind) /\ Body(P \cup X, o) = Body(X, o)
      BY <3>1, StringsFollow
    <3>4. StringsOf(P \cup X, kind) \subseteq StringsOf(P, kind) \cup StringsOf(X, kind)
      BY <3>1, StringsOfTwo
    <3> QED BY <3>2, <3>3, <3>4
  <2> QED BY <2>0, <2>1, <1>1
<1>3. C = A \cup B
  BY <1>2
<1>4. Cmds(S) = Cmds(P) \cup Cmds(X)
  <2>1. Cmds(S) = UNION {Body(S, o) : o \in C} /\ Cmds(P) = UNION {Body(P, o) : o \in A}
        /\ Cmds(X) = UNION {Body(X, o) : o \in B}
    BY <1>1 DEF Cmds
  <2>2. UNION {Body(S, o) : o \in C} = (UNION {Body(S, o) : o \in A}) \cup (UNION {Body(S, o) : o \in B})
    BY <1>3
  <2>3. /\ UNION {Body(S, o) : o \in A} = UNION {Body(P, o) : o \in A}
        /\ UNION {Body(S, o) : o \in B} = UNION {Body(X, o) : o \in B}
    BY <1>2
  <2> QED BY <2>1, <2>2, <2>3
<1> QED BY <1>1, <1>3, <1>4

(* What is reported of the tokens X that come next.                        *)
Passes(N, X, hid) ==
  /\ InOrder(N, "Output") /\ InOrder(N, "CommandRan")
  /\ Ids(N, "Output") \subseteq X
  /\ Ids(N, "CommandRan") = {o[1] : o \in StringsOf(X, "cmd")}
  /\ X \subseteq Ids(N, "Output") \cup hid \cup Cmds(X)

Comes(P, X, I, hid, more) ==
  Closed(P) /\ Below(P, X) /\ Below(P \cup X, I) /\ hid \subseteq more

LEMMA KeptGrows ==
  ASSUME NEW log \in Seq(Report), NEW new \in Seq(Report),
         NEW P \in SUBSET Nat, NEW X \in SUBSET Nat, NEW H, NEW I, NEW hid, NEW more,
         Kept(log, P, H, hid), Comes(P, X, I, hid, more), Passes(new, X, more)
  PROVE  Kept(log \o new, P \cup X, I, more) /\ Cmds(P \cup X) = Cmds(P) \cup Cmds(X)
<1> SUFFICES ASSUME Closed(P), Below(P, X), Below(P \cup X, I), hid \subseteq more,
                    InOrder(new, "Output"), InOrder(new, "CommandRan"),
                    Ids(new, "Output") \subseteq X,
                    Ids(new, "CommandRan") = {o[1] : o \in StringsOf(X, "cmd")},
                    X \subseteq Ids(new, "Output") \cup more \cup Cmds(X)
             PROVE  Kept(log \o new, P \cup X, I, more) /\ Cmds(P \cup X) = Cmds(P) \cup Cmds(X)
  BY DEF Comes, Passes
<1>1. PICK S, A, B, C : /\ S = P \cup X /\ A = StringsOf(P, "cmd") /\ B = StringsOf(X, "cmd")
                        /\ C = StringsOf(S, "cmd")
  OBVIOUS
<1>3. C = A \cup B
  BY <1>1, CmdsJoin
<1>4. Cmds(S) = Cmds(P) \cup Cmds(X)
  BY <1>1, CmdsJoin
<1>5. /\ InOrder(log, "Output") /\ InOrder(log, "CommandRan") /\ Ids(log, "Output") \subseteq P
      /\ Ids(log, "CommandRan") = {o[1] : o \in A}
      /\ P \subseteq Ids(log, "Output") \cup hid \cup Cmds(P)
  BY <1>1 DEF Kept
<1>6. Ids(log, "CommandRan") \subseteq P /\ Ids(new, "CommandRan") \subseteq X
  <2>1. \A o \in A : o[1] \in P
    BY <1>1, StringEnds
  <2>2. \A o \in B : o[1] \in X
    BY <1>1, StringEnds
  <2> QED BY <2>1, <2>2, <1>1, <1>5
<1>7. /\ Below(Ids(log, "Output"), Ids(new, "Output"))
      /\ Below(Ids(log, "CommandRan"), Ids(new, "CommandRan"))
  BY <1>5, <1>6 DEF Below
<1>8. PICK all : all = log \o new
  OBVIOUS
<1>9. /\ InOrder(all, "Output") /\ InOrder(all, "CommandRan")
      /\ Ids(all, "Output") = Ids(log, "Output") \cup Ids(new, "Output")
      /\ Ids(all, "CommandRan") = Ids(log, "CommandRan") \cup Ids(new, "CommandRan")
  BY <1>5, <1>7, <1>8, LogJoins
<1>10. Ids(all, "Output") \subseteq S
  BY <1>1, <1>5, <1>9
<1>11. Ids(all, "CommandRan") = {o[1] : o \in C}
  BY <1>1, <1>3, <1>5, <1>9
<1>12. S \subseteq Ids(all, "Output") \cup more \cup Cmds(S)
  BY <1>1, <1>4, <1>5, <1>9
<1>13. Below(S, I)
  BY <1>1
<1>14. Kept(all, S, I, more)
  BY <1>1, <1>9, <1>10, <1>11, <1>12, <1>13 DEF Kept
<1> QED BY <1>1, <1>4, <1>8, <1>14

(* What has stopped growing.                                               *)
LEMMA KeptSame ==
  ASSUME NEW log, NEW P, NEW H, NEW hid, NEW more, NEW I,
         Kept(log, P, H, hid), hid \subseteq more, Below(P, I)
  PROVE  Kept(log, P, I, more)
BY DEF Kept

(* A token that was hidden may be, whatever comes behind.                  *)
Later(all, raw, txt, all2, raw2, txt2) ==
  /\ all \subseteq all2 /\ raw \in SUBSET Nat /\ raw2 \in SUBSET Nat
  /\ raw2 \cap all = raw /\ raw \subseteq all /\ Below(all, raw2 \ raw)
  /\ txt2 \subseteq Nat /\ txt2 \cap all \subseteq txt /\ Below(all, txt2 \ all)

LEMMA HideStays ==
  ASSUME NEW all \in SUBSET Nat, NEW bl, NEW raw, NEW txt,
         NEW all2 \in SUBSET Nat, NEW bl2, NEW raw2, NEW txt2,
         NEW i \in all, MayHide(i, all, bl, raw, txt),
         Later(all, raw, txt, all2, raw2, txt2), i \in bl2 <=> i \in bl
  PROVE  MayHide(i, all2, bl2, raw2, txt2)
<1> SUFFICES ASSUME all \subseteq all2, raw \in SUBSET Nat, raw2 \in SUBSET Nat,
                    raw2 \cap all = raw, raw \subseteq all, Below(all, raw2 \ raw),
                    txt2 \subseteq Nat, txt2 \cap all \subseteq txt, Below(all, txt2 \ all)
             PROVE  MayHide(i, all2, bl2, raw2, txt2)
  BY DEF Later
<1>1. PICK h \in all :
    \/ /\ sent[h] \in Markers
       /\ ~\E k \in (IF i \in bl THEN raw ELSE txt) :
            sent[k] = "nl" /\ ((i <= k /\ k < h) \/ (h < k /\ k < i))
    \/ /\ i \in bl /\ sent[h] \in Hooks /\ h < i
       /\ \A o \in StringsOf({k \in raw : h <= k}, "cwd") : i <= o[2]
  BY DEF MayHide
<1>0. i \in Nat /\ h \in Nat /\ h \in all2
  OBVIOUS
<1>2. CASE /\ sent[h] \in Markers
           /\ ~\E k \in (IF i \in bl THEN raw ELSE txt) :
                sent[k] = "nl" /\ ((i <= k /\ k < h) \/ (h < k /\ k < i))
  <2>1. ASSUME NEW k \in (IF i \in bl2 THEN raw2 ELSE txt2), sent[k] = "nl",
               (i <= k /\ k < h) \/ (h < k /\ k < i)
        PROVE  FALSE
    <3>1. k \in Nat
      OBVIOUS
    <3>2. k \in all
      <4>1. ASSUME k \notin all PROVE FALSE
        <5>1. h < k /\ i < k
          BY <4>1, <1>0 DEF Below
        <5> QED BY <5>1, <2>1, <3>1, <1>0
      <4> QED BY <4>1
    <3>3. k \in (IF i \in bl THEN raw ELSE txt)
      BY <3>2
    <3> QED BY <3>3, <1>2, <2>1
  <2> QED BY <2>1, <1>2, <1>0 DEF MayHide
<1>3. CASE /\ i \in bl /\ sent[h] \in Hooks /\ h < i
           /\ \A o \in StringsOf({k \in raw : h <= k}, "cwd") : i <= o[2]
  <2>1. PICK A, B : A = {k \in raw : h <= k} /\ B = {k \in raw2 \ raw : h <= k}
    OBVIOUS
  <2>2. {k \in raw2 : h <= k} = A \cup B
    BY <2>1
  <2>3. A \in SUBSET Nat /\ B \in SUBSET Nat /\ Below(A, B)
    BY <2>1 DEF Below
  <2>4. ASSUME NEW o \in StringsOf(A \cup B, "cwd") PROVE i <= o[2]
    <3>1. o[1] \in A \cup B /\ o[2] \in A \cup B
      BY StringEnds
    <3>2. CASE o[2] \in B
      <4>1. i < o[2] /\ o[2] \in Nat
        BY <3>2, <2>1 DEF Below
      <4> QED BY <4>1, <1>0
    <3>3. CASE o[2] \in A
      <4>1. o[1] < o[2] /\ o[1] \in A
        <5>1. o[1] < o[2]
          BY DEF StringsOf
        <5>2. o[1] \in B => FALSE
          <6> SUFFICES ASSUME o[1] \in B PROVE FALSE
            OBVIOUS
          <6>1. o[2] < o[1] /\ o[1] \in Nat /\ o[2] \in Nat
            BY <3>3, <2>3 DEF Below
          <6> QED BY <6>1, <5>1
        <5> QED BY <5>1, <5>2, <3>1
      <4>2. o \in StringsOf(A, "cwd")
        <5>0. PICK p, q : p = o[1] /\ q = o[2]
          OBVIOUS
        <5>1. /\ sent[p] = "cwd" /\ sent[q] = "bel" /\ p < q /\ ~BelWithin(A \cup B, p, q - 1)
              /\ \A g \in A \cup B : g < p /\ sent[g] \in Openers => BelWithin(A \cup B, g, p)
          BY <5>0 DEF StringsOf
        <5>2. \A g : BelWithin(A \cup B, g, p) => BelWithin(A, g, p)
          <6>1. \A k \in B : p < k /\ k \in Nat /\ p \in Nat
            BY <4>1, <5>0, <2>3 DEF Below
          <6> QED BY <6>1 DEF BelWithin
        <5>3. ~BelWithin(A, p, q - 1)
          BY <5>1 DEF BelWithin
        <5>4. o = <<p, q>> /\ p \in A /\ q \in A
          BY <5>0, <4>1, <3>3, StringEnds
        <5> QED BY <5>0, <5>1, <5>2, <5>3, <5>4 DEF StringsOf
      <4> QED BY <4>2, <2>1, <1>3
    <3> QED BY <3>1, <3>2, <3>3
  <2> QED BY <2>2, <2>4, <1>0, <1>3 DEF MayHide
<1> QED BY <1>1, <1>2, <1>3

(***************************************************************************)
(* The way of what is read.                                                *)
(***************************************************************************)
(* No control string has begun and not ended in the first                  *)
(* complete_osc_prefix_len tokens, and none ends in the others.            *)
LEMMA PrefixFacts ==
  ASSUME NEW b \in Seq(Nat)
  PROVE  LET n == complete_osc_prefix_len(b)
         IN  /\ n \in 0..Len(b)
             /\ \A i \in 1..n : sent[b[i]] \in Openers =>
                  \E k \in 1..n : i < k /\ sent[b[k]] = "bel"
             /\ \A i \in (n + 1)..Len(b) : sent[b[i]] # "bel"
<1>1. Len(b) \in Nat /\ DOMAIN b = 1..Len(b)
  OBVIOUS
<1>2. PICK n : n = complete_osc_prefix_len(b)
  OBVIOUS
<1>3. PICK O : O = Open(b)
  OBVIOUS
<1>4. O \in SUBSET (1..Len(b))
  BY <1>1, <1>3 DEF Open, Where
<1>5. \A i \in DOMAIN b : sent[b[i]] \in Openers /\ i \notin O =>
        \E k \in i..Len(b) : sent[b[k]] = "bel"
  BY <1>3 DEF Open, Where, Some, Is
<1>6. CASE O = {}
  <2>1. n = Len(b)
    BY <1>2, <1>3, <1>6 DEF complete_osc_prefix_len
  <2>2. ASSUME NEW i \in 1..n, sent[b[i]] \in Openers
        PROVE  \E k \in 1..n : i < k /\ sent[b[k]] = "bel"
    <3>1. PICK k \in i..Len(b) : sent[b[k]] = "bel"
      BY <2>1, <2>2, <1>1, <1>5, <1>6
    <3>2. k # i
      BY <3>1, <2>2 DEF Openers
    <3>3. k \in 1..n /\ i < k
      BY <3>2, <2>1, <1>1
    <3> QED BY <3>1, <3>3
  <2>3. (n + 1)..Len(b) = {} /\ n \in 0..Len(b)
    BY <2>1, <1>1
  <2> QED BY <2>2, <2>3, <1>2
<1>7. CASE O # {}
  <2>1. PICK m : m = Min(O)
    OBVIOUS
  <2>2. m \in O /\ \A i \in O : m <= i
    BY <2>1, <1>1, <1>4, <1>7, MinIsFirst
  <2>3. n = m - 1
    BY <2>1, <1>2, <1>3, <1>7 DEF complete_osc_prefix_len
  <2>4. m \in 1..Len(b) /\ n \in 0..Len(b)
    BY <2>2, <2>3, <1>1, <1>4
  <2>5. \A k \in m..Len(b) : sent[b[k]] # "bel"
    BY <2>2, <1>3 DEF Open, Some, Is
  <2>6. ASSUME NEW i \in 1..n, sent[b[i]] \in Openers
        PROVE  \E k \in 1..n : i < k /\ sent[b[k]] = "bel"
    <3>0. i \in DOMAIN b /\ i \notin O
      BY <2>2, <2>3, <2>4, <1>1
    <3>1. PICK k \in i..Len(b) : sent[b[k]] = "bel"
      BY <3>0, <2>6, <1>5
    <3>2. k # i
      BY <3>1, <2>6 DEF Openers
    <3>3. ~(m <= k)
      <4>1. m <= k => k \in m..Len(b)
        BY <2>4, <1>1
      <4> QED BY <4>1, <2>5, <3>1
    <3>4. k \in 1..n /\ i < k
      BY <3>2, <3>3, <2>3, <2>4, <1>1
    <3> QED BY <3>1, <3>4
  <2>7. \A i \in (n + 1)..Len(b) : i \in m..Len(b)
    BY <2>3, <2>4
  <2> QED BY <2>4, <2>5, <2>6, <2>7, <1>2
<1> QED BY <1>6, <1>7

(* What is left once the commands are taken out of an increasing buffer,   *)
(* and the reports that are made of it.                                    *)
LEMMA WithoutFacts ==
  ASSUME NEW out \in Seq(Nat)
  PROVE  /\ Without(out, Commands(out)) \in Seq(Nat)
         /\ ToSet(Without(out, Commands(out))) \subseteq ToSet(out)
         /\ Rising(out) => /\ Rising(Without(out, Commands(out)))
                           /\ ToSet(Without(out, Commands(out))) = ToSet(out) \ Cmds(ToSet(out))
<1>0. "cmd" \in Openers
  BY DEF Openers
<1>1. PICK text, P : /\ text = Without(out, Commands(out))
                     /\ P = DOMAIN out \ UNION {o[1]..o[2] : o \in Commands(out)}
  OBVIOUS
<1>2. text = Part(out, P) /\ P \in SUBSET (1..Len(out)) /\ DOMAIN out = 1..Len(out)
  BY <1>1 DEF Without
<1>3. text \in Seq(Nat) /\ ToSet(text) = {out[i] : i \in P} /\ (Rising(out) => Rising(text))
  BY <1>2, PartRises
<1>4. ToSet(text) \subseteq ToSet(out)
  BY <1>2, <1>3 DEF ToSet
<1>5. ASSUME Rising(out) PROVE ToSet(text) = ToSet(out) \ Cmds(ToSet(out))
  <2>1. Commands(out) = StringsAt(out, "cmd")
    BY DEF Commands, StringsAt
  <2>2. {out[i] : i \in DOMAIN out \ UNION {o[1]..o[2] : o \in StringsAt(out, "cmd")}}
          = ToSet(out) \ UNION {Body(ToSet(out), o) : o \in StringsOf(ToSet(out), "cmd")}
    BY <1>0, <1>5, StringsAreAt
  <2> QED BY <2>1, <2>2, <1>1, <1>3 DEF Cmds
<1> QED BY <1>1, <1>3, <1>4, <1>5

(* A log without reports of a type, before another or behind it.           *)
Silent(log, type) == Ids(log, type) = {} /\ InOrder(log, type)

LEMMA SilentFirst ==
  ASSUME NEW a \in Seq(Report), NEW b \in Seq(Report), NEW type, Silent(a, type)
  PROVE  Ids(a \o b, type) = Ids(b, type) /\ (InOrder(b, type) => InOrder(a \o b, type))
<1>1. Ids(a, type) = {} /\ InOrder(a, type) /\ Below(Ids(a, type), Ids(b, type))
  BY DEF Silent, Below
<1>2. Ids(a \o b, type) = Ids(a, type) \cup Ids(b, type)
  BY LogJoins
<1>3. InOrder(b, type) => InOrder(a \o b, type)
  BY <1>1, LogJoins
<1> QED BY <1>1, <1>2, <1>3

LEMMA SilentLast ==
  ASSUME NEW a \in Seq(Report), NEW b \in Seq(Report), NEW type, Silent(b, type)
  PROVE  Ids(a \o b, type) = Ids(a, type) /\ (InOrder(a, type) => InOrder(a \o b, type))
<1>1. Ids(b, type) = {} /\ InOrder(b, type) /\ Below(Ids(a, type), Ids(b, type))
  BY DEF Silent, Below
<1>2. Ids(a \o b, type) = Ids(a, type) \cup Ids(b, type)
  BY LogJoins
<1>3. InOrder(a, type) => InOrder(a \o b, type)
  BY <1>1, LogJoins
<1> QED BY <1>1, <1>2, <1>3

LEMMA LogJoinThree ==
  ASSUME NEW a \in Seq(Report), NEW b \in Seq(Report), NEW c \in Seq(Report)
  PROVE  (a \o b) \o c = a \o (b \o c)
BY JoinThree

(* The reports of one pass of Scan: those before, the directories and the  *)
(* commands in out, and what is shown.                                     *)
Cwd(before) == \A r \in DOMAIN before : before[r].type = "CwdChanged"

Reports(log, before, out, shown) ==
  log \o before \o Tell("CwdChanged", out, Cwds(out))
      \o Tell("CommandRan", out, Commands(out)) \o Output(shown)

Says(N, out, shown) ==
  /\ Rising(shown) => InOrder(N, "Output") /\ Ids(N, "Output") = ToSet(shown)
  /\ Rising(out) => /\ InOrder(N, "CommandRan")
                    /\ Ids(N, "CommandRan") = {o[1] : o \in StringsOf(ToSet(out), "cmd")}

LEMMA ReportFacts ==
  ASSUME NEW out \in Seq(Nat), NEW shown \in Seq(Nat), NEW before \in Seq(Report),
         Cwd(before), NEW log \in Seq(Report)
  PROVE  \E N \in Seq(Report) : Reports(log, before, out, shown) = log \o N /\ Says(N, out, shown)
<1>0. "cmd" \in Openers
  BY DEF Openers
<1>1. Cwds(out) \in SUBSET Oscs(out) /\ Commands(out) \in SUBSET Oscs(out)
  BY DEF Cwds, Commands
<1>2. PICK T, C, O : /\ T = Tell("CwdChanged", out, Cwds(out))
                     /\ C = Tell("CommandRan", out, Commands(out)) /\ O = Output(shown)
  OBVIOUS
<1>3. T \in Seq(Report) /\ \A r \in DOMAIN T : T[r].type = "CwdChanged"
  BY <1>1, <1>2, TellFacts
<1>4. /\ C \in Seq(Report) /\ \A r \in DOMAIN C : C[r].type = "CommandRan"
      /\ Ids(C, "CommandRan") = {out[o[1]] : o \in Commands(out)}
      /\ Rising(out) => InOrder(C, "CommandRan")
  <2>1. PICK K : K = Commands(out)
    OBVIOUS
  <2>2. /\ Tell("CommandRan", out, K) \in Seq(Report)
        /\ \A r \in DOMAIN Tell("CommandRan", out, K) : Tell("CommandRan", out, K)[r].type = "CommandRan"
    BY <2>1, <1>1, TellFacts
  <2>3. /\ Ids(Tell("CommandRan", out, K), "CommandRan") = {out[o[1]] : o \in K}
        /\ Rising(out) => InOrder(Tell("CommandRan", out, K), "CommandRan")
    BY <2>1, <1>1, TellFacts
  <2> QED BY <2>1, <2>2, <2>3, <1>2
<1>5. /\ O \in Seq(Report) /\ \A r \in DOMAIN O : O[r].type = "Output"
      /\ Ids(O, "Output") = ToSet(shown) /\ (Rising(shown) => InOrder(O, "Output"))
  BY <1>2, OutputFacts
<1>6. Silent(before, "Output") /\ Silent(before, "CommandRan")
  BY NoneOfType DEF Silent, Cwd
<1>7. Silent(T, "Output") /\ Silent(T, "CommandRan") /\ Silent(C, "Output") /\ Silent(O, "CommandRan")
  BY <1>3, <1>4, <1>5, NoneOfType DEF Silent
<1>8. PICK A, B, N : A = before \o T /\ B = A \o C /\ N = B \o O
  OBVIOUS
<1>9. A \in Seq(Report) /\ Silent(A, "Output") /\ Silent(A, "CommandRan")
  <2>1. A \in Seq(Report)
    BY <1>3, <1>8
  <2>2. Ids(A, "Output") = {} /\ InOrder(A, "Output")
    BY <1>3, <1>6, <1>7, <1>8, SilentFirst DEF Silent
  <2>3. Ids(A, "CommandRan") = {} /\ InOrder(A, "CommandRan")
    BY <1>3, <1>6, <1>7, <1>8, SilentFirst DEF Silent
  <2> QED BY <2>1, <2>2, <2>3 DEF Silent
<1>10. /\ B \in Seq(Report) /\ Silent(B, "Output")
       /\ Ids(B, "CommandRan") = Ids(C, "CommandRan")
       /\ InOrder(C, "CommandRan") => InOrder(B, "CommandRan")
  <2>1. B \in Seq(Report)
    BY <1>4, <1>8, <1>9
  <2>2. Ids(B, "Output") = {} /\ InOrder(B, "Output")
    BY <1>4, <1>7, <1>8, <1>9, SilentFirst DEF Silent
  <2>3. /\ Ids(B, "CommandRan") = Ids(C, "CommandRan")
        /\ InOrder(C, "CommandRan") => InOrder(B, "CommandRan")
    BY <1>4, <1>8, <1>9, SilentFirst
  <2> QED BY <2>1, <2>2, <2>3 DEF Silent
<1>15. /\ N \in Seq(Report)
       /\ Ids(N, "Output") = ToSet(shown) /\ (Rising(shown) => InOrder(N, "Output"))
       /\ Ids(N, "CommandRan") = Ids(C, "CommandRan")
       /\ Rising(out) => InOrder(N, "CommandRan")
  <2>1. N \in Seq(Report)
    BY <1>5, <1>8, <1>10
  <2>2. Ids(N, "Output") = Ids(O, "Output") /\ (InOrder(O, "Output") => InOrder(N, "Output"))
    BY <1>5, <1>8, <1>10, SilentFirst
  <2>3. /\ Ids(N, "CommandRan") = Ids(B, "CommandRan")
        /\ InOrder(B, "CommandRan") => InOrder(N, "CommandRan")
    BY <1>5, <1>7, <1>8, <1>10, SilentLast
  <2> QED BY <2>1, <2>2, <2>3, <1>4, <1>5, <1>10
<1>16. Reports(log, before, out, shown) = log \o N
  <2>1. (log \o before) \o T = log \o A
    BY <1>3, <1>8, LogJoinThree
  <2>2. (log \o A) \o C = log \o B
    BY <1>4, <1>9, <1>8, LogJoinThree
  <2>3. (log \o B) \o O = log \o N
    BY <1>5, <1>10, <1>8, LogJoinThree
  <2> QED BY <2>1, <2>2, <2>3, <1>2 DEF Reports
<1>17. ASSUME Rising(out)
       PROVE  Ids(N, "CommandRan") = {o[1] : o \in StringsOf(ToSet(out), "cmd")}
  <2>1. Commands(out) = StringsAt(out, "cmd")
    BY DEF Commands, StringsAt
  <2>2. {out[o[1]] : o \in StringsAt(out, "cmd")} = {o[1] : o \in StringsOf(ToSet(out), "cmd")}
    BY <1>0, <1>17, StringsAreAt
  <2> QED BY <2>1, <2>2, <1>4, <1>15
<1> QED BY <1>15, <1>16, <1>17 DEF Says

ScanGives(bytes, hidden, out, text, N) ==
  /\ oscPending' \in Seq(Nat) /\ events' = events \o N
  /\ ToSet(out) \cup ToSet(oscPending') = ToSet(oscPending) \cup ToSet(bytes)
  /\ ToSet(text) \subseteq ToSet(out)
  /\ cut' = cut \cup hidden \cup (ToSet(text) \ ToSet(strip_prompt_setup_echo(text)))
  /\ blind' = blind \cup hidden
  /\ astray' \in BOOLEAN /\ (astray => astray')
  /\ Rising(oscPending \o bytes) /\ ~astray' =>
       /\ Rising(text) /\ Rising(out) /\ Rising(oscPending')
       /\ Below(ToSet(out), ToSet(oscPending')) /\ Closed(ToSet(out))
       /\ \A i \in ToSet(oscPending') : sent[i] # "bel"
       /\ ToSet(text) = ToSet(out) \ Cmds(ToSet(out))
       /\ InOrder(N, "Output") /\ InOrder(N, "CommandRan")
       /\ Ids(N, "Output") = ToSet(strip_prompt_setup_echo(text))
       /\ Ids(N, "CommandRan") = {o[1] : o \in StringsOf(ToSet(out), "cmd")}

LEMMA ScanFacts ==
  ASSUME oscPending \in Seq(Nat), events \in Seq(Report), astray \in BOOLEAN,
         NEW bytes \in Seq(Nat), NEW before \in Seq(Report), NEW hidden,
         Cwd(before), Scan(bytes, before, hidden)
  PROVE  \E out \in Seq(Nat), text \in Seq(Nat), N \in Seq(Report) :
           ScanGives(bytes, hidden, out, text, N)
<1>1. PICK all : all = oscPending \o bytes
  OBVIOUS
<1>2. PICK over : over = (complete_osc_prefix_len(all) = 0 /\ Len(all) >= OscCap)
  OBVIOUS
<1>3. PICK n : n = IF over THEN Len(all) ELSE complete_osc_prefix_len(all)
  OBVIOUS
<1>4. PICK out, text, shown : /\ out = SubSeq(all, 1, n) /\ text = Without(out, Commands(out))
                              /\ shown = strip_prompt_setup_echo(text)
  OBVIOUS
<1>5. /\ oscPending' = SubSeq(all, n + 1, Len(all))
      /\ events' = events \o before \o Tell("CwdChanged", out, Cwds(out))
                          \o Tell("CommandRan", out, Commands(out)) \o Output(shown)
      /\ cut' = cut \cup hidden \cup (ToSet(text) \ ToSet(shown))
      /\ blind' = blind \cup hidden
      /\ astray' = (astray \/ over)
  BY <1>1, <1>2, <1>3, <1>4 DEF Scan
<1>6. all \in Seq(Nat) /\ Len(all) \in Nat /\ DOMAIN all = 1..Len(all)
  BY <1>1
<1>7. n \in 0..Len(all)
  BY <1>3, <1>6, PrefixFacts
<1>8. /\ out \in Seq(Nat) /\ ToSet(out) = {all[i] : i \in 1..n}
      /\ Rising(all) => Rising(out)
  <2>1. 1 \in Nat \ {0} /\ n \in Nat /\ n <= Len(all) /\ 1 <= n + 1
    BY <1>6, <1>7
  <2> QED BY <2>1, <1>4, <1>6, SubRises
<1>9. /\ oscPending' \in Seq(Nat) /\ ToSet(oscPending') = {all[i] : i \in (n + 1)..Len(all)}
      /\ Rising(all) => Rising(oscPending')
  <2>1. n + 1 \in Nat \ {0} /\ Len(all) <= Len(all) /\ n + 1 <= Len(all) + 1
    BY <1>6, <1>7
  <2> QED BY <2>1, <1>5, <1>6, SubRises
<1>10. ToSet(out) \cup ToSet(oscPending') = ToSet(oscPending) \cup ToSet(bytes)
  <2>1. 1..n \cup (n + 1)..Len(all) = DOMAIN all
    BY <1>6, <1>7
  <2>2. ToSet(out) \cup ToSet(oscPending') = ToSet(all)
    BY <2>1, <1>8, <1>9 DEF ToSet
  <2> QED BY <2>2, <1>1, JoinSet
<1>11. /\ text \in Seq(Nat) /\ ToSet(text) \subseteq ToSet(out)
       /\ Rising(out) => Rising(text) /\ ToSet(text) = ToSet(out) \ Cmds(ToSet(out))
  BY <1>4, <1>8, WithoutFacts
<1>12. shown \in Seq(Nat) /\ (Rising(text) => Rising(shown))
  BY <1>4, <1>11, StripKeeps
<1>13. PICK N \in Seq(Report) :
         /\ events' = events \o N
         /\ Rising(shown) => InOrder(N, "Output") /\ Ids(N, "Output") = ToSet(shown)
         /\ Rising(out) => /\ InOrder(N, "CommandRan")
                           /\ Ids(N, "CommandRan") = {o[1] : o \in StringsOf(ToSet(out), "cmd")}
  <2>1. PICK log : log = events
    OBVIOUS
  <2>2. log \in Seq(Report) /\ out \in Seq(Nat) /\ shown \in Seq(Nat)
    BY <2>1, <1>8, <1>12
  <2>3. PICK N \in Seq(Report) : Reports(log, before, out, shown) = log \o N /\ Says(N, out, shown)
    BY <2>2, ReportFacts
  <2>4. events' = Reports(log, before, out, shown)
    BY <2>1, <1>5 DEF Reports
  <2> QED BY <2>1, <2>3, <2>4 DEF Says
<1>14. ASSUME Rising(all), ~astray'
       PROVE  /\ Below(ToSet(out), ToSet(oscPending')) /\ Closed(ToSet(out))
              /\ \A i \in ToSet(oscPending') : sent[i] # "bel"
  <2>1. n = complete_osc_prefix_len(all)
    BY <1>3, <1>5, <1>14
  <2>2. /\ \A i \in 1..n : sent[all[i]] \in Openers =>
             \E k \in 1..n : i < k /\ sent[all[k]] = "bel"
        /\ \A i \in (n + 1)..Len(all) : sent[all[i]] # "bel"
    BY <2>1, <1>6, PrefixFacts
  <2>3. \A i \in DOMAIN all : \A j \in DOMAIN all : i < j => all[i] < all[j]
    BY <1>14 DEF Rising
  <2>4. \A i \in 1..n : i \in DOMAIN all
    BY <1>6, <1>7
  <2>5. \A i \in 1..n : \A j \in (n + 1)..Len(all) : j \in DOMAIN all /\ i < j
    BY <1>6, <1>7
  <2>6. Below(ToSet(out), ToSet(oscPending'))
    BY <2>3, <2>4, <2>5, <1>8, <1>9 DEF Below
  <2>7. Closed(ToSet(out))
    <3> SUFFICES ASSUME NEW h \in ToSet(out), sent[h] \in Openers
                 PROVE  \E k \in ToSet(out) : h < k /\ sent[k] = "bel"
      BY DEF Closed
    <3>1. PICK i \in 1..n : h = all[i]
      BY <1>8
    <3>2. PICK k \in 1..n : i < k /\ sent[all[k]] = "bel"
      BY <3>1, <2>2
    <3> QED BY <3>1, <3>2, <2>3, <2>4, <1>8
  <2> QED BY <2>2, <2>6, <2>7, <1>9
<1>15. astray' \in BOOLEAN /\ (astray => astray')
  BY <1>2, <1>5
<1>16. /\ cut' = cut \cup hidden \cup (ToSet(text) \ ToSet(strip_prompt_setup_echo(text)))
       /\ blind' = blind \cup hidden
  BY <1>4, <1>5
<1>17. Rising(all) /\ ~astray' =>
                /\ Rising(text) /\ Rising(out) /\ Rising(oscPending')
                /\ Below(ToSet(out), ToSet(oscPending')) /\ Closed(ToSet(out))
                /\ \A i \in ToSet(oscPending') : sent[i] # "bel"
                /\ ToSet(text) = ToSet(out) \ Cmds(ToSet(out))
                /\ InOrder(N, "Output") /\ InOrder(N, "CommandRan")
                /\ Ids(N, "Output") = ToSet(strip_prompt_setup_echo(text))
                /\ Ids(N, "CommandRan") = {o[1] : o \in StringsOf(ToSet(out), "cmd")}
  BY <1>4, <1>8, <1>9, <1>11, <1>12, <1>13, <1>14
<1>18. Rising(all) <=> Rising(oscPending \o bytes)
  BY <1>1
<1> HIDE <1>4, <1>1
<1>19. ScanGives(bytes, hidden, out, text, N)
  BY <1>9, <1>10, <1>11, <1>13, <1>15, <1>16, <1>17, <1>18 DEF ScanGives
<1> QED BY <1>8, <1>11, <1>13, <1>19

(* Tokens that were read do not change.                                    *)
LEMMA SentSame ==
  ASSUME NEW D, \A i \in D : sent'[i] = sent[i]
  PROVE  /\ \A P \in SUBSET D : Closed(P) => Closed(P)'
         /\ \A P \in SUBSET D : \A kind : StringsOf(P, kind)' = StringsOf(P, kind)
         /\ \A P \in SUBSET D : Cmds(P)' = Cmds(P)
<1>1. \A P \in SUBSET D : Closed(P) => Closed(P)'
  BY DEF Closed, Openers
<1>2. ASSUME NEW P \in SUBSET D, NEW kind PROVE StringsOf(P, kind)' = StringsOf(P, kind)
  <2>1. \A p, q : BelWithin(P, p, q)' <=> BelWithin(P, p, q)
    BY DEF BelWithin
  <2>2. \A i \in P : sent'[i] = sent[i]
    OBVIOUS
  <2> QED BY <2>1, <2>2 DEF StringsOf, Openers
<1>3. ASSUME NEW P \in SUBSET D PROVE Cmds(P)' = Cmds(P)
  BY <1>2 DEF Cmds, Body
<1> QED BY <1>1, <1>2, <1>3

LEMMA KeptThen ==
  ASSUME NEW D, \A i \in D : sent'[i] = sent[i], NEW P \in SUBSET D, NEW log, NEW H, NEW hid,
         Kept(log, P, H, hid)
  PROVE  Kept(log, P, H, hid)'
<1>1. StringsOf(P, "cmd")' = StringsOf(P, "cmd") /\ Cmds(P)' = Cmds(P)
  BY SentSame
<1>2. Ids(log, "CommandRan") = {o[1] : o \in StringsOf(P, "cmd")'}
  BY <1>1 DEF Kept
<1>3. P \subseteq Ids(log, "Output") \cup hid \cup Cmds(P)'
  BY <1>1 DEF Kept
<1>4. /\ InOrder(log, "Output") /\ InOrder(log, "CommandRan")
      /\ Ids(log, "Output") \subseteq P /\ Below(P, H)
  BY DEF Kept
<1>5. /\ Ids(log, "Output")' = Ids(log, "Output") /\ Ids(log, "CommandRan")' = Ids(log, "CommandRan")
      /\ InOrder(log, "Output")' = InOrder(log, "Output")
      /\ InOrder(log, "CommandRan")' = InOrder(log, "CommandRan")
      /\ Below(P, H)' = Below(P, H)
  BY DEF Ids, InOrder, Of, Rising, Below
<1> QED BY <1>2, <1>3, <1>4, <1>5 DEF Kept

LEMMA MayHideThen ==
  ASSUME NEW D, \A i \in D : sent'[i] = sent[i],
         NEW all \in SUBSET D, NEW raw \in SUBSET D, NEW txt \in SUBSET D, NEW bl, NEW i,
         MayHide(i, all, bl, raw, txt)
  PROVE  MayHide(i, all, bl, raw, txt)'
<1>1. \A h : StringsOf({k \in raw : h <= k}, "cwd")' = StringsOf({k \in raw : h <= k}, "cwd")
  <2> SUFFICES ASSUME NEW h
               PROVE  StringsOf({k \in raw : h <= k}, "cwd")' = StringsOf({k \in raw : h <= k}, "cwd")
    OBVIOUS
  <2>1. PICK A : A = {k \in raw : h <= k}
    OBVIOUS
  <2>2. A \in SUBSET D
    BY <2>1
  <2>3. StringsOf(A, "cwd")' = StringsOf(A, "cwd")
    BY <2>2, SentSame
  <2> QED BY <2>1, <2>3
<1>2. PICK h \in all :
    \/ /\ sent[h] \in Markers
       /\ ~\E k \in (IF i \in bl THEN raw ELSE txt) :
            sent[k] = "nl" /\ ((i <= k /\ k < h) \/ (h < k /\ k < i))
    \/ /\ i \in bl /\ sent[h] \in Hooks /\ h < i
       /\ \A o \in StringsOf({k \in raw : h <= k}, "cwd") : i <= o[2]
  BY DEF MayHide
<1>3. sent'[h] = sent[h] /\ \A k \in (IF i \in bl THEN raw ELSE txt) : sent'[k] = sent[k]
  <2>1. raw \subseteq D /\ txt \subseteq D /\ h \in D
    OBVIOUS
  <2> QED BY <2>1
<1>4. CASE /\ sent[h] \in Markers
           /\ ~\E k \in (IF i \in bl THEN raw ELSE txt) :
                sent[k] = "nl" /\ ((i <= k /\ k < h) \/ (h < k /\ k < i))
  <2>1. /\ sent'[h] \in Markers
        /\ ~\E k \in (IF i \in bl THEN raw ELSE txt) :
             sent'[k] = "nl" /\ ((i <= k /\ k < h) \/ (h < k /\ k < i))
    BY <1>3, <1>4
  <2> QED BY <2>1 DEF MayHide
<1>5. CASE /\ i \in bl /\ sent[h] \in Hooks /\ h < i
           /\ \A o \in StringsOf({k \in raw : h <= k}, "cwd") : i <= o[2]
  <2>1. StringsOf({k \in raw : h <= k}, "cwd")' = StringsOf({k \in raw : h <= k}, "cwd")
    BY <1>1
  <2>2. \A o \in StringsOf({k \in raw : h <= k}, "cwd")' : i <= o[2]
    BY <1>5, <2>1
  <2>3. sent'[h] \in Hooks
    BY <1>3, <1>5
  <2> QED BY <2>2, <2>3, <1>5 DEF MayHide
<1> QED BY <1>2, <1>4, <1>5

(* What strip_prompt_setup_echo hides is on the line of a mark.            *)
LEMMA StripHides ==
  ASSUME NEW b \in Seq(Nat), Rising(b),
         NEW i \in ToSet(b), i \notin ToSet(strip_prompt_setup_echo(b)),
         NEW all, ToSet(b) \subseteq all, NEW bl,
         NEW raw \in SUBSET Nat, NEW txt \in SUBSET Nat,
         \A k \in (IF i \in bl THEN raw ELSE txt) : \A x, y \in ToSet(b) :
            x <= k /\ k <= y => k \in ToSet(b)
  PROVE  MayHide(i, all, bl, raw, txt)
<1>1. PICK c : c = strip_prompt_setup_echo(b)
  OBVIOUS
<1>2. c # b /\ i \notin ToSet(c)
  BY <1>1
<1>a. PICK h \in Marks(b) : \E q \in h..Len(b) :
        /\ ToSet(c) = {b[j] : j \in DOMAIN b \ (LineStart(b, h)..q)}
        /\ \A j \in h..(q - 1) : ~Is(b, j, {"nl"})
  BY <1>1, <1>2, StripFacts
<1>3. PICK q \in h..Len(b) :
        /\ ToSet(c) = {b[j] : j \in DOMAIN b \ (LineStart(b, h)..q)}
        /\ \A j \in h..(q - 1) : ~Is(b, j, {"nl"})
  BY <1>a
<1>4. DOMAIN b = 1..Len(b) /\ Len(b) \in Nat /\ \A j \in DOMAIN b : b[j] \in Nat
  OBVIOUS
<1>5. h \in 1..Len(b) /\ sent[b[h]] \in Markers
  BY <1>4 DEF Marks, Where, Is
<1>6. \A j \in LineStart(b, h)..(h - 1) : ~Is(b, j, {"nl"})
  BY <1>5, LineStarts
<1>7. LineStart(b, h) \in 1..h
  BY <1>5, LineStarts
<1>8. PICK p \in DOMAIN b : i = b[p]
  BY DEF ToSet
<1>9. p \in LineStart(b, h)..q
  BY <1>2, <1>3, <1>8
<1>10. ASSUME NEW k \in (IF i \in bl THEN raw ELSE txt), sent[k] = "nl",
              (i <= k /\ k < b[h]) \/ (b[h] < k /\ k < i)
       PROVE  FALSE
  <2>1. b[h] \in ToSet(b) /\ b[h] \in Nat /\ i \in Nat
    BY <1>4, <1>5, <1>8 DEF ToSet
  <2>2. k \in ToSet(b)
    <3>0. k \in Nat
      OBVIOUS
    <3>1. CASE i <= k /\ k < b[h]
      <4>1. k <= b[h]
        BY <3>0, <3>1, <2>1
      <4> QED BY <4>1, <3>1, <2>1
    <3>2. CASE b[h] < k /\ k < i
      <4>1. b[h] <= k /\ k <= i
        BY <3>0, <3>2, <2>1
      <4> QED BY <4>1, <2>1
    <3> QED BY <3>1, <3>2, <1>10
  <2>3. PICK r \in DOMAIN b : k = b[r]
    BY <2>2 DEF ToSet
  <2>4. (p <= r /\ r < h) \/ (h < r /\ r < p)
    <3>1. /\ b[p] <= b[r] <=> p <= r
          /\ b[r] < b[h] <=> r < h
          /\ b[h] < b[r] <=> h < r
          /\ b[r] < b[p] <=> r < p
      BY <1>4, <1>5, PlacesAgree
    <3> QED BY <3>1, <2>3, <1>8, <1>10
  <2>5. Is(b, r, {"nl"})
    BY <2>3, <1>10 DEF Is
  <2>6. r \in LineStart(b, h)..(h - 1) \/ r \in h..(q - 1)
    <3>0. PICK s : s = LineStart(b, h)
      OBVIOUS
    <3>1. r \in Nat /\ h \in Nat /\ q \in Nat /\ s \in Nat /\ p \in Nat /\ s <= p /\ p <= q
      <4>1. h \in Nat /\ q \in Nat /\ r \in Nat
        BY <2>3, <1>4, <1>5
      <4>2. s \in Nat
        BY <3>0, <1>7
      <4> QED BY <4>1, <4>2, <3>0, <1>9
    <3>2. r \in s..(h - 1) \/ r \in h..(q - 1)
      <4> HIDE <3>0
      <4>1. CASE p <= r /\ r < h
        BY SMTT(30), <3>1, <4>1
      <4>2. CASE h < r /\ r < p
        BY <3>1, <4>2
      <4> QED BY <4>1, <4>2, <2>4
    <3> QED BY <3>0, <3>2
  <2> QED BY <2>5, <2>6, <1>3, <1>6
<1>11. b[h] \in all
  BY <1>4, <1>5 DEF ToSet
<1> QED BY <1>5, <1>10, <1>11 DEF MayHide

LEMMA HideUnsearched ==
  ASSUME NEW all, NEW bl, NEW raw, NEW txt, NEW txt2, NEW i \in bl, MayHide(i, all, bl, raw, txt)
  PROVE  MayHide(i, all, bl, raw, txt2)
BY DEF MayHide

(* What is read of the wire.                                               *)
LEMMA DataFacts ==
  ASSUME StreamTypeOK, NEW n \in 1..Len(Wire)
  PROVE  /\ Data(n) \in Seq(Nat) /\ Rising(Data(n)) /\ ToSet(Data(n)) = (read + 1)..(read + n)
         /\ read \in Nat /\ n \in Nat /\ read + n <= Len(sent) /\ Len(sent) \in Nat
         /\ Wire \in Seq(Nat) /\ \A i \in 1..Len(Wire) : Wire[i] = read + i
         /\ Len(Wire) = Len(sent) - read /\ Rising(Wire)
<1>1. Len(sent) \in Nat /\ read \in 0..Len(sent)
  BY DEF StreamTypeOK
<1>2. PICK w, m : w = Wire /\ m = Len(sent) - read
  OBVIOUS
<1>3. m \in Nat /\ w = [i \in 1..m |-> read + i]
  BY <1>1, <1>2 DEF Wire
<1>4. w \in [1..m -> Nat]
  BY <1>1, <1>3
<1>5. w \in Seq(Nat) /\ Len(w) = m
  BY <1>3, <1>4, MapFacts
<1>6. n \in 1..m
  BY <1>2, <1>5
<1>7. 1 \in Nat \ {0} /\ n \in Nat /\ n <= Len(w) /\ 1 <= n + 1
  BY <1>5, <1>6
<1>8. Rising(w)
  BY <1>1, <1>3 DEF Rising
<1>9. /\ SubSeq(w, 1, n) \in Seq(Nat) /\ Rising(SubSeq(w, 1, n))
      /\ ToSet(SubSeq(w, 1, n)) = {w[i] : i \in 1..n}
  BY <1>5, <1>7, <1>8, SubRises
<1>10. {w[i] : i \in 1..n} = (read + 1)..(read + n)
  <2>1. \A i \in 1..n : w[i] = read + i /\ w[i] \in (read + 1)..(read + n)
    BY <1>1, <1>3, <1>6
  <2>2. \A x \in (read + 1)..(read + n) : x - read \in 1..n /\ w[x - read] = x
    BY <1>1, <1>3, <1>6
  <2> QED BY <2>1, <2>2
<1>11. \A i \in 1..Len(w) : w[i] = read + i
  BY <1>3, <1>5
<1>12. read + n <= Len(sent)
  BY <1>1, <1>2, <1>6
<1>13. Data(n) = SubSeq(w, 1, n)
  BY <1>2 DEF Data
<1>14. Data(n) \in Seq(Nat) /\ Rising(Data(n)) /\ ToSet(Data(n)) = (read + 1)..(read + n)
  BY <1>9, <1>10, <1>13
<1>15. /\ Wire \in Seq(Nat) /\ \A i \in 1..Len(Wire) : Wire[i] = read + i
       /\ Len(Wire) = Len(sent) - read /\ Rising(Wire)
  BY <1>2, <1>5, <1>8, <1>11
<1> QED BY <1>1, <1>6, <1>12, <1>14, <1>15, <1>2, <1>5

(***************************************************************************)
(* What the invariant says.                                                *)
(***************************************************************************)
LEMMA StringsPassed ==
  ASSUME NEW P \in SUBSET Nat, NEW H \in SUBSET Nat, Below(P, H), NEW kind,
         NEW o \in StringsOf(P \cup H, kind), o[2] \in P
  PROVE  o \in StringsOf(P, kind)
<1>1. PICK S : S = P \cup H
  OBVIOUS
<1>2. PICK p, q : p = o[1] /\ q = o[2]
  OBVIOUS
<1>3. p \in S /\ q \in P /\ o = <<p, q>>
  BY <1>1, <1>2, StringEnds
<1>4. /\ sent[p] = kind /\ sent[q] = "bel" /\ p < q /\ ~BelWithin(S, p, q - 1)
      /\ \A h \in S : h < p /\ sent[h] \in Openers => BelWithin(S, h, p)
  BY <1>1, <1>2 DEF StringsOf
<1>5. \A k \in H : k \in Nat /\ q < k /\ q \in Nat
  BY <1>3 DEF Below
<1>6. p \in P
  BY <1>1, <1>3, <1>4, <1>5
<1>7. \A h : BelWithin(S, h, p) => BelWithin(P, h, p)
  <2>1. \A k \in H : p < k /\ p \in Nat /\ k \in Nat
    BY <1>6 DEF Below
  <2> QED BY <2>1, <1>1 DEF BelWithin
<1>8. ~BelWithin(P, p, q - 1)
  BY <1>1, <1>4 DEF BelWithin
<1>9. \A h \in P : h < p /\ sent[h] \in Openers => BelWithin(P, h, p)
  BY <1>1, <1>4, <1>7
<1> QED BY <1>2, <1>3, <1>4, <1>6, <1>8, <1>9 DEF StringsOf

LEMMA StringsByFirst ==
  ASSUME NEW S \in SUBSET Nat, NEW kind, NEW o \in StringsOf(S, kind), NEW c \in StringsOf(S, kind),
         o[1] = c[1]
  PROVE  o = c
<1>1. PICK p, q, r : p = o[1] /\ q = o[2] /\ r = c[2]
  OBVIOUS
<1>2. p \in S /\ q \in S /\ r \in S /\ o = <<p, q>> /\ c = <<p, r>>
  BY <1>1, StringEnds
<1>3. /\ sent[q] = "bel" /\ p < q /\ ~BelWithin(S, p, q - 1)
      /\ sent[r] = "bel" /\ p < r /\ ~BelWithin(S, p, r - 1)
  BY <1>1 DEF StringsOf
<1>4. p \in Nat /\ q \in Nat /\ r \in Nat
  BY <1>2
<1>5. ~(q <= r - 1) /\ ~(r <= q - 1)
  BY <1>2, <1>3, <1>4 DEF BelWithin
<1> QED BY <1>2, <1>4, <1>5

LEMMA PassedAndHeld ==
  ASSUME StreamTypeOK, Held \subseteq Searched
  PROVE  /\ Searched = Passed \cup Held /\ Passed \cap Held = {}
         /\ Passed \in SUBSET Nat /\ Held \in SUBSET Nat /\ Searched \subseteq 1..read
<1>1. 1..read \in SUBSET Nat /\ Searched \subseteq 1..read
  BY DEF StreamTypeOK, Searched
<1>2. Searched \in SUBSET Nat
  BY <1>1
<1>3. Searched = Passed \cup Held /\ Passed \cap Held = {} /\ Passed \subseteq Searched
  BY DEF Passed
<1> QED BY <1>1, <1>2, <1>3

LEMMA TakenOutIs ==
  ASSUME StreamTypeOK, Held \subseteq Searched, NEW hid, Kept(Told, Passed, Held, hid)
  PROVE  /\ TakenOut = Cmds(Passed)
         /\ Ids(Told, "CommandRan") =
              {o[1] : o \in {c \in StringsOf(Searched, "cmd") : Body(Searched, c) \cap Held = {}}}
<1>0. PICK P, H, S, kind : P = Passed /\ H = Held /\ S = Searched /\ kind = "cmd"
  OBVIOUS
<1>1. S = P \cup H /\ P \cap H = {} /\ P \in SUBSET Nat /\ H \in SUBSET Nat /\ S \in SUBSET Nat
  BY <1>0, PassedAndHeld
<1>2. Below(P, H) /\ Ids(Told, "CommandRan") = {o[1] : o \in StringsOf(P, kind)}
  BY <1>0 DEF Kept
<1>3. \A o \in StringsOf(P, kind) : o \in StringsOf(S, kind) /\ Body(S, o) = Body(P, o)
  BY <1>1, <1>2, StringsStay
<1>4. \A o \in StringsOf(S, kind) : o[2] \in P => o \in StringsOf(P, kind)
  BY <1>1, <1>2, StringsPassed
<1>5. {o \in StringsOf(S, kind) : o[1] \in Ids(Told, "CommandRan")} = StringsOf(P, kind)
  <2>1. ASSUME NEW o \in StringsOf(S, kind), o[1] \in Ids(Told, "CommandRan")
        PROVE  o \in StringsOf(P, kind)
    <3>1. PICK c \in StringsOf(P, kind) : o[1] = c[1]
      BY <2>1, <1>2
    <3>2. o = c
      BY <3>1, <1>1, <1>3, StringsByFirst
    <3> QED BY <3>1, <3>2
  <2> QED BY <2>1, <1>2, <1>3
<1>6. Ran = StringsOf(P, kind)
  BY <1>0, <1>5 DEF Ran
<1>7. TakenOut = Cmds(P)
  <2>1. UNION {Body(S, o) : o \in Ran} = UNION {Body(P, o) : o \in StringsOf(P, kind)}
    BY <1>3, <1>6
  <2> QED BY <2>1, <1>0 DEF TakenOut, Cmds
<1>8. {c \in StringsOf(S, kind) : Body(S, c) \cap H = {}} = StringsOf(P, kind)
  <2>1. ASSUME NEW c \in StringsOf(S, kind), Body(S, c) \cap H = {}
        PROVE  c \in StringsOf(P, kind)
    <3>1. c[1] \in S /\ c[2] \in S /\ c[1] < c[2]
      BY StringEnds DEF StringsOf
    <3>2. c[2] \in Body(S, c)
      <4>1. PICK p, q : p = c[1] /\ q = c[2]
        OBVIOUS
      <4>a. p \in Nat /\ q \in Nat /\ p < q
        BY <4>1, <3>1, <1>1
      <4>2. p <= q /\ q <= q
        BY <4>a
      <4> QED BY <4>1, <4>2, <3>1 DEF Body
    <3> QED BY <3>1, <3>2, <2>1, <1>1, <1>4
  <2>2. ASSUME NEW c \in StringsOf(P, kind)
        PROVE  c \in StringsOf(S, kind) /\ Body(S, c) \cap H = {}
    BY <1>1, <1>3 DEF Body
  <2> QED BY <2>1, <2>2
<1> QED BY <1>0, <1>2, <1>7, <1>8

LEMMA StreamInvImplies ==
  ASSUME StreamInv
  PROVE  /\ StreamTypeOK /\ DisplayedIsTheStream
         /\ CommandsAreReportedOnce /\ OnlyTheEchoIsHidden
<1>1. StreamTypeOK
  BY DEF StreamInv, StreamTyped
<1>2. CASE astray
  BY <1>1, <1>2 DEF DisplayedIsTheStream, OutputKeepsOrder, NothingIsLost, CommandsAreReportedOnce,
                    OnlyTheEchoIsHidden
<1>3. CASE ~astray
  <2>1. Buffered /\ Kept(Told, Passed, Held, cut) /\ EchoHidden /\ Held \subseteq Searched
    BY <1>3 DEF StreamInv, Buffered
  <2>2. /\ TakenOut = Cmds(Passed)
        /\ Ids(Told, "CommandRan") =
             {o[1] : o \in {c \in StringsOf(Searched, "cmd") : Body(Searched, c) \cap Held = {}}}
    BY <1>1, <2>1, TakenOutIs
  <2>3. OutputKeepsOrder /\ CommandsAreReportedOnce
    BY <2>1, <2>2 DEF Kept, OutputKeepsOrder, CommandsAreReportedOnce
  <2>4. NothingIsLost
    <3>1. Passed \subseteq Ids(Told, "Output") \cup cut \cup TakenOut
      BY <2>1, <2>2 DEF Kept
    <3>2. 1..read \subseteq Passed \cup Held \cup blind \cup moved \cup dropped
      BY DEF Passed, Searched
    <3>3. blind \subseteq cut
      BY <1>1 DEF StreamTypeOK
    <3> QED BY <3>1, <3>2, <3>3 DEF NothingIsLost
  <2>5. OnlyTheEchoIsHidden
    <3> SUFFICES ASSUME NEW i \in cut
                 PROVE  \E h \in 1..read :
                          \/ sent[h] \in Markers /\ OnLine(i, h)
                          \/ /\ i \in blind /\ sent[h] \in Hooks /\ h < i
                             /\ \A o \in StringsOf((h..read) \ moved, "cwd") : i <= o[2]
      BY DEF OnlyTheEchoIsHidden
    <3>1. MayHide(i, 1..read, blind, Raw, Searched \ Cmds(Passed))
      BY <2>1 DEF EchoHidden
    <3>2. PICK h \in 1..read :
            \/ /\ sent[h] \in Markers
               /\ ~\E k \in (IF i \in blind THEN Raw ELSE Searched \ Cmds(Passed)) :
                    sent[k] = "nl" /\ ((i <= k /\ k < h) \/ (h < k /\ k < i))
            \/ /\ i \in blind /\ sent[h] \in Hooks /\ h < i
               /\ \A o \in StringsOf({k \in Raw : h <= k}, "cwd") : i <= o[2]
      BY <3>1 DEF MayHide
    <3>3. TextOf(i) = IF i \in blind THEN Raw ELSE Searched \ Cmds(Passed)
      BY <2>2 DEF TextOf, Raw
    <3>4. {k \in Raw : h <= k} = (h..read) \ moved
      <4>1. read \in Nat
        BY <1>1 DEF StreamTypeOK
      <4> QED BY <4>1 DEF Raw
    <3> QED BY <3>2, <3>3, <3>4 DEF OnLine
  <2> QED BY <1>1, <2>3, <2>4, <2>5 DEF DisplayedIsTheStream
<1> QED BY <1>1, <1>2, <1>3 DEF StreamTypeOK

(***************************************************************************)
(* A step: the tokens X are passed on and N is reported.                   *)
(***************************************************************************)
Grows ==
  /\ read <= read' /\ \A i \in 1..read' : sent'[i] = sent[i]
  /\ cut \subseteq cut' /\ blind \subseteq blind' /\ moved \subseteq moved' /\ dropped \subseteq dropped'
  /\ moved' \cap (1..read) \subseteq moved /\ blind' \cap cut \subseteq blind

LEMMA HiddenBefore ==
  ASSUME StreamTypeOK, StreamTypeOK', Grows, NEW C, NEW D, C \subseteq D, NEW i \in cut,
         MayHide(i, 1..read, blind, Raw, Searched \ C)
  PROVE  MayHide(i, 1..read', blind', Raw', Searched' \ D)
<1>1. PICK r, s : r = read /\ s = read'
  OBVIOUS
<1>2. r \in Nat /\ s \in Nat /\ r <= s
  BY <1>1 DEF StreamTypeOK, Grows
<1>3. PICK all, all2, raw, raw2, txt, txt2, bl, bl2 :
        /\ all = 1..r /\ all2 = 1..s /\ raw = Raw /\ raw2 = Raw'
        /\ txt = Searched \ C /\ txt2 = Searched' \ D /\ bl = blind /\ bl2 = blind'
  OBVIOUS
<1>4. all \in SUBSET Nat /\ all2 \in SUBSET Nat /\ all \subseteq all2
  BY <1>2, <1>3
<1>5. i \in all
  BY <1>1, <1>3 DEF StreamTypeOK
<1>6. i \in bl2 <=> i \in bl
  BY <1>3 DEF Grows
<1>7. raw = all \ moved /\ raw2 = all2 \ moved'
  BY <1>1, <1>3 DEF Raw
<1>8. raw2 \cap all = raw /\ raw \subseteq all /\ raw \in SUBSET Nat /\ raw2 \in SUBSET Nat
  BY <1>1, <1>3, <1>4, <1>7 DEF Grows
<1>9. \A x \in all, y \in all2 \ all : x < y
  BY <1>2, <1>3
<1>10. Below(all, raw2 \ raw)
  BY <1>7, <1>8, <1>9 DEF Below
<1>11. txt2 \subseteq all2 /\ txt2 \subseteq Nat
  BY <1>1, <1>3, <1>4 DEF Searched
<1>12. txt2 \cap all \subseteq txt
  BY <1>1, <1>3 DEF Searched, Grows
<1>13. Below(all, txt2 \ all)
  BY <1>9, <1>11 DEF Below
<1>14. MayHide(i, all, bl, raw, txt)
  BY <1>1, <1>3
<1>15. MayHide(i, all2, bl2, raw2, txt2)
  <2> HIDE <1>3
  <2>1. Later(all, raw, txt, all2, raw2, txt2)
    BY <1>4, <1>8, <1>10, <1>11, <1>12, <1>13 DEF Later
  <2> QED BY <2>1, <1>4, <1>5, <1>6, <1>14, HideStays
<1> QED BY <1>1, <1>3, <1>15

LEMMA Advance ==
  ASSUME StreamTypeOK, StreamTypeOK', Grows,
         Kept(Told, Passed, Held, cut), EchoHidden, Closed(Passed),
         NEW X \in SUBSET Nat, Passed \in SUBSET Nat, Passed' = Passed \cup X,
         Below(Passed, X), Below(Passed \cup X, Held'),
         NEW N \in Seq(Report), Told \in Seq(Report), Told' = Told \o N, Passes(N, X, cut'),
         \A i \in cut' \ cut : MayHide(i, 1..read', blind', Raw', Searched' \ Cmds(Passed \cup X))
  PROVE  Kept(Told, Passed, Held, cut)' /\ EchoHidden'
<1>1. PICK log, P, H, I, hid, more, D, Q :
        /\ log = Told /\ P = Passed /\ H = Held /\ I = Held' /\ hid = cut /\ more = cut'
        /\ D = 1..read' /\ Q = P \cup X
  OBVIOUS
<1>2. Kept(log, P, H, hid) /\ Closed(P) /\ Below(P, X) /\ Below(P \cup X, I) /\ hid \subseteq more
  BY <1>1 DEF Grows
<1>3. log \in Seq(Report) /\ P \in SUBSET Nat /\ Passes(N, X, more)
  BY <1>1
<1>4. Kept(log \o N, P \cup X, I, more) /\ Cmds(P \cup X) = Cmds(P) \cup Cmds(X)
  <2> HIDE <1>1
  <2>1. Comes(P, X, I, hid, more)
    BY <1>2 DEF Comes
  <2>2. Kept(log, P, H, hid) /\ Passes(N, X, more)
    BY <1>2, <1>3
  <2>3. Kept(log \o N, P \cup X, I, more)
    BY <2>1, <2>2, <1>3, KeptGrows
  <2>4. Cmds(P \cup X) = Cmds(P) \cup Cmds(X)
    BY <1>2, <1>3, CmdsJoin
  <2> QED BY <2>3, <2>4
<1>5. PICK all : all = log \o N
  OBVIOUS
<1>6. \A i \in D : sent'[i] = sent[i]
  BY <1>1 DEF Grows
<1>7. Q \in SUBSET D
  <2>1. Q = Passed'
    BY <1>1
  <2> QED BY <2>1, <1>1 DEF Passed, Searched
<1>8. Kept(all, Q, I, more)'
  <2>1. Kept(all, Q, I, more)
    BY <1>1, <1>4, <1>5
  <2> HIDE <1>1
  <2> QED BY <2>1, <1>6, <1>7, KeptThen
<1>9. all = Told' /\ Q = Passed' /\ I = Held' /\ more = cut'
  BY <1>1, <1>5
<1>10. Kept(Told, Passed, Held, cut)'
  BY <1>8, <1>9
<1>11. ASSUME NEW i \in cut'
       PROVE  MayHide(i, 1..read', blind', Raw', Searched' \ Cmds(Q))
  <2>1. CASE i \in cut
    <3>1. MayHide(i, 1..read, blind, Raw, Searched \ Cmds(P))
      BY <2>1, <1>1 DEF EchoHidden
    <3>2. Cmds(P) \subseteq Cmds(Q)
      BY <1>1, <1>4
    <3> QED BY <3>1, <3>2, <2>1, HiddenBefore
  <2>2. CASE i \notin cut
    BY <2>2, <1>1
  <2> QED BY <2>1, <2>2
<1>12. ASSUME NEW i \in cut'
       PROVE  MayHide(i, 1..read, blind, Raw, Searched \ Cmds(Passed))'
  <2>1. PICK a, bl, raw, txt, C : /\ a = 1..read' /\ bl = blind' /\ raw = Raw' /\ C = Cmds(Q)
                                  /\ txt = Searched' \ C
    OBVIOUS
  <2>2. MayHide(i, a, bl, raw, txt)
    BY <2>1, <1>11
  <2>3. a \in SUBSET D /\ raw \in SUBSET D /\ txt \in SUBSET D
    BY <2>1, <1>1 DEF Raw, Searched
  <2>4. MayHide(i, a, bl, raw, txt)'
    <3> HIDE <2>1
    <3> QED BY <2>2, <2>3, <1>6, MayHideThen
  <2>5. C = Cmds(Passed)'
    <3>1. Cmds(Q)' = Cmds(Q)
      BY <1>6, <1>7, SentSame
    <3> QED BY <3>1, <2>1, <1>9
  <2>6. txt = (Searched \ Cmds(Passed))'
    BY <2>1, <2>5
  <2> QED BY <2>1, <2>4, <2>6
<1> QED BY <1>10, <1>12 DEF EchoHidden

(***************************************************************************)
(* The steps that pass nothing on.                                         *)
(***************************************************************************)
LEMMA ToldGrows ==
  ASSUME StreamTypeOK
  PROVE  /\ Told \in Seq(Report) /\ Queue \in Seq(Report)
         /\ \A N \in Seq(Report) : events' = events \o N /\ UNCHANGED pump
                                   => Told' = Told \o N /\ events' \in Seq(Report)
<1>1. applied \in Seq(Report) /\ deferred \in Seq(Report) /\ events \in Seq(Report)
  BY DEF StreamTypeOK
<1>2. PICK Q : Q = deferred \o events
  OBVIOUS
<1>3. Q \in Seq(Report) /\ applied \o Q \in Seq(Report) /\ Told = applied \o Q /\ Queue = Q
  BY <1>1, <1>2 DEF Told, Queue
<1>4. ASSUME NEW N \in Seq(Report), events' = events \o N, UNCHANGED pump
      PROVE  Told' = Told \o N /\ events' \in Seq(Report)
  <2>1. deferred \o (events \o N) = Q \o N
    <3>1. deferred \o (events \o N) = (deferred \o events) \o N
      BY <1>1, LogJoinThree, SMTT(30)
    <3> QED BY <3>1, <1>2
  <2>2. (applied \o Q) \o N = applied \o (Q \o N)
    <3>1. applied \in Seq(Report) /\ Q \in Seq(Report)
      BY <1>1, <1>3
    <3> QED BY <3>1, LogJoinThree, Zenon
  <2>3. Told' = applied \o (deferred \o (events \o N))
    BY <1>4 DEF Told, Queue, pump
  <2>4. Told = applied \o Q
    BY <1>3
  <2>5. events \o N \in Seq(Report)
    BY <1>1
  <2>6. events' = events \o N
    BY <1>4
  <2> QED BY <2>1, <2>2, <2>3, <2>4, <2>5, <2>6, Zenon
<1> QED BY <1>3, <1>4

LEMMA SaysNothing ==
  ASSUME NEW X, X = {}, NEW hid
  PROVE  <<>> \in Seq(Report) /\ Passes(<<>>, X, hid)
<1>1. <<>> \in Seq(Report) /\ DOMAIN <<>> = {}
  OBVIOUS
<1>2. \A type : Ids(<<>>, type) = {} /\ InOrder(<<>>, type)
  BY <1>1 DEF Ids, InOrder, Of
<1>3. StringsOf(X, "cmd") = {}
  BY NoStrings
<1> QED BY <1>1, <1>2, <1>3 DEF Passes

Unmoved == UNCHANGED <<read, phase, injected, suppress, echoBuf, oscPending, history>>

LEMMA Quiet ==
  ASSUME StreamInv, StreamTypeOK', Unmoved, Told' = Told, \A i \in 1..read : sent'[i] = sent[i]
  PROVE  StreamInv'
<1>1. StreamTyped /\ StreamTypeOK
  BY DEF StreamInv, StreamTyped
<1>2. /\ Held' = Held /\ Searched' = Searched /\ Passed' = Passed /\ Raw' = Raw /\ (1..read)' = 1..read
      /\ cut' = cut /\ blind' = blind /\ moved' = moved /\ dropped' = dropped /\ astray' = astray
      /\ phase' = phase /\ read' = read
  BY DEF Unmoved, history, Held, Searched, Passed, Raw
<1>3. StreamTyped'
  BY <1>1, <1>2 DEF StreamTyped, Unmoved
<1>4. ASSUME ~astray'
      PROVE  Buffered' /\ Kept(Told, Passed, Held, cut)' /\ EchoHidden'
  <2>1. Buffered /\ Kept(Told, Passed, Held, cut) /\ EchoHidden
    BY <1>2, <1>4 DEF StreamInv
  <2>2. \A P \in SUBSET (1..read) : Closed(P) => Closed(P)'
    BY SentSame
  <2>3. Passed \in SUBSET (1..read) /\ ToSet(oscPending) \subseteq 1..read /\ Held \in SUBSET (1..read)
    BY <1>1 DEF Passed, Searched, StreamTyped, Held
  <2>4. Buffered'
    <3>1. (phase = "up" => Closed(Passed))'
      <4>1. PICK P : P = Passed
        OBVIOUS
      <4>2. Closed(P) => Closed(P)'
        BY <4>1, <2>2, <2>3
      <4>3. phase = "up" => Closed(P)
        BY <4>1, <2>1 DEF Buffered
      <4>4. P = Passed'
        BY <4>1, <1>2
      <4> QED BY <4>2, <4>3, <4>4, <1>2
    <3>2. \A i \in ToSet(oscPending) : sent'[i] # "bel"
      BY <2>1, <2>3 DEF Buffered
    <3>3. oscPending' = oscPending /\ echoBuf' = echoBuf
      BY DEF Unmoved
    <3>4. Rising(oscPending)' /\ Rising(echoBuf)' /\ Below(ToSet(oscPending), ToSet(echoBuf))'
      BY <2>1, <3>3 DEF Buffered, Rising, Below, ToSet
    <3>5. (Held \subseteq Searched /\ cut \ blind \subseteq Passed)'
      BY <2>1, <1>2 DEF Buffered
    <3>6. (\A k \in Raw : \A e \in ToSet(echoBuf) : e <= k => k \in ToSet(echoBuf))'
      BY <2>1, <1>2, <3>3 DEF Buffered
    <3>7. (\A i \in ToSet(oscPending) : sent[i] # "bel")'
      BY <3>2, <3>3
    <3> QED BY <3>1, <3>4, <3>5, <3>6, <3>7 DEF Buffered
  <2>5. Kept(Told, Passed, Held, cut)'
    <3>1. PICK log, P, H, hid : log = Told /\ P = Passed /\ H = Held /\ hid = cut
      OBVIOUS
    <3>2. Kept(log, P, H, hid)'
      BY <3>1, <2>1, <2>3, KeptThen
    <3>3. log = Told' /\ P = Passed' /\ H = Held' /\ hid = cut'
      BY <3>1, <1>2
    <3> QED BY <3>2, <3>3
  <2>6. ASSUME NEW i \in cut'
        PROVE  MayHide(i, 1..read, blind, Raw, Searched \ Cmds(Passed))'
    <3>1. PICK a, bl, raw, C, txt : /\ a = 1..read /\ bl = blind /\ raw = Raw /\ C = Cmds(Passed)
                                    /\ txt = Searched \ C
      OBVIOUS
    <3>2. MayHide(i, a, bl, raw, txt)
      BY <3>1, <2>1, <1>2 DEF EchoHidden
    <3>3. a \in SUBSET a /\ raw \in SUBSET a /\ txt \in SUBSET a /\ \A k \in a : sent'[k] = sent[k]
      BY <3>1 DEF Raw, Searched
    <3>4. MayHide(i, a, bl, raw, txt)'
      <4> HIDE <3>1
      <4> QED BY <3>2, <3>3, MayHideThen
    <3>5. C = Cmds(Passed)'
      <4>1. PICK P : P = Passed
        OBVIOUS
      <4>2. Cmds(P)' = Cmds(P)
        BY <4>1, <2>3, SentSame
      <4>3. P = Passed'
        BY <4>1, <1>2
      <4> QED BY <3>1, <4>1, <4>2, <4>3
    <3>6. txt = (Searched \ Cmds(Passed))'
      BY <3>1, <3>5, <1>2
    <3> QED BY <3>1, <3>4, <3>6, <1>2
  <2> QED BY <2>4, <2>5, <2>6 DEF EchoHidden
<1> QED BY <1>3, <1>4 DEF StreamInv

LEMMA SubJoin ==
  ASSUME NEW S, NEW s \in Seq(S), NEW p \in Nat \ {0}, NEW m \in Nat, NEW q \in Nat,
         p <= m + 1, m <= q, q <= Len(s)
  PROVE  SubSeq(s, p, m) \o SubSeq(s, m + 1, q) = SubSeq(s, p, q)
<1>1. PICK a, b, c, d : /\ a = SubSeq(s, p, m) /\ b = SubSeq(s, m + 1, q) /\ c = SubSeq(s, p, q)
                        /\ d = a \o b
  OBVIOUS
<1>0. Len(s) \in Nat
  OBVIOUS
<1>2. /\ a \in Seq(S) /\ Len(a) = m - p + 1 /\ \A i \in 1..(m - p + 1) : a[i] = s[p + i - 1]
  <2>1. m <= Len(s)
    BY <1>0
  <2> QED BY <2>1, <1>1, SubFacts
<1>3. /\ b \in Seq(S) /\ Len(b) = q - m /\ \A i \in 1..(q - m) : b[i] = s[m + i]
  <2>1. m + 1 \in Nat \ {0} /\ m + 1 <= q + 1
    OBVIOUS
  <2>2. PICK e : e = m + 1
    OBVIOUS
  <2>3. /\ b \in Seq(S) /\ Len(b) = q - e + 1 /\ \A i \in 1..(q - e + 1) : b[i] = s[e + i - 1]
    BY <2>1, <2>2, <1>1, SubFacts
  <2>4. q - e + 1 = q - m /\ \A i \in 1..(q - m) : e + i - 1 = m + i
    BY <2>2
  <2> QED BY <2>3, <2>4
<1>4. /\ c \in Seq(S) /\ Len(c) = q - p + 1 /\ \A i \in 1..(q - p + 1) : c[i] = s[p + i - 1]
  <2>1. p <= q + 1
    OBVIOUS
  <2>2. PICK e : e = SubSeq(s, p, q)
    OBVIOUS
  <2>3. e \in Seq(S) /\ Len(e) = q - p + 1 /\ \A i \in 1..(q - p + 1) : e[i] = s[p + i - 1]
    <3> HIDE <1>1
    <3> QED BY <2>1, <2>2, SubFacts
  <2> QED BY <2>2, <2>3, <1>1
<1>5. /\ d \in Seq(S) /\ Len(d) = Len(a) + Len(b)
      /\ \A i \in 1..(Len(a) + Len(b)) : d[i] = IF i <= Len(a) THEN a[i] ELSE b[i - Len(a)]
  <2>1. a \in Seq(S) /\ b \in Seq(S) /\ d = a \o b
    BY <1>1, <1>2, <1>3
  <2> HIDE <1>1
  <2> QED BY <2>1, JoinFacts
<1>6. Len(d) = q - p + 1
  BY <1>2, <1>3, <1>5
<1>7. ASSUME NEW i \in 1..(q - p + 1) PROVE d[i] = c[i]
  <2>1. CASE i <= m - p + 1
    <3>1. i \in 1..(m - p + 1) /\ i \in 1..(Len(a) + Len(b)) /\ i <= Len(a)
      BY <2>1, <1>2, <1>3
    <3> QED BY <3>1, <1>2, <1>4, <1>5
  <2>2. CASE ~(i <= m - p + 1)
    <3>1. PICK j : j = i - (m - p + 1)
      OBVIOUS
    <3>2. j \in 1..(q - m) /\ m + j = p + i - 1
      <4>1. p \in Int /\ m \in Int /\ q \in Int /\ i \in Int /\ i <= q - p + 1
        OBVIOUS
      <4>2. i > m - p + 1
        BY <4>1, <2>2
      <4> QED BY <3>1, <4>1, <4>2
    <3>3. i \in 1..(Len(a) + Len(b)) /\ ~(i <= Len(a)) /\ i - Len(a) = j
      <4>1. Len(a) = m - p + 1 /\ Len(a) + Len(b) = q - p + 1
        BY <1>2, <1>3
      <4> QED BY <4>1, <3>1, <2>2
    <3> QED BY <3>2, <3>3, <1>3, <1>4, <1>5
  <2> QED BY <2>1, <2>2
<1>8. d = c
  BY <1>4, <1>5, <1>6, <1>7, SameSeq
<1> QED BY <1>1, <1>8

LEMMA SubWhole ==
  ASSUME NEW S, NEW s \in Seq(S)
  PROVE  SubSeq(s, 1, Len(s)) = s
<1>1. PICK n, c : n = Len(s) /\ c = SubSeq(s, 1, n)
  OBVIOUS
<1>2. n \in Nat /\ 1 \in Nat \ {0} /\ n <= Len(s) /\ 1 <= n + 1
  BY <1>1
<1>3. c \in Seq(S) /\ Len(c) = n - 1 + 1 /\ \A i \in 1..(n - 1 + 1) : c[i] = s[1 + i - 1]
  BY <1>1, <1>2, SubFacts
<1>4. Len(c) = Len(s) /\ \A i \in 1..Len(c) : c[i] = s[i]
  BY <1>1, <1>2, <1>3
<1>5. c = s
  BY <1>3, <1>4, SameSeq
<1> QED BY <1>1, <1>5

(* The pump takes reports from the head of the queue, and may look at one  *)
(* more; none is lost and none changes places.                             *)
LEMMA PumpKeeps ==
  ASSUME StreamTypeOK, Pump
  PROVE  /\ Told' = Told
         /\ {events', deferred', applied'} \subseteq Seq(Report) /\ Len(deferred') <= 1
<1>1. PICK Q, k, l : Q = Queue /\ k = Joined(Q) /\ l = Looked(Q, k)
  OBVIOUS
<1>2. Q \in Seq(Report) /\ Q # <<>> /\ applied \in Seq(Report) /\ Told = applied \o Q
  BY <1>1, ToldGrows DEF Pump, StreamTypeOK, Told
<1>3. Len(Q) \in Nat \ {0}
  BY <1>2
<1>4. k \in 1..Len(Q)
  <2>1. PICK s : s = {1} \cup {j \in 2..Len(Q) :
                  /\ \A i \in 1..j : Q[i].type = "Output"
                  /\ \A i \in 1..(j - 1) : Size(Q, i) < BatchCap
                  /\ \A i \in 2..j : Size(Q, i) <= BatchCap}
    OBVIOUS
  <2>2. s \in SUBSET (1..Len(Q)) /\ s # {}
    BY <2>1, <1>3
  <2>3. k = Max(s)
    BY <2>1, <1>1 DEF Joined
  <2> QED BY <2>2, <2>3, <1>3, MaxIsLast
<1>5. l \in {0, 1} /\ k + l <= Len(Q)
  BY <1>1, <1>3, <1>4 DEF Looked
<1>6. PICK a, b, c : /\ a = SubSeq(Q, 1, k) /\ b = SubSeq(Q, k + 1, k + l)
                     /\ c = SubSeq(Q, k + l + 1, Len(Q))
  OBVIOUS
<1>7. applied' = applied \o a /\ deferred' = b /\ events' = c
  BY <1>1, <1>6 DEF Pump, Defer
<1>8. /\ a \in Seq(Report) /\ b \in Seq(Report) /\ Len(b) = l /\ c \in Seq(Report)
  <2>1. a \in Seq(Report)
    BY <1>2, <1>3, <1>4, <1>6, SubFacts
  <2>2. b \in Seq(Report) /\ Len(b) = l
    <3>1. PICK p, q : p = k + 1 /\ q = k + l
      OBVIOUS
    <3>2. p \in Nat \ {0} /\ q \in Nat /\ q <= Len(Q) /\ p <= q + 1 /\ q - p + 1 = l
      BY <3>1, <1>3, <1>4, <1>5
    <3>3. SubSeq(Q, p, q) \in Seq(Report) /\ Len(SubSeq(Q, p, q)) = q - p + 1
      BY <3>2, <1>2, SubFacts
    <3> QED BY <3>1, <3>2, <3>3, <1>6
  <2>3. c \in Seq(Report)
    <3>1. PICK p, q : p = k + l + 1 /\ q = Len(Q)
      OBVIOUS
    <3>2. p \in Nat \ {0} /\ q \in Nat /\ q <= Len(Q) /\ p <= q + 1
      BY <3>1, <1>3, <1>4, <1>5
    <3> QED BY <3>1, <3>2, <1>2, <1>6, SubFacts
  <2> QED BY <2>1, <2>2, <2>3
<1>9. a \o (b \o c) = Q
  <2>1. PICK m, n : m = k + l /\ n = Len(Q)
    OBVIOUS
  <2>2. /\ m \in Nat /\ n \in Nat /\ k \in Nat /\ k <= m /\ m <= n /\ n <= Len(Q) /\ k <= n
        /\ k + 1 <= m + 1 /\ 1 <= k + 1 /\ k + 1 \in Nat \ {0} /\ 1 \in Nat \ {0}
    BY <2>1, <1>3, <1>4, <1>5
  <2>3. SubSeq(Q, k + 1, m) \o SubSeq(Q, m + 1, n) = SubSeq(Q, k + 1, n)
    BY <2>2, <1>2, SubJoin
  <2>4. SubSeq(Q, 1, k) \o SubSeq(Q, k + 1, n) = SubSeq(Q, 1, n)
    BY <2>2, <1>2, SubJoin
  <2> QED BY <2>1, <2>3, <2>4, <1>2, <1>6, SubWhole
<1>10. (applied \o a) \o (b \o c) = applied \o (a \o (b \o c))
  <2>1. b \o c \in Seq(Report)
    BY <1>8
  <2> QED BY <2>1, <1>2, <1>8, LogJoinThree
<1>11. Told' = (applied \o a) \o (b \o c)
  BY <1>7 DEF Told, Queue
<1>12. applied \o a \in Seq(Report)
  BY <1>2, <1>8
<1> QED BY <1>2, <1>5, <1>7, <1>8, <1>9, <1>10, <1>11, <1>12

(***************************************************************************)
(* What is read goes by the scan: the bytes of echoBuf and of the read,    *)
(* but for those in hidden, which are hidden unsearched.                   *)
(***************************************************************************)
MayGo(hidden, last, bl, raw) == \A i \in hidden : MayHide(i, 1..last, bl, raw, {})

(* What is held back stands behind what was passed on, and what is read    *)
(* now behind that.                                                        *)
LEMMA HeldFacts ==
  ASSUME StreamTypeOK, Held \subseteq 1..read, Held \subseteq Searched, NEW log, NEW hid, Kept(log, Passed, Held, hid),
         NEW n \in Nat
  PROVE  /\ Searched = Passed \cup Held /\ Passed \cap Held = {} /\ Passed \in SUBSET Nat
         /\ Passed \subseteq 1..read /\ Below(Passed, Held)
         /\ Below(1..read, (read + 1)..(read + n))
         /\ \A Y \in SUBSET (Held \cup (read + 1)..(read + n)) : Below(Passed, Y) /\ Passed \cap Y = {}
<1>1. read \in Nat
  BY DEF StreamTypeOK
<1>2. /\ Searched = Passed \cup Held /\ Passed \cap Held = {} /\ Passed \in SUBSET Nat
      /\ Searched \subseteq 1..read
  BY PassedAndHeld
<1>3. Passed \subseteq 1..read
  BY <1>2
<1>4. Below(Passed, Held)
  BY DEF Kept
<1>5. \A x \in 1..read : \A y \in (read + 1)..(read + n) : x < y /\ x # y
  BY <1>1
<1>6. Below(1..read, (read + 1)..(read + n))
  BY <1>5 DEF Below
<1>7. ASSUME NEW Y \in SUBSET (Held \cup (read + 1)..(read + n))
      PROVE  Below(Passed, Y) /\ Passed \cap Y = {}
  <2>1. \A x \in Passed : \A y \in Held \cup (read + 1)..(read + n) : x < y /\ x # y
    <3> SUFFICES ASSUME NEW x \in Passed, NEW y \in Held \cup (read + 1)..(read + n)
                 PROVE  x < y /\ x # y
      OBVIOUS
    <3>1. CASE y \in Held
      BY <3>1, <1>2, <1>4 DEF Below
    <3>2. CASE y \in (read + 1)..(read + n)
      BY <3>2, <1>3, <1>5
    <3> QED BY <3>1, <3>2
  <2> QED BY <2>1 DEF Below
<1> QED BY <1>2, <1>3, <1>4, <1>6, <1>7

ScanMoves(n, hidden, bytes, out, pending) ==
  /\ read' = read + n
  /\ hidden \subseteq ToSet(echoBuf) \cup (read + 1)..(read + n)
  /\ bytes = (ToSet(echoBuf) \cup (read + 1)..(read + n)) \ hidden
  /\ blind' = blind \cup hidden /\ moved' = moved /\ dropped' = dropped
  /\ out \cup pending = ToSet(oscPending) \cup bytes /\ Below(out, pending) /\ Closed(out)
  /\ Held' = pending

ScanPassed(hidden, out, pending) ==
  /\ Passed' = Passed \cup out /\ Searched' = Passed' \cup pending
  /\ Below(Passed, out) /\ Below(Passed \cup out, pending) /\ Closed(Passed \cup out)
  /\ blind' \cap cut \subseteq blind /\ Passed \cap hidden = {}
  /\ \A i \in out : i \notin hidden /\ i \notin blind

LEMMA ScanPasses ==
  ASSUME StreamTypeOK, Held \subseteq 1..read, dropped = {},
         Buffered, Kept(Told, Passed, Held, cut), Closed(Passed),
         NEW n \in Nat, NEW hidden, NEW bytes, NEW out, NEW pending,
         ScanMoves(n, hidden, bytes, out, pending)
  PROVE  ScanPassed(hidden, out, pending)
<1> SUFFICES ASSUME read' = read + n,
           hidden \subseteq ToSet(echoBuf) \cup (read + 1)..(read + n),
           bytes = (ToSet(echoBuf) \cup (read + 1)..(read + n)) \ hidden,
           blind' = blind \cup hidden, moved' = moved, dropped' = dropped,
           out \cup pending = ToSet(oscPending) \cup bytes, Below(out, pending), Closed(out),
           Held' = pending
    PROVE  /\ Passed' = Passed \cup out /\ Searched' = Passed' \cup pending
           /\ Below(Passed, out) /\ Below(Passed \cup out, pending) /\ Closed(Passed \cup out)
           /\ blind' \cap cut \subseteq blind /\ Passed \cap hidden = {}
           /\ \A i \in out : i \notin hidden /\ i \notin blind
  BY DEF ScanMoves, ScanPassed
<1>1. PICK P, O, E, W : /\ P = Passed /\ O = ToSet(oscPending) /\ E = ToSet(echoBuf)
                        /\ W = (read + 1)..(read + n)
  OBVIOUS
<1>2. Held = O \cup E /\ Held \subseteq Searched
  BY <1>1 DEF Held, Buffered
<1>3. /\ Searched = P \cup Held /\ P \cap Held = {} /\ P \in SUBSET Nat /\ P \subseteq 1..read
      /\ Below(1..read, W)
      /\ \A Y \in SUBSET (Held \cup W) : Below(P, Y) /\ P \cap Y = {}
  <2>1. PICK log, hid : log = Told /\ hid = cut
    OBVIOUS
  <2>2. Kept(log, Passed, Held, hid)
    BY <2>1
  <2> QED BY <2>2, <1>1, <1>2, HeldFacts
<1>4. read \in Nat
  BY DEF StreamTypeOK
<1>5. \A x \in 1..read : x \notin W
  BY <1>1, <1>4
<1>6. 1..(read + n) = 1..read \cup W
  BY <1>1, <1>4
<1>7. O \cap E = {}
  <2>1. \A x \in O : \A y \in E : x < y
    BY <1>1 DEF Buffered, Below
  <2>2. \A x \in O : x \in Nat
    BY <1>2, <1>4
  <2> QED BY <2>1, <2>2
<1>8. O \subseteq 1..read /\ E \subseteq 1..read
  BY <1>2
<1>9. hidden \cap O = {} /\ hidden \cap P = {}
  BY <1>1, <1>2, <1>3, <1>5, <1>7, <1>8
<1>10. blind \subseteq 1..read /\ moved \subseteq 1..read /\ blind \subseteq cut
  BY DEF StreamTypeOK
<1>11. Searched' = (Searched \cup W) \ hidden
  BY <1>5, <1>6, <1>10 DEF Searched
<1>12. Searched' = P \cup O \cup bytes
  BY <1>1, <1>2, <1>3, <1>5, <1>8, <1>9, <1>11
<1>13. Searched' = P \cup out \cup pending
  BY <1>1, <1>12
<1>14. out \subseteq Held \cup W /\ pending \subseteq Held \cup W
  BY <1>1, <1>2
<1>15. P \cap pending = {} /\ Below(P, out) /\ Below(P, pending)
  BY <1>3, <1>14
<1>16. out \cap pending = {}
  <2>1. \A x \in out : x \in Nat
    BY <1>1, <1>2, <1>4, <1>14
  <2> QED BY <2>1 DEF Below
<1>17. Passed' = P \cup out
  <2>1. Passed' = Searched' \ pending
    BY DEF Passed
  <2> QED BY <2>1, <1>13, <1>15, <1>16
<1>18. Below(P \cup out, pending)
  BY <1>15 DEF Below
<1>19. Closed(P \cup out)
  BY <1>1 DEF Closed
<1>20. blind' \cap cut \subseteq blind
  BY <1>1, <1>9 DEF Buffered
<1>21. \A i \in out : i \notin hidden
  BY <1>1, <1>9
<1>22. \A i \in out : i \notin blind
  <2>1. \A i \in Held \cup W : i \notin blind
    BY <1>2, <1>5, <1>10 DEF Searched
  <2> QED BY <2>1, <1>14
<1> QED BY <1>1, <1>9, <1>13, <1>15, <1>17, <1>18, <1>19, <1>20, <1>21, <1>22

LEMMA ReadScan ==
  ASSUME StreamInv, phase = "up", NEW n \in 1..Len(Wire), read' = read + n,
         UNCHANGED <<host, integration, phase, cooling, pump, moved, dropped>>,
         echoBuf' = <<>>, {injected', suppress', late'} \subseteq BOOLEAN, suppress' => injected',
         NEW bytes \in Seq(Nat), NEW before \in Seq(Report), Cwd(before), NEW hidden,
         Scan(bytes, before, hidden),
         hidden \subseteq ToSet(echoBuf) \cup (read + 1)..(read + n),
         ToSet(bytes) \subseteq ToSet(echoBuf) \cup (read + 1)..(read + n),
         ~astray => /\ Rising(bytes)
                    /\ ToSet(bytes) = (ToSet(echoBuf) \cup (read + 1)..(read + n)) \ hidden
                    /\ MayGo(hidden, read + n, blind \cup hidden, (1..(read + n)) \ moved)
  PROVE  StreamInv'
<1>1. StreamTyped /\ StreamTypeOK /\ dropped = {}
  BY DEF StreamInv, StreamTyped
<1>2. oscPending \in Seq(Nat) /\ events \in Seq(Report) /\ astray \in BOOLEAN
  BY <1>1 DEF StreamTypeOK
<1>a. PICK out \in Seq(Nat), text \in Seq(Nat), N \in Seq(Report) :
        ScanGives(bytes, hidden, out, text, N)
  BY <1>2, ScanFacts
<1>3. /\ oscPending' \in Seq(Nat) /\ events' = events \o N
      /\ ToSet(out) \cup ToSet(oscPending') = ToSet(oscPending) \cup ToSet(bytes)
      /\ ToSet(text) \subseteq ToSet(out)
      /\ cut' = cut \cup hidden \cup (ToSet(text) \ ToSet(strip_prompt_setup_echo(text)))
      /\ blind' = blind \cup hidden
      /\ astray' \in BOOLEAN /\ (astray => astray')
      /\ Rising(oscPending \o bytes) /\ ~astray' =>
           /\ Rising(text) /\ Rising(out) /\ Rising(oscPending')
           /\ Below(ToSet(out), ToSet(oscPending')) /\ Closed(ToSet(out))
           /\ \A i \in ToSet(oscPending') : sent[i] # "bel"
           /\ ToSet(text) = ToSet(out) \ Cmds(ToSet(out))
           /\ InOrder(N, "Output") /\ InOrder(N, "CommandRan")
           /\ Ids(N, "Output") = ToSet(strip_prompt_setup_echo(text))
           /\ Ids(N, "CommandRan") = {o[1] : o \in StringsOf(ToSet(out), "cmd")}
  BY <1>a DEF ScanGives
<1>4. PICK O, E, W, X, T, U, I : /\ O = ToSet(oscPending) /\ E = ToSet(echoBuf)
         /\ W = (read + 1)..(read + n) /\ X = ToSet(out) /\ T = ToSet(text)
         /\ U = ToSet(strip_prompt_setup_echo(text)) /\ I = ToSet(oscPending')
  OBVIOUS
<1>5. read \in Nat /\ n \in Nat /\ read + n <= Len(sent) /\ Len(sent) \in Nat
  BY <1>1, DataFacts
<1>6. Held = E \cup O /\ Held' = I /\ Held \subseteq 1..read
  <2>1. ToSet(<<>>) = {}
    BY RisingTo
  <2>2. Held' = I
    BY <2>1, <1>4 DEF Held
  <2> QED BY <2>2, <1>1, <1>4 DEF Held, StreamTyped
<1>7. /\ 1..(read + n) = 1..read \cup W /\ W \subseteq Nat
      /\ I \subseteq 1..(read + n) /\ X \subseteq 1..(read + n) /\ hidden \subseteq 1..(read + n)
  <2>1. 1..(read + n) = 1..read \cup W /\ W \subseteq Nat
    BY <1>4, <1>5
  <2>2. X \cup I \subseteq O \cup E \cup W /\ hidden \subseteq E \cup W
    BY <1>3, <1>4
  <2> QED BY <2>1, <2>2, <1>6
<1>8. StreamTypeOK'
  <2>1. sent' = sent /\ answered' = answered /\ integration' = integration /\ phase' = phase
        /\ cooling' = cooling /\ deferred' = deferred /\ applied' = applied
        /\ moved' = moved /\ dropped' = dropped
    BY DEF host, pump
  <2>2. events' \in Seq(Report)
    BY <1>2, <1>3
  <2>3. echoBuf' \in Seq(Nat) /\ oscPending' \in Seq(Nat)
    BY <1>3
  <2>4. cut' \subseteq 1..read' /\ blind' \subseteq cut'
    BY <1>1, <1>3, <1>4, <1>7 DEF StreamTypeOK
  <2>5. moved' \subseteq 1..read' /\ dropped' \subseteq 1..read'
    BY <1>1, <1>7, <2>1 DEF StreamTypeOK
  <2>6. read' \in 0..Len(sent')
    BY <1>5, <2>1
  <2>7. {integration', injected', suppress', late', cooling', astray'} \subseteq BOOLEAN
    BY <1>1, <1>3, <2>1 DEF StreamTypeOK
  <2> QED BY <1>1, <2>1, <2>2, <2>3, <2>4, <2>5, <2>6, <2>7 DEF StreamTypeOK
<1>9. StreamTyped'
  <2>1. dropped' = {} /\ Held' \subseteq 1..read'
    BY <1>1, <1>6, <1>7
  <2> QED BY <2>1, <1>8 DEF StreamTyped
<1>10. ASSUME ~astray'
       PROVE  Buffered' /\ Kept(Told, Passed, Held, cut)' /\ EchoHidden'
  <2>1. Buffered /\ Kept(Told, Passed, Held, cut) /\ EchoHidden /\ ~astray /\ Closed(Passed)
    BY <1>3, <1>10 DEF StreamInv, Buffered
  <2>2. /\ Rising(bytes) /\ MayGo(hidden, read + n, blind \cup hidden, (1..(read + n)) \ moved)
        /\ ToSet(bytes) = (ToSet(echoBuf) \cup (read + 1)..(read + n)) \ hidden
    BY <2>1
  <2>3. Rising(oscPending \o bytes)
    <3>1. Below(O, E) /\ Below(O, W)
      <4>1. \A x \in 1..read : \A y \in W : x < y
        BY <1>4, <1>5
      <4> QED BY <4>1, <2>1, <1>4, <1>6 DEF Buffered, Below
    <3>2. Below(O, ToSet(bytes))
      BY <3>1, <1>4 DEF Below
    <3>3. Rising(oscPending)
      BY <2>1 DEF Buffered
    <3> QED BY <3>2, <3>3, <2>2, <1>2, <1>4, RisingTo
  <2>4. /\ Rising(text) /\ Rising(out) /\ Rising(oscPending')
        /\ Below(X, I) /\ Closed(X) /\ \A i \in I : sent[i] # "bel"
        /\ T = X \ Cmds(X)
        /\ InOrder(N, "Output") /\ InOrder(N, "CommandRan") /\ Ids(N, "Output") = U
        /\ Ids(N, "CommandRan") = {o[1] : o \in StringsOf(X, "cmd")}
    BY <2>3, <1>3, <1>4, <1>10
  <2>5. U \subseteq T /\ T \subseteq X
    BY <1>3, <1>4, StripKeeps
  <2>6. /\ Passed' = Passed \cup X /\ Searched' = Passed' \cup I
        /\ Below(Passed, X) /\ Below(Passed \cup X, I) /\ Closed(Passed \cup X)
        /\ blind' \cap cut \subseteq blind /\ Passed \cap hidden = {}
        /\ \A i \in X : i \notin hidden /\ i \notin blind
    <3>1. PICK B : B = ToSet(bytes)
      OBVIOUS
    <3>2. ScanMoves(n, hidden, B, X, I)
      BY <3>1, <2>2, <2>4, <1>3, <1>4, <1>6 DEF ScanMoves, pump
    <3>3. ScanPassed(hidden, X, I)
      BY <3>2, <2>1, <1>1, <1>5, <1>6, ScanPasses
    <3> QED BY <3>3 DEF ScanPassed
  <2>7. Grows
    <3>1. sent' = sent
      BY DEF host
    <3> QED BY <3>1, <2>6, <1>3, <1>5 DEF Grows
  <2>8. Passes(N, X, cut')
    <3>1. X \subseteq U \cup cut' \cup Cmds(X)
      BY <2>4, <1>3, <1>4
    <3> QED BY <3>1, <2>4, <2>5 DEF Passes
  <2>9. Told \in Seq(Report) /\ Told' = Told \o N
    BY <1>1, <1>3, ToldGrows
  <2>10. X \in SUBSET Nat /\ Passed \in SUBSET Nat
    <3>1. X \in SUBSET Nat
      BY <1>4, RisingTo
    <3>2. Passed \subseteq 1..read
      BY DEF Passed, Searched
    <3> QED BY <3>1, <3>2, <1>5
  <2>11. ASSUME NEW i \in cut' \ cut
         PROVE  MayHide(i, 1..read', blind', Raw', Searched' \ Cmds(Passed \cup X))
    <3>0. PICK all, bl, raw, txt : /\ all = 1..read' /\ bl = blind' /\ raw = Raw'
                                   /\ txt = Searched' \ Cmds(Passed \cup X)
      OBVIOUS
    <3>1. /\ raw = (1..(read + n)) \ moved /\ all = 1..(read + n) /\ bl = blind \cup hidden
      BY <3>0, <1>3 DEF Raw
    <3>2. CASE i \in hidden
      <4>1. MayHide(i, all, bl, raw, {}) /\ i \in bl
        BY <3>1, <3>2, <2>2 DEF MayGo
      <4>2. MayHide(i, all, bl, raw, txt)
        BY <4>1, HideUnsearched
      <4> QED BY <4>2, <3>0
    <3>3. CASE i \in T /\ i \notin U
      <4>1. i \notin bl /\ T \subseteq all
        BY <3>1, <3>3, <2>5, <2>6, <1>7
      <4>2. Cmds(X) \subseteq Cmds(Passed \cup X)
        <5>1. Cmds(Passed \cup X) = Cmds(Passed) \cup Cmds(X)
          BY <2>1, <2>6, <2>10, CmdsJoin
        <5> QED BY <5>1
      <4>3. ASSUME NEW k \in txt, NEW x \in T, NEW y \in T, x <= k, k <= y PROVE k \in T
        <5>1. x \in X /\ y \in X /\ x \in Nat /\ y \in Nat
          BY <2>5, <2>10
        <5>2. k \in Passed \cup X \cup I /\ k \notin Cmds(X)
          BY <3>0, <4>2, <2>6
        <5>3. ~(k \in Passed)
          <6>1. k \in Passed => k < x /\ k \in Nat
            BY <5>1, <2>6, <2>10 DEF Below
          <6> QED BY <6>1, <5>1, <4>3
        <5>4. ~(k \in I)
          <6>1. k \in I => y < k /\ k \in Nat
            BY <5>1, <2>4, <1>7 DEF Below
          <6> QED BY <6>1, <5>1, <4>3
        <5> QED BY <5>2, <5>3, <5>4, <2>4
      <4>4. raw \in SUBSET Nat /\ txt \in SUBSET Nat
        <5>1. 1..(read + n) \in SUBSET Nat
          BY <1>5
        <5>2. I \in SUBSET Nat
          BY <5>1, <1>7
        <5> QED BY <5>1, <5>2, <3>0, <3>1, <2>6, <2>10
      <4>5. \A k \in (IF i \in bl THEN raw ELSE txt) : \A x, y \in T :
              x <= k /\ k <= y => k \in T
        BY <4>1, <4>3
      <4>6. MayHide(i, all, bl, raw, txt)
        BY <4>1, <4>4, <4>5, <3>3, <2>4, <1>4, StripHides
      <4> QED BY <4>6, <3>0
    <3> QED BY <3>2, <3>3, <1>3, <1>4
  <2>12. Kept(Told, Passed, Held, cut)' /\ EchoHidden'
    <3>1. Below(Passed \cup X, Held')
      BY <2>6, <1>6
    <3> QED BY <3>1, <1>1, <1>8, <2>1, <2>6, <2>7, <2>8, <2>9, <2>10, <2>11, Advance
  <2>13. Buffered'
    <3>1. ToSet(echoBuf') = {} /\ Rising(echoBuf')
      BY RisingTo
    <3>2. Rising(oscPending') /\ Below(ToSet(oscPending'), ToSet(echoBuf'))
      BY <3>1, <2>4 DEF Below
    <3>3. Held' \subseteq Searched'
      BY <2>6, <1>6
    <3>4. cut' \ blind' \subseteq Passed'
      BY <2>1, <2>5, <2>6, <1>3, <1>4 DEF Buffered
    <3>5. \A i \in ToSet(oscPending') : sent'[i] # "bel"
      BY <2>4, <1>4 DEF host
    <3>6. Closed(Passed)'
      <4>1. PICK P : P = Passed \cup X
        OBVIOUS
      <4>2. Closed(P)'
        BY <4>1, <2>6 DEF Closed, host, Openers
      <4>3. P = Passed'
        BY <4>1, <2>6
      <4> QED BY <4>2, <4>3
    <3>7. \A k \in Raw' : \A e \in ToSet(echoBuf') : e <= k => k \in ToSet(echoBuf')
      BY <3>1
    <3> QED BY <3>1, <3>2, <3>3, <3>4, <3>5, <3>6, <3>7 DEF Buffered
  <2> QED BY <2>12, <2>13
<1> QED BY <1>9, <1>10 DEF StreamInv

(***************************************************************************)
(* The three ways of a read that is not the start of a transfer.           *)
(***************************************************************************)
LEMMA BufFacts ==
  ASSUME StreamTyped, NEW n \in 1..Len(Wire), NEW buf, buf = echoBuf \o Data(n)
  PROVE  /\ buf \in Seq(Nat) /\ ToSet(buf) = ToSet(echoBuf) \cup (read + 1)..(read + n)
         /\ ToSet(buf) \subseteq 1..(read + n)
         /\ Buffered => /\ Rising(buf) /\ Below(ToSet(oscPending), ToSet(buf))
                        /\ ToSet(buf) \subseteq (1..(read + n)) \ moved
                        /\ \A k \in (1..(read + n)) \ moved : \A e \in ToSet(buf) :
                             e <= k => k \in ToSet(buf)
<1>1. StreamTypeOK /\ Held \subseteq 1..read /\ echoBuf \in Seq(Nat) /\ moved \subseteq 1..read
  BY DEF StreamTyped, StreamTypeOK
<1>2. PICK d, W, E, O : /\ d = Data(n) /\ W = (read + 1)..(read + n) /\ E = ToSet(echoBuf)
                        /\ O = ToSet(oscPending)
  OBVIOUS
<1>3. d \in Seq(Nat) /\ Rising(d) /\ ToSet(d) = W /\ read \in Nat /\ n \in Nat
  BY <1>1, <1>2, DataFacts
<1>4. buf \in Seq(Nat) /\ ToSet(buf) = E \cup W
  BY <1>1, <1>2, <1>3, JoinSet
<1>5. E \subseteq 1..read /\ O \subseteq 1..read
  BY <1>1, <1>2 DEF Held
<1>6. \A x \in 1..read : \A y \in W : x < y /\ x # y /\ ~(y <= x)
  BY <1>2, <1>3
<1>7. 1..(read + n) = 1..read \cup W
  BY <1>2, <1>3
<1>8. ASSUME Buffered
      PROVE  /\ Rising(buf) /\ Below(ToSet(oscPending), ToSet(buf))
             /\ ToSet(buf) \subseteq (1..(read + n)) \ moved
             /\ \A k \in (1..(read + n)) \ moved : \A e \in ToSet(buf) :
                  e <= k => k \in ToSet(buf)
  <2>1. Rising(buf)
    <3>1. Below(E, W)
      BY <1>5, <1>6 DEF Below
    <3>2. Rising(echoBuf)
      BY <1>8 DEF Buffered
    <3> QED BY <3>1, <3>2, <1>1, <1>2, <1>3, RisingTo
  <2>2. Below(O, ToSet(buf))
    <3>1. Below(O, E)
      BY <1>2, <1>8 DEF Buffered
    <3> QED BY <3>1, <1>4, <1>5, <1>6 DEF Below
  <2>3. ToSet(buf) \subseteq (1..(read + n)) \ moved
    <3>1. E \cap moved = {}
      BY <1>2, <1>8 DEF Buffered, Held, Searched
    <3>2. W \cap moved = {}
      BY <1>1, <1>6
    <3> QED BY <3>1, <3>2, <1>4, <1>5, <1>7
  <2>4. ASSUME NEW k \in (1..(read + n)) \ moved, NEW e \in ToSet(buf), e <= k
        PROVE  k \in ToSet(buf)
    <3>1. CASE k \in W
      BY <3>1, <1>4
    <3>2. CASE k \in 1..read
      <4>1. e \notin W
        BY <3>2, <2>4, <1>6
      <4>2. e \in E /\ k \in Raw
        BY <4>1, <3>2, <1>4 DEF Raw
      <4> QED BY <4>2, <2>4, <1>2, <1>4, <1>8 DEF Buffered
    <3> QED BY <3>1, <3>2, <1>7
  <2> QED BY <2>1, <2>2, <2>3, <2>4, <1>2
<1>9. ToSet(buf) \subseteq 1..(read + n)
  BY <1>4, <1>5, <1>7
<1> QED BY <1>2, <1>4, <1>8, <1>9

LEMMA ReadPlainKeeps ==
  ASSUME StreamInv, NEW n \in 1..Len(Wire), ReadPlain(n)
  PROVE  StreamInv'
<1>1. StreamTyped /\ StreamTypeOK
  BY DEF StreamInv, StreamTyped
<1>2. ~suppress
  BY <1>1 DEF ReadPlain, Injects, StreamTyped
<1>3. echoBuf = <<>> /\ ToSet(echoBuf) = {}
  <2>1. echoBuf = <<>>
    BY <1>1, <1>2 DEF StreamTyped
  <2>2. ToSet(<<>>) = {}
    BY <1>1, RisingTo DEF StreamTypeOK
  <2> QED BY <2>1, <2>2
<1>4. PICK bytes : bytes = Data(n)
  OBVIOUS
<1>5. bytes \in Seq(Nat) /\ Rising(bytes) /\ ToSet(bytes) = (read + 1)..(read + n)
  BY <1>1, <1>4, DataFacts
<1>6. PICK before, hidden : before = <<>> /\ hidden = {}
  OBVIOUS
<1>7. before \in Seq(Report) /\ Cwd(before)
  <2>1. before \in Seq(Report) /\ DOMAIN before = {}
    BY <1>6
  <2> QED BY <2>1 DEF Cwd
<1>8. Scan(bytes, before, hidden)
  BY <1>4, <1>6 DEF ReadPlain
<1>9. /\ phase = "up" /\ read' = read + n
      /\ UNCHANGED <<host, integration, phase, cooling, pump, moved, dropped>> /\ echoBuf' = <<>>
  BY <1>3 DEF ReadPlain, Reads
<1>10. {injected', suppress', late'} \subseteq BOOLEAN /\ (suppress' => injected')
  <2>1. CASE Injects(n)
    BY <2>1 DEF ReadPlain
  <2>2. CASE ~Injects(n)
    BY <2>2, <1>1 DEF ReadPlain, StreamTyped, StreamTypeOK
  <2> QED BY <2>1, <2>2
<1>11. MayGo(hidden, read + n, blind \cup hidden, (1..(read + n)) \ moved)
  BY <1>6 DEF MayGo
<1>12. /\ hidden \subseteq ToSet(echoBuf) \cup (read + 1)..(read + n)
       /\ ToSet(bytes) \subseteq ToSet(echoBuf) \cup (read + 1)..(read + n)
       /\ ToSet(bytes) = (ToSet(echoBuf) \cup (read + 1)..(read + n)) \ hidden
  BY <1>3, <1>5, <1>6
<1> QED BY <1>5, <1>7, <1>8, <1>9, <1>10, <1>11, <1>12, ReadScan

(* More is buffered, and nothing passed on.                                *)
LEMMA ReadBuffers ==
  ASSUME StreamInv, phase = "up", suppress, NEW n \in 1..Len(Wire), read' = read + n,
         echoBuf' = echoBuf \o Data(n),
         UNCHANGED <<host, integration, phase, injected, suppress, late, oscPending, cooling,
                     events, pump, history>>
  PROVE  StreamInv'
<1>1. StreamTyped /\ StreamTypeOK /\ dropped = {}
  BY DEF StreamInv, StreamTyped
<1>2. PICK buf, W : buf = echoBuf \o Data(n) /\ W = (read + 1)..(read + n)
  OBVIOUS
<1>3. /\ buf \in Seq(Nat) /\ ToSet(buf) = ToSet(echoBuf) \cup W
      /\ ToSet(buf) \subseteq 1..(read + n)
      /\ Buffered => /\ Rising(buf) /\ Below(ToSet(oscPending), ToSet(buf))
                     /\ ToSet(buf) \subseteq (1..(read + n)) \ moved
                     /\ \A k \in (1..(read + n)) \ moved : \A e \in ToSet(buf) :
                          e <= k => k \in ToSet(buf)
  BY <1>1, <1>2, BufFacts
<1>4. /\ sent' = sent /\ cut' = cut /\ blind' = blind /\ moved' = moved /\ dropped' = dropped
      /\ astray' = astray /\ events' = events /\ oscPending' = oscPending /\ echoBuf' = buf
      /\ phase' = phase /\ injected' = injected /\ suppress' = suppress
      /\ answered' = answered /\ deferred' = deferred /\ applied' = applied
      /\ Told' = Told /\ read' = read + n
  BY <1>2 DEF host, pump, history, Told, Queue
<1>5. /\ read \in Nat /\ n \in Nat /\ read + n <= Len(sent) /\ Len(sent) \in Nat
      /\ 1..(read + n) = 1..read \cup W
  <2>1. read \in Nat /\ n \in Nat /\ read + n <= Len(sent) /\ Len(sent) \in Nat
    BY <1>1, DataFacts
  <2> QED BY <2>1, <1>2
<1>6. StreamTypeOK'
  <2>1. read' \in 0..Len(sent')
    BY <1>4, <1>5
  <2>2. cut' \subseteq 1..read' /\ moved' \subseteq 1..read' /\ dropped' \subseteq 1..read'
    BY <1>1, <1>4, <1>5 DEF StreamTypeOK
  <2> QED BY <1>1, <1>3, <1>4, <2>1, <2>2 DEF StreamTypeOK
<1>7. Held' = Held \cup W /\ Held \subseteq 1..read
  BY <1>1, <1>3, <1>4 DEF Held, StreamTyped
<1>8. StreamTyped'
  <2>1. Held' \subseteq 1..read'
    BY <1>4, <1>5, <1>7
  <2>2. suppress' /\ injected' /\ dropped' = {}
    BY <1>1, <1>4 DEF StreamTyped
  <2> QED BY <2>1, <2>2, <1>6 DEF StreamTyped
<1>9. ASSUME ~astray'
      PROVE  Buffered' /\ Kept(Told, Passed, Held, cut)' /\ EchoHidden'
  <2>1. Buffered /\ Kept(Told, Passed, Held, cut) /\ EchoHidden /\ Closed(Passed)
    BY <1>4, <1>9 DEF StreamInv, Buffered
  <2>2. /\ Searched = Passed \cup Held /\ Passed \cap Held = {} /\ Passed \in SUBSET Nat
        /\ Passed \subseteq 1..read
        /\ \A Y \in SUBSET (Held \cup W) : Below(Passed, Y) /\ Passed \cap Y = {}
    <3>1. PICK log, hid : log = Told /\ hid = cut
      OBVIOUS
    <3>2. Kept(log, Passed, Held, hid) /\ Held \subseteq Searched
      BY <3>1, <2>1 DEF Buffered
    <3> QED BY <3>2, <1>1, <1>2, <1>5, <1>7, HeldFacts
  <2>3. W \cap (blind \cup moved \cup dropped) = {}
    <3>1. \A x \in 1..read : x \notin W
      BY <1>2, <1>5
    <3> QED BY <3>1, <1>1 DEF StreamTypeOK
  <2>4. Searched' = Searched \cup W
    BY <2>3, <1>4, <1>5 DEF Searched
  <2>5. Passed' = Passed
    <3>1. Passed \cap (Held \cup W) = {}
      BY <2>2
    <3> QED BY <3>1, <2>2, <2>4, <1>7 DEF Passed
  <2>6. Grows
    BY <1>4, <1>5 DEF Grows
  <2>7. PICK X, N : X = {} /\ N = <<>>
    OBVIOUS
  <2>8. N \in Seq(Report) /\ Passes(N, X, cut')
    BY <2>7, SaysNothing
  <2>9. Told \in Seq(Report) /\ Told' = Told \o N
    <3>1. Told \in Seq(Report)
      BY <1>1, ToldGrows
    <3> QED BY <3>1, <2>7, <1>4
  <2>10. /\ X \in SUBSET Nat /\ Passed' = Passed \cup X /\ Below(Passed, X)
         /\ Below(Passed \cup X, Held')
    BY <2>2, <2>5, <2>7, <1>7 DEF Below
  <2>11. \A i \in cut' \ cut : MayHide(i, 1..read', blind', Raw', Searched' \ Cmds(Passed \cup X))
    BY <1>4
  <2>12. Kept(Told, Passed, Held, cut)' /\ EchoHidden'
    BY <1>1, <1>6, <2>1, <2>2, <2>6, <2>8, <2>9, <2>10, <2>11, Advance
  <2>13. Buffered'
    <3>1. Rising(oscPending)' /\ Rising(echoBuf)' /\ Below(ToSet(oscPending), ToSet(echoBuf))'
      BY <2>1, <1>3, <1>4 DEF Buffered, Rising, Below, ToSet
    <3>2. Held' \subseteq Searched' /\ cut' \ blind' \subseteq Passed'
      BY <2>1, <2>4, <2>5, <1>4, <1>7 DEF Buffered
    <3>3. \A i \in ToSet(oscPending') : sent'[i] # "bel"
      BY <2>1, <1>4 DEF Buffered
    <3>4. Closed(Passed)'
      <4>1. PICK P : P = Passed
        OBVIOUS
      <4>2. Closed(P)'
        BY <4>1, <2>1, <1>4 DEF Closed, Openers
      <4>3. P = Passed'
        BY <4>1, <2>5
      <4> QED BY <4>2, <4>3
    <3>5. \A k \in Raw' : \A e \in ToSet(echoBuf') : e <= k => k \in ToSet(echoBuf')
      <4>1. Raw' = (1..(read + n)) \ moved
        BY <1>4 DEF Raw
      <4> QED BY <4>1, <2>1, <1>3, <1>4
    <3> QED BY <3>1, <3>2, <3>3, <3>4, <3>5 DEF Buffered
  <2> QED BY <2>12, <2>13
<1> QED BY <1>8, <1>9 DEF StreamInv

LEMMA ReadSuppressedKeeps ==
  ASSUME StreamInv, NEW n \in 1..Len(Wire), ReadSuppressed(n)
  PROVE  StreamInv'
<1>1. StreamTyped /\ StreamTypeOK
  BY DEF StreamInv, StreamTyped
<1>2. PICK buf, shown, before, hidden :
        /\ buf = echoBuf \o Data(n) /\ shown = strip_prompt_setup_echo(buf)
        /\ before = <<>> /\ hidden = ToSet(buf) \ ToSet(shown)
  OBVIOUS
<1>3. /\ phase = "up" /\ suppress /\ read' = read + n
      /\ UNCHANGED <<host, integration, phase, injected, cooling, pump, moved, dropped>>
      /\ IF Len(buf) >= EchoCap \/ late
         THEN StopSuppressing /\ Scan(shown, before, hidden)
         ELSE /\ echoBuf' = buf
              /\ UNCHANGED <<suppress, late, oscPending, events, cut, blind, astray>>
  BY <1>2 DEF ReadSuppressed, Reads
<1>4. CASE Len(buf) >= EchoCap \/ late
  <2>1. StopSuppressing /\ Scan(shown, before, hidden)
    BY <1>3, <1>4
  <2>2. /\ buf \in Seq(Nat) /\ ToSet(buf) = ToSet(echoBuf) \cup (read + 1)..(read + n)
        /\ ToSet(buf) \subseteq 1..(read + n)
        /\ Buffered => /\ Rising(buf)
                       /\ ToSet(buf) \subseteq (1..(read + n)) \ moved
                       /\ \A k \in (1..(read + n)) \ moved : \A e \in ToSet(buf) :
                            e <= k => k \in ToSet(buf)
    BY <1>1, <1>2, BufFacts
  <2>3. shown \in Seq(Nat) /\ (Rising(buf) => Rising(shown)) /\ ToSet(shown) \subseteq ToSet(buf)
    BY <2>2, <1>2, StripKeeps
  <2>4. before \in Seq(Report) /\ Cwd(before)
    <3>1. before \in Seq(Report) /\ DOMAIN before = {}
      BY <1>2
    <3> QED BY <3>1 DEF Cwd
  <2>5. echoBuf' = <<>> /\ {injected', suppress', late'} \subseteq BOOLEAN /\ (suppress' => injected')
    BY <2>1, <1>1, <1>3 DEF StopSuppressing, StreamTyped, StreamTypeOK
  <2>6. /\ hidden \subseteq ToSet(echoBuf) \cup (read + 1)..(read + n)
        /\ ToSet(shown) \subseteq ToSet(echoBuf) \cup (read + 1)..(read + n)
        /\ ToSet(shown) = (ToSet(echoBuf) \cup (read + 1)..(read + n)) \ hidden
    BY <2>2, <2>3, <1>2
  <2>7. ASSUME ~astray
        PROVE  Rising(shown) /\ MayGo(hidden, read + n, blind \cup hidden, (1..(read + n)) \ moved)
    <3>1. Buffered
      BY <2>7 DEF StreamInv
    <3>2. Rising(buf) /\ Rising(shown)
      BY <3>1, <2>2, <2>3
    <3>3. PICK all, bl, raw, txt : /\ all = 1..(read + n) /\ bl = blind \cup hidden
                                   /\ raw = all \ moved /\ txt = {}
      OBVIOUS
    <3>4. raw \in SUBSET Nat /\ txt \in SUBSET Nat /\ ToSet(buf) \subseteq all
      BY <3>3, <2>2
    <3>5. \A k \in raw : \A x, y \in ToSet(buf) : x <= k /\ k <= y => k \in ToSet(buf)
      BY <3>1, <3>3, <2>2
    <3>6. ASSUME NEW i \in hidden PROVE MayHide(i, all, bl, raw, txt)
      <4>1. i \in ToSet(buf) /\ i \notin ToSet(strip_prompt_setup_echo(buf)) /\ i \in bl
        BY <1>2, <3>3
      <4>2. \A k \in (IF i \in bl THEN raw ELSE txt) : \A x, y \in ToSet(buf) :
              x <= k /\ k <= y => k \in ToSet(buf)
        BY <4>1, <3>5
      <4> HIDE <3>3, <1>2
      <4> QED BY <4>1, <4>2, <3>2, <3>4, <2>2, StripHides
    <3> QED BY <3>2, <3>3, <3>6 DEF MayGo
  <2> HIDE <1>2
  <2> QED BY <2>1, <2>3, <2>4, <2>5, <2>6, <2>7, <1>3, ReadScan
<1>5. CASE ~(Len(buf) >= EchoCap \/ late)
  <2>1. /\ echoBuf' = echoBuf \o Data(n)
        /\ UNCHANGED <<host, integration, phase, injected, suppress, late, oscPending, cooling,
                       events, pump, history>>
    BY <1>2, <1>3, <1>5 DEF history
  <2> QED BY <2>1, <1>3, ReadBuffers
<1> QED BY <1>4, <1>5

(***************************************************************************)
(* The echo and its OSC 7 are in the buffer.                               *)
(***************************************************************************)
LEMMA LandedFacts ==
  ASSUME NEW b \in Seq(Nat), NEW l \in Landed(b)
  PROVE  /\ l[1] \in 1..Len(b) /\ sent[b[l[1]]] \in Hooks /\ l[2] \in (l[1] + 1)..Len(b)
         /\ \E o \in Cwds(SubSeq(b, l[1], l[2])) : TRUE
         /\ \A o \in Cwds(SubSeq(b, l[1], l[2])) : o[1] + l[1] - 1 \in 1..Len(b)
         /\ \A o \in Cwds(SubSeq(b, l[1], Len(b))) : l[2] <= o[2] + l[1] - 1
<1>1. Len(b) \in Nat /\ DOMAIN b = 1..Len(b)
  OBVIOUS
<1>2. PICK hooks, p : hooks = Where(b, Hooks) /\ p = Min(hooks)
  OBVIOUS
<1>3. PICK c, after : /\ c = SubSeq(b, p, Len(b)) /\ after = {o[2] + p - 1 : o \in Cwds(c)}
  OBVIOUS
<1>4. hooks # {} /\ after # {} /\ l = <<p, Min(after)>>
  BY <1>2, <1>3 DEF Landed
<1>5. PICK q : q = Min(after)
  OBVIOUS
<1>6. l[1] = p /\ l[2] = q
  BY <1>4, <1>5
<1>7. hooks \in SUBSET (1..Len(b)) /\ \A i \in hooks : sent[b[i]] \in Hooks
  BY <1>1, <1>2 DEF Where, Is
<1>8. p \in hooks /\ p \in 1..Len(b)
  BY <1>1, <1>2, <1>4, <1>7, MinIsFirst
<1>9. /\ c \in Seq(Nat) /\ Len(c) = Len(b) - p + 1 /\ DOMAIN c = 1..(Len(b) - p + 1)
      /\ \A i \in 1..(Len(b) - p + 1) : p + i - 1 \in 1..Len(b) /\ c[i] = b[p + i - 1]
  <2>1. p \in Nat \ {0} /\ Len(b) \in Nat /\ Len(b) <= Len(b) /\ p <= Len(b) + 1
    BY <1>1, <1>8
  <2> QED BY <2>1, <1>3, SubFacts
<1>10. \A o \in Cwds(c) : o[1] \in DOMAIN c /\ o[2] \in DOMAIN c /\ o[1] < o[2]
  BY DEF Cwds, Oscs, Where
<1>11. \A o \in Cwds(c) : o[2] + p - 1 \in (p + 1)..Len(b)
  <2> SUFFICES ASSUME NEW o \in Cwds(c) PROVE o[2] + p - 1 \in (p + 1)..Len(b)
    OBVIOUS
  <2>1. PICK x, y : x = o[1] /\ y = o[2]
    OBVIOUS
  <2>2. x \in 1..(Len(b) - p + 1) /\ y \in 1..(Len(b) - p + 1) /\ x < y
    BY <2>1, <1>9, <1>10
  <2>3. y + p - 1 \in (p + 1)..Len(b)
    BY <2>2, <1>1, <1>8
  <2> QED BY <2>1, <2>3
<1>12. after \in SUBSET (1..Len(b)) /\ \A x \in after : x \in (p + 1)..Len(b)
  <2>1. \A x \in after : x \in (p + 1)..Len(b)
    BY <1>3, <1>11
  <2> QED BY <2>1, <1>1, <1>8
<1>13. q \in after /\ \A x \in after : q <= x
  BY <1>1, <1>4, <1>5, <1>12, MinIsFirst
<1>14. PICK o \in Cwds(c) : q = o[2] + p - 1
  BY <1>3, <1>13
<1>15. q \in (p + 1)..Len(b)
  BY <1>12, <1>13
<1>16. PICK d : d = SubSeq(b, p, q)
  OBVIOUS
<1>17. /\ DOMAIN d = 1..(q - p + 1) /\ Len(d) = q - p + 1
       /\ \A i \in 1..(q - p + 1) : p + i - 1 \in 1..Len(b) /\ d[i] = b[p + i - 1]
  <2>1. p \in Nat \ {0} /\ q \in Nat /\ q <= Len(b) /\ p <= q + 1
    BY <1>1, <1>8, <1>15
  <2>2. /\ DOMAIN SubSeq(b, p, q) = 1..(q - p + 1) /\ Len(SubSeq(b, p, q)) = q - p + 1
        /\ \A i \in 1..(q - p + 1) : p + i - 1 \in 1..Len(b) /\ SubSeq(b, p, q)[i] = b[p + i - 1]
    BY <2>1, SubFacts
  <2> QED BY <2>2, <1>16
<1>18. \A i \in 1..(q - p + 1) : i \in 1..(Len(b) - p + 1) /\ d[i] = c[i]
  <2> SUFFICES ASSUME NEW i \in 1..(q - p + 1)
               PROVE  i \in 1..(Len(b) - p + 1) /\ d[i] = c[i]
    OBVIOUS
  <2>1. i \in 1..(Len(b) - p + 1)
    BY <1>1, <1>8, <1>15
  <2> QED BY <2>1, <1>9, <1>17
<1>19. o \in Cwds(d)
  <2>1. PICK x, y : x = o[1] /\ y = o[2]
    OBVIOUS
  <2>2. /\ o = <<x, y>> /\ x \in DOMAIN c /\ y \in DOMAIN c /\ x < y
        /\ sent[c[x]] \in Openers /\ sent[c[y]] = "bel" /\ sent[c[x]] = "cwd"
        /\ \A k \in x..(y - 1) : sent[c[k]] # "bel"
        /\ \A h \in 1..(x - 1) : sent[c[h]] \in Openers =>
             \E k \in h..x : sent[c[k]] = "bel"
    BY <2>1, <1>14 DEF Cwds, Oscs, Where, Is, Some
  <2>3. y = q - p + 1
    <3>1. q = y + p - 1
      BY <2>1, <1>14
    <3>2. y \in Nat /\ p \in Nat
      BY <2>2, <1>8, <1>9
    <3> QED BY <3>1, <3>2
  <2>4. x \in DOMAIN d /\ y \in DOMAIN d /\ \A k \in 1..y : d[k] = c[k]
    <3>1. PICK m, z : m = q - p + 1 /\ z = Len(b) - p + 1
      OBVIOUS
    <3>2. m \in Int /\ z \in Int /\ x \in 1..z /\ y = m /\ DOMAIN d = 1..m
      BY <3>1, <2>2, <2>3, <1>1, <1>8, <1>9, <1>15, <1>17
    <3>3. x \in 1..m /\ y \in 1..m
      BY <3>2, <2>2
    <3> QED BY <3>1, <3>2, <3>3, <1>18
  <2>5. x \in Nat /\ y \in Nat /\ 1 <= x
    <3>1. PICK z : z = Len(b) - p + 1
      OBVIOUS
    <3>2. z \in Int /\ x \in 1..z /\ y \in 1..z
      BY <3>1, <2>2, <1>1, <1>8, <1>9
    <3> QED BY <3>2
  <2>6. \A k \in x..(y - 1) : sent[d[k]] # "bel"
    <3>1. \A k \in x..(y - 1) : k \in 1..y
      BY <2>5
    <3> QED BY <3>1, <2>2, <2>4
  <2>7. ASSUME NEW h \in 1..(x - 1), sent[d[h]] \in Openers
        PROVE  \E k \in h..x : sent[d[k]] = "bel"
    <3>1. h \in 1..y
      BY <2>2, <2>5
    <3>2. PICK k \in h..x : sent[c[k]] = "bel"
      BY <3>1, <2>2, <2>4, <2>7
    <3>3. k \in 1..y
      BY <2>2, <2>5
    <3> QED BY <3>2, <3>3, <2>4
  <2>8. sent[d[x]] = "cwd" /\ sent[d[y]] = "bel"
    <3>1. x \in 1..y /\ y \in 1..y
      BY <2>2, <2>5
    <3> QED BY <3>1, <2>2, <2>4
  <2> QED BY <2>1, <2>2, <2>4, <2>6, <2>7, <2>8 DEF Cwds, Oscs, Where, Is, Some, Openers
<1>20. \A e \in Cwds(d) : e[1] + p - 1 \in 1..Len(b)
  <2> SUFFICES ASSUME NEW e \in Cwds(d) PROVE e[1] + p - 1 \in 1..Len(b)
    OBVIOUS
  <2>1. PICK x : x = e[1]
    OBVIOUS
  <2>2. x \in DOMAIN d
    BY <2>1 DEF Cwds, Oscs, Where
  <2>3. x + p - 1 = p + x - 1 /\ x \in 1..(q - p + 1)
    BY <2>2, <1>8, <1>17
  <2> QED BY <2>1, <2>3, <1>17
<1>21. \A e \in Cwds(c) : q <= e[2] + p - 1
  BY <1>3, <1>13
<1> QED BY <1>3, <1>6, <1>7, <1>8, <1>15, <1>16, <1>19, <1>20, <1>21

(* The strings of a set that is that of a buffer, at its places.           *)
LEMMA StringsHavePlaces ==
  ASSUME NEW b \in Seq(Nat), Rising(b), NEW kind \in Openers, NEW o \in StringsOf(ToSet(b), kind)
  PROVE  \E p, q \in DOMAIN b : o = <<b[p], b[q]>> /\ <<p, q>> \in StringsAt(b, kind)
<1>1. o[1] \in ToSet(b) /\ o[2] \in ToSet(b) /\ o = <<o[1], o[2]>>
  BY StringEnds
<1>2. PICK p \in DOMAIN b : o[1] = b[p]
  BY <1>1 DEF ToSet
<1>3. PICK q \in DOMAIN b : o[2] = b[q]
  BY <1>1 DEF ToSet
<1>4. o = <<b[p], b[q]>>
  BY <1>1, <1>2, <1>3
<1>5. <<p, q>> \in StringsAt(b, kind)
  BY <1>4, StringsAgree
<1> QED BY <1>4, <1>5

(* What is hidden then is on the line of the hook, or not past the end of  *)
(* the first OSC 7 behind it.                                              *)
LEMMA SpanMayGo ==
  ASSUME NEW b \in Seq(Nat), Rising(b), NEW l \in Landed(b), NEW k \in LineStart(b, l[1])..l[2],
         NEW all, ToSet(b) \subseteq all, NEW bl, b[k] \in bl,
         NEW raw \in SUBSET Nat, ToSet(b) \subseteq raw,
         \A x \in raw : \A e \in ToSet(b) : e <= x => x \in ToSet(b)
  PROVE  MayHide(b[k], all, bl, raw, {})
<1>1. PICK p, q : p = l[1] /\ q = l[2]
  OBVIOUS
<1>2. /\ p \in 1..Len(b) /\ sent[b[p]] \in Hooks /\ q \in (p + 1)..Len(b)
      /\ \A o \in Cwds(SubSeq(b, p, Len(b))) : q <= o[2] + p - 1
  BY <1>1, LandedFacts
<1>3. LineStart(b, p) \in 1..p /\ \A i \in LineStart(b, p)..(p - 1) : ~Is(b, i, {"nl"})
  BY <1>2, LineStarts
<1>4. k \in LineStart(b, p)..q /\ k \in 1..Len(b) /\ Len(b) \in Nat /\ DOMAIN b = 1..Len(b)
      /\ k \in Nat /\ p \in Nat /\ q \in Nat
  <2>1. Len(b) \in Nat /\ DOMAIN b = 1..Len(b)
    OBVIOUS
  <2>2. k \in LineStart(b, p)..q /\ p \in Nat /\ q \in Nat /\ q <= Len(b)
    BY <2>1, <1>1, <1>2
  <2>3. k \in 1..Len(b)
    BY <2>1, <2>2, <1>3
  <2> QED BY <2>1, <2>2, <2>3
<1>5. PICK h, i : h = b[p] /\ i = b[k]
  OBVIOUS
<1>6. h \in ToSet(b) /\ i \in ToSet(b) /\ h \in Nat /\ i \in Nat /\ h \in all /\ i \in bl
      /\ sent[h] \in Hooks
  BY <1>2, <1>4, <1>5 DEF ToSet
<1>7. CASE k <= p
  <2>1. i <= h
    BY <1>2, <1>4, <1>5, <1>7, PlacesAgree
  <2>2. ASSUME NEW x \in raw, sent[x] = "nl", (i <= x /\ x < h) \/ (h < x /\ x < i)
        PROVE  FALSE
    <3>1. i <= x /\ x < h /\ x \in Nat
      BY <2>1, <2>2, <1>6
    <3>2. x \in ToSet(b)
      BY <3>1, <1>6
    <3>3. PICK r \in DOMAIN b : x = b[r]
      BY <3>2 DEF ToSet
    <3>4. k <= r /\ r < p
      <4>1. (b[k] <= b[r] <=> k <= r) /\ (b[r] < b[p] <=> r < p)
        BY <1>2, <1>4, PlacesAgree
      <4> QED BY <4>1, <3>1, <3>3, <1>5
    <3>5. r \in LineStart(b, p)..(p - 1)
      BY <3>4, <1>3, <1>4
    <3> QED BY <3>3, <3>5, <2>2, <1>3 DEF Is
  <2>3. sent[h] \in Markers
    BY <1>6 DEF Markers
  <2> QED BY <2>2, <2>3, <1>5, <1>6 DEF MayHide
<1>8. CASE p < k
  <2>1. h < i
    BY <1>2, <1>4, <1>5, <1>8, PlacesAgree
  <2>2. PICK c : c = SubSeq(b, p, Len(b))
    OBVIOUS
  <2>a. p \in Nat \ {0} /\ Len(b) <= Len(b) /\ p <= Len(b) + 1
    BY <1>2, <1>4
  <2>3. /\ c \in Seq(Nat) /\ Rising(c) /\ ToSet(c) = {b[j] : j \in p..Len(b)}
    BY <2>2, <2>a, <1>4, SubRises
  <2>4. /\ DOMAIN c = 1..(Len(b) - p + 1)
        /\ \A j \in 1..(Len(b) - p + 1) : p + j - 1 \in 1..Len(b) /\ c[j] = b[p + j - 1]
    BY <2>2, <2>a, <1>4, SubFacts
  <2>5. {x \in raw : h <= x} = ToSet(c)
    <3>1. ASSUME NEW x \in raw, h <= x PROVE x \in ToSet(c)
      <4>1. x \in ToSet(b)
        BY <3>1, <1>6
      <4>2. PICK r \in DOMAIN b : x = b[r]
        BY <4>1 DEF ToSet
      <4>3. p <= r
        <5>1. b[p] <= b[r] <=> p <= r
          BY <1>2, <1>4, PlacesAgree
        <5> QED BY <5>1, <4>2, <3>1, <1>5
      <4>4. r \in p..Len(b)
        BY <4>3, <1>4
      <4> QED BY <4>2, <4>4, <2>3
    <3>2. ASSUME NEW x \in ToSet(c) PROVE x \in raw /\ h <= x
      <4>1. PICK r \in p..Len(b) : x = b[r]
        BY <2>3
      <4>2. r \in DOMAIN b /\ p <= r
        BY <1>2, <1>4
      <4>3. x \in ToSet(b)
        BY <4>1, <4>2 DEF ToSet
      <4>4. h <= x
        <5>1. b[p] <= b[r] <=> p <= r
          BY <4>2, <1>2, <1>4, PlacesAgree
        <5> QED BY <5>1, <4>1, <4>2, <1>5
      <4> QED BY <4>3, <4>4
    <3> QED BY <3>1, <3>2
  <2>6. ASSUME NEW o \in StringsOf({x \in raw : h <= x}, "cwd")
        PROVE  i <= o[2]
    <3>0. "cwd" \in Openers
      BY DEF Openers
    <3>1. PICK kind : kind = "cwd"
      OBVIOUS
    <3>2. o \in StringsOf(ToSet(c), kind)
      BY <3>1, <2>5
    <3>3. \E x, y \in DOMAIN c : o = <<c[x], c[y]>> /\ <<x, y>> \in StringsAt(c, kind)
      <4>1. kind \in Openers
        BY <3>0, <3>1
      <4> HIDE <3>1
      <4> QED BY <4>1, <3>2, <2>3, StringsHavePlaces
    <3>4. PICK x \in DOMAIN c, y \in DOMAIN c : o = <<c[x], c[y]>> /\ <<x, y>> \in StringsAt(c, kind)
      BY <3>3
    <3>5. <<x, y>> \in Cwds(c)
      BY <3>1, <3>4 DEF StringsAt, Cwds
    <3>6. q <= y + p - 1
      <4>1. PICK e : e = <<x, y>>
        OBVIOUS
      <4>2. e \in Cwds(SubSeq(b, p, Len(b))) /\ e[2] = y
        BY <4>1, <3>5, <2>2
      <4> QED BY <4>2, <1>2
    <3>7. o[2] = c[y] /\ c[y] = b[p + y - 1] /\ p + y - 1 \in 1..Len(b) /\ y \in Nat
      <4>1. o[2] = c[y]
        BY <3>4
      <4>2. c[y] = b[p + y - 1] /\ p + y - 1 \in 1..Len(b) /\ y \in Nat
        BY <2>4
      <4> QED BY <4>1, <4>2
    <3>8. k <= p + y - 1
      <4>1. k \in Nat /\ q \in Nat /\ p \in Nat /\ y \in Nat /\ k <= q
        BY <3>7, <1>4
      <4> QED BY <4>1, <3>6
    <3>9. PICK z : z = p + y - 1
      OBVIOUS
    <3>10. b[k] <= b[z]
      <4>1. z \in DOMAIN b /\ k \in DOMAIN b /\ k <= z
        BY <3>7, <3>8, <3>9, <1>4
      <4> QED BY <4>1, PlacesAgree
    <3> QED BY <3>7, <3>9, <3>10, <1>5
  <2> QED BY <2>1, <2>6, <1>5, <1>6 DEF MayHide
<1> QED BY <1>4, <1>7, <1>8

LEMMA ReadLandedKeeps ==
  ASSUME StreamInv, NEW n \in 1..Len(Wire), ReadLanded(n)
  PROVE  StreamInv'
<1>1. StreamTyped /\ StreamTypeOK
  BY DEF StreamInv, StreamTyped
<1>2. PICK buf : buf = echoBuf \o Data(n)
  OBVIOUS
<1>3. PICK l \in Landed(buf) :
        Scan(Drain(buf, CutFrom(buf, l[1]), l[2]),
             <<[type |-> "CwdChanged",
                data |-> <<buf[(CHOOSE o \in Cwds(SubSeq(buf, l[1], l[2])) : TRUE)[1] + l[1] - 1]>>]>>,
             {buf[k] : k \in CutFrom(buf, l[1])..l[2]})
  BY <1>2 DEF ReadLanded
<1>4. PICK first, cwd : /\ first = LineStart(buf, l[1])
                        /\ cwd = CHOOSE o \in Cwds(SubSeq(buf, l[1], l[2])) : TRUE
  OBVIOUS
<1>5. PICK bytes, before, hidden :
        /\ bytes = Drain(buf, first, l[2])
        /\ before = <<[type |-> "CwdChanged", data |-> <<buf[cwd[1] + l[1] - 1]>>]>>
        /\ hidden = {buf[k] : k \in first..l[2]}
  OBVIOUS
<1>6. Scan(bytes, before, hidden)
  BY <1>3, <1>4, <1>5 DEF CutFrom
<1>7. /\ phase = "up" /\ suppress /\ read' = read + n /\ StopSuppressing
      /\ UNCHANGED <<host, integration, phase, injected, cooling, pump, moved, dropped>>
  BY DEF ReadLanded, Reads
<1>8. /\ buf \in Seq(Nat) /\ ToSet(buf) = ToSet(echoBuf) \cup (read + 1)..(read + n)
      /\ ToSet(buf) \subseteq 1..(read + n)
      /\ Buffered => /\ Rising(buf)
                     /\ ToSet(buf) \subseteq (1..(read + n)) \ moved
                     /\ \A k \in (1..(read + n)) \ moved : \A e \in ToSet(buf) :
                          e <= k => k \in ToSet(buf)
  BY <1>1, <1>2, BufFacts
<1>9. /\ l[1] \in 1..Len(buf) /\ l[2] \in (l[1] + 1)..Len(buf)
      /\ cwd[1] + l[1] - 1 \in 1..Len(buf) /\ first \in 1..l[1]
  <2>1. /\ l[1] \in 1..Len(buf) /\ l[2] \in (l[1] + 1)..Len(buf)
        /\ \E o \in Cwds(SubSeq(buf, l[1], l[2])) : TRUE
        /\ \A o \in Cwds(SubSeq(buf, l[1], l[2])) : o[1] + l[1] - 1 \in 1..Len(buf)
    BY <1>8, LandedFacts
  <2>2. cwd \in Cwds(SubSeq(buf, l[1], l[2]))
    BY <2>1, <1>4
  <2>3. first \in 1..l[1]
    BY <2>1, <1>4, <1>8, LineStarts
  <2> QED BY <2>1, <2>2, <2>3
<1>10. /\ first \in Nat \ {0} /\ l[2] \in Nat /\ l[2] <= Len(buf) /\ first <= l[2] + 1
       /\ Len(buf) \in Nat /\ DOMAIN buf = 1..Len(buf)
  <2>1. Len(buf) \in Nat /\ DOMAIN buf = 1..Len(buf)
    BY <1>8
  <2>2. PICK x, y, f : x = l[1] /\ y = l[2] /\ f = first
    OBVIOUS
  <2>3. x \in 1..Len(buf) /\ y \in (x + 1)..Len(buf) /\ f \in 1..x
    BY <2>2, <1>9
  <2>4. f \in Nat \ {0} /\ y \in Nat /\ y <= Len(buf) /\ f <= y + 1
    <3> HIDE <2>2
    <3> QED BY <2>1, <2>3
  <2> QED BY <2>1, <2>2, <2>4
<1>11. /\ bytes \in Seq(Nat) /\ (Rising(buf) => Rising(bytes))
       /\ ToSet(bytes) = {buf[i] : i \in DOMAIN buf \ (first..l[2])}
  BY <1>5, <1>8, <1>10, DrainFacts
<1>12. before \in Seq(Report) /\ Cwd(before)
  <2>1. PICK r : r = [type |-> "CwdChanged", data |-> <<buf[cwd[1] + l[1] - 1]>>]
    OBVIOUS
  <2>2. buf[cwd[1] + l[1] - 1] \in Nat
    <3>1. PICK z : z = cwd[1] + l[1] - 1
      OBVIOUS
    <3>2. z \in 1..Len(buf)
      BY <3>1, <1>9
    <3>3. buf[z] \in Nat
      BY <3>2, <1>8
    <3> QED BY <3>1, <3>3
  <2>3. r \in Report /\ r.type = "CwdChanged"
    BY <2>1, <2>2 DEF Report
  <2>4. before = <<r>>
    BY <2>1, <1>5
  <2> QED BY <2>3, <2>4 DEF Cwd
<1>13. echoBuf' = <<>> /\ {injected', suppress', late'} \subseteq BOOLEAN /\ (suppress' => injected')
  BY <1>1, <1>7 DEF StopSuppressing, StreamTyped, StreamTypeOK
<1>14. hidden \subseteq ToSet(buf)
  <2>1. \A k \in first..l[2] : k \in DOMAIN buf
    BY <1>10
  <2> QED BY <2>1, <1>5 DEF ToSet
<1>15. ASSUME Rising(buf) PROVE ToSet(bytes) = ToSet(buf) \ hidden
  <2>1. \A i, j \in DOMAIN buf : buf[i] = buf[j] => i = j
    BY <1>15, <1>8, PlacesAgree
  <2>2. \A k \in first..l[2] : k \in DOMAIN buf
    BY <1>10
  <2>3. PICK I : I = first..l[2]
    OBVIOUS
  <2>4. {buf[i] : i \in DOMAIN buf \ I} = {buf[i] : i \in DOMAIN buf} \ {buf[k] : k \in I}
    BY <2>1, <2>2, <2>3
  <2> QED BY <2>3, <2>4, <1>5, <1>11 DEF ToSet
<1>16. ToSet(bytes) \subseteq ToSet(buf)
  BY <1>11 DEF ToSet
<1>17. ASSUME ~astray
       PROVE  /\ Rising(bytes) /\ ToSet(bytes) = ToSet(buf) \ hidden
              /\ MayGo(hidden, read + n, blind \cup hidden, (1..(read + n)) \ moved)
  <2>1. Buffered
    BY <1>17 DEF StreamInv
  <2>2. /\ Rising(buf) /\ ToSet(buf) \subseteq (1..(read + n)) \ moved
        /\ \A k \in (1..(read + n)) \ moved : \A e \in ToSet(buf) :
             e <= k => k \in ToSet(buf)
    BY <2>1, <1>8
  <2>3. PICK all, bl, raw : /\ all = 1..(read + n) /\ bl = blind \cup hidden /\ raw = all \ moved
    OBVIOUS
  <2>4. raw \in SUBSET Nat /\ ToSet(buf) \subseteq all /\ ToSet(buf) \subseteq raw
    BY <2>2, <2>3, <1>8
  <2>5. \A x \in raw : \A e \in ToSet(buf) : e <= x => x \in ToSet(buf)
    BY <2>2, <2>3
  <2>6. ASSUME NEW i \in hidden PROVE MayHide(i, all, bl, raw, {})
    <3>1. PICK k \in LineStart(buf, l[1])..l[2] : i = buf[k]
      BY <1>4, <1>5
    <3>2. buf[k] \in bl
      BY <3>1, <2>3
    <3>3. MayHide(buf[k], all, bl, raw, {})
      <4> HIDE <2>3
      <4> QED BY <3>2, <2>2, <2>4, <2>5, <1>8, SpanMayGo
    <3> QED BY <3>1, <3>3
  <2>7. MayGo(hidden, read + n, bl, raw)
    BY <2>3, <2>6 DEF MayGo
  <2> QED BY <2>2, <2>3, <2>7, <1>11, <1>15
<1>18. /\ hidden \subseteq ToSet(echoBuf) \cup (read + 1)..(read + n)
       /\ ToSet(bytes) \subseteq ToSet(echoBuf) \cup (read + 1)..(read + n)
       /\ ~astray => /\ Rising(bytes)
                     /\ ToSet(bytes) = (ToSet(echoBuf) \cup (read + 1)..(read + n)) \ hidden
                     /\ MayGo(hidden, read + n, blind \cup hidden, (1..(read + n)) \ moved)
  BY <1>8, <1>14, <1>16, <1>17
<1> HIDE <1>5
<1> QED BY <1>6, <1>7, <1>11, <1>12, <1>13, <1>18, ReadScan

(***************************************************************************)
(* What goes past the search: no control string is in it, or the order of  *)
(* the stream is lost.                                                     *)
(***************************************************************************)
LEMMA OutputPasses ==
  ASSUME NEW b \in Seq(Nat), Rising(b), NEW hid, NEW X, X = ToSet(b),
         \/ \A i \in X : sent[i] # "bel"
         \/ \A i \in X : sent[i] \notin Openers
  PROVE  Output(b) \in Seq(Report) /\ Passes(Output(b), X, hid)
<1>1. PICK N : N = Output(b)
  OBVIOUS
<1>2. /\ N \in Seq(Report) /\ \A r \in DOMAIN N : N[r].type = "Output"
      /\ Ids(N, "Output") = X /\ InOrder(N, "Output")
  BY <1>1, OutputFacts
<1>3. Ids(N, "CommandRan") = {} /\ InOrder(N, "CommandRan")
  BY <1>2, NoneOfType
<1>4. StringsOf(X, "cmd") = {}
  BY NoStrings
<1>5. {o[1] : o \in StringsOf(X, "cmd")} = {}
  BY <1>4
<1> QED BY <1>1, <1>2, <1>3, <1>5 DEF Passes

LEMMA PassesBehind ==
  ASSUME NEW A \in Seq(Report), Cwd(A), NEW N \in Seq(Report), NEW X, NEW hid, Passes(N, X, hid)
  PROVE  A \o N \in Seq(Report) /\ Passes(A \o N, X, hid)
<1>1. PICK B : B = A \o N
  OBVIOUS
<1>2. Silent(A, "Output") /\ Silent(A, "CommandRan")
  BY NoneOfType DEF Silent, Cwd
<1>3. Ids(B, "Output") = Ids(N, "Output") /\ (InOrder(N, "Output") => InOrder(B, "Output"))
  BY <1>1, <1>2, SilentFirst
<1>4. /\ Ids(B, "CommandRan") = Ids(N, "CommandRan")
      /\ InOrder(N, "CommandRan") => InOrder(B, "CommandRan")
  BY <1>1, <1>2, SilentFirst
<1>5. Passes(B, X, hid)
  BY <1>3, <1>4 DEF Passes
<1> QED BY <1>1, <1>5

LEMMA TimerFiresKeeps ==
  ASSUME StreamInv, TimerFires
  PROVE  StreamInv'
<1>1. StreamTyped /\ StreamTypeOK /\ dropped = {} /\ phase = "up" /\ suppress
  BY DEF StreamInv, StreamTyped, TimerFires
<1>2. PICK shown, E, O, U, N : /\ shown = strip_prompt_setup_echo(echoBuf) /\ E = ToSet(echoBuf)
                               /\ O = ToSet(oscPending) /\ U = ToSet(shown) /\ N = Output(shown)
  OBVIOUS
<1>3. /\ suppress' = FALSE /\ late' = FALSE /\ echoBuf' = <<>>
      /\ events' = events \o N /\ cut' = cut \cup (E \ U) /\ blind' = blind \cup (E \ U)
      /\ astray' = (astray \/ oscPending # <<>> \/ \E i \in DOMAIN shown : Is(shown, i, Openers))
      /\ sent' = sent /\ answered' = answered /\ read' = read /\ integration' = integration
      /\ phase' = phase /\ injected' = injected /\ oscPending' = oscPending /\ cooling' = cooling
      /\ applied' = applied /\ deferred' = deferred /\ moved' = moved /\ dropped' = dropped
      /\ UNCHANGED pump
  BY <1>2 DEF TimerFires, StopSuppressing, host, pump
<1>4. echoBuf \in Seq(Nat) /\ read \in Nat /\ Held = E \cup O /\ Held \subseteq 1..read
  BY <1>1, <1>2 DEF StreamTypeOK, StreamTyped, Held
<1>5. shown \in Seq(Nat) /\ (Rising(echoBuf) => Rising(shown)) /\ U \subseteq E
  BY <1>2, <1>4, StripKeeps
<1>6. N \in Seq(Report)
  BY <1>2, <1>5, OutputFacts
<1>7. Told \in Seq(Report) /\ Told' = Told \o N /\ events' \in Seq(Report)
  BY <1>1, <1>3, <1>6, ToldGrows
<1>8. ToSet(<<>>) = {} /\ Rising(<<>>)
  BY <1>4, RisingTo
<1>9. Held' = O
  BY <1>2, <1>3, <1>8 DEF Held
<1>10. StreamTypeOK'
  <2>1. cut' \subseteq 1..read' /\ blind' \subseteq cut'
    BY <1>1, <1>3, <1>4 DEF StreamTypeOK
  <2>2. astray' \in BOOLEAN
    BY <1>1, <1>3 DEF StreamTypeOK
  <2>3. echoBuf' \in Seq(Nat) /\ oscPending' \in Seq(Nat)
    BY <1>1, <1>3 DEF StreamTypeOK
  <2>4. moved' \subseteq 1..read' /\ dropped' \subseteq 1..read' /\ read' \in 0..Len(sent')
    BY <1>1, <1>3 DEF StreamTypeOK
  <2> QED BY <1>1, <1>3, <1>7, <2>1, <2>2, <2>3, <2>4 DEF StreamTypeOK
<1>11. StreamTyped'
  BY <1>1, <1>3, <1>4, <1>9, <1>10 DEF StreamTyped
<1>12. ASSUME ~astray'
       PROVE  Buffered' /\ Kept(Told, Passed, Held, cut)' /\ EchoHidden'
  <2>1. Buffered /\ Kept(Told, Passed, Held, cut) /\ EchoHidden /\ Closed(Passed)
    BY <1>1, <1>3, <1>12 DEF StreamInv, Buffered
  <2>2. oscPending = <<>> /\ O = {} /\ \A i \in U : sent[i] \notin Openers
    <3>1. oscPending = <<>> /\ \A i \in DOMAIN shown : sent[shown[i]] \notin Openers
      BY <1>3, <1>12 DEF Is
    <3> QED BY <3>1, <1>2, <1>8 DEF ToSet
  <2>3. /\ Searched = Passed \cup Held /\ Passed \cap Held = {} /\ Passed \in SUBSET Nat
        /\ \A Y \in SUBSET (Held \cup (read + 1)..(read + 0)) : Below(Passed, Y) /\ Passed \cap Y = {}
    <3>1. PICK log, hid : log = Told /\ hid = cut
      OBVIOUS
    <3>2. Kept(log, Passed, Held, hid) /\ Held \subseteq Searched
      BY <3>1, <2>1 DEF Buffered
    <3> QED BY <3>2, <1>1, <1>4, HeldFacts
  <2>4. Held = E
    BY <2>2, <1>4
  <2>5. Searched' = Searched \ (E \ U)
    BY <1>3 DEF Searched
  <2>6. Passed' = Passed \cup U /\ Held' = {}
    BY <2>2, <2>3, <2>4, <2>5, <1>5, <1>9 DEF Passed
  <2>7. U \in SUBSET Nat /\ Below(Passed, U) /\ Below(Passed \cup U, Held')
    <3>1. U \subseteq Held \cup (read + 1)..(read + 0)
      BY <2>4, <1>5
    <3>2. U \in SUBSET Nat
      BY <3>1, <2>4, <1>4, <1>5
    <3> QED BY <3>1, <3>2, <2>3, <2>6 DEF Below
  <2>8. Rising(echoBuf) /\ Rising(shown)
    BY <2>1, <1>5 DEF Buffered
  <2>9. Passes(N, U, cut')
    BY <2>2, <2>8, <1>2, <1>5, OutputPasses
  <2>10. Grows
    <3>1. blind' \cap cut \subseteq blind
      <4>1. cut \ blind \subseteq Passed
        BY <2>1 DEF Buffered
      <4> QED BY <4>1, <2>3, <2>4, <1>3
    <3> QED BY <3>1, <1>3, <1>4 DEF Grows
  <2>11. ASSUME NEW i \in cut' \ cut
         PROVE  MayHide(i, 1..read', blind', Raw', Searched' \ Cmds(Passed \cup U))
    <3>1. PICK all, bl, raw, txt : /\ all = 1..read' /\ bl = blind' /\ raw = Raw' /\ txt = {}
      OBVIOUS
    <3>2. /\ all = 1..read /\ raw = Raw /\ raw \in SUBSET Nat /\ E \subseteq all
          /\ i \in E /\ i \notin U /\ i \in bl
      BY <3>1, <1>3, <1>4 DEF Raw
    <3>3. \A k \in (IF i \in bl THEN raw ELSE txt) : \A x, y \in E :
            x <= k /\ k <= y => k \in E
      BY <3>2, <2>1, <1>2 DEF Buffered
    <3>4. MayHide(i, all, bl, raw, txt)
      <4>1. txt \in SUBSET Nat
        BY <3>1
      <4> HIDE <3>1
      <4> QED BY <4>1, <3>2, <3>3, <2>8, <1>2, <1>4, StripHides
    <3> QED BY <3>1, <3>2, <3>4, HideUnsearched
  <2>12. Kept(Told, Passed, Held, cut)' /\ EchoHidden'
    BY <1>1, <1>6, <1>7, <1>10, <2>1, <2>3, <2>6, <2>7, <2>9, <2>10, <2>11, Advance
  <2>13. Buffered'
    <3>1. Rising(oscPending)' /\ Rising(echoBuf)' /\ Below(ToSet(oscPending), ToSet(echoBuf))'
      BY <2>2, <1>3, <1>8 DEF Rising, Below, ToSet
    <3>2. Held' \subseteq Searched' /\ cut' \ blind' \subseteq Passed'
      BY <2>1, <2>6, <1>3 DEF Buffered
    <3>3. \A i \in ToSet(oscPending') : sent'[i] # "bel"
      BY <2>2, <1>2, <1>3
    <3>4. Closed(Passed)'
      <4>1. PICK P : P = Passed \cup U
        OBVIOUS
      <4>2. Closed(P)'
        BY <4>1, <2>1, <2>2, <1>3 DEF Closed, Openers
      <4>3. P = Passed'
        BY <4>1, <2>6
      <4> QED BY <4>2, <4>3
    <3>5. \A k \in Raw' : \A e \in ToSet(echoBuf') : e <= k => k \in ToSet(echoBuf')
      BY <1>3, <1>8
    <3> QED BY <3>1, <3>2, <3>3, <3>4, <3>5 DEF Buffered
  <2> QED BY <2>12, <2>13
<1> QED BY <1>11, <1>12 DEF StreamInv

LEMMA LoopEndsKeeps ==
  ASSUME StreamInv, LoopEnds
  PROVE  StreamInv'
<1>1. StreamTyped /\ StreamTypeOK /\ dropped = {} /\ phase = "up"
  BY DEF StreamInv, StreamTyped, LoopEnds
<1>2. PICK E, O, N : /\ E = ToSet(echoBuf) /\ O = ToSet(oscPending) /\ N = Output(oscPending)
  OBVIOUS
<1>3. /\ phase' = "ended" /\ events' = events \o N /\ dropped' = E
      /\ oscPending' = <<>> /\ echoBuf' = <<>>
      /\ suppress' = FALSE /\ late' = FALSE /\ cooling' = FALSE
      /\ sent' = SubSeq(sent, 1, read)
      /\ answered' = answered /\ read' = read /\ integration' = integration /\ injected' = injected
      /\ applied' = applied /\ deferred' = deferred /\ cut' = cut /\ blind' = blind
      /\ moved' = moved /\ astray' = astray /\ UNCHANGED pump
  BY <1>2 DEF LoopEnds, pump
<1>4. /\ echoBuf \in Seq(Nat) /\ oscPending \in Seq(Nat) /\ read \in 0..Len(sent) /\ sent \in Seq(Kinds)
      /\ Held = E \cup O /\ Held \subseteq 1..read /\ Len(sent) \in Nat /\ read \in Nat
  BY <1>1, <1>2 DEF StreamTypeOK, StreamTyped, Held
<1>5. N \in Seq(Report)
  BY <1>2, <1>4, OutputFacts
<1>6. Told \in Seq(Report) /\ Told' = Told \o N /\ events' \in Seq(Report)
  BY <1>1, <1>3, <1>5, ToldGrows
<1>7. ToSet(<<>>) = {} /\ Rising(<<>>)
  BY <1>4, RisingTo
<1>8. Held' = {}
  BY <1>3, <1>7 DEF Held
<1>9. /\ sent' \in Seq(Kinds) /\ Len(sent') = read /\ \A i \in 1..read : sent'[i] = sent[i]
  <2>1. PICK c : c = SubSeq(sent, 1, read)
    OBVIOUS
  <2>2. 1 \in Nat \ {0} /\ read \in Nat /\ read <= Len(sent) /\ 1 <= read + 1
    BY <1>4
  <2>3. /\ c \in Seq(Kinds) /\ Len(c) = read - 1 + 1
        /\ \A i \in 1..(read - 1 + 1) : c[i] = sent[1 + i - 1]
    BY <2>1, <2>2, <1>4, SubFacts
  <2>4. read - 1 + 1 = read /\ \A i \in 1..read : 1 + i - 1 = i
    BY <1>4
  <2> QED BY <2>1, <2>3, <2>4, <1>3
<1>10. StreamTypeOK'
  <2>1. dropped' \subseteq 1..read'
    BY <1>3, <1>4
  <2>2. read' \in 0..Len(sent')
    BY <1>3, <1>4, <1>9
  <2>3. echoBuf' \in Seq(Nat) /\ oscPending' \in Seq(Nat)
    BY <1>3
  <2> QED BY <1>1, <1>3, <1>6, <1>9, <2>1, <2>2, <2>3 DEF StreamTypeOK
<1>11. StreamTyped'
  BY <1>1, <1>3, <1>8, <1>10 DEF StreamTyped
<1>12. ASSUME ~astray'
       PROVE  Buffered' /\ Kept(Told, Passed, Held, cut)' /\ EchoHidden'
  <2>1. Buffered /\ Kept(Told, Passed, Held, cut) /\ EchoHidden /\ Closed(Passed)
    BY <1>1, <1>3, <1>12 DEF StreamInv, Buffered
  <2>2. Rising(oscPending) /\ \A i \in O : sent[i] # "bel"
    BY <2>1, <1>2 DEF Buffered
  <2>3. /\ Searched = Passed \cup Held /\ Passed \cap Held = {} /\ Passed \in SUBSET Nat
        /\ \A Y \in SUBSET (Held \cup (read + 1)..(read + 0)) : Below(Passed, Y) /\ Passed \cap Y = {}
    <3>1. PICK log, hid : log = Told /\ hid = cut
      OBVIOUS
    <3>2. Kept(log, Passed, Held, hid) /\ Held \subseteq Searched
      BY <3>1, <2>1 DEF Buffered
    <3> QED BY <3>2, <1>1, <1>4, HeldFacts
  <2>4. O \cap E = {}
    <3>1. \A x \in O : \A y \in E : x < y
      BY <2>1, <1>2 DEF Buffered, Below
    <3>2. \A x \in O : x \in Nat
      BY <1>4
    <3> QED BY <3>1, <3>2
  <2>5. Searched' = Searched \ E
    BY <1>1, <1>3 DEF Searched
  <2>6. Passed' = Passed \cup O
    BY <2>3, <2>4, <2>5, <1>4, <1>8 DEF Passed
  <2>7. O \in SUBSET Nat /\ Below(Passed, O) /\ Below(Passed \cup O, Held')
    <3>1. O \subseteq Held \cup (read + 1)..(read + 0) /\ O \in SUBSET Nat
      BY <1>4
    <3> QED BY <3>1, <2>3, <1>8 DEF Below
  <2>8. Passes(N, O, cut')
    BY <2>2, <1>2, <1>4, OutputPasses
  <2>9. Grows
    BY <1>1, <1>3, <1>4, <1>9 DEF Grows
  <2>10. \A i \in cut' \ cut : MayHide(i, 1..read', blind', Raw', Searched' \ Cmds(Passed \cup O))
    BY <1>3
  <2>11. Kept(Told, Passed, Held, cut)' /\ EchoHidden'
    BY <1>1, <1>5, <1>6, <1>10, <2>1, <2>3, <2>6, <2>7, <2>8, <2>9, <2>10, Advance
  <2>12. Buffered'
    <3>1. Rising(oscPending)' /\ Rising(echoBuf)' /\ Below(ToSet(oscPending), ToSet(echoBuf))'
      BY <1>3, <1>7 DEF Rising, Below, ToSet
    <3>2. Held' \subseteq Searched' /\ cut' \ blind' \subseteq Passed'
      BY <2>1, <2>6, <1>3, <1>8 DEF Buffered
    <3>3. ToSet(oscPending') = {} /\ ToSet(echoBuf') = {}
      BY <1>3, <1>7
    <3>4. phase' # "up"
      BY <1>3
    <3> QED BY <3>1, <3>2, <3>3, <3>4 DEF Buffered
  <2> QED BY <2>11, <2>12
<1> QED BY <1>11, <1>12 DEF StreamInv

LEMMA ReceiveKeeps ==
  ASSUME StreamInv, NEW n \in 1..Len(Wire), Receive(n)
  PROVE  StreamInv'
<1>1. StreamTyped /\ StreamTypeOK /\ dropped = {} /\ phase = "up"
  BY DEF StreamInv, StreamTyped, Receive, Reads
<1>2. PICK k \in 0..(n - 1) :
        LET rest == SubSeq(Wire, k + 2, n)
            cwd  == Tell("CwdChanged", rest, {o \in Cwds(rest) : \A p \in Cwds(rest) : o[1] <= p[1]})
        IN /\ moved' = moved \cup {Wire[i] : i \in 1..(k + 1)}
           /\ events' = events \o cwd \o Output(rest)
           /\ astray' = (astray \/ (rest # <<>> /\ (oscPending # <<>> \/ echoBuf # <<>>))
                                \/ \E i \in DOMAIN rest : Is(rest, i, Openers))
  BY DEF Receive
<1>3. PICK rest, A, O, X, T : /\ rest = SubSeq(Wire, k + 2, n)
        /\ A = Tell("CwdChanged", rest, {o \in Cwds(rest) : \A p \in Cwds(rest) : o[1] <= p[1]})
        /\ O = Output(rest) /\ X = ToSet(rest) /\ T = {Wire[i] : i \in 1..(k + 1)}
  OBVIOUS
<1>4. /\ moved' = moved \cup T /\ events' = (events \o A) \o O
      /\ astray' = (astray \/ (rest # <<>> /\ (oscPending # <<>> \/ echoBuf # <<>>))
                           \/ \E i \in DOMAIN rest : Is(rest, i, Openers))
      /\ sent' = sent /\ answered' = answered /\ integration' = integration /\ phase' = phase
      /\ injected' = injected /\ suppress' = suppress /\ late' = late /\ echoBuf' = echoBuf
      /\ oscPending' = oscPending /\ applied' = applied /\ deferred' = deferred
      /\ cut' = cut /\ blind' = blind /\ dropped' = dropped /\ cooling' = TRUE /\ read' = read + n
      /\ UNCHANGED pump
  BY <1>2, <1>3 DEF Receive, Reads, host, holding, pump
<1>5. /\ read \in Nat /\ n \in Nat /\ read + n <= Len(sent) /\ Len(sent) \in Nat
      /\ Wire \in Seq(Nat) /\ \A i \in 1..Len(Wire) : Wire[i] = read + i
      /\ Len(Wire) = Len(sent) - read /\ k \in Nat /\ k + 1 <= n /\ Rising(Wire)
  <2>1. /\ read \in Nat /\ n \in Nat /\ read + n <= Len(sent) /\ Len(sent) \in Nat
        /\ Wire \in Seq(Nat) /\ \A i \in 1..Len(Wire) : Wire[i] = read + i
        /\ Len(Wire) = Len(sent) - read /\ Rising(Wire)
    BY <1>1, DataFacts
  <2>2. k \in Nat /\ k + 1 <= n
    BY <2>1
  <2> QED BY <2>1, <2>2
<1>6. T = (read + 1)..(read + k + 1)
  <2>1. \A i \in 1..(k + 1) : Wire[i] = read + i /\ read + i \in (read + 1)..(read + k + 1)
    BY <1>5
  <2>2. \A x \in (read + 1)..(read + k + 1) : x - read \in 1..(k + 1) /\ x = read + (x - read)
    BY <1>5
  <2>3. \A x \in (read + 1)..(read + k + 1) : \E i \in 1..(k + 1) : x = Wire[i]
    <3> SUFFICES ASSUME NEW x \in (read + 1)..(read + k + 1)
                 PROVE  \E i \in 1..(k + 1) : x = Wire[i]
      OBVIOUS
    <3>1. PICK i : i = x - read
      OBVIOUS
    <3>2. i \in 1..(k + 1) /\ x = read + i
      BY <3>1, <2>2
    <3> QED BY <3>2, <2>1
  <2>4. T \subseteq (read + 1)..(read + k + 1)
    BY <2>1, <1>3
  <2> HIDE <2>1
  <2> QED BY <2>3, <2>4, <1>3
<1>7. rest \in Seq(Nat) /\ Rising(rest) /\ X = (read + k + 2)..(read + n)
  <2>1. PICK p : p = k + 2
    OBVIOUS
  <2>2. p \in Nat \ {0} /\ n \in Nat /\ n <= Len(Wire) /\ p <= n + 1
    BY <2>1, <1>5
  <2>3. rest \in Seq(Nat) /\ Rising(rest) /\ X = {Wire[i] : i \in p..n}
    BY <2>1, <2>2, <1>3, <1>5, SubRises
  <2>4. \A i \in p..n : Wire[i] = read + i /\ read + i \in (read + k + 2)..(read + n)
    BY <2>1, <2>2, <1>5
  <2>5. \A x \in (read + k + 2)..(read + n) : x - read \in p..n /\ x = read + (x - read)
    BY <2>1, <1>5
  <2> QED BY <2>3, <2>4, <2>5
<1>8. /\ A \in Seq(Report) /\ Cwd(A) /\ O \in Seq(Report)
  <2>1. PICK C : C = {o \in Cwds(rest) : \A p \in Cwds(rest) : o[1] <= p[1]}
    OBVIOUS
  <2>2. C \in SUBSET Oscs(rest)
    BY <2>1 DEF Cwds
  <2>3. PICK type : type = "CwdChanged"
    OBVIOUS
  <2>4. Tell(type, rest, C) \in Seq(Report)
        /\ \A r \in DOMAIN Tell(type, rest, C) : Tell(type, rest, C)[r].type = type
    BY <2>2, <2>3, <1>7, TellFacts
  <2>5. O \in Seq(Report)
    BY <1>3, <1>7, OutputFacts
  <2> QED BY <2>1, <2>3, <2>4, <2>5, <1>3 DEF Cwd
<1>9. PICK N : N = A \o O
  OBVIOUS
<1>10. N \in Seq(Report) /\ events' = events \o N
  <2>1. events \in Seq(Report)
    BY <1>1 DEF StreamTypeOK
  <2>2. (events \o A) \o O = events \o (A \o O)
    BY <2>1, <1>8, LogJoinThree, Zenon
  <2> QED BY <2>2, <1>4, <1>8, <1>9
<1>11. Told \in Seq(Report) /\ Told' = Told \o N /\ events' \in Seq(Report)
  BY <1>1, <1>4, <1>10, ToldGrows
<1>12. /\ 1..(read + n) = 1..read \cup T \cup X /\ T \cap X = {}
       /\ \A x \in 1..read : \A y \in T \cup X : x < y /\ x # y /\ ~(y <= x)
  <2>1. read \in Nat /\ n \in Nat /\ k \in Nat /\ k + 1 <= n
    BY <1>5
  <2>2. T \cap X = {} /\ 1..(read + n) = 1..read \cup T \cup X
    BY <2>1, <1>6, <1>7
  <2>3. \A y \in T \cup X : y \in Nat /\ read < y
    BY <2>1, <1>6, <1>7
  <2> QED BY <2>1, <2>2, <2>3
<1>13. Held' = Held /\ Held \subseteq 1..read
  BY <1>1, <1>4 DEF Held, StreamTyped
<1>14. StreamTypeOK'
  <2>1. cut' \subseteq 1..read' /\ moved' \subseteq 1..read' /\ dropped' \subseteq 1..read'
    BY <1>1, <1>4, <1>12 DEF StreamTypeOK
  <2>2. read' \in 0..Len(sent')
    BY <1>4, <1>5
  <2>3. astray' \in BOOLEAN
    BY <1>1, <1>4 DEF StreamTypeOK
  <2> QED BY <1>1, <1>4, <1>11, <2>1, <2>2, <2>3 DEF StreamTypeOK
<1>15. StreamTyped'
  <2>1. Held' \subseteq 1..read'
    BY <1>4, <1>12, <1>13
  <2>2. (suppress' => injected') /\ (~suppress' => echoBuf' = <<>>) /\ dropped' = {}
    BY <1>1, <1>4 DEF StreamTyped
  <2> QED BY <2>1, <2>2, <1>14 DEF StreamTyped
<1>16. ASSUME ~astray'
       PROVE  Buffered' /\ Kept(Told, Passed, Held, cut)' /\ EchoHidden'
  <2>1. Buffered /\ Kept(Told, Passed, Held, cut) /\ EchoHidden /\ Closed(Passed)
    BY <1>1, <1>4, <1>16 DEF StreamInv, Buffered
  <2>2. \A i \in X : sent[i] \notin Openers
    <3>1. \A i \in DOMAIN rest : sent[rest[i]] \notin Openers
      BY <1>4, <1>16 DEF Is
    <3> QED BY <3>1, <1>3 DEF ToSet
  <2>3. X = {} \/ Held = {}
    <3>1. ToSet(<<>>) = {}
      BY <1>7, RisingTo
    <3>2. rest = <<>> \/ (oscPending = <<>> /\ echoBuf = <<>>)
      BY <1>4, <1>16
    <3> QED BY <3>1, <3>2, <1>3 DEF Held
  <2>4. /\ Searched = Passed \cup Held /\ Passed \cap Held = {} /\ Passed \in SUBSET Nat
        /\ Passed \subseteq 1..read
    <3>1. PICK log, hid : log = Told /\ hid = cut
      OBVIOUS
    <3>2. Kept(log, Passed, Held, hid) /\ Held \subseteq Searched
      BY <3>1, <2>1 DEF Buffered
    <3> QED BY <3>2, <1>1, <1>5, <1>13, HeldFacts
  <2>5. Searched' = Searched \cup X
    <3>1. X \cap (blind \cup moved \cup T \cup dropped) = {}
      BY <1>1, <1>12 DEF StreamTypeOK
    <3>2. 1..read \cap T = {}
      BY <1>12
    <3> QED BY <3>1, <3>2, <1>4, <1>12 DEF Searched
  <2>6. Passed' = Passed \cup X
    <3>1. X \cap Held = {}
      BY <2>3
    <3> QED BY <3>1, <2>4, <2>5, <1>13 DEF Passed
  <2>7. X \in SUBSET Nat /\ Below(Passed, X) /\ Below(Passed \cup X, Held')
    <3>1. X \in SUBSET Nat
      BY <1>5, <1>7
    <3>2. Below(Passed, X)
      BY <2>4, <1>12 DEF Below
    <3>3. Below(Passed, Held)
      BY <2>1 DEF Kept
    <3>4. Below(Passed \cup X, Held)
      BY <3>3, <2>3 DEF Below
    <3> QED BY <3>1, <3>2, <3>4, <1>13
  <2>8. Passes(N, X, cut')
    <3>1. Passes(O, X, cut')
      BY <2>2, <1>3, <1>7, OutputPasses
    <3> QED BY <3>1, <1>8, <1>9, PassesBehind
  <2>9. Grows
    <3>1. moved' \cap (1..read) \subseteq moved
      BY <1>4, <1>12
    <3> QED BY <3>1, <1>4, <1>5 DEF Grows
  <2>10. \A i \in cut' \ cut : MayHide(i, 1..read', blind', Raw', Searched' \ Cmds(Passed \cup X))
    BY <1>4
  <2>11. Kept(Told, Passed, Held, cut)' /\ EchoHidden'
    BY <1>1, <1>10, <1>11, <1>14, <2>1, <2>4, <2>6, <2>7, <2>8, <2>9, <2>10, Advance
  <2>12. Buffered'
    <3>1. Rising(oscPending)' /\ Rising(echoBuf)' /\ Below(ToSet(oscPending), ToSet(echoBuf))'
      BY <2>1, <1>4 DEF Buffered, Rising, Below, ToSet
    <3>2. Held' \subseteq Searched' /\ cut' \ blind' \subseteq Passed'
      BY <2>1, <2>5, <2>6, <1>4, <1>13 DEF Buffered
    <3>3. \A i \in ToSet(oscPending') : sent'[i] # "bel"
      BY <2>1, <1>4 DEF Buffered
    <3>4. Closed(Passed)'
      <4>1. PICK P : P = Passed \cup X
        OBVIOUS
      <4>2. Closed(P)'
        BY <4>1, <2>1, <2>2, <1>4 DEF Closed, Openers
      <4>3. P = Passed'
        BY <4>1, <2>6
      <4> QED BY <4>2, <4>3
    <3>5. \A j \in Raw' : \A e \in ToSet(echoBuf') : e <= j => j \in ToSet(echoBuf')
      <4> SUFFICES ASSUME NEW j \in Raw', NEW e \in ToSet(echoBuf), e <= j
                   PROVE  j \in ToSet(echoBuf)
        BY <1>4
      <4>1. X = {}
        BY <2>3 DEF Held
      <4>2. j \in Raw
        BY <4>1, <1>4, <1>12 DEF Raw
      <4> QED BY <4>2, <2>1 DEF Buffered
    <3> QED BY <3>1, <3>2, <3>3, <3>4, <3>5 DEF Buffered
  <2> QED BY <2>11, <2>12
<1> QED BY <1>15, <1>16 DEF StreamInv

(***************************************************************************)
(* The steps that pass nothing on, one by one.                             *)
(***************************************************************************)
LEMMA MoreIsSent ==
  ASSUME StreamTypeOK, NEW w \in Seq(Kinds), sent' = sent \o w
  PROVE  sent' \in Seq(Kinds) /\ read \in 0..Len(sent') /\ \A i \in 1..read : sent'[i] = sent[i]
<1>1. sent \in Seq(Kinds) /\ read \in 0..Len(sent)
  BY DEF StreamTypeOK
<1>2. PICK s, c : s = sent /\ c = sent \o w
  OBVIOUS
<1>3. /\ c \in Seq(Kinds) /\ Len(c) = Len(s) + Len(w) /\ Len(s) \in Nat /\ Len(w) \in Nat
      /\ \A i \in 1..(Len(s) + Len(w)) : c[i] = IF i <= Len(s) THEN s[i] ELSE w[i - Len(s)]
  BY <1>1, <1>2, JoinFacts
<1> QED BY <1>1, <1>2, <1>3

LEMMA HostKeeps ==
  ASSUME StreamInv, HostWrites \/ HostAnswersHook
  PROVE  StreamInv'
<1>1. StreamTyped /\ StreamTypeOK
  BY DEF StreamInv, StreamTyped
<1>2. PICK w \in Writings \cup Answers : sent' = sent \o w /\ answered' \in {answered, Len(w)}
  BY DEF HostWrites, HostAnswersHook
<1>3. w \in Seq(Kinds) /\ Len(w) \in Nat
  <2>0. /\ "text" \in Kinds /\ "nl" \in Kinds /\ "cwd" \in Kinds /\ "cmd" \in Kinds
        /\ "bel" \in Kinds /\ "hook" \in Kinds /\ "tail" \in Kinds /\ "zinit" \in Kinds
        /\ "quote" \in Kinds
    BY DEF Kinds
  <2>a. /\ <<"text">> \in Seq(Kinds) /\ <<"nl">> \in Seq(Kinds) /\ <<"cwd", "bel">> \in Seq(Kinds)
        /\ <<"cmd", "bel">> \in Seq(Kinds) /\ <<"cwd">> \in Seq(Kinds)
        /\ <<"zinit">> \in Seq(Kinds) /\ <<"quote", "nl">> \in Seq(Kinds)
    BY <2>0
  <2>b. /\ <<"hook", "nl", "cwd", "bel">> \in Seq(Kinds)
        /\ <<"hook", "nl", "tail", "nl", "cwd", "bel">> \in Seq(Kinds)
        /\ <<"hook", "nl", "text">> \in Seq(Kinds)
    BY <2>0
  <2>1. \A x \in Writings : x \in Seq(Kinds)
    BY <2>a DEF Writings
  <2>2. \A x \in Answers : x \in Seq(Kinds)
    BY <2>b DEF Answers
  <2>3. w \in Seq(Kinds)
    BY <2>1, <2>2
  <2> QED BY <2>3
<1>4. /\ UNCHANGED <<read, integration, phase, injected, holding, cooling, events, pump, history>>
  BY DEF HostWrites, HostAnswersHook
<1>5. sent' \in Seq(Kinds) /\ read \in 0..Len(sent') /\ \A i \in 1..read : sent'[i] = sent[i]
  BY <1>1, <1>2, <1>3, MoreIsSent
<1>6. StreamTypeOK'
  BY <1>1, <1>2, <1>3, <1>4, <1>5 DEF StreamTypeOK, holding, pump, history
<1>7. Unmoved /\ Told' = Told
  BY <1>4 DEF Unmoved, holding, pump, Told, Queue
<1> QED BY <1>5, <1>6, <1>7, Quiet

LEMMA TimeKeeps ==
  ASSUME StreamInv, TimePasses \/ TwoSecondsPass
  PROVE  StreamInv'
<1>1. StreamTypeOK
  BY DEF StreamInv, StreamTyped
<1>2. /\ UNCHANGED <<host, read, integration, phase, injected, suppress, echoBuf, oscPending, events,
                     pump, history>>
      /\ {late', cooling'} \subseteq BOOLEAN
  BY <1>1 DEF TimePasses, TwoSecondsPass, holding, StreamTypeOK
<1>3. StreamTypeOK'
  BY <1>1, <1>2 DEF StreamTypeOK, host, pump, history
<1>4. Unmoved /\ Told' = Told /\ \A i \in 1..read : sent'[i] = sent[i]
  BY <1>2 DEF Unmoved, host, pump, Told, Queue
<1> QED BY <1>3, <1>4, Quiet

LEMMA PumpKeepsInv ==
  ASSUME StreamInv, Pump
  PROVE  StreamInv'
<1>1. StreamTypeOK
  BY DEF StreamInv, StreamTyped
<1>2. UNCHANGED <<host, read, integration, phase, injected, holding, cooling, history>>
  BY DEF Pump
<1>3. /\ Told' = Told
      /\ {events', deferred', applied'} \subseteq Seq(Report) /\ Len(deferred') <= 1
  BY <1>1, PumpKeeps
<1>4. StreamTypeOK'
  BY <1>1, <1>2, <1>3 DEF StreamTypeOK, host, holding, history
<1>5. Unmoved /\ \A i \in 1..read : sent'[i] = sent[i]
  BY <1>2 DEF Unmoved, host, holding
<1> QED BY <1>3, <1>4, <1>5, Quiet

LEMMA StutterKeeps ==
  ASSUME StreamInv, UNCHANGED streamVars
  PROVE  StreamInv'
<1>1. StreamTypeOK
  BY DEF StreamInv, StreamTyped
<1>2. StreamTypeOK'
  BY <1>1 DEF StreamTypeOK, streamVars, host, holding, pump, history
<1>3. Unmoved /\ Told' = Told /\ \A i \in 1..read : sent'[i] = sent[i]
  BY DEF Unmoved, streamVars, host, holding, pump, Told, Queue
<1> QED BY <1>2, <1>3, Quiet

LEMMA StreamStarts ==
  ASSUME StreamInit
  PROVE  StreamInv
<1>1. /\ sent = <<>> /\ read = 0 /\ answered = 0 /\ integration \in BOOLEAN /\ phase = "up"
      /\ injected = FALSE /\ suppress = FALSE /\ late = FALSE /\ echoBuf = <<>> /\ oscPending = <<>>
      /\ cooling = FALSE /\ events = <<>> /\ deferred = <<>> /\ applied = <<>>
      /\ cut = {} /\ blind = {} /\ moved = {} /\ dropped = {} /\ astray = FALSE
  BY DEF StreamInit
<1>2. StreamTypeOK
  <2>1. /\ <<>> \in Seq(Kinds) /\ <<>> \in Seq(Nat) /\ <<>> \in Seq(Report) /\ Len(<<>>) = 0
    OBVIOUS
  <2>2. /\ sent \in Seq(Kinds) /\ read \in 0..Len(sent) /\ answered \in Nat
        /\ echoBuf \in Seq(Nat) /\ oscPending \in Seq(Nat)
        /\ {events, deferred, applied} \subseteq Seq(Report) /\ Len(deferred) <= 1
    BY <2>1, <1>1
  <2> QED BY <2>2, <1>1 DEF StreamTypeOK
<1>3. ToSet(<<>>) = {} /\ Rising(<<>>)
  <2>1. <<>> \in Seq(Nat)
    OBVIOUS
  <2> QED BY <2>1, RisingTo
<1>4. 1..read = {} /\ Held = {} /\ Searched = {} /\ Passed = {} /\ Raw = {}
  <2>1. 1..read = {} /\ Held = {}
    BY <1>1, <1>3 DEF Held
  <2> QED BY <2>1 DEF Searched, Passed, Raw
<1>5. StreamTyped
  BY <1>1, <1>2, <1>4 DEF StreamTyped
<1>6. Buffered
  BY <1>1, <1>3, <1>4 DEF Buffered, Below, Closed
<1>7. Told = <<>>
  BY <1>1 DEF Told, Queue
<1>8. Kept(Told, Passed, Held, cut)
  <2>1. Passes(<<>>, Passed, cut)
    BY <1>4, SaysNothing
  <2> QED BY <2>1, <1>4, <1>7 DEF Passes, Kept, Below
<1>9. EchoHidden
  BY <1>1 DEF EchoHidden
<1> QED BY <1>5, <1>6, <1>8, <1>9 DEF StreamInv

LEMMA StreamStep ==
  ASSUME StreamInv, [StreamNext]_streamVars
  PROVE  StreamInv'
<1>1. CASE HostWrites \/ HostAnswersHook
  BY <1>1, HostKeeps
<1>2. CASE \E n \in 1..Len(Wire) : ReadPlain(n)
  BY <1>2, ReadPlainKeeps
<1>3. CASE \E n \in 1..Len(Wire) : ReadLanded(n)
  BY <1>3, ReadLandedKeeps
<1>4. CASE \E n \in 1..Len(Wire) : ReadSuppressed(n)
  BY <1>4, ReadSuppressedKeeps
<1>5. CASE \E n \in 1..Len(Wire) : Receive(n)
  BY <1>5, ReceiveKeeps
<1>6. CASE TimerFires
  BY <1>6, TimerFiresKeeps
<1>7. CASE LoopEnds
  BY <1>7, LoopEndsKeeps
<1>8. CASE TimePasses \/ TwoSecondsPass
  BY <1>8, TimeKeeps
<1>9. CASE Pump
  BY <1>9, PumpKeepsInv
<1>10. CASE UNCHANGED streamVars
  BY <1>10, StutterKeeps
<1> QED BY <1>1, <1>2, <1>3, <1>4, <1>5, <1>6, <1>7, <1>8, <1>9, <1>10 DEF StreamNext, Loop

(* StreamInv is inductive.                                                 *)
LEMMA StreamInvAlways == StreamSpec => []StreamInv
<1>1. StreamInit => StreamInv
  BY StreamStarts
<1>2. StreamInv /\ [StreamNext]_streamVars => StreamInv'
  BY StreamStep
<1> QED BY <1>1, <1>2, PTL DEF StreamSpec

(* The variables of the shell session, its buffers, its queue and the      *)
(* history of what was hidden keep their types, wherever the reads of      *)
(* run_session end and its timers fire.                                    *)
THEOREM StreamTypeCorrect == StreamSpec => []StreamTypeOK
<1>1. StreamInv => StreamTypeOK
  BY StreamInvImplies
<1> QED BY <1>1, StreamInvAlways, PTL

(* What the shell wrote is shown in its order and nothing twice, and all   *)
(* that was read is shown but what is held back, belongs to a transfer, is *)
(* hidden with the echo of the hook, was in the echo buffer when the loop  *)
(* ended, or is a command that was reported; as long as nothing was let    *)
(* past what is held back or past the search (astray).                     *)
THEOREM StreamIsDisplayed == StreamSpec => []DisplayedIsTheStream
<1>1. StreamInv => DisplayedIsTheStream
  BY StreamInvImplies
<1> QED BY <1>1, StreamInvAlways, PTL

(* However the reads cut the control strings, and whatever is taken out or *)
(* hidden before them, the commands that are reported are those that the   *)
(* stream has where it was searched, each once and in their order.         *)
THEOREM CommandsReportedOnce == StreamSpec => []CommandsAreReportedOnce
<1>1. StreamInv => CommandsAreReportedOnce
  BY StreamInvImplies
<1> QED BY <1>1, StreamInvAlways, PTL

(* What is hidden is on a line of the echo of the hook or between it and   *)
(* the end of the first OSC 7 behind it: the message of the day, which the *)
(* server printed before (#98), stays.                                     *)
THEOREM EchoAloneIsHidden == StreamSpec => []OnlyTheEchoIsHidden
<1>1. StreamInv => OnlyTheEchoIsHidden
  BY StreamInvImplies
<1> QED BY <1>1, StreamInvAlways, PTL
=============================================================================
