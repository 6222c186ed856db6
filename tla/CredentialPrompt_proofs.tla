----------------------- MODULE CredentialPrompt_proofs -----------------------
(***************************************************************************)
(* What holds of the login dialog for every set of connections, sessions   *)
(* and fields.                                                             *)
(***************************************************************************)
EXTENDS CredentialPrompt, TLAPS

(* The queue after a prompt is added, changed in place, or taken.          *)
LEMMA AppendFacts ==
  ASSUME NEW S, NEW q \in Seq(S), NEW e \in S
  PROVE  /\ Append(q, e) \in Seq(S)
         /\ Len(Append(q, e)) = Len(q) + 1
         /\ \A i \in 1..Len(q) : Append(q, e)[i] = q[i]
         /\ Append(q, e)[Len(q) + 1] = e
  OBVIOUS

LEMMA MapFacts ==
  ASSUME NEW S, NEW n \in Nat, NEW q \in [1..n -> S]
  PROVE  q \in Seq(S) /\ Len(q) = n
  OBVIOUS

LEMMA TailFacts ==
  ASSUME NEW S, NEW q \in Seq(S), q # <<>>
  PROVE  /\ Tail(q) \in Seq(S)
         /\ Len(q) \in Nat /\ Len(q) > 0 /\ Len(Tail(q)) = Len(q) - 1
         /\ \A i \in 1..Len(Tail(q)) : i + 1 \in 1..Len(q) /\ Tail(q)[i] = q[i + 1]
         /\ Head(q) = q[1] /\ Head(q) \in S
  OBVIOUS

-----------------------------------------------------------------------------
(* Types.  A connection is told one of the answers a session may have.     *)
LEMMA ToldTypes ==
  ASSUME LoginTypeOK, NEW w, NEW a, Told(w, a)
  PROVE  /\ pc' \in [Conns -> Phases] /\ lacks' \in [Conns -> SUBSET Fields]
BY DEF Told, LoginTypeOK, Phases

LEMMA ResolveCredentialsTypes ==
  ASSUME LoginTypeOK, NEW c \in Conns, ResolveCredentials(c)
  PROVE  LoginTypeOK'
BY DEF ResolveCredentials, LoginTypeOK, Phases

(* What the queue becomes when a prompt is posted to it.                   *)
LEMMA MergeFacts ==
  ASSUME LoginTypeOK, NEW c \in Conns, MergePrompt(c)
  PROVE  /\ queue' \in Seq(Entry) /\ Len(queue') = Len(queue)
         /\ \A i \in 1..Len(queue) :
              /\ queue'[i].session = queue[i].session
              /\ queue'[i].waiting = IF queue[i].session = SessionOf[c]
                                     THEN queue[i].waiting \cup {c}
                                     ELSE queue[i].waiting
<1>1. \A i \in 1..Len(queue) : queue[i] \in Entry
  BY DEF LoginTypeOK
<1>2. \A i \in 1..Len(queue) : queue'[i] \in Entry
  BY <1>1 DEF MergePrompt, Entry
<1>3. queue' \in [1..Len(queue) -> Entry]
  BY <1>2 DEF MergePrompt
<1>4. Len(queue) \in Nat
  BY DEF LoginTypeOK
<1>5. queue' \in Seq(Entry) /\ Len(queue') = Len(queue)
  BY <1>3, <1>4, MapFacts
<1> QED BY <1>1, <1>5 DEF MergePrompt, Entry

LEMMA EnqueueTypes ==
  ASSUME LoginTypeOK, NEW c \in Conns, EnqueuePrompt(c)
  PROVE  LoginTypeOK'
<1>1. CASE decided[SessionOf[c]].kind # "none"
  <2>1. Told({c}, decided[SessionOf[c]])
    BY <1>1 DEF EnqueuePrompt
  <2> QED BY <1>1, <2>1, ToldTypes DEF EnqueuePrompt, LoginTypeOK
<1>2. CASE decided[SessionOf[c]].kind = "none"
  <2>1. queue' \in Seq(Entry)
    <3>1. CASE MergePrompt(c)
      BY <3>1, MergeFacts
    <3>2. CASE queue' = Append(queue, [session |-> SessionOf[c], need |-> lacks[c],
                                       waiting |-> {c}])
      <4>1. [session |-> SessionOf[c], need |-> lacks[c], waiting |-> {c}] \in Entry
        BY SessionOfAssumption DEF LoginTypeOK, Entry
      <4> QED BY <3>2, <4>1, AppendFacts DEF LoginTypeOK
    <3> QED BY <1>2, <3>1, <3>2 DEF EnqueuePrompt
  <2>2. pc' \in [Conns -> Phases]
    BY <1>2 DEF EnqueuePrompt, LoginTypeOK, Phases
  <2> QED BY <1>2, <2>1, <2>2 DEF EnqueuePrompt, LoginTypeOK
<1> QED BY <1>1, <1>2

LEMMA ResolveTypes ==
  ASSUME LoginTypeOK, NEW answer \in Answers, NEW remember \in BOOLEAN,
         ResolveFront(answer, remember)
  PROVE  LoginTypeOK'
<1>1. queue \in Seq(Entry) /\ queue # <<>>
  BY DEF LoginTypeOK, ResolveFront
<1>2. Head(queue) \in Entry /\ Tail(queue) \in Seq(Entry)
  BY <1>1, TailFacts
<1>3. Head(queue).session \in Sessions /\ Head(queue).need \in SUBSET Fields
  BY <1>2 DEF Entry
<1>4. Persist(Head(queue)) \in [Sessions -> SUBSET Fields]
  BY <1>3 DEF Persist, LoginTypeOK
<1>5. stored' \in [Sessions -> SUBSET Fields]
  BY <1>4 DEF ResolveFront, LoginTypeOK
<1>6. decided' \in [Sessions -> Answers]
  BY <1>3 DEF ResolveFront, LoginTypeOK
<1>7. pc' \in [Conns -> Phases] /\ lacks' \in [Conns -> SUBSET Fields]
  BY ToldTypes DEF ResolveFront
<1> QED
  BY <1>2, <1>5, <1>6, <1>7 DEF ResolveFront, LoginTypeOK

LEMMA StepTypes == LoginTypeOK /\ [LoginNext]_loginVars => LoginTypeOK'
<1> SUFFICES ASSUME LoginTypeOK, [LoginNext]_loginVars PROVE LoginTypeOK'
  OBVIOUS
<1>1. ASSUME NEW s \in Sessions,
             RemoveSession(s) \/ \E fields \in SUBSET Fields : EditSession(s, fields)
      PROVE  LoginTypeOK'
  BY <1>1 DEF RemoveSession, EditSession, LoginTypeOK
<1>2. CASE WindowGone
  <2>1. pc' \in [Conns -> Phases] /\ lacks' \in [Conns -> SUBSET Fields]
    BY <1>2, ToldTypes DEF WindowGone
  <2>2. <<>> \in Seq(Entry)
    OBVIOUS
  <2>3. queue' = <<>> /\ window' = FALSE /\ UNCHANGED <<stored, exists, decided>>
    BY <1>2 DEF WindowGone
  <2> QED BY <2>1, <2>2, <2>3 DEF LoginTypeOK
<1>3. CASE UNCHANGED loginVars
  BY <1>3 DEF loginVars, LoginTypeOK
<1>4. CASE AnswerDialog
  BY <1>4, ResolveTypes DEF AnswerDialog
<1> QED
  BY <1>1, <1>2, <1>3, <1>4, ResolveCredentialsTypes, EnqueueTypes DEF LoginNext

LEMMA InitTypes == LoginInit => LoginTypeOK
BY DEF LoginInit, LoginTypeOK, Phases, Answers

(* Every reachable state has the declared types, however many connections  *)
(* ask for however many sessions: what is saved, cached and asked for are  *)
(* fields of sessions that exist.                                          *)
THEOREM TypeCorrect == LoginSpec => []LoginTypeOK
BY InitTypes, StepTypes, PTL DEF LoginSpec

-----------------------------------------------------------------------------
(* The queue and the blocked connections.  A step of a connection that is  *)
(* not blocked leaves both alone.                                          *)
LEMMA QuietStep ==
  ASSUME LoginTypeOK, PromptsMatchConns, UNCHANGED <<queue, decided>>,
         NEW c \in Conns,
         pc[c] # "queued", pc'[c] # "queued",
         \A d \in Conns \ {c} : pc'[d] = pc[d]
  PROVE  PromptsMatchConns'
<1>1. \A i \in 1..Len(queue) : queue[i].waiting \subseteq Conns \ {c}
  <2> SUFFICES ASSUME NEW i \in 1..Len(queue)
               PROVE  queue[i].waiting \subseteq Conns \ {c}
    OBVIOUS
  <2>1. queue[i] \in Entry
    BY DEF LoginTypeOK
  <2>2. queue[i].waiting \subseteq Conns
    BY <2>1 DEF Entry
  <2>3. c \notin queue[i].waiting
    BY DEF PromptsMatchConns
  <2> QED BY <2>2, <2>3
<1>2. \A i \in 1..Len(queue) : \A d \in queue[i].waiting :
        pc'[d] = "queued" /\ SessionOf[d] = queue[i].session
  BY <1>1 DEF PromptsMatchConns
<1>3. \A d \in Conns : pc'[d] = "queued" =>
        \E i \in 1..Len(queue) : d \in queue[i].waiting
  BY DEF PromptsMatchConns
<1> QED BY <1>2, <1>3 DEF PromptsMatchConns

LEMMA EnqueueMatches ==
  ASSUME LoginTypeOK, PromptsMatchConns, NEW c \in Conns, EnqueuePrompt(c)
  PROVE  PromptsMatchConns'
<1> DEFINE Alone == [session |-> SessionOf[c], need |-> lacks[c], waiting |-> {c}]
<1>1. CASE decided[SessionOf[c]].kind # "none"
  <2>1. /\ pc[c] # "queued" /\ pc'[c] # "queued"
        /\ \A d \in Conns \ {c} : pc'[d] = pc[d]
        /\ UNCHANGED <<queue, decided>>
    BY <1>1 DEF EnqueuePrompt, Told, LoginTypeOK
  <2> QED BY <2>1, QuietStep
<1>2. CASE decided[SessionOf[c]].kind = "none"
  <2>1. /\ pc[c] = "posted" /\ pc'[c] = "queued"
        /\ \A d \in Conns \ {c} : pc'[d] = pc[d]
        /\ UNCHANGED decided
    BY <1>2 DEF EnqueuePrompt, LoginTypeOK
  <2>2. CASE MergePrompt(c)
    <3>1. /\ Len(queue') = Len(queue)
          /\ \A i \in 1..Len(queue) :
               /\ queue'[i].session = queue[i].session
               /\ queue'[i].waiting = IF queue[i].session = SessionOf[c]
                                      THEN queue[i].waiting \cup {c}
                                      ELSE queue[i].waiting
      BY <2>2, MergeFacts
    <3>2. \E i \in 1..Len(queue) : queue[i].session = SessionOf[c]
      BY <2>2 DEF MergePrompt, QueuedSessions
    <3>3. ASSUME NEW i \in 1..Len(queue')
          PROVE  /\ decided'[queue'[i].session].kind = "none"
                 /\ queue'[i].waiting # {}
                 /\ \A d \in queue'[i].waiting :
                      pc'[d] = "queued" /\ SessionOf[d] = queue'[i].session
                 /\ \A j \in 1..Len(queue') :
                      queue'[i].session = queue'[j].session => i = j
      <4>1. \A d \in queue[i].waiting : pc'[d] = "queued" /\ SessionOf[d] = queue[i].session
        <5> SUFFICES ASSUME NEW d \in queue[i].waiting
                     PROVE  pc'[d] = "queued" /\ SessionOf[d] = queue[i].session
          OBVIOUS
        <5>1. queue[i] \in Entry
          BY <3>1, <3>3 DEF LoginTypeOK
        <5>2. d \in Conns
          BY <5>1 DEF Entry
        <5> QED BY <2>1, <3>1, <3>3, <5>2 DEF PromptsMatchConns
      <4>2. queue[i].waiting # {}
        BY <3>1, <3>3 DEF PromptsMatchConns
      <4>3. decided'[queue'[i].session].kind = "none"
        BY <2>1, <3>1, <3>3 DEF PromptsMatchConns
      <4>4. \A d \in queue'[i].waiting :
              pc'[d] = "queued" /\ SessionOf[d] = queue'[i].session
        BY <2>1, <3>1, <3>3, <4>1, ZenonT(30)
      <4>5. queue'[i].waiting # {}
        BY <3>1, <3>3, <4>2
      <4>6. \A j \in 1..Len(queue') : queue'[i].session = queue'[j].session => i = j
        BY <3>1, <3>3 DEF PromptsMatchConns
      <4> QED BY <4>3, <4>4, <4>5, <4>6
    <3>4. ASSUME NEW d \in Conns, pc'[d] = "queued"
          PROVE  \E i \in 1..Len(queue') : d \in queue'[i].waiting
      <4>1. CASE d = c
        <5>1. PICK i \in 1..Len(queue) : queue[i].session = SessionOf[c]
          BY <3>2
        <5> QED BY <3>1, <4>1, <5>1
      <4>2. CASE d # c
        <5>1. pc[d] = "queued"
          BY <2>1, <3>4, <4>2
        <5>2. PICK i \in 1..Len(queue) : d \in queue[i].waiting
          BY <5>1 DEF PromptsMatchConns
        <5>3. i \in 1..Len(queue') /\ d \in queue'[i].waiting
          BY <3>1, <5>2
        <5> QED BY <5>3
      <4> QED BY <4>1, <4>2
    <3> QED BY <3>3, <3>4 DEF PromptsMatchConns
  <2>3. CASE SessionOf[c] \notin QueuedSessions /\ queue' = Append(queue, Alone)
    <3>1. Alone \in Entry
      BY <2>1, SessionOfAssumption DEF LoginTypeOK, Entry
    <3>2. /\ Len(queue') = Len(queue) + 1 /\ Len(queue) \in Nat
          /\ \A i \in 1..Len(queue) : queue'[i] = queue[i]
          /\ queue'[Len(queue) + 1] = Alone
      BY <2>3, <3>1, AppendFacts DEF LoginTypeOK
    <3>3. \A i \in 1..Len(queue) : queue[i].session # SessionOf[c]
      BY <2>3 DEF QueuedSessions
    <3>4. Alone.session = SessionOf[c] /\ Alone.waiting = {c}
      OBVIOUS
    <3>5. ASSUME NEW i \in 1..Len(queue)
          PROVE  /\ decided'[queue[i].session].kind = "none"
                 /\ queue[i].waiting # {}
                 /\ \A d \in queue[i].waiting :
                      pc'[d] = "queued" /\ SessionOf[d] = queue[i].session
      <4>1. queue[i] \in Entry
        BY <3>5 DEF LoginTypeOK
      <4> QED BY <2>1, <4>1 DEF PromptsMatchConns, Entry
    <3>6. ASSUME NEW i \in 1..Len(queue'), NEW j \in 1..Len(queue'),
                 queue'[i].session = queue'[j].session
          PROVE  i = j
      <4> HIDE DEF Alone
      <4>1. i \in 1..Len(queue) \/ i = Len(queue) + 1
        BY <3>2
      <4>2. j \in 1..Len(queue) \/ j = Len(queue) + 1
        BY <3>2
      <4> QED BY <3>2, <3>3, <3>4, <3>6, <4>1, <4>2 DEF PromptsMatchConns
    <3>7. ASSUME NEW i \in 1..Len(queue')
          PROVE  /\ decided'[queue'[i].session].kind = "none"
                 /\ queue'[i].waiting # {}
                 /\ \A d \in queue'[i].waiting :
                      pc'[d] = "queued" /\ SessionOf[d] = queue'[i].session
      <4> HIDE DEF Alone
      <4>1. CASE i \in 1..Len(queue)
        BY <3>2, <3>5, <4>1
      <4>2. CASE i = Len(queue) + 1
        BY <1>2, <2>1, <3>2, <3>4, <4>2
      <4> QED BY <3>2, <3>7, <4>1, <4>2
    <3>8. ASSUME NEW d \in Conns, pc'[d] = "queued"
          PROVE  \E i \in 1..Len(queue') : d \in queue'[i].waiting
      <4> HIDE DEF Alone
      <4>1. CASE d = c
        BY <3>2, <3>4, <4>1
      <4>2. CASE d # c
        BY <2>1, <3>2, <3>8, <4>2 DEF PromptsMatchConns
      <4> QED BY <4>1, <4>2
    <3> HIDE DEF Alone
    <3> QED BY <3>6, <3>7, <3>8 DEF PromptsMatchConns
  <2> QED BY <1>2, <2>2, <2>3 DEF EnqueuePrompt
<1> QED BY <1>1, <1>2

LEMMA ResolveMatches ==
  ASSUME LoginTypeOK, PromptsMatchConns, NEW answer \in Answers, NEW remember \in BOOLEAN,
         ResolveFront(answer, remember)
  PROVE  PromptsMatchConns'
<1>1. queue \in Seq(Entry) /\ queue # <<>>
  BY DEF LoginTypeOK, ResolveFront
<1>2. /\ queue' = Tail(queue) /\ Len(queue) \in Nat /\ Len(queue) > 0
      /\ Len(queue') = Len(queue) - 1
      /\ \A i \in 1..Len(queue') : i + 1 \in 1..Len(queue)
                                   /\ queue'[i] = queue[i + 1]
      /\ Head(queue) = queue[1]
  BY <1>1, TailFacts DEF ResolveFront
<1>3. \A i \in 1..Len(queue) : queue[i] \in Entry
  BY <1>1
<1>4. \A d \in Conns : IF d \in queue[1].waiting THEN pc'[d] \in {"answered", "cancelled"}
                       ELSE pc'[d] = pc[d]
  BY <1>2 DEF ResolveFront, Told
<1>5. \A h \in Sessions : h # queue[1].session => decided'[h] = decided[h]
  BY <1>2 DEF ResolveFront, LoginTypeOK
<1>6. ASSUME NEW i \in 1..Len(queue')
      PROVE  /\ decided'[queue'[i].session].kind = "none"
             /\ queue'[i].waiting # {}
             /\ \A d \in queue'[i].waiting :
                  pc'[d] = "queued" /\ SessionOf[d] = queue'[i].session
  <2>1. /\ i + 1 \in 1..Len(queue) /\ i + 1 # 1 /\ 1 \in 1..Len(queue)
        /\ queue'[i] = queue[i + 1]
    BY <1>2, <1>6
  <2>2. queue[i + 1].session # queue[1].session
    BY <2>1 DEF PromptsMatchConns
  <2>3. queue[i + 1].session \in Sessions /\ queue[i + 1].waiting \subseteq Conns
    BY <1>3, <2>1 DEF Entry
  <2>4. \A d \in queue[i + 1].waiting : d \notin queue[1].waiting
    BY <2>1, <2>2 DEF PromptsMatchConns
  <2> QED BY <1>4, <1>5, <2>1, <2>2, <2>3, <2>4 DEF PromptsMatchConns
<1>7. ASSUME NEW i \in 1..Len(queue'), NEW j \in 1..Len(queue'),
             queue'[i].session = queue'[j].session
      PROVE  i = j
  <2>1. i + 1 = j + 1
    BY <1>2, <1>7 DEF PromptsMatchConns
  <2> QED BY <1>2, <2>1
<1>8. ASSUME NEW d \in Conns, pc'[d] = "queued"
      PROVE  \E i \in 1..Len(queue') : d \in queue'[i].waiting
  <2>1. d \notin queue[1].waiting /\ pc[d] = "queued"
    BY <1>4, <1>8
  <2>2. PICK k \in 1..Len(queue) : d \in queue[k].waiting
    BY <2>1 DEF PromptsMatchConns
  <2>3. k # 1 /\ k - 1 \in 1..Len(queue')
    BY <1>2, <2>1, <2>2
  <2>4. queue'[k - 1] = queue[k]
    BY <1>2, <2>3
  <2> QED BY <2>2, <2>3, <2>4
<1> QED BY <1>6, <1>7, <1>8 DEF PromptsMatchConns

LEMMA StepMatches == LoginTypeOK /\ PromptsMatchConns /\ [LoginNext]_loginVars => PromptsMatchConns'
<1> SUFFICES ASSUME LoginTypeOK, PromptsMatchConns, [LoginNext]_loginVars
             PROVE  PromptsMatchConns'
  OBVIOUS
<1>1. ASSUME NEW c \in Conns, ResolveCredentials(c)
      PROVE  PromptsMatchConns'
  <2>1. /\ pc[c] # "queued" /\ pc'[c] # "queued"
        /\ \A d \in Conns \ {c} : pc'[d] = pc[d]
        /\ UNCHANGED <<queue, decided>>
    BY <1>1 DEF ResolveCredentials, LoginTypeOK
  <2> QED BY <2>1, QuietStep
<1>2. ASSUME NEW s \in Sessions,
             RemoveSession(s) \/ \E fields \in SUBSET Fields : EditSession(s, fields)
      PROVE  PromptsMatchConns'
  BY <1>2 DEF RemoveSession, EditSession, PromptsMatchConns
<1>3. CASE WindowGone
  <2>1. queue' = <<>> /\ \A d \in Conns : pc'[d] # "queued"
    BY <1>3 DEF WindowGone, Told, Cancelled, LoginTypeOK
  <2> QED BY <2>1 DEF PromptsMatchConns
<1>4. CASE UNCHANGED loginVars
  BY <1>4 DEF loginVars, PromptsMatchConns
<1>5. CASE AnswerDialog
  BY <1>5, ResolveMatches DEF AnswerDialog
<1> QED BY <1>1, <1>2, <1>3, <1>4, <1>5, EnqueueMatches DEF LoginNext

(* Each blocked connection waits in exactly the prompt of its session, and *)
(* no session has two prompts or one after its answer: whatever is merged, *)
(* answered, edited or removed meanwhile, one dialog reaches everybody.    *)
THEOREM PromptsAlwaysMatch == LoginSpec => []PromptsMatchConns
<1>1. LoginInit => PromptsMatchConns
  BY DEF LoginInit, PromptsMatchConns
<1> QED BY <1>1, InitTypes, StepTypes, StepMatches, PTL DEF LoginSpec

-----------------------------------------------------------------------------
(* The dialog as PromptBroker sees it.                                     *)
LEMMA NoConnMoves ==
  ASSUME \A d \in Conns : AskOf(d)' = AskOf(d),
         \A s \in Sessions : VerdictOn(s)' = VerdictOn(s)
  PROVE  UNCHANGED Broker!vars
BY DEF Broker!vars

LEMMA OneConnMoves ==
  ASSUME NEW c \in Conns,
         \A d \in Conns \ {c} : AskOf(d)' = AskOf(d),
         \A s \in Sessions : VerdictOn(s)' = VerdictOn(s)
  PROVE  /\ [d \in Conns |-> AskOf(d)]' =
              [[d \in Conns |-> AskOf(d)] EXCEPT ![c] = AskOf(c)']
         /\ UNCHANGED [s \in Sessions |-> VerdictOn(s)]
OBVIOUS

(* A connection takes up its question, or finds that it has none.          *)
LEMMA ResolveAsks ==
  ASSUME LoginTypeOK, NEW c \in Conns, ResolveCredentials(c)
  PROVE  Broker!Ask(c) \/ Broker!Rest(c)
<1>1. \A d \in Conns \ {c} : AskOf(d)' = AskOf(d)
  BY DEF ResolveCredentials, AskOf, LoginTypeOK
<1>2. \A s \in Sessions : VerdictOn(s)' = VerdictOn(s)
  BY DEF ResolveCredentials, VerdictOn
<1>3. AskOf(c) # "waiting" /\ AskOf(c)' \in {"waiting", "quiet"}
  BY DEF ResolveCredentials, AskOf, LoginTypeOK, Phases
<1>4. [d \in Conns |-> AskOf(d)][c] # "waiting"
  BY <1>3
<1> QED BY <1>1, <1>2, <1>3, <1>4, OneConnMoves DEF Broker!Ask, Broker!Rest

LEMMA AnswerKinds ==
  ASSUME NEW a \in Answers
  PROVE  a.kind \in {"none", "reply", "cancel"}
<1>1. \A f : Reply(f).kind = "reply"
  BY DEF Reply
<1>2. NoAnswer.kind = "none" /\ Cancelled.kind = "cancel"
  BY DEF NoAnswer, Cancelled
<1>3. a = NoAnswer \/ a = Cancelled \/ \E f \in SUBSET Fields : a = Reply(f)
  BY DEF Answers
<1> QED BY <1>1, <1>2, <1>3

(* What is told is what was decided.                                       *)
LEMMA ToldIsTheVerdict ==
  ASSUME LoginTypeOK, NEW w \in SUBSET Conns, NEW a \in Answers, a.kind # "none", Told(w, a)
  PROVE  /\ \A c \in w : AskOf(c)' = IF a.kind = "reply" THEN "yes" ELSE "no"
         /\ \A c \in Conns \ w : AskOf(c)' = AskOf(c)
BY DEF Told, AskOf, LoginTypeOK

LEMMA EnqueueKeeps ==
  ASSUME LoginTypeOK, NEW c \in Conns, EnqueuePrompt(c)
  PROVE  Broker!Repeat(c) \/ UNCHANGED Broker!vars
<1>1. \A s \in Sessions : VerdictOn(s)' = VerdictOn(s)
  BY DEF EnqueuePrompt, VerdictOn
<1>2. pc[c] = "posted" /\ AskOf(c) = "waiting" /\ SessionOf[c] \in Sessions
  BY SessionOfAssumption DEF EnqueuePrompt, AskOf
<1>3. CASE decided[SessionOf[c]].kind # "none"
  <2> DEFINE answer == decided[SessionOf[c]]
  <2>1. answer \in Answers /\ Told({c}, answer)
    BY <1>2, <1>3 DEF EnqueuePrompt, LoginTypeOK
  <2>2. answer.kind \in {"reply", "cancel"}
    BY <1>3, <2>1, AnswerKinds
  <2>3. AskOf(c)' = VerdictOn(SessionOf[c]) /\ VerdictOn(SessionOf[c]) # "none"
    BY <1>3, <2>1, <2>2, ToldIsTheVerdict DEF VerdictOn
  <2>4. \A d \in Conns \ {c} : AskOf(d)' = AskOf(d)
    BY <1>3, <2>1, ToldIsTheVerdict
  <2> QED BY <1>1, <1>2, <2>3, <2>4, OneConnMoves DEF Broker!Repeat
<1>4. CASE decided[SessionOf[c]].kind = "none"
  <2>1. \A d \in Conns : AskOf(d)' = AskOf(d)
    BY <1>2, <1>4 DEF EnqueuePrompt, AskOf, LoginTypeOK
  <2> QED BY <1>1, <2>1, NoConnMoves
<1> QED BY <1>3, <1>4

(* The answer to the front prompt is the decision on its session.          *)
LEMMA ResolveDecides ==
  ASSUME LoginTypeOK, PromptsMatchConns, NEW answer \in Answers, NEW remember \in BOOLEAN,
         ResolveFront(answer, remember)
  PROVE  \E s \in Sessions, v \in Broker!Verdicts, told \in SUBSET Conns :
           Broker!Decide(s, v, told)
<1> DEFINE e == Head(queue)
           s == e.session
           told == e.waiting
           v == IF answer.kind = "reply" THEN "yes" ELSE "no"
<1>1. /\ 1 \in 1..Len(queue) /\ e = queue[1] /\ e \in Entry
  BY TailFacts DEF LoginTypeOK, ResolveFront
<1>2. s \in Sessions /\ told \in SUBSET Conns /\ v \in Broker!Verdicts
  BY <1>1 DEF Entry, Broker!Verdicts
<1>3. VerdictOn(s) = "none" /\ \A c \in told : AskOf(c) = "waiting" /\ SessionOf[c] = s
  BY <1>1 DEF PromptsMatchConns, VerdictOn, AskOf
<1>4. answer.kind \in {"reply", "cancel"}
  BY DEF ResolveFront, Cancelled, Reply
<1>5. decided' = [decided EXCEPT ![s] = answer] /\ Told(told, answer)
  BY DEF ResolveFront
<1> HIDE DEF e, s, told
<1>6. /\ \A c \in told : AskOf(c)' = v
      /\ \A c \in Conns \ told : AskOf(c)' = AskOf(c)
  BY <1>2, <1>4, <1>5, ToldIsTheVerdict
<1>7. \A r \in Sessions : VerdictOn(r)' = IF r = s THEN v ELSE VerdictOn(r)
  BY <1>2, <1>4, <1>5 DEF VerdictOn, LoginTypeOK
<1> HIDE DEF v
<1>8. [r \in Sessions |-> VerdictOn(r)]' = [[r \in Sessions |-> VerdictOn(r)] EXCEPT ![s] = v]
  BY <1>2, <1>7
<1>9. [c \in Conns |-> AskOf(c)]' =
        [c \in Conns |-> IF c \in told THEN v ELSE [d \in Conns |-> AskOf(d)][c]]
  BY <1>2, <1>6
<1>10. \A c \in told : [d \in Conns |-> AskOf(d)][c] = "waiting"
  BY <1>2, <1>3
<1>11. [r \in Sessions |-> VerdictOn(r)][s] = "none"
  BY <1>2, <1>3
<1>12. Broker!Decide(s, v, told)
  BY <1>3, <1>8, <1>9, <1>10, <1>11 DEF Broker!Decide
<1> QED BY <1>2, <1>12

LEMMA StepIsABroker == LoginTypeOK /\ PromptsMatchConns /\ [LoginNext]_loginVars => StepKeepsPromise
<1> SUFFICES ASSUME LoginTypeOK, PromptsMatchConns, [LoginNext]_loginVars, window'
             PROVE  [Broker!Next]_(Broker!vars)
  BY DEF StepKeepsPromise
<1>1. ASSUME NEW c \in Conns, ResolveCredentials(c) \/ EnqueuePrompt(c)
      PROVE  [Broker!Next]_(Broker!vars)
  BY <1>1, ResolveAsks, EnqueueKeeps DEF Broker!Next
<1>2. CASE AnswerDialog
  BY <1>2, ResolveDecides DEF AnswerDialog, Broker!Next
<1>3. CASE \/ UNCHANGED loginVars
           \/ \E s \in Sessions : RemoveSession(s) \/ \E f \in SUBSET Fields : EditSession(s, f)
  <2>1. UNCHANGED <<pc, decided>>
    BY <1>3 DEF loginVars, RemoveSession, EditSession
  <2> QED BY <2>1, NoConnMoves DEF AskOf, VerdictOn
<1>4. ~WindowGone
  BY DEF WindowGone
<1> QED BY <1>1, <1>2, <1>3, <1>4 DEF LoginNext

(* While there is a window the dialog keeps the promise of PromptBroker,   *)
(* for every number of connections and sessions: one answer for a session  *)
(* in a run, everybody told that answer, and nobody told anything before.  *)
THEOREM DialogKeepsPromise == LoginSpec => DialogIsABroker
<1>1. LoginInit => Broker!Init
  BY DEF LoginInit, Broker!Init, AskOf, VerdictOn, NoAnswer
<1> QED BY <1>1, StepIsABroker, TypeCorrect, PromptsAlwaysMatch, PTL
        DEF LoginSpec, DialogIsABroker
=============================================================================
