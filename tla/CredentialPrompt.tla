-------------------------- MODULE CredentialPrompt --------------------------
(***************************************************************************)
(* Connect-time credentials: resolve_credentials in the SSH tasks and the  *)
(* login dialog of the UI thread.                                          *)
(*                                                                         *)
(* A connection works on a copy of its session taken when it was started   *)
(* and asks for what that copy lacks.  The dialog shows one prompt at a    *)
(* time, merges those of one session, caches the answer by session id for  *)
(* the rest of the run and, when asked to remember, saves it.  Meanwhile   *)
(* the user may edit or remove the session.                                *)
(***************************************************************************)
EXTENDS Integers, Sequences, FiniteSets

CONSTANTS
  Conns,     \* connections: shells, side channels, connection tests
  Sessions,  \* session ids
  SessionOf,
  Fields     \* what a session may lack: user, password

ASSUME SessionOfAssumption == SessionOf \in [Conns -> Sessions]

VARIABLES
  stored,   \* per session: what the store can fill in; password stands for
            \* everything the chosen method needs: it is saved, or the key
            \* is not encrypted
  exists,   \* per session: it is in the store
  pc,       \* per connection: where it is; quiet: it has nothing to ask
  lacks,    \* per connection: the fields it has to ask for, until it is told
  queue,    \* CRED_QUEUE, its front entry on show
  decided,  \* CRED_DECIDED
  window    \* the main window is there

loginVars == <<stored, exists, pc, lacks, queue, decided, window>>

Phases == {"quiet", "posted", "queued", "answered", "cancelled"}
Entry  == [session : Sessions, need : SUBSET Fields, waiting : SUBSET Conns]
NoAnswer  == [kind |-> "none", asked |-> {}]
Cancelled == [kind |-> "cancel", asked |-> {}]
Reply(f)  == [kind |-> "reply", asked |-> f]
Answers   == {NoAnswer, Cancelled} \cup {Reply(f) : f \in SUBSET Fields}

LoginTypeOK ==
  /\ stored \in [Sessions -> SUBSET Fields]
  /\ exists \in [Sessions -> BOOLEAN]
  /\ pc \in [Conns -> Phases]
  /\ lacks \in [Conns -> SUBSET Fields]
  /\ queue \in Seq(Entry)
  /\ decided \in [Sessions -> Answers]
  /\ window \in BOOLEAN

LoginInit ==
  /\ stored \in [Sessions -> SUBSET Fields]
  /\ exists = [s \in Sessions |-> TRUE]
  /\ pc = [c \in Conns |-> "quiet"]
  /\ lacks = [c \in Conns |-> {}]
  /\ queue = <<>>
  /\ decided = [s \in Sessions |-> NoAnswer]
  /\ window = TRUE

(***************************************************************************)
(* The connecting task.                                                    *)
(***************************************************************************)

(* resolve_credentials, on the session as it is saved now; a connection    *)
(* that is over may be started again.                                      *)
ResolveCredentials(c) ==
  LET missing == Fields \ stored[SessionOf[c]]
  IN /\ window /\ exists[SessionOf[c]]
     /\ pc[c] \notin {"posted", "queued"}
     /\ lacks' = [lacks EXCEPT ![c] = missing]
     /\ pc' = [pc EXCEPT ![c] = IF missing = {} THEN "quiet" ELSE "posted"]
     /\ UNCHANGED <<stored, exists, queue, decided, window>>

(* The answer as the waiting tasks take it. *)
Told(waiting, answer) ==
  /\ pc' = [c \in Conns |-> IF c \notin waiting THEN pc[c]
                            ELSE IF answer.kind = "reply" THEN "answered"
                            ELSE "cancelled"]
  /\ lacks' = [c \in Conns |-> IF c \in waiting THEN {} ELSE lacks[c]]

(***************************************************************************)
(* The dialog.                                                             *)
(***************************************************************************)
QueuedSessions == {queue[i].session : i \in 1..Len(queue)}

\* Mutant: a cached cancel counts as no decision.
EnqueueUnlessReplied(c) ==
  /\ window /\ pc[c] = "posted"
  /\ \/ /\ decided[SessionOf[c]].kind = "reply"
        /\ Told({c}, decided[SessionOf[c]])
        /\ UNCHANGED queue
     \/ /\ decided[SessionOf[c]].kind # "reply"
        /\ queue' = Append(queue, [session |-> SessionOf[c], need |-> lacks[c],
                                   waiting |-> {c}])
        /\ pc' = [pc EXCEPT ![c] = "queued"]
        /\ UNCHANGED lacks
  /\ UNCHANGED <<stored, exists, decided, window>>

(* A prompt that is merged keeps the fields of the first one. *)
MergePrompt(c) ==
  /\ SessionOf[c] \in QueuedSessions
  /\ queue' = [i \in 1..Len(queue) |->
                 IF queue[i].session = SessionOf[c]
                 THEN [queue[i] EXCEPT !.waiting = @ \cup {c}]
                 ELSE queue[i]]

(* enqueue_cred_prompt *)
EnqueuePrompt(c) ==
  /\ window /\ pc[c] = "posted"
  /\ \/ /\ decided[SessionOf[c]].kind # "none"
        /\ Told({c}, decided[SessionOf[c]])
        /\ UNCHANGED queue
     \/ /\ decided[SessionOf[c]].kind = "none"
        /\ pc' = [pc EXCEPT ![c] = "queued"]
        /\ \/ MergePrompt(c)
           \/ /\ SessionOf[c] \notin QueuedSessions
              /\ queue' = Append(queue, [session |-> SessionOf[c],
                                         need |-> lacks[c], waiting |-> {c}])
        /\ UNCHANGED lacks
  /\ UNCHANGED <<stored, exists, decided, window>>

(* persist_credentials, of a session that is still in the store *)
Persist(e) ==
  IF exists[e.session] THEN [stored EXCEPT ![e.session] = @ \cup e.need]
  ELSE stored

\* Mutant: only the connection that asked first is answered.
ResolveFrontFirstOnly(answer, remember) ==
  /\ window /\ queue # <<>>
  /\ queue' = Tail(queue)
  /\ decided' = [decided EXCEPT ![Head(queue).session] = answer]
  /\ \E c \in Head(queue).waiting : Told({c}, answer)
  /\ stored' = IF remember THEN Persist(Head(queue)) ELSE stored
  /\ UNCHANGED <<exists, window>>

(* resolve_front_cred: cached, saved when asked to, fanned out. *)
ResolveFront(answer, remember) ==
  /\ window /\ queue # <<>>
  /\ answer \in {Cancelled, Reply(Head(queue).need)}
  /\ remember => answer.kind = "reply"
  /\ queue' = Tail(queue)
  /\ decided' = [decided EXCEPT ![Head(queue).session] = answer]
  /\ Told(Head(queue).waiting, answer)
  /\ stored' = IF remember THEN Persist(Head(queue)) ELSE stored
  /\ UNCHANGED <<exists, window>>

(* on_session_dialog_submit and on_remove_session_clicked, while no dialog *)
(* covers the window; another user or authentication method may be chosen. *)
EditSession(s, fields) ==
  /\ window /\ exists[s] /\ queue = <<>>
  /\ stored' = [stored EXCEPT ![s] = fields]
  /\ UNCHANGED <<exists, pc, lacks, queue, decided, window>>

RemoveSession(s) ==
  /\ window /\ exists[s] /\ queue = <<>>
  /\ exists' = [exists EXCEPT ![s] = FALSE]
  /\ UNCHANGED <<stored, pc, lacks, queue, decided, window>>

(* The event loop ends: what it had not answered is dropped, and a task    *)
(* whose reply channel is dropped takes it for a cancel.                   *)
WindowGone ==
  /\ window
  /\ window' = FALSE
  /\ queue' = <<>>
  /\ Told({c \in Conns : pc[c] \in {"posted", "queued"}}, Cancelled)
  /\ UNCHANGED <<stored, exists, decided>>

-----------------------------------------------------------------------------

AnswerDialog ==
  \E answer \in Answers, remember \in BOOLEAN : ResolveFront(answer, remember)

LoginNext == \/ \E c \in Conns : ResolveCredentials(c) \/ EnqueuePrompt(c)
             \/ AnswerDialog
             \/ \E s \in Sessions : RemoveSession(s)
             \/ \E s \in Sessions, fields \in SUBSET Fields : EditSession(s, fields)
             \/ WindowGone

LoginSpec == LoginInit /\ [][LoginNext]_loginVars

(* The UI thread runs, and the user answers a dialog that covers the       *)
(* window.                                                                 *)
LoginFairness == /\ \A c \in Conns : WF_loginVars(EnqueuePrompt(c))
                 /\ WF_loginVars(AnswerDialog)

LoginFairSpec == LoginSpec /\ LoginFairness

(***************************************************************************)
(* Properties.                                                             *)
(***************************************************************************)

(* The prompts in the queue are of different sessions without an answer,   *)
(* and each blocked connection waits in exactly the prompt of its session. *)
PromptsMatchConns ==
  /\ \A i \in 1..Len(queue) :
       /\ decided[queue[i].session].kind = "none"
       /\ queue[i].waiting # {}
       /\ \A c \in queue[i].waiting :
            pc[c] = "queued" /\ SessionOf[c] = queue[i].session
       /\ \A j \in 1..Len(queue) : queue[i].session = queue[j].session => i = j
  /\ \A c \in Conns : pc[c] = "queued" =>
       \E i \in 1..Len(queue) : c \in queue[i].waiting

(* How the connections appear to PromptBroker.                             *)
AskOf(c) ==
  CASE pc[c] \in {"posted", "queued"}         -> "waiting"
    [] pc[c] = "answered"                     -> "yes"
    [] pc[c] = "cancelled"                    -> "no"
    [] OTHER                                  -> "quiet"

VerdictOn(s) == CASE decided[s].kind = "reply"  -> "yes"
                  [] decided[s].kind = "cancel" -> "no"
                  [] OTHER                      -> "none"

Broker == INSTANCE PromptBroker WITH
            Askers    <- Conns,
            Subjects  <- Sessions,
            SubjectOf <- SessionOf,
            ask       <- [c \in Conns |-> AskOf(c)],
            verdict   <- [s \in Sessions |-> VerdictOn(s)]

(* The dialog keeps the promise of PromptBroker to the connections that   *)
(* ask, as long as there is a window: one answer for a session in a run,   *)
(* and every connection told that one.                                     *)
StepKeepsPromise == window' => [Broker!Next]_(Broker!vars)
DialogIsABroker  == Broker!Init /\ [][StepKeepsPromise]_loginVars

(* Nobody waits for ever, also when the window goes with its dialog.       *)
EveryPromptIsAnswered == Broker!Answered

(* "Prompting the UI for whatever is missing": a connection goes on only   *)
(* with an answer to every field it lacks.  This does not hold: the answer *)
(* is kept per session, and merged prompts ask for the fields of the first.*)
NothingIsMissing ==
  [][\A c \in Conns :
       pc[c] \in {"posted", "queued"} /\ pc'[c] = "answered" =>
         lacks[c] \subseteq decided'[SessionOf[c]].asked]_loginVars

(* "A dropped reply channel (no UI) falls through with the stored values   *)
(* so auth fails normally": only the user cancels a login.  This does not  *)
(* hold: a dropped channel is taken for a cancel (WindowGone).             *)
OnlyTheUserCancels ==
  \A c \in Conns : pc[c] = "cancelled" => decided[SessionOf[c]].kind = "cancel"
=============================================================================
