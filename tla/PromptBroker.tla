---------------------------- MODULE PromptBroker ----------------------------
(***************************************************************************)
(* What the two connect-time dialogs promise to the tasks that block on    *)
(* them: a subject (a host, a session) is decided at most once in a run of *)
(* the program, everyone who asked about it is told that decision and      *)
(* nothing else, and nobody is told anything before it is made.            *)
(***************************************************************************)
CONSTANTS Askers, Subjects, SubjectOf

VARIABLES
  ask,      \* per asker: what it waits for or was told
  verdict   \* per subject: the decision of this run

vars == <<ask, verdict>>

Verdicts == {"yes", "no"}

Init == /\ ask = [c \in Askers |-> "quiet"]
        /\ verdict = [s \in Subjects |-> "none"]

(* A task that is not blocked starts a new question, or needs none. *)
Ask(c)  == /\ ask[c] # "waiting"
           /\ ask' = [ask EXCEPT ![c] = "waiting"]
           /\ UNCHANGED verdict
Rest(c) == /\ ask[c] # "waiting"
           /\ ask' = [ask EXCEPT ![c] = "quiet"]
           /\ UNCHANGED verdict

(* A decision, told to some of those who wait for it. *)
Decide(s, v, told) ==
  /\ verdict[s] = "none"
  /\ \A c \in told : ask[c] = "waiting" /\ SubjectOf[c] = s
  /\ verdict' = [verdict EXCEPT ![s] = v]
  /\ ask' = [c \in Askers |-> IF c \in told THEN v ELSE ask[c]]

(* One who asks later is told the decision that stands. *)
Repeat(c) ==
  /\ ask[c] = "waiting" /\ verdict[SubjectOf[c]] # "none"
  /\ ask' = [ask EXCEPT ![c] = verdict[SubjectOf[c]]]
  /\ UNCHANGED verdict

(* A new run of the program knows no decision. *)
Forget == /\ ask' = [c \in Askers |-> "quiet"]
          /\ verdict' = [s \in Subjects |-> "none"]

Next == \/ \E c \in Askers : Ask(c) \/ Rest(c) \/ Repeat(c)
        \/ \E s \in Subjects, v \in Verdicts, told \in SUBSET Askers :
             Decide(s, v, told)
        \/ Forget

Spec == Init /\ [][Next]_vars

(* Nobody waits for ever. *)
Answered == \A c \in Askers : ask[c] = "waiting" ~> ask[c] # "waiting"
=============================================================================
