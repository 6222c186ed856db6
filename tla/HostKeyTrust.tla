---------------------------- MODULE HostKeyTrust ----------------------------
(***************************************************************************)
(* Host key checks: verify_host_key in the SSH tasks, the known_hosts file *)
(* and the confirmation dialog of the UI thread.                           *)
(*                                                                         *)
(* Every connection runs a check of its own (the shell, its SFTP side      *)
(* channel, a jump host, the connection test), on the threads of the       *)
(* runtime.  A check reads the file, may block on the dialog, and may      *)
(* rewrite the file: it loads it, truncates it and writes it, with no lock.*)
(* The dialog shows one prompt at a time; prompts for one host are merged, *)
(* and the decision on a host answers every later prompt of the run.       *)
(***************************************************************************)
EXTENDS Integers, Sequences, FiniteSets

CONSTANTS
  Checks,   \* runs of verify_host_key, each of one connection
  Hosts,    \* the host:port ids
  Keys,     \* the keys servers present
  NoKey,
  HostOf,   \* the host each check is about
  Policy,   \* the HostKeyPolicy of its session
  Faults    \* what may go wrong outside: the program dies, a save fails

ASSUME HostOfAssumption == HostOf \in [Checks -> Hosts]
ASSUME PolicyAssumption == Policy \in [Checks -> {"ask", "strict", "accept-new"}]
ASSUME FaultsAssumption == Faults \subseteq {"crash", "save"} /\ NoKey \notin Keys

VARIABLES
  pc,        \* per check: where it is
  key,       \* per check: the key its server presented
  status,    \* per check: what the file said of that key
  snapshot,  \* per check: the contents remember() is about to write
  file,      \* known_hosts: the keys stored for each host
  queue,     \* HOSTKEY_QUEUE, its front entry on show
  decided,   \* HOSTKEY_DECIDED
  window,    \* the event loop runs
  recorded,  \* history: the keys the file ever held for each host
  disturbed  \* history: two saves overlapped, or one was cut short

past == <<recorded, disturbed>>
vars == <<pc, key, status, snapshot, file, queue, decided, window, past>>

Contents == [Hosts -> SUBSET Keys]
Empty    == [h \in Hosts |-> {}]
Saving   == {"load", "truncate", "write"}
Resting  == {"idle", "trusted", "refused"}
Entry    == [host : Hosts, key : Keys, waiting : SUBSET Checks]

TypeOK ==
  /\ pc \in [Checks -> Resting \cup Saving \cup {"posted", "queued"}]
  /\ key \in [Checks -> Keys \cup {NoKey}]
  /\ status \in [Checks -> {"none", "match", "unknown", "changed"}]
  /\ snapshot \in [Checks -> Contents]
  /\ file \in Contents
  /\ queue \in Seq(Entry)
  /\ decided \in [Hosts -> {"none", "accept", "reject"}]
  /\ window \in BOOLEAN
  /\ recorded \in Contents /\ disturbed \in BOOLEAN

(* The file may hold a key of each host from an earlier run. *)
Init ==
  /\ pc = [c \in Checks |-> "idle"]
  /\ key = [c \in Checks |-> NoKey]
  /\ status = [c \in Checks |-> "none"]
  /\ snapshot = [c \in Checks |-> Empty]
  /\ file \in {f \in Contents : \A h \in Hosts : Cardinality(f[h]) <= 1}
  /\ queue = <<>>
  /\ decided = [h \in Hosts |-> "none"]
  /\ window = TRUE
  /\ recorded = file /\ disturbed = FALSE

(***************************************************************************)
(* The check, in a task of the runtime.                                    *)
(***************************************************************************)

(* known_hosts::verify: several lines may be stored for one host *)
Verify(h, k) == CASE k \in file[h]  -> "match"
                  [] file[h] = {}   -> "unknown"
                  [] OTHER          -> "changed"

\* Mutant: the accept-new policy takes a changed key as well.
AfterVerifyAcceptAny(policy, s) ==
  CASE s = "match"             -> "trusted"
    [] policy = "accept-new"   -> "load"
    [] policy = "strict"       -> "refused"
    [] OTHER                   -> "posted"

(* What each policy does with it; only `ask' prompts. *)
AfterVerify(policy, s) ==
  CASE s = "match"                               -> "trusted"
    [] s = "unknown" /\ policy = "accept-new"    -> "load"
    [] s = "changed" /\ policy = "accept-new"    -> "refused"
    [] s # "match" /\ policy = "strict"          -> "refused"
    [] OTHER                                     -> "posted"

(* check_server_key, for whatever key the server has by now *)
CheckServerKey(c, k) ==
  /\ pc[c] \in Resting
  /\ key' = [key EXCEPT ![c] = k]
  /\ status' = [status EXCEPT ![c] = Verify(HostOf[c], k)]
  /\ pc' = [pc EXCEPT ![c] = AfterVerify(Policy[c], Verify(HostOf[c], k))]
  /\ UNCHANGED <<snapshot, file, queue, decided, window, past>>

(* remember: the entries of other hosts are kept as they were loaded. *)
LoadKnownHosts(c) ==
  /\ pc[c] = "load"
  /\ disturbed' = (disturbed \/ \E d \in Checks : pc[d] \in {"truncate", "write"})
  /\ snapshot' = [snapshot EXCEPT ![c] = [file EXCEPT ![HostOf[c]] = {key[c]}]]
  /\ pc' = [pc EXCEPT ![c] = "truncate"]
  /\ UNCHANGED <<key, status, file, queue, decided, window, recorded>>

TruncateKnownHosts(c) ==
  /\ pc[c] = "truncate"
  /\ file' = Empty
  /\ pc' = [pc EXCEPT ![c] = "write"]
  /\ UNCHANGED <<key, status, snapshot, queue, decided, window, past>>

WriteKnownHosts(c) ==
  /\ pc[c] = "write"
  /\ file' = snapshot[c]
  /\ pc' = [pc EXCEPT ![c] = "trusted"]
  /\ snapshot' = [snapshot EXCEPT ![c] = Empty]
  /\ recorded' = [h \in Hosts |-> recorded[h] \cup snapshot[c][h]]
  /\ UNCHANGED <<key, status, queue, decided, window, disturbed>>

(* The file cannot be opened, or written once it is truncated.  `ask' goes *)
(* on with what the user said, `accept-new' refuses.                       *)
SaveFails(c) ==
  /\ "save" \in Faults
  /\ pc[c] \in {"truncate", "write"}
  /\ pc' = [pc EXCEPT ![c] = IF Policy[c] = "ask" THEN "trusted" ELSE "refused"]
  /\ snapshot' = [snapshot EXCEPT ![c] = Empty]
  /\ disturbed' = (disturbed \/ pc[c] = "write")
  /\ UNCHANGED <<key, status, file, queue, decided, window, recorded>>

(***************************************************************************)
(* The dialog, on the UI thread.                                           *)
(***************************************************************************)
QueuedHosts == {queue[i].host : i \in 1..Len(queue)}

\* Mutant: whatever came back from the dialog counts as a yes.
AnswerYes(waiting, accept) ==
  [c \in Checks |-> IF c \notin waiting THEN pc[c] ELSE "load"]

Answer(waiting, accept) ==
  [c \in Checks |-> IF c \notin waiting THEN pc[c]
                    ELSE IF accept THEN "load" ELSE "refused"]

\* Mutant: a merged prompt is dropped; its responder is never called.
MergeDropsResponder(c) ==
  /\ HostOf[c] \in QueuedHosts
  /\ UNCHANGED queue

MergePrompt(c) ==
  /\ HostOf[c] \in QueuedHosts
  /\ queue' = [i \in 1..Len(queue) |->
                 IF queue[i].host = HostOf[c]
                 THEN [queue[i] EXCEPT !.waiting = @ \cup {c}]
                 ELSE queue[i]]

\* Mutant: a prompt is queued although the host is decided.
EnqueueAlways(c) ==
  /\ window /\ pc[c] = "posted"
  /\ pc' = [pc EXCEPT ![c] = "queued"]
  /\ \/ MergePrompt(c)
     \/ /\ HostOf[c] \notin QueuedHosts
        /\ queue' = Append(queue, [host |-> HostOf[c], key |-> key[c],
                                   waiting |-> {c}])
  /\ UNCHANGED <<key, status, snapshot, file, decided, window, past>>

(* enqueue_hostkey_prompt: answered from the cache, merged, or queued *)
EnqueuePrompt(c) ==
  /\ window /\ pc[c] = "posted"
  /\ \/ /\ decided[HostOf[c]] # "none"
        /\ pc' = Answer({c}, decided[HostOf[c]] = "accept")
        /\ UNCHANGED queue
     \/ /\ decided[HostOf[c]] = "none"
        /\ pc' = [pc EXCEPT ![c] = "queued"]
        /\ \/ MergePrompt(c)
           \/ /\ HostOf[c] \notin QueuedHosts
              /\ queue' = Append(queue, [host |-> HostOf[c], key |-> key[c],
                                         waiting |-> {c}])
  /\ UNCHANGED <<key, status, snapshot, file, decided, window, past>>

(* resolve_front_hostkey: the decision is cached and every waiting check   *)
(* gets it; the next prompt is shown.                                      *)
ResolveFront(accept) ==
  /\ window /\ queue # <<>>
  /\ queue' = Tail(queue)
  /\ decided' = [decided EXCEPT ![Head(queue).host] =
                   IF accept THEN "accept" ELSE "reject"]
  /\ pc' = Answer(Head(queue).waiting, accept)
  /\ UNCHANGED <<key, status, snapshot, file, window, past>>

(* The event loop ends, with the program still there: the responders of    *)
(* what it had not answered are dropped, which refuses the key.            *)
WindowGone ==
  /\ window
  /\ window' = FALSE
  /\ queue' = <<>>
  /\ pc' = Answer({c \in Checks : pc[c] = "queued"}, FALSE)
  /\ UNCHANGED <<key, status, snapshot, file, decided, past>>

(* No UI to ask: the send fails, or the event loop drops the event with    *)
(* its responder.                                                          *)
NobodyToAsk(c) ==
  /\ ~window /\ pc[c] = "posted"
  /\ pc' = [pc EXCEPT ![c] = "refused"]
  /\ UNCHANGED <<key, status, snapshot, file, queue, decided, window, past>>

(* The program dies and is started again: only the file is left. *)
Restart ==
  /\ "crash" \in Faults
  /\ pc' = [c \in Checks |-> "idle"]
  /\ key' = [c \in Checks |-> NoKey]
  /\ status' = [c \in Checks |-> "none"]
  /\ snapshot' = [c \in Checks |-> Empty]
  /\ queue' = <<>>
  /\ decided' = [h \in Hosts |-> "none"]
  /\ window' = TRUE
  /\ disturbed' = (disturbed \/ \E c \in Checks : pc[c] = "write")
  /\ UNCHANGED <<file, recorded>>

-----------------------------------------------------------------------------

Save(c) == LoadKnownHosts(c) \/ TruncateKnownHosts(c) \/ WriteKnownHosts(c)
           \/ SaveFails(c)

Next == \/ \E c \in Checks, k \in Keys : CheckServerKey(c, k)
        \/ \E c \in Checks : Save(c) \/ EnqueuePrompt(c) \/ NobodyToAsk(c)
        \/ \E accept \in BOOLEAN : ResolveFront(accept)
        \/ WindowGone \/ Restart

Spec == Init /\ [][Next]_vars

(* Tasks and the UI thread run, and the user answers a dialog that covers  *)
(* the window.                                                             *)
Fairness == /\ \A c \in Checks : WF_vars(Save(c)) /\ WF_vars(EnqueuePrompt(c))
                                 /\ WF_vars(NobodyToAsk(c))
            /\ WF_vars(\E accept \in BOOLEAN : ResolveFront(accept))

FairSpec == Spec /\ Fairness

(***************************************************************************)
(* Properties.                                                             *)
(***************************************************************************)

(* A check that is about to trust a key, or to record it first.            *)
SetsOutToTrust(c) == /\ pc[c] \notin Saving /\ pc'[c] \in {"load", "trusted"}
                     /\ <<pc[c], key[c]>>' # <<pc[c], key[c]>>

(* A connection goes on only with a reason its own policy allows: this key *)
(* was recorded for the host at some time; or, under accept-new, no key    *)
(* was ever recorded for it; or the user accepted a prompt of the host in  *)
(* this run.  accept-new is let down by saves, which have no lock and      *)
(* truncate the file first: by one that has not written yet, and for good  *)
(* by two that overlapped and by one that failed or died half way          *)
(* (AcceptNewIsFirst).  verify_host_key, with remember and the dialog.     *)
TrustIsEarned ==
  [][\A c \in Checks : SetsOutToTrust(c) =>
       LET h == HostOf[c]
       IN \/ key'[c] \in recorded[h]
          \/ /\ Policy[c] = "accept-new"
             /\ recorded[h] = {} \/ disturbed \/ \E d \in Checks : pc[d] = "write"
          \/ Policy[c] = "ask" /\ decided'[h] = "accept"]_vars

(* The prompts in the queue are of different hosts, none of them decided,  *)
(* and each blocked check waits in exactly the prompt of its host: no      *)
(* second dialog for a host, and no check whose answer nobody will give.   *)
PromptsMatchChecks ==
  /\ \A i \in 1..Len(queue) :
       /\ decided[queue[i].host] = "none"
       /\ queue[i].waiting # {}
       /\ \A c \in queue[i].waiting :
            pc[c] = "queued" /\ HostOf[c] = queue[i].host
       /\ \A j \in 1..Len(queue) : queue[i].host = queue[j].host => i = j
  /\ \A c \in Checks : pc[c] = "queued" =>
       \E i \in 1..Len(queue) : c \in queue[i].waiting

(* How the checks appear to PromptBroker.                                  *)
AskOf(c) ==
  CASE pc[c] \in {"posted", "queued"}                 -> "waiting"
    [] Policy[c] = "ask" /\ status[c] # "match"
       /\ pc[c] \in Saving \cup {"trusted"}           -> "yes"
    [] Policy[c] = "ask" /\ pc[c] = "refused"          -> "no"
    [] OTHER                                           -> "quiet"

VerdictOn(h) == CASE decided[h] = "accept" -> "yes"
                  [] decided[h] = "reject" -> "no"
                  [] OTHER                 -> "none"

Broker == INSTANCE PromptBroker WITH
            Askers    <- Checks,
            Subjects  <- Hosts,
            SubjectOf <- HostOf,
            ask       <- [c \in Checks |-> AskOf(c)],
            verdict   <- [h \in Hosts |-> VerdictOn(h)]

(* The dialog keeps the promise of PromptBroker to the checks that ask, as *)
(* long as there is a window: one decision on a host in a run, and every   *)
(* check told that one and nothing else, through merged prompts, cached    *)
(* decisions and restarts.                                                 *)
StepKeepsPromise == window' => [Broker!Next]_(Broker!vars)
DialogIsABroker  == Broker!Init /\ [][StepKeepsPromise]_vars

(* A check that asked is answered, the window goes, which refuses it, or   *)
(* the program is started again: the queue cannot starve a prompt behind   *)
(* others, and no responder is lost.                                       *)
EveryPromptIsAnswered == Broker!Answered

(* A changed key is let through only by a dialog that shows that very key: *)
(* "the user must re-confirm before the new key replaces the stored one".  *)
(* This does not hold: the decision is kept, and prompts are merged, per   *)
(* host, whatever the key.                                                 *)
ChangedIsReconfirmed ==
  [][\A c \in Checks :
       status[c] = "changed" /\ pc[c] \in {"posted", "queued"} /\ pc'[c] = "load"
         => /\ queue # <<>>
            /\ Head(queue).host = HostOf[c] /\ Head(queue).key = key[c]]_vars

(* "On accept the key is remembered here": with nobody saving, the key of  *)
(* a connection the user let through is in the file.  This does not hold:  *)
(* of two saves that overlap one is lost.                                  *)
NobodySaves == \A c \in Checks : pc[c] \notin Saving

AcceptedIsRemembered ==
  NobodySaves => \A c \in Checks :
    pc[c] = "trusted" /\ status[c] = "unknown" => file[HostOf[c]] # {}

(* accept-new "trusts a key only when no key has been recorded yet, and    *)
(* still rejects a changed key".  This does not hold: a check that reads   *)
(* the file while it is truncated finds no key of any host, and so does    *)
(* every check after a save that failed there or lost an entry.            *)
AcceptNewIsFirst ==
  [][\A c \in Checks : Policy[c] = "accept-new" /\ SetsOutToTrust(c) =>
       key'[c] \in recorded[HostOf[c]] \/ recorded[HostOf[c]] = {}]_vars
=============================================================================
