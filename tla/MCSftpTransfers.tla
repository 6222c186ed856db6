--------------------------- MODULE MCSftpTransfers ---------------------------
(***************************************************************************)
(* Instances for TLC of three parts that share no state: two transfers of  *)
(* one SFTP worker, a file that is edited with another program, and the    *)
(* logins asked for by the shell and the SFTP side channel of one session  *)
(* and a connection of another, whose user is always known.  A behaviour   *)
(* is one of one of them.                                                  *)
(***************************************************************************)
EXTENDS SftpTransfers, EditWatch, CredentialPrompt, TLC

CONSTANTS j1, j2, e1, d1, n1, shell, side, other, s1, s2

VARIABLE part

OneOfEach == j1 :> {"file", "archive"}
             @@ j2 :> {"folder", "emptyFolder", "open"}

OneFile   == {[dir |-> d1, name |-> n1]}
SameName  == n1 :> n1

TwoSessions == shell :> s1 @@ side :> s1 @@ other :> s2

WorkerInit ==
  /\ part \in {"transfers", "edits", "logins"}
  /\ Init /\ EditInit /\ LoginInit
  /\ "user" \in stored[s2]
  /\ part # "logins" => stored = [s \in Sessions |-> Fields]

WorkerNext ==
  /\ UNCHANGED part
  /\ \/ part = "transfers" /\ Next /\ UNCHANGED <<editVars, loginVars>>
     \/ part = "edits" /\ EditNext /\ UNCHANGED <<vars, loginVars>>
     \/ /\ part = "logins" /\ LoginNext /\ "user" \in stored'[s2]
        /\ UNCHANGED <<vars, editVars>>

(* Fairness and LoginFairness, each in the part it belongs to.             *)
Here == part = "transfers"

WorkerFairness ==
  /\ WF_vars(Here /\ TakeCommand) /\ WF_vars(Here /\ ApplyTransfer)
  /\ \A j \in Jobs :
       /\ WF_vars(Here /\ Around(j))
       /\ WF_vars(Here /\ SeeCancel(j))
       /\ WF_vars(Here /\ ~conn /\ Fail(j))
       /\ WF_vars(Here /\ kind[j] = "open" /\ (Complete(j) \/ Fail(j)))

DialogFairness ==
  /\ \A c \in Conns : WF_loginVars(part = "logins" /\ EnqueuePrompt(c))
  /\ WF_loginVars(part = "logins" /\ AnswerDialog)

WorkerSpec == /\ WorkerInit /\ [][WorkerNext]_<<part, vars, editVars, loginVars>>
              /\ WorkerFairness /\ DialogFairness
=============================================================================
