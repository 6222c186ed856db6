---------------------------- MODULE MCFileCopies ----------------------------
(***************************************************************************)
(* Instances for TLC of the two ways a file comes from the host, which     *)
(* share no state: the copy of one file over SFTP, and ZMODEM in a         *)
(* terminal.  A behaviour is one of one of them.                           *)
(***************************************************************************)
EXTENDS PipelinedCopy, ZmodemReceiver

CONSTANT first

VARIABLE part

\* A sz of two files, then a sz of one.
TwoThenOne == <<2, 1>>

FilesInit ==
  /\ part \in {"copy", "zmodem"}
  /\ Init /\ ZmodemInit
  /\ part = "zmodem" => upload /\ dest = Old

FilesNext ==
  /\ UNCHANGED part
  /\ \/ part = "copy" /\ Next /\ UNCHANGED zmodemVars
     \/ part = "zmodem" /\ ZmodemNext /\ UNCHANGED vars

(* ZmodemFairness, in the part it belongs to.                              *)
TransferFairness ==
  /\ WF_zmodemVars(part = "zmodem" /\ SessionTask)
  /\ WF_zmodemVars(part = "zmodem" /\ Sz)
  /\ WF_zmodemVars(part = "zmodem" /\ RepeatQuiet)

FilesSpec == /\ FilesInit /\ [][FilesNext]_<<part, vars, zmodemVars>>
             /\ Fairness /\ TransferFairness
=============================================================================
