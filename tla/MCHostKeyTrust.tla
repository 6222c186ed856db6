--------------------------- MODULE MCHostKeyTrust ---------------------------
(***************************************************************************)
(* Instances of HostKeyTrust for TLC: the shell and the SFTP side channel  *)
(* of one session, and a connection to another host.                       *)
(***************************************************************************)
EXTENDS HostKeyTrust, TLC

CONSTANTS shell, side, other, a, b, k1, k2

TwoHosts  == [c \in {shell, side, other} |-> IF c = other THEN b ELSE a]
AskAskNew == shell :> "ask" @@ side :> "ask" @@ other :> "accept-new"

(* The server of the shell may change its key; the side channel then sees  *)
(* the new one, and the other host stays with its key, which need not be   *)
(* the one in the file.                                                    *)
TrustNext == Next /\ key'[side] # k1 /\ key'[other] # k2
TrustSpec == Init /\ [][TrustNext]_vars /\ Fairness
=============================================================================
