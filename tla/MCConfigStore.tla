--------------------------- MODULE MCConfigStore ---------------------------
(***************************************************************************)
(* Instances for TLC of the session store and of the lists with groups     *)
(* that are shown of it, which share no state: a behaviour is one of one   *)
(* of them.                                                                *)
(***************************************************************************)
EXTENDS ConfigStore, GroupedLists

CONSTANTS p1, p2, a, b, x, y, t1, none

VARIABLE part

\* ~/.ssh/config: a host whose ProxyJump may turn out to be itself, and one that jumps
\* over it.
MCSshHosts == <<[alias |-> a, place |-> x, jump |-> none],
                [alias |-> b, place |-> x, jump |-> a],
                [alias |-> b, place |-> y, jump |-> a]>>

\* "Web", "db" and "default": the first comes last when case is left aside.
TwoTitles == 1..2
LowerCase == <<3, 1, 2>>

\* A session at y logs in without a password.
OneIsOpen ==
  \A p \in Programs : \A i \in DOMAIN cache[p] :
    cache[p][i].place = y => cache[p][i].password = Blank

StoreInit ==
  /\ part \in {"store", "lists"}
  /\ Init /\ ListInit
  /\ part = "store" => kind = "commands"

StoreNext ==
  /\ UNCHANGED part
  /\ \/ part = "store" /\ Next /\ OneIsOpen' /\ UNCHANGED listVars
     \/ part = "lists" /\ ListNext /\ UNCHANGED vars

StoreSpec == StoreInit /\ [][StoreNext]_<<part, vars, listVars>>
=============================================================================
