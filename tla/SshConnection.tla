--------------------------- MODULE SshConnection ---------------------------
(***************************************************************************)
(* What one SSH session has open, from its first connection to its end     *)
(* (connect_authenticated, run_session and test_connection of ssh.rs, and  *)
(* forward.rs): the connections to the jump host and to the target, each   *)
(* opened again when a password is refused, the listeners of its port      *)
(* forwards, and the connections made through them.                        *)
(*                                                                         *)
(* A connection of russh is a task of its own.  It goes when it is told    *)
(* to, when its peer goes, and when nobody has a handle of it or a channel *)
(* in it; the latter it notices after its key exchange only, which waits   *)
(* for the user to confirm the host key (HostKeyTrust).                    *)
(***************************************************************************)
EXTENDS Integers, Sequences, FiniteSets

CONSTANTS
  Runs,      \* runs of a session or of a connection test
  Forwards,  \* the forwards of the session, in order
  MaxConns   \* bound: connections made through forwards

ASSUME ConnectionAssumption ==
  /\ Forwards \in Seq([kind : {"local", "dynamic", "remote"}, port : Nat])
  /\ MaxConns \in Nat

VARIABLES
  run,       \* per run: what it is, where its task is, which connections it holds
  links,     \* the connections, as they were opened: whose, over which other, their stage
  listener,  \* per run and forward: the task that listens
  granted,   \* per run: the remote forwards that the server took
  conns      \* connections made through a forward: of whom, to which target, their stage

connectionVars == <<run, links, listener, granted, conns>>

Hops    == {"jump", "target"}
NoLink  == 0
NoLinks == [h \in Hops |-> NoLink]
Idle    == [at |-> "idle", test |-> FALSE, jump |-> FALSE, password |-> FALSE,
            hop |-> "target", tried |-> {}, link |-> NoLinks, asked |-> 0, shared |-> NoLink]

ConnectionInit ==
  /\ run = [r \in Runs |-> Idle]
  /\ links = <<>> /\ conns = <<>>
  /\ listener = [r \in Runs |-> [n \in DOMAIN Forwards |-> "none"]]
  /\ granted = [r \in Runs |-> {}]

Alive(i)   == links[i].stage # "over"
IsUp(i)    == i # NoLink /\ links[i].stage = "up"
Current(r) == run[r].link[run[r].hop]
Target(r)  == run[r].link["target"]

-----------------------------------------------------------------------------
(***************************************************************************)
(* Connecting.  What it waits for may end in an error at any time.         *)
(***************************************************************************)
Start(r) ==
  /\ run[r].at = "idle"
  /\ \E test, jump, password \in BOOLEAN :
       run' = [run EXCEPT ![r] = [Idle EXCEPT !.at = "login", !.test = test, !.jump = jump,
                                              !.password = password]]
  /\ UNCHANGED <<links, listener, granted, conns>>

\* An early return drops what the task holds.
Fail(r) ==
  /\ run' = [run EXCEPT ![r].at = "over", ![r].link = NoLinks]
  /\ UNCHANGED links

\* connect_direct_transport, or the connection through a channel of the jump host.
Dial(r, x, ls) ==
  LET via == IF x.hop = "target" THEN x.link["jump"] ELSE NoLink
  IN /\ links' = Append(ls, [run |-> r, via |-> via, stage |-> "greeting"])
     /\ run' = [run EXCEPT ![r] = [x EXCEPT !.at = "dial", !.link[x.hop] = Len(ls) + 1]]

\* connect_transport: the login of the jump host comes first.
ConnectTransport(r, x, ls) ==
  IF x.jump
  THEN /\ run' = [run EXCEPT ![r] = [x EXCEPT !.at = "login", !.hop = "jump",
                                              !.tried = @ \ {"jump"}]]
       /\ links' = ls
  ELSE Dial(r, x, ls)

\* resolve_credentials: they are known by now, or the login was cancelled.
LoginEnds(r) ==
  /\ run[r].at = "login"
  /\ \/ Fail(r)
     \/ IF run[r].hop = "target" THEN ConnectTransport(r, run[r], links)
        ELSE Dial(r, run[r], links)
  /\ UNCHANGED <<listener, granted, conns>>

\* with_connect_timeout: the timeout gives up on the connection, not on its task.
DialEnds(r) ==
  /\ run[r].at = "dial"
  /\ \/ Fail(r)
     \/ /\ IsUp(Current(r))
        /\ run' = [run EXCEPT
             ![r].at = IF run[r].hop \in run[r].tried THEN "interactive" ELSE "auth",
             ![r].link["jump"] = IF run[r].hop = "jump" THEN @ ELSE NoLink]
        /\ UNCHANGED links
  /\ UNCHANGED <<listener, granted, conns>>

Passed(r) ==
  /\ IsUp(Current(r))
  /\ run' = [run EXCEPT ![r].at = IF run[r].hop = "jump" THEN "channel" ELSE "shell"]
  /\ UNCHANGED links

\* A password that is refused is tried again, as the answer to each question of the
\* server, on a connection of its own.
Refused(r) ==
  /\ IsUp(Current(r)) /\ run[r].password
  /\ LET x  == [run[r] EXCEPT !.tried = @ \cup {run[r].hop}, !.link[run[r].hop] = NoLink]
         ls == [links EXCEPT ![Current(r)].stage = "leaving"]
     IN IF x.hop = "jump" THEN Dial(r, x, ls) ELSE ConnectTransport(r, x, ls)

AuthEnds(r) ==
  /\ \/ run[r].at = "auth" /\ (Passed(r) \/ Refused(r) \/ Fail(r))
     \/ run[r].at = "interactive" /\ (Passed(r) \/ Fail(r))
  /\ UNCHANGED <<listener, granted, conns>>

ChannelEnds(r) ==
  /\ run[r].at = "channel"
  /\ \/ Fail(r)
     \/ /\ IsUp(Current(r))
        /\ Dial(r, [run[r] EXCEPT !.hop = "target"], links)
  /\ UNCHANGED <<listener, granted, conns>>

\* Mutant: the connection is left to go with its handle.
drop_the_handle(r) ==
  /\ run' = [run EXCEPT ![r].at = "over", ![r].link = NoLinks]
  /\ UNCHANGED links

\* handle.disconnect, and the end of the task.
Leave(r) ==
  /\ run' = [run EXCEPT ![r].at = "over", ![r].link = NoLinks]
  /\ links' = [links EXCEPT ![Target(r)].stage = IF @ = "over" THEN @ ELSE "leaving"]

ShellEnds(r) ==
  /\ run[r].at = "shell"
  /\ \/ Fail(r)
     \/ IsUp(Target(r)) /\ run[r].test /\ Leave(r)
     \/ /\ IsUp(Target(r)) /\ ~run[r].test
        /\ run' = [run EXCEPT ![r].at = "forwards"]
        /\ UNCHANGED links
  /\ UNCHANGED <<listener, granted, conns>>

-----------------------------------------------------------------------------
(***************************************************************************)
(* The forwards.                                                           *)
(***************************************************************************)
IsRemote(n) == Forwards[n].kind = "remote"

\* The server is asked for one remote forward after the other, and each answer is awaited;
\* then a task is started for each of the others.
AskForward(r) ==
  LET n == run[r].asked + 1
  IN /\ run[r].at = "forwards"
     /\ IF n <= Len(Forwards)
        THEN /\ run' = [run EXCEPT ![r].asked = n]
             /\ \/ UNCHANGED granted
                \/ IsRemote(n) /\ IsUp(Target(r)) /\ granted' = [granted EXCEPT ![r] = @ \cup {n}]
             /\ UNCHANGED listener
        ELSE /\ run' = [run EXCEPT ![r].at = "loop", ![r].shared = Target(r)]
             /\ listener' = [listener EXCEPT
                  ![r] = [m \in DOMAIN Forwards |-> IF IsRemote(m) THEN "none" ELSE "binding"]]
             /\ UNCHANGED granted
     /\ UNCHANGED <<links, conns>>

IsTaken(port) ==
  \E r \in Runs, n \in DOMAIN Forwards :
    listener[r][n] = "listening" /\ Forwards[n].port = port

SetListener(r, n, stage) ==
  /\ listener' = [listener EXCEPT ![r][n] = stage]
  /\ UNCHANGED <<run, links, granted, conns>>

\* spawn_local, spawn_dynamic: a port that is taken, here or by another program, is
\* reported, and not tried again.
Bind(r, n) ==
  /\ listener[r][n] = "binding"
  /\ \/ SetListener(r, n, "over")
     \/ ~IsTaken(Forwards[n].port) /\ SetListener(r, n, "listening")

\* An error of accept ends the listener, and says nothing.
AcceptFails(r, n) == listener[r][n] = "listening" /\ SetListener(r, n, "over")

AddConn(c) ==
  /\ Len(conns) < MaxConns
  /\ conns' = Append(conns, c)
  /\ UNCHANGED <<run, links, listener, granted>>

Accept(r, n) ==
  /\ listener[r][n] = "listening"
  /\ AddConn([run |-> r, from |-> n, to |-> n,
              stage |-> IF Forwards[n].kind = "dynamic" THEN "negotiating" ELSE "opening"])

\* The last of the remote forwards of a port: ClientHandler keeps one target for each.
MappedTo(port) ==
  CHOOSE n \in DOMAIN Forwards :
    /\ IsRemote(n) /\ Forwards[n].port = port
    /\ \A m \in DOMAIN Forwards : IsRemote(m) /\ Forwards[m].port = port => m <= n

\* server_channel_open_forwarded_tcpip
ServerForwards(r, n) ==
  /\ n \in granted[r] /\ run[r].at # "over" /\ IsUp(Target(r))
  /\ AddConn([run |-> r, from |-> n, to |-> MappedTo(Forwards[n].port), stage |-> "opening"])

SetConn(k, stage) ==
  /\ conns' = [conns EXCEPT ![k].stage = stage]
  /\ UNCHANGED <<run, links, listener, granted>>

\* socks5_serve up to the request: the client may send another, or go.
Negotiate(k) ==
  /\ conns[k].stage = "negotiating"
  /\ \E s \in {"opening", "done"} : SetConn(k, s)

\* The channel, or for a remote forward the connection to its target.
OpenEnds(k) ==
  /\ conns[k].stage = "opening"
  /\ \/ SetConn(k, "done")
     \/ /\ IsRemote(conns[k].from) \/ IsUp(run[conns[k].run].shared)
        /\ SetConn(k, "spliced")

\* copy_bidirectional: it waits for both ends.
SpliceEnds(k) == conns[k].stage = "spliced" /\ SetConn(k, "done")

-----------------------------------------------------------------------------
(***************************************************************************)
(* The end of the session.                                                 *)
(***************************************************************************)
\* The channel of the shell is closed, by whatever or whomever.
ShellCloses(r) ==
  /\ run[r].at = "loop"
  /\ run' = [run EXCEPT ![r].at = "leaving"]
  /\ UNCHANGED <<links, listener, granted, conns>>

IsAborted(r, n) == run[r].at \in {"leaving", "over"} /\ listener[r][n] \in {"binding", "listening"}

\* A task that is aborted is dropped when it is its turn.
DropListener(r, n) == IsAborted(r, n) /\ SetListener(r, n, "over")

Disconnect(r) ==
  /\ run[r].at = "leaving"
  /\ Leave(r)
  /\ UNCHANGED <<listener, granted, conns>>

-----------------------------------------------------------------------------
(***************************************************************************)
(* The connections of russh.                                               *)
(***************************************************************************)
SetLink(i, stage) ==
  /\ links' = [links EXCEPT ![i].stage = stage]
  /\ UNCHANGED <<run, listener, granted, conns>>

\* Key exchange and host key, which the user may have to confirm.
Greet(i) ==
  /\ links[i].stage = "greeting"
  /\ \E s \in {"up", "over"} : SetLink(i, s)

Lost(i) == links[i].stage = "up" /\ SetLink(i, "over")

\* Who keeps a connection: its task, the tasks that listen and those of the connections
\* they accepted (each has a clone of the handle), and a connection that runs through it.
IsHeld(i) ==
  \/ \E r \in Runs, h \in Hops : run[r].link[h] = i
  \/ \E j \in DOMAIN links : links[j].via = i /\ Alive(j)
  \/ \E r \in Runs :
       /\ run[r].shared = i
       /\ \/ \E n \in DOMAIN Forwards : listener[r][n] \in {"binding", "listening"}
          \/ \E k \in DOMAIN conns :
               conns[k].run = r /\ conns[k].stage # "done" /\ ~IsRemote(conns[k].from)

Close(i) ==
  /\ \/ links[i].stage = "leaving"
     \/ links[i].stage = "up" /\ ~IsHeld(i)
     \/ links[i].via # NoLink /\ Alive(i) /\ ~Alive(links[i].via)
  /\ SetLink(i, "over")

-----------------------------------------------------------------------------
Task(r) ==
  LoginEnds(r) \/ DialEnds(r) \/ AuthEnds(r) \/ ChannelEnds(r) \/ ShellEnds(r)
  \/ AskForward(r) \/ Disconnect(r)

ConnectionNext ==
  \/ \E r \in Runs : Start(r) \/ Task(r) \/ ShellCloses(r)
  \/ \E r \in Runs, n \in DOMAIN Forwards :
       \/ Bind(r, n) \/ AcceptFails(r, n) \/ DropListener(r, n)
       \/ Accept(r, n) \/ ServerForwards(r, n)
  \/ \E k \in DOMAIN conns : Negotiate(k) \/ OpenEnds(k) \/ SpliceEnds(k)
  \/ \E i \in DOMAIN links : Greet(i) \/ Lost(i) \/ Close(i)

(* The runtime runs its tasks; what a task waits for ends, if only in an   *)
(* error: the user answers the dialogs, the server answers or keepalive    *)
(* gives it up.  No session has to end, and no client to go away.          *)
ConnectionFairness ==
  /\ \A r \in Runs : WF_connectionVars(Task(r))
  /\ WF_connectionVars(\E r \in Runs, n \in DOMAIN Forwards : DropListener(r, n))
  /\ WF_connectionVars(\E i \in DOMAIN links : Greet(i) \/ Close(i))

ConnectionSpec == ConnectionInit /\ [][ConnectionNext]_connectionVars /\ ConnectionFairness

-----------------------------------------------------------------------------
(***************************************************************************)
(* Properties.                                                             *)
(***************************************************************************)
HasNothing(r) ==
  /\ \A i \in DOMAIN links : links[i].run = r => ~Alive(i)
  /\ \A n \in DOMAIN Forwards : listener[r][n] \notin {"binding", "listening"}

\* However a run ended (a login cancelled, a timeout while the user looks at the host key,
\* a password refused by the jump host, the end of a session whose forwards are in use),
\* each connection it opened is closed and each port it listened on is free in the end:
\* neither is kept by a client that stays connected to a forward.
NothingIsLeftOpen == \A r \in Runs : run[r].at = "over" ~> HasNothing(r)

\* A connection that arrives at a forward is taken to the target of that forward.  Two
\* remote forwards of one port, on two addresses, are both taken to the second.
ArrivalsGoHome == \A k \in DOMAIN conns : conns[k].to = conns[k].from
=============================================================================
