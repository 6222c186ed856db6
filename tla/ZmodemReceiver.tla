--------------------------- MODULE ZmodemReceiver ---------------------------
(***************************************************************************)
(* `sz` in an SSH terminal: zmodem::receive and the part of the session    *)
(* loop that calls it and shows what it leaves.                            *)
(*                                                                         *)
(* The bytes of the channel are tokens here: a header, a data subpacket,   *)
(* the "OO" that ends a session, a row of CANs, the prompt of the shell.   *)
(* The far side is lrzsz's sz, of which the receiver assumes the usual     *)
(* protocol: it repeats a header that is not answered, sends its file      *)
(* again from the start when a second ZRPOS arrives, gives up on a ZFIN in *)
(* the middle and leaves on a ZFIN at the end.  It is external.            *)
(***************************************************************************)
EXTENDS Naturals, Sequences, FiniteSets

CONSTANTS
  Runs,         \* how often the user runs sz
  FilesOf,      \* per run: how many files it sends
  Chunks,       \* the subpackets of a file
  Terminators,  \* of a subpacket, as far as sz uses them
  PromptKinds,  \* how the prompt starts: "plain", or "hexlike" (see Drain)
  MaxTroubles   \* how many kinds of trouble there are in one behaviour

ASSUME CountsAssumption ==
  /\ Runs \in Nat \ {0} /\ FilesOf \in [1..Runs -> Nat \ {0}] /\ Chunks \in Nat \ {0}
  /\ MaxTroubles \in Nat /\ PromptKinds \subseteq {"plain", "hexlike"}
  /\ Terminators \subseteq {"ZCRCE", "ZCRCG", "ZCRCQ", "ZCRCW"}

VARIABLES
  pc,           \* the session loop, or where the receiver is
  buf,          \* Rx.buf: read from the channel, not yet consumed
  cur,          \* CurFile: the row of the file that is open, 0 for none
  received,
  rows,         \* the rows of the transfer list
  cooling,      \* less than two seconds since the last receive
  prompt,       \* per run: what became of the prompt that follows it
  sz,           \* the sender
  fromHost, toHost,
  up,           \* the channel is open
  troubles,     \* what went wrong
  exit,         \* history, per run: how sz ended
  restarted     \* history: the files of which some data were sent twice

receiver   == <<pc, buf, cur, received, rows, cooling, prompt>>
sender     == <<sz, troubles, exit, restarted>>
zmodemVars == <<receiver, sender, fromHost, toHost, up>>

Receiving   == {"header", "data", "peek", "drain"}
Frames      == {"ZRQINIT", "ZFILE", "ZDATA", "ZEOF", "ZFIN", "ZABORT"}
\* Terminators of a subpacket that end its frame, and those that ask for a ZACK.
EndOfFrame  == {"ZCRCE", "ZCRCW"}
AckExpected == {"ZCRCQ", "ZCRCW"}

RunIds   == 1..Runs
FileIds  == UNION {1..FilesOf[r] : r \in RunIds}
ChunkIds == 1..Chunks
TroubleKinds == {"early", "abort", "drop", "disk"}

Tokens == [kind : Frames \cup {"sub", "OO", "CANs", "text"}, run : RunIds,
           file : {0} \cup FileIds, n : 0..Chunks,
           arg : {"none", "ZCRCE"} \cup Terminators \cup PromptKinds]
Replies == {"ZRINIT", "ZRPOS", "ZACK", "ZFIN", "CANCEL"}
Pieces  == RunIds \X FileIds \X ChunkIds

ZmodemTypeOK ==
  /\ pc \in Receiving \cup {"shell", "ended"}
  /\ buf \in Seq(Tokens) /\ fromHost \in Seq(Tokens) /\ toHost \in Seq(Replies)
  /\ cur \in 0..Len(rows) /\ received \in Nat
  /\ rows \in Seq([run : RunIds, file : FileIds, data : Seq(Pieces),
                   state : {"running", "done"}])
  /\ cooling \in BOOLEAN /\ up \in BOOLEAN
  /\ prompt \in [RunIds -> {"none", "shown", "cut", "lost"}]
  /\ sz \in [run : 0..Runs, stage : {"init", "file", "data", "eof", "fin", "gone"},
             file : {0} \cup FileIds, next : 1..(Chunks + 1), open : BOOLEAN, speaks : BOOLEAN]
  /\ troubles \subseteq TroubleKinds /\ Cardinality(troubles) <= MaxTroubles
  /\ exit \in [RunIds -> {"none", "ok", "error"}]
  /\ restarted \subseteq RunIds \X FileIds

ZmodemInit ==
  /\ pc = "shell" /\ buf = <<>> /\ cur = 0 /\ received = 0 /\ rows = <<>>
  /\ cooling = FALSE
  /\ prompt = [r \in RunIds |-> "none"]
  /\ sz = [run |-> 0, stage |-> "gone", file |-> 0, next |-> 1, open |-> FALSE,
           speaks |-> FALSE]
  /\ fromHost = <<>> /\ toHost = <<>> /\ up = TRUE
  /\ troubles = {}
  /\ exit = [r \in RunIds |-> "none"]
  /\ restarted = {}

-----------------------------------------------------------------------------
\* A kind of trouble may come once, as long as there are not too many.
Trouble(kind) ==
  /\ kind \notin troubles /\ Cardinality(troubles) < MaxTroubles
  /\ troubles' = troubles \cup {kind}

(***************************************************************************)
(* The far side: sz, and the shell it runs in.                             *)
(***************************************************************************)

Token(s, kind, n, arg) ==
  [kind |-> kind, run |-> s.run, file |-> s.file, n |-> n, arg |-> arg]

Says(toks) == fromHost' = fromHost \o toks

\* sz ends, after saying toks, and the shell prints its prompt.
Leave(s, toks, how) ==
  /\ sz' = [s EXCEPT !.stage = "gone", !.open = FALSE]
  /\ \E p \in PromptKinds : Says(toks \o <<Token(s, "text", 0, p)>>)
  /\ exit' = [exit EXCEPT ![s.run] = how]

\* The user types sz at the prompt, or where it should have come by now; the session
\* loop sends what is typed when it is not in receive, and the shell has read it all
\* before sz starts.
StartSz ==
  /\ up /\ pc = "shell" /\ sz.stage = "gone" /\ toHost = <<>> /\ sz.run < Runs
  /\ sz.run > 0 => prompt[sz.run] # "none"
  /\ sz' = [run |-> sz.run + 1, stage |-> "init", file |-> 0, next |-> 1,
            open |-> FALSE, speaks |-> FALSE]
  /\ Says(<<Token(sz', "ZRQINIT", 0, "none")>>)
  /\ UNCHANGED <<receiver, toHost, up, troubles, exit, restarted>>

SendFile(s, f) ==
  /\ sz' = [s EXCEPT !.stage = "file", !.file = f, !.next = 1]
  /\ Says(<<Token(sz', "ZFILE", 0, "none")>>)

\* After the last file: some senders send ZFIN, some wait for it.
SendFin(s) ==
  \E speaks \in BOOLEAN :
    /\ sz' = [s EXCEPT !.stage = "fin", !.speaks = speaks]
    /\ Says(IF speaks THEN <<Token(s, "ZFIN", 0, "none")>> ELSE <<>>)

\* The next subpacket, in a new frame if the last one is over.
SendChunk ==
  /\ up /\ sz.stage = "data" /\ sz.next <= Chunks
  /\ \E end \in Terminators :
       /\ sz' = [sz EXCEPT !.next = @ + 1, !.open = end \notin EndOfFrame]
       /\ Says((IF sz.open THEN <<>> ELSE <<Token(sz, "ZDATA", 0, "none")>>)
                 \o <<Token(sz, "sub", sz.next, end)>>)
  /\ UNCHANGED <<receiver, toHost, up, troubles, exit, restarted>>

\* An empty subpacket ends a frame that is still open.
EndFrame == IF sz.open THEN <<Token(sz, "sub", 0, "ZCRCE")>> ELSE <<>>

SendEof ==
  /\ up /\ sz.stage = "data" /\ sz.next > Chunks
  /\ sz' = [sz EXCEPT !.stage = "eof", !.open = FALSE]
  /\ Says(EndFrame \o <<Token(sz, "ZEOF", 0, "none")>>)
  /\ UNCHANGED <<receiver, toHost, up, troubles, exit, restarted>>

\* A second ZRPOS: the file is sent again.
Restart ==
  /\ sz' = [sz EXCEPT !.stage = "data", !.next = 1, !.open = FALSE]
  /\ Says(EndFrame)
  /\ restarted' = restarted \cup {<<sz.run, sz.file>>}

\* What sz does with one answer.
Answered(reply) ==
  CASE reply = "CANCEL" /\ sz.stage # "gone" -> Leave(sz, <<>>, "error") /\ UNCHANGED restarted
    [] reply = "ZFIN" /\ sz.stage = "fin" ->
         Leave(sz, <<Token(sz, "OO", 0, "none")>>, "ok") /\ UNCHANGED restarted
    [] reply = "ZFIN" /\ sz.stage \in {"file", "data", "eof"} ->
         Leave(sz, <<>>, "error") /\ UNCHANGED restarted
    [] reply = "ZRINIT" /\ sz.stage = "init" ->
         SendFile(sz, 1) /\ UNCHANGED <<exit, restarted>>
    [] reply = "ZRINIT" /\ sz.stage = "file" ->
         SendFile(sz, sz.file) /\ UNCHANGED <<exit, restarted>>
    [] reply = "ZRINIT" /\ sz.stage = "eof" /\ sz.file < FilesOf[sz.run] ->
         SendFile(sz, sz.file + 1) /\ UNCHANGED <<exit, restarted>>
    [] reply = "ZRINIT" /\ sz.stage = "eof" /\ sz.file = FilesOf[sz.run] ->
         SendFin(sz) /\ UNCHANGED <<exit, restarted>>
    [] reply = "ZRPOS" /\ sz.stage = "file" ->
         sz' = [sz EXCEPT !.stage = "data"] /\ UNCHANGED <<fromHost, exit, restarted>>
    [] reply = "ZRPOS" /\ sz.stage \in {"data", "eof"} -> Restart /\ UNCHANGED exit
    [] OTHER -> UNCHANGED <<sz, fromHost, exit, restarted>>

\* sz reads an answer; when it is gone the shell reads it.
ReadAnswer ==
  /\ up /\ toHost # <<>>
  /\ toHost' = Tail(toHost)
  /\ Answered(Head(toHost))
  /\ UNCHANGED <<receiver, up, troubles>>

Unanswered == sz.stage \in {"init", "file", "eof"} \/ (sz.stage = "fin" /\ sz.speaks)

RepeatHeader ==
  Says(<<Token(sz, CASE sz.stage = "init" -> "ZRQINIT" [] sz.stage = "file" -> "ZFILE"
                     [] sz.stage = "eof" -> "ZEOF" [] sz.stage = "fin" -> "ZFIN", 0, "none")>>)

\* The time sz waits for an answer is over: the answer is slow ...
RepeatEarly ==
  /\ up /\ Unanswered
  /\ RepeatHeader /\ Trouble("early")
  /\ UNCHANGED <<receiver, sz, exit, restarted, toHost, up>>

\* ... or does not come at all.
RepeatQuiet ==
  /\ up /\ Unanswered /\ fromHost = <<>> /\ toHost = <<>>
  /\ pc = "shell" /\ ~cooling
  /\ RepeatHeader
  /\ UNCHANGED <<receiver, sender, toHost, up>>

\* sz is interrupted: it cancels with CANs, another sender with a header.
Abort ==
  /\ up /\ sz.stage # "gone" /\ Trouble("abort")
  /\ \E kind \in {"CANs", "ZABORT"} : Leave(sz, <<Token(sz, kind, 0, "none")>>, "error")
  /\ UNCHANGED <<receiver, toHost, up, restarted>>

LineDrops ==
  /\ up /\ up' = FALSE /\ Trouble("drop")
  /\ UNCHANGED <<receiver, sz, exit, restarted, fromHost, toHost>>

-----------------------------------------------------------------------------
(***************************************************************************)
(* The session loop.                                                       *)
(***************************************************************************)

IsFrame(t) == t.kind \in Frames

\* The prompts among toks meet this fate.
Mark(toks, fate) ==
  [r \in RunIds |-> IF \E i \in DOMAIN toks : toks[i].kind = "text" /\ toks[i].run = r
                    THEN fate ELSE prompt[r]]

\* A read of the channel returns the next n tokens.
Reads(n) ==
  /\ n \in 1..Len(fromHost)
  /\ fromHost' = SubSeq(fromHost, n + 1, Len(fromHost))

contains_zmodem_init(data) == \E i \in DOMAIN data : IsFrame(data[i])

\* channel.wait() in the session loop: ordinary output, or the start of a receive.
ReadOutput(n) ==
  LET data == SubSeq(fromHost, 1, n) IN
  /\ pc = "shell" /\ Reads(n)
  /\ IF contains_zmodem_init(data) /\ ~cooling
     THEN /\ pc' = "header" /\ buf' = data /\ cur' = 0 /\ received' = 0
          /\ UNCHANGED prompt
     ELSE prompt' = Mark(data, "shown") /\ UNCHANGED <<pc, buf, cur, received>>
  /\ UNCHANGED <<rows, cooling, sender, toHost, up>>

TwoSecondsPass ==
  /\ pc = "shell" /\ cooling /\ cooling' = FALSE
  /\ UNCHANGED <<pc, buf, cur, received, rows, prompt, sender, fromHost, toHost, up>>

SessionEnds ==
  /\ pc = "shell" /\ ~up /\ fromHost = <<>> /\ pc' = "ended"
  /\ UNCHANGED <<buf, cur, received, rows, cooling, prompt, sender, fromHost, toHost, up>>

-----------------------------------------------------------------------------
(***************************************************************************)
(* zmodem::receive.                                                        *)
(***************************************************************************)

\* What is sent when the channel is closed goes nowhere, or is refused (SendFails).
send_hex(replies) == toHost' = IF up THEN toHost \o replies ELSE toHost

\* Back in the session loop, with this done to the prompts in the buffer.
Return(prompts) ==
  /\ pc' = "shell" /\ cooling' = TRUE /\ buf' = <<>> /\ cur' = 0
  /\ prompt' = prompts

\* receive fails: the rest of the buffer is dropped and the sender cancelled.
Bail ==
  /\ Return(Mark(buf, "lost"))
  /\ send_hex(<<"CANCEL">>)
  /\ UNCHANGED <<received, rows, sz, exit, restarted, up>>

\* Mutant: the receiver waits for the ZFIN of the sender and sends none.
WaitForGoodBye(rest) ==
  IF received > 0
  THEN /\ pc' = "drain" /\ buf' = rest
       /\ send_hex(<<"ZRINIT">>)
       /\ UNCHANGED <<cooling, cur, prompt>>
  ELSE Return(Mark(rest, "shown")) /\ UNCHANGED toHost

\* The receive loop is left without an error, with rest still in the buffer.
GoodBye(rest) ==
  IF received > 0
  THEN /\ pc' = "drain" /\ buf' = rest
       /\ send_hex(<<"ZRINIT", "ZFIN">>)
       /\ UNCHANGED <<cooling, cur, prompt>>
  ELSE Return(Mark(rest, "shown")) /\ UNCHANGED toHost

\* Rx::byte pulls more data when the buffer is empty.
Fetch(n) ==
  /\ pc \in Receiving /\ buf = <<>> /\ Reads(n)
  /\ buf' = SubSeq(fromHost, 1, n)
  /\ UNCHANGED <<pc, cur, received, rows, cooling, prompt, sender, toHost, up>>

\* Mutant: a read fails only when the channel is closed.
NothingOnceClosed ==
  /\ pc \in {"header", "data"} /\ buf = <<>> /\ fromHost = <<>> /\ ~up
  /\ Bail /\ UNCHANGED <<troubles, fromHost>>

\* A read fails when the channel is closed, or after 30 seconds of nothing.
NothingToRead ==
  /\ pc \in {"header", "data"} /\ buf = <<>> /\ fromHost = <<>>
  /\ Bail /\ UNCHANGED <<troubles, fromHost>>

\* Scanning for a header: whatever is none is skipped, a prompt included.
SkipGarbage ==
  /\ pc \in {"header", "peek"} /\ buf # <<>> /\ ~IsFrame(Head(buf))
  /\ buf' = Tail(buf)
  /\ prompt' = Mark(<<Head(buf)>>, "lost")
  /\ UNCHANGED <<pc, cur, received, rows, cooling, sender, fromHost, toHost, up>>

Header(kind) == pc = "header" /\ buf # <<>> /\ Head(buf).kind = kind

OnZRQINIT ==
  /\ Header("ZRQINIT")
  /\ buf' = Tail(buf) /\ send_hex(<<"ZRINIT">>)
  /\ UNCHANGED <<pc, cur, received, rows, cooling, prompt, sender, fromHost, up>>

\* A new row and a new, empty file; the one that was open is just dropped.
OpenRow(t) ==
  rows' = Append(rows, [run |-> t.run, file |-> t.file, data |-> <<>>, state |-> "running"])

OnZFILE ==
  /\ Header("ZFILE")
  /\ buf' = Tail(buf) /\ send_hex(<<"ZRPOS">>)
  /\ OpenRow(Head(buf))
  /\ cur' = Len(rows')
  /\ UNCHANGED <<pc, received, cooling, prompt, sender, fromHost, up>>

OnZDATA ==
  /\ Header("ZDATA")
  /\ buf' = Tail(buf) /\ pc' = "data"
  /\ UNCHANGED <<cur, received, rows, cooling, prompt, sender, fromHost, toHost, up>>

\* Mutant: the terminator is looked at before the data are written.
WriteChunkEarlyBreak(t, rs) ==
  IF cur = 0 \/ t.n = 0 \/ t.arg \in EndOfFrame THEN rs
  ELSE [rs EXCEPT ![cur].data = Append(@, <<t.run, t.file, t.n>>)]

\* The data go to the end of the open file, wherever the sender says they belong.
WriteChunk(t, rs) ==
  IF cur = 0 \/ t.n = 0 THEN rs
  ELSE [rs EXCEPT ![cur].data = Append(@, <<t.run, t.file, t.n>>)]

OnSubpacket ==
  /\ pc = "data" /\ buf # <<>> /\ Head(buf).kind = "sub"
  /\ buf' = Tail(buf)
  /\ rows' = WriteChunk(Head(buf), rows)
  /\ send_hex(IF Head(buf).arg \in AckExpected THEN <<"ZACK">> ELSE <<>>)
  /\ pc' = IF Head(buf).arg \in EndOfFrame THEN "header" ELSE "data"
  /\ UNCHANGED <<cur, received, cooling, prompt, sender, fromHost, up>>

\* Anything else in a subpacket is taken for its data, and fails the checksum
\* or is waited on: with it goes all that follows.
SpoiltSubpacket ==
  /\ pc = "data" /\ buf # <<>> /\ Head(buf).kind # "sub"
  /\ Bail /\ UNCHANGED <<troubles, fromHost>>

CloseRow(rs) == IF cur = 0 THEN rs ELSE [rs EXCEPT ![cur].state = "done"]

CountFile == rows' = CloseRow(rows) /\ received' = received + (IF cur = 0 THEN 0 ELSE 1)

OnZEOF ==
  /\ Header("ZEOF")
  /\ buf' = Tail(buf)
  /\ CountFile /\ cur' = 0
  /\ send_hex(<<"ZRINIT">>)
  /\ pc' = "peek"
  /\ UNCHANGED <<cooling, prompt, sender, fromHost, up>>

\* The next file of a multi-file sz; any other header ends the receive.
Peek ==
  /\ pc = "peek" /\ buf # <<>> /\ IsFrame(Head(buf))
  /\ IF Head(buf).kind = "ZFILE"
     THEN pc' = "header" /\ UNCHANGED <<buf, cur, cooling, prompt, toHost>>
     ELSE GoodBye(Tail(buf))
  /\ UNCHANGED <<received, rows, sender, fromHost, up>>

\* Two seconds without a header.
PeekTimesOut ==
  /\ pc = "peek" /\ buf = <<>>
  /\ GoodBye(<<>>)
  /\ UNCHANGED <<received, rows, sender, fromHost, up>>

OnZFIN ==
  /\ Header("ZFIN")
  /\ GoodBye(Tail(buf))
  /\ UNCHANGED <<received, rows, sender, fromHost, up>>

OnZABORT ==
  /\ Header("ZABORT")
  /\ Bail /\ UNCHANGED <<troubles, fromHost>>

\* The file cannot be created, written or flushed.
DiskFails ==
  /\ \/ Header("ZFILE")
     \/ Header("ZEOF") /\ cur # 0
     \/ pc = "data" /\ buf # <<>> /\ Head(buf).kind = "sub" /\ cur # 0
  /\ Trouble("disk") /\ Bail /\ UNCHANGED fromHost

\* An answer is refused by a channel that is closed: receive fails, with what it did before
\* the answer done.
SendFails ==
  /\ ~up
  /\ \/ Header("ZRQINIT") /\ UNCHANGED <<rows, received>>
     \/ Header("ZFILE") /\ OpenRow(Head(buf)) /\ UNCHANGED received
     \/ Header("ZEOF") /\ CountFile
     \/ /\ pc = "data" /\ buf # <<>> /\ Head(buf).kind = "sub" /\ Head(buf).arg \in AckExpected
        /\ rows' = WriteChunk(Head(buf), rows) /\ UNCHANGED received
  /\ Return(Mark(buf, "lost"))
  /\ UNCHANGED <<sender, fromHost, toHost, up>>

\* is_close_byte: hex frames and "OO" consist of them, and so may the start of a
\* prompt.
IsCloseBytes(t) == t.kind \in {"ZFIN", "ZRQINIT", "OO"}
StartsLikeOne(t) == t.kind = "text" /\ t.arg = "hexlike"

\* Mutant: the byte that is none of the close bytes is not put back.
DrainOneTooMany ==
  /\ pc = "drain" /\ buf # <<>>
  /\ IF IsCloseBytes(Head(buf))
     THEN buf' = Tail(buf) /\ UNCHANGED <<pc, cooling, cur, prompt>>
     ELSE Return([Mark(buf, "shown") EXCEPT ![Head(buf).run] = "lost"])
  /\ UNCHANGED <<received, rows, sender, fromHost, toHost, up>>

Drain ==
  /\ pc = "drain" /\ buf # <<>>
  /\ IF IsCloseBytes(Head(buf))
     THEN buf' = Tail(buf) /\ UNCHANGED <<pc, cooling, cur, prompt>>
     ELSE Return(IF StartsLikeOne(Head(buf))
                 THEN [Mark(buf, "shown") EXCEPT ![Head(buf).run] = "cut"]
                 ELSE Mark(buf, "shown"))
  /\ UNCHANGED <<received, rows, sender, fromHost, toHost, up>>

\* 800 milliseconds are over, or the channel is closed.
DrainEnds ==
  /\ pc = "drain" /\ buf = <<>>
  /\ Return(prompt)
  /\ UNCHANGED <<received, rows, sender, fromHost, toHost, up>>

-----------------------------------------------------------------------------
Receive ==
  \/ \E n \in 1..Len(fromHost) : Fetch(n)
  \/ NothingToRead \/ SkipGarbage
  \/ OnZRQINIT \/ OnZFILE \/ OnZDATA \/ OnSubpacket \/ SpoiltSubpacket
  \/ OnZEOF \/ Peek \/ PeekTimesOut \/ OnZFIN \/ OnZABORT \/ DiskFails \/ SendFails
  \/ Drain \/ DrainEnds

SessionLoop ==
  \/ \E n \in 1..Len(fromHost) : ReadOutput(n)
  \/ TwoSecondsPass \/ SessionEnds

SessionTask == Receive \/ SessionLoop

Sz == SendChunk \/ SendEof \/ ReadAnswer

ZmodemNext ==
  \/ SessionTask \/ Sz
  \/ StartSz \/ RepeatEarly \/ RepeatQuiet \/ Abort \/ LineDrops

ZmodemSpec == ZmodemInit /\ [][ZmodemNext]_zmodemVars

\* The session task is polled, its timers run, and a sender that has something to
\* send or an answer to read goes on.  Nobody has to run sz or to interrupt it.
ZmodemFairness ==
  WF_zmodemVars(SessionTask) /\ WF_zmodemVars(Sz) /\ WF_zmodemVars(RepeatQuiet)

ZmodemFairSpec == ZmodemSpec /\ ZmodemFairness

-----------------------------------------------------------------------------
(***************************************************************************)
(* Properties.                                                             *)
(***************************************************************************)

Whole(r, f) == [n \in ChunkIds |-> <<r, f, n>>]

\* A row that says done (zmodem.rs:157) holds its file: every subpacket of it, once,
\* in order and nothing of another file.  A file that the sender started again is
\* excepted: positions are not looked at, and its data are there twice.
CountedIsWhole ==
  \A i \in DOMAIN rows :
    rows[i].state = "done" /\ <<rows[i].run, rows[i].file>> \notin restarted =>
      rows[i].data = Whole(rows[i].run, rows[i].file)

\* When sz takes its leave after the last file, every file it sent is counted: the
\* receiver never says good-bye to a sender that has another file coming, without
\* the sender noticing.
SentIsCounted ==
  \A r \in RunIds : exit[r] = "ok" =>
    \A f \in 1..FilesOf[r] :
      \E i \in DOMAIN rows :
        rows[i].run = r /\ rows[i].file = f /\ rows[i].state = "done"

\* The count in "file(s) downloaded" (zmodem.rs:224) is neither too high, of files that
\* are not whole, nor too low, of files that the sender takes for delivered.
CountsAreRight == CountedIsWhole /\ SentIsCounted

\* The prompt after a complete transfer is not swallowed (zmodem.rs:233), whenever it
\* comes: with the close frames, after them, or after the receiver has gone.  A header
\* repeated early may come that late that it is taken for a new transfer.
PromptIsKept == "early" \notin troubles => \A r \in RunIds : exit[r] = "ok" => prompt[r] # "lost"

\* Stated at zmodem.rs:442, "without eating the shell prompt that follows".  It does
\* not hold: a prompt that starts with a digit or one of a to f loses its start.
PromptIsNotEaten == \A r \in RunIds : exit[r] = "ok" => prompt[r] \notin {"cut", "lost"}

\* The session loop serves nobody while a file is received: it comes back to the
\* user, whatever the sender does (zmodem.rs:270).
LoopIsFreed == pc \in Receiving ~> pc \notin Receiving

\* sz is answered, cancelled or let go, also when it was not noticed at first: it is
\* not left to its own time limit (zmodem.rs:199).
SenderIsReleased == sz.stage # "gone" ~> (sz.stage = "gone" \/ ~up)

\* No end of the receiver, good or bad, leaves the user or the sender waiting (ssh.rs:939).
BothAreReleased == LoopIsFreed /\ SenderIsReleased

=============================================================================
