----------------------------- MODULE ShellStream -----------------------------
(***************************************************************************)
(* The output of an SSH shell on its way to the screen: run_session reads  *)
(* it from the channel in chunks that end anywhere, types its prompt hook  *)
(* after the first of it, hides the echo of that line, takes the working   *)
(* directory (OSC 7) and the command that was run (OSC 697) out of it and  *)
(* reports the rest as Output; the pump thread of the tab joins what is    *)
(* queued and posts it to the UI thread.                                   *)
(*                                                                         *)
(* The bytes are tokens: text, an end of line, the opening of an OSC 7 or  *)
(* of an OSC 697, the BEL that ends one, the echo of the hook, the tail of *)
(* an echo that was wrapped, the text of the hook in what a program prints *)
(* (a history that is listed), and the first frame of a ZMODEM transfer.   *)
(* A buffer is a sequence of positions in `sent', all that the host wrote. *)
(***************************************************************************)
EXTENDS Integers, SequencesExt, FiniteSetsExt

CONSTANTS
  MaxTokens,  \* bound: what the host writes, the answer to the hook apart
  EchoCap,    \* ECHO_BUF_CAP
  OscCap,     \* OSC_PENDING_CAP
  BatchCap    \* MAX_OUTPUT_BATCH

ASSUME CapsAssumption ==
  MaxTokens \in Nat /\ EchoCap \in Nat \ {0} /\ OscCap \in Nat \ {0} /\ BatchCap \in Nat \ {0}

VARIABLES
  sent,         \* the kinds of all tokens the host wrote, in order
  read,         \* how many of them were read from the channel
  answered,     \* how many of them are the answer to the hook, 0 before it
  integration,  \* the session does not disable it
  phase,        \* of the session loop
  injected,     \* prompt_injected
  suppress,     \* suppress_echo
  late,         \* 1200 ms have passed since suppress_started
  echoBuf, oscPending,
  cooling,      \* less than two seconds since the last ZMODEM transfer
  events,       \* the reports of the session, up to the pump
  deferred,     \* pending of recv_coalesced_output: at most one report
  applied,      \* the reports the UI thread has taken in
  cut,          \* history: hidden with the echo of the hook
  blind,        \* history: what of it was never searched for control strings
  moved,        \* history: taken by a ZMODEM transfer
  dropped,      \* history: in the echo buffer when the loop ended
  astray        \* history: bytes went past others that were held back, or past the
                \* search for control strings (TimerFires, Receive, an endless OSC)

host    == <<sent, answered>>
holding == <<suppress, late, echoBuf, oscPending>>
pump    == <<deferred, applied>>
history == <<cut, blind, moved, dropped, astray>>
streamVars    == <<host, read, integration, phase, injected, holding, cooling, events, pump, history>>

Kinds   == {"text", "nl", "cwd", "cmd", "bel", "hook", "tail", "quote", "zinit"}
Hooks   == {"hook", "quote"}         \* what contains PROMPT_PREFIX, whoever printed it
Markers == Hooks \cup {"tail"}
Report  == [type : {"Output", "CwdChanged", "CommandRan"}, data : Seq(Nat)]
Wire    == [i \in 1..(Len(sent) - read) |-> read + i]

StreamTypeOK ==
  /\ sent \in Seq(Kinds) /\ read \in 0..Len(sent)
  /\ answered \in Nat /\ {integration, injected, suppress, late, cooling, astray} \subseteq BOOLEAN
  /\ phase \in {"up", "ended"}
  /\ echoBuf \in Seq(Nat) /\ oscPending \in Seq(Nat)
  /\ {events, deferred, applied} \subseteq Seq(Report) /\ Len(deferred) <= 1
  /\ cut \subseteq 1..read /\ blind \subseteq cut /\ moved \subseteq 1..read /\ dropped \subseteq 1..read

StreamInit ==
  /\ sent = <<>> /\ read = 0 /\ answered = 0
  /\ integration \in BOOLEAN /\ phase = "up" /\ injected = FALSE
  /\ suppress = FALSE /\ late = FALSE /\ echoBuf = <<>> /\ oscPending = <<>>
  /\ cooling = FALSE
  /\ events = <<>> /\ deferred = <<>> /\ applied = <<>>
  /\ cut = {} /\ blind = {} /\ moved = {} /\ dropped = {} /\ astray = FALSE

-----------------------------------------------------------------------------
(***************************************************************************)
(* What is found in a buffer b.                                            *)
(***************************************************************************)
Is(b, i, kinds)      == sent[b[i]] \in kinds
Some(b, p, q, kinds) == \E k \in p..q : Is(b, k, kinds)
Where(b, kinds)      == {i \in DOMAIN b : Is(b, i, kinds)}
Openers == {"cwd", "cmd"}

\* The control strings, as <<first, last>>: opened outside of any other, and ended by the
\* first BEL behind.
Oscs(b) ==
  {o \in Where(b, Openers) \X Where(b, {"bel"}) :
     /\ o[1] < o[2] /\ ~Some(b, o[1], o[2] - 1, {"bel"})
     /\ \A h \in 1..(o[1] - 1) : Is(b, h, Openers) => Some(b, h, o[1], {"bel"})}

Cwds(b)     == {o \in Oscs(b) : Is(b, o[1], {"cwd"})}
Commands(b) == {o \in Oscs(b) : Is(b, o[1], {"cmd"})}

Open(b) == {i \in Where(b, Openers) : ~Some(b, i, Len(b), {"bel"})}

\* Mutant: a control string that has not ended is not held back.
all_of_it(b) == Len(b)

complete_osc_prefix_len(b) == IF Open(b) = {} THEN Len(b) ELSE Min(Open(b)) - 1

\* b at the positions P, in their order.
Part(b, P) == [r \in 1..Cardinality(P) |->
                 b[CHOOSE i \in P : Cardinality({j \in P : j <= i}) = r]]

\* b without its positions p to q.
Drain(b, p, q) == SubSeq(b, 1, p - 1) \o SubSeq(b, q + 1, Len(b))

LineStart(b, p) == Max({0} \cup {i \in 1..(p - 1) : Is(b, i, {"nl"})}) + 1

Marks(b) == Where(b, Markers)

\* The line of the first mark goes, or what there is of it.
strip_prompt_setup_echo(b) ==
  IF Marks(b) = {} THEN b
  ELSE LET mark == Min(Marks(b))
           ends == {i \in mark..Len(b) : Is(b, i, {"nl"})}
       IN Drain(b, LineStart(b, mark), IF ends = {} THEN Len(b) ELSE Min(ends))

\* The hook in the echo buffer and the end of the OSC 7 that follows it, if both are there.
Landed(b) ==
  LET hooks == Where(b, Hooks)
      p     == Min(hooks)
      after == {o[2] + p - 1 : o \in Cwds(SubSeq(b, p, Len(b)))}
  IN IF hooks = {} \/ after = {} THEN {} ELSE {<<p, Min(after)>>}

-----------------------------------------------------------------------------
(***************************************************************************)
(* Reports.                                                                *)
(***************************************************************************)
Output(b) == IF b = <<>> THEN <<>> ELSE <<[type |-> "Output", data |-> b]>>

\* One report for each control string of b in oscs, in their order.
Tell(type, b, oscs) ==
  LET firsts == Part(b, {o[1] : o \in oscs})
  IN [i \in DOMAIN firsts |-> [type |-> type, data |-> <<firsts[i]>>]]

\* b without the control strings in oscs.
Without(b, oscs) == Part(b, DOMAIN b \ UNION {o[1]..o[2] : o \in oscs})

\* Mutant: what was held back is put behind what has come since.
ScanPendingLast(bytes, before, hidden) ==
  LET all == bytes \o oscPending
      n   == complete_osc_prefix_len(all)
      out == SubSeq(all, 1, n)
      text == Without(out, Commands(out))
      shown == strip_prompt_setup_echo(text)
  IN /\ oscPending' = SubSeq(all, n + 1, Len(all))
     /\ events' = events \o before \o Tell("CwdChanged", out, Cwds(out))
                         \o Tell("CommandRan", out, Commands(out)) \o Output(shown)
     /\ cut' = cut \cup hidden \cup (ToSet(text) \ ToSet(shown))
     /\ blind' = blind \cup hidden
     /\ UNCHANGED astray

\* The way of all output that is not buffered: behind the tail that is held, as far as its
\* control strings have ended; cwds are reported, commands too and taken out, and a late
\* echo of the hook is hidden.
Scan(bytes, before, hidden) ==
  LET all  == oscPending \o bytes
      over == complete_osc_prefix_len(all) = 0 /\ Len(all) >= OscCap
      n    == IF over THEN Len(all) ELSE complete_osc_prefix_len(all)
      out  == SubSeq(all, 1, n)
      text == Without(out, Commands(out))
      shown == strip_prompt_setup_echo(text)
  IN /\ oscPending' = SubSeq(all, n + 1, Len(all))
     /\ events' = events \o before \o Tell("CwdChanged", out, Cwds(out))
                         \o Tell("CommandRan", out, Commands(out)) \o Output(shown)
     /\ cut' = cut \cup hidden \cup (ToSet(text) \ ToSet(shown))
     /\ blind' = blind \cup hidden
     /\ astray' = (astray \/ over)

-----------------------------------------------------------------------------
(***************************************************************************)
(* The host.                                                               *)
(***************************************************************************)
Writings == {<<"text">>, <<"nl">>, <<"cwd", "bel">>, <<"cmd", "bel">>, <<"cwd">>, <<"quote", "nl">>,
             <<"zinit">>}
\* The echo, wrapped or not, and what a shell that knows OSC 7 and one that does not say.
Answers  == {<<"hook", "nl", "cwd", "bel">>, <<"hook", "nl", "tail", "nl", "cwd", "bel">>,
             <<"hook", "nl", "text">>}

HostWrites ==
  /\ phase = "up"
  /\ \E w \in Writings : /\ Len(sent) - answered + Len(w) <= MaxTokens
                         /\ sent' = sent \o w
  /\ UNCHANGED <<answered, read, integration, phase, injected, holding, cooling, events, pump,
                 history>>

\* The line that was typed reaches the shell, if there is one that echoes.
HostAnswersHook ==
  /\ phase = "up" /\ injected /\ answered = 0
  /\ \E w \in Answers : sent' = sent \o w /\ answered' = Len(w)
  /\ UNCHANGED <<read, integration, phase, injected, holding, cooling, events, pump, history>>

-----------------------------------------------------------------------------
(***************************************************************************)
(* The session loop.                                                       *)
(***************************************************************************)
Data(n)      == SubSeq(Wire, 1, n)
IsTransfer(n) == ~cooling /\ \E i \in 1..n : Is(Wire, i, {"zinit"})
Reads(n)     == phase = "up" /\ n \in 1..Len(Wire) /\ read' = read + n

\* The first output that is not blank: it is shown, and the hook typed.
Injects(n) == integration /\ ~injected /\ \E i \in 1..n : ~Is(Wire, i, {"nl"})

ReadPlain(n) ==
  /\ Reads(n) /\ ~IsTransfer(n) /\ (~suppress \/ Injects(n))
  /\ IF Injects(n) THEN injected' = TRUE /\ suppress' = TRUE /\ late' = FALSE
                   ELSE UNCHANGED <<injected, suppress, late>>
  /\ Scan(Data(n), <<>>, {})
  /\ UNCHANGED <<host, integration, phase, echoBuf, cooling, pump, moved, dropped>>

StopSuppressing == suppress' = FALSE /\ late' = FALSE /\ echoBuf' = <<>>

\* Mutant: all that came before the echo is hidden with it (the MOTD of #98).
CutFromStart(buf, p) == 1

\* Where the span that is hidden starts.
CutFrom(buf, p) == LineStart(buf, p)

\* The echo and its OSC 7 are there: from the start of the line of the hook to the end of
\* the OSC 7 all is hidden, and the directory is reported before what comes before it.
ReadLanded(n) ==
  LET buf == echoBuf \o Data(n) IN
  /\ Reads(n) /\ ~IsTransfer(n) /\ suppress
  /\ \E l \in Landed(buf) :
       LET span == CutFrom(buf, l[1])..l[2]
           cwd  == CHOOSE o \in Cwds(SubSeq(buf, l[1], l[2])) : TRUE
       IN Scan(Drain(buf, CutFrom(buf, l[1]), l[2]),
               <<[type |-> "CwdChanged", data |-> <<buf[cwd[1] + l[1] - 1]>>]>>,
               {buf[k] : k \in span})
  /\ StopSuppressing
  /\ UNCHANGED <<host, integration, phase, injected, cooling, pump, moved, dropped>>

\* Not yet: more is buffered, unless there is too much of it or it took too long.
ReadSuppressed(n) ==
  LET buf   == echoBuf \o Data(n)
      shown == strip_prompt_setup_echo(buf)
  IN /\ Reads(n) /\ ~IsTransfer(n) /\ suppress /\ Landed(buf) = {}
     /\ IF Len(buf) >= EchoCap \/ late
        THEN StopSuppressing /\ Scan(shown, <<>>, ToSet(buf) \ ToSet(shown))
        ELSE /\ echoBuf' = buf
             /\ UNCHANGED <<suppress, late, oscPending, events, cut, blind, astray>>
     /\ UNCHANGED <<host, integration, phase, injected, cooling, pump, moved, dropped>>

TimePasses ==
  /\ phase = "up" /\ suppress /\ ~late /\ late' = TRUE
  /\ UNCHANGED <<host, read, integration, phase, injected, suppress, echoBuf, oscPending,
                 cooling, events, pump, history>>

\* Mutant: the time is looked at only when something is read.
TimerNeverFires == FALSE /\ UNCHANGED streamVars

\* The arm of the 1200 ms: the buffer goes out as it is, past the control string that is
\* held back, and its own control strings are not looked at.
TimerFires ==
  LET shown == strip_prompt_setup_echo(echoBuf) IN
  /\ phase = "up" /\ suppress /\ late
  /\ StopSuppressing
  /\ events' = events \o Output(shown)
  /\ cut' = cut \cup (ToSet(echoBuf) \ ToSet(shown))
  /\ blind' = blind \cup (ToSet(echoBuf) \ ToSet(shown))
  /\ astray' = (astray \/ oscPending # <<>> \/ \E i \in DOMAIN shown : Is(shown, i, Openers))
  /\ UNCHANGED <<host, read, integration, phase, injected, oscPending, cooling, pump, moved,
                 dropped>>

\* zmodem::receive takes the channel over.  What it hands back is the end of what it has
\* read; it goes out as it is, after the first directory in it; a failed one drops all.
Receive(n) ==
  /\ Reads(n) /\ IsTransfer(n)
  /\ cooling' = TRUE
  /\ \E k \in 0..(n - 1) :
       LET rest == SubSeq(Wire, k + 2, n)
           cwd  == Tell("CwdChanged", rest, {o \in Cwds(rest) : \A p \in Cwds(rest) : o[1] <= p[1]})
       IN /\ \E i \in 1..(k + 1) : Is(Wire, i, {"zinit"})
          /\ moved' = moved \cup {Wire[i] : i \in 1..(k + 1)}
          /\ events' = events \o cwd \o Output(rest)
          /\ astray' = (astray \/ (rest # <<>> /\ (oscPending # <<>> \/ echoBuf # <<>>))
                               \/ \E i \in DOMAIN rest : Is(rest, i, Openers))
  /\ UNCHANGED <<host, integration, phase, injected, holding, pump, cut, blind, dropped>>

TwoSecondsPass ==
  /\ phase = "up" /\ cooling /\ cooling' = FALSE
  /\ UNCHANGED <<host, read, integration, phase, injected, holding, events, pump, history>>

\* Close, a failed write, or the channel closes: the tail that was held back is shown, the
\* echo buffer is not.  What has not been read goes with the channel, what comes is left out.
LoopEnds ==
  /\ phase = "up" /\ phase' = "ended"
  /\ events' = events \o Output(oscPending)
  /\ dropped' = ToSet(echoBuf)
  /\ oscPending' = <<>> /\ echoBuf' = <<>>
  /\ suppress' = FALSE /\ late' = FALSE /\ cooling' = FALSE
  /\ sent' = SubSeq(sent, 1, read)
  /\ UNCHANGED <<answered, read, integration, injected, pump, cut, blind, moved, astray>>

-----------------------------------------------------------------------------
(***************************************************************************)
(* The pump thread.                                                        *)
(***************************************************************************)
Queue == deferred \o events

\* How many of the reports at the head of q are one batch of output, after the first.
Size(q, k) == Len(FlattenSeq([i \in 1..k |-> q[i].data]))
Joined(q) ==
  Max({1} \cup {k \in 2..Len(q) :
                  /\ \A i \in 1..k : q[i].type = "Output"
                  /\ \A i \in 1..(k - 1) : Size(q, i) < BatchCap
                  /\ \A i \in 2..k : Size(q, i) <= BatchCap})

\* Behind k reports of output one more is looked at, unless the batch is full.
Looked(q, k) ==
  IF q[1].type = "Output" /\ k < Len(q) /\ Size(q, k) < BatchCap THEN 1 ELSE 0

\* Mutant: the report that ends a batch is forgotten.
DeferNothing(q, k) == <<>>

\* The report that ended a batch is kept for the next turn.
Defer(q, k) == SubSeq(q, k + 1, k + Looked(q, k))

\* recv_coalesced_output, and the UI thread takes in what is posted.
Pump ==
  /\ Queue # <<>>
  /\ LET k == Joined(Queue)
     IN /\ applied' = applied \o SubSeq(Queue, 1, k)
        /\ deferred' = Defer(Queue, k)
        /\ events' = SubSeq(Queue, k + Looked(Queue, k) + 1, Len(Queue))
  /\ UNCHANGED <<host, read, integration, phase, injected, holding, cooling, history>>
-----------------------------------------------------------------------------
Loop == \/ \E n \in 1..Len(Wire) : \/ ReadPlain(n) \/ ReadLanded(n) \/ ReadSuppressed(n)
                                   \/ Receive(n)
        \/ TimerFires

StreamNext == \/ HostWrites \/ HostAnswersHook
        \/ Loop \/ LoopEnds \/ TimePasses \/ TwoSecondsPass \/ Pump

StreamSpec == StreamInit /\ [][StreamNext]_streamVars

\* Time passes, and the runtime polls a task whose timer is due.
StreamFairness == WF_streamVars(TimePasses) /\ WF_streamVars(TimerFires)

StreamFairSpec == StreamSpec /\ StreamFairness

-----------------------------------------------------------------------------
(***************************************************************************)
(* Properties.                                                             *)
(***************************************************************************)

\* All that was reported, whether the UI thread has taken it in or not.
Told == applied \o Queue

\* The reports of a type in a log, the tokens in them, and that these are in the order of
\* the stream, nothing twice.
Of(log, type)  == {r \in DOMAIN log : log[r].type = type}
Ids(log, type) == UNION {ToSet(log[r].data) : r \in Of(log, type)}
Rising(s)      == \A i, j \in DOMAIN s : i < j => s[i] < s[j]
InOrder(log, type) ==
  /\ \A r \in Of(log, type) : Rising(log[r].data)
  /\ \A q, r \in Of(log, type) :
       q < r => \A i \in ToSet(log[q].data), j \in ToSet(log[r].data) : i < j

Held == ToSet(echoBuf) \cup ToSet(oscPending)

\* The control strings in a set S of tokens of the stream, as those of a buffer.
BelWithin(S, p, q) == \E k \in S : p <= k /\ k <= q /\ sent[k] = "bel"
StringsOf(S, kind) ==
  {o \in S \X S : /\ sent[o[1]] = kind /\ sent[o[2]] = "bel"
                  /\ o[1] < o[2] /\ ~BelWithin(S, o[1], o[2] - 1)
                  /\ \A h \in S : h < o[1] /\ sent[h] \in Openers => BelWithin(S, h, o[1])}
Body(S, o) == {k \in S : o[1] <= k /\ k <= o[2]}

\* What was searched for control strings, or is to be, and the commands in it.
Searched == (1..read) \ (blind \cup moved \cup dropped)
Ran      == {o \in StringsOf(Searched, "cmd") : o[1] \in Ids(Told, "CommandRan")}
TakenOut == UNION {Body(Searched, o) : o \in Ran}

\* Reads may end anywhere, the echo is buffered, tails are held back and the pump joins
\* and defers; what is displayed is in the order the host wrote it, nothing twice.
OutputKeepsOrder == ~astray => InOrder(Told, "Output")

\* What was read and is neither held nor part of a transfer is on display, but for commands
\* that were reported, what is hidden with the hook, and an echo buffer the loop ended on.
NothingIsLost ==
  ~astray => 1..read \subseteq Ids(Told, "Output") \cup Held \cup moved \cup cut \cup dropped \cup TakenOut

\* The screen gets the stream of the host: in its order, and all of it but what is meant
\* to be hidden, wherever the reads end, the timers fire and the reports are joined.
DisplayedIsTheStream == OutputKeepsOrder /\ NothingIsLost

\* The text in which a token was hidden: as it was read, or what was left of it once the
\* commands were taken out.
TextOf(i) == IF i \in blind THEN (1..read) \ moved ELSE Searched \ TakenOut

OnLine(i, p) ==
  ~\E k \in TextOf(i) : sent[k] = "nl" /\ ((i <= k /\ k < p) \/ (p < k /\ k < i))

\* What is hidden is the echo of the hook: its lines, and what stands between it and the
\* end of the OSC 7 that the hook prints; never what the server said before (#98).  A line
\* that quotes the hook is taken for its echo.
OnlyTheEchoIsHidden ==
  ~astray => \A i \in cut : \E h \in 1..read :
    \/ sent[h] \in Markers /\ OnLine(i, h)
    \/ /\ i \in blind /\ sent[h] \in Hooks /\ h < i
       /\ \A o \in StringsOf((h..read) \ moved, "cwd") : i <= o[2]

\* Stated at ssh.rs:95 and 127-130: what is removed is the line that was echoed, as it is
\* "unquestionably our internal hook".  It does not hold: every read of every session is
\* searched, and a line of ordinary output that holds the text of the hook goes too.
QuotesAreShown == \A i \in cut : sent[i] # "quote"

\* Commands are reported once, in their order, as the stream has them wherever the reads
\* were cut, unless they are held, hidden, taken by a transfer or dropped.
CommandsAreReportedOnce ==
  ~astray => /\ InOrder(Told, "CommandRan")
             /\ Ids(Told, "CommandRan") =
                  {o[1] : o \in {c \in StringsOf(Searched, "cmd") : Body(Searched, c) \cap Held = {}}}

\* The first prompt is not held back for ever by a shell that never answers the hook.
PromptIsReleased == suppress ~> ~suppress
=============================================================================
