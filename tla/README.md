# A verification project for cloudshell

cloudshell is a desktop terminal: SSH, Telnet, serial port and local shell
sessions in tabs, with an SFTP side panel, port forwarding, ZMODEM receive and
a system overview. The files in this directory model what its threads, tasks
and dialogs do to each other, check the models with TLC, and prove theorems
about them with TLAPS. Paths below are relative to the repository.

Contents: 1 the system, 2 the modules and the plan, 3 module by module,
4 the runs and their bounds, 5 fairness, 6 what is proved, 7 what the checks
found in the code, 8 what is not modelled.

## 1. The system

### How it runs

One process. The **UI thread** owns the window and all its state (a set of
`Rc<RefCell<...>>` maps in `src/app.rs`). Each session is a **worker**, a task
of the tokio runtime (with a reader thread for serial ports and local shells).
A worker takes commands from one unbounded channel and reports on another; a
**pump thread** per worker posts each report to the UI thread. The UI thread
never waits for a worker. A worker waits for the UI thread in two places only:
the host key dialog and the login dialog. Nothing is persisted except the
session store, the known hosts file and the error log.

What makes this hard to get right is the same everywhere: a report or an
answer is labelled with the id of a *tab*, *host*, *session*, *page* or
*transfer*, and what that id stands for may have been closed, replaced, edited
or decided while the report was on its way.

### Components

| Component | State | Operations | Interacts with | What makes it correct |
| --- | --- | --- | --- | --- |
| Terminal tabs and session workers (`app.rs`, `app/state.rs`, `ssh.rs`, `telnet.rs`, `serial.rs`, `local.rs`) | `TabInfo`, `TabStatus`, handle maps, screen buffers; per worker its channels, its reader, its stage | connect, reconnect in place (Enter), close, type (also to all tabs), apply a report; connect, run, fail, end | commands down, reports up, labelled by tab | what a tab shows is true of the session behind it; a session that ends says so; a replaced or closed session goes away |
| Host key trust (`ssh.rs`, `known_hosts.rs`, `app.rs`) | known hosts file, dialog queue, decisions of the run | verify, prompt, merge, decide, remember | each connection blocks on the answer; the file is shared by all | no key is trusted without a reason; what is accepted is remembered; nobody waits for ever |
| Credential prompts (`ssh.rs`, `config.rs`, `app.rs`) | dialog queue, answers of the run, stored credentials | resolve, prompt, merge, answer, remember; edit and remove sessions | as above, and the session store | each connection gets the answer once; remember saves what was asked for |
| SFTP worker and transfers (`sftp.rs`, `app.rs`) | command queue, cancel flags, temporary archives, rows of the transfer list | download, upload, archive, open elsewhere, cancel, clear, close; watch a copy | command loop, a task per transfer and per watched copy, one shared connection; another program | rows tell how transfers ended; a cancel works; no half file or archive is left; what is saved in the other program comes home |
| SFTP panel and built-in editor (`app.rs`, `sftp.rs`, `ui/app.slint`) | per tab the directory that is named, the rows on show, their check boxes, the followed directory and its timer; one delete dialog and one editor for the window | navigate, refresh, follow the shell, select, download, upload, delete, rename and the like, view, edit, save | shell reports, command loop and upload tasks all set what is shown | the panel ends where the shell is; what was changed is on show; deleted is what was asked about; an edit goes back where it came from |
| System information pages (`app.rs`, `ssh.rs`) | pages, the terminal each was opened for | open, refresh, answer, close | one request to the worker, one answer labelled with the page | one question at a time; no page without a terminal; no page waits in vain |
| Process monitor (`app.rs`, `ssh.rs`, `ui/app.slint`) | the popup and what its callbacks last saw; per worker the unread orders and the channel of `ps`; the list | open, close, switch tab, order, read, report, refresh | an order to every worker, lists back | only the session on screen is monitored, while the popup is open; a popup that opens is fed by it |
| Shell output stream (`ssh.rs`, `app.rs`) | the echo buffer, the held control string, the time of the last transfer; deferred reports | inject the prompt hook, hide its echo, scan control strings, hand over to ZMODEM and back, join reports | reads of the channel, ZMODEM, the UI thread | what is displayed is the stream, in order and whole, but for the echo; commands and directories are reported once |
| Session store (`config.rs`) | sessions, groups, settings, history in memory and on disk | load, save, import, export | UI thread only | what is saved is what is loaded; ids stay unique; passwords survive a round trip |
| Error log (`errlog.rs`) | one capped file | append, trim | any thread | bounded, whole lines |
| SSH connection and port forwarding (`ssh.rs`, `forward.rs`) | the connections to jump host and target, listeners, connections made through forwards | connect, log in, try again, time out; bind, accept, negotiate, splice; abort, disconnect | the two dialogs, the server, clients of the forwards | a run that is over leaves no connection and no listener |
| ZMODEM receiver (`zmodem.rs`, `ssh.rs`) | the read buffer, the open file, the count; the cool-down of the session loop | detect, receive, close handshake, hand back the rest | takes over the shell's channel from the session loop, which serves nobody meanwhile | what is counted is whole; the sender is let go; the user gets the terminal and the prompt back |
| Terminal buffer and selection (`app.rs`, `app/state.rs`) | scrollback, the screen last seen, the window, the two ends of the selection | ingest, resize, clear, scroll, select | UI thread only; output comes in batches | the history is what scrolled off; what is marked is copied |
| Quick commands and groups (`app.rs`, `app/models.rs`, `config.rs`) | entries and group names of two lists, their rows, the dialog that edits a command | add, edit, copy, move, delete; make, rename, fold and delete groups | session store | each entry has its row; a menu acts on the entry it is shown at |
| Sampling cadence (`app.rs`) | the interval of the samples | focus, hide, open the popup | UI thread, workers | samples come as often as the window needs them |
| Proxy, ssh_config import, PPK keys, overview parsers, translations, start-up (`proxy.rs`, `ssh_config.rs`, `ppk.rs`, `remote_system.rs`, `system.rs`, `i18n.rs`, `main.rs`) | none that lasts | parse, convert, look up | callers | pure functions |

`PROJECT.json` has the same list with the status of each part, and under
"hazards" the 40 places in this code where something can go wrong that a test
would hardly reach, each with the property that watches it, or the reason why
none does.

## 2. The modules and the plan

Written so far, in this order:

| Module | Models | Abstract specification | Instances | Proofs |
| --- | --- | --- | --- | --- |
| `TabSession` | tabs and workers | `TabPromise`: what a tab promises its user | `MCTabSession`, 1 run | `SessionTask_proofs` |
| `HostKeyTrust` | host key checks, file, dialog | `PromptBroker`: what a dialog promises the tasks that block on it | `MCHostKeyTrust`, 2 runs | in `SshSession_proofs`, with the refinement |
| `CredentialPrompt` | login dialog and store | `PromptBroker` again | `MCSftpTransfers`, with the transfers | `CredentialPrompt_proofs`, with the refinement |
| `SftpTransfers` | command loop, transfers, panel | | `MCSftpTransfers`, 1 run | `SftpTransfers_proofs` |
| `PipelinedCopy` | the copy of one file, inside a transfer | | `MCFileCopies`, 1 run with ZMODEM | `PipelinedCopy_proofs` |
| `SystemInfoPages` | derived tabs, their requests and answers | | `MCSshSession`, 1 run | `SystemInfoPages_proofs` |
| `ConfigStore` | sessions, passwords and their files | | `MCConfigStore`, 1 run | `ConfigStore_proofs` |
| `ZmodemReceiver` | `sz` against the receiver and the session loop around it | | `MCFileCopies`, with the copy | in `SessionTask_proofs` |
| `SftpPanel` | the panels, the worker behind each, the uploads that list, the editor | | `MCSftpPanel`, 2 runs | `SftpPanel_proofs` |
| `ShellStream` | the output of a shell, from the channel to the UI thread | | `MCShellStream`, 3 runs with the terminal | in `SshSession_proofs` |
| `SshConnection` | the connections and port forwards of a session | | `MCSshSession`, with the pages | |
| `TermBuffer` | scrollback and selection of a terminal | | `MCShellStream`, with the stream | in `ConfigStore_proofs` |
| `GroupedLists` | groups of sessions and of quick commands, and their rows | | `MCConfigStore`, with the store | in `ConfigStore_proofs` |
| `EditWatch` | files edited with another program: fetch, watch, upload | | `MCSftpTransfers`, with the transfers | in `SftpTransfers_proofs` |
| `ProcessMonitor` | the process popup and the remote `ps` behind it | | `MCSshSession`, with the pages | in `SystemInfoPages_proofs` |

A proof module holds the proofs of the component it is named after and of those that
share its instances or its lemmas: `ConfigStore_proofs` has the lemmas on counting and on
folds that the store, the terminal and the lists need. `SessionTask_proofs` is about the
task that serves one session, as its tab sees it (`TabSession`) and as an `sz` at its other
end does (`ZmodemReceiver`). `SshSession_proofs` is about the two parts of `ssh.rs` that decide
what reaches the user: whom the session talks to (`HostKeyTrust`) and what of its output is
shown (`ShellStream`).

But for `ProcessMonitor`, which extends `SystemInfoPages` and moves its tabs and workers,
the modules share no variables. They meet at one operator each: "connecting"
in `TabSession` is everything `HostKeyTrust` and `CredentialPrompt` do;
"moving" in `SftpTransfers` is one run of `PipelinedCopy`; the `status` of
`SystemInfoPages` is what `TabSession` reports; what `ZmodemReceiver` does is,
for `TabSession`, a session that runs, and for `ShellStream` one step (`Receive`). The
"login" and "greeting" of `SshConnection` are where `CredentialPrompt` and
`HostKeyTrust` come in; its "loop" is what `ShellStream` and `TabSession` look into.
`TermBuffer` takes in what `ShellStream` hands to the UI thread, and a change of
`GroupedLists` is one that `ConfigStore` saves. An upload of `SftpPanel` is one that
`SftpTransfers` follows in its rows; the fetch of `EditWatch` is a transfer of kind "open"
there, and its loop and uploads are seen from the text they carry.

Five MC modules hold several of these modules (`MCSshSession`, `MCShellStream`,
`MCConfigStore`, `MCSftpTransfers`, `MCFileCopies`): the parts of one session, one terminal,
one store, one SFTP worker with the logins that its side channel asks for, and the two ways
a file comes from the host, of which only one moves. A variable `part` says which of them moves
in a behaviour, so that one run checks all of them and the states add up instead of
multiplying; every action of each part was seen to be taken in a run of that part alone.

Still to be written:

1. The tree of directories beside the panel (`sftp.rs`, `app.rs`).
2. The command history, and the Telnet option parser.

Theorems planned: of `SshConnection`, that what a run which is over still has is on its
way to be closed (the safety part of `NothingIsLeftOpen`).

## 3. Module by module

### TabSession

*State.* Per tab: open or not, `state` (`TabStatus.state`), `lit`
(`TabInfo.connected`), the two handles, and `screen`, the set of workers whose
bytes the present parser has taken in. Per worker: the stage of its task, the
tab it works for, its reader thread, its command channel, its reports up to the
UI thread, and the SFTP worker spawned beside it.

*Actions.* `ConnectSession`, `Reconnect`, `CloseTab`, `SendKey` and
`ApplySessionEvent` are the handlers of `app.rs`, with `start_session_in_tab`
as `StartSessionInTab`. The others are the steps of `run_session`,
`run_telnet`, `run_serial` and `run_local_shell`; `IsKind` says which kind of
session takes which. A report is applied to the tab of its worker, whichever
worker the tab has by then: this is the design whose consequences the
properties are about.

*Abstractions.* The kind of a tab is a constant, although a session can be
edited between two reconnects. Enter on a tab whose session or jump host is
gone changes nothing and is no step. A connect attempt ends, although a
timeout of 0 means none. Adjacent output is one report
(`recv_coalesced_output`). `MaxCmds` bounds the keystrokes that are queued and
`MaxEvents` the reports queued when output or a sample is added; Close,
Connected and Closed are never held back.

### HostKeyTrust

*State.* Per check (one connection's `verify_host_key`): where it is, the key
its server showed, what the file said of it, and the contents `remember` is
about to write. Shared: the file, `HOSTKEY_QUEUE`, `HOSTKEY_DECIDED`, and whether the
event loop runs (`window`). `recorded`, the keys the file ever held for each host, and
`disturbed`, that two saves overlapped or one was cut short, are history.

*Actions.* `CheckServerKey` reads the file and applies the policy.
`LoadKnownHosts`, `TruncateKnownHosts` and `WriteKnownHosts` are the three steps
of `remember`, with no lock between tasks, and `SaveFails` an error in one of
them. `EnqueuePrompt` and `ResolveFront` are the dialog. `WindowGone` is the end of the
event loop, which drops the responders it holds, and `NobodyToAsk` a prompt that finds no
UI: both refuse the key. `Restart` is a program that dies and is started again.

*Abstractions.* The check runs on a task of the SSH library that the connect
timeout does not cancel, so it goes on here whatever becomes of the attempt.
Of two `fs::write` that overlap the last one wins; torn mixtures are left out.
`load` takes a file that cannot be read as an empty one, and a save then
overwrites it; that is not modelled. `Faults` switches crashes and failed
saves on.

### CredentialPrompt

*State.* Per session: which fields the store can fill in, and whether it is
still there. Per connection: where it is and what its copy of the session lacks
while it waits. `CRED_QUEUE`, `CRED_DECIDED`, and whether the window is
there.

*Actions.* `ResolveCredentials`, `EnqueuePrompt`, `ResolveFront` (with
`Persist`), `EditSession`, `RemoveSession`, `WindowGone`.

*Abstractions.* What is typed is not modelled, only which fields were asked
for. "password" stands for everything the chosen method needs. The draft that
a connection test works on is approximated by an edit; the prompts of a jump
host are connections of their own, of their own session.

### ConfigStore

*State.* On disk: `sessions.json`, `json.tmp`, `json.broken`, `secret.key`, an
exported file. Per program: where it is in its start or in a save, its key, its
copy of the sessions, the file it has open, whether its last change got into the
file. `removed` is history: what the user removed.

*Actions.* `LookForKey`, `CreateKey` and `ReadConfig` are `load`; `OpenTmp` (a
part of every change), `WriteTmp`, `Publish` and `SaveFails` are `save`;
`SubmitSession` to `ImportSessions` are the handlers; `Stop` ends or kills a
program; `LoseKey` is a key file that is deleted or truncated.

*Abstractions.* A password is its text and the seals around it; sealing and
opening do what encryption and decryption do, and a text that happens to look
like a sealed password is left out. A session has a name, a place (host, user,
port and kind in one, so that `~/.ssh/config` hosts that differ only in their
port are the same), a password and a jump host. The dialog is one step. A file
that another program has open is followed through a rename by `handle`. What
fails in `load` ends the program, which is a `Stop`. A lost key does not come
back. Groups and quick commands are in `GroupedLists`; history and settings are
saved with the rest and are not modelled.

### PromptBroker and TabPromise

The two abstract specifications. `PromptBroker`: a subject is decided at most
once in a run, everyone who asks is told that decision and nobody is told
anything before it. `TabPromise`: a tab says "disconnected" only of a session
that is over, and only then is a new one put in its place.

### SftpTransfers

*State.* Per transfer: its kind, where its task is, how its copy ended, its
row. Of the worker: the flags on file and those raised, the archives on the
server, the loop, its commands, the connection, the reports under way. `refused` is history: the archives whose removal the server did not
carry out, which the code does not look at.

*Actions.* The requests of the UI thread, `TakeTransfer`, `TakeOpenTemp`,
`TakeCancel` and `TakeClose` of the command loop, and the steps of a transfer:
`StartPacking`, `PackEnds`, `StartMoving`, `Progress`, `Complete`, `SeeCancel`,
`Fail`, `CleanUp`, `Leave`. A file that is opened elsewhere is fetched by the
loop itself, which takes no command meanwhile.

*Abstractions.* A folder is represented by the row of one of its files. The
uploads that synchronise an edit to other sessions are other workers. Commands
that are not transfers are left out: they are answered one by one in between.
`MaxCmds` and `MaxEvents` bound requests and progress reports; a Close is
appended beyond the bound.

### PipelinedCopy

*State.* The source's present length, the file at the destination path and who
wrote each of its chunks; per copy its program counter, the length it was
told, the next chunk, the chunks in flight, end of file, error, cancel flag,
and the file it holds open. `unremoved` is history: the copies that left their destination
behind because its removal failed, which the code does not look at.

*Actions.* `Open`, `DownloadTop`/`ChunkRead` (the pipeline of a download),
`Serial` (without a known size), `UploadTop`/`ChunkWritten`, `Close` with the
two early returns, `Cancel`, `Shrink` (the source is truncated by someone
else), `ConnectionLost`.

*Abstractions.* Data are chunks, known by who wrote them. Removing an open file
leaves it open, as on Unix. Writes that complete after the end of an upload
that failed are not modelled. All copies have one destination, which is the
interesting case.

### SystemInfoPages

*State.* Per tab: what it shows and the worker it holds. Per worker: its stage
and the requests it has not read. The pages being collected, the answers on
their way, the pages and the terminal each was opened for, what is on screen.

*Actions.* `ConnectSession`, `Reconnect`, `Select`, `OpenSystemInfo`,
`RefreshSystemInfo`, `CloseTab` of the user; `ShowConnected`, `ShowClosed`,
`ApplySystemInfo` of the UI thread; `ConnectEnds`, `TakeRequest`, `LoopEnds`,
`Return`, `CollectSystemInfo` of the workers. `LoopEnds` and `Return` are two
steps because the good-bye to the server is awaited between them, while the
channel of requests still takes what is sent.

*Abstractions.* `status` is what the worker a tab holds last reported: late
reports of a replaced worker are the subject of `TabSession`.

### ProcessMonitor

*State.* Tabs, workers and what is on screen are those of `SystemInfoPages`. `popup` is
`proc-open`; `told` is the popup and the tab that the callbacks of the window last saw.
Per worker: the `SetProcessMonitor` it has not read (`orders`), the channel its remote
`ps` runs over (`monitor`), whether a list waits to be applied (`reports`). `list` is the
tab whose processes the popup lists.

*Actions.* `OpenPopup`, `ClosePopup` and `Click` are the mouse, `PressEnter` is Enter in
the terminal, which restarts a session in place. `CallbacksRun` is what
`changed proc-open` and `changed active-tab-id` do (`set_process_monitor`,
`refresh_sidebar`). `ShowProcesses`, `ConnectedShown`, `ClosedShown` apply reports, and
`Tick` is whatever else refreshes the sidebar. `TakeOrder`, `ReadProcesses`,
`MonitorEnds`, `WorkerReturns`, `ConnectOver` are the session task.

*Abstractions.* A list is known by the tab it is of. What a tab's `status` holds of
processes is not followed: a refresh shows the tab's list or none. The popup covers the
window, so that nothing under it can be clicked, while keys go to the terminal; the
callbacks of a click run before the next click, and anything else may come in between.
The pages are left out: a page on screen counts as its terminal. Killing a process and
the rate of the samples are left out. `MaxUnread` bounds the orders a worker has not read
when the user clicks again.

### ZmodemReceiver

*State.* Where the session loop or the receiver is, `Rx.buf`, the row of the
open file (`CurFile`), the count, the rows of the transfer list, whether the
last receive is less than two seconds ago (`zmodem_done_at` in
`run_session`), and per run of `sz` what became of the prompt behind it. The
sender, the two directions of the channel, and the trouble there was.

*Actions.* `ReadOutput` is the session loop's read of the channel, which shows
the bytes or starts a receive. One action per frame of `receive`'s loop
(`OnZRQINIT` to `OnZABORT`, `OnSubpacket`), `Peek` and `PeekTimesOut` after a
ZEOF, `GoodBye` and `Drain` for the close handshake, and `Bail` for every error,
with the CANs that the session loop sends then. An answer that cannot be sent ends the
receive (`SendFails`); the frames of the good-bye are sent without looking. A read takes any number of
tokens, so that frames and prompt arrive together or apart. `SendChunk`,
`SendEof`, `ReadAnswer`, `RepeatEarly`, `RepeatQuiet`, `Abort` are the sender,
which is not part of the repository: it is modelled after lrzsz as far as the
receiver's comments rely on it.

*Abstractions.* A header, a data subpacket, "OO", a row of CANs and a prompt are
one token each, so a header that is split over two reads of the session loop
(and then is not recognised) is left out, as are escapes and checksums: a
subpacket that something else got into fails. ZNAK and frames that the receiver
ignores are not sent. Two files are never given the same name; a name is
neither cleaned nor clipped. The drain stops after 64 bytes, which a sender's
last frames do not reach. The limit of 800 ms or 2 s passes at any moment at
which the buffer is empty. `Trouble` bounds what goes wrong: each kind at most
once in a behaviour, and `MaxTroubles` kinds.

### SftpPanel

*State.* Per tab: `panel` (the directory it names, the rows on show with the
directory they are of, whether rows are checked, `sftp_loading`), the followed
directory `lastCwd`, the listing that waits 500 ms, the worker with its
commands and the listing it has read and not yet reported. Uploads are tasks of
their own. One `dialog`, one `editor`. `files` counts what changed in each
directory of each server, and a listing carries the count it saw. The last four
variables are history, of which no action depends.

*Actions.* Those of the user are the handlers of `wire_sftp_callbacks`, one
each (`Navigate` is also a click in the tree). `PumpCwd` and `DebounceFires`
are what the shell's pump does with OSC 7. `TakeList` to `TakeClose` are
the arms of the command loop: an operation and the reading of the directory are
one step, the report is another (`ReportListing`), because uploads
(`UploadEnds`, `UploadReports`, `UploadFails`) read and report in between.
`ApplyCwdChanged` to `ApplySftpFileText` are the UI thread. A report is
applied to the tab whose worker sent it; a text opens the editor of the
window.

*Abstractions.* The rows of a tab are checked or not, all alike. Directories
are names; rename and the like change one directory. A worker is not replaced
(the subject of `TabSession`), downloads and progress are in `SftpTransfers`;
an upload is started without waiting for its turn in the command loop, which
only starts it. Writing a text changes no listing, although the size that is
shown is then old. The count of checked rows beside them
(`sftp_selected_count`) is left out. `MaxRequests` bounds what the user asks of the
workers, `MaxPrompts` the prompts; `WithDialogs` switches check boxes, deletes
and the editor on.

### ShellStream

*State.* What the host has written (`sent`, tokens by their place) and how much the
session loop has read; of `run_session`: `suppress_echo`, whether its time is over,
`echo_buf`, `osc_pending`, `injected_prompt_hook`, the ZMODEM cool-down; the reports that
wait for the pump and the one it deferred; what the UI thread got (`applied`), with the
borders of the reports. The rest is history: what was hidden (`cut`), and what of it was
never searched for control strings (`blind`: the lines of the echo that `run_session` drains);
what a transfer took (`moved`), what the loop ended on (`dropped`), and `astray`.

*Actions.* `ReadPlain`, `ReadLanded` and `ReadSuppressed` are the three ways of a read
through the data arm of the loop, each with `Scan` (the held control string, the
directories, the commands, the safety net); `Receive` is a read that starts a transfer,
with its leftover; `TimerFires` the 1200 ms arm; `LoopEnds` the tail after the loop.
`Pump` is `recv_coalesced_output`. A read takes any number of tokens, so every token
may be cut off from the next.

*Abstractions.* A control string is an opening and a closing token, the echo of the hook
one or two marked tokens on one or two lines. A program may print the text of the hook
itself ("quote"), which `run_session` cannot tell from an echo (`Hooks`, `Markers`). Sizes are counted in tokens: `EchoCap`,
`OscCap`, `BatchCap` stand for 16 KiB, 64 KiB and the size of a batch. `astray` is set
where the code lets released bytes overtake held ones (section 7), and the properties
then say nothing.

*Properties.* They are about the stream as a whole, not about the buffers: a command is an
opening token with its end in what was searched (`Searched`), wherever reads cut it. A late
echo is stripped from a text whose commands are already taken out, so the line it is on is a
line of that text (`TextOf`), and a command on that line is reported although the rest of
the line is hidden. In three writings the two never meet; in four they do, and statements
that took commands and lines from the displayed stream are false there.

### SshConnection

*State.* Per run of a session or a connection test: where its task is, its jump host and
password, the connections it holds handles of. The connections that were opened, over
which other, and their stage. Listeners per forward, the remote forwards the server
granted, the connections made through forwards.

*Actions.* `LoginEnds`, `DialEnds`, `AuthEnds`, `ChannelEnds`, `ShellEnds` are the awaits
of `connect_authenticated` and what follows each, with `Fail` for every `?`; `Refused` is
the second attempt on a connection of its own, which takes the jump host from its login
on. `AskForward` asks for the remote forwards and then starts the listeners. `Bind`,
`Accept`, `AcceptFails`, `Negotiate`, `OpenEnds`, `SpliceEnds` are `forward.rs`,
`ServerForwards` the handler of a remote forward. `ShellCloses`, `DropListener`,
`Disconnect` are the end of a session. `Greet`, `Lost` and `Close` are the tasks of the SSH
library, modelled from how the code relies on them: a connection is closed when it is
told to, and when no handle and no channel of it is left.

*Abstractions.* Why a wait ends in an error is left open (a timeout, a refusal, a
cancelled dialog, a lost connection). A proxy is part of the wait. Addresses are left
out of the forwards, ports are kept. The SFTP connection of a tab is another one of the
same shape. `MaxConns` bounds the connections made through forwards.

### TermBuffer

*State.* `grid`, what the vt100 parser has: rows, cursor, the main screen that the
alternate one covers. `buf`: history, the screen last seen, whether it may be compared,
the offset of the window, the two ends of the selection. `gone` is history: the rows
that did scroll off, and `overlooked` why some of them may not be in the history.

*Actions.* `TakeOutput` with `ingest`, `ingest_chunk` and `detect_scroll`; `Resize`, `Clear`,
`Scroll`, `SelectStart`, `SelectUpdate`, `SelectEnd`, `Autoscroll` are the handlers. The
parser is external and modelled as far as rows go.

*Abstractions.* A row is an abstract text, blank or not, with three columns. They hold
three narrow characters, or a wide one and a narrow one in the rows `Wide`: the highlight is
of columns (`Glyph`), the copied text of characters (`Chars`). `Chunks` are the kinds of
output of an instance: finished and unfinished lines, equal lines, lines that wrap over
two rows ("over") or more, full-screen frames, the alternate screen. `overlooked` marks what the
comparison of two screens cannot see: screens that look alike ("unlike", the cases of
section 7) and batches in which all that was finished scrolls off ("outrun"). `MaxTexts`
bounds what is written, `MaxHistory` stands for 100,000.

### GroupedLists

*State.* Which of the two lists it is; entries with their group, the list of groups,
the hidden groups, the rows, the dialog with the index it edits.

*Actions.* The handlers of both lists; those that are alike (`SubmitGroup`,
`DeleteGroup`, `ToggleGroup`) are one action. Every change makes the rows again
(`Model`). Moves, copies and deletes of commands go by the index of a row, those of
sessions by id.

*Abstractions.* Names are numbers in the order of their characters, `Folded` their order
without case. What an entry is, beyond being this one, is left out, as are blanks around
a name and the order of the sessions within a group.

### EditWatch

*State.* The files on the server and the local copies, each with a text or cut; the
files that are on screen in another program; per worker its queue, the fetch it is busy
with and whether its loop is over; the watchers and the upload tasks. A text is the file
it belongs to and a number. Of the time of a copy a watcher knows whether it has changed
since its last look (`seen`). `saved` is the history of what was saved last.

*Actions.* `OpenExternally`, `CloseSftpOf`; `TakeOpenOrder`, `Fetched`, `FetchFails`,
`TakeUploadOrder`, `TakeCloseOrder` of the command loop, which takes nothing else while it
fetches; `StartWatching`, `Look`, `StopWatching` of `spawn_edit_watcher` (a watcher of a
worker that is gone ends at its next look); `UploadOpens`,
`UploadReads`, `UploadWrites`, `UploadFails` of an upload task; and `Save` of the other
program, which is not part of the code.

*Abstractions.* A file is read, and written, in one step; while it is open for writing it
is cut. Looks that find nothing are left out. The copies of all sessions are in one
directory under the sanitised name of the file (`Sanitized`). `lost` holds the files whose
last save nobody promises to bring home: no watcher of it looked, its upload failed or met
another one of the file, or it was fetched or ordered home when the worker ended. The next
save that a watcher is to see makes good for that.

`MaxOpens` bounds the files that are open at a time, `MaxSaves` the saves, `MaxUnderWay`
the uploads that wait or run when a watcher looks.

## 4. The runs and their bounds

| Run | Instance | States | What it shows |
| --- | --- | --- | --- |
| `tabs` | a local, a Telnet and a serial tab, or an SSH tab; 2 workers, 1 command, 1 report | 164,007 | no SFTP worker is left behind; local tabs implement `TabPromise`; the end of a session is shown; a released worker ends |
| `trust` | 3 checks, 2 hosts, 2 keys of which the second and third check see one each, ask and accept-new, a window that goes, crash and failed saves | 249,464 | a check lets a key pass only for a reason of its policy; the dialog implements `PromptBroker`; every prompt is answered |
| `transfers` | a file or archive beside a folder, empty folder or opened file; or a file opened twice in another program, saved twice, 2 uploads under way; or 3 connections, 2 sessions, 2 fields, one user always known | 381,882 | rows tell the outcome and can be cancelled; archives go; stopped transfers settle; what is saved elsewhere comes home; the login dialog implements `PromptBroker`; nobody waits for ever |
| `files` | 1 copy, 5 chunks, 3 in flight, both directions; or `sz` of two files, then of one, a subpacket each, one kind of trouble | 448,940 | done is whole; the loops end; the counts are right; the prompt stays; the loop and the sender are released |
| `store` | 1 program, 3 changes, 3 sessions, those at one place without a password, 2 keys; or a list of 2 entries and 2 group names beside "default" | 1,768,369 | a crash or failed save leaves the file whole; what is shown is what is saved; passwords are sealed once; no saved session gets lost; each entry has its row |
| `session` | 2 SSH tabs, 2 workers, 2 pages; or those tabs and workers with the popup and 2 unread orders; or 1 session with 3 forwards and 1 connection through them | 294,509 | one question per page, no orphan, an answered or named fate for every question; only the session on screen is monitored, and a popup that opens is fed by it; a run that is over leaves nothing open |
| `panel` | 1 tab, 2 directories, 1 upload, 1 request, 2 prompts, dialogs and editor | 778,092 | the panel ends where the shell is and stops loading; what was changed is on show; deleted is what was asked about |
| `output` | streams of 3 writings and the answer to the hook; caps of 4, 3 and 2 tokens; or a terminal of 5 or 6 rows, history of 3, 7 texts, one row with a wide character | 920,213 | what is displayed is the stream; only the echo is hidden; commands are reported once; the first prompt comes out; the history is what scrolled off; what is marked is copied; a selection stays on its text |
| `panel_editor` | 2 tabs, 2 requests, no prompts | violation | a text is saved to the server of another tab (finding) |
| `trust_first` | as `trust` | violation | a connection that accepts new keys takes a recorded host for a new one (finding) |
| `outrun` | the terminal with lines of two rows | violation | rows that scroll off are not in the history (finding) |
| `wide` | the terminal, ends of a selection at the right edge | violation | other characters are copied than those that are marked (finding) |

*Why these bounds are enough.* `tabs`: three tabs of different kinds share two workers,
which are two sessions at once or a session and the one that replaced it; the SSH tab, whose
worker has an SFTP worker beside it, has them to itself (`TabsSpec`). With a third worker, so
that reports of two dead ones meet it, and two queued reports (911,066 states up to symmetry)
`SftpReleased` was checked as well. In `trust` the shell sees either key of its host, its side channel the second and the
connection that accepts new keys the first of its own (`TrustSpec`; both would make the run
too long); the file holds that key, the other one or none, and saves truncate it at any moment.
The dialogs have two connections of one subject (merge, cache) and one
of another (queue behind); what the session behind lacks matters less, so its user is always
known (with any, 304,448 states, the properties were checked once). `transfers` pairs every kind that has rows of its
own with every kind that blocks the loop or has none; a file that is opened twice has two
watchers of one copy, and with two saves one falls while an upload of the other waits,
reads or writes. With a worker of another session beside it (2,402,159 states)
`EditsComeHome` was checked as well. `files`: more chunks
than the window, and a window of more than two, so that completions reorder
and the window moves; two overlapping copies (2 chunks, window of 2, 1.6
million states) were checked as well and the theorems hold for any number.
`session`: two workers for two tabs or for one tab twice; two pages for two tabs
or for one tab closed and opened again; for the connections, a jump host and a password
that is refused make four of them in one run, and the three kinds of forward share a port,
so that one may fail to bind; for the popup, two tabs are one that is on screen and one
that is not, two workers a session and the one that replaced it, and with two unread
orders the popup can be opened and closed again before a worker reads. `store`: three changes are one to make a
session, one to move it and one to import its export, or one that leaves the
key behind and two that follow; the `~/.ssh/config` has a host that may turn out
to be its own jump host; of two group names one sorts differently with and without case. With passwords at
both places (4,077,359 states) the properties were checked as well.
`output`: three writings are one before the echo, one within and one behind it, with caps
that each can reach; for the terminal, 7 texts are more than a screen holds, and lines
that wrap fill the history too, so that rows scroll off and out while a selection
stands; with half a screen of two lines, a batch of wrapped lines can scroll a whole one. In the ZMODEM part of `files` two files are one that is peeked for and one
after which nothing is; the second `sz` comes within the cool-down of the first
or after it. Any one kind of trouble (a header repeated early, an abort, a line
that drops, a full disk) may strike anywhere; the safety properties were checked
once with any two kinds (2.0 million states), and with two subpackets to a file
(2.7 million), which take longer than a run should.

`panel`: two prompts are one that moves the panel and one that repeats it or
moves it again, with one thing the user asks for before, between or after them,
and an upload that lists at any time; the properties are about one tab at a
time. With two tabs and two requests (1,841,046 states) they were checked as well.

Deadlock is checked in the runs of `HostKeyTrust` (a resting check can always
start again). The others stop when the workers,
copies, transfers, requests or runs of `sz` of the instance are used up, or the window is
gone.

*Mutants.* Every property of a passing run has a mutant: a definition marked
"Mutant" in the module, changed the way a plausible bug would change the code
(a dropped reset, an answer to one waiter only, an off-by-one in the window).
TLC finds each property violated when the mutant takes the place of the
definition.

## 5. Fairness

Fairness is weak and is given to what the program or its runtime runs by
itself, never to the user's commands nor to the other side of a connection:

- a task that can move is polled, a pump and the UI thread apply what is
  posted (`ApplySessionEvent`, `EnqueuePrompt`, `ApplyTransfer`, and in
  `SystemInfoPages` the answers of each page on their own, since each is a
  closure of its own in the event queue);
- a connect attempt ends, a reader thread notices that its device is gone;
- the user answers a dialog, because it covers the window;
- a transfer need not complete; it looks at its cancel flag between chunks,
  and a request on a connection that is gone fails. The file that is opened
  elsewhere is small and arrives or fails, which the loop waits for;
- a copy's requests are answered or fail;
- the session task runs its receive and its timers; a sender that has something
  to send or an answer to read goes on, and repeats what is not answered. When
  the answer is merely slow it need not repeat, and nobody has to run `sz` again;
- the SFTP worker of a panel, its timer and the UI thread run, and a server
  answers or the request fails; neither the user, the shell nor an upload has
  to do anything;
- of the output of a shell, time passes and the loop's timer is served; nobody has to
  write, and neither the pump nor a read is needed for the prompt to be released;
- a connection's task runs, and what it waits for ends, if only in an error: the user
  answers the dialogs, a server answers or keepalive gives it up. (With the timeout or
  keepalive set to 0 there is no such end, which the model leaves out.) An aborted
  listener is dropped, a connection nobody holds is closed. No session has to end and
  no client of a forward has to go away;
- the window runs the callbacks of a click, its timer, and what is posted to it, and a
  session loop reads its orders; the remote `ps` need not write anything, and nobody has
  to close the popup. The timer stands still while the window is minimised or covered
  (`apply_sampling_cadence`), so that `PopupComesAlive` is about a window that comes back
  on screen;
- a remote command that collects a snapshot ends or loses its channel. No
  session loop has to end and no user has to act.

## 6. What is proved

For every value of the constants that satisfies their assumptions (kinds and
policies are functions with the right range, names that stand for "none" are
not members of the sets, bounds are natural numbers, a copy has at least one
chunk and a window of at least one):

| Module | Theorem | States |
| --- | --- | --- |
| `SessionTask_proofs` | `TypeCorrect`, `HandlesAlwaysAgree`, `ClosedHoldsNothing`, `LitNeedsConnected`, `SftpAlwaysReleased` | types; handles and owners agree; a closed tab holds nothing; a lit dot means connected; `SftpReleased` of `tabs`, for every mix of kinds |
| | `LocalTabsInOrder`, `LocalEnterIsSafe`, `LocalShownConnected` | the inductive invariant `LocalInv` of local tabs and its two consequences: Enter restarts only a shell that is over, a connected tab was reached (checked by TLC before they were proved, not part of a run) |
| | `LocalTabsRefine` | local tabs implement the safety part of `TabPromise` |
| | `ZmodemTypeCorrect`, `DownloadsAreCounted`, `PromptSurvives` | types, `CountsAreRight` and `PromptIsKept` of `files`, for any number of runs, files, subpackets and troubles |
| `SshSession_proofs` | `TypeCorrect`, `PromptsAlwaysMatch`, `TrustIsAlwaysEarned` | types, prompts and blocked checks match, `TrustIsEarned` of `trust`, with what saves without a lock do to accept-new named in it |
| | `DialogKeepsPromise` | `DialogIsABroker` of `trust`: the dialog implements `PromptBroker` as long as there is a window |
| | `StreamTypeCorrect`, `StreamIsDisplayed`, `CommandsReportedOnce`, `EchoAloneIsHidden` | types, `DisplayedIsTheStream`, `CommandsAreReportedOnce` and `OnlyTheEchoIsHidden` of `output`, for streams of any length, read in any pieces, and any sizes of the buffers |
| `CredentialPrompt_proofs` | `TypeCorrect`, `PromptsAlwaysMatch`, `DialogKeepsPromise` | types, prompts and waiting connections match, `DialogIsABroker` of `transfers` |
| `PipelinedCopy_proofs` | `TypeCorrect`, `CopyInvHolds`, `DoneAloneIsWhole`, `NoJunkIsLeft` | the account of a copy and its two consequences; `NoJunk` leaves out a removal that failed unnoticed |
| `ConfigStore_proofs` | `SoleProgramKeepsTheFile`, `SoleProgramShowsTheFile`, `SoleProgramSealsOnce`, `SoleProgramLosesNothing` | `FileIsNeverTorn`, `ShownIsSaved`, `SealedAtMostOnce` and the action property `SavedSessionsStay` of `store`, for one program |
| | `EntriesHaveTheirRow` | `EveryEntryHasItsRow` of `store`, for any number of entries and names |
| | `WhatIsMarkedIsCopied` | `MarkedIsCopied` of `output`, for any size of screen and history, any kinds of output and any rows with a wide character, unless the selection begins or ends on one |
| | `ScrolledOffIsKept` | `HistoryIsWhatScrolledOff` of `output`, for any size of screen and history and any output, lines that wrap among it, reports cut anywhere, as long as nothing is `overlooked` |
| | `SelectionKeepsItsText` | `SelectionStaysPut` of `output`, the same |
| `SystemInfoPages_proofs` | `TypeCorrect`, `NoOrphanedPages`, `OneQuestionAtATime`, `TheScreenIsNeverEmpty` | types, `PagesHaveASource` and `OneQuestionPerPage` of `session`, and that what is on screen is on the tab bar |
| | `OnlyScreenMonitored` | `OnlyTheScreenIsMonitored` of `session` |
| `SftpTransfers_proofs` | `TypeCorrect`, `RowsAreAlwaysTrue`, `ArchivesAreAlwaysRemoved` | types, `RowsAreTrue` and `ArchivesAreRemoved` of `transfers`; an archive may stay when the server refuses its removal or the connection goes |
| | `EditsAllComeHome` | `EditsComeHome` of `transfers`, for any files, sessions, watchers and uploads |
| `SftpPanel_proofs` | `TypeCorrect`, `DeletesAreConfirmed` | types; what is deleted is what the user was asked about |
| | `PanelFollowsTheShell`, `PanelIsUpToDate` | `FollowsTheShell` and `ShownIsUpToDate` of `panel` |

The type invariants of `TabSession`, `HostKeyTrust`, `CredentialPrompt`,
`PipelinedCopy`, `SystemInfoPages`, `SftpTransfers`, `SftpPanel`, `ZmodemReceiver` and
`ShellStream` are proved and so are not part of a run; TLC checked each before. That of
`ConfigStore` was checked with the instance of its run, outside the list. Invariants that are proved and that no other property rests on
(`LitMeansConnected`, `ClosedTabHoldsNothing`, `ActiveIsOnTheBar`, `CopyInv`, `NoJunk`,
`PromptsMatchChecks`, `PromptsMatchConns`) are not run again either.

*The arguments.*

- **Tabs.** The dot is lit and put out by the steps that also set `state`, so
  `LitMeansConnected` is inductive with the types; `SftpReleased` and
  `ClosedTabHoldsNothing` need `HandlesAgree`. Local tabs need more:
  `LocalInv` says that in the reports of a local worker Closed comes once,
  after the task is done, with only output behind it, and that a worker which
  was replaced, or whose Closed is on show, has only output left. This is
  exactly what the other kinds lack: they report Closed twice.
- **ZMODEM.** What was read and what is in the channel are one sequence (`Coming`), and a
  step of the session task takes a beginning of it away (`Moved`). `TokensAgree` says
  that all of it is of the run that goes on, that its prompt is the last of it, and that a
  prompt nobody has seen is still in it. `Ordered` says that the open row has the
  first subpackets of its file and that what is coming goes on from there, frame by frame, up
  to where the sender is (`Chain`): hence a row that is closed is whole. `SentKept` says
  what the sender may conclude from the answers under way: as long as a file is not
  delivered, no ZRINIT is under way that would make it go on to the next, and its row is open;
  of the answers, those behind one that ends the sender (`Doomed`) do not count. For the
  prompt, `Paced` says that without a header repeated early the two take turns, so
  that in each stage of the sender only its tokens are coming; `GoodByeSaid` that once the
  receiver has sent its ZFIN at most one of the sender's is coming; `PromptComes` that
  the prompt of a run that ended well comes behind at most one ZFIN, to a receiver that has
  gone, drains, or has just that ZFIN before it, which it takes for a good-bye without
  any file.
- **Trust.** `PromptsMatchChecks` is inductive with the types; that the queue
  holds one prompt per undecided host is what makes the answer unambiguous.
  `TrustIsEarned` needs to know besides that a check whose prompt is posted or
  queued follows the policy `ask` (`AskersAsk`), that an asking check keeps its key
  (`KeyIsKept`, part of `Typed`), and what the file and its past have to do with each other
  (`RecordKept`): nothing is on file that was not recorded; and as long as one save at a time runs
  to its end, it is what that save is about to write back, or the file, that has a key of
  every host which ever had one. For the refinement an answer
  is followed to who gets it (`AnswerIsTheVerdict`): what has been put into a responder is
  the decision on that host, because the prompt that held it was at the front when the
  decision was made, or the decision was there before and the prompt was never queued. An
  answer maps to `Decide` and the `Tell` of everyone behind the prompt in one step, a
  restart to a new run of the broker, every other step to a stutter.
- **Logins.** `PromptsMatchConns` is inductive with the types: a session has one
  prompt in the queue at most, and none once it is decided, so that the answer
  to the front prompt reaches every connection that waits for that session. With
  `ToldIsTheVerdict` this is the refinement, as for the host keys; a session that is edited
  or removed, and a window that goes, decide nothing.
- **Copies.** `CopyInv` is the account of every chunk: asked for and on its
  way, in the file, or lost to an error, a cancel or a shorter source; and a
  copy closes with nothing on its way and nothing left to ask for. It needs
  `OverlapIsNoted`, since two copies of one destination truncate each other's
  file. `LEMMA TopUpFacts` says what the window arithmetic does.
- **Pages.** `PagesHaveASource`, `ActiveIsOnTheBar` and the types are
  inductive only together: a refresh asks the source of the page on screen,
  which must exist for the request to have a tab to go to. For `OneQuestionPerPage` a
  question is followed through its places (`AskInv`): no two positions of the queues name
  one page, a question that is being collected is in no queue and has no answer, an answer
  is the only one of its page, and only a page that is loading or closed waits. A page
  asks only when it is there and not loading, so it has nothing on its way.
- **Monitor.** Of the orders a worker has not read only the last counts, and of what it
  does already when there is none. Once the callbacks have run (`told` is what is on
  screen) that is to monitor if its tab is the one on screen and the popup is open, and
  else not: `CallbacksRun` orders the tab that leaves the screen to stop and the one that
  comes to begin, and a new worker is told nothing and does nothing.
- **Transfers.** The last word on a transfer (`LastSays`) is the last of its reports, or
  its row once they have arrived, and `EndsAreTold` says that it is how the copy ended. An
  archive that failed is the exception until its clean-up: nothing has been reported then.
  It rests on `StartsOnce`, that no job is started twice, and on `FlagsAreFiled`, that the
  flag is on file until the copy has ended. `QuietBefore` keeps rows from appearing before
  the flag is there. `TempsAreOwned` says that what is on the server belongs to an archive
  whose task is still to clean up, or the connection is gone.
- **Edits.** A text that was saved before a watcher's eyes and is not `lost` is the file's,
  or on its way there: unseen by a watcher that will look, ordered, due, or in the hands of
  an upload that has read it or is still to read the copy. When it writes, the remote file
  is cut and it is the only one that writes. Orders and uploads carry names, and every
  name leads to the copy of its own file unless two files share one, which `lost` notes.
  What a queue loses at its front moves every index behind, so that the places of an
  order are followed through each step.
- **Panels.** `DeletedWasConfirmed` needs `AskedRows`: while the question is up,
  checked rows of the tab on screen are of the directory it was asked about.
  Nobody can check a row under the dialog or change the tab, and new rows come
  unchecked; the mutant that keeps the marks breaks it. The types need
  `Placed`: checked rows are rows of some directory. For `FollowsTheShell` the last thing
  that will place the panel, in the order in which reports, commands and the debounced
  directory will be applied, is the directory of the shell's last prompt, unless the user
  went elsewhere. For `ShownIsUpToDate` each listing that was read after the last change is
  good, and whatever was reported last, among the rows, the reports under way and those
  still to be read, is one; a change that nobody lists is `missed`.
- **Store.** `SaveInv` adds to `FileIsNeverTorn` that the program which holds
  `json.tmp` open is the one that truncated it, and that everything is written
  before the rename. It is here that there is only one program: a second one
  breaks both. `StoreInv` adds what sessions are in the copy, in `json.tmp` and in the
  file. Keys come in order, and the program has the newest: seals in the copy are those of
  lost keys, an export has a portable seal more and the file one of some key, and each is
  outermost, so that sealing and opening are inverse on what there is. `json.tmp` is
  the sealed copy when it is published, and every session of the file that was not removed
  is in the copy.
- **Folds.** Saving, importing, reading output and making rows go through a list
  one by one. What a step keeps holds at the end (`FoldStays`, and one lemma for each loop);
  that needs induction, and the induction theorems of the library cannot be used. It is
  had from a statement about finite sets (`CountingUp`): were something that passes from n
  to n + 1 true of 0 and not of all numbers, adding 1 would map a finite set into
  a smaller one, one to one.
- **Terminal.** `BufferInv` says that the screen last seen has as many rows as the screen, or
  nothing has come yet; that the window is at the bottom while the alternate screen is
  shown; that the ends of a selection come in pairs and are places of rows. Then row and
  column of a mark, counted from the top of the window, and of the copied text, counted
  from the oldest row, name the same element of history and screen put together.
- **Scrollback.** `HistoryInv` (`Faithful`) adds that what the comparison is made with, when
  it may be made, is the main screen as it is; that no text on a screen is newer than the
  last one written (`Known`), so that what is written next is like no row there; and that
  the history is `gone`, or something was `overlooked`. A batch ends at its
  `BatchLines`-th end of line (`BatchesAreHalves`), so that as many rows scroll off at the most
  when no line wraps, and the cursor goes down only: followed item by item, the screen is the
  one before moved up by as many rows as have scrolled off, above the first row that was
  written in the batch, as long as a row from above the cursor is left (`Drifted`; else the
  batch is `Outrun`). When rows have scrolled off, the first row is therefore an old one from above
  the cursor, and as it is on the old screen once, no other shift matches a single row
  (`ShiftIsFound`). When none have, every row is as it was or like none of the old rows,
  and shift 0 matches as much as any (`NoShift`, `StillKnown`). `detect_scroll` is
  proved for screens of any height in both cases; the cap cuts `history` and `gone` alike.
  `SelectionStaysPut` follows from the invariant before and after the step: below the
  cap the history grows by the rows that left, and each finished row keeps its place in
  history and screen put together (`LinesStay`).
- **Output.** The bytes of a stream that are searched for control strings are either passed on
  (`Passed`) or held back (`Held`), and the reports of the loop are one log, however far the
  pump and the UI thread are with it (`Told`). `Kept` is about that log: output and commands
  are in the order of the stream; its commands are those of what was passed on; and what was
  passed on is shown, hidden, or part of such a command. `Buffered` says why what comes
  next can be put behind it: the two buffers are parts of the stream, in its order, the older bytes in
  `osc_pending`, and nothing that was passed on starts a control string which ends in
  what is held (`Closed`). Hence the control strings of a longer stretch are those of its
  two parts, which is what lets a string be found in a buffer and counted in the stream.
  `EchoHidden` says where hidden bytes stand; it is kept up because later bytes are behind
  all lines that were cut before. A step is described by what it passes on and what it
  reports (`Passes`), and `LEMMA Advance` shows that such a step keeps all of this, for `Scan`
  in each of the three reads and for the timer alike; the pump only moves the border in
  the log. Once `astray` is set, only the types are left.
- **Lists.** The invariant is that the rows are those made of the entries and groups
  that there are. What is made is followed through its loops: the filtered names are
  those in use; the sorted ones are in order, so that equal ones are neighbours when no
  two differ in case only; neighbours that are equal are dropped, so that no group is
  shown twice; the rows of a further group are of other entries than those before.

*Only model-checked*, with the reason: liveness (`EndIsReported`,
`ReleasedWorkersStop`, `EveryPromptIsAnswered`,
`StoppedTransfersSettle`, `CopyEnds`, `PagesSettle`, `PopupComesAlive`, `NothingIsLeftOpen`, `PromptIsReleased`,
`BothAreReleased`, `LoadingEnds`) and fairness, including the fairness part of
`TabPromise`, which the proof system does not handle; and what is left for later:
`SshConnection`, of which only liveness is run. Every safety property of the passing runs
is a theorem.

## 7. What the checks found in the code

Four statements of the repository fail, each in a run of its own:

- `panel_editor`: the editor "writes the text back to the remote file"
  (`src/app.rs:4361-4362`). There is one editor, which knows the path of its text
  but not the tab; saving goes to the worker of the tab on screen
  (`src/app.rs:4373`, `4391`). A file that is opened in one tab and arrives after the
  user went to another tab is written to that tab's server.
- `trust_first`: `accept-new` "trusts a key only when no key has been recorded yet, and
  still rejects a changed key" (`src/config.rs:168-169`). `remember` truncates the file
  and then writes it (`src/known_hosts.rs:121`), with no lock; a connection that reads
  it in between finds no key of any host, trusts what it is shown and records it.
  `TrustIsEarned` of `trust` says what is true: the other policies never do, and accept-new
  only over a file that a save has truncated, or after saves that overlapped or broke off.
- `outrun`: "no batch ever scrolls more than the diff can see, and nothing is lost"
  (`src/app.rs:6002-6005`). A batch ends at half a screen of line ends (`src/app.rs:6015`).
  When the lines wrap over two rows, a screen of rows and more scrolls off within it,
  and no row is left that could show by how much.
- `wide`: "a char index equals the grid column" (`src/app.rs:5704-5705`). A wide character
  is two cells of the grid and one of the row's text (`src/app.rs:5756-5768`), and a selection
  is copied by taking its columns for indexes (`src/app.rs:5972-5985`): on a row with
  such characters other text is copied than is highlighted.

Others are stated in the modules, with the comment that they do not hold;
TLC finds a counterexample to each when it is added to a configuration:

- `TabSession`: `DisconnectedMeansOver`, `FreshScreen`. SSH, Telnet and serial
  workers report Closed twice, labelled with the tab; the second one may reach
  the session that replaced them.
- `HostKeyTrust`: `ChangedIsReconfirmed` (the decision is cached per host,
  whatever the key).
  And `AcceptedIsRemembered`, against "on accept the key is remembered here"
  (`src/known_hosts.rs:7`): two saves that overlap lose one of the keys.
- `ShellStream`: `QuotesAreShown`. What is removed as the echo of the hook "is still
  unquestionably our internal hook" (`src/ssh.rs:127-130`). Every read is searched
  (`src/ssh.rs:1064`), and a line of output in which a program prints that text is hidden,
  without the integration as well.
- `PipelinedCopy`: `DoneMeansWhole`, against "Returns `Ok(true)` when the whole file
  was written" (`src/sftp.rs:1319`). A remote file that is truncated while it is
  downloaded leaves a hole and is reported as done.
- `ZmodemReceiver`: `PromptIsNotEaten`. The close frames are drained "without
  eating the shell prompt that follows" (`src/zmodem.rs:441-442`); a prompt that
  starts with a digit or one of the letters a to f loses its first letters.
- `SftpPanel`: `CheckedAreWhereNamed`. Several checked rows are packed in the directory
  the panel names (`src/app.rs:3893`, `4135`), which the shell's report sets before
  the rows are there, and which stays when they cannot be listed.
- `CredentialPrompt`: `NothingIsMissing` (answers are cached and prompts merged
  per session, whatever they lack), `OnlyTheUserCancels` (a dropped channel is
  taken for a cancel).
- `ConfigStore`: `FileIsNeverTorn` when there are two programs, against "cheap
  atomicity" (`src/config.rs:955`): they share the temporary file, and one may
  publish it while the other has it truncated. `JumpsExist` (a session is removed that others jump over, and an
  import keeps the jump host ids of the store it comes from), `CopyIsPlain` (what
  a lost key sealed stays sealed in memory, and an export seals it again).

- `TermBuffer`: `WholeSelectionIsCopied`. A selection that ends below the last used row
  is copied up to that row and to the column of its end, without what is marked behind it.
- `GroupedLists`: `SaveGoesToItsCommand`, against ">=0 = edit that entry"
  (`ui/app.slint:272`): the dialog keeps an index, and another command is written
  over when one before it was deleted or copied meanwhile.
- `EditWatch`: `TextsStayHome`, against "re-upload it to the remote" (`src/sftp.rs:1178`).
  Two files of one name, in two directories or of two servers, share the copy
  (`src/sftp.rs:867-870`): each watcher uploads what is in it to its own file, so that the
  text of one is written over the other. A file whose name is changed by
  `sanitize_filename` is uploaded beside itself.
- `ProcessMonitor`: `OpenIsLive`, against "While open, the data still refreshes live"
  (`ui/app.slint:1411-1412`). When the session is restarted with Enter under the open
  popup, nothing tells the new worker (`src/app.rs:4741-4801`), and the popup keeps the
  list it had until it is closed and opened again.
- `SshConnection`: `ArrivalsGoHome`. Two remote forwards of one port on two addresses both
  lead to the target of the second (`src/ssh.rs:1257`).

Some properties except named cases, in which what they say is not true of the code:

- `ShellStream` (`astray`): when the timer releases the first prompt, or a transfer
  hands back its leftover, while the start of a control string is held back, the released
  bytes go to the screen before the held ones and are not scanned. Besides, what is in
  the echo buffer when the loop ends is never shown (`dropped`), and a directory that
  comes with the landed echo is reported before an older one that is still held.
- `TermBuffer` (`overlooked`): lines are lost or repeated when wrapped lines outrun the comparison
  (`outrun` above), and where screens look alike: in the first batch after a resize, a
  full-screen frame or the alternate screen, when the cursor goes up or rows are erased in a
  batch that scrolls, when the screen is erased and the cursor stays, and between equal lines.
  `Unseen` names these cases; a narrower form of it, without the
  cursor that goes up and the rows that are erased, held for the kinds of output of the run
  and was found false for others when the proof was tried. A smaller
  window cuts the main screen while the alternate one covers it. Once the history is full
  a selection drifts, and one whose rows were erased loses text (`SelectionStaysPut` leaves
  both out). A click on a character copies
  it, against "a plain click is cleared" (`src/app.rs:5291-5292`).
- `GroupedLists` (`PlainNames`): a group typed as "default" shows its entries nowhere, or
  twice; groups that differ in case only may have several headers, against
  "de-duplicated" (`src/app.rs:1246`).
- `EditWatch` (`lost`): a save before the first look of the watcher is taken for the
  fetched text; two uploads of a file run side by side, and the one that began first may
  end last; a failed upload removes the file from the server and is not tried again; a file
  that is opened again while an edit is on its way is fetched over the edit, or cut; a fetch
  that fails removes the copy that another program has open. After 40 minutes the watcher
  stops without a word.
- `ProcessMonitor` (`JustOpened`): between the click that opens the popup and the next
  refresh the list of another host may be on show (`src/app.rs:2854`).
- `SftpTransfers` (`refused`) and `PipelinedCopy` (`unremoved`): whether a temporary archive or
  a partial file could be removed is not looked at (`src/sftp.rs:547`, `1488`, `1493`, `1752`,
  `1757`), so that either may stay, which nobody is told. `ArchivesAreRemoved` and `NoJunk`
  leave these out.
- `SshConnection`: an error of `accept` ends a forward without a word; a port that is still
  taken, as by the previous session of the tab, is not tried again; a SOCKS client that
  says nothing keeps its task for ever, although its connection is closed; the connect
  timeout runs while the user is asked about the host key, and the dialog stays when it
  is over.

And `PagesSettle` has one named exception: a request that is accepted while
the session is already ending is never read, and the page says that it is
loading until it is closed. The rows of files in a failed folder, and of a
file that could not be opened elsewhere, are never given an end
(`RowsTellTheOutcome`, a part of `RowsAreTrue`, leaves them out). Nor is the row of a
file whose ZMODEM receive failed. `CountedIsWhole`, a part of `CountsAreRight`, has an exception as well: a file that the
sender starts again after a second ZRPOS is written twice and counted, since
the positions in ZDATA and ZEOF are never looked at.

## 8. What is not modelled

The components that wait for their module are those of the plan in section 2.
Not planned: the cryptography of PPK keys, the texts and parsers of the system
overviews, the translations, the declarative layout in `ui/`, program start-up,
the error log (one counter), the formats of proxy handshakes, which are one request
and one answer within a connect, and the rate of the samples (one interval per state of
the window). Within the
modelled components, section 3 names what is abstracted.
