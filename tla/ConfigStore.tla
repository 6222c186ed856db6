----------------------------- MODULE ConfigStore -----------------------------
(***************************************************************************)
(* The session store (config.rs) and the handlers of app.rs that change    *)
(* it.  A program reads sessions.json when it starts, shows and edits its  *)
(* copy, and writes the whole copy back after each change: to json.tmp,    *)
(* which then takes the place of sessions.json.  Passwords are plain in    *)
(* the copy and sealed in the file, with the key of secret.key; in an      *)
(* export with a key that every program has.                               *)
(*                                                                         *)
(* Nothing keeps two programs apart: they share the three files.  The      *)
(* built-in local session is never saved nor exported and is left out, and *)
(* of a session only what identifies it, its password and its jump host    *)
(* are kept.                                                               *)
(***************************************************************************)
EXTENDS Integers, Sequences, SequencesExt

CONSTANTS
  Programs,   \* programs that run on one configuration directory
  Names,      \* names a session may have
  Places,     \* host, user, port and kind of a session
  Texts,      \* passwords a user may type
  NoText,
  SshHosts,   \* the concrete hosts of ~/.ssh/config, in order
  NoName,     \* no ProxyJump
  MaxEdits,   \* bound: changes by the user
  MaxIds,     \* bound: session ids made
  MaxKeys     \* bound: keys made

ASSUME NothingAssumption == NoText \notin Texts /\ NoName \notin Names
ASSUME SshHostsAssumption ==
  SshHosts \in Seq([alias : Names, place : Places, jump : Names \cup {NoName}])
ASSUME BoundsAssumption == MaxEdits \in Nat /\ MaxIds \in Nat /\ MaxKeys \in Nat

VARIABLES
  disk,     \* the files: sessions.json, json.tmp, json.broken
  keyfile,  \* secret.key; NoKey: missing or not 32 bytes long
  export,   \* the exported file
  phase,    \* per program: where it is
  key,      \* per program: the key it loaded or made
  cache,    \* per program: its sessions, in order
  handle,   \* per program: the name its open file has by now
  unsaved,  \* per program: its last change did not get into the file
  issued,   \* ids made so far
  keys,     \* keys made so far
  removed,  \* history: the ids the user removed
  edits     \* changes so far

vars == <<disk, keyfile, export, phase, key, cache, handle, unsaved, issued, keys,
          removed, edits>>

NoKey == 0
PortableKey == -1
Keys  == 1 .. MaxKeys
Ids   == 1 .. MaxIds
NoJump == 0

(* A password and the seals around it, the outermost last; no password is  *)
(* never sealed.                                                           *)
Typed(t) == [text |-> t, seals |-> <<>>]
Blank  == Typed(NoText)
Secret == [text : Texts, seals : Seq(Keys \cup {PortableKey})] \cup {Blank}

Session == [id : Ids, name : Names, place : Places, password : Secret,
            jump : Ids \cup {NoJump}]
File    == [is : {"none", "torn", "mixed", "whole"}, sessions : Seq(Session)]
NoFile  == [is |-> "none", sessions |-> <<>>]
Torn    == [is |-> "torn", sessions |-> <<>>]   \* truncated, or written in part
Mixed   == [is |-> "mixed", sessions |-> <<>>]  \* the bytes of two writers
Whole(c) == [is |-> "whole", sessions |-> c]

FileNames == {"json", "tmp", "broken"}
Phases == {"off", "keying", "reading", "idle", "saving", "written"}

TypeOK ==
  /\ disk \in [FileNames -> File]
  /\ keyfile \in Keys \cup {NoKey}
  /\ export \in File
  /\ phase \in [Programs -> Phases]
  /\ key \in [Programs -> Keys \cup {NoKey}]
  /\ cache \in [Programs -> Seq(Session)]
  /\ handle \in [Programs -> FileNames \cup {"none", "gone"}]
  /\ unsaved \in [Programs -> BOOLEAN]
  /\ issued \in 0 .. MaxIds /\ keys \in 0 .. MaxKeys /\ edits \in 0 .. MaxEdits
  /\ removed \in SUBSET Ids

Init ==
  /\ disk = [f \in FileNames |-> NoFile]
  /\ keyfile = NoKey
  /\ export = NoFile
  /\ phase = [p \in Programs |-> "off"]
  /\ key = [p \in Programs |-> NoKey]
  /\ cache = [p \in Programs |-> <<>>]
  /\ handle = [p \in Programs |-> "none"]
  /\ unsaved = [p \in Programs |-> FALSE]
  /\ issued = 0 /\ keys = 0 /\ edits = 0
  /\ removed = {}

(***************************************************************************)
(* Passwords.                                                              *)
(***************************************************************************)
OutermostIs(w, k) == w.seals # <<>> /\ Last(w.seals) = k
SealedWith(w, k)  == [w EXCEPT !.seals = Append(@, k)]

(* try_decrypt, decrypt_export: what is not sealed with k stays as it is. *)
Opened(w, k) == IF OutermostIs(w, k) THEN [w EXCEPT !.seals = Front(@)] ELSE w

(* Mutant: save seals whatever is not blank. *)
SealedAgain(w, k) == IF w = Blank THEN w ELSE SealedWith(w, k)

(* save: what looks sealed is written as it is. *)
Sealed(w, k) ==
  IF w = Blank \/ \E j \in Keys : OutermostIs(w, j) THEN w ELSE SealedWith(w, k)

(* import_from: an export is opened once, anything else with the own key. *)
Recovered(w, k) ==
  IF OutermostIs(w, PortableKey) THEN Opened(w, PortableKey) ELSE Opened(w, k)

Exported(w) == IF w = Blank THEN w ELSE SealedWith(w, PortableKey)

(* The sessions as they are written to the file, and to an export. *)
SealedSessions(c, k) == [i \in DOMAIN c |-> [c[i] EXCEPT !.password = Sealed(@, k)]]
ExportedSessions(c)  == [i \in DOMAIN c |-> [c[i] EXCEPT !.password = Exported(@)]]
OpenedSessions(c, k) == [i \in DOMAIN c |-> [c[i] EXCEPT !.password = Opened(@, k)]]

(***************************************************************************)
(* The sessions of one program.                                            *)
(***************************************************************************)
IdsOf(c)     == {c[i].id : i \in DOMAIN c}
Get(c, id)   == c[SelectInSeq(c, LAMBDA s : s.id = id)]
Upsert(c, s) ==
  LET i == SelectInSeq(c, LAMBDA x : x.id = s.id)
  IN  IF i = 0 THEN Append(c, s) ELSE [c EXCEPT ![i] = s]
Without(c, id) ==
  FoldLeft(LAMBDA kept, s : IF s.id = id THEN kept ELSE Append(kept, s), <<>>, c)

(* The jump host that the dialog stores when the user picks the one of j:   *)
(* the first other session with the same label.                            *)
PickedJump(c, id, j) ==
  IF j = NoJump THEN NoJump
  ELSE LET label == [name |-> Get(c, j).name, place |-> Get(c, j).place]
           others == Without(c, id)
           i == SelectInSeq(others, LAMBDA s : s.name = label.name /\ s.place = label.place)
       IN  others[i].id

(* import_from: what has the place of a session already there is skipped,  *)
(* the others get ids of their own.                                        *)
ImportOne(acc, s, k) ==
  IF \E i \in DOMAIN acc.sessions : acc.sessions[i].place = s.place
  THEN acc
  ELSE [sessions |-> Append(acc.sessions, [s EXCEPT !.id = acc.issued + 1,
                                                    !.password = Recovered(@, k)]),
        issued |-> acc.issued + 1]

Imported(c, k, n, file) ==
  FoldLeft(LAMBDA acc, s : ImportOne(acc, s, k), [sessions |-> c, issued |-> n], file)

(* Import of ~/.ssh/config: first the hosts whose alias and place are new...*)
AddHost(acc, h) ==
  IF \E i \in DOMAIN acc.sessions :
       acc.sessions[i].name = h.alias \/ acc.sessions[i].place = h.place
  THEN acc
  ELSE [sessions |-> Append(acc.sessions,
                       [id |-> acc.issued + 1, name |-> h.alias, place |-> h.place,
                        password |-> Blank, jump |-> NoJump]),
        issued |-> acc.issued + 1]

HostsAdded(c, n) ==
  FoldLeft(AddHost, [sessions |-> c, issued |-> n], SshHosts)

(* ... then the ProxyJump of every host, new or not. *)
SetJump(c, h) ==
  LET target == SelectInSeq(c, LAMBDA s : s.name = h.alias \/ s.place = h.place)
      jump   == SelectInSeq(c, LAMBDA s : s.name = h.jump)
  IN  IF h.jump # NoName /\ target # 0 /\ jump # 0 /\ c[target].id # c[jump].id
      THEN [c EXCEPT ![target].jump = c[jump].id]
      ELSE c

JumpsSet(c) == FoldLeft(SetJump, c, SshHosts)

(***************************************************************************)
(* Start of a program: load.                                               *)
(***************************************************************************)
LookForKey(p) ==
  /\ phase[p] = "off"
  /\ key' = [key EXCEPT ![p] = keyfile]
  /\ phase' = [phase EXCEPT ![p] = IF keyfile = NoKey THEN "keying" ELSE "reading"]
  /\ UNCHANGED <<disk, keyfile, export, cache, handle, unsaved, issued, keys, removed, edits>>

CreateKey(p) ==
  /\ phase[p] = "keying" /\ keys < MaxKeys
  /\ keys' = keys + 1
  /\ keyfile' = keys' /\ key' = [key EXCEPT ![p] = keys']
  /\ phase' = [phase EXCEPT ![p] = "reading"]
  /\ UNCHANGED <<disk, export, cache, handle, unsaved, issued, removed, edits>>

(* A rename takes along the file that is open under the old name. *)
Renamed(from, to) ==
  [p \in Programs |-> CASE handle[p] = from -> to
                        [] handle[p] = to   -> "gone"
                        [] OTHER            -> handle[p]]

(* Mutant: a session whose password cannot be read is not loaded. *)
LoadedReadable(f, k) ==
  SelectSeq(OpenedSessions(f.sessions, k), LAMBDA s : s.password.seals = <<>>)

Loaded(f, k) == OpenedSessions(f.sessions, k)

(* A file that does not parse is put aside. *)
ReadConfig(p) ==
  /\ phase[p] = "reading"
  /\ phase' = [phase EXCEPT ![p] = "idle"]
  /\ cache' = [cache EXCEPT ![p] = Loaded(disk["json"], key[p])]
  /\ unsaved' = [unsaved EXCEPT ![p] = FALSE]
  /\ IF disk["json"].is \in {"none", "whole"}
     THEN UNCHANGED <<disk, handle>>
     ELSE /\ disk' = [disk EXCEPT !["broken"] = disk["json"], !["json"] = NoFile]
          /\ handle' = Renamed("json", "broken")
  /\ UNCHANGED <<keyfile, export, key, issued, keys, removed, edits>>

(***************************************************************************)
(* save: it blocks the UI thread, so that the copy does not change.        *)
(***************************************************************************)
(* Mutant: the file itself is opened. *)
OpenInPlace(p, c) ==
  /\ cache' = [cache EXCEPT ![p] = c]
  /\ disk' = [disk EXCEPT !["tmp"] = disk["json"], !["json"] = Torn]
  /\ handle' = [handle EXCEPT ![p] = "json"]
  /\ phase' = [phase EXCEPT ![p] = "saving"]
  /\ UNCHANGED unsaved

(* The change is made and json.tmp opened, which truncates it.  An open that
   fails is as good as a write that does. *)
OpenTmp(p, c) ==
  /\ cache' = [cache EXCEPT ![p] = c]
  /\ disk' = [disk EXCEPT !["tmp"] = Torn]
  /\ handle' = [handle EXCEPT ![p] = "tmp"]
  /\ phase' = [phase EXCEPT ![p] = "saving"]
  /\ UNCHANGED unsaved

(* Two writers of one file overwrite each other from its start: what is    *)
(* left is the later one, with the rest of a longer earlier one behind it. *)
Written(f, c) == IF f = Torn THEN {Whole(c)} ELSE {Whole(c), Mixed}

WriteTmp(p) ==
  /\ phase[p] = "saving"
  /\ phase' = [phase EXCEPT ![p] = "written"]
  /\ handle' = [handle EXCEPT ![p] = "none"]
  /\ IF handle[p] = "gone" THEN UNCHANGED disk
     ELSE \E f \in Written(disk[handle[p]], SealedSessions(cache[p], key[p])) :
            disk' = [disk EXCEPT ![handle[p]] = f]
  /\ UNCHANGED <<keyfile, export, key, cache, unsaved, issued, keys, removed, edits>>

(* There may be no json.tmp any more: then the rename fails. *)
Publish(p) ==
  /\ phase[p] = "written"
  /\ phase' = [phase EXCEPT ![p] = "idle"]
  /\ unsaved' = [unsaved EXCEPT ![p] = disk["tmp"] = NoFile]
  /\ IF disk["tmp"] = NoFile THEN UNCHANGED <<disk, handle>>
     ELSE /\ disk' = [disk EXCEPT !["json"] = disk["tmp"], !["tmp"] = NoFile]
          /\ handle' = Renamed("tmp", "json")
  /\ UNCHANGED <<keyfile, export, key, cache, issued, keys, removed, edits>>

(* Any step of save may fail; the error is logged. *)
SaveFails(p) ==
  /\ phase[p] \in {"saving", "written"}
  /\ phase' = [phase EXCEPT ![p] = "idle"]
  /\ handle' = [handle EXCEPT ![p] = "none"]
  /\ unsaved' = [unsaved EXCEPT ![p] = TRUE]
  /\ UNCHANGED <<disk, keyfile, export, key, cache, issued, keys, removed, edits>>

(***************************************************************************)
(* The user's changes.                                                     *)
(***************************************************************************)
Edit(p) == phase[p] = "idle" /\ edits < MaxEdits /\ edits' = edits + 1

(* The dialog, for a new session or for one that is there, whose password  *)
(* it keeps if none is typed.                                              *)
SubmitSession(p) ==
  /\ Edit(p)
  /\ \E id \in IdsOf(cache[p]) \cup {issued + 1}, n \in Names, a \in Places,
        t \in Texts \cup {NoText} :
       \E j \in (IdsOf(cache[p]) \ {id}) \cup {NoJump} :
         /\ id \in Ids
         /\ issued' = IF id > issued THEN id ELSE issued
         /\ OpenTmp(p, Upsert(cache[p],
              [id |-> id, name |-> n, place |-> a, jump |-> PickedJump(cache[p], id, j),
               password |-> IF t = NoText /\ id \in IdsOf(cache[p])
                            THEN Get(cache[p], id).password ELSE Typed(t)]))
  /\ UNCHANGED <<keyfile, export, key, keys, removed>>

RemoveSession(p) ==
  /\ Edit(p)
  /\ \E id \in IdsOf(cache[p]) :
       /\ OpenTmp(p, Without(cache[p], id))
       /\ removed' = removed \cup {id}
  /\ UNCHANGED <<keyfile, export, key, issued, keys>>

(* The copy gets a name of its own, which is left out. *)
DuplicateSession(p) ==
  /\ Edit(p) /\ issued < MaxIds
  /\ issued' = issued + 1
  /\ \E id \in IdsOf(cache[p]) :
       OpenTmp(p, Upsert(cache[p], [Get(cache[p], id) EXCEPT !.id = issued']))
  /\ UNCHANGED <<keyfile, export, key, keys, removed>>

(* persist_credentials: what was typed at a connection. *)
RememberPassword(p) ==
  /\ Edit(p)
  /\ \E id \in IdsOf(cache[p]), t \in Texts :
       OpenTmp(p, Upsert(cache[p], [Get(cache[p], id) EXCEPT !.password = Typed(t)]))
  /\ UNCHANGED <<keyfile, export, key, issued, keys, removed>>

(* The sessions of ~/.ssh/config are saved if any was added. *)
ImportSshConfig(p) ==
  /\ Edit(p)
  /\ LET added == HostsAdded(cache[p], issued)
         after == JumpsSet(added.sessions)
     IN  /\ added.issued <= MaxIds
         /\ issued' = added.issued
         /\ IF added.issued > issued THEN OpenTmp(p, after)
            ELSE /\ cache' = [cache EXCEPT ![p] = after]
                 /\ unsaved' = [unsaved EXCEPT ![p] = @ \/ after # cache[p]]
                 /\ UNCHANGED <<disk, handle, phase>>
  /\ UNCHANGED <<keyfile, export, key, keys, removed>>

ExportSessions(p) ==
  /\ phase[p] = "idle"
  /\ export' = Whole(ExportedSessions(cache[p]))
  /\ UNCHANGED <<disk, keyfile, phase, key, cache, handle, unsaved, issued, keys, removed, edits>>

(* Mutant: what is imported is not saved. *)
ImportUnsaved(p) ==
  /\ Edit(p) /\ export # NoFile
  /\ LET after == Imported(cache[p], key[p], issued, export.sessions)
     IN  /\ issued < after.issued /\ after.issued <= MaxIds
         /\ issued' = after.issued
         /\ cache' = [cache EXCEPT ![p] = after.sessions]
  /\ UNCHANGED <<disk, keyfile, export, phase, key, handle, unsaved, keys, removed>>

(* Nothing is saved, and nothing has changed, if all are there. *)
ImportSessions(p) ==
  /\ Edit(p) /\ export # NoFile
  /\ LET after == Imported(cache[p], key[p], issued, export.sessions)
     IN  /\ issued < after.issued /\ after.issued <= MaxIds
         /\ issued' = after.issued
         /\ OpenTmp(p, after.sessions)
  /\ UNCHANGED <<keyfile, export, key, keys, removed>>

(***************************************************************************)
(* The program ends, or dies at any point; the key file gets lost, which   *)
(* load answers with a new key.                                            *)
(***************************************************************************)
Stop(p) ==
  /\ phase[p] # "off"
  /\ phase' = [phase EXCEPT ![p] = "off"]
  /\ key' = [key EXCEPT ![p] = NoKey]
  /\ cache' = [cache EXCEPT ![p] = <<>>]
  /\ handle' = [handle EXCEPT ![p] = "none"]
  /\ unsaved' = [unsaved EXCEPT ![p] = FALSE]
  /\ UNCHANGED <<disk, keyfile, export, issued, keys, removed, edits>>

LoseKey ==
  /\ keyfile # NoKey /\ keys < MaxKeys
  /\ keyfile' = NoKey
  /\ UNCHANGED <<disk, export, phase, key, cache, handle, unsaved, issued, keys, removed, edits>>

Next ==
  \/ \E p \in Programs :
       \/ LookForKey(p) \/ CreateKey(p) \/ ReadConfig(p)
       \/ WriteTmp(p) \/ Publish(p) \/ SaveFails(p) \/ Stop(p)
       \/ SubmitSession(p) \/ RemoveSession(p) \/ DuplicateSession(p)
       \/ RememberPassword(p) \/ ImportSshConfig(p)
       \/ ExportSessions(p) \/ ImportSessions(p)
  \/ LoseKey

Spec == Init /\ [][Next]_vars

(***************************************************************************)
(* Properties of one program.                                              *)
(***************************************************************************)
(* A crash or a failed save at any point of save leaves a file that parses, *)
(* and no file is ever put aside ("cheap atomicity", config.rs:955).       *)
FileIsNeverTorn == disk["json"].is \in {"none", "whole"} /\ disk["broken"] = NoFile

(* What a program shows is what it would load if it were started now with   *)
(* its key, unless its last change did not get into the file: passwords    *)
(* come back as they were typed, and those it cannot read as it found them. *)
ShownIsSaved ==
  \A p \in Programs :
    phase[p] = "idle" /\ ~unsaved[p] => Loaded(disk["json"], key[p]) = cache[p]

(* However often keys are lost and sessions exported, imported and saved,  *)
(* a password never has two seals in a copy or in the file: whoever has    *)
(* the key it was saved with can still read it.                            *)
SealedAtMostOnce ==
  LET Once(c) == \A i \in DOMAIN c : Len(c[i].password.seals) <= 1
  IN  Once(disk["json"].sessions) /\ \A p \in Programs : Once(cache[p])

(* A session that was saved goes from the file only because the user       *)
(* removed it: not through a crash, a failed save, a key that is lost or   *)
(* an import.                                                              *)
SavedSessionsStay ==
  [][IdsOf(disk["json"].sessions) \ IdsOf(disk'["json"].sessions) \subseteq removed']_vars

(***************************************************************************)
(* Two programs at once keep neither FileIsNeverTorn (one publishes the    *)
(* json.tmp that the other has just truncated) nor SavedSessionsStay (the  *)
(* last one to save wins, with what it read at its start) nor, of course,  *)
(* ShownIsSaved; and if both make a key at the first start, what one of    *)
(* them saves cannot be read by the next.                                  *)
(*                                                                         *)
(* Statements that do not hold of one program either: a jump host need not *)
(* exist, since removing it and importing it elsewhere leave the old id    *)
(* behind; the dialog finds it by its label, which need not be unique; and *)
(* what a copy holds need not be readable.                                 *)
(***************************************************************************)
JumpsExist ==
  \A p \in Programs : \A i \in DOMAIN cache[p] :
    cache[p][i].jump \in IdsOf(cache[p]) \cup {NoJump}

(* "`cache` holds plaintext passwords" (config.rs:1020): not those of a key  *)
(* that was lost, which an export seals a second time.                     *)
CopyIsPlain ==
  \A p \in Programs : \A i \in DOMAIN cache[p] : cache[p][i].password.seals = <<>>
==============================================================================
