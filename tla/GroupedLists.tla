---------------------------- MODULE GroupedLists ----------------------------
(***************************************************************************)
(* The two lists that a user sorts into groups: the quick commands of the  *)
(* command bar and the saved sessions (app.rs, app/models.rs, config.rs).  *)
(* A group is a name, kept in a list of its own so that it may be empty;   *)
(* an entry names its group.  What the window shows is a list of rows made *)
(* from both after every change, and its menus act on the entry of a row:  *)
(* on a command by its index, on a session by its id.                      *)
(*                                                                         *)
(* Names are numbers, in the order of their characters.  The order of the  *)
(* sessions of a group, which is that of their names, is left out, as are  *)
(* the built-in local session and blanks around a name.                    *)
(***************************************************************************)
EXTENDS Naturals, SequencesExt

CONSTANTS
  Titles,      \* names a user may give to a group
  Folded,      \* of each name, and of Default: the order of its lower case form
  Default,     \* "default", which the rows show for no group
  MaxEntries   \* bound: entries of the list

NoGroup == 0

ASSUME ListAssumption ==
  /\ Titles \subseteq Nat \ {NoGroup} /\ Default \in Nat \ (Titles \cup {NoGroup})
  /\ Folded \in [Titles \cup {Default} -> 1..(Cardinality(Titles) + 1)]
  /\ IsFiniteSet(Titles) /\ MaxEntries \in Nat

VARIABLES
  kind,     \* which list this is: commands or sessions
  entries,  \* the entries, in order: what they are and their group
  groups,   \* quick_groups or groups
  closed,   \* the groups whose rows are hidden
  rows,     \* what is shown
  form      \* the dialog for commands: open, the index it edits, 0 for a new one; and
            \* (history) what was edited when it was opened

listVars == <<kind, entries, groups, closed, rows, form>>

-----------------------------------------------------------------------------
(***************************************************************************)
(* The rows.                                                               *)
(***************************************************************************)
\* Those of s that are in T, in their order, and lists one behind the other: folds, about
\* which can be reasoned.
Where(s, T) == FoldLeft(LAMBDA kept, x : IF x \in T THEN Append(kept, x) ELSE kept, <<>>, s)
Joined(ss)  == FoldLeft(LAMBDA all, s : all \o s, <<>>, ss)

GroupNames == Titles \cup {Default}

Used(es, gs) == gs \o Where([i \in DOMAIN es |-> es[i].group], GroupNames)

Sorted(s) ==
  Joined([n \in 1..(Cardinality(Titles) + 1) |-> Where(s, {g \in GroupNames : Folded[g] = n})])

\* Only neighbours are compared.
Deduped(s) ==
  FoldLeft(LAMBDA kept, g : IF kept # <<>> /\ Last(kept) = g THEN kept ELSE Append(kept, g), <<>>, s)

\* Mutant: duplicates are looked for before the names are sorted.
deduped_first(es, gs) == Sorted(Deduped(Used(es, gs)))

Named(es, gs) == Deduped(Sorted(Used(es, gs)))

Displayed(es, gs) ==
  (IF \E i \in DOMAIN es : es[i].group = NoGroup THEN <<Default>> ELSE <<>>) \o Named(es, gs)

Members(es, g) ==
  Where([i \in DOMAIN es |-> i], {i \in DOMAIN es : es[i].group = IF g = Default THEN NoGroup ELSE g})

RowsOf(es, g, cl) ==
  LET ms     == Members(es, g)
      row(j) == [group |-> g, header |-> j = 1, closed |-> g \in cl,
                 index |-> IF ms = <<>> THEN 0 ELSE ms[j],
                 what |-> IF ms = <<>> THEN 0 ELSE es[ms[j]].what]
  IN [j \in 1..(IF ms = <<>> THEN 1 ELSE Len(ms)) |-> row(j)]

\* quick_cmd_model, sync_sessions_to_model.
Model(es, gs, cl) ==
  LET shown == Displayed(es, gs)
  IN Joined([n \in DOMAIN shown |-> RowsOf(es, shown[n], cl)])

\* The rows are made again.  Those of the sessions are all open then.
Change(es, gs) ==
  LET cl == IF kind = "commands" THEN closed ELSE {}
  IN /\ entries' = es /\ groups' = gs /\ closed' = cl
     /\ rows' = Model(es, gs, cl)
     /\ UNCHANGED kind

Closed == [open |-> FALSE, index |-> 0, what |-> 0]

ListInit ==
  /\ kind \in {"commands", "sessions"}
  /\ entries = <<>> /\ groups = <<>> /\ closed = {} /\ rows = <<>>
  /\ form = Closed

-----------------------------------------------------------------------------
(***************************************************************************)
(* The entries.                                                            *)
(***************************************************************************)
\* Any name may be typed, also "default", or none.
NamesTyped == Titles \cup {Default, NoGroup}

RowsOfEntries == {rows[n] : n \in {m \in DOMAIN rows : rows[m].index # 0}}

\* The names that a menu offers to move an entry to, and those that can be edited.
Offered == {rows[n].group : n \in {m \in DOMAIN rows : rows[m].header}}

\* What is typed is another text than those that are there.
NewText == CHOOSE w \in 1..(MaxEntries + 1) : \A i \in DOMAIN entries : entries[i].what # w

AddCommand(g) ==
  /\ kind = "commands" /\ form.open /\ form.index = 0
  /\ Len(entries) < MaxEntries
  /\ Change(Append(entries, [what |-> NewText, group |-> g]), groups)
  /\ UNCHANGED form

\* The entry that has the index by now is written over; there may be none.
SaveCommand(g) ==
  /\ kind = "commands" /\ form.open /\ form.index # 0
  /\ form' = [form EXCEPT !.index = 0, !.what = 0]
  /\ Change(IF form.index \in DOMAIN entries
            THEN [entries EXCEPT ![form.index] = [what |-> NewText, group |-> g]]
            ELSE entries, groups)

OpenManage == form' = [Closed EXCEPT !.open = TRUE]

EditCommand(r) ==
  r.index \in DOMAIN entries
    /\ form' = [open |-> TRUE, index |-> r.index, what |-> entries[r.index].what]

\* Cancel, and a click outside of the dialog, which forgets nothing.
CancelEdit == form.open /\ form.index # 0 /\ form' = [form EXCEPT !.index = 0, !.what = 0]
CloseForm  == form.open /\ form' = [form EXCEPT !.open = FALSE]

Form ==
  /\ kind = "commands"
  /\ \/ OpenManage \/ CancelEdit \/ CloseForm
     \/ \E r \in RowsOfEntries : EditCommand(r)
  /\ UNCHANGED <<kind, entries, groups, closed, rows>>

DeleteCommand(r) ==
  /\ kind = "commands"
  /\ Change(IF r.index \in DOMAIN entries THEN RemoveAt(entries, r.index) ELSE entries, groups)
  /\ UNCHANGED form

\* Behind the entry, with a name of its own.
DuplicateCommand(r) ==
  /\ kind = "commands" /\ r.index \in DOMAIN entries /\ Len(entries) < MaxEntries
  /\ Change(InsertAt(entries, r.index + 1, [what |-> NewText, group |-> entries[r.index].group]),
            groups)
  /\ UNCHANGED form

MoveCommand(r, g) ==
  /\ kind = "commands" /\ g # r.group
  /\ Change(IF r.index \in DOMAIN entries
            THEN [entries EXCEPT ![r.index].group = IF g = Default THEN NoGroup ELSE g]
            ELSE entries, groups)
  /\ UNCHANGED form

PlaceOf(id) == SelectInSeq(entries, LAMBDA e : e.what = id)

\* upsert of the dialog: a session that is there keeps its place.
SubmitToGroup(id, g) ==
  /\ kind = "sessions"
  /\ PlaceOf(id) = 0 => Len(entries) < MaxEntries /\ id = NewText
  /\ Change(IF PlaceOf(id) = 0 THEN Append(entries, [what |-> id, group |-> g])
            ELSE [entries EXCEPT ![PlaceOf(id)].group = g], groups)
  /\ UNCHANGED form

RemoveFromList(r) ==
  /\ kind = "sessions"
  /\ Change(Where(entries, {e \in ToSet(entries) : e.what # r.what}), groups)
  /\ UNCHANGED form

MoveSession(r, g) ==
  /\ kind = "sessions" /\ g # r.group
  /\ Change(IF PlaceOf(r.what) = 0 THEN entries
            ELSE [entries EXCEPT ![PlaceOf(r.what)].group = IF g = Default THEN NoGroup ELSE g],
            groups)
  /\ UNCHANGED form

-----------------------------------------------------------------------------
(***************************************************************************)
(* The groups.                                                             *)
(***************************************************************************)
\* No group is made or renamed to nothing, or to "default" in capitals or not.
IsReserved(name) == name = NoGroup \/ Folded[name] = Folded[Default]

\* The names of a set, sorted.
InOrder(S) == Where([n \in 1..Max(S \cup {0}) |-> n], S)

add_group(name) ==
  Change(entries, IF IsReserved(name) \/ name \in ToSet(groups) THEN groups
                  ELSE Append(groups, name))

rename_group(old, new) ==
  IF IsReserved(new) \/ new = old THEN Change(entries, groups)
  ELSE Change([i \in DOMAIN entries |->
                 IF entries[i].group = old THEN [entries[i] EXCEPT !.group = new] ELSE entries[i]],
              InOrder({IF g = old THEN new ELSE g : g \in ToSet(groups)}))

\* The name of a group is edited, or one is made.
SubmitGroup(old, new) ==
  /\ IF old = NoGroup THEN add_group(new) ELSE rename_group(old, new)
  /\ UNCHANGED form

\* Offered for a group that has no entries.
DeleteGroup(r) ==
  /\ r.index = 0
  /\ Change([i \in DOMAIN entries |->
               IF entries[i].group = r.group THEN [entries[i] EXCEPT !.group = NoGroup] ELSE entries[i]],
            Where(groups, ToSet(groups) \ {r.group}))
  /\ UNCHANGED form

ToggleGroup(r) ==
  /\ r.header
  /\ closed' = IF r.group \in closed THEN closed \ {r.group} ELSE closed \cup {r.group}
  /\ rows' = Model(entries, groups, closed')
  /\ UNCHANGED <<kind, entries, groups, form>>

\* The program is started again: every group of commands is hidden.
Restart ==
  /\ closed' = IF kind = "commands" THEN ToSet(Displayed(entries, groups)) ELSE {}
  /\ rows' = Model(entries, groups, closed')
  /\ form' = Closed
  /\ UNCHANGED <<kind, entries, groups>>

ListNext ==
  \/ Restart
  \/ Form
  \/ \E g \in NamesTyped : AddCommand(g) \/ SaveCommand(g)
  \/ \E id \in 1..MaxEntries, g \in NamesTyped : SubmitToGroup(id, g)
  \/ \E r \in RowsOfEntries :
       \/ DeleteCommand(r) \/ DuplicateCommand(r) \/ RemoveFromList(r)
       \/ \E g \in Offered \cup {Default} : MoveCommand(r, g)
       \/ \E g \in Offered : MoveSession(r, g)
  \/ \E old \in Offered \cup {NoGroup}, new \in Titles \cup {Default} : SubmitGroup(old, new)
  \/ \E n \in DOMAIN rows : DeleteGroup(rows[n]) \/ ToggleGroup(rows[n])

ListSpec == ListInit /\ [][ListNext]_listVars

-----------------------------------------------------------------------------
(***************************************************************************)
(* Properties.                                                             *)
(***************************************************************************)
NamesInUse == ToSet(Used(entries, groups))

\* No group is called "default", and no two differ in their case only.
PlainNames ==
  /\ Default \notin NamesInUse
  /\ \A g, h \in NamesInUse : Folded[g] = Folded[h] => g = h

\* However groups are made, renamed into each other, moved to and deleted, each entry has
\* one row, which acts on that entry, and each group one header, above all of its rows.
EveryEntryHasItsRow ==
  PlainNames =>
    /\ \A i \in DOMAIN entries :
         Cardinality({n \in DOMAIN rows : rows[n].index = i}) = 1
    /\ \A n \in DOMAIN rows :
         /\ rows[n].index # 0 =>
              /\ rows[n].index \in DOMAIN entries
              /\ entries[rows[n].index].what = rows[n].what
              /\ rows[n].group = IF entries[rows[n].index].group = NoGroup THEN Default
                                 ELSE entries[rows[n].index].group
         /\ rows[n].header <=> ~\E m \in 1..(n - 1) : rows[m].group = rows[n].group
         /\ n > 1 /\ ~rows[n].header => rows[n - 1].group = rows[n].group

\* Saving the dialog writes over no other command than the one that it was opened for
\* (">=0 = edit that entry", app.slint:272).  It does when one before that was deleted or
\* copied meanwhile: the index then means another command, which is lost.
SaveGoesToItsCommand ==
  [][(\E g \in NamesTyped : SaveCommand(g)) /\ entries' # entries
     => entries[form.index].what = form.what]_listVars
=============================================================================
