-------------------------- MODULE ConfigStore_proofs --------------------------
(***************************************************************************)
(* Proofs about the session store when one program runs at a time: that    *)
(* the file is whole, that it is what the program shows, that passwords    *)
(* are sealed once and that saved sessions stay.  The last parts are about *)
(* the terminal buffer and about the lists of a window: screens are folds  *)
(* over what is written and rows over the entries, as the kept sessions    *)
(* are, and the same lemmas on counting and folds are used.                *)
(***************************************************************************)
EXTENDS ConfigStore, TermBuffer, GroupedLists, FiniteSetTheorems, TLAPS
(* What the steps of a save rely on: while the program holds json.tmp open *)
(* the file is the one it truncated, and when it is about to rename it     *)
(* everything has been written.                                            *)
Shapes ==
  /\ disk = [f \in FileNames |-> disk[f]]
  /\ phase = [p \in Programs |-> phase[p]]
  /\ handle = [p \in Programs |-> handle[p]]

SaveInOrder ==
  \A p \in Programs :
    /\ phase[p] = "saving" => handle[p] = "tmp" /\ disk["tmp"] = Torn
    /\ phase[p] = "written" => disk["tmp"].is = "whole"

SaveInv == Shapes /\ SaveInOrder /\ FileIsNeverTorn

(* The start satisfies the invariant. *)
LEMMA SaveInvInit == Init => SaveInv
  BY DEF Init, SaveInv, Shapes, SaveInOrder, FileIsNeverTorn, NoFile, FileNames

(* The change that starts a save truncates json.tmp and nothing else. *)
LEMMA OpenTmpKeeps ==
  ASSUME NEW p \in Programs, Programs = {p}, SaveInv, NEW c, OpenTmp(p, c)
  PROVE  SaveInv'
  BY DEF SaveInv, Shapes, SaveInOrder, FileIsNeverTorn, OpenTmp, Torn, FileNames

(* Every step of the only program keeps the invariant. *)
LEMMA SaveInvNext ==
  ASSUME NEW p \in Programs, Programs = {p}, SaveInv, [Next]_vars
  PROVE  SaveInv'
<1> USE DEF SaveInv, Shapes, SaveInOrder, FileIsNeverTorn
<1>1. CASE LookForKey(p)
  BY <1>1 DEF LookForKey
<1>2. CASE CreateKey(p)
  BY <1>2 DEF CreateKey
<1>3. CASE ReadConfig(p)
  BY <1>3 DEF ReadConfig
<1>4. CASE WriteTmp(p)
  <2>1. handle[p] = "tmp" /\ disk["tmp"] = Torn
    BY <1>4 DEF WriteTmp
  <2>2. PICK c : disk' = [disk EXCEPT !["tmp"] = Whole(c)]
    BY <1>4, <2>1 DEF WriteTmp, Written
  <2> QED
    BY <1>4, <2>2 DEF WriteTmp, Whole, FileNames
<1>5. CASE Publish(p)
  <2>1. disk["tmp"].is = "whole" /\ disk["tmp"] # NoFile
    BY <1>5 DEF Publish, NoFile
  <2>2. disk' = [disk EXCEPT !["json"] = disk["tmp"], !["tmp"] = NoFile]
    BY <1>5, <2>1 DEF Publish
  <2> QED
    BY <1>5, <2>1, <2>2 DEF Publish, Renamed, FileNames
<1>6. CASE SaveFails(p)
  BY <1>6 DEF SaveFails
<1>7. CASE Stop(p)
  BY <1>7 DEF Stop
<1>8. CASE \/ SubmitSession(p) \/ RemoveSession(p) \/ DuplicateSession(p)
           \/ RememberPassword(p) \/ ImportSessions(p)
  <2>1. \E c : OpenTmp(p, c)
    BY <1>8 DEF SubmitSession, RemoveSession, DuplicateSession, RememberPassword,
       ImportSessions
  <2> QED
    BY <2>1, OpenTmpKeeps
<1>9. CASE ImportSshConfig(p)
  <2>1. (\E c : OpenTmp(p, c)) \/ UNCHANGED <<disk, handle, phase>>
    BY <1>9 DEF ImportSshConfig
  <2> QED
    BY <2>1, OpenTmpKeeps
<1>10. CASE ExportSessions(p) \/ LoseKey \/ UNCHANGED vars
  BY <1>10 DEF ExportSessions, LoseKey, vars
<1> QED
  BY <1>1, <1>2, <1>3, <1>4, <1>5, <1>6, <1>7, <1>8, <1>9, <1>10 DEF Next

(* However often one program edits, fails to save, dies in the middle of a *)
(* save and is started again, sessions.json parses and is never put aside. *)
THEOREM SoleProgramKeepsTheFile ==
  ASSUME NEW p \in Programs, Programs = {p}
  PROVE  Spec => []FileIsNeverTorn
<1>1. SaveInv /\ [Next]_vars => SaveInv'
  BY SaveInvNext
<1>2. SaveInv => FileIsNeverTorn
  BY DEF SaveInv
<1> QED
  BY SaveInvInit, <1>1, <1>2, PTL DEF Spec

(***************************************************************************)
(* Counting and folds.                                                     *)
(***************************************************************************)
(* What holds of 0, and of n + 1 if of n, holds of every number: otherwise  *)
(* adding 1 would map a finite set into a smaller one, with no two numbers  *)
(* mapped to the same.                                                     *)
LEMMA CountingUp ==
  ASSUME NEW S, 0 \in S, \A n \in Nat : n \in S => n + 1 \in S
  PROVE  \A n \in Nat : n \in S
<1> SUFFICES ASSUME NEW n \in Nat, n \notin S PROVE FALSE
  OBVIOUS
<1>1. PICK A : A = {i \in 0 .. n : i \in S}
  OBVIOUS
<1>2. PICK B : B = A \ {0}
  OBVIOUS
<1>3. PICK up : up = [i \in A |-> i + 1]
  OBVIOUS
<1>4. IsFiniteSet(A)
  <2>1. IsFiniteSet(0 .. n) /\ A \in SUBSET (0 .. n)
    BY <1>1, FS_Interval
  <2> QED
    BY <2>1, FS_Subset
<1>5. IsFiniteSet(B) /\ Cardinality(B) < Cardinality(A)
  <2>1. 0 \in A
    BY <1>1
  <2>2. Cardinality(A) \in Nat
    BY <1>4, FS_CardinalityType
  <2>3. IsFiniteSet(A \ {0}) /\ Cardinality(A \ {0}) = Cardinality(A) - 1
    BY <1>4, <2>1, FS_RemoveElement
  <2> QED
    BY <1>2, <2>2, <2>3
<1>6. up \in [A -> B]
  BY <1>1, <1>2, <1>3
<1>7. \E x, y \in A : x # y /\ up[x] = up[y]
  BY <1>4, <1>5, <1>6, FS_PigeonHole
<1> QED
  BY <1>7, <1>3, <1>1

(* A set of positions that is not empty has a last one ...                 *)
LEMMA MaxIsLast ==
  ASSUME NEW n \in Nat, NEW s \in SUBSET (1 .. n), s # {}
  PROVE  Max(s) \in s /\ \A i \in s : Max(s) >= i
<1>1. PICK S : S = {m \in Nat : \A t \in SUBSET (1 .. m) : t # {} =>
                                  \E i \in t : \A j \in t : i >= j}
  OBVIOUS
<1>2. 0 \in S
  <2>1. 1 .. 0 = {}
    OBVIOUS
  <2> QED
    BY <1>1, <2>1
<1>3. ASSUME NEW m \in Nat, m \in S PROVE m + 1 \in S
  <2> SUFFICES ASSUME NEW t \in SUBSET (1 .. (m + 1)), t # {}
               PROVE  \E i \in t : \A j \in t : i >= j
    BY <1>1
  <2>1. CASE m + 1 \in t
    BY <2>1
  <2>2. CASE m + 1 \notin t
    <3>1. t \in SUBSET (1 .. m)
      BY <2>2
    <3> QED
      BY <3>1, <1>1, <1>3
  <2> QED
    BY <2>1, <2>2
<1>4. n \in S
  BY <1>2, <1>3, CountingUp
<1> QED
  BY <1>4, <1>1 DEF Max

(* ... and a first one.                                                    *)
LEMMA MinIsFirst ==
  ASSUME NEW n \in Nat, NEW s \in SUBSET (1 .. n), s # {}
  PROVE  Min(s) \in s /\ \A i \in s : Min(s) <= i
<1>1. PICK S : S = {m \in Nat : \A t \in SUBSET (1 .. m) : t # {} =>
                                  \E i \in t : \A j \in t : i <= j}
  OBVIOUS
<1>2. 0 \in S
  <2>1. 1 .. 0 = {}
    OBVIOUS
  <2> QED
    BY <1>1, <2>1
<1>3. ASSUME NEW m \in Nat, m \in S PROVE m + 1 \in S
  <2> SUFFICES ASSUME NEW t \in SUBSET (1 .. (m + 1)), t # {}
               PROVE  \E i \in t : \A j \in t : i <= j
    BY <1>1
  <2>1. CASE \E i \in t : i # m + 1
    <3>1. t \ {m + 1} \in SUBSET (1 .. m) /\ t \ {m + 1} # {}
      BY <2>1
    <3>2. PICK i \in t \ {m + 1} : \A j \in t \ {m + 1} : i <= j
      BY <3>1, <1>1, <1>3
    <3> QED
      BY <3>2
  <2>2. CASE \A i \in t : i = m + 1
    <3>1. PICK i \in t : TRUE
      OBVIOUS
    <3>2. i \in Int /\ \A j \in t : j = i
      BY <2>2
    <3> QED
      BY <3>2
  <2> QED
    BY <2>1, <2>2
<1>4. n \in S
  BY <1>2, <1>3, CountingUp
<1> QED
  BY <1>4, <1>1 DEF Min

(* g folds 1 .. n from the left: the value of a set of positions comes from *)
(* that without the last of them.                                          *)
IsFold(g, base, n, step) ==
  \A s \in SUBSET (1 .. n) :
    g[s] = IF s = {} THEN base ELSE step[<<g[s \ {Max(s)}], Max(s)>>]

(* The function by which the library defines FoldLeft exists ...           *)
LEMMA FoldExists ==
  ASSUME NEW A, NEW base \in A, NEW n \in Nat, NEW step \in [A \X (1 .. n) -> A]
  PROVE  \E g \in [SUBSET (1 .. n) -> A] : IsFold(g, base, n, step)
<1> DEFINE Folds(g, m) ==
      \A s \in SUBSET (1 .. m) :
        g[s] = IF s = {} THEN base ELSE step[<<g[s \ {Max(s)}], Max(s)>>]
     Some(m) == m <= n => \E g \in [SUBSET (1 .. m) -> A] : Folds(g, m)
<1> HIDE DEF Some
<1>1. PICK S : S = {m \in Nat : Some(m)}
  OBVIOUS
<1>2. 0 \in S
  <2>1. PICK g : g = [s \in SUBSET (1 .. 0) |-> base]
    OBVIOUS
  <2>2. g \in [SUBSET (1 .. 0) -> A] /\ Folds(g, 0)
    BY <2>1
  <2> QED
    BY <1>1, <2>2 DEF Some
<1>3. ASSUME NEW m \in Nat, m \in S PROVE m + 1 \in S
  <2> SUFFICES ASSUME m + 1 <= n
               PROVE  \E g \in [SUBSET (1 .. (m + 1)) -> A] : Folds(g, m + 1)
    <3> HIDE DEF Folds
    <3>1. Some(m + 1)
      BY DEF Some
    <3> QED
      BY <1>1, <3>1
  <2>1. PICK f \in [SUBSET (1 .. m) -> A] : Folds(f, m)
    <3>1. Some(m) /\ m <= n
      BY <1>1, <1>3
    <3> HIDE DEF Folds
    <3> QED
      BY <3>1 DEF Some
  <2>2. PICK g : g = [s \in SUBSET (1 .. (m + 1)) |->
                        IF m + 1 \in s THEN step[<<f[s \ {m + 1}], m + 1>>] ELSE f[s]]
    OBVIOUS
  <2>3. ASSUME NEW s \in SUBSET (1 .. (m + 1))
        PROVE  g[s] \in A /\ g[s] = IF s = {} THEN base ELSE step[<<g[s \ {Max(s)}], Max(s)>>]
    <3>1. CASE m + 1 \in s
      <4>1. Max(s) = m + 1
        <5>1. m + 1 \in Nat /\ s # {}
          BY <3>1
        <5>2. Max(s) \in s /\ \A i \in s : Max(s) >= i
          BY <5>1, MaxIsLast
        <5>3. Max(s) \in 1 .. (m + 1) /\ Max(s) >= m + 1
          BY <5>2, <3>1
        <5> QED
          BY <5>3
      <4>2. s \ {m + 1} \in SUBSET (1 .. m) /\ s \ {m + 1} \in SUBSET (1 .. (m + 1))
        OBVIOUS
      <4>3. g[s \ {m + 1}] = f[s \ {m + 1}] /\ f[s \ {m + 1}] \in A
        BY <4>2, <2>2, <2>1
      <4>4. <<f[s \ {m + 1}], m + 1>> \in A \X (1 .. n)
        BY <4>3
      <4>5. g[s] = step[<<f[s \ {m + 1}], m + 1>>]
        BY <3>1, <2>2
      <4> QED
        BY <4>1, <4>3, <4>4, <4>5, <3>1
    <3>2. CASE m + 1 \notin s
      <4>1. s \in SUBSET (1 .. m)
        BY <3>2
      <4>2. g[s] = f[s] /\ f[s] \in A
        BY <3>2, <4>1, <2>1, <2>2
      <4>3. CASE s = {}
        BY <4>2, <4>3, <2>1, <4>1
      <4>4. CASE s # {}
        <5>1. s \ {Max(s)} \in SUBSET (1 .. m) /\ s \ {Max(s)} \in SUBSET (1 .. (m + 1))
          BY <4>1
        <5>2. g[s \ {Max(s)}] = f[s \ {Max(s)}]
          BY <5>1, <2>2, <3>2
        <5> QED
          BY <4>2, <4>4, <4>1, <5>2, <2>1
      <4> QED
        BY <4>3, <4>4
    <3> QED
      BY <3>1, <3>2
  <2>4. g \in [SUBSET (1 .. (m + 1)) -> A] /\ Folds(g, m + 1)
    BY <2>2, <2>3
  <2> QED
    BY <2>4
<1>4. n \in S
  BY <1>2, <1>3, CountingUp
<1>5. Some(n)
  BY <1>1, <1>4
<1>6. PICK g \in [SUBSET (1 .. n) -> A] : Folds(g, n)
  <2>1. n <= n
    OBVIOUS
  <2> HIDE DEF Folds
  <2> QED
    BY <1>5, <2>1, Zenon DEF Some
<1> QED
  BY <1>6 DEF IsFold

(* ... and what each of its steps keeps is true of what it returns.        *)
LEMMA FoldStays ==
  ASSUME NEW n \in Nat, NEW B, NEW h,
         h[{}] \in B[{}],
         \A s \in SUBSET (1 .. n) :
           s # {} /\ h[s \ {Max(s)}] \in B[s \ {Max(s)}] => h[s] \in B[s]
  PROVE  h[1 .. n] \in B[1 .. n]
<1>1. PICK S : S = {m \in Nat : m <= n => h[1 .. m] \in B[1 .. m]}
  OBVIOUS
<1>2. 0 \in S
  <2>1. 1 .. 0 = {}
    OBVIOUS
  <2> QED
    BY <1>1, <2>1
<1>3. ASSUME NEW m \in Nat, m \in S PROVE m + 1 \in S
  <2> SUFFICES ASSUME m + 1 <= n PROVE h[1 .. (m + 1)] \in B[1 .. (m + 1)]
    BY <1>1
  <2>1. 1 .. (m + 1) \in SUBSET (1 .. n) /\ 1 .. (m + 1) # {} /\ m + 1 \in 1 .. (m + 1)
    OBVIOUS
  <2>2. Max(1 .. (m + 1)) = m + 1
    <3>1. m + 1 \in Nat /\ 1 .. (m + 1) \in SUBSET (1 .. (m + 1))
      OBVIOUS
    <3>2. Max(1 .. (m + 1)) \in 1 .. (m + 1) /\ \A i \in 1 .. (m + 1) : Max(1 .. (m + 1)) >= i
      BY <2>1, <3>1, MaxIsLast
    <3>3. Max(1 .. (m + 1)) \in 1 .. (m + 1) /\ Max(1 .. (m + 1)) >= m + 1
      BY <2>1, <3>2
    <3> QED
      BY <3>3
  <2>3. (1 .. (m + 1)) \ {m + 1} = 1 .. m
    OBVIOUS
  <2>4. h[1 .. m] \in B[1 .. m]
    BY <1>1, <1>3
  <2>5. PICK s : s = 1 .. (m + 1)
    OBVIOUS
  <2>6. s \in SUBSET (1 .. n) /\ s # {} /\ s \ {Max(s)} = 1 .. m
    BY <2>1, <2>2, <2>3, <2>5
  <2>7. h[s] \in B[s]
    BY <2>4, <2>6
  <2> QED
    BY <2>5, <2>7
<1>4. n \in S
  BY <1>2, <1>3, CountingUp
<1> QED
  BY <1>4, <1>1

(* Removing an id keeps every other entry. *)
LEMMA WithoutStays ==
  ASSUME NEW E, NEW c \in Seq(E), NEW id
  PROVE  /\ Without(c, id) \in Seq(E)
         /\ \A i \in DOMAIN c : c[i].id # id =>
              \E j \in DOMAIN Without(c, id) : Without(c, id)[j] = c[i]
<1>0. PICK n \in Nat : n = Len(c) /\ DOMAIN c = 1 .. n
  OBVIOUS
<1> DEFINE kept(acc, s) == IF s.id = id THEN acc ELSE Append(acc, s)
           Folds(h) == h = [s \in SUBSET (DOMAIN c) |->
                              IF s = {} THEN <<>> ELSE kept(h[s \ {Max(s)}], c[Max(s)])]
           Good(s) == {acc \in Seq(E) : \A i \in s : c[i].id # id => \E j \in DOMAIN acc : acc[j] = c[i]}
<1>1. PICK step : step = [x \in Seq(E) \X (1 .. n) |-> kept(x[1], c[x[2]])]
  OBVIOUS
<1>2. step \in [Seq(E) \X (1 .. n) -> Seq(E)]
  BY <1>0, <1>1
<1>3. PICK g \in [SUBSET (1 .. n) -> Seq(E)] :
         \A s \in SUBSET (1 .. n) :
             g[s] = IF s = {} THEN <<>> ELSE step[<<g[s \ {Max(s)}], Max(s)>>]
  <2>1. <<>> \in Seq(E)
    OBVIOUS
  <2>2. \E g \in [SUBSET (1 .. n) -> Seq(E)] : IsFold(g, <<>>, n, step)
    BY <1>2, <2>1, FoldExists
  <2> QED
    BY <2>2 DEF IsFold
<1>4. Folds(g)
  <2>1. ASSUME NEW s \in SUBSET (1 .. n), s # {}
        PROVE  g[s] = kept(g[s \ {Max(s)}], c[Max(s)])
    <3>1. Max(s) \in 1 .. n
      BY <2>1, MaxIsLast
    <3>2. s \ {Max(s)} \in SUBSET (1 .. n)
      OBVIOUS
    <3> QED
      BY <3>1, <3>2, <2>1, <1>3, <1>1
  <2>2. g[{}] = <<>>
    BY <1>3
  <2>3. \A s \in SUBSET (DOMAIN c) : g[s] = IF s = {} THEN <<>> ELSE kept(g[s \ {Max(s)}], c[Max(s)])
    BY <2>1, <2>2, <1>0
  <2>4. DOMAIN g = SUBSET (DOMAIN c)
    BY <1>0
  <2> HIDE DEF kept
  <2> QED
    BY <2>3, <2>4
<1>5. PICK h : h = CHOOSE f : Folds(f)
  OBVIOUS
<1>6. Folds(h)
  BY <1>4, <1>5
<1>7. Without(c, id) = h[DOMAIN c]
  BY <1>5 DEF Without, FoldLeft, MapThenFoldSet
<1>8. PICK B : B = [s \in SUBSET (1 .. n) |-> Good(s)]
  OBVIOUS
<1>9. h[{}] \in B[{}]
  BY <1>6, <1>8, <1>0
<1>10. ASSUME NEW s \in SUBSET (1 .. n), s # {}, h[s \ {Max(s)}] \in B[s \ {Max(s)}]
       PROVE  h[s] \in B[s]
  <2>1. Max(s) \in 1 .. n /\ Max(s) \in s
    BY <1>10, MaxIsLast
  <2>2. PICK acc : acc = h[s \ {Max(s)}]
    OBVIOUS
  <2>3. PICK x \in E : x = c[Max(s)]
    BY <2>1, <1>0
  <2>4. h[s] = kept(acc, x)
    BY <1>6, <1>0, <1>10, <2>2, <2>3
  <2>5. acc \in Good(s \ {Max(s)})
    BY <1>8, <1>10, <2>2
  <2>6. ASSUME NEW i \in s, c[i].id # id PROVE \E j \in DOMAIN h[s] : h[s][j] = c[i]
    <3>1. CASE i = Max(s)
      <4>1. h[s] = Append(acc, x) /\ acc \in Seq(E)
        BY <2>3, <2>4, <2>5, <2>6, <3>1
      <4>2. Len(acc) + 1 \in DOMAIN h[s] /\ h[s][Len(acc) + 1] = x
        BY <4>1
      <4> QED
        BY <4>2, <3>1, <2>3
    <3>2. CASE i # Max(s)
      <4>1. PICK j \in DOMAIN acc : acc[j] = c[i]
        BY <2>5, <2>6, <3>2
      <4>2. j \in DOMAIN kept(acc, x) /\ kept(acc, x)[j] = c[i]
        BY <4>1, <2>5
      <4> QED
        BY <4>2, <2>4
    <3> QED
      BY <3>1, <3>2
  <2>7. h[s] \in Seq(E)
    BY <2>4, <2>5
  <2>8. h[s] \in Good(s)
    BY <2>6, <2>7
  <2> QED
    BY <2>8, <1>8
<1>11. h[1 .. n] \in B[1 .. n]
  BY <1>9, <1>10, FoldStays
<1>12. h[1 .. n] \in Good(1 .. n)
  BY <1>11, <1>8
<1> QED
  BY <1>12, <1>7, <1>0

(* What holds of the sessions at the start of an import, and after each    *)
(* session of the file, holds at its end.                                  *)
LEMMA ImportedStays ==
  ASSUME NEW F, NEW file \in Seq(F), NEW c, NEW k, NEW n0,
         NEW A, [sessions |-> c, issued |-> n0] \in A,
         \A acc \in A, i \in DOMAIN file : ImportOne(acc, file[i], k) \in A
  PROVE  Imported(c, k, n0, file) \in A
<1>0. PICK n \in Nat : n = Len(file) /\ DOMAIN file = 1 .. n
  OBVIOUS
<1> DEFINE Folds(h) == h = [s \in SUBSET (DOMAIN file) |->
                              IF s = {} THEN [sessions |-> c, issued |-> n0]
                              ELSE ImportOne(h[s \ {Max(s)}], file[Max(s)], k)]
<1>1. PICK step : step = [x \in A \X (1 .. n) |-> ImportOne(x[1], file[x[2]], k)]
  OBVIOUS
<1>2. step \in [A \X (1 .. n) -> A]
  BY <1>0, <1>1
<1>3. PICK g \in [SUBSET (1 .. n) -> A] :
         \A s \in SUBSET (1 .. n) :
           g[s] = IF s = {} THEN [sessions |-> c, issued |-> n0] ELSE step[<<g[s \ {Max(s)}], Max(s)>>]
  <2>1. \E g \in [SUBSET (1 .. n) -> A] : IsFold(g, [sessions |-> c, issued |-> n0], n, step)
    BY <1>2, FoldExists
  <2> QED
    BY <2>1 DEF IsFold
<1>4. Folds(g)
  <2>1. ASSUME NEW s \in SUBSET (1 .. n), s # {}
        PROVE  g[s] = ImportOne(g[s \ {Max(s)}], file[Max(s)], k)
    <3>1. Max(s) \in 1 .. n
      BY <2>1, MaxIsLast
    <3> QED
      BY <3>1, <2>1, <1>3, <1>1
  <2>2. DOMAIN g = SUBSET (DOMAIN file) /\ g[{}] = [sessions |-> c, issued |-> n0]
    BY <1>0, <1>3
  <2> QED
    BY <2>1, <2>2, <1>0
<1>5. PICK h : h = CHOOSE f : Folds(f)
  OBVIOUS
<1>6. Folds(h)
  BY <1>4, <1>5
<1>7. Imported(c, k, n0, file) = h[DOMAIN file]
  BY <1>5 DEF Imported, FoldLeft, MapThenFoldSet
<1>8. PICK B : B = [s \in SUBSET (1 .. n) |-> A]
  OBVIOUS
<1>9. ASSUME NEW s \in SUBSET (1 .. n), s # {}, h[s \ {Max(s)}] \in B[s \ {Max(s)}]
      PROVE  h[s] \in B[s]
  <2>1. Max(s) \in DOMAIN file
    BY <1>9, <1>0, MaxIsLast
  <2>2. s \ {Max(s)} \in SUBSET (1 .. n)
    OBVIOUS
  <2>3. h[s \ {Max(s)}] \in A
    BY <2>2, <1>8, <1>9
  <2>4. h[s] = ImportOne(h[s \ {Max(s)}], file[Max(s)], k)
    BY <1>0, <1>6, <1>9
  <2> QED
    BY <2>1, <2>3, <2>4, <1>8
<1>10. h[1 .. n] \in B[1 .. n]
  <2>1. h[{}] \in B[{}]
    BY <1>0, <1>6, <1>8
  <2> QED
    BY <2>1, <1>9, FoldStays
<1> QED
  BY <1>10, <1>7, <1>8, <1>0

(* The same of the hosts of ~/.ssh/config ... *)
LEMMA HostsAddedStays ==
  ASSUME NEW c, NEW n0,
         NEW A, [sessions |-> c, issued |-> n0] \in A,
         \A acc \in A, i \in DOMAIN SshHosts : AddHost(acc, SshHosts[i]) \in A
  PROVE  HostsAdded(c, n0) \in A
<1>0. PICK n \in Nat : n = Len(SshHosts) /\ DOMAIN SshHosts = 1 .. n
  BY SshHostsAssumption
<1> DEFINE Folds(h) == h = [s \in SUBSET (DOMAIN SshHosts) |->
                              IF s = {} THEN [sessions |-> c, issued |-> n0]
                              ELSE AddHost(h[s \ {Max(s)}], SshHosts[Max(s)])]
<1>1. PICK step : step = [x \in A \X (1 .. n) |-> AddHost(x[1], SshHosts[x[2]])]
  OBVIOUS
<1>2. step \in [A \X (1 .. n) -> A]
  BY <1>0, <1>1
<1>3. PICK g \in [SUBSET (1 .. n) -> A] :
         \A s \in SUBSET (1 .. n) :
           g[s] = IF s = {} THEN [sessions |-> c, issued |-> n0] ELSE step[<<g[s \ {Max(s)}], Max(s)>>]
  <2>1. \E g \in [SUBSET (1 .. n) -> A] : IsFold(g, [sessions |-> c, issued |-> n0], n, step)
    BY <1>2, FoldExists
  <2> QED
    BY <2>1 DEF IsFold
<1>4. Folds(g)
  <2>1. ASSUME NEW s \in SUBSET (1 .. n), s # {}
        PROVE  g[s] = AddHost(g[s \ {Max(s)}], SshHosts[Max(s)])
    <3>1. Max(s) \in 1 .. n
      BY <2>1, MaxIsLast
    <3> QED
      BY <3>1, <2>1, <1>3, <1>1
  <2>2. DOMAIN g = SUBSET (DOMAIN SshHosts) /\ g[{}] = [sessions |-> c, issued |-> n0]
    BY <1>0, <1>3
  <2> QED
    BY <2>1, <2>2, <1>0
<1>5. PICK h : h = CHOOSE f : Folds(f)
  OBVIOUS
<1>6. Folds(h)
  BY <1>4, <1>5
<1>7. HostsAdded(c, n0) = h[DOMAIN SshHosts]
  BY <1>5 DEF HostsAdded, FoldLeft, MapThenFoldSet
<1>8. PICK B : B = [s \in SUBSET (1 .. n) |-> A]
  OBVIOUS
<1>9. ASSUME NEW s \in SUBSET (1 .. n), s # {}, h[s \ {Max(s)}] \in B[s \ {Max(s)}]
      PROVE  h[s] \in B[s]
  <2>1. Max(s) \in DOMAIN SshHosts
    BY <1>9, <1>0, MaxIsLast
  <2>2. s \ {Max(s)} \in SUBSET (1 .. n)
    OBVIOUS
  <2>3. h[s \ {Max(s)}] \in A
    BY <2>2, <1>8, <1>9
  <2>4. h[s] = AddHost(h[s \ {Max(s)}], SshHosts[Max(s)])
    BY <1>0, <1>6, <1>9
  <2> QED
    BY <2>1, <2>3, <2>4, <1>8
<1>10. h[1 .. n] \in B[1 .. n]
  <2>1. h[{}] \in B[{}]
    BY <1>0, <1>6, <1>8
  <2> QED
    BY <2>1, <1>9, FoldStays
<1> QED
  BY <1>10, <1>7, <1>8, <1>0

(* ... and of their jump hosts. *)
LEMMA JumpsSetStays ==
  ASSUME NEW c,
         NEW A, c \in A,
         \A acc \in A, i \in DOMAIN SshHosts : SetJump(acc, SshHosts[i]) \in A
  PROVE  JumpsSet(c) \in A
<1>0. PICK n \in Nat : n = Len(SshHosts) /\ DOMAIN SshHosts = 1 .. n
  BY SshHostsAssumption
<1> DEFINE Folds(h) == h = [s \in SUBSET (DOMAIN SshHosts) |->
                              IF s = {} THEN c
                              ELSE SetJump(h[s \ {Max(s)}], SshHosts[Max(s)])]
<1>1. PICK step : step = [x \in A \X (1 .. n) |-> SetJump(x[1], SshHosts[x[2]])]
  OBVIOUS
<1>2. step \in [A \X (1 .. n) -> A]
  BY <1>0, <1>1
<1>3. PICK g \in [SUBSET (1 .. n) -> A] :
         \A s \in SUBSET (1 .. n) :
           g[s] = IF s = {} THEN c ELSE step[<<g[s \ {Max(s)}], Max(s)>>]
  <2>1. \E g \in [SUBSET (1 .. n) -> A] : IsFold(g, c, n, step)
    BY <1>2, FoldExists
  <2> QED
    BY <2>1 DEF IsFold
<1>4. Folds(g)
  <2>1. ASSUME NEW s \in SUBSET (1 .. n), s # {}
        PROVE  g[s] = SetJump(g[s \ {Max(s)}], SshHosts[Max(s)])
    <3>1. Max(s) \in 1 .. n
      BY <2>1, MaxIsLast
    <3> QED
      BY <3>1, <2>1, <1>3, <1>1
  <2>2. DOMAIN g = SUBSET (DOMAIN SshHosts) /\ g[{}] = c
    BY <1>0, <1>3
  <2> QED
    BY <2>1, <2>2, <1>0
<1>5. PICK h : h = CHOOSE f : Folds(f)
  OBVIOUS
<1>6. Folds(h)
  BY <1>4, <1>5
<1>7. JumpsSet(c) = h[DOMAIN SshHosts]
  BY <1>5 DEF JumpsSet, FoldLeft, MapThenFoldSet
<1>8. PICK B : B = [s \in SUBSET (1 .. n) |-> A]
  OBVIOUS
<1>9. ASSUME NEW s \in SUBSET (1 .. n), s # {}, h[s \ {Max(s)}] \in B[s \ {Max(s)}]
      PROVE  h[s] \in B[s]
  <2>1. Max(s) \in DOMAIN SshHosts
    BY <1>9, <1>0, MaxIsLast
  <2>2. s \ {Max(s)} \in SUBSET (1 .. n)
    OBVIOUS
  <2>3. h[s \ {Max(s)}] \in A
    BY <2>2, <1>8, <1>9
  <2>4. h[s] = SetJump(h[s \ {Max(s)}], SshHosts[Max(s)])
    BY <1>0, <1>6, <1>9
  <2> QED
    BY <2>1, <2>3, <2>4, <1>8
<1>10. h[1 .. n] \in B[1 .. n]
  <2>1. h[{}] \in B[{}]
    BY <1>0, <1>6, <1>8
  <2> QED
    BY <2>1, <1>9, FoldStays
<1> QED
  BY <1>10, <1>7, <1>8, <1>0

(***************************************************************************)
(* Passwords.                                                              *)
(***************************************************************************)
(* What a copy holds when the m-th key was the last to be made: a password *)
(* as it was typed, or in the one seal of a key that is lost.              *)
Kept(m) ==
  {w \in [text : Texts \cup {NoText}, seals : Seq(Int)] :
     Len(w.seals) <= 1 /\ \A i \in DOMAIN w.seals : w.seals[i] \in 1 .. (m - 1)}

(* The same in an export: sealed once more, unless it is blank.            *)
Taken(m) == {Blank} \cup {SealedWith(w, PortableKey) : w \in Kept(m)}

Entries(P) == [id : Int, name : Names, place : Places, password : P, jump : Int]

(* What was appended can be taken off again. *)
LEMMA FrontAndLast ==
  ASSUME NEW s \in Seq(Int), NEW k \in Int
  PROVE  /\ Front(Append(s, k)) = s /\ Last(Append(s, k)) = k
         /\ Append(s, k) # <<>> /\ Append(s, k) \in Seq(Int) /\ Len(Append(s, k)) = Len(s) + 1
<1>1. /\ Append(s, k) \in Seq(Int) /\ Len(Append(s, k)) = Len(s) + 1
      /\ Append(s, k)[Len(s) + 1] = k /\ \A i \in 1 .. Len(s) : Append(s, k)[i] = s[i]
  OBVIOUS
<1>2. SubSeq(Append(s, k), 1, Len(s)) \in Seq(Int) /\ Len(SubSeq(Append(s, k), 1, Len(s))) = Len(s)
  BY <1>1
<1>3. \A i \in 1 .. Len(s) : SubSeq(Append(s, k), 1, Len(s))[i] = s[i]
  BY <1>1
<1>4. SubSeq(Append(s, k), 1, Len(s)) = s
  BY <1>2, <1>3
<1> QED
  BY <1>1, <1>4 DEF Front, Last

(* Another key makes no password unfit. *)
LEMMA MoreKeysMorePasswords ==
  ASSUME NEW m \in Nat
  PROVE  Kept(m) \subseteq Kept(m + 1) /\ Taken(m) \subseteq Taken(m + 1)
<1>1. Kept(m) \subseteq Kept(m + 1)
  BY DEF Kept
<1> QED
  BY <1>1 DEF Taken

(* A password of a copy comes back from the file as it was.                *)
LEMMA SealAndOpen ==
  ASSUME NEW k \in Keys, NEW w \in Kept(k)
  PROVE  /\ Sealed(w, k) \in Kept(k + 1)
         /\ Opened(Sealed(w, k), k) = w
<1>1. MaxKeys \in Nat /\ k \in Nat /\ k \in 1 .. MaxKeys /\ k \in Int
  BY BoundsAssumption DEF Keys
<1>2. CASE w = Blank
  <2>1. w.seals = <<>>
    BY <1>2 DEF Blank, Typed
  <2>2. Sealed(w, k) = w /\ Opened(w, k) = w
    BY <1>2, <2>1 DEF Sealed, Opened, OutermostIs
  <2> QED
    BY <1>1, <2>2, MoreKeysMorePasswords
<1>3. CASE w # Blank /\ w.seals = <<>>
  <2>1. Sealed(w, k) = SealedWith(w, k)
    BY <1>3 DEF Sealed, OutermostIs
  <2>2. PICK u : u = Append(w.seals, k)
    OBVIOUS
  <2>3. u \in Seq(Int) /\ Len(u) = 1 /\ u # <<>> /\ Last(u) = k /\ Front(u) = w.seals /\ u[1] = k
    <3>1. w.seals \in Seq(Int) /\ Len(w.seals) = 0
      BY <1>3 DEF Kept
    <3> QED
      BY <1>1, <2>2, <3>1, FrontAndLast DEF Last
  <2>4. Sealed(w, k) = [w EXCEPT !.seals = u]
    BY <2>1, <2>2 DEF SealedWith
  <2>5. Sealed(w, k) \in Kept(k + 1)
    <3>1. /\ Sealed(w, k) \in [text : Texts \cup {NoText}, seals : Seq(Int)]
          /\ Sealed(w, k).seals = u
      BY <2>3, <2>4 DEF Kept
    <3>2. \A i \in DOMAIN u : u[i] \in 1 .. ((k + 1) - 1)
      BY <1>1, <2>3
    <3>3. PICK v : v = Sealed(w, k)
      OBVIOUS
    <3>4. v \in [text : Texts \cup {NoText}, seals : Seq(Int)] /\ v.seals = u
      BY <3>1, <3>3
    <3>5. Len(v.seals) <= 1
      <4>1. Len(u) <= 1
        BY <2>3
      <4> QED
        BY <4>1, <3>4
    <3>6. \A i \in DOMAIN v.seals : v.seals[i] \in 1 .. ((k + 1) - 1)
      BY <3>2, <3>4
    <3>7. v \in Kept(k + 1)
      BY <3>4, <3>5, <3>6 DEF Kept
    <3> QED
      BY <3>3, <3>7
  <2>6. Opened(Sealed(w, k), k) = [Sealed(w, k) EXCEPT !.seals = w.seals]
    BY <2>3, <2>4 DEF Opened, OutermostIs, Kept
  <2> QED
    BY <2>4, <2>5, <2>6 DEF Kept
<1>4. CASE w # Blank /\ w.seals # <<>>
  <2>1. PICK j : j = Last(w.seals)
    OBVIOUS
  <2>2. j \in 1 .. (k - 1)
    BY <1>4, <2>1 DEF Kept, Last
  <2>3. j \in Keys /\ j # k
    BY <1>1, <2>2 DEF Keys
  <2>4. Sealed(w, k) = w
    BY <2>1, <2>3, <1>4 DEF Sealed, OutermostIs
  <2>5. Opened(w, k) = w
    BY <2>1, <2>3 DEF Opened, OutermostIs
  <2> QED
    BY <1>1, <2>4, <2>5, MoreKeysMorePasswords
<1> QED
  BY <1>2, <1>3, <1>4

(* What is loaded has no seal of the key it is loaded with.                *)
LEMMA OpenIsKept ==
  ASSUME NEW k \in Nat, NEW w \in Kept(k + 1)
  PROVE  Opened(w, k) \in Kept(k)
<1>1. CASE w.seals = <<>>
  BY <1>1 DEF Kept, Opened, OutermostIs
<1>2. CASE w.seals # <<>> /\ Last(w.seals) = k
  <2>1. Front(w.seals) \in Seq(Int) /\ Len(Front(w.seals)) = 0
    BY <1>2 DEF Kept, Front
  <2>2. Opened(w, k) = [w EXCEPT !.seals = Front(w.seals)]
    BY <1>2 DEF Opened, OutermostIs
  <2>3. Opened(w, k) \in [text : Texts \cup {NoText}, seals : Seq(Int)]
    BY <2>1, <2>2 DEF Kept
  <2>4. Opened(w, k).seals = Front(w.seals)
    BY <2>2 DEF Kept
  <2> QED
    BY <2>1, <2>3, <2>4 DEF Kept
<1>3. CASE w.seals # <<>> /\ Last(w.seals) # k
  <2>1. Opened(w, k) = w
    BY <1>3 DEF Opened, OutermostIs
  <2>2. Len(w.seals) = 1 /\ w.seals[1] \in 1 .. k /\ w.seals[1] # k
    <3>1. /\ w.seals \in Seq(Int) /\ Len(w.seals) <= 1
          /\ \A i \in DOMAIN w.seals : w.seals[i] \in 1 .. ((k + 1) - 1)
      BY DEF Kept
    <3>2. Len(w.seals) = 1
      <4>1. PICK s \in Seq(Int) : s = w.seals
        BY <3>1
      <4>2. s # <<>> /\ Len(s) <= 1
        BY <4>1, <3>1, <1>3
      <4>3. PICK l \in Nat : l = Len(s)
        OBVIOUS
      <4>4. l # 0 /\ l <= 1
        BY <4>2, <4>3
      <4>5. l = 1
        BY <4>4
      <4> QED
        BY <4>1, <4>3, <4>5
    <3> QED
      BY <3>1, <3>2, <1>3 DEF Last
  <2> QED
    BY <2>1, <2>2 DEF Kept
<1> QED
  BY <1>1, <1>2, <1>3

(* What is exported can be kept in an export ... *)
LEMMA ExportIsTaken ==
  ASSUME NEW m, NEW w \in Kept(m)
  PROVE  Exported(w) \in Taken(m)
  BY DEF Exported, Taken

(* ... and what is imported in a copy, whatever key the program has. *)
LEMMA ImportIsKept ==
  ASSUME NEW m \in Nat, NEW k, NEW w \in Taken(m)
  PROVE  Recovered(w, k) \in Kept(m)
<1>1. CASE w = Blank
  <2>1. w.seals = <<>> /\ w \in Kept(m)
    BY <1>1 DEF Blank, Typed, Kept
  <2> QED
    BY <2>1 DEF Recovered, Opened, OutermostIs
<1>2. CASE w # Blank
  <2>1. PICK v \in Kept(m) : w = SealedWith(v, PortableKey)
    BY <1>2 DEF Taken
  <2>2. PortableKey \in Int /\ v.seals \in Seq(Int)
    BY DEF Kept, PortableKey
  <2>3. PICK u : u = Append(v.seals, PortableKey)
    OBVIOUS
  <2>4. u # <<>> /\ Last(u) = PortableKey /\ Front(u) = v.seals
    BY <2>2, <2>3, FrontAndLast
  <2>5. w = [v EXCEPT !.seals = u] /\ w.seals = u
    BY <2>1, <2>3 DEF SealedWith, Kept
  <2>6. Recovered(w, k) = [w EXCEPT !.seals = v.seals]
    BY <2>4, <2>5 DEF Recovered, Opened, OutermostIs
  <2> QED
    BY <2>5, <2>6 DEF Kept
<1> QED
  BY <1>1, <1>2

(***************************************************************************)
(* The sessions of a copy, of the file and of an export.                   *)
(***************************************************************************)
(* What a save writes can be kept in the file, and is loaded as it was.    *)
LEMMA SaveAndLoad ==
  ASSUME NEW k \in Keys, NEW c \in Seq(Entries(Kept(k)))
  PROVE  /\ SealedSessions(c, k) \in Seq(Entries(Kept(k + 1)))
         /\ OpenedSessions(SealedSessions(c, k), k) = c
         /\ IdsOf(SealedSessions(c, k)) = IdsOf(c)
<1>1. PICK s : s = SealedSessions(c, k)
  OBVIOUS
<1>2. PICK n \in Nat : n = Len(c) /\ DOMAIN c = 1 .. n
  OBVIOUS
<1>3. s = [i \in 1 .. n |-> [c[i] EXCEPT !.password = Sealed(@, k)]]
  BY <1>1, <1>2 DEF SealedSessions
<1>4. ASSUME NEW i \in 1 .. n
      PROVE  /\ s[i] \in Entries(Kept(k + 1)) /\ s[i].id = c[i].id
             /\ [s[i] EXCEPT !.password = Opened(@, k)] = c[i]
  <2>1. PICK e \in Entries(Kept(k)) : e = c[i]
    BY <1>2
  <2>2. PICK w \in Kept(k) : w = e.password
    BY DEF Entries
  <2>3. Sealed(w, k) \in Kept(k + 1) /\ Opened(Sealed(w, k), k) = w
    BY SealAndOpen
  <2>4. s[i] = [e EXCEPT !.password = Sealed(w, k)]
    BY <1>3, <2>1, <2>2 DEF Entries
  <2> QED
    BY <2>1, <2>2, <2>3, <2>4 DEF Entries
<1>5. s \in Seq(Entries(Kept(k + 1)))
  <2>1. \A i \in 1 .. n : s[i] \in Entries(Kept(k + 1))
    BY <1>4
  <2> QED
    BY <1>3, <2>1
<1>6. DOMAIN s = 1 .. n
  BY <1>3
<1>7. OpenedSessions(s, k) = c
  <2>1. \A i \in 1 .. n : [s[i] EXCEPT !.password = Opened(@, k)] = c[i]
    BY <1>4
  <2>2. OpenedSessions(s, k) = [i \in 1 .. n |-> c[i]]
    BY <1>6, <2>1 DEF OpenedSessions
  <2> QED
    BY <1>2, <2>2
<1>8. IdsOf(s) = IdsOf(c)
  <2>1. \A i \in 1 .. n : s[i].id = c[i].id
    BY <1>4
  <2> QED
    BY <1>2, <1>6, <2>1 DEF IdsOf
<1> QED
  BY <1>1, <1>5, <1>7, <1>8

(* What is loaded can be kept in a copy.                                   *)
LEMMA LoadIsKept ==
  ASSUME NEW k \in Nat, NEW c \in Seq(Entries(Kept(k + 1)))
  PROVE  /\ OpenedSessions(c, k) \in Seq(Entries(Kept(k)))
         /\ IdsOf(OpenedSessions(c, k)) = IdsOf(c)
<1>1. PICK s : s = OpenedSessions(c, k)
  OBVIOUS
<1>2. PICK n \in Nat : n = Len(c) /\ DOMAIN c = 1 .. n
  OBVIOUS
<1>3. s = [i \in 1 .. n |-> [c[i] EXCEPT !.password = Opened(@, k)]]
  BY <1>1, <1>2 DEF OpenedSessions
<1>4. ASSUME NEW i \in 1 .. n
      PROVE  s[i] \in Entries(Kept(k)) /\ s[i].id = c[i].id
  <2>1. PICK e \in Entries(Kept(k + 1)) : e = c[i]
    BY <1>2
  <2>2. PICK w \in Kept(k + 1) : w = e.password
    BY DEF Entries
  <2>3. Opened(w, k) \in Kept(k)
    BY OpenIsKept
  <2>4. s[i] = [e EXCEPT !.password = Opened(w, k)]
    BY <1>3, <2>1, <2>2 DEF Entries
  <2> QED
    BY <2>1, <2>2, <2>3, <2>4 DEF Entries
<1>5. s \in Seq(Entries(Kept(k))) /\ DOMAIN s = 1 .. n
  BY <1>3, <1>4, SMTT(30)
<1>6. IdsOf(s) = IdsOf(c)
  BY <1>2, <1>4, <1>5 DEF IdsOf
<1> QED
  BY <1>1, <1>5, <1>6

(* The sessions of an export. *)
LEMMA ExportsAreTaken ==
  ASSUME NEW m \in Nat, NEW c \in Seq(Entries(Kept(m)))
  PROVE  ExportedSessions(c) \in Seq(Entries(Taken(m)))
<1>1. PICK s : s = ExportedSessions(c)
  OBVIOUS
<1>2. PICK n \in Nat : n = Len(c) /\ DOMAIN c = 1 .. n
  OBVIOUS
<1>3. s = [i \in 1 .. n |-> [c[i] EXCEPT !.password = Exported(@)]]
  BY <1>1, <1>2 DEF ExportedSessions
<1>4. ASSUME NEW i \in 1 .. n
      PROVE  s[i] \in Entries(Taken(m))
  <2>1. PICK e \in Entries(Kept(m)) : e = c[i]
    BY <1>2
  <2>2. PICK w \in Kept(m) : w = e.password
    BY DEF Entries
  <2>3. Exported(w) \in Taken(m)
    BY ExportIsTaken
  <2>4. s[i] = [e EXCEPT !.password = Exported(w)]
    BY <1>3, <2>1, <2>2 DEF Entries
  <2> QED
    BY <2>1, <2>2, <2>3, <2>4 DEF Entries
<1>5. s \in Seq(Entries(Taken(m)))
  BY <1>3, <1>4
<1> QED
  BY <1>1, <1>5

(* The first session with an id, if there is one.                          *)
FirstWith(c, id) == SelectInSeq(c, LAMBDA x : x.id = id)

LEMMA FirstWithId ==
  ASSUME NEW E, NEW c \in Seq(E), NEW id
  PROVE  /\ id \in IdsOf(c) => FirstWith(c, id) # 0
         /\ FirstWith(c, id) # 0 =>
              FirstWith(c, id) \in DOMAIN c /\ c[FirstWith(c, id)].id = id
<1>1. PICK n \in Nat : n = Len(c) /\ DOMAIN c = 1 .. n
  OBVIOUS
<1>2. PICK I : I = {i \in 1 .. n : c[i].id = id}
  OBVIOUS
<1>3. I # {} => Min(I) \in I
  BY <1>2, MinIsFirst
<1>4. FirstWith(c, id) = IF I # {} THEN Min(I) ELSE 0
  BY <1>1, <1>2 DEF FirstWith, SelectInSeq
<1>5. id \in IdsOf(c) => I # {}
  BY <1>1, <1>2 DEF IdsOf
<1> QED
  BY <1>1, <1>2, <1>3, <1>4, <1>5

(* The session that an id stands for. *)
LEMMA GetIsThere ==
  ASSUME NEW E, NEW c \in Seq(E), NEW id \in IdsOf(c)
  PROVE  Get(c, id) \in E /\ Get(c, id).id = id
<1>1. PICK i \in DOMAIN c : Get(c, id) = c[i] /\ c[i].id = id
  BY FirstWithId DEF Get, FirstWith
<1> QED
  BY <1>1

(* A session that is put in takes no other away. *)
LEMMA UpsertKeeps ==
  ASSUME NEW E, NEW c \in Seq(E), NEW s \in E
  PROVE  Upsert(c, s) \in Seq(E) /\ IdsOf(c) \subseteq IdsOf(Upsert(c, s))
<1>1. PICK i : i = FirstWith(c, s.id)
  OBVIOUS
<1>2. CASE i = 0
  <2>1. Upsert(c, s) = Append(c, s)
    BY <1>1, <1>2 DEF Upsert, FirstWith
  <2>2. DOMAIN c \subseteq DOMAIN Append(c, s) /\ \A j \in DOMAIN c : Append(c, s)[j] = c[j]
    OBVIOUS
  <2> QED
    BY <2>1, <2>2 DEF IdsOf
<1>3. CASE i # 0
  <2>1. i \in DOMAIN c /\ c[i].id = s.id
    BY <1>1, <1>3, FirstWithId
  <2>2. Upsert(c, s) = [c EXCEPT ![i] = s]
    BY <1>1, <1>3 DEF Upsert, FirstWith
  <2>3. \A j \in DOMAIN c : Upsert(c, s)[j].id = c[j].id
    BY <2>1, <2>2
  <2>4. DOMAIN Upsert(c, s) = DOMAIN c
    BY <2>2
  <2> QED
    BY <2>1, <2>2, <2>3, <2>4 DEF IdsOf
<1> QED
  BY <1>2, <1>3

(* Only the id that is removed goes. *)
LEMMA WithoutKeeps ==
  ASSUME NEW E, NEW c \in Seq(E), NEW id
  PROVE  Without(c, id) \in Seq(E) /\ IdsOf(c) \ {id} \subseteq IdsOf(Without(c, id))
<1>1. ASSUME NEW i \in DOMAIN c, c[i].id # id
      PROVE  c[i].id \in IdsOf(Without(c, id))
  <2>1. PICK j \in DOMAIN Without(c, id) : Without(c, id)[j] = c[i]
    BY <1>1, WithoutStays
  <2> QED
    BY <2>1 DEF IdsOf
<1> QED
  BY <1>1, WithoutStays DEF IdsOf

(* The dialog finds a jump host: the picked one, if no other is like it.   *)
LEMMA JumpIsFound ==
  ASSUME NEW P, NEW c \in Seq(Entries(P)), NEW id, NEW j \in (IdsOf(c) \ {id}) \cup {NoJump}
  PROVE  PickedJump(c, id, j) \in Int
<1>1. CASE j = NoJump
  BY <1>1 DEF PickedJump, NoJump
<1>2. CASE j # NoJump
  <2>1. PICK g : g = Get(c, j)
    OBVIOUS
  <2>2. PICK others \in Seq(Entries(P)) : others = Without(c, id)
    BY WithoutStays
  <2>3. PICK I : I = {i \in 1 .. Len(others) : others[i].name = g.name /\ others[i].place = g.place}
    OBVIOUS
  <2>4. I # {}
    <3>1. PICK i \in DOMAIN c : c[i] = g /\ c[i].id = j
      BY <1>2, <2>1, FirstWithId DEF Get, FirstWith
    <3>2. PICK k \in DOMAIN others : others[k] = g
      BY <1>2, <2>2, <3>1, WithoutStays
    <3> QED
      BY <2>3, <3>2
  <2>5. PICK i : i = Min(I)
    OBVIOUS
  <2>6. i \in 1 .. Len(others)
    <3>1. Len(others) \in Nat /\ I \in SUBSET (1 .. Len(others))
      BY <2>3
    <3> QED
      BY <2>4, <2>5, <3>1, MinIsFirst
  <2>7. PickedJump(c, id, j) = others[i].id
    BY <1>2, <2>1, <2>2, <2>3, <2>4, <2>5 DEF PickedJump, SelectInSeq
  <2>8. others[i] \in Entries(P)
    BY <2>6
  <2> QED
    BY <2>7, <2>8 DEF Entries
<1> QED
  BY <1>1, <1>2

(***************************************************************************)
(* The imports: nothing that is there goes, and what comes is as it should *)
(* be in a copy.                                                           *)
(***************************************************************************)
(* An import from a file. *)
LEMMA ImportKeeps ==
  ASSUME NEW m \in Nat, NEW c \in Seq(Entries(Kept(m))), NEW k, NEW n \in Nat,
         NEW file \in Seq(Entries(Taken(m)))
  PROVE  /\ Imported(c, k, n, file).sessions \in Seq(Entries(Kept(m)))
         /\ Imported(c, k, n, file).issued \in Nat
         /\ IdsOf(c) \subseteq IdsOf(Imported(c, k, n, file).sessions)
<1>1. PICK A : A = {acc \in [sessions : Seq(Entries(Kept(m))), issued : Nat] :
                      IdsOf(c) \subseteq IdsOf(acc.sessions)}
  OBVIOUS
<1>2. [sessions |-> c, issued |-> n] \in A
  BY <1>1
<1>3. ASSUME NEW acc \in A, NEW i \in DOMAIN file
      PROVE  ImportOne(acc, file[i], k) \in A
  <2>1. PICK s \in Entries(Taken(m)) : s = file[i]
    OBVIOUS
  <2>2. PICK w \in Kept(m) : w = Recovered(s.password, k)
    BY ImportIsKept DEF Entries
  <2>3. CASE ImportOne(acc, s, k) = acc
    BY <2>1, <2>3
  <2>4. CASE ImportOne(acc, s, k) # acc
    <3>1. PICK e : e = [s EXCEPT !.id = acc.issued + 1, !.password = Recovered(@, k)]
      OBVIOUS
    <3>2. e \in Entries(Kept(m))
      <4>1. PICK x \in Int : x = acc.issued + 1
        BY <1>1
      <4>2. e = [s EXCEPT !.id = x, !.password = w]
        BY <2>2, <3>1, <4>1 DEF Entries
      <4> QED
        BY <4>2 DEF Entries
    <3>3. ImportOne(acc, s, k) = [sessions |-> Append(acc.sessions, e), issued |-> acc.issued + 1]
      BY <2>4, <3>1 DEF ImportOne
    <3>4. PICK d \in Seq(Entries(Kept(m))) : d = acc.sessions /\ IdsOf(c) \subseteq IdsOf(d)
      BY <1>1
    <3>5. Append(d, e) \in Seq(Entries(Kept(m))) /\ IdsOf(d) \subseteq IdsOf(Append(d, e))
      <4>1. DOMAIN d \subseteq DOMAIN Append(d, e) /\ \A j \in DOMAIN d : Append(d, e)[j] = d[j]
        BY <3>2
      <4> QED
        BY <3>2, <4>1 DEF IdsOf
    <3>6. IdsOf(c) \subseteq IdsOf(Append(d, e)) /\ acc.issued + 1 \in Nat
      BY <1>1, <3>4, <3>5
    <3>7. [sessions |-> Append(d, e), issued |-> acc.issued + 1] \in A
      BY <1>1, <3>5, <3>6
    <3> QED
      BY <2>1, <3>3, <3>4, <3>7
  <2> QED
    BY <2>3, <2>4
<1>4. Imported(c, k, n, file) \in A
  BY <1>2, <1>3, ImportedStays
<1> QED
  BY <1>4, <1>1

(* An import of the hosts of ~/.ssh/config ... *)
LEMMA HostsKeep ==
  ASSUME NEW m \in Nat, NEW c \in Seq(Entries(Kept(m))), NEW n \in Nat
  PROVE  /\ HostsAdded(c, n).sessions \in Seq(Entries(Kept(m)))
         /\ HostsAdded(c, n).issued \in Nat
         /\ IdsOf(c) \subseteq IdsOf(HostsAdded(c, n).sessions)
<1>1. PICK A : A = {acc \in [sessions : Seq(Entries(Kept(m))), issued : Nat] :
                      IdsOf(c) \subseteq IdsOf(acc.sessions)}
  OBVIOUS
<1>2. [sessions |-> c, issued |-> n] \in A
  BY <1>1
<1>3. ASSUME NEW acc \in A, NEW i \in DOMAIN SshHosts
      PROVE  AddHost(acc, SshHosts[i]) \in A
  <2>1. PICK h \in [alias : Names, place : Places, jump : Names \cup {NoName}] : h = SshHosts[i]
    <3>1. PICK H : H = [alias : Names, place : Places, jump : Names \cup {NoName}]
      OBVIOUS
    <3>2. SshHosts \in Seq(H)
      BY <3>1, SshHostsAssumption
    <3>3. SshHosts[i] \in H
      BY <3>2
    <3> QED
      BY <3>1, <3>3
  <2>2. CASE AddHost(acc, h) = acc
    BY <2>1, <2>2
  <2>3. CASE AddHost(acc, h) # acc
    <3>1. PICK e : e = [id |-> acc.issued + 1, name |-> h.alias, place |-> h.place,
                        password |-> Blank, jump |-> NoJump]
      OBVIOUS
    <3>2. e \in Entries(Kept(m))
      <4>1. Blank \in Kept(m)
        BY DEF Blank, Typed, Kept
      <4> QED
        BY <1>1, <3>1, <4>1 DEF Entries, NoJump
    <3>3. AddHost(acc, h) = [sessions |-> Append(acc.sessions, e), issued |-> acc.issued + 1]
      BY <2>3, <3>1 DEF AddHost
    <3>4. PICK d \in Seq(Entries(Kept(m))) : d = acc.sessions /\ IdsOf(c) \subseteq IdsOf(d)
      BY <1>1
    <3>5. Append(d, e) \in Seq(Entries(Kept(m))) /\ IdsOf(d) \subseteq IdsOf(Append(d, e))
      <4>1. DOMAIN d \subseteq DOMAIN Append(d, e) /\ \A j \in DOMAIN d : Append(d, e)[j] = d[j]
        BY <3>2
      <4> QED
        BY <3>2, <4>1 DEF IdsOf
    <3>6. IdsOf(c) \subseteq IdsOf(Append(d, e)) /\ acc.issued + 1 \in Nat
      BY <1>1, <3>4, <3>5
    <3>7. [sessions |-> Append(d, e), issued |-> acc.issued + 1] \in A
      BY <1>1, <3>5, <3>6
    <3> QED
      BY <2>1, <3>3, <3>4, <3>7
  <2> QED
    BY <2>2, <2>3
<1>4. HostsAdded(c, n) \in A
  BY <1>2, <1>3, HostsAddedStays
<1> QED
  BY <1>4, <1>1

(* ... and of their jump hosts. *)
LEMMA JumpsKeep ==
  ASSUME NEW P, NEW c \in Seq(Entries(P))
  PROVE  JumpsSet(c) \in Seq(Entries(P)) /\ IdsOf(c) \subseteq IdsOf(JumpsSet(c))
<1>1. PICK A : A = {d \in Seq(Entries(P)) : IdsOf(c) \subseteq IdsOf(d)}
  OBVIOUS
<1>2. c \in A
  BY <1>1
<1>3. ASSUME NEW d \in A, NEW i \in DOMAIN SshHosts
      PROVE  SetJump(d, SshHosts[i]) \in A
  <2>1. PICK h : h = SshHosts[i]
    OBVIOUS
  <2>2. PICK t, j : /\ t = SelectInSeq(d, LAMBDA s : s.name = h.alias \/ s.place = h.place)
                    /\ j = SelectInSeq(d, LAMBDA s : s.name = h.jump)
    OBVIOUS
  <2>3. CASE SetJump(d, h) = d
    BY <2>1, <2>3
  <2>4. CASE SetJump(d, h) # d
    <3>1. t # 0 /\ j # 0 /\ SetJump(d, h) = [d EXCEPT ![t].jump = d[j].id]
      BY <2>2, <2>4 DEF SetJump
    <3>2. PICK n \in Nat : n = Len(d) /\ DOMAIN d = 1 .. n
      BY <1>1
    <3>3. t \in DOMAIN d
      <4>1. PICK I : I = {x \in 1 .. n : d[x].name = h.alias \/ d[x].place = h.place}
        OBVIOUS
      <4>2. t = IF I # {} THEN Min(I) ELSE 0
        BY <2>2, <3>2, <4>1 DEF SelectInSeq
      <4>3. I # {} => Min(I) \in I
        BY <4>1, MinIsFirst
      <4> QED
        BY <3>1, <3>2, <4>1, <4>2, <4>3
    <3>4. j \in DOMAIN d
      <4>1. PICK I : I = {x \in 1 .. n : d[x].name = h.jump}
        OBVIOUS
      <4>2. j = IF I # {} THEN Min(I) ELSE 0
        BY <2>2, <3>2, <4>1 DEF SelectInSeq
      <4>3. I # {} => Min(I) \in I
        BY <4>1, MinIsFirst
      <4> QED
        BY <3>1, <3>2, <4>1, <4>2, <4>3
    <3>5. PICK e \in Entries(P) : e = d[t]
      BY <1>1, <3>3
    <3>6. d[j].id \in Int
      <4>1. d[j] \in Entries(P)
        BY <1>1, <3>4
      <4> QED
        BY <4>1 DEF Entries
    <3>7. PICK f : f = [e EXCEPT !.jump = d[j].id]
      OBVIOUS
    <3>8. f \in Entries(P) /\ f.id = e.id
      BY <3>5, <3>6, <3>7 DEF Entries
    <3>9. SetJump(d, h) = [d EXCEPT ![t] = f]
      BY <3>1, <3>5, <3>7
    <3>10. SetJump(d, h) \in Seq(Entries(P)) /\ DOMAIN SetJump(d, h) = DOMAIN d
      <4>1. d \in Seq(Entries(P)) /\ f \in Entries(P)
        BY <1>1, <3>8
      <4> QED
        BY <3>3, <3>9, <4>1
    <3>11. \A x \in DOMAIN d : SetJump(d, h)[x].id = d[x].id
      BY <3>3, <3>5, <3>8, <3>9
    <3>12. IdsOf(SetJump(d, h)) = IdsOf(d)
      BY <3>10, <3>11 DEF IdsOf
    <3> QED
      BY <1>1, <2>1, <3>10, <3>12
  <2> QED
    BY <2>3, <2>4
<1>4. JumpsSet(c) \in A
  BY <1>2, <1>3, JumpsSetStays
<1> QED
  BY <1>4, <1>1

(***************************************************************************)
(* What one program keeps.                                                 *)
(***************************************************************************)
Running == {"idle", "saving", "written"}

Functions ==
  /\ key = [p \in Programs |-> key[p]]
  /\ cache = [p \in Programs |-> cache[p]]
  /\ unsaved \in [Programs -> BOOLEAN]
  /\ issued \in Nat

(* The program has the key that was made last, and so has the key file, if *)
(* it is there.                                                            *)
KeysInOrder ==
  /\ keys \in Nat /\ keys <= MaxKeys /\ keyfile \in {NoKey, keys}
  /\ \A p \in Programs :
       phase[p] \in Running \cup {"reading"} => keys # 0 /\ key[p] = keys

(* The file may hold seals of any key, a copy only those of lost ones.     *)
PasswordsAreKept ==
  /\ disk["json"].sessions \in Seq(Entries(Kept(keys + 1)))
  /\ export.sessions \in Seq(Entries(Taken(keys)))
  /\ \A p \in Programs :
       /\ cache[p] \in Seq(Entries(Kept(keys)))
       /\ phase[p] \notin Running => cache[p] = <<>>

(* Json.tmp is the copy when it is about to take the place of the file.    *)
TmpIsTheCopy ==
  \A p \in Programs :
    phase[p] = "written" => disk["tmp"] = Whole(SealedSessions(cache[p], key[p]))

(* The copy has every session of the file that was not removed.            *)
CopyHasTheFile ==
  \A p \in Programs :
    phase[p] \in Running => IdsOf(disk["json"].sessions) \ removed \subseteq IdsOf(cache[p])

StoreInv ==
  /\ SaveInv /\ Functions /\ KeysInOrder /\ PasswordsAreKept
  /\ TmpIsTheCopy /\ CopyHasTheFile /\ ShownIsSaved

(* The start satisfies the invariant. *)
LEMMA StoreInvInit == Init => StoreInv
<1> SUFFICES ASSUME Init PROVE StoreInv
  OBVIOUS
<1>1. SaveInv
  BY SaveInvInit
<1>2. Functions /\ KeysInOrder
  BY BoundsAssumption DEF Init, Functions, KeysInOrder, NoKey, Running
<1>3. PasswordsAreKept
  <2>1. /\ disk["json"].sessions = <<>> /\ export.sessions = <<>>
        /\ \A p \in Programs : cache[p] = <<>>
    BY DEF Init, NoFile, FileNames
  <2>2. <<>> \in Seq(Entries(Kept(keys + 1))) /\ <<>> \in Seq(Entries(Taken(keys)))
    OBVIOUS
  <2>3. <<>> \in Seq(Entries(Kept(keys)))
    OBVIOUS
  <2>4. \A p \in Programs : cache[p] \in Seq(Entries(Kept(keys)))
    BY <2>1, <2>3
  <2>5. disk["json"].sessions \in Seq(Entries(Kept(keys + 1))) /\ export.sessions \in Seq(Entries(Taken(keys)))
    BY <2>1, <2>2
  <2> QED
    BY <2>1, <2>4, <2>5 DEF PasswordsAreKept
<1>4. TmpIsTheCopy /\ CopyHasTheFile /\ ShownIsSaved
  BY DEF Init, TmpIsTheCopy, CopyHasTheFile, ShownIsSaved, Running
<1> QED
  BY <1>1, <1>2, <1>3, <1>4 DEF StoreInv

(* A change that keeps every session it does not remove, and starts a save.*)
LEMMA EditKeeps ==
  ASSUME NEW p \in Programs, Programs = {p}, StoreInv, phase[p] = "idle",
         NEW c \in Seq(Entries(Kept(keys))), OpenTmp(p, c),
         IdsOf(cache[p]) \ removed' \subseteq IdsOf(c), removed \subseteq removed',
         UNCHANGED <<keyfile, export, key, keys>>, issued' \in Nat
  PROVE  StoreInv'
<1> USE DEF StoreInv
<1>1. SaveInv'
  BY OpenTmpKeeps
<1>2. Functions' /\ KeysInOrder'
  BY DEF Functions, KeysInOrder, OpenTmp, Running
<1>3. disk'["json"] = disk["json"] /\ cache'[p] = c /\ phase'[p] = "saving"
  BY DEF OpenTmp, SaveInv, Shapes, Functions, FileNames
<1>4. PasswordsAreKept'
  BY <1>3 DEF PasswordsAreKept, Running
<1>5. TmpIsTheCopy' /\ ShownIsSaved'
  BY <1>3 DEF TmpIsTheCopy, ShownIsSaved
<1>6. CopyHasTheFile'
  BY <1>3 DEF CopyHasTheFile, Running
<1> QED
  BY <1>1, <1>2, <1>4, <1>5, <1>6

(* The changes of the user.                                                *)
LEMMA ChangesKeep ==
  ASSUME NEW p \in Programs, Programs = {p}, StoreInv,
         \/ SubmitSession(p) \/ RemoveSession(p) \/ DuplicateSession(p)
         \/ RememberPassword(p) \/ ImportSshConfig(p) \/ ImportSessions(p)
  PROVE  StoreInv'
<1>1. PICK E : E = Entries(Kept(keys))
  OBVIOUS
<1>2. cache[p] \in Seq(E) /\ keys \in Nat /\ issued \in Nat
  BY <1>1 DEF StoreInv, PasswordsAreKept, KeysInOrder, Functions
<1>3. ASSUME NEW t \in Texts \cup {NoText} PROVE Typed(t) \in Kept(keys)
  BY DEF Typed, Kept
<1>4. CASE SubmitSession(p)
  <2>1. PICK id \in IdsOf(cache[p]) \cup {issued + 1}, n \in Names, a \in Places,
             t \in Texts \cup {NoText} :
          \E j \in (IdsOf(cache[p]) \ {id}) \cup {NoJump} :
            /\ id \in Ids
            /\ issued' = IF id > issued THEN id ELSE issued
            /\ OpenTmp(p, Upsert(cache[p],
                 [id |-> id, name |-> n, place |-> a, jump |-> PickedJump(cache[p], id, j),
                  password |-> IF t = NoText /\ id \in IdsOf(cache[p])
                               THEN Get(cache[p], id).password ELSE Typed(t)]))
    BY <1>4 DEF SubmitSession
  <2>2. PICK j \in (IdsOf(cache[p]) \ {id}) \cup {NoJump} :
            /\ id \in Ids
            /\ issued' = IF id > issued THEN id ELSE issued
            /\ OpenTmp(p, Upsert(cache[p],
                 [id |-> id, name |-> n, place |-> a, jump |-> PickedJump(cache[p], id, j),
                  password |-> IF t = NoText /\ id \in IdsOf(cache[p])
                               THEN Get(cache[p], id).password ELSE Typed(t)]))
    BY <2>1
  <2>3. PICK w : w = IF t = NoText /\ id \in IdsOf(cache[p])
                     THEN Get(cache[p], id).password ELSE Typed(t)
    OBVIOUS
  <2>4. w \in Kept(keys)
    <3>1. CASE t = NoText /\ id \in IdsOf(cache[p])
      <4>1. Get(cache[p], id) \in E
        BY <1>2, <3>1, GetIsThere
      <4> QED
        BY <1>1, <2>3, <3>1, <4>1 DEF Entries
    <3>2. CASE ~(t = NoText /\ id \in IdsOf(cache[p]))
      BY <1>3, <2>3, <3>2
    <3> QED
      BY <3>1, <3>2
  <2>5. PICK s : s = [id |-> id, name |-> n, place |-> a,
                      jump |-> PickedJump(cache[p], id, j), password |-> w]
    OBVIOUS
  <2>6. s \in E
    <3>1. id \in Int
      BY <2>2 DEF Ids
    <3>2. PickedJump(cache[p], id, j) \in Int
      BY <1>1, <1>2, JumpIsFound
    <3> QED
      BY <1>1, <2>4, <2>5, <3>1, <3>2 DEF Entries
  <2>7. OpenTmp(p, Upsert(cache[p], s))
    BY <2>2, <2>3, <2>5
  <2>8. Upsert(cache[p], s) \in Seq(E) /\ IdsOf(cache[p]) \subseteq IdsOf(Upsert(cache[p], s))
    BY <1>2, <2>6, UpsertKeeps
  <2>9. issued' \in Nat
    BY <1>2, <2>2 DEF Ids
  <2>10. UNCHANGED <<keyfile, export, key, keys, removed>> /\ phase[p] = "idle"
    BY <1>4 DEF SubmitSession, Edit
  <2> QED
    BY <1>1, <2>7, <2>8, <2>9, <2>10, EditKeeps
<1>5. CASE RemoveSession(p)
  <2>1. PICK id \in IdsOf(cache[p]) : /\ OpenTmp(p, Without(cache[p], id))
                                     /\ removed' = removed \cup {id}
    BY <1>5 DEF RemoveSession
  <2>2. Without(cache[p], id) \in Seq(E) /\ IdsOf(cache[p]) \ {id} \subseteq IdsOf(Without(cache[p], id))
    BY <1>2, WithoutKeeps
  <2>3. UNCHANGED <<keyfile, export, key, issued, keys>> /\ phase[p] = "idle"
    BY <1>5 DEF RemoveSession, Edit
  <2> QED
    BY <1>1, <1>2, <2>1, <2>2, <2>3, EditKeeps
<1>6. CASE DuplicateSession(p)
  <2>1. PICK id \in IdsOf(cache[p]) :
          OpenTmp(p, Upsert(cache[p], [Get(cache[p], id) EXCEPT !.id = issued']))
    BY <1>6 DEF DuplicateSession
  <2>2. PICK s : s = [Get(cache[p], id) EXCEPT !.id = issued']
    OBVIOUS
  <2>3. issued' \in Nat /\ UNCHANGED <<keyfile, export, key, keys, removed>> /\ phase[p] = "idle"
    BY <1>2, <1>6 DEF DuplicateSession, Edit
  <2>4. s \in E
    <3>1. Get(cache[p], id) \in E
      BY <1>2, GetIsThere
    <3> QED
      BY <1>1, <2>2, <2>3, <3>1 DEF Entries
  <2>5. Upsert(cache[p], s) \in Seq(E) /\ IdsOf(cache[p]) \subseteq IdsOf(Upsert(cache[p], s))
    BY <1>2, <2>4, UpsertKeeps
  <2> QED
    BY <1>1, <2>1, <2>2, <2>3, <2>5, EditKeeps
<1>7. CASE RememberPassword(p)
  <2>1. PICK id \in IdsOf(cache[p]), t \in Texts :
          OpenTmp(p, Upsert(cache[p], [Get(cache[p], id) EXCEPT !.password = Typed(t)]))
    BY <1>7 DEF RememberPassword
  <2>2. PICK s : s = [Get(cache[p], id) EXCEPT !.password = Typed(t)]
    OBVIOUS
  <2>3. UNCHANGED <<keyfile, export, key, issued, keys, removed>> /\ phase[p] = "idle"
    BY <1>7 DEF RememberPassword, Edit
  <2>4. s \in E
    <3>1. Get(cache[p], id) \in E /\ Typed(t) \in Kept(keys)
      BY <1>2, <1>3, GetIsThere
    <3> QED
      BY <1>1, <2>2, <3>1 DEF Entries
  <2>5. Upsert(cache[p], s) \in Seq(E) /\ IdsOf(cache[p]) \subseteq IdsOf(Upsert(cache[p], s))
    BY <1>2, <2>4, UpsertKeeps
  <2> QED
    BY <1>1, <1>2, <2>1, <2>2, <2>3, <2>5, EditKeeps
<1>8. CASE ImportSshConfig(p)
  <2>1. PICK added : added = HostsAdded(cache[p], issued)
    OBVIOUS
  <2>2. PICK after : after = JumpsSet(added.sessions)
    OBVIOUS
  <2>3. /\ added.sessions \in Seq(E) /\ added.issued \in Nat
        /\ IdsOf(cache[p]) \subseteq IdsOf(added.sessions)
    BY <1>1, <1>2, <2>1, HostsKeep
  <2>4. after \in Seq(E) /\ IdsOf(cache[p]) \subseteq IdsOf(after)
    BY <1>1, <2>2, <2>3, JumpsKeep
  <2>5. /\ issued' = added.issued /\ phase[p] = "idle"
        /\ UNCHANGED <<keyfile, export, key, keys, removed>>
    BY <1>8, <2>1, <2>2 DEF ImportSshConfig, Edit
  <2>6. CASE OpenTmp(p, after)
    BY <1>1, <2>3, <2>4, <2>5, <2>6, EditKeeps
  <2>7. CASE /\ cache' = [cache EXCEPT ![p] = after]
             /\ unsaved' = [unsaved EXCEPT ![p] = @ \/ after # cache[p]]
             /\ UNCHANGED <<disk, handle, phase>>
    <3> USE DEF StoreInv
    <3>1. SaveInv'
      BY <2>7 DEF SaveInv, Shapes, SaveInOrder, FileIsNeverTorn
    <3>2. Functions' /\ KeysInOrder'
      BY <2>3, <2>5, <2>7 DEF Functions, KeysInOrder
    <3>3. cache'[p] = after /\ unsaved'[p] = (unsaved[p] \/ after # cache[p])
      BY <2>7 DEF Functions
    <3>4. PasswordsAreKept'
      BY <1>1, <2>4, <2>5, <2>7, <3>3 DEF PasswordsAreKept, Running
    <3>5. TmpIsTheCopy'
      BY <2>5, <2>7 DEF TmpIsTheCopy
    <3>6. CopyHasTheFile'
      BY <2>4, <2>5, <2>7, <3>3 DEF CopyHasTheFile
    <3>7. ShownIsSaved'
      BY <2>5, <2>7, <3>3 DEF ShownIsSaved
    <3> QED
      BY <3>1, <3>2, <3>4, <3>5, <3>6, <3>7
  <2> QED
    BY <1>8, <2>1, <2>2, <2>6, <2>7 DEF ImportSshConfig
<1>9. CASE ImportSessions(p)
  <2>1. PICK after : after = Imported(cache[p], key[p], issued, export.sessions)
    OBVIOUS
  <2>2. export.sessions \in Seq(Entries(Taken(keys)))
    BY DEF StoreInv, PasswordsAreKept
  <2>3. /\ after.sessions \in Seq(E) /\ after.issued \in Nat
        /\ IdsOf(cache[p]) \subseteq IdsOf(after.sessions)
    BY <1>1, <1>2, <2>1, <2>2, ImportKeeps
  <2>4. /\ issued' = after.issued /\ phase[p] = "idle" /\ OpenTmp(p, after.sessions)
        /\ UNCHANGED <<keyfile, export, key, keys, removed>>
    BY <1>9, <2>1 DEF ImportSessions, Edit
  <2> QED
    BY <1>1, <2>3, <2>4, EditKeeps
<1> QED
  BY <1>4, <1>5, <1>6, <1>7, <1>8, <1>9

(* Every step of the only program keeps the invariant.                     *)
LEMMA StoreInvNext ==
  ASSUME NEW p \in Programs, Programs = {p}, StoreInv, [Next]_vars
  PROVE  StoreInv'
<1> USE DEF StoreInv
<1>1. SaveInv'
  BY SaveInvNext
<1>2. CASE LookForKey(p)
  <2>1. /\ keyfile # NoKey => keys # 0 /\ key'[p] = keys
        /\ phase'[p] \in {"keying", "reading"} /\ phase[p] \notin Running
        /\ phase'[p] = "reading" => keyfile # NoKey
    BY <1>2 DEF LookForKey, KeysInOrder, Functions, SaveInv, Shapes, NoKey, Running
  <2>2. Functions' /\ KeysInOrder'
    BY <1>2, <2>1 DEF LookForKey, Functions, KeysInOrder, Running
  <2>3. PasswordsAreKept' /\ TmpIsTheCopy' /\ CopyHasTheFile' /\ ShownIsSaved'
    BY <1>2, <2>1 DEF LookForKey, PasswordsAreKept, TmpIsTheCopy, CopyHasTheFile,
       ShownIsSaved, Running
  <2> QED
    BY <1>1, <2>2, <2>3
<1>3. CASE CreateKey(p)
  <2>1. /\ keys' = keys + 1 /\ keys' \in Nat /\ keys' # 0 /\ keys' <= MaxKeys
        /\ keyfile' = keys' /\ key'[p] = keys' /\ phase[p] \notin Running
        /\ phase'[p] = "reading"
    BY <1>3, BoundsAssumption DEF CreateKey, KeysInOrder, Functions, SaveInv, Shapes, Running
  <2>2. Functions' /\ KeysInOrder'
    BY <1>3, <2>1 DEF CreateKey, Functions, KeysInOrder
  <2>3. PasswordsAreKept'
    <3>1. keys \in Nat /\ keys + 1 \in Nat
      BY DEF KeysInOrder
    <3>2. Kept(keys + 1) \subseteq Kept(keys' + 1) /\ Taken(keys) \subseteq Taken(keys')
      BY <2>1, <3>1, MoreKeysMorePasswords
    <3>3. /\ Entries(Kept(keys + 1)) \subseteq Entries(Kept(keys' + 1))
          /\ Entries(Taken(keys)) \subseteq Entries(Taken(keys'))
      BY <3>2 DEF Entries
    <3>4. /\ disk["json"].sessions \in Seq(Entries(Kept(keys' + 1)))
          /\ export.sessions \in Seq(Entries(Taken(keys')))
      BY <3>3 DEF PasswordsAreKept
    <3>5. cache[p] = <<>>
      BY <2>1 DEF PasswordsAreKept
    <3> QED
      BY <1>3, <2>1, <3>4, <3>5 DEF CreateKey, PasswordsAreKept, Running
  <2>4. TmpIsTheCopy' /\ CopyHasTheFile' /\ ShownIsSaved'
    BY <1>3, <2>1 DEF CreateKey, TmpIsTheCopy, CopyHasTheFile, ShownIsSaved, Running
  <2> QED
    BY <1>1, <2>2, <2>3, <2>4
<1>4. CASE ReadConfig(p)
  <2>1. UNCHANGED <<disk, handle>>
    BY <1>4 DEF ReadConfig, SaveInv, FileIsNeverTorn
  <2>2. /\ phase[p] = "reading" /\ phase'[p] = "idle" /\ unsaved' = [unsaved EXCEPT ![p] = FALSE]
        /\ cache'[p] = Loaded(disk["json"], key[p])
        /\ keys \in Nat /\ key[p] = keys
        /\ UNCHANGED <<keyfile, export, key, issued, keys, removed>>
    BY <1>4 DEF ReadConfig, SaveInv, Shapes, Functions, KeysInOrder
  <2>3. /\ cache'[p] \in Seq(Entries(Kept(keys)))
        /\ IdsOf(cache'[p]) = IdsOf(disk["json"].sessions)
    BY <2>2, LoadIsKept DEF Loaded, PasswordsAreKept
  <2>4. Functions' /\ KeysInOrder'
    BY <1>4, <2>2 DEF ReadConfig, Functions, KeysInOrder
  <2>5. PasswordsAreKept' /\ TmpIsTheCopy'
    BY <2>1, <2>2, <2>3 DEF PasswordsAreKept, TmpIsTheCopy, Running
  <2>6. CopyHasTheFile' /\ ShownIsSaved'
    BY <2>1, <2>2, <2>3 DEF CopyHasTheFile, ShownIsSaved
  <2> QED
    BY <1>1, <2>4, <2>5, <2>6
<1>5. CASE WriteTmp(p)
  <2>1. handle[p] = "tmp" /\ disk["tmp"] = Torn /\ phase[p] = "saving"
    BY <1>5 DEF WriteTmp, SaveInv, SaveInOrder
  <2>2. disk' = [disk EXCEPT !["tmp"] = Whole(SealedSessions(cache[p], key[p]))]
    BY <1>5, <2>1 DEF WriteTmp, Written
  <2>3. /\ disk'["tmp"] = Whole(SealedSessions(cache[p], key[p])) /\ disk'["json"] = disk["json"]
        /\ phase'[p] = "written"
        /\ UNCHANGED <<keyfile, export, key, cache, unsaved, issued, keys, removed>>
    BY <1>5, <2>2 DEF WriteTmp, SaveInv, Shapes, FileNames
  <2>4. Functions' /\ KeysInOrder' /\ PasswordsAreKept'
    BY <2>1, <2>3 DEF Functions, KeysInOrder, PasswordsAreKept, Running
  <2>5. TmpIsTheCopy' /\ CopyHasTheFile' /\ ShownIsSaved'
    BY <2>1, <2>3 DEF TmpIsTheCopy, CopyHasTheFile, ShownIsSaved, Running
  <2> QED
    BY <1>1, <2>4, <2>5
<1>6. CASE Publish(p)
  <2>1. phase[p] = "written" /\ disk["tmp"] = Whole(SealedSessions(cache[p], key[p]))
    BY <1>6 DEF Publish, TmpIsTheCopy
  <2>2. disk["tmp"] # NoFile
    BY <2>1 DEF Whole, NoFile
  <2>3. /\ disk' = [disk EXCEPT !["json"] = disk["tmp"], !["tmp"] = NoFile]
        /\ phase' = [phase EXCEPT ![p] = "idle"]
        /\ unsaved' = [unsaved EXCEPT ![p] = FALSE]
        /\ UNCHANGED <<keyfile, export, key, cache, issued, keys, removed>>
    BY <1>6, <2>2 DEF Publish
  <2>4. disk'["json"].sessions = SealedSessions(cache[p], key[p]) /\ phase'[p] = "idle"
    BY <2>1, <2>3 DEF Whole, SaveInv, Shapes, FileNames
  <2>5. key[p] = keys /\ keys \in Keys /\ keys \in Nat
    BY <2>1 DEF KeysInOrder, Running, Keys
  <2>6. cache[p] \in Seq(Entries(Kept(keys)))
    BY DEF PasswordsAreKept
  <2>7. /\ SealedSessions(cache[p], keys) \in Seq(Entries(Kept(keys + 1)))
        /\ OpenedSessions(SealedSessions(cache[p], keys), keys) = cache[p]
        /\ IdsOf(SealedSessions(cache[p], keys)) = IdsOf(cache[p])
    BY <2>5, <2>6, SaveAndLoad
  <2>8. Functions' /\ KeysInOrder'
    BY <2>1, <2>3 DEF Functions, KeysInOrder, Running
  <2>9. PasswordsAreKept' /\ TmpIsTheCopy'
    BY <2>3, <2>4, <2>5, <2>7 DEF PasswordsAreKept, TmpIsTheCopy, Running
  <2>10. CopyHasTheFile' /\ ShownIsSaved'
    BY <2>3, <2>4, <2>5, <2>7 DEF CopyHasTheFile, ShownIsSaved, Loaded
  <2> QED
    BY <1>1, <2>8, <2>9, <2>10
<1>7. CASE SaveFails(p)
  <2>1. /\ phase[p] \in {"saving", "written"} /\ phase'[p] = "idle" /\ unsaved'[p] = TRUE
        /\ unsaved' \in [Programs -> BOOLEAN]
        /\ UNCHANGED <<disk, keyfile, export, key, cache, issued, keys, removed>>
    BY <1>7 DEF SaveFails, SaveInv, Shapes, Functions
  <2>2. Functions' /\ KeysInOrder' /\ PasswordsAreKept'
    BY <2>1 DEF Functions, KeysInOrder, PasswordsAreKept, Running
  <2>3. TmpIsTheCopy' /\ CopyHasTheFile' /\ ShownIsSaved'
    BY <2>1 DEF TmpIsTheCopy, CopyHasTheFile, ShownIsSaved, Running
  <2> QED
    BY <1>1, <2>2, <2>3
<1>8. CASE Stop(p)
  <2>1. /\ phase'[p] = "off" /\ cache'[p] = <<>> /\ unsaved' \in [Programs -> BOOLEAN]
        /\ key' = [key EXCEPT ![p] = NoKey] /\ cache' = [cache EXCEPT ![p] = <<>>]
        /\ UNCHANGED <<disk, keyfile, export, issued, keys, removed>>
    BY <1>8 DEF Stop, SaveInv, Shapes, Functions
  <2>2. Functions' /\ KeysInOrder'
    BY <2>1 DEF Functions, KeysInOrder, Running
  <2>3. PasswordsAreKept' /\ TmpIsTheCopy' /\ CopyHasTheFile' /\ ShownIsSaved'
    BY <2>1 DEF PasswordsAreKept, TmpIsTheCopy, CopyHasTheFile, ShownIsSaved, Running
  <2> QED
    BY <1>1, <2>2, <2>3
<1>9. CASE ExportSessions(p)
  <2>1. /\ export'.sessions = ExportedSessions(cache[p])
        /\ UNCHANGED <<disk, keyfile, phase, key, cache, unsaved, issued, keys, removed>>
    BY <1>9 DEF ExportSessions, Whole
  <2>2. export'.sessions \in Seq(Entries(Taken(keys)))
    BY <2>1, ExportsAreTaken DEF PasswordsAreKept, KeysInOrder
  <2>3. Functions' /\ KeysInOrder' /\ PasswordsAreKept'
    BY <2>1, <2>2 DEF Functions, KeysInOrder, PasswordsAreKept
  <2>4. TmpIsTheCopy' /\ CopyHasTheFile' /\ ShownIsSaved'
    BY <2>1 DEF TmpIsTheCopy, CopyHasTheFile, ShownIsSaved
  <2> QED
    BY <1>1, <2>3, <2>4
<1>10. CASE LoseKey \/ UNCHANGED vars
  <2>1. /\ keyfile' \in {keyfile, NoKey}
        /\ UNCHANGED <<disk, export, phase, key, cache, unsaved, issued, keys, removed>>
    BY <1>10 DEF LoseKey, vars
  <2>2. Functions' /\ KeysInOrder' /\ PasswordsAreKept'
    BY <2>1 DEF Functions, KeysInOrder, PasswordsAreKept
  <2>3. TmpIsTheCopy' /\ CopyHasTheFile' /\ ShownIsSaved'
    BY <2>1 DEF TmpIsTheCopy, CopyHasTheFile, ShownIsSaved
  <2> QED
    BY <1>1, <2>2, <2>3
<1>11. CASE \/ SubmitSession(p) \/ RemoveSession(p) \/ DuplicateSession(p)
            \/ RememberPassword(p) \/ ImportSshConfig(p) \/ ImportSessions(p)
  BY <1>11, ChangesKeep
<1> QED
  BY <1>2, <1>3, <1>4, <1>5, <1>6, <1>7, <1>8, <1>9, <1>10, <1>11 DEF Next

(* What the only program shows is what it would load if it were started    *)
(* now, unless its last change did not get into the file: for any number   *)
(* of sessions, keys, changes, imports, failed saves and crashes.          *)
THEOREM SoleProgramShowsTheFile ==
  ASSUME NEW p \in Programs, Programs = {p}
  PROVE  Spec => []ShownIsSaved
<1>1. StoreInv /\ [Next]_vars => StoreInv'
  BY StoreInvNext
<1>2. StoreInv => ShownIsSaved
  BY DEF StoreInv
<1> QED
  BY StoreInvInit, <1>1, <1>2, PTL DEF Spec

(* What can be kept in a copy is sealed once at most. *)
LEMMA KeptIsSealedOnce ==
  ASSUME NEW m, NEW c \in Seq(Entries(Kept(m))), NEW i \in DOMAIN c
  PROVE  Len(c[i].password.seals) <= 1
<1>1. c[i] \in Entries(Kept(m))
  OBVIOUS
<1>2. c[i].password \in Kept(m)
  BY <1>1 DEF Entries
<1> QED
  BY <1>2 DEF Kept

(* However often keys are lost and sessions exported, imported and saved,  *)
(* a password has one seal at most: who has its key can read it.           *)
THEOREM SoleProgramSealsOnce ==
  ASSUME NEW p \in Programs, Programs = {p}
  PROVE  Spec => []SealedAtMostOnce
<1>1. StoreInv /\ [Next]_vars => StoreInv'
  BY StoreInvNext
<1>2. StoreInv => SealedAtMostOnce
  <2> SUFFICES ASSUME StoreInv PROVE SealedAtMostOnce
    OBVIOUS
  <2>1. /\ disk["json"].sessions \in Seq(Entries(Kept(keys + 1)))
        /\ \A q \in Programs : cache[q] \in Seq(Entries(Kept(keys)))
    BY DEF StoreInv, PasswordsAreKept
  <2>2. \A i \in DOMAIN disk["json"].sessions : Len(disk["json"].sessions[i].password.seals) <= 1
    BY <2>1, KeptIsSealedOnce
  <2>3. \A q \in Programs : \A i \in DOMAIN cache[q] : Len(cache[q][i].password.seals) <= 1
    BY <2>1, KeptIsSealedOnce
  <2> QED
    BY <2>2, <2>3 DEF SealedAtMostOnce
<1> QED
  BY StoreInvInit, <1>1, <1>2, PTL DEF Spec

(* A session that was saved goes from the file of the only program only    *)
(* because the user removed it.                                            *)
THEOREM SoleProgramLosesNothing ==
  ASSUME NEW p \in Programs, Programs = {p}
  PROVE  Spec => SavedSessionsStay
<1> DEFINE Stays == IdsOf(disk["json"].sessions) \ IdsOf(disk'["json"].sessions) \subseteq removed'
<1>1. StoreInv /\ [Next]_vars => StoreInv'
  BY StoreInvNext
<1>2. StoreInv /\ [Next]_vars => [Stays]_vars
  <2> SUFFICES ASSUME StoreInv, Next PROVE Stays
    OBVIOUS
  <2>1. CASE Publish(p)
    <3>1. phase[p] = "written" /\ disk["tmp"] = Whole(SealedSessions(cache[p], key[p]))
      BY <2>1 DEF Publish, StoreInv, TmpIsTheCopy
    <3>2. disk["tmp"] # NoFile
      BY <3>1 DEF Whole, NoFile
    <3>3. disk'["json"].sessions = SealedSessions(cache[p], key[p]) /\ removed' = removed
      BY <2>1, <3>1, <3>2 DEF Publish, Whole, StoreInv, SaveInv, Shapes, FileNames
    <3>4. key[p] = keys /\ keys \in Keys /\ cache[p] \in Seq(Entries(Kept(keys)))
      BY <3>1 DEF StoreInv, KeysInOrder, PasswordsAreKept, Running, Keys
    <3>5. IdsOf(SealedSessions(cache[p], keys)) = IdsOf(cache[p])
      BY <3>4, SaveAndLoad
    <3>6. IdsOf(disk["json"].sessions) \ removed \subseteq IdsOf(cache[p])
      BY <3>1 DEF StoreInv, CopyHasTheFile, Running
    <3> QED
      BY <3>3, <3>4, <3>5, <3>6
  <2>2. CASE ~Publish(p)
    <3>1. disk'["json"] = disk["json"]
      <4>1. CASE \E c : OpenTmp(p, c)
        BY <4>1 DEF OpenTmp, StoreInv, SaveInv, Shapes, FileNames
      <4>2. CASE ReadConfig(p)
        BY <4>2 DEF ReadConfig, StoreInv, SaveInv, FileIsNeverTorn
      <4>3. CASE WriteTmp(p)
        <5>1. handle[p] = "tmp"
          BY <4>3 DEF WriteTmp, StoreInv, SaveInv, SaveInOrder
        <5> QED
          BY <4>3, <5>1 DEF WriteTmp, StoreInv, SaveInv, Shapes, FileNames
      <4>4. CASE \/ LookForKey(p) \/ CreateKey(p) \/ SaveFails(p) \/ Stop(p)
                 \/ ExportSessions(p) \/ LoseKey
        <5>1. UNCHANGED disk
          BY <4>4 DEF LookForKey, CreateKey, SaveFails, Stop, ExportSessions, LoseKey
        <5> QED
          BY <5>1
      <4>5. CASE \/ SubmitSession(p) \/ RemoveSession(p) \/ DuplicateSession(p)
                 \/ RememberPassword(p) \/ ImportSshConfig(p) \/ ImportSessions(p)
        <5>1. UNCHANGED disk \/ \E c : OpenTmp(p, c)
          BY <4>5 DEF SubmitSession, RemoveSession, DuplicateSession, RememberPassword,
             ImportSshConfig, ImportSessions
        <5> QED
          BY <4>1, <5>1
      <4> QED
        BY <2>2, <4>2, <4>3, <4>4, <4>5 DEF Next
    <3> QED
      BY <3>1
  <2> QED
    BY <2>1, <2>2
<1> QED
  BY StoreInvInit, <1>1, <1>2, PTL DEF Spec, SavedSessionsStay

(***************************************************************************)
(* The terminal buffer.                                                    *)
(***************************************************************************)
(* The same of positions that are counted from 0. *)
LEMMA MaxFromZero ==
  ASSUME NEW n \in Nat, NEW s \in SUBSET (0 .. n), s # {}
  PROVE  Max(s) \in s /\ \A i \in s : Max(s) >= i
<1>1. CASE s = {0}
  BY <1>1 DEF Max
<1>2. CASE s # {0}
  <2>1. s \ {0} \in SUBSET (1 .. n) /\ s \ {0} # {}
    BY <1>2
  <2>2. PICK m : m = Max(s \ {0})
    OBVIOUS
  <2>3. m \in s \ {0} /\ \A i \in s \ {0} : m >= i
    BY <2>1, <2>2, MaxIsLast
  <2>4. m \in s /\ \A i \in s : m >= i
    BY <2>3
  <2> QED
    BY <2>4 DEF Max
<1> QED
  BY <1>1, <1>2

LEMMA MinFromZero ==
  ASSUME NEW n \in Nat, NEW s \in SUBSET (0 .. n), s # {}
  PROVE  Min(s) \in s /\ \A i \in s : Min(s) <= i
<1>1. CASE 0 \in s
  <2>1. \A i \in s : 0 <= i
    OBVIOUS
  <2> QED
    BY <1>1, <2>1 DEF Min
<1>2. CASE 0 \notin s
  <2>1. s \in SUBSET (1 .. n)
    BY <1>2
  <2> QED
    BY <2>1, MinIsFirst
<1> QED
  BY <1>1, <1>2

(* The larger and the smaller of two numbers. *)
LEMMA MaxOfTwo ==
  ASSUME NEW a \in Int, NEW b \in Int
  PROVE  Max({a, b}) = IF a >= b THEN a ELSE b
<1>1. \A x, y \in {a, b} : x >= y /\ y >= x => x = y
  OBVIOUS
<1>2. \E x \in {a, b} : \A y \in {a, b} : x >= y
  OBVIOUS
<1>3. PICK m : m = Max({a, b})
  OBVIOUS
<1>4. m \in {a, b} /\ \A y \in {a, b} : m >= y
  BY <1>2, <1>3 DEF Max
<1> QED
  BY <1>1, <1>3, <1>4

LEMMA MinOfTwo ==
  ASSUME NEW a \in Int, NEW b \in Int
  PROVE  Min({a, b}) = IF a <= b THEN a ELSE b
<1>1. \A x, y \in {a, b} : x <= y /\ y <= x => x = y
  OBVIOUS
<1>2. \E x \in {a, b} : \A y \in {a, b} : x <= y
  OBVIOUS
<1>3. PICK m : m = Min({a, b})
  OBVIOUS
<1>4. m \in {a, b} /\ \A y \in {a, b} : m <= y
  BY <1>2, <1>3 DEF Min
<1> QED
  BY <1>1, <1>3, <1>4

(* What holds of a screen at first, and is kept by each step, holds at the *)
(* end of a batch of output ...                                            *)
LEMMA ProcessStays ==
  ASSUME NEW s0, NEW R, NEW batch \in Seq(R),
         NEW A, s0 \in A,
         \A acc \in A, i \in DOMAIN batch : Process(acc, batch[i]) \in A
  PROVE  FoldLeft(Process, s0, batch) \in A
<1>0. PICK n \in Nat : n = Len(batch) /\ DOMAIN batch = 1 .. n
  OBVIOUS
<1> DEFINE Folds(h) == h = [s \in SUBSET (DOMAIN batch) |->
                              IF s = {} THEN s0 ELSE Process(h[s \ {Max(s)}], batch[Max(s)])]
<1>1. PICK step : step = [x \in A \X (1 .. n) |-> Process(x[1], batch[x[2]])]
  OBVIOUS
<1>2. step \in [A \X (1 .. n) -> A]
  BY <1>0, <1>1
<1>3. PICK g \in [SUBSET (1 .. n) -> A] :
         \A s \in SUBSET (1 .. n) :
           g[s] = IF s = {} THEN s0 ELSE step[<<g[s \ {Max(s)}], Max(s)>>]
  <2>1. \E g \in [SUBSET (1 .. n) -> A] : IsFold(g, s0, n, step)
    BY <1>2, FoldExists
  <2> QED
    BY <2>1 DEF IsFold
<1>4. Folds(g)
  <2>1. ASSUME NEW s \in SUBSET (1 .. n), s # {}
        PROVE  g[s] = Process(g[s \ {Max(s)}], batch[Max(s)])
    <3>1. Max(s) \in 1 .. n
      BY <2>1, MaxIsLast
    <3> QED
      BY <3>1, <2>1, <1>3, <1>1
  <2>2. DOMAIN g = SUBSET (DOMAIN batch) /\ g[{}] = s0
    BY <1>0, <1>3
  <2> QED
    BY <2>1, <2>2, <1>0
<1>5. PICK h : h = CHOOSE f : Folds(f)
  OBVIOUS
<1>6. Folds(h)
  BY <1>4, <1>5
<1>7. FoldLeft(Process, s0, batch) = h[DOMAIN batch]
  BY <1>5 DEF FoldLeft, MapThenFoldSet
<1>8. PICK B : B = [s \in SUBSET (1 .. n) |-> A]
  OBVIOUS
<1>9. ASSUME NEW s \in SUBSET (1 .. n), s # {}, h[s \ {Max(s)}] \in B[s \ {Max(s)}]
      PROVE  h[s] \in B[s]
  <2>1. Max(s) \in DOMAIN batch
    BY <1>9, <1>0, MaxIsLast
  <2>2. s \ {Max(s)} \in SUBSET (1 .. n)
    OBVIOUS
  <2>3. h[s \ {Max(s)}] \in A
    BY <2>2, <1>8, <1>9
  <2>4. h[s] = Process(h[s \ {Max(s)}], batch[Max(s)])
    BY <1>0, <1>6, <1>9
  <2> QED
    BY <2>1, <2>3, <2>4, <1>8
<1>10. h[1 .. n] \in B[1 .. n]
  <2>1. h[{}] \in B[{}]
    BY <1>0, <1>6, <1>8
  <2> QED
    BY <2>1, <1>9, FoldStays
<1> QED
  BY <1>10, <1>7, <1>8, <1>0

(* ... of the batches of a report ...                                      *)
LEMMA IngestStays ==
  ASSUME NEW t0, NEW R, NEW batches \in Seq(R),
         NEW A, t0 \in A,
         \A acc \in A, i \in DOMAIN batches : ingest_chunk(acc, batches[i]) \in A
  PROVE  FoldLeft(ingest_chunk, t0, batches) \in A
<1>0. PICK n \in Nat : n = Len(batches) /\ DOMAIN batches = 1 .. n
  OBVIOUS
<1> DEFINE Folds(h) == h = [s \in SUBSET (DOMAIN batches) |->
                              IF s = {} THEN t0 ELSE ingest_chunk(h[s \ {Max(s)}], batches[Max(s)])]
<1>1. PICK step : step = [x \in A \X (1 .. n) |-> ingest_chunk(x[1], batches[x[2]])]
  OBVIOUS
<1>2. step \in [A \X (1 .. n) -> A]
  BY <1>0, <1>1
<1>3. PICK g \in [SUBSET (1 .. n) -> A] :
         \A s \in SUBSET (1 .. n) :
           g[s] = IF s = {} THEN t0 ELSE step[<<g[s \ {Max(s)}], Max(s)>>]
  <2>1. \E g \in [SUBSET (1 .. n) -> A] : IsFold(g, t0, n, step)
    BY <1>2, FoldExists
  <2> QED
    BY <2>1 DEF IsFold
<1>4. Folds(g)
  <2>1. ASSUME NEW s \in SUBSET (1 .. n), s # {}
        PROVE  g[s] = ingest_chunk(g[s \ {Max(s)}], batches[Max(s)])
    <3>1. Max(s) \in 1 .. n
      BY <2>1, MaxIsLast
    <3> QED
      BY <3>1, <2>1, <1>3, <1>1
  <2>2. DOMAIN g = SUBSET (DOMAIN batches) /\ g[{}] = t0
    BY <1>0, <1>3
  <2> QED
    BY <2>1, <2>2, <1>0
<1>5. PICK h : h = CHOOSE f : Folds(f)
  OBVIOUS
<1>6. Folds(h)
  BY <1>4, <1>5
<1>7. FoldLeft(ingest_chunk, t0, batches) = h[DOMAIN batches]
  BY <1>5 DEF FoldLeft, MapThenFoldSet
<1>8. PICK B : B = [s \in SUBSET (1 .. n) |-> A]
  OBVIOUS
<1>9. ASSUME NEW s \in SUBSET (1 .. n), s # {}, h[s \ {Max(s)}] \in B[s \ {Max(s)}]
      PROVE  h[s] \in B[s]
  <2>1. Max(s) \in DOMAIN batches
    BY <1>9, <1>0, MaxIsLast
  <2>2. s \ {Max(s)} \in SUBSET (1 .. n)
    OBVIOUS
  <2>3. h[s \ {Max(s)}] \in A
    BY <2>2, <1>8, <1>9
  <2>4. h[s] = ingest_chunk(h[s \ {Max(s)}], batches[Max(s)])
    BY <1>0, <1>6, <1>9
  <2> QED
    BY <2>1, <2>3, <2>4, <1>8
<1>10. h[1 .. n] \in B[1 .. n]
  <2>1. h[{}] \in B[{}]
    BY <1>0, <1>6, <1>8
  <2> QED
    BY <2>1, <1>9, FoldStays
<1> QED
  BY <1>10, <1>7, <1>8, <1>0

(* ... and of the items of a report, as they are put into batches.         *)
LEMMA BatchedStays ==
  ASSUME NEW height, NEW R, NEW chunk \in Seq(R),
         NEW A, [done |-> <<>>, last |-> <<>>, lines |-> 0] \in A,
         \A acc \in A, i \in DOMAIN chunk : Batched(acc, chunk[i], height) \in A
  PROVE  Split(chunk, height) \in A
<1>0. PICK n \in Nat : n = Len(chunk) /\ DOMAIN chunk = 1 .. n
  OBVIOUS
<1> DEFINE Folds(h) == h = [s \in SUBSET (DOMAIN chunk) |->
                              IF s = {} THEN [done |-> <<>>, last |-> <<>>, lines |-> 0]
                              ELSE Batched(h[s \ {Max(s)}], chunk[Max(s)], height)]
<1>1. PICK step : step = [x \in A \X (1 .. n) |-> Batched(x[1], chunk[x[2]], height)]
  OBVIOUS
<1>2. step \in [A \X (1 .. n) -> A]
  BY <1>0, <1>1
<1>3. PICK g \in [SUBSET (1 .. n) -> A] :
         \A s \in SUBSET (1 .. n) :
           g[s] = IF s = {} THEN [done |-> <<>>, last |-> <<>>, lines |-> 0]
                  ELSE step[<<g[s \ {Max(s)}], Max(s)>>]
  <2>1. \E g \in [SUBSET (1 .. n) -> A] : IsFold(g, [done |-> <<>>, last |-> <<>>, lines |-> 0], n, step)
    BY <1>2, FoldExists
  <2> QED
    BY <2>1 DEF IsFold
<1>4. Folds(g)
  <2>1. ASSUME NEW s \in SUBSET (1 .. n), s # {}
        PROVE  g[s] = Batched(g[s \ {Max(s)}], chunk[Max(s)], height)
    <3>1. Max(s) \in 1 .. n
      BY <2>1, MaxIsLast
    <3> QED
      BY <3>1, <2>1, <1>3, <1>1
  <2>2. DOMAIN g = SUBSET (DOMAIN chunk) /\ g[{}] = [done |-> <<>>, last |-> <<>>, lines |-> 0]
    BY <1>0, <1>3
  <2> QED
    BY <2>1, <2>2, <1>0
<1>5. PICK h : h = CHOOSE f : Folds(f)
  OBVIOUS
<1>6. Folds(h)
  BY <1>4, <1>5
<1>7. Split(chunk, height) = h[DOMAIN chunk]
  BY <1>5 DEF Split, FoldLeft, MapThenFoldSet
<1>8. PICK B : B = [s \in SUBSET (1 .. n) |-> A]
  OBVIOUS
<1>9. ASSUME NEW s \in SUBSET (1 .. n), s # {}, h[s \ {Max(s)}] \in B[s \ {Max(s)}]
      PROVE  h[s] \in B[s]
  <2>1. Max(s) \in DOMAIN chunk
    BY <1>9, <1>0, MaxIsLast
  <2>2. s \ {Max(s)} \in SUBSET (1 .. n)
    OBVIOUS
  <2>3. h[s \ {Max(s)}] \in A
    BY <2>2, <1>8, <1>9
  <2>4. h[s] = Batched(h[s \ {Max(s)}], chunk[Max(s)], height)
    BY <1>0, <1>6, <1>9
  <2> QED
    BY <2>1, <2>3, <2>4, <1>8
<1>10. h[1 .. n] \in B[1 .. n]
  <2>1. h[{}] \in B[{}]
    BY <1>0, <1>6, <1>8
  <2> QED
    BY <2>1, <1>9, FoldStays
<1> QED
  BY <1>10, <1>7, <1>8, <1>0

(***************************************************************************)
(* The terminal: what is marked is what is copied.                         *)
(***************************************************************************)
Covers == {c \in [rows : Seq(Nat), cursor : Nat \ {0}] : c.cursor <= Len(c.rows)}

Covering == {<<>>} \cup {<<c>> : c \in Covers}

Grids ==
  {g \in [rows : Seq(Nat), cursor : Nat \ {0}, covered : Covering, texts : Nat, off : Seq(Nat)] :
     g.cursor <= Len(g.rows)}

Ends == {NoEnd} \cup (Nat \X Columns)

Buffers ==
  [history : Seq(Nat), live : Seq(Nat), valid : BOOLEAN, offset : Nat, anchor : Ends, focus : Ends]

(* The rows of the screen that the buffer has are as many as the screen    *)
(* has, or nothing came yet.  On the alternate screen the window is at the *)
(* bottom.  A selection has both ends or none.                             *)
Shown(g, b) ==
  /\ Len(b.live) = Len(g.rows) \/ (b.live = <<>> /\ b.history = <<>>)
  /\ g.covered # <<>> => b.offset = 0

Reasons == {"unlike", "outrun"}

Terminals ==
  {t \in [grid : Grids, buf : Buffers, gone : Seq(Nat), overlooked : SUBSET Reasons] :
     Shown(t.grid, t.buf) /\ (t.buf.anchor = NoEnd <=> t.buf.focus = NoEnd)}

Terminal == [grid |-> grid, buf |-> buf, gone |-> gone, overlooked |-> overlooked]

BufferInv == Terminal \in Terminals

(* A screen of blank rows. *)
LEMMA LinesAreBlank ==
  ASSUME NEW n \in Nat
  PROVE  Lines(n) \in Seq(Nat) /\ Len(Lines(n)) = n
<1>1. PICK s : s = Lines(n)
  OBVIOUS
<1>2. s = [i \in 1 .. n |-> 0]
  BY <1>1 DEF Lines, BlankRow
<1>3. s \in [1 .. n -> Nat]
  BY <1>2
<1>4. s \in Seq(Nat) /\ Len(s) = n
  BY <1>3
<1> QED
  BY <1>1, <1>4

(* What is appended to the history, and what the cap leaves of it.         *)
LEMMA PushKeeps ==
  ASSUME NEW h \in Seq(Nat), NEW ls \in Seq(Nat)
  PROVE  push_history(h, ls) \in Seq(Nat)
<1>1. PICK all : all = h \o ls
  OBVIOUS
<1>2. all \in Seq(Nat) /\ Len(all) \in Nat
  BY <1>1
<1>3. PICK k : k = IF Len(all) > MaxHistory THEN Len(all) - MaxHistory ELSE 0
  OBVIOUS
<1>4. k \in 0 .. Len(all)
  BY <1>2, <1>3, BufferAssumption
<1>5. SubSeq(all, 1 + k, Len(all)) \in Seq(Nat)
  <2>1. 1 + k \in Nat /\ 1 + k >= 1
    BY <1>4
  <2> QED
    BY <1>2, <1>4, <2>1
<1>6. push_history(h, ls) = SubSeq(all, 1 + k, Len(all))
  BY <1>1, <1>3 DEF push_history
<1> QED
  BY <1>5, <1>6

(* A line feed, and a text that is written. *)
LEMMA NewlineKeeps ==
  ASSUME NEW s \in Grids
  PROVE  Newline(s) \in Grids /\ Write(s) \in Grids /\ WriteSame(s) \in Grids
<1>1. /\ s.rows \in Seq(Nat) /\ s.cursor \in Nat \ {0} /\ s.cursor <= Len(s.rows)
      /\ s.off \in Seq(Nat) /\ s.texts \in Nat /\ Len(s.rows) \in Nat
      /\ s.covered \in Covering
  BY DEF Grids
<1>2. Newline(s) \in Grids
  <2>1. CASE s.cursor < Len(s.rows)
    <3>1. Newline(s) = [s EXCEPT !.cursor = s.cursor + 1]
      BY <2>1 DEF Newline
    <3>2. s.cursor + 1 \in Nat \ {0} /\ s.cursor + 1 <= Len(s.rows)
      BY <1>1, <2>1
    <3> QED
      BY <3>1, <3>2 DEF Grids
  <2>2. CASE ~(s.cursor < Len(s.rows))
    <3>1. PICK newRows : newRows = Append(Tail(s.rows), BlankRow)
      OBVIOUS
    <3>2. newRows \in Seq(Nat) /\ Len(newRows) = Len(s.rows)
      <4>1. s.rows # <<>> /\ BlankRow \in Nat
        BY <1>1 DEF BlankRow
      <4>2. Tail(s.rows) \in Seq(Nat) /\ Len(Tail(s.rows)) = Len(s.rows) - 1
        BY <1>1, <4>1
      <4> QED
        BY <3>1, <4>1, <4>2, <1>1
    <3>3. PICK off : off = IF s.covered = <<>> THEN Append(s.off, s.rows[1]) ELSE s.off
      OBVIOUS
    <3>4. off \in Seq(Nat)
      <4>1. 1 \in DOMAIN s.rows
        BY <1>1
      <4>2. s.rows[1] \in Nat
        BY <1>1, <4>1
      <4> QED
        BY <1>1, <3>3, <4>2
    <3>5. Newline(s) = [s EXCEPT !.rows = newRows, !.off = off]
      BY <2>2, <3>1, <3>3 DEF Newline
    <3> QED
      BY <1>1, <3>2, <3>4, <3>5 DEF Grids
  <2> QED
    BY <2>1, <2>2
<1>3. ASSUME NEW w \in Nat PROVE [s EXCEPT !.rows[s.cursor] = w, !.texts = s.texts + 1] \in Grids
  <2>0. s.texts + 1 \in Nat
    BY <1>1
  <2>1. PICK newRows : newRows = [s.rows EXCEPT ![s.cursor] = w]
    OBVIOUS
  <2>2. newRows \in Seq(Nat) /\ Len(newRows) = Len(s.rows)
    BY <1>1, <2>1
  <2>3. [s EXCEPT !.rows[s.cursor] = w, !.texts = s.texts + 1]
          = [s EXCEPT !.rows = newRows, !.texts = s.texts + 1]
    BY <2>1
  <2>4. [s EXCEPT !.rows = newRows, !.texts = s.texts + 1] \in Grids
    BY <1>1, <2>0, <2>2 DEF Grids
  <2> QED
    BY <2>3, <2>4
<1>4. Write(s) \in Grids /\ WriteSame(s) \in Grids
  <2>1. s.texts + 1 \in Nat /\ Same \in Nat
    BY <1>1 DEF Same
  <2> QED
    BY <2>1, <1>3 DEF Write, WriteSame
<1> QED
  BY <1>2, <1>4

(* One item of output. *)
LEMMA ProcessKeeps ==
  ASSUME NEW s \in Grids, NEW item \in Items
  PROVE  Process(s, item) \in Grids
<1>1. /\ s.rows \in Seq(Nat) /\ s.cursor \in Nat \ {0} /\ s.cursor <= Len(s.rows)
      /\ s.texts \in Nat /\ Len(s.rows) \in Nat
      /\ s.covered \in Covering
  BY DEF Grids
<1>2. Lines(Len(s.rows)) \in Seq(Nat) /\ Len(Lines(Len(s.rows))) = Len(s.rows)
  BY <1>1, LinesAreBlank
<1>3. CASE item = "line"
  BY <1>3, NewlineKeeps DEF Process
<1>4. CASE item = "same"
  BY <1>4, NewlineKeeps DEF Process
<1>5. CASE item = "nl"
  <2>1. [s EXCEPT !.texts = s.texts + 1] \in Grids
    <3>1. s.texts + 1 \in Nat
      BY <1>1
    <3> QED
      BY <1>1, <3>1 DEF Grids
  <2> QED
    BY <1>5, <2>1, NewlineKeeps DEF Process
<1>6. CASE item = "text"
  BY <1>6, NewlineKeeps DEF Process
<1>7. CASE item = "over"
  BY <1>7, NewlineKeeps DEF Process
<1>8. CASE item = "home"
  <2>1. Process(s, item) = [s EXCEPT !.cursor = 1]
    BY <1>8 DEF Process
  <2>2. 1 \in Nat \ {0} /\ 1 <= Len(s.rows)
    BY <1>1
  <2> QED
    BY <2>1, <2>2, <1>1 DEF Grids
<1>9. CASE item = "erase"
  <2>1. Process(s, item) = [s EXCEPT !.rows = Lines(Len(s.rows))]
    BY <1>9 DEF Process
  <2> QED
    BY <2>1, <1>1, <1>2 DEF Grids
<1>10. CASE item = "altOn"
  <2>1. PICK c : c = [rows |-> s.rows, cursor |-> s.cursor]
    OBVIOUS
  <2>2. c \in Covers
    BY <1>1, <2>1 DEF Covers
  <2>3. Process(s, item) = IF s.covered # <<>> THEN s
                           ELSE [s EXCEPT !.covered = <<c>>, !.rows = Lines(Len(s.rows)), !.cursor = 1]
    BY <1>10, <2>1 DEF Process
  <2>4. <<c>> \in Covering
    BY <2>2 DEF Covering
  <2>5. CASE s.covered = <<>>
    <3>1. Process(s, item) = [s EXCEPT !.covered = <<c>>, !.rows = Lines(Len(s.rows)), !.cursor = 1]
      BY <2>3, <2>5
    <3>2. 1 \in Nat \ {0} /\ 1 <= Len(s.rows)
      BY <1>1
    <3> QED
      BY <2>4, <3>1, <3>2, <1>1, <1>2 DEF Grids
  <2> QED
    BY <2>3, <2>5
<1>11. CASE item = "altOff"
  <2>1. CASE s.covered = <<>>
    BY <1>11, <2>1 DEF Process
  <2>2. CASE s.covered # <<>>
    <3>1. PICK c \in Covers : s.covered = <<c>>
      BY <1>1, <2>2 DEF Covering
    <3>2. c.rows \in Seq(Nat) /\ c.cursor \in Nat \ {0} /\ c.cursor <= Len(c.rows)
      BY DEF Covers
    <3>3. Process(s, item) = [s EXCEPT !.covered = <<>>, !.rows = c.rows, !.cursor = c.cursor]
      BY <1>11, <2>2, <3>1 DEF Process
    <3>4. <<>> \in Covering
      BY DEF Covering
    <3> QED
      BY <3>2, <3>3, <3>4 DEF Grids
  <2> QED
    BY <2>1, <2>2
<1> QED
  BY <1>3, <1>4, <1>5, <1>6, <1>7, <1>8, <1>9, <1>10, <1>11 DEF Items

(* A batch, and how a report is cut into batches.                          *)
LEMMA BatchKeeps ==
  ASSUME NEW s \in Grids, NEW batch \in Seq(Items)
  PROVE  FoldLeft(Process, s, batch) \in Grids
<1>1. \A acc \in Grids, i \in DOMAIN batch : Process(acc, batch[i]) \in Grids
  BY ProcessKeeps
<1> QED
  BY <1>1, ProcessStays

LEMMA BatchesAreItems ==
  ASSUME NEW chunk \in Seq(Items), NEW n
  PROVE  Batches(chunk, n) \in Seq(Seq(Items))
<1>1. PICK A : A = [done : Seq(Seq(Items)), last : Seq(Items), lines : Int]
  OBVIOUS
<1>3. [done |-> <<>>, last |-> <<>>, lines |-> 0] \in A
  <2>1. <<>> \in Seq(Seq(Items)) /\ <<>> \in Seq(Items)
    OBVIOUS
  <2> QED
    BY <1>1, <2>1
<1>4. ASSUME NEW acc \in A, NEW i \in DOMAIN chunk PROVE Batched(acc, chunk[i], n) \in A
  <2>1. PICK last : last = Append(acc.last, chunk[i])
    OBVIOUS
  <2>2. last \in Seq(Items)
    BY <1>1, <2>1
  <2>3. PICK done : done = Append(acc.done, last)
    OBVIOUS
  <2>4. done \in Seq(Seq(Items))
    BY <1>1, <2>2, <2>3
  <2>5. PICK lines \in Int : lines = acc.lines + (IF EndsLine(chunk[i]) THEN 1 ELSE 0)
    BY <1>1, SMTT(30)
  <2>6. Batched(acc, chunk[i], n) = IF lines >= BatchLines(n) THEN [done |-> done, last |-> <<>>, lines |-> 0]
                                    ELSE [done |-> acc.done, last |-> last, lines |-> lines]
    BY <2>1, <2>3, <2>5 DEF Batched
  <2>7. <<>> \in Seq(Items) /\ acc.done \in Seq(Seq(Items))
    BY <1>1
  <2> QED
    BY <1>1, <2>2, <2>4, <2>5, <2>6, <2>7
<1>5. PICK cut : cut = Split(chunk, n)
  OBVIOUS
<1>6. cut \in A
  BY <1>3, <1>4, <1>5, BatchedStays
<1>7. Batches(chunk, n) = IF cut.last = <<>> THEN cut.done ELSE Append(cut.done, cut.last)
  BY <1>5 DEF Batches
<1>8. cut.done \in Seq(Seq(Items)) /\ cut.last \in Seq(Items)
  BY <1>1, <1>6
<1> QED
  BY <1>7, <1>8

(* The shift that fits best is one of the rows of the screen before.       *)
LEMMA ShiftIsOnScreen ==
  ASSUME NEW prev \in Seq(Nat), NEW curr \in Seq(Nat)
  PROVE  detect_scroll(prev, curr) \in 0 .. Len(prev)
<1>1. CASE prev = <<>>
  BY <1>1 DEF detect_scroll
<1>2. CASE prev # <<>>
  <2>1. PICK n \in Nat : n = Len(prev) - 1 /\ Len(prev) = n + 1
    BY <1>2, SMTT(30)
  <2>2. PICK best : best = {k \in 0 .. n : \A j \in 0 .. n : Matched(prev, curr, j) <= Matched(prev, curr, k)}
    OBVIOUS
  <2>3. ASSUME NEW k \in 0 .. n PROVE Matched(prev, curr, k) \in 0 .. (n + 1)
    <3>1. PICK ms : ms = {m \in 0 .. (Len(prev) - k) :
                            m <= Len(curr) /\ \A i \in 1 .. m : prev[k + i] = curr[i]}
      OBVIOUS
    <3>2. ms \in SUBSET (0 .. (n + 1))
      BY <2>1, <3>1
    <3>3. 0 \in ms
      BY <2>1, <3>1
    <3>4. Max(ms) \in ms
      BY <3>2, <3>3, <2>1, n + 1 \in Nat, MaxFromZero
    <3> QED
      BY <3>1, <3>2, <3>4 DEF Matched
  <2>4. PICK all : all = {Matched(prev, curr, k) : k \in 0 .. n}
    OBVIOUS
  <2>5. all \in SUBSET (0 .. (n + 1)) /\ all # {}
    BY <2>3, <2>4, <2>1
  <2>6. Max(all) \in all /\ \A m \in all : Max(all) >= m
    BY <2>1, <2>5, n + 1 \in Nat, MaxFromZero
  <2>7. PICK k \in 0 .. n : Matched(prev, curr, k) = Max(all)
    BY <2>4, <2>6
  <2>8. \A j \in 0 .. n : Matched(prev, curr, j) <= Matched(prev, curr, k)
    BY <2>3, <2>4, <2>6, <2>7
  <2>9. k \in best
    BY <2>2, <2>8
  <2>10. best \in SUBSET (0 .. n)
    BY <2>2
  <2>11. Min(best) \in 0 .. n
    BY <2>1, <2>9, <2>10, MinFromZero
  <2>12. detect_scroll(prev, curr) = Min(best)
    BY <1>2, <2>1, <2>2 DEF detect_scroll
  <2> QED
    BY <2>1, <2>11, <2>12
<1> QED
  BY <1>1, <1>2

(* The first rows of a screen. *)
LEMMA FirstRows ==
  ASSUME NEW s \in Seq(Nat), NEW k \in 0 .. Len(s)
  PROVE  SubSeq(s, 1, k) \in Seq(Nat) /\ Len(SubSeq(s, 1, k)) = k
  OBVIOUS

LEMMA LastRows ==
  ASSUME NEW s \in Seq(Nat), NEW k \in 0 .. Len(s)
  PROVE  SubSeq(s, k + 1, Len(s)) \in Seq(Nat)
<1>1. k + 1 \in Nat /\ k + 1 >= 1 /\ Len(s) \in Nat
  OBVIOUS
<1> QED
  BY <1>1

LEMMA ReasonsAre ==
  ASSUME NEW t, NEW batch, NEW s
  PROVE  /\ Unseen(t, batch, s) \in SUBSET Reasons
         /\ Unseen(t, batch, s) = {} => ~Unlike(t, batch, s) /\ ~Outrun(t, batch, s)
  BY DEF Unseen, Reasons

(* What comes from a batch leaves a buffer that shows the screen.           *)
LEMMA IngestKeeps ==
  ASSUME NEW t \in Terminals, NEW batch \in Seq(Items)
  PROVE  ingest_chunk(t, batch) \in Terminals
<1>1. /\ t.grid \in Grids /\ t.buf \in Buffers /\ t.gone \in Seq(Nat) /\ t.overlooked \in SUBSET Reasons
      /\ Shown(t.grid, t.buf) /\ (t.buf.anchor = NoEnd <=> t.buf.focus = NoEnd)
  BY DEF Terminals
<1>2. [t.grid EXCEPT !.off = <<>>] \in Grids
  <2>1. <<>> \in Seq(Nat)
    OBVIOUS
  <2> QED
    BY <1>1, <2>1 DEF Grids
<1>3. PICK s \in Grids : s = FoldLeft(Process, [t.grid EXCEPT !.off = <<>>], batch)
  BY <1>2, BatchKeeps
<1>4. s.rows \in Seq(Nat) /\ s.off \in Seq(Nat)
  BY DEF Grids
<1>5. /\ t.buf.history \in Seq(Nat) /\ t.buf.live \in Seq(Nat) /\ t.buf.valid \in BOOLEAN
      /\ t.buf.offset \in Nat /\ t.buf.anchor \in Ends /\ t.buf.focus \in Ends
  BY <1>1 DEF Buffers
<1>6. PICK found : found = Found(t.buf, s.rows)
  OBVIOUS
<1>7. found \in Seq(Nat)
  <2>1. PICK k \in 0 .. Len(t.buf.live) : k = detect_scroll(t.buf.live, s.rows)
    BY <1>4, <1>5, ShiftIsOnScreen
  <2>2. found = SubSeq(t.buf.live, 1, k)
    BY <1>6, <2>1 DEF Found
  <2> QED
    BY <1>5, <2>1, <2>2, FirstRows
<1>8. PICK h \in Seq(Nat) : h = push_history(t.buf.history, found)
  BY <1>5, <1>7, PushKeeps
<1>9. PICK next : next =
         IF s.covered # <<>> \/ IsFullscreenRefresh(batch)
         THEN [t.buf EXCEPT !.offset = 0, !.valid = FALSE, !.live = s.rows]
         ELSE IF t.buf.valid THEN [t.buf EXCEPT !.live = s.rows, !.history = h]
              ELSE [t.buf EXCEPT !.live = s.rows, !.valid = TRUE]
  OBVIOUS
<1>10. next \in Buffers /\ next.live = s.rows /\ (s.covered # <<>> => next.offset = 0)
  <2>1. CASE s.covered # <<>> \/ IsFullscreenRefresh(batch)
    BY <1>1, <1>4, <1>9, <2>1 DEF Buffers
  <2>2. CASE ~(s.covered # <<>> \/ IsFullscreenRefresh(batch)) /\ t.buf.valid
    BY <1>1, <1>4, <1>9, <2>2 DEF Buffers
  <2>3. CASE ~(s.covered # <<>> \/ IsFullscreenRefresh(batch)) /\ ~t.buf.valid
    BY <1>1, <1>4, <1>9, <2>3 DEF Buffers
  <2> QED
    BY <2>1, <2>2, <2>3
<1>11. next.anchor = t.buf.anchor /\ next.focus = t.buf.focus
  BY <1>1, <1>9 DEF Buffers
<1>12. PICK g \in Seq(Nat) : g = push_history(t.gone, s.off)
  BY <1>1, <1>4, PushKeeps
<1>13. PICK o \in SUBSET Reasons : o = t.overlooked \cup Unseen(t, batch, s)
  BY <1>1, ReasonsAre
<1>14. ingest_chunk(t, batch) = [grid |-> s, buf |-> next, gone |-> g, overlooked |-> o]
  BY <1>3, <1>6, <1>8, <1>9, <1>12, <1>13 DEF ingest_chunk
<1>15. Shown(s, next)
  BY <1>10 DEF Shown
<1> QED
  BY <1>1, <1>10, <1>11, <1>14, <1>15 DEF Terminals

(* A report does, and so does the rest of what happens to a terminal: what *)
(* is drawn again has as many rows as the screen.                          *)
LEMMA ShownAgain ==
  ASSUME NEW b \in Buffers, NEW g \in Grids,
         g.covered # <<>> => b.offset = 0, b.anchor = NoEnd <=> b.focus = NoEnd
  PROVE  /\ Refreshed(b, g) \in Buffers /\ Shown(g, Refreshed(b, g))
         /\ Refreshed(b, g).anchor = NoEnd <=> Refreshed(b, g).focus = NoEnd
<1>1. g.rows \in Seq(Nat)
  BY DEF Grids
<1>2. CASE Len(b.live) = Len(g.rows)
  BY <1>2 DEF Refreshed, Shown
<1>3. CASE Len(b.live) # Len(g.rows)
  <2>1. Refreshed(b, g) = [b EXCEPT !.live = g.rows]
    BY <1>3 DEF Refreshed
  <2>2. PICK r : r = [b EXCEPT !.live = g.rows]
    OBVIOUS
  <2>3. r \in Buffers /\ r.live = g.rows /\ r.offset = b.offset /\ r.anchor = b.anchor /\ r.focus = b.focus
    BY <1>1, <2>2 DEF Buffers
  <2> QED
    BY <2>1, <2>2, <2>3 DEF Shown
<1> QED
  BY <1>2, <1>3

(* A screen that is cut, or gets blank rows, with a height of at least one. *)
LEMMA RowsOfAScreen ==
  ASSUME NEW h \in Nat \ {0}, NEW newRows \in [1 .. h -> Nat]
  PROVE  newRows \in Seq(Nat) /\ Len(newRows) = h
<1>1. h \in Nat
  OBVIOUS
<1> QED
  BY <1>1

LEMMA SetSizeKeeps ==
  ASSUME NEW g, g \in [rows : Seq(Nat), cursor : Nat \ {0}, covered : Covering, texts : Nat, off : Seq(Nat)],
         NEW h \in Nat \ {0}
  PROVE  /\ SetSize(g, h) \in Grids /\ Len(SetSize(g, h).rows) = h
         /\ SetSize(g, h).covered # <<>> => g.covered # <<>>
<1>1. PICK cov : cov = [i \in DOMAIN g.covered |-> Cut(g.covered[i], h)]
  OBVIOUS
<1>2. cov \in Covering /\ (cov # <<>> => g.covered # <<>>)
  <2>1. CASE g.covered = <<>>
    <3>1. cov = <<>>
      BY <1>1, <2>1
    <3> QED
      BY <3>1, <2>1 DEF Covering
  <2>2. CASE g.covered # <<>>
    <3>1. PICK c \in Covers : g.covered = <<c>>
      BY <2>2 DEF Covering
    <3>2. c.cursor \in Nat \ {0}
      BY DEF Covers
    <3>21. PICK rs \in Seq(Nat) : rs = c.rows
      BY DEF Covers
    <3>3. PICK newRows : newRows = [i \in 1 .. h |-> IF i <= Len(rs) THEN rs[i] ELSE BlankRow]
      OBVIOUS
    <3>4. PICK cursor : cursor = IF c.cursor > h THEN h ELSE c.cursor
      OBVIOUS
    <3>5. newRows \in Seq(Nat) /\ Len(newRows) = h
      <4>1. newRows \in [1 .. h -> Nat]
        BY <3>3 DEF BlankRow
      <4> QED
        BY <4>1, RowsOfAScreen
    <3>51. cursor \in Nat \ {0} /\ cursor <= Len(newRows)
      BY <3>2, <3>4, <3>5
    <3>6. Cut(c, h) = [c EXCEPT !.rows = newRows, !.cursor = cursor]
      BY <3>21, <3>3, <3>4 DEF Cut
    <3>7. Cut(c, h) \in Covers
      BY <3>5, <3>51, <3>6 DEF Covers
    <3>8. cov = <<Cut(c, h)>>
      BY <1>1, <3>1
    <3> QED
      BY <3>7, <3>8, <2>2 DEF Covering
  <2> QED
    BY <2>1, <2>2
<1>3. PICK newRows : newRows = [i \in 1 .. h |-> IF i <= Len(g.rows) THEN g.rows[i] ELSE BlankRow]
  OBVIOUS
<1>4. PICK cursor : cursor = IF g.cursor > h THEN h ELSE g.cursor
  OBVIOUS
<1>5. newRows \in Seq(Nat) /\ Len(newRows) = h /\ cursor \in 1 .. h
  <2>1. newRows \in [1 .. h -> Nat]
    BY <1>3 DEF BlankRow
  <2>2. newRows \in Seq(Nat) /\ Len(newRows) = h
    BY <2>1, RowsOfAScreen
  <2> QED
    BY <1>4, <2>2
<1>6. SetSize(g, h) = [g EXCEPT !.covered = cov, !.rows = newRows, !.cursor = cursor]
  BY <1>1, <1>3, <1>4 DEF SetSize, Cut
<1>7. cursor \in Nat \ {0} /\ cursor <= Len(newRows)
  BY <1>5
<1> QED
  BY <1>2, <1>5, <1>6, <1>7 DEF Grids

LEMMA BufferInvInit == BufferInit => BufferInv
<1> SUFFICES ASSUME BufferInit PROVE BufferInv
  OBVIOUS
<1>1. PICK h \in Heights : grid = Fresh(h)
  BY DEF BufferInit
<1>2. h \in Nat /\ h >= 5
  BY <1>1, BufferAssumption
<1>3. Fresh(h) \in Grids
  <2>1. Lines(h) \in Seq(Nat) /\ Len(Lines(h)) = h /\ <<>> \in Seq(Nat) /\ <<>> \in Covering
    BY <1>2, LinesAreBlank DEF Covering
  <2>2. 1 \in Nat \ {0} /\ 1 <= h /\ Same \in Nat
    BY <1>2 DEF Same
  <2> QED
    BY <2>1, <2>2 DEF Fresh, Grids
<1>4. NewBuffer \in Buffers
  <2>1. <<>> \in Seq(Nat) /\ NoEnd \in Ends
    BY DEF Ends
  <2> QED
    BY <2>1 DEF NewBuffer, Buffers
<1>5. Shown(Fresh(h), NewBuffer) /\ (NewBuffer.anchor = NoEnd <=> NewBuffer.focus = NoEnd)
  BY DEF Shown, NewBuffer, Fresh
<1>6. <<>> \in Seq(Nat) /\ buf = NewBuffer /\ gone = <<>> /\ overlooked = {}
  BY DEF BufferInit
<1> QED
  BY <1>1, <1>3, <1>4, <1>5, <1>6 DEF BufferInv, Terminal, Terminals

(* Two lists, one behind the other; a pair; and what is marked in a row.   *)
LEMMA OneBehindTheOther ==
  ASSUME NEW p \in Seq(Nat), NEW q \in Seq(Nat), NEW all, all = p \o q
  PROVE  /\ all \in Seq(Nat) /\ Len(all) = Len(p) + Len(q)
         /\ \A i \in 1 .. Len(p) : all[i] = p[i]
         /\ \A i \in (Len(p) + 1) .. Len(all) : all[i] = q[i - Len(p)]
  OBVIOUS

LEMMA Pairs ==
  ASSUME NEW S, NEW C, NEW v \in S, NEW c \in C
  PROVE  \E m \in S \X C : m = <<v, c>> /\ m[1] = v /\ m[2] = c
<1>1. <<v, c>> \in S \X C
  OBVIOUS
<1> QED
  BY <1>1

LEMMA SameMarks ==
  ASSUME NEW row, NEW ms, NEW cs, \A e \in ms : e[2] \in cs, \A c \in cs : \E e \in ms : e[2] = c
  PROVE  {<<row, Glyph(row, e[2])>> : e \in ms} = {<<row, Glyph(row, c)>> : c \in cs}
<1>1. ASSUME NEW x \in {<<row, Glyph(row, e[2])>> : e \in ms} PROVE x \in {<<row, Glyph(row, c)>> : c \in cs}
  OBVIOUS
<1>2. ASSUME NEW x \in {<<row, Glyph(row, c)>> : c \in cs} PROVE x \in {<<row, Glyph(row, e[2])>> : e \in ms}
  OBVIOUS
<1> QED
  BY <1>1, <1>2

(* Where the window begins and where the text ends are numbers.            *)
LEMMA ViewIsANumber ==
  ASSUME NEW b \in Buffers, NEW height \in Nat
  PROVE  /\ view_top_abs(b, height) \in Nat
         /\ view_top_abs(b, height) = IF b.offset = 0 THEN Len(b.history)
                                    ELSE IF Len(b.history) >= b.offset
                                         THEN Len(b.history) - b.offset ELSE 0
<1>1. Len(b.history) \in Nat /\ b.offset \in Nat
  BY DEF Buffers
<1>2. PICK x \in Int : x = Len(b.history) + height - (height + b.offset)
  BY <1>1
<1>3. x = Len(b.history) - b.offset
  BY <1>1, <1>2
<1>4. Max({0, x}) = IF 0 >= x THEN 0 ELSE x
  BY MaxOfTwo
<1>5. view_top_abs(b, height) = IF b.offset = 0 THEN Len(b.history) ELSE Max({0, x})
  BY <1>2 DEF view_top_abs
<1> QED
  BY <1>1, <1>3, <1>4, <1>5

LEMMA UsedIsANumber ==
  ASSUME NEW b \in Buffers
  PROVE  LiveUsed(b) \in 0 .. Len(b.live)
<1>1. PICK live \in Seq(Nat) : live = b.live
  BY DEF Buffers
<1>2. PICK s : s = {0} \cup {i \in DOMAIN live : live[i] # BlankRow}
  OBVIOUS
<1>3. s \in SUBSET (0 .. Len(live)) /\ Len(live) \in Nat /\ s # {}
  BY <1>2
<1>4. Max(s) \in s
  BY <1>3, MaxFromZero
<1>5. LiveUsed(b) = Max(s)
  BY <1>1, <1>2 DEF LiveUsed
<1> QED
  BY <1>1, <1>3, <1>4, <1>5

(* The characters of a row that is not wide, and those of a whole row.      *)
LEMMA GlyphsAreChars ==
  ASSUME NEW row, NEW cs \in SUBSET Columns, row \in Wide => cs = Columns
  PROVE  {<<row, Glyph(row, c)>> : c \in cs} = {<<row, c>> : c \in cs \cap Chars(row)}
<1>1. CASE row \in Wide
  <2>1. cs = {0, 1, 2} /\ cs \cap Chars(row) = {0, 1}
    BY <1>1 DEF Columns, Chars
  <2>2. Glyph(row, 0) = 0 /\ Glyph(row, 1) = 0 /\ Glyph(row, 2) = 1
    BY <1>1 DEF Glyph
  <2>3. {<<row, Glyph(row, c)>> : c \in cs} = {<<row, 0>>, <<row, 1>>}
    BY <2>1, <2>2
  <2>4. {<<row, c>> : c \in cs \cap Chars(row)} = {<<row, 0>>, <<row, 1>>}
    BY <2>1
  <2> QED
    BY <2>3, <2>4
<1>2. CASE row \notin Wide
  <2>1. cs \cap Chars(row) = cs /\ \A c \in cs : Glyph(row, c) = c
    BY <1>2 DEF Chars, Glyph
  <2> QED
    BY <2>1
<1> QED
  BY <1>1, <1>2

(* What is highlighted is what is copied, in every state that the          *)
(* invariant describes.                                                    *)
LEMMA MarkedIsCopiedThen ==
  ASSUME BufferInv PROVE MarkedIsCopied
<1> SUFFICES ASSUME Usable(buf.anchor, buf), Usable(buf.focus, buf), buf.anchor # buf.focus,
                    InView(buf.anchor), InView(buf.focus), ~OnWide(buf.anchor), ~OnWide(buf.focus)
             PROVE  extract_selection_text(buf)
                      = [i \in 1 .. (High(buf)[1] - Low(buf)[1] + 1) |->
                           MarkedRow(Low(buf)[1] - view_top_abs(buf, Height) + i - 1)]
  BY DEF MarkedIsCopied, Selected, CopiedAsMarked
<1>1. grid \in Grids /\ buf \in Buffers /\ Shown(grid, buf)
  BY DEF BufferInv, Terminal, Terminals
<1>2. PICK b \in Buffers : b = buf
  BY <1>1
<1>3. PICK height \in Nat : height = Height /\ height = Len(grid.rows)
  BY <1>1 DEF Height, Grids
<1>4. PICK top \in Nat : top = view_top_abs(b, height)
  BY ViewIsANumber
<1>5. PICK used \in Nat : used = LiveUsed(b) /\ used <= Len(b.live)
  BY UsedIsANumber DEF Buffers
<1>6. PICK past \in Seq(Nat) : past = b.history
  BY DEF Buffers
<1>7. PICK live \in Seq(Nat) : live = b.live
  BY DEF Buffers
<1>8. Len(past) \in Nat /\ Len(live) \in Nat /\ b.offset \in Nat
  BY DEF Buffers
<1>9. PICK a \in Nat \X Columns : a = b.anchor /\ a[1] < Len(past) + used /\ a[1] \in top .. (top + height - 1)
  BY <1>1, <1>2, <1>3, <1>4, <1>5, <1>6 DEF Buffers, Ends, Usable, InView
<1>10. PICK f \in Nat \X Columns : f = b.focus /\ f[1] < Len(past) + used /\ f[1] \in top .. (top + height - 1)
  BY <1>1, <1>2, <1>3, <1>4, <1>5, <1>6 DEF Buffers, Ends, Usable, InView
<1>11. a # f
  BY <1>2, <1>9, <1>10
<1>12. PICK lo : lo = IF Before(a, f) THEN a ELSE f
  OBVIOUS
<1>13. PICK hi : hi = IF Before(a, f) THEN f ELSE a
  OBVIOUS
<1>14. lo = Low(b) /\ hi = High(b)
  BY <1>9, <1>10, <1>12, <1>13 DEF Low, High
<1>15. PICK l \in Nat, lc \in Columns : lo = <<l, lc>>
  <2>1. lo \in Nat \X Columns
    BY <1>12
  <2> QED
    BY <2>1
<1>16. PICK h \in Nat, hc \in Columns : hi = <<h, hc>>
  <2>1. hi \in Nat \X Columns
    BY <1>13
  <2> QED
    BY <2>1
<1>17. /\ l < Len(past) + used /\ l \in top .. (top + height - 1)
       /\ h < Len(past) + used /\ h \in top .. (top + height - 1)
  <2>1. CASE Before(a, f)
    BY <2>1, <1>9, <1>10, <1>12, <1>13, <1>15, <1>16
  <2>2. CASE ~Before(a, f)
    BY <2>2, <1>9, <1>10, <1>12, <1>13, <1>15, <1>16
  <2> QED
    BY <2>1, <2>2
<1>18. l < h \/ (l = h /\ lc <= hc)
  <2>1. PICK a1 \in Nat, a2 \in Columns : a = <<a1, a2>>
    OBVIOUS
  <2>2. PICK f1 \in Nat, f2 \in Columns : f = <<f1, f2>>
    OBVIOUS
  <2>3. Before(a, f) <=> a1 < f1 \/ (a1 = f1 /\ a2 <= f2)
    BY <2>1, <2>2 DEF Before
  <2>4. CASE Before(a, f)
    BY <2>1, <2>2, <2>3, <2>4, <1>12, <1>13, <1>15, <1>16
  <2>5. CASE ~Before(a, f)
    <3>1. f1 < a1 \/ (f1 = a1 /\ f2 <= a2)
      BY <2>3, <2>5 DEF Columns
    <3> QED
      BY <2>1, <2>2, <2>5, <3>1, <1>12, <1>13, <1>15, <1>16
  <2> QED
    BY <2>4, <2>5
<1>19. b.anchor # NoEnd /\ b.anchor # b.focus
  BY <1>9, <1>10, <1>11 DEF NoEnd
\* The window has as many rows as the screen.
<1>20. Len(live) = height
  <2>1. Len(live) = height \/ (live = <<>> /\ past = <<>>)
    BY <1>1, <1>2, <1>3, <1>6, <1>7 DEF Shown
  <2>2. CASE live = <<>> /\ past = <<>>
    <3>1. Len(past) = 0 /\ used = 0
      BY <2>2, <1>5, <1>7
    <3> QED
      BY <3>1, <1>17
  <2> QED
    BY <2>1, <2>2
<1>21. Refreshed(buf, grid) = b
  BY <1>2, <1>3, <1>7, <1>20 DEF Refreshed
\* A row of the window and a row of the selection are the same row.
<1>22. PICK all : all = past \o live
  OBVIOUS
<1>220. all = Combined(b)
  BY <1>6, <1>7, <1>22 DEF Combined
<1>221. /\ all \in Seq(Nat) /\ Len(all) = Len(past) + Len(live)
        /\ \A i \in (Len(past) + 1) .. Len(all) : all[i] = live[i - Len(past)]
  BY <1>22, OneBehindTheOther
<1>23. Len(all) = Len(past) + height
  BY <1>20, <1>221
<1>24. ASSUME NEW r \in l .. h
       PROVE  Rendered(b, grid)[r - top + 1] = IF r < Len(all) THEN all[r + 1] ELSE BlankRow
  <2>1. r - top \in 0 .. (height - 1) /\ r \in Nat
    BY <1>17
  <2>2. CASE b.offset = 0
    <3>1. top = Len(past)
      BY <2>2, <1>4, <1>6, ViewIsANumber
    <3>2. Rendered(b, grid) = live
      BY <2>2, <1>7 DEF Rendered
    <3>3. r + 1 \in (Len(past) + 1) .. Len(all)
      BY <2>1, <3>1, <1>8, <1>23
    <3>4. all[r + 1] = live[r + 1 - Len(past)]
      BY <3>3, <1>221
    <3> QED
      BY <3>1, <3>2, <3>3, <3>4, <2>1, <1>8, <1>23
  <2>3. CASE b.offset # 0
    <3>1. grid.covered = <<>>
      BY <2>3, <1>1, <1>2 DEF Shown
    <3>2. PICK x \in Int : x = Len(all) - (height + b.offset)
      BY <1>8, <1>23
    <3>3. x = Len(past) - b.offset
      BY <3>2, <1>23, <1>8
    <3>4. Max({0, x}) = IF 0 >= x THEN 0 ELSE x
      BY MaxOfTwo
    <3>5. top = Max({0, x})
      <4>1. top = IF Len(past) >= b.offset THEN Len(past) - b.offset ELSE 0
        BY <2>3, <1>4, <1>6, ViewIsANumber
      <4> QED
        BY <4>1, <3>3, <3>4, <1>8
    <3>6. Rendered(b, grid) = [d \in 1 .. height |-> IF top + d <= Len(all) THEN all[top + d] ELSE BlankRow]
      BY <2>3, <3>1, <3>2, <3>5, <1>3, <1>220 DEF Rendered
    <3>7. r - top + 1 \in 1 .. height /\ top + (r - top + 1) = r + 1
      BY <2>1
    <3> QED
      BY <3>6, <3>7, <2>1, <1>8, <1>23
  <2> QED
    BY <2>2, <2>3
<1>241. all[l + 1] \notin Wide /\ all[h + 1] \notin Wide
  <2>1. all[a[1] + 1] \notin Wide /\ all[f[1] + 1] \notin Wide
    BY <1>2, <1>9, <1>10, <1>220 DEF OnWide
  <2>2. (lo = a /\ hi = f) \/ (lo = f /\ hi = a)
    BY <1>12, <1>13
  <2>3. lo[1] = l /\ hi[1] = h
    BY <1>15, <1>16
  <2> QED
    BY <2>1, <2>2, <2>3
\* Its columns are those of the selection.
<1>25. ASSUME NEW r \in l .. h
       PROVE  MarkedRow(r - top) = Segment(b, r, Span(r, lo, hi))
  <2>1. PICK vis \in 0 .. (height - 1) : vis = r - top /\ top + vis = r
    BY <1>17
  <2>2. PICK marks : marks = selection_rects_visible(b, height)
    OBVIOUS
  <2>3. marks = {m \in (0 .. (height - 1)) \X Columns :
                   /\ top + m[1] >= lo[1] /\ top + m[1] <= hi[1]
                   /\ m[2] \in Span(top + m[1], lo, hi)}
    BY <2>2, <1>4, <1>14, <1>19 DEF selection_rects_visible
  <2>4. PICK cs \in SUBSET Columns : cs = Span(r, lo, hi)
    BY DEF Span
  <2>5. \A m \in marks : m[1] = vis => m[2] \in cs
    BY <2>1, <2>3, <2>4
  <2>6. ASSUME NEW c \in cs PROVE <<vis, c>> \in marks
    <3>0. c \in Columns
      BY <2>4
    <3>1. PICK m : m = <<vis, c>>
      OBVIOUS
    <3>2. m[1] = vis /\ m[2] = c /\ m \in (0 .. (height - 1)) \X Columns
      BY <3>0, <3>1
    <3>3. top + m[1] >= lo[1] /\ top + m[1] <= hi[1]
      BY <2>1, <3>2, <1>15, <1>16
    <3>4. m \in marks
      BY <2>1, <2>3, <2>4, <3>2, <3>3
    <3> QED
      BY <3>1, <3>4
  <2>7. PICK row : row = Rendered(b, grid)[vis + 1]
    OBVIOUS
  <2>8. MarkedRow(vis) = IF row = BlankRow THEN {}
                         ELSE {<<row, Glyph(row, e[2])>> : e \in {m \in marks : m[1] = vis}}
    BY <2>2, <2>7, <1>2, <1>3, <1>21 DEF MarkedRow
  <2>9. {<<row, Glyph(row, e[2])>> : e \in {m \in marks : m[1] = vis}} = {<<row, Glyph(row, c)>> : c \in cs}
    <3>1. PICK ms : ms = {m \in marks : m[1] = vis}
      OBVIOUS
    <3>2. \A e \in ms : e[2] \in cs
      BY <2>5, <3>1
    <3>3. ASSUME NEW c \in cs PROVE \E e \in ms : e[2] = c
      <4>1. <<vis, c>> \in ms /\ <<vis, c>>[2] = c
        BY <2>6, <3>1
      <4> QED
        BY <4>1
    <3>4. \A c \in cs : \E e \in ms : e[2] = c
      BY <3>3
    <3>5. {<<row, Glyph(row, e[2])>> : e \in ms} = {<<row, Glyph(row, c)>> : c \in cs}
      BY <3>2, <3>4, SameMarks
    <3> QED
      BY <3>1, <3>5
  <2>10. row = IF r < Len(all) THEN all[r + 1] ELSE BlankRow
    BY <2>1, <2>7, <1>24
  <2>11. Segment(b, r, cs) = IF row = BlankRow THEN {} ELSE {<<row, c>> : c \in cs \cap Chars(row)}
    BY <2>10, <1>220 DEF Segment
  <2>12. ASSUME row # BlankRow, row \in Wide PROVE cs = Columns
    <3>1. r # l /\ r # h
      BY <2>10, <2>12, <1>241
    <3>2. lo[1] = l /\ hi[1] = h
      BY <1>15, <1>16
    <3> QED
      BY <2>4, <3>1, <3>2 DEF Span
  <2>13. ASSUME row # BlankRow
         PROVE  {<<row, Glyph(row, c)>> : c \in cs} = {<<row, c>> : c \in cs \cap Chars(row)}
    BY <2>12, <2>13, GlyphsAreChars
  <2> QED
    BY <2>1, <2>4, <2>8, <2>9, <2>11, <2>13
\* The last row of the selection is used, so that it is not moved up.
<1>26. Min({hi[1], Max({0, Len(b.history) + LiveUsed(b) - 1})}) = h
  <2>1. PICK x \in Int : x = Len(b.history) + LiveUsed(b) - 1 /\ x >= h
    BY <1>5, <1>6, <1>8, <1>17
  <2>2. Max({0, x}) = x
    <3>1. 0 \in Int /\ ~(0 > x)
      BY <2>1
    <3>2. Max({0, x}) = IF 0 >= x THEN 0 ELSE x
      BY <3>1, MaxOfTwo
    <3> QED
      BY <3>1, <3>2
  <2>3. Min({h, x}) = h
    BY <2>1, MinOfTwo
  <2> QED
    BY <2>1, <2>2, <2>3, <1>16
<1>27. ASSUME l = h PROVE Min({lo[2], hi[2]}) .. Max({lo[2], hi[2]}) = Span(l, lo, hi)
  <2>1. lc <= hc /\ lc \in Int /\ hc \in Int
    BY <1>18, <1>27 DEF Columns
  <2>2. Min({lc, hc}) = lc /\ Max({lc, hc}) = hc
    BY <2>1, MinOfTwo, MaxOfTwo
  <2>3. Span(l, lo, hi) = {c \in Columns : lc <= c /\ c <= hc}
    BY <1>15, <1>16, <1>27 DEF Span
  <2>4. {c \in Columns : lc <= c /\ c <= hc} = lc .. hc
    BY DEF Columns
  <2> QED
    BY <2>2, <2>3, <2>4, <1>15, <1>16
<1>28. ASSUME NEW i \in 1 .. (h - l + 1)
       PROVE  Segment(b, l + i - 1, IF l = h THEN Min({lo[2], hi[2]}) .. Max({lo[2], hi[2]})
                                    ELSE Span(l + i - 1, lo, hi))
                = MarkedRow(l - top + i - 1)
  <2>1. PICK r \in l .. h : r = l + i - 1 /\ r - top = l - top + i - 1
    <3>1. l + i - 1 \in l .. h /\ l + i - 1 - top = l - top + i - 1
      OBVIOUS
    <3> QED
      BY <3>1
  <2>2. l = h => r = l
    BY <2>1
  <2>3. MarkedRow(r - top) = Segment(b, r, Span(r, lo, hi))
    BY <1>25
  <2> QED
    BY <2>1, <2>2, <2>3, <1>27
<1>29. extract_selection_text(b)
         = [i \in 1 .. (h - l + 1) |->
              Segment(b, l + i - 1, IF l = h THEN Min({lo[2], hi[2]}) .. Max({lo[2], hi[2]})
                                    ELSE Span(l + i - 1, lo, hi))]
  <2>1. PICK last : last = Min({hi[1], Max({0, Len(b.history) + LiveUsed(b) - 1})})
    OBVIOUS
  <2>2. <<last, hi[2]>> = hi
    BY <2>1, <1>26, <1>16
  <2>3. extract_selection_text(b)
          = [i \in 1 .. (<<last, hi[2]>>[1] - lo[1] + 1) |->
               Segment(b, lo[1] + i - 1,
                       IF lo[1] = <<last, hi[2]>>[1]
                       THEN Min({lo[2], <<last, hi[2]>>[2]}) .. Max({lo[2], <<last, hi[2]>>[2]})
                       ELSE Span(lo[1] + i - 1, lo, <<last, hi[2]>>))]
    BY <2>1, <1>14, <1>19 DEF extract_selection_text
  <2>4. lo[1] = l /\ hi[1] = h
    BY <1>15, <1>16
  <2> QED
    BY <2>2, <2>3, <2>4
<1>30. High(buf)[1] = h /\ Low(buf)[1] = l /\ view_top_abs(buf, Height) = top
  BY <1>2, <1>3, <1>4, <1>14, <1>15, <1>16
<1> QED
  BY <1>2, <1>28, <1>29, <1>30

(* Every step of a terminal keeps the invariant.                           *)
LEMMA BufferInvNext ==
  ASSUME BufferInv, [BufferNext]_bufferVars
  PROVE  BufferInv'
<1>1. /\ grid \in Grids /\ buf \in Buffers /\ gone \in Seq(Nat) /\ overlooked \in SUBSET Reasons
      /\ Shown(grid, buf) /\ (buf.anchor = NoEnd <=> buf.focus = NoEnd)
  BY DEF BufferInv, Terminal, Terminals
<1>2. ASSUME grid' \in Grids, buf' \in Buffers, gone' \in Seq(Nat), overlooked' \in SUBSET Reasons,
             Shown(grid', buf'), buf'.anchor = NoEnd <=> buf'.focus = NoEnd
      PROVE  BufferInv'
  BY <1>2 DEF BufferInv, Terminal, Terminals
<1>3. /\ grid.rows \in Seq(Nat) /\ grid.cursor \in Nat \ {0} /\ grid.cursor <= Height
      /\ grid.covered \in Covering /\ Height \in Nat /\ Height >= 1 /\ Len(grid.rows) = Height
  BY <1>1 DEF Grids, Height
<1>4. /\ buf.history \in Seq(Nat) /\ Len(buf.history) \in Nat /\ buf.offset \in Nat
      /\ buf.anchor \in Ends /\ buf.focus \in Ends
  BY <1>1 DEF Buffers
\* A buffer that is drawn again over the same screen.
<1>5. ASSUME NEW b \in Buffers, grid.covered # <<>> => b.offset = 0, b.anchor = NoEnd <=> b.focus = NoEnd,
             Show(b, grid), UNCHANGED <<grid, gone, overlooked>>
      PROVE  BufferInv'
  <2>1. /\ Refreshed(b, grid) \in Buffers /\ Shown(grid, Refreshed(b, grid))
        /\ Refreshed(b, grid).anchor = NoEnd <=> Refreshed(b, grid).focus = NoEnd
    BY <1>1, <1>5, ShownAgain
  <2> QED
    BY <1>1, <1>2, <1>5, <2>1 DEF Show
\* A place in the window is a place in the lines.
<1>6. ASSUME NEW b \in Buffers, NEW row \in Nat, NEW col \in Columns
      PROVE  At(b, row, col) \in Ends /\ At(b, row, col) # NoEnd
  <2>1. PICK top \in Nat : top = view_top_abs(b, Height)
    BY <1>3, ViewIsANumber
  <2>2. At(b, row, col) = <<top + row, col>> /\ top + row \in Nat
    BY <2>1 DEF At
  <2> QED
    BY <2>2 DEF Ends, NoEnd
<1>7. ASSUME NEW chunk \in Chunks, TakeOutput(chunk) PROVE BufferInv'
  <2>1. chunk \in Seq(Items)
    BY BufferAssumption
  <2>2. PICK batches \in Seq(Seq(Items)) : batches = Batches(chunk, Len(grid.rows))
    BY <2>1, BatchesAreItems
  <2>3. ASSUME NEW acc \in Terminals, NEW i \in DOMAIN batches
        PROVE  ingest_chunk(acc, batches[i]) \in Terminals
    <3>1. PICK batch \in Seq(Items) : batch = batches[i]
      OBVIOUS
    <3> QED
      BY <3>1, IngestKeeps
  <2>4. Terminal \in Terminals
    BY DEF BufferInv
  <2>5. FoldLeft(ingest_chunk, Terminal, batches) \in Terminals
    BY <2>3, <2>4, IngestStays
  <2>6. PICK t \in Terminals : t = ingest(Terminal, chunk)
    <3>1. Terminal.grid = grid
      BY DEF Terminal
    <3> QED
      BY <2>2, <2>5, <3>1 DEF ingest
  <2>7. /\ grid' = [t.grid EXCEPT !.off = <<>>] /\ gone' = t.gone /\ overlooked' = t.overlooked
        /\ buf' = Refreshed(t.buf, t.grid)
    BY <1>7, <2>6 DEF TakeOutput, Terminal, Show
  <2>8. /\ t.grid \in Grids /\ t.buf \in Buffers /\ t.gone \in Seq(Nat) /\ t.overlooked \in SUBSET Reasons
        /\ Shown(t.grid, t.buf) /\ (t.buf.anchor = NoEnd <=> t.buf.focus = NoEnd)
    BY DEF Terminals
  <2>9. /\ buf' \in Buffers /\ Shown(t.grid, buf') /\ (buf'.anchor = NoEnd <=> buf'.focus = NoEnd)
    <3>1. t.grid.covered # <<>> => t.buf.offset = 0
      BY <2>8 DEF Shown
    <3> QED
      BY <2>7, <2>8, <3>1, ShownAgain
  <2>10. grid' \in Grids /\ grid'.rows = t.grid.rows /\ grid'.covered = t.grid.covered
    <3>1. <<>> \in Seq(Nat)
      OBVIOUS
    <3> QED
      BY <2>7, <2>8, <3>1 DEF Grids
  <2>11. Shown(grid', buf')
    BY <2>9, <2>10 DEF Shown
  <2> QED
    BY <1>2, <2>7, <2>8, <2>9, <2>10, <2>11
<1>8. ASSUME NEW h \in Heights, Resize(h) PROVE BufferInv'
  <2>1. h \in Nat \ {0}
    BY BufferAssumption
  <2>2. PICK scroll : scroll = IF h < Height /\ ~IsAlt THEN Max({0, grid.cursor - h}) ELSE 0
    OBVIOUS
  <2>3. scroll \in 0 .. Height
    <3>1. PICK x \in Int : x = grid.cursor - h
      BY <1>3, <2>1
    <3>2. Max({0, x}) = IF 0 >= x THEN 0 ELSE x
      BY MaxOfTwo
    <3> QED
      BY <3>1, <3>2, <2>1, <2>2, <1>3
  <2>4. PICK top : top = SubSeq(grid.rows, 1, scroll)
    OBVIOUS
  <2>5. top \in Seq(Nat)
    BY <2>3, <2>4, <1>3, FirstRows
  <2>6. PICK rest : rest = SubSeq(grid.rows, scroll + 1, Len(grid.rows))
    OBVIOUS
  <2>7. rest \in Seq(Nat)
    BY <2>3, <2>6, <1>3, LastRows
  <2>8. PICK lines \in Seq(Nat) : lines = Lines(scroll)
    BY <2>3, LinesAreBlank
  <2>9. PICK height : height = rest \o lines
    OBVIOUS
  <2>10. height \in Seq(Nat)
    BY <2>7, <2>9, OneBehindTheOther
  <2>11. PICK up : up = [grid EXCEPT !.rows = height]
    OBVIOUS
  <2>12. up \in [rows : Seq(Nat), cursor : Nat \ {0}, covered : Covering, texts : Nat, off : Seq(Nat)]
    BY <1>1, <2>10, <2>11 DEF Grids
  <2>13. up.covered = grid.covered
    BY <1>1, <2>11 DEF Grids
  <2>14. PICK size : size = SetSize(up, h)
    OBVIOUS
  <2>15. size \in Grids /\ Len(size.rows) = h /\ (size.covered # <<>> => grid.covered # <<>>)
    BY <2>1, <2>12, <2>13, <2>14, SetSizeKeeps
  <2>16. PICK history \in Seq(Nat) : history = push_history(buf.history, top)
    BY <1>4, <2>5, PushKeeps
  <2>17. PICK after \in Seq(Nat) : after = push_history(gone, top)
    BY <1>1, <2>5, PushKeeps
  <2>18. /\ grid' = size /\ gone' = after /\ overlooked' = overlooked
         /\ buf' = [buf EXCEPT !.history = history, !.live = size.rows, !.valid = FALSE]
    BY <1>8, <2>2, <2>4, <2>6, <2>8, <2>9, <2>11, <2>14, <2>16, <2>17 DEF Resize
  <2>19. size.rows \in Seq(Nat)
    BY <2>15 DEF Grids
  <2>20. /\ buf' \in Buffers /\ buf'.live = size.rows /\ buf'.offset = buf.offset
         /\ buf'.anchor = buf.anchor /\ buf'.focus = buf.focus
    BY <1>1, <2>18, <2>19 DEF Buffers
  <2>21. Shown(grid', buf')
    BY <1>1, <2>15, <2>18, <2>20 DEF Shown
  <2> QED
    BY <1>1, <1>2, <2>15, <2>18, <2>20, <2>21
<1>9. CASE Clear
  <2>1. Lines(Height) \in Seq(Nat) /\ Len(Lines(Height)) = Height
    BY <1>3, LinesAreBlank
  <2>2. <<>> \in Seq(Nat) /\ <<>> \in Covering /\ NoEnd \in Ends /\ 1 \in Nat \ {0} /\ Same \in Nat
    BY DEF Covering, Ends, Same
  <2>3. Fresh(Height) \in Grids
    BY <1>3, <2>1, <2>2 DEF Fresh, Grids
  <2>4. NewBuffer \in Buffers
    BY <2>2 DEF NewBuffer, Buffers
  <2>5. Shown(Fresh(Height), NewBuffer) /\ (NewBuffer.anchor = NoEnd <=> NewBuffer.focus = NoEnd)
    BY DEF Shown, NewBuffer, Fresh
  <2> QED
    BY <1>2, <1>9, <2>2, <2>3, <2>4, <2>5 DEF Clear
<1>10. ASSUME NEW offset \in 0 .. Len(buf.history), Scroll(offset) PROVE BufferInv'
  <2>1. PICK b : b = [buf EXCEPT !.offset = offset]
    OBVIOUS
  <2>2. offset \in Nat
    BY <1>4
  <2>3. b \in Buffers /\ b.anchor = buf.anchor /\ b.focus = buf.focus
    BY <1>1, <2>1, <2>2 DEF Buffers
  <2> QED
    BY <1>1, <1>5, <1>10, <2>1, <2>3 DEF Scroll, IsAlt
<1>11. ASSUME NEW e \in Touched, SelectStart(e[1], e[2]) \/ SelectUpdate(e[1], e[2]) PROVE BufferInv'
  <2>1. e[1] \in Nat /\ e[2] \in Columns
    BY BufferAssumption DEF Columns
  <2>2. Clamp(e[1]) \in Nat
    BY <2>1, <1>3 DEF Clamp
  <2>3. PICK at : at = At(buf, Clamp(e[1]), e[2])
    OBVIOUS
  <2>4. at \in Ends /\ at # NoEnd
    BY <1>1, <1>6, <2>1, <2>2, <2>3
  <2>5. grid.covered # <<>> => buf.offset = 0
    BY <1>1 DEF Shown
  <2>6. CASE SelectStart(e[1], e[2])
    <3>1. PICK b : b = [buf EXCEPT !.anchor = at, !.focus = at]
      OBVIOUS
    <3>2. b \in Buffers /\ b.anchor = at /\ b.focus = at /\ b.offset = buf.offset
      BY <1>1, <2>4, <3>1 DEF Buffers
    <3> QED
      BY <1>5, <2>3, <2>4, <2>5, <2>6, <3>1, <3>2 DEF SelectStart
  <2>7. CASE SelectUpdate(e[1], e[2])
    <3>1. PICK b : b = [buf EXCEPT !.focus = at]
      OBVIOUS
    <3>2. b \in Buffers /\ b.anchor = buf.anchor /\ b.focus = at /\ b.offset = buf.offset
      BY <1>1, <2>4, <3>1 DEF Buffers
    <3> QED
      BY <1>5, <2>3, <2>4, <2>5, <2>7, <3>1, <3>2 DEF SelectUpdate
  <2> QED
    BY <1>11, <2>6, <2>7
<1>12. CASE SelectEnd
  <2>1. grid.covered # <<>> => buf.offset = 0
    BY <1>1 DEF Shown
  <2>2. PICK b : b = [buf EXCEPT !.anchor = NoEnd, !.focus = NoEnd]
    OBVIOUS
  <2>3. b \in Buffers /\ b.anchor = NoEnd /\ b.focus = NoEnd /\ b.offset = buf.offset
    <3>1. NoEnd \in Ends
      BY DEF Ends
    <3> QED
      BY <1>1, <2>2, <3>1 DEF Buffers
  <2>4. Show(b, grid) \/ Show(buf, grid)
    BY <1>12, <2>2 DEF SelectEnd
  <2>5. UNCHANGED <<grid, gone, overlooked>>
    BY <1>12 DEF SelectEnd
  <2> QED
    BY <1>1, <1>5, <2>1, <2>3, <2>4, <2>5
<1>13. ASSUME NEW dir \in {-1, 1}, Autoscroll(dir) PROVE BufferInv'
  <2>1. PICK offset : offset = IF dir < 0 THEN Min({buf.offset + 2, Len(buf.history)})
                               ELSE Max({buf.offset - 2, 0})
    OBVIOUS
  <2>2. offset \in Nat
    <3>1. PICK x \in Int, y \in Int : x = buf.offset + 2 /\ y = buf.offset - 2
      BY <1>4
    <3>2. Min({x, Len(buf.history)}) = IF x <= Len(buf.history) THEN x ELSE Len(buf.history)
      BY <1>4, MinOfTwo
    <3>3. Max({y, 0}) = IF y >= 0 THEN y ELSE 0
      BY MaxOfTwo
    <3> QED
      BY <3>1, <3>2, <3>3, <2>1, <1>4
  <2>3. PICK moved : moved = [buf EXCEPT !.offset = offset]
    OBVIOUS
  <2>4. moved \in Buffers /\ moved.anchor = buf.anchor /\ moved.focus = buf.focus
    BY <1>1, <2>2, <2>3 DEF Buffers
  <2>5. ~IsAlt /\ buf.anchor # NoEnd /\ buf.focus # NoEnd
    BY <1>1, <1>13 DEF Autoscroll
  <2>6. buf.focus[2] \in Columns
    BY <1>4, <2>5 DEF Ends
  <2>7. PICK row \in Nat : row = IF dir < 0 THEN 0 ELSE Height - 1
    BY <1>3
  <2>8. PICK at : at = At(moved, row, buf.focus[2])
    OBVIOUS
  <2>9. at \in Ends /\ at # NoEnd
    BY <1>6, <2>4, <2>6, <2>8
  <2>10. PICK b : b = [moved EXCEPT !.focus = at]
    OBVIOUS
  <2>11. b \in Buffers /\ b.anchor = buf.anchor /\ b.focus = at
    BY <2>4, <2>9, <2>10 DEF Buffers
  <2>12. Show(b, grid) /\ UNCHANGED <<grid, gone, overlooked>>
    BY <1>13, <2>1, <2>3, <2>7, <2>8, <2>10 DEF Autoscroll
  <2> QED
    BY <1>5, <2>5, <2>9, <2>11, <2>12 DEF IsAlt
<1>14. CASE UNCHANGED bufferVars
  BY <1>1, <1>2, <1>14 DEF bufferVars
<1> QED
  BY <1>7, <1>8, <1>9, <1>10, <1>11, <1>12, <1>13, <1>14 DEF BufferNext

(* Whatever is written, scrolled, resized and selected, what is highlighted *)
(* in the window is what a copy takes, as long as both ends are in view     *)
(* and on rows that are used and hold no wide character.                    *)
THEOREM WhatIsMarkedIsCopied ==
  BufferSpec => []MarkedIsCopied
<1>1. BufferInit => BufferInv
  BY BufferInvInit
<1>2. BufferInv /\ [BufferNext]_bufferVars => BufferInv'
  BY BufferInvNext
<1>3. BufferInv => MarkedIsCopied
  BY MarkedIsCopiedThen
<1> QED
  BY <1>1, <1>2, <1>3, PTL DEF BufferSpec

(***************************************************************************)
(* The terminal: the history is what scrolled off.  What the comparison of *)
(* two screens rests on: a row is written where the cursor is, with a text *)
(* that was nowhere before, and the cursor goes down.                      *)
(***************************************************************************)
MainRows(s)   == IF s.covered = <<>> THEN s.rows ELSE s.covered[1].rows
MainCursor(s) == IF s.covered = <<>> THEN s.cursor ELSE s.covered[1].cursor

(* What a line feed does to the screen, ... *)
LEMMA NewlineIs ==
  ASSUME NEW s \in Grids, NEW n, n = Newline(s)
  PROVE  /\ n \in Grids /\ n.covered = s.covered /\ n.texts = s.texts /\ Len(n.rows) = Len(s.rows)
         /\ \/ /\ s.cursor < Len(s.rows) /\ n.cursor = s.cursor + 1
               /\ n.rows = s.rows /\ n.off = s.off
            \/ /\ s.cursor = Len(s.rows) /\ n.cursor = s.cursor
               /\ \A i \in 1 .. (Len(s.rows) - 1) : n.rows[i] = s.rows[i + 1]
               /\ n.rows[Len(s.rows)] = BlankRow
               /\ n.off = IF s.covered = <<>> THEN Append(s.off, s.rows[1]) ELSE s.off
<1>1. /\ s.rows \in Seq(Nat) /\ s.cursor \in Nat \ {0} /\ s.cursor <= Len(s.rows)
      /\ s.off \in Seq(Nat) /\ s.texts \in Nat /\ Len(s.rows) \in Nat
  BY DEF Grids
<1>2. n \in Grids
  BY NewlineKeeps
<1>3. CASE s.cursor < Len(s.rows)
  <2>1. n = [s EXCEPT !.cursor = s.cursor + 1]
    BY <1>3 DEF Newline
  <2>2. /\ n.covered = s.covered /\ n.texts = s.texts /\ n.rows = s.rows /\ n.off = s.off
        /\ n.cursor = s.cursor + 1
    BY <2>1 DEF Grids
  <2> QED
    BY <1>2, <1>3, <2>2
<1>4. CASE ~(s.cursor < Len(s.rows))
  <2>1. PICK screen : screen = Append(Tail(s.rows), BlankRow)
    OBVIOUS
  <2>2. PICK off : off = IF s.covered = <<>> THEN Append(s.off, s.rows[1]) ELSE s.off
    OBVIOUS
  <2>3. n = [s EXCEPT !.rows = screen, !.off = off]
    BY <1>4, <2>1, <2>2 DEF Newline
  <2>4. /\ n.covered = s.covered /\ n.texts = s.texts /\ n.rows = screen /\ n.off = off
        /\ n.cursor = s.cursor
    BY <2>3 DEF Grids
  <2>5. s.rows # <<>> /\ BlankRow \in Nat
    BY <1>1 DEF BlankRow
  <2>6. PICK tail : tail = Tail(s.rows)
    OBVIOUS
  <2>7. tail \in Seq(Nat) /\ Len(tail) = Len(s.rows) - 1 /\ \A i \in 1 .. (Len(s.rows) - 1) : tail[i] = s.rows[i + 1]
    BY <1>1, <2>5, <2>6
  <2>8. /\ Len(screen) = Len(s.rows) /\ screen[Len(s.rows)] = BlankRow
        /\ \A i \in 1 .. (Len(s.rows) - 1) : screen[i] = s.rows[i + 1]
    BY <1>1, <2>1, <2>5, <2>6, <2>7
  <2>9. s.cursor = Len(s.rows)
    BY <1>1, <1>4
  <2> QED
    BY <1>2, <2>2, <2>4, <2>8, <2>9
<1> QED
  BY <1>3, <1>4

(* ... and a text that is written where the cursor is. *)
RowWritten(s, w) == [s EXCEPT !.rows[s.cursor] = w, !.texts = @ + 1]

LEMMA WriteIs ==
  ASSUME NEW s \in Grids, NEW w \in Nat, NEW n, n = RowWritten(s, w)
  PROVE  /\ n \in Grids /\ n.covered = s.covered /\ n.texts = s.texts + 1 /\ n.off = s.off
         /\ n.cursor = s.cursor /\ Len(n.rows) = Len(s.rows)
         /\ n.rows[s.cursor] = w /\ \A i \in (1 .. Len(s.rows)) \ {s.cursor} : n.rows[i] = s.rows[i]
<1>1. /\ s.rows \in Seq(Nat) /\ s.cursor \in Nat \ {0} /\ s.cursor <= Len(s.rows)
      /\ s.texts \in Nat /\ Len(s.rows) \in Nat
  BY DEF Grids
<1>2. PICK screen : screen = [s.rows EXCEPT ![s.cursor] = w]
  OBVIOUS
<1>3. n = [s EXCEPT !.rows = screen, !.texts = s.texts + 1]
  BY <1>2 DEF RowWritten
<1>4. screen \in Seq(Nat) /\ Len(screen) = Len(s.rows)
  BY <1>1, <1>2
<1>5. screen[s.cursor] = w /\ \A i \in (1 .. Len(s.rows)) \ {s.cursor} : screen[i] = s.rows[i]
  BY <1>1, <1>2
<1>6. /\ n.rows = screen /\ n.covered = s.covered /\ n.texts = s.texts + 1 /\ n.off = s.off
      /\ n.cursor = s.cursor
  BY <1>3 DEF Grids
<1>7. s.texts + 1 \in Nat
  BY <1>1
<1>8. n \in Grids
  BY <1>1, <1>3, <1>4, <1>7 DEF Grids
<1> QED
  BY <1>4, <1>5, <1>6, <1>8

LEMMA WritesAre ==
  ASSUME NEW s \in Grids
  PROVE  /\ Write(s) = RowWritten(s, s.texts + 1) /\ WriteSame(s) = RowWritten(s, Same)
         /\ s.texts + 1 \in Nat /\ Same \in Nat
<1>1. s.texts \in Nat
  BY DEF Grids
<1> QED
  BY <1>1 DEF Write, WriteSame, RowWritten, Same

(* No text on a screen is newer than the last that was written, and what   *)
(* the alternate screen covers has as many rows.                           *)
NoneNewer(screen, n, texts) == \A i \in 1 .. n : screen[i] <= texts

KnownTexts(g) ==
  /\ Len(g.rows) >= 5 /\ g.texts >= Same /\ NoneNewer(g.rows, Len(g.rows), g.texts)
  /\ g.covered # <<>> =>
       Len(g.covered[1].rows) = Len(g.rows) /\ NoneNewer(g.covered[1].rows, Len(g.rows), g.texts)

Known == {g \in Grids : KnownTexts(g)}

(* The screen, unless a row has scrolled off: what is in a row of g is there *)
(* still, or a text that was written since, or one that is written often.  *)
StillThere(screen, g, same) ==
  \A i \in 1 .. Len(g.rows) : screen[i] = g.rows[i] \/ screen[i] > g.texts \/ screen[i] \in same

StillKnown(g, same) ==
  {s \in Known : /\ s.texts >= g.texts /\ Len(s.rows) = Len(g.rows)
                 /\ s.off = <<>> => StillThere(MainRows(s), g, same)}

LEMMA KnownIs ==
  ASSUME NEW s \in Known
  PROVE  /\ s \in Grids /\ s.texts \in Nat /\ s.rows \in Seq(Nat) /\ Len(s.rows) \in Nat
         /\ s.off \in Seq(Nat) /\ s.cursor \in 1 .. Len(s.rows)
         /\ Len(s.rows) >= 5 /\ s.texts >= Same /\ NoneNewer(s.rows, Len(s.rows), s.texts)
         /\ s.covered # <<>> => \E c \in Covers : s.covered = <<c>>
         /\ \A i \in 1 .. Len(s.rows) : s.rows[i] \in Nat
<1>1. s \in Grids /\ KnownTexts(s)
  BY DEF Known
<1>2. /\ s.texts \in Nat /\ s.rows \in Seq(Nat) /\ Len(s.rows) \in Nat /\ s.covered \in Covering
      /\ s.off \in Seq(Nat) /\ s.cursor \in 1 .. Len(s.rows)
  BY <1>1 DEF Grids
<1>3. s.covered # <<>> => \E c \in Covers : s.covered = <<c>>
  BY <1>2 DEF Covering
<1>4. Len(s.rows) >= 5 /\ s.texts >= Same /\ NoneNewer(s.rows, Len(s.rows), s.texts)
  BY <1>1 DEF KnownTexts
<1>5. \A i \in 1 .. Len(s.rows) : s.rows[i] \in Nat
  BY <1>2
<1> QED
  BY <1>1, <1>2, <1>3, <1>4, <1>5

(* What is covered is still known when more was written. *)
LEMMA CoveredKnown ==
  ASSUME NEW s \in Known, NEW n \in Grids, n.covered = s.covered, Len(n.rows) = Len(s.rows),
         n.texts >= s.texts, NoneNewer(n.rows, Len(n.rows), n.texts)
  PROVE  n \in Known
<1>1. /\ s \in Grids /\ s.texts \in Nat /\ Len(s.rows) >= 5 /\ s.texts >= Same
      /\ s.covered # <<>> => \E c \in Covers : s.covered = <<c>>
  BY KnownIs
<1>2. n.texts \in Nat
  BY DEF Grids
<1>3. n.texts >= Same
  BY <1>1, <1>2 DEF Same
<1>4. ASSUME s.covered # <<>>
      PROVE  Len(s.covered[1].rows) = Len(s.rows) /\ NoneNewer(s.covered[1].rows, Len(s.rows), n.texts)
  <2>1. Len(s.covered[1].rows) = Len(s.rows) /\ NoneNewer(s.covered[1].rows, Len(s.rows), s.texts)
    BY <1>4 DEF Known, KnownTexts
  <2>2. PICK c \in Covers : s.covered = <<c>>
    BY <1>1, <1>4
  <2>3. PICK screen \in Seq(Nat) : screen = c.rows
    BY DEF Covers
  <2>4. s.covered[1].rows = screen
    BY <2>2, <2>3
  <2>5. \A i \in 1 .. Len(screen) : screen[i] \in Nat /\ screen[i] <= s.texts
    BY <2>1, <2>3, <2>4 DEF NoneNewer
  <2>6. NoneNewer(screen, Len(screen), n.texts)
    BY <1>1, <1>2, <2>5 DEF NoneNewer
  <2> QED
    BY <2>1, <2>4, <2>6
<1> QED
  BY <1>1, <1>3, <1>4 DEF Known, KnownTexts

LEMMA NewlineKnown ==
  ASSUME NEW g, g.texts \in Nat, NEW same, NEW s \in StillKnown(g, same)
  PROVE  Newline(s) \in StillKnown(g, same)
<1>0. /\ s \in Known /\ s.texts >= g.texts /\ Len(s.rows) = Len(g.rows)
      /\ s.off = <<>> => StillThere(MainRows(s), g, same)
  BY DEF StillKnown
<1>1. /\ s \in Grids /\ s.texts \in Nat /\ s.rows \in Seq(Nat) /\ Len(s.rows) \in Nat /\ Len(s.rows) >= 5
      /\ s.off \in Seq(Nat) /\ s.texts >= Same /\ NoneNewer(s.rows, Len(s.rows), s.texts)
  BY <1>0, KnownIs
<1>2. PICK n : n = Newline(s)
  OBVIOUS
<1>3. /\ n \in Grids /\ n.covered = s.covered /\ n.texts = s.texts /\ Len(n.rows) = Len(s.rows)
      /\ \/ /\ s.cursor < Len(s.rows) /\ n.cursor = s.cursor + 1
            /\ n.rows = s.rows /\ n.off = s.off
         \/ /\ s.cursor = Len(s.rows) /\ n.cursor = s.cursor
            /\ \A i \in 1 .. (Len(s.rows) - 1) : n.rows[i] = s.rows[i + 1]
            /\ n.rows[Len(s.rows)] = BlankRow
            /\ n.off = IF s.covered = <<>> THEN Append(s.off, s.rows[1]) ELSE s.off
  BY <1>1, <1>2, NewlineIs
<1>4. n \in Known
  <2>1. ASSUME NEW i \in 1 .. Len(n.rows) PROVE n.rows[i] <= n.texts
    <3>1. CASE n.rows = s.rows
      BY <1>1, <1>3, <3>1 DEF NoneNewer
    <3>2. CASE n.rows # s.rows /\ i = Len(s.rows)
      BY <1>1, <1>3, <3>2 DEF BlankRow
    <3>3. CASE n.rows # s.rows /\ i # Len(s.rows)
      <4>1. i \in 1 .. (Len(s.rows) - 1) /\ i + 1 \in 1 .. Len(s.rows)
        BY <1>1, <1>3, <3>3
      <4>2. n.rows[i] = s.rows[i + 1] /\ s.rows[i + 1] <= s.texts
        BY <1>1, <1>3, <3>3, <4>1 DEF NoneNewer
      <4> QED
        BY <4>2, <1>3
    <3> QED
      BY <3>1, <3>2, <3>3
  <2>2. NoneNewer(n.rows, Len(n.rows), n.texts)
    BY <2>1 DEF NoneNewer
  <2>3. n.texts >= s.texts
    BY <1>1, <1>3
  <2> QED
    BY <1>0, <1>3, <2>2, <2>3, CoveredKnown
<1>5. ASSUME n.off = <<>> PROVE s.off = <<>> /\ MainRows(n) = MainRows(s)
  <2>1. CASE n.rows = s.rows /\ n.off = s.off
    BY <1>3, <1>5, <2>1 DEF MainRows
  <2>2. CASE n.off = IF s.covered = <<>> THEN Append(s.off, s.rows[1]) ELSE s.off
    <3>1. Append(s.off, s.rows[1]) # <<>>
      <4>1. s.rows[1] \in Nat
        BY <1>1
      <4>2. PICK off : off = Append(s.off, s.rows[1])
        OBVIOUS
      <4>3. Len(off) = Len(s.off) + 1 /\ Len(s.off) \in Nat
        BY <1>1, <4>1, <4>2
      <4>4. off # <<>>
        BY <4>3
      <4> QED
        BY <4>2, <4>4
    <3>2. s.covered # <<>> /\ n.off = s.off
      BY <1>5, <2>2, <3>1
    <3> QED
      BY <1>3, <1>5, <3>2 DEF MainRows
  <2> QED
    BY <1>3, <2>1, <2>2
<1> QED
  BY <1>0, <1>2, <1>3, <1>4, <1>5 DEF StillKnown

LEMMA WriteKnown ==
  ASSUME NEW g, g.texts \in Nat, NEW same, NEW s \in StillKnown(g, same)
  PROVE  /\ Write(s) \in StillKnown(g, same)
         /\ Same \in same => WriteSame(s) \in StillKnown(g, same)
<1>0. /\ s \in Known /\ s.texts >= g.texts /\ Len(s.rows) = Len(g.rows)
      /\ s.off = <<>> => StillThere(MainRows(s), g, same)
  BY DEF StillKnown
<1>1. /\ s \in Grids /\ s.texts \in Nat /\ s.rows \in Seq(Nat) /\ Len(s.rows) \in Nat /\ Len(s.rows) >= 5
      /\ s.texts >= Same /\ NoneNewer(s.rows, Len(s.rows), s.texts) /\ s.cursor \in 1 .. Len(s.rows)
      /\ g.texts \in Nat /\ \A i \in 1 .. Len(s.rows) : s.rows[i] \in Nat
  BY <1>0, KnownIs
<1>2. ASSUME NEW w \in Nat, w <= s.texts + 1, w > g.texts \/ w \in same,
             NEW n, n = RowWritten(s, w)
      PROVE  n \in StillKnown(g, same)
  <2>1. /\ n \in Grids /\ n.covered = s.covered /\ n.texts = s.texts + 1 /\ n.off = s.off
        /\ n.cursor = s.cursor /\ Len(n.rows) = Len(s.rows)
        /\ n.rows[s.cursor] = w /\ \A i \in (1 .. Len(s.rows)) \ {s.cursor} : n.rows[i] = s.rows[i]
    BY <1>1, <1>2, WriteIs, SMTT(30)
  <2>2. \A i \in 1 .. Len(s.rows) : n.rows[i] = w \/ n.rows[i] = s.rows[i]
    BY <2>1
  <2>3. NoneNewer(n.rows, Len(n.rows), n.texts)
    <3>1. SUFFICES ASSUME NEW i \in 1 .. Len(s.rows) PROVE n.rows[i] <= s.texts + 1
      BY <2>1 DEF NoneNewer
    <3>2. s.rows[i] \in Nat /\ s.rows[i] <= s.texts
      BY <1>1 DEF NoneNewer
    <3>3. w <= s.texts + 1 /\ s.rows[i] <= s.texts + 1
      BY <1>1, <1>2, <3>2, SMTT(30)
    <3>4. n.rows[i] = w \/ n.rows[i] = s.rows[i]
      BY <2>2
    <3> QED
      BY <3>3, <3>4
  <2>4. n.texts >= s.texts
    BY <1>1, <2>1
  <2>5. n \in Known
    BY <1>0, <2>1, <2>3, <2>4, CoveredKnown
  <2>6. \A i \in 1 .. Len(g.rows) : MainRows(n)[i] = w \/ MainRows(n)[i] = MainRows(s)[i]
    BY <1>0, <2>1, <2>2 DEF MainRows
  <2>7. n.off = <<>> => StillThere(MainRows(n), g, same)
    BY <1>0, <1>2, <2>1, <2>6 DEF StillThere
  <2>8. n.texts >= g.texts /\ Len(n.rows) = Len(g.rows)
    BY <1>0, <1>1, <2>1
  <2> QED
    BY <2>5, <2>7, <2>8 DEF StillKnown
<1>3. s.texts + 1 \in Nat /\ s.texts + 1 <= s.texts + 1 /\ s.texts + 1 > g.texts
  BY <1>0, <1>1
<1>4. Write(s) \in StillKnown(g, same)
  <2>1. Write(s) = RowWritten(s, s.texts + 1)
    BY <1>1, WritesAre
  <2> QED
    BY <1>2, <1>3, <2>1
<1>5. ASSUME Same \in same PROVE WriteSame(s) \in StillKnown(g, same)
  <2>1. Same <= s.texts + 1 /\ Same \in Nat
    BY <1>1 DEF Same
  <2>2. WriteSame(s) = RowWritten(s, Same)
    BY <1>1, WritesAre
  <2> QED
    BY <1>2, <1>5, <2>1, <2>2
<1> QED
  BY <1>4, <1>5

(* Every item of output keeps them, unless the screen is erased.           *)
LEMMA ItemKept ==
  ASSUME NEW g, g.texts \in Nat, NEW same, NEW s \in StillKnown(g, same), NEW item \in Items,
         item # "erase", item = "same" => Same \in same
  PROVE  Process(s, item) \in StillKnown(g, same)
<1>1. /\ s \in Known /\ s.texts >= g.texts /\ Len(s.rows) = Len(g.rows)
      /\ s.off = <<>> => StillThere(MainRows(s), g, same)
  BY DEF StillKnown
<1>2. /\ s \in Grids /\ s.texts \in Nat /\ s.rows \in Seq(Nat) /\ Len(s.rows) \in Nat /\ Len(s.rows) >= 5
      /\ s.off \in Seq(Nat) /\ s.texts >= Same /\ NoneNewer(s.rows, Len(s.rows), s.texts)
      /\ s.covered # <<>> => \E c \in Covers : s.covered = <<c>>
  BY <1>1, KnownIs
<1>3. CASE item = "line" \/ item = "same" \/ item = "text"
  BY <1>3, NewlineKnown, WriteKnown DEF Process
<1>4. CASE item = "nl"
  <2>1. PICK n : n = [s EXCEPT !.texts = s.texts + 1]
    OBVIOUS
  <2>2. /\ n.rows = s.rows /\ n.covered = s.covered /\ n.off = s.off /\ n.texts = s.texts + 1
        /\ n \in Grids
    <3>1. s.texts + 1 \in Nat
      BY <1>2
    <3> QED
      BY <1>2, <2>1, <3>1 DEF Grids
  <2>3. NoneNewer(n.rows, Len(n.rows), n.texts)
    <3>1. SUFFICES ASSUME NEW i \in 1 .. Len(s.rows) PROVE s.rows[i] <= s.texts + 1
      BY <2>2 DEF NoneNewer
    <3>2. s.rows[i] \in Nat /\ s.rows[i] <= s.texts
      BY <1>2 DEF NoneNewer
    <3> QED
      BY <1>2, <3>2
  <2>4. n.texts >= s.texts /\ n.texts >= g.texts
    BY <1>1, <1>2, <2>2
  <2>5. n \in Known
    BY <1>1, <2>2, <2>3, <2>4, CoveredKnown
  <2>6. n \in StillKnown(g, same)
    BY <1>1, <2>2, <2>4, <2>5 DEF StillKnown, MainRows
  <2> QED
    BY <1>4, <2>1, <2>6, NewlineKnown DEF Process
<1>5. CASE item = "over"
  BY <1>5, NewlineKnown, WriteKnown DEF Process
<1>6. CASE item = "home"
  <2>1. PICK n : n = [s EXCEPT !.cursor = 1]
    OBVIOUS
  <2>2. n.rows = s.rows /\ n.covered = s.covered /\ n.off = s.off /\ n.texts = s.texts
    BY <1>2, <2>1 DEF Grids
  <2>3. n \in Grids /\ n = Process(s, item)
    BY <1>2, <1>6, <2>1, ProcessKeeps DEF Process
  <2>4. n.texts >= s.texts
    BY <1>2, <2>2
  <2>5. n \in Known
    BY <1>1, <1>2, <2>2, <2>3, <2>4, CoveredKnown
  <2> QED
    BY <1>1, <2>2, <2>3, <2>5 DEF StillKnown, MainRows
<1>7. CASE item = "altOn"
  <2>1. CASE s.covered # <<>>
    BY <1>7, <2>1 DEF Process
  <2>2. CASE s.covered = <<>>
    <3>1. PICK n : n = Process(s, item)
      OBVIOUS
    <3>2. n = [s EXCEPT !.covered = <<[rows |-> s.rows, cursor |-> s.cursor]>>,
                        !.rows = Lines(Len(s.rows)), !.cursor = 1]
      BY <1>7, <2>2, <3>1 DEF Process
    <3>3. PICK lines \in Seq(Nat) : lines = Lines(Len(s.rows)) /\ Len(lines) = Len(s.rows)
      BY <1>2, LinesAreBlank
    <3>4. /\ n.covered = <<[rows |-> s.rows, cursor |-> s.cursor]>> /\ n.rows = lines
          /\ n.texts = s.texts /\ n.off = s.off
      BY <1>2, <3>2, <3>3 DEF Grids
    <3>5. n \in Grids
      BY <1>2, <3>1, ProcessKeeps
    <3>6. NoneNewer(lines, Len(s.rows), s.texts)
      <4>1. \A i \in 1 .. Len(s.rows) : lines[i] = BlankRow
        BY <1>2, <3>3 DEF Lines
      <4> QED
        BY <1>2, <4>1 DEF NoneNewer, BlankRow, Same
    <3>7. n.covered # <<>> /\ n.covered[1].rows = s.rows
      BY <3>4
    <3>8. n \in Known
      BY <1>2, <3>3, <3>4, <3>5, <3>6, <3>7 DEF Known, KnownTexts
    <3>9. MainRows(n) = MainRows(s)
      BY <2>2, <3>7 DEF MainRows
    <3> QED
      BY <1>1, <3>1, <3>3, <3>4, <3>8, <3>9 DEF StillKnown
  <2> QED
    BY <2>1, <2>2
<1>8. CASE item = "altOff"
  <2>1. CASE s.covered = <<>>
    BY <1>8, <2>1 DEF Process
  <2>2. CASE s.covered # <<>>
    <3>1. PICK c \in Covers : s.covered = <<c>>
      BY <1>2, <2>2
    <3>2. PICK n : n = Process(s, item)
      OBVIOUS
    <3>3. n = [s EXCEPT !.covered = <<>>, !.rows = c.rows, !.cursor = c.cursor]
      BY <1>8, <2>2, <3>1, <3>2 DEF Process
    <3>4. n.covered = <<>> /\ n.rows = c.rows /\ n.texts = s.texts /\ n.off = s.off
      BY <1>2, <3>3 DEF Grids
    <3>5. n \in Grids
      BY <1>2, <3>2, ProcessKeeps
    <3>6. Len(c.rows) = Len(s.rows) /\ NoneNewer(c.rows, Len(s.rows), s.texts)
      <4>1. KnownTexts(s)
        BY <1>1 DEF Known
      <4>2. s.covered[1].rows = c.rows
        BY <3>1
      <4> QED
        BY <2>2, <4>1, <4>2 DEF KnownTexts
    <3>7. n \in Known
      BY <1>2, <3>4, <3>5, <3>6 DEF Known, KnownTexts
    <3>8. MainRows(n) = MainRows(s)
      BY <2>2, <3>1, <3>4 DEF MainRows
    <3> QED
      BY <1>1, <3>2, <3>4, <3>6, <3>7, <3>8 DEF StillKnown
  <2> QED
    BY <2>1, <2>2
<1> QED
  BY <1>3, <1>4, <1>5, <1>6, <1>7, <1>8 DEF Items

(* What is known of the texts, in any case.                                *)
LEMMA ItemKnown ==
  ASSUME NEW s \in Known, NEW item \in Items
  PROVE  Process(s, item) \in Known /\ Len(Process(s, item).rows) = Len(s.rows)
<1>1. /\ s \in Grids /\ s.texts \in Nat /\ s.rows \in Seq(Nat) /\ Len(s.rows) \in Nat /\ Len(s.rows) >= 5
      /\ s.texts >= Same
  BY KnownIs
<1>2. CASE item # "erase"
  <2>1. PICK g : g = [rows |-> MainRows(s), texts |-> s.texts]
    OBVIOUS
  <2>2. g.texts = s.texts /\ g.rows = MainRows(s)
    BY <2>1
  <2>3. Len(MainRows(s)) = Len(s.rows)
    BY DEF MainRows, Known, KnownTexts
  <2>4. StillThere(MainRows(s), g, {Same})
    BY <2>2 DEF StillThere
  <2>5. s \in StillKnown(g, {Same})
    BY <1>1, <2>2, <2>3, <2>4 DEF StillKnown
  <2>6. Process(s, item) \in StillKnown(g, {Same})
    BY <1>1, <1>2, <2>2, <2>5, ItemKept
  <2> QED
    BY <2>2, <2>3, <2>6 DEF StillKnown
<1>3. CASE item = "erase"
  <2>1. PICK n : n = Process(s, item)
    OBVIOUS
  <2>2. n \in Grids
    BY <1>1, <2>1, ProcessKeeps
  <2>3. PICK lines \in Seq(Nat) : lines = Lines(Len(s.rows)) /\ Len(lines) = Len(s.rows)
    BY <1>1, LinesAreBlank
  <2>4. n = [s EXCEPT !.rows = lines]
    BY <1>3, <2>1, <2>3 DEF Process
  <2>5. n.rows = lines /\ n.covered = s.covered /\ n.texts = s.texts
    BY <1>1, <2>4 DEF Grids
  <2>6. NoneNewer(lines, Len(lines), s.texts)
    <3>1. \A i \in 1 .. Len(s.rows) : lines[i] = BlankRow
      BY <1>1, <2>3 DEF Lines
    <3> QED
      BY <1>1, <2>3, <3>1 DEF NoneNewer, BlankRow, Same
  <2>7. n.texts >= s.texts
    BY <1>1, <2>5
  <2> QED
    BY <2>1, <2>2, <2>3, <2>5, <2>6, <2>7, CoveredKnown
<1> QED
  BY <1>2, <1>3

LEMMA BatchKnown ==
  ASSUME NEW s \in Known, NEW batch \in Seq(Items)
  PROVE  FoldLeft(Process, s, batch) \in Known /\ Len(FoldLeft(Process, s, batch).rows) = Len(s.rows)
<1>1. PICK A : A = {n \in Known : Len(n.rows) = Len(s.rows)}
  OBVIOUS
<1>2. s \in A
  BY <1>1
<1>3. \A acc \in A, i \in DOMAIN batch : Process(acc, batch[i]) \in A
  BY <1>1, ItemKnown
<1>4. FoldLeft(Process, s, batch) \in A
  BY <1>2, <1>3, ProcessStays
<1> QED
  BY <1>1, <1>4

(***************************************************************************)
(* How the two screens are compared.                                       *)
(***************************************************************************)
(* The rows that fit, for one shift: they do fit, and no more do.          *)
LEMMA MatchedIs ==
  ASSUME NEW prev \in Seq(Nat), NEW curr \in Seq(Nat), Len(curr) = Len(prev), NEW k \in 0 .. Len(prev)
  PROVE  /\ Matched(prev, curr, k) \in 0 .. (Len(prev) - k)
         /\ \A i \in 1 .. Matched(prev, curr, k) : prev[k + i] = curr[i]
         /\ \A n \in 0 .. (Len(prev) - k) :
              (\A i \in 1 .. n : prev[k + i] = curr[i]) => n <= Matched(prev, curr, k)
<1>0. Len(prev) \in Nat
  OBVIOUS
<1>1. PICK d \in Nat : d = Len(prev) - k
  BY <1>0, SMTT(30)
<1>2. PICK ms : ms = {n \in 0 .. (Len(prev) - k) :
                        n <= Len(curr) /\ \A i \in 1 .. n : prev[k + i] = curr[i]}
  OBVIOUS
<1>3. ms \in SUBSET (0 .. d) /\ 0 \in ms
  BY <1>0, <1>1, <1>2
<1>4. Max(ms) \in ms /\ \A n \in ms : Max(ms) >= n
  BY <1>3, MaxFromZero
<1>5. PICK m : m = Matched(prev, curr, k) /\ m = Max(ms)
  BY <1>2 DEF Matched
<1>6. m \in ms /\ \A n \in ms : n <= m
  BY <1>3, <1>4, <1>5
<1>7. ASSUME NEW n \in 0 .. (Len(prev) - k), \A i \in 1 .. n : prev[k + i] = curr[i] PROVE n <= m
  <2>1. n <= Len(curr)
    BY <1>0
  <2>2. n \in ms
    BY <1>2, <1>7, <2>1
  <2> QED
    BY <1>6, <2>2
<1> QED
  BY <1>2, <1>5, <1>6, <1>7

(* The first of the shifts that fit best is the one taken, ...             *)
LEMMA BestShift ==
  ASSUME NEW prev \in Seq(Nat), NEW curr \in Seq(Nat), Len(curr) = Len(prev), NEW k \in Nat, k < Len(prev),
         \A j \in 0 .. (Len(prev) - 1) : Matched(prev, curr, j) <= Matched(prev, curr, k),
         \A j \in 0 .. (Len(prev) - 1) : j < k => Matched(prev, curr, j) < Matched(prev, curr, k)
  PROVE  detect_scroll(prev, curr) = k
<1>0. Len(prev) \in Nat /\ prev # <<>> /\ Len(prev) > 0 /\ Len(prev) - 1 \in Nat
  OBVIOUS
<1>1. PICK n \in Nat : n = Len(prev) - 1
  BY <1>0
<1>2. \A j \in 0 .. n : Matched(prev, curr, j) \in Int
  <2>1. SUFFICES ASSUME NEW j \in 0 .. n PROVE Matched(prev, curr, j) \in Int
    OBVIOUS
  <2>2. j \in 0 .. Len(prev)
    BY <1>0, <1>1
  <2>3. Matched(prev, curr, j) \in 0 .. (Len(prev) - j)
    BY <2>2, MatchedIs
  <2> QED
    BY <2>3
<1>3. PICK best : best = {i \in 0 .. n : \A j \in 0 .. n : Matched(prev, curr, j) <= Matched(prev, curr, i)}
  OBVIOUS
<1>4. k \in best
  BY <1>1, <1>3
<1>5. best \in SUBSET (0 .. n)
  BY <1>3
<1>6. Min(best) \in best /\ Min(best) <= k
  BY <1>4, <1>5, MinFromZero
<1>7. Min(best) = k
  <2>1. PICK i \in best : i = Min(best)
    BY <1>6
  <2>2. i \in 0 .. n /\ Matched(prev, curr, k) <= Matched(prev, curr, i)
    BY <1>1, <1>3
  <2>3. i < k => Matched(prev, curr, i) < Matched(prev, curr, k)
    BY <1>1, <2>2
  <2>4. Matched(prev, curr, i) \in Int /\ Matched(prev, curr, k) \in Int
    BY <1>1, <1>2, <2>2
  <2> QED
    BY <1>6, <2>1, <2>2, <2>3, <2>4
<1>8. detect_scroll(prev, curr) = Min(best)
  BY <1>0, <1>1, <1>3 DEF detect_scroll
<1> QED
  BY <1>7, <1>8

(* ... as it is when the first row of the screen was on the screen once.   *)
LEMMA ShiftIsFound ==
  ASSUME NEW prev \in Seq(Nat), NEW curr \in Seq(Nat), Len(curr) = Len(prev), NEW k \in Nat, k < Len(prev),
         curr[1] = prev[k + 1], \A i \in 1 .. Len(prev) : i # k + 1 => prev[i] # prev[k + 1]
  PROVE  detect_scroll(prev, curr) = k
<1>0. Len(prev) \in Nat /\ k \in 0 .. Len(prev)
  OBVIOUS
<1>1. Matched(prev, curr, k) \in Int /\ Matched(prev, curr, k) >= 1
  <2>1. 1 \in 0 .. (Len(prev) - k)
    BY <1>0
  <2>2. \A i \in 1 .. 1 : prev[k + i] = curr[i]
    OBVIOUS
  <2>3. Matched(prev, curr, k) \in 0 .. (Len(prev) - k) /\ 1 <= Matched(prev, curr, k)
    BY <1>0, <2>1, <2>2, MatchedIs
  <2> QED
    BY <2>3
<1>2. ASSUME NEW j \in 0 .. (Len(prev) - 1), j # k PROVE Matched(prev, curr, j) = 0
  <2>1. j \in 0 .. Len(prev) /\ j + 1 \in 1 .. Len(prev)
    BY <1>0
  <2>2. PICK m : m = Matched(prev, curr, j)
    OBVIOUS
  <2>3. m \in 0 .. (Len(prev) - j) /\ \A i \in 1 .. m : prev[j + i] = curr[i]
    BY <2>1, <2>2, MatchedIs
  <2>4. prev[j + 1] # curr[1]
    BY <1>2, <2>1
  <2>5. ~(1 \in 1 .. m)
    BY <2>3, <2>4
  <2>6. m = 0
    BY <1>0, <2>3, <2>5
  <2> QED
    BY <2>2, <2>6
<1>3. ASSUME NEW j \in 0 .. (Len(prev) - 1)
      PROVE  /\ Matched(prev, curr, j) <= Matched(prev, curr, k)
             /\ j < k => Matched(prev, curr, j) < Matched(prev, curr, k)
  <2>1. CASE j = k
    BY <1>1, <2>1
  <2>2. CASE j # k
    BY <1>1, <1>2, <2>2, SMTT(30)
  <2> QED
    BY <2>1, <2>2
<1> QED
  BY <1>3, BestShift

(* When rows are as they were or have a text that was not there, nothing   *)
(* has moved.                                                              *)
LEMMA NoShift ==
  ASSUME NEW prev \in Seq(Nat), NEW curr \in Seq(Nat), Len(curr) = Len(prev), prev # <<>>,
         \A i \in 1 .. Len(prev) : curr[i] = prev[i] \/ \A j \in 1 .. Len(prev) : curr[i] # prev[j]
  PROVE  detect_scroll(prev, curr) = 0
<1>1. Len(prev) \in Nat /\ 0 < Len(prev)
  OBVIOUS
<1>2. PICK z, m : z \in 0 .. Len(prev) /\ z = 0 /\ m = Matched(prev, curr, z)
  BY <1>1
<1>3. /\ m \in 0 .. (Len(prev) - z) /\ \A i \in 1 .. m : prev[z + i] = curr[i]
      /\ \A n \in 0 .. (Len(prev) - z) : (\A i \in 1 .. n : prev[z + i] = curr[i]) => n <= m
  BY <1>2, MatchedIs
<1>4. ASSUME NEW j \in 0 .. (Len(prev) - 1) PROVE Matched(prev, curr, j) <= m
  <2>1. PICK x : x = Matched(prev, curr, j)
    OBVIOUS
  <2>2. j \in 0 .. Len(prev)
    BY <1>1
  <2>3. x \in 0 .. (Len(prev) - j) /\ \A i \in 1 .. x : prev[j + i] = curr[i]
    BY <2>1, <2>2, MatchedIs
  <2>4. SUFFICES ASSUME x > m PROVE FALSE
    BY <1>1, <1>3, <2>1, <2>3
  <2>41. PICK len \in Nat : len = Len(prev)
    BY <1>1
  <2>42. m \in Nat /\ x \in Nat /\ j \in Nat /\ m + 1 <= x /\ x <= len - j /\ z = 0
    BY <1>2, <1>3, <2>3, <2>4, <2>41
  <2>43. m + 1 <= len /\ j + (m + 1) <= len /\ len - z = len
    BY <2>42
  <2>5. m + 1 \in 1 .. Len(prev) /\ m + 1 \in 0 .. (Len(prev) - z) /\ m + 1 \in 1 .. x
        /\ j + (m + 1) \in 1 .. Len(prev)
    BY <2>41, <2>42, <2>43
  <2>6. ~(m + 1 <= m)
    BY <1>3
  <2>7. PICK i \in 1 .. (m + 1) : prev[z + i] # curr[i]
    BY <1>3, <2>5, <2>6
  <2>8. i = m + 1
    BY <1>3, <2>7
  <2>9. curr[m + 1] # prev[m + 1]
    BY <1>2, <1>3, <2>7, <2>8
  <2>10. curr[m + 1] = prev[j + (m + 1)]
    BY <2>3, <2>5
  <2> QED
    BY <2>5, <2>9, <2>10
<1> QED
  BY <1>1, <1>2, <1>4, BestShift

(***************************************************************************)
(* What scrolls off while the cursor only goes down: the first rows.       *)
(***************************************************************************)
(* As long as a row that was above the cursor is left, the rows above where *)
(* the cursor was are where they were, or higher by what scrolled off, and *)
(* nothing else did.  If no line wraps, the cursor has gone down or rows   *)
(* have scrolled off once for each of the n ends of lines.                 *)
AreHigher(screen, g, k) == \A i \in 1 .. Len(g.rows) : k + i < g.cursor => screen[i] = g.rows[k + i]

Wraps(batch) == \E i \in DOMAIN batch : batch[i] = "over"

Drifted(g, n, batch) ==
  {s \in Grids :
     /\ Len(MainRows(s)) = Len(g.rows) /\ MainCursor(s) \in g.cursor .. Len(g.rows)
     /\ Wraps(batch) \/ MainCursor(s) + Len(s.off) <= g.cursor + n
     /\ s.off # <<>> => MainCursor(s) = Len(g.rows)
     /\ Len(s.off) + 1 < g.cursor =>
          /\ \A i \in 1 .. Len(s.off) : s.off[i] = g.rows[i]
          /\ AreHigher(MainRows(s), g, Len(s.off))}

(* What the main screen is made of. *)
LEMMA MainIs ==
  ASSUME NEW s \in Grids
  PROVE  /\ MainRows(s) \in Seq(Nat) /\ Len(MainRows(s)) \in Nat /\ s.off \in Seq(Nat) /\ Len(s.off) \in Nat
         /\ s.covered = <<>> => MainRows(s) = s.rows /\ MainCursor(s) = s.cursor
<1>1. s.rows \in Seq(Nat) /\ s.off \in Seq(Nat) /\ s.covered \in Covering
  BY DEF Grids
<1>2. CASE s.covered = <<>>
  BY <1>1, <1>2 DEF MainRows, MainCursor
<1>3. CASE s.covered # <<>>
  <2>1. PICK c \in Covers : s.covered = <<c>>
    BY <1>1, <1>3 DEF Covering
  <2>2. c.rows \in Seq(Nat)
    BY DEF Covers
  <2>3. s.covered[1].rows = c.rows
    BY <2>1
  <2>4. MainRows(s) = c.rows
    BY <1>3, <2>3 DEF MainRows
  <2> QED
    BY <1>1, <1>3, <2>2, <2>4
<1> QED
  BY <1>2, <1>3

(* Nothing has happened to the main screen. *)
LEMMA SameMain ==
  ASSUME NEW g, NEW n, NEW batch, NEW s \in Drifted(g, n, batch), NEW t \in Grids, t.off = s.off,
         MainRows(t) = MainRows(s), MainCursor(t) = MainCursor(s)
  PROVE  t \in Drifted(g, n, batch)
  BY DEF Drifted

(* A text is written at the cursor, or on the alternate screen. *)
LEMMA WriteDrifts ==
  ASSUME NEW g \in Known, NEW n \in Nat, NEW batch, NEW s \in Drifted(g, n, batch), NEW w \in Nat
  PROVE  RowWritten(s, w) \in Drifted(g, n, batch)
<1>1. /\ s \in Grids /\ Len(MainRows(s)) = Len(g.rows) /\ MainCursor(s) \in g.cursor .. Len(g.rows)
      /\ Len(s.off) + 1 < g.cursor => AreHigher(MainRows(s), g, Len(s.off))
  BY DEF Drifted
<1>2. g.cursor \in Nat /\ Len(g.rows) \in Nat
  BY KnownIs
<1>3. PICK t : t = RowWritten(s, w)
  OBVIOUS
<1>4. /\ t \in Grids /\ t.covered = s.covered /\ t.off = s.off
      /\ t.cursor = s.cursor /\ Len(t.rows) = Len(s.rows)
      /\ \A i \in (1 .. Len(s.rows)) \ {s.cursor} : t.rows[i] = s.rows[i]
  BY <1>1, <1>3, WriteIs
<1>5. CASE s.covered # <<>>
  <2>1. MainRows(t) = MainRows(s) /\ MainCursor(t) = MainCursor(s)
    BY <1>4, <1>5 DEF MainRows, MainCursor
  <2> QED
    BY <1>3, <1>4, <2>1, SameMain
<1>6. CASE s.covered = <<>>
  <2>1. MainRows(s) = s.rows /\ MainCursor(s) = s.cursor /\ MainRows(t) = t.rows /\ MainCursor(t) = t.cursor
    BY <1>1, <1>4, <1>6, MainIs
  <2>2. ASSUME Len(s.off) + 1 < g.cursor PROVE AreHigher(t.rows, g, Len(s.off))
    <3>1. SUFFICES ASSUME NEW i \in 1 .. Len(g.rows), Len(s.off) + i < g.cursor
                   PROVE  t.rows[i] = g.rows[Len(s.off) + i]
      BY DEF AreHigher
    <3>2. s.rows[i] = g.rows[Len(s.off) + i]
      BY <1>1, <2>1, <2>2, <3>1 DEF AreHigher
    <3>3. Len(s.off) \in Nat
      BY <1>1, MainIs
    <3>4. i # s.cursor
      BY <1>1, <1>2, <2>1, <3>1, <3>3
    <3>5. t.rows[i] = s.rows[i]
      BY <1>1, <1>4, <2>1, <3>4
    <3> QED
      BY <3>2, <3>5
  <2>3. Len(t.rows) = Len(g.rows) /\ t.cursor \in g.cursor .. Len(g.rows)
    BY <1>1, <1>4, <2>1
  <2>4. /\ Wraps(batch) \/ t.cursor + Len(t.off) <= g.cursor + n
        /\ t.off # <<>> => t.cursor = Len(g.rows)
        /\ Len(t.off) + 1 < g.cursor => \A i \in 1 .. Len(t.off) : t.off[i] = g.rows[i]
    BY <1>4, <2>1 DEF Drifted
  <2> QED
    BY <1>3, <1>4, <2>1, <2>2, <2>3, <2>4 DEF Drifted
<1> QED
  BY <1>5, <1>6

(* A line feed: the cursor goes down, or all rows go up. *)
LEMMA NewlineDrifts ==
  ASSUME NEW g \in Known, NEW n \in Nat, NEW batch, NEW s \in Drifted(g, n, batch)
  PROVE  Newline(s) \in Drifted(g, n + 1, batch)
<1>1. /\ s \in Grids /\ Len(MainRows(s)) = Len(g.rows) /\ MainCursor(s) \in g.cursor .. Len(g.rows)
      /\ Wraps(batch) \/ MainCursor(s) + Len(s.off) <= g.cursor + n
      /\ s.off # <<>> => MainCursor(s) = Len(g.rows)
      /\ Len(s.off) + 1 < g.cursor => /\ \A i \in 1 .. Len(s.off) : s.off[i] = g.rows[i]
                                      /\ AreHigher(MainRows(s), g, Len(s.off))
  BY DEF Drifted
<1>2. PICK c \in Nat, len \in Nat, k \in Nat : c = g.cursor /\ len = Len(g.rows) /\ k = Len(s.off)
  <2>1. g.cursor \in Nat /\ Len(g.rows) \in Nat
    BY KnownIs
  <2> QED
    BY <1>1, <2>1, MainIs
<1>21. PICK m \in Nat : /\ m = MainCursor(s) /\ c <= m /\ m <= len /\ len >= 5
                        /\ Wraps(batch) \/ m + k <= c + n
  BY <1>1, <1>2, KnownIs
<1>3. PICK t : t = Newline(s)
  OBVIOUS
<1>4. /\ t \in Grids /\ t.covered = s.covered /\ Len(t.rows) = Len(s.rows)
      /\ \/ /\ s.cursor < Len(s.rows) /\ t.cursor = s.cursor + 1
            /\ t.rows = s.rows /\ t.off = s.off
         \/ /\ s.cursor = Len(s.rows) /\ t.cursor = s.cursor
            /\ \A i \in 1 .. (Len(s.rows) - 1) : t.rows[i] = s.rows[i + 1]
            /\ t.rows[Len(s.rows)] = BlankRow
            /\ t.off = IF s.covered = <<>> THEN Append(s.off, s.rows[1]) ELSE s.off
  BY <1>1, <1>3, NewlineIs
<1>5. CASE s.covered # <<>>
  <2>1. MainRows(t) = MainRows(s) /\ MainCursor(t) = MainCursor(s)
    BY <1>4, <1>5 DEF MainRows, MainCursor
  <2>2. t.off = s.off
    BY <1>4, <1>5
  <2>3. t \in Drifted(g, n, batch)
    BY <1>4, <2>1, <2>2, SameMain
  <2>4. Wraps(batch) \/ MainCursor(t) + Len(t.off) <= g.cursor + (n + 1)
    BY <1>2, <1>21, <2>1, <2>2
  <2> QED
    BY <1>3, <2>3, <2>4 DEF Drifted
<1>6. CASE s.covered = <<>>
  <2>1. MainRows(s) = s.rows /\ MainCursor(s) = s.cursor /\ MainRows(t) = t.rows /\ MainCursor(t) = t.cursor
    BY <1>1, <1>4, <1>6, MainIs
  <2>2. s.rows \in Seq(Nat) /\ Len(s.rows) = len /\ s.cursor \in Nat /\ s.off \in Seq(Nat)
    BY <1>1, <1>2, <2>1 DEF Grids
  <2>3. CASE s.cursor < Len(s.rows)
    <3>1. t.cursor = s.cursor + 1 /\ t.rows = s.rows /\ t.off = s.off
      BY <1>4, <2>2, <2>3
    <3>2. t.off = <<>>
      BY <1>1, <1>2, <2>1, <2>2, <2>3, <3>1
    <3>3. t.cursor \in g.cursor .. Len(g.rows) /\ (Wraps(batch) \/ t.cursor + Len(t.off) <= g.cursor + (n + 1))
      <4>1. s.cursor = m /\ m < len /\ t.cursor = m + 1 /\ Len(t.off) = k
        BY <1>2, <1>21, <2>1, <2>2, <2>3, <3>1
      <4>2. m + 1 \in c .. len /\ (Wraps(batch) \/ (m + 1) + k <= c + (n + 1))
        BY <1>21, <4>1
      <4> QED
        BY <1>2, <4>1, <4>2
    <3> QED
      BY <1>1, <1>3, <1>4, <2>1, <3>1, <3>2, <3>3 DEF Drifted
  <2>4. CASE ~(s.cursor < Len(s.rows))
    <3>1. /\ s.cursor = len /\ t.cursor = len /\ t.off = Append(s.off, s.rows[1])
          /\ \A i \in 1 .. (len - 1) : t.rows[i] = s.rows[i + 1]
      BY <1>4, <1>6, <2>2, <2>4
    <3>2. s.rows[1] \in Nat
      <4>1. 1 \in 1 .. Len(s.rows)
        BY <1>2, <1>21, <2>2
      <4> QED
        BY <2>2, <4>1
    <3>3. PICK off : off = t.off
      OBVIOUS
    <3>4. Len(off) = k + 1 /\ off[k + 1] = s.rows[1] /\ \A i \in 1 .. k : off[i] = s.off[i]
      BY <1>2, <2>2, <3>1, <3>2, <3>3
    <3>5. m = len
      BY <1>21, <2>1, <3>1
    <3>51. (k + 1) + 1 < c => k + 1 < c
      OBVIOUS
    <3>6. ASSUME (k + 1) + 1 < c PROVE s.rows[1] = g.rows[k + 1]
      <4>1. 1 \in 1 .. Len(g.rows)
        BY <1>2, <1>21
      <4> QED
        BY <1>1, <1>2, <2>1, <3>51, <3>6, <4>1 DEF AreHigher
    <3>7. ASSUME (k + 1) + 1 < c PROVE \A i \in 1 .. Len(off) : off[i] = g.rows[i]
      <4>1. SUFFICES ASSUME NEW i \in 1 .. (k + 1) PROVE off[i] = g.rows[i]
        BY <3>4
      <4>2. CASE i = k + 1
        BY <3>4, <3>6, <3>7, <4>2
      <4>3. CASE i \in 1 .. k
        BY <1>1, <1>2, <3>4, <3>51, <3>7, <4>3
      <4> QED
        BY <4>2, <4>3
    <3>8. ASSUME (k + 1) + 1 < c PROVE AreHigher(t.rows, g, k + 1)
      <4>1. SUFFICES ASSUME NEW i \in 1 .. Len(g.rows), (k + 1) + i < g.cursor
                     PROVE  t.rows[i] = g.rows[(k + 1) + i]
        BY DEF AreHigher
      <4>2. i \in 1 .. (len - 1) /\ i + 1 \in 1 .. Len(g.rows) /\ k + (i + 1) = (k + 1) + i
        <5>1. i \in Nat /\ i >= 1 /\ c <= len /\ (k + 1) + i < c
          BY <1>2, <1>21, <4>1
        <5>2. i <= len - 1 /\ i + 1 <= len /\ k + (i + 1) = (k + 1) + i
          BY <5>1
        <5>3. i \in 1 .. (len - 1) /\ i + 1 \in 1 .. len
          BY <5>1, <5>2
        <5> QED
          BY <1>2, <5>2, <5>3
      <4>3. s.rows[i + 1] = g.rows[k + (i + 1)]
        BY <1>1, <1>2, <2>1, <3>51, <3>8, <4>1, <4>2 DEF AreHigher
      <4> QED
        BY <3>1, <4>2, <4>3
    <3>9. t.cursor \in g.cursor .. Len(g.rows) /\ (Wraps(batch) \/ t.cursor + Len(t.off) <= g.cursor + (n + 1))
      <4>1. len \in c .. len /\ (Wraps(batch) \/ len + (k + 1) <= c + (n + 1))
        BY <1>21, <3>5
      <4>2. t.cursor = len /\ Len(t.off) = k + 1
        BY <3>1, <3>3, <3>4
      <4> QED
        BY <1>2, <4>1, <4>2
    <3>10. Len(t.rows) = Len(g.rows)
      BY <1>2, <1>4, <2>2
    <3> QED
      BY <1>2, <1>3, <1>4, <2>1, <3>1, <3>3, <3>4, <3>7, <3>8, <3>9, <3>10 DEF Drifted
  <2> QED
    BY <2>3, <2>4
<1> QED
  BY <1>5, <1>6

(* An item of a batch in which the cursor only goes down, and rows are not *)
(* erased.                                                                 *)
LEMMA ItemDrifts ==
  ASSUME NEW g \in Known, NEW n \in Nat, NEW batch, NEW s \in Drifted(g, n, batch),
         NEW item \in Items \ {"home", "erase"}, item = "over" => Wraps(batch)
  PROVE  Process(s, item) \in Drifted(g, n + (IF EndsLine(item) THEN 1 ELSE 0), batch)
<1>1. s \in Grids /\ s.rows \in Seq(Nat) /\ s.texts \in Nat /\ s.covered \in Covering
  BY DEF Drifted, Grids
<1>2. Write(s) \in Drifted(g, n, batch) /\ WriteSame(s) \in Drifted(g, n, batch)
  <2>1. /\ Write(s) = RowWritten(s, s.texts + 1) /\ WriteSame(s) = RowWritten(s, Same)
        /\ s.texts + 1 \in Nat /\ Same \in Nat
    BY <1>1, WritesAre
  <2> QED
    BY <2>1, WriteDrifts
<1>3. CASE item = "line" \/ item = "same"
  <2>1. EndsLine(item)
    BY <1>3 DEF EndsLine
  <2> QED
    BY <1>2, <1>3, <2>1, NewlineDrifts DEF Process
<1>4. CASE item = "nl"
  <2>1. EndsLine(item)
    BY <1>4 DEF EndsLine
  <2>2. PICK t : t = [s EXCEPT !.texts = s.texts + 1]
    OBVIOUS
  <2>3. s.texts + 1 \in Nat
    BY <1>1
  <2>4. t \in Grids /\ t.rows = s.rows /\ t.cursor = s.cursor /\ t.covered = s.covered /\ t.off = s.off
    BY <1>1, <2>2, <2>3 DEF Grids
  <2>5. MainRows(t) = MainRows(s) /\ MainCursor(t) = MainCursor(s)
    BY <2>4 DEF MainRows, MainCursor
  <2>6. t \in Drifted(g, n, batch)
    BY <2>4, <2>5, SameMain
  <2>7. Process(s, item) = Newline(t)
    BY <1>4, <2>2 DEF Process
  <2> QED
    BY <2>1, <2>6, <2>7, NewlineDrifts
<1>6. CASE item = "over"
  <2>1. ~EndsLine(item) /\ n + 0 = n /\ Wraps(batch)
    BY <1>6 DEF EndsLine
  <2>2. PICK t : t = Newline(Write(s))
    OBVIOUS
  <2>3. t \in Drifted(g, n + 1, batch)
    BY <1>2, <2>2, NewlineDrifts
  <2>4. t \in Drifted(g, n, batch)
    BY <2>1, <2>3 DEF Drifted
  <2>5. t \in Grids
    BY <2>4 DEF Drifted
  <2>6. Write(t) = RowWritten(t, t.texts + 1) /\ t.texts + 1 \in Nat
    BY <2>5, WritesAre
  <2>7. Write(t) \in Drifted(g, n, batch)
    BY <2>4, <2>6, WriteDrifts
  <2>8. Process(s, item) = Write(t)
    BY <1>6, <2>2 DEF Process
  <2> QED
    BY <2>1, <2>7, <2>8
<1>5. CASE item \in {"text", "altOn", "altOff"}
  <2>1. ~EndsLine(item)
    BY <1>5 DEF EndsLine
  <2>2. n + 0 = n
    OBVIOUS
  <2>3. Process(s, item) \in Drifted(g, n, batch)
    <3>1. CASE item = "text"
      BY <1>2, <3>1 DEF Process
    <3>2. PICK t : t = Process(s, item)
      OBVIOUS
    <3>3. t \in Grids
      BY <1>1, <3>2, ProcessKeeps
    <3>4. CASE item = "altOn" /\ s.covered = <<>>
      <4>1. t = [s EXCEPT !.covered = <<[rows |-> s.rows, cursor |-> s.cursor]>>,
                          !.rows = Lines(Len(s.rows)), !.cursor = 1]
        BY <3>2, <3>4 DEF Process
      <4>2. t.covered = <<[rows |-> s.rows, cursor |-> s.cursor]>> /\ t.off = s.off
        BY <1>1, <4>1 DEF Grids
      <4>3. t.covered # <<>> /\ t.covered[1].rows = s.rows /\ t.covered[1].cursor = s.cursor
        BY <4>2
      <4>4. MainRows(t) = MainRows(s) /\ MainCursor(t) = MainCursor(s)
        BY <3>4, <4>3 DEF MainRows, MainCursor
      <4> QED
        BY <3>2, <3>3, <4>2, <4>4, SameMain
    <3>5. CASE item = "altOff" /\ s.covered # <<>>
      <4>1. t = [s EXCEPT !.covered = <<>>, !.rows = s.covered[1].rows, !.cursor = s.covered[1].cursor]
        BY <3>2, <3>5 DEF Process
      <4>2. /\ t.covered = <<>> /\ t.off = s.off /\ t.rows = s.covered[1].rows
            /\ t.cursor = s.covered[1].cursor
        BY <1>1, <4>1 DEF Grids
      <4>3. MainRows(t) = MainRows(s) /\ MainCursor(t) = MainCursor(s)
        BY <3>5, <4>2 DEF MainRows, MainCursor
      <4> QED
        BY <3>2, <3>3, <4>2, <4>3, SameMain
    <3>6. CASE (item = "altOn" /\ s.covered # <<>>) \/ (item = "altOff" /\ s.covered = <<>>)
      BY <3>6 DEF Process
    <3> QED
      BY <1>5, <3>1, <3>4, <3>5, <3>6
  <2> QED
    BY <2>1, <2>2, <2>3
<1> QED
  BY <1>3, <1>4, <1>5, <1>6 DEF Items

(* A batch, from item to item.                                             *)
LEMMA ProcessGoesThrough ==
  ASSUME NEW s0, NEW R, NEW batch \in Seq(R), NEW A, NEW B, s0 \in A, s0 \in B[0],
         \A acc \in A, i \in DOMAIN batch : Process(acc, batch[i]) \in A,
         \A i \in DOMAIN batch, acc \in A : acc \in B[i - 1] => Process(acc, batch[i]) \in B[i]
  PROVE  FoldLeft(Process, s0, batch) \in B[Len(batch)]
<1>0. PICK n \in Nat : n = Len(batch) /\ DOMAIN batch = 1 .. n
  OBVIOUS
<1> DEFINE Folds(h) == h = [s \in SUBSET (DOMAIN batch) |->
                              IF s = {} THEN s0 ELSE Process(h[s \ {Max(s)}], batch[Max(s)])]
<1>1. PICK step : step = [x \in A \X (1 .. n) |-> Process(x[1], batch[x[2]])]
  OBVIOUS
<1>2. step \in [A \X (1 .. n) -> A]
  BY <1>0, <1>1
<1>3. PICK g \in [SUBSET (1 .. n) -> A] :
         \A s \in SUBSET (1 .. n) :
           g[s] = IF s = {} THEN s0 ELSE step[<<g[s \ {Max(s)}], Max(s)>>]
  <2>1. \E g \in [SUBSET (1 .. n) -> A] : IsFold(g, s0, n, step)
    BY <1>2, FoldExists
  <2> QED
    BY <2>1 DEF IsFold
<1>4. Folds(g)
  <2>1. ASSUME NEW s \in SUBSET (1 .. n), s # {}
        PROVE  g[s] = Process(g[s \ {Max(s)}], batch[Max(s)])
    <3>1. Max(s) \in 1 .. n
      BY <2>1, MaxIsLast
    <3> QED
      BY <3>1, <2>1, <1>3, <1>1
  <2>2. DOMAIN g = SUBSET (DOMAIN batch) /\ g[{}] = s0
    BY <1>0, <1>3
  <2> QED
    BY <2>1, <2>2, <1>0
<1>5. PICK h : h = CHOOSE f : Folds(f)
  OBVIOUS
<1>6. Folds(h)
  BY <1>4, <1>5
<1>7. FoldLeft(Process, s0, batch) = h[DOMAIN batch]
  BY <1>5 DEF FoldLeft, MapThenFoldSet
<1>8. PICK C : C = [s \in SUBSET (1 .. n) |-> {x \in A : \A k \in 0 .. n : s = 1 .. k => x \in B[k]}]
  OBVIOUS
<1>9. ASSUME NEW s \in SUBSET (1 .. n), s # {}, h[s \ {Max(s)}] \in C[s \ {Max(s)}]
      PROVE  h[s] \in C[s]
  <2>1. Max(s) \in s /\ (\A i \in s : Max(s) >= i) /\ Max(s) \in DOMAIN batch
    BY <1>9, <1>0, MaxIsLast
  <2>2. s \ {Max(s)} \in SUBSET (1 .. n)
    OBVIOUS
  <2>3. PICK acc \in A : acc = h[s \ {Max(s)}]
    BY <2>2, <1>8, <1>9
  <2>4. h[s] = Process(acc, batch[Max(s)])
    BY <1>0, <1>6, <1>9, <2>3
  <2>5. ASSUME NEW k \in 0 .. n, s = 1 .. k PROVE h[s] \in B[k]
    <3>1. k \in 1 .. n /\ Max(s) = k
      <4>1. k # 0
        BY <1>9, <2>5
      <4>2. k \in s
        BY <2>5, <4>1
      <4> QED
        BY <2>1, <2>5, <4>1, <4>2
    <3>2. s \ {Max(s)} = 1 .. (k - 1) /\ k - 1 \in 0 .. n
      BY <2>5, <3>1
    <3>3. acc \in B[k - 1]
      BY <1>8, <1>9, <2>2, <2>3, <3>2
    <3> QED
      BY <1>0, <2>4, <3>1, <3>3
  <2>6. h[s] \in A
    BY <2>1, <2>4
  <2> QED
    BY <1>8, <2>5, <2>6
<1>10. h[1 .. n] \in C[1 .. n]
  <2>1. h[{}] = s0
    BY <1>0, <1>6
  <2>2. ASSUME NEW k \in 0 .. n, {} = 1 .. k PROVE s0 \in B[k]
    <3>1. k # 0 => k \in 1 .. k
      OBVIOUS
    <3>2. k = 0
      BY <2>2, <3>1
    <3> QED
      BY <3>2
  <2>3. h[{}] \in C[{}]
    BY <1>8, <2>1, <2>2
  <2> QED
    BY <2>3, <1>9, FoldStays
<1>11. n \in 0 .. n
  OBVIOUS
<1> QED
  BY <1>0, <1>7, <1>8, <1>10, <1>11

(* A batch has at most BatchLines ends of lines: they are counted.         *)
Counting(batch, f) ==
  f[0] = 0 /\ \A i \in 1 .. Len(batch) : f[i] = f[i - 1] + (IF EndsLine(batch[i]) THEN 1 ELSE 0)

Counted(batch, lines) ==
  \E f \in [0 .. Len(batch) -> 0 .. lines] : Counting(batch, f) /\ f[Len(batch)] = lines

Halves(h) == {b \in Seq(Items) : \E lines \in 0 .. BatchLines(h) : Counted(b, lines)}

LEMMA HalfAScreen ==
  ASSUME NEW h \in Nat, h >= 5
  PROVE  BatchLines(h) \in Nat /\ BatchLines(h) >= 1 /\ BatchLines(h) + 2 < h
<1>1. PICK k : k = h \div 2
  OBVIOUS
<1>2. k \in Nat /\ k >= 1 /\ k + 2 < h
  BY <1>1
<1>3. BatchLines(h) = k
  BY <1>1, <1>2 DEF BatchLines
<1> QED
  BY <1>2, <1>3

LEMMA NothingCounted == Counted(<<>>, 0)
<1>1. PICK f : f = [i \in 0 .. 0 |-> 0]
  OBVIOUS
<1>2. Len(<<>>) = 0
  OBVIOUS
<1>3. f \in [0 .. Len(<<>>) -> 0 .. 0] /\ f[0] = 0 /\ f[Len(<<>>)] = 0
  BY <1>1, <1>2
<1>4. Counting(<<>>, f)
  BY <1>2, <1>3 DEF Counting
<1> QED
  BY <1>3, <1>4 DEF Counted

LEMMA OneMoreCounted ==
  ASSUME NEW batch \in Seq(Items), NEW item \in Items, NEW lines \in Nat, Counted(batch, lines),
         NEW more \in Nat, more = lines + (IF EndsLine(item) THEN 1 ELSE 0)
  PROVE  Counted(Append(batch, item), more)
<1>1. PICK f \in [0 .. Len(batch) -> 0 .. lines] : Counting(batch, f) /\ f[Len(batch)] = lines
  BY DEF Counted
<1>2. PICK n \in Nat : n = Len(batch)
  OBVIOUS
<1>3. PICK after : after = Append(batch, item)
  OBVIOUS
<1>4. /\ Len(after) = n + 1 /\ after[n + 1] = item
      /\ \A i \in 1 .. n : after[i] = batch[i]
  BY <1>2, <1>3
<1>5. PICK g : g = [i \in 0 .. (n + 1) |-> IF i = n + 1 THEN more ELSE f[i]]
  OBVIOUS
<1>6. \A i \in 0 .. n : f[i] \in 0 .. lines /\ g[i] = f[i]
  <2>1. SUFFICES ASSUME NEW i \in 0 .. n PROVE f[i] \in 0 .. lines /\ g[i] = f[i]
    OBVIOUS
  <2>2. i \in 0 .. (n + 1) /\ i # n + 1
    OBVIOUS
  <2>3. g[i] = f[i]
    BY <1>5, <2>2
  <2> QED
    BY <1>1, <1>2, <2>3
<1>7. g[n + 1] = more /\ lines <= more
  BY <1>5
<1>8. g \in [0 .. Len(after) -> 0 .. more]
  <2>1. ASSUME NEW i \in 0 .. (n + 1) PROVE g[i] \in 0 .. more
    <3>1. CASE i = n + 1
      BY <1>7, <3>1
    <3>2. CASE i # n + 1
      <4>1. i \in 0 .. n
        BY <3>2
      <4> QED
        BY <1>6, <1>7, <4>1
    <3> QED
      BY <3>1, <3>2
  <2> QED
    BY <1>4, <1>5, <2>1
<1>9. Counting(after, g)
  <2>1. ASSUME NEW i \in 1 .. (n + 1) PROVE g[i] = g[i - 1] + (IF EndsLine(after[i]) THEN 1 ELSE 0)
    <3>1. CASE i = n + 1
      <4>1. i - 1 = n /\ n \in 0 .. n
        BY <3>1
      <4>2. g[n] = lines
        BY <1>1, <1>2, <1>6, <4>1
      <4> QED
        BY <1>4, <1>7, <3>1, <4>1, <4>2
    <3>2. CASE i # n + 1
      <4>1. i \in 1 .. n /\ i \in 0 .. n /\ i - 1 \in 0 .. n
        BY <3>2
      <4>2. f[i] = f[i - 1] + (IF EndsLine(batch[i]) THEN 1 ELSE 0)
        BY <1>1, <1>2, <4>1 DEF Counting
      <4> QED
        BY <1>4, <1>6, <4>1, <4>2
    <3> QED
      BY <3>1, <3>2
  <2>2. g[0] = 0
    <3>1. 0 \in 0 .. n
      OBVIOUS
    <3> QED
      BY <1>1, <1>6, <3>1 DEF Counting
  <2> QED
    BY <1>4, <2>1, <2>2 DEF Counting
<1> QED
  BY <1>3, <1>4, <1>7, <1>8, <1>9 DEF Counted

LEMMA BatchesAreHalves ==
  ASSUME NEW chunk \in Seq(Items), NEW h \in Nat, h >= 5
  PROVE  Batches(chunk, h) \in Seq(Halves(h))
<1>0. BatchLines(h) \in Nat /\ BatchLines(h) >= 1
  BY HalfAScreen
<1>1. PICK A : A = {acc \in [done : Seq(Halves(h)), last : Seq(Items), lines : Nat] :
                      acc.lines < BatchLines(h) /\ Counted(acc.last, acc.lines)}
  OBVIOUS
<1>3. [done |-> <<>>, last |-> <<>>, lines |-> 0] \in A
  <2>1. <<>> \in Seq(Halves(h)) /\ <<>> \in Seq(Items)
    OBVIOUS
  <2> QED
    BY <1>0, <1>1, <2>1, NothingCounted
<1>4. ASSUME NEW acc \in A, NEW i \in DOMAIN chunk PROVE Batched(acc, chunk[i], h) \in A
  <2>0. acc.last \in Seq(Items) /\ chunk[i] \in Items /\ acc.done \in Seq(Halves(h))
    BY <1>1
  <2>1. PICK last \in Seq(Items) : last = Append(acc.last, chunk[i])
    <3>1. PICK last : last = Append(acc.last, chunk[i])
      OBVIOUS
    <3>2. last \in Seq(Items)
      BY <2>0, <3>1
    <3> QED
      BY <3>1, <3>2
  <2>2. PICK lines \in Nat : lines = acc.lines + (IF EndsLine(chunk[i]) THEN 1 ELSE 0)
    BY <1>1
  <2>3. Counted(last, lines)
    <3>1. acc.last \in Seq(Items) /\ chunk[i] \in Items /\ acc.lines \in Nat /\ Counted(acc.last, acc.lines)
      BY <1>1
    <3> QED
      BY <2>1, <2>2, <3>1, OneMoreCounted
  <2>4. lines <= BatchLines(h)
    BY <1>0, <1>1, <2>2
  <2>5. last \in Halves(h)
    <3>1. lines \in 0 .. BatchLines(h)
      BY <1>0, <2>4
    <3> QED
      BY <2>3, <3>1 DEF Halves
  <2>6. PICK done \in Seq(Halves(h)) : done = Append(acc.done, last)
    <3>1. PICK done : done = Append(acc.done, last)
      OBVIOUS
    <3>2. done \in Seq(Halves(h))
      BY <2>0, <2>5, <3>1
    <3> QED
      BY <3>1, <3>2
  <2>7. Batched(acc, chunk[i], h) = IF lines >= BatchLines(h) THEN [done |-> done, last |-> <<>>, lines |-> 0]
                                    ELSE [done |-> acc.done, last |-> last, lines |-> lines]
    BY <2>1, <2>2, <2>6 DEF Batched
  <2>8. CASE lines >= BatchLines(h)
    <3>1. <<>> \in Seq(Items)
      OBVIOUS
    <3>2. [done |-> done, last |-> <<>>, lines |-> 0] \in A
      BY <1>0, <1>1, <3>1, NothingCounted
    <3> QED
      BY <2>7, <2>8, <3>2
  <2>9. CASE ~(lines >= BatchLines(h))
    <3>1. acc.done \in Seq(Halves(h))
      BY <1>1
    <3>2. lines < BatchLines(h)
      BY <1>0, <2>9
    <3>3. [done |-> acc.done, last |-> last, lines |-> lines] \in A
      BY <1>1, <2>3, <3>1, <3>2
    <3> QED
      BY <2>7, <2>9, <3>3
  <2> QED
    BY <2>8, <2>9
<1>5. PICK cut : cut = Split(chunk, h)
  OBVIOUS
<1>6. cut \in A
  BY <1>3, <1>4, <1>5, BatchedStays
<1>7. Batches(chunk, h) = IF cut.last = <<>> THEN cut.done ELSE Append(cut.done, cut.last)
  BY <1>5 DEF Batches
<1>8. cut.done \in Seq(Halves(h)) /\ cut.last \in Seq(Items) /\ cut.lines \in 0 .. BatchLines(h)
      /\ Counted(cut.last, cut.lines)
  BY <1>0, <1>1, <1>6
<1>9. cut.last \in Halves(h)
  BY <1>8 DEF Halves
<1> QED
  BY <1>7, <1>8, <1>9

(* So what scrolls off in a batch is the first rows of the screen.         *)
LEMMA BatchDrifts ==
  ASSUME NEW g \in Known, g.covered = <<>>, g.off = <<>>, NEW batch \in Halves(Len(g.rows)),
         \A i \in DOMAIN batch : batch[i] \notin {"home", "erase"}
  PROVE  FoldLeft(Process, g, batch) \in Drifted(g, BatchLines(Len(g.rows)), batch)
<1>1. g \in Grids /\ Len(g.rows) \in Nat /\ Len(g.rows) >= 5 /\ g.cursor \in 1 .. Len(g.rows)
  BY KnownIs
<1>2. PICK most \in Nat : most = BatchLines(Len(g.rows)) /\ most + 2 < Len(g.rows)
  BY <1>1, HalfAScreen
<1>3. PICK lines \in 0 .. most : batch \in Seq(Items) /\ Counted(batch, lines)
  BY <1>2 DEF Halves
<1>4. PICK n \in Nat : n = Len(batch) /\ DOMAIN batch = 1 .. n
  BY <1>3
<1>5. PICK f \in [0 .. n -> 0 .. lines] : Counting(batch, f) /\ f[n] = lines
  BY <1>3, <1>4 DEF Counted
<1>6. PICK B : B = [i \in 0 .. n |-> Drifted(g, f[i], batch)]
  OBVIOUS
<1>7. g \in B[0]
  <2>1. MainRows(g) = g.rows /\ MainCursor(g) = g.cursor
    BY DEF MainRows, MainCursor
  <2>2. f[0] = 0 /\ Len(g.off) = 0 /\ g.cursor + 0 = g.cursor
    BY <1>1, <1>5 DEF Counting
  <2>3. AreHigher(g.rows, g, 0)
    BY <1>1 DEF AreHigher
  <2>4. g \in Drifted(g, 0, batch)
    BY <1>1, <2>1, <2>2, <2>3 DEF Drifted
  <2>5. 0 \in 0 .. n
    OBVIOUS
  <2> QED
    BY <1>6, <2>2, <2>4, <2>5
<1>8. ASSUME NEW i \in DOMAIN batch, NEW acc \in Grids, acc \in B[i - 1]
      PROVE  Process(acc, batch[i]) \in B[i]
  <2>1. i \in 0 .. n /\ i - 1 \in 0 .. n /\ i \in 1 .. n
    BY <1>4
  <2>2. acc \in Drifted(g, f[i - 1], batch)
    BY <1>6, <1>8, <2>1
  <2>3. f[i] = f[i - 1] + (IF EndsLine(batch[i]) THEN 1 ELSE 0)
    BY <1>4, <1>5, <2>1 DEF Counting
  <2>4. f[i - 1] \in Nat /\ f[i] \in Nat /\ f[i] <= most /\ f[i - 1] <= most
    BY <1>3, <1>5, <2>1
  <2>5. batch[i] \in Items \ {"home", "erase"}
    BY <1>3
  <2>6. batch[i] = "over" => Wraps(batch)
    BY DEF Wraps
  <2>7. Process(acc, batch[i]) \in Drifted(g, f[i], batch)
    BY <2>2, <2>3, <2>4, <2>5, <2>6, ItemDrifts
  <2> QED
    BY <1>6, <2>1, <2>7
<1>9. \A acc \in Grids, i \in DOMAIN batch : Process(acc, batch[i]) \in Grids
  BY <1>3, ProcessKeeps
<1>10. FoldLeft(Process, g, batch) \in B[n]
  BY <1>1, <1>3, <1>4, <1>7, <1>8, <1>9, ProcessGoesThrough
<1>11. PICK s : s = FoldLeft(Process, g, batch)
  OBVIOUS
<1>12. s \in Drifted(g, lines, batch)
  <2>1. n \in 0 .. n
    OBVIOUS
  <2> QED
    BY <1>5, <1>6, <1>10, <1>11, <2>1
<1>13. Wraps(batch) \/ MainCursor(s) + Len(s.off) <= g.cursor + most
  <2>1. /\ s \in Grids /\ MainCursor(s) \in g.cursor .. Len(g.rows)
        /\ Wraps(batch) \/ MainCursor(s) + Len(s.off) <= g.cursor + lines
    BY <1>12 DEF Drifted
  <2>2. Len(s.off) \in Nat
    BY <2>1, MainIs
  <2> QED
    BY <1>1, <2>1, <2>2
<1> QED
  BY <1>2, <1>11, <1>12, <1>13 DEF Drifted

(***************************************************************************)
(* What scrolled off in a batch is what the comparison finds, unless it is *)
(* of no use.                                                              *)
(***************************************************************************)
LEMMA ContainsIs ==
  ASSUME NEW R, NEW s \in Seq(R), NEW e
  PROVE  Contains(s, e) <=> \E i \in DOMAIN s : s[i] = e
  BY DEF Contains

\* No row has scrolled off.
LEMMA NothingIsFound ==
  ASSUME NEW g \in Known, g.covered = <<>>, NEW batch \in Seq(Items),
         \A i \in DOMAIN batch : batch[i] # "erase",
         \A i \in DOMAIN batch : batch[i] = "same" => ~Contains(g.rows, Same),
         NEW s, s = FoldLeft(Process, g, batch), s.covered = <<>>, s.off = <<>>
  PROVE  detect_scroll(g.rows, s.rows) = 0
<1>1. /\ g.texts \in Nat /\ g.rows \in Seq(Nat) /\ Len(g.rows) \in Nat /\ Len(g.rows) >= 5
      /\ NoneNewer(g.rows, Len(g.rows), g.texts) /\ \A i \in 1 .. Len(g.rows) : g.rows[i] \in Nat
  BY KnownIs
<1>2. PICK same : same = {v \in {Same} : ~Contains(g.rows, Same)}
  OBVIOUS
<1>3. \A acc \in StillKnown(g, same), i \in DOMAIN batch : Process(acc, batch[i]) \in StillKnown(g, same)
  <2>1. SUFFICES ASSUME NEW acc \in StillKnown(g, same), NEW i \in DOMAIN batch
                 PROVE  Process(acc, batch[i]) \in StillKnown(g, same)
    OBVIOUS
  <2>2. batch[i] \in Items /\ batch[i] # "erase" /\ (batch[i] = "same" => Same \in same)
    BY <1>2
  <2> QED
    BY <1>1, <2>2, ItemKept
<1>4. g \in StillKnown(g, same)
  <2>1. StillThere(MainRows(g), g, same)
    BY DEF MainRows, StillThere
  <2> QED
    BY <1>1, <2>1 DEF StillKnown
<1>5. s \in StillKnown(g, same)
  BY <1>3, <1>4, ProcessStays
<1>6. s \in Known /\ Len(s.rows) = Len(g.rows) /\ StillThere(s.rows, g, same)
  BY <1>5 DEF StillKnown, MainRows
<1>7. s.rows \in Seq(Nat) /\ \A i \in 1 .. Len(s.rows) : s.rows[i] \in Nat
  BY <1>6, KnownIs
<1>8. ASSUME NEW i \in 1 .. Len(g.rows)
      PROVE  s.rows[i] = g.rows[i] \/ \A j \in 1 .. Len(g.rows) : s.rows[i] # g.rows[j]
  <2>1. s.rows[i] = g.rows[i] \/ s.rows[i] > g.texts \/ s.rows[i] \in same
    BY <1>6 DEF StillThere
  <2>2. CASE s.rows[i] > g.texts
    <3>1. SUFFICES ASSUME NEW j \in 1 .. Len(g.rows) PROVE s.rows[i] # g.rows[j]
      OBVIOUS
    <3>2. g.rows[j] <= g.texts /\ g.rows[j] \in Nat
      BY <1>1 DEF NoneNewer
    <3>3. s.rows[i] \in Nat
      BY <1>6, <1>7
    <3> QED
      BY <1>1, <2>2, <3>2, <3>3
  <2>3. CASE s.rows[i] \in same
    <3>1. s.rows[i] = Same /\ ~Contains(g.rows, Same)
      BY <1>2, <2>3
    <3>2. DOMAIN g.rows = 1 .. Len(g.rows)
      BY <1>1
    <3>3. \A j \in 1 .. Len(g.rows) : g.rows[j] # Same
      BY <1>1, <3>1, <3>2, ContainsIs
    <3> QED
      BY <3>1, <3>3
  <2> QED
    BY <2>1, <2>2, <2>3
<1>9. g.rows # <<>>
  BY <1>1
<1> QED
  BY <1>1, <1>6, <1>7, <1>8, <1>9, NoShift

\* Rows have scrolled off, and the cursor only went down.
LEMMA ScrollIsFound ==
  ASSUME NEW g \in Known, g.covered = <<>>, g.off = <<>>, NEW batch \in Halves(Len(g.rows)),
         \A i \in DOMAIN batch : batch[i] \notin {"home", "erase"},
         ~Repeats(g.rows, g.cursor),
         NEW s, s = FoldLeft(Process, g, batch), s.covered = <<>>, s.off # <<>>,
         Wraps(batch) => Len(s.off) < g.cursor - 1
  PROVE  /\ detect_scroll(g.rows, s.rows) = Len(s.off) /\ Len(s.off) \in 1 .. Len(g.rows)
         /\ \A i \in 1 .. Len(s.off) : s.off[i] = g.rows[i]
<1>1. PICK h \in Nat, c \in Nat : h = Len(g.rows) /\ c = g.cursor /\ h >= 5 /\ c >= 1 /\ c <= h
  BY KnownIs
<1>2. g.rows \in Seq(Nat) /\ g.off \in Seq(Nat)
  BY KnownIs
<1>3. PICK most \in Nat : most = BatchLines(h) /\ most + 2 < h
  BY <1>1, HalfAScreen
<1>4. s \in Drifted(g, most, batch)
  BY <1>1, <1>3, BatchDrifts
<1>5. s \in Grids
  BY <1>4 DEF Drifted
<1>6. MainRows(s) = s.rows /\ MainCursor(s) = s.cursor /\ s.rows \in Seq(Nat) /\ s.off \in Seq(Nat)
  BY <1>5, MainIs
<1>7. PICK k \in Nat : k = Len(s.off)
  BY <1>6
<1>8. Len(s.rows) = h /\ s.cursor = h /\ (Wraps(batch) \/ s.cursor + k <= c + most)
  BY <1>1, <1>4, <1>6, <1>7 DEF Drifted
<1>9. k + 1 < c /\ k >= 1
  <2>1. k # 0
    BY <1>6, <1>7
  <2>2. CASE Wraps(batch)
    BY <1>1, <1>7, <2>1, <2>2
  <2>3. CASE ~Wraps(batch)
    BY <1>3, <1>8, <2>1, <2>3
  <2> QED
    BY <2>2, <2>3
<1>91. (\A i \in 1 .. k : s.off[i] = g.rows[i]) /\ AreHigher(s.rows, g, k)
  BY <1>1, <1>4, <1>6, <1>7, <1>9 DEF Drifted
<1>10. s.rows[1] = g.rows[k + 1]
  <2>1. 1 \in 1 .. Len(g.rows) /\ k + 1 < g.cursor
    BY <1>1, <1>9
  <2> QED
    BY <1>91, <2>1 DEF AreHigher
<1>11. \A i \in 1 .. Len(g.rows) : i # k + 1 => g.rows[i] # g.rows[k + 1]
  <2>1. SUFFICES ASSUME NEW i \in 1 .. Len(g.rows), i # k + 1, g.rows[i] = g.rows[k + 1] PROVE FALSE
    OBVIOUS
  <2>2. k + 1 \in 1 .. Len(g.rows) /\ k + 1 < g.cursor /\ DOMAIN g.rows = 1 .. Len(g.rows)
    BY <1>1, <1>2, <1>9
  <2>3. Repeats(g.rows, g.cursor)
    BY <2>1, <2>2 DEF Repeats
  <2> QED
    BY <2>3
<1>12. k < Len(g.rows)
  BY <1>1, <1>9
<1>13. detect_scroll(g.rows, s.rows) = k
  BY <1>1, <1>2, <1>6, <1>8, <1>10, <1>11, <1>12, ShiftIsFound, ZenonT(30)
<1> QED
  BY <1>1, <1>7, <1>91, <1>9, <1>12, <1>13

(* What the cap leaves, and what is not cut when it is not reached.        *)
LEMMA PushIs ==
  ASSUME NEW h \in Seq(Nat), NEW ls \in Seq(Nat)
  PROVE  /\ Len(push_history(h, ls)) <= MaxHistory
         /\ Len(h \o ls) <= MaxHistory => push_history(h, ls) = h \o ls
         /\ Len(push_history(h, ls)) < MaxHistory => push_history(h, ls) = h \o ls
<1>1. PICK all \in Seq(Nat) : all = h \o ls
  BY OneBehindTheOther
<1>2. PICK n \in Nat : n = Len(all)
  OBVIOUS
<1>3. MaxHistory \in Nat
  BY BufferAssumption
<1>4. CASE n > MaxHistory
  <2>1. PICK p : p = push_history(h, ls)
    OBVIOUS
  <2>2. p = SubSeq(all, 1 + (n - MaxHistory), n)
    BY <1>1, <1>2, <1>4, <2>1 DEF push_history
  <2>3. 1 + (n - MaxHistory) \in 1 .. (n + 1)
    BY <1>3, <1>4
  <2>4. Len(p) = MaxHistory
    BY <1>1, <1>2, <1>3, <2>2, <2>3
  <2> QED
    BY <1>1, <1>2, <1>3, <1>4, <2>1, <2>4
<1>5. CASE ~(n > MaxHistory)
  <2>1. push_history(h, ls) = SubSeq(all, 1, n)
    BY <1>1, <1>2, <1>5 DEF push_history
  <2>2. SubSeq(all, 1, n) = all
    BY <1>1, <1>2
  <2> QED
    BY <1>1, <1>2, <1>3, <1>5, <2>1, <2>2, SMTT(30)
<1> QED
  BY <1>4, <1>5

(* What every step keeps: the comparison is made with the rows of the      *)
(* screen, not of the alternate one, and the history has what scrolled off. *)
Faithful ==
  {t \in Terminals :
     /\ t.grid \in Known
     /\ t.buf.valid => t.grid.covered = <<>> /\ t.buf.live = t.grid.rows
     /\ t.buf.live = t.grid.rows \/ t.buf.live = <<>>
     /\ Len(t.gone) <= MaxHistory
     /\ t.overlooked # {} \/ t.buf.history = t.gone}

HistoryInv == Terminal \in Faithful

LEMMA IngestFaithful ==
  ASSUME NEW t \in Faithful, NEW batch \in Halves(Len(t.grid.rows))
  PROVE  /\ ingest_chunk(t, batch) \in Faithful
         /\ Len(ingest_chunk(t, batch).grid.rows) = Len(t.grid.rows)
         /\ ingest_chunk(t, batch).overlooked # {} \/ t.overlooked = {}
<1>1. /\ t \in Terminals /\ t.grid \in Known /\ t.buf \in Buffers /\ t.gone \in Seq(Nat)
      /\ t.overlooked \in SUBSET Reasons /\ Len(t.gone) <= MaxHistory
      /\ t.buf.valid => t.grid.covered = <<>> /\ t.buf.live = t.grid.rows
      /\ t.overlooked # {} \/ t.buf.history = t.gone
  BY DEF Faithful, Terminals
<1>2. batch \in Seq(Items)
  BY DEF Halves
<1>3. /\ t.buf.history \in Seq(Nat) /\ t.buf.live \in Seq(Nat) /\ t.buf.valid \in BOOLEAN
  BY <1>1 DEF Buffers
<1>4. PICK g : g = [t.grid EXCEPT !.off = <<>>]
  OBVIOUS
<1>5. /\ g \in Grids /\ g.rows = t.grid.rows /\ g.covered = t.grid.covered /\ g.off = <<>>
      /\ g.texts = t.grid.texts /\ g.cursor = t.grid.cursor
  <2>1. <<>> \in Seq(Nat) /\ t.grid \in Grids
    BY <1>1, KnownIs
  <2> QED
    BY <1>4, <2>1 DEF Grids
<1>6. g \in Known
  <2>1. KnownTexts(t.grid)
    BY <1>1 DEF Known
  <2> QED
    BY <1>5, <2>1 DEF Known, KnownTexts
<1>7. PICK s : s = FoldLeft(Process, g, batch)
  OBVIOUS
<1>8. s \in Known /\ Len(s.rows) = Len(t.grid.rows) /\ s \in Grids /\ s.rows \in Seq(Nat) /\ s.off \in Seq(Nat)
  BY <1>2, <1>5, <1>6, <1>7, BatchKnown, KnownIs
<1>9. PICK found : found = Found(t.buf, s.rows)
  OBVIOUS
<1>10. PICK h : h = push_history(t.buf.history, found)
  OBVIOUS
<1>11. PICK next : next =
         IF s.covered # <<>> \/ IsFullscreenRefresh(batch)
         THEN [t.buf EXCEPT !.offset = 0, !.valid = FALSE, !.live = s.rows]
         ELSE IF t.buf.valid THEN [t.buf EXCEPT !.live = s.rows, !.history = h]
              ELSE [t.buf EXCEPT !.live = s.rows, !.valid = TRUE]
  OBVIOUS
<1>12. PICK n : n = ingest_chunk(t, batch)
  OBVIOUS
<1>13. /\ n.grid = s /\ n.buf = next /\ n.gone = push_history(t.gone, s.off)
       /\ n.overlooked = t.overlooked \cup Unseen(t, batch, s)
  <2>1. n = [grid |-> s, buf |-> next, gone |-> push_history(t.gone, s.off),
             overlooked |-> t.overlooked \cup Unseen(t, batch, s)]
    BY <1>4, <1>7, <1>9, <1>10, <1>11, <1>12 DEF ingest_chunk
  <2> QED
    BY <2>1
<1>14. n \in Terminals
  BY <1>1, <1>2, <1>12, IngestKeeps
<1>15. next.live = s.rows /\ (next.valid => s.covered = <<>>)
  <2>1. CASE s.covered # <<>> \/ IsFullscreenRefresh(batch)
    BY <1>1, <1>11, <2>1 DEF Buffers
  <2>2. CASE ~(s.covered # <<>> \/ IsFullscreenRefresh(batch)) /\ t.buf.valid
    BY <1>1, <1>11, <2>2 DEF Buffers
  <2>3. CASE ~(s.covered # <<>> \/ IsFullscreenRefresh(batch)) /\ ~t.buf.valid
    BY <1>1, <1>11, <2>3 DEF Buffers
  <2> QED
    BY <2>1, <2>2, <2>3
<1>16. ASSUME n.overlooked = {} PROVE next.history = n.gone
  <2>1. /\ t.overlooked = {} /\ Unseen(t, batch, s) = {} /\ t.buf.history = t.gone
        /\ ~Unlike(t, batch, s) /\ ~Outrun(t, batch, s)
    BY <1>1, <1>13, <1>16, ReasonsAre
  <2>2. /\ s.off # <<>> => /\ t.buf.valid /\ s.covered = <<>>
                           /\ \A item \in {"home", "erase"} : ~Contains(batch, item)
                           /\ ~Repeats(t.buf.live, t.grid.cursor)
        /\ Contains(batch, "same") => ~Contains(t.buf.live, Same)
        /\ Contains(batch, "erase") => Contains(batch, "home")
    BY <2>1 DEF Unlike
  <2>3. CASE ~(s.covered # <<>> \/ IsFullscreenRefresh(batch)) /\ t.buf.valid
    <3>1. s.covered = <<>> /\ g.covered = <<>> /\ t.buf.live = g.rows
      BY <1>1, <1>5, <2>3
    <3>2. ~Contains(batch, "erase")
      BY <2>2, <2>3 DEF IsFullscreenRefresh
    <3>3. found = SubSeq(g.rows, 1, detect_scroll(g.rows, s.rows))
      BY <1>9, <3>1 DEF Found
    <3>4. found = s.off
      <4>1. CASE s.off = <<>>
        <5>1. \A i \in DOMAIN batch : batch[i] # "erase"
          BY <1>2, <3>2, ContainsIs
        <5>2. \A i \in DOMAIN batch : batch[i] = "same" => ~Contains(g.rows, Same)
          BY <1>2, <2>2, <3>1, ContainsIs
        <5>3. detect_scroll(g.rows, s.rows) = 0
          BY <1>2, <1>6, <1>7, <3>1, <4>1, <5>1, <5>2, NothingIsFound
        <5>4. SubSeq(g.rows, 1, 0) = <<>>
          BY <1>3, <3>1
        <5> QED
          BY <3>3, <4>1, <5>3, <5>4
      <4>2. CASE s.off # <<>>
        <5>1. \A i \in DOMAIN batch : batch[i] \notin {"home", "erase"}
          BY <1>2, <2>2, <4>2, ContainsIs
        <5>2. ~Repeats(g.rows, g.cursor)
          BY <1>5, <2>2, <3>1, <4>2
        <5>3. batch \in Halves(Len(g.rows))
          BY <1>5
        <5>4. PICK k : k = Len(s.off)
          OBVIOUS
        <5>41. Wraps(batch) => Len(s.off) < g.cursor - 1
          <6>1. Wraps(batch) => Contains(batch, "over")
            BY <1>2, ContainsIs DEF Wraps
          <6>2. Len(s.off) \in Nat /\ g.cursor \in Nat
            BY <1>5, <1>8 DEF Grids
          <6> QED
            BY <1>5, <2>1, <4>2, <6>1, <6>2 DEF Outrun
        <5>5. /\ detect_scroll(g.rows, s.rows) = k /\ k \in 1 .. Len(g.rows)
              /\ \A i \in 1 .. k : s.off[i] = g.rows[i]
          BY <1>5, <1>6, <1>7, <3>1, <4>2, <5>1, <5>2, <5>3, <5>4, <5>41, ScrollIsFound
        <5>6. g.rows \in Seq(Nat)
          BY <1>3, <3>1
        <5>7. /\ SubSeq(g.rows, 1, k) \in Seq(Nat) /\ Len(SubSeq(g.rows, 1, k)) = k
              /\ \A i \in 1 .. k : SubSeq(g.rows, 1, k)[i] = g.rows[i]
          BY <5>5, <5>6
        <5>8. SubSeq(g.rows, 1, k) = s.off
          BY <1>8, <5>4, <5>5, <5>7
        <5> QED
          BY <3>3, <5>5, <5>8
      <4> QED
        BY <4>1, <4>2
    <3>5. next.history = h
      BY <1>1, <1>11, <2>3 DEF Buffers
    <3> QED
      BY <1>10, <1>13, <2>1, <3>4, <3>5
  <2>4. CASE ~(~(s.covered # <<>> \/ IsFullscreenRefresh(batch)) /\ t.buf.valid)
    <3>1. s.off = <<>>
      BY <2>2, <2>4 DEF IsFullscreenRefresh
    <3>2. next.history = t.buf.history
      <4>1. CASE s.covered # <<>> \/ IsFullscreenRefresh(batch)
        BY <1>1, <1>11, <4>1 DEF Buffers
      <4>2. CASE ~(s.covered # <<>> \/ IsFullscreenRefresh(batch)) /\ ~t.buf.valid
        BY <1>1, <1>11, <4>2 DEF Buffers
      <4> QED
        BY <2>4, <4>1, <4>2
    <3>3. n.gone = t.gone
      <4>1. <<>> \in Seq(Nat) /\ t.gone \o <<>> = t.gone
        BY <1>1
      <4>2. push_history(t.gone, <<>>) = t.gone
        BY <1>1, <4>1, PushIs
      <4> QED
        BY <1>13, <3>1, <4>2
    <3> QED
      BY <2>1, <3>2, <3>3
  <2> QED
    BY <2>3, <2>4
<1>17. n.overlooked # {} \/ next.history = n.gone
  BY <1>16
<1>18. Len(n.gone) <= MaxHistory
  BY <1>1, <1>8, <1>13, PushIs
<1>19. n \in Faithful
  BY <1>8, <1>13, <1>14, <1>15, <1>17, <1>18 DEF Faithful
<1> QED
  BY <1>8, <1>12, <1>13, <1>19

LEMMA RowsFurtherDown ==
  ASSUME NEW s \in Seq(Nat), NEW k \in Nat, k <= Len(s)
  PROVE  /\ Len(SubSeq(s, k + 1, Len(s))) = Len(s) - k
         /\ \A j \in 1 .. (Len(s) - k) : SubSeq(s, k + 1, Len(s))[j] = s[k + j]
<1>1. PICK n \in Nat : n = Len(s)
  OBVIOUS
<1>2. PICK r : r = SubSeq(s, k + 1, n)
  OBVIOUS
<1>3. k + 1 \in 1 .. (n + 1) /\ n \in k .. n
  BY <1>1
<1>4. Len(r) = n - k
  BY <1>1, <1>2, <1>3
<1>5. ASSUME NEW j \in 1 .. (n - k) PROVE r[j] = s[k + j]
  <2>1. (k + 1) + j - 1 = k + j
    OBVIOUS
  <2> QED
    BY <1>1, <1>2, <1>3, <1>4, <2>1
<1> QED
  BY <1>1, <1>2, <1>4, <1>5

(* A screen of another height, and what it covers.                         *)
Resized(screen, h) == [i \in 1 .. h |-> IF i <= Len(screen) THEN screen[i] ELSE BlankRow]

LEMMA ResizedKnown ==
  ASSUME NEW screen \in Seq(Nat), NEW texts \in Nat, NoneNewer(screen, Len(screen), texts), NEW h \in Nat \ {0}
  PROVE  NoneNewer(Resized(screen, h), h, texts) /\ Len(Resized(screen, h)) = h
<1>1. PICK rs : rs = Resized(screen, h)
  OBVIOUS
<1>2. \A i \in 1 .. h : rs[i] = IF i <= Len(screen) THEN screen[i] ELSE BlankRow
  BY <1>1 DEF Resized
<1>3. rs \in [1 .. h -> Nat]
  BY <1>1 DEF Resized, BlankRow
<1>4. Len(rs) = h
  BY <1>3, RowsOfAScreen
<1>5. ASSUME NEW i \in 1 .. h PROVE rs[i] <= texts
  <2>1. CASE i <= Len(screen)
    <3>1. i \in 1 .. Len(screen)
      BY <2>1
    <3> QED
      BY <1>2, <2>1, <3>1 DEF NoneNewer
  <2>2. CASE ~(i <= Len(screen))
    BY <1>2, <2>2 DEF BlankRow
  <2> QED
    BY <2>1, <2>2
<1> QED
  BY <1>1, <1>4, <1>5 DEF NoneNewer

LEMMA SetSizeKnown ==
  ASSUME NEW g \in [rows : Seq(Nat), cursor : Nat \ {0}, covered : Covering, texts : Nat, off : Seq(Nat)],
         NEW h \in Nat, h >= 5, g.texts >= Same, NoneNewer(g.rows, Len(g.rows), g.texts),
         g.covered # <<>> => NoneNewer(g.covered[1].rows, Len(g.covered[1].rows), g.texts)
  PROVE  SetSize(g, h) \in Known
<1>1. h \in Nat \ {0}
  OBVIOUS
<1>2. PICK n : n = SetSize(g, h)
  OBVIOUS
<1>3. n \in Grids /\ Len(n.rows) = h
  BY <1>1, <1>2, SetSizeKeeps
<1>4. PICK cov : cov = [i \in DOMAIN g.covered |-> Cut(g.covered[i], h)]
  OBVIOUS
<1>5. PICK cursor : cursor = IF g.cursor > h THEN h ELSE g.cursor
  OBVIOUS
<1>6. n = [g EXCEPT !.covered = cov, !.rows = Resized(g.rows, h), !.cursor = cursor]
  BY <1>2, <1>4, <1>5 DEF SetSize, Cut, Resized
<1>7. n.covered = cov /\ n.rows = Resized(g.rows, h) /\ n.texts = g.texts
  BY <1>6
<1>8. NoneNewer(n.rows, Len(n.rows), n.texts)
  BY <1>1, <1>3, <1>7, ResizedKnown
<1>9. ASSUME cov # <<>>
      PROVE  Len(cov[1].rows) = h /\ NoneNewer(cov[1].rows, h, g.texts)
  <2>1. g.covered # <<>>
    BY <1>4, <1>9
  <2>2. PICK c \in Covers : g.covered = <<c>>
    BY <2>1 DEF Covering
  <2>3. c.rows \in Seq(Nat) /\ g.covered[1] = c
    BY <2>2 DEF Covers
  <2>4. PICK at : at = IF c.cursor > h THEN h ELSE c.cursor
    OBVIOUS
  <2>5. Cut(c, h) = [c EXCEPT !.rows = Resized(c.rows, h), !.cursor = at]
    BY <2>4 DEF Cut, Resized
  <2>6. Cut(c, h).rows = Resized(c.rows, h)
    BY <2>5 DEF Covers
  <2>7. cov[1] = Cut(c, h)
    BY <1>4, <2>2, <2>3
  <2>8. NoneNewer(c.rows, Len(c.rows), g.texts)
    BY <2>1, <2>3
  <2> QED
    BY <1>1, <2>3, <2>6, <2>7, <2>8, ResizedKnown
<1>10. KnownTexts(n)
  BY <1>3, <1>7, <1>8, <1>9 DEF KnownTexts
<1> QED
  BY <1>2, <1>3, <1>10 DEF Known

LEMMA HistoryInvInit == BufferInit => HistoryInv
<1> SUFFICES ASSUME BufferInit PROVE HistoryInv
  OBVIOUS
<1>1. PICK h \in Heights : grid = Fresh(h)
  BY DEF BufferInit
<1>2. h \in Nat /\ h >= 5 /\ MaxHistory \in Nat
  BY <1>1, BufferAssumption
<1>3. Terminal \in Terminals
  BY BufferInvInit DEF BufferInv
<1>4. grid \in Grids
  BY <1>3 DEF Terminal, Terminals
<1>5. PICK lines \in Seq(Nat) : lines = Lines(h) /\ Len(lines) = h
  BY <1>2, LinesAreBlank
<1>6. \A i \in 1 .. h : lines[i] = BlankRow
  BY <1>5 DEF Lines
<1>7. grid.rows = lines /\ grid.covered = <<>> /\ grid.texts = Same
  BY <1>1, <1>5 DEF Fresh
<1>8. grid \in Known
  BY <1>2, <1>4, <1>5, <1>6, <1>7 DEF Known, KnownTexts, NoneNewer, BlankRow, Same
<1>9. /\ buf.live = <<>> /\ buf.valid = FALSE /\ buf.history = <<>> /\ gone = <<>> /\ Len(gone) = 0
  BY DEF BufferInit, NewBuffer
<1> QED
  BY <1>2, <1>3, <1>8, <1>9 DEF HistoryInv, Terminal, Faithful

LEMMA HistoryInvNext ==
  ASSUME HistoryInv, [BufferNext]_bufferVars
  PROVE  HistoryInv' /\ (overlooked' # {} \/ overlooked = {} \/ buf'.anchor = NoEnd)
<1>1. /\ BufferInv /\ grid \in Known /\ buf \in Buffers /\ gone \in Seq(Nat) /\ overlooked \in SUBSET Reasons
      /\ buf.valid => grid.covered = <<>> /\ buf.live = grid.rows
      /\ buf.live = grid.rows \/ buf.live = <<>>
      /\ Len(gone) <= MaxHistory /\ (overlooked # {} \/ buf.history = gone)
      /\ grid.covered # <<>> => buf.offset = 0
  BY DEF HistoryInv, BufferInv, Terminal, Terminals, Faithful, Shown
<1>2. BufferInv'
  BY <1>1, BufferInvNext
<1>3. ASSUME grid' \in Known, buf'.valid => grid'.covered = <<>> /\ buf'.live = grid'.rows,
             buf'.live = grid'.rows \/ buf'.live = <<>>,
             Len(gone') <= MaxHistory, overlooked' # {} \/ buf'.history = gone'
      PROVE  HistoryInv'
  BY <1>2, <1>3 DEF HistoryInv, BufferInv, Terminal, Faithful
<1>4. grid.rows \in Seq(Nat) /\ Len(grid.rows) \in Nat /\ Len(grid.rows) >= 5 /\ grid \in Grids
  BY <1>1, KnownIs
\* A buffer that is drawn again over the same screen.
<1>5. ASSUME NEW b \in Buffers, b.live = buf.live, b.valid = buf.valid, b.history = buf.history,
             Show(b, grid), UNCHANGED <<grid, gone, overlooked>>
      PROVE  HistoryInv' /\ (overlooked' # {} \/ overlooked = {})
  <2>1. PICK r : r = Refreshed(b, grid)
    OBVIOUS
  <2>2. r = IF Len(b.live) = Len(grid.rows) THEN b ELSE [b EXCEPT !.live = grid.rows]
    BY <2>1 DEF Refreshed
  <2>3. r.valid = b.valid /\ r.history = b.history /\ (r.live = b.live \/ r.live = grid.rows)
    BY <1>5, <2>2 DEF Buffers
  <2>4. buf' = r
    BY <1>5, <2>1 DEF Show
  <2>5. grid' = grid /\ gone' = gone /\ overlooked' = overlooked
    BY <1>5
  <2> QED
    BY <1>1, <1>3, <1>5, <2>3, <2>4, <2>5
\* A place in the window is a place in the lines.
<1>51. ASSUME NEW b \in Buffers, NEW row \in Nat, NEW col \in Columns PROVE At(b, row, col) \in Ends
  <2>1. PICK top \in Nat : top = view_top_abs(b, Height)
    BY <1>4, ViewIsANumber DEF Height
  <2>2. At(b, row, col) = <<top + row, col>> /\ top + row \in Nat
    BY <2>1 DEF At
  <2> QED
    BY <2>2 DEF Ends
<1>6. ASSUME NEW chunk \in Chunks, TakeOutput(chunk) PROVE HistoryInv' /\ (overlooked' # {} \/ overlooked = {})
  <2>1. chunk \in Seq(Items)
    BY BufferAssumption
  <2>2. PICK h \in Nat : h = Len(grid.rows) /\ h >= 5
    BY <1>4
  <2>3. PICK batches \in Seq(Halves(h)) : batches = Batches(chunk, h)
    BY <2>1, <2>2, BatchesAreHalves
  <2>4. PICK A : A = {t \in Faithful : Len(t.grid.rows) = h /\ (t.overlooked # {} \/ overlooked = {})}
    OBVIOUS
  <2>5. ASSUME NEW acc \in A, NEW i \in DOMAIN batches PROVE ingest_chunk(acc, batches[i]) \in A
    <3>1. acc \in Faithful /\ batches[i] \in Halves(Len(acc.grid.rows)) /\ (acc.overlooked # {} \/ overlooked = {})
          /\ Len(acc.grid.rows) = h
      BY <2>4
    <3>2. PICK n : n = ingest_chunk(acc, batches[i])
      OBVIOUS
    <3>3. n \in Faithful /\ Len(n.grid.rows) = h /\ (n.overlooked # {} \/ acc.overlooked = {})
      BY <3>1, <3>2, IngestFaithful
    <3> QED
      BY <2>4, <3>1, <3>2, <3>3
  <2>6. Terminal \in A
    <3>1. Terminal.grid = grid /\ Terminal.overlooked = overlooked
      BY DEF Terminal
    <3> QED
      BY <2>2, <2>4, <3>1 DEF HistoryInv
  <2>7. FoldLeft(ingest_chunk, Terminal, batches) \in A
    BY <2>5, <2>6, IngestStays
  <2>8. PICK t \in A : t = ingest(Terminal, chunk)
    <3>1. Terminal.grid = grid
      BY DEF Terminal
    <3> QED
      BY <2>2, <2>3, <2>7, <3>1 DEF ingest
  <2>9. /\ grid' = [t.grid EXCEPT !.off = <<>>] /\ gone' = t.gone /\ overlooked' = t.overlooked
        /\ buf' = Refreshed(t.buf, t.grid)
    BY <1>6, <2>8 DEF TakeOutput, Terminal, Show
  <2>10. /\ t.grid \in Known /\ t.buf \in Buffers
         /\ t.buf.valid => t.grid.covered = <<>> /\ t.buf.live = t.grid.rows
         /\ t.buf.live = t.grid.rows \/ t.buf.live = <<>>
         /\ Len(t.gone) <= MaxHistory /\ (t.overlooked # {} \/ t.buf.history = t.gone)
         /\ t.overlooked # {} \/ overlooked = {}
    BY <2>4 DEF Faithful, Terminals
  <2>11. t.grid \in Grids
    BY <2>10, KnownIs
  <2>12. /\ grid' \in Grids /\ grid'.rows = t.grid.rows /\ grid'.covered = t.grid.covered
         /\ grid'.texts = t.grid.texts
    <3>1. <<>> \in Seq(Nat)
      OBVIOUS
    <3> QED
      BY <2>9, <2>11, <3>1 DEF Grids
  <2>13. grid' \in Known
    <3>1. KnownTexts(t.grid)
      BY <2>10 DEF Known
    <3>2. KnownTexts(grid')
      BY <2>12, <3>1 DEF KnownTexts
    <3> QED
      BY <2>12, <3>2 DEF Known
  <2>14. PICK r : r = Refreshed(t.buf, t.grid)
    OBVIOUS
  <2>15. r = IF Len(t.buf.live) = Len(t.grid.rows) THEN t.buf ELSE [t.buf EXCEPT !.live = t.grid.rows]
    BY <2>14 DEF Refreshed
  <2>16. r.valid = t.buf.valid /\ r.history = t.buf.history /\ (r.live = t.buf.live \/ r.live = t.grid.rows)
    BY <2>10, <2>15 DEF Buffers
  <2>17. buf' = r
    BY <2>9, <2>14
  <2> QED
    BY <1>3, <2>9, <2>10, <2>12, <2>13, <2>16, <2>17
<1>7. ASSUME NEW h \in Heights, Resize(h) PROVE HistoryInv' /\ (overlooked' # {} \/ overlooked = {})
  <2>1. h \in Nat /\ h >= 5
    BY BufferAssumption
  <2>2. PICK scroll : scroll = IF h < Height /\ ~IsAlt THEN Max({0, grid.cursor - h}) ELSE 0
    OBVIOUS
  <2>3. grid.cursor \in 1 .. Len(grid.rows) /\ Height = Len(grid.rows)
    BY <1>1, KnownIs DEF Height
  <2>4. scroll \in 0 .. Len(grid.rows)
    <3>1. PICK x \in Int : x = grid.cursor - h
      BY <2>1, <2>3
    <3>2. Max({0, x}) = IF 0 >= x THEN 0 ELSE x
      BY MaxOfTwo
    <3> QED
      BY <3>1, <3>2, <2>1, <2>2, <2>3, <1>4, SMTT(30)
  <2>5. PICK top \in Seq(Nat) : top = SubSeq(grid.rows, 1, scroll)
    BY <2>4, <1>4, FirstRows
  <2>6. PICK rest \in Seq(Nat) : rest = SubSeq(grid.rows, scroll + 1, Len(grid.rows))
    BY <2>4, <1>4, LastRows
  <2>7. PICK lines \in Seq(Nat) : lines = Lines(scroll) /\ Len(lines) = scroll
    BY <2>4, LinesAreBlank
  <2>8. PICK screen \in Seq(Nat) : screen = rest \o lines
    BY OneBehindTheOther
  <2>9. PICK up : up = [grid EXCEPT !.rows = screen]
    OBVIOUS
  <2>10. up \in [rows : Seq(Nat), cursor : Nat \ {0}, covered : Covering, texts : Nat, off : Seq(Nat)]
    BY <1>4, <2>9 DEF Grids
  <2>11. up.covered = grid.covered /\ up.rows = screen /\ up.texts = grid.texts
    BY <1>4, <2>9 DEF Grids
  <2>12. grid.texts \in Nat /\ grid.texts >= Same /\ NoneNewer(grid.rows, Len(grid.rows), grid.texts)
    BY <1>1, KnownIs
  <2>13. NoneNewer(screen, Len(screen), grid.texts)
    <3>1. ASSUME NEW i \in 1 .. Len(screen) PROVE screen[i] <= grid.texts
      <4>1. /\ Len(screen) = Len(rest) + Len(lines)
            /\ \A j \in 1 .. Len(rest) : screen[j] = rest[j]
            /\ \A j \in (Len(rest) + 1) .. Len(screen) : screen[j] = lines[j - Len(rest)]
        BY <2>8, OneBehindTheOther
      <4>2. CASE i \in 1 .. Len(rest)
        <5>1. PICK m \in Nat : m = Len(grid.rows) /\ scroll \in 0 .. m
          BY <1>4, <2>4
        <5>2. Len(rest) = m - scroll /\ \A j \in 1 .. (m - scroll) : rest[j] = grid.rows[scroll + j]
          <6>1. PICK k \in Nat : k = scroll /\ k <= Len(grid.rows)
            BY <5>1
          <6>2. /\ Len(SubSeq(grid.rows, k + 1, Len(grid.rows))) = Len(grid.rows) - k
                /\ \A j \in 1 .. (Len(grid.rows) - k) :
                     SubSeq(grid.rows, k + 1, Len(grid.rows))[j] = grid.rows[k + j]
            BY <1>4, <6>1, RowsFurtherDown
          <6> QED
            BY <2>6, <5>1, <6>1, <6>2
        <5>3. i \in 1 .. (m - scroll) /\ scroll + i \in 1 .. m
          BY <4>2, <5>1, <5>2
        <5>4. screen[i] = grid.rows[scroll + i]
          BY <4>1, <4>2, <5>2, <5>3
        <5> QED
          BY <2>12, <5>1, <5>3, <5>4 DEF NoneNewer
      <4>3. CASE i \notin 1 .. Len(rest)
        <5>1. PICK j \in 1 .. scroll : screen[i] = lines[j]
          <6>1. PICK m \in Nat : m = Len(rest)
            OBVIOUS
          <6>2. i \in (m + 1) .. Len(screen) /\ i - m \in 1 .. scroll
            BY <2>4, <2>7, <4>1, <4>3, <6>1
          <6> QED
            BY <4>1, <6>1, <6>2
        <5>2. lines[j] = BlankRow
          BY <2>7 DEF Lines
        <5> QED
          BY <2>12, <5>1, <5>2 DEF BlankRow
      <4> QED
        BY <4>2, <4>3
    <3> QED
      BY <3>1 DEF NoneNewer
  <2>14. grid.covered # <<>> => NoneNewer(grid.covered[1].rows, Len(grid.covered[1].rows), grid.texts)
    <3>1. KnownTexts(grid)
      BY <1>1 DEF Known
    <3> QED
      BY <3>1 DEF KnownTexts
  <2>15. PICK size : size = SetSize(up, h)
    OBVIOUS
  <2>16. size \in Known
    BY <2>1, <2>10, <2>11, <2>12, <2>13, <2>14, <2>15, SetSizeKnown
  <2>17. /\ grid' = size /\ gone' = push_history(gone, top) /\ overlooked' = overlooked
         /\ buf' = [buf EXCEPT !.history = push_history(@, top), !.live = size.rows, !.valid = FALSE]
    BY <1>7, <2>2, <2>5, <2>6, <2>7, <2>8, <2>9, <2>15 DEF Resize
  <2>18. buf'.history = push_history(buf.history, top) /\ buf'.live = size.rows /\ buf'.valid = FALSE
    BY <1>1, <2>17 DEF Buffers
  <2>19. Len(gone') <= MaxHistory
    BY <1>1, <2>17, PushIs
  <2>20. overlooked' # {} \/ buf'.history = gone'
    BY <1>1, <2>17, <2>18
  <2> QED
    BY <1>3, <2>16, <2>17, <2>18, <2>19, <2>20
<1>8. CASE Clear
  <2>1. PICK h \in Nat : h = Len(grid.rows) /\ h >= 5 /\ Height = h
    BY <1>4 DEF Height
  <2>2. PICK lines \in Seq(Nat) : lines = Lines(h) /\ Len(lines) = h
    BY <2>1, LinesAreBlank
  <2>3. \A i \in 1 .. h : lines[i] = BlankRow
    BY <2>2 DEF Lines
  <2>4. grid' = Fresh(h) /\ buf' = NewBuffer /\ gone' = <<>>
    BY <1>8, <2>1 DEF Clear
  <2>5. grid'.rows = lines /\ grid'.covered = <<>> /\ grid'.texts = Same
    BY <2>2, <2>4 DEF Fresh
  <2>6. grid' \in Grids
    BY <1>2 DEF BufferInv, Terminal, Terminals
  <2>7. grid' \in Known
    BY <2>1, <2>2, <2>3, <2>5, <2>6 DEF Known, KnownTexts, NoneNewer, BlankRow, Same
  <2>8. /\ buf'.live = <<>> /\ buf'.valid = FALSE /\ buf'.history = <<>> /\ buf'.anchor = NoEnd
    BY <2>4 DEF NewBuffer
  <2>9. Len(gone') <= MaxHistory
    <3>1. Len(<<>>) = 0 /\ MaxHistory \in Nat
      BY BufferAssumption
    <3> QED
      BY <2>4, <3>1
  <2> QED
    BY <1>3, <2>4, <2>7, <2>8, <2>9
<1>9. ASSUME NEW offset \in 0 .. Len(buf.history), Scroll(offset) PROVE HistoryInv' /\ (overlooked' # {} \/ overlooked = {})
  <2>1. PICK b : b = [buf EXCEPT !.offset = offset]
    OBVIOUS
  <2>2. Show(b, grid) /\ UNCHANGED <<grid, gone, overlooked>>
    BY <1>9, <2>1 DEF Scroll
  <2>3. offset \in Nat
    BY <1>1 DEF Buffers
  <2>4. b \in Buffers /\ b.live = buf.live /\ b.valid = buf.valid /\ b.history = buf.history
    BY <1>1, <2>1, <2>3 DEF Buffers
  <2> QED
    BY <1>5, <2>2, <2>4
<1>10. ASSUME NEW e \in Touched, SelectStart(e[1], e[2]) \/ SelectUpdate(e[1], e[2])
       PROVE  HistoryInv' /\ (overlooked' # {} \/ overlooked = {})
  <2>1. PICK at : at = At(buf, Clamp(e[1]), e[2])
    OBVIOUS
  <2>2. e[1] \in Nat /\ e[2] \in Columns
    BY BufferAssumption DEF Columns
  <2>3. Clamp(e[1]) \in Nat
    BY <2>2, <1>4 DEF Clamp, Height
  <2>4. at \in Ends
    BY <1>1, <1>51, <2>1, <2>2, <2>3
  <2>5. CASE SelectStart(e[1], e[2])
    <3>1. PICK b : b = [buf EXCEPT !.anchor = at, !.focus = at]
      OBVIOUS
    <3>2. Show(b, grid) /\ UNCHANGED <<grid, gone, overlooked>>
      BY <2>1, <2>5, <3>1 DEF SelectStart
    <3>3. b \in Buffers /\ b.live = buf.live /\ b.valid = buf.valid /\ b.history = buf.history
      BY <1>1, <2>4, <3>1 DEF Buffers
    <3> QED
      BY <1>5, <3>2, <3>3
  <2>6. CASE SelectUpdate(e[1], e[2])
    <3>1. PICK b : b = [buf EXCEPT !.focus = at]
      OBVIOUS
    <3>2. Show(b, grid) /\ UNCHANGED <<grid, gone, overlooked>>
      BY <2>1, <2>6, <3>1 DEF SelectUpdate
    <3>3. b \in Buffers /\ b.live = buf.live /\ b.valid = buf.valid /\ b.history = buf.history
      BY <1>1, <2>4, <3>1 DEF Buffers
    <3> QED
      BY <1>5, <3>2, <3>3
  <2> QED
    BY <1>10, <2>5, <2>6
<1>11. CASE SelectEnd
  <2>1. PICK b : b = [buf EXCEPT !.anchor = NoEnd, !.focus = NoEnd]
    OBVIOUS
  <2>2. b \in Buffers /\ b.live = buf.live /\ b.valid = buf.valid /\ b.history = buf.history
    <3>1. NoEnd \in Ends
      BY DEF Ends
    <3> QED
      BY <1>1, <2>1, <3>1 DEF Buffers
  <2>3. Show(b, grid) \/ Show(buf, grid)
    BY <1>11, <2>1 DEF SelectEnd
  <2>4. UNCHANGED <<grid, gone, overlooked>>
    BY <1>11 DEF SelectEnd
  <2> QED
    BY <1>1, <1>5, <2>2, <2>3, <2>4
<1>12. ASSUME NEW dir \in {-1, 1}, Autoscroll(dir) PROVE HistoryInv' /\ (overlooked' # {} \/ overlooked = {})
  <2>1. PICK offset : offset = IF dir < 0 THEN Min({buf.offset + 2, Len(buf.history)})
                               ELSE Max({buf.offset - 2, 0})
    OBVIOUS
  <2>2. buf.offset \in Nat /\ Len(buf.history) \in Nat /\ buf.focus \in Ends
    BY <1>1 DEF Buffers
  <2>3. offset \in Nat
    <3>1. PICK x \in Int, y \in Int : x = buf.offset + 2 /\ y = buf.offset - 2
      BY <2>2
    <3>2. Min({x, Len(buf.history)}) = IF x <= Len(buf.history) THEN x ELSE Len(buf.history)
      <4>1. x \in Int /\ Len(buf.history) \in Int
        BY <2>2
      <4> QED
        BY <4>1, MinOfTwo
    <3>3. Max({y, 0}) = IF y >= 0 THEN y ELSE 0
      BY MaxOfTwo
    <3> QED
      BY <3>1, <3>2, <3>3, <2>1, <2>2
  <2>4. PICK moved : moved = [buf EXCEPT !.offset = offset]
    OBVIOUS
  <2>5. moved \in Buffers /\ moved.live = buf.live /\ moved.valid = buf.valid /\ moved.history = buf.history
    BY <1>1, <2>3, <2>4 DEF Buffers
  <2>6. buf.focus # NoEnd
    BY <1>1, <1>12 DEF Autoscroll, BufferInv, Terminal, Terminals
  <2>7. buf.focus[2] \in Columns
    BY <2>2, <2>6 DEF Ends
  <2>8. PICK row \in Nat : row = IF dir < 0 THEN 0 ELSE Height - 1
    <3>1. Height - 1 \in Nat /\ 0 \in Nat
      BY <1>4 DEF Height
    <3> QED
      BY <3>1
  <2>9. PICK at : at = At(moved, row, buf.focus[2])
    OBVIOUS
  <2>10. at \in Ends
    BY <1>51, <2>5, <2>7, <2>9
  <2>11. PICK b : b = [moved EXCEPT !.focus = at]
    OBVIOUS
  <2>12. Show(b, grid) /\ UNCHANGED <<grid, gone, overlooked>>
    BY <1>12, <2>1, <2>4, <2>8, <2>9, <2>11 DEF Autoscroll
  <2>13. b \in Buffers /\ b.live = buf.live /\ b.valid = buf.valid /\ b.history = buf.history
    BY <2>5, <2>10, <2>11 DEF Buffers
  <2> QED
    BY <1>5, <2>12, <2>13
<1>13. CASE UNCHANGED bufferVars
  BY <1>1, <1>3, <1>13 DEF bufferVars
<1> QED
  BY <1>6, <1>7, <1>8, <1>9, <1>10, <1>11, <1>12, <1>13 DEF BufferNext

(* Whatever is written, scrolled, resized and selected, the history is what *)
(* scrolled off the main screen, as far as the cap reaches back, unless the *)
(* comparison was of no use for a batch.                                   *)
THEOREM ScrolledOffIsKept ==
  BufferSpec => []HistoryIsWhatScrolledOff
<1>1. BufferInit => HistoryInv
  BY HistoryInvInit
<1>2. HistoryInv /\ [BufferNext]_bufferVars => HistoryInv'
  BY HistoryInvNext
<1>3. HistoryInv => HistoryIsWhatScrolledOff
  BY DEF HistoryInv, Terminal, Faithful, HistoryIsWhatScrolledOff
<1> QED
  BY <1>1, <1>2, <1>3, PTL DEF BufferSpec


\* Both parts of a sequence.
LEMMA BothParts ==
  ASSUME NEW p \in Seq(Nat), NEW r \in Seq(Nat)
  PROVE  /\ Len(p \o r) = Len(p) + Len(r)
         /\ \A i \in 1 .. Len(p) : (p \o r)[i] = p[i]
         /\ \A i \in 1 .. Len(r) : (p \o r)[Len(p) + i] = r[i]
<1>1. PICK n \in Nat, m \in Nat : n = Len(p) /\ m = Len(r)
  OBVIOUS
<1>2. PICK all : all = p \o r
  OBVIOUS
<1>3. /\ Len(all) = n + m /\ \A i \in 1 .. n : all[i] = p[i]
      /\ \A i \in (n + 1) .. (n + m) : all[i] = r[i - n]
  BY <1>1, <1>2, OneBehindTheOther
<1>4. ASSUME NEW i \in 1 .. m PROVE all[n + i] = r[i]
  <2>1. n + i \in (n + 1) .. (n + m) /\ (n + i) - n = i
    OBVIOUS
  <2> QED
    BY <1>3, <2>1
<1> QED
  BY <1>1, <1>2, <1>3, <1>4

(* The first k rows have left the screen, and those behind them up to the  *)
(* cursor, in row c, have moved up; r is one of the lines above the cursor. *)
Moved(past, live, screen, all, past2, live2, screen2, all2, top, k, c, r) ==
  /\ past \in Seq(Nat) /\ live \in Seq(Nat) /\ past2 \in Seq(Nat) /\ live2 \in Seq(Nat) /\ top \in Seq(Nat)
  /\ live = screen \/ live = <<>>
  /\ live2 = screen2 \/ live2 = <<>>
  /\ k \in Nat /\ c \in Nat
  /\ past2 = past \o top /\ Len(top) = k
  /\ \A i \in 1 .. k : top[i] = screen[i]
  /\ \A i \in 1 .. (c - 1 - k) : screen[k + i] = screen2[i]
  /\ all = past \o live /\ all2 = past2 \o live2
  /\ r \in Nat /\ r < Len(past) + Len(live) /\ r < Len(past2) + Len(live2) /\ r < Len(past) + c - 1

(* A row of the selection is where it was, counted over the lines that have *)
(* left the screen and the screen.                                         *)
LEMMA LinesStay ==
  ASSUME NEW past, NEW live, NEW screen, NEW all, NEW past2, NEW live2, NEW screen2, NEW all2, NEW top, NEW k, NEW c, NEW r,
         Moved(past, live, screen, all, past2, live2, screen2, all2, top, k, c, r)
  PROVE  r < Len(all) /\ r < Len(all2) /\ all[r + 1] = all2[r + 1]
<1>0. /\ past \in Seq(Nat) /\ live \in Seq(Nat) /\ past2 \in Seq(Nat) /\ live2 \in Seq(Nat) /\ top \in Seq(Nat)
      /\ live = screen \/ live = <<>>
      /\ live2 = screen2 \/ live2 = <<>>
      /\ k \in Nat /\ c \in Nat /\ past2 = past \o top /\ Len(top) = k
      /\ \A i \in 1 .. k : top[i] = screen[i]
      /\ \A i \in 1 .. (c - 1 - k) : screen[k + i] = screen2[i]
      /\ r \in Nat /\ r < Len(past) + Len(live) /\ r < Len(past2) + Len(live2) /\ r < Len(past) + c - 1
  BY DEF Moved
<1>1. PICK n \in Nat, m \in Nat, m2 \in Nat : n = Len(past) /\ m = Len(live) /\ m2 = Len(live2)
  BY <1>0
<1>2. all = past \o live /\ all2 = past2 \o live2
  BY DEF Moved
<1>3. /\ Len(past2) = n + k /\ \A i \in 1 .. n : past2[i] = past[i]
      /\ \A i \in 1 .. k : past2[n + i] = screen[i]
  <2>1. /\ Len(past \o top) = Len(past) + Len(top)
        /\ \A i \in 1 .. Len(past) : (past \o top)[i] = past[i]
        /\ \A i \in 1 .. Len(top) : (past \o top)[Len(past) + i] = top[i]
    BY <1>0, BothParts
  <2> QED
    BY <1>0, <1>1, <2>1
<1>4. /\ Len(all) = n + m /\ \A i \in 1 .. n : all[i] = past[i]
      /\ \A i \in 1 .. m : all[n + i] = live[i]
  <2>1. /\ Len(past \o live) = Len(past) + Len(live)
        /\ \A i \in 1 .. Len(past) : (past \o live)[i] = past[i]
        /\ \A i \in 1 .. Len(live) : (past \o live)[Len(past) + i] = live[i]
    BY <1>0, BothParts
  <2> QED
    BY <1>0, <1>1, <1>2, <2>1
<1>5. /\ Len(all2) = (n + k) + m2 /\ \A i \in 1 .. (n + k) : all2[i] = past2[i]
      /\ \A i \in 1 .. m2 : all2[(n + k) + i] = live2[i]
  <2>1. /\ Len(past2 \o live2) = Len(past2) + Len(live2)
        /\ \A i \in 1 .. Len(past2) : (past2 \o live2)[i] = past2[i]
        /\ \A i \in 1 .. Len(live2) : (past2 \o live2)[Len(past2) + i] = live2[i]
    BY <1>0, BothParts
  <2>2. Len(past2) = n + k
    BY <1>3
  <2> QED
    BY <1>0, <1>1, <1>2, <2>1, <2>2, ZenonT(30)
<1>6. (m = 0 \/ live = screen) /\ (m2 = 0 \/ live2 = screen2)
  <2>1. Len(<<>>) = 0
    OBVIOUS
  <2> QED
    BY <1>0, <1>1, <2>1
<1>7. r < n + m /\ r < (n + k) + m2 /\ r < n + c - 1
  <2>1. Len(past2) = n + k
    BY <1>3
  <2> QED
    BY <1>0, <1>1, <2>1
<1>8. PICK q \in Nat : q = r + 1 /\ q >= 1 /\ q <= n + c - 1 /\ q <= n + m /\ q <= (n + k) + m2
  <2>1. r + 1 \in Nat /\ r + 1 >= 1 /\ r + 1 <= n + c - 1 /\ r + 1 <= n + m /\ r + 1 <= (n + k) + m2
    BY <1>0, <1>7
  <2> QED
    BY <2>1
<1>9. all[q] = all2[q]
  <2>1. CASE q <= n
    <3>1. q \in 1 .. n /\ q \in 1 .. (n + k)
      BY <1>0, <1>8, <2>1
    <3> QED
      BY <1>3, <1>4, <1>5, <3>1
  <2>2. CASE n < q /\ q <= n + k
    <3>1. PICK i \in 1 .. k : q = n + i /\ i \in 1 .. m
      <4>1. q - n \in 1 .. k /\ q - n \in 1 .. m /\ q = n + (q - n)
        BY <1>0, <1>8, <2>2
      <4> QED
        BY <4>1
    <3>2. q \in 1 .. (n + k) /\ live = screen
      BY <1>0, <1>6, <2>2, <3>1
    <3>3. all[q] = screen[i]
      BY <1>4, <3>1, <3>2
    <3>4. all2[q] = past2[q] /\ past2[q] = screen[i]
      BY <1>3, <1>5, <3>1, <3>2
    <3> QED
      BY <3>3, <3>4
  <2>3. CASE n + k < q
    <3>1. PICK i \in 1 .. (c - 1 - k) : q = (n + k) + i /\ i \in 1 .. m2 /\ k + i \in 1 .. m /\ q = n + (k + i)
      <4>1. PICK i \in Nat : i = q - (n + k)
        BY <1>0, <2>3
      <4>2. i \in 1 .. (c - 1 - k) /\ q = (n + k) + i /\ i \in 1 .. m2 /\ k + i \in 1 .. m /\ q = n + (k + i)
        BY <1>0, <1>8, <2>3, <4>1
      <4> QED
        BY <4>2
    <3>2. live = screen /\ live2 = screen2
      BY <1>0, <1>6, <3>1
    <3>3. all[q] = screen[k + i]
      BY <1>4, <3>1, <3>2
    <3>4. all2[q] = screen2[i]
      BY <1>5, <3>1, <3>2
    <3> QED
      BY <1>0, <3>3, <3>4
  <2> QED
    BY <1>0, <1>8, <2>1, <2>2, <2>3
<1>10. r < Len(all) /\ r < Len(all2)
  <2>1. Len(all) = n + m
    BY <1>4
  <2>2. Len(all2) = (n + k) + m2
    BY <1>5
  <2> QED
    BY <1>0, <1>8, <2>1, <2>2
<1> QED
  BY <1>2, <1>8, <1>9, <1>10

\* The rows from one to another.
LEMMA RowsBetween ==
  ASSUME NEW s \in Seq(Nat), NEW k \in Nat, NEW j \in Nat, k <= j, j <= Len(s)
  PROVE  \A i \in 1 .. (j - k) : SubSeq(s, k + 1, j)[i] = s[k + i]
<1>1. PICK n \in Nat : n = Len(s)
  OBVIOUS
<1>2. k + 1 \in 1 .. (n + 1) /\ j \in k .. n
  BY <1>1
<1>3. Len(SubSeq(s, k + 1, j)) = j - k
  BY <1>1, <1>2
<1>4. ASSUME NEW i \in 1 .. (j - k) PROVE SubSeq(s, k + 1, j)[i] = s[k + i]
  <2>1. (k + 1) + i - 1 = k + i
    OBVIOUS
  <2> QED
    BY <1>1, <1>2, <1>3, <2>1
<1> QED
  BY <1>4

(* The text of a selection whose last row is used.                         *)
Copied(b, lo, hi) ==
  [i \in 1 .. (hi[1] - lo[1] + 1) |->
     Segment(b, lo[1] + i - 1,
             IF lo[1] = hi[1] THEN Min({lo[2], hi[2]}) .. Max({lo[2], hi[2]})
             ELSE Span(lo[1] + i - 1, lo, hi))]

LEMMA TextOf ==
  ASSUME NEW b \in Buffers, b.anchor # NoEnd, b.focus # NoEnd, Usable(High(b), b)
  PROVE  /\ Low(b)[1] \in Nat /\ High(b)[1] \in Nat /\ High(b)[1] < Len(b.history) + Len(b.live)
         /\ extract_selection_text(b) = Copied(b, Low(b), High(b))
<1>1. PICK used \in Nat : used = LiveUsed(b) /\ used <= Len(b.live)
  BY UsedIsANumber DEF Buffers
<1>2. Len(b.history) \in Nat /\ Len(b.live) \in Nat
  BY DEF Buffers
<1>3. b.anchor \in Nat \X Columns /\ b.focus \in Nat \X Columns
  BY DEF Buffers, Ends
<1>4. PICK lo \in Nat \X Columns, hi \in Nat \X Columns : lo = Low(b) /\ hi = High(b)
  BY <1>3 DEF Low, High
<1>5. PICK h \in Nat, hc \in Columns : hi = <<h, hc>>
  OBVIOUS
<1>6. hi[1] = h /\ hi[2] = hc /\ lo[1] \in Nat
  BY <1>5
<1>7. h < Len(b.history) + used
  BY <1>1, <1>4, <1>6 DEF Usable
<1>8. PICK last : last = Min({hi[1], Max({0, Len(b.history) + LiveUsed(b) - 1})})
  OBVIOUS
<1>9. last = h
  <2>1. PICK x \in Int : x = Len(b.history) + LiveUsed(b) - 1 /\ x >= h
    BY <1>1, <1>2, <1>7
  <2>2. Max({0, x}) = x
    <3>1. 0 \in Int /\ ~(0 > x)
      BY <2>1
    <3>2. Max({0, x}) = IF 0 >= x THEN 0 ELSE x
      BY <3>1, MaxOfTwo
    <3> QED
      BY <3>1, <3>2
  <2>3. Min({h, x}) = h
    BY <2>1, MinOfTwo
  <2>4. last = Min({hi[1], Max({0, x})})
    BY <1>8, <2>1
  <2>5. last = Min({h, x})
    BY <1>6, <2>2, <2>4
  <2> QED
    BY <2>3, <2>5
<1>10. <<last, hi[2]>> = hi
  BY <1>5, <1>6, <1>9
<1>11. extract_selection_text(b) = Copied(b, lo, <<last, hi[2]>>)
  BY <1>4, <1>8 DEF extract_selection_text, Copied
<1>12. h < Len(b.history) + Len(b.live)
  <2>1. PICK p \in Nat, m \in Nat : p = Len(b.history) /\ m = Len(b.live)
    BY <1>2
  <2>2. used <= m /\ h < p + used
    BY <1>1, <1>7, <2>1
  <2>3. h < p + m
    BY <2>2
  <2> QED
    BY <2>1, <2>3
<1> QED
  BY <1>4, <1>6, <1>10, <1>11, <1>12

LEMMA SameText ==
  ASSUME NEW b \in Buffers, NEW n \in Buffers, n.anchor = b.anchor, n.focus = b.focus,
         b.anchor # NoEnd, b.focus # NoEnd, Usable(High(b), b), Usable(High(n), n),
         \A r \in 0 .. High(b)[1] : /\ r < Len(Combined(b)) /\ r < Len(Combined(n))
                                    /\ Combined(b)[r + 1] = Combined(n)[r + 1]
  PROVE  extract_selection_text(n) = extract_selection_text(b)
<1>1. PICK lo : lo = Low(b) /\ lo = Low(n)
  BY DEF Low
<1>2. PICK hi : hi = High(b) /\ hi = High(n)
  BY DEF High
<1>3. lo[1] \in Nat /\ hi[1] \in Nat /\ extract_selection_text(b) = Copied(b, lo, hi)
  BY <1>1, <1>2, TextOf
<1>4. extract_selection_text(n) = Copied(n, lo, hi)
  <2>1. n.anchor # NoEnd /\ n.focus # NoEnd
    OBVIOUS
  <2> QED
    BY <1>1, <1>2, <2>1, TextOf
<1>5. PICK l \in Nat, h \in Nat : l = lo[1] /\ h = hi[1]
  BY <1>3
<1>6. ASSUME NEW i \in 1 .. (h - l + 1), NEW c
      PROVE  Segment(b, l + i - 1, c) = Segment(n, l + i - 1, c)
  <2>1. PICK r \in 0 .. h : r = l + i - 1
    <3>1. l + i - 1 \in 0 .. h
      OBVIOUS
    <3> QED
      BY <3>1
  <2>2. r < Len(Combined(b)) /\ r < Len(Combined(n)) /\ Combined(b)[r + 1] = Combined(n)[r + 1]
    BY <1>2, <1>5
  <2>3. Segment(b, r, c) = Segment(n, r, c)
    BY <2>2 DEF Segment
  <2> QED
    BY <2>1, <2>3
<1>7. Copied(b, lo, hi) = Copied(n, lo, hi)
  BY <1>5, <1>6 DEF Copied
<1> QED
  BY <1>3, <1>4, <1>7

LEMMA SelectionStaysThen ==
  ASSUME HistoryInv, HistoryInv', overlooked' # {} \/ overlooked = {} \/ buf'.anchor = NoEnd,
         buf.anchor # NoEnd, buf'.anchor = buf.anchor, buf'.focus = buf.focus,
         overlooked' = {}, Len(buf'.history) < MaxHistory, Len(grid'.rows) = Height,
         Usable(High(buf), buf), Usable(High(buf'), buf'),
         High(buf)[1] < Len(buf.history) + grid.cursor - 1,
         NEW k \in 0 .. (grid.cursor - 1), ScrolledBy(k)
  PROVE  extract_selection_text(buf') = extract_selection_text(buf)
<1>1. /\ grid \in Known /\ buf \in Buffers /\ (buf.live = grid.rows \/ buf.live = <<>>)
      /\ (overlooked # {} \/ buf.history = gone) /\ (buf.anchor = NoEnd <=> buf.focus = NoEnd)
  BY DEF HistoryInv, Terminal, Terminals, Faithful
<1>2. /\ grid' \in Known /\ buf' \in Buffers /\ (buf'.live = grid'.rows \/ buf'.live = <<>>)
      /\ (overlooked' # {} \/ buf'.history = gone')
  BY DEF HistoryInv, Terminal, Terminals, Faithful
<1>3. PICK b \in Buffers, n \in Buffers : b = buf /\ n = buf'
  BY <1>1, <1>2
<1>4. /\ b.history \in Seq(Nat) /\ b.live \in Seq(Nat) /\ n.history \in Seq(Nat) /\ n.live \in Seq(Nat)
  BY DEF Buffers
<1>5. PICK screen \in Seq(Nat), screen2 \in Seq(Nat), c \in Nat :
        screen = grid.rows /\ screen2 = grid'.rows /\ c = grid.cursor /\ c \in 1 .. Len(screen)
  BY <1>1, <1>2, KnownIs, SMTT(30)
<1>6. Len(screen2) = Len(screen)
  BY <1>5 DEF Height
<1>7. k \in Nat /\ k <= c - 1 /\ c - 1 \in Nat /\ c - 1 <= Len(screen) /\ k \in 0 .. Len(screen)
  BY <1>5, SMTT(30)
<1>8. PICK top \in Seq(Nat) : top = SubSeq(screen, 1, k) /\ Len(top) = k
  BY <1>7, FirstRows
<1>9. \A i \in 1 .. k : top[i] = screen[i]
  <2>1. \A i \in 1 .. (k - 0) : SubSeq(screen, 0 + 1, k)[i] = screen[0 + i]
    <3>1. 0 \in Nat /\ 0 <= k /\ k <= Len(screen)
      BY <1>7
    <3> QED
      BY <1>7, <3>1, RowsBetween
  <2>2. 0 + 1 = 1 /\ k - 0 = k /\ \A i \in 1 .. k : 0 + i = i
    BY <1>7
  <2>3. SubSeq(screen, 0 + 1, k) = top
    BY <1>8, <2>2
  <2>4. ASSUME NEW i \in 1 .. k PROVE top[i] = screen[i]
    BY <2>1, <2>2, <2>3
  <2> QED
    BY <2>4
<1>10. \A i \in 1 .. (c - 1 - k) : screen[k + i] = screen2[i]
  <2>1. SubSeq(screen, k + 1, c - 1) = SubSeq(screen2, 1, c - 1 - k)
    BY <1>5 DEF ScrolledBy
  <2>2. PICK j \in Nat : j = c - 1
    BY <1>7
  <2>3. PICK w \in Nat : w = j - k /\ w <= Len(screen2)
    <3>1. j - k \in Nat /\ j - k <= Len(screen2)
      BY <1>6, <1>7, <2>2
    <3> QED
      BY <3>1
  <2>4. \A i \in 1 .. (j - k) : SubSeq(screen, k + 1, j)[i] = screen[k + i]
    BY <1>7, <2>2, RowsBetween
  <2>5. \A i \in 1 .. (w - 0) : SubSeq(screen2, 0 + 1, w)[i] = screen2[0 + i]
    <3>1. 0 \in Nat /\ 0 <= w
      BY <2>3
    <3> QED
      BY <2>3, <3>1, RowsBetween
  <2>6. 0 + 1 = 1 /\ w - 0 = w /\ \A i \in 1 .. w : 0 + i = i
    BY <2>3
  <2>7. SubSeq(screen, k + 1, j) = SubSeq(screen2, 0 + 1, w)
    BY <2>1, <2>2, <2>3, <2>6
  <2>8. ASSUME NEW i \in 1 .. w PROVE screen[k + i] = screen2[i]
    BY <2>3, <2>4, <2>5, <2>6, <2>7
  <2> QED
    BY <2>2, <2>3, <2>8
<1>11. n.history = b.history \o top
  <2>1. n.history = push_history(b.history, top)
    BY <1>1, <1>2, <1>3, <1>5, <1>8 DEF ScrolledBy
  <2> QED
    BY <1>3, <1>4, <1>8, <2>1, PushIs
<1>12. PICK hi : hi = High(b) /\ hi = High(n)
  BY <1>3 DEF High
<1>13. PICK h \in Nat : h = hi[1] /\ h < Len(b.history) + Len(b.live) /\ h < Len(n.history) + Len(n.live)
  <2>1. b.anchor # NoEnd /\ b.focus # NoEnd /\ n.anchor # NoEnd /\ n.focus # NoEnd
    BY <1>1, <1>3
  <2>2. Usable(High(b), b) /\ Usable(High(n), n)
    BY <1>3
  <2>3. hi[1] \in Nat /\ hi[1] < Len(b.history) + Len(b.live)
    BY <1>12, <2>1, <2>2, TextOf
  <2>4. hi[1] < Len(n.history) + Len(n.live)
    BY <1>12, <2>1, <2>2, TextOf
  <2> QED
    BY <2>3, <2>4
<1>14. h < Len(b.history) + c - 1
  BY <1>3, <1>5, <1>12, <1>13
<1>15. ASSUME NEW r \in 0 .. h
       PROVE  /\ r < Len(Combined(b)) /\ r < Len(Combined(n))
              /\ Combined(b)[r + 1] = Combined(n)[r + 1]
  <2>1. b.live = screen \/ b.live = <<>>
    BY <1>1, <1>3, <1>5
  <2>2. n.live = screen2 \/ n.live = <<>>
    BY <1>2, <1>3, <1>5
  <2>3. PICK past \in Seq(Nat), live \in Seq(Nat), past2 \in Seq(Nat), live2 \in Seq(Nat) :
          past = b.history /\ live = b.live /\ past2 = n.history /\ live2 = n.live
    BY <1>4
  <2>4. live = screen \/ live = <<>>
    BY <2>1, <2>3
  <2>5. live2 = screen2 \/ live2 = <<>>
    BY <2>2, <2>3
  <2>6. past2 = past \o top
    BY <1>11, <2>3
  <2>7. r \in Nat /\ r < Len(past) + Len(live) /\ r < Len(past2) + Len(live2) /\ r < Len(past) + c - 1
    <3>1. h < Len(past) + Len(live) /\ h < Len(past2) + Len(live2) /\ h < Len(past) + c - 1
      BY <1>13, <1>14, <2>3
    <3> QED
      BY <3>1, SMTT(30)
  <2>8. Len(top) = k /\ k \in Nat
    BY <1>7, <1>8
  <2>9. PICK all, all2 : all = past \o live /\ all2 = past2 \o live2
    OBVIOUS
  <2>10. Moved(past, live, screen, all, past2, live2, screen2, all2, top, k, c, r)
    BY <1>9, <1>10, <2>4, <2>5, <2>6, <2>7, <2>8, <2>9 DEF Moved
  <2>11. r < Len(all) /\ r < Len(all2) /\ all[r + 1] = all2[r + 1]
    BY <2>10, LinesStay, SMTT(30)
  <2>12. all = Combined(b) /\ all2 = Combined(n)
    BY <2>3, <2>9 DEF Combined
  <2> QED
    BY <2>11, <2>12
<1>16. extract_selection_text(n) = extract_selection_text(b)
  BY <1>1, <1>3, <1>12, <1>13, <1>15, SameText
<1> QED
  BY <1>3, <1>16

(* While output scrolls by, a selection of finished lines keeps its text:  *)
(* its ends count from the first line that is kept, and what leaves the    *)
(* screen goes to the end of those lines.                                  *)
THEOREM SelectionKeepsItsText ==
  BufferSpec => SelectionStaysPut
<1>1. BufferInit => HistoryInv
  BY HistoryInvInit
<1>2. HistoryInv /\ [BufferNext]_bufferVars => HistoryInv'
  BY HistoryInvNext
<1>3. HistoryInv /\ HistoryInv' /\ [BufferNext]_bufferVars
        => [buf.anchor # NoEnd /\ buf'.anchor = buf.anchor /\ buf'.focus = buf.focus
            /\ overlooked' = {} /\ Len(buf'.history) < MaxHistory /\ Len(grid'.rows) = Height /\ ~IsAlt
            /\ Usable(High(buf), buf) /\ Usable(High(buf'), buf')
            /\ High(buf)[1] < Len(buf.history) + grid.cursor - 1
            /\ (\E k \in 0..(grid.cursor - 1) : ScrolledBy(k))
            => extract_selection_text(buf') = extract_selection_text(buf)]_bufferVars
  BY HistoryInvNext, SelectionStaysThen
<1> QED
  BY <1>1, <1>2, <1>3, PTL DEF BufferSpec, SelectionStaysPut

(***************************************************************************)
(* The lists with groups.                                                  *)
(***************************************************************************)
(* Of the first k positions k is the last ...                              *)
LEMMA LastOfTheFirst ==
  ASSUME NEW n \in Nat, NEW k \in 1 .. n
  PROVE  Max(1 .. k) = k /\ (1 .. k) \ {k} = 1 .. (k - 1) /\ 1 .. k # {} /\ 1 .. k \in SUBSET (1 .. n)
<1>1. k \in Nat /\ k \in 1 .. k /\ 1 .. k \in SUBSET (1 .. k)
  OBVIOUS
<1>2. Max(1 .. k) \in 1 .. k /\ \A i \in 1 .. k : Max(1 .. k) >= i
  BY <1>1, MaxIsLast
<1>3. Max(1 .. k) \in 1 .. k /\ Max(1 .. k) >= k
  BY <1>1, <1>2
<1>4. Max(1 .. k) = k
  BY <1>3
<1> QED
  BY <1>1, <1>4

(* ... so that what a fold keeps from position to position is true of what *)
(* it returns.                                                             *)
LEMMA FoldInOrder ==
  ASSUME NEW n \in Nat, NEW B, NEW h, h[{}] \in B[0],
         \A k \in 1 .. n : h[1 .. (k - 1)] \in B[k - 1] => h[1 .. k] \in B[k]
  PROVE  h[1 .. n] \in B[n]
<1>1. PICK S : S = {m \in Nat : m <= n => h[1 .. m] \in B[m]}
  OBVIOUS
<1>2. 0 \in S
  <2>1. 1 .. 0 = {}
    OBVIOUS
  <2> QED
    BY <1>1, <2>1
<1>3. ASSUME NEW m \in Nat, m \in S PROVE m + 1 \in S
  <2> SUFFICES ASSUME m + 1 <= n PROVE h[1 .. (m + 1)] \in B[m + 1]
    BY <1>1
  <2>1. m + 1 \in 1 .. n /\ m + 1 - 1 = m
    OBVIOUS
  <2>2. h[1 .. m] \in B[m]
    BY <1>1, <1>3
  <2>3. PICK k \in 1 .. n : k = m + 1 /\ k - 1 = m
    BY <2>1
  <2>4. h[1 .. k] \in B[k]
    BY <2>2, <2>3
  <2> QED
    BY <2>3, <2>4
<1>4. n \in S
  BY <1>2, <1>3, CountingUp
<1> QED
  BY <1>4, <1>1

Picked(acc, x, T) == IF x \in T THEN Append(acc, x) ELSE acc
Added(acc, x)     == IF acc # <<>> /\ Last(acc) = x THEN acc ELSE Append(acc, x)

(* What is picked from a list ...                                          *)
LEMMA WhereInOrder ==
  ASSUME NEW E, NEW s \in Seq(E), NEW T,
         NEW G, <<>> \in G[0],
         \A k \in 1 .. Len(s) : \A acc \in Seq(E) :
           acc \in G[k - 1] => Picked(acc, s[k], T) \in G[k]
  PROVE  Where(s, T) \in Seq(E) /\ Where(s, T) \in G[Len(s)]
<1>0. PICK n \in Nat : n = Len(s) /\ DOMAIN s = 1 .. n
  OBVIOUS
<1> DEFINE Folds(h) == h = [u \in SUBSET (DOMAIN s) |->
                              IF u = {} THEN <<>> ELSE Picked(h[u \ {Max(u)}], s[Max(u)], T)]
<1>1. PICK step : step = [x \in Seq(E) \X (1 .. n) |-> Picked(x[1], s[x[2]], T)]
  OBVIOUS
<1>2. step \in [Seq(E) \X (1 .. n) -> Seq(E)]
  BY <1>0, <1>1 DEF Picked
<1>3. PICK g \in [SUBSET (1 .. n) -> Seq(E)] :
         \A u \in SUBSET (1 .. n) :
           g[u] = IF u = {} THEN <<>> ELSE step[<<g[u \ {Max(u)}], Max(u)>>]
  <2>1. \E g \in [SUBSET (1 .. n) -> Seq(E)] : IsFold(g, <<>>, n, step)
    <3>1. <<>> \in Seq(E)
      OBVIOUS
    <3> QED
      BY <1>2, <3>1, FoldExists
  <2> QED
    BY <2>1 DEF IsFold
<1>4. ASSUME NEW u \in SUBSET (1 .. n), u # {}
      PROVE  g[u] = Picked(g[u \ {Max(u)}], s[Max(u)], T)
  <2>1. Max(u) \in 1 .. n /\ u \ {Max(u)} \in SUBSET (1 .. n)
    BY <1>4, MaxIsLast
  <2> QED
    BY <2>1, <1>4, <1>3, <1>1
<1>5. Folds(g)
  <2>1. DOMAIN g = SUBSET (DOMAIN s) /\ g[{}] = <<>>
    BY <1>0, <1>3
  <2> QED
    BY <1>4, <2>1, <1>0
<1>6. PICK h : h = CHOOSE f : Folds(f)
  OBVIOUS
<1>7. Folds(h)
  BY <1>5, <1>6
<1>8. Where(s, T) = h[DOMAIN s]
  BY <1>6 DEF Where, Picked, FoldLeft, MapThenFoldSet
<1>9. PICK B : B = [k \in 0 .. n |-> {acc \in Seq(E) : acc \in G[k]}]
  OBVIOUS
<1>10. h[{}] \in B[0]
  <2>1. h[{}] = <<>>
    BY <1>0, <1>7
  <2> QED
    BY <2>1, <1>9
<1>11. ASSUME NEW k \in 1 .. n, h[1 .. (k - 1)] \in B[k - 1] PROVE h[1 .. k] \in B[k]
  <2>0. B[k - 1] = {acc \in Seq(E) : acc \in G[k - 1]} /\ B[k] = {acc \in Seq(E) : acc \in G[k]}
    <3>1. k \in 0 .. n /\ k - 1 \in 0 .. n
      OBVIOUS
    <3> QED
      BY <3>1, <1>9
  <2>1. Max(1 .. k) = k /\ (1 .. k) \ {k} = 1 .. (k - 1) /\ 1 .. k # {} /\ 1 .. k \in SUBSET (1 .. n)
    BY LastOfTheFirst
  <2>2. PICK acc \in Seq(E) : acc = h[1 .. (k - 1)] /\ acc \in G[k - 1]
    BY <2>0, <1>11
  <2>3. h[1 .. k] = Picked(acc, s[k], T)
    <3>1. PICK u \in SUBSET (DOMAIN s) : u = 1 .. k
      BY <2>1, <1>0
    <3>2. h[u] = Picked(h[u \ {Max(u)}], s[Max(u)], T)
      BY <1>7, <2>1, <3>1
    <3> QED
      BY <2>1, <2>2, <3>1, <3>2
  <2>4. Picked(acc, s[k], T) \in G[k] /\ Picked(acc, s[k], T) \in Seq(E)
    BY <2>2, <1>0 DEF Picked
  <2> QED
    BY <2>0, <2>3, <2>4
<1>12. h[1 .. n] \in B[n]
  BY <1>10, <1>11, FoldInOrder
<1>13. h[1 .. n] \in Seq(E) /\ h[1 .. n] \in G[n]
  BY <1>9, <1>12
<1> QED
  BY <1>13, <1>8, <1>0

(* ... lists one behind the other ...                                      *)
LEMMA JoinedInOrder ==
  ASSUME NEW E, NEW ss \in Seq(Seq(E)),
         NEW G, <<>> \in G[0],
         \A k \in 1 .. Len(ss) : \A acc \in Seq(E) :
           acc \in G[k - 1] => acc \o ss[k] \in G[k]
  PROVE  Joined(ss) \in Seq(E) /\ Joined(ss) \in G[Len(ss)]
<1>0. PICK n \in Nat : n = Len(ss) /\ DOMAIN ss = 1 .. n
  OBVIOUS
<1> DEFINE Folds(h) == h = [u \in SUBSET (DOMAIN ss) |->
                              IF u = {} THEN <<>> ELSE h[u \ {Max(u)}] \o ss[Max(u)]]
<1>1. PICK step : step = [x \in Seq(E) \X (1 .. n) |-> x[1] \o ss[x[2]]]
  OBVIOUS
<1>2. step \in [Seq(E) \X (1 .. n) -> Seq(E)]
  BY <1>0, <1>1
<1>3. PICK g \in [SUBSET (1 .. n) -> Seq(E)] :
         \A u \in SUBSET (1 .. n) :
           g[u] = IF u = {} THEN <<>> ELSE step[<<g[u \ {Max(u)}], Max(u)>>]
  <2>1. \E g \in [SUBSET (1 .. n) -> Seq(E)] : IsFold(g, <<>>, n, step)
    <3>1. <<>> \in Seq(E)
      OBVIOUS
    <3> QED
      BY <1>2, <3>1, FoldExists
  <2> QED
    BY <2>1 DEF IsFold
<1>4. ASSUME NEW u \in SUBSET (1 .. n), u # {}
      PROVE  g[u] = g[u \ {Max(u)}] \o ss[Max(u)]
  <2>1. Max(u) \in 1 .. n /\ u \ {Max(u)} \in SUBSET (1 .. n)
    BY <1>4, MaxIsLast
  <2> QED
    BY <2>1, <1>4, <1>3, <1>1
<1>5. Folds(g)
  <2>1. DOMAIN g = SUBSET (DOMAIN ss) /\ g[{}] = <<>>
    BY <1>0, <1>3
  <2> QED
    BY <1>4, <2>1, <1>0
<1>6. PICK h : h = CHOOSE f : Folds(f)
  OBVIOUS
<1>7. Folds(h)
  BY <1>5, <1>6
<1>8. Joined(ss) = h[DOMAIN ss]
  BY <1>6 DEF Joined, FoldLeft, MapThenFoldSet
<1>9. PICK B : B = [k \in 0 .. n |-> {acc \in Seq(E) : acc \in G[k]}]
  OBVIOUS
<1>10. h[{}] \in B[0]
  <2>1. h[{}] = <<>>
    BY <1>0, <1>7
  <2> QED
    BY <2>1, <1>9
<1>11. ASSUME NEW k \in 1 .. n, h[1 .. (k - 1)] \in B[k - 1] PROVE h[1 .. k] \in B[k]
  <2>0. B[k - 1] = {acc \in Seq(E) : acc \in G[k - 1]} /\ B[k] = {acc \in Seq(E) : acc \in G[k]}
    <3>1. k \in 0 .. n /\ k - 1 \in 0 .. n
      OBVIOUS
    <3> QED
      BY <3>1, <1>9
  <2>1. Max(1 .. k) = k /\ (1 .. k) \ {k} = 1 .. (k - 1) /\ 1 .. k # {} /\ 1 .. k \in SUBSET (1 .. n)
    BY LastOfTheFirst
  <2>2. PICK acc \in Seq(E) : acc = h[1 .. (k - 1)] /\ acc \in G[k - 1]
    BY <2>0, <1>11
  <2>3. h[1 .. k] = acc \o ss[k]
    <3>1. PICK u \in SUBSET (DOMAIN ss) : u = 1 .. k
      BY <2>1, <1>0
    <3>2. h[u] = h[u \ {Max(u)}] \o ss[Max(u)]
      BY <1>7, <2>1, <3>1
    <3> QED
      BY <2>1, <2>2, <3>1, <3>2
  <2>4. acc \o ss[k] \in G[k] /\ acc \o ss[k] \in Seq(E)
    BY <2>2, <1>0
  <2> QED
    BY <2>0, <2>3, <2>4
<1>12. h[1 .. n] \in B[n]
  BY <1>10, <1>11, FoldInOrder
<1>13. h[1 .. n] \in Seq(E) /\ h[1 .. n] \in G[n]
  BY <1>9, <1>12
<1> QED
  BY <1>13, <1>8, <1>0

(* ... and a list without equal neighbours are made step by step.          *)
LEMMA DedupedInOrder ==
  ASSUME NEW E, NEW s \in Seq(E),
         NEW G, <<>> \in G[0],
         \A k \in 1 .. Len(s) : \A acc \in Seq(E) :
           acc \in G[k - 1] => Added(acc, s[k]) \in G[k]
  PROVE  Deduped(s) \in Seq(E) /\ Deduped(s) \in G[Len(s)]
<1>0. PICK n \in Nat : n = Len(s) /\ DOMAIN s = 1 .. n
  OBVIOUS
<1> DEFINE Folds(h) == h = [u \in SUBSET (DOMAIN s) |->
                              IF u = {} THEN <<>> ELSE Added(h[u \ {Max(u)}], s[Max(u)])]
<1>1. PICK step : step = [x \in Seq(E) \X (1 .. n) |-> Added(x[1], s[x[2]])]
  OBVIOUS
<1>2. step \in [Seq(E) \X (1 .. n) -> Seq(E)]
  BY <1>0, <1>1 DEF Added
<1>3. PICK g \in [SUBSET (1 .. n) -> Seq(E)] :
         \A u \in SUBSET (1 .. n) :
           g[u] = IF u = {} THEN <<>> ELSE step[<<g[u \ {Max(u)}], Max(u)>>]
  <2>1. \E g \in [SUBSET (1 .. n) -> Seq(E)] : IsFold(g, <<>>, n, step)
    <3>1. <<>> \in Seq(E)
      OBVIOUS
    <3> QED
      BY <1>2, <3>1, FoldExists
  <2> QED
    BY <2>1 DEF IsFold
<1>4. ASSUME NEW u \in SUBSET (1 .. n), u # {}
      PROVE  g[u] = Added(g[u \ {Max(u)}], s[Max(u)])
  <2>1. Max(u) \in 1 .. n /\ u \ {Max(u)} \in SUBSET (1 .. n)
    BY <1>4, MaxIsLast
  <2> QED
    BY <2>1, <1>4, <1>3, <1>1
<1>5. Folds(g)
  <2>1. DOMAIN g = SUBSET (DOMAIN s) /\ g[{}] = <<>>
    BY <1>0, <1>3
  <2> QED
    BY <1>4, <2>1, <1>0
<1>6. PICK h : h = CHOOSE f : Folds(f)
  OBVIOUS
<1>7. Folds(h)
  BY <1>5, <1>6
<1>8. Deduped(s) = h[DOMAIN s]
  BY <1>6 DEF Deduped, Added, FoldLeft, MapThenFoldSet
<1>9. PICK B : B = [k \in 0 .. n |-> {acc \in Seq(E) : acc \in G[k]}]
  OBVIOUS
<1>10. h[{}] \in B[0]
  <2>1. h[{}] = <<>>
    BY <1>0, <1>7
  <2> QED
    BY <2>1, <1>9
<1>11. ASSUME NEW k \in 1 .. n, h[1 .. (k - 1)] \in B[k - 1] PROVE h[1 .. k] \in B[k]
  <2>0. B[k - 1] = {acc \in Seq(E) : acc \in G[k - 1]} /\ B[k] = {acc \in Seq(E) : acc \in G[k]}
    <3>1. k \in 0 .. n /\ k - 1 \in 0 .. n
      OBVIOUS
    <3> QED
      BY <3>1, <1>9
  <2>1. Max(1 .. k) = k /\ (1 .. k) \ {k} = 1 .. (k - 1) /\ 1 .. k # {} /\ 1 .. k \in SUBSET (1 .. n)
    BY LastOfTheFirst
  <2>2. PICK acc \in Seq(E) : acc = h[1 .. (k - 1)] /\ acc \in G[k - 1]
    BY <2>0, <1>11
  <2>3. h[1 .. k] = Added(acc, s[k])
    <3>1. PICK u \in SUBSET (DOMAIN s) : u = 1 .. k
      BY <2>1, <1>0
    <3>2. h[u] = Added(h[u \ {Max(u)}], s[Max(u)])
      BY <1>7, <2>1, <3>1
    <3> QED
      BY <2>1, <2>2, <3>1, <3>2
  <2>4. Added(acc, s[k]) \in G[k] /\ Added(acc, s[k]) \in Seq(E)
    BY <2>2, <1>0 DEF Added
  <2> QED
    BY <2>0, <2>3, <2>4
<1>12. h[1 .. n] \in B[n]
  BY <1>10, <1>11, FoldInOrder
<1>13. h[1 .. n] \in Seq(E) /\ h[1 .. n] \in G[n]
  BY <1>9, <1>12
<1> QED
  BY <1>13, <1>8, <1>0

(* A list is a function on its positions.                                  *)
LEMMA ListsAre ==
  ASSUME NEW R, NEW n \in Nat, NEW f \in [1 .. n -> R]
  PROVE  f \in Seq(R) /\ Len(f) = n
  OBVIOUS

(* Two lists, one behind the other.                                        *)
LEMMA TwoLists ==
  ASSUME NEW E, NEW s \in Seq(E), NEW t \in Seq(E)
  PROVE  /\ s \o t \in Seq(E) /\ Len(s \o t) = Len(s) + Len(t)
         /\ DOMAIN (s \o t) = 1 .. (Len(s) + Len(t))
         /\ \A i \in 1 .. Len(s) : (s \o t)[i] = s[i]
         /\ \A i \in 1 .. Len(t) : (s \o t)[Len(s) + i] = t[i]
  OBVIOUS

LEMMA OneMore ==
  ASSUME NEW E, NEW s \in Seq(E), NEW x \in E
  PROVE  /\ Append(s, x) \in Seq(E) /\ DOMAIN Append(s, x) = 1 .. (Len(s) + 1)
         /\ Len(Append(s, x)) = Len(s) + 1
         /\ \A i \in 1 .. Len(s) : Append(s, x)[i] = s[i]
         /\ Append(s, x)[Len(s) + 1] = x
  OBVIOUS

NoRepeats(s) == \A i, j \in DOMAIN s : s[i] = s[j] => i = j

(* What is picked is there, all of it, and no more often than it was.      *)
LEMMA WhereIs ==
  ASSUME NEW E, NEW s \in Seq(E), NEW T, NEW w, w = Where(s, T)
  PROVE  /\ w \in Seq(E)
         /\ ToSet(w) = {x \in ToSet(s) : x \in T}
         /\ NoRepeats(s) => NoRepeats(w)
<1> DEFINE Good(k, acc) ==
      /\ \A j \in DOMAIN acc : acc[j] \in T /\ \E i \in 1 .. k : acc[j] = s[i]
      /\ \A i \in 1 .. k : s[i] \in T => \E j \in DOMAIN acc : acc[j] = s[i]
      /\ NoRepeats(s) => NoRepeats(acc)
<1>1. PICK G : G = [k \in 0 .. Len(s) |-> {acc \in Seq(E) : Good(k, acc)}]
  OBVIOUS
<1>2. <<>> \in G[0]
  BY <1>1 DEF NoRepeats
<1>3. ASSUME NEW k \in 1 .. Len(s), NEW acc \in Seq(E), acc \in G[k - 1]
      PROVE  Picked(acc, s[k], T) \in G[k]
  <2>1. k - 1 \in 0 .. Len(s) /\ k \in 0 .. Len(s) /\ k \in 1 .. k /\ s[k] \in E
    OBVIOUS
  <2>2. Good(k - 1, acc)
    BY <1>3, <1>1, <2>1
  <2>3. \A i \in 1 .. k : i \in 1 .. (k - 1) \/ i = k
    OBVIOUS
  <2>4. CASE s[k] \in T
    <3>1. PICK n : n = Append(acc, s[k])
      OBVIOUS
    <3>2. /\ n \in Seq(E) /\ DOMAIN n = 1 .. (Len(acc) + 1) /\ DOMAIN acc = 1 .. Len(acc)
          /\ Len(acc) \in Nat
          /\ \A i \in 1 .. Len(acc) : n[i] = acc[i]
          /\ n[Len(acc) + 1] = s[k]
      BY <3>1, <2>1, OneMore
    <3>3. \A j \in DOMAIN n : n[j] \in T /\ \E i \in 1 .. k : n[j] = s[i]
      <4> TAKE j \in DOMAIN n
      <4>1. CASE j = Len(acc) + 1
        BY <4>1, <3>2, <2>4, <2>1
      <4>2. CASE j \in 1 .. Len(acc)
        BY <4>2, <3>2, <2>2
      <4> QED
        BY <4>1, <4>2, <3>2
    <3>4. \A i \in 1 .. k : s[i] \in T => \E j \in DOMAIN n : n[j] = s[i]
      <4> TAKE i \in 1 .. k
      <4>1. CASE i = k
        BY <4>1, <3>2
      <4>2. CASE i \in 1 .. (k - 1)
        BY <4>2, <3>2, <2>2
      <4> QED
        BY <4>1, <4>2, <2>3
    <3>5. ASSUME NoRepeats(s) PROVE NoRepeats(n)
      <4>1. \A j \in 1 .. Len(acc) : n[j] # s[k]
        <5> TAKE j \in 1 .. Len(acc)
        <5>1. PICK i \in 1 .. (k - 1) : acc[j] = s[i]
          BY <2>2, <3>2
        <5>2. i \in DOMAIN s /\ k \in DOMAIN s /\ i # k
          OBVIOUS
        <5> QED
          BY <5>1, <5>2, <3>5, <3>2 DEF NoRepeats
      <4>2. \A i, j \in 1 .. Len(acc) : acc[i] = acc[j] => i = j
        BY <2>2, <3>5, <3>2 DEF NoRepeats
      <4> QED
        BY <4>1, <4>2, <3>2 DEF NoRepeats
    <3> QED
      BY <3>1, <3>2, <3>3, <3>4, <3>5, <2>1, <2>4, <1>1 DEF Picked
  <2>5. CASE s[k] \notin T
    <3>1. Good(k, acc)
      BY <2>2, <2>3, <2>5
    <3> QED
      BY <3>1, <2>1, <2>5, <1>1 DEF Picked
  <2> QED
    BY <2>4, <2>5
<1>4. w \in Seq(E) /\ w \in G[Len(s)]
  BY <1>2, <1>3, WhereInOrder
<1>5. Len(s) \in 0 .. Len(s) /\ DOMAIN s = 1 .. Len(s)
  OBVIOUS
<1>6. Good(Len(s), w)
  BY <1>4, <1>1, <1>5
<1>7. \A l, x : x \in ToSet(l) <=> \E j \in DOMAIN l : l[j] = x
  BY DEF ToSet
<1>8. \A x \in ToSet(w) : x \in ToSet(s) /\ x \in T
  BY <1>5, <1>6, <1>7
<1>9. \A x \in ToSet(s) : x \in T => x \in ToSet(w)
  BY <1>5, <1>6, <1>7
<1>10. NoRepeats(s) => NoRepeats(w)
  BY <1>6
<1> QED
  BY <1>4, <1>8, <1>9, <1>10

(* The names of a list, in the order of their lower case forms.            *)
Ordered(s) == \A i, j \in DOMAIN s : i < j => Folded[s[i]] <= Folded[s[j]]

LEMMA SortedIs ==
  ASSUME NEW u \in Seq(GroupNames), NEW o, o = Sorted(u)
  PROVE  o \in Seq(GroupNames) /\ ToSet(o) = ToSet(u) /\ Ordered(o)
<1>0. PICK c \in Nat : c = Cardinality(Titles) + 1
  <2>1. Cardinality(Titles) \in Nat
    BY ListAssumption, FS_CardinalityType
  <2> QED
    BY <2>1
<1>1. PICK ss : ss = [n \in 1 .. c |-> Where(u, {g \in GroupNames : Folded[g] = n})]
  OBVIOUS
<1>2. \A n \in 1 .. c : /\ ss[n] \in Seq(GroupNames)
                        /\ ToSet(ss[n]) = {x \in ToSet(u) : Folded[x] = n}
  <2> TAKE n \in 1 .. c
  <2>1. PICK T : T = {g \in GroupNames : Folded[g] = n}
    OBVIOUS
  <2>2. ss[n] = Where(u, T)
    BY <1>1, <2>1
  <2>3. ss[n] \in Seq(GroupNames) /\ ToSet(ss[n]) = {x \in ToSet(u) : x \in T}
    BY <2>2, WhereIs
  <2>4. \A x \in ToSet(u) : x \in GroupNames
    BY DEF ToSet
  <2> QED
    BY <2>1, <2>3, <2>4
<1>3. ss \in Seq(Seq(GroupNames)) /\ Len(ss) = c
  BY <1>1, <1>2
<1>4. o = Joined(ss)
  BY <1>0, <1>1 DEF Sorted
<1>5. \A x \in ToSet(u) : x \in GroupNames /\ Folded[x] \in 1 .. c
  BY <1>0, ListAssumption DEF ToSet, GroupNames
<1> DEFINE Good(k, acc) ==
      /\ \A j \in DOMAIN acc : acc[j] \in ToSet(u) /\ Folded[acc[j]] <= k
      /\ \A x \in ToSet(u) : Folded[x] <= k => \E j \in DOMAIN acc : acc[j] = x
      /\ Ordered(acc)
<1>6. PICK G : G = [k \in 0 .. c |-> {acc \in Seq(GroupNames) : Good(k, acc)}]
  OBVIOUS
<1>7. <<>> \in G[0]
  BY <1>5, <1>6 DEF Ordered
<1>8. ASSUME NEW k \in 1 .. Len(ss), NEW acc \in Seq(GroupNames), acc \in G[k - 1]
      PROVE  acc \o ss[k] \in G[k]
  <2>1. k - 1 \in 0 .. c /\ k \in 0 .. c /\ k \in 1 .. c
    BY <1>3
  <2>2. Good(k - 1, acc)
    BY <1>8, <1>6, <2>1
  <2>3. PICK n : n = acc \o ss[k]
    OBVIOUS
  <2>4. PICK t \in Seq(GroupNames) : t = ss[k] /\ ToSet(t) = {x \in ToSet(u) : Folded[x] = k}
    BY <1>2, <2>1
  <2>5. /\ n \in Seq(GroupNames) /\ DOMAIN n = 1 .. (Len(acc) + Len(t))
        /\ DOMAIN acc = 1 .. Len(acc) /\ DOMAIN t = 1 .. Len(t)
        /\ Len(acc) \in Nat /\ Len(t) \in Nat
        /\ \A i \in 1 .. Len(acc) : n[i] = acc[i]
        /\ \A i \in 1 .. Len(t) : n[Len(acc) + i] = t[i]
    BY <2>3, <2>4, TwoLists
  <2>6. \A j \in 1 .. Len(t) : t[j] \in ToSet(u) /\ Folded[t[j]] = k
    <3> TAKE j \in 1 .. Len(t)
    <3>1. t[j] \in ToSet(t)
      BY <2>5 DEF ToSet
    <3> QED
      BY <3>1, <2>4
  <2>7. \A j \in DOMAIN n : j \in 1 .. Len(acc) \/ \E i \in 1 .. Len(t) : j = Len(acc) + i
    <3> TAKE j \in DOMAIN n
    <3>1. CASE j > Len(acc)
      <4>1. j - Len(acc) \in 1 .. Len(t) /\ j = Len(acc) + (j - Len(acc))
        BY <3>1, <2>5
      <4> QED
        BY <4>1
    <3> QED
      BY <3>1, <2>5
  <2>8. \A j \in 1 .. Len(acc) : n[j] \in ToSet(u) /\ Folded[n[j]] \in 1 .. c /\ Folded[n[j]] <= k - 1
    BY <2>2, <2>5, <1>5
  <2>9. \A j \in DOMAIN n : n[j] \in ToSet(u) /\ Folded[n[j]] <= k
    <3> TAKE j \in DOMAIN n
    <3>1. CASE j \in 1 .. Len(acc)
      BY <3>1, <2>8, <2>1
    <3>2. CASE j \notin 1 .. Len(acc)
      BY <3>2, <2>5, <2>6, <2>7, <2>1
    <3> QED
      BY <3>1, <3>2
  <2>10. \A x \in ToSet(u) : Folded[x] <= k => \E j \in DOMAIN n : n[j] = x
    <3> SUFFICES ASSUME NEW x \in ToSet(u), Folded[x] <= k PROVE \E j \in DOMAIN n : n[j] = x
      OBVIOUS
    <3>1. CASE Folded[x] = k
      <4>1. x \in ToSet(t)
        BY <2>4, <3>1
      <4>2. PICK i \in 1 .. Len(t) : t[i] = x
        BY <4>1, <2>5 DEF ToSet
      <4>3. Len(acc) + i \in DOMAIN n /\ n[Len(acc) + i] = x
        BY <4>2, <2>5
      <4> QED
        BY <4>3
    <3>2. CASE Folded[x] <= k - 1
      <4>1. PICK j \in 1 .. Len(acc) : acc[j] = x
        BY <3>2, <2>2, <2>5
      <4> QED
        BY <4>1, <2>5
    <3> QED
      BY <3>1, <3>2, <1>5, <2>1
  <2>11. Ordered(n)
    <3> SUFFICES ASSUME NEW i \in DOMAIN n, NEW j \in DOMAIN n, i < j
                 PROVE  Folded[n[i]] <= Folded[n[j]]
      BY DEF Ordered
    <3>1. CASE j \in 1 .. Len(acc)
      <4>1. i \in 1 .. Len(acc)
        BY <3>1, <2>5
      <4>2. Folded[acc[i]] <= Folded[acc[j]]
        BY <3>1, <4>1, <2>2, <2>5 DEF Ordered
      <4> QED
        BY <4>1, <4>2, <3>1, <2>5
    <3>2. CASE j \notin 1 .. Len(acc)
      <4>1. Folded[n[j]] = k
        BY <3>2, <2>5, <2>6, <2>7
      <4> QED
        BY <4>1, <2>9
    <3> QED
      BY <3>1, <3>2
  <2> QED
    BY <2>1, <2>3, <2>5, <2>9, <2>10, <2>11, <1>6
<1>9. Joined(ss) \in Seq(GroupNames) /\ Joined(ss) \in G[Len(ss)]
  BY <1>3, <1>7, <1>8, JoinedInOrder
<1>10. Good(c, o) /\ o \in Seq(GroupNames)
  <2>1. c \in 0 .. c
    OBVIOUS
  <2> QED
    BY <2>1, <1>9, <1>3, <1>4, <1>6
<1>11. ToSet(o) = ToSet(u)
  <2>1. \A x \in ToSet(u) : Folded[x] <= c
    BY <1>5
  <2>2. \A x \in ToSet(u) : \E j \in DOMAIN o : o[j] = x
    BY <2>1, <1>10
  <2>3. \A j \in DOMAIN o : o[j] \in ToSet(u)
    BY <1>10
  <2>4. \A x : x \in ToSet(o) <=> \E j \in DOMAIN o : o[j] = x
    BY DEF ToSet
  <2> QED
    BY <2>2, <2>3, <2>4
<1> QED
  BY <1>10, <1>11

(* Neighbours that are equal are shown once: no name of an ordered list is *)
(* left out, and none stays twice.                                         *)
OneCase(s) == \A x, y \in ToSet(s) : Folded[x] = Folded[y] => x = y

LEMMA DedupedIs ==
  ASSUME NEW o \in Seq(GroupNames), Ordered(o), NEW d, d = Deduped(o)
  PROVE  d \in Seq(GroupNames) /\ ToSet(d) = ToSet(o) /\ (OneCase(o) => NoRepeats(d))
<1>0. PICK c \in Nat : c = Cardinality(Titles) + 1
  <2>1. Cardinality(Titles) \in Nat
    BY ListAssumption, FS_CardinalityType
  <2> QED
    BY <2>1
<1>1. \A g \in GroupNames : Folded[g] \in 1 .. c
  BY <1>0, ListAssumption DEF GroupNames
<1>2. PICK m \in Nat : m = Len(o) /\ DOMAIN o = 1 .. m
  OBVIOUS
<1>3. \A i \in 1 .. m : o[i] \in GroupNames /\ Folded[o[i]] \in 1 .. c
  BY <1>1, <1>2
<1> DEFINE Good(k, acc) ==
      /\ \A j \in DOMAIN acc : \E i \in 1 .. k : acc[j] = o[i]
      /\ \A i \in 1 .. k : \E j \in DOMAIN acc : acc[j] = o[i]
      /\ k > 0 => Len(acc) > 0 /\ acc[Len(acc)] = o[k]
      /\ OneCase(o) => \A i, j \in DOMAIN acc : i < j => Folded[acc[i]] < Folded[acc[j]]
<1>4. PICK G : G = [k \in 0 .. m |-> {acc \in Seq(GroupNames) : Good(k, acc)}]
  OBVIOUS
<1>5. <<>> \in G[0]
  BY <1>4
<1>6. ASSUME NEW k \in 1 .. Len(o), NEW acc \in Seq(GroupNames), acc \in G[k - 1]
      PROVE  Added(acc, o[k]) \in G[k]
  <2>1. k - 1 \in 0 .. m /\ k \in 0 .. m /\ k \in 1 .. m /\ k \in 1 .. k
    BY <1>2
  <2>2. Good(k - 1, acc)
    BY <1>6, <1>4, <2>1
  <2>3. \A i \in 1 .. k : i \in 1 .. (k - 1) \/ i = k
    OBVIOUS
  <2>4. o[k] \in GroupNames
    BY <1>3, <2>1
  <2>5. PICK l \in Nat : l = Len(acc) /\ DOMAIN acc = 1 .. l /\ (acc # <<>> <=> l > 0)
    OBVIOUS
  <2>51. \A j \in 1 .. l : \E i \in 1 .. (k - 1) : acc[j] = o[i]
    BY <2>2, <2>5
  <2>52. \A i \in 1 .. (k - 1) : \E j \in 1 .. l : acc[j] = o[i]
    BY <2>2, <2>5
  <2>53. k - 1 > 0 => l > 0 /\ acc[l] = o[k - 1]
    BY <2>2, <2>5
  <2>54. OneCase(o) => \A i, j \in 1 .. l : i < j => Folded[acc[i]] < Folded[acc[j]]
    BY <2>2, <2>5
  <2>6. CASE acc # <<>> /\ Last(acc) = o[k]
    <3>1. l \in 1 .. l /\ acc[l] = o[k]
      BY <2>5, <2>6 DEF Last
    <3>2. \A i \in 1 .. k : \E j \in DOMAIN acc : acc[j] = o[i]
      BY <3>1, <2>52, <2>3, <2>5
    <3>3. \A j \in DOMAIN acc : \E i \in 1 .. k : acc[j] = o[i]
      BY <2>51, <2>5, <2>1
    <3>4. Good(k, acc)
      BY <3>1, <3>2, <3>3, <2>2, <2>5
    <3> QED
      BY <3>4, <2>1, <2>6, <1>4 DEF Added
  <2>7. CASE ~(acc # <<>> /\ Last(acc) = o[k])
    <3>1. PICK n : n = Append(acc, o[k])
      OBVIOUS
    <3>2. /\ n \in Seq(GroupNames) /\ DOMAIN n = 1 .. (l + 1) /\ Len(n) = l + 1
          /\ \A i \in 1 .. l : n[i] = acc[i]
          /\ n[l + 1] = o[k]
      BY <3>1, <2>4, <2>5, OneMore
    <3>3. \A j \in DOMAIN n : \E i \in 1 .. k : n[j] = o[i]
      <4> TAKE j \in DOMAIN n
      <4>1. CASE j = l + 1
        BY <4>1, <3>2, <2>1
      <4>2. CASE j \in 1 .. l
        <5>1. PICK i \in 1 .. (k - 1) : acc[j] = o[i]
          BY <4>2, <2>51
        <5>2. i \in 1 .. k /\ n[j] = o[i]
          BY <4>2, <5>1, <3>2
        <5> QED
          BY <5>2
      <4> QED
        BY <4>1, <4>2, <3>2
    <3>4. \A i \in 1 .. k : \E j \in DOMAIN n : n[j] = o[i]
      <4> TAKE i \in 1 .. k
      <4>1. CASE i = k
        BY <4>1, <3>2
      <4>2. CASE i \in 1 .. (k - 1)
        <5>1. PICK j \in 1 .. l : acc[j] = o[i]
          BY <4>2, <2>52
        <5>2. j \in DOMAIN n /\ n[j] = o[i]
          BY <5>1, <3>2
        <5> QED
          BY <5>2
      <4> QED
        BY <4>1, <4>2, <2>3
    <3>5. ASSUME OneCase(o), NEW i \in DOMAIN n, NEW j \in DOMAIN n, i < j
          PROVE  Folded[n[i]] < Folded[n[j]]
      <4>1. CASE j \in 1 .. l
        <5>1. i \in 1 .. l
          BY <4>1, <3>2, <3>5
        <5>2. Folded[acc[i]] < Folded[acc[j]]
          BY <4>1, <5>1, <2>54, <3>5
        <5> QED
          BY <4>1, <5>1, <5>2, <3>2
      <4>2. CASE j \notin 1 .. l
        <5>1. j = l + 1 /\ i \in 1 .. l /\ l > 0 /\ l \in 1 .. l
          BY <4>2, <3>2, <3>5
        <5>2. k - 1 > 0
          BY <5>1, <2>51, <2>1
        <5>3. acc[l] = o[k - 1] /\ acc[l] # o[k]
          BY <5>1, <5>2, <2>53, <2>5, <2>7 DEF Last
        <5>4. k - 1 \in DOMAIN o /\ k \in DOMAIN o /\ k - 1 < k
          BY <5>2, <2>1, <1>2
        <5>5. Folded[o[k - 1]] <= Folded[o[k]]
          BY <5>4 DEF Ordered
        <5>6. o[k - 1] \in ToSet(o) /\ o[k] \in ToSet(o)
          BY <5>4 DEF ToSet
        <5>7. Folded[o[k - 1]] # Folded[o[k]]
          BY <5>3, <5>6, <3>5 DEF OneCase
        <5>8. Folded[o[k - 1]] \in 1 .. c /\ Folded[o[k]] \in 1 .. c
          BY <5>4, <1>2, <1>3
        <5>9. Folded[acc[l]] < Folded[o[k]]
          BY <5>3, <5>5, <5>7, <5>8
        <5>10. i = l \/ Folded[acc[i]] < Folded[acc[l]]
          BY <5>1, <2>54, <3>5
        <5>11. acc[i] \in GroupNames
          BY <5>1, <2>5
        <5>12. Folded[acc[i]] \in 1 .. c
          BY <5>11, <1>1
        <5>13. Folded[acc[i]] < Folded[o[k]]
          BY <5>3, <5>8, <5>9, <5>10, <5>12
        <5> QED
          BY <5>1, <5>13, <3>2
      <4> QED
        BY <4>1, <4>2
    <3>6. Good(k, n)
      BY <3>2, <3>3, <3>4, <3>5, <2>5
    <3>7. G[k] = {e \in Seq(GroupNames) : Good(k, e)}
      BY <1>4, <2>1
    <3> HIDE DEF Good
    <3>8. n \in G[k]
      BY <3>2, <3>6, <3>7
    <3> QED
      BY <3>1, <3>8, <2>7 DEF Added
  <2> QED
    BY <2>6, <2>7
<1>7. d \in Seq(GroupNames) /\ d \in G[Len(o)]
  BY <1>5, <1>6, DedupedInOrder
<1>8. Good(m, d)
  <2>1. m \in 0 .. m
    OBVIOUS
  <2> QED
    BY <2>1, <1>7, <1>2, <1>4
<1>9. \A l, x : x \in ToSet(l) <=> \E j \in DOMAIN l : l[j] = x
  BY DEF ToSet
<1>10. \A x \in ToSet(d) : x \in ToSet(o)
  <2>1. \A j \in DOMAIN d : \E i \in DOMAIN o : d[j] = o[i]
    BY <1>8, <1>2
  <2> QED
    BY <2>1, <1>9
<1>11. \A x \in ToSet(o) : x \in ToSet(d)
  <2>1. \A i \in DOMAIN o : \E j \in DOMAIN d : d[j] = o[i]
    BY <1>8, <1>2
  <2> QED
    BY <2>1, <1>9
<1>12. ASSUME OneCase(o) PROVE NoRepeats(d)
  <2> SUFFICES ASSUME NEW i \in DOMAIN d, NEW j \in DOMAIN d, d[i] = d[j] PROVE i = j
    BY DEF NoRepeats
  <2>1. i \in Nat /\ j \in Nat /\ d[i] \in GroupNames
    BY <1>7
  <2>2. Folded[d[i]] \in 1 .. c
    BY <2>1, <1>1
  <2>3. ~(Folded[d[i]] < Folded[d[j]]) /\ ~(Folded[d[j]] < Folded[d[i]])
    BY <2>2
  <2>4. ~(i < j) /\ ~(j < i)
    BY <2>3, <1>8, <1>12
  <2> QED
    BY <2>1, <2>4
<1> QED
  BY <1>7, <1>10, <1>11, <1>12

(* The groups that are shown: all names in use, each once, and "default"   *)
(* when an entry has no group.                                             *)
Kinds == GroupNames \cup {NoGroup}

EntriesTyped(es) == es \in Seq([what : {es[i].what : i \in DOMAIN es}, group : Kinds])

LEMMA DefaultIsAName ==
  Default \in GroupNames /\ NoGroup \notin GroupNames /\ GroupNames \subseteq Nat
  BY ListAssumption DEF GroupNames, NoGroup

LEMMA EntriesAre ==
  ASSUME NEW es, EntriesTyped(es)
  PROVE  /\ Len(es) \in Nat /\ DOMAIN es = 1 .. Len(es)
         /\ \A i \in DOMAIN es : es[i].group \in Kinds
<1>1. PICK W : W = {es[i].what : i \in DOMAIN es}
  OBVIOUS
<1>2. PICK R : R = [what : W, group : Kinds]
  OBVIOUS
<1>3. es \in Seq(R)
  BY <1>1, <1>2 DEF EntriesTyped
<1>4. DOMAIN es = 1 .. Len(es) /\ Len(es) \in Nat /\ \A i \in DOMAIN es : es[i] \in R
  BY <1>3
<1>5. \A e \in R : e.group \in Kinds
  BY <1>2
<1> QED
  BY <1>4, <1>5

LEMMA UsedIs ==
  ASSUME NEW es, EntriesTyped(es), NEW gs \in Seq(GroupNames)
  PROVE  /\ Used(es, gs) \in Seq(GroupNames)
         /\ \A i \in DOMAIN es : es[i].group # NoGroup => es[i].group \in ToSet(Used(es, gs))
<1>1. PICK names : names = [i \in DOMAIN es |-> es[i].group]
  OBVIOUS
<1>2. names \in Seq(Kinds) /\ DOMAIN names = DOMAIN es
  BY <1>1, EntriesAre
<1>3. PICK w : w = Where(names, GroupNames)
  OBVIOUS
<1>4. w \in Seq(Kinds) /\ ToSet(w) = {x \in ToSet(names) : x \in GroupNames}
  BY <1>2, <1>3, WhereIs
<1>5. w \in Seq(GroupNames)
  <2>1. \A i \in DOMAIN w : w[i] \in GroupNames
    BY <1>4 DEF ToSet
  <2>2. Len(w) \in Nat /\ DOMAIN w = 1 .. Len(w) /\ w = [i \in 1 .. Len(w) |-> w[i]]
    BY <1>4
  <2> QED
    BY <2>1, <2>2
<1>6. PICK u : u = gs \o w
  OBVIOUS
<1>7. /\ u \in Seq(GroupNames) /\ DOMAIN u = 1 .. (Len(gs) + Len(w)) /\ Len(gs) \in Nat
      /\ DOMAIN w = 1 .. Len(w) /\ Len(w) \in Nat
      /\ \A i \in 1 .. Len(w) : u[Len(gs) + i] = w[i]
  BY <1>5, <1>6, TwoLists
<1>8. \A x \in ToSet(w) : x \in ToSet(u)
  <2> TAKE x \in ToSet(w)
  <2>1. PICK i \in 1 .. Len(w) : w[i] = x
    BY <1>7 DEF ToSet
  <2>2. Len(gs) + i \in DOMAIN u /\ u[Len(gs) + i] = x
    BY <2>1, <1>7
  <2> QED
    BY <2>2 DEF ToSet
<1>9. u = Used(es, gs)
  BY <1>1, <1>3, <1>6 DEF Used
<1>10. ASSUME NEW i \in DOMAIN es, es[i].group # NoGroup PROVE es[i].group \in ToSet(u)
  <2>1. names[i] = es[i].group /\ names[i] \in ToSet(names)
    BY <1>1 DEF ToSet
  <2>2. es[i].group \in GroupNames
    BY <1>10, EntriesAre DEF Kinds
  <2> QED
    BY <2>1, <2>2, <1>4, <1>8
<1> QED
  BY <1>7, <1>9, <1>10

Plain(es, gs) == Default \notin ToSet(Used(es, gs)) /\ OneCase(Used(es, gs))

LEMMA DisplayedIs ==
  ASSUME NEW es, EntriesTyped(es), NEW gs \in Seq(GroupNames), NEW d, d = Displayed(es, gs)
  PROVE  /\ d \in Seq(GroupNames)
         /\ \A i \in DOMAIN es :
              (IF es[i].group = NoGroup THEN Default ELSE es[i].group) \in ToSet(d)
         /\ Plain(es, gs) => NoRepeats(d)
<1>1. PICK u \in Seq(GroupNames) : u = Used(es, gs)
  BY UsedIs
<1>2. PICK o \in Seq(GroupNames) : o = Sorted(u) /\ ToSet(o) = ToSet(u) /\ Ordered(o)
  BY SortedIs
<1>3. PICK e \in Seq(GroupNames) : /\ e = Deduped(o) /\ ToSet(e) = ToSet(o)
                                   /\ (OneCase(o) => NoRepeats(e))
  BY <1>2, DedupedIs
<1>4. e = Named(es, gs)
  BY <1>1, <1>2, <1>3 DEF Named
<1>5. PICK f \in Seq(GroupNames) :
         f = IF \E i \in DOMAIN es : es[i].group = NoGroup THEN <<Default>> ELSE <<>>
  <2>1. <<Default>> \in Seq(GroupNames) /\ <<>> \in Seq(GroupNames)
    BY DefaultIsAName
  <2> QED
    BY <2>1
<1>6. d = f \o e
  BY <1>4, <1>5 DEF Displayed
<1>7. /\ d \in Seq(GroupNames) /\ DOMAIN d = 1 .. (Len(f) + Len(e)) /\ Len(f) \in Nat
      /\ DOMAIN e = 1 .. Len(e) /\ Len(e) \in Nat
      /\ \A i \in 1 .. Len(f) : d[i] = f[i]
      /\ \A i \in 1 .. Len(e) : d[Len(f) + i] = e[i]
  BY <1>6, TwoLists
<1>8. \A x \in ToSet(e) : x \in ToSet(d)
  <2> TAKE x \in ToSet(e)
  <2>1. PICK i \in 1 .. Len(e) : e[i] = x
    BY <1>7 DEF ToSet
  <2>2. Len(f) + i \in DOMAIN d /\ d[Len(f) + i] = x
    BY <2>1, <1>7
  <2> QED
    BY <2>2 DEF ToSet
<1>9. ASSUME NEW i \in DOMAIN es
      PROVE  (IF es[i].group = NoGroup THEN Default ELSE es[i].group) \in ToSet(d)
  <2>1. CASE es[i].group = NoGroup
    <3>1. f = <<Default>>
      BY <2>1, <1>5
    <3>2. Len(f) = 1 /\ f[1] = Default
      BY <3>1
    <3>3. 1 \in DOMAIN d /\ d[1] = Default
      BY <3>2, <1>7
    <3> QED
      BY <3>3, <2>1 DEF ToSet
  <2>2. CASE es[i].group # NoGroup
    BY <2>2, <1>1, <1>2, <1>3, <1>8, UsedIs
  <2> QED
    BY <2>1, <2>2
<1>10. ASSUME Plain(es, gs) PROVE NoRepeats(d)
  <2>1. OneCase(o) /\ Default \notin ToSet(e)
    BY <1>10, <1>1, <1>2, <1>3 DEF Plain, OneCase
  <2>2. \A i, j \in 1 .. Len(e) : e[i] = e[j] => i = j
    BY <2>1, <1>3, <1>7 DEF NoRepeats
  <2>3. \A i \in 1 .. Len(e) : e[i] # Default
    BY <2>1, <1>7 DEF ToSet
  <2>4. Len(f) = 0 \/ (Len(f) = 1 /\ f[1] = Default)
    BY <1>5
  <2> SUFFICES ASSUME NEW i \in DOMAIN d, NEW j \in DOMAIN d, d[i] = d[j] PROVE i = j
    BY DEF NoRepeats
  <2>5. \A k \in DOMAIN d : (k = 1 /\ Len(f) = 1 /\ d[k] = Default)
                            \/ \E n \in 1 .. Len(e) : k = Len(f) + n /\ d[k] = e[n]
    <3> TAKE k \in DOMAIN d
    <3>1. CASE k > Len(f)
      <4>1. k - Len(f) \in 1 .. Len(e) /\ k = Len(f) + (k - Len(f))
        BY <3>1, <1>7
      <4> QED
        BY <4>1, <1>7
    <3>2. CASE k <= Len(f)
      <4>1. k = 1 /\ Len(f) = 1
        BY <3>2, <2>4, <1>7
      <4> QED
        BY <4>1, <2>4, <1>7
    <3> QED
      BY <3>1, <3>2, <1>7
  <2>6. CASE i = 1 /\ Len(f) = 1 /\ d[i] = Default
    <3>1. ~\E n \in 1 .. Len(e) : j = Len(f) + n /\ d[j] = e[n]
      BY <2>3, <2>6
    <3> QED
      BY <3>1, <2>5, <2>6
  <2>7. CASE \E n \in 1 .. Len(e) : i = Len(f) + n /\ d[i] = e[n]
    <3>1. PICK n \in 1 .. Len(e) : i = Len(f) + n /\ d[i] = e[n]
      BY <2>7
    <3>2. d[j] # Default
      BY <3>1, <2>3
    <3>3. PICK m \in 1 .. Len(e) : j = Len(f) + m /\ d[j] = e[m]
      BY <3>2, <2>5
    <3>4. n = m
      BY <3>1, <3>3, <2>2
    <3> QED
      BY <3>1, <3>3, <3>4
  <2> QED
    BY <2>5, <2>6, <2>7
<1> QED
  BY <1>7, <1>9, <1>10

(* The entries of a group, each once.                                      *)
Key(g) == IF g = Default THEN NoGroup ELSE g

LEMMA MembersAre ==
  ASSUME NEW es, EntriesTyped(es), NEW g
  PROVE  /\ Members(es, g) \in Seq(1 .. Len(es))
         /\ \A i \in DOMAIN es :
              es[i].group = Key(g) <=> \E j \in DOMAIN Members(es, g) : Members(es, g)[j] = i
         /\ NoRepeats(Members(es, g))
<1>1. PICK m \in Nat : m = Len(es) /\ DOMAIN es = 1 .. m
  BY EntriesAre
<1>2. PICK s : s = [i \in DOMAIN es |-> i]
  OBVIOUS
<1>3. s \in Seq(1 .. m) /\ DOMAIN s = 1 .. m /\ \A i \in 1 .. m : s[i] = i
  BY <1>1, <1>2
<1>4. PICK T : T = {i \in DOMAIN es : es[i].group = Key(g)}
  OBVIOUS
<1>5. PICK w : w = Where(s, T)
  OBVIOUS
<1>6. w = Members(es, g)
  BY <1>2, <1>4, <1>5 DEF Members, Key
<1>7. w \in Seq(1 .. m) /\ ToSet(w) = {x \in ToSet(s) : x \in T} /\ (NoRepeats(s) => NoRepeats(w))
  BY <1>3, <1>5, WhereIs
<1>8. NoRepeats(s)
  BY <1>3 DEF NoRepeats
<1>9. \A x : x \in ToSet(w) <=> \E j \in DOMAIN w : w[j] = x
  BY DEF ToSet
<1>10. \A i \in 1 .. m : i \in ToSet(s)
  BY <1>3 DEF ToSet
<1>11. \A i \in DOMAIN es : i \in T <=> i \in ToSet(w)
  BY <1>1, <1>7, <1>10
<1>12. \A i \in DOMAIN es : es[i].group = Key(g) <=> i \in T
  BY <1>4
<1>13. \A i \in DOMAIN es : es[i].group = Key(g) <=> \E j \in DOMAIN w : w[j] = i
  BY <1>9, <1>11, <1>12
<1> QED
  BY <1>1, <1>6, <1>7, <1>8, <1>13

(* What the rows say of the entries, whichever groups are shown: of a row  *)
(* with an entry, that it is that entry, and of its group.                 *)
RowIsRight(es, r) ==
  /\ r.group \in GroupNames
  /\ r.index # 0 => /\ r.index \in DOMAIN es /\ es[r.index].what = r.what
                    /\ es[r.index].group = Key(r.group)

RowType(es) ==
  [group : GroupNames, header : BOOLEAN, closed : BOOLEAN, index : Nat,
   what : {0} \cup {es[i].what : i \in DOMAIN es}]

LEMMA RowsOfAre ==
  ASSUME NEW es, EntriesTyped(es), NEW g \in GroupNames, NEW cl, NEW rs, rs = RowsOf(es, g, cl)
  PROVE  /\ rs \in Seq(RowType(es)) /\ Len(rs) > 0
         /\ \A j \in DOMAIN rs : /\ RowIsRight(es, rs[j]) /\ rs[j].group = g
                                 /\ rs[j].header <=> j = 1
         /\ \A i \in DOMAIN es : es[i].group = Key(g) => \E j \in DOMAIN rs : rs[j].index = i
         /\ \A i, j \in DOMAIN rs : rs[i].index = rs[j].index => i = j
<1>1. PICK m \in Nat : m = Len(es) /\ DOMAIN es = 1 .. m
  BY EntriesAre
<1>2. PICK ms \in Seq(1 .. m) :
         /\ ms = Members(es, g) /\ NoRepeats(ms)
         /\ \A i \in DOMAIN es : es[i].group = Key(g) <=> \E j \in DOMAIN ms : ms[j] = i
  BY <1>1, MembersAre
<1>3. PICK l \in Nat : l = Len(ms) /\ DOMAIN ms = 1 .. l /\ (ms = <<>> <=> l = 0)
  OBVIOUS
<1>4. PICK n \in Nat : n = IF l = 0 THEN 1 ELSE l
  OBVIOUS
<1>5. rs = [j \in 1 .. n |-> [group |-> g, header |-> j = 1, closed |-> g \in cl,
                              index |-> IF l = 0 THEN 0 ELSE ms[j],
                              what |-> IF l = 0 THEN 0 ELSE es[ms[j]].what]]
  BY <1>2, <1>3, <1>4 DEF RowsOf
<1>6. DOMAIN rs = 1 .. n /\ n > 0
  BY <1>4, <1>5
<1>7. \A j \in 1 .. n : /\ rs[j].group = g /\ rs[j].header = (j = 1) /\ rs[j].closed = (g \in cl)
                        /\ rs[j].index = IF l = 0 THEN 0 ELSE ms[j]
                        /\ rs[j].what = IF l = 0 THEN 0 ELSE es[ms[j]].what
  BY <1>5
<1>8. \A j \in 1 .. n : l # 0 => j \in DOMAIN ms /\ ms[j] \in DOMAIN es /\ ms[j] \in Nat /\ ms[j] # 0
  BY <1>1, <1>3, <1>4
<1>9. rs \in Seq(RowType(es))
  <2>1. PICK W : W = {0} \cup {es[i].what : i \in DOMAIN es}
    OBVIOUS
  <2>2. ASSUME NEW j \in 1 .. n PROVE rs[j] \in RowType(es)
    <3>1. (IF l = 0 THEN 0 ELSE ms[j]) \in Nat
      BY <1>8
    <3>2. (IF l = 0 THEN 0 ELSE es[ms[j]].what) \in W
      BY <1>8, <2>1
    <3>3. rs[j] = [group |-> g, header |-> j = 1, closed |-> g \in cl,
                   index |-> IF l = 0 THEN 0 ELSE ms[j],
                   what |-> IF l = 0 THEN 0 ELSE es[ms[j]].what]
      BY <1>5
    <3>4. (j = 1) \in BOOLEAN /\ (g \in cl) \in BOOLEAN
      OBVIOUS
    <3>5. PICK hd \in BOOLEAN, c \in BOOLEAN, ix \in Nat, w \in W :
             rs[j] = [group |-> g, header |-> hd, closed |-> c, index |-> ix, what |-> w]
      BY <3>1, <3>2, <3>3, <3>4, ZenonT(30)
    <3> QED
      BY <3>5, <2>1 DEF RowType
  <2>3. PICK R : R = RowType(es)
    OBVIOUS
  <2>4. \A j \in 1 .. n : rs[j] \in R
    BY <2>2, <2>3
  <2>5. rs = [j \in 1 .. n |-> rs[j]]
    BY <1>5
  <2>6. rs \in [1 .. n -> R]
    BY <2>4, <2>5
  <2>7. rs \in Seq(R)
    BY <2>6, ListsAre
  <2> QED
    BY <2>3, <2>7
<1>10. Len(rs) > 0
  BY <1>6, <1>9
<1>11. ASSUME NEW j \in DOMAIN rs
       PROVE  RowIsRight(es, rs[j]) /\ rs[j].group = g /\ (rs[j].header <=> j = 1)
  <2>1. j \in 1 .. n
    BY <1>6
  <2>2. rs[j].group = g /\ rs[j].header = (j = 1)
    BY <2>1, <1>7
  <2>3. CASE l = 0
    BY <2>1, <2>2, <2>3, <1>7 DEF RowIsRight
  <2>4. CASE l # 0
    <3>1. rs[j].index = ms[j] /\ rs[j].what = es[ms[j]].what
      BY <2>1, <2>4, <1>7
    <3>2. j \in DOMAIN ms /\ ms[j] \in DOMAIN es
      BY <2>1, <2>4, <1>8
    <3>3. es[ms[j]].group = Key(g)
      BY <3>2, <1>2
    <3> QED
      BY <2>2, <3>1, <3>2, <3>3 DEF RowIsRight
  <2> QED
    BY <2>3, <2>4
<1>12. ASSUME NEW i \in DOMAIN es, es[i].group = Key(g) PROVE \E j \in DOMAIN rs : rs[j].index = i
  <2>1. PICK j \in DOMAIN ms : ms[j] = i
    BY <1>2, <1>12
  <2>2. l # 0 /\ j \in 1 .. n
    BY <1>3, <1>4
  <2>3. rs[j].index = i
    BY <2>1, <2>2, <1>7
  <2> QED
    BY <2>2, <2>3, <1>6
<1>13. ASSUME NEW i \in DOMAIN rs, NEW j \in DOMAIN rs, rs[i].index = rs[j].index PROVE i = j
  <2>1. i \in 1 .. n /\ j \in 1 .. n
    BY <1>6
  <2>2. CASE l = 0
    BY <2>1, <2>2, <1>4
  <2>3. CASE l # 0
    <3>1. ms[i] = ms[j] /\ i \in DOMAIN ms /\ j \in DOMAIN ms
      BY <2>1, <2>3, <1>7, <1>8, <1>13
    <3> QED
      BY <3>1, <1>2 DEF NoRepeats
  <2> QED
    BY <2>2, <2>3
<1> QED
  BY <1>9, <1>10, <1>11, <1>12, <1>13

(* The rows of the groups, one group behind the other: all entries of the  *)
(* groups so far, and if no group is among them twice, each once, below    *)
(* the header of its group.                                                *)
Grouped(es, d, k, acc) ==
  /\ \A n \in DOMAIN acc : RowIsRight(es, acc[n]) /\ \E m \in 1 .. k : d[m] = acc[n].group
  /\ \A i \in DOMAIN es :
       (\E m \in 1 .. k : es[i].group = Key(d[m])) => \E n \in DOMAIN acc : acc[n].index = i

Single(acc) ==
  /\ \A n, m \in DOMAIN acc : acc[n].index = acc[m].index => n = m \/ acc[n].index = 0
  /\ \A n \in DOMAIN acc : acc[n].header <=> ~\E m \in 1 .. (n - 1) : acc[m].group = acc[n].group
  /\ \A n \in DOMAIN acc : n > 1 /\ ~acc[n].header => acc[n - 1].group = acc[n].group

LEMMA KeysDiffer ==
  ASSUME NEW g \in GroupNames, NEW h \in GroupNames, Key(g) = Key(h)
  PROVE  g = h
  BY DefaultIsAName DEF Key

LEMMA NextGroup ==
  ASSUME NEW es, EntriesTyped(es), NEW d \in Seq(GroupNames), NEW cl, NEW k \in DOMAIN d,
         NEW acc \in Seq(RowType(es)), Grouped(es, d, k - 1, acc), NoRepeats(d) => Single(acc)
  PROVE  /\ Grouped(es, d, k, acc \o RowsOf(es, d[k], cl))
         /\ NoRepeats(d) => Single(acc \o RowsOf(es, d[k], cl))
<1>1. PICK t : t = RowsOf(es, d[k], cl)
  OBVIOUS
<1>2. PICK R : R = RowType(es)
  OBVIOUS
<1>3. PICK g \in GroupNames : g = d[k] /\ k \in Nat /\ k \in 1 .. k
  OBVIOUS
<1>4. t \in Seq(R) /\ Len(t) > 0 /\ acc \in Seq(R)
  BY <1>1, <1>2, <1>3, RowsOfAre
<1>5. /\ \A j \in DOMAIN t : RowIsRight(es, t[j]) /\ t[j].group = g /\ (t[j].header <=> j = 1)
      /\ \A i \in DOMAIN es : es[i].group = Key(g) => \E j \in DOMAIN t : t[j].index = i
      /\ \A i, j \in DOMAIN t : t[i].index = t[j].index => i = j
  BY <1>1, <1>3, RowsOfAre
<1>6. PICK a \in Nat, b \in Nat : a = Len(acc) /\ b = Len(t)
  BY <1>4
<1>7. PICK n : n = acc \o t
  OBVIOUS
<1>8. /\ DOMAIN n = 1 .. (a + b) /\ DOMAIN acc = 1 .. a /\ DOMAIN t = 1 .. b /\ b > 0
      /\ \A i \in 1 .. a : n[i] = acc[i]
      /\ \A i \in 1 .. b : n[a + i] = t[i]
  BY <1>4, <1>6, <1>7, TwoLists
<1>9. \A j \in DOMAIN n : j \in 1 .. a \/ \E i \in 1 .. b : j = a + i
  <2> TAKE j \in DOMAIN n
  <2>1. CASE j > a
    <3>1. j - a \in 1 .. b /\ j = a + (j - a)
      BY <2>1, <1>8
    <3> QED
      BY <3>1
  <2> QED
    BY <2>1, <1>8
<1>10. /\ \A i \in 1 .. a : RowIsRight(es, acc[i]) /\ \E m \in 1 .. (k - 1) : d[m] = acc[i].group
       /\ \A i \in DOMAIN es : (\E m \in 1 .. (k - 1) : es[i].group = Key(d[m]))
                               => \E j \in 1 .. a : acc[j].index = i
  BY <1>8 DEF Grouped
<1>11. \A m \in 1 .. (k - 1) : m \in 1 .. k
  BY <1>3
<1>12. \A m \in 1 .. k : m \in 1 .. (k - 1) \/ m = k
  BY <1>3
<1>13. \A j \in DOMAIN n : RowIsRight(es, n[j]) /\ \E m \in 1 .. k : d[m] = n[j].group
  <2> TAKE j \in DOMAIN n
  <2>1. CASE j \in 1 .. a
    BY <2>1, <1>8, <1>10, <1>11
  <2>2. CASE \E i \in 1 .. b : j = a + i
    <3>1. PICK i \in 1 .. b : j = a + i
      BY <2>2
    <3>2. n[j] = t[i] /\ i \in DOMAIN t
      BY <3>1, <1>8
    <3> QED
      BY <3>2, <1>5, <1>3
  <2> QED
    BY <2>1, <2>2, <1>9
<1>14. ASSUME NEW i \in DOMAIN es, NEW m \in 1 .. k, es[i].group = Key(d[m])
       PROVE  \E j \in DOMAIN n : n[j].index = i
  <2>1. CASE m = k
    <3>1. PICK j \in 1 .. b : t[j].index = i
      BY <1>14, <2>1, <1>3, <1>5, <1>8
    <3>2. a + j \in DOMAIN n /\ n[a + j].index = i
      BY <3>1, <1>8
    <3> QED
      BY <3>2
  <2>2. CASE m \in 1 .. (k - 1)
    <3>1. PICK j \in 1 .. a : acc[j].index = i
      BY <1>14, <2>2, <1>10
    <3>2. j \in DOMAIN n /\ n[j].index = i
      BY <3>1, <1>8
    <3> QED
      BY <3>2
  <2> QED
    BY <2>1, <2>2, <1>12
<1>15. Grouped(es, d, k, n)
  BY <1>13, <1>14 DEF Grouped
<1>16. ASSUME NoRepeats(d) PROVE Single(n)
  <2>1. /\ \A i, j \in 1 .. a : acc[i].index = acc[j].index => i = j \/ acc[i].index = 0
        /\ \A i \in 1 .. a : acc[i].header <=> ~\E m \in 1 .. (i - 1) : acc[m].group = acc[i].group
        /\ \A i \in 1 .. a : i > 1 /\ ~acc[i].header => acc[i - 1].group = acc[i].group
    BY <1>16, <1>8 DEF Single
  <2>2. \A i \in 1 .. a : acc[i].group # g /\ acc[i].group \in GroupNames
    <3> TAKE i \in 1 .. a
    <3>1. PICK m \in 1 .. (k - 1) : d[m] = acc[i].group
      BY <1>10
    <3>2. m \in DOMAIN d /\ m # k
      BY <3>1
    <3> QED
      BY <3>1, <3>2, <1>3, <1>10, <1>16 DEF NoRepeats, RowIsRight
  <2>3. \A i \in 1 .. a, j \in 1 .. b : acc[i].index = t[j].index => acc[i].index = 0
    <3> SUFFICES ASSUME NEW i \in 1 .. a, NEW j \in 1 .. b, acc[i].index = t[j].index, acc[i].index # 0
                 PROVE  FALSE
      OBVIOUS
    <3>1. es[acc[i].index].group = Key(acc[i].group)
      BY <1>10 DEF RowIsRight
    <3>2. es[t[j].index].group = Key(g)
      BY <1>5, <1>8 DEF RowIsRight
    <3> QED
      BY <3>1, <3>2, <2>2, KeysDiffer
  <2>4. \A i, j \in DOMAIN n : n[i].index = n[j].index => i = j \/ n[i].index = 0
    <3> SUFFICES ASSUME NEW i \in DOMAIN n, NEW j \in DOMAIN n, n[i].index = n[j].index, n[i].index # 0
                 PROVE  i = j
      OBVIOUS
    <3>1. CASE i \in 1 .. a
      <4>1. j \in 1 .. a
        BY <3>1, <2>3, <1>8, <1>9
      <4> QED
        BY <4>1, <3>1, <2>1, <1>8
    <3>2. CASE i \notin 1 .. a
      <4>1. PICK x \in 1 .. b : i = a + x
        BY <3>2, <1>9
      <4>2. j \notin 1 .. a
        BY <4>1, <2>3, <1>8
      <4>3. PICK y \in 1 .. b : j = a + y
        BY <4>2, <1>9
      <4>4. t[x].index = t[y].index
        BY <4>1, <4>3, <1>8
      <4> QED
        BY <4>1, <4>3, <4>4, <1>5, <1>8
    <3> QED
      BY <3>1, <3>2
  <2>5. ASSUME NEW j \in DOMAIN n
        PROVE  /\ n[j].header <=> ~\E m \in 1 .. (j - 1) : n[m].group = n[j].group
               /\ j > 1 /\ ~n[j].header => n[j - 1].group = n[j].group
    <3>1. CASE j \in 1 .. a
      <4>1. \A m \in 1 .. (j - 1) : n[m] = acc[m]
        BY <3>1, <1>8
      <4>2. n[j] = acc[j] /\ (j > 1 => n[j - 1] = acc[j - 1])
        BY <3>1, <1>8
      <4>3. n[j].header = acc[j].header /\ n[j].group = acc[j].group
        BY <4>2
      <4>4. (\E m \in 1 .. (j - 1) : n[m].group = n[j].group)
            <=> \E m \in 1 .. (j - 1) : acc[m].group = acc[j].group
        BY <4>1, <4>3
      <4>5. /\ acc[j].header <=> ~\E m \in 1 .. (j - 1) : acc[m].group = acc[j].group
            /\ j > 1 /\ ~acc[j].header => acc[j - 1].group = acc[j].group
        BY <3>1, <2>1
      <4>6. n[j].header <=> ~\E m \in 1 .. (j - 1) : n[m].group = n[j].group
        BY <4>3, <4>4, <4>5
      <4>7. j > 1 /\ ~n[j].header => n[j - 1].group = n[j].group
        BY <4>2, <4>3, <4>5
      <4> QED
        BY <4>6, <4>7
    <3>2. CASE j \notin 1 .. a
      <4>1. PICK y \in 1 .. b : j = a + y
        BY <3>2, <1>9
      <4>2. n[j] = t[y] /\ n[j].group = g /\ (n[j].header <=> y = 1)
        <5>1. n[j] = t[y] /\ y \in DOMAIN t
          BY <4>1, <1>8
        <5>2. t[y].group = g /\ (t[y].header <=> y = 1)
          BY <5>1, <1>5
        <5>3. n[j].group = t[y].group /\ n[j].header = t[y].header
          BY <5>1
        <5> QED
          BY <5>1, <5>2, <5>3
      <4>3. CASE y = 1
        <5>1. \A m \in 1 .. (j - 1) : n[m].group # g
          BY <4>1, <4>3, <2>2, <1>8
        <5> QED
          BY <5>1, <4>2, <4>3
      <4>4. CASE y # 1
        <5>1. PICK z \in 1 .. b : z = y - 1
          BY <4>4
        <5>2. j - 1 = a + z /\ j - 1 \in 1 .. (j - 1)
          BY <5>1, <4>1
        <5>3. n[j - 1] = t[z] /\ t[z].group = g
          BY <5>1, <5>2, <1>5, <1>8
        <5> QED
          BY <5>2, <5>3, <4>2, <4>4
      <4> QED
        BY <4>3, <4>4
    <3> QED
      BY <3>1, <3>2
  <2> QED
    BY <2>4, <2>5 DEF Single
<1> QED
  BY <1>1, <1>7, <1>15, <1>16

LEMMA ModelIs ==
  ASSUME NEW es, EntriesTyped(es), NEW gs \in Seq(GroupNames), NEW cl, NEW rs, rs = Model(es, gs, cl)
  PROVE  /\ \A n \in DOMAIN rs : RowIsRight(es, rs[n])
         /\ Plain(es, gs) => /\ Single(rs)
                             /\ \A i \in DOMAIN es : \E n \in DOMAIN rs : rs[n].index = i
<1>1. PICK d \in Seq(GroupNames) :
         /\ d = Displayed(es, gs) /\ (Plain(es, gs) => NoRepeats(d))
         /\ \A i \in DOMAIN es : (IF es[i].group = NoGroup THEN Default ELSE es[i].group) \in ToSet(d)
  BY DisplayedIs
<1>2. PICK c \in Nat : c = Len(d) /\ DOMAIN d = 1 .. c
  OBVIOUS
<1>3. PICK R : R = RowType(es)
  OBVIOUS
<1>4. PICK ss : ss = [n \in 1 .. c |-> RowsOf(es, d[n], cl)]
  OBVIOUS
<1>5. \A n \in 1 .. c : ss[n] = RowsOf(es, d[n], cl) /\ ss[n] \in Seq(R)
  BY <1>2, <1>3, <1>4, RowsOfAre
<1>6. ss \in Seq(Seq(R)) /\ Len(ss) = c
  <2>1. PICK Rows : Rows = Seq(R)
    OBVIOUS
  <2>2. ss \in [1 .. c -> Rows]
    BY <1>4, <1>5, <2>1
  <2> QED
    BY <2>1, <2>2, ListsAre
<1>7. rs = Joined(ss)
  BY <1>1, <1>2, <1>4 DEF Model
<1> DEFINE Good(k, acc) == Grouped(es, d, k, acc) /\ (NoRepeats(d) => Single(acc))
<1>8. PICK G : G = [k \in 0 .. c |-> {acc \in Seq(R) : Good(k, acc)}]
  OBVIOUS
<1>9. <<>> \in G[0]
  <2>1. Good(0, <<>>)
    BY DEF Grouped, Single
  <2> QED
    BY <2>1, <1>8
<1>10. ASSUME NEW k \in 1 .. Len(ss), NEW acc \in Seq(R), acc \in G[k - 1]
       PROVE  acc \o ss[k] \in G[k]
  <2>1. k \in 1 .. c /\ k - 1 \in 0 .. c /\ k \in 0 .. c
    BY <1>6
  <2>2. G[k - 1] = {x \in Seq(R) : Good(k - 1, x)} /\ G[k] = {x \in Seq(R) : Good(k, x)}
    BY <1>8, <2>1
  <2> HIDE DEF Good
  <2>3. Good(k - 1, acc)
    BY <1>10, <2>2
  <2>4. Good(k, acc \o ss[k])
    BY <1>2, <1>3, <1>5, <2>1, <2>3, NextGroup DEF Good
  <2>5. acc \o ss[k] \in Seq(R)
    BY <1>5, <2>1, TwoLists
  <2> QED
    BY <2>2, <2>4, <2>5
<1>11. Joined(ss) \in Seq(R) /\ Joined(ss) \in G[Len(ss)]
  BY <1>6, <1>9, <1>10, JoinedInOrder
<1>12. Good(c, rs)
  <2>1. c \in 0 .. c
    OBVIOUS
  <2>2. G[c] = {x \in Seq(R) : Good(c, x)}
    BY <1>8, <2>1
  <2> HIDE DEF Good
  <2> QED
    BY <2>2, <1>6, <1>7, <1>11
<1>13. ASSUME Plain(es, gs), NEW i \in DOMAIN es PROVE \E n \in DOMAIN rs : rs[n].index = i
  <2>1. PICK g \in GroupNames : /\ g = IF es[i].group = NoGroup THEN Default ELSE es[i].group
                                /\ g \in ToSet(d)
    BY <1>1, EntriesAre, DefaultIsAName DEF Kinds
  <2>2. PICK m \in 1 .. c : d[m] = g
    BY <2>1, <1>2 DEF ToSet
  <2>3. es[i].group # Default
    BY <1>13, UsedIs, DefaultIsAName DEF Plain
  <2>4. es[i].group = Key(g)
    BY <2>1, <2>3 DEF Key
  <2>5. i \in DOMAIN es /\ \E k \in 1 .. c : es[i].group = Key(d[k])
    BY <2>2, <2>4
  <2> QED
    BY <2>5, <1>12 DEF Grouped
<1> QED
  BY <1>1, <1>12, <1>13 DEF Grouped

(* The invariant of the lists: names are names, and the rows are those     *)
(* that are made of the entries and the groups that there are.             *)
ListInv ==
  /\ EntriesTyped(entries) /\ groups \in Seq(GroupNames)
  /\ \/ rows = Model(entries, groups, closed)
     \/ entries = <<>> /\ rows = <<>>

LEMMA RowsAreRight ==
  ASSUME ListInv
  PROVE  EveryEntryHasItsRow /\ \A n \in DOMAIN rows : rows[n].group \in GroupNames
<1>1. CASE entries = <<>> /\ rows = <<>>
  BY <1>1 DEF EveryEntryHasItsRow
<1>2. CASE rows = Model(entries, groups, closed)
  <2>1. \A n \in DOMAIN rows : RowIsRight(entries, rows[n])
    BY <1>2, ModelIs DEF ListInv
  <2>2. ASSUME PlainNames
        PROVE  Single(rows) /\ \A i \in DOMAIN entries : \E n \in DOMAIN rows : rows[n].index = i
    <3>1. Plain(entries, groups)
      BY <2>2 DEF PlainNames, Plain, OneCase, NamesInUse
    <3> QED
      BY <3>1, <1>2, ModelIs DEF ListInv
  <2>3. ASSUME PlainNames, NEW i \in DOMAIN entries
        PROVE  Cardinality({n \in DOMAIN rows : rows[n].index = i}) = 1
    <3>1. PICK n \in DOMAIN rows : rows[n].index = i
      BY <2>2, <2>3
    <3>2. i # 0
      BY EntriesAre DEF ListInv
    <3>3. \A m \in DOMAIN rows : rows[m].index = i => m = n
      BY <2>2, <2>3, <3>1, <3>2 DEF Single
    <3>4. {m \in DOMAIN rows : rows[m].index = i} = {n}
      BY <3>1, <3>3
    <3> QED
      BY <3>4, FS_Singleton
  <2>4. ASSUME PlainNames, NEW n \in DOMAIN rows
        PROVE  /\ rows[n].index # 0 =>
                    /\ rows[n].index \in DOMAIN entries
                    /\ entries[rows[n].index].what = rows[n].what
                    /\ rows[n].group = IF entries[rows[n].index].group = NoGroup THEN Default
                                       ELSE entries[rows[n].index].group
               /\ rows[n].header <=> ~\E m \in 1 .. (n - 1) : rows[m].group = rows[n].group
               /\ n > 1 /\ ~rows[n].header => rows[n - 1].group = rows[n].group
    <3>1. /\ rows[n].header <=> ~\E m \in 1 .. (n - 1) : rows[m].group = rows[n].group
          /\ n > 1 /\ ~rows[n].header => rows[n - 1].group = rows[n].group
      BY <2>2, <2>4 DEF Single
    <3>2. RowIsRight(entries, rows[n])
      BY <2>1
    <3> QED
      BY <3>1, <3>2, DefaultIsAName DEF RowIsRight, Key
  <2>5. EveryEntryHasItsRow
    BY <2>3, <2>4 DEF EveryEntryHasItsRow
  <2> QED
    BY <2>1, <2>5 DEF RowIsRight
<1> QED
  BY <1>1, <1>2 DEF ListInv

(* Entries that stay, that are added or written over keep their type.      *)
LEMMA TypedThen ==
  ASSUME NEW es, NEW W, es \in Seq([what : W, group : Kinds])
  PROVE  EntriesTyped(es)
<1>1. PICK R : R = [what : W, group : Kinds]
  OBVIOUS
<1>2. PICK m \in Nat : /\ m = Len(es) /\ DOMAIN es = 1 .. m /\ es = [i \in 1 .. m |-> es[i]]
                       /\ \A i \in 1 .. m : es[i] \in R
  <2>1. es \in Seq(R)
    BY <1>1
  <2> QED
    BY <2>1
<1>3. PICK V : V = {es[i].what : i \in DOMAIN es}
  OBVIOUS
<1>4. PICK Q : Q = [what : V, group : Kinds]
  OBVIOUS
<1>5. \A i \in 1 .. m : es[i] \in Q
  <2> TAKE i \in 1 .. m
  <2>1. es[i] = [what |-> es[i].what, group |-> es[i].group] /\ es[i].group \in Kinds
    BY <1>1, <1>2
  <2>2. es[i].what \in V
    BY <1>2, <1>3
  <2> QED
    BY <2>1, <2>2, <1>4
<1>6. es \in [1 .. m -> Q]
  BY <1>2, <1>5
<1>7. es \in Seq(Q)
  BY <1>6, ListsAre
<1> QED
  BY <1>3, <1>4, <1>7 DEF EntriesTyped

LEMMA EntryAdded ==
  ASSUME NEW es, EntriesTyped(es), NEW w, NEW g \in Kinds
  PROVE  /\ EntriesTyped(Append(es, [what |-> w, group |-> g]))
         /\ \A i \in DOMAIN es : /\ EntriesTyped([es EXCEPT ![i] = [what |-> w, group |-> g]])
                                 /\ EntriesTyped([es EXCEPT ![i].group = g])
                                 /\ EntriesTyped(RemoveAt(es, i))
                                 /\ EntriesTyped(InsertAt(es, i + 1, [what |-> w, group |-> g]))
<1>1. PICK W : W = {w} \cup {es[i].what : i \in DOMAIN es}
  OBVIOUS
<1>2. PICK R : R = [what : W, group : Kinds]
  OBVIOUS
<1>3. PICK e \in R : e = [what |-> w, group |-> g]
  BY <1>1, <1>2
<1>4. es \in Seq(R)
  <2>1. PICK m \in Nat : m = Len(es) /\ DOMAIN es = 1 .. m
    BY EntriesAre
  <2>2. PICK V : V = {es[i].what : i \in DOMAIN es}
    OBVIOUS
  <2>3. PICK Q : Q = [what : V, group : Kinds]
    OBVIOUS
  <2>4. es \in Seq(Q)
    BY <2>2, <2>3 DEF EntriesTyped
  <2>5. Q \subseteq R
    BY <1>1, <1>2, <2>2, <2>3
  <2>6. es \in [1 .. m -> R]
    BY <2>1, <2>4, <2>5
  <2> QED
    BY <2>1, <2>6, ListsAre
<1>5. \A x : x \in Seq(R) => EntriesTyped(x)
  BY <1>2, TypedThen
<1>6. Append(es, e) \in Seq(R)
  BY <1>3, <1>4
<1>7. ASSUME NEW i \in DOMAIN es
      PROVE  /\ [es EXCEPT ![i] = e] \in Seq(R) /\ [es EXCEPT ![i].group = g] \in Seq(R)
             /\ RemoveAt(es, i) \in Seq(R) /\ InsertAt(es, i + 1, e) \in Seq(R)
  <2>1. i \in 1 .. Len(es) /\ Len(es) \in Nat /\ es[i] \in R
    BY <1>4
  <2>2. [es EXCEPT ![i] = e] \in Seq(R)
    BY <1>3, <1>4
  <2>3. PICK f \in R : f = [es[i] EXCEPT !.group = g]
    BY <2>1, <1>2
  <2>4. [es EXCEPT ![i].group = g] = [es EXCEPT ![i] = f]
    BY <2>3
  <2>5. [es EXCEPT ![i] = f] \in Seq(R)
    BY <1>4
  <2>6. RemoveAt(es, i) \in Seq(R)
    BY <2>1, <1>4 DEF RemoveAt
  <2>7. InsertAt(es, i + 1, e) \in Seq(R)
    BY <2>1, <1>3, <1>4 DEF InsertAt
  <2> QED
    BY <2>2, <2>4, <2>5, <2>6, <2>7
<1> QED
  BY <1>3, <1>5, <1>6, <1>7

LEMMA EntriesPicked ==
  ASSUME NEW es, EntriesTyped(es), NEW T
  PROVE  EntriesTyped(Where(es, T))
<1>1. PICK V : V = {es[i].what : i \in DOMAIN es}
  OBVIOUS
<1>2. PICK Q : Q = [what : V, group : Kinds]
  OBVIOUS
<1>3. es \in Seq(Q)
  BY <1>1, <1>2 DEF EntriesTyped
<1>4. Where(es, T) \in Seq(Q)
  BY <1>3, WhereIs
<1> QED
  BY <1>2, <1>4, TypedThen

LEMMA EntriesRenamed ==
  ASSUME NEW es, EntriesTyped(es), NEW old, NEW new \in Kinds
  PROVE  EntriesTyped([i \in DOMAIN es |->
                         IF es[i].group = old THEN [es[i] EXCEPT !.group = new] ELSE es[i]])
<1>1. PICK V : V = {es[i].what : i \in DOMAIN es}
  OBVIOUS
<1>2. PICK Q : Q = [what : V, group : Kinds]
  OBVIOUS
<1>3. es \in Seq(Q)
  BY <1>1, <1>2 DEF EntriesTyped
<1>4. PICK m \in Nat : m = Len(es) /\ DOMAIN es = 1 .. m /\ \A i \in 1 .. m : es[i] \in Q
  BY <1>3
<1>5. \A e \in Q : [e EXCEPT !.group = new] \in Q
  BY <1>2
<1>6. PICK f : f = [i \in DOMAIN es |->
                      IF es[i].group = old THEN [es[i] EXCEPT !.group = new] ELSE es[i]]
  OBVIOUS
<1>7. f \in [1 .. m -> Q]
  BY <1>4, <1>5, <1>6
<1>8. f \in Seq(Q)
  BY <1>7, ListsAre
<1> QED
  BY <1>2, <1>6, <1>8, TypedThen

LEMMA PlaceIs ==
  ASSUME ListInv, NEW id
  PROVE  PlaceOf(id) # 0 => PlaceOf(id) \in DOMAIN entries
<1>1. PICK m \in Nat : m = Len(entries) /\ DOMAIN entries = 1 .. m
  BY EntriesAre DEF ListInv
<1>2. PICK I \in SUBSET (1 .. m) : I = {i \in 1 .. Len(entries) : entries[i].what = id}
  BY <1>1
<1>3. PlaceOf(id) = IF I # {} THEN Min(I) ELSE 0
  BY <1>2 DEF PlaceOf, SelectInSeq
<1> QED
  BY <1>1, <1>3, MinIsFirst

(* The sorted names of a list in which one has been replaced.              *)
LEMMA NamesHaveALast ==
  ASSUME NEW gs \in Seq(Nat)
  PROVE  \E m \in Nat : \A i \in DOMAIN gs : gs[i] <= m
<1>1. PICK S : S = {n \in Nat : n <= Len(gs) => \E m \in Nat : \A i \in 1 .. n : gs[i] <= m}
  OBVIOUS
<1>2. 0 \in S
  BY <1>1
<1>3. ASSUME NEW n \in Nat, n \in S PROVE n + 1 \in S
  <2> SUFFICES ASSUME n + 1 <= Len(gs) PROVE \E m \in Nat : \A i \in 1 .. (n + 1) : gs[i] <= m
    BY <1>1
  <2>1. PICK m \in Nat : \A i \in 1 .. n : gs[i] <= m
    BY <1>1, <1>3
  <2>2. PICK x \in Nat : x = gs[n + 1]
    OBVIOUS
  <2>3. m + x \in Nat /\ \A i \in 1 .. (n + 1) : gs[i] <= m + x
    <3> SUFFICES ASSUME NEW i \in 1 .. (n + 1) PROVE gs[i] <= m + x
      OBVIOUS
    <3>1. CASE i = n + 1
      BY <3>1, <2>2
    <3>2. CASE i # n + 1
      <4>1. i \in 1 .. n /\ gs[i] \in Nat
        BY <3>2
      <4> QED
        BY <4>1, <2>1
    <3> QED
      BY <3>1, <3>2
  <2> QED
    BY <2>3
<1>4. Len(gs) \in Nat /\ DOMAIN gs = 1 .. Len(gs)
  OBVIOUS
<1>5. Len(gs) \in S
  BY <1>2, <1>3, <1>4, CountingUp
<1> QED
  BY <1>1, <1>4, <1>5

LEMMA NumbersPicked ==
  ASSUME NEW N, NEW s \in Seq(N), NEW S, NEW w, w = Where(s, S)
  PROVE  w \in Seq(N) /\ \A i \in DOMAIN w : w[i] \in S
<1>1. w \in Seq(N) /\ ToSet(w) = {x \in ToSet(s) : x \in S}
  BY WhereIs
<1> QED
  BY <1>1 DEF ToSet

LEMMA InOrderIs ==
  ASSUME NEW S \in SUBSET GroupNames, NEW m \in Nat, \A x \in S : x <= m
  PROVE  InOrder(S) \in Seq(GroupNames)
<1>1. S \cup {0} \in SUBSET (0 .. m) /\ S \cup {0} # {}
  BY DefaultIsAName
<1>2. PICK l \in Nat : l = Max(S \cup {0})
  <2>1. Max(S \cup {0}) \in S \cup {0}
    BY <1>1, MaxFromZero
  <2> QED
    BY <2>1, <1>1
<1>3. PICK N : N = 1 .. l
  OBVIOUS
<1>4. PICK s : s = [n \in 1 .. l |-> n]
  OBVIOUS
<1>5. PICK w : w = Where(s, S)
  OBVIOUS
<1>6. w = InOrder(S)
  BY <1>2, <1>4, <1>5 DEF InOrder
<1>7. s \in [1 .. l -> N]
  BY <1>3, <1>4
<1>8. s \in Seq(N)
  BY <1>7, ListsAre
<1>9. w \in Seq(N) /\ \A i \in DOMAIN w : w[i] \in S
  BY <1>5, <1>8, NumbersPicked
<1>10. w \in [1 .. Len(w) -> GroupNames] /\ Len(w) \in Nat
  BY <1>9
<1>11. w \in Seq(GroupNames)
  BY <1>10, ListsAre
<1> QED
  BY <1>6, <1>11

LEMMA NamesRenamed ==
  ASSUME NEW gs \in Seq(GroupNames), NEW old, NEW new \in GroupNames
  PROVE  InOrder({IF g = old THEN new ELSE g : g \in ToSet(gs)}) \in Seq(GroupNames)
<1>1. \A x \in ToSet(gs) : x \in GroupNames
  BY DEF ToSet
<1>2. PICK S \in SUBSET GroupNames : S = {IF g = old THEN new ELSE g : g \in ToSet(gs)}
  BY <1>1
<1>3. gs \in Seq(Nat)
  <2>1. PICK m \in Nat : m = Len(gs) /\ gs \in [1 .. m -> GroupNames]
    OBVIOUS
  <2>2. gs \in [1 .. m -> Nat]
    BY <2>1, DefaultIsAName
  <2> QED
    BY <2>1, <2>2, ListsAre
<1>4. PICK m \in Nat : \A i \in DOMAIN gs : gs[i] <= m
  BY <1>3, NamesHaveALast
<1>5. \A x \in ToSet(gs) : x <= m /\ x \in Nat
  BY <1>1, <1>4, DefaultIsAName DEF ToSet
<1>6. \A x \in S : x <= m + new
  BY <1>2, <1>5, DefaultIsAName
<1>7. m + new \in Nat
  BY DefaultIsAName
<1> QED
  BY <1>2, <1>6, <1>7, InOrderIs

(* The lists start with the invariant and each change keeps it.            *)
LEMMA ListInvInit == ListInit => ListInv
<1> SUFFICES ASSUME ListInit PROVE ListInv
  OBVIOUS
<1>1. entries = <<>> /\ groups = <<>> /\ rows = <<>>
  BY DEF ListInit
<1>2. EntriesTyped(<<>>)
  BY DEF EntriesTyped
<1> QED
  BY <1>1, <1>2 DEF ListInv

LEMMA ChangeKeeps ==
  ASSUME NEW es, EntriesTyped(es), NEW gs \in Seq(GroupNames), Change(es, gs)
  PROVE  ListInv'
  BY DEF Change, ListInv, EntriesTyped

LEMMA ListInvNext ==
  ASSUME ListInv, [ListNext]_listVars
  PROVE  ListInv'
<1> USE DEF ListInv
<1>1. /\ \A n \in DOMAIN rows : rows[n].group \in GroupNames
      /\ \A g \in Offered \cup {Default} : g \in GroupNames /\ g \in Kinds
      /\ GroupNames \subseteq Kinds /\ NamesTyped = Kinds /\ NoGroup \in Kinds
  BY RowsAreRight, DefaultIsAName DEF Offered, NamesTyped, GroupNames, Kinds
<1>2. DOMAIN entries = 1 .. Len(entries) /\ \A i \in DOMAIN entries : entries[i].group \in Kinds
  BY EntriesAre
<1>3. CASE Restart
  BY <1>3 DEF Restart, EntriesTyped
<1>4. CASE Form
  BY <1>4 DEF Form, EntriesTyped
<1>5. ASSUME NEW g \in NamesTyped, AddCommand(g) PROVE ListInv'
  <2>1. EntriesTyped(Append(entries, [what |-> NewText, group |-> g]))
    BY <1>1, EntryAdded
  <2> QED
    BY <2>1, <1>5, ChangeKeeps DEF AddCommand
<1>6. ASSUME NEW g \in NamesTyped, SaveCommand(g) PROVE ListInv'
  <2>1. PICK es : es = IF form.index \in DOMAIN entries
                       THEN [entries EXCEPT ![form.index] = [what |-> NewText, group |-> g]]
                       ELSE entries
    OBVIOUS
  <2>2. EntriesTyped(es)
    BY <2>1, <1>1, EntryAdded
  <2> QED
    BY <2>1, <2>2, <1>6, ChangeKeeps DEF SaveCommand
<1>7. ASSUME NEW id, NEW g \in NamesTyped, SubmitToGroup(id, g) PROVE ListInv'
  <2>1. PICK es : es = IF PlaceOf(id) = 0 THEN Append(entries, [what |-> id, group |-> g])
                       ELSE [entries EXCEPT ![PlaceOf(id)].group = g]
    OBVIOUS
  <2>2. EntriesTyped(es)
    BY <2>1, <1>1, EntryAdded, PlaceIs
  <2> QED
    BY <2>1, <2>2, <1>7, ChangeKeeps DEF SubmitToGroup
<1>8. ASSUME NEW r, DeleteCommand(r) PROVE ListInv'
  <2>1. PICK es : es = IF r.index \in DOMAIN entries THEN RemoveAt(entries, r.index) ELSE entries
    OBVIOUS
  <2>2. EntriesTyped(es)
    BY <2>1, <1>1, EntryAdded
  <2> QED
    BY <2>1, <2>2, <1>8, ChangeKeeps DEF DeleteCommand
<1>9. ASSUME NEW r, DuplicateCommand(r) PROVE ListInv'
  <2>1. r.index \in DOMAIN entries /\ entries[r.index].group \in Kinds
    BY <1>2, <1>9 DEF DuplicateCommand
  <2>2. EntriesTyped(InsertAt(entries, r.index + 1,
                              [what |-> NewText, group |-> entries[r.index].group]))
    BY <2>1, EntryAdded
  <2> QED
    BY <2>2, <1>9, ChangeKeeps DEF DuplicateCommand
<1>10. ASSUME NEW r, RemoveFromList(r) PROVE ListInv'
  <2>1. EntriesTyped(Where(entries, {e \in ToSet(entries) : e.what # r.what}))
    BY EntriesPicked
  <2> QED
    BY <2>1, <1>10, ChangeKeeps DEF RemoveFromList
<1>11. ASSUME NEW r, NEW g \in Offered \cup {Default}, MoveCommand(r, g) PROVE ListInv'
  <2>1. PICK k \in Kinds : k = IF g = Default THEN NoGroup ELSE g
    BY <1>1
  <2>2. PICK es : es = IF r.index \in DOMAIN entries
                       THEN [entries EXCEPT ![r.index].group = k] ELSE entries
    OBVIOUS
  <2>3. EntriesTyped(es)
    BY <2>2, EntryAdded
  <2>4. Change(es, groups)
    BY <2>1, <2>2, <1>11 DEF MoveCommand
  <2> QED
    BY <2>3, <2>4, ChangeKeeps
<1>12. ASSUME NEW r, NEW g \in Offered, MoveSession(r, g) PROVE ListInv'
  <2>1. PICK k \in Kinds : k = IF g = Default THEN NoGroup ELSE g
    BY <1>1
  <2>2. PICK es : es = IF PlaceOf(r.what) = 0 THEN entries
                       ELSE [entries EXCEPT ![PlaceOf(r.what)].group = k]
    OBVIOUS
  <2>3. EntriesTyped(es)
    BY <2>2, EntryAdded, PlaceIs
  <2>4. Change(es, groups)
    BY <2>1, <2>2, <1>12 DEF MoveSession
  <2> QED
    BY <2>3, <2>4, ChangeKeeps
<1>13. ASSUME NEW old, NEW new \in Titles \cup {Default}, SubmitGroup(old, new) PROVE ListInv'
  <2>1. new \in GroupNames /\ new \in Kinds
    BY <1>1 DEF GroupNames
  <2>2. CASE add_group(new)
    <3>1. PICK gs : gs = IF IsReserved(new) \/ new \in ToSet(groups) THEN groups
                         ELSE Append(groups, new)
      OBVIOUS
    <3>2. gs \in Seq(GroupNames)
      BY <3>1, <2>1
    <3>3. Change(entries, gs)
      BY <3>1, <2>2 DEF add_group
    <3> QED
      BY <3>2, <3>3, ChangeKeeps
  <2>3. CASE rename_group(old, new)
    <3>1. CASE IsReserved(new) \/ new = old
      BY <3>1, <2>3, ChangeKeeps DEF rename_group
    <3>2. CASE ~(IsReserved(new) \/ new = old)
      <4>1. PICK es : es = [i \in DOMAIN entries |->
                              IF entries[i].group = old THEN [entries[i] EXCEPT !.group = new]
                              ELSE entries[i]]
        OBVIOUS
      <4>2. PICK gs : gs = InOrder({IF g = old THEN new ELSE g : g \in ToSet(groups)})
        OBVIOUS
      <4>3. EntriesTyped(es)
        BY <4>1, <2>1, EntriesRenamed, ZenonT(30)
      <4>4. gs \in Seq(GroupNames)
        BY <4>2, <2>1, NamesRenamed
      <4>5. Change(es, gs)
        BY <4>1, <4>2, <3>2, <2>3 DEF rename_group
      <4> QED
        BY <4>3, <4>4, <4>5, ChangeKeeps
    <3> QED
      BY <3>1, <3>2
  <2> QED
    BY <2>2, <2>3, <1>13 DEF SubmitGroup
<1>14. ASSUME NEW n \in DOMAIN rows, DeleteGroup(rows[n]) PROVE ListInv'
  <2>1. PICK g : g = rows[n].group
    OBVIOUS
  <2>2. PICK es : es = [i \in DOMAIN entries |->
                          IF entries[i].group = g THEN [entries[i] EXCEPT !.group = NoGroup]
                          ELSE entries[i]]
    OBVIOUS
  <2>3. PICK gs : gs = Where(groups, ToSet(groups) \ {g})
    OBVIOUS
  <2>4. EntriesTyped(es)
    BY <2>2, <1>1, EntriesRenamed
  <2>5. gs \in Seq(GroupNames)
    BY <2>3, WhereIs
  <2>6. Change(es, gs)
    BY <2>1, <2>2, <2>3, <1>14 DEF DeleteGroup
  <2> QED
    BY <2>4, <2>5, <2>6, ChangeKeeps
<1>15. ASSUME NEW n \in DOMAIN rows, ToggleGroup(rows[n]) PROVE ListInv'
  BY <1>15 DEF ToggleGroup, EntriesTyped
<1>16. CASE UNCHANGED listVars
  BY <1>16 DEF listVars, EntriesTyped
<1> QED
  BY <1>3, <1>4, <1>5, <1>6, <1>7, <1>8, <1>9, <1>10, <1>11, <1>12, <1>13, <1>14, <1>15, <1>16
  DEF ListNext

(* However groups are made, renamed into each other, moved to and deleted, *)
(* each entry has one row, which acts on that entry, and each group one    *)
(* header, above all of its rows: for any number of entries and of names.  *)
THEOREM EntriesHaveTheirRow ==
  ListSpec => []EveryEntryHasItsRow
<1>1. ListInit => ListInv
  BY ListInvInit
<1>2. ListInv /\ [ListNext]_listVars => ListInv'
  BY ListInvNext
<1>3. ListInv => EveryEntryHasItsRow
  BY RowsAreRight
<1> QED
  BY <1>1, <1>2, <1>3, PTL DEF ListSpec
=============================================================================
