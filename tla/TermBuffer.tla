----------------------------- MODULE TermBuffer -----------------------------
(***************************************************************************)
(* The scrollback and the selection of one terminal (TermBuffer, app.rs).  *)
(* The vt100 parser keeps the screen only; what scrolls off it is found by *)
(* comparing the screen before and after each batch of output.  The lines  *)
(* found and the rows of the screen form one list, whose indexes (from 0)  *)
(* the ends of the selection and the window that is shown refer to.        *)
(*                                                                         *)
(* A row is a number: BlankRow, Same for a text that is written again and  *)
(* again, another for a text written once.  It has three columns, which    *)
(* hold three narrow characters, or a wide one and a narrow one.           *)
(***************************************************************************)
EXTENDS Integers, SequencesExt, FiniteSetsExt

CONSTANTS
  Heights,     \* how many rows the window has room for
  MaxHistory,  \* MAX_HISTORY
  MaxTexts,    \* bound: how many rows are written
  Chunks,      \* what one report of output may hold: sequences of items
  Wide,        \* the rows that begin with a wide character
  Touched      \* bound: the cells the mouse is taken to

Items   == {"line", "same", "nl", "text", "over", "home", "erase", "altOn", "altOff"}
Columns == {0, 1, 2}

ASSUME BufferAssumption ==
  /\ Heights \subseteq {h \in Nat : h >= 5} /\ MaxHistory \in Nat \ {0} /\ MaxTexts \in Nat
  /\ Chunks \subseteq Seq(Items) /\ Touched \subseteq Nat \X Columns
  /\ Wide \subseteq Nat

VARIABLES
  grid,       \* of the parser: its rows, the row of the cursor, what the alternate screen
              \* covers, how many rows were written; and off, the rows that scrolled off
  buf,        \* TermBuffer: history, live, valid, offset, anchor, focus
  selecting,  \* the left button is down
  gone,       \* history: the last that scrolled off the main screen since it was fresh
  overlooked  \* history: why rows scrolled off that the comparison does not see, if any did

bufferVars == <<grid, buf, selecting, gone, overlooked>>

BlankRow == 0
Same  == 1
Lines(n)   == [i \in 1..n |-> BlankRow]
Fresh(h)   == [rows |-> Lines(h), cursor |-> 1, covered |-> <<>>, texts |-> Same, off |-> <<>>]
Height     == Len(grid.rows)
IsAlt      == grid.covered # <<>>
NoEnd      == <<>>
NewBuffer  == [history |-> <<>>, live |-> <<>>, valid |-> FALSE, offset |-> 0,
               anchor |-> NoEnd, focus |-> NoEnd]

BufferInit ==
  /\ \E h \in Heights : grid = Fresh(h)
  /\ buf = NewBuffer /\ selecting = FALSE
  /\ gone = <<>> /\ overlooked = {}

-----------------------------------------------------------------------------
(***************************************************************************)
(* The parser: what one item of output does to a screen s.                 *)
(***************************************************************************)
Newline(s) ==
  IF s.cursor < Len(s.rows) THEN [s EXCEPT !.cursor = @ + 1]
  ELSE [s EXCEPT !.rows = Append(Tail(@), BlankRow),
                 !.off = IF s.covered = <<>> THEN Append(@, s.rows[1]) ELSE @]

Write(s)     == [s EXCEPT !.rows[s.cursor] = s.texts + 1, !.texts = @ + 1]
WriteSame(s) == [s EXCEPT !.rows[s.cursor] = Same, !.texts = @ + 1]

Process(s, item) ==
  CASE item = "line"   -> Newline(Write(s))
    [] item = "same"   -> Newline(WriteSame(s))
    [] item = "nl"     -> Newline([s EXCEPT !.texts = @ + 1])
    [] item = "text"   -> Write(s)
    \* A text that fills its row and goes on in the next.
    [] item = "over"   -> Write(Newline(Write(s)))
    [] item = "home"   -> [s EXCEPT !.cursor = 1]
    [] item = "erase"  -> [s EXCEPT !.rows = Lines(Len(@))]
    [] item = "altOn"  -> IF s.covered # <<>> THEN s
                          ELSE [s EXCEPT !.covered = <<[rows |-> s.rows, cursor |-> s.cursor]>>,
                                         !.rows = Lines(Len(@)), !.cursor = 1]
    [] item = "altOff" -> IF s.covered = <<>> THEN s
                          ELSE [s EXCEPT !.covered = <<>>, !.rows = s.covered[1].rows,
                                         !.cursor = s.covered[1].cursor]

\* Rows are added and cut at the bottom, of the covered screen too.
Cut(g, h)     == [g EXCEPT !.rows = [i \in 1..h |-> IF i <= Len(@) THEN @[i] ELSE BlankRow],
                           !.cursor = IF @ > h THEN h ELSE @]
SetSize(s, h) == Cut([s EXCEPT !.covered = [i \in DOMAIN @ |-> Cut(@[i], h)]], h)

-----------------------------------------------------------------------------
(***************************************************************************)
(* The history.                                                            *)
(***************************************************************************)
push_history(history, lines) ==
  LET all == history \o lines
  IN SubSeq(all, 1 + (IF Len(all) > MaxHistory THEN Len(all) - MaxHistory ELSE 0), Len(all))

\* How many rows of prev from row k on (from 0) are the first rows of curr.
Matched(prev, curr, k) ==
  Max({n \in 0..(Len(prev) - k) :
         n <= Len(curr) /\ \A i \in 1..n : prev[k + i] = curr[i]})

\* Mutant: of two shifts that fit as well the larger one is taken.
detect_scroll_last(prev, curr) ==
  LET shifts == 0..(Len(prev) - 1)
      fit    == [k \in shifts |-> Matched(prev, curr, k)]
      best   == {k \in shifts : \A j \in shifts : fit[j] <= fit[k]}
  IN IF prev = <<>> THEN 0 ELSE Max(best)

detect_scroll(prev, curr) ==
  LET shifts == 0..(Len(prev) - 1)
      fit    == [k \in shifts |-> Matched(prev, curr, k)]
      best   == {k \in shifts : \A j \in shifts : fit[j] <= fit[k]}
  IN IF prev = <<>> THEN 0 ELSE Min(best)

\* Mutant: while the window is scrolled back nothing is saved.
found_at_the_bottom(b, curr) == IF b.offset = 0 THEN SubSeq(b.live, 1, detect_scroll(b.live, curr)) ELSE <<>>

\* The lines that have left the screen.
Found(b, curr) == SubSeq(b.live, 1, detect_scroll(b.live, curr))

\* The batch ends at each BatchLines-th end of line.
BatchLines(h) == IF h \div 2 > 1 THEN h \div 2 ELSE 1
EndsLine(item) == item \in {"line", "same", "nl"}

Batched(acc, item, h) ==
  LET lines == acc.lines + (IF EndsLine(item) THEN 1 ELSE 0)
      last  == Append(acc.last, item)
  IN IF lines >= BatchLines(h) THEN [done |-> Append(acc.done, last), last |-> <<>>, lines |-> 0]
     ELSE [done |-> acc.done, last |-> last, lines |-> lines]

Split(chunk, h) ==
  FoldLeft(LAMBDA acc, item : Batched(acc, item, h),
           [done |-> <<>>, last |-> <<>>, lines |-> 0], chunk)

Batches(chunk, h) ==
  LET cut == Split(chunk, h)
  IN IF cut.last = <<>> THEN cut.done ELSE Append(cut.done, cut.last)

\* A program redraws the whole screen without the alternate one.
IsFullscreenRefresh(batch) == Contains(batch, "home") /\ Contains(batch, "erase")

\* A text that is on a screen twice, or a blank row above the cursor that is not alone.
Repeats(rows, n) ==
  \E i, j \in DOMAIN rows : i # j /\ rows[i] = rows[j] /\ (rows[i] # BlankRow \/ i < n)

\* Rows have scrolled off in this batch, and nothing before it can be compared, or the cursor
\* went up or rows were erased, or rows are equal; or a text that is there twice, or rows that
\* were erased, look like rows that have moved.
Unlike(t, batch, s) ==
  \/ s.off # <<>> /\ \/ ~t.buf.valid \/ s.covered # <<>>
                     \/ \E item \in {"home", "erase"} : Contains(batch, item)
                     \/ Repeats(t.buf.live, t.grid.cursor)
  \/ Contains(batch, "same") /\ Contains(t.buf.live, Same)
  \/ Contains(batch, "erase") /\ ~Contains(batch, "home")

\* Its lines wrap, and none of the rows above the cursor are left on the screen: half a
\* screen of lines may be more than a screen of rows.
Outrun(t, batch, s) ==
  Contains(batch, "over") /\ s.off # <<>> /\ Len(s.off) >= t.grid.cursor - 1

\* Why the comparison is of no use for this batch.
Unseen(t, batch, s) ==
  (IF Unlike(t, batch, s) THEN {"unlike"} ELSE {}) \cup
  (IF Outrun(t, batch, s) THEN {"outrun"} ELSE {})

\* One batch, from and to a state t of screen, buffer and history variables.
ingest_chunk(t, batch) ==
  LET s    == FoldLeft(Process, [t.grid EXCEPT !.off = <<>>], batch)
      curr == s.rows
      b    == t.buf
      next ==
        IF s.covered # <<>> \/ IsFullscreenRefresh(batch)
        THEN [b EXCEPT !.offset = 0, !.valid = FALSE, !.live = curr]
        ELSE IF b.valid
             THEN [b EXCEPT !.live = curr,
                            !.history = push_history(@, Found(b, curr))]
             ELSE [b EXCEPT !.live = curr, !.valid = TRUE]
  IN [grid |-> s, buf |-> next, gone |-> push_history(t.gone, s.off),
      overlooked |-> t.overlooked \cup Unseen(t, batch, s)]

ingest(t, chunk) == FoldLeft(ingest_chunk, t, Batches(chunk, Len(t.grid.rows)))

-----------------------------------------------------------------------------
(***************************************************************************)
(* The window and the selection, of a buffer b over rows rows.             *)
(***************************************************************************)
Combined(b) == b.history \o b.live
LiveUsed(b) == Max({0} \cup {i \in DOMAIN b.live : b.live[i] # BlankRow})

\* Mutant: the blank rows at the end do not count (#119).
view_top_used(b, rows) ==
  IF b.offset = 0 THEN Len(b.history) ELSE Max({0, Len(b.history) + LiveUsed(b) - (rows + b.offset)})

view_top_abs(b, rows) ==
  IF b.offset = 0 THEN Len(b.history) ELSE Max({0, Len(b.history) + rows - (rows + b.offset)})

Before(e, f) == e[1] < f[1] \/ (e[1] = f[1] /\ e[2] <= f[2])
Low(b)  == IF Before(b.anchor, b.focus) THEN b.anchor ELSE b.focus
High(b) == IF Before(b.anchor, b.focus) THEN b.focus ELSE b.anchor
Span(r, lo, hi) ==
  {c \in Columns : (r = lo[1] => lo[2] <= c) /\ (r = hi[1] => c <= hi[2])}

selection_rects_visible(b, rows) ==
  IF b.anchor = NoEnd \/ b.anchor = b.focus THEN {}
  ELSE {m \in (0..(rows - 1)) \X Columns :
          LET r == view_top_abs(b, rows) + m[1]
          IN r >= Low(b)[1] /\ r <= High(b)[1] /\ m[2] \in Span(r, Low(b), High(b))}

\* The text of a row has one character for each glyph, and none for the second column of a
\* wide one.
Chars(row)    == IF row \in Wide THEN {0, 1} ELSE Columns
Glyph(row, c) == IF row \in Wide /\ c > 0 THEN c - 1 ELSE c

\* The characters of row r at the indexes cs, which are columns of the screen; blanks at the
\* end are not there.
Segment(b, r, cs) ==
  LET row == IF r < Len(Combined(b)) THEN Combined(b)[r + 1] ELSE BlankRow
  IN IF row = BlankRow THEN {} ELSE {<<row, c>> : c \in cs \cap Chars(row)}

\* The rows of the selection as they are copied: the last one is moved up to the last row
\* that is used, with its column; on one row the columns are put in order.
extract_selection_text(b) ==
  IF b.anchor = NoEnd THEN <<>>
  ELSE LET lo == Low(b)
           hi == <<Min({High(b)[1], Max({0, Len(b.history) + LiveUsed(b) - 1})}), High(b)[2]>>
           cs(r) == IF lo[1] = hi[1] THEN Min({lo[2], hi[2]})..Max({lo[2], hi[2]}) ELSE Span(r, lo, hi)
       IN [i \in 1..(hi[1] - lo[1] + 1) |-> Segment(b, lo[1] + i - 1, cs(lo[1] + i - 1))]

IsEmpty(text) == \/ text = <<>> \/ (Len(text) = 1 /\ text[1] = {})

\* What render does first.
Refreshed(b, s) == IF Len(b.live) = Len(s.rows) THEN b ELSE [b EXCEPT !.live = s.rows]

\* Rows of the window: the screen, or a part of the history and the screen.
Rendered(b, s) ==
  IF s.covered # <<>> \/ b.offset = 0 THEN b.live
  ELSE LET start == Max({0, Len(Combined(b)) - (Len(s.rows) + b.offset)})
       IN [d \in 1..Len(s.rows) |->
             IF start + d <= Len(Combined(b)) THEN Combined(b)[start + d] ELSE BlankRow]

\* rebuild_tab_display, and the end of TakeOutput: the window shows Rendered and the marks of
\* selection_rects_visible.
Show(b, s) == buf' = Refreshed(b, s)

-----------------------------------------------------------------------------
(***************************************************************************)
(* What happens to a terminal.                                             *)
(***************************************************************************)
TakeOutput(chunk) ==
  /\ grid.texts + Len(chunk) <= MaxTexts
  /\ LET t == ingest([grid |-> grid, buf |-> buf, gone |-> gone, overlooked |-> overlooked], chunk)
     IN /\ grid' = [t.grid EXCEPT !.off = <<>>]
        /\ gone' = t.gone /\ overlooked' = t.overlooked
        /\ Show(t.buf, t.grid)
  /\ UNCHANGED selecting

\* The rows that must go to keep the cursor on the screen are saved and scrolled off.  The
\* window is drawn again with the next output.
Resize(h) ==
  /\ h # Height
  /\ LET scroll == IF h < Height /\ ~IsAlt THEN Max({0, grid.cursor - h}) ELSE 0
         up     == [grid EXCEPT !.rows = SubSeq(@, scroll + 1, Len(@)) \o Lines(scroll)]
     IN /\ grid' = SetSize(up, h)
        /\ buf' = [buf EXCEPT !.history = push_history(@, SubSeq(grid.rows, 1, scroll)),
                              !.live = SetSize(up, h).rows, !.valid = FALSE]
        /\ gone' = push_history(gone, SubSeq(grid.rows, 1, scroll))
  /\ UNCHANGED <<selecting, overlooked>>

\* Clear, and Enter in a disconnected terminal.
Clear ==
  /\ grid' = Fresh(Height)
  /\ buf' = NewBuffer
  /\ gone' = <<>> /\ overlooked' = {}
  /\ UNCHANGED selecting

\* The wheel, or a place on the scroll bar; neither is there on the alternate screen.
Scroll(offset) ==
  /\ ~IsAlt /\ offset # buf.offset
  /\ Show([buf EXCEPT !.offset = offset], grid)
  /\ UNCHANGED <<grid, selecting, gone, overlooked>>

Clamp(row) == IF row < Height THEN row ELSE Height - 1
At(b, row, col) == <<view_top_abs(b, Height) + row, col>>

SelectStart(row, col) ==
  /\ ~selecting /\ selecting' = TRUE
  /\ LET e == At(buf, Clamp(row), col) IN Show([buf EXCEPT !.anchor = e, !.focus = e], grid)
  /\ UNCHANGED <<grid, gone, overlooked>>

SelectUpdate(row, col) ==
  /\ selecting /\ buf.anchor # NoEnd
  /\ Show([buf EXCEPT !.focus = At(buf, Clamp(row), col)], grid)
  /\ UNCHANGED <<grid, selecting, gone, overlooked>>

\* The text goes to the clipboard, unless there is none.
SelectEnd ==
  /\ selecting /\ selecting' = FALSE
  /\ IF IsEmpty(extract_selection_text(buf))
     THEN Show([buf EXCEPT !.anchor = NoEnd, !.focus = NoEnd], grid)
     ELSE Show(buf, grid)
  /\ UNCHANGED <<grid, gone, overlooked>>

\* The mouse is held above or below the window: two lines, and the end follows the edge.
Autoscroll(dir) ==
  LET offset == IF dir < 0 THEN Min({buf.offset + 2, Len(buf.history)}) ELSE Max({buf.offset - 2, 0})
      moved  == [buf EXCEPT !.offset = offset]
  IN /\ selecting /\ ~IsAlt /\ buf.anchor # NoEnd /\ offset # buf.offset
     /\ Show([moved EXCEPT !.focus = At(moved, IF dir < 0 THEN 0 ELSE Height - 1, buf.focus[2])], grid)
     /\ UNCHANGED <<grid, selecting, gone, overlooked>>

BufferNext ==
  \/ \E chunk \in Chunks : TakeOutput(chunk)
  \/ \E h \in Heights : Resize(h)
  \/ Clear
  \/ \E offset \in 0..Len(buf.history) : Scroll(offset)
  \/ \E e \in Touched : SelectStart(e[1], e[2]) \/ SelectUpdate(e[1], e[2])
  \/ SelectEnd
  \/ \E dir \in {-1, 1} : Autoscroll(dir)

BufferSpec == BufferInit /\ [][BufferNext]_bufferVars

-----------------------------------------------------------------------------
(***************************************************************************)
(* Properties.                                                             *)
(***************************************************************************)

\* The comparison of two screens finds the lines that left: however output is cut into
\* reports and mixed with scrolling and resizing, the history is what scrolled off the
\* main screen, each line once and in order, as far as the cap reaches back.  Left out:
\* a batch that outruns the comparison, and screens that look alike.
HistoryIsWhatScrolledOff == overlooked = {} => buf.history = gone

\* "No batch ever scrolls more than the diff can see, and nothing is lost": the same, of
\* every batch whose screens can be told apart.
NothingScrollsUnseen == "unlike" \notin overlooked => buf.history = gone

Usable(e, b) == e # NoEnd /\ e[1] < Len(b.history) + LiveUsed(b)
InView(e)    == e[1] \in view_top_abs(buf, Height)..(view_top_abs(buf, Height) + Height - 1)
MarkedRow(vis) ==
  LET row == Rendered(Refreshed(buf, grid), grid)[vis + 1]
  IN IF row = BlankRow THEN {}
     ELSE {<<row, Glyph(row, e[2])>> : e \in {m \in selection_rects_visible(buf, Height) : m[1] = vis}}

Selected ==
  /\ Usable(buf.anchor, buf) /\ Usable(buf.focus, buf) /\ buf.anchor # buf.focus
  /\ InView(buf.anchor) /\ InView(buf.focus)

CopiedAsMarked ==
  LET first == Low(buf)[1] - view_top_abs(buf, Height)
  IN extract_selection_text(buf)
       = [i \in 1..(High(buf)[1] - Low(buf)[1] + 1) |-> MarkedRow(first + i - 1)]

OnWide(e) == Combined(buf)[e[1] + 1] \in Wide

\* What is highlighted is what is copied: the rows of the window and of the selection are
\* counted in two ways, over a history that grows and a screen that shrinks, and the
\* highlight is of cells where the text is of characters.  Left out: a selection that
\* begins or ends on a row with a wide character.
MarkedIsCopied ==
  Selected /\ ~OnWide(buf.anchor) /\ ~OnWide(buf.focus) => CopiedAsMarked

\* "A char index equals the grid column": the same, of every row.
CharIndexIsColumn == Selected => CopiedAsMarked

\* k rows have scrolled off, and the finished rows of the screen are where they were else.
ScrolledBy(k) ==
  /\ gone' = push_history(gone, SubSeq(grid.rows, 1, k))
  /\ SubSeq(grid.rows, k + 1, grid.cursor - 1) = SubSeq(grid'.rows, 1, grid.cursor - 1 - k)

\* While output scrolls by, a selection of finished lines keeps its text, unless the
\* history is full.
SelectionStaysPut ==
  [][buf.anchor # NoEnd /\ buf'.anchor = buf.anchor /\ buf'.focus = buf.focus
     /\ overlooked' = {} /\ Len(buf'.history) < MaxHistory /\ Len(grid'.rows) = Height /\ ~IsAlt
     /\ Usable(High(buf), buf) /\ Usable(High(buf'), buf')
     /\ High(buf)[1] < Len(buf.history) + grid.cursor - 1
     /\ (\E k \in 0..(grid.cursor - 1) : ScrolledBy(k))
     => extract_selection_text(buf') = extract_selection_text(buf)]_bufferVars

\* The whole selection is copied (said of extract_selection_text): all the text that is
\* highlighted in the window.
WholeSelectionIsCopied ==
  buf.anchor # NoEnd =>
    \A vis \in 0..(Height - 1) : MarkedRow(vis) \subseteq UNION ToSet(extract_selection_text(buf))
=============================================================================
