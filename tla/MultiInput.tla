----------------------------- MODULE MultiInput -----------------------------
(***************************************************************************)
(* dx::MultiInput (src/elements/d2_multiline_input.cpp): a text of several *)
(* lines in a box of a fixed size with two scrollbars.                     *)
(*                                                                         *)
(* The editor is a record that a frame of input takes through the element's*)
(* functions.  Lines and columns count from 0.  A key comes in a frame of  *)
(* its own.                                                                *)
(***************************************************************************)
EXTENDS FragmentedBuffer

CONSTANTS Letters,   \* what can be typed
          NewLine,
          Sources,   \* texts value() is called with
          Width, Height,
          Overlaps,  \* InputOptions::PtrOverlap
          MaxText,   \* bound: bytes of a text
          MaxInputs  \* bound: calls and frames of input

VARIABLES ed,        \* the editor
          clipboard,
          inputs,    \* calls and frames so far
          want       \* what the text and its history should be

editorVars == <<ed, clipboard, inputs, want>>

Most(i, j) == IF i > j THEN i ELSE j

\* _doc_model: where lines start and how long they are, and the widest.
DocModel(t) ==
    LET starts == <<0>> \o SetToSortSeq({i \in DOMAIN t : t[i] = NewLine}, LAMBDA i, j : i < j)
        lengths == [l \in DOMAIN starts |-> IF l = Len(starts) THEN Len(t) - starts[l]
                                            ELSE starts[l + 1] - 1 - starts[l]]
    IN  [starts |-> starts, lengths |-> lengths, length |-> Len(t),
         width |-> Max({1} \cup {lengths[l] : l \in DOMAIN lengths})]
\* A change of the buffer, and then _doc_dirty.
Buffer(e, b) == [e EXCEPT !.buf = b, !.doc = DocModel(Text(b))]

New(s) == [buf |-> Setup(s), doc |-> DocModel(s), ptr |-> 0, prefer |-> 0, x |-> 0, y |-> 0,
           from |-> 0, to |-> 0, focused |-> FALSE, swapped |-> FALSE, blinks |-> FALSE,
           vbar |-> [shown |-> FALSE, max |-> 0, at |-> 0],
           hbar |-> [shown |-> FALSE, max |-> 0, at |-> 0]]

Length(e) == e.doc.length
LineCount(e) == Len(e.doc.starts)
LineLength(e, line) == e.doc.lengths[line + 1]
Start(e, line) == e.doc.starts[line + 1]
\* _line_col_from_abs and _abs_from_line_col
LineOf(e, abs) == Max({l \in 0..(LineCount(e) - 1) : Start(e, l) <= abs})
ColOf(e, abs) == abs - Start(e, LineOf(e, abs))
AbsFrom(e, line, col) == Start(e, line) + Least(col, LineLength(e, line))

\* _draw_ptr, where the pointer takes a place of its own
OwnPlace(e) == e.focused /\ ~Overlaps
RenderWidth(e) ==
    IF OwnPlace(e) THEN Most(e.doc.width, LineLength(e, LineOf(e, e.ptr)) + 1) ELSE e.doc.width

\* _viewport: each bar takes a row or a column, which may make the other necessary.
Shown(lines, rw) ==
    LET tall == lines > Most(1, Height)
        wide == rw > Most(1, Width)
        sv == tall \/ (wide /\ lines > Most(1, Height - 1))
        sh == wide \/ (tall /\ rw > Most(1, Width - 1))
    IN  [w |-> Most(0, Width - (IF sv THEN 1 ELSE 0)),
         h |-> Most(0, Height - (IF sh THEN 1 ELSE 0)), sv |-> sv, sh |-> sh]
Viewport(e) == Shown(LineCount(e), RenderWidth(e))
MaxX(e) == Most(0, RenderWidth(e) - Most(1, Viewport(e).w))
MaxY(e) == Most(0, LineCount(e) - Most(1, Viewport(e).h))

-----------------------------------------------------------------------------
(* Pointer, view and marks.                                                *)

\* _scroll_x_to and _scroll_y_to; the bars' on_submit is ignored meanwhile.
PlaceX(e, n) == IF n = e.x THEN e ELSE [e EXCEPT !.x = n, !.hbar.at = n]
PlaceY(e, n) == IF n = e.y THEN e ELSE [e EXCEPT !.y = n, !.vbar.at = n]
ScrollX(e, off) == PlaceX(e, Least(off, MaxX(e)))
ScrollY(e, off) == PlaceY(e, Least(off, MaxY(e)))

\* A mutant: the view is not put back into a text that has become smaller.
SyncBarsFar(e) ==
    LET v == Viewport(e)
    IN  [e EXCEPT !.vbar = [shown |-> v.sv, max |-> MaxY(e), at |-> e.y],
                  !.hbar = [shown |-> v.sh, max |-> MaxX(e), at |-> e.x]]

\* _sync_scrollbars
Bars(e, x, y, mx, my, v) ==
    [e EXCEPT !.x = x, !.y = y,
              !.vbar = [shown |-> v.sv, max |-> my, at |-> IF v.sv THEN y ELSE @.at],
              !.hbar = [shown |-> v.sh, max |-> mx, at |-> IF v.sh THEN x ELSE @.at]]
SyncBars(e) == Bars(e, Least(e.x, MaxX(e)), Least(e.y, MaxY(e)), MaxX(e), MaxY(e), Viewport(e))

\* _sync_ptr
SyncPtr(e) == LET p == Least(e.ptr, Length(e))
              IN  [e EXCEPT !.ptr = p, !.buf = Jump(@, p)]

\* _ensure_ptr_visible, with the viewport and the position found at its beginning
Vertically(e, line, h) == CASE line < e.y -> ScrollY(e, line)
                            [] line >= e.y + h -> ScrollY(e, line - h + 1)
                            [] OTHER -> e
Sideways(e, col, w) == CASE col < e.x -> ScrollX(e, col)
                         [] col >= e.x + w -> ScrollX(e, col - w + 1)
                         [] OTHER -> e
BesideText(e, col, w, own) == IF own /\ col + 1 > e.x + w THEN ScrollX(e, col + 1 - w) ELSE e
ShowPlace(e, line, col, w, h) ==
    SyncBars(BesideText(Sideways(Vertically(e, line, h), col, w), col, w, OwnPlace(e)))
EnsureVisible(e) == ShowPlace(e, LineOf(e, e.ptr), ColOf(e, e.ptr),
                              Most(1, Viewport(e).w), Most(1, Viewport(e).h))

Marked(e) == e.from # e.to
Lower(e) == Least(e.from, e.to)
Upper(e) == Most(e.from, e.to)
BeginMark(e) == IF Marked(e) THEN e ELSE [e EXCEPT !.from = e.ptr, !.to = e.ptr]
ResetMark(e) == [e EXCEPT !.from = IF Marked(e) THEN 0 ELSE @, !.to = IF Marked(e) THEN 0 ELSE @]
\* _highlighted_value
MarkedText(e) == SubSeq(Text(e.buf), Lower(e) + 1, Least(Upper(e), Length(e)))

Prefer(e) == [e EXCEPT !.prefer = ColOf(e, e.ptr)]
\* A mutant: the view is left where it is.
MoveToUnseen(e, pos) == Prefer(SyncPtr([ResetMark(e) EXCEPT !.ptr = pos]))

\* _move_to and those that call it
MoveTo(e, pos) == EnsureVisible(Prefer(SyncPtr([ResetMark(e) EXCEPT !.ptr = pos])))
MoveRight(e) == MoveTo(e, Least(e.ptr + 1, Length(e)))
MoveLeft(e) == MoveTo(e, Most(e.ptr - 1, 0))
MoveUp(e) == LET l == LineOf(e, e.ptr)
             IN  IF l = 0 THEN e ELSE MoveTo(e, AbsFrom(e, l - 1, e.prefer))
MoveDown(e) == MoveTo(e, AbsFrom(e, Least(LineOf(e, e.ptr) + 1, LineCount(e) - 1), e.prefer))

\* _mouse_abs_pos
MouseAt(e, mx, my) ==
    LET v == Viewport(e)
        line == Least(e.y + Least(my, v.h - 1), LineCount(e) - 1)
        col == e.x + Least(mx, v.w - 1)
        own == OwnPlace(e) /\ line = LineOf(e, e.ptr) /\ col > ColOf(e, e.ptr)
    IN  IF v.w = 0 \/ v.h = 0 THEN 0
        ELSE AbsFrom(e, line, IF own THEN col - 1 ELSE col)

-----------------------------------------------------------------------------
(* Changes of the text.                                                    *)

RemoveMarked(e) ==
    IF ~Marked(e) THEN e
    ELSE LET f == Buffer(e, Erase(e.buf, Lower(e), Upper(e) - Lower(e)))
         IN  EnsureVisible(ResetMark(Prefer(SyncPtr([f EXCEPT !.ptr = Lower(e)]))))
InsertText(e, s) ==
    LET f == RemoveMarked(e)
    IN  EnsureVisible(Prefer(SyncPtr([Buffer(f, Insert(f.buf, f.ptr, s)) EXCEPT !.ptr = @ + Len(s)])))
EraseBefore(e) ==
    CASE Marked(e) -> RemoveMarked(e)
      [] ~Marked(e) /\ e.ptr = 0 -> e
      [] OTHER -> EnsureVisible(Prefer(SyncPtr([Buffer(e, Erase(e.buf, e.ptr - 1, 1))
                                                 EXCEPT !.ptr = @ - 1])))
EraseAfter(e) ==
    CASE Marked(e) -> RemoveMarked(e)
      [] ~Marked(e) /\ e.ptr >= Length(e) -> e
      [] OTHER -> EnsureVisible(Prefer(SyncPtr(Buffer(e, Erase(e.buf, e.ptr, 1)))))

\* undo and redo
Undo(e) == SyncBars(ResetMark(EnsureVisible(Prefer(SyncPtr(Buffer(e, UndoAction(e.buf)))))))
Redo(e) == SyncBars(ResetMark(EnsureVisible(Prefer(SyncPtr(Buffer(e, RedoAction(e.buf)))))))

\* append keeps pointer, view and marks.
AppendText(e, s) ==
    LET n == Length(e)
    IN  SyncBars(SyncPtr([Buffer(e, Insert(e.buf, n, s)) EXCEPT !.ptr = Least(@, n),
                          !.from = Least(@, n), !.to = Least(@, n)]))
EraseAt(e, pos, len) ==
    SyncBars(EnsureVisible(Prefer(SyncPtr(Buffer(e, Erase(e.buf, pos, len))))))
\* value(text)
SetValue(e, s) ==
    SyncBars(SyncPtr([Buffer(e, Setup(s)) EXCEPT !.ptr = 0, !.prefer = 0, !.x = 0, !.y = 0,
                                             !.from = 0, !.to = 0]))

-----------------------------------------------------------------------------
(* The text as it should be, and the texts before and after in its history. *)

Plain(s) == [text |-> s, past |-> <<>>, future |-> <<>>]
Put(w, t) == [text |-> t, past |-> Append(w.past, w.text), future |-> <<>>]
PutIn(w, pos, s) == Put(w, Before(w.text, pos) \o s \o After(w.text, pos))
TakeOut(w, pos, n) == IF n <= 0 \/ pos >= Len(w.text) THEN w
                      ELSE Put(w, Before(w.text, pos) \o After(w.text, pos + n))
TakeMarked(w, e) == TakeOut(w, Lower(e), Upper(e) - Lower(e))
StepBack(w) == IF w.past = <<>> THEN w
               ELSE [text |-> Last(w.past), past |-> Front(w.past),
                     future |-> Append(w.future, w.text)]
StepOn(w) == IF w.future = <<>> THEN w
             ELSE [text |-> Last(w.future), past |-> Append(w.past, w.text),
                   future |-> Front(w.future)]

-----------------------------------------------------------------------------
(* Frames of input.  Keys come to the element that has the focus.          *)

InitEditor == /\ ed \in {New(s) : s \in Sources} /\ want = Plain(Text(ed.buf))
              /\ clipboard = <<>> /\ inputs = 0

Step == inputs < MaxInputs /\ inputs' = inputs + 1
Key == Step /\ ed.focused
Moved(e) == ed' = e /\ UNCHANGED <<clipboard, want>>
Fits(s) == Length(ed) + Len(s) <= MaxText

\* A press: the element is Clicked, gets the focus and then the frame.
DragTo(e, p) == SyncBars(Prefer(EnsureVisible(SyncPtr([e EXCEPT !.ptr = p, !.to = p]))))
Drag(e, mx, my) == LET p == MouseAt(e, mx, my)
                   IN  IF e.to = p /\ e.ptr = p THEN e ELSE DragTo(e, p)
Press(mx, my) ==
    /\ Step
    /\ LET e == BeginMark(MoveTo(ed, MouseAt(ed, mx, my)))
       IN  Moved(Drag([e EXCEPT !.focused = TRUE, !.blinks = TRUE], mx, my))
Hold(mx, my) == Key /\ Moved(Drag(ed, mx, my))

\* The keyboard's navigation focuses an element, Escape takes the focus away.
Focus == Step /\ ~ed.focused /\ Moved([ed EXCEPT !.focused = TRUE, !.blinks = TRUE])
Escape == Key /\ Moved(ResetMark([ed EXCEPT !.focused = FALSE, !.blinks = FALSE]))
\* The tree of the element is swapped out, and in.
Swap == /\ Step
        /\ Moved([ed EXCEPT !.swapped = ~@, !.blinks = ed.swapped /\ ed.focused])

Type(s) == Key /\ Fits(s) /\ ed' = InsertText(ed, s) /\ clipboard' = clipboard
           /\ want' = PutIn(TakeMarked(want, ed), RemoveMarked(ed).ptr, s)
Backspace == /\ Key /\ ed' = EraseBefore(ed) /\ clipboard' = clipboard
             /\ want' = IF Marked(ed) THEN TakeMarked(want, ed)
                        ELSE IF ed.ptr = 0 THEN want ELSE TakeOut(want, ed.ptr - 1, 1)
Delete == /\ Key /\ ed' = EraseAfter(ed) /\ clipboard' = clipboard
          /\ want' = IF Marked(ed) THEN TakeMarked(want, ed) ELSE TakeOut(want, ed.ptr, 1)

\* Home and End, of the line or with Control of the text.
Jumps(to, shift) ==
    LET e == IF shift THEN BeginMark(ed) ELSE ResetMark(ed)
    IN  Moved(EnsureVisible(Prefer(SyncPtr([e EXCEPT !.ptr = to,
                                                     !.to = IF shift THEN to ELSE @]))))
Home(ctrl, shift) == Key /\ Jumps(IF ctrl THEN 0 ELSE AbsFrom(ed, LineOf(ed, ed.ptr), 0), shift)
End(ctrl, shift) == /\ Key
                    /\ LET l == LineOf(ed, ed.ptr)
                       IN  Jumps(IF ctrl THEN Length(ed) ELSE AbsFrom(ed, l, LineLength(ed, l)), shift)

ArrowLeft == Key /\ Moved(MoveLeft(ed))
ArrowRight == Key /\ Moved(MoveRight(ed))
ArrowUp == Key /\ Moved(MoveUp(ed))
ArrowDown == Key /\ Moved(MoveDown(ed))
\* With Shift.  Up and down go through _move_to, which takes back marks that are there.
MarkTo(e, p) == SyncBars(Prefer(EnsureVisible(SyncPtr([e EXCEPT !.ptr = p, !.to = p]))))
MarkLeft == LET e == BeginMark(ed) IN Key /\ Moved(IF e.ptr > 0 THEN MarkTo(e, e.ptr - 1) ELSE e)
MarkRight == LET e == BeginMark(ed)
             IN  Key /\ Moved(IF e.ptr < Length(e) THEN MarkTo(e, e.ptr + 1) ELSE e)
MarkUp == LET e == MoveUp(BeginMark(ed)) IN Key /\ Moved([e EXCEPT !.to = e.ptr])
MarkDown == LET e == MoveDown(BeginMark(ed)) IN Key /\ Moved([e EXCEPT !.to = e.ptr])

\* Control and a, c, x, v, z, y
MarkAll == /\ Key
           /\ LET n == Length(ed)
              IN  Moved(EnsureVisible(SyncPtr([ed EXCEPT !.from = 0, !.to = n, !.ptr = n])))
Copy == Key /\ Marked(ed) /\ clipboard' = MarkedText(ed) /\ UNCHANGED <<ed, want>>
Cut == /\ Key /\ Marked(ed) /\ clipboard' = MarkedText(ed)
       /\ ed' = RemoveMarked(ed) /\ want' = TakeMarked(want, ed)
Paste == clipboard # <<>> /\ Type(clipboard)
Undone == Key /\ ed' = Undo(ed) /\ want' = StepBack(want) /\ clipboard' = clipboard
Redone == Key /\ ed' = Redo(ed) /\ want' = StepOn(want) /\ clipboard' = clipboard

\* The wheel, and the bars' own on_submit
Wheel(dx, dy) ==
    /\ Step
    /\ LET v == Viewport(ed)
           down == IF v.sv THEN ScrollY(ed, Least(Most(ed.y + dy, 0), MaxY(ed))) ELSE ed
           by == IF dx # 0 THEN dx ELSE IF v.sv THEN 0 ELSE dy
           aside == IF v.sh /\ by # 0 THEN ScrollX(down, Least(Most(down.x + by, 0), MaxX(down)))
                    ELSE down
       IN  Moved(SyncBars(aside))
SlideX(k) == Step /\ ed.hbar.shown /\ k <= ed.hbar.max /\ Moved([ed EXCEPT !.x = k, !.hbar.at = k])
SlideY(k) == Step /\ ed.vbar.shown /\ k <= ed.vbar.max /\ Moved([ed EXCEPT !.y = k, !.vbar.at = k])

\* Calls by the program.
AppendCall(s) == /\ Step /\ Fits(s) /\ ed' = AppendText(ed, s) /\ clipboard' = clipboard
                 /\ want' = PutIn(want, Length(ed), s)
EraseCall(pos, n) == /\ Step /\ ed' = EraseAt(ed, pos, n) /\ clipboard' = clipboard
                     /\ want' = TakeOut(want, pos, n)
ValueCall(s) == /\ Step /\ ed' = SetValue(ed, s) /\ want' = Plain(s) /\ clipboard' = clipboard
JumpCall(pos) == Step /\ Moved(MoveTo(ed, pos))

EditorStep ==
    \/ \E mx \in 0..(Width - 1), my \in 0..(Height - 1) : Press(mx, my) \/ Hold(mx, my)
    \/ Focus \/ Escape \/ Swap \/ Backspace \/ Delete
    \/ \E c \in Letters \cup {NewLine} : Type(<<c>>)
    \/ \E ctrl, shift \in BOOLEAN : Home(ctrl, shift) \/ End(ctrl, shift)
    \/ ArrowLeft \/ ArrowRight \/ ArrowUp \/ ArrowDown
    \/ MarkLeft \/ MarkRight \/ MarkUp \/ MarkDown
    \/ MarkAll \/ Copy \/ Cut \/ Paste \/ Undone \/ Redone
    \/ \E dx, dy \in {-1, 0, 1} : Wheel(dx, dy)
    \/ \E k \in 0..MaxText : SlideX(k) \/ SlideY(k)
    \/ \E s \in Sources : AppendCall(s) \/ ValueCall(s)
    \/ \E pos \in 0..MaxText, n \in 1..2 : EraseCall(pos, n)
    \/ \E pos \in 0..MaxText : JumpCall(pos)
EditorSpec == InitEditor /\ [][EditorStep]_editorVars
-----------------------------------------------------------------------------
\* Whatever is typed, erased, cut, pasted, undone and done again: the text is that of a
\* string with a list of its former values.  (Until an insertion goes astray: Misplaces.)
TextKept == ed.buf.lost \/ Text(ed.buf) = want.text

\* The view follows the pointer: when it moves, the place it goes to is in the window.
PointerShown ==
    [][ed'.focused /\ ed'.ptr # ed.ptr
       => /\ LineOf(ed', ed'.ptr) - ed'.y \in 0..(Most(1, Viewport(ed').h) - 1)
          /\ ColOf(ed', ed'.ptr) - ed'.x \in 0..(Most(1, Viewport(ed').w) - 1)]_editorVars

\* The view does not go beyond the text, and a bar that is shown stands where the view is.
BarsAgree ==
    /\ ed.vbar.shown => ed.vbar.at = ed.y /\ ed.y <= ed.vbar.max
    /\ ed.hbar.shown => ed.hbar.at = ed.x /\ ed.x <= ed.hbar.max

\* The pointer of a focused element blinks as long as its tree is shown.
Blinking == ed.focused /\ ~ed.swapped => ed.blinks
=============================================================================
