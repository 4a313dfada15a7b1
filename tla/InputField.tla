----------------------------- MODULE InputField -----------------------------
(***************************************************************************)
(* dx::Input (src/elements/d2_input.cpp): a text of one line in a box, of  *)
(* which a part that begins at bound_lower_ is shown.                      *)
(*                                                                         *)
(* A frame of input with one key in it goes to the field, and the field is *)
(* drawn afterwards, which puts the pointer back into the text.            *)
(***************************************************************************)
EXTENDS Integers, Sequences

CONSTANTS Chars,      \* what can be typed
          FieldWidth, \* of the box
          Pre,        \* length of the text before the field
          MaxLength,  \* bound: bytes of the text
          MaxFrames   \* bound: frames of input

VARIABLES field,   \* the field
          copied,  \* the clipboard
          frames,  \* frames so far
          outside  \* calls that threw, since they were for a place outside the text

fieldVars == <<field, copied, frames, outside>>

Size(f) == Len(f.text)
Smaller(i, j) == IF i < j THEN i ELSE j
Larger(i, j) == IF i > j THEN i ELSE j

InitField == /\ field = [text |-> <<>>, ptr |-> 0, low |-> 0, from |-> 0, to |-> 0,
                         focused |-> FALSE, swapped |-> FALSE, blinks |-> FALSE, lit |-> FALSE]
             /\ copied = <<>> /\ frames = 0 /\ outside = {}

\* std::string's erase and insert; both throw when pos is behind the end.
EraseString(s, pos, n) == SubSeq(s, 1, pos) \o SubSeq(s, pos + n + 1, Len(s))
InsertString(s, pos, t) == SubSeq(s, 1, pos) \o t \o SubSeq(s, pos + 1, Len(s))

HasMarks(f) == f.from # f.to
From(f) == Smaller(f.from, f.to)
Upto(f) == Larger(f.from, f.to)
Unmark(f) == [f EXCEPT !.from = IF HasMarks(f) THEN 0 ELSE @, !.to = IF HasMarks(f) THEN 0 ELSE @]
StartMark(f) == [f EXCEPT !.from = IF HasMarks(f) THEN @ ELSE f.ptr,
                          !.to = IF HasMarks(f) THEN @ ELSE f.ptr]

\* _move_right and _move_left
Right(f, n) ==
    LET p == Smaller(f.ptr + n, Size(f))
        upper == f.low + FieldWidth
    IN  [Unmark(f) EXCEPT !.ptr = p,
                          !.low = IF p >= upper /\ @ < Size(f) THEN @ + (p - upper) ELSE @]
Left(f, n) == LET p == Larger(f.ptr - n, 0)
              IN  [Unmark(f) EXCEPT !.ptr = p, !.low = Smaller(@, p)]

\* _remove_highlighted
RemoveMarks(f) ==
    LET n == Upto(f) - From(f)
        g == [f EXCEPT !.text = EraseString(@, From(f), n)]
    IN  IF ~HasMarks(f) THEN f ELSE Unmark(IF f.ptr >= Upto(f) THEN Left(g, n) ELSE g)
MarksInside(f) == From(f) <= Size(f)

\* A mutant: the bounds are left as they are.
DrawnAsIs(f) == f

\* _frame_impl corrects the bounds and draws.
Drawn(f) == [f EXCEPT !.ptr = Smaller(@, Size(f)), !.low = Smaller(@, Size(f))]

Goes(f) == field' = Drawn(f) /\ UNCHANGED <<copied, outside>>
Throws(call) == outside' = outside \cup {call} /\ UNCHANGED <<field, copied>>
\* An exception leaves the loop of the main thread.
Tick == outside = {} /\ frames < MaxFrames /\ frames' = frames + 1
Typing == Tick /\ field.focused

-----------------------------------------------------------------------------
(* _start_blink, _stop_blink, _freeze_blink and _unfreeze_blink: after a   *)
(* swap the pointer blinks on only if it was dark.                         *)

FocusField == Tick /\ ~field.focused /\ Goes([field EXCEPT !.focused = TRUE, !.blinks = TRUE])
Unfocus == Typing /\ Goes(Unmark([field EXCEPT !.focused = FALSE, !.blinks = FALSE, !.lit = FALSE]))
Blink == Tick /\ field.blinks /\ Goes([field EXCEPT !.lit = ~@])
SwapField ==
    /\ Tick
    /\ Goes([field EXCEPT !.swapped = ~@,
                          !.blinks = field.swapped /\ (@ \/ (field.lit /\ field.focused))])

-----------------------------------------------------------------------------
(* Mouse: the click moves the pointer, and the frame marks from there.     *)

MarkUpto(f, mx) == IF mx >= Pre THEN [f EXCEPT !.to = f.low + mx - Pre] ELSE f
Click(mx) ==
    /\ Tick
    /\ LET f == [field EXCEPT !.ptr = IF mx >= Pre THEN field.low + mx - Pre ELSE @]
       IN  Goes(MarkUpto([StartMark(Unmark(f)) EXCEPT !.focused = TRUE, !.blinks = TRUE], mx))
DragOver(mx) == Typing /\ Goes(MarkUpto(field, mx))

(* Keys.                                                                   *)

Submit == /\ Typing /\ field.text # <<>>
          /\ Goes([field EXCEPT !.text = <<>>, !.ptr = 0, !.low = 0, !.from = 0, !.to = 0])

RemoveBefore ==
    /\ Typing
    /\ CASE HasMarks(field) /\ ~MarksInside(field) -> Throws("drag")
         [] HasMarks(field) /\ MarksInside(field) -> Goes(RemoveMarks(field))
         [] ~HasMarks(field) /\ Size(field) > 0 /\ field.ptr > 0 ->
                IF field.ptr > Size(field) + 1 THEN Throws("erase")
                ELSE Goes([field EXCEPT !.text = EraseString(@, field.ptr - 1, 1), !.ptr = @ - 1,
                                        !.low = IF @ = field.ptr THEN @ - 1 ELSE @])
         [] OTHER -> Goes(field)
RemoveAfter ==
    /\ Typing
    /\ CASE HasMarks(field) /\ ~MarksInside(field) -> Throws("drag")
         [] HasMarks(field) /\ MarksInside(field) -> Goes(RemoveMarks(field))
         [] ~HasMarks(field) /\ field.ptr < Size(field) ->
                Goes([field EXCEPT !.text = EraseString(@, field.ptr, 1)])
         [] OTHER -> Goes(field)

GoLeft == Typing /\ Goes(Left(field, 1))
GoRight == Typing /\ Goes(Right(field, 1))
\* With Shift only the end of the marks moves.
ExtendLeft == Typing /\ LET f == StartMark(field) IN Goes([f EXCEPT !.to = Larger(@ - 1, 0)])
ExtendRight ==
    /\ Typing
    /\ LET f == StartMark(field)
       IN  Goes(IF f.to >= Size(f) THEN f
                ELSE [f EXCEPT !.to = @ + 1,
                               !.low = IF f.to + 1 > @ + FieldWidth THEN @ + 1 ELSE @])

MarkWhole == Typing /\ Goes([field EXCEPT !.from = 0, !.to = Size(field)])
CopyMarks == /\ Typing /\ HasMarks(field) /\ MarksInside(field)
             /\ copied' = SubSeq(field.text, From(field) + 1, Smaller(Upto(field), Size(field)))
             /\ UNCHANGED <<field, outside>>
CutMarks == /\ Typing /\ HasMarks(field) /\ MarksInside(field)
            /\ copied' = SubSeq(field.text, From(field) + 1, Smaller(Upto(field), Size(field)))
            /\ field' = Drawn(RemoveMarks(field)) /\ outside' = outside
\* substr of marks outside the text
CopyOutside == Typing /\ HasMarks(field) /\ ~MarksInside(field) /\ Throws("drag")
\* The pointer is not put back between the two.
PasteField ==
    /\ Typing /\ copied # <<>> /\ Size(field) + Len(copied) <= MaxLength
    /\ LET f == RemoveMarks(field)
       IN  CASE HasMarks(field) /\ ~MarksInside(field) -> Throws("drag")
             [] HasMarks(field) /\ MarksInside(field) /\ f.ptr > Size(f) ->
                    \* The marks are gone when insert throws.
                    field' = f /\ outside' = outside \cup {"paste"} /\ copied' = copied
             [] ~HasMarks(field) /\ f.ptr > Size(f) -> Throws("insert")
             [] OTHER -> Goes(Right([f EXCEPT !.text = InsertString(@, f.ptr, copied)], Len(copied)))

TypeChar(c) ==
    /\ Typing /\ Size(field) < MaxLength
    /\ LET f == RemoveMarks(field)
           p == Smaller(f.ptr, Size(f))
       IN  IF HasMarks(field) /\ ~MarksInside(field) THEN Throws("drag")
           ELSE Goes(Right([f EXCEPT !.ptr = p, !.text = InsertString(@, p, <<c>>)], 1))

\* jump and sync
JumpField(pos) == /\ Tick
                  /\ Goes(CASE pos < field.ptr -> Left(field, field.ptr - pos)
                            [] pos > field.ptr -> Right(field, pos - field.ptr)
                            [] OTHER -> field)

FieldStep ==
    \/ FocusField \/ Unfocus \/ Blink \/ SwapField
    \/ \E mx \in 0..(FieldWidth - 1) : Click(mx) \/ DragOver(mx)
    \/ Submit \/ RemoveBefore \/ RemoveAfter \/ GoLeft \/ GoRight \/ ExtendLeft \/ ExtendRight
    \/ MarkWhole \/ CopyMarks \/ CutMarks \/ CopyOutside \/ PasteField
    \/ \E c \in Chars : TypeChar(c)
    \/ \E pos \in 0..MaxLength : JumpField(pos)
FieldSpec == InitField /\ [][FieldStep]_fieldVars
-----------------------------------------------------------------------------
\* No key makes the field erase or insert behind the end of its text, which would throw:
\* but for marks that were dragged there, and text pasted over marks around the pointer.
InsideText == outside \subseteq {"drag", "paste"}
=============================================================================
