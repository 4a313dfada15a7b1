------------------------------ MODULE Choices ------------------------------
(***************************************************************************)
(* Widgets that hold a choice and tell the program of it: dx::Switch and   *)
(* dx::VerticalSwitch (src/elements/d2_switch.cpp), dx::Dropdown           *)
(* (d2_dropdown.cpp) and dx::Checkbox (d2_checkbox.cpp).                   *)
(*                                                                         *)
(* One widget is looked at, of the kind chosen at the beginning.  Options  *)
(* are numbered from 0 and None is no choice; a checkbox has the options   *)
(* 0 (off) and 1 (on).  There is always one option at least: a switch with *)
(* none divides by zero.  The callback that is told of a choice may itself *)
(* make another one.                                                       *)
(***************************************************************************)
EXTENDS Integers

CONSTANTS MaxOptions, \* bound: options of a widget
          Rows,       \* height of a vertical switch
          MaxTurns    \* bound: frames and calls

VARIABLES widget,
          told,      \* what the program's callback was told last
          strays,    \* ways in which an index that names no option came about
          turns

choiceVars == <<widget, told, strays, turns>>

Vertical == {"vertical", "separated"}
AnySwitch == {"switch"} \cup Vertical
Kinds == AnySwitch \cup {"dropdown", "checkbox"}
None == -1
Options(w) == 0..(w.n - 1)

\* sel is _selector of a vertical switch and _soft_selected of a dropdown; own tells that
\* the program itself made the choice, and is not told of it, while or after it was told of
\* another.
InitChoices ==
    /\ widget \in [kind : Kinds, n : 1..MaxOptions, idx : {None, 0}, old : {None}, sel : {None},
                   off : {0}, open : {FALSE}, keynavi : {FALSE}, own : {FALSE}]
    /\ widget.idx = (IF widget.kind = "checkbox" THEN 0 ELSE None)
    /\ widget.kind = "checkbox" => widget.n = 2
    /\ told = widget.idx /\ strays = {} /\ turns = 0

\* What a callback does that is told of i: nothing, or it makes a choice of its own.
Answers(w, i) == {i, None} \cup Options(w)

Strayed(w, idx, cause) == IF idx \in Options(w) \cup {None} THEN {} ELSE {cause}

\* The option a callback that takes values is told of is read without a look at the index.
Unread(w, i, cause) == IF i = None THEN {cause} ELSE {}

\* Switch::_submit tells of a change.  A reset by the callback calls it again before the
\* choice is remembered (old): what was chosen before all this is taken for no change, and
\* the program, which took its choice back, is not told of that.
Submit(w, cause) ==
    IF w.old = w.idx THEN widget' = w /\ UNCHANGED <<told, strays>>
    ELSE \E answer \in Answers(w, w.idx) :
             /\ widget' = [w EXCEPT !.idx = answer, !.old = answer, !.own = answer = w.old]
             /\ told' = (IF answer = w.old THEN w.idx ELSE answer)
             /\ strays' = strays \cup (IF w.idx = widget.idx THEN {} ELSE Strayed(w, w.idx, cause))
                                 \cup Strayed(w, w.old, "old option")
                                 \cup Unread(w, w.idx, IF cause = "reset" THEN "reset to none"
                                                       ELSE "dropped choice")
                                 \cup (IF answer \in {w.old, w.idx} THEN {}
                                       ELSE Unread(w, answer, "reset to none"))

Turn(kinds) == turns < MaxTurns /\ turns' = turns + 1 /\ widget.kind \in kinds
Quietly(w) == widget' = w /\ UNCHANGED <<told, strays>>

-----------------------------------------------------------------------------
(* Switch                                                                  *)

ClickSwitch(cell) == /\ Turn({"switch"}) /\ cell \in Options(widget) /\ cell # widget.idx
                     /\ Submit([widget EXCEPT !.idx = cell], "click")
\* An index below None is unsigned when it is divided: 2^64 leaves the remainders of 16.
Next1(w, i) == (i + 1 + 16) % w.n
Tab == Turn(AnySwitch) /\ Submit([widget EXCEPT !.idx = Next1(widget, @)], "tab")
Reset(i) == /\ Turn(AnySwitch) /\ i # widget.idx /\ i \in Options(widget) \cup {None}
            /\ Submit([widget EXCEPT !.idx = i], "reset")

(* VerticalSwitch: a window of Rows options that begins at off             *)

Highest(w) == IF w.n > Rows THEN w.n - Rows ELSE 0

\* The program sets the options.  Only a vertical switch looks at its choice.
SetOptions(n) ==
    /\ Turn(Kinds \ {"checkbox"}) /\ n # widget.n
    /\ LET w == [widget EXCEPT !.n = n]
           inside == IF w.kind \in Vertical /\ w.idx \notin Options(w) THEN None ELSE w.idx
       IN  /\ widget' = [w EXCEPT !.idx = inside,
                                  !.off = IF @ > Highest(w) THEN Highest(w) ELSE @]
           /\ strays' = strays \cup Strayed(w, inside, "fewer options") /\ told' = told

\* The row a click on line y is taken for, or None.  With separators a row has ch lines, of
\* which the last is the separator; the height less the separators is unsigned and may wrap.
RowOf(w, y) ==
    LET ch == IF Rows < w.n - 1 THEN Rows + 1 ELSE (Rows - (w.n - 1)) \div w.n + 1
    IN  CASE w.kind = "vertical" /\ y < w.n -> y
          [] w.kind = "separated" /\ y % ch # ch - 1 /\ y \div ch < w.n -> y \div ch
          [] OTHER -> None
\* The row, and not the option in it, is compared with the choice.
ClickRow(y) == /\ Turn(Vertical)
               /\ LET row == RowOf(widget, y)
                  IN  /\ row # None /\ row # widget.idx
                      /\ Submit([widget EXCEPT !.idx = row + widget.off], "blank row")

\* scroll_up and scroll_down, by an arrow or by the wheel
Selected(w) == IF w.sel = None THEN w.idx ELSE w.sel
ScrollUp ==
    /\ Turn(Vertical)
    /\ LET wraps == Selected(widget) = 0
           sel == IF wraps THEN widget.n - 1 ELSE Selected(widget) - 1
           off == IF wraps THEN Highest(widget) ELSE widget.off
       IN  Submit([widget EXCEPT !.sel = sel,
                       !.off = IF off > 0 /\ sel < off + (Rows - 1) \div 2 THEN off - 1 ELSE off],
                  "scroll")
ScrollDown ==
    /\ Turn(Vertical)
    /\ LET sel == Next1(widget, Selected(widget))
       IN  Submit([widget EXCEPT !.sel = sel,
                       !.off = CASE sel = 0 -> 0
                                 [] sel # 0 /\ sel > @ + (Rows - 1) \div 2 -> @ + 1
                                 [] OTHER -> @], "scroll")
\* A mutant: the program is not told.
EnterRowQuietly == Turn(Vertical) /\ widget.sel # None /\ Quietly([widget EXCEPT !.idx = widget.sel])

EnterRow == /\ Turn(Vertical) /\ widget.sel # None
            /\ Submit([widget EXCEPT !.idx = widget.sel],
                      IF widget.sel < None THEN "up from nothing" ELSE "stale selector")

Keynavi(on) == /\ Turn(Kinds) /\ on # widget.keynavi
               /\ Quietly([widget EXCEPT !.keynavi = on,
                               !.sel = IF widget.kind \in Vertical /\ on THEN widget.idx ELSE @,
                               !.open = IF widget.kind = "dropdown" THEN on ELSE @])
Blur == /\ Turn(Vertical \cup {"dropdown"})
        /\ Quietly([widget EXCEPT !.sel = IF widget.kind \in Vertical THEN None ELSE @,
                                  !.open = FALSE])

-----------------------------------------------------------------------------
(* Dropdown                                                                *)

\* choose stores the choice after it told of it, over what the callback chose meanwhile.
Choose(w, i) ==
    CASE i = None -> Quietly([w EXCEPT !.open = FALSE, !.idx = None, !.own = TRUE])
      [] i \in Options(w) -> \E answer \in Answers(w, i) :
             /\ widget' = [w EXCEPT !.open = FALSE, !.idx = i, !.own = answer # i]
             /\ told' = (IF answer = None THEN i ELSE answer) /\ strays' = strays
      [] OTHER -> widget' = w /\ told' = told /\ strays' = strays \cup {"throws"}

\* A click on the header opens and closes, one on a cell below chooses; the layout may
\* still have cells of options that are gone.
ClickCell(c) == /\ Turn({"dropdown"}) /\ (c >= 1 => widget.open)
                /\ IF c >= 1 THEN Choose(widget, c - 1) ELSE Quietly([widget EXCEPT !.open = ~@])
SoftDown == Turn({"dropdown"}) /\ Quietly([widget EXCEPT !.sel = (@ + 1) % widget.n])
\* A remainder has the sign of what is divided: from None the last but one is reached.
SoftUp == Turn({"dropdown"}) /\ Quietly([widget EXCEPT !.sel = (@ - 1 + 2 * widget.n) % widget.n])
\* _soft_selected is forgotten after the choice, and so not when it throws.
EnterCell == /\ Turn({"dropdown"})
             /\ LET w == [widget EXCEPT !.sel = None]
                IN  IF widget.open /\ widget.sel # None
                    THEN Choose(IF widget.sel \in Options(w) THEN w ELSE widget, widget.sel)
                    ELSE Quietly([w EXCEPT !.open = ~@])
ChooseCall(i) == Turn({"dropdown"}) /\ i < widget.n /\ Choose(widget, i)

-----------------------------------------------------------------------------
(* Checkbox                                                                *)

\* _submit; the callback may set the value, and is not told of that.
SubmitBox(w) == \E answer \in {w.idx, 1 - w.idx} :
                    /\ widget' = [w EXCEPT !.idx = answer, !.own = answer # w.idx]
                    /\ told' = w.idx /\ strays' = strays
Toggle == Turn({"checkbox"}) /\ SubmitBox([widget EXCEPT !.idx = 1 - @])
\* Enter tells of the value and leaves it as it is.
EnterBox == Turn({"checkbox"}) /\ widget.keynavi /\ SubmitBox(widget)
SetValue(i) == /\ Turn({"checkbox"}) /\ i # widget.idx
               /\ Quietly([widget EXCEPT !.idx = i, !.own = TRUE])

ChoiceStep ==
    \/ \E i \in 0..(MaxOptions - 1) : ClickSwitch(i) \/ SetOptions(i + 1)
    \/ \E i \in None..(MaxOptions - 1) : Reset(i) \/ ChooseCall(i)
    \/ \E y \in 0..(Rows - 1) : ClickRow(y)
    \/ \E c \in 0..MaxOptions : ClickCell(c)
    \/ \E on \in BOOLEAN : Keynavi(on)
    \/ Tab \/ ScrollUp \/ ScrollDown \/ EnterRow \/ Blur
    \/ SoftDown \/ SoftUp \/ EnterCell
    \/ Toggle \/ EnterBox \/ \E i \in {0, 1} : SetValue(i)
ChoiceSpec == InitChoices /\ [][ChoiceStep]_choiceVars
-----------------------------------------------------------------------------
\* The program knows what the widget shows: it was told of it last, unless it made or took
\* back the choice itself in the callback, or the choice went with the options.
ToldLast == told = widget.idx \/ widget.own \/ (widget.kind \in Vertical /\ widget.idx = None)

\* An index that names no option comes about, or is read, in the known ways only: all but a
\* vertical switch keep their choice when options are taken away, and that one keeps its
\* selector, and can be scrolled to rows that are blank, or upwards from no choice at all;
\* both kinds of switches read the option of no choice when the program resets them to none,
\* and a vertical one at the first event after its choice went with the options.
Known(kind) == CASE kind = "switch" -> {"fewer options", "old option", "reset to none"}
                 [] kind \in Vertical -> {"blank row", "up from nothing", "stale selector", "old option",
                                         "reset to none", "dropped choice"}
                 [] kind = "dropdown" -> {"fewer options", "throws"}
                 [] kind = "checkbox" -> {}
ChoiceInside == strays \subseteq Known(widget.kind)
=============================================================================
