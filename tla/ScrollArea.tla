----------------------------- MODULE ScrollArea -----------------------------
(***************************************************************************)
(* A ScrollBox and the VerticalSlider beside it (src/elements/             *)
(* d2_scrollbox.cpp, d2_slider.cpp).  How far the box is scrolled is kept  *)
(* three times: as the offset of the box, as the position of the slider,   *)
(* and as a place of its handle; the slider's maximum follows the height of*)
(* the content only when the layout is updated, before the next frame.     *)
(*                                                                         *)
(* The box has no border, and is as high as the slider.  A position is a   *)
(* float in the code: here it counts parts of a row.                       *)
(***************************************************************************)
EXTENDS Integers, FiniteSetsExt

CONSTANTS Window,     \* the height of the box
          Parts,      \* of a row: so many that every place of the handle is a whole number of them
          MaxContent, \* bound: the height of the content
          MaxTurns    \* bound: what the user and the program do

VARIABLES box,    \* content: its height, computed: when it was last asked for; offset; relaid:
                  \* the layout is to be updated
          slider, \* pos, in parts; max, in rows; width of the handle; grip: where the mouse holds it
          turns,
          stale   \* the layout changed the maximum after the last scrolling

scrollVars == <<box, slider, turns, stale>>

Within(n, lo, hi) == Max({lo, Min({n, hi})})
Excess(n) == Max({0, n - Window})
Bar(n) == Max({1, (Window * Window) \div n})
Shown == box.computed > Window
InitScroll ==
    /\ box = [content |-> MaxContent - 1, computed |-> MaxContent - 1, offset |-> 0, relaid |-> FALSE]
    /\ slider = [pos |-> 0, max |-> Excess(MaxContent - 1), width |-> Bar(MaxContent - 1),
                 grip |-> -1]
    /\ turns = 0 /\ stale = FALSE
Turn == turns < MaxTurns /\ turns' = turns + 1

\* absolute_value, and Slider::_submit with the callback of the ScrollBox, which writes the
\* position of every child
Absolute(s) == Within(s.pos, 0, s.max * Parts)
Submit(b, p) == /\ slider' = [slider EXCEPT !.pos = p]
                /\ box' = [b EXCEPT !.offset = Absolute(slider') \div Parts, !.relaid = TRUE]
                /\ stale' = (p > slider.max * Parts)

-----------------------------------------------------------------------------
(* ScrollBox                                                               *)

\* Children come, go or change their size.
Fill(n) == /\ n # box.content /\ Turn
           /\ box' = [box EXCEPT !.content = n, !.relaid = TRUE] /\ UNCHANGED <<slider, stale>>
\* scroll_to and sync
ScrollTo(x) == LET ch == Excess(box.content)
               IN  Submit([box EXCEPT !.computed = box.content], Within(x, 0, ch) * Parts)
Sync == Turn /\ ScrollTo(Excess(box.content))
\* _event_impl
Wheel(d) == Turn /\ ScrollTo(Within(box.offset + d, 0, Excess(box.computed)))
Key(d) == /\ Turn /\ IF d = 1 THEN box.offset <= Excess(box.computed) ELSE box.offset > 0
          /\ ScrollTo(box.offset + d)
\* _update_layout_impl
Update == /\ box.relaid
          /\ box' = [box EXCEPT !.computed = box.content, !.relaid = FALSE]
          /\ slider' = [slider EXCEPT !.max = Excess(box.content),
                                      !.width = IF box.content > Window THEN Bar(box.content) ELSE @]
          /\ stale' = (stale \/ slider'.max < slider.max)
          /\ turns' = turns

-----------------------------------------------------------------------------
(* Slider                                                                  *)

Travel == Window - slider.width
\* _relative_to_absolute and _absolute_to_relative
Handle == IF slider.max = 0 THEN 0 ELSE (slider.pos * Travel) \div (slider.max * Parts)
PlaceAt(a) == Within((a * slider.max * Parts) \div Travel, 0, slider.max * Parts)
Moves(p) == IF slider.max = 0 \/ p = slider.pos THEN UNCHANGED <<box, slider, stale>>
            ELSE Submit(box, p)

\* The button goes down on a row (_state_change_impl, and the event), and the mouse moves on
\* while it is held.
Press(y) ==
    LET on == y >= Handle /\ y < Handle + slider.width
        grip == IF on THEN y - Handle ELSE slider.width \div 2
    IN  /\ slider.grip = -1 /\ Shown /\ Turn
        /\ LET p == PlaceAt(Within(y - grip, 0, Travel))
           IN  IF slider.max = 0 \/ p = slider.pos
               THEN slider' = [slider EXCEPT !.grip = grip] /\ UNCHANGED <<box, stale>>
               ELSE /\ slider' = [slider EXCEPT !.pos = p, !.grip = grip]
                    /\ box' = [box EXCEPT !.offset = p \div Parts, !.relaid = TRUE]
                    /\ stale' = FALSE
Drag(y) == slider.grip # -1 /\ Turn /\ Moves(PlaceAt(Within(y - slider.grip, 0, Travel)))
Release == slider.grip # -1 /\ slider' = [slider EXCEPT !.grip = -1] /\ UNCHANGED <<box, turns, stale>>
WheelOver(d) == Shown /\ Turn /\ Moves(Within(slider.pos + d * Parts, 0, slider.max * Parts))
\* A step that would reach an end is not taken.
KeyOn(d) == LET p == slider.pos + d * Parts
            IN  /\ Shown /\ Turn
                /\ IF d = 1 THEN p < slider.max * Parts ELSE p > 0
                /\ Moves(p)

ScrollStep ==
    \/ \E n \in 0..MaxContent : Fill(n)
    \/ Sync \/ Update \/ Release
    \/ \E d \in {-1, 1} : Wheel(d) \/ Key(d) \/ WheelOver(d) \/ KeyOn(d)
    \/ \E y \in 0..Window - 1 : Press(y) \/ Drag(y)
ScrollSpec == InitScroll /\ [][ScrollStep]_scrollVars
-----------------------------------------------------------------------------
\* With the layout up to date, the box shows content only, and it and its slider agree how
\* far it is scrolled: unless, since it was scrolled, the maximum fell; or it was scrolled
\* by more than the maximum of the time.
ScrolledInside == ~box.relaid /\ ~stale =>
    /\ box.offset \in 0..Excess(box.content)
    /\ box.offset = Absolute(slider) \div Parts
    /\ Shown => Handle \in 0..Travel
=============================================================================
