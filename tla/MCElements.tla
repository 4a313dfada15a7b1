----------------------------- MODULE MCElements -----------------------------
(***************************************************************************)
(* The library of elements: the elements that keep a state of their own,   *)
(* the properties of elements and what they depend on, and the layout of a *)
(* tree of them.  In a behaviour one of these parts is shown and goes on;  *)
(* the others stay as they were made.                                      *)
(***************************************************************************)
EXTENDS Integers, Sequences, FiniteSets, FiniteSetsExt

CONSTANTS Letters, NewLine, BlockSize, Width, Height, MaxText, MaxInputs,
          Chars, FieldWidth, Pre, MaxLength, MaxFrames,
          MaxOptions, Rows, MaxTurns,
          Window, Parts, MaxContent, MaxScrolls, Preload, MaxViews,
          Values, MaxSubs, MaxCalls, MaxDepth,
          ScreenWidths, ScreenHeight, MaxChanges

\* Texts of the editor: none, one that fits the window, and one of two lines of which one
\* is longer than the window is wide.
MCSources == {<<>>, <<"a", "n">>, <<"b", "a", "n", "b">>}
\* Heights of the entries of a DemandScrollBox: some above, some below the estimate.
MCHeights == [i \in 0..4 |-> CASE i = 1 -> 3 [] i = 3 -> 2 [] OTHER -> 1]

\* Units of the tree: what is fixed, and what depends on the parent, the content or the screen.
Unit(kind, n) == [kind |-> kind, n |-> n]
MCUnits ==
    [pane |-> [x |-> {Unit("px", 0)}, y |-> {Unit("px", 0)},
               w |-> {Unit("px", 4), Unit("pc", 1), Unit("auto", 0)},
               h |-> {Unit("px", 3), Unit("auto", 1)}],
     item |-> [x |-> {Unit("px", 1), Unit("center", 0), Unit("inverted", 0), Unit("pv", 1)}, y |-> {Unit("px", 0)},
               w |-> {Unit("px", 2), Unit("pc", 2), Unit("pv", 3), Unit("auto", 0)},
               h |-> {Unit("px", 1), Unit("px", 2)}]]
MCAsked == ({"pane"} \X {"w", "h"}) \cup ({"item"} \X {"x", "w"})

VARIABLES shown, ed, clipboard, inputs, want, field, copied, frames, outside,
          widget, told, strays, turns, box, slider, scrolls, stale, list, views,
          deps, subs, prop, binds, stack, calls, spoiled, tree, look, changes

E == INSTANCE MultiInput WITH Sources <- MCSources, Overlaps <- FALSE
F == INSTANCE InputField
C == INSTANCE Choices
S == INSTANCE ScrollArea WITH MaxTurns <- MaxScrolls, turns <- scrolls
D == INSTANCE DemandView WITH Heights <- MCHeights, Pad <- 0, MaxTurns <- MaxViews, turns <- views
P == INSTANCE Dependencies
L == INSTANCE TreeLayout WITH Units <- MCUnits, Widths <- ScreenWidths, Height <- ScreenHeight,
                              Asked <- MCAsked

editorVars == <<ed, clipboard, inputs, want>>
fieldVars == <<field, copied, frames, outside>>
choiceVars == <<widget, told, strays, turns>>
scrollVars == <<box, slider, scrolls, stale>>
demandVars == <<list, views>>
depVars == <<deps, subs, prop, binds, stack, calls, spoiled>>
layoutVars == <<tree, look, changes>>
elementVars == <<shown, editorVars, fieldVars, choiceVars, scrollVars, demandVars, depVars,
                 layoutVars>>

Init == /\ shown \in {"editor", "field", "choice", "scroll", "demand", "values", "layout"}
        /\ E!InitEditor /\ (shown # "editor" => ed = E!New(<<>>))
        /\ F!InitField
        /\ C!InitChoices /\ (shown # "choice" => widget.kind = "checkbox")
        /\ S!InitScroll /\ D!InitDemand /\ P!InitDeps
        /\ L!InitLayout /\ (shown # "layout" => tree.cache[<<"root", "w">>] = 8)

Editor == shown = "editor" /\ E!EditorStep
          /\ UNCHANGED <<shown, fieldVars, choiceVars, scrollVars, demandVars, depVars, layoutVars>>
Field == shown = "field" /\ F!FieldStep
         /\ UNCHANGED <<shown, editorVars, choiceVars, scrollVars, demandVars, depVars, layoutVars>>
Choice == shown = "choice" /\ C!ChoiceStep
          /\ UNCHANGED <<shown, editorVars, fieldVars, scrollVars, demandVars, depVars, layoutVars>>
Scroll == shown = "scroll" /\ S!ScrollStep
          /\ UNCHANGED <<shown, editorVars, fieldVars, choiceVars, demandVars, depVars, layoutVars>>
Demand == shown = "demand" /\ D!DemandStep
          /\ UNCHANGED <<shown, editorVars, fieldVars, choiceVars, scrollVars, depVars, layoutVars>>
ValueStep == shown = "values" /\ P!DepStep
             /\ UNCHANGED <<shown, editorVars, fieldVars, choiceVars, scrollVars, demandVars, layoutVars>>
Layout == shown = "layout" /\ L!LayoutStep
          /\ UNCHANGED <<shown, editorVars, fieldVars, choiceVars, scrollVars, demandVars, depVars>>
Next == Editor \/ Field \/ Choice \/ Scroll \/ Demand \/ ValueStep \/ Layout

Spec == Init /\ [][Next]_elementVars
-----------------------------------------------------------------------------
\* An editor's text is that of a string with a history.
TextKept == E!TextKept
\* An editor's window follows its pointer.
PointerShown == E!PointerShown
\* The program knows what a widget shows.
ToldLast == C!ToldLast
\* A field never reaches behind its text, a widget never behind its options, but in the
\* ways that are known.
IndicesInside == F!InsideText /\ C!ChoiceInside
\* Bars and views that show a part of something agree with what is there.
ViewsAgree == E!BarsAgree /\ E!Blinking /\ S!ScrolledInside /\ D!WindowFilled
\* Subscribers and properties have the value of what they depend on, a subscription ends when
\* it is closed or its dependency ends, once and not before, and the flag of a property tells
\* whether it depends.
ValuesCurrent == /\ P!SubscribersCurrent /\ P!Follows /\ P!FlagTells
                 /\ P!DestroyedOnce /\ P!StaysSubscribed
\* No layout is kept that a write, a change of the tree or of the screen made wrong, and what
\* changed on the way to the screen is drawn.
ScreenCurrent == L!LayoutFresh /\ L!ScreenCurrent
=============================================================================
