----------------------------- MODULE DemandView -----------------------------
(***************************************************************************)
(* DemandScrollBox (src/elements/d2_demand_scrollbox.cpp): a list of which *)
(* only the entries in sight exist, and a few around them.  An entry is    *)
(* made by a callback when the view comes near it; its height is not known *)
(* before.  Where the list is scrolled to is kept as the entry on top and  *)
(* how much of it is above the window, moved by what the offset moved.     *)
(*                                                                         *)
(* What is drawn are the entries in sight one below the other from the     *)
(* first row on, the one on top whole: how much of it is above the window  *)
(* is kept, and moves the list on, but the drawing does not look at it.    *)
(*                                                                         *)
(* No height hint, no border; the callback always makes an entry.          *)
(***************************************************************************)
EXTENDS Integers, FiniteSets, FiniteSetsExt

CONSTANTS Heights,  \* of the entries, from 0
          Window,   \* the height of the list
          Preload,  \* entries made above and below those in sight
          Pad,      \* rows between entries
          MaxTurns  \* bound: what the user and the program do

VARIABLES list,   \* see InitDemand
          turns

demandVars == <<list, turns>>

Span(i) == Heights[i] + Pad
Total(is) == FoldSet(LAMBDA i, acc : acc + Span(i), 0, is)
\* The heights of the entries in known are kept, of a list of cached entries.  Of the
\* entries in the view those in embedded have the list for a parent.  max is a fraction.
InitDemand ==
    /\ list = [length |-> Cardinality(DOMAIN Heights), top |-> 0, inset |-> 0, offset |-> 0, prev |-> 0,
               max |-> <<Cardinality(DOMAIN Heights), 1>>, cached |-> 0, known |-> {}, inView |-> {},
               embedded |-> {}, sight |-> {}, written |-> TRUE, drawn |-> FALSE, cut |-> FALSE,
               broken |-> FALSE]
    /\ turns = 0
Turn == turns < MaxTurns /\ turns' = turns + 1
Change(l) == Turn /\ list' = [l EXCEPT !.written = TRUE, !.drawn = FALSE]

Toward0(n, d) == IF n >= 0 THEN n \div d ELSE -((-n) \div d)
Limit == Toward0(list.max[1], list.max[2])
\* scroll_to: reset_absolute of the slider, and its callback
Scrolled(x) == CASE x < 0 -> 0 [] x >= 0 /\ x > Limit -> Limit [] OTHER -> x
ScrollTo(x) == Change([list EXCEPT !.offset = Scrolled(x)])
\* _event_impl
Wheel(d) == ScrollTo(list.offset + d)
Key(d) == (IF d = 1 THEN list.offset <= Limit ELSE list.offset > 0) /\ ScrollTo(list.offset + d)
SetLength(n) == n # list.length /\ Change([list EXCEPT !.length = n, !.max = <<n, 1>>])
\* Swapped, with swap_out, and back
SwapOut == list.inView # {} /\ Change([list EXCEPT !.inView = {}, !.embedded = {}])

-----------------------------------------------------------------------------
(* _update_view and _frame_impl                                            *)

Moved == list.inset + list.offset - list.prev
\* The entry on top, found from where it was: downwards, then upwards, then cut off at the
\* ends.
Starts(a) == LET ends == {i \in list.top..list.length - 1 : a < Total(list.top..i)}
             IN  IF ends = {} THEN list.length - 1 ELSE Min(ends)
Rises(a) == LET fits == {i \in 0..list.top : a + Total(i..list.top - 1) >= 0}
            IN  IF fits = {} THEN 0 ELSE Max(fits)
Top == IF Moved < 0 THEN Rises(Moved) ELSE Starts(Moved)
Raw == IF Moved < 0 THEN Moved + Total(Top..list.top - 1) ELSE Moved - Total(list.top..Top - 1)

\* A list of another length than at the last frame has forgotten its heights.  Those of the
\* entries passed on the way are fetched, but not that of the last one: how much of it is
\* above the window is cut off by its estimate, the mean of what was fetched before.
Heighted == (IF list.cached = list.length THEN list.known ELSE {})
            \cup {i \in Min({Top, list.top})..Max({Top, list.top}) : i < list.top \/ i + 1 < list.length}
Spans(i) == LET all == {Heights[j] : j \in DOMAIN Heights}
            IN  IF i \in Heighted THEN {Span(i)} ELSE {h + Pad : h \in {1} \cup Min(all)..Max(all)}
Inset(span) == Max({0, Min({Raw, span - 1})})
InSight(top, inset) ==
    {i \in top..list.length - 1 : i = top \/ Total(top..i - 1) - inset < Window}
Around(is) == {i \in Min(is) - Preload..Max(is) + Preload : i \in 0..list.length - 1}

\* The maximum of the slider is estimated from the entries in sight.
Estimate(is) == <<Total(is) * list.length - Window * Cardinality(is), Cardinality(is)>>
Differs(f, g) == f[1] * g[2] # g[1] * f[2]

DrawEmpty == list' = [list EXCEPT !.inView = {}, !.embedded = {}, !.sight = {}, !.top = 0, !.inset = 0,
                                  !.prev = list.offset, !.max = <<-Window, 1>>, !.cut = TRUE,
                                  !.written = Differs(list.max, <<-Window, 1>>), !.drawn = TRUE]
\* Entries that are in the view stay, and yet all that were in it lose their parent.  To make
\* an entry, were it for its height only, and to move the maximum write the list again.
DrawEntries(inset) ==
    LET sight == InSight(Top, inset)
        new == Around(sight) \ list.inView
        known == Heighted \cup sight \cup new
    IN  list' = [list EXCEPT !.top = Top, !.inset = inset, !.prev = list.offset,
                             !.cached = list.length, !.known = known,
                             !.inView = Around(sight), !.embedded = new, !.sight = sight,
                             !.max = Estimate(sight), !.drawn = TRUE,
                             !.written = \/ Differs(list.max, Estimate(sight)) \/ new # {}
                                         \/ list.cached # list.length \/ known # list.known,
                             !.cut = @ \/ Raw # inset]
\* A list shorter than where it is scrolled to is read behind its end, unless it is scrolled
\* up from there meanwhile.
Behind == list.top >= list.length /\ ~(list.top = list.length /\ Moved < 0)
FrameDrawn ==
    /\ list.written /\ turns' = turns
    /\ \/ list.length = 0 /\ DrawEmpty
       \/ list.length # 0 /\ Behind /\ list' = [list EXCEPT !.broken = TRUE]
       \/ list.length # 0 /\ ~Behind /\ \E span \in Spans(Top) : DrawEntries(Inset(span))

DemandStep == /\ ~list.broken
              /\ \/ \E d \in {-1, 1} : Key(d) \/ \E n \in 1..Window : Wheel(n * d)
                 \/ \E n \in 0..Cardinality(DOMAIN Heights) : SetLength(n)
                 \/ SwapOut \/ FrameDrawn
DemandSpec == InitDemand /\ [][DemandStep]_demandVars
-----------------------------------------------------------------------------
\* After a frame the entries in sight fill the window, or end with the last one; each was
\* made, and its height is known, and none outside the view still has the list for a parent; and above them is as much of the list as it was scrolled
\* by, unless the list was cut off at an end (the estimate of its height was wrong) or was
\* empty.  Once nothing is left to be drawn, what is above is less than the entry on top.
\* Not once the list has become shorter than where it is scrolled to, which the code does not
\* survive.
WindowFilled == list.drawn /\ ~list.broken /\ list.length # 0 =>
    /\ list.top \in list.sight /\ list.sight = Min(list.sight)..Max(list.sight)
    /\ Total(list.sight) - list.inset >= Window \/ list.length - 1 \in list.sight
    /\ list.sight \subseteq list.inView \cap list.known /\ list.embedded \subseteq list.inView
    /\ list.cut \/ Total(0..list.top - 1) + list.inset = list.prev
    /\ list.written \/ list.inset \in 0..Span(list.top) - 1
=============================================================================
