------------------------------- MODULE Screen -------------------------------
(***************************************************************************)
(* The tree of elements and what the screen points at in it: the element   *)
(* under the mouse, the one that is clicked and the one with the focus     *)
(* (SystemScreen, ParentElement, Element::setstate).                       *)
(*                                                                         *)
(* Layout is abstract: the place of an element is where it is on top.      *)
(***************************************************************************)
EXTENDS Input

CONSTANTS Elements, Roots, \* the roots of the trees the screen can show
          Home,            \* the one it shows first
          Planted,         \* the children the elements are built with
          Containers,      \* what is a ParentElement
          Sinks, Inputs,   \* provides_cursor_sink(), provides_input()
          Delegate,        \* the child an element gives the focus on to, in its callback
          MaxSteps         \* bound: strokes and calls of the program together

VARIABLES children, parent, \* _elements, _parent
          root,             \* of the tree that is shown
          ui,               \* states of the elements; focused, clicked, targetted; stale
          keynav,           \* keynav_iterator
          gone,             \* elements that were destroyed
          calls, left, missed  \* ghosts, see below; ui.stale is one too

screenVars == <<children, parent, root, ui, keynav, gone, calls, left, missed>>

Pointers == {"Focused", "Clicked", "Hovered"}
Chained == {"RcFocus", "RcClick", "RcHover"}

ASSUME ScreenAssumption ==
    /\ Home \in Roots /\ Roots \subseteq Containers /\ Containers \subseteq Elements
    /\ Inputs \subseteq Sinks \ Containers /\ Sinks \subseteq Elements
    /\ Planted \in [Elements -> Seq(Elements)] /\ MaxSteps \in Nat
    /\ Delegate \in [Elements -> Elements \cup {None}]
    /\ IsFiniteSet(Elements) /\ None \notin Elements
    /\ \A e \in Elements : ToSet(Planted[e]) \cap Roots = {}

InitScreen ==
    /\ children = Planted
    /\ parent = [e \in Elements |-> LET ps == {p \in Elements : Contains(Planted[p], e)}
                                    IN IF ps = {} THEN None ELSE CHOOSE p \in ps : TRUE]
    /\ root = Home
    /\ ui = [states |-> [e \in Elements |-> {}], focused |-> None, clicked |-> None,
             targetted |-> None, stale |-> {}]
    /\ keynav = None /\ gone = {} /\ calls = 0
    /\ left = {} /\ missed = FALSE

-----------------------------------------------------------------------------
(* The tree.                                                               *)

\* What is reached from the elements in from, and where n steps lead from x.
Depth == Cardinality(Elements)
Reach(from, next) ==
    LET reach[i \in 0..Depth] == IF i = 0 THEN from
                                ELSE UNION {{x} \cup next[x] : x \in reach[i - 1]}
    IN reach[Depth]
Steps(next, x, n) == LET at[i \in 0..n] == IF i = 0 THEN x ELSE next[at[i - 1]] IN at[n]

\* An element and what is above it, as parent() finds it.
Up(e) == Reach({e} \ {None}, [x \in Elements |-> {parent[x]} \ {None}])

\* An element and what is below it.
Below(e) == Reach({e}, [x \in Elements |-> ToSet(children[x])])
Shown == Below(root) \ {root}

Spoken == {ui.focused, ui.clicked, ui.targetted} \ {None}
Call == calls + Len(typed) < MaxSteps /\ calls' = calls + 1

\* The children without e, which is there once.
Without(s, e) == IF Contains(s, e) THEN RemoveAt(s, CHOOSE i \in DOMAIN s : s[i] = e) ELSE s

\* remove() and _remove_setstate: what is below goes too, and no weak pointer reaches it.
Lost(x, S) == IF x \in S THEN None ELSE x
RemoveElement(e) ==
    /\ Call /\ e \in Shown /\ parent[e] # None /\ keynav = None
    /\ LET S == Below(e)
       IN /\ children' = [p \in Elements |-> IF p \in S THEN <<>>
                                             ELSE Without(children[p], e)]
          /\ parent' = [c \in Elements |-> IF c \in S THEN None ELSE parent[c]]
          /\ ui' = [states |-> [c \in Elements |-> IF c \in S THEN {} ELSE ui.states[c]],
                    focused |-> Lost(ui.focused, S), clicked |-> Lost(ui.clicked, S),
                    targetted |-> Lost(ui.targetted, S),
                    stale |-> ui.stale \cup UNION {Up(x) : x \in S \cap Spoken}]
          /\ gone' = gone \cup S
    /\ UNCHANGED <<root, keynav, left, missed>>

\* extract() and create() in another container: _extract_setstate takes Embedded from all
\* that is below and with it their parent; _insert_setstate gives one to e alone.
Move(e, p) ==
    /\ Call /\ e \in Shown /\ parent[e] # None /\ keynav = None
    /\ p \in (Shown \cup {root}) \cap Containers /\ p \notin Below(e)
    /\ children' = [q \in Elements |-> LET rest == Without(children[q], e)
                                       IN IF q = p THEN Append(rest, e) ELSE rest]
    /\ parent' = [c \in Elements |-> IF c = e THEN p
                                     ELSE IF c \in Below(e) THEN None ELSE parent[c]]
    /\ ui' = [ui EXCEPT !.stale = @ \cup UNION {Up(x) \cup Up(x)' : x \in Below(e) \cap Spoken}]
    /\ UNCHANGED <<root, keynav, gone, left, missed>>

-----------------------------------------------------------------------------
(* The pointers and the states they set.                                   *)

On(u, e, s) == IF e = None THEN u ELSE [u EXCEPT !.states[e] = @ \cup {s}]
Off(u, e, s) == IF e = None THEN u ELSE [u EXCEPT !.states[e] = @ \ {s}]

\* _trigger_rc_*: off from the old element up, on from the new one up, to where they meet.
RcBelow(u, s, n, o) ==
    [u EXCEPT !.states = [e \in Elements |->
        CASE e \in Up(n) \ Up(o) -> u.states[e] \cup {s}
          [] e = o /\ e \notin Up(n) -> u.states[e] \ {s}
          [] OTHER -> u.states[e]]]
Rc(u, s, n, o) ==
    LET on == Up(n) \ Up(o)
        off == Up(o) \ Up(n)
    IN [u EXCEPT !.states = [e \in Elements |-> CASE e \in on -> u.states[e] \cup {s}
                                               [] e \in off -> u.states[e] \ {s}
                                               [] OTHER -> u.states[e]]]

\* focus(); the callback of Focused may call it again, for a child: calls of it inside each
\* other, of which the i-th, from 0, is for by(i).  The pointer and Focused change before the
\* callback, RcFocus when it has returned; what the first call clears then that is above the
\* element the last one was for is stale.
Gain(u, p) ==
    LET off == IF u.focused = None THEN u ELSE [u EXCEPT !.states[u.focused] = @ \ Pointers]
    IN On([off EXCEPT !.focused = p], p, "Focused")
Heir(x) == IF x # None /\ Delegate[x] # None /\ parent[Delegate[x]] = x THEN {Delegate[x]} ELSE {}
Focus(u, p) ==
    LET n == Cardinality(Reach({p}, [x \in Elements \cup {None} |-> Heir(x)]))
        next == [x \in Elements \cup {None} |-> IF Heir(x) = {} THEN x ELSE Delegate[x]]
        by(i) == Steps(next, p, i)
        gained[i \in 0..n] == IF i = 0 THEN u ELSE Gain(gained[i - 1], by(i - 1))
        back[i \in 0..n] == IF i = 0 THEN gained[n]
                           ELSE Rc(back[i - 1], "RcFocus", by(n - i), gained[n - i].focused)
        regained == (Up(u.focused) \ Up(p)) \cap Up(by(n - 1))
    IN IF p = u.focused THEN u ELSE [back[n] EXCEPT !.stale = @ \cup regained]

\* _update_states_reverse
Sink(e) == Steps([x \in Elements \cup {None} |-> IF x \in Sinks \cup {None} THEN x ELSE parent[x]],
                 e, Depth)

\* tick(), with the frame f: what the mouse does.
Target(f) == IF f.mouse \in Shown THEN f.mouse ELSE None
UpTarget(f) == LET t == Target(f)
               IN IF t # None /\ "left" \in f.pressed /\ t \notin Sinks /\ parent[t] # None
                  THEN Sink(parent[t]) ELSE t
HoverAgain(u, t) ==
    IF t = u.targetted THEN u
    ELSE Rc(On([u EXCEPT !.targetted = t], t, "Hovered"), "RcHover", t, u.targetted)
Hover(u, t) ==
    IF t = u.targetted THEN u
    ELSE Rc(On(Off([u EXCEPT !.targetted = t], u.targetted, "Hovered"), t, "Hovered"),
            "RcHover", t, u.targetted)
Click(u, t) ==
    IF t = u.clicked THEN On(u, t, "Clicked")
    ELSE Rc(On(Off([u EXCEPT !.clicked = t], u.clicked, "Clicked"), t, "Clicked"),
            "RcClick", t, u.clicked)
Release(u) == Rc(Off([u EXCEPT !.clicked = None], u.clicked, "Clicked"), "RcClick", None, u.clicked)
Mouse(f) ==
    IF ~ (f.MouseMovement \/ f.KeyMouseInput) THEN ui
    ELSE LET hover == Hover(ui, Target(f))
             click == IF "left" \in f.pressed THEN Click(hover, UpTarget(f)) ELSE hover
             release == IF "left" \in f.released THEN Release(click) ELSE click
         IN IF "left" \in f.pressed /\ release.focused # UpTarget(f)
            THEN Focus(Off(release, keynav, "Keynavi"), UpTarget(f)) ELSE release

\* focus(), called by the program.
CallFocus(e) == /\ Call /\ e \in Shown \cup {None} /\ ui' = Focus(ui, e)
                /\ UNCHANGED <<children, parent, root, keynav, gone, left, missed>>

\* set(): the other tree is shown, and a cycle of input made whose frame nobody sees.
SetTree(r, f) ==
    /\ Call /\ r \in Roots \ {root} /\ root' = r
    /\ ui' = [ui EXCEPT !.focused = None, !.stale = @ \cup Up(ui.focused)]
    /\ left' = left \cup ({ui.focused} \ {None})
    /\ missed' = (missed \/ f.KeyMouseInput)
    /\ UNCHANGED <<children, parent, keynav, gone>>

-----------------------------------------------------------------------------
(* Navigation with the keyboard.  The iterator is the element it is at; it *)
(* does not outlive a change of the tree, so nothing is removed or moved   *)
(* while there is one.                                                     *)

Siblings(e) == children[parent[e]]
After(e) == LET i == CHOOSE i \in DOMAIN Siblings(e) : Siblings(e)[i] = e
            IN IF i < Len(Siblings(e)) THEN Siblings(e)[i + 1] ELSE None
Before(e) == LET i == CHOOSE i \in DOMAIN Siblings(e) : Siblings(e)[i] = e
             IN IF i > 1 THEN Siblings(e)[i - 1] ELSE None

\* _keynav_cycle_up, and the loop of _keynav_cycle: to the next element that takes input.
CycleUpFirst(e) == Head(children[root])
CycleUp(e) ==
    LET climb == [x \in Elements |-> IF parent[x] = None \/ After(x) # None THEN x ELSE parent[x]]
        c == Steps(climb, parent[e], Depth)
    IN IF parent[c] = None THEN Head(children[root]) ELSE After(c)
Following(e) == CASE children[e] # <<>> -> Head(children[e])
                  [] children[e] = <<>> /\ After(e) # None -> After(e)
                  [] OTHER -> CycleUp(e)
Forward(e) == Steps([x \in Elements |-> IF x \in Inputs THEN x ELSE Following(x)],
                    Following(e), Depth)

\* _keynav_cycle_up_reverse and _keynav_cycle_reverse.
CycleUpBack(e) ==
    LET climb == [x \in Elements |-> IF parent[x] = None \/ Before(x) # None THEN x ELSE parent[x]]
        c == Steps(climb, parent[e], Depth)
    IN IF parent[c] = None THEN Last(children[root]) ELSE Before(c)
Preceding(e) == CASE children[e] # <<>> -> Last(children[e])
                  [] children[e] = <<>> /\ Before(e) # None -> Before(e)
                  [] OTHER -> CycleUpBack(e)
Backward(e) == Steps([x \in Elements |-> IF x \in Inputs THEN x ELSE Preceding(x)],
                     Preceding(e), Depth)

\* _keynav_prepare, the cycle and _keynav_apply, from the element with the focus if it has a
\* parent; parent() must reach the root from everywhere in a tree that the cycle goes through.
RootedIn(r) == \A e \in Below(r) : r \in Up(e)
Rooted == RootedIn(root)
Begun == CASE keynav # None -> keynav
           [] keynav = None /\ ui.focused # None /\ parent[ui.focused] # None -> ui.focused
           [] OTHER -> None
Start(reverse) == IF reverse THEN Last(children[root]) ELSE Head(children[root])
Onward(e, reverse) == IF reverse THEN Backward(e) ELSE Forward(e)
FocusNext(reverse) ==
    /\ Call /\ Rooted /\ Shown \cap Inputs # {}
    /\ Begun # None => \E r \in Roots : Begun \in Below(r) /\ RootedIn(r)
    /\ LET to == CASE Begun # None -> Onward(Begun, reverse)
                   [] Begun = None /\ Start(reverse) \in Inputs -> Start(reverse)
                   [] OTHER -> Onward(Start(reverse), reverse)
       IN keynav' = to /\ ui' = Focus(On(Off(ui, keynav, "Keynavi"), to, "Keynavi"), to)
    /\ UNCHANGED <<children, parent, root, gone, left, missed>>
ClearKeynav ==
    /\ Call /\ keynav # None /\ keynav' = None
    /\ ui' = Focus(Off(ui, keynav, "Keynavi"), None)
    /\ UNCHANGED <<children, parent, root, gone, left, missed>>

-----------------------------------------------------------------------------
(* Properties.  Three ghosts name what the code leaves behind: stale, the  *)
(* elements above one that was pointed at when it was removed or moved, or *)
(* with the focus when the tree was changed, or that a callback gave it to *)
(* while it had it; left, those with the focus when the tree was changed;  *)
(* missed, that a frame with the button in it was lost in set().           *)

\* The states say what the pointers point at, whatever is removed, moved or focused from the
\* program, the keyboard or a callback; an element that loses the focus loses the other two.
\* Nothing is clicked while the button is up.
StatesPoint ==
    LET With(s) == {e \in Elements : s \in ui.states[e]}
    IN /\ {ui.focused} \ {None} \subseteq With("Focused")
       /\ With("Focused") \subseteq {ui.focused} \cup left
       /\ With("Clicked") \subseteq {ui.clicked} /\ With("Hovered") \subseteq {ui.targetted}
       /\ With("Keynavi") \subseteq {keynav}
       /\ ui.clicked # None => "left" \in cur \/ missed

\* Above what is pointed at, and nowhere else, the elements know it.
RcChains ==
    LET focus == Up(ui.focused)
        click == Up(ui.clicked)
        hover == Up(ui.targetted)
    IN \A e \in Elements \ (ui.stale \cup gone) :
           /\ "RcFocus" \in ui.states[e] <=> e \in focus
           /\ "RcClick" \in ui.states[e] <=> e \in click
           /\ "RcHover" \in ui.states[e] <=> e \in hover

\* Pointers, and the states of all elements, agree.
PointersKnown == StatesPoint /\ RcChains

\* Whatever the tree, navigation comes to every element that takes input once a round, and
\* then to the one it began with.
Trip(e, n, reverse) ==
    {Steps([x \in Elements |-> Onward(x, reverse)], e, i) : i \in 0..(n - 1)}
KeynavVisits ==
    LET inputs == Shown \cap Inputs
    IN Rooted /\ inputs # {} =>
           LET e == CHOOSE e \in inputs : TRUE
           IN \A reverse \in BOOLEAN : \A from \in {e, Onward(e, reverse)} :
                  Trip(from, Cardinality(inputs), reverse) = inputs
=============================================================================
