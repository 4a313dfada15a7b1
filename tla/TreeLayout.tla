----------------------------- MODULE TreeLayout -----------------------------
(***************************************************************************)
(* The layout of the element tree, which is computed when it is asked for  *)
(* and kept until a write invalidates it, and the marks that say what must *)
(* be drawn again (src/core/tree/d2_tree_element.cpp, d2_tree_parent.cpp,  *)
(* src/elements/d2_box.cpp).                                               *)
(*                                                                         *)
(* A chain of three: the root, which has the size of the screen; a Box in  *)
(* it, "pane", whose sides may be fixed, part of the root's or as large as *)
(* what is in it; and an "item" in the pane.  A layout is one of x, y, w   *)
(* and h of an element.  Everything runs on the main thread; what makes it *)
(* hard is the order of writes, of questions for a layout, and of frames.  *)
(***************************************************************************)
EXTENDS Integers, Sequences, FiniteSets, FiniteSetsExt

CONSTANTS Units,     \* the units a program gives, by layout: Units[e][l]
          Widths,    \* of the screen
          Height,    \* of the screen
          Asked,     \* the layouts a program asks for between frames
          MaxChanges \* bound: changes by the program

VARIABLES tree,   \* the elements
          look,   \* what the screen shows, and what it does not show yet
          changes

layoutVars == <<tree, look, changes>>

Sides == {"w", "h"}
Layouts == {"x", "y", "w", "h"}
Elements == {"pane", "item"}
Side(l) == IF l \in {"x", "w"} THEN "w" ELSE "h"
Parent(e) == IF e = "item" THEN "pane" ELSE "root"
Of(e, ls) == {e} \X ls

\* A unit: so many pixels ("px", and "auto" of a position); so many halves of what the parent
\* has ("pc"), or of the screen ("pv"); a position in the middle or from the far side; a side
\* as large as the content and so much more ("auto" of a Box).  Left out are Adjusted and
\* Relative, and a modifier on any other unit than pixels.  What depends on the screen does
\* not count as contextual.
Contextual(u) == u.kind \in {"pc", "center", "inverted"}

\* What is no longer valid is not read again.
Fresh(t) == [t EXCEPT !.left = @ \cap t.valid, !.cache = [k \in DOMAIN @ |-> IF k \in t.valid THEN @[k] ELSE 0]]
Attached(t, e) == e = "pane" \/ (e = "item" /\ t.present)
Children(t, e) == {c \in Elements : Attached(t, c) /\ Parent(c) = e}

-----------------------------------------------------------------------------
(* Resolving a layout: resolve_units, Box::_perfect_width, _get_border_impl *)

Border(t, e) == IF e = "item" THEN t.border ELSE 0
Room(t, e, l) == t.cache[<<Parent(e), Side(l)>>] - 2 * Border(t, e)
Half(n) == IF n >= 0 THEN n \div 2 ELSE -((-n) \div 2)
UpHalf(n) == -((-n) \div 2)

\* What the content of the pane takes along a side.
Position(s) == IF s = "w" THEN "x" ELSE "y"
Taken(t, s) ==
    CASE ~t.present \/ Contextual(t.unit.item[s]) -> 0
      [] t.present /\ ~Contextual(t.unit.item[s]) /\ Contextual(t.unit.item[Position(s)]) ->
           Max({0, t.cache[<<"item", s>>]})
      [] OTHER -> Max({0, t.cache[<<"item", Position(s)>>] - t.border + t.cache[<<"item", s>>]})

Needs(t, e, l) ==
    LET u == t.unit[e][l]
    IN  CASE u.kind = "px" -> {}
          [] u.kind = "pc" -> {<<Parent(e), Side(l)>>}
          [] u.kind \in {"center", "inverted"} -> {<<Parent(e), Side(l)>>, <<e, Side(l)>>}
          [] u.kind = "pv" \/ (u.kind = "auto" /\ e = "item") -> {}
          [] u.kind = "auto" /\ e = "pane" ->
               IF ~t.present \/ Contextual(t.unit.item[l]) THEN {}
               ELSE {<<"item", l>>} \cup (IF Contextual(t.unit.item[Position(l)]) THEN {}
                                         ELSE {<<"item", Position(l)>>})

\* A side that is part of the screen is a whole screen short; and an automatic one of an
\* element that is no Box is a pixel or so: its unit is replaced by 1 - n pixels, without
\* what said that it is a side, so the border above is added as if to a position.
Resolve(t, e, l) ==
    LET u == t.unit[e][l]
        b == IF l \in Sides THEN 0 ELSE Border(t, e)
        own == t.cache[<<e, Side(l)>>]
    IN  CASE u.kind = "px" -> u.n + b
          [] u.kind = "pc" -> UpHalf(u.n * Room(t, e, l)) + b
          [] u.kind = "center" -> Half(Room(t, e, l) - own) + b + u.n
          [] u.kind = "inverted" -> t.cache[<<Parent(e), Side(l)>>] - own - u.n - b
          [] u.kind = "pv" -> UpHalf((u.n - IF l \in Sides THEN 2 ELSE 0) * t.cache[<<"root", Side(l)>>]) + b
          [] u.kind = "auto" /\ e = "item" -> 1 - u.n + Border(t, e)
          [] u.kind = "auto" /\ e = "pane" -> Taken(t, l) + 2 * t.border + u.n

\* layout, box and position: the kept value, or layout_for
RECURSIVE Get(_, _)
Get(t, k) ==
    IF k \in t.valid THEN t
    ELSE LET needs == Needs(t, k[1], k[2])
             n == FoldSet(LAMBDA d, acc : Get(acc, d), t, needs)
         IN  [n EXCEPT !.valid = @ \cup {k}, !.cache[k] = Resolve(n, k[1], k[2])]
GetAll(t, e) == FoldSet(LAMBDA k, acc : Get(acc, k), t, Of(e, Layouts))

-----------------------------------------------------------------------------
(* Writes.  A write type is a set of layouts, "style" (what is drawn) and   *)
(* "layout".                                                                *)

WriteOf(l) == {l, "layout"} \cup (IF l \in Sides THEN {"style"} ELSE {})
Masked == Layouts \cup {"layout", "style"}
\* A mutant: a mark of style is taken for granted.
HasWriteLayout(t, e, type) == /\ Of(e, type \cap Layouts) \subseteq t.valid
                              /\ "layout" \in type => e \in t.relaid

HasWrite(t, e, type) ==
    /\ Of(e, type \cap Layouts) \subseteq t.valid
    /\ "style" \in type => e \in t.written
    /\ "layout" \in type => e \in t.relaid
\* _invalidate_state
Invalidate(t, e, type) ==
    Fresh([t EXCEPT !.valid = IF e = "root" THEN @ ELSE @ \ Of(e, type \cap Layouts),
                    !.written = IF "style" \in type THEN @ \cup {e} ELSE @,
                    !.relaid = IF "layout" \in type THEN @ \cup {e} ELSE @])
\* _contextual_change: what of an element depends on a side that changed
ContextualChange(t, e, type) ==
    IF e = "root" \/ type \cap Sides = {} THEN {}
    ELSE UNION {WriteOf(l) : l \in {m \in Layouts : Contextual(t.unit[e][m])}}

\* _signal_context_change_impl, and _signal_context_change_sub of each child
RECURSIVE ContextDown(_, _, _)
ContextDown(t, e, type) ==
    FoldSet(LAMBDA c, acc : LET flags == ContextualChange(acc, c, type)
                            IN  IF flags = {} THEN acc
                                ELSE ContextDown(Invalidate(acc, c, flags), c, type),
            t, Children(t, e))


\* _signal_write_local
WriteLocal(t, e, type) ==
    LET n == ContextDown(t, e, type)
    IN  IF type \cap Sides = {} THEN Invalidate(t, e, type)
        ELSE Invalidate(Invalidate(n, e, ContextualChange(n, e, type)), e, type)

\* _signal_write: up the tree as far as a parent lacks the marks; and a Box with an automatic
\* side (_signal_write_child_impl) takes the write of a child for one of its sides.  Ghost:
\* with two automatic sides it does not, as long as one of them is to be computed anyway.
Automatic(t, e) == IF e = "pane" THEN {s \in Sides : t.unit.pane[s].kind = "auto"} ELSE {}
RECURSIVE Write(_, _, _)
Write(t, e, type) ==
    LET n == WriteLocal(t, e, type)
        p == Parent(e)
        up == {"style"} \cup (type \cap {"layout"})
        m == IF HasWrite(n, p, up) THEN n ELSE Write(n, p, up)
        auto == UNION {WriteOf(s) : s \in Automatic(t, p)}
    IN  CASE e = "root" \/ ~Attached(t, e) -> n
          [] e # "root" /\ Attached(t, e) /\ auto # {} /\ HasWrite(m, p, auto) -> Write(m, p, auto)
          [] e # "root" /\ Attached(t, e) /\ auto # {} /\ ~HasWrite(m, p, auto) ->
               Fresh([m EXCEPT !.left = @ \cup IF type \cap Layouts = {} THEN {} ELSE Of(p, Automatic(t, p))])
          [] OTHER -> m

-----------------------------------------------------------------------------
(* Drawing: Element::frame, Box::_frame_impl and _object_render             *)

\* A picture is the tree and the look, as drawing goes along.
Size(t, e) == <<t.cache[<<e, "w">>], t.cache[<<e, "h">>]>>
Empty(t, e) == \E s \in Sides : t.cache[<<e, s>>] <= 0
Culled(t, c) == \/ t.cache[<<c, "x">>] - t.cache[<<c, "w">>] > t.cache[<<Parent(c), "w">>]
                \/ t.cache[<<c, "y">>] - t.cache[<<c, "h">>] > t.cache[<<Parent(c), "h">>]
Place(t, e) == [l \in Layouts |-> t.cache[<<e, l>>]]

RECURSIVE Draw(_, _)
Draw(p, e) ==
    LET t == Get(Get([p.tree EXCEPT !.relaid = @ \ {e}], <<e, "w">>), <<e, "h">>)
        clean == [t EXCEPT !.written = @ \ {e}]
        Render(c, acc) ==
            LET u == GetAll(acc.tree, c)
            IN  IF Culled(u, c) THEN [acc EXCEPT !.tree = u]
                ELSE Draw([tree |-> u, look |-> [acc.look EXCEPT !.at[c] = Place(u, c)]], c)
    IN  CASE e \notin p.tree.written -> [p EXCEPT !.tree.relaid = @ \ {e}]
          [] e \in p.tree.written /\ Empty(t, e) -> [p EXCEPT !.tree = clean]
          [] OTHER -> FoldSet(Render, [tree |-> clean, look |-> [p.look EXCEPT !.unseen = @ \ {e}]],
                              Children(clean, e) \cap clean.displayed)

-----------------------------------------------------------------------------
(* What a program does                                                     *)

Plain == [e \in Elements |-> [l \in Layouts |-> CHOOSE u \in Units[e][l] : u.kind = "px"]]
AllKeys == ({"root"} \cup Elements) \X Layouts
\* A tree that has been drawn once.
InitLayout ==
    \E width \in Widths :
        LET bare == [unit |-> Plain, border |-> 0, present |-> TRUE,
                     valid |-> Of("root", Layouts), left |-> {},
                     cache |-> [k \in AllKeys |-> CASE k = <<"root", "w">> -> width
                                                    [] k = <<"root", "h">> -> Height [] OTHER -> 0],
                     written |-> {"root"} \cup Elements, relaid |-> {"root"} \cup Elements,
                     displayed |-> Elements, swapped |-> {}]
            none == [at |-> [e \in Elements |-> Place(bare, e)], unseen |-> Elements]
            drawn == Draw([tree |-> bare, look |-> none], "root")
        IN  tree = drawn.tree /\ look = drawn.look /\ changes = 0

Change(t) == changes < MaxChanges /\ changes' = changes + 1 /\ tree' = t
Same == UNCHANGED look

SetUnit(e, l, u) == /\ u # tree.unit[e][l] /\ Same
                    /\ Change(Write([tree EXCEPT !.unit[e][l] = u], e, WriteOf(l)))
\* Ghost: a border of another width is a Style write, and leaves behind what was computed
\* with the old one.
Bordered(t) == {<<"item", l>> : l \in {m \in Layouts : m \notin Sides \/ t.unit.item[m].kind \in {"pc", "auto"}}}
               \cup Of("pane", Automatic(t, "pane"))
SetBorder(b) == /\ b # tree.border /\ Same
                /\ LET n == Write([tree EXCEPT !.border = b], "pane", {"style"})
                   IN  Change(Fresh([n EXCEPT !.left = @ \cup Bordered(n)]))
\* Any other property
Restyle(e) == /\ Change(Write(tree, e, {"style"}))
              /\ look' = [look EXCEPT !.unseen = @ \cup {e}]

\* setstate: an element that is swapped out has lost its buffer
Below(t, e) == IF e = "pane" THEN {"pane", "item"} \cap ({"pane"} \cup Children(t, "pane")) ELSE {e}
Show(e) ==
    /\ e \notin tree.displayed /\ Same
    /\ LET one(t, c) == IF c \in t.displayed THEN t
                        ELSE [Write([t EXCEPT !.displayed = @ \cup {c}], c, Masked)
                                 EXCEPT !.swapped = @ \ Below(t, c)]
           n == one(tree, e)
       IN  Change(IF "item" \in Below(tree, e) THEN one(n, "item") ELSE n)
Hide(e) ==
    /\ e \in tree.displayed
    /\ LET out == Below(tree, e) \ tree.swapped
           n == [tree EXCEPT !.displayed = @ \ Below(tree, e), !.swapped = @ \cup out,
                             !.written = @ \cup out]
           p == Parent(e)
       IN  /\ Change(IF Attached(tree, e) /\ (p = "root" \/ p \in tree.displayed)
                     THEN Write(n, p, Masked) ELSE n)
           /\ look' = [look EXCEPT !.unseen = @ \cup out]

\* VecParentElement: extract, and create of the same element again
Extract == /\ tree.present /\ Same
           /\ Change([Write(tree, "pane", Masked) EXCEPT !.present = FALSE])
Create ==
    /\ ~tree.present
    /\ LET out == ("pane" \in tree.swapped) /\ ("item" \notin tree.swapped)
           n == [tree EXCEPT !.present = TRUE,
                             !.swapped = IF "pane" \in @ THEN @ \cup {"item"} ELSE @ \ {"item"},
                             !.written = IF out THEN @ \cup {"item"} ELSE @]
       IN  /\ Change(Write(n, "pane", Masked))
           /\ look' = [look EXCEPT !.unseen = IF out THEN @ \cup {"item"} ELSE @]

\* SystemScreen::_update_viewport.  Ghost: it leaves behind what is part of the screen.
OfScreen(t) == {k \in Elements \X {"x", "w"} : t.unit[k[1]][k[2]].kind = "pv"}
Resize(width) ==
    /\ width # tree.cache[<<"root", "w">>] /\ Same
    /\ LET n == Write([tree EXCEPT !.cache[<<"root", "w">>] = width], "root", {"style"})
           c == ContextDown(n, "root", WriteOf("w"))
       IN  Change(Fresh([c EXCEPT !.left = @ \cup OfScreen(c)]))
\* A question for a layout
Ask(e, l) == /\ <<e, l>> \in Asked \ tree.valid /\ Attached(tree, e)
             /\ tree' = Get(tree, <<e, l>>) /\ UNCHANGED <<look, changes>>
FrameDrawn == LET p == Draw([tree |-> tree, look |-> look], "root")
              IN  tree' = p.tree /\ look' = p.look /\ changes' = changes

LayoutStep ==
    \/ \E e \in Elements : \/ \E l \in Layouts : Ask(e, l) \/ \E u \in Units[e][l] : SetUnit(e, l, u)
                           \/ Restyle(e) \/ Show(e) \/ Hide(e)
    \/ \E b \in {0, 1} : SetBorder(b)
    \/ Extract \/ Create \/ FrameDrawn
    \/ \E width \in Widths : Resize(width)
LayoutSpec == InitLayout /\ [][LayoutStep]_layoutVars
-----------------------------------------------------------------------------
\* A layout that is kept is the one that would be computed now, from layouts that are kept as
\* well: no write leaves an old one behind, but for a new border width (see SetBorder), for
\* what is part of the screen (see Resize), and for a Box with two automatic sides (see Write).
LayoutFresh ==
    \A k \in tree.valid \ tree.left : Attached(tree, k[1]) =>
        /\ Needs(tree, k[1], k[2]) \subseteq tree.valid
        /\ tree.cache[k] = Resolve(tree, k[1], k[2])

\* With nothing left to draw, the screen shows every element that can be seen as it is and
\* where it is: no write is lost on its way to the root.
InSight(e) == /\ e \in tree.displayed /\ Attached(tree, e)
              /\ e = "item" => "pane" \in tree.displayed /\ ~Culled(tree, "pane") /\ ~Empty(tree, "pane")
              /\ Of(e, Layouts) \subseteq tree.valid => ~Culled(tree, e) /\ ~Empty(tree, e)
ScreenCurrent ==
    "root" \notin tree.written => \A e \in Elements : InSight(e) =>
        Of(e, Layouts) \subseteq tree.valid /\ look.at[e] = Place(tree, e) /\ e \notin look.unseen
=============================================================================
