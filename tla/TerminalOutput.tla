--------------------------- MODULE TerminalOutput ---------------------------
(***************************************************************************)
(* UnixTerminalOutput::write (src/os/io/unix/d2_unix_system_io.cpp): of a  *)
(* frame it sends what differs from the last one, in as few positions and  *)
(* colours as it can.  The terminal is modelled as xterm does it: a glyph  *)
(* in the last column waits there for the next, a new line also returns    *)
(* the carriage, and an empty parameter of a colour means reset.           *)
(***************************************************************************)
EXTENDS Integers, PixelBuffer, FiniteSets

CONSTANTS Sizes,    \* <<width, height>> of the terminal
          Bases,    \* pixels that a frame is filled with
          Views,    \* what is inscribed
          MaxFrames \* bound: frames written

VARIABLES size,     \* of the terminal
          term,     \* what it shows, its cursor and its attributes
          swap,     \* _swapframe and _pbuffer_size
          scene,    \* of the last frame; None if the terminal was resized since
          styled,   \* ghost: some frame had a style
          undone,    \* ghost: a colour of a clean redraw was believed to be reset, and was not
          frames    \* frames so far
outputVars == <<size, term, swap, scene, styled, undone, frames>>

NoScene == [size |-> <<0, 0>>]
\* What the code believes at the beginning of each frame, and a reset leaves: the terminal's own
\* colours are taken to be white on black.
Reset == [fg |-> "white", bg |-> "black", style |-> {}]
Junk == [v |-> "junk", attr |-> Reset]
Scenes == {[size |-> s, base |-> b, view |-> v, x |-> x, y |-> y] :
              s \in Sizes, b \in Bases, v \in Views, x \in -1..2, y \in -1..0}
\* Box::_frame_impl: the background, and on it the elements below
FrameOf(s) == Inscribe(Filled(s.size[1], s.size[2], s.base), s.x, s.y, s.view)

InitOutput ==
    /\ size \in Sizes
    /\ term = [cells |-> [i \in 1..size[1] * size[2] |-> Junk], at |-> 0, waits |-> FALSE, attr |-> Reset]
    /\ swap = [packed |-> <<>>, size |-> 0]
    /\ scene = NoScene /\ styled = FALSE /\ undone = FALSE /\ frames = 0

-----------------------------------------------------------------------------
(* The terminal.                                                           *)

Attr(px) == [fg |-> px.fg, bg |-> px.bg, style |-> px.style]
MoveCursor(t, i) == [t EXCEPT !.at = i, !.waits = FALSE]
NewLine(t, w) ==
    [t EXCEPT !.at = (((IF t.waits THEN t.at - 1 ELSE t.at) \div w) + 1) * w, !.waits = FALSE]
\* A glyph goes to cell `at', and a tab is shown as a blank (_push).
Glyph(px) == IF px.v = "tab" THEN " " ELSE px.v
Put(t, w, px) ==
    [t EXCEPT !.cells = [@ EXCEPT ![t.at + 1] = [v |-> Glyph(px), attr |-> t.attr]],
              !.at = @ + 1, !.waits = (t.at + 1) % w = 0]

-----------------------------------------------------------------------------
(* What is sent: r holds the terminal and what the code believes of its    *)
(* attributes.                                                             *)

\* _generate_color.  If only the style changes the code ends with an empty parameter.
Colour(r, px, force) ==
    LET bg == force \/ px.bg # r.track.bg
        fg == force \/ px.fg # r.track.fg
        style == (r.t.attr.style \ (r.track.style \ px.style)) \cup (px.style \ r.track.style)
    IN  IF px.style = r.track.style /\ ~bg /\ ~fg THEN r
        ELSE [r EXCEPT !.track = Attr(px),
                       !.t.attr = IF ~bg /\ ~fg THEN Reset
                                  ELSE [fg |-> IF fg THEN px.fg ELSE @.fg,
                                        bg |-> IF bg THEN px.bg ELSE @.bg, style |-> style]]

\* Within a run of one colour the code sends a new line where a row begins; a run that begins
\* there leaves it to the terminal to wrap.
Follow(r, i, w, runs) == IF ~runs /\ i > 1 /\ (i - 1) % w = 0
                         THEN [r EXCEPT !.t = NewLine(@, w), !.linear = FALSE] ELSE r
Push(r, px, w) == [r EXCEPT !.t = Put(@, w, px)]

\* A clean redraw of all pixels
CleanPixel(r, f, i) ==
    LET px == f.data[i]
        begins == i = 1 \/ Attr(f.data[i - 1]) # Attr(px)
    IN  Push(Follow(IF begins THEN Colour(r, px, FALSE) ELSE r, i, f.w, begins), px, f.w)

\* A pixel of the difference to the last frame
Same(r, f, i, packed) ==
    [r EXCEPT !.linear = ~(i > 1 /\ (i - 1) % f.w = 0), !.sequential = FALSE, !.it = Increment(packed, @)]
\* A mutant: a position is sent only where a row begins.
BeginAnywhere(r, px, i) ==
    LET at == IF r.linear THEN r.t ELSE MoveCursor(r.t, i - 1)
    IN  [Colour([r EXCEPT !.t = at], px, ~r.sequential) EXCEPT !.linear = TRUE, !.sequential = TRUE]
BeginRun(r, px, i) ==
    LET at == IF r.linear /\ r.sequential THEN r.t ELSE MoveCursor(r.t, i - 1)
    IN  [Colour([r EXCEPT !.t = at], px, ~r.sequential) EXCEPT !.linear = TRUE, !.sequential = TRUE]
Changed(r, f, i, packed) ==
    LET px == f.data[i]
        begins == ~r.sequential \/ Attr(f.data[i - 1]) # Attr(px)
        here == Follow(IF begins THEN BeginRun(r, px, i) ELSE r, i, f.w, begins)
    IN  [Push(here, px, f.w) EXCEPT !.it = Increment(packed, @)]
DeltaPixel(r, f, i, packed) ==
    IF f.data[i] = Value(packed, r.it) THEN Same(r, f, i, packed) ELSE Changed(r, f, i, packed)

\* write of frame f, to a terminal t
Sent(t, f, packed, clean) ==
    LET start == [t |-> MoveCursor(t, 0), track |-> Reset, linear |-> FALSE, sequential |-> FALSE,
                  it |-> Begin(packed)]
        sent[i \in 0..f.w * f.h] ==
            IF i = 0 THEN start
            ELSE IF clean THEN CleanPixel(sent[i - 1], f, i)
            ELSE DeltaPixel(sent[i - 1], f, i, packed)
    IN  sent[f.w * f.h].t

WriteFrame(s, f, clean) ==
    /\ term' = Sent(term, f, swap.packed, clean)
    /\ swap' = [packed |-> Pack(f.data), size |-> f.w * f.h]
    /\ scene' = s
    /\ styled' = (styled \/ \E i \in DOMAIN f.data : f.data[i].style # {})
    /\ undone' = IF clean THEN /\ term.attr # Reset
                              /\ \/ f.data[1].fg = Reset.fg
                                 \/ f.data[1].bg = Reset.bg
                 ELSE undone
Write(s) == /\ frames < MaxFrames /\ frames' = frames + 1
            /\ s.size = size
            /\ WriteFrame(s, FrameOf(s), size[1] * size[2] # swap.size)
            /\ UNCHANGED size

\* The terminal gets another size, and may show anything until the next frame.  Left out are a
\* size of as many pixels, and one that is taken back before the next frame: write does not
\* notice them.
Resize(n) == /\ scene # NoScene /\ n[1] * n[2] # size[1] * size[2]
             /\ size' = n
             /\ term' = [term EXCEPT !.cells = [i \in 1..n[1] * n[2] |-> Junk], !.at = 0, !.waits = FALSE]
             /\ scene' = NoScene
             /\ UNCHANGED <<swap, styled, undone, frames>>

OutputStep == (\E s \in Scenes : Write(s)) \/ (\E n \in Sizes : Resize(n))
OutputSpec == InitOutput /\ [][OutputStep]_outputVars
-----------------------------------------------------------------------------
\* What a scene looks like: each cell of the view where it lies, over the background.
Covers(s, x, y) == x >= s.x /\ x < s.x + s.view.w /\ y >= s.y /\ y < s.y + s.view.h
Seen(s, i) == LET x == (i - 1) % s.size[1]
                  y == (i - 1) \div s.size[1]
              IN  IF Covers(s, x, y) THEN Blend(s.base, At(s.view, x - s.x, y - s.y)) ELSE s.base

\* The terminal shows the last frame, though only differences to packed frames are sent, in
\* runs over the ends of rows: every glyph, and every colour as long as no style was used, which
\* the code believes to be reset in each frame (d2_unix_system_io.cpp:1019), and the last clean
\* redraw did not rely on a reset of the colours.
ScreenShown ==
    scene # NoScene =>
        \A i \in DOMAIN term.cells :
            /\ term.cells[i].v = Glyph(Seen(scene, i))
            /\ styled \/ undone \/ term.cells[i].attr = Attr(Seen(scene, i))
=============================================================================
