-------------------------------- MODULE Input --------------------------------
(***************************************************************************)
(* The input of a terminal: what is typed arrives as bytes, in pieces, and *)
(* each cycle of the main loop makes a frame of what has arrived           *)
(* (UnixTerminalInput::_begincycle_impl, InputFrameView).                  *)
(*                                                                         *)
(* A byte is what the parser tells apart: "e" is ESC, "n" a newline; "x",  *)
(* "A", "[", "O", "P", "M" and "m" end a sequence, the rest do not.  The   *)
(* coordinates in a report of the mouse are one byte, the place.           *)
(***************************************************************************)
EXTENDS Naturals, Sequences, FiniteSetsExt, SequencesExt

CONSTANTS Strokes,    \* what is typed or done with the mouse: a key, and a place or None
          MaxStrokes, \* bound: how much
          None

VARIABLES typed,     \* the strokes so far
          line,      \* bytes on their way
          pending,   \* bytes that have been read and not been understood
          waiting,   \* esc_waiting
          expired,   \* esc_delay has passed since esc_started
          events,    \* what has been understood, in order
          cur, prev, \* the two maps of _keys_poll
          pulse,     \* _pulse
          mouse      \* _mouse_pos

inputVars == <<typed, line, pending, waiting, expired, events, cur, prev, pulse, mouse>>

Reports == {"press", "release", "move"}
Special == {"letter", "enter", "escape", "alt", "up", "altup", "f1"}

\* The bytes that end a sequence; a place is none of them.
Final == {"x", "A", "[", "O", "P", "M", "m"}

ASSUME InputAssumption ==
    /\ MaxStrokes \in Nat
    /\ \A s \in Strokes : /\ s = [key |-> s.key, at |-> s.at] /\ s.at \notin Final
                          /\ s.key \in Reports \/ (s.key \in Special /\ s.at = None)

\* The protocol of the terminal.
Sent(s) == CASE s.key = "letter" -> <<"x">>            [] s.key = "enter" -> <<"n">>
             [] s.key = "escape" -> <<"e">>            [] s.key = "alt" -> <<"e", "x">>
             [] s.key = "up" -> <<"e", "[", "A">>      [] s.key = "altup" -> <<"e", "[", "3", "A">>
             [] s.key = "f1" -> <<"e", "O", "P">>
             [] s.key = "press" -> <<"e", "[", "<", s.at, "M">>
             [] s.key = "move" -> <<"e", "[", "<35", s.at, "M">>
             [] s.key = "release" -> <<"e", "[", "<", s.at, "m">>

InitInput == /\ typed = <<>> /\ line = <<>> /\ pending = <<>> /\ events = <<>>
             /\ waiting = FALSE /\ expired = FALSE
             /\ cur = {} /\ prev = {} /\ pulse = {} /\ mouse = None

-----------------------------------------------------------------------------
(* The parser.                                                             *)

Stroke(k) == [key |-> k, at |-> None]

\* One byte outside a sequence, and a whole sequence.
Plain(b) == Stroke(IF b = "n" THEN "enter" ELSE IF b = "x" THEN "letter" ELSE "text")
Csi(s) == CASE s[3] = "<" /\ s[Len(s)] = "M" -> [key |-> "press", at |-> s[4]]
            [] s[3] = "<35" /\ s[Len(s)] = "M" -> [key |-> "move", at |-> s[4]]
            [] s[3] = "<" /\ s[Len(s)] = "m" -> [key |-> "release", at |-> s[4]]
            [] s[Len(s)] = "A" -> Stroke(IF s[3] = "3" THEN "altup" ELSE "up")
            [] OTHER -> Stroke("nothing")
Ss3(s) == Stroke(IF s[Len(s)] = "P" THEN "f1" ELSE "nothing")

\* What the loop does at the head of p: an event and the bytes it takes; or it waits for more.
Wait == [event |-> Stroke("wait"), taken |-> 0]
Event(e, n) == [event |-> e, taken |-> n]
Ends(p) == {i \in 3..Len(p) : p[i] \in Final}
Named(s) == IF s[2] = "[" THEN Csi(s) ELSE Ss3(s)
SequenceHasty(p) == IF Ends(p) = {} THEN Event(Stroke("escape"), 1)
                    ELSE LET end == Min(Ends(p)) IN Event(Named(SubSeq(p, 1, end)), end)
Sequence(p) == IF Ends(p) = {} THEN Wait
               ELSE LET end == Min(Ends(p)) IN Event(Named(SubSeq(p, 1, end)), end)
Understand(p, late) ==
    CASE p[1] # "e" -> Event(Plain(p[1]), 1)
      [] p[1] = "e" /\ Len(p) = 1 -> IF late THEN Event(Stroke("escape"), 1) ELSE Wait
      [] p[1] = "e" /\ Len(p) > 1 ->
           CASE p[2] \in {"[", "O"} -> Sequence(p)
             [] p[2] = "x" -> Event(Stroke("alt"), 2)
             [] OTHER -> Event(Stroke("altother"), 2)

\* The loop: what a turn of it makes of r, and where it ends.  An event takes a byte at least.
Parsed(r, late) ==
    LET u == Understand(r.rest, late)
    IN IF r.rest = <<>> \/ u.taken = 0 THEN r
       ELSE [events |-> Append(r.events, u.event),
             rest |-> SubSeq(r.rest, u.taken + 1, Len(r.rest))]
Parse(p, late) ==
    LET loop[i \in 0..Len(p)] == IF i = 0 THEN [events |-> <<>>, rest |-> p]
                                 ELSE Parsed(loop[i - 1], late /\ i = 1)
    IN loop[Len(p)]

-----------------------------------------------------------------------------
(* The frame.                                                              *)

\* The keys an event pulses, and the button of the mouse.
Keys(e) == CASE e.key \in Reports \cup {"nothing", "text"} -> {}
             [] e.key = "altup" -> {"alt", "up"}
             [] e.key \in {"alt", "altother"} -> {"alt", "letter"}
             [] OTHER -> {e.key}
Hold(held, e) == CASE e.key = "press" -> held \cup {"left"} [] e.key = "release" -> held \ {"left"}
                   [] OTHER -> held
Place(at, e) == IF e.key \in Reports THEN e.at ELSE at
Letters(es) == Cardinality({i \in DOMAIN es : es[i].key = "letter"})

\* swap() copies the map without what was pulsed; then set() and pulse() for every event.
Swapped == cur \ pulse
FrameOf(es) ==
    LET pulsed == UNION {Keys(es[i]) : i \in DOMAIN es}
        held[i \in 0..Len(es)] == IF i = 0 THEN Swapped ELSE Hold(held[i - 1], es[i])
        at[i \in 0..Len(es)] == IF i = 0 THEN mouse ELSE Place(at[i - 1], es[i])
        now == held[Len(es)] \cup pulsed
    IN [cur |-> now, pulse |-> pulsed, mouse |-> at[Len(es)],
        pressed |-> now \ cur, released |-> cur \ now,
        KeyInput |-> cur \ prev # {} \/ pulsed # {},
        KeyMouseInput |-> \E i \in 1..Len(es) : held[i] # held[i - 1],
        MouseMovement |-> \E i \in 1..Len(es) : at[i] # at[i - 1],
        letters |-> Letters(es)]

\* A cycle with the first n bytes of the line: r is what the parser makes of them, f the frame.
Read(n) == Parse(pending \o SubSeq(line, 1, n), waiting /\ expired)
Cycle(n, r, f) == /\ line' = SubSeq(line, n + 1, Len(line))
                  /\ pending' = r.rest /\ events' = events \o r.events
                  /\ waiting' = (r.rest # <<>>) /\ expired' = FALSE
                  /\ cur' = f.cur /\ prev' = cur /\ pulse' = f.pulse /\ mouse' = f.mouse
                  /\ UNCHANGED typed

\* The bytes of ESC and a key that follows it at once are those of Alt and the key: nothing
\* is typed until an escape has been understood.
Type(s) == /\ Len(typed) < MaxStrokes
           /\ typed # <<>> /\ Last(typed).key = "escape" => line = <<>> /\ pending = <<>>
           /\ typed' = Append(typed, s) /\ line' = line \o Sent(s)
           /\ UNCHANGED <<pending, waiting, expired, events, cur, prev, pulse, mouse>>

\* Time passes; the terminal sends the rest of a sequence in less.
Pass == /\ waiting /\ ~ expired /\ line = <<>> /\ expired' = TRUE
        /\ UNCHANGED <<typed, line, pending, waiting, events, cur, prev, pulse, mouse>>
-----------------------------------------------------------------------------
(* Properties.                                                             *)

\* What is understood is what was typed, in order and nothing else, wherever the bytes were
\* cut into reads; when everything has been read, it is all there is.
InputWhole == /\ IsPrefix(events, typed)
              /\ line = <<>> /\ pending = <<>> => events = typed

=============================================================================
