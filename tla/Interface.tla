------------------------------ MODULE Interface ------------------------------
(***************************************************************************)
(* What a person sees of the program: the main loop takes a frame of the   *)
(* input, the screen moves its pointers, the binds are called, and what    *)
(* was typed is offered to the elements (SystemScreen::tick).              *)
(***************************************************************************)
EXTENDS Binder

CONSTANTS Field,  \* the element a callback focuses
          Renewed \* the bind that a callback unbinds and binds again, and to what

VARIABLES offered, \* letters that fields have got from sequence()
          dragged  \* ghost: those that came in one frame with the mouse, its button down

lettersVars == <<offered, dragged>>
vars == <<inputVars, screenVars, binder, early, lettersVars>>

ASSUME InterfaceAssumption == /\ Field \in Inputs
                              /\ Renewed.name \in Names /\ Renewed.value \in Values

Init == InitInput /\ InitScreen /\ InitBinder /\ offered = 0 /\ dragged = 0

-----------------------------------------------------------------------------
(* The listener of KeyInput.                                               *)

FocusAllowed(v, u) == LET inInput == u.focused \in Inputs
                      IN CASE v.policy = "RespectInput" -> ~ inInput
                           [] v.policy = "RequireInput" -> inInput
                           [] v.policy = "IgnoreInput" -> TRUE

\* The step a bind is at; slow: sequential_delay has passed since the last.
At(bind, slow) == IF slow THEN 0 ELSE bind.idx
Matches(b, n, u, f, slow) == LET bind == b.binds[n]
                             IN /\ n \in b.set /\ FocusAllowed(bind.value, u)
                                /\ bind.value.keys[At(bind, slow) + 1] \in f.pressed
Completes(b, n, u, f, slow) ==
    Matches(b, n, u, f, slow) /\ At(b.binds[n], slow) + 1 = Len(b.binds[n].value.keys)

\* A key that is not the next one starts the sequence again.
Advance(b, u, f, slow) ==
    [b EXCEPT !.binds = [n \in Names |->
        IF n \notin b.set THEN b.binds[n]
        ELSE [b.binds[n] EXCEPT !.idx =
            IF Matches(b, n, u, f, slow) /\ ~ Completes(b, n, u, f, slow)
            THEN At(b.binds[n], slow) + 1 ELSE 0]]]

\* The callbacks, each if the bind of the name is still the one that matched.
Callback(n, w) ==
    CASE Does[n] = "focus" ->
           LET u == Focus(w.u, IF Field \in gone THEN None ELSE Field)
           IN [w EXCEPT !.u = u, !.b = Listened(w.b, w.u.states, u.states)]
      [] Does[n] = "renew" ->
           [w EXCEPT !.b = BindTo(UnbindFrom(w.b, Renewed.name), Renewed.name, Renewed.value,
                                  w.u.states)]
      [] OTHER -> w
Current(n, b, w) == w.b.binds[n].bound /\ w.b.binds[n].epoch = b.binds[n].epoch
Called(n, b, w) ==
    IF ~ Current(n, b, w) THEN w
    ELSE [Callback(n, w) EXCEPT
             !.early = IF w.b.binds[n].epoch = b.binds[n].epoch THEN @ ELSE @ \cup {n}]
KeyInput(b, u, f, slow, order) ==
    LET done == [b |-> Advance(b, u, f, slow), u |-> u, early |-> {}]
        after[i \in 0..Len(order)] == IF i = 0 THEN done ELSE Called(order[i], b, after[i - 1])
    IN IF f.KeyInput /\ b.heard
       THEN [w |-> after[Len(order)], consumed |-> \E n \in Names : Matches(b, n, u, f, slow)]
       ELSE [w |-> [done EXCEPT !.b = b], consumed |-> FALSE]

-----------------------------------------------------------------------------
(* The events of the elements: the focused one and what is above it, then  *)
(* those under the mouse.  Only a field, which has nothing below it, takes *)
(* the letters.                                                            *)

\* "now": the letters are consumed, sequence() returns nothing; "next": they will be with the
\* next apply_consume.  The first look of a turn at the input resets both.
Fresh == {}
TakeSequence(c) == IF "now" \in c THEN c ELSE {"next"}
ApplyConsume(c) == IF "next" \in c THEN {"now", "next"} ELSE {}

\* A bind that matched asks for the letters; so does the signal KeySequenceInput, whose
\* argument they are, in every frame that has some; then the elements are asked.
SignalledByBinds(f, matched) == ApplyConsume(IF matched THEN TakeSequence(Fresh) ELSE Fresh)
Signalled(f, matched) ==
    LET key == IF matched THEN TakeSequence(Fresh) ELSE Fresh
    IN ApplyConsume(IF f.letters > 0 THEN TakeSequence(key) ELSE key)

Asks(u, f) == f.letters > 0 /\ u.focused \in Inputs
ByFocus(u, f, c) == [got |-> Asks(u, f) /\ "now" \notin c,
                     consumed |-> ApplyConsume(IF Asks(u, f) THEN TakeSequence(c) ELSE c)]

\* A field that is dragged in asks the module for the position of the mouse, and that resets
\* what was consumed.
Drag(f) == "left" \in f.cur /\ (f.MouseMovement \/ f.KeyMouseInput)
ByMouse(u, f, c) == LET seen == IF Drag(f) THEN Fresh ELSE c
                    IN /\ f.letters > 0 /\ (f.MouseMovement \/ f.KeyMouseInput)
                       /\ u.targetted \in Inputs /\ "now" \notin seen

\* A field with the focus gives it up on Escape, and one that is dragged in takes it away.
Escape(u, f) == IF /\ u.focused \in Inputs \/ (Drag(f) /\ u.targetted \in Inputs)
                   /\ "escape" \in f.cur /\ "enter" \notin f.cur
                THEN Focus(u, None) ELSE u

\* One turn of the main loop, with the first n bytes of the line; Ended is what it leaves when
\* the binds have been called (key) and the escape has been taken (end).
Ended(n, r, f, key, end) ==
    LET focus == ByFocus(key.w.u, f, Signalled(f, key.consumed))
        hover == ByMouse(end, f, focus.consumed)
    IN /\ Cycle(n, r, f)
       /\ ui' = end
       /\ binder' = Listened(key.w.b, key.w.u.states, end.states)
       /\ early' = early \cup key.w.early
       /\ offered' = offered + (IF focus.got THEN f.letters ELSE 0)
                            + (IF hover THEN f.letters ELSE 0)
       /\ dragged' = dragged + (IF Drag(f) THEN f.letters ELSE 0)
       /\ UNCHANGED <<children, parent, root, keynav, gone, calls, left, missed>>
Turn(n) ==
    \E r \in {Read(n)} : \E f \in {FrameOf(r.events)} : \E pointed \in {Mouse(f)} :
    \E bound \in {Listened(binder, ui.states, pointed.states)} :
    \E slow \in {late \in BOOLEAN : late => \E m \in Names : bound.binds[m].idx > 0} :
    \E order \in SetToSeqs({m \in Names : Completes(bound, m, pointed, f, slow)}) :
    \E key \in {KeyInput(bound, pointed, f, slow, order)} :
    \E end \in {Escape(key.w.u, f)} : Ended(n, r, f, key, end)

-----------------------------------------------------------------------------
(* The program, between two turns.                                         *)

Listen == binder' = Listened(binder, ui.states, ui'.states) /\ UNCHANGED early
Rest == UNCHANGED lettersVars
Tree == /\ \/ \E e \in Elements : RemoveElement(e)
           \/ \E e \in Elements, p \in Containers : Move(e, p)
        /\ UNCHANGED <<inputVars, binder, early>> /\ Rest
Switch == \E n \in 0..Len(line) : \E r \in Roots :
              \E read \in {Read(n)} : \E f \in {FrameOf(read.events)} :
                 SetTree(r, f) /\ Cycle(n, read, f) /\ Listen /\ Rest
Point == /\ \/ \E e \in Elements \cup {None} : CallFocus(e)
            \/ \E reverse \in BOOLEAN : FocusNext(reverse)
            \/ ClearKeynav
         /\ Listen /\ UNCHANGED inputVars /\ Rest
Binds == /\ \E n \in Names : \/ \E v \in Values : Bind(n, v) \/ Rebind(n, v)
                             \/ Freeze(n) \/ Unfreeze(n) \/ Unbind(n)
         /\ UNCHANGED <<inputVars, children, parent, root, ui, keynav, gone, left, missed>>
         /\ UNCHANGED early /\ Rest

Typing == (calls + Len(typed) < MaxSteps /\ \E s \in Strokes : Type(s)) \/ Pass
Next == \/ Typing /\ UNCHANGED <<screenVars, binder, early>> /\ Rest
        \/ \E n \in 0..Len(line) : Turn(n)
        \/ Tree \/ Switch \/ Point \/ Binds

Spec == Init /\ [][Next]_vars

-----------------------------------------------------------------------------
(* Properties.                                                             *)

\* A bind is active exactly while it is enabled and its element is in the state it needs,
\* whatever was focused, hovered, rebound, frozen or bound again; then keys are listened to.
\* Left out: a bind whose element is gone, which nobody tells, and one whose unfreeze found a
\* collision, which is enabled and stays inactive.
BindsActive ==
    LET b == binder.binds
    IN /\ \A n \in Names : n \in binder.set <=> b[n].active
       /\ \A n \in Names \ binder.failed : b[n].bound /\ ~ Expired(b[n].value) =>
              (n \in binder.set <=> b[n].enabled /\ Met(b[n].value, ui.states))
       /\ \A n \in binder.set : b[n].bound /\ b[n].enabled
       /\ binder.set # {} => binder.heard

\* No bind is called for a key that was pressed before it was bound, also when another
\* callback of the same frame has bound its name again.
CalledLater == early = {}

\* A letter is used once: the listeners of KeySequenceInput have it, and no field gets it too,
\* also when a bind moves the focus to a field and when the field with the focus is under the
\* mouse.  Left out: a letter in one frame with a drag, which one field gets again.
LettersOnce == offered <= dragged

\* A key counts once, and for what was there when it was pressed.
KeysOnce == CalledLater /\ LettersOnce
=============================================================================
