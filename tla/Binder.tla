------------------------------- MODULE Binder -------------------------------
(***************************************************************************)
(* Key binds: sequences of keys that call the program, while an element is *)
(* focused or hovered, or always (SystemBinder).  A bind has one           *)
(* dependency at most, every step of its sequence is the press of a key,   *)
(* and it consumes what it matches.                                        *)
(***************************************************************************)
EXTENDS Screen

CONSTANTS Names, Values,  \* of binds: [keys, dep, cond, strong, policy]
          First,          \* the binds the program makes first: [name, value], in order
          Does            \* what the callback of a bind does

VARIABLES binder,  \* _binds, _active_set, _key_event
          early    \* ghost: binds that were called before a key of theirs was pressed

Unbound == [bound |-> FALSE, value |-> None, enabled |-> FALSE, active |-> FALSE, idx |-> 0,
            epoch |-> 0, own |-> {}, ears |-> {}]

ASSUME BinderAssumption ==
    /\ \A v \in Values : v.keys # <<>> /\ v.dep \in Elements \cup {None}
    /\ Does \in [Names -> {"nothing", "focus", "renew"}]
    /\ First \in Seq([name : Names, value : Values]) /\ IsFiniteSet(Names)

\* heard: there is a handle in _key_event.  failed: binds whose unfreeze found a collision.
Empty == [binds |-> [n \in Names |-> Unbound], set |-> {}, heard |-> FALSE, epochs |-> 0,
          failed |-> {}]

-----------------------------------------------------------------------------
(* What is active.                                                         *)

\* _check_event
CheckEvent(b) == [b EXCEPT !.heard = (b.set # {})]

\* dependency_state, for elements in the states s; an element that is gone is a null pointer.
Expired(v) == v.dep # None /\ v.dep \in gone
Met(v, s) == CASE v.dep = None -> TRUE
               [] Expired(v) -> ~ v.strong
               [] OTHER -> v.cond \in s[v.dep]

\* check_all, for each of the names in ns: those that it finds otherwise than they are.
Wanted(bind, s) == bind.enabled /\ Met(bind.value, s)
Turned(b, ns, s) == {n \in ns : b.binds[n].bound /\ ~ (b.binds[n].active <=> Wanted(b.binds[n], s))}
CheckAll(b, ns, s) ==
    LET turned == Turned(b, ns, s)
    IN IF turned = {} THEN b
       ELSE CheckEvent([b EXCEPT
                !.binds = [n \in Names |->
                    IF n \in turned THEN [b.binds[n] EXCEPT !.active = ~ @, !.idx = 0]
                    ELSE b.binds[n]],
                !.set = (@ \ turned) \cup {n \in turned : ~ b.binds[n].active}])

\* The listeners on elements whose states have changed from s to t call check_all; those of
\* an earlier bind of the name were never taken away.
Heard(b, n, s, t) == \E l \in b.binds[n].own \cup b.binds[n].ears :
                         l.dep \notin gone /\ (l.cond \in s[l.dep]) # (l.cond \in t[l.dep])
Listened(b, s, t) == IF s = t THEN b ELSE CheckAll(b, {n \in Names : Heard(b, n, s, t)}, t)

-----------------------------------------------------------------------------
(* bind, rebind, freeze, unfreeze, unbind.                                 *)

Collides(b, n) == \E m \in Names \ {n} : /\ b.binds[m].bound /\ b.binds[m].enabled /\ b.binds[n].enabled
                                         /\ b.binds[m].value.keys = b.binds[n].value.keys
Inactive(b, n) ==
    LET r == b.binds[n]
    IN [b EXCEPT !.binds[n] = [r EXCEPT !.active = FALSE, !.idx = 0,
                                        !.ears = r.ears \cup r.own, !.own = {}],
                 !.set = @ \ {n}]

\* _bind_dcheck: an error, or the listeners and what check_all makes of the bind.
DCheck(b, n, s) ==
    LET v == b.binds[n].value
        off == Inactive(b, n)
        on == IF v.dep = None \/ v.dep \in gone THEN off
              ELSE [off EXCEPT !.binds[n].own = {[dep |-> v.dep, cond |-> v.cond]}]
    IN CASE Collides(b, n) -> [error |-> TRUE, b |-> b]
         [] ~ Collides(b, n) /\ ~ b.binds[n].enabled -> [error |-> FALSE, b |-> CheckEvent(off)]
         [] ~ Collides(b, n) /\ b.binds[n].enabled /\ Expired(v) /\ v.strong
              -> [error |-> TRUE, b |-> off]
         [] OTHER -> [error |-> FALSE, b |-> CheckAll(on, {n}, s)]

BindTo(b, n, v, s) ==
    LET with == [b EXCEPT !.binds[n] = [@ EXCEPT !.bound = TRUE, !.value = v, !.enabled = TRUE,
                                                 !.epoch = b.epochs], !.epochs = @ + 1]
        r == DCheck(with, n, s)
    IN CASE b.binds[n].bound -> b
         [] ~ b.binds[n].bound /\ r.error -> [b EXCEPT !.epochs = @ + 1]
         [] OTHER -> r.b
UnbindFrom(b, n) ==
    IF ~ b.binds[n].bound THEN b
    ELSE CheckEvent([b EXCEPT !.set = @ \ {n}, !.failed = @ \ {n},
             !.binds[n] = [Unbound EXCEPT !.ears = b.binds[n].own \cup b.binds[n].ears]])

InitBinder ==
    LET bound[i \in 0..Len(First)] ==
            IF i = 0 THEN Empty
            ELSE BindTo(bound[i - 1], First[i].name, First[i].value, ui.states)
    IN binder = bound[Len(First)] /\ early = {}
Bind(n, v) == Call /\ binder' = BindTo(binder, n, v, ui.states)
Rebind(n, v) ==
    /\ Call /\ binder.binds[n].bound
    /\ LET new == [Inactive(binder, n) EXCEPT !.binds[n] = [@ EXCEPT !.value = v, !.enabled = TRUE]]
           r == DCheck(new, n, ui.states)
           old == [r.b EXCEPT !.binds[n] = [@ EXCEPT !.value = binder.binds[n].value,
                                                     !.enabled = binder.binds[n].enabled]]
           back == DCheck(old, n, ui.states)
       IN binder' = IF ~ r.error THEN [r.b EXCEPT !.failed = @ \ {n}]
                    ELSE [back.b EXCEPT !.failed = IF back.error THEN @ \cup {n} ELSE @]
Freeze(n) ==
    /\ Call /\ binder.binds[n].bound
    /\ binder' = CheckEvent([binder EXCEPT
                                 !.binds[n] = [@ EXCEPT !.own = {}, !.active = FALSE, !.idx = 0,
                                                        !.enabled = FALSE],
                                 !.set = @ \ {n}, !.failed = @ \ {n}])
UnfreezeOnly(n) == /\ Call /\ binder.binds[n].bound
                   /\ binder' = [binder EXCEPT !.binds[n].enabled = TRUE]
Unfreeze(n) ==
    /\ Call /\ binder.binds[n].bound
    /\ LET r == DCheck([binder EXCEPT !.binds[n].enabled = TRUE], n, ui.states)
       IN binder' = IF r.error THEN [r.b EXCEPT !.failed = @ \cup {n}]
                    ELSE [r.b EXCEPT !.failed = @ \ {n}]
Unbind(n) == Call /\ binder.binds[n].bound /\ binder' = UnbindFrom(binder, n)
=============================================================================
