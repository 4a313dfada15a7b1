--------------------------- MODULE Dependencies ---------------------------
(***************************************************************************)
(* d2::style::Dependency (src/core/tree/d2_theme.hpp, d2_theme.cpp): a     *)
(* value whose changes are handed on to subscribers; and two properties of *)
(* an element that are bound to them (UniversalAccessInterface,            *)
(* d2_styles.hpp), with the handles of both in one buffer of the element.  *)
(*                                                                         *)
(* There are two dependencies, and "b" may be linked to "a": by a pointer, *)
(* or by a function of its value.  Everything runs on the main thread; what*)
(* makes it hard is that a callback may set, subscribe and close while a   *)
(* change is handed on.  The stack holds the changes being handed on.  What*)
(* a program's callback does in its first call is left out, and links are  *)
(* made and taken back, and dependencies destroyed, outside callbacks.     *)
(***************************************************************************)
EXTENDS Integers, Sequences, SequencesExt

CONSTANTS Values,   \* 0 among them, the default
          MaxSubs,  \* bound: subscriptions
          MaxCalls, \* bound: calls by the program, from callbacks too
          MaxDepth  \* bound: changes inside each other

VARIABLES deps,   \* of each dependency: its value and its subscription storage
          subs,   \* the subscriptions, in the order in which they were made
          prop,   \* the properties of an element
          binds,  \* the handles of its bindings: _deps
          stack,
          calls,
          spoiled \* ghost: dependencies and properties that the code may leave with an old value

depVars == <<deps, subs, prop, binds, stack, calls, spoiled>>

Names == {"a", "b"}
Props == {"x", "y"}
Free == 0  \* a slot without a subscription
NewDep == [value |-> 0, link |-> "none", slots |-> <<>>, free |-> <<>>, pendingFree |-> <<>>,
           pendingDestroy |-> <<>>, recursion |-> 0, generation |-> 1, gone |-> FALSE]
InitDeps == /\ deps = [d \in Names |-> NewDep] /\ subs = <<>> /\ stack = <<>> /\ calls = 0
            /\ prop = [p \in Props |-> [value |-> 0, dynamic |-> FALSE, set |-> "plain", plain |-> 0]]
            /\ binds = [of |-> <<>>, broken |-> FALSE] /\ spoiled = {}

\* Everything but the stack and the count, as a record that helpers take and give back.
Now == [deps |-> deps, subs |-> subs, prop |-> prop, binds |-> binds, spoiled |-> spoiled]
Becomes(m) == /\ deps' = m.deps /\ subs' = m.subs /\ prop' = m.prop
              /\ binds' = m.binds /\ spoiled' = m.spoiled

\* _source and _read
Source(m, d) == IF d = "b" /\ m.deps.b.link # "none" THEN "a" ELSE d
Read(m, d) == m.deps[Source(m, d)].value
Slotted(m, s) == LET i == m.subs[s].index
                     slots == m.deps[m.subs[s].dep].slots
                 IN  i \in DOMAIN slots /\ slots[i].sub = s /\ slots[i].generation = m.subs[s].generation

-----------------------------------------------------------------------------
(* Slots                                                                   *)

\* _cleanup_local
RECURSIVE Trimmed(_)
Trimmed(slots) == IF slots # <<>> /\ Last(slots).sub = Free THEN Trimmed(Front(slots)) ELSE slots
Cleanup(m, d) == IF m.deps[d].recursion # 0 THEN m ELSE [m EXCEPT !.deps[d].slots = Trimmed(@)]

\* What _close_slot_local does before it destroys: nothing if the slot has another generation.
Vacate(m, d, i, g) ==
    LET slots == m.deps[d].slots
    IN  IF m.deps[d].gone \/ i \notin DOMAIN slots \/ slots[i].sub = Free \/ slots[i].generation # g
        THEN [m |-> m, sub |-> Free, now |-> FALSE]
        ELSE [m |-> [m EXCEPT !.deps[d].slots[i] = [sub |-> Free, generation |-> m.deps[d].generation],
                              !.deps[d].generation = @ + 1],
              sub |-> slots[i].sub, now |-> m.deps[d].recursion = 0]
Later(m, d, i, s) == [m EXCEPT !.deps[d].pendingDestroy = Append(@, s),
                               !.deps[d].pendingFree = Append(@, i)]
Freed(m, d, i) == Cleanup([m EXCEPT !.deps[d].free = Append(@, i)], d)
Told(m, s) == [m EXCEPT !.subs[s].destroyed = @ + 1]

BoundTo(m, p) == SelectSeq(m.binds.of, LAMBDA s : m.subs[s].kind = p)
Living(m, p) == {s \in DOMAIN m.subs : m.subs[s].kind = p /\ Slotted(m, s)}
\* What the flag of a property stands for: one binding, with its handle, or none at all.
Settled(m, p) == IF m.prop[p].dynamic THEN BoundTo(m, p) # <<>> /\ Living(m, p) = ToSet(BoundTo(m, p))
                 ELSE BoundTo(m, p) = <<>> /\ Living(m, p) = {}
Resettled(m, p) == IF Settled(m, p) THEN [m EXCEPT !.spoiled = @ \ {p}] ELSE m

\* _deregister_dep_bind erases the first bind of the property, which closes its handle.  If
\* that calls back at once, the flag is still set, and the call erases the same bind inside
\* the first erase: another one goes without being closed, or, where there is no other, the
\* size of the buffer becomes -1 (absl::InlinedVector::erase).
Deregister(m, p) ==
    LET n == [m EXCEPT !.prop[p].dynamic = FALSE]
        of == m.binds.of
        s == Head(BoundTo(m, p))
        at == CHOOSE k \in DOMAIN of : of[k] = s
        v == Vacate(n, m.subs[s].dep, m.subs[s].index, m.subs[s].generation)
        once == [v.m EXCEPT !.subs[s].held = FALSE, !.binds.of = RemoveAt(of, at)]
        next == IF at < Len(of) THEN at + 1 ELSE at - 1
        twice == IF next = 0 THEN [once EXCEPT !.binds.broken = TRUE]
                 ELSE [once EXCEPT !.binds.of = SelectSeq(of, LAMBDA t : t \notin {s, of[next]}),
                                   !.subs[of[next]].held = FALSE,
                                   !.spoiled = @ \cup {m.subs[of[next]].kind}]
    IN  CASE BoundTo(m, p) = <<>> \/ m.binds.broken -> n
          [] BoundTo(m, p) # <<>> /\ ~m.binds.broken /\ v.sub = Free -> once
          [] BoundTo(m, p) # <<>> /\ ~m.binds.broken /\ v.sub # Free /\ v.now ->
                 Freed(Told(twice, s), m.subs[s].dep, m.subs[s].index)
          [] OTHER -> Later(once, m.subs[s].dep, m.subs[s].index, s)

\* The handle of a link: there is one at most.
LinkSubs(m) == {s \in DOMAIN m.subs : m.subs[s].kind = "link" /\ m.subs[s].held}
Released(m) == IF LinkSubs(m) = {} THEN m ELSE [m EXCEPT !.subs[CHOOSE s \in LinkSubs(m) : TRUE].held = FALSE]

\* Query::Destroy: _provider_destroyed of a link, the deletion of a callback, and the
\* property's _deregister_dep_bind, which takes back whatever the property is bound to now
\* (ghost: a destroyed subscription of an earlier binding takes back a later one).
Destroy(m, s) ==
    LET n == Told(m, s)
    IN  CASE m.subs[s].kind = "link" ->
               [Released(n) EXCEPT !.deps.b.link = "none", !.deps.b.value = 0, !.spoiled = @ \cup {"b"}]
          [] m.subs[s].kind \in Props /\ m.prop[m.subs[s].kind].dynamic ->
               Deregister([n EXCEPT !.spoiled = @ \cup (IF BoundTo(m, m.subs[s].kind) = <<s>> THEN {}
                                                       ELSE {m.subs[s].kind})], m.subs[s].kind)
          [] OTHER -> n

\* _close_slot_local
CloseSlot(m, d, i, g) ==
    LET v == Vacate(m, d, i, g)
    IN  CASE v.sub = Free -> m
          [] v.sub # Free /\ v.now -> Freed(Destroy(v.m, v.sub), d, i)
          [] OTHER -> Later(v.m, d, i, v.sub)

\* Handle::close
CloseHandle(m, s) == CloseSlot([m EXCEPT !.subs[s].held = FALSE], m.subs[s].dep,
                               m.subs[s].index, m.subs[s].generation)

\* _flush_pending_local, when the last change has been handed on
Flush(m, d) ==
    LET p == m.deps[d]
        destroyed == FoldLeft(Destroy, [m EXCEPT !.deps[d].pendingDestroy = <<>>], p.pendingDestroy)
        freed == SelectSeq(p.pendingFree, LAMBDA i : i \in DOMAIN p.slots /\ p.slots[i].sub = Free)
    IN  IF p.recursion # 0 \/ p.gone THEN m
        ELSE Cleanup([destroyed EXCEPT !.deps[d].pendingFree = <<>>, !.deps[d].free = @ \o freed], d)

\* _insert_slot: a slot that is free, unless a change is being handed on
InsertSlot(m, s, d, kind, v) ==
    LET p == m.deps[d]
        usable == {k \in DOMAIN p.free : p.free[k] \in DOMAIN p.slots /\ p.slots[p.free[k]].sub = Free}
        k == IF usable = {} THEN 0 ELSE CHOOSE x \in usable : \A y \in usable : y <= x
        reuse == p.recursion = 0 /\ k # 0
        i == IF reuse THEN p.free[k] ELSE Len(p.slots) + 1
        slot == [sub |-> s, generation |-> p.generation]
    IN  [m EXCEPT !.deps[d].slots = IF reuse THEN [@ EXCEPT ![i] = slot] ELSE Append(@, slot),
                  !.deps[d].free = IF p.recursion # 0 THEN @ ELSE SubSeq(@, 1, k - 1),
                  !.deps[d].generation = @ + 1,
                  !.subs = Append(@, [dep |-> d, kind |-> kind, index |-> i, generation |-> p.generation,
                                      held |-> TRUE, dead |-> FALSE, destroyed |-> 0, seen |-> v])]

\* _unlink_local
CloseLink(m) == IF LinkSubs(m) = {} THEN m ELSE CloseHandle(m, CHOOSE s \in LinkSubs(m) : TRUE)
Unlink(m) == IF m.deps.b.link = "none" THEN m
             ELSE [CloseLink(m) EXCEPT !.deps.b.link = "none", !.deps.b.value = 0]

-----------------------------------------------------------------------------
(* Handing a change on: _apply_local                                       *)

\* The value is a reference to that of the source, or what the function of a link made of it
\* at the beginning.
Change(m, d) == [dep |-> d, next |-> 1, end |-> Len(m.deps[d].slots), source |-> Source(m, d),
                 copy |-> d = "b" /\ m.deps.b.link = "function", value |-> Read(m, d),
                 calling |-> FALSE, links |-> FALSE]
Current(m, f) == IF f.copy THEN f.value ELSE m.deps[f.source].value
Push(m, d) == Becomes([m EXCEPT !.deps[d].recursion = @ + 1]) /\ stack' = Append(stack, Change(m, d))

Top == Last(stack)
Advance(f) == [stack EXCEPT ![Len(stack)] = f]
Over(f) == f.next > f.end \/ f.next > Len(deps[f.dep].slots)
Onward == [Top EXCEPT !.next = @ + 1, !.calling = FALSE]

Skip == /\ stack # <<>> /\ ~Top.calling /\ ~Over(Top)
        /\ deps[Top.dep].slots[Top.next].sub = Free
        /\ stack' = Advance(Onward) /\ UNCHANGED <<deps, subs, prop, binds, calls, spoiled>>

Invoke ==
    /\ stack # <<>> /\ ~Top.calling /\ ~Over(Top)
    /\ LET slot == deps[Top.dep].slots[Top.next]
           s == slot.sub
           v == Current(Now, Top)
           handed == [Now EXCEPT !.subs[s].seen = v]
       IN  /\ s # Free
           /\ CASE subs[s].kind = "call" /\ subs[s].dead ->
                     /\ Becomes(CloseSlot(Now, Top.dep, Top.next, slot.generation))
                     /\ stack' = Advance(Onward)
                [] subs[s].kind = "call" /\ ~subs[s].dead ->
                     Becomes(handed) /\ stack' = Advance([Top EXCEPT !.calling = TRUE])
                [] subs[s].kind \in Props ->
                     Becomes([handed EXCEPT !.prop[subs[s].kind].value = v]) /\ stack' = Advance(Onward)
                [] subs[s].kind = "link" ->
                     /\ Becomes([handed EXCEPT !.deps.b.recursion = @ + 1])
                     /\ stack' = Append(Advance(Onward), Change(Now, "b"))
           /\ calls' = calls
Return == /\ stack # <<>> /\ Top.calling
          /\ stack' = Advance(Onward) /\ UNCHANGED <<deps, subs, prop, binds, calls, spoiled>>
\* InvokeGuard's destructor.  Where the first call of a new link ends, the link gets its
\* slot, and the handle of a link that was left behind is closed.
Left(m, d) == Flush([m EXCEPT !.deps[d].recursion = @ - 1], d)
Linked(m) == LET n == InsertSlot(m, Len(m.subs) + 1, "a", "link", m.deps.a.value)
             IN  IF LinkSubs(m) = {} THEN n
                 ELSE [CloseHandle(n, CHOOSE s \in LinkSubs(m) : TRUE) EXCEPT !.subs[Len(n.subs)].held = TRUE]
Leave == /\ stack # <<>> /\ ~Top.calling /\ Over(Top)
         /\ Becomes(IF Top.links THEN Linked(Left(Left(Now, "b"), "a")) ELSE Left(Now, Top.dep))
         /\ stack' = Front(stack) /\ calls' = calls

-----------------------------------------------------------------------------
(* Calls by the program, between changes or from a callback                *)

Call == calls < MaxCalls /\ calls' = calls + 1 /\ (stack # <<>> => Top.calling)
Outside == Call /\ stack = <<>>
Stays == stack' = stack
Running(d) == \E k \in DOMAIN stack : stack[k].dep = d

\* set.  Ghost: a change of b that is being handed on goes on with what it began with, the
\* value of a function, or of the dependency b no longer points to; a new link misses what
\* is set before it has its slot; and a link that is closed while a hands on is destroyed
\* later, and takes the new value with it.
Set(d, v) ==
    /\ Call /\ ~deps[d].gone /\ Len(stack) < MaxDepth
    /\ LET n == IF d = "b" THEN Unlink(Now) ELSE Now
           stale == \E k \in DOMAIN stack : stack[k].copy \/ stack[k].links \/ (d = "b" /\ stack[k].dep = "b" /\ stack[k].source = "a")
           fresh == IF stack = <<>> THEN n.spoiled \ {d} ELSE n.spoiled
       IN  Push([n EXCEPT !.deps[d].value = v, !.spoiled = fresh \cup (IF stale THEN {"b"} ELSE {})], d)

RoomForSub == Len(subs) < MaxSubs
Subscribe(d) == /\ Call /\ RoomForSub /\ ~deps[d].gone /\ Stays
                /\ Becomes(InsertSlot(Now, Len(subs) + 1, d, "call", Read(Now, d)))
Close(s) == Call /\ subs[s].kind = "call" /\ subs[s].held /\ Becomes(CloseHandle(Now, s)) /\ Stays
\* The object a callback is for goes away; the handle stays.
Die(s) == /\ Call /\ subs[s].kind = "call" /\ ~subs[s].dead
          /\ Becomes([Now EXCEPT !.subs[s].dead = TRUE]) /\ Stays

\* _int_set with a dependency.  Ghost: whoever is bound twice, or was and kept the other
\* subscription, has the value of the one that changed last.
Bind(p, d) ==
    /\ Call /\ RoomForSub /\ ~deps[d].gone /\ Stays
    /\ ~binds.broken
    /\ LET s == Len(subs) + 1
           m == [InsertSlot(Now, s, d, p, Read(Now, d)) EXCEPT
                    !.prop[p] = [value |-> Read(Now, d), dynamic |-> TRUE, set |-> d, plain |-> @.plain],
                    !.binds.of = Append(@, s), !.spoiled = @ \cup {p}]
       IN  Becomes(IF BoundTo(m, p) = <<s>> THEN Resettled(m, p) ELSE m)

\* A mutant: the property stays bound.
SetPlainBound(p, v) == /\ Call /\ Stays
                       /\ Becomes([Now EXCEPT !.prop[p].value = v, !.prop[p].set = "plain",
                                              !.prop[p].plain = v])

\* _int_set with a value
SetPlain(p, v) ==
    /\ Call /\ Stays /\ (prop[p].dynamic => ~binds.broken)
    /\ LET m == IF prop[p].dynamic THEN Deregister(Now, p) ELSE Now
       IN  Becomes(Resettled([m EXCEPT !.prop[p].value = v, !.prop[p].set = "plain",
                                       !.prop[p].plain = v], p))

\* apply_set takes the flag away, and leaves the subscription and its handle.
ApplySet(p, v) ==
    /\ Call /\ Stays
    /\ LET m == [Now EXCEPT !.prop[p] = [value |-> v, dynamic |-> FALSE, set |-> "plain", plain |-> v]]
       IN  Becomes(IF Settled(m, p) THEN m ELSE [m EXCEPT !.spoiled = @ \cup {p}])

\* link, unlink and the destructor
Link(kind) ==
    /\ Outside /\ RoomForSub /\ ~deps.a.gone /\ ~deps.b.gone
    /\ LET m == [Unlink(Now) EXCEPT !.deps.b.link = kind, !.deps.a.recursion = @ + 1,
                                    !.deps.b.recursion = @ + 1, !.spoiled = @ \ {"b"}]
       IN  Becomes(m) /\ stack' = <<[Change(m, "b") EXCEPT !.links = TRUE]>>
UnlinkCall == Outside /\ deps.b.link # "none" /\ ~deps.b.gone /\ Becomes(Unlink(Now)) /\ Stays
DestroyDep(d) ==
    /\ Outside /\ ~deps[d].gone /\ Stays
    /\ LET m == IF d = "b" THEN Unlink(Now) ELSE Now
           living == SelectSeq([i \in DOMAIN m.deps[d].slots |-> m.deps[d].slots[i].sub], LAMBDA s : s # Free)
           bare == [m EXCEPT !.deps[d] = [NewDep EXCEPT !.gone = TRUE]]
           none == FoldLeft(Destroy, bare, living)
       IN  Becomes(IF d = "b" THEN CloseLink(none) ELSE none)

DepStep ==
    \/ Skip \/ Invoke \/ Return \/ Leave
    \/ \E d \in Names : Subscribe(d) \/ DestroyDep(d) \/ \E v \in Values : Set(d, v)
    \/ \E s \in DOMAIN subs : Close(s) \/ Die(s)
    \/ \E p \in Props : \/ \E d \in Names : Bind(p, d)
                        \/ \E v \in Values : SetPlain(p, v) \/ ApplySet(p, v)
    \/ \E kind \in {"pointer", "function"} : Link(kind)
    \/ UnlinkCall
DepSpec == InitDeps /\ [][DepStep]_depVars
-----------------------------------------------------------------------------
\* A callback is destroyed once at most, when its subscription ends, and with nothing being
\* handed on it has been destroyed if it ended: deleted neither twice nor never.
DestroyedOnce ==
    \A s \in DOMAIN subs :
        /\ subs[s].destroyed \in {0, 1}
        /\ Slotted(Now, s) => subs[s].destroyed = 0
        /\ stack = <<>> /\ ~Slotted(Now, s) => subs[s].destroyed = 1

\* With nothing being handed on, every subscriber has seen the value that is there, unless
\* a nested set, or the end of a link, left it behind (see Set).
SubscribersCurrent ==
    stack = <<>> => \A s \in DOMAIN subs :
        Slotted(Now, s) /\ ~subs[s].dead
            => subs[s].dep \in spoiled \/ subs[s].seen = Read(Now, subs[s].dep)

\* A subscription that was not closed goes on: no other handle ends it.
StaysSubscribed ==
    \A s \in DOMAIN subs : subs[s].kind = "call" /\ subs[s].held /\ ~subs[s].dead /\ ~deps[subs[s].dep].gone
                            => Slotted(Now, s)

\* A property follows the dependency it was bound to last, or keeps its plain value.  Left
\* out is one whose subscription is there without a flag or without a handle: after
\* apply_set, when it was bound a second time, when the plain value of another property took
\* its handle along, or when the end of an earlier binding took the new one back.
Follows == stack = <<>> => \A p \in Props \ spoiled :
    CASE prop[p].set = "plain" -> prop[p].value = prop[p].plain
      [] prop[p].set # "plain" /\ ~deps[prop[p].set].gone /\ prop[p].set \notin spoiled ->
             prop[p].value = Read(Now, prop[p].set)
      [] OTHER -> TRUE
\* The flag of a property tells whether it depends on a dependency; with the same exceptions.
Depends(p) == Living(Now, p) # {}
FlagTells == stack = <<>> => \A p \in Props \ spoiled : prop[p].dynamic <=> Depends(p)
=============================================================================
