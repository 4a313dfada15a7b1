--------------------------- MODULE SignalRegistry ---------------------------
(***************************************************************************)
(* The signals that a d2::Signals knows by name: who connects and          *)
(* disconnects them, which listeners are added to which of them, and with  *)
(* which arguments they are called (src/core/io/d2_signal_handler.hpp).    *)
(* How one signal delivers is module Signals.                              *)
(***************************************************************************)
EXTENDS Naturals, FiniteSets

CONSTANTS Specifiers,     \* of signals, for the events of one enum
          Events,         \* values of the enum
          Dispatches,     \* specifiers of events
          Signatures,     \* lists of types of arguments
          Owners,         \* variables of type Signal
          Listeners,      \* variables of type Handle
          Threads,        \* that listen and trigger
          MaxStorages, MaxStates, MaxCalls   \* bounds

CONSTANT Registry  \* the manifest SignalRegistry<enum> names: [exact, default]

Unset == "none"  \* no object, no specifier, no case

\* A manifest's `exact' cases are events with a signature, its `default' is a signature or
\* Unset.  A signal is connected with the manifest of the registry: nothing checks it.
VARIABLES alive,     \* the Signals object
          sigs,      \* _sigs: the storage of each name, 0 if there is none
          verify,    \* the manifest of each storage
          owners,    \* what each Signal holds: its name and its storage
          states,    \* HandleStates: in which storage, for what, with which arguments
          handles,   \* the state each Handle points at, 0 if none
          released,  \* states whose Handle let go of them
          doing,     \* the call of each thread that has found its storage
          heard,     \* arguments of listeners, with those they were called with
          direct,    \* names disconnected behind their owner's back
          made,      \* storages so far
          calls      \* calls so far
registryVars == <<alive, sigs, verify, owners, states, handles, released, doing, heard, direct,
                  made, calls>>

\* SpecifierKey: equal if they have the same type and equal values, wherever the value is
\* stored; the empty key is equal to itself only.
SpecifierKeys(values) == values \cup {Unset}
Keys == SpecifierKeys(Specifiers)  \* and so is a SignalKey

\* A signature is the list of the arguments' types, as references.
Calls == [kind : {"listen", "signal"}, event : Events, dispatch : SpecifierKeys(Dispatches),
          sig : Signatures]
Nothing == [name |-> Unset, storage |-> 0]
Idle == [storage |-> 0]

\* FindCase: the signature of an event, from its own case or from the default one.
Case(m, ev) == IF ev \in DOMAIN m.exact THEN m.exact[ev] ELSE m.default
\* A mutant: an event with a case of its own may also have the default's arguments.
VerifyLoosely(m, ev, sig) == sig \in {Case(m, ev), m.default}
\* SignalManifest::verify
Verify(m, ev, sig) == sig = Case(m, ev)

InitRegistry ==
    /\ alive = TRUE
    /\ sigs = [n \in Keys |-> 0]
    /\ verify = [s \in 1..MaxStorages |-> Registry]
    /\ owners = [o \in Owners |-> Nothing]
    /\ states = {} /\ released = {} /\ heard = {} /\ direct = {}
    /\ handles = [h \in Listeners |-> 0]
    /\ doing = [t \in Threads |-> Idle]
    /\ made = 0 /\ calls = 0

Call == alive /\ calls < MaxCalls /\ calls' = calls + 1
-----------------------------------------------------------------------------
(* Owners.                                                                 *)

\* The names once `held', what a Signal holds, is disconnected.  Of a name that is not there
\* any more _sig_deregister throws; then disconnect() leaves the Signal as it is, and from the
\* destructor and the move assignment, which may not throw, the program ends.
Dropped(names, held) ==
    IF held = Nothing THEN names ELSE [names EXCEPT ![held.name] = 0]
Droppable(names, held) == held = Nothing \/ names[held.name] # 0

\* connect, with _sig_register.  The Signal that it returns is moved into o, which then
\* disconnects what it had.
Connect(o, n, m) ==
    /\ Call /\ made < MaxStorages
    /\ sigs[n] = 0
    /\ made' = made + 1
    /\ verify' = [verify EXCEPT ![made + 1] = m]
    /\ Droppable([sigs EXCEPT ![n] = made + 1], owners[o])
    /\ sigs' = Dropped([sigs EXCEPT ![n] = made + 1], owners[o])
    /\ owners' = [owners EXCEPT ![o] = [name |-> n, storage |-> made + 1]]
    /\ UNCHANGED <<alive, states, handles, released, doing, heard, direct>>

\* Signal::disconnect and the destructor
DisconnectOwner(o) ==
    /\ Call
    /\ owners[o] # Nothing /\ Droppable(sigs, owners[o])
    /\ sigs' = Dropped(sigs, owners[o])
    /\ owners' = [owners EXCEPT ![o] = Nothing]
    /\ UNCHANGED <<alive, verify, states, handles, released, doing, heard, direct, made>>

\* A mutant: the Signal moved from still has its storage.
MoveOwnerCopying(o, p) ==
    /\ Call /\ o # p /\ owners[p] # Nothing /\ Droppable(sigs, owners[o])
    /\ sigs' = Dropped(sigs, owners[o])
    /\ owners' = [owners EXCEPT ![o] = owners[p]]
    /\ UNCHANGED <<alive, verify, states, handles, released, doing, heard, direct, made>>
\* Signal's move assignment
MoveOwner(o, p) ==
    /\ Call /\ o # p /\ owners[p] # Nothing /\ Droppable(sigs, owners[o])
    /\ sigs' = Dropped(sigs, owners[o])
    /\ owners' = [owners EXCEPT ![o] = owners[p], ![p] = Nothing]
    /\ UNCHANGED <<alive, verify, states, handles, released, doing, heard, direct, made>>

\* disconnect<Manifest>, by name
DisconnectName(n) ==
    /\ Call
    /\ sigs[n] # 0
    /\ sigs' = [sigs EXCEPT ![n] = 0]
    /\ direct' = direct \cup {n}
    /\ UNCHANGED <<alive, verify, owners, states, handles, released, doing, heard, made>>

\* The Signals object goes: owners find their _state expired and do nothing.
Destroy == /\ alive /\ alive' = FALSE
           /\ UNCHANGED <<sigs, verify, owners, states, handles, released, doing, heard, direct,
                          made, calls>>

-----------------------------------------------------------------------------
(* Listening and triggering, in two steps: a storage is found under the    *)
(* lock of the map, and used after it.                                     *)

Find(t, n, call) ==
    /\ Call
    /\ doing[t] = Idle
    /\ sigs[n] # 0
    /\ doing' = [doing EXCEPT ![t] = [storage |-> sigs[n], call |-> call]]
    /\ UNCHANGED <<alive, sigs, verify, owners, states, handles, released, heard, direct, made>>

\* With the event as a template argument the arguments are compared with the registry's
\* manifest when the program is compiled.
Satisfied(call) == call.sig = Case(Registry, call.event) /\ call.sig # Unset
ListenStatic(t, n, call) == call.kind = "listen" /\ Satisfied(call) /\ Find(t, n, call)
SignalStatic(t, n, call) == call.kind = "signal" /\ Satisfied(call) /\ Find(t, n, call)

\* With the event as an argument they are compared with the manifest of the signal, now.
Accepted(n, call) == sigs[n] # 0 /\ Verify(verify[sigs[n]], call.event, call.sig)
ListenRuntime(t, n, call) == call.kind = "listen" /\ Accepted(n, call) /\ Find(t, n, call)
SignalRuntime(t, n, call) == call.kind = "signal" /\ Accepted(n, call) /\ Find(t, n, call)

Done(t) == doing' = [doing EXCEPT ![t] = Idle]
Closed(id) == {[s EXCEPT !.active = s.active /\ s.id # id] : s \in states}

\* The end of _sig_listen: the state goes into the list of its event and specifier.  The
\* Handle returned is moved into h, which closes the one it had.
ListenHere(t, h) ==
    LET d == doing[t] IN
    /\ d # Idle /\ d.call.kind = "listen"
    /\ Cardinality(states) < MaxStates
    /\ LET id == Cardinality(states) + 1
       IN  /\ states' = Closed(handles[h])
                 \cup {[id |-> id, storage |-> d.storage, event |-> d.call.event,
                        dispatch |-> d.call.dispatch, sig |-> d.call.sig, active |-> TRUE]}
           /\ handles' = [handles EXCEPT ![h] = id]
    /\ Done(t)
    /\ UNCHANGED <<alive, sigs, verify, owners, released, heard, direct, made, calls>>

\* SignalInstance::apply hands the arguments of the trigger on as those of the callback,
\* whatever their types are.
Deliver(t) ==
    LET d == doing[t]
        Hears(s) == /\ s.active /\ s.storage = d.storage /\ s.event = d.call.event
                    /\ s.dispatch \in {Unset, d.call.dispatch}
    IN  /\ d # Idle /\ d.call.kind = "signal"
        /\ heard' = heard \cup {<<s.sig, d.call.sig>> : s \in {x \in states : Hears(x)}}
        /\ Done(t)
        /\ UNCHANGED <<alive, sigs, verify, owners, states, handles, released, direct, made, calls>>

\* Handle::close and the destructor
CloseHandle(h) ==
    /\ handles[h] # 0
    /\ states' = Closed(handles[h])
    /\ handles' = [handles EXCEPT ![h] = 0]
    /\ UNCHANGED <<alive, sigs, verify, owners, released, doing, heard, direct, made, calls>>
\* Handle::release
ReleaseHandle(h) ==
    /\ handles[h] # 0
    /\ released' = released \cup {handles[h]}
    /\ handles' = [handles EXCEPT ![h] = 0]
    /\ UNCHANGED <<alive, sigs, verify, owners, states, doing, heard, direct, made, calls>>
\* Handle's move assignment
MoveHandle(h, g) ==
    /\ h # g /\ handles[g] # 0
    /\ states' = Closed(handles[h])
    /\ handles' = [handles EXCEPT ![h] = handles[g], ![g] = 0]
    /\ UNCHANGED <<alive, sigs, verify, owners, released, doing, heard, direct, made, calls>>

RegistryStep ==
    \/ \E o \in Owners : \/ \E n \in Keys : Connect(o, n, Registry)
                         \/ DisconnectOwner(o)
                         \/ \E p \in Owners : MoveOwner(o, p)
    \/ Destroy
    \/ \E n \in Keys : DisconnectName(n)
    \/ \E t \in Threads : \/ \E n \in Keys, c \in Calls :
                               \/ ListenStatic(t, n, c) \/ SignalStatic(t, n, c)
                               \/ ListenRuntime(t, n, c) \/ SignalRuntime(t, n, c)
                          \/ \E h \in Listeners : ListenHere(t, h)
                          \/ Deliver(t)
    \/ \E h \in Listeners : \/ CloseHandle(h) \/ ReleaseHandle(h)
                            \/ \E g \in Listeners : MoveHandle(h, g)
RegistrySpec == InitRegistry /\ [][RegistryStep]_registryVars
-----------------------------------------------------------------------------
\* A callback is called with arguments of the types it was written for, though the call
\* itself casts them (d2_signal_handler.hpp SignalInstance::apply): what listeners and triggers
\* were each compared with agrees.
ArgumentsMatch == \A pair \in heard : pair[1] = pair[2]

\* What a Signal holds is what is registered under its name, so that it disconnects its own
\* signal and not another's, and its destructor never throws; unless a name was disconnected
\* behind its owner's back.
OwnersRegistered ==
    alive => \A o \in Owners : owners[o] # Nothing /\ owners[o].name \notin direct
                               => sigs[owners[o].name] = owners[o].storage

\* A callback that may be called can be closed by exactly one Handle, or was released.
HandlesOwn ==
    /\ \A s \in states : s.active => s.id \in released \/ \E h \in Listeners : handles[h] = s.id
    /\ \A h, g \in Listeners : handles[h] = handles[g] /\ handles[h] # 0 => h = g
=============================================================================
