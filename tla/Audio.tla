-------------------------------- MODULE Audio --------------------------------
(***************************************************************************)
(* PipewireSystemAudio (src/os/audio/pipewire/d2_pipewire_audio.cpp) with  *)
(* the pipelines of SystemAudio (src/core/mods/d2_audio.cpp).  Everything  *)
(* runs on the thread of pipewire's loop: its own events, the callback     *)
(* that wants samples, and the calls of other threads, which are queued    *)
(* for it.                                                                 *)
(***************************************************************************)
EXTENDS Integers, Sequences, FiniteSets, SequencesExt

CONSTANTS Nodes,       \* of pipewire's graph
          DeviceOf,    \* the direction of each
          NameOf,      \* and its name
          FilterNames, Totals,  \* of filters, and lengths of what is transmitted
          Room,        \* what fits into a buffer of the output
          Backlog,     \* bound: calls that wait in the loop
          MaxEvents, MaxCalls   \* bounds: events of the graph, and calls

Devices == {"Input", "Output"}
Names == {NameOf[n] : n \in Nodes}

VARIABLES list,      \* _inputs and _outputs
          memory,    \* their vectors: the capacity, and how often they moved
          nodes,     \* _nodes: where the entry of each node is
          active,    \* _active_input and _active_output
          default,   \* _default_input_id and _default_output_id
          status,    \* DeviceData::status
          float32,   \* whether the output's format is Float32; "no" before it was opened
          pipeline,  \* DeviceData::filter
          voices,    \* _voices
          invoked,   \* calls queued in the loop
          midway,    \* the device a reactivate tells Deactivate of, or "none"
          told,      \* the last of Activate and Deactivate that listeners got
          said,      \* the device that the last DefaultChange named
          slot,      \* whether there is a slot for what the module signals
          over,      \* whether an exception has left the loop's thread
          happened, called   \* events and calls so far
deviceVars == <<list, memory, nodes, active, default, said>>
streamVars == <<status, float32, midway, told, slot, over>>
soundVars == <<pipeline, voices>>
audioVars == <<deviceVars, streamVars, soundVars, invoked, happened, called>>

\* A DeviceName*: a place in a vector, as long as the vector has not moved.
Null == [at |-> 0, move |-> 0]
Pointer(d, i) == [at |-> i, move |-> memory[d].moves]

\* _load_impl.  The signal that it connects is of the type Event; the module triggers Device, and
\* for that there is a slot only if the program has connected one with the module's specifier.
InitAudio ==
    /\ list = [d \in Devices |-> <<>>] /\ memory = [d \in Devices |-> [size |-> 0, moves |-> 0]]
    /\ nodes = [n \in Nodes |-> Null] /\ active = [d \in Devices |-> Null]
    /\ default = [d \in Devices |-> "none"] /\ said = default
    /\ status = [d \in Devices |-> "Closed"] /\ float32 = "no"
    /\ pipeline = [d \in Devices |-> <<>>] /\ voices = <<>> /\ invoked = <<>>
    /\ midway = "none" /\ told = [d \in Devices |-> "Deactivate"]
    /\ slot \in BOOLEAN /\ over = FALSE /\ happened = 0 /\ called = 0

Happens == ~over /\ happened < MaxEvents /\ happened' = happened + 1 /\ called' = called
Called == ~over /\ called < MaxCalls /\ called' = called + 1 /\ happened' = happened

\* What a pointer reads: behind the end or in freed memory it may be anything.
Read(d, p, l) == IF p.move = memory[d].moves /\ p.at <= Len(l) THEN {l[p.at]}
                 ELSE Names \cup {"junk"}
Position(l, name) == SelectInSeq(l, LAMBDA x : x = name)  \* _find_device

\* _trigger_device_event: without a slot it throws.  Nobody catches that on the loop's thread.
Signalled == over' = ~slot
Tell(d, event) == Signalled /\ told' = IF slot THEN [told EXCEPT ![d] = event] ELSE told
Say(d, name) == Signalled /\ said' = IF slot THEN [said EXCEPT ![d] = name] ELSE said

-----------------------------------------------------------------------------
(* Events of the graph.                                                    *)

\* _event_global_impl of a node, with _add_device; the vector grows as libstdc++'s does.
Appear(n) ==
    LET d == DeviceOf[n]
        i == Position(list[d], NameOf[n])
        full == Len(list[d]) = memory[d].size
        moves == memory[d].moves + IF full THEN 1 ELSE 0
    IN  /\ Happens /\ midway = "none"
        /\ nodes[n] = Null
        /\ IF i > 0
           THEN nodes' = [nodes EXCEPT ![n] = Pointer(d, i)] /\ UNCHANGED <<list, memory>>
           ELSE /\ list' = [list EXCEPT ![d] = Append(@, NameOf[n])]
                /\ memory' = [memory EXCEPT
                      ![d] = [size |-> IF full THEN (IF @.size = 0 THEN 1 ELSE 2 * @.size) ELSE @.size,
                              moves |-> moves]]
                /\ nodes' = [nodes EXCEPT ![n] = [at |-> Len(list[d]) + 1, move |-> moves]]
        /\ IF default[d] = NameOf[n] THEN Say(d, NameOf[n]) ELSE Signalled /\ UNCHANGED said
        /\ UNCHANGED <<active, default, status, float32, midway, told, slot, soundVars, invoked>>

\* _event_global_remove_impl, with _remove_device.  The pointers of later nodes, and of the
\* active device, stay where they are.
Vanish(n) ==
    LET d == DeviceOf[n]
    IN  /\ Happens /\ midway = "none"
        /\ nodes[n] # Null
        /\ nodes' = [nodes EXCEPT ![n] = Null]
        /\ \E name \in Read(d, nodes[n], list[d]) :
              LET i == Position(list[d], name)
              IN  list' = IF i = 0 THEN list ELSE [list EXCEPT ![d] = RemoveAt(@, i)]
        /\ Signalled
        /\ UNCHANGED <<memory, active, default, said, status, float32, midway, told, slot,
                       soundVars, invoked>>

\* _event_metadata_impl
Default(d, name) ==
    /\ Happens /\ midway = "none"
    /\ default' = [default EXCEPT ![d] = name]
    /\ IF Position(list[d], name) > 0 THEN Say(d, name) ELSE UNCHANGED <<said, over>>
    /\ UNCHANGED <<list, memory, nodes, active, status, float32, midway, told, slot, soundVars,
                   invoked>>

-----------------------------------------------------------------------------
(* Calls, on the loop's thread.                                            *)

\* _start_stream: a stream that is open is replaced.  The output's has a format.
Format(d, f) == float32' = IF d = "Output" THEN f ELSE float32
Start(d, f) == status' = [status EXCEPT ![d] = "Opened"] /\ Format(d, f)
\* _stop_stream
Stop(d) == status' = [status EXCEPT ![d] = "Closed"]

\* activate: a device that is active already, or is not there, is left alone.
Activate(d, name, f) ==
    LET i == Position(list[d], name)
    IN  \/ /\ i = 0 \/ (active[d] # Null /\ name \in Read(d, active[d], list[d]))
           /\ UNCHANGED <<active, status, float32, told, over>>
        \/ /\ i > 0 /\ (active[d] = Null \/ Read(d, active[d], list[d]) # {name})
           /\ active' = [active EXCEPT ![d] = Pointer(d, i)]
           /\ Start(d, f)
           /\ Tell(d, "Activate")

Deactivate(d) ==
    IF active[d] = Null THEN UNCHANGED <<active, status, told, over>>
    ELSE /\ active' = [active EXCEPT ![d] = Null]
         /\ Stop(d)
         /\ Tell(d, "Deactivate")

\* reactivate, until listeners have been told that the device is stopped: they may call.
\* A mutant: they are told only that the device is active again.
ReactivateQuietly(d) ==
    IF active[d] = Null THEN UNCHANGED <<status, told, over, midway>>
    ELSE /\ Stop(d)
         /\ midway' = d
         /\ UNCHANGED <<told, over>>
Reactivate(d) ==
    IF active[d] = Null THEN UNCHANGED <<status, told, over, midway>>
    ELSE /\ Stop(d)
         /\ Tell(d, "Deactivate")
         /\ midway' = d
\* And its end, if the device is still there.  (When a listener has deactivated it, the
\* pointer that is followed is null: the program ends.)
Resume(f) ==
    LET d == midway
    IN  /\ ~over /\ midway # "none" /\ active[d] # Null
        /\ midway' = "none"
        /\ \E name \in Read(d, active[d], list[d]) :
              LET i == Position(list[d], name)
              IN  IF i = 0 THEN UNCHANGED <<active, status, float32, told, over>>
                  ELSE /\ active' = [active EXCEPT ![d] = Pointer(d, i)]
                       /\ Start(d, f)
                       /\ Tell(d, "Activate")
        /\ UNCHANGED <<list, memory, nodes, default, said, slot, soundVars, invoked, happened, called>>

\* A listener calls while a reactivate is midway: on this thread the call is made at once.
React(d, name, f) ==
    /\ midway = d /\ Called
    /\ \/ Activate(d, name, f)
       \/ Deactivate(d) /\ UNCHANGED float32
    /\ UNCHANGED <<list, memory, nodes, default, said, midway, slot, soundVars, invoked>>

-----------------------------------------------------------------------------
(* Pipelines.  A filter with a name can be found; one that is `once'       *)
(* returns false.                                                          *)

\* _run_filter: a filter that returns false is taken out, and the next is called.  (What it does
\* to the Stream's _stop is lost: it gets a copy.)
Run(pipe) ==
    SelectSeq(pipe, LAMBDA f : ~f.once)

Named(pipe, name) == SelectInSeq(pipe, LAMBDA f : f.name = name)
\* _filter_push behind a name, or at the end; _filter_override, _filter_remove
PushAfter(pipe, after, f) ==
    LET i == Named(pipe, after) IN IF i = 0 THEN Append(pipe, f) ELSE InsertAt(pipe, i + 1, f)
Override(pipe, name, once) ==
    LET i == Named(pipe, name) IN IF i = 0 THEN pipe ELSE [pipe EXCEPT ![i].once = once]
TakeOut(pipe, name) == LET i == Named(pipe, name) IN IF i = 0 THEN pipe ELSE RemoveAt(pipe, i)

-----------------------------------------------------------------------------
(* Voices.                                                                 *)

\* _push_stream.  Samples are filtered now; before the output was ever opened their number,
\* in its rate, is 0.
PushSamples(n) ==
    /\ voices' = Append(voices, [samples |-> TRUE, total |-> IF float32 = "no" THEN 0 ELSE n,
                                 played |-> 0])
    /\ pipeline' = [pipeline EXCEPT !["Output"] = Run(@)]
PushTime(n) == /\ voices' = Append(voices, [samples |-> FALSE, total |-> n, played |-> 0])
               /\ UNCHANGED pipeline

\* _process_callback_output for one voice: the next part of it.  Its progress is a quotient of
\* floats, so that a part may begin one sample early.  A voice of length 0 has a progress that is
\* no number, and stays.
Played(v, early) ==
    LET from == v.played - IF early /\ v.played > 0 THEN 1 ELSE 0
    IN  [v EXCEPT !.played = from + (IF v.total - from < Room THEN v.total - from ELSE Room)]
Ended(v) == v.total > 0 /\ v.played >= v.total

\* A mutant: the last part of a voice is never reached.
OutputStalling(early) ==
    /\ ~over /\ status["Output"] = "Opened" /\ float32 = "yes" /\ voices # <<>>
    /\ voices' = [i \in DOMAIN voices |-> IF Ended(Played(voices[i], early)) THEN voices[i]
                                           ELSE Played(voices[i], early)]
    /\ UNCHANGED <<deviceVars, streamVars, pipeline, invoked, happened, called>>
Output(early) ==
    LET filtered == SelectSeq(voices, LAMBDA v : ~v.samples) # <<>>
    IN  /\ ~over /\ status["Output"] = "Opened" /\ float32 = "yes" /\ voices # <<>>
        /\ voices' = SelectSeq([i \in DOMAIN voices |-> Played(voices[i], early)],
                               LAMBDA v : ~Ended(v))
        /\ pipeline' = IF filtered THEN [pipeline EXCEPT !["Output"] = Run(@)] ELSE pipeline
        /\ UNCHANGED <<deviceVars, streamVars, invoked, happened, called>>

\* _process_callback_input, while somebody records
Input ==
    /\ ~over /\ status["Input"] = "Opened" /\ pipeline["Input"] # <<>>
    /\ pipeline' = [pipeline EXCEPT !["Input"] = Run(@)]
    /\ UNCHANGED <<deviceVars, streamVars, voices, invoked, happened, called>>

-----------------------------------------------------------------------------
(* Calls of other threads: _run_this_async queues them.                    *)

Calls == [op : {"activate"}, d : Devices, name : Names, f : {"yes", "other"}]
         \cup [op : {"deactivate", "reactivate", "clear"}, d : Devices]
         \cup [op : {"push", "override"}, d : Devices, filter : FilterNames, once : BOOLEAN]
         \cup [op : {"remove"}, d : Devices, filter : FilterNames]
         \cup [op : {"samples", "time"}, n : Totals] \cup [op : {"flush"}]
Invoke(c) ==
    /\ Called /\ Len(invoked) < Backlog
    \* transmit(time) looks whether there is an output
    /\ c.op = "time" => status["Output"] = "Opened"
    /\ invoked' = Append(invoked, c)
    /\ UNCHANGED <<deviceVars, streamVars, soundVars>>

OnStream(c) ==
    /\ \/ /\ c.op = "activate"
          /\ Activate(c.d, c.name, c.f)
          /\ UNCHANGED midway
       \/ c.op = "deactivate" /\ Deactivate(c.d) /\ UNCHANGED <<float32, midway>>
       \/ c.op = "reactivate" /\ Reactivate(c.d) /\ UNCHANGED <<active, float32>>
    /\ UNCHANGED <<slot, soundVars>>
OnPipeline(c) ==
    /\ \/ c.op = "push" /\ pipeline' = [pipeline EXCEPT ![c.d] =
                                          PushAfter(@, c.filter, [name |-> c.filter, once |-> c.once])]
       \/ c.op = "override" /\ pipeline' = [pipeline EXCEPT ![c.d] = Override(@, c.filter, c.once)]
       \/ c.op = "remove" /\ pipeline' = [pipeline EXCEPT ![c.d] = TakeOut(@, c.filter)]
       \/ c.op = "clear" /\ pipeline' = [pipeline EXCEPT ![c.d] = <<>>]
    /\ UNCHANGED <<active, streamVars, voices>>
OnVoices(c) ==
    /\ \/ c.op = "samples" /\ PushSamples(c.n)
       \/ c.op = "time" /\ PushTime(c.n)
       \/ c.op = "flush" /\ voices' = <<>> /\ UNCHANGED pipeline
    /\ UNCHANGED <<active, streamVars>>
Execute ==
    /\ ~over /\ invoked # <<>> /\ midway = "none"
    /\ invoked' = Tail(invoked)
    /\ LET c == Head(invoked) IN OnStream(c) \/ OnPipeline(c) \/ OnVoices(c)
    /\ UNCHANGED <<list, memory, nodes, default, said, happened, called>>

GraphStep == \/ \E n \in Nodes : Appear(n) \/ Vanish(n)
             \/ \E d \in Devices, name \in Names : Default(d, name)
LoopStep == Execute \/ (\E f \in {"yes", "other"} : Resume(f))
AudioStep == \/ GraphStep \/ LoopStep
             \/ \E early \in BOOLEAN : Output(early)
             \/ Input
             \/ \E d \in Devices, name \in Names, f \in {"yes", "other"} : React(d, name, f)
             \/ \E c \in Calls : Invoke(c)
AudioFairness == /\ WF_audioVars(LoopStep)
                 /\ WF_audioVars(\E early \in BOOLEAN : Output(early))
AudioSpec == InitAudio /\ [][AudioStep]_audioVars /\ AudioFairness
-----------------------------------------------------------------------------
\* Without a slot of the program's own the first device that appears ends it: no device ever
\* becomes active and no stream runs, whatever is called.
Unheard == ~slot => \A d \in Devices : /\ active[d] = Null /\ status[d] = "Closed"
                                       /\ list[d] # <<>> => over

\* With it, whoever listens knows whether a stream runs, whatever devices come and go, and
\* though a reactivate may find its device gone or be interrupted by its listeners.
ToldStatus == slot => \A d \in Devices : told[d] = "Activate" <=> status[d] = "Opened"

\* A stream that runs belongs to a device that is active, so that deactivate can stop it.
Stoppable == \A d \in Devices : status[d] = "Opened" => active[d] # Null

\* Whoever listens knows the default device, if it is there: also when it appears after it was
\* made the default.
DefaultTold == slot => \A d \in Devices : default[d] # "none" /\ Position(list[d], default[d]) > 0
                                         => said[d] = default[d]

\* What is transmitted ends, while the output plays.  (Samples pushed before the output was
\* opened stay: their length is 0.)
VoicesEnd == voices # <<>> /\ (\A i \in DOMAIN voices : voices[i].total > 0)
             ~> \/ voices = <<>> \/ \E i \in DOMAIN voices : voices[i].total = 0
                \/ status["Output"] # "Opened" \/ float32 # "yes"
=============================================================================
