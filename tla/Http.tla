-------------------------------- MODULE Http --------------------------------
(***************************************************************************)
(* SystemHTTPCurl (src/os/net/curl/d2_http_curl.cpp): a thread of the      *)
(* module drives all requests with curl; the threads that made them stream *)
(* bodies and cancel.  curl and the server answer as they like.            *)
(*                                                                         *)
(* A chunk of a body is its number.  curl reads one chunk at a time; a     *)
(* stream finishes once, when it is destroyed at the latest.               *)
(***************************************************************************)
EXTENDS Naturals, Sequences, FiniteSets

CONSTANTS Requests,    \* calls of request()
          Streaming,   \* those whose body is streamed
          Size,        \* slots of _tasks
          UploadSize,  \* slots of Operation::upload_queue
          MaxChunks    \* bound: chunks written to a stream

VARIABLES writer,     \* where the owner of a request is in its calls
          written,    \* chunks it has written
          cancelled,  \* Operation::cancelled
          tasks,      \* _tasks
          upload,     \* Operation::upload_queue
          paused,     \* Operation::upload_paused
          finished,   \* Operation::upload_finished
          ops,        \* the requests in _ops
          read,       \* chunks that curl has got
          ended,      \* requests whose body curl has got to the end
          result,     \* how the transfer ended, for curl
          answers,    \* calls of on_response and on_error
          at,         \* where the thread is
          cur,        \* the request whose _read_cb is running
          stop        \* _stop

ownerVars == <<writer, written>>
bodyVars == <<upload, paused, finished, read, ended>>
curlVars == <<ops, result, answers>>
vars == <<ownerVars, cancelled, tasks, bodyVars, curlVars, at, cur, stop>>

Task(k, r) == [kind |-> k, of |-> r]

Init == /\ writer = [r \in Requests |-> "none"] /\ written = [r \in Requests |-> 0]
        /\ cancelled = {} /\ tasks = <<>>
        /\ upload = [r \in Requests |-> <<>>] /\ paused = {} /\ finished = {}
        /\ ops = {} /\ read = [r \in Requests |-> 0] /\ ended = {}
        /\ result = [r \in Requests |-> "none"] /\ answers = [r \in Requests |-> <<>>]
        /\ at = "unloaded" /\ stop = FALSE /\ cur = CHOOSE r \in Requests : TRUE

-----------------------------------------------------------------------------
(* Owners.  _run waits for a slot.                                         *)

Run(t) == Len(tasks) < Size /\ tasks' = Append(tasks, t)
Goto(r, l) == writer' = [writer EXCEPT ![r] = l]

Request(r) == /\ at # "unloaded" /\ writer[r] = "none" /\ Run(Task("start", r))
              /\ Goto(r, IF r \in Streaming THEN "open" ELSE "done")
              /\ UNCHANGED <<written, cancelled, bodyVars, curlVars, at, cur, stop>>

\* The operation exists as long as a task, _ops or a call has it.
Held(r) == r \in ops \/ \E i \in 1..Len(tasks) : tasks[i].of = r

\* CurlStream::write: the chunk goes into the queue of the stream, when there is a slot, and
\* a task then wakes curl.
Write(r) == /\ writer[r] = "open" /\ written[r] < MaxChunks
            /\ Held(r) /\ r \notin cancelled
            /\ Goto(r, "enqueue")
            /\ UNCHANGED <<written, cancelled, tasks, bodyVars, curlVars, at, cur, stop>>
Chunk(r) == /\ writer[r] = "enqueue" /\ Len(upload[r]) < UploadSize
            /\ written' = [written EXCEPT ![r] = @ + 1]
            /\ upload' = [upload EXCEPT ![r] = Append(@, written[r] + 1)]
            /\ Goto(r, "resume")
            /\ UNCHANGED <<cancelled, tasks, paused, finished, read, ended, curlVars, at, cur, stop>>
ResumeItself(r) == /\ writer[r] = "resume" /\ Goto(r, "open")
                   /\ paused' = paused \ {r}
                   /\ UNCHANGED <<written, cancelled, tasks, upload, finished, read, ended, curlVars,
                                  at, cur, stop>>
Resume(r) == /\ writer[r] = "resume" /\ Run(Task("resume", r)) /\ Goto(r, "open")
             /\ UNCHANGED <<written, cancelled, bodyVars, curlVars, at, cur, stop>>

Finish(r) == /\ writer[r] = "open" /\ Goto(r, "done")
             /\ IF Held(r) THEN Run(Task("finish", r)) ELSE UNCHANGED tasks
             /\ UNCHANGED <<written, cancelled, bodyVars, curlVars, at, cur, stop>>

\* CurlStream::cancel, CurlChunk::cancel
Cancel(r) == /\ r \notin cancelled /\ Held(r) /\ cancelled' = cancelled \cup {r}
             /\ UNCHANGED <<ownerVars, tasks, bodyVars, curlVars, at, cur, stop>>

\* The first query loads the module: its thread makes a handle for curl.
Load == /\ at = "unloaded" /\ at' = "tasks"
        /\ UNCHANGED <<ownerVars, cancelled, tasks, bodyVars, curlVars, cur, stop>>
Unload == /\ at # "unloaded" /\ ~ stop /\ stop' = TRUE
          /\ UNCHANGED <<ownerVars, cancelled, tasks, bodyVars, curlVars, at, cur>>

-----------------------------------------------------------------------------
(* The thread's loop.                                                      *)

Answer(r, a) == answers' = [answers EXCEPT ![r] = Append(@, a)]

\* Operation::setup: the request is set up and curl takes it, or it fails, as one that was
\* given both a body and a stream does.
Start(r) == \/ ops' = ops \cup {r} /\ UNCHANGED answers
            \/ Answer(r, "error") /\ UNCHANGED ops

\* A request starts; a stream goes on, or finishes.
RunTask == LET t == Head(tasks) r == t.of IN
           /\ at = "tasks" /\ tasks # <<>> /\ tasks' = Tail(tasks)
           /\ CASE t.kind = "start" -> Start(r) /\ UNCHANGED <<paused, finished>>
                [] t.kind = "resume" -> paused' = paused \ {r} /\ UNCHANGED <<ops, answers, finished>>
                [] t.kind = "finish" -> /\ finished' = finished \cup {r} /\ paused' = paused \ {r}
                                        /\ UNCHANGED <<ops, answers>>
           /\ UNCHANGED <<ownerVars, cancelled, upload, read, ended, result, at, cur, stop>>
Idle(l, m) == /\ at = l /\ at' = m
              /\ UNCHANGED <<ownerVars, cancelled, tasks, bodyVars, curlVars, cur, stop>>
TasksDone == tasks = <<>> /\ Idle("tasks", "perform")

\* curl_multi_perform calls _read_cb, which takes a chunk or else looks whether the stream is
\* finished, and is paused if not.
Reads(r) == r \in (ops \cap Streaming) \ (paused \cup ended) /\ result[r] = "none"
ReadChunk(r) == /\ at = "perform" /\ Reads(r) /\ r \notin cancelled /\ upload[r] # <<>>
                /\ upload' = [upload EXCEPT ![r] = Tail(@)]
                /\ read' = [read EXCEPT ![r] = @ + 1]
                /\ UNCHANGED <<ownerVars, cancelled, tasks, paused, finished, ended, curlVars, at, cur,
                               stop>>
ReadNothing(r) == /\ at = "perform" /\ Reads(r) /\ r \notin cancelled /\ upload[r] = <<>>
                  /\ at' = "read" /\ cur' = r
                  /\ UNCHANGED <<ownerVars, cancelled, tasks, bodyVars, curlVars, stop>>
ReadEnd == /\ at = "read" /\ at' = "perform"
           /\ IF cur \in finished THEN ended' = ended \cup {cur} /\ UNCHANGED paused
              ELSE paused' = paused \cup {cur} /\ UNCHANGED ended
           /\ UNCHANGED <<ownerVars, cancelled, tasks, upload, finished, read, curlVars, cur, stop>>

\* curl is done with a request: it failed, was told to abort by a callback that saw the
\* cancellation, or has its answer, which may come before the body has ended.
Transferred(r) == /\ at = "perform" /\ r \in ops /\ result[r] = "none"
                  /\ \E a \in {"response", "error"} : result' = [result EXCEPT ![r] = a]
                  /\ UNCHANGED <<ownerVars, cancelled, tasks, bodyVars, ops, answers, at, cur, stop>>
Performed == Idle("perform", "info")

\* curl_multi_info_read and _complete
Info(r) == /\ at = "info" /\ r \in ops /\ result[r] # "none"
           /\ ops' = ops \ {r} /\ Answer(r, IF r \in cancelled THEN "error" ELSE result[r])
           /\ UNCHANGED <<ownerVars, cancelled, tasks, bodyVars, result, at, cur, stop>>
InfoDone == (\A r \in ops : result[r] = "none") /\ Idle("info", "poll")
Poll == IF stop THEN Idle("poll", "end") ELSE Idle("poll", "tasks")

\* Unloaded: what is still in _ops fails.  What is still in _tasks is never looked at.
End == /\ at = "end" /\ at' = "ended"
       /\ answers' = [r \in Requests |-> IF r \in ops THEN Append(answers[r], "error")
                                         ELSE answers[r]]
       /\ cancelled' = cancelled \cup ops /\ ops' = {}
       /\ UNCHANGED <<ownerVars, tasks, bodyVars, result, cur, stop>>

Worker == \/ RunTask \/ TasksDone \/ ReadEnd \/ Performed \/ InfoDone \/ Poll \/ End
          \/ \E r \in Requests : ReadChunk(r) \/ ReadNothing(r) \/ Transferred(r) \/ Info(r)
Call(r) == Chunk(r) \/ Resume(r)

Next == Worker \/ Load \/ Unload
        \/ \E r \in Requests : Request(r) \/ Write(r) \/ Call(r) \/ Finish(r) \/ Cancel(r)

Spec == Init /\ [][Next]_vars

\* Threads run, and curl reads a body that is not paused.
Fairness == /\ WF_vars(Worker)
            /\ \A r \in Requests : WF_vars(Call(r)) /\ SF_vars(ReadChunk(r))
FairSpec == Spec /\ Fairness
-----------------------------------------------------------------------------
(* Properties.                                                             *)

\* A request is answered once, by a response or an error, and never before the thread has
\* begun with it; one that is cancelled, or cut off by the unload of the module, as well.
AnsweredOnce == \A r \in Requests :
    /\ Len(answers[r]) = 1 => r \notin ops
    /\ Len(answers[r]) <= 1
    /\ Len(answers[r]) = 0 => \/ writer[r] = "none" \/ r \in ops
                              \/ \E i \in 1..Len(tasks) : tasks[i] = Task("start", r)

\* Every chunk that was written reaches curl, unless the request is over: a stream that was
\* paused because there was nothing to read goes on, also when the chunk came just then.
ChunksArrive == \A r \in Streaming, n \in 1..MaxChunks :
    (written[r] >= n)
        ~> (read[r] >= n \/ result[r] # "none" \/ answers[r] # <<>> \/ r \in cancelled \/ stop)
=============================================================================
