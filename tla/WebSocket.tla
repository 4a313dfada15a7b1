----------------------------- MODULE WebSocket -----------------------------
(***************************************************************************)
(* SystemWSCurl (src/os/net/curl/d2_ws_curl.cpp): a thread of the module   *)
(* drives all connections with curl, and the clients hand it tasks through *)
(* a ring.  curl and the network answer as they like.                      *)
(*                                                                         *)
(* A message is its number among those of its connection; what has gone    *)
(* out of a message that is being sent is left out.  Phase and State are   *)
(* always set together and are one here.                                   *)
(***************************************************************************)
EXTENDS Naturals, Sequences, FiniteSets

CONSTANTS Conns,        \* connections
          Reconnecting, \* those with Connection::reconnect
          Timing,       \* those with a finite Connection::timeout
          MaxAttempts,  \* Connection::reconnect_max_attempts, 0 for no limit
          Size,         \* slots of _tasks
          MaxSends,     \* bound: messages sent on a connection
          MaxReceived   \* bound: messages that arrive on one

VARIABLES ops,      \* the Operation of each connection
          tasks,    \* _tasks
          sent,     \* messages that send() was called with
          alive,    \* connections whose client still exists
          closing,  \* connections whose user has called close()
          wire,     \* what curl has taken of each connection's messages
          received, \* messages that have arrived on the connection
          closes,   \* calls of on_close
          after,    \* callbacks that came after on_close
          at,       \* where the thread is
          todo,     \* connections that are still to be driven in this round
          cur,      \* the one that is
          late,     \* connections that timed out in the round in which their ping failed
          stop      \* _stop

clientVars == <<sent, alive, closing>>
netVars == <<wire, received, closes, after, late>>
vars == <<ops, tasks, clientVars, netVars, at, todo, cur, stop>>

None == 0
Task(k, c, m) == [kind |-> k, of |-> c, msg |-> m]
Ended == {"Closed", "Failed"}

Init == /\ ops = [c \in Conns |-> [state |-> "Created", handle |-> FALSE, maps |-> {},
                                   asked |-> FALSE, framed |-> FALSE, user |-> FALSE,
                                   attempts |-> 0, pending |-> None, outgoing |-> <<>>]]
        /\ tasks = <<>> /\ sent = [c \in Conns |-> 0]
        /\ alive = {} /\ closing = {}
        /\ wire = [c \in Conns |-> <<>>] /\ received = [c \in Conns |-> 0]
        /\ closes = [c \in Conns |-> 0] /\ after = {} /\ late = {}
        /\ at = "unloaded" /\ todo = {} /\ stop = FALSE /\ cur = CHOOSE c \in Conns : TRUE

-----------------------------------------------------------------------------
(* Clients.  _run waits for a slot.                                        *)

Run(t) == Len(tasks) < Size /\ tasks' = Append(tasks, t)
ByClient == UNCHANGED <<ops, netVars, at, todo, cur, stop>>

Connect(c) == /\ at # "unloaded" /\ ops[c].state = "Created" /\ c \notin alive \cup closing
              /\ Run(Task("start", c, None)) /\ alive' = alive \cup {c}
              /\ UNCHANGED <<sent, closing>> /\ ByClient

Send(c) == /\ c \in alive /\ sent[c] < MaxSends
           /\ Run(Task("send", c, sent[c] + 1))
           /\ sent' = [sent EXCEPT ![c] = @ + 1]
           /\ UNCHANGED <<alive, closing>> /\ ByClient

Close(c) == /\ c \in alive \ closing
            /\ Run(Task("close", c, None)) /\ closing' = closing \cup {c}
            /\ UNCHANGED <<sent, alive>> /\ ByClient

\* The last reference goes, and ~CurlClient closes.
Release(c) == /\ c \in alive
              /\ Run(Task("close", c, None))
              /\ alive' = alive \ {c} /\ closing' = closing \cup {c}
              /\ UNCHANGED sent /\ ByClient

\* The first query loads the module: its thread makes a handle for curl.
Load == /\ at = "unloaded" /\ at' = "tasks"
        /\ UNCHANGED <<ops, tasks, clientVars, netVars, todo, cur, stop>>
Unload == /\ at # "unloaded" /\ ~ stop /\ stop' = TRUE
          /\ UNCHANGED <<ops, tasks, clientVars, netVars, at, todo, cur>>

-----------------------------------------------------------------------------
(* What the thread does to an operation.                                   *)

\* reset_handle, and _cleanup_open
Reset(o) == [o EXCEPT !.handle = FALSE, !.pending = None, !.framed = FALSE, !.asked = FALSE]
Cleaned(o) == Reset([o EXCEPT !.maps = IF o.handle THEN {} ELSE @ \ {"reconnecting"}])

\* _transport_error and _schedule_reconnect
Retries(c, o) == c \in Reconnecting /\ ~ o.user
                 /\ (MaxAttempts = 0 \/ o.attempts < MaxAttempts)
Scheduled(o) == [o EXCEPT !.state = "Reconnecting", !.attempts = @ + 1,
                          !.maps = @ \cup {"reconnecting"}]
ErrorTwice(c) == /\ ops' = [ops EXCEPT ![c] = IF Retries(c, @) THEN Scheduled(Cleaned(@))
                                              ELSE [@ EXCEPT !.state = "Failed"]]
                 /\ closes' = [closes EXCEPT ![c] = IF Retries(c, ops[c]) THEN @ ELSE @ + 1]
Error(c) == /\ ops' = [ops EXCEPT ![c] = IF Retries(c, @) THEN Scheduled(Cleaned(@))
                                         ELSE [Cleaned(@) EXCEPT !.state = "Failed"]]
            /\ closes' = [closes EXCEPT ![c] = IF Retries(c, ops[c]) THEN @ ELSE @ + 1]

\* _finish_close
FinishClose(c) == /\ ops' = [ops EXCEPT ![c] = [Cleaned(@) EXCEPT !.state = "Closed"]]
                  /\ closes' = [closes EXCEPT ![c] = @ + 1]

\* _request_close
Asked(o) == [o EXCEPT !.user = TRUE, !.asked = TRUE, !.state = "Closing"]
RequestCloseLater(c) == CASE ops[c].state \in Ended \cup {"Closing", "Reconnecting"} ->
                                 UNCHANGED <<ops, closes>>
                          [] ops[c].state \in {"Created", "Connecting"} -> FinishClose(c)
                          [] OTHER -> ops' = [ops EXCEPT ![c] = Asked(@)] /\ UNCHANGED closes
RequestClose(c) == CASE ops[c].state \in Ended \cup {"Closing"} -> UNCHANGED <<ops, closes>>
                     [] ops[c].state \in {"Created", "Connecting", "Reconnecting"} ->
                            /\ ops' = [ops EXCEPT ![c] = [Cleaned(@) EXCEPT !.state = "Closed",
                                                                            !.user = TRUE]]
                            /\ closes' = [closes EXCEPT ![c] = @ + 1]
                     [] OTHER -> ops' = [ops EXCEPT ![c] = Asked(@)] /\ UNCHANGED closes

\* Operation::setup
Setup(o) == [Reset(o) EXCEPT !.handle = TRUE]

\* _start: curl makes a handle and takes it, or not.
StartOp(c) == \/ /\ ops' = [ops EXCEPT ![c] = [Setup(@) EXCEPT !.state = "Connecting",
                                                              !.maps = {"connecting"}]]
                 /\ UNCHANGED closes
              \/ Error(c)

\* _send_outgoing on an open connection: curl takes the first k of the messages q; then
\* there are no more, it takes no more for now, or it fails.
Flush(c, q, o) ==
    \E k \in 0..Len(q) :
        /\ wire' = [wire EXCEPT ![c] = @ \o SubSeq(q, 1, k)]
        /\ \/ /\ k = Len(q)
              /\ ops' = [ops EXCEPT ![c] = [o EXCEPT !.pending = None, !.outgoing = <<>>]]
              /\ UNCHANGED closes
           \/ /\ k < Len(q)
              /\ ops' = [ops EXCEPT ![c] = [o EXCEPT !.pending = q[k + 1],
                                                     !.outgoing = SubSeq(q, k + 2, Len(q))]]
              /\ UNCHANGED closes
           \/ /\ k < Len(q)
              /\ LET o2 == [o EXCEPT !.outgoing = SubSeq(q, k + 2, Len(q))]
                 IN /\ ops' = [ops EXCEPT ![c] = IF Retries(c, o) THEN Scheduled(Cleaned(o2))
                                                 ELSE [Cleaned(o2) EXCEPT !.state = "Failed"]]
                    /\ closes' = [closes EXCEPT ![c] = IF Retries(c, o) THEN @ ELSE @ + 1]

\* The task of send(): a message that finds another one half sent is dropped.
SendTaskAhead(c, m) ==
    LET o == ops[c] IN
    CASE o.state \in Ended \cup {"Closing"} -> UNCHANGED <<ops, wire, closes>>
      [] o.state = "Open" -> Flush(c, IF o.pending = None THEN <<m>> \o o.outgoing
                                      ELSE <<m, o.pending>> \o o.outgoing, o)
      [] OTHER -> ops' = [ops EXCEPT ![c].outgoing = Append(@, m)] /\ UNCHANGED <<wire, closes>>
SendTask(c, m) ==
    LET o == ops[c] IN
    CASE o.state \in Ended \cup {"Closing"} -> UNCHANGED <<ops, wire, closes>>
      [] o.state = "Open" -> Flush(c, <<IF o.pending = None THEN m ELSE o.pending>> \o o.outgoing, o)
      [] OTHER -> ops' = [ops EXCEPT ![c].outgoing = Append(@, m)] /\ UNCHANGED <<wire, closes>>

-----------------------------------------------------------------------------
(* The thread's loop.                                                      *)

Goto(l) == at' = l

RunTask == LET t == Head(tasks) IN
           /\ at = "tasks" /\ tasks # <<>> /\ tasks' = Tail(tasks)
           /\ CASE t.kind = "start" -> StartOp(t.of) /\ UNCHANGED wire
                [] t.kind = "send" -> SendTask(t.of, t.msg)
                [] t.kind = "close" -> RequestClose(t.of) /\ UNCHANGED wire
           /\ UNCHANGED <<clientVars, received, after, late, at, todo, cur, stop>>

TasksDone == /\ at = "tasks" /\ tasks = <<>> /\ Goto("connect")
             /\ UNCHANGED <<ops, tasks, clientVars, netVars, todo, cur, stop>>

\* A callback with the client does nothing, sends, or lets the last reference go.  Its
\* _run waits for this thread when there is no slot.
Callback(c, l) ==
    \/ Goto(l) /\ UNCHANGED <<tasks, clientVars>>
    \/ c \in alive /\ sent[c] < MaxSends /\ sent' = [sent EXCEPT ![c] = @ + 1]
       /\ UNCHANGED <<alive, closing>>
       /\ IF Len(tasks) = Size THEN Goto("stuck") /\ UNCHANGED tasks
          ELSE Goto(l) /\ Run(Task("send", c, sent[c] + 1))
    \/ c \in alive /\ alive' = alive \ {c} /\ closing' = closing \cup {c} /\ UNCHANGED sent
       /\ IF Len(tasks) = Size THEN Goto("stuck") /\ UNCHANGED tasks
          ELSE Goto(l) /\ Run(Task("close", c, None))

\* curl_multi_info_read: a connection is there, _promote_open, or is not.  on_open comes
\* before what was to be sent meanwhile.
Told(c) == after' = IF c \in alive /\ closes[c] > 0 THEN after \cup {c} ELSE after
Connected(c) ==
    /\ at = "connect" /\ "connecting" \in ops[c].maps
    /\ Callback(c, "connect") /\ Told(c)
    /\ LET o == [ops[c] EXCEPT !.state = "Open", !.attempts = 0, !.maps = {"open"}]
       IN IF at' = "stuck" THEN ops' = [ops EXCEPT ![c] = o] /\ UNCHANGED <<wire, closes>>
          ELSE Flush(c, o.outgoing, o)
    /\ UNCHANGED <<received, late, todo, cur, stop>>
ConnectFails(c) ==
    /\ at = "connect" /\ "connecting" \in ops[c].maps
    /\ Error(c)
    /\ UNCHANGED <<tasks, clientVars, wire, received, after, late, at, todo, cur, stop>>
ConnectsDone == /\ at = "connect" /\ Goto("drive")
                /\ todo' = {c \in Conns : "open" \in ops[c].maps}
                /\ UNCHANGED <<ops, tasks, clientVars, netVars, cur, stop>>

Driving == UNCHANGED <<tasks, clientVars, wire, received, after, cur, stop>>
Drive(c) == /\ at = "drive" /\ c \in todo /\ todo' = todo \ {c} /\ cur' = c
            /\ Goto(IF ops[c].handle THEN "close" ELSE "drive")
            /\ UNCHANGED <<ops, tasks, clientVars, netVars, stop>>

\* _drive_open: the close frame
NoFrame == /\ at = "close" /\ ~ (ops[cur].asked /\ ~ ops[cur].framed)
           /\ Goto("recv")
           /\ Driving /\ UNCHANGED <<ops, closes, late, todo>>
FrameWaits == /\ at = "close" /\ ops[cur].asked /\ ~ ops[cur].framed
              /\ Goto("drive")
              /\ Driving /\ UNCHANGED <<ops, closes, late, todo>>
Frame == /\ at = "close" /\ ops[cur].asked /\ ~ ops[cur].framed
         /\ \/ ops' = [ops EXCEPT ![cur].state = "Closing", ![cur].framed = TRUE]
               /\ Goto("recv") /\ UNCHANGED closes
            \/ Error(cur) /\ Goto("drive")
         /\ Driving /\ UNCHANGED <<late, todo>>

\* _recv_available: nothing more, an error, a close frame, a message
RecvNone == /\ at = "recv" /\ Goto("ping")
            /\ Driving /\ UNCHANGED <<ops, closes, late, todo>>
RecvFails == /\ at = "recv"
             /\ IF ops[cur].state = "Closing" \/ ops[cur].asked THEN FinishClose(cur) ELSE Error(cur)
             /\ Goto(IF ops'[cur].state \in Ended THEN "drive" ELSE "ping")
             /\ Driving /\ UNCHANGED <<late, todo>>
RecvClose == /\ at = "recv"
             /\ ops' = [ops EXCEPT ![cur] = [Cleaned(@) EXCEPT !.state = "Closed",
                                                 !.user = ops[cur].user \/ ~ ops[cur].framed]]
             /\ closes' = [closes EXCEPT ![cur] = @ + 1]
             /\ Goto("drive")
             /\ Driving /\ UNCHANGED <<late, todo>>
RecvMessage == /\ at = "recv" /\ received[cur] < MaxReceived
               /\ received' = [received EXCEPT ![cur] = @ + 1]
               /\ Callback(cur, "recv") /\ Told(cur)
               /\ UNCHANGED <<ops, wire, closes, late, todo, cur, stop>>

\* _send_ping_if_needed and _check_timeout, which does not look whether the ping failed
Ping == /\ at = "ping" /\ Goto("timeout")
        /\ \/ UNCHANGED <<ops, closes>>
           \/ ops[cur].state = "Open" /\ Error(cur)
        /\ Driving /\ UNCHANGED <<late, todo>>
InTime == /\ at = "timeout" /\ Goto("drive")
          /\ Driving /\ UNCHANGED <<ops, closes, late, todo>>
TimesOut == /\ at = "timeout" /\ cur \in Timing /\ Goto("drive")
            /\ late' = IF ops[cur].state = "Failed" THEN late \cup {cur} ELSE late
            /\ Error(cur)
            /\ Driving /\ UNCHANGED todo

DrivesDone == /\ at = "drive" /\ todo = {} /\ Goto("reconnect")
              /\ UNCHANGED <<ops, tasks, clientVars, netVars, todo, cur, stop>>

\* The connections whose time has come are started again.
Reconnect(c) == /\ at = "reconnect" /\ "reconnecting" \in ops[c].maps
                /\ StartOp(c)
                /\ UNCHANGED <<tasks, clientVars, wire, received, after, late, at, todo, cur, stop>>
Poll == /\ at = "reconnect" /\ Goto(IF stop THEN "end" ELSE "tasks")
        /\ UNCHANGED <<ops, tasks, clientVars, netVars, todo, cur, stop>>

\* Unloaded: what connects or is open is closed.
End == /\ at = "end" /\ Goto("ended")
       /\ LET told == {c \in Conns : ops[c].maps \cap {"connecting", "open"} # {}}
          IN /\ ops' = [c \in Conns |-> IF c \in told
                            THEN [Reset(ops[c]) EXCEPT !.state = "Closed", !.user = TRUE, !.maps = {}]
                            ELSE [ops[c] EXCEPT !.maps = {}]]
             /\ closes' = [c \in Conns |-> IF c \in told THEN closes[c] + 1 ELSE closes[c]]
       /\ UNCHANGED <<tasks, clientVars, wire, received, after, late, todo, cur, stop>>

Worker == \/ RunTask \/ TasksDone \/ ConnectsDone
          \/ (\E c \in Conns : Connected(c) \/ ConnectFails(c) \/ Drive(c) \/ Reconnect(c))
          \/ NoFrame \/ FrameWaits \/ Frame
          \/ RecvNone \/ RecvFails \/ RecvClose \/ RecvMessage
          \/ Ping \/ InTime \/ TimesOut \/ DrivesDone \/ Poll \/ End

Next == \/ Worker \/ Load \/ Unload
        \/ \E c \in Conns : Connect(c) \/ Send(c) \/ Close(c) \/ Release(c)

Spec == Init /\ [][Next]_vars

\* The thread runs.  A connection takes a close frame at some time, and one that has been
\* sent the frame is closed by the peer or breaks at some time.
Fairness == /\ WF_vars(Worker)
            /\ \A c \in Conns : /\ SF_vars(Frame /\ cur = c)
                                /\ SF_vars(ops[c].framed /\ cur = c /\ (RecvClose \/ RecvFails))
FairSpec == Spec /\ Fairness
-----------------------------------------------------------------------------
(* Properties.                                                             *)

\* The maps of the thread say what the state of a connection says, whatever failed where:
\* a connection is in exactly the map that its state belongs to, and one that is over is in
\* none and has no handle, so that nothing drives or restarts it any more.
MapOf(state) == CASE state = "Connecting" -> {"connecting"}
                  [] state \in {"Open", "Closing"} -> {"open"}
                  [] state = "Reconnecting" -> {"reconnecting"}
                  [] OTHER -> {}
ConnectionsMapped == at # "ended" => \A c \in Conns :
    /\ ops[c].maps = MapOf(ops[c].state)
    /\ ops[c].handle <=> ops[c].state \in {"Connecting", "Open", "Closing"}

\* on_close comes once, however a close by the user, by the peer, an error and the unload of
\* the module fall together, and no callback comes after it.  (A connection that times out in
\* the round in which its ping failed is the exception.)
ClosedOnce == /\ \A c \in Conns : closes[c] = (IF ops[c].state \in Ended THEN 1 ELSE 0)
                                  \/ c \in late
              /\ after = {}

\* curl gets the messages in the order of the calls of send() and none twice, across full
\* sockets and reconnections.
SentInOrder == \A c \in Conns : \A i, j \in 1..Len(wire[c]) : i < j => wire[c][i] < wire[c][j]

\* A close that the user has asked for ends the connection, also when it comes before the
\* connection is open or while it waits to be made again; unless the module is unloaded or
\* its thread waits for itself.
CloseEnds == \A c \in Conns : (c \in closing) ~> (ops[c].state \in Ended \/ stop \/ at = "stuck")
=============================================================================
