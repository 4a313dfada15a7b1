----------------------------- MODULE MCNetwork ------------------------------
(***************************************************************************)
(* The network modules.  They share nothing but the count of               *)
(* d2_curl_global.cpp, so that in a behaviour only one of them is loaded;  *)
(* the other's thread does not exist, and nobody calls it.                 *)
(***************************************************************************)
EXTENDS Naturals, Sequences, FiniteSets

CONSTANTS Conns, Reconnecting, Timing, MaxAttempts, MaxSends, MaxReceived,
          Requests, Streaming, UploadSize, MaxChunks,
          Size  \* slots of the ring of tasks of either module

ASSUME WebSocketAssumption ==
    /\ Reconnecting \subseteq Conns /\ Timing \subseteq Conns
    /\ MaxAttempts \in Nat /\ Size \in Nat \ {0} /\ MaxSends \in Nat /\ MaxReceived \in Nat
ASSUME HttpAssumption == /\ Streaming \subseteq Requests
                         /\ UploadSize \in Nat \ {0} /\ MaxChunks \in Nat

VARIABLES wsOps, wsTasks, sent, alive, closing, wire, received, closes, after, wsAt, todo, wsCur,
          late, wsStop
wsVars == <<wsOps, wsTasks, sent, alive, closing, wire, received, closes, after, wsAt, todo, wsCur,
            late, wsStop>>

VARIABLES writer, written, cancelled, tasks, upload, paused, finished, ops, read, ended, result,
          answers, at, cur, stop
httpVars == <<writer, written, cancelled, tasks, upload, paused, finished, ops, read, ended, result,
              answers, at, cur, stop>>

WS == INSTANCE WebSocket WITH ops <- wsOps, tasks <- wsTasks, at <- wsAt, cur <- wsCur,
                              stop <- wsStop
HTTP == INSTANCE Http

Init == WS!Init /\ HTTP!Init

Next == \/ at = "unloaded" /\ WS!Next /\ UNCHANGED httpVars
        \/ wsAt = "unloaded" /\ HTTP!Next /\ UNCHANGED wsVars

FairSpec == Init /\ [][Next]_<<wsVars, httpVars>> /\ WS!Fairness /\ HTTP!Fairness
-----------------------------------------------------------------------------
\* The maps of the websockets' thread agree with the states of the connections.
ConnectionsMapped == WS!ConnectionsMapped
\* on_close comes once and last, and a request is answered once.
EndsOnce == WS!ClosedOnce /\ HTTP!AnsweredOnce
\* Messages go out in order and none twice.
SentInOrder == WS!SentInOrder
\* A connection that is to be closed ends.
CloseEnds == WS!CloseEnds
\* What is written to a stream reaches curl.
ChunksArrive == HTTP!ChunksArrive
=============================================================================
