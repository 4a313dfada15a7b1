-------------------------------- MODULE Logs --------------------------------
(***************************************************************************)
(* RuntimeLogs (src/logs/logd.cpp): every thread that logs has a ring of   *)
(* its own in a list that only grows, with a lock that is a flag; page     *)
(* locks all rings to show what is in them; sinks are told at once.        *)
(***************************************************************************)
EXTENDS Naturals, Sequences, FiniteSets, SequencesExt

CONSTANTS Loggers,   \* threads that log
          Pagers,    \* threads that page, and do nothing else
          Sinkers,   \* threads that register a sink
          RingSize,  \* entries that fit into a ring
          MaxLogs, MaxPages  \* bounds: calls of each logger and pager

Root == "root"  \* the first node; the node of a thread is named by the thread
Nil == "nil"

VARIABLES next, prev,  \* of the nodes
          memlock,     \* of the nodes
          ring,        \* entries between tail and head of each node, by their time
          logpc,       \* where each logger is
          behind,      \* the node it was put behind
          logged,      \* entries of each logger that were logged, and those of them gone since
          gone,
          pagepc,      \* where each pager is
          ptr,         \* its place in the list
          held,        \* nodes it has locked
          found,       \* what it has found
          since,       \* what it has to find: all that was logged when it began
          pages,       \* pages so far
          sinkLock, sinks,  \* _sink_wlock and _sinks
          sinkpc, copy,     \* where each sinker is, and its copy of _sinks
          clock,       \* time: the number of entries
          freed        \* ghost: nodes a page unlocked without having locked them
logVars == <<next, prev, memlock, ring, logpc, behind, logged, gone>>
pageVars == <<pagepc, ptr, held, found, since, pages>>
sinkVars == <<sinkLock, sinks, sinkpc, copy>>
logsVars == <<logVars, pageVars, sinkVars, clock, freed>>

NodeNames == Loggers \cup {Root}

InitLogs ==
    /\ next = [n \in NodeNames |-> IF n = Root THEN Root ELSE Nil] /\ prev = next
    /\ memlock = [n \in NodeNames |-> FALSE] /\ ring = [n \in NodeNames |-> <<>>]
    /\ logpc = [t \in Loggers |-> "out"] /\ behind = [t \in Loggers |-> Nil]
    /\ logged = [t \in Loggers |-> {}] /\ gone = {}
    /\ pagepc = [p \in Pagers |-> "out"] /\ ptr = [p \in Pagers |-> Nil]
    /\ held = [p \in Pagers |-> {}] /\ found = [p \in Pagers |-> <<>>]
    /\ since = [p \in Pagers |-> {}] /\ pages = [p \in Pagers |-> 0]
    /\ sinkLock = FALSE /\ sinks = {}
    /\ sinkpc = [s \in Sinkers |-> "out"] /\ copy = [s \in Sinkers |-> {}]
    /\ clock = 0 /\ freed = {}

-----------------------------------------------------------------------------
(* _log.  The node of a thread enters the list in two stores: prev of the  *)
(* root, and next of the node it then comes behind.                        *)

LogTo(t, pc) == logpc' = [logpc EXCEPT ![t] = pc]
Log(t) == /\ logpc[t] = "out"
          /\ Cardinality(logged[t]) < MaxLogs
          /\ IF prev[t] = Nil
             THEN /\ prev' = [prev EXCEPT ![Root] = t, ![t] = prev[Root]]
                  /\ behind' = [behind EXCEPT ![t] = prev[Root]]
                  /\ LogTo(t, "link")
             ELSE LogTo(t, "lock") /\ UNCHANGED <<prev, behind>>
          /\ UNCHANGED <<next, memlock, ring, logged, gone, pageVars, sinkVars, clock, freed>>
Link(t) == /\ logpc[t] = "link"
           /\ next' = [next EXCEPT ![behind[t]] = t]
           /\ LogTo(t, "lock")
           /\ UNCHANGED <<prev, memlock, ring, behind, logged, gone, pageVars, sinkVars,
                          clock, freed>>
Lock(t) == /\ logpc[t] = "lock" /\ ~memlock[t]
           /\ memlock' = [memlock EXCEPT ![t] = TRUE]
           /\ LogTo(t, "write")
           /\ UNCHANGED <<next, prev, ring, behind, logged, gone, pageVars, sinkVars, clock,
                          freed>>
\* A ring that is full begins anew: what is in it is gone.  The entry is a message smaller
\* than the ring, without data, as is everything this code logs: data would follow in a
\* record of its own, whose header tells no length, and page would go on in the middle of it.
WriteEntry(t) ==
    LET full == Len(ring[t]) = RingSize
    IN  /\ logpc[t] = "write"
        /\ clock' = clock + 1
        /\ ring' = [ring EXCEPT ![t] = IF full THEN <<clock>> ELSE Append(@, clock)]
        /\ gone' = IF full THEN gone \cup ToSet(ring[t]) ELSE gone
        /\ logged' = [logged EXCEPT ![t] = @ \cup {clock}]
        /\ LogTo(t, "unlock")
        /\ UNCHANGED <<next, prev, memlock, behind, pageVars, sinkVars, freed>>
Unlock(t) == /\ logpc[t] = "unlock"
             /\ memlock' = [memlock EXCEPT ![t] = FALSE]
             /\ LogTo(t, "out")
             /\ UNCHANGED <<next, prev, ring, behind, logged, gone, pageVars, sinkVars,
                            clock, freed>>
LogStep(t) == Link(t) \/ Lock(t) \/ WriteEntry(t) \/ Unlock(t)

-----------------------------------------------------------------------------
(* page.  It walks the list twice, to lock and to unlock.                  *)

PageTo(p, pc, node) == pagepc' = [pagepc EXCEPT ![p] = pc] /\ ptr' = [ptr EXCEPT ![p] = node]
AtEnd(p) == ptr[p] \in {Root, Nil}
Page(p) == /\ pagepc[p] = "out" /\ pages[p] < MaxPages
           /\ pages' = [pages EXCEPT ![p] = @ + 1]
           /\ PageTo(p, "lock", next[Root])
           /\ found' = [found EXCEPT ![p] = <<>>]
           \* a node is not found while one before it is not linked
           /\ since' = [since EXCEPT ![p] =
                          IF \E t \in Loggers : logpc[t] = "link" THEN {}
                          ELSE UNION {logged[t] : t \in {u \in Loggers : logpc[u] = "out"}}]
           /\ UNCHANGED <<logVars, held, sinkVars, clock, freed>>
\* A mutant: the rings are only read, one after the other.
PageLockNot(p) == LET n == ptr[p]
               IN  /\ pagepc[p] = "lock" /\ ~AtEnd(p)
                   /\ UNCHANGED memlock
                   /\ held' = [held EXCEPT ![p] = @ \cup {n}]
                   /\ found' = [found EXCEPT ![p] = @ \o ring[n]]
                   /\ PageTo(p, "lock", next[n])
                   /\ UNCHANGED <<next, prev, ring, logpc, behind, logged, gone, since, pages,
                                  sinkVars, clock, freed>>
PageLock(p) == LET n == ptr[p]
               IN  /\ pagepc[p] = "lock" /\ ~AtEnd(p)
                   /\ ~memlock[n]
                   /\ memlock' = [memlock EXCEPT ![n] = TRUE]
                   /\ held' = [held EXCEPT ![p] = @ \cup {n}]
                   /\ found' = [found EXCEPT ![p] = @ \o ring[n]]
                   /\ PageTo(p, "lock", next[n])
                   /\ UNCHANGED <<next, prev, ring, logpc, behind, logged, gone, since, pages,
                                  sinkVars, clock, freed>>
\* Entries are sorted by their time and the callback gets each.  It must not log: the rings are
\* still locked.
Rearranged(s) == {[i \in DOMAIN s |-> s[f[i]]] : f \in Bijection(DOMAIN s, DOMAIN s)}
Sorted(p) == /\ pagepc[p] = "lock" /\ AtEnd(p)
             /\ \E s \in Rearranged(found[p]) :
                   /\ \A i, j \in DOMAIN s : i < j => s[i] <= s[j]
                   /\ found' = [found EXCEPT ![p] = s]
             /\ PageTo(p, "unlock", next[Root])
             /\ UNCHANGED <<logVars, held, since, pages, sinkVars, clock, freed>>
\* Also a node that was not in the list when it was walked first is unlocked.
PageUnlock(p) == LET n == ptr[p]
                 IN  /\ pagepc[p] = "unlock" /\ ~AtEnd(p)
                     /\ memlock' = [memlock EXCEPT ![n] = FALSE]
                     /\ held' = [held EXCEPT ![p] = @ \ {n}]
                     /\ freed' = IF n \in held[p] THEN freed ELSE freed \cup {n}
                     /\ PageTo(p, "unlock", next[n])
                     /\ UNCHANGED <<next, prev, ring, logpc, behind, logged, gone, found, since,
                                    pages, sinkVars, clock>>
Paged(p) == /\ pagepc[p] = "unlock" /\ AtEnd(p)
            /\ PageTo(p, "out", Nil)
            /\ UNCHANGED <<logVars, held, found, since, pages, sinkVars, clock, freed>>
PageStep(p) == PageLock(p) \/ Sorted(p) \/ PageUnlock(p) \/ Paged(p)

-----------------------------------------------------------------------------
(* sink: a copy of the sinks is stored, under a lock that only writers     *)
(* take.  (The one of the same type is never found, as the type of the     *)
(* pointer is compared: a second is added, and unsink leaves all.)         *)

SinkTo(s, pc) == sinkpc' = [sinkpc EXCEPT ![s] = pc]
AcquireSink(s) == /\ sinkpc[s] = "out" /\ ~sinkLock
                  /\ sinkLock' = TRUE
                  /\ copy' = [copy EXCEPT ![s] = sinks \cup {s}]
                  /\ SinkTo(s, "store")
                  /\ UNCHANGED <<sinks, logVars, pageVars, clock, freed>>
StoreSinks(s) == /\ sinkpc[s] = "store"
                 /\ sinks' = copy[s]
                 /\ SinkTo(s, "release")
                 /\ UNCHANGED <<sinkLock, copy, logVars, pageVars, clock, freed>>
ReleaseSink(s) == /\ sinkpc[s] = "release"
                  /\ sinkLock' = FALSE
                  /\ SinkTo(s, "done")
                  /\ UNCHANGED <<sinks, copy, logVars, pageVars, clock, freed>>
SinkStep(s) == AcquireSink(s) \/ StoreSinks(s) \/ ReleaseSink(s)

RingsStep == \/ \E t \in Loggers : Log(t) \/ LogStep(t)
             \/ \E p \in Pagers : Page(p) \/ PageStep(p)
SinksStep == \E s \in Sinkers : SinkStep(s)
LogsStep == RingsStep \/ SinksStep
LogsFairness == /\ \A t \in Loggers : WF_logsVars(LogStep(t))
                /\ \A p \in Pagers : WF_logsVars(PageStep(p))
LogsSpec == InitLogs /\ [][LogsStep]_logsVars /\ LogsFairness
-----------------------------------------------------------------------------
\* One thread at a time is at a ring, its owner that writes or a page that reads; but for a
\* thread that begins to log during a page, which unlocks its ring (logd.cpp:524).
Within(n) == {p \in Pagers : n \in held[p]} \cup {t \in Loggers : t = n /\ logpc[t] \in {"write", "unlock"}}
RingExclusive == \A n \in Loggers \ freed : Cardinality(Within(n)) <= 1

\* A page shows what was logged before it began, each entry once and in the order of time,
\* unless its ring began anew meanwhile; while a thread is entering the list, those behind it
\* are not found.
PageWhole ==
    \A p \in Pagers : pagepc[p] = "unlock" =>
        /\ since[p] \ gone \subseteq ToSet(found[p])
        /\ \A i, j \in 1..Len(found[p]) : i < j => found[p][i] < found[p][j]

\* No sink is lost when several threads add one.
SinksKept == \A s \in Sinkers : sinkpc[s] \in {"release", "done"} => s \in sinks

\* Who logs or pages returns.
LoggersReturn == /\ \A t \in Loggers : logpc[t] # "out" ~> logpc[t] = "out"
                 /\ \A p \in Pagers : pagepc[p] # "out" ~> pagepc[p] = "out"
=============================================================================
