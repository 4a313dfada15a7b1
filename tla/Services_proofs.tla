-------------------------- MODULE Services_proofs --------------------------
(***************************************************************************)
(* What the runs check of the services that are loaded as modules, for any *)
(* number of connections, requests, devices and calls: a request is        *)
(* answered once, a stream of the audio runs only where its listeners are  *)
(* told and can be stopped, and what WebSocket_proofs shows of the         *)
(* websockets holds where it is one module of several.                     *)
(***************************************************************************)
EXTENDS MCServices, SequenceTheorems, WellFoundedInduction, TLAPS

W == INSTANCE WebSocket_proofs WITH ops <- wsOps, tasks <- wsTasks, at <- wsAt, cur <- wsCur,
                                    stop <- wsStop
-----------------------------------------------------------------------------
(* The requests.                                                           *)

HttpTasks == [kind : {"start", "resume", "finish"}, of : Requests]
HttpTypeOK == /\ tasks \in Seq(HttpTasks) /\ ops \subseteq Requests
              /\ answers \in [Requests -> Seq({"response", "error"})]
              /\ result \in [Requests -> {"none", "response", "error"}]
              /\ writer \in [Requests -> {"none", "open", "enqueue", "resume", "done"}]

\* Nobody has answered a request yet, though it was made.
Unanswered(r) == Len(answers[r]) = 0 /\ writer[r] # "none"

HttpInv == /\ HttpTypeOK
           /\ \A r \in Requests :
                 /\ Len(answers[r]) <= 1
                 /\ writer[r] = "none" => Len(answers[r]) = 0
                 /\ Unanswered(r) => r \in ops \/ \E i \in 1..Len(tasks) : tasks[i] = HTTP!Task("start", r)
           /\ \A r \in ops : Unanswered(r)
           \* A request starts once.
           /\ \A i \in 1..Len(tasks) : tasks[i].kind = "start" =>
                 /\ Unanswered(tasks[i].of) /\ tasks[i].of \notin ops
                 /\ \A j \in 1..(i - 1) : tasks[j] # tasks[i]

\* The ring of tasks: what is in it, and what comes of a task more or less.
LEMMA HttpRing ==
    ASSUME HttpInv
    PROVE  /\ tasks \in Seq(HttpTasks) /\ Len(tasks) \in Nat
           /\ \A i \in 1..Len(tasks) : /\ tasks[i] \in HttpTasks /\ tasks[i].of \in Requests
                                       /\ tasks[i] = HTTP!Task(tasks[i].kind, tasks[i].of)
<1>1. tasks \in Seq(HttpTasks)
    BY DEF HttpInv, HttpTypeOK
<1>2. \A i \in 1..Len(tasks) : tasks[i] \in HttpTasks
    BY <1>1, ElementOfSeq
<1> QED
    BY <1>1, <1>2, LenProperties DEF HttpTasks, HTTP!Task

LEMMA HttpTogether ==
    ASSUME HttpTypeOK',
           \A r \in Requests :
                 /\ Len(answers'[r]) <= 1 /\ (writer'[r] = "none" => Len(answers'[r]) = 0)
                 /\ Len(answers'[r]) = 0 /\ writer'[r] # "none" =>
                        r \in ops' \/ \E i \in 1..Len(tasks') : tasks'[i] = HTTP!Task("start", r),
           \A r \in ops' : Len(answers'[r]) = 0 /\ writer'[r] # "none",
           \A i \in 1..Len(tasks') : tasks'[i].kind = "start" =>
                 /\ Len(answers'[tasks'[i].of]) = 0 /\ writer'[tasks'[i].of] # "none"
                 /\ tasks'[i].of \notin ops' /\ \A j \in 1..(i - 1) : tasks'[j] # tasks'[i]
    PROVE  HttpInv'
BY DEF HttpInv, Unanswered, HTTP!Task

\* Steps that answer nothing, start nothing and take no task.
LEMMA HttpWaits ==
    ASSUME HttpInv, UNCHANGED <<ops, answers>>, result' \in [Requests -> {"none", "response", "error"}],
           writer' \in [Requests -> {"none", "open", "enqueue", "resume", "done"}],
           \A r \in Requests : writer'[r] = "none" <=> writer[r] = "none",
           \/ tasks' = tasks
           \/ \E r \in Requests, k \in {"resume", "finish"} : tasks' = Append(tasks, HTTP!Task(k, r))
    PROVE  HttpInv'
<1>1. /\ tasks \in Seq(HttpTasks) /\ Len(tasks) \in Nat
      /\ \A i \in 1..Len(tasks) : tasks[i].of \in Requests
    BY HttpRing
<1>2. CASE tasks' = tasks
    BY <1>1, <1>2 DEF HttpInv, HttpTypeOK, Unanswered, HTTP!Task
<1>3. ASSUME NEW r \in Requests, NEW k \in {"resume", "finish"}, tasks' = Append(tasks, HTTP!Task(k, r))
      PROVE  HttpInv'
    <2>0. PICK t \in {HTTP!Task(k, r)} : TRUE
        OBVIOUS
    <2>1. t = HTTP!Task(k, r) /\ t \in HttpTasks /\ t.kind # "start"
        BY DEF HttpTasks, HTTP!Task
    <2>2. /\ tasks' \in Seq(HttpTasks) /\ Len(tasks') = Len(tasks) + 1 /\ tasks'[Len(tasks) + 1] = t
          /\ \A i \in 1..Len(tasks) : tasks'[i] = tasks[i]
        BY <1>1, <1>3, <2>1, AppendProperties
    <2>3. ASSUME NEW i \in 1..Len(tasks'), tasks'[i].kind = "start"
          PROVE  /\ Len(answers'[tasks'[i].of]) = 0 /\ writer'[tasks'[i].of] # "none"
                 /\ tasks'[i].of \notin ops' /\ \A j \in 1..(i - 1) : tasks'[j] # tasks'[i]
        <3>1. i \in 1..Len(tasks) /\ tasks'[i] = tasks[i] /\ \A j \in 1..(i - 1) : tasks'[j] = tasks[j]
            BY <1>1, <2>1, <2>2, <2>3
        <3> QED
            BY <1>1, <2>3, <3>1 DEF HttpInv, Unanswered
    <2>4. ASSUME NEW q \in Requests
          PROVE  /\ Len(answers'[q]) <= 1 /\ (writer'[q] = "none" => Len(answers'[q]) = 0)
                 /\ Len(answers'[q]) = 0 /\ writer'[q] # "none" =>
                        q \in ops' \/ \E i \in 1..Len(tasks') : tasks'[i] = HTTP!Task("start", q)
        <3>1. \A i \in 1..Len(tasks) : i \in 1..Len(tasks')
            BY <1>1, <2>2
        <3> QED
            BY <2>2, <3>1 DEF HttpInv, Unanswered
    <2>5. \A q \in ops' : Len(answers'[q]) = 0 /\ writer'[q] # "none"
        BY DEF HttpInv, HttpTypeOK, Unanswered
    <2>6. HttpTypeOK'
        BY <2>2 DEF HttpInv, HttpTypeOK
    <2> QED
        BY <2>3, <2>4, <2>5, <2>6, HttpTogether
<1> QED
    BY <1>2, <1>3

LEMMA RequestKeeps ==
    ASSUME HttpInv, NEW r \in Requests, HTTP!Request(r)
    PROVE  HttpInv'
<1>1. /\ tasks \in Seq(HttpTasks) /\ Len(tasks) \in Nat
      /\ \A i \in 1..Len(tasks) : tasks[i].of \in Requests
    BY HttpRing
<1>2. /\ writer[r] = "none" /\ UNCHANGED <<ops, answers, result>>
      /\ tasks' = Append(tasks, HTTP!Task("start", r))
      /\ writer' = [writer EXCEPT ![r] = IF r \in Streaming THEN "open" ELSE "done"]
    BY DEF HTTP!Request, HTTP!Run, HTTP!Goto, HTTP!curlVars
<1>3. PICK t \in {HTTP!Task("start", r)} : TRUE
    OBVIOUS
<1>4. t \in HttpTasks /\ t.kind = "start" /\ t.of = r
    BY <1>3 DEF HttpTasks, HTTP!Task
<1>5. /\ tasks' \in Seq(HttpTasks) /\ Len(tasks') = Len(tasks) + 1 /\ tasks'[Len(tasks) + 1] = t
      /\ \A i \in 1..Len(tasks) : tasks'[i] = tasks[i] /\ i \in 1..Len(tasks')
    BY <1>1, <1>2, <1>3, <1>4, AppendProperties
<1>6. writer \in [Requests -> {"none", "open", "enqueue", "resume", "done"}]
    BY DEF HttpInv, HttpTypeOK
<1>7. HttpTypeOK'
    BY <1>2, <1>5, <1>6 DEF HttpInv, HttpTypeOK
<1>8. /\ r \notin ops /\ Len(answers[r]) = 0
      /\ \A i \in 1..Len(tasks) : tasks[i].kind = "start" => tasks[i].of # r
    BY <1>2 DEF HttpInv, Unanswered
<1>9. writer'[r] # "none" /\ \A q \in Requests \ {r} : writer'[q] = writer[q]
    BY <1>2, <1>6
<1>10. ASSUME NEW q \in Requests
       PROVE  /\ Len(answers'[q]) <= 1 /\ (writer'[q] = "none" => Len(answers'[q]) = 0)
              /\ Len(answers'[q]) = 0 /\ writer'[q] # "none" =>
                    q \in ops' \/ \E i \in 1..Len(tasks') : tasks'[i] = HTTP!Task("start", q)
    <2>1. CASE q = r
        <3>1. Len(tasks) + 1 \in 1..Len(tasks')
            BY <1>1, <1>5
        <3> QED
            BY <1>2, <1>3, <1>5, <1>8, <2>1, <3>1
    <2>2. CASE q # r
        BY <1>2, <1>5, <1>9, <2>2 DEF HttpInv, Unanswered
    <2> QED
        BY <2>1, <2>2
<1>11. \A q \in ops' : Len(answers'[q]) = 0 /\ writer'[q] # "none"
    BY <1>2, <1>8, <1>9 DEF HttpInv, HttpTypeOK, Unanswered
<1>12. ASSUME NEW i \in 1..Len(tasks'), tasks'[i].kind = "start"
       PROVE  /\ Len(answers'[tasks'[i].of]) = 0 /\ writer'[tasks'[i].of] # "none"
              /\ tasks'[i].of \notin ops' /\ \A j \in 1..(i - 1) : tasks'[j] # tasks'[i]
    <2>1. CASE i = Len(tasks) + 1
        <3>1. \A j \in 1..(i - 1) : tasks'[j] = tasks[j] /\ j \in 1..Len(tasks)
            BY <1>1, <1>5, <2>1
        <3>2. \A j \in 1..(i - 1) : tasks'[j] # t
            BY <1>4, <1>8, <3>1
        <3> QED
            BY <1>2, <1>4, <1>5, <1>8, <1>9, <2>1, <3>2
    <2>2. CASE i # Len(tasks) + 1
        <3>1. i \in 1..Len(tasks) /\ tasks'[i] = tasks[i] /\ \A j \in 1..(i - 1) : tasks'[j] = tasks[j]
            BY <1>1, <1>5, <2>2
        <3>2. PICK q \in Requests : q = tasks[i].of
            BY <1>1, <3>1
        <3>3. /\ Len(answers[q]) = 0 /\ writer[q] # "none" /\ q \notin ops
              /\ \A j \in 1..(i - 1) : tasks[j] # tasks[i]
            BY <1>12, <3>1, <3>2 DEF HttpInv, Unanswered
        <3> QED
            BY <1>2, <1>9, <3>1, <3>2, <3>3
    <2> QED
        BY <2>1, <2>2
<1> QED
    BY <1>7, <1>10, <1>11, <1>12, HttpTogether

\* An answer more.
LEMMA Answered ==
    ASSUME HttpInv, NEW r \in Requests, NEW a \in {"response", "error"}, HTTP!Answer(r, a),
           Len(answers[r]) = 0
    PROVE  /\ answers' \in [Requests -> Seq({"response", "error"})] /\ Len(answers'[r]) = 1
           /\ \A q \in Requests \ {r} : answers'[q] = answers[q]
<1>1. PICK s \in Seq({"response", "error"}) : s = answers[r] /\ Len(s) = 0
    BY DEF HttpInv, HttpTypeOK
<1>2. Append(s, a) \in Seq({"response", "error"}) /\ Len(Append(s, a)) = 0 + 1
    BY <1>1, AppendProperties
<1>3. answers \in [Requests -> Seq({"response", "error"})]
    BY DEF HttpInv, HttpTypeOK
<1>4. answers' = [answers EXCEPT ![r] = Append(s, a)]
    BY <1>1, <1>3 DEF HTTP!Answer
<1> QED
    BY <1>2, <1>3, <1>4

\* The thread takes a task: a request starts, or fails to.
LEMMA TaskKeeps ==
    ASSUME HttpInv, HTTP!RunTask
    PROVE  HttpInv'
<1>1. /\ tasks \in Seq(HttpTasks) /\ Len(tasks) \in Nat
      /\ \A i \in 1..Len(tasks) : /\ tasks[i] \in HttpTasks /\ tasks[i].of \in Requests
                                  /\ tasks[i] = HTTP!Task(tasks[i].kind, tasks[i].of)
    BY HttpRing
<1>2. /\ tasks # <<>> /\ tasks' = Tail(tasks) /\ UNCHANGED <<writer, result>>
    BY DEF HTTP!RunTask, HTTP!ownerVars
<1>3. /\ tasks' \in Seq(HttpTasks) /\ Len(tasks') = Len(tasks) - 1 /\ Head(tasks) = tasks[1]
      /\ \A i \in 1..Len(tasks') : tasks'[i] = tasks[i + 1] /\ i + 1 \in 1..Len(tasks)
      /\ 1 \in 1..Len(tasks)
    BY <1>1, <1>2, HeadTailProperties, EmptySeq
<1>4. PICK t \in HttpTasks, r \in Requests : t = tasks[1] /\ r = t.of /\ t = HTTP!Task(t.kind, r)
    BY <1>1, <1>3
<1>5. \/ t.kind = "start" /\ HTTP!Start(r)
      \/ t.kind # "start" /\ UNCHANGED <<ops, answers>>
    BY <1>3, <1>4 DEF HTTP!RunTask, HttpTasks
<1>6. /\ ops \subseteq Requests /\ answers \in [Requests -> Seq({"response", "error"})]
      /\ \A q \in ops : Len(answers[q]) = 0 /\ writer[q] # "none"
    BY DEF HttpInv, HttpTypeOK, Unanswered
<1>7. ASSUME t.kind = "start"
      PROVE  Len(answers[r]) = 0 /\ writer[r] # "none" /\ r \notin ops
    BY <1>3, <1>4, <1>7 DEF HttpInv, Unanswered
\* What is behind a start is not for the same request's start.
<1>8. ASSUME NEW i \in 1..Len(tasks'), tasks'[i].kind = "start"
      PROVE  /\ tasks'[i].of \in Requests /\ tasks'[i] # t
             /\ Len(answers[tasks'[i].of]) = 0 /\ writer[tasks'[i].of] # "none"
             /\ tasks'[i].of \notin ops /\ \A j \in 1..(i - 1) : tasks'[j] # tasks'[i]
             /\ t.kind = "start" => tasks'[i].of # r
    <2>1. /\ i + 1 \in 1..Len(tasks) /\ tasks'[i] = tasks[i + 1] /\ 1 \in 1..((i + 1) - 1)
          /\ \A j \in 1..(i - 1) : tasks'[j] = tasks[j + 1] /\ j + 1 \in 1..((i + 1) - 1)
        BY <1>1, <1>3
    <2>2. PICK k \in 1..Len(tasks) : k = i + 1
        BY <2>1
    <2>3. /\ Len(answers[tasks[k].of]) = 0 /\ writer[tasks[k].of] # "none" /\ tasks[k].of \notin ops
          /\ \A j \in 1..(k - 1) : tasks[j] # tasks[k]
        BY <1>8, <2>1, <2>2 DEF HttpInv, Unanswered
    <2>4. tasks[k] # t /\ \A j \in 1..(i - 1) : tasks'[j] # tasks'[i]
        BY <1>4, <2>1, <2>2, <2>3
    <2>5. tasks'[i] = tasks[k] /\ tasks[k].kind = "start" /\ tasks[k] = HTTP!Task("start", tasks[k].of)
        BY <1>1, <1>8, <2>1, <2>2
    <2>6. t.kind = "start" => tasks[k].of # r
        BY <1>4, <2>4, <2>5
    <2> QED
        BY <1>1, <2>3, <2>4, <2>5, <2>6
<1>9. ASSUME NEW q \in Requests, NEW i \in 1..Len(tasks), tasks[i] = HTTP!Task("start", q), tasks[i] # t
      PROVE  \E j \in 1..Len(tasks') : tasks'[j] = HTTP!Task("start", q)
    <2>1. i # 1 /\ i - 1 \in 1..Len(tasks') /\ (i - 1) + 1 = i
        BY <1>1, <1>3, <1>4, <1>9
    <2>2. tasks'[i - 1] = tasks[i]
        BY <1>3, <2>1
    <2> QED
        BY <1>9, <2>1, <2>2
<1>10. \A q \in Requests : /\ Len(answers[q]) <= 1 /\ (writer[q] = "none" => Len(answers[q]) = 0)
                           /\ Len(answers[q]) = 0 /\ writer[q] # "none" =>
                                q \in ops \/ \E i \in 1..Len(tasks) : tasks[i] = HTTP!Task("start", q)
    BY DEF HttpInv, Unanswered
<1>11. CASE t.kind # "start" /\ UNCHANGED <<ops, answers>>
    <2>1. HttpTypeOK'
        BY <1>2, <1>3, <1>11 DEF HttpInv, HttpTypeOK
    <2>2. \A q \in Requests : t # HTTP!Task("start", q)
        BY <1>11 DEF HTTP!Task
    <2>3. \A q \in Requests : (\E i \in 1..Len(tasks) : tasks[i] = HTTP!Task("start", q))
                              => \E j \in 1..Len(tasks') : tasks'[j] = HTTP!Task("start", q)
        BY <1>9, <2>2
    <2> QED
        BY <1>2, <1>6, <1>8, <1>10, <1>11, <2>1, <2>3, HttpTogether
<1>12. CASE t.kind = "start" /\ HTTP!Start(r)
    <2>1. \/ ops' = ops \cup {r} /\ answers' = answers
          \/ HTTP!Answer(r, "error") /\ ops' = ops
        BY <1>12 DEF HTTP!Start
    <2>2. /\ answers' \in [Requests -> Seq({"response", "error"})]
          /\ \A q \in Requests \ {r} : answers'[q] = answers[q]
          /\ Len(answers'[r]) <= 1 /\ (Len(answers'[r]) = 0 => r \in ops') /\ writer[r] # "none"
          /\ \A q \in ops' : Len(answers'[q]) = 0
          /\ ops' \subseteq Requests /\ \A q \in Requests \ {r} : q \in ops' <=> q \in ops
        <3>1. CASE ops' = ops \cup {r} /\ answers' = answers
            BY <1>6, <1>7, <1>12, <3>1
        <3>2. CASE HTTP!Answer(r, "error") /\ ops' = ops
            <4>1. /\ answers' \in [Requests -> Seq({"response", "error"})] /\ Len(answers'[r]) = 1
                  /\ \A q \in Requests \ {r} : answers'[q] = answers[q]
                BY <1>7, <1>12, <3>2, Answered
            <4> QED
                BY <1>6, <1>7, <1>12, <3>2, <4>1
        <3> QED
            BY <2>1, <3>1, <3>2
    <2>3. HttpTypeOK'
        BY <1>2, <1>3, <2>2 DEF HttpInv, HttpTypeOK
    <2>4. ASSUME NEW q \in Requests
          PROVE  /\ Len(answers'[q]) <= 1 /\ (writer'[q] = "none" => Len(answers'[q]) = 0)
                 /\ Len(answers'[q]) = 0 /\ writer'[q] # "none" =>
                        q \in ops' \/ \E i \in 1..Len(tasks') : tasks'[i] = HTTP!Task("start", q)
        <3>1. CASE q = r
            BY <1>2, <2>2, <3>1
        <3>2. CASE q # r
            <4>1. t # HTTP!Task("start", q)
                BY <1>4, <3>2 DEF HTTP!Task
            <4> QED
                BY <1>2, <1>9, <1>10, <2>2, <3>2, <4>1
        <3> QED
            BY <3>1, <3>2
    <2>5. \A q \in ops' : Len(answers'[q]) = 0 /\ writer'[q] # "none"
        BY <1>2, <1>6, <2>2
    <2>6. \A i \in 1..Len(tasks') : tasks'[i].kind = "start" =>
              /\ Len(answers'[tasks'[i].of]) = 0 /\ writer'[tasks'[i].of] # "none"
              /\ tasks'[i].of \notin ops' /\ \A j \in 1..(i - 1) : tasks'[j] # tasks'[i]
        BY <1>2, <1>8, <1>12, <2>2
    <2> QED
        BY <2>3, <2>4, <2>5, <2>6, HttpTogether
<1> QED
    BY <1>5, <1>11, <1>12

\* A request that is over is answered and forgotten.
LEMMA InfoKeeps ==
    ASSUME HttpInv, NEW r \in Requests, HTTP!Info(r)
    PROVE  HttpInv'
<1>1. /\ tasks \in Seq(HttpTasks) /\ Len(tasks) \in Nat
      /\ \A i \in 1..Len(tasks) : tasks[i].of \in Requests
    BY HttpRing
<1>2. /\ r \in ops /\ result[r] # "none" /\ ops' = ops \ {r} /\ UNCHANGED <<writer, tasks, result>>
      /\ HTTP!Answer(r, IF r \in cancelled THEN "error" ELSE result[r])
    BY DEF HTTP!Info, HTTP!ownerVars
<1>3. Len(answers[r]) = 0 /\ writer[r] # "none"
    BY <1>2 DEF HttpInv, Unanswered
<1>4. PICK a \in {"response", "error"} : a = IF r \in cancelled THEN "error" ELSE result[r]
    BY <1>2 DEF HttpInv, HttpTypeOK
<1>5. /\ answers' \in [Requests -> Seq({"response", "error"})] /\ Len(answers'[r]) = 1
      /\ \A q \in Requests \ {r} : answers'[q] = answers[q]
    BY <1>2, <1>3, <1>4, Answered
<1>6. HttpTypeOK'
    BY <1>2, <1>5 DEF HttpInv, HttpTypeOK
<1>7. ASSUME NEW i \in 1..Len(tasks'), tasks'[i].kind = "start"
      PROVE  /\ Len(answers'[tasks'[i].of]) = 0 /\ writer'[tasks'[i].of] # "none"
             /\ tasks'[i].of \notin ops' /\ \A j \in 1..(i - 1) : tasks'[j] # tasks'[i]
    <2>1. PICK q \in Requests : q = tasks[i].of
        BY <1>1, <1>2
    <2>2. /\ Len(answers[q]) = 0 /\ writer[q] # "none" /\ q \notin ops
          /\ \A j \in 1..(i - 1) : tasks[j] # tasks[i]
        BY <1>2, <1>7, <2>1 DEF HttpInv, Unanswered
    <2> QED
        BY <1>2, <1>5, <2>1, <2>2
<1>8. ASSUME NEW q \in Requests
      PROVE  /\ Len(answers'[q]) <= 1 /\ (writer'[q] = "none" => Len(answers'[q]) = 0)
             /\ Len(answers'[q]) = 0 /\ writer'[q] # "none" =>
                    q \in ops' \/ \E i \in 1..Len(tasks') : tasks'[i] = HTTP!Task("start", q)
             /\ q \in ops' => Len(answers'[q]) = 0 /\ writer'[q] # "none"
    <2>1. CASE q = r
        <3>1. Len(answers'[q]) = 1 /\ q \notin ops' /\ writer'[q] # "none"
            BY <1>2, <1>3, <1>5, <2>1
        <3> QED
            BY <3>1
    <2>2. CASE q # r
        BY <1>2, <1>5, <2>2 DEF HttpInv, Unanswered
    <2> QED
        BY <2>1, <2>2
<1>9. \A q \in ops' : q \in Requests
    BY <1>6 DEF HttpTypeOK
<1> QED
    BY <1>6, <1>7, <1>8, <1>9, HttpTogether

\* The thread ends, and what curl still had fails.
LEMMA HttpEndKeeps ==
    ASSUME HttpInv, HTTP!End
    PROVE  HttpInv'
<1>1. /\ tasks \in Seq(HttpTasks) /\ Len(tasks) \in Nat
      /\ \A i \in 1..Len(tasks) : tasks[i].of \in Requests
    BY HttpRing
<1>2. /\ ops' = {} /\ UNCHANGED <<writer, tasks, result>>
      /\ answers' = [r \in Requests |-> IF r \in ops THEN Append(answers[r], "error") ELSE answers[r]]
    BY DEF HTTP!End, HTTP!ownerVars
<1>3. ASSUME NEW r \in Requests
      PROVE  /\ answers'[r] \in Seq({"response", "error"}) /\ Len(answers'[r]) <= 1
             /\ r \notin ops => answers'[r] = answers[r]
             /\ r \in ops => Len(answers'[r]) = 1 /\ writer[r] # "none"
    <2>1. PICK s \in Seq({"response", "error"}) : s = answers[r] /\ Len(s) <= 1
        BY DEF HttpInv, HttpTypeOK
    <2>2. CASE r \in ops
        <3>1. Len(s) = 0 /\ writer[r] # "none"
            BY <2>1, <2>2 DEF HttpInv, Unanswered
        <3>2. Append(s, "error") \in Seq({"response", "error"}) /\ Len(Append(s, "error")) = 0 + 1
            BY <3>1, AppendProperties
        <3> QED
            BY <1>2, <2>1, <2>2, <3>1, <3>2
    <2>3. CASE r \notin ops
        BY <1>2, <2>1, <2>3
    <2> QED
        BY <2>2, <2>3
<1>4. HttpTypeOK'
    <2>1. answers' \in [Requests -> Seq({"response", "error"})]
        BY <1>2, <1>3
    <2> QED
        BY <1>2, <2>1 DEF HttpInv, HttpTypeOK
<1>5. ASSUME NEW i \in 1..Len(tasks'), tasks'[i].kind = "start"
      PROVE  /\ Len(answers'[tasks'[i].of]) = 0 /\ writer'[tasks'[i].of] # "none"
             /\ tasks'[i].of \notin ops' /\ \A j \in 1..(i - 1) : tasks'[j] # tasks'[i]
    <2>1. PICK q \in Requests : q = tasks[i].of
        BY <1>1, <1>2
    <2>2. /\ Len(answers[q]) = 0 /\ writer[q] # "none" /\ q \notin ops
          /\ \A j \in 1..(i - 1) : tasks[j] # tasks[i]
        BY <1>2, <1>5, <2>1 DEF HttpInv, Unanswered
    <2> QED
        BY <1>2, <1>3, <2>1, <2>2
<1>6. ASSUME NEW q \in Requests
      PROVE  /\ Len(answers'[q]) <= 1 /\ (writer'[q] = "none" => Len(answers'[q]) = 0)
             /\ Len(answers'[q]) = 0 /\ writer'[q] # "none" =>
                    q \in ops' \/ \E i \in 1..Len(tasks') : tasks'[i] = HTTP!Task("start", q)
    <2>1. CASE q \in ops
        BY <1>2, <1>3, <2>1
    <2>2. CASE q \notin ops
        BY <1>2, <1>3, <2>2 DEF HttpInv, Unanswered
    <2> QED
        BY <2>1, <2>2
<1> QED
    BY <1>2, <1>4, <1>5, <1>6, HttpTogether

LEMMA HttpKeeps ==
    ASSUME HttpInv, [HTTP!Next]_HTTP!vars
    PROVE  HttpInv'
<1>0. /\ writer \in [Requests -> {"none", "open", "enqueue", "resume", "done"}]
      /\ result \in [Requests -> {"none", "response", "error"}]
    BY DEF HttpInv, HttpTypeOK
<1>1. CASE UNCHANGED HTTP!vars
    BY <1>0, <1>1, HttpWaits DEF HTTP!vars, HTTP!ownerVars, HTTP!curlVars
<1>2. CASE \/ HTTP!TasksDone \/ HTTP!ReadEnd \/ HTTP!Performed \/ HTTP!InfoDone \/ HTTP!Poll
           \/ HTTP!Load \/ HTTP!Unload
           \/ \E r \in Requests : HTTP!ReadChunk(r) \/ HTTP!ReadNothing(r) \/ HTTP!Cancel(r)
    <2>1. UNCHANGED <<writer, tasks, ops, answers, result>>
        BY <1>2 DEF HTTP!TasksDone, HTTP!ReadEnd, HTTP!Performed, HTTP!InfoDone, HTTP!Poll, HTTP!Load,
            HTTP!Unload, HTTP!ReadChunk, HTTP!ReadNothing, HTTP!Cancel, HTTP!Idle, HTTP!ownerVars,
            HTTP!curlVars
    <2> QED
        BY <1>0, <2>1, HttpWaits
<1>3. CASE \E r \in Requests : HTTP!Transferred(r)
    <2>1. UNCHANGED <<writer, tasks, ops, answers>> /\ result' \in [Requests -> {"none", "response", "error"}]
        BY <1>0, <1>3 DEF HTTP!Transferred, HTTP!ownerVars
    <2> QED
        BY <1>0, <2>1, HttpWaits
<1>4. ASSUME NEW r \in Requests,
             HTTP!Write(r) \/ HTTP!Chunk(r) \/ HTTP!Resume(r) \/ HTTP!Finish(r)
      PROVE  HttpInv'
    <2>1. writer[r] # "none" /\ UNCHANGED <<ops, answers, result>>
        BY <1>4 DEF HTTP!Write, HTTP!Chunk, HTTP!Resume, HTTP!Finish, HTTP!curlVars
    <2>2. \E l \in {"open", "enqueue", "resume", "done"} : writer' = [writer EXCEPT ![r] = l]
        BY <1>4 DEF HTTP!Write, HTTP!Chunk, HTTP!Resume, HTTP!Finish, HTTP!Goto
    <2>3. /\ writer' \in [Requests -> {"none", "open", "enqueue", "resume", "done"}]
          /\ \A q \in Requests : writer'[q] = "none" <=> writer[q] = "none"
        BY <1>0, <2>1, <2>2
    <2>4. tasks' = tasks \/ \E k \in {"resume", "finish"} : tasks' = Append(tasks, HTTP!Task(k, r))
        BY <1>4 DEF HTTP!Write, HTTP!Chunk, HTTP!Resume, HTTP!Finish, HTTP!Run
    <2> QED
        BY <1>0, <2>1, <2>3, <2>4, HttpWaits
<1>5. CASE HTTP!RunTask
    BY <1>5, TaskKeeps
<1>6. CASE HTTP!End
    BY <1>6, HttpEndKeeps
<1>7. CASE \E r \in Requests : HTTP!Request(r) \/ HTTP!Info(r)
    BY <1>7, RequestKeeps, InfoKeeps
<1> QED
    BY <1>1, <1>2, <1>3, <1>4, <1>5, <1>6, <1>7 DEF HTTP!Next, HTTP!Worker, HTTP!Call

LEMMA HttpInitially == HTTP!Init => HttpInv
<1> SUFFICES ASSUME HTTP!Init PROVE HttpInv
    OBVIOUS
<1>1. <<>> \in Seq(HttpTasks) /\ <<>> \in Seq({"response", "error"}) /\ Len(<<>>) = 0
    BY EmptySeq
<1>2. HttpTypeOK
    BY <1>1 DEF HTTP!Init, HttpTypeOK
<1> QED
    BY <1>1, <1>2 DEF HTTP!Init, HttpInv, Unanswered

LEMMA HttpInvOnce == HttpInv => HTTP!AnsweredOnce
<1> SUFFICES ASSUME HttpInv PROVE HTTP!AnsweredOnce
    OBVIOUS
<1>1. \A r \in Requests : Len(answers[r]) <= 1
    BY DEF HttpInv
<1>2. ASSUME NEW r \in Requests, Len(answers[r]) = 1
      PROVE  r \notin ops
    <2>1. r \in ops => Len(answers[r]) = 0
        BY DEF HttpInv, Unanswered
    <2>2. Len(answers[r]) # 0
        BY <1>2
    <2> QED
        BY <2>1, <2>2
<1>3. ASSUME NEW r \in Requests, Len(answers[r]) = 0, writer[r] # "none", r \notin ops
      PROVE  \E i \in 1..Len(tasks) : tasks[i] = HTTP!Task("start", r)
    BY <1>3 DEF HttpInv, Unanswered
<1> QED
    BY <1>1, <1>2, <1>3 DEF HTTP!AnsweredOnce
-----------------------------------------------------------------------------
(* The audio.                                                              *)

\* The devices: where the module's signals find a slot, whoever follows DefaultChange knows the
\* default if it is there.
DevicesInv == /\ list \in [A!Devices -> Seq(A!Names)]
              /\ memory \in [A!Devices -> [size : Nat, moves : Nat]]
              /\ default \in [A!Devices -> A!Names \cup {"none"}]
              /\ said \in [A!Devices -> A!Names \cup {"none"}]
              /\ slot => \A d \in A!Devices : \A i \in 1..Len(list[d]) :
                    default[d] # "none" /\ list[d][i] = default[d] => said[d] = default[d]

\* The streams, also between the halves of a reactivate.
StreamsInv == /\ active \in [A!Devices -> [at : Nat, move : Nat]]
              /\ status \in [A!Devices -> {"Opened", "Closed"}]
              /\ told \in [A!Devices -> {"Activate", "Deactivate"}]
              /\ midway \in A!Devices \cup {"none"}
              /\ A!ToldStatus /\ A!Stoppable

CallsInv == slot \in BOOLEAN /\ over \in BOOLEAN /\ invoked \in Seq(A!Calls)

AudioInv == DevicesInv /\ StreamsInv /\ CallsInv /\ A!Unheard

LEMMA Least ==
    ASSUME NEW T, T \subseteq Nat, T # {}
    PROVE  \E n \in T : \A m \in T : n <= m
<1>1. PICK n \in T : \A m \in T : ~ (<<m, n>> \in OpToRel(<, Nat))
    BY NatLessThanWellFounded, WFMin
<1>2. \A m \in T : ~ (m < n)
    BY <1>1 DEF OpToRel
<1> QED
    BY <1>2

\* Where _find_device finds a name.
LEMMA PositionFound ==
    ASSUME NEW S, NEW l \in Seq(S), NEW name
    PROVE  /\ A!Position(l, name) \in 0..Len(l)
           /\ A!Position(l, name) = 0 => \A i \in 1..Len(l) : l[i] # name
           /\ A!Position(l, name) # 0 => l[A!Position(l, name)] = name
<1> DEFINE I == {i \in 1..Len(l) : l[i] = name}
<1>1. A!Position(l, name) = IF I # {} THEN A!Min(I) ELSE 0
    BY DEF A!Position, A!SelectInSeq
<1>2. Len(l) \in Nat /\ I \subseteq Nat
    OBVIOUS
<1>3. I # {} => A!Min(I) \in I
    BY <1>2, Least DEF A!Min
<1> QED
    BY <1>1, <1>2, <1>3

\* What is left of a sequence when an element is taken out.
LEMMA OneOut ==
    ASSUME NEW S, NEW s \in Seq(S), NEW k \in 1..Len(s)
    PROVE  /\ A!RemoveAt(s, k) \in Seq(S)
           /\ \A i \in 1..Len(A!RemoveAt(s, k)) : \E j \in 1..Len(s) : A!RemoveAt(s, k)[i] = s[j]
<1>1. PICK n \in Nat : n = Len(s)
    BY LenProperties
<1>2. k \in Nat /\ k >= 1 /\ k <= n
    BY <1>1
<1>3. \A i \in 1..n : s[i] \in S
    BY <1>1, ElementOfSeq
<1>4. PICK a, b : a = SubSeq(s, 1, k - 1) /\ b = SubSeq(s, k + 1, n)
    OBVIOUS
<1>5. /\ a \in Seq(S) /\ Len(a) = k - 1 /\ \A i \in 1..(k - 1) : a[i] = s[i]
    <2>1. \A i \in 1..(k - 1) : s[i] \in S
        BY <1>2, <1>3
    <2>2. k - 1 \in Int /\ 1 \in Int
        BY <1>2
    <2>3. /\ a \in Seq(S) /\ Len(a) = IF 1 <= k - 1 THEN (k - 1) - 1 + 1 ELSE 0
          /\ \A i \in 1..((k - 1) - 1 + 1) : a[i] = s[1 + i - 1]
        BY <1>4, <2>1, <2>2, SubSeqProperties
    <2> QED
        BY <1>2, <2>3
<1>6. /\ b \in Seq(S) /\ Len(b) = n - k /\ \A i \in 1..(n - k) : b[i] = s[k + i]
    <2>1. \A i \in (k + 1)..n : s[i] \in S
        BY <1>2, <1>3
    <2>2. k + 1 \in Int /\ n \in Int
        BY <1>2
    <2>3. /\ b \in Seq(S) /\ Len(b) = IF k + 1 <= n THEN n - (k + 1) + 1 ELSE 0
          /\ \A i \in 1..(n - (k + 1) + 1) : b[i] = s[(k + 1) + i - 1]
        BY <1>4, <2>1, <2>2, SubSeqProperties
    <2>4. n - (k + 1) + 1 = n - k /\ \A i \in 1..(n - k) : (k + 1) + i - 1 = k + i
        BY <1>2
    <2> QED
        BY <1>2, <2>3, <2>4
<1>7. A!RemoveAt(s, k) = a \o b
    BY <1>1, <1>4 DEF A!RemoveAt
<1>8. PICK r : r = a \o b
    OBVIOUS
<1>9. /\ r \in Seq(S) /\ Len(r) = (k - 1) + (n - k)
      /\ \A i \in 1..((k - 1) + (n - k)) : r[i] = IF i <= k - 1 THEN a[i] ELSE b[i - (k - 1)]
    <2>1. /\ r \in Seq(S) /\ Len(r) = Len(a) + Len(b)
          /\ \A i \in 1..(Len(a) + Len(b)) : r[i] = IF i <= Len(a) THEN a[i] ELSE b[i - Len(a)]
        BY <1>5, <1>6, <1>8, ConcatProperties
    <2>2. Len(a) = k - 1 /\ Len(b) = n - k
        BY <1>5, <1>6
    <2> QED
        BY <2>1, <2>2
<1>10. ASSUME NEW i \in 1..Len(r)
       PROVE  \E j \in 1..Len(s) : r[i] = s[j]
    <2>1. CASE i <= k - 1
        <3>1. i \in 1..(k - 1) /\ i \in 1..n
            BY <1>2, <2>1, <1>9
        <3> QED
            BY <1>1, <1>5, <1>9, <2>1, <3>1
    <2>2. CASE ~ (i <= k - 1)
        <3>1. i - (k - 1) \in 1..(n - k) /\ k + (i - (k - 1)) \in 1..n
            BY <1>2, <2>2, <1>9
        <3> QED
            BY <1>1, <1>6, <1>9, <2>2, <3>1
    <2> QED
        BY <2>1, <2>2
<1> QED
    BY <1>7, <1>8, <1>9, <1>10

-----------------------------------------------------------------------------
(* Steps and the parts of the invariant.                                   *)

LEMMA DevicesRest ==
    ASSUME DevicesInv, UNCHANGED <<list, memory, default, said, slot>>
    PROVE  DevicesInv'
BY DEF DevicesInv

\* A device appears, or a node with the name of one that is there.
LEMMA AppearKeeps ==
    ASSUME DevicesInv, NEW n \in Nodes, A!Appear(n)
    PROVE  DevicesInv'
<1>1. PICK d \in A!Devices, name \in A!Names : d = DeviceOf[n] /\ name = NameOf[n]
    BY AudioAssumption DEF A!Devices, A!Names
<1>2. PICK l \in Seq(A!Names) : l = list[d]
    BY DEF DevicesInv
<1>3. /\ default' = default /\ slot' = slot
      /\ said' = IF slot /\ default[d] = name THEN [said EXCEPT ![d] = name] ELSE said
    BY <1>1 DEF A!Appear, A!Say
<1>4. \/ list' = list /\ memory' = memory
      \/ /\ list' = [list EXCEPT ![d] = Append(l, name)]
         /\ \E s \in Nat, m \in Nat : memory' = [memory EXCEPT ![d] = [size |-> s, moves |-> m]]
    <2>1. CASE A!Position(l, name) > 0
        BY <1>1, <1>2, <2>1 DEF A!Appear
    <2>2. CASE ~ (A!Position(l, name) > 0)
        <3>1. list' = [list EXCEPT ![d] = Append(l, name)]
            BY <1>1, <1>2, <2>2 DEF A!Appear, DevicesInv
        <3>2. PICK m \in [size : Nat, moves : Nat] : m = memory[d]
            BY DEF DevicesInv
        <3>3. memory' = [memory EXCEPT
                  ![d] = [size |-> IF Len(l) = m.size THEN (IF m.size = 0 THEN 1 ELSE 2 * m.size)
                                   ELSE m.size,
                          moves |-> m.moves + IF Len(l) = m.size THEN 1 ELSE 0]]
            BY <1>1, <1>2, <2>2, <3>2 DEF A!Appear, DevicesInv
        <3>4. (IF Len(l) = m.size THEN (IF m.size = 0 THEN 1 ELSE 2 * m.size) ELSE m.size) \in Nat
            BY <3>2
        <3>5. m.moves + (IF Len(l) = m.size THEN 1 ELSE 0) \in Nat
            BY <3>2
        <3> QED
            BY <3>1, <3>3, <3>4, <3>5
    <2> QED
        BY <2>1, <2>2
<1>5. Append(l, name) \in Seq(A!Names) /\ Len(Append(l, name)) = Len(l) + 1
      /\ Append(l, name)[Len(l) + 1] = name /\ \A i \in 1..Len(l) : Append(l, name)[i] = l[i]
    BY AppendProperties
<1>6. /\ list' \in [A!Devices -> Seq(A!Names)] /\ memory' \in [A!Devices -> [size : Nat, moves : Nat]]
      /\ default' \in [A!Devices -> A!Names \cup {"none"}]
      /\ said' \in [A!Devices -> A!Names \cup {"none"}]
    <2>1. list' \in [A!Devices -> Seq(A!Names)]
        BY <1>4, <1>5 DEF DevicesInv
    <2>2. memory \in [A!Devices -> [size : Nat, moves : Nat]]
        BY DEF DevicesInv
    <2>3. ASSUME NEW s \in Nat, NEW m \in Nat, memory' = [memory EXCEPT ![d] = [size |-> s, moves |-> m]]
          PROVE  memory' \in [A!Devices -> [size : Nat, moves : Nat]]
        BY <2>2, <2>3
    <2>4. memory' \in [A!Devices -> [size : Nat, moves : Nat]]
        BY <1>4, <2>2, <2>3
    <2> QED
        BY <1>3, <2>1, <2>4 DEF DevicesInv
<1>7. ASSUME slot, NEW e \in A!Devices, NEW i \in 1..Len(list'[e]), default'[e] # "none",
             list'[e][i] = default'[e]
      PROVE  said'[e] = default'[e]
    <2>1. CASE e = d /\ default[d] = name
        BY <1>3, <1>7, <2>1 DEF DevicesInv
    <2>2. CASE ~ (e = d /\ default[d] = name)
        <3>1. said'[e] = said[e] /\ default'[e] = default[e]
            BY <1>3, <2>2 DEF DevicesInv
        <3>2. i \in 1..Len(list[e]) /\ list'[e][i] = list[e][i]
            <4>1. CASE list'[e] = list[e]
                BY <4>1
            <4>2. CASE list'[e] # list[e]
                <5>1. e = d /\ list'[e] = Append(l, name) /\ list[e] = l
                    BY <1>2, <1>4, <4>2 DEF DevicesInv
                <5>2. i \in 1..Len(l)
                    BY <1>3, <1>5, <1>7, <2>2, <5>1
                <5> QED
                    BY <1>5, <5>1, <5>2
            <4> QED
                BY <4>1, <4>2
        <3> QED
            BY <1>7, <3>1, <3>2 DEF DevicesInv
    <2> QED
        BY <2>1, <2>2
<1> QED
    BY <1>3, <1>6, <1>7 DEF DevicesInv

\* A node goes, and with it the device that its pointer reads now.
LEMMA VanishKeeps ==
    ASSUME DevicesInv, NEW n \in Nodes, A!Vanish(n)
    PROVE  DevicesInv'
<1>1. PICK d \in A!Devices : d = DeviceOf[n]
    BY AudioAssumption DEF A!Devices
<1>2. PICK l \in Seq(A!Names) : l = list[d]
    BY DEF DevicesInv
<1>3. UNCHANGED <<memory, default, said, slot>>
    BY DEF A!Vanish
<1>4. PICK name : list' = IF A!Position(l, name) = 0 THEN list
                          ELSE [list EXCEPT ![d] = A!RemoveAt(l, A!Position(l, name))]
    BY <1>1, <1>2 DEF A!Vanish, DevicesInv
<1>5. CASE A!Position(l, name) = 0
    BY <1>3, <1>4, <1>5, DevicesRest
<1>6. CASE A!Position(l, name) # 0
    <2>1. PICK k \in 1..Len(l) : k = A!Position(l, name)
        BY <1>6, PositionFound
    <2>2. PICK r \in Seq(A!Names) : /\ r = A!RemoveAt(l, k)
                                    /\ \A i \in 1..Len(r) : \E j \in 1..Len(l) : r[i] = l[j]
        BY OneOut
    <2>3. list' = [list EXCEPT ![d] = r]
        BY <1>4, <1>6, <2>1, <2>2
    <2>4. list' \in [A!Devices -> Seq(A!Names)]
        BY <2>3 DEF DevicesInv
    <2>5. ASSUME NEW e \in A!Devices, NEW i \in 1..Len(list'[e])
          PROVE  \E j \in 1..Len(list[e]) : list'[e][i] = list[e][j]
        <3>1. CASE e = d
            <4>1. list'[e] = r /\ list[e] = l
                BY <1>2, <2>3, <3>1 DEF DevicesInv
            <4> QED
                BY <2>2, <4>1
        <3>2. CASE e # d
            <4>1. list'[e] = list[e]
                BY <2>3, <3>2 DEF DevicesInv
            <4> QED
                BY <4>1
        <3> QED
            BY <3>1, <3>2
    <2>6. ASSUME slot, NEW e \in A!Devices, NEW i \in 1..Len(list'[e]),
                 default'[e] # "none", list'[e][i] = default'[e]
          PROVE  said'[e] = default'[e]
        <3>1. PICK j \in 1..Len(list[e]) : list'[e][i] = list[e][j]
            BY <2>5
        <3> QED
            BY <1>3, <2>6, <3>1 DEF DevicesInv
    <2> QED
        BY <1>3, <2>4, <2>6 DEF DevicesInv
<1> QED
    BY <1>5, <1>6

LEMMA DefaultKeeps ==
    ASSUME DevicesInv, NEW d \in A!Devices, NEW name \in A!Names, A!Default(d, name)
    PROVE  DevicesInv'
<1>1. PICK l \in Seq(A!Names) : l = list[d]
    BY DEF DevicesInv
<1>2. /\ UNCHANGED <<list, memory, slot>> /\ default' = [default EXCEPT ![d] = name]
      /\ said' = IF slot /\ A!Position(l, name) > 0 THEN [said EXCEPT ![d] = name] ELSE said
    BY <1>1 DEF A!Default, A!Say
<1>3. ASSUME NEW i \in 1..Len(l), l[i] = name
      PROVE  A!Position(l, name) > 0
    BY <1>3, PositionFound
<1>4. /\ default' \in [A!Devices -> A!Names \cup {"none"}]
      /\ said' \in [A!Devices -> A!Names \cup {"none"}]
    BY <1>2 DEF DevicesInv
<1>5. ASSUME slot, NEW e \in A!Devices, NEW i \in 1..Len(list[e]), default'[e] # "none",
             list[e][i] = default'[e]
      PROVE  said'[e] = default'[e]
    <2>1. CASE e = d
        <3>1. default'[e] = name /\ list[e] = l
            BY <1>1, <1>2, <2>1 DEF DevicesInv
        <3>2. said' = [said EXCEPT ![d] = name]
            BY <1>2, <1>3, <1>5, <3>1
        <3> QED
            BY <2>1, <3>1, <3>2 DEF DevicesInv
    <2>2. CASE e # d
        BY <1>2, <1>5, <2>2 DEF DevicesInv
    <2> QED
        BY <2>1, <2>2
<1> QED
    BY <1>2, <1>4, <1>5 DEF DevicesInv

-----------------------------------------------------------------------------

LEMMA StreamsRest ==
    ASSUME StreamsInv, UNCHANGED <<active, status, told, slot>>,
           midway' \in A!Devices \cup {"none"}
    PROVE  StreamsInv'
BY DEF StreamsInv, A!ToldStatus, A!Stoppable, A!Null

\* A stream starts: the device is active and the listeners are told.
LEMMA StartKeeps ==
    ASSUME StreamsInv, DevicesInv, NEW d \in A!Devices, NEW f, NEW i \in Nat \ {0},
           active' = [active EXCEPT ![d] = A!Pointer(d, i)], A!Start(d, f), A!Tell(d, "Activate"),
           midway' \in A!Devices \cup {"none"}, slot' = slot
    PROVE  StreamsInv'
<1>1. A!Pointer(d, i) \in [at : Nat, move : Nat] /\ A!Pointer(d, i) # A!Null
    BY DEF DevicesInv, A!Pointer, A!Null
<1>2. /\ status' = [status EXCEPT ![d] = "Opened"]
      /\ told' = IF slot THEN [told EXCEPT ![d] = "Activate"] ELSE told
    BY DEF A!Start, A!Tell
<1>3. \A e \in A!Devices :
          /\ e = d => active'[e] # A!Null /\ status'[e] = "Opened" /\ (slot => told'[e] = "Activate")
          /\ e # d => active'[e] = active[e] /\ status'[e] = status[e] /\ told'[e] = told[e]
    BY <1>1, <1>2 DEF StreamsInv
<1>4. (A!ToldStatus /\ A!Stoppable)'
    BY <1>3 DEF StreamsInv, A!ToldStatus, A!Stoppable, A!Null
<1> QED
    BY <1>1, <1>2, <1>4 DEF StreamsInv

\* A stream stops, whether its device stays active or not.
LEMMA StopKeeps ==
    ASSUME StreamsInv, NEW d \in A!Devices,
           active' = active \/ active' = [active EXCEPT ![d] = A!Null],
           A!Stop(d), A!Tell(d, "Deactivate"), midway' \in A!Devices \cup {"none"}, slot' = slot
    PROVE  StreamsInv'
<1>1. A!Null \in [at : Nat, move : Nat]
    BY DEF A!Null
<1>2. /\ status' = [status EXCEPT ![d] = "Closed"]
      /\ told' = IF slot THEN [told EXCEPT ![d] = "Deactivate"] ELSE told
    BY DEF A!Stop, A!Tell
<1>3. \A e \in A!Devices :
          /\ e = d => status'[e] = "Closed" /\ (slot => told'[e] = "Deactivate")
          /\ e # d => active'[e] = active[e] /\ status'[e] = status[e] /\ told'[e] = told[e]
    BY <1>2 DEF StreamsInv
<1>4. (A!ToldStatus /\ A!Stoppable)'
    BY <1>3 DEF StreamsInv, A!ToldStatus, A!Stoppable, A!Null
<1>5. active' \in [A!Devices -> [at : Nat, move : Nat]]
    BY <1>1 DEF StreamsInv
<1> QED
    BY <1>2, <1>4, <1>5 DEF StreamsInv

LEMMA ActivateKeeps ==
    ASSUME StreamsInv, DevicesInv, NEW d \in A!Devices, NEW name, NEW f, A!Activate(d, name, f),
           midway' \in A!Devices \cup {"none"}, slot' = slot
    PROVE  StreamsInv'
<1>1. PICK i \in Nat : i = A!Position(list[d], name)
    <2>1. list[d] \in Seq(A!Names)
        BY DEF DevicesInv
    <2> QED
        BY <2>1, PositionFound
<1>2. \/ UNCHANGED <<active, status, told>>
      \/ /\ i > 0 /\ active' = [active EXCEPT ![d] = A!Pointer(d, i)]
         /\ A!Start(d, f) /\ A!Tell(d, "Activate")
    BY <1>1 DEF A!Activate
<1>3. CASE UNCHANGED <<active, status, told>>
    BY <1>3, StreamsRest
<1>4. CASE /\ i > 0 /\ active' = [active EXCEPT ![d] = A!Pointer(d, i)]
           /\ A!Start(d, f) /\ A!Tell(d, "Activate")
    <2>1. i \in Nat \ {0}
        BY <1>4
    <2> QED
        BY <1>4, <2>1, StartKeeps
<1> QED
    BY <1>2, <1>3, <1>4

LEMMA DeactivateKeeps ==
    ASSUME StreamsInv, NEW d \in A!Devices, A!Deactivate(d), midway' \in A!Devices \cup {"none"},
           slot' = slot
    PROVE  StreamsInv'
BY StreamsRest, StopKeeps DEF A!Deactivate

LEMMA ReactivateKeeps ==
    ASSUME StreamsInv, NEW d \in A!Devices, A!Reactivate(d), active' = active, slot' = slot
    PROVE  StreamsInv'
<1>1. midway \in A!Devices \cup {"none"}
    BY DEF StreamsInv
<1> QED
    BY <1>1, StreamsRest, StopKeeps DEF A!Reactivate

\* The second half of a reactivate.
LEMMA ResumeKeeps ==
    ASSUME StreamsInv, DevicesInv, NEW f, A!Resume(f)
    PROVE  StreamsInv'
<1>1. PICK d \in A!Devices : d = midway
    BY DEF A!Resume, StreamsInv
<1>2. midway' = "none" /\ slot' = slot
    BY DEF A!Resume
<1>3. PICK name : LET i == A!Position(list[d], name)
                  IN  IF i = 0 THEN UNCHANGED <<active, status, float32, told, over>>
                      ELSE /\ active' = [active EXCEPT ![d] = A!Pointer(d, i)]
                           /\ A!Start(d, f)
                           /\ A!Tell(d, "Activate")
    BY <1>1 DEF A!Resume
<1>4. PICK i \in Nat : i = A!Position(list[d], name)
    <2>1. list[d] \in Seq(A!Names)
        BY DEF DevicesInv
    <2> QED
        BY <2>1, PositionFound
<1>5. CASE i = 0
    BY <1>2, <1>3, <1>4, <1>5, StreamsRest
<1>6. CASE i # 0
    BY <1>2, <1>3, <1>4, <1>6, StartKeeps
<1> QED
    BY <1>5, <1>6

-----------------------------------------------------------------------------

LEMMA CallsKnown ==
    ASSUME NEW c \in A!Calls
    PROVE  c.op \in {"activate", "deactivate", "reactivate"} => c.d \in A!Devices
BY DEF A!Calls

LEMMA ExecuteKeeps ==
    ASSUME AudioInv, A!Execute
    PROVE  DevicesInv' /\ StreamsInv' /\ CallsInv'
<1>1. invoked \in Seq(A!Calls) /\ DevicesInv /\ StreamsInv /\ midway \in A!Devices \cup {"none"}
    BY DEF AudioInv, CallsInv, StreamsInv
<1>2. invoked # <<>> /\ invoked' = Tail(invoked) /\ UNCHANGED <<list, memory, default, said>>
    BY DEF A!Execute
<1>3. Head(invoked) \in A!Calls /\ invoked' \in Seq(A!Calls)
    BY <1>1, <1>2, HeadTailProperties
<1>4. PICK c \in A!Calls : c = Head(invoked)
    BY <1>3
<1>5. A!OnStream(c) \/ A!OnPipeline(c) \/ A!OnVoices(c)
    BY <1>4 DEF A!Execute
<1>6. slot' = slot
    BY <1>5 DEF A!OnStream, A!OnPipeline, A!OnVoices, A!streamVars
<1>7. DevicesInv'
    BY <1>1, <1>2, <1>6, DevicesRest
<1>8. CASE A!OnStream(c)
    <2>1. \/ c.op = "activate" /\ A!Activate(c.d, c.name, c.f) /\ UNCHANGED midway
          \/ c.op = "deactivate" /\ A!Deactivate(c.d) /\ UNCHANGED midway
          \/ c.op = "reactivate" /\ A!Reactivate(c.d) /\ UNCHANGED active
        BY <1>8 DEF A!OnStream
    <2>2. PICK d \in A!Devices : d = c.d
        BY <2>1, CallsKnown
    <2>3. StreamsInv'
        BY <1>1, <1>6, <2>1, <2>2, ActivateKeeps, DeactivateKeeps, ReactivateKeeps
    <2>4. over' = over \/ over' = ~slot
        BY <2>1 DEF A!Activate, A!Deactivate, A!Reactivate, A!Tell, A!Signalled
    <2> QED
        BY <1>3, <1>6, <1>7, <2>3, <2>4 DEF AudioInv, CallsInv
<1>9. CASE A!OnPipeline(c) \/ A!OnVoices(c)
    <2>1. UNCHANGED <<active, status, told, midway, over>>
        BY <1>9 DEF A!OnPipeline, A!OnVoices, A!streamVars
    <2>2. StreamsInv'
        BY <1>1, <1>6, <2>1, StreamsRest
    <2> QED
        BY <1>3, <1>6, <1>7, <2>1, <2>2 DEF AudioInv, CallsInv
<1> QED
    BY <1>5, <1>8, <1>9

\* Without a slot nothing is activated: while the program runs no device is listed.
LEMMA NothingStarts ==
    ASSUME AudioInv, ~slot, ~over, NEW d \in A!Devices, NEW name, NEW f,
           A!Activate(d, name, f) \/ A!Deactivate(d)
    PROVE  UNCHANGED <<active, status, over>>
<1>1. list[d] \in Seq(A!Names) /\ list[d] = <<>> /\ active[d] = A!Null
    BY DEF AudioInv, DevicesInv, A!Unheard
<1>2. A!Position(list[d], name) = 0
    <2>1. PICK l \in Seq(A!Names) : l = list[d]
        BY <1>1
    <2>2. A!Position(l, name) \in 0..Len(l)
        BY PositionFound
    <2>3. Len(l) = 0
        BY <1>1, <2>1
    <2> QED
        BY <2>1, <2>2, <2>3
<1>3. CASE A!Activate(d, name, f)
    <2>1. ~ (A!Position(list[d], name) > 0)
        BY <1>2
    <2> QED
        BY <1>3, <2>1 DEF A!Activate
<1>4. CASE A!Deactivate(d)
    BY <1>1, <1>4 DEF A!Deactivate
<1> QED
    BY <1>3, <1>4

LEMMA UnheardKeeps ==
    ASSUME AudioInv, [A!AudioStep]_A!audioVars
    PROVE  A!Unheard'
<1>1. SUFFICES ASSUME ~slot'
               PROVE  \A d \in A!Devices : /\ active'[d] = A!Null /\ status'[d] = "Closed"
                                           /\ list'[d] # <<>> => over'
    BY DEF A!Unheard
<1>2. ASSUME UNCHANGED <<list, active, status, slot>>, over' = over \/ over' = ~slot
      PROVE  \A d \in A!Devices : /\ active'[d] = A!Null /\ status'[d] = "Closed"
                                  /\ list'[d] # <<>> => over'
    <2>0. slot \in BOOLEAN /\ over \in BOOLEAN /\ slot' = slot
        BY <1>2 DEF AudioInv, CallsInv
    <2>1. ~slot /\ (over => over')
        BY <1>1, <1>2, <2>0, SMT
    <2>2. \A d \in A!Devices : active[d] = A!Null /\ status[d] = "Closed" /\ (list[d] # <<>> => over)
        BY <2>1, Zenon DEF AudioInv, A!Unheard
    <2>3. list' = list /\ active' = active /\ status' = status
        BY <1>2
    <2> QED
        BY <2>1, <2>2, <2>3, Zenon DEF A!Null
<1>3. CASE UNCHANGED A!audioVars
    BY <1>2, <1>3 DEF A!audioVars, A!deviceVars, A!streamVars
<1>4. ASSUME NEW n \in Nodes, A!Appear(n) \/ A!Vanish(n)
      PROVE  \A d \in A!Devices : /\ active'[d] = A!Null /\ status'[d] = "Closed"
                                  /\ list'[d] # <<>> => over'
    <2>1. UNCHANGED <<active, status, slot>> /\ over' = ~slot
        BY <1>4 DEF A!Appear, A!Vanish, A!Say, A!Signalled
    <2> QED
        BY <1>1, <2>1 DEF AudioInv, A!Unheard
<1>5. CASE \E d \in A!Devices, name \in A!Names : A!Default(d, name)
    <2>1. UNCHANGED <<list, active, status, slot>> /\ (over' = over \/ over' = ~slot)
        BY <1>5 DEF A!Default, A!Say, A!Signalled
    <2> QED
        BY <1>2, <2>1
<1>6. CASE A!Execute
    <2>1. ~over /\ list' = list /\ invoked \in Seq(A!Calls) /\ invoked # <<>>
        BY <1>6 DEF A!Execute, AudioInv, CallsInv
    <2>2. PICK c \in A!Calls : A!OnStream(c) \/ A!OnPipeline(c) \/ A!OnVoices(c)
        BY <1>6, <2>1, HeadTailProperties DEF A!Execute
    <2>3. CASE A!OnStream(c)
        <3>1. slot' = slot
            BY <2>3 DEF A!OnStream
        <3>2. \/ c.op = "activate" /\ A!Activate(c.d, c.name, c.f)
              \/ c.op = "deactivate" /\ A!Deactivate(c.d)
              \/ c.op = "reactivate" /\ A!Reactivate(c.d) /\ UNCHANGED active
            BY <2>3 DEF A!OnStream
        <3>3. PICK d \in A!Devices : d = c.d
            BY <3>2, CallsKnown
        <3>4. active[d] = A!Null
            BY <1>1, <3>1 DEF AudioInv, A!Unheard
        <3>5. UNCHANGED <<active, status, over>>
            BY <1>1, <2>1, <3>1, <3>2, <3>3, <3>4, NothingStarts DEF A!Reactivate
        <3> QED
            BY <1>2, <2>1, <3>1, <3>5
    <2>4. CASE A!OnPipeline(c) \/ A!OnVoices(c)
        <3>1. UNCHANGED <<active, status, slot, over>>
            BY <2>4 DEF A!OnPipeline, A!OnVoices, A!streamVars
        <3> QED
            BY <1>2, <2>1, <3>1
    <2> QED
        BY <2>2, <2>3, <2>4
<1>7. ASSUME NEW f, A!Resume(f)
      PROVE  FALSE
    <2>1. midway \in A!Devices /\ slot' = slot /\ active[midway] # A!Null
        BY <1>7 DEF A!Resume, AudioInv, StreamsInv
    <2> QED
        BY <1>1, <2>1 DEF AudioInv, A!Unheard
<1>8. CASE A!Input \/ \E early \in BOOLEAN : A!Output(early)
    <2>1. UNCHANGED <<list, active, status, slot, over>>
        BY <1>8 DEF A!Input, A!Output, A!deviceVars, A!streamVars
    <2> QED
        BY <1>2, <2>1
<1>9. ASSUME NEW d \in A!Devices, NEW name, NEW f, A!React(d, name, f)
      PROVE  \A e \in A!Devices : /\ active'[e] = A!Null /\ status'[e] = "Closed"
                                  /\ list'[e] # <<>> => over'
    <2>1. ~over /\ UNCHANGED <<list, slot>> /\ (A!Activate(d, name, f) \/ A!Deactivate(d))
        BY <1>9 DEF A!React, A!Called
    <2>2. UNCHANGED <<active, status, over>>
        BY <1>1, <2>1, NothingStarts
    <2> QED
        BY <1>2, <2>1, <2>2
<1>10. CASE \E c \in A!Calls : A!Invoke(c)
    <2>1. UNCHANGED <<list, active, status, slot, over>>
        BY <1>10 DEF A!Invoke, A!deviceVars, A!streamVars
    <2> QED
        BY <1>2, <2>1
<1> QED
    BY <1>3, <1>4, <1>5, <1>6, <1>7, <1>8, <1>9, <1>10 DEF A!AudioStep, A!GraphStep, A!LoopStep

LEMMA AudioKeeps ==
    ASSUME AudioInv, [A!AudioStep]_A!audioVars
    PROVE  AudioInv'
<1>1. /\ DevicesInv /\ StreamsInv /\ slot \in BOOLEAN /\ over \in BOOLEAN
      /\ midway \in A!Devices \cup {"none"} /\ invoked \in Seq(A!Calls)
    BY DEF AudioInv, StreamsInv, CallsInv
<1>2. SUFFICES DevicesInv' /\ StreamsInv' /\ CallsInv'
    BY UnheardKeeps DEF AudioInv
<1>3. CASE UNCHANGED A!audioVars
    <2>1. UNCHANGED <<list, memory, default, said, active, status, told, midway, slot, over, invoked>>
        BY <1>3 DEF A!audioVars, A!deviceVars, A!streamVars
    <2> QED
        BY <1>1, <2>1, DevicesRest, StreamsRest DEF CallsInv
<1>4. CASE A!GraphStep
    <2>1. UNCHANGED <<active, status, told, midway, slot, invoked>> /\ (over' = over \/ over' = ~slot)
        BY <1>4 DEF A!GraphStep, A!Appear, A!Vanish, A!Default, A!Say, A!Signalled, A!soundVars
    <2>2. DevicesInv'
        BY <1>1, <1>4, AppearKeeps, VanishKeeps, DefaultKeeps DEF A!GraphStep
    <2> QED
        BY <1>1, <2>1, <2>2, StreamsRest DEF CallsInv
<1>5. CASE A!Execute
    BY <1>5, ExecuteKeeps
<1>6. ASSUME NEW f, A!Resume(f)
      PROVE  DevicesInv' /\ StreamsInv' /\ CallsInv'
    <2>1. /\ UNCHANGED <<list, memory, default, said, slot, invoked>>
          /\ over' = over \/ over' = ~slot
        BY <1>6 DEF A!Resume, A!Tell, A!Signalled, A!soundVars
    <2> QED
        BY <1>1, <1>6, <2>1, ResumeKeeps, DevicesRest DEF CallsInv
<1>7. CASE A!Input \/ \E early \in BOOLEAN : A!Output(early)
    <2>1. UNCHANGED <<list, memory, default, said, active, status, told, midway, slot, over, invoked>>
        BY <1>7 DEF A!Input, A!Output, A!deviceVars, A!streamVars
    <2> QED
        BY <1>1, <2>1, DevicesRest, StreamsRest DEF CallsInv
<1>8. ASSUME NEW d \in A!Devices, NEW name, NEW f, A!React(d, name, f)
      PROVE  DevicesInv' /\ StreamsInv' /\ CallsInv'
    <2>1. UNCHANGED <<list, memory, default, said, midway, slot, invoked>>
        BY <1>8 DEF A!React, A!soundVars
    <2>2. A!Activate(d, name, f) \/ A!Deactivate(d)
        BY <1>8 DEF A!React
    <2>3. StreamsInv' /\ (over' = over \/ over' = ~slot)
        BY <1>1, <2>1, <2>2, ActivateKeeps, DeactivateKeeps
        DEF A!Activate, A!Deactivate, A!Tell, A!Signalled
    <2> QED
        BY <1>1, <2>1, <2>3, DevicesRest DEF CallsInv
<1>9. ASSUME NEW c \in A!Calls, A!Invoke(c)
      PROVE  DevicesInv' /\ StreamsInv' /\ CallsInv'
    <2>1. UNCHANGED <<list, memory, default, said, active, status, told, midway, slot, over>>
        BY <1>9 DEF A!Invoke, A!deviceVars, A!streamVars
    <2>2. invoked' \in Seq(A!Calls)
        BY <1>1, <1>9, AppendProperties DEF A!Invoke
    <2> QED
        BY <1>1, <2>1, <2>2, DevicesRest, StreamsRest DEF CallsInv
<1> QED
    BY <1>3, <1>4, <1>5, <1>6, <1>7, <1>8, <1>9 DEF A!AudioStep, A!LoopStep

LEMMA AudioInitially == A!InitAudio => AudioInv
<1> SUFFICES ASSUME A!InitAudio PROVE AudioInv
    OBVIOUS
<1>1. <<>> \in Seq(A!Names) /\ <<>> \in Seq(A!Calls) /\ Len(<<>>) = 0
    BY EmptySeq
<1>2. DevicesInv
    BY <1>1 DEF A!InitAudio, DevicesInv
<1>3. StreamsInv
    BY DEF A!InitAudio, StreamsInv, A!ToldStatus, A!Stoppable, A!Null
<1>4. CallsInv /\ A!Unheard
    BY <1>1 DEF A!InitAudio, CallsInv, A!Unheard
<1> QED
    BY <1>2, <1>3, <1>4 DEF AudioInv

LEMMA AudioInvTold == AudioInv => AudioTold
<1>1. ASSUME AudioInv PROVE A!DefaultTold
    <2>1. ASSUME slot, NEW d \in A!Devices, default[d] # "none", A!Position(list[d], default[d]) > 0
          PROVE  said[d] = default[d]
        <3>1. PICK l \in Seq(A!Names) : l = list[d]
            BY <1>1 DEF AudioInv, DevicesInv
        <3>2. PICK i \in 1..Len(l) : l[i] = default[d]
            BY <2>1, <3>1, PositionFound
        <3> QED
            BY <1>1, <2>1, <3>1, <3>2 DEF AudioInv, DevicesInv
    <2> QED
        BY <2>1 DEF A!DefaultTold
<1> QED
    BY <1>1 DEF AudioInv, StreamsInv, AudioTold

-----------------------------------------------------------------------------
(* The services together: each part's steps are its own, or leave it       *)
(* alone.                                                                  *)

partsVars == <<part, wsVars, httpVars, audioVars>>

\* WebSocket_proofs is about the same module.
LEMMA SameInit == WS!Init <=> W!Init
BY Zenon DEF WS!Init, W!Init, WS!None, W!None

LEMMA SameNext == WS!Next <=> W!Next
BY Zenon DEF WS!Next, W!Next, WS!Worker, W!Worker, WS!Connect, W!Connect, WS!Send, W!Send,
    WS!Close, W!Close, WS!Release, W!Release, WS!Load, W!Load, WS!Unload, W!Unload,
    WS!RunTask, W!RunTask, WS!TasksDone, W!TasksDone, WS!ConnectsDone, W!ConnectsDone,
    WS!Connected, W!Connected, WS!ConnectFails, W!ConnectFails, WS!Drive, W!Drive,
    WS!Reconnect, W!Reconnect, WS!NoFrame, W!NoFrame, WS!FrameWaits, W!FrameWaits,
    WS!Frame, W!Frame, WS!RecvNone, W!RecvNone, WS!RecvFails, W!RecvFails,
    WS!RecvClose, W!RecvClose, WS!RecvMessage, W!RecvMessage, WS!Ping, W!Ping,
    WS!InTime, W!InTime, WS!TimesOut, W!TimesOut, WS!DrivesDone, W!DrivesDone,
    WS!Poll, W!Poll, WS!End, W!End, WS!Run, W!Run, WS!ByClient, W!ByClient,
    WS!Retries, W!Retries, WS!Scheduled, W!Scheduled, WS!Error, W!Error,
    WS!FinishClose, W!FinishClose, WS!Asked, W!Asked, WS!RequestClose, W!RequestClose,
    WS!Setup, W!Setup, WS!StartOp, W!StartOp, WS!Flush, W!Flush, WS!SendTask, W!SendTask,
    WS!Callback, W!Callback, WS!Told, W!Told, WS!Driving, W!Driving, WS!None, W!None,
    WS!Task, W!Task, WS!Ended, W!Ended, WS!clientVars, W!clientVars, WS!netVars, W!netVars,
    WS!Reset, W!Reset, WS!Cleaned, W!Cleaned, WS!Goto, W!Goto

LEMMA WebSocketSteps == [ServicesNext]_partsVars => [W!Next]_W!vars
<1> SUFFICES ASSUME [ServicesNext]_partsVars PROVE WS!Next \/ UNCHANGED wsVars
    BY SameNext DEF wsVars, W!vars, W!clientVars, W!netVars
<1> QED
    BY DEF partsVars, ServicesNext, Next

LEMMA HttpSteps == [ServicesNext]_partsVars => [HTTP!Next]_HTTP!vars
<1> SUFFICES ASSUME [ServicesNext]_partsVars PROVE HTTP!Next \/ UNCHANGED httpVars
    BY DEF httpVars, HTTP!vars, HTTP!ownerVars, HTTP!bodyVars, HTTP!curlVars
<1> QED
    BY DEF partsVars, ServicesNext, Next

LEMMA AudioSteps == [ServicesNext]_partsVars => [A!AudioStep]_A!audioVars
<1> SUFFICES ASSUME [ServicesNext]_partsVars PROVE A!AudioStep \/ UNCHANGED audioVars
    BY DEF audioVars, A!audioVars, A!deviceVars, A!streamVars, A!soundVars
<1> QED
    BY DEF partsVars, ServicesNext

\* The websockets behave as WebSocket's specification says.
LEMMA WebSocketRuns == ServicesSpec => W!Spec
<1>1. ServicesInit => W!Init
    BY SameInit DEF ServicesInit, Init
<1> QED
    BY <1>1, WebSocketSteps, PTL DEF ServicesSpec, W!Spec, partsVars

-----------------------------------------------------------------------------
(* The theorems.                                                           *)

\* The maps of the websockets' thread agree with the states of the connections, while the
\* module is one of several (d2_ws_curl.cpp:441).
THEOREM ServicesMapped == ServicesSpec => []ConnectionsMapped
<1>1. W!ConnectionsMapped => ConnectionsMapped
    BY DEF ConnectionsMapped, WS!ConnectionsMapped, W!ConnectionsMapped, WS!MapOf, W!MapOf
<1> QED
    BY <1>1, WebSocketRuns, W!MapsAgree, PTL

\* on_close comes once and last, and a request is answered once: by its response, by an error,
\* or because the module is unloaded while curl has it (d2_http_curl.cpp).
THEOREM ServicesEndOnce == ServicesSpec => []EndsOnce
<1>1. ServicesInit => HttpInv
    BY HttpInitially DEF ServicesInit, Init
<1>2. HttpInv /\ [ServicesNext]_partsVars => HttpInv'
    BY HttpKeeps, HttpSteps
<1>3. W!ClosedOnce /\ HttpInv => EndsOnce
    BY HttpInvOnce DEF EndsOnce, WS!ClosedOnce, W!ClosedOnce, WS!Ended, W!Ended
<1> QED
    BY <1>1, <1>2, <1>3, WebSocketRuns, W!ClosesOnce, PTL DEF ServicesSpec, partsVars

\* curl gets the messages of a connection in the order of the calls of send, and none twice,
\* though the socket is full, breaks and is made again (d2_ws_curl.cpp).
THEOREM ServicesSendInOrder == ServicesSpec => []SentInOrder
<1>1. W!SentInOrder => SentInOrder
    BY DEF SentInOrder, WS!SentInOrder, W!SentInOrder
<1> QED
    BY <1>1, WebSocketRuns, W!SendsInOrder, PTL

\* Each stream that runs can be stopped; where the program has connected a slot for what the
\* audio signals, whoever listens knows each stream's status and the default devices, whatever
\* devices come and go and whatever listeners call; where it has not, none ever runs
\* (d2_pipewire_audio.cpp, d2_audio.cpp:294).
THEOREM ServicesTell == ServicesSpec => []AudioTold
<1>1. ServicesInit => AudioInv
    BY AudioInitially DEF ServicesInit
<1>2. AudioInv /\ [ServicesNext]_partsVars => AudioInv'
    BY AudioKeeps, AudioSteps
<1> QED
    BY <1>1, <1>2, AudioInvTold, PTL DEF ServicesSpec, partsVars
=============================================================================
