---------------------------- MODULE BenchProofs -----------------------------
(***************************************************************************)
(* Theorems about BenchQueue for every number of teams, hosts, machines,   *)
(* portal processes, jobs and faults.                                      *)
(***************************************************************************)
EXTENDS BenchQueue, FiniteSetTheorems, TLAPS

Job == [team : Teams, state : Active \cup {"done", "aborted"}, created : Nat,
        age : 0..Timeout + 1]
Clients == Hosts \cup {Gone}

\* What a handler and a worker are doing, with the jobs of D.
Handler(D) == {Free} \cup [pc : {"insert"}, team : Teams]
              \cup [pc : {"sweep"}, host : Hosts, client : Clients, ids : SUBSET D]
              \cup [pc : {"dequeue"}, host : Hosts, client : Clients]
              \cup [pc : {"take", "score"}, job : D, client : Clients]
Worker(D) == {Idle} \cup [pc : {"getting"}]
             \cup [pc : {"running"}, job : D, ran : 0..RunLimit]
             \cup [pc : {"post", "posting"}, job : D, file : {"good", "bad", "none"},
                   try : 1..MaxTries]
Inserting == {p \in Procs : proc[p].pc = "insert"}
Serving == {"sweep", "dequeue", "take", "score"}
Waiting == {"getting", "posting"}
Shapes ==
    /\ jobs \in Seq(Job) /\ \A j \in DOMAIN jobs : jobs[j].created <= j
    /\ Len(jobs) + Cardinality(Inserting) <= MaxJobs
    /\ scored \in [JobIds -> Nat]
    /\ proc \in [Procs -> Handler(DOMAIN jobs)]
    /\ worker \in [Hosts -> Worker(DOMAIN jobs)]

\* A worker that waits has one handler that serves it, of the kind it asked for.
Served ==
    /\ \A p \in Procs : proc[p].pc \in Serving /\ proc[p].client \in Hosts
         => worker[proc[p].client].pc = IF proc[p].pc = "score" THEN "posting" ELSE "getting"
    /\ \A p, q \in Procs : /\ proc[p].pc \in Serving /\ proc[q].pc \in Serving
                           /\ proc[p].client \in Hosts /\ proc[p].client = proc[q].client
                           => p = q
    /\ \A h \in Hosts : worker[h].pc \in Waiting
         => \E p \in Procs : proc[p].pc \in Serving /\ proc[p].client = h
TypesInv == Shapes /\ Served

LEMMA Parameters ==
    /\ HostOf \in [Teams -> Hosts] /\ NodeOf \in [Hosts -> Nodes] /\ Gone \notin Hosts
    /\ RunLimit \in Nat /\ Timeout \in Nat /\ RunLimit <= Timeout
    /\ MaxProcs \in Nat /\ MaxTries \in Nat /\ MaxTries >= 1 /\ MaxJobs \in Nat
    /\ IsFiniteSet(Procs)
<1>1. IsFiniteSet(1..MaxProcs)
  BY BenchAssumption, FS_Interval
<1> QED
  BY <1>1, BenchAssumption DEF Procs

\* The fields a handler and a worker have at each pc.
LEMMA Fields ==
    ASSUME NEW D
    PROVE  /\ \A r \in Handler(D) :
                /\ r.pc \in {"free", "insert", "sweep", "dequeue", "take", "score"}
                /\ r.pc = "insert" => r.team \in Teams
                /\ r.pc = "sweep" => r.ids \subseteq D /\ r.host \in Hosts
                /\ r.pc = "dequeue" => r.host \in Hosts
                /\ r.pc \in {"take", "score"} => r.job \in D
                /\ r.pc \in Serving => r.client \in Clients
           /\ \A r \in Worker(D) :
                /\ r.pc \in {"idle", "getting", "running", "post", "posting"}
                /\ r.pc \in {"running", "post", "posting"} => r.job \in D
                /\ r.pc = "running" => r.ran \in 0..RunLimit
                /\ r.pc \in {"post", "posting"}
                     => r.file \in {"good", "bad", "none"} /\ r.try \in 1..MaxTries
  BY DEF Handler, Worker, Free, Idle, Serving

LEMMA HandlerForms ==
    ASSUME NEW D
    PROVE  /\ Free \in Handler(D)
           /\ \A t \in Teams : [pc |-> "insert", team |-> t] \in Handler(D)
           /\ \A h \in Hosts, c \in Clients, ids \in SUBSET D :
                [pc |-> "sweep", host |-> h, client |-> c, ids |-> ids] \in Handler(D)
           /\ \A h \in Hosts, c \in Clients :
                [pc |-> "dequeue", host |-> h, client |-> c] \in Handler(D)
           /\ \A pc \in {"take", "score"}, j \in D, c \in Clients :
                [pc |-> pc, job |-> j, client |-> c] \in Handler(D)
           /\ \A r \in Handler(D), c \in Clients : r.pc \in Serving
                => /\ [r EXCEPT !.client = c] \in Handler(D)
                   /\ [r EXCEPT !.client = c].pc = r.pc
                   /\ [r EXCEPT !.client = c].client = c
                   /\ r.pc = "sweep" => [r EXCEPT !.client = c].ids = r.ids
                   /\ r.pc \in {"take", "score"} => [r EXCEPT !.client = c].job = r.job
<1>1. ASSUME NEW r \in Handler(D), NEW c \in Clients, r.pc \in Serving
      PROVE  /\ [r EXCEPT !.client = c] \in Handler(D)
             /\ [r EXCEPT !.client = c].pc = r.pc
             /\ [r EXCEPT !.client = c].client = c
             /\ r.pc = "sweep" => [r EXCEPT !.client = c].ids = r.ids
             /\ r.pc \in {"take", "score"} => [r EXCEPT !.client = c].job = r.job
  <2>1. CASE r \in [pc : {"sweep"}, host : Hosts, client : Clients, ids : SUBSET D]
    BY <2>1 DEF Handler
  <2>2. CASE r \in [pc : {"dequeue"}, host : Hosts, client : Clients]
    BY <2>2 DEF Handler
  <2>3. CASE r \in [pc : {"take", "score"}, job : D, client : Clients]
    BY <2>3 DEF Handler
  <2> QED
    BY <1>1, <2>1, <2>2, <2>3 DEF Handler, Serving, Free
<1> QED
  BY <1>1 DEF Handler

LEMMA GoneForm ==
    ASSUME NEW D, NEW r \in Handler(D), r.pc \in Serving
    PROVE  LET g == [r EXCEPT !.client = Gone]
           IN /\ g \in Handler(D) /\ g.pc = r.pc /\ g.client = Gone
              /\ r.pc = "sweep" => g.ids = r.ids
              /\ r.pc \in {"take", "score"} => g.job = r.job
<1>1. Gone \in Clients
  BY DEF Clients
<1> QED
  BY <1>1, HandlerForms

LEMMA WorkerForms ==
    ASSUME NEW D
    PROVE  /\ Idle \in Worker(D) /\ Idle.pc = "idle" /\ [pc |-> "getting"] \in Worker(D)
           /\ \A j \in D : [pc |-> "running", job |-> j, ran |-> 0] \in Worker(D)
           /\ \A j \in D, file \in {"good", "bad", "none"} :
                [pc |-> "post", job |-> j, file |-> file, try |-> 1] \in Worker(D)
           /\ \A r \in Worker(D) : r.pc = "post"
                => /\ [r EXCEPT !.pc = "posting"] \in Worker(D)
                   /\ [r EXCEPT !.pc = "posting"].pc = "posting"
                   /\ [r EXCEPT !.pc = "posting"].job = r.job
           /\ \A r \in Worker(D) : r.pc = "running" /\ r.ran < RunLimit
                => /\ [r EXCEPT !.ran = @ + 1] \in Worker(D)
                   /\ [r EXCEPT !.ran = @ + 1].pc = "running"
                   /\ [r EXCEPT !.ran = @ + 1].job = r.job
                   /\ [r EXCEPT !.ran = @ + 1].ran = r.ran + 1
<1>1. Idle \in Worker(D) /\ Idle.pc = "idle" /\ [pc |-> "getting"] \in Worker(D)
  BY DEF Worker, Idle
<1>2. /\ \A j \in D : [pc |-> "running", job |-> j, ran |-> 0] \in Worker(D)
      /\ \A j \in D, file \in {"good", "bad", "none"} :
            [pc |-> "post", job |-> j, file |-> file, try |-> 1] \in Worker(D)
  BY Parameters DEF Worker
<1>3. ASSUME NEW r \in Worker(D), r.pc = "post"
      PROVE  /\ [r EXCEPT !.pc = "posting"] \in Worker(D)
             /\ [r EXCEPT !.pc = "posting"].pc = "posting"
             /\ [r EXCEPT !.pc = "posting"].job = r.job
  BY <1>3 DEF Worker, Idle
<1>4. ASSUME NEW r \in Worker(D), r.pc = "running", r.ran < RunLimit
      PROVE  /\ [r EXCEPT !.ran = @ + 1] \in Worker(D)
             /\ [r EXCEPT !.ran = @ + 1].pc = "running"
             /\ [r EXCEPT !.ran = @ + 1].job = r.job
             /\ [r EXCEPT !.ran = @ + 1].ran = r.ran + 1
  <2>1. r \in [pc : {"running"}, job : D, ran : 0..RunLimit]
    BY <1>4 DEF Worker, Idle
  <2>2. r.ran + 1 \in 0..RunLimit
    BY <1>4, <2>1, Parameters
  <2> QED
    BY <2>1, <2>2 DEF Worker
<1> QED
  BY <1>1, <1>2, <1>3, <1>4

\* A failed post is tried again or given up.
LEMMA FailedForm ==
    ASSUME NEW D, worker \in [Hosts -> Worker(D)], NEW h \in Hosts,
           worker[h].pc \in {"post", "posting"}
    PROVE  \E w \in Worker(D) : /\ Failed(h) = [worker EXCEPT ![h] = w]
                                /\ w.pc \in {"idle", "post"}
                                /\ w.pc = "post" => w.job = worker[h].job
<1> DEFINE r == worker[h]
           w == IF r.try = MaxTries THEN Idle
                ELSE [r EXCEPT !.pc = "post", !.try = r.try + 1]
<1>1. r \in [pc : {"post", "posting"}, job : D, file : {"good", "bad", "none"},
             try : 1..MaxTries]
  BY DEF Worker, Idle
<1>2. r.try = MaxTries \/ r.try + 1 \in 1..MaxTries
  BY <1>1, Parameters
<1>3. w \in Worker(D) /\ w.pc \in {"idle", "post"} /\ (w.pc = "post" => w.job = r.job)
  BY <1>1, <1>2 DEF Worker, Idle
<1>4. Failed(h) = [worker EXCEPT ![h] = w]
  BY DEF Failed
<1> HIDE DEF w
<1> QED
  BY <1>3, <1>4

LEMMA KeepShapes ==
    ASSUME Shapes, jobs' \in Seq(Job), Len(jobs') = Len(jobs),
           \A j \in DOMAIN jobs : jobs'[j].created = jobs[j].created,
           scored' \in [JobIds -> Nat], proc' \in [Procs -> Handler(DOMAIN jobs)],
           worker' \in [Hosts -> Worker(DOMAIN jobs)], Inserting' \subseteq Inserting
    PROVE  Shapes' /\ DOMAIN jobs' = DOMAIN jobs
<1>1. DOMAIN jobs' = DOMAIN jobs
  BY DEF Shapes
<1>2. IsFiniteSet(Inserting)
  BY Parameters, FS_Subset DEF Inserting
<1>3. Cardinality(Inserting') <= Cardinality(Inserting)
      /\ Cardinality(Inserting') \in Nat /\ Cardinality(Inserting) \in Nat
  BY <1>2, FS_Subset, FS_CardinalityType
<1>4. Len(jobs') + Cardinality(Inserting') <= MaxJobs
  BY <1>3, Parameters DEF Shapes
<1> QED
  BY <1>1, <1>4 DEF Shapes

\* A handler begins to serve a worker.
LEMMA BeginServed ==
    ASSUME Served, NEW p \in Procs, NEW h \in Hosts, NEW r, NEW w,
           proc \in [Procs -> Handler(DOMAIN jobs)], worker \in [Hosts -> Worker(DOMAIN jobs)],
           proc[p].pc \notin Serving, worker[h].pc \notin Waiting,
           r.pc \in Serving, r.client = h, w.pc = IF r.pc = "score" THEN "posting" ELSE "getting",
           proc' = [proc EXCEPT ![p] = r], worker' = [worker EXCEPT ![h] = w]
    PROVE  Served'
<1>1. /\ proc'[p] = r /\ \A q \in Procs \ {p} : proc'[q] = proc[q]
      /\ worker'[h] = w /\ \A g \in Hosts \ {h} : worker'[g] = worker[g]
  OBVIOUS
<1>2. \A q \in Procs : proc[q].pc \in Serving => proc[q].client # h
  BY DEF Served, Waiting
<1> QED
  BY <1>1, <1>2 DEF Served

\* A handler is done, or its worker no longer listens.
LEMMA EndServed ==
    ASSUME Served, NEW p \in Procs, NEW r, NEW w,
           proc \in [Procs -> Handler(DOMAIN jobs)], worker \in [Hosts -> Worker(DOMAIN jobs)],
           proc[p].pc \in Serving, r.pc \notin Serving \/ r.client = Gone,
           proc' = [proc EXCEPT ![p] = r],
           worker' = IF proc[p].client = Gone THEN worker
                     ELSE [worker EXCEPT ![proc[p].client] = w],
           w.pc \notin Waiting
    PROVE  Served'
<1> DEFINE c == proc[p].client
<1>1. c \in Clients
  BY Fields
<1>2. proc'[p] = r /\ \A q \in Procs \ {p} : proc'[q] = proc[q]
  OBVIOUS
<1>3. \A q \in Procs \ {p} : proc[q].pc \in Serving => c \notin Hosts \/ proc[q].client # c
  BY DEF Served
<1>4. \A g \in Hosts : worker'[g] = IF g = c THEN w ELSE worker[g]
  BY <1>1, Parameters DEF Clients
<1>5. \A q \in Procs : proc'[q].pc \in Serving /\ proc'[q].client \in Hosts
        => q # p /\ proc'[q] = proc[q] /\ worker'[proc[q].client] = worker[proc[q].client]
  BY <1>2, <1>3, <1>4, Parameters
<1>6. \A g \in Hosts : worker'[g].pc \in Waiting
        => \E q \in Procs : proc'[q].pc \in Serving /\ proc'[q].client = g
  <2> SUFFICES ASSUME NEW g \in Hosts, worker'[g].pc \in Waiting
               PROVE  \E q \in Procs : proc'[q].pc \in Serving /\ proc'[q].client = g
    OBVIOUS
  <2>1. g # c /\ worker'[g] = worker[g]
    BY <1>4
  <2>2. PICK q \in Procs : proc[q].pc \in Serving /\ proc[q].client = g
    BY <2>1 DEF Served
  <2> QED
    BY <1>2, <2>1, <2>2
<1> QED
  BY <1>5, <1>6 DEF Served

\* Nobody begins or ends to serve or to wait.
LEMMA SameServed ==
    ASSUME Served,
           \A p \in Procs :
             /\ proc'[p].pc \in Serving <=> proc[p].pc \in Serving
             /\ proc[p].pc \in Serving =>
                  /\ proc'[p].client = proc[p].client
                  /\ proc'[p].pc = "score" <=> proc[p].pc = "score",
           \A h \in Hosts : worker'[h].pc = worker[h].pc
                            \/ (worker[h].pc \notin Waiting /\ worker'[h].pc \notin Waiting)
    PROVE  Served'
<1>1. \A p \in Procs : proc'[p].pc \in Serving /\ proc'[p].client \in Hosts
        => worker'[proc'[p].client].pc = IF proc'[p].pc = "score" THEN "posting" ELSE "getting"
  BY DEF Served, Waiting
<1>2. \A p, q \in Procs : /\ proc'[p].pc \in Serving /\ proc'[q].pc \in Serving
                          /\ proc'[p].client \in Hosts /\ proc'[p].client = proc'[q].client
                          => p = q
  BY DEF Served
<1>3. \A h \in Hosts : worker'[h].pc \in Waiting
        => \E p \in Procs : proc'[p].pc \in Serving /\ proc'[p].client = h
  <2> SUFFICES ASSUME NEW h \in Hosts, worker'[h].pc \in Waiting
               PROVE  \E p \in Procs : proc'[p].pc \in Serving /\ proc'[p].client = h
    OBVIOUS
  <2>1. PICK p \in Procs : proc[p].pc \in Serving /\ proc[p].client = h
    BY DEF Served
  <2> QED
    BY <2>1
<1> QED
  BY <1>1, <1>2, <1>3 DEF Served

LEMMA InitTypes == Init => TypesInv
<1> SUFFICES ASSUME Init PROVE TypesInv
  OBVIOUS
<1> USE Parameters DEF Init
<1>1. jobs \in Seq(Job) /\ Len(jobs) = 0 /\ DOMAIN jobs = {}
  OBVIOUS
<1>2. \A p \in Procs : proc[p] = Free /\ proc[p].pc = "free"
  BY DEF Free
<1>3. Inserting = {} /\ Cardinality(Inserting) = 0
  BY <1>2, FS_EmptySet DEF Inserting
<1>4. scored \in [JobIds -> Nat] /\ proc \in [Procs -> Handler(DOMAIN jobs)]
      /\ worker \in [Hosts -> Worker(DOMAIN jobs)]
  BY HandlerForms, WorkerForms
<1>5. Served
  BY <1>2 DEF Served, Serving, Waiting, Idle
<1> QED
  BY <1>1, <1>3, <1>4, <1>5 DEF TypesInv, Shapes

\* The first conjuncts of Shapes, for every step.
LEMMA ShapesParts ==
    ASSUME TypesInv
    PROVE  /\ jobs \in Seq(Job) /\ DOMAIN jobs = 1..Len(jobs) /\ Len(jobs) \in Nat
           /\ \A j \in DOMAIN jobs : jobs[j] \in Job
           /\ scored \in [JobIds -> Nat] /\ proc \in [Procs -> Handler(DOMAIN jobs)]
           /\ worker \in [Hosts -> Worker(DOMAIN jobs)] /\ DOMAIN jobs \subseteq JobIds
           /\ IsFiniteSet(Inserting) /\ Cardinality(Inserting) \in Nat
<1>1. jobs \in Seq(Job) /\ DOMAIN jobs = 1..Len(jobs) /\ Len(jobs) \in Nat
  BY DEF TypesInv, Shapes
<1>2. \A j \in DOMAIN jobs : jobs[j] \in Job
  BY <1>1
<1>3. IsFiniteSet(Inserting) /\ Cardinality(Inserting) \in Nat
  BY Parameters, FS_Subset, FS_CardinalityType DEF Inserting
<1>4. DOMAIN jobs \subseteq JobIds
  BY <1>1, <1>3, Parameters DEF TypesInv, Shapes, JobIds
<1> QED
  BY <1>1, <1>2, <1>3, <1>4 DEF TypesInv, Shapes

LEMMA EnqueueTypes ==
    ASSUME TypesInv, NEW p \in Procs, (\E t \in Teams : EnqueueRead(p, t)) \/ EnqueueInsert(p)
    PROVE  TypesInv'
<1>1. CASE \E t \in Teams : EnqueueRead(p, t)
  <2>1. PICK t \in Teams : EnqueueRead(p, t)
    BY <1>1
  <2> DEFINE r == [pc |-> "insert", team |-> t]
  <2>2. /\ proc' = [proc EXCEPT ![p] = r] /\ proc[p].pc = "free"
        /\ UNCHANGED <<jobs, scored, worker>>
        /\ Len(jobs) + Cardinality(Inserting) < MaxJobs
    BY <2>1 DEF EnqueueRead, IsFree, Room, Inserting
  <2>3. proc' \in [Procs -> Handler(DOMAIN jobs)]
    BY <2>2, ShapesParts, HandlerForms
  <2>4. Inserting' = Inserting \cup {p} /\ p \notin Inserting
    BY <2>2, ShapesParts DEF Inserting
  <2>5. Cardinality(Inserting') = Cardinality(Inserting) + 1
    BY <2>4, ShapesParts, FS_AddElement
  <2>6. Shapes'
    BY <2>2, <2>3, <2>5, ShapesParts, Parameters DEF TypesInv, Shapes
  <2>7. Served'
    BY <2>2, ShapesParts, SameServed DEF TypesInv, Serving
  <2> QED
    BY <2>6, <2>7 DEF TypesInv
<1>2. CASE EnqueueInsert(p)
  <2> DEFINE n == Len(jobs) + 1
  <2>1. PICK created :
          /\ created \in (IF jobs = <<>> THEN 0 ELSE jobs[Len(jobs)].created)..Len(jobs)
          /\ jobs' = Append(jobs, [team |-> proc[p].team, state |-> "waiting",
                                   created |-> created, age |-> 0])
    BY <1>2 DEF EnqueueInsert
  <2>2. /\ proc[p].pc = "insert" /\ proc' = [proc EXCEPT ![p] = Free]
        /\ UNCHANGED <<scored, worker>>
    BY <1>2 DEF EnqueueInsert
  <2>3. created \in Nat /\ created <= n
    <3>1. (IF jobs = <<>> THEN 0 ELSE jobs[Len(jobs)].created) \in Nat
      <4>1. CASE jobs = <<>>
        BY <4>1
      <4>2. CASE jobs # <<>>
        <5>1. Len(jobs) \in DOMAIN jobs
          BY <4>2, ShapesParts
        <5> QED
          BY <4>2, <5>1, ShapesParts DEF Job
      <4> QED
        BY <4>1, <4>2
    <3> QED
      BY <2>1, <3>1, ShapesParts
  <2>4. proc[p].team \in Teams
    BY <2>2, ShapesParts, Fields
  <2> DEFINE new == [team |-> proc[p].team, state |-> "waiting", created |-> created, age |-> 0]
  <2>5. new \in Job
    BY <2>3, <2>4, Parameters DEF Job, Active
  <2>6. /\ jobs' \in Seq(Job) /\ Len(jobs') = n /\ DOMAIN jobs' = 1..n
        /\ jobs'[n] = new /\ \A j \in DOMAIN jobs : jobs'[j] = jobs[j]
        /\ DOMAIN jobs' = DOMAIN jobs \cup {n}
    BY <2>1, <2>5, ShapesParts
  <2>7. \A j \in DOMAIN jobs' : jobs'[j].created <= j
    BY <2>3, <2>6 DEF TypesInv, Shapes
  <2>8. Inserting' = Inserting \ {p} /\ p \in Inserting
    BY <2>2, ShapesParts DEF Inserting, Free
  <2>9. Cardinality(Inserting') = Cardinality(Inserting) - 1
    BY <2>8, ShapesParts, FS_RemoveElement
  <2>10. proc' \in [Procs -> Handler(DOMAIN jobs')] /\ worker' \in [Hosts -> Worker(DOMAIN jobs')]
    <3>1. /\ Handler(DOMAIN jobs) \subseteq Handler(DOMAIN jobs')
          /\ Worker(DOMAIN jobs) \subseteq Worker(DOMAIN jobs')
      BY <2>6 DEF Handler, Worker
    <3> QED
      BY <2>2, <3>1, ShapesParts, HandlerForms
  <2>11. Shapes'
    BY <2>2, <2>6, <2>7, <2>9, <2>10, ShapesParts, Parameters DEF TypesInv, Shapes
  <2>12. Served'
    BY <2>2, ShapesParts, SameServed DEF TypesInv, Serving, Free
  <2> QED
    BY <2>11, <2>12 DEF TypesInv
<1> QED
  BY <1>1, <1>2

\* A step that keeps the table's rows, and whose handlers and workers are
\* known to be served.
LEMMA RowTypes ==
    ASSUME TypesInv, Served', DOMAIN jobs' = DOMAIN jobs, Len(jobs') = Len(jobs),
           jobs' \in Seq(Job), \A j \in DOMAIN jobs : jobs'[j].created = jobs[j].created,
           scored' \in [JobIds -> Nat], proc' \in [Procs -> Handler(DOMAIN jobs)],
           worker' \in [Hosts -> Worker(DOMAIN jobs)], Inserting' \subseteq Inserting
    PROVE  TypesInv'
  BY KeepShapes DEF TypesInv

\* One job gets a new state.
LEMMA SetStateForm ==
    ASSUME TypesInv, NEW j \in DOMAIN jobs, NEW state \in Active \cup {"done", "aborted"},
           SetState(j, state)
    PROVE  /\ jobs' \in Seq(Job) /\ Len(jobs') = Len(jobs) /\ DOMAIN jobs' = DOMAIN jobs
           /\ jobs'[j].state = state /\ jobs'[j].age = 0
           /\ \A k \in DOMAIN jobs : /\ jobs'[k].team = jobs[k].team
                                     /\ jobs'[k].created = jobs[k].created
                                     /\ k # j => jobs'[k] = jobs[k]
<1> DEFINE new == [jobs[j] EXCEPT !.state = state, !.age = 0]
<1>1. jobs[j] \in Job /\ jobs \in Seq(Job)
  BY ShapesParts
<1>2. jobs' = [jobs EXCEPT ![j] = new]
  BY <1>1 DEF SetState
<1>3. /\ new \in Job /\ new.state = state /\ new.age = 0 /\ new.team = jobs[j].team
      /\ new.created = jobs[j].created
  <2>1. 0 \in 0..Timeout + 1
    BY Parameters
  <2> QED
    BY <1>1, <2>1 DEF Job
<1> HIDE DEF new
<1> QED
  BY <1>1, <1>2, <1>3

LEMMA GetTypes ==
    ASSUME TypesInv, NEW p \in Procs, NEW h \in Hosts, GetJob(p, h) \/ DoneRead(p, h)
    PROVE  TypesInv'
<1> USE ShapesParts
<1>1. proc[p].pc = "free" /\ h \in Clients /\ UNCHANGED <<jobs, scored>>
  BY DEF GetJob, DoneRead, IsFree, Clients
<1>2. ASSUME NEW r \in Handler(DOMAIN jobs), NEW w \in Worker(DOMAIN jobs), r.pc \in Serving,
             r.client = h, w.pc = IF r.pc = "score" THEN "posting" ELSE "getting",
             worker[h].pc \notin Waiting,
             proc' = [proc EXCEPT ![p] = r], worker' = [worker EXCEPT ![h] = w]
      PROVE  TypesInv'
  <2>1. Served'
    BY <1>1, <1>2, BeginServed DEF TypesInv, Serving
  <2>2. Inserting' \subseteq Inserting
    BY <1>2 DEF Inserting, Serving
  <2>3. proc' \in [Procs -> Handler(DOMAIN jobs)] /\ worker' \in [Hosts -> Worker(DOMAIN jobs)]
    BY <1>2
  <2> QED
    BY <1>1, <2>1, <2>2, <2>3, RowTypes
<1>3. CASE GetJob(p, h)
  <2> DEFINE r == IF Overdue = {} THEN [pc |-> "dequeue", host |-> h, client |-> h]
                  ELSE [pc |-> "sweep", host |-> h, client |-> h, ids |-> Overdue]
             w == [pc |-> "getting"]
  <2>1. Overdue \in SUBSET DOMAIN jobs
    BY DEF Overdue
  <2>2. r \in Handler(DOMAIN jobs) /\ r.pc \in {"sweep", "dequeue"} /\ r.client = h
    BY <1>1, <2>1, HandlerForms
  <2>3. w \in Worker(DOMAIN jobs) /\ w.pc = "getting"
    BY WorkerForms
  <2>4. /\ proc' = [proc EXCEPT ![p] = r] /\ worker' = [worker EXCEPT ![h] = w]
        /\ worker[h].pc = "idle"
    BY <1>3 DEF GetJob
  <2> HIDE DEF r, w
  <2> QED
    BY <1>2, <2>2, <2>3, <2>4 DEF Serving, Waiting
<1>4. CASE DoneRead(p, h) /\ jobs[worker[h].job].state = "running"
  <2> DEFINE r == [pc |-> "score", job |-> worker[h].job, client |-> h]
             w == [worker[h] EXCEPT !.pc = "posting"]
  <2>1. worker[h].pc = "post" /\ worker[h].job \in DOMAIN jobs
    BY <1>4, Fields DEF DoneRead
  <2>2. r \in Handler(DOMAIN jobs) /\ r.pc = "score" /\ r.client = h
    BY <1>1, <2>1, HandlerForms
  <2>3. w \in Worker(DOMAIN jobs) /\ w.pc = "posting"
    BY <2>1, WorkerForms
  <2>4. proc' = [proc EXCEPT ![p] = r] /\ worker' = [worker EXCEPT ![h] = w]
    BY <1>4 DEF DoneRead
  <2> HIDE DEF r, w
  <2> QED
    BY <1>2, <2>1, <2>2, <2>3, <2>4 DEF Serving, Waiting
<1>5. CASE DoneRead(p, h) /\ jobs[worker[h].job].state # "running"
  <2>1. worker[h].pc = "post" /\ worker' = Failed(h) /\ UNCHANGED proc
    BY <1>5 DEF DoneRead
  <2>2. PICK w \in Worker(DOMAIN jobs) :
          worker' = [worker EXCEPT ![h] = w] /\ w.pc \in {"idle", "post"}
    BY <2>1, FailedForm
  <2>3. worker' \in [Hosts -> Worker(DOMAIN jobs)]
    BY <2>2
  <2>4. Served'
    BY <2>1, <2>2, SameServed DEF TypesInv, Waiting
  <2> QED
    BY <1>1, <2>1, <2>3, <2>4, RowTypes DEF Inserting
<1> QED
  BY <1>3, <1>4, <1>5

\* What the worker of a handler p gets when the handler answers it with w.
Answer(p, w) == IF proc[p].client = Gone THEN worker ELSE [worker EXCEPT ![proc[p].client] = w]

LEMMA AnswerTypes ==
    ASSUME TypesInv, NEW p \in Procs, proc[p].pc \in Serving,
           NEW r \in Handler(DOMAIN jobs), r.pc = "free" \/ (r.pc \in Serving /\ r.client = Gone),
           NEW w \in Worker(DOMAIN jobs), w.pc \notin Waiting,
           proc' = [proc EXCEPT ![p] = r], worker' = Answer(p, w),
           jobs' \in Seq(Job), Len(jobs') = Len(jobs), DOMAIN jobs' = DOMAIN jobs,
           \A j \in DOMAIN jobs : jobs'[j].created = jobs[j].created,
           scored' \in [JobIds -> Nat]
    PROVE  TypesInv'
<1> USE ShapesParts
<1>1. Served'
  BY EndServed DEF TypesInv, Answer, Serving
<1>2. Inserting' \subseteq Inserting
  BY DEF Inserting, Serving
<1>3. proc' \in [Procs -> Handler(DOMAIN jobs)] /\ worker' \in [Hosts -> Worker(DOMAIN jobs)]
  <2>1. proc[p].client \in Hosts \/ proc[p].client = Gone
    BY Fields DEF Clients
  <2> QED
    BY <2>1 DEF Answer
<1> QED
  BY <1>1, <1>2, <1>3, RowTypes

LEMMA HandleTypes ==
    ASSUME TypesInv, NEW p \in Procs,
           Sweep(p) \/ NoJob(p) \/ DequeueRead(p) \/ DequeueUpdate(p) \/ DoneWrite(p)
    PROVE  TypesInv'
<1> USE ShapesParts
<1>1. ASSUME NEW r \in Handler(DOMAIN jobs), proc' = [proc EXCEPT ![p] = r],
             proc[p].pc \in Serving \ {"score"}, r.pc \in Serving \ {"score"},
             r.client = proc[p].client, UNCHANGED <<scored, worker>>,
             jobs' \in Seq(Job), Len(jobs') = Len(jobs), DOMAIN jobs' = DOMAIN jobs,
             \A j \in DOMAIN jobs : jobs'[j].created = jobs[j].created
      PROVE  TypesInv'
  <2>1. Served'
    BY <1>1, SameServed DEF TypesInv
  <2>2. Inserting' \subseteq Inserting
    BY <1>1 DEF Inserting, Serving
  <2>3. proc' \in [Procs -> Handler(DOMAIN jobs)]
    BY <1>1
  <2> QED
    BY <1>1, <2>1, <2>2, <2>3, RowTypes
<1>2. CASE Sweep(p)
  <2> DEFINE r == [pc |-> "dequeue", host |-> proc[p].host, client |-> proc[p].client]
  <2>1. /\ proc[p].pc = "sweep" /\ proc' = [proc EXCEPT ![p] = r] /\ UNCHANGED <<scored, worker>>
        /\ jobs' = [j \in DOMAIN jobs |->
             IF j \in proc[p].ids THEN [jobs[j] EXCEPT !.state = "aborted", !.age = 0]
                                  ELSE jobs[j]]
    BY <1>2 DEF Sweep
  <2>2. r \in Handler(DOMAIN jobs) /\ r.pc = "dequeue" /\ r.client = proc[p].client
    <3>1. proc[p].host \in Hosts /\ proc[p].client \in Clients
      BY <2>1, Fields DEF Serving
    <3> QED
      BY <3>1, HandlerForms
  <2>3. 0 \in 0..Timeout + 1
    BY Parameters
  <2>4. \A j \in DOMAIN jobs : jobs'[j] \in Job /\ jobs'[j].created = jobs[j].created
    BY <2>1, <2>3 DEF Job
  <2>5. jobs' \in Seq(Job) /\ Len(jobs') = Len(jobs) /\ DOMAIN jobs' = DOMAIN jobs
    <3>1. jobs' \in [1..Len(jobs) -> Job]
      BY <2>1, <2>4
    <3> QED
      BY <3>1
  <2> HIDE DEF r
  <2> QED
    BY <1>1, <2>1, <2>2, <2>4, <2>5 DEF Serving
<1>3. CASE NoJob(p)
  <2>1. /\ proc[p].pc = "dequeue" /\ proc' = [proc EXCEPT ![p] = Free]
        /\ worker' = Answer(p, Idle) /\ UNCHANGED <<jobs, scored>>
    BY <1>3 DEF NoJob, Answer
  <2>2. /\ Free \in Handler(DOMAIN jobs) /\ Free.pc = "free"
        /\ Idle \in Worker(DOMAIN jobs) /\ Idle.pc = "idle"
    BY HandlerForms, WorkerForms DEF Free
  <2> QED
    BY <2>1, <2>2, AnswerTypes DEF Serving, Waiting
<1>4. CASE DequeueRead(p)
  <2>1. PICK j \in Oldest(proc[p].host) :
          proc' = [proc EXCEPT ![p] = [pc |-> "take", job |-> j, client |-> proc[p].client]]
    BY <1>4 DEF DequeueRead
  <2> DEFINE r == [pc |-> "take", job |-> j, client |-> proc[p].client]
  <2>2. j \in DOMAIN jobs /\ proc[p].pc = "dequeue" /\ UNCHANGED <<jobs, scored, worker>>
    BY <1>4 DEF DequeueRead, Oldest
  <2>3. r \in Handler(DOMAIN jobs) /\ r.pc = "take" /\ r.client = proc[p].client
    <3>1. proc[p].client \in Clients
      BY <2>2, Fields DEF Serving
    <3> QED
      BY <2>2, <3>1, HandlerForms
  <2> HIDE DEF r
  <2> QED
    BY <1>1, <2>1, <2>2, <2>3 DEF Serving, r
<1>5. CASE DequeueUpdate(p)
  <2> DEFINE w == [pc |-> "running", job |-> proc[p].job, ran |-> 0]
  <2>1. /\ proc[p].pc = "take" /\ SetState(proc[p].job, "running")
        /\ proc' = [proc EXCEPT ![p] = Free] /\ worker' = Answer(p, w) /\ UNCHANGED scored
    BY <1>5 DEF DequeueUpdate, Answer
  <2>2. proc[p].job \in DOMAIN jobs
    BY <2>1, Fields
  <2>3. /\ Free \in Handler(DOMAIN jobs) /\ Free.pc = "free"
        /\ w \in Worker(DOMAIN jobs) /\ w.pc = "running"
    BY <2>2, HandlerForms, WorkerForms DEF Free
  <2>4. "running" \in Active \cup {"done", "aborted"}
    BY DEF Active
  <2>5. /\ jobs' \in Seq(Job) /\ Len(jobs') = Len(jobs) /\ DOMAIN jobs' = DOMAIN jobs
        /\ \A j \in DOMAIN jobs : jobs'[j].created = jobs[j].created
    BY <2>1, <2>2, <2>4, SetStateForm
  <2> HIDE DEF w
  <2> QED
    BY <2>1, <2>3, <2>5, AnswerTypes DEF Serving, Waiting
<1>6. CASE DoneWrite(p)
  <2>1. /\ proc[p].pc = "score" /\ SetState(proc[p].job, "done")
        /\ proc' = [proc EXCEPT ![p] = Free] /\ worker' = Answer(p, Idle)
        /\ scored' = [scored EXCEPT ![proc[p].job] = @ + 1]
    BY <1>6 DEF DoneWrite, Answer
  <2>2. proc[p].job \in DOMAIN jobs
    BY <2>1, Fields
  <2>3. /\ Free \in Handler(DOMAIN jobs) /\ Free.pc = "free"
        /\ Idle \in Worker(DOMAIN jobs) /\ Idle.pc = "idle"
    BY HandlerForms, WorkerForms DEF Free
  <2>4. /\ jobs' \in Seq(Job) /\ Len(jobs') = Len(jobs) /\ DOMAIN jobs' = DOMAIN jobs
        /\ \A j \in DOMAIN jobs : jobs'[j].created = jobs[j].created
    BY <2>1, <2>2, SetStateForm
  <2>5. scored' \in [JobIds -> Nat]
    <3>1. proc[p].job \in JobIds /\ scored[proc[p].job] + 1 \in Nat
      BY <2>2
    <3> QED
      BY <2>1, <3>1
  <2> QED
    BY <2>1, <2>3, <2>4, <2>5, AnswerTypes DEF Serving, Waiting
<1> QED
  BY <1>2, <1>3, <1>4, <1>5, <1>6

LEMMA WorkTypes ==
    ASSUME TypesInv, NEW h \in Hosts,
           \/ \E file \in {"good", "bad", "none"} : RunEnds(h, file)
           \/ PostNoFile(h) \/ abort_job(h)
    PROVE  TypesInv'
<1> USE ShapesParts
<1>1. ASSUME NEW w \in Worker(DOMAIN jobs), w.pc \notin Waiting, worker[h].pc \notin Waiting,
             worker' = [worker EXCEPT ![h] = w], UNCHANGED <<scored, proc>>,
             jobs' \in Seq(Job), Len(jobs') = Len(jobs), DOMAIN jobs' = DOMAIN jobs,
             \A j \in DOMAIN jobs : jobs'[j].created = jobs[j].created
      PROVE  TypesInv'
  <2>1. Served'
    BY <1>1, SameServed DEF TypesInv
  <2>2. worker' \in [Hosts -> Worker(DOMAIN jobs)]
    BY <1>1
  <2> QED
    BY <1>1, <2>1, <2>2, RowTypes DEF Inserting
<1>2. ASSUME NEW file \in {"good", "bad", "none"}, RunEnds(h, file) PROVE TypesInv'
  <2> DEFINE w == [pc |-> "post", job |-> worker[h].job, file |-> file, try |-> 1]
  <2>1. worker[h].pc = "running" /\ worker[h].job \in DOMAIN jobs
    BY <1>2, Fields DEF RunEnds
  <2>2. w \in Worker(DOMAIN jobs) /\ w.pc = "post"
    BY <2>1, WorkerForms
  <2>3. worker' = [worker EXCEPT ![h] = w] /\ UNCHANGED <<jobs, scored, proc>>
    BY <1>2 DEF RunEnds
  <2> HIDE DEF w
  <2> QED
    BY <1>1, <2>1, <2>2, <2>3 DEF Waiting
<1>3. CASE PostNoFile(h)
  <2>1. worker[h].pc = "post" /\ worker' = Failed(h) /\ UNCHANGED <<jobs, scored, proc>>
    BY <1>3 DEF PostNoFile
  <2>2. PICK w \in Worker(DOMAIN jobs) :
          worker' = [worker EXCEPT ![h] = w] /\ w.pc \in {"idle", "post"}
    BY <2>1, FailedForm
  <2> QED
    BY <1>1, <2>1, <2>2 DEF Waiting
<1>4. CASE abort_job(h)
  <2>1. worker[h].pc = "post" /\ UNCHANGED <<scored, proc>> /\ worker[h].job \in DOMAIN jobs
    BY <1>4, Fields DEF abort_job
  <2>2. worker' = [worker EXCEPT ![h] = Idle] \/ worker' = Failed(h)
    BY <1>4 DEF abort_job
  <2>3. PICK w \in Worker(DOMAIN jobs) :
          worker' = [worker EXCEPT ![h] = w] /\ w.pc \in {"idle", "post"}
    BY <2>1, <2>2, FailedForm, WorkerForms
  <2>4. /\ jobs' \in Seq(Job) /\ Len(jobs') = Len(jobs) /\ DOMAIN jobs' = DOMAIN jobs
        /\ \A j \in DOMAIN jobs : jobs'[j].created = jobs[j].created
    BY <1>4, <2>1, SetStateForm DEF abort_job
  <2> QED
    BY <1>1, <2>1, <2>3, <2>4 DEF Waiting
<1> QED
  BY <1>2, <1>3, <1>4

LEMMA ForgetsTypes == ASSUME TypesInv, NEW h \in Hosts, Forgets(h) PROVE TypesInv'
<1> USE ShapesParts
<1>1. /\ worker[h].pc \in {"running", "post", "posting"}
      /\ worker' = [worker EXCEPT ![h] = Idle] /\ UNCHANGED <<jobs, scored>>
      /\ proc' = [p \in Procs |-> IF proc[p].pc = "score" /\ proc[p].client = h
                                  THEN [proc[p] EXCEPT !.client = Gone] ELSE proc[p]]
  BY DEF Forgets
<1>2. \A p \in Procs : /\ proc'[p] \in Handler(DOMAIN jobs) /\ proc'[p].pc = proc[p].pc
                       /\ proc[p].pc \in Serving => proc'[p].client =
                            IF proc[p].pc = "score" /\ proc[p].client = h
                            THEN Gone ELSE proc[p].client
  <2> SUFFICES ASSUME NEW p \in Procs
               PROVE  /\ proc'[p] \in Handler(DOMAIN jobs) /\ proc'[p].pc = proc[p].pc
                      /\ proc[p].pc \in Serving => proc'[p].client =
                            IF proc[p].pc = "score" /\ proc[p].client = h
                            THEN Gone ELSE proc[p].client
    OBVIOUS
  <2>1. CASE proc[p].pc = "score" /\ proc[p].client = h
    <3>1. proc'[p] = [proc[p] EXCEPT !.client = Gone] /\ proc[p].pc \in Serving
      BY <1>1, <2>1 DEF Serving
    <3> QED
      BY <2>1, <3>1, GoneForm
  <2>2. CASE ~(proc[p].pc = "score" /\ proc[p].client = h)
    BY <1>1, <2>2
  <2> QED
    BY <2>1, <2>2
<1>3. worker' \in [Hosts -> Worker(DOMAIN jobs)] /\ worker'[h].pc = "idle"
      /\ \A g \in Hosts \ {h} : worker'[g] = worker[g]
  BY <1>1, WorkerForms
<1>4. \A p \in Procs : proc[p].pc \in Serving /\ proc[p].client = h => proc[p].pc = "score"
  BY <1>1 DEF TypesInv, Served
<1>5. Served'
  <2>1. \A p \in Procs : proc'[p].pc \in Serving /\ proc'[p].client \in Hosts
          => proc'[p].client = proc[p].client /\ proc[p].client # h
    BY <1>2, <1>4, Parameters
  <2>2. \A g \in Hosts : worker'[g].pc \in Waiting
          => \E p \in Procs : proc'[p].pc \in Serving /\ proc'[p].client = g
    <3> SUFFICES ASSUME NEW g \in Hosts, worker'[g].pc \in Waiting
                 PROVE  \E p \in Procs : proc'[p].pc \in Serving /\ proc'[p].client = g
      OBVIOUS
    <3>1. g # h /\ worker[g].pc \in Waiting
      BY <1>3 DEF Waiting
    <3>2. PICK p \in Procs : proc[p].pc \in Serving /\ proc[p].client = g
      BY <3>1 DEF TypesInv, Served
    <3> QED
      BY <1>2, <3>1, <3>2
  <2>3. \A p \in Procs : proc'[p].pc \in Serving /\ proc'[p].client \in Hosts
          => worker'[proc'[p].client].pc = IF proc'[p].pc = "score" THEN "posting" ELSE "getting"
    BY <1>2, <1>3, <2>1 DEF TypesInv, Served
  <2>4. \A p, q \in Procs : /\ proc'[p].pc \in Serving /\ proc'[q].pc \in Serving
                            /\ proc'[p].client \in Hosts /\ proc'[p].client = proc'[q].client
                            => p = q
    BY <1>2, <2>1 DEF TypesInv, Served
  <2> QED
    BY <2>2, <2>3, <2>4 DEF Served
<1>6. Inserting' \subseteq Inserting
  BY <1>2 DEF Inserting
<1>7. proc' \in [Procs -> Handler(DOMAIN jobs)]
  BY <1>1, <1>2
<1> QED
  BY <1>1, <1>3, <1>5, <1>6, <1>7, RowTypes

LEMMA LoseTypes == ASSUME TypesInv, NEW p \in Procs, LoseAnswer(p) PROVE TypesInv'
<1> USE ShapesParts
<1> DEFINE r == [proc[p] EXCEPT !.client = Gone]
<1>1. /\ proc[p].pc \in Serving /\ proc[p].client # Gone /\ UNCHANGED <<jobs, scored>>
      /\ proc' = [proc EXCEPT ![p] = r]
      /\ worker' = IF proc[p].pc = "score" THEN Failed(proc[p].client)
                   ELSE [worker EXCEPT ![proc[p].client] = Idle]
  BY DEF LoseAnswer, Serving
<1>2. proc[p].client \in Hosts
  BY <1>1, Fields DEF Clients
<1>3. r \in Handler(DOMAIN jobs) /\ r.pc = proc[p].pc /\ r.client = Gone
  BY <1>1, GoneForm
<1>4. proc[p].pc = "score" => worker[proc[p].client].pc = "posting"
  BY <1>1, <1>2 DEF TypesInv, Served
<1>5. PICK w \in Worker(DOMAIN jobs) :
        worker' = [worker EXCEPT ![proc[p].client] = w] /\ w.pc \in {"idle", "post"}
  BY <1>1, <1>2, <1>4, FailedForm, WorkerForms
<1>6. worker' = Answer(p, w)
  BY <1>1, <1>5 DEF Answer
<1> HIDE DEF r
<1> QED
  BY <1>1, <1>3, <1>5, <1>6, AnswerTypes DEF Waiting

LEMMA TickForm ==
    ASSUME TypesInv, Tick
    PROVE  /\ jobs' \in Seq(Job) /\ Len(jobs') = Len(jobs) /\ DOMAIN jobs' = DOMAIN jobs
           /\ \A j \in DOMAIN jobs :
                /\ jobs'[j].team = jobs[j].team /\ jobs'[j].created = jobs[j].created
                /\ jobs'[j].state = jobs[j].state
                /\ jobs'[j].age = IF jobs[j].state = "running" /\ jobs[j].age <= Timeout
                                  THEN jobs[j].age + 1 ELSE jobs[j].age
           /\ worker' \in [Hosts -> Worker(DOMAIN jobs)]
           /\ \A h \in Hosts :
                IF worker[h].pc = "running"
                THEN /\ worker'[h].pc = "running" /\ worker'[h].job = worker[h].job
                     /\ worker'[h].ran = worker[h].ran + 1
                ELSE worker'[h] = worker[h]
           /\ UNCHANGED <<scored, proc, together, late, faults>>
<1> USE ShapesParts
<1>1. \A j \in DOMAIN jobs : jobs[j].age <= Timeout => jobs[j].age + 1 \in 0..Timeout + 1
  BY Parameters DEF Job
<1>2. jobs' = [j \in DOMAIN jobs |->
         IF jobs[j].state = "running" /\ jobs[j].age <= Timeout
         THEN [jobs[j] EXCEPT !.age = jobs[j].age + 1] ELSE jobs[j]]
  BY DEF Tick
<1>3. \A j \in DOMAIN jobs :
        /\ jobs'[j] \in Job
        /\ jobs'[j].team = jobs[j].team /\ jobs'[j].created = jobs[j].created
        /\ jobs'[j].state = jobs[j].state
        /\ jobs'[j].age = IF jobs[j].state = "running" /\ jobs[j].age <= Timeout
                          THEN jobs[j].age + 1 ELSE jobs[j].age
  BY <1>1, <1>2 DEF Job
<1>4. jobs' \in Seq(Job) /\ Len(jobs') = Len(jobs) /\ DOMAIN jobs' = DOMAIN jobs
  <2>1. jobs' \in [1..Len(jobs) -> Job]
    BY <1>2, <1>3
  <2> QED
    BY <2>1
<1>5. \A h \in Hosts :
        /\ worker'[h] \in Worker(DOMAIN jobs)
        /\ IF worker[h].pc = "running"
           THEN /\ worker'[h].pc = "running" /\ worker'[h].job = worker[h].job
                /\ worker'[h].ran = worker[h].ran + 1
           ELSE worker'[h] = worker[h]
  <2> SUFFICES ASSUME NEW h \in Hosts
               PROVE  /\ worker'[h] \in Worker(DOMAIN jobs)
                      /\ IF worker[h].pc = "running"
                         THEN /\ worker'[h].pc = "running" /\ worker'[h].job = worker[h].job
                              /\ worker'[h].ran = worker[h].ran + 1
                         ELSE worker'[h] = worker[h]
    OBVIOUS
  <2>1. CASE worker[h].pc = "running"
    <3>1. worker'[h] = [worker[h] EXCEPT !.ran = @ + 1] /\ worker[h].ran < RunLimit
      BY <2>1 DEF Tick
    <3> QED
      BY <2>1, <3>1, WorkerForms
  <2>2. CASE worker[h].pc # "running"
    BY <2>2 DEF Tick
  <2> QED
    BY <2>1, <2>2
<1>6. worker' \in [Hosts -> Worker(DOMAIN jobs)]
  BY <1>5 DEF Tick
<1> QED
  BY <1>3, <1>4, <1>5, <1>6 DEF Tick

LEMMA NextTypes == TypesInv /\ [Next]_vars => TypesInv'
<1> SUFFICES ASSUME TypesInv, [Next]_vars PROVE TypesInv'
  OBVIOUS
<1>1. CASE Tick
  <2>1. Served'
    BY <1>1, TickForm, SameServed DEF TypesInv, Waiting
  <2> QED
    BY <1>1, <2>1, TickForm, ShapesParts, RowTypes DEF Inserting
<1>2. CASE UNCHANGED vars
  BY <1>2 DEF vars, TypesInv, Shapes, Served, Inserting
<1> QED
  BY <1>1, <1>2, EnqueueTypes, GetTypes, HandleTypes, WorkTypes, ForgetsTypes, LoseTypes
     DEF Next, Handle, Work

\* Types; a worker waits for an answer exactly as long as a handler serves it.
THEOREM TypeCorrect == Spec => []TypeOK
<1>1. TypesInv => TypeOK
  <2> SUFFICES ASSUME TypesInv PROVE TypeOK
    OBVIOUS
  <2> USE ShapesParts
  <2>1. Len(jobs) <= MaxJobs
    BY Parameters DEF TypesInv, Shapes
  <2>2. \A j \in DOMAIN jobs :
          /\ jobs[j].team \in Teams /\ jobs[j].created \in 0..j
          /\ jobs[j].state \in Active \cup {"done", "aborted"}
          /\ jobs[j].age \in 0..Timeout + 1
    BY DEF TypesInv, Shapes, Job
  <2>3. \A p \in Procs :
          /\ proc[p].pc \in {"free", "insert", "sweep", "dequeue", "take", "score"}
          /\ proc[p].pc = "insert" => proc[p].team \in Teams
          /\ proc[p].pc = "sweep" => proc[p].ids \subseteq DOMAIN jobs
          /\ proc[p].pc \in {"take", "score"} => proc[p].job \in DOMAIN jobs
          /\ proc[p].pc \in {"sweep", "dequeue", "take", "score"}
               => proc[p].client \in Hosts \cup {Gone}
          /\ proc[p].pc \in Serving <=> proc[p].pc # "free" /\ proc[p].pc # "insert"
    BY Fields DEF Serving, Clients
  <2>4. \A h \in Hosts :
          /\ worker[h].pc \in {"idle", "getting", "running", "post", "posting"}
          /\ worker[h].pc \in {"running", "post", "posting"} => worker[h].job \in DOMAIN jobs
    BY Fields
  <2>5. \A h \in Hosts : worker[h].pc \in {"getting", "posting"}
          <=> \E p \in Procs : proc[p].pc # "free" /\ proc[p].pc # "insert"
                                /\ proc[p].client = h
    BY <2>3 DEF TypesInv, Served, Waiting
  <2> QED
    BY <2>1, <2>2, <2>3, <2>4, <2>5 DEF TypeOK
<1> QED
  BY <1>1, InitTypes, NextTypes, PTL DEF Spec
-----------------------------------------------------------------------------
(* The table: what is queued and what runs. *)

Holding == {"running", "post", "posting"}
Apart(j) == NodeOfTeam(jobs[j].team) \notin together
Alone(t) == t \notin together /\ NodeOfTeam(t) \notin together

\* Nobody who runs, scores or sweeps a job finds it waiting (again).
Held ==
    /\ \A h \in Hosts : worker[h].pc \in Holding => jobs[worker[h].job].state # "waiting"
    /\ \A p \in Procs :
         /\ proc[p].pc = "score" => jobs[proc[p].job].state # "waiting"
         /\ proc[p].pc = "sweep" => \A j \in proc[p].ids : jobs[j].state # "waiting"

\* What a handler about to insert a row knows of its team.
Inserts == \A p \in Procs : proc[p].pc = "insert" /\ Alone(proc[p].team) =>
    /\ \A j \in DOMAIN jobs : jobs[j].team = proc[p].team => jobs[j].state \notin Active
    /\ \A q \in Procs : proc[q].pc = "insert" /\ proc[q].team = proc[p].team => q = p

\* What a handler about to start a job knows of its machine.
Takes == \A p \in Procs : proc[p].pc = "take" /\ Apart(proc[p].job) =>
    /\ jobs[proc[p].job].state = "waiting"
    /\ \A j \in DOMAIN jobs : jobs[j].state = "running"
         => NodeOfTeam(jobs[j].team) # NodeIn(proc[p])
    /\ \A q \in Procs : proc[q].pc = "take" /\ NodeIn(proc[q]) = NodeIn(proc[p]) => q = p
OneRuns == \A j, k \in DOMAIN jobs :
    /\ jobs[j].state = "running" /\ jobs[k].state = "running"
    /\ NodeOfTeam(jobs[j].team) = NodeOfTeam(jobs[k].team)
    => j = k \/ ~Apart(j)
OneActive == \A j, k \in DOMAIN jobs :
    jobs[j].team = jobs[k].team /\ jobs[j].state \in Active /\ jobs[k].state \in Active
    => j = k \/ ~Alone(jobs[j].team)
Queue == Inserts /\ Takes /\ OneRuns /\ OneActive
TableInv == TypesInv /\ Held /\ Queue

LEMMA HeldStep ==
    ASSUME TypesInv, Held,
           \A j \in DOMAIN jobs : jobs[j].state # "waiting" => jobs'[j].state # "waiting",
           \A h \in Hosts : worker'[h].pc \in Holding =>
             \/ worker[h].pc \in Holding /\ worker'[h].job = worker[h].job
             \/ jobs'[worker'[h].job].state # "waiting",
           \A p \in Procs :
             /\ proc'[p].pc = "score" =>
                  \/ proc[p].pc = "score" /\ proc'[p].job = proc[p].job
                  \/ jobs'[proc'[p].job].state # "waiting"
             /\ proc'[p].pc = "sweep" =>
                  \/ proc[p].pc = "sweep" /\ proc'[p].ids = proc[p].ids
                  \/ \A j \in proc'[p].ids : jobs'[j].state # "waiting"
    PROVE  Held'
<1>1. \A h \in Hosts : worker[h].pc \in Holding => worker[h].job \in DOMAIN jobs
  BY ShapesParts, Fields DEF Holding
<1>2. \A p \in Procs : /\ proc[p].pc = "score" => proc[p].job \in DOMAIN jobs
                       /\ proc[p].pc = "sweep" => proc[p].ids \subseteq DOMAIN jobs
  BY ShapesParts, Fields
<1> QED
  BY <1>1, <1>2 DEF Held

\* A step that queues and starts nothing.
Calm ==
    /\ DOMAIN jobs' = DOMAIN jobs /\ together \subseteq together'
    /\ \A j \in DOMAIN jobs :
         /\ jobs'[j].team = jobs[j].team
         /\ \/ jobs'[j].state = jobs[j].state
            \/ jobs[j].state # "waiting" /\ jobs'[j].state \in {"done", "aborted"}
    /\ \A p \in Procs :
         /\ proc'[p].pc = "insert" => proc[p].pc = "insert" /\ proc'[p].team = proc[p].team
         /\ proc'[p].pc = "take" => proc[p].pc = "take" /\ proc'[p].job = proc[p].job
         /\ proc'[p].pc = "score" => \/ proc[p].pc = "score" /\ proc'[p].job = proc[p].job
                                     \/ jobs[proc'[p].job].state = "running"
         /\ proc'[p].pc = "sweep" => \/ proc[p].pc = "sweep" /\ proc'[p].ids = proc[p].ids
                                     \/ \A j \in proc'[p].ids : jobs[j].state = "running"
    /\ \A h \in Hosts : worker'[h].pc \in Holding =>
         worker[h].pc \in Holding /\ worker'[h].job = worker[h].job

LEMMA CalmTable == ASSUME TableInv, TypesInv', Calm PROVE TableInv'
<1> USE ShapesParts DEF TableInv, Queue
<1>1. /\ \A p \in Procs : /\ proc[p].pc \in {"take", "score"} => proc[p].job \in DOMAIN jobs
                          /\ proc'[p].pc = "score" => proc'[p].job \in DOMAIN jobs
                          /\ proc'[p].pc = "sweep" => proc'[p].ids \subseteq DOMAIN jobs
      /\ \A h \in Hosts : worker[h].pc \in Holding => worker[h].job \in DOMAIN jobs
  <2>1. /\ \A p \in Procs : /\ proc[p].pc \in {"take", "score"} => proc[p].job \in DOMAIN jobs
                            /\ proc[p].pc = "sweep" => proc[p].ids \subseteq DOMAIN jobs
        /\ \A h \in Hosts : worker[h].pc \in Holding => worker[h].job \in DOMAIN jobs
    BY Fields DEF Holding
  <2>2. proc' \in [Procs -> Handler(DOMAIN jobs')]
    BY DEF TypesInv, Shapes
  <2>3. \A p \in Procs : /\ proc'[p].pc = "score" => proc'[p].job \in DOMAIN jobs
                         /\ proc'[p].pc = "sweep" => proc'[p].ids \subseteq DOMAIN jobs
    BY <2>2, Fields DEF Calm
  <2> QED
    BY <2>1, <2>3 DEF Holding
<1>2. Held'
  <2>1. \A j \in DOMAIN jobs : jobs[j].state # "waiting" => jobs'[j].state # "waiting"
    BY DEF Calm
  <2>2. \A p \in Procs :
          /\ proc'[p].pc = "score" =>
               \/ proc[p].pc = "score" /\ proc'[p].job = proc[p].job
               \/ jobs'[proc'[p].job].state # "waiting"
          /\ proc'[p].pc = "sweep" =>
               \/ proc[p].pc = "sweep" /\ proc'[p].ids = proc[p].ids
               \/ \A j \in proc'[p].ids : jobs'[j].state # "waiting"
    BY <1>1, <2>1 DEF Calm
  <2> QED
    BY <2>1, <2>2, HeldStep DEF Calm
<1>3. /\ DOMAIN jobs' = DOMAIN jobs /\ together \subseteq together'
      /\ \A j \in DOMAIN jobs : /\ jobs'[j].team = jobs[j].team
                                /\ jobs'[j].state \in Active => jobs'[j].state = jobs[j].state
                                /\ jobs[j].state = "waiting" => jobs'[j].state = "waiting"
                                /\ Apart(j)' => Apart(j)
  BY DEF Calm, Active, Apart, NodeOfTeam
<1>4. \A t : Alone(t)' => Alone(t)
  BY <1>3 DEF Alone, NodeOfTeam
<1>5. \A p \in Procs : proc'[p].pc = "take" =>
        /\ proc[p].pc = "take" /\ proc'[p].job = proc[p].job /\ proc[p].job \in DOMAIN jobs
        /\ NodeIn(proc[p])' = NodeIn(proc[p])
  BY <1>1, <1>3 DEF Calm, NodeIn, NodeOfTeam
<1>6. Inserts'
  <2> SUFFICES ASSUME NEW p \in Procs, proc'[p].pc = "insert", Alone(proc[p].team)'
               PROVE  /\ \A j \in DOMAIN jobs : jobs'[j].team = proc'[p].team
                           => jobs'[j].state \notin Active
                      /\ \A q \in Procs : proc'[q].pc = "insert" /\ proc'[q].team = proc'[p].team
                           => q = p
    BY <1>3 DEF Inserts, Alone, NodeOfTeam, Active
  <2>1. proc[p].pc = "insert" /\ proc'[p].team = proc[p].team
    BY DEF Calm
  <2>2. Alone(proc[p].team)
    BY <1>4, <2>1
  <2>3. \A q \in Procs : proc'[q].pc = "insert" => proc[q].pc = "insert"
                                                   /\ proc'[q].team = proc[q].team
    BY DEF Calm
  <2> QED
    BY <1>3, <2>1, <2>2, <2>3 DEF Inserts
<1>7. Takes'
  <2> SUFFICES ASSUME NEW p \in Procs, proc'[p].pc = "take", Apart(proc[p].job)'
               PROVE  /\ jobs'[proc'[p].job].state = "waiting"
                      /\ \A j \in DOMAIN jobs : jobs'[j].state = "running"
                           => NodeOfTeam(jobs'[j].team) # NodeIn(proc[p])'
                      /\ \A q \in Procs : /\ proc'[q].pc = "take"
                                          /\ NodeIn(proc[q])' = NodeIn(proc[p])'
                                          => q = p
    BY <1>3 DEF Takes, Apart, NodeOfTeam, NodeIn
  <2>1. Apart(proc[p].job) /\ proc[p].pc = "take" /\ proc[p].job \in DOMAIN jobs
    BY <1>3, <1>5
  <2>2. jobs'[proc'[p].job].state = "waiting"
    BY <1>3, <1>5, <2>1 DEF Takes
  <2>3. ASSUME NEW j \in DOMAIN jobs, jobs'[j].state = "running"
        PROVE  NodeOfTeam(jobs'[j].team) # NodeIn(proc[p])'
    <3>1. jobs[j].state = "running" /\ jobs'[j].team = jobs[j].team
      BY <1>3, <2>3 DEF Active
    <3>2. NodeOfTeam(jobs[j].team) # NodeIn(proc[p])
      BY <2>1, <3>1 DEF Takes
    <3> QED
      BY <1>5, <3>1, <3>2
  <2>4. ASSUME NEW q \in Procs, proc'[q].pc = "take", NodeIn(proc[q])' = NodeIn(proc[p])'
        PROVE  q = p
    BY <1>5, <2>1, <2>4 DEF Takes
  <2> QED
    BY <2>2, <2>3, <2>4
<1>8. OneRuns'
  BY <1>3 DEF OneRuns, Active, NodeOfTeam
<1>9. OneActive'
  BY <1>3, <1>4 DEF OneActive
<1> QED
  BY <1>2, <1>6, <1>7, <1>8, <1>9

\* The steps of a handler that queue and start nothing.
LEMMA CalmHandlers ==
    ASSUME TypesInv, Held, NEW p \in Procs,
           Sweep(p) \/ NoJob(p) \/ DoneWrite(p) \/ LoseAnswer(p)
    PROVE  Calm
<1> USE ShapesParts
<1>1. ASSUME NEW w, w.pc \notin Holding \/ (w.pc = "post" /\ w.job = worker[proc[p].client].job),
             worker' = Answer(p, w),
             w.pc = "post" => worker[proc[p].client].pc \in Holding
      PROVE  \A h \in Hosts : worker'[h].pc \in Holding =>
               worker[h].pc \in Holding /\ worker'[h].job = worker[h].job
  BY <1>1 DEF Answer
<1>2. CASE Sweep(p)
  <2>1. /\ proc[p].pc = "sweep" /\ UNCHANGED <<worker, together>>
        /\ proc' = [proc EXCEPT ![p] = [pc |-> "dequeue", host |-> proc[p].host,
                                        client |-> proc[p].client]]
        /\ jobs' = [j \in DOMAIN jobs |->
             IF j \in proc[p].ids THEN [jobs[j] EXCEPT !.state = "aborted", !.age = 0]
                                  ELSE jobs[j]]
    BY <1>2 DEF Sweep
  <2>2. \A j \in DOMAIN jobs : /\ jobs'[j].team = jobs[j].team
                               /\ jobs'[j].state = IF j \in proc[p].ids THEN "aborted"
                                                   ELSE jobs[j].state
    BY <2>1 DEF Job
  <2>3. \A j \in proc[p].ids : jobs[j].state # "waiting"
    BY <2>1 DEF Held
  <2>4. \A q \in Procs : proc'[q].pc = "dequeue" \/ proc'[q] = proc[q]
    BY <2>1
  <2> QED
    BY <2>1, <2>2, <2>3, <2>4 DEF Calm
<1>3. CASE NoJob(p)
  <2>1. /\ proc[p].pc = "dequeue" /\ proc' = [proc EXCEPT ![p] = Free]
        /\ worker' = Answer(p, Idle) /\ UNCHANGED <<jobs, together>>
    BY <1>3 DEF NoJob, Answer
  <2>2. \A h \in Hosts : worker'[h].pc \in Holding =>
          worker[h].pc \in Holding /\ worker'[h].job = worker[h].job
    BY <1>1, <2>1 DEF Holding, Idle
  <2> QED
    BY <2>1, <2>2 DEF Calm, Free
<1>4. CASE DoneWrite(p)
  <2>1. /\ proc[p].pc = "score" /\ SetState(proc[p].job, "done")
        /\ proc' = [proc EXCEPT ![p] = Free]
        /\ worker' = Answer(p, Idle) /\ UNCHANGED together
    BY <1>4 DEF DoneWrite, Answer
  <2>2. \A h \in Hosts : worker'[h].pc \in Holding =>
          worker[h].pc \in Holding /\ worker'[h].job = worker[h].job
    BY <1>1, <2>1 DEF Holding, Idle
  <2>3. proc[p].job \in DOMAIN jobs /\ jobs[proc[p].job].state # "waiting"
    BY <2>1, Fields DEF Held
  <2>4. /\ DOMAIN jobs' = DOMAIN jobs
        /\ \A j \in DOMAIN jobs :
             /\ jobs'[j].team = jobs[j].team
             /\ \/ jobs'[j].state = jobs[j].state
                \/ jobs[j].state # "waiting" /\ jobs'[j].state \in {"done", "aborted"}
    BY <2>1, <2>3, SetStateForm
  <2> QED
    BY <2>1, <2>2, <2>4 DEF Calm, Free
<1>5. CASE LoseAnswer(p)
  <2> DEFINE r == [proc[p] EXCEPT !.client = Gone]
  <2>1. /\ proc[p].pc \in Serving /\ proc[p].client # Gone /\ UNCHANGED <<jobs, together>>
        /\ proc' = [proc EXCEPT ![p] = r]
        /\ worker' = IF proc[p].pc = "score" THEN Failed(proc[p].client)
                     ELSE [worker EXCEPT ![proc[p].client] = Idle]
    BY <1>5 DEF LoseAnswer, Serving
  <2>2. proc[p].client \in Hosts
    BY <2>1, Fields DEF Clients
  <2>3. /\ r.pc = proc[p].pc
        /\ r.pc \in {"take", "score"} => r.job = proc[p].job
        /\ r.pc = "sweep" => r.ids = proc[p].ids
    BY <2>1, GoneForm
  <2>4. proc[p].pc = "score" => worker[proc[p].client].pc = "posting"
    BY <2>1, <2>2 DEF TypesInv, Served
  <2>5. PICK w \in Worker(DOMAIN jobs) :
          /\ worker' = [worker EXCEPT ![proc[p].client] = w] /\ w.pc \in {"idle", "post"}
          /\ w.pc = "post" => /\ w.job = worker[proc[p].client].job
                              /\ worker[proc[p].client].pc \in Holding
    <3>1. CASE proc[p].pc = "score"
      <4> DEFINE h == proc[p].client
      <4>1. worker' = Failed(h) /\ worker[h].pc = "posting" /\ h \in Hosts
        BY <2>1, <2>2, <2>4, <3>1
      <4> HIDE DEF h
      <4>2. PICK w \in Worker(DOMAIN jobs) :
              /\ Failed(h) = [worker EXCEPT ![h] = w]
              /\ w.pc \in {"idle", "post"} /\ (w.pc = "post" => w.job = worker[h].job)
        BY <4>1, FailedForm
      <4> QED
        BY <4>1, <4>2 DEF Holding, h
    <3>2. CASE proc[p].pc # "score"
      BY <2>1, <3>2, WorkerForms
    <3> QED
      BY <3>1, <3>2
  <2>6. worker' = Answer(p, w)
    BY <2>1, <2>5 DEF Answer
  <2>7. \A h \in Hosts : worker'[h].pc \in Holding =>
          worker[h].pc \in Holding /\ worker'[h].job = worker[h].job
    BY <1>1, <2>5, <2>6 DEF Holding
  <2> HIDE DEF r
  <2>8. \A q \in Procs : proc'[q] = IF q = p THEN r ELSE proc[q]
    BY <2>1
  <2> QED
    BY <2>1, <2>3, <2>7, <2>8 DEF Calm, Serving
<1> QED
  BY <1>2, <1>3, <1>4, <1>5

\* A worker's steps, and time.
LEMMA CalmWorkers ==
    ASSUME TypesInv, Held,
           \/ \E h \in Hosts : Work(h) \/ Forgets(h)
           \/ Tick
    PROVE  Calm
<1> USE ShapesParts
<1> DEFINE Rows == /\ DOMAIN jobs' = DOMAIN jobs
                   /\ \A j \in DOMAIN jobs :
                        /\ jobs'[j].team = jobs[j].team
                        /\ \/ jobs'[j].state = jobs[j].state
                           \/ jobs[j].state # "waiting" /\ jobs'[j].state \in {"done", "aborted"}
           Keeps == \A g \in Hosts : worker'[g].pc \in Holding =>
                      worker[g].pc \in Holding /\ worker'[g].job = worker[g].job
<1>1. ASSUME NEW h \in Hosts, NEW w, worker' = [worker EXCEPT ![h] = w],
             w.pc \in Holding => worker[h].pc \in Holding /\ w.job = worker[h].job
      PROVE  Keeps
  BY <1>1
<1>2. ASSUME NEW h \in Hosts, NEW file, RunEnds(h, file) PROVE Calm
  <2>1. UNCHANGED <<jobs, proc, together>> /\ Keeps
    BY <1>1, <1>2 DEF RunEnds, Holding
  <2> QED
    BY <2>1 DEF Calm
<1>3. ASSUME NEW h \in Hosts, worker[h].pc = "post", worker' = Failed(h) PROVE Keeps
  <2>1. PICK w \in Worker(DOMAIN jobs) :
          /\ worker' = [worker EXCEPT ![h] = w] /\ w.pc \in {"idle", "post"}
          /\ w.pc = "post" => w.job = worker[h].job
    BY <1>3, FailedForm
  <2> QED
    BY <1>1, <1>3, <2>1 DEF Holding
<1>4. ASSUME NEW h \in Hosts, PostNoFile(h) PROVE Calm
  <2>1. UNCHANGED <<jobs, proc, together>> /\ Keeps
    BY <1>3, <1>4 DEF PostNoFile
  <2> QED
    BY <2>1 DEF Calm
<1>5. ASSUME NEW h \in Hosts, abort_job(h) PROVE Calm
  <2>1. /\ worker[h].pc = "post" /\ worker[h].job \in DOMAIN jobs
        /\ worker' = [worker EXCEPT ![h] = Idle] \/ worker' = Failed(h)
        /\ UNCHANGED <<proc, together>>
    BY <1>5, Fields DEF abort_job
  <2>2. Keeps
    BY <1>1, <1>3, <2>1 DEF Idle, Holding
  <2>3. Rows
    <3>1. CASE jobs[worker[h].job].state = "running"
      <4>1. SetState(worker[h].job, "aborted")
        BY <1>5, <3>1 DEF abort_job
      <4> QED
        BY <2>1, <3>1, <4>1, SetStateForm
    <3>2. CASE jobs[worker[h].job].state # "running"
      BY <1>5, <3>2 DEF abort_job
    <3> QED
      BY <3>1, <3>2
  <2> QED
    BY <2>1, <2>2, <2>3 DEF Calm
<1>6. ASSUME NEW h \in Hosts, NEW p \in Procs, GetJob(p, h) PROVE Calm
  <2> DEFINE r == IF Overdue = {} THEN [pc |-> "dequeue", host |-> h, client |-> h]
                  ELSE [pc |-> "sweep", host |-> h, client |-> h, ids |-> Overdue]
  <2>1. /\ UNCHANGED <<jobs, together>> /\ proc' = [proc EXCEPT ![p] = r]
        /\ worker' = [worker EXCEPT ![h] = [pc |-> "getting"]]
    BY <1>6 DEF GetJob
  <2>2. Keeps
    BY <1>1, <2>1 DEF Holding
  <2>3. r.pc \in {"sweep", "dequeue"}
        /\ (r.pc = "sweep" => \A j \in r.ids : jobs[j].state = "running")
    BY DEF Overdue
  <2> HIDE DEF r
  <2>4. \A q \in Procs : proc'[q] = IF q = p THEN r ELSE proc[q]
    BY <2>1
  <2> QED
    BY <2>1, <2>2, <2>3, <2>4 DEF Calm
<1>7. ASSUME NEW h \in Hosts, NEW p \in Procs, DoneRead(p, h) PROVE Calm
  <2>1. worker[h].pc = "post" /\ UNCHANGED jobs
    BY <1>7 DEF DoneRead
  <2>2. CASE jobs[worker[h].job].state = "running"
    <3> DEFINE r == [pc |-> "score", job |-> worker[h].job, client |-> h]
    <3>1. /\ proc' = [proc EXCEPT ![p] = r] /\ worker' = [worker EXCEPT ![h].pc = "posting"]
          /\ together \subseteq together'
      BY <1>7, <2>2 DEF DoneRead, Met
    <3>2. Keeps
      BY <1>1, <2>1, <3>1, WorkerForms DEF Holding
    <3>3. \A q \in Procs : proc'[q] = IF q = p THEN r ELSE proc[q]
      BY <3>1
    <3> QED
      BY <2>1, <2>2, <3>1, <3>2, <3>3 DEF Calm
  <2>3. CASE jobs[worker[h].job].state # "running"
    <3>1. worker' = Failed(h) /\ UNCHANGED <<proc, together>>
      BY <1>7, <2>3 DEF DoneRead
    <3> QED
      BY <1>3, <2>1, <3>1 DEF Calm
  <2> QED
    BY <2>2, <2>3
<1>8. ASSUME NEW h \in Hosts, Forgets(h) PROVE Calm
  <2>1. /\ worker' = [worker EXCEPT ![h] = Idle] /\ UNCHANGED <<jobs, together>>
        /\ proc' = [p \in Procs |-> IF proc[p].pc = "score" /\ proc[p].client = h
                                    THEN [proc[p] EXCEPT !.client = Gone] ELSE proc[p]]
    BY <1>8 DEF Forgets
  <2>2. Keeps
    BY <1>1, <2>1 DEF Idle, Holding
  <2>3. \A p \in Procs : proc[p].pc = "score" =>
          LET g == [proc[p] EXCEPT !.client = Gone]
          IN g.pc = "score" /\ g.job = proc[p].job
    BY GoneForm DEF Serving
  <2>4. \A p \in Procs :
          proc'[p] = proc[p] \/ /\ proc[p].pc = "score" /\ proc'[p].pc = "score"
                                /\ proc'[p].job = proc[p].job
    BY <2>1, <2>3
  <2> QED
    BY <2>1, <2>2, <2>4 DEF Calm
<1>9. CASE Tick
  <2>1. Rows /\ Keeps /\ UNCHANGED <<proc, together>>
    BY <1>9, TickForm DEF Holding
  <2> QED
    BY <2>1 DEF Calm
<1> QED
  BY <1>2, <1>4, <1>5, <1>6, <1>7, <1>8, <1>9 DEF Work

\* The rows stay: what remains of Queue.
LEMMA SameRows ==
    ASSUME TableInv, UNCHANGED jobs, together \subseteq together'
    PROVE  OneRuns' /\ OneActive'
  BY DEF TableInv, Queue, OneRuns, OneActive, Apart, Alone, NodeOfTeam

LEMMA SameTakes ==
    ASSUME TableInv, UNCHANGED jobs, together \subseteq together',
           \A q \in Procs : proc'[q].pc = "take" => proc'[q] = proc[q]
    PROVE  Takes'
<1> SUFFICES ASSUME NEW q \in Procs, proc'[q].pc = "take", Apart(proc[q].job)'
             PROVE  /\ jobs[proc'[q].job].state = "waiting"
                    /\ \A j \in DOMAIN jobs : jobs[j].state = "running"
                         => NodeOfTeam(jobs[j].team) # NodeIn(proc[q])'
                    /\ \A o \in Procs : /\ proc'[o].pc = "take"
                                        /\ NodeIn(proc[o])' = NodeIn(proc[q])'
                                        => o = q
  BY DEF Takes, Apart, NodeOfTeam, NodeIn
<1>1. \A o \in Procs : proc'[o].pc = "take" => NodeIn(proc[o])' = NodeIn(proc[o])
  BY DEF NodeIn, NodeOfTeam
<1>2. proc[q].pc = "take" /\ Apart(proc[q].job) /\ proc'[q] = proc[q]
  BY DEF Apart, NodeOfTeam
<1> QED
  BY <1>1, <1>2 DEF Takes, TableInv, Queue

LEMMA EnqueueTable ==
    ASSUME TableInv, TypesInv', NEW p \in Procs, NEW t \in Teams, EnqueueRead(p, t)
    PROVE  TableInv'
<1> USE ShapesParts DEF TableInv, Queue
<1>1. /\ proc' = [proc EXCEPT ![p] = [pc |-> "insert", team |-> t]]
      /\ UNCHANGED <<jobs, worker>> /\ together \subseteq together'
      /\ \A j \in DOMAIN jobs : jobs[j].team = t => jobs[j].state \notin Active
      /\ t \notin together' =>
           \A q \in Procs \ {p} : proc[q].pc = "insert" => proc[q].team # t
  BY DEF EnqueueRead, Met, Others, TeamIn
<1>2. /\ proc'[p].pc = "insert" /\ proc'[p].team = t
      /\ \A q \in Procs \ {p} : proc'[q] = proc[q]
  BY <1>1
<1>3. Held'
  BY <1>1, <1>2, HeldStep
<1>4. Inserts'
  <2> SUFFICES ASSUME NEW q \in Procs, proc'[q].pc = "insert", Alone(proc[q].team)'
               PROVE  /\ \A j \in DOMAIN jobs : jobs[j].team = proc'[q].team
                           => jobs[j].state \notin Active
                      /\ \A o \in Procs : proc'[o].pc = "insert" /\ proc'[o].team = proc'[q].team
                           => o = q
    BY <1>1 DEF Inserts
  <2>1. CASE q = p
    <3>1. t \notin together'
      BY <1>2, <2>1 DEF Alone
    <3> QED
      BY <1>1, <1>2, <2>1, <3>1
  <2>2. CASE q # p
    <3>1. proc[q].pc = "insert" /\ proc'[q] = proc[q] /\ Alone(proc[q].team)
      BY <1>1, <1>2, <2>2 DEF Alone, NodeOfTeam
    <3>2. proc[q].team # t
      BY <1>1, <1>2, <2>2, <3>1 DEF Alone
    <3> QED
      BY <1>2, <3>1, <3>2 DEF Inserts
  <2> QED
    BY <2>1, <2>2
<1>5. \A q \in Procs : proc'[q].pc = "take" => proc'[q] = proc[q]
  BY <1>2
<1>6. Takes'
  BY <1>1, <1>5, SameTakes
<1> QED
  BY <1>1, <1>3, <1>4, <1>6, SameRows

LEMMA InsertTable ==
    ASSUME TableInv, TypesInv', NEW p \in Procs, EnqueueInsert(p)
    PROVE  TableInv'
<1> USE ShapesParts DEF TableInv, Queue
<1> DEFINE n == Len(jobs) + 1
           t == proc[p].team
<1>1. /\ proc[p].pc = "insert" /\ proc' = [proc EXCEPT ![p] = Free]
      /\ UNCHANGED <<worker, together>>
  BY DEF EnqueueInsert
<1>2. /\ DOMAIN jobs' = DOMAIN jobs \cup {n} /\ n \notin DOMAIN jobs
      /\ jobs'[n].team = t /\ jobs'[n].state = "waiting"
      /\ \A j \in DOMAIN jobs : jobs'[j] = jobs[j]
  <2>1. PICK created : jobs' = Append(jobs, [team |-> t, state |-> "waiting",
                                             created |-> created, age |-> 0])
    BY DEF EnqueueInsert
  <2>2. Append(jobs, [team |-> t, state |-> "waiting", created |-> created, age |-> 0])
          = [j \in 1..n |-> IF j <= Len(jobs) THEN jobs[j]
                            ELSE [team |-> t, state |-> "waiting",
                                  created |-> created, age |-> 0]]
    OBVIOUS
  <2> QED
    BY <2>1, <2>2
<1> HIDE DEF n
<1>3. /\ \A q \in Procs : proc'[q].pc # "free" => q # p /\ proc'[q] = proc[q]
      /\ \A q \in Procs : proc[q].pc = "take" => proc[q].job \in DOMAIN jobs
  BY <1>1, Fields DEF Free
<1>4. Held'
  BY <1>1, <1>2, <1>3, HeldStep
<1>5. Inserts'
  <2> SUFFICES ASSUME NEW q \in Procs, proc'[q].pc = "insert", Alone(proc[q].team)'
               PROVE  /\ \A j \in DOMAIN jobs' : jobs'[j].team = proc'[q].team
                           => jobs'[j].state \notin Active
                      /\ \A o \in Procs : proc'[o].pc = "insert" /\ proc'[o].team = proc'[q].team
                           => o = q
    BY DEF Inserts, Active
  <2>1. proc[q].pc = "insert" /\ q # p /\ proc'[q] = proc[q] /\ Alone(proc[q].team)
    BY <1>1, <1>3 DEF Alone, NodeOfTeam
  <2>2. proc[q].team # t
    BY <1>1, <2>1 DEF Inserts
  <2> QED
    BY <1>2, <1>3, <2>1, <2>2 DEF Inserts
<1>6. \A q \in Procs : proc'[q].pc = "take" =>
        /\ proc'[q] = proc[q] /\ proc[q].job \in DOMAIN jobs
        /\ NodeIn(proc[q])' = NodeIn(proc[q])
        /\ Apart(proc[q].job)' => Apart(proc[q].job)
  BY <1>1, <1>2, <1>3 DEF NodeIn, NodeOfTeam, Apart
<1>7. \A j \in DOMAIN jobs' : jobs'[j].state = "running"
        => j \in DOMAIN jobs /\ jobs'[j] = jobs[j] /\ (Apart(j)' => Apart(j))
  BY <1>1, <1>2 DEF Apart, NodeOfTeam
<1>8. Takes'
  <2> SUFFICES ASSUME NEW q \in Procs, proc'[q].pc = "take", Apart(proc[q].job)'
               PROVE  /\ jobs'[proc'[q].job].state = "waiting"
                      /\ \A j \in DOMAIN jobs' : jobs'[j].state = "running"
                           => NodeOfTeam(jobs'[j].team) # NodeIn(proc[q])'
                      /\ \A o \in Procs : /\ proc'[o].pc = "take"
                                          /\ NodeIn(proc[o])' = NodeIn(proc[q])'
                                          => o = q
    BY DEF Takes, Apart, NodeOfTeam, NodeIn
  <2>1. /\ proc[q].pc = "take" /\ Apart(proc[q].job) /\ proc[q].job \in DOMAIN jobs
        /\ proc'[q] = proc[q]
    BY <1>6
  <2>2. jobs'[proc'[q].job].state = "waiting"
    BY <1>2, <2>1 DEF Takes
  <2>3. ASSUME NEW j \in DOMAIN jobs', jobs'[j].state = "running"
        PROVE  NodeOfTeam(jobs'[j].team) # NodeIn(proc[q])'
    <3>1. j \in DOMAIN jobs /\ jobs'[j] = jobs[j]
      BY <1>7, <2>3
    <3>2. NodeOfTeam(jobs[j].team) # NodeIn(proc[q])
      BY <2>1, <2>3, <3>1 DEF Takes
    <3> QED
      BY <1>6, <3>1, <3>2
  <2>4. ASSUME NEW o \in Procs, proc'[o].pc = "take", NodeIn(proc[o])' = NodeIn(proc[q])'
        PROVE  o = q
    BY <1>6, <2>1, <2>4 DEF Takes
  <2> QED
    BY <2>2, <2>3, <2>4
<1>9. OneRuns'
  BY <1>7 DEF OneRuns, NodeOfTeam
<1>10. OneActive'
  <2>1. \A j \in DOMAIN jobs : jobs[j].team = t /\ jobs[j].state \in Active => ~Alone(t)
    BY <1>1 DEF Inserts
  <2> SUFFICES ASSUME NEW j \in DOMAIN jobs', NEW k \in DOMAIN jobs', j # k,
                      jobs'[j].team = jobs'[k].team, jobs'[j].state \in Active,
                      jobs'[k].state \in Active, Alone(jobs[j].team)'
               PROVE  FALSE
    BY DEF OneActive, Active
  <2>2. Alone(jobs'[j].team)
    BY <1>1 DEF Alone, NodeOfTeam
  <2>3. CASE j = n \/ k = n
    BY <1>2, <2>1, <2>2, <2>3
  <2>4. CASE j # n /\ k # n
    BY <1>2, <2>2, <2>4 DEF OneActive
  <2> QED
    BY <2>3, <2>4
<1> QED
  BY <1>4, <1>5, <1>8, <1>9, <1>10

LEMMA TakeTable ==
    ASSUME TableInv, TypesInv', NEW p \in Procs, DequeueRead(p)
    PROVE  TableInv'
<1> USE ShapesParts DEF TableInv, Queue
<1>1. PICK j \in Oldest(proc[p].host) :
        /\ MayRun(j)
        /\ proc' = [proc EXCEPT ![p] = [pc |-> "take", job |-> j, client |-> proc[p].client]]
        /\ Met(Others(p, "take", NodeIn, NodeOfTeam(jobs[j].team)), NodeOfTeam(jobs[j].team))
  BY DEF DequeueRead
<1> DEFINE node == NodeOfTeam(jobs[j].team)
<1>2. /\ j \in DOMAIN jobs /\ UNCHANGED <<jobs, worker>> /\ together \subseteq together'
      /\ node \notin together' =>
           \A q \in Procs \ {p} : proc[q].pc = "take" => NodeIn(proc[q]) # node
  BY <1>1 DEF DequeueRead, Oldest, Met, Others
<1>3. /\ proc'[p].pc = "take" /\ proc'[p].job = j
      /\ \A q \in Procs \ {p} : proc'[q] = proc[q]
  BY <1>1
<1>4. \A k \in DOMAIN jobs : jobs[k].state = "running" => NodeOfTeam(jobs[k].team) # node
  <2>1. IsFiniteSet(Running(node))
    <3>1. IsFiniteSet(1..Len(jobs)) /\ Running(node) \subseteq 1..Len(jobs)
      BY FS_Interval DEF Running
    <3> QED
      BY <3>1, FS_Subset
  <2>2. Cardinality(Running(node)) = 0
    BY <1>1, <2>1, FS_CardinalityType DEF MayRun, BENCHMARK_MAX_CONCURRENCY
  <2>3. Running(node) = {}
    BY <2>1, <2>2, FS_EmptySet
  <2> QED
    BY <2>3 DEF Running
<1>5. Held'
  BY <1>2, <1>3, HeldStep
<1>6. Inserts'
  <2> SUFFICES ASSUME NEW q \in Procs, proc'[q].pc = "insert", Alone(proc[q].team)'
               PROVE  /\ \A k \in DOMAIN jobs : jobs[k].team = proc'[q].team
                           => jobs[k].state \notin Active
                      /\ \A o \in Procs : proc'[o].pc = "insert" /\ proc'[o].team = proc'[q].team
                           => o = q
    BY <1>2 DEF Inserts
  <2>1. q # p /\ proc[q].pc = "insert" /\ proc'[q] = proc[q] /\ Alone(proc[q].team)
    BY <1>2, <1>3 DEF Alone, NodeOfTeam
  <2> QED
    BY <1>3, <2>1 DEF Inserts
<1>7. /\ NodeIn(proc[p])' = node
      /\ \A q \in Procs \ {p} : NodeIn(proc[q])' = NodeIn(proc[q])
  BY <1>2, <1>3 DEF NodeIn, NodeOfTeam
<1>8. Takes'
  <2> SUFFICES ASSUME NEW q \in Procs, proc'[q].pc = "take", Apart(proc[q].job)'
               PROVE  /\ jobs[proc'[q].job].state = "waiting"
                      /\ \A k \in DOMAIN jobs : jobs[k].state = "running"
                           => NodeOfTeam(jobs[k].team) # NodeIn(proc[q])'
                      /\ \A o \in Procs : /\ proc'[o].pc = "take"
                                          /\ NodeIn(proc[o])' = NodeIn(proc[q])'
                                          => o = q
    BY <1>2 DEF Takes, Apart, NodeOfTeam, NodeIn
  <2>1. NodeIn(proc[q])' \notin together'
    BY DEF Apart, NodeIn
  <2>2. CASE q = p
    <3>1. \A o \in Procs \ {p} : proc'[o].pc = "take" => NodeIn(proc[o])' # node
      BY <1>2, <1>3, <1>7, <2>1, <2>2
    <3> QED
      BY <1>1, <1>3, <1>4, <1>7, <2>2, <3>1 DEF MayRun
  <2>3. CASE q # p
    <3>1. proc[q].pc = "take" /\ proc'[q] = proc[q] /\ Apart(proc[q].job)
      BY <1>2, <1>3, <2>3 DEF Apart, NodeOfTeam
    <3>2. NodeIn(proc[q]) # node
      BY <1>2, <1>7, <2>1, <2>3, <3>1
    <3> QED
      BY <1>3, <1>7, <2>3, <3>1, <3>2 DEF Takes
  <2> QED
    BY <2>2, <2>3
<1> QED
  BY <1>2, <1>5, <1>6, <1>8, SameRows

LEMMA StartTable ==
    ASSUME TableInv, TypesInv', NEW p \in Procs, DequeueUpdate(p)
    PROVE  TableInv'
<1> USE ShapesParts DEF TableInv, Queue
<1> DEFINE j == proc[p].job
           node == NodeOfTeam(jobs[j].team)
<1>1. /\ proc[p].pc = "take" /\ SetState(j, "running") /\ proc' = [proc EXCEPT ![p] = Free]
      /\ worker' = Answer(p, [pc |-> "running", job |-> j, ran |-> 0]) /\ UNCHANGED together
  BY DEF DequeueUpdate, Answer
<1>2. j \in DOMAIN jobs
  BY <1>1, Fields
<1> HIDE DEF j
<1>3. /\ DOMAIN jobs' = DOMAIN jobs /\ jobs'[j].state = "running"
      /\ \A k \in DOMAIN jobs : /\ jobs'[k].team = jobs[k].team
                                /\ k # j => jobs'[k] = jobs[k]
  BY <1>1, <1>2, SetStateForm DEF Active
<1>4. \A q \in Procs : proc'[q].pc # "free" => q # p /\ proc'[q] = proc[q]
  BY <1>1 DEF Free
<1>5. /\ \A u : Alone(u)' <=> Alone(u)
      /\ \A k \in DOMAIN jobs : Apart(k)' <=> Apart(k)
      /\ \A u : Alone(u) => NodeOfTeam(u) \notin together
  BY <1>1, <1>3 DEF Alone, Apart, NodeOfTeam
<1>6. Apart(j) => /\ jobs[j].state = "waiting"
                  /\ \A k \in DOMAIN jobs : jobs[k].state = "running"
                       => NodeOfTeam(jobs[k].team) # node
                  /\ \A q \in Procs : proc[q].pc = "take" /\ NodeIn(proc[q]) = node => q = p
  BY <1>1 DEF Takes, NodeIn, j
<1>7. Held'
  <2>1. \A h \in Hosts : worker'[h].pc \in Holding =>
          \/ worker[h].pc \in Holding /\ worker'[h].job = worker[h].job
          \/ worker'[h].job = j
    BY <1>1 DEF Answer
  <2> QED
    BY <1>3, <1>4, <2>1, HeldStep
<1>8. Inserts'
  <2> SUFFICES ASSUME NEW q \in Procs, proc'[q].pc = "insert", Alone(proc[q].team)'
               PROVE  /\ \A k \in DOMAIN jobs : jobs'[k].team = proc'[q].team
                           => jobs'[k].state \notin Active
                      /\ \A o \in Procs : proc'[o].pc = "insert" /\ proc'[o].team = proc'[q].team
                           => o = q
    BY <1>3 DEF Inserts, Active
  <2>1. q # p /\ proc[q].pc = "insert" /\ proc'[q] = proc[q]
    BY <1>4
  <2>2. Alone(proc[q].team)
    BY <1>1, <2>1 DEF Alone, NodeOfTeam
  <2>3. jobs[j].team # proc[q].team
    <3>1. SUFFICES ASSUME jobs[j].team = proc[q].team PROVE FALSE
      OBVIOUS
    <3>2. Apart(j)
      BY <1>5, <2>2, <3>1 DEF Apart
    <3> QED
      BY <1>2, <1>6, <2>1, <2>2, <3>1, <3>2 DEF Inserts, Active
  <2> QED
    BY <1>3, <1>4, <2>1, <2>2, <2>3 DEF Inserts
<1>9. Takes'
  <2> SUFFICES ASSUME NEW q \in Procs, proc'[q].pc = "take", Apart(proc[q].job)'
               PROVE  /\ jobs'[proc'[q].job].state = "waiting"
                      /\ \A k \in DOMAIN jobs : jobs'[k].state = "running"
                           => NodeOfTeam(jobs'[k].team) # NodeIn(proc[q])'
                      /\ \A o \in Procs : /\ proc'[o].pc = "take"
                                          /\ NodeIn(proc[o])' = NodeIn(proc[q])'
                                          => o = q
    BY <1>3 DEF Takes, Apart, NodeOfTeam, NodeIn
  <2>1. \A o \in Procs : proc'[o].pc = "take" =>
          /\ proc[o].pc = "take" /\ proc'[o] = proc[o] /\ proc[o].job \in DOMAIN jobs
          /\ NodeIn(proc[o])' = NodeIn(proc[o]) /\ o # p
    <3>1. \A o \in Procs : proc[o].pc = "take" => proc[o].job \in DOMAIN jobs
      BY Fields
    <3> QED
      BY <1>3, <1>4, <3>1 DEF NodeIn, NodeOfTeam
  <2>2. Apart(proc[q].job)
    BY <1>3, <1>1, <2>1 DEF Apart, NodeOfTeam
  <2>3. NodeIn(proc[q]) # node
    BY <1>1, <2>1, <2>2 DEF Takes, NodeIn, j
  <2>4. proc[q].job # j
    BY <2>3 DEF NodeIn
  <2>5. jobs'[proc'[q].job].state = "waiting"
    BY <1>3, <2>1, <2>2, <2>4 DEF Takes
  <2>6. ASSUME NEW k \in DOMAIN jobs, jobs'[k].state = "running"
        PROVE  NodeOfTeam(jobs'[k].team) # NodeIn(proc[q])'
    <3>1. CASE k = j
      BY <1>3, <2>1, <2>3, <3>1
    <3>2. CASE k # j
      <4>1. NodeOfTeam(jobs[k].team) # NodeIn(proc[q])
        BY <1>3, <2>1, <2>2, <2>6, <3>2 DEF Takes
      <4> QED
        BY <1>3, <2>1, <3>2, <4>1
    <3> QED
      BY <3>1, <3>2
  <2>7. ASSUME NEW o \in Procs, proc'[o].pc = "take", NodeIn(proc[o])' = NodeIn(proc[q])'
        PROVE  o = q
    BY <2>1, <2>2, <2>7 DEF Takes
  <2> QED
    BY <2>5, <2>6, <2>7
<1>10. OneRuns'
  <2> SUFFICES ASSUME NEW k \in DOMAIN jobs, NEW l \in DOMAIN jobs, k # l,
                      jobs'[k].state = "running", jobs'[l].state = "running",
                      NodeOfTeam(jobs[k].team) = NodeOfTeam(jobs[l].team), Apart(k)
               PROVE  FALSE
    BY <1>3, <1>5 DEF OneRuns, NodeOfTeam
  <2>1. Apart(l)
    BY DEF Apart
  <2>2. CASE k = j \/ l = j
    BY <1>3, <1>6, <2>1, <2>2
  <2>3. CASE k # j /\ l # j
    BY <1>3, <2>3 DEF OneRuns
  <2> QED
    BY <2>2, <2>3
<1>11. OneActive'
  <2> SUFFICES ASSUME NEW k \in DOMAIN jobs, NEW l \in DOMAIN jobs, k # l,
                      jobs'[k].state \in Active, jobs'[l].state \in Active,
                      jobs[k].team = jobs[l].team, Alone(jobs[k].team)
               PROVE  FALSE
    <3>1. \A k \in DOMAIN jobs : Alone(jobs[k].team)' => Alone(jobs[k].team)
      BY <1>1, <1>3 DEF Alone, NodeOfTeam
    <3> QED
      BY <1>3, <3>1 DEF OneActive, Active
  <2>1. Apart(k) /\ Apart(l)
    BY <1>5 DEF Apart
  <2>2. jobs[k].state \in Active /\ jobs[l].state \in Active
    BY <1>3, <1>6, <2>1 DEF Active
  <2> QED
    BY <2>2 DEF OneActive
<1> QED
  BY <1>7, <1>8, <1>9, <1>10, <1>11

LEMMA InitTable == Init => TableInv
<1> SUFFICES ASSUME Init PROVE TableInv
  OBVIOUS
<1>1. DOMAIN jobs = {} /\ \A p \in Procs : proc[p].pc = "free"
  BY DEF Init, Free
<1>2. \A h \in Hosts : worker[h].pc = "idle"
  BY DEF Init, Idle
<1> QED
  BY <1>1, <1>2, InitTypes
     DEF TableInv, Held, Holding, Queue, Inserts, Takes, OneRuns, OneActive

LEMMA NextTable == TableInv /\ [Next]_vars => TableInv'
<1> SUFFICES ASSUME TableInv, [Next]_vars PROVE TableInv'
  OBVIOUS
<1>1. TypesInv /\ Held /\ TypesInv'
  BY NextTypes DEF TableInv
<1>2. CASE UNCHANGED vars
  <2>1. Calm
    BY <1>2 DEF vars, Calm
  <2> QED
    BY <1>1, <2>1, CalmTable
<1>3. ASSUME NEW p \in Procs, Sweep(p) \/ NoJob(p) \/ DoneWrite(p) \/ LoseAnswer(p)
      PROVE  TableInv'
  BY <1>1, <1>3, CalmHandlers, CalmTable
<1>4. CASE Tick \/ \E h \in Hosts : Work(h) \/ Forgets(h)
  BY <1>1, <1>4, CalmWorkers, CalmTable
<1> QED
  BY <1>1, <1>2, <1>3, <1>4, EnqueueTable, InsertTable, TakeTable, StartTable
     DEF Next, Handle

\* A team has one job that waits or runs, unless two requests of the team or two
\* dequeues of its machine overlapped (enqueue_job, dequeue_job; MANUAL.md:27).
THEOREM JobsCorrect == Spec => []OneJobUnlessTogether
<1>1. TableInv => OneJobUnlessTogether
  <2> SUFFICES ASSUME TableInv, NEW j \in DOMAIN jobs, NEW k \in DOMAIN jobs,
                      jobs[j].team = jobs[k].team,
                      {jobs[j].state, jobs[k].state} \subseteq Active
               PROVE  j = k \/ Disturbed(j)
    BY DEF OneJobUnlessTogether
  <2>1. jobs[j].state \in Active /\ jobs[k].state \in Active
    OBVIOUS
  <2> QED
    BY <2>1 DEF TableInv, Queue, OneActive, Disturbed, Alone
<1> QED
  BY <1>1, InitTable, NextTable, PTL DEF Spec

\* A machine runs one benchmark at a time, unless two dequeues of it overlapped.
THEOREM NodeCorrect == Spec => []NodeShared
<1>1. TableInv => NodeShared
  <2> SUFFICES ASSUME TableInv, NEW n \in Nodes, n \notin together
               PROVE  Cardinality(Running(n)) <= BENCHMARK_MAX_CONCURRENCY
    BY DEF NodeShared
  <2>1. \A j, k \in Running(n) : j = k
    BY DEF TableInv, Queue, OneRuns, Running, Apart
  <2>2. CASE Running(n) = {}
    BY <2>2, FS_EmptySet DEF BENCHMARK_MAX_CONCURRENCY
  <2>3. CASE Running(n) # {}
    <3>1. PICK j \in Running(n) : TRUE
      BY <2>3
    <3>2. Running(n) = {j}
      BY <2>1, <3>1
    <3>3. Cardinality({j}) = 1
      BY FS_Singleton
    <3> QED
      BY <3>2, <3>3 DEF BENCHMARK_MAX_CONCURRENCY
  <2> QED
    BY <2>2, <2>3
<1> QED
  BY <1>1, InitTable, NextTable, PTL DEF Spec
-----------------------------------------------------------------------------
(* The runs and their scores, from what is shown above of the table of jobs. *)

Excused(j) == j \in late \cup together \/ ~Apart(j)

\* What an overdue job can have become when the sweep aborts it.
Sweeps == \A p \in Procs : proc[p].pc = "sweep" => \A j \in proc[p].ids :
    /\ jobs[j].state = "done" => j \in late \/ ~Apart(j)
    /\ jobs[j].state = "running" => jobs[j].age > Timeout \/ ~Apart(j)
OneHolds == \A g, h \in Hosts :
    worker[g].pc \in Holding /\ worker[h].pc \in Holding /\ worker[g].job = worker[h].job
    => g = h \/ ~Apart(worker[h].job)

\* A run is as old as its job, which nobody scores yet.
Owns == \A h \in Hosts : worker[h].pc = "running" /\ Apart(worker[h].job) =>
    /\ jobs[worker[h].job].state = "running" /\ jobs[worker[h].job].age = worker[h].ran
    /\ \A p \in Procs : proc[p].pc = "score" => proc[p].job # worker[h].job
OneScores == \A p, q \in Procs :
    proc[p].pc = "score" /\ proc[q].pc = "score" /\ proc[p].job = proc[q].job
    => p = q \/ proc[p].job \in together
Scores == \A p \in Procs : proc[p].pc = "score" =>
    jobs[proc[p].job].state \in {"running", "aborted"} \/ Excused(proc[p].job)
Scored ==
    /\ \A j \in JobIds \ DOMAIN jobs : scored[j] = 0
    /\ \A j \in DOMAIN jobs :
         scored[j] = (IF jobs[j].state = "done" THEN 1 ELSE 0) \/ Excused(j)
Runs == Sweeps /\ OneHolds /\ Owns /\ OneScores /\ Scores /\ Scored
RunsInv == TableInv /\ Runs

\* The jobs that handlers and workers name are rows.
LEMMA Names ==
    ASSUME TypesInv
    PROVE  /\ \A p \in Procs : /\ proc[p].pc \in {"take", "score"} => proc[p].job \in DOMAIN jobs
                               /\ proc[p].pc = "sweep" => proc[p].ids \subseteq DOMAIN jobs
           /\ \A h \in Hosts : /\ worker[h].pc \in Holding => worker[h].job \in DOMAIN jobs
                               /\ worker[h].pc = "running" => /\ worker[h].job \in DOMAIN jobs
                                                              /\ worker[h].ran \in 0..RunLimit
  BY ShapesParts, Fields DEF Holding

\* What a step keeps or narrows of the handlers and of the workers.
SameProcs ==
    \A p \in Procs :
      /\ proc'[p].pc = "score" => proc[p].pc = "score" /\ proc'[p].job = proc[p].job
      /\ proc'[p].pc = "sweep" =>
           \/ proc[p].pc = "sweep" /\ proc'[p].ids = proc[p].ids
           \/ \A j \in proc'[p].ids : jobs[j].state = "running" /\ jobs[j].age > Timeout
SameWorkers ==
    \A h \in Hosts :
      /\ worker'[h].pc \in Holding => worker[h].pc \in Holding /\ worker'[h].job = worker[h].job
      /\ worker'[h].pc = "running" => worker[h].pc = "running" /\ worker'[h].ran = worker[h].ran
Quiet ==
    /\ UNCHANGED <<jobs, scored, late>> /\ together \subseteq together'
    /\ SameProcs /\ SameWorkers

LEMMA QuietRuns == ASSUME RunsInv, Quiet PROVE Runs'
<1> USE DEF RunsInv, Runs, Quiet
<1>1. TypesInv
  BY DEF TableInv
<1>2. \A j \in DOMAIN jobs : /\ Apart(j)' => Apart(j)
                             /\ Excused(j) => Excused(j)'
  BY DEF Apart, Excused, NodeOfTeam
<1>3. Sweeps'
  <2> SUFFICES ASSUME NEW p \in Procs, proc'[p].pc = "sweep", NEW j \in proc'[p].ids
               PROVE  /\ jobs[j].state = "done" => j \in late \/ ~Apart(j)'
                      /\ jobs[j].state = "running" => jobs[j].age > Timeout \/ ~Apart(j)'
    BY DEF Sweeps, Apart, NodeOfTeam
  <2>1. CASE proc[p].pc = "sweep" /\ proc'[p].ids = proc[p].ids
    <3>1. j \in DOMAIN jobs
      BY <1>1, <2>1, Names
    <3> QED
      BY <1>2, <2>1, <3>1 DEF Sweeps
  <2>2. CASE \A i \in proc'[p].ids : jobs[i].state = "running" /\ jobs[i].age > Timeout
    BY <2>2
  <2> QED
    BY <2>1, <2>2 DEF SameProcs
<1>4. OneHolds'
  <2> SUFFICES ASSUME NEW g \in Hosts, NEW h \in Hosts, worker'[g].pc \in Holding,
                      worker'[h].pc \in Holding, worker'[g].job = worker'[h].job
               PROVE  g = h \/ ~Apart(worker[h].job)'
    BY DEF OneHolds, Apart, NodeOfTeam, Holding
  <2>1. /\ worker[g].pc \in Holding /\ worker[h].pc \in Holding
        /\ worker[g].job = worker[h].job /\ worker'[h].job = worker[h].job
    BY DEF SameWorkers
  <2>2. worker[h].job \in DOMAIN jobs
    BY <1>1, <2>1, Names
  <2> QED
    BY <2>1, <2>2 DEF OneHolds, Apart, NodeOfTeam
<1>5. Owns'
  <2> SUFFICES ASSUME NEW h \in Hosts, worker'[h].pc = "running", Apart(worker[h].job)'
               PROVE  /\ jobs[worker'[h].job].state = "running"
                      /\ jobs[worker'[h].job].age = worker'[h].ran
                      /\ \A p \in Procs : proc'[p].pc = "score" => proc'[p].job # worker'[h].job
    BY DEF Owns, Apart, NodeOfTeam
  <2>1. /\ worker[h].pc = "running" /\ worker'[h].ran = worker[h].ran
        /\ worker'[h].job = worker[h].job
    BY DEF SameWorkers, Holding
  <2>2. Apart(worker[h].job)
    BY <2>1 DEF Apart, NodeOfTeam
  <2> QED
    BY <2>1, <2>2 DEF Owns, SameProcs
<1>6. OneScores'
  BY DEF OneScores, SameProcs
<1>7. Scores'
  BY <1>1, <1>2, Names DEF Scores, SameProcs, Excused, Apart, NodeOfTeam
<1>8. Scored'
  BY <1>2 DEF Scored
<1> QED
  BY <1>3, <1>4, <1>5, <1>6, <1>7, <1>8

\* A worker that gives up or tries again.
LEMMA FailedSame ==
    ASSUME TypesInv, NEW h \in Hosts, worker[h].pc \in {"post", "posting"},
           worker' = Failed(h) \/ worker' = [worker EXCEPT ![h] = Idle]
    PROVE  SameWorkers
<1>1. worker \in [Hosts -> Worker(DOMAIN jobs)]
  BY ShapesParts
<1>2. \E w \in Worker(DOMAIN jobs) :
        /\ Failed(h) = [worker EXCEPT ![h] = w] /\ w.pc \in {"idle", "post"}
        /\ w.pc = "post" => w.job = worker[h].job
  BY <1>1, FailedForm
<1>3. Idle \in Worker(DOMAIN jobs) /\ Idle.pc = "idle"
  BY WorkerForms
<1>4. \E w \in Worker(DOMAIN jobs) :
        /\ worker' = [worker EXCEPT ![h] = w] /\ w.pc \in {"idle", "post"}
        /\ w.pc = "post" => w.job = worker[h].job
  <2>1. CASE worker' = Failed(h)
    BY <1>2, <2>1
  <2>2. CASE worker' = [worker EXCEPT ![h] = Idle]
    <3>1. Idle.pc # "post"
      BY <1>3
    <3> QED
      BY <1>3, <2>2, <3>1
  <2> QED
    BY <2>1, <2>2
<1>5. PICK w \in Worker(DOMAIN jobs) :
        /\ worker' = [worker EXCEPT ![h] = w] /\ w.pc \in {"idle", "post"}
        /\ w.pc = "post" => w.job = worker[h].job
  BY <1>4
<1>6. w.pc = "post" \/ w.pc \notin Holding
  BY <1>5 DEF Holding
<1> QED
  BY <1>1, <1>5, <1>6 DEF SameWorkers, Holding

LEMMA QuietHandlers ==
    ASSUME TypesInv, NEW p \in Procs,
           (\E t \in Teams : EnqueueRead(p, t)) \/ NoJob(p) \/ DequeueRead(p) \/ LoseAnswer(p)
    PROVE  Quiet
<1> USE ShapesParts
<1>1. ASSUME NEW r, proc' = [proc EXCEPT ![p] = r], r.pc \notin {"score", "sweep"}
      PROVE  SameProcs
  BY <1>1 DEF SameProcs
<1>2. ASSUME NEW t \in Teams, EnqueueRead(p, t) PROVE Quiet
  <2>1. /\ UNCHANGED <<jobs, scored, worker, late>> /\ together \subseteq together'
        /\ proc' = [proc EXCEPT ![p] = [pc |-> "insert", team |-> t]]
    BY <1>2 DEF EnqueueRead, Met
  <2> QED
    BY <1>1, <2>1 DEF Quiet, SameWorkers
<1>3. CASE NoJob(p)
  <2>1. /\ UNCHANGED <<jobs, scored, late, together>> /\ proc' = [proc EXCEPT ![p] = Free]
        /\ worker' = Answer(p, Idle)
    BY <1>3 DEF NoJob, Answer
  <2>2. SameWorkers
    BY <2>1 DEF SameWorkers, Answer, Idle, Holding
  <2> QED
    BY <1>1, <2>1, <2>2 DEF Quiet, Free
<1>4. CASE DequeueRead(p)
  <2>1. PICK j : /\ UNCHANGED <<jobs, scored, worker, late>> /\ together \subseteq together'
                 /\ proc' = [proc EXCEPT ![p] = [pc |-> "take", job |-> j,
                                                 client |-> proc[p].client]]
    BY <1>4 DEF DequeueRead, Met
  <2> QED
    BY <1>1, <2>1 DEF Quiet, SameWorkers
<1>5. CASE LoseAnswer(p)
  <2> DEFINE h == proc[p].client
             r == [proc[p] EXCEPT !.client = Gone]
  <2>1. /\ proc[p].pc \in Serving /\ h # Gone
        /\ UNCHANGED <<jobs, scored, late, together>> /\ proc' = [proc EXCEPT ![p] = r]
        /\ worker' = IF proc[p].pc = "score" THEN Failed(h) ELSE [worker EXCEPT ![h] = Idle]
    BY <1>5 DEF LoseAnswer, Serving
  <2>2. h \in Hosts
    BY <2>1, Fields DEF Clients
  <2>3. worker[h].pc = IF proc[p].pc = "score" THEN "posting" ELSE "getting"
    BY <2>1, <2>2 DEF TypesInv, Served
  <2>4. /\ r.pc = proc[p].pc /\ (r.pc = "score" => r.job = proc[p].job)
        /\ (r.pc = "sweep" => r.ids = proc[p].ids)
    BY <2>1, GoneForm
  <2> HIDE DEF h, r
  <2>5. SameWorkers
    <3>1. CASE proc[p].pc = "score"
      BY <2>1, <2>2, <2>3, <3>1, FailedSame
    <3>2. CASE proc[p].pc # "score"
      BY <2>1, <2>2, <3>2 DEF SameWorkers, Idle, Holding
    <3> QED
      BY <3>1, <3>2
  <2>6. \A q \in Procs : proc'[q] = IF q = p THEN r ELSE proc[q]
    BY <2>1
  <2>7. SameProcs
    BY <2>4, <2>6 DEF SameProcs
  <2> QED
    BY <2>1, <2>5, <2>7 DEF Quiet
<1> QED
  BY <1>2, <1>3, <1>4, <1>5

LEMMA QuietWorkers ==
    ASSUME TypesInv, NEW h \in Hosts,
           \/ \E file \in {"good", "bad", "none"} : RunEnds(h, file)
           \/ PostNoFile(h) \/ Forgets(h)
           \/ \E p \in Procs : GetJob(p, h)
           \/ /\ jobs[worker[h].job].state # "running"
              /\ abort_job(h) \/ \E p \in Procs : DoneRead(p, h)
    PROVE  Quiet
<1> USE ShapesParts
<1>1. ASSUME NEW file, RunEnds(h, file) PROVE Quiet
  <2>1. SameWorkers
    BY <1>1 DEF RunEnds, SameWorkers, Holding
  <2> QED
    BY <1>1, <2>1 DEF Quiet, RunEnds, SameProcs
<1>2. CASE PostNoFile(h)
  <2>1. SameWorkers
    BY <1>2, FailedSame DEF PostNoFile
  <2> QED
    BY <1>2, <2>1 DEF Quiet, PostNoFile, SameProcs
<1>3. CASE Forgets(h)
  <2>1. /\ worker' = [worker EXCEPT ![h] = Idle] /\ UNCHANGED <<jobs, scored, late, together>>
        /\ proc' = [p \in Procs |-> IF proc[p].pc = "score" /\ proc[p].client = h
                                    THEN [proc[p] EXCEPT !.client = Gone] ELSE proc[p]]
    BY <1>3 DEF Forgets
  <2>2. SameWorkers
    BY <2>1 DEF SameWorkers, Idle, Holding
  <2>3. \A p \in Procs : proc[p].pc = "score" =>
          LET g == [proc[p] EXCEPT !.client = Gone]
          IN g.pc = "score" /\ g.job = proc[p].job
    BY GoneForm DEF Serving
  <2>4. \A p \in Procs :
          proc'[p] = proc[p] \/ /\ proc[p].pc = "score" /\ proc'[p].pc = "score"
                                /\ proc'[p].job = proc[p].job
    BY <2>1, <2>3
  <2> QED
    BY <2>1, <2>2, <2>4 DEF Quiet, SameProcs
<1>4. ASSUME NEW p \in Procs, GetJob(p, h) PROVE Quiet
  <2> DEFINE r == IF Overdue = {} THEN [pc |-> "dequeue", host |-> h, client |-> h]
                  ELSE [pc |-> "sweep", host |-> h, client |-> h, ids |-> Overdue]
  <2>1. /\ UNCHANGED <<jobs, scored, late, together>> /\ proc' = [proc EXCEPT ![p] = r]
        /\ worker' = [worker EXCEPT ![h] = [pc |-> "getting"]]
    BY <1>4 DEF GetJob
  <2>2. SameWorkers
    BY <2>1 DEF SameWorkers, Holding
  <2>3. r.pc \in {"sweep", "dequeue"} /\ (r.pc = "sweep" =>
          \A j \in r.ids : jobs[j].state = "running" /\ jobs[j].age > Timeout)
    BY DEF Overdue
  <2> HIDE DEF r
  <2>4. \A q \in Procs : proc'[q] = IF q = p THEN r ELSE proc[q]
    BY <2>1
  <2>5. SameProcs
    BY <2>3, <2>4 DEF SameProcs
  <2> QED
    BY <2>1, <2>2, <2>5 DEF Quiet
<1>5. CASE jobs[worker[h].job].state # "running" /\ abort_job(h)
  <2>1. SameWorkers
    BY <1>5, FailedSame DEF abort_job
  <2> QED
    BY <1>5, <2>1 DEF Quiet, abort_job, SameProcs
<1>6. ASSUME NEW p \in Procs, jobs[worker[h].job].state # "running", DoneRead(p, h)
      PROVE  Quiet
  <2>1. SameWorkers
    BY <1>6, FailedSame DEF DoneRead
  <2> QED
    BY <1>6, <2>1 DEF Quiet, DoneRead, SameProcs
<1> QED
  BY <1>1, <1>2, <1>3, <1>4, <1>5, <1>6

\* The jobs of S are over, and no owned run is about one of them.
Ends(S, state) ==
    /\ S \subseteq DOMAIN jobs /\ DOMAIN jobs' = DOMAIN jobs
    /\ \A j \in DOMAIN jobs : /\ jobs'[j].team = jobs[j].team
                              /\ j \in S => jobs'[j].state = state
                              /\ j \notin S => jobs'[j] = jobs[j]
    /\ UNCHANGED together /\ late \subseteq late'
    /\ SameWorkers
    /\ \A p \in Procs :
         /\ proc'[p].pc = "score" => proc[p].pc = "score" /\ proc'[p].job = proc[p].job
         /\ proc'[p].pc = "sweep" => proc[p].pc = "sweep" /\ proc'[p].ids = proc[p].ids
    /\ \A h \in Hosts : worker'[h].pc = "running" /\ Apart(worker[h].job)
         => worker[h].job \notin S

LEMMA EndsParts ==
    ASSUME RunsInv, NEW S, NEW state, Ends(S, state)
    PROVE  /\ \A j \in DOMAIN jobs : /\ Apart(j)' <=> Apart(j)
                                     /\ Excused(j) => Excused(j)'
           /\ OneHolds' /\ Owns' /\ OneScores'
<1> USE DEF RunsInv, Runs, Ends
<1>1. TypesInv
  BY DEF TableInv
<1>2. \A j \in DOMAIN jobs : /\ Apart(j)' <=> Apart(j)
                             /\ Excused(j) => Excused(j)'
  BY DEF Apart, Excused, NodeOfTeam
<1>3. OneHolds'
  <2> SUFFICES ASSUME NEW g \in Hosts, NEW h \in Hosts, worker'[g].pc \in Holding,
                      worker'[h].pc \in Holding, worker'[g].job = worker'[h].job
               PROVE  g = h \/ ~Apart(worker[h].job)'
    BY DEF OneHolds, Apart, NodeOfTeam, Holding
  <2>1. /\ worker[g].pc \in Holding /\ worker[h].pc \in Holding
        /\ worker[g].job = worker[h].job /\ worker'[h].job = worker[h].job
    BY DEF SameWorkers
  <2>2. worker[h].job \in DOMAIN jobs
    BY <1>1, <2>1, Names
  <2> QED
    BY <2>1, <2>2 DEF OneHolds, Apart, NodeOfTeam
<1>4. Owns'
  <2> SUFFICES ASSUME NEW h \in Hosts, worker'[h].pc = "running", Apart(worker[h].job)'
               PROVE  /\ jobs'[worker'[h].job].state = "running"
                      /\ jobs'[worker'[h].job].age = worker'[h].ran
                      /\ \A p \in Procs : proc'[p].pc = "score" => proc'[p].job # worker'[h].job
    BY DEF Owns, Apart, NodeOfTeam
  <2>1. /\ worker[h].pc = "running" /\ worker'[h].ran = worker[h].ran
        /\ worker'[h].job = worker[h].job
    BY DEF SameWorkers, Holding
  <2>2. worker[h].job \in DOMAIN jobs
    BY <1>1, <2>1, Names
  <2>3. Apart(worker[h].job)
    BY <2>1, <2>2 DEF Apart, NodeOfTeam
  <2>4. jobs'[worker[h].job] = jobs[worker[h].job]
    BY <2>2, <2>3
  <2> QED
    BY <2>1, <2>3, <2>4 DEF Owns
<1>5. OneScores'
  BY DEF OneScores
<1> QED
  BY <1>2, <1>3, <1>4, <1>5

LEMMA AbortsRuns ==
    ASSUME RunsInv, NEW S, Ends(S, "aborted"), UNCHANGED scored,
           \A j \in S : jobs[j].state = "done" => j \in late \/ ~Apart(j)
    PROVE  Runs'
<1> USE DEF RunsInv, Runs
<1>1. TypesInv
  BY DEF TableInv
<1>2. Sweeps'
  <2> SUFFICES ASSUME NEW p \in Procs, proc'[p].pc = "sweep", NEW j \in proc'[p].ids
               PROVE  /\ jobs'[j].state = "done" => j \in late' \/ ~Apart(j)'
                      /\ jobs'[j].state = "running" => jobs'[j].age > Timeout \/ ~Apart(j)'
    BY DEF Sweeps, Apart, NodeOfTeam
  <2>1. proc[p].pc = "sweep" /\ j \in proc[p].ids
    BY DEF Ends
  <2>2. j \in DOMAIN jobs
    BY <1>1, <2>1, Names
  <2> QED
    BY <2>1, <2>2, EndsParts DEF Sweeps, Ends
<1>3. Scores'
  <2> SUFFICES ASSUME NEW p \in Procs, proc'[p].pc = "score"
               PROVE  jobs'[proc'[p].job].state \in {"running", "aborted"} \/ Excused(proc[p].job)'
    BY DEF Scores, Excused, Apart, NodeOfTeam, Ends
  <2>1. proc[p].pc = "score" /\ proc'[p].job = proc[p].job /\ proc[p].job \in DOMAIN jobs
    BY <1>1, Names DEF Ends
  <2>2. Excused(proc[p].job) => Excused(proc[p].job)'
    <3>1. \A j \in DOMAIN jobs : Apart(j)' <=> Apart(j)
      BY EndsParts
    <3> QED
      BY <2>1, <3>1 DEF Excused, Apart, NodeOfTeam, Ends
  <2> QED
    BY <2>1, <2>2 DEF Scores, Ends
<1>4. Scored'
  BY EndsParts DEF Scored, Excused, Ends
<1> QED
  BY <1>2, <1>3, <1>4, EndsParts

LEMMA SweepRuns == ASSUME RunsInv, NEW p \in Procs, Sweep(p) PROVE Runs'
<1> USE DEF RunsInv, Runs
<1>1. TypesInv
  BY DEF TableInv
<1> USE <1>1, ShapesParts, Names
<1>2. /\ proc[p].pc = "sweep" /\ UNCHANGED <<scored, worker, together, late>>
      /\ proc' = [proc EXCEPT ![p] = [pc |-> "dequeue", host |-> proc[p].host,
                                      client |-> proc[p].client]]
      /\ jobs' = [j \in DOMAIN jobs |->
           IF j \in proc[p].ids THEN [jobs[j] EXCEPT !.state = "aborted", !.age = 0]
                                ELSE jobs[j]]
  BY DEF Sweep
<1>3. \A j \in DOMAIN jobs : /\ jobs'[j].team = jobs[j].team
                             /\ j \in proc[p].ids => jobs'[j].state = "aborted"
                             /\ j \notin proc[p].ids => jobs'[j] = jobs[j]
  BY <1>2 DEF Job
<1>4. \A h \in Hosts : worker[h].pc = "running" /\ Apart(worker[h].job)
        => worker[h].job \notin proc[p].ids
  <2> SUFFICES ASSUME NEW h \in Hosts, worker[h].pc = "running", Apart(worker[h].job),
                      worker[h].job \in proc[p].ids
               PROVE  FALSE
    OBVIOUS
  <2>1. jobs[worker[h].job].state = "running" /\ jobs[worker[h].job].age = worker[h].ran
    BY DEF Owns
  <2>2. jobs[worker[h].job].age > Timeout
    BY <1>2, <2>1 DEF Sweeps
  <2> QED
    BY <2>1, <2>2, Parameters
<1>5. \A q \in Procs : proc'[q].pc = "dequeue" \/ proc'[q] = proc[q]
  BY <1>2
<1>6. Ends(proc[p].ids, "aborted")
  BY <1>2, <1>3, <1>4, <1>5 DEF Ends, SameWorkers
<1> QED
  BY <1>2, <1>6, AbortsRuns DEF Sweeps

LEMMA AbortRuns ==
    ASSUME RunsInv, NEW h \in Hosts, abort_job(h), jobs[worker[h].job].state = "running"
    PROVE  Runs'
<1> USE DEF RunsInv, Runs
<1> DEFINE j == worker[h].job
<1>1. TypesInv
  BY DEF TableInv
<1>2. /\ worker[h].pc = "post" /\ SetState(j, "aborted")
      /\ worker' = Failed(h) \/ worker' = [worker EXCEPT ![h] = Idle]
      /\ UNCHANGED <<scored, proc, together, late>>
  BY DEF abort_job
<1>3. j \in DOMAIN jobs /\ SameWorkers
  BY <1>1, <1>2, Names, FailedSame DEF Holding
<1>4. \A g \in Hosts : worker'[g].pc = "running" /\ Apart(worker[g].job)
        => worker[g].job # j
  BY <1>2, <1>3 DEF OneHolds, Holding, SameWorkers
<1>5. Ends({j}, "aborted")
  BY <1>1, <1>2, <1>3, <1>4, SetStateForm DEF Ends
<1> QED
  BY <1>2, <1>5, AbortsRuns

LEMMA DoneRuns == ASSUME RunsInv, NEW p \in Procs, DoneWrite(p) PROVE Runs'
<1> USE DEF RunsInv, Runs
<1> DEFINE j == proc[p].job
<1>1. TypesInv
  BY DEF TableInv
<1> USE <1>1, ShapesParts, Names
<1>2. /\ proc[p].pc = "score" /\ SetState(j, "done") /\ UNCHANGED together
      /\ scored' = [scored EXCEPT ![j] = @ + 1] /\ proc' = [proc EXCEPT ![p] = Free]
      /\ late' = IF jobs[j].state = "aborted" \/ jobs[j].age > Timeout
                 THEN late \cup {j} ELSE late
      /\ worker' = Answer(p, Idle)
  BY DEF DoneWrite, Answer
<1>3. j \in DOMAIN jobs /\ j \in JobIds
  BY <1>2
<1>4. /\ SameWorkers
      /\ \A q \in Procs : proc'[q].pc # "free" => q # p /\ proc'[q] = proc[q]
  BY <1>2 DEF SameWorkers, Answer, Idle, Free, Holding
<1>5. \A h \in Hosts : worker'[h].pc = "running" /\ Apart(worker[h].job)
        => worker[h].job # j
  <2>1. \A h \in Hosts : worker'[h].pc = "running" => worker[h].pc = "running"
    BY <1>4 DEF SameWorkers
  <2> QED
    BY <1>2, <2>1 DEF Owns
<1>6. Ends({j}, "done")
  <2>1. /\ DOMAIN jobs' = DOMAIN jobs
        /\ \A k \in DOMAIN jobs : /\ jobs'[k].team = jobs[k].team
                                  /\ k # j => jobs'[k] = jobs[k]
        /\ jobs'[j].state = "done"
    BY <1>2, <1>3, SetStateForm
  <2> QED
    BY <1>2, <1>3, <1>4, <1>5, <2>1 DEF Ends
<1> HIDE DEF j
<1>7. /\ \A k \in DOMAIN jobs : /\ Apart(k)' <=> Apart(k)
                                /\ Excused(k) => Excused(k)'
                                /\ k # j => jobs'[k] = jobs[k]
      /\ DOMAIN jobs' = DOMAIN jobs /\ late \subseteq late' /\ jobs'[j].state = "done"
      /\ OneHolds' /\ Owns' /\ OneScores'
  BY <1>6, EndsParts DEF Ends
<1>8. Sweeps'
  <2> SUFFICES ASSUME NEW q \in Procs, proc'[q].pc = "sweep", NEW k \in proc'[q].ids
               PROVE  /\ jobs'[k].state = "done" => k \in late' \/ ~Apart(k)'
                      /\ jobs'[k].state = "running" => jobs'[k].age > Timeout \/ ~Apart(k)'
    BY DEF Sweeps, Apart, NodeOfTeam
  <2>1. proc[q].pc = "sweep" /\ k \in proc[q].ids /\ k \in DOMAIN jobs
    BY <1>4
  <2>2. CASE k = j
    <3>1. jobs[j].state \in {"running", "aborted", "done"}
      <4>1. jobs[j].state # "waiting" /\ jobs[j] \in Job
        BY <1>3, <2>1, <2>2 DEF TableInv, Held
      <4> QED
        BY <4>1 DEF Job, Active
    <3> QED
      BY <1>2, <1>7, <2>1, <2>2, <3>1 DEF Sweeps
  <2>3. CASE k # j
    BY <1>7, <2>1, <2>3 DEF Sweeps
  <2> QED
    BY <2>2, <2>3
<1>9. Scores'
  <2> SUFFICES ASSUME NEW q \in Procs, proc'[q].pc = "score"
               PROVE  \/ jobs'[proc'[q].job].state \in {"running", "aborted"}
                      \/ proc'[q].job \in late' \cup together \/ ~Apart(proc[q].job)'
    BY <1>2 DEF Scores, Excused, Apart, NodeOfTeam
  <2>1. q # p /\ proc[q].pc = "score" /\ proc'[q] = proc[q] /\ proc[q].job \in DOMAIN jobs
    BY <1>4
  <2>2. CASE proc[q].job = j
    BY <1>2, <2>1, <2>2 DEF OneScores, j
  <2>3. CASE proc[q].job # j
    <3>1. jobs'[proc[q].job] = jobs[proc[q].job]
      BY <1>7, <2>1, <2>3
    <3>2. ~Apart(proc[q].job) => ~Apart(proc[q].job)'
      BY <1>2, <2>1, <3>1 DEF Apart, NodeOfTeam
    <3> QED
      BY <1>7, <2>1, <3>1, <3>2 DEF Scores, Excused
  <2> QED
    BY <2>2, <2>3
<1>10. Scored'
  <2>1. \A k \in JobIds : scored'[k] = IF k = j THEN scored[k] + 1 ELSE scored[k]
    BY <1>2
  <2>2. \A k \in JobIds \ DOMAIN jobs' : scored'[k] = 0
    BY <1>3, <1>7, <2>1 DEF Scored
  <2>3. ASSUME NEW k \in DOMAIN jobs
        PROVE  scored'[k] = (IF jobs'[k].state = "done" THEN 1 ELSE 0) \/ Excused(k)'
    <3>1. CASE k # j
      BY <1>7, <2>1, <3>1 DEF Scored
    <3>2. CASE k = j /\ ~Excused(k)'
      <4>1. ~Excused(j) /\ j \notin late'
        <5>1. ~Excused(k) /\ k \notin late'
          BY <1>7, <3>2 DEF Excused
        <5> QED
          BY <3>2, <5>1
      <4>2. jobs[j].state = "running"
        BY <1>2, <4>1 DEF Scores, j
      <4>3. scored[j] = 0
        BY <1>3, <4>1, <4>2 DEF Scored
      <4> QED
        BY <1>3, <1>7, <2>1, <3>2, <4>3
    <3> QED
      BY <3>1, <3>2
  <2> QED
    BY <1>7, <2>2, <2>3 DEF Scored
<1> QED
  BY <1>7, <1>8, <1>9, <1>10

LEMMA ScoreRuns ==
    ASSUME RunsInv, NEW p \in Procs, NEW h \in Hosts, DoneRead(p, h),
           jobs[worker[h].job].state = "running"
    PROVE  Runs'
<1> USE DEF RunsInv, Runs
<1> DEFINE j == worker[h].job
           w == [worker[h] EXCEPT !.pc = "posting"]
<1>1. TypesInv
  BY DEF TableInv
<1> USE <1>1, ShapesParts, Names
<1>2. /\ worker[h].pc = "post" /\ UNCHANGED <<jobs, scored, late>>
      /\ proc' = [proc EXCEPT ![p] = [pc |-> "score", job |-> j, client |-> h]]
      /\ worker' = [worker EXCEPT ![h] = w] /\ together \subseteq together'
      /\ j \notin together' =>
           \A q \in Procs \ {p} : proc[q].pc = "score" => proc[q].job # j
  BY DEF DoneRead, Met, Others, JobIn
<1>3. j \in DOMAIN jobs /\ w.pc = "posting" /\ w.job = j
  BY <1>2, WorkerForms DEF Holding
<1>4. /\ \A g \in Hosts : /\ worker'[g].pc \in Holding =>
                               worker[g].pc \in Holding /\ worker'[g].job = worker[g].job
                          /\ worker'[g].pc = "running" => g # h /\ worker'[g] = worker[g]
      /\ proc'[p].pc = "score" /\ proc'[p].job = j
      /\ \A q \in Procs \ {p} : proc'[q] = proc[q]
  BY <1>2, <1>3 DEF Holding
<1> HIDE DEF j, w
<1>5. \A k \in DOMAIN jobs : /\ Apart(k)' => Apart(k)
                             /\ Excused(k) => Excused(k)'
  BY <1>2 DEF Apart, Excused, NodeOfTeam
<1>6. Sweeps'
  <2> SUFFICES ASSUME NEW q \in Procs, proc'[q].pc = "sweep", NEW k \in proc'[q].ids
               PROVE  /\ jobs[k].state = "done" => k \in late \/ ~Apart(k)'
                      /\ jobs[k].state = "running" => jobs[k].age > Timeout \/ ~Apart(k)'
    BY <1>2 DEF Sweeps, Apart, NodeOfTeam
  <2>1. proc[q].pc = "sweep" /\ k \in proc[q].ids /\ k \in DOMAIN jobs
    BY <1>4
  <2> QED
    BY <1>5, <2>1 DEF Sweeps
<1>7. OneHolds'
  <2> SUFFICES ASSUME NEW g \in Hosts, NEW o \in Hosts, worker'[g].pc \in Holding,
                      worker'[o].pc \in Holding, worker'[g].job = worker'[o].job
               PROVE  g = o \/ ~Apart(worker[o].job)'
    BY <1>4 DEF OneHolds, Apart, NodeOfTeam
  <2>1. /\ worker[g].pc \in Holding /\ worker[o].pc \in Holding
        /\ worker[g].job = worker[o].job /\ worker'[o].job = worker[o].job
        /\ worker[o].job \in DOMAIN jobs
    BY <1>4
  <2> QED
    BY <1>2, <2>1 DEF OneHolds, Apart, NodeOfTeam
<1>8. Owns'
  <2> SUFFICES ASSUME NEW g \in Hosts, worker'[g].pc = "running", Apart(worker[g].job)'
               PROVE  /\ jobs[worker'[g].job].state = "running"
                      /\ jobs[worker'[g].job].age = worker'[g].ran
                      /\ \A q \in Procs : proc'[q].pc = "score" => proc'[q].job # worker'[g].job
    BY <1>2 DEF Owns, Apart, NodeOfTeam
  <2>1. g # h /\ worker[g].pc = "running" /\ worker'[g] = worker[g]
    BY <1>4
  <2>2. Apart(worker[g].job)
    BY <1>2, <2>1 DEF Apart, NodeOfTeam
  <2>3. worker[g].job # j
    BY <1>2, <2>1, <2>2 DEF OneHolds, Holding, j
  <2> QED
    BY <1>4, <2>1, <2>2, <2>3 DEF Owns
<1>9. OneScores'
  <2> SUFFICES ASSUME NEW o \in Procs, NEW q \in Procs, proc'[o].pc = "score",
                      proc'[q].pc = "score", proc'[o].job = proc'[q].job, o # q
               PROVE  proc'[o].job \in together'
    BY DEF OneScores
  <2>1. CASE o = p \/ q = p
    BY <1>2, <1>4, <2>1
  <2>2. CASE o # p /\ q # p
    BY <1>2, <1>4, <2>2 DEF OneScores
  <2> QED
    BY <2>1, <2>2
<1>10. Scores'
  <2> SUFFICES ASSUME NEW q \in Procs, proc'[q].pc = "score"
               PROVE  \/ jobs[proc'[q].job].state \in {"running", "aborted"}
                      \/ proc'[q].job \in late \cup together' \/ ~Apart(proc[q].job)'
    BY <1>2 DEF Scores, Excused, Apart, NodeOfTeam
  <2>1. CASE q = p
    BY <1>4, <2>1 DEF j
  <2>2. CASE q # p
    <3>1. proc[q].pc = "score" /\ proc'[q] = proc[q]
      BY <1>4, <2>2
    <3>2. ~Apart(proc[q].job) => ~Apart(proc[q].job)'
      BY <1>2, <3>1 DEF Apart, NodeOfTeam
    <3> QED
      BY <1>2, <3>1, <3>2 DEF Scores, Excused
  <2> QED
    BY <2>1, <2>2
<1>11. Scored'
  BY <1>2, <1>5 DEF Scored
<1> QED
  BY <1>6, <1>7, <1>8, <1>9, <1>10, <1>11

LEMMA InsertRuns == ASSUME RunsInv, TypesInv', NEW p \in Procs, EnqueueInsert(p) PROVE Runs'
<1> USE DEF RunsInv, Runs
<1> DEFINE n == Len(jobs) + 1
<1>1. TypesInv
  BY DEF TableInv
<1> USE <1>1, ShapesParts, Names
<1>2. /\ proc' = [proc EXCEPT ![p] = Free] /\ UNCHANGED <<scored, worker, together, late>>
      /\ DOMAIN jobs' = DOMAIN jobs \cup {n} /\ n \notin DOMAIN jobs
      /\ jobs'[n].state = "waiting"
      /\ \A j \in DOMAIN jobs : jobs'[j] = jobs[j]
  <2>1. PICK created : jobs' = Append(jobs, [team |-> proc[p].team, state |-> "waiting",
                                             created |-> created, age |-> 0])
    BY DEF EnqueueInsert
  <2>2. Append(jobs, [team |-> proc[p].team, state |-> "waiting",
                      created |-> created, age |-> 0])
          = [j \in 1..n |-> IF j <= Len(jobs) THEN jobs[j]
                            ELSE [team |-> proc[p].team, state |-> "waiting",
                                  created |-> created, age |-> 0]]
    OBVIOUS
  <2> QED
    BY <2>1, <2>2 DEF EnqueueInsert
<1> HIDE DEF n
<1>3. \A q \in Procs : proc'[q].pc # "free" => proc'[q] = proc[q]
  BY <1>2 DEF Free
<1>4. \A j \in DOMAIN jobs : /\ Apart(j)' <=> Apart(j)
                             /\ Excused(j)' <=> Excused(j)
  BY <1>2 DEF Apart, Excused, NodeOfTeam
<1>5. Sweeps'
  <2> SUFFICES ASSUME NEW q \in Procs, proc'[q].pc = "sweep", NEW j \in proc'[q].ids
               PROVE  /\ jobs'[j].state = "done" => j \in late \/ ~Apart(j)'
                      /\ jobs'[j].state = "running" => jobs'[j].age > Timeout \/ ~Apart(j)'
    BY <1>2 DEF Sweeps, Apart, NodeOfTeam
  <2>1. proc[q].pc = "sweep" /\ j \in proc[q].ids /\ j \in DOMAIN jobs
    BY <1>3
  <2> QED
    BY <1>2, <1>4, <2>1 DEF Sweeps
<1>6. OneHolds'
  <2> SUFFICES ASSUME NEW g \in Hosts, NEW h \in Hosts, worker[g].pc \in Holding,
                      worker[h].pc \in Holding, worker[g].job = worker[h].job
               PROVE  g = h \/ ~Apart(worker[h].job)'
    BY <1>2 DEF OneHolds, Apart, NodeOfTeam
  <2>1. ~Apart(worker[h].job) => ~Apart(worker[h].job)'
    BY <1>2 DEF Apart, NodeOfTeam
  <2> QED
    BY <2>1 DEF OneHolds
<1>7. Owns'
  <2> SUFFICES ASSUME NEW h \in Hosts, worker[h].pc = "running", Apart(worker[h].job)'
               PROVE  /\ jobs'[worker[h].job].state = "running"
                      /\ jobs'[worker[h].job].age = worker[h].ran
                      /\ \A q \in Procs : proc'[q].pc = "score" => proc'[q].job # worker[h].job
    BY <1>2 DEF Owns, Apart, NodeOfTeam
  <2>1. Apart(worker[h].job) /\ worker[h].job \in DOMAIN jobs
    BY <1>2 DEF Apart, NodeOfTeam
  <2> QED
    BY <1>2, <1>3, <2>1 DEF Owns
<1>8. OneScores'
  BY <1>2, <1>3 DEF OneScores
<1>9. Scores'
  <2> SUFFICES ASSUME NEW q \in Procs, proc'[q].pc = "score"
               PROVE  \/ jobs'[proc'[q].job].state \in {"running", "aborted"}
                      \/ proc'[q].job \in late \cup together \/ ~Apart(proc[q].job)'
    BY <1>2 DEF Scores, Excused, Apart, NodeOfTeam
  <2>1. proc[q].pc = "score" /\ proc'[q] = proc[q] /\ proc[q].job \in DOMAIN jobs
    BY <1>3
  <2>2. ~Apart(proc[q].job) => ~Apart(proc[q].job)'
    BY <1>2, <2>1 DEF Apart, NodeOfTeam
  <2> QED
    BY <1>2, <2>1, <2>2 DEF Scores, Excused
<1>10. Scored'
  <2>1. n \in JobIds
    <3>1. Inserting' \subseteq Procs
      BY DEF Inserting
    <3>2. Cardinality(Inserting') \in Nat
      BY <3>1, Parameters, FS_Subset, FS_CardinalityType
    <3>3. jobs' \in Seq(Job) /\ Len(jobs') + Cardinality(Inserting') <= MaxJobs
      BY DEF TypesInv, Shapes
    <3>4. Len(jobs') \in Nat /\ DOMAIN jobs' = 1..Len(jobs')
      BY <3>3
    <3>5. n \in 1..Len(jobs')
      BY <1>2, <3>4
    <3> QED
      BY <3>2, <3>3, <3>4, <3>5, Parameters DEF JobIds
  <2> QED
    BY <1>2, <1>4, <2>1 DEF Scored
<1> QED
  BY <1>5, <1>6, <1>7, <1>8, <1>9, <1>10

LEMMA StartRuns == ASSUME RunsInv, NEW p \in Procs, DequeueUpdate(p) PROVE Runs'
<1> USE DEF RunsInv, Runs
<1> DEFINE j == proc[p].job
           w == [pc |-> "running", job |-> j, ran |-> 0]
<1>1. TypesInv
  BY DEF TableInv
<1> USE <1>1, ShapesParts, Names
<1>2. /\ proc[p].pc = "take" /\ SetState(j, "running") /\ proc' = [proc EXCEPT ![p] = Free]
      /\ worker' = Answer(p, w) /\ UNCHANGED <<scored, together, late>>
  BY DEF DequeueUpdate, Answer
<1>3. j \in DOMAIN jobs
  BY <1>2
<1>4. Apart(j) => jobs[j].state = "waiting"
  BY <1>2 DEF TableInv, Queue, Takes
<1>5. /\ DOMAIN jobs' = DOMAIN jobs /\ jobs'[j].state = "running" /\ jobs'[j].age = 0
      /\ \A k \in DOMAIN jobs : /\ jobs'[k].team = jobs[k].team
                                /\ k # j => jobs'[k] = jobs[k]
  BY <1>2, <1>3, SetStateForm DEF Active
<1>6. \A k \in DOMAIN jobs : /\ Apart(k)' <=> Apart(k)
                             /\ Excused(k)' <=> Excused(k)
  BY <1>2, <1>5 DEF Apart, Excused, NodeOfTeam
<1>7. \A q \in Procs : proc'[q].pc # "free" => proc'[q] = proc[q]
  BY <1>2 DEF Free
<1>8. /\ w.pc = "running" /\ w.job = j /\ w.ran = 0
      /\ \A h \in Hosts : worker'[h] = worker[h] \/ (worker'[h] = w /\ h = proc[p].client)
  BY <1>2 DEF Answer
<1>9. Apart(j) => /\ \A h \in Hosts : worker[h].pc \in Holding => worker[h].job # j
                  /\ \A q \in Procs : /\ proc[q].pc = "score" => proc[q].job # j
                                      /\ proc[q].pc = "sweep" => j \notin proc[q].ids
  BY <1>4 DEF TableInv, Held
<1> HIDE DEF j, w
<1>10. Sweeps'
  <2> SUFFICES ASSUME NEW q \in Procs, proc'[q].pc = "sweep", NEW k \in proc'[q].ids
               PROVE  /\ jobs'[k].state = "done" => k \in late \/ ~Apart(k)'
                      /\ jobs'[k].state = "running" => jobs'[k].age > Timeout \/ ~Apart(k)'
    BY <1>2 DEF Sweeps, Apart, NodeOfTeam
  <2>1. proc[q].pc = "sweep" /\ k \in proc[q].ids /\ k \in DOMAIN jobs
    BY <1>7
  <2>2. Apart(k) => k # j
    BY <1>9, <2>1
  <2> QED
    BY <1>5, <1>6, <2>1, <2>2 DEF Sweeps
<1>11. \A h \in Hosts : worker'[h].pc \in Holding =>
         /\ worker'[h].job \in DOMAIN jobs
         /\ Apart(worker[h].job)' <=> Apart(worker'[h].job)
  <2>1. \A h \in Hosts : worker'[h].pc \in Holding => worker'[h].job \in DOMAIN jobs
    BY <1>3, <1>8
  <2> QED
    BY <1>2, <1>5, <2>1 DEF Apart, NodeOfTeam
<1>12. OneHolds'
  <2> SUFFICES ASSUME NEW g \in Hosts, NEW h \in Hosts, worker'[g].pc \in Holding,
                      worker'[h].pc \in Holding, worker'[g].job = worker'[h].job,
                      Apart(worker'[h].job), g # h
               PROVE  FALSE
    BY <1>11 DEF OneHolds, Holding
  <2>1. CASE worker'[g] = worker[g] /\ worker'[h] = worker[h]
    BY <2>1 DEF OneHolds
  <2>2. CASE worker'[g] = w /\ worker'[h] = worker[h]
    BY <1>8, <1>9, <2>2
  <2>3. CASE worker'[g] = worker[g] /\ worker'[h] = w
    BY <1>8, <1>9, <2>3
  <2> QED
    BY <1>8, <2>1, <2>2, <2>3
<1>13. Owns'
  <2> SUFFICES ASSUME NEW h \in Hosts, worker'[h].pc = "running", Apart(worker'[h].job)
               PROVE  /\ jobs'[worker'[h].job].state = "running"
                      /\ jobs'[worker'[h].job].age = worker'[h].ran
                      /\ \A q \in Procs : proc'[q].pc = "score" => proc'[q].job # worker'[h].job
    BY <1>11 DEF Owns, Holding
  <2>1. CASE worker'[h] = w
    BY <1>5, <1>7, <1>8, <1>9, <2>1
  <2>2. CASE worker'[h] = worker[h]
    <3>1. worker[h].job # j /\ worker[h].job \in DOMAIN jobs
      BY <1>9, <2>2 DEF Holding
    <3> QED
      BY <1>5, <1>7, <2>2, <3>1 DEF Owns
  <2> QED
    BY <1>8, <2>1, <2>2
<1>14. OneScores'
  BY <1>2, <1>7 DEF OneScores
<1>15. Scores'
  <2> SUFFICES ASSUME NEW q \in Procs, proc'[q].pc = "score"
               PROVE  \/ jobs'[proc'[q].job].state \in {"running", "aborted"}
                      \/ proc'[q].job \in late \cup together \/ ~Apart(proc[q].job)'
    BY <1>2 DEF Scores, Excused, Apart, NodeOfTeam
  <2>1. proc[q].pc = "score" /\ proc'[q] = proc[q] /\ proc[q].job \in DOMAIN jobs
    BY <1>7
  <2>2. ~Apart(proc[q].job) => ~Apart(proc[q].job)'
    BY <1>2, <1>5, <2>1 DEF Apart, NodeOfTeam
  <2> QED
    BY <1>5, <2>1, <2>2 DEF Scores, Excused
<1>16. Scored'
  <2> SUFFICES ASSUME NEW k \in DOMAIN jobs, ~Excused(k)
               PROVE  scored[k] = IF jobs'[k].state = "done" THEN 1 ELSE 0
    BY <1>2, <1>5, <1>6 DEF Scored
  <2>1. jobs'[k].state = "done" <=> jobs[k].state = "done"
    BY <1>4, <1>5 DEF Excused
  <2> QED
    BY <2>1 DEF Scored
<1> QED
  BY <1>10, <1>12, <1>13, <1>14, <1>15, <1>16

LEMMA TickRuns == ASSUME RunsInv, Tick PROVE Runs'
<1> USE DEF RunsInv, Runs
<1>1. TypesInv
  BY DEF TableInv
<1> USE <1>1, ShapesParts, Names
<1>2. /\ DOMAIN jobs' = DOMAIN jobs /\ UNCHANGED <<scored, proc, together, late>>
      /\ \A j \in DOMAIN jobs :
           /\ jobs'[j].team = jobs[j].team /\ jobs'[j].state = jobs[j].state
           /\ jobs'[j].age = IF jobs[j].state = "running" /\ jobs[j].age <= Timeout
                             THEN jobs[j].age + 1 ELSE jobs[j].age
  BY TickForm
<1>3. \A h \in Hosts :
        /\ worker'[h].pc = worker[h].pc
        /\ worker[h].pc \in Holding => worker'[h].job = worker[h].job
        /\ worker[h].pc = "running" =>
             worker'[h].ran = worker[h].ran + 1 /\ worker[h].ran < RunLimit
  <2>1. \A h \in Hosts : worker[h].pc = "running" => worker[h].ran < RunLimit
    BY DEF Tick
  <2> QED
    BY <2>1, TickForm DEF Holding
<1>4. \A j \in DOMAIN jobs : /\ Apart(j)' <=> Apart(j)
                             /\ Excused(j)' <=> Excused(j)
  BY <1>2 DEF Apart, Excused, NodeOfTeam
<1>5. Sweeps'
  <2> SUFFICES ASSUME NEW q \in Procs, proc[q].pc = "sweep", NEW j \in proc[q].ids
               PROVE  /\ jobs'[j].state = "done" => j \in late \/ ~Apart(j)'
                      /\ jobs'[j].state = "running" => jobs'[j].age > Timeout \/ ~Apart(j)'
    BY <1>2 DEF Sweeps, Apart, NodeOfTeam
  <2>1. j \in DOMAIN jobs /\ jobs[j].age \in Nat
    BY Parameters DEF Job
  <2>2. jobs[j].age > Timeout => jobs'[j].age > Timeout
    BY <1>2, <2>1, Parameters
  <2> QED
    BY <1>2, <1>4, <2>1, <2>2 DEF Sweeps
<1>6. OneHolds'
  <2> SUFFICES ASSUME NEW g \in Hosts, NEW h \in Hosts, worker[g].pc \in Holding,
                      worker[h].pc \in Holding, worker[g].job = worker[h].job
               PROVE  g = h \/ ~Apart(worker[h].job)'
    BY <1>3 DEF OneHolds, Apart, NodeOfTeam
  <2>1. ~Apart(worker[h].job) => ~Apart(worker[h].job)'
    BY <1>2, <1>3 DEF Apart, NodeOfTeam
  <2> QED
    BY <2>1 DEF OneHolds
<1>7. Owns'
  <2> SUFFICES ASSUME NEW h \in Hosts, worker[h].pc = "running", Apart(worker[h].job)'
               PROVE  /\ jobs'[worker[h].job].state = "running"
                      /\ jobs'[worker[h].job].age = worker'[h].ran
                      /\ \A q \in Procs : proc[q].pc = "score" => proc[q].job # worker[h].job
    BY <1>2, <1>3 DEF Owns, Apart, NodeOfTeam, Holding
  <2>1. Apart(worker[h].job) /\ worker[h].job \in DOMAIN jobs
    BY <1>2, <1>3 DEF Apart, NodeOfTeam, Holding
  <2>2. jobs[worker[h].job].age = worker[h].ran /\ worker[h].ran < Timeout
        /\ worker[h].ran \in Nat
    BY <1>3, <2>1, Parameters DEF Owns
  <2>3. jobs[worker[h].job].state = "running" /\ jobs[worker[h].job].age <= Timeout
    BY <2>1, <2>2, Parameters DEF Owns
  <2> QED
    BY <1>2, <1>3, <2>1, <2>2, <2>3 DEF Owns
<1>8. OneScores' /\ Scored'
  BY <1>2, <1>4 DEF OneScores, Scored
<1>9. Scores'
  <2> SUFFICES ASSUME NEW q \in Procs, proc[q].pc = "score"
               PROVE  \/ jobs'[proc[q].job].state \in {"running", "aborted"}
                      \/ proc[q].job \in late \cup together \/ ~Apart(proc[q].job)'
    BY <1>2 DEF Scores, Excused, Apart, NodeOfTeam
  <2>1. ~Apart(proc[q].job) => ~Apart(proc[q].job)'
    BY <1>2 DEF Apart, NodeOfTeam
  <2> QED
    BY <1>2, <2>1 DEF Scores, Excused
<1> QED
  BY <1>5, <1>6, <1>7, <1>8, <1>9

LEMMA InitRuns == Init => RunsInv
<1> SUFFICES ASSUME Init PROVE RunsInv
  OBVIOUS
<1>1. /\ DOMAIN jobs = {} /\ scored = [j \in JobIds |-> 0]
      /\ \A p \in Procs : proc[p].pc = "free"
      /\ \A h \in Hosts : worker[h].pc = "idle"
  BY DEF Init, Free, Idle
<1> QED
  BY <1>1, InitTable
     DEF RunsInv, Runs, Holding, Sweeps, OneHolds, Owns, OneScores, Scores, Scored

LEMMA NextRuns == RunsInv /\ [Next]_vars => RunsInv'
<1> SUFFICES ASSUME RunsInv, [Next]_vars PROVE RunsInv'
  OBVIOUS
<1>1. TypesInv /\ TableInv' /\ TypesInv'
  BY NextTable, NextTypes DEF RunsInv, TableInv
<1> SUFFICES Runs'
  BY <1>1 DEF RunsInv
<1>2. CASE UNCHANGED vars
  <2>1. Quiet
    BY <1>2 DEF vars, Quiet, SameProcs, SameWorkers
  <2> QED
    BY <2>1, QuietRuns
<1>3. ASSUME NEW p \in Procs,
             Handle(p) \/ LoseAnswer(p) \/ \E t \in Teams : EnqueueRead(p, t)
      PROVE  Runs'
  <2>1. CASE EnqueueInsert(p) \/ Sweep(p) \/ DequeueUpdate(p) \/ DoneWrite(p)
    BY <1>1, <2>1, InsertRuns, SweepRuns, StartRuns, DoneRuns
  <2>2. CASE NoJob(p) \/ DequeueRead(p) \/ LoseAnswer(p) \/ \E t \in Teams : EnqueueRead(p, t)
    <3>1. Quiet
      BY <1>1, <2>2, QuietHandlers
    <3> QED
      BY <3>1, QuietRuns
  <2> QED
    BY <1>3, <2>1, <2>2 DEF Handle
<1>4. ASSUME NEW h \in Hosts, Work(h) \/ Forgets(h) PROVE Runs'
  <2>1. CASE jobs[worker[h].job].state = "running" /\ abort_job(h)
    BY <2>1, AbortRuns
  <2>2. ASSUME NEW p \in Procs, jobs[worker[h].job].state = "running", DoneRead(p, h)
        PROVE  Runs'
    BY <2>2, ScoreRuns
  <2>3. CASE \/ \E file \in {"good", "bad", "none"} : RunEnds(h, file)
             \/ PostNoFile(h) \/ Forgets(h)
             \/ \E p \in Procs : GetJob(p, h)
             \/ /\ jobs[worker[h].job].state # "running"
                /\ abort_job(h) \/ \E p \in Procs : DoneRead(p, h)
    <3>1. Quiet
      BY <1>1, <2>3, QuietWorkers
    <3> QED
      BY <3>1, QuietRuns
  <2> QED
    BY <1>4, <2>1, <2>2, <2>3 DEF Work
<1> QED
  BY <1>2, <1>3, <1>4, TickRuns DEF Next

\* A benchmark that runs is a running job of the table, which no sweep takes from
\* its worker (abort_timeout_job; main.go's deadline is the shorter one).
THEOREM RunCorrect == Spec => []RunOwned
<1>1. RunsInv => RunOwned
  BY DEF RunsInv, Runs, Owns, RunOwned, Disturbed, Apart
<1> QED
  BY <1>1, InitRuns, NextRuns, PTL DEF Spec

\* A job is scored once, and then it is done for ever (done_job, post_job_result).
THEOREM ScoreCorrect == Spec => []ScoredIffDone
<1>1. RunsInv => ScoredIffDone
  BY DEF RunsInv, Runs, Scored, ScoredIffDone, Excused, Apart
<1> QED
  BY <1>1, InitRuns, NextRuns, PTL DEF Spec
=============================================================================
