----------------------------- MODULE BenchQueue -----------------------------
(***************************************************************************)
(* The queue of benchmark jobs of the contest portal                       *)
(* (portal/lib/ISUCON8/Portal/Model/Bench.pm) and the workers that poll it *)
(* (bench/cmd/bench-worker).  A step of a handler is what the database     *)
(* does at once: the reads of a transaction share the snapshot of its      *)
(* first read (REPEATABLE READ, no lock), its writes take effect with its  *)
(* COMMIT.  Time is counted in coarse ticks.                               *)
(***************************************************************************)
EXTENDS Naturals, Sequences, FiniteSets

CONSTANTS
    Teams, Hosts, Nodes,    \* teams; benchmark hosts, one worker each; machines
    HostOf, NodeOf,         \* the host a team's group runs on, the host's machine
    MaxProcs,               \* bound: portal handlers at work at a time
    Gone,                   \* the client of a handler whose answer is lost
    RunLimit, Timeout,      \* a run's deadline (180 s) and the sweep's (300 s)
    MaxTries,               \* posts of one result (the code: 3)
    MaxJobs, MaxFaults      \* bounds: jobs enqueued; answers lost and crashes

ASSUME BenchAssumption ==
    /\ HostOf \in [Teams -> Hosts] /\ NodeOf \in [Hosts -> Nodes] /\ Gone \notin Hosts
    /\ RunLimit \in Nat /\ Timeout \in Nat /\ RunLimit <= Timeout
    /\ MaxProcs \in Nat \ {0} /\ MaxTries \in Nat \ {0} /\ MaxJobs \in Nat /\ MaxFaults \in Nat
BENCHMARK_MAX_CONCURRENCY == 1

VARIABLES
    jobs,       \* table bench_queues, in the order of id
    scored,     \* rows of all_scores and team_scores written for each job
    proc,       \* what each handler of the portal is doing
    worker,     \* what each host's worker is doing
    faults,     \* answers lost and crashes so far
    \* history:
    together,   \* teams, jobs and nodes two handlers have decided about at a time
    late        \* jobs whose result was written after the deadline of the sweep
vars == <<jobs, scored, proc, worker, faults, together, late>>

JobIds == 1..MaxJobs
Procs == 1..MaxProcs
Active == {"waiting", "running"}
NodeOfTeam(t) == NodeOf[HostOf[t]]
Running(node) == {j \in DOMAIN jobs : jobs[j].state = "running"
                                      /\ NodeOfTeam(jobs[j].team) = node}

Free == [pc |-> "free"]
Idle == [pc |-> "idle"]
Init ==
    /\ jobs = <<>> /\ scored = [j \in JobIds |-> 0]
    /\ proc = [p \in Procs |-> Free]
    /\ worker = [h \in Hosts |-> Idle]
    /\ faults = 0 /\ together = {} /\ late = {}

\* The processes of the portal are alike: the first free one takes a request.
IsFree(p) == proc[p].pc = "free" /\ \A q \in Procs : proc[q].pc = "free" => p <= q
Fault == faults < MaxFaults /\ faults' = faults + 1

\* The handlers, other than p, at pc that are about what f gives x for.
Others(p, pc, f(_), x) == {q \in Procs \ {p} : proc[q].pc = pc /\ f(proc[q]) = x}
Met(others, x) == together' = IF others = {} THEN together ELSE together \cup {x}
TeamIn(r) == r.team
JobIn(r) == r.job
NodeIn(r) == NodeOfTeam(jobs[r.job].team)
SetState(j, state) == jobs' = [jobs EXCEPT ![j].state = state, ![j].age = 0]
-----------------------------------------------------------------------------
(* POST /api/job/enqueue. *)

\* The bound counts the inserts under way.
Room == Len(jobs) + Cardinality({p \in Procs : proc[p].pc = "insert"}) < MaxJobs

CountsWaiting(p, t) ==              \* mutant: only waiting jobs are counted
    /\ IsFree(p) /\ Room
    /\ \A j \in DOMAIN jobs : jobs[j].team = t => jobs[j].state # "waiting"
    /\ proc' = [proc EXCEPT ![p] = [pc |-> "insert", team |-> t]]
    /\ Met(Others(p, "insert", TeamIn, t), t)
    /\ UNCHANGED <<jobs, scored, worker, late, faults>>
\* COUNT of the team's jobs; a team that has one is refused.
EnqueueRead(p, t) ==
    /\ IsFree(p) /\ Room
    /\ \A j \in DOMAIN jobs : jobs[j].team = t => jobs[j].state \notin Active
    /\ proc' = [proc EXCEPT ![p] = [pc |-> "insert", team |-> t]]
    /\ Met(Others(p, "insert", TeamIn, t), t)
    /\ UNCHANGED <<jobs, scored, worker, late, faults>>

\* created_at is in seconds: the job may share the one of the job before it.
EnqueueInsert(p) ==
    /\ proc[p].pc = "insert"
    /\ LET last == IF jobs = <<>> THEN 0 ELSE jobs[Len(jobs)].created
       IN \E created \in last..Len(jobs) :
            jobs' = Append(jobs, [team |-> proc[p].team, state |-> "waiting",
                                  created |-> created, age |-> 0])
    /\ proc' = [proc EXCEPT ![p] = Free]
    /\ UNCHANGED <<scored, worker, together, late, faults>>
-----------------------------------------------------------------------------
(* GET /bench/job: abort_timeout_job, then dequeue_job. *)

HastyOverdue ==                     \* mutant: the sweep's deadline is the run's
    {j \in DOMAIN jobs : jobs[j].state = "running" /\ jobs[j].age >= RunLimit}
Overdue == {j \in DOMAIN jobs : jobs[j].state = "running" /\ jobs[j].age > Timeout}
GetWithoutSweep(p, h) ==            \* mutant: nobody aborts overdue jobs
    /\ IsFree(p) /\ worker[h].pc = "idle"
    /\ proc' = [proc EXCEPT ![p] = [pc |-> "dequeue", host |-> h, client |-> h]]
    /\ worker' = [worker EXCEPT ![h] = [pc |-> "getting"]]
    /\ UNCHANGED <<jobs, scored, together, late, faults>>
GetJob(p, h) ==
    /\ IsFree(p) /\ worker[h].pc = "idle"
    /\ proc' = [proc EXCEPT ![p] =
          IF Overdue = {} THEN [pc |-> "dequeue", host |-> h, client |-> h]
          ELSE [pc |-> "sweep", host |-> h, client |-> h, ids |-> Overdue]]
    /\ worker' = [worker EXCEPT ![h] = [pc |-> "getting"]]
    /\ UNCHANGED <<jobs, scored, together, late, faults>>

\* The UPDATE names the ids it selected, whatever they have become.
Sweep(p) ==
    /\ proc[p].pc = "sweep"
    /\ jobs' = [j \in DOMAIN jobs |->
          IF j \in proc[p].ids THEN [jobs[j] EXCEPT !.state = "aborted", !.age = 0]
                               ELSE jobs[j]]
    /\ proc' = [proc EXCEPT ![p] = [pc |-> "dequeue", host |-> proc[p].host,
                                    client |-> proc[p].client]]
    /\ UNCHANGED <<scored, worker, together, late, faults>>

\* The oldest job of the host that is not over; any of those of one second.
Oldest(h) ==
    LET queue == {j \in DOMAIN jobs : HostOf[jobs[j].team] = h /\ jobs[j].state \in Active}
    IN {j \in queue : \A k \in queue : jobs[j].created <= jobs[k].created}
AnyConcurrency(j) == jobs[j].state = "waiting"   \* mutant: the machine is not counted
MayRun(j) ==
    /\ jobs[j].state = "waiting"
    /\ Cardinality(Running(NodeOfTeam(jobs[j].team))) < BENCHMARK_MAX_CONCURRENCY

NoAnswer(p) ==                      \* mutant: returns without an answer
    /\ proc[p].pc = "dequeue"
    /\ LET oldest == Oldest(proc[p].host)
       IN oldest = {} \/ \E j \in oldest : ~MayRun(j)
    /\ proc' = [proc EXCEPT ![p] = Free]
    /\ UNCHANGED <<jobs, scored, worker, together, late, faults>>
NoJob(p) ==
    /\ proc[p].pc = "dequeue"
    /\ LET oldest == Oldest(proc[p].host)
       IN oldest = {} \/ \E j \in oldest : ~MayRun(j)
    /\ worker' = IF proc[p].client = Gone THEN worker
                 ELSE [worker EXCEPT ![proc[p].client] = Idle]
    /\ proc' = [proc EXCEPT ![p] = Free]
    /\ UNCHANGED <<jobs, scored, together, late, faults>>

DequeueRead(p) ==
    /\ proc[p].pc = "dequeue"
    /\ \E j \in Oldest(proc[p].host) :
         /\ MayRun(j)
         /\ proc' = [proc EXCEPT ![p] = [pc |-> "take", job |-> j, client |-> proc[p].client]]
         /\ Met(Others(p, "take", NodeIn, NodeOfTeam(jobs[j].team)),
                NodeOfTeam(jobs[j].team))
    /\ UNCHANGED <<jobs, scored, worker, late, faults>>

DequeueUpdate(p) ==
    /\ proc[p].pc = "take"
    /\ SetState(proc[p].job, "running")
    /\ worker' = IF proc[p].client = Gone THEN worker
                 ELSE [worker EXCEPT ![proc[p].client] =
                         [pc |-> "running", job |-> proc[p].job, ran |-> 0]]
    /\ proc' = [proc EXCEPT ![p] = Free]
    /\ UNCHANGED <<scored, together, late, faults>>
-----------------------------------------------------------------------------
(* The worker: one run at a time, killed at its deadline, and its result. *)

\* The benchmark ends, or the context kills it: its result file is whole,
\* cannot be decoded, or was never written.
RunEnds(h, file) ==
    /\ worker[h].pc = "running"
    /\ worker' = [worker EXCEPT ![h] = [pc |-> "post", job |-> worker[h].job,
                                        file |-> file, try |-> 1]]
    /\ UNCHANGED <<jobs, scored, proc, together, late, faults>>

\* cmd.Start fails, or the process dies: nobody posts a result.
Forgets(h) ==
    /\ worker[h].pc \in {"running", "post", "posting"} /\ Fault
    /\ worker' = [worker EXCEPT ![h] = Idle]
    /\ proc' = [p \in Procs |-> IF proc[p].pc = "score" /\ proc[p].client = h
                                THEN [proc[p] EXCEPT !.client = Gone] ELSE proc[p]]
    /\ UNCHANGED <<jobs, scored, together, late>>

\* After the last try the worker gives up; it sends its log with the first only.
Failed(h) ==
    LET w == worker[h]
    IN [worker EXCEPT ![h] = IF w.try = MaxTries THEN Idle
                             ELSE [w EXCEPT !.pc = "post", !.try = w.try + 1]]

\* POST /bench/job/result.  A run that was killed says "aborted", which nobody
\* reads: without a file the answer is 400, with one that cannot be decoded
\* abort_job runs, with a whole one done_job.
PostNoFile(h) ==
    /\ worker[h].pc = "post" /\ worker[h].file = "none"
    /\ worker' = Failed(h)
    /\ UNCHANGED <<jobs, scored, proc, together, late, faults>>

abort_job(h) ==
    /\ worker[h].pc = "post" /\ worker[h].file = "bad"
    /\ IF jobs[worker[h].job].state = "running"
       THEN SetState(worker[h].job, "aborted") ELSE UNCHANGED jobs
    /\ \/ worker' = [worker EXCEPT ![h] = Idle]
          /\ UNCHANGED faults
       \/ worker' = Failed(h) /\ Fault
    /\ UNCHANGED <<scored, proc, together, late>>

\* done_job: a job that is not running is a conflict.
DoneUnchecked(p, h) ==              \* mutant: the state is not looked at
    /\ IsFree(p) /\ worker[h].pc = "post" /\ worker[h].file = "good"
    /\ proc' = [proc EXCEPT ![p] = [pc |-> "score", job |-> worker[h].job, client |-> h]]
    /\ worker' = [worker EXCEPT ![h].pc = "posting"]
    /\ Met(Others(p, "score", JobIn, worker[h].job), worker[h].job)
    /\ UNCHANGED <<jobs, scored, late, faults>>
DoneRead(p, h) ==
    LET j == worker[h].job
    IN /\ IsFree(p) /\ worker[h].pc = "post" /\ worker[h].file = "good"
       /\ IF jobs[j].state = "running"
          THEN /\ proc' = [proc EXCEPT ![p] = [pc |-> "score", job |-> j, client |-> h]]
               /\ worker' = [worker EXCEPT ![h].pc = "posting"]
               /\ Met(Others(p, "score", JobIn, j), j)
          ELSE worker' = Failed(h) /\ UNCHANGED <<proc, together>>
       /\ UNCHANGED <<jobs, scored, late, faults>>

DoneWrite(p) ==
    LET j == proc[p].job
    IN /\ proc[p].pc = "score"
       /\ SetState(j, "done")
       /\ scored' = [scored EXCEPT ![j] = @ + 1]
       /\ late' = IF jobs[j].state = "aborted" \/ jobs[j].age > Timeout
                  THEN late \cup {j} ELSE late
       /\ worker' = IF proc[p].client = Gone THEN worker
                    ELSE [worker EXCEPT ![proc[p].client] = Idle]
       /\ proc' = [proc EXCEPT ![p] = Free]
       /\ UNCHANGED <<together, faults>>

\* The worker gets an error (a proxy's timeout), the handler goes on.
LoseAnswer(p) ==
    LET h == proc[p].client
    IN /\ Fault
       /\ proc[p].pc \in {"sweep", "dequeue", "take", "score"} /\ h # Gone
       /\ worker' = IF proc[p].pc = "score" THEN Failed(h) ELSE [worker EXCEPT ![h] = Idle]
       /\ proc' = [proc EXCEPT ![p].client = Gone]
       /\ UNCHANGED <<jobs, scored, together, late>>

\* Time passes, but never past the deadline of a run.
Tick ==
    /\ \A h \in Hosts : worker[h].pc = "running" => worker[h].ran < RunLimit
    /\ jobs' = [j \in DOMAIN jobs |->
          IF jobs[j].state = "running" /\ jobs[j].age <= Timeout
          THEN [jobs[j] EXCEPT !.age = @ + 1] ELSE jobs[j]]
    /\ worker' = [h \in Hosts |-> IF worker[h].pc = "running"
                                  THEN [worker[h] EXCEPT !.ran = @ + 1] ELSE worker[h]]
    /\ UNCHANGED <<scored, proc, together, late, faults>>
-----------------------------------------------------------------------------
Handle(p) ==
    EnqueueInsert(p) \/ Sweep(p) \/ NoJob(p) \/ DequeueRead(p) \/ DequeueUpdate(p)
    \/ DoneWrite(p)
Work(h) ==
    \/ \E file \in {"good", "bad", "none"} : RunEnds(h, file)
    \/ PostNoFile(h) \/ abort_job(h)
    \/ \E p \in Procs : GetJob(p, h) \/ DoneRead(p, h)

Next ==
    \/ \E p \in Procs : Handle(p) \/ LoseAnswer(p) \/ \E t \in Teams : EnqueueRead(p, t)
    \/ \E h \in Hosts : Work(h) \/ Forgets(h)
    \/ Tick

Spec == Init /\ [][Next]_vars
\* Handlers and runs end, workers poll for ever and find a free handler again
\* and again, time passes.
FairSpec == /\ Spec /\ WF_vars(Tick)
            /\ \A p \in Procs : WF_vars(Handle(p))
            /\ \A h \in Hosts : SF_vars(Work(h))
-----------------------------------------------------------------------------
(* Properties. *)

\* Types; the work that is under way names rows that exist.
TypeOK ==
    /\ Len(jobs) <= MaxJobs
    /\ \A j \in DOMAIN jobs :
         /\ jobs[j].team \in Teams /\ jobs[j].created \in 0..j
         /\ jobs[j].state \in Active \cup {"done", "aborted"}
         /\ jobs[j].age \in 0..Timeout + 1
    /\ \A p \in Procs :
         /\ proc[p].pc \in {"free", "insert", "sweep", "dequeue", "take", "score"}
         /\ proc[p].pc = "insert" => proc[p].team \in Teams
         /\ proc[p].pc = "sweep" => proc[p].ids \subseteq DOMAIN jobs
         /\ proc[p].pc \in {"take", "score"} => proc[p].job \in DOMAIN jobs
         /\ proc[p].pc \in {"sweep", "dequeue", "take", "score"}
              => proc[p].client \in Hosts \cup {Gone}
    /\ \A h \in Hosts :
         /\ worker[h].pc \in {"idle", "getting", "running", "post", "posting"}
         /\ worker[h].pc \in {"running", "post", "posting"} => worker[h].job \in DOMAIN jobs
         \* a worker that waits for an answer has one handler at work for it
         /\ worker[h].pc \in {"getting", "posting"}
              <=> \E p \in Procs : proc[p].pc # "free" /\ proc[p].pc # "insert"
                                    /\ proc[p].client = h

Disturbed(j) == NodeOfTeam(jobs[j].team) \in together \/ jobs[j].team \in together

\* MANUAL.md:27: while a team's benchmark waits or runs no other is accepted.
\* That holds as long as no two requests of the team, and no two dequeues of its
\* machine, are between their reads and their writes at the same time.
OneJobUnlessTogether ==
    \A j, k \in DOMAIN jobs :
      jobs[j].team = jobs[k].team /\ {jobs[j].state, jobs[k].state} \subseteq Active
        => j = k \/ Disturbed(j)

\* A machine runs one benchmark at a time, unless two dequeues overlapped.
NodeShared ==
    \A n \in Nodes : n \in together
      \/ Cardinality(Running(n)) <= BENCHMARK_MAX_CONCURRENCY

\* A benchmark that runs is a running job of the table: the sweep never
\* aborts a job under a worker that is still at it, however it was reached.
RunOwned ==
    \A h \in Hosts : worker[h].pc = "running" =>
      jobs[worker[h].job].state = "running" \/ Disturbed(worker[h].job)

\* The scores and the job agree: a job is scored once and is then done for
\* ever, although a result is posted three times and the sweep names jobs it
\* read before.  Excused: results that came after the deadline, two posts or
\* two dequeues at a time.
ScoredIffDone ==
    \A j \in DOMAIN jobs :
      \/ scored[j] = IF jobs[j].state = "done" THEN 1 ELSE 0
      \/ j \in late \cup together \/ NodeOfTeam(jobs[j].team) \in together

\* Every job that waits is over in the end, whatever its worker forgets.
JobsEnd ==
    \A j \in JobIds : (j \in DOMAIN jobs /\ jobs[j].state = "waiting")
      ~> (j \in DOMAIN jobs /\ jobs[j].state \in {"done", "aborted"})
=============================================================================
