----------------------------- MODULE ThreadPool -----------------------------
(***************************************************************************)
(* ddrl::threading::ThreadPool: worker threads that take tasks from one    *)
(* mutex-protected queue, and the callers that cut a range of work into    *)
(* chunks, submit every chunk and wait for its future: parallel_for() and  *)
(* trace_rays(), which the simulator threads run on one shared pool.       *)
(* A step is what happens under the lock, or between two uses of it.       *)
(***************************************************************************)
EXTENDS Integers, Sequences, FiniteSets

CONSTANTS
  Workers,   \* the pool's possible worker threads
  Callers,   \* threads that use the pool
  Counts,    \* sizes of the ranges they process
  Grain,     \* parallel_for's grain
  MinRays,   \* kMinRaysPerTask
  MaxQueued, \* kMaxQueuedTasksPerWorker
  Modes,     \* a subset of {"parallel_for", "trace_rays"}
  CanThrow,  \* whether a task may end with an exception
  MaxCalls   \* bound on the calls of one caller

ASSUME PoolAssumption ==
  /\ IsFiniteSet(Workers) /\ IsFiniteSet(Callers)
  /\ \E most \in Counts : \A count \in Counts : count <= most
  /\ Counts \subseteq Nat \ {0} /\ Grain \in Nat \ {0} /\ MinRays \in Nat \ {0}
  /\ MaxQueued \in Nat /\ MaxCalls \in Nat /\ CanThrow \in BOOLEAN
  /\ Modes \subseteq {"parallel_for", "trace_rays"}

VARIABLES
  running,  \* running_
  taskQ,    \* task_q_
  wpc,      \* worker threads: "none", "ready", "waiting" on condvar_, "busy", "exited"
  job,      \* the task a busy worker executes
  owner,    \* the owner's progress: "down", "up", "flagged", "joining"
  cpc,      \* callers: "idle", "submitting", "notifying", "joining"
  call,     \* the latest call of each caller
  ready,    \* tasks whose future holds a value
  failed,   \* tasks whose future holds an exception
  ran       \* history: how often each index of the latest call was processed

vars == <<running, taskQ, wpc, job, owner, cpc, call, ready, failed, ran>>

NoTask == [caller |-> "none", n |-> 0, from |-> 0, to |-> 0]

Threads == {w \in Workers : wpc[w] # "none"}
Waiting == {w \in Workers : wpc[w] = "waiting"}

Max2(a, b) == IF a >= b THEN a ELSE b
Min2(a, b) == IF a <= b THEN a ELSE b
CeilDiv(a, b) == (a + b - 1) \div b

\* The number of indexes per task; a range as long as its chunk is not cut.
UsableWorkers(count) == Min2(Max2(1, Cardinality(Threads)), count \div MinRays)

Overloaded ==
  LET limit == Max2(1, Cardinality(Threads)) * MaxQueued
  IN limit > 0 /\ Len(taskQ) >= limit

RunsSerially(mode, count) ==
  \/ mode = "parallel_for" /\ (Threads = {} \/ count <= Grain)
  \/ mode = "trace_rays" /\ (UsableWorkers(count) <= 1 \/ Overloaded)

Chunk(mode, count) ==
  CASE mode = "parallel_for" -> Max2(Grain, CeilDiv(count, Max2(1, Cardinality(Threads))))
    [] mode = "trace_rays"   -> Max2(1, CeilDiv(count, UsableWorkers(count)))

TaskAt(c, from) ==
  [caller |-> c, n |-> call[c].n, from |-> from,
   to |-> Min2(from + call[c].chunk, call[c].count)]

\* The tasks of the caller's latest call that it has submitted.
Submitted(c) ==
  {TaskAt(c, f) : f \in {g \in 0..call[c].next - 1 : g % call[c].chunk = 0}}

MaxCount == CHOOSE m \in Counts : \A k \in Counts : k <= m
Indexes == 0..MaxCount - 1

-----------------------------------------------------------------------------
Init ==
  /\ running = FALSE /\ taskQ = <<>> /\ owner = "down"
  /\ wpc = [w \in Workers |-> "none"] /\ job = [w \in Workers |-> NoTask]
  /\ cpc = [c \in Callers |-> "idle"]
  /\ call = [c \in Callers |-> [n |-> 0, mode |-> "none", count |-> 0, chunk |-> 1,
                                next |-> 0, outcome |-> "none"]]
  /\ ready = {} /\ failed = {}
  /\ ran = [c \in Callers |-> [i \in Indexes |-> 0]]

\* resize(n) once the old threads are gone, and the constructor.
Resize(S) ==
  /\ owner = "down"
  /\ owner' = "up" /\ running' = TRUE
  /\ wpc' = [w \in Workers |-> IF w \in S THEN "ready" ELSE "none"]
  /\ UNCHANGED <<taskQ, job, cpc, call, ready, failed, ran>>

(* The callers.  stop() and resize() may not overlap with them.            *)

Begin(c, mode, count, outcome) ==
  /\ owner = "up" /\ cpc[c] = "idle" /\ call[c].n < MaxCalls
  /\ call' = [call EXCEPT ![c] = [n |-> @.n + 1, mode |-> mode, count |-> count,
                                  chunk |-> IF outcome = "serial" THEN count
                                            ELSE Chunk(mode, count),
                                  next |-> 0, outcome |-> outcome]]

RunSerially(c, mode, count) ==
  /\ RunsSerially(mode, count)
  /\ Begin(c, mode, count, "serial")
  /\ ran' = [ran EXCEPT ![c] = [i \in Indexes |-> IF i < count THEN 1 ELSE 0]]
  /\ UNCHANGED <<running, taskQ, wpc, job, owner, cpc, ready, failed>>

BeginTasks(c, mode, count) ==
  /\ ~ RunsSerially(mode, count)
  /\ Begin(c, mode, count, "pending")
  /\ cpc' = [cpc EXCEPT ![c] = "submitting"]
  /\ ran' = [ran EXCEPT ![c] = [i \in Indexes |-> 0]]
  /\ UNCHANGED <<running, taskQ, wpc, job, owner, ready, failed>>

\* submit(): the task is queued under the lock ...
Submit(c) ==
  /\ cpc[c] = "submitting"
  /\ taskQ' = Append(taskQ, TaskAt(c, call[c].next))
  /\ call' = [call EXCEPT ![c].next = @ + call[c].chunk]
  /\ cpc' = [cpc EXCEPT ![c] = "notifying"]
  /\ UNCHANGED <<running, wpc, job, owner, ready, failed, ran>>

AfterNotify(c) == IF call[c].next < call[c].count THEN "submitting" ELSE "joining"

\* Mutant of Notify: no notification once the caller has nothing more to do.
Notify_NotLast(c) ==
  /\ cpc[c] = "notifying"
  /\ cpc' = [cpc EXCEPT ![c] = AfterNotify(c)]
  /\ IF Waiting = {} \/ call[c].next >= call[c].count THEN UNCHANGED wpc
     ELSE \E w \in Waiting : wpc' = [wpc EXCEPT ![w] = "ready"]
  /\ UNCHANGED <<running, taskQ, job, owner, call, ready, failed, ran>>

\* ... and after it is released, notify_one() wakes some waiting thread.
Notify(c) ==
  /\ cpc[c] = "notifying"
  /\ cpc' = [cpc EXCEPT ![c] = AfterNotify(c)]
  /\ IF Waiting = {} THEN UNCHANGED wpc
     ELSE \E w \in Waiting : wpc' = [wpc EXCEPT ![w] = "ready"]
  /\ UNCHANGED <<running, taskQ, job, owner, call, ready, failed, ran>>

Return(c, outcome) ==
  /\ cpc' = [cpc EXCEPT ![c] = "idle"]
  /\ call' = [call EXCEPT ![c].outcome = outcome]
  /\ UNCHANGED <<running, taskQ, wpc, job, owner, ready, failed, ran>>

\* Mutant of JoinAll: stops waiting once the last future is ready.
JoinAll_LastOnly(c) ==
  /\ cpc[c] = "joining"
  /\ \E t \in ready : t.caller = c /\ t.n = call[c].n /\ t.to = call[c].count
  /\ Return(c, "done")

\* Every future.get() has returned.
JoinAll(c) ==
  /\ cpc[c] = "joining"
  /\ Submitted(c) \subseteq ready
  /\ Return(c, "done")

\* A future.get() rethrows; those of the later chunks are never called.
JoinThrows(c) ==
  /\ cpc[c] = "joining"
  /\ \E t \in Submitted(c) \cap failed :
       \A u \in Submitted(c) : u.from < t.from => u \in ready
  /\ Return(c, "threw")

(* The worker threads.                                                     *)

\* Mutant of Wait: sleeps on a condition variable without its predicate.
Wait_Unconditionally(w) ==
  /\ wpc[w] = "ready" /\ running
  /\ wpc' = [wpc EXCEPT ![w] = "waiting"]
  /\ UNCHANGED <<running, taskQ, job, owner, cpc, call, ready, failed, ran>>

Wait(w) ==
  /\ wpc[w] = "ready" /\ running /\ taskQ = <<>>
  /\ wpc' = [wpc EXCEPT ![w] = "waiting"]
  /\ UNCHANGED <<running, taskQ, job, owner, cpc, call, ready, failed, ran>>

\* A condition variable may wake a thread that nobody notified.
SpuriousWake(w) ==
  /\ wpc[w] = "waiting"
  /\ wpc' = [wpc EXCEPT ![w] = "ready"]
  /\ UNCHANGED <<running, taskQ, job, owner, cpc, call, ready, failed, ran>>

\* Taken whether or not the pool is still running.
Take(w) ==
  /\ wpc[w] = "ready" /\ taskQ # <<>>
  /\ wpc' = [wpc EXCEPT ![w] = "busy"]
  /\ job' = [job EXCEPT ![w] = Head(taskQ)]
  /\ taskQ' = Tail(taskQ)
  /\ UNCHANGED <<running, owner, cpc, call, ready, failed, ran>>

\* The thread's loop goes round; the indexes below upto have been processed.
Finish(w, upto) ==
  LET t == job[w]
  IN /\ wpc' = [wpc EXCEPT ![w] = "ready"]
     /\ job' = [job EXCEPT ![w] = NoTask]
     /\ ran' = [ran EXCEPT ![t.caller] =
                  [i \in Indexes |->
                     IF t.n = call[t.caller].n /\ t.from <= i /\ i < upto
                     THEN @[i] + 1 ELSE @[i]]]
     /\ UNCHANGED <<running, taskQ, owner, cpc, call>>

Execute(w) ==
  /\ wpc[w] = "busy"
  /\ Finish(w, job[w].to)
  /\ ready' = ready \cup {job[w]}
  /\ UNCHANGED failed

\* The packaged_task stores the exception in the future.
ExecuteThrows(w) ==
  /\ CanThrow /\ wpc[w] = "busy"
  /\ \E upto \in job[w].from..job[w].to - 1 : Finish(w, upto)
  /\ failed' = failed \cup {job[w]}
  /\ UNCHANGED ready

Exit(w) ==
  /\ wpc[w] = "ready" /\ ~ running /\ taskQ = <<>>
  /\ wpc' = [wpc EXCEPT ![w] = "exited"]
  /\ UNCHANGED <<running, taskQ, job, owner, cpc, call, ready, failed, ran>>

(* stop()                                                                  *)

StopFlag ==
  /\ owner = "up" /\ \A c \in Callers : cpc[c] = "idle"
  /\ running' = FALSE /\ owner' = "flagged"
  /\ UNCHANGED <<taskQ, wpc, job, cpc, call, ready, failed, ran>>

\* Mutant of StopNotify: notify_one() instead of notify_all().
StopNotify_One ==
  /\ owner = "flagged" /\ owner' = "joining"
  /\ IF Waiting = {} THEN UNCHANGED wpc
     ELSE \E w \in Waiting : wpc' = [wpc EXCEPT ![w] = "ready"]
  /\ UNCHANGED <<running, taskQ, job, cpc, call, ready, failed, ran>>

StopNotify ==
  /\ owner = "flagged" /\ owner' = "joining"
  /\ wpc' = [w \in Workers |-> IF w \in Waiting THEN "ready" ELSE wpc[w]]
  /\ UNCHANGED <<running, taskQ, job, cpc, call, ready, failed, ran>>

\* All threads are joined; what is left in the queue is destroyed.
StopJoin ==
  /\ owner = "joining" /\ \A w \in Threads : wpc[w] = "exited"
  /\ owner' = "down" /\ taskQ' = <<>>
  /\ wpc' = [w \in Workers |-> "none"]
  /\ UNCHANGED <<running, job, cpc, call, ready, failed, ran>>

Next ==
  \/ \E S \in SUBSET Workers : Resize(S)
  \/ \E c \in Callers, mode \in Modes, count \in Counts :
       RunSerially(c, mode, count) \/ BeginTasks(c, mode, count)
  \/ \E c \in Callers : Submit(c) \/ Notify(c) \/ JoinAll(c) \/ JoinThrows(c)
  \/ \E w \in Workers : Wait(w) \/ SpuriousWake(w) \/ Take(w) \/ Execute(w) \/ ExecuteThrows(w) \/ Exit(w)
  \/ StopFlag \/ StopNotify \/ StopJoin

Spec == Init /\ [][Next]_vars

\* Threads that can run do run; nobody is obliged to call, to stop or to wake
\* a thread without a notification.
Fairness ==
  /\ \A c \in Callers : WF_vars(Submit(c) \/ Notify(c) \/ JoinAll(c) \/ JoinThrows(c))
  /\ \A w \in Workers : WF_vars(Wait(w) \/ Take(w) \/ Execute(w) \/ Exit(w))
  /\ WF_vars(StopNotify \/ StopJoin)

FairSpec == Spec /\ Fairness

-----------------------------------------------------------------------------
(* Properties.                                                             *)

Task == [caller : Callers, n : 1..MaxCalls, from : Indexes, to : 1..MaxCount]

\* The type of every variable; every task stays within the range of some call.
TypeOK ==
  /\ running \in BOOLEAN
  /\ taskQ \in Seq(Task)
  /\ wpc \in [Workers -> {"none", "ready", "waiting", "busy", "exited"}]
  /\ job \in [Workers -> Task \cup {NoTask}]
  /\ \A w \in Workers : wpc[w] = "busy" <=> job[w] # NoTask
  /\ owner \in {"down", "up", "flagged", "joining"}
  /\ cpc \in [Callers -> {"idle", "submitting", "notifying", "joining"}]
  /\ ready \subseteq Task /\ failed \subseteq Task

Remaining == ({taskQ[k] : k \in DOMAIN taskQ} \cup {job[w] : w \in Workers}) \ {NoTask}

\* No task of a call runs after the call has returned with success: its data,
\* which the task captured by reference, may be gone.
NoTaskOutlivesReturn ==
  \A t \in Remaining :
    LET c == call[t.caller]
    IN t.n = c.n => cpc[t.caller] # "idle" \/ c.outcome = "threw"

\* When a call returns normally, every index of its range has been
\* processed exactly once and no index outside it: the chunks neither
\* overlap nor leave a gap, the caller waited for all of them, and no task
\* of it is left.  The variables keep their types.
ReturnMeansDone ==
  /\ TypeOK
  /\ NoTaskOutlivesReturn
  /\ \A c \in Callers :
       call[c].outcome \in {"done", "serial"} =>
         \A i \in Indexes : ran[c][i] = IF i < call[c].count THEN 1 ELSE 0

\* The pool keeps what RangeWork promises its callers: no index is processed
\* twice, in a call that throws neither, and a call throws only if something of
\* its range is not done.
W == INSTANCE RangeWork
       WITH count   <- [c \in Callers |-> call[c].count],
            outcome <- [c \in Callers |-> IF call[c].outcome = "serial" THEN "done"
                                         ELSE call[c].outcome]

RangesDone == W!Spec

\* No notification is lost: while a thread sleeps on the condition variable,
\* every queued task has a thread of its own that is about to look at the
\* queue, or a caller that is about to wake one.
NoLostWakeup ==
  Waiting # {} =>
    Len(taskQ) <= Cardinality({w \in Workers : wpc[w] = "ready"})
                  + Cardinality({c \in Callers : cpc[c] = "notifying"})

\* A call on a pool that is not being stopped eventually returns.
CallsReturn == \A c \in Callers : cpc[c] # "idle" ~> cpc[c] = "idle"

\* stop() eventually returns, with every thread joined.
StopReturns == owner = "flagged" ~> owner = "down"
=============================================================================
