# DDRL-Nav2D: TLA+ models, checks and proofs

DDRL-Nav2D trains a navigation policy with many simulators. **Workers** (C++, `src/apps/worker`)
run simulators and send rollouts to a **learner** (Python, `src/apps/learner`), which trains and
pushes new policies back; a **coordinator** (Python, `src/apps/coordinator`) tells the workers which
learner is active. This directory models the parts of that system whose correctness depends on
order: of calls, of messages, of threads, of failures. The repository has no tests, so its code and
the comments in it are the only reference.

```
            RegisterWorker, heartbeats                RegisterLearner, heartbeats
  worker  <--------------------------->  coordinator  <------------------------->  learner
    |          SWITCH_LEARNER                                                         |
    |  PolicySubscriber  <------------------- policy versions -----------------  PolicyPusher
    |  RolloutPublisher + RolloutStreamClient ------- rollouts ------>  GrpcRolloutSource, Runner
    |
    +-- simulator threads ---- rays ----> ThreadPool
```

## Inventory

| Component | State | Operations | What is hard | Modelled in |
|---|---|---|---|---|
| Registry, `coordinator/src/state.py` | worker and learner records, active learner, a bounded queue of directives per worker | register, heartbeat, disconnect, evict, push | election against eviction; a full queue; records reused by name or host | `CoordinatorState` |
| Coordinator service and clients, `service.py`, `server.py`, `coordinator_client.cpp`, `coordinator_client.py` | streams, sessions, targets | heartbeat stream, forwarding, monitor, re-registration | streams that end half-way, restarts, sessions nobody knows any more | `ControlPlane` |
| Policy distribution, `policy_subscriber.cpp`, `policy_pusher.py` | last version, model, target; latest version, subscribers and their bounded queues | subscribe, push, `set_target`, `stop` | cancelling a call that does not exist yet, lost wake-ups, old handlers that linger | `PolicyStream`, `PolicyDelivery` |
| Rollout pipeline, `rollout_publisher.cpp`, `rollout_stream_client.cpp`, `sources_grpc.py` | three bounded queues, a connection, a target | record, batch, write, `set_target`, receive, `stop` | overflow in three places, failed writes, a mutex held across a blocking call | `RolloutPipeline`, `RolloutDelivery` |
| Thread pool, `thread_pool.hpp`, and its user `trace_rays()` in `ray_casting.cpp` | task queue, threads, futures | `resize`, `submit`, `parallel_for`, `stop` | lost notifications, exceptions, references that outlive a call | `ThreadPool`, `RangeWork` |
| Worker life cycle, `worker.cpp`, `main.cpp`, `coordinator_client.cpp` | the division of threads, one flag, a dozen threads, the heartbeat call | init, run, `request_stop`, `stop`, destructor | a stop at any moment; threads that are asked before they listen; a `join()` that is skipped | `WorkerProcess` with `ThreadSplit` |
| Simulator and its thread, `simulator.cpp`, `worker.cpp`, `trajectory_buffer.cpp` | episode, curriculum phase and window; fragment, pending step, recurrent state | reset, act, step, complete | a model that arrives between two lines; everything that may end an episode in one decision | `Simulation` |
| Robot, kinematics and sensors, `robot.cpp`, `ackermann.cpp`, `sensor_base.cpp`, `lidar_2d.cpp` | delayed actions, gear and hold, pending and cached cloud | set an action, one physics step, observe | delays, holds and periods that do not divide a decision | `Robot` |
| Spawn manager and objects, `spawn_manager.cpp`, `object.cpp` | two queues, the active set, timers; the state of an object | despawn, reroute, spawn, keep a minimum, move | four reasons to leave, failed attempts, timers against states that change between two looks | `Spawn` |
| Learner runner, `runner.py`, `checkpoint.py` | buffer, updates, version; the checkpoints on disk | handle a rollout, train, save, push, resume | a crash between any two of these | `LearnerRun` |
| Event bus, `event_bus.hpp` | mailboxes and queues | publish, take | overwriting, one producer and one consumer | no |
| Trainer, V-trace, policy network, inference, reward, collision, ray casting, control | tensors, geometry | numeric functions | real arithmetic | no |
| Configuration, logging, visualizer, configuration generator, recorder, scripts, wire formats | none that matters here | parsing, display | | no |

`PROJECT.json` has, for every definition that stands for code, the lines it stands for (`map`), and
for every line that is hard to test the properties that guard it (`hazards`).

## Modules

**`CoordinatorState`** is the class of that name. Its methods run on one asyncio loop and contain no
await, so each is one action, with the directives it pushes and the active learner it re-elects.
Wall-clock times are ages: 0 is "now", `Tick` makes every record older, and a client whose clock
differs sends an age other than 0 (`Skews`; at most `MaxLead` ahead). Tokens are numbers in the order
of their creation. `told` is a history variable: the last endpoint given to each worker.

**`ControlPlane`** EXTENDS the registry, takes its methods as they are (a handler is the method it calls
and what happens to the stream) and adds what runs around it: the heartbeat stream of each worker with the task that forwards its directives, the monitor
that evicts, and the clients. A process is named by the hello it sends. `flight` stands for all the
buffers between the handler and the worker's `Read()`. A connection may break, which loses what is
in flight and may leave a handler behind (`stale`) that takes another directive before it ends; the
coordinator may restart with an empty registry.

**`PolicyStream`** has the subscriber's thread with one step per point where another thread can
come between: the copy of the target, the predicate and the sleep of the wait, the publication of
the call's context, the reads, the end of the call. `set_target()` and `stop()` are the calls of other
threads, in their own steps. Each subscription is a handler at a learner; a handler that has not noticed
that its client is gone lingers, and on its end removes the subscriber of that worker, whosoever
it is by then. Acknowledgements are left out: the learner only logs them. **`PolicyDelivery`** is what the
streams promise the simulators: a model is used once it is published, if it can be built, and never after a newer
one of the same learner. `D` in `PolicyStream` is the refinement mapping: it keeps `latest` and `model` and forgets
streams, handlers, queues and the subscriber's thread.

**`RolloutPipeline`** follows a rollout from `handle_rollout_ready()` to the trainer: the publisher's
queue and thread, the write with the client's mutex held (`pub = "write"`), the connection, the handler,
the learner's queue. The heartbeat thread calls `set_target()`, which waits for that mutex; `Worker::stop()`
joins the simulators, the heartbeat thread and the publisher in this order. **`RolloutDelivery`** is
what the pipeline promises, without any of its threads and queues: rollouts of a simulator arrive in
order, connection by connection, and are used at most once. `D` in `RolloutPipeline` is the
refinement mapping; it only forgets what the connections have on the wire. `used`, and `got` of a
connection, are history variables.

**`ThreadPool`** has every lock region of the pool as one action and the condition variable as a set
of waiting threads, with spurious wake-ups. Callers use `parallel_for()` or do what `trace_rays()` does.
`ran` counts how often an index was processed. **`RangeWork`** is what a caller sees of all that: ranges whose indexes
are processed in any order, never twice, and calls that return when everything is done or throw when something is
not. `W` in `ThreadPool` is the mapping: of a call it keeps the size, the outcome and `ran`.

**`WorkerProcess`** is one run of the worker's `main()`: it EXTENDS **`ThreadSplit`**, the arithmetic that
divides the hardware threads in the order of the code (the product with the double 0.8 is
`(4 * avail) \div 5`, its exact floor), goes on with `run()`, one label of `main` per thread that is started or
joined, and ends with the destructor. Every other thread is reduced to what ends it ("on", "asked", "ended"), but the
heartbeat thread and its writer have one step per test of `stop_` and per blocking call. A thread that was told
before it listens is "deaf"; whether that happens is a choice here, because the steps that decide it are in
`PolicyStream` (the subscriber) and in `Visualizer` (not modelled). `RequestStop` may come from a signal, a directive or
the window, and, while `run()` stores its threads, may miss the newest.

**`Simulation`** is one simulator and its thread: the loop of `Worker::simulation_loop()` with the snapshot of the
recurrent state, the action, the physics substeps, the limits, the fragment, and the reset with the curriculum, against
`NewModel`, which the subscriber's thread may take between any two of them. A recurrent state is the pair of the model that
produced it and the decision it was produced at; a reward is the number of the decision that drove it. Whether a
waypoint is near, a collision lasts or the robot stalls is a choice of each substep.

**`Robot`** has the physics substep of `Robot::update()` as one action: the actions that wait for their delay
(their ages replace the clock), the forward command a collision blocks, the gear with its hold, the two branches of the
acceleration limits, and a sensor with its period, latency and the one slot for a pending cloud. `Decide` is the
observation and the next action. Speeds are integers in units of the smallest acceleration; times are
substeps, compared exactly, where the code compares sums of doubles with a tolerance.

**`Spawn`** has one action for each stage of a frame: the despawn round with its four reasons and two timers, one attempt
of `spawn_from_queue()`, the second round for the minimum, and the motion of the objects. Geometry is reduced to
what the code asks of it: whether the robot sees an object, and how far it is.

**`LearnerRun`** is the learner's process with its disk: training in batches and epochs, `save` and `push` as steps
of their own, a save that is written before it is complete, a crash at any point, and a start that resumes
from the newest complete checkpoint. A model is named by the number of rollouts and updates it has seen.

Empty strings are model values of their own kind (`Blank`, `NoTarget`): the code tests for them
everywhere, and they are not learner endpoints.

## Runs

Each property has a mutant in its module: an operator `X_Bug` that changes action `X` as a plausible
mistake would, and with which the run finds the property violated.

| Run | Bounds | What it shows |
|---|---|---|
| `registry` | 2 workers, 3 learner hellos of 2 hosts, ages up to 2, queues of 2, 4 tokens, clocks one ahead | the active learner never dangles, every worker has been told of it last, full queues lose old news only |
| `control_plane` | 1 worker, 2 learners, 3 starts, no breaks | a worker is always on its way to the active learner, leaves one that crashed, uses the active one in the end |
| `control_plane_failures` | the same with a break, an abandoned handler and a restart | a known worker loses track only through the break itself; a refused session is replaced |
| `policy` | 2 learners with 3 versions (the first does not build) and 1, 3 subscriptions, 1 switch, queues of 2, `stop()`, lingering handlers | the refinement of `PolicyDelivery`, streams in order, the latest version comes into use |
| `rollouts` | 1 simulator with 3 rollouts, 2 learners, 4 connections, 2 switches, queues of 2 and 1 | the refinement of `RolloutDelivery`, the target, progress, `Worker::stop()` |
| `pool` | 2 callers, 2 threads, ranges of 1, 3 and 5 with grain 2, exceptions | every index once, no lost wake-up, calls and `stop()` return |
| `worker` | up to 7 hardware threads, pins up to 6, all three modes | the split fits the cores; simulators never outlive what they use; no thread is left; a stop ends the process |
| `simulation` | 2 substeps per decision, limits of 3 decisions or 5 substeps, a collision timeout of 3, 2 waypoints, 3 phases with windows of 2, fragments of 2, 2 versions and an offline policy, 4 episodes | decisions, fragments, recurrent states, outcomes and the curriculum stay in step |
| `robot` | 2 substeps per decision; four combinations of delays 0, 1, 3, 5, holds 0, 3, 5, periods 2, 3, latencies 0, 2, 3 | actions, gear and clouds keep their times; nothing is pushed |
| `spawn` | 3 objects, a minimum and maximum of 2, one spawn and attempt per frame, timeout 3, reroutes after 1 and every 2 frames, pauses of 1 and 2 | no object is lost, doubled, popped or haunted by its past; a hidden stuck one leaves |
| `learner_run` | batches of 2 in 2 epochs, warm-up 1, interval 2, 6 rollouts, 7 versions, 3 starts | a version names one model, rollouts are trained on exactly, no emission is lost, the worker catches up |
| `learner_rejected` | as `control_plane`, with a restart | a violation: see below |

The type invariant of a module is the first conjunct of one of its invariants (`RegistryTypeOK` stands
alone).

The bounds are small but past the thresholds: queues overflow (more versions, rollouts and directives
than places), there are enough connections to go to a learner, away and back, enough ages to be stale
and to be dropped, ranges below, at and above one chunk per thread, delays below, at and above the length of a
decision, a latency above the period, enough episodes to leave two phases, enough starts to crash before and after
the first checkpoint. The cap of 8 ray threads is out of reach of 7 hardware threads; `SplitAlwaysFits` covers it. Bounds on counters stop the
environment (starts, breaks, switches, versions); a break is allowed only while a connection is left
for everything that may still need one (`Spare`), so that no liveness property fails for lack of
connections, or holds for it. `CHECK_DEADLOCK FALSE` is set where the system may stop: a worker that
has been stopped, and bounds that are used up.

**Fairness.** Threads that can run do run, tasks of an event loop get their turn, a broken connection
is noticed in the end (gRPC reports it), time passes. Nobody is forced to start, to stop, to fail, to
call `stop()`, to break a connection, or to publish. `Written` in `RolloutPipeline` needs
room on the connection, and that the handler makes room is fair because it never waits: it drops
what does not fit into the learner's queue. In `Spawn` a frame follows a frame. In `LearnerRun` a learner that is down
is started again and the trainer goes on, until the bounds on starts and rollouts are used up.

Liveness properties name their exceptions, and each exception is a schedule the code can run into: `GetsLatest` leaves out a
worker that has been asked to stop, has no target, has had a stream to another learner, or whose
subscriber was removed by the handler of its own older stream (`Forgotten`; policy_pusher.py:67); `ShutsDown` leaves
out a subscriber and a window that have missed their stop.

### Where the code and its words differ

One run expects a violation and has its finding in `PROJECT.json`.

- `learner_rejected`: a learner that was evicted, or forgotten by a restart, keeps sending heartbeats
  with its old session. The handler lets `KeyError` escape, which arrives as UNKNOWN; the branch of the
  learner's client that registers again waits for NOT_FOUND or UNAUTHENTICATED.

The other differences that the modelling turned up are stated here, and where a property is concerned it excepts
just that case.

*Stopping and switching.* `set_target()` between the copy of the old target (policy_subscriber.cpp:81) and the publication
of the context (line 90) cancels nothing, though policy_subscriber.hpp:62 says that it triggers a reconnect: the worker
stays with the old learner as long as that lives. `stop()` can notify before the thread sleeps, or cancel before
there is a context (policy_subscriber.cpp:44); `join()` then waits for a directive. The same happens to a window that is
still being built (visualizer.cpp:582). `run()` clears the flag that a signal may already have set (worker.cpp:442).
`CoordinatorClient::stop()` skips `join()` when the thread has just cleared `running_`, and the destructor then
terminates the process (coordinator_client.cpp:140). A simulator thread that fails ends alone; the worker runs on
without it.

*Thread pool.* When a chunk throws, `parallel_for()` returns while later chunks are queued with references to its
arguments (thread_pool.hpp:181 against 139). `stop()` executes queued tasks, its comment says it discards them
(thread_pool.hpp:242). With one available thread the clamps give one to each side, their comment says "never
exceed available" (worker.cpp:211).

*Policies and versions.* `last_version()` reports a version whose model could not be built, and such a version is not
asked for again (policy_subscriber.cpp:135). Versions of two learners are compared with each other
(policy_pusher.py:55). A rollout is labelled with the version current at its end, which may be newer than all that
acted in it (worker.cpp:891). The first version is pushed but never saved (runner.py:74). A fragment whose first action
came from a new model carries the state from before that model cleared it (worker.cpp:1099). An offline policy has the
version number of the learner's first, which inherits its recurrent state (worker.cpp:773). A worker that registers
again ignores the learner it is given (coordinator_client.cpp:252), so that after a restart of the coordinator it keeps its
old learner until a directive comes.

*Simulator.* The goal's bonus is paid again in every substep that is left of the decision (reward.cpp:203). The
penalty for the time limit falls due one substep before the limit, and again in every substep that follows
(simulator.cpp:467). A severe collision in the
decision that reaches the goal counts as a success. A pause counts as stuck (`is_stuck()`, object.hpp:93), and an object
that has collided starts again although object.cpp:207 has it "waiting for despawn".

*Robot.* A collision blocks a forward command by the gear the command asks for; a command to back out during the hold
(1.0 s as shipped) is turned by the engaged gear into one to go ahead, into the obstacle (robot.cpp:225 and
ackermann.cpp:77, against the comment at robot.cpp:222). A sensor whose latency is longer than its period overwrites
every cloud before it is handed out (sensor_base.cpp:192-209). Observations stamp a cloud with the time of the decision,
whatever its age, and the first one of an episode has none. The delay of `simulator.yaml` is parsed, but the robot uses
its own.

## Proofs

Every theorem holds for every value of the constants, finite or not, that satisfies the assumption of its
module (`ConstAssumption`, `SplitAssumption`, `LearnerAssumption`...); TLC evaluates the same assumption in each run. The proof
modules extend the modules they are about, and cite nothing but the library's facts on sequences and finite sets.

- **The registry** (`ControlPlane_proofs`, first part): `TypeCorrect`, `ActiveIsStable`, `WorkersAreTold`,
  `QueuesEndCurrent`, all four invariants of the run `registry`. The inductive invariant `Inv` is their conjunction,
  regrouped: `LearnersPart` says that the active id is *settled*, i.e. electing again changes nothing; `WorkersPart` says of
  each record that what it was told, and the last entry of its queue, is the endpoint of that learner. Neither is
  inductive alone: the methods read the endpoint by re-electing, so the queue's news is current only if the election
  is settled. The lemma behind all is `UpdateActiveSettles`: whatever id `_update_active_learner()` is given, it leaves a
  settled one. Then there is one lemma per operation.
- **The control plane** (`ControlPlane_proofs`, second part): `RegistryInPlane`, i.e. the registry's invariants hold
  throughout the control plane, restarts included; `WorkersAreFollowing`, i.e. `WorkersFollow`; `BreaksAloneLoseTrack`, i.e. the
  action property `OnlyBreaksLoseTrack`. `Sessions` says who holds which record: a session a worker knows of
  belongs to a record with that worker's identity or host, no other worker holds it, and a handler serves a session
  its worker has. `Following` is `WorkersFollow` made inductive. `WorkersAreFollowing` assumes what that run assumes
  (`NothingFails`: no breaks, no restarts). These two assume `DistinctWorkers`: two workers of one host have different, nonempty identities, as
  `assets/RUN.md:169` asks for. Without it a worker that registers takes over the record of the other one, and TLC finds both
  properties violated with two such workers. Finally `RegistryImplemented`: each step of the control plane is one call of the
  registry (`RegistryNext`), a restart (`Forgets`), or leaves the registry alone; `Issued`, i.e. no record has the token of a
  session that was never handed out, is needed for it.
- **The worker** (`WorkerProcess_proofs`): `SplitAlwaysFits` and `ChoiceIsExact`, for any number of hardware threads,
  the cap of eight ray threads that TLC's instance does not reach included; `WorkerSplits`, i.e. the life of the worker
  implements that division, so that both hold in it; `WorkerLeavesNoThread`, i.e. `NoneLeft`; `ServicesOutlive`, i.e. `ServicesOutliveSims`.
  `ChoiceIsExact` states `ChoiceStands` for any machine, and the theorem is where that is shown: no run lists it. The
  invariant `WorkerInv` says for each label of `main` what has been started and what has ended (`SimsInv`, `ServicesInv`, and `FlagsInv` for the flags),
  and for the heartbeat thread what `stop_`, `running_` and `joinable` tell of it (`BeatInv`): `stop()` reads `running_` without a lock, and
  skips the join only if the thread has cleared it as its last step.
- **The learner's runs** (`LearnerRun_proofs`): `OneModelPerVersion`, `VersionsAreCounted`, `PushesAreSaved`, `TrainsOnceEach`. The inductive
  invariant adds `VersionIsNewest` (no complete file is above the running version, none reaches it while its own is
  being written, and the file is complete once it is "saved") and `FilesCount` (each complete file has the number of
  updates its version stands for): a restart takes both from a file, so the count survives it. `TrainsOnceEach`, i.e.
  `TrainedOnceEach`, needs `WorkInv`, which says where the minibatch lies in the accepted rollouts and how many
  passes over it are done; `Numbers` collects the arithmetic of whole minibatches and passes. One lemma per step.
- **The robot** (`World_proofs`, first part): `EveryActionHasItsTurn`, `NothingIsPushed`, `TheGearStays`, `DataIsFresh`. `DelayInv`
  keeps the waiting actions at the distance of a decision, all younger than the delay, with the one in force right before
  them; `GearInv` relates the hold that is left to the last shift and to what the last observation showed; `SensorInv` and
  `CloudInv` tie the cached and the pending cloud to the time since the last measurement; `MotionInv` has the types.
- **The spawn manager** (`World_proofs`, second part): `NoneIsLost`, i.e. the run's `Accounted`, and `NothingPops` for a manager that
  avoids the field of view. `QueueInv` says that the two queues are disjoint, without repetition and together
  all that is not active; it rests on facts on sequences (`ConcatUnique`, `TailUnique`, `AppendUnique`, `Orders`).
  `BudgetInv`: what the round for the minimum may still spend is enough for what is missing, unless a search failed.
- **The simulator** (`Simulation_proofs`): `WonMeansReached`, `EachItsOwnState`, `FragmentsTell`,
  `EachDecisionIsPublished`, `WindowIsOfThePhase`, i.e. `WonIffReached`, `OwnState`, `FragmentTells`, `EachDecisionOnce`,
  `WindowIsThePhase`. `EpisodeInv` relates the flag
  "goal reached", the history of substeps, the decision's own flag and the bonus, and says that a finished episode has no
  decision left; `PolicyInv` that the state in a context is clear or was left there by a model of the context's version
  (`SameVersion`); `FragmentInv` what the pending decision, the buffer, its initial state and all published
  fragments have to do with each other; `PhaseInv` has the types of the window. `WindowIsThePhase` is inductive with what `HistoryInv`
  adds: an outcome that is not recorded yet is the last one and of this phase. One lemma per part and step.
- **The policy stream** (`PolicyStream_proofs`): `VersionsInOrder`, i.e. `StreamInOrder`. `InOrder` says of each handler
  that what waits in its queue rises and is newer than what it has sent and than all that is still on the way, and that
  nothing is newer than the learner's latest version; `Subscriber` that only an open handler is a
  subscriber, and that its queue ends with the latest version, or that version has been sent. One lemma per step that
  touches a handler, and one for the others. `StreamsDeliver`: the streams implement `PolicyDelivery`, i.e. `ModelsDelivered`,
  across any number of switches and reconnections. Order within a stream is not enough for that; `UseInv` adds that the
  model in use is no newer than the latest of its learner and that an open stream of that learner offers nothing older (`Offers`),
  neither on the way nor in its queue.
- **The pipeline** (`RolloutPipeline_proofs`): `OnlyTheTargetGets`, and `PipelineDelivers`, i.e. the pipeline implements
  `RolloutDelivery`. `TypeInv` contains that the connection in use is the last one opened and the only open one.
  `OrderInv` says that what went over each connection, older ones first, then the batch and then the queue have the
  rollouts of a simulator in order: each stage is `Before` the next. `UseInv` says that what
  the learners' queues hold has arrived there, and that nothing in them is there twice or has been used.
  `NextRefines` maps each step to a step of `RolloutDelivery` or to none, with `Seen` for its connections.
- **The thread pool** (`ThreadPool_proofs`): `ReturnedIsDone`, i.e. `ReturnMeansDone`, and `NoWakeupIsLost`, i.e.
  `NoLostWakeup`, for finitely many threads and callers and any bounded ranges. `TaskInv` says that no task is there twice,
  that none is queued or executed that has ended, and that a task of the latest call is one of its chunks; `RanInv` that what a
  finished task covers has been processed once and everything else not yet. `NoneBetween` and `MultipleBelow` are the
  arithmetic: multiples of a chunk are a chunk apart, and each index lies in one (`Disjoint`, `NoGap`).
  `NoLostWakeup` is inductive by itself, given the types. `PoolKeepsRanges`: the pool implements `RangeWork`, i.e. `RangesDone`,
  which speaks of calls that throw as well: no index of theirs is processed twice, although their tasks run on, and a call throws only
  if something is left undone. `ThrowInv` is needed for the latter: every chunk begins within the range, and the
  last index of a chunk that threw is not done, whichever chunks end after it. `PoolRefines` maps the steps: a task that
  ends is work on the latest call, or a stutter if it belongs to an older one. This refinement is a theorem only, no run lists it.

Every invariant and every action property that a run checks is a theorem, under the assumptions named above where
there are any. Model-checked only is liveness under fairness, which is out of the prover's reach:
`FollowsInTheEnd`, `DeadLearnerLeft`, `SessionRestored`, `LearnerReturns` (violated), `GetsLatest`, `NothingStuck`, `StuckLeaves`,
`CallsReturn`, both `StopReturns`, `ShutsDown` and `WorkerCatchesUp`.
`SpawnAssumption` wants a positive extra budget per missing obstacle (it is 20 in the code).

## Not modelled

Real-valued parts (geometry, collision and ray casting with their trees, training, inference, the reward but for the
goal's bonus) and user interfaces, parsing, logging and generated code, as the inventory says; they make up nine tenths of the
lines. The event bus, whose mailboxes have one producer and one consumer each, and the rollout recorder, which
writes what it is given.

Within the modelled components: retry limits and fail-fast of the learner's client, the Kafka check of the monitor, two
workers of one host (they take over each other's record, state.py:65), clocks that differ in `ControlPlane`,
acknowledgements of policies, crashes of a learner in `RolloutPipeline` (its connections only break), and a
learner that stays connected but stops reading: `Write()` then blocks with the mutex held, and with it the
heartbeat thread. `max_batch_rollouts: 0` is accepted by the configuration (config.cpp:280) and makes the publisher spin;
`PipelineAssumption` excludes it. `Simulation` has one simulator: the threads share only the subscriber's model and the
publisher's queue. `Robot` leaves out steering, pose and the shape of clouds; the velocity of an impact is rotated into
the world's frame once by the robot and again by the world (robot.cpp:245), which no property looks at. `Spawn`
leaves out how a pose or a route is found.

## Plan

1. *Done*: the registry, the control plane, the policy stream, the rollout pipeline and its abstract specification, the
   thread pool, the worker's life with its thread split, the simulator and its thread, the robot, the
   spawn manager, the learner's runs; the proofs above.
2. *Model next*: the event bus with a one-slot mailbox as its abstract specification; two workers of one host and differing
   clocks in `ControlPlane`; the broad phase of the collision detection against all pairs.
3. *Prove next*: liveness needs another prover; of safety, what two workers of one host and the event bus will promise,
   once they are modelled.
