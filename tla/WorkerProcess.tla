---------------------------- MODULE WorkerProcess ----------------------------
(***************************************************************************)
(* The life of one worker process: Worker::init() divides the threads      *)
(* (ThreadSplit), run() starts the heartbeat, the publisher, the policy    *)
(* subscriber, the simulators and the window, stop() ends and joins them,  *)
(* and the destructor follows.  A stop may be requested by a signal, by a  *)
(* directive of the coordinator or by closing the window.                  *)
(*                                                                         *)
(* What the threads do for their components is in Simulation, PolicyStream,*)
(* RolloutPipeline and ControlPlane; only what ends them is here.          *)
(***************************************************************************)
EXTENDS ThreadSplit, Sequences

VARIABLES
  mode,      \* "stream", "record" (demos only) or "alone"
  main,      \* where main() is: see Labels
  flag,      \* stop_requested_
  running,   \* running_ of Worker
  sims,      \* the simulator threads: "on", "asked" (to stop) or "ended"
  joined,    \* number of simulator threads that stop() has joined
  pub,       \* the publisher's thread
  sub,       \* the subscriber's thread; "deaf" when it has missed stop()
  win,       \* the window's thread; "deaf" when it has missed stop()
  hb,        \* the heartbeat thread: "none", or see Beats
  hbStop,    \* stop_ of CoordinatorClient
  hbRunning, \* running_ of CoordinatorClient
  joinable,  \* heartbeat_thread_.joinable()
  writer,    \* the thread that writes the heartbeats of one stream
  call       \* the server's side of the stream: "open", "ok" or "refused"

threadVars == <<sims, pub, sub, win>>
beatVars   == <<hb, hbStop, hbRunning, joinable, writer, call>>
procVars   == <<mode, main, flag, running, joined>>
vars == <<splitVars, procVars, threadVars, beatVars>>

Labels ==
  {"init", "ready", "heartbeat", "services", "simulators", "loop",
   "join simulator", "stop subscriber", "join subscriber", "stop client",
   "load running", "join client", "stop publisher", "join publisher",
   "stop window", "join window", "reset", "over", "aborted"}

Beats == {"top", "check", "read", "leave", "after", "backoff", "clear", "ended"}

-----------------------------------------------------------------------------
Init ==
  /\ SplitInit
  /\ mode \in {"stream", "record", "alone"}
  /\ main = "init" /\ flag = FALSE /\ running = FALSE /\ joined = 0
  /\ sims = <<>> /\ pub = "none" /\ sub = "none" /\ win = "none"
  /\ hb = "none" /\ hbStop = FALSE /\ hbRunning = FALSE /\ joinable = FALSE
  /\ writer = "done" /\ call = "ok"

Goto(from, to) == main = from /\ main' = to

-----------------------------------------------------------------------------
(* main(): init() and run().                                               *)

Divide == main = "init" /\ SplitNext /\ UNCHANGED <<procVars, threadVars, beatVars>>

Initialized ==
  /\ step = "clamped" /\ Goto("init", "ready")
  /\ UNCHANGED <<splitVars, mode, flag, running, joined, threadVars, beatVars>>

\* No coordinator, no learner yet, or a configuration that does not parse.
InitFails ==
  /\ step = "clamped" /\ Goto("init", "over")
  /\ UNCHANGED <<splitVars, mode, flag, running, joined, threadVars, beatVars>>

\* A request that came before is forgotten here.
Run ==
  /\ Goto("ready", "heartbeat")
  /\ flag' = FALSE /\ running' = TRUE
  /\ UNCHANGED <<splitVars, mode, joined, threadVars, beatVars>>

StartHeartbeat ==
  /\ Goto("heartbeat", "services")
  /\ IF mode = "stream"
     THEN /\ hb' = "top" /\ hbRunning' = TRUE /\ hbStop' = FALSE /\ joinable' = TRUE
          /\ UNCHANGED <<writer, call>>
     ELSE UNCHANGED beatVars
  /\ UNCHANGED <<splitVars, mode, flag, running, joined, threadVars>>

\* The publisher also serves the recorder; only a stream has policies.
StartServices ==
  /\ Goto("services", "simulators")
  /\ pub' = IF mode = "alone" THEN "none" ELSE "on"
  /\ sub' = IF mode = "stream" THEN "on" ELSE "none"
  /\ UNCHANGED <<splitVars, mode, flag, running, joined, sims, win, beatVars>>

StartSimulator ==
  /\ main = "simulators" /\ Len(sims) < sim
  /\ sims' = Append(sims, "on")
  /\ UNCHANGED <<splitVars, procVars, pub, sub, win, beatVars>>

\* The window builds itself in its own thread.
StartWindow ==
  /\ Len(sims) = sim /\ Goto("simulators", "loop")
  /\ win' = IF viz THEN "building" ELSE "none"
  /\ UNCHANGED <<splitVars, mode, flag, running, joined, sims, pub, sub, beatVars>>

LeaveLoop ==
  /\ flag /\ Goto("loop", "join simulator")
  /\ UNCHANGED <<splitVars, mode, flag, running, joined, threadVars, beatVars>>

-----------------------------------------------------------------------------
(* main(): stop() and the destructor.                                      *)

\* Mutant of AskSimulator: trusts that request_stop() has asked every thread.
AskSimulator_Trusts ==
  /\ main = "join simulator" /\ ~ flag /\ joined < sim /\ sims[joined + 1] = "on"
  /\ sims' = [sims EXCEPT ![joined + 1] = "asked"]
  /\ UNCHANGED <<splitVars, procVars, pub, sub, win, beatVars>>

AskSimulator ==
  /\ main = "join simulator" /\ joined < sim /\ sims[joined + 1] = "on"
  /\ sims' = [sims EXCEPT ![joined + 1] = "asked"]
  /\ UNCHANGED <<splitVars, procVars, pub, sub, win, beatVars>>

JoinSimulator ==
  /\ main = "join simulator" /\ joined < sim /\ sims[joined + 1] = "ended"
  /\ joined' = joined + 1
  /\ UNCHANGED <<splitVars, mode, main, flag, running, threadVars, beatVars>>

\* Mutant of SimulatorsJoined: goes on as soon as all of them have been asked.
SimulatorsJoined_Asked ==
  /\ \A i \in DOMAIN sims : sims[i] # "on"
  /\ Goto("join simulator", "stop subscriber")
  /\ UNCHANGED <<splitVars, mode, flag, running, joined, threadVars, beatVars>>

SimulatorsJoined ==
  /\ joined = sim /\ Goto("join simulator", "stop subscriber")
  /\ UNCHANGED <<splitVars, mode, flag, running, joined, threadVars, beatVars>>

\* The notification may fall before the thread's sleep and the cancellation
\* before its call: PolicyStream has the steps, here it is a choice.
StopSubscriber ==
  /\ Goto("stop subscriber", "join subscriber")
  /\ IF sub = "on" THEN sub' \in {"asked", "deaf"} ELSE UNCHANGED sub
  /\ UNCHANGED <<splitVars, mode, flag, running, joined, sims, pub, win, beatVars>>

JoinSubscriber ==
  /\ sub \in {"none", "ended"} /\ Goto("join subscriber", "stop client")
  /\ UNCHANGED <<splitVars, mode, flag, running, joined, threadVars, beatVars>>

StopClient ==
  /\ Goto("stop client", "load running") /\ hbStop' = TRUE
  /\ UNCHANGED <<splitVars, mode, flag, running, joined, threadVars,
                 hb, hbRunning, joinable, writer, call>>

\* CoordinatorClient::stop() returns at once when running_ is false.
LoadRunning ==
  /\ main = "load running"
  /\ main' = IF hbRunning THEN "join client" ELSE "stop publisher"
  /\ UNCHANGED <<splitVars, mode, flag, running, joined, threadVars, beatVars>>

JoinClient ==
  /\ hb = "ended" /\ Goto("join client", "stop publisher")
  /\ joinable' = FALSE /\ hbRunning' = FALSE
  /\ UNCHANGED <<splitVars, mode, flag, running, joined, threadVars,
                 hb, hbStop, writer, call>>

StopPublisher ==
  /\ Goto("stop publisher", "join publisher")
  /\ pub' = IF pub = "on" THEN "asked" ELSE pub
  /\ UNCHANGED <<splitVars, mode, flag, running, joined, sims, sub, win, beatVars>>

JoinPublisher ==
  /\ pub \in {"none", "ended"} /\ Goto("join publisher", "stop window")
  /\ UNCHANGED <<splitVars, mode, flag, running, joined, threadVars, beatVars>>

\* stop_interactive() does nothing while there is no interactor.
StopWindow ==
  /\ Goto("stop window", "join window")
  /\ win' = CASE win = "building" -> "deaf" [] win = "on" -> "asked" [] OTHER -> win
  /\ UNCHANGED <<splitVars, mode, flag, running, joined, sims, pub, sub, beatVars>>

\* Mutant of JoinWindow: does not wait for the thread.
JoinWindow_Detaches ==
  /\ Goto("join window", "reset")
  /\ running' = FALSE
  /\ UNCHANGED <<splitVars, mode, flag, joined, threadVars, beatVars>>

JoinWindow ==
  /\ win \in {"none", "ended"} /\ Goto("join window", "reset")
  /\ running' = FALSE
  /\ UNCHANGED <<splitVars, mode, flag, joined, threadVars, beatVars>>

\* g_worker.reset(): ~CoordinatorClient calls stop() again, which does not
\* join; the destructor of a thread that is still joinable terminates.
Reset ==
  /\ main = "reset" /\ main' = IF joinable THEN "aborted" ELSE "over"
  /\ UNCHANGED <<splitVars, mode, flag, running, joined, threadVars, beatVars>>

MainStops ==
  \/ LeaveLoop \/ AskSimulator \/ JoinSimulator \/ SimulatorsJoined
  \/ StopSubscriber \/ JoinSubscriber
  \/ StopClient \/ LoadRunning \/ JoinClient
  \/ StopPublisher \/ JoinPublisher \/ StopWindow \/ JoinWindow \/ Reset

MainRuns ==
  \/ Divide \/ Initialized \/ InitFails
  \/ Run \/ StartHeartbeat \/ StartServices \/ StartSimulator \/ StartWindow

-----------------------------------------------------------------------------
(* request_stop(), from anywhere.                                          *)

Asked(s) == [i \in DOMAIN s |-> IF s[i] = "on" THEN "asked" ELSE s[i]]

\* run() may be storing the newest thread: that one may be missed.
RequestStop ==
  /\ flag' = TRUE
  /\ \/ sims' = Asked(sims)
     \/ /\ main = "simulators" /\ sims # <<>>
        /\ sims' = [Asked(sims) EXCEPT ![Len(sims)] = sims[Len(sims)]]

\* SIGINT or SIGTERM, as long as there is a worker.
Signal ==
  /\ main \notin {"over", "aborted"}
  /\ RequestStop
  /\ UNCHANGED <<splitVars, mode, main, running, joined, pub, sub, win, beatVars>>

-----------------------------------------------------------------------------
(* The heartbeat thread, its writer, and the coordinator's side.           *)

BeatGoto(from, to) ==
  /\ hb = from /\ hb' = to
  /\ UNCHANGED <<splitVars, procVars, threadVars, hbStop, hbRunning, joinable>>

\* while (!stop_): the stream is opened and its writer started, or opening
\* fails and is tried again.
OpenStream ==
  /\ ~ hbStop
  /\ \/ BeatGoto("top", "check") /\ writer' = "on" /\ call' = "open"
     \/ BeatGoto("top", "backoff") /\ UNCHANGED <<writer, call>>

SeeStop  == hbStop /\ BeatGoto("top", "clear") /\ UNCHANGED <<writer, call>>
KeepOn   == ~ hbStop /\ BeatGoto("check", "read") /\ UNCHANGED <<writer, call>>

\* stop_ is seen between two directives; WritesDone() is called here or by
\* the writer, which is joined before Finish().
StopReading == hbStop /\ BeatGoto("check", "leave") /\ UNCHANGED <<writer, call>>

\* Read() blocks; it also returns a directive after stop_ has been set.
HandleShutdown ==
  /\ hb = "read" /\ call = "open" /\ hb' = "check"
  /\ RequestStop
  /\ UNCHANGED <<splitVars, mode, main, running, joined, pub, sub, win,
                 hbStop, hbRunning, joinable, writer, call>>

\* set_target() notifies a subscriber that has missed stop().
HandleSwitch ==
  /\ hb = "read" /\ call = "open" /\ hb' = "check"
  /\ sub' = IF sub = "deaf" THEN "asked" ELSE sub
  /\ UNCHANGED <<splitVars, procVars, sims, pub, win,
                 hbStop, hbRunning, joinable, writer, call>>

ReadFails == call # "open" /\ BeatGoto("read", "leave") /\ UNCHANGED <<writer, call>>

\* join() of the writer and Finish().
Finish ==
  /\ writer = "done" /\ call # "open"
  /\ BeatGoto("leave", "after")
  /\ UNCHANGED <<writer, call>>

\* After a refused session the worker registers again, and may fail to.
Reregister ==
  /\ ~ hbStop /\ call = "refused"
  /\ BeatGoto("after", "top")
  /\ UNCHANGED <<writer, call>>

Backoff ==
  /\ BeatGoto("after", IF hbStop THEN "top" ELSE "backoff")
  /\ UNCHANGED <<writer, call>>

Retry == BeatGoto("backoff", "top") /\ UNCHANGED <<writer, call>>

\* running_ is cleared, the thread's last step.
ClearRunning ==
  /\ hb = "clear" /\ hb' = "ended" /\ hbRunning' = FALSE
  /\ UNCHANGED <<splitVars, procVars, threadVars, hbStop, joinable, writer, call>>

\* stop_ or a failed Write() ends the writer, which half-closes the stream.
WriterEnds ==
  /\ writer = "on" /\ (hbStop \/ call # "open")
  /\ writer' = "done"
  /\ UNCHANGED <<splitVars, procVars, threadVars, hb, hbStop, hbRunning, joinable, call>>

\* The coordinator refuses the session or its connection breaks ...
CallBreaks ==
  /\ call = "open" /\ call' \in {"ok", "refused"}
  /\ UNCHANGED <<splitVars, procVars, threadVars, hb, hbStop, hbRunning, joinable, writer>>

\* ... or it ends the call because the worker has stopped writing.
CallEnds ==
  /\ call = "open" /\ (writer = "done" \/ hb = "leave")
  /\ call' = "ok"
  /\ UNCHANGED <<splitVars, procVars, threadVars, hb, hbStop, hbRunning, joinable, writer>>

Beat ==
  \/ OpenStream \/ SeeStop \/ KeepOn \/ StopReading \/ ReadFails
  \/ Finish \/ Reregister \/ Backoff \/ Retry \/ ClearRunning

-----------------------------------------------------------------------------
(* The other threads.                                                      *)

\* The loop sees its stop token between two steps of the simulator.
SimulatorEnds(i) ==
  /\ sims[i] = "asked" /\ sims' = [sims EXCEPT ![i] = "ended"]
  /\ UNCHANGED <<splitVars, procVars, pub, sub, win, beatVars>>

\* reset() or step() fails: the thread ends, and nobody is told.
SimulatorFails(i) ==
  /\ sims[i] = "on" /\ sims' = [sims EXCEPT ![i] = "ended"]
  /\ UNCHANGED <<splitVars, procVars, pub, sub, win, beatVars>>

PublisherEnds ==
  /\ pub = "asked" /\ pub' = "ended"
  /\ UNCHANGED <<splitVars, procVars, sims, sub, win, beatVars>>

SubscriberEnds ==
  /\ sub = "asked" /\ sub' = "ended"
  /\ UNCHANGED <<splitVars, procVars, sims, pub, win, beatVars>>

WindowBuilt ==
  /\ win = "building" /\ win' = "on"
  /\ UNCHANGED <<splitVars, procVars, sims, pub, sub, beatVars>>

WindowEnds ==
  /\ win = "asked" /\ win' = "ended"
  /\ UNCHANGED <<splitVars, procVars, sims, pub, sub, beatVars>>

\* The user closes the window, also one that has missed stop().
CloseWindow ==
  /\ win \in {"on", "deaf"} /\ win' = "asked"
  /\ RequestStop
  /\ UNCHANGED <<splitVars, mode, main, running, joined, pub, sub, beatVars>>

Threads ==
  \/ \E i \in DOMAIN sims : SimulatorEnds(i) \/ SimulatorFails(i)
  \/ PublisherEnds \/ SubscriberEnds \/ WindowBuilt \/ WindowEnds \/ CloseWindow

Over == main \in {"over", "aborted"} /\ UNCHANGED vars

Next ==
  \/ MainRuns \/ MainStops \/ Signal
  \/ Beat \/ HandleShutdown \/ HandleSwitch \/ WriterEnds \/ CallBreaks \/ CallEnds
  \/ Threads \/ Over

Spec == Init /\ [][Next]_vars

\* Every thread that can go on does, and the coordinator answers a worker
\* that has stopped writing.  Nobody has to send a signal or a directive.
Fairness ==
  /\ WF_vars(MainStops) /\ WF_vars(MainRuns) /\ WF_vars(Beat)
  /\ WF_vars(WriterEnds) /\ WF_vars(CallEnds)
  /\ \A i \in 1..(MaxHw + MaxPin) : WF_vars(i \in DOMAIN sims /\ SimulatorEnds(i))
  /\ WF_vars(PublisherEnds) /\ WF_vars(SubscriberEnds)
  /\ WF_vars(WindowBuilt) /\ WF_vars(WindowEnds)

FairSpec == Spec /\ Fairness

-----------------------------------------------------------------------------
(* Properties.                                                             *)

Starting == {"init", "ready", "heartbeat", "services", "simulators"}
Beating  == hb \notin {"none", "ended"}

\* The type of every variable.  A simulator is joined only when all of them
\* have been started.
TypeOK ==
  /\ mode \in {"stream", "record", "alone"} /\ main \in Labels
  /\ flag \in BOOLEAN /\ running \in BOOLEAN
  /\ sims \in Seq({"on", "asked", "ended"}) /\ Len(sims) <= sim
  /\ joined \in 0..Len(sims) /\ joined > 0 => Len(sims) = sim
  /\ pub \in {"none", "on", "asked", "ended"}
  /\ sub \in {"none", "on", "asked", "deaf", "ended"}
  /\ win \in {"none", "building", "on", "asked", "deaf", "ended"}
  /\ hb \in {"none"} \cup Beats
  /\ hbStop \in BOOLEAN /\ hbRunning \in BOOLEAN /\ joinable \in BOOLEAN
  /\ writer \in {"on", "done"} /\ call \in {"open", "ok", "refused"}

ClientStopped ==
  main \in {"stop publisher", "join publisher", "stop window", "join window", "reset"}

\* Once CoordinatorClient::stop() has returned, joined or not, the heartbeat
\* thread and its writer have ended: what follows may be destroyed.  When the
\* worker is destroyed none of its threads is left; if the heartbeat thread was
\* not joined the process is aborted.  The variables keep their types.
NoneLeft ==
  /\ TypeOK
  /\ ClientStopped => ~ Beating /\ writer = "done"
  /\ main \in {"over", "aborted"} =>
       /\ \A i \in DOMAIN sims : sims[i] = "ended"
       /\ \A t \in {pub, sub, win} : t \in {"none", "ended"}
       /\ ~ Beating /\ writer = "done"
       /\ main = "over" => ~ joinable

\* What a simulator hands its rollouts to is there as long as it runs.
ServicesOutliveSims ==
  (\E i \in DOMAIN sims : sims[i] # "ended") =>
    /\ mode # "alone" => pub = "on"
    /\ mode = "stream" => sub = "on"
    /\ running

\* A stop that is requested after run() has reset the flag ends the process,
\* unless the subscriber or the window has missed its own stop().
ShutsDown ==
  flag /\ main \notin {"init", "ready"} ~>
    main \in {"over", "aborted"} \/ sub = "deaf" \/ win = "deaf"
=============================================================================
