---------------------------- MODULE ControlPlane ----------------------------
(***************************************************************************)
(* The control plane: the coordinator's registry, the heartbeat stream of  *)
(* every worker that serves it, and the clients of workers and learners.   *)
(* The registry, with its constants and variables, is CoordinatorState,    *)
(* whose operations the handlers call.                                     *)
(*                                                                         *)
(* A process is named by the hello it sends.  One FIFO, flight, stands for *)
(* the way of a directive from the handler's send queue to the worker's    *)
(* Read().  A heartbeat is written, received and recorded in one step.     *)
(***************************************************************************)
EXTENDS CoordinatorState

CONSTANTS
  MaxFlight,    \* bound on the directives on their way to one worker
  MaxStarts,    \* bound on the process starts
  MaxBreaks,    \* bound on the connections that break
  MaxRestarts   \* bound on the restarts of the coordinator

ASSUME PlaneAssumption ==
  MaxFlight \in Nat /\ MaxStarts \in Nat /\ MaxBreaks \in Nat /\ MaxRestarts \in Nat

VARIABLES
  wproc,     \* worker processes: "down", "closed", "streaming", "rejected"
  wsess,     \* CoordinatorClient::session_: the record's id and the token
  target,    \* the learner endpoint in use (target_ of subscriber and stream)
  serving,   \* the record whose queue the stream's handler forwards, or 0
  flight,    \* the directives on their way on the worker's stream
  stale,     \* the record served by a handler whose client is gone, or 0
  lproc,     \* learner processes: "down" or "up"
  lsess,     \* the learner clients' sessions
  starts, breaks, restarts

streams  == <<serving, flight, stale>>
clients  == <<wproc, wsess, target, lproc, lsess>>
counters == <<starts, breaks, restarts>>
vars     == <<registry, streams, clients, counters>>

NoRecord  == 0
NoSession == [id |-> 0, token |-> 0]

Current == EndpointOf(learners, active)

\* The session a registration hands out.
WorkerSession(h) ==
  [id |-> IF FindWorkerMatch(h) = NoMatch THEN Len(workers) + 1 ELSE FindWorkerMatch(h),
   token |-> tokens + 1]
LearnerSession(l) ==
  [id |-> IF FindLearnerMatch(l) = NoMatch THEN learnerSeq + 1 ELSE FindLearnerMatch(l),
   token |-> tokens + 1]

Known(records, s) == s.id \in DOMAIN records /\ records[s.id].token = s.token

Running(h) == wproc[h] # "down"

Init ==
  /\ RegistryInit
  /\ wproc = [h \in WorkerHellos |-> "down"]
  /\ wsess = [h \in WorkerHellos |-> NoSession]
  /\ target = [h \in WorkerHellos |-> Blank]
  /\ serving = [h \in WorkerHellos |-> NoRecord]
  /\ flight = [h \in WorkerHellos |-> <<>>]
  /\ stale = [h \in WorkerHellos |-> NoRecord]
  /\ lproc = [l \in LearnerHellos |-> "down"]
  /\ lsess = [l \in LearnerHellos |-> NoSession]
  /\ starts = 0 /\ breaks = 0 /\ restarts = 0

-----------------------------------------------------------------------------
(* Workers.                                                                *)

\* The worker registers and takes its target from the session; it gives up
\* when there is no learner yet.
WorkerStart(h) ==
  /\ wproc[h] = "down" /\ starts < MaxStarts
  /\ RegisterWorker(h)
  /\ starts' = starts + 1
  /\ IF CurrentEndpoint = Blank
     THEN UNCHANGED <<wproc, wsess, target>>
     ELSE /\ wproc' = [wproc EXCEPT ![h] = "closed"]
          /\ wsess' = [wsess EXCEPT ![h] = WorkerSession(h)]
          /\ target' = [target EXCEPT ![h] = CurrentEndpoint]
  /\ UNCHANGED <<streams, lproc, lsess, breaks, restarts>>

OpenStream(h) ==
  /\ wproc[h] = "closed"
  /\ wproc' = [wproc EXCEPT ![h] = "streaming"]
  /\ UNCHANGED <<registry, streams, wsess, target, lproc, lsess, counters>>

\* The first accepted heartbeat of a stream starts its forward task.
Beat(h) ==
  /\ wproc[h] = "streaming"
  /\ \E s \in Skews, p \in Phases \ {"offline"} :
       WorkerHeartbeat(wsess[h].id, wsess[h].token, s, p)
  /\ serving' = [serving EXCEPT ![h] = wsess[h].id]
  /\ UNCHANGED <<flight, stale, clients, counters>>

\* The handler's stream is over: what it had not delivered is gone.
CloseStream(h) ==
  /\ serving' = [serving EXCEPT ![h] = NoRecord]
  /\ flight' = [flight EXCEPT ![h] = <<>>]

\* The handler's finally clause.
Disconnect(i) ==
  IF i \in DOMAIN workers THEN MarkWorkerDisconnected(i) ELSE UNCHANGED registry

\* A heartbeat of an unknown or replaced session: the handler aborts, but it
\* has noted the worker id, so it marks that record offline on its way out.
BeatRejected(h) ==
  /\ wproc[h] = "streaming" /\ ~ Known(workers, wsess[h])
  /\ Disconnect(wsess[h].id)
  /\ CloseStream(h)
  /\ wproc' = [wproc EXCEPT ![h] = "rejected"]
  /\ UNCHANGED <<stale, wsess, target, lproc, lsess, counters>>

\* Mutant of Reregister: keeps using the session that was refused.
Reregister_KeepsSession(h) ==
  /\ wproc[h] = "rejected"
  /\ RegisterWorker(h)
  /\ wproc' = [wproc EXCEPT ![h] = "closed"]
  /\ UNCHANGED <<wsess, streams, target, lproc, lsess, counters>>

\* The worker registers again; nobody looks at the new session's endpoint.
Reregister(h) ==
  /\ wproc[h] = "rejected"
  /\ RegisterWorker(h)
  /\ wsess' = [wsess EXCEPT ![h] = WorkerSession(h)]
  /\ wproc' = [wproc EXCEPT ![h] = "closed"]
  /\ UNCHANGED <<streams, target, lproc, lsess, counters>>

\* The forward task moves a directive from the record's queue to the stream.
Forward(h) ==
  /\ serving[h] # NoRecord /\ Len(flight[h]) < MaxFlight
  /\ ForwardDirective(serving[h])
  /\ flight' = [flight EXCEPT ![h] = Append(@, Head(workers[serving[h]].queue))]
  /\ UNCHANGED <<serving, stale, clients, counters>>

\* Mutant of Deliver: a worker without a learner keeps its last target.
Deliver_IgnoresBlank(h) ==
  /\ wproc[h] = "streaming" /\ flight[h] # <<>>
  /\ target' = [target EXCEPT ![h] = IF Head(flight[h]) = Blank THEN @ ELSE Head(flight[h])]
  /\ flight' = [flight EXCEPT ![h] = Tail(@)]
  /\ UNCHANGED <<registry, serving, stale, wproc, wsess, lproc, lsess, counters>>

\* handle_control_directive(): SWITCH_LEARNER, to no learner included.
Deliver(h) ==
  /\ wproc[h] = "streaming" /\ flight[h] # <<>>
  /\ target' = [target EXCEPT ![h] = Head(flight[h])]
  /\ flight' = [flight EXCEPT ![h] = Tail(@)]
  /\ UNCHANGED <<registry, serving, stale, wproc, wsess, lproc, lsess, counters>>

\* The worker closes its side, so the handler's request iterator ends.
WorkerStop(h) ==
  /\ wproc[h] = "streaming"
  /\ IF serving[h] # NoRecord THEN Disconnect(serving[h]) ELSE UNCHANGED registry
  /\ CloseStream(h)
  /\ wproc' = [wproc EXCEPT ![h] = "down"]
  /\ target' = [target EXCEPT ![h] = Blank]
  /\ wsess' = [wsess EXCEPT ![h] = NoSession]
  /\ UNCHANGED <<stale, lproc, lsess, counters>>

-----------------------------------------------------------------------------
(* Failures of connections.                                                *)

\* The client's Read() fails; the handler has not noticed and goes on
\* forwarding.  Bound: one such handler per worker.
Break(h) ==
  /\ wproc[h] = "streaming" /\ stale[h] = NoRecord /\ breaks < MaxBreaks
  /\ breaks' = breaks + 1
  /\ stale' = [stale EXCEPT ![h] = serving[h]]
  /\ CloseStream(h)
  /\ wproc' = [wproc EXCEPT ![h] = "closed"]
  /\ UNCHANGED <<registry, wsess, target, lproc, lsess, starts, restarts>>

ForwardStale(h) ==
  /\ stale[h] # NoRecord
  /\ ForwardDirective(stale[h])
  /\ UNCHANGED <<streams, clients, counters>>

StaleEnds(h) ==
  /\ stale[h] # NoRecord
  /\ Disconnect(stale[h])
  /\ stale' = [stale EXCEPT ![h] = NoRecord]
  /\ UNCHANGED <<serving, flight, clients, counters>>

-----------------------------------------------------------------------------
(* Learners.                                                               *)

LearnerStart(l) ==
  /\ lproc[l] = "down" /\ starts < MaxStarts
  /\ RegisterLearner(l)
  /\ starts' = starts + 1
  /\ lproc' = [lproc EXCEPT ![l] = "up"]
  /\ lsess' = [lsess EXCEPT ![l] = LearnerSession(l)]
  /\ UNCHANGED <<streams, wproc, wsess, target, breaks, restarts>>

\* The session stays the one of the first registration: a refused heartbeat
\* raises KeyError or PermissionError in the handler, which the client sees
\* as status UNKNOWN and answers by trying again.  Nothing changes then.
LearnerBeat(l) ==
  /\ lproc[l] = "up"
  /\ \E s \in Skews : LearnerHeartbeat(lsess[l].id, lsess[l].token, s, l.endpoint)
  /\ UNCHANGED <<streams, clients, counters>>

LearnerCrash(l) ==
  /\ lproc[l] = "up"
  /\ lproc' = [lproc EXCEPT ![l] = "down"]
  /\ UNCHANGED <<registry, streams, wproc, wsess, target, lsess, counters>>

-----------------------------------------------------------------------------
(* The coordinator.                                                        *)

\* Mutant of Monitor: never looks at the learners.
Monitor_OnlyWorkers ==
  /\ CleanupStaleWorkers
  /\ UNCHANGED <<streams, clients, counters>>

\* The monitor loop and the passing of time.
Monitor ==
  /\ CleanupStaleWorkers \/ CleanupStaleLearners
  /\ UNCHANGED <<streams, clients, counters>>

Clock == Tick /\ UNCHANGED <<streams, clients, counters>>

\* A restarted coordinator knows nobody; tokens, random, are never reused.
Restart ==
  /\ restarts < MaxRestarts
  /\ restarts' = restarts + 1
  /\ workers' = <<>> /\ told' = <<>>
  /\ learners' = <<>> /\ learnerSeq' = 0 /\ active' = NoLearner
  /\ wproc' = [h \in WorkerHellos |-> IF wproc[h] = "streaming" THEN "closed" ELSE wproc[h]]
  /\ serving' = [h \in WorkerHellos |-> NoRecord]
  /\ flight' = [h \in WorkerHellos |-> <<>>]
  /\ stale' = [h \in WorkerHellos |-> NoRecord]
  /\ UNCHANGED <<tokens, wsess, target, lproc, lsess, starts, breaks>>

Next ==
  \/ \E h \in WorkerHellos :
       \/ WorkerStart(h) \/ OpenStream(h) \/ Beat(h) \/ BeatRejected(h) \/ Reregister(h)
       \/ Forward(h) \/ Deliver(h) \/ WorkerStop(h)
       \/ Break(h) \/ ForwardStale(h) \/ StaleEnds(h)
  \/ \E l \in LearnerHellos : LearnerStart(l) \/ LearnerBeat(l) \/ LearnerCrash(l)
  \/ Monitor \/ Clock \/ Restart

Spec == Init /\ [][Next]_vars

\* Running processes and the coordinator's tasks get their turn, and time
\* passes; nobody has to start, to stop or to fail.
Fairness ==
  /\ \A h \in WorkerHellos :
       /\ WF_vars(OpenStream(h)) /\ WF_vars(Beat(h)) /\ WF_vars(BeatRejected(h))
       /\ WF_vars(Reregister(h)) /\ WF_vars(Forward(h)) /\ WF_vars(Deliver(h))
       /\ WF_vars(StaleEnds(h))
  /\ \A l \in LearnerHellos : WF_vars(LearnerBeat(l))
  /\ WF_vars(Monitor) /\ WF_vars(Clock)

FairSpec == Spec /\ Fairness

-----------------------------------------------------------------------------
(* Properties.                                                             *)

\* The type of the variables this module adds: a handler serves a record, and
\* carries directives, only on an open stream.
TypeOK ==
  /\ wproc \in [WorkerHellos -> {"down", "closed", "streaming", "rejected"}]
  /\ wsess \in [WorkerHellos -> [id : Nat, token : 0..tokens]]
  /\ target \in [WorkerHellos -> Endpoints]
  /\ serving \in [WorkerHellos -> {NoRecord} \cup DOMAIN workers]
  /\ stale \in [WorkerHellos -> {NoRecord} \cup DOMAIN workers]
  /\ flight \in [WorkerHellos -> Seq(Endpoints)]
  /\ \A h \in WorkerHellos :
       /\ Len(flight[h]) <= MaxFlight
       /\ flight[h] # <<>> => serving[h] # NoRecord
       /\ serving[h] # NoRecord => wproc[h] = "streaming" /\ serving[h] = wsess[h].id
  /\ lproc \in [LearnerHellos -> {"down", "up"}]
  /\ lsess \in [LearnerHellos -> [id : Nat, token : 0..tokens]]

\* Where the worker will end up once everything sent to it has arrived.
Heading(h) ==
  LET way == <<target[h]>> \o flight[h]
             \o (IF Known(workers, wsess[h]) THEN workers[wsess[h].id].queue ELSE <<>>)
  IN way[Len(way)]

\* A running worker is on its way to the active learner: following its
\* target, the directives in flight and those queued in its record, the last
\* endpoint is the current one.  Holds as long as nothing fails.  The
\* variables keep their types.
WorkersFollow == TypeOK /\ \A h \in WorkerHellos : Running(h) => Heading(h) = Current

\* The step keeps a worker on its way to the active learner, if it was and
\* if the coordinator still knows its session.
TrackKept(h) ==
  /\ Running(h) /\ Known(workers, wsess[h]) /\ Heading(h) = Current
  /\ Running(h)' /\ Known(workers, wsess[h])'
  => Heading(h)' = Current'

\* Under failures: a worker whose session the coordinator knows loses track
\* of the active learner only where its connection breaks, for the directives
\* in flight are not sent again, or where a handler whose client is gone
\* swallows a directive.
OnlyBreaksLoseTrack ==
  [][\A h \in WorkerHellos : TrackKept(h) \/ Break(h) \/ ForwardStale(h)]_vars

\* A worker leaves a learner that has crashed.
DeadLearnerLeft ==
  \A h \in WorkerHellos, l \in LearnerHellos :
    Running(h) /\ target[h] = l.endpoint /\ lproc[l] = "down"
      ~> ~ Running(h) \/ target[h] # l.endpoint \/ lproc[l] = "up"

\* A worker whose session the coordinator does not know gets a new one.
SessionRestored ==
  \A h \in WorkerHellos :
    Running(h) /\ ~ Known(workers, wsess[h])
      ~> ~ Running(h) \/ Known(workers, wsess[h])

\* When the active learner no longer changes, every worker comes to use it.
FollowsInTheEnd ==
  \A h \in WorkerHellos, ep \in Endpoints :
    <>[](Running(h) /\ Current = ep) => <>[](target[h] = ep)

\* What the learner's client says it does when the coordinator rejects its
\* session: it registers again, so that the coordinator knows it.
LearnerReturns ==
  \A l \in LearnerHellos :
    lproc[l] = "up" /\ ~ Known(learners, lsess[l])
      ~> lproc[l] = "down" \/ Known(learners, lsess[l])
=============================================================================
