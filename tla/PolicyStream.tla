---------------------------- MODULE PolicyStream ----------------------------
(***************************************************************************)
(* Policy distribution: the PolicyPusher of every learner, which broadcasts *)
(* each new policy version to its subscribers, and the PolicySubscriber    *)
(* thread of one worker, which subscribes at the learner it is told to use *)
(* (set_target) and applies what it receives until it is stopped (stop).   *)
(*                                                                         *)
(* Each subscription is a stream, served by a handler of its own at the    *)
(* learner.  All handlers subscribe under the worker's one worker_id.      *)
(***************************************************************************)
EXTENDS Integers, Sequences, FiniteSets

CONSTANTS
  Learners,     \* learner endpoints
  MaxQueue,     \* asyncio.Queue(maxsize=32) of a subscriber
  MaxOut,       \* pushes the transport of a stream takes before it blocks
  Broken,       \* the versions of learners whose payload fails to build
  CanStop,      \* whether the worker may stop
  MaxVersion,   \* bound on the versions of any learner
  Versions,     \* and of each of them
  MaxStreams,   \* bound on the subscriptions
  MaxSwitches   \* bound on the calls of set_target

NoStream == 0
NoTarget == ""

ASSUME StreamAssumption ==
  /\ MaxQueue \in Nat \ {0} /\ MaxOut \in Nat \ {0}
  /\ Broken \subseteq Learners \X Nat /\ CanStop \in BOOLEAN
  /\ MaxVersion \in Nat /\ Versions \in [Learners -> 0..MaxVersion]
  /\ MaxStreams \in Nat /\ MaxSwitches \in Nat
  /\ NoTarget \notin Learners

VARIABLES
  pc,        \* run_loop: see PCs
  dest,      \* run_loop's copy of target_
  stream,    \* the open stream, 0 for none
  target,    \* target_, "" for none
  lastVer,   \* last_version_
  model,     \* the model in use: the learner it came from and its version
  cancelled, \* TryCancel() has been called on active_context_
  setter,    \* set_target(): "idle", or "cancel" before request_reconnect()
  stopper,   \* stop(): "idle", then "cancel", "notify", "join", "done"
  switches,  \* number of calls of set_target
  latest,    \* latest version of each learner, 0 for None
  subs,      \* subscribers[worker_id] of each learner: a stream, 0 for none
  hnd        \* the handlers, one per stream

clientVars == <<pc, dest, stream, lastVer, model, cancelled>>
callerVars == <<target, setter, stopper, switches>>
serverVars == <<latest, subs, hnd>>
vars == <<clientVars, callerVars, serverVars>>

PCs == {"top", "checked", "waiting", "chosen", "opening", "reading", "closing",
        "sleeping", "ended"}

stop == stopper # "idle"   \* stop_

\* active_context_ is set; a cancellation asked for outside is lost.
Active == pc \in {"opening", "reading", "closing"}

-----------------------------------------------------------------------------
Init ==
  /\ pc = "top" /\ dest = NoTarget /\ stream = NoStream
  /\ lastVer = 0 /\ model = [from |-> NoTarget, version |-> 0] /\ cancelled = FALSE
  /\ target \in Learners /\ setter = "idle" /\ stopper = "idle" /\ switches = 0
  /\ latest = [l \in Learners |-> 0]
  /\ subs = [l \in Learners |-> NoStream]
  /\ hnd = <<>>

(* The subscriber's thread.                                                *)

Goto(label) == pc' = label /\ UNCHANGED <<dest, stream, lastVer, model, cancelled>>

\* Under target_mutex_: there is something to do, and target_ is copied.
Choose ==
  /\ pc = "top" /\ ~ stop /\ target # NoTarget
  /\ pc' = "chosen" /\ dest' = target
  /\ UNCHANGED <<stream, lastVer, model, cancelled, callerVars, serverVars>>

\* The predicate of the wait was false; the mutex is still held ...
Check ==
  /\ pc = "top" /\ ~ stop /\ target = NoTarget
  /\ Goto("checked")
  /\ UNCHANGED <<callerVars, serverVars>>

\* ... until the thread sleeps.
Sleep ==
  /\ pc = "checked"
  /\ Goto("waiting")
  /\ UNCHANGED <<callerVars, serverVars>>

\* stop_ is seen at the head of the loop, after the wait or after a stream.
End ==
  /\ pc \in {"top", "sleeping"} /\ stop
  /\ Goto("ended")
  /\ UNCHANGED <<callerVars, serverVars>>

SetContext ==
  /\ pc = "chosen"
  /\ pc' = "opening" /\ cancelled' = FALSE
  /\ UNCHANGED <<dest, stream, lastVer, model, callerVars, serverVars>>

\* The subscription goes out with the last version received.
Subscribe ==
  /\ pc = "opening" /\ ~ cancelled /\ Len(hnd) < MaxStreams
  /\ hnd' = Append(hnd, [l |-> dest, state |-> "arriving", asked |-> lastVer,
                         sent |-> lastVer, queue |-> <<>>, out |-> <<>>])
  /\ stream' = Len(hnd) + 1
  /\ pc' = "reading"
  /\ UNCHANGED <<dest, lastVer, model, cancelled, callerVars, latest, subs>>

\* The call fails: it was cancelled before it began, or nobody answers.
OpenFails ==
  /\ pc = "opening" /\ cancelled
  /\ Goto("sleeping")
  /\ UNCHANGED <<callerVars, serverVars>>

\* Read() returns a push; its version is stored before the model is built.
Receive ==
  /\ pc = "reading" /\ ~ stop /\ hnd[stream].out # <<>>
  /\ lastVer' = Head(hnd[stream].out)
  /\ model' = IF <<dest, lastVer'>> \in Broken THEN model ELSE [from |-> dest, version |-> lastVer']
  /\ hnd' = [hnd EXCEPT ![stream].out = Tail(@)]
  /\ UNCHANGED <<pc, dest, stream, cancelled, callerVars, latest, subs>>

\* The read loop is left: on stop_, or because Read() failed.
LeaveLoop ==
  /\ pc = "reading"
  /\ stop \/ cancelled \/ hnd[stream].state = "ended"
  /\ Goto("closing")
  /\ UNCHANGED <<callerVars, serverVars>>

\* What is left of the bound on subscriptions when every set_target() has one.
Spare == MaxStreams - Len(hnd) - (MaxSwitches - switches) - (IF setter = "cancel" THEN 1 ELSE 0)

\* The connection is lost: Read() fails though nobody cancelled.
Break ==
  /\ pc = "reading" /\ Spare > 0
  /\ pc' = "closing" /\ cancelled' = TRUE
  /\ UNCHANGED <<dest, stream, lastVer, model, callerVars, serverVars>>

\* Finish() returns only for a call that is over: the handler does not end
\* because the client has stopped writing.
Finish ==
  /\ pc = "closing"
  /\ cancelled \/ hnd[stream].state = "ended"
  /\ pc' = "sleeping" /\ stream' = NoStream
  /\ UNCHANGED <<dest, lastVer, model, cancelled, callerVars, serverVars>>

\* Mutant of Retry: one lost connection ends the thread.
Retry_GivesUp ==
  /\ pc = "sleeping" /\ ~ stop
  /\ Goto("ended")
  /\ UNCHANGED <<callerVars, serverVars>>

\* kReconnectDelay is over.
Retry ==
  /\ pc = "sleeping" /\ ~ stop
  /\ Goto("top")
  /\ UNCHANGED <<callerVars, serverVars>>

-----------------------------------------------------------------------------
(* set_target() and stop(), called by other threads.                       *)

Wake == pc' = IF pc = "waiting" THEN "top" ELSE pc

\* request_reconnect()
Cancel == cancelled' = (cancelled \/ Active)

SetTarget(t) ==
  /\ setter = "idle" /\ switches < MaxSwitches /\ pc # "checked"
  /\ target' = t /\ setter' = "cancel" /\ switches' = switches + 1
  /\ Wake
  /\ UNCHANGED <<dest, stream, lastVer, model, cancelled, stopper, serverVars>>

Reconnect ==
  /\ setter = "cancel" /\ setter' = "idle"
  /\ Cancel
  /\ UNCHANGED <<pc, dest, stream, lastVer, model, target, stopper, switches, serverVars>>

Stop ==
  /\ CanStop /\ stopper = "idle" /\ stopper' = "cancel"
  /\ UNCHANGED <<clientVars, target, setter, switches, serverVars>>

StopCancel ==
  /\ stopper = "cancel" /\ stopper' = "notify"
  /\ Cancel
  /\ UNCHANGED <<pc, dest, stream, lastVer, model, target, setter, switches, serverVars>>

StopNotify ==
  /\ stopper = "notify" /\ stopper' = "join"
  /\ Wake
  /\ UNCHANGED <<dest, stream, lastVer, model, cancelled, target, setter, switches, serverVars>>

StopJoin ==
  /\ stopper = "join" /\ pc = "ended" /\ stopper' = "done"
  /\ UNCHANGED <<clientVars, target, setter, switches, serverVars>>

-----------------------------------------------------------------------------
(* The learners.                                                           *)

\* put_nowait(), and when the queue is full, again after get_nowait().
Enqueue(q, v) == Append(IF Len(q) >= MaxQueue THEN Tail(q) ELSE q, v)

\* submit(): the new version becomes the latest and is queued for whoever is
\* subscribed; no await comes between.
Publish(l) ==
  /\ latest[l] < Versions[l]
  /\ latest' = [latest EXCEPT ![l] = @ + 1]
  /\ hnd' = IF subs[l] = NoStream THEN hnd
            ELSE [hnd EXCEPT ![subs[l]].queue = Enqueue(@, latest'[l])]
  /\ UNCHANGED <<clientVars, callerVars, subs>>

Subscribed(s, queue, out) ==
  /\ subs' = [subs EXCEPT ![hnd[s].l] = s]
  /\ hnd' = [hnd EXCEPT ![s].state = "open", ![s].queue = queue, ![s].out = out,
                        ![s].sent = IF out = <<>> THEN @ ELSE out[1]]
  /\ UNCHANGED <<clientVars, callerVars, latest>>

\* Mutant of HandlerStart: the latest version is queued as well as sent.
HandlerStart_QueuesLatest(s) ==
  /\ hnd[s].state = "arriving"
  /\ LET new == IF latest[hnd[s].l] > hnd[s].asked THEN <<latest[hnd[s].l]>> ELSE <<>>
     IN Subscribed(s, new, new)

\* Mutant of HandlerStart: a worker that subscribes again keeps its queue.
HandlerStart_KeepsQueue(s) ==
  /\ hnd[s].state = "arriving"
  /\ LET l == hnd[s].l
     IN Subscribed(s, IF subs[l] = NoStream THEN <<>> ELSE hnd[subs[l]].queue,
                   IF latest[l] > hnd[s].asked THEN <<latest[l]>> ELSE <<>>)

\* The handler enters its subscriber and reads the latest version in one
\* piece; it sends that version if the worker does not have it.
HandlerStart(s) ==
  /\ hnd[s].state = "arriving"
  /\ Subscribed(s, <<>>, IF latest[hnd[s].l] > hnd[s].asked THEN <<latest[hnd[s].l]>> ELSE <<>>)

HandlerSend(s) ==
  /\ hnd[s].state = "open" /\ hnd[s].queue # <<>> /\ Len(hnd[s].out) < MaxOut
  /\ hnd' = [hnd EXCEPT ![s].queue = Tail(@), ![s].sent = Head(hnd[s].queue),
                        ![s].out = Append(@, Head(hnd[s].queue))]
  /\ UNCHANGED <<clientVars, callerVars, latest, subs>>

\* The handler learns that its call is over; it removes the worker's
\* subscriber, whichever stream that now belongs to.
HandlerEnd(s) ==
  /\ hnd[s].state \in {"arriving", "open"}
  /\ s # stream \/ cancelled
  /\ hnd' = [hnd EXCEPT ![s].state = "ended", ![s].queue = <<>>, ![s].out = <<>>]
  /\ subs' = IF hnd[s].state = "open" THEN [subs EXCEPT ![hnd[s].l] = NoStream] ELSE subs
  /\ UNCHANGED <<clientVars, callerVars, latest>>

Next ==
  \/ Choose \/ Check \/ Sleep \/ End \/ SetContext \/ Subscribe \/ OpenFails
  \/ Receive \/ LeaveLoop \/ Break \/ Finish \/ Retry
  \/ \E t \in Learners \cup {NoTarget} : SetTarget(t)
  \/ Reconnect \/ Stop \/ StopCancel \/ StopNotify \/ StopJoin
  \/ \E l \in Learners : Publish(l)
  \/ \E s \in DOMAIN hnd : HandlerStart(s) \/ HandlerSend(s) \/ HandlerEnd(s)

Spec == Init /\ [][Next]_vars

\* The thread, a caller inside a call and the handlers make progress.
Fairness ==
  /\ WF_vars(Choose \/ Check \/ Sleep \/ End \/ SetContext \/ Subscribe \/ OpenFails
             \/ LeaveLoop \/ Finish \/ Retry)
  /\ WF_vars(Receive)
  /\ WF_vars(Reconnect)
  /\ WF_vars(StopCancel \/ StopNotify \/ StopJoin)
  /\ \A s \in 1..MaxStreams :
       /\ WF_vars(s \in DOMAIN hnd /\ HandlerStart(s))
       /\ WF_vars(s \in DOMAIN hnd /\ HandlerSend(s))
       /\ WF_vars(s \in DOMAIN hnd /\ HandlerEnd(s))

FairSpec == Spec /\ Fairness

-----------------------------------------------------------------------------
(* Properties.                                                             *)

Increasing(q) == \A i \in 1..Len(q) - 1 : q[i] < q[i + 1]

Handler ==
  [l : Learners, state : {"arriving", "open", "ended"}, asked : 0..MaxVersion,
   sent : 0..MaxVersion, queue : Seq(1..MaxVersion), out : Seq(1..MaxVersion)]

\* The type of every variable; the thread has a stream exactly while it reads
\* from it or closes it.
TypeOK ==
  /\ pc \in PCs
  /\ dest \in Learners \cup {NoTarget} /\ target \in Learners \cup {NoTarget}
  /\ stream \in {NoStream} \cup DOMAIN hnd
  /\ stream # NoStream <=> pc \in {"reading", "closing"}
  /\ lastVer \in 0..MaxVersion
  /\ model \in [from : Learners \cup {NoTarget}, version : 0..MaxVersion]
  /\ cancelled \in BOOLEAN
  /\ setter \in {"idle", "cancel"}
  /\ stopper \in {"idle", "cancel", "notify", "join", "done"}
  /\ latest \in [Learners -> 0..MaxVersion]
  /\ \A l \in Learners : subs[l] \in {NoStream} \cup DOMAIN hnd
  /\ \A s \in DOMAIN hnd : hnd[s] \in Handler

\* A subscriber misses nothing but superseded versions: its queue ends with
\* the latest version, and when it is empty the latest has been sent, or the
\* worker said that it had something at least as new.
NewestKept ==
  \A l \in Learners :
    subs[l] # NoStream =>
      LET h == hnd[subs[l]]
      IN IF h.queue = <<>> THEN h.sent >= latest[l] ELSE h.queue[Len(h.queue)] = latest[l]

\* On one stream versions are sent in order and none twice, although the
\* version sent on subscription and the queue are filled by different tasks,
\* and a full queue loses versions; the newest is kept.  The variables keep
\* their types.
StreamInOrder ==
  /\ TypeOK
  /\ NewestKept
  /\ \A s \in DOMAIN hnd :
       hnd[s].state = "open" =>
         /\ Increasing(hnd[s].out \o hnd[s].queue)
         /\ hnd[s].sent # hnd[s].asked => Increasing(<<hnd[s].sent>> \o hnd[s].queue)

\* Whatever breaks, lingers, overflows or is pointed elsewhere, the model in use
\* is one its learner has published, and the worker does not go back to an older
\* model of the same learner, although it compares no versions itself and asks
\* a learner for what is newer than the last version it had from any.
D == INSTANCE PolicyDelivery

ModelsDelivered == D!Spec

\* The learner has no subscriber for the stream that the worker reads: the
\* handler of an older stream has removed it.
Forgotten == pc = "reading" /\ hnd[stream].state = "open" /\ subs[hnd[stream].l] # stream

\* A worker that stays with one learner always comes to receive its latest
\* version again and to use it, if it builds, however often the connection
\* breaks; except that the learner may have forgotten the stream.
GetsLatest ==
  []<>(\/ stop \/ target = NoTarget \/ latest[target] = 0
       \/ \E s \in DOMAIN hnd : hnd[s].l # target
       \/ Forgotten
       \/ /\ lastVer = latest[target]
          /\ <<target, lastVer>> \in Broken \/ model = [from |-> target, version |-> lastVer])
=============================================================================
