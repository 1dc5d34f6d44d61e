-------------------------- MODULE RolloutPipeline ---------------------------
(***************************************************************************)
(* The way of a rollout from a simulator's thread to a trainer: the bounded *)
(* queue and the thread of RolloutPublisher, the RolloutStreamClient it     *)
(* sends with, which the heartbeat thread points at another learner, the    *)
(* connection, the StreamRollouts handler and the bounded queue of each     *)
(* learner, and the loop that empties it.                                   *)
(***************************************************************************)
EXTENDS Integers, Sequences, FiniteSets

CONSTANTS
  Sims,         \* simulator threads of the worker
  Learners,     \* learner endpoints
  MaxDepth,     \* max_queue_depth of the publisher
  MaxBatch,     \* max_batch_rollouts
  LearnerDepth, \* max_queue_size of GrpcRolloutSource, in batches
  Window,       \* batches a connection takes before Write() blocks
  MaxRollouts,  \* bound on the rollouts of a simulator
  MaxLinks,     \* bound on the connections
  MaxSwitches   \* bound on the directives that name a learner

NoTarget == ""

\* MaxBatch comes from the configuration file, which may also say 0: then the
\* publisher never takes anything from its queue.
ASSUME PipelineAssumption ==
  /\ MaxDepth \in Nat \ {0} /\ MaxBatch \in Nat \ {0}
  /\ LearnerDepth \in Nat \ {0} /\ Window \in Nat \ {0}
  /\ MaxRollouts \in Nat /\ MaxLinks \in Nat /\ MaxSwitches \in Nat
  /\ NoTarget \notin Learners

VARIABLES
  made,     \* rollout_sequence of each simulator
  queue,    \* queue_ of the publisher
  pub,      \* the publisher's thread: see PubStates
  batch,    \* the batch it publishes
  target,   \* target_ of the stream client, "" for none
  link,     \* stream_, a connection or 0 for none
  links,    \* the connections: where to, their state, what is on the wire and
            \* what the handler has put into the learner's queue
  setter,   \* the heartbeat thread: target it is about to set, or Idle
  switches, \* number of directives so far
  stopping, \* Worker::stop(): see Stages
  ingest,   \* _queue of each learner's GrpcRolloutSource
  used      \* what each learner's run() loop took from it

publisher == <<queue, pub, batch>>
client == <<target, link, links>>
control == <<setter, switches, stopping>>
learner == <<ingest, used>>
vars == <<made, publisher, client, control, learner>>

NoLink == 0
Idle == "idle"

\* "head": at the head of its loop; "wait": in cv_.wait_for(); "publish": about
\* to send; "write": in Write(), holding the client's mutex_; "ended".
PubStates == {"head", "wait", "publish", "write", "ended"}

\* "run"; "sims": the simulators have ended; "client": so has the heartbeat
\* thread; "publisher": should_stop_ is set; "done".
Stages == {"run", "sims", "client", "publisher", "done"}

should_stop == stopping \in {"publisher", "done"}

Members(s) == {s[i] : i \in DOMAIN s}

Init ==
  /\ made = [s \in Sims |-> 0]
  /\ queue = <<>> /\ pub = "head" /\ batch = <<>>
  /\ target \in Learners /\ link = NoLink /\ links = <<>>
  /\ setter = Idle /\ switches = 0 /\ stopping = "run"
  /\ ingest = [l \in Learners |-> <<>>]
  /\ used = [l \in Learners |-> <<>>]

-----------------------------------------------------------------------------
(* The simulators.                                                         *)

\* handle_rollout_ready(): the rollout gets its number whether or not the
\* queue has room for it.
Record(s) ==
  /\ stopping = "run" /\ made[s] < MaxRollouts
  /\ made' = [made EXCEPT ![s] = @ + 1]
  /\ queue' = IF Len(queue) >= MaxDepth THEN queue ELSE Append(queue, <<s, made[s]>>)
  /\ UNCHANGED <<pub, batch, client, control, learner>>

-----------------------------------------------------------------------------
(* The publisher's thread.                                                 *)

Least(a, b) == IF a < b THEN a ELSE b

Publisher(state) == pub' = state /\ UNCHANGED <<made, queue, client, control, learner>>

EnterWait == pub = "head" /\ ~ should_stop /\ Publisher("wait") /\ UNCHANGED batch

\* Mutant of WaitEnds: the wait has no time limit and does not look at
\* should_stop_.
WaitEnds_OnWorkOnly == FALSE

\* The wait ends, by time or by should_stop_, with nothing in the queue.
WaitEnds == pub = "wait" /\ queue = <<>> /\ Publisher("head") /\ UNCHANGED batch

Exit == pub = "head" /\ should_stop /\ Publisher("ended") /\ UNCHANGED batch

\* Mutant of Cut: waits until there is enough for a full batch.
Cut_FullOnly ==
  /\ pub = "wait" /\ Len(queue) >= MaxBatch
  /\ pub' = "publish"
  /\ batch' = SubSeq(queue, 1, MaxBatch)
  /\ queue' = SubSeq(queue, MaxBatch + 1, Len(queue))
  /\ UNCHANGED <<made, client, control, learner>>

\* The oldest rollouts are moved into a batch; should_stop_ is not looked at
\* again.
Cut ==
  /\ pub = "wait" /\ queue # <<>>
  /\ pub' = "publish"
  /\ LET n == Least(MaxBatch, Len(queue))
     IN /\ batch' = SubSeq(queue, 1, n)
        /\ queue' = SubSeq(queue, n + 1, Len(queue))
  /\ UNCHANGED <<made, client, control, learner>>

\* send() without a target drops the batch.
SendNowhere ==
  /\ pub = "publish" /\ target = NoTarget
  /\ Publisher("head") /\ batch' = <<>>

\* send() takes the client's mutex_, opens a connection if it has none, and
\* writes.
Send ==
  /\ pub = "publish" /\ target # NoTarget
  /\ pub' = "write"
  /\ IF link # NoLink THEN UNCHANGED client
     ELSE /\ Len(links) < MaxLinks
          /\ links' = Append(links, [to |-> target, state |-> "open", wire |-> <<>>, got |-> <<>>])
          /\ link' = Len(links) + 1
          /\ UNCHANGED target
  /\ UNCHANGED <<made, queue, batch, control, learner>>

\* Write() is done with the batch.
Written ==
  /\ pub = "write" /\ links[link].state = "open" /\ Len(links[link].wire) < Window
  /\ links' = [links EXCEPT ![link].wire = Append(@, batch)]
  /\ pub' = "head" /\ batch' = <<>>
  /\ UNCHANGED <<made, queue, target, link, control, learner>>

\* reset_stream_locked(): the connection is given up.
Reset ==
  /\ link' = NoLink
  /\ links' = IF link = NoLink \/ links[link].state # "open" THEN links
              ELSE [links EXCEPT ![link].state = "closed"]

\* Mutant of WriteFails: the batch goes back into the queue if it fits.
WriteFails_Requeues ==
  /\ pub = "write" /\ links[link].state # "open"
  /\ Reset
  /\ pub' = "head" /\ batch' = <<>>
  /\ queue' = IF Len(queue) + Len(batch) > MaxDepth THEN queue ELSE queue \o batch
  /\ UNCHANGED <<made, target, control, learner>>

\* Write() fails; the batch is dropped.
WriteFails ==
  /\ pub = "write" /\ links[link].state # "open"
  /\ Reset
  /\ pub' = "head" /\ batch' = <<>>
  /\ UNCHANGED <<made, queue, target, control, learner>>

-----------------------------------------------------------------------------
(* The heartbeat thread, which handles a directive, and Worker::stop().     *)

Directive(t) ==
  /\ stopping \in {"run", "sims"} /\ setter = Idle /\ switches < MaxSwitches
  /\ setter' = t /\ switches' = switches + 1
  /\ UNCHANGED <<made, publisher, client, stopping, learner>>

\* Mutant of SetTarget: the connection stays open.
SetTarget_KeepsStream ==
  /\ setter # Idle /\ pub # "write"
  /\ setter' = Idle /\ target' = setter
  /\ UNCHANGED <<made, publisher, link, links, switches, stopping, learner>>

\* set_target() waits for mutex_, which send() holds while it writes.
SetTarget ==
  /\ setter # Idle /\ pub # "write"
  /\ setter' = Idle /\ target' = setter
  /\ IF setter = target THEN UNCHANGED <<link, links>> ELSE Reset
  /\ UNCHANGED <<made, publisher, switches, stopping, learner>>

StopSims ==
  /\ stopping = "run" /\ stopping' = "sims"
  /\ UNCHANGED <<made, publisher, client, setter, switches, learner>>

\* The heartbeat thread is joined: it must have returned from set_target().
StopClient ==
  /\ stopping = "sims" /\ setter = Idle /\ stopping' = "client"
  /\ UNCHANGED <<made, publisher, client, setter, switches, learner>>

StopPublisher ==
  /\ stopping = "client" /\ stopping' = "publisher"
  /\ UNCHANGED <<made, publisher, client, setter, switches, learner>>

StopDone ==
  /\ stopping = "publisher" /\ pub = "ended" /\ stopping' = "done"
  /\ UNCHANGED <<made, publisher, client, setter, switches, learner>>

-----------------------------------------------------------------------------
(* The connections and the learners.                                       *)

\* What is left of the bound on connections when every directive still to be
\* handled has one.
Spare == MaxLinks - Len(links) - (MaxSwitches - switches) - (IF setter = Idle THEN 0 ELSE 1)

Break(c) ==
  /\ links[c].state = "open" /\ Spare > 0
  /\ links' = [links EXCEPT ![c].state = "broken"]
  /\ UNCHANGED <<made, publisher, target, link, control, learner>>

\* The handler takes a batch and puts it into the learner's queue, or drops it
\* when that is full.  What was on its way when a connection was given up may
\* still be taken.
Receive(c) ==
  LET l == links[c].to
      b == Head(links[c].wire)
      fits == Len(ingest[l]) < LearnerDepth
  IN /\ links[c].wire # <<>>
     /\ links' = [links EXCEPT ![c].wire = Tail(@), ![c].got = IF fits THEN @ \o b ELSE @]
     /\ ingest' = IF fits THEN [ingest EXCEPT ![l] = Append(@, b)] ELSE ingest
     /\ UNCHANGED <<made, publisher, target, link, control, used>>

\* The handler of a connection that was given up ends, with what it has not
\* taken.
HandlerEnds(c) ==
  /\ links[c].state \in {"closed", "broken"}
  /\ links' = [links EXCEPT ![c].state = "ended", ![c].wire = <<>>]
  /\ UNCHANGED <<made, publisher, target, link, control, learner>>

\* run() takes a batch and handles its rollouts one by one.
Take(l) ==
  /\ ingest[l] # <<>>
  /\ used' = [used EXCEPT ![l] = @ \o Head(ingest[l])]
  /\ ingest' = [ingest EXCEPT ![l] = Tail(@)]
  /\ UNCHANGED <<made, publisher, client, control>>

Next ==
  \/ \E s \in Sims : Record(s)
  \/ EnterWait \/ WaitEnds \/ Exit \/ Cut \/ SendNowhere \/ Send \/ Written \/ WriteFails
  \/ \E t \in Learners \cup {NoTarget} : Directive(t)
  \/ SetTarget \/ StopSims \/ StopClient \/ StopPublisher \/ StopDone
  \/ \E c \in DOMAIN links : Break(c) \/ Receive(c) \/ HandlerEnds(c)
  \/ \E l \in Learners : Take(l)

Spec == Init /\ [][Next]_vars

\* The threads run; a lost connection is noticed; a handler that is read from
\* keeps reading.  The simulators, the network and the coordinator owe nothing,
\* nor does Worker::stop() have to be called.
Fairness ==
  /\ WF_vars(EnterWait \/ WaitEnds \/ Exit \/ Cut \/ SendNowhere \/ Send \/ Written \/ WriteFails)
  /\ WF_vars(SetTarget)
  /\ WF_vars(StopClient \/ StopPublisher \/ StopDone)
  /\ \A c \in 1..MaxLinks :
       /\ WF_vars(c \in DOMAIN links /\ Receive(c))
       /\ WF_vars(c \in DOMAIN links /\ HandlerEnds(c))

FairSpec == Spec /\ Fairness

-----------------------------------------------------------------------------
(* Properties.                                                             *)

Rollouts == Sims \X (0..MaxRollouts - 1)

Link ==
  [to : Learners, state : {"open", "closed", "broken", "ended"},
   wire : Seq(Seq(Rollouts)), got : Seq(Rollouts)]

\* The type of every variable; batches and queues keep to their bounds, and the
\* thread has a batch exactly while it publishes one.
TypeOK ==
  /\ made \in [Sims -> 0..MaxRollouts]
  /\ queue \in Seq(Rollouts) /\ Len(queue) <= MaxDepth
  /\ pub \in PubStates
  /\ batch \in Seq(Rollouts) /\ Len(batch) <= MaxBatch
  /\ batch # <<>> <=> pub \in {"publish", "write"}
  /\ target \in Learners \cup {NoTarget}
  /\ link \in {NoLink} \cup DOMAIN links
  /\ pub = "write" => link # NoLink
  /\ \A c \in DOMAIN links : links[c] \in Link /\ Len(links[c].wire) <= Window
  /\ setter \in Learners \cup {NoTarget, Idle} /\ switches \in 0..MaxSwitches
  /\ stopping \in Stages
  /\ ingest \in [Learners -> Seq(Seq(Rollouts))]
  /\ \A l \in Learners : Len(ingest[l]) <= LearnerDepth
  /\ used \in [Learners -> Seq(Rollouts)]

\* The pipeline keeps what RolloutDelivery promises: no rollout is used twice,
\* by one learner or by two, and those of a simulator stay in order on their
\* way, although queues overflow, connections break and targets change.
D == INSTANCE RolloutDelivery
       WITH links <- [c \in DOMAIN links |-> [to |-> links[c].to, got |-> links[c].got]]

Delivery == D!Spec

\* The connection in use leads to the learner that was last set: no batch is
\* written to an older one once set_target() has returned.
\* The variables keep their types and bounds.
SendsToTarget ==
  /\ TypeOK
  /\ link # NoLink => links[link].to = target
  /\ \A c \in DOMAIN links : links[c].state = "open" => c = link

\* A rollout the publisher has accepted does not stay in its queue, in its
\* hands or on the wire: it reaches the learner or is dropped, unless the
\* worker stops.
NothingStuck ==
  \A r \in Rollouts :
    r \in Members(queue) ~>
      \/ stopping # "run"
      \/ /\ r \notin Members(queue) \cup Members(batch)
         /\ \A c \in DOMAIN links : \A i \in DOMAIN links[c].wire : r \notin Members(links[c].wire[i])

\* Worker::stop() returns, though the heartbeat thread may be in set_target(),
\* the publisher in Write(), and its queue full.
StopReturns == stopping = "sims" ~> stopping = "done"
=============================================================================
