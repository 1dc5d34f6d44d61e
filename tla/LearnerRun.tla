----------------------------- MODULE LearnerRun -----------------------------
(***************************************************************************)
(* The learner's Runner: rollout batches come in through a bounded queue,  *)
(* usable rollouts are collected until there are enough for an update, the *)
(* model is trained on them for some epochs, and every so many updates it  *)
(* becomes a new policy version, which is saved to disk and then pushed.   *)
(* The process may crash at any point; it is started again on its newest   *)
(* complete checkpoint, or from scratch when there is none.                *)
(*                                                                         *)
(* Models are told apart by a number: every update makes a new one.        *)
(***************************************************************************)
EXTENDS Integers, Sequences, FiniteSets

CONSTANTS
  BatchSize,    \* rollouts_per_update
  Epochs,       \* num_epochs_per_update
  Warmup,       \* policy_push_warmup_updates
  Interval,     \* checkpoint_interval
  QueueMax,     \* size of the rollout queue
  MaxBatch,     \* bound on the rollouts of a batch
  MaxRollouts,  \* bound on the rollouts that arrive
  MaxVersion,   \* bound on the versions, beyond what the other bounds allow
  MaxStarts     \* bound on the starts of the learner

ASSUME LearnerAssumption ==
  /\ {BatchSize, Epochs, Interval, QueueMax, MaxBatch, MaxVersion, MaxStarts} \subseteq Nat \ {0}
  /\ Warmup \in Nat /\ MaxRollouts \in Nat

VARIABLES
  pc,         \* "down", "idle", "handling", "training", "saving", "saved"
  queue,      \* batches received and not taken
  hand,       \* what is left of the batch the loop is in
  buffer,     \* _buffer
  minibatch,  \* the rollouts being trained on
  epoch,      \* epochs done on them
  model,      \* the trainer's model
  version,    \* _policy_version
  updates,    \* _num_updates
  disk,       \* what is under the file name of each version
  latest,     \* PolicyPusher.latest: a version and its model, 0 for None
  worker,     \* the subscriber: link, inbox, last_version_ and its model
  made,       \* number of models made so far
  starts,     \* number of starts
  arrived,    \* number of rollouts that arrived
  accepted,   \* history: the rollouts this run has taken into the buffer
  trained,    \* history: those it has trained on, one pass per rollout
  pushed      \* history: every push ever made

serverVars == <<latest, worker, pushed>>
loopVars   == <<hand, buffer, minibatch, epoch, accepted, trained>>
modelVars  == <<model, version, updates, made, disk>>
vars == <<pc, queue, loopVars, modelVars, serverVars, starts, arrived>>

None == [model |-> 0, updates |-> 0, whole |-> FALSE]
Torn == None
Push(v, m) == [version |-> v, model |-> m]

Versions == 1 .. MaxVersion

\* The updates after which a version is emitted.
Emits(u) == u >= Warmup /\ (u - Warmup) % Interval = 0

Init ==
  /\ pc = "down" /\ queue = <<>> /\ hand = <<>> /\ buffer = <<>> /\ minibatch = <<>>
  /\ epoch = 0 /\ model = 0 /\ version = 0 /\ updates = 0
  /\ disk = [v \in Versions |-> None]
  /\ latest = Push(0, 0)
  /\ worker = [link |-> FALSE, inbox |-> <<>>, last |-> 0, model |-> 0]
  /\ made = 0 /\ starts = 0 /\ arrived = 0
  /\ accepted = <<>> /\ trained = <<>> /\ pushed = {}

-----------------------------------------------------------------------------
(* Starting, and stopping without warning.                                 *)

\* submit(): the push is kept as the latest and sent to the subscriber.
Submit(push) ==
  /\ latest' = push
  /\ pushed' = pushed \cup {push}
  /\ worker' = IF worker.link THEN [worker EXCEPT !.inbox = Append(@, push)] ELSE worker

Complete  == {v \in Versions : disk[v].whole}
Newest(v) == v \in Complete /\ \A w \in Complete : w <= v

\* No checkpoint: a new model is version 1, and is not saved.
Scratch ==
  /\ Complete = {}
  /\ model' = made + 1 /\ made' = made + 1
  /\ version' = 1 /\ updates' = 0

\* Mutants of Resume: the number of updates, or the version, is not restored.
Resume_ForgetsUpdates == \E v \in Versions :
  /\ Newest(v)
  /\ model' = disk[v].model /\ UNCHANGED made
  /\ version' = v /\ updates' = 0
Resume_ForgetsVersion == \E v \in Versions :
  /\ Newest(v)
  /\ model' = disk[v].model /\ UNCHANGED made
  /\ version' = 1 /\ updates' = disk[v].updates

\* _restore_checkpoint_payload() with the newest checkpoint that loads.
Resume == \E v \in Versions :
  /\ Newest(v)
  /\ model' = disk[v].model /\ UNCHANGED made
  /\ version' = v /\ updates' = disk[v].updates

Start ==
  /\ pc = "down" /\ starts < MaxStarts
  /\ Scratch \/ Resume
  /\ Submit(Push(version', model'))
  /\ pc' = "idle" /\ starts' = starts + 1
  /\ UNCHANGED <<queue, loopVars, disk, arrived>>

\* All that is in memory is lost, and the streams with it; the worker keeps
\* its model.  A file that was being written is incomplete.
Crash ==
  /\ pc # "down" /\ starts < MaxStarts
  /\ pc' = "down" /\ queue' = <<>> /\ hand' = <<>> /\ buffer' = <<>> /\ minibatch' = <<>>
  /\ epoch' = 0 /\ model' = 0 /\ version' = 0 /\ updates' = 0
  /\ latest' = Push(0, 0)
  /\ worker' = [worker EXCEPT !.link = FALSE, !.inbox = <<>>]
  /\ accepted' = <<>> /\ trained' = <<>>
  /\ UNCHANGED <<disk, made, starts, arrived, pushed>>

-----------------------------------------------------------------------------
(* Rollouts.                                                               *)

\* enqueue(), in the RPC server's thread: a full queue refuses the batch.
Arrive ==
  /\ pc # "down"
  /\ \E n \in 1 .. MaxBatch :
       /\ arrived + n <= MaxRollouts
       /\ arrived' = arrived + n
       /\ queue' = IF Len(queue) < QueueMax
                   THEN Append(queue, [i \in 1 .. n |-> arrived + i])
                   ELSE queue
  /\ UNCHANGED <<pc, loopVars, modelVars, serverVars, starts>>

\* The next batch of batches().
Take ==
  /\ pc = "idle" /\ queue # <<>>
  /\ hand' = Head(queue) /\ queue' = Tail(queue)
  /\ pc' = "handling"
  /\ UNCHANGED <<buffer, minibatch, epoch, accepted, trained, modelVars, serverVars,
                 starts, arrived>>

\* No steps, the wrong mode, or the wrong action dimension.
Skip ==
  /\ pc = "handling" /\ hand # <<>>
  /\ hand' = Tail(hand)
  /\ UNCHANGED <<pc, queue, buffer, minibatch, epoch, accepted, trained, modelVars,
                 serverVars, starts, arrived>>

\* Mutant of Accept: the buffer keeps what is trained on.
Accept_KeepsBuffer ==
  /\ pc = "handling" /\ hand # <<>>
  /\ LET b == Append(buffer, Head(hand)) IN
     IF Len(b) >= BatchSize
     THEN /\ minibatch' = SubSeq(b, 1, BatchSize) /\ buffer' = Tail(b)
          /\ epoch' = 0 /\ pc' = "training"
     ELSE buffer' = b /\ UNCHANGED <<pc, minibatch, epoch>>
  /\ hand' = Tail(hand)
  /\ accepted' = Append(accepted, Head(hand))
  /\ UNCHANGED <<queue, trained, modelVars, serverVars, starts, arrived>>

\* _handle_rollout() of a usable rollout.  The buffer never holds BatchSize
\* rollouts here, so the branch that drops the oldest is not taken.
Accept ==
  /\ pc = "handling" /\ hand # <<>>
  /\ LET b == Append(buffer, Head(hand))
         c == IF Len(b) > BatchSize THEN Tail(b) ELSE b
     IN IF Len(c) >= BatchSize
        THEN /\ minibatch' = SubSeq(c, 1, BatchSize)
             /\ buffer' = SubSeq(c, BatchSize + 1, Len(c))
             /\ epoch' = 0 /\ pc' = "training"
        ELSE buffer' = c /\ UNCHANGED <<pc, minibatch, epoch>>
  /\ hand' = Tail(hand)
  /\ accepted' = Append(accepted, Head(hand))
  /\ UNCHANGED <<queue, trained, modelVars, serverVars, starts, arrived>>

BatchDone ==
  /\ pc = "handling" /\ hand = <<>>
  /\ pc' = "idle"
  /\ UNCHANGED <<queue, loopVars, modelVars, serverVars, starts, arrived>>

-----------------------------------------------------------------------------
(* Training, one action per epoch, and what a new version goes through.    *)

\* One pass over the minibatch.  When it is time, a version is emitted.
Update ==
  /\ pc = "training" /\ epoch < Epochs
  /\ epoch' = epoch + 1
  /\ model' = made + 1 /\ made' = made + 1
  /\ updates' = updates + 1
  /\ IF Emits(updates')
     THEN version < MaxVersion /\ version' = version + 1 /\ pc' = "saving"
     ELSE UNCHANGED <<version, pc>>
  /\ trained' = trained \o minibatch
  /\ UNCHANGED <<queue, hand, buffer, minibatch, disk, serverVars, starts, arrived, accepted>>

EpochsDone ==
  /\ pc = "training" /\ epoch = Epochs
  /\ pc' = "handling" /\ minibatch' = <<>>
  /\ UNCHANGED <<queue, hand, buffer, epoch, accepted, trained, modelVars, serverVars,
                 starts, arrived>>

\* torch.save() opens the file, and an older one of that name is gone ...
BeginSave ==
  /\ pc = "saving"
  /\ disk' = [disk EXCEPT ![version] = Torn]
  /\ pc' = "writing"
  /\ UNCHANGED <<queue, loopVars, model, version, updates, made, serverVars, starts, arrived>>

\* ... and has written it.
EndSave ==
  /\ pc = "writing"
  /\ disk' = [disk EXCEPT ![version] = [model |-> model, updates |-> updates, whole |-> TRUE]]
  /\ pc' = "saved"
  /\ UNCHANGED <<queue, loopVars, model, version, updates, made, serverVars, starts, arrived>>

\* Mutant of Broadcast: the version is pushed before its file is complete.
Broadcast_Early ==
  /\ pc \in {"writing", "saved"}
  /\ Submit(Push(version, model))
  /\ pc' = IF pc = "saved" THEN "training" ELSE pc
  /\ UNCHANGED <<queue, loopVars, modelVars, starts, arrived>>

\* build_policy_push() and submit().
Broadcast ==
  /\ pc = "saved"
  /\ Submit(Push(version, model))
  /\ pc' = "training"
  /\ UNCHANGED <<queue, loopVars, modelVars, starts, arrived>>

-----------------------------------------------------------------------------
(* One worker, whose stream is in order: see PolicyStream for its details. *)

\* A subscriber with an older version is sent the latest one.
Subscribe ==
  /\ pc # "down" /\ ~ worker.link
  /\ worker' = [worker EXCEPT !.link = TRUE,
                  !.inbox = IF latest.version > worker.last THEN <<latest>> ELSE <<>>]
  /\ UNCHANGED <<pc, queue, loopVars, modelVars, latest, pushed, starts, arrived>>

Receive ==
  /\ worker.link /\ worker.inbox # <<>>
  /\ LET push == Head(worker.inbox) IN
       worker' = [worker EXCEPT !.inbox = Tail(@), !.last = push.version, !.model = push.model]
  /\ UNCHANGED <<pc, queue, loopVars, modelVars, latest, pushed, starts, arrived>>

-----------------------------------------------------------------------------
Loop == \/ Take \/ Skip \/ Accept \/ BatchDone
        \/ Update \/ EpochsDone \/ BeginSave \/ EndSave \/ Broadcast

Next == Start \/ Crash \/ Arrive \/ Loop \/ Subscribe \/ Receive

\* The loop runs as long as the process does, the operator starts it again,
\* and the subscriber's thread reconnects and reads.
Fairness ==
  /\ WF_vars(Loop) /\ WF_vars(Start)
  /\ WF_vars(Subscribe) /\ WF_vars(Receive)

Spec     == Init /\ [][Next]_vars
FairSpec == Spec /\ Fairness

-----------------------------------------------------------------------------
(* Properties.                                                             *)

\* Types of the variables.
TypeOK ==
  /\ pc \in {"down", "idle", "handling", "training", "saving", "writing", "saved"}
  /\ Len(queue) <= QueueMax /\ \A i \in DOMAIN queue : Len(queue[i]) \in 1 .. MaxBatch
  /\ Len(hand) <= MaxBatch
  /\ Len(buffer) < BatchSize          \* room for one more, always
  /\ Len(minibatch) \in {0, BatchSize} /\ (pc = "training" => minibatch # <<>>)
  /\ epoch \in 0 .. Epochs
  /\ model \in 0 .. made /\ version \in 0 .. MaxVersion /\ updates \in 0 .. made
  /\ worker.last \in 0 .. MaxVersion

\* A pushed version above the first names one model for ever, across crashes
\* and restarts: the file of a version is complete before the version is
\* pushed, so a restart either knows it or nobody has seen it.  The workers
\* rely on this when they report last_version instead of asking again.
VersionNamesModel ==
  \A p, q \in pushed : p.version = q.version /\ p.version > 1 => p = q

\* Whatever a worker uses can be read back: version 1 of a learner started
\* from scratch is the one exception.
PushedIsSaved ==
  \A p \in pushed : p.version > 1 =>
    p.version \in Complete /\ disk[p.version].model = p.model

\* Every accepted rollout is in exactly one minibatch, in the order in which
\* they came, and is trained on Epochs times: what a pass goes over is one
\* minibatch, pass k (from 0) is over the minibatch k \div Epochs, and the last
\* of them is done when the next rollout is looked at.  What is not in a
\* minibatch is in the buffer.  The variables keep their types.
TrainedOnceEach ==
  LET full   == Len(accepted) \div BatchSize
      passes == Len(trained) \div BatchSize
  IN /\ TypeOK
     /\ buffer = SubSeq(accepted, full * BatchSize + 1, Len(accepted))
     /\ Len(trained) = passes * BatchSize
     /\ passes <= full * Epochs /\ (pc \in {"idle", "handling"} => passes = full * Epochs)
     /\ \A k \in 0 .. passes - 1, j \in 1 .. BatchSize :
          trained[k * BatchSize + j] = accepted[(k \div Epochs) * BatchSize + j]

\* The version is the number of times a version was due, whatever crashes
\* and restarts there were.
VersionCountsEmissions ==
  pc # "down" => version = 1 + Cardinality({u \in 1 .. updates : Emits(u)})

\* Again and again the worker uses the model that was pushed last; except
\* that a first model is never sent to one that had another first model.
WorkerCatchesUp ==
  []<>(\/ pc = "down"
       \/ worker.model = latest.model
       \/ worker.last = 1 /\ latest.version = 1)
=============================================================================
