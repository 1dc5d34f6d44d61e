--------------------------- MODULE PolicyDelivery ---------------------------
(***************************************************************************)
(* What policy distribution promises the one who drives with the model in   *)
(* use, whatever connections do in between: it is a model that its learner  *)
(* has published and that builds, and the worker never goes back to an      *)
(* older one of the same learner.  Nothing is promised about how many       *)
(* versions are skipped, nor across learners, whose versions are not        *)
(* comparable.                                                              *)
(***************************************************************************)
EXTENDS Integers

CONSTANTS Learners, NoTarget, Broken

VARIABLES
  latest,  \* the newest version of each learner, 0 for none
  model    \* the model in use: the learner it came from and its version

vars == <<latest, model>>

Init ==
  /\ latest = [l \in Learners |-> 0]
  /\ model = [from |-> NoTarget, version |-> 0]

Publish(l) ==
  /\ latest' = [latest EXCEPT ![l] = @ + 1]
  /\ UNCHANGED model

\* The worker goes on with version v of learner l.
Use(l, v) ==
  /\ v \in 1..latest[l] /\ <<l, v>> \notin Broken
  /\ model.from = l => model.version <= v
  /\ model' = [from |-> l, version |-> v]
  /\ UNCHANGED latest

Next == \E l \in Learners : Publish(l) \/ \E v \in 1..latest[l] : Use(l, v)

Spec == Init /\ [][Next]_vars
=============================================================================
