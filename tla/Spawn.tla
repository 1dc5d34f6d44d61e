------------------------------- MODULE Spawn -------------------------------
(***************************************************************************)
(* The SpawnManager and the DynamicObjects it brings into the world and    *)
(* takes out of it.  Every object is either active or waits in one of two  *)
(* queues: LOW if it was never spawned, HIGH if it was despawned.  A frame *)
(* of World::update() lets the manager despawn, spawn, and spawn again to  *)
(* keep a minimum, then moves the objects and tells them of collisions.    *)
(*                                                                         *)
(* Geometry is reduced to the view the robot has of an object.  Times are  *)
(* in frames.                                                              *)
(***************************************************************************)
EXTENDS Integers, Sequences, FiniteSets, SequencesExt

CONSTANTS
  Objects,
  MinActive, MaxActive,       \* min_active_objects, max_active_objects
  MaxSpawns, MaxAttempts,     \* max_spawns_per_frame, max_spawn_attempts_per_frame
  ExtraPerNeeded,             \* attempts per missing object (20)
  AvoidFov,                   \* avoid_fov
  StuckTimeout,               \* stuck_timeout, 0 for none
  RerouteDelay, RetryInterval,
  DwellCollision, DwellRandom,
  Loopers                     \* the objects whose route is a loop

ASSUME SpawnAssumption ==
  /\ IsFiniteSet(Objects) /\ Objects # {} /\ Loopers \subseteq Objects
  /\ {MinActive, MaxActive, MaxSpawns, MaxAttempts, StuckTimeout,
      RerouteDelay, RetryInterval, DwellCollision, DwellRandom} \subseteq Nat
  /\ ExtraPerNeeded \in Nat \ {0} /\ AvoidFov \in BOOLEAN

VARIABLES
  stage,   \* what the frame does next: "manage", "spawn", "ensure", "move"
  high,    \* the queue of the objects that were despawned
  low,     \* the queue of those never spawned
  active,  \* active_objects_
  budget,  \* spawns and attempts left to spawn_from_queue()
  failed,  \* history: a pose search failed in this frame
  view,    \* what the robot saw of each object when the manager last looked
  body,    \* the objects: state_, frames since stop_start_time_,
           \*   in_collision_ and waypoints_loop_
  stuck,   \* frames since stuck_since_, -1 for no entry
  retryIn  \* frames until reroute_next_attempt_, 0 for no entry

queues == <<high, low, active>>
timers == <<stuck, retryIn>>
vars   == <<stage, queues, budget, failed, view, body, timers>>

\* near: seen, within 30 m.  seen: farther.  hidden: out of the field of view
\* or occluded.  unsensed: hidden and out of the range of every sensor.
\* far: beyond max_despawn_distance too.  The field of view reaches as far as
\* the sensors, so what is seen is within their range.
Views   == {"near", "seen", "hidden", "unsensed", "far"}
Visible == {"near", "seen"}
Outside == "outside"   \* move_object_out_of_bounds()

None == -1

-----------------------------------------------------------------------------
(* DynamicObject.                                                          *)

States == {"ACTIVE", "STOPPED", "INACTIVE"}
Bodies == [state : States, since : Nat, hit : BOOLEAN, loops : BOOLEAN]

\* teleport() puts the object at a pose without a history; activate() and
\* deactivate() follow it wherever the manager spawns or despawns.
activate(b)   == [state |-> "ACTIVE", since |-> 0, hit |-> FALSE, loops |-> b.loops]
deactivate(b) == [state |-> "INACTIVE", since |-> 0, hit |-> FALSE, loops |-> b.loops]
override_waypoints(b) == [activate(b) EXCEPT !.loops = FALSE]
Stopped(b, hit) == [state |-> "STOPPED", since |-> 0, hit |-> hit, loops |-> b.loops]
on_collision(b) == Stopped(b, TRUE)

is_stuck(b) == b.state = "STOPPED"

Dwell(b)   == IF b.hit THEN DwellCollision ELSE DwellRandom
Resumes(b) == b.state = "STOPPED" /\ b.since + 1 >= Dwell(b)

\* What may happen to an object between two looks of the manager: nothing
\* special, a random stop, the end of a route, or a collision.
May(b, event) ==
  \/ event = "none"
  \/ event = "pause" /\ b.state = "ACTIVE"
  \/ event = "end"   /\ b.state = "ACTIVE" /\ ~ b.loops
  \/ event = "hit"   /\ (b.state = "ACTIVE" \/ Resumes(b))

\* update(), then on_collision() if one is found afterwards.
After(b, event) ==
  CASE event = "pause" -> Stopped(b, FALSE)
    [] event = "end"   -> [b EXCEPT !.state = "INACTIVE"]
    [] event = "hit"   -> on_collision(b)
    [] OTHER -> IF Resumes(b) THEN activate(b)
                ELSE IF b.state = "STOPPED" THEN [b EXCEPT !.since = @ + 1] ELSE b

-----------------------------------------------------------------------------
Init ==
  /\ stage = "manage"
  /\ high = <<>> /\ low \in SetToSeqs(Objects) /\ active = {}
  /\ budget = [spawns |-> 0, attempts |-> 0] /\ failed = FALSE
  /\ view = [o \in Objects |-> Outside]
  /\ body = [o \in Objects |-> [state |-> "INACTIVE", since |-> 0, hit |-> FALSE,
                                loops |-> o \in Loopers]]
  /\ stuck = [o \in Objects |-> None] /\ retryIn = [o \in Objects |-> 0]

(* Manage: check_and_despawn_objects().                                    *)

hidden(o) == view'[o] \notin Visible

\* The two reasons that do not look at the timers.
Gone(o) ==
  \/ body[o].state = "INACTIVE" /\ hidden(o)
  \/ view'[o] = "far"

\* Mutant of StuckFor: the time is entered anew in every frame.
StuckFor_Restarts(o) == IF is_stuck(body[o]) THEN 0 ELSE None

\* stuck_since_ after this look, counted no further than it matters.
StuckFor(o) ==
  IF ~ is_stuck(body[o]) THEN None
  ELSE IF stuck[o] < StuckTimeout + RerouteDelay THEN stuck[o] + 1 ELSE stuck[o]

\* reroute_next_attempt_ at this look.
RetryIn(o) == IF retryIn[o] = 0 THEN 0 ELSE retryIn[o] - 1

Reroutes(o) ==
  /\ is_stuck(body[o]) /\ view'[o] = "near"
  /\ StuckFor(o) >= RerouteDelay /\ RetryIn(o) = 0

TimedOut(o) == StuckTimeout > 0 /\ StuckFor(o) >= StuckTimeout

\* Mutant of GivenUp: a stuck object goes when its time is up, seen or not.
GivenUp_Seen(o) == is_stuck(body[o]) /\ (view'[o] = "unsensed" \/ TimedOut(o))

\* A stuck object leaves if no sensor reaches it, or hidden when its time is up.
GivenUp(o) ==
  /\ is_stuck(body[o])
  /\ view'[o] = "unsensed" \/ (TimedOut(o) /\ hidden(o))

\* Mutant of Forget: the entry of a despawned object stays.
Forget_KeepsStuck(o, out) == ~ is_stuck(body[o])

\* The objects without an entry in the timers afterwards.
Forget(o, out) == out \/ ~ is_stuck(body[o])

Manage ==
  /\ stage = "manage"
  /\ \E seen \in [active -> Views] :
       view' = [o \in Objects |-> IF o \in active THEN seen[o] ELSE Outside]
  /\ \E rerouted \in SUBSET {o \in active : Reroutes(o)} :
       LET out == {o \in active : Gone(o) \/ (GivenUp(o) /\ o \notin rerouted)} IN
         /\ active' = active \ out
         /\ \E order \in SetToSeqs(out) : high' = high \o order
         /\ body' = [o \in Objects |->
              IF o \in out THEN deactivate(body[o])
              ELSE IF o \in rerouted THEN override_waypoints(body[o]) ELSE body[o]]
         /\ stuck' = [o \in Objects |->
              IF o \notin active \/ Forget(o, o \in out) THEN None ELSE StuckFor(o)]
         /\ retryIn' = [o \in Objects |->
              IF o \notin active \/ Forget(o, o \in out) \/ o \in rerouted THEN 0
              ELSE IF Reroutes(o) THEN RetryInterval ELSE RetryIn(o)]
  /\ stage' = "spawn" /\ failed' = FALSE
  /\ budget' = [spawns |-> MaxSpawns, attempts |-> MaxAttempts]
  /\ UNCHANGED low

(* Spawn: spawn_from_queue(), one action per attempt.                      *)

Full   == Cardinality(active) >= MaxActive
MayTry == budget.spawns > 0 /\ budget.attempts > 0 /\ ~ Full /\ high \o low # <<>>

\* find_spawn_pose(): the views a new object can have, or no pose.  With
\* avoid_fov a pose in the field of view is taken only if it is occluded.
Poses == {"none", "hidden", "unsensed"} \cup (IF AvoidFov THEN {} ELSE Visible)

Dequeue ==
  IF high # <<>> THEN high' = Tail(high) /\ UNCHANGED low
                 ELSE low' = Tail(low) /\ UNCHANGED high

\* The object goes to the back of the queue it came from.
Requeue(o) ==
  /\ IF high # <<>> THEN high' = Append(Tail(high), o) /\ UNCHANGED low
                    ELSE low' = Append(Tail(low), o) /\ UNCHANGED high
  /\ UNCHANGED active

Try ==
  /\ stage \in {"spawn", "ensure"} /\ MayTry
  /\ LET o == Head(high \o low) IN
     \E pose \in Poses :
       \/ /\ pose = "none"
          /\ Requeue(o)
          /\ failed' = TRUE /\ budget' = [budget EXCEPT !.attempts = @ - 1]
          /\ UNCHANGED <<view, body>>
       \/ /\ pose # "none"
          /\ Dequeue /\ active' = active \cup {o}
          /\ view' = [view EXCEPT ![o] = pose]
          /\ body' = [body EXCEPT ![o] = activate(body[o])]
          /\ budget' = [spawns |-> budget.spawns - 1, attempts |-> budget.attempts - 1]
          /\ UNCHANGED failed
  /\ UNCHANGED <<stage, timers>>

Needed == MinActive - Cardinality(active)

\* ensure_minimum_active() tries again, with limits of its own.
Ensure ==
  /\ stage = "spawn" /\ ~ MayTry
  /\ stage' = "ensure"
  /\ budget' = IF Needed > 0
               THEN [spawns |-> Needed,
                     attempts |-> LET a == Needed * ExtraPerNeeded
                                      b == IF MaxAttempts = 0 THEN 1 ELSE MaxAttempts
                                  IN IF a < b THEN b ELSE a]
               ELSE [spawns |-> 0, attempts |-> 0]
  /\ UNCHANGED <<queues, failed, view, body, timers>>

EnsureDone ==
  /\ stage = "ensure" /\ ~ MayTry
  /\ stage' = "move" /\ budget' = [spawns |-> 0, attempts |-> 0]
  /\ UNCHANGED <<queues, failed, view, body, timers>>

\* The objects move, and those that collide afterwards are told.
Move ==
  /\ stage = "move"
  /\ \E event \in [active -> {"none", "pause", "end", "hit"}] :
       /\ \A o \in active : May(body[o], event[o])
       /\ body' = [o \in Objects |-> IF o \in active THEN After(body[o], event[o]) ELSE body[o]]
  /\ stage' = "manage"
  /\ UNCHANGED <<queues, budget, failed, view, timers>>

Next == Manage \/ Try \/ Ensure \/ EnsureDone \/ Move

Spec == Init /\ [][Next]_vars
\* The simulator keeps stepping its world.
FairSpec == Spec /\ WF_vars(Next)

-----------------------------------------------------------------------------
(* Properties.                                                             *)

\* Types of the variables.
TypeOK ==
  /\ stage \in {"manage", "spawn", "ensure", "move"}
  /\ high \in Seq(Objects) /\ low \in Seq(Objects) /\ active \subseteq Objects
  /\ budget \in [spawns : Nat, attempts : Nat] /\ failed \in BOOLEAN
  /\ view \in [Objects -> Views \cup {Outside}]
  /\ body \in [Objects -> Bodies]
  /\ stuck \in [Objects -> Nat \cup {None}] /\ retryIn \in [Objects -> Nat]

\* An object out of the world has no history: when it comes back it is moving,
\* and it is given the whole timeout before it counts as stuck again.
QueuedAreClean ==
  \A o \in Objects \ active :
    stuck[o] = None /\ retryIn[o] = 0 /\ body[o].state = "INACTIVE"

\* The minimum is kept in every frame in which the searches for a pose succeed.
MinimumKept ==
  stage = "move" /\ ~ failed =>
    \/ Cardinality(active) >= MinActive
    \/ Full
    \/ active = Objects

\* Every object is active or queued, once, whatever was despawned, failed and
\* tried again, and clean while it is queued; the limit on active objects
\* holds, and the minimum is kept.  The variables keep their types.
Accounted ==
  /\ TypeOK
  /\ MinimumKept
  /\ IsInjective(high \o low)
  /\ ToSet(high \o low) = Objects \ active
  /\ QueuedAreClean
  /\ Cardinality(active) <= MaxActive

\* Nothing appears or vanishes before the eyes of the robot.
NoPopping ==
  [][\A o \in Objects : (o \in active) # (o \in active') => view'[o] \notin Visible]_vars

\* An object that the manager keeps finding stopped, hidden and still in the
\* world is an object that leaves in the end, however often it starts to move
\* and is hit again before the manager looks.
StuckLeaves ==
  \A o \in Objects :
    []<>~(o \in active /\ view[o] = "hidden" /\ (stage = "manage" => is_stuck(body[o])))
=============================================================================
