------------------------------- MODULE Robot -------------------------------
(***************************************************************************)
(* The robot of a world, between the policy that gives it an action for    *)
(* every decision and the physics that moves it in substeps: actions wait  *)
(* for their delay, the gear is held after every change, a collision       *)
(* blocks the way forward, and a sensor measures with a period and a       *)
(* latency.  Where the robot is, and whether it touches something there,   *)
(* is a choice of the world; its steering is left out.                     *)
(*                                                                         *)
(* Times are in physics substeps.  A time of the code that lies in the     *)
(* future is how far off it is, one in the past is an age.                 *)
(***************************************************************************)
EXTENDS Integers, Sequences

CONSTANTS
  K,              \* substeps of a decision
  Configs,        \* what is tried of action_delay_s, of gear_hold_time_s, and
                  \* of a sensor's period and latency_s
  MaxFwd, MaxRev, \* caps_fwd.max_speed, caps_rev.max_speed
  AccFwd, DecFwd, AccRev, DecRev  \* the limits of the speed's change

ASSUME RobotAssumption ==
  /\ {K, MaxFwd, MaxRev, AccFwd, DecFwd, AccRev, DecRev} \subseteq Nat \ {0}
  /\ Configs \subseteq [delay : Nat, hold : Nat, period : Nat \ {0}, latency : Nat]

VARIABLES
  config,   \* one of Configs
  k,        \* substeps left of the decision, 0 between two decisions
  delayed,  \* delayed_actions_, earliest first: the command and its age
  cmd,      \* current_cmd_ and its age
  speed,    \* state_.speed
  gear,     \* reverse_gear_
  hold,     \* gear_hold_remaining_s_
  shifted,  \* history: substeps since the gear changed
  collided, \* last_update_info_.is_collided
  since,    \* time_since_last_update_
  pending,  \* the pending cloud: its age, and the time until it is ready
  cloud,    \* the cached cloud: its age, or Never
  seen,     \* the observation: the gear and the hold
  time      \* history: substeps since the reset

actuation == <<delayed, cmd>>
motion    == <<speed, gear, hold, shifted>>
sensor    == <<since, pending, cloud>>
robotVars == <<config, k, actuation, motion, collided, sensor, seen, time>>

Max2(a, b) == IF a > b THEN a ELSE b
Clamp(x, lo, hi) == IF x < lo THEN lo ELSE IF x > hi THEN hi ELSE x
Abs(x) == IF x < 0 THEN -x ELSE x

Never   == -1
NoCloud == [age |-> Never, wait |-> 0]

\* A command is a speed, negative in reverse; scale_normalized_action() gives
\* it the range of its direction, and asks for reverse only below zero.
Commands == -MaxRev .. MaxFwd
Standing == [v |-> 0, age |-> Never]   \* before the first action

\* Ages are counted no further than they matter.
MaxAge   == K + config.delay + config.period + config.latency + 1
Older(a) == IF a = Never \/ a > MaxAge THEN a ELSE a + 1

-----------------------------------------------------------------------------
(* A new world, and with it a new robot, for every episode.                *)

RobotInit ==
  /\ config \in Configs /\ k = 0
  /\ delayed = <<>> /\ cmd = Standing
  /\ speed = 0 /\ gear = FALSE /\ hold = 0 /\ shifted = Never
  /\ collided = FALSE
  /\ since = 0 /\ pending = NoCloud /\ cloud = Never
  /\ seen = [reverse |-> FALSE, hold |-> 0] /\ time = 0

Reset ==
  /\ k = 0 /\ UNCHANGED <<config, k>>
  /\ delayed' = <<>> /\ cmd' = Standing
  /\ speed' = 0 /\ gear' = FALSE /\ hold' = 0 /\ shifted' = Never
  /\ collided' = FALSE
  /\ since' = 0 /\ pending' = NoCloud /\ cloud' = Never
  /\ seen' = [reverse |-> FALSE, hold |-> 0] /\ time' = 0

-----------------------------------------------------------------------------
(* Simulator::step().                                                      *)

\* Mutant of SetAction: an action replaces those that are still waiting.
SetAction_Replaces(v) == delayed' = <<[v |-> v, age |-> 0]>>

\* set_action().  The delay is the same for all, so the queue stays sorted.
SetAction(v) == delayed' = Append(delayed, [v |-> v, age |-> 0])

\* apply_action_if_requested(); the substeps follow.
Decide ==
  /\ k = 0
  /\ \E v \in Commands : SetAction(v)
  /\ k' = K
  /\ UNCHANGED <<config, cmd, motion, collided, sensor, seen, time>>

\* process_delayed_actions(): those that are due are taken one by one, and the
\* last of them stays in force.
Aged    == [i \in DOMAIN delayed |-> [delayed[i] EXCEPT !.age = Older(@)]]
Due(i)  == Aged[i].age >= config.delay
Taken   == CHOOSE n \in 0 .. Len(delayed) : /\ \A i \in 1 .. n : Due(i)
                                            /\ n < Len(delayed) => ~ Due(n + 1)
Waiting == SubSeq(Aged, Taken + 1, Len(Aged))
InForce == IF Taken = 0 THEN [cmd EXCEPT !.age = Older(@)] ELSE Aged[Taken]

\* Mutant of Effective: nothing is blocked.
Effective_Goes(v) == v

\* In a collision only the way back is open.  The gear of the command counts,
\* not the one that is engaged.
Effective(v) == IF collided /\ v > 0 THEN 0 ELSE v

\* apply_speed_command(): what is left of the hold, the gear, and the speed.
HoldLeft == Max2(0, hold - 1)

\* Mutant of Shifts: a hold keeps only a moving robot in its gear.
Shifts_Standing(v) == v # 0 /\ (v < 0) # gear /\ (HoldLeft = 0 \/ speed = 0)
Shifts(v) == v # 0 /\ (v < 0) # gear /\ HoldLeft = 0

NewGear(v) == IF Shifts(v) THEN ~ gear ELSE gear

NewSpeed(v) ==
  LET wanted == IF NewGear(v) THEN -Abs(v) ELSE Abs(v)
      target == Clamp(wanted, -MaxRev, MaxFwd)
      up     == IF speed >= 0 THEN AccFwd ELSE DecRev
      down   == IF speed >= 0 THEN DecFwd ELSE AccRev
  IN Clamp(speed + Clamp(target - speed, -down, up), -MaxRev, MaxFwd)

\* SensorBase::should_update(): a cloud whose latency is over is handed out ...
Ready == pending # NoCloud /\ pending.wait <= 1

\* ... and when the period is over a new one is measured.  One that is still
\* pending is written over, and its latency begins anew.
Measures == since + 1 >= config.period

\* Mutant of NewPending: nothing is measured while a cloud is pending.
NewPending_Waits ==
  IF pending # NoCloud /\ ~ Ready THEN [age |-> Older(pending.age), wait |-> pending.wait - 1]
  ELSE IF Measures THEN [age |-> 0, wait |-> config.latency] ELSE NoCloud

NewPending ==
  IF Measures THEN [age |-> 0, wait |-> config.latency]
  ELSE IF Ready \/ pending = NoCloud THEN NoCloud
  ELSE [age |-> Older(pending.age), wait |-> pending.wait - 1]

Sense ==
  /\ cloud' = IF Ready THEN Older(pending.age) ELSE Older(cloud)
  /\ since' = IF Measures THEN 0 ELSE since + 1
  /\ pending' = NewPending

\* World::update() of the robot: the action, the motion, the sensor, and at
\* last the collisions.
Substep ==
  /\ k > 0 /\ k' = k - 1
  /\ delayed' = Waiting /\ cmd' = InForce
  /\ LET v == Effective(cmd'.v) IN
       /\ speed' = NewSpeed(v) /\ gear' = NewGear(v)
       /\ hold' = IF Shifts(v) THEN config.hold ELSE HoldLeft
       /\ shifted' = IF Shifts(v) THEN 0 ELSE IF shifted >= config.hold THEN shifted
                     ELSE IF shifted = Never THEN Never ELSE shifted + 1
  /\ Sense
  /\ collided' \in BOOLEAN
  \* build_observation() after the last one
  /\ seen' = IF k = 1 THEN [reverse |-> gear', hold |-> hold'] ELSE seen
  /\ time' = Older(time)
  /\ UNCHANGED config

RobotNext == Decide \/ Substep \/ Reset

RobotSpec == RobotInit /\ [][RobotNext]_robotVars

-----------------------------------------------------------------------------
(* Properties.                                                             *)

Ages == {Never} \cup Nat

\* Types of the variables.
RobotTypeOK ==
  /\ config \in Configs /\ k \in 0 .. K
  /\ delayed \in Seq([v : Commands, age : Nat]) /\ cmd \in [v : Commands, age : Ages]
  /\ speed \in Commands /\ gear \in BOOLEAN /\ hold \in 0 .. config.hold /\ shifted \in Ages
  /\ collided \in BOOLEAN
  /\ since \in 0 .. config.period - 1 /\ pending \in [age : Ages, wait : Nat] /\ cloud \in Ages
  /\ seen \in [reverse : BOOLEAN, hold : Nat] /\ time \in Nat

\* The command in force is the newest that is as old as the delay: every
\* decision has its turn for just as long as a decision takes, none is skipped
\* and none overstays, however many wait.  The variables keep their types.
ActionInForce ==
  /\ RobotTypeOK
  /\ LET d == Max2(config.delay, 1) IN
       /\ time >= d => cmd.age \in d .. d + K - 1
       /\ time < d => cmd = Standing
       /\ \A i \in DOMAIN delayed : delayed[i].age = (K - k) + (Len(delayed) - i) * K

\* A robot in a collision gains no speed forward, and backs out on command.
\* With one exception: it is told to back out while it is held in the forward
\* gear.  The command asks for reverse and is not blocked, and the gear turns it
\* into one to go ahead.
Backs(v) == v < 0
HeldForward == ~ gear /\ HoldLeft > 0
NoPushing ==
  [][k > 0 /\ collided =>
       /\ ~ (Backs(InForce.v) /\ HeldForward) => speed' <= Max2(speed, 0)
       /\ Backs(InForce.v) /\ ~ HeldForward /\ speed <= 0 /\ speed > InForce.v => speed' < speed]_robotVars

\* The gear never changes twice within the hold, and what an observation says
\* of the gear is so until the hold that it shows is over.
GearStays ==
  [][gear' # gear /\ k > 0 =>
       /\ shifted # Never => shifted + 1 >= config.hold
       /\ K - k + 1 >= seen.hold]_robotVars

\* Latest: the age a cloud has when it is handed out.  A sensor has a cloud as
\* soon as its first period and latency are over, and never one older than a
\* period and a latency; but one with a latency longer than its period, which
\* writes over what is pending, never has any.
Latest == Max2(config.latency, 1)
DataFresh ==
  IF config.latency <= config.period
  THEN time >= config.period + Latest => cloud \in Latest .. Latest + config.period - 1
  ELSE cloud = Never
=============================================================================
