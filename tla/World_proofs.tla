---------------------------- MODULE World_proofs ----------------------------
(* Proofs about what moves in a world: Robot, for every length of a         *)
(* decision, every delay, hold, period and latency, and Spawn, for any      *)
(* finite set of objects, any limits and any delays.                        *)
EXTENDS Robot, Spawn, SequenceTheorems, FiniteSetTheorems, TLAPS

-----------------------------------------------------------------------------
(* The invariants: what the two histories say of the variables.            *)

ConfigTypes ==
  /\ K \in Nat \ {0}
  /\ config.delay \in Nat /\ config.hold \in Nat
  /\ config.period \in Nat \ {0} /\ config.latency \in Nat

\* The hold and the time since the last change add up to a hold, and at least
\* what the observation says is left of it.
GearInv ==
  /\ hold \in Nat /\ shifted \in Nat \cup {Never}
  /\ seen.hold \in Nat
  /\ shifted = Never => hold = 0
  /\ shifted # Never => hold + shifted >= config.hold
  /\ IF k = 0 THEN hold >= seen.hold ELSE hold >= seen.hold - (K - k)

\* A pending cloud is as old as the last measurement, and has waited that long.
Awaited == [age |-> since, wait |-> config.latency - since]
SensorInv ==
  /\ since \in Nat /\ since < config.period /\ time \in Nat
  /\ pending \in {NoCloud, Awaited}
  /\ pending # NoCloud /\ config.latency <= config.period => since < Latest

\* The cached cloud is that of the last measurement, or of the one before it
\* while the last is pending.
CloudInv ==
  IF config.latency > config.period THEN cloud = Never
  ELSE IF pending # NoCloud
       THEN cloud = config.period + since \/ (cloud = Never /\ time = config.period + since)
       ELSE (cloud = since /\ since >= Latest) \/ (cloud = Never /\ time = since)

RobotInv == config \in Configs /\ k \in 0 .. K /\ GearInv /\ SensorInv /\ CloudInv

-----------------------------------------------------------------------------
(* Every step keeps them.                                                  *)

\* The configurations are times in substeps, and a sensor has a period.
LEMMA ConfigHasTypes ==
  ASSUME config \in Configs
  PROVE  ConfigTypes
BY RobotAssumption DEF RobotAssumption, ConfigTypes

\* The run starts with the gear free, no cloud, and the sensor due one period later.
LEMMA RobotInitInv == RobotInit => RobotInv
<1> SUFFICES ASSUME RobotInit PROVE RobotInv
  OBVIOUS
<1>1. ConfigTypes
  BY ConfigHasTypes DEF RobotInit
<1>2. GearInv
  BY <1>1 DEF RobotInit, GearInv, ConfigTypes, Never
<1>3. SensorInv /\ CloudInv
  BY <1>1 DEF RobotInit, SensorInv, CloudInv, ConfigTypes
<1> QED BY <1>1, <1>2, <1>3 DEF RobotInit, RobotInv, ConfigTypes

\* A reset is a new start.
LEMMA ResetInv == RobotInv /\ Reset => RobotInv'
<1> SUFFICES ASSUME RobotInv, Reset PROVE RobotInv'
  OBVIOUS
<1>1. ConfigTypes
  BY ConfigHasTypes DEF RobotInv
<1>2. GearInv'
  BY <1>1 DEF Reset, GearInv, ConfigTypes, Never
<1>3. SensorInv' /\ CloudInv'
  BY <1>1 DEF Reset, SensorInv, CloudInv, ConfigTypes
<1> QED BY <1>2, <1>3 DEF Reset, RobotInv

\* A decision touches neither the gear nor the sensor.
LEMMA DecideInv == RobotInv /\ Decide => RobotInv'
<1> SUFFICES ASSUME RobotInv, Decide PROVE RobotInv'
  OBVIOUS
<1>1. ConfigTypes
  BY ConfigHasTypes DEF RobotInv
<1>2. GearInv'
  BY <1>1 DEF RobotInv, Decide, GearInv, ConfigTypes, motion
<1>3. SensorInv'
  BY DEF RobotInv, Decide, SensorInv, sensor, Awaited, Latest
<1>4. CloudInv'
  BY DEF RobotInv, Decide, CloudInv, sensor, Latest
<1> QED BY <1>1, <1>2, <1>3, <1>4 DEF Decide, RobotInv, ConfigTypes

\* What a substep does to the gear and its hold.
LEMMA SubstepGear ==
  ASSUME RobotInv, Substep
  PROVE  GearInv'
<1>1. ConfigTypes /\ k \in 1 .. K /\ k' = k - 1 /\ config' = config
  BY ConfigHasTypes DEF RobotInv, Substep
<1>2. HoldLeft \in Nat /\ HoldLeft >= hold - 1 /\ (hold = 0 => HoldLeft = 0)
  BY DEF RobotInv, GearInv, HoldLeft, Max2
<1>3. PICK v : /\ hold' = IF Shifts(v) THEN config.hold ELSE HoldLeft
               /\ shifted' = IF Shifts(v) THEN 0 ELSE IF shifted >= config.hold THEN shifted
                             ELSE IF shifted = Never THEN Never ELSE shifted + 1
  BY DEF Substep
<1>4. Shifts(v) => HoldLeft = 0
  BY DEF Shifts
<1>5. seen'.hold \in Nat /\ seen'.hold = IF k = 1 THEN hold' ELSE seen.hold
  BY <1>1, <1>2, <1>3 DEF Substep, RobotInv, GearInv, ConfigTypes
<1>6. CASE Shifts(v)
  <2>1. hold' = config.hold /\ shifted' = 0
    BY <1>3, <1>6
  <2>2. k > 1 => hold' >= seen'.hold - (K - k')
    BY <1>1, <1>2, <1>4, <1>5, <1>6, <2>1 DEF RobotInv, GearInv, ConfigTypes
  <2> QED BY <1>1, <1>5, <2>1, <2>2 DEF GearInv, ConfigTypes, Never
<1>7. CASE ~ Shifts(v)
  <2>1. hold' = HoldLeft
    BY <1>3, <1>7
  <2>2. k > 1 => hold' >= seen'.hold - (K - k')
    BY <1>1, <1>2, <1>5, <2>1 DEF RobotInv, GearInv, ConfigTypes
  <2>3. /\ shifted' \in Nat \cup {Never}
        /\ shifted' = Never => hold' = 0
        /\ shifted' # Never => hold' + shifted' >= config.hold
    BY <1>1, <1>2, <1>3, <1>7, <2>1 DEF RobotInv, GearInv, ConfigTypes, Never
  <2> QED BY <1>1, <1>2, <1>5, <2>1, <2>2, <2>3 DEF GearInv, ConfigTypes
<1> QED BY <1>6, <1>7

\* A cloud is handed out exactly when it has waited for the latency.
LEMMA WhenReady ==
  ASSUME RobotInv, config.latency <= config.period
  PROVE  Ready <=> pending # NoCloud /\ since + 1 = Latest
BY ConfigHasTypes DEF RobotInv, SensorInv, Ready, Latest, Max2, Awaited, NoCloud, Never, ConfigTypes

\* And never when the latency is longer than the period.
LEMMA NeverReady ==
  ASSUME RobotInv, config.latency > config.period
  PROVE  ~ Ready
BY ConfigHasTypes DEF RobotInv, SensorInv, Ready, Awaited, NoCloud, Never, ConfigTypes

\* An age that still matters is counted on.
LEMMA OlderCounts ==
  ASSUME NEW a \in Nat, ConfigTypes, a <= config.period + config.latency
  PROVE  Older(a) = a + 1
BY DEF Older, MaxAge, Never, ConfigTypes

\* What a substep does to the measurement, the pending cloud and the cached one.
LEMMA SubstepSensor ==
  ASSUME RobotInv, Substep
  PROVE  SensorInv' /\ CloudInv'
<1> DEFINE P == config.period
           L == config.latency
<1>1. ConfigTypes /\ config' = config /\ Latest' = Latest /\ Latest \in Nat \ {0}
  BY ConfigHasTypes DEF RobotInv, Substep, Latest, Max2, ConfigTypes
<1>2. /\ since \in Nat /\ since < P /\ time \in Nat
      /\ pending \in {NoCloud, Awaited}
      /\ pending # NoCloud /\ L <= P => since < Latest
  BY DEF RobotInv, SensorInv
<1>3. /\ cloud' = IF Ready THEN Older(pending.age) ELSE Older(cloud)
      /\ since' = IF Measures THEN 0 ELSE since + 1
      /\ pending' = NewPending
      /\ time' = Older(time)
  BY DEF Substep, Sense
<1>4. since' \in Nat /\ since' < P /\ time' \in Nat
  BY <1>1, <1>2, <1>3 DEF ConfigTypes, Measures, Older
<1>5. Older(since) = since + 1
  BY <1>1, <1>2, OlderCounts DEF ConfigTypes
<1>6. pending' \in {NoCloud, Awaited'}
  <2>1. CASE Measures
    BY <1>1, <1>3, <2>1 DEF NewPending, Awaited, ConfigTypes
  <2>2. CASE ~ Measures /\ (Ready \/ pending = NoCloud)
    BY <1>3, <2>2 DEF NewPending
  <2>3. CASE ~ Measures /\ ~ Ready /\ pending # NoCloud
    <3>1. pending' = [age |-> since + 1, wait |-> (L - since) - 1]
      BY <1>2, <1>3, <1>5, <2>3 DEF NewPending, Awaited
    <3>2. (L - since) - 1 = L - (since + 1)
      BY <1>1, <1>2 DEF ConfigTypes
    <3> QED BY <1>1, <1>3, <2>3, <3>1, <3>2 DEF Awaited
  <2> QED BY <2>1, <2>2, <2>3
<1>7. pending' # NoCloud /\ L <= P => since' < Latest
  BY <1>1, <1>2, <1>3, WhenReady DEF NewPending, ConfigTypes
<1>8. SensorInv'
  BY <1>1, <1>4, <1>6, <1>7 DEF SensorInv
<1> SUFFICES CloudInv'
  BY <1>8
<1>9. CASE L > P
  BY <1>1, <1>3, <1>9, NeverReady DEF RobotInv, CloudInv, Older
<1>10. CASE L <= P
  <2>0. Latest <= P /\ Latest <= L + 1
    BY <1>1, <1>10 DEF Latest, Max2, ConfigTypes
  <2>1. Ready <=> pending # NoCloud /\ since + 1 = Latest
    BY <1>10, WhenReady
  <2>2. pending' # NoCloud <=> Measures \/ (pending # NoCloud /\ ~ Ready)
    <3>1. Awaited.age >= 0 /\ Awaited # NoCloud
      BY <1>2 DEF Awaited, NoCloud, Never
    <3>2. [age |-> 0, wait |-> L] # NoCloud
      BY DEF NoCloud, Never
    <3>3. [age |-> since + 1, wait |-> pending.wait - 1] # NoCloud
      BY <1>2 DEF NoCloud, Never
    <3>4. pending # NoCloud => Older(pending.age) = since + 1
      BY <1>2, <1>5 DEF Awaited
    <3> QED BY <1>3, <3>2, <3>3, <3>4 DEF NewPending
  <2>3. CASE pending # NoCloud
    <3>1. since < Latest /\ (cloud = P + since \/ (cloud = Never /\ time = P + since))
      BY <1>1, <1>2, <1>10, <2>3 DEF RobotInv, CloudInv, ConfigTypes
    <3>2. Older(P + since) = P + since + 1
      <4>1. P + since \in Nat /\ P + since <= P + L
        BY <1>1, <1>2, <2>0, <3>1 DEF ConfigTypes
      <4> QED BY <1>1, <4>1, OlderCounts
    <3>3. CASE Ready
      <4>1. cloud' = since + 1
        BY <1>2, <1>3, <1>5, <2>3, <3>3 DEF Awaited
      <4>2. CASE Measures
        BY <1>1, <1>2, <1>3, <1>10, <2>1, <2>2, <3>3, <4>1, <4>2, <2>0 DEF CloudInv, Measures, ConfigTypes
      <4>3. CASE ~ Measures
        BY <1>1, <1>2, <1>3, <1>10, <2>1, <2>2, <3>3, <4>1, <4>3 DEF CloudInv, ConfigTypes
      <4> QED BY <4>2, <4>3
    <3>4. CASE ~ Ready
      <4>1. since + 1 < Latest /\ ~ Measures
        BY <1>1, <1>2, <2>0, <2>1, <2>3, <3>1, <3>4 DEF Measures, ConfigTypes
      <4>2. Older(Never) = Never
        BY DEF Older
      <4>3. cloud' = P + since' \/ (cloud' = Never /\ time' = P + since')
        BY <1>1, <1>2, <1>3, <3>1, <3>2, <3>4, <4>1, <4>2 DEF ConfigTypes
      <4>4. pending' # NoCloud
        BY <2>2, <2>3, <3>4
      <4> QED BY <1>1, <1>10, <4>3, <4>4 DEF CloudInv, ConfigTypes
    <3> QED BY <3>3, <3>4
  <2>4. CASE pending = NoCloud
    <3>1. (cloud = since /\ since >= Latest) \/ (cloud = Never /\ time = since)
      BY <1>1, <1>10, <2>4 DEF RobotInv, CloudInv, ConfigTypes
    <3>2. ~ Ready /\ Older(Never) = Never
      BY <2>4 DEF Ready, Older
    <3>3. (cloud' = since + 1 /\ since + 1 >= Latest) \/ (cloud' = Never /\ time' = since + 1)
      BY <1>1, <1>2, <1>3, <1>5, <3>1, <3>2 DEF ConfigTypes
    <3>4. CASE Measures
      BY <1>1, <1>2, <1>3, <1>10, <2>2, <3>3, <3>4 DEF CloudInv, Measures, ConfigTypes
    <3>5. CASE ~ Measures
      BY <1>1, <1>2, <1>3, <1>10, <2>2, <2>4, <3>3, <3>5 DEF CloudInv, ConfigTypes
    <3> QED BY <3>4, <3>5
  <2> QED BY <2>3, <2>4
<1> QED BY <1>1, <1>2, <1>8, <1>9, <1>10 DEF ConfigTypes

\* A substep keeps the invariants of both.
LEMMA SubstepInv == RobotInv /\ Substep => RobotInv'
<1> SUFFICES ASSUME RobotInv, Substep PROVE RobotInv'
  OBVIOUS
<1>1. config' \in Configs /\ k' \in 0 .. K
  BY ConfigHasTypes DEF RobotInv, Substep, ConfigTypes
<1> QED BY <1>1, SubstepGear, SubstepSensor DEF RobotInv

\* A step that changes nothing keeps them.
LEMMA StutterInv == RobotInv /\ UNCHANGED robotVars => RobotInv'
BY DEF RobotInv, GearInv, SensorInv, CloudInv, Awaited, Latest, robotVars, motion, sensor

\* They always hold.
THEOREM RobotInvariance == RobotSpec => []RobotInv
<1>1. RobotInv /\ [RobotNext]_robotVars => RobotInv'
  BY DecideInv, SubstepInv, ResetInv, StutterInv DEF RobotNext
<1> QED BY <1>1, RobotInitInv, PTL DEF RobotSpec

-----------------------------------------------------------------------------
(* The theorems.                                                           *)

\* The gear never changes twice within the hold, nor before the hold that the
\* last observation shows is over, whatever the actions, the collisions and
\* their delays are: AckermannModel::apply_speed_command().
THEOREM TheGearStays == RobotSpec => GearStays
<1>1. RobotInv /\ [RobotNext]_robotVars =>
        [gear' # gear /\ k > 0 =>
           /\ shifted # Never => shifted + 1 >= config.hold
           /\ K - k + 1 >= seen.hold]_robotVars
  <2> SUFFICES ASSUME RobotInv, RobotNext, gear' # gear, k > 0
               PROVE  /\ shifted # Never => shifted + 1 >= config.hold
                      /\ K - k + 1 >= seen.hold
    OBVIOUS
  <2>1. Substep
    BY DEF RobotNext, Decide, Reset, motion
  <2>2. PICK v : gear' = NewGear(v)
    BY <2>1 DEF Substep
  <2>3. HoldLeft = 0
    BY <2>2 DEF NewGear, Shifts
  <2>4. hold <= 1
    BY <2>3 DEF HoldLeft, Max2, RobotInv, GearInv
  <2>5. ConfigTypes
    BY ConfigHasTypes DEF RobotInv
  <2> QED BY <2>4, <2>5 DEF RobotInv, GearInv, ConfigTypes
<1> QED BY <1>1, RobotInvariance, PTL DEF RobotSpec, GearStays

\* A sensor whose latency is no longer than its period has a cloud as soon as
\* both are over, never older than both together; one with a longer latency
\* never has any: SensorBase::should_update() and set_pending_data().
THEOREM DataIsFresh == RobotSpec => []DataFresh
<1>1. RobotInv => DataFresh
  <2> SUFFICES ASSUME RobotInv PROVE DataFresh
    OBVIOUS
  <2>1. ConfigTypes /\ Latest \in Nat \ {0}
    BY ConfigHasTypes DEF RobotInv, Latest, Max2, ConfigTypes
  <2>2. CASE config.latency > config.period
    BY <2>1, <2>2 DEF RobotInv, CloudInv, DataFresh, ConfigTypes
  <2>3. CASE config.latency <= config.period
    <3>1. Latest <= config.period
      BY <2>1, <2>3 DEF Latest, Max2, ConfigTypes
    <3> QED BY <2>1, <2>3, <3>1 DEF RobotInv, SensorInv, CloudInv, DataFresh, ConfigTypes
  <2> QED BY <2>1, <2>2, <2>3 DEF ConfigTypes
<1> QED BY <1>1, RobotInvariance, PTL

-----------------------------------------------------------------------------
(* The actions.                                                            *)

Items == [v : Commands, age : Nat]
D     == Max2(config.delay, 1)

\* The actions that wait follow each other at the distance of a decision, the
\* one in force is next to the first of them, and the delay lies between.
DelayInv ==
  /\ delayed \in Seq(Items) /\ cmd \in [v : Commands, age : Ages]
  /\ \A i \in 1 .. Len(delayed) :
       delayed[i].age = (K - k) + (Len(delayed) - i) * K /\ delayed[i].age < D
  /\ cmd.age = Never =>
       /\ cmd = Standing
       /\ IF Len(delayed) = 0 THEN time = 0 /\ k = 0 ELSE time = delayed[1].age
  /\ cmd.age # Never =>
       /\ cmd.age = (K - k) + Len(delayed) * K /\ cmd.age >= D
       /\ time >= D

MotionInv ==
  /\ speed \in Commands /\ gear \in BOOLEAN /\ hold <= config.hold /\ collided \in BOOLEAN
  /\ seen \in [reverse : BOOLEAN, hold : Nat]

ActionInv == RobotInv /\ DelayInv /\ MotionInv

\* The speed and acceleration limits are positive.
LEMMA Caps ==
  /\ MaxFwd \in Nat \ {0} /\ MaxRev \in Nat \ {0} /\ AccFwd \in Nat \ {0}
  /\ DecFwd \in Nat \ {0} /\ AccRev \in Nat \ {0} /\ DecRev \in Nat \ {0}
BY RobotAssumption DEF RobotAssumption

\* The delay in force is the configured one, but never less than one substep,
\* and the ages are counted far enough to see it.
LEMMA DelayTypes ==
  ASSUME RobotInv
  PROVE  /\ ConfigTypes /\ D \in Nat \ {0} /\ D >= config.delay
         /\ config.delay > 0 => D = config.delay
         /\ config.delay = 0 => D = 1
         /\ D + K <= MaxAge /\ MaxAge \in Nat
         /\ k \in 0 .. K
BY ConfigHasTypes DEF RobotInv, D, Max2, MaxAge, ConfigTypes

\* The oldest that waits: all others are a decision or more younger.
LEMMA First ==
  ASSUME ActionInv, Len(delayed) > 0
  PROVE  /\ delayed[1] \in Items /\ delayed[1].age \in Nat /\ delayed[1].age < D
         /\ delayed[1].age = (K - k) + (Len(delayed) - 1) * K
         /\ \A i \in 2 .. Len(delayed) : delayed[i].age <= delayed[1].age - K
<1>1. ConfigTypes /\ k \in 0 .. K /\ delayed \in Seq(Items) /\ Len(delayed) \in Nat
  BY DelayTypes, LenProperties DEF ActionInv, DelayInv
<1>2. 1 \in 1 .. Len(delayed)
  BY <1>1
<1>3. delayed[1] \in Items /\ delayed[1].age \in Nat
  <2>1. delayed[1] \in Items
    BY <1>1, <1>2, ElementOfSeq
  <2> QED BY <2>1 DEF Items
<1>4. \A i \in 1 .. Len(delayed) :
        delayed[i].age = (K - k) + (Len(delayed) - i) * K /\ delayed[i].age < D
  BY DEF ActionInv, DelayInv
<1>5. ASSUME NEW i \in 2 .. Len(delayed) PROVE delayed[i].age <= delayed[1].age - K
  <2>1. i \in 1 .. Len(delayed)
    BY <1>1
  <2>2. (Len(delayed) - i) * K + (i - 1) * K = (Len(delayed) - 1) * K
    BY <1>1 DEF ConfigTypes
  <2>3. (i - 1) * K >= K
    BY <1>1 DEF ConfigTypes
  <2>4. (Len(delayed) - i) * K \in Int /\ (i - 1) * K \in Int /\ (Len(delayed) - 1) * K \in Int
    BY <1>1 DEF ConfigTypes
  <2>5. /\ delayed[i].age = (K - k) + (Len(delayed) - i) * K
        /\ delayed[1].age = (K - k) + (Len(delayed) - 1) * K
    BY <1>2, <1>4, <2>1
  <2> DEFINE a == (Len(delayed) - i) * K
             b == (i - 1) * K
             c == (Len(delayed) - 1) * K
  <2>6. /\ a \in Int /\ b \in Int /\ c \in Int /\ a + b = c /\ b >= K
        /\ delayed[i].age = (K - k) + a /\ delayed[1].age = (K - k) + c
    BY <2>2, <2>3, <2>4, <2>5
  <2> HIDE DEF a, b, c
  <2> QED BY <1>1, <2>6 DEF ConfigTypes
<1> QED BY <1>2, <1>3, <1>4, <1>5

\* The ages after a substep.
LEMMA AgedItems ==
  ASSUME ActionInv
  PROVE  /\ Aged \in Seq(Items) /\ Len(Aged) = Len(delayed)
         /\ \A i \in 1 .. Len(delayed) : Aged[i].age = delayed[i].age + 1
<1>1. ConfigTypes /\ delayed \in Seq(Items) /\ Len(delayed) \in Nat /\ DOMAIN delayed = 1 .. Len(delayed)
  BY DelayTypes, LenProperties DEF ActionInv, DelayInv
<1>2. ASSUME NEW i \in 1 .. Len(delayed)
      PROVE  Aged[i] \in Items /\ Aged[i].age = delayed[i].age + 1
  <2>1. delayed[i] \in Items
    BY <1>1, ElementOfSeq
  <2>2. delayed[i].age \in Nat /\ delayed[i].age < D
    BY <2>1 DEF Items, ActionInv, DelayInv
  <2>3. Older(delayed[i].age) = delayed[i].age + 1
    BY <2>2, DelayTypes DEF Older, Never, ActionInv, ConfigTypes
  <2>4. Aged[i] = [delayed[i] EXCEPT !.age = Older(@)]
    BY <1>1 DEF Aged
  <2>5. Aged[i] = [v |-> delayed[i].v, age |-> delayed[i].age + 1]
    BY <2>1, <2>3, <2>4 DEF Items
  <2> QED BY <2>1, <2>2, <2>5 DEF Items
<1>3. Aged \in [1 .. Len(delayed) -> Items]
  BY <1>1, <1>2 DEF Aged
<1>4. Aged \in Seq(Items)
  BY <1>1, <1>3, SeqDef
<1>5. DOMAIN Aged = 1 .. Len(Aged) /\ Len(Aged) \in Nat /\ DOMAIN Aged = 1 .. Len(delayed)
  BY <1>3, <1>4, LenProperties
<1>6. Len(Aged) = Len(delayed)
  <2> DEFINE m == Len(Aged)
             n == Len(delayed)
  <2>1. m \in Nat /\ n \in Nat /\ \A i \in Nat : i \in 1 .. m <=> i \in 1 .. n
    BY <1>1, <1>5
  <2> HIDE DEF m, n
  <2>2. m \in 1 .. m <=> m \in 1 .. n
    BY <2>1
  <2>3. n \in 1 .. m <=> n \in 1 .. n
    BY <2>1
  <2>4. m = n
    BY <2>1, <2>2, <2>3
  <2> QED BY <2>4 DEF m, n
<1>7. \A i \in 1 .. Len(delayed) : Aged[i].age = delayed[i].age + 1
  BY <1>2
<1> QED BY <1>4, <1>6, <1>7

\* At most one action is taken: the oldest.
LEMMA TakesOne ==
  ASSUME ActionInv
  PROVE  Taken = IF Len(delayed) > 0 /\ Due(1) THEN 1 ELSE 0
<1>1. ConfigTypes /\ Len(delayed) \in Nat
  BY DelayTypes, LenProperties DEF ActionInv, DelayInv
<1>2. ASSUME Len(delayed) > 1 PROVE ~ Due(2)
  <2>1. 1 \in 1 .. Len(delayed) /\ 2 \in 1 .. Len(delayed) /\ 2 \in 2 .. Len(delayed)
    BY <1>1, <1>2
  <2>2. /\ delayed[1].age \in Nat /\ delayed[1].age < D
        /\ delayed[2].age <= delayed[1].age - K /\ delayed[2].age \in Nat
    <3>1. delayed[2] \in Items
      BY <2>1, ElementOfSeq DEF ActionInv, DelayInv
    <3> QED BY <1>2, <2>1, <3>1, First DEF Items
  <2>3. Aged[2].age = delayed[2].age + 1
    BY <2>1, AgedItems
  <2> QED BY <2>2, <2>3, DelayTypes DEF Due, ActionInv, ConfigTypes
<1> DEFINE Is(n) == /\ \A i \in 1 .. n : Due(i)
                    /\ n < Len(delayed) => ~ Due(n + 1)
<1>3. CASE Len(delayed) > 0 /\ Due(1)
  <2>1. 1 \in 0 .. Len(delayed) /\ Is(1)
    BY <1>1, <1>2, <1>3
  <2>2. ASSUME NEW n \in 0 .. Len(delayed), Is(n) PROVE n = 1
    <3>1. n # 0
      BY <1>3, <2>2
    <3>2. ~ (n > 1)
      <4>1. SUFFICES ASSUME n > 1 PROVE FALSE
        OBVIOUS
      <4>2. 2 \in 1 .. n /\ Len(delayed) > 1
        BY <1>1, <4>1
      <4> QED BY <1>2, <2>2, <4>2
    <3> QED BY <1>1, <3>1, <3>2
  <2>3. Taken = CHOOSE n \in 0 .. Len(delayed) : Is(n)
    BY DEF Taken
  <2> HIDE DEF Is
  <2>4. Taken \in 0 .. Len(delayed) /\ Is(Taken)
    BY <2>1, <2>3
  <2> QED BY <1>3, <2>2, <2>4
<1>4. CASE ~ (Len(delayed) > 0 /\ Due(1))
  <2>1. 0 \in 0 .. Len(delayed) /\ Is(0)
    BY <1>1, <1>4
  <2>2. ASSUME NEW n \in 0 .. Len(delayed), Is(n) PROVE n = 0
    <3>1. SUFFICES ASSUME n > 0 PROVE FALSE
      BY <1>1
    <3>2. 1 \in 1 .. n /\ Len(delayed) > 0
      BY <1>1, <3>1
    <3> QED BY <1>4, <2>2, <3>2
  <2>3. Taken = CHOOSE n \in 0 .. Len(delayed) : Is(n)
    BY DEF Taken
  <2> HIDE DEF Is
  <2>4. Taken \in 0 .. Len(delayed) /\ Is(Taken)
    BY <2>1, <2>3
  <2> QED BY <1>4, <2>2, <2>4
<1> QED BY <1>3, <1>4

\* A run starts with no action.
LEMMA InitQueue == RobotInit => DelayInv /\ MotionInv
<1> SUFFICES ASSUME RobotInit PROVE DelayInv /\ MotionInv
  OBVIOUS
<1>1. 0 \in Commands
  BY Caps DEF Commands
<1>2. delayed \in Seq(Items) /\ Len(delayed) = 0 /\ 1 .. Len(delayed) = {}
  BY DEF RobotInit
<1>3. cmd \in [v : Commands, age : Ages] /\ cmd.age = Never
  BY <1>1 DEF RobotInit, Standing, Ages, Never
<1>4. DelayInv
  BY <1>2, <1>3 DEF RobotInit, DelayInv
<1>5. MotionInv
  <2>1. hold <= config.hold
    BY ConfigHasTypes DEF RobotInit, ConfigTypes
  <2>2. seen \in [reverse : BOOLEAN, hold : Nat]
    BY DEF RobotInit
  <2> QED BY <1>1, <2>1, <2>2 DEF RobotInit, MotionInv
<1> QED BY <1>4, <1>5

\* A reset forgets every action.
LEMMA ResetQueue ==
  ASSUME ActionInv, Reset
  PROVE  DelayInv' /\ MotionInv'
<1>1. 0 \in Commands
  BY Caps DEF Commands
<1>2. delayed' \in Seq(Items) /\ Len(delayed') = 0 /\ 1 .. Len(delayed') = {}
  BY DEF Reset
<1>3. cmd' \in [v : Commands, age : Ages] /\ cmd'.age = Never
  BY <1>1 DEF Reset, Standing, Ages, Never
<1>4. DelayInv'
  BY <1>2, <1>3 DEF Reset, DelayInv
<1>5. MotionInv'
  <2>1. hold' <= config'.hold
    BY ConfigHasTypes DEF Reset, ConfigTypes, ActionInv, RobotInv
  <2>2. seen' \in [reverse : BOOLEAN, hold : Nat]
    BY DEF Reset
  <2> QED BY <1>1, <2>1, <2>2 DEF Reset, MotionInv
<1> QED BY <1>4, <1>5

\* A decision puts its action at the end.
LEMMA DecideQueue ==
  ASSUME ActionInv, Decide
  PROVE  DelayInv' /\ MotionInv'
<1>1. ConfigTypes /\ delayed \in Seq(Items) /\ Len(delayed) \in Nat /\ k = 0 /\ k' = K /\ D' = D /\ D \in Nat \ {0}
  BY DelayTypes, LenProperties DEF ActionInv, DelayInv, Decide, D
<1>2. PICK v \in Commands : delayed' = Append(delayed, [v |-> v, age |-> 0])
  BY DEF Decide, SetAction
<1>3. [v |-> v, age |-> 0] \in Items
  BY DEF Items
<1>4. /\ delayed' \in Seq(Items) /\ Len(delayed') = Len(delayed) + 1
      /\ \A i \in 1 .. Len(delayed) : delayed'[i] = delayed[i]
      /\ delayed'[Len(delayed) + 1] = [v |-> v, age |-> 0]
  BY <1>1, <1>2, <1>3, AppendProperties
<1>5. ASSUME NEW i \in 1 .. Len(delayed')
      PROVE  delayed'[i].age = (K - k') + (Len(delayed') - i) * K /\ delayed'[i].age < D'
  <2>1. CASE i = Len(delayed) + 1
    <3>1. delayed'[i].age = 0
      BY <1>4, <2>1
    <3>2. (Len(delayed') - i) * K = 0
      BY <1>1, <1>4, <2>1 DEF ConfigTypes
    <3> QED BY <1>1, <3>1, <3>2 DEF ConfigTypes
  <2>2. CASE i # Len(delayed) + 1
    <3>1. i \in 1 .. Len(delayed)
      BY <1>1, <1>4, <2>2
    <3>2. delayed'[i].age = (K - k) + (Len(delayed) - i) * K /\ delayed'[i].age < D
      BY <1>4, <3>1 DEF ActionInv, DelayInv
    <3>3. (K - k) + (Len(delayed) - i) * K = (K - k') + (Len(delayed') - i) * K
      BY <1>1, <1>4, <3>1 DEF ConfigTypes
    <3> QED BY <1>1, <3>2, <3>3
  <2> QED BY <2>1, <2>2
<1>6. cmd' = cmd /\ time' = time
  BY DEF Decide
<1>7. ASSUME cmd.age = Never
      PROVE  /\ cmd = Standing /\ Len(delayed') # 0
             /\ time = delayed'[1].age
  <2>1. CASE Len(delayed) = 0
    <3>1. delayed'[1].age = 0
      BY <1>4, <2>1
    <3> QED BY <1>1, <1>4, <1>7, <2>1, <3>1 DEF ActionInv, DelayInv
  <2>2. CASE Len(delayed) # 0
    <3>1. 1 \in 1 .. Len(delayed)
      BY <1>1, <2>2
    <3>2. delayed'[1].age = delayed[1].age
      BY <1>4, <3>1
    <3> QED BY <1>1, <1>4, <1>7, <2>2, <3>2 DEF ActionInv, DelayInv
  <2> QED BY <2>1, <2>2
<1>8. ASSUME cmd.age # Never
      PROVE  cmd.age = (K - k') + Len(delayed') * K /\ cmd.age >= D /\ time >= D
  <2>1. cmd.age = (K - k) + Len(delayed) * K /\ cmd.age >= D /\ time >= D
    BY <1>8 DEF ActionInv, DelayInv
  <2>2. (K - k) + Len(delayed) * K = (K - k') + Len(delayed') * K
    BY <1>1, <1>4 DEF ConfigTypes
  <2> QED BY <2>1, <2>2
<1>9. DelayInv'
  <2>1. cmd \in [v : Commands, age : Ages]
    BY DEF ActionInv, DelayInv
  <2> QED BY <1>1, <1>4, <1>5, <1>6, <1>7, <1>8, <2>1 DEF DelayInv
<1>10. MotionInv'
  BY DEF Decide, MotionInv, ActionInv, motion
<1> QED BY <1>9, <1>10

\* Two ages that are still counted after a substep.
LEMMA ForceCounts ==
  ASSUME ActionInv, cmd.age # Never
  PROVE  /\ cmd.age \in Nat /\ cmd.age <= D + K - 1
         /\ Older(cmd.age) = cmd.age + 1 \/ cmd.age = D + K - 1
<1>1. /\ ConfigTypes /\ Len(delayed) \in Nat /\ k \in 0 .. K /\ D \in Nat \ {0}
      /\ cmd.age = (K - k) + Len(delayed) * K /\ D + K <= MaxAge /\ MaxAge \in Nat
  BY DelayTypes, LenProperties DEF ActionInv, DelayInv
<1>2. cmd.age \in Nat /\ cmd.age <= D + K - 1
  <2>1. CASE Len(delayed) = 0
    <3>1. Len(delayed) * K = 0
      BY <2>1, <1>1 DEF ConfigTypes
    <3> QED BY <1>1, <3>1 DEF ConfigTypes
  <2>2. CASE Len(delayed) > 0
    <3>1. /\ delayed[1].age \in Nat /\ delayed[1].age < D
          /\ delayed[1].age = (K - k) + (Len(delayed) - 1) * K
      BY <2>2, First
    <3>2. cmd.age = delayed[1].age + K
      BY <1>1, <3>1 DEF ConfigTypes
    <3> QED BY <1>1, <3>1, <3>2 DEF ConfigTypes
  <2> QED BY <1>1, <2>1, <2>2
<1>3. Older(cmd.age) = cmd.age + 1
  BY <1>1, <1>2 DEF Older, Never, ConfigTypes
<1> QED BY <1>2, <1>3

\* A substep takes the oldest action when it has waited for the delay, and
\* leaves the others as they are.
LEMMA SubstepQueue ==
  ASSUME ActionInv, Substep
  PROVE  DelayInv' /\ InForce.v \in Commands
<1> DEFINE n == Len(delayed)
<1>1. /\ ConfigTypes /\ k \in 1 .. K /\ k' = k - 1 /\ n \in Nat
      /\ D' = D /\ D \in Nat \ {0} /\ D >= config.delay
      /\ config.delay > 0 => D = config.delay
      /\ config.delay = 0 => D = 1
      /\ D + K <= MaxAge /\ MaxAge \in Nat
  BY DelayTypes, LenProperties DEF ActionInv, DelayInv, Substep, D, Max2
<1>2. Aged \in Seq(Items) /\ Len(Aged) = n /\ \A i \in 1 .. n : Aged[i].age = delayed[i].age + 1
  BY AgedItems
<1>3. \A i \in 1 .. n : /\ Aged[i] \in Items
                        /\ Aged[i].age = (K - k') + (n - i) * K
                        /\ Aged[i].age <= D
  <2> SUFFICES ASSUME NEW i \in 1 .. n
               PROVE  Aged[i] \in Items /\ Aged[i].age = (K - k') + (n - i) * K /\ Aged[i].age <= D
    OBVIOUS
  <2>1. Aged[i] \in Items
    BY <1>2, ElementOfSeq
  <2>2. delayed[i].age = (K - k) + (n - i) * K /\ delayed[i].age < D /\ delayed[i].age \in Nat
    <3>1. delayed[i] \in Items
      BY ElementOfSeq DEF ActionInv, DelayInv
    <3> QED BY <3>1 DEF ActionInv, DelayInv, Items
  <2> DEFINE a == (n - i) * K
  <2>3. a \in Int
    BY <1>1 DEF ConfigTypes
  <2>4. delayed[i].age = (K - k) + a /\ Aged[i].age = delayed[i].age + 1
    BY <1>2, <2>2
  <2> HIDE DEF a
  <2>5. Aged[i].age = (K - k') + a /\ Aged[i].age <= D
    BY <1>1, <2>2, <2>3, <2>4 DEF ConfigTypes
  <2> QED BY <2>1, <2>5 DEF a
<1>4. delayed' = SubSeq(Aged, Taken + 1, n) /\ cmd' = InForce /\ time' = Older(time)
  BY <1>2 DEF Substep, Waiting
<1>5. cmd \in [v : Commands, age : Ages]
  BY DEF ActionInv, DelayInv
<1>6. CASE n > 0 /\ Due(1)
  <2>1. Taken = 1 /\ 1 \in 1 .. n
    BY <1>1, <1>6, TakesOne
  <2>2. cmd' = Aged[1] /\ cmd' \in Items
    BY <1>3, <1>4, <2>1 DEF InForce
  <2>3. cmd'.age \in Nat /\ cmd'.age = D
    <3>1. delayed[1].age \in Nat /\ delayed[1].age < D /\ Aged[1].age = delayed[1].age + 1
      BY <1>2, <1>6, <2>1, First
    <3> QED BY <1>1, <1>6, <2>2, <3>1 DEF Due, ConfigTypes
  <2>4. /\ delayed' \in Seq(Items) /\ Len(delayed') = n - 1
        /\ \A i \in 1 .. n - 1 : delayed'[i] = Aged[i + 1]
    <3>1. delayed' = SubSeq(Aged, 2, n) /\ \A i \in 2 .. n : Aged[i] \in Items
      BY <1>3, <1>4, <2>1
    <3>2. /\ SubSeq(Aged, 2, n) \in Seq(Items)
          /\ Len(SubSeq(Aged, 2, n)) = IF 2 <= n THEN n - 2 + 1 ELSE 0
          /\ \A i \in 1 .. n - 2 + 1 : SubSeq(Aged, 2, n)[i] = Aged[2 + i - 1]
      BY <1>1, <3>1, SubSeqProperties
    <3>3. Len(delayed') = n - 1
      <4>1. n \in Nat /\ (n = 1 \/ 2 <= n)
        BY <1>1, <1>6
      <4>2. CASE n = 1
        BY <3>1, <3>2, <4>2
      <4>3. CASE 2 <= n
        <5>1. Len(SubSeq(Aged, 2, n)) = n - 2 + 1
          BY <3>2, <4>3
        <5>2. n - 2 + 1 = n - 1
          BY <4>1
        <5> QED BY <3>1, <5>1, <5>2
      <4> QED BY <4>1, <4>2, <4>3
    <3>4. ASSUME NEW i \in 1 .. n - 1 PROVE delayed'[i] = Aged[i + 1]
      <4>1. i \in 1 .. n - 2 + 1 /\ 2 + i - 1 = i + 1
        BY <1>1
      <4>2. delayed'[i] = Aged[2 + i - 1]
        BY <3>1, <3>2, <4>1
      <4> QED BY <4>1, <4>2
    <3> QED BY <3>1, <3>2, <3>3, <3>4
  <2>5. ASSUME NEW i \in 1 .. Len(delayed')
        PROVE  delayed'[i].age = (K - k') + (Len(delayed') - i) * K /\ delayed'[i].age < D'
    <3>1. i + 1 \in 1 .. n /\ i + 1 \in 2 .. n /\ i \in 1 .. n - 1 /\ n > 1
      BY <1>1, <2>4
    <3>2. delayed'[i].age = (K - k') + (n - (i + 1)) * K
      BY <1>3, <2>4, <3>1
    <3>3. n - (i + 1) = Len(delayed') - i
      BY <1>1, <2>4
    <3>4. delayed'[i].age < D
      <4>1. delayed[i + 1].age <= delayed[1].age - K /\ delayed[1].age \in Nat /\ delayed[1].age < D
        BY <1>6, <3>1, First
      <4>2. delayed'[i].age = delayed[i + 1].age + 1 /\ delayed[i + 1].age \in Nat
        <5>1. delayed[i + 1] \in Items
          BY <3>1, ElementOfSeq DEF ActionInv, DelayInv
        <5> QED BY <1>2, <2>4, <3>1, <5>1 DEF Items
      <4> QED BY <1>1, <4>1, <4>2 DEF ConfigTypes
    <3> QED BY <1>1, <3>2, <3>3, <3>4
  <2>6. cmd'.age = (K - k') + Len(delayed') * K
    BY <1>3, <2>1, <2>2, <2>4
  <2>7. time' >= D
    <3>1. time \in Nat
      BY DEF ActionInv, RobotInv, SensorInv
    <3>2. time >= D - 1
      <4>1. CASE cmd.age = Never
        <5>1. time = delayed[1].age /\ Aged[1].age = delayed[1].age + 1
          BY <1>1, <1>2, <1>6, <2>1, <4>1 DEF ActionInv, DelayInv
        <5> QED BY <1>1, <2>2, <2>3, <3>1, <5>1
      <4>2. CASE cmd.age # Never
        BY <1>1, <3>1, <4>2 DEF ActionInv, DelayInv
      <4> QED BY <4>1, <4>2
    <3> QED BY <1>1, <1>4, <3>1, <3>2 DEF Older, Never, ConfigTypes
  <2>8. cmd' \in [v : Commands, age : Ages] /\ cmd'.age # Never
    BY <2>2, <2>3 DEF Items, Ages, Never
  <2>9. DelayInv'
    BY <1>1, <2>3, <2>4, <2>5, <2>6, <2>7, <2>8 DEF DelayInv
  <2> QED BY <1>4, <2>2, <2>9 DEF Items
<1>7. CASE ~ (n > 0 /\ Due(1))
  <2>1. Taken = 0
    BY <1>7, TakesOne
  <2>2. cmd' = [v |-> cmd.v, age |-> Older(cmd.age)]
    BY <1>4, <1>5, <2>1 DEF InForce
  <2>3. /\ delayed' \in Seq(Items) /\ Len(delayed') = n
        /\ \A i \in 1 .. n : delayed'[i] = Aged[i]
    <3>1. delayed' = SubSeq(Aged, 1, n)
      BY <1>4, <2>1
    <3>2. /\ SubSeq(Aged, 1, n) \in Seq(Items)
          /\ Len(SubSeq(Aged, 1, n)) = IF 1 <= n THEN n - 1 + 1 ELSE 0
          /\ \A i \in 1 .. n - 1 + 1 : SubSeq(Aged, 1, n)[i] = Aged[1 + i - 1]
      BY <1>1, <1>3, SubSeqProperties
    <3> QED BY <1>1, <3>1, <3>2
  <2>4. ASSUME n > 0 PROVE Aged[1].age < D
    <3>1. Aged[1].age < config.delay \/ ~ (Aged[1].age >= config.delay)
      BY <1>7, <2>4 DEF Due
    <3>2. Aged[1].age \in Nat /\ 1 \in 1 .. n
      BY <1>1, <1>3, <2>4 DEF Items
    <3> QED BY <1>1, <3>1, <3>2 DEF ConfigTypes
  <2>5. ASSUME NEW i \in 1 .. Len(delayed')
        PROVE  delayed'[i].age = (K - k') + (Len(delayed') - i) * K /\ delayed'[i].age < D'
    <3>1. i \in 1 .. n /\ n > 0
      BY <1>1, <2>3
    <3>2. delayed'[i].age = (K - k') + (n - i) * K
      BY <1>3, <2>3, <3>1
    <3>3. delayed'[i].age < D
      <4>1. CASE i = 1
        BY <2>3, <2>4, <3>1, <4>1
      <4>2. CASE i # 1
        <5>1. i \in 2 .. n
          BY <1>1, <3>1, <4>2
        <5>2. delayed[i].age <= delayed[1].age - K /\ delayed[1].age \in Nat /\ delayed[1].age < D
          BY <3>1, <5>1, First
        <5>3. delayed'[i].age = delayed[i].age + 1 /\ delayed[i].age \in Nat
          <6>1. delayed[i] \in Items
            BY <3>1, ElementOfSeq DEF ActionInv, DelayInv
          <6> QED BY <1>2, <2>3, <3>1, <6>1 DEF Items
        <5> QED BY <1>1, <5>2, <5>3 DEF ConfigTypes
      <4> QED BY <4>1, <4>2
    <3> QED BY <1>1, <2>3, <3>2, <3>3
  <2>6. CASE cmd.age = Never
    <3>1. cmd = Standing /\ n > 0 /\ time = delayed[1].age
      BY <1>1, <2>6 DEF ActionInv, DelayInv
    <3>2. cmd' = Standing /\ cmd'.age = Never
      BY <2>2, <3>1 DEF Standing, Older
    <3>3. time' = delayed'[1].age
      <4>1. 1 \in 1 .. n /\ delayed[1].age \in Nat /\ delayed[1].age < D
        BY <1>1, <3>1, First
      <4>2. delayed'[1].age = delayed[1].age + 1
        BY <1>2, <2>3, <4>1
      <4>3. Older(time) = time + 1
        BY <1>1, <3>1, <4>1 DEF Older, Never, ConfigTypes
      <4> QED BY <1>4, <3>1, <4>2, <4>3
    <3>4. cmd' \in [v : Commands, age : Ages]
      BY <1>5, <3>1, <3>2
    <3>5. Len(delayed') # 0
      BY <1>1, <2>3, <3>1
    <3>6. DelayInv'
      BY <2>3, <2>5, <3>2, <3>3, <3>4, <3>5 DEF DelayInv
    <3>7. InForce.v \in Commands
      BY <1>4, <1>5, <3>1, <3>2
    <3> QED BY <3>6, <3>7
  <2>7. CASE cmd.age # Never
    <3>1. cmd.age \in Nat /\ Older(cmd.age) = cmd.age + 1
      BY <1>1, <2>7, ForceCounts DEF Older, Never, ConfigTypes
    <3>2. cmd.age = (K - k) + n * K /\ cmd.age >= D /\ time >= D /\ time \in Nat
      BY <2>7 DEF ActionInv, DelayInv, RobotInv, SensorInv
    <3>3. n * K \in Int
      BY <1>1 DEF ConfigTypes
    <3>4. cmd'.age = cmd.age + 1 /\ cmd'.v = cmd.v
      BY <2>2, <3>1
    <3>5. cmd'.age = (K - k') + n * K /\ cmd'.age >= D /\ cmd'.age \in Nat
      BY <1>1, <3>1, <3>2, <3>3, <3>4 DEF ConfigTypes
    <3>6. time' >= D
      BY <1>1, <1>4, <3>2 DEF Older, Never
    <3>7. cmd' \in [v : Commands, age : Ages] /\ cmd'.age # Never
      <4>1. cmd'.age \in Ages /\ cmd'.age # Never /\ cmd.v \in Commands
        BY <1>5, <3>5 DEF Ages, Never
      <4> QED BY <2>2, <3>1, <3>4, <4>1
    <3> QED BY <1>1, <1>4, <1>5, <2>3, <2>5, <3>5, <3>6, <3>7 DEF DelayInv
  <2> QED BY <2>6, <2>7
<1> QED BY <1>6, <1>7

\* Where a speed goes that is drawn to a target.
LEMMA Moves ==
  ASSUME NEW s \in Commands, NEW t \in Commands, NEW up \in Nat \ {0}, NEW down \in Nat \ {0}
  PROVE  LET n == Clamp(s + Clamp(t - s, -down, up), -MaxRev, MaxFwd) IN
         n \in Commands /\ (t <= 0 => n <= Max2(s, 0)) /\ (t < s => n < s)
<1> DEFINE d == Clamp(t - s, -down, up)
           n == Clamp(s + d, -MaxRev, MaxFwd)
<1>1. s \in Int /\ t \in Int /\ -MaxRev <= s /\ s <= MaxFwd /\ -MaxRev <= t /\ t <= MaxFwd
  BY Caps DEF Commands
<1>2. d \in Int /\ (t >= s => d >= 0 /\ d <= t - s) /\ (t < s => d < 0 /\ d >= t - s)
  BY <1>1 DEF Clamp
<1> HIDE DEF d
<1>3. n \in Int /\ n = s + d
  BY <1>1, <1>2, Caps DEF Clamp
<1> HIDE DEF n
<1>4. n \in Commands
  BY <1>1, <1>2, <1>3, Caps DEF Commands
<1>5. t <= 0 => n <= Max2(s, 0)
  BY <1>1, <1>2, <1>3 DEF Max2
<1>6. t < s => n < s
  BY <1>1, <1>2, <1>3
<1> QED BY <1>4, <1>5, <1>6 DEF n, d

\* The speed after a substep, by what the gear makes of the command.
LEMMA Speeds ==
  ASSUME MotionInv, NEW v \in Commands
  PROVE  LET t == Clamp(IF NewGear(v) THEN -Abs(v) ELSE Abs(v), -MaxRev, MaxFwd) IN
         /\ t \in Commands /\ NewSpeed(v) \in Commands
         /\ t <= 0 => NewSpeed(v) <= Max2(speed, 0)
         /\ t < speed => NewSpeed(v) < speed
<1> DEFINE w == IF NewGear(v) THEN -Abs(v) ELSE Abs(v)
           t == Clamp(w, -MaxRev, MaxFwd)
           up == IF speed >= 0 THEN AccFwd ELSE DecRev
           down == IF speed >= 0 THEN DecFwd ELSE AccRev
<1>1. w \in Int
  BY Caps DEF Abs, Commands
<1> HIDE DEF w
<1>2. t \in Commands
  BY <1>1, Caps DEF Clamp, Commands
<1>3. up \in Nat \ {0} /\ down \in Nat \ {0} /\ speed \in Commands
  BY Caps DEF MotionInv
<1>4. NewSpeed(v) = Clamp(speed + Clamp(t - speed, -down, up), -MaxRev, MaxFwd)
  BY DEF NewSpeed, w
<1> HIDE DEF t, up, down
<1>5. LET n == Clamp(speed + Clamp(t - speed, -down, up), -MaxRev, MaxFwd) IN
      n \in Commands /\ (t <= 0 => n <= Max2(speed, 0)) /\ (t < speed => n < speed)
  BY <1>2, <1>3, Moves
<1> QED BY <1>2, <1>4, <1>5 DEF t, w

\* The speed that the gear makes of a command: none of none, and the command
\* itself of a reverse one in reverse.
LEMMA Targets ==
  ASSUME NEW v \in Commands
  PROVE  LET t == Clamp(IF NewGear(v) THEN -Abs(v) ELSE Abs(v), -MaxRev, MaxFwd) IN
         (v = 0 => t = 0) /\ (v < 0 /\ NewGear(v) => t = v)
<1>1. CASE NewGear(v)
  <2>1. (IF NewGear(v) THEN -Abs(v) ELSE Abs(v)) = -Abs(v)
    BY <1>1
  <2>2. (v = 0 => Clamp(-Abs(v), -MaxRev, MaxFwd) = 0) /\ (v < 0 => Clamp(-Abs(v), -MaxRev, MaxFwd) = v)
    BY Caps DEF Clamp, Abs, Commands
  <2> QED BY <2>1, <2>2
<1>2. CASE ~ NewGear(v)
  <2>1. (IF NewGear(v) THEN -Abs(v) ELSE Abs(v)) = Abs(v)
    BY <1>2
  <2>2. v = 0 => Clamp(Abs(v), -MaxRev, MaxFwd) = 0
    BY Caps DEF Clamp, Abs, Commands
  <2> QED BY <1>2, <2>1, <2>2
<1> QED BY <1>1, <1>2

\* A collision stops what drives forward and leaves a reverse command alone.
LEMMA EffectiveIs ==
  ASSUME NEW v \in Commands
  PROVE  Effective(v) \in Commands /\ (collided => Effective(v) <= 0) /\ (v < 0 => Effective(v) = v)
BY Caps DEF Effective, Commands

\* A substep keeps the speed within its limits and the hold within its own.
LEMMA SubstepMotion ==
  ASSUME ActionInv, Substep
  PROVE  MotionInv'
<1>1. PICK v \in Commands : /\ speed' = NewSpeed(v) /\ gear' = NewGear(v)
                            /\ hold' = IF Shifts(v) THEN config.hold ELSE HoldLeft
  <2>1. Effective(InForce.v) \in Commands
    BY SubstepQueue, EffectiveIs
  <2>2. cmd' = InForce
    BY DEF Substep
  <2> QED BY <2>1, <2>2 DEF Substep
<1>2. speed' \in Commands
  BY <1>1, Speeds DEF ActionInv
<1>3. gear' \in BOOLEAN
  BY <1>1 DEF NewGear, ActionInv, MotionInv
<1>4. hold' \in Nat /\ hold' <= config'.hold
  <2>1. config' = config /\ config.hold \in Nat /\ hold \in Nat /\ hold <= config.hold
    BY ConfigHasTypes DEF Substep, ConfigTypes, ActionInv, RobotInv, GearInv, MotionInv
  <2>2. HoldLeft \in Nat /\ HoldLeft <= config.hold
    BY <2>1 DEF HoldLeft, Max2
  <2> QED BY <1>1, <2>1, <2>2
<1>5. seen' \in [reverse : BOOLEAN, hold : Nat]
  BY <1>3, <1>4 DEF Substep, ActionInv, MotionInv
<1> QED BY <1>2, <1>3, <1>4, <1>5 DEF MotionInv, Substep

\* A step that changes nothing keeps the queue and the motion.
LEMMA StutterQueue ==
  ASSUME ActionInv, UNCHANGED robotVars
  PROVE  DelayInv' /\ MotionInv'
BY DEF ActionInv, DelayInv, MotionInv, robotVars, actuation, motion, D

\* What the queue of actions says of their ages always holds.
THEOREM ActionInvariance == RobotSpec => []ActionInv
<1>1. RobotInit => ActionInv
  BY RobotInitInv, InitQueue DEF ActionInv
<1>2. ActionInv /\ [RobotNext]_robotVars => ActionInv'
  <2> SUFFICES ASSUME ActionInv, [RobotNext]_robotVars PROVE ActionInv'
    OBVIOUS
  <2>1. RobotInv
    BY DEF ActionInv
  <2>2. CASE Decide
    BY <2>1, <2>2, DecideInv, DecideQueue DEF ActionInv
  <2>3. CASE Substep
    BY <2>1, <2>3, SubstepInv, SubstepQueue, SubstepMotion DEF ActionInv
  <2>4. CASE Reset
    BY <2>1, <2>4, ResetInv, ResetQueue DEF ActionInv
  <2>5. CASE UNCHANGED robotVars
    BY <2>1, <2>5, StutterInv, StutterQueue DEF ActionInv
  <2> QED BY <2>2, <2>3, <2>4, <2>5 DEF RobotNext
<1> QED BY <1>1, <1>2, PTL DEF RobotSpec

\* The command in force is always the newest that is as old as the delay, so
\* that every decision has its turn, for as long as a decision takes:
\* Robot::set_action() and process_delayed_actions().
THEOREM EveryActionHasItsTurn == RobotSpec => []ActionInForce
<1>1. ActionInv => ActionInForce
  <2> SUFFICES ASSUME ActionInv PROVE ActionInForce
    OBVIOUS
  <2>1. /\ ConfigTypes /\ k \in 0 .. K /\ config \in Configs /\ D \in Nat \ {0}
        /\ delayed \in Seq(Items) /\ DOMAIN delayed = 1 .. Len(delayed) /\ time \in Nat
    BY DelayTypes, LenProperties DEF ActionInv, RobotInv, DelayInv, SensorInv
  <2>2. RobotTypeOK
    <3>1. hold \in 0 .. config.hold /\ shifted \in Ages
      BY <2>1 DEF ActionInv, RobotInv, GearInv, MotionInv, Ages, ConfigTypes
    <3>2. since \in 0 .. config.period - 1
      BY <2>1 DEF ActionInv, RobotInv, SensorInv, ConfigTypes
    <3>3. pending \in [age : Ages, wait : Nat]
      <4>1. NoCloud \in [age : Ages, wait : Nat]
        BY DEF NoCloud, Ages
      <4>2. ASSUME pending # NoCloud PROVE pending \in [age : Ages, wait : Nat]
        <5>1. pending = Awaited /\ since \in Nat /\ since < config.period
          BY <4>2 DEF ActionInv, RobotInv, SensorInv
        <5>2. config.latency <= config.period => since < Latest
          BY <4>2 DEF ActionInv, RobotInv, SensorInv
        <5>3. config.latency - since \in Nat
          BY <2>1, <5>1, <5>2 DEF Latest, Max2, ConfigTypes
        <5> QED BY <5>1, <5>3 DEF Awaited, Ages
      <4> QED BY <4>1, <4>2
    <3>4. cloud \in Ages
      BY <2>1 DEF ActionInv, RobotInv, CloudInv, SensorInv, Ages, ConfigTypes
    <3> QED BY <2>1, <3>1, <3>2, <3>3, <3>4
        DEF RobotTypeOK, ActionInv, DelayInv, MotionInv, Items
  <2>3. ASSUME time >= D PROVE cmd.age \in D .. D + K - 1
    <3>1. cmd.age # Never
      <4>1. SUFFICES ASSUME cmd.age = Never PROVE FALSE
        OBVIOUS
      <4>2. CASE Len(delayed) = 0
        BY <2>1, <2>3, <4>1, <4>2 DEF ActionInv, DelayInv
      <4>3. CASE Len(delayed) # 0
        <5>1. Len(delayed) > 0
          BY <2>1, <4>3, LenProperties
        <5>2. delayed[1].age < D /\ time = delayed[1].age
          BY <4>1, <4>3, <5>1, First DEF ActionInv, DelayInv
        <5> QED BY <2>1, <2>3, <5>2
      <4> QED BY <4>2, <4>3
    <3>2. cmd.age \in Nat /\ cmd.age >= D /\ cmd.age <= D + K - 1
      BY <3>1, ForceCounts DEF ActionInv, DelayInv
    <3> QED BY <2>1, <3>2 DEF ConfigTypes
  <2>4. ASSUME time < D PROVE cmd = Standing
    BY <2>1, <2>4 DEF ActionInv, DelayInv
  <2>5. \A i \in DOMAIN delayed : delayed[i].age = (K - k) + (Len(delayed) - i) * K
    BY <2>1 DEF ActionInv, DelayInv
  <2> QED BY <2>2, <2>3, <2>4, <2>5 DEF ActionInForce, D
<1> QED BY <1>1, ActionInvariance, PTL

\* In a collision the robot gains no speed forward and backs out on command,
\* but for the reverse command that the held gear turns around:
\* Robot::update() with AckermannModel::apply_speed_command().
THEOREM NothingIsPushed == RobotSpec => NoPushing
<1>1. ActionInv /\ [RobotNext]_robotVars =>
        [k > 0 /\ collided =>
           /\ ~ (Backs(InForce.v) /\ HeldForward) => speed' <= Max2(speed, 0)
           /\ Backs(InForce.v) /\ ~ HeldForward /\ speed <= 0 /\ speed > InForce.v => speed' < speed]_robotVars
  <2> SUFFICES ASSUME ActionInv, RobotNext, k > 0, collided
               PROVE  /\ ~ (Backs(InForce.v) /\ HeldForward) => speed' <= Max2(speed, 0)
                      /\ Backs(InForce.v) /\ ~ HeldForward /\ speed <= 0 /\ speed > InForce.v => speed' < speed
    OBVIOUS
  <2>1. Substep
    <3>1. k # 0
      BY DelayTypes DEF ActionInv
    <3> QED BY <3>1 DEF RobotNext, Decide, Reset
  <2> DEFINE c == InForce.v
             v == Effective(c)
             t == Clamp(IF NewGear(v) THEN -Abs(v) ELSE Abs(v), -MaxRev, MaxFwd)
  <2>2. c \in Commands /\ v \in Commands /\ v <= 0 /\ (c < 0 => v = c) /\ (c >= 0 => v = 0)
    <3>1. c \in Commands
      BY <2>1, SubstepQueue
    <3>2. c >= 0 => v = 0
      BY <3>1, Caps DEF Effective, Commands
    <3> QED BY <3>1, <3>2, EffectiveIs
  <2>3. speed' = NewSpeed(v)
    BY <2>1 DEF Substep
  <2>4. ASSUME ~ (c < 0 /\ HeldForward), c < 0 PROVE NewGear(v) = TRUE
    <3>1. gear \in BOOLEAN /\ HoldLeft \in Nat
      BY DEF ActionInv, MotionInv, RobotInv, GearInv, HoldLeft, Max2
    <3>2. gear \/ HoldLeft = 0
      BY <2>4, <3>1 DEF HeldForward
    <3>3. v # 0 /\ v < 0
      BY <2>2, <2>4, Caps DEF Commands
    <3>4. CASE gear
      <4>1. ~ Shifts(v)
        BY <3>1, <3>3, <3>4 DEF Shifts
      <4> QED BY <3>1, <3>4, <4>1 DEF NewGear
    <3>5. CASE ~ gear
      <4>1. Shifts(v)
        BY <3>1, <3>2, <3>3, <3>5 DEF Shifts
      <4> QED BY <3>1, <3>5, <4>1 DEF NewGear
    <3> QED BY <3>1, <3>4, <3>5
  <2>5. v = 0 => t = 0
    BY <2>2, Targets
  <2>6. ASSUME ~ (c < 0 /\ HeldForward), c < 0 PROVE t = c
    BY <2>2, <2>4, <2>6, Targets
  <2>7. /\ t <= 0 => NewSpeed(v) <= Max2(speed, 0)
        /\ t < speed => NewSpeed(v) < speed
    BY <2>2, Speeds DEF ActionInv
  <2> HIDE DEF t, v
  <2>8. ~ (c < 0 /\ HeldForward) => t <= 0
    <3>1. CASE c < 0
      BY <2>2, <2>6, <3>1, Caps DEF Commands
    <3>2. CASE ~ (c < 0)
      BY <2>2, <2>5, <3>2, Caps DEF Commands
    <3> QED BY <3>1, <3>2
  <2>9. ASSUME c < 0, ~ HeldForward, speed > c PROVE t < speed
    BY <2>2, <2>6, <2>9, Caps DEF Commands, ActionInv, MotionInv
  <2> QED BY <2>3, <2>7, <2>8, <2>9 DEF Backs
<1> QED BY <1>1, ActionInvariance, PTL DEF RobotSpec, NoPushing


-----------------------------------------------------------------------------
(* Sequences without repetition.                                           *)

\* The concatenation of two sequences that share nothing has no repetition.
LEMMA ConcatUnique ==
  ASSUME NEW S, NEW s \in Seq(S), NEW t \in Seq(S),
         IsInjective(s), IsInjective(t), ToSet(s) \cap ToSet(t) = {}
  PROVE  IsInjective(s \o t)
<1>1. /\ Len(s) \in Nat /\ DOMAIN s = 1 .. Len(s)
      /\ Len(t) \in Nat /\ DOMAIN t = 1 .. Len(t)
  BY LenProperties
<1>2. /\ DOMAIN (s \o t) = 1 .. Len(s) + Len(t)
      /\ \A i \in 1 .. Len(s) + Len(t) : (s \o t)[i] = IF i <= Len(s) THEN s[i] ELSE t[i - Len(s)]
  BY ConcatProperties, LenProperties
<1> SUFFICES ASSUME NEW a \in 1 .. Len(s) + Len(t), NEW b \in 1 .. Len(s) + Len(t),
                    (s \o t)[a] = (s \o t)[b]
             PROVE  a = b
  BY <1>2 DEF IsInjective
<1>3. CASE a <= Len(s) /\ b <= Len(s)
  BY <1>1, <1>2, <1>3 DEF IsInjective
<1>4. CASE a > Len(s) /\ b > Len(s)
  <2>1. a - Len(s) \in DOMAIN t /\ b - Len(s) \in DOMAIN t
    BY <1>1, <1>4
  <2>2. t[a - Len(s)] = t[b - Len(s)]
    BY <1>1, <1>2, <1>4
  <2>3. a - Len(s) = b - Len(s)
    BY <2>1, <2>2 DEF IsInjective
  <2> QED BY <1>1, <2>3
<1>5. ASSUME NEW x \in 1 .. Len(s) + Len(t), NEW y \in 1 .. Len(s) + Len(t),
             x <= Len(s), y > Len(s)
      PROVE  (s \o t)[x] # (s \o t)[y]
  <2>1. x \in DOMAIN s /\ y - Len(s) \in DOMAIN t
    BY <1>1, <1>5
  <2>2. s[x] \in ToSet(s) /\ t[y - Len(s)] \in ToSet(t)
    BY <2>1 DEF ToSet
  <2>3. (s \o t)[x] = s[x] /\ (s \o t)[y] = t[y - Len(s)]
    BY <1>1, <1>2, <1>5
  <2> QED BY <2>2, <2>3
<1> QED BY <1>1, <1>3, <1>4, <1>5

\* What a concatenation has.
LEMMA ConcatSet ==
  ASSUME NEW S, NEW s \in Seq(S), NEW t \in Seq(S)
  PROVE  ToSet(s \o t) = ToSet(s) \cup ToSet(t)
<1>1. ToSet(s) = Range(s) /\ ToSet(t) = Range(t) /\ ToSet(s \o t) = Range(s \o t)
  BY DEF Range, ToSet
<1> QED BY <1>1, RangeConcatenation

\* The tail of a sequence without repetition has all but the head.
LEMMA TailUnique ==
  ASSUME NEW S, NEW s \in Seq(S), s # <<>>, IsInjective(s)
  PROVE  /\ Head(s) \in ToSet(s) /\ Tail(s) \in Seq(S)
         /\ IsInjective(Tail(s)) /\ ToSet(Tail(s)) = ToSet(s) \ {Head(s)}
<1>1. /\ Len(s) \in Nat \ {0} /\ DOMAIN s = 1 .. Len(s)
      /\ Tail(s) \in Seq(S) /\ Len(Tail(s)) = Len(s) - 1
      /\ \A i \in 1 .. Len(Tail(s)) : Tail(s)[i] = s[i + 1]
  BY LenProperties, HeadTailProperties, EmptySeq
<1>2. DOMAIN Tail(s) = 1 .. Len(s) - 1
  BY <1>1, LenProperties
<1>3. Head(s) = s[1]
  OBVIOUS
<1>4. IsInjective(Tail(s))
  <2> SUFFICES ASSUME NEW a \in 1 .. Len(s) - 1, NEW b \in 1 .. Len(s) - 1, Tail(s)[a] = Tail(s)[b]
               PROVE  a = b
    BY <1>2 DEF IsInjective
  <2>1. s[a + 1] = s[b + 1] /\ a + 1 \in DOMAIN s /\ b + 1 \in DOMAIN s
    BY <1>1
  <2>2. a + 1 = b + 1
    BY <2>1 DEF IsInjective
  <2> QED BY <2>2
<1>5. ToSet(Tail(s)) = ToSet(s) \ {Head(s)}
  <2>1. ASSUME NEW x \in ToSet(Tail(s)) PROVE x \in ToSet(s) \ {Head(s)}
    <3>1. PICK i \in 1 .. Len(s) - 1 : x = Tail(s)[i]
      BY <1>2 DEF ToSet
    <3>2. i + 1 \in DOMAIN s /\ 1 \in DOMAIN s /\ x = s[i + 1] /\ i + 1 # 1
      BY <1>1, <3>1
    <3>3. s[i + 1] # s[1]
      BY <3>2 DEF IsInjective
    <3>4. x \in ToSet(s)
      BY <3>2 DEF ToSet
    <3> QED BY <1>3, <3>2, <3>3, <3>4
  <2>2. ASSUME NEW x \in ToSet(s) \ {Head(s)} PROVE x \in ToSet(Tail(s))
    <3>1. PICK i \in 1 .. Len(s) : x = s[i]
      BY <1>1 DEF ToSet
    <3>2. i # 1
      BY <1>3, <3>1
    <3>3. i - 1 \in 1 .. Len(s) - 1 /\ Tail(s)[i - 1] = s[i - 1 + 1]
      BY <1>1, <3>2
    <3>4. i - 1 + 1 = i
      OBVIOUS
    <3>5. x = Tail(s)[i - 1] /\ i - 1 \in DOMAIN Tail(s)
      BY <1>2, <3>1, <3>3, <3>4
    <3> QED BY <3>5 DEF ToSet
  <2> QED BY <2>1, <2>2
<1>6. Head(s) \in ToSet(s)
  BY <1>1, <1>3 DEF ToSet
<1> QED BY <1>1, <1>4, <1>5, <1>6

\* A sequence with one more element behind it.
LEMMA AppendUnique ==
  ASSUME NEW S, NEW s \in Seq(S), NEW e \in S, IsInjective(s), e \notin ToSet(s)
  PROVE  /\ Append(s, e) \in Seq(S)
         /\ IsInjective(Append(s, e)) /\ ToSet(Append(s, e)) = ToSet(s) \cup {e}
<1>1. <<e>> \in Seq(S) /\ DOMAIN <<e>> = {1} /\ <<e>>[1] = e
  OBVIOUS
<1>2. IsInjective(<<e>>) /\ ToSet(<<e>>) = {e}
  BY <1>1 DEF IsInjective, ToSet
<1>3. Append(s, e) = s \o <<e>>
  BY AppendIsConcat
<1>4. IsInjective(s \o <<e>>)
  BY <1>1, <1>2, ConcatUnique
<1>5. ToSet(s \o <<e>>) = ToSet(s) \cup {e}
  <2>1. ToSet(s \o <<e>>) = ToSet(s) \cup ToSet(<<e>>)
    <3>1. PICK u \in Seq(S) : u = <<e>>
      BY <1>1
    <3>2. ToSet(s \o u) = ToSet(s) \cup ToSet(u)
      BY ConcatSet
    <3> QED BY <3>1, <3>2
  <2> QED BY <1>2, <2>1
<1> QED BY <1>3, <1>4, <1>5, AppendProperties

\* The orders of a finite set.
LEMMA Orders ==
  ASSUME NEW T, IsFiniteSet(T), NEW order \in SetToSeqs(T)
  PROVE  order \in Seq(T) /\ IsInjective(order) /\ ToSet(order) = T
<1> DEFINE n == Cardinality(T)
<1>1. n \in Nat
  BY FS_CardinalityType
<1>2. order \in [1 .. n -> T] /\ \A i, j \in 1 .. n : i # j => order[i] # order[j]
  BY DEF SetToSeqs
<1>3. IsInjective(order) /\ order \in Injection(1 .. n, T)
  BY <1>2 DEF IsInjective, Injection
<1>4. Cardinality(1 .. n) = n
  BY <1>1, FS_Interval
<1>5. order \in Surjection(1 .. n, T)
  BY <1>3, <1>4, FS_Injection
<1>6. ToSet(order) = T
  BY <1>2, <1>5 DEF Surjection, ToSet
<1>7. order \in Seq(T)
  BY <1>1, <1>2, SeqDef
<1> QED BY <1>3, <1>6, <1>7

-----------------------------------------------------------------------------
(* The invariant.                                                          *)

\* The objects are divided between the two queues and the active set.
QueueInv ==
  /\ high \in Seq(Objects) /\ low \in Seq(Objects) /\ active \subseteq Objects
  /\ IsInjective(high) /\ IsInjective(low)
  /\ ToSet(high) \cap ToSet(low) = {}
  /\ ToSet(high) \cup ToSet(low) = Objects \ active
  /\ Cardinality(active) <= MaxActive

\* What the round for the minimum may still spend is enough for what is missing,
\* unless a search has failed.
BudgetInv ==
  /\ stage \in {"manage", "spawn", "ensure", "move"} /\ failed \in BOOLEAN
  /\ budget \in [spawns : Nat, attempts : Nat]
  /\ stage = "ensure" /\ ~ failed /\ Needed > 0 =>
       Needed <= budget.spawns /\ budget.spawns <= budget.attempts
  /\ MinimumKept

BodyInv ==
  /\ view \in [Objects -> Views \cup {Outside}]
  /\ body \in [Objects -> Bodies]
  /\ stuck \in [Objects -> Nat \cup {None}] /\ retryIn \in [Objects -> Nat]
  /\ QueuedAreClean

Inv == QueueInv /\ BudgetInv /\ BodyInv

\* The limits are numbers, and the objects are finitely many.
LEMMA Limits ==
  /\ MinActive \in Nat /\ MaxActive \in Nat /\ MaxSpawns \in Nat /\ MaxAttempts \in Nat
  /\ ExtraPerNeeded \in Nat \ {0} /\ StuckTimeout \in Nat /\ RerouteDelay \in Nat
  /\ RetryInterval \in Nat /\ IsFiniteSet(Objects) /\ AvoidFov \in BOOLEAN
BY SpawnAssumption DEF SpawnAssumption

\* So are the active ones.
LEMMA Counted ==
  ASSUME NEW A, A \subseteq Objects
  PROVE  IsFiniteSet(A) /\ Cardinality(A) \in Nat
BY Limits, FS_Subset, FS_CardinalityType

\* Activating, stopping and moving leave a body a body.
LEMMA BodyTypes ==
  ASSUME NEW b \in Bodies
  PROVE  /\ activate(b) \in Bodies /\ deactivate(b) \in Bodies
         /\ deactivate(b).state = "INACTIVE"
         /\ override_waypoints(b) \in Bodies /\ on_collision(b) \in Bodies
         /\ \A event \in {"none", "pause", "end", "hit"} : After(b, event) \in Bodies
<1>1. /\ b.since \in Nat /\ b.hit \in BOOLEAN /\ b.loops \in BOOLEAN /\ b.state \in States
      /\ b = [state |-> b.state, since |-> b.since, hit |-> b.hit, loops |-> b.loops]
  BY DEF Bodies
<1>2. activate(b) \in Bodies /\ deactivate(b) \in Bodies
  BY <1>1 DEF activate, deactivate, Bodies, States
<1>3. deactivate(b).state = "INACTIVE"
  BY DEF deactivate
<1>4. override_waypoints(b) \in Bodies
  BY <1>1 DEF override_waypoints, activate, Bodies, States
<1>5. \A hit \in BOOLEAN : Stopped(b, hit) \in Bodies
  BY <1>1 DEF Stopped, Bodies, States
<1>6. [b EXCEPT !.state = "INACTIVE"] \in Bodies
  <2>1. [b EXCEPT !.state = "INACTIVE"]
          = [state |-> "INACTIVE", since |-> b.since, hit |-> b.hit, loops |-> b.loops]
    BY <1>1
  <2> QED BY <1>1, <2>1 DEF Bodies, States
<1>7. [b EXCEPT !.since = @ + 1] \in Bodies
  <2>1. [b EXCEPT !.since = @ + 1]
          = [state |-> b.state, since |-> b.since + 1, hit |-> b.hit, loops |-> b.loops]
    BY <1>1
  <2> QED BY <1>1, <2>1 DEF Bodies
<1>8. \A event \in {"none", "pause", "end", "hit"} : After(b, event) \in Bodies
  BY <1>1, <1>2, <1>5, <1>6, <1>7 DEF After, on_collision
<1> QED BY <1>2, <1>3, <1>4, <1>5, <1>8 DEF on_collision

-----------------------------------------------------------------------------
(* Every step keeps it.                                                    *)

\* At the start every object waits in the queue of those never spawned.
LEMMA InitInv == Init => Inv
<1> SUFFICES ASSUME Init PROVE Inv
  OBVIOUS
<1>1. low \in Seq(Objects) /\ IsInjective(low) /\ ToSet(low) = Objects
  BY Limits, Orders DEF Init
<1>2. high = <<>> /\ high \in Seq(Objects) /\ IsInjective(high) /\ ToSet(high) = {}
  BY DEF Init, IsInjective, ToSet
<1>3. Cardinality(active) = 0 /\ active = {}
  BY FS_EmptySet DEF Init
<1>4. QueueInv
  BY <1>1, <1>2, <1>3, Limits DEF QueueInv
<1>5. BudgetInv
  BY DEF Init, BudgetInv, MinimumKept
<1>6. BodyInv
  BY DEF Init, BodyInv, QueuedAreClean, Bodies, States, None
<1> QED BY <1>4, <1>5, <1>6 DEF Inv

\* Ensure and EnsureDone change the budget only.
LEMMA EnsureInv == Inv /\ (Ensure \/ EnsureDone) => Inv'
<1> SUFFICES ASSUME Inv, Ensure \/ EnsureDone PROVE Inv'
  OBVIOUS
<1>1. /\ UNCHANGED <<high, low, active, failed, view, body, stuck, retryIn>>
      /\ Needed' = Needed
  BY DEF Ensure, EnsureDone, queues, timers, Needed
<1>2. QueueInv' /\ BodyInv'
  BY <1>1 DEF Inv, QueueInv, BodyInv, QueuedAreClean
<1>3. Cardinality(active) \in Nat /\ Needed \in Int
  BY Limits, Counted DEF Inv, QueueInv, Needed
<1>4. CASE Ensure
  <2>1. CASE Needed > 0
    <3> DEFINE a == Needed * ExtraPerNeeded
               c == IF MaxAttempts = 0 THEN 1 ELSE MaxAttempts
    <3>1. a \in Nat /\ a >= Needed /\ c \in Nat
      BY <1>3, <2>1, Limits
    <3>2. budget' = [spawns |-> Needed, attempts |-> IF a < c THEN c ELSE a]
      BY <1>4, <2>1 DEF Ensure
    <3> HIDE DEF a, c
    <3>3. budget' \in [spawns : Nat, attempts : Nat] /\ budget'.spawns = Needed
          /\ budget'.attempts >= Needed
      BY <1>3, <2>1, <3>1, <3>2
    <3> QED BY <1>1, <1>2, <1>3, <1>4, <3>3 DEF Inv, BudgetInv, Ensure, MinimumKept
  <2>2. CASE ~ (Needed > 0)
    <3>1. budget' = [spawns |-> 0, attempts |-> 0]
      BY <1>4, <2>2 DEF Ensure
    <3> QED BY <1>1, <1>2, <1>4, <2>2, <3>1 DEF Inv, BudgetInv, Ensure, MinimumKept
  <2> QED BY <2>1, <2>2
<1>5. CASE EnsureDone
  <2>1. stage = "ensure" /\ stage' = "move" /\ ~ MayTry /\ budget' = [spawns |-> 0, attempts |-> 0]
    BY <1>5 DEF EnsureDone
  <2>2. ASSUME ~ failed
        PROVE  Cardinality(active) >= MinActive \/ Full \/ active = Objects
    <3>1. CASE high \o low = <<>>
      <4>1. high = <<>> /\ low = <<>>
        BY <3>1, ConcatEqualIffEmpty DEF Inv, QueueInv
      <4>2. ToSet(high) = {} /\ ToSet(low) = {}
        BY <4>1 DEF ToSet
      <4> QED BY <4>2 DEF Inv, QueueInv
    <3>2. CASE budget.spawns = 0 \/ budget.attempts = 0
      <4>1. budget.spawns \in Nat /\ budget.attempts \in Nat
        BY DEF Inv, BudgetInv
      <4>2. ~ (Needed > 0)
        BY <1>3, <2>1, <2>2, <3>2, <4>1 DEF Inv, BudgetInv
      <4> QED BY <1>3, <4>2, Limits DEF Needed
    <3>3. budget.spawns \in Nat /\ budget.attempts \in Nat
      BY DEF Inv, BudgetInv
    <3> QED BY <2>1, <3>1, <3>2, <3>3 DEF MayTry
  <2>3. MinimumKept'
    BY <1>1, <2>2 DEF MinimumKept, Full
  <2> QED BY <1>1, <1>2, <2>1, <2>3 DEF Inv, BudgetInv
<1> QED BY <1>4, <1>5

\* Nobody is spawned or despawned while the objects move.
LEMMA MoveInv == Inv /\ Move => Inv'
<1> SUFFICES ASSUME Inv, Move PROVE Inv'
  OBVIOUS
<1>1. /\ UNCHANGED <<high, low, active, budget, failed, view, stuck, retryIn>>
      /\ stage' = "manage"
  BY DEF Move, queues, timers
<1>2. PICK event \in [active -> {"none", "pause", "end", "hit"}] :
        body' = [o \in Objects |-> IF o \in active THEN After(body[o], event[o]) ELSE body[o]]
  BY DEF Move
<1>3. body' \in [Objects -> Bodies]
  <2> SUFFICES ASSUME NEW o \in Objects
               PROVE  (IF o \in active THEN After(body[o], event[o]) ELSE body[o]) \in Bodies
    BY <1>2
  <2>1. body[o] \in Bodies
    BY DEF Inv, BodyInv
  <2>2. o \in active => event[o] \in {"none", "pause", "end", "hit"}
    OBVIOUS
  <2> QED BY <2>1, <2>2, BodyTypes
<1>4. QueuedAreClean'
  BY <1>1, <1>2 DEF Inv, BodyInv, QueuedAreClean
<1>5. QueueInv'
  BY <1>1 DEF Inv, QueueInv
<1>6. BudgetInv'
  BY <1>1 DEF Inv, BudgetInv, MinimumKept
<1>7. BodyInv'
  BY <1>1, <1>3, <1>4 DEF Inv, BodyInv
<1> QED BY <1>5, <1>6, <1>7 DEF Inv

\* The object that is tried is the first of its queue, and waits in that only.
LEMMA FirstInLine ==
  ASSUME QueueInv, high \o low # <<>>
  PROVE  LET o == Head(high \o low) IN
         /\ o \in Objects \ active
         /\ high # <<>> => o = Head(high) /\ o \in ToSet(high)
         /\ high = <<>> => low # <<>> /\ o = Head(low) /\ o \in ToSet(low)
<1>1. high \in Seq(Objects) /\ low \in Seq(Objects)
  BY DEF QueueInv
<1>2. CASE high # <<>>
  <2>1. Head(high \o low) = Head(high)
    <3>1. Len(high) \in Nat \ {0} /\ Len(low) \in Nat
      BY <1>1, <1>2, EmptySeq, LenProperties
    <3>2. (high \o low)[1] = high[1]
      BY <1>1, <3>1, ConcatProperties
    <3> QED BY <3>2
  <2>2. Head(high) \in ToSet(high)
    BY <1>1, <1>2, TailUnique DEF QueueInv
  <2> QED BY <1>2, <2>1, <2>2 DEF QueueInv
<1>3. CASE high = <<>>
  <2>1. high \o low = low
    BY <1>1, <1>3, ConcatEmptySeq
  <2>2. Head(low) \in ToSet(low)
    BY <1>1, <2>1, TailUnique DEF QueueInv
  <2> QED BY <1>3, <2>1, <2>2 DEF QueueInv
<1> QED BY <1>2, <1>3

\* Dequeuing takes that object out of its queue and leaves the other queue alone.
LEMMA Dequeued ==
  ASSUME QueueInv, high \o low # <<>>, Dequeue
  PROVE  LET o == Head(high \o low) IN
         /\ high' \in Seq(Objects) /\ low' \in Seq(Objects)
         /\ IsInjective(high') /\ IsInjective(low')
         /\ ToSet(high') = ToSet(high) \ {o} /\ ToSet(low') = ToSet(low) \ {o}
<1> DEFINE o == Head(high \o low)
<1>1. /\ high # <<>> => o = Head(high) /\ o \in ToSet(high)
      /\ high = <<>> => low # <<>> /\ o = Head(low) /\ o \in ToSet(low)
  BY FirstInLine
<1>2. /\ high \in Seq(Objects) /\ low \in Seq(Objects)
      /\ IsInjective(high) /\ IsInjective(low) /\ ToSet(high) \cap ToSet(low) = {}
  BY DEF QueueInv
<1> HIDE DEF o
<1>3. CASE high # <<>>
  <2>1. high' = Tail(high) /\ low' = low
    BY <1>3 DEF Dequeue
  <2>2. Tail(high) \in Seq(Objects) /\ IsInjective(Tail(high)) /\ ToSet(Tail(high)) = ToSet(high) \ {o}
    BY <1>1, <1>2, <1>3, TailUnique
  <2>3. ToSet(low) = ToSet(low) \ {o}
    BY <1>1, <1>2, <1>3
  <2> QED BY <1>2, <2>1, <2>2, <2>3 DEF o
<1>4. CASE high = <<>>
  <2>1. low' = Tail(low) /\ high' = high
    BY <1>4 DEF Dequeue
  <2>2. Tail(low) \in Seq(Objects) /\ IsInjective(Tail(low)) /\ ToSet(Tail(low)) = ToSet(low) \ {o}
    BY <1>1, <1>2, <1>4, TailUnique
  <2>3. ToSet(high) = ToSet(high) \ {o}
    BY <1>1, <1>2, <1>4
  <2> QED BY <1>2, <2>1, <2>2, <2>3 DEF o
<1> QED BY <1>3, <1>4

\* Requeuing only puts it behind the others.
LEMMA Requeued ==
  ASSUME QueueInv, high \o low # <<>>, Requeue(Head(high \o low))
  PROVE  QueueInv'
<1> DEFINE o == Head(high \o low)
<1>1. /\ o \in Objects
      /\ high # <<>> => o = Head(high) /\ o \in ToSet(high)
      /\ high = <<>> => low # <<>> /\ o = Head(low) /\ o \in ToSet(low)
  BY FirstInLine
<1>2. /\ high \in Seq(Objects) /\ low \in Seq(Objects)
      /\ IsInjective(high) /\ IsInjective(low) /\ ToSet(high) \cap ToSet(low) = {}
      /\ active' = active
  BY DEF QueueInv, Requeue
<1>3. /\ high # <<>> => high' = Append(Tail(high), o) /\ low' = low
      /\ high = <<>> => low' = Append(Tail(low), o) /\ high' = high
  BY DEF Requeue
<1> HIDE DEF o
<1>4. CASE high # <<>>
  <2>1. Tail(high) \in Seq(Objects) /\ IsInjective(Tail(high)) /\ ToSet(Tail(high)) = ToSet(high) \ {o}
    BY <1>1, <1>2, <1>4, TailUnique
  <2>2. /\ Append(Tail(high), o) \in Seq(Objects) /\ IsInjective(Append(Tail(high), o))
        /\ ToSet(Append(Tail(high), o)) = ToSet(Tail(high)) \cup {o}
    <3>1. PICK x \in Objects : x = o
      BY <1>1
    <3>2. PICK r \in Seq(Objects) : r = Tail(high)
      BY <2>1
    <3>3. x \notin ToSet(r) /\ IsInjective(r)
      BY <1>1, <2>1, <3>1, <3>2
    <3>4. /\ Append(r, x) \in Seq(Objects) /\ IsInjective(Append(r, x))
          /\ ToSet(Append(r, x)) = ToSet(r) \cup {x}
      BY <3>3, AppendUnique
    <3> QED BY <3>1, <3>2, <3>4
  <2>3. ToSet(high') = ToSet(high) /\ high' \in Seq(Objects) /\ IsInjective(high') /\ low' = low
    BY <1>1, <1>3, <1>4, <2>1, <2>2
  <2> QED BY <1>2, <2>3 DEF QueueInv
<1>5. CASE high = <<>>
  <2>1. Tail(low) \in Seq(Objects) /\ IsInjective(Tail(low)) /\ ToSet(Tail(low)) = ToSet(low) \ {o}
    BY <1>1, <1>2, <1>5, TailUnique
  <2>2. /\ Append(Tail(low), o) \in Seq(Objects) /\ IsInjective(Append(Tail(low), o))
        /\ ToSet(Append(Tail(low), o)) = ToSet(Tail(low)) \cup {o}
    <3>1. PICK x \in Objects : x = o
      BY <1>1
    <3>2. PICK r \in Seq(Objects) : r = Tail(low)
      BY <2>1
    <3>3. x \notin ToSet(r) /\ IsInjective(r)
      BY <1>1, <2>1, <3>1, <3>2
    <3>4. /\ Append(r, x) \in Seq(Objects) /\ IsInjective(Append(r, x))
          /\ ToSet(Append(r, x)) = ToSet(r) \cup {x}
      BY <3>3, AppendUnique
    <3> QED BY <3>1, <3>2, <3>4
  <2>3. ToSet(low') = ToSet(low) /\ low' \in Seq(Objects) /\ IsInjective(low') /\ high' = high
    BY <1>1, <1>3, <1>5, <2>1, <2>2
  <2> QED BY <1>2, <2>3 DEF QueueInv
<1> QED BY <1>4, <1>5

\* An attempt brings one object into the world, or fails.
LEMMA TryInv == Inv /\ Try => Inv'
<1> SUFFICES ASSUME Inv, Try PROVE Inv'
  OBVIOUS
<1> DEFINE o == Head(high \o low)
<1>1. /\ stage' = stage /\ stuck' = stuck /\ retryIn' = retryIn
      /\ stage \in {"spawn", "ensure"} /\ MayTry
  BY DEF Try, timers
<1>2. high \o low # <<>> /\ Cardinality(active) < MaxActive
  <2>1. Cardinality(active) \in Nat
    BY Counted DEF Inv, QueueInv
  <2> QED BY <1>1, <2>1, Limits DEF MayTry, Full
<1>3. o \in Objects \ active
  BY <1>2, FirstInLine DEF Inv
<1>4. budget.spawns \in Nat /\ budget.attempts \in Nat /\ budget.spawns > 0 /\ budget.attempts > 0
      /\ budget = [spawns |-> budget.spawns, attempts |-> budget.attempts]
  BY <1>1 DEF Inv, BudgetInv, MayTry
<1>5. ASSUME Requeue(o), failed' = TRUE, budget' = [budget EXCEPT !.attempts = @ - 1],
             UNCHANGED <<view, body>>
      PROVE  Inv'
  <2>1. QueueInv'
    BY <1>2, <1>5, Requeued DEF Inv
  <2>2. budget' = [spawns |-> budget.spawns, attempts |-> budget.attempts - 1]
    BY <1>4, <1>5
  <2>3. budget' \in [spawns : Nat, attempts : Nat]
    BY <1>4, <2>2
  <2>4. BudgetInv'
    BY <1>1, <1>5, <2>3 DEF Inv, BudgetInv, MinimumKept
  <2>5. BodyInv'
    BY <1>1, <1>5 DEF Inv, BodyInv, QueuedAreClean, Requeue
  <2> QED BY <2>1, <2>4, <2>5 DEF Inv
<1>6. ASSUME NEW pose \in Poses, pose # "none",
             Dequeue, active' = active \cup {o}, view' = [view EXCEPT ![o] = pose],
             body' = [body EXCEPT ![o] = activate(body[o])],
             budget' = [spawns |-> budget.spawns - 1, attempts |-> budget.attempts - 1],
             UNCHANGED failed
      PROVE  Inv'
  <2>1. /\ high' \in Seq(Objects) /\ low' \in Seq(Objects)
        /\ IsInjective(high') /\ IsInjective(low')
        /\ ToSet(high') = ToSet(high) \ {o} /\ ToSet(low') = ToSet(low) \ {o}
    BY <1>2, <1>6, Dequeued DEF Inv
  <2>2. IsFiniteSet(active) /\ Cardinality(active) \in Nat
    BY Counted DEF Inv, QueueInv
  <2>3. Cardinality(active') = Cardinality(active) + 1
    BY <1>3, <1>6, <2>2, FS_AddElement
  <2>4. QueueInv'
    <3>1. active' \subseteq Objects
      BY <1>3, <1>6 DEF Inv, QueueInv
    <3>3. Cardinality(active') <= MaxActive
      BY <1>2, <2>2, <2>3, Limits
    <3>2. ToSet(high') \cap ToSet(low') = {} /\ ToSet(high') \cup ToSet(low') = Objects \ active'
      BY <1>6, <2>1 DEF Inv, QueueInv
    <3> QED BY <2>1, <3>1, <3>2, <3>3 DEF QueueInv
  <2>5. BudgetInv'
    <3>1. budget' \in [spawns : Nat, attempts : Nat] /\ budget'.spawns = budget.spawns - 1
          /\ budget'.attempts = budget.attempts - 1
      BY <1>4, <1>6
    <3>2. Needed' = Needed - 1 /\ Needed \in Int
      BY <2>2, <2>3, Limits DEF Needed
    <3> QED BY <1>1, <1>4, <1>6, <3>1, <3>2 DEF Inv, BudgetInv, MinimumKept
  <2>6. BodyInv'
    <3>1. pose \in Views
      BY <1>6 DEF Poses, Views, Visible
    <3>2. activate(body[o]) \in Bodies
      BY <1>3, BodyTypes DEF Inv, BodyInv
    <3>3. view' \in [Objects -> Views \cup {Outside}] /\ body' \in [Objects -> Bodies]
      BY <1>6, <3>1, <3>2 DEF Inv, BodyInv
    <3>4. QueuedAreClean'
      BY <1>1, <1>6 DEF Inv, BodyInv, QueuedAreClean
    <3> QED BY <1>1, <3>3, <3>4 DEF Inv, BodyInv
  <2> QED BY <2>4, <2>5, <2>6 DEF Inv
<1> QED BY <1>5, <1>6 DEF Try

\* The round of check_and_despawn_objects() queues what it takes away, without a
\* history.
LEMMA ManageInv == Inv /\ Manage => Inv'
<1> SUFFICES ASSUME Inv, Manage PROVE Inv'
  OBVIOUS
<1>1. /\ stage' = "spawn" /\ failed' = FALSE /\ low' = low
      /\ budget' = [spawns |-> MaxSpawns, attempts |-> MaxAttempts]
  BY DEF Manage
<1>2. PICK now \in [active -> Views] :
        view' = [o \in Objects |-> IF o \in active THEN now[o] ELSE Outside]
  BY DEF Manage
<1>3. PICK rerouted \in SUBSET {o \in active : Reroutes(o)} :
        LET out == {o \in active : Gone(o) \/ (GivenUp(o) /\ o \notin rerouted)} IN
         /\ active' = active \ out
         /\ \E order \in SetToSeqs(out) : high' = high \o order
         /\ body' = [o \in Objects |->
              IF o \in out THEN deactivate(body[o])
              ELSE IF o \in rerouted THEN override_waypoints(body[o]) ELSE body[o]]
         /\ stuck' = [o \in Objects |->
              IF o \notin active \/ Forget(o, o \in out) THEN None ELSE StuckFor(o)]
         /\ retryIn' = [o \in Objects |->
              IF o \notin active \/ Forget(o, o \in out) \/ o \in rerouted THEN 0
              ELSE IF Reroutes(o) THEN RetryInterval ELSE RetryIn(o)]
  BY DEF Manage
<1> DEFINE out == {o \in active : Gone(o) \/ (GivenUp(o) /\ o \notin rerouted)}
<1>4. out \subseteq active /\ active \subseteq Objects /\ rerouted \subseteq active
  BY DEF Inv, QueueInv
<1>5. /\ active' = active \ out
      /\ \E order \in SetToSeqs(out) : high' = high \o order
      /\ body' = [o \in Objects |->
           IF o \in out THEN deactivate(body[o])
           ELSE IF o \in rerouted THEN override_waypoints(body[o]) ELSE body[o]]
      /\ stuck' = [o \in Objects |->
           IF o \notin active \/ Forget(o, o \in out) THEN None ELSE StuckFor(o)]
      /\ retryIn' = [o \in Objects |->
           IF o \notin active \/ Forget(o, o \in out) \/ o \in rerouted THEN 0
           ELSE IF Reroutes(o) THEN RetryInterval ELSE RetryIn(o)]
  BY <1>3
<1> HIDE DEF out
<1>6. QueueInv'
  <2>1. PICK order \in SetToSeqs(out) : high' = high \o order
    BY <1>5
  <2>2. IsFiniteSet(out) /\ out \subseteq Objects
    BY <1>4, Counted
  <2>3. order \in Seq(out) /\ IsInjective(order) /\ ToSet(order) = out
    BY <2>2, Orders
  <2>4. order \in Seq(Objects) /\ high \in Seq(Objects) /\ low \in Seq(Objects)
    BY <2>2, <2>3, SeqMonotonic DEF Inv, QueueInv
  <2>5. ToSet(high) \cap ToSet(order) = {} /\ IsInjective(high)
    BY <1>4, <2>3 DEF Inv, QueueInv
  <2>6. high' \in Seq(Objects) /\ IsInjective(high') /\ ToSet(high') = ToSet(high) \cup out
    <3>1. high \o order \in Seq(Objects)
      BY <2>4, ConcatProperties
    <3>2. IsInjective(high \o order)
      BY <2>3, <2>4, <2>5, ConcatUnique
    <3>3. ToSet(high \o order) = ToSet(high) \cup ToSet(order)
      BY <2>4, ConcatSet
    <3> QED BY <2>1, <2>3, <3>1, <3>2, <3>3
  <2>7. Cardinality(active') <= MaxActive
    <3>1. active' \subseteq active
      BY <1>5
    <3>2. IsFiniteSet(active) /\ Cardinality(active) \in Nat
      BY <1>4, Counted
    <3>3. Cardinality(active') <= Cardinality(active) /\ Cardinality(active') \in Nat
      BY <3>1, <3>2, FS_Subset, FS_CardinalityType
    <3> QED BY <3>2, <3>3, Limits DEF Inv, QueueInv
  <2>8. ToSet(high') \cap ToSet(low') = {} /\ ToSet(high') \cup ToSet(low') = Objects \ active'
    BY <1>1, <1>4, <1>5, <2>6 DEF Inv, QueueInv
  <2>9. IsInjective(low') /\ low' \in Seq(Objects) /\ active' \subseteq Objects
    BY <1>1, <1>4, <1>5 DEF Inv, QueueInv
  <2> QED BY <2>6, <2>7, <2>8, <2>9 DEF QueueInv
<1>7. BudgetInv'
  BY <1>1, Limits DEF BudgetInv, MinimumKept
<1>8. BodyInv'
  <2>1. view' \in [Objects -> Views \cup {Outside}]
    BY <1>2
  <2>2. \A o \in Objects : /\ deactivate(body[o]) \in Bodies /\ override_waypoints(body[o]) \in Bodies
                          /\ body[o] \in Bodies /\ deactivate(body[o]).state = "INACTIVE"
    BY BodyTypes DEF Inv, BodyInv
  <2>3. body' \in [Objects -> Bodies]
    BY <1>5, <2>2
  <2>4. stuck' \in [Objects -> Nat \cup {None}]
    <3>1. \A o \in Objects : StuckFor(o) \in Nat \cup {None}
      BY Limits DEF Inv, BodyInv, StuckFor, None
    <3> QED BY <1>5, <3>1
  <2>5. retryIn' \in [Objects -> Nat]
    <3>1. \A o \in Objects : RetryIn(o) \in Nat
      BY DEF Inv, BodyInv, RetryIn
    <3> QED BY <1>5, <3>1, Limits
  <2>6. QueuedAreClean'
    <3> SUFFICES ASSUME NEW o \in Objects \ active'
                 PROVE  stuck'[o] = None /\ retryIn'[o] = 0 /\ body'[o].state = "INACTIVE"
      BY DEF QueuedAreClean
    <3>1. CASE o \in out
      BY <1>5, <2>2, <3>1 DEF Forget
    <3>2. CASE o \notin active
      <4>1. o \notin out /\ o \notin rerouted
        BY <1>4, <3>2
      <4> QED BY <1>5, <3>2, <4>1 DEF Inv, BodyInv, QueuedAreClean
    <3> QED BY <1>5, <3>1, <3>2
  <2> QED BY <2>1, <2>3, <2>4, <2>5, <2>6 DEF BodyInv
<1> QED BY <1>6, <1>7, <1>8 DEF Inv

\* The invariant always holds.
THEOREM Invariance == Spec => []Inv
<1>1. Inv /\ UNCHANGED vars => Inv'
  BY DEF Inv, QueueInv, BudgetInv, MinimumKept, Needed, Full, BodyInv, QueuedAreClean,
         vars, queues, timers
<1>2. Inv /\ [Next]_vars => Inv'
  BY <1>1, ManageInv, TryInv, EnsureInv, MoveInv DEF Next
<1> QED BY <1>2, InitInv, PTL DEF Spec

-----------------------------------------------------------------------------
(* The theorems.                                                           *)

\* Every object is active or queued once, clean while it is queued, within the
\* limit, and the minimum is kept when the searches succeed, whatever the limits
\* are: SpawnManager::update().
THEOREM NoneIsLost == Spec => []Accounted
<1>1. Inv => Accounted
  <2> SUFFICES ASSUME Inv PROVE Accounted
    OBVIOUS
  <2>1. TypeOK
    BY DEF Inv, QueueInv, BudgetInv, BodyInv, TypeOK
  <2>2. high \in Seq(Objects) /\ low \in Seq(Objects)
    BY DEF Inv, QueueInv
  <2>3. IsInjective(high \o low)
    BY <2>2, ConcatUnique DEF Inv, QueueInv
  <2>4. ToSet(high \o low) = Objects \ active
    BY <2>2, ConcatSet DEF Inv, QueueInv
  <2> QED BY <2>1, <2>3, <2>4 DEF Inv, QueueInv, BudgetInv, BodyInv, Accounted
<1> QED BY <1>1, Invariance, PTL

\* With avoid_fov, nothing appears or vanishes while the robot sees it, for
\* whichever of the four reasons it goes and wherever it is put:
\* check_and_despawn_objects() and find_spawn_pose().
THEOREM NothingPops ==
  ASSUME AvoidFov
  PROVE  Spec => NoPopping
<1>1. Inv /\ [Next]_vars =>
        [\A o \in Objects : (o \in active) # (o \in active') => view'[o] \notin Visible]_vars
  <2> SUFFICES ASSUME Inv, Next, NEW o \in Objects, (o \in active) # (o \in active')
               PROVE  view'[o] \notin Visible
    OBVIOUS
  <2>1. CASE Manage
    <3>1. o \in active /\ (Gone(o) \/ GivenUp(o))
      BY <2>1 DEF Manage
    <3> QED BY <3>1 DEF Gone, GivenUp, hidden, Visible
  <2>2. CASE Try
    <3> DEFINE p == Head(high \o low)
    <3>1. PICK pose \in Poses : /\ active' = active \cup {p} /\ pose # "none"
                               /\ view' = [view EXCEPT ![p] = pose]
      BY <2>2 DEF Try, Requeue
    <3>2. view \in [Objects -> Views \cup {Outside}]
      BY DEF Inv, BodyInv
    <3> HIDE DEF p
    <3>3. o = p
      BY <3>1
    <3>4. view'[o] = pose
      BY <3>1, <3>2, <3>3
    <3> QED BY <3>1, <3>4 DEF Poses, Visible
  <2>3. CASE Ensure \/ EnsureDone \/ Move
    BY <2>3 DEF Ensure, EnsureDone, Move, queues
  <2> QED BY <2>1, <2>2, <2>3 DEF Next
<1> QED BY <1>1, Invariance, PTL DEF Spec, NoPopping
=============================================================================
