----------------------------- MODULE ThreadSplit -----------------------------
(***************************************************************************)
(* How Worker::init() divides the machine's hardware threads between the   *)
(* simulator instances, one thread each, and the ray-casting pool.  Both   *)
(* numbers come from 16-bit configuration fields, 0 meaning automatic, so  *)
(* the 32-bit sums of the code cannot wrap.                                *)
(***************************************************************************)
EXTENDS Integers

CONSTANTS
  MaxHw,   \* bound on hardware_concurrency()
  MaxPin   \* bound on a configured number of threads

ASSUME SplitAssumption == MaxHw \in Nat /\ MaxPin \in Nat

VARIABLES
  hw,   \* hardware_concurrency(), which may be 0
  viz,  \* enable_visualization
  sim,  \* n_sim_thr
  ray,  \* n_ray_thr
  step  \* "config", then "chosen", then "clamped"

splitVars == <<hw, viz, sim, ray, step>>

AtLeast(a, b) == IF a >= b THEN a ELSE b
AtMost(a, b)  == IF a <= b THEN a ELSE b

Cores    == AtLeast(1, hw)
Reserved == AtMost(Cores, IF viz THEN 3 ELSE 2)
Avail    == IF Cores > Reserved THEN Cores - Reserved ELSE 1

\* What is left to one side when the other one has n threads.
Rest(n) == IF Cores > Reserved + n THEN Cores - Reserved - n ELSE 1

SplitInit ==
  /\ hw \in 0..MaxHw /\ viz \in BOOLEAN
  /\ sim \in 0..MaxPin /\ ray \in 0..MaxPin
  /\ step = "config"

\* floor(avail * 0.8): the double 0.8 is above 4/5 by less than any gap here.
BothAuto ==
  LET share == AtLeast(1, (4 * Avail) \div 5)
  IN /\ sim = 0 /\ ray = 0
     /\ sim' = share /\ ray' = AtLeast(1, Avail - share)

RaysAuto == sim > 0 /\ ray = 0 /\ ray' = Rest(sim) /\ sim' = sim
SimsAuto == sim = 0 /\ ray > 0 /\ sim' = Rest(ray) /\ ray' = ray
Pinned   == sim > 0 /\ ray > 0 /\ UNCHANGED <<sim, ray>>

Choose ==
  /\ step = "config" /\ step' = "chosen"
  /\ BothAuto \/ RaysAuto \/ SimsAuto \/ Pinned
  /\ UNCHANGED <<hw, viz>>

\* Mutant of Clamp: lets the ray threads have all that is available.
Clamp_RaysFirst ==
  LET fit  == sim + ray <= Avail
      rays == IF fit THEN ray ELSE AtLeast(1, AtMost(ray, Avail))
  IN /\ step = "chosen" /\ step' = "clamped"
     /\ ray' = AtMost(8, rays)
     /\ sim' = IF fit THEN sim ELSE AtLeast(1, Avail - rays)
     /\ UNCHANGED <<hw, viz>>

Clamp ==
  LET fit  == sim + ray <= Avail
      rays == IF fit THEN ray ELSE AtLeast(1, AtMost(ray, Avail - 1))
  IN /\ step = "chosen" /\ step' = "clamped"
     /\ ray' = AtMost(8, rays)
     /\ sim' = IF fit THEN sim ELSE AtLeast(1, Avail - rays)
     /\ UNCHANGED <<hw, viz>>

SplitNext == Choose \/ Clamp

SplitSpec == SplitInit /\ [][SplitNext]_splitVars

-----------------------------------------------------------------------------
(* Properties.                                                             *)

\* Whatever the configuration asks for, a machine with two available threads
\* or more is not oversubscribed, neither side starves, and the simulators
\* and the pool together with the reserved threads fit on the cores.
SplitFits ==
  step = "clamped" =>
    /\ sim >= 1 /\ ray \in 1..8
    /\ Avail >= 2 => sim + ray <= Avail /\ Reserved + sim + ray <= Cores

\* A choice made automatically is never cut down afterwards, as long as the
\* pinned number leaves a thread to the other side.
ChoiceStands ==
  [][Choose /\ (sim = 0 \/ ray = 0) /\ sim < Avail /\ ray < Avail /\ Avail >= 2
       => sim' + ray' = Avail]_splitVars
=============================================================================
