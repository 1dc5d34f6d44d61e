------------------------- MODULE Simulation_proofs -------------------------
(* Proofs about Simulation, for any decision period, limits, route, length  *)
(* of a fragment, and number of policies and episodes.                      *)
EXTENDS Simulation, SequenceTheorems, TLAPS

-----------------------------------------------------------------------------
(* The episode.                                                            *)

PCs == {"reset", "act", "step", "substeps", "complete", "ended"}

Episodes == [t : Nat, k : 0 .. K, steps : Nat, dwell : Nat, wp : 1 .. Waypoints, goal : BOOLEAN,
             stepGoal : BOOLEAN, over : BOOLEAN, bonus : Nat]

EpisodeTypes ==
  /\ pc \in PCs /\ config \in Configs /\ sim \in Episodes /\ reached \in BOOLEAN
  /\ done \in [have : BOOLEAN, success : BOOLEAN]

\* The goal: the simulator's flag, the history, the flag of the decision and
\* the bonus agree on it.
GoalInv ==
  /\ sim.goal <=> reached
  /\ reached => sim.bonus > 0
  /\ ~ reached => sim.bonus = 0
  /\ sim.stepGoal => sim.goal
  /\ pc = "substeps" /\ sim.k > 0 /\ sim.goal => sim.stepGoal
  /\ done.have => (done.success <=> reached)

\* The end: what ends an episode, and that it is asked for no decision then.
EndInv ==
  /\ config.goalEnds /\ sim.goal => sim.over
  /\ Timeout > 0 /\ sim.dwell >= Timeout => sim.over
  /\ pc \in {"act", "step"} => ~ sim.over
  /\ pc \in {"act", "step", "complete"} /\ ~ sim.over =>
       /\ config.steps > 0 => sim.steps < config.steps
       /\ config.time > 0 => sim.t < config.time
  /\ done.have => sim.over /\ pc \in {"complete", "reset", "ended"}
  /\ config.goalEnds => sim.bonus <= (IF pc = "substeps" THEN sim.k ELSE K)

EpisodeInv == EpisodeTypes /\ GoalInv /\ EndInv

\* The constants are numbers, and so are the limits.
LEMMA Numbers ==
  /\ K \in Nat \ {0} /\ Waypoints \in Nat \ {0} /\ Phases \in Nat \ {0} /\ Window \in Nat \ {0}
  /\ Unroll \in Nat \ {0} /\ Timeout \in Nat /\ Wins \in Nat /\ MaxVersion \in Nat
  /\ \A c \in Configs : c.steps \in Nat /\ c.time \in Nat /\ c.goalEnds \in BOOLEAN
BY SimulationAssumption DEF SimulationAssumption

\* Each episode starts undecided, and within every limit.
LEMMA NewIsFresh ==
  /\ NewEpisode \in Episodes
  /\ NewEpisode.t = 0 /\ NewEpisode.k = 0 /\ NewEpisode.steps = 0 /\ NewEpisode.dwell = 0
  /\ NewEpisode.bonus = 0 /\ ~ NewEpisode.goal /\ ~ NewEpisode.stepGoal /\ ~ NewEpisode.over
  /\ Undecided \in [have : BOOLEAN, success : BOOLEAN] /\ ~ Undecided.have
BY Numbers DEF NewEpisode, Episodes, Undecided

\* An episode that has not begun is within every limit.
LEMMA EpisodeInit == Init => EpisodeInv
<1> SUFFICES ASSUME Init PROVE EpisodeInv
  OBVIOUS
<1>1. EpisodeTypes
  BY NewIsFresh DEF Init, EpisodeTypes, PCs
<1>2. GoalInv
  BY NewIsFresh DEF Init, GoalInv
<1>3. EndInv
  BY NewIsFresh, Numbers DEF Init, EndInv
<1> QED BY <1>1, <1>2, <1>3 DEF EpisodeInv

\* So is the next one.
LEMMA EpisodeReset == EpisodeInv /\ Reset => EpisodeInv'
<1> SUFFICES ASSUME EpisodeInv, Reset PROVE EpisodeInv'
  OBVIOUS
<1>1. /\ sim' = NewEpisode /\ reached' = FALSE /\ pc' = "act" /\ done' = Undecided /\ config' = config
  BY DEF Reset, Forget
<1>2. config \in Configs
  BY DEF EpisodeInv, EpisodeTypes
<1>3. EpisodeTypes'
  BY <1>1, <1>2, NewIsFresh DEF EpisodeTypes, PCs
<1>4. GoalInv'
  BY <1>1, NewIsFresh DEF GoalInv
<1>5. EndInv'
  BY <1>1, <1>2, NewIsFresh, Numbers DEF EndInv
<1> QED BY <1>3, <1>4, <1>5 DEF EpisodeInv

\* A waypoint that is reached changes the route and the goal only.
LEMMA ReachGoes ==
  ASSUME NEW r \in Episodes, NEW near \in BOOLEAN
  PROVE  /\ Reach(r, near) \in Episodes
         /\ Reach(r, near).t = r.t /\ Reach(r, near).k = r.k /\ Reach(r, near).steps = r.steps
         /\ Reach(r, near).dwell = r.dwell /\ Reach(r, near).bonus = r.bonus
         /\ Reach(r, near).over = r.over /\ Reach(r, near).stepGoal = r.stepGoal
         /\ r.goal => Reach(r, near).goal
<1>1. CASE near /\ ~ r.goal /\ r.wp < Waypoints
  <2>1. Reach(r, near) = [r EXCEPT !.wp = r.wp + 1]
    BY <1>1 DEF Reach
  <2>2. r.wp + 1 \in 1 .. Waypoints
    BY <1>1, Numbers DEF Episodes
  <2> QED BY <1>1, <2>1, <2>2 DEF Episodes
<1>2. CASE near /\ ~ r.goal /\ ~ (r.wp < Waypoints)
  <2>1. Reach(r, near) = [r EXCEPT !.goal = TRUE]
    BY <1>2 DEF Reach
  <2> QED BY <1>2, <2>1 DEF Episodes
<1>3. CASE ~ (near /\ ~ r.goal)
  BY <1>3 DEF Reach
<1> QED BY <1>1, <1>2, <1>3

\* A substep ends the episode if it has to.
LEMMA EpisodeSubstep == EpisodeInv /\ Substep => EpisodeInv'
<1> SUFFICES ASSUME EpisodeInv, Substep PROVE EpisodeInv'
  OBVIOUS
<1> USE DEF EpisodeInv
<1>1. pc = "substeps" /\ sim.k < K /\ sim \in Episodes /\ config \in Configs
  BY DEF Substep, EpisodeTypes
<1>2. PICK collision \in {"none", "mild", "severe"}, near \in BOOLEAN, stalled \in BOOLEAN :
        LET s == Reach(sim, near)
            d == Dwelled(sim, collision)
            ends == \/ collision = "severe"
                    \/ Timeout > 0 /\ d >= Timeout
                    \/ s.goal /\ config.goalEnds
                    \/ stalled
        IN /\ sim' = [s EXCEPT !.t = @ + 1, !.k = @ + 1, !.dwell = d,
                        !.over = @ \/ ends, !.stepGoal = @ \/ s.goal,
                        !.bonus = Paid(@, s.goal)]
           /\ reached' = (reached \/ s.goal)
  BY DEF Substep
<1> DEFINE s == Reach(sim, near)
           d == Dwelled(sim, collision)
           ends == \/ collision = "severe"
                   \/ Timeout > 0 /\ d >= Timeout
                   \/ s.goal /\ config.goalEnds
                   \/ stalled
<1>3. /\ s \in Episodes /\ s.t = sim.t /\ s.k = sim.k /\ s.steps = sim.steps /\ s.bonus = sim.bonus
      /\ s.over = sim.over /\ s.stepGoal = sim.stepGoal
      /\ sim.goal => s.goal
  BY <1>1, ReachGoes
<1>4. d \in Nat
  BY <1>1 DEF Dwelled, Episodes
<1>5. Paid(s.bonus, s.goal) \in Nat
  BY <1>3, Numbers DEF Paid, Episodes
<1>6. sim' = [s EXCEPT !.t = s.t + 1, !.k = s.k + 1, !.dwell = d,
                       !.over = s.over \/ ends, !.stepGoal = s.stepGoal \/ s.goal,
                       !.bonus = Paid(s.bonus, s.goal)]
  BY <1>2
<1>7. UNCHANGED <<pc, config, done>> /\ reached' = (reached \/ s.goal)
  BY <1>2 DEF Substep, currVars
<1>8. s.t + 1 \in Nat /\ s.k + 1 \in 0 .. K
  BY <1>1, <1>3, Numbers DEF Episodes
<1> HIDE DEF s, d, ends
<1>9. /\ sim'.t = s.t + 1 /\ sim'.k = s.k + 1 /\ sim'.dwell = d /\ sim'.steps = s.steps
      /\ sim'.over = (s.over \/ ends) /\ sim'.stepGoal = (s.stepGoal \/ s.goal)
      /\ sim'.bonus = Paid(s.bonus, s.goal) /\ sim'.goal = s.goal
  BY <1>3, <1>6 DEF Episodes
<1>10. sim' \in Episodes
  BY <1>3, <1>4, <1>5, <1>6, <1>8 DEF Episodes
<1>11. EpisodeTypes'
  BY <1>1, <1>3, <1>7, <1>10 DEF EpisodeTypes, Episodes
<1>12. /\ s.goal => sim'.bonus > 0 /\ sim'.bonus <= s.bonus + 1
       /\ ~ s.goal => sim'.bonus = s.bonus
  BY <1>3, <1>9, Numbers DEF Paid, Episodes
<1>13. sim.goal \in BOOLEAN /\ s.goal \in BOOLEAN /\ reached \in BOOLEAN /\ sim.over \in BOOLEAN
  BY <1>1, <1>3 DEF EpisodeTypes, Episodes
<1>14. (reached' <=> s.goal) /\ ~ done.have
  BY <1>1, <1>3, <1>7, <1>13 DEF GoalInv, EndInv
<1>15. GoalInv'
  <2>1. (sim.goal <=> reached) /\ (~ reached => sim.bonus = 0) /\ (sim.stepGoal => sim.goal)
    BY DEF GoalInv
  <2>2. ~ s.goal => sim'.bonus = 0
    BY <1>3, <1>12, <2>1
  <2>3. sim'.stepGoal <=> s.goal
    BY <1>3, <1>9, <2>1
  <2> QED BY <1>7, <1>9, <1>12, <1>14, <2>2, <2>3 DEF GoalInv
<1>16. EndInv'
  <2>1. config.goalEnds /\ s.goal => ends
    BY DEF ends
  <2>2. Timeout > 0 /\ d >= Timeout => ends
    BY DEF ends
  <2>3. ASSUME config.goalEnds PROVE sim'.bonus <= sim'.k
    <3>1. sim.bonus <= sim.k
      BY <1>1, <2>3 DEF EndInv
    <3>2. sim.k \in Nat /\ sim.bonus \in Nat
      BY <1>1, Numbers DEF Episodes
    <3>3. sim'.bonus = sim.bonus \/ sim'.bonus <= sim.bonus + 1
      BY <1>3, <1>12, <1>13
    <3>4. sim'.bonus <= sim.bonus + 1
      <4>1. sim.bonus <= sim.bonus + 1
        BY <3>2
      <4> QED BY <3>3, <4>1
    <3>5. sim'.k = sim.k + 1 /\ sim'.bonus \in Nat
      BY <1>3, <1>9, <1>10 DEF Episodes
    <3> QED BY <3>1, <3>2, <3>4, <3>5
  <2> QED BY <1>1, <1>7, <1>9, <1>14, <2>1, <2>2, <2>3 DEF EndInv
<1> QED BY <1>11, <1>15, <1>16

\* The limits are looked at after every decision, before the next one.
LEMMA EpisodeTick == EpisodeInv /\ Tick => EpisodeInv'
<1> SUFFICES ASSUME EpisodeInv, Tick PROVE EpisodeInv'
  OBVIOUS
<1> USE DEF EpisodeInv
<1> DEFINE limit == \/ config.steps > 0 /\ sim.steps + 1 >= config.steps
                    \/ config.time > 0 /\ sim.t >= config.time
           over == sim.over \/ limit
<1>1. /\ pc = "substeps" /\ sim.k = K /\ sim \in Episodes /\ config \in Configs
      /\ done \in [have : BOOLEAN, success : BOOLEAN] /\ reached \in BOOLEAN
  BY DEF Tick, EpisodeTypes
<1>2. /\ sim' = [sim EXCEPT !.over = over, !.steps = @ + 1]
      /\ done' = IF over THEN [have |-> TRUE, success |-> sim.stepGoal] ELSE done
      /\ pc' = "complete" /\ UNCHANGED <<config, reached>>
  BY DEF Tick
<1>3. over \in BOOLEAN /\ (sim.over => over) /\ (limit => over)
  BY <1>1 DEF Episodes
<1>4. ~ limit => /\ config.steps > 0 => sim.steps + 1 < config.steps
                 /\ config.time > 0 => sim.t < config.time
  BY <1>1, Numbers DEF Episodes
<1> HIDE DEF limit, over
<1>5. /\ sim'.t = sim.t /\ sim'.k = sim.k /\ sim'.steps = sim.steps + 1 /\ sim'.dwell = sim.dwell
      /\ sim'.goal = sim.goal /\ sim'.stepGoal = sim.stepGoal /\ sim'.over = over
      /\ sim'.bonus = sim.bonus
  BY <1>1, <1>2 DEF Episodes
<1>6. sim' \in Episodes
  <2>1. sim.steps + 1 \in Nat
    BY <1>1 DEF Episodes
  <2> QED BY <1>1, <1>2, <1>3, <2>1 DEF Episodes
<1>7. ~ done.have
  BY <1>1 DEF EndInv
<1>8. /\ over => done'.have /\ done'.success = sim.stepGoal
      /\ ~ over => ~ done'.have
      /\ done' \in [have : BOOLEAN, success : BOOLEAN]
  BY <1>1, <1>2, <1>7 DEF Episodes
<1>9. EpisodeTypes'
  BY <1>1, <1>2, <1>6, <1>8 DEF EpisodeTypes, PCs
<1>10. sim.stepGoal <=> reached
  BY <1>1, Numbers DEF GoalInv
<1>11. GoalInv'
  BY <1>2, <1>5, <1>8, <1>10 DEF GoalInv
<1>12. EndInv'
  <2>1. config.goalEnds => sim.bonus <= K
    BY <1>1 DEF EndInv
  <2> QED BY <1>2, <1>3, <1>4, <1>5, <1>8, <2>1 DEF EndInv
<1> QED BY <1>9, <1>11, <1>12

\* A step begins without a goal of its own.
LEMMA EpisodeStep == EpisodeInv /\ Step => EpisodeInv'
<1> SUFFICES ASSUME EpisodeInv, Step PROVE EpisodeInv'
  OBVIOUS
<1> USE DEF EpisodeInv
<1>1. /\ pc = "step" /\ sim \in Episodes /\ pc' = "substeps"
      /\ sim' = [sim EXCEPT !.k = 0, !.stepGoal = FALSE]
      /\ UNCHANGED <<done, config, reached>>
  BY DEF Step, EpisodeTypes, currVars
<1>2. /\ sim'.t = sim.t /\ sim'.k = 0 /\ sim'.steps = sim.steps /\ sim'.dwell = sim.dwell
      /\ sim'.goal = sim.goal /\ ~ sim'.stepGoal /\ sim'.over = sim.over /\ sim'.bonus = sim.bonus
  BY <1>1 DEF Episodes
<1>3. sim' \in Episodes
  <2>1. 0 \in 0 .. K
    BY Numbers
  <2> QED BY <1>1, <2>1 DEF Episodes
<1>4. EpisodeTypes'
  BY <1>1, <1>3 DEF EpisodeTypes, PCs
<1>5. GoalInv'
  BY <1>1, <1>2 DEF GoalInv
<1>6. EndInv'
  <2>1. config.goalEnds => sim.bonus = 0
    BY <1>1 DEF EndInv, GoalInv
  <2> QED BY <1>1, <1>2, <2>1 DEF EndInv
<1> QED BY <1>4, <1>5, <1>6

\* The rest of the loop leaves the episode as it is.
LEMMA EpisodeRest ==
  EpisodeInv /\ (Act \/ Complete \/ End \/ NewModel \/ UNCHANGED vars) => EpisodeInv'
<1> SUFFICES ASSUME EpisodeInv, Act \/ Complete \/ End \/ NewModel \/ UNCHANGED vars
             PROVE  EpisodeInv'
  OBVIOUS
<1>1. UNCHANGED <<sim, done, config, reached>>
  BY DEF Act, Complete, End, NewModel, vars, currVars
<1>2. \/ pc = "act" /\ pc' = "step"
      \/ pc = "complete" /\ sim.over /\ pc' = "reset"
      \/ pc = "complete" /\ ~ sim.over /\ pc' = "act"
      \/ pc \in {"reset", "step"} /\ pc' = "ended"
      \/ pc' = pc
  BY DEF Act, Complete, End, NewModel, vars
<1> QED BY <1>1, <1>2 DEF EpisodeInv, EpisodeTypes, GoalInv, EndInv, PCs

-----------------------------------------------------------------------------
(* What the policy is given.                                               *)

Models == {NoModel, OfflineModel} \cup {Learned(v) : v \in 1 .. MaxVersion}

\* The models that can have acted so far.
Acting == {OfflineModel} \cup {Learned(v) : v \in 1 .. newest}

\* The recurrent state of the context is clear, or one of the model whose
\* version the context has.
PolicyInv ==
  /\ newest \in 0 .. MaxVersion
  /\ ctx.version \in 0 .. MaxVersion + 1 /\ ctx.state \in States
  /\ ctx.state = Zero \/ (ctx.state.by \in Acting /\ ctx.state.by.version = ctx.version)
  /\ OwnState

\* The model in use is none, the offline one or the learner's newest.
LEMMA ModelIs ==
  ASSUME newest \in 0 .. MaxVersion
  PROVE  /\ newest > 0 => Model = Learned(newest) /\ Model.version = newest
         /\ newest = 0 /\ Model # NoModel => Model = OfflineModel /\ Model.version = 1
         /\ Model \in Models /\ Model.version \in 0 .. MaxVersion + 1
         /\ Model # NoModel => Model \in Acting
BY Numbers DEF Model, Learned, OfflineModel, NoModel, Models, Acting

\* A state of another model is only ever that of the offline policy, which has
\* the version of the learner's first model.
LEMMA SameVersion ==
  ASSUME newest \in 0 .. MaxVersion, Model # NoModel,
         NEW m \in Acting, m.version = Model.version
  PROVE  m = Model \/ (m = OfflineModel /\ Model = Learned(1))
<1>1. CASE m = OfflineModel
  <2>1. m.version = 1
    BY <1>1 DEF OfflineModel
  <2>2. CASE newest > 0
    <3>1. newest = 1
      BY <2>1, <2>2, ModelIs
    <3> QED BY <1>1, <2>2, <3>1, ModelIs
  <2>3. CASE newest = 0
    BY <1>1, <2>3, ModelIs
  <2> QED BY <2>2, <2>3
<1>2. ASSUME NEW v \in 1 .. newest, m = Learned(v) PROVE m = Model
  <2>1. m.version = v /\ newest > 0
    BY <1>2 DEF Learned
  <2>2. v = newest
    BY <2>1, ModelIs
  <2> QED BY <1>2, <2>1, <2>2, ModelIs
<1> QED BY <1>1, <1>2 DEF Acting

\* The clear states and the empty step have their types.
LEMMA Clear ==
  /\ Zero \in States /\ NoState \in States /\ Zero # NoState
  /\ NoStep.used = NoState /\ NoStep.n = 0 /\ NoStep \in Steps
BY DEF Zero, NoState, States, NoStep, Steps

\* The context starts clear.
LEMMA PolicyInit == Init => PolicyInv
<1> SUFFICES ASSUME Init PROVE PolicyInv
  OBVIOUS
<1>1. newest = 0 /\ ctx = [version |-> 0, state |-> Zero] /\ pending = NoStep
  BY DEF Init
<1>2. OwnState
  BY <1>1, Clear DEF OwnState
<1> QED BY <1>1, <1>2, Clear, Numbers DEF PolicyInv

\* An action leaves a state of the model that chose it.
LEMMA PolicyAct == PolicyInv /\ made \in Nat /\ Act => PolicyInv'
<1> SUFFICES ASSUME PolicyInv, made \in Nat, Act PROVE PolicyInv'
  OBVIOUS
<1>1. PICK evaluates \in BOOLEAN :
        LET acts == evaluates /\ Model # NoModel
            from == IF Fresh THEN Zero ELSE ctx.state
        IN /\ pending' = [n |-> made', by |-> IF acts THEN Model ELSE NoModel,
                          used |-> IF acts THEN from ELSE NoState,
                          fresh |-> acts /\ Fresh, reward |-> 0]
           /\ ctx' = IF Model = NoModel THEN ctx
                     ELSE [version |-> Model.version,
                           state |-> IF acts THEN [by |-> Model, at |-> made'] ELSE from]
  BY DEF Act
<1> DEFINE acts == evaluates /\ Model # NoModel
           from == IF Fresh THEN Zero ELSE ctx.state
<1>2. newest' = newest /\ made' \in Nat /\ newest \in 0 .. MaxVersion
  BY DEF Act, PolicyInv
<1>3. /\ pending'.by = (IF acts THEN Model ELSE NoModel)
      /\ pending'.used = (IF acts THEN from ELSE NoState)
  BY <1>1
<1>4. /\ Model = NoModel => ctx' = ctx
      /\ Model # NoModel =>
           /\ ctx'.version = Model.version
           /\ ctx'.state = (IF acts THEN [by |-> Model, at |-> made'] ELSE from)
  BY <1>1
<1>5. /\ from \in States
      /\ Model # NoModel =>
           from = Zero \/ (from.by \in Acting /\ from.by.version = Model.version)
  BY Clear DEF PolicyInv, Fresh
<1>6. Acting' = Acting /\ (Model # NoModel => Model \in Acting)
  BY <1>2, ModelIs DEF Acting
<1> HIDE DEF acts, from
<1>7. Model # NoModel => [by |-> Model, at |-> made'] \in States
  BY <1>2, ModelIs DEF States, Models
<1>8. ctx'.version \in 0 .. MaxVersion + 1 /\ ctx'.state \in States
  BY <1>2, <1>4, <1>5, <1>7, ModelIs DEF PolicyInv
<1>9. ctx'.state = Zero \/ (ctx'.state.by \in Acting /\ ctx'.state.by.version = ctx'.version)
  <2>1. CASE Model = NoModel
    BY <1>4, <2>1 DEF PolicyInv
  <2>2. CASE Model # NoModel /\ acts
    BY <1>4, <1>6, <2>2
  <2>3. CASE Model # NoModel /\ ~ acts
    BY <1>4, <1>5, <2>3
  <2> QED BY <2>1, <2>2, <2>3
<1>10. OwnState'
  <2>1. CASE ~ acts
    BY <1>3, <2>1 DEF OwnState
  <2>2. CASE acts /\ from = Zero
    BY <1>3, <2>2 DEF OwnState
  <2>3. CASE acts /\ from # Zero
    <3>1. Model # NoModel
      BY <2>3 DEF acts
    <3>2. from.by = Model \/ (from.by = OfflineModel /\ Model = Learned(1))
      BY <1>2, <1>5, <2>3, <3>1, SameVersion
    <3> QED BY <1>3, <2>3, <3>2 DEF OwnState
  <2> QED BY <2>1, <2>2, <2>3
<1> QED BY <1>2, <1>6, <1>8, <1>9, <1>10 DEF PolicyInv

\* The end of an episode clears the context.
LEMMA PolicyComplete == PolicyInv /\ Complete => PolicyInv'
<1> SUFFICES ASSUME PolicyInv, Complete PROVE PolicyInv'
  OBVIOUS
<1>1. /\ pending' = NoStep /\ newest' = newest
      /\ ctx' = ctx \/ ctx' = [version |-> newest, state |-> Zero]
  BY DEF Complete, current_policy_version
<1>2. OwnState'
  BY <1>1, Clear DEF OwnState
<1>3. Acting' = Acting
  BY <1>1 DEF Acting
<1>4. CASE ctx' = ctx
  BY <1>1, <1>2, <1>3, <1>4 DEF PolicyInv
<1>5. CASE ctx' = [version |-> newest, state |-> Zero]
  BY <1>1, <1>2, <1>5, Clear, Numbers DEF PolicyInv
<1> QED BY <1>1, <1>4, <1>5

\* A new model is of another version than the context.
LEMMA PolicyNew == PolicyInv /\ NewModel => PolicyInv'
<1> SUFFICES ASSUME PolicyInv, NewModel PROVE PolicyInv'
  OBVIOUS
<1>1. UNCHANGED <<ctx, pending>> /\ newest' = newest + 1 /\ newest < MaxVersion
      /\ newest \in 0 .. MaxVersion
  BY DEF NewModel, threadVars, PolicyInv
<1>2. newest' \in 0 .. MaxVersion
  BY <1>1, Numbers
<1>3. Acting \subseteq Acting'
  <2>1. 1 .. newest \subseteq 1 .. newest'
    BY <1>1
  <2> QED BY <2>1 DEF Acting
<1> QED BY <1>1, <1>2, <1>3 DEF PolicyInv, OwnState

\* Nothing else writes the context.
LEMMA PolicyRest ==
  PolicyInv /\ (Reset \/ Step \/ Substep \/ Tick \/ End \/ UNCHANGED vars) => PolicyInv'
<1> SUFFICES ASSUME PolicyInv, Reset \/ Step \/ Substep \/ Tick \/ End \/ UNCHANGED vars
             PROVE  PolicyInv'
  OBVIOUS
<1>1. UNCHANGED <<ctx, pending, newest>>
  BY DEF Reset, Step, Substep, Tick, End, vars, threadVars
<1> QED BY <1>1 DEF PolicyInv, OwnState, Acting

-----------------------------------------------------------------------------
(* What is collected.                                                      *)

\* Told(f, st): if the first step f was computed from a state it found, then
\* st is that state.
Told(f, st) == f.by # NoModel /\ ~ f.fresh => st = f.used

\* Known(f): a learner's model that acted in f has been received.
Known(f) == f.by.from = "learner" => f.by.version <= newest

PendingInv ==
  /\ pc \in PCs /\ made \in Nat /\ published \in Nat /\ pending \in Steps
  /\ pc \in {"reset", "act"} => pending = NoStep
  /\ pc \in {"step", "substeps", "complete"} => pending # NoStep
  /\ pending # NoStep => pending.n = made /\ Known(pending)

BufferInv ==
  /\ buffer \in Seq(Steps) /\ Len(buffer) < Unroll
  /\ made = published + Len(buffer) + (IF pending = NoStep THEN 0 ELSE 1)
  /\ \A i \in 1 .. Len(buffer) :
       buffer[i].n = published + i /\ buffer[i].reward = published + i /\ Known(buffer[i])

InitialInv ==
  /\ initial \in States
  /\ buffer # <<>> => Told(buffer[1], initial)
  /\ buffer = <<>> /\ pending # NoStep => Told(pending, initial)
  /\ buffer = <<>> /\ pending = NoStep => initial = NoState

OutInv ==
  /\ out.steps \in Seq(Steps) /\ Len(out.steps) <= Unroll /\ Len(out.steps) <= published
  /\ \A i \in 1 .. Len(out.steps) :
       /\ out.steps[i].n = published - Len(out.steps) + i
       /\ out.steps[i].reward = out.steps[i].n
  /\ FragmentTells

FragmentInv == PendingInv /\ BufferInv /\ InitialInv /\ OutInv

\* No fragment has been published.
LEMMA NothingOut ==
  /\ NoFragment.steps = <<>> /\ <<>> \in Seq(Steps) /\ Len(<<>>) = 0
BY DEF NoFragment

\* The first fragment is empty.
LEMMA FragmentInit == Init => FragmentInv
<1> SUFFICES ASSUME Init PROVE FragmentInv
  OBVIOUS
<1>1. /\ pc = "reset" /\ buffer = <<>> /\ pending = NoStep /\ initial = NoState
      /\ out = NoFragment /\ made = 0 /\ published = 0
  BY DEF Init
<1>2. PendingInv
  BY <1>1, Clear DEF PendingInv, PCs
<1>3. BufferInv
  BY <1>1, NothingOut, Numbers DEF BufferInv
<1>4. InitialInv
  BY <1>1, Clear DEF InitialInv
<1>5. OutInv
  BY <1>1, NothingOut, Numbers DEF OutInv, FragmentTells
<1> QED BY <1>2, <1>3, <1>4, <1>5 DEF FragmentInv

\* An action becomes the pending step, with the snapshot if it is the first.
LEMMA FragmentAct == FragmentInv /\ PolicyInv /\ Act => FragmentInv'
<1> SUFFICES ASSUME FragmentInv, PolicyInv, Act PROVE FragmentInv'
  OBVIOUS
<1> USE DEF FragmentInv
<1>1. PICK evaluates \in BOOLEAN :
        LET acts == evaluates /\ Model # NoModel
            from == IF Fresh THEN Zero ELSE ctx.state
        IN pending' = [n |-> made', by |-> IF acts THEN Model ELSE NoModel,
                       used |-> IF acts THEN from ELSE NoState,
                       fresh |-> acts /\ Fresh, reward |-> 0]
  BY DEF Act
<1> DEFINE acts == evaluates /\ Model # NoModel
           from == IF Fresh THEN Zero ELSE ctx.state
<1>2. /\ pc = "act" /\ pc' = "step" /\ made' = made + 1 /\ initial' = Snapshot /\ out' = NoFragment
      /\ UNCHANGED <<buffer, published, newest>>
  BY DEF Act
<1>3. /\ made \in Nat /\ published \in Nat /\ pending = NoStep
      /\ buffer \in Seq(Steps) /\ Len(buffer) \in Nat
  BY <1>2 DEF PendingInv, BufferInv
<1>4. newest \in 0 .. MaxVersion /\ ctx.state \in States
  BY DEF PolicyInv
<1>5. from \in States
  BY <1>4, Clear
<1>6. /\ pending'.n = made + 1
      /\ pending'.by = (IF acts THEN Model ELSE NoModel)
      /\ pending'.used = (IF acts THEN from ELSE NoState)
      /\ pending'.fresh = (acts /\ Fresh)
  BY <1>1, <1>2
<1>7. (IF acts THEN Model ELSE NoModel) \in Models /\ (IF acts THEN from ELSE NoState) \in States
  BY <1>4, <1>5, Clear, ModelIs DEF Models
<1> HIDE DEF acts
<1>8. pending' \in Steps
  <2>1. made' \in Nat
    BY <1>2, <1>3
  <2>2. (acts /\ Fresh) \in BOOLEAN
    OBVIOUS
  <2>3. pending' = [n |-> made', by |-> IF acts THEN Model ELSE NoModel,
                    used |-> IF acts THEN from ELSE NoState,
                    fresh |-> acts /\ Fresh, reward |-> 0]
    BY <1>1 DEF acts
  <2> HIDE DEF from
  <2> QED BY <1>7, <2>1, <2>2, <2>3 DEF Steps, Models
<1>9. pending' # NoStep
  BY <1>3, <1>6, Clear
<1>10. Known(pending)'
  <2>1. CASE acts
    <3>1. pending'.by = Model /\ Model # NoModel
      BY <1>6, <2>1 DEF acts
    <3>2. CASE newest > 0
      <4>1. pending'.by.version = newest
        BY <1>4, <3>1, <3>2, ModelIs
      <4> QED BY <1>2, <1>4, <4>1 DEF Known
    <3>3. CASE ~ (newest > 0)
      <4>1. pending'.by = OfflineModel
        BY <1>4, <3>1, <3>3, ModelIs
      <4> QED BY <4>1 DEF Known, OfflineModel
    <3> QED BY <3>2, <3>3
  <2>2. CASE ~ acts
    BY <1>6, <2>2 DEF Known, NoModel
  <2> QED BY <2>1, <2>2
<1>11. PendingInv'
  BY <1>2, <1>3, <1>6, <1>8, <1>9, <1>10 DEF PendingInv, PCs
<1>12. BufferInv'
  <2>1. made' = published + Len(buffer) + 1
    BY <1>2, <1>3 DEF BufferInv
  <2> QED BY <1>2, <1>9, <2>1 DEF BufferInv, Known
<1>13. InitialInv'
  <2>1. buffer # <<>> => initial' = initial
    BY <1>2 DEF Snapshot
  <2>2. ASSUME buffer = <<>> PROVE initial' = ctx.state
    <3>1. initial = NoState
      BY <1>3, <2>2 DEF InitialInv
    <3> QED BY <1>2, <1>3, <2>2, <3>1 DEF Snapshot
  <2>3. ASSUME buffer = <<>> PROVE Told(pending', initial')
    <3>1. CASE acts /\ ~ Fresh
      BY <1>6, <2>2, <2>3, <3>1 DEF Told
    <3>2. CASE ~ acts \/ Fresh
      BY <1>6, <3>2 DEF Told
    <3> QED BY <3>1, <3>2
  <2>4. initial' \in States
    BY <1>4, <2>1, <2>2 DEF InitialInv
  <2>5. buffer # <<>> => Told(buffer[1], initial')
    BY <2>1 DEF InitialInv
  <2> QED BY <1>2, <1>9, <2>3, <2>4, <2>5 DEF InitialInv
<1>14. OutInv'
  BY <1>2, <1>3, NothingOut, Numbers DEF OutInv, FragmentTells
<1> QED BY <1>11, <1>12, <1>13, <1>14

\* A step that is completed is buffered or published with its fragment.
LEMMA FragmentComplete == FragmentInv /\ PolicyInv /\ Complete => FragmentInv'
<1> SUFFICES ASSUME FragmentInv, PolicyInv, Complete PROVE FragmentInv'
  OBVIOUS
<1> USE DEF FragmentInv
<1> DEFINE last  == [pending EXCEPT !.reward = made]
           steps == Append(buffer, last)
           cut   == Cut(steps, sim.over)
<1>1. /\ out' = IF cut THEN [steps |-> steps, initial |-> initial, label |-> Label(steps)]
                       ELSE NoFragment
      /\ buffer' = IF cut \/ sim.over THEN <<>> ELSE steps
      /\ published' = IF cut THEN published + Len(steps) ELSE published
      /\ initial' = Kept(cut, sim.over)
  BY DEF Complete
<1>2. pc = "complete" /\ pending' = NoStep /\ made' = made /\ newest' = newest
      /\ pc' \in {"reset", "act"}
  BY DEF Complete
<1>3. /\ pending \in Steps /\ pending # NoStep /\ pending.n = made /\ Known(pending)
      /\ made \in Nat /\ published \in Nat /\ buffer \in Seq(Steps) /\ Len(buffer) \in Nat
      /\ Len(buffer) < Unroll /\ made = published + Len(buffer) + 1
  BY <1>2 DEF PendingInv, BufferInv
<1>4. /\ last \in Steps /\ last.n = made /\ last.reward = made
      /\ last.by = pending.by /\ last.used = pending.used /\ last.fresh = pending.fresh
  BY <1>3 DEF Steps
<1> HIDE DEF last
<1>5. /\ steps \in Seq(Steps) /\ Len(steps) = Len(buffer) + 1
      /\ \A i \in 1 .. Len(buffer) : steps[i] = buffer[i]
      /\ steps[Len(buffer) + 1] = last
  BY <1>3, <1>4, AppendProperties
<1> HIDE DEF steps
<1>6. Known(last)
  BY <1>3, <1>4 DEF Known
<1>7. \A i \in 1 .. Len(steps) :
        steps[i].n = published + i /\ steps[i].reward = published + i /\ Known(steps[i])
  <2> SUFFICES ASSUME NEW i \in 1 .. Len(steps)
               PROVE  steps[i].n = published + i /\ steps[i].reward = published + i /\ Known(steps[i])
    OBVIOUS
  <2>1. CASE i <= Len(buffer)
    <3>1. i \in 1 .. Len(buffer)
      BY <1>3, <1>5, <2>1
    <3> QED BY <1>5, <3>1 DEF BufferInv
  <2>2. CASE ~ (i <= Len(buffer))
    <3>1. i = Len(buffer) + 1 /\ published + i = made
      BY <1>3, <1>5, <2>2
    <3>2. steps[i] = last
      BY <1>5, <3>1
    <3> QED BY <1>4, <1>6, <3>1, <3>2
  <2> QED BY <2>1, <2>2
<1>8. Told(steps[1], initial)
  <2>1. CASE buffer = <<>>
    <3>1. steps[1] = last
      BY <1>5, <2>1
    <3>2. Told(pending, initial)
      BY <1>3, <2>1 DEF InitialInv
    <3> QED BY <1>4, <3>1, <3>2 DEF Told
  <2>2. CASE buffer # <<>>
    <3>1. 1 \in 1 .. Len(buffer)
      BY <1>3, <2>2, EmptySeq
    <3>2. steps[1] = buffer[1]
      BY <1>5, <3>1
    <3> QED BY <2>2, <3>2 DEF InitialInv
  <2> QED BY <2>1, <2>2
<1>9. /\ sim.over => cut
      /\ ~ cut => Len(steps) < Unroll
      /\ Len(steps) <= Unroll /\ Len(steps) \in Nat /\ Len(steps) > 0 /\ steps # <<>>
  BY <1>3, <1>5, Numbers DEF Cut
<1>10. PendingInv'
  BY <1>1, <1>2, <1>3, <1>9, Clear DEF PendingInv, PCs
<1> HIDE DEF cut
<1>11. CASE cut
  <2>1. /\ out'.steps = steps /\ out'.initial = initial /\ out'.label = newest
        /\ buffer' = <<>> /\ published' = published + Len(steps) /\ initial' = NoState
    BY <1>1, <1>11 DEF Kept, Label, current_policy_version
  <2>2. published' = made
    BY <1>3, <1>5, <2>1
  <2>3. BufferInv'
    BY <1>2, <1>3, <2>1, <2>2, NothingOut, Numbers DEF BufferInv
  <2>4. InitialInv'
    BY <1>2, <2>1, Clear DEF InitialInv
  <2>5. FragmentTells'
    <3>1. steps[1].by # NoModel /\ ~ steps[1].fresh => initial = steps[1].used
      BY <1>8 DEF Told
    <3>2. \A i \in DOMAIN steps : steps[i].by.from = "learner" => newest >= steps[i].by.version
      <4> SUFFICES ASSUME NEW i \in 1 .. Len(steps), steps[i].by.from = "learner"
                   PROVE  newest >= steps[i].by.version
        BY <1>5
      <4>1. steps[i].by.version <= newest
        BY <1>7 DEF Known
      <4>2. steps[i] \in Steps /\ newest \in Nat
        BY <1>5, ElementOfSeq DEF PolicyInv
      <4>3. steps[i].by.version \in Nat
        BY <4>2 DEF Steps, NoModel, OfflineModel, Learned
      <4> QED BY <4>1, <4>2, <4>3
    <3> QED BY <2>1, <3>1, <3>2 DEF FragmentTells
  <2>6. \A i \in 1 .. Len(steps) : /\ steps[i].n = published' - Len(steps) + i
                                   /\ steps[i].reward = steps[i].n
    BY <1>3, <1>7, <1>9, <2>1
  <2>7. OutInv'
    <3>1. Len(steps) <= published'
      BY <1>3, <1>9, <2>1
    <3>2. steps \in Seq(Steps) /\ Len(steps) <= Unroll /\ out'.steps = steps
      BY <1>5, <1>9, <2>1
    <3> HIDE DEF FragmentInv
    <3> QED BY <2>5, <2>6, <3>1, <3>2 DEF OutInv
  <2> QED BY <1>10, <2>3, <2>4, <2>7
<1>12. CASE ~ cut
  <2>1. /\ out'.steps = <<>> /\ buffer' = steps /\ published' = published /\ initial' = initial
    BY <1>1, <1>9, <1>12, NothingOut DEF Kept
  <2>2. BufferInv'
    <3>1. made' = published' + Len(buffer')
      BY <1>2, <1>3, <1>5, <2>1
    <3>2. \A i \in 1 .. Len(buffer') :
            buffer'[i].n = published' + i /\ buffer'[i].reward = published' + i /\ Known(buffer[i])'
      BY <1>2, <1>7, <2>1 DEF Known
    <3> QED BY <1>2, <1>3, <1>5, <1>9, <1>12, <2>1, <3>1, <3>2 DEF BufferInv
  <2>3. InitialInv'
    BY <1>8, <1>9, <2>1 DEF InitialInv, Told
  <2>4. OutInv'
    BY <1>3, <2>1, NothingOut, Numbers DEF OutInv, FragmentTells
  <2> QED BY <1>10, <2>2, <2>3, <2>4
<1> QED BY <1>11, <1>12

\* A new model touches no fragment; it only makes the next label newer.
LEMMA FragmentNew == FragmentInv /\ PolicyInv /\ NewModel => FragmentInv'
<1> SUFFICES ASSUME FragmentInv, PolicyInv, NewModel PROVE FragmentInv'
  OBVIOUS
<1> USE DEF FragmentInv
<1>1. /\ UNCHANGED <<pc, buffer, pending, initial, out, made, published>>
      /\ newest \in Nat /\ newest' = newest + 1
  BY DEF NewModel, threadVars, PolicyInv
<1>2. ASSUME NEW f \in Steps, Known(f) PROVE f.by.from = "learner" => f.by.version <= newest'
  <2>1. f.by.version \in Nat
    BY DEF Steps, NoModel, OfflineModel, Learned
  <2> QED BY <1>1, <1>2, <2>1 DEF Known
<1>3. PendingInv'
  BY <1>1, <1>2 DEF PendingInv, Known
<1>4. BufferInv'
  <2>1. \A i \in 1 .. Len(buffer) : buffer[i] \in Steps
    BY ElementOfSeq DEF BufferInv
  <2> QED BY <1>1, <1>2, <2>1 DEF BufferInv, Known
<1> QED BY <1>1, <1>3, <1>4 DEF InitialInv, Told, OutInv, FragmentTells

\* Nor does the rest of the loop.
LEMMA FragmentRest ==
  FragmentInv /\ (Reset \/ Step \/ Substep \/ Tick \/ End \/ UNCHANGED vars) => FragmentInv'
<1> SUFFICES ASSUME FragmentInv, Reset \/ Step \/ Substep \/ Tick \/ End \/ UNCHANGED vars
             PROVE  FragmentInv'
  OBVIOUS
<1>1. UNCHANGED <<buffer, pending, initial, out, made, published, newest>>
  BY DEF Reset, Step, Substep, Tick, End, vars, threadVars
<1>2. \/ pc = "reset" /\ pc' = "act"
      \/ pc = "step" /\ pc' = "substeps"
      \/ pc = "substeps" /\ pc' = "complete"
      \/ pc' = "ended"
      \/ pc' = pc
  BY DEF Reset, Step, Substep, Tick, End, vars
<1>3. PendingInv'
  BY <1>1, <1>2 DEF FragmentInv, PendingInv, Known, PCs
<1> QED BY <1>1, <1>3 DEF FragmentInv, BufferInv, InitialInv, OutInv, FragmentTells, Known, Told

-----------------------------------------------------------------------------
(* The curriculum.                                                         *)

\* The phase is one of the curriculum, and the window is never overfull.
PhaseInv ==
  /\ phase \in 1 .. Phases /\ window \in Seq(BOOLEAN) /\ Len(window) <= Window

\* What the window holds after the last episode has counted.
LEMMA RecordedIs ==
  ASSUME window \in Seq(BOOLEAN), Len(window) <= Window, done.success \in BOOLEAN
  PROVE  LET n == Len(window)
             d == IF n < Window THEN 0 ELSE 1
         IN /\ Recorded \in Seq(BOOLEAN) /\ Len(Recorded) = n + 1 - d /\ n \in Nat
            /\ d = 0 \/ n = Window
            /\ \A i \in 1 .. n - d : Recorded[i] = window[i + d]
            /\ Recorded[n + 1 - d] = done.success
<1> DEFINE all == Append(window, done.success)
           n == Len(window)
<1>1. /\ all \in Seq(BOOLEAN) /\ Len(all) = n + 1 /\ n \in Nat
      /\ \A i \in 1 .. n : all[i] = window[i]
      /\ all[n + 1] = done.success
  BY AppendProperties, LenProperties
<1>2. Recorded = IF Len(all) > Window THEN SubSeq(all, Len(all) - Window + 1, Len(all)) ELSE all
  BY DEF Recorded, LastOf
<1> HIDE DEF all
<1>3. CASE n < Window
  <2>1. Recorded = all
    BY <1>1, <1>2, <1>3, Numbers
  <2> QED BY <1>1, <1>3, <2>1
<1>4. CASE ~ (n < Window)
  <2>1. n = Window /\ Len(all) - Window + 1 = 2
    BY <1>1, <1>4, Numbers
  <2>2. Recorded = SubSeq(all, 2, n + 1)
    BY <1>1, <1>2, <2>1, Numbers
  <2> DEFINE r == SubSeq(all, 2, n + 1)
  <2>3. \A i \in 2 .. n + 1 : all[i] \in BOOLEAN
    <3> SUFFICES ASSUME NEW i \in 2 .. n + 1 PROVE all[i] \in BOOLEAN
      OBVIOUS
    <3>1. i \in 1 .. Len(all)
      BY <1>1
    <3> QED BY <1>1, <3>1, ElementOfSeq
  <2>4. r \in Seq(BOOLEAN) /\ Len(r) = n /\ \A i \in 1 .. n : r[i] = all[i + 1]
    <3>1. n + 1 \in Int /\ 2 \in Int
      BY <1>1
    <3>2. /\ Len(r) = IF 2 <= n + 1 THEN n + 1 - 2 + 1 ELSE 0
          /\ r \in Seq(BOOLEAN)
          /\ \A i \in 1 .. n + 1 - 2 + 1 : r[i] = all[2 + i - 1]
      BY <1>1, <2>3, <3>1, SubSeqProperties
    <3> HIDE DEF r
    <3>3. n \in Nat \ {0}
      BY <2>1, Numbers
    <3>4. Len(r) = n /\ \A i \in 1 .. n : r[i] = all[i + 1]
      BY <3>2, <3>3
    <3> QED BY <3>2, <3>4
  <2> HIDE DEF r
  <2>5. Recorded = r /\ n \in Nat \ {0}
    BY <2>1, <2>2, Numbers DEF r
  <2>6. \A i \in 1 .. n - 1 : Recorded[i] = window[i + 1]
    BY <1>1, <2>4, <2>5
  <2>7. Recorded[n] = done.success
    BY <1>1, <2>4, <2>5
  <2> QED BY <1>4, <2>1, <2>4, <2>5, <2>6, <2>7
<1> QED BY <1>3, <1>4

\* The next episode may be of the next phase.
LEMMA PhaseReset == PhaseInv /\ done.success \in BOOLEAN /\ Reset => PhaseInv'
<1> SUFFICES ASSUME PhaseInv, done.success \in BOOLEAN, Reset PROVE PhaseInv'
  OBVIOUS
<1>1. window' = NextWindow /\ phase' = NextPhase /\ window \in Seq(BOOLEAN) /\ Len(window) <= Window
  BY DEF Reset, PhaseInv
<1>2. Recorded \in Seq(BOOLEAN) /\ Len(Recorded) <= Window
  <2>1. PICK R \in Seq(BOOLEAN) : R = Recorded
    BY <1>1, RecordedIs
  <2>2. PICK n : n = Len(window)
    OBVIOUS
  <2>3. /\ Len(R) = n + 1 - (IF n < Window THEN 0 ELSE 1)
        /\ n \in Nat /\ n <= Window
    BY <1>1, <2>1, <2>2, RecordedIs
  <2> QED BY <2>1, <2>3, Numbers
<1>3. window' \in Seq(BOOLEAN) /\ Len(window') <= Window
  <2>1. <<>> \in Seq(BOOLEAN) /\ Len(<<>>) <= Window
    BY Numbers
  <2> HIDE DEF PhaseInv
  <2> QED BY <1>1, <1>2, <2>1 DEF NextWindow
<1>4. phase' \in 1 .. Phases
  <2>1. Promotes => phase < Phases
    BY DEF Promotes
  <2>2. phase' = phase \/ (phase < Phases /\ phase' = phase + 1)
    BY <1>1, <2>1 DEF NextPhase
  <2> QED BY <2>2, Numbers DEF PhaseInv
<1> QED BY <1>3, <1>4 DEF PhaseInv

\* The outcome that is not recorded yet is the last, and of this phase.
HistoryInv ==
  /\ results \in Seq((1 .. Phases) \X BOOLEAN)
  /\ done.have => /\ Len(results) > 0
                  /\ results[Len(results)][1] = phase
                  /\ results[Len(results)][2] = done.success
  /\ WindowIsThePhase

\* The history has a phase and an outcome for each episode.
LEMMA ResultTypes ==
  ASSUME results \in Seq((1 .. Phases) \X BOOLEAN)
  PROVE  /\ Len(results) \in Nat /\ DOMAIN results = 1 .. Len(results)
         /\ \A i \in 1 .. Len(results) : results[i][1] \in 1 .. Phases /\ results[i][2] \in BOOLEAN
<1>1. \A i \in 1 .. Len(results) : results[i] \in (1 .. Phases) \X BOOLEAN
  BY ElementOfSeq
<1> QED BY <1>1, LenProperties

\* A sequence that has the outcomes in their places is the outcomes.
LEMMA OutcomesAre ==
  ASSUME NEW m \in Nat, NEW w \in Seq(BOOLEAN),
         \A i \in 1 .. Len(w) : w[i] = results[m - Len(w) + i][2]
  PROVE  w = Outcomes(m, Len(w))
<1>1. w \in [1 .. Len(w) -> BOOLEAN]
  BY LenProperties
<1> DEFINE o == Outcomes(m, Len(w))
<1>2. DOMAIN o = 1 .. Len(w) /\ \A i \in 1 .. Len(w) : o[i] = w[i]
  BY DEF Outcomes
<1>3. o = [i \in 1 .. Len(w) |-> o[i]]
  BY DEF Outcomes
<1> HIDE DEF o
<1>4. w = [i \in 1 .. Len(w) |-> w[i]]
  BY <1>1
<1>5. w = o
  BY <1>2, <1>3, <1>4
<1> QED BY <1>5 DEF o

\* The parts of the property, one by one.
LEMMA WindowParts ==
  ASSUME WindowIsThePhase, window \in Seq(BOOLEAN),
         results \in Seq((1 .. Phases) \X BOOLEAN)
  PROVE  LET n == Len(window) IN
         /\ n \in Nat /\ n <= counted
         /\ \A i \in 1 .. n : window[i] = results[counted - n + i][2]
         /\ \A i \in 1 .. n : results[counted - n + i][1] = phase
         /\ n < Window => \A i \in 1 .. counted - n : results[i][1] < phase
         /\ \A i \in 1 .. Len(results) :
              results[i][1] <= phase /\ \A j \in 1 .. i : results[j][1] <= results[i][1]
<1> DEFINE n == Len(window)
<1>1. /\ n \in Nat /\ n <= counted /\ window = Outcomes(counted, n)
      /\ AllOf(phase, counted, n)
      /\ n < Window => \A i \in 1 .. counted - n : results[i][1] < phase
  BY LenProperties DEF WindowIsThePhase
<1>2. \A i \in 1 .. Len(results) :
        results[i][1] <= phase /\ \A j \in 1 .. i : results[j][1] <= results[i][1]
  BY LenProperties DEF WindowIsThePhase
<1>3. \A i \in 1 .. n : Outcomes(counted, n)[i] = results[counted - n + i][2]
  BY DEF Outcomes
<1>4. \A i \in 1 .. n : results[counted - n + i][1] = phase
  BY <1>1 DEF AllOf
<1> QED BY <1>1, <1>2, <1>3, <1>4

\* Further outcomes that are not recorded yet leave all that is said of the
\* recorded ones.
LEMMA WindowCarries ==
  ASSUME HistoryInv, PhaseInv,
         results' \in Seq((1 .. Phases) \X BOOLEAN), counted \in Nat, counted <= Len(results),
         counted' = counted, window' = window, phase' = phase,
         Len(results') >= Len(results),
         \A i \in 1 .. Len(results) : results'[i] = results[i],
         \A i \in 1 .. Len(results') : i > Len(results) => results'[i][1] = phase
  PROVE  WindowIsThePhase'
<1>c. PICK c : c = counted
  OBVIOUS
<1>n. PICK n : n = Len(window)
  OBVIOUS
<1>1. /\ Len(results) \in Nat /\ DOMAIN results' = 1 .. Len(results') /\ Len(results') \in Nat
      /\ phase \in 1 .. Phases /\ window \in Seq(BOOLEAN)
      /\ results \in Seq((1 .. Phases) \X BOOLEAN) /\ WindowIsThePhase
  BY LenProperties DEF HistoryInv, PhaseInv
<1>2. /\ n \in Nat /\ n <= c
      /\ \A i \in 1 .. n : window[i] = results[c - n + i][2]
      /\ \A i \in 1 .. n : results[c - n + i][1] = phase
      /\ n < Window => \A i \in 1 .. c - n : results[i][1] < phase
      /\ \A i \in 1 .. Len(results) :
           results[i][1] <= phase /\ \A j \in 1 .. i : results[j][1] <= results[i][1]
  BY <1>1, <1>c, <1>n, WindowParts
<1> DEFINE N == Len(results)
           M == Len(results')
<1>0. /\ N \in Nat /\ M \in Nat /\ N <= M /\ c \in Nat /\ c <= N /\ n \in Nat /\ n <= c
      /\ DOMAIN results' = 1 .. M
      /\ \A i \in 1 .. N : results'[i] = results[i]
      /\ \A i \in 1 .. M : i > N => results'[i][1] = phase
      /\ phase \in Nat
  BY <1>1, <1>2, <1>c, Numbers
<1> HIDE DEF N, M
<1>3. ASSUME NEW m \in Nat, NEW w \in Nat, w <= m, m <= c
      PROVE  Outcomes(m, w)' = Outcomes(m, w) /\ \A p : AllOf(p, m, w)' <=> AllOf(p, m, w)
  <2>0. N \in Nat /\ c \in Nat /\ c <= N
    BY <1>0
  <2>1. \A i \in 1 .. w : m - w + i \in 1 .. N
    BY <2>0, <1>3
  <2>2. \A i \in 1 .. w : results'[m - w + i] = results[m - w + i]
    BY <1>0, <2>1
  <2> QED BY <2>2 DEF Outcomes, AllOf
<1>4. \A i \in DOMAIN results' :
        results'[i][1] <= phase /\ \A j \in 1 .. i : results'[j][1] <= results'[i][1]
  <2> SUFFICES ASSUME NEW i \in 1 .. M, NEW j \in 1 .. i
               PROVE  results'[i][1] <= phase /\ results'[j][1] <= results'[i][1]
    BY <1>0
  <2>1. \A a \in 1 .. N :
          results[a][1] <= phase /\ \A b \in 1 .. a : results[b][1] <= results[a][1]
    BY <1>2 DEF N
  <2>2. CASE i \in 1 .. N
    <3>1. j \in 1 .. N /\ results'[i] = results[i] /\ results'[j] = results[j]
      BY <1>0, <2>2
    <3> QED BY <2>1, <2>2, <3>1
  <2>3. CASE ~ (i \in 1 .. N)
    <3>1. i > N /\ results'[i][1] = phase
      BY <1>0, <2>3
    <3>2. CASE j \in 1 .. N
      BY <1>0, <2>1, <3>1, <3>2
    <3>3. CASE ~ (j \in 1 .. N)
      <4>1. j \in 1 .. M /\ j > N
        BY <1>0, <3>3
      <4> QED BY <1>0, <3>1, <4>1
    <3> QED BY <3>2, <3>3
  <2> QED BY <2>2, <2>3
<1>5. window = Outcomes(c, n)' /\ AllOf(phase, c, n)'
  <2>1. window = Outcomes(c, n) /\ AllOf(phase, c, n)
    BY <1>1, <1>c, <1>n DEF WindowIsThePhase
  <2> QED BY <1>0, <1>3, <2>1
<1>6. n < Window => \A i \in 1 .. c - n : results'[i][1] < phase
  <2>1. n < Window => \A i \in 1 .. c - n : results[i][1] < phase
    BY <1>2
  <2>2. \A i \in 1 .. c - n : i \in 1 .. N
    BY <1>0
  <2> QED BY <1>0, <2>1, <2>2
<1>7. ASSUME NEW p \in 1 .. phase - 1
      PROVE  \E m \in Window .. c :
               /\ AllOf(p, m, Window)' /\ \A i \in m + 1 .. c : results'[i][1] > p
               /\ Count(Outcomes(m, Window)') >= Wins
  <2>1. PICK m \in Window .. c :
          /\ AllOf(p, m, Window) /\ \A i \in m + 1 .. c : results[i][1] > p
          /\ Count(Outcomes(m, Window)) >= Wins
    BY <1>1, <1>c DEF WindowIsThePhase
  <2>2. m \in Nat /\ Window \in Nat /\ Window <= m /\ m <= c
    BY <1>0, Numbers
  <2>3. AllOf(p, m, Window)' /\ Outcomes(m, Window)' = Outcomes(m, Window)
    BY <1>3, <2>1, <2>2
  <2>4. \A i \in m + 1 .. c : i \in 1 .. N
    BY <1>0, <2>2
  <2>5. \A i \in m + 1 .. c : results'[i][1] > p
    BY <1>0, <2>1, <2>4
  <2> QED BY <2>1, <2>3, <2>5
<1>8. counted' = c /\ Len(window') = n /\ n <= c /\ window' = window /\ phase' = phase
  BY <1>0, <1>c, <1>n
<1>9. window' = Outcomes(counted, Len(window))' /\ AllOf(phase, counted, Len(window))'
  BY <1>5, <1>8 DEF Outcomes, AllOf
<1>10. /\ Len(window') <= counted'
       /\ Len(window') < Window =>
            \A i \in 1 .. counted' - Len(window') : results'[i][1] < phase'
  BY <1>6, <1>8
<1>11. ASSUME NEW p \in 1 .. phase' - 1
      PROVE  \E m \in Window .. counted' :
               /\ AllOf(p, m, Window)' /\ \A i \in m + 1 .. counted' : results'[i][1] > p
               /\ Count(Outcomes(m, Window))' >= Wins
  BY <1>7, <1>8 DEF Count
<1> QED BY <1>4, <1>8, <1>9, <1>10, <1>11 DEF WindowIsThePhase

\* An episode that ends adds its outcome, which is not recorded yet.
LEMMA HistoryTick ==
  ASSUME EpisodeInv, EpisodeInv', PhaseInv, HistoryInv, Tick
  PROVE  HistoryInv'
<1>1. /\ ~ done.have /\ done'.success \in BOOLEAN /\ reached \in BOOLEAN
      /\ done'.have => (done'.success <=> reached)
      /\ UNCHANGED <<phase, window, reached>>
  <2>1. done.have => pc \in {"complete", "reset", "ended"}
    BY DEF EpisodeInv, EndInv
  <2>2. done'.have => (done'.success <=> reached')
    BY DEF EpisodeInv, GoalInv
  <2> QED BY <2>1, <2>2 DEF Tick, EpisodeInv, EpisodeTypes
<1>2. /\ results \in Seq((1 .. Phases) \X BOOLEAN) /\ Len(results) \in Nat
      /\ phase \in 1 .. Phases
  BY LenProperties DEF HistoryInv, PhaseInv
<1>3. counted = Len(results) /\ counted \in Nat /\ counted <= Len(results)
  BY <1>1, <1>2 DEF counted
<1>4. CASE done' = done /\ results' = results
  <2>1. counted' = counted
    BY <1>4 DEF counted
  <2>2. \A i \in 1 .. Len(results') : i > Len(results) => results'[i][1] = phase
    BY <1>2, <1>4
  <2>3. WindowIsThePhase'
    BY <1>1, <1>2, <1>3, <1>4, <2>1, <2>2, WindowCarries
  <2> QED BY <1>1, <1>2, <1>4, <2>3 DEF HistoryInv
<1>5. CASE done'.have /\ results' = Append(results, <<phase, reached>>)
  <2> DEFINE x == <<phase, reached>>
  <2>1. x \in (1 .. Phases) \X BOOLEAN /\ x[1] = phase /\ x[2] = reached
    BY <1>1, <1>2
  <2> HIDE DEF x
  <2>2. results' = Append(results, x)
    BY <1>5 DEF x
  <2>3. /\ results' \in Seq((1 .. Phases) \X BOOLEAN)
        /\ Len(results') = Len(results) + 1
        /\ \A i \in 1 .. Len(results) : results'[i] = results[i]
        /\ results'[Len(results) + 1] = x
    BY <1>2, <2>1, <2>2, AppendProperties
  <2>4. counted' = counted
    BY <1>2, <1>3, <1>5, <2>3 DEF counted
  <2>5. \A i \in 1 .. Len(results') : i > Len(results) => results'[i][1] = phase
    <3> SUFFICES ASSUME NEW i \in 1 .. Len(results'), i > Len(results) PROVE results'[i][1] = phase
      OBVIOUS
    <3>1. i = Len(results) + 1
      BY <1>2, <2>3
    <3> QED BY <2>1, <2>3, <3>1
  <2>6. WindowIsThePhase'
    <3>1. Len(results') >= Len(results)
      BY <1>2, <2>3
    <3> QED BY <1>1, <1>2, <1>3, <2>3, <2>4, <2>5, <3>1, WindowCarries
  <2>7. /\ Len(results') > 0 /\ results'[Len(results')][1] = phase'
        /\ results'[Len(results')][2] = done'.success
    <3>1. Len(results') > 0
      BY <1>2, <2>3
    <3>2. reached = done'.success
      BY <1>1, <1>5
    <3> QED BY <1>1, <2>1, <2>3, <3>1, <3>2
  <2> QED BY <2>3, <2>6, <2>7 DEF HistoryInv
<1> QED
  <2>1. \/ done' = done /\ results' = results
        \/ done' = [have |-> TRUE, success |-> sim.stepGoal]
           /\ results' = Append(results, <<phase, reached>>)
    BY DEF Tick
  <2> QED BY <1>4, <1>5, <2>1

\* The next episode begins: the last outcome is recorded.
LEMMA HistoryReset ==
  ASSUME EpisodeInv, PhaseInv, PhaseInv', HistoryInv, Reset
  PROVE  HistoryInv'
<1>c. PICK c : c = counted
  OBVIOUS
<1>n. PICK n : n = Len(window)
  OBVIOUS
<1>1. /\ window' = NextWindow /\ phase' = NextPhase /\ results' = results /\ ~ done'.have
      /\ done.success \in BOOLEAN /\ done.have \in BOOLEAN
  BY NewIsFresh DEF Reset, Forget, EpisodeInv, EpisodeTypes
<1>2. /\ results \in Seq((1 .. Phases) \X BOOLEAN) /\ WindowIsThePhase
      /\ window \in Seq(BOOLEAN) /\ Len(window) <= Window /\ phase \in 1 .. Phases
  BY DEF HistoryInv, PhaseInv
<1>N. PICK N : N = Len(results)
  OBVIOUS
<1>3. /\ N \in Nat /\ DOMAIN results = 1 .. N
      /\ \A i \in 1 .. N : results[i][1] \in 1 .. Phases /\ results[i][2] \in BOOLEAN
  BY <1>2, <1>N, ResultTypes
<1>4. /\ n \in Nat /\ n <= c
      /\ \A i \in 1 .. n : window[i] = results[c - n + i][2]
      /\ \A i \in 1 .. n : results[c - n + i][1] = phase
      /\ n < Window => \A i \in 1 .. c - n : results[i][1] < phase
      /\ \A i \in 1 .. N :
           results[i][1] <= phase /\ \A j \in 1 .. i : results[j][1] <= results[i][1]
  BY <1>2, <1>c, <1>n, <1>N, WindowParts
<1>5. counted' = N
  BY <1>1, <1>3, <1>N DEF counted
<1>6. CASE ~ done.have
  <2>1. window' = window /\ phase' = phase /\ counted' = counted
    BY <1>1, <1>3, <1>5, <1>6, <1>N DEF NextWindow, NextPhase, counted
  <2>2. counted \in Nat /\ counted <= Len(results)
    BY <1>3, <1>6, <1>N DEF counted
  <2>3. \A i \in 1 .. Len(results') : i > Len(results) => results'[i][1] = phase
    BY <1>1, <1>3, <1>N
  <2>4. WindowIsThePhase'
    BY <1>1, <1>2, <1>3, <1>N, <2>1, <2>2, <2>3, WindowCarries
  <2> QED BY <1>1, <1>2, <2>4 DEF HistoryInv
<1>7. CASE done.have
  <2>1. /\ N = c + 1 /\ c \in Nat /\ results[N][1] = phase /\ results[N][2] = done.success
    <3>1. N > 0 /\ results[N][1] = phase /\ results[N][2] = done.success
      BY <1>7, <1>N DEF HistoryInv
    <3>2. c = N - 1
      BY <1>7, <1>c, <1>N DEF counted
    <3> QED BY <1>3, <3>1, <3>2
  <2>2. PICK d \in {0, 1} : d = IF n < Window THEN 0 ELSE 1
    OBVIOUS
  <2>3. PICK R \in Seq(BOOLEAN) : R = Recorded
    BY <1>1, <1>2, RecordedIs
  <2>4. PICK w : w = Len(R)
    OBVIOUS
  <2>5. /\ w = n + 1 - d /\ (d = 0 \/ n = Window) /\ n <= Window
        /\ \A i \in 1 .. n - d : R[i] = window[i + d]
        /\ R[n + 1 - d] = done.success
    BY <1>1, <1>2, <1>n, <2>2, <2>3, <2>4, RecordedIs
  <2>6. /\ w \in Nat /\ w >= 1 /\ w <= N /\ w <= Window
        /\ N - w = c - n + d /\ Window \in Nat \ {0} /\ (w < Window => d = 0 /\ n < Window)
    BY <1>4, <2>1, <2>2, <2>5, Numbers
  <2>7. ASSUME NEW i \in 1 .. w
        PROVE  R[i] = results[N - w + i][2] /\ results[N - w + i][1] = phase
    <3>1. CASE i = w
      BY <2>1, <2>5, <2>6, <3>1
    <3>2. CASE i # w
      <4>1. i \in 1 .. n - d /\ i + d \in 1 .. n /\ c - n + (i + d) = N - w + i
        BY <1>4, <2>1, <2>2, <2>5, <2>6, <3>2
      <4>2. R[i] = window[i + d]
        BY <2>5, <4>1
      <4>3. /\ window[i + d] = results[c - n + (i + d)][2]
            /\ results[c - n + (i + d)][1] = phase
        BY <1>4, <4>1
      <4> QED BY <4>1, <4>2, <4>3
    <3> QED BY <3>1, <3>2
  <2>8. R = Outcomes(N, w) /\ AllOf(phase, N, w)
    <3>1. R = Outcomes(N, Len(R))
      BY <1>3, <2>4, <2>7, OutcomesAre
    <3> QED BY <2>4, <2>7, <3>1 DEF AllOf
  <2>9. w < Window => \A i \in 1 .. N - w : results[i][1] < phase
    <3> SUFFICES ASSUME w < Window, NEW i \in 1 .. N - w PROVE results[i][1] < phase
      OBVIOUS
    <3>1. n < Window /\ N - w = c - n
      BY <1>3, <1>4, <2>1, <2>6
    <3> QED BY <1>4, <3>1
  <2>10. ASSUME NEW p \in 1 .. phase - 1
         PROVE  \E m \in Window .. N :
                  /\ AllOf(p, m, Window) /\ \A i \in m + 1 .. N : results[i][1] > p
                  /\ Count(Outcomes(m, Window)) >= Wins
    <3>1. PICK m \in Window .. c :
            /\ AllOf(p, m, Window) /\ \A i \in m + 1 .. c : results[i][1] > p
            /\ Count(Outcomes(m, Window)) >= Wins
      BY <1>2, <1>c DEF WindowIsThePhase
    <3>2. m \in Window .. N
      BY <2>1, <2>6
    <3>3. \A i \in m + 1 .. N : i \in m + 1 .. c \/ i = N
      BY <2>1, <2>6
    <3>4. phase > p
      BY <1>2, Numbers
    <3>5. \A i \in m + 1 .. N : results[i][1] > p
      BY <2>1, <3>1, <3>3, <3>4
    <3> QED BY <3>1, <3>2, <3>5
  <2>12. \A i \in DOMAIN results' :
           results'[i][1] <= phase /\ \A j \in 1 .. i : results'[j][1] <= results'[i][1]
    BY <1>1, <1>3, <1>4
  <2>13. CASE ~ Promotes
    <3>1. window' = R /\ phase' = phase /\ Len(window') = w
      BY <1>1, <1>7, <2>3, <2>4, <2>13 DEF NextWindow, NextPhase
    <3>2. window' = Outcomes(counted, Len(window))' /\ AllOf(phase, counted, Len(window))'
      BY <1>1, <1>5, <2>8, <3>1 DEF Outcomes, AllOf
    <3>3. /\ Len(window') <= counted'
          /\ Len(window') < Window =>
               \A i \in 1 .. counted' - Len(window') : results'[i][1] < phase'
      BY <1>1, <1>5, <2>6, <2>9, <3>1
    <3>4. ASSUME NEW p \in 1 .. phase' - 1
          PROVE  \E m \in Window .. counted' :
                   /\ AllOf(p, m, Window)' /\ \A i \in m + 1 .. counted' : results'[i][1] > p
                   /\ Count(Outcomes(m, Window))' >= Wins
      <4>1. PICK m \in Window .. N :
              /\ AllOf(p, m, Window) /\ \A i \in m + 1 .. N : results[i][1] > p
              /\ Count(Outcomes(m, Window)) >= Wins
        BY <2>10, <3>1
      <4>2. AllOf(p, m, Window)' /\ Count(Outcomes(m, Window))' >= Wins
        BY <1>1, <4>1 DEF AllOf, Outcomes, Count
      <4> QED BY <1>1, <1>5, <4>1, <4>2
    <3>5. WindowIsThePhase'
      BY <2>12, <3>1, <3>2, <3>3, <3>4 DEF WindowIsThePhase
    <3> QED BY <1>1, <1>2, <3>5 DEF HistoryInv
  <2>14. CASE Promotes
    <3>1. window' = <<>> /\ phase' = phase + 1 /\ Len(window') = 0
      BY <1>1, <1>7, <2>14 DEF NextWindow, NextPhase
    <3>2. w = Window /\ Count(R) >= Wins
      BY <2>3, <2>4, <2>6, <2>14 DEF Promotes
    <3>3. window' = Outcomes(counted, Len(window))' /\ AllOf(phase, counted, Len(window))'
      <4>1. <<>> = Outcomes(N, 0)
        <5>1. PICK e \in Seq(BOOLEAN) : e = <<>> /\ Len(e) = 0
          BY EmptySeq
        <5>2. \A i \in 1 .. Len(e) : e[i] = results[N - Len(e) + i][2]
          BY <5>1
        <5>3. N \in Nat
          BY <1>3
        <5>4. e = Outcomes(N, Len(e))
          BY <5>2, <5>3, OutcomesAre
        <5> QED BY <5>1, <5>4
      <4> QED BY <1>1, <1>5, <3>1, <4>1 DEF Outcomes, AllOf
    <3>4. /\ Len(window') <= counted'
          /\ Len(window') < Window =>
               \A i \in 1 .. counted' - Len(window') : results'[i][1] < phase'
      <4>1. \A i \in 1 .. N : results[i][1] <= phase /\ results[i][1] \in Nat /\ phase \in Nat
        BY <1>2, <1>3, <1>4, Numbers
      <4>2. \A i \in 1 .. N : results[i][1] < phase + 1
        BY <4>1
      <4> QED BY <1>1, <1>3, <1>5, <3>1, <4>2
    <3>5. ASSUME NEW p \in 1 .. phase' - 1
          PROVE  \E m \in Window .. counted' :
                   /\ AllOf(p, m, Window)' /\ \A i \in m + 1 .. counted' : results'[i][1] > p
                   /\ Count(Outcomes(m, Window))' >= Wins
      <4>1. PICK m \in Window .. N :
              /\ AllOf(p, m, Window) /\ \A i \in m + 1 .. N : results[i][1] > p
              /\ Count(Outcomes(m, Window)) >= Wins
        <5>1. CASE p = phase
          <6>1. N \in Window .. N /\ \A i \in N + 1 .. N : FALSE
            BY <1>3, <2>6, <3>2
          <6>2. AllOf(p, N, Window) /\ Count(Outcomes(N, Window)) >= Wins
            BY <2>8, <3>2, <5>1
          <6> QED BY <6>1, <6>2
        <5>2. CASE p # phase
          <6>1. p \in 1 .. phase - 1
            BY <1>2, <3>1, <5>2, Numbers
          <6> QED BY <2>10, <6>1
        <5> QED BY <5>1, <5>2
      <4>2. AllOf(p, m, Window)' /\ Count(Outcomes(m, Window))' >= Wins
        BY <1>1, <4>1 DEF AllOf, Outcomes, Count
      <4> QED BY <1>1, <1>5, <4>1, <4>2
    <3>6. \A i \in DOMAIN results' :
            results'[i][1] <= phase' /\ \A j \in 1 .. i : results'[j][1] <= results'[i][1]
      <4>1. \A i \in DOMAIN results' : results'[i][1] \in Nat /\ phase \in Nat
        BY <1>1, <1>2, <1>3, Numbers
      <4> QED BY <2>12, <3>1, <4>1
    <3>7. WindowIsThePhase'
      BY <3>3, <3>4, <3>5, <3>6 DEF WindowIsThePhase
    <3> QED BY <1>1, <1>2, <3>7 DEF HistoryInv
  <2> QED BY <2>13, <2>14
<1> QED BY <1>1, <1>6, <1>7

\* There is no history at first ...
LEMMA HistoryInit == Init => HistoryInv
<1> SUFFICES ASSUME Init PROVE HistoryInv
  OBVIOUS
<1>1. /\ results = <<>> /\ window = <<>> /\ phase = 1 /\ ~ done.have
      /\ Len(results) = 0 /\ Len(window) = 0
      /\ results \in Seq((1 .. Phases) \X BOOLEAN) /\ DOMAIN results = {}
  BY NewIsFresh DEF Init
<1>2. counted = 0
  BY <1>1 DEF counted
<1>3. window = Outcomes(0, 0)
  <2>1. PICK e \in Seq(BOOLEAN) : e = <<>> /\ Len(e) = 0
    BY EmptySeq
  <2>2. \A i \in 1 .. Len(e) : e[i] = results[0 - Len(e) + i][2]
    BY <2>1
  <2>3. e = Outcomes(0, Len(e))
    BY <2>2, OutcomesAre
  <2> QED BY <1>1, <2>1, <2>3
<1>4. WindowIsThePhase
  BY <1>1, <1>2, <1>3 DEF WindowIsThePhase, AllOf
<1> QED BY <1>1, <1>4 DEF HistoryInv

\* ... and nothing else writes it.
LEMMA HistoryRest ==
  ASSUME HistoryInv, [Next]_vars, ~ Reset, ~ Tick
  PROVE  HistoryInv'
<1>1. UNCHANGED <<done, phase, window, results>>
  BY DEF Next, Act, Step, Substep, Complete, End, NewModel, vars, currVars
<1>2. WindowIsThePhase <=> WindowIsThePhase'
  BY <1>1 DEF WindowIsThePhase, Outcomes, AllOf, counted, Count
<1> QED BY <1>1, <1>2 DEF HistoryInv

-----------------------------------------------------------------------------
(* The theorems.                                                           *)

Inv == EpisodeInv /\ PolicyInv /\ FragmentInv /\ PhaseInv /\ HistoryInv

\* The parts hold at first ...
LEMMA InitInv == Init => Inv
<1>1. Init => PhaseInv
  <2>1. <<>> \in Seq(BOOLEAN) /\ Len(<<>>) <= Window /\ 1 \in 1 .. Phases
    BY Numbers
  <2> QED BY <2>1 DEF Init, PhaseInv
<1> QED BY <1>1, EpisodeInit, PolicyInit, FragmentInit, HistoryInit DEF Inv

\* ... and every step keeps them ...
LEMMA NextInv == Inv /\ [Next]_vars => Inv'
<1> SUFFICES ASSUME Inv, [Next]_vars PROVE Inv'
  OBVIOUS
<1>1. EpisodeInv'
  BY EpisodeReset, EpisodeSubstep, EpisodeTick, EpisodeStep, EpisodeRest DEF Inv, Next
<1>2. PolicyInv'
  <2>1. made \in Nat
    BY DEF Inv, FragmentInv, PendingInv
  <2> QED BY <2>1, PolicyAct, PolicyComplete, PolicyNew, PolicyRest DEF Inv, Next
<1>3. FragmentInv'
  BY FragmentAct, FragmentComplete, FragmentNew, FragmentRest DEF Inv, Next
<1>4. PhaseInv'
  <2>1. CASE Reset
    <3>1. done.success \in BOOLEAN
      BY DEF Inv, EpisodeInv, EpisodeTypes
    <3> QED BY <2>1, <3>1, PhaseReset DEF Inv
  <2>2. CASE ~ Reset
    <3>1. UNCHANGED <<phase, window>>
      BY <2>2 DEF Next, Act, Step, Substep, Tick, Complete, End, NewModel, vars, currVars
    <3> QED BY <3>1 DEF Inv, PhaseInv
  <2> QED BY <2>1, <2>2
<1>5. HistoryInv'
  <2>1. CASE Reset
    BY <1>4, <2>1, HistoryReset DEF Inv
  <2>2. CASE Tick
    BY <1>1, <2>2, HistoryTick DEF Inv
  <2>3. CASE ~ Reset /\ ~ Tick
    BY <2>3, HistoryRest DEF Inv
  <2> QED BY <2>1, <2>2, <2>3
<1> QED BY <1>1, <1>2, <1>3, <1>4, <1>5 DEF Inv

\* ... so that they always hold.
LEMMA Invariance == Spec => []Inv
BY InitInv, NextInv, PTL DEF Spec

\* An episode counts as won exactly if the goal was reached in it, at whichever
\* of its decisions; the bonus of a goal that ends it is paid at most K times;
\* and nothing is decided past the end: Simulator::step() and its limits.
THEOREM WonMeansReached == Spec => []WonIffReached
<1>1. Inv => WonIffReached
  <2> SUFFICES ASSUME Inv PROVE WonIffReached
    OBVIOUS
  <2> USE DEF Inv, EpisodeInv
  <2>1. /\ sim \in Episodes /\ config \in Configs /\ reached \in BOOLEAN
        /\ done.have \in BOOLEAN /\ done.success \in BOOLEAN
    BY DEF EpisodeTypes
  <2>2. NoDecisionPastTheEnd
    <3>1. ASSUME Timeout > 0, ~ sim.over PROVE sim.dwell < Timeout
      BY <2>1, <3>1, Numbers DEF EndInv, Episodes
    <3>2. ASSUME config.goalEnds, ~ sim.over PROVE ~ reached
      BY <3>2 DEF EndInv, GoalInv
    <3> QED BY <3>1, <3>2 DEF EndInv, NoDecisionPastTheEnd
  <2>3. done.have => done.success = reached
    BY <2>1 DEF GoalInv
  <2>4. reached <=> sim.bonus > 0
    BY DEF GoalInv
  <2>5. done.have /\ config.goalEnds => sim.bonus <= K
    BY DEF EndInv
  <2> QED BY <2>1, <2>2, <2>3, <2>4, <2>5 DEF WonIffReached
<1> QED BY <1>1, Invariance, PTL

\* The window holds the newest outcomes of the current phase and no others, and
\* every phase that was left was left on the merit of its own last outcomes,
\* for all numbers of phases and lengths of the window: Simulator::reset(),
\* record_episode_outcome() and maybe_advance_curriculum().
THEOREM WindowIsOfThePhase == Spec => []WindowIsThePhase
<1>1. Inv => WindowIsThePhase
  BY DEF Inv, HistoryInv
<1> QED BY <1>1, Invariance, PTL

\* No model is given a recurrent state of another one, however the newest
\* model changes between decisions; but for the offline policy and the
\* learner's first: the context of run_neural_policy().
THEOREM EachItsOwnState == Spec => []OwnState
<1>1. Inv => OwnState
  BY DEF Inv, PolicyInv
<1> QED BY <1>1, Invariance, PTL

\* The initial state of a fragment is the one its first action was computed
\* from, and its label is no older than a learner's model that acted in it:
\* RolloutCollector and handle_rollout_ready().
THEOREM FragmentsTell == Spec => []FragmentTells
<1>1. Inv => FragmentTells
  BY DEF Inv, FragmentInv, OutInv
<1> QED BY <1>1, Invariance, PTL

\* Every decision is published once, in order and with its own reward, in
\* fragments that are never longer than the unroll length, and the variables
\* keep their types: the loop of the simulator thread.
THEOREM EachDecisionIsPublished == Spec => []EachDecisionOnce
<1>1. Inv => EachDecisionOnce
  <2> SUFFICES ASSUME Inv PROVE EachDecisionOnce
    OBVIOUS
  <2> USE DEF Inv, FragmentInv
  <2>1. TypeOK
    BY DEF TypeOK, EpisodeInv, EpisodeTypes, Episodes, PCs, PolicyInv, PendingInv, BufferInv,
           InitialInv, PhaseInv
  <2>2. /\ buffer \in Seq(Steps) /\ Len(buffer) \in Nat /\ pending \in Steps
        /\ published \in Nat /\ made \in Nat
    BY DEF PendingInv, BufferInv
  <2>3. out.steps \in Seq(Steps) /\ DOMAIN out.steps = 1 .. Len(out.steps)
    BY DEF OutInv
  <2>4. CASE pending = NoStep
    <3>1. Unpublished = buffer
      <4>1. Unpublished = buffer \o <<>>
        BY <2>4 DEF Unpublished
      <4> QED BY <2>2, <4>1, ConcatEmptySeq
    <3>2. DOMAIN Unpublished = 1 .. Len(buffer)
      BY <2>2, <3>1
    <3>3. made = published + Len(Unpublished)
      BY <2>2, <2>4, <3>1 DEF BufferInv
    <3>4. \A i \in DOMAIN Unpublished : Unpublished[i].n = published + i
      BY <3>1, <3>2 DEF BufferInv
    <3> QED BY <2>1, <2>3, <3>3, <3>4 DEF EachDecisionOnce, OutInv
  <2>5. CASE pending # NoStep
    <3>1. Unpublished = Append(buffer, pending)
      <4>1. Unpublished = buffer \o <<pending>>
        BY <2>5 DEF Unpublished
      <4> QED BY <2>2, <4>1, AppendIsConcat
    <3>2. /\ DOMAIN Unpublished = 1 .. Len(buffer) + 1 /\ Len(Unpublished) = Len(buffer) + 1
          /\ \A i \in 1 .. Len(buffer) : Unpublished[i] = buffer[i]
          /\ Unpublished[Len(buffer) + 1] = pending
      BY <2>2, <3>1, AppendProperties
    <3>3. made = published + Len(buffer) + 1 /\ pending.n = made
      BY <2>5 DEF BufferInv, PendingInv
    <3>4. made = published + Len(Unpublished)
      BY <2>2, <3>2, <3>3
    <3>5. \A i \in DOMAIN Unpublished : Unpublished[i].n = published + i
      <4> SUFFICES ASSUME NEW i \in 1 .. Len(buffer) + 1 PROVE Unpublished[i].n = published + i
        BY <3>2
      <4>1. CASE i \in 1 .. Len(buffer)
        BY <3>2, <4>1 DEF BufferInv
      <4>2. CASE i = Len(buffer) + 1
        BY <2>2, <3>2, <3>3, <4>2
      <4>3. i \in 1 .. Len(buffer) \/ i = Len(buffer) + 1
        BY <2>2
      <4> QED BY <4>1, <4>2, <4>3
    <3> QED BY <2>1, <2>3, <3>4, <3>5 DEF EachDecisionOnce, OutInv
  <2> QED BY <2>4, <2>5
<1> QED BY <1>1, Invariance, PTL
=============================================================================
