----------------------------- MODULE Simulation -----------------------------
(***************************************************************************)
(* One simulator and the thread that drives it.  The thread resets the     *)
(* simulator, lets the policy choose an action, steps the simulator, and   *)
(* collects what happened into the fragments that go to the learner.  The  *)
(* simulator counts limits, collisions and waypoints through the physics   *)
(* substeps of a decision, ends episodes, and keeps the curriculum.        *)
(* Meanwhile the policy subscriber replaces the model.                     *)
(*                                                                         *)
(* A recurrent state is told apart by the model that produced it and the   *)
(* decision it was produced at.  Times are in physics substeps.            *)
(***************************************************************************)
EXTENDS Integers, Sequences, FiniteSets

CONSTANTS
  K,             \* substeps of a decision: decision_dt / fixed_dt
  Configs,       \* what is tried of max_decision_steps and max_sim_seconds
                 \* (0 for no limit) and of terminate_on_goal
  Timeout,       \* collision_timeout_s, 0 for none
  Waypoints,     \* length of a route
  Phases,        \* number of curriculum phases
  Window, Wins,  \* success_rate_window, and the successes that promote
  Unroll,        \* unroll length of a fragment
  Offline,       \* whether an offline policy is loaded
  MaxVersion,    \* bound on the policy versions
  MaxEpisodes    \* bound on the episodes

ASSUME SimulationAssumption ==
  /\ {K, Waypoints, Phases, Window, Unroll, MaxEpisodes} \subseteq Nat \ {0}
  /\ {Timeout, Wins, MaxVersion} \subseteq Nat
  /\ Configs \subseteq [steps : Nat, time : Nat, goalEnds : BOOLEAN] /\ Offline \in BOOLEAN

VARIABLES
  \* the thread
  pc,       \* "reset", "act", "step", "substeps", "complete", "ended"
  buffer,   \* completed steps of the fragment
  pending,  \* the step that waits for its reward, or NoStep
  initial,  \* initial_recurrent_state_, or NoState
  ctx,      \* the policy context: version and recurrent state
  newest,   \* the subscriber's model, 0 for none
  out,      \* the fragment published last, or NoFragment
  made,     \* number of decisions made
  published, \* number of decisions published
  \* the simulator
  config,   \* one of Configs
  sim,      \* the episode: see NewEpisode
  done,     \* have_last_episode_result_ and last_episode_success_
  phase,    \* current_phase_idx_
  window,   \* success_window_
  results,  \* history: the phase and the outcome of every ended episode
  reached   \* history: the goal was reached in this episode

threadVars == <<buffer, pending, initial, ctx, out, made, published>>
currVars   == <<done, phase, window, results, config>>
vars == <<pc, threadVars, newest, sim, currVars, reached>>

-----------------------------------------------------------------------------
(* The simulator.                                                          *)

\* t: sim_time_s_.  k: substeps done in this decision.  steps:
\* episode_step_count_.  dwell: collision_dwell_time_.  wp:
\* active_waypoint_index_.  goal: final_goal_reached_.  stepGoal:
\* step_goal_reached_.  over: episode_terminal_.  bonus: how often the goal's
\* bonus was paid.
NewEpisode == [t |-> 0, k |-> 0, steps |-> 0, dwell |-> 0, wp |-> 1, goal |-> FALSE,
               stepGoal |-> FALSE, over |-> FALSE, bonus |-> 0]

Undecided == [have |-> FALSE, success |-> FALSE]

LastOf(s, n) == IF Len(s) > n THEN SubSeq(s, Len(s) - n + 1, Len(s)) ELSE s
Count(s)     == Cardinality({i \in DOMAIN s : s[i]})

\* record_episode_outcome(): the window afterwards.
Recorded == LastOf(Append(window, done.success), Window)

\* maybe_advance_curriculum(): never beyond the last phase.
Promotes == phase < Phases /\ Len(Recorded) >= Window /\ Count(Recorded) >= Wins

\* success_window_ and current_phase_idx_ after the last episode has counted.
NextWindow == IF ~ done.have THEN window ELSE IF Promotes THEN <<>> ELSE Recorded
NextPhase  == IF done.have /\ Promotes THEN phase + 1 ELSE phase

\* Mutant of Forget: the outcome of the last episode counts again.
Forget_Keeps == UNCHANGED done
Forget == done' = Undecided

Reset ==
  /\ pc = "reset" /\ Len(results) < MaxEpisodes
  /\ window' = NextWindow /\ phase' = NextPhase /\ Forget
  /\ sim' = NewEpisode /\ reached' = FALSE
  /\ pc' = "act"
  /\ UNCHANGED <<threadVars, newest, results, config>>

\* World::reward_telemetry(): the waypoints, of which the last is the goal.
Reach(s, near) ==
  IF near /\ ~ s.goal
  THEN IF s.wp < Waypoints THEN [s EXCEPT !.wp = @ + 1] ELSE [s EXCEPT !.goal = TRUE]
  ELSE s

\* collision_dwell_time_: the time of a collision without a break.
Dwelled(s, collision) == IF collision = "none" THEN 0 ELSE s.dwell + 1

\* The goal's bonus is paid in every substep in which the goal counts as
\* reached; counted no further than K + 1.
Paid(n, due) == IF due /\ n <= K THEN n + 1 ELSE n

\* One iteration of integrate_until().  It goes on to the end of the decision
\* even when the episode is over.
Substep ==
  /\ pc = "substeps" /\ sim.k < K
  /\ \E collision \in {"none", "mild", "severe"}, near \in BOOLEAN, stalled \in BOOLEAN :
       LET s == Reach(sim, near)
           d == Dwelled(sim, collision)
           ends == \/ collision = "severe"
                   \/ Timeout > 0 /\ d >= Timeout
                   \/ s.goal /\ config.goalEnds
                   \/ stalled
       IN /\ sim' = [s EXCEPT !.t = @ + 1, !.k = @ + 1, !.dwell = d,
                       !.over = @ \/ ends, !.stepGoal = @ \/ s.goal,
                       !.bonus = Paid(@, s.goal)]
          /\ reached' = (reached \/ s.goal)
  /\ UNCHANGED <<pc, threadVars, newest, currVars>>

\* Mutant of Tick: an episode that ran into a limit is lost.
Tick_LimitFails ==
  /\ pc = "substeps" /\ sim.k = K
  /\ LET limit == \/ config.steps > 0 /\ sim.steps + 1 >= config.steps
                  \/ config.time > 0 /\ sim.t >= config.time
         over == sim.over \/ limit
     IN /\ sim' = [sim EXCEPT !.over = over, !.steps = @ + 1]
        /\ done' = IF over THEN [have |-> TRUE, success |-> sim.stepGoal /\ ~ limit] ELSE done
        /\ results' = IF over THEN Append(results, <<phase, reached>>) ELSE results
  /\ pc' = "complete"
  /\ UNCHANGED <<threadVars, newest, phase, window, reached, config>>

\* The rest of step(): the limits, and the outcome if the episode is over.
Tick ==
  /\ pc = "substeps" /\ sim.k = K
  /\ LET limit == \/ config.steps > 0 /\ sim.steps + 1 >= config.steps
                  \/ config.time > 0 /\ sim.t >= config.time
         over == sim.over \/ limit
     IN /\ sim' = [sim EXCEPT !.over = over, !.steps = @ + 1]
        /\ done' = IF over THEN [have |-> TRUE, success |-> sim.stepGoal] ELSE done
        /\ results' = IF over THEN Append(results, <<phase, reached>>) ELSE results
  /\ pc' = "complete"
  /\ UNCHANGED <<threadVars, newest, phase, window, reached, config>>

-----------------------------------------------------------------------------
(* The policy.                                                             *)

NoModel == [from |-> "none", version |-> 0]
OfflineModel == [from |-> "offline", version |-> 1]
Learned(v) == [from |-> "learner", version |-> v]

\* The model that run_neural_policy() uses, and current_policy_version().
Model == IF newest > 0 THEN Learned(newest) ELSE IF Offline THEN OfflineModel ELSE NoModel
current_policy_version == newest

Zero    == [by |-> NoModel, at |-> 0]
NoState == [by |-> NoModel, at |-> -1]
States  == {Zero, NoState} \cup [by : {OfflineModel} \cup {Learned(v) : v \in 1 .. MaxVersion}, at : Nat]

NoStep     == [n |-> 0, by |-> NoModel, used |-> NoState, fresh |-> FALSE, reward |-> 0]
NoFragment == [steps |-> <<>>, initial |-> NoState, label |-> 0]

\* snapshot_recurrent_state_if_fragment_start(), before the action is chosen.
Snapshot ==
  IF buffer = <<>> /\ pending = NoStep /\ initial = NoState THEN ctx.state ELSE initial

\* Mutant of Fresh: a new model goes on with the state it finds.
Fresh_Never == FALSE

\* A model of another version than the context's starts from a clear state.
Fresh == ctx.version # Model.version

\* generate_action() and set_pending_step().  Without a model the action is
\* random and the context is left alone; when the model refuses the observation
\* the action is random too, but the context has been made the model's.
Act ==
  /\ pc = "act"
  /\ made' = made + 1
  /\ initial' = Snapshot
  /\ \E evaluates \in BOOLEAN :
       LET acts == evaluates /\ Model # NoModel
           from == IF Fresh THEN Zero ELSE ctx.state
       IN /\ pending' = [n |-> made', by |-> IF acts THEN Model ELSE NoModel,
                         used |-> IF acts THEN from ELSE NoState,
                         fresh |-> acts /\ Fresh, reward |-> 0]
          /\ ctx' = IF Model = NoModel THEN ctx
                    ELSE [version |-> Model.version,
                          state |-> IF acts THEN [by |-> Model, at |-> made'] ELSE from]
  /\ out' = NoFragment
  /\ pc' = "step"
  /\ UNCHANGED <<buffer, published, newest, sim, currVars, reached>>

\* The head of the loop, apply_action_if_requested() and the start of step().
Step ==
  /\ pc = "step"
  /\ sim' = [sim EXCEPT !.k = 0, !.stepGoal = FALSE]
  /\ pc' = "substeps"
  /\ UNCHANGED <<threadVars, newest, currVars, reached>>

\* The version a fragment is labelled with, in handle_rollout_ready().
Label(steps) == current_policy_version

\* Mutant of Kept: the initial state of a fragment stays for the next one.
Kept_Stays(cut, over) == IF over THEN NoState ELSE initial

\* initial_recurrent_state_ after extract_initial_recurrent_state() and clear().
Kept(cut, over) == IF cut \/ over THEN NoState ELSE initial

\* Mutant of Cut: what has not filled a fragment at the end of the episode is
\* not published.
Cut_FullOnly(steps, over) == Len(steps) >= Unroll

\* A fragment is published when it is full and when the episode is over.
Cut(steps, over) == Len(steps) >= Unroll \/ over

Complete ==
  /\ pc = "complete"
  /\ LET steps == Append(buffer, [pending EXCEPT !.reward = made])
         cut   == Cut(steps, sim.over)
     IN /\ out' = IF cut THEN [steps |-> steps, initial |-> initial, label |-> Label(steps)]
                         ELSE NoFragment
        /\ buffer' = IF cut \/ sim.over THEN <<>> ELSE steps
        /\ published' = IF cut THEN published + Len(steps) ELSE published
        /\ initial' = Kept(cut, sim.over)
  /\ pending' = NoStep
  /\ IF sim.over
     THEN pc' = "reset" /\ ctx' = [version |-> current_policy_version, state |-> Zero]
     ELSE pc' = "act" /\ UNCHANGED ctx
  /\ UNCHANGED <<made, newest, sim, currVars, reached>>

\* The thread ends when it is asked to, or when reset() or step() fails.
End ==
  /\ pc \in {"reset", "step"}
  /\ pc' = "ended"
  /\ UNCHANGED <<threadVars, newest, sim, currVars, reached>>

\* apply_update(), in the subscriber's thread.
NewModel ==
  /\ newest < MaxVersion
  /\ newest' = newest + 1
  /\ UNCHANGED <<pc, threadVars, sim, currVars, reached>>

-----------------------------------------------------------------------------
Init ==
  /\ pc = "reset"
  /\ buffer = <<>> /\ pending = NoStep /\ initial = NoState
  /\ ctx = [version |-> 0, state |-> Zero] /\ newest = 0 /\ out = NoFragment /\ made = 0 /\ published = 0
  /\ config \in Configs
  /\ sim = NewEpisode /\ done = Undecided
  /\ phase = 1 /\ window = <<>> /\ results = <<>> /\ reached = FALSE

Next == Reset \/ Act \/ Step \/ Substep \/ Tick \/ Complete \/ End \/ NewModel

Spec == Init /\ [][Next]_vars

-----------------------------------------------------------------------------
(* Properties.                                                             *)

Steps == [n : Nat, by : {NoModel, OfflineModel} \cup {Learned(v) : v \in 1 .. MaxVersion},
          used : States, fresh : BOOLEAN, reward : Nat]

\* Types of the variables.
TypeOK ==
  /\ pc \in {"reset", "act", "step", "substeps", "complete", "ended"}
  /\ buffer \in Seq(Steps) /\ Len(buffer) < Unroll /\ pending \in Steps
  /\ initial \in States /\ ctx.version \in 0 .. MaxVersion + 1 /\ ctx.state \in States
  /\ newest \in 0 .. MaxVersion /\ phase \in 1 .. Phases
  /\ window \in Seq(BOOLEAN) /\ Len(window) <= Window
  /\ sim.k \in 0 .. K /\ sim.wp \in 1 .. Waypoints

\* Every decision made is published once, in order, with the reward of the
\* substeps its own action drove; no fragment is longer than the unroll
\* length; and nothing is left over when an episode ends.  The variables keep
\* their types.
Unpublished == buffer \o (IF pending = NoStep THEN <<>> ELSE <<pending>>)

EachDecisionOnce ==
  /\ TypeOK
  /\ made = published + Len(Unpublished)
  /\ \A i \in DOMAIN Unpublished : Unpublished[i].n = published + i
  /\ \A i \in DOMAIN out.steps :
       /\ out.steps[i].n = published - Len(out.steps) + i
       /\ out.steps[i].reward = out.steps[i].n
  /\ Len(out.steps) <= Unroll

\* What a fragment tells the learner of its actions.  The initial state, from
\* which the learner replays it, is the state its first action was computed
\* from, unless a model arrived after the snapshot or a random action came
\* first.  The version it is labelled with is never older than a learner's
\* model that acted in it.
FragmentTells ==
  out.steps # <<>> =>
    LET first == out.steps[1] IN
      /\ first.by # NoModel /\ ~ first.fresh => out.initial = first.used
      /\ \A i \in DOMAIN out.steps :
           out.steps[i].by.from = "learner" => out.label >= out.steps[i].by.version

\* No model is given a recurrent state of another one, with one exception: an
\* offline policy has the version number of the learner's first.
OwnState ==
  LET s == pending.used IN
    \/ s \in {NoState, Zero}
    \/ s.by = pending.by
    \/ s.by = OfflineModel /\ pending.by = Learned(1)

\* An episode gets no further decision once it has reached a limit, the goal,
\* or a collision that lasted for the timeout.
NoDecisionPastTheEnd ==
  pc \in {"act", "step"} =>
    /\ ~ sim.over
    /\ config.steps > 0 => sim.steps < config.steps
    /\ config.time > 0 => sim.t < config.time
    /\ Timeout > 0 => sim.dwell < Timeout
    /\ config.goalEnds => ~ reached

\* An episode counts as won exactly if the goal was reached in it, though the
\* simulator looks at the last decision only; the goal's bonus was paid then,
\* and up to once for each substep that was left.  There is no decision past
\* the end.
WonIffReached ==
  /\ NoDecisionPastTheEnd
  /\ done.have => /\ done.success = reached
                  /\ reached = (sim.bonus > 0)
                  /\ config.goalEnds => sim.bonus <= K

\* How many of the outcomes have been recorded, and the n newest of the first m.
counted == Len(results) - (IF done.have THEN 1 ELSE 0)
Outcomes(m, n) == [i \in 1 .. n |-> results[m - n + i][2]]
AllOf(p, m, n) == \A i \in 1 .. n : results[m - n + i][1] = p

\* Phases follow each other.  The window holds the newest outcomes of this
\* phase and no others: it is full, or nothing of this phase came before it.
\* Every phase that was left was left on the merit of a full window of its own
\* last episodes.
WindowIsThePhase ==
  LET n == Len(window) IN
  /\ \A i \in DOMAIN results :
       results[i][1] <= phase /\ \A j \in 1 .. i : results[j][1] <= results[i][1]
  /\ n <= counted /\ window = Outcomes(counted, n) /\ AllOf(phase, counted, n)
  /\ n < Window => \A i \in 1 .. counted - n : results[i][1] < phase
  /\ \A p \in 1 .. phase - 1 : \E m \in Window .. counted :
       /\ AllOf(p, m, Window) /\ \A i \in m + 1 .. counted : results[i][1] > p
       /\ Count(Outcomes(m, Window)) >= Wins
=============================================================================
