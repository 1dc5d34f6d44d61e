---------------------- MODULE ControlPlane_proofs ----------------------
(***************************************************************************)
(* Theorems about the coordinator's registry and the control plane that    *)
(* uses it, for every set of workers, learners and endpoints, every        *)
(* timeout and every queue size.                                           *)
(***************************************************************************)
EXTENDS ControlPlane, SequenceTheorems, WellFoundedInduction, TLAPS

\* Every non-empty set of natural numbers has a smallest element.
LEMMA NatMin ==
  ASSUME NEW S \in SUBSET Nat, S # {}
  PROVE  \E m \in S : \A k \in S : m <= k
<1> DEFINE R == OpToRel(<, Nat)
<1>1. IsWellFoundedOn(R, Nat)
  BY NatLessThanWellFounded
<1>2. PICK m \in S : \A k \in S : ~ (<<k, m>> \in R)
  <2> HIDE DEF R
  <2> QED BY <1>1, WFMin
<1>3. ASSUME NEW k \in S PROVE m <= k
  <2>1. m \in Nat /\ k \in Nat
    OBVIOUS
  <2>2. ~ (<<k, m>> \in R)
    BY <1>2
  <2>3. ~ (k < m)
    BY <2>1, <2>2 DEF OpToRel
  <2> QED BY <2>1, <2>3
<1> QED BY <1>3

\* Newest returns a member of the set it chooses from.
LEMMA NewestIsMember ==
  ASSUME NEW ls, NEW S \in SUBSET Nat, S # {},
         \A i \in S : ls[i].age \in Ages
  PROVE  Newest(ls, S) \in S
<1> USE DEF Ages
<1>0. MaxLead \in Nat
  BY ConstAssumption DEF ConstAssumption
<1> DEFINE As == {ls[i].age + MaxLead : i \in S}
<1>1. As \in SUBSET Nat /\ As # {}
  <2>1. ASSUME NEW i \in S PROVE ls[i].age + MaxLead \in Nat
    <3>1. ls[i].age \in Int /\ ls[i].age >= -MaxLead
      OBVIOUS
    <3> QED BY <1>0, <3>1
  <2>2. As # {}
    OBVIOUS
  <2> QED BY <2>1, <2>2
<1>2. PICK a \in As : \A b \in As : a <= b
  BY <1>1, NatMin
<1> DEFINE Is == {i \in S : ls[i].age + MaxLead = a}
<1>3. Is \in SUBSET Nat /\ Is # {}
  OBVIOUS
<1>4. PICK i \in Is : \A j \in Is : i <= j
  BY <1>3, NatMin
<1>5. \A j \in S : ls[i].age < ls[j].age \/ (ls[i].age = ls[j].age /\ i <= j)
  <2> SUFFICES ASSUME NEW j \in S, ~ (ls[i].age < ls[j].age)
               PROVE  ls[i].age = ls[j].age /\ i <= j
    OBVIOUS
  <2>1. ls[i].age + MaxLead <= ls[j].age + MaxLead
    BY <1>2, <1>0
  <2>2. ls[i].age = ls[j].age
    BY <2>1, <1>0, <1>4
  <2> QED BY <1>4, <2>2
<1> QED BY <1>4, <1>5 DEF Newest

\* What ConstAssumption says about the bounds, ages and names that the records
\* of state.py hold.
LEMMA ConstFacts ==
  /\ QueueMax \in Nat \ {0}
  /\ Blank \in Names /\ "unknown" \in Names /\ Blank \in Phases /\ "offline" \in Phases
  /\ 0 \in Ages /\ Skews \subseteq Ages
<1>1. MaxLead \in Nat
  BY ConstAssumption DEF ConstAssumption
<1>2. 0 \in Ages
  BY <1>1 DEF Ages
<1> QED BY <1>2, ConstAssumption DEF ConstAssumption

\* A hello names an identity, a host and an endpoint of the model.
LEMMA HelloFacts ==
  /\ \A h \in WorkerHellos : h.identity \in Names /\ h.hostname \in Names
  /\ \A h \in LearnerHellos : h.endpoint \in Endpoints /\ h.hostname \in Names
BY ConstAssumption DEF ConstAssumption

-----------------------------------------------------------------------------
\* What the callers of UpdateActive know about a set of learner records.
LearnersOK(ls) ==
  /\ DOMAIN ls \in SUBSET (Nat \ {0})
  /\ \A i \in DOMAIN ls : ls[i] \in LearnerRecord

\* _update_active_learner() leaves an id that needs no further repair.
LEMMA UpdateActiveSettles ==
  ASSUME NEW ls, LearnersOK(ls), NEW act \in Nat, NEW given \in Nat
  PROVE  /\ UpdateActive(ls, act, given) \in Nat
         /\ Settled(ls, UpdateActive(ls, act, given))
<1>1. \A S \in SUBSET DOMAIN ls : S # {} => Newest(ls, S) \in S
  <2> SUFFICES ASSUME NEW S \in SUBSET DOMAIN ls, S # {}
               PROVE  Newest(ls, S) \in S
    OBVIOUS
  <2>1. S \in SUBSET Nat /\ \A i \in S : ls[i].age \in Ages
    BY DEF LearnersOK, LearnerRecord
  <2> QED BY <2>1, NewestIsMember
<1>2. Serving(ls) \in SUBSET DOMAIN ls
  BY DEF Serving
<1>3. DOMAIN ls \in SUBSET (Nat \ {0})
  BY DEF LearnersOK
<1> HIDE DEF LearnersOK
<1> QED BY <1>1, <1>2, <1>3 DEF UpdateActive, Settled, Serving, NoLearner

\* ... so that calling it again, only to read the endpoint, changes nothing.
LEMMA SettledIsStable ==
  ASSUME NEW ls, LearnersOK(ls), NEW act \in Nat, Settled(ls, act)
  PROVE  UpdateActive(ls, act, NoLearner) = act
<1>1. DOMAIN ls \in SUBSET (Nat \ {0})
  BY DEF LearnersOK
<1> QED BY <1>1 DEF UpdateActive, Settled, Serving, NoLearner

\* current_learner_endpoint() returns an endpoint once the active id is settled.
LEMMA SettledEndpoint ==
  ASSUME NEW ls, LearnersOK(ls), NEW act \in Nat, Settled(ls, act)
  PROVE  EndpointOf(ls, act) \in Endpoints
BY ConstAssumption DEF EndpointOf, Settled, LearnersOK, LearnerRecord, ConstAssumption

\* Pushing keeps a queue within its bound and puts the new endpoint last.
LEMMA PushLast ==
  ASSUME NEW q \in Seq(Endpoints), Len(q) <= QueueMax, NEW ep \in Endpoints
  PROVE  /\ Push(q, ep) \in Seq(Endpoints)
         /\ Len(Push(q, ep)) <= QueueMax
         /\ Push(q, ep) # <<>>
         /\ Push(q, ep)[Len(Push(q, ep))] = ep
<1>1. QueueMax \in Nat \ {0}
  BY ConstAssumption DEF ConstAssumption
<1>2. CASE Len(q) >= QueueMax
  <2>1. q # <<>>
    BY <1>1, <1>2
  <2>2. Tail(q) \in Seq(Endpoints) /\ Len(Tail(q)) = Len(q) - 1
    BY <2>1, HeadTailProperties
  <2> QED BY <1>1, <1>2, <2>2 DEF Push
<1>3. CASE ~ (Len(q) >= QueueMax)
  BY <1>1, <1>3 DEF Push
<1> QED BY <1>2, <1>3

-----------------------------------------------------------------------------
(***************************************************************************)
(* The inductive invariant.  It is the conjunction of the four properties, *)
(* regrouped into what concerns the learners and what concerns the workers *)
(* once the current endpoint ep is known.                                  *)
(***************************************************************************)
LearnersPart ==
  /\ learnerSeq \in Nat
  /\ DOMAIN learners \subseteq 1..learnerSeq
  /\ LearnersOK(learners)
  /\ active \in Nat
  /\ Settled(learners, active)

WorkersPart(ws, td, ep) ==
  /\ ws \in Seq(WorkerRecord)
  /\ td \in Seq(Endpoints)
  /\ Len(td) = Len(ws)
  /\ \A i \in DOMAIN ws :
       /\ td[i] = ep
       /\ Len(ws[i].queue) <= QueueMax
       /\ ws[i].queue # <<>> => ws[i].queue[Len(ws[i].queue)] = ep

Inv ==
  /\ tokens \in Nat
  /\ LearnersPart
  /\ WorkersPart(workers, told, EndpointOf(learners, active))

\* The inductive invariant contains the four properties.
LEMMA InvImplies == Inv => RegistryTypeOK /\ ActiveStable /\ WorkersTold /\ QueueEndsCurrent
BY DEF Inv, LearnersPart, WorkersPart, LearnersOK,
       RegistryTypeOK, ActiveStable, WorkersTold, QueueEndsCurrent

\* An empty registry, as __init__() leaves it, satisfies the invariant.
LEMMA InitInv == RegistryInit => Inv
<1> SUFFICES ASSUME RegistryInit PROVE Inv
  OBVIOUS
<1>1. learners = <<>> /\ DOMAIN learners = {}
  BY DEF RegistryInit
<1>2. LearnersPart
  BY <1>1 DEF RegistryInit, LearnersPart, LearnersOK, Settled, Serving, NoLearner
<1>3. WorkersPart(workers, told, EndpointOf(learners, active))
  BY DEF RegistryInit, WorkersPart
<1> QED BY <1>2, <1>3 DEF RegistryInit, Inv

\* Replacing the n-th worker record by one whose queue still ends well.
LEMMA ReplaceWorker ==
  ASSUME NEW ws, NEW td, NEW ep, WorkersPart(ws, td, ep),
         NEW n \in DOMAIN ws, NEW r \in WorkerRecord,
         Len(r.queue) <= QueueMax,
         r.queue # <<>> => r.queue[Len(r.queue)] = ep
  PROVE  WorkersPart([ws EXCEPT ![n] = r], td, ep)
<1> DEFINE v == [ws EXCEPT ![n] = r]
<1>1. v \in Seq(WorkerRecord) /\ Len(v) = Len(ws) /\ DOMAIN v = DOMAIN ws
  BY ExceptSeq DEF WorkersPart
<1>2. \A i \in DOMAIN ws : v[i] = IF i = n THEN r ELSE ws[i]
  BY DEF WorkersPart
<1> HIDE DEF v
<1> QED BY <1>1, <1>2 DEF WorkersPart

\* Mapping every worker record to one with the same queue.
LEMMA MapWorkers ==
  ASSUME NEW ws, NEW td, NEW ep, WorkersPart(ws, td, ep),
         NEW v, v = [i \in DOMAIN ws |-> v[i]],
         \A i \in DOMAIN ws : v[i] \in WorkerRecord /\ v[i].queue = ws[i].queue
  PROVE  WorkersPart(v, td, ep)
<1>1. Len(ws) \in Nat /\ DOMAIN ws = 1..Len(ws)
  BY LenProperties DEF WorkersPart
<1>2. v \in [1..Len(ws) -> WorkerRecord]
  BY <1>1
<1>3. v \in Seq(WorkerRecord) /\ DOMAIN v = DOMAIN ws
  BY <1>1, <1>2, SeqDef
<1>4. Len(v) = Len(ws)
  BY <1>1, <1>2, <1>3, LenProperties
<1> QED BY <1>1, <1>3, <1>4 DEF WorkersPart

\* The endpoint is announced to every worker exactly when it changes.
LEMMA SetLearnersKeeps ==
  ASSUME Inv, NEW ls, LearnersOK(ls), NEW given \in Nat, SetLearners(ls, given)
  PROVE  /\ learners' = ls
         /\ active' \in Nat
         /\ Settled(ls, active')
         /\ WorkersPart(workers', told', EndpointOf(ls, active'))
<1> DEFINE before == UpdateActive(learners, active, NoLearner)
           mid    == UpdateActive(ls, before, given)
           ep     == EndpointOf(ls, active')
<1>1. LearnersOK(learners) /\ active \in Nat /\ Settled(learners, active)
  BY DEF Inv, LearnersPart
<1>2. before = active
  BY <1>1, SettledIsStable
<1>3. mid \in Nat /\ Settled(ls, mid)
  BY <1>1, <1>2, UpdateActiveSettles
<1>4. UpdateActive(ls, mid, NoLearner) = mid
  BY <1>3, SettledIsStable
<1>5. active' = mid /\ learners' = ls
  BY <1>4 DEF SetLearners
<1>6. ep \in Endpoints
  BY <1>3, <1>5, SettledEndpoint
<1>7. CurrentEndpoint = EndpointOf(learners, active)
  BY <1>2 DEF CurrentEndpoint
<1>8. WorkersPart(workers, told, EndpointOf(learners, active))
  BY DEF Inv
<1>9. WorkersPart(workers', told', ep)
  <2>1. CASE ep = EndpointOf(learners, active)
    <3>1. workers' = workers /\ told' = told
      BY <2>1, <1>4, <1>5, <1>7 DEF SetLearners
    <3> QED BY <3>1, <2>1, <1>8
  <2>2. CASE ep # EndpointOf(learners, active)
    <3>1. /\ workers' = [i \in DOMAIN workers |-> [workers[i] EXCEPT !.queue = Push(@, ep)]]
          /\ told' = [i \in DOMAIN told |-> ep]
      BY <2>2, <1>4, <1>5, <1>7 DEF SetLearners
    <3>2. /\ Len(workers) \in Nat /\ DOMAIN workers = 1..Len(workers)
          /\ DOMAIN told = 1..Len(workers)
      BY <1>8, LenProperties DEF WorkersPart
    <3>3. ASSUME NEW i \in DOMAIN workers
          PROVE  /\ workers'[i] \in WorkerRecord
                 /\ Len(workers'[i].queue) <= QueueMax
                 /\ workers'[i].queue[Len(workers'[i].queue)] = ep
      <4>1. workers[i] \in WorkerRecord
        BY <1>8, <3>2 DEF WorkersPart
      <4>2. workers[i].queue \in Seq(Endpoints) /\ Len(workers[i].queue) <= QueueMax
        BY <4>1, <1>8 DEF WorkersPart, WorkerRecord
      <4>3. workers'[i] = [workers[i] EXCEPT !.queue = Push(workers[i].queue, ep)]
        BY <3>1
      <4>4. Push(workers[i].queue, ep) \in Seq(Endpoints)
        BY <4>2, <1>6, PushLast
      <4>5. workers'[i] \in WorkerRecord /\ workers'[i].queue = Push(workers[i].queue, ep)
        BY <4>1, <4>3, <4>4 DEF WorkerRecord
      <4> QED BY <4>2, <4>5, <1>6, PushLast
    <3>4. workers' \in Seq(WorkerRecord) /\ Len(workers') = Len(workers)
      <4>1. workers' \in [1..Len(workers) -> WorkerRecord]
        BY <3>1, <3>2, <3>3
      <4>2. workers' \in Seq(WorkerRecord)
        BY <3>2, <4>1, SeqDef
      <4> QED BY <3>2, <4>1, <4>2, LenProperties
    <3>5. told' \in Seq(Endpoints) /\ Len(told') = Len(workers)
      <4>1. told' \in [1..Len(workers) -> Endpoints]
        BY <3>1, <3>2, <1>6
      <4>2. told' \in Seq(Endpoints)
        BY <3>2, <4>1, SeqDef
      <4> QED BY <3>2, <4>1, <4>2, LenProperties
    <3>6. DOMAIN workers' = DOMAIN workers /\ \A i \in DOMAIN workers : told'[i] = ep
      BY <3>1, <3>2
    <3> HIDE DEF ep
    <3> QED BY <3>3, <3>4, <3>5, <3>6 DEF WorkersPart
  <2> QED BY <2>1, <2>2
<1> QED BY <1>3, <1>5, <1>9

-----------------------------------------------------------------------------
(* Every action preserves the invariant.                                   *)

\* _find_worker_match() returns a record of the registry, or none.
LEMMA FoundWorker ==
  ASSUME Inv, NEW h, FindWorkerMatch(h) # NoMatch
  PROVE  FindWorkerMatch(h) \in DOMAIN workers
<1>1. DOMAIN workers \in SUBSET Nat
  <2>1. DOMAIN workers = 1..Len(workers) /\ Len(workers) \in Nat
    BY LenProperties DEF Inv, WorkersPart
  <2> QED BY <2>1
<1>2. IdentityMatches(h) \in SUBSET DOMAIN workers /\ HostMatches(h) \in SUBSET DOMAIN workers
  BY DEF IdentityMatches, HostMatches
<1>3. \A S \in SUBSET DOMAIN workers : S # {} => First(S) \in S
  BY <1>1, NatMin DEF First
<1> QED BY <1>2, <1>3 DEF FindWorkerMatch

\* The search for a learner's record does the same.
LEMMA FoundLearner ==
  ASSUME Inv, NEW h, FindLearnerMatch(h) # NoMatch
  PROVE  FindLearnerMatch(h) \in DOMAIN learners
<1>1. DOMAIN learners \in SUBSET Nat
  BY DEF Inv, LearnersPart, LearnersOK
<1>2. LearnerMatches(h) \in SUBSET DOMAIN learners
  BY DEF LearnerMatches
<1>3. \A S \in SUBSET DOMAIN learners : S # {} => First(S) \in S
  BY <1>1, NatMin DEF First
<1> QED BY <1>2, <1>3 DEF FindLearnerMatch

\* register_worker() keeps the invariant: the record it reuses or creates is told
\* the current endpoint.
LEMMA RegisterWorkerInv ==
  ASSUME Inv, NEW h \in WorkerHellos, RegisterWorker(h)
  PROVE  Inv'
<1> DEFINE found == FindWorkerMatch(h)
           record == WorkerRecordFor(h, IF found = NoMatch THEN <<>> ELSE workers[found].queue)
           ep == EndpointOf(learners, active)
<1>1. LearnersOK(learners) /\ active \in Nat /\ Settled(learners, active)
  BY DEF Inv, LearnersPart
<1>2. CurrentEndpoint = ep /\ ep \in Endpoints
  BY <1>1, SettledIsStable, SettledEndpoint DEF CurrentEndpoint
<1>3. /\ active' = active /\ learners' = learners /\ learnerSeq' = learnerSeq
      /\ tokens' = tokens + 1
      /\ IF found = NoMatch
         THEN workers' = Append(workers, record) /\ told' = Append(told, ep)
         ELSE /\ workers' = [workers EXCEPT ![found] = record]
              /\ told' = [told EXCEPT ![found] = ep]
  BY <1>1, <1>2, SettledIsStable DEF RegisterWorker
<1>4. tokens \in Nat
  BY DEF Inv
<1>5. WorkersPart(workers, told, ep)
  BY DEF Inv
<1>6. /\ Len(workers) \in Nat /\ DOMAIN workers = 1..Len(workers)
      /\ DOMAIN told = 1..Len(workers)
  BY <1>5, LenProperties DEF WorkersPart
<1>7. ASSUME NEW q \in Seq(Endpoints)
      PROVE  WorkerRecordFor(h, q) \in WorkerRecord /\ WorkerRecordFor(h, q).queue = q
  <2>1. h.identity \in Names /\ h.hostname \in Names
    BY HelloFacts
  <2> QED BY <2>1, <1>4, ConstFacts DEF WorkerRecordFor, WorkerRecord, HostOf
<1> HIDE DEF found, ep
<1>8. WorkersPart(workers', told', ep)
  <2>1. CASE found = NoMatch
    <3>0. record = WorkerRecordFor(h, <<>>) /\ <<>> \in Seq(Endpoints)
      BY <2>1
    <3> HIDE DEF record
    <3>1. record \in WorkerRecord /\ record.queue = <<>>
      BY <3>0, <1>7
    <3>2. workers' = Append(workers, record) /\ told' = Append(told, ep)
      BY <2>1, <1>3
    <3>3. /\ workers' \in Seq(WorkerRecord) /\ told' \in Seq(Endpoints)
          /\ Len(workers') = Len(workers) + 1 /\ Len(told') = Len(workers) + 1
      BY <3>1, <3>2, <1>2, <1>5 DEF WorkersPart
    <3>4. ASSUME NEW i \in DOMAIN workers'
          PROVE  /\ told'[i] = ep
                 /\ Len(workers'[i].queue) <= QueueMax
                 /\ workers'[i].queue # <<>> =>
                      workers'[i].queue[Len(workers'[i].queue)] = ep
      <4>1. i \in 1..Len(workers) + 1
        BY <3>3, LenProperties
      <4>2. CASE i = Len(workers) + 1
        <5>1. workers'[i] = record /\ told'[i] = ep
          BY <4>2, <3>2, <1>5, <1>6 DEF WorkersPart
        <5> QED BY <5>1, <3>1, ConstFacts
      <4>3. CASE i \in 1..Len(workers)
        <5>1. workers'[i] = workers[i] /\ told'[i] = told[i]
          BY <4>3, <3>2, <1>5, <1>6 DEF WorkersPart
        <5> QED BY <5>1, <4>3, <1>5, <1>6 DEF WorkersPart
      <4> QED BY <4>1, <4>2, <4>3, <1>6
    <3> QED BY <3>3, <3>4 DEF WorkersPart
  <2>2. CASE found # NoMatch
    <3>1. found \in DOMAIN workers
      BY <2>2, FoundWorker DEF found
    <3>2. workers[found] \in WorkerRecord
      BY <3>1, <1>5, <1>6 DEF WorkersPart
    <3>3. workers[found].queue \in Seq(Endpoints)
      BY <3>2 DEF WorkerRecord
    <3>4. record \in WorkerRecord /\ record.queue = workers[found].queue
      BY <2>2, <3>3, <1>7
    <3> HIDE DEF record
    <3>5. workers' = [workers EXCEPT ![found] = record] /\ told' = [told EXCEPT ![found] = ep]
      BY <2>2, <1>3
    <3>6. told' = told
      BY <3>1, <3>5, <1>5, <1>6 DEF WorkersPart
    <3>7. /\ Len(record.queue) <= QueueMax
          /\ record.queue # <<>> => record.queue[Len(record.queue)] = ep
      BY <3>1, <3>4, <1>5 DEF WorkersPart
    <3> QED BY <3>1, <3>4, <3>5, <3>6, <3>7, <1>5, ReplaceWorker
  <2> QED BY <2>1, <2>2
<1> QED BY <1>3, <1>4, <1>8 DEF Inv, LearnersPart, ep

\* register_learner() keeps the invariant: it settles the active id and tells
\* every worker.
LEMMA RegisterLearnerInv ==
  ASSUME Inv, NEW h \in LearnerHellos, RegisterLearner(h)
  PROVE  Inv'
<1> DEFINE found  == FindLearnerMatch(h)
           id     == IF found = NoMatch THEN learnerSeq + 1 ELSE found
           host   == IF found = NoMatch THEN "unknown" ELSE learners[found].hostname
           record == LearnerRecordFor(h, host)
           ls == [i \in DOMAIN learners \cup {id} |-> IF i = id THEN record ELSE learners[i]]
<1>1. /\ learnerSeq \in Nat /\ DOMAIN learners \subseteq 1..learnerSeq
      /\ \A i \in DOMAIN learners : learners[i] \in LearnerRecord
      /\ tokens \in Nat
  BY DEF Inv, LearnersPart, LearnersOK
<1>2. found # NoMatch => found \in DOMAIN learners
  BY FoundLearner
<1>3. host \in Names
  BY <1>1, <1>2, ConstFacts DEF LearnerRecord
<1>4. record \in LearnerRecord
  <2> HIDE DEF host
  <2>1. h.endpoint \in Endpoints /\ h.hostname \in Names
    BY HelloFacts
  <2> QED BY <2>1, <1>1, <1>3, ConstFacts DEF LearnerRecordFor, LearnerRecord
<1>5. /\ tokens' = tokens + 1
      /\ learnerSeq' = IF found = NoMatch THEN id ELSE learnerSeq
      /\ SetLearners(ls, id)
  BY DEF RegisterLearner
<1>6. learnerSeq' \in Nat /\ learnerSeq' >= learnerSeq /\ id \in 1..learnerSeq'
  <2> HIDE DEF found, record
  <2>1. CASE found = NoMatch
    BY <2>1, <1>1, <1>5
  <2>2. CASE found # NoMatch
    BY <2>2, <1>1, <1>2, <1>5
  <2> QED BY <2>1, <2>2
<1> HIDE DEF found, id, record
<1>7. LearnersOK(ls) /\ DOMAIN ls \subseteq 1..learnerSeq'
  BY <1>1, <1>4, <1>6 DEF LearnersOK
<1> HIDE DEF ls
<1>8. /\ learners' = ls /\ active' \in Nat /\ Settled(ls, active')
      /\ WorkersPart(workers', told', EndpointOf(ls, active'))
  BY <1>5, <1>6, <1>7, SetLearnersKeeps
<1> QED BY <1>1, <1>5, <1>6, <1>7, <1>8 DEF Inv, LearnersPart

\* record_learner_heartbeat() keeps the invariant, although it may move the
\* active id to its sender.
LEMMA LearnerHeartbeatInv ==
  ASSUME Inv, NEW i \in DOMAIN learners, NEW t, NEW s \in Skews, NEW ep \in Endpoints,
         LearnerHeartbeat(i, t, s, ep)
  PROVE  Inv'
<1> DEFINE ls == [learners EXCEPT ![i].age = s,
                                  ![i].endpoint = IF ep # Blank THEN ep ELSE @]
<1>1. /\ learnerSeq \in Nat /\ DOMAIN learners \subseteq 1..learnerSeq
      /\ \A j \in DOMAIN learners : learners[j] \in LearnerRecord
      /\ tokens \in Nat
  BY DEF Inv, LearnersPart, LearnersOK
<1>2. s \in Ages /\ i \in Nat
  BY <1>1, ConstFacts
<1>3. DOMAIN ls = DOMAIN learners
  OBVIOUS
<1>4. \A j \in DOMAIN ls : ls[j] \in LearnerRecord
  BY <1>1, <1>2 DEF LearnerRecord
<1>5. LearnersOK(ls)
  BY <1>1, <1>3, <1>4 DEF LearnersOK
<1>6. SetLearners(ls, i) /\ learnerSeq' = learnerSeq /\ tokens' = tokens
  BY DEF LearnerHeartbeat
<1> HIDE DEF ls
<1>7. /\ learners' = ls /\ active' \in Nat /\ Settled(ls, active')
      /\ WorkersPart(workers', told', EndpointOf(ls, active'))
  BY <1>2, <1>5, <1>6, SetLearnersKeeps
<1> QED BY <1>1, <1>3, <1>5, <1>6, <1>7 DEF Inv, LearnersPart

\* cleanup_stale_learners() keeps the invariant: whoever is evicted, the active
\* id is settled again and the workers are told.
LEMMA CleanupStaleLearnersInv ==
  ASSUME Inv, CleanupStaleLearners
  PROVE  Inv'
<1> DEFINE ls == [i \in DOMAIN learners \ StaleLearners |-> learners[i]]
<1>1. /\ learnerSeq \in Nat /\ DOMAIN learners \subseteq 1..learnerSeq
      /\ \A j \in DOMAIN learners : learners[j] \in LearnerRecord
      /\ tokens \in Nat
  BY DEF Inv, LearnersPart, LearnersOK
<1>2. LearnersOK(ls) /\ DOMAIN ls \subseteq 1..learnerSeq
  BY <1>1 DEF LearnersOK
<1>3. SetLearners(ls, NoLearner) /\ learnerSeq' = learnerSeq /\ tokens' = tokens
  BY DEF CleanupStaleLearners
<1> HIDE DEF ls
<1>4. /\ learners' = ls /\ active' \in Nat /\ Settled(ls, active')
      /\ WorkersPart(workers', told', EndpointOf(ls, active'))
  BY <1>2, <1>3, SetLearnersKeeps DEF NoLearner
<1> QED BY <1>1, <1>2, <1>3, <1>4 DEF Inv, LearnersPart

\* record_worker_heartbeat() keeps the invariant: it leaves the queue alone.
LEMMA WorkerHeartbeatInv ==
  ASSUME Inv, NEW i \in DOMAIN workers, NEW t, NEW s \in Skews, NEW ph \in Phases,
         WorkerHeartbeat(i, t, s, ph)
  PROVE  Inv'
<1> DEFINE r == [workers[i] EXCEPT !.age = s, !.phase = ph]
           ep == EndpointOf(learners, active)
<1>1. WorkersPart(workers, told, ep)
  BY DEF Inv
<1>2. workers[i] \in WorkerRecord
  BY <1>1, LenProperties DEF WorkersPart
<1>3. r \in WorkerRecord /\ r.queue = workers[i].queue
  BY <1>2, ConstFacts DEF WorkerRecord
<1>4. /\ workers' = [workers EXCEPT ![i] = r]
      /\ UNCHANGED <<learners, learnerSeq, active, tokens, told>>
  BY DEF WorkerHeartbeat
<1> HIDE DEF r, ep
<1>5. WorkersPart(workers', told, ep)
  <2>1. Len(r.queue) <= QueueMax /\ (r.queue # <<>> => r.queue[Len(r.queue)] = ep)
    BY <1>1, <1>3 DEF WorkersPart
  <2> QED BY <1>1, <1>3, <1>4, <2>1, ReplaceWorker
<1> QED BY <1>4, <1>5 DEF Inv, LearnersPart, ep

\* Marking a worker offline leaves its directives queued.
LEMMA OfflineKeepsQueue ==
  ASSUME NEW w \in WorkerRecord
  PROVE  Offline(w) \in WorkerRecord /\ Offline(w).queue = w.queue
BY ConstFacts DEF Offline, WorkerRecord

\* mark_worker_disconnected() keeps the invariant.
LEMMA MarkWorkerDisconnectedInv ==
  ASSUME Inv, NEW i \in DOMAIN workers, MarkWorkerDisconnected(i)
  PROVE  Inv'
<1> DEFINE r  == Offline(workers[i])
           ep == EndpointOf(learners, active)
<1>1. WorkersPart(workers, told, ep)
  BY DEF Inv
<1>2. workers[i] \in WorkerRecord
  BY <1>1, LenProperties DEF WorkersPart
<1>3. r \in WorkerRecord /\ r.queue = workers[i].queue
  BY <1>2, OfflineKeepsQueue
<1>4. /\ workers' = [workers EXCEPT ![i] = r]
      /\ UNCHANGED <<learners, learnerSeq, active, tokens, told>>
  BY DEF MarkWorkerDisconnected
<1> HIDE DEF r, ep
<1>5. WorkersPart(workers', told, ep)
  <2>1. Len(r.queue) <= QueueMax /\ (r.queue # <<>> => r.queue[Len(r.queue)] = ep)
    BY <1>1, <1>3 DEF WorkersPart
  <2> QED BY <1>1, <1>3, <1>4, <2>1, ReplaceWorker
<1> QED BY <1>4, <1>5 DEF Inv, LearnersPart, ep

\* _forward_directives() keeps the invariant: it takes the oldest directive, so
\* what is left still ends with the current endpoint.
LEMMA ForwardDirectiveInv ==
  ASSUME Inv, NEW i \in DOMAIN workers, ForwardDirective(i)
  PROVE  Inv'
<1> DEFINE q  == workers[i].queue
           r  == [workers[i] EXCEPT !.queue = Tail(q)]
           ep == EndpointOf(learners, active)
<1>1. WorkersPart(workers, told, ep)
  BY DEF Inv
<1>2. workers[i] \in WorkerRecord
  BY <1>1, LenProperties DEF WorkersPart
<1>3. q \in Seq(Endpoints) /\ q # <<>> /\ Len(q) <= QueueMax /\ q[Len(q)] = ep
  BY <1>1, <1>2 DEF WorkersPart, WorkerRecord, ForwardDirective
<1>4. /\ Tail(q) \in Seq(Endpoints) /\ Len(Tail(q)) = Len(q) - 1
      /\ \A j \in 1..Len(Tail(q)) : Tail(q)[j] = q[j + 1]
  BY <1>3, HeadTailProperties
<1>5. r \in WorkerRecord /\ r.queue = Tail(q)
  <2> HIDE DEF q
  <2> QED BY <1>2, <1>4 DEF WorkerRecord
<1>6. /\ workers' = [workers EXCEPT ![i] = r]
      /\ UNCHANGED <<learners, learnerSeq, active, tokens, told>>
  BY DEF ForwardDirective
<1>7. Len(r.queue) <= QueueMax /\ (r.queue # <<>> => r.queue[Len(r.queue)] = ep)
  <2> HIDE DEF q, r, ep
  <2>1. Len(q) \in Nat /\ Len(Tail(q)) \in Nat /\ QueueMax \in Nat
    BY <1>3, <1>4, ConstFacts
  <2>2. Len(r.queue) <= QueueMax
    BY <1>3, <1>4, <1>5, <2>1
  <2>3. ASSUME Tail(q) # <<>> PROVE Tail(q)[Len(Tail(q))] = ep
    <3>1. Len(Tail(q)) \in 1..Len(Tail(q))
      BY <2>1, <2>3, <1>4, EmptySeq
    <3> QED BY <3>1, <1>3, <1>4, <2>1
  <2> QED BY <2>2, <2>3, <1>5
<1> HIDE DEF q, r, ep
<1>8. WorkersPart(workers', told, ep)
  BY <1>1, <1>5, <1>6, <1>7, ReplaceWorker
<1> QED BY <1>6, <1>8 DEF Inv, LearnersPart, ep

\* cleanup_stale_workers() keeps the invariant.
LEMMA CleanupStaleWorkersInv ==
  ASSUME Inv, CleanupStaleWorkers
  PROVE  Inv'
<1> DEFINE ep == EndpointOf(learners, active)
<1>1. WorkersPart(workers, told, ep)
  BY DEF Inv
<1>2. \A i \in DOMAIN workers : workers[i] \in WorkerRecord
  BY <1>1, LenProperties DEF WorkersPart
<1>3. /\ workers' = [i \in DOMAIN workers |->
                       IF i \in StaleWorkers THEN Offline(workers[i]) ELSE workers[i]]
      /\ UNCHANGED <<learners, learnerSeq, active, tokens, told>>
  BY DEF CleanupStaleWorkers
<1>4. \A i \in DOMAIN workers :
        workers'[i] \in WorkerRecord /\ workers'[i].queue = workers[i].queue
  BY <1>2, <1>3, OfflineKeepsQueue
<1> HIDE DEF ep
<1>5. WorkersPart(workers', told, ep)
  BY <1>1, <1>3, <1>4, MapWorkers
<1> QED BY <1>3, <1>5 DEF Inv, LearnersPart, ep

\* A record that grows older changes in nothing else.
LEMMA OlderKeepsRest ==
  /\ \A w \in WorkerRecord : Older(w) \in WorkerRecord /\ Older(w).queue = w.queue
  /\ \A l \in LearnerRecord : Older(l) \in LearnerRecord /\ Older(l).endpoint = l.endpoint
<1>1. MaxLead \in Nat
  BY ConstAssumption DEF ConstAssumption
<1>2. \A a \in Ages : a + 1 \in Ages
  BY <1>1 DEF Ages
<1>3. ASSUME NEW w \in WorkerRecord
      PROVE  Older(w) \in WorkerRecord /\ Older(w).queue = w.queue
  BY <1>2 DEF Older, WorkerRecord
<1>4. ASSUME NEW l \in LearnerRecord
      PROVE  Older(l) \in LearnerRecord /\ Older(l).endpoint = l.endpoint
  BY <1>2 DEF Older, LearnerRecord
<1> QED BY <1>3, <1>4

\* The passing of time keeps the invariant.
LEMMA TickInv ==
  ASSUME Inv, Tick
  PROVE  Inv'
<1> DEFINE ep == EndpointOf(learners, active)
<1>1. WorkersPart(workers, told, ep)
  BY DEF Inv
<1>2. \A i \in DOMAIN workers : workers[i] \in WorkerRecord
  BY <1>1, LenProperties DEF WorkersPart
<1>3. /\ workers' = [i \in DOMAIN workers |-> Older(workers[i])]
      /\ learners' = [i \in DOMAIN learners |-> Older(learners[i])]
      /\ UNCHANGED <<learnerSeq, active, tokens, told>>
  BY DEF Tick
<1>4. LearnersOK(learners) /\ Settled(learners, active)
  BY DEF Inv, LearnersPart
<1>5. /\ DOMAIN learners' = DOMAIN learners
      /\ \A i \in DOMAIN learners : /\ learners'[i] \in LearnerRecord
                                    /\ learners'[i].endpoint = learners[i].endpoint
  BY <1>3, <1>4, OlderKeepsRest DEF LearnersOK
<1>6. LearnersOK(learners') /\ Settled(learners', active)
  BY <1>4, <1>5 DEF LearnersOK, Settled, Serving
<1>7. EndpointOf(learners', active) = ep
  BY <1>4, <1>5 DEF EndpointOf, Settled
<1>8. \A i \in DOMAIN workers :
        workers'[i] \in WorkerRecord /\ workers'[i].queue = workers[i].queue
  BY <1>2, <1>3, OlderKeepsRest
<1> HIDE DEF ep
<1>9. WorkersPart(workers', told, ep)
  BY <1>1, <1>3, <1>8, MapWorkers
<1> QED BY <1>3, <1>5, <1>6, <1>7, <1>9 DEF Inv, LearnersPart

\* Every call of the registry keeps the invariant.
LEMMA NextInv == Inv /\ [RegistryNext]_registry => Inv'
<1> SUFFICES ASSUME Inv, [RegistryNext]_registry PROVE Inv'
  OBVIOUS
<1>1. ASSUME NEW h \in WorkerHellos, RegisterWorker(h) PROVE Inv'
  BY <1>1, RegisterWorkerInv
<1>2. ASSUME NEW i \in DOMAIN workers, NEW t \in 1..tokens, NEW s \in Skews,
             NEW p \in Phases \ {"offline"}, WorkerHeartbeat(i, t, s, p)
      PROVE  Inv'
  BY <1>2, WorkerHeartbeatInv
<1>3. ASSUME NEW i \in DOMAIN workers, MarkWorkerDisconnected(i) PROVE Inv'
  BY <1>3, MarkWorkerDisconnectedInv
<1>4. ASSUME NEW i \in DOMAIN workers, ForwardDirective(i) PROVE Inv'
  BY <1>4, ForwardDirectiveInv
<1>5. CASE CleanupStaleWorkers
  BY <1>5, CleanupStaleWorkersInv
<1>6. ASSUME NEW h \in LearnerHellos, RegisterLearner(h) PROVE Inv'
  BY <1>6, RegisterLearnerInv
<1>7. ASSUME NEW i \in DOMAIN learners, NEW t \in 1..tokens, NEW s \in Skews,
             NEW ep \in Endpoints, LearnerHeartbeat(i, t, s, ep)
      PROVE  Inv'
  BY <1>7, LearnerHeartbeatInv
<1>8. CASE CleanupStaleLearners
  BY <1>8, CleanupStaleLearnersInv
<1>9. CASE Tick
  BY <1>9, TickInv
<1>10. CASE UNCHANGED registry
  BY <1>10 DEF registry, Inv, LearnersPart, WorkersPart, LearnersOK, Settled, Serving, EndpointOf
<1> QED
  BY <1>1, <1>2, <1>3, <1>4, <1>5, <1>6, <1>7, <1>8, <1>9, <1>10 DEF RegistryNext

\* The invariant holds in every reachable state of the registry.
LEMMA Invariance == RegistrySpec => []Inv
<1>1. RegistryInit => Inv
  BY InitInv
<1>2. Inv /\ [RegistryNext]_registry => Inv'
  BY NextInv
<1> QED BY <1>1, <1>2, PTL DEF RegistrySpec

-----------------------------------------------------------------------------
\* Every variable of the registry keeps its type.
THEOREM TypeCorrect == RegistrySpec => []RegistryTypeOK
BY Invariance, InvImplies, PTL

\* The active learner never needs repair between two calls: it is registered,
\* and it has an endpoint whenever some registered learner has one.
THEOREM ActiveIsStable == RegistrySpec => []ActiveStable
BY Invariance, InvImplies, PTL

\* Every registered worker was last told the endpoint of the active learner,
\* whatever registers, falls silent, moves or is evicted.
THEOREM WorkersAreTold == RegistrySpec => []WorkersTold
BY Invariance, InvImplies, PTL

\* The bounded directive queue of a worker never loses the newest endpoint.
THEOREM QueuesEndCurrent == RegistrySpec => []QueueEndsCurrent
BY Invariance, InvImplies, PTL
-----------------------------------------------------------------------------
(***************************************************************************)
(* The registry's calls as the handlers of the streams see them: what      *)
(* becomes of the record of the n-th worker.                               *)
(***************************************************************************)
KeepsSession(n) ==
  /\ workers'[n].token = workers[n].token
  /\ workers'[n].identity = workers[n].identity
  /\ workers'[n].hostname = workers[n].hostname

\* The queue and the current endpoint stay, or something new is queued.
KeepsNews(n) ==
  \/ workers'[n].queue = workers[n].queue /\ Current' = Current
  \/ workers'[n].queue # <<>>

SessionsKept ==
  /\ DOMAIN workers' = DOMAIN workers /\ tokens' >= tokens
  /\ \A n \in DOMAIN workers : KeepsSession(n)

NewsKept == \A n \in DOMAIN workers : KeepsNews(n)

\* Worker ids are 1, 2 and so on, and each has a record.
LEMMA WorkerRecords ==
  ASSUME Inv
  PROVE  /\ Len(workers) \in Nat /\ DOMAIN workers = 1..Len(workers)
         /\ \A n \in DOMAIN workers :
              /\ workers[n] \in WorkerRecord
              /\ workers[n].queue \in Seq(Endpoints)
              /\ Len(workers[n].queue) <= QueueMax
              /\ workers[n].queue # <<>> =>
                   workers[n].queue[Len(workers[n].queue)] = Current
<1>1. WorkersPart(workers, told, Current)
  BY DEF Inv, Current
<1>2. Len(workers) \in Nat /\ DOMAIN workers = 1..Len(workers)
  BY <1>1, LenProperties DEF WorkersPart
<1>3. \A n \in DOMAIN workers : workers[n] \in WorkerRecord
  BY <1>1, <1>2 DEF WorkersPart
<1> QED BY <1>1, <1>2, <1>3 DEF WorkersPart, WorkerRecord

\* What a call does that changes the learners, and tells the workers.
LEMMA SetLearnersRecords ==
  ASSUME Inv, Inv', NEW ls, NEW given \in Nat, SetLearners(ls, given), tokens' >= tokens
  PROVE  SessionsKept /\ NewsKept
<1> DEFINE before == UpdateActive(learners, active, NoLearner)
           mid    == UpdateActive(ls, before, given)
           ep     == EndpointOf(ls, active')
<1>1. LearnersOK(learners) /\ active \in Nat /\ Settled(learners, active)
  BY DEF Inv, LearnersPart
<1>2. before = active
  BY <1>1, SettledIsStable
<1>3. learners' = ls /\ LearnersOK(ls)
  <2>1. learners' = ls
    BY DEF SetLearners
  <2> QED BY <2>1 DEF Inv, LearnersPart, LearnersOK
<1>4. mid \in Nat /\ Settled(ls, mid)
  BY <1>1, <1>2, <1>3, UpdateActiveSettles
<1>5. active' = mid /\ UpdateActive(ls, mid, NoLearner) = mid
  BY <1>3, <1>4, SettledIsStable DEF SetLearners
<1>6. ep \in Endpoints /\ Current' = ep
  BY <1>3, <1>4, <1>5, SettledEndpoint DEF Current
<1>7. CurrentEndpoint = Current
  BY <1>2 DEF CurrentEndpoint, Current
<1>8. CASE ep = Current
  <2>1. workers' = workers
    BY <1>8, <1>5, <1>7 DEF SetLearners
  <2> QED BY <2>1, <1>6, <1>8 DEF SessionsKept, NewsKept, KeepsSession, KeepsNews
<1>9. CASE ep # Current
  <2>1. workers' = [i \in DOMAIN workers |-> [workers[i] EXCEPT !.queue = Push(@, ep)]]
    BY <1>9, <1>5, <1>7 DEF SetLearners
  <2>2. ASSUME NEW n \in DOMAIN workers
        PROVE  KeepsSession(n) /\ KeepsNews(n)
    <3>1. workers[n] \in WorkerRecord /\ workers[n].queue \in Seq(Endpoints)
          /\ Len(workers[n].queue) <= QueueMax
      BY WorkerRecords
    <3>2. Push(workers[n].queue, ep) # <<>>
      BY <3>1, <1>6, PushLast
    <3>3. workers'[n] = [workers[n] EXCEPT !.queue = Push(workers[n].queue, ep)]
      BY <2>1
    <3> HIDE DEF ep
    <3>4. KeepsSession(n) /\ workers'[n].queue = Push(workers[n].queue, ep)
      BY <3>1, <3>3 DEF WorkerRecord, KeepsSession
    <3> QED BY <3>2, <3>4 DEF KeepsNews
  <2> QED BY <2>1, <2>2 DEF SessionsKept, NewsKept
<1> QED BY <1>8, <1>9

\* The calls that a learner, or its silence, makes the coordinator answer.
LEMMA LearnerCallRecords ==
  ASSUME Inv, Inv',
         \/ \E l \in LearnerHellos : RegisterLearner(l)
         \/ \E i, t, s, ep : LearnerHeartbeat(i, t, s, ep)
         \/ CleanupStaleLearners
  PROVE  SessionsKept /\ NewsKept
<1>1. /\ tokens \in Nat /\ learnerSeq \in Nat /\ DOMAIN learners \subseteq 1..learnerSeq
  BY DEF Inv, LearnersPart
<1>2. ASSUME NEW l \in LearnerHellos, RegisterLearner(l)
      PROVE  SessionsKept /\ NewsKept
  <2> DEFINE found  == FindLearnerMatch(l)
             id     == IF found = NoMatch THEN learnerSeq + 1 ELSE found
             record == LearnerRecordFor(l, IF found = NoMatch THEN "unknown"
                                           ELSE learners[found].hostname)
             ls     == [i \in DOMAIN learners \cup {id} |-> IF i = id THEN record ELSE learners[i]]
  <2>1. SetLearners(ls, id) /\ tokens' = tokens + 1
    BY <1>2 DEF RegisterLearner
  <2>2. id \in Nat
    BY <1>1, FoundLearner
  <2> HIDE DEF ls, id
  <2> QED BY <2>1, <2>2, <1>1, SetLearnersRecords
<1>3. ASSUME NEW i, NEW t, NEW s, NEW ep, LearnerHeartbeat(i, t, s, ep)
      PROVE  SessionsKept /\ NewsKept
  <2> DEFINE ls == [learners EXCEPT ![i].age = s,
                                    ![i].endpoint = IF ep # Blank THEN ep ELSE @]
  <2>1. SetLearners(ls, i) /\ tokens' = tokens /\ i \in Nat
    BY <1>1, <1>3 DEF LearnerHeartbeat
  <2> HIDE DEF ls
  <2> QED BY <2>1, <1>1, SetLearnersRecords
<1>4. ASSUME CleanupStaleLearners
      PROVE  SessionsKept /\ NewsKept
  <2> DEFINE ls == [i \in DOMAIN learners \ StaleLearners |-> learners[i]]
  <2>1. SetLearners(ls, NoLearner) /\ tokens' = tokens
    BY <1>4 DEF CleanupStaleLearners
  <2> HIDE DEF ls
  <2> QED BY <2>1, <1>1, SetLearnersRecords DEF NoLearner
<1> QED BY <1>2, <1>3, <1>4

\* The calls about one worker, and the passing of time, leave every queue.
LEMMA WorkerCallRecords ==
  ASSUME Inv,
         \/ \E i, t, s, p : WorkerHeartbeat(i, t, s, p)
         \/ \E i : MarkWorkerDisconnected(i)
         \/ CleanupStaleWorkers
         \/ Tick
         \/ UNCHANGED registry
  PROVE  SessionsKept /\ NewsKept
<1>0. ASSUME NEW w \in WorkerRecord
      PROVE  /\ Offline(w).token = w.token /\ Offline(w).queue = w.queue
             /\ Offline(w).identity = w.identity /\ Offline(w).hostname = w.hostname
             /\ Older(w).token = w.token /\ Older(w).queue = w.queue
             /\ Older(w).identity = w.identity /\ Older(w).hostname = w.hostname
  BY DEF Offline, Older, WorkerRecord
<1>1. tokens \in Nat /\ \A n \in DOMAIN workers : workers[n] \in WorkerRecord
  BY WorkerRecords DEF Inv
<1> USE DEF SessionsKept, NewsKept, KeepsSession, KeepsNews
<1>2. ASSUME NEW i, NEW t, NEW s, NEW p, WorkerHeartbeat(i, t, s, p)
      PROVE  SessionsKept /\ NewsKept
  <2>1. /\ i \in DOMAIN workers
        /\ workers' = [workers EXCEPT ![i] = [workers[i] EXCEPT !.age = s, !.phase = p]]
        /\ UNCHANGED <<learners, active, tokens>>
    BY <1>2 DEF WorkerHeartbeat
  <2> QED BY <1>1, <2>1 DEF WorkerRecord, Current
<1>3. ASSUME NEW i, MarkWorkerDisconnected(i)
      PROVE  SessionsKept /\ NewsKept
  BY <1>0, <1>1, <1>3 DEF MarkWorkerDisconnected, Current
<1>4. CASE CleanupStaleWorkers
  BY <1>0, <1>1, <1>4 DEF CleanupStaleWorkers, Current
<1>5. CASE Tick
  <2>1. /\ workers' = [n \in DOMAIN workers |-> Older(workers[n])]
        /\ learners' = [n \in DOMAIN learners |-> Older(learners[n])]
        /\ UNCHANGED <<active, tokens>>
    BY <1>5 DEF Tick
  <2>2. /\ active # NoLearner => active \in DOMAIN learners
        /\ \A n \in DOMAIN learners : learners[n] \in LearnerRecord
    BY DEF Inv, LearnersPart, LearnersOK, Settled
  <2>3. Current' = Current
    BY <2>1, <2>2, OlderKeepsRest DEF Current, EndpointOf
  <2> QED BY <1>0, <1>1, <2>1, <2>3
<1>6. CASE UNCHANGED registry
  BY <1>1, <1>6 DEF registry, Current
<1> QED BY <1>2, <1>3, <1>4, <1>5, <1>6

\* A forwarded directive is missed in its own queue only.
LEMMA ForwardRecords ==
  ASSUME Inv, NEW i, ForwardDirective(i)
  PROVE  /\ SessionsKept
         /\ \A n \in DOMAIN workers \ {i} : KeepsNews(n)
         /\ i \in DOMAIN workers /\ workers[i].queue # <<>>
         /\ workers'[i].queue = Tail(workers[i].queue)
         /\ Current' = Current
<1>1. tokens \in Nat /\ \A n \in DOMAIN workers : workers[n] \in WorkerRecord
  BY WorkerRecords DEF Inv
<1>2. /\ i \in DOMAIN workers /\ workers[i].queue # <<>>
      /\ workers' = [workers EXCEPT ![i] = [workers[i] EXCEPT !.queue = Tail(workers[i].queue)]]
      /\ UNCHANGED <<learners, active, tokens>>
  BY DEF ForwardDirective
<1>3. workers'[i].queue = Tail(workers[i].queue)
  BY <1>1, <1>2 DEF WorkerRecord
<1> QED
  BY <1>1, <1>2, <1>3 DEF WorkerRecord, Current, SessionsKept, KeepsSession, KeepsNews

\* A registration gives the record it finds, or a new one, to the worker.
LEMMA RegisterWorkerRecords ==
  ASSUME Inv, NEW h \in WorkerHellos, RegisterWorker(h), NEW s, s = WorkerSession(h)
  PROVE  /\ s.token = tokens + 1 /\ tokens' = tokens + 1
         /\ s.id \in Nat \ {0}
         /\ DOMAIN workers' = DOMAIN workers \cup {s.id}
         /\ Known(workers', s)
         /\ workers'[s.id].identity = h.identity
         /\ workers'[s.id].hostname = HostOf(h)
         /\ \A n \in DOMAIN workers \ {s.id} : workers'[n] = workers[n]
         /\ s.id \in DOMAIN workers => s.id = FindWorkerMatch(h) /\ s.id # NoMatch
         /\ Current' = Current /\ CurrentEndpoint = Current
<1> DEFINE found == FindWorkerMatch(h)
           queue == IF found = NoMatch THEN <<>> ELSE workers[found].queue
           record == WorkerRecordFor(h, queue)
<1>1. LearnersOK(learners) /\ active \in Nat /\ Settled(learners, active)
  BY DEF Inv, LearnersPart
<1>2. UpdateActive(learners, active, NoLearner) = active
  BY <1>1, SettledIsStable
<1>3. /\ active' = active /\ learners' = learners /\ tokens' = tokens + 1
      /\ workers' = IF found = NoMatch THEN Append(workers, record)
                    ELSE [workers EXCEPT ![found] = record]
  BY <1>2 DEF RegisterWorker
<1>4. Current' = Current /\ CurrentEndpoint = Current
  BY <1>2, <1>3 DEF Current, CurrentEndpoint
<1>5. /\ s.token = tokens + 1
      /\ s.id = IF found = NoMatch THEN Len(workers) + 1 ELSE found
  BY DEF WorkerSession
<1>6. /\ Len(workers) \in Nat /\ DOMAIN workers = 1..Len(workers)
      /\ found # NoMatch => found \in DOMAIN workers
      /\ workers \in Seq(WorkerRecord)
  BY WorkerRecords, FoundWorker DEF Inv, WorkersPart
<1>7. record.token = tokens + 1 /\ record.identity = h.identity /\ record.hostname = HostOf(h)
  BY DEF WorkerRecordFor
<1> HIDE DEF found, record
<1>8. /\ s.id \in Nat \ {0}
      /\ DOMAIN workers' = DOMAIN workers \cup {s.id}
      /\ workers'[s.id] = record
      /\ \A n \in DOMAIN workers \ {s.id} : workers'[n] = workers[n]
  <2>1. CASE found = NoMatch
    <3>1. workers' = Append(workers, record) /\ s.id = Len(workers) + 1
      BY <2>1, <1>3, <1>5
    <3>2. /\ DOMAIN workers' = 1..Len(workers) + 1
          /\ workers'[Len(workers) + 1] = record
          /\ \A n \in 1..Len(workers) : workers'[n] = workers[n]
      BY <3>1, <1>6
    <3> QED BY <3>1, <3>2, <1>6
  <2>2. CASE found # NoMatch
    BY <2>2, <1>3, <1>5, <1>6
  <2> QED BY <2>1, <2>2
<1>9. s.id \in DOMAIN workers => s.id = found /\ s.id # NoMatch
  BY <1>5, <1>6, <1>8 DEF NoMatch
<1> QED BY <1>3, <1>4, <1>5, <1>7, <1>8, <1>9 DEF Known, found
-----------------------------------------------------------------------------
(***************************************************************************)
(* The variables of the streams and of the clients keep their types.       *)
(***************************************************************************)
\* The calls that hand out no session to a worker and forward no directive.
WorkerCall ==
  \/ \E i, t : \E s \in Skews, p \in Phases : WorkerHeartbeat(i, t, s, p)
  \/ \E i : MarkWorkerDisconnected(i)
  \/ CleanupStaleWorkers
  \/ Tick
  \/ UNCHANGED registry

LearnerCall ==
  \/ \E l \in LearnerHellos : RegisterLearner(l)
  \/ \E i, t : \E s \in Skews, ep \in Endpoints : LearnerHeartbeat(i, t, s, ep)
  \/ CleanupStaleLearners

\* Those calls keep the registry's invariant ...
LEMMA CallInv ==
  ASSUME Inv, WorkerCall \/ LearnerCall
  PROVE  Inv'
<1>1. ASSUME NEW i, NEW t, NEW s \in Skews, NEW p \in Phases, WorkerHeartbeat(i, t, s, p)
      PROVE  Inv'
  <2>1. i \in DOMAIN workers
    BY <1>1 DEF WorkerHeartbeat
  <2> QED BY <1>1, <2>1, WorkerHeartbeatInv
<1>2. ASSUME NEW i, MarkWorkerDisconnected(i) PROVE Inv'
  <2>1. i \in DOMAIN workers
    BY <1>2 DEF MarkWorkerDisconnected
  <2> QED BY <1>2, <2>1, MarkWorkerDisconnectedInv
<1>3. ASSUME NEW i, NEW t, NEW s \in Skews, NEW ep \in Endpoints, LearnerHeartbeat(i, t, s, ep)
      PROVE  Inv'
  <2>1. i \in DOMAIN learners
    BY <1>3 DEF LearnerHeartbeat
  <2> QED BY <1>3, <2>1, LearnerHeartbeatInv
<1>4. (UNCHANGED registry) => Inv'
  BY DEF registry, Inv, LearnersPart, WorkersPart, LearnersOK, Settled, Serving, EndpointOf
<1> QED
  BY <1>1, <1>2, <1>3, <1>4, CleanupStaleWorkersInv, CleanupStaleLearnersInv, TickInv,
     RegisterLearnerInv DEF WorkerCall, LearnerCall

\* ... and the sessions and the news of every worker.
LEMMA CallRecords ==
  ASSUME Inv, WorkerCall \/ LearnerCall
  PROVE  SessionsKept /\ NewsKept
<1>1. Inv'
  BY CallInv
<1>2. CASE WorkerCall
  BY <1>2, WorkerCallRecords DEF WorkerCall
<1>3. CASE LearnerCall
  BY <1>3, <1>1, LearnerCallRecords DEF LearnerCall
<1> QED BY <1>2, <1>3

\* The actions of the control plane that make such a call, or none.
Calling ==
  \/ \E h \in WorkerHellos :
       \/ OpenStream(h) \/ Beat(h) \/ BeatRejected(h) \/ Deliver(h) \/ WorkerStop(h)
       \/ Break(h) \/ StaleEnds(h)
  \/ \E l \in LearnerHellos : LearnerStart(l) \/ LearnerBeat(l) \/ LearnerCrash(l)
  \/ Monitor \/ Clock \/ UNCHANGED vars

\* Each of those actions is one call of the registry at most.
LEMMA Calls ==
  ASSUME Calling
  PROVE  WorkerCall \/ LearnerCall
<1>1. ASSUME NEW i, Disconnect(i)
      PROVE  WorkerCall
  BY <1>1 DEF Disconnect, WorkerCall
<1>2. ASSUME NEW h \in WorkerHellos,
             \/ OpenStream(h) \/ BeatRejected(h) \/ Deliver(h) \/ WorkerStop(h)
             \/ Break(h) \/ StaleEnds(h)
      PROVE  WorkerCall
  <2>1. (UNCHANGED registry) \/ \E i : Disconnect(i)
    BY <1>2 DEF OpenStream, BeatRejected, Deliver, WorkerStop, Break, StaleEnds
  <2> QED BY <2>1, <1>1 DEF WorkerCall
<1>3. ASSUME NEW h \in WorkerHellos, Beat(h)
      PROVE  WorkerCall
  BY <1>3 DEF Beat, WorkerCall
<1>4. ASSUME NEW l \in LearnerHellos, LearnerStart(l) \/ LearnerBeat(l) \/ LearnerCrash(l)
      PROVE  WorkerCall \/ LearnerCall
  <2>1. l.endpoint \in Endpoints
    BY HelloFacts
  <2> QED BY <1>4, <2>1 DEF LearnerStart, LearnerBeat, LearnerCrash, WorkerCall, LearnerCall
<1>5. ASSUME Monitor \/ Clock \/ UNCHANGED vars
      PROVE  WorkerCall \/ LearnerCall
  BY <1>5 DEF Monitor, Clock, vars, WorkerCall, LearnerCall
<1> QED BY <1>2, <1>3, <1>4, <1>5 DEF Calling

\* A restarted coordinator has an empty registry.
LEMMA RestartInv ==
  ASSUME Inv, Restart
  PROVE  Inv'
<1>1. /\ learners' = <<>> /\ DOMAIN learners' = {} /\ learnerSeq' = 0 /\ active' = NoLearner
      /\ workers' = <<>> /\ told' = <<>> /\ tokens' = tokens
  BY DEF Restart
<1>2. LearnersPart'
  BY <1>1 DEF LearnersPart, LearnersOK, Settled, Serving, NoLearner
<1>3. WorkersPart(workers, told, EndpointOf(learners, active))'
  BY <1>1 DEF WorkersPart
<1> QED BY <1>1, <1>2, <1>3 DEF Inv

\* Whatever the control plane does keeps the registry's invariant.
LEMMA RegistryKept ==
  ASSUME Inv, [Next]_vars
  PROVE  Inv'
<1>1. ASSUME NEW h \in WorkerHellos, WorkerStart(h) \/ Reregister(h) PROVE Inv'
  BY <1>1, RegisterWorkerInv DEF WorkerStart, Reregister
<1>2. ASSUME NEW i, ForwardDirective(i) PROVE Inv'
  <2>1. i \in DOMAIN workers
    BY <1>2 DEF ForwardDirective
  <2> QED BY <1>2, <2>1, ForwardDirectiveInv
<1>3. ASSUME NEW h \in WorkerHellos, Forward(h) \/ ForwardStale(h) PROVE Inv'
  BY <1>2, <1>3 DEF Forward, ForwardStale
<1>4. Calling => Inv'
  BY Calls, CallInv
<1> QED BY <1>1, <1>3, <1>4, RestartInv DEF Next, Calling
Session(t) == [id : Nat, token : 0..t]

\* The registry only ever grows, except by a restart.
LEMMA RegistryGrows ==
  ASSUME Inv, [Next]_vars, ~ Restart
  PROVE  /\ DOMAIN workers \subseteq DOMAIN workers'
         /\ tokens \in Nat /\ tokens' \in Nat /\ tokens' >= tokens
<1>1. tokens \in Nat /\ tokens' \in Nat
  BY RegistryKept DEF Inv
<1>2. ASSUME NEW h \in WorkerHellos, WorkerStart(h) \/ Reregister(h)
      PROVE  DOMAIN workers \subseteq DOMAIN workers' /\ tokens' >= tokens
  <2>1. RegisterWorker(h)
    BY <1>2 DEF WorkerStart, Reregister
  <2>2. /\ tokens' = tokens + 1
        /\ DOMAIN workers' = DOMAIN workers \cup {WorkerSession(h).id}
    BY <2>1, RegisterWorkerRecords
  <2> QED BY <2>2, <1>1
<1>3. ASSUME NEW h \in WorkerHellos, Forward(h) \/ ForwardStale(h)
      PROVE  DOMAIN workers \subseteq DOMAIN workers' /\ tokens' >= tokens
  BY <1>3, ForwardRecords DEF Forward, ForwardStale, SessionsKept
<1>4. ASSUME Calling
      PROVE  DOMAIN workers \subseteq DOMAIN workers' /\ tokens' >= tokens
  BY <1>4, Calls, CallRecords DEF SessionsKept
<1> QED BY <1>1, <1>2, <1>3, <1>4 DEF Next, Calling

\* The variables of this module, typed by the registry's ids and tokens.
ClientTypes(toks) ==
  /\ wproc \in [WorkerHellos -> {"down", "closed", "streaming", "rejected"}]
  /\ wsess \in [WorkerHellos -> Session(toks)]
  /\ target \in [WorkerHellos -> Endpoints]
  /\ lproc \in [LearnerHellos -> {"down", "up"}]
  /\ lsess \in [LearnerHellos -> Session(toks)]
StreamTypes(ids) ==
  /\ serving \in [WorkerHellos -> {NoRecord} \cup ids]
  /\ stale \in [WorkerHellos -> {NoRecord} \cup ids]
FlightTypes ==
  flight \in [WorkerHellos -> Seq(Endpoints)] /\ \A h \in WorkerHellos : Len(flight[h]) <= MaxFlight
StreamsOpen ==
  \A h \in WorkerHellos :
    /\ flight[h] # <<>> => serving[h] # NoRecord
    /\ serving[h] # NoRecord => wproc[h] = "streaming" /\ serving[h] = wsess[h].id

\* TypeOK is the conjunction of its parts.
LEMMA TypeParts ==
  TypeOK <=> ClientTypes(tokens) /\ StreamTypes(DOMAIN workers) /\ FlightTypes /\ StreamsOpen
BY DEF TypeOK, ClientTypes, StreamTypes, FlightTypes, StreamsOpen, Session

\* A session stays one when more tokens have been handed out.
LEMMA SessionGrows ==
  ASSUME NEW t \in Nat, NEW u \in Nat, u >= t
  PROVE  Session(t) \subseteq Session(u)
BY DEF Session

\* The clients take sessions and endpoints that the coordinator gives them.
LEMMA ClientTypesKept ==
  ASSUME Inv, ClientTypes(tokens), FlightTypes, [Next]_vars
  PROVE  ClientTypes(tokens)'
<1>1. tokens \in Nat /\ tokens' \in Nat /\ tokens' >= tokens
  BY RegistryKept, RegistryGrows DEF Restart, Inv
<1> DEFINE S == Session(tokens')
<1>2. wsess \in [WorkerHellos -> S] /\ lsess \in [LearnerHellos -> S] /\ NoSession \in S
  <2>1. NoSession \in S
    BY <1>1 DEF Session, NoSession
  <2> QED BY <1>1, <2>1, SessionGrows DEF ClientTypes
<1>3. ASSUME NEW h \in WorkerHellos, RegisterWorker(h)
      PROVE  WorkerSession(h) \in S
  <2> DEFINE s == WorkerSession(h)
  <2>1. s = [id |-> s.id, token |-> s.token]
    BY DEF WorkerSession
  <2>2. s.id \in Nat /\ s.token = tokens'
    BY <1>3, RegisterWorkerRecords
  <2>3. s \in S
    <3> HIDE DEF s
    <3> QED BY <1>1, <2>1, <2>2 DEF Session
  <2> QED BY <2>3
<1>4. ASSUME NEW l \in LearnerHellos, RegisterLearner(l)
      PROVE  LearnerSession(l) \in S
  <2>1. learnerSeq \in Nat /\ DOMAIN learners \subseteq Nat /\ tokens' = tokens + 1
    BY <1>4 DEF RegisterLearner, Inv, LearnersPart
  <2>2. FindLearnerMatch(l) # NoMatch => FindLearnerMatch(l) \in Nat
    BY <2>1, FoundLearner
  <2> QED BY <1>1, <2>1, <2>2 DEF Session, LearnerSession
<1>5. Blank \in Endpoints
  BY ConstAssumption DEF ConstAssumption
<1> SUFFICES /\ wproc' \in [WorkerHellos -> {"down", "closed", "streaming", "rejected"}]
             /\ wsess' \in [WorkerHellos -> S]
             /\ target' \in [WorkerHellos -> Endpoints]
             /\ lproc' \in [LearnerHellos -> {"down", "up"}]
             /\ lsess' \in [LearnerHellos -> S]
  BY DEF ClientTypes
<1> HIDE DEF S
<1> USE DEF ClientTypes
<1>6. ASSUME NEW h \in WorkerHellos, WorkerStart(h)
      PROVE  /\ wproc' \in [WorkerHellos -> {"down", "closed", "streaming", "rejected"}]
             /\ wsess' \in [WorkerHellos -> S]
             /\ target' \in [WorkerHellos -> Endpoints]
             /\ lproc' = lproc /\ lsess' = lsess
  <2>1. RegisterWorker(h)
    BY <1>6 DEF WorkerStart
  <2>2. WorkerSession(h) \in S /\ CurrentEndpoint \in Endpoints
    <3>1. CurrentEndpoint = Current
      BY <2>1, RegisterWorkerRecords
    <3>2. Current \in Endpoints
      BY SettledEndpoint DEF Inv, LearnersPart, Current
    <3> QED BY <2>1, <3>1, <3>2, <1>3
  <2> QED BY <1>2, <1>6, <2>2 DEF WorkerStart
<1>7. ASSUME NEW h \in WorkerHellos, Reregister(h)
      PROVE  /\ wproc' \in [WorkerHellos -> {"down", "closed", "streaming", "rejected"}]
             /\ wsess' \in [WorkerHellos -> S]
             /\ UNCHANGED <<target, lproc, lsess>>
  <2>1. WorkerSession(h) \in S
    BY <1>3, <1>7 DEF Reregister
  <2> QED BY <1>2, <1>7, <2>1 DEF Reregister
<1>8. ASSUME NEW l \in LearnerHellos, LearnerStart(l)
      PROVE  /\ lproc' \in [LearnerHellos -> {"down", "up"}]
             /\ lsess' \in [LearnerHellos -> S]
             /\ UNCHANGED <<wproc, wsess, target>>
  <2>1. LearnerSession(l) \in S
    BY <1>4, <1>8 DEF LearnerStart
  <2> QED BY <1>2, <1>8, <2>1 DEF LearnerStart
<1>9. ASSUME NEW h \in WorkerHellos, Deliver(h)
      PROVE  target' \in [WorkerHellos -> Endpoints] /\ UNCHANGED <<wproc, wsess, lproc, lsess>>
  <2>1. Head(flight[h]) \in Endpoints
    BY <1>9, HeadTailProperties DEF Deliver, FlightTypes
  <2> QED BY <2>1, <1>9 DEF Deliver
<1>10. ASSUME NEW h \in WorkerHellos, WorkerStop(h)
       PROVE  /\ wproc' \in [WorkerHellos -> {"down", "closed", "streaming", "rejected"}]
              /\ wsess' \in [WorkerHellos -> S]
              /\ target' \in [WorkerHellos -> Endpoints]
              /\ lproc' = lproc /\ lsess' = lsess
  BY <1>2, <1>5, <1>10 DEF WorkerStop
<1>11. ASSUME NEW h \in WorkerHellos, OpenStream(h) \/ BeatRejected(h) \/ Break(h)
       PROVE  /\ wproc' \in [WorkerHellos -> {"down", "closed", "streaming", "rejected"}]
              /\ UNCHANGED <<wsess, target, lproc, lsess>>
  BY <1>11 DEF OpenStream, BeatRejected, Break
<1>12. ASSUME NEW l \in LearnerHellos, LearnerCrash(l)
       PROVE  lproc' \in [LearnerHellos -> {"down", "up"}] /\ UNCHANGED <<wproc, wsess, target, lsess>>
  BY <1>12 DEF LearnerCrash
<1>13. ASSUME Restart
       PROVE  /\ wproc' \in [WorkerHellos -> {"down", "closed", "streaming", "rejected"}]
              /\ UNCHANGED <<wsess, target, lproc, lsess>>
  BY <1>13 DEF Restart
<1>14. ASSUME NEW h \in WorkerHellos, Beat(h) \/ Forward(h) \/ ForwardStale(h) \/ StaleEnds(h)
       PROVE  UNCHANGED clients
  BY <1>14 DEF Beat, Forward, ForwardStale, StaleEnds
<1>15. ASSUME (\E l \in LearnerHellos : LearnerBeat(l)) \/ Monitor \/ Clock \/ UNCHANGED vars
       PROVE  UNCHANGED clients
  BY <1>15 DEF LearnerBeat, Monitor, Clock, vars
<1> QED
  BY <1>2, <1>6, <1>7, <1>8, <1>9, <1>10, <1>11, <1>12, <1>13, <1>14, <1>15 DEF Next, clients

\* A handler serves the record of a registered worker.
LEMMA StreamTypesKept ==
  ASSUME Inv, StreamTypes(DOMAIN workers), [Next]_vars
  PROVE  StreamTypes(DOMAIN workers)'
<1> DEFINE W == {NoRecord} \cup DOMAIN workers'
<1>1. CASE Restart
  BY <1>1 DEF Restart, StreamTypes
<1>2. CASE ~ Restart
  <2>1. serving \in [WorkerHellos -> W] /\ stale \in [WorkerHellos -> W] /\ NoRecord \in W
    BY <1>2, RegistryGrows DEF StreamTypes
  <2>2. ASSUME NEW h \in WorkerHellos, Beat(h)
        PROVE  wsess[h].id \in W
    <3>1. wsess[h].id \in DOMAIN workers
      BY <2>2 DEF Beat, WorkerHeartbeat
    <3> QED BY <3>1, <1>2, <2>2, RegistryGrows
  <2> SUFFICES serving' \in [WorkerHellos -> W] /\ stale' \in [WorkerHellos -> W]
    BY DEF StreamTypes
  <2> HIDE DEF W
  <2>3. ASSUME NEW h \in WorkerHellos,
               \/ WorkerStart(h) \/ OpenStream(h) \/ Beat(h) \/ BeatRejected(h) \/ Reregister(h)
               \/ Forward(h) \/ Deliver(h) \/ WorkerStop(h)
        PROVE  serving' \in [WorkerHellos -> W] /\ stale' \in [WorkerHellos -> W]
    BY <2>1, <2>2, <2>3 DEF WorkerStart, OpenStream, Beat, BeatRejected, Reregister, Forward,
       Deliver, WorkerStop, CloseStream, streams
  <2>4. ASSUME NEW h \in WorkerHellos, Break(h) \/ ForwardStale(h) \/ StaleEnds(h)
        PROVE  serving' \in [WorkerHellos -> W] /\ stale' \in [WorkerHellos -> W]
    BY <2>1, <2>4 DEF Break, ForwardStale, StaleEnds, CloseStream, streams
  <2>5. ASSUME \/ \E l \in LearnerHellos : LearnerStart(l) \/ LearnerBeat(l) \/ LearnerCrash(l)
               \/ Monitor \/ Clock \/ UNCHANGED vars
        PROVE  serving' = serving /\ stale' = stale
    BY <2>5 DEF LearnerStart, LearnerBeat, LearnerCrash, Monitor, Clock, streams, vars
  <2> QED BY <1>2, <2>1, <2>3, <2>4, <2>5 DEF Next
<1> QED BY <1>1, <1>2

\* What is on its way to a worker are endpoints, and not too many.
LEMMA FlightTypesKept ==
  ASSUME Inv, FlightTypes, [Next]_vars
  PROVE  FlightTypes'
<1>1. MaxFlight \in Nat
  BY PlaneAssumption DEF PlaneAssumption
<1> DEFINE Flown(q) == q \in Seq(Endpoints) /\ Len(q) <= MaxFlight
<1>2. flight \in [WorkerHellos -> Seq(Endpoints)] /\ \A h \in WorkerHellos : Flown(flight[h])
  BY DEF FlightTypes
<1>3. Flown(<<>>)
  BY <1>1
<1>4. ASSUME NEW h \in WorkerHellos, Forward(h)
      PROVE  Flown(Append(flight[h], Head(workers[serving[h]].queue)))
  <2>1. serving[h] \in DOMAIN workers /\ workers[serving[h]].queue # <<>>
    BY <1>4 DEF Forward, ForwardDirective
  <2>2. workers[serving[h]].queue \in Seq(Endpoints)
    BY <2>1, WorkerRecords
  <2>3. Head(workers[serving[h]].queue) \in Endpoints
    BY <2>1, <2>2, HeadTailProperties
  <2>4. Len(flight[h]) < MaxFlight
    BY <1>4 DEF Forward
  <2> QED BY <1>1, <1>2, <2>3, <2>4
<1>5. ASSUME NEW h \in WorkerHellos, Deliver(h)
      PROVE  Flown(Tail(flight[h]))
  <2>1. flight[h] # <<>>
    BY <1>5 DEF Deliver
  <2>2. Tail(flight[h]) \in Seq(Endpoints) /\ Len(Tail(flight[h])) = Len(flight[h]) - 1
    BY <1>2, <2>1, HeadTailProperties
  <2>3. Len(flight[h]) \in Nat
    BY <1>2
  <2> QED BY <1>1, <1>2, <2>2, <2>3
<1>6. \A q : Flown(q) => q \in Seq(Endpoints)
  OBVIOUS
<1> SUFFICES flight' \in [WorkerHellos -> Seq(Endpoints)] /\ \A h \in WorkerHellos : Flown(flight'[h])
  BY DEF FlightTypes
<1> HIDE DEF Flown
<1>7. ASSUME NEW h \in WorkerHellos, NEW q, Flown(q), flight' = [flight EXCEPT ![h] = q]
      PROVE  /\ flight' \in [WorkerHellos -> Seq(Endpoints)]
             /\ \A g \in WorkerHellos : Flown(flight'[g])
  BY <1>2, <1>6, <1>7
<1>8. ASSUME NEW h \in WorkerHellos, Forward(h) \/ Deliver(h)
      PROVE  \E q : Flown(q) /\ flight' = [flight EXCEPT ![h] = q]
  BY <1>4, <1>5, <1>8 DEF Forward, Deliver
<1>9. ASSUME NEW h \in WorkerHellos, BeatRejected(h) \/ WorkerStop(h) \/ Break(h)
      PROVE  \E q : Flown(q) /\ flight' = [flight EXCEPT ![h] = q]
  BY <1>3, <1>9 DEF BeatRejected, WorkerStop, Break, CloseStream
<1>10. ASSUME NEW h \in WorkerHellos,
              \/ WorkerStart(h) \/ OpenStream(h) \/ Beat(h) \/ Reregister(h)
              \/ ForwardStale(h) \/ StaleEnds(h)
       PROVE  flight' = flight
  BY <1>10 DEF WorkerStart, OpenStream, Beat, Reregister, ForwardStale, StaleEnds, streams
<1>11. ASSUME \/ \E l \in LearnerHellos : LearnerStart(l) \/ LearnerBeat(l) \/ LearnerCrash(l)
              \/ Monitor \/ Clock \/ UNCHANGED vars
       PROVE  flight' = flight
  BY <1>11 DEF LearnerStart, LearnerBeat, LearnerCrash, Monitor, Clock, streams, vars
<1>12. ASSUME Restart
       PROVE  /\ flight' \in [WorkerHellos -> Seq(Endpoints)]
              /\ \A g \in WorkerHellos : Flown(flight'[g])
  BY <1>3, <1>6, <1>12 DEF Restart
<1> QED BY <1>2, <1>7, <1>8, <1>9, <1>10, <1>11, <1>12 DEF Next
\* Directives travel only on an open stream, served for the worker's session.
LEMMA StreamsOpenKept ==
  ASSUME Inv, ClientTypes(tokens), StreamTypes(DOMAIN workers), FlightTypes, StreamsOpen,
         [Next]_vars
  PROVE  StreamsOpen'
<1> DEFINE Open(h) ==
      /\ flight[h] # <<>> => serving[h] # NoRecord
      /\ serving[h] # NoRecord => wproc[h] = "streaming" /\ serving[h] = wsess[h].id
<1>1. \A h \in WorkerHellos : Open(h)
  BY DEF StreamsOpen
<1> SUFFICES ASSUME NEW g \in WorkerHellos PROVE Open(g)'
  BY DEF StreamsOpen
<1> USE DEF ClientTypes, StreamTypes, FlightTypes
<1>2. ASSUME NEW h \in WorkerHellos,
             WorkerStart(h) \/ OpenStream(h) \/ Beat(h) \/ Reregister(h)
      PROVE  Open(g)'
  <2>1. CASE WorkerStart(h) \/ Reregister(h)
    BY <1>1, <2>1 DEF WorkerStart, Reregister, streams
  <2>2. CASE OpenStream(h)
    BY <1>1, <2>2 DEF OpenStream, streams
  <2>3. CASE Beat(h)
    BY <1>1, <2>3 DEF Beat, clients
  <2> QED BY <1>2, <2>1, <2>2, <2>3
<1>3. ASSUME NEW h \in WorkerHellos, BeatRejected(h) \/ WorkerStop(h) \/ Break(h)
      PROVE  Open(g)'
  BY <1>1, <1>3 DEF BeatRejected, WorkerStop, Break, CloseStream
<1>4. ASSUME NEW h \in WorkerHellos, Forward(h) \/ Deliver(h)
      PROVE  Open(g)'
  <2>1. serving[h] # NoRecord
    BY <1>1, <1>4 DEF Forward, Deliver
  <2> QED BY <1>1, <1>4, <2>1 DEF Forward, Deliver, clients
<1>5. ASSUME NEW h \in WorkerHellos, ForwardStale(h) \/ StaleEnds(h)
      PROVE  Open(g)'
  BY <1>1, <1>5 DEF ForwardStale, StaleEnds, streams, clients
<1>6. ASSUME \/ \E l \in LearnerHellos : LearnerStart(l) \/ LearnerBeat(l) \/ LearnerCrash(l)
             \/ Monitor \/ Clock \/ UNCHANGED vars
      PROVE  Open(g)'
  BY <1>1, <1>6 DEF LearnerStart, LearnerBeat, LearnerCrash, Monitor, Clock, streams, clients, vars
<1>7. CASE Restart
  BY <1>7 DEF Restart
<1> HIDE DEF Open
<1> QED BY <1>2, <1>3, <1>4, <1>5, <1>6, <1>7 DEF Next

\* The inductive invariant of every control plane: the registry's, and the types.
PlaneTypes == Inv /\ TypeOK

\* Every step keeps it ...
LEMMA PlaneTypesKept == PlaneTypes /\ [Next]_vars => PlaneTypes'
<1> SUFFICES ASSUME PlaneTypes, [Next]_vars PROVE PlaneTypes'
  OBVIOUS
<1>1. /\ Inv /\ ClientTypes(tokens) /\ StreamTypes(DOMAIN workers)
      /\ FlightTypes /\ StreamsOpen
  BY TypeParts DEF PlaneTypes
<1>2. /\ Inv' /\ ClientTypes(tokens)' /\ StreamTypes(DOMAIN workers)'
      /\ FlightTypes' /\ StreamsOpen'
  BY <1>1, RegistryKept, ClientTypesKept, StreamTypesKept, FlightTypesKept, StreamsOpenKept
<1>3. TypeOK'
  BY <1>2 DEF TypeOK, ClientTypes, StreamTypes, FlightTypes, StreamsOpen, Session
<1> QED BY <1>2, <1>3 DEF PlaneTypes

\* ... and it holds at the start, when nobody has registered ...
LEMMA InitPlaneTypes == Init => PlaneTypes
<1> SUFFICES ASSUME Init PROVE PlaneTypes
  OBVIOUS
<1>1. Inv
  BY InitInv DEF Init
<1>2. Blank \in Endpoints /\ MaxFlight \in Nat /\ tokens = 0
  BY ConstAssumption, PlaneAssumption DEF ConstAssumption, PlaneAssumption, Init, RegistryInit
<1>3. NoSession \in [id : Nat, token : 0..0]
  BY DEF NoSession
<1>4. TypeOK
  BY <1>2, <1>3 DEF Init, TypeOK
<1> QED BY <1>1, <1>4 DEF PlaneTypes

\* ... so it always holds.
LEMMA PlaneTypesInvariant == Spec => []PlaneTypes
BY InitPlaneTypes, PlaneTypesKept, PTL DEF Spec
-----------------------------------------------------------------------------
(***************************************************************************)
(* Who holds which record, provided that no two workers are taken for one. *)
(***************************************************************************)
\* No worker is found under the identity or the host name of another: they
\* have identities, which CoordinatorClient() also sends for a host name, or
\* run on hosts of their own.
DistinctWorkers ==
  \A h, g \in WorkerHellos : h # g =>
    /\ h.identity # Blank => h.identity # g.identity
    /\ h.hostname # Blank => h.hostname # HostOf(g)

Holds(h, n) == workers[n].identity = h.identity /\ workers[n].hostname = HostOf(h)

\* The record of a known session, and the one a handler serves, is the worker's;
\* a worker that was refused is unknown until it registers again.
Sessions ==
  \A h \in WorkerHellos :
    /\ Known(workers, wsess[h]) => Holds(h, wsess[h].id)
    /\ serving[h] # NoRecord => Holds(h, serving[h])
    /\ stale[h] # NoRecord => Holds(h, stale[h])
    /\ wproc[h] = "rejected" => ~ Known(workers, wsess[h])

\* A registration finds the worker's own record.
LEMMA FindsOwn ==
  ASSUME DistinctWorkers, Inv, NEW h \in WorkerHellos, NEW g \in WorkerHellos,
         FindWorkerMatch(h) # NoMatch, Holds(g, FindWorkerMatch(h))
  PROVE  g = h
<1> DEFINE n == FindWorkerMatch(h)
<1>1. \A S \in SUBSET DOMAIN workers : S # {} => First(S) \in S
  <2>1. DOMAIN workers \in SUBSET Nat
    <3>1. DOMAIN workers = 1..Len(workers) /\ Len(workers) \in Nat
      BY WorkerRecords
    <3> QED BY <3>1
  <2> QED BY <2>1, NatMin DEF First
<1>2. IdentityMatches(h) \in SUBSET DOMAIN workers /\ HostMatches(h) \in SUBSET DOMAIN workers
  BY DEF IdentityMatches, HostMatches
<1>3. n \in IdentityMatches(h) \/ n \in HostMatches(h)
  BY <1>1, <1>2 DEF FindWorkerMatch
<1>4. \/ h.identity # Blank /\ workers[n].identity = h.identity
      \/ h.hostname # Blank /\ workers[n].hostname = h.hostname
  BY <1>3 DEF IdentityMatches, HostMatches
<1> QED BY <1>4 DEF Holds, DistinctWorkers

\* A session that is known now was known before, except for a new one; and a
\* record that is not the worker's is not touched.
LEMMA OthersUntouched ==
  ASSUME PlaneTypes, NEW h \in WorkerHellos, RegisterWorker(h),
         NEW g \in WorkerHellos
  PROVE  Known(workers', wsess[g]) =>
           /\ Known(workers, wsess[g])
           /\ wsess[g].id # WorkerSession(h).id
           /\ workers'[wsess[g].id] = workers[wsess[g].id]
<1> DEFINE s == WorkerSession(h)
           old == wsess[g]
<1>1. /\ s.token = tokens + 1
      /\ DOMAIN workers' = DOMAIN workers \cup {s.id}
      /\ workers'[s.id].token = s.token
      /\ \A n \in DOMAIN workers \ {s.id} : workers'[n] = workers[n]
  BY RegisterWorkerRecords DEF Known, PlaneTypes
<1>2. old.token \in 0..tokens /\ tokens \in Nat
  BY DEF PlaneTypes, TypeOK, Inv
<1> HIDE DEF s, old
<1>3. Known(workers', old) => /\ Known(workers, old) /\ old.id # s.id
                              /\ workers'[old.id] = workers[old.id]
  BY <1>1, <1>2 DEF Known
<1> QED BY <1>3 DEF s, old

\* A registration keeps a record's holder.
LEMMA HolderStays ==
  ASSUME DistinctWorkers, Inv, NEW h \in WorkerHellos, RegisterWorker(h),
         NEW g \in WorkerHellos, NEW n \in DOMAIN workers, Holds(g, n)
  PROVE  /\ Holds(g, n)'
         /\ g # h => workers'[n] = workers[n]
<1> DEFINE s == WorkerSession(h)
<1>1. /\ workers'[s.id].identity = h.identity
      /\ workers'[s.id].hostname = HostOf(h)
      /\ \A m \in DOMAIN workers \ {s.id} : workers'[m] = workers[m]
      /\ s.id \in DOMAIN workers => s.id = FindWorkerMatch(h) /\ s.id # NoMatch
  BY RegisterWorkerRecords
<1> HIDE DEF s
<1>2. CASE n = s.id
  <2>1. g = h
    BY <1>1, <1>2, FindsOwn
  <2> QED BY <2>1, <1>1, <1>2 DEF Holds
<1>3. CASE n # s.id
  BY <1>1, <1>3 DEF Holds
<1> QED BY <1>2, <1>3

\* Calls that keep every session keep what is known of it.
LEMMA KnownStays ==
  ASSUME SessionsKept, NEW s
  PROVE  /\ Known(workers', s) <=> Known(workers, s)
         /\ \A h \in WorkerHellos, n \in DOMAIN workers : Holds(h, n) => Holds(h, n)'
BY DEF SessionsKept, KeepsSession, Known, Holds

\* Every step keeps the holders of records, and a refused session stays unknown.
LEMMA SessionsStay ==
  ASSUME PlaneTypes, Sessions, DistinctWorkers, [Next]_vars
  PROVE  Sessions'
<1> DEFINE Fine(g) ==
      /\ Known(workers, wsess[g]) => Holds(g, wsess[g].id)
      /\ serving[g] # NoRecord => Holds(g, serving[g])
      /\ stale[g] # NoRecord => Holds(g, stale[g])
      /\ wproc[g] = "rejected" => ~ Known(workers, wsess[g])
<1> SUFFICES ASSUME NEW g \in WorkerHellos PROVE Fine(g)'
  BY DEF Sessions
<1>1. Fine(g) /\ Inv
  BY DEF Sessions, PlaneTypes
<1>2. /\ serving[g] \in {NoRecord} \cup DOMAIN workers
      /\ stale[g] \in {NoRecord} \cup DOMAIN workers
      /\ wproc \in [WorkerHellos -> {"down", "closed", "streaming", "rejected"}]
      /\ wsess \in [WorkerHellos -> Session(tokens)]
      /\ serving \in [WorkerHellos -> {NoRecord} \cup DOMAIN workers]
      /\ stale \in [WorkerHellos -> {NoRecord} \cup DOMAIN workers]
  BY TypeParts DEF PlaneTypes, ClientTypes, StreamTypes
<1>3. 0 \notin DOMAIN workers
  <2>1. DOMAIN workers = 1..Len(workers) /\ Len(workers) \in Nat
    BY <1>1, WorkerRecords
  <2> QED BY <2>1
\* Registrations.
<1>4. ASSUME NEW h \in WorkerHellos, WorkerStart(h) \/ Reregister(h)
      PROVE  Fine(g)'
  <2>1. RegisterWorker(h) /\ serving' = serving /\ stale' = stale
    BY <1>4 DEF WorkerStart, Reregister, streams
  <2>2. /\ serving[g] # NoRecord => Holds(g, serving[g])'
        /\ stale[g] # NoRecord => Holds(g, stale[g])'
    BY <1>1, <1>2, <2>1, HolderStays DEF PlaneTypes
  <2>3. CASE wsess'[g] = wsess[g]
    <3>1. Known(workers', wsess[g]) => Known(workers, wsess[g]) /\ Holds(g, wsess[g].id)'
      BY <1>1, <2>1, <2>3, OthersUntouched DEF Holds, PlaneTypes
    <3>2. wproc'[g] = "rejected" => wproc[g] = "rejected"
      BY <1>2, <1>4 DEF WorkerStart, Reregister
    <3> QED BY <1>1, <2>1, <2>2, <2>3, <3>1, <3>2
  <2>4. CASE wsess'[g] # wsess[g]
    <3>1. g = h /\ wsess'[g] = WorkerSession(h) /\ wproc'[g] = "closed"
      BY <1>2, <1>4, <2>4 DEF WorkerStart, Reregister
    <3>2. Holds(g, wsess[g].id)'
      BY <1>1, <2>1, <3>1, RegisterWorkerRecords DEF Holds
    <3> QED BY <2>1, <2>2, <3>1, <3>2
  <2> QED BY <2>3, <2>4
\* Everything else keeps the registry's sessions.
<1>5. ASSUME SessionsKept,
             wsess'[g] = wsess[g],
             \/ serving'[g] \in {NoRecord, serving[g]}
             \/ Known(workers, wsess[g]) /\ serving'[g] = wsess[g].id,
             stale'[g] \in {NoRecord, serving[g], stale[g]},
             wproc'[g] = "rejected" => wproc[g] = "rejected" \/ ~ Known(workers, wsess[g])
      PROVE  Fine(g)'
  <2>1. /\ Known(workers', wsess[g]) <=> Known(workers, wsess[g])
        /\ \A n \in DOMAIN workers : Holds(g, n) => Holds(g, n)'
    BY <1>5, KnownStays
  <2>2. Known(workers, wsess[g]) => wsess[g].id \in DOMAIN workers
    BY DEF Known
  <2> QED BY <1>1, <1>2, <1>5, <2>1, <2>2 DEF Holds
<1> HIDE DEF Fine
<1> USE DEF streams, clients
<1>6. ASSUME NEW h \in WorkerHellos, OpenStream(h) \/ Deliver(h) \/ StaleEnds(h)
      PROVE  Fine(g)'
  <2>1. SessionsKept
    BY <1>1, <1>6, Calls, CallRecords DEF Calling
  <2> QED BY <2>1, <1>2, <1>5, <1>6 DEF OpenStream, Deliver, StaleEnds
<1>7. ASSUME NEW h \in WorkerHellos, Beat(h)
      PROVE  Fine(g)'
  <2>1. SessionsKept
    BY <1>1, <1>7, Calls, CallRecords DEF Calling
  <2>2. Known(workers, wsess[h])
    BY <1>7 DEF Beat, WorkerHeartbeat, Known
  <2> QED BY <2>1, <2>2, <1>2, <1>5, <1>7 DEF Beat
<1>8. ASSUME NEW h \in WorkerHellos, BeatRejected(h) \/ Break(h)
      PROVE  Fine(g)'
  <2>1. SessionsKept
    BY <1>1, <1>8, Calls, CallRecords DEF Calling
  <2> QED BY <2>1, <1>2, <1>5, <1>8 DEF BeatRejected, Break, CloseStream
<1>9. ASSUME NEW h \in WorkerHellos, WorkerStop(h)
      PROVE  Fine(g)'
  <2>1. SessionsKept
    BY <1>1, <1>9, Calls, CallRecords DEF Calling
  <2>2. CASE g # h
    BY <2>1, <2>2, <1>2, <1>5, <1>9 DEF WorkerStop, CloseStream
  <2>3. CASE g = h
    <3>1. /\ serving'[g] = NoRecord /\ stale'[g] = stale[g]
          /\ wproc'[g] = "down" /\ wsess'[g] = NoSession
      BY <2>3, <1>2, <1>9 DEF WorkerStop, CloseStream
    <3>2. ~ Known(workers', wsess'[g])
      BY <2>1, <3>1, <1>3 DEF Known, NoSession, SessionsKept
    <3>3. stale[g] # NoRecord => Holds(g, stale[g])'
      BY <2>1, <1>1, <1>2, <3>1, KnownStays DEF Fine, Holds
    <3> QED BY <3>1, <3>2, <3>3 DEF Fine, Holds
  <2> QED BY <2>2, <2>3
<1>10. ASSUME NEW h \in WorkerHellos, Forward(h) \/ ForwardStale(h)
       PROVE  Fine(g)'
  <2>1. SessionsKept
    BY <1>1, <1>10, ForwardRecords DEF Forward, ForwardStale
  <2> QED BY <2>1, <1>2, <1>5, <1>10 DEF Forward, ForwardStale
<1>11. ASSUME \/ \E l \in LearnerHellos : LearnerStart(l) \/ LearnerBeat(l) \/ LearnerCrash(l)
              \/ Monitor \/ Clock \/ UNCHANGED vars
       PROVE  Fine(g)'
  <2>1. SessionsKept
    BY <1>1, <1>11, Calls, CallRecords DEF Calling
  <2> QED
    BY <2>1, <1>2, <1>5, <1>11 DEF LearnerStart, LearnerBeat, LearnerCrash, Monitor, Clock, vars
<1>12. CASE Restart
  <2>1. /\ workers' = <<>> /\ serving'[g] = NoRecord /\ stale'[g] = NoRecord
    BY <1>12 DEF Restart
  <2> QED BY <2>1 DEF Fine, Known
<1> QED
  BY <1>4, <1>6, <1>7, <1>8, <1>9, <1>10, <1>11, <1>12 DEF Next
-----------------------------------------------------------------------------
(***************************************************************************)
(* Where a worker is heading.                                              *)
(***************************************************************************)
\* The last endpoint of the target, the flight and the queue.
Ending(t, f, q) == LET way == <<t>> \o f \o q IN way[Len(way)]

\* It is the last of the queue, else of the flight, else the target.
LEMMA EndingIs ==
  ASSUME NEW t \in Endpoints, NEW f \in Seq(Endpoints), NEW q \in Seq(Endpoints)
  PROVE  /\ Len(q) > 0 => Ending(t, f, q) = q[Len(q)]
         /\ Len(q) = 0 /\ Len(f) > 0 => Ending(t, f, q) = f[Len(f)]
         /\ Len(q) = 0 /\ Len(f) = 0 => Ending(t, f, q) = t
<1> DEFINE a == <<t>> \o f
           way == a \o q
<1>1. <<t>> \in Seq(Endpoints) /\ Len(<<t>>) = 1
  OBVIOUS
<1>2. /\ a \in Seq(Endpoints) /\ Len(a) = 1 + Len(f)
      /\ a[1] = t
      /\ \A i \in 1..Len(f) : a[1 + i] = f[i]
  OBVIOUS
<1> HIDE DEF a
<1>3. /\ Len(way) = Len(a) + Len(q)
      /\ \A i \in 1..Len(a) : way[i] = a[i]
      /\ \A i \in 1..Len(q) : way[Len(a) + i] = q[i]
  <2>1. a \in Seq(Endpoints)
    BY <1>2
  <2>2. Len(a) \in Nat /\ Len(q) \in Nat
    BY <2>1
  <2>3. /\ Len(way) = Len(a) + Len(q)
        /\ \A i \in 1..Len(a) + Len(q) :
             way[i] = IF i <= Len(a) THEN a[i] ELSE q[i - Len(a)]
    BY <2>1, ConcatProperties
  <2> HIDE DEF way
  <2>4. ASSUME NEW i \in 1..Len(a) PROVE way[i] = a[i]
    BY <2>2, <2>3
  <2>5. ASSUME NEW i \in 1..Len(q) PROVE way[Len(a) + i] = q[i]
    <3>1. Len(a) + i \in 1..Len(a) + Len(q) /\ ~ Len(a) + i <= Len(a) /\ Len(a) + i - Len(a) = i
      BY <2>2
    <3> QED BY <3>1, <2>3
  <2> QED BY <2>3, <2>4, <2>5
<1>4. Ending(t, f, q) = way[Len(way)]
  BY DEF Ending, a
<1> HIDE DEF way
<1>5. Len(f) \in Nat /\ Len(q) \in Nat
  BY LenProperties
<1>6. CASE Len(q) > 0
  <2>1. Len(q) \in 1..Len(q)
    BY <1>5, <1>6
  <2> QED BY <2>1, <1>3, <1>4, <1>6
<1>7. CASE Len(q) = 0
  <2>1. Len(a) \in 1..Len(a) /\ Len(way) = Len(a)
    BY <1>2, <1>3, <1>5, <1>7
  <2>2. way[Len(way)] = a[Len(a)]
    BY <2>1, <1>3
  <2>3. Len(f) > 0 => Len(f) \in 1..Len(f)
    BY <1>5
  <2> QED BY <2>2, <2>3, <1>2, <1>4, <1>5, <1>7
<1> QED BY <1>5, <1>6, <1>7

\* The queue the coordinator keeps for a worker whose session it knows.
Queued(h) == IF Known(workers, wsess[h]) THEN workers[wsess[h].id].queue ELSE <<>>

\* Heading is the last endpoint of what the worker has, gets and will be sent.
LEMMA HeadingIs ==
  ASSUME NEW h PROVE Heading(h) = Ending(target[h], flight[h], Queued(h))
BY DEF Heading, Ending, Queued

\* Moving an endpoint from the queue to the stream, or from the stream to the
\* worker, does not change the last one.
LEMMA EndingMoves ==
  ASSUME NEW t \in Endpoints, NEW f \in Seq(Endpoints), NEW q \in Seq(Endpoints)
  PROVE  /\ q # <<>> => Ending(t, Append(f, Head(q)), Tail(q)) = Ending(t, f, q)
         /\ f # <<>> => Ending(Head(f), Tail(f), q) = Ending(t, f, q)
<1>0. Len(f) \in Nat /\ Len(q) \in Nat /\ (f = <<>> <=> Len(f) = 0) /\ (q = <<>> <=> Len(q) = 0)
  BY EmptySeq
<1>1. ASSUME q # <<>>
      PROVE  Ending(t, Append(f, Head(q)), Tail(q)) = Ending(t, f, q)
  <2>1. PICK f2, q2 : f2 = Append(f, Head(q)) /\ q2 = Tail(q)
    OBVIOUS
  <2>2. /\ Head(q) \in Endpoints /\ Head(q) = q[1]
        /\ q2 \in Seq(Endpoints) /\ Len(q2) = Len(q) - 1
        /\ \A i \in 1..Len(q2) : q2[i] = q[i + 1]
    BY <1>1, <2>1, HeadTailProperties
  <2>3. f2 \in Seq(Endpoints) /\ Len(f2) = Len(f) + 1 /\ f2[Len(f) + 1] = q[1]
    BY <2>1, <2>2, <1>0, AppendProperties
  <2>4. Len(q) > 0 /\ Len(f2) > 0 /\ Len(q2) \in Nat
    BY <1>0, <1>1, <2>2, <2>3
  <2>5. Ending(t, f, q) = q[Len(q)]
    BY <2>4, EndingIs
  <2>6. CASE Len(q2) = 0
    <3>1. Ending(t, f2, q2) = f2[Len(f2)]
      BY <2>2, <2>3, <2>4, <2>6, EndingIs
    <3>2. Len(q) = 1 /\ Len(f2) = Len(f) + 1
      BY <2>2, <2>3, <2>6, <1>0
    <3> QED BY <3>1, <3>2, <2>1, <2>3, <2>5
  <2>7. CASE Len(q2) > 0
    <3>1. Ending(t, f2, q2) = q2[Len(q2)]
      BY <2>2, <2>3, <2>7, EndingIs
    <3>2. q2[Len(q2)] = q[Len(q)]
      BY <2>2, <2>4, <2>7, <1>0
    <3> QED BY <3>1, <3>2, <2>1, <2>5
  <2> QED BY <2>4, <2>6, <2>7
<1>2. ASSUME f # <<>>
      PROVE  Ending(Head(f), Tail(f), q) = Ending(t, f, q)
  <2>1. PICK e, f2 : e = Head(f) /\ f2 = Tail(f)
    OBVIOUS
  <2>2. /\ e \in Endpoints /\ e = f[1]
        /\ f2 \in Seq(Endpoints) /\ Len(f2) = Len(f) - 1
        /\ \A i \in 1..Len(f2) : f2[i] = f[i + 1]
    BY <1>2, <2>1, HeadTailProperties
  <2>3. Len(f) > 0 /\ Len(f2) \in Nat
    BY <1>0, <1>2, <2>2
  <2>4. CASE Len(q) > 0
    <3>1. Ending(e, f2, q) = q[Len(q)]
      BY <2>2, <2>4, EndingIs
    <3>2. Ending(t, f, q) = q[Len(q)]
      BY <2>4, EndingIs
    <3> QED BY <3>1, <3>2, <2>1
  <2>5. CASE Len(q) = 0
    <3>1. Ending(t, f, q) = f[Len(f)]
      BY <2>3, <2>5, EndingIs
    <3>2. CASE Len(f2) = 0
      <4>1. Ending(e, f2, q) = e
        BY <2>2, <2>5, <3>2, EndingIs
      <4>2. Len(f) = 1
        BY <2>2, <3>2, <1>0
      <4> QED BY <4>1, <4>2, <3>1, <2>1, <2>2
    <3>3. CASE Len(f2) > 0
      <4>1. Ending(e, f2, q) = f2[Len(f2)]
        BY <2>2, <2>5, <3>3, EndingIs
      <4>2. f2[Len(f2)] = f[Len(f)]
        BY <2>2, <2>3, <3>3, <1>0
      <4> QED BY <4>1, <4>2, <3>1, <2>1
    <3> QED BY <2>3, <3>2, <3>3
  <2> QED BY <1>0, <2>4, <2>5
<1> QED BY <1>1, <1>2

\* What a heading is made of are endpoints; it is the current one as soon as
\* anything is queued.
WayFine ==
  \A h \in WorkerHellos :
    /\ target[h] \in Endpoints /\ flight[h] \in Seq(Endpoints)
    /\ Queued(h) \in Seq(Endpoints)
    /\ Queued(h) # <<>> => Heading(h) = Current

\* This follows from the registry's invariant, in every state ...
LEMMA WayIsFine == PlaneTypes => WayFine
<1> SUFFICES ASSUME PlaneTypes, NEW h \in WorkerHellos
             PROVE  /\ target[h] \in Endpoints /\ flight[h] \in Seq(Endpoints)
                    /\ Queued(h) \in Seq(Endpoints)
                    /\ Queued(h) # <<>> => Heading(h) = Current
  BY DEF WayFine
<1>1. target[h] \in Endpoints /\ flight[h] \in Seq(Endpoints)
  BY DEF PlaneTypes, TypeOK
<1>2. /\ Queued(h) \in Seq(Endpoints)
      /\ Queued(h) # <<>> => Queued(h)[Len(Queued(h))] = Current
  BY WorkerRecords DEF PlaneTypes, Queued, Known
<1>3. Queued(h) # <<>> => Len(Queued(h)) > 0
  BY <1>2, EmptySeq, LenProperties
<1> QED BY <1>1, <1>2, <1>3, EndingIs, HeadingIs

\* ... and in the next.
LEMMA WayStaysFine == PlaneTypes' => WayFine'
BY WayIsFine, PTL

\* Heading in the next state.
LEMMA NextHeadingIs ==
  ASSUME NEW h PROVE Heading(h)' = Ending(target'[h], flight'[h], Queued(h)')
BY DEF Heading, Ending, Queued

\* A step that leaves the target and the flight keeps the heading, if it leaves
\* the queue too or queues something new.
LEMMA HeadingStays ==
  ASSUME PlaneTypes, PlaneTypes', NEW h \in WorkerHellos,
         Known(workers, wsess[h]), Known(workers', wsess[h]), Heading(h) = Current,
         wsess'[h] = wsess[h], target'[h] = target[h], flight'[h] = flight[h],
         KeepsNews(wsess[h].id)
  PROVE  Heading(h)' = Current'
<1>1. Queued(h)' = workers'[wsess[h].id].queue /\ Queued(h) = workers[wsess[h].id].queue
  BY DEF Queued
<1>2. CASE Queued(h)' # <<>>
  BY <1>2, WayStaysFine DEF WayFine
<1>3. CASE Queued(h)' = <<>>
  <2>1. Queued(h)' = Queued(h) /\ Current' = Current
    BY <1>1, <1>3 DEF KeepsNews
  <2> QED BY <2>1, HeadingIs, NextHeadingIs
<1> QED BY <1>2, <1>3

\* A record has one holder.
LEMMA OneHolder ==
  ASSUME DistinctWorkers, NEW h \in WorkerHellos, NEW g \in WorkerHellos, NEW n,
         Holds(h, n), Holds(g, n)
  PROVE  g = h
<1> SUFFICES ASSUME g # h PROVE FALSE
  OBVIOUS
<1>1. h.identity = g.identity /\ HostOf(h) = HostOf(g)
  BY DEF Holds
<1>2. h.identity = Blank /\ h.hostname = Blank /\ g.hostname = Blank
  BY <1>1 DEF DistinctWorkers, HostOf
<1>3. \A w \in WorkerHellos : w = [identity |-> w.identity, hostname |-> w.hostname]
  BY ConstAssumption DEF ConstAssumption
<1> QED BY <1>1, <1>2, <1>3

\* Taking a directive from another record does not change what is queued.
LEMMA ForwardOther ==
  ASSUME DistinctWorkers, PlaneTypes, Sessions, NEW h \in WorkerHellos, NEW g \in WorkerHellos,
         g # h, NEW n, ForwardDirective(n), Holds(g, n), Known(workers, wsess[h])
  PROVE  KeepsNews(wsess[h].id)
<1>1. Holds(h, wsess[h].id) /\ wsess[h].id \in DOMAIN workers
  BY DEF Sessions, Known
<1>2. wsess[h].id # n
  BY <1>1, OneHolder
<1> QED BY <1>1, <1>2, ForwardRecords DEF PlaneTypes

\* Every step but a break, and the swallowing of a directive, keeps a worker on
\* its way.
LEMMA StepKeepsTrack ==
  ASSUME DistinctWorkers, PlaneTypes, PlaneTypes', Sessions, [Next]_vars,
         NEW h \in WorkerHellos
  PROVE  TrackKept(h) \/ Break(h) \/ ForwardStale(h)
<1> SUFFICES ASSUME Running(h), Known(workers, wsess[h]), Heading(h) = Current,
                    Running(h)', Known(workers', wsess'[h]), ~ Break(h), ~ ForwardStale(h)
             PROVE  Heading(h)' = Current'
  BY DEF TrackKept
<1>1. Inv /\ wsess[h].id \in DOMAIN workers /\ wproc[h] # "down" /\ wproc[h] # "rejected"
  BY DEF PlaneTypes, Known, Running, Sessions
<1>2. /\ flight \in [WorkerHellos -> Seq(Endpoints)] /\ target \in [WorkerHellos -> Endpoints]
      /\ wsess \in [WorkerHellos -> Session(tokens)]
      /\ wproc \in [WorkerHellos -> {"down", "closed", "streaming", "rejected"}]
  BY TypeParts DEF PlaneTypes, ClientTypes, FlightTypes
<1>3. /\ target[h] \in Endpoints /\ flight[h] \in Seq(Endpoints) /\ Queued(h) \in Seq(Endpoints)
      /\ Queued(h) = workers[wsess[h].id].queue
  BY WayIsFine DEF WayFine, Queued
<1> USE DEF streams, clients
<1>4. ASSUME NEW g \in WorkerHellos, WorkerStart(g) \/ Reregister(g)
      PROVE  Heading(h)' = Current'
  <2>1. g # h /\ RegisterWorker(g)
    BY <1>1, <1>4 DEF WorkerStart, Reregister
  <2>2. wsess'[h] = wsess[h] /\ target'[h] = target[h] /\ flight'[h] = flight[h]
    BY <2>1, <1>2, <1>4 DEF WorkerStart, Reregister
  <2>3. workers'[wsess[h].id] = workers[wsess[h].id] /\ Current' = Current
    BY <1>1, <2>1, <2>2, OthersUntouched, RegisterWorkerRecords
  <2> QED BY <2>2, <2>3, HeadingStays DEF KeepsNews
<1>5. ASSUME NEW g \in WorkerHellos, OpenStream(g) \/ Beat(g) \/ StaleEnds(g)
      PROVE  Heading(h)' = Current'
  <2>1. NewsKept
    BY <1>1, <1>5, Calls, CallRecords DEF Calling
  <2>2. wsess'[h] = wsess[h] /\ target'[h] = target[h] /\ flight'[h] = flight[h]
    BY <1>5 DEF OpenStream, Beat, StaleEnds
  <2> QED BY <1>1, <2>1, <2>2, HeadingStays DEF NewsKept
<1>6. ASSUME NEW g \in WorkerHellos, BeatRejected(g) \/ WorkerStop(g) \/ Break(g)
      PROVE  Heading(h)' = Current'
  <2>1. NewsKept
    BY <1>1, <1>6, Calls, CallRecords DEF Calling
  <2>2. g # h
    BY <1>2, <1>6 DEF BeatRejected, WorkerStop, Running
  <2>3. wsess'[h] = wsess[h] /\ target'[h] = target[h] /\ flight'[h] = flight[h]
    BY <2>2, <1>2, <1>6 DEF BeatRejected, WorkerStop, Break, CloseStream
  <2> QED BY <1>1, <2>1, <2>3, HeadingStays DEF NewsKept
<1>7. ASSUME Forward(h)
      PROVE  Heading(h)' = Current'
  <2>1. /\ serving[h] = wsess[h].id /\ ForwardDirective(wsess[h].id)
        /\ flight'[h] = Append(flight[h], Head(Queued(h)))
        /\ wsess'[h] = wsess[h] /\ target'[h] = target[h]
    BY <1>2, <1>3, <1>7 DEF Forward, PlaneTypes, TypeOK
  <2>2. Queued(h) # <<>> /\ Queued(h)' = Tail(Queued(h)) /\ Current' = Current
    BY <1>1, <1>3, <2>1, ForwardRecords DEF Queued
  <2>3. Ending(target[h], Append(flight[h], Head(Queued(h))), Tail(Queued(h)))
          = Ending(target[h], flight[h], Queued(h))
    BY <1>3, <2>2, EndingMoves
  <2> QED BY <2>1, <2>2, <2>3, HeadingIs, NextHeadingIs
<1>8. ASSUME NEW g \in WorkerHellos, g # h, Forward(g) \/ ForwardStale(g)
      PROVE  Heading(h)' = Current'
  <2>1. \E n : ForwardDirective(n) /\ Holds(g, n)
    BY <1>8 DEF Forward, ForwardStale, Sessions
  <2>2. KeepsNews(wsess[h].id)
    BY <1>8, <2>1, ForwardOther
  <2>3. wsess'[h] = wsess[h] /\ target'[h] = target[h] /\ flight'[h] = flight[h]
    BY <1>2, <1>8 DEF Forward, ForwardStale
  <2> QED BY <2>2, <2>3, HeadingStays
<1>9. ASSUME NEW g \in WorkerHellos, Deliver(g)
      PROVE  Heading(h)' = Current'
  <2>1. wsess' = wsess /\ workers' = workers /\ Current' = Current
    BY <1>9 DEF Deliver, registry, Current
  <2>2. CASE g = h
    <3>1. /\ flight[h] # <<>> /\ target'[h] = Head(flight[h]) /\ flight'[h] = Tail(flight[h])
      BY <1>2, <1>9, <2>2 DEF Deliver
    <3>2. Ending(Head(flight[h]), Tail(flight[h]), Queued(h))
            = Ending(target[h], flight[h], Queued(h))
      BY <1>3, <3>1, EndingMoves
    <3>3. Queued(h)' = Queued(h)
      BY <2>1 DEF Queued
    <3> QED BY <2>1, <3>1, <3>2, <3>3, HeadingIs, NextHeadingIs
  <2>3. CASE g # h
    <3>1. target'[h] = target[h] /\ flight'[h] = flight[h]
      BY <1>2, <1>9, <2>3 DEF Deliver
    <3> QED BY <2>1, <3>1, HeadingStays DEF KeepsNews
  <2> QED BY <2>2, <2>3
<1>10. ASSUME \/ \E l \in LearnerHellos : LearnerStart(l) \/ LearnerBeat(l) \/ LearnerCrash(l)
              \/ Monitor \/ Clock \/ UNCHANGED vars
       PROVE  Heading(h)' = Current'
  <2>1. NewsKept
    BY <1>1, <1>10, Calls, CallRecords DEF Calling
  <2>2. wsess'[h] = wsess[h] /\ target'[h] = target[h] /\ flight'[h] = flight[h]
    BY <1>10 DEF LearnerStart, LearnerBeat, LearnerCrash, Monitor, Clock, vars
  <2> QED BY <1>1, <2>1, <2>2, HeadingStays DEF NewsKept
<1>11. ~ Restart
  BY DEF Restart, Known
<1> QED
  BY <1>4, <1>5, <1>6, <1>7, <1>8, <1>9, <1>10, <1>11 DEF Next
-----------------------------------------------------------------------------
(***************************************************************************)
(* What holds while nothing fails: no connection breaks and the            *)
(* coordinator is not restarted.  Learners may crash and be evicted.       *)
(***************************************************************************)
NothingFails == MaxBreaks = 0 /\ MaxRestarts = 0

\* Every running worker is known, and on its way to the active learner.
Following ==
  /\ breaks = 0 /\ restarts = 0
  /\ \A h \in WorkerHellos :
       /\ stale[h] = NoRecord
       /\ Running(h) => Known(workers, wsess[h]) /\ Heading(h) = Current

\* At the start nobody runs.
LEMMA InitSessions == Init => Sessions /\ Following
BY DEF Init, RegistryInit, Sessions, Following, Known, NoSession, Running

\* A running worker's session stays known.
LEMMA StaysKnown ==
  ASSUME DistinctWorkers, PlaneTypes, Sessions, [Next]_vars, ~ Restart,
         NEW h \in WorkerHellos, Running(h), Known(workers, wsess[h]), Running(h)'
  PROVE  Known(workers', wsess'[h])
<1>1. /\ Inv /\ wsess[h].id \in DOMAIN workers /\ Holds(h, wsess[h].id)
      /\ wproc[h] # "down" /\ wproc[h] # "rejected"
  BY DEF PlaneTypes, Known, Running, Sessions
<1>2. /\ wsess \in [WorkerHellos -> Session(tokens)]
      /\ wproc \in [WorkerHellos -> {"down", "closed", "streaming", "rejected"}]
  BY TypeParts DEF PlaneTypes, ClientTypes
<1> USE DEF streams, clients
<1>3. ASSUME NEW g \in WorkerHellos, WorkerStart(g) \/ Reregister(g)
      PROVE  Known(workers', wsess'[h])
  <2>1. g # h /\ RegisterWorker(g)
    BY <1>1, <1>3 DEF WorkerStart, Reregister
  <2>2. wsess'[h] = wsess[h]
    BY <2>1, <1>2, <1>3 DEF WorkerStart, Reregister
  <2>3. workers'[wsess[h].id] = workers[wsess[h].id]
    BY <1>1, <2>1, HolderStays
  <2>4. wsess[h].id \in DOMAIN workers'
    BY <1>1, <2>1, RegisterWorkerRecords
  <2> QED BY <2>2, <2>3, <2>4 DEF Known
<1>4. ASSUME SessionsKept, wsess'[h] = wsess[h]
      PROVE  Known(workers', wsess'[h])
  BY <1>4, KnownStays
<1>5. ASSUME NEW g \in WorkerHellos,
             \/ OpenStream(g) \/ Beat(g) \/ BeatRejected(g) \/ Deliver(g) \/ Break(g)
             \/ StaleEnds(g)
      PROVE  Known(workers', wsess'[h])
  <2>1. SessionsKept
    BY <1>1, <1>5, Calls, CallRecords DEF Calling
  <2>2. wsess'[h] = wsess[h]
    BY <1>5 DEF OpenStream, Beat, BeatRejected, Deliver, Break, StaleEnds
  <2> QED BY <2>1, <2>2, <1>4
<1>6. ASSUME NEW g \in WorkerHellos, WorkerStop(g)
      PROVE  Known(workers', wsess'[h])
  <2>1. SessionsKept
    BY <1>1, <1>6, Calls, CallRecords DEF Calling
  <2>2. wsess'[h] = wsess[h]
    BY <1>2, <1>6 DEF WorkerStop, Running
  <2> QED BY <2>1, <2>2, <1>4
<1>7. ASSUME NEW g \in WorkerHellos, Forward(g) \/ ForwardStale(g)
      PROVE  Known(workers', wsess'[h])
  <2>1. SessionsKept /\ wsess' = wsess
    BY <1>1, <1>7, ForwardRecords DEF Forward, ForwardStale
  <2> QED BY <2>1, <1>4
<1>8. ASSUME \/ \E l \in LearnerHellos : LearnerStart(l) \/ LearnerBeat(l) \/ LearnerCrash(l)
             \/ Monitor \/ Clock \/ UNCHANGED vars
      PROVE  Known(workers', wsess'[h])
  <2>1. SessionsKept
    BY <1>1, <1>8, Calls, CallRecords DEF Calling
  <2>2. wsess' = wsess
    BY <1>8 DEF LearnerStart, LearnerBeat, LearnerCrash, Monitor, Clock, vars
  <2> QED BY <2>1, <2>2, <1>4
<1> QED BY <1>3, <1>5, <1>6, <1>7, <1>8 DEF Next

\* A worker that starts takes the current endpoint for its target.
LEMMA StartsOnTrack ==
  ASSUME PlaneTypes, PlaneTypes', NEW h \in WorkerHellos, WorkerStart(h), Running(h)'
  PROVE  Known(workers', wsess'[h]) /\ Heading(h)' = Current'
<1>1. Inv /\ RegisterWorker(h)
  BY DEF PlaneTypes, WorkerStart
<1>2. /\ wsess'[h] = WorkerSession(h) /\ target'[h] = CurrentEndpoint /\ flight'[h] = flight[h]
  BY DEF WorkerStart, Running, PlaneTypes, TypeOK, streams
<1>3. Known(workers', wsess'[h]) /\ CurrentEndpoint = Current'
  BY <1>1, <1>2, RegisterWorkerRecords
<1>4. flight'[h] = <<>>
  BY <1>2 DEF PlaneTypes, TypeOK, WorkerStart
<1>5. CASE Queued(h)' # <<>>
  BY <1>3, <1>5, WayStaysFine DEF WayFine
<1>6. CASE Queued(h)' = <<>>
  <2>1. /\ target'[h] \in Endpoints /\ flight'[h] \in Seq(Endpoints)
        /\ Queued(h)' \in Seq(Endpoints)
    BY WayStaysFine DEF WayFine
  <2>2. ASSUME NEW t \in Endpoints, NEW f \in Seq(Endpoints), NEW q \in Seq(Endpoints),
               f = <<>>, q = <<>>
        PROVE  Ending(t, f, q) = t
    <3>1. Len(f) = 0 /\ Len(q) = 0
      BY <2>2
    <3> QED BY <3>1, EndingIs
  <2>3. Ending(target'[h], flight'[h], Queued(h)') = target'[h]
    BY <2>1, <2>2, <1>4, <1>6
  <2> QED BY <2>3, <1>2, <1>3, NextHeadingIs
<1> QED BY <1>3, <1>5, <1>6

\* While nothing fails, every step keeps every running worker on its way.
LEMMA FollowingKept ==
  ASSUME NothingFails, DistinctWorkers, PlaneTypes, PlaneTypes', Sessions, Following,
         [Next]_vars
  PROVE  Following'
<1>1. ~ Restart /\ \A h \in WorkerHellos : ~ Break(h) /\ ~ ForwardStale(h)
  BY DEF NothingFails, Following, Restart, Break, ForwardStale
<1>2. breaks' = breaks /\ restarts' = restarts /\ stale' = stale
  <2>1. ASSUME NEW h \in WorkerHellos,
               \/ WorkerStart(h) \/ OpenStream(h) \/ Beat(h) \/ BeatRejected(h) \/ Reregister(h)
               \/ Forward(h) \/ Deliver(h) \/ WorkerStop(h)
        PROVE  breaks' = breaks /\ restarts' = restarts /\ stale' = stale
    BY <2>1 DEF WorkerStart, OpenStream, Beat, BeatRejected, Reregister, Forward, Deliver,
       WorkerStop, streams, counters
  <2>2. ASSUME \/ \E l \in LearnerHellos : LearnerStart(l) \/ LearnerBeat(l) \/ LearnerCrash(l)
               \/ Monitor \/ Clock \/ UNCHANGED vars
        PROVE  breaks' = breaks /\ restarts' = restarts /\ stale' = stale
    BY <2>2 DEF LearnerStart, LearnerBeat, LearnerCrash, Monitor, Clock, streams, counters, vars
  <2>3. \A h \in WorkerHellos : ~ StaleEnds(h)
    BY DEF StaleEnds, Following
  <2> QED BY <1>1, <2>1, <2>2, <2>3 DEF Next
<1>3. ASSUME NEW h \in WorkerHellos, Running(h)'
      PROVE  Known(workers', wsess'[h]) /\ Heading(h)' = Current'
  <2>1. CASE Running(h)
    <3>1. Known(workers, wsess[h]) /\ Heading(h) = Current
      BY <2>1 DEF Following
    <3>2. Known(workers', wsess'[h])
      BY <3>1, <2>1, <1>1, <1>3, StaysKnown
    <3>3. TrackKept(h)
      BY <1>1, StepKeepsTrack
    <3> QED BY <3>1, <3>2, <3>3, <2>1, <1>3 DEF TrackKept
  <2>2. CASE ~ Running(h)
    <3>1. WorkerStart(h)
      <4>1. wproc[h] = "down" /\ wproc'[h] # "down"
        BY <2>2, <1>3 DEF Running
      <4>2. wproc \in [WorkerHellos -> {"down", "closed", "streaming", "rejected"}]
        BY DEF PlaneTypes, TypeOK
      <4>3. ASSUME NEW g \in WorkerHellos,
                   \/ OpenStream(g) \/ BeatRejected(g) \/ Reregister(g) \/ WorkerStop(g)
                   \/ WorkerStart(g) /\ g # h
            PROVE  FALSE
        BY <4>1, <4>2, <4>3
           DEF OpenStream, BeatRejected, Reregister, WorkerStop, WorkerStart
      <4>4. ASSUME NEW g \in WorkerHellos, Beat(g) \/ Forward(g) \/ Deliver(g) \/ StaleEnds(g)
            PROVE  FALSE
        BY <4>1, <4>4 DEF Beat, Forward, Deliver, StaleEnds, clients
      <4>5. ASSUME \/ \E l \in LearnerHellos : LearnerStart(l) \/ LearnerBeat(l) \/ LearnerCrash(l)
                   \/ Monitor \/ Clock \/ UNCHANGED vars
            PROVE  FALSE
        BY <4>1, <4>5 DEF LearnerStart, LearnerBeat, LearnerCrash, Monitor, Clock, clients, vars
      <4> QED BY <1>1, <4>3, <4>4, <4>5 DEF Next
    <3> QED BY <3>1, <1>3, StartsOnTrack
  <2> QED BY <2>1, <2>2
<1> QED BY <1>2, <1>3 DEF Following

-----------------------------------------------------------------------------
\* The registry that the streams use is the registry: its properties hold in the
\* control plane too, across restarts of the coordinator.
THEOREM RegistryInPlane ==
  Spec => [](TypeOK /\ RegistryTypeOK /\ ActiveStable /\ WorkersTold /\ QueueEndsCurrent)
<1>1. PlaneTypes => TypeOK /\ RegistryTypeOK /\ ActiveStable /\ WorkersTold /\ QueueEndsCurrent
  BY InvImplies DEF PlaneTypes
<1> QED BY <1>1, PlaneTypesInvariant, PTL

\* The holders of records, as an invariant.
LEMMA SessionsInvariant ==
  ASSUME DistinctWorkers PROVE Spec => [](PlaneTypes /\ Sessions)
<1>1. PlaneTypes /\ Sessions /\ [Next]_vars => PlaneTypes' /\ Sessions'
  BY PlaneTypesKept, SessionsStay
<1> QED BY <1>1, InitPlaneTypes, InitSessions, PTL DEF Spec

\* Whatever fails, a worker whose session the coordinator knows loses track of the
\* active learner only where its own connection breaks or where the handler of its
\* broken connection swallows a directive, provided no two workers are taken for one.
THEOREM BreaksAloneLoseTrack ==
  ASSUME DistinctWorkers PROVE Spec => OnlyBreaksLoseTrack
<1>1. PlaneTypes /\ Sessions /\ PlaneTypes' /\ [Next]_vars
        => [\A h \in WorkerHellos : TrackKept(h) \/ Break(h) \/ ForwardStale(h)]_vars
  BY StepKeepsTrack
<1> QED BY <1>1, SessionsInvariant, PTL DEF Spec, OnlyBreaksLoseTrack

\* While nothing fails, every running worker is on its way to the active learner,
\* whatever learners register, crash and are evicted.
THEOREM WorkersAreFollowing ==
  ASSUME NothingFails, DistinctWorkers PROVE Spec => []WorkersFollow
<1>1. PlaneTypes /\ Sessions /\ PlaneTypes' /\ Following /\ [Next]_vars => Following'
  BY FollowingKept
<1>2. PlaneTypes /\ Following => WorkersFollow
  BY DEF PlaneTypes, Following, WorkersFollow
<1> QED BY <1>1, <1>2, InitSessions, SessionsInvariant, PTL DEF Spec

-----------------------------------------------------------------------------
(***************************************************************************)
(* The registry with restarts, which the control plane implements.         *)
(***************************************************************************)
\* A restart, as far as the registry knows.
Forgets ==
  /\ workers' = <<>> /\ told' = <<>>
  /\ learners' = <<>> /\ learnerSeq' = 0 /\ active' = NoLearner
  /\ tokens' = tokens

RegistryWithRestarts == RegistryInit /\ [][RegistryNext \/ Forgets]_registry

\* Every record's token has been handed out: none has the token of NoSession.
Issued ==
  /\ \A n \in DOMAIN workers : workers[n].token # NoSession.token
  /\ \A i \in DOMAIN learners : learners[i].token # NoSession.token

\* Calls that change the learners give new tokens, or keep the old ones.
LEMMA LearnersIssued ==
  ASSUME Inv, Issued, WorkerCall \/ LearnerCall
  PROVE  \A i \in DOMAIN learners' : learners'[i].token # 0
<1>1. tokens \in Nat /\ \A i \in DOMAIN learners : learners[i] \in LearnerRecord
  BY DEF Inv, LearnersPart, LearnersOK
<1>2. \A i \in DOMAIN learners : learners[i].token # 0
  BY DEF Issued, NoSession
<1>3. ASSUME NEW l \in LearnerHellos, RegisterLearner(l)
      PROVE  \A i \in DOMAIN learners' : learners'[i].token # 0
  <2> DEFINE found  == FindLearnerMatch(l)
             id     == IF found = NoMatch THEN learnerSeq + 1 ELSE found
             record == LearnerRecordFor(l, IF found = NoMatch THEN "unknown"
                                           ELSE learners[found].hostname)
  <2>1. learners' = [i \in DOMAIN learners \cup {id} |-> IF i = id THEN record ELSE learners[i]]
    BY <1>3 DEF RegisterLearner, SetLearners
  <2>2. record.token = tokens + 1
    BY DEF LearnerRecordFor
  <2> HIDE DEF id, record
  <2> QED BY <2>1, <2>2, <1>1, <1>2
<1>4. ASSUME NEW i, NEW t, NEW s \in Skews, NEW ep \in Endpoints, LearnerHeartbeat(i, t, s, ep)
      PROVE  \A n \in DOMAIN learners' : learners'[n].token # 0
  <2>1. learners' = [learners EXCEPT ![i].age = s, ![i].endpoint = IF ep # Blank THEN ep ELSE @]
    BY <1>4 DEF LearnerHeartbeat, SetLearners
  <2> QED BY <2>1, <1>1, <1>2 DEF LearnerRecord
<1>5. CleanupStaleLearners => \A i \in DOMAIN learners' : learners'[i].token # 0
  BY <1>2 DEF CleanupStaleLearners, SetLearners
<1>6. Tick => \A i \in DOMAIN learners' : learners'[i].token # 0
  BY <1>1, <1>2 DEF Tick, Older, LearnerRecord
<1>7. ASSUME learners' = learners
      PROVE  \A i \in DOMAIN learners' : learners'[i].token # 0
  BY <1>7, <1>2
<1>8. CASE WorkerCall
  BY <1>8, <1>6, <1>7
     DEF WorkerCall, WorkerHeartbeat, MarkWorkerDisconnected, CleanupStaleWorkers, registry
<1>9. CASE LearnerCall
  BY <1>9, <1>3, <1>4, <1>5 DEF LearnerCall
<1> QED BY <1>8, <1>9

\* No step makes a record without a token.
LEMMA IssuedKept ==
  ASSUME Inv, Issued, [Next]_vars
  PROVE  Issued'
<1>1. tokens \in Nat
  BY DEF Inv
<1>2. ASSUME NEW h \in WorkerHellos, WorkerStart(h) \/ Reregister(h) PROVE Issued'
  <2>1. RegisterWorker(h)
    BY <1>2 DEF WorkerStart, Reregister
  <2>2. PICK s : s = WorkerSession(h)
    OBVIOUS
  <2>3. /\ s.token = tokens + 1
        /\ DOMAIN workers' = DOMAIN workers \cup {s.id}
        /\ workers'[s.id].token = s.token
        /\ \A n \in DOMAIN workers \ {s.id} : workers'[n] = workers[n]
    BY <2>1, <2>2, RegisterWorkerRecords DEF Known
  <2>4. learners' = learners
    BY <2>1 DEF RegisterWorker
  <2> QED BY <1>1, <2>3, <2>4 DEF Issued, NoSession
<1>3. ASSUME NEW h \in WorkerHellos, Forward(h) \/ ForwardStale(h) PROVE Issued'
  <2>1. PICK i : ForwardDirective(i)
    BY <1>3 DEF Forward, ForwardStale
  <2>2. SessionsKept /\ learners' = learners
    BY <2>1, ForwardRecords DEF ForwardDirective
  <2> QED BY <2>2 DEF Issued, SessionsKept, KeepsSession
<1>4. ASSUME Calling PROVE Issued'
  <2>1. SessionsKept
    BY <1>4, Calls, CallRecords
  <2>2. \A i \in DOMAIN learners' : learners'[i].token # 0
    BY <1>4, Calls, LearnersIssued
  <2> QED BY <2>1, <2>2 DEF Issued, SessionsKept, KeepsSession, NoSession
<1>5. Restart => Issued'
  BY DEF Restart, Issued
<1> QED BY <1>2, <1>3, <1>4, <1>5 DEF Next, Calling

\* A session that the coordinator accepts has a token that was handed out.
LEMMA AcceptedIsIssued ==
  ASSUME Issued, tokens \in Nat, NEW records, records = workers \/ records = learners,
         NEW s \in Session(tokens), Known(records, s)
  PROVE  s.id \in DOMAIN records /\ s.token \in 1..tokens
<1>1. s.id \in DOMAIN records /\ records[s.id].token = s.token
  BY DEF Known
<1>2. s.token \in 0..tokens
  BY DEF Session
<1>3. s.token # 0
  BY <1>1 DEF Issued, NoSession
<1> QED BY <1>1, <1>2, <1>3

\* Every step is one call of the registry, a restart, or none of its business.
LEMMA StepIsCall ==
  ASSUME PlaneTypes, Issued, [Next]_vars
  PROVE  RegistryNext \/ Forgets \/ UNCHANGED registry
<1>1. /\ tokens \in Nat
      /\ \A h \in WorkerHellos : wsess[h] \in Session(tokens)
      /\ \A l \in LearnerHellos : lsess[l] \in Session(tokens)
  BY TypeParts DEF PlaneTypes, ClientTypes, Inv
<1>2. ASSUME NEW i, ForwardDirective(i) PROVE RegistryNext
  BY <1>2 DEF ForwardDirective, RegistryNext
<1>3. ASSUME NEW i, Disconnect(i) PROVE RegistryNext \/ UNCHANGED registry
  BY <1>3 DEF Disconnect, RegistryNext
<1>4. ASSUME NEW h \in WorkerHellos, WorkerStart(h) \/ Reregister(h) PROVE RegistryNext
  BY <1>4 DEF WorkerStart, Reregister, RegistryNext
<1>5. ASSUME NEW h \in WorkerHellos, Beat(h) PROVE RegistryNext
  <2>1. PICK s \in Skews, p \in Phases \ {"offline"} :
          WorkerHeartbeat(wsess[h].id, wsess[h].token, s, p)
    BY <1>5 DEF Beat
  <2>2. Known(workers, wsess[h])
    BY <2>1 DEF WorkerHeartbeat, Known
  <2>3. wsess[h].id \in DOMAIN workers /\ wsess[h].token \in 1..tokens
    BY <1>1, <2>2, AcceptedIsIssued
  <2> QED BY <2>1, <2>3 DEF RegistryNext
<1>6. ASSUME NEW h \in WorkerHellos, Forward(h) \/ ForwardStale(h) PROVE RegistryNext
  BY <1>2, <1>6 DEF Forward, ForwardStale
<1>7. ASSUME NEW h \in WorkerHellos,
             \/ OpenStream(h) \/ BeatRejected(h) \/ Deliver(h) \/ WorkerStop(h)
             \/ Break(h) \/ StaleEnds(h)
      PROVE  RegistryNext \/ UNCHANGED registry
  <2>1. (UNCHANGED registry) \/ \E i : Disconnect(i)
    BY <1>7 DEF OpenStream, BeatRejected, Deliver, WorkerStop, Break, StaleEnds
  <2> QED BY <2>1, <1>3
<1>8. ASSUME NEW l \in LearnerHellos, LearnerBeat(l) PROVE RegistryNext
  <2>1. PICK s \in Skews : LearnerHeartbeat(lsess[l].id, lsess[l].token, s, l.endpoint)
    BY <1>8 DEF LearnerBeat
  <2>2. Known(learners, lsess[l])
    BY <2>1 DEF LearnerHeartbeat, Known
  <2>3. lsess[l].id \in DOMAIN learners /\ lsess[l].token \in 1..tokens
    BY <1>1, <2>2, AcceptedIsIssued
  <2>4. l.endpoint \in Endpoints
    BY HelloFacts
  <2> QED BY <2>1, <2>3, <2>4 DEF RegistryNext
<1>9. ASSUME NEW l \in LearnerHellos, LearnerStart(l) \/ LearnerCrash(l)
      PROVE  RegistryNext \/ UNCHANGED registry
  BY <1>9 DEF LearnerStart, LearnerCrash, RegistryNext
<1>10. Monitor \/ Clock => RegistryNext
  BY DEF Monitor, Clock, RegistryNext
<1>11. Restart => Forgets
  BY DEF Restart, Forgets
<1>12. UNCHANGED vars => UNCHANGED registry
  BY DEF vars
<1> QED BY <1>4, <1>5, <1>6, <1>7, <1>8, <1>9, <1>10, <1>11, <1>12 DEF Next

\* The control plane implements the registry with restarts: whatever streams,
\* clients and tasks do, the registry changes by its own calls alone, one in each
\* step, with tokens that were handed out and endpoints that are some learner's;
\* or it is forgotten as a whole.
THEOREM RegistryImplemented == Spec => RegistryWithRestarts
<1>1. Init => RegistryInit /\ Issued
  BY DEF Init, RegistryInit, Issued
<1>2. PlaneTypes /\ Issued /\ [Next]_vars => Issued'
  BY IssuedKept DEF PlaneTypes
<1>3. PlaneTypes /\ Issued /\ [Next]_vars => [RegistryNext \/ Forgets]_registry
  BY StepIsCall
<1> QED BY <1>1, <1>2, <1>3, PlaneTypesInvariant, PTL DEF Spec, RegistryWithRestarts
=============================================================================
