-------------------------- MODULE CoordinatorState --------------------------
(***************************************************************************)
(* The coordinator's in-memory registry (class CoordinatorState): worker   *)
(* records that are reused but never removed, learner records that are     *)
(* evicted when they fall silent, the learner that is "active", and one    *)
(* bounded queue of SWITCH_LEARNER directives per worker.  All methods run *)
(* on one asyncio loop and contain no await, so each is one action.        *)
(*                                                                         *)
(* Wall-clock times are kept as ages: a record whose last_heartbeat_ms is  *)
(* now_ms() has age 0, and Tick makes every record older.                  *)
(***************************************************************************)
EXTENDS Integers, Sequences, FiniteSets

CONSTANTS
  WorkerHellos,   \* the possible WorkerHello messages: [identity, hostname]
  LearnerHellos,  \* the possible LearnerHello messages: [endpoint, hostname]
  Names,          \* host names and identities, Blank and "unknown" among them
  Endpoints,      \* the endpoints learners serve; Blank among them
  Phases,         \* the values of status.phase
  Skews,          \* how far a client clock may be behind (+) or ahead (-)
  MaxLead,        \* no client clock is further ahead than this
  WorkerTimeout,  \* worker_heartbeat_timeout, in ticks
  LearnerTimeout, \* max(2 * learner_heartbeat_interval, worker timeout)
  QueueMax,       \* asyncio.Queue(maxsize=8)
  MaxAge,         \* bound: older records all look equally old
  MaxTokens       \* bound on the number of registrations

Blank == ""   \* the empty string: no identity, host name, endpoint or phase

\* A record written by a client whose clock is ahead has a negative age.
Ages == {a \in Int : a >= -MaxLead}

ASSUME ConstAssumption ==
  /\ Blank \in Endpoints
  /\ {Blank, "unknown"} \subseteq Names
  /\ WorkerHellos \subseteq [identity : Names, hostname : Names]
  /\ LearnerHellos \subseteq [endpoint : Endpoints, hostname : Names]
  /\ MaxLead \in Nat
  /\ Skews \subseteq Ages
  /\ QueueMax \in Nat \ {0}
  /\ MaxAge \in Nat /\ MaxTokens \in Nat
  /\ WorkerTimeout \in Int /\ LearnerTimeout \in Int
  /\ {Blank, "offline"} \subseteq Phases

VARIABLES
  workers,     \* _workers: the n-th registered worker is worker-n
  learners,    \* _learners: function from the ids in use to records
  learnerSeq,  \* _learner_seq
  active,      \* _active_learner_id, NoLearner for None
  tokens,      \* number of session tokens handed out so far
  told         \* history: the endpoint each worker was last told to use

registry == <<workers, learners, learnerSeq, active, tokens, told>>

NoLearner == 0
NoMatch   == 0

WorkerRecord ==
  [token : Nat, identity : Names, hostname : Names, age : Ages,
   phase : Phases, queue : Seq(Endpoints)]
LearnerRecord ==
  [token : Nat, hostname : Names, endpoint : Endpoints, age : Ages]

First(S) == CHOOSE i \in S : \A j \in S : i <= j

-----------------------------------------------------------------------------
(* Matching a hello against the records, in registration order.            *)

IdentityMatches(h) ==
  {i \in DOMAIN workers : h.identity # Blank /\ workers[i].identity = h.identity}
HostMatches(h) ==
  {i \in DOMAIN workers : h.hostname # Blank /\ workers[i].hostname = h.hostname}

FindWorkerMatch(h) ==
  IF IdentityMatches(h) # {} THEN First(IdentityMatches(h))
  ELSE IF HostMatches(h) # {} THEN First(HostMatches(h))
  ELSE NoMatch

LearnerMatches(h) ==
  {i \in DOMAIN learners :
     \/ h.endpoint # Blank /\ learners[i].endpoint = h.endpoint
     \/ h.hostname # Blank /\ learners[i].hostname = h.hostname}

FindLearnerMatch(h) ==
  IF LearnerMatches(h) = {} THEN NoMatch ELSE First(LearnerMatches(h))

-----------------------------------------------------------------------------
(* Which learner is active.                                                *)

Serving(ls) == {i \in DOMAIN ls : ls[i].endpoint # Blank}

\* max(..., key=last_heartbeat_ms): the youngest, the first registered of equals.
Newest(ls, S) ==
  CHOOSE i \in S : \A j \in S :
    ls[i].age < ls[j].age \/ (ls[i].age = ls[j].age /\ i <= j)

\* _update_active_learner(given): the value _active_learner_id has afterwards.
UpdateActive(ls, act, given) ==
  LET kept == IF given \in DOMAIN ls THEN given
              ELSE IF act \in DOMAIN ls THEN act
              ELSE NoLearner
  IN IF kept # NoLearner /\ ls[kept].endpoint # Blank THEN kept
     ELSE IF Serving(ls) # {} THEN Newest(ls, Serving(ls))
     ELSE IF kept = NoLearner /\ DOMAIN ls # {} THEN Newest(ls, DOMAIN ls)
     ELSE kept

\* act is what UpdateActive settles on when nobody is given.
Settled(ls, act) ==
  /\ act # NoLearner => act \in DOMAIN ls
  /\ Serving(ls) # {} => act \in Serving(ls)
  /\ DOMAIN ls # {} => act # NoLearner

EndpointOf(ls, act) == IF act = NoLearner THEN Blank ELSE ls[act].endpoint

CurrentEndpoint == EndpointOf(learners, UpdateActive(learners, active, NoLearner))

\* Mutant of Push: a full queue refuses the new directive instead.
Push_DropsNewest(q, ep) == IF Len(q) >= QueueMax THEN q ELSE Append(q, ep)

\* push_directive: a full queue loses its oldest directive.
Push(q, ep) == Append(IF Len(q) >= QueueMax THEN Tail(q) ELSE q, ep)

\* Mutant of SetLearners: announces a new learner id, not a new endpoint.
SetLearners_ComparesId(ls, given) ==
  LET now == UpdateActive(ls, UpdateActive(learners, active, NoLearner), given)
      ep  == EndpointOf(ls, now)
  IN /\ learners' = ls
     /\ active' = now
     /\ IF now # active
        THEN /\ workers' = [i \in DOMAIN workers |->
                              [workers[i] EXCEPT !.queue = Push(@, ep)]]
             /\ told' = [i \in DOMAIN told |-> ep]
        ELSE UNCHANGED <<workers, told>>

\* The learners become ls and given, if any, the active one.  The code reads
\* the endpoint before and after through _update_active_learner(), and pushes
\* SWITCH_LEARNER to every worker when it has changed.
SetLearners(ls, given) ==
  LET before == UpdateActive(learners, active, NoLearner)
      now    == UpdateActive(ls, UpdateActive(ls, before, given), NoLearner)
      ep     == EndpointOf(ls, now)
  IN /\ learners' = ls
     /\ active' = now
     /\ IF ep # CurrentEndpoint
        THEN /\ workers' = [i \in DOMAIN workers |->
                              [workers[i] EXCEPT !.queue = Push(@, ep)]]
             /\ told' = [i \in DOMAIN told |-> ep]
        ELSE UNCHANGED <<workers, told>>

-----------------------------------------------------------------------------
RegistryInit ==
  /\ workers = <<>> /\ told = <<>>
  /\ learners = <<>> /\ learnerSeq = 0 /\ active = NoLearner
  /\ tokens = 0

\* The host name in the record of a worker that says h.
HostOf(h) == IF h.hostname = Blank THEN "unknown" ELSE h.hostname

WorkerRecordFor(h, queue) ==
  [token    |-> tokens + 1,
   identity |-> h.identity,
   hostname |-> HostOf(h),
   age      |-> 0,
   phase    |-> Blank,
   queue    |-> queue]

\* A reused record keeps its directive queue; the answer carries the
\* current learner's endpoint.
RegisterWorker(h) ==
  LET found  == FindWorkerMatch(h)
      record == WorkerRecordFor(h, IF found = NoMatch THEN <<>> ELSE workers[found].queue)
  IN /\ tokens < MaxTokens
     /\ tokens' = tokens + 1
     /\ active' = UpdateActive(learners, active, NoLearner)
     /\ IF found = NoMatch
        THEN /\ workers' = Append(workers, record)
             /\ told' = Append(told, CurrentEndpoint)
        ELSE /\ workers' = [workers EXCEPT ![found] = record]
             /\ told' = [told EXCEPT ![found] = CurrentEndpoint]
     /\ UNCHANGED <<learners, learnerSeq>>

\* A heartbeat whose token is not the record's is refused and changes nothing.
WorkerHeartbeat(i, token, skew, phase) ==
  /\ i \in DOMAIN workers /\ workers[i].token = token
  /\ workers' = [workers EXCEPT ![i].age = skew, ![i].phase = phase]
  /\ UNCHANGED <<learners, learnerSeq, active, tokens, told>>

Offline(w) == [w EXCEPT !.age = 0, !.phase = "offline"]

MarkWorkerDisconnected(i) ==
  /\ i \in DOMAIN workers
  /\ workers' = [workers EXCEPT ![i] = Offline(@)]
  /\ UNCHANGED <<learners, learnerSeq, active, tokens, told>>

StaleWorkers ==
  {i \in DOMAIN workers : workers[i].age > WorkerTimeout /\ workers[i].phase # "offline"}

CleanupStaleWorkers ==
  /\ WorkerTimeout > 0
  /\ StaleWorkers # {}
  /\ workers' = [i \in DOMAIN workers |->
                   IF i \in StaleWorkers THEN Offline(workers[i]) ELSE workers[i]]
  /\ UNCHANGED <<learners, learnerSeq, active, tokens, told>>

LearnerRecordFor(h, host) ==
  [token    |-> tokens + 1,
   hostname |-> IF h.hostname # Blank THEN h.hostname ELSE host,
   endpoint |-> h.endpoint,
   age      |-> 0]

\* Mutant of RegisterLearner: forgets to count the new id.
RegisterLearner_NoCount(h) ==
  LET found == FindLearnerMatch(h)
      id    == IF found = NoMatch THEN learnerSeq + 1 ELSE found
      record == LearnerRecordFor(h, "unknown")
  IN /\ tokens < MaxTokens
     /\ tokens' = tokens + 1
     /\ SetLearners([i \in DOMAIN learners \cup {id} |->
                       IF i = id THEN record ELSE learners[i]], id)
     /\ UNCHANGED learnerSeq

RegisterLearner(h) ==
  LET found  == FindLearnerMatch(h)
      id     == IF found = NoMatch THEN learnerSeq + 1 ELSE found
      record == LearnerRecordFor(h, IF found = NoMatch THEN "unknown"
                                    ELSE learners[found].hostname)
  IN /\ tokens < MaxTokens
     /\ tokens' = tokens + 1
     /\ learnerSeq' = IF found = NoMatch THEN id ELSE learnerSeq
     /\ SetLearners([i \in DOMAIN learners \cup {id} |->
                       IF i = id THEN record ELSE learners[i]], id)

LearnerHeartbeat(i, token, skew, ep) ==
  /\ i \in DOMAIN learners /\ learners[i].token = token
  /\ SetLearners([learners EXCEPT
                    ![i].age = skew,
                    ![i].endpoint = IF ep # Blank THEN ep ELSE @], i)
  /\ UNCHANGED <<learnerSeq, tokens>>

StaleLearners == {i \in DOMAIN learners : learners[i].age > LearnerTimeout}

\* Mutant of CleanupStaleLearners: evicts without electing anyone else.
CleanupStaleLearners_KeepsActive ==
  /\ StaleLearners # {}
  /\ learners' = [i \in DOMAIN learners \ StaleLearners |-> learners[i]]
  /\ UNCHANGED <<workers, learnerSeq, active, tokens, told>>

CleanupStaleLearners ==
  /\ LearnerTimeout > 0
  /\ StaleLearners # {}
  /\ SetLearners([i \in DOMAIN learners \ StaleLearners |-> learners[i]], NoLearner)
  /\ UNCHANGED <<learnerSeq, tokens>>

\* The heartbeat stream's forward task takes the oldest directive.
ForwardDirective(i) ==
  /\ i \in DOMAIN workers /\ workers[i].queue # <<>>
  /\ workers' = [workers EXCEPT ![i].queue = Tail(@)]
  /\ UNCHANGED <<learners, learnerSeq, active, tokens, told>>

Older(r) == [r EXCEPT !.age = IF @ < MaxAge THEN @ + 1 ELSE @]

Tick ==
  /\ workers' = [i \in DOMAIN workers |-> Older(workers[i])]
  /\ learners' = [i \in DOMAIN learners |-> Older(learners[i])]
  /\ UNCHANGED <<learnerSeq, active, tokens, told>>

RegistryNext ==
  \/ \E h \in WorkerHellos : RegisterWorker(h)
  \/ \E i \in DOMAIN workers, t \in 1..tokens, s \in Skews, p \in Phases \ {"offline"} :
       WorkerHeartbeat(i, t, s, p)
  \/ \E i \in DOMAIN workers : MarkWorkerDisconnected(i) \/ ForwardDirective(i)
  \/ CleanupStaleWorkers
  \/ \E h \in LearnerHellos : RegisterLearner(h)
  \/ \E i \in DOMAIN learners, t \in 1..tokens, s \in Skews, ep \in Endpoints :
       LearnerHeartbeat(i, t, s, ep)
  \/ CleanupStaleLearners
  \/ Tick

RegistrySpec == RegistryInit /\ [][RegistryNext]_registry

-----------------------------------------------------------------------------
(* Properties.                                                             *)

\* The type of every variable.
RegistryTypeOK ==
  /\ workers \in Seq(WorkerRecord)
  /\ told \in Seq(Endpoints)
  /\ Len(told) = Len(workers)
  /\ learnerSeq \in Nat
  /\ DOMAIN learners \subseteq 1..learnerSeq
  /\ \A i \in DOMAIN learners : learners[i] \in LearnerRecord
  /\ active \in Nat
  /\ tokens \in Nat

\* _active_learner_id needs no repair between two calls: it names a
\* registered learner, one that has an endpoint whenever some learner has,
\* and None only when nobody is registered.  The methods that call
\* current_learner_endpoint() merely to read it rely on this.
ActiveStable == Settled(learners, active)

\* The last endpoint a worker was given, in its WorkerSession or in a
\* SWITCH_LEARNER directive, is the endpoint of the active learner.
WorkersTold == \A i \in DOMAIN workers : told[i] = EndpointOf(learners, active)

\* Dropping old directives never loses the news: whatever is still queued
\* for a worker ends with the current endpoint, and the queue is bounded.
QueueEndsCurrent ==
  \A i \in DOMAIN workers :
    LET q == workers[i].queue
    IN /\ Len(q) <= QueueMax
       /\ q # <<>> => q[Len(q)] = EndpointOf(learners, active)
=============================================================================
