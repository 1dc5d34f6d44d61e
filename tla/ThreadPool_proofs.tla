-------------------------- MODULE ThreadPool_proofs -------------------------
(***************************************************************************)
(* Proofs about ThreadPool, for any number of threads and of callers, any   *)
(* chunks and ranges: a call that returns normally has processed each index *)
(* of its range once and left no task behind, and no wake-up is lost.       *)
(***************************************************************************)
EXTENDS ThreadPool, FiniteSetTheorems, SequenceTheorems, TLAPS

-----------------------------------------------------------------------------
(* Multiples of a chunk.                                                   *)

LEMMA NoMiddle ==
  ASSUME NEW b \in Nat \ {0}, NEW k \in Int, NEW r \in Nat, r < b, b * k + r = 0
  PROVE  k = 0 /\ r = 0
<1>1. CASE k = 0
  BY <1>1
<1>2. CASE k >= 1
  <2>1. b * k >= b
    BY <1>2
  <2> QED BY <2>1
<1>3. CASE k <= -1
  <2>1. b * k <= -b
    BY <1>3
  <2> QED BY <2>1
<1> QED BY <1>1, <1>2, <1>3

LEMMA DivMod ==
  ASSUME NEW a \in Nat, NEW b \in Nat \ {0}
  PROVE  a \div b \in Int /\ a % b \in 0 .. b - 1 /\ a = b * (a \div b) + (a % b)
OBVIOUS

\* The multiple that follows a multiple of b, ...
LEMMA NextMultiple ==
  ASSUME NEW a \in Nat, NEW b \in Nat \ {0}, a % b = 0
  PROVE  (a + b) % b = 0
<1> DEFINE p == a \div b
           q == (a + b) \div b
           r == (a + b) % b
<1>1. p \in Int /\ a = b * p
  BY DivMod
<1>2. q \in Int /\ r \in 0 .. b - 1 /\ a + b = b * q + r
  BY DivMod
<1> HIDE DEF p, q, r
<1>3. b * (q - p - 1) + r = 0
  BY <1>1, <1>2
<1>4. r = 0
  BY <1>1, <1>2, <1>3, NoMiddle
<1> QED BY <1>4 DEF r

\* ... is the next one, ...
LEMMA NoneBetween ==
  ASSUME NEW a \in Nat, NEW b \in Nat \ {0}, NEW g \in Nat, a % b = 0, g % b = 0, a < g
  PROVE  a + b <= g
<1> SUFFICES ASSUME g < a + b PROVE FALSE
  OBVIOUS
<1> DEFINE p == a \div b
           q == g \div b
<1>1. p \in Int /\ a = b * p
  BY DivMod
<1>2. q \in Int /\ g = b * q
  BY DivMod
<1> HIDE DEF p, q
<1>3. b * (p - q) + (g - a) = 0
  BY <1>1, <1>2
<1> QED BY <1>1, <1>2, <1>3, NoMiddle

\* ... and every number lies between two of them.
LEMMA MultipleBelow ==
  ASSUME NEW i \in Nat, NEW b \in Nat \ {0}
  PROVE  \E f \in 0 .. i : f % b = 0 /\ i < f + b
<1> DEFINE p == i \div b
           r == i % b
           f == i - r
<1>1. p \in Int /\ r \in 0 .. b - 1 /\ i = b * p + r
  BY DivMod
<1> HIDE DEF p, r
<1>2. f \in 0 .. i /\ i < f + b
  <2>1. p >= 0
    <3> SUFFICES ASSUME p <= -1 PROVE FALSE
      BY <1>1
    <3>1. b * p <= -b
      BY <1>1
    <3> QED BY <1>1, <3>1
  <2>2. b * p >= 0
    BY <1>1, <2>1
  <2> QED BY <1>1, <2>2
<1>3. f % b = 0
  <2>0. f \in Nat
    BY <1>2
  <2> DEFINE q == f \div b
             s == f % b
  <2> HIDE DEF f
  <2>1. q \in Int /\ s \in 0 .. b - 1 /\ f = b * q + s
    BY <2>0, DivMod
  <2> HIDE DEF q, s
  <2> USE DEF f
  <2>2. b * (q - p) + s = 0
    BY <1>1, <2>1
  <2>3. s = 0
    BY <1>1, <2>1, <2>2, NoMiddle
  <2> QED BY <2>3 DEF s
<1> QED BY <1>2, <1>3

-----------------------------------------------------------------------------
(* Types.                                                                  *)

Outcomes == {"none", "serial", "pending", "done", "threw"}

Call == [n : 0 .. MaxCalls, mode : Modes \cup {"none"}, count : 0 .. MaxCount,
         chunk : Nat \ {0}, next : Nat, outcome : Outcomes]

\* How far a call has got agrees with what its caller does.
Consistent(k, p) ==
  /\ k.next % k.chunk = 0
  /\ p = "idle" <=> k.outcome # "pending"
  /\ k.outcome = "pending" => k.n # 0
  /\ p = "submitting" => k.next < k.count
  /\ p = "joining" \/ k.outcome = "done" => k.next >= k.count
  /\ k.outcome \in {"none", "serial"} => k.next = 0

PoolTypes ==
  /\ running \in BOOLEAN
  /\ taskQ \in Seq(Task)
  /\ wpc \in [Workers -> {"none", "ready", "waiting", "busy", "exited"}]
  /\ job \in [Workers -> Task \cup {NoTask}]
  /\ \A w \in Workers : wpc[w] = "busy" <=> job[w] # NoTask
  /\ owner \in {"down", "up", "flagged", "joining"}
  /\ owner = "down" => \A w \in Workers : wpc[w] = "none"
  /\ ready \subseteq Task /\ failed \subseteq Task

CallTypes ==
  /\ cpc \in [Callers -> {"idle", "submitting", "notifying", "joining"}]
  /\ call \in [Callers -> Call]
  /\ ran \in [Callers -> [Indexes -> Nat]]
  /\ \A c \in Callers : Consistent(call[c], cpc[c])

TypeInv == PoolTypes /\ CallTypes

LEMMA Sizes ==
  /\ IsFiniteSet(Workers) /\ IsFiniteSet(Callers)
  /\ MaxCount \in Nat \ {0} /\ Counts \subseteq Nat \ {0}
  /\ \A count \in Counts : count <= MaxCount
  /\ Grain \in Nat \ {0} /\ MaxCalls \in Nat /\ Modes \subseteq {"parallel_for", "trace_rays"}
<1>1. MaxCount \in Counts /\ \A count \in Counts : count <= MaxCount
  BY PoolAssumption DEF MaxCount
<1> QED BY <1>1, PoolAssumption

LEMMA NoTaskIsNone == NoTask \notin Task
<1>1. NoTask.n = 0
  BY DEF NoTask
<1>2. \A t \in Task : t.n \in 1 .. MaxCalls
  BY DEF Task
<1> QED BY <1>1, <1>2, Sizes

LEMMA TypeInit == Init => TypeInv
<1> SUFFICES ASSUME Init PROVE TypeInv
  OBVIOUS
<1> DEFINE k == [n |-> 0, mode |-> "none", count |-> 0, chunk |-> 1, next |-> 0, outcome |-> "none"]
<1>1. k \in Call /\ k.next = 0 /\ k.chunk = 1 /\ k.outcome = "none"
  BY Sizes DEF Call, Outcomes
<1>2. call = [c \in Callers |-> k]
  BY DEF Init
<1> HIDE DEF k
<1>3. CallTypes
  <2>1. cpc = [c \in Callers |-> "idle"] /\ ran = [c \in Callers |-> [i \in Indexes |-> 0]]
    BY DEF Init
  <2>2. 0 % 1 = 0
    OBVIOUS
  <2>3. \A c \in Callers : Consistent(call[c], cpc[c])
    BY <1>1, <1>2, <2>1, <2>2 DEF Consistent
  <2> QED BY <1>1, <1>2, <2>1, <2>3 DEF CallTypes
<1>4. PoolTypes
  <2>1. <<>> \in Seq(Task)
    OBVIOUS
  <2> QED BY <2>1 DEF Init, PoolTypes
<1> QED BY <1>3, <1>4 DEF TypeInv

LEMMA FunctionTo == ASSUME NEW f, NEW S, NEW T, f \in [S -> T], NEW x \in S, NEW y \in T
                    PROVE  /\ [f EXCEPT ![x] = y] \in [S -> T]
                           /\ [f EXCEPT ![x] = y][x] = y
                           /\ \A z \in S : z # x => [f EXCEPT ![x] = y][z] = f[z]
OBVIOUS

LEMMA ChunkIs ==
  ASSUME NEW mode \in Modes, NEW count \in Counts
  PROVE  Chunk(mode, count) \in Nat \ {0} \/ RunsSerially(mode, count)
<1> DEFINE threads == Cardinality(Threads)
<1>1. threads \in Nat
  BY Sizes, FS_Subset, FS_CardinalityType DEF Threads
<1> HIDE DEF threads
<1>2. CASE mode = "parallel_for"
  BY <1>1, <1>2, Sizes DEF Chunk, Max2, CeilDiv, threads
<1>3. CASE mode = "trace_rays"
  <2> DEFINE usable == UsableWorkers(count)
  <2>1. usable \in Int
    <3>1. count \div MinRays \in Int
      BY Sizes, PoolAssumption, DivMod
    <3> QED BY <1>1, <3>1 DEF UsableWorkers, Min2, Max2, threads
  <2>2. CASE usable <= 1
    BY <1>3, <2>2 DEF RunsSerially
  <2>3. CASE usable > 1
    <3> HIDE DEF usable
    <3>1. (count + usable - 1) \div usable \in Int
      BY <2>1, <2>3, Sizes
    <3>2. Max2(1, CeilDiv(count, usable)) \in Nat \ {0}
      BY <3>1 DEF Max2, CeilDiv
    <3> QED BY <1>3, <3>2 DEF Chunk, usable
  <2> QED BY <2>1, <2>2, <2>3
<1> QED BY <1>2, <1>3, Sizes

\* What is known of the latest call of a caller, and of its task at an index.
LEMMA CallOf ==
  ASSUME CallTypes, NEW c \in Callers
  PROVE  /\ call[c] \in Call /\ Consistent(call[c], cpc[c])
         /\ call[c].n \in 0 .. MaxCalls /\ call[c].count \in 0 .. MaxCount
         /\ call[c].chunk \in Nat \ {0} /\ call[c].next \in Nat /\ call[c].outcome \in Outcomes
<1>1. call[c] \in Call /\ Consistent(call[c], cpc[c])
  BY DEF CallTypes
<1> QED BY <1>1 DEF Call

LEMMA TaskAtIs ==
  ASSUME CallTypes, NEW c \in Callers, NEW f \in Nat, f < call[c].count, call[c].n # 0
  PROVE  /\ TaskAt(c, f) \in Task
         /\ TaskAt(c, f).caller = c /\ TaskAt(c, f).n = call[c].n /\ TaskAt(c, f).from = f
         /\ TaskAt(c, f).to = Min2(f + call[c].chunk, call[c].count)
<1> DEFINE to == Min2(f + call[c].chunk, call[c].count)
<1>1. f \in Indexes /\ to \in 1 .. MaxCount /\ call[c].n \in 1 .. MaxCalls
  BY CallOf, Sizes DEF Indexes, Min2
<1> HIDE DEF to
<1>2. TaskAt(c, f) = [caller |-> c, n |-> call[c].n, from |-> f, to |-> to]
  BY DEF TaskAt, to
<1>3. TaskAt(c, f) \in Task
  BY <1>1, <1>2 DEF Task
<1> QED BY <1>2, <1>3 DEF to

\* The caller's steps.
LEMMA BeginIs ==
  ASSUME CallTypes, NEW c \in Callers, NEW mode \in Modes, NEW count \in Counts,
         NEW outcome \in {"serial", "pending"}, Begin(c, mode, count, outcome),
         outcome = "serial" \/ ~ RunsSerially(mode, count)
  PROVE  \E k \in Call : /\ call' = [call EXCEPT ![c] = k]
                         /\ k.n = call[c].n + 1 /\ k.count = count /\ k.next = 0
                         /\ k.outcome = outcome /\ k.next % k.chunk = 0
<1> DEFINE chunk == IF outcome = "serial" THEN count ELSE Chunk(mode, count)
           k == [n |-> call[c].n + 1, mode |-> mode, count |-> count,
                 chunk |-> chunk, next |-> 0, outcome |-> outcome]
<1>1. chunk \in Nat \ {0}
  BY ChunkIs, Sizes
<1>2. 0 % chunk = 0
  <2> HIDE DEF chunk
  <2> QED BY <1>1, DivMod, NoMiddle
<1>3. call[c].n + 1 \in 0 .. MaxCalls /\ count \in 0 .. MaxCount /\ mode \in Modes \cup {"none"}
  BY CallOf, Sizes DEF Begin
<1>4. call' = [call EXCEPT ![c] = k]
  BY DEF Begin
<1> HIDE DEF chunk
<1>5. k \in Call
  BY <1>1, <1>3 DEF Call, Outcomes
<1> WITNESS k \in Call
<1> QED BY <1>2, <1>4

LEMMA SubmitIs ==
  ASSUME CallTypes, NEW c \in Callers, Submit(c)
  PROVE  /\ TaskAt(c, call[c].next) \in Task
         /\ \E k \in Call : /\ call' = [call EXCEPT ![c] = k]
                            /\ k.n = call[c].n /\ k.count = call[c].count /\ k.chunk = call[c].chunk
                            /\ k.next = call[c].next + call[c].chunk
                            /\ k.outcome = call[c].outcome /\ k.next % k.chunk = 0
<1> DEFINE next == call[c].next + call[c].chunk
           k == [call[c] EXCEPT !.next = next]
<1>1. /\ call[c].next < call[c].count /\ call[c].n # 0 /\ call[c].next % call[c].chunk = 0
      /\ call[c] \in Call /\ call[c].chunk \in Nat \ {0} /\ call[c].next \in Nat
  BY CallOf DEF Submit, Consistent
<1>2. TaskAt(c, call[c].next) \in Task
  BY <1>1, TaskAtIs
<1>3. call' = [call EXCEPT ![c] = k]
  BY DEF Submit
<1>4. next \in Nat /\ next % call[c].chunk = 0
  BY <1>1, NextMultiple
<1> HIDE DEF next
<1>5. k \in Call /\ k.next = next
  BY <1>1, <1>4 DEF Call
<1>6. /\ k.n = call[c].n /\ k.count = call[c].count /\ k.chunk = call[c].chunk
      /\ k.outcome = call[c].outcome
  BY <1>1 DEF Call
<1> HIDE DEF k
<1> QED BY <1>2, <1>3, <1>4, <1>5, <1>6 DEF next

LEMMA ReturnIs ==
  ASSUME CallTypes, NEW c \in Callers, NEW outcome \in {"done", "threw"}, Return(c, outcome)
  PROVE  \E k \in Call : /\ call' = [call EXCEPT ![c] = k]
                         /\ k.n = call[c].n /\ k.count = call[c].count /\ k.chunk = call[c].chunk
                         /\ k.next = call[c].next /\ k.outcome = outcome
<1> DEFINE k == [call[c] EXCEPT !.outcome = outcome]
<1>1. call[c] \in Call
  BY CallOf
<1>2. k \in Call /\ k.outcome = outcome
  BY <1>1 DEF Call, Outcomes
<1>3. k.n = call[c].n /\ k.count = call[c].count /\ k.chunk = call[c].chunk /\ k.next = call[c].next
  BY <1>1 DEF Call
<1>4. call' = [call EXCEPT ![c] = k]
  BY DEF Return
<1> HIDE DEF k
<1> QED BY <1>2, <1>3, <1>4

\* What the end of a task does to the history.
LEMMA FinishIs ==
  ASSUME TypeInv, NEW w \in Workers, wpc[w] = "busy", NEW upto \in Int, Finish(w, upto)
  PROVE  /\ job[w] \in Task /\ job[w].caller \in Callers
         /\ \E g \in [Indexes -> Nat] :
              /\ ran' = [ran EXCEPT ![job[w].caller] = g]
              /\ \A i \in Indexes : g[i] =
                   IF job[w].n = call[job[w].caller].n /\ job[w].from <= i /\ i < upto
                   THEN ran[job[w].caller][i] + 1 ELSE ran[job[w].caller][i]
<1>1. job[w] \in Task
  BY DEF TypeInv, PoolTypes
<1>2. job[w].caller \in Callers
  BY <1>1 DEF Task
<1> DEFINE t == job[w]
           h == ran[t.caller]
           g == [i \in Indexes |-> IF t.n = call[t.caller].n /\ t.from <= i /\ i < upto
                                   THEN h[i] + 1 ELSE h[i]]
<1>3. h \in [Indexes -> Nat]
  BY <1>2 DEF TypeInv, CallTypes
<1>4. g \in [Indexes -> Nat]
  <2> HIDE DEF h
  <2> QED BY <1>3
<1>5. ran' = [ran EXCEPT ![t.caller] = g]
  BY DEF Finish
<1> QED BY <1>1, <1>2, <1>4, <1>5

-----------------------------------------------------------------------------
(* Types, continued: the steps.                                            *)

\* A caller's step replaces its call and its place.
LEMMA CallChanges ==
  ASSUME CallTypes, NEW c \in Callers, NEW k \in Call,
         NEW p \in {"idle", "submitting", "notifying", "joining"}, Consistent(k, p),
         call' = [call EXCEPT ![c] = k], cpc' = [cpc EXCEPT ![c] = p],
         ran' \in [Callers -> [Indexes -> Nat]]
  PROVE  CallTypes'
<1>1. \A d \in Callers : Consistent(call'[d], cpc'[d])
  <2> SUFFICES ASSUME NEW d \in Callers PROVE Consistent(call'[d], cpc'[d])
    OBVIOUS
  <2>1. CASE d = c
    BY <2>1 DEF CallTypes
  <2>2. CASE d # c
    BY <2>2, CallOf DEF CallTypes
  <2> QED BY <2>1, <2>2
<1> QED BY <1>1 DEF CallTypes

LEMMA CallSame == ASSUME CallTypes, UNCHANGED <<cpc, call, ran>> PROVE CallTypes'
BY DEF CallTypes

LEMMA BeginCallTypes ==
  ASSUME TypeInv, NEW c \in Callers, NEW mode \in Modes, NEW count \in Counts,
         RunSerially(c, mode, count) \/ BeginTasks(c, mode, count)
  PROVE  CallTypes'
<1>0. CallTypes /\ count \in Nat \ {0} /\ cpc[c] = "idle" /\ cpc \in [Callers -> {"idle", "submitting", "notifying", "joining"}]
  BY Sizes DEF TypeInv, RunSerially, BeginTasks, Begin, CallTypes
<1>1. CASE RunSerially(c, mode, count)
  <2>1. PICK k \in Call : /\ call' = [call EXCEPT ![c] = k]
                         /\ k.n = call[c].n + 1 /\ k.count = count /\ k.next = 0
                         /\ k.outcome = "serial" /\ k.next % k.chunk = 0
    BY <1>0, <1>1, BeginIs DEF RunSerially
  <2>2. Consistent(k, "idle")
    BY <2>1 DEF Consistent
  <2>3. cpc' = [cpc EXCEPT ![c] = "idle"]
    BY <1>0, <1>1 DEF RunSerially
  <2>4. ran' \in [Callers -> [Indexes -> Nat]]
    BY <1>0, <1>1 DEF RunSerially, CallTypes
  <2> QED BY <1>0, <2>1, <2>2, <2>3, <2>4, CallChanges
<1>2. CASE BeginTasks(c, mode, count)
  <2>1. PICK k \in Call : /\ call' = [call EXCEPT ![c] = k]
                         /\ k.n = call[c].n + 1 /\ k.count = count /\ k.next = 0
                         /\ k.outcome = "pending" /\ k.next % k.chunk = 0
    BY <1>0, <1>2, BeginIs DEF BeginTasks
  <2>2. Consistent(k, "submitting")
    BY <1>0, <2>1, CallOf DEF Consistent
  <2>3. cpc' = [cpc EXCEPT ![c] = "submitting"]
    BY <1>2 DEF BeginTasks
  <2>4. ran' \in [Callers -> [Indexes -> Nat]]
    BY <1>0, <1>2 DEF BeginTasks, CallTypes
  <2> QED BY <1>0, <2>1, <2>2, <2>3, <2>4, CallChanges
<1> QED BY <1>1, <1>2

LEMMA CallerCallTypes ==
  ASSUME TypeInv, NEW c \in Callers, Submit(c) \/ Notify(c) \/ JoinAll(c) \/ JoinThrows(c)
  PROVE  CallTypes'
<1>0. /\ CallTypes /\ Consistent(call[c], cpc[c]) /\ call[c] \in Call
      /\ call[c].next \in Nat /\ call[c].count \in Nat
      /\ ran' = ran /\ ran \in [Callers -> [Indexes -> Nat]]
  BY CallOf, Sizes DEF TypeInv, CallTypes, Submit, Notify, JoinAll, JoinThrows, Return
<1>1. CASE Submit(c)
  <2>1. PICK k \in Call : /\ call' = [call EXCEPT ![c] = k]
                          /\ k.n = call[c].n /\ k.count = call[c].count /\ k.chunk = call[c].chunk
                          /\ k.next = call[c].next + call[c].chunk
                          /\ k.outcome = call[c].outcome /\ k.next % k.chunk = 0
    BY <1>0, <1>1, SubmitIs
  <2>2. cpc[c] = "submitting" /\ cpc' = [cpc EXCEPT ![c] = "notifying"]
    BY <1>1 DEF Submit
  <2>3. Consistent(k, "notifying")
    BY <1>0, <2>1, <2>2 DEF Consistent
  <2> QED BY <1>0, <2>1, <2>2, <2>3, CallChanges
<1>2. CASE Notify(c)
  <2>1. cpc[c] = "notifying" /\ cpc' = [cpc EXCEPT ![c] = AfterNotify(c)] /\ call' = [call EXCEPT ![c] = call[c]]
    BY <1>0, <1>2 DEF Notify, CallTypes
  <2>2. AfterNotify(c) \in {"submitting", "joining"} /\ Consistent(call[c], AfterNotify(c))
    BY <1>0, <2>1 DEF Consistent, AfterNotify
  <2> QED BY <1>0, <2>1, <2>2, CallChanges
<1>3. ASSUME NEW outcome \in {"done", "threw"}, cpc[c] = "joining", Return(c, outcome)
      PROVE  CallTypes'
  <2>1. PICK k \in Call : /\ call' = [call EXCEPT ![c] = k]
                          /\ k.n = call[c].n /\ k.count = call[c].count /\ k.chunk = call[c].chunk
                          /\ k.next = call[c].next /\ k.outcome = outcome
    BY <1>0, <1>3, ReturnIs
  <2>2. cpc' = [cpc EXCEPT ![c] = "idle"]
    BY <1>3 DEF Return
  <2>3. Consistent(k, "idle")
    BY <1>0, <1>3, <2>1 DEF Consistent
  <2> QED BY <1>0, <2>1, <2>2, <2>3, CallChanges
<1> QED BY <1>1, <1>2, <1>3 DEF JoinAll, JoinThrows

LEMMA FinishCallTypes ==
  ASSUME TypeInv, NEW w \in Workers, wpc[w] = "busy", NEW upto \in Int, Finish(w, upto)
  PROVE  CallTypes'
<1>1. UNCHANGED <<cpc, call>>
  BY DEF Finish
<1>2. ran' \in [Callers -> [Indexes -> Nat]]
  BY FinishIs DEF TypeInv, CallTypes
<1> QED BY <1>1, <1>2 DEF TypeInv, CallTypes

\* Both ways a task can end: up to where it came, and which set it joins.
LEMMA ExecuteIs ==
  ASSUME TypeInv, NEW w \in Workers, Execute(w) \/ ExecuteThrows(w)
  PROVE  /\ wpc[w] = "busy"
         /\ \E upto \in Int : /\ Finish(w, upto) /\ upto <= job[w].to
                              /\ upto = job[w].to \/ job[w] \in failed'
         /\ \/ ready' = ready \cup {job[w]} /\ failed' = failed
            \/ failed' = failed \cup {job[w]} /\ ready' = ready
<1>1. job[w] \in Task
  BY DEF TypeInv, PoolTypes, Execute, ExecuteThrows
<1>2. job[w].to \in Int /\ job[w].from \in Int
  BY <1>1, Sizes DEF Task, Indexes
<1> QED BY <1>2 DEF Execute, ExecuteThrows

LEMMA PoolTypesNext == ASSUME TypeInv, [Next]_vars PROVE PoolTypes'
<1>0. PoolTypes /\ CallTypes
  BY DEF TypeInv
<1>1. ASSUME NEW S \in SUBSET Workers, Resize(S) PROVE PoolTypes'
  BY <1>0, <1>1 DEF PoolTypes, Resize
<1>2. ASSUME NEW c \in Callers, NEW mode \in Modes, NEW count \in Counts,
             RunSerially(c, mode, count) \/ BeginTasks(c, mode, count)
      PROVE  PoolTypes'
  BY <1>0, <1>2 DEF PoolTypes, RunSerially, BeginTasks
<1>3. ASSUME NEW c \in Callers, Submit(c) PROVE PoolTypes'
  <2>1. taskQ' \in Seq(Task)
    <3>1. TaskAt(c, call[c].next) \in Task
      BY <1>0, <1>3, SubmitIs
    <3> DEFINE t == TaskAt(c, call[c].next)
    <3> HIDE DEF t
    <3>2. taskQ' = Append(taskQ, t) /\ t \in Task /\ taskQ \in Seq(Task)
      BY <1>0, <1>3, <3>1 DEF Submit, PoolTypes, t
    <3> QED BY <3>2
  <2> QED BY <1>0, <1>3, <2>1 DEF PoolTypes, Submit
<1>4. ASSUME NEW c \in Callers, Notify(c) PROVE PoolTypes'
  <2>1. CASE UNCHANGED wpc
    BY <1>0, <1>4, <2>1 DEF PoolTypes, Notify
  <2>2. ASSUME NEW w \in Waiting, wpc' = [wpc EXCEPT ![w] = "ready"] PROVE PoolTypes'
    BY <1>0, <1>4, <2>2 DEF PoolTypes, Notify, Waiting
  <2> QED BY <1>4, <2>1, <2>2 DEF Notify
<1>5. ASSUME NEW c \in Callers, JoinAll(c) \/ JoinThrows(c) PROVE PoolTypes'
  BY <1>0, <1>5 DEF PoolTypes, JoinAll, JoinThrows, Return
<1>6. ASSUME NEW w \in Workers, Wait(w) \/ SpuriousWake(w) \/ Exit(w) PROVE PoolTypes'
  BY <1>0, <1>6 DEF PoolTypes, Wait, SpuriousWake, Exit
<1>7. ASSUME NEW w \in Workers, Take(w) PROVE PoolTypes'
  <2>1. Head(taskQ) \in Task /\ Tail(taskQ) \in Seq(Task)
    BY <1>0, <1>7 DEF PoolTypes, Take
  <2>2. Head(taskQ) # NoTask
    BY <2>1, NoTaskIsNone
  <2> QED BY <1>0, <1>7, <2>1, <2>2 DEF PoolTypes, Take
<1>8. ASSUME NEW w \in Workers, Execute(w) \/ ExecuteThrows(w) PROVE PoolTypes'
  <2>1. wpc[w] = "busy" /\ job[w] \in Task
    BY <1>0, <1>8 DEF PoolTypes, Execute, ExecuteThrows
  <2>2. PICK upto \in Int : Finish(w, upto)
    BY <1>8, ExecuteIs
  <2>3. ready' \subseteq Task /\ failed' \subseteq Task
    BY <1>0, <1>8, <2>1 DEF PoolTypes, Execute, ExecuteThrows
  <2> QED BY <1>0, <2>1, <2>2, <2>3 DEF PoolTypes, Finish
<1>9. CASE StopFlag \/ StopNotify
  BY <1>0, <1>9 DEF PoolTypes, StopFlag, StopNotify, Waiting
<1>10. CASE StopJoin
  <2>1. \A w \in Workers : job[w] = NoTask
    BY <1>0, <1>10 DEF PoolTypes, StopJoin, Threads
  <2>2. <<>> \in Seq(Task)
    OBVIOUS
  <2> QED BY <1>0, <1>10, <2>1, <2>2 DEF PoolTypes, StopJoin
<1>11. CASE UNCHANGED vars
  BY <1>0, <1>11 DEF PoolTypes, vars
<1> QED BY <1>1, <1>2, <1>3, <1>4, <1>5, <1>6, <1>7, <1>8, <1>9, <1>10, <1>11 DEF Next

LEMMA TypeNext == ASSUME TypeInv, [Next]_vars PROVE TypeInv'
<1>1. ASSUME UNCHANGED <<cpc, call, ran>> PROVE CallTypes'
  BY <1>1, CallSame DEF TypeInv
<1>2. ASSUME NEW c \in Callers, NEW mode \in Modes, NEW count \in Counts,
             RunSerially(c, mode, count) \/ BeginTasks(c, mode, count)
      PROVE  CallTypes'
  BY <1>2, BeginCallTypes
<1>3. ASSUME NEW c \in Callers, Submit(c) \/ Notify(c) \/ JoinAll(c) \/ JoinThrows(c)
      PROVE  CallTypes'
  BY <1>3, CallerCallTypes
<1>4. ASSUME NEW w \in Workers, Execute(w) \/ ExecuteThrows(w) PROVE CallTypes'
  BY <1>4, ExecuteIs, FinishCallTypes
<1>5. ASSUME NEW S \in SUBSET Workers, Resize(S) PROVE CallTypes'
  BY <1>1, <1>5 DEF Resize
<1>6. ASSUME NEW w \in Workers, Wait(w) \/ SpuriousWake(w) \/ Take(w) \/ Exit(w) PROVE CallTypes'
  BY <1>1, <1>6 DEF Wait, SpuriousWake, Take, Exit
<1>7. ASSUME StopFlag \/ StopNotify \/ StopJoin \/ UNCHANGED vars PROVE CallTypes'
  BY <1>1, <1>7 DEF StopFlag, StopNotify, StopJoin, vars
<1>8. CallTypes'
  <2>1. CASE \E S \in SUBSET Workers : Resize(S)
    BY <1>5, <2>1
  <2>2. CASE \E c \in Callers, mode \in Modes, count \in Counts :
               RunSerially(c, mode, count) \/ BeginTasks(c, mode, count)
    BY <1>2, <2>2
  <2>3. CASE \E c \in Callers : Submit(c) \/ Notify(c) \/ JoinAll(c) \/ JoinThrows(c)
    BY <1>3, <2>3
  <2>4. CASE \E w \in Workers : Wait(w) \/ SpuriousWake(w) \/ Take(w) \/ Execute(w) \/ ExecuteThrows(w) \/ Exit(w)
    BY <1>4, <1>6, <2>4
  <2> QED BY <1>7, <2>1, <2>2, <2>3, <2>4 DEF Next
<1>9. PoolTypes'
  BY PoolTypesNext
<1> QED BY <1>8, <1>9 DEF TypeInv

LEMMA TypeInvariance == Spec => []TypeInv
BY TypeInit, TypeNext, PTL DEF Spec

-----------------------------------------------------------------------------
(* Notifications.                                                          *)

Ready == {w \in Workers : wpc[w] = "ready"}
Notifying == {c \in Callers : cpc[c] = "notifying"}

LEMMA WakeupIs ==
  NoLostWakeup <=> (Waiting # {} => Len(taskQ) <= Cardinality(Ready) + Cardinality(Notifying))
BY DEF NoLostWakeup, Ready, Notifying

LEMMA Counted ==
  /\ IsFiniteSet(Ready) /\ Cardinality(Ready) \in Nat
  /\ IsFiniteSet(Notifying) /\ Cardinality(Notifying) \in Nat
BY Sizes, FS_Subset, FS_CardinalityType DEF Ready, Notifying

LEMMA CountedNext ==
  /\ IsFiniteSet(Ready') /\ Cardinality(Ready') \in Nat
  /\ IsFiniteSet(Notifying') /\ Cardinality(Notifying') \in Nat
BY Sizes, FS_Subset, FS_CardinalityType DEF Ready, Notifying

LEMMA OneMore ==
  ASSUME NEW S, NEW T, NEW x, IsFiniteSet(S), x \notin S, T = S \cup {x}
  PROVE  Cardinality(T) = Cardinality(S) + 1
BY FS_AddElement

LEMMA AtLeast ==
  ASSUME NEW S, NEW T, IsFiniteSet(T), S \subseteq T
  PROVE  Cardinality(S) <= Cardinality(T)
BY FS_Subset

LEMMA NobodyWaits == ASSUME Waiting' = {} PROVE NoLostWakeup'
BY DEF NoLostWakeup

LEMMA NothingQueued == ASSUME taskQ' = <<>> PROVE NoLostWakeup'
<1>1. Len(taskQ') = 0
  OBVIOUS
<1>2. /\ Cardinality({w \in Workers : wpc'[w] = "ready"}) \in Nat
      /\ Cardinality({c \in Callers : cpc'[c] = "notifying"}) \in Nat
  BY CountedNext DEF Ready, Notifying
<1> QED BY <1>1, <1>2 DEF NoLostWakeup

\* The steps that keep the queue and the callers' places wake nobody less.
LEMMA MoreReady ==
  ASSUME NoLostWakeup, TypeInv, Waiting' \subseteq Waiting, Ready \subseteq Ready',
         UNCHANGED taskQ, Notifying' = Notifying
  PROVE  NoLostWakeup'
<1> SUFFICES ASSUME Waiting' # {}
             PROVE  Len(taskQ') <= Cardinality(Ready') + Cardinality(Notifying')
  BY DEF NoLostWakeup, Ready, Notifying
<1>1. Len(taskQ) <= Cardinality(Ready) + Cardinality(Notifying)
  BY WakeupIs
<1>2. Cardinality(Ready) <= Cardinality(Ready')
  BY CountedNext, AtLeast
<1>3. Len(taskQ) \in Nat
  BY LenProperties DEF TypeInv, PoolTypes
<1> QED BY <1>1, <1>2, <1>3, Counted, CountedNext

LEMMA SubmitWakeup == ASSUME TypeInv, NoLostWakeup, NEW c \in Callers, Submit(c) PROVE NoLostWakeup'
<1> SUFFICES ASSUME Waiting' # {}
             PROVE  Len(taskQ') <= Cardinality(Ready') + Cardinality(Notifying')
  BY DEF NoLostWakeup, Ready, Notifying
<1>1. Waiting # {} /\ Ready' = Ready
  BY DEF Submit, Waiting, Ready
<1>2. Len(taskQ) <= Cardinality(Ready) + Cardinality(Notifying)
  BY <1>1, WakeupIs
<1>3. Notifying' = Notifying \cup {c} /\ c \notin Notifying
  BY DEF Submit, Notifying, TypeInv, CallTypes
<1>4. Cardinality(Notifying') = Cardinality(Notifying) + 1
  BY <1>3, Counted, OneMore
<1>5. Len(taskQ) \in Nat /\ Len(taskQ') = Len(taskQ) + 1
  <2> DEFINE t == TaskAt(c, call[c].next)
  <2>1. t \in Task /\ taskQ' = Append(taskQ, t) /\ taskQ \in Seq(Task)
    BY SubmitIs DEF Submit, TypeInv, PoolTypes
  <2> HIDE DEF t
  <2> QED BY <2>1, LenProperties, AppendProperties
<1> QED BY <1>1, <1>2, <1>4, <1>5, Counted

LEMMA NotifyWakeup == ASSUME TypeInv, NoLostWakeup, NEW c \in Callers, Notify(c) PROVE NoLostWakeup'
<1>1. CASE Waiting = {}
  <2>1. Waiting' = {}
    BY <1>1 DEF Notify, Waiting
  <2> QED BY <2>1, NobodyWaits
<1>2. CASE Waiting # {}
  <2>1. PICK w \in Waiting : wpc' = [wpc EXCEPT ![w] = "ready"]
    BY <1>2 DEF Notify
  <2>2. Ready' = Ready \cup {w} /\ w \notin Ready
    BY <2>1 DEF Ready, Waiting, TypeInv, PoolTypes
  <2>3. Cardinality(Ready') = Cardinality(Ready) + 1
    BY <2>2, Counted, OneMore
  <2>4. Notifying = Notifying' \cup {c} /\ c \notin Notifying'
    <3>1. AfterNotify(c) # "notifying"
      BY DEF AfterNotify
    <3> QED BY <3>1 DEF Notify, Notifying, TypeInv, CallTypes
  <2>5. Cardinality(Notifying) = Cardinality(Notifying') + 1
    BY <2>4, CountedNext, OneMore
  <2>6. Len(taskQ') = Len(taskQ) /\ Len(taskQ) \in Nat
    BY LenProperties DEF Notify, TypeInv, PoolTypes
  <2>7. Len(taskQ) <= Cardinality(Ready) + Cardinality(Notifying)
    BY <1>2, WakeupIs
  <2>8. Len(taskQ') <= Cardinality(Ready') + Cardinality(Notifying')
    BY <2>3, <2>5, <2>6, <2>7, Counted, CountedNext
  <2> QED BY <2>8 DEF NoLostWakeup, Ready, Notifying
<1> QED BY <1>1, <1>2

LEMMA TakeWakeup == ASSUME TypeInv, NoLostWakeup, NEW w \in Workers, Take(w) PROVE NoLostWakeup'
<1> SUFFICES ASSUME Waiting' # {}
             PROVE  Len(taskQ') <= Cardinality(Ready') + Cardinality(Notifying')
  BY DEF NoLostWakeup, Ready, Notifying
<1>1. Waiting # {} /\ Notifying' = Notifying
  BY DEF Take, Waiting, Notifying, TypeInv, PoolTypes
<1>2. Ready = Ready' \cup {w} /\ w \notin Ready'
  BY DEF Take, Ready, TypeInv, PoolTypes
<1>3. Cardinality(Ready) = Cardinality(Ready') + 1
  BY <1>2, CountedNext, OneMore
<1>4. Len(taskQ) \in Nat /\ Len(taskQ') = Len(taskQ) - 1
  BY HeadTailProperties, LenProperties DEF Take, TypeInv, PoolTypes
<1>5. Len(taskQ) <= Cardinality(Ready) + Cardinality(Notifying)
  BY <1>1, WakeupIs
<1> QED BY <1>1, <1>3, <1>4, <1>5, Counted, CountedNext

LEMMA WakeupNext == ASSUME TypeInv, NoLostWakeup, [Next]_vars PROVE NoLostWakeup'
<1>0. /\ wpc \in [Workers -> {"none", "ready", "waiting", "busy", "exited"}]
      /\ cpc \in [Callers -> {"idle", "submitting", "notifying", "joining"}]
  BY DEF TypeInv, PoolTypes, CallTypes
<1>1. ASSUME NEW S \in SUBSET Workers, Resize(S) PROVE NoLostWakeup'
  <2>1. Waiting' = {}
    BY <1>1 DEF Resize, Waiting
  <2> QED BY <2>1, NobodyWaits
<1>2. ASSUME NEW c \in Callers, NEW mode \in Modes, NEW count \in Counts,
             RunSerially(c, mode, count) \/ BeginTasks(c, mode, count)
      PROVE  NoLostWakeup'
  <2>1. Waiting' = Waiting /\ Ready' = Ready /\ UNCHANGED taskQ /\ Notifying' = Notifying
    BY <1>0, <1>2 DEF RunSerially, BeginTasks, Begin, Waiting, Ready, Notifying
  <2> QED BY <2>1, MoreReady
<1>3. ASSUME NEW c \in Callers, JoinAll(c) \/ JoinThrows(c) PROVE NoLostWakeup'
  <2>1. Waiting' = Waiting /\ Ready' = Ready /\ UNCHANGED taskQ /\ Notifying' = Notifying
    BY <1>0, <1>3 DEF JoinAll, JoinThrows, Return, Waiting, Ready, Notifying
  <2> QED BY <2>1, MoreReady
<1>4. ASSUME NEW w \in Workers, Wait(w) \/ Exit(w) PROVE NoLostWakeup'
  BY <1>4, NothingQueued DEF Wait, Exit
<1>5. ASSUME NEW w \in Workers, SpuriousWake(w) \/ Execute(w) \/ ExecuteThrows(w) PROVE NoLostWakeup'
  <2>1. wpc' = [wpc EXCEPT ![w] = "ready"] /\ UNCHANGED <<taskQ, cpc>>
    BY <1>5, ExecuteIs DEF SpuriousWake, Finish
  <2>2. Waiting' \subseteq Waiting /\ Ready \subseteq Ready' /\ Notifying' = Notifying
    BY <1>0, <2>1 DEF Waiting, Ready, Notifying
  <2> QED BY <2>1, <2>2, MoreReady
<1>6. CASE StopNotify
  <2>1. Waiting' = {}
    BY <1>6 DEF StopNotify, Waiting
  <2> QED BY <2>1, NobodyWaits
<1>7. CASE StopJoin
  BY <1>7, NothingQueued DEF StopJoin
<1>8. CASE StopFlag \/ UNCHANGED vars
  <2>1. Waiting' = Waiting /\ Ready' = Ready /\ UNCHANGED taskQ /\ Notifying' = Notifying
    BY <1>8 DEF StopFlag, vars, Waiting, Ready, Notifying
  <2> QED BY <2>1, MoreReady
<1> QED BY <1>1, <1>2, <1>3, <1>4, <1>5, <1>6, <1>7, <1>8, SubmitWakeup, NotifyWakeup, TakeWakeup
        DEF Next

\* A thread sleeps only while every queued task has a thread or a notification
\* of its own: no wake-up of submit() is lost, whoever submits, throws or stops.
THEOREM NoWakeupIsLost == Spec => []NoLostWakeup
<1>1. Init => NoLostWakeup
  BY DEF Init, NoLostWakeup, Waiting
<1>2. TypeInv /\ NoLostWakeup /\ [Next]_vars => NoLostWakeup'
  BY WakeupNext
<1> QED BY <1>1, <1>2, TypeInvariance, PTL DEF Spec

-----------------------------------------------------------------------------
(* The tasks.                                                              *)

Known == Remaining \cup ready \cup failed

\* No task is there twice, and none is there that has ended.
DistinctInv ==
  /\ \A i, j \in 1 .. Len(taskQ) : i # j => taskQ[i] # taskQ[j]
  /\ \A w \in Workers, i \in 1 .. Len(taskQ) : job[w] # taskQ[i]
  /\ \A w, v \in Workers : w # v /\ job[w] = job[v] => job[w] = NoTask
  /\ Remaining \cap (ready \cup failed) = {}

\* A task is of a call before the latest, or one that the latest has submitted;
\* if it remains, that one is waiting for it or has thrown.
BelongInv ==
  /\ \A t \in Known : /\ t.n <= call[t.caller].n
                      /\ t.n = call[t.caller].n => t \in Submitted(t.caller)
  /\ \A t \in Remaining :
       t.n = call[t.caller].n => call[t.caller].outcome \in {"pending", "threw"}
  /\ \A c \in Callers : call[c].outcome = "done" => Submitted(c) \subseteq ready

TaskInv == DistinctInv /\ BelongInv

LEMMA Collected ==
  ASSUME NEW q \in Seq(Task), NEW f \in [Workers -> Task \cup {NoTask}]
  PROVE  /\ Len(q) \in Nat /\ \A i \in 1 .. Len(q) : q[i] \in Task
         /\ \A t : t \in ({q[k] : k \in DOMAIN q} \cup {f[w] : w \in Workers}) \ {NoTask}
                   <=> \/ \E i \in 1 .. Len(q) : t = q[i]
                       \/ \E w \in Workers : t = f[w] /\ t # NoTask
<1>1. DOMAIN q = 1 .. Len(q) /\ Len(q) \in Nat
  BY LenProperties
<1>2. \A i \in 1 .. Len(q) : q[i] \in Task /\ q[i] # NoTask
  BY ElementOfSeq, NoTaskIsNone
<1> QED BY <1>1, <1>2

LEMMA RemainingIs ==
  ASSUME PoolTypes
  PROVE  /\ \A t : t \in Remaining <=> \/ \E i \in 1 .. Len(taskQ) : t = taskQ[i]
                                       \/ \E w \in Workers : t = job[w] /\ t # NoTask
         /\ Remaining \subseteq Task /\ Known \subseteq Task
         /\ Len(taskQ) \in Nat /\ \A i \in 1 .. Len(taskQ) : taskQ[i] \in Task
<1>1. taskQ \in Seq(Task) /\ job \in [Workers -> Task \cup {NoTask}]
  BY DEF PoolTypes
<1>2. \A t : t \in Remaining <=> \/ \E i \in 1 .. Len(taskQ) : t = taskQ[i]
                                 \/ \E w \in Workers : t = job[w] /\ t # NoTask
  BY <1>1, Collected DEF Remaining
<1>3. Len(taskQ) \in Nat /\ \A i \in 1 .. Len(taskQ) : taskQ[i] \in Task
  BY <1>1, Collected
<1>4. Remaining \subseteq Task
  BY <1>1, <1>2, <1>3
<1> QED BY <1>2, <1>3, <1>4 DEF Known, PoolTypes

LEMMA RemainingNext ==
  ASSUME PoolTypes'
  PROVE  \A t : t \in Remaining' <=> \/ \E i \in 1 .. Len(taskQ') : t = taskQ'[i]
                                     \/ \E w \in Workers : t = job'[w] /\ t # NoTask
<1>1. taskQ' \in Seq(Task) /\ job' \in [Workers -> Task \cup {NoTask}]
  BY DEF PoolTypes
<1> QED BY <1>1, Collected DEF Remaining

\* What is submitted, and how it changes.
LEMMA SubmittedIs ==
  ASSUME CallTypes, NEW c \in Callers, NEW t \in Submitted(c)
  PROVE  /\ t.caller = c /\ t.n = call[c].n /\ t = TaskAt(c, t.from)
         /\ t.from \in Nat /\ t.from < call[c].next /\ t.from % call[c].chunk = 0
         /\ t.to = Min2(t.from + call[c].chunk, call[c].count)
<1>1. PICK f \in 0 .. call[c].next - 1 : f % call[c].chunk = 0 /\ t = TaskAt(c, f)
  BY DEF Submitted
<1>2. t.caller = c /\ t.n = call[c].n /\ t.from = f /\ t.to = Min2(f + call[c].chunk, call[c].count)
  BY <1>1 DEF TaskAt
<1> QED BY <1>1, <1>2, CallOf

LEMMA SubmittedSame ==
  ASSUME NEW c \in Callers, call'[c].n = call[c].n, call'[c].count = call[c].count,
         call'[c].chunk = call[c].chunk, call'[c].next = call[c].next
  PROVE  Submitted(c)' = Submitted(c)
BY DEF Submitted, TaskAt

LEMMA NothingSubmitted == ASSUME NEW c \in Callers, call'[c].next = 0 PROVE Submitted(c)' = {}
BY DEF Submitted

LEMMA OneSubmitted ==
  ASSUME CallTypes, NEW c \in Callers, Submit(c)
  PROVE  LET t == TaskAt(c, call[c].next)
         IN /\ Submitted(c)' = Submitted(c) \cup {t} /\ t \notin Submitted(c)
            /\ t.caller = c /\ t.n = call[c].n /\ t.from = call[c].next
            /\ t.to = Min2(t.from + call[c].chunk, call[c].count)
            /\ call[c].next < call[c].count
            /\ \A d \in Callers : d # c => Submitted(d)' = Submitted(d)
            /\ \A d \in Callers : /\ call'[d].n = call[d].n /\ call'[d].outcome = call[d].outcome
                                  /\ call'[d].count = call[d].count /\ call'[d].chunk = call[d].chunk
<1> DEFINE t == TaskAt(c, call[c].next)
           next == call[c].next
           chunk == call[c].chunk
<1>1. PICK k \in Call : /\ call' = [call EXCEPT ![c] = k]
                        /\ k.n = call[c].n /\ k.count = call[c].count /\ k.chunk = call[c].chunk
                        /\ k.next = next + chunk
                        /\ k.outcome = call[c].outcome /\ k.next % k.chunk = 0
  BY SubmitIs
<1>2. call \in [Callers -> Call] /\ next \in Nat /\ chunk \in Nat \ {0} /\ next % chunk = 0
  BY CallOf DEF CallTypes, Consistent
<1>3. call[c].next < call[c].count
  BY CallOf DEF Submit, Consistent
<1>4. t.caller = c /\ t.n = call[c].n /\ t.from = next /\ t.to = Min2(next + chunk, call[c].count)
  BY DEF TaskAt
<1>5. call'[c] = k /\ \A d \in Callers : d # c => call'[d] = call[d]
  BY <1>1, <1>2
<1>6. \A d \in Callers : d # c => Submitted(d)' = Submitted(d)
  BY <1>5, SubmittedSame
<1>7. /\ call'[c].n = call[c].n /\ call'[c].count = call[c].count
      /\ call'[c].chunk = chunk /\ call'[c].next = next + chunk
  BY <1>1, <1>5
<1>8. \A f \in Nat : f < next + chunk /\ f % chunk = 0 => f < next \/ f = next
  BY <1>2, NoneBetween
<1>9. {g \in 0 .. next + chunk - 1 : g % chunk = 0} = {g \in 0 .. next - 1 : g % chunk = 0} \cup {next}
  <2> HIDE DEF next, chunk
  <2> QED BY <1>2, <1>8
<1>10. Submitted(c)' = {TaskAt(c, f) : f \in {g \in 0 .. next + chunk - 1 : g % chunk = 0}}
  <2> HIDE DEF next, chunk
  <2> DEFINE at(f) == [caller |-> c, n |-> call[c].n, from |-> f, to |-> Min2(f + chunk, call[c].count)]
             starts == {g \in 0 .. next + chunk - 1 : g % chunk = 0}
  <2>1. {g \in 0 .. call'[c].next - 1 : g % call'[c].chunk = 0} = starts
    <3>1. call'[c].next = next + chunk /\ call'[c].chunk = chunk
      BY <1>7
    <3>2. \A g : g \in {h \in 0 .. call'[c].next - 1 : h % call'[c].chunk = 0} <=> g \in starts
      BY <1>2, <3>1
    <3> QED BY <3>2
  <2> HIDE DEF starts
  <2>2. Submitted(c)' = {at(f) : f \in starts}
    BY <1>7, <2>1 DEF Submitted, TaskAt
  <2>3. {TaskAt(c, f) : f \in starts} = {at(f) : f \in starts}
    BY DEF TaskAt, chunk
  <2> QED BY <2>2, <2>3 DEF starts
<1>11. Submitted(c) = {TaskAt(c, f) : f \in {g \in 0 .. next - 1 : g % chunk = 0}}
  BY DEF Submitted
<1>12. Submitted(c)' = Submitted(c) \cup {t}
  BY <1>9, <1>10, <1>11
<1>13. t \notin Submitted(c)
  BY <1>2, <1>4, SubmittedIs
<1>14. \A d \in Callers : /\ call'[d].n = call[d].n /\ call'[d].outcome = call[d].outcome
                          /\ call'[d].count = call[d].count /\ call'[d].chunk = call[d].chunk
  BY <1>1, <1>5
<1> QED BY <1>3, <1>4, <1>6, <1>12, <1>13, <1>14

LEMMA TaskInit == Init => TaskInv
<1> SUFFICES ASSUME Init PROVE TaskInv
  OBVIOUS
<1>1. Len(taskQ) = 0 /\ ready = {} /\ failed = {} /\ \A w \in Workers : job[w] = NoTask
  BY DEF Init
<1>2. Remaining = {}
  BY <1>1, TypeInit, RemainingIs DEF TypeInv
<1>3. \A c \in Callers : call[c].outcome = "none"
  BY DEF Init
<1> QED BY <1>1, <1>2, <1>3 DEF TaskInv, DistinctInv, BelongInv, Known

\* Steps after which less remains, and that leave the calls alone.
LEMMA LessRemains ==
  ASSUME BelongInv, UNCHANGED call, Known' \subseteq Known, Remaining' \subseteq Remaining, ready \subseteq ready'
  PROVE  BelongInv'
<1>1. \A c \in Callers : Submitted(c)' = Submitted(c)
  BY SubmittedSame
<1>2. \A t : Submitted(t.caller)' = Submitted(t.caller)
  BY DEF Submitted, TaskAt
<1> QED BY <1>1, <1>2 DEF BelongInv

\* Steps that leave the tasks alone.
LEMMA TasksSame ==
  ASSUME DistinctInv, UNCHANGED <<taskQ, job, ready, failed>>
  PROVE  DistinctInv' /\ Remaining' = Remaining /\ Known' = Known
<1>1. Remaining' = Remaining
  BY DEF Remaining
<1> QED BY <1>1 DEF DistinctInv, Known

\* Steps that replace the call of c, keeping its tasks or making them old.
LEMMA BelongCall ==
  ASSUME TypeInv, BelongInv, NEW c \in Callers, NEW k \in Call, call' = [call EXCEPT ![c] = k],
         UNCHANGED <<taskQ, job, ready, failed>>,
         \/ k.n > call[c].n /\ k.outcome # "done"
         \/ /\ k.n = call[c].n /\ k.count = call[c].count /\ k.chunk = call[c].chunk
            /\ k.next = call[c].next
            /\ k.outcome = "threw" \/ (k.outcome = "done" /\ Submitted(c) \subseteq ready /\ DistinctInv)
  PROVE  BelongInv'
<1>1. call'[c] = k /\ \A d \in Callers : d # c => call'[d] = call[d]
  BY DEF TypeInv, CallTypes
<1>2. Remaining' = Remaining /\ Known' = Known /\ Known \subseteq Task /\ Remaining \subseteq Known
  BY RemainingIs DEF Remaining, Known, TypeInv
<1>3. \A d \in Callers : d # c => Submitted(d)' = Submitted(d)
  BY <1>1, SubmittedSame
<1>4. \A t \in Known : t.caller \in Callers /\ t.n \in Nat
  BY <1>2, Sizes DEF Task
<1>5. CASE k.n > call[c].n /\ k.outcome # "done"
  <2>1. k.n \in Nat /\ call[c].n \in Nat
    BY CallOf, Sizes DEF Call, TypeInv
  <2>2. \A t \in Known : t.caller = c => t.n < k.n
    BY <1>4, <1>5, <2>1 DEF BelongInv
  <2>3. \A t \in Known : /\ t.n <= call'[t.caller].n
                         /\ t.n = call'[t.caller].n => t \in Submitted(t.caller)'
    <3> SUFFICES ASSUME NEW t \in Known
                 PROVE  /\ t.n <= call'[t.caller].n
                        /\ t.n = call'[t.caller].n => t \in Submitted(t.caller)'
      OBVIOUS
    <3> DEFINE d == t.caller
    <3>1. CASE d = c
      BY <1>1, <1>4, <2>1, <2>2, <3>1
    <3>2. CASE d # c
      <4>1. PICK e \in Callers : e = d
        BY <1>4
      <4>2. call'[e] = call[e] /\ Submitted(e)' = Submitted(e)
        BY <1>1, <1>3, <3>2, <4>1
      <4>3. t.n <= call[e].n /\ (t.n = call[e].n => t \in Submitted(e))
        BY <4>1 DEF BelongInv
      <4> QED BY <4>1, <4>2, <4>3 DEF Submitted, TaskAt
    <3> QED BY <3>1, <3>2
  <2>4. \A t \in Remaining : t.n = call'[t.caller].n => call'[t.caller].outcome \in {"pending", "threw"}
    <3> SUFFICES ASSUME NEW t \in Remaining, t.n = call'[t.caller].n
                 PROVE  call'[t.caller].outcome \in {"pending", "threw"}
      OBVIOUS
    <3>1. t.caller # c
      BY <1>1, <1>2, <1>4, <2>1, <2>2
    <3> QED BY <1>1, <1>2, <1>4, <3>1 DEF BelongInv
  <2>5. \A d \in Callers : call'[d].outcome = "done" => Submitted(d)' \subseteq ready
    BY <1>1, <1>3, <1>5 DEF BelongInv
  <2> QED BY <1>2, <2>3, <2>4, <2>5 DEF BelongInv
<1>6. CASE /\ k.n = call[c].n /\ k.count = call[c].count /\ k.chunk = call[c].chunk
           /\ k.next = call[c].next
           /\ k.outcome = "threw" \/ (k.outcome = "done" /\ Submitted(c) \subseteq ready /\ DistinctInv)
  <2>1. Submitted(c)' = Submitted(c)
    BY <1>1, <1>6, SubmittedSame
  <2>2. \A d \in Callers : Submitted(d)' = Submitted(d) /\ call'[d].n = call[d].n
    BY <1>1, <1>3, <1>6, <2>1
  <2>3. \A t \in Known : /\ t.n <= call'[t.caller].n
                         /\ t.n = call'[t.caller].n => t \in Submitted(t.caller)'
    <3> SUFFICES ASSUME NEW t \in Known
                 PROVE  /\ t.n <= call'[t.caller].n
                        /\ t.n = call'[t.caller].n => t \in Submitted(t.caller)'
      OBVIOUS
    <3>1. PICK e \in Callers : e = t.caller
      BY <1>4
    <3>2. t.n <= call[e].n /\ (t.n = call[e].n => t \in Submitted(e))
      BY <3>1 DEF BelongInv
    <3>3. Submitted(e)' = Submitted(e) /\ call'[e].n = call[e].n
      BY <2>2
    <3>4. t.n <= call'[t.caller].n /\ (t.n = call'[t.caller].n => t \in Submitted(e))
      BY <3>1, <3>2, <3>3
    <3>5. Submitted(e)' = Submitted(t.caller)'
      BY <3>1 DEF Submitted, TaskAt
    <3> QED BY <3>3, <3>4, <3>5
  <2>4. \A t \in Remaining : t.n = call'[t.caller].n => call'[t.caller].outcome \in {"pending", "threw"}
    <3> SUFFICES ASSUME NEW t \in Remaining, t.n = call'[t.caller].n
                 PROVE  call'[t.caller].outcome \in {"pending", "threw"}
      OBVIOUS
    <3>1. CASE t.caller # c
      BY <1>1, <1>2, <1>4, <3>1 DEF BelongInv
    <3>2. CASE t.caller = c /\ k.outcome = "threw"
      BY <1>1, <3>2
    <3>3. CASE t.caller = c /\ k.outcome = "done"
      <4>1. t \in Submitted(c)
        BY <1>1, <1>2, <1>6, <3>3 DEF BelongInv
      <4> QED BY <1>6, <3>3, <4>1 DEF DistinctInv
    <3> QED BY <1>6, <3>1, <3>2, <3>3
  <2>5. \A d \in Callers : call'[d].outcome = "done" => Submitted(d)' \subseteq ready
    BY <1>1, <1>3, <1>6, <2>1 DEF BelongInv
  <2> QED BY <1>2, <2>3, <2>4, <2>5 DEF BelongInv
<1> QED BY <1>5, <1>6

LEMMA SubmitTask == ASSUME TypeInv, TaskInv, NEW c \in Callers, Submit(c) PROVE TaskInv'
<1> DEFINE t == TaskAt(c, call[c].next)
           n == Len(taskQ)
<1>0. PoolTypes /\ CallTypes /\ PoolTypes' /\ cpc[c] = "submitting"
  <2>1. PoolTypes'
    BY PoolTypesNext DEF Next
  <2> QED BY <2>1 DEF TypeInv, Submit
<1>1. /\ Submitted(c)' = Submitted(c) \cup {t} /\ t \notin Submitted(c)
      /\ t.caller = c /\ t.n = call[c].n
      /\ \A d \in Callers : d # c => Submitted(d)' = Submitted(d)
      /\ \A d \in Callers : call'[d].n = call[d].n /\ call'[d].outcome = call[d].outcome
  BY <1>0, OneSubmitted
<1>2. t \in Task /\ taskQ' = Append(taskQ, t) /\ taskQ \in Seq(Task) /\ UNCHANGED <<job, ready, failed>>
  BY <1>0, SubmitIs DEF Submit, PoolTypes
<1>3. t # NoTask /\ call[c].outcome = "pending" /\ call[c].n \in Nat
  BY <1>0, <1>2, NoTaskIsNone, CallOf, Sizes DEF Consistent
<1> HIDE DEF t, n
<1>4. /\ n \in Nat /\ Len(taskQ') = n + 1 /\ taskQ'[n + 1] = t
      /\ \A i \in 1 .. n : taskQ'[i] = taskQ[i]
  BY <1>2, LenProperties, AppendProperties DEF n
<1>5. /\ \A u : u \in Remaining <=> \/ \E i \in 1 .. n : u = taskQ[i]
                                    \/ \E w \in Workers : u = job[w] /\ u # NoTask
      /\ Known \subseteq Task /\ Remaining \subseteq Known
  BY <1>0, RemainingIs DEF n, Known
<1>6. \A u : u \in Remaining' <=> \/ \E i \in 1 .. n + 1 : u = taskQ'[i]
                                  \/ \E w \in Workers : u = job[w] /\ u # NoTask
  <2>1. \A u : u \in Remaining' <=> \/ \E i \in 1 .. Len(taskQ') : u = taskQ'[i]
                                    \/ \E w \in Workers : u = job'[w] /\ u # NoTask
    BY <1>0, RemainingNext
  <2> QED BY <1>2, <1>4, <2>1
<1>7. Remaining' = Remaining \cup {t}
  <2>1. \A i \in 1 .. n + 1 : i \in 1 .. n \/ i = n + 1
    BY <1>4
  <2>2. 1 .. n \subseteq 1 .. n + 1 /\ n + 1 \in 1 .. n + 1
    BY <1>4
  <2> QED BY <1>4, <1>5, <1>6, <2>1, <2>2
<1>8. Known' = Known \cup {t}
  BY <1>2, <1>7 DEF Known
<1>9. t \notin Known
  BY <1>1, <1>3 DEF TaskInv, BelongInv
<1>10. DistinctInv'
  <2>1. t \notin Remaining /\ \A i \in 1 .. n : taskQ[i] # t
    BY <1>5, <1>9
  <2>2. \A w \in Workers : job[w] # t
    BY <1>3, <1>5, <1>9
  <2>3. \A i, j \in 1 .. n + 1 : i # j => taskQ'[i] # taskQ'[j]
    <3> SUFFICES ASSUME NEW i \in 1 .. n + 1, NEW j \in 1 .. n + 1, i # j PROVE taskQ'[i] # taskQ'[j]
      OBVIOUS
    <3>1. CASE i \in 1 .. n /\ j \in 1 .. n
      BY <1>4, <3>1 DEF TaskInv, DistinctInv, n
    <3>2. CASE i = n + 1 /\ j \in 1 .. n
      BY <1>4, <2>1, <3>2
    <3>3. CASE j = n + 1 /\ i \in 1 .. n
      BY <1>4, <2>1, <3>3
    <3> QED BY <1>4, <3>1, <3>2, <3>3
  <2>4. \A w \in Workers, i \in 1 .. n + 1 : job[w] # taskQ'[i]
    <3> SUFFICES ASSUME NEW w \in Workers, NEW i \in 1 .. n + 1 PROVE job[w] # taskQ'[i]
      OBVIOUS
    <3>1. CASE i \in 1 .. n
      BY <1>4, <3>1 DEF TaskInv, DistinctInv, n
    <3>2. CASE i = n + 1
      BY <1>4, <2>2, <3>2
    <3> QED BY <1>4, <3>1, <3>2
  <2>5. Remaining' \cap (ready \cup failed) = {}
    BY <1>7, <1>9 DEF TaskInv, DistinctInv, Known
  <2>6. \A w, v \in Workers : w # v /\ job[w] = job[v] => job[w] = NoTask
    BY DEF TaskInv, DistinctInv
  <2> QED BY <1>2, <1>4, <2>3, <2>4, <2>5, <2>6 DEF DistinctInv
<1>11. \A u \in Known' : /\ u.n <= call'[u.caller].n
                         /\ u.n = call'[u.caller].n => u \in Submitted(u.caller)'
  <2> SUFFICES ASSUME NEW u \in Known'
               PROVE  /\ u.n <= call'[u.caller].n
                      /\ u.n = call'[u.caller].n => u \in Submitted(u.caller)'
    OBVIOUS
  <2>1. PICK e \in Callers : e = u.caller
    BY <1>2, <1>5, <1>8 DEF Task
  <2>2. Submitted(e) \subseteq Submitted(e)' /\ call'[e].n = call[e].n
    BY <1>1
  <2>3. CASE u \in Known
    <3>1. u.n <= call[e].n /\ (u.n = call[e].n => u \in Submitted(e))
      BY <2>1, <2>3 DEF TaskInv, BelongInv
    <3> QED BY <2>1, <2>2, <3>1 DEF Submitted, TaskAt
  <2>4. CASE u = t
    <3>1. e = c /\ u.n <= call'[e].n /\ u \in Submitted(e)'
      BY <1>1, <1>3, <2>1, <2>4
    <3> QED BY <2>1, <3>1 DEF Submitted, TaskAt
  <2> QED BY <1>8, <2>3, <2>4
<1>12. \A u \in Remaining' : u.n = call'[u.caller].n => call'[u.caller].outcome \in {"pending", "threw"}
  <2> SUFFICES ASSUME NEW u \in Remaining', u.n = call'[u.caller].n
               PROVE  call'[u.caller].outcome \in {"pending", "threw"}
    OBVIOUS
  <2>1. CASE u \in Remaining
    <3>1. u.caller \in Callers
      BY <1>5, <2>1 DEF Task
    <3> QED BY <1>1, <2>1, <3>1 DEF TaskInv, BelongInv
  <2>2. CASE u = t
    BY <1>1, <1>3, <2>2
  <2> QED BY <1>7, <2>1, <2>2
<1>13. \A d \in Callers : call'[d].outcome = "done" => Submitted(d)' \subseteq ready
  BY <1>1, <1>3 DEF TaskInv, BelongInv
<1> QED BY <1>2, <1>10, <1>11, <1>12, <1>13 DEF TaskInv, BelongInv

LEMMA TakeTask == ASSUME TypeInv, TaskInv, NEW w \in Workers, Take(w) PROVE TaskInv'
<1> DEFINE n == Len(taskQ)
<1>0. PoolTypes /\ PoolTypes'
  BY PoolTypesNext DEF TypeInv, Next
<1>1. /\ taskQ # <<>> /\ taskQ \in Seq(Task) /\ taskQ' = Tail(taskQ)
      /\ job' = [job EXCEPT ![w] = taskQ[1]] /\ job[w] = NoTask
      /\ job \in [Workers -> Task \cup {NoTask}] /\ UNCHANGED <<call, ready, failed>>
  BY <1>0 DEF Take, PoolTypes
<1>2. /\ n \in Nat /\ n # 0 /\ Len(taskQ') = n - 1 /\ \A i \in 1 .. n - 1 : taskQ'[i] = taskQ[i + 1]
  BY <1>1, LenProperties, HeadTailProperties, EmptySeq
<1> HIDE DEF n
<1>3. /\ \A u : u \in Remaining <=> \/ \E i \in 1 .. n : u = taskQ[i]
                                    \/ \E v \in Workers : u = job[v] /\ u # NoTask
      /\ \A i \in 1 .. n : taskQ[i] \in Task /\ taskQ[i] # NoTask
  BY <1>0, RemainingIs, NoTaskIsNone DEF n
<1>4. \A u : u \in Remaining' <=> \/ \E i \in 1 .. Len(taskQ') : u = taskQ'[i]
                                  \/ \E v \in Workers : u = job'[v] /\ u # NoTask
  BY <1>0, RemainingNext
<1>5. job'[w] = taskQ[1] /\ \A v \in Workers : v # w => job'[v] = job[v]
  BY <1>1
<1>6. Remaining' \subseteq Remaining
  <2> SUFFICES ASSUME NEW u \in Remaining' PROVE u \in Remaining
    OBVIOUS
  <2>1. CASE \E i \in 1 .. Len(taskQ') : u = taskQ'[i]
    <3>1. PICK i \in 1 .. n - 1 : u = taskQ'[i]
      BY <1>2, <2>1
    <3>2. i + 1 \in 1 .. n /\ u = taskQ[i + 1]
      BY <1>2, <3>1
    <3> QED BY <1>3, <3>2
  <2>2. CASE \E v \in Workers : u = job'[v] /\ u # NoTask
    <3>1. 1 \in 1 .. n
      BY <1>2
    <3> QED BY <1>3, <1>5, <2>2, <3>1
  <2> QED BY <1>4, <2>1, <2>2
<1>7. Known' \subseteq Known
  BY <1>1, <1>6 DEF Known
<1>8. BelongInv'
  BY <1>1, <1>6, <1>7, LessRemains DEF TaskInv
<1>9. DistinctInv'
  <2>0. /\ \A i, j \in 1 .. n : i # j => taskQ[i] # taskQ[j]
        /\ \A v \in Workers, i \in 1 .. n : job[v] # taskQ[i]
        /\ \A u, v \in Workers : u # v /\ job[u] = job[v] => job[u] = NoTask
    BY DEF TaskInv, DistinctInv, n
  <2>1. \A i \in 1 .. n - 1 : i + 1 \in 1 .. n /\ i + 1 # 1
    BY <1>2
  <2>2. \A i, j \in 1 .. n - 1 : i # j => i + 1 # j + 1
    BY <1>2
  <2>3. \A i, j \in 1 .. n - 1 : i # j => taskQ'[i] # taskQ'[j]
    BY <1>2, <2>0, <2>1, <2>2
  <2>4. 1 \in 1 .. n
    BY <1>2
  <2>5. \A v \in Workers, i \in 1 .. n - 1 : job'[v] # taskQ'[i]
    BY <1>2, <1>5, <2>0, <2>1, <2>4
  <2>6. \A u, v \in Workers : u # v /\ job'[u] = job'[v] => job'[u] = NoTask
    BY <1>3, <1>5, <2>0, <2>4
  <2>7. Remaining' \cap (ready \cup failed)' = {}
    BY <1>1, <1>6 DEF TaskInv, DistinctInv
  <2> QED BY <1>2, <2>3, <2>5, <2>6, <2>7 DEF DistinctInv
<1> QED BY <1>8, <1>9 DEF TaskInv

LEMMA ExecuteTask ==
  ASSUME TypeInv, TaskInv, NEW w \in Workers, Execute(w) \/ ExecuteThrows(w)
  PROVE  TaskInv'
<1> DEFINE t == job[w]
<1>0. PoolTypes /\ PoolTypes'
  BY PoolTypesNext DEF TypeInv, Next
<1>1. PICK upto \in Int : Finish(w, upto)
  BY ExecuteIs
<1>2. /\ wpc[w] = "busy" /\ t # NoTask
      /\ \/ ready' = ready \cup {t} /\ failed' = failed
         \/ failed' = failed \cup {t} /\ ready' = ready
  BY <1>0, ExecuteIs DEF PoolTypes
<1>3. job'[w] = NoTask /\ (\A v \in Workers : v # w => job'[v] = job[v]) /\ UNCHANGED <<taskQ, call>>
  BY <1>0, <1>1 DEF Finish, PoolTypes
<1>4. \A u : u \in Remaining <=> \/ \E i \in 1 .. Len(taskQ) : u = taskQ[i]
                                 \/ \E v \in Workers : u = job[v] /\ u # NoTask
  BY <1>0, RemainingIs
<1>5. \A u : u \in Remaining' <=> \/ \E i \in 1 .. Len(taskQ) : u = taskQ[i]
                                  \/ \E v \in Workers : u = job'[v] /\ u # NoTask
  <2>1. \A u : u \in Remaining' <=> \/ \E i \in 1 .. Len(taskQ') : u = taskQ'[i]
                                    \/ \E v \in Workers : u = job'[v] /\ u # NoTask
    BY <1>0, RemainingNext
  <2> QED BY <1>3, <2>1
<1>6. Remaining' \subseteq Remaining /\ t \in Remaining
  BY <1>2, <1>3, <1>4, <1>5
<1>7. t \notin Remaining'
  BY <1>2, <1>3, <1>5 DEF TaskInv, DistinctInv
<1>8. Known' \subseteq Known
  BY <1>2, <1>6 DEF Known
<1>9. BelongInv'
  BY <1>2, <1>3, <1>6, <1>8, LessRemains DEF TaskInv
<1>10. DistinctInv'
  <2>1. Remaining' \cap (ready' \cup failed') = {}
    BY <1>2, <1>6, <1>7 DEF TaskInv, DistinctInv
  <2>2. \A v \in Workers, i \in 1 .. Len(taskQ) : job'[v] # taskQ[i]
    <3>1. \A i \in 1 .. Len(taskQ) : taskQ[i] # NoTask
      BY <1>0, RemainingIs, NoTaskIsNone
    <3> QED BY <1>3, <3>1 DEF TaskInv, DistinctInv
  <2>3. \A u, v \in Workers : u # v /\ job'[u] = job'[v] => job'[u] = NoTask
    BY <1>3 DEF TaskInv, DistinctInv
  <2> QED BY <1>3, <2>1, <2>2, <2>3 DEF TaskInv, DistinctInv
<1> QED BY <1>9, <1>10 DEF TaskInv

LEMMA StopTask == ASSUME TypeInv, TaskInv, StopJoin PROVE TaskInv'
<1>0. PoolTypes /\ PoolTypes'
  BY PoolTypesNext DEF TypeInv, Next
<1>1. taskQ' = <<>> /\ Len(taskQ') = 0 /\ UNCHANGED <<job, call, ready, failed>>
  BY DEF StopJoin
<1>2. Remaining' \subseteq Remaining /\ Known' \subseteq Known
  BY <1>1 DEF Remaining, Known
<1>3. BelongInv'
  BY <1>1, <1>2, LessRemains DEF TaskInv
<1>4. DistinctInv'
  BY <1>1, <1>2 DEF TaskInv, DistinctInv
<1> QED BY <1>3, <1>4 DEF TaskInv

LEMMA BeginTask ==
  ASSUME TypeInv, TaskInv, NEW c \in Callers, NEW mode \in Modes, NEW count \in Counts,
         RunSerially(c, mode, count) \/ BeginTasks(c, mode, count)
  PROVE  TaskInv'
<1>0. CallTypes /\ DistinctInv /\ BelongInv /\ UNCHANGED <<taskQ, job, ready, failed>>
  BY DEF TypeInv, TaskInv, RunSerially, BeginTasks
<1>1. PICK outcome \in {"serial", "pending"} :
        Begin(c, mode, count, outcome) /\ (outcome = "serial" \/ ~ RunsSerially(mode, count))
  BY DEF RunSerially, BeginTasks
<1>2. PICK k \in Call : call' = [call EXCEPT ![c] = k] /\ k.n = call[c].n + 1 /\ k.outcome = outcome
  BY <1>0, <1>1, BeginIs
<1>3. k.n > call[c].n /\ k.outcome # "done"
  <2>1. call[c].n \in Nat
    BY <1>0, CallOf, Sizes
  <2> QED BY <1>2, <2>1
<1> QED BY <1>0, <1>2, <1>3, BelongCall, TasksSame DEF TaskInv

LEMMA JoinTask ==
  ASSUME TypeInv, TaskInv, NEW c \in Callers, JoinAll(c) \/ JoinThrows(c)
  PROVE  TaskInv'
<1>0. CallTypes /\ DistinctInv /\ BelongInv /\ UNCHANGED <<taskQ, job, ready, failed>>
  BY DEF TypeInv, TaskInv, JoinAll, JoinThrows, Return
<1>1. PICK outcome \in {"done", "threw"} :
        Return(c, outcome) /\ (outcome = "done" => Submitted(c) \subseteq ready)
  BY DEF JoinAll, JoinThrows
<1>2. PICK k \in Call : /\ call' = [call EXCEPT ![c] = k]
                        /\ k.n = call[c].n /\ k.count = call[c].count /\ k.chunk = call[c].chunk
                        /\ k.next = call[c].next /\ k.outcome = outcome
  BY <1>0, <1>1, ReturnIs
<1>3. k.outcome = "threw" \/ (k.outcome = "done" /\ Submitted(c) \subseteq ready /\ DistinctInv)
  BY <1>0, <1>1, <1>2
<1>4. BelongInv'
  BY <1>0, <1>2, <1>3, BelongCall
<1> QED BY <1>0, <1>4, TasksSame DEF TaskInv

LEMMA TaskNext == ASSUME TypeInv, TaskInv, [Next]_vars PROVE TaskInv'
<1>1. ASSUME UNCHANGED <<taskQ, job, call, ready, failed>> PROVE TaskInv'
  <2>1. DistinctInv' /\ Remaining' = Remaining /\ Known' = Known
    BY <1>1, TasksSame DEF TaskInv
  <2>2. BelongInv'
    BY <1>1, <2>1, LessRemains DEF TaskInv
  <2> QED BY <2>1, <2>2 DEF TaskInv
<1>2. ASSUME NEW S \in SUBSET Workers, Resize(S) PROVE TaskInv'
  BY <1>1, <1>2 DEF Resize
<1>3. ASSUME NEW c \in Callers, Notify(c) PROVE TaskInv'
  BY <1>1, <1>3 DEF Notify
<1>4. ASSUME NEW w \in Workers, Wait(w) \/ SpuriousWake(w) \/ Exit(w) PROVE TaskInv'
  BY <1>1, <1>4 DEF Wait, SpuriousWake, Exit
<1>5. CASE StopFlag \/ StopNotify \/ UNCHANGED vars
  BY <1>1, <1>5 DEF StopFlag, StopNotify, vars
<1>6. CASE \E c \in Callers, mode \in Modes, count \in Counts :
             RunSerially(c, mode, count) \/ BeginTasks(c, mode, count)
  BY <1>6, BeginTask
<1>7. CASE \E c \in Callers : Submit(c) \/ Notify(c) \/ JoinAll(c) \/ JoinThrows(c)
  BY <1>3, <1>7, SubmitTask, JoinTask
<1>8. CASE \E w \in Workers : Wait(w) \/ SpuriousWake(w) \/ Take(w) \/ Execute(w) \/ ExecuteThrows(w) \/ Exit(w)
  BY <1>4, <1>8, TakeTask, ExecuteTask
<1> QED BY <1>2, <1>5, <1>6, <1>7, <1>8, StopTask DEF Next

-----------------------------------------------------------------------------
(* What has been processed.                                                *)

Covers(t, i) == t.from <= i /\ i < t.to

\* The part of a finished task has been processed once, that of a task that has
\* not begun to end, and what no task covers, has not.
RanInv ==
  \A c \in Callers :
    IF call[c].outcome = "serial"
    THEN \A i \in Indexes : ran[c][i] = IF i < call[c].count THEN 1 ELSE 0
    ELSE \A i \in Indexes :
           /\ \A t \in Submitted(c) : Covers(t, i) =>
                /\ t \in ready => ran[c][i] = 1
                /\ t \notin ready \cup failed => ran[c][i] = 0
           /\ (\A t \in Submitted(c) : ~ Covers(t, i)) => ran[c][i] = 0

LEMMA IndexesIs == Indexes \subseteq Nat
BY Sizes DEF Indexes

\* The chunks do not overlap.
LEMMA Disjoint ==
  ASSUME CallTypes, NEW c \in Callers, NEW t \in Submitted(c), NEW u \in Submitted(c), t # u,
         NEW i \in Indexes, Covers(t, i)
  PROVE  ~ Covers(u, i)
<1> DEFINE chunk == call[c].chunk
<1>1. /\ t = TaskAt(c, t.from) /\ u = TaskAt(c, u.from)
      /\ t.from \in Nat /\ u.from \in Nat /\ t.from % chunk = 0 /\ u.from % chunk = 0
      /\ t.to = Min2(t.from + chunk, call[c].count) /\ u.to = Min2(u.from + chunk, call[c].count)
  BY SubmittedIs
<1>2. chunk \in Nat \ {0} /\ call[c].count \in Nat /\ i \in Nat
  BY CallOf, Sizes, IndexesIs
<1> HIDE DEF chunk
<1>3. t.to <= t.from + chunk /\ u.to <= u.from + chunk
  BY <1>1, <1>2 DEF Min2
<1>4. t.to \in Nat /\ u.to \in Nat
  BY <1>1, <1>2 DEF Min2
<1>5. t.from # u.from
  BY <1>1
<1>6. CASE t.from < u.from
  <2>1. t.from + chunk <= u.from
    BY <1>1, <1>2, <1>6, NoneBetween
  <2> QED BY <1>1, <1>2, <1>3, <1>4, <2>1 DEF Covers
<1>7. CASE u.from < t.from
  <2>1. u.from + chunk <= t.from
    BY <1>1, <1>2, <1>7, NoneBetween
  <2> QED BY <1>1, <1>2, <1>3, <1>4, <2>1 DEF Covers
<1> QED BY <1>1, <1>5, <1>6, <1>7

\* The chunks leave no gap.
LEMMA NoGap ==
  ASSUME CallTypes, NEW c \in Callers, call[c].next >= call[c].count,
         NEW i \in Indexes, i < call[c].count
  PROVE  \E t \in Submitted(c) : Covers(t, i)
<1>1. /\ call[c].chunk \in Nat \ {0} /\ call[c].count \in Nat /\ call[c].next \in Nat /\ i \in Nat
  BY CallOf, Sizes, IndexesIs
<1>2. PICK f \in 0 .. i : f % call[c].chunk = 0 /\ i < f + call[c].chunk
  BY <1>1, MultipleBelow
<1>3. f \in 0 .. call[c].next - 1
  BY <1>1, <1>2
<1>4. TaskAt(c, f) \in Submitted(c)
  BY <1>2, <1>3 DEF Submitted
<1>5. TaskAt(c, f).from = f /\ TaskAt(c, f).to = Min2(f + call[c].chunk, call[c].count)
  BY DEF TaskAt
<1>6. Covers(TaskAt(c, f), i)
  BY <1>1, <1>2, <1>5 DEF Covers, Min2
<1> QED BY <1>4, <1>6

\* Nothing is submitted beyond the end, or beyond what is submitted next.
LEMMA Beyond ==
  ASSUME CallTypes, NEW c \in Callers, NEW t \in Submitted(c), NEW i \in Indexes,
         i >= call[c].count \/ i >= call[c].next
  PROVE  ~ Covers(t, i)
<1>1. /\ call[c].chunk \in Nat \ {0} /\ call[c].count \in Nat /\ call[c].next \in Nat /\ i \in Nat
      /\ call[c].next % call[c].chunk = 0
  BY CallOf, Sizes, IndexesIs DEF Consistent
<1>2. /\ t.from \in Nat /\ t.from < call[c].next /\ t.from % call[c].chunk = 0
      /\ t.to = Min2(t.from + call[c].chunk, call[c].count)
  BY SubmittedIs
<1>3. t.from + call[c].chunk <= call[c].next
  BY <1>1, <1>2, NoneBetween
<1> QED BY <1>1, <1>2, <1>3 DEF Covers, Min2

LEMMA RanInit == Init => RanInv
<1> SUFFICES ASSUME Init, NEW c \in Callers
             PROVE  /\ call[c].outcome # "serial"
                    /\ Submitted(c) = {} /\ \A i \in Indexes : ran[c][i] = 0
  BY DEF RanInv
<1>1. call[c].next = 0 /\ call[c].outcome # "serial"
  BY DEF Init
<1> QED BY <1>1 DEF Init, Submitted

\* The callers whose call, tasks and history are left alone.
RanOf(c) ==
  /\ call'[c].outcome = call[c].outcome /\ call'[c].count = call[c].count
  /\ Submitted(c)' = Submitted(c) /\ ran'[c] = ran[c]
  /\ \A t \in Submitted(c) : /\ t \in ready' <=> t \in ready
                             /\ t \in failed' <=> t \in failed

LEMMA RanChanges ==
  ASSUME RanInv, NEW c \in Callers, \A d \in Callers : d # c => RanOf(d),
         IF call'[c].outcome = "serial"
         THEN \A i \in Indexes : ran'[c][i] = IF i < call'[c].count THEN 1 ELSE 0
         ELSE \A i \in Indexes :
                /\ \A t \in Submitted(c)' : Covers(t, i) =>
                     /\ t \in ready' => ran'[c][i] = 1
                     /\ t \notin ready' \cup failed' => ran'[c][i] = 0
                /\ (\A t \in Submitted(c)' : ~ Covers(t, i)) => ran'[c][i] = 0
  PROVE  RanInv'
<1> SUFFICES ASSUME NEW d \in Callers
             PROVE  IF call'[d].outcome = "serial"
                    THEN \A i \in Indexes : ran'[d][i] = IF i < call'[d].count THEN 1 ELSE 0
                    ELSE \A i \in Indexes :
                           /\ \A t \in Submitted(d)' : Covers(t, i) =>
                                /\ t \in ready' => ran'[d][i] = 1
                                /\ t \notin ready' \cup failed' => ran'[d][i] = 0
                           /\ (\A t \in Submitted(d)' : ~ Covers(t, i)) => ran'[d][i] = 0
  BY DEF RanInv, Covers
<1>1. CASE d = c
  BY <1>1
<1>2. CASE d # c
  <2>1. RanOf(d)
    BY <1>2
  <2> QED BY <2>1 DEF RanInv, RanOf
<1> QED BY <1>1, <1>2

LEMMA RanSame ==
  ASSUME RanInv, UNCHANGED <<call, ran, ready, failed>>
  PROVE  RanInv'
<1>1. \A c \in Callers : Submitted(c)' = Submitted(c)
  BY SubmittedSame
<1> QED BY <1>1 DEF RanInv, Covers

LEMMA SubmitRan == ASSUME TypeInv, TaskInv, RanInv, NEW c \in Callers, Submit(c) PROVE RanInv'
<1> DEFINE t == TaskAt(c, call[c].next)
<1>0. /\ CallTypes /\ UNCHANGED <<ran, ready, failed>>
      /\ call[c].outcome = "pending" /\ call[c].next \in Nat
  BY CallOf DEF TypeInv, Submit, Consistent
<1>1. /\ Submitted(c)' = Submitted(c) \cup {t} /\ t \notin Submitted(c)
      /\ t.caller = c /\ t.n = call[c].n /\ t.from = call[c].next
      /\ \A d \in Callers : d # c => Submitted(d)' = Submitted(d)
      /\ \A d \in Callers : call'[d].outcome = call[d].outcome /\ call'[d].count = call[d].count
  BY <1>0, OneSubmitted
<1> HIDE DEF t
<1>2. t \notin ready \cup failed
  BY <1>1 DEF TaskInv, BelongInv, Known
<1>3. \A d \in Callers : d # c => RanOf(d)
  BY <1>0, <1>1 DEF RanOf
<1>4. ASSUME NEW i \in Indexes
      PROVE  /\ \A u \in Submitted(c)' : Covers(u, i) =>
                  /\ u \in ready' => ran'[c][i] = 1
                  /\ u \notin ready' \cup failed' => ran'[c][i] = 0
             /\ (\A u \in Submitted(c)' : ~ Covers(u, i)) => ran'[c][i] = 0
  <2>1. /\ \A u \in Submitted(c) : Covers(u, i) =>
             /\ u \in ready => ran[c][i] = 1
             /\ u \notin ready \cup failed => ran[c][i] = 0
        /\ (\A u \in Submitted(c) : ~ Covers(u, i)) => ran[c][i] = 0
    BY <1>0 DEF RanInv
  <2>2. Covers(t, i) => ran[c][i] = 0
    <3> SUFFICES ASSUME Covers(t, i) PROVE ran[c][i] = 0
      OBVIOUS
    <3>1. i >= call[c].next
      BY <1>0, <1>1, IndexesIs DEF Covers
    <3> QED BY <1>0, <2>1, <3>1, Beyond
  <2> QED BY <1>0, <1>1, <1>2, <2>1, <2>2
<1>5. call'[c].outcome # "serial"
  BY <1>0, <1>1
<1> QED BY <1>3, <1>4, <1>5, RanChanges

LEMMA ExecuteRan ==
  ASSUME TypeInv, TaskInv, RanInv, NEW w \in Workers, Execute(w) \/ ExecuteThrows(w)
  PROVE  RanInv'
<1>0. PoolTypes /\ CallTypes
  BY DEF TypeInv
<1>1. /\ wpc[w] = "busy"
      /\ \/ ready' = ready \cup {job[w]} /\ failed' = failed
         \/ failed' = failed \cup {job[w]} /\ ready' = ready
  BY ExecuteIs
<1>2. PICK upto \in Int : /\ Finish(w, upto) /\ upto <= job[w].to
                          /\ upto = job[w].to \/ job[w] \in failed'
  BY ExecuteIs
<1>3. PICK t \in Task : t = job[w]
  BY <1>1, <1>2, FinishIs
<1>4. PICK c \in Callers : c = t.caller
  BY <1>3 DEF Task
<1>5. PICK g \in [Indexes -> Nat] :
        /\ ran' = [ran EXCEPT ![c] = g]
        /\ \A i \in Indexes : g[i] = IF t.n = call[c].n /\ t.from <= i /\ i < upto
                                     THEN ran[c][i] + 1 ELSE ran[c][i]
  BY <1>1, <1>2, <1>3, <1>4, FinishIs
<1>6. t \in Remaining /\ t \notin ready \cup failed
  <2>1. t # NoTask
    BY NoTaskIsNone
  <2>2. t \in Remaining
    BY <1>0, <1>3, <2>1, RemainingIs
  <2> QED BY <2>2 DEF TaskInv, DistinctInv
<1>7. UNCHANGED call /\ \A d \in Callers : Submitted(d)' = Submitted(d)
  BY <1>2, SubmittedSame DEF Finish
<1>8. ran'[c] = g /\ (\A d \in Callers : d # c => ran'[d] = ran[d]) /\ ran[c] \in [Indexes -> Nat]
  BY <1>0, <1>5 DEF CallTypes
<1>9. t.from \in Nat /\ t.to \in Nat
  <2>1. t.from \in Indexes /\ t.to \in 1 .. MaxCount
    BY DEF Task
  <2>2. t.from \in Nat
    BY <2>1, IndexesIs
  <2>3. MaxCount \in Nat
    BY Sizes
  <2> QED BY <2>1, <2>2, <2>3
<1>10. \/ ready' = ready \cup {t} /\ failed' = failed
       \/ failed' = failed \cup {t} /\ ready' = ready
  BY <1>1, <1>3
<1>11. upto <= t.to /\ (upto = t.to \/ t \in failed')
  BY <1>2, <1>3
<1>12. \A d \in Callers : d # c => RanOf(d)
  <2> SUFFICES ASSUME NEW d \in Callers, d # c PROVE RanOf(d)
    OBVIOUS
  <2>1. t \notin Submitted(d)
    BY <1>0, <1>4, SubmittedIs
  <2> QED BY <1>7, <1>8, <1>10, <2>1 DEF RanOf
<1>13. CASE t.n # call[c].n
  <2>1. t \notin Submitted(c)
    BY <1>0, <1>13, SubmittedIs
  <2>2. \A i \in Indexes : g[i] = ran[c][i]
    BY <1>5, <1>13
  <2>3. ran'[c] = ran[c]
    BY <1>8, <2>2
  <2>4. RanOf(c)
    BY <1>7, <1>10, <2>1, <2>3 DEF RanOf
  <2>5. \A d \in Callers : RanOf(d)
    BY <1>12, <2>4
  <2> QED BY <2>5 DEF RanInv, RanOf, Covers
<1>14. CASE t.n = call[c].n
  <2>1. t \in Submitted(c) /\ call[c].outcome # "serial"
    <3>1. t \in Known
      BY <1>6 DEF Known
    <3> QED BY <1>4, <1>6, <1>14, <3>1 DEF TaskInv, BelongInv
  <2>2. ASSUME NEW i \in Indexes
        PROVE  /\ \A u \in Submitted(c)' : Covers(u, i) =>
                    /\ u \in ready' => ran'[c][i] = 1
                    /\ u \notin ready' \cup failed' => ran'[c][i] = 0
               /\ (\A u \in Submitted(c)' : ~ Covers(u, i)) => ran'[c][i] = 0
    <3>1. /\ \A u \in Submitted(c) : Covers(u, i) =>
               /\ u \in ready => ran[c][i] = 1
               /\ u \notin ready \cup failed => ran[c][i] = 0
          /\ (\A u \in Submitted(c) : ~ Covers(u, i)) => ran[c][i] = 0
      BY <2>1 DEF RanInv
    <3>2. i \in Nat /\ ran[c][i] \in Nat
      BY <1>8, IndexesIs
    <3>3. ~ Covers(t, i) => ran'[c][i] = ran[c][i]
      BY <1>5, <1>8, <1>9, <1>11, <3>2 DEF Covers
    <3>4. Covers(t, i) /\ t \notin failed' => ran'[c][i] = 1
      <4> SUFFICES ASSUME Covers(t, i), t \notin failed' PROVE ran'[c][i] = 1
        OBVIOUS
      <4>1. ran[c][i] = 0
        BY <1>6, <2>1, <3>1
      <4>2. g[i] = ran[c][i] + 1
        BY <1>5, <1>11, <1>14 DEF Covers
      <4> QED BY <1>8, <4>1, <4>2
    <3>5. ASSUME NEW u \in Submitted(c), Covers(u, i)
          PROVE  /\ u \in ready' => ran'[c][i] = 1
                 /\ u \notin ready' \cup failed' => ran'[c][i] = 0
      <4>1. CASE u = t
        <5>1. t \in ready' \cup failed' /\ (t \in ready' => t \notin failed')
          BY <1>6, <1>10
        <5> QED BY <3>4, <3>5, <4>1, <5>1
      <4>2. CASE u # t
        <5>1. ~ Covers(t, i)
          BY <1>0, <2>1, <3>5, <4>2, Disjoint
        <5>2. (u \in ready' <=> u \in ready) /\ (u \in failed' <=> u \in failed)
          BY <1>10, <4>2
        <5> QED BY <3>1, <3>3, <3>5, <5>1, <5>2
      <4> QED BY <4>1, <4>2
    <3>6. (\A u \in Submitted(c) : ~ Covers(u, i)) => ran'[c][i] = 0
      BY <2>1, <3>1, <3>3
    <3> QED BY <1>7, <3>5, <3>6
  <2>3. call'[c].outcome # "serial"
    BY <1>7, <2>1
  <2> QED BY <1>12, <2>2, <2>3, RanChanges
<1> QED BY <1>13, <1>14

LEMMA BeginRan ==
  ASSUME TypeInv, RanInv, NEW c \in Callers, NEW mode \in Modes, NEW count \in Counts,
         RunSerially(c, mode, count) \/ BeginTasks(c, mode, count)
  PROVE  RanInv'
<1>0. /\ CallTypes /\ UNCHANGED <<ready, failed>>
      /\ ran \in [Callers -> [Indexes -> Nat]] /\ call \in [Callers -> Call]
  BY DEF TypeInv, CallTypes, RunSerially, BeginTasks
<1>1. PICK outcome \in {"serial", "pending"} :
        /\ Begin(c, mode, count, outcome) /\ (outcome = "serial" \/ ~ RunsSerially(mode, count))
        /\ ran' = [ran EXCEPT ![c] = [i \in Indexes |->
                     IF outcome = "serial" /\ i < count THEN 1 ELSE 0]]
  <2>1. CASE RunSerially(c, mode, count)
    BY <2>1 DEF RunSerially
  <2>2. CASE BeginTasks(c, mode, count)
    BY <2>2 DEF BeginTasks
  <2> QED BY <2>1, <2>2
<1>2. PICK k \in Call : /\ call' = [call EXCEPT ![c] = k] /\ k.count = count
                        /\ k.next = 0 /\ k.outcome = outcome
  BY <1>0, <1>1, BeginIs
<1>3. call'[c] = k /\ \A d \in Callers : d # c => call'[d] = call[d] /\ ran'[d] = ran[d]
  BY <1>0, <1>1, <1>2
<1>4. \A i \in Indexes : ran'[c][i] = IF outcome = "serial" /\ i < count THEN 1 ELSE 0
  BY <1>0, <1>1
<1>5. \A d \in Callers : d # c => RanOf(d)
  BY <1>0, <1>3, SubmittedSame DEF RanOf
<1>6. Submitted(c)' = {}
  BY <1>2, <1>3, NothingSubmitted
<1>7. CASE outcome = "serial"
  BY <1>2, <1>3, <1>4, <1>5, <1>7, RanChanges
<1>8. CASE outcome = "pending"
  BY <1>2, <1>3, <1>4, <1>5, <1>6, <1>8, RanChanges
<1> QED BY <1>7, <1>8

LEMMA JoinRan ==
  ASSUME TypeInv, RanInv, NEW c \in Callers, JoinAll(c) \/ JoinThrows(c)
  PROVE  RanInv'
<1>0. CallTypes /\ UNCHANGED <<ran, ready, failed>> /\ call \in [Callers -> Call]
  BY DEF TypeInv, CallTypes, JoinAll, JoinThrows, Return
<1>1. PICK outcome \in {"done", "threw"} : Return(c, outcome) /\ cpc[c] = "joining"
  BY DEF JoinAll, JoinThrows
<1>2. PICK k \in Call : /\ call' = [call EXCEPT ![c] = k]
                        /\ k.n = call[c].n /\ k.count = call[c].count /\ k.chunk = call[c].chunk
                        /\ k.next = call[c].next /\ k.outcome = outcome
  BY <1>0, <1>1, ReturnIs
<1>3. call'[c] = k /\ \A d \in Callers : d # c => call'[d] = call[d]
  BY <1>0, <1>2
<1>4. call[c].outcome = "pending"
  BY <1>0, <1>1, CallOf DEF Consistent
<1>5. \A d \in Callers : Submitted(d)' = Submitted(d)
  BY <1>2, <1>3, SubmittedSame
<1>6. \A d \in Callers : d # c => RanOf(d)
  BY <1>0, <1>3, <1>5 DEF RanOf
<1>7. call[c].outcome # "serial" /\ call'[c].outcome # "serial"
  BY <1>2, <1>3, <1>4
<1>8. \A i \in Indexes :
        /\ \A t \in Submitted(c)' : Covers(t, i) =>
             /\ t \in ready' => ran'[c][i] = 1
             /\ t \notin ready' \cup failed' => ran'[c][i] = 0
        /\ (\A t \in Submitted(c)' : ~ Covers(t, i)) => ran'[c][i] = 0
  BY <1>0, <1>5, <1>7 DEF RanInv
<1> QED BY <1>6, <1>7, <1>8, RanChanges

LEMMA RanNext == ASSUME TypeInv, TaskInv, RanInv, [Next]_vars PROVE RanInv'
<1>1. ASSUME NEW S \in SUBSET Workers, Resize(S) PROVE RanInv'
  BY <1>1, RanSame DEF Resize
<1>2. ASSUME NEW c \in Callers, Notify(c) PROVE RanInv'
  BY <1>2, RanSame DEF Notify
<1>3. ASSUME NEW w \in Workers, Wait(w) \/ SpuriousWake(w) \/ Take(w) \/ Exit(w) PROVE RanInv'
  BY <1>3, RanSame DEF Wait, SpuriousWake, Take, Exit
<1>4. CASE StopFlag \/ StopNotify \/ StopJoin \/ UNCHANGED vars
  BY <1>4, RanSame DEF StopFlag, StopNotify, StopJoin, vars
<1>5. CASE \E c \in Callers, mode \in Modes, count \in Counts :
             RunSerially(c, mode, count) \/ BeginTasks(c, mode, count)
  BY <1>5, BeginRan
<1>6. CASE \E c \in Callers : Submit(c) \/ Notify(c) \/ JoinAll(c) \/ JoinThrows(c)
  BY <1>2, <1>6, SubmitRan, JoinRan
<1>7. CASE \E w \in Workers : Wait(w) \/ SpuriousWake(w) \/ Take(w) \/ Execute(w) \/ ExecuteThrows(w) \/ Exit(w)
  BY <1>3, <1>7, ExecuteRan
<1> QED BY <1>1, <1>4, <1>5, <1>6, <1>7 DEF Next

LEMMA ReturnFollows == ASSUME TypeInv, TaskInv, RanInv PROVE ReturnMeansDone
<1>0. PoolTypes /\ CallTypes
  BY DEF TypeInv
<1>1. TypeOK
  BY <1>0 DEF TypeOK, PoolTypes, CallTypes
<1>2. NoTaskOutlivesReturn
  <2> SUFFICES ASSUME NEW t \in Remaining, t.n = call[t.caller].n
               PROVE  cpc[t.caller] # "idle" \/ call[t.caller].outcome = "threw"
    BY DEF NoTaskOutlivesReturn
  <2>1. t.caller \in Callers
    BY <1>0, RemainingIs DEF Task
  <2>2. call[t.caller].outcome \in {"pending", "threw"}
    BY DEF TaskInv, BelongInv
  <2> QED BY <1>0, <2>1, <2>2, CallOf DEF Consistent
<1>3. ASSUME NEW c \in Callers, call[c].outcome = "done", NEW i \in Indexes
      PROVE  ran[c][i] = IF i < call[c].count THEN 1 ELSE 0
  <2>1. call[c].next >= call[c].count /\ Submitted(c) \subseteq ready
    BY <1>0, <1>3, CallOf DEF Consistent, TaskInv, BelongInv
  <2>2. /\ \A t \in Submitted(c) : Covers(t, i) /\ t \in ready => ran[c][i] = 1
        /\ (\A t \in Submitted(c) : ~ Covers(t, i)) => ran[c][i] = 0
    BY <1>3 DEF RanInv
  <2>3. CASE i < call[c].count
    BY <1>0, <2>1, <2>2, <2>3, NoGap
  <2>4. CASE ~ i < call[c].count
    <3>1. i >= call[c].count
      BY <1>0, <2>4, CallOf, Sizes, IndexesIs
    <3> QED BY <1>0, <2>2, <2>4, <3>1, Beyond
  <2> QED BY <2>3, <2>4
<1>4. \A c \in Callers : call[c].outcome = "serial" =>
        \A i \in Indexes : ran[c][i] = IF i < call[c].count THEN 1 ELSE 0
  BY DEF RanInv
<1> QED BY <1>1, <1>2, <1>3, <1>4 DEF ReturnMeansDone

\* When a call of parallel_for() or trace_rays() returns normally, each index of
\* its range has been processed exactly once and none of its tasks is left,
\* however the range is cut, in whatever order the tasks end or throw.
THEOREM ReturnedIsDone == Spec => []ReturnMeansDone
<1>1. Init => TaskInv /\ RanInv
  BY TaskInit, RanInit
<1>2. TypeInv /\ TaskInv /\ RanInv /\ [Next]_vars => TaskInv' /\ RanInv'
  BY TaskNext, RanNext
<1>3. TypeInv /\ TaskInv /\ RanInv => ReturnMeansDone
  BY ReturnFollows
<1> QED BY <1>1, <1>2, <1>3, TypeInvariance, PTL DEF Spec

-----------------------------------------------------------------------------
(* What RangeWork promises.                                                *)

\* Every chunk begins within the range, and a task that threw has left its last
\* index undone.
ThrowInv ==
  /\ \A c \in Callers : \A t \in Submitted(c) : t.from < call[c].count
  /\ \A c \in Callers : \A t \in Submitted(c) : t \in failed => CanThrow /\ ran[c][t.to - 1] = 0

\* The last index of a chunk.
LEMMA LastIs ==
  ASSUME CallTypes, ThrowInv, NEW c \in Callers, NEW t \in Submitted(c)
  PROVE  t.to - 1 \in Indexes /\ Covers(t, t.to - 1) /\ t.to - 1 < call[c].count
<1>1. /\ call[c].chunk \in Nat \ {0} /\ call[c].count \in 0 .. MaxCount /\ MaxCount \in Nat
      /\ t.from \in Nat /\ t.to = Min2(t.from + call[c].chunk, call[c].count)
  BY CallOf, SubmittedIs, Sizes
<1>2. t.from < call[c].count
  BY DEF ThrowInv
<1>3. t.to \in Nat /\ t.from < t.to /\ t.to <= call[c].count
  BY <1>1, <1>2 DEF Min2
<1>4. t.to - 1 \in Indexes
  BY <1>1, <1>3 DEF Indexes
<1> QED BY <1>1, <1>3, <1>4 DEF Covers

\* How a task ends, what it leaves processed and which set it joins.
Ends(t, c, upto, g) ==
  /\ t \in Remaining /\ c = t.caller /\ t \notin ready \cup failed
  /\ UNCHANGED call /\ ran' = [ran EXCEPT ![c] = g]
  /\ \A i \in Indexes : g[i] = IF t.n = call[c].n /\ t.from <= i /\ i < upto
                               THEN ran[c][i] + 1 ELSE ran[c][i]
  /\ \/ upto = t.to /\ ready' = ready \cup {t} /\ failed' = failed
     \/ /\ upto <= t.to - 1 /\ CanThrow
        /\ failed' = failed \cup {t} /\ ready' = ready

LEMMA EndIs ==
  ASSUME TypeInv, TaskInv, NEW w \in Workers, Execute(w) \/ ExecuteThrows(w)
  PROVE  \E t \in Task, c \in Callers, upto \in Int, g \in [Indexes -> Nat] : Ends(t, c, upto, g)
<1>0. PoolTypes
  BY DEF TypeInv
<1>1. PICK t \in Task : t = job[w] /\ wpc[w] = "busy"
  BY <1>0 DEF PoolTypes, Execute, ExecuteThrows
<1>2. t.from \in Int /\ t.to \in Int
  <2>1. t.from \in Indexes /\ t.to \in 1 .. MaxCount
    BY DEF Task
  <2>2. t.to \in Int
    BY <2>1
  <2>3. t.from \in Nat
    BY <2>1, IndexesIs
  <2> QED BY <2>2, <2>3
<1>3. PICK upto \in Int :
        /\ Finish(w, upto)
        /\ \/ upto = t.to /\ ready' = ready \cup {t} /\ failed' = failed
           \/ /\ upto <= t.to - 1 /\ CanThrow
              /\ failed' = failed \cup {t} /\ ready' = ready
  <2>1. CASE Execute(w)
    BY <1>1, <1>2, <2>1 DEF Execute
  <2>2. CASE ExecuteThrows(w)
    <3>1. PICK upto \in t.from .. t.to - 1 : Finish(w, upto)
      BY <1>1, <2>2 DEF ExecuteThrows
    <3>2. upto \in Int /\ upto <= t.to - 1
      BY <1>2
    <3>3. CanThrow /\ failed' = failed \cup {t} /\ ready' = ready
      BY <1>1, <2>2 DEF ExecuteThrows
    <3> QED BY <3>1, <3>2, <3>3
  <2> QED BY <2>1, <2>2
<1>4. PICK c \in Callers : c = t.caller
  BY DEF Task
<1>5. PICK g \in [Indexes -> Nat] :
        /\ ran' = [ran EXCEPT ![c] = g]
        /\ \A i \in Indexes : g[i] = IF t.n = call[c].n /\ t.from <= i /\ i < upto
                                     THEN ran[c][i] + 1 ELSE ran[c][i]
  BY <1>1, <1>3, <1>4, FinishIs
<1>6. t \in Remaining /\ t \notin ready \cup failed
  <2>1. t # NoTask
    BY NoTaskIsNone
  <2>2. t \in Remaining
    BY <1>0, <1>1, <2>1, RemainingIs
  <2> QED BY <2>2 DEF TaskInv, DistinctInv
<1>7. UNCHANGED call
  BY <1>3 DEF Finish
<1>8. Ends(t, c, upto, g)
  BY <1>3, <1>4, <1>5, <1>6, <1>7 DEF Ends
<1> QED BY <1>8

LEMMA ThrowChanges ==
  ASSUME ThrowInv, NEW c \in Callers, \A d \in Callers : d # c => RanOf(d),
         \A t \in Submitted(c)' : t.from < call'[c].count,
         \A t \in Submitted(c)' : t \in failed' => CanThrow /\ ran'[c][t.to - 1] = 0
  PROVE  ThrowInv'
<1> SUFFICES ASSUME NEW d \in Callers, NEW t \in Submitted(d)'
             PROVE  /\ t.from < call'[d].count
                    /\ t \in failed' => CanThrow /\ ran'[d][t.to - 1] = 0
  BY DEF ThrowInv
<1>1. CASE d = c
  <2>1. t \in Submitted(c)'
    BY <1>1 DEF Submitted, TaskAt
  <2> QED BY <1>1, <2>1
<1>2. CASE d # c
  <2>1. RanOf(d)
    BY <1>2
  <2> QED BY <2>1 DEF ThrowInv, RanOf
<1> QED BY <1>1, <1>2

LEMMA ThrowSame ==
  ASSUME ThrowInv, UNCHANGED <<ran, failed>>, \A c \in Callers : Submitted(c)' = Submitted(c),
         \A c \in Callers : call'[c].count = call[c].count
  PROVE  ThrowInv'
BY DEF ThrowInv

LEMMA ExecuteThrow ==
  ASSUME TypeInv, TaskInv, RanInv, ThrowInv, NEW w \in Workers, Execute(w) \/ ExecuteThrows(w)
  PROVE  ThrowInv'
<1>0. CallTypes
  BY DEF TypeInv
<1>1. PICK t \in Task, c \in Callers, upto \in Int, g \in [Indexes -> Nat] :
        /\ t \in Remaining /\ c = t.caller /\ t \notin ready \cup failed
        /\ UNCHANGED call /\ ran' = [ran EXCEPT ![c] = g]
        /\ \A i \in Indexes : g[i] = IF t.n = call[c].n /\ t.from <= i /\ i < upto
                                     THEN ran[c][i] + 1 ELSE ran[c][i]
        /\ \/ upto = t.to /\ ready' = ready \cup {t} /\ failed' = failed
           \/ /\ upto <= t.to - 1 /\ CanThrow
              /\ failed' = failed \cup {t} /\ ready' = ready
  BY EndIs DEF Ends
<1>2. \A d \in Callers : Submitted(d)' = Submitted(d) /\ call'[d] = call[d]
  BY <1>1, SubmittedSame
<1>3. ran'[c] = g /\ (\A d \in Callers : d # c => ran'[d] = ran[d]) /\ ran[c] \in [Indexes -> Nat]
  BY <1>0, <1>1 DEF CallTypes
<1>4. \A d \in Callers : d # c => RanOf(d)
  <2> SUFFICES ASSUME NEW d \in Callers, d # c PROVE RanOf(d)
    OBVIOUS
  <2>1. t \notin Submitted(d)
    BY <1>0, <1>1, SubmittedIs
  <2> QED BY <1>1, <1>2, <1>3, <2>1 DEF RanOf
<1>5. ASSUME NEW u \in Submitted(c), u \in failed'
      PROVE  CanThrow /\ ran'[c][u.to - 1] = 0
  <2>1. PICK i \in Indexes : i = u.to - 1 /\ Covers(u, i)
    BY <1>0, LastIs
  <2>2. CASE u = t
    <3>1. upto <= t.to - 1 /\ CanThrow
      BY <1>1, <1>5, <2>2
    <3>2. t.to \in Int
      BY <1>1, Sizes DEF Task
    <3>3. ~ i < upto
      BY <2>1, <2>2, <3>1, <3>2, IndexesIs
    <3>4. ran'[c][i] = ran[c][i]
      BY <1>1, <1>3, <3>3
    <3>5. call[c].outcome # "serial"
      <4>1. call[c].next # 0
        BY <1>0, CallOf, SubmittedIs
      <4> QED BY <1>0, <4>1, CallOf DEF Consistent
    <3>6. ran[c][i] = 0
      BY <1>1, <2>1, <2>2, <3>5 DEF RanInv
    <3> QED BY <2>1, <3>1, <3>4, <3>6
  <2>3. CASE u # t
    <3>1. u \in failed
      BY <1>1, <1>5, <2>3
    <3>2. CanThrow /\ ran[c][i] = 0
      BY <2>1, <3>1 DEF ThrowInv
    <3>3. ran'[c][i] = ran[c][i]
      <4>1. CASE t.n # call[c].n
        BY <1>1, <1>3, <4>1
      <4>2. CASE t.n = call[c].n
        <5>1. t \in Submitted(c)
          BY <1>1, <4>2 DEF TaskInv, BelongInv, Known
        <5>2. ~ Covers(t, i)
          BY <1>0, <2>1, <2>3, <5>1, Disjoint
        <5>3. t.to \in Int /\ i \in Int
          BY <1>1, Sizes, IndexesIs DEF Task
        <5>4. ~ (t.from <= i /\ i < upto)
          BY <1>1, <5>2, <5>3 DEF Covers
        <5> QED BY <1>1, <1>3, <5>4
      <4> QED BY <4>1, <4>2
    <3> QED BY <2>1, <3>2, <3>3
  <2> QED BY <2>2, <2>3
<1>6. \A u \in Submitted(c) : u.from < call'[c].count
  BY <1>2 DEF ThrowInv
<1> QED BY <1>2, <1>4, <1>5, <1>6, ThrowChanges

LEMMA ThrowNext == ASSUME TypeInv, TaskInv, RanInv, ThrowInv, [Next]_vars PROVE ThrowInv'
<1>0. CallTypes
  BY DEF TypeInv
<1>1. ASSUME UNCHANGED <<call, ran, failed>> PROVE ThrowInv'
  <2>1. \A c \in Callers : Submitted(c)' = Submitted(c) /\ call'[c].count = call[c].count
    BY <1>1, SubmittedSame
  <2> QED BY <1>1, <2>1, ThrowSame
<1>2. ASSUME NEW S \in SUBSET Workers, Resize(S) PROVE ThrowInv'
  BY <1>1, <1>2 DEF Resize
<1>3. ASSUME NEW c \in Callers, NEW mode \in Modes, NEW count \in Counts,
             RunSerially(c, mode, count) \/ BeginTasks(c, mode, count)
      PROVE  ThrowInv'
  <2>1. PICK outcome \in {"serial", "pending"} :
          /\ Begin(c, mode, count, outcome) /\ (outcome = "serial" \/ ~ RunsSerially(mode, count))
          /\ \A d \in Callers : d # c => ran'[d] = ran[d]
          /\ UNCHANGED <<ready, failed>>
    BY <1>0, <1>3 DEF RunSerially, BeginTasks, CallTypes
  <2>2. PICK k \in Call : call' = [call EXCEPT ![c] = k] /\ k.next = 0
    BY <1>0, <2>1, BeginIs
  <2>3. call'[c] = k /\ \A d \in Callers : d # c => call'[d] = call[d]
    BY <1>0, <2>2 DEF CallTypes
  <2>4. \A d \in Callers : d # c => RanOf(d)
    BY <2>1, <2>3, SubmittedSame DEF RanOf
  <2>5. Submitted(c)' = {}
    BY <2>2, <2>3, NothingSubmitted
  <2> QED BY <2>4, <2>5, ThrowChanges
<1>4. ASSUME NEW c \in Callers, Submit(c) PROVE ThrowInv'
  <2> DEFINE t == TaskAt(c, call[c].next)
  <2>1. /\ Submitted(c)' = Submitted(c) \cup {t} /\ t \notin Submitted(c)
        /\ t.caller = c /\ t.n = call[c].n /\ t.from = call[c].next
        /\ call[c].next < call[c].count
        /\ \A d \in Callers : d # c => Submitted(d)' = Submitted(d)
        /\ \A d \in Callers : call'[d].outcome = call[d].outcome /\ call'[d].count = call[d].count
    BY <1>0, <1>4, OneSubmitted
  <2> HIDE DEF t
  <2>2. UNCHANGED <<ran, ready, failed>>
    BY <1>4 DEF Submit
  <2>3. t \notin failed
    BY <2>1 DEF TaskInv, BelongInv, Known
  <2>4. \A d \in Callers : d # c => RanOf(d)
    BY <2>1, <2>2 DEF RanOf
  <2>5. \A u \in Submitted(c)' : u.from < call'[c].count
    BY <2>1 DEF ThrowInv
  <2>6. \A u \in Submitted(c)' : u \in failed' => CanThrow /\ ran'[c][u.to - 1] = 0
    BY <2>1, <2>2, <2>3 DEF ThrowInv
  <2> QED BY <2>4, <2>5, <2>6, ThrowChanges
<1>5. ASSUME NEW c \in Callers, Notify(c) PROVE ThrowInv'
  BY <1>1, <1>5 DEF Notify
<1>6. ASSUME NEW c \in Callers, NEW outcome \in {"done", "threw"}, Return(c, outcome) PROVE ThrowInv'
  <2>1. PICK k \in Call : /\ call' = [call EXCEPT ![c] = k]
                          /\ k.n = call[c].n /\ k.count = call[c].count /\ k.chunk = call[c].chunk
                          /\ k.next = call[c].next
    BY <1>0, <1>6, ReturnIs
  <2>2. \A d \in Callers : /\ call'[d].n = call[d].n /\ call'[d].count = call[d].count
                           /\ call'[d].chunk = call[d].chunk /\ call'[d].next = call[d].next
    BY <1>0, <2>1 DEF CallTypes
  <2>3. \A d \in Callers : Submitted(d)' = Submitted(d)
    BY <2>2, SubmittedSame
  <2>4. UNCHANGED <<ran, failed>>
    BY <1>6 DEF Return
  <2> QED BY <2>2, <2>3, <2>4, ThrowSame
<1>7. ASSUME NEW w \in Workers, Wait(w) \/ SpuriousWake(w) \/ Take(w) \/ Exit(w) PROVE ThrowInv'
  BY <1>1, <1>7 DEF Wait, SpuriousWake, Take, Exit
<1>8. CASE StopFlag \/ StopNotify \/ StopJoin \/ UNCHANGED vars
  BY <1>1, <1>8 DEF StopFlag, StopNotify, StopJoin, vars
<1>9. CASE \E c \in Callers : Submit(c) \/ Notify(c) \/ JoinAll(c) \/ JoinThrows(c)
  BY <1>4, <1>5, <1>6, <1>9 DEF JoinAll, JoinThrows
<1>10. CASE \E w \in Workers : Wait(w) \/ SpuriousWake(w) \/ Take(w) \/ Execute(w) \/ ExecuteThrows(w) \/ Exit(w)
  BY <1>7, <1>10, ExecuteThrow
<1> QED BY <1>2, <1>3, <1>8, <1>9, <1>10 DEF Next

\* What RangeWork sees of the calls.
Size == [c \in Callers |-> call[c].count]
Shown(outcome) == IF outcome = "serial" THEN "done" ELSE outcome
Ended == [c \in Callers |-> Shown(call[c].outcome)]

LEMMA SeenChanges ==
  ASSUME CallTypes, NEW c \in Callers, NEW k \in Call, call' = [call EXCEPT ![c] = k]
  PROVE  Size' = [Size EXCEPT ![c] = k.count] /\ Ended' = [Ended EXCEPT ![c] = Shown(k.outcome)]
<1>1. call'[c] = k /\ \A d \in Callers : d # c => call'[d] = call[d]
  BY DEF CallTypes
<1>2. Size' = [Size EXCEPT ![c] = k.count]
  <2>1. Size' = [d \in Callers |-> IF d = c THEN k.count ELSE call[d].count]
    BY <1>1 DEF Size
  <2>2. [Size EXCEPT ![c] = k.count] = [d \in Callers |-> IF d = c THEN k.count ELSE call[d].count]
    BY DEF Size
  <2> QED BY <2>1, <2>2
<1>3. Ended' = [Ended EXCEPT ![c] = Shown(k.outcome)]
  <2>1. Ended' = [d \in Callers |-> IF d = c THEN Shown(k.outcome) ELSE Shown(call[d].outcome)]
    BY <1>1 DEF Ended, Shown
  <2>2. [Ended EXCEPT ![c] = Shown(k.outcome)]
          = [d \in Callers |-> IF d = c THEN Shown(k.outcome) ELSE Shown(call[d].outcome)]
    BY DEF Ended
  <2> QED BY <2>1, <2>2
<1> QED BY <1>2, <1>3

\* RangeWork's actions, in those terms.
LEMMA SeenCall ==
  ASSUME NEW c, NEW n, NEW result
  PROVE  W!Call(c, n, result) <=>
           /\ Ended[c] # "pending"
           /\ Size' = [Size EXCEPT ![c] = n] /\ Ended' = [Ended EXCEPT ![c] = result]
           /\ ran' = [ran EXCEPT ![c] = W!Once(IF result = "done" THEN W!Below(n) ELSE {})]
BY Zenon DEF W!Call, Size, Ended, Shown

LEMMA SeenProcess ==
  ASSUME NEW c, NEW S
  PROVE  W!Process(c, S) <=>
           /\ Ended[c] \in {"pending", "threw"}
           /\ \A i \in S : i < Size[c] /\ ran[c][i] = 0
           /\ ran' = [ran EXCEPT ![c] = [i \in Indexes |-> IF i \in S THEN 1 ELSE ran[c][i]]]
           /\ Size' = Size /\ Ended' = Ended
BY Zenon DEF W!Process, Size, Ended, Shown

LEMMA SeenReturn ==
  ASSUME NEW c, NEW result
  PROVE  W!Return(c, result) <=>
           /\ Ended[c] = "pending"
           /\ \/ result = "done" /\ ran[c] = W!Once(W!Below(Size[c]))
              \/ result = "threw" /\ CanThrow /\ \E i \in W!Below(Size[c]) : ran[c][i] = 0
           /\ Ended' = [Ended EXCEPT ![c] = result]
           /\ Size' = Size /\ ran' = ran
BY Zenon DEF W!Return, Size, Ended, Shown

LEMMA SeenSame == UNCHANGED W!vars <=> Size' = Size /\ Ended' = Ended /\ ran' = ran
BY Zenon DEF W!vars, Size, Ended, Shown

LEMMA SeenInit ==
  W!Init <=> /\ Size = [c \in Callers |-> 0] /\ Ended = [c \in Callers |-> "none"]
             /\ ran = [c \in Callers |-> W!Once({})]
BY Zenon DEF W!Init, Size, Ended, Shown

LEMMA OnceIs ==
  ASSUME NEW f, NEW S
  PROVE  (\A i \in Indexes : f[i] = IF i \in S THEN 1 ELSE 0) /\ f = [i \in Indexes |-> f[i]]
         => f = W!Once(S)
BY DEF W!Once

\* The steps of the callers that begin or end a call.
LEMMA BeginSeen ==
  ASSUME TypeInv, NEW c \in Callers, NEW mode \in Modes, NEW count \in Counts,
         RunSerially(c, mode, count) \/ BeginTasks(c, mode, count)
  PROVE  W!Next
<1>0. /\ CallTypes /\ ran \in [Callers -> [Indexes -> Nat]]
      /\ cpc[c] = "idle" /\ call[c].outcome # "pending"
  BY CallOf DEF TypeInv, CallTypes, Consistent, RunSerially, BeginTasks, Begin
<1>1. Ended[c] # "pending"
  BY <1>0 DEF Ended, Shown
<1>2. CASE RunSerially(c, mode, count)
  <2>1. PICK k \in Call : call' = [call EXCEPT ![c] = k] /\ k.count = count /\ k.outcome = "serial"
    BY <1>0, <1>2, BeginIs DEF RunSerially
  <2>2. Size' = [Size EXCEPT ![c] = count] /\ Ended' = [Ended EXCEPT ![c] = "done"]
    <3>1. Size' = [Size EXCEPT ![c] = k.count] /\ Ended' = [Ended EXCEPT ![c] = Shown(k.outcome)]
      BY <1>0, <2>1, SeenChanges
    <3>2. k.count = count /\ Shown(k.outcome) = "done"
      BY <2>1 DEF Shown
    <3> QED BY <3>1, <3>2
  <2>3. [i \in Indexes |-> IF i < count THEN 1 ELSE 0] = W!Once(W!Below(count))
    BY DEF W!Once, W!Below
  <2>4. ran' = [ran EXCEPT ![c] = W!Once(W!Below(count))]
    BY <1>2, <2>3 DEF RunSerially
  <2>5. W!Call(c, count, "done")
    BY <1>1, <2>2, <2>4, SeenCall
  <2> QED BY <2>5 DEF W!Next
<1>3. CASE BeginTasks(c, mode, count)
  <2>1. PICK k \in Call : call' = [call EXCEPT ![c] = k] /\ k.count = count /\ k.outcome = "pending"
    BY <1>0, <1>3, BeginIs DEF BeginTasks
  <2>2. Size' = [Size EXCEPT ![c] = count] /\ Ended' = [Ended EXCEPT ![c] = "pending"]
    <3>1. Size' = [Size EXCEPT ![c] = k.count] /\ Ended' = [Ended EXCEPT ![c] = Shown(k.outcome)]
      BY <1>0, <2>1, SeenChanges
    <3>2. k.count = count /\ Shown(k.outcome) = "pending"
      BY <2>1 DEF Shown
    <3> QED BY <3>1, <3>2
  <2>3. [i \in Indexes |-> 0] = W!Once({})
    BY DEF W!Once
  <2>4. ran' = [ran EXCEPT ![c] = W!Once({})]
    BY <1>3, <2>3 DEF BeginTasks
  <2>5. W!Call(c, count, "pending")
    BY <1>1, <2>2, <2>4, SeenCall
  <2> QED BY <2>5 DEF W!Next
<1> QED BY <1>2, <1>3

LEMMA JoinSeen ==
  ASSUME TypeInv, TaskInv, RanInv, ThrowInv, NEW c \in Callers, JoinAll(c) \/ JoinThrows(c)
  PROVE  W!Next
<1>0. /\ CallTypes /\ ran[c] \in [Indexes -> Nat] /\ UNCHANGED ran /\ Size[c] = call[c].count
      /\ call[c].outcome = "pending" /\ call[c].next >= call[c].count
  <2>1. cpc[c] = "joining" /\ CallTypes /\ UNCHANGED ran
    BY DEF TypeInv, JoinAll, JoinThrows, Return
  <2>2. ran[c] \in [Indexes -> Nat]
    BY <2>1 DEF CallTypes
  <2> QED BY <2>1, <2>2, CallOf DEF Consistent, Size
<1>1. Ended[c] = "pending"
  BY <1>0 DEF Ended, Shown
<1>2. ASSUME NEW outcome \in {"done", "threw"}, Return(c, outcome)
      PROVE  Ended' = [Ended EXCEPT ![c] = outcome] /\ Size' = Size
  <2>1. PICK k \in Call : call' = [call EXCEPT ![c] = k] /\ k.count = call[c].count /\ k.outcome = outcome
    BY <1>0, <1>2, ReturnIs
  <2>2. Size' = [Size EXCEPT ![c] = Size[c]] /\ Ended' = [Ended EXCEPT ![c] = outcome]
    <3>1. Size' = [Size EXCEPT ![c] = k.count] /\ Ended' = [Ended EXCEPT ![c] = Shown(k.outcome)]
      BY <1>0, <2>1, SeenChanges
    <3>2. k.count = Size[c] /\ Shown(k.outcome) = outcome
      BY <1>0, <2>1 DEF Shown
    <3> QED BY <3>1, <3>2
  <2>3. [Size EXCEPT ![c] = Size[c]] = Size
    BY DEF Size
  <2> QED BY <2>2, <2>3
<1>3. CASE JoinAll(c)
  <2>1. Submitted(c) \subseteq ready /\ Return(c, "done")
    BY <1>3 DEF JoinAll
  <2>2. ASSUME NEW i \in Indexes PROVE ran[c][i] = IF i \in W!Below(Size[c]) THEN 1 ELSE 0
    <3>1. /\ \A t \in Submitted(c) : Covers(t, i) => ran[c][i] = 1
          /\ (\A t \in Submitted(c) : ~ Covers(t, i)) => ran[c][i] = 0
      BY <1>0, <2>1 DEF RanInv
    <3>2. i \in W!Below(Size[c]) <=> i < call[c].count
      BY <1>0 DEF W!Below
    <3>3. CASE i < call[c].count
      <4>1. \E t \in Submitted(c) : Covers(t, i)
        BY <1>0, <3>3, NoGap
      <4> QED BY <3>1, <3>2, <3>3, <4>1
    <3>4. CASE ~ i < call[c].count
      <4>1. i \in Nat /\ call[c].count \in Nat
        BY <1>0, CallOf, Sizes, IndexesIs
      <4>2. \A t \in Submitted(c) : ~ Covers(t, i)
        BY <1>0, <3>4, <4>1, Beyond
      <4> QED BY <3>1, <3>2, <3>4, <4>2
    <3> QED BY <3>3, <3>4
  <2>3. ran[c] = W!Once(W!Below(Size[c]))
    BY <1>0, <2>2, OnceIs
  <2>4. W!Return(c, "done")
    BY <1>0, <1>1, <1>2, <2>1, <2>3, SeenReturn
  <2> QED BY <2>4 DEF W!Next
<1>4. CASE JoinThrows(c)
  <2>1. Return(c, "threw") /\ \E t \in Submitted(c) : t \in failed
    BY <1>4 DEF JoinThrows
  <2>2. PICK t \in Submitted(c) : t \in failed
    BY <2>1
  <2>3. PICK i \in Indexes : i = t.to - 1 /\ i < call[c].count
    BY <1>0, LastIs
  <2>4. CanThrow /\ ran[c][i] = 0
    BY <2>2, <2>3 DEF ThrowInv
  <2>5. i \in W!Below(Size[c])
    BY <1>0, <2>3 DEF W!Below
  <2>6. W!Return(c, "threw")
    BY <1>0, <1>1, <1>2, <2>1, <2>4, <2>5, SeenReturn
  <2> QED BY <2>6 DEF W!Next
<1> QED BY <1>3, <1>4

\* The end of a task: work on the latest call of its caller, or nothing.
LEMMA ExecuteSeen ==
  ASSUME TypeInv, TaskInv, RanInv, NEW w \in Workers, Execute(w) \/ ExecuteThrows(w)
  PROVE  W!Next \/ UNCHANGED W!vars
<1>0. CallTypes
  BY DEF TypeInv
<1>1. PICK t \in Task, c \in Callers, upto \in Int, g \in [Indexes -> Nat] :
        /\ t \in Remaining /\ c = t.caller /\ t \notin ready \cup failed
        /\ UNCHANGED call /\ ran' = [ran EXCEPT ![c] = g]
        /\ \A i \in Indexes : g[i] = IF t.n = call[c].n /\ t.from <= i /\ i < upto
                                     THEN ran[c][i] + 1 ELSE ran[c][i]
        /\ \/ upto = t.to /\ ready' = ready \cup {t} /\ failed' = failed
           \/ /\ upto <= t.to - 1 /\ CanThrow
              /\ failed' = failed \cup {t} /\ ready' = ready
  BY EndIs DEF Ends
<1>2. Size' = Size /\ Ended' = Ended
  BY <1>1 DEF Size, Ended
<1>3. ran \in [Callers -> [Indexes -> Nat]] /\ ran[c] \in [Indexes -> Nat]
  BY <1>0 DEF CallTypes
<1>4. CASE t.n # call[c].n
  <2>1. \A i \in Indexes : g[i] = ran[c][i]
    BY <1>1, <1>4
  <2>2. g = ran[c]
    BY <1>3, <2>1
  <2>3. ran' = ran
    BY <1>1, <1>3, <2>2
  <2> QED BY <1>2, <2>3, SeenSame
<1>5. CASE t.n = call[c].n
  <2>1. t \in Submitted(c) /\ call[c].outcome \in {"pending", "threw"}
    BY <1>1, <1>5 DEF TaskInv, BelongInv, Known
  <2>2. Ended[c] \in {"pending", "threw"}
    BY <2>1 DEF Ended, Shown
  <2> DEFINE S == {i \in Indexes : t.from <= i /\ i < upto}
  <2>3. ASSUME NEW i \in S PROVE i < Size[c] /\ ran[c][i] = 0
    <3>1. t.to \in Int /\ i \in Indexes /\ i \in Nat
      BY <1>1, IndexesIs DEF Task
    <3>2. Covers(t, i)
      BY <1>1, <3>1 DEF Covers
    <3>3. i < call[c].count
      <4>1. call[c].count \in Nat
        BY <1>0, CallOf, Sizes
      <4> QED BY <1>0, <2>1, <3>1, <3>2, <4>1, Beyond
    <3>4. ran[c][i] = 0
      BY <1>1, <2>1, <3>1, <3>2 DEF RanInv
    <3> QED BY <3>3, <3>4 DEF Size
  <2>4. \A i \in Indexes : g[i] = IF i \in S THEN 1 ELSE ran[c][i]
    BY <1>1, <1>5, <2>3
  <2> HIDE DEF S
  <2>5. g = [i \in Indexes |-> IF i \in S THEN 1 ELSE ran[c][i]]
    BY <2>4
  <2>6. ran' = [ran EXCEPT ![c] = [i \in Indexes |-> IF i \in S THEN 1 ELSE ran[c][i]]]
    BY <1>1, <2>5
  <2>7. W!Process(c, S)
    BY <1>2, <2>2, <2>3, <2>6, SeenProcess
  <2>8. S \in SUBSET Indexes
    BY DEF S
  <2> QED BY <2>7, <2>8 DEF W!Next
<1> QED BY <1>4, <1>5

LEMMA PoolRefines ==
  ASSUME TypeInv, TaskInv, RanInv, ThrowInv, [Next]_vars PROVE W!Next \/ UNCHANGED W!vars
<1>0. CallTypes
  BY DEF TypeInv
<1>1. ASSUME UNCHANGED <<call, ran>> PROVE UNCHANGED W!vars
  <2>1. Size' = Size /\ Ended' = Ended
    BY <1>1 DEF Size, Ended
  <2> QED BY <1>1, <2>1, SeenSame
<1>2. ASSUME NEW S \in SUBSET Workers, Resize(S) PROVE UNCHANGED W!vars
  BY <1>1, <1>2 DEF Resize
<1>3. ASSUME NEW c \in Callers, Submit(c) PROVE UNCHANGED W!vars
  <2>1. \A d \in Callers : call'[d].outcome = call[d].outcome /\ call'[d].count = call[d].count
    BY <1>0, <1>3, OneSubmitted
  <2>2. Size' = Size /\ Ended' = Ended
    BY <2>1 DEF Size, Ended
  <2>3. ran' = ran
    BY <1>3 DEF Submit
  <2> QED BY <2>2, <2>3, SeenSame
<1>4. ASSUME NEW c \in Callers, Notify(c) PROVE UNCHANGED W!vars
  BY <1>1, <1>4 DEF Notify
<1>5. ASSUME NEW w \in Workers, Wait(w) \/ SpuriousWake(w) \/ Take(w) \/ Exit(w)
      PROVE  UNCHANGED W!vars
  BY <1>1, <1>5 DEF Wait, SpuriousWake, Take, Exit
<1>6. ASSUME StopFlag \/ StopNotify \/ StopJoin \/ UNCHANGED vars PROVE UNCHANGED W!vars
  BY <1>1, <1>6 DEF StopFlag, StopNotify, StopJoin, vars
<1>7. CASE \E c \in Callers, mode \in Modes, count \in Counts :
             RunSerially(c, mode, count) \/ BeginTasks(c, mode, count)
  BY <1>7, BeginSeen
<1>8. CASE \E c \in Callers : Submit(c) \/ Notify(c) \/ JoinAll(c) \/ JoinThrows(c)
  BY <1>3, <1>4, <1>8, JoinSeen
<1>9. CASE \E w \in Workers : Wait(w) \/ SpuriousWake(w) \/ Take(w) \/ Execute(w) \/ ExecuteThrows(w) \/ Exit(w)
  BY <1>5, <1>9, ExecuteSeen
<1> QED BY <1>2, <1>6, <1>7, <1>8, <1>9 DEF Next

\* Whatever the pool's threads, chunks, exceptions and spurious wake-ups do,
\* its callers see RangeWork: no index is ever processed twice, also in a call
\* that throws and goes on behind its caller's back; a call that returns is done
\* with all of its range; one that throws has left something of it undone
\* (parallel_for() and trace_rays() on top of submit()).
THEOREM PoolKeepsRanges == Spec => RangesDone
<1>1. Init => TaskInv /\ RanInv /\ ThrowInv /\ W!Init
  <2> SUFFICES ASSUME Init PROVE ThrowInv /\ W!Init
    BY TaskInit, RanInit
  <2>1. \A c \in Callers : call[c].next = 0 /\ call[c].count = 0 /\ call[c].outcome = "none"
    BY DEF Init
  <2>2. ThrowInv
    BY <2>1 DEF ThrowInv, Submitted
  <2>3. Size = [c \in Callers |-> 0] /\ Ended = [c \in Callers |-> "none"]
    BY <2>1 DEF Size, Ended, Shown
  <2>4. ran = [c \in Callers |-> W!Once({})]
    BY DEF Init, W!Once
  <2> QED BY <2>2, <2>3, <2>4, SeenInit
<1>2. TypeInv /\ TaskInv /\ RanInv /\ ThrowInv /\ [Next]_vars => TaskInv' /\ RanInv' /\ ThrowInv'
  BY TaskNext, RanNext, ThrowNext
<1>3. TypeInv /\ TaskInv /\ RanInv /\ ThrowInv /\ [Next]_vars => [W!Next]_W!vars
  BY PoolRefines
<1> QED BY <1>1, <1>2, <1>3, TypeInvariance, PTL DEF Spec, RangesDone, W!Spec
=============================================================================
