------------------------- MODULE LearnerRun_proofs -------------------------
(* Proofs about LearnerRun, for every batch size, number of epochs, warmup  *)
(* and interval, and for any number of rollouts, crashes and restarts.      *)
EXTENDS LearnerRun, FiniteSetTheorems, SequenceTheorems, TLAPS

-----------------------------------------------------------------------------
(* The invariant.                                                          *)

PCs == {"down", "idle", "handling", "training", "saving", "writing", "saved"}
Files == [model : Nat, updates : Nat, whole : BOOLEAN]

Typing ==
  /\ pc \in PCs
  /\ version \in Nat /\ updates \in Nat /\ model \in Nat /\ made \in Nat
  /\ disk \in [Versions -> Files]
  /\ pushed \in SUBSET [version : Nat, model : Nat]

Due(u) == 1 + Cardinality({w \in 1 .. u : Emits(w)})

\* The running learner's version is at least that of every complete file, and
\* above all of them while its own file is being written.
VersionIsNewest ==
  /\ pc # "down" => version \in Versions /\ \A v \in Complete : v <= version
  /\ pc \in {"saving", "writing"} => \A v \in Complete : v < version
  /\ pc = "saved" => disk[version].whole /\ disk[version].model = model

\* Every complete file has the number of updates that its version stands for.
FilesCount ==
  /\ \A v \in Complete : v = Due(disk[v].updates)
  /\ pc # "down" => version = Due(updates)

Inv == Typing /\ VersionIsNewest /\ PushedIsSaved /\ FilesCount

-----------------------------------------------------------------------------
(* Emission numbers.                                                       *)

LEMMA ConstTypes ==
  /\ MaxVersion \in Nat \ {0} /\ BatchSize \in Nat \ {0} /\ Epochs \in Nat \ {0}
  /\ Interval \in Nat \ {0} /\ Warmup \in Nat
BY LearnerAssumption DEF LearnerAssumption

\* Before the first update no version but the first has been due.
LEMMA DueZero == Due(0) = 1
<1>1. {w \in 1 .. 0 : Emits(w)} = {}
  OBVIOUS
<1> QED BY <1>1, FS_EmptySet DEF Due

\* One more update makes one more version exactly when it emits.
LEMMA DueStep ==
  ASSUME NEW u \in Nat
  PROVE  Due(u + 1) = IF Emits(u + 1) THEN Due(u) + 1 ELSE Due(u)
<1> DEFINE S == {w \in 1 .. u : Emits(w)}
           T == {w \in 1 .. u + 1 : Emits(w)}
<1>1. IsFiniteSet(S)
  <2>1. IsFiniteSet(1 .. u)
    BY FS_Interval
  <2> QED BY <2>1, FS_Subset
<1>2. Cardinality(S) \in Nat
  BY <1>1, FS_CardinalityType
<1>3. CASE Emits(u + 1)
  <2>1. T = S \cup {u + 1}
    BY <1>3
  <2>2. (u + 1) \notin S
    OBVIOUS
  <2>3. Cardinality(T) = Cardinality(S) + 1
    BY <1>1, <2>1, <2>2, FS_AddElement
  <2> QED BY <1>2, <1>3, <2>3 DEF Due
<1>4. CASE ~ Emits(u + 1)
  <2>1. T = S
    BY <1>4
  <2> QED BY <1>4, <2>1 DEF Due
<1> QED BY <1>3, <1>4

LEMMA DueType == ASSUME NEW u \in Nat PROVE Due(u) \in Nat
<1>1. IsFiniteSet({w \in 1 .. u : Emits(w)})
  <2>1. IsFiniteSet(1 .. u)
    BY FS_Interval
  <2> QED BY <2>1, FS_Subset
<1> QED BY <1>1, FS_CardinalityType DEF Due
-----------------------------------------------------------------------------
(* The steps.                                                              *)

LEMMA InitInv == Init => Inv
<1> SUFFICES ASSUME Init PROVE Inv
  OBVIOUS
<1> USE DEF Init, None, Files
<1>1. Typing
  BY DEF Typing, PCs
<1>2. Complete = {}
  BY DEF Complete
<1> QED BY <1>1, <1>2 DEF Inv, VersionIsNewest, PushedIsSaved, FilesCount

\* Steps that leave the version, the files and the pushes alone.
LEMMA QuietStep ==
  ASSUME Inv, pc' \in PCs, pc # "down", pc' \notin {"saving", "writing", "saved"},
         UNCHANGED <<version, updates, model, made, disk, pushed>>
  PROVE  Inv'
BY DEF Inv, Typing, VersionIsNewest, PushedIsSaved, FilesCount, Complete

LEMMA SameStep ==
  ASSUME Inv, UNCHANGED <<pc, version, updates, model, made, disk, pushed>>
  PROVE  Inv'
BY DEF Inv, Typing, VersionIsNewest, PushedIsSaved, FilesCount, Complete

LEMMA PushAdds == ASSUME NEW p, Submit(p) PROVE pushed' = pushed \cup {p}
BY DEF Submit

LEMMA PushFields ==
  ASSUME NEW v, NEW m PROVE Push(v, m).version = v /\ Push(v, m).model = m
BY DEF Push

LEMMA PushType ==
  ASSUME NEW v \in Nat, NEW m \in Nat PROVE Push(v, m) \in [version : Nat, model : Nat]
BY DEF Push

LEMMA StartStep == ASSUME Inv, Start PROVE Inv'
<1>0. /\ pc' = "idle" /\ disk' = disk /\ pushed' = pushed \cup {Push(version', model')}
      /\ Complete' = Complete
  BY PushAdds DEF Start, Complete
<1>1. CASE Scratch
  <2>0. version' = 1 /\ model' \in Nat /\ made' \in Nat /\ updates' = 0
    BY <1>1 DEF Inv, Typing, Scratch
  <2>6. Push(version', model') \in [version : Nat, model : Nat]
    BY <2>0, PushType
  <2>1. Typing'
    BY <1>0, <2>0, <2>6 DEF Inv, Typing, PCs
  <2>2. VersionIsNewest'
    BY <1>0, <1>1, ConstTypes DEF VersionIsNewest, Scratch, Versions
  <2>3. PushedIsSaved'
    BY <1>0, <1>1, PushFields DEF Inv, PushedIsSaved, Scratch
  <2>4. FilesCount'
    BY <1>0, <1>1, DueZero DEF FilesCount, Scratch
  <2> QED BY <2>1, <2>2, <2>3, <2>4 DEF Inv
<1>2. CASE Resume
  <2>0. PICK v \in Versions : /\ Newest(v)
          /\ model' = disk[v].model /\ made' = made
          /\ version' = v /\ updates' = disk[v].updates
    BY <1>2 DEF Resume
  <2>1. v \in Complete /\ (\A w \in Complete : w <= v) /\ disk[v].whole /\ disk[v] \in Files
    BY <2>0 DEF Newest, Complete, Inv, Typing
  <2>2. Typing'
    <3>1. version' \in Nat /\ model' \in Nat /\ updates' \in Nat /\ made' \in Nat
      BY <2>0, <2>1, ConstTypes DEF Inv, Typing, Files, Versions
    <3>2. Push(version', model') \in [version : Nat, model : Nat]
      BY <3>1, PushType
    <3> QED BY <1>0, <3>1, <3>2 DEF Inv, Typing, PCs
  <2>3. VersionIsNewest'
    BY <1>0, <2>0, <2>1 DEF VersionIsNewest
  <2>4. PushedIsSaved'
    BY <1>0, <2>0, <2>1, PushFields DEF Inv, PushedIsSaved
  <2>5. FilesCount'
    <3>1. v = Due(disk[v].updates)
      BY <2>1 DEF Inv, FilesCount
    <3> QED BY <1>0, <2>0, <3>1 DEF Inv, FilesCount, Due
  <2> QED BY <2>2, <2>3, <2>4, <2>5 DEF Inv
<1> QED BY <1>1, <1>2 DEF Start

LEMMA CrashStep == ASSUME Inv, Crash PROVE Inv'
BY DEF Crash, Inv, Typing, PCs, VersionIsNewest, PushedIsSaved, FilesCount, Complete, Due

LEMMA UpdateStep == ASSUME Inv, Update PROVE Inv'
<1>0. /\ pc = "training" /\ model' = made + 1 /\ made' = made + 1 /\ updates' = updates + 1
      /\ disk' = disk /\ pushed' = pushed /\ Complete' = Complete
  BY DEF Update, serverVars, Complete
<1>1. /\ updates \in Nat /\ made \in Nat /\ version \in Versions /\ version = Due(updates)
      /\ \A v \in Complete : v <= version /\ v \in Nat
  BY <1>0 DEF Inv, Typing, VersionIsNewest, FilesCount, Complete, Versions
<1>2. PushedIsSaved'
  BY <1>0 DEF Inv, PushedIsSaved
<1>3. CASE Emits(updates')
  <2>1. version < MaxVersion /\ version' = version + 1 /\ pc' = "saving"
    BY <1>3 DEF Update
  <2>2. Typing'
    BY <1>0, <1>1, <2>1, ConstTypes DEF Inv, Typing, PCs, Versions
  <2>3. VersionIsNewest'
    BY <1>0, <1>1, <2>1, ConstTypes DEF VersionIsNewest, Versions
  <2>4. version' = Due(updates')
    BY <1>0, <1>1, <1>3, <2>1, DueStep
  <2>5. FilesCount'
    BY <1>0, <2>4 DEF Inv, FilesCount, Due
  <2> QED BY <1>2, <2>2, <2>3, <2>5 DEF Inv
<1>4. CASE ~ Emits(updates')
  <2>1. version' = version /\ pc' = pc
    BY <1>4 DEF Update
  <2>2. Typing'
    BY <1>0, <1>1, <2>1 DEF Inv, Typing
  <2>3. VersionIsNewest'
    BY <1>0, <1>1, <2>1 DEF VersionIsNewest
  <2>4. version' = Due(updates')
    BY <1>0, <1>1, <1>4, <2>1, DueStep
  <2>5. FilesCount'
    BY <1>0, <2>4 DEF Inv, FilesCount, Due
  <2> QED BY <1>2, <2>2, <2>3, <2>5 DEF Inv
<1> QED BY <1>3, <1>4

LEMMA BeginSaveStep == ASSUME Inv, BeginSave PROVE Inv'
<1>0. /\ pc = "saving" /\ pc' = "writing" /\ disk' = [disk EXCEPT ![version] = Torn]
      /\ UNCHANGED <<version, updates, model, made, pushed>>
  BY DEF BeginSave, serverVars
<1>1. /\ version \in Versions /\ (\A v \in Complete : v < version) /\ disk \in [Versions -> Files]
  BY <1>0 DEF Inv, Typing, VersionIsNewest
<1>2. Torn \in Files /\ ~ Torn.whole
  BY DEF Torn, None, Files
<1>3. Typing'
  BY <1>0, <1>1, <1>2 DEF Inv, Typing, PCs
<1>4. Complete \subseteq Nat /\ version \notin Complete
  BY <1>1, ConstTypes DEF Complete, Versions
<1>5. Complete' = Complete /\ \A v \in Complete : disk'[v] = disk[v]
  BY <1>0, <1>1, <1>2, <1>4 DEF Complete
<1>6. VersionIsNewest'
  BY <1>0, <1>1, <1>4, <1>5 DEF Inv, VersionIsNewest
<1>7. PushedIsSaved'
  <2> SUFFICES ASSUME NEW p \in pushed, p.version > 1
               PROVE  p.version \in Complete' /\ disk'[p.version].model = p.model
    BY <1>0 DEF PushedIsSaved
  <2>1. p.version \in Complete /\ disk[p.version].model = p.model
    BY DEF Inv, PushedIsSaved
  <2> QED BY <1>5, <2>1
<1>8. FilesCount'
  BY <1>0, <1>5 DEF Inv, FilesCount, Due
<1> QED BY <1>3, <1>6, <1>7, <1>8 DEF Inv

LEMMA EndSaveStep == ASSUME Inv, EndSave PROVE Inv'
<1> DEFINE f == [model |-> model, updates |-> updates, whole |-> TRUE]
<1>0. /\ pc = "writing" /\ pc' = "saved" /\ disk' = [disk EXCEPT ![version] = f]
      /\ UNCHANGED <<version, updates, model, made, pushed>>
  BY DEF EndSave, serverVars
<1>1. /\ version \in Versions /\ (\A v \in Complete : v < version) /\ disk \in [Versions -> Files]
      /\ version = Due(updates)
  BY <1>0 DEF Inv, Typing, VersionIsNewest, FilesCount
<1>2. f \in Files /\ f.whole /\ f.model = model /\ f.updates = updates
  BY DEF Inv, Typing, Files
<1> HIDE DEF f
<1>3. Typing'
  BY <1>0, <1>1, <1>2 DEF Inv, Typing, PCs
<1>4. Complete \subseteq Nat /\ version \notin Complete /\ version \in Nat
  BY <1>1, ConstTypes DEF Complete, Versions
<1>5. /\ Complete' = Complete \cup {version} /\ disk'[version] = f
      /\ \A v \in Complete : disk'[v] = disk[v]
  BY <1>0, <1>1, <1>2, <1>4 DEF Complete
<1>6. VersionIsNewest'
  BY <1>0, <1>1, <1>2, <1>4, <1>5 DEF VersionIsNewest
<1>7. PushedIsSaved'
  BY <1>0, <1>4, <1>5 DEF Inv, PushedIsSaved
<1>8. FilesCount'
  <2> SUFFICES ASSUME NEW v \in Complete' PROVE v = Due(disk'[v].updates)
    BY <1>0, <1>1 DEF FilesCount, Due
  <2> QED BY <1>1, <1>2, <1>5 DEF Inv, FilesCount
<1> QED BY <1>3, <1>6, <1>7, <1>8 DEF Inv

LEMMA BroadcastStep == ASSUME Inv, Broadcast PROVE Inv'
<1>0. /\ pc = "saved" /\ pc' = "training" /\ pushed' = pushed \cup {Push(version, model)}
      /\ UNCHANGED <<version, updates, model, made, disk>> /\ Complete' = Complete
  BY PushAdds DEF Broadcast, modelVars, Complete
<1>1. version \in Complete /\ disk[version].model = model
  BY <1>0 DEF Inv, VersionIsNewest, Complete
<1>2. PushedIsSaved'
  BY <1>0, <1>1, PushFields DEF Inv, PushedIsSaved
<1>3. VersionIsNewest' /\ FilesCount'
  BY <1>0 DEF Inv, VersionIsNewest, FilesCount, Due
<1>4. Typing'
  BY <1>0, PushType DEF Inv, Typing, PCs
<1> QED BY <1>2, <1>3, <1>4 DEF Inv

\* Every other step leaves the versions, the files and the pushes alone.
LEMMA NextInv == ASSUME Inv, [Next]_vars PROVE Inv'
<1>1. CASE Start
  BY <1>1, StartStep
<1>2. CASE Crash
  BY <1>2, CrashStep
<1>3. CASE Arrive
  BY <1>3, SameStep DEF Arrive, modelVars, serverVars
<1>4. CASE Loop
  <2>1. CASE Take
    BY <2>1, QuietStep DEF Take, modelVars, serverVars, PCs
  <2>2. CASE Skip
    BY <2>2, SameStep DEF Skip, modelVars, serverVars
  <2>3. CASE Accept
    <3>1. pc = "handling" /\ pc' \in {"handling", "training"}
      BY <2>3 DEF Accept
    <3>2. UNCHANGED <<version, updates, model, made, disk, pushed>>
      BY <2>3 DEF Accept, modelVars, serverVars
    <3> QED BY <3>1, <3>2, QuietStep DEF PCs
  <2>4. CASE BatchDone
    BY <2>4, QuietStep DEF BatchDone, modelVars, serverVars, PCs
  <2>5. CASE Update
    BY <2>5, UpdateStep
  <2>6. CASE EpochsDone
    BY <2>6, QuietStep DEF EpochsDone, modelVars, serverVars, PCs
  <2>7. CASE BeginSave
    BY <2>7, BeginSaveStep
  <2>8. CASE EndSave
    BY <2>8, EndSaveStep
  <2>9. CASE Broadcast
    BY <2>9, BroadcastStep
  <2> QED BY <1>4, <2>1, <2>2, <2>3, <2>4, <2>5, <2>6, <2>7, <2>8, <2>9 DEF Loop
<1>5. CASE Subscribe
  BY <1>5, SameStep DEF Subscribe, modelVars
<1>6. CASE Receive
  BY <1>6, SameStep DEF Receive, modelVars
<1>7. CASE UNCHANGED vars
  BY <1>7, SameStep DEF vars, modelVars, serverVars
<1> QED BY <1>1, <1>2, <1>3, <1>4, <1>5, <1>6, <1>7 DEF Next

-----------------------------------------------------------------------------
(* What the rollouts go through.                                           *)

BusyPCs == {"training", "saving", "writing", "saved"}

\* Sequences of rollouts, and batches that are not too long.
Rollouts ==
  /\ queue \in Seq(Seq(Nat)) /\ hand \in Seq(Nat)
  /\ accepted \in Seq(Nat) /\ trained \in Seq(Nat)
  /\ buffer \in Seq(Nat) /\ minibatch \in Seq(Nat)

Lengths ==
  /\ pc \in PCs /\ arrived \in Nat /\ epoch \in Nat /\ epoch <= Epochs
  /\ Len(queue) <= QueueMax /\ \A i \in 1 .. Len(queue) : Len(queue[i]) \in 1 .. MaxBatch
  /\ Len(hand) <= MaxBatch

\* Of the rollouts accepted so far n minibatches have been filled and t passes
\* have been made; during the training of the last one epoch of them are its.
Work(n, t) ==
  /\ Len(accepted) = n * BatchSize + Len(buffer) /\ Len(buffer) < BatchSize
  /\ \A j \in 1 .. Len(buffer) : buffer[j] = accepted[n * BatchSize + j]
  /\ Len(trained) = t * BatchSize /\ t <= n * Epochs
  /\ \A k \in 0 .. t - 1, j \in 1 .. BatchSize :
       trained[k * BatchSize + j] = accepted[(k \div Epochs) * BatchSize + j]
  /\ pc \notin BusyPCs => t = n * Epochs /\ Len(minibatch) = 0
  /\ pc \in BusyPCs =>
       /\ n > 0 /\ t = (n - 1) * Epochs + epoch /\ Len(minibatch) = BatchSize
       /\ \A j \in 1 .. BatchSize : minibatch[j] = accepted[(n - 1) * BatchSize + j]

WorkInv == Rollouts /\ Lengths /\ \E n, t \in Nat : Work(n, t)

\* The numbers of models, updates and versions, and what is pushed to the worker.
Pushes == [version : 0 .. MaxVersion, model : Nat]

Numbers ==
  /\ \A v \in Versions : disk[v].model <= made /\ disk[v].updates <= made
  /\ model <= made /\ updates <= made /\ version <= MaxVersion
  /\ latest \in Pushes
  /\ worker \in [link : BOOLEAN, inbox : Seq(Pushes), last : 0 .. MaxVersion, model : Nat]

-----------------------------------------------------------------------------
(* Whole batches and parts of them.                                        *)

\* No multiple of b other than 0 is below b.
LEMMA NoMiddle ==
  ASSUME NEW b \in Nat \ {0}, NEW d \in Int, NEW e \in Int,
         b * d + e = 0, e < b, - b < e
  PROVE  d = 0 /\ e = 0
<1>1. CASE d >= 1
  <2>1. b * d >= b
    BY <1>1
  <2> QED BY <1>1, <2>1
<1>2. CASE d <= -1
  <2>1. b * d <= - b
    BY <1>2
  <2> QED BY <1>2, <2>1
<1>3. CASE d = 0
  BY <1>3
<1> QED BY <1>1, <1>2, <1>3

\* A number of whole batches and a part of one is divided by their size.
LEMMA DivOf ==
  ASSUME NEW b \in Nat \ {0}, NEW n \in Nat, NEW r \in Nat, r < b
  PROVE  (n * b + r) \div b = n
<1> DEFINE a == n * b + r
           p == a \div b
           m == a % b
<1>1. n * b \in Nat /\ a \in Nat /\ n * b = b * n
  OBVIOUS
<1>2. p \in Int /\ m \in 0 .. b - 1 /\ a = b * p + m
  BY <1>1
<1>3. b * (p - n) + (m - r) = 0
  <2>1. b * p + m = b * n + r
    BY <1>1, <1>2
  <2> HIDE DEF p, m
  <2> QED BY <1>2, <2>1
<1>4. p - n = 0
  <2> HIDE DEF p, m
  <2> QED BY <1>2, <1>3, NoMiddle
<1> QED BY <1>2, <1>4

\* The batches before the n-th lie below it.
LEMMA BatchBelow ==
  ASSUME NEW b \in Nat, NEW n \in Nat, NEW a \in Nat, a < n
  PROVE  a * b \in Nat /\ n * b \in Nat /\ a * b + b <= n * b
<1>1. PICK d \in Nat : n = a + 1 + d
  <2>1. n - a - 1 \in Nat /\ n = a + 1 + (n - a - 1)
    OBVIOUS
  <2> QED BY <2>1
<1>2. d * b \in Nat /\ a * b \in Nat /\ n * b \in Nat
  OBVIOUS
<1>3. n * b = a * b + b + d * b
  BY <1>1
<1> QED BY <1>2, <1>3

LEMMA OneMore ==
  ASSUME NEW b \in Nat, NEW n \in Nat
  PROVE  n * b \in Nat /\ (n + 1) * b = n * b + b
OBVIOUS

\* A pass below n * e belongs to a batch below n.
LEMMA DivBelow ==
  ASSUME NEW e \in Nat \ {0}, NEW n \in Nat, NEW k \in Nat, k < n * e
  PROVE  k \div e \in Nat /\ k \div e < n
<1> DEFINE p == k \div e
           m == k % e
<1>1. p \in Int /\ m \in 0 .. e - 1 /\ k = e * p + m
  OBVIOUS
<1> HIDE DEF p, m
<1>2. p >= 0
  <2>1. CASE p <= -1
    <3>1. e * p <= - e
      BY <1>1, <2>1
    <3> QED BY <1>1, <3>1
  <2> QED BY <1>1, <2>1
<1>3. p < n
  <2>1. CASE p >= n
    <3>1. e * p >= e * n /\ e * n = n * e
      BY <1>1, <2>1
    <3> QED BY <1>1, <3>1
  <2> QED BY <1>1, <2>1
<1> QED BY <1>1, <1>2, <1>3 DEF p

-----------------------------------------------------------------------------
(* What a step does to the rollouts.                                       *)

LEMMA RolloutsInit == Init => WorkInv
<1> SUFFICES ASSUME Init PROVE WorkInv
  OBVIOUS
<1>1. <<>> \in Seq(Seq(Nat)) /\ <<>> \in Seq(Nat) /\ Len(<<>>) = 0
  OBVIOUS
<1>2. Rollouts
  BY <1>1 DEF Init, Rollouts
<1>3. Lengths
  BY ConstTypes, LearnerAssumption DEF Init, Lengths, PCs, LearnerAssumption
<1>4. 0 * BatchSize = 0 /\ 0 * Epochs = 0
  BY ConstTypes
<1>5. Work(0, 0)
  BY <1>1, <1>4, ConstTypes DEF Init, Work, BusyPCs
<1> QED BY <1>2, <1>3, <1>5 DEF WorkInv

\* Nothing is accepted and nothing is trained on.
LEMMA WorkKeeps ==
  ASSUME NEW n \in Nat, NEW t \in Nat, Work(n, t),
         UNCHANGED <<buffer, minibatch, accepted, trained, epoch>>,
         pc \in BusyPCs <=> pc' \in BusyPCs
  PROVE  Work(n, t)'
BY DEF Work

LEMMA TakeTypes ==
  ASSUME Rollouts, Lengths, Take
  PROVE  Rollouts' /\ Lengths'
<1>1. /\ queue \in Seq(Seq(Nat)) /\ queue # <<>> /\ hand' = Head(queue) /\ queue' = Tail(queue)
      /\ pc' = "handling"
      /\ UNCHANGED <<buffer, minibatch, epoch, accepted, trained, arrived>>
  BY DEF Rollouts, Take
<1>2. /\ Head(queue) \in Seq(Nat) /\ Tail(queue) \in Seq(Seq(Nat))
      /\ Head(queue) = queue[1] /\ Len(Tail(queue)) = Len(queue) - 1
      /\ \A i \in 1 .. Len(Tail(queue)) : Tail(queue)[i] = queue[i + 1]
      /\ Len(queue) \in Nat /\ Len(queue) # 0
  BY <1>1, HeadTailProperties, LenProperties, EmptySeq
<1>3. Rollouts'
  BY <1>1, <1>2 DEF Rollouts
<1>4. Lengths'
  <2>1. QueueMax \in Nat /\ MaxBatch \in Nat
    BY LearnerAssumption DEF LearnerAssumption
  <2>2. Len(queue) <= QueueMax /\ \A i \in 1 .. Len(queue) : Len(queue[i]) \in 1 .. MaxBatch
    BY DEF Lengths
  <2>3. 1 \in 1 .. Len(queue) /\ \A i \in 1 .. Len(queue) - 1 : i + 1 \in 1 .. Len(queue)
    BY <1>2
  <2>4. Len(Head(queue)) <= MaxBatch
    BY <1>2, <2>1, <2>2, <2>3
  <2>5. /\ Len(Tail(queue)) <= QueueMax
        /\ \A i \in 1 .. Len(Tail(queue)) : Len(Tail(queue)[i]) \in 1 .. MaxBatch
    BY <1>2, <2>1, <2>2, <2>3
  <2> QED BY <1>1, <2>4, <2>5 DEF Lengths, PCs
<1> QED BY <1>3, <1>4

LEMMA ArriveTypes ==
  ASSUME Rollouts, Lengths, Arrive
  PROVE  Rollouts' /\ Lengths'
<1>1. PICK n \in 1 .. MaxBatch :
        /\ arrived' = arrived + n
        /\ queue' = IF Len(queue) < QueueMax
                    THEN Append(queue, [i \in 1 .. n |-> arrived + i])
                    ELSE queue
  BY DEF Arrive
<1>2. UNCHANGED <<pc, hand, buffer, minibatch, epoch, accepted, trained>>
  BY DEF Arrive, loopVars
<1>3. /\ MaxBatch \in Nat /\ QueueMax \in Nat /\ n \in Nat /\ arrived \in Nat
      /\ queue \in Seq(Seq(Nat)) /\ Len(queue) \in Nat /\ Len(queue) <= QueueMax
      /\ \A i \in 1 .. Len(queue) : Len(queue[i]) \in 1 .. MaxBatch
  BY LearnerAssumption, LenProperties DEF LearnerAssumption, Rollouts, Lengths
<1> DEFINE b == [i \in 1 .. n |-> arrived + i]
<1>4. b \in Seq(Nat) /\ Len(b) \in 1 .. MaxBatch
  <2>1. b \in [1 .. n -> Nat]
    BY <1>3
  <2> QED BY <1>3, <2>1, IsASeq, LenProperties
<1> HIDE DEF b
<1>5. /\ Append(queue, b) \in Seq(Seq(Nat)) /\ Len(Append(queue, b)) = Len(queue) + 1
      /\ \A i \in 1 .. Len(queue) : Append(queue, b)[i] = queue[i]
      /\ Append(queue, b)[Len(queue) + 1] = b
  BY <1>3, <1>4, AppendProperties
<1>6. CASE Len(queue) < QueueMax
  <2>1. queue' = Append(queue, b)
    BY <1>1, <1>6 DEF b
  <2>2. Len(queue') <= QueueMax
    BY <1>3, <1>5, <1>6, <2>1
  <2>3. \A i \in 1 .. Len(queue') : Len(queue'[i]) \in 1 .. MaxBatch
    <3> TAKE i \in 1 .. Len(queue')
    <3>1. i \in 1 .. Len(queue) \/ i = Len(queue) + 1
      BY <1>3, <1>5, <2>1
    <3>2. CASE i \in 1 .. Len(queue)
      BY <1>3, <1>5, <2>1, <3>2
    <3>3. CASE i = Len(queue) + 1
      BY <1>4, <1>5, <2>1, <3>3
    <3> QED BY <3>1, <3>2, <3>3
  <2>4. arrived' \in Nat
    BY <1>1, <1>3
  <2> QED BY <1>2, <1>5, <2>1, <2>2, <2>3, <2>4 DEF Rollouts, Lengths
<1>7. CASE ~ Len(queue) < QueueMax
  <2>1. queue' = queue /\ arrived' \in Nat
    BY <1>1, <1>3, <1>7
  <2> QED BY <1>2, <2>1 DEF Rollouts, Lengths
<1> QED BY <1>6, <1>7

\* A rollout is put in the buffer, or the buffer becomes a minibatch.
LEMMA AcceptWork ==
  ASSUME Rollouts, Lengths, NEW n \in Nat, NEW t \in Nat, Work(n, t), Accept
  PROVE  Rollouts' /\ Lengths' /\ \E m \in Nat : Work(m, t)'
<1> DEFINE x == Head(hand)
           b == Append(buffer, x)
           N == n * BatchSize
<1>1. /\ hand \in Seq(Nat) /\ hand # <<>> /\ hand' = Tail(hand) /\ pc = "handling"
      /\ accepted' = Append(accepted, x)
      /\ UNCHANGED <<queue, trained, arrived>>
  BY DEF Rollouts, Accept
<1>2. x \in Nat /\ Tail(hand) \in Seq(Nat) /\ Len(Tail(hand)) = Len(hand) - 1 /\ Len(hand) \in Nat
  BY <1>1, HeadTailProperties, LenProperties
<1>3. /\ buffer \in Seq(Nat) /\ accepted \in Seq(Nat) /\ trained \in Seq(Nat)
      /\ queue \in Seq(Seq(Nat)) /\ minibatch \in Seq(Nat)
  BY DEF Rollouts
<1>4. /\ Len(buffer) \in Nat /\ Len(accepted) \in Nat /\ Len(buffer) < BatchSize
      /\ Len(accepted) = N + Len(buffer) /\ N \in Nat /\ N + BatchSize = (n + 1) * BatchSize
      /\ BatchSize \in Nat \ {0} /\ Epochs \in Nat \ {0}
  BY <1>3, ConstTypes, LenProperties, OneMore DEF Work
<1> HIDE DEF x
<1>5. /\ b \in Seq(Nat) /\ Len(b) = Len(buffer) + 1
      /\ \A j \in 1 .. Len(buffer) : b[j] = buffer[j]
      /\ b[Len(buffer) + 1] = x
      /\ accepted' \in Seq(Nat) /\ Len(accepted') = Len(accepted) + 1
      /\ \A j \in 1 .. Len(accepted) : accepted'[j] = accepted[j]
      /\ accepted'[Len(accepted) + 1] = x
  BY <1>1, <1>2, <1>3, AppendProperties
<1>14. Len(b) = Len(buffer) + 1 /\ Len(accepted') = Len(accepted) + 1 /\ trained' = trained
  BY <1>1, <1>5
<1>6. ~ Len(b) > BatchSize
  BY <1>4, <1>14
<1>7. IF Len(b) >= BatchSize
      THEN /\ minibatch' = SubSeq(b, 1, BatchSize)
           /\ buffer' = SubSeq(b, BatchSize + 1, Len(b))
           /\ epoch' = 0 /\ pc' = "training"
      ELSE buffer' = b /\ UNCHANGED <<pc, minibatch, epoch>>
  BY <1>6 DEF Accept, x
<1> HIDE DEF b
<1>8. Len(hand') <= MaxBatch
  BY <1>1, <1>2, LearnerAssumption DEF Lengths, LearnerAssumption
<1>9. \A j \in 1 .. Len(b) : b[j] = accepted'[N + j]
  <2> TAKE j \in 1 .. Len(b)
  <2>1. CASE j \in 1 .. Len(buffer)
    <3>1. buffer[j] = accepted[N + j]
      BY <2>1 DEF Work
    <3>2. N + j \in 1 .. Len(accepted)
      BY <1>4, <2>1
    <3> QED BY <1>5, <2>1, <3>1, <3>2
  <2>2. CASE j = Len(buffer) + 1
    <3>1. N + j = Len(accepted) + 1
      BY <1>4, <2>2
    <3> QED BY <1>5, <2>2, <3>1
  <2>3. j \in 1 .. Len(buffer) \/ j = Len(buffer) + 1
    BY <1>4, <1>5
  <2> QED BY <2>1, <2>2, <2>3
<1>10. /\ Len(trained) = t * BatchSize /\ t = n * Epochs /\ Len(minibatch) = 0
       /\ \A k \in 0 .. t - 1, j \in 1 .. BatchSize :
            trained[k * BatchSize + j] = accepted[(k \div Epochs) * BatchSize + j]
  BY <1>1 DEF Work, BusyPCs
<1>11. \A k \in 0 .. t - 1, j \in 1 .. BatchSize :
         trained'[k * BatchSize + j] = accepted'[(k \div Epochs) * BatchSize + j]
  <2> TAKE k \in 0 .. t - 1, j \in 1 .. BatchSize
  <2>1. k \in Nat /\ k < n * Epochs
    BY <1>10
  <2> DEFINE q == k \div Epochs
  <2>2. q \in Nat /\ q < n
    BY <1>4, <2>1, DivBelow
  <2> HIDE DEF q
  <2>3. q * BatchSize \in Nat /\ q * BatchSize + BatchSize <= N
    BY <1>4, <2>2, BatchBelow
  <2>4. q * BatchSize + j \in 1 .. Len(accepted)
    BY <1>4, <2>3
  <2>5. trained[k * BatchSize + j] = accepted[q * BatchSize + j]
    BY <1>10 DEF q
  <2> QED BY <1>1, <1>5, <2>4, <2>5 DEF q
<1>12. CASE Len(b) >= BatchSize
  <2>1. /\ minibatch' = SubSeq(b, 1, BatchSize) /\ buffer' = SubSeq(b, BatchSize + 1, Len(b))
        /\ epoch' = 0 /\ pc' = "training"
    BY <1>7, <1>12
  <2>2. Len(b) = BatchSize /\ 1 \in 1 .. Len(b) + 1 /\ BatchSize \in 1 - 1 .. Len(b)
    BY <1>4, <1>5, <1>12
  <2>3. SubSeq(b, 1, BatchSize) = b
    BY <1>5, <2>2, SubSeqFull
  <2>4. SubSeq(b, BatchSize + 1, Len(b)) = <<>>
    BY <1>4, <1>5, <2>2, SubSeqEmpty
  <2>5. <<>> \in Seq(Nat) /\ Len(<<>>) = 0
    OBVIOUS
  <2>6. Rollouts'
    BY <1>1, <1>2, <1>3, <1>5, <2>1, <2>3, <2>4, <2>5 DEF Rollouts
  <2>7. Lengths'
    BY <1>1, <1>4, <1>8, <2>1 DEF Lengths, PCs
  <2>8. minibatch' = b /\ Len(minibatch') = BatchSize /\ Len(buffer') = 0
    BY <2>1, <2>2, <2>3, <2>4, <2>5
  <2>13. Len(accepted') = (n + 1) * BatchSize + Len(buffer') /\ Len(buffer') < BatchSize
    BY <1>4, <1>14, <2>2, <2>8
  <2>14. \A j \in 1 .. Len(buffer') : buffer'[j] = accepted'[(n + 1) * BatchSize + j]
    BY <2>8
  <2>9. (n + 1) - 1 = n /\ n + 1 \in Nat /\ n + 1 > 0
    OBVIOUS
  <2>10. \A j \in 1 .. BatchSize : minibatch'[j] = accepted'[((n + 1) - 1) * BatchSize + j]
    BY <1>9, <2>2, <2>8, <2>9
  <2>11. t = ((n + 1) - 1) * Epochs + epoch' /\ t <= (n + 1) * Epochs
    <3>1. n * Epochs \in Nat /\ (n + 1) * Epochs = n * Epochs + Epochs
      BY <1>4, OneMore
    <3> QED BY <1>4, <1>10, <2>1, <2>9, <3>1
  <2>12. Work(n + 1, t)'
    BY <1>10, <1>11, <1>14, <2>1, <2>8, <2>9, <2>10, <2>11, <2>13, <2>14 DEF Work, BusyPCs
  <2> QED BY <2>6, <2>7, <2>9, <2>12
<1>13. CASE ~ Len(b) >= BatchSize
  <2>1. buffer' = b /\ UNCHANGED <<pc, minibatch, epoch>>
    BY <1>7, <1>13
  <2>2. Rollouts' /\ Lengths'
    BY <1>1, <1>2, <1>3, <1>5, <1>8, <2>1 DEF Rollouts, Lengths
  <2>3. Len(accepted') = N + Len(buffer') /\ Len(buffer') < BatchSize
    BY <1>4, <1>13, <1>14, <2>1
  <2>4. n * Epochs \in Nat
    BY <1>4, OneMore
  <2>5. Work(n, t)'
    BY <1>1, <1>4, <1>9, <1>10, <1>11, <2>1, <2>3, <2>4 DEF Work, BusyPCs
  <2> QED BY <2>2, <2>5
<1> QED BY <1>12, <1>13

\* One pass over the minibatch is put behind the passes made so far.
LEMMA UpdateWork ==
  ASSUME Rollouts, Lengths, NEW n \in Nat, NEW t \in Nat, Work(n, t), Update
  PROVE  Rollouts' /\ Lengths' /\ Work(n, t + 1)'
<1> DEFINE T == t * BatchSize
<1>1. /\ pc = "training" /\ pc' \in {"training", "saving"} /\ epoch < Epochs /\ epoch' = epoch + 1
      /\ trained' = trained \o minibatch
      /\ UNCHANGED <<queue, hand, buffer, minibatch, accepted, arrived>>
  BY DEF Update
<1>2. /\ trained \in Seq(Nat) /\ minibatch \in Seq(Nat) /\ Len(trained) \in Nat
      /\ BatchSize \in Nat \ {0} /\ Epochs \in Nat \ {0} /\ epoch \in Nat
  BY LenProperties, ConstTypes DEF Rollouts, Lengths
<1>3. /\ Len(trained) = T /\ Len(minibatch) = BatchSize
      /\ n > 0 /\ t = (n - 1) * Epochs + epoch
      /\ \A j \in 1 .. BatchSize : minibatch[j] = accepted[(n - 1) * BatchSize + j]
  BY <1>1 DEF Work, BusyPCs
<1>4. T \in Nat /\ (t + 1) * BatchSize = T + BatchSize
  BY <1>2, OneMore
<1>5. /\ trained' \in Seq(Nat) /\ Len(trained') = T + BatchSize
      /\ \A i \in 1 .. T + BatchSize :
           trained'[i] = IF i <= T THEN trained[i] ELSE minibatch[i - T]
  <2>1. /\ trained \o minibatch \in Seq(Nat)
        /\ Len(trained \o minibatch) = Len(trained) + Len(minibatch)
        /\ \A i \in 1 .. Len(trained) + Len(minibatch) : (trained \o minibatch)[i] =
             IF i <= Len(trained) THEN trained[i] ELSE minibatch[i - Len(trained)]
    BY <1>2, ConcatProperties
  <2>2. Len(trained) = T /\ Len(minibatch) = BatchSize
    BY <1>3
  <2> HIDE DEF T
  <2> QED BY <1>1, <2>1, <2>2
<1>6. Rollouts' /\ Lengths'
  <2>1. epoch' \in Nat /\ epoch' <= Epochs
    BY <1>1, <1>2
  <2> QED BY <1>1, <1>5, <2>1 DEF Rollouts, Lengths, PCs
<1>7. n - 1 \in Nat /\ (n - 1) + 1 = n
  BY <1>3
<1>8. t \div Epochs = n - 1
  BY <1>1, <1>2, <1>3, <1>7, DivOf
<1>9. t + 1 <= n * Epochs
  <2>1. (n - 1) * Epochs \in Nat /\ n * Epochs = (n - 1) * Epochs + Epochs
    BY <1>2, <1>7, OneMore
  <2> QED BY <1>1, <1>2, <1>3, <2>1
<1>10. Len(trained') = (t + 1) * BatchSize
  BY <1>4, <1>5
<1>11. \A k \in 0 .. (t + 1) - 1, j \in 1 .. BatchSize :
         trained'[k * BatchSize + j] = accepted'[(k \div Epochs) * BatchSize + j]
  <2> TAKE k \in 0 .. (t + 1) - 1, j \in 1 .. BatchSize
  <2>1. k \in Nat /\ (k < t \/ k = t)
    OBVIOUS
  <2>2. CASE k < t
    <3>1. k * BatchSize \in Nat /\ k * BatchSize + BatchSize <= T
      BY <1>2, <2>1, <2>2, BatchBelow
    <3> DEFINE i == k * BatchSize + j
    <3>2. i \in 1 .. T + BatchSize /\ i <= T
      <4>1. PICK b \in Nat : b = k * BatchSize
        BY <3>1
      <4>2. b + BatchSize <= T /\ i = b + j
        BY <3>1, <4>1
      <4>3. T \in Nat /\ BatchSize \in Nat /\ j \in 1 .. BatchSize
        BY <1>2, <1>4
      <4> HIDE DEF i
      <4> QED BY <4>2, <4>3
    <3>3. k \in 0 .. t - 1
      BY <2>1, <2>2
    <3>4. trained[i] = accepted[(k \div Epochs) * BatchSize + j]
      BY <3>3 DEF Work
    <3> HIDE DEF i
    <3>5. trained'[i] = trained[i]
      BY <1>5, <3>2
    <3> QED BY <1>1, <3>4, <3>5 DEF i
  <2>3. CASE k = t
    <3>1. T + j \in 1 .. T + BatchSize /\ ~ T + j <= T /\ (T + j) - T = j
      BY <1>2, <1>4
    <3>2. trained'[T + j] = minibatch[j]
      BY <1>5, <3>1
    <3>3. minibatch[j] = accepted[(n - 1) * BatchSize + j]
      BY <1>3
    <3> QED BY <1>1, <1>8, <2>3, <3>2, <3>3
  <2> QED BY <2>1, <2>2, <2>3
<1>12. t + 1 = (n - 1) * Epochs + epoch'
  <2>1. PICK b \in Nat : b = (n - 1) * Epochs
    BY <1>2, <1>7, OneMore
  <2>2. t = b + epoch /\ epoch' = epoch + 1 /\ epoch \in Nat
    BY <1>1, <1>2, <1>3, <2>1
  <2> QED BY <2>1, <2>2
<1>13. /\ Len(accepted) = n * BatchSize + Len(buffer) /\ Len(buffer) < BatchSize
       /\ \A j \in 1 .. Len(buffer) : buffer[j] = accepted[n * BatchSize + j]
  BY DEF Work
<1>14. Work(n, t + 1)'
  BY <1>1, <1>3, <1>9, <1>10, <1>11, <1>12, <1>13 DEF Work, BusyPCs
<1> QED BY <1>6, <1>14

\* The minibatch is done with after Epochs passes.
LEMMA EpochsDoneWork ==
  ASSUME Rollouts, Lengths, NEW n \in Nat, NEW t \in Nat, Work(n, t), EpochsDone
  PROVE  Rollouts' /\ Lengths' /\ Work(n, t)'
<1>1. /\ pc = "training" /\ pc' = "handling" /\ epoch = Epochs /\ minibatch' = <<>>
      /\ UNCHANGED <<queue, hand, buffer, epoch, accepted, trained, arrived>>
  BY DEF EpochsDone
<1>2. <<>> \in Seq(Nat) /\ Len(<<>>) = 0
  OBVIOUS
<1>3. Rollouts' /\ Lengths'
  BY <1>1, <1>2 DEF Rollouts, Lengths, PCs
<1>4. t = n * Epochs
  <2>1. n > 0 /\ t = (n - 1) * Epochs + Epochs
    BY <1>1 DEF Work, BusyPCs
  <2>2. n - 1 \in Nat /\ (n - 1) + 1 = n /\ Epochs \in Nat
    BY <2>1, ConstTypes
  <2>3. n * Epochs = (n - 1) * Epochs + Epochs
    BY <2>2, OneMore
  <2> QED BY <2>1, <2>3
<1>5. Work(n, t)'
  BY <1>1, <1>2, <1>4 DEF Work, BusyPCs
<1> QED BY <1>3, <1>5

LEMMA CrashWork == ASSUME WorkInv, Crash PROVE WorkInv'
<1>1. /\ pc' = "down" /\ queue' = <<>> /\ hand' = <<>> /\ buffer' = <<>> /\ minibatch' = <<>>
      /\ epoch' = 0 /\ accepted' = <<>> /\ trained' = <<>> /\ arrived' = arrived
  BY DEF Crash
<1>2. <<>> \in Seq(Seq(Nat)) /\ <<>> \in Seq(Nat) /\ Len(<<>>) = 0
  OBVIOUS
<1>3. Rollouts'
  BY <1>1, <1>2 DEF Rollouts
<1>4. Lengths'
  BY <1>1, <1>2, ConstTypes, LearnerAssumption DEF WorkInv, Lengths, PCs, LearnerAssumption
<1>5. 0 * BatchSize = 0 /\ 0 * Epochs = 0
  BY ConstTypes
<1>6. Work(0, 0)'
  BY <1>1, <1>2, <1>5, ConstTypes DEF Work, BusyPCs
<1> QED BY <1>3, <1>4, <1>6 DEF WorkInv

\* Steps that neither accept nor train, and stay on their side of the training.
LEMMA WorkQuiet ==
  ASSUME WorkInv, pc' \in PCs, pc \in BusyPCs <=> pc' \in BusyPCs,
         UNCHANGED <<queue, hand, loopVars, arrived>>
  PROVE  WorkInv'
<1>1. UNCHANGED <<buffer, minibatch, epoch, accepted, trained>>
  BY DEF loopVars
<1>2. PICK n \in Nat, t \in Nat : Work(n, t)
  BY DEF WorkInv
<1>3. Work(n, t)'
  BY <1>1, <1>2, WorkKeeps
<1>4. Rollouts' /\ Lengths'
  BY <1>1 DEF WorkInv, Rollouts, Lengths
<1> QED BY <1>3, <1>4 DEF WorkInv

LEMMA WorkStep == ASSUME WorkInv, [Next]_vars PROVE WorkInv'
<1>0. Rollouts /\ Lengths /\ pc \in PCs
  BY DEF WorkInv, Lengths
<1>1. PICK n \in Nat, t \in Nat : Work(n, t)
  BY DEF WorkInv
<1>2. CASE Crash
  BY <1>2, CrashWork
<1>3. CASE Arrive
  <2>1. UNCHANGED <<pc, buffer, minibatch, accepted, trained, epoch>>
    BY <1>3 DEF Arrive, loopVars
  <2>2. Work(n, t)'
    BY <1>1, <2>1, WorkKeeps
  <2> QED BY <1>0, <1>3, <2>2, ArriveTypes DEF WorkInv
<1>4. CASE Take
  <2>1. UNCHANGED <<buffer, minibatch, accepted, trained, epoch>> /\ pc = "idle" /\ pc' = "handling"
    BY <1>4 DEF Take
  <2>2. Work(n, t)'
    BY <1>1, <2>1, WorkKeeps DEF BusyPCs
  <2> QED BY <1>0, <1>4, <2>2, TakeTypes DEF WorkInv
<1>5. CASE Skip
  <2>1. /\ UNCHANGED <<pc, queue, buffer, minibatch, accepted, trained, epoch, arrived>>
        /\ hand # <<>> /\ hand' = Tail(hand) /\ hand \in Seq(Nat)
    BY <1>0, <1>5 DEF Skip, Rollouts
  <2>2. Work(n, t)'
    BY <1>1, <2>1, WorkKeeps
  <2>3. Tail(hand) \in Seq(Nat) /\ Len(Tail(hand)) = Len(hand) - 1 /\ Len(hand) \in Nat
    BY <2>1, HeadTailProperties, LenProperties
  <2>4. Rollouts'
    BY <1>0, <2>1, <2>3 DEF Rollouts
  <2>5. Len(hand') <= MaxBatch
    BY <1>0, <2>1, <2>3, LearnerAssumption DEF Lengths, LearnerAssumption
  <2>6. Lengths'
    BY <1>0, <2>1, <2>5 DEF Lengths
  <2> QED BY <2>2, <2>4, <2>6 DEF WorkInv
<1>6. CASE Accept
  BY <1>0, <1>1, <1>6, AcceptWork DEF WorkInv
<1>7. CASE Update
  <2>1. t + 1 \in Nat
    OBVIOUS
  <2> QED BY <1>0, <1>1, <1>7, <2>1, UpdateWork DEF WorkInv
<1>8. CASE EpochsDone
  BY <1>0, <1>1, <1>8, EpochsDoneWork DEF WorkInv
<1>9. CASE Start \/ Subscribe \/ Receive \/ BatchDone
  <2>1. UNCHANGED <<queue, hand, loopVars, arrived>>
    BY <1>9 DEF Start, Subscribe, Receive, BatchDone, loopVars
  <2>2. pc' \in PCs /\ (pc \in BusyPCs <=> pc' \in BusyPCs)
    BY <1>0, <1>9 DEF Start, Subscribe, Receive, BatchDone, PCs, BusyPCs
  <2> QED BY <2>1, <2>2, WorkQuiet
<1>10. CASE BeginSave \/ EndSave \/ Broadcast
  <2>1. UNCHANGED <<queue, hand, loopVars, arrived>>
    BY <1>10 DEF BeginSave, EndSave, Broadcast, loopVars
  <2>2. pc' \in PCs /\ pc \in BusyPCs /\ pc' \in BusyPCs
    BY <1>10 DEF BeginSave, EndSave, Broadcast, PCs, BusyPCs
  <2> QED BY <2>1, <2>2, WorkQuiet
<1>11. CASE UNCHANGED vars
  BY <1>0, <1>11, WorkQuiet DEF vars, loopVars
<1> QED
  BY <1>2, <1>3, <1>4, <1>5, <1>6, <1>7, <1>8, <1>9, <1>10, <1>11 DEF Next, Loop

-----------------------------------------------------------------------------
(* The numbers.                                                            *)

LEMMA PushInPushes ==
  ASSUME NEW v \in 0 .. MaxVersion, NEW m \in Nat PROVE Push(v, m) \in Pushes
BY DEF Push, Pushes

\* A push goes to the worker that listens, and nowhere else.
LEMMA SubmitNumbers ==
  ASSUME Numbers, NEW p \in Pushes, Submit(p)
  PROVE  latest' \in Pushes /\
         worker' \in [link : BOOLEAN, inbox : Seq(Pushes), last : 0 .. MaxVersion, model : Nat]
<1>1. worker \in [link : BOOLEAN, inbox : Seq(Pushes), last : 0 .. MaxVersion, model : Nat]
  BY DEF Numbers
<1>2. worker.inbox \in Seq(Pushes)
  BY <1>1
<1>3. Append(worker.inbox, p) \in Seq(Pushes)
  BY <1>2, AppendProperties
<1> QED BY <1>1, <1>3 DEF Submit

LEMMA NumbersInit == Init => Numbers
<1> SUFFICES ASSUME Init PROVE Numbers
  OBVIOUS
<1>1. MaxVersion \in Nat /\ 0 \in 0 .. MaxVersion
  BY ConstTypes
<1>2. latest \in Pushes
  BY <1>1, PushInPushes DEF Init
<1>3. <<>> \in Seq(Pushes)
  OBVIOUS
<1>4. worker \in [link : BOOLEAN, inbox : Seq(Pushes), last : 0 .. MaxVersion, model : Nat]
  BY <1>1, <1>3 DEF Init
<1>5. \A v \in Versions : disk[v].model <= made /\ disk[v].updates <= made
  BY DEF Init, None
<1> QED BY <1>1, <1>2, <1>4, <1>5 DEF Init, Numbers

LEMMA NumbersStep == ASSUME Inv, Inv', Numbers, [Next]_vars PROVE Numbers'
<1> DEFINE W == [link : BOOLEAN, inbox : Seq(Pushes), last : 0 .. MaxVersion, model : Nat]
<1>0. /\ made \in Nat /\ model \in Nat /\ updates \in Nat /\ version \in Nat
      /\ MaxVersion \in Nat /\ 0 \in 0 .. MaxVersion
      /\ \A v \in Versions : /\ disk[v].model \in Nat /\ disk[v].updates \in Nat
                             /\ disk[v].model <= made /\ disk[v].updates <= made
      /\ model <= made /\ updates <= made /\ version <= MaxVersion
      /\ latest \in Pushes /\ worker \in W
  BY ConstTypes DEF Inv, Typing, Numbers, Files
<1>1. /\ made' \in Nat /\ model' \in Nat /\ version' \in Nat
  BY DEF Inv, Typing
<1>2. CASE Start
  <2>1. disk' = disk /\ Submit(Push(version', model'))
    BY <1>2 DEF Start
  <2>2. /\ made' >= made /\ model' <= made' /\ updates' <= made' /\ version' <= MaxVersion
    <3>1. CASE Scratch
      BY <1>0, <3>1, ConstTypes DEF Scratch
    <3>2. CASE Resume
      <4>1. PICK v \in Versions : /\ model' = disk[v].model /\ made' = made
                                  /\ version' = v /\ updates' = disk[v].updates
        BY <3>2 DEF Resume
      <4> QED BY <1>0, <4>1 DEF Versions
    <3> QED BY <1>2, <3>1, <3>2 DEF Start
  <2>3. version' \in 0 .. MaxVersion
    BY <1>0, <1>1, <2>2
  <2>4. latest' \in Pushes /\ worker' \in W
    <3>1. PICK v \in 0 .. MaxVersion, m \in Nat : v = version' /\ m = model'
      BY <1>1, <2>3
    <3> QED BY <2>1, <3>1, PushInPushes, SubmitNumbers
  <2>5. \A v \in Versions : disk'[v].model <= made' /\ disk'[v].updates <= made'
    BY <1>0, <1>1, <2>1, <2>2
  <2> QED BY <2>2, <2>4, <2>5 DEF Numbers
<1>3. CASE Crash
  <2>1. model' = 0 /\ updates' = 0 /\ version' = 0 /\ UNCHANGED <<disk, made>> /\ latest' = Push(0, 0)
    BY <1>3 DEF Crash
  <2>2. latest' \in Pushes
    BY <1>0, <2>1, PushInPushes
  <2>3. <<>> \in Seq(Pushes)
    OBVIOUS
  <2>4. worker' \in W
    BY <1>0, <1>3, <2>3 DEF Crash
  <2> QED BY <1>0, <2>1, <2>2, <2>4 DEF Numbers
<1>4. CASE Update
  <2>1. /\ model' = made + 1 /\ made' = made + 1 /\ updates' = updates + 1
        /\ UNCHANGED <<disk, latest, worker>>
        /\ version' = version \/ (version < MaxVersion /\ version' = version + 1)
    BY <1>4 DEF Update, serverVars
  <2>2. model' <= made' /\ updates' <= made' /\ version' <= MaxVersion
    BY <1>0, <2>1
  <2>3. \A v \in Versions : disk'[v].model <= made' /\ disk'[v].updates <= made'
    BY <1>0, <2>1
  <2> QED BY <1>0, <2>1, <2>2, <2>3 DEF Numbers
<1>5. CASE BeginSave \/ EndSave
  <2>1. UNCHANGED <<made, model, updates, version, latest, worker>>
    BY <1>5 DEF BeginSave, EndSave, serverVars
  <2>2. PICK f : /\ disk' = [disk EXCEPT ![version] = f]
                 /\ f.model \in Nat /\ f.updates \in Nat /\ f.model <= made /\ f.updates <= made
    <3>1. CASE BeginSave
      <4>1. disk' = [disk EXCEPT ![version] = Torn]
        BY <3>1 DEF BeginSave
      <4>2. Torn.model = 0 /\ Torn.updates = 0
        BY DEF Torn, None
      <4>3. Torn.model <= made /\ Torn.updates <= made /\ Torn.model \in Nat /\ Torn.updates \in Nat
        BY <1>0, <4>2
      <4> QED BY <4>1, <4>3
    <3>2. CASE EndSave
      <4> DEFINE g == [model |-> model, updates |-> updates, whole |-> TRUE]
      <4>1. disk' = [disk EXCEPT ![version] = g]
        BY <3>2 DEF EndSave
      <4>2. g.model = model /\ g.updates = updates
        OBVIOUS
      <4> HIDE DEF g
      <4> QED BY <1>0, <4>1, <4>2
    <3> QED BY <1>5, <3>1, <3>2
  <2>3. disk \in [Versions -> Files]
    BY DEF Inv, Typing
  <2>4. \A v \in Versions : disk'[v].model <= made /\ disk'[v].updates <= made
    BY <1>0, <2>2, <2>3
  <2> QED BY <1>0, <2>1, <2>4 DEF Numbers
<1>6. CASE Broadcast
  <2>1. Submit(Push(version, model)) /\ UNCHANGED <<disk, made, model, updates, version>>
    BY <1>6 DEF Broadcast, modelVars
  <2>2. version \in 0 .. MaxVersion
    BY <1>0
  <2>3. latest' \in Pushes /\ worker' \in W
    BY <1>0, <2>1, <2>2, PushInPushes, SubmitNumbers
  <2> QED BY <1>0, <2>1, <2>3 DEF Numbers
<1>7. CASE Subscribe
  <2>1. UNCHANGED <<disk, made, model, updates, version, latest>>
    BY <1>7 DEF Subscribe, modelVars
  <2>2. <<>> \in Seq(Pushes) /\ <<latest>> \in Seq(Pushes)
    BY <1>0
  <2>3. worker' \in W
    BY <1>0, <1>7, <2>2 DEF Subscribe
  <2> QED BY <1>0, <2>1, <2>3 DEF Numbers
<1>8. CASE Receive
  <2>1. UNCHANGED <<disk, made, model, updates, version, latest>>
    BY <1>8 DEF Receive, modelVars
  <2>2. worker.inbox \in Seq(Pushes) /\ worker.inbox # <<>>
    BY <1>0, <1>8 DEF Receive
  <2>3. Head(worker.inbox) \in Pushes /\ Tail(worker.inbox) \in Seq(Pushes)
    BY <2>2, HeadTailProperties
  <2>4. Head(worker.inbox).version \in 0 .. MaxVersion /\ Head(worker.inbox).model \in Nat
    BY <2>3 DEF Pushes
  <2>5. worker' \in W
    BY <1>0, <1>8, <2>3, <2>4 DEF Receive
  <2> QED BY <1>0, <2>1, <2>5 DEF Numbers
<1>9. CASE \/ Arrive \/ Take \/ Skip \/ Accept \/ BatchDone \/ EpochsDone \/ UNCHANGED vars
  <2>1. UNCHANGED <<disk, made, model, updates, version, latest, worker>>
    BY <1>9 DEF Arrive, Take, Skip, Accept, BatchDone, EpochsDone, vars, modelVars, serverVars
  <2> QED BY <1>0, <2>1 DEF Numbers
<1> QED
  BY <1>2, <1>3, <1>4, <1>5, <1>6, <1>7, <1>8, <1>9 DEF Next, Loop

-----------------------------------------------------------------------------
(* The theorems.                                                           *)

LEMMA Invariance == Spec => []Inv
<1>1. Init => Inv
  BY InitInv
<1>2. Inv /\ [Next]_vars => Inv'
  BY NextInv
<1> QED BY <1>1, <1>2, PTL DEF Spec

\* Runner._emit_policy_checkpoint() saves before it submits, and a restart
\* takes the newest file that is whole: so one pushed version above the first
\* is one model, through any number of crashes.
THEOREM OneModelPerVersion == Spec => []VersionNamesModel
<1>1. Inv => VersionNamesModel
  <2> SUFFICES ASSUME Inv, NEW p \in pushed, NEW q \in pushed,
                      p.version = q.version, p.version > 1
               PROVE  p = q
    BY DEF VersionNamesModel
  <2>1. disk[p.version].model = p.model /\ disk[q.version].model = q.model
    BY DEF Inv, PushedIsSaved
  <2>2. p \in [version : Nat, model : Nat] /\ q \in [version : Nat, model : Nat]
    BY DEF Inv, Typing
  <2> QED BY <2>1, <2>2
<1> QED BY <1>1, Invariance, PTL

\* The version and the number of updates come back from the same file, so the
\* version stays the number of emissions that were due since the beginning.
THEOREM VersionsAreCounted == Spec => []VersionCountsEmissions
<1>1. Inv => VersionCountsEmissions
  BY DEF Inv, FilesCount, Due, VersionCountsEmissions
<1> QED BY <1>1, Invariance, PTL

\* What was pushed can be resumed from.
THEOREM PushesAreSaved == Spec => []PushedIsSaved
<1>1. Inv => PushedIsSaved
  BY DEF Inv
<1> QED BY <1>1, Invariance, PTL

\* Runner._handle_rollout() and _train_batch(): nothing accepted is dropped,
\* trained on twice or out of turn, however many epochs there are, and when a
\* batch of rollouts is over every full minibatch has had all its passes.
THEOREM TrainsOnceEach == Spec => []TrainedOnceEach
<1>1. Init => WorkInv /\ Numbers
  BY RolloutsInit, NumbersInit
<1>2. Inv /\ Inv' /\ WorkInv /\ Numbers /\ [Next]_vars => WorkInv' /\ Numbers'
  BY WorkStep, NumbersStep
<1>3. Inv /\ WorkInv /\ Numbers => TrainedOnceEach
  <2> SUFFICES ASSUME Inv, WorkInv, Numbers PROVE TrainedOnceEach
    OBVIOUS
  <2> DEFINE full == Len(accepted) \div BatchSize
             passes == Len(trained) \div BatchSize
             L == Len(buffer)
  <2>1. PICK n \in Nat, t \in Nat : Work(n, t)
    BY DEF WorkInv
  <2>2. /\ BatchSize \in Nat \ {0} /\ Epochs \in Nat \ {0}
        /\ accepted \in Seq(Nat) /\ buffer \in Seq(Nat) /\ trained \in Seq(Nat)
    BY ConstTypes DEF WorkInv, Rollouts
  <2>3. /\ L \in Nat /\ Len(accepted) = n * BatchSize + L /\ L < BatchSize
        /\ Len(trained) = t * BatchSize /\ t <= n * Epochs
    BY <2>1, <2>2, LenProperties DEF Work
  <2>4. full = n
    BY <2>2, <2>3, DivOf
  <2>5. passes = t
    <3>1. 0 \in Nat /\ 0 < BatchSize /\ (t * BatchSize + 0) \div BatchSize = t
      BY <2>2, DivOf
    <3>2. t * BatchSize \in Nat
      BY <2>2, OneMore
    <3> QED BY <2>3, <3>1, <3>2
  <2>6. TypeOK
    <3>1. /\ pc \in PCs /\ epoch \in Nat /\ epoch <= Epochs
          /\ Len(queue) <= QueueMax /\ \A i \in 1 .. Len(queue) : Len(queue[i]) \in 1 .. MaxBatch
          /\ Len(hand) <= MaxBatch
      BY DEF WorkInv, Lengths
    <3>2. queue \in Seq(Seq(Nat))
      BY DEF WorkInv, Rollouts
    <3>3. DOMAIN queue = 1 .. Len(queue)
      BY <3>2, LenProperties
    <3>4. Len(minibatch) \in {0, BatchSize} /\ (pc = "training" => Len(minibatch) # 0)
      BY <2>1, <2>2 DEF Work, BusyPCs
    <3>5. pc = "training" => minibatch # <<>>
      <4>1. Len(<<>>) = 0
        OBVIOUS
      <4> QED BY <3>4, <4>1
    <3>6. /\ made \in Nat /\ model \in 0 .. made /\ updates \in 0 .. made /\ version \in 0 .. MaxVersion
      BY ConstTypes DEF Inv, Typing, Numbers
    <3>7. worker.last \in 0 .. MaxVersion
      BY DEF Numbers
    <3>8. epoch \in 0 .. Epochs
      BY <2>2, <3>1
    <3> QED BY <2>3, <3>1, <3>3, <3>4, <3>5, <3>6, <3>7, <3>8 DEF TypeOK, PCs
  <2>7. buffer = SubSeq(accepted, n * BatchSize + 1, Len(accepted))
    <3> DEFINE N == n * BatchSize
               s == SubSeq(accepted, N + 1, Len(accepted))
    <3>1. N \in Nat /\ Len(accepted) \in Nat /\ Len(accepted) = N + L
      BY <2>2, <2>3, OneMore, LenProperties
    <3>2. \A i \in N + 1 .. Len(accepted) : i \in 1 .. Len(accepted)
      BY <3>1
    <3>3. \A i \in N + 1 .. Len(accepted) : accepted[i] \in Nat
      BY <2>2, <3>2, ElementOfSeq
    <3> HIDE DEF N
    <3>4. /\ s \in Seq(Nat)
          /\ Len(s) = IF N + 1 <= Len(accepted) THEN Len(accepted) - (N + 1) + 1 ELSE 0
          /\ \A i \in 1 .. Len(accepted) - (N + 1) + 1 : s[i] = accepted[(N + 1) + i - 1]
      BY <3>1, <3>3, SubSeqProperties
    <3> HIDE DEF s
    <3>5. Len(s) = L
      BY <2>3, <3>1, <3>4
    <3>6. \A i \in 1 .. L : s[i] = buffer[i]
      <4> TAKE i \in 1 .. L
      <4>1. i \in 1 .. Len(accepted) - (N + 1) + 1 /\ (N + 1) + i - 1 = N + i
        BY <2>3, <3>1
      <4>2. buffer[i] = accepted[N + i]
        BY <2>1 DEF Work, N
      <4> QED BY <3>4, <4>1, <4>2
    <3>7. s = buffer
      BY <2>2, <3>4, <3>5, <3>6, SeqEqual
    <3> QED BY <3>7 DEF s, N
  <2>8. /\ pc \in {"idle", "handling"} => t = n * Epochs
        /\ \A k \in 0 .. t - 1, j \in 1 .. BatchSize :
             trained[k * BatchSize + j] = accepted[(k \div Epochs) * BatchSize + j]
    BY <2>1 DEF Work, BusyPCs
  <2> QED BY <2>3, <2>4, <2>5, <2>6, <2>7, <2>8 DEF TrainedOnceEach
<1>4. Spec => [](WorkInv /\ Numbers)
  BY <1>1, <1>2, Invariance, PTL DEF Spec
<1> QED BY <1>3, <1>4, Invariance, PTL
=============================================================================
