----------------------- MODULE RolloutPipeline_proofs -----------------------
(* Proofs about RolloutPipeline, for any simulators and learners, and any   *)
(* sizes of queues and batches: where the publisher sends, and that the     *)
(* pipeline implements RolloutDelivery.                                     *)
EXTENDS RolloutPipeline, SequenceTheorems, TLAPS

-----------------------------------------------------------------------------
(* Types and connections.                                                  *)

LEMMA Sizes ==
  /\ MaxDepth \in Nat \ {0} /\ MaxBatch \in Nat \ {0}
  /\ LearnerDepth \in Nat \ {0} /\ Window \in Nat \ {0}
  /\ MaxRollouts \in Nat /\ MaxLinks \in Nat /\ MaxSwitches \in Nat
BY PipelineAssumption DEF PipelineAssumption

WorkerInv ==
  /\ made \in [Sims -> 0 .. MaxRollouts]
  /\ queue \in Seq(Rollouts) /\ Len(queue) <= MaxDepth
  /\ pub \in PubStates
  /\ batch \in Seq(Rollouts) /\ Len(batch) <= MaxBatch
  /\ batch # <<>> <=> pub \in {"publish", "write"}

\* The connection in use is the one opened last, and it alone is open.
ClientInv ==
  /\ target \in Learners \cup {NoTarget}
  /\ links \in Seq(Link)
  /\ link # NoLink => link = Len(links) /\ links[link].to = target
  /\ \A c \in 1 .. Len(links) :
       Len(links[c].wire) <= Window /\ (links[c].state = "open" => c = link)
  /\ pub = "write" => link # NoLink
  /\ link = NoLink \/ link \in 1 .. Len(links)

ControlInv ==
  /\ setter \in Learners \cup {NoTarget, Idle} /\ switches \in 0 .. MaxSwitches
  /\ stopping \in Stages

LearnerInv ==
  /\ ingest \in [Learners -> Seq(Seq(Rollouts))]
  /\ \A l \in Learners : Len(ingest[l]) <= LearnerDepth
  /\ used \in [Learners -> Seq(Rollouts)]

TypeInv == WorkerInv /\ ClientInv /\ ControlInv /\ LearnerInv

\* One connection is changed: the others are as they were.
LEMMA Replaced ==
  ASSUME links \in Seq(Link), NEW c \in 1 .. Len(links), NEW l \in Link,
         links' = [links EXCEPT ![c] = l]
  PROVE  /\ links' \in Seq(Link) /\ Len(links') = Len(links)
         /\ links'[c] = l
         /\ \A d \in 1 .. Len(links) : d # c => links'[d] = links[d]
         /\ DOMAIN links = 1 .. Len(links) /\ DOMAIN links' = DOMAIN links
BY ExceptSeq, LenProperties

\* Giving up a connection.
LEMMA ResetGives ==
  ASSUME ClientInv, Reset
  PROVE  /\ link' = NoLink /\ links' \in Seq(Link) /\ Len(links') = Len(links)
         /\ \A c \in 1 .. Len(links) :
              /\ links'[c].to = links[c].to /\ links'[c].wire = links[c].wire
              /\ links'[c].got = links[c].got /\ links'[c].state # "open"
         /\ DOMAIN links = 1 .. Len(links) /\ DOMAIN links' = DOMAIN links
<1>1. links \in Seq(Link) /\ DOMAIN links = 1 .. Len(links) /\ Len(links) \in Nat
  BY LenProperties DEF ClientInv
<1>2. CASE link = NoLink \/ links[link].state # "open"
  BY <1>1, <1>2 DEF Reset, ClientInv, NoLink
<1>3. CASE ~ (link = NoLink \/ links[link].state # "open")
  <2>1. link \in 1 .. Len(links) /\ links[link] \in Link
    BY <1>1, <1>3, ElementOfSeq DEF ClientInv
  <2> DEFINE l == [links[link] EXCEPT !.state = "closed"]
  <2>2. /\ l \in Link /\ l.to = links[link].to /\ l.wire = links[link].wire
        /\ l.got = links[link].got /\ l.state = "closed"
    BY <2>1 DEF Link
  <2>3. links' = [links EXCEPT ![link] = l] /\ link' = NoLink
    BY <1>3 DEF Reset
  <2> HIDE DEF l
  <2>4. /\ links' \in Seq(Link) /\ Len(links') = Len(links) /\ links'[link] = l
        /\ \A d \in 1 .. Len(links) : d # link => links'[d] = links[d]
        /\ DOMAIN links' = DOMAIN links
    BY <1>1, <2>1, <2>2, <2>3, Replaced
  <2>5. \A d \in 1 .. Len(links) : d # link => links[d].state # "open"
    BY DEF ClientInv
  <2> QED BY <1>1, <2>2, <2>3, <2>4, <2>5
<1> QED BY <1>2, <1>3

LEMMA TypeInit == Init => TypeInv
<1> SUFFICES ASSUME Init PROVE TypeInv
  OBVIOUS
<1>1. <<>> \in Seq(Rollouts) /\ <<>> \in Seq(Link) /\ <<>> \in Seq(Seq(Rollouts)) /\ Len(<<>>) = 0
  OBVIOUS
<1>2. WorkerInv
  BY <1>1, Sizes DEF Init, WorkerInv, PubStates
<1>3. ClientInv
  BY <1>1, Sizes DEF Init, ClientInv
<1>4. ControlInv
  BY Sizes DEF Init, ControlInv, Stages
<1>5. LearnerInv
  BY <1>1, Sizes DEF Init, LearnerInv
<1> QED BY <1>2, <1>3, <1>4, <1>5 DEF TypeInv

\* What the simulators and the publisher do to the worker's part.
LEMMA RecordType == ASSUME TypeInv, NEW s \in Sims, Record(s) PROVE WorkerInv'
<1>1. /\ made \in [Sims -> 0 .. MaxRollouts] /\ made[s] < MaxRollouts
      /\ made' = [made EXCEPT ![s] = made[s] + 1]
      /\ queue' = IF Len(queue) >= MaxDepth THEN queue ELSE Append(queue, <<s, made[s]>>)
      /\ UNCHANGED <<pub, batch>> /\ queue \in Seq(Rollouts) /\ Len(queue) <= MaxDepth
  BY DEF Record, TypeInv, WorkerInv
<1>2. made[s] \in 0 .. MaxRollouts - 1 /\ made[s] + 1 \in 0 .. MaxRollouts
  BY <1>1, Sizes
<1>3. <<s, made[s]>> \in Rollouts
  BY <1>2 DEF Rollouts
<1>4. queue' \in Seq(Rollouts) /\ Len(queue') <= MaxDepth
  <2>1. Len(queue) \in Nat
    BY <1>1, LenProperties
  <2>2. CASE Len(queue) >= MaxDepth
    BY <1>1, <2>2
  <2>3. CASE ~ (Len(queue) >= MaxDepth)
    <3>1. queue' = Append(queue, <<s, made[s]>>)
      BY <1>1, <2>3
    <3> QED BY <1>1, <1>3, <2>1, <2>3, <3>1, AppendProperties, Sizes
  <2> QED BY <2>2, <2>3
<1>5. made' \in [Sims -> 0 .. MaxRollouts]
  BY <1>1, <1>2
<1> QED BY <1>1, <1>4, <1>5 DEF TypeInv, WorkerInv

\* What a cut takes and leaves.
LEMMA CutParts ==
  ASSUME WorkerInv, Cut
  PROVE  /\ batch' \in Seq(Rollouts) /\ queue' \in Seq(Rollouts)
         /\ batch' # <<>> /\ Len(batch') <= MaxBatch /\ Len(queue') <= MaxDepth
         /\ \A i \in 1 .. Len(batch') : i \in 1 .. Len(queue) /\ batch'[i] = queue[i]
         /\ Len(batch') \in Nat
         /\ \A i \in 1 .. Len(queue') :
              Len(batch') + i \in 1 .. Len(queue) /\ queue'[i] = queue[Len(batch') + i]
<1> DEFINE n == Least(MaxBatch, Len(queue))
<1>1. /\ queue \in Seq(Rollouts) /\ Len(queue) \in Nat \ {0} /\ Len(queue) <= MaxDepth
      /\ batch' = SubSeq(queue, 1, n) /\ queue' = SubSeq(queue, n + 1, Len(queue))
  BY EmptySeq DEF Cut, WorkerInv
<1>2. n \in 1 .. Len(queue) /\ n <= MaxBatch
  BY <1>1, Sizes DEF Least
<1> HIDE DEF n
<1>3. \A i \in 1 .. Len(queue) : queue[i] \in Rollouts
  BY <1>1, ElementOfSeq
<1>4. /\ batch' \in Seq(Rollouts) /\ Len(batch') = n
      /\ \A i \in 1 .. n : batch'[i] = queue[i]
  <2>1. \A i \in 1 .. n : queue[i] \in Rollouts
    BY <1>1, <1>2, <1>3
  <2> QED BY <1>1, <1>2, <2>1, SubSeqProperties
<1>5. /\ queue' \in Seq(Rollouts) /\ Len(queue') = Len(queue) - n
      /\ \A i \in 1 .. Len(queue) - n : queue'[i] = queue[n + i]
  <2>1. \A i \in n + 1 .. Len(queue) : queue[i] \in Rollouts
    BY <1>1, <1>2, <1>3
  <2>2. n + 1 \in Int /\ Len(queue) \in Int
    BY <1>1, <1>2
  <2>3. /\ queue' \in Seq(Rollouts)
        /\ Len(queue') = IF n + 1 <= Len(queue) THEN Len(queue) - (n + 1) + 1 ELSE 0
        /\ \A i \in 1 .. Len(queue) - (n + 1) + 1 : queue'[i] = queue[n + 1 + i - 1]
    BY <1>1, <2>1, <2>2, SubSeqProperties
  <2> QED BY <1>1, <1>2, <2>3
<1>6. batch' # <<>>
  <2>1. Len(batch') # 0
    BY <1>1, <1>2, <1>4
  <2> QED BY <2>1
<1>7. \A i \in 1 .. Len(batch') : i \in 1 .. Len(queue) /\ batch'[i] = queue[i]
  BY <1>1, <1>2, <1>4
<1>8. \A i \in 1 .. Len(queue') :
        Len(batch') + i \in 1 .. Len(queue) /\ queue'[i] = queue[Len(batch') + i]
  BY <1>1, <1>2, <1>4, <1>5
<1>9. Len(batch') <= MaxBatch /\ Len(queue') <= MaxDepth /\ Len(batch') \in Nat
  BY <1>1, <1>2, <1>4, <1>5, Sizes
<1> QED BY <1>4, <1>5, <1>6, <1>7, <1>8, <1>9

LEMMA PublisherType ==
  ASSUME TypeInv, EnterWait \/ WaitEnds \/ Exit \/ Cut \/ SendNowhere \/ Send \/ Written \/ WriteFails
  PROVE  WorkerInv'
<1>1. CASE Cut
  <2>1. made' = made /\ pub' = "publish"
    BY <1>1 DEF Cut
  <2> QED BY <1>1, <2>1, CutParts DEF TypeInv, WorkerInv, PubStates
<1>2. CASE EnterWait \/ WaitEnds \/ Exit
  <2>1. /\ UNCHANGED <<made, queue, batch>> /\ pub \in {"head", "wait"}
        /\ pub' \in {"wait", "head", "ended"}
    BY <1>2 DEF EnterWait, WaitEnds, Exit, Publisher
  <2> QED BY <2>1 DEF TypeInv, WorkerInv, PubStates
<1>3. CASE SendNowhere \/ Written \/ WriteFails
  <2>1. UNCHANGED <<made, queue>> /\ pub' = "head" /\ batch' = <<>>
    BY <1>3 DEF SendNowhere, Publisher, Written, WriteFails
  <2>2. <<>> \in Seq(Rollouts) /\ Len(<<>>) <= MaxBatch
    BY Sizes
  <2> QED BY <2>1, <2>2 DEF TypeInv, WorkerInv, PubStates
<1>4. CASE Send
  <2>1. UNCHANGED <<made, queue, batch>> /\ pub = "publish" /\ pub' = "write"
    BY <1>4 DEF Send
  <2> QED BY <2>1 DEF TypeInv, WorkerInv, PubStates
<1> QED BY <1>1, <1>2, <1>3, <1>4

LEMMA SendClient ==
  ASSUME TypeInv, Send
  PROVE  /\ ClientInv'
         /\ \/ links' = links
            \/ /\ links' = Append(links, [to |-> target, state |-> "open", wire |-> <<>>, got |-> <<>>])
               /\ target \in Learners
               /\ [to |-> target, state |-> "open", wire |-> <<>>, got |-> <<>>] \in Link
<1>1. /\ links \in Seq(Link) /\ Len(links) \in Nat
      /\ target \in Learners /\ target' = target /\ pub' = "write"
  BY LenProperties DEF Send, TypeInv, ClientInv, client
<1>2. CASE link # NoLink
  BY <1>1, <1>2 DEF Send, client, TypeInv, ClientInv
<1>3. CASE link = NoLink
  <2> DEFINE l == [to |-> target, state |-> "open", wire |-> <<>>, got |-> <<>>]
  <2>1. l \in Link
    BY <1>1 DEF Link
  <2>2. l.to = target /\ l.wire = <<>> /\ Len(<<>>) <= Window
    BY Sizes
  <2>3. links' = Append(links, l) /\ link' = Len(links) + 1
    BY <1>3 DEF Send
  <2> HIDE DEF l
  <2>4. /\ links' \in Seq(Link) /\ Len(links') = Len(links) + 1
        /\ \A c \in 1 .. Len(links) : links'[c] = links[c]
        /\ links'[Len(links) + 1] = l
    BY <1>1, <2>1, <2>3, AppendProperties
  <2>5. \A c \in 1 .. Len(links) : links[c].state # "open" /\ Len(links[c].wire) <= Window
    BY <1>3 DEF TypeInv, ClientInv, NoLink
  <2>6. \A c \in 1 .. Len(links) + 1 : c \in 1 .. Len(links) \/ c = Len(links) + 1
    BY <1>1
  <2>7. ClientInv'
    <3>1. \A c \in 1 .. Len(links') : Len(links'[c].wire) <= Window /\ (links'[c].state = "open" => c = link')
      BY <2>2, <2>3, <2>4, <2>5, <2>6
    <3>2. link' \in 1 .. Len(links')
      BY <1>1, <2>3, <2>4
    <3>3. links'[link'].to = target' /\ link' = Len(links')
      BY <1>1, <2>2, <2>3, <2>4
    <3>4. link' # NoLink
      BY <1>1, <2>3 DEF NoLink
    <3> QED BY <1>1, <2>4, <3>1, <3>2, <3>3, <3>4 DEF ClientInv
  <2> QED BY <1>1, <2>1, <2>3, <2>7 DEF l
<1> QED BY <1>2, <1>3

\* The connection c carries something else, or is in another state.
LEMMA ChangedLink ==
  ASSUME TypeInv, NEW c \in 1 .. Len(links), NEW l \in Link,
         links' = [links EXCEPT ![c] = l],
         l.to = links[c].to, Len(l.wire) <= Window, l.state = "open" => links[c].state = "open",
         UNCHANGED <<target, link>>, pub' = "write" => pub = "write"
  PROVE  ClientInv'
<1>1. links \in Seq(Link) /\ Len(links) \in Nat
  BY LenProperties DEF TypeInv, ClientInv
<1>2. /\ links' \in Seq(Link) /\ Len(links') = Len(links) /\ links'[c] = l
      /\ \A d \in 1 .. Len(links) : d # c => links'[d] = links[d]
  BY <1>1, Replaced
<1>3. \A d \in 1 .. Len(links) : /\ links'[d].to = links[d].to
                                 /\ Len(links'[d].wire) <= Window
                                 /\ links'[d].state = "open" => links[d].state = "open"
  BY <1>2 DEF TypeInv, ClientInv
<1> QED BY <1>2, <1>3 DEF TypeInv, ClientInv

LEMMA WrittenClient ==
  ASSUME TypeInv, Written
  PROVE  /\ ClientInv' /\ link \in 1 .. Len(links) /\ link = Len(links)
         /\ links' = [links EXCEPT ![link] = [links[link] EXCEPT !.wire = Append(links[link].wire, batch)]]
<1>1. /\ pub = "write" /\ link \in 1 .. Len(links) /\ link = Len(links) /\ links \in Seq(Link)
      /\ batch \in Seq(Rollouts)
  BY DEF Written, TypeInv, ClientInv, WorkerInv
<1> DEFINE l == [links[link] EXCEPT !.wire = Append(links[link].wire, batch)]
<1>2. /\ links' = [links EXCEPT ![link] = l] /\ UNCHANGED <<target, link>> /\ pub' = "head"
      /\ Len(links[link].wire) < Window
  BY DEF Written
<1>3. links[link] \in Link /\ links[link].wire \in Seq(Seq(Rollouts))
  <2>1. links[link] \in Link
    BY <1>1, ElementOfSeq
  <2> QED BY <2>1 DEF Link
<1>4. /\ Append(links[link].wire, batch) \in Seq(Seq(Rollouts))
      /\ Len(Append(links[link].wire, batch)) = Len(links[link].wire) + 1
      /\ Len(links[link].wire) \in Nat
  BY <1>1, <1>3, AppendProperties, LenProperties
<1>5. /\ l \in Link /\ l.to = links[link].to /\ l.state = links[link].state
      /\ l.wire = Append(links[link].wire, batch)
  BY <1>3, <1>4 DEF Link
<1>6. Len(l.wire) <= Window
  BY <1>2, <1>4, <1>5, Sizes
<1> HIDE DEF l
<1>7. ClientInv'
  BY <1>1, <1>2, <1>5, <1>6, ChangedLink
<1> QED BY <1>1, <1>2, <1>7 DEF l

LEMMA SetTargetClient == ASSUME TypeInv, SetTarget PROVE ClientInv'
<1>1. setter \in Learners \cup {NoTarget} /\ target' = setter /\ pub # "write" /\ pub' = pub
  BY DEF SetTarget, TypeInv, ControlInv, publisher
<1>2. CASE setter = target
  BY <1>1, <1>2 DEF SetTarget, TypeInv, ClientInv
<1>3. CASE setter # target
  <2>1. Reset
    BY <1>3 DEF SetTarget
  <2>2. /\ link' = NoLink /\ links' \in Seq(Link) /\ Len(links') = Len(links)
        /\ \A c \in 1 .. Len(links) : links'[c].wire = links[c].wire /\ links'[c].state # "open"
    BY <2>1, ResetGives DEF TypeInv
  <2> QED BY <1>1, <2>2 DEF TypeInv, ClientInv
<1> QED BY <1>2, <1>3

LEMMA WriteFailsClient == ASSUME TypeInv, WriteFails PROVE ClientInv'
<1>1. Reset /\ pub' = "head" /\ target' = target
  BY DEF WriteFails
<1>2. /\ link' = NoLink /\ links' \in Seq(Link) /\ Len(links') = Len(links)
      /\ \A c \in 1 .. Len(links) : links'[c].wire = links[c].wire /\ links'[c].state # "open"
  BY <1>1, ResetGives DEF TypeInv
<1> QED BY <1>1, <1>2 DEF TypeInv, ClientInv

\* A batch that is received: the connection afterwards.
Taken(c) ==
  LET b == Head(links[c].wire)
  IN [links[c] EXCEPT
        !.wire = Tail(links[c].wire),
        !.got = IF Len(ingest[links[c].to]) < LearnerDepth THEN links[c].got \o b ELSE links[c].got]

LEMMA TakenIs ==
  ASSUME TypeInv, NEW c \in 1 .. Len(links), Receive(c)
  PROVE  LET b == Head(links[c].wire)
             fits == Len(ingest[links[c].to]) < LearnerDepth
         IN /\ links' = [links EXCEPT ![c] = Taken(c)]
            /\ Taken(c) \in Link /\ Taken(c).to = links[c].to /\ Taken(c).state = links[c].state
            /\ Taken(c).wire = Tail(links[c].wire)
            /\ Taken(c).got = (IF fits THEN links[c].got \o b ELSE links[c].got)
            /\ links[c] \in Link /\ links[c].to \in Learners /\ b \in Seq(Rollouts)
            /\ links[c].got \in Seq(Rollouts) /\ links[c].wire \in Seq(Seq(Rollouts))
            /\ links[c].wire # <<>> /\ Tail(links[c].wire) \in Seq(Seq(Rollouts))
            /\ Len(Tail(links[c].wire)) = Len(links[c].wire) - 1
            /\ Len(links[c].wire) \in Nat
<1> DEFINE b == Head(links[c].wire)
           fits == Len(ingest[links[c].to]) < LearnerDepth
           got == IF fits THEN links[c].got \o b ELSE links[c].got
<1>1. links[c] \in Link
  BY ElementOfSeq DEF TypeInv, ClientInv
<1>2. /\ links[c].to \in Learners /\ links[c].got \in Seq(Rollouts)
      /\ links[c].wire \in Seq(Seq(Rollouts)) /\ links[c].wire # <<>>
  BY <1>1 DEF Link, Receive
<1>3. /\ b \in Seq(Rollouts) /\ Tail(links[c].wire) \in Seq(Seq(Rollouts))
      /\ Len(Tail(links[c].wire)) = Len(links[c].wire) - 1 /\ Len(links[c].wire) \in Nat
  BY <1>2, HeadTailProperties, LenProperties
<1>4. got \in Seq(Rollouts)
  BY <1>2, <1>3, ConcatProperties
<1>5. Taken(c) = [links[c] EXCEPT !.wire = Tail(links[c].wire), !.got = got]
  BY DEF Taken
<1>6. links' = [links EXCEPT ![c] = Taken(c)]
  BY DEF Receive, Taken
<1> HIDE DEF got
<1>7. /\ Taken(c) \in Link /\ Taken(c).to = links[c].to /\ Taken(c).state = links[c].state
      /\ Taken(c).wire = Tail(links[c].wire) /\ Taken(c).got = got
  BY <1>1, <1>3, <1>4, <1>5 DEF Link
<1> QED BY <1>1, <1>2, <1>3, <1>6, <1>7 DEF got

LEMMA ReceiveType ==
  ASSUME TypeInv, NEW c \in 1 .. Len(links), Receive(c)
  PROVE  ClientInv' /\ LearnerInv'
<1> DEFINE b == Head(links[c].wire)
           fits == Len(ingest[links[c].to]) < LearnerDepth
<1>1. /\ links' = [links EXCEPT ![c] = Taken(c)]
      /\ Taken(c) \in Link /\ Taken(c).to = links[c].to /\ Taken(c).state = links[c].state
      /\ Taken(c).wire = Tail(links[c].wire) /\ links[c].to \in Learners /\ b \in Seq(Rollouts)
      /\ Len(Tail(links[c].wire)) = Len(links[c].wire) - 1 /\ Len(links[c].wire) \in Nat
  BY TakenIs
<1>2. /\ UNCHANGED <<target, link, pub, used>>
      /\ ingest' = IF fits THEN [ingest EXCEPT ![links[c].to] = Append(ingest[links[c].to], b)] ELSE ingest
  BY DEF Receive, publisher
<1>3. Len(links[c].wire) <= Window
  BY DEF TypeInv, ClientInv
<1>4. Len(Taken(c).wire) <= Window
  BY <1>1, <1>3, Sizes
<1>5. ClientInv'
  BY <1>1, <1>2, <1>4, ChangedLink
<1>6. LearnerInv'
  <2>1. /\ ingest \in [Learners -> Seq(Seq(Rollouts))] /\ ingest[links[c].to] \in Seq(Seq(Rollouts))
        /\ \A l \in Learners : Len(ingest[l]) <= LearnerDepth
    BY <1>1 DEF TypeInv, LearnerInv
  <2>2. /\ Append(ingest[links[c].to], b) \in Seq(Seq(Rollouts))
        /\ Len(Append(ingest[links[c].to], b)) = Len(ingest[links[c].to]) + 1
        /\ Len(ingest[links[c].to]) \in Nat
    BY <1>1, <2>1, AppendProperties, LenProperties
  <2>3. CASE ~ fits
    BY <1>2, <2>3 DEF TypeInv, LearnerInv
  <2>4. CASE fits
    <3>1. ingest' = [ingest EXCEPT ![links[c].to] = Append(ingest[links[c].to], b)]
      BY <1>2, <2>4
    <3>2. Len(Append(ingest[links[c].to], b)) <= LearnerDepth
      BY <2>2, <2>4, Sizes
    <3>3. /\ ingest' \in [Learners -> Seq(Seq(Rollouts))]
          /\ \A l \in Learners : Len(ingest'[l]) <= LearnerDepth
      BY <2>1, <2>2, <3>1, <3>2
    <3> QED BY <1>2, <3>3 DEF TypeInv, LearnerInv
  <2> QED BY <2>3, <2>4
<1> QED BY <1>5, <1>6

LEMMA TakeType == ASSUME TypeInv, NEW l \in Learners, Take(l) PROVE LearnerInv'
<1>1. /\ ingest \in [Learners -> Seq(Seq(Rollouts))] /\ used \in [Learners -> Seq(Rollouts)]
      /\ ingest[l] # <<>> /\ Len(ingest[l]) <= LearnerDepth
      /\ used' = [used EXCEPT ![l] = used[l] \o Head(ingest[l])]
      /\ ingest' = [ingest EXCEPT ![l] = Tail(ingest[l])]
  BY DEF TypeInv, LearnerInv, Take
<1>2. ingest[l] \in Seq(Seq(Rollouts)) /\ used[l] \in Seq(Rollouts)
  BY <1>1
<1>3. /\ Head(ingest[l]) \in Seq(Rollouts) /\ Tail(ingest[l]) \in Seq(Seq(Rollouts))
      /\ Len(Tail(ingest[l])) = Len(ingest[l]) - 1 /\ Len(ingest[l]) \in Nat
  BY <1>1, <1>2, HeadTailProperties, LenProperties
<1>4. used[l] \o Head(ingest[l]) \in Seq(Rollouts)
  BY <1>2, <1>3, ConcatProperties
<1>5. Len(Tail(ingest[l])) <= LearnerDepth
  BY <1>1, <1>3, Sizes
<1>6. \A k \in Learners : Len(ingest'[k]) <= LearnerDepth
  BY <1>1, <1>5 DEF TypeInv, LearnerInv
<1> QED BY <1>1, <1>3, <1>4, <1>6 DEF LearnerInv

LEMMA StateChanges ==
  ASSUME TypeInv, NEW c \in 1 .. Len(links), Break(c) \/ HandlerEnds(c)
  PROVE  ClientInv'
<1>1. links[c] \in Link /\ Len(links[c].wire) <= Window
  BY ElementOfSeq DEF TypeInv, ClientInv
<1>2. UNCHANGED <<target, link, pub>>
  BY DEF Break, HandlerEnds, publisher
<1>3. CASE Break(c)
  <2> DEFINE l == [links[c] EXCEPT !.state = "broken"]
  <2>1. l \in Link /\ l.to = links[c].to /\ l.wire = links[c].wire /\ l.state = "broken"
    BY <1>1 DEF Link
  <2>2. links' = [links EXCEPT ![c] = l]
    BY <1>3 DEF Break
  <2> HIDE DEF l
  <2> QED BY <1>1, <1>2, <2>1, <2>2, ChangedLink
<1>4. CASE HandlerEnds(c)
  <2> DEFINE l == [links[c] EXCEPT !.state = "ended", !.wire = <<>>]
  <2>1. /\ l \in Link /\ l.to = links[c].to /\ l.wire = <<>> /\ l.state = "ended"
        /\ Len(<<>>) <= Window
    <3>1. <<>> \in Seq(Seq(Rollouts)) /\ Len(<<>>) <= Window
      BY Sizes
    <3>2. l \in Link
      BY <1>1, <3>1 DEF Link
    <3>3. l.to = links[c].to /\ l.wire = <<>> /\ l.state = "ended"
      BY <1>1 DEF Link
    <3> QED BY <3>1, <3>2, <3>3
  <2>2. links' = [links EXCEPT ![c] = l]
    BY <1>4 DEF HandlerEnds
  <2> HIDE DEF l
  <2> QED BY <1>1, <1>2, <2>1, <2>2, ChangedLink
<1> QED BY <1>3, <1>4

LEMMA ControlType == ASSUME TypeInv, [Next]_vars PROVE ControlInv'
<1>1. CASE \E t \in Learners \cup {NoTarget} : Directive(t)
  <2>1. /\ setter' \in Learners \cup {NoTarget} /\ switches' = switches + 1
        /\ switches < MaxSwitches /\ stopping' = stopping
    BY <1>1 DEF Directive
  <2> QED BY <2>1, Sizes DEF TypeInv, ControlInv
<1>2. CASE SetTarget \/ StopSims \/ StopClient \/ StopPublisher \/ StopDone
  <2>1. /\ setter' \in {setter, Idle} /\ switches' = switches
        /\ stopping' \in {stopping, "sims", "client", "publisher", "done"}
    BY <1>2 DEF SetTarget, StopSims, StopClient, StopPublisher, StopDone
  <2> QED BY <2>1 DEF TypeInv, ControlInv, Stages
<1>3. ASSUME UNCHANGED control PROVE ControlInv'
  BY <1>3 DEF TypeInv, ControlInv, control
<1> QED BY <1>1, <1>2, <1>3 DEF Next, vars, Record, EnterWait, WaitEnds, Exit, Cut, SendNowhere, Send,
      Written, WriteFails, Publisher, Break, Receive, HandlerEnds, Take

LEMMA TypeNext == ASSUME TypeInv, [Next]_vars PROVE TypeInv'
<1>0. DOMAIN links = 1 .. Len(links)
  BY LenProperties DEF TypeInv, ClientInv
<1>1. WorkerInv'
  <2>1. ASSUME UNCHANGED <<made, queue, pub, batch>> PROVE WorkerInv'
    BY <2>1 DEF TypeInv, WorkerInv
  <2>2. ASSUME NEW s \in Sims, Record(s) PROVE WorkerInv'
    BY <2>2, RecordType
  <2> QED BY <2>1, <2>2, PublisherType DEF Next, vars, publisher, Directive, SetTarget, StopSims,
        StopClient, StopPublisher, StopDone, Break, Receive, HandlerEnds, Take
<1>2. ClientInv'
  <2>1. ASSUME UNCHANGED <<client, pub>> PROVE ClientInv'
    BY <2>1 DEF TypeInv, ClientInv, client
  <2>2. ASSUME UNCHANGED client, pub' # "write" PROVE ClientInv'
    BY <2>2 DEF TypeInv, ClientInv, client
  <2>3. ASSUME NEW c \in DOMAIN links, Break(c) \/ Receive(c) \/ HandlerEnds(c) PROVE ClientInv'
    BY <1>0, <2>3, StateChanges, ReceiveType
  <2>4. CASE EnterWait \/ WaitEnds \/ Exit \/ Cut \/ SendNowhere
    <3>1. UNCHANGED client /\ pub' # "write"
      BY <2>4 DEF EnterWait, WaitEnds, Exit, Cut, SendNowhere, Publisher
    <3> QED BY <2>2, <3>1
  <2>5. ASSUME NEW s \in Sims, Record(s) PROVE ClientInv'
    BY <2>1, <2>5 DEF Record
  <2>6. ASSUME NEW t, Directive(t) PROVE ClientInv'
    BY <2>1, <2>6 DEF Directive, publisher
  <2>7. CASE StopSims \/ StopClient \/ StopPublisher \/ StopDone
    BY <2>1, <2>7 DEF StopSims, StopClient, StopPublisher, StopDone, publisher
  <2>8. ASSUME NEW l \in Learners, Take(l) PROVE ClientInv'
    BY <2>1, <2>8 DEF Take, publisher
  <2>9. CASE UNCHANGED vars
    BY <2>1, <2>9 DEF vars, publisher
  <2> QED BY <2>3, <2>4, <2>5, <2>6, <2>7, <2>8, <2>9, SendClient, WrittenClient, WriteFailsClient,
             SetTargetClient DEF Next
<1>3. LearnerInv'
  <2>1. ASSUME UNCHANGED learner PROVE LearnerInv'
    BY <2>1 DEF TypeInv, LearnerInv, learner
  <2>2. ASSUME NEW c \in DOMAIN links, Receive(c) PROVE LearnerInv'
    BY <1>0, <2>2, ReceiveType
  <2>3. ASSUME NEW l \in Learners, Take(l) PROVE LearnerInv'
    BY <2>3, TakeType
  <2>4. ASSUME NEW c \in DOMAIN links, Break(c) \/ HandlerEnds(c) PROVE LearnerInv'
    BY <2>1, <2>4 DEF Break, HandlerEnds
  <2>5. CASE EnterWait \/ WaitEnds \/ Exit \/ Cut \/ SendNowhere \/ Send \/ Written \/ WriteFails
    BY <2>1, <2>5 DEF EnterWait, WaitEnds, Exit, Cut, SendNowhere, Send, Written, WriteFails, Publisher
  <2>6. ASSUME NEW s \in Sims, Record(s) PROVE LearnerInv'
    BY <2>1, <2>6 DEF Record
  <2>7. ASSUME NEW t, Directive(t) PROVE LearnerInv'
    BY <2>1, <2>7 DEF Directive
  <2>8. CASE SetTarget \/ StopSims \/ StopClient \/ StopPublisher \/ StopDone
    BY <2>1, <2>8 DEF SetTarget, StopSims, StopClient, StopPublisher, StopDone
  <2>9. CASE UNCHANGED vars
    BY <2>1, <2>9 DEF vars
  <2> QED BY <2>2, <2>3, <2>4, <2>5, <2>6, <2>7, <2>8, <2>9 DEF Next
<1> QED BY <1>1, <1>2, <1>3, ControlType DEF TypeInv

LEMMA TypeInvariance == Spec => []TypeInv
BY TypeInit, TypeNext, PTL DEF Spec

\* No batch is written to a learner that set_target() has replaced: whatever
\* the heartbeat thread, the publisher and the network do, the only open
\* connection is the one in use, and it leads to the target.
THEOREM OnlyTheTargetGets == Spec => []SendsToTarget
<1>1. TypeInv => SendsToTarget
  <2> SUFFICES ASSUME TypeInv PROVE SendsToTarget
    OBVIOUS
  <2> USE DEF TypeInv, WorkerInv, ClientInv, ControlInv, LearnerInv
  <2>1. DOMAIN links = 1 .. Len(links) /\ Len(links) \in Nat
    BY LenProperties
  <2>2. \A c \in DOMAIN links : links[c] \in Link /\ Len(links[c].wire) <= Window
    BY <2>1, ElementOfSeq
  <2>3. link \in {NoLink} \cup DOMAIN links
    BY <2>1
  <2>4. TypeOK
    BY <2>2, <2>3 DEF TypeOK
  <2> QED BY <2>1, <2>4 DEF SendsToTarget
<1> QED BY <1>1, TypeInvariance, PTL

-----------------------------------------------------------------------------
(* The order of the rollouts.                                              *)

\* The rollouts that have a number.
Numbered == {r \in Rollouts : r[2] < made[r[1]]}

\* What is in the batches of a wire, and that they are in order.
On(w) == UNION {Members(w[i]) : i \in 1 .. Len(w)}
Orderly(w) ==
  /\ \A i \in 1 .. Len(w) : D!Ordered(w[i])
  /\ \A i, j \in 1 .. Len(w) : i < j => D!Before(Members(w[i]), Members(w[j]))

\* What was sent on a connection, received or not.
Sent(l) == Members(l.got) \cup On(l.wire)
Fine(l) == D!Before(Members(l.got), On(l.wire)) /\ Orderly(l.wire)

\* What the publisher has.
Held == Members(batch) \cup Members(queue)
HeldInOrder ==
  D!Ordered(batch) /\ D!Ordered(queue) /\ D!Before(Members(batch), Members(queue))

\* The rollouts of a simulator are in order all the way: what is received,
\* before what is on the wire; connection before connection; and what was
\* sent, before what the publisher has.
OrderInv ==
  /\ \A c \in 1 .. Len(links) : Sent(links[c]) \subseteq Numbered /\ Fine(links[c])
  /\ \A c, d \in 1 .. Len(links) : c < d => D!Before(Sent(links[c]), Sent(links[d]))
  /\ Held \subseteq Numbered
  /\ \A c \in 1 .. Len(links) : D!Before(Sent(links[c]), Held)
  /\ HeldInOrder

LEMMA BeforeParts ==
  ASSUME NEW A, NEW B, D!Before(A, B), NEW P \in SUBSET A, NEW Q \in SUBSET B
  PROVE  D!Before(P, Q)
BY DEF D!Before

LEMMA BeforeUnion ==
  ASSUME NEW A, NEW B, NEW C, D!Before(A, C), D!Before(B, C)
  PROVE  D!Before(A \cup B, C)
BY DEF D!Before

LEMMA BeforeBoth ==
  ASSUME NEW A, NEW B, NEW C, D!Before(A, B), D!Before(A, C)
  PROVE  D!Before(A, B \cup C)
BY DEF D!Before

LEMMA BeforeNothing == ASSUME NEW A PROVE D!Before(A, {}) /\ D!Before({}, A)
BY DEF D!Before

LEMMA BeforeApart ==
  ASSUME NEW A \in SUBSET Rollouts, NEW B \in SUBSET Rollouts, D!Before(A, B)
  PROVE  A \cap B = {}
<1> SUFFICES ASSUME NEW r \in A, r \in B PROVE FALSE
  OBVIOUS
<1>1. r[2] < r[2] /\ r[2] \in 0 .. MaxRollouts - 1
  BY DEF D!Before, Rollouts
<1> QED BY <1>1, Sizes

LEMMA MembersIs ==
  ASSUME NEW S, NEW s \in Seq(S)
  PROVE  /\ Members(s) = {s[i] : i \in 1 .. Len(s)} /\ Members(s) \subseteq S
         /\ D!Members(s) = Members(s) /\ Len(s) \in Nat /\ DOMAIN s = 1 .. Len(s)
         /\ Members(s) = Range(s)
<1>1. /\ Len(s) \in Nat /\ DOMAIN s = 1 .. Len(s)
      /\ \A i \in 1 .. Len(s) : s[i] \in S
  BY LenProperties
<1> QED BY <1>1 DEF Members, D!Members, Range

LEMMA MembersNothing == Members(<<>>) = {} /\ On(<<>>) = {} /\ Orderly(<<>>) /\ D!Ordered(<<>>)
BY DEF Members, On, Orderly, D!Ordered

LEMMA MembersConcat ==
  ASSUME NEW S, NEW s \in Seq(S), NEW t \in Seq(S)
  PROVE  Members(s \o t) = Members(s) \cup Members(t) /\ s \o t \in Seq(S)
<1>1. s \o t \in Seq(S)
  BY ConcatProperties
<1>2. Members(s \o t) = Range(s \o t) /\ Members(s) = Range(s) /\ Members(t) = Range(t)
  BY <1>1, MembersIs
<1> QED BY <1>1, <1>2, RangeConcatenation

LEMMA MembersAppend ==
  ASSUME NEW S, NEW s \in Seq(S), NEW e \in S
  PROVE  Members(Append(s, e)) = Members(s) \cup {e} /\ Append(s, e) \in Seq(S)
<1>1. <<e>> \in Seq(S) /\ Append(s, e) = s \o <<e>>
  BY AppendIsConcat
<1>2. Members(<<e>>) = {e}
  BY DEF Members
<1>3. Members(s \o <<e>>) = Members(s) \cup Members(<<e>>) /\ s \o <<e>> \in Seq(S)
  BY <1>1, MembersConcat
<1> QED BY <1>1, <1>2, <1>3

\* A wire with one more batch.
LEMMA OnAppend ==
  ASSUME NEW w \in Seq(Seq(Rollouts)), NEW b \in Seq(Rollouts),
         Orderly(w), D!Ordered(b), D!Before(On(w), Members(b))
  PROVE  On(Append(w, b)) = On(w) \cup Members(b) /\ Orderly(Append(w, b))
<1> DEFINE v == Append(w, b)
<1>1. /\ Len(v) = Len(w) + 1 /\ Len(w) \in Nat /\ v[Len(w) + 1] = b
      /\ \A i \in 1 .. Len(w) : v[i] = w[i]
  BY AppendProperties, LenProperties
<1> HIDE DEF v
<1>2. \A i \in 1 .. Len(v) : i \in 1 .. Len(w) \/ i = Len(w) + 1
  BY <1>1
<1>3. 1 .. Len(w) \subseteq 1 .. Len(v) /\ Len(w) + 1 \in 1 .. Len(v)
  BY <1>1
<1>4. On(v) = On(w) \cup Members(b)
  <2>1. ASSUME NEW r \in On(v) PROVE r \in On(w) \cup Members(b)
    <3>1. PICK i \in 1 .. Len(v) : r \in Members(v[i])
      BY <2>1 DEF On
    <3> QED BY <1>1, <1>2, <3>1 DEF On
  <2>2. ASSUME NEW r \in On(w) PROVE r \in On(v)
    <3>1. PICK i \in 1 .. Len(w) : r \in Members(w[i])
      BY <2>2 DEF On
    <3> QED BY <1>1, <1>3, <3>1 DEF On
  <2>3. Members(b) \subseteq On(v)
    BY <1>1, <1>3 DEF On
  <2> QED BY <2>1, <2>2, <2>3
<1>5. Orderly(v)
  <2>1. \A i \in 1 .. Len(v) : D!Ordered(v[i])
    BY <1>1, <1>2 DEF Orderly
  <2>2. ASSUME NEW i \in 1 .. Len(v), NEW j \in 1 .. Len(v), i < j
        PROVE  D!Before(Members(v[i]), Members(v[j]))
    <3>1. i \in 1 .. Len(w)
      BY <1>1, <2>2
    <3>2. CASE j \in 1 .. Len(w)
      BY <1>1, <2>2, <3>1, <3>2 DEF Orderly
    <3>3. CASE j = Len(w) + 1
      <4>1. Members(w[i]) \subseteq On(w)
        BY <3>1 DEF On
      <4>2. D!Before(Members(w[i]), Members(b))
        BY <4>1, BeforeParts
      <4> QED BY <1>1, <3>1, <3>3, <4>2
    <3> QED BY <1>2, <3>2, <3>3
  <2> QED BY <2>1, <2>2 DEF Orderly
<1> QED BY <1>4, <1>5 DEF v

\* A wire whose first batch is taken.
LEMMA OnTail ==
  ASSUME NEW w \in Seq(Seq(Rollouts)), w # <<>>, Orderly(w)
  PROVE  /\ On(Tail(w)) \subseteq On(w) /\ Members(Head(w)) \subseteq On(w)
         /\ Orderly(Tail(w)) /\ D!Ordered(Head(w))
         /\ D!Before(Members(Head(w)), On(Tail(w)))
<1> DEFINE v == Tail(w)
<1>1. /\ Len(w) \in Nat \ {0} /\ Len(v) = Len(w) - 1 /\ Head(w) = w[1]
      /\ \A i \in 1 .. Len(v) : v[i] = w[i + 1]
  BY HeadTailProperties, EmptySeq
<1> HIDE DEF v
<1>2. 1 \in 1 .. Len(w) /\ \A i \in 1 .. Len(v) : i + 1 \in 1 .. Len(w) /\ 1 < i + 1
  BY <1>1
<1>3. Members(Head(w)) \subseteq On(w) /\ D!Ordered(Head(w))
  BY <1>1, <1>2 DEF On, Orderly
<1>4. ASSUME NEW r \in On(v) PROVE r \in On(w)
  <2>1. PICK i \in 1 .. Len(v) : r \in Members(v[i])
    BY <1>4 DEF On
  <2> QED BY <1>1, <1>2, <2>1 DEF On
<1>5. Orderly(v)
  <2>1. \A i \in 1 .. Len(v) : D!Ordered(v[i])
    BY <1>1, <1>2 DEF Orderly
  <2>2. ASSUME NEW i \in 1 .. Len(v), NEW j \in 1 .. Len(v), i < j
        PROVE  D!Before(Members(v[i]), Members(v[j]))
    <3>1. i + 1 < j + 1
      BY <2>2
    <3> QED BY <1>1, <1>2, <3>1 DEF Orderly
  <2> QED BY <2>1, <2>2 DEF Orderly
<1>6. D!Before(Members(Head(w)), On(v))
  <2> SUFFICES ASSUME NEW a \in Members(w[1]), NEW r \in On(v), a[1] = r[1] PROVE a[2] < r[2]
    BY <1>1 DEF D!Before
  <2>1. PICK i \in 1 .. Len(v) : r \in Members(v[i])
    BY DEF On
  <2>2. D!Before(Members(w[1]), Members(w[i + 1]))
    BY <1>2 DEF Orderly
  <2> QED BY <1>1, <2>1, <2>2 DEF D!Before
<1> QED BY <1>3, <1>4, <1>5, <1>6 DEF v

LEMMA OrderInit == Init => OrderInv
<1> SUFFICES ASSUME Init PROVE OrderInv
  OBVIOUS
<1>1. links = <<>> /\ batch = <<>> /\ queue = <<>> /\ Len(<<>>) = 0
  BY DEF Init
<1>2. Held = {} /\ HeldInOrder
  BY <1>1, MembersNothing, BeforeNothing DEF Held, HeldInOrder
<1> QED BY <1>1, <1>2 DEF OrderInv

\* The publisher and the connections have no more than before.
LEMMA NothingNew ==
  ASSUME OrderInv, Numbered \subseteq Numbered', Len(links') = Len(links),
         \A c \in 1 .. Len(links) :
           links'[c].got = links[c].got /\ links'[c].wire = links[c].wire,
         Held' \subseteq Held, HeldInOrder'
  PROVE  OrderInv'
<1>1. \A c \in 1 .. Len(links) : Sent(links'[c]) = Sent(links[c]) /\ (Fine(links[c]) => Fine(links'[c]))
  BY DEF Sent, Fine
<1>2. \A c \in 1 .. Len(links) : Sent(links'[c]) \subseteq Numbered' /\ Fine(links'[c])
  BY <1>1 DEF OrderInv
<1>3. \A c, d \in 1 .. Len(links) : c < d => D!Before(Sent(links'[c]), Sent(links'[d]))
  BY <1>1 DEF OrderInv
<1>4. Held' \subseteq Numbered'
  BY DEF OrderInv
<1>5. \A c \in 1 .. Len(links) : D!Before(Sent(links'[c]), Held')
  BY <1>1, BeforeParts DEF OrderInv
<1> QED BY <1>2, <1>3, <1>4, <1>5 DEF OrderInv

\* A connection has no more than before.
LEMMA NothingNewOn ==
  ASSUME TypeInv, OrderInv, NEW c \in 1 .. Len(links), NEW l \in Link,
         links' = [links EXCEPT ![c] = l], Sent(l) \subseteq Sent(links[c]), Fine(l),
         UNCHANGED <<made, batch, queue>>
  PROVE  OrderInv'
<1>1. /\ Len(links') = Len(links) /\ links'[c] = l
      /\ \A d \in 1 .. Len(links) : d # c => links'[d] = links[d]
  BY Replaced DEF TypeInv, ClientInv
<1>2. Numbered' = Numbered /\ Held' = Held /\ (HeldInOrder => HeldInOrder')
  BY DEF Numbered, Held, HeldInOrder
<1>3. \A d \in 1 .. Len(links) : Sent(links'[d]) \subseteq Sent(links[d]) /\ Fine(links'[d])
  BY <1>1 DEF OrderInv
<1>4. \A d \in 1 .. Len(links) : Sent(links'[d]) \subseteq Numbered'
  BY <1>2, <1>3 DEF OrderInv
<1>5. \A d, e \in 1 .. Len(links) : d < e => D!Before(Sent(links'[d]), Sent(links'[e]))
  BY <1>3, BeforeParts DEF OrderInv
<1>6. \A d \in 1 .. Len(links) : D!Before(Sent(links'[d]), Held')
  BY <1>2, <1>3, BeforeParts DEF OrderInv
<1>7. Held' \subseteq Numbered' /\ HeldInOrder'
  BY <1>2 DEF OrderInv
<1> QED BY <1>1, <1>3, <1>4, <1>5, <1>6, <1>7 DEF OrderInv

\* The numbers only grow.
LEMMA NumbersGrow ==
  ASSUME TypeInv, NEW s \in Sims, Record(s)
  PROVE  /\ Numbered \subseteq Numbered'
         /\ <<s, made[s]>> \in Numbered'
         /\ \A r \in Numbered : r[1] = s => r[2] < made[s]
<1>1. /\ made \in [Sims -> 0 .. MaxRollouts] /\ made[s] < MaxRollouts
      /\ made' = [made EXCEPT ![s] = made[s] + 1]
  BY DEF Record, TypeInv, WorkerInv
<1>2. made[s] \in 0 .. MaxRollouts - 1 /\ made'[s] = made[s] + 1
  BY <1>1, Sizes
<1>3. ASSUME NEW r \in Numbered PROVE r \in Numbered' /\ (r[1] = s => r[2] < made[s])
  <2>1. r[1] \in Sims /\ r[2] \in Nat /\ r[2] < made[r[1]] /\ r \in Rollouts
    BY <1>3, Sizes DEF Numbered, Rollouts
  <2>2. r[2] < made'[r[1]]
    <3>1. CASE r[1] = s
      BY <1>2, <2>1, <3>1
    <3>2. CASE r[1] # s
      BY <1>1, <2>1, <3>2
    <3> QED BY <3>1, <3>2
  <2> QED BY <2>1, <2>2 DEF Numbered
<1>4. <<s, made[s]>> \in Numbered'
  <2>1. <<s, made[s]>> \in Rollouts
    BY <1>2 DEF Rollouts
  <2>2. <<s, made[s]>>[1] = s /\ <<s, made[s]>>[2] = made[s] /\ made[s] < made'[s]
    BY <1>2
  <2> QED BY <2>1, <2>2 DEF Numbered
<1> QED BY <1>3, <1>4

LEMMA RecordOrder == ASSUME TypeInv, OrderInv, NEW s \in Sims, Record(s) PROVE OrderInv'
<1> DEFINE e == <<s, made[s]>>
<1>1. UNCHANGED <<links, batch>> /\ queue \in Seq(Rollouts) /\ Held \subseteq Numbered
  BY DEF Record, client, TypeInv, WorkerInv, OrderInv
<1>2. /\ Numbered \subseteq Numbered' /\ e \in Numbered' /\ e[1] = s /\ e[2] = made[s]
      /\ \A r \in Numbered : r[1] = s => r[2] < made[s]
  BY NumbersGrow
<1>3. e \in Rollouts
  BY <1>2 DEF Numbered
<1> HIDE DEF e
<1>4. ASSUME NEW A \in SUBSET Numbered PROVE D!Before(A, {e})
  BY <1>2, <1>4 DEF D!Before
<1>5. CASE queue' = queue
  <2>1. Held' = Held /\ HeldInOrder'
    BY <1>1, <1>5 DEF Held, HeldInOrder, OrderInv
  <2> QED BY <1>1, <1>2, <2>1, NothingNew
<1>6. CASE queue' = Append(queue, e)
  <2>1. Members(queue') = Members(queue) \cup {e}
    BY <1>1, <1>3, <1>6, MembersAppend
  <2>2. Held' = Held \cup {e}
    BY <1>1, <2>1 DEF Held
  <2>3. D!Ordered(queue')
    <3>1. /\ Len(queue') = Len(queue) + 1 /\ Len(queue) \in Nat
          /\ DOMAIN queue' = 1 .. Len(queue) + 1 /\ DOMAIN queue = 1 .. Len(queue)
          /\ queue'[Len(queue) + 1] = e /\ \A i \in 1 .. Len(queue) : queue'[i] = queue[i]
      BY <1>1, <1>3, <1>6, AppendProperties, LenProperties
    <3> SUFFICES ASSUME NEW i \in DOMAIN queue', NEW j \in DOMAIN queue', i < j
                 PROVE  D!Before({queue'[i]}, {queue'[j]})
      BY DEF D!Ordered
    <3>2. i \in 1 .. Len(queue) /\ (j \in 1 .. Len(queue) \/ j = Len(queue) + 1)
      BY <3>1
    <3>3. CASE j \in 1 .. Len(queue)
      BY <3>1, <3>2, <3>3 DEF OrderInv, HeldInOrder, D!Ordered
    <3>4. CASE j = Len(queue) + 1
      <4>1. queue[i] \in Held
        BY <3>1, <3>2 DEF Held, Members
      <4>2. {queue[i]} \in SUBSET Numbered
        BY <1>1, <4>1
      <4> QED BY <1>4, <3>1, <3>2, <3>4, <4>2
    <3> QED BY <3>2, <3>3, <3>4
  <2>4. HeldInOrder'
    <3>1. Members(batch) \in SUBSET Numbered
      BY <1>1 DEF Held
    <3>2. D!Before(Members(batch), Members(queue) \cup {e})
      BY <1>4, <3>1, BeforeBoth DEF OrderInv, HeldInOrder
    <3> QED BY <1>1, <2>1, <2>3, <3>2 DEF OrderInv, HeldInOrder
  <2>5. \A c \in 1 .. Len(links) : D!Before(Sent(links[c]), Held')
    BY <1>4, <2>2, BeforeBoth DEF OrderInv
  <2>6. \A c \in 1 .. Len(links) : Sent(links[c]) \subseteq Numbered'
    BY <1>2 DEF OrderInv
  <2>7. Held' \subseteq Numbered'
    BY <1>1, <1>2, <2>2
  <2> QED BY <1>1, <2>4, <2>5, <2>6, <2>7 DEF OrderInv
<1> QED BY <1>5, <1>6 DEF Record, e

LEMMA CutOrder == ASSUME TypeInv, OrderInv, Cut PROVE OrderInv'
<1>1. /\ UNCHANGED <<made, links>> /\ batch = <<>> /\ queue \in Seq(Rollouts)
      /\ WorkerInv
  BY DEF Cut, client, TypeInv, WorkerInv
<1>2. /\ batch' \in Seq(Rollouts) /\ queue' \in Seq(Rollouts) /\ Len(batch') \in Nat
      /\ \A i \in 1 .. Len(batch') : i \in 1 .. Len(queue) /\ batch'[i] = queue[i]
      /\ \A i \in 1 .. Len(queue') :
           Len(batch') + i \in 1 .. Len(queue) /\ queue'[i] = queue[Len(batch') + i]
  BY <1>1, CutParts
<1>3. /\ DOMAIN queue = 1 .. Len(queue) /\ DOMAIN batch' = 1 .. Len(batch')
      /\ DOMAIN queue' = 1 .. Len(queue') /\ Len(queue) \in Nat /\ Len(queue') \in Nat
  BY <1>1, <1>2, LenProperties
<1>4. \A i, j \in 1 .. Len(queue) : i < j => D!Before({queue[i]}, {queue[j]})
  BY <1>3 DEF OrderInv, HeldInOrder, D!Ordered
<1>5. D!Ordered(batch')
  BY <1>2, <1>3, <1>4 DEF D!Ordered
<1>6. D!Ordered(queue')
  <2> SUFFICES ASSUME NEW i \in 1 .. Len(queue'), NEW j \in 1 .. Len(queue'), i < j
               PROVE  D!Before({queue'[i]}, {queue'[j]})
    BY <1>3 DEF D!Ordered
  <2>1. Len(batch') + i < Len(batch') + j
    BY <1>2
  <2> QED BY <1>2, <1>4, <2>1
<1>7. D!Before(Members(batch'), Members(queue'))
  <2> SUFFICES ASSUME NEW a \in Members(batch'), NEW b \in Members(queue'), a[1] = b[1]
               PROVE  a[2] < b[2]
    BY DEF D!Before
  <2>1. PICK i \in 1 .. Len(batch') : a = batch'[i]
    BY <1>3 DEF Members
  <2>2. PICK j \in 1 .. Len(queue') : b = queue'[j]
    BY <1>3 DEF Members
  <2>3. i < Len(batch') + j
    BY <1>2
  <2>4. D!Before({a}, {b})
    BY <1>2, <1>4, <2>1, <2>2, <2>3
  <2> QED BY <2>4 DEF D!Before
<1>8. Held' \subseteq Held
  <2>1. Members(batch') \subseteq Members(queue)
    BY <1>2, <1>3 DEF Members
  <2>2. Members(queue') \subseteq Members(queue)
    BY <1>2, <1>3 DEF Members
  <2> QED BY <2>1, <2>2 DEF Held
<1>9. HeldInOrder'
  BY <1>5, <1>6, <1>7 DEF HeldInOrder
<1>10. Numbered \subseteq Numbered'
  BY <1>1 DEF Numbered
<1> QED BY <1>1, <1>8, <1>9, <1>10, NothingNew

\* The publisher loses its batch, and connections change their state only.
LEMMA DropOrder ==
  ASSUME OrderInv, batch' = <<>>, UNCHANGED <<made, queue>>, Len(links') = Len(links),
         \A c \in 1 .. Len(links) :
           links'[c].got = links[c].got /\ links'[c].wire = links[c].wire
  PROVE  OrderInv'
<1>1. Held' \subseteq Held /\ HeldInOrder'
  BY MembersNothing, BeforeNothing DEF Held, HeldInOrder, OrderInv
<1>2. Numbered \subseteq Numbered'
  BY DEF Numbered
<1> QED BY <1>1, <1>2, NothingNew

LEMMA KeepOrder ==
  ASSUME OrderInv, UNCHANGED <<made, queue, batch>>, Len(links') = Len(links),
         \A c \in 1 .. Len(links) :
           links'[c].got = links[c].got /\ links'[c].wire = links[c].wire
  PROVE  OrderInv'
<1>1. Held' \subseteq Held /\ HeldInOrder' /\ Numbered \subseteq Numbered'
  BY DEF Held, HeldInOrder, OrderInv, Numbered
<1> QED BY <1>1, NothingNew

LEMMA SendOrder == ASSUME TypeInv, OrderInv, Send PROVE OrderInv'
<1>1. UNCHANGED <<made, queue, batch>>
  BY DEF Send
<1>2. CASE links' = links
  BY <1>1, <1>2, KeepOrder
<1> DEFINE l == [to |-> target, state |-> "open", wire |-> <<>>, got |-> <<>>]
<1>3. CASE links' = Append(links, l) /\ l \in Link
  <2>1. links \in Seq(Link) /\ Len(links) \in Nat
    BY LenProperties DEF TypeInv, ClientInv
  <2>2. Sent(l) = {} /\ Fine(l)
    BY MembersNothing, BeforeNothing DEF Sent, Fine
  <2> HIDE DEF l
  <2>3. /\ Len(links') = Len(links) + 1 /\ links'[Len(links) + 1] = l
        /\ \A c \in 1 .. Len(links) : links'[c] = links[c]
        /\ \A c \in 1 .. Len(links') : c \in 1 .. Len(links) \/ c = Len(links) + 1
    BY <1>3, <2>1, AppendProperties
  <2>4. Held' = Held /\ HeldInOrder' /\ Numbered' = Numbered
    BY <1>1 DEF Held, HeldInOrder, OrderInv, Numbered
  <2>5. \A c \in 1 .. Len(links') :
          /\ Sent(links'[c]) \subseteq Numbered' /\ Fine(links'[c])
          /\ D!Before(Sent(links'[c]), Held')
    BY <2>2, <2>3, <2>4, BeforeNothing DEF OrderInv
  <2>6. ASSUME NEW c \in 1 .. Len(links'), NEW d \in 1 .. Len(links'), c < d
        PROVE  D!Before(Sent(links'[c]), Sent(links'[d]))
    <3>1. c \in 1 .. Len(links)
      BY <2>1, <2>3, <2>6
    <3>2. CASE d \in 1 .. Len(links)
      BY <2>3, <2>6, <3>1, <3>2 DEF OrderInv
    <3>3. CASE d = Len(links) + 1
      BY <2>2, <2>3, <3>3, BeforeNothing
    <3> QED BY <2>3, <3>2, <3>3
  <2>7. Held' \subseteq Numbered'
    BY <2>4 DEF OrderInv
  <2> QED BY <2>4, <2>5, <2>6, <2>7 DEF OrderInv
<1> QED BY <1>2, <1>3, SendClient

LEMMA WrittenOrder == ASSUME TypeInv, OrderInv, Written PROVE OrderInv'
<1> DEFINE w == Append(links[link].wire, batch)
           l == [links[link] EXCEPT !.wire = w]
<1>1. link \in 1 .. Len(links) /\ link = Len(links) /\ links' = [links EXCEPT ![link] = l]
  BY WrittenClient
<1>2. UNCHANGED <<made, queue>> /\ batch' = <<>>
  BY DEF Written
<1>3. /\ links \in Seq(Link) /\ Len(links) \in Nat /\ links[link] \in Link
      /\ batch \in Seq(Rollouts) /\ links[link].wire \in Seq(Seq(Rollouts))
  <2>1. links \in Seq(Link) /\ Len(links) \in Nat /\ batch \in Seq(Rollouts)
    BY LenProperties DEF TypeInv, ClientInv, WorkerInv
  <2>2. links[link] \in Link
    BY <1>1, <2>1, ElementOfSeq
  <2> QED BY <2>1, <2>2 DEF Link
<1>4. /\ D!Before(Sent(links[link]), Members(batch)) /\ D!Before(Members(batch), Members(queue))
      /\ D!Ordered(batch) /\ Orderly(links[link].wire)
      /\ D!Before(Members(links[link].got), On(links[link].wire))
  <2>1. D!Before(Sent(links[link]), Held) /\ HeldInOrder /\ Fine(links[link])
    BY <1>1 DEF OrderInv
  <2> QED BY <2>1, BeforeParts DEF Held, HeldInOrder, Fine
<1>5. /\ D!Before(On(links[link].wire), Members(batch))
      /\ D!Before(Members(links[link].got), Members(batch))
  BY <1>4, BeforeParts DEF Sent
<1>6. On(w) = On(links[link].wire) \cup Members(batch) /\ Orderly(w)
  BY <1>3, <1>4, <1>5, OnAppend
<1>7. w \in Seq(Seq(Rollouts))
  BY <1>3, AppendProperties
<1> HIDE DEF w
<1>8. l \in Link /\ l.got = links[link].got /\ l.wire = w
  BY <1>3, <1>7 DEF Link
<1> HIDE DEF l
<1>9. Sent(l) = Sent(links[link]) \cup Members(batch)
  BY <1>6, <1>8 DEF Sent
<1>10. Fine(l)
  BY <1>4, <1>5, <1>6, <1>8, BeforeBoth DEF Fine
<1>11. /\ Len(links') = Len(links) /\ links'[link] = l
       /\ \A d \in 1 .. Len(links) : d # link => links'[d] = links[d]
  BY <1>1, <1>3, <1>8, Replaced
<1>12. Held' = Members(queue) /\ HeldInOrder' /\ Numbered' = Numbered
  BY <1>2, MembersNothing, BeforeNothing DEF Held, HeldInOrder, OrderInv, Numbered
<1>13. Members(queue) \subseteq Held /\ Members(batch) \subseteq Held /\ Held \subseteq Numbered
  BY DEF Held, OrderInv
<1>14. \A c \in 1 .. Len(links) : Sent(links'[c]) \subseteq Numbered' /\ Fine(links'[c])
  BY <1>1, <1>9, <1>10, <1>11, <1>12, <1>13 DEF OrderInv
<1>15. ASSUME NEW c \in 1 .. Len(links), NEW d \in 1 .. Len(links), c < d
       PROVE  D!Before(Sent(links'[c]), Sent(links'[d]))
  <2>1. c # link
    BY <1>1, <1>3, <1>15
  <2>2. CASE d # link
    BY <1>11, <1>15, <2>1, <2>2 DEF OrderInv
  <2>3. CASE d = link
    <3>1. D!Before(Sent(links[c]), Sent(links[link])) /\ D!Before(Sent(links[c]), Held)
      BY <1>15, <2>3 DEF OrderInv
    <3>2. D!Before(Sent(links[c]), Members(batch))
      BY <1>13, <3>1, BeforeParts
    <3>3. D!Before(Sent(links[c]), Sent(l))
      BY <1>9, <3>1, <3>2, BeforeBoth
    <3> QED BY <1>11, <2>1, <2>3, <3>3
  <2> QED BY <2>2, <2>3
<1>16. \A c \in 1 .. Len(links) : D!Before(Sent(links'[c]), Held')
  <2> SUFFICES ASSUME NEW c \in 1 .. Len(links) PROVE D!Before(Sent(links'[c]), Members(queue))
    BY <1>12
  <2>1. D!Before(Sent(links[c]), Members(queue))
    BY <1>13, BeforeParts DEF OrderInv
  <2>2. CASE c # link
    BY <1>11, <2>1, <2>2
  <2>3. CASE c = link
    <3>1. D!Before(Sent(l), Members(queue))
      BY <1>4, <1>9, <2>1, <2>3, BeforeUnion
    <3> QED BY <1>11, <2>3, <3>1
  <2> QED BY <2>2, <2>3
<1> QED BY <1>11, <1>12, <1>13, <1>14, <1>15, <1>16 DEF OrderInv

LEMMA ReceiveOrder ==
  ASSUME TypeInv, OrderInv, NEW c \in 1 .. Len(links), Receive(c) PROVE OrderInv'
<1> DEFINE b == Head(links[c].wire)
           fits == Len(ingest[links[c].to]) < LearnerDepth
           l == Taken(c)
<1>1. /\ links' = [links EXCEPT ![c] = l] /\ l \in Link /\ l.wire = Tail(links[c].wire)
      /\ l.got = (IF fits THEN links[c].got \o b ELSE links[c].got)
      /\ b \in Seq(Rollouts) /\ links[c].got \in Seq(Rollouts)
      /\ links[c].wire \in Seq(Seq(Rollouts)) /\ links[c].wire # <<>>
  BY TakenIs
<1>2. D!Before(Members(links[c].got), On(links[c].wire)) /\ Orderly(links[c].wire)
  BY DEF OrderInv, Fine
<1>3. /\ On(l.wire) \subseteq On(links[c].wire) /\ Members(b) \subseteq On(links[c].wire)
      /\ Orderly(l.wire) /\ D!Before(Members(b), On(l.wire))
  BY <1>1, <1>2, OnTail
<1> HIDE DEF b, l, fits
<1>4. Members(l.got) \subseteq Members(links[c].got) \cup Members(b)
  BY <1>1, MembersConcat
<1>5. Sent(l) \subseteq Sent(links[c])
  BY <1>3, <1>4 DEF Sent
<1>6. D!Before(Members(l.got), On(l.wire))
  <2>1. D!Before(Members(links[c].got), On(l.wire))
    BY <1>2, <1>3, BeforeParts
  <2>2. D!Before(Members(links[c].got) \cup Members(b), On(l.wire))
    BY <1>3, <2>1, BeforeUnion
  <2> QED BY <1>4, <2>2, BeforeParts
<1>7. UNCHANGED <<made, batch, queue>>
  BY DEF Receive, publisher
<1> QED BY <1>1, <1>3, <1>5, <1>6, <1>7, NothingNewOn DEF Fine

LEMMA StateOrder ==
  ASSUME TypeInv, OrderInv, NEW c \in 1 .. Len(links), Break(c) \/ HandlerEnds(c) PROVE OrderInv'
<1>1. links \in Seq(Link) /\ links[c] \in Link
  BY ElementOfSeq DEF TypeInv, ClientInv
<1>2. UNCHANGED <<made, batch, queue>>
  BY DEF Break, HandlerEnds, publisher
<1>3. CASE Break(c)
  <2> DEFINE l == [links[c] EXCEPT !.state = "broken"]
  <2>1. l \in Link /\ l.got = links[c].got /\ l.wire = links[c].wire
    BY <1>1 DEF Link
  <2>2. links' = [links EXCEPT ![c] = l]
    BY <1>3 DEF Break
  <2> HIDE DEF l
  <2>3. Sent(l) = Sent(links[c]) /\ Fine(l)
    BY <2>1 DEF Sent, Fine, OrderInv
  <2> QED BY <1>2, <2>1, <2>2, <2>3, NothingNewOn
<1>4. CASE HandlerEnds(c)
  <2> DEFINE l == [links[c] EXCEPT !.state = "ended", !.wire = <<>>]
  <2>1. l \in Link /\ l.got = links[c].got /\ l.wire = <<>>
    <3>1. <<>> \in Seq(Seq(Rollouts))
      OBVIOUS
    <3>2. l \in Link
      BY <1>1, <3>1 DEF Link
    <3> QED BY <1>1, <3>2 DEF Link
  <2>2. links' = [links EXCEPT ![c] = l]
    BY <1>4 DEF HandlerEnds
  <2> HIDE DEF l
  <2>3. Sent(l) \subseteq Sent(links[c]) /\ Fine(l)
    BY <2>1, MembersNothing, BeforeNothing DEF Sent, Fine
  <2> QED BY <1>2, <2>1, <2>2, <2>3, NothingNewOn
<1> QED BY <1>3, <1>4

LEMMA ResetOrder ==
  ASSUME TypeInv, OrderInv, Reset, UNCHANGED <<made, queue>>, batch' = batch \/ batch' = <<>>
  PROVE  OrderInv'
<1>1. /\ Len(links') = Len(links)
      /\ \A c \in 1 .. Len(links) : links'[c].wire = links[c].wire /\ links'[c].got = links[c].got
  BY ResetGives DEF TypeInv
<1> QED BY <1>1, DropOrder, KeepOrder

LEMMA OrderNext == ASSUME TypeInv, OrderInv, [Next]_vars PROVE OrderInv'
<1>0. DOMAIN links = 1 .. Len(links)
  BY LenProperties DEF TypeInv, ClientInv
<1>1. ASSUME UNCHANGED <<made, queue, batch, links>> PROVE OrderInv'
  BY <1>1, KeepOrder
<1>2. ASSUME NEW s \in Sims, Record(s) PROVE OrderInv'
  BY <1>2, RecordOrder
<1>3. CASE EnterWait \/ WaitEnds \/ Exit
  BY <1>1, <1>3 DEF EnterWait, WaitEnds, Exit, Publisher, client
<1>4. CASE SendNowhere
  <2>1. batch' = <<>> /\ UNCHANGED <<made, queue, links>>
    BY <1>4 DEF SendNowhere, Publisher, client
  <2> QED BY <2>1, DropOrder
<1>5. CASE WriteFails
  BY <1>5, ResetOrder DEF WriteFails
<1>6. CASE SetTarget
  <2>1. UNCHANGED <<made, queue, batch>> /\ (UNCHANGED links \/ Reset)
    BY <1>6 DEF SetTarget, publisher
  <2> QED BY <1>1, <2>1, ResetOrder
<1>7. ASSUME NEW c \in DOMAIN links, Break(c) \/ Receive(c) \/ HandlerEnds(c) PROVE OrderInv'
  BY <1>0, <1>7, StateOrder, ReceiveOrder
<1>8. ASSUME NEW l \in Learners, Take(l) PROVE OrderInv'
  BY <1>1, <1>8 DEF Take, publisher, client
<1>9. ASSUME NEW t, Directive(t) PROVE OrderInv'
  BY <1>1, <1>9 DEF Directive, publisher, client
<1>10. CASE StopSims \/ StopClient \/ StopPublisher \/ StopDone
  BY <1>1, <1>10 DEF StopSims, StopClient, StopPublisher, StopDone, publisher, client
<1>11. CASE UNCHANGED vars
  BY <1>1, <1>11 DEF vars, publisher, client
<1> QED BY <1>2, <1>3, <1>4, <1>5, <1>6, <1>7, <1>8, <1>9, <1>10, <1>11, CutOrder, SendOrder,
           WrittenOrder DEF Next
-----------------------------------------------------------------------------
(* What the learners use.                                                  *)

Unique(s) == \A i, j \in DOMAIN s : i # j => s[i] # s[j]

\* What was received for learner l.
Landed(l) ==
  UNION {Members(links[c].got) : c \in {d \in 1 .. Len(links) : links[d].to = l}}

\* A batch in a learner's queue was received for it, and nobody has used it;
\* no rollout is in two of them.
UseInv ==
  /\ \A l \in Learners : Members(used[l]) \subseteq Landed(l)
  /\ \A l \in Learners : \A i \in 1 .. Len(ingest[l]) :
       /\ Members(ingest[l][i]) \subseteq Landed(l)
       /\ Unique(ingest[l][i])
       /\ \A k \in Learners : Members(ingest[l][i]) \cap Members(used[k]) = {}
  /\ \A l, k \in Learners : \A i \in 1 .. Len(ingest[l]), j \in 1 .. Len(ingest[k]) :
       l # k \/ i # j => Members(ingest[l][i]) \cap Members(ingest[k][j]) = {}

LEMMA UseInit == Init => UseInv
<1> SUFFICES ASSUME Init PROVE UseInv
  OBVIOUS
<1>1. \A l \in Learners : ingest[l] = <<>> /\ used[l] = <<>> /\ Len(ingest[l]) = 0
  BY DEF Init
<1> QED BY <1>1, MembersNothing DEF UseInv

\* What was received stays received.
LEMMA LandedStays ==
  ASSUME Len(links') \in Nat, Len(links) \in Nat, Len(links') >= Len(links),
         \A c \in 1 .. Len(links) :
           links'[c].to = links[c].to /\ Members(links[c].got) \subseteq Members(links'[c].got),
         NEW l
  PROVE  Landed(l) \subseteq Landed(l)'
<1> SUFFICES ASSUME NEW r \in Landed(l) PROVE r \in Landed(l)'
  OBVIOUS
<1>1. PICK c \in 1 .. Len(links) : links[c].to = l /\ r \in Members(links[c].got)
  BY DEF Landed
<1>2. c \in 1 .. Len(links') /\ links'[c].to = l /\ r \in Members(links'[c].got)
  BY <1>1
<1> QED BY <1>2 DEF Landed

LEMMA QuietUse ==
  ASSUME UseInv, UNCHANGED <<ingest, used>>, \A l \in Learners : Landed(l) \subseteq Landed(l)'
  PROVE  UseInv'
BY DEF UseInv

\* A batch that is received is new to everybody.
LEMMA NewToAll ==
  ASSUME TypeInv, OrderInv, NEW c \in 1 .. Len(links), Receive(c)
  PROVE  LET b == Head(links[c].wire)
         IN /\ Unique(b) /\ D!Ordered(b) /\ Members(b) \subseteq Numbered
            /\ \A d \in 1 .. Len(links) :
                 IF d <= c THEN D!Before(Members(links[d].got), Members(b))
                           ELSE D!Before(Members(b), Members(links[d].got))
            /\ \A l \in Learners : Members(b) \cap Landed(l) = {}
<1> DEFINE b == Head(links[c].wire)
<1>1. /\ b \in Seq(Rollouts) /\ links[c].wire \in Seq(Seq(Rollouts)) /\ links[c].wire # <<>>
  BY TakenIs
<1>2. D!Before(Members(links[c].got), On(links[c].wire)) /\ Orderly(links[c].wire)
  BY DEF OrderInv, Fine
<1>3. Members(b) \subseteq On(links[c].wire) /\ D!Ordered(b)
  BY <1>1, <1>2, OnTail
<1> HIDE DEF b
<1>4. Members(b) \subseteq Sent(links[c]) /\ Sent(links[c]) \subseteq Numbered
  BY <1>3 DEF Sent, OrderInv
<1>5. \A d \in 1 .. Len(links) : Members(links[d].got) \subseteq Sent(links[d])
                               /\ Sent(links[d]) \subseteq Numbered
  BY DEF Sent, OrderInv
<1>6. ASSUME NEW d \in 1 .. Len(links)
      PROVE  /\ d <= c => D!Before(Members(links[d].got), Members(b))
             /\ ~ (d <= c) => D!Before(Members(b), Members(links[d].got))
  <2>1. CASE d = c
    BY <1>2, <1>3, <2>1, BeforeParts
  <2>2. CASE d < c
    <3>1. D!Before(Sent(links[d]), Sent(links[c]))
      BY <2>2 DEF OrderInv
    <3> QED BY <1>4, <1>5, <2>2, <3>1, BeforeParts
  <2>3. CASE d > c
    <3>1. D!Before(Sent(links[c]), Sent(links[d]))
      BY <2>3 DEF OrderInv
    <3> QED BY <1>4, <1>5, <2>3, <3>1, BeforeParts
  <2> QED BY <2>1, <2>2, <2>3
<1>7. Numbered \subseteq Rollouts
  BY DEF Numbered
<1>8. \A d \in 1 .. Len(links) : Members(b) \cap Members(links[d].got) = {}
  <2> SUFFICES ASSUME NEW d \in 1 .. Len(links) PROVE Members(b) \cap Members(links[d].got) = {}
    OBVIOUS
  <2>1. Members(b) \in SUBSET Rollouts /\ Members(links[d].got) \in SUBSET Rollouts
    BY <1>4, <1>5, <1>7
  <2> QED BY <1>6, <2>1, BeforeApart
<1>9. \A l \in Learners : Members(b) \cap Landed(l) = {}
  BY <1>8 DEF Landed
<1>10. Unique(b)
  <2>1. DOMAIN b = 1 .. Len(b) /\ Len(b) \in Nat /\ \A i \in 1 .. Len(b) : b[i] \in Rollouts
    BY <1>1, LenProperties
  <2>2. ASSUME NEW i \in 1 .. Len(b), NEW j \in 1 .. Len(b), i < j PROVE b[i] # b[j]
    <3>1. D!Before({b[i]}, {b[j]}) /\ {b[i]} \in SUBSET Rollouts /\ {b[j]} \in SUBSET Rollouts
      BY <1>3, <2>1, <2>2 DEF D!Ordered
    <3>2. {b[i]} \cap {b[j]} = {}
      BY <3>1, BeforeApart
    <3> QED BY <3>2
  <2>3. \A i, j \in 1 .. Len(b) : i # j => i < j \/ j < i
    BY <2>1
  <2> QED BY <2>1, <2>2, <2>3 DEF Unique
<1> QED BY <1>3, <1>4, <1>6, <1>9, <1>10 DEF b

LEMMA ReceiveLanded ==
  ASSUME TypeInv, NEW c \in 1 .. Len(links), Receive(c)
  PROVE  /\ \A l \in Learners : Landed(l) \subseteq Landed(l)'
         /\ Len(ingest[links[c].to]) < LearnerDepth =>
              \A l \in {links[c].to} : Members(Head(links[c].wire)) \subseteq Landed(l)'
<1> DEFINE b == Head(links[c].wire)
           fits == Len(ingest[links[c].to]) < LearnerDepth
           l == Taken(c)
<1>1. /\ links' = [links EXCEPT ![c] = l] /\ l \in Link /\ l.to = links[c].to
      /\ l.got = (IF fits THEN links[c].got \o b ELSE links[c].got)
      /\ b \in Seq(Rollouts) /\ links[c].got \in Seq(Rollouts)
  BY TakenIs
<1>2. links \in Seq(Link) /\ Len(links) \in Nat
  BY LenProperties DEF TypeInv, ClientInv
<1> HIDE DEF b, l, fits
<1>3. /\ Len(links') = Len(links) /\ links'[c] = l
      /\ \A d \in 1 .. Len(links) : d # c => links'[d] = links[d]
  BY <1>1, <1>2, Replaced
<1>4. /\ Members(links[c].got) \subseteq Members(l.got)
      /\ fits => Members(b) \subseteq Members(l.got)
  BY <1>1, MembersConcat
<1>5. \A d \in 1 .. Len(links) :
        links'[d].to = links[d].to /\ Members(links[d].got) \subseteq Members(links'[d].got)
  BY <1>1, <1>3, <1>4
<1>6. \A k \in Learners : Landed(k) \subseteq Landed(k)'
  BY <1>2, <1>3, <1>5, LandedStays
<1>7. ASSUME fits, NEW k \in {links[c].to} PROVE Members(b) \subseteq Landed(k)'
  <2>1. links'[c].to = k /\ c \in 1 .. Len(links')
    BY <1>1, <1>3, <1>7
  <2> QED BY <1>3, <1>4, <1>7, <2>1 DEF Landed
<1> QED BY <1>6, <1>7 DEF b, fits

LEMMA ReceiveUse ==
  ASSUME TypeInv, OrderInv, UseInv, NEW c \in 1 .. Len(links), Receive(c) PROVE UseInv'
<1> DEFINE b == Head(links[c].wire)
           t == links[c].to
<1>1. /\ Unique(b) /\ \A l \in Learners : Members(b) \cap Landed(l) = {}
  BY NewToAll
<1>2. b \in Seq(Rollouts) /\ t \in Learners
  BY TakenIs
<1>3. /\ \A l \in Learners : Landed(l) \subseteq Landed(l)'
      /\ Len(ingest[t]) < LearnerDepth => \A l \in {t} : Members(b) \subseteq Landed(l)'
  BY ReceiveLanded
<1>4. /\ used' = used
      /\ ingest' = IF Len(ingest[t]) < LearnerDepth
                   THEN [ingest EXCEPT ![t] = Append(ingest[t], b)] ELSE ingest
      /\ ingest \in [Learners -> Seq(Seq(Rollouts))]
  BY DEF Receive, TypeInv, LearnerInv
<1> HIDE DEF b, t
<1>5. CASE ~ (Len(ingest[t]) < LearnerDepth)
  BY <1>3, <1>4, <1>5, QuietUse
<1>6. CASE Len(ingest[t]) < LearnerDepth
  <2>1. ingest[t] \in Seq(Seq(Rollouts)) /\ ingest' = [ingest EXCEPT ![t] = Append(ingest[t], b)]
    BY <1>2, <1>4, <1>6
  <2>2. /\ Len(ingest[t]) \in Nat /\ Len(ingest'[t]) = Len(ingest[t]) + 1
        /\ ingest'[t][Len(ingest[t]) + 1] = b
        /\ \A i \in 1 .. Len(ingest[t]) : ingest'[t][i] = ingest[t][i]
        /\ \A l \in Learners : l # t => ingest'[l] = ingest[l]
    BY <1>2, <1>4, <2>1, AppendProperties, LenProperties
  <2>3. \* every entry is an old one, or the new one
        \A l \in Learners : \A i \in 1 .. Len(ingest'[l]) :
          \/ i \in 1 .. Len(ingest[l]) /\ ingest'[l][i] = ingest[l][i]
          \/ l = t /\ i = Len(ingest[t]) + 1 /\ ingest'[l][i] = b
    BY <2>2
  <2>4. \A k \in Learners : Members(b) \cap Members(used[k]) = {}
    BY <1>1 DEF UseInv
  <2>5. \A l \in Learners : \A i \in 1 .. Len(ingest[l]) :
          Members(b) \cap Members(ingest[l][i]) = {}
    BY <1>1 DEF UseInv
  <2>6. \A l \in Learners : Members(used[l]) \subseteq Landed(l)'
    BY <1>3 DEF UseInv
  <2>7. ASSUME NEW l \in Learners, NEW i \in 1 .. Len(ingest'[l])
        PROVE  /\ Members(ingest'[l][i]) \subseteq Landed(l)' /\ Unique(ingest'[l][i])
               /\ \A k \in Learners : Members(ingest'[l][i]) \cap Members(used[k]) = {}
    <3>1. CASE i \in 1 .. Len(ingest[l]) /\ ingest'[l][i] = ingest[l][i]
      BY <1>3, <3>1 DEF UseInv
    <3>2. CASE l = t /\ ingest'[l][i] = b
      BY <1>1, <1>3, <1>6, <2>4, <3>2
    <3>3. \/ i \in 1 .. Len(ingest[l]) /\ ingest'[l][i] = ingest[l][i]
          \/ l = t /\ i = Len(ingest[t]) + 1 /\ ingest'[l][i] = b
      BY <2>3
    <3> QED BY <3>1, <3>2, <3>3
  <2>8. ASSUME NEW l \in Learners, NEW k \in Learners,
               NEW i \in 1 .. Len(ingest'[l]), NEW j \in 1 .. Len(ingest'[k]), l # k \/ i # j
        PROVE  Members(ingest'[l][i]) \cap Members(ingest'[k][j]) = {}
    <3>1. CASE i \in 1 .. Len(ingest[l]) /\ ingest'[l][i] = ingest[l][i]
      <4>1. CASE j \in 1 .. Len(ingest[k]) /\ ingest'[k][j] = ingest[k][j]
        BY <2>8, <3>1, <4>1 DEF UseInv
      <4>2. CASE ingest'[k][j] = b
        BY <2>5, <3>1, <4>2
      <4>3. \/ j \in 1 .. Len(ingest[k]) /\ ingest'[k][j] = ingest[k][j]
            \/ k = t /\ j = Len(ingest[t]) + 1 /\ ingest'[k][j] = b
        BY <2>3
      <4> QED BY <4>1, <4>2, <4>3
    <3>2. CASE l = t /\ i = Len(ingest[t]) + 1 /\ ingest'[l][i] = b
      <4>1. j \in 1 .. Len(ingest[k]) /\ ingest'[k][j] = ingest[k][j]
        BY <2>3, <2>8, <3>2
      <4> QED BY <2>5, <3>2, <4>1
    <3>3. \/ i \in 1 .. Len(ingest[l]) /\ ingest'[l][i] = ingest[l][i]
          \/ l = t /\ i = Len(ingest[t]) + 1 /\ ingest'[l][i] = b
      BY <2>3
    <3> QED BY <3>1, <3>2, <3>3
  <2>9. \A l \in Learners : Members(used'[l]) \subseteq Landed(l)'
    BY <1>4, <2>6
  <2>10. \A l \in Learners : \A i \in 1 .. Len(ingest'[l]) :
           /\ Members(ingest'[l][i]) \subseteq Landed(l)' /\ Unique(ingest'[l][i])
           /\ \A k \in Learners : Members(ingest'[l][i]) \cap Members(used'[k]) = {}
    BY <1>4, <2>7
  <2> QED BY <2>8, <2>9, <2>10 DEF UseInv
<1> QED BY <1>5, <1>6

LEMMA TakeIs ==
  ASSUME TypeInv, NEW l \in Learners, Take(l)
  PROVE  /\ Head(ingest[l]) \in Seq(Rollouts) /\ Head(ingest[l]) = ingest[l][1]
         /\ 1 \in 1 .. Len(ingest[l]) /\ used[l] \in Seq(Rollouts)
         /\ used' = [used EXCEPT ![l] = used[l] \o Head(ingest[l])]
         /\ used'[l] = used[l] \o Head(ingest[l])
         /\ Members(used'[l]) = Members(used[l]) \cup Members(ingest[l][1])
         /\ \A k \in Learners : k # l => used'[k] = used[k] /\ ingest'[k] = ingest[k]
         /\ \A i \in 1 .. Len(ingest'[l]) :
              i + 1 \in 1 .. Len(ingest[l]) /\ ingest'[l][i] = ingest[l][i + 1] /\ i + 1 # 1
<1>1. /\ ingest \in [Learners -> Seq(Seq(Rollouts))] /\ used \in [Learners -> Seq(Rollouts)]
      /\ ingest[l] # <<>>
      /\ used' = [used EXCEPT ![l] = used[l] \o Head(ingest[l])]
      /\ ingest' = [ingest EXCEPT ![l] = Tail(ingest[l])]
  BY DEF Take, TypeInv, LearnerInv
<1>2. ingest[l] \in Seq(Seq(Rollouts)) /\ used[l] \in Seq(Rollouts)
  BY <1>1
<1>3. /\ Len(ingest[l]) \in Nat \ {0} /\ Head(ingest[l]) \in Seq(Rollouts)
      /\ Len(Tail(ingest[l])) = Len(ingest[l]) - 1
      /\ \A i \in 1 .. Len(Tail(ingest[l])) : Tail(ingest[l])[i] = ingest[l][i + 1]
      /\ Head(ingest[l]) = ingest[l][1]
  BY <1>1, <1>2, HeadTailProperties, EmptySeq
<1>4. /\ used'[l] = used[l] \o Head(ingest[l]) /\ ingest'[l] = Tail(ingest[l])
      /\ \A k \in Learners : k # l => used'[k] = used[k] /\ ingest'[k] = ingest[k]
  BY <1>1
<1>5. Members(used'[l]) = Members(used[l]) \cup Members(ingest[l][1])
  BY <1>2, <1>3, <1>4, MembersConcat
<1>6. \A i \in 1 .. Len(ingest'[l]) :
        i + 1 \in 1 .. Len(ingest[l]) /\ ingest'[l][i] = ingest[l][i + 1] /\ i + 1 # 1
  BY <1>3, <1>4
<1> QED BY <1>1, <1>2, <1>3, <1>4, <1>5, <1>6

LEMMA TakeUse == ASSUME TypeInv, UseInv, NEW l \in Learners, Take(l) PROVE UseInv'
<1>1. /\ 1 \in 1 .. Len(ingest[l])
      /\ Members(used'[l]) = Members(used[l]) \cup Members(ingest[l][1])
      /\ \A k \in Learners : k # l => used'[k] = used[k] /\ ingest'[k] = ingest[k]
      /\ \A i \in 1 .. Len(ingest'[l]) :
           i + 1 \in 1 .. Len(ingest[l]) /\ ingest'[l][i] = ingest[l][i + 1] /\ i + 1 # 1
  BY TakeIs
<1>2. \A k \in Learners : Landed(k)' = Landed(k)
  BY DEF Take, client, Landed
<1>3. \A k \in Learners : Members(used'[k]) \subseteq Landed(k)
  BY <1>1 DEF UseInv
<1>4. \* every entry that is left was there, and is not the one that was taken
      \A k \in Learners : \A i \in 1 .. Len(ingest'[k]) :
        \E j \in 1 .. Len(ingest[k]) :
          /\ ingest'[k][i] = ingest[k][j] /\ (k # l \/ j # 1)
          /\ j = (IF k = l THEN i + 1 ELSE i)
  BY <1>1
<1>5. ASSUME NEW k \in Learners, NEW i \in 1 .. Len(ingest'[k])
      PROVE  /\ Members(ingest'[k][i]) \subseteq Landed(k) /\ Unique(ingest'[k][i])
             /\ \A m \in Learners : Members(ingest'[k][i]) \cap Members(used'[m]) = {}
  <2>1. PICK j \in 1 .. Len(ingest[k]) : ingest'[k][i] = ingest[k][j] /\ (k # l \/ j # 1)
    BY <1>4, <1>5
  <2>2. Members(ingest[k][j]) \cap Members(ingest[l][1]) = {}
    BY <1>1, <2>1 DEF UseInv
  <2>3. \A m \in Learners : Members(ingest[k][j]) \cap Members(used[m]) = {}
    BY DEF UseInv
  <2>4. \A m \in Learners : Members(ingest[k][j]) \cap Members(used'[m]) = {}
    BY <1>1, <2>2, <2>3
  <2> QED BY <2>1, <2>4 DEF UseInv
<1>6. ASSUME NEW k \in Learners, NEW m \in Learners,
             NEW i \in 1 .. Len(ingest'[k]), NEW j \in 1 .. Len(ingest'[m]), k # m \/ i # j
      PROVE  Members(ingest'[k][i]) \cap Members(ingest'[m][j]) = {}
  <2>1. PICK i2 \in 1 .. Len(ingest[k]) :
          ingest'[k][i] = ingest[k][i2] /\ i2 = (IF k = l THEN i + 1 ELSE i)
    BY <1>4
  <2>2. PICK j2 \in 1 .. Len(ingest[m]) :
          ingest'[m][j] = ingest[m][j2] /\ j2 = (IF m = l THEN j + 1 ELSE j)
    BY <1>4
  <2>3. k # m \/ i2 # j2
    BY <1>6, <2>1, <2>2
  <2>4. Members(ingest[k][i2]) \cap Members(ingest[m][j2]) = {}
    BY <2>3 DEF UseInv
  <2> QED BY <2>1, <2>2, <2>4
<1>7. \A k \in Learners : Members(used'[k]) \subseteq Landed(k)'
  BY <1>2, <1>3
<1>8. \A k \in Learners : \A i \in 1 .. Len(ingest'[k]) :
        /\ Members(ingest'[k][i]) \subseteq Landed(k)' /\ Unique(ingest'[k][i])
        /\ \A m \in Learners : Members(ingest'[k][i]) \cap Members(used'[m]) = {}
  BY <1>2, <1>5
<1> QED BY <1>6, <1>7, <1>8 DEF UseInv

LEMMA UseNext == ASSUME TypeInv, OrderInv, UseInv, [Next]_vars PROVE UseInv'
<1>0. DOMAIN links = 1 .. Len(links) /\ Len(links) \in Nat /\ links \in Seq(Link)
  BY LenProperties DEF TypeInv, ClientInv
<1>1. ASSUME UNCHANGED <<ingest, used>>, Len(links') = Len(links),
             \A c \in 1 .. Len(links) : links'[c].to = links[c].to /\ links'[c].got = links[c].got
      PROVE  UseInv'
  <2>1. \A l \in Learners : Landed(l) \subseteq Landed(l)'
    BY <1>0, <1>1, LandedStays
  <2> QED BY <1>1, <2>1, QuietUse
<1>2. ASSUME UNCHANGED <<ingest, used, links>> PROVE UseInv'
  BY <1>1, <1>2
<1>3. ASSUME UNCHANGED <<ingest, used>>, Reset PROVE UseInv'
  BY <1>1, <1>3, ResetGives DEF TypeInv
<1>4. CASE EnterWait \/ WaitEnds \/ Exit \/ Cut \/ SendNowhere
  BY <1>2, <1>4 DEF EnterWait, WaitEnds, Exit, Cut, SendNowhere, Publisher, client, learner
<1>5. CASE Send
  <2>1. UNCHANGED <<ingest, used>>
    BY <1>5 DEF Send, learner
  <2>2. CASE links' = links
    BY <1>2, <2>1, <2>2
  <2> DEFINE l == [to |-> target, state |-> "open", wire |-> <<>>, got |-> <<>>]
  <2>3. CASE links' = Append(links, l) /\ l \in Link
    <3> HIDE DEF l
    <3>1. Len(links') = Len(links) + 1 /\ \A c \in 1 .. Len(links) : links'[c] = links[c]
      BY <1>0, <2>3, AppendProperties
    <3>2. \A k \in Learners : Landed(k) \subseteq Landed(k)'
      BY <1>0, <3>1, LandedStays
    <3> QED BY <2>1, <3>2, QuietUse
  <2> QED BY <1>5, <2>2, <2>3, SendClient
<1>6. CASE Written
  <2> DEFINE l == [links[link] EXCEPT !.wire = Append(links[link].wire, batch)]
  <2>1. /\ link \in 1 .. Len(links) /\ links' = [links EXCEPT ![link] = l]
        /\ UNCHANGED <<ingest, used>>
    BY <1>6, WrittenClient DEF Written, learner
  <2>2. links[link] \in Link
    BY <1>0, <2>1, ElementOfSeq
  <2>3. l.to = links[link].to /\ l.got = links[link].got
    BY <2>2 DEF Link
  <2> HIDE DEF l
  <2>4. Len(links') = Len(links) /\ \A c \in 1 .. Len(links) :
          links'[c].to = links[c].to /\ links'[c].got = links[c].got
    BY <1>0, <2>1, <2>3
  <2> QED BY <1>1, <2>1, <2>4
<1>7. CASE WriteFails
  BY <1>3, <1>7 DEF WriteFails, learner
<1>8. CASE SetTarget
  BY <1>2, <1>3, <1>8 DEF SetTarget, learner
<1>9. ASSUME NEW c \in 1 .. Len(links), Break(c) \/ HandlerEnds(c) PROVE UseInv'
  <2>1. links[c] \in Link /\ UNCHANGED <<ingest, used>>
    BY <1>0, <1>9, ElementOfSeq DEF Break, HandlerEnds, learner
  <2>2. PICK l : links' = [links EXCEPT ![c] = l] /\ l.to = links[c].to /\ l.got = links[c].got
    <3>1. CASE Break(c)
      <4>1. links' = [links EXCEPT ![c] = [links[c] EXCEPT !.state = "broken"]]
        BY <3>1 DEF Break
      <4> WITNESS [links[c] EXCEPT !.state = "broken"]
      <4> QED BY <2>1, <4>1 DEF Link
    <3>2. CASE HandlerEnds(c)
      <4>1. links' = [links EXCEPT ![c] = [links[c] EXCEPT !.state = "ended", !.wire = <<>>]]
        BY <3>2 DEF HandlerEnds
      <4> WITNESS [links[c] EXCEPT !.state = "ended", !.wire = <<>>]
      <4> QED BY <2>1, <4>1 DEF Link
    <3> QED BY <1>9, <3>1, <3>2
  <2>3. Len(links') = Len(links) /\ \A d \in 1 .. Len(links) :
          links'[d].to = links[d].to /\ links'[d].got = links[d].got
    BY <1>0, <2>2
  <2> QED BY <1>1, <2>1, <2>3
<1>10. ASSUME NEW c \in 1 .. Len(links), Receive(c) PROVE UseInv'
  BY <1>10, ReceiveUse
<1>11. ASSUME NEW l \in Learners, Take(l) PROVE UseInv'
  BY <1>11, TakeUse
<1>12. ASSUME NEW s \in Sims, Record(s) PROVE UseInv'
  BY <1>2, <1>12 DEF Record, client, learner
<1>13. ASSUME NEW t, Directive(t) PROVE UseInv'
  BY <1>2, <1>13 DEF Directive, client, learner
<1>14. CASE StopSims \/ StopClient \/ StopPublisher \/ StopDone
  BY <1>2, <1>14 DEF StopSims, StopClient, StopPublisher, StopDone, client, learner
<1>15. CASE UNCHANGED vars
  BY <1>2, <1>15 DEF vars, client, learner
<1> QED BY <1>0, <1>4, <1>5, <1>6, <1>7, <1>8, <1>9, <1>10, <1>11, <1>12, <1>13, <1>14, <1>15 DEF Next
-----------------------------------------------------------------------------
(* The abstract steps.                                                     *)

\* The connections as RolloutDelivery sees them.
Seen == [c \in DOMAIN links |-> [to |-> links[c].to, got |-> links[c].got]]
SeenLink == [to : Learners, got : Seq(Rollouts)]

LEMMA SeenIs ==
  ASSUME links \in Seq(Link)
  PROVE  /\ Seen \in Seq(SeenLink) /\ Len(Seen) = Len(links) /\ Len(links) \in Nat
         /\ DOMAIN Seen = 1 .. Len(links) /\ DOMAIN links = 1 .. Len(links)
         /\ \A c \in 1 .. Len(links) :
              /\ Seen[c] = [to |-> links[c].to, got |-> links[c].got]
              /\ Seen[c].to = links[c].to /\ Seen[c].got = links[c].got
              /\ links[c].to \in Learners /\ links[c].got \in Seq(Rollouts)
<1>1. Len(links) \in Nat /\ DOMAIN links = 1 .. Len(links)
  BY LenProperties
<1>2. \A c \in 1 .. Len(links) : links[c].to \in Learners /\ links[c].got \in Seq(Rollouts)
  <2> SUFFICES ASSUME NEW c \in 1 .. Len(links)
               PROVE  links[c].to \in Learners /\ links[c].got \in Seq(Rollouts)
    OBVIOUS
  <2>1. links[c] \in Link
    BY ElementOfSeq
  <2> QED BY <2>1 DEF Link
<1>3. Seen \in [1 .. Len(links) -> SeenLink]
  BY <1>1, <1>2 DEF Seen, SeenLink
<1>4. Seen \in Seq(SeenLink)
  BY <1>1, <1>3
<1>5. Len(Seen) = Len(links)
  BY <1>1, <1>3, <1>4
<1> QED BY <1>1, <1>2, <1>3, <1>4, <1>5 DEF Seen

LEMMA InitRefines == Init => D!Init
<1> SUFFICES ASSUME Init PROVE D!Init
  OBVIOUS
<1>1. links = <<>> /\ links \in Seq(Link) /\ Len(links) = 0
  BY DEF Init
<1>2. Seen = <<>>
  BY <1>1, SeenIs, EmptySeq
<1> QED BY <1>2 DEF Init, D!Init, Seen

\* A step that neither numbers, receives, connects nor uses is none at all.
LEMMA Stutters ==
  ASSUME TypeInv, links' \in Seq(Link), Len(links') = Len(links),
         \A c \in 1 .. Len(links) : links'[c].to = links[c].to /\ links'[c].got = links[c].got,
         UNCHANGED <<made, used>>
  PROVE  UNCHANGED D!vars
<1>1. DOMAIN links = 1 .. Len(links) /\ DOMAIN links' = 1 .. Len(links)
  BY LenProperties DEF TypeInv, ClientInv
<1>2. Seen' = Seen
  BY <1>1 DEF Seen
<1> QED BY <1>2 DEF D!vars, Seen

LEMMA SameStutters == ASSUME UNCHANGED <<made, used, links>> PROVE UNCHANGED D!vars
BY DEF D!vars

LEMMA RecordRefines == ASSUME TypeInv, NEW s \in Sims, Record(s) PROVE D!Next
<1>1. made' = [made EXCEPT ![s] = made[s] + 1] /\ links' = links /\ used' = used
  BY DEF Record, client, learner
<1>2. D!Make(s)
  BY <1>1 DEF D!Make
<1> QED BY <1>2 DEF D!Next

LEMMA SendRefines == ASSUME TypeInv, Send PROVE D!Next \/ UNCHANGED D!vars
<1>1. UNCHANGED <<made, used>>
  BY DEF Send, learner
<1>2. CASE links' = links
  BY <1>1, <1>2, SameStutters
<1> DEFINE l == [to |-> target, state |-> "open", wire |-> <<>>, got |-> <<>>]
           m == [to |-> target, got |-> <<>>]
<1>3. CASE links' = Append(links, l) /\ target \in Learners /\ l \in Link
  <2>1. l.to = target /\ l.got = <<>> /\ m \in SeenLink
    BY <1>3 DEF SeenLink
  <2>2. links \in Seq(Link)
    BY DEF TypeInv, ClientInv
  <2> HIDE DEF l
  <2>3. /\ links' \in Seq(Link) /\ Len(links') = Len(links) + 1 /\ links'[Len(links) + 1] = l
        /\ \A c \in 1 .. Len(links) : links'[c] = links[c]
    BY <1>3, <2>2, AppendProperties
  <2>4. /\ Seen \in Seq(SeenLink) /\ Len(Seen) = Len(links) /\ Len(links) \in Nat
        /\ \A c \in 1 .. Len(links) : Seen[c] = [to |-> links[c].to, got |-> links[c].got]
    BY <2>2, SeenIs
  <2>5. /\ Seen' \in Seq(SeenLink) /\ Len(Seen') = Len(links')
        /\ \A c \in 1 .. Len(links') : Seen'[c] = [to |-> links'[c].to, got |-> links'[c].got]
    <3>1. DOMAIN links' = 1 .. Len(links') /\ Len(links') \in Nat
      BY <2>3, LenProperties
    <3>2. \A c \in 1 .. Len(links') : links'[c].to \in Learners /\ links'[c].got \in Seq(Rollouts)
      <4> SUFFICES ASSUME NEW c \in 1 .. Len(links')
                   PROVE  links'[c].to \in Learners /\ links'[c].got \in Seq(Rollouts)
        OBVIOUS
      <4>1. links'[c] \in Link
        BY <2>3, ElementOfSeq
      <4> QED BY <4>1 DEF Link
    <3>3. Seen' \in [1 .. Len(links') -> SeenLink]
      BY <3>1, <3>2 DEF Seen, SeenLink
    <3>4. Seen' \in Seq(SeenLink) /\ Len(Seen') = Len(links')
      BY <3>1, <3>3
    <3> QED BY <3>1, <3>4 DEF Seen
  <2> HIDE DEF m
  <2>6. /\ Append(Seen, m) \in Seq(SeenLink) /\ Len(Append(Seen, m)) = Len(links) + 1
        /\ \A c \in 1 .. Len(links) : Append(Seen, m)[c] = Seen[c]
        /\ Append(Seen, m)[Len(links) + 1] = m
    BY <2>1, <2>4, AppendProperties
  <2>7. \A c \in 1 .. Len(links) + 1 : Seen'[c] = Append(Seen, m)[c]
    <3> SUFFICES ASSUME NEW c \in 1 .. Len(links) + 1 PROVE Seen'[c] = Append(Seen, m)[c]
      OBVIOUS
    <3>1. CASE c \in 1 .. Len(links)
      BY <2>3, <2>4, <2>5, <2>6, <3>1
    <3>2. CASE c = Len(links) + 1
      <4>1. Seen'[c] = [to |-> l.to, got |-> l.got]
        BY <2>3, <2>4, <2>5, <3>2
      <4> QED BY <2>1, <2>6, <3>2, <4>1 DEF m
    <3> QED BY <2>4, <3>1, <3>2
  <2>8. Seen' = Append(Seen, m)
    BY <2>3, <2>5, <2>6, <2>7, SeqEqual
  <2>9. PICK k \in Learners : k = target
    BY <1>3
  <2>10. D!Connect(k)
    BY <1>1, <2>8, <2>9 DEF D!Connect, Seen, m
  <2>11. D!Next
    BY <2>10 DEF D!Next
  <2> QED BY <2>11
<1> QED BY <1>2, <1>3, SendClient

LEMMA ResetStutters == ASSUME TypeInv, Reset, UNCHANGED <<made, used>> PROVE UNCHANGED D!vars
BY ResetGives, Stutters DEF TypeInv

\* What is behind a sequence.
LEMMA AddedIs ==
  ASSUME NEW s \in Seq(Rollouts), NEW t \in Seq(Rollouts)
  PROVE  D!Extends(s \o t, s) /\ D!Added(s \o t, s) = t
<1>1. /\ Len(s) \in Nat /\ Len(t) \in Nat /\ s \o t \in Seq(Rollouts)
      /\ Len(s \o t) = Len(s) + Len(t)
      /\ \A i \in 1 .. Len(s) + Len(t) : (s \o t)[i] = IF i <= Len(s) THEN s[i] ELSE t[i - Len(s)]
  BY ConcatProperties, LenProperties
<1>2. \A i \in 1 .. Len(s) + Len(t) : (s \o t)[i] \in Rollouts
  BY <1>1, ElementOfSeq
<1>3. SubSeq(s \o t, 1, Len(s)) = s
  <2> DEFINE p == SubSeq(s \o t, 1, Len(s))
  <2>1. \A i \in 1 .. Len(s) : (s \o t)[i] \in Rollouts
    BY <1>1, <1>2
  <2>2. /\ p \in Seq(Rollouts) /\ Len(p) = IF 1 <= Len(s) THEN Len(s) - 1 + 1 ELSE 0
        /\ \A i \in 1 .. Len(s) - 1 + 1 : p[i] = (s \o t)[1 + i - 1]
    BY <1>1, <2>1, SubSeqProperties
  <2> HIDE DEF p
  <2>3. Len(p) = Len(s)
    BY <1>1, <2>2
  <2>4. \A i \in 1 .. Len(p) : p[i] = s[i]
    BY <1>1, <2>2, <2>3
  <2>5. p = s
    BY <2>2, <2>3, <2>4, SeqEqual
  <2> QED BY <2>5 DEF p
<1>4. SubSeq(s \o t, Len(s) + 1, Len(s \o t)) = t
  <2> DEFINE p == SubSeq(s \o t, Len(s) + 1, Len(s) + Len(t))
  <2>1. \A i \in Len(s) + 1 .. Len(s) + Len(t) : (s \o t)[i] \in Rollouts
    BY <1>1, <1>2
  <2>2. Len(s) + 1 \in Int /\ Len(s) + Len(t) \in Int
    BY <1>1
  <2>3. /\ p \in Seq(Rollouts)
        /\ Len(p) = IF Len(s) + 1 <= Len(s) + Len(t) THEN Len(s) + Len(t) - (Len(s) + 1) + 1 ELSE 0
        /\ \A i \in 1 .. Len(s) + Len(t) - (Len(s) + 1) + 1 : p[i] = (s \o t)[Len(s) + 1 + i - 1]
    BY <2>1, <2>2, SubSeqProperties
  <2> HIDE DEF p
  <2>4. Len(p) = Len(t)
    BY <1>1, <2>3
  <2>5. \A i \in 1 .. Len(p) : p[i] = t[i]
    <3> SUFFICES ASSUME NEW i \in 1 .. Len(t) PROVE p[i] = t[i]
      BY <2>4
    <3>0. /\ Len(s) + 1 + i - 1 = Len(s) + i
          /\ i \in 1 .. Len(s) + Len(t) - (Len(s) + 1) + 1
      BY <1>1
    <3>1. p[i] = (s \o t)[Len(s) + i]
      <4>1. p[i] = (s \o t)[Len(s) + 1 + i - 1]
        BY <2>3, <3>0
      <4> QED BY <3>0, <4>1
    <3>2. Len(s) + i \in 1 .. Len(s) + Len(t) /\ ~ (Len(s) + i <= Len(s)) /\ Len(s) + i - Len(s) = i
      BY <1>1
    <3>3. (s \o t)[Len(s) + i] = t[Len(s) + i - Len(s)]
      BY <1>1, <3>2
    <3> QED BY <3>1, <3>2, <3>3
  <2>6. p = t
    BY <2>3, <2>4, <2>5, SeqEqual
  <2> QED BY <1>1, <2>6 DEF p
<1>5. Len(s \o t) >= Len(s)
  BY <1>1
<1> QED BY <1>3, <1>4, <1>5 DEF D!Extends, D!Added

LEMMA ReceiveRefines ==
  ASSUME TypeInv, OrderInv, NEW c \in 1 .. Len(links), Receive(c)
  PROVE  D!Next \/ UNCHANGED D!vars
<1> DEFINE b == Head(links[c].wire)
           fits == Len(ingest[links[c].to]) < LearnerDepth
           l == Taken(c)
<1>1. /\ links' = [links EXCEPT ![c] = l] /\ l \in Link /\ l.to = links[c].to
      /\ l.got = (IF fits THEN links[c].got \o b ELSE links[c].got)
      /\ b \in Seq(Rollouts) /\ links[c].got \in Seq(Rollouts)
  BY TakenIs
<1>2. /\ D!Ordered(b) /\ Members(b) \subseteq Numbered
      /\ \A d \in 1 .. Len(links) :
           IF d <= c THEN D!Before(Members(links[d].got), Members(b))
                     ELSE D!Before(Members(b), Members(links[d].got))
  BY NewToAll
<1>3. UNCHANGED <<made, used>> /\ links \in Seq(Link)
  BY DEF Receive, TypeInv, ClientInv
<1> HIDE DEF b, l, fits
<1>4. /\ links' \in Seq(Link) /\ Len(links') = Len(links) /\ links'[c] = l
      /\ \A d \in 1 .. Len(links) : d # c => links'[d] = links[d]
      /\ DOMAIN links = 1 .. Len(links) /\ DOMAIN links' = DOMAIN links
  BY <1>1, <1>3, Replaced
<1>5. CASE ~ fits
  BY <1>1, <1>3, <1>4, <1>5, Stutters
<1>6. CASE fits
  <2>1. /\ DOMAIN Seen = 1 .. Len(links)
        /\ \A d \in 1 .. Len(links) : /\ Seen[d] = [to |-> links[d].to, got |-> links[d].got]
                                      /\ Seen[d].got = links[d].got
                                      /\ links[d].got \in Seq(Rollouts)
    BY <1>3, SeenIs
  <2>2. /\ Seen' = [d \in 1 .. Len(links) |-> [to |-> links'[d].to, got |-> links'[d].got]]
        /\ Seen'[c].got = links[c].got \o b
    BY <1>1, <1>4, <1>6 DEF Seen
  <2>3. Seen' = [Seen EXCEPT ![c] = [to |-> Seen[c].to, got |-> Seen'[c].got]]
    <3>1. Seen'[c] = [to |-> Seen[c].to, got |-> Seen'[c].got]
      BY <1>1, <1>4, <2>1, <2>2
    <3>2. \A d \in 1 .. Len(links) : d # c => Seen'[d] = Seen[d]
      BY <1>4, <2>1, <2>2
    <3>3. /\ Seen = [d \in 1 .. Len(links) |-> Seen[d]]
          /\ Seen' = [d \in 1 .. Len(links) |-> Seen'[d]]
      BY <1>4, <2>2 DEF Seen
    <3> QED BY <3>1, <3>2, <3>3
  <2>4. D!Extends(Seen'[c].got, Seen[c].got) /\ D!Added(Seen'[c].got, Seen[c].got) = b
    <3>1. Seen'[c].got = links[c].got \o b /\ Seen[c].got = links[c].got
      BY <2>1, <2>2
    <3>2. D!Extends(links[c].got \o b, links[c].got) /\ D!Added(links[c].got \o b, links[c].got) = b
      BY <1>1, AddedIs
    <3> QED BY <3>1, <3>2
  <2>5. D!Members(b) \subseteq D!Rollouts
    <3>1. Numbered \subseteq D!Rollouts
      <4> SUFFICES ASSUME NEW r \in Numbered PROVE r \in D!Rollouts
        OBVIOUS
      <4>1. r \in Sims \X Nat /\ r[2] < made[r[1]]
        BY Sizes DEF Numbered, Rollouts
      <4> QED BY <4>1 DEF D!Rollouts
    <3> QED BY <1>1, <1>2, <3>1, MembersIs
  <2>6. \A d \in 1 .. Len(links) :
          IF d <= c THEN D!Before(D!Members(Seen[d].got), D!Members(b))
                    ELSE D!Before(D!Members(b), D!Members(Seen[d].got))
    <3>1. D!Members(b) = Members(b)
      BY <1>1, MembersIs
    <3>2. \A d \in 1 .. Len(links) : D!Members(Seen[d].got) = Members(links[d].got)
      BY <2>1, MembersIs
    <3> QED BY <1>2, <3>1, <3>2
  <2>7. D!Arrive(c)
    BY <1>2, <1>3, <2>1, <2>3, <2>4, <2>5, <2>6 DEF D!Arrive, Seen
  <2>8. c \in DOMAIN Seen
    BY <2>1
  <2> QED BY <2>7, <2>8 DEF D!Next, Seen
<1> QED BY <1>5, <1>6

LEMMA TakeRefines == ASSUME TypeInv, UseInv, NEW l \in Learners, Take(l) PROVE D!Next
<1> DEFINE b == Head(ingest[l])
<1>1. /\ b \in Seq(Rollouts) /\ b = ingest[l][1] /\ 1 \in 1 .. Len(ingest[l])
      /\ used[l] \in Seq(Rollouts) /\ used' = [used EXCEPT ![l] = used[l] \o b]
      /\ used'[l] = used[l] \o b
  BY TakeIs
<1>2. UNCHANGED <<made, links>> /\ links \in Seq(Link) /\ used \in [Learners -> Seq(Rollouts)]
  BY DEF Take, client, TypeInv, ClientInv, LearnerInv
<1> HIDE DEF b
<1>3. /\ Members(b) \subseteq Landed(l) /\ Unique(b)
      /\ \A k \in Learners : Members(b) \cap Members(used[k]) = {}
  BY <1>1 DEF UseInv
<1>4. D!Extends(used'[l], used[l]) /\ D!Added(used'[l], used[l]) = b
  <2>1. D!Extends(used[l] \o b, used[l]) /\ D!Added(used[l] \o b, used[l]) = b
    BY <1>1, AddedIs
  <2> QED BY <1>1, <2>1
<1>5. D!Members(b) = Members(b)
  BY <1>1, MembersIs
<1>6. D!Members(b) \cap D!Used = {}
  <2>1. \A k \in Learners : D!Members(used[k]) = Members(used[k])
    BY <1>2, MembersIs
  <2> QED BY <1>3, <1>5, <2>1 DEF D!Used
<1>7. \A r \in D!Members(b) : \E c \in DOMAIN Seen : Seen[c].to = l /\ r \in D!Members(Seen[c].got)
  <2> SUFFICES ASSUME NEW r \in Members(b)
               PROVE  \E c \in DOMAIN Seen : Seen[c].to = l /\ r \in D!Members(Seen[c].got)
    BY <1>5
  <2>1. PICK c \in 1 .. Len(links) : links[c].to = l /\ r \in Members(links[c].got)
    BY <1>3 DEF Landed
  <2>2. /\ DOMAIN Seen = 1 .. Len(links) /\ Seen[c].to = links[c].to
        /\ Seen[c].got = links[c].got /\ links[c].got \in Seq(Rollouts)
    BY <1>2, SeenIs
  <2>3. D!Members(Seen[c].got) = Members(links[c].got)
    BY <2>2, MembersIs
  <2> QED BY <2>1, <2>2, <2>3
<1>8. \A i, j \in DOMAIN b : i # j => b[i] # b[j]
  BY <1>3 DEF Unique
<1>9. used' = [used EXCEPT ![l] = used'[l]]
  BY <1>1
<1>10. D!Use(l)
  BY <1>2, <1>4, <1>6, <1>7, <1>8, <1>9 DEF D!Use, Seen
<1> QED BY <1>10 DEF D!Next

LEMMA NextRefines ==
  ASSUME TypeInv, OrderInv, UseInv, [Next]_vars PROVE [D!Next]_(D!vars)
<1>0. DOMAIN links = 1 .. Len(links) /\ links \in Seq(Link)
  BY LenProperties DEF TypeInv, ClientInv
<1>1. ASSUME UNCHANGED <<made, used, links>> PROVE UNCHANGED D!vars
  BY <1>1, SameStutters
<1>2. CASE EnterWait \/ WaitEnds \/ Exit \/ Cut \/ SendNowhere
  BY <1>1, <1>2 DEF EnterWait, WaitEnds, Exit, Cut, SendNowhere, Publisher, client, learner
<1>3. CASE Written
  <2> DEFINE l == [links[link] EXCEPT !.wire = Append(links[link].wire, batch)]
  <2>1. /\ link \in 1 .. Len(links) /\ links' = [links EXCEPT ![link] = l]
        /\ UNCHANGED <<made, used>> /\ ClientInv'
    BY <1>3, WrittenClient DEF Written, learner
  <2>2. links[link] \in Link
    BY <1>0, <2>1, ElementOfSeq
  <2>3. l.to = links[link].to /\ l.got = links[link].got
    BY <2>2 DEF Link
  <2> HIDE DEF l
  <2>4. Len(links') = Len(links) /\ \A c \in 1 .. Len(links) :
          links'[c].to = links[c].to /\ links'[c].got = links[c].got
    BY <1>0, <2>1, <2>3
  <2> QED BY <2>1, <2>4, Stutters DEF ClientInv
<1>4. CASE WriteFails
  BY <1>4, ResetStutters DEF WriteFails, learner
<1>5. CASE SetTarget
  <2>1. UNCHANGED <<made, used>> /\ (UNCHANGED links \/ Reset)
    BY <1>5 DEF SetTarget, learner
  <2> QED BY <1>1, <2>1, ResetStutters
<1>6. ASSUME NEW c \in 1 .. Len(links), Break(c) \/ HandlerEnds(c) PROVE UNCHANGED D!vars
  <2>1. links[c] \in Link /\ UNCHANGED <<made, used>> /\ ClientInv'
    BY <1>0, <1>6, ElementOfSeq, StateChanges DEF Break, HandlerEnds, learner
  <2>2. PICK l : links' = [links EXCEPT ![c] = l] /\ l.to = links[c].to /\ l.got = links[c].got
    <3>1. CASE Break(c)
      <4>1. links' = [links EXCEPT ![c] = [links[c] EXCEPT !.state = "broken"]]
        BY <3>1 DEF Break
      <4> WITNESS [links[c] EXCEPT !.state = "broken"]
      <4> QED BY <2>1, <4>1 DEF Link
    <3>2. CASE HandlerEnds(c)
      <4>1. links' = [links EXCEPT ![c] = [links[c] EXCEPT !.state = "ended", !.wire = <<>>]]
        BY <3>2 DEF HandlerEnds
      <4> WITNESS [links[c] EXCEPT !.state = "ended", !.wire = <<>>]
      <4> QED BY <2>1, <4>1 DEF Link
    <3> QED BY <1>6, <3>1, <3>2
  <2>3. Len(links') = Len(links) /\ \A d \in 1 .. Len(links) :
          links'[d].to = links[d].to /\ links'[d].got = links[d].got
    BY <1>0, <2>2
  <2> QED BY <2>1, <2>3, Stutters DEF ClientInv
<1>7. ASSUME NEW t, Directive(t) PROVE UNCHANGED D!vars
  BY <1>1, <1>7 DEF Directive, client, learner
<1>8. CASE StopSims \/ StopClient \/ StopPublisher \/ StopDone
  BY <1>1, <1>8 DEF StopSims, StopClient, StopPublisher, StopDone, client, learner
<1>9. CASE UNCHANGED vars
  BY <1>1, <1>9 DEF vars, client, learner
<1>10. ASSUME NEW s \in Sims, Record(s) PROVE D!Next
  BY <1>10, RecordRefines
<1>11. ASSUME NEW l \in Learners, Take(l) PROVE D!Next
  BY <1>11, TakeRefines
<1>12. ASSUME NEW c \in 1 .. Len(links), Receive(c) PROVE D!Next \/ UNCHANGED D!vars
  BY <1>12, ReceiveRefines
<1> QED BY <1>0, <1>2, <1>3, <1>4, <1>5, <1>6, <1>7, <1>8, <1>9, <1>10, <1>11, <1>12, SendRefines
        DEF Next

\* The pipeline implements RolloutDelivery, whatever overflows, breaks and is
\* pointed elsewhere: no rollout is used twice, by one learner or by two, and
\* those of a simulator arrive in order, from connection to connection.
THEOREM PipelineDelivers == Spec => Delivery
<1> DEFINE Inv == TypeInv /\ OrderInv /\ UseInv
<1>1. Init => Inv /\ D!Init
  BY TypeInit, OrderInit, UseInit, InitRefines
<1>2. Inv /\ [Next]_vars => Inv'
  BY TypeNext, OrderNext, UseNext
<1>3. Inv /\ [Next]_vars => [D!Next]_(D!vars)
  BY NextRefines
<1> HIDE DEF Inv
<1> QED BY <1>1, <1>2, <1>3, PTL DEF Spec, Delivery, D!Spec
=============================================================================
