------------------------ MODULE WorkerProcess_proofs ------------------------
(* Proofs about WorkerProcess, for every machine and every configuration:   *)
(* the division of the threads, which ThreadSplit describes, and what stop() *)
(* and the destructor leave behind.                                         *)
EXTENDS WorkerProcess, SequenceTheorems, TLAPS

-----------------------------------------------------------------------------
(* The division of the threads.                                            *)

\* Both sides have a thread once they are chosen.
SplitInv ==
  /\ hw \in Nat /\ viz \in BOOLEAN /\ sim \in Nat /\ ray \in Nat
  /\ step \in {"config", "chosen", "clamped"}
  /\ step = "chosen" => sim >= 1 /\ ray >= 1
  /\ SplitFits

\* At least one thread is available, and a machine with two or more available
\* threads has set the reserved ones apart.
LEMMA AvailFacts ==
  ASSUME hw \in Nat, viz \in BOOLEAN
  PROVE  /\ Avail \in Nat /\ Avail >= 1
         /\ Cores \in Nat /\ Reserved \in Nat
         /\ Avail >= 2 => Avail = Cores - Reserved
  BY DEF Avail, Cores, Reserved, AtLeast, AtMost

\* Four fifths of a number, rounded down, is a number.
LEMMA ShareIsNat == ASSUME NEW n \in Nat PROVE (4 * n) \div 5 \in Nat
  OBVIOUS

\* What is left to the other side is at least one thread.
LEMMA RestFacts ==
  ASSUME hw \in Nat, viz \in BOOLEAN, NEW n \in Nat
  PROVE  Rest(n) \in Nat /\ Rest(n) >= 1
<1>1. Cores \in Nat /\ Reserved \in Nat
  BY AvailFacts
<1> QED
  BY <1>1 DEF Rest

\* Every way of choosing gives each side a thread.
LEMMA ChooseInv == ASSUME SplitInv, Choose PROVE SplitInv'
<1>1. hw \in Nat /\ viz \in BOOLEAN /\ sim \in Nat /\ ray \in Nat
  BY DEF SplitInv
<1>2. sim' \in Nat /\ ray' \in Nat /\ sim' >= 1 /\ ray' >= 1
  <2>1. CASE BothAuto
    <3>1. Avail \in Nat /\ (4 * Avail) \div 5 \in Nat
      BY <1>1, AvailFacts, ShareIsNat
    <3> QED
      BY <3>1, <2>1 DEF BothAuto, AtLeast
  <2>2. CASE RaysAuto
    BY <1>1, <2>2, RestFacts DEF RaysAuto
  <2>3. CASE SimsAuto
    BY <1>1, <2>3, RestFacts DEF SimsAuto
  <2>4. CASE Pinned
    BY <1>1, <2>4 DEF Pinned
  <2> QED
    BY <2>1, <2>2, <2>3, <2>4 DEF Choose
<1> QED
  BY <1>1, <1>2 DEF SplitInv, Choose, SplitFits

\* The clamps bring both sides within what is available.
LEMMA ClampInv == ASSUME SplitInv, Clamp PROVE SplitInv'
<1>1. /\ hw \in Nat /\ viz \in BOOLEAN /\ sim \in Nat /\ ray \in Nat
      /\ sim >= 1 /\ ray >= 1
  BY DEF SplitInv, Clamp
<1>2. /\ Avail \in Nat /\ Avail >= 1 /\ Cores \in Nat /\ Reserved \in Nat
      /\ Avail >= 2 => Avail = Cores - Reserved
  BY <1>1, AvailFacts
<1>3. Avail' = Avail /\ Cores' = Cores /\ Reserved' = Reserved
  BY DEF Clamp, Avail, Cores, Reserved
<1>4. /\ sim' \in Nat /\ ray' \in Nat
      /\ sim' >= 1 /\ ray' \in 1..8
      /\ Avail >= 2 => sim' + ray' <= Avail
  BY <1>1, <1>2 DEF Clamp, AtLeast, AtMost
<1> QED
  BY <1>1, <1>2, <1>3, <1>4 DEF SplitInv, Clamp, SplitFits

\* The split fits the machine, whatever the configuration and the machine are.
THEOREM SplitAlwaysFits == SplitSpec => []SplitFits
<1>1. SplitInit => SplitInv
  BY SplitAssumption DEF SplitAssumption, SplitInit, SplitInv, SplitFits
<1>2. SplitInv /\ [SplitNext]_splitVars => SplitInv'
  <2>1. ASSUME SplitInv, UNCHANGED splitVars PROVE SplitInv'
    BY <2>1 DEF splitVars, SplitInv, SplitFits, Avail, Cores, Reserved
  <2> QED
    BY <2>1, ChooseInv, ClampInv DEF SplitNext
<1>3. SplitInv => SplitFits
  BY DEF SplitInv
<1> QED
  BY <1>1, <1>2, <1>3, PTL DEF SplitSpec

\* When both sides are chosen automatically, or one is pinned below what is
\* available, the choice uses exactly the available threads.
THEOREM ChoiceIsExact == SplitSpec => ChoiceStands
<1>1. SplitInit => SplitInv
  BY SplitAssumption DEF SplitAssumption, SplitInit, SplitInv, SplitFits
<1>2. SplitInv /\ [SplitNext]_splitVars => SplitInv'
  <2>1. ASSUME SplitInv, UNCHANGED splitVars PROVE SplitInv'
    BY <2>1 DEF splitVars, SplitInv, SplitFits, Avail, Cores, Reserved
  <2> QED
    BY <2>1, ChooseInv, ClampInv DEF SplitNext
<1>3. ASSUME SplitInv, Choose, sim = 0 \/ ray = 0, sim < Avail, ray < Avail, Avail >= 2
      PROVE  sim' + ray' = Avail
  <2>1. hw \in Nat /\ viz \in BOOLEAN /\ sim \in Nat /\ ray \in Nat
    BY <1>3 DEF SplitInv
  <2>2. /\ Avail \in Nat /\ Cores \in Nat /\ Reserved \in Nat
        /\ Avail = Cores - Reserved
    BY <1>3, <2>1, AvailFacts
  <2>3. CASE BothAuto
    <3>1. (4 * Avail) \div 5 \in Nat /\ (4 * Avail) \div 5 < Avail
      BY <1>3, <2>2
    <3> QED
      BY <1>3, <2>2, <2>3, <3>1 DEF BothAuto, AtLeast
  <2>4. CASE RaysAuto
    BY <1>3, <2>1, <2>2, <2>4 DEF RaysAuto, Rest
  <2>5. CASE SimsAuto
    BY <1>3, <2>1, <2>2, <2>5 DEF SimsAuto, Rest
  <2> QED
    BY <1>3, <2>3, <2>4, <2>5 DEF Choose, Pinned
<1> QED
  BY <1>1, <1>2, <1>3, PTL DEF SplitSpec, ChoiceStands

-----------------------------------------------------------------------------
(* The worker divides its threads as ThreadSplit says, and once.           *)

\* A step of the worker divides the threads or leaves the division alone.
LEMMA SplitStep == ASSUME Next PROVE SplitNext \/ UNCHANGED splitVars
<1>1. ASSUME MainRuns PROVE SplitNext \/ UNCHANGED splitVars
  BY <1>1 DEF MainRuns, Divide, Initialized, InitFails, Run, StartHeartbeat,
       StartServices, StartSimulator, StartWindow
<1>2. ASSUME MainStops PROVE UNCHANGED splitVars
  BY <1>2 DEF MainStops, LeaveLoop, AskSimulator, JoinSimulator, SimulatorsJoined,
       StopSubscriber, JoinSubscriber, StopClient, LoadRunning, JoinClient,
       StopPublisher, JoinPublisher, StopWindow, JoinWindow, Reset
<1>3. ASSUME Beat \/ WriterEnds \/ CallBreaks \/ CallEnds \/ HandleSwitch
      PROVE  UNCHANGED splitVars
  BY <1>3 DEF Beat, OpenStream, SeeStop, KeepOn, StopReading, ReadFails, Finish,
       Reregister, Backoff, Retry, ClearRunning, BeatGoto, WriterEnds, CallBreaks,
       CallEnds, HandleSwitch
<1>4. ASSUME Signal \/ HandleShutdown \/ Threads \/ Over PROVE UNCHANGED splitVars
  BY <1>4 DEF Signal, HandleShutdown, Threads, SimulatorEnds, SimulatorFails,
       PublisherEnds, SubscriberEnds, WindowBuilt, WindowEnds, CloseWindow, Over, vars
<1> QED
  BY <1>1, <1>2, <1>3, <1>4 DEF Next

\* The worker process implements ThreadSplit: no later step, no failure and no
\* request to stop divides the threads again.
THEOREM WorkerSplits == Spec => SplitSpec
<1>1. Init => SplitInit
  BY DEF Init
<1>2. [Next]_vars => [SplitNext]_splitVars
  BY SplitStep DEF vars
<1> QED
  BY <1>1, <1>2, PTL DEF Spec, SplitSpec

-----------------------------------------------------------------------------
(* What stop() and the destructor leave behind.                            *)

SimStates == {"on", "asked", "ended"}
Before    == {"init", "ready", "heartbeat", "services"}
Serving   == {"simulators", "loop", "join simulator"}
SubGone   == {"stop client", "load running", "join client"}
ClientGone == {"stop publisher", "join publisher", "stop window", "join window",
               "reset", "over", "aborted"}
Gone      == {"over", "aborted"}

\* The threads of the simulators: started by run(), joined one after another
\* by stop(), and past that all of them have ended.
SimsInv ==
  /\ main \in Labels
  /\ Len(sims) <= sim /\ joined \in Nat /\ joined <= Len(sims)
  /\ main \in Before => Len(sims) = 0
  /\ main \in {"loop", "join simulator"} => Len(sims) = sim
  /\ main \in {"simulators", "loop"} => joined = 0
  /\ joined > 0 => Len(sims) = sim
  /\ \A i \in 1..joined : sims[i] = "ended"
  /\ main \notin Before \cup Serving => \A i \in 1..Len(sims) : sims[i] = "ended"

\* The publisher, the subscriber and the window: absent before run() starts
\* them, there as long as a simulator may run, and ended once joined.
ServicesInv ==
  /\ mode \in {"stream", "record", "alone"}
  /\ pub \in {"none", "on", "asked", "ended"}
  /\ sub \in {"none", "on", "asked", "deaf", "ended"}
  /\ win \in {"none", "building", "on", "asked", "deaf", "ended"}
  /\ main \in Before => pub = "none" /\ sub = "none" /\ win = "none"
  /\ main \in Serving =>
       (mode # "alone" => pub = "on") /\ (mode = "stream" => sub = "on")
  /\ main \in SubGone \cup ClientGone => sub \in {"none", "ended"}
  /\ main \in {"stop window", "join window", "reset", "over", "aborted"} =>
       pub \in {"none", "ended"}
  /\ main \in {"reset", "over", "aborted"} => win \in {"none", "ended"}

\* The flags: run() has set running_ before it starts anything.
FlagsInv ==
  /\ flag \in BOOLEAN /\ running \in BOOLEAN
  /\ main \in {"heartbeat", "services"} \cup Serving => running = TRUE

\* The heartbeat thread: running_ is set exactly while it lives, its writer
\* lives inside one of its streams, and stop() does not return before both are
\* over, whether it joins the thread or sees running_ cleared.
BeatInv ==
  /\ hb \in {"none"} \cup Beats
  /\ hbStop \in BOOLEAN /\ hbRunning \in BOOLEAN /\ joinable \in BOOLEAN
  /\ writer \in {"on", "done"} /\ call \in {"open", "ok", "refused"}
  /\ hbRunning = TRUE <=> Beating
  /\ writer = "on" => hb \in {"check", "read", "leave"}
  /\ main \in {"init", "ready", "heartbeat"} => hb = "none" /\ joinable = FALSE
  /\ main \in ClientGone => ~ Beating
  /\ main = "over" => joinable = FALSE

SimsType == sims \in Seq(SimStates)

WorkerInv == SplitInv /\ SimsType /\ SimsInv /\ FlagsInv /\ ServicesInv /\ BeatInv

\* Changing one entry of the threads, or asking all of them to stop, keeps
\* their number.
LEMMA SimsExcept ==
  ASSUME sims \in Seq(SimStates), NEW i \in 1..Len(sims), NEW x \in SimStates,
         sims' = [sims EXCEPT ![i] = x]
  PROVE  /\ sims' \in Seq(SimStates) /\ Len(sims') = Len(sims)
         /\ sims'[i] = x
         /\ \A j \in 1..Len(sims) : j # i => sims'[j] = sims[j]
<1>1. /\ [sims EXCEPT ![i] = x] \in Seq(SimStates)
      /\ Len([sims EXCEPT ![i] = x]) = Len(sims)
  BY ExceptSeq
<1> QED
  BY <1>1

LEMMA AskedSims ==
  ASSUME sims \in Seq(SimStates), RequestStop
  PROVE  /\ sims' \in Seq(SimStates) /\ Len(sims') = Len(sims)
         /\ \A j \in 1..Len(sims) : sims[j] = "ended" => sims'[j] = "ended"
<1>1. /\ DOMAIN sims = 1..Len(sims) /\ Len(sims) \in Nat
      /\ \A j \in 1..Len(sims) : sims[j] \in SimStates
  BY LenProperties, ElementOfSeq
<1>2. Asked(sims) \in [1..Len(sims) -> SimStates]
  BY <1>1 DEF Asked, SimStates
<1>3. /\ Asked(sims) \in Seq(SimStates) /\ Len(Asked(sims)) = Len(sims)
      /\ \A j \in 1..Len(sims) : sims[j] = "ended" => Asked(sims)[j] = "ended"
  <2>1. Asked(sims) \in Seq(SimStates) /\ Len(Asked(sims)) = Len(sims)
    BY <1>1, <1>2, IsASeq, LenProperties
  <2> QED
    BY <1>1, <2>1 DEF Asked
<1>4. CASE sims' = Asked(sims)
  BY <1>3, <1>4
<1>5. CASE sims # <<>> /\ sims' = [Asked(sims) EXCEPT ![Len(sims)] = sims[Len(sims)]]
  <2>1. Len(sims) \in 1..Len(sims) /\ sims[Len(sims)] \in SimStates
    BY <1>1, <1>5, EmptySeq
  <2> DEFINE a == Asked(sims)  n == Len(sims)  x == sims[Len(sims)]
  <2>2. a \in Seq(SimStates) /\ Len(a) = n /\ n \in 1..Len(a) /\ x \in SimStates
    BY <1>3, <2>1
  <2>3. [a EXCEPT ![n] = x] \in Seq(SimStates) /\ Len([a EXCEPT ![n] = x]) = Len(a)
    BY <2>2, ExceptSeq
  <2>4. \A j \in 1..n : sims[j] = "ended" => [a EXCEPT ![n] = x][j] = "ended"
    BY <1>3, <2>2, <1>1, <1>2
  <2> QED
    BY <1>5, <2>2, <2>3, <2>4
<1> QED
  BY <1>4, <1>5 DEF RequestStop

\* What a step needs to know of the number of simulators.
LEMMA SimsFacts ==
  ASSUME WorkerInv
  PROVE  /\ sim \in Nat /\ Len(sims) \in Nat /\ joined \in Nat /\ joined <= Len(sims)
         /\ sims \in Seq(SimStates) /\ DOMAIN sims = 1..Len(sims)
         /\ \A j \in 1..Len(sims) : sims[j] \in SimStates
<1>1. sim \in Nat /\ sims \in Seq(SimStates)
  BY DEF WorkerInv, SplitInv, SimsType
<1>2. /\ Len(sims) \in Nat /\ DOMAIN sims = 1..Len(sims)
      /\ \A j \in 1..Len(sims) : sims[j] \in SimStates
  BY <1>1, LenProperties, ElementOfSeq
<1>3. joined \in Nat /\ joined <= Len(sims)
  BY DEF WorkerInv, SimsInv
<1> QED
  BY <1>1, <1>2, <1>3

\* Every step leaves the threads alone, adds one, changes one or asks all.
LEMMA SimsChange ==
  ASSUME WorkerInv, Next
  PROVE  \/ UNCHANGED sims
         \/ sims' = Append(sims, "on")
         \/ \E i \in 1..Len(sims) : sims' = [sims EXCEPT ![i] = "asked"]
         \/ \E i \in 1..Len(sims) : sims' = [sims EXCEPT ![i] = "ended"]
         \/ RequestStop
<1>1. DOMAIN sims = 1..Len(sims)
  BY SimsFacts
<1>2. ASSUME MainRuns
      PROVE  UNCHANGED sims \/ sims' = Append(sims, "on")
  BY <1>2 DEF MainRuns, Divide, Initialized, InitFails, Run, StartHeartbeat,
       StartServices, StartSimulator, StartWindow, threadVars
<1>3. CASE AskSimulator
  <2>1. /\ sim \in Nat /\ Len(sims) \in Nat /\ joined \in Nat /\ joined <= Len(sims)
        /\ Len(sims) = sim /\ joined < sim
    BY <1>3, SimsFacts DEF AskSimulator, WorkerInv, SimsInv
  <2>2. joined + 1 \in 1..Len(sims)
    BY <2>1
  <2> QED
    BY <1>3, <2>2 DEF AskSimulator
<1>4. ASSUME MainStops, ~ AskSimulator PROVE UNCHANGED sims
  BY <1>4 DEF MainStops, LeaveLoop, AskSimulator, JoinSimulator, SimulatorsJoined,
       StopSubscriber, JoinSubscriber, StopClient, LoadRunning, JoinClient,
       StopPublisher, JoinPublisher, StopWindow, JoinWindow, Reset, threadVars
<1>5. ASSUME Beat \/ WriterEnds \/ CallBreaks \/ CallEnds \/ HandleSwitch \/ Over
      PROVE  UNCHANGED sims
  BY <1>5 DEF Beat, OpenStream, SeeStop, KeepOn, StopReading, ReadFails, Finish,
       Reregister, Backoff, Retry, ClearRunning, BeatGoto, WriterEnds, CallBreaks,
       CallEnds, HandleSwitch, Over, vars, threadVars
<1>6. ASSUME Signal \/ HandleShutdown \/ CloseWindow PROVE RequestStop
  BY <1>6 DEF Signal, HandleShutdown, CloseWindow
<1>7. ASSUME PublisherEnds \/ SubscriberEnds \/ WindowBuilt \/ WindowEnds
      PROVE  UNCHANGED sims
  BY <1>7 DEF PublisherEnds, SubscriberEnds, WindowBuilt, WindowEnds
<1>8. ASSUME NEW i \in DOMAIN sims, SimulatorEnds(i) \/ SimulatorFails(i)
      PROVE  \E j \in 1..Len(sims) : sims' = [sims EXCEPT ![j] = "ended"]
  BY <1>1, <1>8 DEF SimulatorEnds, SimulatorFails
<1> QED
  BY <1>2, <1>3, <1>4, <1>5, <1>6, <1>7, <1>8 DEF Next, Threads

LEMMA SimsTypeStep == ASSUME WorkerInv, Next PROVE SimsType'
<1>1. sims \in Seq(SimStates) /\ {"on", "asked", "ended"} \subseteq SimStates
  BY SimsFacts DEF SimStates
<1>2. ASSUME NEW i \in 1..Len(sims), NEW x \in SimStates, sims' = [sims EXCEPT ![i] = x]
      PROVE  SimsType'
  BY <1>1, <1>2, SimsExcept DEF SimsType
<1>3. CASE sims' = Append(sims, "on")
  BY <1>1, <1>3, AppendProperties DEF SimsType
<1>4. CASE RequestStop
  BY <1>1, <1>4, AskedSims DEF SimsType
<1>5. CASE UNCHANGED sims
  BY <1>1, <1>5 DEF SimsType
<1> QED
  BY <1>1, <1>2, <1>3, <1>4, <1>5, SimsChange

\* The simulators: started in one place, joined in order, and otherwise only
\* asked to end or ended.
LEMMA SimsStep == ASSUME WorkerInv, SplitInv', Next PROVE SimsInv'
<1>1. sim \in Nat /\ Len(sims) \in Nat /\ joined \in Nat /\ joined <= Len(sims)
  BY SimsFacts
<1>0. /\ sims \in Seq(SimStates) /\ DOMAIN sims = 1..Len(sims)
      /\ \A j \in 1..Len(sims) : sims[j] \in SimStates
  BY SimsFacts
<1>2. SimsInv /\ sim' \in Nat
  BY DEF WorkerInv, SplitInv
<1>joined. \A j \in 1..joined : j \in 1..Len(sims) /\ sims[j] = "ended"
  <2>1. \A j \in 1..joined : j \in 1..Len(sims)
    BY <1>1
  <2> QED
    BY <1>2, <2>1 DEF SimsInv
<1>3. ASSUME UNCHANGED <<sim, main, sims, joined>> PROVE SimsInv'
  BY <1>2, <1>3 DEF SimsInv
<1>4. CASE Divide
  BY <1>1, <1>2, <1>4 DEF Divide, procVars, threadVars, SimsInv, Before, Serving
<1>5. CASE Initialized \/ InitFails \/ Run \/ StartHeartbeat \/ StartServices
  <2>1. UNCHANGED <<sim, sims, joined>> /\ main \in Before
    BY <1>5 DEF Initialized, InitFails, Run, StartHeartbeat, StartServices, Goto,
         splitVars, threadVars, Before
  <2>2. main' \in Before \cup {"simulators", "over"}
    BY <1>5 DEF Initialized, InitFails, Run, StartHeartbeat, StartServices, Goto, Before
  <2>3. Len(sims) = 0
    BY <1>2, <2>1 DEF SimsInv
  <2>4. joined = 0
    BY <1>1, <2>3
  <2> QED
    BY <1>1, <1>2, <2>1, <2>2, <2>3, <2>4 DEF SimsInv, Before, Serving, Labels
<1>6. CASE StartSimulator
  <2>1. /\ main = "simulators" /\ Len(sims) < sim /\ sims' = Append(sims, "on")
        /\ UNCHANGED <<sim, main, joined>>
    BY <1>6 DEF StartSimulator, splitVars, procVars
  <2>2. sims' \in Seq(SimStates) /\ Len(sims') = Len(sims) + 1
    BY <1>0, <2>1, AppendProperties DEF SimStates
  <2> QED
    BY <1>1, <1>2, <2>1, <2>2 DEF SimsInv, Before, Serving
<1>7. CASE StartWindow \/ LeaveLoop \/ SimulatorsJoined
  <2>1. UNCHANGED <<sim, sims, joined>>
    BY <1>7 DEF StartWindow, LeaveLoop, SimulatorsJoined, splitVars, threadVars
  <2>2. CASE StartWindow
    BY <1>1, <1>2, <2>1, <2>2 DEF StartWindow, Goto, SimsInv, Before, Serving, Labels
  <2>3. CASE LeaveLoop
    BY <1>1, <1>2, <2>1, <2>3 DEF LeaveLoop, Goto, SimsInv, Before, Serving, Labels
  <2>4. CASE SimulatorsJoined
    BY <1>1, <1>2, <2>1, <2>4 DEF SimulatorsJoined, Goto, SimsInv, Before, Serving, Labels
  <2> QED
    BY <1>7, <2>2, <2>3, <2>4
<1>8. CASE JoinSimulator
  <2>1. main = "join simulator" /\ UNCHANGED <<sim, main, sims>>
    BY <1>8 DEF JoinSimulator, splitVars, threadVars
  <2>2. joined < sim /\ joined' = joined + 1 /\ sims[joined + 1] = "ended"
    BY <1>8 DEF JoinSimulator
  <2>3. Len(sims) = sim
    BY <1>2, <2>1 DEF SimsInv
  <2>4. joined' \in Nat /\ joined' <= Len(sims)
    BY <1>1, <2>2, <2>3
  <2>5. \A i \in 1..joined' : sims'[i] = "ended"
    <3>1. \A i \in 1..joined : sims[i] = "ended"
      BY <1>2 DEF SimsInv
    <3>2. joined \in Nat
      BY <1>1
    <3>3. \A i \in 1..joined + 1 : sims[i] = "ended"
      BY <3>1, <3>2, <2>2
    <3> QED
      BY <3>3, <2>1, <2>2
  <2> QED
    BY <1>1, <1>2, <2>1, <2>2, <2>3, <2>4, <2>5 DEF SimsInv, Before, Serving
<1>9. CASE \/ StopSubscriber \/ JoinSubscriber \/ StopClient \/ LoadRunning \/ JoinClient
           \/ StopPublisher \/ JoinPublisher \/ StopWindow \/ JoinWindow \/ Reset
  <2>1. UNCHANGED <<sim, sims, joined>>
    BY <1>9, Zenon DEF StopSubscriber, JoinSubscriber, StopClient, LoadRunning, JoinClient,
         StopPublisher, JoinPublisher, StopWindow, JoinWindow, Reset, splitVars, threadVars
  <2>2. main \in Labels \ (Before \cup Serving) /\ main' \in Labels \ (Before \cup Serving)
    BY <1>9 DEF StopSubscriber, JoinSubscriber, StopClient, LoadRunning, JoinClient,
         StopPublisher, JoinPublisher, StopWindow, JoinWindow, Reset, Goto, Labels, Before, Serving
  <2> QED
    BY <1>1, <1>2, <2>1, <2>2 DEF SimsInv, Before, Serving
<1>10. CASE AskSimulator \/ \E i \in DOMAIN sims : SimulatorEnds(i) \/ SimulatorFails(i)
  <2>1. PICK i \in 1..Len(sims), x \in SimStates :
          /\ sims[i] # "ended" /\ sims' = [sims EXCEPT ![i] = x]
          /\ UNCHANGED <<sim, main, joined>>
          /\ main \in {"join simulator"} \/ x = "ended"
    <3>1. CASE AskSimulator
      <4>1. Len(sims) = sim /\ joined < sim
        BY <1>2, <3>1 DEF AskSimulator, SimsInv
      <4>2. joined + 1 \in 1..Len(sims)
        BY <1>1, <4>1
      <4> QED
        BY <3>1, <4>2 DEF AskSimulator, splitVars, procVars, SimStates
    <3>2. CASE \E i \in DOMAIN sims : SimulatorEnds(i) \/ SimulatorFails(i)
      BY <1>0, <3>2 DEF SimulatorEnds, SimulatorFails, splitVars, procVars, SimStates
    <3> QED
      BY <1>10, <3>1, <3>2
  <2>2. /\ Len(sims') = Len(sims)
        /\ sims'[i] = x
        /\ \A j \in 1..Len(sims) : j # i => sims'[j] = sims[j]
    BY <1>0, <2>1, SimsExcept
  <2>3. Len(sims) # 0
    BY <1>1
  <2>4. \A j \in 1..joined : sims'[j] = "ended"
    BY <1>joined, <2>1, <2>2
  <2>5. Len(sims') <= sim /\ joined <= Len(sims')
    BY <1>1, <1>2, <2>2 DEF SimsInv
  <2>6. main \notin Before \cup Serving => \A j \in 1..Len(sims') : sims'[j] = "ended"
    BY <1>1, <1>2, <2>1, <2>2 DEF SimsInv, Serving
  <2> QED
    BY <1>1, <1>2, <2>1, <2>2, <2>3, <2>4, <2>5, <2>6 DEF SimsInv
<1>11. CASE Signal \/ HandleShutdown \/ CloseWindow
  <2>1. RequestStop /\ UNCHANGED <<sim, main, joined>>
    BY <1>11 DEF Signal, HandleShutdown, CloseWindow, splitVars
  <2>2. /\ Len(sims') = Len(sims)
        /\ \A j \in 1..Len(sims) : sims[j] = "ended" => sims'[j] = "ended"
    BY <1>0, <2>1, AskedSims
  <2>3. \A j \in 1..joined : sims'[j] = "ended"
    BY <1>joined, <2>2
  <2>4. main \notin Before \cup Serving => \A j \in 1..Len(sims') : sims'[j] = "ended"
    BY <1>2, <2>2 DEF SimsInv
  <2> QED
    BY <1>1, <1>2, <2>1, <2>2, <2>3, <2>4 DEF SimsInv
<1>12. CASE Beat \/ HandleSwitch \/ WriterEnds \/ CallBreaks \/ CallEnds \/ Over
  <2>1. UNCHANGED <<sim, main, sims, joined>>
    BY <1>12 DEF Beat, OpenStream, SeeStop, KeepOn, StopReading, ReadFails, Finish,
       Reregister, Backoff, Retry, ClearRunning, BeatGoto, WriterEnds, CallBreaks,
       CallEnds, HandleSwitch, Over, vars, splitVars, procVars, threadVars
  <2> QED
    BY <1>3, <2>1
<1>13. CASE PublisherEnds \/ SubscriberEnds \/ WindowBuilt \/ WindowEnds
  BY <1>3, <1>13 DEF PublisherEnds, SubscriberEnds, WindowBuilt, WindowEnds, splitVars, procVars
<1> QED
  BY <1>4, <1>5, <1>6, <1>7, <1>8, <1>9, <1>10, <1>11, <1>12, <1>13
     DEF Next, MainRuns, MainStops, Threads

\* The flags: only run() and the end of stop() write running_.
LEMMA FlagsStep == ASSUME WorkerInv, Next PROVE FlagsInv'
<1> DEFINE R == {"heartbeat", "services"} \cup Serving
<1>1. FlagsInv
  BY DEF WorkerInv
<1>2. ASSUME flag' \in BOOLEAN, UNCHANGED running, main' \in R => main \in R
      PROVE  FlagsInv'
  BY <1>1, <1>2 DEF FlagsInv
<1>3. CASE Run
  BY <1>3 DEF Run, FlagsInv
<1>4. CASE JoinWindow
  BY <1>1, <1>4 DEF JoinWindow, Goto, FlagsInv, Serving
<1>5. CASE Divide \/ Initialized \/ InitFails \/ StartHeartbeat \/ StartServices
  <2>1. UNCHANGED <<flag, running>>
    BY <1>5, Zenon DEF Divide, Initialized, InitFails, StartHeartbeat, StartServices, procVars
  <2>2. main' \in R => main \in R
    BY <1>5 DEF Divide, Initialized, InitFails, StartHeartbeat, StartServices, Goto,
         procVars, Serving
  <2> QED
    BY <1>1, <1>2, <2>1, <2>2 DEF FlagsInv
<1>6. CASE StartSimulator \/ StartWindow
  <2>1. UNCHANGED <<flag, running>>
    BY <1>6, Zenon DEF StartSimulator, StartWindow, procVars
  <2>2. main' \in R => main \in R
    BY <1>6 DEF StartSimulator, StartWindow, Goto, procVars, Serving
  <2> QED
    BY <1>1, <1>2, <2>1, <2>2 DEF FlagsInv
<1>7. CASE /\ MainStops
           /\ ~ JoinWindow
  <2>1. UNCHANGED <<flag, running>>
    BY <1>7, Zenon DEF MainStops, LeaveLoop, AskSimulator, JoinSimulator, SimulatorsJoined,
         StopSubscriber, JoinSubscriber, StopClient, LoadRunning, JoinClient,
         StopPublisher, JoinPublisher, StopWindow, Reset, procVars
  <2>2. ASSUME LeaveLoop \/ AskSimulator \/ JoinSimulator \/ SimulatorsJoined
        PROVE  main' \in R => main \in R
    BY <2>2 DEF LeaveLoop, AskSimulator, JoinSimulator, SimulatorsJoined, Goto, procVars, Serving
  <2>3. ASSUME StopSubscriber \/ JoinSubscriber \/ StopClient \/ LoadRunning \/ JoinClient
        PROVE  main' \in R => main \in R
    BY <2>3 DEF StopSubscriber, JoinSubscriber, StopClient, LoadRunning, JoinClient, Goto, Serving
  <2>4. ASSUME StopPublisher \/ JoinPublisher \/ StopWindow \/ Reset
        PROVE  main' \in R => main \in R
    BY <2>4 DEF StopPublisher, JoinPublisher, StopWindow, Reset, Goto, Serving
  <2> QED
    BY <1>1, <1>2, <1>7, <2>1, <2>2, <2>3, <2>4 DEF MainStops, FlagsInv
<1>8. CASE Signal \/ HandleShutdown \/ CloseWindow
  <2>1. flag' = TRUE /\ UNCHANGED <<main, running>>
    BY <1>8, Zenon DEF Signal, HandleShutdown, CloseWindow, RequestStop
  <2> QED
    BY <1>2, <2>1
<1>9. CASE Beat \/ WriterEnds \/ CallBreaks \/ CallEnds \/ HandleSwitch \/ Over
  <2>1. UNCHANGED <<main, flag, running>>
    BY <1>9, Zenon DEF Beat, OpenStream, SeeStop, KeepOn, StopReading, ReadFails, Finish,
         Reregister, Backoff, Retry, ClearRunning, BeatGoto, WriterEnds, CallBreaks,
         CallEnds, HandleSwitch, Over, vars, procVars
  <2> QED
    BY <1>1, <1>2, <2>1 DEF FlagsInv
<1>10. CASE \/ \E i \in DOMAIN sims : SimulatorEnds(i) \/ SimulatorFails(i)
            \/ PublisherEnds \/ SubscriberEnds \/ WindowBuilt \/ WindowEnds
  <2>1. UNCHANGED <<main, flag, running>>
    BY <1>10, Zenon DEF SimulatorEnds, SimulatorFails, PublisherEnds, SubscriberEnds,
         WindowBuilt, WindowEnds, procVars
  <2> QED
    BY <1>1, <1>2, <2>1 DEF FlagsInv
<1> QED
  BY <1>3, <1>4, <1>5, <1>6, <1>7, <1>8, <1>9, <1>10 DEF Next, MainRuns, Threads

\* The publisher, the subscriber and the window: main() starts them before the
\* simulators and asks them to end only when the simulators are joined.
LEMMA ServicesStep == ASSUME WorkerInv, Next PROVE ServicesInv'
<1>1. ServicesInv
  BY DEF WorkerInv
<1> USE DEF ServicesInv, Before, Serving, SubGone, ClientGone
<1>2. ASSUME UNCHANGED <<mode, main, pub, sub, win>>
      PROVE  ServicesInv'
  BY <1>1, <1>2
<1>3. CASE Divide \/ Initialized \/ InitFails \/ Run \/ StartHeartbeat
  <2>1. CASE Divide
    BY <1>1, <2>1 DEF Divide, Goto, procVars, threadVars
  <2>2. CASE Initialized
    BY <1>1, <2>2 DEF Initialized, Goto, procVars, threadVars
  <2>3. CASE InitFails
    BY <1>1, <2>3 DEF InitFails, Goto, procVars, threadVars
  <2>4. CASE Run
    BY <1>1, <2>4 DEF Run, Goto, procVars, threadVars
  <2>5. CASE StartHeartbeat
    BY <1>1, <2>5 DEF StartHeartbeat, Goto, procVars, threadVars
  <2> QED
    BY <1>3, <2>1, <2>2, <2>3, <2>4, <2>5
<1>4. CASE StartServices
  BY <1>1, <1>4 DEF StartServices, Goto
<1>5. CASE StartSimulator \/ LeaveLoop \/ SimulatorsJoined \/ AskSimulator \/ JoinSimulator
  <2>1. CASE StartSimulator \/ AskSimulator \/ JoinSimulator
    <3>1. UNCHANGED <<mode, main, pub, sub, win>>
      BY <2>1, Zenon DEF StartSimulator, AskSimulator, JoinSimulator, procVars, threadVars
    <3> QED
      BY <1>2, <3>1
  <2>2. CASE LeaveLoop
    BY <1>1, <2>2 DEF LeaveLoop, Goto, threadVars
  <2>3. CASE SimulatorsJoined
    BY <1>1, <2>3 DEF SimulatorsJoined, Goto, threadVars
  <2> QED
    BY <1>5, <2>1, <2>2, <2>3
<1>6. CASE StartWindow
  BY <1>1, <1>6 DEF StartWindow, Goto
<1>7. CASE StopSubscriber \/ JoinSubscriber \/ StopClient \/ LoadRunning \/ JoinClient
  <2>1. CASE StopSubscriber
    BY <1>1, <2>1 DEF StopSubscriber, Goto
  <2>2. CASE JoinSubscriber
    BY <1>1, <2>2 DEF JoinSubscriber, Goto, threadVars
  <2>3. CASE StopClient \/ LoadRunning \/ JoinClient
    <3>1. UNCHANGED <<mode, pub, sub, win>>
      BY <2>3, Zenon DEF StopClient, LoadRunning, JoinClient, threadVars
    <3>2. main \in SubGone /\ main' \in SubGone \cup {"stop publisher"}
      BY <2>3 DEF StopClient, LoadRunning, JoinClient, Goto
    <3> QED
      BY <1>1, <3>1, <3>2
  <2> QED
    BY <1>7, <2>1, <2>2, <2>3
<1>8. CASE StopPublisher \/ JoinPublisher \/ JoinWindow \/ Reset
  <2>1. CASE StopPublisher
    BY <1>1, <2>1 DEF StopPublisher, Goto
  <2>2. CASE JoinPublisher
    BY <1>1, <2>2 DEF JoinPublisher, Goto, threadVars
  <2>3. CASE JoinWindow
    BY <1>1, <2>3 DEF JoinWindow, Goto, threadVars
  <2>4. CASE Reset
    BY <1>1, <2>4 DEF Reset, threadVars
  <2> QED
    BY <1>8, <2>1, <2>2, <2>3, <2>4
<1>9. CASE StopWindow
  <2>1. /\ main = "stop window" /\ main' = "join window"
        /\ UNCHANGED <<mode, pub, sub>>
    BY <1>9 DEF StopWindow, Goto
  <2>2. win' \in {"deaf", "asked", win}
    BY <1>9, Zenon DEF StopWindow
  <2> QED
    BY <1>1, <2>1, <2>2
<1>10. CASE Signal \/ HandleShutdown
  <2>1. UNCHANGED <<mode, main, pub, sub, win>>
    BY <1>10, Zenon DEF Signal, HandleShutdown, RequestStop
  <2> QED
    BY <1>2, <2>1
<1>11. CASE CloseWindow \/ WindowBuilt \/ WindowEnds
  <2>1. UNCHANGED <<mode, main, pub, sub>>
    BY <1>1, <1>11 DEF CloseWindow, RequestStop, WindowBuilt, WindowEnds, procVars
  <2>2. win \in {"on", "deaf", "building", "asked"} /\ win' \in {"on", "asked", "ended"}
    BY <1>11 DEF CloseWindow, WindowBuilt, WindowEnds
  <2> QED
    BY <1>1, <2>1, <2>2
<1>12. CASE Beat \/ WriterEnds \/ CallBreaks \/ CallEnds \/ Over
  <2>1. UNCHANGED <<mode, main, pub, sub, win>>
    BY <1>12 DEF Beat, OpenStream, SeeStop, KeepOn, StopReading, ReadFails, Finish,
         Reregister, Backoff, Retry, ClearRunning, BeatGoto, WriterEnds, CallBreaks,
         CallEnds, Over, vars, procVars, threadVars
  <2> QED
    BY <1>1, <1>2, <2>1
<1>13. CASE HandleSwitch \/ SubscriberEnds
  <2>1. UNCHANGED <<mode, main, pub, win>>
    BY <1>13, Zenon DEF HandleSwitch, SubscriberEnds, procVars
  <2>2. \/ UNCHANGED sub
        \/ sub \in {"deaf", "asked"} /\ sub' \in {"asked", "ended"}
    BY <1>13 DEF HandleSwitch, SubscriberEnds
  <2>3. CASE UNCHANGED sub
    BY <1>1, <1>2, <2>1, <2>3
  <2>4. CASE sub \in {"deaf", "asked"} /\ sub' \in {"asked", "ended"}
    BY <1>1, <2>1, <2>4
  <2> QED
    BY <2>2, <2>3, <2>4
<1>14. CASE PublisherEnds
  BY <1>1, <1>14 DEF PublisherEnds, procVars
<1>15. CASE \E i \in DOMAIN sims : SimulatorEnds(i) \/ SimulatorFails(i)
  <2>1. UNCHANGED <<mode, main, pub, sub, win>>
    BY <1>15 DEF SimulatorEnds, SimulatorFails, procVars
  <2> QED
    BY <1>1, <1>2, <2>1
<1> QED
  BY <1>3, <1>4, <1>5, <1>6, <1>7, <1>8, <1>9, <1>10, <1>11, <1>12, <1>13, <1>14, <1>15
     DEF Next, MainRuns, MainStops, Threads

\* The heartbeat thread: stop() passes it only when running_ is false.
LEMMA BeatStep == ASSUME WorkerInv, Next PROVE BeatInv'
<1>1. BeatInv /\ main \in Labels
  BY DEF WorkerInv, SimsInv
<1> USE DEF BeatInv, Beats, Beating, ClientGone
<1>2. ASSUME UNCHANGED <<main, hb, hbStop, hbRunning, joinable, writer, call>> PROVE BeatInv'
  BY <1>1, <1>2
<1>3. CASE Divide \/ Initialized \/ InitFails \/ Run
  BY <1>1, <1>3 DEF Divide, Initialized, InitFails, Run, Goto, procVars, beatVars
<1>4. CASE StartHeartbeat
  BY <1>1, <1>4 DEF StartHeartbeat, Goto, beatVars
<1>5. CASE StartServices \/ StartSimulator \/ StartWindow
  BY <1>1, <1>5 DEF StartServices, StartSimulator, StartWindow, Goto, procVars, beatVars
<1>6. CASE \/ LeaveLoop \/ AskSimulator \/ JoinSimulator \/ SimulatorsJoined
           \/ StopSubscriber \/ JoinSubscriber
  <2>1. UNCHANGED <<hb, hbStop, hbRunning, joinable, writer, call>>
    BY <1>6, Zenon DEF LeaveLoop, AskSimulator, JoinSimulator, SimulatorsJoined,
         StopSubscriber, JoinSubscriber, beatVars
  <2>2. main' \in {"join simulator", "stop subscriber", "join subscriber", "stop client"}
    BY <1>6 DEF LeaveLoop, AskSimulator, JoinSimulator, SimulatorsJoined,
         StopSubscriber, JoinSubscriber, Goto, procVars
  <2> QED
    BY <1>1, <2>1, <2>2
<1>7. CASE StopClient \/ LoadRunning \/ JoinClient
  BY <1>1, <1>7 DEF StopClient, LoadRunning, JoinClient, Goto, beatVars
<1>8. CASE StopPublisher \/ JoinPublisher \/ StopWindow \/ JoinWindow \/ Reset
  <2>1. UNCHANGED <<hb, hbStop, hbRunning, joinable, writer, call>>
    BY <1>8, Zenon DEF StopPublisher, JoinPublisher, StopWindow, JoinWindow, Reset, beatVars
  <2>2. /\ main \in ClientGone \ {"over", "aborted"} /\ main' \in ClientGone
        /\ main' = "over" => joinable = FALSE
    BY <1>1, <1>8 DEF StopPublisher, JoinPublisher, StopWindow, JoinWindow, Reset, Goto
  <2> QED
    BY <1>1, <2>1, <2>2
<1>9. CASE OpenStream \/ SeeStop \/ KeepOn \/ StopReading \/ ReadFails
  BY <1>1, <1>9 DEF OpenStream, SeeStop, KeepOn, StopReading, ReadFails, BeatGoto, procVars
<1>10. CASE Finish \/ Reregister \/ Backoff \/ Retry \/ ClearRunning
  BY <1>1, <1>10 DEF Finish, Reregister, Backoff, Retry, ClearRunning, BeatGoto, procVars
<1>11. CASE HandleShutdown \/ HandleSwitch
  BY <1>1, <1>11 DEF HandleShutdown, HandleSwitch, procVars
<1>12. CASE WriterEnds \/ CallBreaks \/ CallEnds
  BY <1>1, <1>12 DEF WriterEnds, CallBreaks, CallEnds, procVars
<1>13. CASE Signal \/ Threads \/ Over
  <2>1. UNCHANGED <<main, hb, hbStop, hbRunning, joinable, writer, call>>
    BY <1>13 DEF Signal, Threads, SimulatorEnds, SimulatorFails, PublisherEnds,
         SubscriberEnds, WindowBuilt, WindowEnds, CloseWindow, Over, vars, procVars, beatVars
  <2> QED
    BY <1>2, <2>1
<1> QED
  BY <1>3, <1>4, <1>5, <1>6, <1>7, <1>8, <1>9, <1>10, <1>11, <1>12, <1>13
     DEF Next, MainRuns, MainStops, Beat

\* The invariant, for all machines, configurations and requests to stop.
LEMMA WorkerInvariant == Spec => []WorkerInv
<1>1. Init => WorkerInv
  <2> SUFFICES ASSUME Init PROVE WorkerInv
    OBVIOUS
  <2>1. SplitInv
    BY SplitAssumption DEF Init, SplitAssumption, SplitInit, SplitInv, SplitFits
  <2>2. sims = <<>> /\ joined = 0 /\ main = "init" /\ sim \in Nat
    BY <2>1 DEF Init, SplitInv
  <2>3. sims \in Seq(SimStates) /\ Len(sims) = 0
    BY <2>2, EmptySeq
  <2>4. SimsType /\ SimsInv
    BY <2>2, <2>3 DEF SimsType, SimsInv, Labels, Before, Serving
  <2>5. FlagsInv /\ ServicesInv /\ BeatInv
    BY DEF Init, FlagsInv, ServicesInv, BeatInv, Before, Serving, SubGone, ClientGone, Beats, Beating
  <2> QED
    BY <2>1, <2>4, <2>5 DEF WorkerInv
<1>2. WorkerInv /\ [Next]_vars => WorkerInv'
  <2>1. ASSUME WorkerInv, UNCHANGED vars PROVE WorkerInv'
    <3>1. SplitInv'
      BY <2>1 DEF WorkerInv, vars, splitVars, SplitInv, SplitFits, Avail, Cores, Reserved
    <3>2. SimsType' /\ SimsInv'
      BY <2>1 DEF WorkerInv, vars, splitVars, procVars, threadVars, SimsType, SimsInv
    <3>3. FlagsInv' /\ ServicesInv' /\ BeatInv'
      <4>1. ServicesInv /\ UNCHANGED <<mode, main, pub, sub, win>>
        BY <2>1 DEF WorkerInv, vars, procVars, threadVars
      <4>2. BeatInv /\ UNCHANGED <<main, hb, hbStop, hbRunning, joinable, writer, call>>
        BY <2>1 DEF WorkerInv, vars, procVars, beatVars
      <4>3. ServicesInv'
        BY <4>1 DEF ServicesInv
      <4>4. BeatInv'
        BY <4>2 DEF BeatInv, Beating
      <4>5. FlagsInv /\ UNCHANGED <<main, flag, running>>
        BY <2>1 DEF WorkerInv, vars, procVars
      <4>6. FlagsInv'
        BY <4>5 DEF FlagsInv
      <4> QED
        BY <4>3, <4>4, <4>6
    <3> QED
      BY <3>1, <3>2, <3>3 DEF WorkerInv
  <2>2. ASSUME WorkerInv, Next PROVE WorkerInv'
    <3>1. SplitInv'
      <4>1. SplitInv /\ (SplitNext \/ UNCHANGED splitVars)
        BY <2>2, SplitStep DEF WorkerInv
      <4>2. CASE UNCHANGED splitVars
        BY <4>1, <4>2 DEF splitVars, SplitInv, SplitFits, Avail, Cores, Reserved
      <4> QED
        BY <4>1, <4>2, ChooseInv, ClampInv DEF SplitNext
    <3> QED
      BY <2>2, <3>1, SimsTypeStep, SimsStep, FlagsStep, ServicesStep, BeatStep DEF WorkerInv
  <2> QED
    BY <2>1, <2>2
<1> QED
  BY <1>1, <1>2, PTL DEF Spec

\* Once CoordinatorClient::stop() has returned, joined or not, neither the
\* heartbeat thread nor its writer is left, and the destroyed worker leaves no
\* thread behind, for any number of simulators and at whatever moment, and
\* however often, a stop is requested.
THEOREM WorkerLeavesNoThread == Spec => []NoneLeft
<1>1. WorkerInv => NoneLeft
  <2> SUFFICES ASSUME WorkerInv PROVE NoneLeft
    OBVIOUS
  <2>1. /\ Len(sims) \in Nat /\ joined \in Nat /\ joined <= Len(sims)
        /\ sims \in Seq(SimStates) /\ DOMAIN sims = 1..Len(sims)
    BY SimsFacts
  <2>2. /\ main \in Labels /\ Len(sims) <= sim
        /\ joined > 0 => Len(sims) = sim
        /\ main \in Gone => \A i \in 1..Len(sims) : sims[i] = "ended"
    BY DEF WorkerInv, SimsInv, Before, Serving, Gone
  <2>3. joined \in 0..Len(sims)
    BY <2>1
  <2>4. FlagsInv /\ ServicesInv /\ BeatInv
    BY DEF WorkerInv
  <2>5. TypeOK
    BY <2>1, <2>2, <2>3, <2>4 DEF TypeOK, SimStates, FlagsInv, ServicesInv, BeatInv
  <2>6. ClientStopped \/ main \in Gone => ~ Beating /\ writer = "done"
    BY <2>4 DEF ClientStopped, Gone, BeatInv, ClientGone, Beating
  <2>7. main \in Gone => \A i \in DOMAIN sims : sims[i] = "ended"
    BY <2>1, <2>2
  <2>8. main \in Gone => \A t \in {pub, sub, win} : t \in {"none", "ended"}
    BY <2>4 DEF Gone, ServicesInv, ClientGone
  <2>9. main = "over" => ~ joinable
    BY <2>4 DEF BeatInv
  <2> QED
    BY <2>5, <2>6, <2>7, <2>8, <2>9 DEF NoneLeft, Gone
<1> QED
  BY <1>1, WorkerInvariant, PTL

\* What a simulator hands its rollouts to is there as long as the simulator
\* runs, whatever has been asked to stop.
THEOREM ServicesOutlive == Spec => []ServicesOutliveSims
<1>1. WorkerInv => ServicesOutliveSims
  <2> SUFFICES ASSUME WorkerInv, NEW i \in DOMAIN sims, sims[i] # "ended"
               PROVE  /\ mode # "alone" => pub = "on"
                      /\ mode = "stream" => sub = "on"
                      /\ running
    BY DEF ServicesOutliveSims
  <2>1. i \in 1..Len(sims) /\ Len(sims) \in Nat
    BY SimsFacts
  <2>2. Len(sims) # 0
    BY <2>1
  <2>3. main \in Serving
    BY <2>1, <2>2 DEF WorkerInv, SimsInv
  <2> QED
    BY <2>3 DEF WorkerInv, FlagsInv, ServicesInv
<1> QED
  BY <1>1, WorkerInvariant, PTL

\* The division of the threads that a worker runs with fits its machine, and
\* an automatic choice uses exactly what is available: SplitFits and
\* ChoiceStands hold of the whole process.
THEOREM WorkerFits == Spec => []SplitFits /\ ChoiceStands
  BY WorkerSplits, SplitAlwaysFits, ChoiceIsExact, PTL
=============================================================================
