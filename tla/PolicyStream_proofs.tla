------------------------ MODULE PolicyStream_proofs ------------------------
(* Proofs about PolicyStream, for any learners, queues and bounds.          *)
EXTENDS PolicyStream, SequenceTheorems, TLAPS

-----------------------------------------------------------------------------
(* The invariant.                                                          *)

\* Strictly increasing; with nothing above n; with nothing up to n.
Sorted(q)   == \A i, j \in 1..Len(q) : i < j => q[i] < q[j]
Below(q, n) == \A i \in 1..Len(q) : q[i] <= n
Above(q, n) == \A i \in 1..Len(q) : n < q[i]

\* What waits at a handler is newer than what it has sent and than all that is
\* on the way to its client; nothing is newer than the latest version n.
InOrder(h, n) ==
  /\ Sorted(h.queue) /\ Below(h.queue, n)
  /\ Sorted(h.out) /\ Below(h.out, n)
  /\ \A i \in 1..Len(h.out) : Above(h.queue, h.out[i])
  /\ h.sent # h.asked => h.sent <= n /\ Above(h.queue, h.sent)
  /\ h.state # "open" => h.queue = <<>> /\ h.out = <<>>
  /\ h.state = "arriving" => h.sent = h.asked

\* A subscriber is an open handler of that learner, and has the newest version.
Subscriber(h, l, n) ==
  /\ h.state = "open" /\ h.l = l
  /\ IF h.queue = <<>> THEN h.sent >= n ELSE h.queue[Len(h.queue)] = n

\* The worker's side: the types, and what the thread knows at which label.
ClientInv ==
  /\ pc \in PCs
  /\ dest \in Learners \cup {NoTarget} /\ target \in Learners \cup {NoTarget}
  /\ pc \in {"chosen", "opening"} => dest \in Learners
  /\ stream # NoStream <=> pc \in {"reading", "closing"}
  /\ lastVer \in 0..MaxVersion
  /\ model \in [from : Learners \cup {NoTarget}, version : 0..MaxVersion]
  /\ cancelled \in BOOLEAN
  /\ setter \in {"idle", "cancel"}
  /\ stopper \in {"idle", "cancel", "notify", "join", "done"}

\* The learners' side: every handler is in order, every subscriber up to date.
HandlersInv ==
  /\ latest \in [Learners -> 0..MaxVersion]
  /\ subs \in [Learners -> Nat]
  /\ \A s \in 1..Len(hnd) : InOrder(hnd[s], latest[hnd[s].l])
  /\ \A l \in Learners : subs[l] # NoStream =>
       subs[l] \in 1..Len(hnd) /\ Subscriber(hnd[subs[l]], l, latest[l])

\* The inductive invariant.
Inv ==
  /\ hnd \in Seq(Handler)
  /\ stream \in {NoStream} \cup 1..Len(hnd)
  /\ ClientInv
  /\ HandlersInv

-----------------------------------------------------------------------------
(* Queues.                                                                 *)

\* The constants are numbers.
LEMMA Bounds ==
  /\ MaxQueue \in Nat \ {0} /\ MaxOut \in Nat \ {0}
  /\ MaxVersion \in Nat /\ MaxStreams \in Nat /\ MaxSwitches \in Nat
  /\ Versions \in [Learners -> 0..MaxVersion]
BY StreamAssumption DEF StreamAssumption

\* The rest of a queue, entry by entry.
LEMMA TailOf ==
  ASSUME NEW S, NEW q \in Seq(S), q # <<>>
  PROVE  /\ Tail(q) \in Seq(S) /\ Len(Tail(q)) = Len(q) - 1
         /\ Head(q) \in S /\ Len(q) \in Nat \ {0} /\ Head(q) = q[1]
         /\ \A i \in 1..Len(Tail(q)) : i + 1 \in 1..Len(q) /\ Tail(q)[i] = q[i + 1]
<1>1. /\ Tail(q) \in Seq(S) /\ Len(Tail(q)) = Len(q) - 1 /\ Head(q) \in S
      /\ \A i \in 1..Len(Tail(q)) : Tail(q)[i] = q[i + 1]
  BY HeadTailProperties
<1>2. Len(q) \in Nat /\ Len(q) # 0 /\ Head(q) = q[1]
  BY EmptySeq, LenProperties
<1> QED BY <1>1, <1>2

\* Without its oldest entry a queue is in order, and newer than that entry.
LEMMA TailInOrder ==
  ASSUME NEW q \in Seq(1..MaxVersion), q # <<>>, Sorted(q)
  PROVE  /\ Sorted(Tail(q)) /\ Above(Tail(q), Head(q))
         /\ \A n : Below(q, n) => Below(Tail(q), n) /\ Head(q) <= n
         /\ \A m : Above(q, m) => Above(Tail(q), m)
<1>1. /\ Len(Tail(q)) = Len(q) - 1 /\ Len(q) \in Nat \ {0} /\ Head(q) = q[1]
      /\ \A i \in 1..Len(Tail(q)) : i + 1 \in 1..Len(q) /\ Tail(q)[i] = q[i + 1]
  BY TailOf
<1> DEFINE t == Tail(q)
<1> HIDE DEF t
<1>2. /\ Len(t) = Len(q) - 1 /\ Len(q) \in Nat \ {0} /\ Head(q) = q[1]
      /\ \A i \in 1..Len(t) : i + 1 \in 1..Len(q) /\ t[i] = q[i + 1]
  BY <1>1 DEF t
<1>3. Sorted(t) /\ Above(t, Head(q))
  <2>1. \A i, j \in 1..Len(q) : i < j => q[i] < q[j]
    BY DEF Sorted
  <2>2. Sorted(t)
    BY <1>2, <2>1 DEF Sorted
  <2>3. ASSUME NEW i \in 1..Len(t) PROVE Head(q) < t[i]
    <3>1. 1 \in 1..Len(q) /\ i + 1 \in 1..Len(q) /\ 1 < i + 1
      BY <1>2
    <3> QED BY <1>2, <2>1, <3>1
  <2> QED BY <2>2, <2>3 DEF Above
<1>4. \A n : Below(q, n) => Below(t, n) /\ Head(q) <= n
  BY <1>2 DEF Below
<1>5. \A m : Above(q, m) => Above(t, m)
  BY <1>2 DEF Above
<1> QED BY <1>3, <1>4, <1>5 DEF t

\* What is added to a queue comes last.
LEMMA AppendOf ==
  ASSUME NEW S, NEW q \in Seq(S), NEW x \in S
  PROVE  /\ Append(q, x) \in Seq(S) /\ Len(Append(q, x)) = Len(q) + 1 /\ Len(q) \in Nat
         /\ Append(q, x)[Len(q) + 1] = x
         /\ \A i \in 1..Len(q) : Append(q, x)[i] = q[i]
BY AppendProperties, LenProperties

\* Queueing the version after the latest keeps a queue in order, whether or
\* not the oldest entry has to leave.
LEMMA Enqueued ==
  ASSUME NEW n \in Nat, n + 1 \in 1..MaxVersion,
         NEW q \in Seq(1..MaxVersion), Sorted(q), Below(q, n)
  PROVE  LET e == Enqueue(q, n + 1)
         IN /\ e \in Seq(1..MaxVersion) /\ e # <<>> /\ e[Len(e)] = n + 1
            /\ Sorted(e) /\ Below(e, n + 1)
            /\ \A m \in Int : m <= n /\ Above(q, m) => Above(e, m)
<1> DEFINE r == IF Len(q) >= MaxQueue THEN Tail(q) ELSE q
           e == Append(r, n + 1)
<1>1. Enqueue(q, n + 1) = e
  BY DEF Enqueue
<1>2. /\ r \in Seq(1..MaxVersion) /\ Sorted(r) /\ Below(r, n)
      /\ \A m \in Int : Above(q, m) => Above(r, m)
  <2>1. CASE Len(q) >= MaxQueue
    <3>1. q # <<>>
      BY <2>1, Bounds
    <3>2. Tail(q) \in Seq(1..MaxVersion) /\ r = Tail(q)
      BY <2>1, <3>1, TailOf
    <3> QED BY <3>1, <3>2, TailInOrder
  <2>2. CASE ~ (Len(q) >= MaxQueue)
    BY <2>2
  <2> QED BY <2>1, <2>2
<1> HIDE DEF r
<1>3. /\ e \in Seq(1..MaxVersion) /\ Len(e) = Len(r) + 1 /\ Len(r) \in Nat
      /\ e[Len(r) + 1] = n + 1
      /\ \A i \in 1..Len(r) : e[i] = r[i]
  BY <1>2, AppendOf
<1>4. e # <<>>
  BY <1>3
<1> HIDE DEF e
<1>5. \A i \in 1..Len(r) : r[i] \in Int /\ r[i] <= n
  <2>1. ASSUME NEW i \in 1..Len(r) PROVE r[i] \in 1..MaxVersion
    BY <1>2, ElementOfSeq
  <2>2. \A i \in 1..Len(r) : r[i] <= n
    BY <1>2 DEF Below
  <2> QED BY <2>1, <2>2, Bounds
<1>6. Sorted(e)
  <2>1. SUFFICES ASSUME NEW i \in 1..Len(e), NEW j \in 1..Len(e), i < j PROVE e[i] < e[j]
    BY DEF Sorted
  <2>2. Len(e) = Len(r) + 1 /\ Len(r) \in Nat /\ e[Len(r) + 1] = n + 1
    BY <1>3
  <2>3. \A m \in 1..Len(r) : e[m] = r[m]
    BY <1>3
  <2>4. \A a, b \in 1..Len(r) : a < b => r[a] < r[b]
    BY <1>2 DEF Sorted
  <2>5. i \in 1..Len(r) /\ (j \in 1..Len(r) \/ j = Len(r) + 1)
    BY <2>1, <2>2
  <2> QED BY <2>1, <2>2, <2>3, <2>4, <2>5, <1>5
<1>7. Below(e, n + 1)
  BY <1>3, <1>5 DEF Below
<1>8. \A m \in Int : m <= n /\ Above(q, m) => Above(e, m)
  <2> SUFFICES ASSUME NEW m \in Int, m <= n, Above(q, m), NEW i \in 1..Len(e) PROVE m < e[i]
    BY DEF Above
  <2>1. \A a \in 1..Len(r) : m < r[a]
    BY <1>2 DEF Above
  <2>2. Len(e) = Len(r) + 1 /\ Len(r) \in Nat /\ e[Len(r) + 1] = n + 1
    BY <1>3
  <2>3. \A a \in 1..Len(r) : e[a] = r[a]
    BY <1>3
  <2> QED BY <2>1, <2>2, <2>3
<1> QED BY <1>1, <1>3, <1>4, <1>6, <1>7, <1>8

-----------------------------------------------------------------------------
(* The handlers.                                                           *)

\* The types of a handler's fields.
LEMMA HandlerFields ==
  ASSUME hnd \in Seq(Handler), NEW s \in 1..Len(hnd)
  PROVE  /\ hnd[s] \in Handler /\ hnd[s].l \in Learners
         /\ hnd[s].state \in {"arriving", "open", "ended"}
         /\ hnd[s].asked \in 0..MaxVersion /\ hnd[s].sent \in 0..MaxVersion
         /\ hnd[s].queue \in Seq(1..MaxVersion) /\ hnd[s].out \in Seq(1..MaxVersion)
<1>1. hnd[s] \in Handler
  BY ElementOfSeq
<1> QED BY <1>1 DEF Handler

\* Putting another handler in one place.
LEMMA HandlerPut ==
  ASSUME hnd \in Seq(Handler), NEW s \in 1..Len(hnd), NEW x \in Handler,
         hnd' = [hnd EXCEPT ![s] = x]
  PROVE  /\ hnd' \in Seq(Handler) /\ Len(hnd') = Len(hnd)
         /\ hnd'[s] = x
         /\ \A r \in 1..Len(hnd) : r # s => hnd'[r] = hnd[r]
<1>1. /\ [hnd EXCEPT ![s] = x] \in Seq(Handler)
      /\ Len([hnd EXCEPT ![s] = x]) = Len(hnd)
  BY ExceptSeq
<1>2. /\ [hnd EXCEPT ![s] = x][s] = x
      /\ \A r \in 1..Len(hnd) : r # s => [hnd EXCEPT ![s] = x][r] = hnd[r]
  BY LenProperties
<1> QED BY <1>1, <1>2

\* A step that changes one handler and at most the entry for its worker.
LEMMA OneHandler ==
  ASSUME hnd \in Seq(Handler), HandlersInv, NEW s \in 1..Len(hnd),
         hnd' \in Seq(Handler), Len(hnd') = Len(hnd),
         \A r \in 1..Len(hnd) : r # s => hnd'[r] = hnd[r],
         hnd'[s].l = hnd[s].l, latest' = latest,
         InOrder(hnd'[s], latest[hnd[s].l]),
         \/ /\ subs' = [subs EXCEPT ![hnd[s].l] = s]
            /\ Subscriber(hnd'[s], hnd[s].l, latest[hnd[s].l])
         \/ subs' = [subs EXCEPT ![hnd[s].l] = NoStream]
         \/ /\ subs' = subs
            /\ \A l \in Learners : subs[l] = s => Subscriber(hnd'[s], l, latest[l])
  PROVE  HandlersInv'
<1>1. hnd[s].l \in Learners
  BY HandlerFields
<1>2. /\ latest \in [Learners -> 0..MaxVersion] /\ subs \in [Learners -> Nat]
      /\ \A r \in 1..Len(hnd) : InOrder(hnd[r], latest[hnd[r].l])
  BY DEF HandlersInv
<1>3. ASSUME NEW l \in Learners, subs[l] # NoStream
      PROVE  /\ subs[l] \in 1..Len(hnd) /\ Subscriber(hnd[subs[l]], l, latest[l])
             /\ hnd[subs[l]].l = l
  BY <1>3 DEF HandlersInv, Subscriber
<1>4. s \in Nat /\ s # NoStream /\ NoStream \in Nat
  BY LenProperties DEF NoStream
<1>5. ASSUME NEW r \in 1..Len(hnd') PROVE InOrder(hnd'[r], latest'[hnd'[r].l])
  BY <1>2
<1>6. \A l \in Learners : subs[l] = s /\ l # hnd[s].l => FALSE
  BY <1>3, <1>4
<1>7. CASE /\ subs' = [subs EXCEPT ![hnd[s].l] = s]
           /\ Subscriber(hnd'[s], hnd[s].l, latest[hnd[s].l])
  <2>1. subs' \in [Learners -> Nat]
    BY <1>1, <1>2, <1>4, <1>7
  <2>2. ASSUME NEW l \in Learners, subs'[l] # NoStream
        PROVE  subs'[l] \in 1..Len(hnd') /\ Subscriber(hnd'[subs'[l]], l, latest'[l])
    <3>1. CASE l = hnd[s].l
      BY <1>1, <1>2, <1>7, <3>1
    <3>2. CASE l # hnd[s].l
      BY <1>2, <1>3, <1>6, <1>7, <2>2, <3>2
    <3> QED BY <3>1, <3>2
  <2> QED BY <1>2, <1>5, <2>1, <2>2 DEF HandlersInv
<1>8. CASE subs' = [subs EXCEPT ![hnd[s].l] = NoStream]
  <2>1. subs' \in [Learners -> Nat]
    BY <1>1, <1>2, <1>4, <1>8
  <2>2. ASSUME NEW l \in Learners, subs'[l] # NoStream
        PROVE  subs'[l] \in 1..Len(hnd') /\ Subscriber(hnd'[subs'[l]], l, latest'[l])
    <3>1. l # hnd[s].l
      BY <1>1, <1>2, <1>8, <2>2
    <3> QED BY <1>2, <1>3, <1>6, <1>8, <2>2, <3>1
  <2> QED BY <1>2, <1>5, <2>1, <2>2 DEF HandlersInv
<1>9. CASE /\ subs' = subs
           /\ \A l \in Learners : subs[l] = s => Subscriber(hnd'[s], l, latest[l])
  <2>1. ASSUME NEW l \in Learners, subs'[l] # NoStream
        PROVE  subs'[l] \in 1..Len(hnd') /\ Subscriber(hnd'[subs'[l]], l, latest'[l])
    <3>1. CASE subs[l] = s
      BY <1>9, <3>1
    <3>2. CASE subs[l] # s
      BY <1>3, <1>9, <2>1, <3>2
    <3> QED BY <3>1, <3>2
  <2> QED BY <1>2, <1>5, <1>9, <2>1 DEF HandlersInv
<1> QED BY <1>7, <1>8, <1>9

\* The handler of a new subscription has nothing to send yet.
LEMMA SubscribeInv ==
  ASSUME Inv, Subscribe
  PROVE  /\ hnd' \in Seq(Handler) /\ Len(hnd') = Len(hnd) + 1 /\ Len(hnd) \in Nat
         /\ HandlersInv'
<1> DEFINE x == [l |-> dest, state |-> "arriving", asked |-> lastVer,
                 sent |-> lastVer, queue |-> <<>>, out |-> <<>>]
<1>1. pc = "opening" /\ hnd' = Append(hnd, x) /\ UNCHANGED <<latest, subs>>
  BY DEF Subscribe
<1>2. dest \in Learners
  BY <1>1 DEF Inv, ClientInv
<1>3. x \in Handler
  <2>1. <<>> \in Seq(1..MaxVersion)
    BY EmptySeq
  <2> QED BY <1>2, <2>1 DEF Inv, ClientInv, Handler
<1>4. /\ x.state = "arriving" /\ x.sent = x.asked
      /\ x.queue = <<>> /\ x.out = <<>> /\ x.l = dest
  OBVIOUS
<1> HIDE DEF x
<1>5. /\ hnd' \in Seq(Handler) /\ Len(hnd') = Len(hnd) + 1 /\ Len(hnd) \in Nat
      /\ hnd'[Len(hnd) + 1] = x
      /\ \A i \in 1..Len(hnd) : hnd'[i] = hnd[i]
  BY <1>1, <1>3, AppendOf DEF Inv
<1>6. \A n : InOrder(x, n)
  BY <1>4 DEF InOrder, Sorted, Below, Above
<1>7. ASSUME NEW r \in 1..Len(hnd') PROVE InOrder(hnd'[r], latest'[hnd'[r].l])
  <2>1. r \in 1..Len(hnd) \/ r = Len(hnd) + 1
    BY <1>5
  <2>2. CASE r \in 1..Len(hnd)
    BY <1>1, <1>5, <2>2 DEF Inv, HandlersInv
  <2>3. CASE r = Len(hnd) + 1
    BY <1>5, <1>6, <2>3
  <2> QED BY <2>1, <2>2, <2>3
<1>8. ASSUME NEW l \in Learners, subs'[l] # NoStream
      PROVE  subs'[l] \in 1..Len(hnd') /\ Subscriber(hnd'[subs'[l]], l, latest'[l])
  <2>1. subs[l] \in 1..Len(hnd) /\ Subscriber(hnd[subs[l]], l, latest[l])
    BY <1>1, <1>8 DEF Inv, HandlersInv
  <2> QED BY <1>1, <1>5, <2>1
<1> QED BY <1>1, <1>5, <1>7, <1>8 DEF Inv, HandlersInv

\* The transport gives up its oldest version.
LEMMA ReceiveInv ==
  ASSUME Inv, Receive
  PROVE  /\ hnd' \in Seq(Handler) /\ Len(hnd') = Len(hnd)
         /\ HandlersInv' /\ lastVer' \in 0..MaxVersion
<1>1. /\ stream \in 1..Len(hnd) /\ hnd[stream].out # <<>>
      /\ UNCHANGED <<latest, subs>>
  BY DEF Inv, ClientInv, Receive
<1> DEFINE h == hnd[stream]
           x == [h EXCEPT !.out = Tail(@)]
<1>2. hnd' = [hnd EXCEPT ![stream] = x]
  BY DEF Receive
<1>3. /\ h \in Handler /\ h.l \in Learners /\ h.queue \in Seq(1..MaxVersion)
      /\ h.out \in Seq(1..MaxVersion)
  BY <1>1, HandlerFields DEF Inv
<1>4. /\ Tail(h.out) \in Seq(1..MaxVersion) /\ Len(Tail(h.out)) = Len(h.out) - 1
      /\ Head(h.out) \in 1..MaxVersion /\ Len(h.out) \in Nat \ {0}
      /\ \A i \in 1..Len(Tail(h.out)) : i + 1 \in 1..Len(h.out) /\ Tail(h.out)[i] = h.out[i + 1]
  BY <1>1, <1>3, TailOf
<1>5. /\ x \in Handler /\ x.l = h.l /\ x.out = Tail(h.out) /\ x.queue = h.queue
      /\ x.sent = h.sent /\ x.asked = h.asked /\ x.state = h.state
  BY <1>3, <1>4 DEF Handler
<1>6. InOrder(h, latest[h.l]) /\ h.state = "open"
  BY <1>1 DEF Inv, HandlersInv, InOrder
<1>7. Sorted(x.out) /\ Below(x.out, latest[h.l])
  <2>1. Sorted(h.out) /\ Below(h.out, latest[h.l])
    BY <1>6 DEF InOrder
  <2> QED BY <1>1, <1>3, <1>5, <2>1, TailInOrder
<1>8. \A i \in 1..Len(x.out) : Above(x.queue, x.out[i])
  BY <1>4, <1>5, <1>6 DEF InOrder
<1>9. lastVer' \in 0..MaxVersion
  BY <1>4, Bounds DEF Receive
<1> HIDE DEF x, h
<1>10. InOrder(x, latest[h.l])
  BY <1>5, <1>6, <1>7, <1>8 DEF InOrder
<1>11. /\ hnd' \in Seq(Handler) /\ Len(hnd') = Len(hnd) /\ hnd'[stream] = x
       /\ \A r \in 1..Len(hnd) : r # stream => hnd'[r] = hnd[r]
  BY <1>1, <1>2, <1>5, HandlerPut DEF Inv
<1>12. ASSUME NEW l \in Learners, subs[l] = stream PROVE Subscriber(x, l, latest[l])
  <2>1. Subscriber(h, l, latest[l])
    BY <1>1, <1>12 DEF Inv, HandlersInv, NoStream, h
  <2> QED BY <2>1, <1>5 DEF Subscriber
<1>13. HandlersInv'
  <2>1. hnd'[stream].l = hnd[stream].l /\ InOrder(hnd'[stream], latest[hnd[stream].l])
    BY <1>5, <1>10, <1>11 DEF h
  <2> QED BY <1>1, <1>11, <1>12, <2>1, OneHandler DEF Inv
<1> QED BY <1>9, <1>11, <1>13

\* The latest version is all the handler sends on its start; the queue, which
\* the subscriber gets at the same moment, is empty.
LEMMA HandlerStartInv ==
  ASSUME Inv, NEW s \in 1..Len(hnd), HandlerStart(s)
  PROVE  hnd' \in Seq(Handler) /\ Len(hnd') = Len(hnd) /\ HandlersInv'
<1> DEFINE h == hnd[s]
           n == latest[h.l]
           out == IF n > h.asked THEN <<n>> ELSE <<>>
           x == [h EXCEPT !.state = "open", !.queue = <<>>, !.out = out,
                          !.sent = IF out = <<>> THEN @ ELSE out[1]]
<1>1. /\ h.state = "arriving" /\ latest' = latest
      /\ subs' = [subs EXCEPT ![h.l] = s]
      /\ hnd' = [hnd EXCEPT ![s] = x]
  BY DEF HandlerStart, Subscribed
<1>2. /\ h \in Handler /\ h.l \in Learners /\ h.asked \in 0..MaxVersion /\ h.sent \in 0..MaxVersion
      /\ n \in 0..MaxVersion
  BY HandlerFields DEF Inv, HandlersInv
<1>3. InOrder(h, n) /\ h.sent = h.asked
  BY <1>1 DEF Inv, HandlersInv, InOrder
<1>4. <<>> \in Seq(1..MaxVersion)
  BY EmptySeq
<1> HIDE DEF h, n
<1>5. CASE n > h.asked
  <2>1. n \in 1..MaxVersion
    BY <1>2, <1>5, Bounds
  <2>2. <<n>> \in Seq(1..MaxVersion) /\ Len(<<n>>) = 1 /\ <<n>>[1] = n /\ <<n>> # <<>>
    BY <2>1
  <2>3. out = <<n>>
    BY <1>5
  <2>4. /\ x \in Handler /\ x.l = h.l /\ x.state = "open" /\ x.asked = h.asked
        /\ x.queue = <<>> /\ x.out = <<n>> /\ x.sent = n
    BY <1>2, <1>4, <2>2, <2>3 DEF Handler
  <2> HIDE DEF x
  <2>5. InOrder(x, n) /\ Subscriber(x, h.l, n)
    BY <1>2, <2>2, <2>4 DEF InOrder, Subscriber, Sorted, Below, Above
  <2>6. /\ hnd' \in Seq(Handler) /\ Len(hnd') = Len(hnd) /\ hnd'[s] = x
        /\ \A r \in 1..Len(hnd) : r # s => hnd'[r] = hnd[r]
    BY <1>1, <2>4, HandlerPut DEF Inv
  <2>7. HandlersInv'
    BY <1>1, <2>4, <2>5, <2>6, OneHandler DEF Inv, h, n
  <2> QED BY <2>6, <2>7
<1>6. CASE ~ (n > h.asked)
  <2>3. out = <<>>
    BY <1>6
  <2>4. /\ x \in Handler /\ x.l = h.l /\ x.state = "open" /\ x.asked = h.asked
        /\ x.queue = <<>> /\ x.out = <<>> /\ x.sent = h.asked
    BY <1>2, <1>3, <1>4, <2>3 DEF Handler
  <2> HIDE DEF x
  <2>5. InOrder(x, n)
    BY <2>4 DEF InOrder, Sorted, Below, Above
  <2>6. Subscriber(x, h.l, n)
    BY <1>2, <1>6, <2>4 DEF Subscriber
  <2>7. /\ hnd' \in Seq(Handler) /\ Len(hnd') = Len(hnd) /\ hnd'[s] = x
        /\ \A r \in 1..Len(hnd) : r # s => hnd'[r] = hnd[r]
    BY <1>1, <2>4, HandlerPut DEF Inv
  <2>8. HandlersInv'
    BY <1>1, <2>4, <2>5, <2>6, <2>7, OneHandler DEF Inv, h, n
  <2> QED BY <2>7, <2>8
<1> QED BY <1>5, <1>6

\* The oldest version waiting goes to the transport.
LEMMA HandlerSendInv ==
  ASSUME Inv, NEW s \in 1..Len(hnd), HandlerSend(s)
  PROVE  hnd' \in Seq(Handler) /\ Len(hnd') = Len(hnd) /\ HandlersInv'
<1> DEFINE h == hnd[s]
           n == latest[h.l]
           v == Head(h.queue)
           x == [h EXCEPT !.queue = Tail(@), !.sent = v, !.out = Append(@, v)]
<1>1. /\ h.state = "open" /\ h.queue # <<>> /\ latest' = latest /\ subs' = subs
      /\ hnd' = [hnd EXCEPT ![s] = x]
  BY DEF HandlerSend
<1>2. /\ h \in Handler /\ h.l \in Learners
      /\ h.queue \in Seq(1..MaxVersion) /\ h.out \in Seq(1..MaxVersion)
  BY HandlerFields DEF Inv
<1>3. InOrder(h, n)
  BY DEF Inv, HandlersInv
<1> HIDE DEF h, n
<1>4. /\ Tail(h.queue) \in Seq(1..MaxVersion) /\ Len(Tail(h.queue)) = Len(h.queue) - 1
      /\ v \in 1..MaxVersion /\ Len(h.queue) \in Nat \ {0} /\ v = h.queue[1]
      /\ \A i \in 1..Len(Tail(h.queue)) :
           i + 1 \in 1..Len(h.queue) /\ Tail(h.queue)[i] = h.queue[i + 1]
  BY <1>1, <1>2, TailOf
<1>5. /\ Sorted(Tail(h.queue)) /\ Above(Tail(h.queue), v)
      /\ Below(Tail(h.queue), n) /\ v <= n
      /\ \A m : Above(h.queue, m) => Above(Tail(h.queue), m)
  BY <1>1, <1>2, <1>3, TailInOrder DEF InOrder
<1>6. /\ Append(h.out, v) \in Seq(1..MaxVersion)
      /\ Len(Append(h.out, v)) = Len(h.out) + 1 /\ Len(h.out) \in Nat
      /\ Append(h.out, v)[Len(h.out) + 1] = v
      /\ \A i \in 1..Len(h.out) : Append(h.out, v)[i] = h.out[i]
  BY <1>2, <1>4, AppendOf
<1>7. /\ x.queue = Tail(h.queue) /\ x.out = Append(h.out, v) /\ x.sent = v
      /\ x.l = h.l /\ x.state = "open" /\ x.asked = h.asked
      /\ x \in Handler
  <2>1. v \in 0..MaxVersion
    BY <1>4, Bounds
  <2> HIDE DEF v
  <2> QED BY <1>1, <1>2, <1>4, <1>6, <2>1 DEF Handler
<1> HIDE DEF x, v
<1>8. /\ Sorted(h.out) /\ Below(h.out, n)
      /\ \A i \in 1..Len(h.out) : Above(h.queue, h.out[i]) /\ h.out[i] < v
  BY <1>3, <1>4 DEF InOrder, Above
<1>9. Sorted(x.out)
  BY <1>6, <1>7, <1>8 DEF Sorted
<1>10. Below(x.out, n)
  BY <1>5, <1>6, <1>7, <1>8 DEF Below
<1>11. ASSUME NEW i \in 1..Len(x.out) PROVE Above(x.queue, x.out[i])
  <2>1. i \in 1..Len(h.out) \/ i = Len(h.out) + 1
    BY <1>6, <1>7
  <2>2. CASE i \in 1..Len(h.out)
    <3>1. x.out[i] = h.out[i] /\ Above(h.queue, h.out[i])
      BY <1>6, <1>7, <1>8, <2>2
    <3> QED BY <3>1, <1>5, <1>7
  <2>3. CASE i = Len(h.out) + 1
    <3>1. x.out[i] = v
      BY <1>6, <1>7, <2>3
    <3> QED BY <3>1, <1>5, <1>7
  <2> QED BY <2>1, <2>2, <2>3
<1>12. InOrder(x, n)
  BY <1>5, <1>7, <1>9, <1>10, <1>11 DEF InOrder
<1>13. ASSUME NEW l \in Learners, subs[l] = s PROVE Subscriber(x, l, latest[l])
  <2>1. Subscriber(h, l, latest[l]) /\ latest[l] = n /\ n \in Nat
    BY <1>13, LenProperties, Bounds DEF Inv, HandlersInv, NoStream, Subscriber, h, n
  <2>2. h.queue[Len(h.queue)] = n
    BY <1>1, <2>1 DEF Subscriber
  <2>3. CASE Len(h.queue) = 1
    <3>1. Len(Tail(h.queue)) = 0
      BY <1>4, <2>3
    <3>2. Tail(h.queue) = <<>>
      BY <1>4, <3>1, EmptySeq
    <3> QED BY <1>4, <1>7, <2>1, <2>2, <2>3, <3>2 DEF Subscriber
  <2>4. CASE Len(h.queue) # 1
    <3> DEFINE t == Tail(h.queue)
               q == h.queue
    <3> HIDE DEF t, q
    <3>1. /\ Len(t) = Len(q) - 1 /\ Len(q) \in Nat \ {0, 1} /\ q[Len(q)] = n
          /\ \A i \in 1..Len(t) : t[i] = q[i + 1]
      BY <1>4, <2>2, <2>4 DEF t, q
    <3>2. t[Len(t)] = n /\ Len(t) # 0
      BY <3>1
    <3>3. t # <<>>
      BY <3>2, EmptySeq
    <3> QED BY <1>7, <2>1, <3>2, <3>3 DEF Subscriber, t
  <2> QED BY <2>3, <2>4
<1>14. /\ hnd' \in Seq(Handler) /\ Len(hnd') = Len(hnd) /\ hnd'[s] = x
       /\ \A r \in 1..Len(hnd) : r # s => hnd'[r] = hnd[r]
  BY <1>1, <1>7, HandlerPut DEF Inv
<1>15. HandlersInv'
  BY <1>1, <1>7, <1>12, <1>13, <1>14, OneHandler DEF Inv, h, n
<1> QED BY <1>14, <1>15

\* A handler that ends leaves nothing in its queue, and no subscriber.
LEMMA HandlerEndInv ==
  ASSUME Inv, NEW s \in 1..Len(hnd), HandlerEnd(s)
  PROVE  hnd' \in Seq(Handler) /\ Len(hnd') = Len(hnd) /\ HandlersInv'
<1> DEFINE h == hnd[s]
           x == [h EXCEPT !.state = "ended", !.queue = <<>>, !.out = <<>>]
<1>1. /\ latest' = latest
      /\ hnd' = [hnd EXCEPT ![s] = x]
      /\ subs' = IF h.state = "open" THEN [subs EXCEPT ![h.l] = NoStream] ELSE subs
  BY DEF HandlerEnd
<1>2. h \in Handler /\ h.l \in Learners /\ InOrder(h, latest[h.l])
  BY HandlerFields DEF Inv, HandlersInv
<1>3. <<>> \in Seq(1..MaxVersion)
  BY EmptySeq
<1>4. /\ x \in Handler /\ x.l = h.l /\ x.state = "ended" /\ x.queue = <<>> /\ x.out = <<>>
      /\ x.sent = h.sent /\ x.asked = h.asked
  BY <1>2, <1>3 DEF Handler
<1> HIDE DEF x
<1>5. InOrder(x, latest[h.l])
  <2>1. x.sent # x.asked => x.sent <= latest[h.l]
    BY <1>2, <1>4 DEF InOrder
  <2> QED BY <1>4, <2>1 DEF InOrder, Sorted, Below, Above
<1>6. /\ hnd' \in Seq(Handler) /\ Len(hnd') = Len(hnd) /\ hnd'[s] = x
      /\ \A r \in 1..Len(hnd) : r # s => hnd'[r] = hnd[r]
  BY <1>1, <1>4, HandlerPut DEF Inv
<1>7. h.state # "open" => \A l \in Learners : subs[l] # s
  BY DEF Inv, HandlersInv, Subscriber, NoStream
<1>8. HandlersInv'
  BY <1>1, <1>4, <1>5, <1>6, <1>7, OneHandler DEF Inv
<1> QED BY <1>6, <1>8

\* Publishing reaches the subscriber of that learner only.
LEMMA PublishInv ==
  ASSUME Inv, NEW l \in Learners, Publish(l)
  PROVE  hnd' \in Seq(Handler) /\ Len(hnd') = Len(hnd) /\ HandlersInv'
<1> DEFINE n == latest[l]
           s == subs[l]
           h == hnd[s]
<1>1. /\ latest \in [Learners -> 0..MaxVersion] /\ subs \in [Learners -> Nat]
      /\ hnd \in Seq(Handler)
  BY DEF Inv, HandlersInv
<1>2. /\ n < MaxVersion /\ subs' = subs
      /\ latest' = [latest EXCEPT ![l] = n + 1]
      /\ n \in Nat /\ n + 1 \in 1..MaxVersion /\ n + 1 \in 0..MaxVersion
  <2>1. Versions[l] \in 0..MaxVersion /\ MaxVersion \in Nat
    BY Bounds
  <2> QED BY <1>1, <2>1 DEF Publish
<1>3. /\ latest' \in [Learners -> 0..MaxVersion] /\ latest'[l] = n + 1
      /\ \A k \in Learners : k # l => latest'[k] = latest[k]
  BY <1>1, <1>2
<1>4. ASSUME NEW r \in 1..Len(hnd)
      PROVE  /\ hnd[r].l \in Learners /\ InOrder(hnd[r], latest[hnd[r].l])
             /\ InOrder(hnd[r], latest'[hnd[r].l])
  <2>1. /\ hnd[r] \in Handler /\ hnd[r].l \in Learners /\ hnd[r].sent \in 0..MaxVersion
        /\ hnd[r].queue \in Seq(1..MaxVersion) /\ hnd[r].out \in Seq(1..MaxVersion)
    BY <1>1, HandlerFields
  <2>2. InOrder(hnd[r], latest[hnd[r].l])
    BY DEF Inv, HandlersInv
  <2> DEFINE m == latest[hnd[r].l]
             x == hnd[r]
  <2>3. m \in Nat /\ latest'[hnd[r].l] \in Nat /\ m <= latest'[hnd[r].l]
    BY <1>1, <1>2, <1>3, <2>1, Bounds
  <2>4. \A i \in 1..Len(x.queue) : x.queue[i] \in 1..MaxVersion
    BY <2>1, ElementOfSeq
  <2>5. \A i \in 1..Len(x.out) : x.out[i] \in 1..MaxVersion
    BY <2>1, ElementOfSeq
  <2>6. Below(x.queue, latest'[hnd[r].l]) /\ Below(x.out, latest'[hnd[r].l])
    <3> DEFINE mm == latest'[hnd[r].l]
               q == x.queue
               o == x.out
    <3>1. Below(q, m) /\ Below(o, m)
      BY <2>2 DEF InOrder
    <3>2. m \in Nat /\ mm \in Nat /\ m <= mm
      BY <2>3
    <3>3. /\ \A i \in 1..Len(q) : q[i] \in Int
          /\ \A i \in 1..Len(o) : o[i] \in Int
      BY <2>4, <2>5, Bounds
    <3> HIDE DEF m, mm, q, o
    <3>4. Below(q, mm) /\ Below(o, mm)
      BY <3>1, <3>2, <3>3 DEF Below
    <3> QED BY <3>4 DEF mm, q, o
  <2>7. x.sent # x.asked => x.sent <= latest'[hnd[r].l] /\ Above(x.queue, x.sent)
    <3>1. x.sent # x.asked => x.sent <= m /\ Above(x.queue, x.sent)
      BY <2>2 DEF InOrder
    <3>2. x.sent \in Int
      BY <2>1, Bounds
    <3> QED BY <2>3, <3>1, <3>2
  <2>8. InOrder(hnd[r], latest'[hnd[r].l])
    BY <2>2, <2>6, <2>7 DEF InOrder
  <2> QED BY <2>1, <2>2, <2>8
<1>5. ASSUME NEW k \in Learners, subs[k] # NoStream
      PROVE  subs[k] \in 1..Len(hnd) /\ Subscriber(hnd[subs[k]], k, latest[k])
  BY <1>5 DEF Inv, HandlersInv
<1>6. CASE s = NoStream
  <2>1. hnd' = hnd
    BY <1>6 DEF Publish
  <2>2. \A r \in 1..Len(hnd') : InOrder(hnd'[r], latest'[hnd'[r].l])
    BY <1>4, <1>6, <2>1
  <2>3. ASSUME NEW k \in Learners, subs'[k] # NoStream
        PROVE  subs'[k] \in 1..Len(hnd') /\ Subscriber(hnd'[subs'[k]], k, latest'[k])
    BY <1>2, <1>3, <1>5, <1>6, <2>1, <2>3
  <2> QED BY <1>1, <1>2, <1>3, <2>1, <2>2, <2>3 DEF HandlersInv
<1>7. CASE s # NoStream
  <2>1. s \in 1..Len(hnd) /\ Subscriber(h, l, n)
    BY <1>5, <1>7
  <2>2. h \in Handler /\ h.l = l /\ h.state = "open" /\ h.queue \in Seq(1..MaxVersion)
        /\ h.sent \in 0..MaxVersion
    BY <1>1, <2>1, HandlerFields DEF Subscriber
  <2> DEFINE e == Enqueue(h.queue, n + 1)
             x == [h EXCEPT !.queue = e]
  <2>3. InOrder(h, n)
    BY <1>4, <2>1, <2>2
  <2>4. /\ e \in Seq(1..MaxVersion) /\ e # <<>> /\ e[Len(e)] = n + 1
        /\ Sorted(e) /\ Below(e, n + 1)
        /\ \A m \in Int : m <= n /\ Above(h.queue, m) => Above(e, m)
    BY <1>2, <2>2, <2>3, Enqueued DEF InOrder
  <2>5. hnd' = [hnd EXCEPT ![s] = x]
    <3>1. hnd' = [hnd EXCEPT ![subs[l]].queue = Enqueue(@, latest'[l])]
      BY <1>7 DEF Publish
    <3> QED BY <1>3, <3>1
  <2> HIDE DEF e
  <2>6. /\ x \in Handler /\ x.l = l /\ x.state = "open" /\ x.queue = e
        /\ x.out = h.out /\ x.sent = h.sent /\ x.asked = h.asked
    BY <2>2, <2>4 DEF Handler
  <2> HIDE DEF x
  <2>7. /\ hnd' \in Seq(Handler) /\ Len(hnd') = Len(hnd) /\ hnd'[s] = x
        /\ \A r \in 1..Len(hnd) : r # s => hnd'[r] = hnd[r]
    BY <1>1, <2>1, <2>5, <2>6, HandlerPut
  <2>8. InOrder(x, n + 1)
    <3>1. InOrder(h, n + 1)
      BY <1>3, <1>4, <2>1, <2>2
    <3>2. \A i \in 1..Len(h.out) : h.out[i] \in Int /\ h.out[i] <= n
      <4>1. ASSUME NEW i \in 1..Len(h.out) PROVE h.out[i] \in 1..MaxVersion
        <5>1. h.out \in Seq(1..MaxVersion)
          BY <1>1, <2>1, HandlerFields
        <5> QED BY <5>1, ElementOfSeq
      <4> QED BY <2>3, <4>1, Bounds DEF InOrder, Below
    <3>3. \A i \in 1..Len(x.out) : Above(x.queue, x.out[i])
      BY <2>3, <2>4, <2>6, <3>2 DEF InOrder
    <3>4. x.sent # x.asked => Above(x.queue, x.sent)
      <4>1. h.sent \in Int
        BY <2>2, Bounds
      <4> QED BY <2>3, <2>4, <2>6, <4>1 DEF InOrder
    <3> QED BY <2>4, <2>6, <3>1, <3>3, <3>4 DEF InOrder
  <2>9. Subscriber(x, l, n + 1)
    BY <2>4, <2>6 DEF Subscriber
  <2>10. ASSUME NEW r \in 1..Len(hnd') PROVE InOrder(hnd'[r], latest'[hnd'[r].l])
    <3>1. CASE r = s
      BY <1>3, <2>6, <2>7, <2>8, <3>1
    <3>2. CASE r # s
      BY <1>4, <2>7, <3>2
    <3> QED BY <3>1, <3>2
  <2>11. ASSUME NEW k \in Learners, subs'[k] # NoStream
         PROVE  subs'[k] \in 1..Len(hnd') /\ Subscriber(hnd'[subs'[k]], k, latest'[k])
    <3>1. CASE k = l
      BY <1>2, <1>3, <2>1, <2>7, <2>9, <3>1
    <3>2. CASE k # l
      <4>1. subs[k] \in 1..Len(hnd) /\ Subscriber(hnd[subs[k]], k, latest[k])
        BY <1>2, <1>5, <2>11
      <4>2. subs[k] # s
        BY <2>2, <3>2, <4>1 DEF Subscriber
      <4> QED BY <1>2, <1>3, <2>7, <3>2, <4>1, <4>2
    <3> QED BY <3>1, <3>2
  <2> QED BY <1>1, <1>2, <1>3, <2>7, <2>10, <2>11 DEF HandlersInv
<1> QED BY <1>6, <1>7

-----------------------------------------------------------------------------
(* The worker's side, and the whole.                                       *)

\* What the subscriber's thread and the calls of other threads do to its state.
LEMMA ClientStep ==
  ASSUME Inv, [Next]_vars, lastVer' \in 0..MaxVersion
  PROVE  ClientInv'
<1> USE DEF Inv, ClientInv, PCs, NoStream
<1>1. CASE Choose \/ Check \/ Sleep \/ End \/ SetContext \/ OpenFails \/ LeaveLoop \/ Break
           \/ Finish \/ Retry
  BY <1>1 DEF Choose, Check, Sleep, End, SetContext, OpenFails, LeaveLoop, Break, Finish,
              Retry, Goto, callerVars, serverVars
<1>2. CASE Subscribe
  <2>1. Len(hnd) \in Nat
    BY LenProperties
  <2>2. stream' # 0
    BY <1>2, <2>1 DEF Subscribe
  <2> QED BY <1>2, <2>2 DEF Subscribe, callerVars
<1>3. CASE Receive
  BY <1>3 DEF Receive, callerVars
<1>4. CASE \E t \in Learners \cup {NoTarget} : SetTarget(t)
  BY <1>4 DEF SetTarget, Wake, serverVars
<1>5. CASE Reconnect \/ Stop \/ StopCancel \/ StopNotify \/ StopJoin
  BY <1>5 DEF Reconnect, Stop, StopCancel, StopNotify, StopJoin, Cancel, Active, Wake, clientVars,
              serverVars
<1>6. CASE UNCHANGED <<clientVars, callerVars>>
  BY <1>6 DEF clientVars, callerVars
<1>7. ASSUME \/ \E l \in Learners : Publish(l)
             \/ \E s \in DOMAIN hnd : HandlerStart(s) \/ HandlerSend(s) \/ HandlerEnd(s)
             \/ UNCHANGED vars
      PROVE  UNCHANGED <<clientVars, callerVars>>
  BY <1>7 DEF Publish, HandlerStart, Subscribed, HandlerSend, HandlerEnd, vars
<1> QED BY <1>1, <1>2, <1>3, <1>4, <1>5, <1>6, <1>7 DEF Next

\* There is no handler at first.
LEMMA InitInv == Init => Inv
<1> SUFFICES ASSUME Init PROVE Inv
  OBVIOUS
<1>1. hnd = <<>> /\ hnd \in Seq(Handler) /\ Len(hnd) = 0
  BY EmptySeq DEF Init
<1>2. ClientInv
  <2>1. 0 \in 0..MaxVersion
    BY Bounds
  <2>2. model \in [from : Learners \cup {NoTarget}, version : 0..MaxVersion]
    BY <2>1 DEF Init
  <2> QED BY <2>1, <2>2 DEF Init, ClientInv, PCs
<1>3. HandlersInv
  BY <1>1, Bounds DEF Init, HandlersInv, NoStream
<1> QED BY <1>1, <1>2, <1>3 DEF Init, Inv

\* Every step keeps the invariant.
LEMMA StepInv == Inv /\ [Next]_vars => Inv'
<1> SUFFICES ASSUME Inv, [Next]_vars PROVE Inv'
  OBVIOUS
<1>0. /\ hnd \in Seq(Handler) /\ Len(hnd) \in Nat /\ DOMAIN hnd = 1..Len(hnd)
      /\ stream \in {NoStream} \cup 1..Len(hnd) /\ lastVer \in 0..MaxVersion
  BY LenProperties DEF Inv, ClientInv
<1>1. CASE Subscribe
  <2>1. hnd' \in Seq(Handler) /\ Len(hnd') = Len(hnd) + 1 /\ HandlersInv'
    BY <1>1, SubscribeInv
  <2>2. stream' = Len(hnd) + 1 /\ lastVer' = lastVer
    BY <1>1 DEF Subscribe
  <2>3. ClientInv'
    BY <1>0, <2>2, ClientStep
  <2>4. stream' \in 1..Len(hnd')
    BY <1>0, <2>1, <2>2
  <2> QED BY <2>1, <2>3, <2>4 DEF Inv
<1>2. CASE Receive
  <2>1. hnd' \in Seq(Handler) /\ Len(hnd') = Len(hnd) /\ HandlersInv' /\ lastVer' \in 0..MaxVersion
    BY <1>2, ReceiveInv
  <2>2. stream' = stream
    BY <1>2 DEF Receive
  <2> QED BY <1>0, <2>1, <2>2, ClientStep DEF Inv
<1>3. ASSUME \/ \E l \in Learners : Publish(l)
             \/ \E s \in DOMAIN hnd : HandlerStart(s) \/ HandlerSend(s) \/ HandlerEnd(s)
      PROVE  Inv'
  <2>1. hnd' \in Seq(Handler) /\ Len(hnd') = Len(hnd) /\ HandlersInv'
    BY <1>0, <1>3, PublishInv, HandlerStartInv, HandlerSendInv, HandlerEndInv
  <2>2. stream' = stream /\ lastVer' = lastVer
    BY <1>3 DEF Publish, HandlerStart, Subscribed, HandlerSend, HandlerEnd, clientVars
  <2> QED BY <1>0, <2>1, <2>2, ClientStep DEF Inv
<1>4. CASE UNCHANGED serverVars /\ lastVer' = lastVer /\ stream' \in {stream, NoStream}
  <2>1. hnd' = hnd /\ latest' = latest /\ subs' = subs
    BY <1>4 DEF serverVars
  <2>2. HandlersInv'
    BY <2>1 DEF Inv, HandlersInv
  <2> QED BY <1>0, <1>4, <2>1, <2>2, ClientStep DEF Inv
<1>5. ASSUME \/ Choose \/ Check \/ Sleep \/ End \/ SetContext \/ OpenFails
             \/ LeaveLoop \/ Break \/ Finish \/ Retry
             \/ \E t \in Learners \cup {NoTarget} : SetTarget(t)
             \/ Reconnect \/ Stop \/ StopCancel \/ StopNotify \/ StopJoin
             \/ UNCHANGED vars
      PROVE  UNCHANGED serverVars /\ lastVer' = lastVer /\ stream' \in {stream, NoStream}
  BY <1>5 DEF Choose, Check, Sleep, End, SetContext, OpenFails, LeaveLoop, Break, Finish, Retry,
              Goto, SetTarget, Reconnect, Stop, StopCancel, StopNotify, StopJoin, clientVars, vars
<1> QED BY <1>1, <1>2, <1>3, <1>4, <1>5 DEF Next

\* The invariant holds for all values of the constants.
LEMMA Invariance == Spec => []Inv
<1> QED BY InitInv, StepInv, PTL DEF Spec

\* What is in order stays so when it is put behind what is older.
LEMMA InOrderIncreases ==
  ASSUME NEW p \in Seq(0..MaxVersion), NEW q \in Seq(0..MaxVersion), Sorted(p), Sorted(q),
         \A i \in 1..Len(p) : Above(q, p[i])
  PROVE  Increasing(p \o q)
<1> DEFINE c == p \o q
<1>1. /\ Len(c) = Len(p) + Len(q) /\ Len(p) \in Nat /\ Len(q) \in Nat
      /\ \A i \in 1..Len(p) : c[i] = p[i]
      /\ \A i \in 1..Len(q) : c[Len(p) + i] = q[i]
  <2>1. /\ Len(c) = Len(p) + Len(q)
        /\ \A i \in 1..Len(c) : c[i] = IF i <= Len(p) THEN p[i] ELSE q[i - Len(p)]
    BY ConcatProperties
  <2>2. Len(p) \in Nat /\ Len(q) \in Nat
    BY LenProperties
  <2> HIDE DEF c
  <2>3. \A i \in 1..Len(p) : c[i] = p[i]
    BY <2>1, <2>2
  <2>4. \A i \in 1..Len(q) : c[Len(p) + i] = q[i]
    BY <2>1, <2>2
  <2> QED BY <2>1, <2>2, <2>3, <2>4
<1> HIDE DEF c
<1>2. \A i, j \in 1..Len(p) : i < j => p[i] < p[j]
  BY DEF Sorted
<1>3. \A i, j \in 1..Len(q) : i < j => q[i] < q[j]
  BY DEF Sorted
<1>4. \A i \in 1..Len(p), j \in 1..Len(q) : p[i] < q[j]
  BY DEF Above
<1>5. ASSUME NEW i \in 1..Len(c) - 1 PROVE c[i] < c[i + 1]
  <2>1. CASE i < Len(p)
    BY <1>1, <1>2, <2>1
  <2>2. CASE i = Len(p)
    <3>1. Len(p) \in 1..Len(p) /\ 1 \in 1..Len(q) /\ c[Len(p) + 1] = q[1]
      BY <1>1, <2>2
    <3> QED BY <1>1, <1>4, <2>2, <3>1
  <2>3. CASE i > Len(p)
    <3>1. /\ i - Len(p) \in 1..Len(q) /\ i - Len(p) + 1 \in 1..Len(q)
          /\ Len(p) + (i - Len(p)) = i /\ Len(p) + (i - Len(p) + 1) = i + 1
      BY <1>1, <2>3
    <3>2. PICK a : a = i - Len(p)
      OBVIOUS
    <3>3. /\ a \in 1..Len(q) /\ a + 1 \in 1..Len(q) /\ a < a + 1
          /\ Len(p) + a = i /\ Len(p) + (a + 1) = i + 1
      BY <1>1, <3>1, <3>2
    <3>4. c[Len(p) + a] = q[a] /\ c[Len(p) + (a + 1)] = q[a + 1]
      BY <1>1, <3>3
    <3>5. q[a] < q[a + 1]
      BY <1>3, <3>3
    <3> QED BY <3>3, <3>4, <3>5
  <2> QED BY <1>1, <2>1, <2>2, <2>3
<1> QED BY <1>5 DEF Increasing, c

\* On every stream versions arrive in order and none twice, and a full queue
\* loses superseded versions only, whatever the number of learners, versions
\* and subscriptions, and however long the queues are (policy_pusher.py).
THEOREM VersionsInOrder == Spec => []StreamInOrder
<1>1. Inv => StreamInOrder
  <2> SUFFICES ASSUME Inv PROVE StreamInOrder
    OBVIOUS
  <2>1. /\ hnd \in Seq(Handler) /\ DOMAIN hnd = 1..Len(hnd)
        /\ \A s \in 1..Len(hnd) : hnd[s] \in Handler
    BY LenProperties, ElementOfSeq DEF Inv
  <2>2. TypeOK
    BY <2>1 DEF Inv, ClientInv, HandlersInv, TypeOK
  <2>3. NewestKept
    BY DEF Inv, HandlersInv, NewestKept, Subscriber
  <2>4. ASSUME NEW s \in DOMAIN hnd
        PROVE  /\ Increasing(hnd[s].out \o hnd[s].queue)
               /\ hnd[s].sent # hnd[s].asked => Increasing(<<hnd[s].sent>> \o hnd[s].queue)
    <3> DEFINE h == hnd[s]
    <3>1. /\ h.queue \in Seq(0..MaxVersion) /\ h.out \in Seq(0..MaxVersion)
          /\ h.sent \in 0..MaxVersion
      <4>1. /\ h.queue \in Seq(1..MaxVersion) /\ h.out \in Seq(1..MaxVersion)
            /\ h.sent \in 0..MaxVersion
        BY <2>1, HandlerFields
      <4>2. \A q \in Seq(1..MaxVersion) : q \in Seq(0..MaxVersion)
        <5>1. 1..MaxVersion \subseteq 0..MaxVersion
          BY Bounds
        <5> QED BY <5>1, SeqMonotonic
      <4> QED BY <4>1, <4>2
    <3>2. InOrder(h, latest[h.l])
      BY <2>1 DEF Inv, HandlersInv
    <3>3. Increasing(h.out \o h.queue)
      BY <3>1, <3>2, InOrderIncreases DEF InOrder
    <3>4. ASSUME h.sent # h.asked PROVE Increasing(<<h.sent>> \o h.queue)
      <4> DEFINE p == <<h.sent>>
      <4>1. p \in Seq(0..MaxVersion) /\ Len(p) = 1 /\ p[1] = h.sent
        BY <3>1
      <4>2. Sorted(h.queue) /\ Above(h.queue, h.sent)
        BY <3>2, <3>4 DEF InOrder
      <4> HIDE DEF p
      <4>3. Sorted(p) /\ \A i \in 1..Len(p) : Above(h.queue, p[i])
        BY <4>1, <4>2 DEF Sorted
      <4>4. Increasing(p \o h.queue)
        BY <3>1, <4>1, <4>2, <4>3, InOrderIncreases
      <4> QED BY <4>4 DEF p
    <3> QED BY <3>3, <3>4
  <2> QED BY <2>2, <2>3, <2>4 DEF StreamInOrder
<1> QED BY <1>1, Invariance, PTL

-----------------------------------------------------------------------------
(* The model in use.                                                       *)

\* Nothing in q is older than version v; nor is anything that handler h has.
NotBefore(q, v) == \A i \in 1..Len(q) : v <= q[i]
Offers(h, v) == NotBefore(h.queue, v) /\ NotBefore(h.out, v)

\* The model in use has been published, and the stream that is open offers
\* nothing older of the same learner.
UseInv ==
  /\ \A l \in Learners : model.from = l => model.version <= latest[l]
  /\ stream # NoStream =>
       hnd[stream].l = dest /\ (model.from = dest => Offers(hnd[stream], model.version))

\* Versions are numbers.
LEMMA VersionTypes ==
  ASSUME Inv
  PROVE  /\ model.version \in Nat /\ model.version \in 0..MaxVersion
         /\ \A l \in Learners : latest[l] \in Nat
         /\ hnd \in Seq(Handler) /\ Len(hnd) \in Nat /\ DOMAIN hnd = 1..Len(hnd)
         /\ stream # NoStream => stream \in 1..Len(hnd) /\ hnd[stream].l \in Learners
<1>1. model.version \in 0..MaxVersion /\ latest \in [Learners -> 0..MaxVersion]
  BY DEF Inv, ClientInv, HandlersInv
<1>2. hnd \in Seq(Handler) /\ Len(hnd) \in Nat /\ DOMAIN hnd = 1..Len(hnd)
  BY LenProperties DEF Inv
<1>3. stream # NoStream => stream \in 1..Len(hnd)
  BY DEF Inv
<1>4. stream # NoStream => hnd[stream].l \in Learners
  BY <1>2, <1>3, HandlerFields
<1> QED BY <1>1, <1>2, <1>3, <1>4, Bounds

\* A handler may get what is published and lose what it has.
Keeps(r) ==
  /\ hnd'[r].l = hnd[r].l
  /\ \A v \in 0..latest[hnd[r].l] : Offers(hnd[r], v) => Offers(hnd'[r], v)

\* What the learners do leaves the model in use behind.
LEMMA LearnersKeepUse ==
  ASSUME Inv, UseInv, UNCHANGED <<model, stream, dest>>,
         \A l \in Learners : latest'[l] \in Nat /\ latest[l] <= latest'[l],
         \A r \in 1..Len(hnd) : Keeps(r)
  PROVE  UseInv'
<1>1. ASSUME NEW l \in Learners, model'.from = l PROVE model'.version <= latest'[l]
  <2>1. model.version <= latest[l] /\ model'.version = model.version
    BY <1>1 DEF UseInv
  <2>2. model.version \in Nat /\ latest[l] \in Nat /\ latest'[l] \in Nat /\ latest[l] <= latest'[l]
    BY VersionTypes
  <2> QED BY <2>1, <2>2
<1>2. ASSUME stream' # NoStream
      PROVE  hnd'[stream'].l = dest' /\ (model'.from = dest' => Offers(hnd'[stream'], model'.version))
  <2>1. /\ stream \in 1..Len(hnd) /\ hnd[stream].l \in Learners /\ hnd[stream].l = dest
        /\ stream' = stream /\ dest' = dest /\ model' = model
    BY <1>2, VersionTypes DEF UseInv
  <2>2. Keeps(stream)
    BY <2>1
  <2>3. ASSUME model.from = dest PROVE Offers(hnd'[stream], model.version)
    <3>1. Offers(hnd[stream], model.version) /\ model.version <= latest[hnd[stream].l]
      BY <1>2, <2>1, <2>3 DEF UseInv
    <3>2. model.version \in 0..latest[hnd[stream].l]
      BY <2>1, <3>1, VersionTypes
    <3> QED BY <2>2, <3>1, <3>2 DEF Keeps
  <2> QED BY <2>1, <2>2, <2>3 DEF Keeps
<1> QED BY <1>1, <1>2 DEF UseInv

\* The latest version is not older than any that was published.
LEMMA HandlerStartKeeps ==
  ASSUME Inv, NEW s \in 1..Len(hnd), HandlerStart(s), NEW r \in 1..Len(hnd)
  PROVE  Keeps(r)
<1> DEFINE n == latest[hnd[s].l]
           out == IF n > hnd[s].asked THEN <<n>> ELSE <<>>
<1>1. /\ hnd[r] \in Handler /\ hnd[s] \in Handler /\ hnd \in Seq(Handler) /\ n \in Nat
  <2>1. hnd[s].l \in Learners
    BY HandlerFields DEF Inv
  <2> QED BY <2>1, HandlerFields, VersionTypes DEF Inv
<1>2. hnd' = [hnd EXCEPT ![s].state = "open", ![s].queue = <<>>, ![s].out = out,
                         ![s].sent = IF out = <<>> THEN @ ELSE out[1]]
  BY DEF HandlerStart, Subscribed
<1> HIDE DEF n
<1>3. r \in DOMAIN hnd /\ s \in DOMAIN hnd
  BY LenProperties DEF Inv
<1>4. Len(<<>>) = 0 /\ Len(<<n>>) = 1 /\ <<n>>[1] = n
  OBVIOUS
<1>5. CASE r = s
  <2>1. hnd'[s].l = hnd[s].l /\ hnd'[s].queue = <<>> /\ hnd'[s].out = out
    BY <1>1, <1>2, <1>3 DEF Handler
  <2>2. NotBefore(hnd'[s].queue, 0) /\ \A v : NotBefore(hnd'[s].queue, v)
    BY <1>4, <2>1 DEF NotBefore
  <2>3. ASSUME NEW v \in 0..n PROVE NotBefore(out, v)
    <3>1. CASE n > hnd[s].asked
      BY <1>1, <1>4, <3>1 DEF NotBefore
    <3>2. CASE ~ (n > hnd[s].asked)
      BY <1>4, <3>2 DEF NotBefore
    <3> QED BY <3>1, <3>2
  <2> HIDE DEF out
  <2> QED BY <1>5, <2>1, <2>2, <2>3 DEF Keeps, Offers, n
<1>6. CASE r # s
  <2>1. hnd'[r] = hnd[r]
    BY <1>2, <1>3, <1>6
  <2> QED BY <2>1 DEF Keeps
<1> QED BY <1>5, <1>6

\* What waits only moves on.
LEMMA HandlerSendKeeps ==
  ASSUME Inv, NEW s \in 1..Len(hnd), HandlerSend(s), NEW r \in 1..Len(hnd)
  PROVE  Keeps(r)
<1>1. /\ hnd[s] \in Handler /\ hnd[s].queue \in Seq(1..MaxVersion)
      /\ hnd[s].out \in Seq(1..MaxVersion) /\ hnd[s].queue # <<>>
      /\ r \in DOMAIN hnd /\ s \in DOMAIN hnd
  BY HandlerFields, LenProperties DEF Inv, HandlerSend
<1>2. PICK q \in Seq(1..MaxVersion) : q = hnd[s].queue
  BY <1>1
<1>3. PICK o \in Seq(1..MaxVersion) : o = hnd[s].out
  BY <1>1
<1>4. PICK t : t = Tail(q)
  OBVIOUS
<1>5. PICK v : v = Head(q)
  OBVIOUS
<1>6. /\ Len(t) = Len(q) - 1 /\ Len(q) \in Nat \ {0} /\ v \in 1..MaxVersion /\ v = q[1]
      /\ \A i \in 1..Len(t) : i + 1 \in 1..Len(q) /\ t[i] = q[i + 1]
  BY <1>1, <1>2, <1>4, <1>5, TailOf
<1>7. PICK p : p = Append(o, v)
  OBVIOUS
<1>8. /\ Len(p) = Len(o) + 1 /\ Len(o) \in Nat /\ p[Len(o) + 1] = v
       /\ \A i \in 1..Len(o) : p[i] = o[i]
  BY <1>6, <1>7, AppendOf
<1>9. CASE r = s
  <2>1. hnd' = [hnd EXCEPT ![s].queue = t, ![s].sent = v, ![s].out = p]
    BY <1>2, <1>3, <1>4, <1>5, <1>7 DEF HandlerSend
  <2>2. hnd'[s].l = hnd[s].l /\ hnd'[s].queue = t /\ hnd'[s].out = p
    BY <1>1, <2>1 DEF Handler
  <2>3. ASSUME NEW w \in Nat, NotBefore(q, w), NotBefore(o, w)
        PROVE  NotBefore(t, w) /\ NotBefore(p, w)
    <3>1. NotBefore(t, w)
      BY <1>6, <2>3 DEF NotBefore
    <3>2. w <= v
      <4>1. 1 \in 1..Len(q)
        BY <1>6
      <4> QED BY <1>6, <2>3, <4>1 DEF NotBefore
    <3>3. ASSUME NEW i \in 1..Len(p) PROVE w <= p[i]
      <4>1. i \in 1..Len(o) \/ i = Len(o) + 1
        BY <1>8
      <4>2. CASE i \in 1..Len(o)
        BY <1>8, <2>3, <4>2 DEF NotBefore
      <4>3. CASE i = Len(o) + 1
        BY <1>8, <3>2, <4>3
      <4> QED BY <4>1, <4>2, <4>3
    <3> QED BY <3>1, <3>3 DEF NotBefore
  <2>4. \A w \in 0..latest[hnd[s].l] : w \in Nat
    OBVIOUS
  <2> QED BY <1>2, <1>3, <1>9, <2>2, <2>3, <2>4 DEF Keeps, Offers
<1>10. CASE r # s
  <2>1. hnd'[r] = hnd[r]
    BY <1>1, <1>10 DEF HandlerSend
  <2> QED BY <2>1 DEF Keeps
<1> QED BY <1>9, <1>10

\* Nothing is left of what an ended handler had.
LEMMA HandlerEndKeeps ==
  ASSUME Inv, NEW s \in 1..Len(hnd), HandlerEnd(s), NEW r \in 1..Len(hnd)
  PROVE  Keeps(r)
<1>1. hnd[s] \in Handler /\ r \in DOMAIN hnd /\ s \in DOMAIN hnd
  BY HandlerFields, LenProperties DEF Inv
<1>2. hnd' = [hnd EXCEPT ![s].state = "ended", ![s].queue = <<>>, ![s].out = <<>>]
  BY DEF HandlerEnd
<1>3. CASE r = s
  <2>1. hnd'[s].l = hnd[s].l /\ hnd'[s].queue = <<>> /\ hnd'[s].out = <<>>
    BY <1>1, <1>2 DEF Handler
  <2>2. Len(<<>>) = 0
    OBVIOUS
  <2>3. \A v : NotBefore(hnd'[s].queue, v) /\ NotBefore(hnd'[s].out, v)
    BY <2>1, <2>2 DEF NotBefore
  <2> QED BY <1>3, <2>1, <2>3 DEF Keeps, Offers
<1>4. CASE r # s
  <2>1. hnd'[r] = hnd[r]
    BY <1>1, <1>2, <1>4
  <2> QED BY <2>1 DEF Keeps
<1> QED BY <1>3, <1>4

\* A version that is published now is newer than all.
LEMMA PublishKeeps ==
  ASSUME Inv, NEW l \in Learners, Publish(l), NEW r \in 1..Len(hnd)
  PROVE  Keeps(r)
<1>1. PICK n \in Nat : n = latest[l]
  BY VersionTypes
<1>2. n + 1 \in 1..MaxVersion /\ latest'[l] = n + 1
  <2>1. Versions[l] \in 0..MaxVersion /\ MaxVersion \in Nat
    BY Bounds
  <2>2. n < Versions[l] /\ latest' = [latest EXCEPT ![l] = n + 1] /\ l \in DOMAIN latest
    BY <1>1 DEF Publish, Inv, HandlersInv
  <2> QED BY <2>1, <2>2
<1>3. CASE subs[l] = NoStream \/ r # subs[l]
  <2>1. hnd'[r] = hnd[r]
    BY <1>3, LenProperties DEF Publish, Inv
  <2> QED BY <2>1 DEF Keeps
<1>4. CASE subs[l] # NoStream /\ r = subs[l]
  <2>1. /\ hnd[r] \in Handler /\ r \in DOMAIN hnd /\ hnd[r].queue \in Seq(1..MaxVersion)
        /\ InOrder(hnd[r], latest[hnd[r].l]) /\ hnd[r].l = l
    BY <1>4, HandlerFields, LenProperties DEF Inv, HandlersInv, Subscriber
  <2>2. PICK q \in Seq(1..MaxVersion) : q = hnd[r].queue
    BY <2>1
  <2>3. Sorted(q) /\ Below(q, n)
    BY <1>1, <2>1, <2>2 DEF InOrder
  <2>4. PICK e \in Seq(1..MaxVersion) :
          e = Enqueue(q, n + 1) /\ \A m \in Int : m <= n /\ Above(q, m) => Above(e, m)
    BY <1>2, <2>3, Enqueued
  <2>5. hnd' = [hnd EXCEPT ![r].queue = e]
    BY <1>2, <1>4, <2>2, <2>4 DEF Publish
  <2>6. hnd'[r].l = hnd[r].l /\ hnd'[r].queue = e /\ hnd'[r].out = hnd[r].out
    BY <2>1, <2>5 DEF Handler
  <2>7. ASSUME NEW v \in 0..n, NotBefore(q, v) PROVE NotBefore(e, v)
    <3>1. PICK m \in Int : m = v - 1 /\ m <= n
      OBVIOUS
    <3>2. ASSUME NEW i \in 1..Len(q) PROVE m < q[i]
      <4>1. q[i] \in 1..MaxVersion
        BY ElementOfSeq
      <4>2. q[i] \in Int /\ v <= q[i]
        BY <2>7, <4>1, Bounds DEF NotBefore
      <4> QED BY <3>1, <4>2
    <3>3. Above(q, m)
      BY <3>2 DEF Above
    <3>4. Above(e, m)
      BY <2>4, <3>1, <3>3
    <3>5. ASSUME NEW i \in 1..Len(e) PROVE v <= e[i]
      <4>1. e[i] \in 1..MaxVersion
        BY ElementOfSeq
      <4>2. e[i] \in Int /\ m < e[i]
        BY <3>4, <4>1, Bounds DEF Above
      <4> QED BY <3>1, <4>2
    <3> QED BY <3>5 DEF NotBefore
  <2> QED BY <1>1, <2>1, <2>2, <2>6, <2>7 DEF Keeps, Offers
<1> QED BY <1>3, <1>4

\* What the subscriber's thread takes from the stream was offered by it.
LEMMA ReceiveIs ==
  ASSUME Inv, UseInv, Receive
  PROVE  \E v \in 1..MaxVersion :
           /\ dest \in Learners /\ v \in 1..latest[dest]
           /\ model.from = dest => model.version <= v
           /\ model' = IF <<dest, v>> \in Broken THEN model ELSE [from |-> dest, version |-> v]
           /\ hnd'[stream].l = dest
           /\ NotBefore(hnd'[stream].queue, v) /\ NotBefore(hnd'[stream].out, v)
           /\ model.from = dest => Offers(hnd'[stream], model.version)
<1>1. /\ stream # NoStream /\ stream \in 1..Len(hnd) /\ hnd[stream].l = dest /\ dest \in Learners
      /\ stream \in DOMAIN hnd /\ latest[dest] \in Nat
      /\ model.from = dest => Offers(hnd[stream], model.version)
  <2>1. stream # NoStream
    BY DEF Receive, Inv, ClientInv
  <2> QED BY <2>1, VersionTypes DEF UseInv
<1>2. /\ hnd[stream] \in Handler /\ hnd[stream].queue \in Seq(1..MaxVersion)
      /\ hnd[stream].out \in Seq(1..MaxVersion) /\ hnd[stream].out # <<>>
  BY <1>1, HandlerFields DEF Inv, Receive
<1>3. PICK q \in Seq(1..MaxVersion) : q = hnd[stream].queue
  BY <1>2
<1>4. PICK o \in Seq(1..MaxVersion) : o = hnd[stream].out
  BY <1>2
<1>5. PICK t : t = Tail(o)
  OBVIOUS
<1>6. PICK v : v = Head(o)
  OBVIOUS
<1>7. /\ Len(t) = Len(o) - 1 /\ Len(o) \in Nat \ {0} /\ v \in 1..MaxVersion /\ v = o[1]
      /\ \A i \in 1..Len(t) : i + 1 \in 1..Len(o) /\ t[i] = o[i + 1]
  BY <1>2, <1>4, <1>5, <1>6, TailOf
<1>8. 1 \in 1..Len(o)
  BY <1>7
<1>9. Sorted(o) /\ Below(o, latest[dest]) /\ \A i \in 1..Len(o) : Above(q, o[i])
  BY <1>1, <1>3, <1>4 DEF Inv, HandlersInv, InOrder
<1>10. v \in 1..latest[dest]
  <2>1. v <= latest[dest] /\ v \in Nat /\ v >= 1
    BY <1>7, <1>8, <1>9, Bounds DEF Below
  <2> QED BY <1>1, <2>1
<1>11. NotBefore(q, v)
  <2>1. \A i \in 1..Len(q) : v < q[i]
    BY <1>7, <1>8, <1>9 DEF Above
  <2>2. ASSUME NEW i \in 1..Len(q) PROVE v <= q[i]
    <3>1. q[i] \in 1..MaxVersion
      BY ElementOfSeq
    <3> QED BY <1>7, <2>1, <3>1, Bounds
  <2> QED BY <2>2 DEF NotBefore
<1>12. NotBefore(t, v)
  <2>1. ASSUME NEW i \in 1..Len(t) PROVE v <= t[i]
    <3>1. PICK j \in 1..Len(o) : j = i + 1 /\ t[i] = o[j]
      BY <1>7
    <3>2. o[1] < o[j]
      BY <1>8, <1>9, <3>1 DEF Sorted
    <3>3. o[j] \in 1..MaxVersion
      BY ElementOfSeq
    <3> QED BY <1>7, <3>1, <3>2, <3>3, Bounds
  <2> QED BY <2>1 DEF NotBefore
<1>13. hnd' = [hnd EXCEPT ![stream].out = t]
  BY <1>4, <1>5 DEF Receive
<1>14. hnd'[stream].l = dest /\ hnd'[stream].queue = q /\ hnd'[stream].out = t
  BY <1>1, <1>2, <1>3, <1>13 DEF Handler
<1>15. model' = IF <<dest, v>> \in Broken THEN model ELSE [from |-> dest, version |-> v]
  BY <1>4, <1>6 DEF Receive
<1>16. ASSUME model.from = dest
       PROVE  model.version <= v /\ Offers(hnd'[stream], model.version)
  <2>1. NotBefore(q, model.version) /\ NotBefore(o, model.version)
    BY <1>1, <1>3, <1>4, <1>16 DEF Offers
  <2>2. model.version <= v
    BY <1>7, <1>8, <2>1 DEF NotBefore
  <2>3. NotBefore(t, model.version)
    BY <1>7, <2>1 DEF NotBefore
  <2> QED BY <1>14, <2>1, <2>2, <2>3 DEF Offers
<1> QED BY <1>1, <1>7, <1>10, <1>11, <1>12, <1>14, <1>15, <1>16

LEMMA ReceiveUse == ASSUME Inv, UseInv, Receive PROVE UseInv'
<1>1. PICK v \in 1..MaxVersion :
        /\ dest \in Learners /\ v \in 1..latest[dest]
        /\ model.from = dest => model.version <= v
        /\ model' = IF <<dest, v>> \in Broken THEN model ELSE [from |-> dest, version |-> v]
        /\ hnd'[stream].l = dest
        /\ NotBefore(hnd'[stream].queue, v) /\ NotBefore(hnd'[stream].out, v)
        /\ model.from = dest => Offers(hnd'[stream], model.version)
  BY ReceiveIs
<1>2. stream' = stream /\ dest' = dest /\ latest' = latest
  BY DEF Receive
<1>3. CASE <<dest, v>> \in Broken
  <2>1. model' = model
    BY <1>1, <1>3
  <2> QED BY <1>1, <1>2, <2>1 DEF UseInv
<1>4. CASE <<dest, v>> \notin Broken
  <2>1. model'.from = dest /\ model'.version = v
    BY <1>1, <1>4
  <2>2. v <= latest[dest]
    BY <1>1, VersionTypes
  <2>3. Offers(hnd'[stream], v)
    BY <1>1 DEF Offers
  <2> QED BY <1>1, <1>2, <2>1, <2>2, <2>3 DEF UseInv
<1> QED BY <1>3, <1>4

\* A new stream offers nothing yet.
LEMMA SubscribeUse == ASSUME Inv, UseInv, Subscribe PROVE UseInv'
<1> DEFINE x == [l |-> dest, state |-> "arriving", asked |-> lastVer,
                 sent |-> lastVer, queue |-> <<>>, out |-> <<>>]
<1>1. /\ hnd' = Append(hnd, x) /\ stream' = Len(hnd) + 1
      /\ UNCHANGED <<latest, model, dest>>
  BY DEF Subscribe
<1>2. x.l = dest /\ x.queue = <<>> /\ x.out = <<>> /\ Len(<<>>) = 0
  OBVIOUS
<1> HIDE DEF x
<1>3. Append(hnd, x)[Len(hnd) + 1] = x
  BY VersionTypes
<1>4. hnd'[stream'] = x
  BY <1>1, <1>3
<1>5. \A v : Offers(x, v)
  BY <1>2 DEF Offers, NotBefore
<1> QED BY <1>1, <1>2, <1>4, <1>5 DEF UseInv

\* Every step keeps the model in use within what was published.
LEMMA UseStep == Inv /\ UseInv /\ [Next]_vars => UseInv'
<1> SUFFICES ASSUME Inv, UseInv, [Next]_vars PROVE UseInv'
  OBVIOUS
<1>0. DOMAIN hnd = 1..Len(hnd) /\ \A l \in Learners : latest[l] \in Nat
  BY VersionTypes
<1>1. CASE Subscribe
  BY <1>1, SubscribeUse
<1>2. CASE Receive
  BY <1>2, ReceiveUse
<1>3. ASSUME NEW s \in 1..Len(hnd), HandlerStart(s) \/ HandlerSend(s) \/ HandlerEnd(s)
      PROVE  UseInv'
  <2>1. \A r \in 1..Len(hnd) : Keeps(r)
    BY <1>3, HandlerStartKeeps, HandlerSendKeeps, HandlerEndKeeps
  <2>2. latest' = latest /\ UNCHANGED <<model, stream, dest>>
    BY <1>3 DEF HandlerStart, Subscribed, HandlerSend, HandlerEnd, clientVars
  <2>3. \A l \in Learners : latest'[l] \in Nat /\ latest[l] <= latest'[l]
    BY <1>0, <2>2
  <2> QED BY <2>1, <2>2, <2>3, LearnersKeepUse
<1>4. ASSUME NEW l \in Learners, Publish(l) PROVE UseInv'
  <2>1. \A r \in 1..Len(hnd) : Keeps(r)
    BY <1>4, PublishKeeps
  <2>2. UNCHANGED <<model, stream, dest>>
    BY <1>4 DEF Publish, clientVars
  <2>3. latest' = [latest EXCEPT ![l] = @ + 1] /\ latest \in [Learners -> 0..MaxVersion]
    BY <1>4 DEF Publish, Inv, HandlersInv
  <2>4. \A k \in Learners : latest'[k] \in Nat /\ latest[k] <= latest'[k]
    BY <1>0, <2>3
  <2> QED BY <2>1, <2>2, <2>4, LearnersKeepUse
<1>5. CASE Choose
  <2>1. stream' = NoStream /\ UNCHANGED <<latest, model>>
    BY <1>5 DEF Choose, serverVars, Inv, ClientInv
  <2> QED BY <2>1 DEF UseInv
<1>6. CASE UNCHANGED <<latest, hnd, model, dest>> /\ stream' \in {stream, NoStream}
  BY <1>6 DEF UseInv
<1>7. ASSUME \/ Check \/ Sleep \/ End \/ SetContext \/ OpenFails
             \/ LeaveLoop \/ Break \/ Finish \/ Retry
             \/ \E t \in Learners \cup {NoTarget} : SetTarget(t)
             \/ Reconnect \/ Stop \/ StopCancel \/ StopNotify \/ StopJoin
             \/ UNCHANGED vars
      PROVE  UNCHANGED <<latest, hnd, model, dest>> /\ stream' \in {stream, NoStream}
  BY <1>7 DEF Check, Sleep, End, SetContext, OpenFails, LeaveLoop, Break, Finish, Retry,
              Goto, SetTarget, Reconnect, Stop, StopCancel, StopNotify, StopJoin, clientVars,
              serverVars, vars
<1> QED BY <1>0, <1>1, <1>2, <1>3, <1>4, <1>5, <1>6, <1>7 DEF Next

\* The worker uses a version that was published and is not older, or nothing
\* happens to the model in use.
LEMMA UseRefines == Inv /\ UseInv /\ [Next]_vars => [D!Next]_D!vars
<1> SUFFICES ASSUME Inv, UseInv, [Next]_vars PROVE D!Next \/ UNCHANGED D!vars
  OBVIOUS
<1>1. CASE Receive
  <2>1. PICK v \in 1..MaxVersion :
          /\ dest \in Learners /\ v \in 1..latest[dest]
          /\ model.from = dest => model.version <= v
          /\ model' = IF <<dest, v>> \in Broken THEN model ELSE [from |-> dest, version |-> v]
    BY <1>1, ReceiveIs
  <2>2. latest' = latest
    BY <1>1 DEF Receive
  <2>3. CASE <<dest, v>> \in Broken
    BY <2>1, <2>2, <2>3 DEF D!vars
  <2>4. CASE <<dest, v>> \notin Broken
    <3>1. D!Use(dest, v)
      BY <2>1, <2>2, <2>4 DEF D!Use
    <3> QED BY <2>1, <3>1 DEF D!Next
  <2> QED BY <2>3, <2>4
<1>2. ASSUME NEW l \in Learners, Publish(l) PROVE D!Next
  <2>1. D!Publish(l)
    BY <1>2 DEF Publish, D!Publish, clientVars
  <2> QED BY <2>1 DEF D!Next
<1>3. ASSUME \/ Choose \/ Check \/ Sleep \/ End \/ SetContext \/ Subscribe \/ OpenFails
             \/ LeaveLoop \/ Break \/ Finish \/ Retry
             \/ \E t \in Learners \cup {NoTarget} : SetTarget(t)
             \/ Reconnect \/ Stop \/ StopCancel \/ StopNotify \/ StopJoin
             \/ \E s \in DOMAIN hnd : HandlerStart(s) \/ HandlerSend(s) \/ HandlerEnd(s)
             \/ UNCHANGED vars
      PROVE  latest' = latest /\ model' = model
  BY <1>3 DEF Choose, Check, Sleep, End, SetContext, Subscribe, OpenFails, LeaveLoop, Break,
              Finish, Retry, Goto, SetTarget, Reconnect, Stop, StopCancel, StopNotify, StopJoin,
              HandlerStart, Subscribed, HandlerSend, HandlerEnd, clientVars, serverVars, vars
<1>4. CASE latest' = latest /\ model' = model
  BY <1>4 DEF D!vars
<1> QED BY <1>1, <1>2, <1>3, <1>4 DEF Next

\* For any learners, versions, payloads that fail to build, streams and queues:
\* the worker uses published models only, and never goes back to an older one
\* of the same learner (policy_subscriber.cpp, policy_pusher.py).
THEOREM StreamsDeliver == Spec => ModelsDelivered
<1>1. Init => UseInv /\ D!Init
  <2> SUFFICES ASSUME Init PROVE UseInv /\ D!Init
    OBVIOUS
  <2>1. stream = NoStream /\ latest = [l \in Learners |-> 0] /\ model = [from |-> NoTarget, version |-> 0]
    BY DEF Init
  <2>2. UseInv
    BY <2>1 DEF UseInv
  <2> QED BY <2>1, <2>2 DEF D!Init
<1>2. Spec => []UseInv
  BY <1>1, UseStep, Invariance, PTL DEF Spec
<1> QED BY <1>1, <1>2, UseRefines, Invariance, PTL DEF Spec, ModelsDelivered, D!Spec
=============================================================================
