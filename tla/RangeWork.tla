------------------------------ MODULE RangeWork -----------------------------
(***************************************************************************)
(* What a thread pool promises those who call parallel_for() or             *)
(* trace_rays(), without its queue, its threads and its chunks: indexes are *)
(* processed in any order and any company, none of them twice; a call that  *)
(* returns normally has processed its range and processes nothing more; one *)
(* that throws has left something undone, and may go on with it behind the  *)
(* caller's back.                                                           *)
(***************************************************************************)
EXTENDS Integers

CONSTANTS Callers, Counts, Indexes, CanThrow

VARIABLES
  count,    \* the size of the range of each caller's latest call
  outcome,  \* of that call: "none", "pending", "done" or "threw"
  ran       \* how often each index of it was processed

vars == <<count, outcome, ran>>

Below(n) == {i \in Indexes : i < n}

\* The indexes in S are done once, and the others not at all.
Once(S) == [i \in Indexes |-> IF i \in S THEN 1 ELSE 0]

Init ==
  /\ count = [c \in Callers |-> 0]
  /\ outcome = [c \in Callers |-> "none"]
  /\ ran = [c \in Callers |-> Once({})]

\* A call begins; a caller who does not share the work is done with it at once.
Call(c, n, result) ==
  /\ outcome[c] # "pending"
  /\ count' = [count EXCEPT ![c] = n]
  /\ outcome' = [outcome EXCEPT ![c] = result]
  /\ ran' = [ran EXCEPT ![c] = Once(IF result = "done" THEN Below(n) ELSE {})]

\* Some indexes that were not processed are.
Process(c, S) ==
  /\ outcome[c] \in {"pending", "threw"}
  /\ \A i \in S : i < count[c] /\ ran[c][i] = 0
  /\ ran' = [ran EXCEPT ![c] = [i \in Indexes |-> IF i \in S THEN 1 ELSE ran[c][i]]]
  /\ UNCHANGED <<count, outcome>>

Return(c, result) ==
  /\ outcome[c] = "pending"
  /\ \/ result = "done" /\ ran[c] = Once(Below(count[c]))
     \/ result = "threw" /\ CanThrow /\ \E i \in Below(count[c]) : ran[c][i] = 0
  /\ outcome' = [outcome EXCEPT ![c] = result]
  /\ UNCHANGED <<count, ran>>

Next ==
  \E c \in Callers :
    \/ \E n \in Counts, result \in {"pending", "done"} : Call(c, n, result)
    \/ \E S \in SUBSET Indexes : Process(c, S)
    \/ \E result \in {"done", "threw"} : Return(c, result)

Spec == Init /\ [][Next]_vars
=============================================================================
