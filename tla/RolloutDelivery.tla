-------------------------- MODULE RolloutDelivery ---------------------------
(***************************************************************************)
(* What the rollout pipeline of a worker promises: the simulators number    *)
(* their rollouts; a rollout reaches one learner, once, or gets lost; and   *)
(* the rollouts of a simulator travel in the order of their numbers, from   *)
(* connection to connection and within each of them.  Nothing is promised   *)
(* about which rollouts are lost.                                           *)
(***************************************************************************)
EXTENDS Integers, Sequences

CONSTANTS Sims, Learners

VARIABLES
  made,   \* rollouts numbered so far, for each simulator
  links,  \* the connections, in the order they were opened, with what
          \* arrived on each
  used    \* what each learner's trainer was given

vars == <<made, links, used>>

Rollouts == {r \in Sims \X Nat : r[2] < made[r[1]]}

Members(s) == {s[i] : i \in DOMAIN s}

\* What arrived anywhere, and what was used anywhere.
Arrived == UNION {Members(links[c].got) : c \in DOMAIN links}
Used == UNION {Members(used[l]) : l \in Learners}

\* No rollout of a simulator in A is as new as one of B.
Before(A, B) == \A a \in A, b \in B : a[1] = b[1] => a[2] < b[2]

\* A sequence in which the rollouts of each simulator are in order.
Ordered(s) == \A i, j \in DOMAIN s : i < j => Before({s[i]}, {s[j]})

\* new is old with something behind it, and this is it.
Extends(new, old) ==
  Len(new) >= Len(old) /\ SubSeq(new, 1, Len(old)) = old
Added(new, old) == SubSeq(new, Len(old) + 1, Len(new))

Init ==
  /\ made = [s \in Sims |-> 0]
  /\ links = <<>>
  /\ used = [l \in Learners |-> <<>>]

Make(s) ==
  /\ made' = [made EXCEPT ![s] = @ + 1]
  /\ UNCHANGED <<links, used>>

Connect(l) ==
  /\ links' = Append(links, [to |-> l, got |-> <<>>])
  /\ UNCHANGED <<made, used>>

\* A batch arrives on connection c, newer than all that arrived before on this
\* connection and on older ones, and older than what younger ones brought.
Arrive(c) ==
  LET batch == Added(links'[c].got, links[c].got)
  IN /\ links' = [links EXCEPT ![c] = [to |-> @.to, got |-> links'[c].got]]
     /\ Extends(links'[c].got, links[c].got)
     /\ Members(batch) \subseteq Rollouts
     /\ Ordered(batch)
     /\ \A d \in DOMAIN links :
          IF d <= c THEN Before(Members(links[d].got), Members(batch))
                    ELSE Before(Members(batch), Members(links[d].got))
     /\ UNCHANGED <<made, used>>

\* Learner l uses a batch that arrived there and that nobody has used.
Use(l) ==
  LET batch == Added(used'[l], used[l])
  IN /\ used' = [used EXCEPT ![l] = used'[l]]
     /\ Extends(used'[l], used[l])
     /\ Members(batch) \cap Used = {}
     /\ \A i, j \in DOMAIN batch : i # j => batch[i] # batch[j]
     /\ \A r \in Members(batch) :
          \E c \in DOMAIN links : links[c].to = l /\ r \in Members(links[c].got)
     /\ UNCHANGED <<made, links>>

Next ==
  \/ \E s \in Sims : Make(s)
  \/ \E l \in Learners : Connect(l) \/ Use(l)
  \/ \E c \in DOMAIN links : Arrive(c)

Spec == Init /\ [][Next]_vars
=============================================================================
