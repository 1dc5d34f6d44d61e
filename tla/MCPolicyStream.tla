--------------------------- MODULE MCPolicyStream ---------------------------
(* PolicyStream on two learners, up to three subscriptions.                  *)
EXTENDS PolicyStream
MCTwoLearners == {"e1", "e2"}
MCVersions == [l \in MCTwoLearners |-> IF l = "e1" THEN 3 ELSE 1]
MCBroken == {<<"e1", 1>>}
=============================================================================
