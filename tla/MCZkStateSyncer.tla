--------------------------- MODULE MCZkStateSyncer ---------------------------
(* An account with two signers that are both needed, the same with the     *)
(* first revoked and the other enough, and one whose threshold is zero.    *)
EXTENDS ZkStateSyncer

MCKey == {"k1", "k2"}
MCAccount == {[weight |-> [k \in MCKey |-> 1], med_threshold |-> 2],
              [weight |-> [k \in MCKey |-> IF k = "k1" THEN 0 ELSE 1], med_threshold |-> 1],
              [weight |-> [k \in MCKey |-> 1], med_threshold |-> 0]}
=============================================================================
