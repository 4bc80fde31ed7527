--------------------------- MODULE MCControlPlane ---------------------------
(* Small instances of ControlPlane for TLC. *)
EXTENDS ControlPlane, TLC

CONSTANTS alice, bob, c1, c2, fee, sys, pcount, lastpar

MCGuardianLists == {<<alice>>}

\* The two consoles are interchangeable.
MCSymmetry == Permutations({c1, c2})

\* Batches: empty, one that writes the counter twice, and one that hits a
\* reserved key after a legal write.
MCBatches ==
    {<<>>, <<<<pcount, 2>>, <<pcount, 0>>>>, <<<<fee, 2>>, <<sys, 0>>>>}

=============================================================================
