---------------------------- MODULE MCGovernance ----------------------------
(***************************************************************************)
(* Small instances of Governance for TLC: which vectors, thresholds and    *)
(* stakes reach init, among them the ones init must refuse.                *)
(***************************************************************************)
EXTENDS Governance

CONSTANTS a1, a2, a3, h0, h1

MCTwoAddresses == {a1, a2}
MCThreeAddresses == {a1, a2, a3}

\* Guardian and signer vectors, legal ones and ones with a repeated entry.
MCGuardianLists == {<<a1>>, <<>>, <<a1, a1>>}
MCTwoSigners == {<<a1, a2>>, <<a1, a1>>}
MCThreeSigners == {<<a1, a2, a3>>, <<a2, a2, a3>>}

=============================================================================
