------------------------- MODULE MCHartLifecycle -------------------------
(***************************************************************************)
(* Three harts (the boot hart and two secondaries) and two start           *)
(* descriptors, so that two requests against one hart can disagree.        *)
(***************************************************************************)
EXTENDS HartLifecycle, TLC

CONSTANTS e1, e2

MCEntries == {e1, e2}
MCSymmetry == Permutations(MCEntries)
=============================================================================
