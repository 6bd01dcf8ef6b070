---------------------------- MODULE MCTransients ----------------------------
(***************************************************************************)
(* Transients on small instances.  Slugs, extensions and slots are         *)
(* interchangeable, so the runs that check no liveness merge the states    *)
(* that differ only by a permutation of them.                              *)
(***************************************************************************)
EXTENDS Transients, TLC

Symmetry ==
    Permutations(Slugs) \cup Permutations(Exts)
        \cup Permutations(Reqs) \cup Permutations(Listeners)
=============================================================================
