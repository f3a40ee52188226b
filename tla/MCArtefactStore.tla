---------------------------- MODULE MCArtefactStore ----------------------------
(* TLC instance of ArtefactStore: the upload-intent route. *)
EXTENDS ArtefactStore, TLC

Symmetry == Permutations(Requests) \cup Permutations(Calls) \cup Permutations(Artefacts)
            \cup Permutations(Contents)
=============================================================================
