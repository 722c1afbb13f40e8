------------------------------ MODULE MCJournal ------------------------------
(* Model values and symmetry for checking ExecutionJournal and its refinement with TLC. *)
EXTENDS JournalRefinement, TLC

Symmetry == Permutations(Procs) \cup Permutations(Rules)
=============================================================================
