-------------------------- MODULE JournalRefinement --------------------------
(* The journal implements the promise of SwapOutcomes. *)
EXTENDS ExecutionJournal

Outcomes == INSTANCE SwapOutcomes WITH
    Swaps <- RunIds, Rules <- Rules, NoRule <- NoRule,
    ledger <- status, fate <- chain,
    owner <- [r \in RunIds |-> tx[r].rule]

\* Every step of the journal, the sessions and the network is a step of the
\* promise or changes nothing it can see.
ImplementsOutcomes == Outcomes!Spec
=============================================================================
