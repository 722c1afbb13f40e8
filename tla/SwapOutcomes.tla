---------------------------- MODULE SwapOutcomes ----------------------------
(***************************************************************************)
(* What the submission of swaps promises, without locks, sessions, nonces, *)
(* mempools or crashes: trades are executed one at a time, each at most    *)
(* once, only while the ledger shows it as pending, and the ledger ends up *)
(* with what really happened.  ExecutionJournal implements it.             *)
(***************************************************************************)
CONSTANTS
    Swaps,      \* journaled trades
    Rules,      \* rules they belong to
    NoRule      \* the rule of a trade that was not opened yet

VARIABLES
    ledger,     \* what the operator is told about each trade
    fate,       \* what the chain did with it
    owner       \* the rule that opened it

vars == <<ledger, fate, owner>>

TypeOK ==
    /\ ledger \in [Swaps -> {"none", "pending", "submitted", "failed", "outcome_unknown"}]
    /\ fate \in [Swaps -> {"absent", "success", "failure"}]
    /\ owner \in [Swaps -> Rules \cup {NoRule}]

Init ==
    /\ ledger = [s \in Swaps |-> "none"]
    /\ fate = [s \in Swaps |-> "absent"]
    /\ owner = [s \in Swaps |-> NoRule]

Unsettled(s) == ledger[s] \in {"pending", "outcome_unknown"}

\* A rule opens a trade while no trade is pending and none of its own trades
\* is unsettled.
Begin(s, u) ==
    /\ ledger[s] = "none"
    /\ \A t \in Swaps : ledger[t] # "pending"
    /\ \A t \in Swaps : Unsettled(t) => owner[t] # u
    /\ ledger' = [ledger EXCEPT ![s] = "pending"]
    /\ owner' = [owner EXCEPT ![s] = u]
    /\ UNCHANGED fate

\* The chain executes the trade, once, and only the pending one.
Execute(s, outcome) ==
    /\ ledger[s] = "pending"
    /\ fate[s] = "absent"
    /\ fate' = [fate EXCEPT ![s] = outcome]
    /\ UNCHANGED <<ledger, owner>>

\* The trade is settled with its outcome.
Settle(s) ==
    /\ Unsettled(s)
    /\ fate[s] # "absent"
    /\ ledger' = [ledger EXCEPT ![s] =
                    IF fate[s] = "success" THEN "submitted" ELSE "failed"]
    /\ UNCHANGED <<fate, owner>>

\* The trade was refused and never will execute.
Refuse(s) ==
    /\ ledger[s] = "pending"
    /\ fate[s] = "absent"
    /\ ledger' = [ledger EXCEPT ![s] = "failed"]
    /\ UNCHANGED <<fate, owner>>

\* The outcome cannot be read, but it cannot change any more either.
Park(s) ==
    /\ ledger[s] = "pending"
    /\ ledger' = [ledger EXCEPT ![s] = "outcome_unknown"]
    /\ UNCHANGED <<fate, owner>>

Next ==
    \E s \in Swaps :
        \/ \E u \in Rules : Begin(s, u)
        \/ \E outcome \in {"success", "failure"} : Execute(s, outcome)
        \/ Settle(s) \/ Refuse(s) \/ Park(s)

Spec == Init /\ [][Next]_vars
=============================================================================
