-------------------------- MODULE ExecutionJournal --------------------------
(***************************************************************************)
(* The durable submission of swaps: storage.py keeps a journal with one    *)
(* "pending" slot, execution.py reconciles that slot against the chain,    *)
(* submission.py talks to the node, and worker.py claims the execution     *)
(* lock and decides which rule trades next.                                *)
(*                                                                         *)
(* A process is one holder of the lock: a worker task, the recovery loop,  *)
(* an API evaluation or a configuration drain.  Every process may stop at  *)
(* any of its steps (exception, cancellation or death); only the journal   *)
(* and whatever bytes it had put on the network outlive it.                *)
(***************************************************************************)
EXTENDS Naturals

CONSTANTS
    Procs,      \* tasks and processes that contend for the execution lock
    Rules,      \* configured rules
    MaxRuns,    \* bound: journaled runs
    MaxNonce,   \* bound: wallet nonces used on the chain
    MaxWrites,  \* bound: writes of one rule's rule_state row
    Nobody,     \* the execution lock is free
    NoRule      \* a task that has decided on no rule

ASSUME JournalAssumption ==
    /\ MaxRuns \in Nat /\ MaxNonce \in Nat /\ MaxWrites \in Nat
    /\ Nobody \notin Procs /\ NoRule \notin Rules

RunIds == 1..MaxRuns     \* runs.id, autoincrement
Nonces == 1..MaxNonce
NoRun  == 0              \* the singleton slot is empty

VARIABLES
    lock,       \* holder of the execution lock, or Nobody
    pc,         \* where each process is in its reconciliation or evaluation
    task,       \* what each process holds in memory
    pending,    \* run in the pending_execution slot, or NoRun
    attempted,  \* pending_execution.broadcast_attempted
    uncertain,  \* runs in uncertain_executions
    status,     \* runs.status of every run
    tx,         \* the journaled transaction: its rule, nonce and basis
    writes,     \* how often each rule's rule_state row was written
    anchored,   \* rules whose baseline_price is not null
    wire,       \* runs with a copy of their bytes still under way to the node
    mempool,    \* runs whose transaction waits in the node's mempool
    chain,      \* committed outcome of each run's transaction
    nonce       \* the wallet's committed nonce

procVars    == <<lock, pc, task>>
journalVars == <<pending, attempted, uncertain, status, tx>>
ruleVars    == <<writes, anchored>>
chainVars   == <<wire, mempool, chain, nonce>>
vars == <<procVars, journalVars, ruleVars, chainVars>>

Statuses == {"none", "pending", "submitted", "failed", "outcome_unknown"}
Places   == {"idle", "recover", "lookup", "nonce", "submit", "posting",
             "admitted", "refused", "confirm", "rules", "decide", "signing"}

\* AutomationWorker / reconcile_execution locals.  "run" and "seen" are the
\* PendingExecution row as it was read; "basis" is the rule state a decision
\* was made on.
Tasks == [allow : BOOLEAN, todo : SUBSET Rules, run : RunIds \cup {NoRun},
          seen : BOOLEAN, rule : Rules \cup {NoRule}, basis : 0..MaxWrites]

NoTask == [allow |-> FALSE, todo |-> {}, run |-> NoRun, seen |-> FALSE,
           rule |-> NoRule, basis |-> 0]

Txs == [rule : Rules \cup {NoRule}, nonce : Nonces \cup {0}, basis : 0..MaxWrites]

TypeOK ==
    /\ lock \in Procs \cup {Nobody}
    /\ pc \in [Procs -> Places]
    /\ task \in [Procs -> Tasks]
    /\ pending \in RunIds \cup {NoRun}
    /\ attempted \in BOOLEAN
    /\ uncertain \in SUBSET RunIds
    /\ status \in [RunIds -> Statuses]
    /\ tx \in [RunIds -> Txs]
    /\ writes \in [Rules -> 0..MaxWrites]
    /\ anchored \in SUBSET Rules
    /\ wire \in SUBSET RunIds
    /\ mempool \in SUBSET RunIds
    /\ chain \in [RunIds -> {"absent", "success", "failure"}]
    /\ nonce \in 0..MaxNonce

Init ==
    /\ lock = Nobody
    /\ pc = [p \in Procs |-> "idle"]
    /\ task = [p \in Procs |-> NoTask]
    /\ pending = NoRun
    /\ attempted = FALSE
    /\ uncertain = {}
    /\ status = [r \in RunIds |-> "none"]
    /\ tx = [r \in RunIds |-> [rule |-> NoRule, nonce |-> 0, basis |-> 0]]
    /\ writes = [u \in Rules |-> 0]
    /\ anchored = {}
    /\ wire = {} /\ mempool = {}
    /\ chain = [r \in RunIds |-> "absent"]
    /\ nonce = 0

-----------------------------------------------------------------------------
(* Claiming and releasing the execution lock *)

\* Mutation of Claim: the execution lock is not taken.
ClaimUnlocked(p, allow, todo) ==
    /\ pc[p] = "idle"
    /\ lock' = p
    /\ pc' = [pc EXCEPT ![p] = "recover"]
    /\ task' = [task EXCEPT ![p] = [NoTask EXCEPT !.allow = allow, !.todo = todo]]
    /\ UNCHANGED <<journalVars, ruleVars, chainVars>>

\* flock(LOCK_EX | LOCK_NB).  A process that fails to get the lock reports
\* "execution_busy" and changes nothing, so only success is a step.  "allow"
\* is wallet.execute of the configuration (or of the drain's target) and
\* "todo" the matching rules: none for recover_once and for a drain.
Claim(p, allow, todo) ==
    /\ pc[p] = "idle"
    /\ lock = Nobody
    /\ lock' = p
    /\ pc' = [pc EXCEPT ![p] = "recover"]
    /\ task' = [task EXCEPT ![p] = [NoTask EXCEPT !.allow = allow, !.todo = todo]]
    /\ UNCHANGED <<journalVars, ruleVars, chainVars>>

At(p, place)   == pc[p] = place
Goto(p, place) == pc' = [pc EXCEPT ![p] = place] /\ UNCHANGED lock

\* The lock's context manager ends and the locals go with it.
Leave(p) ==
    /\ lock' = Nobody
    /\ pc' = [pc EXCEPT ![p] = "idle"]
    /\ task' = [task EXCEPT ![p] = NoTask]

\* A write of rule_state: a new baseline, or null.
WriteRuleState(u, known) ==
    /\ writes[u] < MaxWrites
    /\ writes' = [writes EXCEPT ![u] = @ + 1]
    /\ anchored' = IF known THEN anchored \cup {u} ELSE anchored \ {u}

-----------------------------------------------------------------------------
(* Reconciling the pending slot: execution.py *)

\* reconcile_execution reads the slot once and keeps the row.  An empty slot
\* lets the evaluation go on to its rules.
ReadPending(p) ==
    /\ At(p, "recover")
    /\ IF pending = NoRun
       THEN Goto(p, "rules") /\ UNCHANGED task
       ELSE /\ task' = [task EXCEPT ![p].run = pending, ![p].seen = attempted]
            /\ Goto(p, IF attempted THEN "lookup" ELSE "submit")
    /\ UNCHANGED <<journalVars, ruleVars, chainVars>>

\* Mutation of FinishExecution: the run gets the receipt's word for its status.
FinishExecutionRaw(r, success) ==
    /\ pending = r
    /\ status' = [status EXCEPT ![r] = IF success THEN "success" ELSE "failed"]
    /\ IF success THEN WriteRuleState(tx[r].rule, TRUE) ELSE UNCHANGED ruleVars
    /\ pending' = NoRun
    /\ attempted' = FALSE
    /\ UNCHANGED <<uncertain, tx>>

\* Mutation of FinishExecution: the rule keeps the state it traded on.
FinishExecutionOldBaseline(r, success) ==
    /\ pending = r
    /\ status' = [status EXCEPT ![r] = IF success THEN "submitted" ELSE "failed"]
    /\ pending' = NoRun
    /\ attempted' = FALSE
    /\ UNCHANGED <<uncertain, tx, ruleVars>>

\* Mutation of FinishExecution: the slot is not emptied.
FinishExecutionKeepSlot(r, success) ==
    /\ pending = r
    /\ status' = [status EXCEPT ![r] = IF success THEN "submitted" ELSE "failed"]
    /\ IF success THEN WriteRuleState(tx[r].rule, TRUE) ELSE UNCHANGED ruleVars
    /\ UNCHANGED <<pending, attempted, uncertain, tx>>

\* AutomationStore.finish_execution: one SQLite transaction that closes the
\* run, advances the rule only on success, and empties the slot.
FinishExecution(r, success) ==
    /\ pending = r
    /\ status' = [status EXCEPT ![r] = IF success THEN "submitted" ELSE "failed"]
    /\ IF success
       THEN WriteRuleState(tx[r].rule, TRUE)
       ELSE UNCHANGED ruleVars
    /\ pending' = NoRun
    /\ attempted' = FALSE
    /\ UNCHANGED <<uncertain, tx>>

\* Mutation of FinishReceipt: any receipt counts as success.
FinishReceiptBlind(p) ==
    /\ pc[p] \in {"lookup", "confirm"}
    /\ chain[task[p].run] # "absent"
    /\ FinishExecution(task[p].run, TRUE)
    /\ Goto(p, "rules")
    /\ UNCHANGED <<task, chainVars>>

\* A receipt was found, before or after a broadcast.
FinishReceipt(p) ==
    /\ pc[p] \in {"lookup", "confirm"}
    /\ chain[task[p].run] # "absent"
    /\ FinishExecution(task[p].run, chain[task[p].run] = "success")
    /\ Goto(p, "rules")
    /\ UNCHANGED <<task, chainVars>>

\* The lookup before a rebroadcast swallows every error and reports no receipt,
\* also for a transaction that has been committed.
LookupMissed(p) ==
    /\ At(p, "lookup")
    /\ Goto(p, "nonce")
    /\ UNCHANGED <<task, journalVars, ruleVars, chainVars>>

\* The committed nonce has passed the transaction's: this transaction or a
\* competing one used it, so these bytes can never execute again.
ReleaseConsumed(p) ==
    LET r == task[p].run IN
    /\ At(p, "nonce")
    /\ nonce >= tx[r].nonce
    /\ pending = r
    /\ uncertain' = uncertain \cup {r}
    /\ status' = [status EXCEPT ![r] = "outcome_unknown"]
    /\ pending' = NoRun
    /\ attempted' = FALSE
    /\ Goto(p, "rules")
    /\ UNCHANGED <<task, tx, ruleVars, chainVars>>

\* The endpoint reports a nonce below the transaction's (it may lag).
NonceUnused(p) ==
    /\ At(p, "nonce")
    /\ Goto(p, "submit")
    /\ UNCHANGED <<task, journalVars, ruleVars, chainVars>>

\* Mutation of MarkAttempted: the mark is only kept in memory.
MarkInMemory(p) ==
    /\ At(p, "submit")
    /\ task[p].allow
    /\ Goto(p, "posting")
    /\ UNCHANGED <<task, journalVars, ruleVars, chainVars>>

\* Mutation of MarkAttempted: an attempted transaction is never sent again.
MarkOnce(p) ==
    /\ At(p, "submit")
    /\ task[p].allow /\ ~task[p].seen
    /\ pending = task[p].run
    /\ attempted' = TRUE
    /\ Goto(p, "posting")
    /\ UNCHANGED <<task, pending, uncertain, status, tx, ruleVars, chainVars>>

\* mark_broadcast_attempted commits before anything reaches the network.
MarkAttempted(p) ==
    /\ At(p, "submit")
    /\ task[p].allow
    /\ pending = task[p].run
    /\ attempted' = TRUE
    /\ Goto(p, "posting")
    /\ UNCHANGED <<task, pending, uncertain, status, tx, ruleVars, chainVars>>

\* The node's CheckTx takes the posted bytes into its mempool.
NodeAdmits(p) ==
    LET r == task[p].run IN
    /\ At(p, "posting")
    /\ chain[r] = "absent" /\ r \notin mempool
    /\ nonce < tx[r].nonce
    /\ mempool' = mempool \cup {r}
    /\ Goto(p, "admitted")
    /\ UNCHANGED <<task, journalVars, ruleVars, wire, chain, nonce>>

\* CheckTx refuses this copy of the bytes: it will not execute, whatever became
\* of copies that were sent earlier.
NodeRefuses(p) ==
    /\ At(p, "posting")
    /\ Goto(p, "refused")
    /\ UNCHANGED <<task, journalVars, ruleVars, chainVars>>

ReplyAccepted(p) ==
    /\ At(p, "admitted")
    /\ Goto(p, "confirm")
    /\ UNCHANGED <<task, journalVars, ruleVars, chainVars>>

\* Mutation of ReplyRefused: every refusal settles the run.
RefusalSettles(p) ==
    /\ At(p, "refused")
    /\ FinishExecution(task[p].run, FALSE)
    /\ Goto(p, "rules")
    /\ UNCHANGED <<task, chainVars>>

\* A refusal settles the run only when the row that was read says that no
\* earlier attempt was made.
ReplyRefused(p) ==
    /\ At(p, "refused")
    /\ IF task[p].seen
       THEN /\ Goto(p, "confirm")
            /\ UNCHANGED <<journalVars, ruleVars>>
       ELSE /\ FinishExecution(task[p].run, FALSE)
            /\ Goto(p, "rules")
    /\ UNCHANGED <<task, chainVars>>

-----------------------------------------------------------------------------
(* Evaluating the matching rules: worker.py *)

HeldRuns(u) == {r \in uncertain : tx[r].rule = u}

\* Mutation of CheckRule: uncertain executions are not looked at.
CheckRuleUnheld(p, u) ==
    /\ At(p, "rules")
    /\ u \in task[p].todo
    /\ task' = [task EXCEPT ![p].rule = u]
    /\ Goto(p, "decide")
    /\ UNCHANGED <<journalVars, ruleVars, chainVars>>

\* A rule without an uncertain execution is decided.
CheckRule(p, u) ==
    /\ At(p, "rules")
    /\ u \in task[p].todo
    /\ HeldRuns(u) = {}
    /\ task' = [task EXCEPT ![p].rule = u]
    /\ Goto(p, "decide")
    /\ UNCHANGED <<journalVars, ruleVars, chainVars>>

\* Mutation of ResolveUncertain: a reverted trade does not resolve its run.
ResolveSuccessOnly(p, u) ==
    /\ At(p, "rules")
    /\ u \in task[p].todo
    /\ \E r \in HeldRuns(u) :
        /\ chain[r] = "success"
        /\ status' = [status EXCEPT ![r] = "submitted"]
        /\ uncertain' = uncertain \ {r}
    /\ WriteRuleState(u, FALSE)
    /\ task' = [task EXCEPT ![p].rule = u]
    /\ Goto(p, "decide")
    /\ UNCHANGED <<pending, attempted, tx, chainVars>>

\* reconcile_uncertain_rule found the receipt of the row fetchone() returned:
\* the rule's baseline is dropped whatever the outcome, and the rule is decided.
ResolveUncertain(p, u) ==
    /\ At(p, "rules")
    /\ u \in task[p].todo
    /\ \E r \in HeldRuns(u) :
        /\ chain[r] # "absent"
        /\ status' = [status EXCEPT ![r] =
                        IF chain[r] = "success" THEN "submitted" ELSE "failed"]
        /\ uncertain' = uncertain \ {r}
    /\ WriteRuleState(u, FALSE)
    /\ task' = [task EXCEPT ![p].rule = u]
    /\ Goto(p, "decide")
    /\ UNCHANGED <<pending, attempted, tx, chainVars>>

\* No receipt, or any error while asking for it: the rule stays held.
HoldRule(p, u) ==
    /\ At(p, "rules")
    /\ u \in task[p].todo
    /\ HeldRuns(u) # {}
    /\ task' = [task EXCEPT ![p].todo = @ \ {u}]
    /\ UNCHANGED <<lock, pc, journalVars, ruleVars, chainVars>>

\* The decided rule is done; the evaluation goes on to the next one.
NextRule(p) ==
    /\ task' = [task EXCEPT ![p].todo = @ \ {task[p].rule}, ![p].rule = NoRule]
    /\ Goto(p, "rules")

\* Below the threshold, cooling down, no reserves, quote or signing failed.
SkipRule(p) ==
    /\ At(p, "decide")
    /\ NextRule(p)
    /\ UNCHANGED <<journalVars, ruleVars, chainVars>>

\* A rule without a baseline only takes one; with wallet.execute off a decided
\* trade is recorded as a dry run that moves the baseline.
SaveBaseline(p) ==
    /\ At(p, "decide")
    /\ task[p].rule \notin anchored \/ ~task[p].allow
    /\ WriteRuleState(task[p].rule, TRUE)
    /\ NextRule(p)
    /\ UNCHANGED <<journalVars, chainVars>>

\* The rule trades on the state that was read here; quote, gas estimate and
\* nonce are awaited before anything is journaled.  The bounds leave room for the
\* run and for the write that settles it.
DecideTrade(p) ==
    /\ At(p, "decide")
    /\ \E r \in RunIds : status[r] = "none"
    /\ writes[task[p].rule] < MaxWrites
    /\ task[p].rule \in anchored
    /\ task[p].allow
    /\ task' = [task EXCEPT ![p].basis = writes[task[p].rule]]
    /\ Goto(p, "signing")
    /\ UNCHANGED <<journalVars, ruleVars, chainVars>>

\* begin_execution inserts the run and fills the slot in one transaction.  The
\* nonce is whatever the endpoint handed out: it may lag or count reservations.
BeginExecution(p, n) ==
    /\ At(p, "signing")
    /\ pending = NoRun
    /\ \E r \in RunIds :
        /\ status[r] = "none" /\ \A s \in RunIds : s < r => status[s] # "none"
        /\ status' = [status EXCEPT ![r] = "pending"]
        /\ tx' = [tx EXCEPT ![r] = [rule |-> task[p].rule, nonce |-> n,
                                    basis |-> task[p].basis]]
        /\ pending' = r
    /\ attempted' = FALSE
    /\ task' = [task EXCEPT ![p].todo = @ \ {task[p].rule}, ![p].rule = NoRule]
    /\ Goto(p, "recover")
    /\ UNCHANGED <<uncertain, ruleVars, chainVars>>

\* The session ends: no rule is left, the run is still pending and may not be
\* broadcast, or it was broadcast and has no receipt yet.
Return(p) ==
    /\ \/ At(p, "rules") /\ task[p].todo = {}
       \/ At(p, "submit") /\ ~task[p].allow
       \/ At(p, "confirm")
    /\ Leave(p)
    /\ UNCHANGED <<journalVars, ruleVars, chainVars>>

\* An exception, a cancelled task or a dead process at any step; the kernel or
\* the context manager frees the lock.  A request that was already written to
\* the socket may still reach the node.
Stop(p) ==
    /\ pc[p] # "idle"
    /\ Leave(p)
    /\ wire' \in IF At(p, "posting") THEN {wire, wire \cup {task[p].run}} ELSE {wire}
    /\ UNCHANGED <<journalVars, ruleVars, mempool, chain, nonce>>

-----------------------------------------------------------------------------
(* The chain and other users of the wallet *)

\* A late copy arrives; CheckTx takes it or drops it.
Deliver(r) ==
    /\ r \in wire
    /\ wire' = wire \ {r}
    /\ mempool' \in {mempool,
                     IF chain[r] = "absent" /\ nonce < tx[r].nonce
                     THEN mempool \cup {r} ELSE mempool}
    /\ UNCHANGED <<procVars, journalVars, ruleVars, chain, nonce>>

Evict(r) ==
    /\ r \in mempool
    /\ mempool' = mempool \ {r}
    /\ UNCHANGED <<procVars, journalVars, ruleVars, wire, chain, nonce>>

\* A block includes the transaction; a reverted swap uses its nonce as well.
Commit(r, outcome) ==
    /\ r \in mempool
    /\ chain[r] = "absent"
    /\ nonce < tx[r].nonce
    /\ chain' = [chain EXCEPT ![r] = outcome]
    /\ nonce' = tx[r].nonce
    /\ mempool' = mempool \ {r}
    /\ UNCHANGED <<procVars, journalVars, ruleVars, wire>>

\* Another client signs with the same key and uses up nonces.
ForeignCommit(n) ==
    /\ n > nonce
    /\ nonce' = n
    /\ UNCHANGED <<procVars, journalVars, ruleVars, wire, mempool, chain>>

Evaluate(p) ==
    \/ \E u \in Rules : CheckRule(p, u) \/ ResolveUncertain(p, u) \/ HoldRule(p, u)
    \/ SkipRule(p)
    \/ SaveBaseline(p)
    \/ DecideTrade(p)
    \/ \E n \in Nonces : BeginExecution(p, n)

Reconcile(p) ==
    \/ ReadPending(p)
    \/ FinishReceipt(p)
    \/ LookupMissed(p)
    \/ ReleaseConsumed(p)
    \/ NonceUnused(p)
    \/ MarkAttempted(p)
    \/ NodeAdmits(p)
    \/ NodeRefuses(p)
    \/ ReplyAccepted(p)
    \/ ReplyRefused(p)

Network ==
    \/ \E r \in RunIds : Deliver(r) \/ Evict(r)
    \/ \E r \in RunIds, outcome \in {"success", "failure"} : Commit(r, outcome)
    \/ \E n \in Nonces : ForeignCommit(n)

Next ==
    \/ \E p \in Procs, allow \in BOOLEAN, todo \in SUBSET Rules : Claim(p, allow, todo)
    \/ \E p \in Procs : Reconcile(p) \/ Evaluate(p) \/ Return(p) \/ Stop(p)
    \/ Network

Spec == Init /\ [][Next]_vars

-----------------------------------------------------------------------------
(* Safety *)

Open(r) == status[r] \in {"pending", "outcome_unknown"}

\* A copy of the transaction is somewhere outside the journal.
AtLarge(r) ==
    \/ r \in wire \cup mempool
    \/ \E p \in Procs : pc[p] \in {"posting", "admitted"} /\ task[p].run = r

Executable(r) == AtLarge(r) /\ chain[r] = "absent" /\ nonce < tx[r].nonce

\* The only transaction that can still change the chain is the one in the
\* pending slot: a run that was closed (failed, submitted or parked as unknown)
\* has no copy left that a block could execute, also after crashes, late
\* deliveries and refusals of a rebroadcast (execution.py:48, storage.py:237).
OnlyPendingExecutes == \A r \in RunIds : Executable(r) => pending = r

\* What the journal says of a closed run is what happened on the chain: a
\* submitted run succeeded, a failed one did not, and an unknown one lost its
\* nonce (storage.py:301, storage.py:264, storage.py:237).
OutcomesTrue ==
    \A r \in RunIds :
        /\ status[r] = "submitted" => chain[r] = "success"
        /\ status[r] = "failed" => chain[r] # "success"
        /\ status[r] = "outcome_unknown" => nonce >= tx[r].nonce

\* A rule never has two unsettled trades; uncertain_execution(rule) reads one
\* row and forgets the others if there were more (storage.py:228).
OneOpenRunPerRule ==
    \A r, s \in RunIds : Open(r) /\ Open(s) /\ tx[r].rule = tx[s].rule => r = s

\* One price move, one trade: no two transactions of a rule that were decided
\* on the same write of its rule_state both succeed on the chain.
OneTradePerBaseline ==
    \A r, s \in RunIds :
        /\ r # s /\ tx[r].rule = tx[s].rule /\ tx[r].basis = tx[s].basis
        /\ status[r] # "none" /\ status[s] # "none"
        => ~(chain[r] = "success" /\ chain[s] = "success")

\* Nothing of a run that the journal holds as never attempted is outside the
\* journal: a first refusal may therefore be believed (execution.py:44-48).
AttemptRecordedFirst ==
    \A r \in RunIds :
        AtLarge(r) \/ chain[r] # "absent"
            => status[r] # "none" /\ (pending = r => attempted)

\* The slot, the hold table and the run rows tell one story after any crash.
JournalConsistent ==
    /\ uncertain = {r \in RunIds : status[r] = "outcome_unknown"}
    /\ \A r \in RunIds : pending = r <=> status[r] = "pending"

\* A settled run is never settled again, and a run leaves the journal's care
\* only once: pending, perhaps unknown, then submitted or failed.
SettledOnce ==
    [][\A r \in RunIds :
         /\ status[r] \in {"submitted", "failed"} => status'[r] = status[r]
         /\ status[r] = "outcome_unknown" => status'[r] # "pending"]_vars

-----------------------------------------------------------------------------
(* Liveness *)

\* A claimed session runs on, and at some point sessions are no longer stopped
\* half-way.  Sync events and the recovery loop keep claiming the lock for a
\* worker with wallet.execute on, and the endpoint now and then answers, admits
\* and includes; nothing says which process is served.
Fairness ==
    /\ \A p \in Procs : WF_vars(Reconcile(p) \/ Evaluate(p) \/ Return(p))
    /\ <>[][\A p \in Procs : Stop(p) => Return(p)]_vars
    /\ SF_vars(\E p \in Procs : Claim(p, TRUE, Rules))
    /\ SF_vars(\E p \in Procs : FinishReceipt(p))
    /\ SF_vars(\E p \in Procs : ReleaseConsumed(p))
    /\ SF_vars(\E p \in Procs : NodeAdmits(p))
    /\ SF_vars(\E p \in Procs, u \in Rules : ResolveUncertain(p, u))
    /\ SF_vars(\E r \in RunIds, o \in {"success", "failure"} : Commit(r, o))

FairSpec == Spec /\ Fairness

\* The slot never stays with one run for ever: it is settled or released, so
\* one lost answer cannot block every rule (execution.py:34, worker.py:70).
PendingSettles == \A r \in RunIds : pending = r ~> pending # r

\* A released run whose receipt turns up later is settled, and its rule trades
\* again (execution.py:70).
HoldsResolve ==
    \A r \in RunIds :
        r \in uncertain /\ chain[r] # "absent" ~> r \notin uncertain

-----------------------------------------------------------------------------
(* The inductive invariant behind the safety properties *)

Reconciling == {"lookup", "nonce", "submit", "posting", "admitted", "refused", "confirm"}

LockInv == \A p \in Procs : pc[p] # "idle" <=> lock = p

\* What a session holds in memory is still what the journal says.
Fresh(p) ==
    /\ pc[p] \in Reconciling => task[p].run \in RunIds /\ pending = task[p].run
    /\ pc[p] \in {"lookup", "nonce"} => attempted /\ task[p].seen
    /\ pc[p] = "submit" => task[p].seen = attempted
    /\ pc[p] \in {"posting", "admitted", "refused", "confirm"} => attempted
    /\ pc[p] \in {"posting", "refused"} /\ ~task[p].seen =>
           task[p].run \notin wire \cup mempool /\ chain[task[p].run] = "absent"
    /\ pc[p] \in {"rules", "decide", "signing"} => pending = NoRun
    /\ pc[p] \in {"decide", "signing"} =>
           /\ task[p].rule \in Rules
           /\ \A r \in RunIds : tx[r].rule = task[p].rule => status[r] # "outcome_unknown"
    /\ pc[p] = "signing" => task[p].basis = writes[task[p].rule]

SessionInv == \A p \in Procs : Fresh(p)

JournalInv ==
    /\ JournalConsistent
    /\ \A r \in RunIds : status[r] # "none" =>
           tx[r].rule \in Rules /\ tx[r].basis <= writes[tx[r].rule]
    /\ OneOpenRunPerRule

\* Copies outside the journal belong to attempted runs, and a copy that a block
\* could still execute belongs to the pending one.
ChainInv ==
    /\ \A r \in RunIds :
        /\ chain[r] # "absent" => tx[r].nonce <= nonce
        /\ r \in wire \cup mempool \/ chain[r] # "absent" =>
               status[r] # "none" /\ (pending = r => attempted)
        /\ r \in wire \cup mempool /\ chain[r] = "absent" /\ nonce < tx[r].nonce =>
               status[r] = "pending"
    /\ OutcomesTrue

\* A settled success moved its rule past the state it was decided on, and of
\* two runs decided on one state at least one failed.
BasisInv ==
    /\ \A r \in RunIds : status[r] = "submitted" => tx[r].basis < writes[tx[r].rule]
    /\ \A r, s \in RunIds :
        /\ r # s /\ tx[r].rule = tx[s].rule /\ tx[r].basis = tx[s].basis
        /\ status[r] # "none" /\ status[s] # "none"
        => status[r] = "failed" \/ status[s] = "failed"

IInv ==
    /\ TypeOK
    /\ LockInv
    /\ SessionInv
    /\ JournalInv
    /\ ChainInv
    /\ BasisInv
=============================================================================
