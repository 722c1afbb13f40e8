----------------------- MODULE ExecutionJournalProofs -----------------------
(***************************************************************************)
(* Proofs about ExecutionJournal for every number of processes, rules and  *)
(* runs: the inductive invariant IInv, the safety properties that follow   *)
(* from it, and the refinement of SwapOutcomes.                            *)
(***************************************************************************)
EXTENDS JournalRefinement, TLAPS

USE DEF RunIds, Nonces, NoRun

-----------------------------------------------------------------------------
(* Types *)

\* The records a session holds stay records of a session when fields change.
LEMMA TaskFields ==
    /\ NoTask \in Tasks
    /\ \A t \in Tasks :
        /\ \A b \in BOOLEAN, w \in SUBSET Rules : [t EXCEPT !.allow = b, !.todo = w] \in Tasks
        /\ \A b \in BOOLEAN, r \in RunIds : [t EXCEPT !.run = r, !.seen = b] \in Tasks
        /\ \A u \in Rules : [t EXCEPT !.rule = u] \in Tasks
        /\ \A w \in SUBSET Rules : [t EXCEPT !.todo = w] \in Tasks
        /\ \A w \in SUBSET Rules : [t EXCEPT !.todo = w, !.rule = NoRule] \in Tasks
        /\ \A b \in 0..MaxWrites : [t EXCEPT !.basis = b] \in Tasks
  <1>1. NoTask \in Tasks
    BY JournalAssumption DEF NoTask, Tasks
  <1>2. \A t \in Tasks, b \in BOOLEAN, w \in SUBSET Rules :
           [t EXCEPT !.allow = b, !.todo = w] \in Tasks
    BY DEF Tasks
  <1>3. \A t \in Tasks, b \in BOOLEAN, r \in RunIds : [t EXCEPT !.run = r, !.seen = b] \in Tasks
    BY DEF Tasks
  <1>4. \A t \in Tasks, u \in Rules : [t EXCEPT !.rule = u] \in Tasks
    BY DEF Tasks
  <1>5. \A t \in Tasks, w \in SUBSET Rules : [t EXCEPT !.todo = w] \in Tasks
    BY DEF Tasks
  <1>6. \A t \in Tasks, w \in SUBSET Rules : [t EXCEPT !.todo = w, !.rule = NoRule] \in Tasks
    BY DEF Tasks
  <1>7. \A t \in Tasks, b \in 0..MaxWrites : [t EXCEPT !.basis = b] \in Tasks
    BY DEF Tasks
  <1> QED
    BY <1>1, <1>2, <1>3, <1>4, <1>5, <1>6, <1>7

\* The initial state is well typed.
LEMMA InitTypeOK == Init => TypeOK
  <1> SUFFICES ASSUME Init
               PROVE  TypeOK
    OBVIOUS
  <1>1. task \in [Procs -> Tasks]
    BY TaskFields DEF Init
  <1>2. tx \in [RunIds -> Txs]
    BY JournalAssumption DEF Init, Txs
  <1>3. lock \in Procs \cup {Nobody} /\ pc \in [Procs -> Places]
    BY DEF Init, Places
  <1>4. /\ pending \in RunIds \cup {NoRun} /\ attempted \in BOOLEAN
        /\ uncertain \in SUBSET RunIds /\ anchored \in SUBSET Rules
        /\ wire \in SUBSET RunIds /\ mempool \in SUBSET RunIds
    BY DEF Init
  <1>5. status \in [RunIds -> Statuses] /\ chain \in [RunIds -> {"absent", "success", "failure"}]
    BY DEF Init, Statuses
  <1>6. writes \in [Rules -> 0..MaxWrites] /\ nonce \in 0..MaxNonce
    BY JournalAssumption DEF Init
  <1> QED
    BY <1>1, <1>2, <1>3, <1>4, <1>5, <1>6 DEF TypeOK

\* Ending a session restores the types of the session variables.
LEMMA LeaveType ==
    ASSUME TypeOK, NEW p \in Procs, Leave(p)
    PROVE  /\ lock' \in Procs \cup {Nobody}
           /\ pc' \in [Procs -> Places]
           /\ task' \in [Procs -> Tasks]
  BY TaskFields DEF Leave, TypeOK, Places

\* Moving to another step keeps the types of lock and pc.
LEMMA GotoType ==
    ASSUME TypeOK, NEW p \in Procs, NEW place \in Places, Goto(p, place)
    PROVE  lock' \in Procs \cup {Nobody} /\ pc' \in [Procs -> Places]
  BY DEF Goto, TypeOK

\* A write of a rule's state stays below the bound.
LEMMA WriteType ==
    ASSUME TypeOK, NEW u \in Rules, NEW known \in BOOLEAN, WriteRuleState(u, known)
    PROVE  writes' \in [Rules -> 0..MaxWrites] /\ anchored' \in SUBSET Rules
  BY JournalAssumption DEF WriteRuleState, TypeOK

\* Closing a run keeps the types of the journal; its rule is a configured one.
LEMMA FinishType ==
    ASSUME TypeOK, NEW r \in RunIds, NEW success \in BOOLEAN, tx[r].rule \in Rules,
           FinishExecution(r, success)
    PROVE  /\ pending' = 0 /\ attempted' = FALSE
           /\ uncertain' \in SUBSET RunIds
           /\ status' \in [RunIds -> Statuses]
           /\ tx' \in [RunIds -> Txs]
           /\ writes' \in [Rules -> 0..MaxWrites]
           /\ anchored' \in SUBSET Rules
  <1>1. writes' \in [Rules -> 0..MaxWrites] /\ anchored' \in SUBSET Rules
    BY WriteType DEF FinishExecution, ruleVars, TypeOK
  <1> QED
    BY <1>1 DEF FinishExecution, TypeOK, Statuses

\* Every step keeps the types.
LEMMA NextTypeOK == IInv /\ [Next]_vars => TypeOK'
  <1> SUFFICES ASSUME IInv, [Next]_vars
               PROVE  TypeOK'
    OBVIOUS
  <1> USE DEF At
  <1>0. TypeOK
    BY DEF IInv
  <1>1. ASSUME NEW p \in Procs, NEW allow \in BOOLEAN, NEW todo \in SUBSET Rules,
               Claim(p, allow, todo)
        PROVE  TypeOK'
    <2>1. [NoTask EXCEPT !.allow = allow, !.todo = todo] \in Tasks
      BY TaskFields
    <2>2. task' \in [Procs -> Tasks]
      BY <1>0, <1>1, <2>1 DEF Claim, TypeOK
    <2> QED
      BY <1>0, <1>1, <2>2 DEF Claim, TypeOK, Places, journalVars, ruleVars, chainVars
  <1>2. ASSUME NEW p \in Procs, ReadPending(p)
        PROVE  TypeOK'
    <2>1. task' \in [Procs -> Tasks]
      <3>1. CASE pending = NoRun
        BY <1>0, <1>2, <3>1 DEF ReadPending, TypeOK
      <3>2. CASE pending # NoRun
        <4>1. task' = [task EXCEPT ![p] = [task[p] EXCEPT !.run = pending, !.seen = attempted]]
          BY <1>2, <3>2 DEF ReadPending
        <4>2. task[p] \in Tasks /\ pending \in RunIds /\ attempted \in BOOLEAN
          BY <1>0, <3>2 DEF TypeOK
        <4> QED
          BY <1>0, <4>1, <4>2, TaskFields DEF TypeOK
      <3> QED
        BY <3>1, <3>2
    <2>2. lock' \in Procs \cup {Nobody} /\ pc' \in [Procs -> Places]
      BY <1>0, <1>2, GotoType DEF ReadPending, Places
    <2> QED
      BY <1>0, <1>2, <2>1, <2>2 DEF ReadPending, TypeOK, journalVars, ruleVars, chainVars
  <1>3. ASSUME NEW p \in Procs, FinishReceipt(p)
        PROVE  TypeOK'
    <2>1. task[p].run \in RunIds /\ tx[task[p].run].rule \in Rules
      BY <1>0, <1>3 DEF FinishReceipt, IInv, SessionInv, Fresh, Reconciling, JournalInv,
                        JournalConsistent
    <2>2. lock' \in Procs \cup {Nobody} /\ pc' \in [Procs -> Places]
      BY <1>0, <1>3, GotoType DEF FinishReceipt, Places
    <2> QED
      BY <1>0, <1>3, <2>1, <2>2, FinishType DEF FinishReceipt, TypeOK, chainVars
  <1>4. ASSUME NEW p \in Procs, LookupMissed(p)
        PROVE  TypeOK'
    BY <1>0, <1>4, GotoType DEF LookupMissed, TypeOK, Places, journalVars, ruleVars, chainVars
  <1>5. ASSUME NEW p \in Procs, ReleaseConsumed(p)
        PROVE  TypeOK'
    <2>1. task[p].run \in RunIds
      BY <1>0, <1>5 DEF ReleaseConsumed, IInv, SessionInv, Fresh, Reconciling
    <2>2. lock' \in Procs \cup {Nobody} /\ pc' \in [Procs -> Places]
      BY <1>0, <1>5, GotoType DEF ReleaseConsumed, Places
    <2> QED
      BY <1>0, <1>5, <2>1, <2>2 DEF ReleaseConsumed, TypeOK, Statuses, ruleVars, chainVars
  <1>6. ASSUME NEW p \in Procs, NonceUnused(p)
        PROVE  TypeOK'
    BY <1>0, <1>6, GotoType DEF NonceUnused, TypeOK, Places, journalVars, ruleVars, chainVars
  <1>7. ASSUME NEW p \in Procs, MarkAttempted(p)
        PROVE  TypeOK'
    BY <1>0, <1>7, GotoType DEF MarkAttempted, TypeOK, Places, ruleVars, chainVars
  <1>8. ASSUME NEW p \in Procs, NodeAdmits(p)
        PROVE  TypeOK'
    <2>1. task[p].run \in RunIds
      BY <1>0, <1>8 DEF NodeAdmits, IInv, SessionInv, Fresh, Reconciling
    <2> QED
      BY <1>0, <1>8, <2>1, GotoType DEF NodeAdmits, TypeOK, Places, journalVars, ruleVars
  <1>9. ASSUME NEW p \in Procs, NodeRefuses(p) \/ ReplyAccepted(p)
        PROVE  TypeOK'
    BY <1>0, <1>9, GotoType DEF NodeRefuses, ReplyAccepted, TypeOK, Places, journalVars,
                                ruleVars, chainVars
  <1>10. ASSUME NEW p \in Procs, ReplyRefused(p)
         PROVE  TypeOK'
    <2>1. task[p].run \in RunIds /\ tx[task[p].run].rule \in Rules
      BY <1>0, <1>10 DEF ReplyRefused, IInv, SessionInv, Fresh, Reconciling, JournalInv,
                         JournalConsistent
    <2>2. lock' \in Procs \cup {Nobody} /\ pc' \in [Procs -> Places]
      BY <1>0, <1>10, GotoType DEF ReplyRefused, Places
    <2>3. CASE task[p].seen
      BY <1>0, <1>10, <2>2, <2>3 DEF ReplyRefused, TypeOK, journalVars, ruleVars, chainVars
    <2>4. CASE ~task[p].seen
      BY <1>0, <1>10, <2>1, <2>2, <2>4, FinishType DEF ReplyRefused, TypeOK, chainVars
    <2> QED
      BY <2>3, <2>4
  <1>11. ASSUME NEW p \in Procs, NEW u \in Rules, CheckRule(p, u)
         PROVE  TypeOK'
    <2>1. task' \in [Procs -> Tasks]
      <3>1. task[p] \in Tasks
        BY <1>0 DEF TypeOK
      <3>2. task' = [task EXCEPT ![p] = [task[p] EXCEPT !.rule = u]]
        BY <1>11 DEF CheckRule
      <3>3. [task[p] EXCEPT !.rule = u] \in Tasks
        BY <1>0, <3>1, TaskFields DEF TypeOK, Tasks
      <3> QED
        BY <1>0, <3>1, <3>2, <3>3 DEF TypeOK
    <2> QED
      BY <1>0, <1>11, <2>1, GotoType DEF CheckRule, TypeOK, Places, journalVars, ruleVars,
                                         chainVars
  <1>12. ASSUME NEW p \in Procs, NEW u \in Rules, ResolveUncertain(p, u)
         PROVE  TypeOK'
    <2>1. task' \in [Procs -> Tasks]
      <3>1. task[p] \in Tasks
        BY <1>0 DEF TypeOK
      <3>2. task' = [task EXCEPT ![p] = [task[p] EXCEPT !.rule = u]]
        BY <1>12 DEF ResolveUncertain
      <3>3. [task[p] EXCEPT !.rule = u] \in Tasks
        BY <1>0, <3>1, TaskFields DEF TypeOK, Tasks
      <3> QED
        BY <1>0, <3>1, <3>2, <3>3 DEF TypeOK
    <2>2. writes' \in [Rules -> 0..MaxWrites] /\ anchored' \in SUBSET Rules
      BY <1>0, <1>12, WriteType DEF ResolveUncertain
    <2>3. status' \in [RunIds -> Statuses] /\ uncertain' \in SUBSET RunIds
      BY <1>0, <1>12 DEF ResolveUncertain, HeldRuns, TypeOK, Statuses
    <2> QED
      BY <1>0, <1>12, <2>1, <2>2, <2>3, GotoType DEF ResolveUncertain, TypeOK, Places, chainVars
  <1>13. ASSUME NEW p \in Procs, NEW u \in Rules, HoldRule(p, u)
         PROVE  TypeOK'
    <2>1. task' \in [Procs -> Tasks]
      <3>1. task[p] \in Tasks
        BY <1>0 DEF TypeOK
      <3>2. task' = [task EXCEPT ![p] = [task[p] EXCEPT !.todo = @ \ {u}]]
        BY <1>13 DEF HoldRule
      <3>3. [task[p] EXCEPT !.todo = @ \ {u}] \in Tasks
        BY <1>0, <3>1, TaskFields DEF TypeOK, Tasks
      <3> QED
        BY <1>0, <3>1, <3>2, <3>3 DEF TypeOK
    <2> QED
      BY <1>0, <1>13, <2>1 DEF HoldRule, TypeOK, journalVars, ruleVars, chainVars
  <1>14. ASSUME NEW p \in Procs, SkipRule(p)
         PROVE  TypeOK'
    <2>1. task' \in [Procs -> Tasks]
      <3>1. task[p] \in Tasks
        BY <1>0 DEF TypeOK
      <3>2. task' = [task EXCEPT ![p] = [task[p] EXCEPT !.todo = @ \ {task[p].rule}, !.rule = NoRule]]
        BY <1>14 DEF SkipRule, NextRule
      <3>3. [task[p] EXCEPT !.todo = @ \ {task[p].rule}, !.rule = NoRule] \in Tasks
        BY <1>0, <3>1, TaskFields DEF TypeOK, Tasks
      <3> QED
        BY <1>0, <3>1, <3>2, <3>3 DEF TypeOK
    <2> QED
      BY <1>0, <1>14, <2>1, GotoType DEF SkipRule, NextRule, TypeOK, Places, journalVars,
                                         ruleVars, chainVars
  <1>15. ASSUME NEW p \in Procs, SaveBaseline(p)
         PROVE  TypeOK'
    <2>1. task' \in [Procs -> Tasks]
      <3>1. task[p] \in Tasks
        BY <1>0 DEF TypeOK
      <3>2. task' = [task EXCEPT ![p] = [task[p] EXCEPT !.todo = @ \ {task[p].rule}, !.rule = NoRule]]
        BY <1>15 DEF SaveBaseline, NextRule
      <3>3. [task[p] EXCEPT !.todo = @ \ {task[p].rule}, !.rule = NoRule] \in Tasks
        BY <1>0, <3>1, TaskFields DEF TypeOK, Tasks
      <3> QED
        BY <1>0, <3>1, <3>2, <3>3 DEF TypeOK
    <2>2. task[p].rule \in Rules
      BY <1>15 DEF SaveBaseline, IInv, SessionInv, Fresh
    <2>3. writes' \in [Rules -> 0..MaxWrites] /\ anchored' \in SUBSET Rules
      BY <1>0, <1>15, <2>2, WriteType DEF SaveBaseline
    <2> QED
      BY <1>0, <1>15, <2>1, <2>3, GotoType DEF SaveBaseline, NextRule, TypeOK, Places,
                                               journalVars, chainVars
  <1>16. ASSUME NEW p \in Procs, DecideTrade(p)
         PROVE  TypeOK'
    <2>1. task[p].rule \in Rules
      BY <1>16 DEF DecideTrade, IInv, SessionInv, Fresh
    <2>2. task' \in [Procs -> Tasks]
      <3>1. task[p] \in Tasks /\ writes[task[p].rule] \in 0..MaxWrites
        BY <1>0, <2>1 DEF TypeOK
      <3>2. task' = [task EXCEPT ![p] = [task[p] EXCEPT !.basis = writes[task[p].rule]]]
        BY <1>16 DEF DecideTrade
      <3> QED
        BY <1>0, <3>1, <3>2, TaskFields DEF TypeOK
    <2> QED
      BY <1>0, <1>16, <2>2, GotoType DEF DecideTrade, TypeOK, Places, journalVars, ruleVars,
                                         chainVars
  <1>17. ASSUME NEW p \in Procs, NEW n \in Nonces, BeginExecution(p, n)
         PROVE  TypeOK'
    <2>1. task' \in [Procs -> Tasks]
      <3>1. task[p] \in Tasks
        BY <1>0 DEF TypeOK
      <3>2. task' = [task EXCEPT ![p] = [task[p] EXCEPT !.todo = @ \ {task[p].rule}, !.rule = NoRule]]
        BY <1>17 DEF BeginExecution
      <3>3. [task[p] EXCEPT !.todo = @ \ {task[p].rule}, !.rule = NoRule] \in Tasks
        BY <1>0, <3>1, TaskFields DEF TypeOK, Tasks
      <3> QED
        BY <1>0, <3>1, <3>2, <3>3 DEF TypeOK
    <2>2. [rule |-> task[p].rule, nonce |-> n, basis |-> task[p].basis] \in Txs
      BY <1>0, <1>17 DEF TypeOK, Tasks, Txs
    <2>3. PICK r \in RunIds :
             /\ status' = [status EXCEPT ![r] = "pending"]
             /\ tx' = [tx EXCEPT ![r] = [rule |-> task[p].rule, nonce |-> n,
                                         basis |-> task[p].basis]]
             /\ pending' = r
      BY <1>17 DEF BeginExecution
    <2>4. tx' \in [RunIds -> Txs] /\ status' \in [RunIds -> Statuses] /\ pending' \in RunIds
      BY <1>0, <2>2, <2>3 DEF TypeOK, Statuses
    <2> QED
      BY <1>0, <1>17, <2>1, <2>4, GotoType DEF BeginExecution, TypeOK, Places, ruleVars, chainVars
  <1>18. ASSUME NEW p \in Procs, Return(p)
         PROVE  TypeOK'
    BY <1>0, <1>18, LeaveType DEF Return, TypeOK, journalVars, ruleVars, chainVars
  <1>19. ASSUME NEW p \in Procs, Stop(p)
         PROVE  TypeOK'
    <2>1. pc[p] = "posting" => task[p].run \in RunIds
      BY DEF IInv, SessionInv, Fresh, Reconciling
    <2>2. wire' \in SUBSET RunIds
      BY <1>0, <1>19, <2>1 DEF Stop, TypeOK
    <2> QED
      BY <1>0, <1>19, <2>2, LeaveType DEF Stop, TypeOK, journalVars, ruleVars
  <1>20. ASSUME NEW r \in RunIds, Deliver(r) \/ Evict(r)
         PROVE  TypeOK'
    BY <1>0, <1>20 DEF Deliver, Evict, TypeOK, procVars, journalVars, ruleVars
  <1>21. ASSUME NEW r \in RunIds, NEW outcome \in {"success", "failure"}, Commit(r, outcome)
         PROVE  TypeOK'
    <2>1. tx[r].nonce \in 0..MaxNonce
      BY <1>0, JournalAssumption DEF TypeOK, Txs
    <2> QED
      BY <1>0, <1>21, <2>1 DEF Commit, TypeOK, procVars, journalVars, ruleVars
  <1>22. ASSUME NEW n \in Nonces, ForeignCommit(n)
         PROVE  TypeOK'
    BY <1>0, <1>22, JournalAssumption DEF ForeignCommit, TypeOK, procVars, journalVars, ruleVars
  <1>23. CASE UNCHANGED vars
    BY <1>0, <1>23 DEF TypeOK, vars, procVars, journalVars, ruleVars, chainVars
  <1> QED
    BY <1>1, <1>2, <1>3, <1>4, <1>5, <1>6, <1>7, <1>8, <1>9, <1>10, <1>11, <1>12, <1>13,
       <1>14, <1>15, <1>16, <1>17, <1>18, <1>19, <1>20, <1>21, <1>22, <1>23
       DEF Next, Reconcile, Evaluate, Network

-----------------------------------------------------------------------------
(* The execution lock *)

\* A session that goes on keeps the lock.
LEMMA GotoLock ==
    ASSUME TypeOK, LockInv, NEW p \in Procs, pc[p] # "idle",
           NEW place \in Places \ {"idle"}, Goto(p, place)
    PROVE  LockInv'
  BY DEF TypeOK, LockInv, Goto

\* A session that ends frees it.
LEMMA LeaveLock ==
    ASSUME TypeOK, LockInv, NEW p \in Procs, pc[p] # "idle", Leave(p)
    PROVE  LockInv'
  BY JournalAssumption DEF TypeOK, LockInv, Leave

\* Every step keeps the lock with the one session that is under way.
LEMMA NextLockInv == IInv /\ [Next]_vars => LockInv'
  <1> SUFFICES ASSUME IInv, [Next]_vars
               PROVE  LockInv'
    OBVIOUS
  <1> USE DEF At
  <1>0. TypeOK /\ LockInv
    BY DEF IInv
  <1>1. ASSUME NEW p \in Procs, NEW allow \in BOOLEAN, NEW todo \in SUBSET Rules,
               Claim(p, allow, todo)
        PROVE  LockInv'
    BY <1>0, <1>1, JournalAssumption DEF Claim, TypeOK, LockInv
  <1>2. ASSUME NEW p \in Procs, Reconcile(p)
        PROVE  LockInv'
    <2>1. CASE ReadPending(p)
      BY <1>0, <2>1, GotoLock DEF ReadPending, Places
    <2>2. CASE FinishReceipt(p) \/ LookupMissed(p) \/ ReleaseConsumed(p) \/ NonceUnused(p)
      BY <1>0, <2>2, GotoLock DEF FinishReceipt, LookupMissed, ReleaseConsumed, NonceUnused, Places
    <2>3. CASE MarkAttempted(p) \/ NodeAdmits(p) \/ NodeRefuses(p) \/ ReplyAccepted(p)
      BY <1>0, <2>3, GotoLock DEF MarkAttempted, NodeAdmits, NodeRefuses, ReplyAccepted, Places
    <2>4. CASE ReplyRefused(p)
      BY <1>0, <2>4, GotoLock DEF ReplyRefused, Places
    <2> QED
      BY <1>2, <2>1, <2>2, <2>3, <2>4 DEF Reconcile
  <1>3. ASSUME NEW p \in Procs, Evaluate(p)
        PROVE  LockInv'
    <2>1. CASE \E u \in Rules : CheckRule(p, u) \/ ResolveUncertain(p, u)
      BY <1>0, <2>1, GotoLock DEF CheckRule, ResolveUncertain, Places
    <2>2. CASE \E u \in Rules : HoldRule(p, u)
      BY <1>0, <2>2 DEF HoldRule, LockInv
    <2>3. CASE SkipRule(p) \/ SaveBaseline(p)
      BY <1>0, <2>3, GotoLock DEF SkipRule, SaveBaseline, NextRule, Places
    <2>4. CASE DecideTrade(p) \/ \E n \in Nonces : BeginExecution(p, n)
      BY <1>0, <2>4, GotoLock DEF DecideTrade, BeginExecution, Places
    <2> QED
      BY <1>3, <2>1, <2>2, <2>3, <2>4 DEF Evaluate
  <1>4. ASSUME NEW p \in Procs, Return(p) \/ Stop(p)
        PROVE  LockInv'
    BY <1>0, <1>4, LeaveLock DEF Return, Stop
  <1>5. CASE Network \/ UNCHANGED vars
    BY <1>0, <1>5 DEF Network, Deliver, Evict, Commit, ForeignCommit, vars, procVars, LockInv
  <1> QED
    BY <1>1, <1>2, <1>3, <1>4, <1>5 DEF Next

-----------------------------------------------------------------------------
(* Which steps touch what the sessions share *)

\* All other steps only move a session.
LEMMA SharedSteps ==
    ASSUME [Next]_vars
    PROVE  \/ UNCHANGED <<journalVars, ruleVars, chainVars>>
           \/ \E p \in Procs : \/ FinishReceipt(p) \/ ReleaseConsumed(p) \/ MarkAttempted(p)
                              \/ NodeAdmits(p) \/ ReplyRefused(p) \/ SaveBaseline(p) \/ Stop(p)
           \/ \E p \in Procs, u \in Rules : ResolveUncertain(p, u)
           \/ \E p \in Procs, n \in Nonces : BeginExecution(p, n)
           \/ \E r \in RunIds : Deliver(r) \/ Evict(r)
           \/ \E r \in RunIds, outcome \in {"success", "failure"} : Commit(r, outcome)
           \/ \E n \in Nonces : ForeignCommit(n)
  <1>1. CASE \E p \in Procs, allow \in BOOLEAN, todo \in SUBSET Rules : Claim(p, allow, todo)
    BY <1>1 DEF Claim
  <1>2. CASE \E p \in Procs : Reconcile(p)
    BY <1>2 DEF Reconcile, ReadPending, LookupMissed, NonceUnused, NodeRefuses, ReplyAccepted
  <1>3. CASE \E p \in Procs : Evaluate(p)
    BY <1>3 DEF Evaluate, CheckRule, HoldRule, SkipRule, DecideTrade
  <1>4. CASE \E p \in Procs : Return(p) \/ Stop(p)
    BY <1>4 DEF Return
  <1>5. CASE Network
    BY <1>5 DEF Network
  <1>6. CASE UNCHANGED vars
    BY <1>6 DEF vars
  <1> QED
    BY <1>1, <1>2, <1>3, <1>4, <1>5, <1>6 DEF Next

-----------------------------------------------------------------------------
(* Sessions and the journal *)

\* Only the acting session can be anything but idle, so its own invariant is
\* all there is to show.
LEMMA SessionStep ==
    ASSUME TypeOK, LockInv, NEW p \in Procs, pc[p] # "idle" \/ lock = Nobody,
           \A q \in Procs \ {p} : pc'[q] = pc[q],
           Fresh(p)'
    PROVE  SessionInv'
  <1> SUFFICES ASSUME NEW q \in Procs, q # p
               PROVE  Fresh(q)'
    BY DEF SessionInv
  <1>1. pc'[q] = "idle"
    BY JournalAssumption DEF TypeOK, LockInv
  <1> QED
    BY <1>1 DEF Fresh, Reconciling

\* Moving one session leaves the places of the others.
LEMMA OthersStay ==
    ASSUME TypeOK, NEW p \in Procs,
           (\E place \in Places : Goto(p, place)) \/ Leave(p) \/ UNCHANGED pc
    PROVE  \A q \in Procs \ {p} : pc'[q] = pc[q]
  BY DEF TypeOK, Goto, Leave

\* Every step keeps what the sessions rely on.
LEMMA NextSessionInv == IInv /\ [Next]_vars => SessionInv'
  <1> SUFFICES ASSUME IInv, [Next]_vars
               PROVE  SessionInv'
    OBVIOUS
  <1> USE DEF At, Reconciling
  <1>0. TypeOK /\ LockInv /\ SessionInv /\ JournalInv /\ ChainInv
    BY DEF IInv
  <1>1. ASSUME NEW p \in Procs, NEW allow \in BOOLEAN, NEW todo \in SUBSET Rules,
               Claim(p, allow, todo)
        PROVE  SessionInv'
    <2>1. Fresh(p)' /\ \A q \in Procs \ {p} : pc'[q] = pc[q]
      BY <1>0, <1>1 DEF Claim, TypeOK, Fresh
    <2> QED
      BY <1>0, <1>1, <2>1, SessionStep DEF Claim
  <1>2. ASSUME NEW p \in Procs, ReadPending(p)
        PROVE  SessionInv'
    <2>1. CASE pending = 0
      <3>1. Fresh(p)'
        BY <1>0, <1>2, <2>1 DEF ReadPending, Goto, TypeOK, Fresh, journalVars
      <3> QED
        BY <1>0, <1>2, <2>1, <3>1, SessionStep, OthersStay DEF ReadPending, Places
    <2>2. CASE pending # 0
      <3>1. task'[p].run = pending /\ task'[p].seen = attempted
        BY <1>0, <1>2, <2>2 DEF ReadPending, TypeOK, Tasks
      <3>2. pc'[p] = IF attempted THEN "lookup" ELSE "submit"
        BY <1>0, <1>2, <2>2 DEF ReadPending, Goto, TypeOK
      <3>3. Fresh(p)'
        BY <1>0, <1>2, <2>2, <3>1, <3>2 DEF ReadPending, TypeOK, Fresh, journalVars
      <3> QED
        BY <1>0, <1>2, <2>2, <3>3, SessionStep, OthersStay DEF ReadPending, Places
    <2> QED
      BY <2>1, <2>2
  <1>3. ASSUME NEW p \in Procs, FinishReceipt(p)
        PROVE  SessionInv'
    <2>1. Fresh(p)'
      BY <1>0, <1>3 DEF FinishReceipt, FinishExecution, Goto, TypeOK, Fresh
    <2> QED
      BY <1>0, <1>3, <2>1, SessionStep, OthersStay DEF FinishReceipt, Places
  <1>4. ASSUME NEW p \in Procs, LookupMissed(p)
        PROVE  SessionInv'
    <2>1. Fresh(p)'
      BY <1>0, <1>4 DEF LookupMissed, Goto, TypeOK, SessionInv, Fresh, journalVars
    <2> QED
      BY <1>0, <1>4, <2>1, SessionStep, OthersStay DEF LookupMissed, Places
  <1>5. ASSUME NEW p \in Procs, ReleaseConsumed(p)
        PROVE  SessionInv'
    <2>1. Fresh(p)'
      BY <1>0, <1>5 DEF ReleaseConsumed, Goto, TypeOK, Fresh
    <2> QED
      BY <1>0, <1>5, <2>1, SessionStep, OthersStay DEF ReleaseConsumed, Places
  <1>6. ASSUME NEW p \in Procs, NonceUnused(p)
        PROVE  SessionInv'
    <2>1. Fresh(p)'
      BY <1>0, <1>6 DEF NonceUnused, Goto, TypeOK, SessionInv, Fresh, journalVars
    <2> QED
      BY <1>0, <1>6, <2>1, SessionStep, OthersStay DEF NonceUnused, Places
  <1>7. ASSUME NEW p \in Procs, MarkAttempted(p)
        PROVE  SessionInv'
    <2>1. ~task[p].seen => task[p].run \notin wire \cup mempool /\ chain[task[p].run] = "absent"
      BY <1>0, <1>7 DEF MarkAttempted, SessionInv, Fresh, ChainInv
    <2>2. Fresh(p)'
      BY <1>0, <1>7, <2>1 DEF MarkAttempted, Goto, TypeOK, SessionInv, Fresh, chainVars
    <2> QED
      BY <1>0, <1>7, <2>2, SessionStep, OthersStay DEF MarkAttempted, Places
  <1>8. ASSUME NEW p \in Procs, NodeAdmits(p)
        PROVE  SessionInv'
    <2>1. Fresh(p)'
      BY <1>0, <1>8 DEF NodeAdmits, Goto, TypeOK, SessionInv, Fresh, journalVars
    <2> QED
      BY <1>0, <1>8, <2>1, SessionStep, OthersStay DEF NodeAdmits, Places
  <1>9. ASSUME NEW p \in Procs, NodeRefuses(p) \/ ReplyAccepted(p)
        PROVE  SessionInv'
    <2>1. Fresh(p)'
      BY <1>0, <1>9 DEF NodeRefuses, ReplyAccepted, Goto, TypeOK, SessionInv, Fresh,
                        journalVars, chainVars
    <2> QED
      BY <1>0, <1>9, <2>1, SessionStep, OthersStay DEF NodeRefuses, ReplyAccepted, Places
  <1>10. ASSUME NEW p \in Procs, ReplyRefused(p)
         PROVE  SessionInv'
    <2>1. Fresh(p)'
      BY <1>0, <1>10 DEF ReplyRefused, FinishExecution, Goto, TypeOK, SessionInv, Fresh,
                         journalVars, chainVars
    <2> QED
      BY <1>0, <1>10, <2>1, SessionStep, OthersStay DEF ReplyRefused, Places
  <1>11. ASSUME NEW p \in Procs, NEW u \in Rules, CheckRule(p, u)
         PROVE  SessionInv'
    <2>1. task'[p].rule = u /\ pc'[p] = "decide"
      BY <1>0, <1>11 DEF CheckRule, Goto, TypeOK, Tasks
    <2>2. \A r \in RunIds : tx[r].rule = u => status[r] # "outcome_unknown"
      BY <1>0, <1>11 DEF CheckRule, HeldRuns, JournalInv, JournalConsistent
    <2>3. Fresh(p)'
      BY <1>0, <1>11, <2>1, <2>2 DEF CheckRule, SessionInv, Fresh, journalVars
    <2> QED
      BY <1>0, <1>11, <2>3, SessionStep, OthersStay DEF CheckRule, Places
  <1>12. ASSUME NEW p \in Procs, NEW u \in Rules, ResolveUncertain(p, u)
         PROVE  SessionInv'
    <2>1. task'[p].rule = u /\ pc'[p] = "decide"
      BY <1>0, <1>12 DEF ResolveUncertain, Goto, TypeOK, Tasks
    <2>2. PICK r \in RunIds :
             /\ status[r] = "outcome_unknown" /\ tx[r].rule = u
             /\ status' = [status EXCEPT ![r] =
                             IF chain[r] = "success" THEN "submitted" ELSE "failed"]
      BY <1>0, <1>12 DEF ResolveUncertain, HeldRuns, JournalInv, JournalConsistent
    <2>3. \A s \in RunIds : tx[s].rule = u => status'[s] # "outcome_unknown"
      BY <1>0, <2>2 DEF TypeOK, JournalInv, OneOpenRunPerRule, Open
    <2>4. Fresh(p)'
      BY <1>0, <1>12, <2>1, <2>3 DEF ResolveUncertain, SessionInv, Fresh
    <2> QED
      BY <1>0, <1>12, <2>4, SessionStep, OthersStay DEF ResolveUncertain, Places
  <1>13. ASSUME NEW p \in Procs, NEW u \in Rules, HoldRule(p, u)
         PROVE  SessionInv'
    <2>1. Fresh(p)'
      BY <1>0, <1>13 DEF HoldRule, SessionInv, Fresh, journalVars
    <2> QED
      BY <1>0, <1>13, <2>1, SessionStep DEF HoldRule
  <1>14. ASSUME NEW p \in Procs, SkipRule(p) \/ SaveBaseline(p)
         PROVE  SessionInv'
    <2>1. Fresh(p)'
      BY <1>0, <1>14 DEF SkipRule, SaveBaseline, NextRule, Goto, TypeOK, SessionInv, Fresh,
                         journalVars
    <2> QED
      BY <1>0, <1>14, <2>1, SessionStep, OthersStay DEF SkipRule, SaveBaseline, NextRule, Places
  <1>15. ASSUME NEW p \in Procs, DecideTrade(p)
         PROVE  SessionInv'
    <2>1. task'[p].rule = task[p].rule /\ task'[p].basis = writes[task[p].rule]
      BY <1>0, <1>15 DEF DecideTrade, TypeOK, Tasks
    <2>2. Fresh(p)'
      BY <1>0, <1>15, <2>1 DEF DecideTrade, Goto, TypeOK, SessionInv, Fresh, journalVars, ruleVars
    <2> QED
      BY <1>0, <1>15, <2>2, SessionStep, OthersStay DEF DecideTrade, Places
  <1>16. ASSUME NEW p \in Procs, NEW n \in Nonces, BeginExecution(p, n)
         PROVE  SessionInv'
    <2>1. Fresh(p)'
      BY <1>0, <1>16 DEF BeginExecution, Goto, TypeOK, Fresh
    <2> QED
      BY <1>0, <1>16, <2>1, SessionStep, OthersStay DEF BeginExecution, Places
  <1>17. ASSUME NEW p \in Procs, Return(p) \/ Stop(p)
         PROVE  SessionInv'
    <2>1. Fresh(p)' /\ pc[p] # "idle"
      BY <1>0, <1>17 DEF Return, Stop, Leave, TypeOK, Fresh
    <2> QED
      BY <1>0, <1>17, <2>1, SessionStep, OthersStay DEF Return, Stop
  <1>18. CASE Network
    <2>1. UNCHANGED <<procVars, journalVars, ruleVars>>
      BY <1>18 DEF Network, Deliver, Evict, Commit, ForeignCommit
    <2>2. \A r \in RunIds : r \notin wire \cup mempool => r \notin wire' \cup mempool'
      BY <1>0, <1>18 DEF Network, Deliver, Evict, Commit, ForeignCommit, TypeOK
    <2>3. \A r \in RunIds : r \notin mempool => chain'[r] = chain[r]
      BY <1>0, <1>18 DEF Network, Deliver, Evict, Commit, ForeignCommit, TypeOK
    <2> QED
      BY <1>0, <2>1, <2>2, <2>3 DEF SessionInv, Fresh, procVars, journalVars, ruleVars
  <1>19. CASE UNCHANGED vars
    BY <1>0, <1>19 DEF SessionInv, Fresh, vars, procVars, journalVars, ruleVars, chainVars
  <1> QED
    BY <1>1, <1>2, <1>3, <1>4, <1>5, <1>6, <1>7, <1>8, <1>9, <1>10, <1>11, <1>12, <1>13,
       <1>14, <1>15, <1>16, <1>17, <1>18, <1>19
       DEF Next, Reconcile, Evaluate

-----------------------------------------------------------------------------
(* The journal *)

\* A session under way at one of these steps holds the pending run.
LEMMA HeldRun ==
    ASSUME IInv, NEW p \in Procs, pc[p] \in Reconciling
    PROVE  task[p].run \in RunIds /\ pending = task[p].run
  BY DEF IInv, SessionInv, Fresh

\* Closing the pending run.
LEMMA FinishJournal ==
    ASSUME IInv, NEW r \in RunIds, NEW success \in BOOLEAN, FinishExecution(r, success)
    PROVE  JournalInv'
  <1>1. /\ status' = [status EXCEPT ![r] = IF success THEN "submitted" ELSE "failed"]
        /\ pending = r /\ pending' = 0 /\ uncertain' = uncertain /\ tx' = tx
    BY DEF FinishExecution
  <1>2. TypeOK /\ JournalInv
    BY DEF IInv
  <1>3. tx[r].rule \in Rules
    BY <1>1, <1>2 DEF JournalInv, JournalConsistent
  <1>4. \A u \in Rules : writes[u] <= writes'[u]
    BY <1>2, <1>3 DEF FinishExecution, WriteRuleState, ruleVars, TypeOK
  <1>5. JournalConsistent'
    BY <1>1, <1>2 DEF TypeOK, JournalInv, JournalConsistent
  <1>6. \A s \in RunIds : status'[s] # "none" =>
           tx'[s].rule \in Rules /\ tx'[s].basis <= writes'[tx'[s].rule]
    <2> SUFFICES ASSUME NEW s \in RunIds, status'[s] # "none"
                 PROVE  tx[s].rule \in Rules /\ tx[s].basis <= writes'[tx[s].rule]
      BY <1>1
    <2>1. status[s] # "none"
      BY <1>1, <1>2 DEF TypeOK, JournalInv, JournalConsistent
    <2>2. tx[s].rule \in Rules /\ tx[s].basis <= writes[tx[s].rule]
      BY <1>2, <2>1 DEF JournalInv
    <2>3. tx[s].basis \in Nat /\ writes[tx[s].rule] \in Nat /\ writes'[tx[s].rule] \in Nat
      <3>1. tx[s] \in Txs /\ writes \in [Rules -> 0..MaxWrites]
        BY <1>2 DEF TypeOK
      <3>2. writes' \in [Rules -> 0..MaxWrites]
        BY <1>2, <1>3, FinishType
      <3> QED
        BY <2>2, <3>1, <3>2, JournalAssumption DEF Txs
    <2> QED
      BY <1>4, <2>2, <2>3
  <1>7. OneOpenRunPerRule'
    BY <1>1, <1>2 DEF TypeOK, JournalInv, OneOpenRunPerRule, Open
  <1> QED
    BY <1>5, <1>6, <1>7 DEF JournalInv

\* Every step keeps the journal's tables consistent.
LEMMA NextJournalInv == IInv /\ [Next]_vars => JournalInv'
  <1> SUFFICES ASSUME IInv, [Next]_vars
               PROVE  JournalInv'
    OBVIOUS
  <1> USE DEF At
  <1>0. TypeOK /\ LockInv /\ SessionInv /\ JournalInv
    BY DEF IInv
  <1>1. CASE UNCHANGED <<journalVars, ruleVars>>
    BY <1>0, <1>1 DEF journalVars, ruleVars, JournalInv, JournalConsistent, OneOpenRunPerRule, Open
  <1>2. ASSUME NEW p \in Procs, FinishReceipt(p) \/ ReplyRefused(p)
        PROVE  JournalInv'
    <2>1. CASE \E success \in BOOLEAN : FinishExecution(task[p].run, success)
      BY <1>2, <2>1, HeldRun, FinishJournal DEF FinishReceipt, ReplyRefused, Reconciling
    <2>2. CASE UNCHANGED <<journalVars, ruleVars>>
      BY <1>1, <2>2
    <2> QED
      BY <1>2, <2>1, <2>2 DEF FinishReceipt, ReplyRefused
  <1>3. ASSUME NEW p \in Procs, ReleaseConsumed(p)
        PROVE  JournalInv'
    <2>1. task[p].run \in RunIds
      BY <1>3, HeldRun DEF ReleaseConsumed, Reconciling
    <2> QED
      BY <1>0, <1>3, <2>1 DEF ReleaseConsumed, TypeOK, JournalInv, JournalConsistent,
                              OneOpenRunPerRule, Open, ruleVars
  <1>4. ASSUME NEW p \in Procs, MarkAttempted(p)
        PROVE  JournalInv'
    BY <1>0, <1>4 DEF MarkAttempted, JournalInv, JournalConsistent, OneOpenRunPerRule, Open, ruleVars
  <1>5. ASSUME NEW p \in Procs, SaveBaseline(p)
        PROVE  JournalInv'
    <2>1. task[p].rule \in Rules
      BY <1>0, <1>5 DEF SaveBaseline, SessionInv, Fresh
    <2>2. \A u \in Rules : writes[u] <= writes'[u] /\ writes[u] \in Nat /\ writes'[u] \in Nat
      BY <1>0, <1>5, <2>1, JournalAssumption DEF SaveBaseline, WriteRuleState, TypeOK
    <2>3. \A r \in RunIds : tx[r].basis \in Nat
      BY <1>0, JournalAssumption DEF TypeOK, Txs
    <2>4. \A r \in RunIds : status[r] # "none" => tx[r].basis <= writes'[tx[r].rule]
      BY <1>0, <2>2, <2>3 DEF JournalInv
    <2> QED
      BY <1>0, <1>5, <2>4 DEF SaveBaseline, journalVars, JournalInv, JournalConsistent,
                              OneOpenRunPerRule, Open
  <1>6. ASSUME NEW p \in Procs, NEW u \in Rules, ResolveUncertain(p, u)
        PROVE  JournalInv'
    <2>1. PICK r \in RunIds :
             /\ status[r] = "outcome_unknown" /\ tx[r].rule = u
             /\ status' = [status EXCEPT ![r] =
                             IF chain[r] = "success" THEN "submitted" ELSE "failed"]
             /\ uncertain' = uncertain \ {r}
      BY <1>0, <1>6 DEF ResolveUncertain, HeldRuns, JournalInv, JournalConsistent
    <2>2. \A v \in Rules : writes[v] <= writes'[v] /\ writes[v] \in Nat /\ writes'[v] \in Nat
      BY <1>0, <1>6, JournalAssumption DEF ResolveUncertain, WriteRuleState, TypeOK
    <2>3. \A s \in RunIds : tx[s].basis \in Nat
      BY <1>0, JournalAssumption DEF TypeOK, Txs
    <2>4. \A s \in RunIds : status'[s] # "none" =>
             tx[s].rule \in Rules /\ tx[s].basis <= writes'[tx[s].rule]
      BY <1>0, <2>1, <2>2, <2>3 DEF TypeOK, JournalInv
    <2>5. JournalConsistent'
      BY <1>0, <1>6, <2>1 DEF ResolveUncertain, TypeOK, JournalInv, JournalConsistent
    <2>6. OneOpenRunPerRule'
      BY <1>0, <1>6, <2>1 DEF ResolveUncertain, TypeOK, JournalInv, OneOpenRunPerRule, Open
    <2> QED
      BY <1>6, <2>4, <2>5, <2>6 DEF ResolveUncertain, JournalInv
  <1>7. ASSUME NEW p \in Procs, NEW n \in Nonces, BeginExecution(p, n)
        PROVE  JournalInv'
    <2>1. PICK r \in RunIds :
             /\ status[r] = "none"
             /\ status' = [status EXCEPT ![r] = "pending"]
             /\ tx' = [tx EXCEPT ![r] = [rule |-> task[p].rule, nonce |-> n,
                                         basis |-> task[p].basis]]
             /\ pending' = r
      BY <1>7 DEF BeginExecution
    <2>2. /\ task[p].rule \in Rules /\ task[p].basis = writes[task[p].rule]
          /\ \A s \in RunIds : tx[s].rule = task[p].rule => status[s] # "outcome_unknown"
      BY <1>0, <1>7 DEF BeginExecution, SessionInv, Fresh
    <2>3. tx'[r].rule = task[p].rule /\ tx'[r].basis = writes[task[p].rule]
      BY <1>0, <2>1, <2>2 DEF TypeOK
    <2>4. \A s \in RunIds : s # r => tx'[s] = tx[s] /\ status'[s] = status[s]
      BY <1>0, <2>1 DEF TypeOK
    <2>5. status'[r] = "pending" /\ writes' = writes /\ uncertain' = uncertain /\ pending = 0
      BY <1>0, <1>7, <2>1 DEF BeginExecution, TypeOK, ruleVars
    <2>6. JournalConsistent'
      BY <1>0, <2>1, <2>4, <2>5 DEF TypeOK, JournalInv, JournalConsistent
    <2>7. \A s \in RunIds : status'[s] # "none" =>
             tx'[s].rule \in Rules /\ tx'[s].basis <= writes'[tx'[s].rule]
      <3>1. writes[task[p].rule] <= writes[task[p].rule]
        BY <1>0, <2>2, JournalAssumption DEF TypeOK
      <3> QED
        BY <1>0, <2>2, <2>3, <2>4, <2>5, <3>1 DEF JournalInv
    <2>8. \A s \in RunIds \ {r} : status[s] # "pending"
      BY <1>0, <2>5 DEF JournalInv, JournalConsistent
    <2>9. OneOpenRunPerRule'
      BY <1>0, <2>2, <2>3, <2>4, <2>5, <2>8 DEF JournalInv, OneOpenRunPerRule, Open
    <2> QED
      BY <2>6, <2>7, <2>9 DEF JournalInv
  <1>8. CASE \/ \E p \in Procs : NodeAdmits(p) \/ Stop(p)
             \/ \E r \in RunIds : Deliver(r) \/ Evict(r)
             \/ \E r \in RunIds, outcome \in {"success", "failure"} : Commit(r, outcome)
             \/ \E n \in Nonces : ForeignCommit(n)
    BY <1>1, <1>8 DEF NodeAdmits, Stop, Deliver, Evict, Commit, ForeignCommit
  <1> QED
    BY <1>1, <1>2, <1>3, <1>4, <1>5, <1>6, <1>7, <1>8, SharedSteps

-----------------------------------------------------------------------------
(* The journal and the chain *)

\* Closing the pending run with what is known of it: success only with a
\* successful receipt, failure only when no block can still execute it.
LEMMA FinishChain ==
    ASSUME IInv, NEW r \in RunIds, NEW success \in BOOLEAN, FinishExecution(r, success),
           UNCHANGED chainVars,
           success => chain[r] = "success",
           ~success => /\ chain[r] # "success"
                       /\ chain[r] = "absent" => r \notin wire \cup mempool
    PROVE  ChainInv'
  <1>1. /\ status' = [status EXCEPT ![r] = IF success THEN "submitted" ELSE "failed"]
        /\ pending = r /\ pending' = 0 /\ tx' = tx
    BY DEF FinishExecution
  <1>2. TypeOK /\ ChainInv /\ UNCHANGED <<wire, mempool, chain, nonce>>
    BY DEF IInv, chainVars
  <1>3. \A s \in RunIds : s # r => status'[s] = status[s]
    BY <1>1, <1>2 DEF TypeOK
  <1>4. status'[r] = IF success THEN "submitted" ELSE "failed"
    BY <1>1, <1>2 DEF TypeOK
  <1>5. OutcomesTrue'
    BY <1>1, <1>2, <1>3, <1>4 DEF ChainInv, OutcomesTrue
  <1> QED
    BY <1>1, <1>2, <1>3, <1>4, <1>5 DEF ChainInv

\* Every step keeps journal and chain in agreement.
LEMMA NextChainInv == IInv /\ [Next]_vars => ChainInv'
  <1> SUFFICES ASSUME IInv, [Next]_vars
               PROVE  ChainInv'
    OBVIOUS
  <1> USE DEF At
  <1>0. TypeOK /\ LockInv /\ SessionInv /\ JournalInv /\ ChainInv
    BY DEF IInv
  <1>n. nonce \in Nat /\ \A r \in RunIds : tx[r].nonce \in Nat
    BY <1>0, JournalAssumption DEF TypeOK, Txs
  <1>1. CASE UNCHANGED <<journalVars, chainVars>>
    BY <1>0, <1>1 DEF journalVars, chainVars, ChainInv, OutcomesTrue
  <1>2. ASSUME NEW p \in Procs, FinishReceipt(p)
        PROVE  ChainInv'
    <2>1. task[p].run \in RunIds
      BY <1>2, HeldRun DEF FinishReceipt, Reconciling
    <2> QED
      BY <1>0, <1>2, <2>1, FinishChain DEF FinishReceipt
  <1>3. ASSUME NEW p \in Procs, ReplyRefused(p)
        PROVE  ChainInv'
    <2>1. task[p].run \in RunIds
      BY <1>3, HeldRun DEF ReplyRefused, Reconciling
    <2>2. CASE task[p].seen
      BY <1>1, <1>3, <2>2 DEF ReplyRefused
    <2>3. CASE ~task[p].seen
      <3>1. task[p].run \notin wire \cup mempool /\ chain[task[p].run] = "absent"
        BY <1>0, <1>3, <2>3 DEF ReplyRefused, SessionInv, Fresh
      <3> QED
        BY <1>3, <2>1, <2>3, <3>1, FinishChain DEF ReplyRefused
    <2> QED
      BY <2>2, <2>3
  <1>4. ASSUME NEW p \in Procs, ReleaseConsumed(p)
        PROVE  ChainInv'
    <2>1. task[p].run \in RunIds
      BY <1>4, HeldRun DEF ReleaseConsumed, Reconciling
    <2> QED
      BY <1>0, <1>n, <1>4, <2>1 DEF ReleaseConsumed, TypeOK, ChainInv, OutcomesTrue, chainVars
  <1>5. ASSUME NEW p \in Procs, MarkAttempted(p)
        PROVE  ChainInv'
    BY <1>0, <1>5 DEF MarkAttempted, ChainInv, OutcomesTrue, chainVars
  <1>6. ASSUME NEW p \in Procs, NodeAdmits(p)
        PROVE  ChainInv'
    <2>1. /\ task[p].run \in RunIds /\ pending = task[p].run /\ attempted
          /\ status[task[p].run] = "pending"
      BY <1>0, <1>6, HeldRun DEF NodeAdmits, Reconciling, SessionInv, Fresh, JournalInv,
                                 JournalConsistent
    <2> QED
      BY <1>0, <1>6, <2>1 DEF NodeAdmits, TypeOK, ChainInv, OutcomesTrue, journalVars
  <1>7. ASSUME NEW p \in Procs, Stop(p)
        PROVE  ChainInv'
    <2>1. pc[p] = "posting" =>
             /\ task[p].run \in RunIds /\ pending = task[p].run /\ attempted
             /\ status[task[p].run] = "pending"
      BY <1>0, HeldRun DEF Reconciling, SessionInv, Fresh, JournalInv, JournalConsistent
    <2> QED
      BY <1>0, <1>7, <2>1 DEF Stop, TypeOK, ChainInv, OutcomesTrue, journalVars
  <1>8. ASSUME NEW p \in Procs, NEW u \in Rules, ResolveUncertain(p, u)
        PROVE  ChainInv'
    <2>1. PICK r \in RunIds :
             /\ status[r] = "outcome_unknown" /\ chain[r] # "absent"
             /\ status' = [status EXCEPT ![r] =
                             IF chain[r] = "success" THEN "submitted" ELSE "failed"]
      BY <1>0, <1>8 DEF ResolveUncertain, HeldRuns, JournalInv, JournalConsistent
    <2>2. /\ \A s \in RunIds : s # r => status'[s] = status[s]
          /\ status'[r] = IF chain[r] = "success" THEN "submitted" ELSE "failed"
      BY <1>0, <2>1 DEF TypeOK
    <2> QED
      BY <1>0, <1>8, <2>1, <2>2 DEF ResolveUncertain, ChainInv, OutcomesTrue, chainVars
  <1>9. ASSUME NEW p \in Procs, NEW n \in Nonces, BeginExecution(p, n)
        PROVE  ChainInv'
    <2>1. PICK r \in RunIds :
             /\ status[r] = "none"
             /\ status' = [status EXCEPT ![r] = "pending"]
             /\ tx' = [tx EXCEPT ![r] = [rule |-> task[p].rule, nonce |-> n,
                                         basis |-> task[p].basis]]
             /\ pending' = r
      BY <1>9 DEF BeginExecution
    <2>2. r \notin wire \cup mempool /\ chain[r] = "absent"
      BY <1>0, <2>1 DEF ChainInv
    <2>3. \A s \in RunIds : s # r => tx'[s] = tx[s] /\ status'[s] = status[s]
      BY <1>0, <2>1 DEF TypeOK
    <2>4. status'[r] = "pending" /\ UNCHANGED <<wire, mempool, chain, nonce>>
      BY <1>0, <1>9, <2>1 DEF BeginExecution, TypeOK, chainVars
    <2> QED
      BY <1>0, <2>1, <2>2, <2>3, <2>4 DEF ChainInv, OutcomesTrue
  <1>10. ASSUME NEW r \in RunIds, Deliver(r) \/ Evict(r)
         PROVE  ChainInv'
    <2>1. UNCHANGED <<pending, attempted, status, tx, chain, nonce>>
      BY <1>10 DEF Deliver, Evict, journalVars
    <2>2. wire' \cup mempool' \subseteq wire \cup mempool
      BY <1>10 DEF Deliver, Evict
    <2> QED
      BY <1>0, <2>1, <2>2 DEF ChainInv, OutcomesTrue
  <1>11. ASSUME NEW r \in RunIds, NEW outcome \in {"success", "failure"}, Commit(r, outcome)
         PROVE  ChainInv'
    <2>1. status[r] = "pending" /\ attempted
      BY <1>0, <1>11 DEF Commit, ChainInv, JournalInv, JournalConsistent
    <2>2. /\ chain'[r] = outcome /\ \A s \in RunIds : s # r => chain'[s] = chain[s]
          /\ nonce' = tx[r].nonce /\ nonce < nonce'
      BY <1>0, <1>11 DEF Commit, TypeOK
    <2>3. /\ UNCHANGED <<pending, attempted, status, tx, wire>>
          /\ mempool' = mempool \ {r}
      BY <1>11 DEF Commit, journalVars
    <2>4. nonce' \in Nat
      BY <1>n, <2>2
    <2>5. OutcomesTrue'
      BY <1>0, <1>n, <2>1, <2>2, <2>3, <2>4 DEF ChainInv, OutcomesTrue
    <2> QED
      BY <1>0, <1>n, <2>1, <2>2, <2>3, <2>4, <2>5 DEF ChainInv
  <1>12. ASSUME NEW n \in Nonces, ForeignCommit(n)
         PROVE  ChainInv'
    <2>1. n \in Nat
      BY JournalAssumption
    <2> QED
      BY <1>0, <1>n, <1>12, <2>1 DEF ForeignCommit, ChainInv, OutcomesTrue, journalVars
  <1>13. ASSUME NEW p \in Procs, SaveBaseline(p)
         PROVE  ChainInv'
    BY <1>1, <1>13 DEF SaveBaseline
  <1> QED
    BY <1>1, <1>2, <1>3, <1>4, <1>5, <1>6, <1>7, <1>8, <1>9, <1>10, <1>11, <1>12, <1>13,
       SharedSteps

-----------------------------------------------------------------------------
(* One trade for one state of a rule *)

\* Writes of rule states only grow.
LEMMA WritesGrow ==
    ASSUME TypeOK, NEW u \in Rules, NEW known \in BOOLEAN, WriteRuleState(u, known)
    PROVE  /\ \A v \in Rules : writes[v] <= writes'[v]
           /\ writes[u] < writes'[u]
  BY JournalAssumption DEF TypeOK, WriteRuleState

\* Closing a run that traded on the present or an earlier state of its rule.
LEMMA FinishBasis ==
    ASSUME IInv, NEW r \in RunIds, NEW success \in BOOLEAN, FinishExecution(r, success)
    PROVE  BasisInv'
  <1>1. /\ status' = [status EXCEPT ![r] = IF success THEN "submitted" ELSE "failed"]
        /\ pending = r /\ tx' = tx
    BY DEF FinishExecution
  <1>2. TypeOK /\ JournalInv /\ BasisInv
    BY DEF IInv
  <1>3. status[r] = "pending" /\ tx[r].rule \in Rules
    BY <1>1, <1>2 DEF JournalInv, JournalConsistent
  <1>4. /\ \A v \in Rules : writes[v] <= writes'[v]
        /\ success => writes[tx[r].rule] < writes'[tx[r].rule]
    <2>1. CASE success
      BY <1>2, <1>3, <2>1, WritesGrow DEF FinishExecution
    <2>2. CASE ~success
      BY <1>2, <2>2, JournalAssumption DEF FinishExecution, ruleVars, TypeOK
    <2> QED
      BY <2>1, <2>2
  <1>5. /\ \A s \in RunIds : tx[s].basis \in Nat
        /\ \A v \in Rules : writes[v] \in Nat /\ writes'[v] \in Nat
    <2>1. \A s \in RunIds : tx[s] \in Txs
      BY <1>2 DEF TypeOK
    <2>2. writes \in [Rules -> 0..MaxWrites] /\ writes' \in [Rules -> 0..MaxWrites]
      BY <1>2, <1>3, FinishType DEF TypeOK
    <2> QED
      BY <2>1, <2>2, JournalAssumption DEF Txs
  <1>6. /\ \A s \in RunIds : s # r => status'[s] = status[s]
        /\ status'[r] = IF success THEN "submitted" ELSE "failed"
    BY <1>1, <1>2 DEF TypeOK
  <1>7. \A s \in RunIds : status'[s] = "submitted" => tx[s].basis < writes'[tx[s].rule]
    <2>1. \A s \in RunIds : status[s] = "submitted" =>
             tx[s].basis < writes[tx[s].rule] /\ tx[s].rule \in Rules
      BY <1>2 DEF BasisInv, JournalInv
    <2>2. tx[r].basis <= writes[tx[r].rule]
      BY <1>2, <1>3 DEF JournalInv
    <2>3. ASSUME NEW s \in RunIds, s # r, status'[s] = "submitted"
          PROVE  tx[s].basis < writes'[tx[s].rule]
      BY <1>4, <1>5, <1>6, <2>1, <2>3
    <2>4. ASSUME status'[r] = "submitted"
          PROVE  tx[r].basis < writes'[tx[r].rule]
      BY <1>3, <1>4, <1>5, <1>6, <2>2, <2>4
    <2> QED
      BY <2>3, <2>4
  <1>8. \A s, t \in RunIds :
          /\ s # t /\ tx[s].rule = tx[t].rule /\ tx[s].basis = tx[t].basis
          /\ status'[s] # "none" /\ status'[t] # "none"
          => status'[s] = "failed" \/ status'[t] = "failed"
    BY <1>2, <1>3, <1>6 DEF BasisInv
  <1> QED
    BY <1>1, <1>7, <1>8 DEF BasisInv

\* Every step keeps trades and rule states apart.
LEMMA NextBasisInv == IInv /\ [Next]_vars => BasisInv'
  <1> SUFFICES ASSUME IInv, [Next]_vars
               PROVE  BasisInv'
    OBVIOUS
  <1> USE DEF At
  <1>0. TypeOK /\ LockInv /\ SessionInv /\ JournalInv /\ BasisInv
    BY DEF IInv
  <1>n. /\ \A s \in RunIds : tx[s].basis \in Nat
        /\ \A v \in Rules : writes[v] \in Nat
    BY <1>0, JournalAssumption DEF TypeOK, Txs
  <1>1. CASE UNCHANGED <<status, tx, writes>>
    BY <1>0, <1>1 DEF BasisInv
  <1>2. ASSUME NEW p \in Procs, FinishReceipt(p) \/ ReplyRefused(p)
        PROVE  BasisInv'
    <2>1. CASE \E success \in BOOLEAN : FinishExecution(task[p].run, success)
      BY <1>2, <2>1, HeldRun, FinishBasis DEF FinishReceipt, ReplyRefused, Reconciling
    <2>2. CASE UNCHANGED <<journalVars, ruleVars>>
      BY <1>1, <2>2 DEF journalVars, ruleVars
    <2> QED
      BY <1>2, <2>1, <2>2 DEF FinishReceipt, ReplyRefused
  <1>3. ASSUME NEW p \in Procs, ReleaseConsumed(p)
        PROVE  BasisInv'
    <2>1. task[p].run \in RunIds /\ status[task[p].run] = "pending"
      BY <1>0, <1>3, HeldRun DEF ReleaseConsumed, Reconciling, JournalInv, JournalConsistent
    <2> QED
      BY <1>0, <1>3, <2>1 DEF ReleaseConsumed, TypeOK, BasisInv, ruleVars
  <1>4. ASSUME NEW p \in Procs, SaveBaseline(p)
        PROVE  BasisInv'
    <2>1. task[p].rule \in Rules
      BY <1>0, <1>4 DEF SaveBaseline, SessionInv, Fresh
    <2>2. \A v \in Rules : writes[v] <= writes'[v] /\ writes'[v] \in Nat
      <3>1. WriteRuleState(task[p].rule, TRUE)
        BY <1>4 DEF SaveBaseline
      <3>2. writes' \in [Rules -> 0..MaxWrites]
        BY <1>0, <2>1, <3>1, WriteType
      <3>3. \A v \in Rules : writes[v] <= writes'[v]
        BY <1>0, <2>1, <3>1, WritesGrow
      <3> QED
        BY <3>2, <3>3, JournalAssumption
    <2>3. \A s \in RunIds : status[s] = "submitted" => tx[s].basis < writes'[tx[s].rule]
      BY <1>0, <1>n, <2>2 DEF BasisInv, JournalInv
    <2> QED
      BY <1>0, <1>4, <2>3 DEF SaveBaseline, journalVars, BasisInv
  <1>5. ASSUME NEW p \in Procs, NEW u \in Rules, ResolveUncertain(p, u)
        PROVE  BasisInv'
    <2>1. PICK r \in RunIds :
             /\ status[r] = "outcome_unknown" /\ tx[r].rule = u
             /\ status' = [status EXCEPT ![r] =
                             IF chain[r] = "success" THEN "submitted" ELSE "failed"]
      BY <1>0, <1>5 DEF ResolveUncertain, HeldRuns, JournalInv, JournalConsistent
    <2>2. /\ \A v \in Rules : writes[v] <= writes'[v] /\ writes'[v] \in Nat
          /\ writes[u] < writes'[u]
      <3>1. WriteRuleState(u, FALSE)
        BY <1>5 DEF ResolveUncertain
      <3>2. writes' \in [Rules -> 0..MaxWrites]
        BY <1>0, <3>1, WriteType
      <3>3. (\A v \in Rules : writes[v] <= writes'[v]) /\ writes[u] < writes'[u]
        BY <1>0, <3>1, WritesGrow
      <3> QED
        BY <3>2, <3>3, JournalAssumption
    <2>3. /\ \A s \in RunIds : s # r => status'[s] = status[s]
          /\ status'[r] = IF chain[r] = "success" THEN "submitted" ELSE "failed"
      BY <1>0, <2>1 DEF TypeOK
    <2>4. \A s \in RunIds : status'[s] = "submitted" => tx[s].basis < writes'[tx[s].rule]
      <3>1. tx[r].basis < writes'[tx[r].rule]
        BY <1>0, <1>n, <2>1, <2>2 DEF JournalInv
      <3>2. \A s \in RunIds : status[s] = "submitted" =>
               tx[s].basis < writes[tx[s].rule] /\ tx[s].rule \in Rules
        BY <1>0 DEF BasisInv, JournalInv
      <3> QED
        BY <1>n, <2>2, <2>3, <3>1, <3>2
    <2> QED
      BY <1>0, <1>5, <2>1, <2>3, <2>4 DEF ResolveUncertain, BasisInv
  <1>6. ASSUME NEW p \in Procs, NEW n \in Nonces, BeginExecution(p, n)
        PROVE  BasisInv'
    <2>1. PICK r \in RunIds :
             /\ status[r] = "none"
             /\ status' = [status EXCEPT ![r] = "pending"]
             /\ tx' = [tx EXCEPT ![r] = [rule |-> task[p].rule, nonce |-> n,
                                         basis |-> task[p].basis]]
      BY <1>6 DEF BeginExecution
    <2>2. /\ task[p].rule \in Rules /\ task[p].basis = writes[task[p].rule]
          /\ \A s \in RunIds : tx[s].rule = task[p].rule => status[s] # "outcome_unknown"
          /\ pending = 0
      BY <1>0, <1>6 DEF BeginExecution, SessionInv, Fresh
    <2>3. tx'[r].rule = task[p].rule /\ tx'[r].basis = writes[task[p].rule]
      BY <1>0, <2>1, <2>2 DEF TypeOK
    <2>4. \A s \in RunIds : s # r => tx'[s] = tx[s] /\ status'[s] = status[s]
      BY <1>0, <2>1 DEF TypeOK
    <2>5. status'[r] = "pending" /\ writes' = writes
      BY <1>0, <1>6, <2>1 DEF BeginExecution, TypeOK, ruleVars
    <2>6. \A s \in RunIds :
             s # r /\ tx[s].rule = task[p].rule /\ tx[s].basis = writes[task[p].rule]
             /\ status[s] # "none" => status[s] = "failed"
      <3> SUFFICES ASSUME NEW s \in RunIds, tx[s].rule = task[p].rule,
                          tx[s].basis = writes[task[p].rule], status[s] # "none"
                   PROVE  status[s] = "failed"
        OBVIOUS
      <3>1. status[s] # "submitted"
        BY <1>0, <1>n, <2>2 DEF BasisInv
      <3>2. status[s] # "pending" /\ status[s] # "outcome_unknown"
        BY <1>0, <2>2 DEF JournalInv, JournalConsistent
      <3>3. status[s] \in Statuses
        BY <1>0 DEF TypeOK
      <3> QED
        BY <3>1, <3>2, <3>3 DEF Statuses
    <2> QED
      BY <1>0, <2>3, <2>4, <2>5, <2>6 DEF BasisInv
  <1>7. CASE \/ \E p \in Procs : MarkAttempted(p) \/ NodeAdmits(p) \/ Stop(p)
             \/ \E r \in RunIds : Deliver(r) \/ Evict(r)
             \/ \E r \in RunIds, outcome \in {"success", "failure"} : Commit(r, outcome)
             \/ \E n \in Nonces : ForeignCommit(n)
    BY <1>1, <1>7 DEF MarkAttempted, NodeAdmits, Stop, Deliver, Evict, Commit, ForeignCommit,
                      journalVars, ruleVars
  <1>8. CASE UNCHANGED <<journalVars, ruleVars, chainVars>>
    BY <1>1, <1>8 DEF journalVars, ruleVars
  <1> QED
    BY <1>2, <1>3, <1>4, <1>5, <1>6, <1>7, <1>8, SharedSteps

-----------------------------------------------------------------------------
(* The theorems *)

\* The invariant holds at the start.
LEMMA InitIInv == Init => IInv
  <1> SUFFICES ASSUME Init
               PROVE  IInv
    OBVIOUS
  <1>1. TypeOK
    BY InitTypeOK
  <1>2. LockInv /\ SessionInv
    BY JournalAssumption DEF Init, LockInv, SessionInv, Fresh, Reconciling
  <1>3. JournalInv /\ ChainInv /\ BasisInv
    BY DEF Init, JournalInv, JournalConsistent, OneOpenRunPerRule, Open, ChainInv, OutcomesTrue,
           BasisInv
  <1> QED
    BY <1>1, <1>2, <1>3 DEF IInv

\* IInv is inductive, so it holds in every reachable state.
THEOREM Invariance == Spec => []IInv
  <1>1. IInv /\ [Next]_vars => IInv'
    BY NextTypeOK, NextLockInv, NextSessionInv, NextJournalInv, NextChainInv, NextBasisInv
       DEF IInv
  <1> QED
    BY InitIInv, <1>1, PTL DEF Spec

\* The journal, the sessions and the chain keep their types.
THEOREM TypeCorrect == Spec => []TypeOK
  <1>1. IInv => TypeOK
    BY DEF IInv
  <1> QED
    BY Invariance, <1>1, PTL

\* Nothing but the pending transaction can still change the chain.
THEOREM OnlyPendingExecutesHolds == Spec => []OnlyPendingExecutes
  <1>1. IInv => OnlyPendingExecutes
    <2> SUFFICES ASSUME IInv, NEW r \in RunIds, Executable(r)
                 PROVE  pending = r
      BY DEF OnlyPendingExecutes
    <2>1. CASE r \in wire \cup mempool
      BY <2>1 DEF IInv, ChainInv, JournalInv, JournalConsistent, Executable
    <2>2. CASE \E p \in Procs : pc[p] \in {"posting", "admitted"} /\ task[p].run = r
      BY <2>2, HeldRun DEF Reconciling
    <2> QED
      BY <2>1, <2>2 DEF Executable, AtLarge
  <1> QED
    BY Invariance, <1>1, PTL

\* The journal never tells the operator something the chain contradicts.
THEOREM OutcomesTrueHolds == Spec => []OutcomesTrue
  <1>1. IInv => OutcomesTrue
    BY DEF IInv, ChainInv
  <1> QED
    BY Invariance, <1>1, PTL

\* A rule has at most one unsettled trade.
THEOREM OneOpenRunPerRuleHolds == Spec => []OneOpenRunPerRule
  <1>1. IInv => OneOpenRunPerRule
    BY DEF IInv, JournalInv
  <1> QED
    BY Invariance, <1>1, PTL

\* No two successful trades of a rule were decided on the same rule state.
THEOREM OneTradePerBaselineHolds == Spec => []OneTradePerBaseline
  <1>1. IInv => OneTradePerBaseline
    BY DEF IInv, BasisInv, ChainInv, OutcomesTrue, OneTradePerBaseline
  <1> QED
    BY Invariance, <1>1, PTL

\* The mark of an attempt is durable before any byte leaves the process.
THEOREM AttemptRecordedFirstHolds == Spec => []AttemptRecordedFirst
  <1>1. IInv => AttemptRecordedFirst
    <2> SUFFICES ASSUME IInv, NEW r \in RunIds, AtLarge(r) \/ chain[r] # "absent"
                 PROVE  status[r] # "none" /\ (pending = r => attempted)
      BY DEF AttemptRecordedFirst
    <2>1. CASE r \in wire \cup mempool \/ chain[r] # "absent"
      BY <2>1 DEF IInv, ChainInv
    <2>2. CASE \E p \in Procs : pc[p] \in {"posting", "admitted"} /\ task[p].run = r
      BY <2>2, HeldRun DEF Reconciling, IInv, SessionInv, Fresh, JournalInv, JournalConsistent
    <2> QED
      BY <2>1, <2>2 DEF AtLarge
  <1> QED
    BY Invariance, <1>1, PTL

\* A settled run stays settled and an unknown one never becomes pending again.
THEOREM SettledOnceHolds == Spec => SettledOnce
  <1> DEFINE Final(r) ==
        /\ status[r] \in {"submitted", "failed"} => status'[r] = status[r]
        /\ status[r] = "outcome_unknown" => status'[r] # "pending"
  <1>1. ASSUME IInv, [Next]_vars
        PROVE  \A r \in RunIds : Final(r)
    <2> SUFFICES ASSUME NEW r \in RunIds
                 PROVE  Final(r)
      OBVIOUS
    <2>0. TypeOK /\ JournalInv
      BY <1>1 DEF IInv
    <2>1. CASE \/ status' = status
               \/ \E s \in RunIds, to \in Statuses :
                    /\ status[s] \in {"none", "pending"} /\ status' = [status EXCEPT ![s] = to]
               \/ \E s \in RunIds, to \in {"submitted", "failed"} :
                    /\ status[s] = "outcome_unknown" /\ status' = [status EXCEPT ![s] = to]
      BY <2>0, <2>1 DEF TypeOK
    <2>2. ASSUME NEW p \in Procs,
                 FinishReceipt(p) \/ ReplyRefused(p) \/ ReleaseConsumed(p)
          PROVE  Final(r)
      <3>1. task[p].run \in RunIds /\ status[task[p].run] = "pending"
        BY <1>1, <2>0, <2>2, HeldRun DEF FinishReceipt, ReplyRefused, ReleaseConsumed, At,
                                        Reconciling, JournalInv, JournalConsistent
      <3> QED
        BY <2>1, <2>2, <3>1 DEF FinishReceipt, ReplyRefused, ReleaseConsumed, FinishExecution,
                                journalVars, Statuses
    <2>3. ASSUME NEW p \in Procs, NEW u \in Rules, ResolveUncertain(p, u)
          PROVE  Final(r)
      BY <2>0, <2>1, <2>3 DEF ResolveUncertain, HeldRuns, JournalInv, JournalConsistent
    <2>4. ASSUME NEW p \in Procs, NEW n \in Nonces, BeginExecution(p, n)
          PROVE  Final(r)
      BY <2>1, <2>4 DEF BeginExecution, Statuses
    <2>5. CASE status' = status
      BY <2>1, <2>5
    <2>6. CASE \/ UNCHANGED <<journalVars, ruleVars, chainVars>>
               \/ \E p \in Procs : MarkAttempted(p) \/ NodeAdmits(p) \/ SaveBaseline(p) \/ Stop(p)
               \/ \E s \in RunIds : Deliver(s) \/ Evict(s)
               \/ \E s \in RunIds, outcome \in {"success", "failure"} : Commit(s, outcome)
               \/ \E n \in Nonces : ForeignCommit(n)
      BY <2>5, <2>6 DEF MarkAttempted, NodeAdmits, SaveBaseline, Stop, Deliver, Evict, Commit,
                        ForeignCommit, journalVars
    <2> QED
      BY <1>1, <2>2, <2>3, <2>4, <2>6, SharedSteps
  <1> QED
    BY Invariance, <1>1, PTL DEF Spec, SettledOnce

-----------------------------------------------------------------------------
(* The journal implements the promise of SwapOutcomes *)

\* Closing the pending run is Settle or Refuse of the promise.
LEMMA FinishStep ==
    ASSUME IInv, NEW r \in RunIds, FinishExecution(r, chain[r] = "success"), chain' = chain,
           chain[r] = "absent" => FinishExecution(r, FALSE)
    PROVE  Outcomes!Next
  <1>1. status[r] = "pending" /\ tx' = tx
    BY DEF IInv, JournalInv, JournalConsistent, FinishExecution
  <1>2. CASE chain[r] # "absent"
    <2>1. Outcomes!Settle(r)
      BY <1>1, <1>2 DEF FinishExecution, Outcomes!Settle, Outcomes!Unsettled
    <2> QED
      BY <2>1 DEF Outcomes!Next
  <1>3. CASE chain[r] = "absent"
    <2>1. Outcomes!Refuse(r)
      BY <1>1, <1>3 DEF FinishExecution, Outcomes!Refuse
    <2> QED
      BY <2>1 DEF Outcomes!Next
  <1> QED
    BY <1>2, <1>3

\* Every step of the journal is a step of the promise or invisible to it.
THEOREM Refinement == Spec => ImplementsOutcomes
  <1>1. Init => Outcomes!Init
    BY DEF Init, Outcomes!Init
  <1>2. IInv /\ [Next]_vars => [Outcomes!Next]_(Outcomes!vars)
    <2> SUFFICES ASSUME IInv, [Next]_vars
                 PROVE  Outcomes!Next \/ UNCHANGED <<status, chain, tx>>
      BY DEF Outcomes!vars
    <2> USE DEF At
    <2>0. TypeOK /\ SessionInv /\ JournalInv /\ ChainInv
      BY DEF IInv
    <2>1. ASSUME NEW p \in Procs, FinishReceipt(p)
          PROVE  Outcomes!Next
      <3>1. task[p].run \in RunIds
        BY <2>1, HeldRun DEF FinishReceipt, Reconciling
      <3> QED
        BY <2>1, <3>1, FinishStep DEF FinishReceipt, chainVars
    <2>2. ASSUME NEW p \in Procs, ReplyRefused(p), ~UNCHANGED <<status, chain, tx>>
          PROVE  Outcomes!Next
      <3>1. task[p].run \in RunIds
        BY <2>2, HeldRun DEF ReplyRefused, Reconciling
      <3>2. ~task[p].seen /\ FinishExecution(task[p].run, FALSE) /\ chain' = chain
        BY <2>2 DEF ReplyRefused, journalVars, chainVars
      <3>3. chain[task[p].run] = "absent"
        BY <2>0, <2>2, <3>2 DEF ReplyRefused, SessionInv, Fresh
      <3> QED
        BY <3>1, <3>2, <3>3, FinishStep
    <2>3. ASSUME NEW p \in Procs, ReleaseConsumed(p)
          PROVE  Outcomes!Next
      <3>1. task[p].run \in RunIds /\ status[task[p].run] = "pending"
        BY <2>0, <2>3, HeldRun DEF ReleaseConsumed, Reconciling, JournalInv, JournalConsistent
      <3>2. Outcomes!Park(task[p].run)
        BY <2>3, <3>1 DEF ReleaseConsumed, chainVars, Outcomes!Park
      <3> QED
        BY <3>1, <3>2 DEF Outcomes!Next
    <2>4. ASSUME NEW p \in Procs, NEW u \in Rules, ResolveUncertain(p, u)
          PROVE  Outcomes!Next
      <3>1. PICK r \in RunIds :
               /\ status[r] = "outcome_unknown" /\ chain[r] # "absent"
               /\ status' = [status EXCEPT ![r] =
                               IF chain[r] = "success" THEN "submitted" ELSE "failed"]
        BY <2>0, <2>4 DEF ResolveUncertain, HeldRuns, JournalInv, JournalConsistent
      <3>2. Outcomes!Settle(r)
        BY <2>4, <3>1 DEF ResolveUncertain, chainVars, Outcomes!Settle, Outcomes!Unsettled
      <3> QED
        BY <3>2 DEF Outcomes!Next
    <2>5. ASSUME NEW p \in Procs, NEW n \in Nonces, BeginExecution(p, n)
          PROVE  Outcomes!Next
      <3>1. PICK r \in RunIds :
               /\ status[r] = "none"
               /\ status' = [status EXCEPT ![r] = "pending"]
               /\ tx' = [tx EXCEPT ![r] = [rule |-> task[p].rule, nonce |-> n,
                                           basis |-> task[p].basis]]
        BY <2>5 DEF BeginExecution
      <3>2. /\ task[p].rule \in Rules
            /\ \A s \in RunIds : tx[s].rule = task[p].rule => status[s] # "outcome_unknown"
            /\ \A s \in RunIds : status[s] # "pending"
        BY <2>0, <2>5 DEF BeginExecution, SessionInv, Fresh, JournalInv, JournalConsistent
      <3>3. PICK u \in Rules : u = task[p].rule
        BY <3>2
      <3>4. [s \in RunIds |-> tx'[s].rule] = [[s \in RunIds |-> tx[s].rule] EXCEPT ![r] = u]
        BY <2>0, <3>1, <3>3 DEF TypeOK
      <3>5. Outcomes!Begin(r, u)
        BY <2>5, <3>1, <3>2, <3>3, <3>4
           DEF BeginExecution, chainVars, Outcomes!Begin, Outcomes!Unsettled
      <3> QED
        BY <3>5 DEF Outcomes!Next
    <2>6. ASSUME NEW r \in RunIds, NEW outcome \in {"success", "failure"}, Commit(r, outcome)
          PROVE  Outcomes!Next
      <3>1. status[r] = "pending"
        BY <2>0, <2>6 DEF Commit, ChainInv
      <3>2. Outcomes!Execute(r, outcome)
        BY <2>6, <3>1 DEF Commit, journalVars, Outcomes!Execute
      <3> QED
        BY <3>2 DEF Outcomes!Next
    <2>7. CASE \/ UNCHANGED <<journalVars, ruleVars, chainVars>>
               \/ \E p \in Procs : MarkAttempted(p) \/ NodeAdmits(p) \/ SaveBaseline(p) \/ Stop(p)
               \/ \E s \in RunIds : Deliver(s) \/ Evict(s)
               \/ \E n \in Nonces : ForeignCommit(n)
      BY <2>7 DEF MarkAttempted, NodeAdmits, SaveBaseline, Stop, Deliver, Evict, ForeignCommit,
                  journalVars, chainVars
    <2> QED
      BY <2>1, <2>2, <2>3, <2>4, <2>5, <2>6, <2>7, SharedSteps
  <1> QED
    BY Invariance, <1>1, <1>2, PTL DEF Spec, ImplementsOutcomes, Outcomes!Spec

Promise == INSTANCE SwapOutcomesProofs WITH
    Swaps <- RunIds, Rules <- Rules, NoRule <- NoRule,
    ledger <- status, fate <- chain,
    owner <- [r \in RunIds |-> tx[r].rule]

\* What the promise means for operator and chain it means for the journal: carried
\* down along the refinement, through lost answers, crashes and reused nonces.
THEOREM JournalKeepsPromise ==
    Spec => /\ []/\ Promise!OnePending /\ Promise!OneUnsettledPerRule /\ Promise!LedgerTrue
            /\ [][Promise!Final]_(Promise!vars)
  <1>1. Outcomes!Spec => Promise!Spec
    BY DEF Outcomes!Spec, Outcomes!Init, Outcomes!Next, Outcomes!vars, Outcomes!Begin,
           Outcomes!Execute, Outcomes!Settle, Outcomes!Refuse, Outcomes!Park,
           Outcomes!Unsettled, Promise!Spec, Promise!Init, Promise!Next, Promise!vars,
           Promise!Begin, Promise!Execute, Promise!Settle, Promise!Refuse, Promise!Park,
           Promise!Unsettled
  <1> QED
    BY <1>1, Refinement, Promise!PromiseMeans, Promise!PromiseIsFinal, PTL
    DEF ImplementsOutcomes
=============================================================================
