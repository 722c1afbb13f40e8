---------------------------- MODULE EventDelivery ----------------------------
(***************************************************************************)
(* worker.py: how Sync events of the chain reach the rules.  Watchers      *)
(* follow the numbered feed from the stored cursor, evaluate the pairs an  *)
(* event concerns one after the other under the execution lock, retry      *)
(* while the lock is taken or recovery is pending, wait for a swap of      *)
(* their own, and advance the cursor last.  Callers are manual             *)
(* evaluations of the admin API.  What becomes of a swap is SwapOutcomes,  *)
(* which ExecutionJournal implements; what a rule decides is left open.    *)
(***************************************************************************)
EXTENDS Naturals, Sequences

CONSTANTS
    Watchers, Callers,  \* processes that run _watch_events / evaluate_pair_once
    Pairs, Rules,       \* pair ids; enabled rules, numbered as config.rules orders them
    PairOf,             \* trigger.pair_id of each rule
    AnyPair,            \* the pair of an event that names none
    Labels,             \* the pairs that events of this deployment name
    Swaps,              \* bound: journaled swaps
    MaxMoves,           \* bound: length of the feed up to which strangers trade
    Nobody, NoRule

Procs == Watchers \cup Callers

ASSUME DeliveryAssumption ==
    /\ Watchers \cap Callers = {} /\ Nobody \notin Procs
    /\ Pairs \subseteq Nat /\ Rules \subseteq Nat
    /\ PairOf \in [Rules -> Pairs]
    /\ AnyPair \notin Pairs /\ Labels \subseteq Pairs \cup {AnyPair}
    /\ MaxMoves \in Nat /\ NoRule \notin Rules

VARIABLES
    feed,       \* the Sync events in order: the pair each one names
    cursor,     \* the cursor row, 0 before its first write
    ledger, fate, owner,    \* the swaps: SwapOutcomes
    lock,       \* holder of the execution lock, or Nobody
    pc, mem,    \* place and memory of each process
    seen,       \* history: length of the feed in the state each rule last decided on
    begun       \* history: the same, for the decision each swap came from

swapVars == <<ledger, fate, owner>>
vars == <<feed, cursor, swapVars, lock, pc, mem, seen, begun>>

Swap == INSTANCE SwapOutcomes

Memory ==
    [event : Nat,           \* position in the feed: the event handled now, or last
     todo : SUBSET Pairs,   \* pairs the event still has to be evaluated for
     pair : Pairs \cup {AnyPair},   \* the one evaluated now
     snap : Nat,            \* length of the feed in the snapshot
     left : SUBSET Rules,   \* rules of the pair not looked at yet
     made : SUBSET Rules]   \* rules that opened a swap for this event

Outside == {"starting", "watching", "handling", "waiting", "ready"}
Inside  == {"reconciling", "rules", "submitting"}

TypeOK ==
    /\ feed \in Seq(Labels \cup Pairs) /\ cursor \in Nat
    /\ Swap!TypeOK
    /\ lock \in Procs \cup {Nobody} /\ \A p \in Procs : pc[p] \in Inside <=> lock = p
    /\ pc \in [Procs -> Outside \cup Inside] /\ mem \in [Procs -> Memory]
    /\ seen \in [Rules -> Nat] /\ begun \in [Swaps -> Nat]

Home(p) == IF p \in Watchers THEN "starting" ELSE "ready"

\* A process at an event, but in no evaluation.
At(event, todo, made) ==
    [event |-> event, todo |-> todo, pair |-> AnyPair, snap |-> 0, left |-> {}, made |-> made]

Blank == At(0, {}, {})

Init ==
    /\ feed = <<>> /\ cursor = 0
    /\ Swap!Init
    /\ lock = Nobody
    /\ pc = [p \in Procs |-> Home(p)] /\ mem = [p \in Procs |-> Blank]
    /\ seen = [u \in Rules |-> 0] /\ begun = [s \in Swaps |-> 0]

RulesOf(pair) == {u \in Rules : PairOf[u] = pair}

\* _pair_ids_from_event: the pair named, or that of every enabled rule.
PairsOfEvent(label) == IF label = AnyPair THEN {PairOf[u] : u \in Rules} ELSE {label}

First(n, S) == n \in S /\ \A m \in S : n <= m

NonePending == \A s \in Swaps : ledger[s] # "pending"

Move(p, from, to) == pc[p] = from /\ pc' = [pc EXCEPT ![p] = to]

Enter(p) == lock = Nobody /\ lock' = p

\* The evaluation returns and its locals go: a watcher goes on with the pairs that
\* are still to do, a call is over.
Return(p, to, todo) ==
    /\ lock' = Nobody
    /\ pc' = [pc EXCEPT ![p] = IF p \in Watchers THEN to ELSE "ready"]
    /\ mem' = [mem EXCEPT ![p] = IF p \in Watchers
                                   THEN At(mem[p].event, todo, mem[p].made) ELSE Blank]

-----------------------------------------------------------------------------
(* The chain *)

\* Somebody else trades.
StrangerTrades ==
    /\ Len(feed) < MaxMoves
    /\ \E label \in Labels : feed' = Append(feed, label)
    /\ UNCHANGED <<cursor, swapVars, lock, pc, mem, seen, begun>>

\* The chain executes a pending swap, which is a Sync event like any other.
SwapExecutes(s) ==
    /\ \/ /\ Swap!Execute(s, "success")
          /\ feed' = Append(feed, IF AnyPair \in Labels THEN AnyPair ELSE PairOf[owner[s]])
       \/ Swap!Execute(s, "failure") /\ UNCHANGED feed
    /\ UNCHANGED <<cursor, lock, pc, mem, seen, begun>>

-----------------------------------------------------------------------------
(* Recovery *)

\* reconcile_execution gets an answer about the pending swap.
Answer(s) ==
    /\ ledger[s] = "pending"
    /\ Swap!Settle(s) \/ Swap!Refuse(s) \/ Swap!Park(s)

\* Mutant: recovery runs only before watching.
RecoverAtStart ==
    /\ lock = Nobody /\ \E w \in Watchers : pc[w] = "starting"
    /\ \E s \in Swaps : Answer(s)
    /\ UNCHANGED <<feed, cursor, lock, pc, mem, seen, begun>>

\* recover_once of any process: at its start, in its recovery loop, while it
\* waits, or at the beginning of a manual evaluation.
Recover ==
    /\ lock = Nobody
    /\ \E s \in Swaps : Answer(s)
    /\ UNCHANGED <<feed, cursor, lock, pc, mem, seen, begun>>

-----------------------------------------------------------------------------
(* Watching *)

\* The feed is followed from the cursor once nothing is pending.
Start(w) ==
    /\ NonePending
    /\ Move(w, "starting", "watching")
    /\ mem' = [mem EXCEPT ![w] = At(cursor, {}, {})]
    /\ UNCHANGED <<feed, cursor, swapVars, lock, seen, begun>>

Receive(w) ==
    LET next == mem[w].event + 1 IN
    /\ next <= Len(feed)
    /\ Move(w, "watching", "handling")
    /\ mem' = [mem EXCEPT ![w] = At(next, PairsOfEvent(feed[next]), {})]
    /\ UNCHANGED <<feed, cursor, swapVars, lock, seen, begun>>

\* Mutant: a cursor that is behind the stored one is written too.
SaveAnyCursor(w) ==
    /\ mem[w].todo = {}
    /\ Move(w, "handling", "watching")
    /\ cursor' \in {cursor, mem[w].event}
    /\ mem' = [mem EXCEPT ![w].made = {}]
    /\ UNCHANGED <<feed, swapVars, lock, seen, begun>>

\* save_cursor never moves the row back; an event without an id saves nothing.
SaveCursor(w) ==
    /\ mem[w].todo = {}
    /\ Move(w, "handling", "watching")
    /\ \/ cursor < mem[w].event /\ cursor' = mem[w].event
       \/ UNCHANGED cursor
    /\ mem' = [mem EXCEPT ![w].made = {}]
    /\ UNCHANGED <<feed, swapVars, lock, seen, begun>>

\* An exception, a new configuration, a cancelled task or the death of the
\* process: only the database survives, and the locks are free.
Fail(p) ==
    /\ pc[p] # Home(p)
    /\ pc' = [pc EXCEPT ![p] = Home(p)]
    /\ mem' = [mem EXCEPT ![p] = Blank]
    /\ lock' = IF lock = p THEN Nobody ELSE lock
    /\ UNCHANGED <<feed, cursor, swapVars, seen, begun>>

-----------------------------------------------------------------------------
(* The evaluation of one pair under the execution lock *)

\* evaluate_pair; a watcher that finds the lock taken tries again.
Admit(w) ==
    /\ Enter(w)
    /\ Move(w, "handling", "reconciling")
    /\ \E pair \in mem[w].todo :
         First(pair, mem[w].todo) /\ mem' = [mem EXCEPT ![w].pair = pair]
    /\ UNCHANGED <<feed, cursor, swapVars, seen, begun>>

\* evaluate_pair_once, which does not try again.
Call(c, pair) ==
    /\ Enter(c)
    /\ Move(c, "ready", "reconciling")
    /\ mem' = [mem EXCEPT ![c].pair = pair]
    /\ UNCHANGED <<feed, cursor, swapVars, seen, begun>>

\* The swap of an earlier evaluation, or of this one, is answered.
Reconcile(p) ==
    /\ pc[p] \in {"reconciling", "submitting"}
    /\ \E s \in Swaps : Answer(s)
    /\ UNCHANGED <<feed, cursor, lock, pc, mem, seen, begun>>

\* Mutant: an event whose pair waits for recovery is not evaluated again.
RecoveryPendingIsFinal(p) ==
    /\ ~NonePending
    /\ pc[p] = "reconciling"
    /\ Return(p, "waiting", mem[p].todo \ {mem[p].pair})
    /\ UNCHANGED <<feed, cursor, swapVars, seen, begun>>

\* recovery_pending: the lock is given back and the pair is evaluated again.
RecoveryPending(p) ==
    /\ ~NonePending
    /\ pc[p] = "reconciling"
    /\ Return(p, "handling", mem[p].todo)
    /\ UNCHANGED <<feed, cursor, swapVars, seen, begun>>

\* get_pair_snapshot: the state of the chain as of some moment from here on.
Snapshot(p) ==
    /\ NonePending
    /\ Move(p, "reconciling", "rules")
    /\ mem' = [mem EXCEPT ![p].snap = Len(feed), ![p].left = RulesOf(mem[p].pair)]
    /\ UNCHANGED <<feed, cursor, swapVars, lock, seen, begun>>

\* The receipt of the rule's uncertain swap is found before the rule decides.
ResolveUncertain(p) ==
    /\ pc[p] = "rules"
    /\ \E u \in mem[p].left, s \in Swaps :
         First(u, mem[p].left) /\ owner[s] = u /\ Swap!Settle(s)
    /\ UNCHANGED <<feed, cursor, lock, pc, mem, seen, begun>>

\* The rule is held, does not move, fails, or only records a dry run.
SkipRule(p) ==
    /\ pc[p] = "rules"
    /\ \E u \in mem[p].left :
         /\ First(u, mem[p].left)
         /\ mem' = [mem EXCEPT ![p].left = @ \ {u}]
         /\ seen' = [seen EXCEPT ![u] = mem[p].snap]
    /\ UNCHANGED <<feed, cursor, swapVars, lock, pc, begun>>

\* begin_execution
BeginTrade(p, s) ==
    /\ Move(p, "rules", "submitting")
    /\ \E u \in mem[p].left :
         /\ First(u, mem[p].left)
         /\ Swap!Begin(s, u)
         /\ mem' = [mem EXCEPT ![p].left = @ \ {u}, ![p].made = @ \cup {u}]
         /\ seen' = [seen EXCEPT ![u] = mem[p].snap]
    /\ begun' = [begun EXCEPT ![s] = mem[p].snap]
    /\ UNCHANGED <<feed, cursor, lock>>

Submitted(p) ==
    /\ NonePending
    /\ Move(p, "submitting", "rules")
    /\ UNCHANGED <<feed, cursor, swapVars, lock, mem, seen, begun>>

\* Mutant: a pair whose swap is pending is evaluated again.
SubmissionPendingRetried(p) ==
    /\ ~NonePending
    /\ pc[p] = "submitting"
    /\ Return(p, "handling", mem[p].todo)
    /\ UNCHANGED <<feed, cursor, swapVars, seen, begun>>

\* Mutant: the watcher waits inside the evaluation.
SubmissionPendingLocked(p) ==
    /\ ~NonePending
    /\ Move(p, "submitting", IF p \in Watchers THEN "waiting" ELSE "ready")
    /\ UNCHANGED <<feed, cursor, swapVars, lock, mem, seen, begun>>

\* submission_pending: the remaining rules of the pair are left out, and the event
\* is not evaluated for the pair again.
SubmissionPending(p) ==
    /\ ~NonePending
    /\ pc[p] = "submitting"
    /\ Return(p, "waiting", mem[p].todo \ {mem[p].pair})
    /\ UNCHANGED <<feed, cursor, swapVars, seen, begun>>

\* _wait_for_execution returns.
Waited(w) ==
    /\ NonePending /\ lock = Nobody
    /\ Move(w, "waiting", "handling")
    /\ UNCHANGED <<feed, cursor, swapVars, lock, mem, seen, begun>>

PairDone(p) ==
    /\ pc[p] = "rules" /\ mem[p].left = {}
    /\ Return(p, "handling", mem[p].todo \ {mem[p].pair})
    /\ UNCHANGED <<feed, cursor, swapVars, seen, begun>>

Evaluate(p) ==
    \/ Reconcile(p) \/ RecoveryPending(p) \/ Snapshot(p)
    \/ ResolveUncertain(p) \/ SkipRule(p) \/ (\E s \in Swaps : BeginTrade(p, s))
    \/ Submitted(p) \/ SubmissionPending(p) \/ PairDone(p)

Watch(w) == Start(w) \/ Receive(w) \/ SaveCursor(w) \/ Admit(w) \/ Waited(w)

Next ==
    \/ StrangerTrades \/ (\E s \in Swaps : SwapExecutes(s)) \/ Recover
    \/ \E w \in Watchers : Watch(w)
    \/ \E c \in Callers, pair \in Pairs : Call(c, pair)
    \/ \E p \in Procs : Evaluate(p) \/ Fail(p)

Spec == Init /\ [][Next]_vars

\* The event loops keep running, a poll finds the lock free and the node
\* answering in the end, and processes stop failing.
Fairness ==
    /\ \A p \in Procs : WF_vars(Evaluate(p))
    /\ \A w \in Watchers : WF_vars(Watch(w)) /\ SF_vars(Admit(w)) /\ SF_vars(Waited(w))
    /\ SF_vars(Recover)
    /\ <>[][\A p \in Procs : ~Fail(p)]_vars

FairSpec == Spec /\ Fairness

-----------------------------------------------------------------------------
(* Properties *)

Concerns(e, u) == feed[e] \in {AnyPair, PairOf[u]}

\* Rule u decided on a state that includes event e, or an earlier rule of its
\* pair opened a swap on such a state.
Reached(u, e) ==
    \/ e <= seen[u]
    \/ \E s \in Swaps : /\ owner[s] \in RulesOf(PairOf[u]) /\ owner[s] < u
                        /\ e <= begun[s]

\* "Busy or deferred event evaluations retry before cursor advancement": the
\* cursor passes an event only when each rule it concerns has reached it, or was
\* passed over behind the swap of an earlier rule of its pair, whatever crashes,
\* lock conflicts and second workers come in between.  _watch_events,
\* _evaluate_event_pair, _evaluate_pair_locked.
NoEventPassedOver ==
    \A e \in 1..cursor, u \in Rules : Concerns(e, u) => Reached(u, e)

\* "Cursor writes cannot move backward", with two workers at different events.
CursorNeverBack == [][cursor <= cursor']_vars

\* A watcher whose rule opened a swap for an event does not come to evaluate the
\* rule for that event again: "Reconcile it, without evaluating the same event
\* into another signed swap."
OneSwapPerEvent == \A w \in Watchers : mem[w].left \cap mem[w].made = {}

\* Every event reaches the rules it concerns in the end, since what a rule has
\* reached it keeps: no lock holder, pending swap, recovery or other worker stops
\* the feed for good.
EveryEventArrives ==
    []<>(\A e \in DOMAIN feed, u \in Rules : Concerns(e, u) => Reached(u, e))
=============================================================================
