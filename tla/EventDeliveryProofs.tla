------------------------ MODULE EventDeliveryProofs ------------------------
(***************************************************************************)
(* Proofs about EventDelivery, for any number of workers, callers, rules,  *)
(* pairs, swaps and events.                                                *)
(***************************************************************************)
EXTENDS EventDelivery, SequenceTheorems, TLAPS

USE DeliveryAssumption

\* The parts of the type invariant that an evaluation touches.
PlacesOK ==
    /\ lock \in Procs \cup {Nobody} /\ \A p \in Procs : pc[p] \in Inside <=> lock = p
    /\ pc \in [Procs -> Outside \cup Inside]

LEMMA BlankIsMemory == Blank \in Memory
  BY DEF Blank, At, Memory

LEMMA AtIsMemory ==
    ASSUME NEW event \in Nat, NEW todo \in SUBSET Pairs, NEW made \in SUBSET Rules
    PROVE  At(event, todo, made) \in Memory
  BY DEF At, Memory

\* Changing one field keeps a memory a memory.
LEMMA FieldChanges ==
    ASSUME NEW m \in Memory
    PROVE  /\ \A pair \in Pairs : [m EXCEPT !.pair = pair] \in Memory
           /\ \A left \in SUBSET Rules : [m EXCEPT !.left = left] \in Memory
           /\ \A made \in SUBSET Rules : [m EXCEPT !.made = made] \in Memory
           /\ \A n \in Nat : [m EXCEPT !.snap = n] \in Memory
  BY DEF Memory

LEMMA HomeIsOutside == \A p \in Procs : Home(p) \in Outside /\ Home(p) \notin Inside
  BY DEF Home, Outside, Inside

LEMMA TypeInit == Init => TypeOK
  <1> SUFFICES ASSUME Init PROVE TypeOK
    OBVIOUS
  <1>1. Swap!TypeOK
    BY Zenon DEF Init, Swap!Init, Swap!TypeOK
  <1>2. feed \in Seq(Labels \cup Pairs) /\ cursor \in Nat
    BY DEF Init
  <1>3. mem \in [Procs -> Memory]
    BY BlankIsMemory DEF Init
  <1>4. PlacesOK
    BY HomeIsOutside DEF Init, PlacesOK, Procs
  <1> QED
    BY <1>1, <1>2, <1>3, <1>4 DEF Init, TypeOK, PlacesOK

\* What the steps of the swaps do to their types.
LEMMA AnswerTypes ==
    ASSUME Swap!TypeOK, NEW s \in Swaps, Answer(s)
    PROVE  /\ Swap!TypeOK' /\ owner' = owner
           /\ \A t \in Swaps : ledger'[t] = "none" <=> ledger[t] = "none"
  BY DEF Swap!TypeOK, Answer, Swap!Settle, Swap!Refuse, Swap!Park, Swap!Unsettled

\* Nothing but its own evaluation moves a process in or out.
LEMMA MoveOutside ==
    ASSUME PlacesOK, NEW p \in Procs, NEW from \in Outside, NEW to \in Outside,
           Move(p, from, to), lock' = lock
    PROVE  PlacesOK'
  BY DEF PlacesOK, Move, Outside, Inside

LEMMA MoveInside ==
    ASSUME PlacesOK, NEW p \in Procs, NEW from \in Inside, NEW to \in Inside,
           Move(p, from, to), lock' = lock
    PROVE  PlacesOK'
  BY DEF PlacesOK, Move, Outside, Inside

LEMMA EnterPlaces ==
    ASSUME PlacesOK, NEW p \in Procs, NEW from \in Outside,
           Enter(p), Move(p, from, "reconciling")
    PROVE  PlacesOK'
  BY DEF PlacesOK, Move, Enter, Outside, Inside, Procs

LEMMA ReturnPlaces ==
    ASSUME PlacesOK, mem \in [Procs -> Memory], NEW p \in Procs, pc[p] \in Inside,
           NEW to \in {"handling", "waiting"}, NEW todo \in SUBSET Pairs, Return(p, to, todo)
    PROVE  PlacesOK' /\ mem' \in [Procs -> Memory]
  <1>1. PlacesOK'
    <2>1. pc' = [pc EXCEPT ![p] = IF p \in Watchers THEN to ELSE "ready"] /\ lock' = Nobody
      BY DEF Return
    <2>2. (IF p \in Watchers THEN to ELSE "ready") \in Outside
      BY DEF Outside
    <2> QED
      BY <2>1, <2>2 DEF PlacesOK, Outside, Inside
  <1>2. At(mem[p].event, todo, mem[p].made) \in Memory
    <2>1. mem[p].event \in Nat /\ mem[p].made \in SUBSET Rules
      BY DEF Memory
    <2> QED
      BY <2>1, AtIsMemory
  <1>3. mem' \in [Procs -> Memory]
    BY <1>2, BlankIsMemory DEF Return
  <1> QED
    BY <1>1, <1>3

\* TypeOK in the pieces that the actions leave alone or rebuild.
LEMMA TypePieces ==
    TypeOK <=> /\ feed \in Seq(Labels \cup Pairs) /\ cursor \in Nat
               /\ Swap!TypeOK /\ PlacesOK /\ mem \in [Procs -> Memory]
               /\ seen \in [Rules -> Nat] /\ begun \in [Swaps -> Nat]
  BY DEF TypeOK, PlacesOK

\* A swap has an owner from the moment it is opened.
Opened == \A s \in Swaps : owner[s] = NoRule <=> ledger[s] = "none"

LEMMA SameSwaps ==
    ASSUME TypeOK, Opened, UNCHANGED swapVars
    PROVE  Swap!TypeOK' /\ Opened'
  BY DEF TypeOK, Opened, swapVars, Swap!TypeOK

\* The feed grows by one event of the right kind at a time.
LEMMA FeedGrows ==
    ASSUME TypeOK, Opened, StrangerTrades \/ (\E s \in Swaps : SwapExecutes(s)) \/ Recover
    PROVE  feed' = feed \/ \E label \in Labels \cup Pairs : feed' = Append(feed, label)
  <1>1. CASE \E s \in Swaps : SwapExecutes(s)
    <2>1. PICK s \in Swaps : SwapExecutes(s)
      BY <1>1
    <2>2. owner[s] \in Rules
      BY <2>1 DEF SwapExecutes, Swap!Execute, Opened, TypeOK, Swap!TypeOK
    <2>3. PairOf[owner[s]] \in Pairs
      BY <2>2
    <2>4. \/ feed' = feed
          \/ AnyPair \in Labels /\ feed' = Append(feed, AnyPair)
          \/ feed' = Append(feed, PairOf[owner[s]])
      BY <2>1 DEF SwapExecutes
    <2> QED
      BY <2>3, <2>4, Zenon
  <1>2. CASE StrangerTrades
    BY <1>2 DEF StrangerTrades
  <1>3. CASE Recover
    BY <1>3 DEF Recover
  <1> QED
    BY <1>1, <1>2, <1>3

LEMMA ChainTypes ==
    ASSUME TypeOK, Opened, StrangerTrades \/ (\E s \in Swaps : SwapExecutes(s)) \/ Recover
    PROVE  TypeOK' /\ Opened'
  <1>1. CASE StrangerTrades
    <2>1. PICK label \in Labels : feed' = Append(feed, label)
      BY <1>1 DEF StrangerTrades
    <2>2. feed' \in Seq(Labels \cup Pairs)
      BY <2>1 DEF TypeOK
    <2> QED
      BY <1>1, <2>2, SameSwaps DEF StrangerTrades, TypeOK
  <1>2. CASE \E s \in Swaps : SwapExecutes(s)
    <2>1. PICK s \in Swaps : SwapExecutes(s)
      BY <1>2
    <2>2. ledger[s] = "pending" /\ Swap!TypeOK' /\ UNCHANGED <<ledger, owner>>
      BY <2>1 DEF SwapExecutes, Swap!Execute, TypeOK, Swap!TypeOK
    <2>3. feed' \in Seq(Labels \cup Pairs)
      <3>1. CASE \E label \in Labels \cup Pairs : feed' = Append(feed, label)
        <4>1. PICK label \in Labels \cup Pairs : feed' = Append(feed, label)
          BY <3>1
        <4> QED
          BY <4>1 DEF TypeOK
      <3> QED
        BY <1>2, <3>1, FeedGrows DEF TypeOK
    <2>4. UNCHANGED <<cursor, lock, pc, mem, seen, begun>>
      BY <2>1 DEF SwapExecutes
    <2> QED
      BY <2>2, <2>3, <2>4 DEF TypeOK, Opened
  <1>3. CASE Recover
    <2>1. PICK s \in Swaps : Answer(s)
      BY <1>3 DEF Recover
    <2>2. Swap!TypeOK' /\ Opened'
      BY <2>1, AnswerTypes DEF TypeOK, Opened
    <2> QED
      BY <1>3, <2>2 DEF Recover, TypeOK
  <1> QED
    BY <1>1, <1>2, <1>3

LEMMA WatchTypes ==
    ASSUME TypeOK, Opened, NEW w \in Watchers, Watch(w)
    PROVE  TypeOK' /\ Opened'
  <1>0. w \in Procs /\ PlacesOK
    BY DEF Procs, TypeOK, PlacesOK
  <1>1. CASE Start(w)
    <2>1. PlacesOK'
      BY <1>0, <1>1, MoveOutside DEF Start, Outside
    <2>2. mem' \in [Procs -> Memory]
      BY <1>1, AtIsMemory DEF Start, TypeOK
    <2> QED
      BY <1>1, <2>1, <2>2, SameSwaps DEF Start, TypeOK, PlacesOK
  <1>2. CASE Receive(w)
    <2>1. PlacesOK'
      BY <1>0, <1>2, MoveOutside DEF Receive, Outside
    <2>2. mem[w].event \in Nat /\ mem[w].event + 1 \in 1..Len(feed)
      BY <1>0, <1>2 DEF Receive, TypeOK, Memory
    <2>3. PairsOfEvent(feed[mem[w].event + 1]) \in SUBSET Pairs
      <3>1. feed[mem[w].event + 1] \in Labels \cup Pairs
        BY <2>2 DEF TypeOK
      <3> QED
        BY <3>1 DEF PairsOfEvent
    <2>4. mem' \in [Procs -> Memory]
      <3>1. At(mem[w].event + 1, PairsOfEvent(feed[mem[w].event + 1]), {}) \in Memory
        BY <2>2, <2>3, AtIsMemory
      <3> QED
        BY <1>2, <3>1 DEF Receive, TypeOK
    <2> QED
      BY <1>2, <2>1, <2>4, SameSwaps DEF Receive, TypeOK, PlacesOK
  <1>3. CASE SaveCursor(w)
    <2>1. PlacesOK'
      BY <1>0, <1>3, MoveOutside DEF SaveCursor, Outside
    <2>2. mem' \in [Procs -> Memory]
      <3>1. [mem[w] EXCEPT !.made = {}] \in Memory
        BY <1>0, FieldChanges DEF TypeOK
      <3> QED
        BY <1>3, <3>1 DEF SaveCursor, TypeOK
    <2>3. cursor' \in Nat
      BY <1>0, <1>3 DEF SaveCursor, TypeOK, Memory
    <2> QED
      BY <1>3, <2>1, <2>2, <2>3, SameSwaps DEF SaveCursor, TypeOK, PlacesOK
  <1>4. CASE Admit(w)
    <2>1. PlacesOK'
      BY <1>0, <1>4, EnterPlaces DEF Admit, Outside
    <2>2. PICK pair \in mem[w].todo : mem' = [mem EXCEPT ![w].pair = pair]
      BY <1>4 DEF Admit
    <2>3. mem' \in [Procs -> Memory]
      <3>1. pair \in Pairs
        BY <1>0, <2>2 DEF TypeOK, Memory
      <3>2. [mem[w] EXCEPT !.pair = pair] \in Memory
        BY <1>0, <3>1, FieldChanges DEF TypeOK
      <3> QED
        BY <2>2, <3>2 DEF TypeOK
    <2> QED
      BY <1>4, <2>1, <2>3, SameSwaps DEF Admit, TypeOK, PlacesOK
  <1>5. CASE Waited(w)
    <2>1. PlacesOK'
      BY <1>0, <1>5, MoveOutside DEF Waited, Outside
    <2> QED
      BY <1>5, <2>1, SameSwaps DEF Waited, TypeOK, PlacesOK
  <1> QED
    BY <1>1, <1>2, <1>3, <1>4, <1>5 DEF Watch

LEMMA CallTypes ==
    ASSUME TypeOK, Opened, NEW c \in Callers, NEW pair \in Pairs, Call(c, pair)
    PROVE  TypeOK' /\ Opened'
  <1>0. c \in Procs /\ PlacesOK
    BY DEF Procs, TypeOK, PlacesOK
  <1>1. PlacesOK'
    BY <1>0, EnterPlaces DEF Call, Outside
  <1>2. mem' \in [Procs -> Memory]
    <2>1. [mem[c] EXCEPT !.pair = pair] \in Memory
      BY <1>0, FieldChanges DEF TypeOK
    <2> QED
      BY <2>1 DEF Call, TypeOK
  <1> QED
    BY <1>1, <1>2, SameSwaps DEF Call, TypeOK, PlacesOK

LEMMA FailTypes ==
    ASSUME TypeOK, Opened, NEW p \in Procs, Fail(p)
    PROVE  TypeOK' /\ Opened'
  <1>1. PlacesOK'
    BY HomeIsOutside DEF Fail, TypeOK, PlacesOK
  <1>2. mem' \in [Procs -> Memory]
    BY BlankIsMemory DEF Fail, TypeOK
  <1> QED
    BY <1>1, <1>2, SameSwaps DEF Fail, TypeOK, PlacesOK

LEMMA EvaluateTypes ==
    ASSUME TypeOK, Opened, NEW p \in Procs, Evaluate(p)
    PROVE  TypeOK' /\ Opened'
  <1>0. PlacesOK
    BY DEF TypeOK, PlacesOK
  <1>1. CASE Reconcile(p)
    <2>1. PICK s \in Swaps : Answer(s)
      BY <1>1 DEF Reconcile
    <2>2. Swap!TypeOK' /\ Opened'
      BY <2>1, AnswerTypes DEF TypeOK, Opened
    <2> QED
      BY <1>1, <2>2 DEF Reconcile, TypeOK
  <1>2. ASSUME NEW to \in {"handling", "waiting"}, NEW todo \in SUBSET Pairs, Return(p, to, todo),
               pc[p] \in Inside, UNCHANGED <<feed, cursor, swapVars, seen, begun>>
        PROVE  TypeOK' /\ Opened'
    <2>1. PlacesOK' /\ mem' \in [Procs -> Memory]
      BY <1>0, <1>2, ReturnPlaces DEF TypeOK
    <2> QED
      BY <1>2, <2>1, SameSwaps DEF TypeOK, PlacesOK
  <1>3. mem[p].todo \in SUBSET Pairs /\ mem[p].todo \ {mem[p].pair} \in SUBSET Pairs
    BY DEF TypeOK, Memory
  <1>4. CASE RecoveryPending(p)
    BY <1>2, <1>3, <1>4 DEF RecoveryPending, Inside
  <1>5. CASE SubmissionPending(p)
    BY <1>2, <1>3, <1>5 DEF SubmissionPending, Inside
  <1>6. CASE PairDone(p)
    BY <1>2, <1>3, <1>6 DEF PairDone, Inside
  <1>7. CASE Snapshot(p)
    <2>1. PlacesOK'
      BY <1>0, <1>7, MoveInside DEF Snapshot, Inside
    <2>2. Len(feed) \in Nat /\ RulesOf(mem[p].pair) \in SUBSET Rules
      BY DEF TypeOK, RulesOf
    <2>3. mem' \in [Procs -> Memory]
      <3>1. [mem[p] EXCEPT !.snap = Len(feed)] \in Memory
        BY <2>2, FieldChanges DEF TypeOK
      <3>2. [[mem[p] EXCEPT !.snap = Len(feed)] EXCEPT !.left = RulesOf(mem[p].pair)] \in Memory
        BY <2>2, <3>1, FieldChanges
      <3> QED
        BY <1>7, <3>2 DEF Snapshot, TypeOK
    <2> QED
      BY <1>7, <2>1, <2>3, SameSwaps DEF Snapshot, TypeOK, PlacesOK
  <1>8. CASE ResolveUncertain(p)
    <2>1. PICK s \in Swaps : Swap!Settle(s)
      BY <1>8 DEF ResolveUncertain
    <2>2. Swap!TypeOK' /\ Opened'
      BY <2>1 DEF TypeOK, Opened, Swap!TypeOK, Swap!Settle, Swap!Unsettled
    <2> QED
      BY <1>8, <2>2 DEF ResolveUncertain, TypeOK
  <1>9. CASE SkipRule(p)
    <2>1. PICK u \in mem[p].left : /\ mem' = [mem EXCEPT ![p].left = @ \ {u}]
                                   /\ seen' = [seen EXCEPT ![u] = mem[p].snap]
      BY <1>9 DEF SkipRule
    <2>2. mem[p].left \in SUBSET Rules /\ mem[p].snap \in Nat
      BY DEF TypeOK, Memory
    <2>3. [mem[p] EXCEPT !.left = @ \ {u}] \in Memory
      BY <2>2, FieldChanges DEF TypeOK
    <2>4. mem' \in [Procs -> Memory] /\ seen' \in [Rules -> Nat]
      BY <2>1, <2>2, <2>3 DEF TypeOK
    <2> QED
      BY <1>9, <2>4, SameSwaps DEF SkipRule, TypeOK
  <1>10. CASE \E s \in Swaps : BeginTrade(p, s)
    <2>1. PICK s \in Swaps : BeginTrade(p, s)
      BY <1>10
    <2>2. PlacesOK'
      BY <1>0, <2>1, MoveInside DEF BeginTrade, Inside
    <2>3. PICK u \in mem[p].left :
             /\ Swap!Begin(s, u)
             /\ mem' = [mem EXCEPT ![p].left = @ \ {u}, ![p].made = @ \cup {u}]
             /\ seen' = [seen EXCEPT ![u] = mem[p].snap]
      BY <2>1 DEF BeginTrade
    <2>4. /\ u \in Rules /\ mem[p].snap \in Nat
          /\ mem[p].left \in SUBSET Rules /\ mem[p].made \in SUBSET Rules
      BY DEF TypeOK, Memory
    <2>5. mem' \in [Procs -> Memory] /\ seen' \in [Rules -> Nat]
      <3>1. [mem[p] EXCEPT !.left = @ \ {u}] \in Memory
        BY <2>4, FieldChanges DEF TypeOK
      <3>2. [[mem[p] EXCEPT !.left = @ \ {u}] EXCEPT !.made = mem[p].made \cup {u}] \in Memory
        BY <2>4, <3>1, FieldChanges
      <3>3. mem' = [mem EXCEPT ![p] = [[mem[p] EXCEPT !.left = @ \ {u}]
                                         EXCEPT !.made = mem[p].made \cup {u}]]
        BY <2>3 DEF TypeOK, Memory
      <3> QED
        BY <2>3, <2>4, <3>2, <3>3 DEF TypeOK
    <2>6. begun' \in [Swaps -> Nat]
      BY <2>1, <2>4 DEF BeginTrade, TypeOK
    <2>7. Swap!TypeOK' /\ Opened'
      BY <2>3, <2>4 DEF Swap!Begin, TypeOK, Opened, Swap!TypeOK
    <2> QED
      BY <2>1, <2>2, <2>5, <2>6, <2>7 DEF BeginTrade, TypeOK, PlacesOK
  <1>11. CASE Submitted(p)
    <2>1. PlacesOK'
      BY <1>0, <1>11, MoveInside DEF Submitted, Inside
    <2> QED
      BY <1>11, <2>1, SameSwaps DEF Submitted, TypeOK, PlacesOK
  <1> QED
    BY <1>1, <1>4, <1>5, <1>6, <1>7, <1>8, <1>9, <1>10, <1>11 DEF Evaluate

LEMMA TypeNext == TypeOK /\ Opened /\ [Next]_vars => TypeOK' /\ Opened'
  <1> SUFFICES ASSUME TypeOK, Opened, [Next]_vars PROVE TypeOK' /\ Opened'
    OBVIOUS
  <1>1. CASE Next
    BY <1>1, ChainTypes, WatchTypes, CallTypes, EvaluateTypes, FailTypes DEF Next
  <1>2. CASE UNCHANGED vars
    BY <1>2, SameSwaps DEF vars, TypeOK
  <1> QED
    BY <1>1, <1>2

LEMMA OpenedInit == Init => Opened
  BY DEF Init, Opened, Swap!Init

\* The variables keep their types, a process is inside an evaluation exactly while
\* it holds the lock.
THEOREM DeliveryTypes == Spec => []TypeOK
  <1>1. Init => TypeOK /\ Opened
    BY TypeInit, OpenedInit
  <1>2. TypeOK /\ Opened /\ [Next]_vars => TypeOK' /\ Opened'
    BY TypeNext
  <1> QED
    BY <1>1, <1>2, PTL DEF Spec

-----------------------------------------------------------------------------

\* The events of a process lie in the feed, and what the rules decided on too.
Positions ==
    /\ cursor <= Len(feed)
    /\ \A p \in Procs : mem[p].event <= Len(feed)
    /\ \A u \in Rules : seen[u] <= Len(feed)

\* Where a process stands, all rules reached the events before its own, and for
\* its own event those of the pairs that are done.
Caught(p) ==
    \A e \in 1..mem[p].event, u \in Rules :
        Concerns(e, u) =>
            Reached(u, e) \/ (e = mem[p].event /\ PairOf[u] \in mem[p].todo)

\* In an evaluation the rules that are not left reached the state of the snapshot,
\* and once a swap is opened the rules that are left come after its rule.
Looking(p) ==
    pc[p] \in {"rules", "submitting"} =>
        /\ mem[p].event <= mem[p].snap /\ mem[p].snap <= Len(feed)
        /\ \A u \in Rules : seen[u] <= mem[p].snap
        /\ mem[p].left \subseteq RulesOf(mem[p].pair)
        /\ \A u \in RulesOf(mem[p].pair) \ mem[p].left : Reached(u, mem[p].snap)
        /\ pc[p] = "submitting" =>
             \E s \in Swaps : /\ owner[s] \in RulesOf(mem[p].pair)
                              /\ begun[s] = mem[p].snap
                              /\ \A u \in mem[p].left : owner[s] < u

\* A rule that opened a swap for the event has its pair done, or is done itself
\* in the evaluation of its pair.
Once(p) ==
    /\ p \in Watchers =>
         /\ pc[p] = "watching" => mem[p].todo = {}
         /\ pc[p] \in Inside => mem[p].pair \in mem[p].todo
         /\ mem[p].left \cap mem[p].made = {}
         /\ \A u \in mem[p].made :
              PairOf[u] \in mem[p].todo =>
                pc[p] \in {"rules", "submitting"} /\ PairOf[u] = mem[p].pair
    /\ pc[p] \notin {"rules", "submitting"} => mem[p].left = {}

IInv ==
    /\ TypeOK /\ Opened /\ Positions /\ NoEventPassedOver
    /\ \A p \in Procs : Caught(p) /\ Looking(p) /\ Once(p)

\* What every step does to the feed and the histories.
Grows ==
    /\ Len(feed) <= Len(feed')
    /\ \A e \in 1..Len(feed) : feed'[e] = feed[e]
    /\ \A u \in Rules : seen[u] <= seen'[u]
    /\ \A s \in Swaps : owner[s] \in Rules => owner'[s] = owner[s] /\ begun'[s] = begun[s]

\* A rule stays where it got to.
LEMMA ReachedGrows ==
    ASSUME TypeOK, TypeOK', Grows, NEW u \in Rules, NEW e \in Nat, Reached(u, e)
    PROVE  Reached(u, e)'
  <1>1. CASE e <= seen[u]
    <2>1. seen[u] \in Nat /\ seen'[u] \in Nat /\ seen[u] <= seen'[u]
      BY DEF TypeOK, Grows
    <2> QED
      BY <1>1, <2>1 DEF Reached
  <1>2. CASE \E s \in Swaps : owner[s] \in RulesOf(PairOf[u]) /\ owner[s] < u /\ e <= begun[s]
    <2>1. PICK s \in Swaps : owner[s] \in RulesOf(PairOf[u]) /\ owner[s] < u /\ e <= begun[s]
      BY <1>2
    <2>2. owner'[s] = owner[s] /\ begun'[s] = begun[s]
      BY <2>1 DEF RulesOf, Grows
    <2> QED
      BY <2>1, <2>2 DEF Reached, RulesOf
  <1> QED
    BY <1>1, <1>2 DEF Reached

LEMMA SameHistory ==
    ASSUME UNCHANGED <<feed, seen, owner, begun>>, TypeOK
    PROVE  Grows
  <1>1. Len(feed) \in Nat /\ \A u \in Rules : seen[u] \in Nat
    BY DEF TypeOK
  <1> QED
    BY <1>1 DEF Grows

LEMMA CaughtFrame ==
    ASSUME IInv, TypeOK', Grows, NEW p \in Procs,
           mem'[p].event = mem[p].event, mem'[p].todo = mem[p].todo
    PROVE  Caught(p)'
  <1>1. SUFFICES ASSUME NEW e \in 1..mem[p].event, NEW u \in Rules, Concerns(e, u)'
                 PROVE  Reached(u, e)' \/ (e = mem[p].event /\ PairOf[u] \in mem[p].todo)
    BY DEF Caught
  <1>2. e \in 1..Len(feed) /\ e \in Nat
    BY DEF IInv, TypeOK, Memory, Positions
  <1>3. Concerns(e, u)
    BY <1>1, <1>2 DEF Concerns, Grows
  <1>4. Reached(u, e) \/ (e = mem[p].event /\ PairOf[u] \in mem[p].todo)
    BY <1>3 DEF IInv, Caught
  <1> QED
    BY <1>2, <1>4, ReachedGrows DEF IInv

\* A step that leaves a process where it is keeps what holds there.
LEMMA Frame ==
    ASSUME IInv, TypeOK', Grows, NEW p \in Procs, pc'[p] = pc[p], mem'[p] = mem[p],
           pc[p] \in {"rules", "submitting"} => seen' = seen
    PROVE  Caught(p)' /\ Looking(p)' /\ Once(p)'
  <1>0. /\ mem[p].event \in Nat /\ mem[p].snap \in Nat /\ mem[p].left \in SUBSET Rules
        /\ mem[p].event <= Len(feed) /\ Len(feed) \in Nat /\ Len(feed') \in Nat
    BY DEF IInv, TypeOK, Memory, Positions
  <1>1. Caught(p)'
    BY CaughtFrame
  <1>2. Looking(p)'
    <2>1. SUFFICES ASSUME pc[p] \in {"rules", "submitting"}
                   PROVE  Looking(p)'
      BY DEF Looking
    <2>2. Looking(p) /\ seen' = seen
      BY <2>1 DEF IInv
    <2>3. mem[p].snap <= Len(feed')
      BY <1>0, <2>1, <2>2 DEF Looking, Grows
    <2>4. \A u \in RulesOf(mem[p].pair) \ mem[p].left : Reached(u, mem[p].snap)'
      BY <1>0, <2>1, <2>2, ReachedGrows DEF Looking, RulesOf, IInv
    <2>5. ASSUME pc[p] = "submitting"
          PROVE  \E s \in Swaps : /\ owner'[s] \in RulesOf(mem[p].pair)
                                  /\ begun'[s] = mem[p].snap
                                  /\ \A u \in mem[p].left : owner'[s] < u
      <3>1. PICK s \in Swaps : /\ owner[s] \in RulesOf(mem[p].pair)
                               /\ begun[s] = mem[p].snap
                               /\ \A u \in mem[p].left : owner[s] < u
        BY <2>2, <2>5 DEF Looking
      <3>2. owner'[s] = owner[s] /\ begun'[s] = begun[s]
        BY <3>1 DEF Grows, RulesOf
      <3> QED
        BY <3>1, <3>2
    <2> QED
      BY <1>0, <2>1, <2>2, <2>3, <2>4, <2>5 DEF Looking, RulesOf
  <1>3. Once(p)'
    BY DEF IInv, Once
  <1> QED
    BY <1>1, <1>2, <1>3

\* The same for the cursor.
LEMMA CursorFrame ==
    ASSUME IInv, TypeOK', Grows, cursor' = cursor
    PROVE  NoEventPassedOver'
  <1>1. SUFFICES ASSUME NEW e \in 1..cursor, NEW u \in Rules, Concerns(e, u)'
                 PROVE  Reached(u, e)'
    BY DEF NoEventPassedOver
  <1>2. e \in 1..Len(feed) /\ e \in Nat
    BY DEF IInv, Positions, TypeOK
  <1>3. Concerns(e, u)
    BY <1>1, <1>2 DEF Concerns, Grows
  <1> QED
    BY <1>2, <1>3, ReachedGrows DEF IInv, NoEventPassedOver

LEMMA ReachedDown ==
    ASSUME TypeOK, NEW u \in Rules, NEW n \in Nat, NEW e \in Nat, e <= n, Reached(u, n)
    PROVE  Reached(u, e)
  BY DEF TypeOK, Reached

\* A step in which no process moves.
LEMMA StillStep ==
    ASSUME IInv, TypeOK', Opened', Grows, UNCHANGED <<cursor, pc, mem, seen>>
    PROVE  IInv'
  <1>1. Len(feed) \in Nat /\ Len(feed') \in Nat /\ cursor \in Nat
        /\ (\A p \in Procs : mem[p].event \in Nat) /\ (\A u \in Rules : seen[u] \in Nat)
    BY DEF IInv, TypeOK, Memory
  <1>2. Positions'
    BY <1>1 DEF IInv, Positions, Grows
  <1>3. \A p \in Procs : Caught(p)' /\ Looking(p)' /\ Once(p)'
    BY Frame
  <1> QED
    BY <1>2, <1>3, CursorFrame DEF IInv

\* A step of one process that leaves the feed alone.
LEMMA ProcessStep ==
    ASSUME IInv, TypeOK', Opened', Grows, NEW p \in Procs,
           UNCHANGED feed, NoEventPassedOver', Positions',
           \A q \in Procs \ {p} : pc'[q] = pc[q] /\ mem'[q] = mem[q],
           pc[p] \in Inside \/ seen' = seen,
           Caught(p)' /\ Looking(p)' /\ Once(p)'
    PROVE  IInv'
  <1>1. \A q \in Procs \ {p} : pc[q] \in {"rules", "submitting"} => seen' = seen
    BY DEF IInv, TypeOK, Inside
  <1>2. \A q \in Procs \ {p} : Caught(q)' /\ Looking(q)' /\ Once(q)'
    BY <1>1, Frame
  <1> QED
    BY <1>2 DEF IInv

\* A process step that leaves the cursor and the histories alone.
LEMMA PlainStep ==
    ASSUME IInv, TypeOK', Opened', NEW p \in Procs,
           UNCHANGED <<feed, cursor, owner, seen, begun>>,
           \A q \in Procs \ {p} : pc'[q] = pc[q] /\ mem'[q] = mem[q],
           mem'[p].event <= Len(feed), Caught(p)' /\ Looking(p)' /\ Once(p)'
    PROVE  IInv'
  <1>1. Grows
    BY SameHistory DEF IInv
  <1>2. Positions'
    BY DEF IInv, Positions
  <1> QED
    BY <1>1, <1>2, CursorFrame, ProcessStep

LEMMA ChainInv ==
    ASSUME IInv, TypeOK', Opened', StrangerTrades \/ (\E s \in Swaps : SwapExecutes(s)) \/ Recover
    PROVE  IInv'
  <1>1. UNCHANGED <<cursor, owner, pc, mem, seen, begun>>
    BY DEF StrangerTrades, swapVars, SwapExecutes, Swap!Execute, Recover, Answer,
           Swap!Settle, Swap!Refuse, Swap!Park
  <1>2. Len(feed) <= Len(feed') /\ \A e \in 1..Len(feed) : feed'[e] = feed[e]
    <2>1. feed' = feed \/ \E label \in Labels \cup Pairs : feed' = Append(feed, label)
      BY FeedGrows DEF IInv
    <2> QED
      BY <2>1 DEF IInv, TypeOK
  <1>3. Grows
    BY <1>1, <1>2 DEF Grows, IInv, TypeOK
  <1> QED
    BY <1>1, <1>3, StillStep

LEMMA StartInv ==
    ASSUME IInv, TypeOK', Opened', NEW w \in Watchers, Start(w)
    PROVE  IInv'
  <1>0. w \in Procs
    BY DEF Procs
  <1>1. mem'[w] = At(cursor, {}, {}) /\ pc'[w] = "watching"
    BY <1>0 DEF Start, Move, IInv, TypeOK
  <1>2. Caught(w)'
    BY <1>0, <1>1 DEF Start, IInv, NoEventPassedOver, Caught, At, Concerns, Reached, swapVars
  <1>3. Looking(w)' /\ Once(w)'
    BY <1>1 DEF Looking, Once, At, Inside
  <1>4. mem'[w].event <= Len(feed)
    BY <1>1 DEF At, IInv, Positions
  <1>5. \A q \in Procs \ {w} : pc'[q] = pc[q] /\ mem'[q] = mem[q]
    BY DEF Start, Move, IInv, TypeOK
  <1> QED
    BY <1>0, <1>2, <1>3, <1>4, <1>5, PlainStep DEF Start, swapVars

LEMMA ReceiveInv ==
    ASSUME IInv, TypeOK', Opened', NEW w \in Watchers, Receive(w)
    PROVE  IInv'
  <1> DEFINE next == mem[w].event + 1
  <1>0. w \in Procs /\ mem[w].event \in Nat /\ next <= Len(feed)
    BY DEF Procs, Receive, IInv, TypeOK, Memory
  <1>1. mem'[w] = At(next, PairsOfEvent(feed[next]), {}) /\ pc[w] = "watching" /\ pc'[w] = "handling"
    BY <1>0 DEF Receive, Move, IInv, TypeOK
  <1>2. UNCHANGED <<feed, cursor, owner, seen, begun>>
    BY DEF Receive, swapVars
  <1>3. Caught(w)'
    <2>1. SUFFICES ASSUME NEW e \in 1..next, NEW u \in Rules, Concerns(e, u)
                   PROVE  Reached(u, e) \/ (e = next /\ PairOf[u] \in PairsOfEvent(feed[next]))
      BY <1>1, <1>2 DEF Caught, At, Concerns, Reached
    <2>2. CASE e = next
      BY <2>1, <2>2 DEF Concerns, PairsOfEvent
    <2>3. CASE e # next
      <3>1. e \in 1..mem[w].event
        BY <1>0, <2>3
      <3>2. mem[w].todo = {}
        BY <1>0, <1>1 DEF IInv, Once
      <3> QED
        BY <1>0, <2>1, <3>1, <3>2 DEF IInv, Caught
    <2> QED
      BY <2>2, <2>3
  <1>4. Looking(w)' /\ Once(w)'
    BY <1>1 DEF Looking, Once, At, Inside
  <1>5. mem'[w].event <= Len(feed)
    BY <1>0, <1>1 DEF At
  <1>6. \A q \in Procs \ {w} : pc'[q] = pc[q] /\ mem'[q] = mem[q]
    BY DEF Receive, Move, IInv, TypeOK
  <1> QED
    BY <1>0, <1>2, <1>3, <1>4, <1>5, <1>6, PlainStep

LEMMA SaveCursorInv ==
    ASSUME IInv, TypeOK', Opened', NEW w \in Watchers, SaveCursor(w)
    PROVE  IInv'
  <1>0. w \in Procs /\ mem[w] \in Memory /\ mem[w].event <= Len(feed)
    BY DEF Procs, IInv, TypeOK, Positions
  <1>1. /\ mem'[w] = [mem[w] EXCEPT !.made = {}]
        /\ pc[w] = "handling" /\ pc'[w] = "watching" /\ mem[w].todo = {}
    BY <1>0 DEF SaveCursor, Move, IInv, TypeOK
  <1>2. mem'[w].event = mem[w].event /\ mem'[w].todo = {} /\ mem'[w].made = {} /\ mem'[w].left = mem[w].left
    BY <1>0, <1>1 DEF Memory
  <1>3. UNCHANGED <<feed, owner, seen, begun>> /\ Grows
    BY SameHistory DEF SaveCursor, swapVars, IInv
  <1>4. Caught(w)'
    BY <1>0, <1>1, <1>2, <1>3, CaughtFrame
  <1>5. Looking(w)' /\ Once(w)'
    BY <1>0, <1>1, <1>2 DEF Looking, Once, IInv, Inside
  <1>6. \A q \in Procs \ {w} : pc'[q] = pc[q] /\ mem'[q] = mem[q]
    BY DEF SaveCursor, Move, IInv, TypeOK
  <1>7. cursor' = cursor \/ cursor' = mem[w].event
    BY DEF SaveCursor
  <1>8. NoEventPassedOver'
    <2>1. CASE cursor' = mem[w].event
      <3>1. \A e \in 1..mem[w].event, u \in Rules : Concerns(e, u) => Reached(u, e)
        BY <1>0, <1>1 DEF IInv, Caught
      <3> QED
        BY <1>3, <2>1, <3>1 DEF NoEventPassedOver, Concerns, Reached
    <2> QED
      BY <1>3, <1>7, <2>1, CursorFrame
  <1>9. Positions'
    <2>1. \A p \in Procs : mem'[p].event <= Len(feed)
      BY <1>0, <1>2, <1>6 DEF IInv, Positions
    <2> QED
      BY <1>0, <1>3, <1>7, <2>1 DEF IInv, Positions
  <1> QED
    BY <1>0, <1>3, <1>4, <1>5, <1>6, <1>8, <1>9, ProcessStep

LEMMA AdmitInv ==
    ASSUME IInv, TypeOK', Opened', NEW w \in Watchers, Admit(w)
    PROVE  IInv'
  <1>0. w \in Procs /\ mem[w] \in Memory /\ mem[w].event <= Len(feed)
    BY DEF Procs, IInv, TypeOK, Positions
  <1>1. PICK pair \in mem[w].todo : mem' = [mem EXCEPT ![w].pair = pair]
    BY DEF Admit
  <1>2. pc[w] = "handling" /\ pc'[w] = "reconciling"
    BY <1>0 DEF Admit, Move, IInv, TypeOK
  <1>3. mem'[w] = [mem[w] EXCEPT !.pair = pair]
    BY <1>0, <1>1 DEF IInv, TypeOK
  <1>4. /\ mem'[w].event = mem[w].event /\ mem'[w].todo = mem[w].todo
        /\ mem'[w].made = mem[w].made /\ mem'[w].left = mem[w].left /\ mem'[w].pair = pair
    BY <1>0, <1>3 DEF Memory
  <1>5. UNCHANGED <<feed, cursor, owner, seen, begun>> /\ Grows
    BY SameHistory DEF Admit, swapVars, IInv
  <1>6. Caught(w)'
    BY <1>0, <1>4, <1>5, CaughtFrame
  <1>7. Looking(w)' /\ Once(w)'
    BY <1>0, <1>2, <1>4 DEF Looking, Once, IInv, Inside
  <1>8. \A q \in Procs \ {w} : pc'[q] = pc[q] /\ mem'[q] = mem[q]
    BY <1>1 DEF Admit, Move, IInv, TypeOK
  <1> QED
    BY <1>0, <1>4, <1>5, <1>6, <1>7, <1>8, PlainStep

LEMMA WaitedInv ==
    ASSUME IInv, TypeOK', Opened', NEW w \in Watchers, Waited(w)
    PROVE  IInv'
  <1>0. w \in Procs /\ mem[w].event <= Len(feed)
    BY DEF Procs, IInv, Positions
  <1>1. mem' = mem /\ pc[w] = "waiting" /\ pc'[w] = "handling"
    BY <1>0 DEF Waited, Move, IInv, TypeOK
  <1>2. UNCHANGED <<feed, cursor, owner, seen, begun>> /\ Grows
    BY SameHistory DEF Waited, swapVars, IInv
  <1>3. Caught(w)'
    BY <1>0, <1>1, <1>2, CaughtFrame
  <1>4. Looking(w)' /\ Once(w)'
    BY <1>0, <1>1 DEF Looking, Once, IInv, Inside
  <1>5. \A q \in Procs \ {w} : pc'[q] = pc[q] /\ mem'[q] = mem[q]
    BY <1>1 DEF Waited, Move, IInv, TypeOK
  <1> QED
    BY <1>0, <1>1, <1>2, <1>3, <1>4, <1>5, PlainStep

LEMMA CallInv ==
    ASSUME IInv, TypeOK', Opened', NEW c \in Callers, NEW pair \in Pairs, Call(c, pair)
    PROVE  IInv'
  <1>0. c \in Procs /\ c \notin Watchers /\ mem[c] \in Memory /\ mem[c].event <= Len(feed)
    BY DEF Procs, IInv, TypeOK, Positions
  <1>1. mem'[c] = [mem[c] EXCEPT !.pair = pair] /\ pc[c] = "ready" /\ pc'[c] = "reconciling"
    BY <1>0 DEF Call, Move, IInv, TypeOK
  <1>2. mem'[c].event = mem[c].event /\ mem'[c].todo = mem[c].todo /\ mem'[c].left = mem[c].left
    BY <1>0, <1>1 DEF Memory
  <1>3. UNCHANGED <<feed, cursor, owner, seen, begun>> /\ Grows
    BY SameHistory DEF Call, swapVars, IInv
  <1>4. Caught(c)'
    BY <1>0, <1>2, <1>3, CaughtFrame
  <1>5. Looking(c)' /\ Once(c)'
    BY <1>0, <1>1, <1>2 DEF Looking, Once, IInv
  <1>6. \A q \in Procs \ {c} : pc'[q] = pc[q] /\ mem'[q] = mem[q]
    BY DEF Call, Move, IInv, TypeOK
  <1> QED
    BY <1>0, <1>2, <1>3, <1>4, <1>5, <1>6, PlainStep

LEMMA BlankHolds ==
    ASSUME NEW p \in Procs, mem'[p] = Blank, pc'[p] \in {"starting", "ready"}, TypeOK
    PROVE  Caught(p)' /\ Looking(p)' /\ Once(p)' /\ mem'[p].event <= Len(feed)
  <1>1. /\ mem'[p].event = 0 /\ mem'[p].todo = {} /\ mem'[p].left = {} /\ mem'[p].made = {}
        /\ Len(feed) \in Nat
    BY DEF Blank, At, TypeOK
  <1>2. Caught(p)'
    BY <1>1 DEF Caught
  <1> QED
    BY <1>1, <1>2 DEF Looking, Once, Inside

LEMMA FailInv ==
    ASSUME IInv, TypeOK', Opened', NEW p \in Procs, Fail(p)
    PROVE  IInv'
  <1>1. mem'[p] = Blank /\ pc'[p] \in {"starting", "ready"}
    BY DEF Fail, Home, IInv, TypeOK
  <1>2. \A q \in Procs \ {p} : pc'[q] = pc[q] /\ mem'[q] = mem[q]
    BY DEF Fail, IInv, TypeOK
  <1>3. UNCHANGED <<feed, cursor, owner, seen, begun>>
    BY DEF Fail, swapVars
  <1> QED
    BY <1>1, <1>2, <1>3, BlankHolds, PlainStep DEF IInv

\* An evaluation that returns keeps what its process has caught up with, when the
\* pairs it strikes off are done.
LEMMA ReturnInv ==
    ASSUME IInv, TypeOK', Opened', NEW p \in Procs, pc[p] \in Inside,
           NEW to \in {"handling", "waiting"}, NEW done \in SUBSET {mem[p].pair},
           Return(p, to, mem[p].todo \ done),
           UNCHANGED <<feed, cursor, swapVars, seen, begun>>,
           \A u \in Rules : PairOf[u] \in done => Reached(u, mem[p].event),
           pc[p] = "reconciling" \/ done = {mem[p].pair}
    PROVE  IInv'
  <1> DEFINE todo == mem[p].todo \ done
  <1>0. mem[p] \in Memory /\ mem[p].event \in Nat /\ mem[p].event <= Len(feed)
    BY DEF IInv, TypeOK, Memory, Positions
  <1>1. \A q \in Procs \ {p} : pc'[q] = pc[q] /\ mem'[q] = mem[q]
    BY DEF Return, IInv, TypeOK
  <1>2. UNCHANGED <<feed, cursor, owner, seen, begun>>
    BY DEF swapVars
  <1>3. CASE p \notin Watchers
    <2>1. mem'[p] = Blank /\ pc'[p] = "ready"
      BY <1>3 DEF Return, IInv, TypeOK
    <2> QED
      BY <1>1, <1>2, <2>1, BlankHolds, PlainStep DEF IInv
  <1>4. CASE p \in Watchers
    <2>1. mem'[p] = At(mem[p].event, todo, mem[p].made) /\ pc'[p] = to
      BY <1>4 DEF Return, IInv, TypeOK
    <2>2. /\ mem'[p].event = mem[p].event /\ mem'[p].todo = todo
          /\ mem'[p].left = {} /\ mem'[p].made = mem[p].made
      BY <2>1 DEF At
    <2>3. Caught(p)'
      <3>1. SUFFICES ASSUME NEW e \in 1..mem[p].event, NEW u \in Rules, Concerns(e, u)
                     PROVE  Reached(u, e) \/ (e = mem[p].event /\ PairOf[u] \in todo)
        BY <1>2, <2>2 DEF Caught, Concerns, Reached
      <3>2. Reached(u, e) \/ (e = mem[p].event /\ PairOf[u] \in mem[p].todo)
        BY <3>1 DEF IInv, Caught
      <3> QED
        BY <3>2
    <2>4. Looking(p)'
      BY <2>1 DEF Looking
    <2>5. ASSUME NEW u \in mem[p].made PROVE PairOf[u] \notin todo
      <3>1. PairOf[u] \in mem[p].todo =>
               pc[p] \in {"rules", "submitting"} /\ PairOf[u] = mem[p].pair
        BY <1>4, <2>5 DEF IInv, Once
      <3> QED
        BY <3>1
    <2>6. Once(p)'
      BY <2>1, <2>2, <2>5 DEF Once, Inside
    <2> QED
      BY <1>0, <1>1, <1>2, <2>2, <2>3, <2>4, <2>6, PlainStep
  <1> QED
    BY <1>3, <1>4

\* A pair whose rules are all done, or left out behind a swap of this evaluation.
LEMMA PairReached ==
    ASSUME IInv, NEW p \in Procs, pc[p] = "submitting" \/ (pc[p] = "rules" /\ mem[p].left = {}),
           NEW u \in Rules, PairOf[u] = mem[p].pair
    PROVE  Reached(u, mem[p].event)
  <1>0. /\ mem[p].event \in Nat /\ mem[p].snap \in Nat /\ mem[p].event <= mem[p].snap
        /\ u \in RulesOf(mem[p].pair) /\ Looking(p)
    BY DEF IInv, TypeOK, Memory, Looking, RulesOf
  <1>1. CASE u \notin mem[p].left
    BY <1>0, <1>1, ReachedDown DEF Looking, IInv
  <1>2. CASE u \in mem[p].left
    <2>1. PICK s \in Swaps : /\ owner[s] \in RulesOf(mem[p].pair)
                             /\ begun[s] = mem[p].snap
                             /\ \A v \in mem[p].left : owner[s] < v
      BY <1>0, <1>2 DEF Looking
    <2> QED
      BY <1>0, <1>2, <2>1 DEF Reached, RulesOf
  <1> QED
    BY <1>1, <1>2

LEMMA LeavesInv ==
    ASSUME IInv, TypeOK', Opened', NEW p \in Procs,
           RecoveryPending(p) \/ SubmissionPending(p) \/ PairDone(p)
    PROVE  IInv'
  <1>1. CASE RecoveryPending(p)
    <2>1. Return(p, "handling", mem[p].todo \ {}) /\ pc[p] = "reconciling"
      BY <1>1 DEF RecoveryPending
    <2> QED
      BY <1>1, <2>1, ReturnInv DEF RecoveryPending, Inside
  <1>2. CASE SubmissionPending(p)
    <2>1. \A u \in Rules : PairOf[u] \in {mem[p].pair} => Reached(u, mem[p].event)
      BY <1>2, PairReached DEF SubmissionPending
    <2> QED
      BY <1>2, <2>1, ReturnInv DEF SubmissionPending, Inside
  <1>3. CASE PairDone(p)
    <2>1. \A u \in Rules : PairOf[u] \in {mem[p].pair} => Reached(u, mem[p].event)
      BY <1>3, PairReached DEF PairDone
    <2> QED
      BY <1>3, <2>1, ReturnInv DEF PairDone, Inside
  <1> QED
    BY <1>1, <1>2, <1>3

LEMMA SnapshotInv ==
    ASSUME IInv, TypeOK', Opened', NEW p \in Procs, Snapshot(p)
    PROVE  IInv'
  <1>0. /\ mem[p] \in Memory /\ mem[p].event \in Nat /\ mem[p].event <= Len(feed)
        /\ Len(feed) \in Nat
    BY DEF IInv, TypeOK, Memory, Positions
  <1>1. pc[p] = "reconciling" /\ pc'[p] = "rules"
    BY DEF Snapshot, Move, IInv, TypeOK
  <1>2. /\ mem'[p].event = mem[p].event /\ mem'[p].todo = mem[p].todo
        /\ mem'[p].pair = mem[p].pair /\ mem'[p].made = mem[p].made
        /\ mem'[p].snap = Len(feed) /\ mem'[p].left = RulesOf(mem[p].pair)
    BY <1>0 DEF Snapshot, IInv, TypeOK, Memory
  <1>3. UNCHANGED <<feed, cursor, owner, seen, begun>> /\ Grows
    BY SameHistory DEF Snapshot, swapVars, IInv
  <1>4. Caught(p)'
    BY <1>2, <1>3, CaughtFrame
  <1>5. Looking(p)'
    BY <1>0, <1>1, <1>2, <1>3 DEF Looking, IInv, Positions
  <1>6. Once(p)'
    BY <1>1, <1>2 DEF Once, IInv, Inside, RulesOf
  <1>7. \A q \in Procs \ {p} : pc'[q] = pc[q] /\ mem'[q] = mem[q]
    BY DEF Snapshot, Move, IInv, TypeOK
  <1> QED
    BY <1>0, <1>2, <1>3, <1>4, <1>5, <1>6, <1>7, PlainStep

LEMMA SubmittedInv ==
    ASSUME IInv, TypeOK', Opened', NEW p \in Procs, Submitted(p)
    PROVE  IInv'
  <1>1. mem' = mem /\ pc[p] = "submitting" /\ pc'[p] = "rules" /\ mem[p].event <= Len(feed)
    BY DEF Submitted, Move, IInv, TypeOK, Positions
  <1>2. UNCHANGED <<feed, cursor, owner, seen, begun>> /\ Grows
    BY SameHistory DEF Submitted, swapVars, IInv
  <1>3. Caught(p)'
    BY <1>1, <1>2, CaughtFrame
  <1>4. Looking(p)'
    BY <1>1, <1>2 DEF Looking, IInv, Reached
  <1>5. Once(p)'
    BY <1>1 DEF Once, IInv, Inside
  <1>6. \A q \in Procs \ {p} : pc'[q] = pc[q] /\ mem'[q] = mem[q]
    BY <1>1 DEF Submitted, Move, IInv, TypeOK
  <1> QED
    BY <1>1, <1>2, <1>3, <1>4, <1>5, <1>6, PlainStep

\* A rule that is looked at: its decision is on the state of the snapshot.
LEMMA LookedAt ==
    ASSUME IInv, TypeOK', Opened', NEW p \in Procs, pc[p] = "rules",
           pc'[p] \in {"rules", "submitting"},
           NEW u \in mem[p].left, First(u, mem[p].left),
           mem'[p].event = mem[p].event, mem'[p].todo = mem[p].todo,
           mem'[p].pair = mem[p].pair, mem'[p].snap = mem[p].snap,
           mem'[p].left = mem[p].left \ {u}, mem'[p].made \subseteq mem[p].made \cup {u},
           seen' = [seen EXCEPT ![u] = mem[p].snap],
           UNCHANGED <<feed, cursor>>,
           \A s \in Swaps : owner[s] \in Rules => owner'[s] = owner[s] /\ begun'[s] = begun[s],
           pc'[p] = "submitting" =>
               \E s \in Swaps : owner'[s] = u /\ begun'[s] = mem[p].snap,
           \A q \in Procs \ {p} : pc'[q] = pc[q] /\ mem'[q] = mem[q]
    PROVE  IInv'
  <1>0. /\ mem[p].event \in Nat /\ mem[p].snap \in Nat /\ mem[p].left \in SUBSET Rules
        /\ u \in Rules /\ PairOf[u] = mem[p].pair /\ Len(feed) \in Nat
        /\ \A v \in Rules : seen[v] \in Nat /\ v \in Nat
    BY DEF IInv, TypeOK, Memory, Looking, RulesOf
  <1>1. Looking(p) /\ Once(p) /\ Positions
    BY DEF IInv
  <1>2. \A v \in Rules : seen[v] <= seen'[v] /\ seen'[v] <= mem[p].snap
    BY <1>0, <1>1 DEF Looking, IInv, TypeOK
  <1>3. Grows
    BY <1>0, <1>2 DEF Grows
  <1>4. Positions'
    BY <1>0, <1>1, <1>2 DEF Positions, Looking, IInv, TypeOK
  <1>5. Caught(p)'
    BY <1>3, CaughtFrame
  <1>6. \A v \in RulesOf(mem[p].pair) \ mem'[p].left : Reached(v, mem[p].snap)'
    <2>1. SUFFICES ASSUME NEW v \in RulesOf(mem[p].pair) \ mem'[p].left
                   PROVE  Reached(v, mem[p].snap)'
      OBVIOUS
    <2>2. CASE v = u
      BY <1>0, <2>2 DEF Reached, IInv, TypeOK
    <2>3. CASE v # u
      <3>1. v \in Rules /\ Reached(v, mem[p].snap)
        BY <1>1, <2>1, <2>3 DEF Looking, RulesOf
      <3> QED
        BY <1>0, <1>3, <3>1, ReachedGrows DEF IInv
    <2> QED
      BY <2>2, <2>3
  <1>7. ASSUME pc'[p] = "submitting"
        PROVE  \E s \in Swaps : /\ owner'[s] \in RulesOf(mem[p].pair)
                                /\ begun'[s] = mem[p].snap
                                /\ \A v \in mem'[p].left : owner'[s] < v
    <2>1. PICK s \in Swaps : owner'[s] = u /\ begun'[s] = mem[p].snap
      BY <1>7
    <2>2. ASSUME NEW v \in mem'[p].left PROVE u < v
      <3>1. v \in mem[p].left /\ v # u /\ v \in Nat /\ u \in Nat
        BY <1>0
      <3>2. u <= v
        BY <3>1 DEF First
      <3> QED
        BY <3>1, <3>2
    <2> QED
      BY <1>0, <2>1, <2>2 DEF RulesOf
  <1>8. Looking(p)'
    <2>1. mem'[p].left \subseteq RulesOf(mem'[p].pair)
      BY <1>1 DEF Looking, RulesOf
    <2> QED
      BY <1>1, <1>2, <1>6, <1>7, <2>1 DEF Looking, RulesOf
  <1>9. Once(p)'
    BY <1>0, <1>1 DEF Once, Inside
  <1>10. NoEventPassedOver'
    BY <1>3, CursorFrame
  <1> QED
    BY <1>3, <1>4, <1>5, <1>8, <1>9, <1>10, ProcessStep DEF Inside

LEMMA SkipRuleInv ==
    ASSUME IInv, TypeOK', Opened', NEW p \in Procs, SkipRule(p)
    PROVE  IInv'
  <1>1. PICK u \in mem[p].left :
           /\ First(u, mem[p].left)
           /\ mem' = [mem EXCEPT ![p].left = @ \ {u}]
           /\ seen' = [seen EXCEPT ![u] = mem[p].snap]
    BY DEF SkipRule
  <1>2. pc[p] = "rules" /\ UNCHANGED <<feed, cursor, owner, pc, begun>>
    BY DEF SkipRule, swapVars
  <1>3. /\ mem'[p].event = mem[p].event /\ mem'[p].todo = mem[p].todo
        /\ mem'[p].pair = mem[p].pair /\ mem'[p].snap = mem[p].snap
        /\ mem'[p].left = mem[p].left \ {u} /\ mem'[p].made = mem[p].made
    BY <1>1 DEF IInv, TypeOK, Memory
  <1>4. \A q \in Procs \ {p} : pc'[q] = pc[q] /\ mem'[q] = mem[q]
    BY <1>1, <1>2 DEF IInv, TypeOK
  <1> QED
    BY <1>1, <1>2, <1>3, <1>4, LookedAt

LEMMA BeginTradeInv ==
    ASSUME IInv, TypeOK', Opened', NEW p \in Procs, NEW s \in Swaps, BeginTrade(p, s)
    PROVE  IInv'
  <1>1. PICK u \in mem[p].left :
           /\ First(u, mem[p].left)
           /\ Swap!Begin(s, u)
           /\ mem' = [mem EXCEPT ![p].left = @ \ {u}, ![p].made = @ \cup {u}]
           /\ seen' = [seen EXCEPT ![u] = mem[p].snap]
    BY DEF BeginTrade
  <1>2. /\ pc[p] = "rules" /\ pc' = [pc EXCEPT ![p] = "submitting"]
        /\ begun' = [begun EXCEPT ![s] = mem[p].snap] /\ UNCHANGED <<feed, cursor>>
    BY DEF BeginTrade, Move
  <1>3. /\ mem'[p].event = mem[p].event /\ mem'[p].todo = mem[p].todo
        /\ mem'[p].pair = mem[p].pair /\ mem'[p].snap = mem[p].snap
        /\ mem'[p].left = mem[p].left \ {u} /\ mem'[p].made = mem[p].made \cup {u}
    BY <1>1 DEF IInv, TypeOK, Memory
  <1>4. \A q \in Procs \ {p} : pc'[q] = pc[q] /\ mem'[q] = mem[q]
    BY <1>1, <1>2 DEF IInv, TypeOK
  <1>5. owner[s] = NoRule /\ owner' = [owner EXCEPT ![s] = u]
    BY <1>1 DEF Swap!Begin, IInv, Opened
  <1>6. owner'[s] = u /\ begun'[s] = mem[p].snap
    BY <1>2, <1>5 DEF IInv, TypeOK, Swap!TypeOK
  <1>7. \A t \in Swaps : owner[t] \in Rules => owner'[t] = owner[t] /\ begun'[t] = begun[t]
    BY <1>2, <1>5 DEF IInv, TypeOK, Swap!TypeOK
  <1>8. pc'[p] = "submitting"
    BY <1>2 DEF IInv, TypeOK
  <1> QED
    BY <1>1, <1>2, <1>3, <1>4, <1>6, <1>7, <1>8, LookedAt

LEMMA AnswersInv ==
    ASSUME IInv, TypeOK', Opened', NEW p \in Procs, Reconcile(p) \/ ResolveUncertain(p)
    PROVE  IInv'
  <1>1. UNCHANGED <<feed, cursor, owner, pc, mem, seen, begun>>
    BY DEF Reconcile, Answer, ResolveUncertain, Swap!Settle, Swap!Refuse, Swap!Park
  <1>2. Grows
    BY <1>1, SameHistory DEF IInv
  <1> QED
    BY <1>1, <1>2, StillStep

LEMMA InvInit == Init => IInv
  <1> SUFFICES ASSUME Init PROVE IInv
    OBVIOUS
  <1>1. TypeOK /\ Opened
    BY TypeInit, OpenedInit
  <1>2. Positions /\ NoEventPassedOver
    BY DEF Init, Positions, NoEventPassedOver, Blank, At
  <1>3. ASSUME NEW p \in Procs PROVE Caught(p) /\ Looking(p) /\ Once(p)
    <2>1. /\ mem[p].event = 0 /\ mem[p].todo = {} /\ mem[p].left = {} /\ mem[p].made = {}
          /\ pc[p] \in {"starting", "ready"}
      BY DEF Init, Blank, At, Home
    <2> QED
      BY <2>1 DEF Caught, Looking, Once, Inside
  <1> QED
    BY <1>1, <1>2, <1>3 DEF IInv

LEMMA InvNext == IInv /\ [Next]_vars => IInv'
  <1> SUFFICES ASSUME IInv, [Next]_vars PROVE IInv'
    OBVIOUS
  <1>0. TypeOK' /\ Opened'
    BY TypeNext DEF IInv
  <1>1. CASE StrangerTrades \/ (\E s \in Swaps : SwapExecutes(s)) \/ Recover
    BY <1>0, <1>1, ChainInv
  <1>2. ASSUME NEW w \in Watchers, Watch(w) PROVE IInv'
    BY <1>0, <1>2, StartInv, ReceiveInv, SaveCursorInv, AdmitInv, WaitedInv DEF Watch
  <1>3. ASSUME NEW c \in Callers, NEW pair \in Pairs, Call(c, pair) PROVE IInv'
    BY <1>0, <1>3, CallInv
  <1>4. ASSUME NEW p \in Procs, Evaluate(p) PROVE IInv'
    BY <1>0, <1>4, AnswersInv, LeavesInv, SnapshotInv, SkipRuleInv, BeginTradeInv, SubmittedInv
       DEF Evaluate
  <1>5. ASSUME NEW p \in Procs, Fail(p) PROVE IInv'
    BY <1>0, <1>5, FailInv
  <1>6. CASE UNCHANGED vars
    <2>1. UNCHANGED <<feed, cursor, owner, pc, mem, seen, begun>> /\ Grows
      BY <1>6, SameHistory DEF vars, swapVars, IInv
    <2> QED
      BY <1>0, <2>1, StillStep
  <1> QED
    BY <1>1, <1>2, <1>3, <1>4, <1>5, <1>6 DEF Next

LEMMA InvAlways == Spec => []IInv
  BY InvInit, InvNext, PTL DEF Spec

\* The cursor passes an event only when every rule it concerns has reached it or
\* was left out behind the swap of an earlier rule of its pair.
THEOREM EventsNotPassedOver == Spec => []NoEventPassedOver
  <1>1. IInv => NoEventPassedOver
    BY DEF IInv
  <1> QED
    BY <1>1, InvAlways, PTL

\* A rule that opened a swap for an event is not evaluated again for it.
THEOREM SwapsOncePerEvent == Spec => []OneSwapPerEvent
  <1>1. IInv => OneSwapPerEvent
    BY DEF IInv, Once, OneSwapPerEvent, Procs
  <1> QED
    BY <1>1, InvAlways, PTL

\* No worker moves the cursor row back.
THEOREM CursorGoesForward == Spec => CursorNeverBack
  <1>1. TypeOK /\ [Next]_vars => [cursor <= cursor']_vars
    <2> SUFFICES ASSUME TypeOK, Next PROVE cursor <= cursor'
      OBVIOUS
    <2>1. cursor \in Nat /\ \A w \in Watchers : mem[w].event \in Nat
      BY DEF TypeOK, Memory, Procs
    <2>2. ASSUME NEW w \in Watchers, SaveCursor(w) PROVE cursor <= cursor'
      BY <2>1, <2>2 DEF SaveCursor
    <2>3. CASE \A w \in Watchers : ~SaveCursor(w)
      <3>1. cursor' = cursor
        BY <2>3 DEF Next, StrangerTrades, SwapExecutes, Recover, Watch, Start, Receive, Admit,
             Waited, Call, Fail, Evaluate, Reconcile, RecoveryPending, Snapshot,
             ResolveUncertain, SkipRule, BeginTrade, Submitted, SubmissionPending, PairDone
      <3> QED
        BY <2>1, <3>1
    <2> QED
      BY <2>2, <2>3
  <1> QED
    BY <1>1, DeliveryTypes, PTL DEF Spec, CursorNeverBack

-----------------------------------------------------------------------------
(* The swaps of the workers *)

\* Recovery, receipts and the chain move the swaps only as the promise lets them.
LEMMA SwapSteps ==
    ASSUME TypeOK, [Next]_vars PROVE Swap!Next \/ UNCHANGED swapVars
  <1>1. ASSUME NEW s \in Swaps, Answer(s) PROVE Swap!Next
    BY <1>1 DEF Answer, Swap!Next
  <1>2. ASSUME NEW s \in Swaps, SwapExecutes(s) PROVE Swap!Next
    BY <1>2 DEF SwapExecutes, Swap!Next
  <1>3. CASE Recover
    BY <1>1, <1>3 DEF Recover
  <1>4. ASSUME NEW p \in Procs, Evaluate(p) PROVE Swap!Next \/ UNCHANGED swapVars
    <2>1. CASE Reconcile(p)
      BY <1>1, <2>1 DEF Reconcile
    <2>2. CASE ResolveUncertain(p)
      BY <2>2 DEF ResolveUncertain, Swap!Next
    <2>3. ASSUME NEW s \in Swaps, BeginTrade(p, s) PROVE Swap!Next
      <3>1. PICK u \in mem[p].left : Swap!Begin(s, u)
        BY <2>3 DEF BeginTrade
      <3>2. u \in Rules
        BY <3>1 DEF TypeOK, Memory
      <3> QED
        BY <3>1, <3>2 DEF Swap!Next
    <2>4. CASE \/ RecoveryPending(p) \/ Snapshot(p) \/ SkipRule(p) \/ Submitted(p)
               \/ SubmissionPending(p) \/ PairDone(p)
      BY <2>4 DEF RecoveryPending, Snapshot, SkipRule, Submitted, SubmissionPending, PairDone
    <2> QED
      BY <1>4, <2>1, <2>2, <2>3, <2>4 DEF Evaluate
  <1>5. CASE \/ StrangerTrades \/ (\E w \in Watchers : Watch(w)) \/ (\E p \in Procs : Fail(p))
             \/ \E c \in Callers, pair \in Pairs : Call(c, pair)
    BY <1>5 DEF StrangerTrades, Watch, Start, Receive, SaveCursor, Admit, Waited, Fail, Call
  <1>6. CASE UNCHANGED vars
    BY <1>6 DEF vars
  <1> QED
    BY <1>2, <1>3, <1>4, <1>5, <1>6 DEF Next

\* The workers submit swaps the way SwapOutcomes promises.
THEOREM DeliveryKeepsPromise == Spec => Swap!Spec
  <1>1. Init => Swap!Init
    BY DEF Init
  <1>2. TypeOK /\ [Next]_vars => [Swap!Next]_(Swap!vars)
    BY SwapSteps DEF swapVars, Swap!vars
  <1> QED
    BY <1>1, <1>2, DeliveryTypes, PTL DEF Spec, Swap!Spec

Promise == INSTANCE SwapOutcomesProofs

\* However many workers and callers evaluate, retry and die: one swap at a time is
\* pending, one per rule unsettled, and what the rules are told is what happened.
THEOREM SwapsOfWorkers ==
    Spec => []/\ Promise!OnePending /\ Promise!OneUnsettledPerRule /\ Promise!LedgerTrue
  <1>1. Swap!Spec => Promise!Spec
    BY DEF Swap!Spec, Swap!Init, Swap!Next, Swap!vars, Swap!Begin, Swap!Execute, Swap!Settle,
           Swap!Refuse, Swap!Park, Swap!Unsettled,
           Promise!Spec, Promise!Init, Promise!Next, Promise!vars, Promise!Begin,
           Promise!Execute, Promise!Settle, Promise!Refuse, Promise!Park, Promise!Unsettled
  <1> QED
    BY <1>1, DeliveryKeepsPromise, Promise!PromiseMeans, PTL
=============================================================================
