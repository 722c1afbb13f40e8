------------------------- MODULE VaultFundingProofs -------------------------
(***************************************************************************)
(* What a run of VaultBootstrap pays and what a finished run has achieved, *)
(* proved beside the invariant of VaultBootstrapProofs.                    *)
(***************************************************************************)
EXTENDS VaultBootstrapProofs

USE BootstrapAssumption

-----------------------------------------------------------------------------
(* A run on its way to success *)

\* What the vault holds or has already traded: only the owner's hand lowers it.
Backing == balance["src"] + spent

\* The newest transaction of the owner, which the script waits for.
Newest == open["owner"][Len(open["owner"])]
Awaiting(kind) == waits = "owner" /\ Len(open["owner"]) > 0 /\ Newest.kind = kind

Closing == {"config", "plan", "swap", "done"}

\* The deposit is measured, then under way, then there.
FundedOK ==
    /\ phase = "deposit" => args.deposit <= delta + Backing
    /\ phase = "status" =>
         \/ args.deposit <= Backing
         \/ Awaiting("deposit") /\ Newest.amount = delta /\ args.deposit <= delta + Backing
    /\ phase \in Closing => args.deposit <= Backing

\* The vault is active or the transaction that makes it so is under way.
ActiveOK ==
    phase \in Closing /\ (fresh \/ args.unpause)
      => ~paused \/ (phase = "config" /\ Awaiting("unpause"))

ReadyInv == FundedOK /\ ActiveOK

\* Amounts of the vault are numbers.
LEMMA BackingType ==
    ASSUME Vault!TypeOK
    PROVE  balance["src"] \in Nat /\ spent \in Nat /\ Backing \in Nat
  BY DEF Vault!TypeOK, Vault!Tokens, Backing

\* A trade moves its amount from the balance to what is spent, and costs its caller.
LEMMA TradeEffect ==
    ASSUME IInv, NEW k \in Keepers, NEW a \in Amounts, Trade(k, a)
    PROVE  /\ Backing' = Backing /\ paused' = paused /\ balance'["src"] <= balance["src"]
           /\ balance'["src"] \in Nat
           /\ \A j \in Keepers : funds'[j] \in Nat /\ funds'[j] <= funds[j]
  <1>1. PICK deadline : Vault!ExecuteSwap(k, a, a, deadline, a, a)
    BY DEF Trade
  <1>2. /\ balance \in [Vault!Tokens -> Nat] /\ spent \in Nat /\ funds \in [Keepers -> Nat]
        /\ a \in Nat
    BY DEF IInv, TypeOK, Vault!TypeOK
  <1>3. /\ balance'["src"] = balance["src"] - a /\ spent' = spent + a /\ a <= balance["src"]
        /\ paused' = paused /\ balance["src"] \in Nat
    BY <1>1, <1>2
    DEF Vault!ExecuteSwap, Vault!Accepts, Vault!Exchange, Vault!contract, Vault!Tokens
  <1>4. PICK cost \in Costs : cost <= funds[k] /\ funds' = [funds EXCEPT ![k] = @ - cost]
    BY DEF Trade
  <1>5. \A j \in Keepers : funds'[j] \in Nat /\ funds'[j] <= funds[j]
    <2>1. cost \in Nat
      OBVIOUS
    <2> QED
      BY <1>2, <1>4, <2>1
  <1> QED
    BY <1>2, <1>3, <1>5 DEF Backing

\* What an executed transaction adds to the vault, and that none pauses it.
LEMMA EffectBacking ==
    ASSUME IInv, NEW t \in Tx, t.kind = "swap" => t.amount \in Amounts, Effect(t)
    PROVE  /\ Backing <= Backing' /\ Backing' \in Nat
           /\ t.kind = "deposit" => Backing' = Backing + t.amount
           /\ paused' => paused /\ t.kind # "unpause"
  <1>1. Vault!TypeOK /\ Backing \in Nat
    BY BackingType DEF IInv, TypeOK
  <1>2. t.amount \in Nat /\ t.key \in Keepers
    BY TxFields
  <1>3. CASE Deploy(t)
    BY <1>1, <1>3 DEF Deploy, Backing
  <1>4. CASE Approve(t)
    BY <1>1, <1>4 DEF Approve, Backing, vault
  <1>5. CASE Fund(t)
    BY <1>1, <1>5 DEF Fund, Backing, vault
  <1>6. CASE Unpause(t)
    BY <1>1, <1>6 DEF Unpause, Vault!SetPaused, Backing
  <1>7. CASE Deposit(t)
    <2>1. /\ balance' = [balance EXCEPT !["src"] = @ + t.amount] /\ spent' = spent
          /\ paused' = paused /\ t.kind = "deposit"
      BY <1>7 DEF Deposit, Vault!Deposit, Vault!contract
    <2>2. /\ balance \in [Vault!Tokens -> Nat] /\ balance["src"] \in Nat /\ spent \in Nat
      BY <1>1, BackingType DEF Vault!TypeOK
    <2>3. balance'["src"] = balance["src"] + t.amount
      BY <2>1, <2>2 DEF Vault!Tokens
    <2>4. Backing' = Backing + t.amount
      BY <1>2, <2>1, <2>2, <2>3 DEF Backing
    <2> QED
      BY <1>1, <1>2, <2>1, <2>4
  <1>8. CASE t.kind = "swap" /\ Trade(t.key, t.amount)
    <2>1. Backing' = Backing /\ paused' = paused
      BY <1>2, <1>8, TradeEffect
    <2> QED
      BY <1>1, <1>8, <2>1
  <1> QED
    BY <1>3, <1>4, <1>5, <1>6, <1>7, <1>8 DEF Effect

\* A step that takes nothing from the vault, pauses nothing and leaves script and
\* queues alone keeps what the run has reached.
LEMMA ReadyKept ==
    ASSUME IInv, ReadyInv, Backing' \in Nat, Backing <= Backing', paused' => paused,
           UNCHANGED <<open, phase, args, fresh, delta, waits>>
    PROVE  ReadyInv'
  <1>1. Backing \in Nat /\ delta \in Nat
    BY BackingType DEF IInv, TypeOK
  <1>2. phase # "idle" => args.deposit \in Nat
    BY CommandFields DEF IInv, RunOK
  <1>3. Awaiting("deposit") => Awaiting("deposit")' /\ Newest' = Newest
    BY DEF Awaiting, Newest
  <1>4. Awaiting("unpause") => Awaiting("unpause")'
    BY DEF Awaiting, Newest
  <1>5. phase = "deposit" => args.deposit <= delta + Backing'
    BY <1>1, <1>2 DEF ReadyInv, FundedOK
  <1>6. phase = "status" =>
         \/ args.deposit <= Backing'
         \/ Awaiting("deposit") /\ Newest.amount = delta /\ args.deposit <= delta + Backing'
    BY <1>1, <1>2 DEF ReadyInv, FundedOK
  <1>7. phase \in Closing => args.deposit <= Backing'
    BY <1>1, <1>2 DEF ReadyInv, FundedOK, Closing
  <1>8. FundedOK'
    BY <1>3, <1>5, <1>6, <1>7 DEF FundedOK, Closing
  <1>9. ActiveOK'
    BY <1>4 DEF ReadyInv, ActiveOK, Closing
  <1> QED
    BY <1>8, <1>9 DEF ReadyInv

\* Before the deposit there is nothing to keep, nor after the end of a run.
LEMMA ReadyElsewhere ==
    ASSUME phase' \notin Closing \cup {"deposit", "status"} PROVE ReadyInv'
  BY DEF ReadyInv, FundedOK, ActiveOK, Closing

\* The run waits for a deposit or an unpause of its own until it is executed.
LEMMA ReadyExecuted == ASSUME IInv, ReadyInv, NEW s \in Accounts, Executed(s) PROVE ReadyInv'
  <1> DEFINE t == Head(open[s])
  <1>1. /\ open[s] # <<>> /\ Effect(t) /\ open' = [open EXCEPT ![s] = Tail(@)]
        /\ waits' = IF Awaited(s) THEN None ELSE waits
        /\ UNCHANGED <<keyFile, phase, args, fresh, delta, consent, discarded>>
    BY DEF Executed, history
  <1>2. /\ Sound(s, t, Held, consent)
        /\ Len(open[s]) = 1 => t = open[s][Len(open[s])]
        /\ Len(open[s]) # 1 => /\ Len(open'[s]) > 0
                               /\ open'[s][Len(open'[s])] = open[s][Len(open[s])]
        /\ \A r \in Accounts : r # s => open'[r] = open[r]
    BY <1>1, TailSound DEF IInv, TypeOK
  <1> HIDE DEF t
  <1>3. t \in Tx /\ (t.kind = "swap" => t.amount \in Amounts)
    BY <1>2 DEF Sound
  <1>4. /\ Backing <= Backing' /\ Backing' \in Nat /\ Backing \in Nat
        /\ t.kind = "deposit" => Backing' = Backing + t.amount
        /\ paused' => paused /\ t.kind # "unpause"
    BY <1>1, <1>3, EffectBacking, BackingType DEF IInv, TypeOK
  <1>5. delta \in Nat /\ (phase # "idle" => args.deposit \in Nat)
    BY CommandFields DEF IInv, TypeOK, RunOK
  <1>6. \A kind \in Kinds : Awaiting(kind) =>
          \/ Awaiting(kind)' /\ Newest' = Newest
          \/ s = "owner" /\ t = Newest /\ t.kind = kind
    <2> SUFFICES ASSUME NEW kind \in Kinds, Awaiting(kind)
                 PROVE  \/ Awaiting(kind)' /\ Newest' = Newest
                        \/ s = "owner" /\ t = Newest /\ t.kind = kind
      OBVIOUS
    <2>1. CASE s # "owner"
      <3>1. waits' = waits
        BY <1>1, <2>1 DEF Awaited, Awaiting
      <3>2. open'["owner"] = open["owner"]
        BY <1>2, <2>1 DEF Accounts
      <3> QED
        BY <3>1, <3>2 DEF Awaiting, Newest
    <2>2. CASE s = "owner" /\ Len(open[s]) = 1
      BY <1>2, <2>2 DEF Awaiting, Newest
    <2>3. CASE s = "owner" /\ Len(open[s]) # 1
      <3>1. waits' = waits
        BY <1>1, <2>3 DEF Awaited
      <3> QED
        BY <1>2, <2>3, <3>1 DEF Awaiting, Newest
    <2> QED
      BY <2>1, <2>2, <2>3
  <1>7. phase = "deposit" => args.deposit <= delta + Backing'
    BY <1>4, <1>5 DEF ReadyInv, FundedOK
  <1>8. phase \in Closing => args.deposit <= Backing'
    BY <1>4, <1>5 DEF ReadyInv, FundedOK, Closing
  <1>9. phase = "status" =>
          \/ args.deposit <= Backing'
          \/ Awaiting("deposit")' /\ Newest'.amount = delta /\ args.deposit <= delta + Backing'
    <2> SUFFICES ASSUME phase = "status"
                 PROVE  \/ args.deposit <= Backing'
                        \/ /\ Awaiting("deposit")' /\ Newest'.amount = delta
                           /\ args.deposit <= delta + Backing'
      OBVIOUS
    <2>1. CASE args.deposit <= Backing
      BY <1>4, <1>5, <2>1
    <2>2. CASE Awaiting("deposit") /\ Newest.amount = delta /\ args.deposit <= delta + Backing
      <3>1. args.deposit <= delta + Backing'
        BY <1>4, <1>5, <2>2
      <3>2. CASE Awaiting("deposit")' /\ Newest' = Newest
        BY <2>2, <3>1, <3>2
      <3>3. CASE t = Newest /\ t.kind = "deposit"
        <4>1. Backing' = Backing + delta
          BY <1>4, <2>2, <3>3
        <4> QED
          BY <1>4, <1>5, <2>2, <4>1
      <3> QED
        BY <1>6, <2>2, <3>2, <3>3 DEF Kinds
    <2> QED
      BY <2>1, <2>2 DEF ReadyInv, FundedOK
  <1>10. FundedOK'
    BY <1>1, <1>7, <1>8, <1>9 DEF FundedOK, Closing
  <1>11. ActiveOK'
    <2> SUFFICES ASSUME phase \in Closing, fresh \/ args.unpause, paused'
                 PROVE  phase = "config" /\ Awaiting("unpause")'
      BY <1>1 DEF ActiveOK, Closing
    <2>1. phase = "config" /\ Awaiting("unpause")
      BY <1>4 DEF ReadyInv, ActiveOK
    <2> QED
      BY <1>4, <1>6, <2>1 DEF Kinds
  <1> QED
    BY <1>10, <1>11 DEF ReadyInv

\* A refused transaction ends the run that waits for it; others change nothing.
LEMMA ReadyRefused == ASSUME IInv, ReadyInv, NEW s \in Accounts, Refused(s) PROVE ReadyInv'
  <1>1. /\ open[s] # <<>> /\ open' = [open EXCEPT ![s] = Tail(@)]
        /\ UNCHANGED <<vault, keyFile, consent, discarded>>
        /\ IF Awaited(s) THEN Ended ELSE UNCHANGED locals
    BY DEF Refused, history, chain
  <1>2. /\ Len(open[s]) # 1 => /\ Len(open'[s]) > 0
                               /\ open'[s][Len(open'[s])] = open[s][Len(open[s])]
        /\ \A r \in Accounts : r # s => open'[r] = open[r]
    BY <1>1, TailSound DEF IInv, TypeOK
  <1>3. CASE Awaited(s)
    BY <1>1, <1>3, ReadyElsewhere DEF Ended, Closing
  <1>4. CASE ~Awaited(s)
    <2>1. UNCHANGED <<phase, args, fresh, delta, waits, paused, Backing>>
      BY <1>1, <1>4 DEF locals, vault, Backing
    <2>2. \A kind \in Kinds : Awaiting(kind) => Awaiting(kind)' /\ Newest' = Newest
      BY <1>2, <1>4, <2>1 DEF Awaiting, Newest, Awaited, Accounts
    <2>3. FundedOK'
      BY <2>1, <2>2 DEF ReadyInv, FundedOK, Closing, Kinds
    <2>4. ActiveOK'
      BY <2>1, <2>2 DEF ReadyInv, ActiveOK, Closing, Kinds
    <2> QED
      BY <2>3, <2>4 DEF ReadyInv
  <1> QED
    BY <1>3, <1>4

\* What the run sends is the newest transaction of the owner.
LEMMA SentNewest ==
    ASSUME IInv, NEW kind, NEW amount, NEW p, Send("owner", kind, amount, p)
    PROVE  /\ phase' = p /\ UNCHANGED args
           /\ Awaiting(kind)' /\ Newest'.amount = amount
  <1> DEFINE t == [kind |-> kind, key |-> key, limits |-> args.limits, amount |-> amount]
  <1>1. /\ phase' = p /\ waits' = "owner" /\ UNCHANGED args
        /\ open' = [open EXCEPT !["owner"] = Append(@, t)]
        /\ t.kind = kind /\ t.amount = amount
    BY DEF Send
  <1> HIDE DEF t
  <1>2. open["owner"] \in Seq(Tx) /\ "owner" \in Accounts /\ open \in [Accounts -> Seq(Tx)]
    BY DEF IInv, TypeOK, Accounts
  <1>3. open'["owner"] = Append(open["owner"], t)
    BY <1>1, <1>2
  <1>4. Len(open'["owner"]) = Len(open["owner"]) + 1 /\ Len(open["owner"]) \in Nat
        /\ open'["owner"][Len(open["owner"]) + 1] = t
    BY <1>2, <1>3
  <1> QED
    BY <1>1, <1>4 DEF Awaiting, Newest

\* The run measures what is missing and has it approved, deposits it, unpauses.
LEMMA ReadyFunding ==
    ASSUME IInv, ReadyInv, ApproveMissing \/ DepositMissing \/ UnpauseVault
    PROVE  ReadyInv'
  <1>1. Backing' = Backing /\ paused' = paused /\ waits = None
    BY DEF ApproveMissing, DepositMissing, UnpauseVault, At, chain, vault, Backing
  <1>2. balance["src"] \in Nat /\ spent \in Nat /\ Backing \in Nat /\ delta \in Nat
    BY BackingType DEF IInv, TypeOK
  <1>3. args.deposit \in Nat
    BY CommandFields DEF IInv, RunOK, ApproveMissing, DepositMissing, UnpauseVault, At
  <1>4. \A kind \in Kinds : ~Awaiting(kind)
    BY <1>1 DEF Awaiting, Accounts
  <1>5. CASE ApproveMissing
    <2>1. CASE phase' = "deposit" /\ delta' = args.deposit - balance["src"] /\ args' = args
      <3>1. args.deposit <= delta' + Backing'
        BY <1>1, <1>2, <1>3, <2>1 DEF Backing
      <3> QED
        BY <2>1, <3>1 DEF ReadyInv, FundedOK, ActiveOK, Closing
    <2>2. CASE phase' = "status" /\ args' = args /\ ~(args.deposit - balance["src"] > 0)
      <3>1. args.deposit <= Backing'
        BY <1>1, <1>2, <1>3, <2>2 DEF Backing
      <3> QED
        BY <2>2, <3>1 DEF ReadyInv, FundedOK, ActiveOK, Closing
    <2> QED
      BY <1>5, <2>1, <2>2 DEF ApproveMissing, Send, Enter
  <1>6. CASE DepositMissing
    <2>1. /\ phase' = "status" /\ UNCHANGED <<args, delta>>
          /\ Awaiting("deposit")' /\ Newest'.amount = delta
      BY <1>6, SentNewest DEF DepositMissing
    <2>2. args.deposit <= delta + Backing
      BY <1>6 DEF DepositMissing, At, ReadyInv, FundedOK
    <2> QED
      BY <1>1, <2>1, <2>2 DEF ReadyInv, FundedOK, ActiveOK, Closing
  <1>7. CASE UnpauseVault
    <2>1. args.deposit <= Backing
      BY <1>4, <1>7 DEF UnpauseVault, At, ReadyInv, FundedOK, Kinds
    <2>2. CASE Ended
      BY <2>2, ReadyElsewhere DEF Ended, Closing
    <2>3. CASE Enter("config") /\ (~paused \/ (~fresh /\ ~args.unpause))
      BY <1>1, <2>1, <2>3 DEF Enter, ReadyInv, FundedOK, ActiveOK, Closing
    <2>4. CASE Send("owner", "unpause", 0, "config")
      <3>1. phase' = "config" /\ UNCHANGED args /\ Awaiting("unpause")'
        BY <2>4, SentNewest
      <3> QED
        BY <1>1, <2>1, <3>1 DEF ReadyInv, FundedOK, ActiveOK, Closing
    <2> QED
      BY <1>7, <2>2, <2>3, <2>4 DEF UnpauseVault
  <1> QED
    BY <1>5, <1>6, <1>7

\* From then on the run only goes forward, or ends.
LEMMA ReadyClosing ==
    ASSUME IInv, ReadyInv, WriteConfig \/ FundKeeper \/ Exercise
    PROVE  ReadyInv'
  <1>1. /\ Backing' = Backing /\ paused' = paused /\ waits = None
        /\ phase \in {"config", "plan", "swap"}
    BY DEF WriteConfig, FundKeeper, Exercise, At, chain, vault, Backing
  <1>2. args.deposit <= Backing /\ (fresh \/ args.unpause => ~paused)
    BY <1>1 DEF ReadyInv, FundedOK, ActiveOK, Awaiting, Closing, Accounts
  <1>3. CASE Ended
    BY <1>3, ReadyElsewhere DEF Ended, Closing
  <1>4. CASE phase' \in Closing /\ UNCHANGED <<args, fresh>>
    BY <1>1, <1>2, <1>4 DEF ReadyInv, FundedOK, ActiveOK, Closing
  <1> QED
    BY <1>3, <1>4 DEF WriteConfig, FundKeeper, Exercise, Enter, Send, Closing

\* Every step keeps what the run has reached.
LEMMA ReadyStep == IInv /\ ReadyInv /\ [Next]_vars => ReadyInv'
  <1> SUFFICES ASSUME IInv, ReadyInv, [Next]_vars PROVE ReadyInv'
    OBVIOUS
  <1>1. Vault!TypeOK /\ Backing \in Nat
    BY BackingType DEF IInv, TypeOK
  <1>2. CASE UNCHANGED <<vault, open, locals>>
    BY <1>1, <1>2, ReadyKept DEF vault, locals, Backing
  <1>3. CASE Chain
    BY <1>3, ReadyExecuted, ReadyRefused DEF Chain
  <1>4. CASE Script
    <2>1. CASE KeeperWallet \/ CreateKeyFile \/ WriteKeyFile \/ DeployOrReuse \/ Report
      <3>1. phase' \in {"idle", "create", "inspect", "write", "balance"}
        BY <2>1 DEF KeeperWallet, CreateKeyFile, WriteKeyFile, DeployOrReuse, Report, Ended, Enter,
                    Send
      <3> QED
        BY <3>1, ReadyElsewhere DEF Closing
    <2> QED
      BY <1>4, <2>1, ReadyFunding, ReadyClosing DEF Script
  <1>5. CASE Stop \/ \E a \in Commands : Start(a)
    <2>1. phase' \in {"idle", "key"}
      BY <1>5 DEF Stop, Start, Ended
    <2> QED
      BY <2>1, ReadyElsewhere DEF Closing
  <1>6. CASE OwnerActs
    <2>1. phase' = "idle"
      BY <1>6 DEF OwnerActs, OwnerPauses, OwnerSetsKeeper, OwnerTightens, OwnerWithdraws, ByHand,
                  locals
    <2> QED
      BY <2>1, ReadyElsewhere DEF Closing
  <1>7. CASE ServiceTrades
    <2>1. PICK a \in Amounts : keyFile \in Keepers /\ Trade(keyFile, a)
      BY <1>7 DEF ServiceTrades
    <2>2. Backing' = Backing /\ paused' = paused
      BY <2>1, TradeEffect
    <2> QED
      BY <1>1, <1>7, <2>2, ReadyKept DEF ServiceTrades, locals
  <1>8. CASE ServiceStarts \/ Enable \/ \E k \in Keepers : PutKey(k) \/ TruncateKey(k) \/ RewriteKey(k)
    BY <1>2, <1>8 DEF ServiceStarts, Enable, PutKey, TruncateKey, RewriteKey, chain
  <1>9. CASE UNCHANGED vars
    BY <1>2, <1>9 DEF vars, chain
  <1> QED
    BY <1>3, <1>4, <1>5, <1>6, <1>7, <1>8, <1>9 DEF Next, Service

\* A run that reports success has left the vault it was asked for, funded, with the
\* keeper whose key it holds, and active if it deployed it or was told to unpause:
\* whatever late transactions, earlier runs and the service did meanwhile.
THEOREM ReadyWhenDoneHolds == Spec => []ReadyWhenDone
  <1>1. Init => ReadyInv
    BY DEF Init, ReadyInv, FundedOK, ActiveOK, Closing
  <1>2. IInv /\ ReadyInv => ReadyWhenDone
    <2> SUFFICES ASSUME IInv, ReadyInv, At("done") PROVE
            /\ deployed /\ Matches
            /\ args.deposit <= balance["src"] + spent
            /\ (fresh \/ args.unpause) => ~paused
      BY DEF ReadyWhenDone
    <2>1. deployed /\ Matches
      BY AtSettled DEF Settled, Later
    <2>2. args.deposit <= balance["src"] + spent
      BY DEF At, ReadyInv, FundedOK, Closing, Backing
    <2>3. (fresh \/ args.unpause) => ~paused
      BY DEF At, ReadyInv, ActiveOK, Closing
    <2> QED
      BY <2>1, <2>2, <2>3
  <1>3. Spec => [](IInv /\ ReadyInv)
    BY <1>1, InitInv, StepInv, ReadyStep, PTL DEF Spec
  <1> QED
    BY <1>2, <1>3, PTL

-----------------------------------------------------------------------------
(* Nothing is paid twice *)

\* A run that has not given up on a transaction waits for the only one there is.
Alone == \A s \in Accounts : IF waits = s THEN Len(open[s]) = 1 ELSE open[s] = <<>>

\* An amount some command line or call may ask a keeper to have.
Within(x) ==
    \/ x = 0
    \/ \E a \in Commands : x <= a.floor
    \/ \E cost \in Costs : x <= cost

\* What is under way does not take the vault or a keeper above what was asked for.
Due(t) ==
    /\ t.kind = "deposit" => phase = "status" /\ t.amount + balance["src"] <= args.deposit
    /\ t.kind = "fund" => Within(funds[t.key] + t.amount)

Asked == \E a \in Commands : balance["src"] <= a.deposit

PaidOK ==
    /\ phase = "idle" => waits = None
    /\ phase # "idle" => args \in Commands
    /\ ~gaveUp =>
         /\ Alone /\ Asked
         /\ \A k \in Keepers : Within(funds[k])
         /\ \A s \in Accounts : open[s] # <<>> => Due(Head(open[s]))
         /\ phase = "deposit" => delta + balance["src"] <= args.deposit

\* Numbers the script measures.
LEMMA Measured ==
    ASSUME IInv
    PROVE  /\ balance["src"] \in Nat /\ delta \in Nat /\ \A k \in Keepers : funds[k] \in Nat
           /\ \A a \in Commands : a \in Command /\ a.deposit \in Nat /\ a.floor \in Nat
           /\ Costs \subseteq Nat
  BY BackingType, CommandFields DEF IInv, TypeOK

\* Whoever may have an amount may have less.
LEMMA WithinLess ==
    ASSUME NEW x \in Nat, NEW y \in Nat, y <= x, Within(x) PROVE Within(y)
  <1>1. CASE x = 0
    BY <1>1 DEF Within
  <1>2. ASSUME NEW a \in Commands, x <= a.floor PROVE Within(y)
    <2>1. a.floor \in Nat
      BY CommandFields
    <2>2. y <= a.floor
      BY <1>2, <2>1
    <2> QED
      BY <2>2 DEF Within
  <1>3. ASSUME NEW cost \in Costs, x <= cost PROVE Within(y)
    <2>1. cost \in Nat /\ y <= cost
      BY <1>3
    <2> QED
      BY <2>1 DEF Within
  <1> QED
    BY <1>1, <1>2, <1>3 DEF Within

\* A step that only spends, and leaves script and queues alone.
LEMMA PaidSpending ==
    ASSUME IInv, PaidOK,
           balance'["src"] \in Nat, balance'["src"] <= balance["src"],
           \A k \in Keepers : funds'[k] \in Nat /\ funds'[k] <= funds[k],
           UNCHANGED <<open, phase, args, delta, waits, gaveUp>>
    PROVE  PaidOK'
  <1>1. /\ balance["src"] \in Nat /\ delta \in Nat /\ \A k \in Keepers : funds[k] \in Nat
        /\ \A a \in Commands : a \in Command /\ a.deposit \in Nat /\ a.floor \in Nat
    BY Measured
  <1> SUFFICES ASSUME ~gaveUp
               PROVE  /\ Alone' /\ Asked'
                      /\ \A k \in Keepers : Within(funds[k])'
                      /\ \A s \in Accounts : open[s] # <<>> => Due(Head(open[s]))'
                      /\ phase = "deposit" => delta + balance'["src"] <= args.deposit
    BY DEF PaidOK
  <1>2. Alone'
    BY DEF PaidOK, Alone
  <1>3. Asked'
    <2>1. PICK a \in Commands : balance["src"] <= a.deposit
      BY DEF PaidOK, Asked
    <2>2. balance'["src"] <= a.deposit
      BY <1>1, <2>1
    <2> QED
      BY <2>2 DEF Asked
  <1>4. ASSUME NEW k \in Keepers PROVE Within(funds'[k])
    BY <1>1, WithinLess DEF PaidOK
  <1>5. ASSUME NEW s \in Accounts, open[s] # <<>> PROVE Due(Head(open[s]))'
    <2> DEFINE t == Head(open[s])
    <2>1. t \in Tx
      <3>1. open[s] \in Seq(Tx)
        BY DEF IInv, TypeOK
      <3> QED
        BY <1>5, <3>1
    <2>2. Due(t) /\ t' = t
      BY <1>5 DEF PaidOK
    <2> HIDE DEF t
    <2>3. t.amount \in Nat /\ t.key \in Keepers
      BY <2>1, TxFields
    <2>4. t.kind = "deposit" => phase = "status" /\ t.amount + balance'["src"] <= args.deposit
      <3> SUFFICES ASSUME t.kind = "deposit"
                   PROVE  phase = "status" /\ t.amount + balance'["src"] <= args.deposit
        OBVIOUS
      <3>1. phase = "status" /\ t.amount + balance["src"] <= args.deposit
        BY <2>2 DEF Due
      <3>2. args.deposit \in Nat
        BY <1>1, <3>1 DEF PaidOK
      <3> QED
        BY <1>1, <2>3, <3>1, <3>2
    <2>5. t.kind = "fund" => Within(funds'[t.key] + t.amount)
      <3> SUFFICES ASSUME t.kind = "fund" PROVE Within(funds'[t.key] + t.amount)
        OBVIOUS
      <3>1. Within(funds[t.key] + t.amount)
        BY <2>2 DEF Due
      <3>2. /\ funds[t.key] + t.amount \in Nat /\ funds'[t.key] + t.amount \in Nat
            /\ funds'[t.key] + t.amount <= funds[t.key] + t.amount
        BY <1>1, <2>3
      <3> QED
        BY <3>1, <3>2, WithinLess
    <2>6. Due(t)'
      BY <2>2, <2>4, <2>5 DEF Due, Within
    <2> QED
      BY <2>2, <2>6 DEF t
  <1>6. phase = "deposit" => delta + balance'["src"] <= args.deposit
    BY <1>1 DEF PaidOK
  <1> QED
    BY <1>2, <1>3, <1>4, <1>5, <1>6 DEF Within

\* A step of the script that sends nothing.
LEMMA PaidQuiet ==
    ASSUME PaidOK, waits' = waits \/ waits' = None, ~gaveUp' => waits = None,
           UNCHANGED <<vault, funds, open>>, gaveUp => gaveUp',
           phase' = "idle" => waits' = None, phase' # "idle" => args' \in Commands,
           phase' # "deposit"
    PROVE  PaidOK'
  <1> SUFFICES ASSUME ~gaveUp'
               PROVE  /\ Alone' /\ Asked' /\ \A k \in Keepers : Within(funds[k])'
                      /\ \A s \in Accounts : open[s] # <<>> => Due(Head(open[s]))'
    BY DEF PaidOK
  <1>1. waits = None /\ waits' = None /\ \A s \in Accounts : open[s] = <<>>
    BY DEF PaidOK, Alone
  <1>2. Alone'
    BY <1>1 DEF Alone
  <1>3. Asked' /\ \A k \in Keepers : Within(funds[k])'
    BY DEF PaidOK, Asked, Within, vault
  <1> QED
    BY <1>1, <1>2, <1>3

\* A step of the script that sends a transaction and waits for it.
LEMMA PaidSent ==
    ASSUME IInv, PaidOK, waits = None, NEW s \in Accounts, NEW t,
           open' = [open EXCEPT ![s] = Append(@, t)], waits' = s,
           UNCHANGED <<vault, funds, gaveUp, args>>, phase # "idle", phase' # "idle",
           ~gaveUp => Due(t)',
           ~gaveUp /\ phase' = "deposit" => delta' + balance["src"] <= args.deposit
    PROVE  PaidOK'
  <1>0. balance' = balance
    BY DEF vault
  <1> SUFFICES ASSUME ~gaveUp
               PROVE  /\ Alone' /\ Asked' /\ \A k \in Keepers : Within(funds[k])'
                      /\ \A r \in Accounts : open'[r] # <<>> => Due(Head(open[r]))'
    BY <1>0 DEF PaidOK
  <1>1. \A r \in Accounts : open[r] = <<>>
    BY DEF PaidOK, Alone
  <1>2. open'[s] = Append(<<>>, t) /\ \A r \in Accounts : r # s => open'[r] = <<>>
    BY <1>1 DEF IInv, TypeOK
  <1>3. Len(open'[s]) = 1 /\ Head(open'[s]) = t
    <2>1. <<>> \in Seq({t}) /\ Len(<<>>) = 0
      OBVIOUS
    <2> DEFINE q == Append(<<>>, t)
    <2>2. q \in Seq({t}) /\ Len(q) = 1 /\ q[1] = t
      BY <2>1
    <2>3. Head(q) = q[1]
      BY <2>2
    <2> QED
      BY <1>2, <2>2, <2>3
  <1>4. Alone'
    BY <1>2, <1>3 DEF Alone
  <1>5. Asked' /\ \A k \in Keepers : Within(funds[k])'
    BY <1>0 DEF PaidOK, Asked, Within
  <1>6. \A r \in Accounts : open'[r] # <<>> => Due(Head(open[r]))'
    BY <1>2, <1>3
  <1> QED
    BY <1>4, <1>5, <1>6

\* The script pays only what is missing.
LEMMA PaidScript == ASSUME IInv, PaidOK, Script PROVE PaidOK'
  <1>1. /\ waits = None /\ phase # "idle" /\ args \in Commands
        /\ UNCHANGED <<vault, funds, gaveUp>>
    BY DEF Script, KeeperWallet, CreateKeyFile, WriteKeyFile, DeployOrReuse, ApproveMissing,
           DepositMissing, UnpauseVault, WriteConfig, FundKeeper, Exercise, Report, At, chain,
           history, PaidOK
  <1>2. CASE Ended /\ UNCHANGED open
    BY <1>1, <1>2, PaidQuiet DEF Ended
  <1>3. CASE /\ phase' \notin {"idle", "deposit"} /\ UNCHANGED <<open, args, waits>>
    BY <1>1, <1>3, PaidQuiet
  <1>4. ASSUME NEW kind, NEW amount, NEW p, p # "idle", Send("owner", kind, amount, p),
               ~gaveUp /\ kind = "deposit" =>
                 p = "status" /\ amount + balance["src"] <= args.deposit,
               ~gaveUp /\ kind = "fund" => Within(funds[key] + amount),
               ~gaveUp /\ p = "deposit" => delta' + balance["src"] <= args.deposit
        PROVE  PaidOK'
    <2>1. PICK t : t = [kind |-> kind, key |-> key, limits |-> args.limits, amount |-> amount]
      OBVIOUS
    <2>2. /\ open' = [open EXCEPT !["owner"] = Append(@, t)] /\ phase' = p /\ waits' = "owner"
          /\ UNCHANGED args
      BY <1>4, <2>1 DEF Send
    <2>3. t.kind = kind /\ t.key = key /\ t.amount = amount
      BY <2>1
    <2>4. balance' = balance /\ funds' = funds
      BY <1>1 DEF vault
    <2>5. ~gaveUp => Due(t)'
      BY <1>4, <2>2, <2>3, <2>4 DEF Due, Within
    <2>6. "owner" \in Accounts /\ phase' # "idle"
      BY <1>4, <2>2 DEF Accounts
    <2>7. ~gaveUp /\ phase' = "deposit" => delta' + balance["src"] <= args.deposit
      BY <1>4, <2>2
    <2> QED
      BY <1>1, <2>2, <2>5, <2>6, <2>7, PaidSent
  <1>5. CASE KeeperWallet \/ CreateKeyFile \/ WriteKeyFile \/ WriteConfig \/ Report
    BY <1>2, <1>3, <1>5
    DEF KeeperWallet, CreateKeyFile, WriteKeyFile, WriteConfig, Report, Enter
  <1>6. CASE DeployOrReuse
    BY <1>2, <1>3, <1>4, <1>6 DEF DeployOrReuse, Enter
  <1>7. CASE ApproveMissing
    <2>1. args.deposit \in Nat /\ balance["src"] \in Nat
      BY <1>1, Measured
    <2>2. ASSUME Send("owner", "approve", args.deposit - balance["src"], "deposit"),
                 delta' = args.deposit - balance["src"]
          PROVE  PaidOK'
      <3>1. delta' + balance["src"] <= args.deposit
        BY <2>1, <2>2
      <3> QED
        BY <1>4, <2>2, <3>1
    <2> QED
      BY <1>3, <1>7, <2>2 DEF ApproveMissing, Enter
  <1>8. CASE DepositMissing
    BY <1>4, <1>8 DEF DepositMissing, At, PaidOK
  <1>9. CASE UnpauseVault
    BY <1>2, <1>3, <1>4, <1>9 DEF UnpauseVault, Enter
  <1>10. CASE FundKeeper
    <2>1. ASSUME NEW cost \in Costs, Send("owner", "fund", TopUp(cost), "swap") PROVE PaidOK'
      <3>1. ~gaveUp => Within(funds[key] + TopUp(cost))
        <4> SUFFICES ASSUME ~gaveUp PROVE Within(funds[key] + TopUp(cost))
          OBVIOUS
        <4>1. key \in Keepers
          BY <1>10 DEF FundKeeper, At, IInv, RunOK
        <4>2. /\ funds[key] \in Nat /\ args.floor \in Nat /\ cost \in Nat /\ Within(funds[key])
          BY <1>1, <4>1, Measured DEF PaidOK
        <4> DEFINE target == IF args.floor < cost THEN cost ELSE args.floor
        <4>3. target \in Nat /\ Within(target)
          BY <1>1, <4>2 DEF Within
        <4>4. TopUp(cost) = IF funds[key] < target THEN target - funds[key] ELSE 0
          BY DEF TopUp
        <4> HIDE DEF target
        <4>5. funds[key] + TopUp(cost) \in {target, funds[key]}
          BY <4>2, <4>3, <4>4
        <4> QED
          BY <4>2, <4>3, <4>5
      <3> QED
        BY <1>4, <2>1, <3>1
    <2> QED
      BY <1>2, <1>3, <1>10, <2>1 DEF FundKeeper, Enter
  <1>11. CASE Exercise
    <2>1. ASSUME args.swap, keyFile \in Keepers,
                 open' = [open EXCEPT !["keeper"] =
                            Append(@, [kind |-> "swap", key |-> keyFile, limits |-> args.limits,
                                       amount |-> args.exercise])],
                 phase' = "done", waits' = "keeper", UNCHANGED args
          PROVE  PaidOK'
      <3>1. PICK t : t = [kind |-> "swap", key |-> keyFile, limits |-> args.limits,
                          amount |-> args.exercise]
        OBVIOUS
      <3>2. Due(t)'
        BY <3>1 DEF Due
      <3>3. open' = [open EXCEPT !["keeper"] = Append(@, t)] /\ "keeper" \in Accounts
        BY <2>1, <3>1 DEF Accounts
      <3>4. UNCHANGED <<vault, funds, gaveUp, args>> /\ phase' # "idle" /\ phase' # "deposit"
        BY <1>1, <2>1
      <3> QED
        BY <1>1, <2>1, <3>2, <3>3, <3>4, PaidSent
    <2> QED
      BY <1>2, <1>3, <1>11, <2>1 DEF Exercise, Enter
  <1> QED
    BY <1>5, <1>6, <1>7, <1>8, <1>9, <1>10, <1>11 DEF Script

\* Only a deposit raises the vault's balance, only a payment raises a keeper's.
LEMMA EffectPays ==
    ASSUME IInv, NEW t \in Tx, t.kind = "swap" => t.amount \in Amounts, Effect(t)
    PROVE  /\ \/ balance'["src"] <= balance["src"]
              \/ t.kind = "deposit" /\ balance'["src"] = balance["src"] + t.amount
           /\ \A k \in Keepers :
                \/ funds'[k] \in Nat /\ funds'[k] <= funds[k]
                \/ t.kind = "fund" /\ k = t.key /\ funds'[k] = funds[k] + t.amount
  <1>1. /\ balance \in [Vault!Tokens -> Nat] /\ balance["src"] \in Nat
        /\ funds \in [Keepers -> Nat]
    BY BackingType DEF IInv, TypeOK, Vault!TypeOK
  <1>2. t.amount \in Nat /\ t.key \in Keepers
    BY TxFields
  <1>3. CASE Deploy(t) \/ Approve(t) \/ Unpause(t)
    BY <1>1, <1>3 DEF Deploy, Approve, Unpause, Vault!SetPaused, vault
  <1>4. CASE Deposit(t)
    <2>1. /\ balance' = [balance EXCEPT !["src"] = @ + t.amount] /\ UNCHANGED funds
          /\ t.kind = "deposit"
      BY <1>4 DEF Deposit, Vault!Deposit
    <2> QED
      BY <1>1, <1>2, <2>1 DEF Vault!Tokens
  <1>5. CASE Fund(t)
    BY <1>1, <1>2, <1>5 DEF Fund, vault
  <1>6. CASE t.kind = "swap" /\ Trade(t.key, t.amount)
    BY <1>2, <1>6, TradeEffect
  <1> QED
    BY <1>3, <1>4, <1>5, <1>6 DEF Effect

\* A queue of one transaction is empty once it is gone.
LEMMA TailOfOne == ASSUME NEW q \in Seq(Tx), Len(q) = 1 PROVE Tail(q) = <<>>
  <1>1. Tail(q) \in Seq(Tx) /\ Len(Tail(q)) = 0
    BY HeadTailProperties
  <1> QED
    BY <1>1, EmptySeq

\* The transaction a run waits for brings at most what was missing.
LEMMA PaidExecuted == ASSUME IInv, PaidOK, NEW s \in Accounts, Executed(s) PROVE PaidOK'
  <1>1. /\ open[s] # <<>> /\ Effect(Head(open[s])) /\ open' = [open EXCEPT ![s] = Tail(@)]
        /\ waits' = IF Awaited(s) THEN None ELSE waits
        /\ UNCHANGED <<keyFile, phase, args, delta, consent, discarded, gaveUp>>
    BY DEF Executed, history
  <1>2. PICK t : t = Head(open[s])
    OBVIOUS
  <1>3. t \in Tx /\ (t.kind = "swap" => t.amount \in Amounts) /\ Effect(t)
    BY <1>1, <1>2, TailSound DEF IInv, TypeOK, Sound
  <1>4. phase = "idle" => waits' = None
    BY <1>1 DEF PaidOK
  <1> SUFFICES ASSUME ~gaveUp
               PROVE  /\ Alone' /\ Asked' /\ \A k \in Keepers : Within(funds[k])'
                      /\ \A r \in Accounts : open'[r] # <<>> => Due(Head(open[r]))'
                      /\ phase = "deposit" => delta + balance'["src"] <= args.deposit
    BY <1>1, <1>4 DEF PaidOK
  <1>5. waits = s /\ Len(open[s]) = 1 /\ Awaited(s) /\ \A r \in Accounts : r # s => open[r] = <<>>
    BY <1>1 DEF PaidOK, Alone, Awaited
  <1>6. waits' = None /\ \A r \in Accounts : open'[r] = <<>>
    <2>1. Tail(open[s]) = <<>>
      <3>1. open[s] \in Seq(Tx)
        BY DEF IInv, TypeOK
      <3> QED
        BY <1>5, <3>1, TailOfOne
    <2> QED
      BY <1>1, <1>5, <2>1 DEF IInv, TypeOK
  <1>7. Due(t) /\ phase # "idle" /\ args \in Commands
    BY <1>1, <1>2, <1>5 DEF PaidOK
  <1>8. /\ balance["src"] \in Nat /\ delta \in Nat /\ \A k \in Keepers : funds[k] \in Nat
        /\ \A a \in Commands : a.deposit \in Nat
        /\ balance'["src"] \in Nat
    <2>1. Vault!TypeOK'
      BY <1>3, EffectTypes DEF IInv, TypeOK
    <2> QED
      BY <2>1, Measured DEF Vault!TypeOK, Vault!Tokens
  <1>9. Alone'
    BY <1>6 DEF Alone
  <1>10. Asked'
    <2>1. CASE balance'["src"] <= balance["src"]
      <3>1. PICK a \in Commands : balance["src"] <= a.deposit
        BY DEF PaidOK, Asked
      <3>2. balance'["src"] <= a.deposit
        BY <1>8, <2>1, <3>1
      <3> QED
        BY <3>2 DEF Asked
    <2>2. CASE t.kind = "deposit" /\ balance'["src"] = balance["src"] + t.amount
      <3>1. balance'["src"] <= args.deposit
        BY <1>3, <1>7, <1>8, <2>2, TxFields DEF Due
      <3> QED
        BY <1>1, <1>7, <3>1 DEF Asked
    <2> QED
      BY <1>3, <2>1, <2>2, EffectPays
  <1>11. ASSUME NEW k \in Keepers PROVE Within(funds'[k])
    <2>1. CASE funds'[k] \in Nat /\ funds'[k] <= funds[k]
      BY <1>8, <2>1, WithinLess DEF PaidOK
    <2>2. CASE t.kind = "fund" /\ k = t.key /\ funds'[k] = funds[k] + t.amount
      BY <1>7, <2>2 DEF Due
    <2> QED
      BY <1>3, <2>1, <2>2, EffectPays
  <1>12. phase = "deposit" => delta + balance'["src"] <= args.deposit
    <2> SUFFICES ASSUME phase = "deposit" PROVE delta + balance'["src"] <= args.deposit
      OBVIOUS
    <2>1. balance'["src"] <= balance["src"]
      BY <1>3, <1>7, EffectPays DEF Due
    <2>2. delta + balance["src"] <= args.deposit
      BY DEF PaidOK
    <2> QED
      BY <1>7, <1>8, <2>1, <2>2
  <1> QED
    BY <1>6, <1>9, <1>10, <1>11, <1>12 DEF Within

\* A refused transaction costs nothing, and ends the run that waits for it.
LEMMA PaidRefused == ASSUME IInv, PaidOK, NEW s \in Accounts, Refused(s) PROVE PaidOK'
  <1>1. /\ open[s] # <<>> /\ open' = [open EXCEPT ![s] = Tail(@)]
        /\ IF Awaited(s) THEN Ended ELSE UNCHANGED locals
        /\ UNCHANGED <<balance, funds, gaveUp>>
    BY DEF Refused, history, chain, vault
  <1>2. /\ phase' = "idle" => waits' = None
        /\ phase' # "idle" => args' \in Commands
    BY <1>1 DEF PaidOK, Ended, locals
  <1> SUFFICES ASSUME ~gaveUp
               PROVE  /\ Alone' /\ Asked' /\ \A k \in Keepers : Within(funds[k])'
                      /\ \A r \in Accounts : open'[r] # <<>> => Due(Head(open[r]))'
                      /\ phase' # "deposit"
    BY <1>1, <1>2 DEF PaidOK
  <1>3. waits = s /\ Len(open[s]) = 1 /\ Awaited(s) /\ \A r \in Accounts : r # s => open[r] = <<>>
    BY <1>1 DEF PaidOK, Alone, Awaited
  <1>4. waits' = None /\ phase' = "idle" /\ \A r \in Accounts : open'[r] = <<>>
    <2>1. Tail(open[s]) = <<>>
      <3>1. open[s] \in Seq(Tx)
        BY DEF IInv, TypeOK
      <3> QED
        BY <1>3, <3>1, TailOfOne
    <2> QED
      BY <1>1, <1>3, <2>1 DEF IInv, TypeOK, Ended
  <1>5. Alone'
    BY <1>4 DEF Alone
  <1> QED
    BY <1>1, <1>4, <1>5 DEF PaidOK, Asked, Within

\* No step pays anything twice.
LEMMA PaidStep == IInv /\ PaidOK /\ [Next]_vars => PaidOK'
  <1> SUFFICES ASSUME IInv, PaidOK, [Next]_vars PROVE PaidOK'
    OBVIOUS
  <1>1. balance["src"] \in Nat /\ \A k \in Keepers : funds[k] \in Nat
    BY Measured
  <1>2. CASE UNCHANGED <<balance, funds, open, locals, gaveUp>>
    BY <1>1, <1>2, PaidSpending DEF locals
  <1>3. CASE Chain
    BY <1>3, PaidExecuted, PaidRefused DEF Chain
  <1>4. CASE Script
    BY <1>4, PaidScript
  <1>5. CASE Stop
    BY <1>5, PaidQuiet DEF Stop, Ended, chain
  <1>6. ASSUME NEW a \in Commands, Start(a) PROVE PaidOK'
    BY <1>6, PaidQuiet DEF Start, PaidOK, chain
  <1>7. CASE OwnerPauses \/ OwnerSetsKeeper \/ OwnerTightens
    BY <1>2, <1>7 DEF OwnerPauses, OwnerSetsKeeper, OwnerTightens, Vault!SetPaused,
                      Vault!SetKeeper, Vault!TightenLimits
  <1>8. CASE OwnerWithdraws
    <2>1. PICK a \in Amounts : Vault!Withdraw(Owner, "src", a)
      BY <1>8 DEF OwnerWithdraws
    <2>2. balance'["src"] \in Nat /\ balance'["src"] <= balance["src"]
      <3>1. /\ balance' = [balance EXCEPT !["src"] = @ - a] /\ a <= balance["src"]
            /\ balance \in [Vault!Tokens -> Nat] /\ a \in Nat
        BY <2>1 DEF Vault!Withdraw, IInv, TypeOK, Vault!TypeOK
      <3> QED
        BY <1>1, <3>1 DEF Vault!Tokens
    <2>3. UNCHANGED <<funds, open, locals, gaveUp>>
      BY <1>8 DEF OwnerWithdraws, history
    <2> QED
      BY <1>1, <2>2, <2>3, PaidSpending DEF locals
  <1>9. CASE ServiceTrades
    <2>1. PICK a \in Amounts : keyFile \in Keepers /\ Trade(keyFile, a)
      BY <1>9 DEF ServiceTrades
    <2>2. /\ balance'["src"] \in Nat /\ balance'["src"] <= balance["src"]
          /\ \A k \in Keepers : funds'[k] \in Nat /\ funds'[k] <= funds[k]
      BY <2>1, TradeEffect
    <2> QED
      BY <1>9, <2>2, PaidSpending DEF ServiceTrades, locals, history
  <1>10. CASE ServiceStarts \/ Enable \/ \E k \in Keepers : PutKey(k) \/ TruncateKey(k) \/ RewriteKey(k)
    BY <1>2, <1>10
    DEF ServiceStarts, Enable, PutKey, TruncateKey, RewriteKey, chain, vault, history
  <1>11. CASE UNCHANGED vars
    BY <1>2, <1>11 DEF vars, chain, vault, history
  <1> QED
    BY <1>3, <1>4, <1>5, <1>6, <1>7, <1>8, <1>9, <1>10, <1>11 DEF Next, OwnerActs, Service

\* The vault holds no more than the largest deposit asked for and a keeper no more than
\* its largest target: as long as no run has left a transaction behind, crashes between
\* two transactions and reruns pay nothing twice.
THEOREM FundedAsAskedHolds == Spec => []FundedAsAsked
  <1>1. Init => PaidOK
    <2> SUFFICES ASSUME Init PROVE PaidOK
      OBVIOUS
    <2>1. PICK a \in Commands : TRUE
      OBVIOUS
    <2>2. a.deposit \in Nat /\ balance["src"] = 0
      BY CommandFields DEF Init, Vault!Tokens
    <2>3. Asked
      BY <2>2 DEF Asked
    <2>4. Alone
      BY DEF Init, Alone
    <2> QED
      BY <2>3, <2>4 DEF Init, PaidOK, Within
  <1>2. PaidOK => FundedAsAsked
    BY DEF PaidOK, Asked, Within, FundedAsAsked
  <1>3. Spec => [](IInv /\ PaidOK)
    BY <1>1, InitInv, StepInv, PaidStep, PTL DEF Spec
  <1> QED
    BY <1>2, <1>3, PTL

-----------------------------------------------------------------------------
(* The contract's guarantees *)

Contract == INSTANCE StrategyVaultProofs

\* The constants of the contract are what it expects.
LEMMA ContractAssumption == Contract!VaultAssumption
  BY DEF Contract!VaultAssumption

\* Its state has the types it expects.
LEMMA ContractTypes == Vault!TypeOK => Contract!TypeOK
  BY DEF Vault!TypeOK, Vault!Tokens, Vault!Limits, Vault!Trade,
         Contract!TypeOK, Contract!Tokens, Contract!Limits, Contract!Trade

\* A contract nobody has used keeps its promises.
LEMMA UnusedIsSafe == Vault!TypeOK /\ Contract!Fresh => Contract!Safe
  BY ContractTypes, ContractAssumption, Contract!FreshIsSafe

\* The constructor runs on a contract nobody has used.
Deployed ==
    /\ ~deployed /\ deployed'
    /\ Contract!Fresh => Contract!Fresh'

\* Nobody reaches the contract before it is deployed.
Untouched == UNCHANGED vault /\ deployed' = deployed

Used == deployed /\ deployed' /\ Contract!Transaction

\* A trade is a transaction of the contract.
LEMMA TradeUses ==
    ASSUME IInv, NEW k \in Keepers, NEW a \in Amounts, Trade(k, a) PROVE Used
  <1>1. PICK wait \in Times : Vault!ExecuteSwap(k, a, a, now + wait, a, a)
    BY DEF Trade
  <1>2. now + wait \in Nat /\ a \in Nat
    BY DEF IInv, TypeOK, Vault!TypeOK
  <1>3. Contract!ExecuteSwap(k, a, a, now + wait, a, a)
    BY <1>1 DEF Vault!ExecuteSwap, Vault!Accepts, Vault!Exchange, Vault!contract,
                Contract!ExecuteSwap, Contract!Accepts, Contract!Exchange, Contract!contract
  <1> QED
    BY <1>2, <1>3 DEF Used, Trade, Contract!Transaction, Contract!Users

\* So are the other effects of the chain, apart from the deployment.
LEMMA EffectUses ==
    ASSUME IInv, NEW t \in Tx, t.kind = "swap" => t.amount \in Amounts, Effect(t)
    PROVE  Deployed \/ Untouched \/ Used
  <1>1. t.amount \in Nat /\ t.key \in Keepers
    BY TxFields
  <1>2. CASE Deploy(t)
    BY <1>2 DEF Deploy, Deployed, Contract!Fresh
  <1>3. CASE Approve(t) \/ Fund(t)
    BY <1>3 DEF Approve, Fund, Untouched
  <1>4. CASE Deposit(t)
    <2>1. Contract!Deposit(Owner, "src", t.amount) /\ deployed /\ deployed' = deployed
      BY <1>4 DEF Deposit, Vault!Deposit, Vault!contract, Contract!Deposit, Contract!contract
    <2> QED
      BY <1>1, <2>1 DEF Used, Contract!Transaction, Contract!Users, Contract!Tokens
  <1>5. CASE Unpause(t)
    <2>1. Contract!SetPaused(Owner, FALSE) /\ deployed /\ deployed' = deployed
      BY <1>5 DEF Unpause, Vault!SetPaused, Contract!SetPaused
    <2> QED
      BY <2>1 DEF Used, Contract!Transaction, Contract!Users
  <1>6. CASE t.kind = "swap" /\ Trade(t.key, t.amount)
    BY <1>1, <1>6, TradeUses
  <1> QED
    BY <1>2, <1>3, <1>4, <1>5, <1>6 DEF Effect

\* Script, service and owner are its users, and touch it only once it is there.
LEMMA StepUses == IInv /\ [Next]_vars => Deployed \/ Untouched \/ Used
  <1> SUFFICES ASSUME IInv, [Next]_vars PROVE Deployed \/ Untouched \/ Used
    OBVIOUS
  <1>1. ASSUME NEW s \in Accounts, Executed(s) PROVE Deployed \/ Untouched \/ Used
    <2>1. PICK t : t = Head(open[s])
      OBVIOUS
    <2>2. t \in Tx /\ (t.kind = "swap" => t.amount \in Amounts) /\ Effect(t)
      BY <1>1, <2>1, TailSound DEF Executed, history, IInv, TypeOK, Sound
    <2> QED
      BY <2>2, EffectUses
  <1>2. CASE OwnerActs
    <2>0. keeper \in Keepers /\ Owner \in Contract!Users
      BY DEF IInv, TypeOK, Vault!TypeOK, Contract!Users
    <2>1. CASE OwnerPauses
      <3>1. Contract!SetPaused(Owner, TRUE) /\ deployed /\ deployed' = deployed
        BY <2>1 DEF OwnerPauses, ByHand, Vault!SetPaused, Contract!SetPaused
      <3> QED
        BY <2>0, <3>1 DEF Used, Contract!Transaction
    <2>2. CASE OwnerSetsKeeper
      <3>1. /\ Contract!SetKeeper(Owner, keyFile) /\ keyFile \in Keepers
            /\ deployed /\ deployed' = deployed
        BY <2>2 DEF OwnerSetsKeeper, ByHand, Vault!SetKeeper, Contract!SetKeeper
      <3> QED
        BY <2>0, <3>1 DEF Used, Contract!Transaction
    <2>3. CASE OwnerTightens
      <3>1. PICK new \in Envelopes : Vault!TightenLimits(Owner, new)
        BY <2>3 DEF OwnerTightens
      <3>2. new \in Contract!Limits /\ Contract!TightenLimits(Owner, new)
        BY <3>1 DEF Vault!Limits, Contract!Limits, Vault!TightenLimits, Contract!TightenLimits
      <3> QED
        BY <2>0, <2>3, <3>2 DEF Used, Contract!Transaction, OwnerTightens, ByHand
    <2>4. CASE OwnerWithdraws
      <3>1. PICK a \in Amounts : Vault!Withdraw(Owner, "src", a)
        BY <2>4 DEF OwnerWithdraws
      <3>2. a \in Nat /\ Contract!Withdraw(Owner, "src", a)
        BY <3>1 DEF Vault!Withdraw, Vault!contract, Contract!Withdraw, Contract!contract
      <3> QED
        BY <2>0, <2>4, <3>2
        DEF Used, Contract!Transaction, Contract!Tokens, OwnerWithdraws, ByHand
    <2> QED
      BY <1>2, <2>1, <2>2, <2>3, <2>4 DEF OwnerActs
  <1>3. CASE ServiceTrades
    BY <1>3, TradeUses DEF ServiceTrades
  <1>4. CASE UNCHANGED chain
    BY <1>4 DEF chain, Untouched
  <1>5. CASE (\E s \in Accounts : Refused(s)) \/ Stop \/ (\E a \in Commands : Start(a))
    BY <1>4, <1>5 DEF Refused, Stop, Start
  <1>6. CASE Script
    BY <1>4, <1>6 DEF Script, KeeperWallet, CreateKeyFile, WriteKeyFile, DeployOrReuse,
                      ApproveMissing, DepositMissing, UnpauseVault, WriteConfig, FundKeeper,
                      Exercise, Report
  <1>7. CASE ServiceStarts \/ Enable \/ \E k \in Keepers : PutKey(k) \/ TruncateKey(k) \/ RewriteKey(k)
    BY <1>4, <1>7 DEF ServiceStarts, Enable, PutKey, TruncateKey, RewriteKey
  <1>8. CASE UNCHANGED vars
    BY <1>4, <1>8 DEF vars
  <1> QED
    BY <1>1, <1>2, <1>3, <1>5, <1>6, <1>7, <1>8 DEF Next, Chain, Service

\* Until it is deployed nothing is known of the contract but that nobody has used it.
Custody == Contract!Safe /\ (~deployed => Contract!Fresh)

\* Every step keeps what the contract promises.
LEMMA CustodyStep == IInv /\ IInv' /\ Custody /\ [Next]_vars => Custody'
  <1> SUFFICES ASSUME IInv, IInv', Custody, [Next]_vars PROVE Custody'
    OBVIOUS
  <1>1. CASE Deployed
    <2>1. Contract!Fresh'
      BY <1>1 DEF Deployed, Custody
    <2>2. Vault!TypeOK'
      BY DEF IInv, TypeOK
    <2>3. (Vault!TypeOK /\ Contract!Fresh => Contract!Safe)'
      BY UnusedIsSafe, PTL
    <2>4. Contract!Safe'
      BY <2>1, <2>2, <2>3
    <2> QED
      BY <2>1, <2>4 DEF Custody
  <1>2. CASE Untouched
    <2>1. UNCHANGED Contract!vars
      BY <1>2 DEF Untouched, vault, Contract!vars, Contract!contract
    <2>2. Contract!Safe'
      BY <2>1, ContractAssumption, Contract!TransactionSafe DEF Custody
    <2>3. Contract!Fresh => Contract!Fresh'
      BY <1>2 DEF Untouched, vault, Contract!Fresh
    <2> QED
      BY <1>2, <2>2, <2>3 DEF Untouched, Custody
  <1>3. CASE Used
    BY <1>3, ContractAssumption, Contract!TransactionSafe DEF Used, Custody
  <1> QED
    BY <1>1, <1>2, <1>3, StepUses

\* A vault the script has deployed keeps every promise of the contract, whoever sends
\* what and in whichever order it is executed: late deposits and unpauses of runs that
\* gave up, trades of script and service with old and new keys, the owner in between.
THEOREM BootstrappedVaultKeepsPromises ==
    Spec => [](deployed => /\ Vault!WithinBudget /\ Vault!ReviewedWhenActive
                           /\ Vault!SwapsSpaced /\ Vault!TradesWithinSeed
                           /\ Vault!FundsAccounted)
  <1>1. Init => Custody
    <2> SUFFICES ASSUME Init PROVE Custody
      OBVIOUS
    <2>1. Contract!Fresh
      BY DEF Init, Contract!Fresh
    <2>2. Vault!TypeOK
      BY InitInv DEF IInv, TypeOK
    <2> QED
      BY <2>1, <2>2, UnusedIsSafe DEF Custody
  <1>2. Custody => /\ Vault!WithinBudget /\ Vault!ReviewedWhenActive /\ Vault!SwapsSpaced
                   /\ Vault!TradesWithinSeed /\ Vault!FundsAccounted
    BY DEF Custody, Contract!Safe, Contract!IInv, Contract!WithinBudget,
           Contract!ReviewedWhenActive, Contract!SwapsSpaced, Contract!TradesWithinSeed,
           Contract!FundsAccounted, Contract!Sum, Contract!Totals, Vault!WithinBudget,
           Vault!ReviewedWhenActive, Vault!SwapsSpaced, Vault!TradesWithinSeed,
           Vault!FundsAccounted, Vault!Sum, Vault!Totals
  <1>3. Spec => [](IInv /\ Custody)
    BY <1>1, InitInv, StepInv, CustodyStep, PTL DEF Spec
  <1> QED
    BY <1>2, <1>3, PTL
=============================================================================
