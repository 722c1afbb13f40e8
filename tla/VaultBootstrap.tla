--------------------------- MODULE VaultBootstrap ---------------------------
(***************************************************************************)
(* scripts/bootstrap_strategy_vault.py: an operator runs it, and runs it   *)
(* again after it failed, to get from nothing to a keeper key, a deployed, *)
(* funded and unpaused vault, a service configuration and a keeper that    *)
(* can pay.  Between two steps the script may die; a transaction it no     *)
(* longer waits for may still be executed.  The service works on the same  *)
(* key file and configuration file.  The vault is StrategyVault.           *)
(* The owner acts by hand only between two runs.                           *)
(***************************************************************************)
EXTENDS Integers, Sequences

CONSTANTS
    Owner, Keepers, Never, Amounts, Times, BPS, MaxTime, MaxNet,  \* of StrategyVault
    Commands,       \* command lines the operator uses
    Envelopes,      \* limits the owner tightens to
    Costs,          \* currency a keeper's call may take, as estimated
    MaxFaults,      \* bound: steps at which something fails
    None

VARIABLES
    keeper, limits, spent, last, paused, balance, now, seed, reviewed, net, trades,
    deployed,       \* the contract exists; before that its variables mean nothing
    allowance,      \* what the vault may take from the owner
    funds,          \* the keepers' currency
    open,           \* transactions sent, per account in the order of their nonces
    keyFile,        \* the keeper's private key, Empty or Absent
    configFile,     \* the service configuration on disk
    active,         \* the configuration the service runs with, None: not started
    service,        \* what is left of a PUT of the wallet key, None: nothing
    phase,          \* the next step of the script
    args, key, fresh, delta,    \* its locals: deployed_now, deposit_delta
    waits,          \* the account whose newest transaction it waits for
    faults,
    consent,        \* history: the vault may be unpaused
    discarded,      \* history: keys the service has overwritten
    gaveUp          \* history: a run ended and left a transaction behind

Vault == INSTANCE StrategyVault

vault    == <<keeper, limits, spent, last, paused, balance, now, seed, reviewed, net, trades>>
chain    == <<vault, deployed, allowance, funds>>
locals   == <<phase, args, key, fresh, delta, waits>>
admin    == <<active, service>>
history  == <<consent, discarded, gaveUp>>
vars     == <<chain, open, keyFile, configFile, admin, locals, faults, history>>

Accounts == {"owner", "keeper"}
Empty    == "empty"
Absent   == "absent"
Phases   == {"idle", "key", "create", "write", "inspect", "balance", "deposit", "status",
             "config", "plan", "swap", "done"}
Kinds    == {"deploy", "approve", "deposit", "unpause", "fund", "swap"}
Command  == [limits : Vault!Limits, deposit : Nat \ {0}, exercise : Amounts \ {0}, floor : Nat,
             execute : BOOLEAN, swap : BOOLEAN, unpause : BOOLEAN]
Config   == [keeper : Keepers, limits : Vault!Limits, execute : BOOLEAN]
Puts     == {"truncate", "write"} \X Keepers
Tx       == [kind : Kinds, key : Keepers, limits : Vault!Limits, amount : Nat]

ASSUME BootstrapAssumption ==
    /\ Owner \notin Keepers /\ Keepers # {}
    /\ Amounts \subseteq Nat /\ Times \subseteq Nat
    /\ BPS \in Nat \ {0} /\ MaxTime \in Nat /\ MaxNet \in Nat /\ Never \notin Nat
    /\ Commands \subseteq Command /\ Commands # {}
    /\ Envelopes \subseteq Vault!Limits
    /\ Costs \subseteq Nat \ {0} /\ MaxFaults \in Nat
    /\ {Empty, Absent} \cap Keepers = {}
    /\ None \notin Accounts \cup Keepers \cup Config \cup Command \cup Puts

TypeOK ==
    /\ Vault!TypeOK /\ deployed \in BOOLEAN /\ allowance \in Nat
    /\ funds \in [Keepers -> Nat]
    /\ open \in [Accounts -> Seq(Tx)]
    /\ keyFile \in Keepers \cup {Empty, Absent}
    /\ configFile \in Config \cup {None} /\ active \in Config \cup {None}
    /\ service \in {None} \cup Puts
    /\ phase \in Phases /\ args \in Command \cup {None} /\ key \in Keepers \cup {None}
    /\ fresh \in BOOLEAN /\ delta \in Nat /\ waits \in Accounts \cup {None}
    /\ faults \in Nat
    /\ consent \in BOOLEAN /\ discarded \subseteq Keepers /\ gaveUp \in BOOLEAN

Unset == CHOOSE l \in Vault!Limits : TRUE

Init ==
    /\ keeper = (CHOOSE k \in Keepers : TRUE) /\ limits = Unset /\ seed = Unset
    /\ spent = 0 /\ last = Never /\ paused = TRUE /\ now = 0 /\ trades = <<>>
    /\ balance = [t \in Vault!Tokens |-> 0] /\ net = balance
    /\ reviewed = [keeper |-> keeper, limits |-> limits]
    /\ deployed = FALSE /\ allowance = 0 /\ funds = [k \in Keepers |-> 0]
    /\ open = [s \in Accounts |-> <<>>]
    /\ keyFile = Absent /\ configFile = None /\ active = None /\ service = None
    /\ phase = "idle" /\ args = None /\ key = None /\ fresh = FALSE /\ delta = 0
    /\ waits = None
    /\ faults = 0 /\ consent = FALSE /\ discarded = {} /\ gaveUp = FALSE

-----------------------------------------------------------------------------
(* The chain: a transaction is executed, or refused and without effect *)

Deploy(t) ==
    /\ t.kind = "deploy" /\ ~deployed /\ Vault!ValidSeed(t.limits)
    /\ deployed' = TRUE
    /\ keeper' = t.key /\ limits' = t.limits /\ seed' = t.limits
    /\ reviewed' = [keeper |-> t.key, limits |-> t.limits]
    /\ UNCHANGED <<spent, last, paused, balance, now, net, trades, allowance, funds>>

Approve(t) ==
    /\ t.kind = "approve"
    /\ allowance' = t.amount
    /\ UNCHANGED <<vault, deployed, funds>>

Deposit(t) ==
    /\ t.kind = "deposit" /\ deployed /\ t.amount <= allowance
    /\ Vault!Deposit(Owner, "src", t.amount)
    /\ allowance' = allowance - t.amount
    /\ UNCHANGED <<deployed, funds>>

Unpause(t) ==
    /\ t.kind = "unpause" /\ deployed
    /\ Vault!SetPaused(Owner, FALSE)
    /\ UNCHANGED <<deployed, allowance, funds>>

Fund(t) ==
    /\ t.kind = "fund"
    /\ funds' = [funds EXCEPT ![t.key] = @ + t.amount]
    /\ UNCHANGED <<vault, deployed, allowance>>

\* The exchange pays one for one: what it pays is StrategyVault's subject.
Trade(caller, amount) ==
    /\ deployed
    /\ \E wait \in Times : Vault!ExecuteSwap(caller, amount, amount, now + wait, amount, amount)
    /\ \E cost \in Costs : /\ cost <= funds[caller]
                           /\ funds' = [funds EXCEPT ![caller] = @ - cost]
    /\ UNCHANGED <<deployed, allowance>>

Effect(t) ==
    \/ Deploy(t) \/ Approve(t) \/ Deposit(t) \/ Unpause(t) \/ Fund(t)
    \/ t.kind = "swap" /\ Trade(t.key, t.amount)

\* Nothing the contract checks stands against it. A swap may always be refused:
\* the price has moved.
Welcome(t) ==
    \/ t.kind = "deploy" /\ ~deployed /\ Vault!ValidSeed(t.limits)
    \/ t.kind \in {"approve", "fund"}
    \/ t.kind = "deposit" /\ deployed /\ t.amount <= allowance
    \/ t.kind = "unpause" /\ deployed

\* The oldest transaction of s is the one the script waits for.
Awaited(s) == waits = s /\ Len(open[s]) = 1

\* The script ends, whatever it did: nothing of it is left in memory.
Ended ==
    /\ phase' = "idle" /\ args' = None /\ key' = None /\ fresh' = FALSE /\ delta' = 0
    /\ waits' = None

Executed(s) ==
    /\ open[s] # <<>> /\ Effect(Head(open[s]))
    /\ open' = [open EXCEPT ![s] = Tail(@)]
    /\ waits' = IF Awaited(s) THEN None ELSE waits
    /\ UNCHANGED <<keyFile, configFile, admin, phase, args, key, fresh, delta, faults, history>>

\* Mutant: only a submission that was not accepted counts as failed, not a receipt.
RefusedUnseen(s) ==
    /\ open[s] # <<>>
    /\ Welcome(Head(open[s])) => faults < MaxFaults
    /\ faults' = IF Welcome(Head(open[s])) THEN faults + 1 ELSE faults
    /\ open' = [open EXCEPT ![s] = Tail(@)]
    /\ waits' = IF Awaited(s) THEN None ELSE waits
    /\ UNCHANGED <<chain, keyFile, configFile, admin, phase, args, key, fresh, delta, history>>

\* _require_success: the script ends with an error.
Refused(s) ==
    /\ open[s] # <<>>
    /\ Welcome(Head(open[s])) => faults < MaxFaults
    /\ faults' = IF Welcome(Head(open[s])) THEN faults + 1 ELSE faults
    /\ open' = [open EXCEPT ![s] = Tail(@)]
    /\ IF Awaited(s) THEN Ended ELSE UNCHANGED locals
    /\ UNCHANGED <<chain, keyFile, configFile, admin, history>>

-----------------------------------------------------------------------------
(* The script *)

AcceptedByParser(a) ==
    /\ a.swap => a.execute
    /\ a.exercise <= a.limits.trade
    /\ a.exercise <= a.deposit

Start(a) ==
    /\ phase = "idle" /\ AcceptedByParser(a)
    /\ phase' = "key" /\ args' = a
    /\ consent' = (consent \/ (a.execute /\ a.unpause))
    /\ UNCHANGED <<chain, open, keyFile, configFile, admin, key, fresh, delta, waits, faults,
                   discarded, gaveUp>>

\* Everything below happens only in a run that is not waiting for the chain.
At(p) == phase = p /\ waits = None

Enter(p) == phase' = p /\ UNCHANGED <<args, key, fresh, delta, waits>>

Send(s, kind, amount, p) ==
    /\ open' = [open EXCEPT ![s] = Append(@, [kind |-> kind, key |-> key,
                                              limits |-> args.limits, amount |-> amount])]
    /\ phase' = p /\ waits' = s
    /\ UNCHANGED <<args, key>>

\* Wallet(): a key nobody else has.
NewKey(k) == k \notin discarded \cup {keyFile, key} /\ (deployed => k # keeper)

\* Mutant: the file is not looked at.
KeeperWalletAlwaysNew ==
    /\ At("key")
    /\ \E k \in Keepers :
         /\ NewKey(k)
         /\ IF args.execute
              THEN phase' = "create" /\ key' = k /\ UNCHANGED <<args, fresh, delta, waits>>
              ELSE Ended
    /\ UNCHANGED <<chain, open, keyFile, configFile, admin, faults, history>>

\* _keeper_wallet. The plan that is the default ends after it.
KeeperWallet ==
    /\ At("key")
    /\ \/ keyFile = Empty /\ Ended
       \/ ~args.execute /\ Ended
       \/ /\ args.execute /\ keyFile \in Keepers
          /\ phase' = "inspect" /\ key' = keyFile
          /\ UNCHANGED <<args, fresh, delta, waits>>
       \/ /\ args.execute /\ keyFile = Absent
          /\ \E k \in Keepers : NewKey(k) /\ key' = k
          /\ phase' = "create"
          /\ UNCHANGED <<args, fresh, delta, waits>>
    /\ UNCHANGED <<chain, open, keyFile, configFile, admin, faults, history>>

\* write_text: the file is truncated, then written.
CreateKeyFile ==
    /\ At("create")
    /\ keyFile' = Empty /\ Enter("write")
    /\ UNCHANGED <<chain, open, configFile, admin, faults, history>>

WriteKeyFile ==
    /\ At("write")
    /\ keyFile' = key /\ Enter("inspect")
    /\ UNCHANGED <<chain, open, configFile, admin, faults, history>>

\* Mutant: the limits of a vault that exists are not compared.
MatchesKeeper == keeper = key

\* _assert_existing_strategy
Matches == keeper = key /\ limits = args.limits

\* Mutant: every run deploys.
DeployAgain ==
    /\ At("inspect")
    /\ Send("owner", "deploy", 0, "balance") /\ fresh' = TRUE /\ UNCHANGED delta
    /\ consent' = TRUE
    /\ UNCHANGED <<chain, keyFile, configFile, admin, faults, discarded, gaveUp>>

\* A vault the script deploys may be unpaused by it.
DeployOrReuse ==
    /\ At("inspect")
    /\ \/ /\ ~deployed
          /\ Send("owner", "deploy", 0, "balance") /\ fresh' = TRUE /\ UNCHANGED delta
          /\ consent' = TRUE
       \/ /\ deployed
          /\ IF Matches THEN Enter("balance") ELSE Ended
          /\ UNCHANGED <<open, consent>>
    /\ UNCHANGED <<chain, keyFile, configFile, admin, faults, discarded, gaveUp>>

\* Mutant: the whole deposit is sent, whatever the vault holds.
ApproveWhole ==
    /\ At("balance")
    /\ IF balance["src"] < args.deposit
         THEN Send("owner", "approve", args.deposit, "deposit")
              /\ delta' = args.deposit /\ UNCHANGED fresh
         ELSE Enter("status") /\ UNCHANGED open
    /\ UNCHANGED <<chain, keyFile, configFile, admin, faults, history>>

ApproveMissing ==
    /\ At("balance")
    /\ LET missing == args.deposit - balance["src"]
       IN IF missing > 0
            THEN Send("owner", "approve", missing, "deposit")
                 /\ delta' = missing /\ UNCHANGED fresh
            ELSE Enter("status") /\ UNCHANGED open
    /\ UNCHANGED <<chain, keyFile, configFile, admin, faults, history>>

DepositMissing ==
    /\ At("deposit")
    /\ Send("owner", "deposit", delta, "status") /\ UNCHANGED <<fresh, delta>>
    /\ UNCHANGED <<chain, keyFile, configFile, admin, faults, history>>

\* Mutant: whatever is paused is unpaused.
UnpauseAnyVault ==
    /\ At("status")
    /\ IF paused
         THEN Send("owner", "unpause", 0, "config") /\ UNCHANGED <<fresh, delta>>
         ELSE Enter("config") /\ UNCHANGED open
    /\ UNCHANGED <<chain, keyFile, configFile, admin, faults, history>>

UnpauseVault ==
    /\ At("status")
    /\ \/ ~paused /\ Enter("config") /\ UNCHANGED open
       \/ /\ paused /\ (fresh \/ args.unpause)
          /\ Send("owner", "unpause", 0, "config") /\ UNCHANGED <<fresh, delta>>
       \/ /\ paused /\ ~fresh /\ ~args.unpause
          /\ IF args.swap THEN Ended ELSE Enter("config")
          /\ UNCHANGED open
    /\ UNCHANGED <<chain, keyFile, configFile, admin, faults, history>>

\* save_config replaces the file: dry-run, the keeper and limits just checked.
WriteConfig ==
    /\ At("config")
    /\ configFile' = [keeper |-> key, limits |-> args.limits, execute |-> FALSE]
    /\ Enter("plan")
    /\ UNCHANGED <<chain, open, keyFile, admin, faults, history>>

\* Mutant: no max with zero.
TopUpSigned(cost) == (IF args.floor < cost THEN cost ELSE args.floor) - funds[key]

TopUp(cost) ==
    LET target == IF args.floor < cost THEN cost ELSE args.floor
    IN IF funds[key] < target THEN target - funds[key] ELSE 0

\* _prepare_exercise estimates the call, which fails while the vault is paused;
\* the keeper's account is raised to the target.
FundKeeper ==
    /\ At("plan")
    /\ \/ paused /\ Ended /\ UNCHANGED open
       \/ \E cost \in Costs :
            IF TopUp(cost) # 0
              THEN Send("owner", "fund", TopUp(cost), "swap") /\ UNCHANGED <<fresh, delta>>
              ELSE Enter("swap") /\ UNCHANGED open
    /\ UNCHANGED <<chain, keyFile, configFile, admin, faults, history>>

\* _exercise signs with the key the configuration names, read from the file again.
Exercise ==
    /\ At("swap")
    /\ \/ ~args.swap /\ Enter("done") /\ UNCHANGED open
       \/ /\ args.swap /\ keyFile \in Keepers
          /\ open' = [open EXCEPT !["keeper"] =
                        Append(@, [kind |-> "swap", key |-> keyFile, limits |-> args.limits,
                                   amount |-> args.exercise])]
          /\ phase' = "done" /\ waits' = "keeper" /\ UNCHANGED <<args, key, fresh, delta>>
       \/ args.swap /\ keyFile \notin Keepers /\ Ended /\ UNCHANGED open
    /\ UNCHANGED <<chain, keyFile, configFile, admin, faults, history>>

Report ==
    /\ At("done") /\ Ended
    /\ UNCHANGED <<chain, open, keyFile, configFile, admin, faults, history>>

\* The script is killed, a query fails, or it gives up waiting.
Stop ==
    /\ phase # "idle" /\ faults < MaxFaults
    /\ faults' = faults + 1
    /\ gaveUp' = (gaveUp \/ waits # None)
    /\ Ended
    /\ UNCHANGED <<chain, open, keyFile, configFile, admin, consent, discarded>>

Script ==
    \/ KeeperWallet \/ CreateKeyFile \/ WriteKeyFile \/ DeployOrReuse
    \/ ApproveMissing \/ DepositMissing \/ UnpauseVault
    \/ WriteConfig \/ FundKeeper \/ Exercise \/ Report

-----------------------------------------------------------------------------
(* The owner by hand *)

\* A script that is gone sends nothing more: what the owner sends comes after it.
ByHand == phase = "idle" /\ deployed /\ open["owner"] = <<>>

OwnerPauses ==
    /\ ByHand /\ ~paused /\ Vault!SetPaused(Owner, TRUE)
    /\ consent' = FALSE
    /\ UNCHANGED <<deployed, allowance, funds, open, keyFile, configFile, admin, locals, faults,
                   discarded, gaveUp>>

\* Rotation: the service has written a new key, the owner makes it the keeper.
OwnerSetsKeeper ==
    /\ ByHand /\ keyFile \in Keepers \ {keeper} /\ Vault!SetKeeper(Owner, keyFile)
    /\ consent' = FALSE
    /\ UNCHANGED <<deployed, allowance, funds, open, keyFile, configFile, admin, locals, faults,
                   discarded, gaveUp>>

OwnerTightens ==
    /\ ByHand /\ \E new \in Envelopes \ {limits} : Vault!TightenLimits(Owner, new)
    /\ consent' = FALSE
    /\ UNCHANGED <<deployed, allowance, funds, open, keyFile, configFile, admin, locals, faults,
                   discarded, gaveUp>>

OwnerWithdraws ==
    /\ ByHand /\ \E a \in Amounts : Vault!Withdraw(Owner, "src", a)
    /\ UNCHANGED <<deployed, allowance, funds, open, keyFile, configFile, admin, locals, faults,
                   history>>

-----------------------------------------------------------------------------
(* The service *)

\* It starts, or dies and starts again, with the file it finds.
ServiceStarts ==
    /\ configFile # None /\ <<active, service>> # <<configFile, None>>
    /\ active' = configFile /\ service' = None
    /\ UNCHANGED <<chain, open, keyFile, configFile, locals, faults, history>>

Publish(c) == active' = c /\ configFile' = c

\* Mutant: a new key leaves execution as it is.
PutKeyKeepExecuting(k) ==
    /\ active # None /\ service = None /\ NewKey(k)
    /\ Publish(active)
    /\ service' = <<"truncate", k>>
    /\ UNCHANGED <<chain, open, keyFile, locals, faults, history>>

\* persist_wallet_key with overwrite: the configuration is published dry, then the
\* file is truncated and written.
PutKey(k) ==
    /\ active # None /\ service = None /\ NewKey(k)
    /\ Publish([active EXCEPT !.execute = FALSE])
    /\ service' = <<"truncate", k>>
    /\ UNCHANGED <<chain, open, keyFile, locals, faults, history>>

TruncateKey(k) ==
    /\ service = <<"truncate", k>>
    /\ discarded' = discarded \cup ({keyFile} \cap Keepers)
    /\ keyFile' = Empty /\ service' = <<"write", k>>
    /\ UNCHANGED <<chain, open, configFile, active, locals, faults, consent, gaveUp>>

RewriteKey(k) ==
    /\ service = <<"write", k>>
    /\ keyFile' = k /\ service' = None
    /\ UNCHANGED <<chain, open, configFile, active, locals, faults, history>>

\* persist_config lets execution be enabled with the key of the configured keeper.
Enable ==
    /\ active # None /\ service = None /\ ~active.execute
    /\ keyFile = active.keeper
    /\ Publish([active EXCEPT !.execute = TRUE])
    /\ UNCHANGED <<chain, open, keyFile, service, locals, faults, history>>

\* One trade of the worker, which KeeperTrades details.
ServiceTrades ==
    /\ active # None /\ active.execute /\ keyFile \in Keepers
    /\ \E a \in Amounts : Trade(keyFile, a)
    /\ UNCHANGED <<open, keyFile, configFile, admin, locals, faults, history>>

-----------------------------------------------------------------------------

Chain == \E s \in Accounts : Executed(s) \/ Refused(s)

OwnerActs == OwnerPauses \/ OwnerSetsKeeper \/ OwnerTightens \/ OwnerWithdraws

Service ==
    \/ ServiceStarts \/ Enable \/ ServiceTrades
    \/ \E k \in Keepers : PutKey(k) \/ TruncateKey(k) \/ RewriteKey(k)

Next == Chain \/ Script \/ Stop \/ (\E a \in Commands : Start(a)) \/ OwnerActs \/ Service

Spec == Init /\ [][Next]_vars

\* The script and the chain go on until they fail.
FairSpec == Spec /\ WF_vars(Script) /\ WF_vars(Chain)

-----------------------------------------------------------------------------
(* Properties *)

\* The key of the vault's keeper is in the key file, unless the service was told to
\* overwrite it: no crash between generating a key, writing it and deploying with it,
\* and no rerun after that, loses the key (_keeper_wallet before _deploy_vault).
KeeperKeyHeld == deployed => keeper \in {keyFile} \cup discarded

\* docs/WALLET_MODEL.md: a vault that exists is unpaused only when the owner asked
\* for it. Since the owner last paused it, changed its keeper or its limits, a run
\* has deployed the vault or had --unpause-existing.
UnpausedByConsent == (deployed /\ ~paused) => consent

\* A configuration the script has written, and what the service makes of it, allows
\* at least what the vault allows, the key of its keeper was in the key file, and
\* execution is on only while it is: across rotations, restarts, stale copies and
\* reruns (_assert_existing_strategy, _service_config, persist_config).
ConfigCoversVault ==
    \A c \in {configFile, active} \ {None} :
        /\ deployed
        /\ limits.trade <= c.limits.trade /\ limits.cap <= c.limits.cap
        /\ limits.slippage <= c.limits.slippage /\ c.limits.cooldown <= limits.cooldown
        /\ c.keeper \in {keyFile} \cup discarded
        /\ c.execute => keyFile = c.keeper

\* The vault holds no more than the largest deposit asked for, a keeper no more than
\* its largest target, until a run ends with a transaction of its own under way:
\* crashes between two transactions and reruns never pay anything twice.
FundedAsAsked ==
    \/ gaveUp
    \/ /\ \E a \in Commands : balance["src"] <= a.deposit
       /\ \A k \in Keepers : \/ funds[k] = 0
                             \/ \E a \in Commands : funds[k] <= a.floor
                             \/ \E cost \in Costs : funds[k] <= cost

\* A run that reports success has left the vault it was asked for, with the keeper
\* whose key it holds, funded, and active if it deployed it or was told to unpause.
ReadyWhenDone ==
    At("done") =>
        /\ deployed /\ Matches
        /\ args.deposit <= balance["src"] + spent
        /\ (fresh \/ args.unpause) => ~paused

\* Command lines that have the script unpause a vault that exists.
Unpausing == {a \in Commands : a.execute /\ a.unpause}

\* An operator who runs the commands with --unpause-existing again and again gets an
\* active vault, whatever failed on the way, unless what they ask for is not the vault
\* there is: the key file has lost its keeper's key, or it has other limits.
Recovers ==
    (\A a \in Unpausing : []<>(args = a)) =>
        \/ []<>(deployed /\ ~paused)
        \/ <>[]\/ keyFile = Empty
               \/ deployed /\ keyFile # keeper
               \/ deployed /\ \A a \in Unpausing : a.limits # limits
=============================================================================
