---------------------------- MODULE Configuration ----------------------------
(***************************************************************************)
(* Live configuration changes: configuration.py drains the shared          *)
(* execution and publishes a new configuration; worker.py adopts it;       *)
(* service.py and cli.py ask for it; storage.py keeps the two file locks,  *)
(* the runtime_config row and the market state that a change resets.       *)
(*                                                                         *)
(* Workers run the event loop, editors serve the admin API.  All of them   *)
(* share one database, one configuration file and one wallet key file.     *)
(* The execution itself is ExecutionJournal; here a pending swap is only   *)
(* settled or not.                                                         *)
(***************************************************************************)
EXTENDS Naturals

CONSTANTS
    Workers, Editors,   \* processes that run run_forever / the admin API
    Markets,            \* what rpc_url, chain_id and dex select
    Pairs,              \* what a rule's trigger.pair_id selects
    Targets,            \* bound: whole configurations the operator uploads or edits in
    Keys,               \* wallet keys
    FirstConfig,        \* the configuration all of them start from
    FirstKey,
    Published,          \* does the database already hold a runtime_config row?
    MaxGeneration,      \* bound: published configurations
    MaxEdits,           \* bound: edits of the local file by the operator
    Nobody, None

Procs   == Workers \cup Editors
\* pair is None when the rule does not exist.
Configs == [market : Markets, pair : Pairs \cup {None}, execute : BOOLEAN]
Origins == [market : Markets, pair : Pairs]

ASSUME ConfigurationAssumption ==
    /\ Workers \cap Editors = {} /\ Nobody \notin Procs
    /\ FirstConfig \in Configs /\ Targets \subseteq Configs /\ FirstKey \in Keys
    /\ Published \in BOOLEAN /\ MaxGeneration \in Nat \ {0} /\ MaxEdits \in Nat
    /\ None \notin Configs \cup Keys \cup Markets \cup Pairs \cup Origins

VARIABLES
    file,       \* config.yaml
    key,        \* the wallet key file
    stored,     \* runtime_config.config_json, or None before the first publication
    generation, \* runtime_config.generation
    baseline,   \* where the rule's baseline_price was observed, or None
    cursor,     \* the market whose event id the cursor row holds, or None
    pending,    \* the pending swap, or None
    confLock,   \* holder of the exclusive configuration lock, or Nobody
    execLock,   \* holder of the execution lock, or Nobody
    pc, mem,    \* place and memory of each process
    edits,      \* local edits so far
    enabled     \* history: keys for which the operator turned execution on

dbVars   == <<stored, generation, baseline, cursor, pending>>
lockVars == <<confLock, execLock>>
diskVars == <<file, key, edits, enabled>>
vars == <<dbVars, lockVars, diskVars, pc, mem>>

Swaps == [origin : Origins, key : Keys \cup {None}, sent : BOOLEAN]

Memory ==
    [cfg : Configs,                 \* worker.config / app.state.config
     gen : 0..MaxGeneration,        \* worker.config_generation
     client : Keys \cup {None},     \* the key the open DexClient signs with
     target : Configs \cup {None},  \* update(): the configuration to publish,
     newKey : Keys \cup {None},     \* the key to write after it,
     write : BOOLEAN,               \* whether commit() writes the file,
     wanted : BOOLEAN,              \* and whether the operator asked for execution
     mode : {"none", "evaluate", "trade", "recover", "drain"},  \* why it reconciles
     back : {"none", "wait", "watching", "handled", "ready"},   \* and where it returns
     allow : BOOLEAN]               \* allow_broadcast of the reconciliation

WorkerPlaces ==
    {"top", "generation", "wait", "open", "opening", "watching", "handled", "check", "save"}
EditorPlaces == {"ready", "onceGeneration", "onceOpen", "onceReady"}
UpdatePlaces == {"prepared", "draining", "publish", "store", "rekey"}
LockedPlaces == {"reconcile", "broadcasting", "rules", "evaluated"}
Places == {"off", "boot"} \cup WorkerPlaces \cup EditorPlaces \cup UpdatePlaces \cup LockedPlaces

TypeOK ==
    /\ file \in Configs /\ key \in Keys
    /\ stored \in Configs \cup {None} /\ generation \in 0..MaxGeneration
    /\ baseline \in Origins \cup {None} /\ cursor \in Markets \cup {None}
    /\ pending \in Swaps \cup {None}
    /\ confLock \in Procs \cup {Nobody} /\ execLock \in Procs \cup {Nobody}
    /\ pc \in [Procs -> Places] /\ mem \in [Procs -> Memory]
    /\ edits \in 0..MaxEdits /\ enabled \in SUBSET Keys

\* active_config(default): the row, or the process's own configuration.
Active(p) == IF stored = None THEN mem[p].cfg ELSE stored

\* Mutant: the revision is not compared.
ChangedConfigOnly(p) == Active(p) # mem[p].cfg

\* _configuration_changed
Changed(p) == generation # mem[p].gen \/ Active(p) # mem[p].cfg

Fresh(cfg) ==
    [cfg |-> cfg, gen |-> 0, client |-> None, target |-> None, newKey |-> None,
     write |-> FALSE, wanted |-> FALSE, mode |-> "none", back |-> "none", allow |-> FALSE]

Home(p) == IF p \in Workers THEN "top" ELSE "ready"

Init ==
    /\ file = FirstConfig /\ key = FirstKey
    /\ stored = IF Published THEN FirstConfig ELSE None
    /\ generation = IF Published THEN 1 ELSE 0
    /\ baseline = None /\ cursor = None /\ pending = None
    /\ confLock = Nobody /\ execLock = Nobody
    /\ pc = [p \in Procs |-> Home(p)]
    /\ mem = [p \in Procs |-> Fresh(FirstConfig)]
    /\ edits = 0
    /\ enabled = IF FirstConfig.execute THEN {FirstKey} ELSE {}

Move(p, from, to) == pc[p] = from /\ pc' = [pc EXCEPT ![p] = to]

\* The request or the watcher is over, and its locals go with it.
GoHome(p) ==
    /\ pc' = [pc EXCEPT ![p] = Home(p)]
    /\ mem' = [mem EXCEPT ![p] = Fresh(Active(p))]

-----------------------------------------------------------------------------
(* Processes start, stop and reload *)

\* load_config reads the local file; the database is compared afterwards.
Restart(p) ==
    /\ Move(p, "off", "boot")
    /\ mem' = [mem EXCEPT ![p] = Fresh(file)]
    /\ UNCHANGED <<dbVars, lockVars, diskVars>>

\* run_worker / lifespan: publish the local configuration when it differs from
\* the stored one.  commit() is empty: the file is where it came from.
Boot(p) ==
    /\ IF Active(p) = mem[p].cfg
       THEN Move(p, "boot", Home(p)) /\ UNCHANGED mem
       ELSE /\ Move(p, "boot", "prepared")
            /\ mem' = [mem EXCEPT ![p].target = mem[p].cfg, ![p].wanted = mem[p].cfg.execute]
    /\ UNCHANGED <<dbVars, lockVars, diskVars>>

Release(p) ==
    /\ confLock' = IF confLock = p THEN Nobody ELSE confLock
    /\ execLock' = IF execLock = p THEN Nobody ELSE execLock

\* A startup publication writes no file; the process ends if it fails.
Starting(p) == pc[p] = "boot" \/ (mem[p].target # None /\ ~mem[p].write)

\* Death of the process, or an exception or cancellation that ends the request
\* or restarts run_forever; either way the locks are freed.
Stop(p) ==
    /\ pc[p] # "off"
    /\ \/ pc' = [pc EXCEPT ![p] = "off"]
       \/ ~Starting(p) /\ pc' = [pc EXCEPT ![p] = Home(p)]
    /\ mem' = [mem EXCEPT ![p] = Fresh(Active(p))]
    /\ Release(p)
    /\ UNCHANGED <<dbVars, diskVars>>

\* The operator edits config.yaml by hand.
EditFile(cfg) ==
    /\ edits < MaxEdits
    /\ edits' = edits + 1
    /\ file' = cfg
    /\ UNCHANGED <<dbVars, lockVars, key, enabled, pc, mem>>

-----------------------------------------------------------------------------
(* The worker's life: run_forever, _run_configuration, _watch_events *)

ReadConfig(p) ==
    /\ \/ p \in Workers /\ Move(p, "top", "generation")
       \/ /\ confLock = Nobody /\ execLock = Nobody /\ pending = None   \* recover_once
          /\ p \in Editors /\ Move(p, "ready", "onceGeneration")
    /\ mem' = [mem EXCEPT ![p] = Fresh(Active(p))]
    /\ UNCHANGED <<dbVars, lockVars, diskVars>>

\* Mutant: the worker counts the revision it expects next.
ReadNextGeneration(p) ==
    /\ Move(p, "generation", "wait") \/ Move(p, "onceGeneration", "onceOpen")
    /\ mem' = [mem EXCEPT ![p].gen = generation + 1]
    /\ UNCHANGED <<dbVars, lockVars, diskVars>>

\* The revision is read by a query of its own.
ReadGeneration(p) ==
    /\ Move(p, "generation", "wait") \/ Move(p, "onceGeneration", "onceOpen")
    /\ mem' = [mem EXCEPT ![p].gen = generation]
    /\ UNCHANGED <<dbVars, lockVars, diskVars>>

\* Startup recovery precedes event watching; an event that made a submission is
\* not finished before the submission is.
Recovered(p) ==
    /\ pending = None
    /\ Move(p, "wait", "open") \/ Move(p, "handled", "check")
    /\ UNCHANGED <<mem, dbVars, lockVars, diskVars>>

\* The client is opened, and the key resolved, under the shared admission lock.
OpenClient(p) ==
    /\ confLock = Nobody /\ ~Changed(p)
    /\ Move(p, "open", "opening")
    /\ UNCHANGED <<mem, dbVars, lockVars, diskVars>>

ClientOpened(p) ==
    /\ Move(p, "opening", "watching")
    /\ mem' = [mem EXCEPT ![p].client = key]
    /\ UNCHANGED <<dbVars, lockVars, diskVars>>

\* evaluate_pair_once opens its client under no lock at all.
OpenOnce(p) ==
    /\ Move(p, "onceOpen", "onceReady")
    /\ mem' = [mem EXCEPT ![p].client = key]
    /\ UNCHANGED <<dbVars, lockVars, diskVars>>

\* _watch_configuration polls while the other tasks await something; a refused
\* or stale opening ends the same way.
Reload(p) ==
    /\ pc[p] \in {"wait", "open", "opening", "watching", "handled"}
    /\ Changed(p) \/ (pc[p] = "open" /\ confLock # Nobody)
    /\ GoHome(p)
    /\ UNCHANGED <<dbVars, lockVars, diskVars>>

-----------------------------------------------------------------------------
(* Execution under the shared execution lock *)

LeaveExecution(p, to) ==
    /\ IF to = "ready"
       THEN GoHome(p)
       ELSE /\ pc' = [pc EXCEPT ![p] = to]
            /\ mem' = [mem EXCEPT ![p].mode = "none", ![p].back = "none", ![p].allow = FALSE]
    /\ execLock' = Nobody
    /\ UNCHANGED confLock

Reconcile(p, mode, back, allow) ==
    /\ execLock = Nobody /\ execLock' = p
    /\ pc' = [pc EXCEPT ![p] = "reconcile"]
    /\ mem' = [mem EXCEPT ![p].mode = mode, ![p].back = back, ![p].allow = allow]

\* Mutant: the revision is not checked after the lock is claimed.
AdmitUnchecked(p) ==
    /\ pc[p] \in {"watching", "onceReady"}
    /\ confLock = Nobody
    /\ Reconcile(p, "evaluate", IF p \in Workers THEN "watching" ELSE "ready",
                 mem[p].cfg.execute)
    /\ UNCHANGED <<confLock, dbVars, diskVars>>

\* evaluation_lock passes the configuration gate, then claims the execution
\* lock; the revision is checked once it is held.
Admit(p) ==
    /\ pc[p] \in {"watching", "onceReady"}
    /\ confLock = Nobody /\ execLock = Nobody
    /\ IF Changed(p)
       THEN GoHome(p) /\ UNCHANGED execLock
       ELSE Reconcile(p, "evaluate", IF p \in Workers THEN "watching" ELSE "ready",
                      mem[p].cfg.execute)
    /\ UNCHANGED <<confLock, dbVars, diskVars>>

\* A manual evaluation is not repeated when it finds the locks taken.
RefuseOnce(p) ==
    /\ confLock # Nobody \/ execLock # Nobody
    /\ pc[p] = "onceReady"
    /\ GoHome(p)
    /\ UNCHANGED <<dbVars, lockVars, diskVars>>

\* recover_once
Recover(p) ==
    /\ pc[p] \in {"wait", "watching", "handled", "ready"}
    /\ pending # None /\ confLock = Nobody
    /\ Reconcile(p, "recover", pc[p], Active(p).execute)
    /\ UNCHANGED <<confLock, dbVars, diskVars>>

Broadcast(p) ==
    /\ pending # None /\ mem[p].allow
    /\ Move(p, "reconcile", "broadcasting")
    /\ pending' = [pending EXCEPT !.sent = TRUE]
    /\ UNCHANGED <<mem, stored, generation, baseline, cursor, lockVars, diskVars>>

\* A receipt, a refusal of the first attempt or a consumed nonce; a success
\* writes the baseline the run was begun with.
Settle(p) ==
    /\ pending # None /\ pending.sent
    /\ pc[p] \in {"reconcile", "broadcasting"}
    /\ pc' = [pc EXCEPT ![p] = "reconcile"]
    /\ baseline' \in {baseline, pending.origin}
    /\ pending' = None
    /\ UNCHANGED <<mem, stored, generation, cursor, lockVars, diskVars>>

AfterSettled == [drain |-> "publish", evaluate |-> "rules", trade |-> "evaluated"]

\* Mutant: the drain publishes although the swap is still pending.
EndReconcilePublish(p) ==
    /\ pc[p] \in {"reconcile", "broadcasting"}
    /\ IF pending = None \/ mem[p].mode = "drain"
       THEN IF mem[p].mode = "recover"
            THEN LeaveExecution(p, mem[p].back)
            ELSE pc' = [pc EXCEPT ![p] = AfterSettled[mem[p].mode]] /\ UNCHANGED <<mem, lockVars>>
       ELSE LeaveExecution(p, mem[p].back)
    /\ UNCHANGED <<dbVars, diskVars>>

EndReconcile(p) ==
    /\ pc[p] \in {"reconcile", "broadcasting"}
    /\ IF pending = None
       THEN IF mem[p].mode = "recover"
            THEN LeaveExecution(p, mem[p].back)
            ELSE pc' = [pc EXCEPT ![p] = AfterSettled[mem[p].mode]] /\ UNCHANGED <<mem, lockVars>>
       ELSE LeaveExecution(p, IF mem[p].mode = "drain" THEN "draining" ELSE mem[p].back)
    /\ UNCHANGED <<dbVars, diskVars>>

\* The first observation of a rule, and a dry run.
SaveBaseline(p) ==
    /\ Move(p, "rules", "evaluated")
    /\ mem[p].cfg.pair # None /\ (baseline = None \/ ~mem[p].cfg.execute)
    /\ baseline' = [market |-> mem[p].cfg.market, pair |-> mem[p].cfg.pair]
    /\ UNCHANGED <<mem, stored, generation, cursor, pending, lockVars, diskVars>>

\* begin_execution, then reconcile_execution(allow_broadcast=True)
BeginTrade(p) ==
    /\ mem[p].cfg.pair # None /\ mem[p].cfg.execute /\ baseline # None
    /\ Move(p, "rules", "reconcile")
    /\ pending' = [origin |-> [market |-> mem[p].cfg.market, pair |-> mem[p].cfg.pair],
                   key |-> mem[p].client, sent |-> FALSE]
    /\ mem' = [mem EXCEPT ![p].mode = "trade", ![p].allow = TRUE,
                          ![p].back = IF p \in Workers THEN "handled" ELSE "ready"]
    /\ UNCHANGED <<stored, generation, baseline, cursor, lockVars, diskVars>>

EndRules(p) ==
    /\ pc[p] \in {"rules", "evaluated"}
    /\ LeaveExecution(p, IF p \in Workers THEN "check" ELSE "ready")
    /\ UNCHANGED <<dbVars, diskVars>>

\* The cursor advances outside both locks: a check, then a write.
CheckCursor(p) ==
    /\ pc[p] = "check"
    /\ IF Changed(p)
       THEN GoHome(p)
       ELSE pc' = [pc EXCEPT ![p] = "save"] /\ UNCHANGED mem
    /\ UNCHANGED <<dbVars, lockVars, diskVars>>

SaveCursor(p) ==
    /\ Move(p, "save", "watching")
    /\ cursor' = mem[p].cfg.market
    /\ UNCHANGED <<mem, stored, generation, baseline, pending, lockVars, diskVars>>

-----------------------------------------------------------------------------
(* A configuration change *)

\* A request copies the active configuration, changes its own part of it, and
\* asks for it to be published: read first, locks later.
Prepare(p, target, newKey, wanted) ==
    /\ Move(p, "ready", "prepared")
    /\ mem' = [mem EXCEPT ![p].target = target, ![p].newKey = newKey,
                          ![p].write = TRUE, ![p].wanted = wanted]
    /\ UNCHANGED <<dbVars, lockVars, diskVars>>

UpsertRule(p, pair) == Prepare(p, [Active(p) EXCEPT !.pair = pair], None, FALSE)

\* Refused with 404 when there is no such rule.
DeleteRule(p) ==
    /\ Active(p).pair # None
    /\ Prepare(p, [Active(p) EXCEPT !.pair = None], None, FALSE)

UpdateWallet(p, execute) ==
    Prepare(p, [Active(p) EXCEPT !.execute = execute], None, execute)

PutConfig(p, cfg) == Prepare(p, cfg, None, cfg.execute)

\* A new key always turns execution off.
ReplaceKey(p, k) == Prepare(p, [Active(p) EXCEPT !.execute = FALSE], k, FALSE)

\* The exclusive configuration lock is not waited for ...
ClaimConfiguration(p) ==
    /\ confLock = Nobody /\ \A q \in Procs : pc[q] # "opening"
    /\ generation < MaxGeneration
    /\ confLock' = p
    /\ Move(p, "prepared", "draining")
    /\ UNCHANGED <<mem, execLock, dbVars, diskVars>>

\* ... and any reader of the gate, /health for one, makes the claim fail.
Busy(p) ==
    /\ Move(p, "prepared", IF Starting(p) THEN "off" ELSE "ready")
    /\ mem' = [mem EXCEPT ![p] = Fresh(Active(p))]
    /\ UNCHANGED <<dbVars, lockVars, diskVars>>

\* Mutant: the drain obeys the configuration it replaces.
DrainActive(p) ==
    /\ pc[p] = "draining"
    /\ Reconcile(p, "drain", "none", Active(p).execute)
    /\ UNCHANGED <<confLock, dbVars, diskVars>>

\* Mutant: the drain never broadcasts.
DrainReadOnly(p) ==
    /\ pc[p] = "draining"
    /\ Reconcile(p, "drain", "none", FALSE)
    /\ UNCHANGED <<confLock, dbVars, diskVars>>

\* One turn of update()'s loop.  Its recoveries on two endpoints are here two
\* steps at "reconcile".
Drain(p) ==
    /\ pc[p] = "draining"
    /\ Reconcile(p, "drain", "none", mem[p].target.execute)
    /\ UNCHANGED <<confLock, dbVars, diskVars>>

\* _publish: commit() replaces the local file ...
WriteFile(p) ==
    /\ Move(p, "publish", "store")
    /\ file' = IF mem[p].write THEN mem[p].target ELSE file
    /\ UNCHANGED <<key, edits, enabled, mem, dbVars, lockVars>>

\* Mutant: only a change of market resets the baseline.
StoreKeepPair(p) ==
    LET marketChanged == Active(p).market # mem[p].target.market IN
    /\ Move(p, "store", "rekey")
    /\ stored' = mem[p].target /\ generation' = generation + 1
    /\ baseline' = IF marketChanged THEN None ELSE baseline
    /\ cursor' = IF marketChanged THEN None ELSE cursor
    /\ enabled' = IF mem[p].wanted THEN enabled \cup {key} ELSE enabled
    /\ UNCHANGED <<mem, pending, lockVars, file, key, edits>>

\* Mutant: a change of market keeps the baseline.
StoreKeepMarket(p) ==
    /\ Move(p, "store", "rekey")
    /\ stored' = mem[p].target /\ generation' = generation + 1
    /\ baseline' = IF Active(p).pair # mem[p].target.pair THEN None ELSE baseline
    /\ cursor' = IF Active(p).market # mem[p].target.market THEN None ELSE cursor
    /\ enabled' = IF mem[p].wanted THEN enabled \cup {key} ELSE enabled
    /\ UNCHANGED <<mem, pending, lockVars, file, key, edits>>

\* ... save_active_config stores it, with _reset_changed_markets in the same
\* transaction ...
StoreConfig(p) ==
    LET previous == Active(p)
        target == mem[p].target
        marketChanged == previous.market # target.market
    IN
    /\ Move(p, "store", "rekey")
    /\ stored' = target /\ generation' = generation + 1
    /\ baseline' = IF marketChanged \/ previous.pair # target.pair THEN None ELSE baseline
    /\ cursor' = IF marketChanged THEN None ELSE cursor
    /\ enabled' = IF mem[p].wanted THEN enabled \cup {key} ELSE enabled
    /\ UNCHANGED <<mem, pending, lockVars, file, key, edits>>

\* ... and after_commit writes the new key; then both locks are released.
WriteKey(p) ==
    /\ pc[p] = "rekey"
    /\ key' = IF mem[p].newKey # None THEN mem[p].newKey ELSE key
    /\ GoHome(p)
    /\ Release(p)
    /\ UNCHANGED <<file, edits, enabled, dbVars>>

Request(p) ==
    /\ p \in Editors
    /\ \/ \E pair \in Pairs : UpsertRule(p, pair)
       \/ DeleteRule(p)
       \/ \E execute \in BOOLEAN : UpdateWallet(p, execute)
       \/ \E cfg \in Targets : PutConfig(p, cfg)
       \/ \E k \in Keys : ReplaceKey(p, k)

Step(p) ==
    \/ Boot(p) \/ ReadConfig(p) \/ ReadGeneration(p) \/ Recovered(p)
    \/ OpenClient(p) \/ ClientOpened(p) \/ OpenOnce(p) \/ Reload(p)
    \/ Admit(p) \/ RefuseOnce(p) \/ Recover(p) \/ Broadcast(p) \/ Settle(p) \/ EndReconcile(p)
    \/ SaveBaseline(p) \/ BeginTrade(p) \/ EndRules(p) \/ CheckCursor(p) \/ SaveCursor(p)
    \/ ClaimConfiguration(p) \/ Busy(p) \/ Drain(p)
    \/ WriteFile(p) \/ StoreConfig(p) \/ WriteKey(p)

Next ==
    \/ \E p \in Procs : Step(p) \/ Request(p) \/ Restart(p) \/ Stop(p)
    \/ \E cfg \in Targets : EditFile(cfg)

Spec == Init /\ [][Next]_vars

-----------------------------------------------------------------------------
(* Properties *)

Evaluating(p) ==
    pc[p] = "rules" \/ (pc[p] \in {"reconcile", "broadcasting"} /\ mem[p].mode \in {"evaluate", "trade"})

\* No evaluation runs under a superseded configuration or revision, however long
\* it stays suspended: evaluation_lock, _configuration_changed and the drain.
EvaluatesActiveConfig ==
    \A p \in Procs : Evaluating(p) => mem[p].gen = generation /\ mem[p].cfg = Active(p)

\* An evaluation compares the price with a baseline of its own market and pair:
\* _reset_changed_markets, and the drain that settles older swaps first.
ComparesOwnMarket ==
    \A p \in Procs : pc[p] = "rules" /\ baseline # None =>
        baseline = [market |-> mem[p].cfg.market, pair |-> mem[p].cfg.pair]

\* A pending swap is signed with the key in the key file: a key is replaced only
\* behind the drain, and the clients that hold the old one cannot sign any more.
PendingUsesCurrentKey == pending # None => pending.key = key

\* A pending swap never outlives the configuration it was decided under: its
\* network, its rule's pair and its permission to be sent stay the active ones.
PendingOfActiveConfig ==
    pending # None /\ stored # None =>
        /\ stored.execute
        /\ pending.origin = [market |-> stored.market, pair |-> stored.pair]

\* Nobody sends bytes while execution is off, and a drain towards a disabled
\* configuration sends none either: recover_once, _drain and _evaluate_rule.
BroadcastOnlyWhenEnabled ==
    \A p \in Procs : pc[p] = "broadcasting" =>
        IF mem[p].mode = "drain" THEN mem[p].target.execute ELSE Active(p).execute

\* The cursor row belongs to the market of the active configuration: "Old
\* watchers cannot write a cursor after a revision change."
CursorOfActiveMarket == cursor # None /\ stored # None => cursor = stored.market

\* Execution is on only if the operator has turned it on for the present key:
\* "a new or imported wallet always starts in dry-run mode".
NewKeyStartsDry == stored # None /\ stored.execute => key \in enabled

\* The event loops keep running, the network answers in the end, and processes
\* stop failing.
Fairness ==
    /\ \A p \in Procs : WF_vars(Step(p))
    /\ \A w \in Workers : SF_vars(Reload(w))
    /\ SF_vars(\E p \in Procs : Broadcast(p))
    /\ SF_vars(\E p \in Procs : Settle(p))
    /\ <>[][\A p \in Procs : Stop(p) => Step(p)]_vars

FairSpec == Spec /\ Fairness

\* Every worker whose supervisor runs comes to load the revision that is stored,
\* again and again: run_forever, _watch_configuration, _configuration_changed.
WorkersAdopt ==
    \A w \in Workers : []<>(mem[w].gen = generation \/ pc[w] = "off" \/ Starting(w))

\* The one thing a drain may wait for without end: "Configuration requests wait
\* while recovery is unresolved", here a swap that was never sent and that the
\* new configuration does not allow to be sent.
WaitsForUnsent(p) ==
    confLock = p /\ ~mem[p].target.execute /\ pending # None /\ ~pending.sent

\* Every drain ends, unless it waits for such a swap from some point on: update(),
\* _drain, and the short critical sections of everybody else.
DrainEnds == \A p \in Procs : []<>(confLock # p) \/ <>[]WaitsForUnsent(p)
=============================================================================
