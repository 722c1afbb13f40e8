------------------------- MODULE ConfigurationProofs -------------------------
(***************************************************************************)
(* Proofs about Configuration, for any workers, editors, markets, pairs,   *)
(* keys and requests and any number of publications and local edits.       *)
(***************************************************************************)
EXTENDS Configuration, TLAPS

USE ConfigurationAssumption

-----------------------------------------------------------------------------
(* The inductive invariant. What is said of a process speaks of its place c and its *)
(* memory m, so that a step can be followed from the ones to the others.            *)

Reconciling == {"reconcile", "broadcasting"}
Publishing  == {"publish", "store", "rekey"}
Updating    == {"prepared", "draining"} \cup Publishing

ActiveOf(m) == IF stored = None THEN m.cfg ELSE stored

Drains(c, m)    == c \in Reconciling /\ m.mode = "drain"
Evaluates(c, m) == c = "rules" \/ (c \in Reconciling /\ m.mode \in {"evaluate", "trade"})

\* The locks exclude each other's holders.
LockInv(p, c, m) ==
    /\ c \in LockedPlaces \cup Publishing => execLock = p
    /\ c \in Publishing \cup {"draining"} \/ Drains(c, m) => confLock = p

\* Where a session under the execution lock came from.
ModeInv(c, m) ==
    /\ c = "rules" => m.mode = "evaluate"
    /\ c \in Reconciling => m.mode # "none"
    /\ c \in Reconciling /\ m.mode # "drain" => m.back # "none"

\* What is evaluated is current, and stays so while the lock is held.
CurrentInv(c, m) ==
    /\ m.gen <= generation
    /\ Evaluates(c, m) => m.gen = generation /\ m.cfg = ActiveOf(m)

\* An open client has the key of the file, unless the worker's configuration is
\* superseded or switches execution off.
ClientInv(c, m) ==
    /\ c \in {"generation", "onceGeneration"} => m.client = None
    /\ c \in {"watching", "handled", "check", "save", "onceReady", "rules", "evaluated"}
         \/ Evaluates(c, m) \/ (c \in Reconciling /\ m.back \in {"watching", "handled"})
         => m.client # None
    /\ m.client # None /\ m.gen = generation /\ m.cfg = ActiveOf(m) /\ m.cfg.execute
         => m.client = key

\* Bytes are sent only with the permission of the configuration that counts.
SendInv(c, m) ==
    /\ c = "broadcasting" => m.allow
    /\ c \in Reconciling /\ m.allow =>
         IF m.mode = "drain" THEN m.target.execute ELSE ActiveOf(m).execute

\* A change that brings a key switches execution off; it is written behind the drain.
UpdateInv(c, m) ==
    /\ c = "boot" => m.newKey = None
    /\ c \in Updating \/ Drains(c, m) =>
         m.target # None /\ (m.newKey # None => ~m.target.execute)
    /\ c \in {"draining", "publish", "store"} \/ Drains(c, m) => generation < MaxGeneration
    /\ c \in Publishing => pending = None
    /\ c = "rekey" => stored = m.target

Local(p, c, m) ==
    /\ LockInv(p, c, m) /\ ModeInv(c, m) /\ CurrentInv(c, m)
    /\ ClientInv(c, m) /\ SendInv(c, m) /\ UpdateInv(c, m)

ProcessInv == \A p \in Procs : Local(p, pc[p], mem[p])

\* Once a configuration is published there always is one, and the stored baseline
\* belongs to its market and pair.
BaselineInv ==
    Published => /\ stored # None
                 /\ baseline # None =>
                      baseline = [market |-> stored.market, pair |-> stored.pair]

IInv ==
    /\ TypeOK /\ ProcessInv /\ BaselineInv
    /\ PendingUsesCurrentKey /\ PendingOfActiveConfig

-----------------------------------------------------------------------------
(* Memory *)

\* The fields of a process's memory.
LEMMA MemoryFields ==
    ASSUME NEW m \in Memory
    PROVE  /\ m.cfg \in Configs /\ m.gen \in 0..MaxGeneration /\ m.gen \in Nat
           /\ m.client \in Keys \cup {None} /\ m.target \in Configs \cup {None}
           /\ m.newKey \in Keys \cup {None} /\ m.write \in BOOLEAN /\ m.wanted \in BOOLEAN
           /\ m.mode \in {"none", "evaluate", "trade", "recover", "drain"}
           /\ m.back \in {"none", "wait", "watching", "handled", "ready"}
           /\ m.allow \in BOOLEAN
  <1>1. m.gen \in 0..MaxGeneration
    BY DEF Memory
  <1>2. m.gen \in Nat
    BY <1>1
  <1> QED
    BY <1>1, <1>2 DEF Memory

\* The fields of a configuration.
LEMMA ConfigFields ==
    ASSUME NEW cfg \in Configs
    PROVE  /\ cfg.market \in Markets /\ cfg.pair \in Pairs \cup {None} /\ cfg.execute \in BOOLEAN
           /\ cfg # None
  BY DEF Configs

\* Memory that holds a configuration and nothing else.
LEMMA FreshMemory ==
    ASSUME NEW cfg \in Configs
    PROVE  /\ Fresh(cfg) \in Memory
           /\ Fresh(cfg).cfg = cfg /\ Fresh(cfg).gen = 0 /\ Fresh(cfg).client = None
           /\ Fresh(cfg).target = None /\ Fresh(cfg).newKey = None
           /\ Fresh(cfg).mode = "none" /\ Fresh(cfg).back = "none"
           /\ Fresh(cfg).allow = FALSE
  <1>1. 0 \in 0..MaxGeneration
    OBVIOUS
  <1> QED
    BY <1>1 DEF Fresh, Memory

\* The active configuration is one.
LEMMA ActiveType ==
    ASSUME TypeOK, NEW p \in Procs
    PROVE  Active(p) \in Configs /\ Active(p) = ActiveOf(mem[p]) /\ mem[p] \in Memory
  BY MemoryFields DEF TypeOK, Active, ActiveOf

-----------------------------------------------------------------------------
(* Steps of one process *)

\* A step of p that publishes nothing leaves what is said of the others true.
LEMMA OthersKept ==
    ASSUME IInv, NEW p \in Procs, Local(p, pc[p], mem[p])',
           \A q \in Procs : q # p => pc'[q] = pc[q] /\ mem'[q] = mem[q],
           UNCHANGED <<stored, generation, key>>,
           execLock \notin {Nobody, p} => execLock' = execLock,
           confLock \notin {Nobody, p} => confLock' = confLock,
           pending = None /\ pending' # None => execLock = p
    PROVE  ProcessInv'
  <1> SUFFICES ASSUME NEW q \in Procs, q # p PROVE Local(q, pc[q], mem[q])'
    BY DEF ProcessInv
  <1>1. pc'[q] = pc[q] /\ mem'[q] = mem[q] /\ q # Nobody
    OBVIOUS
  <1>2. Local(q, pc[q], mem[q])
    BY DEF IInv, ProcessInv
  <1>3. LockInv(q, pc[q], mem[q])'
    BY <1>1, <1>2 DEF Local, LockInv, Drains
  <1>4. ModeInv(pc[q], mem[q])' /\ CurrentInv(pc[q], mem[q])'
    BY <1>1, <1>2 DEF Local, ModeInv, CurrentInv, Evaluates, ActiveOf
  <1>5. ClientInv(pc[q], mem[q])' /\ SendInv(pc[q], mem[q])'
    BY <1>1, <1>2 DEF Local, ClientInv, SendInv, Evaluates, ActiveOf
  <1>6. UpdateInv(pc[q], mem[q])'
    <2>1. pc[q] \in Publishing => pending' = None
      BY <1>1, <1>2 DEF Local, LockInv, UpdateInv
    <2> QED
      BY <1>1, <1>2, <2>1 DEF Local, UpdateInv, Drains
  <1> QED
    BY <1>3, <1>4, <1>5, <1>6 DEF Local

\* A process that holds no lock goes to a place where nothing is said of it.
LEMMA FreshLocal ==
    ASSUME NEW p \in Procs, NEW cfg \in Configs, mem'[p] = Fresh(cfg), generation' \in Nat,
           pc'[p] \in {"off", "boot", "top", "ready", "generation", "onceGeneration"}
    PROVE  Local(p, pc[p], mem[p])'
  <1>1. /\ mem'[p].gen = 0 /\ mem'[p].client = None /\ mem'[p].newKey = None
        /\ mem'[p].mode = "none"
    <2>1. /\ Fresh(cfg).gen = 0 /\ Fresh(cfg).client = None /\ Fresh(cfg).newKey = None
          /\ Fresh(cfg).mode = "none"
      BY FreshMemory
    <2> QED
      BY <2>1
  <1>2. LockInv(p, pc[p], mem[p])' /\ ModeInv(pc[p], mem[p])'
    BY <1>1 DEF LockInv, ModeInv, Drains, LockedPlaces, Publishing, Reconciling
  <1>3. CurrentInv(pc[p], mem[p])' /\ ClientInv(pc[p], mem[p])'
    BY <1>1 DEF CurrentInv, ClientInv, Evaluates, Reconciling
  <1>4. SendInv(pc[p], mem[p])' /\ UpdateInv(pc[p], mem[p])'
    BY <1>1 DEF SendInv, UpdateInv, Updating, Publishing, Drains, Reconciling
  <1> QED
    BY <1>2, <1>3, <1>4 DEF Local

\* A step that writes neither the database nor a file leaves the rest of the
\* invariant true.
LEMMA QuietStep ==
    ASSUME IInv, NEW p \in Procs, NEW c \in Places, NEW m \in Memory,
           pc' = [pc EXCEPT ![p] = c], mem' = [mem EXCEPT ![p] = m],
           UNCHANGED <<dbVars, diskVars>>,
           execLock' \in {execLock, p, Nobody}, confLock' \in {confLock, p, Nobody},
           execLock \notin {Nobody, p} => execLock' = execLock,
           confLock \notin {Nobody, p} => confLock' = confLock,
           Local(p, pc[p], mem[p])'
    PROVE  IInv'
  <1>1. /\ UNCHANGED <<file, key, stored, generation, baseline, cursor, pending, edits, enabled>>
        /\ pc \in [Procs -> Places] /\ mem \in [Procs -> Memory]
    BY DEF dbVars, diskVars, IInv, TypeOK
  <1>2. TypeOK'
    <2>1. pc' \in [Procs -> Places] /\ mem' \in [Procs -> Memory]
      BY <1>1
    <2>2. execLock' \in Procs \cup {Nobody} /\ confLock' \in Procs \cup {Nobody}
      BY DEF IInv, TypeOK
    <2> QED
      BY <1>1, <2>1, <2>2 DEF IInv, TypeOK
  <1>3. ProcessInv'
    <2>1. \A q \in Procs : q # p => pc'[q] = pc[q] /\ mem'[q] = mem[q]
      BY <1>1
    <2> QED
      BY <1>1, <2>1, OthersKept
  <1>4. BaselineInv' /\ PendingUsesCurrentKey' /\ PendingOfActiveConfig'
    BY <1>1 DEF IInv, BaselineInv, PendingUsesCurrentKey, PendingOfActiveConfig
  <1> QED
    BY <1>2, <1>3, <1>4 DEF IInv

\* A process starts afresh, with or without a lock.
LEMMA FreshStep ==
    ASSUME IInv, NEW p \in Procs, NEW cfg \in Configs,
           NEW c \in {"off", "boot", "top", "ready", "generation", "onceGeneration"},
           pc' = [pc EXCEPT ![p] = c], mem' = [mem EXCEPT ![p] = Fresh(cfg)],
           UNCHANGED <<dbVars, diskVars>>,
           execLock' \in {execLock, Nobody}, confLock' \in {confLock, Nobody},
           execLock \notin {Nobody, p} => execLock' = execLock,
           confLock \notin {Nobody, p} => confLock' = confLock
    PROVE  IInv'
  <1>1. c \in Places
    BY DEF Places, WorkerPlaces, EditorPlaces
  <1>2. Fresh(cfg) \in Memory
    BY FreshMemory
  <1>3. Local(p, pc[p], mem[p])'
    <2>1. pc'[p] = c /\ mem'[p] = Fresh(cfg) /\ generation' \in Nat
      BY DEF IInv, TypeOK, dbVars
    <2> QED
      BY <2>1, FreshLocal
  <1> QED
    BY <1>1, <1>2, <1>3, QuietStep

\* Home is a place where nothing is said of a process.
LEMMA HomePlace == \A p \in Procs : Home(p) \in {"top", "ready"}
  BY DEF Home

\* The request or the watcher is over.
LEMMA GoHomeStep ==
    ASSUME IInv, NEW p \in Procs, GoHome(p), UNCHANGED <<dbVars, diskVars>>,
           execLock' \in {execLock, Nobody}, confLock' \in {confLock, Nobody},
           execLock \notin {Nobody, p} => execLock' = execLock,
           confLock \notin {Nobody, p} => confLock' = confLock
    PROVE  IInv'
  <1>1. Active(p) \in Configs
    BY ActiveType DEF IInv
  <1> QED
    BY <1>1, HomePlace, FreshStep DEF GoHome

\* Steps that begin or end a process's business.
LEMMA LifeInv ==
    ASSUME IInv, NEW p \in Procs,
           Restart(p) \/ Stop(p) \/ ReadConfig(p) \/ Reload(p) \/ RefuseOnce(p) \/ Busy(p)
    PROVE  IInv'
  <1>1. Active(p) \in Configs /\ file \in Configs
    BY ActiveType DEF IInv, TypeOK
  <1>2. CASE Restart(p)
    BY <1>1, <1>2, FreshStep DEF Restart, Move, lockVars
  <1>3. CASE Stop(p)
    <2>1. PICK c \in {"off", "top", "ready"} : pc' = [pc EXCEPT ![p] = c]
      BY <1>3, HomePlace DEF Stop
    <2>2. /\ execLock' \in {execLock, Nobody} /\ confLock' \in {confLock, Nobody}
          /\ execLock \notin {Nobody, p} => execLock' = execLock
          /\ confLock \notin {Nobody, p} => confLock' = confLock
      BY <1>3 DEF Stop, Release
    <2>3. mem' = [mem EXCEPT ![p] = Fresh(Active(p))] /\ UNCHANGED <<dbVars, diskVars>>
      BY <1>3 DEF Stop
    <2> QED
      BY <1>1, <2>1, <2>2, <2>3, FreshStep
  <1>4. CASE ReadConfig(p)
    BY <1>1, <1>4, FreshStep DEF ReadConfig, Move, lockVars
  <1>5. CASE Reload(p)
    BY <1>5, GoHomeStep DEF Reload, lockVars
  <1>6. CASE RefuseOnce(p)
    BY <1>6, GoHomeStep DEF RefuseOnce, lockVars
  <1>7. CASE Busy(p)
    BY <1>1, <1>7, FreshStep DEF Busy, Move, lockVars
  <1> QED
    BY <1>2, <1>3, <1>4, <1>5, <1>6, <1>7

\* A process moves on with what it remembers.
LEMMA MoveInv ==
    ASSUME IInv, NEW p \in Procs,
           Recovered(p) \/ OpenClient(p) \/ CheckCursor(p)
    PROVE  IInv'
  <1>1. /\ mem[p] \in Memory /\ mem \in [Procs -> Memory] /\ pc \in [Procs -> Places]
        /\ Local(p, pc[p], mem[p])
    BY DEF IInv, TypeOK, ProcessInv
  <1>2. CASE CheckCursor(p) /\ GoHome(p)
    BY <1>2, GoHomeStep DEF CheckCursor, lockVars
  <1>3. CASE Recovered(p) \/ OpenClient(p) \/ (CheckCursor(p) /\ ~GoHome(p))
    <2>1. PICK c \in {"open", "check", "opening", "save"} :
            /\ pc' = [pc EXCEPT ![p] = c]
            /\ c \in {"check", "save"} => pc[p] \in {"handled", "check"}
      BY <1>3 DEF Recovered, OpenClient, CheckCursor, Move
    <2>2. mem' = [mem EXCEPT ![p] = mem[p]] /\ UNCHANGED <<dbVars, diskVars, lockVars>>
      BY <1>1, <1>3 DEF Recovered, OpenClient, CheckCursor
    <2>3. /\ pc'[p] = c /\ mem'[p] = mem[p]
          /\ UNCHANGED <<stored, generation, key, execLock, confLock>>
      BY <1>1, <2>1, <2>2 DEF dbVars, diskVars, lockVars
    <2>4. LockInv(p, pc[p], mem[p])' /\ ModeInv(pc[p], mem[p])' /\ SendInv(pc[p], mem[p])'
      BY <2>3 DEF LockInv, ModeInv, SendInv, Drains, LockedPlaces, Publishing, Reconciling
    <2>5. CurrentInv(pc[p], mem[p])' /\ ClientInv(pc[p], mem[p])'
      BY <1>1, <2>1, <2>3 DEF Local, CurrentInv, ClientInv, Evaluates, Reconciling, ActiveOf
    <2>6. UpdateInv(pc[p], mem[p])'
      BY <2>3 DEF UpdateInv, Updating, Publishing, Drains, Reconciling
    <2>7. Local(p, pc[p], mem[p])'
      BY <2>4, <2>5, <2>6 DEF Local
    <2>8. c \in Places
      BY DEF Places, WorkerPlaces
    <2> QED
      BY <1>1, <2>1, <2>2, <2>3, <2>7, <2>8, QuietStep
  <1> QED
    BY <1>2, <1>3

\* A process opens its client.
LEMMA OpenInv ==
    ASSUME IInv, NEW p \in Procs, ClientOpened(p) \/ OpenOnce(p)
    PROVE  IInv'
  <1> DEFINE m == [mem[p] EXCEPT !.client = key]
  <1>1. /\ mem[p] \in Memory /\ mem \in [Procs -> Memory] /\ pc \in [Procs -> Places]
        /\ Local(p, pc[p], mem[p]) /\ key \in Keys /\ key # None
    BY DEF IInv, TypeOK, ProcessInv
  <1>2. PICK c \in {"watching", "onceReady"} : pc' = [pc EXCEPT ![p] = c]
    BY DEF ClientOpened, OpenOnce, Move
  <1>3. /\ mem' = [mem EXCEPT ![p] = m] /\ UNCHANGED <<dbVars, diskVars, lockVars>>
    BY DEF ClientOpened, OpenOnce
  <1>4. /\ m \in Memory /\ m.client = key /\ m.cfg = mem[p].cfg /\ m.gen = mem[p].gen
    BY <1>1 DEF Memory
  <1> HIDE DEF m
  <1>5. /\ pc'[p] = c /\ mem'[p] = m
        /\ UNCHANGED <<stored, generation, key, execLock, confLock>>
    BY <1>1, <1>2, <1>3 DEF dbVars, diskVars, lockVars
  <1>6. LockInv(p, pc[p], mem[p])' /\ ModeInv(pc[p], mem[p])' /\ SendInv(pc[p], mem[p])'
    BY <1>5 DEF LockInv, ModeInv, SendInv, Drains, LockedPlaces, Publishing, Reconciling
  <1>7. CurrentInv(pc[p], mem[p])' /\ ClientInv(pc[p], mem[p])'
    BY <1>1, <1>4, <1>5 DEF Local, CurrentInv, ClientInv, Evaluates, Reconciling
  <1>8. UpdateInv(pc[p], mem[p])'
    BY <1>5 DEF UpdateInv, Updating, Publishing, Drains, Reconciling
  <1>9. Local(p, pc[p], mem[p])' /\ c \in Places
    BY <1>6, <1>7, <1>8 DEF Local, Places, WorkerPlaces, EditorPlaces
  <1> QED
    BY <1>2, <1>3, <1>4, <1>5, <1>9, QuietStep

\* A process reads the revision, before it has a client.
LEMMA ReadGenerationInv == ASSUME IInv, NEW p \in Procs, ReadGeneration(p) PROVE IInv'
  <1> DEFINE m == [mem[p] EXCEPT !.gen = generation]
  <1>1. /\ mem[p] \in Memory /\ mem \in [Procs -> Memory] /\ pc \in [Procs -> Places]
        /\ Local(p, pc[p], mem[p]) /\ generation \in 0..MaxGeneration /\ generation \in Nat
    BY DEF IInv, TypeOK, ProcessInv
  <1>2. /\ pc[p] \in {"generation", "onceGeneration"}
        /\ \E c \in {"wait", "onceOpen"} : pc' = [pc EXCEPT ![p] = c]
    BY DEF ReadGeneration, Move
  <1>3. PICK c \in {"wait", "onceOpen"} : pc' = [pc EXCEPT ![p] = c]
    BY <1>2
  <1>4. /\ mem' = [mem EXCEPT ![p] = m] /\ UNCHANGED <<dbVars, diskVars, lockVars>>
    BY DEF ReadGeneration
  <1>5. /\ m \in Memory /\ m.client = mem[p].client /\ m.gen = generation
    BY <1>1 DEF Memory
  <1>6. m.client = None
    BY <1>1, <1>2, <1>5 DEF Local, ClientInv
  <1> HIDE DEF m
  <1>7. /\ pc'[p] = c /\ mem'[p] = m
        /\ UNCHANGED <<stored, generation, key, execLock, confLock>>
    BY <1>1, <1>3, <1>4 DEF dbVars, diskVars, lockVars
  <1>8. LockInv(p, pc[p], mem[p])' /\ ModeInv(pc[p], mem[p])' /\ SendInv(pc[p], mem[p])'
    BY <1>7 DEF LockInv, ModeInv, SendInv, Drains, LockedPlaces, Publishing, Reconciling
  <1>9. CurrentInv(pc[p], mem[p])' /\ ClientInv(pc[p], mem[p])'
    BY <1>1, <1>5, <1>6, <1>7 DEF CurrentInv, ClientInv, Evaluates, Reconciling
  <1>10. UpdateInv(pc[p], mem[p])'
    BY <1>7 DEF UpdateInv, Updating, Publishing, Drains, Reconciling
  <1>11. Local(p, pc[p], mem[p])' /\ c \in Places
    BY <1>8, <1>9, <1>10 DEF Local, Places, WorkerPlaces, EditorPlaces
  <1> QED
    BY <1>3, <1>4, <1>5, <1>7, <1>11, QuietStep

\* A change is asked for: a new key comes with execution off.
LEMMA AskedStep ==
    ASSUME IInv, NEW p \in Procs, NEW target \in Configs, NEW newKey \in Keys \cup {None},
           NEW write \in BOOLEAN, NEW wanted \in BOOLEAN,
           newKey # None => ~target.execute,
           pc' = [pc EXCEPT ![p] = "prepared"],
           mem' = [mem EXCEPT ![p] = [mem[p] EXCEPT !.target = target, !.newKey = newKey,
                                                    !.write = write, !.wanted = wanted]],
           UNCHANGED <<dbVars, diskVars, lockVars>>
    PROVE  IInv'
  <1> DEFINE m == [mem[p] EXCEPT !.target = target, !.newKey = newKey, !.write = write,
                                 !.wanted = wanted]
  <1>1. /\ mem[p] \in Memory /\ mem \in [Procs -> Memory] /\ pc \in [Procs -> Places]
        /\ Local(p, pc[p], mem[p])
    BY DEF IInv, TypeOK, ProcessInv
  <1>2. /\ m \in Memory /\ m.target = target /\ m.newKey = newKey /\ m.gen = mem[p].gen
        /\ m.client = mem[p].client /\ m.cfg = mem[p].cfg
    BY <1>1 DEF Memory
  <1>3. mem' = [mem EXCEPT ![p] = m]
    OBVIOUS
  <1> HIDE DEF m
  <1>4. /\ pc'[p] = "prepared" /\ mem'[p] = m
        /\ UNCHANGED <<stored, generation, key, execLock, confLock>>
    BY <1>1, <1>3 DEF dbVars, diskVars, lockVars
  <1>5. LockInv(p, pc[p], mem[p])' /\ ModeInv(pc[p], mem[p])' /\ SendInv(pc[p], mem[p])'
    BY <1>4 DEF LockInv, ModeInv, SendInv, Drains, LockedPlaces, Publishing, Reconciling
  <1>6. CurrentInv(pc[p], mem[p])' /\ ClientInv(pc[p], mem[p])'
    BY <1>1, <1>2, <1>4 DEF Local, CurrentInv, ClientInv, Evaluates, Reconciling, ActiveOf
  <1>7. UpdateInv(pc[p], mem[p])'
    BY <1>2, <1>4 DEF UpdateInv, Updating, Publishing, Drains, Reconciling
  <1>8. Local(p, pc[p], mem[p])' /\ "prepared" \in Places
    BY <1>5, <1>6, <1>7 DEF Local, Places, UpdatePlaces
  <1> QED
    BY <1>2, <1>3, <1>4, <1>8, QuietStep

\* A request, or a local file that differs from what is stored at startup.
LEMMA AskInv == ASSUME IInv, NEW p \in Procs, Request(p) \/ Boot(p) PROVE IInv'
  <1>1. /\ mem[p] \in Memory /\ mem \in [Procs -> Memory] /\ pc \in [Procs -> Places]
        /\ Local(p, pc[p], mem[p]) /\ Active(p) \in Configs
    BY ActiveType DEF IInv, TypeOK, ProcessInv
  <1>2. ASSUME NEW target \in Configs, NEW newKey \in Keys \cup {None}, NEW wanted \in BOOLEAN,
               newKey # None => ~target.execute, Prepare(p, target, newKey, wanted)
        PROVE  IInv'
    <2>1. /\ pc' = [pc EXCEPT ![p] = "prepared"]
          /\ mem' = [mem EXCEPT ![p] = [mem[p] EXCEPT !.target = target, !.newKey = newKey,
                                                      !.write = TRUE, !.wanted = wanted]]
          /\ UNCHANGED <<dbVars, diskVars, lockVars>>
      BY <1>1, <1>2 DEF Prepare, Move
    <2> QED
      BY <1>2, <2>1, AskedStep
  <1>3. /\ \A pair \in Pairs \cup {None} : [Active(p) EXCEPT !.pair = pair] \in Configs
        /\ \A execute \in BOOLEAN : [Active(p) EXCEPT !.execute = execute] \in Configs
        /\ ~[Active(p) EXCEPT !.execute = FALSE].execute
    BY <1>1 DEF Configs
  <1>4. \A cfg \in Targets : cfg \in Configs /\ cfg.execute \in BOOLEAN
    BY ConfigFields
  <1>5. CASE \E pair \in Pairs : UpsertRule(p, pair)
    BY <1>2, <1>3, <1>5 DEF UpsertRule
  <1>6. CASE DeleteRule(p)
    BY <1>2, <1>3, <1>6 DEF DeleteRule
  <1>7. CASE \E execute \in BOOLEAN : UpdateWallet(p, execute)
    BY <1>2, <1>3, <1>7 DEF UpdateWallet
  <1>8. CASE \E cfg \in Targets : PutConfig(p, cfg)
    BY <1>2, <1>4, <1>8 DEF PutConfig
  <1>9. CASE \E k \in Keys : ReplaceKey(p, k)
    BY <1>2, <1>3, <1>9 DEF ReplaceKey
  <1>10. CASE Boot(p) /\ Active(p) = mem[p].cfg
    <2>1. /\ pc' = [pc EXCEPT ![p] = Home(p)] /\ mem' = [mem EXCEPT ![p] = mem[p]]
          /\ UNCHANGED <<dbVars, diskVars, lockVars>> /\ Home(p) \in {"top", "ready"}
      BY <1>1, <1>10, HomePlace DEF Boot, Move
    <2>2. /\ pc'[p] \in {"top", "ready"} /\ mem'[p] = mem[p]
          /\ UNCHANGED <<stored, generation, key, execLock, confLock>>
      BY <1>1, <2>1 DEF dbVars, diskVars, lockVars
    <2>3. LockInv(p, pc[p], mem[p])' /\ ModeInv(pc[p], mem[p])' /\ SendInv(pc[p], mem[p])'
      BY <2>2 DEF LockInv, ModeInv, SendInv, Drains, LockedPlaces, Publishing, Reconciling
    <2>4. CurrentInv(pc[p], mem[p])' /\ ClientInv(pc[p], mem[p])'
      BY <1>1, <2>2 DEF Local, CurrentInv, ClientInv, Evaluates, Reconciling, ActiveOf
    <2>5. UpdateInv(pc[p], mem[p])'
      BY <2>2 DEF UpdateInv, Updating, Publishing, Drains, Reconciling
    <2>6. Local(p, pc[p], mem[p])' /\ Home(p) \in Places
      BY <2>1, <2>3, <2>4, <2>5 DEF Local, Places, WorkerPlaces, EditorPlaces
    <2> QED
      BY <1>1, <2>1, <2>2, <2>6, QuietStep
  <1>11. CASE Boot(p) /\ Active(p) # mem[p].cfg
    <2> DEFINE m == [mem[p] EXCEPT !.target = mem[p].cfg, !.newKey = None,
                                   !.write = mem[p].write, !.wanted = mem[p].cfg.execute]
    <2>1. mem[p].newKey = None /\ mem[p].cfg \in Configs /\ mem[p].cfg.execute \in BOOLEAN
      BY <1>1, <1>11, MemoryFields, ConfigFields DEF Boot, Move, Local, UpdateInv
    <2>2. [mem[p] EXCEPT !.target = mem[p].cfg, !.wanted = mem[p].cfg.execute] = m
      BY <1>1, <2>1 DEF Memory
    <2>3. /\ pc' = [pc EXCEPT ![p] = "prepared"] /\ mem' = [mem EXCEPT ![p] = m]
          /\ UNCHANGED <<dbVars, diskVars, lockVars>>
      BY <1>1, <1>11, <2>2 DEF Boot, Move
    <2>4. mem[p].write \in BOOLEAN
      BY <1>1, MemoryFields
    <2> QED
      BY <2>1, <2>3, <2>4, AskedStep
  <1> QED
    BY <1>5, <1>6, <1>7, <1>8, <1>9, <1>10, <1>11 DEF Request

-----------------------------------------------------------------------------
(* Sessions under the execution lock *)

\* A session begins.
LEMMA ReconcileStep ==
    ASSUME IInv, NEW p \in Procs, NEW mode \in {"evaluate", "recover", "drain"},
           NEW back \in {"none", "wait", "watching", "handled", "ready"}, NEW allow \in BOOLEAN,
           Reconcile(p, mode, back, allow), UNCHANGED <<confLock, dbVars, diskVars>>,
           mode # "drain" => back # "none",
           mode = "drain" => pc[p] = "draining",
           mode = "evaluate" => ~Changed(p),
           mode = "evaluate" \/ back \in {"watching", "handled"} => mem[p].client # None,
           allow => IF mode = "drain" THEN mem[p].target.execute ELSE Active(p).execute
    PROVE  IInv'
  <1> DEFINE m == [mem[p] EXCEPT !.mode = mode, !.back = back, !.allow = allow]
  <1>1. /\ mem[p] \in Memory /\ mem \in [Procs -> Memory] /\ pc \in [Procs -> Places]
        /\ Local(p, pc[p], mem[p]) /\ Active(p) = ActiveOf(mem[p])
    BY ActiveType DEF IInv, TypeOK, ProcessInv
  <1>2. /\ m \in Memory /\ m.mode = mode /\ m.back = back /\ m.allow = allow
        /\ m.target = mem[p].target /\ m.newKey = mem[p].newKey /\ m.gen = mem[p].gen
        /\ m.client = mem[p].client /\ m.cfg = mem[p].cfg
    BY <1>1 DEF Memory
  <1>3. mem' = [mem EXCEPT ![p] = m] /\ execLock' = p /\ execLock = Nobody
    BY <1>1 DEF Reconcile
  <1>4. pc' = [pc EXCEPT ![p] = "reconcile"]
    BY DEF Reconcile
  <1> HIDE DEF m
  <1>5. /\ pc'[p] = "reconcile" /\ mem'[p] = m
        /\ UNCHANGED <<stored, generation, key, confLock>>
    BY <1>1, <1>3, <1>4 DEF dbVars, diskVars
  <1>6. LockInv(p, pc[p], mem[p])'
    BY <1>1, <1>2, <1>3, <1>5 DEF Local, LockInv, Drains, Reconciling, Publishing
  <1>7. ModeInv(pc[p], mem[p])' /\ SendInv(pc[p], mem[p])'
    BY <1>1, <1>2, <1>5 DEF ModeInv, SendInv, ActiveOf
  <1>8. CurrentInv(pc[p], mem[p])'
    BY <1>1, <1>2, <1>5 DEF Local, CurrentInv, Evaluates, ActiveOf, Changed
  <1>9. ClientInv(pc[p], mem[p])'
    BY <1>1, <1>2, <1>5 DEF Local, ClientInv, Evaluates, ActiveOf
  <1>10. UpdateInv(pc[p], mem[p])'
    BY <1>1, <1>2, <1>5 DEF Local, UpdateInv, Updating, Publishing, Drains, Reconciling
  <1>11. Local(p, pc[p], mem[p])' /\ "reconcile" \in Places
    BY <1>6, <1>7, <1>8, <1>9, <1>10 DEF Local, Places, LockedPlaces
  <1> QED
    BY <1>2, <1>3, <1>4, <1>11, QuietStep

\* Evaluations, recoveries and drains claim the lock.
LEMMA ClaimInv == ASSUME IInv, NEW p \in Procs, Admit(p) \/ Recover(p) \/ Drain(p) PROVE IInv'
  <1>1. /\ mem[p] \in Memory /\ Local(p, pc[p], mem[p])
        /\ Active(p) \in Configs /\ Active(p) = ActiveOf(mem[p])
    BY ActiveType DEF IInv, TypeOK, ProcessInv
  <1>2. CASE Admit(p) /\ GoHome(p) /\ UNCHANGED execLock
    BY <1>2, GoHomeStep DEF Admit
  <1>3. CASE Admit(p) /\ ~Changed(p)
    <2> DEFINE back == IF p \in Workers THEN "watching" ELSE "ready"
    <2>1. /\ Reconcile(p, "evaluate", back, mem[p].cfg.execute)
          /\ UNCHANGED <<confLock, dbVars, diskVars>>
      BY <1>3 DEF Admit
    <2>2. mem[p].client # None /\ mem[p].cfg.execute \in BOOLEAN
      BY <1>1, <1>3, MemoryFields, ConfigFields DEF Admit, Local, ClientInv
    <2>3. mem[p].cfg = Active(p)
      BY <1>3 DEF Changed
    <2>4. back \in {"watching", "ready"}
      OBVIOUS
    <2> HIDE DEF back
    <2> QED
      BY <1>3, <2>1, <2>2, <2>3, <2>4, ReconcileStep
  <1>4. CASE Recover(p)
    <2>1. /\ Reconcile(p, "recover", pc[p], Active(p).execute)
          /\ pc[p] \in {"wait", "watching", "handled", "ready"}
          /\ UNCHANGED <<confLock, dbVars, diskVars>>
      BY <1>4 DEF Recover
    <2>2. pc[p] \in {"watching", "handled"} => mem[p].client # None
      BY <1>1 DEF Local, ClientInv
    <2>3. Active(p).execute \in BOOLEAN
      BY <1>1, ConfigFields
    <2> QED
      BY <2>1, <2>2, <2>3, ReconcileStep
  <1>5. CASE Drain(p)
    <2>1. /\ Reconcile(p, "drain", "none", mem[p].target.execute) /\ pc[p] = "draining"
          /\ UNCHANGED <<confLock, dbVars, diskVars>>
      BY <1>5 DEF Drain
    <2>2. mem[p].target.execute \in BOOLEAN
      BY <1>1, <2>1, MemoryFields, ConfigFields DEF Local, UpdateInv, Updating
    <2> QED
      BY <2>1, <2>2, ReconcileStep
  <1> QED
    BY <1>2, <1>3, <1>4, <1>5 DEF Admit

\* A session ends.
LEMMA LeaveStep ==
    ASSUME IInv, NEW p \in Procs,
           NEW to \in {"draining", "wait", "watching", "handled", "ready", "check"},
           LeaveExecution(p, to), pc[p] \in LockedPlaces, UNCHANGED <<dbVars, diskVars>>,
           to \in {"watching", "handled", "check"} => mem[p].client # None,
           to = "draining" => Drains(pc[p], mem[p])
    PROVE  IInv'
  <1>1. /\ mem[p] \in Memory /\ mem \in [Procs -> Memory] /\ pc \in [Procs -> Places]
        /\ Local(p, pc[p], mem[p])
    BY DEF IInv, TypeOK, ProcessInv
  <1>2. execLock = p /\ execLock' = Nobody /\ confLock' = confLock
    BY <1>1 DEF LeaveExecution, Local, LockInv
  <1>3. CASE to = "ready"
    BY <1>2, <1>3, GoHomeStep DEF LeaveExecution
  <1>4. CASE to # "ready"
    <2> DEFINE m == [mem[p] EXCEPT !.mode = "none", !.back = "none", !.allow = FALSE]
    <2>1. /\ m \in Memory /\ m.mode = "none"
          /\ m.target = mem[p].target /\ m.newKey = mem[p].newKey /\ m.gen = mem[p].gen
          /\ m.client = mem[p].client /\ m.cfg = mem[p].cfg
      BY <1>1 DEF Memory
    <2>2. mem' = [mem EXCEPT ![p] = m] /\ pc' = [pc EXCEPT ![p] = to]
      BY <1>1, <1>4 DEF LeaveExecution
    <2> HIDE DEF m
    <2>3. /\ pc'[p] = to /\ mem'[p] = m
          /\ UNCHANGED <<stored, generation, key, confLock>>
      BY <1>1, <1>2, <2>2 DEF dbVars, diskVars
    <2>4. LockInv(p, pc[p], mem[p])' /\ ModeInv(pc[p], mem[p])' /\ SendInv(pc[p], mem[p])'
      BY <1>1, <1>4, <2>3
      DEF Local, LockInv, ModeInv, SendInv, Drains, LockedPlaces, Publishing, Reconciling
    <2>5. CurrentInv(pc[p], mem[p])' /\ ClientInv(pc[p], mem[p])'
      BY <1>1, <2>1, <2>3 DEF Local, CurrentInv, ClientInv, Evaluates, Reconciling, ActiveOf
    <2>6. UpdateInv(pc[p], mem[p])'
      BY <1>1, <2>1, <2>3 DEF Local, UpdateInv, Updating, Publishing, Drains, Reconciling
    <2>7. Local(p, pc[p], mem[p])' /\ to \in Places
      BY <2>4, <2>5, <2>6 DEF Local, Places, WorkerPlaces, EditorPlaces, UpdatePlaces
    <2> QED
      BY <1>2, <2>1, <2>2, <2>7, QuietStep
  <1> QED
    BY <1>3, <1>4

\* A settled slot lets the session go on; the locals are kept.
LEMMA SettledStep ==
    ASSUME IInv, NEW p \in Procs, pc[p] \in Reconciling, pending = None,
           mem[p].mode \in {"drain", "evaluate", "trade"},
           pc' = [pc EXCEPT ![p] = AfterSettled[mem[p].mode]],
           UNCHANGED <<mem, lockVars, dbVars, diskVars>>
    PROVE  IInv'
  <1>1. /\ mem[p] \in Memory /\ mem \in [Procs -> Memory] /\ pc \in [Procs -> Places]
        /\ Local(p, pc[p], mem[p])
    BY DEF IInv, TypeOK, ProcessInv
  <1>2. PICK c \in {"publish", "rules", "evaluated"} :
          /\ pc' = [pc EXCEPT ![p] = c]
          /\ (c = "publish") <=> (mem[p].mode = "drain")
          /\ (c = "rules") <=> (mem[p].mode = "evaluate")
    <2> DEFINE d == AfterSettled[mem[p].mode]
    <2>1. /\ d \in {"publish", "rules", "evaluated"}
          /\ (d = "publish") <=> (mem[p].mode = "drain")
          /\ (d = "rules") <=> (mem[p].mode = "evaluate")
      BY DEF AfterSettled
    <2>2. pc' = [pc EXCEPT ![p] = d]
      OBVIOUS
    <2> HIDE DEF d
    <2> QED
      BY <2>1, <2>2
  <1>3. /\ pc'[p] = c /\ mem'[p] = mem[p] /\ pending' = None
        /\ UNCHANGED <<stored, generation, key, execLock, confLock>>
    BY <1>1, <1>2 DEF dbVars, diskVars, lockVars
  <1>4. LockInv(p, pc[p], mem[p])' /\ ModeInv(pc[p], mem[p])' /\ SendInv(pc[p], mem[p])'
    BY <1>1, <1>2, <1>3
    DEF Local, LockInv, ModeInv, SendInv, Drains, LockedPlaces, Publishing, Reconciling
  <1>5. CurrentInv(pc[p], mem[p])'
    BY <1>1, <1>2, <1>3 DEF Local, CurrentInv, Evaluates, Reconciling, ActiveOf
  <1>6. ClientInv(pc[p], mem[p])'
    BY <1>1, <1>2, <1>3 DEF Local, ClientInv, Evaluates, Reconciling, ActiveOf
  <1>7. UpdateInv(pc[p], mem[p])'
    BY <1>1, <1>2, <1>3 DEF Local, UpdateInv, Updating, Publishing, Drains, Reconciling
  <1>8. Local(p, pc[p], mem[p])' /\ c \in Places
    BY <1>4, <1>5, <1>6, <1>7 DEF Local, Places, LockedPlaces, UpdatePlaces
  <1>9. mem' = [mem EXCEPT ![p] = mem[p]] /\ UNCHANGED <<execLock, confLock>>
    BY <1>1 DEF lockVars
  <1> QED
    BY <1>1, <1>2, <1>8, <1>9, QuietStep

\* A session ends, or goes on once the slot is settled.
LEMMA EndInv == ASSUME IInv, NEW p \in Procs, EndReconcile(p) \/ EndRules(p) PROVE IInv'
  <1>1. mem[p] \in Memory /\ Local(p, pc[p], mem[p])
    BY DEF IInv, TypeOK, ProcessInv
  <1>2. CASE EndRules(p)
    <2>1. PICK to \in {"check", "ready"} : LeaveExecution(p, to)
      BY <1>2 DEF EndRules
    <2>2. /\ pc[p] \in {"rules", "evaluated"} /\ UNCHANGED <<dbVars, diskVars>>
      BY <1>2 DEF EndRules
    <2>3. mem[p].client # None
      BY <1>1, <2>2 DEF Local, ClientInv
    <2> QED
      BY <2>1, <2>2, <2>3, LeaveStep DEF LockedPlaces
  <1>3. CASE EndReconcile(p)
    <2>1. /\ pc[p] \in Reconciling /\ pc[p] \in LockedPlaces /\ UNCHANGED <<dbVars, diskVars>>
      BY <1>3 DEF EndReconcile, Reconciling, LockedPlaces
    <2>2. /\ mem[p].mode \in {"evaluate", "trade", "recover", "drain"}
          /\ mem[p].mode # "drain" => mem[p].back \in {"wait", "watching", "handled", "ready"}
          /\ mem[p].back \in {"watching", "handled"} => mem[p].client # None
      BY <1>1, <2>1, MemoryFields DEF Local, ModeInv, ClientInv
    <2>3. CASE mem[p].mode # "drain" /\ LeaveExecution(p, mem[p].back)
      BY <2>1, <2>2, <2>3, LeaveStep
    <2>4. CASE mem[p].mode = "drain" /\ LeaveExecution(p, "draining")
      BY <2>1, <2>4, LeaveStep DEF Drains
    <2>5. CASE /\ pending = None /\ mem[p].mode # "recover"
               /\ pc' = [pc EXCEPT ![p] = AfterSettled[mem[p].mode]] /\ UNCHANGED <<mem, lockVars>>
      BY <2>1, <2>2, <2>5, SettledStep
    <2> QED
      BY <1>3, <2>2, <2>3, <2>4, <2>5 DEF EndReconcile
  <1> QED
    BY <1>2, <1>3

\* The configuration lock is claimed.
LEMMA GateInv == ASSUME IInv, NEW p \in Procs, ClaimConfiguration(p) PROVE IInv'
  <1>1. /\ mem[p] \in Memory /\ mem \in [Procs -> Memory] /\ pc \in [Procs -> Places]
        /\ Local(p, pc[p], mem[p])
    BY DEF IInv, TypeOK, ProcessInv
  <1>2. /\ pc' = [pc EXCEPT ![p] = "draining"] /\ mem' = [mem EXCEPT ![p] = mem[p]]
        /\ UNCHANGED <<execLock, dbVars, diskVars>> /\ confLock = Nobody /\ confLock' = p
        /\ generation < MaxGeneration /\ pc[p] = "prepared"
    BY <1>1 DEF ClaimConfiguration, Move
  <1>3. /\ pc'[p] = "draining" /\ mem'[p] = mem[p]
        /\ UNCHANGED <<stored, generation, key, execLock>>
    BY <1>1, <1>2 DEF dbVars, diskVars
  <1>4. LockInv(p, pc[p], mem[p])' /\ ModeInv(pc[p], mem[p])' /\ SendInv(pc[p], mem[p])'
    BY <1>2, <1>3 DEF LockInv, ModeInv, SendInv, Drains, LockedPlaces, Publishing, Reconciling
  <1>5. CurrentInv(pc[p], mem[p])' /\ ClientInv(pc[p], mem[p])'
    BY <1>1, <1>3 DEF Local, CurrentInv, ClientInv, Evaluates, Reconciling, ActiveOf
  <1>6. UpdateInv(pc[p], mem[p])'
    BY <1>1, <1>2, <1>3 DEF Local, UpdateInv, Updating, Publishing, Drains, Reconciling
  <1>7. Local(p, pc[p], mem[p])' /\ "draining" \in Places
    BY <1>4, <1>5, <1>6 DEF Local, Places, UpdatePlaces
  <1> QED
    BY <1>1, <1>2, <1>7, QuietStep

-----------------------------------------------------------------------------
(* Steps that write the market state, the slot or the cursor *)

\* What such a step has to show.
LEMMA DbStep ==
    ASSUME IInv, NEW p \in Procs, NEW c \in Places, NEW m \in Memory,
           pc' = [pc EXCEPT ![p] = c], mem' = [mem EXCEPT ![p] = m],
           UNCHANGED <<stored, generation, lockVars, diskVars>>,
           baseline' \in Origins \cup {None}, cursor' \in Markets \cup {None},
           pending' \in Swaps \cup {None},
           pending = None /\ pending' # None => execLock = p,
           Local(p, pc[p], mem[p])',
           BaselineInv', PendingUsesCurrentKey', PendingOfActiveConfig'
    PROVE  IInv'
  <1>1. /\ UNCHANGED <<file, key, stored, generation, edits, enabled, execLock, confLock>>
        /\ pc \in [Procs -> Places] /\ mem \in [Procs -> Memory]
    BY DEF lockVars, diskVars, IInv, TypeOK
  <1>2. TypeOK'
    <2>1. pc' \in [Procs -> Places] /\ mem' \in [Procs -> Memory]
      BY <1>1
    <2> QED
      BY <1>1, <2>1 DEF IInv, TypeOK
  <1>3. ProcessInv'
    <2>1. \A q \in Procs : q # p => pc'[q] = pc[q] /\ mem'[q] = mem[q]
      BY <1>1
    <2> QED
      BY <1>1, <2>1, OthersKept
  <1> QED
    BY <1>2, <1>3 DEF IInv

\* A swap is a record of these fields.
LEMMA SwapFields ==
    ASSUME NEW s \in Swaps
    PROVE  /\ s.origin \in Origins /\ s.key \in Keys \cup {None}
           /\ [s EXCEPT !.sent = TRUE] \in Swaps
           /\ [s EXCEPT !.sent = TRUE].origin = s.origin /\ [s EXCEPT !.sent = TRUE].key = s.key
  BY DEF Swaps

\* The pending swap is sent, or settled.
LEMMA SwapInv == ASSUME IInv, NEW p \in Procs, Broadcast(p) \/ Settle(p) PROVE IInv'
  <1>1. /\ mem[p] \in Memory /\ mem \in [Procs -> Memory] /\ pc \in [Procs -> Places]
        /\ Local(p, pc[p], mem[p]) /\ pending # None /\ pending \in Swaps
        /\ baseline \in Origins \cup {None} /\ cursor \in Markets \cup {None}
    BY DEF IInv, TypeOK, ProcessInv, Broadcast, Settle
  <1>2. PICK c \in Reconciling :
          /\ pc' = [pc EXCEPT ![p] = c]
          /\ c = "broadcasting" => mem[p].allow
    BY DEF Broadcast, Settle, Move, Reconciling
  <1>3. /\ pc[p] \in Reconciling /\ mem' = [mem EXCEPT ![p] = mem[p]]
        /\ UNCHANGED <<stored, generation, cursor, lockVars, diskVars>>
    BY <1>1 DEF Broadcast, Settle, Move, Reconciling
  <1>4. /\ pc'[p] = c /\ mem'[p] = mem[p]
        /\ UNCHANGED <<stored, generation, key, execLock, confLock>>
    BY <1>1, <1>2, <1>3 DEF diskVars, lockVars
  <1>5. Local(p, pc[p], mem[p])'
    <2>1. LockInv(p, pc[p], mem[p])' /\ ModeInv(pc[p], mem[p])' /\ SendInv(pc[p], mem[p])'
      BY <1>1, <1>2, <1>3, <1>4
      DEF Local, LockInv, ModeInv, SendInv, Drains, LockedPlaces, Publishing, Reconciling, ActiveOf
    <2>2. CurrentInv(pc[p], mem[p])'
      BY <1>1, <1>3, <1>4 DEF Local, CurrentInv, Evaluates, Reconciling, ActiveOf
    <2>3. ClientInv(pc[p], mem[p])'
      BY <1>1, <1>3, <1>4 DEF Local, ClientInv, Evaluates, Reconciling, ActiveOf
    <2>4. UpdateInv(pc[p], mem[p])'
      BY <1>1, <1>3, <1>4 DEF Local, UpdateInv, Updating, Publishing, Drains, Reconciling
    <2> QED
      BY <2>1, <2>2, <2>3, <2>4 DEF Local
  <1>6. c \in Places
    BY DEF Places, LockedPlaces, Reconciling
  <1>7. CASE Broadcast(p)
    <2>1. /\ pending' \in Swaps /\ pending'.origin = pending.origin /\ pending'.key = pending.key
          /\ baseline' = baseline
      BY <1>1, <1>7, SwapFields DEF Broadcast
    <2>2. BaselineInv' /\ PendingUsesCurrentKey' /\ PendingOfActiveConfig'
      BY <1>1, <1>4, <2>1 DEF IInv, BaselineInv, PendingUsesCurrentKey, PendingOfActiveConfig
    <2> QED
      BY <1>1, <1>2, <1>3, <1>5, <1>6, <2>1, <2>2, DbStep
  <1>8. CASE Settle(p)
    <2>1. /\ pending' = None /\ baseline' \in {baseline, pending.origin}
          /\ pending.origin \in Origins
      BY <1>1, <1>8, SwapFields DEF Settle
    <2>2. BaselineInv' /\ PendingUsesCurrentKey' /\ PendingOfActiveConfig'
      BY <1>1, <1>4, <2>1 DEF IInv, BaselineInv, PendingUsesCurrentKey, PendingOfActiveConfig
    <2> QED
      BY <1>1, <1>2, <1>3, <1>5, <1>6, <2>1, <2>2, DbStep
  <1> QED
    BY <1>7, <1>8

\* The rule observes the active market and pair for the first time.
LEMMA BaselineStep == ASSUME IInv, NEW p \in Procs, SaveBaseline(p) PROVE IInv'
  <1>1. /\ mem[p] \in Memory /\ mem \in [Procs -> Memory] /\ pc \in [Procs -> Places]
        /\ Local(p, pc[p], mem[p]) /\ mem[p].cfg \in Configs
        /\ pending \in Swaps \cup {None} /\ cursor \in Markets \cup {None}
    BY MemoryFields DEF IInv, TypeOK, ProcessInv
  <1>2. /\ pc[p] = "rules" /\ pc' = [pc EXCEPT ![p] = "evaluated"]
        /\ mem' = [mem EXCEPT ![p] = mem[p]] /\ mem[p].cfg.pair # None
        /\ baseline' = [market |-> mem[p].cfg.market, pair |-> mem[p].cfg.pair]
        /\ UNCHANGED <<stored, generation, cursor, pending, lockVars, diskVars>>
    BY <1>1 DEF SaveBaseline, Move
  <1>3. mem[p].cfg.market \in Markets /\ mem[p].cfg.pair \in Pairs
    BY <1>1, <1>2, ConfigFields
  <1>4. baseline' \in Origins
    BY <1>2, <1>3 DEF Origins
  <1>5. /\ pc'[p] = "evaluated" /\ mem'[p] = mem[p]
        /\ UNCHANGED <<stored, generation, key, execLock, confLock>>
    BY <1>1, <1>2 DEF diskVars, lockVars
  <1>6. LockInv(p, pc[p], mem[p])' /\ ModeInv(pc[p], mem[p])' /\ SendInv(pc[p], mem[p])'
    BY <1>1, <1>2, <1>5
    DEF Local, LockInv, ModeInv, SendInv, Drains, LockedPlaces, Publishing, Reconciling
  <1>7. CurrentInv(pc[p], mem[p])' /\ ClientInv(pc[p], mem[p])'
    BY <1>1, <1>2, <1>5 DEF Local, CurrentInv, ClientInv, Evaluates, Reconciling, ActiveOf
  <1>8. UpdateInv(pc[p], mem[p])'
    BY <1>5 DEF UpdateInv, Updating, Publishing, Drains, Reconciling
  <1>9. Local(p, pc[p], mem[p])' /\ "evaluated" \in Places
    BY <1>6, <1>7, <1>8 DEF Local, Places, LockedPlaces
  <1>10. BaselineInv'
    <2>1. mem[p].cfg = ActiveOf(mem[p])
      BY <1>1, <1>2 DEF Local, CurrentInv, Evaluates
    <2> QED
      BY <1>2, <1>5, <2>1 DEF IInv, BaselineInv, ActiveOf
  <1>11. PendingUsesCurrentKey' /\ PendingOfActiveConfig'
    BY <1>2, <1>5 DEF IInv, PendingUsesCurrentKey, PendingOfActiveConfig
  <1> QED
    BY <1>1, <1>2, <1>4, <1>9, <1>10, <1>11, DbStep

\* A run is journaled under the active configuration and signed with the current key.
LEMMA BeginInv == ASSUME IInv, NEW p \in Procs, BeginTrade(p) PROVE IInv'
  <1> DEFINE back == IF p \in Workers THEN "handled" ELSE "ready"
             m == [mem[p] EXCEPT !.mode = "trade", !.allow = TRUE, !.back = back]
  <1>1. /\ mem[p] \in Memory /\ mem \in [Procs -> Memory] /\ pc \in [Procs -> Places]
        /\ Local(p, pc[p], mem[p]) /\ mem[p].cfg \in Configs
        /\ baseline \in Origins \cup {None} /\ cursor \in Markets \cup {None}
        /\ mem[p].client \in Keys \cup {None}
    BY MemoryFields DEF IInv, TypeOK, ProcessInv
  <1>2. /\ pc[p] = "rules" /\ pc' = [pc EXCEPT ![p] = "reconcile"]
        /\ mem' = [mem EXCEPT ![p] = m] /\ mem[p].cfg.pair # None /\ mem[p].cfg.execute
        /\ pending' = [origin |-> [market |-> mem[p].cfg.market, pair |-> mem[p].cfg.pair],
                       key |-> mem[p].client, sent |-> FALSE]
        /\ UNCHANGED <<stored, generation, baseline, cursor, lockVars, diskVars>>
    BY <1>1 DEF BeginTrade, Move
  <1>3. back \in {"handled", "ready"}
    OBVIOUS
  <1> HIDE DEF back
  <1>4. /\ m \in Memory /\ m.mode = "trade" /\ m.back = back /\ m.gen = mem[p].gen
        /\ m.client = mem[p].client /\ m.cfg = mem[p].cfg
    BY <1>1, <1>3 DEF Memory
  <1> HIDE DEF m
  <1>5. mem[p].cfg.market \in Markets /\ mem[p].cfg.pair \in Pairs
    BY <1>1, <1>2, ConfigFields
  <1>6. pending' \in Swaps
    <2>1. [market |-> mem[p].cfg.market, pair |-> mem[p].cfg.pair] \in Origins
      BY <1>5 DEF Origins
    <2> QED
      BY <1>1, <1>2, <2>1 DEF Swaps
  <1>7. /\ pc'[p] = "reconcile" /\ mem'[p] = m
        /\ UNCHANGED <<stored, generation, key, execLock, confLock>>
    BY <1>1, <1>2 DEF diskVars, lockVars
  <1>8. /\ mem[p].gen = generation /\ mem[p].cfg = ActiveOf(mem[p])
        /\ mem[p].client = key /\ execLock = p /\ mem[p].client # None
    BY <1>1, <1>2 DEF Local, LockInv, CurrentInv, ClientInv, Evaluates, LockedPlaces
  <1>9. LockInv(p, pc[p], mem[p])' /\ ModeInv(pc[p], mem[p])' /\ SendInv(pc[p], mem[p])'
    BY <1>2, <1>3, <1>4, <1>7, <1>8
    DEF LockInv, ModeInv, SendInv, Drains, LockedPlaces, Publishing, Reconciling, ActiveOf
  <1>10. CurrentInv(pc[p], mem[p])' /\ ClientInv(pc[p], mem[p])'
    BY <1>1, <1>4, <1>7, <1>8 DEF Local, CurrentInv, ClientInv, Evaluates, ActiveOf
  <1>11. UpdateInv(pc[p], mem[p])'
    BY <1>4, <1>7 DEF UpdateInv, Updating, Publishing, Drains, Reconciling
  <1>12. Local(p, pc[p], mem[p])' /\ "reconcile" \in Places
    BY <1>9, <1>10, <1>11 DEF Local, Places, LockedPlaces
  <1>13. BaselineInv'
    BY <1>2, <1>7 DEF IInv, BaselineInv
  <1>14. PendingUsesCurrentKey' /\ PendingOfActiveConfig'
    BY <1>2, <1>7, <1>8 DEF PendingUsesCurrentKey, PendingOfActiveConfig, ActiveOf
  <1> QED
    BY <1>1, <1>2, <1>4, <1>6, <1>8, <1>12, <1>13, <1>14, DbStep

\* The cursor is written by a watcher that holds no lock.
LEMMA CursorInv == ASSUME IInv, NEW p \in Procs, SaveCursor(p) PROVE IInv'
  <1>1. /\ mem[p] \in Memory /\ mem \in [Procs -> Memory] /\ pc \in [Procs -> Places]
        /\ Local(p, pc[p], mem[p]) /\ mem[p].cfg \in Configs
        /\ baseline \in Origins \cup {None} /\ pending \in Swaps \cup {None}
    BY MemoryFields DEF IInv, TypeOK, ProcessInv
  <1>2. /\ pc[p] = "save" /\ pc' = [pc EXCEPT ![p] = "watching"]
        /\ mem' = [mem EXCEPT ![p] = mem[p]] /\ cursor' \in Markets
        /\ UNCHANGED <<stored, generation, baseline, pending, lockVars, diskVars>>
    BY <1>1, ConfigFields DEF SaveCursor, Move
  <1>3. /\ pc'[p] = "watching" /\ mem'[p] = mem[p]
        /\ UNCHANGED <<stored, generation, key, execLock, confLock>>
    BY <1>1, <1>2 DEF diskVars, lockVars
  <1>4. LockInv(p, pc[p], mem[p])' /\ ModeInv(pc[p], mem[p])' /\ SendInv(pc[p], mem[p])'
    BY <1>3 DEF LockInv, ModeInv, SendInv, Drains, LockedPlaces, Publishing, Reconciling
  <1>5. CurrentInv(pc[p], mem[p])' /\ ClientInv(pc[p], mem[p])'
    BY <1>1, <1>2, <1>3 DEF Local, CurrentInv, ClientInv, Evaluates, Reconciling, ActiveOf
  <1>6. UpdateInv(pc[p], mem[p])'
    BY <1>3 DEF UpdateInv, Updating, Publishing, Drains, Reconciling
  <1>7. Local(p, pc[p], mem[p])' /\ "watching" \in Places
    BY <1>4, <1>5, <1>6 DEF Local, Places, WorkerPlaces
  <1>8. BaselineInv' /\ PendingUsesCurrentKey' /\ PendingOfActiveConfig'
    BY <1>2, <1>3 DEF IInv, BaselineInv, PendingUsesCurrentKey, PendingOfActiveConfig
  <1> QED
    BY <1>1, <1>2, <1>7, <1>8, DbStep

-----------------------------------------------------------------------------
(* The publication *)

\* The local file is written.
LEMMA FileInv == ASSUME IInv, NEW p \in Procs, WriteFile(p) PROVE IInv'
  <1>1. /\ mem[p] \in Memory /\ mem \in [Procs -> Memory] /\ pc \in [Procs -> Places]
        /\ Local(p, pc[p], mem[p]) /\ file \in Configs
    BY DEF IInv, TypeOK, ProcessInv
  <1>2. /\ pc[p] = "publish" /\ pc' = [pc EXCEPT ![p] = "store"]
        /\ UNCHANGED <<key, edits, enabled, mem, dbVars, lockVars>>
        /\ file' \in {file, mem[p].target}
    BY DEF WriteFile, Move
  <1>3. file' \in Configs
    BY <1>1, <1>2, MemoryFields DEF Local, UpdateInv, Updating, Publishing
  <1>4. /\ pc'[p] = "store" /\ mem'[p] = mem[p] /\ \A q \in Procs : q # p => pc'[q] = pc[q]
        /\ UNCHANGED <<stored, generation, baseline, cursor, pending, key, execLock, confLock>>
    BY <1>1, <1>2 DEF dbVars, lockVars
  <1>5. TypeOK'
    <2>1. pc' \in [Procs -> Places]
      BY <1>1, <1>2 DEF Places, UpdatePlaces
    <2> QED
      BY <1>2, <1>3, <1>4, <2>1 DEF IInv, TypeOK
  <1>6. LockInv(p, pc[p], mem[p])' /\ ModeInv(pc[p], mem[p])' /\ SendInv(pc[p], mem[p])'
    BY <1>1, <1>2, <1>4
    DEF Local, LockInv, ModeInv, SendInv, Drains, LockedPlaces, Publishing, Reconciling
  <1>7. CurrentInv(pc[p], mem[p])' /\ ClientInv(pc[p], mem[p])'
    BY <1>1, <1>4 DEF Local, CurrentInv, ClientInv, Evaluates, Reconciling, ActiveOf
  <1>8. UpdateInv(pc[p], mem[p])'
    BY <1>1, <1>2, <1>4 DEF Local, UpdateInv, Updating, Publishing, Drains, Reconciling
  <1>9. ProcessInv'
    <2>1. Local(p, pc[p], mem[p])'
      BY <1>6, <1>7, <1>8 DEF Local
    <2> QED
      BY <1>2, <1>4, <2>1, OthersKept
  <1>10. BaselineInv' /\ PendingUsesCurrentKey' /\ PendingOfActiveConfig'
    BY <1>4 DEF IInv, BaselineInv, PendingUsesCurrentKey, PendingOfActiveConfig
  <1> QED
    BY <1>5, <1>9, <1>10 DEF IInv

\* A new revision: nobody else evaluates, reconciles or publishes at that moment,
\* and no memory holds the new revision yet.
LEMMA StoreInv == ASSUME IInv, NEW p \in Procs, StoreConfig(p) PROVE IInv'
  <1> DEFINE target == mem[p].target
             changed == Active(p).market # target.market
  <1>1. /\ mem[p] \in Memory /\ mem \in [Procs -> Memory] /\ pc \in [Procs -> Places]
        /\ Local(p, pc[p], mem[p]) /\ generation \in 0..MaxGeneration /\ key \in Keys
        /\ baseline \in Origins \cup {None} /\ cursor \in Markets \cup {None}
        /\ enabled \in SUBSET Keys
    BY DEF IInv, TypeOK, ProcessInv
  <1>2. /\ pc[p] = "store" /\ pc' = [pc EXCEPT ![p] = "rekey"]
        /\ stored' = target /\ generation' = generation + 1
        /\ UNCHANGED <<mem, pending, lockVars, file, key, edits>>
        /\ enabled' \in {enabled, enabled \cup {key}}
    BY DEF StoreConfig, Move
  <1>3. /\ baseline' = IF changed \/ Active(p).pair # target.pair THEN None ELSE baseline
        /\ cursor' \in {cursor, None}
    BY DEF StoreConfig
  <1>4. /\ pending = None /\ execLock = p /\ confLock = p /\ generation < MaxGeneration
        /\ target # None /\ target \in Configs
    BY <1>1, <1>2, MemoryFields
    DEF Local, LockInv, UpdateInv, Updating, Publishing
  <1> HIDE DEF target
  <1>5. /\ pc'[p] = "rekey" /\ mem'[p] = mem[p]
        /\ \A q \in Procs : q # p => pc'[q] = pc[q] /\ mem'[q] = mem[q]
        /\ UNCHANGED <<pending, execLock, confLock, file, key, edits>>
    BY <1>1, <1>2 DEF lockVars
  <1>6. /\ generation' \in 0..MaxGeneration /\ generation \in Nat
        /\ \A n \in Nat : n <= generation => n < generation' /\ n # generation'
    BY <1>1, <1>2, <1>4
  <1>7. TypeOK'
    <2>1. pc' \in [Procs -> Places]
      BY <1>1, <1>2 DEF Places, UpdatePlaces
    <2>2. /\ stored' \in Configs /\ baseline' \in Origins \cup {None}
          /\ cursor' \in Markets \cup {None} /\ enabled' \in SUBSET Keys
      BY <1>1, <1>2, <1>3, <1>4
    <2> QED
      BY <1>1, <1>2, <1>5, <1>6, <2>1, <2>2 DEF IInv, TypeOK
  <1>8. ASSUME NEW q \in Procs, q # p PROVE Local(q, pc[q], mem[q])'
    <2>1. /\ Local(q, pc[q], mem[q]) /\ mem[q].gen \in Nat
          /\ pc'[q] = pc[q] /\ mem'[q] = mem[q]
      BY <1>5, <1>8, MemoryFields DEF IInv, TypeOK, ProcessInv
    <2>2. /\ pc[q] \notin LockedPlaces \cup Publishing \cup Reconciling \cup {"draining"}
          /\ ~Drains(pc[q], mem[q]) /\ ~Evaluates(pc[q], mem[q])
      BY <1>4, <1>8, <2>1 DEF Local, LockInv, LockedPlaces, Reconciling, Drains, Evaluates
    <2>3. LockInv(q, pc[q], mem[q])' /\ ModeInv(pc[q], mem[q])' /\ SendInv(pc[q], mem[q])'
      BY <2>1, <2>2 DEF LockInv, ModeInv, SendInv, Drains, LockedPlaces
    <2>4. CurrentInv(pc[q], mem[q])' /\ ClientInv(pc[q], mem[q])'
      BY <1>6, <2>1, <2>2 DEF Local, CurrentInv, ClientInv, Evaluates
    <2>5. UpdateInv(pc[q], mem[q])'
      BY <2>1, <2>2 DEF Local, UpdateInv, Updating, Publishing, Drains
    <2> QED
      BY <2>3, <2>4, <2>5 DEF Local
  <1>9. Local(p, pc[p], mem[p])'
    <2>1. LockInv(p, pc[p], mem[p])' /\ ModeInv(pc[p], mem[p])' /\ SendInv(pc[p], mem[p])'
      BY <1>4, <1>5 DEF LockInv, ModeInv, SendInv, Drains, LockedPlaces, Publishing, Reconciling
    <2>2. mem[p].gen \in Nat /\ mem[p].gen <= generation
      BY <1>1, MemoryFields DEF Local, CurrentInv
    <2>3. CurrentInv(pc[p], mem[p])' /\ ClientInv(pc[p], mem[p])'
      BY <1>5, <1>6, <2>2 DEF CurrentInv, ClientInv, Evaluates, Reconciling
    <2>4. UpdateInv(pc[p], mem[p])'
      BY <1>1, <1>2, <1>4, <1>5
      DEF Local, UpdateInv, Updating, Publishing, Drains, Reconciling, target
    <2> QED
      BY <2>1, <2>3, <2>4 DEF Local
  <1>10. BaselineInv'
    <2> SUFFICES ASSUME Published, baseline' # None
                 PROVE  baseline' = [market |-> stored'.market, pair |-> stored'.pair]
      BY <1>2, <1>4 DEF BaselineInv
    <2>1. ~changed /\ Active(p).pair = target.pair /\ baseline' = baseline
      BY <1>3
    <2>2. baseline = [market |-> stored.market, pair |-> stored.pair] /\ Active(p) = stored
      BY <2>1 DEF IInv, BaselineInv, Active
    <2> QED
      BY <1>2, <2>1, <2>2
  <1>11. PendingUsesCurrentKey' /\ PendingOfActiveConfig'
    BY <1>4, <1>5 DEF PendingUsesCurrentKey, PendingOfActiveConfig
  <1> QED
    BY <1>7, <1>8, <1>9, <1>10, <1>11 DEF IInv, ProcessInv

\* The key is written when nobody may sign: a new key comes with execution off.
LEMMA KeyInv == ASSUME IInv, NEW p \in Procs, WriteKey(p) PROVE IInv'
  <1>1. /\ mem[p] \in Memory /\ mem \in [Procs -> Memory] /\ pc \in [Procs -> Places]
        /\ Local(p, pc[p], mem[p]) /\ generation \in 0..MaxGeneration /\ key \in Keys
        /\ Active(p) \in Configs
    BY ActiveType DEF IInv, TypeOK, ProcessInv
  <1>2. /\ pc[p] = "rekey" /\ GoHome(p) /\ Release(p)
        /\ key' = IF mem[p].newKey # None THEN mem[p].newKey ELSE key
        /\ UNCHANGED <<file, edits, enabled, stored, generation, baseline, cursor, pending>>
    BY DEF WriteKey, dbVars
  <1>3. /\ pending = None /\ execLock = p /\ confLock = p /\ stored = mem[p].target
        /\ stored # None
        /\ mem[p].newKey # None => ~stored.execute
    BY <1>1, <1>2 DEF Local, LockInv, UpdateInv, Updating, Publishing
  <1>4. /\ pc' = [pc EXCEPT ![p] = Home(p)] /\ mem' = [mem EXCEPT ![p] = Fresh(Active(p))]
        /\ execLock' = Nobody /\ confLock' = Nobody /\ Fresh(Active(p)) \in Memory
        /\ Home(p) \in {"top", "ready"}
    BY <1>1, <1>2, <1>3, HomePlace, FreshMemory DEF GoHome, Release
  <1>5. /\ pc'[p] \in {"top", "ready"} /\ mem'[p] = Fresh(Active(p)) /\ key' \in Keys
        /\ \A q \in Procs : q # p => pc'[q] = pc[q] /\ mem'[q] = mem[q]
    BY <1>1, <1>2, <1>4, MemoryFields
  <1>6. TypeOK'
    <2>1. pc' \in [Procs -> Places] /\ mem' \in [Procs -> Memory]
      BY <1>1, <1>4 DEF Places, WorkerPlaces, EditorPlaces
    <2> QED
      BY <1>2, <1>4, <1>5, <2>1 DEF IInv, TypeOK
  <1>7. ASSUME NEW q \in Procs, q # p PROVE Local(q, pc[q], mem[q])'
    <2>1. Local(q, pc[q], mem[q]) /\ pc'[q] = pc[q] /\ mem'[q] = mem[q]
      BY <1>5, <1>7 DEF IInv, ProcessInv
    <2>2. /\ pc[q] \notin LockedPlaces \cup Publishing \cup Reconciling \cup {"draining"}
          /\ ~Drains(pc[q], mem[q]) /\ ~Evaluates(pc[q], mem[q])
      BY <1>3, <1>7, <2>1 DEF Local, LockInv, LockedPlaces, Reconciling, Drains, Evaluates
    <2>3. LockInv(q, pc[q], mem[q])' /\ ModeInv(pc[q], mem[q])' /\ SendInv(pc[q], mem[q])'
      BY <2>1, <2>2 DEF LockInv, ModeInv, SendInv, Drains, LockedPlaces
    <2>4. CurrentInv(pc[q], mem[q])'
      BY <1>2, <2>1, <2>2 DEF Local, CurrentInv, Evaluates
    <2>5. ClientInv(pc[q], mem[q])'
      <3>1. CASE mem[p].newKey = None
        BY <1>2, <2>1, <3>1 DEF Local, ClientInv, Evaluates, ActiveOf
      <3>2. CASE mem[p].newKey # None
        <4>1. stored' = stored /\ stored # None /\ ~stored.execute
          BY <1>2, <1>3, <3>2
        <4>2. ActiveOf(mem[q])' = stored
          BY <4>1 DEF ActiveOf
        <4>3. ~(mem[q].cfg = ActiveOf(mem[q])' /\ mem[q].cfg.execute)
          BY <4>1, <4>2
        <4> QED
          BY <2>1, <2>2, <4>3 DEF Local, ClientInv
      <3> QED
        BY <3>1, <3>2
    <2>6. UpdateInv(pc[q], mem[q])'
      BY <1>2, <2>1, <2>2 DEF Local, UpdateInv, Updating, Publishing, Drains
    <2> QED
      BY <2>3, <2>4, <2>5, <2>6 DEF Local
  <1>8. Local(p, pc[p], mem[p])'
    BY <1>1, <1>2, <1>5, FreshLocal
  <1>9. BaselineInv' /\ PendingUsesCurrentKey' /\ PendingOfActiveConfig'
    BY <1>2, <1>3 DEF IInv, BaselineInv, PendingUsesCurrentKey, PendingOfActiveConfig
  <1> QED
    BY <1>6, <1>7, <1>8, <1>9 DEF IInv, ProcessInv

\* The operator's edits reach nothing but the file.
LEMMA EditInv == ASSUME IInv, NEW cfg \in Targets, EditFile(cfg) PROVE IInv'
  <1>1. /\ file' \in Configs /\ edits' \in 0..MaxEdits
        /\ UNCHANGED <<stored, generation, baseline, cursor, pending, execLock, confLock,
                       key, enabled, pc, mem>>
    BY DEF EditFile, IInv, TypeOK, dbVars, lockVars
  <1>2. TypeOK'
    BY <1>1 DEF IInv, TypeOK
  <1>3. ProcessInv'
    BY <1>1 DEF IInv, ProcessInv, Local, LockInv, ModeInv, CurrentInv, ClientInv, SendInv,
                UpdateInv, Drains, Evaluates, ActiveOf
  <1>4. BaselineInv' /\ PendingUsesCurrentKey' /\ PendingOfActiveConfig'
    BY <1>1 DEF IInv, BaselineInv, PendingUsesCurrentKey, PendingOfActiveConfig
  <1> QED
    BY <1>2, <1>3, <1>4 DEF IInv

-----------------------------------------------------------------------------
(* The theorems *)

LEMMA InitInv == Init => IInv
  <1> SUFFICES ASSUME Init PROVE IInv
    OBVIOUS
  <1>1. /\ Fresh(FirstConfig) \in Memory /\ Fresh(FirstConfig).gen = 0
        /\ Fresh(FirstConfig).client = None /\ Fresh(FirstConfig).newKey = None
        /\ Fresh(FirstConfig).mode = "none"
    BY FreshMemory
  <1>2. /\ generation \in 0..MaxGeneration /\ generation \in Nat
        /\ stored \in Configs \cup {None} /\ pending = None /\ baseline = None
    BY DEF Init
  <1>3. TypeOK
    <2>1. pc \in [Procs -> Places]
      BY HomePlace DEF Init, Places, WorkerPlaces, EditorPlaces
    <2>2. mem \in [Procs -> Memory] /\ enabled \in SUBSET Keys /\ edits \in 0..MaxEdits
      BY <1>1 DEF Init
    <2> QED
      BY <1>2, <2>1, <2>2 DEF Init, TypeOK
  <1>4. ASSUME NEW p \in Procs PROVE Local(p, pc[p], mem[p])
    <2>1. /\ pc[p] \in {"top", "ready"} /\ mem[p].gen = 0 /\ mem[p].client = None
          /\ mem[p].newKey = None /\ mem[p].mode = "none"
      BY <1>1, HomePlace DEF Init
    <2>2. LockInv(p, pc[p], mem[p]) /\ ModeInv(pc[p], mem[p]) /\ SendInv(pc[p], mem[p])
      BY <2>1 DEF LockInv, ModeInv, SendInv, Drains, LockedPlaces, Publishing, Reconciling
    <2>3. CurrentInv(pc[p], mem[p]) /\ ClientInv(pc[p], mem[p])
      BY <1>2, <2>1 DEF CurrentInv, ClientInv, Evaluates, Reconciling
    <2>4. UpdateInv(pc[p], mem[p])
      BY <2>1 DEF UpdateInv, Updating, Publishing, Drains, Reconciling
    <2> QED
      BY <2>2, <2>3, <2>4 DEF Local
  <1>5. BaselineInv
    <2>1. Published => stored # None
      BY ConfigFields DEF Init
    <2> QED
      BY <1>2, <2>1 DEF BaselineInv
  <1>6. PendingUsesCurrentKey /\ PendingOfActiveConfig
    BY <1>2 DEF PendingUsesCurrentKey, PendingOfActiveConfig
  <1> QED
    BY <1>3, <1>4, <1>5, <1>6 DEF IInv, ProcessInv

LEMMA StepInv == IInv /\ [Next]_vars => IInv'
  <1> SUFFICES ASSUME IInv, [Next]_vars PROVE IInv'
    OBVIOUS
  <1>1. ASSUME NEW p \in Procs, Step(p) PROVE IInv'
    BY <1>1, LifeInv, AskInv, MoveInv, OpenInv, ReadGenerationInv, ClaimInv, SwapInv, EndInv,
       BaselineStep, BeginInv, CursorInv, GateInv, FileInv, StoreInv, KeyInv DEF Step
  <1>2. ASSUME NEW p \in Procs, Request(p) \/ Restart(p) \/ Stop(p) PROVE IInv'
    BY <1>2, AskInv, LifeInv
  <1>3. ASSUME NEW cfg \in Targets, EditFile(cfg) PROVE IInv'
    BY <1>3, EditInv
  <1>4. CASE UNCHANGED vars
    <2>1. UNCHANGED <<stored, generation, baseline, cursor, pending, confLock, execLock,
                      file, key, edits, enabled, pc, mem>>
      BY <1>4 DEF vars, dbVars, lockVars, diskVars
    <2>2. TypeOK'
      BY <2>1 DEF IInv, TypeOK
    <2>3. ProcessInv'
      BY <2>1 DEF IInv, ProcessInv, Local, LockInv, ModeInv, CurrentInv, ClientInv, SendInv,
                  UpdateInv, Drains, Evaluates, ActiveOf
    <2>4. BaselineInv' /\ PendingUsesCurrentKey' /\ PendingOfActiveConfig'
      BY <2>1 DEF IInv, BaselineInv, PendingUsesCurrentKey, PendingOfActiveConfig
    <2> QED
      BY <2>2, <2>3, <2>4 DEF IInv
  <1> QED
    BY <1>1, <1>2, <1>3, <1>4 DEF Next

\* The inductive invariant holds in every reachable state.
THEOREM ConfigurationInvariance == Spec => []IInv
  BY InitInv, StepInv, PTL DEF Spec

\* Database, files, locks and memories keep their types; no publication passes the
\* last revision.
THEOREM ConfigurationTypes == Spec => []TypeOK
  <1>1. IInv => TypeOK
    BY DEF IInv
  <1> QED
    BY <1>1, ConfigurationInvariance, PTL

\* No evaluation runs under a superseded configuration or revision.
THEOREM EvaluationsAreCurrent == Spec => []EvaluatesActiveConfig
  <1>1. IInv => EvaluatesActiveConfig
    BY ActiveType DEF IInv, ProcessInv, Local, CurrentInv, EvaluatesActiveConfig, Evaluating,
                      Evaluates, Reconciling
  <1> QED
    BY <1>1, ConfigurationInvariance, PTL

\* A pending swap is signed with the key in the key file.
THEOREM PendingKeyIsCurrent == Spec => []PendingUsesCurrentKey
  <1>1. IInv => PendingUsesCurrentKey
    BY DEF IInv
  <1> QED
    BY <1>1, ConfigurationInvariance, PTL

\* A pending swap never outlives the configuration it was decided under.
THEOREM PendingStaysActive == Spec => []PendingOfActiveConfig
  <1>1. IInv => PendingOfActiveConfig
    BY DEF IInv
  <1> QED
    BY <1>1, ConfigurationInvariance, PTL

\* Nobody sends bytes while execution is off.
THEOREM SendsOnlyWhenEnabled == Spec => []BroadcastOnlyWhenEnabled
  <1>1. IInv => BroadcastOnlyWhenEnabled
    <2> SUFFICES ASSUME IInv, NEW p \in Procs, pc[p] = "broadcasting"
                 PROVE  IF mem[p].mode = "drain" THEN mem[p].target.execute ELSE Active(p).execute
      BY DEF BroadcastOnlyWhenEnabled
    <2>1. SendInv(pc[p], mem[p]) /\ Active(p) = ActiveOf(mem[p])
      BY ActiveType DEF IInv, ProcessInv, Local
    <2> QED
      BY <2>1 DEF SendInv, Reconciling
  <1> QED
    BY <1>1, ConfigurationInvariance, PTL

\* Once a configuration is published, a price is compared only with a baseline of
\* its own market and pair.
THEOREM ComparisonsOfOwnMarket == ASSUME Published PROVE Spec => []ComparesOwnMarket
  <1>1. IInv => ComparesOwnMarket
    <2> SUFFICES ASSUME IInv, NEW p \in Procs, pc[p] = "rules", baseline # None
                 PROVE  baseline = [market |-> mem[p].cfg.market, pair |-> mem[p].cfg.pair]
      BY DEF ComparesOwnMarket
    <2>1. CurrentInv(pc[p], mem[p])
      BY DEF IInv, ProcessInv, Local
    <2>2. mem[p].cfg = stored
      BY <2>1 DEF CurrentInv, Evaluates, ActiveOf, IInv, BaselineInv
    <2> QED
      BY <2>2 DEF IInv, BaselineInv
  <1> QED
    BY <1>1, ConfigurationInvariance, PTL
=============================================================================
