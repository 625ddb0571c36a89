------------------------------ MODULE Accounts ------------------------------
(***************************************************************************)
(* Accounts as the dashboard creates and resets them (App of app.rs, the   *)
(* handlers of web/mod.rs) and the snapshot loop that records their equity *)
(* (snapshot_loop, save_snapshot).  A request changes the store, then the  *)
(* broker, then reads all accounts and writes the cache App.accounts; the  *)
(* loop reads generations, portfolios and saves, one account at a time.    *)
(*                                                                         *)
(* A portfolio is the generation whose cash it holds.  now counts ticks of *)
(* the loop, TicksPerDay of them in a day.  Trading is in module Broker,   *)
(* what happens to alerts at a reset in Alerts.                            *)
(*                                                                         *)
(* A definition whose comment begins with Mutant is used by nothing: it is *)
(* the definition after it with a mistake the properties must notice.      *)
(***************************************************************************)
EXTENDS Integers, FiniteSets

CONSTANTS
  Tasks,           \* requests handled at the same time
  Ids,             \* account ids
  TicksPerDay,
  MayFail,         \* whether reads and saves may fail
  MaxNow,          \* bound: ticks
  MaxGeneration    \* bound: resets

AccountsAssumption ==
  /\ TicksPerDay \in Nat \ {0} /\ MayFail \in BOOLEAN
  /\ MaxNow \in Nat /\ MaxGeneration \in Nat \ {0}

VARIABLES
  now,
  store,     \* accounts rows: the generation of each id, 0 without a row
  born,      \* their created_at
  broker,    \* the broker's generation and portfolio of each id, 0 for none
  accounts,  \* App.accounts: the cached generation
  tasks,     \* what each request is at, its account, and what it has read
  loop,      \* the snapshot loop: accounts left, generations read, tick, daily row or not
  lastDay,   \* last_day
  snapshots, \* equity_snapshots: the portfolio recorded, by key
  created    \* history: accounts whose creation was answered

vars == <<now, store, born, broker, accounts, tasks, loop, lastDay, snapshots, created>>

Day(t) == t \div TicksPerDay
Midnight(t) == Day(t) * TicksPerDay
Never == -1
IdleTask == [at |-> "idle", id |-> "none", generation |-> 0, read |-> [i \in Ids |-> 0]]
IdleLoop == [at |-> "idle", left |-> {}, generations |-> [i \in Ids |-> 0], time |-> 0, daily |-> FALSE]
Go(t, step) == tasks' = [tasks EXCEPT ![t].at = step]
Kinds == {"minute", "daily"}

(***************************************************************************)
(* Creating and resetting.                                                 *)
(***************************************************************************)
Create(t, i) ==
  /\ tasks[t].at = "idle" /\ accounts[i] = 0
  /\ tasks' = [tasks EXCEPT ![t] = [IdleTask EXCEPT !.at = "insert", !.id = i]]
  /\ UNCHANGED <<now, store, born, broker, accounts, loop, lastDay, snapshots, created>>

\* The id is the table's key: of two requests the later one is refused.
Insert(t) ==
  /\ tasks[t].at = "insert"
  /\ LET i == tasks[t].id
     IN  IF store[i] = 0
         THEN /\ store' = [store EXCEPT ![i] = 1]
              /\ born' = [born EXCEPT ![i] = now]
              /\ Go(t, "restore")
         ELSE /\ tasks' = [tasks EXCEPT ![t] = IdleTask]
              /\ UNCHANGED <<store, born>>
  /\ UNCHANGED <<now, broker, accounts, loop, lastDay, snapshots, created>>

RestoreNew(t) ==
  /\ tasks[t].at = "restore"
  /\ broker' = [broker EXCEPT ![tasks[t].id] = 1]
  /\ Go(t, "list")
  /\ UNCHANGED <<now, store, born, accounts, loop, lastDay, snapshots, created>>

Reset(t, i) ==
  /\ tasks[t].at = "idle" /\ accounts[i] # 0
  /\ tasks' = [tasks EXCEPT ![t] = [IdleTask EXCEPT !.at = "bump", !.id = i]]
  /\ UNCHANGED <<now, store, born, broker, accounts, loop, lastDay, snapshots, created>>

\* Mutant: the transaction that bumps the generation is not committed.
BumpedNot(i) == store

Bumped(i) == [store EXCEPT ![i] = @ + 1]

Bump(t) ==
  /\ tasks[t].at = "bump"
  /\ LET i == tasks[t].id
     IN  /\ store[i] < MaxGeneration
         /\ store' = Bumped(i)
         /\ tasks' = [tasks EXCEPT ![t].at = "reset", ![t].generation = store[i] + 1]
  /\ UNCHANGED <<now, born, broker, accounts, loop, lastDay, snapshots, created>>

ResetBroker(t) ==
  /\ tasks[t].at = "reset"
  /\ broker' = [broker EXCEPT ![tasks[t].id] = tasks[t].generation]
  /\ Go(t, "list")
  /\ UNCHANGED <<now, store, born, accounts, loop, lastDay, snapshots, created>>

List(t) ==
  /\ tasks[t].at = "list"
  /\ tasks' = [tasks EXCEPT ![t].at = "cache", ![t].read = store]
  /\ UNCHANGED <<now, store, born, broker, accounts, loop, lastDay, snapshots, created>>

Cache(t) ==
  /\ tasks[t].at = "cache"
  /\ accounts' = tasks[t].read
  /\ tasks' = [tasks EXCEPT ![t] = IdleTask]
  /\ created' = created \cup {tasks[t].id}
  /\ UNCHANGED <<now, store, born, broker, loop, lastDay, snapshots>>

\* A statement fails, and so does the request.
Fails(t) ==
  /\ MayFail /\ tasks[t].at \in {"insert", "bump", "list"}
  /\ tasks' = [tasks EXCEPT ![t] = IdleTask]
  /\ UNCHANGED <<now, store, born, broker, accounts, loop, lastDay, snapshots, created>>

(***************************************************************************)
(* The snapshot loop.                                                      *)
(***************************************************************************)

\* Mutant: accounts the broker does not hold are recorded too.
EveryId == Ids

Held == {i \in Ids : broker[i] # 0}

\* A tick whose rate cannot be had is skipped: that is no step.
Tick ==
  /\ loop.at = "idle"
  /\ loop' = [at |-> "saving", left |-> Held, generations |-> broker,
              time |-> now, daily |-> lastDay # Day(now)]
  /\ UNCHANGED <<now, store, born, broker, accounts, tasks, lastDay, snapshots, created>>

\* Mutant: a row that is there is written over.
SavedOver(keys, of) == [k \in DOMAIN snapshots \cup keys |-> IF k \in keys THEN of ELSE snapshots[k]]

\* ON CONFLICT DO NOTHING.
Saved(keys, of) ==
  [k \in DOMAIN snapshots \cup keys |-> IF k \in DOMAIN snapshots THEN snapshots[k] ELSE of]

\* The portfolio is read now, the generation was read at the tick.
Snapshot(i, kinds) ==
  /\ loop.at = "saving" /\ i \in loop.left
  /\ LET due == {"minute"} \cup {k \in {"daily"} : loop.daily}
         key(k) == [id |-> i, generation |-> loop.generations[i], kind |-> k,
                    at |-> IF k = "daily" THEN Midnight(loop.time) ELSE loop.time]
     IN  /\ kinds \subseteq due /\ (MayFail \/ kinds = due)
         /\ snapshots' = Saved({key(k) : k \in kinds}, broker[i])
  /\ loop' = [loop EXCEPT !.left = @ \ {i}]
  /\ UNCHANGED <<now, store, born, broker, accounts, tasks, lastDay, created>>

TickDone ==
  /\ loop.at = "saving" /\ loop.left = {}
  /\ loop' = IdleLoop
  /\ lastDay' = Day(loop.time)
  /\ UNCHANGED <<now, store, born, broker, accounts, tasks, snapshots, created>>

Passes ==
  /\ now < MaxNow
  /\ now' = now + 1
  /\ UNCHANGED <<store, born, broker, accounts, tasks, loop, lastDay, snapshots, created>>

\* restore and App::new
Restart ==
  /\ broker' = store /\ accounts' = store
  /\ tasks' = [t \in Tasks |-> IdleTask]
  /\ loop' = IdleLoop /\ lastDay' = Never
  /\ UNCHANGED <<now, store, born, snapshots, created>>

Init ==
  /\ now = 0
  /\ store = [i \in Ids |-> 0] /\ born = [i \in Ids |-> 0]
  /\ broker = store /\ accounts = store
  /\ tasks = [t \in Tasks |-> IdleTask]
  /\ loop = IdleLoop /\ lastDay = Never
  /\ snapshots = << >> /\ created = {}

Next ==
  \/ \E t \in Tasks :
       \/ Insert(t) \/ RestoreNew(t) \/ Bump(t) \/ ResetBroker(t) \/ List(t) \/ Cache(t) \/ Fails(t)
       \/ \E i \in Ids : Create(t, i) \/ Reset(t, i)
  \/ Tick \/ TickDone \/ Passes \/ Restart
  \/ \E i \in Ids, kinds \in SUBSET Kinds : Snapshot(i, kinds)

Spec == Init /\ [][Next]_vars

(***************************************************************************)
(* Properties.                                                             *)
(***************************************************************************)
Generations == 0 .. MaxGeneration

TypeOK ==
  /\ store \in [Ids -> Generations] /\ broker \in [Ids -> Generations] /\ accounts \in [Ids -> Generations]
  /\ \A k \in DOMAIN snapshots :
       /\ k.id \in Ids /\ k.kind \in Kinds /\ k.at \in 0 .. MaxNow
       /\ {k.generation, snapshots[k]} \subseteq Generations \ {0}
  /\ loop.left \subseteq {i \in Ids : loop.generations[i] # 0}

\* Broker and cache never know a generation the store does not have: a crash between
\* the steps of any requests leaves nothing traded under it.
CachesBehind == \A i \in Ids : broker[i] <= store[i] /\ accounts[i] <= store[i]

\* What was recorded stays: a restart in the middle of a day does not replace the
\* day's close by a later equity.
RecordedForGood ==
  [][\A k \in DOMAIN snapshots : k \in DOMAIN snapshots' /\ snapshots'[k] = snapshots[k]]_vars

\* (violated) An account is tradable as soon as its creation is answered.
CreatedIsListed == \A i \in created : accounts[i] # 0

\* (violated) The rows of a generation hold the equity of that generation.
SnapshotsKeepGeneration == \A k \in DOMAIN snapshots : snapshots[k] = k.generation

\* (violated) A daily close is the equity at midnight: none is of a time before the
\* account was there.
DailyAfterCreation == \A k \in DOMAIN snapshots : k.kind = "daily" => k.at >= born[k.id]
=============================================================================
