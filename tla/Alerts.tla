------------------------------- MODULE Alerts -------------------------------
(***************************************************************************)
(* The alerts of src/alerts: creating and deleting them (src/tools),       *)
(* watching (Watcher), the hourly limit and its digests (Limiter and       *)
(* alert_loop) and delivery (handle, deliver), with the rows and events    *)
(* the store keeps, resets of an account (src/app.rs) and restarts.        *)
(*                                                                         *)
(* When a condition holds is the subject of Watcher; here a print may hit  *)
(* any alert.  A fill hits the fill alerts of its account.                 *)
(***************************************************************************)
EXTENDS Naturals, Sequences, FiniteSets, SequencesExt

CONSTANTS
  Accounts,
  AlertIds,        \* ids of the alerts that will be created
  AccountOf,       \* [AlertIds -> Accounts]
  Once,            \* SUBSET AlertIds: turn off when they fire
  OnFills,         \* SUBSET AlertIds: Condition::OrderFilled, the others watch prints
  MaxActive,       \* active alerts per account, create_alert (50)
  Cooldown,        \* COOLDOWN in units of time
  Hour,            \* the limiter's window in units of time
  PerHour,         \* PER_HOUR
  MarkAttempts,    \* attempts to store a firing (5)
  MaxFirings,      \* bound: firings of a behaviour
  MaxGeneration,   \* bound: resets of an account
  MaxRestarts,     \* bound: restarts of the process
  Failures         \* SUBSET {"store", "send"}: what may fail

AlertsAssumption ==
  /\ IsFiniteSet(Accounts) /\ IsFiniteSet(AlertIds)
  /\ AccountOf \in [AlertIds -> Accounts]
  /\ Once \subseteq AlertIds /\ OnFills \subseteq AlertIds
  /\ {MaxActive, Cooldown, Hour, PerHour, MarkAttempts, MaxGeneration} \subseteq Nat \ {0}
  /\ {MaxFirings, MaxRestarts} \subseteq Nat

VARIABLES
  generation,      \* accounts.generation
  cached,          \* the generation in App.accounts
  resetting,       \* how far App::reset_account has come, per account
  rows,            \* table alerts
  calls,           \* create_alert and delete_alert calls under way, per alert
  session,         \* accounts.alert_session_id is set
  events,          \* table alert_events, by firing
  cmds,            \* commands on their way to alert_loop
  bus,             \* fills on their way to alert_loop
  armed,           \* Watcher.alerts
  cool,            \* what is left of an alert's cooldown
  sent,            \* Limiter.sent: ages of what was admitted
  digest,          \* firings held back, per account
  firings,         \* the firings alert_loop is handing on
  workers,         \* tasks running handle
  fired,           \* history: alert and fill of each firing so far
  told,            \* history: firings whose text reached the conversation
  lost,            \* history: firings dropped by a crash or a failure
  starts,          \* history: ages of the messages handed to workers
  restarts         \* number of restarts

stored == <<generation, rows, session, events>>
memory == <<cached, armed, cool, sent, digest, firings, workers, cmds, bus>>
history == <<fired, told, lost, starts, restarts>>
vars == <<stored, memory, resetting, calls, history>>

NoRow == [state |-> "none", generation |-> 0, cool |-> 0]
NoCall == [pc |-> "none", generation |-> 0]
Firing == [n : 1..MaxFirings, account : Accounts, items : {<<>>}]
Digest == [n : {0}, account : Accounts, items : Seq(1..MaxFirings)]
Stages == {"mark", "wait", "record", "send", "resend"}
IsDigest(f) == f.n = 0
NumbersOf(f) == IF IsDigest(f) THEN ToSet(f.items) ELSE {f.n}
AlertOf(n) == fired[n].alert
CurrentAlerts(a) == {i \in AlertIds : AccountOf[i] = a /\ rows[i].state = "active"
                                      /\ rows[i].generation = cached[a]}
\* The generation of a and of its fills in the broker's memory.
BrokerGeneration(a) == IF resetting[a] = "stored" THEN generation[a] - 1 ELSE generation[a]

(***************************************************************************)
(* create_alert and delete_alert.  Each step ends at an await.             *)
(***************************************************************************)
CheckLimit(i) ==
  /\ calls[i].pc = "none" /\ rows[i].state = "none"
  /\ Cardinality(CurrentAlerts(AccountOf[i])) < MaxActive
  /\ calls' = [calls EXCEPT ![i] = [pc |-> "checked", generation |-> cached[AccountOf[i]]]]
  /\ UNCHANGED <<stored, memory, resetting, history>>

InsertAlert(i) ==
  /\ calls[i].pc = "checked"
  /\ rows' = [rows EXCEPT ![i] = [state |-> "active", generation |-> calls[i].generation, cool |-> 0]]
  /\ calls' = [calls EXCEPT ![i].pc = "inserted"]
  /\ UNCHANGED <<generation, session, events, memory, resetting, history>>

\* The caller's conversation, if it has one, becomes the account's.
Upsert(i) ==
  /\ calls[i].pc = "inserted"
  /\ \E s \in {session[AccountOf[i]], TRUE} : session' = [session EXCEPT ![AccountOf[i]] = s]
  /\ cmds' = Append(cmds, [cmd |-> "upsert", alert |-> i, account |-> AccountOf[i]])
  /\ calls' = [calls EXCEPT ![i] = NoCall]
  /\ UNCHANGED <<generation, rows, events, cached, armed, cool, sent, digest, firings, workers,
                 bus, resetting, history>>

Deactivate(i) ==
  /\ i \in CurrentAlerts(AccountOf[i])
  /\ calls[i].pc \in {"none", "inserted"}   \* list_alerts tells the id as soon as the row is there
  /\ rows' = [rows EXCEPT ![i].state = "off"]
  /\ cmds' = Append(cmds, [cmd |-> "remove", alert |-> i, account |-> AccountOf[i]])
  /\ UNCHANGED <<generation, session, events, cached, armed, cool, sent, digest, firings, workers,
                 bus, resetting, calls, history>>

\* The dashboard chooses the account's conversation, or none.
ChooseSession(a) ==
  /\ session' = [session EXCEPT ![a] = ~ @]
  /\ UNCHANGED <<generation, rows, events, memory, resetting, calls, history>>

(***************************************************************************)
(* App::reset_account: the store; then the broker and the watcher; then    *)
(* the account cache.                                                      *)
(***************************************************************************)
ResetStore(a) ==
  /\ resetting[a] = "no" /\ generation[a] < MaxGeneration
  /\ generation' = [generation EXCEPT ![a] = @ + 1]
  /\ resetting' = [resetting EXCEPT ![a] = "stored"]
  /\ UNCHANGED <<rows, session, events, memory, calls, history>>

DropAccount(a) ==
  /\ resetting[a] = "stored"
  /\ resetting' = [resetting EXCEPT ![a] = "dropped"]
  /\ cmds' = Append(cmds, [cmd |-> "drop", account |-> a])
  /\ UNCHANGED <<stored, cached, armed, cool, sent, digest, firings, workers, bus, calls, history>>

ReloadAccounts(a) ==
  /\ resetting[a] = "dropped"
  /\ resetting' = [resetting EXCEPT ![a] = "no"]
  /\ cached' = generation
  /\ UNCHANGED <<stored, armed, cool, sent, digest, firings, workers, cmds, bus, calls, history>>

(***************************************************************************)
(* alert_loop: a command, an event of the bus, or a tick; then the         *)
(* firings it led to, one by one.                                          *)
(***************************************************************************)
Command ==
  /\ firings = <<>> /\ cmds # <<>>
  /\ LET c == Head(cmds) IN
       /\ armed' = CASE c.cmd = "upsert" -> armed \union {c.alert}
                     [] c.cmd = "remove" -> armed \ {c.alert}
                     [] c.cmd = "drop"   -> {i \in armed : AccountOf[i] # c.account}
       /\ cool' = IF c.cmd = "upsert" THEN [cool EXCEPT ![c.alert] = 0] ELSE cool
  /\ cmds' = Tail(cmds)
  /\ UNCHANGED <<stored, cached, sent, digest, firings, workers, bus, resetting, calls, history>>

\* The generation of the fill that hit the alert, 0 for a print.
Hit(i, g) == [alert |-> i, generation |-> g]

\* Watcher::fire: alerts of hits that are armed and off cooldown fire in some
\* order, one-shots are removed.
\* Mutant: every alert that fires is removed.
RemovedAll(S) == armed \ S
Removed(S) == armed \ (S \intersect Once)
Fire(hits, g) ==
  LET S == {i \in hits \intersect armed : cool[i] = 0} IN
    /\ Len(fired) + Cardinality(S) <= MaxFirings
    /\ \E order \in SetToSeqs(S) :
         /\ fired' = fired \o [k \in 1..Len(order) |-> Hit(order[k], g)]
         /\ firings' = [k \in 1..Len(order) |->
              [n |-> Len(fired) + k, account |-> AccountOf[order[k]], items |-> <<>>]]
    /\ armed' = Removed(S)
    /\ cool' = [i \in AlertIds |-> IF i \in S THEN Cooldown ELSE cool[i]]

OnTrade(hits) ==
  /\ firings = <<>>
  /\ \E i \in hits : i \in armed /\ cool[i] = 0
  /\ Fire(hits, 0)
  /\ UNCHANGED <<stored, cached, sent, digest, workers, cmds, bus, resetting, calls, told, lost,
                 starts, restarts>>

\* The broker fills an order of a; the event passes the journal and the bus.
BrokerFill(a) ==
  /\ Len(bus) < 1
  /\ bus' = Append(bus, [account |-> a, generation |-> BrokerGeneration(a)])
  /\ UNCHANGED <<stored, cached, armed, cool, sent, digest, firings, workers, cmds, resetting,
                 calls, history>>

FillHits(f) == {i \in OnFills : AccountOf[i] = f.account}
OnFill ==
  /\ firings = <<>> /\ bus # <<>>
  /\ Fire(FillHits(Head(bus)), Head(bus).generation)
  /\ bus' = Tail(bus)
  /\ UNCHANGED <<stored, cached, sent, digest, workers, cmds, resetting, calls, told, lost,
                 starts, restarts>>

\* RecvError::Lagged: the oldest events are gone.
Lagged ==
  /\ bus # <<>>
  /\ bus' = Tail(bus)
  /\ UNCHANGED <<stored, cached, armed, cool, sent, digest, firings, workers, cmds, resetting,
                 calls, history>>

\* Limiter::admit
\* Mutant: what the limiter admitted never expires.
YoungAll(q) == q
\* The front of the queue is taken off as long as it is an hour old.
Young(q) ==
  LET old == CHOOSE m \in 0..Len(q) : /\ \A k \in 1..m : q[k] >= Hour
                                      /\ m < Len(q) => q[m + 1] < Hour
  IN  SubSeq(q, old + 1, Len(q))
Admits(q) == Len(Young(q)) < PerHour
Admitted(q) == Append(Young(q), 0)

\* The tick's digests: of the accounts with held-back firings that have room.
\* Mutant: digests are not limited.
DueAtOnce == {a \in Accounts : digest[a] # <<>>}
Due == {a \in Accounts : digest[a] # <<>> /\ Admits(sent[a])}
DigestOf(a) == [n |-> 0, account |-> a, items |-> digest[a]]
Flush ==
  /\ firings = <<>> /\ Due # {}
  /\ sent' = [a \in Accounts |-> IF a \in Due THEN Admitted(sent[a]) ELSE sent[a]]
  /\ digest' = [a \in Accounts |-> IF a \in Due THEN <<>> ELSE digest[a]]
  /\ \E order \in SetToSeqs(Due) : firings' = [k \in 1..Len(order) |-> DigestOf(order[k])]
  /\ UNCHANGED <<stored, cached, armed, cool, workers, cmds, bus, resetting, calls, history>>

Worker(f, pc) == [f |-> f, pc |-> pc, attempt |-> 1]
Spawn(f) ==
  /\ workers' = workers \union {Worker(f, IF IsDigest(f) THEN "wait" ELSE "mark")}
  /\ starts' = [starts EXCEPT ![f.account] = Append(@, 0)]

\* Mutant: what is over the limit is dropped.
HoldBackNothing(f) == f \in Firing /\ UNCHANGED digest
HoldBack(f) == digest' = [digest EXCEPT ![f.account] = Append(@, f.n)]

Dispatch ==
  /\ firings # <<>>
  /\ firings' = Tail(firings)
  /\ LET f == Head(firings) IN
       \/ /\ IsDigest(f)
          /\ Spawn(f)
          /\ UNCHANGED <<sent, digest>>
       \/ /\ ~ IsDigest(f) /\ Admits(sent[f.account])
          /\ sent' = [sent EXCEPT ![f.account] = Admitted(@)]
          /\ Spawn(f)
          /\ UNCHANGED digest
       \/ /\ ~ IsDigest(f) /\ ~ Admits(sent[f.account])
          /\ sent' = [sent EXCEPT ![f.account] = Young(@)]
          /\ HoldBack(f)
          /\ UNCHANGED <<workers, starts>>
  /\ UNCHANGED <<stored, cached, armed, cool, cmds, bus, resetting, calls, fired, told, lost, restarts>>

(***************************************************************************)
(* handle and deliver: one task per message, those of an account after one *)
(* another (the lock is held from "record" on).                            *)
(***************************************************************************)
Become(w, pc, attempt) ==
  workers' = (workers \ {w}) \union {[w EXCEPT !.pc = pc, !.attempt = attempt]}
Finish(w) == workers' = workers \ {w}
Tell(w) == told' = told \union NumbersOf(w.f)
Lose(w) == lost' = lost \union NumbersOf(w.f)
HoldsLock(w) == w.pc \in {"record", "send", "resend"}

\* Store::mark_fired; the row turns off if the alert is a one-shot.
Marked(row, i) ==
  [row EXCEPT !.cool = Cooldown, !.state = IF @ = "active" /\ i \in Once THEN "off" ELSE @]
MarkFired(w) ==
  /\ w.pc = "mark"
  /\ rows' = [rows EXCEPT ![AlertOf(w.f.n)] = Marked(@, AlertOf(w.f.n))]
  /\ Become(w, "wait", 1)
  /\ UNCHANGED <<generation, session, events, cached, armed, cool, sent, digest, firings, cmds,
                 bus, resetting, calls, history>>

\* Mutant: one attempt too many.
MarkFailsOnceMore(w) ==
  /\ w.pc = "mark" /\ "store" \in Failures
  /\ IF w.attempt <= MarkAttempts THEN Become(w, "mark", w.attempt + 1) ELSE Become(w, "wait", 1)
  /\ UNCHANGED <<stored, cached, armed, cool, sent, digest, firings, cmds, bus, resetting, calls,
                 history>>

MarkFails(w) ==
  /\ w.pc = "mark" /\ "store" \in Failures
  /\ IF w.attempt < MarkAttempts THEN Become(w, "mark", w.attempt + 1) ELSE Become(w, "wait", 1)
  /\ UNCHANGED <<stored, cached, armed, cool, sent, digest, firings, cmds, bus, resetting, calls,
                 history>>

\* Mutant: the lock is not awaited.
LockNothing(w) ==
  /\ w.pc = "wait"
  /\ Become(w, IF IsDigest(w.f) THEN "send" ELSE "record", 1)
  /\ UNCHANGED <<stored, cached, armed, cool, sent, digest, firings, cmds, bus, resetting, calls,
                 history>>

Lock(w) ==
  /\ w.pc = "wait"
  /\ ~ \E v \in workers : HoldsLock(v) /\ v.f.account = w.f.account
  /\ Become(w, IF IsDigest(w.f) THEN "send" ELSE "record", 1)
  /\ UNCHANGED <<stored, cached, armed, cool, sent, digest, firings, cmds, bus, resetting, calls,
                 history>>

\* deliver: an event is recorded before the message is sent.
Record(w) ==
  /\ w.pc = "record"
  /\ events' = [events EXCEPT ![w.f.n] = "undelivered"]
  /\ Become(w, "send", 1)
  /\ UNCHANGED <<generation, rows, session, cached, armed, cool, sent, digest, firings, cmds, bus,
                 resetting, calls, history>>

RecordFails(w) ==
  /\ w.pc = "record" /\ "store" \in Failures
  /\ Finish(w) /\ Lose(w)
  /\ UNCHANGED <<stored, cached, armed, cool, sent, digest, firings, cmds, bus, resetting, calls,
                 fired, told, starts, restarts>>

\* No conversation: the event stays undelivered; a digest has none.
NoSession(w) ==
  /\ w.pc = "send" /\ ~ session[w.f.account]
  /\ Finish(w)
  /\ IF IsDigest(w.f) THEN Lose(w) ELSE UNCHANGED lost
  /\ UNCHANGED <<stored, cached, armed, cool, sent, digest, firings, cmds, bus, resetting, calls,
                 fired, told, starts, restarts>>

Ready(w) == w.pc = "resend" \/ (w.pc = "send" /\ session[w.f.account])
Send(w) ==
  /\ Ready(w)
  /\ Finish(w) /\ Tell(w)
  /\ events' = IF IsDigest(w.f) THEN events ELSE [events EXCEPT ![w.f.n] = "delivered"]
  /\ UNCHANGED <<generation, rows, session, cached, armed, cool, sent, digest, firings, cmds, bus,
                 resetting, calls, fired, lost, starts, restarts>>

\* Mutant: a failed send is always tried again.
SendFailsForEver(w) ==
  /\ Ready(w) /\ "send" \in Failures
  /\ Become(w, IF w.pc = "send" THEN "resend" ELSE "send", 1)
  /\ UNCHANGED <<stored, cached, armed, cool, sent, digest, firings, cmds, bus, resetting, calls,
                 history>>

\* A failed send is tried again once; that of a digest is not.
SendFails(w) ==
  /\ Ready(w) /\ "send" \in Failures
  /\ \/ /\ ~ IsDigest(w.f) /\ w.pc = "send"
        /\ Become(w, "resend", 1) /\ UNCHANGED lost
     \/ /\ ~ IsDigest(w.f) /\ w.pc = "resend"
        /\ Finish(w) /\ UNCHANGED lost
     \/ /\ IsDigest(w.f)
        /\ Finish(w) /\ Lose(w)
  /\ UNCHANGED <<stored, cached, armed, cool, sent, digest, firings, cmds, bus, resetting, calls,
                 fired, told, starts, restarts>>

(***************************************************************************)
(* Time and restarts.                                                      *)
(***************************************************************************)
Older(q) == [k \in DOMAIN q |-> IF q[k] < Hour THEN q[k] + 1 ELSE Hour]
Sooner(c) == IF c > 0 THEN c - 1 ELSE 0
Ageing == (\E i \in AlertIds : cool[i] > 0 \/ rows[i].cool > 0)
          \/ (\E a \in Accounts : \E k \in DOMAIN sent[a] : sent[a][k] < Hour)
          \/ (\E a \in Accounts : \E k \in DOMAIN starts[a] : starts[a][k] < Hour)
\* What is admitted is handed to a worker in the same turn of the loop, which does not await in between.
Age ==
  /\ firings = <<>> /\ Ageing
  /\ cool' = [i \in AlertIds |-> Sooner(cool[i])]
  /\ rows' = [i \in AlertIds |-> [rows[i] EXCEPT !.cool = Sooner(@)]]
  /\ sent' = [a \in Accounts |-> Older(sent[a])]
  /\ starts' = [a \in Accounts |-> Young(Older(starts[a]))]
  /\ UNCHANGED <<generation, session, events, cached, armed, digest, firings, workers, cmds, bus,
                 resetting, calls, fired, told, lost, restarts>>

\* Mutant: alerts that are off are loaded too.
LoadedEver(i) == rows[i].state # "none" /\ rows[i].generation = generation[AccountOf[i]]
\* Store::all_active_alerts at the generations the broker was restored at.
Loaded(i) == rows[i].state = "active" /\ rows[i].generation = generation[AccountOf[i]]
Pending == UNION ({ToSet(digest[a]) : a \in Accounts} \union {NumbersOf(w.f) : w \in workers}
                  \union {NumbersOf(firings[k]) : k \in DOMAIN firings})
Restart ==
  /\ restarts < MaxRestarts
  /\ restarts' = restarts + 1
  /\ cached' = generation
  /\ resetting' = [a \in Accounts |-> "no"]
  /\ calls' = [i \in AlertIds |-> NoCall]
  /\ armed' = {i \in AlertIds : Loaded(i)}
  /\ cool' = [i \in AlertIds |-> rows[i].cool]
  /\ sent' = [a \in Accounts |-> <<>>] /\ starts' = sent'
  /\ digest' = [a \in Accounts |-> <<>>]
  /\ firings' = <<>> /\ cmds' = <<>> /\ bus' = <<>> /\ workers' = {}
  /\ lost' = lost \union {n \in Pending : events[n] = "none"}
  /\ UNCHANGED <<stored, fired, told>>

Init ==
  /\ generation = [a \in Accounts |-> 1] /\ cached = generation
  /\ resetting = [a \in Accounts |-> "no"]
  /\ rows = [i \in AlertIds |-> NoRow] /\ calls = [i \in AlertIds |-> NoCall]
  /\ session = [a \in Accounts |-> FALSE]
  /\ events = [n \in 1..MaxFirings |-> "none"]
  /\ cmds = <<>> /\ bus = <<>> /\ firings = <<>> /\ fired = <<>>
  /\ armed = {} /\ cool = [i \in AlertIds |-> 0]
  /\ sent = [a \in Accounts |-> <<>>] /\ starts = sent /\ digest = sent
  /\ workers = {} /\ told = {} /\ lost = {} /\ restarts = 0

Works(w) == MarkFired(w) \/ Record(w) \/ NoSession(w) \/ Send(w)
Fails(w) == MarkFails(w) \/ RecordFails(w) \/ SendFails(w)
Handle(w) == Works(w) \/ Fails(w)

\* What happens while stores and sends succeed.
Calm ==
  \/ \E i \in AlertIds : CheckLimit(i) \/ InsertAlert(i) \/ Upsert(i) \/ Deactivate(i)
  \/ \E a \in Accounts : ChooseSession(a) \/ ResetStore(a) \/ DropAccount(a) \/ ReloadAccounts(a)
                         \/ BrokerFill(a)
  \/ Command \/ OnFill \/ Lagged \/ Flush \/ Dispatch
  \/ \E i \in AlertIds \ OnFills : OnTrade({i})
  \/ \E w \in workers : Works(w) \/ Lock(w)
  \/ Age \/ Restart

Next == Calm \/ \E w \in workers : Fails(w)

Spec == Init /\ [][Next]_vars

(***************************************************************************)
(* The tasks of handle run, the lock is handed on in turn, alert_loop      *)
(* ticks and time passes.                                                  *)
(***************************************************************************)
AnyWorker == [f : Firing \union Digest, pc : Stages, attempt : 1..MarkAttempts]
Fairness ==
  /\ WF_vars(Dispatch) /\ WF_vars(Flush) /\ WF_vars(Age)
  /\ WF_vars(\E w \in workers : Handle(w))
  /\ \A n \in 0..MaxFirings, a \in Accounts :
       SF_vars(\E w \in workers : w.f.n = n /\ w.f.account = a /\ Lock(w))
FairSpec == Spec /\ Fairness

-----------------------------------------------------------------------------
TypeOK ==
  /\ generation \in [Accounts -> 1..MaxGeneration] /\ cached \in [Accounts -> 1..MaxGeneration]
  /\ resetting \in [Accounts -> {"no", "stored", "dropped"}]
  /\ rows \in [AlertIds -> [state : {"none", "active", "off"}, generation : 0..MaxGeneration,
                            cool : 0..Cooldown]]
  /\ calls \in [AlertIds -> [pc : {"none", "checked", "inserted"}, generation : 0..MaxGeneration]]
  /\ session \in [Accounts -> BOOLEAN]
  /\ events \in [1..MaxFirings -> {"none", "undelivered", "delivered"}]
  /\ armed \subseteq AlertIds /\ cool \in [AlertIds -> 0..Cooldown]
  /\ \A a \in Accounts : /\ \A k \in DOMAIN sent[a] : sent[a][k] \in 0..Hour
                         /\ ToSet(digest[a]) \subseteq 1..Len(fired)
  /\ workers \subseteq AnyWorker
  /\ told \subseteq 1..Len(fired) /\ lost \subseteq 1..Len(fired)

\* Every firing is on its way, was told, left an event, or is among those a
\* crash or a failure dropped: alert_loop, the digests, handle and deliver
\* lose none, and none is told while it is still held back for a digest.
FiringsAccounted ==
  /\ \A n \in 1..Len(fired) : n \in Pending \union told \union lost \/ events[n] # "none"
  /\ \A a \in Accounts : ToSet(digest[a]) \intersect (told \union lost) = {}

\* An account gets at most PerHour messages in any Hour, digests included,
\* however they are admitted (Limiter, Flush).
HourlyLimit == \A a \in Accounts : Cardinality({k \in DOMAIN starts[a] : starts[a][k] < Hour}) <= PerHour

\* A message is composed and sent while no other of its account is
\* ("serializes delivery so simultaneous firings share one session").
OneAtATime ==
  \A v, w \in workers : v # w /\ HoldsLock(v) /\ HoldsLock(w) => v.f.account # w.f.account

\* A one-shot whose firing was stored never fires again, also after restarts:
\* fire, mark_fired and all_active_alerts agree on what is over.  (One that is
\* being deleted may still fire until alert_loop learns of it.)
Over(i) == rows[i].state = "off" /\ ~ \E k \in DOMAIN cmds : cmds[k].cmd = "remove" /\ cmds[k].alert = i
FiresAgain(i) == \E n \in (Len(fired) + 1)..Len(fired') : fired'[n].alert = i
OnceIsOnce ==
  [][fired' # fired => \A i \in Once : FiresAgain(i) =>
        \A n \in 1..Len(fired) : fired[n].alert = i => ~ Over(i)]_vars

\* With nothing under way, the alerts the store lists as active are watched: none is
\* silently unwatched, but for a one-shot whose firing was held back for a digest.
\* (violated where resets of two accounts overlap: the one reloads the other's new
\* generation before the other's DropAccount, which then takes what was created since)
Quiet == /\ cmds = <<>> /\ firings = <<>> /\ workers = {}
         /\ \A i \in AlertIds : calls[i].pc = "none"
         /\ \A a \in Accounts : resetting[a] = "no"
ListedIsWatched ==
  Quiet => \A a \in Accounts : \A i \in CurrentAlerts(a) :
             \/ i \in armed
             \/ i \in Once /\ \E n \in 1..Len(fired) : AlertOf(n) = i /\ events[n] = "none"

\* Every message that is handed to a task is dealt with (5 attempts, the
\* lock, two sends): no task waits for ever.
InWorkers(n) == \E w \in workers : n \in NumbersOf(w.f)
MessagesSettle == \A n \in 1..MaxFirings : InWorkers(n) ~> ~ InWorkers(n)

\* What is held back goes out as a digest once alerts stop firing (they do
\* after MaxFirings): the limiter makes room and the tick uses it.
DigestsGoOut == \A a \in Accounts : digest[a] # <<>> ~> digest[a] = <<>>

-----------------------------------------------------------------------------
(* What the repository says. *)

MarkPending(i) == \/ \E k \in DOMAIN firings : ~ IsDigest(firings[k]) /\ AlertOf(firings[k].n) = i
                  \/ \E w \in workers : w.pc = "mark" /\ AlertOf(w.f.n) = i
\* (violated) "One-shot alerts turn off when they fire" (src/alerts/mod.rs:109): with no
\* failure and nothing of its last firing left to store, the row is off.
OneShotsTurnOff ==
  \A i \in Once : (\E n \in 1..Len(fired) : AlertOf(n) = i) /\ ~ MarkPending(i) => rows[i].state = "off"

\* (violated) "failed pushes are logged in alert_events and retried once" (design, line
\* 274): a firing that no task handles any more was told or left an event.
FailuresLogged ==
  \A n \in 1..Len(fired) \ Pending : n \in told \/ events[n] # "none"

\* (violated) "At most 50 active alerts per account" (src/tools/mod.rs:118).
AtMostMaxActive == \A a \in Accounts : Cardinality(CurrentAlerts(a)) <= MaxActive

\* (violated) "The account was reset: its alerts belong to the closed generation"
\* (src/alerts/deliver.rs:66): with nothing under way no alert of a closed
\* generation is watched.
WatchedIsCurrent == Quiet => \A i \in armed : rows[i].generation = generation[AccountOf[i]]

\* (violated) "Old rows are kept and filtered by generation" (design, line 220): a fill
\* wakes alerts of its own generation only.
FillsWakeTheirOwn ==
  [][\A n \in (Len(fired) + 1)..Len(fired') :
        fired'[n].generation > 0 => rows[fired'[n].alert].generation = fired'[n].generation]_vars
=============================================================================
