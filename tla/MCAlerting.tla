---------------------------- MODULE MCAlerting ----------------------------
(***************************************************************************)
(* What wakes an agent, side by side: alerts and their delivery (with a    *)
(* process that crashes and sends that fail, and with resets instead), the *)
(* conditions they watch (on prints, and on sessions and fills) and the    *)
(* briefings.  part says whose steps a behaviour consists of, the others   *)
(* stay as they are at the start.                                          *)
(***************************************************************************)
EXTENDS Integers, Sequences, FiniteSets

CONSTANTS
  Accounts, AlertIds, AccountOf, Once, OnFills, MaxActive, Cooldown, Hour, PerHour, MarkAttempts,
  MaxFirings, MaxGeneration, MaxRestarts, Failures, \* Alerts
  DeliveryAlerts, ResetAlerts, ResetRestarts,       \* which of them a part has, and how many restarts
  Kinds, Threshold, Window, Prices, Qtys, Adv, Day, MaxWindow, Rest, MaxLate, MaxPrints, \* Watcher
  PrintKinds, TickKinds, TickPrints,                \* its conditions in a part, and bound: its prints
  Venues, Every, MaxAge                             \* Briefings

VARIABLES
  part,
  generation, cached, resetting, rows, calls, session, events, cmds, bus, armed, cool, sent,
  digest, firings, workers, fired, told, lost, starts, restarts,
  watchAlerts, watchCool, watchHistory, watchOpen, watchSession, watchRows, watchFired, watchPrint,
  watchKept, watchNews,
  briefSession, cadence, chosen, briefOpen, last, queue, was, opened, waiting

alertVars == <<generation, cached, resetting, rows, calls, session, events, cmds, bus, armed, cool,
  sent, digest, firings, workers, fired, told, lost, starts, restarts>>
watchVars == <<watchAlerts, watchCool, watchHistory, watchOpen, watchSession, watchRows,
  watchFired, watchPrint, watchKept, watchNews>>
briefVars == <<briefSession, cadence, chosen, briefOpen, last, queue, was, opened, waiting>>

Deliveries == INSTANCE Alerts
OneAccount == [i \in AlertIds |-> "a1"]

\* A rise of 20% within 2 minutes and three times the pace of 2 minutes.
Thresholds == [k \in Kinds |-> IF k = "move" THEN 20 ELSE IF k = "volume_surge" THEN 3 ELSE 11]
Windows == [k \in Kinds |-> 2]

Conditions == INSTANCE Watcher WITH
  Cooldown <- Rest, alerts <- watchAlerts, cool <- watchCool, history <- watchHistory,
  open <- watchOpen, session <- watchSession, rows <- watchRows, fired <- watchFired,
  print <- watchPrint, kept <- watchKept, news <- watchNews

Messages == INSTANCE Briefings WITH session <- briefSession, open <- briefOpen

ASSUME DeliveriesAssumed == Deliveries!AlertsAssumption
ASSUME MessagesAssumed == Messages!BriefingsAssumption
ASSUME ConditionsAssumed == Conditions!WatcherAssumption

vars == <<part, alertVars, watchVars, briefVars>>

Init ==
  /\ part \in {"deliveries", "resets", "prints", "ticks", "briefings"}
  /\ Deliveries!Init /\ Conditions!Init /\ Messages!Init
  /\ part \notin {"prints", "ticks"} => watchSession = "no"
  /\ part # "briefings" => briefSession = {}

\* The alerts of a part are created, the others never.
Only(alerts) == \A i \in AlertIds \ alerts : calls'[i].pc = "none"
\* Crashes, and stores and sends that fail.
DeliverySteps ==
  /\ part = "deliveries" /\ Deliveries!Next
  /\ Only(DeliveryAlerts) /\ generation' = generation
  /\ UNCHANGED <<part, watchVars, briefVars>>
\* Resets, those of two accounts one after the other; nobody chooses a conversation.
ResetSteps ==
  /\ part = "resets" /\ Deliveries!Calm
  /\ Only(ResetAlerts) /\ restarts' <= ResetRestarts
  /\ session' = session
  /\ \A a, b \in Accounts : resetting'[a] # "no" /\ resetting'[b] # "no" => a = b
  /\ UNCHANGED <<part, watchVars, briefVars>>
\* The conditions of a part are set, the others never.
Sets(kinds) == \A r \in watchRows' : r.kind \in kinds
PrintSteps ==
  /\ part = "prints" /\ Conditions!Next /\ Sets(PrintKinds)
  /\ UNCHANGED <<part, alertVars, briefVars>>
TickSteps ==
  /\ part = "ticks" /\ Conditions!Next /\ Sets(TickKinds) /\ Len(watchKept') <= TickPrints
  /\ UNCHANGED <<part, alertVars, briefVars>>
BriefingSteps ==
  part = "briefings" /\ Messages!Next /\ UNCHANGED <<part, alertVars, watchVars>>

Next == DeliverySteps \/ ResetSteps \/ PrintSteps \/ TickSteps \/ BriefingSteps

Spec == Init /\ [][Next]_vars

(***************************************************************************)
(* Properties, each of one component.                                      *)
(***************************************************************************)
TypesOK ==
  /\ part = "resets" => Deliveries!TypeOK
  /\ part \in {"prints", "ticks"} => Conditions!TypeOK
  /\ part = "briefings" => Messages!TypeOK

\* alert_loop, Limiter and handle: no firing is lost without a failure or a crash, an
\* account gets no more than the hourly limit, and its messages go out one at a time.
FiringsKept ==
  part \in {"deliveries", "resets"} =>
    Deliveries!TypeOK /\ Deliveries!FiringsAccounted /\ Deliveries!HourlyLimit /\ Deliveries!OneAtATime

\* A one-shot whose firing was stored never fires again, also after restarts.
OnceIsOnce == Deliveries!OnceIsOnce

\* create_alert, App::reset_account and alert_loop: what is listed as active is watched
\* once all is quiet, whatever resets came between the steps; what a restarted watcher
\* has armed is what is stored; and dropping old prints changes no firing.
WatchesTheSame ==
  /\ TypesOK
  /\ part = "resets" => Deliveries!ListedIsWatched
  /\ part \in {"prints", "ticks"} => Conditions!StoredIsArmed /\ Conditions!PruningUnseen

\* on_tick and the briefings' Schedule: openings are announced once and only as news,
\* hourly briefings neither too early nor too late, through restarts and settings.
OnTime == Conditions!EdgesAreNews /\ Messages!OpensOnce /\ Messages!Spaced /\ Messages!NeverOverdue
=============================================================================
