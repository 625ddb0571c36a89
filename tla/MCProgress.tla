----------------------------- MODULE MCProgress -----------------------------
(***************************************************************************)
(* What must come to an end, side by side: calls to KIS, deliveries of     *)
(* alerts, a stream that dies silently, the process's link and restarts,   *)
(* settings that are to be loaded and DAY orders of a process that stops.  *)
(* part says whose steps a behaviour consists of, the others stay as they  *)
(* are at the start.                                                       *)
(*                                                                         *)
(* The number of calls and of stops is bounded here, so that weak fairness *)
(* is enough: a lock is free for good once those before have had it.       *)
(***************************************************************************)
EXTENDS Integers, Sequences, FiniteSets

CONSTANTS
  MaxStarts,   \* bound: calls to KIS
  MaxStops     \* bound: stops of the process with DAY orders

ASSUME {MaxStarts, MaxStops} \subseteq Nat

VARIABLES
  part, count,
  key, slot, kisFile, issued, saved, tokens, holder, sinceLast, sinceSend, kisCalls, revoked, kisRestarts,
  generation, cached, resetting, rows, calls, session, events, cmds, bus, armed, cool, alertSent,
  digest, firings, workers, fired, told, alertLost, starts, restarts,
  printed, shown, link, wire, pings, sending, channel, book, trades, lost, odd,
  proc, exit, token, stored, zyris, connected, procPermit, view, tab, task, code,
  valid, saves, procFaults,
  content, file, tmp, pc, body, todo, name, fd, sent, permit, up, loaded, faults,
  now, running, orders, ticked

kisVars == <<key, slot, kisFile, issued, saved, tokens, holder, sinceLast, sinceSend, kisCalls, revoked,
  kisRestarts>>
alertVars == <<generation, cached, resetting, rows, calls, session, events, cmds, bus, armed, cool,
  alertSent, digest, firings, workers, fired, told, alertLost, starts, restarts>>
streamVars == <<printed, shown, link, wire, pings, sending, channel, book, trades, lost, odd>>
processVars == <<proc, exit, token, stored, zyris, connected, procPermit, view, tab,
  task, code, valid, saves, procFaults>>
settingVars == <<content, file, tmp, pc, body, todo, name, fd, sent, permit, up, loaded, faults>>
calendarVars == <<now, running, orders, ticked>>

Calls == {"c1", "c2"}
Kis == INSTANCE KisClient WITH file <- kisFile, calls <- kisCalls, restarts <- kisRestarts,
  Keys <- {"k1"}, MinInterval <- 1, Life <- 2, Margin <- 1,
  MaxTokens <- 2, MaxRevoked <- 1, MaxRestarts <- 1

Deliveries == INSTANCE Alerts WITH sent <- alertSent, lost <- alertLost,
  Accounts <- {"a1"}, AlertIds <- {"p1"}, AccountOf <- [i \in {"p1"} |-> "a1"],
  Once <- {}, OnFills <- {}, MaxActive <- 2, Cooldown <- 1, Hour <- 1, PerHour <- 1,
  MarkAttempts <- 1, MaxFirings <- 2, MaxGeneration <- 1, MaxRestarts <- 0, Failures <- {"send"}

Stream == INSTANCE VenueStream WITH
  Venue <- "binance", Capacity <- 1, MaxPrints <- 2, MaxVersion <- 2, MaxOddities <- 2, MaxWire <- 2

Process == INSTANCE Lifecycle WITH link <- zyris, permit <- procPermit, faults <- procFaults,
  Tabs <- {"t1"}, MaxCodes <- 2, MaxSaves <- 1, MaxFaults <- 1

Saved == INSTANCE Settings WITH
  Names <- {"key", "agent"}, Operator <- {"agent"}, Savers <- {"s1", "s2"},
  Overlap <- FALSE, MaxFaults <- 0

Calendar == INSTANCE Sessions WITH up <- running,
  Venues <- {"krx", "us"}, Orders <- {"o1"}, Days <- 7, Slots <- 4, Weekend <- {5, 6},
  Holidays <- [krx |-> {4, 0}, us |-> {2}], Ahead <- [krx |-> 1, us |-> -2],
  OpensAt <- [krx |-> 1, us |-> 2], ClosesAt <- [krx |-> 3, us |-> 4], Horizon <- 4, MayStop <- TRUE

ASSUME Kis!KisClientAssumption /\ Deliveries!AlertsAssumption /\ Stream!VenueStreamAssumption
ASSUME Process!LifecycleAssumption /\ Saved!SettingsAssumption /\ Calendar!SessionsAssumption

vars == <<part, count, kisVars, alertVars, streamVars, processVars, settingVars, calendarVars>>

Init ==
  /\ part \in {"kis", "alerts", "stream", "process", "settings", "calendar"} /\ count = 0
  /\ Kis!Init /\ Deliveries!Init /\ Stream!Init /\ Process!Init /\ Saved!Init /\ Calendar!Init

-----------------------------------------------------------------------------
OfKis(A) ==
  part = "kis" /\ A
    /\ UNCHANGED <<part, alertVars, streamVars, processVars, settingVars, calendarVars>>
OfAlerts(A) ==
  part = "alerts" /\ A
    /\ UNCHANGED <<part, count, kisVars, streamVars, processVars, settingVars, calendarVars>>
OfStream(A) ==
  part = "stream" /\ A
    /\ UNCHANGED <<part, count, kisVars, alertVars, processVars, settingVars, calendarVars>>
OfProcess(A) ==
  part = "process" /\ A
    /\ UNCHANGED <<part, count, kisVars, alertVars, streamVars, settingVars, calendarVars>>
OfSettings(A) ==
  part = "settings" /\ A
    /\ UNCHANGED <<part, count, kisVars, alertVars, streamVars, processVars, calendarVars>>
OfCalendar(A) ==
  part = "calendar" /\ A
    /\ UNCHANGED <<part, kisVars, alertVars, streamVars, processVars, settingVars>>

KisStarts == \E c \in Calls : count < MaxStarts /\ OfKis(Kis!Start(c) /\ count' = count + 1)
KisSteps ==
  OfKis(/\ \/ \E c \in Calls : Kis!Step(c)
           \/ Kis!Tick \/ Kis!Restart("k1")
           \/ \E t \in 1 .. 2 : Kis!Expire(t) \/ Kis!Revoke(t)
        /\ UNCHANGED count)
AlertSteps == OfAlerts(Deliveries!Next)
StreamSteps == OfStream(Stream!Streaming)
ProcessSteps == OfProcess(Process!Next)
SettingSteps == OfSettings(Saved!Next)
Stops == count < MaxStops /\ OfCalendar(Calendar!Stop /\ count' = count + 1)
CalendarSteps ==
  OfCalendar(/\ \/ \E v \in {"krx", "us"} : Calendar!Place("o1", v)
                \/ \E status \in {"filled", "cancelled"} : Calendar!Ends("o1", status)
                \/ Calendar!expire_day_orders \/ Calendar!Start \/ Calendar!Passes
             /\ UNCHANGED count)

Next ==
  \/ KisStarts \/ KisSteps \/ AlertSteps \/ StreamSteps \/ ProcessSteps \/ SettingSteps
  \/ Stops \/ CalendarSteps

(***************************************************************************)
(* The fairness of each component, weak where it is strong there.          *)
(***************************************************************************)
\* A step of the component whose part it is; Next leaves the others alone.
Run(p, A) == part = p /\ A

\* KIS need not answer.
KisFairness ==
  /\ WF_kisVars(Run("kis", Kis!Tick))
  /\ \A c \in Calls :
       /\ WF_kisVars(Run("kis", Kis!Pace(c)))
       /\ WF_kisVars(Run("kis", Kis!FromMemory(c) \/ Kis!FromFile(c) \/ Kis!Ask(c) \/ Kis!Drop(c)))
       /\ WF_kisVars(Run("kis", Kis!Send(c) \/ Kis!RemoveFile(c)))

AlertFairness ==
  /\ WF_alertVars(Run("alerts", Deliveries!Dispatch))
  /\ WF_alertVars(Run("alerts", Deliveries!Flush))
  /\ WF_alertVars(Run("alerts", Deliveries!Age))
  /\ WF_alertVars(Run("alerts", \E w \in workers : Deliveries!Handle(w)))
  /\ WF_alertVars(Run("alerts", \E w \in workers : Deliveries!Lock(w)))

StreamFairness ==
  /\ WF_streamVars(Run("stream", Stream!Connect))
  /\ WF_streamVars(Run("stream", Stream!Read))
  /\ WF_streamVars(Run("stream", Stream!Pong))
  /\ WF_streamVars(Run("stream", Stream!Send))
  /\ WF_streamVars(Run("stream", Stream!Pump))
  /\ WF_streamVars(Run("stream", Stream!TimesOut /\ link = "dead"))

\* The supervisor starts a process again that did not end on a signal; a drain ends after
\* 120 s at the latest.
ProcessFairness ==
  /\ WF_processVars(Run("process", Process!Start /\ exit # "signal"))
  /\ WF_processVars(Run("process", Process!Connects))
  /\ WF_processVars(Run("process", Process!Refused))
  /\ WF_processVars(Run("process", Process!LinkClosed))
  /\ WF_processVars(Run("process", Process!StopsToRestart))
  /\ WF_processVars(Run("process", Process!Finish))
  /\ WF_processVars(Run("process", Process!Closes))
  /\ \A c \in 1 .. 2 :
       WF_processVars(Run("process",
         Process!Answered(c) \/ Process!GivesUp(c) \/ Process!Stores(c) \/ Process!Notify(c)))

SettingFairness ==
  /\ WF_settingVars(Run("settings", Saved!Restarts))
  /\ WF_settingVars(Run("settings", Saved!Starts))
  /\ \A s \in {"s1", "s2"} :
       WF_settingVars(Run("settings",
         \/ \E n \in {"key", "agent"} : Saved!Removes(s, n) \/ Saved!Opens(s, n)
         \/ Saved!Writes(s) \/ Saved!Renames(s) \/ Saved!Fails(s) \/ Saved!Notifies(s)))

CalendarFairness ==
  /\ WF_calendarVars(Run("calendar", Calendar!Passes))
  /\ WF_calendarVars(Run("calendar", Calendar!Start))
  /\ WF_calendarVars(Run("calendar", Calendar!expire_day_orders))

Spec ==
  /\ Init /\ [][Next]_vars
  /\ KisFairness /\ AlertFairness /\ StreamFairness /\ ProcessFairness /\ SettingFairness
  /\ CalendarFairness

(***************************************************************************)
(* Properties.                                                             *)
(***************************************************************************)

\* KisClient::get, handle and the digests: every call whose request is answered comes to an
\* end whoever holds the locks it needs, as long as requests for tokens are answered; every
\* message is dealt with and what was held back goes out.
CallsEnd == Kis!GetsEnd /\ Deliveries!MessagesSettle /\ Deliveries!DigestsGoOut

\* A stream that died silently is noticed and the broker's book is the venue's again; a
\* granted credential is stored and used and a closed link shown; saved settings are
\* loaded; and DAY orders end although the process was down at the close.
OutagesEnd ==
  /\ Stream!DeadIsNoticed
  /\ part = "stream" => Stream!BookCatchesUp
  /\ [](part = "process" => Process!TypeOK)
  /\ Process!Relinks /\ Process!GrantStored /\ Process!ClosedIsShown
  /\ part = "settings" => Saved!SavedIsLoaded
  /\ Calendar!DayOrdersEnd
=============================================================================
