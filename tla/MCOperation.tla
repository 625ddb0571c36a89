---------------------------- MODULE MCOperation ----------------------------
(***************************************************************************)
(* What the operator and the users of the dashboard rely on, side by side: *)
(* the limiter of failed logins, sessions and the second factor, saved     *)
(* settings, accounts with their snapshots and what is reported of them,   *)
(* and the trading calendar.  part says whose steps a behaviour consists   *)
(* of, the others stay as they are at the start.                           *)
(***************************************************************************)
EXTENDS Integers, Sequences, FiniteSets

CONSTANTS
  Names, Operator, Savers, MaxFaults,                         \* Settings
  Callers, Ids, TicksPerDay, MayFail, MaxTick, MaxGeneration, \* Accounts
  Venues, Orders, Days, Slots, Weekend, Holidays, Ahead, OpensAt, ClosesAt, Horizon  \* Sessions

VARIABLES
  part,
  failures, sweepAt, requests, counted,
  now, user, sessions, codes, tasks, cli, made, accepted, used, proven,
  idleNow, idleUser, idleSessions, idleCodes, idleTasks, idleCli, idleMade, idleAccepted, idleUsed,
  idleProven,
  content, file, tmp, pc, body, todo, name, fd, sent, permit, up, loaded, faults,
  tick, store, born, broker, accounts, calls, loop, lastDay, snapshots, created,
  slot, running, orders, ticked,
  hour, generation, pf, price, fills, closes, report, seen

loginVars == <<failures, sweepAt, requests, counted>>
userVars == <<now, user, sessions, codes, tasks, cli, made, accepted, used, proven>>
idleVars == <<idleNow, idleUser, idleSessions, idleCodes, idleTasks, idleCli, idleMade,
  idleAccepted, idleUsed, idleProven>>
settingVars == <<content, file, tmp, pc, body, todo, name, fd, sent, permit, up, loaded, faults>>
accountVars == <<tick, store, born, broker, accounts, calls, loop, lastDay, snapshots, created>>
calendarVars == <<slot, running, orders, ticked>>
reportVars == <<hour, generation, pf, price, fills, closes, report, seen>>

Logins == INSTANCE LoginLimiter WITH
  Tasks <- {"t1", "t2"}, Users <- {"u1"}, Client <- "ip",
  Window <- 5, Free <- 1, MaxLock <- 4, SweepAt <- 1, MaxSpan <- 1

\* Two tabs that log in and enrol at the same time.
Enrolment == INSTANCE WebSessions WITH
  Tasks <- {"a", "b"}, Idle <- 1, Absolute <- 1, Codes <- 1,
  MaxNow <- 1, MaxSessions <- 2, MaxSecrets <- 2, MaxResets <- 0

\* Two tabs with one session, long enough for both of its limits, and reset-2fa.
Expiry == INSTANCE WebSessions WITH
  Tasks <- {"a", "b"}, Idle <- 1, Absolute <- 2, Codes <- 1,
  MaxNow <- 5, MaxSessions <- 1, MaxSecrets <- 0, MaxResets <- 1,
  now <- idleNow, user <- idleUser, sessions <- idleSessions, codes <- idleCodes,
  tasks <- idleTasks, cli <- idleCli, made <- idleMade, accepted <- idleAccepted,
  used <- idleUsed, proven <- idleProven

\* No two requests save the same setting at once.
Saved == INSTANCE Settings WITH Overlap <- FALSE

Books == INSTANCE Accounts WITH now <- tick, tasks <- calls, Tasks <- Callers, MaxNow <- MaxTick

\* The process runs all the time.
Calendar == INSTANCE Sessions WITH now <- slot, up <- running, MayStop <- FALSE

\* Three fills of two sizes over a day with three snapshots.
Profits == INSTANCE Reports WITH now <- hour, snapshots <- closes,
  Ids <- {"a"}, Prices <- {1, 2}, Sizes <- {1, 2}, Fee <- 1, Grain <- 1, Deposit <- 8, TicksPerDay <- 3,
  MaxNow <- 3, MaxFills <- 3, MaxGeneration <- 1, MaxReports <- 0

\* A report over two days, with fills, books and a reset at any moment of it.
Told == INSTANCE Reports WITH now <- hour, snapshots <- closes,
  Ids <- {"a"}, Prices <- {1, 2}, Sizes <- {1}, Fee <- 1, Grain <- 1, Deposit <- 4, TicksPerDay <- 1,
  MaxNow <- 2, MaxFills <- 2, MaxGeneration <- 2, MaxReports <- 1

\* KRX is closed on Friday, so that its weekend is longer than next_open looks ahead; the
\* US venue is behind UTC and its session is in the next day of UTC.
WeekHolidays == [krx |-> {4, 0}, us |-> {2}]
WeekAhead == [krx |-> 1, us |-> -2]
WeekOpens == [krx |-> 1, us |-> 2]
WeekCloses == [krx |-> 3, us |-> 4]

ASSUME Logins!LoginLimiterAssumption /\ Enrolment!WebSessionsAssumption /\ Expiry!WebSessionsAssumption
ASSUME SavedAssumed == Saved!SettingsAssumption
ASSUME BooksAssumed == Books!AccountsAssumption
ASSUME CalendarAssumed == Calendar!SessionsAssumption
ASSUME Profits!ReportsAssumption /\ Told!ReportsAssumption

vars == <<part, loginVars, userVars, idleVars, settingVars, accountVars, calendarVars, reportVars>>

Init ==
  /\ part \in {"logins", "enrolment", "expiry", "settings", "accounts", "calendar", "profits", "reports"}
  /\ Logins!Init /\ Enrolment!Init /\ Expiry!Init /\ Saved!Init /\ Books!Init /\ Calendar!Init
  /\ IF part = "profits" THEN Profits!Init ELSE Told!Init

LoginSteps ==
  /\ part = "logins" /\ Logins!Next
  /\ UNCHANGED <<part, userVars, idleVars, settingVars, accountVars, calendarVars, reportVars>>
EnrolmentSteps ==
  /\ part = "enrolment" /\ Enrolment!Next
  /\ UNCHANGED <<part, loginVars, idleVars, settingVars, accountVars, calendarVars, reportVars>>
ExpirySteps ==
  /\ part = "expiry" /\ Expiry!Next
  /\ UNCHANGED <<part, loginVars, userVars, settingVars, accountVars, calendarVars, reportVars>>
SettingSteps ==
  /\ part = "settings" /\ Saved!Next
  /\ UNCHANGED <<part, loginVars, userVars, idleVars, accountVars, calendarVars, reportVars>>
AccountSteps ==
  /\ part = "accounts" /\ Books!Next
  /\ UNCHANGED <<part, loginVars, userVars, idleVars, settingVars, calendarVars, reportVars>>
CalendarSteps ==
  /\ part = "calendar" /\ Calendar!Next
  /\ UNCHANGED <<part, loginVars, userVars, idleVars, settingVars, accountVars, reportVars>>
ProfitSteps ==
  /\ part = "profits" /\ Profits!Next
  /\ UNCHANGED <<part, loginVars, userVars, idleVars, settingVars, accountVars, calendarVars>>
ReportSteps ==
  /\ part = "reports" /\ Told!Next
  /\ UNCHANGED <<part, loginVars, userVars, idleVars, settingVars, accountVars, calendarVars>>
Next ==
  \/ LoginSteps \/ EnrolmentSteps \/ ExpirySteps \/ SettingSteps \/ AccountSteps \/ CalendarSteps
  \/ ProfitSteps \/ ReportSteps

Spec == Init /\ [][Next]_vars

(***************************************************************************)
(* Properties, each of one part or two.                                    *)
(***************************************************************************)
\* AuthStore and the handlers: statements of racing requests never leave a full session
\* without a code, a code that lets two requests in, an unproven secret or a session
\* served past its limits.
AccessKept ==
  /\ part = "enrolment" => /\ Enrolment!TypeOK /\ Enrolment!FullNeedsCode /\ Enrolment!CodesOnce
                           /\ Enrolment!RecoveryOnce /\ Enrolment!EnabledIsProven
  /\ part = "expiry" => Expiry!TypeOK /\ Expiry!ServedIsLive

\* A session that ended is not brought back by a request that read it before, and a
\* snapshot that was recorded is not rewritten by another loop over the same minute.
NothingUndone == Enrolment!NeverRevived /\ Expiry!NeverRevived /\ Books!RecordedForGood

\* save_in and save_keys: a setting's file is the whole of one accepted value, wherever
\* the process ends.
SavedWhole == part = "settings" => Saved!TypeOK /\ Saved!Whole

\* App: the broker and the account cache are never ahead of the store.
CachesBehind == part = "accounts" => Books!TypeOK /\ Books!CachesBehind

\* venue.rs and expire_day_orders: next_open is the next opening, and no DAY order is
\* filled in a later session.
CalendarKept == part = "calendar" => Calendar!TypeOK /\ Calendar!NextOpenIsNext /\ Calendar!DayOnly

\* Limiter: no failure is forgotten, and racing requests add one each to a burst at most.
\* apply_fill, pnl, performance and valuation: profits, days and drawdown add up to what
\* the account is worth, at one moment of the request.
CountsAddUp ==
  /\ part = "logins" => Logins!TypeOK /\ Logins!RateBounded /\ Logins!NothingForgotten
  /\ part = "profits" => Profits!TypeOK /\ Profits!ProfitsAddUp /\ Profits!DrawdownIsLargest
  /\ part = "reports" => Told!TypeOK /\ Told!DaysAddUp /\ Told!WorthOfOneMoment
=============================================================================
