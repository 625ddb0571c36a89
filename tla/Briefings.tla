------------------------------ MODULE Briefings ------------------------------
(***************************************************************************)
(* The scheduled market briefings (alerts/briefing.rs): a loop reads the   *)
(* accounts' cadences from the store, asks the schedule what is due and    *)
(* sends one account after the other.  The schedule is in memory, so a     *)
(* restart begins with an empty one, and a tick whose settings cannot be   *)
(* read is skipped.                                                        *)
(*                                                                         *)
(* Time is counted in units of which the hourly cadences are a few; a tick *)
(* (30 seconds) may come at any moment of a unit.  The text is left out.   *)
(*                                                                         *)
(* A definition whose comment begins with Mutant is used by nothing: it is *)
(* the definition after it with a mistake the properties must notice.      *)
(***************************************************************************)
EXTENDS Integers, Sequences, FiniteSets

CONSTANTS
  Accounts,
  Venues,    \* those with sessions
  Every,     \* the hourly cadences, in units
  MaxAge     \* bound: ages are counted to here

BriefingsAssumption ==
  /\ Every \subseteq 1 .. MaxAge - 1 /\ MaxAge \in Nat

VARIABLES
  session,   \* which venues are open
  cadence,   \* the stored cadence of each account: Off, EdgesOnly or a number
  chosen,    \* accounts with an alert conversation
  open,      \* Schedule.open: yes, no or unknown, of each venue
  last,      \* Schedule.last: the age of the entry, None without one
  queue,     \* briefings of the tick still to be sent
  was,       \* history: time since an opening or an update was due, across restarts
  opened,    \* history: whether the venue's opening was sent in this session
  waiting    \* history: time since the first look at an open venue under the present
             \* cadence, or since something was due

vars == <<session, cadence, chosen, open, last, queue, was, opened, waiting>>

None == -1
Off == -2         \* no briefings
EdgesOnly == -1   \* opens and closes only
Keys == Accounts \X Venues
Moment(k, what) == [account |-> k[1], venue |-> k[2], what |-> what]
Hours(k) == cadence[k[1]] \in Every

\* Mutant: the first look counts as an opening.
OpensFirst(v) == open[v] # "yes" /\ v \in session

Opens(v) == open[v] = "no" /\ v \in session
Closes(v) == open[v] = "yes" /\ v \notin session

\* Mutant: what a look sees is not kept.
SeenNot(v) == open[v]

Seen(v) == IF v \in session THEN "yes" ELSE "no"

\* Mutant: the entry of an hourly account is renewed by every look.
EntryNew(k) == 0

Entry(k) == IF last[k] = None THEN 0 ELSE last[k]

\* Mutant: a briefing during the session does not renew the entry.
DuringKeeps(k) == Entry(k)

AfterDuring(k) == 0

\* What is due for an account at a venue.
Due(k) ==
  IF cadence[k[1]] = Off THEN "nothing"
  ELSE IF Opens(k[2]) THEN "opened"
  ELSE IF Closes(k[2]) THEN "closed"
  ELSE IF k[2] \in session /\ Hours(k) /\ Entry(k) >= cadence[k[1]] THEN "during"
  ELSE "nothing"

\* The entry after the tick; accounts that are off keep theirs.
Entered(k) ==
  CASE Due(k) = "opened" -> 0
    [] Due(k) = "closed" -> None
    [] Due(k) = "during" -> AfterDuring(k)
    [] OTHER -> IF k[2] \in session /\ Hours(k) THEN Entry(k) ELSE last[k]

\* The loop takes the next tick when the briefings of the last one are out.
Tick ==
  /\ queue = {}
  /\ open' = [v \in Venues |-> Seen(v)]
  /\ last' = [k \in Keys |-> Entered(k)]
  /\ queue' = {Moment(k, Due(k)) : k \in {x \in Keys : Due(x) # "nothing" /\ x[1] \in chosen}}
  /\ waiting' = [k \in Keys |-> IF waiting[k] = None \/ Due(k) # "nothing" THEN 0 ELSE waiting[k]]
  /\ was' = [k \in Keys |-> IF Due(k) \in {"opened", "during"} THEN 0 ELSE was[k]]
  /\ UNCHANGED <<session, cadence, chosen, opened>>

\* A failed send is logged and not retried.
Send(m) ==
  /\ m \in queue
  /\ queue' = queue \ {m}
  /\ \/ opened' = [opened EXCEPT ![<<m.account, m.venue>>] = @ \/ m.what = "opened"]
     \/ UNCHANGED opened
  /\ UNCHANGED <<session, cadence, chosen, open, last, was, waiting>>

(***************************************************************************)
(* Around the loop.                                                        *)
(***************************************************************************)
Aged(n) == IF n = None THEN None ELSE IF n < MaxAge THEN n + 1 ELSE MaxAge

Passes ==
  /\ last' = [k \in Keys |-> Aged(last[k])]
  /\ was' = [k \in Keys |-> Aged(was[k])]
  /\ waiting' = [k \in Keys |-> Aged(waiting[k])]
  /\ UNCHANGED <<session, cadence, chosen, open, queue, opened>>

Bell(v) ==
  /\ session' = IF v \in session THEN session \ {v} ELSE session \cup {v}
  /\ opened' = [k \in Keys |-> IF k[2] = v THEN FALSE ELSE opened[k]]
  /\ waiting' = [k \in Keys |-> IF k[2] = v THEN None ELSE waiting[k]]
  /\ UNCHANGED <<cadence, chosen, open, last, queue, was>>

\* The dashboard stores another cadence or conversation.
Configure(a, c) ==
  /\ cadence' = [cadence EXCEPT ![a] = c]
  /\ waiting' = [k \in Keys |-> IF k[1] = a THEN None ELSE waiting[k]]
  /\ UNCHANGED <<session, chosen, open, last, queue, was, opened>>

Choose(a) ==
  /\ chosen' = IF a \in chosen THEN chosen \ {a} ELSE chosen \cup {a}
  /\ UNCHANGED <<session, cadence, open, last, queue, was, opened, waiting>>

Restart ==
  /\ open' = [v \in Venues |-> "unknown"]
  /\ last' = [k \in Keys |-> None]
  /\ queue' = {}
  /\ waiting' = [k \in Keys |-> None]
  /\ UNCHANGED <<session, cadence, chosen, was, opened>>

Init ==
  /\ session \in SUBSET Venues
  /\ cadence = [a \in Accounts |-> Off] /\ chosen = {}
  /\ open = [v \in Venues |-> "unknown"]
  /\ last = [k \in Keys |-> None]
  /\ queue = {}
  /\ was = [k \in Keys |-> MaxAge]
  /\ opened = [k \in Keys |-> FALSE]
  /\ waiting = [k \in Keys |-> None]

Next ==
  \/ Tick \/ Passes \/ Restart
  \/ \E m \in queue : Send(m)
  \/ \E v \in Venues : Bell(v)
  \/ \E a \in Accounts : Choose(a) \/ \E c \in {Off, EdgesOnly} \cup Every : Configure(a, c)

Spec == Init /\ [][Next]_vars

(***************************************************************************)
(* Properties.                                                             *)
(***************************************************************************)
Moments == [account : Accounts, venue : Venues, what : {"opened", "closed", "during"}]

TypeOK ==
  /\ session \subseteq Venues /\ chosen \subseteq Accounts
  /\ cadence \in [Accounts -> {Off, EdgesOnly} \cup Every]
  /\ open \in [Venues -> {"yes", "no", "unknown"}]
  /\ last \in [Keys -> None .. MaxAge] /\ was \in [Keys -> 0 .. MaxAge]
  /\ queue \subseteq Moments
  /\ \A k \in Keys : open[k[2]] = "unknown" => last[k] = None

\* An opening is never sent twice in a session, whatever restarts in between.
OpensOnce ==
  [][\A m \in queue \ queue' : m.what = "opened" => ~ opened[<<m.account, m.venue>>]]_vars

\* An hourly briefing of an account is due no sooner than the shortest cadence after
\* the opening or the briefing before, also across restarts and changed settings.
Spaced ==
  [][\A k \in Keys : Due(k) = "during" /\ (\A n \in Every : was[k] < n) => ~ Tick]_vars

\* While a venue stays open and the loop comes round, no hourly account waits longer
\* than its cadence: not after a restart, a change of cadence or sends that failed.
NeverOverdue ==
  [][\A k \in Keys : Hours(k) /\ k[2] \in session /\ waiting'[k] >= cadence[k[1]] => ~ Tick]_vars
=============================================================================
