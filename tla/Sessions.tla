------------------------------ MODULE Sessions ------------------------------
(***************************************************************************)
(* The trading calendar (venue.rs), the DAY orders that live by it         *)
(* (expire_day_orders and restore_order in broker.rs) and a process that   *)
(* stops and is started again (cli.rs, restore in app.rs).                 *)
(*                                                                         *)
(* Time goes round in weeks: now is a slot of the week, in UTC.  A venue's *)
(* local time is ahead of it by Ahead[v] slots.  The timer's five seconds  *)
(* are much shorter than a slot: it runs in each, and at once after a      *)
(* start.  Prices, quantities and reservations are in module Broker.       *)
(*                                                                         *)
(* A definition whose comment begins with Mutant is used by nothing: it is *)
(* the definition after it with a mistake the properties must notice.      *)
(***************************************************************************)
EXTENDS Integers, FiniteSets

CONSTANTS
  Venues,      \* venues with a session
  Orders,      \* DAY orders, placed again and again
  Days,        \* days of a week
  Slots,       \* slots of a day
  Weekend,     \* days of the week nobody trades
  Holidays,    \* more such days of each venue
  Ahead,       \* local time minus UTC of each venue
  OpensAt,     \* each venue's first slot of a session
  ClosesAt,    \* the first slot after it
  Horizon,     \* days next_open looks ahead (15)
  MayStop      \* whether the process stops

SessionsAssumption ==
  /\ {Days, Slots, Horizon} \subseteq Nat \ {0} /\ MayStop \in BOOLEAN
  /\ Weekend \subseteq 0 .. Days - 1 /\ Holidays \in [Venues -> SUBSET (0 .. Days - 1)]
  /\ Ahead \in [Venues -> Int] /\ OpensAt \in [Venues -> Nat] /\ ClosesAt \in [Venues -> Nat]
  /\ \A v \in Venues : v # "none" /\ 0 < OpensAt[v] /\ OpensAt[v] < ClosesAt[v] /\ ClosesAt[v] <= Slots

VARIABLES
  now,
  up,       \* the process runs
  orders,   \* status and venue; over: sessions have closed since the order was placed
  ticked    \* the timer has run in this slot

vars == <<now, up, orders, ticked>>

Unplaced == [status |-> "none", venue |-> "none", over |-> "no"]
None == -1

(***************************************************************************)
(* The calendar.                                                           *)
(***************************************************************************)
Local(v, t) == t + Ahead[v]
Date(v, t) == Local(v, t) \div Slots

is_trading_day(v, d) == d % Days \notin Weekend \cup Holidays[v]

is_open(v, t) ==
  /\ is_trading_day(v, Date(v, t))
  /\ Local(v, t) % Slots \in OpensAt[v] .. ClosesAt[v] - 1

OpeningOf(v, d) == d * Slots + OpensAt[v] - Ahead[v]

\* Mutant: an opening that is due now counts as the next.
OpeningsFromNow(v, t) ==
  {OpeningOf(v, d) : d \in {x \in Date(v, t) .. Date(v, t) + Horizon - 1 : is_trading_day(v, x)}}
    \cap {u \in t .. t + (Horizon + 1) * Slots : u >= t}

Openings(v, t) ==
  {OpeningOf(v, d) : d \in {x \in Date(v, t) .. Date(v, t) + Horizon - 1 : is_trading_day(v, x)}}
    \cap {u \in t .. t + (Horizon + 1) * Slots : u > t}

next_open(v, t) ==
  LET s == Openings(v, t)
  IN  IF s = {} THEN None ELSE CHOOSE u \in s : \A w \in s : u <= w

(***************************************************************************)
(* Orders.                                                                 *)
(***************************************************************************)
Place(o, v) ==
  /\ up /\ is_open(v, now) /\ orders[o].status # "open"
  /\ orders' = [orders EXCEPT ![o] = [status |-> "open", venue |-> v, over |-> "no"]]
  /\ UNCHANGED <<now, up, ticked>>

\* A book or a print, or a cancel.
Ends(o, status) ==
  /\ up /\ orders[o].status = "open"
  /\ status = "filled" => is_open(orders[o].venue, now)
  /\ orders' = [orders EXCEPT ![o].status = status]
  /\ UNCHANGED <<now, up, ticked>>

\* Mutant: orders are due until midnight.
DueThatDay(o) ==
  /\ orders[o].status = "open"
  /\ is_trading_day(orders[o].venue, Date(orders[o].venue, now))
  /\ Local(orders[o].venue, now) % Slots >= ClosesAt[orders[o].venue]

Due(o) == orders[o].status = "open" /\ ~is_open(orders[o].venue, now)

\* Mutant: an expired order is as one that never was.
Forgotten(r) == [r EXCEPT !.status = "none"]

Expired(r) == [r EXCEPT !.status = "expired"]

expire_day_orders ==
  /\ up /\ ~ticked /\ ticked' = TRUE
  /\ orders' = [o \in Orders |-> IF Due(o) THEN Expired(orders[o]) ELSE orders[o]]
  /\ UNCHANGED <<now, up>>

Stop ==
  /\ MayStop /\ up /\ up' = FALSE
  /\ UNCHANGED <<now, orders, ticked>>

\* The orders that are stored as open rest again.
Start ==
  /\ ~up /\ up' = TRUE /\ ticked' = FALSE
  /\ UNCHANGED <<now, orders>>

Passes ==
  /\ up => ticked
  /\ now' = (now + 1) % (Days * Slots) /\ ticked' = FALSE
  /\ orders' = [o \in Orders |->
       IF orders[o].status = "open" /\ is_open(orders[o].venue, now) /\ ~is_open(orders[o].venue, now')
       THEN [orders[o] EXCEPT !.over = "yes"] ELSE orders[o]]
  /\ UNCHANGED up

Init ==
  /\ now = 0 /\ up = TRUE /\ ticked = FALSE
  /\ orders = [o \in Orders |-> Unplaced]

Next ==
  \/ \E o \in Orders : \/ \E v \in Venues : Place(o, v)
                       \/ \E status \in {"filled", "cancelled"} : Ends(o, status)
  \/ expire_day_orders \/ Stop \/ Start \/ Passes

\* Time passes and the timer runs.  Outages have nothing to do with sessions: a process
\* that is stopped again and again is started again and again while its venues are
\* closed, and does not always stop before the timer's first tick.
Fairness ==
  /\ SF_vars(Passes) /\ WF_vars(Start) /\ WF_vars(expire_day_orders)
  /\ SF_vars(Start /\ \A v \in Venues : ~is_open(v, now))
  /\ SF_vars(expire_day_orders /\ \E o \in Orders : Due(o))

Spec == Init /\ [][Next]_vars /\ Fairness

(***************************************************************************)
(* Properties.                                                             *)
(***************************************************************************)
TypeOK ==
  /\ now \in 0 .. Days * Slots - 1 /\ {up, ticked} \subseteq BOOLEAN
  /\ \A o \in Orders :
       /\ orders[o].status \in {"none", "open", "filled", "expired", "cancelled"}
       /\ orders[o].venue \in Venues \cup {"none"} /\ orders[o].over \in {"yes", "no"}
       /\ orders[o].status = "none" <=> orders[o].venue = "none"

Begins(v, t) == is_open(v, t) /\ ~is_open(v, t - 1)

\* market_open and MARKET_CLOSED tell an agent when to come back: that is the first
\* slot after now in which a session begins, across weekends, holidays and time zones,
\* and it is left out only when none begins within the days looked at.
NextOpenIsNext ==
  \A v \in Venues :
    LET n == next_open(v, now)
        last == IF n = None THEN now + (Horizon - 1) * Slots ELSE n - 1
    IN  /\ n # None => n > now /\ Begins(v, n)
        /\ \A u \in now + 1 .. last : ~Begins(v, u)

\* An order still open when its session is over is expired before the next, or the
\* process has been down in between: without stops none is filled in a later session.
DayOnly == \A o \in Orders : orders[o].status = "filled" => orders[o].over = "no"

\* No DAY order stays open for ever, however often the process stops.
DayOrdersEnd == \A o \in Orders : orders[o].status = "open" ~> orders[o].status # "open"
=============================================================================
