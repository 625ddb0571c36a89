------------------------------- MODULE Watcher -------------------------------
(***************************************************************************)
(* What makes an alert fire (Condition and Watcher of alerts/mod.rs): the  *)
(* prints kept per watched instrument, moves and volume surges over a      *)
(* window of them, session edges seen by a periodic tick, and conditions   *)
(* that are stored in columns and rebuilt from them at a restart.          *)
(* Module Alerts has what happens to a firing; which alerts an event hits  *)
(* is a choice there, and is worked out here.                              *)
(*                                                                         *)
(* One instrument I and one venue with sessions.  Time is in minutes, a    *)
(* print is [age, price, value].  Percentages are compared by cross        *)
(* multiplication: Decimal's rounding is left out.                         *)
(*                                                                         *)
(* A definition whose comment begins with Mutant is used by nothing: it is *)
(* the definition after it with a mistake the properties must notice.      *)
(***************************************************************************)
EXTENDS Integers, Sequences, FiniteSets, SequencesExt, FiniteSetsExt

CONSTANTS
  Kinds,       \* the conditions that are set
  Threshold,   \* of each kind
  Window,      \* minutes, of each kind
  Prices, Qtys,\* of a print
  Adv,         \* average daily value, 0 when it is not known
  Day,         \* minutes of a day (1440)
  MaxWindow,   \* how long prints are kept (240)
  Cooldown,    \* minutes between two firings of an alert (5)
  MaxLate,     \* bound: how old a print is on arrival
  MaxPrints    \* bound: prints within MaxWindow

\* create_alert takes windows up to the time prints are kept only.
WatcherAssumption ==
  /\ Kinds \subseteq {"price_above", "price_below", "move", "volume_surge", "order_filled",
                      "session_open", "session_close"}
  /\ \A k \in Kinds : Window[k] \in 1 .. MaxWindow /\ Threshold[k] \in Nat \ {0}
  /\ Prices \subseteq Nat /\ Qtys \subseteq Nat
  /\ {Adv, MaxWindow, MaxLate, MaxPrints} \subseteq Nat /\ {Day, Cooldown} \subseteq Nat \ {0}
  /\ MaxLate <= MaxWindow /\ MaxLate < Cooldown

VARIABLES
  alerts,    \* Watcher.alerts: the conditions armed, by kind
  cool,      \* minutes since each fired, Cooldown when it may fire
  history,   \* Watcher.history of the instrument
  open,      \* Watcher.open of the venue: yes, no or unknown
  session,   \* whether the venue is open
  rows,      \* the stored columns of the active alerts
  fired,     \* what the last step fired
  print,     \* history: the last step's print, NoPrint if it had none
  kept,      \* history: every print of the last MaxWindow minutes seen while watched
  news       \* history: whether the session changed since a tick, or the start, looked

vars == <<alerts, cool, history, open, session, rows, fired, print, kept, news>>

NoPrint == [age |-> 0, price |-> 0, value |-> 0]
OfInstrument == {"price_above", "price_below", "move", "volume_surge"}
Edges == {"session_open", "session_close"}

(***************************************************************************)
(* Conditions and their columns.                                           *)
(***************************************************************************)
Condition(k) ==
  [kind |-> k,
   instrument |-> IF k \in OfInstrument THEN "I" ELSE "none",
   venue |-> IF k \in Edges THEN "V" ELSE "none",
   threshold |-> IF k \in OfInstrument THEN Threshold[k] ELSE 0,
   window |-> IF k \in {"move", "volume_surge"} THEN Window[k] ELSE 0]

\* Mutant: a move needs no window.
NeedsLess(k) == {"instrument", "threshold"}

\* The columns a kind cannot do without; the others are ignored.
Needs(k) ==
  CASE k \in {"price_above", "price_below"} -> {"instrument", "threshold"}
    [] k \in {"move", "volume_surge"} -> {"instrument", "threshold", "window"}
    [] k \in Edges -> {"venue"}
    [] OTHER -> {"instrument"}

from_parts(row) ==
  [kind |-> row.kind,
   instrument |-> IF "instrument" \in Needs(row.kind) THEN row.instrument ELSE "none",
   venue |-> IF "venue" \in Needs(row.kind) THEN row.venue ELSE "none",
   threshold |-> IF "threshold" \in Needs(row.kind) THEN row.threshold ELSE 0,
   window |-> IF "window" \in Needs(row.kind) THEN row.window ELSE 0]

(***************************************************************************)
(* A print.                                                                *)
(***************************************************************************)
Watched == \E a \in alerts : a.kind \in OfInstrument

\* Mutant: nothing is dropped.
PrunedNever(h) == h

\* Mutant: prints older than a minute less than the window are dropped.
PrunedTooFar(h) == IF \A i \in DOMAIN h : h[i].age >= MaxWindow THEN <<>>
                   ELSE SubSeq(h, Min({i \in DOMAIN h : h[i].age < MaxWindow}), Len(h))

\* Only the front is dropped: a late print keeps what came before it.
Pruned(h) == IF \A i \in DOMAIN h : h[i].age > MaxWindow THEN <<>>
             ELSE SubSeq(h, Min({i \in DOMAIN h : h[i].age <= MaxWindow}), Len(h))

\* What SelectSeq returns, as a function that proofs can unfold.
InWindow(h, w) ==
  LET first[i \in 0 .. Len(h)] ==
        IF i = 0 THEN <<>> ELSE IF h[i].age <= w THEN Append(first[i - 1], h[i]) ELSE first[i - 1]
  IN  first[Len(h)]
AbsOf(n) == IF n < 0 THEN -n ELSE n

\* The base of a move is the first print to arrive of those within the window.
Moved(h, p, pct, w) ==
  LET in == InWindow(h, w)
  IN  in # <<>> /\ in[1].price # 0 /\ AbsOf(p.price - in[1].price) * 100 >= pct * in[1].price

TotalValue(h) == FoldSeq(LAMBDA p, sum : sum + p.value, 0, h)

\* Mutant: the pace of a whole day.
SurgedDay(h, factor, w) == Adv > 0 /\ TotalValue(InWindow(h, w)) >= factor * Adv

Surged(h, factor, w) == Adv > 0 /\ TotalValue(InWindow(h, w)) * Day >= factor * Adv * w

Hit(c, h, p) ==
  \/ c.kind = "price_above" /\ p.price >= c.threshold
  \/ c.kind = "price_below" /\ p.price <= c.threshold
  \/ c.kind = "move" /\ Moved(h, p, c.threshold, c.window)
  \/ c.kind = "volume_surge" /\ Surged(h, c.threshold, c.window)

Ready(c) == cool[c.kind] = Cooldown
Fire(hits) ==
  /\ fired' = {c.kind : c \in {x \in hits : Ready(x)}}
  /\ cool' = [k \in Kinds |-> IF k \in fired' THEN 0 ELSE cool[k]]

OnTrade(p) ==
  /\ Len(kept) < MaxPrints
  /\ IF ~ Watched
     THEN /\ fired' = {} /\ print' = NoPrint
          /\ UNCHANGED <<history, cool, kept>>
     ELSE /\ history' = Pruned(Append(history, p))
          /\ kept' = Append(kept, p)
          /\ print' = p
          /\ Fire({c \in alerts : Hit(c, history', p)})
  /\ UNCHANGED <<alerts, open, session, rows, news>>

OnFill ==
  /\ Fire({c \in alerts : c.kind = "order_filled"})
  /\ print' = NoPrint
  /\ UNCHANGED <<alerts, history, open, session, rows, kept, news>>

(***************************************************************************)
(* The clock.                                                              *)
(***************************************************************************)

\* Mutant: the first tick after a start counts as an edge.
ChangedFirst == open # session

\* The first tick only learns the state.
Changed == open # "unknown" /\ open # session

OnTick ==
  /\ open' = session
  /\ LET now == IF session = "yes" THEN "session_open" ELSE "session_close"
     IN  Fire({c \in alerts : Changed /\ c.kind = now})
  /\ news' = FALSE
  /\ print' = NoPrint
  /\ UNCHANGED <<alerts, history, session, rows, kept>>

Bell ==
  /\ session' = IF session = "yes" THEN "no" ELSE "yes"
  /\ news' = TRUE
  /\ fired' = {} /\ print' = NoPrint
  /\ UNCHANGED <<alerts, cool, history, open, rows, kept>>

Older(h) == [i \in DOMAIN h |-> [h[i] EXCEPT !.age = IF @ > MaxWindow THEN @ ELSE @ + 1]]

Minute ==
  /\ history' = Older(history)
  /\ kept' = InWindow(Older(kept), MaxWindow)
  /\ cool' = [k \in Kinds |-> IF cool[k] < Cooldown THEN cool[k] + 1 ELSE Cooldown]
  /\ fired' = {} /\ print' = NoPrint
  /\ UNCHANGED <<alerts, open, session, rows, news>>

(***************************************************************************)
(* The list.  Alerts here are not one-shots.                               *)
(***************************************************************************)
Create(k) ==
  /\ \A r \in rows : r.kind # k
  /\ rows' = rows \cup {Condition(k)}
  /\ alerts' = {c \in alerts : c.kind # k} \cup {Condition(k)}
  /\ cool' = [cool EXCEPT ![k] = Cooldown]
  /\ fired' = {} /\ print' = NoPrint
  /\ UNCHANGED <<history, open, session, kept, news>>

Delete(k) ==
  /\ \E r \in rows : r.kind = k
  /\ rows' = {r \in rows : r.kind # k}
  /\ alerts' = {c \in alerts : c.kind # k}
  /\ fired' = {} /\ print' = NoPrint
  /\ UNCHANGED <<cool, history, open, session, kept, news>>

\* A restart rebuilds the conditions; prints and session states are learnt anew.
Restart ==
  /\ alerts' = {from_parts(r) : r \in rows}
  /\ history' = <<>> /\ kept' = <<>>
  /\ open' = "unknown" /\ news' = FALSE
  /\ fired' = {} /\ print' = NoPrint
  /\ UNCHANGED <<cool, session, rows>>

Init ==
  /\ alerts = {} /\ rows = {}
  /\ cool = [k \in Kinds |-> Cooldown]
  /\ history = <<>> /\ kept = <<>>
  /\ open = "unknown" /\ news = FALSE
  /\ session \in {"yes", "no"}
  /\ fired = {} /\ print = NoPrint

Next ==
  \/ \E price \in Prices, qty \in Qtys, late \in 0 .. MaxLate :
       OnTrade([age |-> late, price |-> price, value |-> price * qty])
  \/ OnFill \/ OnTick \/ Bell \/ Minute \/ Restart
  \/ \E k \in Kinds : Create(k) \/ Delete(k)

Spec == Init /\ [][Next]_vars

(***************************************************************************)
(* Properties.                                                             *)
(***************************************************************************)
AnyPrint == [age : 0 .. MaxWindow + 1, price : Prices \cup {0}, value : Nat]

TypeOK ==
  /\ \A c \in alerts \cup rows : c.kind \in Kinds
  /\ cool \in [Kinds -> 0 .. Cooldown]
  /\ open \in {"yes", "no", "unknown"} /\ session \in {"yes", "no"}
  /\ \A i \in DOMAIN history : history[i] \in AnyPrint
  /\ print # NoPrint /\ history # <<>> => history[1].age <= MaxWindow

\* What is armed is what is stored, column for column, through any restart.
StoredIsArmed == alerts = rows

\* Dropping old prints changes no firing: an alert fires on a print exactly when it
\* would on all the prints of the window, in whatever order late ones came.
PruningUnseen ==
  print # NoPrint =>
    \A c \in alerts : Hit(c, history, print) = Hit(c, kept, print)

\* An alert on opens or closes announces a change since the process last looked,
\* once; what a restart finds is no news.
EdgesAreNews == [][fired' \cap Edges # {} => news]_vars
=============================================================================
