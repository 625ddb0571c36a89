-------------------------------- MODULE Bars --------------------------------
(***************************************************************************)
(* One-minute bars of one instrument (BarBuilder of candles.rs, bar_loop   *)
(* of app.rs, the bars table of store.rs) and the candles read from them.  *)
(* The loop takes prints off the bus, which drops the oldest ones when the *)
(* loop falls behind, and saves what is done before it goes on.            *)
(*                                                                         *)
(* Time is in minutes: every print bears the minute it was made in and may *)
(* arrive later.  A bar's volume counts its prints; value, which adds up   *)
(* in the same way, is left out.                                           *)
(*                                                                         *)
(* A definition whose comment begins with Mutant is used by nothing: it is *)
(* the definition after it with a mistake the properties must notice.      *)
(***************************************************************************)
EXTENDS Integers, Sequences, FiniteSets, SequencesExt, FiniteSetsExt

CONSTANTS
  Prices,
  Intervals,   \* lengths of candles, in minutes
  Limits,      \* how many candles are asked for
  BusSize,     \* prints the bus keeps for the loop
  MaxLate,     \* bound: minutes a print is late
  MaxNow,      \* bound: minutes
  MaxPrints    \* bound: prints

BarsAssumption ==
  /\ Prices \subseteq Int /\ Intervals \subseteq Nat \ {0} /\ Limits \subseteq Nat \ {0}
  /\ BusSize \in Nat \ {0} /\ {MaxLate, MaxNow, MaxPrints} \subseteq Nat

VARIABLES
  now,
  bus,       \* prints not yet taken by the loop
  bar,       \* BarBuilder.open of the instrument, NoBar without one
  saving,    \* the bar being saved, NoBar when the loop is idle
  rows,      \* the bars table, by minute
  inBar,     \* history: prices of the prints in bar, in order
  inSaving,  \* history: prices of the prints in saving
  told,      \* history: prices of the prints stored, by minute
  made       \* history: how many prints were made

vars == <<now, bus, bar, saving, rows, inBar, inSaving, told, made>>

Minutes == 0 .. MaxNow
NoBar == [start |-> -1, open |-> 0, high |-> 0, low |-> 0, close |-> 0, volume |-> 0]

\* What a sequence of prices amounts to: the reference for bars and candles.
BarOf(start, ps) ==
  [start |-> start, open |-> ps[1], high |-> Max(ToSet(ps)), low |-> Min(ToSet(ps)),
   close |-> ps[Len(ps)], volume |-> Len(ps)]

Higher(a, b) == IF a > b THEN a ELSE b
Lower(a, b) == IF a < b THEN a ELSE b

\* Mutant: the extremes are those of the later bar.
JoinedLast(a, b) == [b EXCEPT !.start = a.start, !.open = a.open, !.volume = a.volume + b.volume]

\* A bar and what comes after it in the same bucket.
Joined(a, b) ==
  [start |-> a.start, open |-> a.open, high |-> Higher(a.high, b.high), low |-> Lower(a.low, b.low),
   close |-> b.close, volume |-> a.volume + b.volume]

(***************************************************************************)
(* The loop.                                                               *)
(***************************************************************************)
Traded(minute, price) ==
  /\ made < MaxPrints /\ minute \in now - MaxLate .. now /\ minute >= 0
  /\ bus' = Append(IF Len(bus) = BusSize THEN Tail(bus) ELSE bus, [minute |-> minute, price |-> price])
  /\ made' = made + 1
  /\ UNCHANGED <<now, bar, saving, rows, inBar, inSaving, told>>

SameMinute(p) == bar.start = p.minute

\* A print starts a bar, joins it, ends it, or is too late for it.
OnTrade ==
  /\ saving = NoBar /\ bus # <<>>
  /\ LET p == Head(bus)
         fresh == BarOf(p.minute, <<p.price>>)
     IN  \/ /\ bar = NoBar
            /\ bar' = fresh /\ inBar' = <<p.price>>
            /\ UNCHANGED <<saving, inSaving>>
         \/ /\ bar # NoBar /\ SameMinute(p)
            /\ bar' = Joined(bar, fresh) /\ inBar' = Append(inBar, p.price)
            /\ UNCHANGED <<saving, inSaving>>
         \/ /\ bar # NoBar /\ ~ SameMinute(p) /\ bar.start < p.minute
            /\ saving' = bar /\ inSaving' = inBar
            /\ bar' = fresh /\ inBar' = <<p.price>>
         \/ /\ bar # NoBar /\ ~ SameMinute(p) /\ bar.start > p.minute
            /\ UNCHANGED <<bar, inBar, saving, inSaving>>
  /\ bus' = Tail(bus)
  /\ UNCHANGED <<now, rows, told, made>>

\* Bars of minutes that are over are closed.
Flush ==
  /\ saving = NoBar /\ bar # NoBar /\ bar.start < now
  /\ saving' = bar /\ inSaving' = inBar
  /\ bar' = NoBar /\ inBar' = <<>>
  /\ UNCHANGED <<now, bus, rows, told, made>>

\* Mutant: a row that is there is replaced.
StoredOver(b) == [m \in DOMAIN rows \cup {b.start} |-> IF m = b.start THEN b ELSE rows[m]]

\* A row that is there absorbs the bar (ON CONFLICT DO UPDATE).
Stored(b) ==
  [m \in DOMAIN rows \cup {b.start} |->
     IF m # b.start THEN rows[m] ELSE IF m \in DOMAIN rows THEN Joined(rows[m], b) ELSE b]

Save ==
  /\ saving # NoBar
  /\ rows' = Stored(saving)
  /\ told' = [told EXCEPT ![saving.start] = @ \o inSaving]
  /\ saving' = NoBar /\ inSaving' = <<>>
  /\ UNCHANGED <<now, bus, bar, inBar, made>>

\* A save that fails is logged: the bar is gone.
SaveFails ==
  /\ saving # NoBar
  /\ saving' = NoBar /\ inSaving' = <<>>
  /\ UNCHANGED <<now, bus, bar, rows, inBar, told, made>>

\* What is in memory is lost, within a minute or between its parts.
Restart ==
  /\ bus' = <<>>
  /\ bar' = NoBar /\ inBar' = <<>>
  /\ saving' = NoBar /\ inSaving' = <<>>
  /\ UNCHANGED <<now, rows, told, made>>

Passes ==
  /\ now < MaxNow
  /\ now' = now + 1
  /\ UNCHANGED <<bus, bar, saving, rows, inBar, inSaving, told, made>>

Init ==
  /\ now = 0 /\ bus = <<>> /\ made = 0
  /\ bar = NoBar /\ saving = NoBar /\ rows = << >>
  /\ inBar = <<>> /\ inSaving = <<>>
  /\ told = [m \in Minutes |-> <<>>]

Next ==
  \/ \E minute \in Minutes, price \in Prices : Traded(minute, price)
  \/ OnTrade \/ Flush \/ Save \/ SaveFails \/ Restart \/ Passes

Spec == Init /\ [][Next]_vars

(***************************************************************************)
(* Reading candles.                                                        *)
(***************************************************************************)
\* Weeks, which start on Mondays, are not made from bars.
Bucket(i, m) == m - (m % i)

\* Mutant: reading starts in the middle of a bucket.
LookbackBare(i, limit) == now - i * limit * 3

\* Three times the span, snapped back to the start of a bucket.
Lookback(i, limit) == Bucket(i, now - i * limit * 3)

StoredSince(since) == SetToSortSeq({rows[m] : m \in {x \in DOMAIN rows : x >= since}},
                                   LAMBDA a, b : a.start < b.start)

\* A row joins the last candle when it is in its bucket.
Resample(bars, i) ==
  FoldLeft(LAMBDA out, b :
             IF out # <<>> /\ out[Len(out)].start = Bucket(i, b.start)
             THEN [out EXCEPT ![Len(out)] = Joined(@, b)]
             ELSE Append(out, [b EXCEPT !.start = Bucket(i, b.start)]),
           <<>>, bars)

Candles(i, limit) ==
  LET out == Resample(StoredSince(Lookback(i, limit)), i)
  IN  IF Len(out) <= limit THEN out ELSE SubSeq(out, Len(out) - limit + 1, Len(out))

(***************************************************************************)
(* Properties.                                                             *)
(***************************************************************************)
TypeOK ==
  /\ Len(bus) <= BusSize
  /\ DOMAIN rows \subseteq Minutes
  /\ bar # NoBar => bar.start \in Minutes /\ bar = BarOf(bar.start, inBar)
  /\ saving # NoBar => saving.start \in Minutes

\* Whatever came late, was flushed early, failed to be saved or was lost with the
\* process: a stored bar is exactly what its stored prints amount to, in the order
\* they came in.
BarsAddUp == \A m \in DOMAIN rows : rows[m] = BarOf(m, told[m])

\* A candle, the oldest one included, covers all that is stored of its bucket.
PrintsOf(b, i) == FlattenSeq([n \in 1 .. i |-> IF b + n - 1 \in Minutes THEN told[b + n - 1] ELSE <<>>])

CandlesTellAll ==
  \A i \in Intervals, limit \in Limits :
    LET out == Candles(i, limit)
    IN  /\ Len(out) <= limit
        /\ \A n \in DOMAIN out : out[n] = BarOf(out[n].start, PrintsOf(out[n].start, i))
        /\ \A n \in 2 .. Len(out) : out[n - 1].start < out[n].start
=============================================================================
