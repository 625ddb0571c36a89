-------------------------------- MODULE Ticks --------------------------------
(***************************************************************************)
(* Which prices an order may name (TickRule and price_band of venue.rs,    *)
(* prepare of broker.rs) and how the prices of a real book become those of *)
(* the shadow book (ShadowState::shift of sim.rs).                         *)
(*                                                                         *)
(* Prices are counted in grains, a fraction of the currency's unit so      *)
(* small that every tick, every limit and every moved price is a whole     *)
(* number of them.  The table of Upbit differs from KRX's in its numbers.  *)
(*                                                                         *)
(* A definition whose comment begins with Mutant is used by nothing: it is *)
(* the definition after it with a mistake the properties must notice.      *)
(***************************************************************************)
EXTENDS Integers, FiniteSetsExt

CONSTANTS
  Tick,      \* ticks, the last of them above the highest bound
  Upper,     \* Upper[k]: prices below it, and not below Upper[k - 1], have Tick[k]
  Limited,   \* whether the venue has daily price limits
  Closes,    \* previous closes
  Aside,     \* how far from a limit, or from a bound, prices are tried
  Moves      \* offsets of the shadow book, in percent

TicksAssumption ==
  /\ \A k \in DOMAIN Upper : Upper[k] % Tick[k] = 0 /\ Upper[k] % Tick[k + 1] = 0
  /\ \A c \in Closes : c % 10 = 0
  /\ Limited \in BOOLEAN

VARIABLES
  prev,     \* Book.prev_close, 0 when there is none
  answer,   \* what the last order was told
  shadow    \* the shadow prices of the last book's best bid and ask, and the real ones

vars == <<prev, answer, shadow>>

size_at(p) ==
  LET above == {k \in DOMAIN Upper : p < Upper[k]}
  IN  IF above = {} THEN Tick[Max(DOMAIN Tick)] ELSE Tick[Min(above)]

Floor(p) == (p \div size_at(p)) * size_at(p)

\* Mutant: one tick more, also from a price that is on a tick.
CeilAbove(p) == Floor(p) + size_at(p)

Ceil(p) == -((-p) \div size_at(p)) * size_at(p)

\* Mutant: by the tick of half the price.
RoundBelow(p) == LET t == size_at(p \div 2) IN ((2 * p + t) \div (2 * t)) * t

\* To the nearest tick; from half way to the even one.
Round(p) ==
  LET t == size_at(p)
      up == 2 * (p % t) > t \/ (2 * (p % t) = t /\ (p \div t) % 2 = 1)
  IN  IF up THEN Floor(p) + t ELSE Floor(p)

is_valid(p) == p > 0 /\ p % size_at(p) = 0

\* Mutant: the limits are snapped to the nearest tick.
BandRounded == [lower |-> Round(7 * (prev \div 10)), upper |-> Round(13 * (prev \div 10))]

\* 30 % of the previous close, snapped inward.
price_band == [lower |-> Ceil(7 * (prev \div 10)), upper |-> Floor(13 * (prev \div 10))]

-----------------------------------------------------------------------------
Untold == [told |-> "nothing", price |-> 0, lower |-> 0, upper |-> 0]
Unseen == [bid |-> 0, ask |-> 0, percent |-> 0, shadowBid |-> 0, shadowAsk |-> 0]

Init == prev = 0 /\ answer = Untold /\ shadow = Unseen

\* A book comes with a previous close, which is a price that was paid.
Attach(c) ==
  /\ is_valid(c) /\ prev' = c
  /\ answer' = Untold /\ shadow' = Unseen

\* What an order with this limit is told by prepare, each order of a book of its own.
Order(p) ==
  /\ answer = Untold /\ shadow = Unseen
  /\ answer' =
       IF ~ is_valid(p)
       THEN [told |-> "invalid tick", price |-> p, lower |-> Floor(p), upper |-> Ceil(p)]
       ELSE IF Limited /\ prev # 0 /\ (p < price_band.lower \/ p > price_band.upper)
       THEN [told |-> "price limit", price |-> p, lower |-> price_band.lower, upper |-> price_band.upper]
       ELSE [told |-> "accepted", price |-> p, lower |-> 0, upper |-> 0]
  /\ UNCHANGED <<prev, shadow>>

Moved(p, percent) == (p \div 100) * (100 + percent)
Shift(p, percent) == Round(Moved(p, percent))

\* A book of which only the prices matter, with the shadow book's off by percent.
Show(bid, ask, percent) ==
  /\ answer = Untold /\ shadow = Unseen /\ is_valid(bid) /\ is_valid(ask) /\ bid < ask
  /\ shadow' = [bid |-> bid, ask |-> ask, percent |-> percent,
                shadowBid |-> Shift(bid, percent), shadowAsk |-> Shift(ask, percent)]
  /\ prev' = 0 /\ UNCHANGED answer

\* Prices near the limits of the previous close and near the bounds of the table.
Tried ==
  {p \in {q + d : q \in {7 * (prev \div 10), prev, 13 * (prev \div 10)}, d \in Aside} : p > 0}
Near == {p \in {Upper[k] + d : k \in DOMAIN Upper, d \in Aside} : p > 0}

Next ==
  \/ \E c \in Closes : Attach(c)
  \/ \E p \in Tried \cup Near : Order(p)
  \/ \E bid, ask \in {p \in Near : is_valid(p)}, m \in Moves : Show(bid, ask, m)

Spec == Init /\ [][Next]_vars

(***************************************************************************)
(* Properties.                                                             *)
(***************************************************************************)
TypeOK ==
  /\ prev \in Closes \cup {0}
  /\ answer.told \in {"nothing", "invalid tick", "price limit", "accepted"}

\* No price one may name lies between two prices, exclusive.
NoneBetween(low, high) == \A p \in low + 1 .. high - 1 : ~ is_valid(p)

\* venue.rs: an order is taken at exactly the valid prices within 30 % of the previous
\* close, although the limits may lie where the tick changes.
BandIsExact ==
  LET within == 10 * answer.price >= 7 * prev /\ 10 * answer.price <= 13 * prev
  IN  /\ answer.told = "accepted" => is_valid(answer.price) /\ (Limited /\ prev # 0 => within)
      /\ answer.told = "price limit" => ~ within

\* What a refused order is told is the nearest price on either side, or the last price
\* within the limits.
HintsAreNearest ==
  /\ answer.told = "invalid tick" =>
       /\ answer.lower < answer.price /\ answer.price < answer.upper
       /\ answer.lower = 0 \/ is_valid(answer.lower)
       /\ is_valid(answer.upper) /\ NoneBetween(answer.lower, answer.upper)
  /\ answer.told = "price limit" => is_valid(answer.lower) /\ is_valid(answer.upper)

\* Whether q is a price one may name and none is nearer to p.
IsNearest(q, p) ==
  /\ is_valid(q)
  /\ LET off == IF q < p THEN p - q ELSE q - p IN NoneBetween(p - off, p + off)

\* The shadow book never crosses, and what it shows can be named by an order: snapping
\* keeps the order of prices and takes the nearest, also across a change of the tick.
ShadowInOrder ==
  shadow # Unseen =>
    /\ shadow.shadowBid <= shadow.shadowAsk
    /\ IsNearest(shadow.shadowBid, Moved(shadow.bid, shadow.percent))
    /\ IsNearest(shadow.shadowAsk, Moved(shadow.ask, shadow.percent))
=============================================================================
