------------------------------- MODULE Persist -------------------------------
(***************************************************************************)
(* The way to disk and back: the journal the broker sends (broker.rs), the *)
(* task that writes it (persist.rs), the tables it writes to (store.rs),   *)
(* account resets that touch store and broker (app.rs), and the process    *)
(* that starts, drains and dies (cli.rs).                                  *)
(*                                                                         *)
(* The broker itself, modelled in Broker, is reduced to what entries carry:*)
(* one instrument whose unit costs one unit of the one currency, no fees.  *)
(*                                                                         *)
(* A definition whose comment begins with Mutant is used by nothing: it is *)
(* the definition after it with a mistake the properties must notice.      *)
(***************************************************************************)
EXTENDS Integers, Sequences, Sums

CONSTANTS
  Accounts,
  Deposit,        \* an account's initial cash
  Sizes,          \* the order sizes clients ask for
  Failures,       \* what goes wrong between writer and database: "refused" (an
                  \* attempt fails), "outage" (every attempt fails), "lost_ack"
                  \* (the transaction commits, its answer does not arrive)
  Attempts,       \* ATTEMPTS
  MaxOrders,      \* bound: order ids are 1..MaxOrders
  MaxGeneration,  \* bound: resets of one account
  MaxStops        \* bound: stops and crashes of the process

VARIABLES
  orders, cash, units, generation, nextId,   \* the broker's World
  up,        \* "serving", "draining" (close_journal was called) or "down"
  queue,     \* the journal channel; its head is the entry being written
  attempt,   \* failed attempts to write the head
  resets,    \* reset_account calls between the store's reset and the broker's
  store,     \* the tables: rows of orders, and the ledger of fills and conversions
  current,   \* accounts.generation
  stops      \* how often the process has stopped

world == <<orders, cash, units, generation, nextId>>
disk == <<store, current>>
vars == <<world, disk, up, queue, attempt, resets, stops>>

ASSUME BoundAssumption ==
  /\ Deposit \in Nat /\ Sizes \subseteq Nat \ {0} /\ Attempts \in Nat \ {0}
  /\ MaxOrders \in Nat /\ MaxGeneration \in Nat \ {0} /\ MaxStops \in Nat
  /\ Failures \subseteq {"refused", "outage", "lost_ack"}

OrderIds == 1 .. MaxOrders
Generations == 1 .. MaxGeneration
NoOrder == [status |-> "none"]
Order ==
  [account : Accounts, side : {"buy", "sell"}, size : Nat, filled : Nat,
   status : {"open", "filled", "cancelled"}]
Row ==
  [account : Accounts, side : {"buy", "sell"}, size : Nat, filled : Nat,
   status : {"open", "filled", "cancelled"}, generation : Generations]
FillEntries ==
  [type : {"fill"}, id : OrderIds, generation : Generations, account : Accounts,
   side : {"buy", "sell"}, qty : Nat]
ConversionEntries ==
  [type : {"conversion"}, generation : Generations, account : Accounts, amount : Nat]
OrderEntries == [type : {"order"}, id : OrderIds, generation : Generations, order : Order]
Reset == [account : Accounts, generation : Generations]

\* What the orders of a table whose ids are in S still need of one side.
Promised(table, S, side) ==
  Total([o \in OrderIds |->
           IF o \in S /\ table[o].side = side THEN table[o].size - table[o].filled ELSE 0],
        MaxOrders)
-----------------------------------------------------------------------------
(* The store. *)

\* A fill refers to its order (FOREIGN KEY): without its row it is refused for good.
Violates(s, e) == e.type = "fill" /\ s.rows[e.id] = NoOrder

RowOf(e) ==
  [account |-> e.order.account, side |-> e.order.side, size |-> e.order.size,
   filled |-> e.order.filled, status |-> e.order.status, generation |-> e.generation]
\* Mutant: an order that is there already is left as it is.
CommitInsertOnly(s, e) ==
  IF e.type = "order"
  THEN [s EXCEPT !.rows[e.id] = IF @ = NoOrder THEN RowOf(e) ELSE @]
  ELSE [s EXCEPT !.ledger = Append(@, e)]
\* save_order (an upsert that keeps what identifies the order), save_fill and
\* save_conversion (inserts).
Commit(s, e) ==
  IF e.type = "order"
  THEN [s EXCEPT !.rows[e.id] =
          IF @ = NoOrder THEN RowOf(e)
          ELSE [@ EXCEPT !.status = e.order.status, !.filled = e.order.filled]]
  ELSE [s EXCEPT !.ledger = Append(@, e)]

\* load_portfolio: deposits and conversions are summed, fills applied in order.
\* A position that is sold off is removed, and selling one that is not there panics.
ApplyFill(p, e) ==
  IF e.type = "conversion" THEN [p EXCEPT !.cash = @ - e.amount]
  ELSE IF e.side = "buy"
  THEN [cash |-> p.cash - e.qty, units |-> p.units + e.qty,
        position |-> IF p.position = "panic" THEN "panic" ELSE "held"]
  ELSE [cash |-> p.cash + e.qty, units |-> p.units - e.qty,
        position |-> IF p.position # "held" THEN "panic"
                     ELSE IF p.units = e.qty THEN "none" ELSE "held"]
LoadPortfolio(s, a, g) ==
  LET p[k \in 0 .. Len(s.ledger)] ==
        IF k = 0 THEN [cash |-> Deposit, units |-> 0, position |-> "none"]
        ELSE IF s.ledger[k].account = a /\ s.ledger[k].generation = g
        THEN ApplyFill(p[k - 1], s.ledger[k])
        ELSE p[k - 1]
  IN  p[Len(s.ledger)]

\* Store::orders(.., open_only): the open orders of generations g.
OpenRow(s, g, o) ==
  /\ s.rows[o].status = "open"
  /\ s.rows[o].generation = g[s.rows[o].account]
-----------------------------------------------------------------------------
(* The broker. *)

IsOpen(o) == orders[o].status = "open"
Available(a, side) ==
  (IF side = "buy" THEN cash[a] ELSE units[a])
    - Promised(orders, {o \in OrderIds : IsOpen(o) /\ orders[o].account = a}, side)

OrderEntry(o, order) ==
  [type |-> "order", id |-> o, generation |-> generation[order.account], order |-> order]
FillEntry(o, order, q) ==
  [type |-> "fill", id |-> o, generation |-> generation[order.account],
   account |-> order.account, side |-> order.side, qty |-> q]

\* emit: once the journal is closed, entries go nowhere.
Emit(entries) == queue' = IF up = "serving" THEN queue \o entries ELSE queue

\* Mutant: a fill is journaled before its order.
ExecutionEntriesFillFirst(o, order, q) ==
  IF q = 0 THEN <<OrderEntry(o, order)>> ELSE <<FillEntry(o, order, q), OrderEntry(o, order)>>
ExecutionEntries(o, order, q) ==
  IF q = 0 THEN <<OrderEntry(o, order)>> ELSE <<OrderEntry(o, order), FillEntry(o, order, q)>>

BookFill(a, side, q) ==
  /\ cash' = [cash EXCEPT ![a] = IF side = "buy" THEN @ - q ELSE @ + q]
  /\ units' = [units EXCEPT ![a] = IF side = "buy" THEN @ + q ELSE @ - q]

BrokerCall == up # "down" /\ UNCHANGED <<generation, attempt, resets, disk, up, stops>>

\* place_sync: `taken` is executed at once; the rest rests or is cancelled.
Place(a, side, size, taken, rests) ==
  LET order == [account |-> a, side |-> side, size |-> size, filled |-> taken,
                status |-> IF taken = size THEN "filled" ELSE IF rests THEN "open" ELSE "cancelled"]
  IN  /\ BrokerCall
      /\ nextId <= MaxOrders
      /\ size <= Available(a, side)
      /\ orders' = [orders EXCEPT ![nextId] = order]
      /\ nextId' = nextId + 1
      /\ BookFill(a, side, taken)
      /\ Emit(ExecutionEntries(nextId, order, taken))

\* on_book and on_trade: q units of a resting order are executed.
Fill(o, q) ==
  LET order == [orders[o] EXCEPT
                  !.filled = @ + q,
                  !.status = IF orders[o].filled + q = orders[o].size THEN "filled" ELSE @]
  IN  /\ BrokerCall
      /\ IsOpen(o) /\ q <= orders[o].size - orders[o].filled
      /\ orders' = [orders EXCEPT ![o] = order]
      /\ BookFill(order.account, order.side, q)
      /\ Emit(ExecutionEntries(o, order, q))
      /\ UNCHANGED nextId

\* cancel_sync and expire_day_orders.
Close(o) ==
  LET order == [orders[o] EXCEPT !.status = "cancelled"] IN
  /\ BrokerCall
  /\ IsOpen(o)
  /\ orders' = [orders EXCEPT ![o] = order]
  /\ Emit(<<OrderEntry(o, order)>>)
  /\ UNCHANGED <<cash, units, nextId>>

\* convert_sync: cash goes into another currency, which is not modelled.
Convert(a, amount) ==
  /\ BrokerCall
  /\ amount <= Available(a, "buy")
  /\ cash' = [cash EXCEPT ![a] = @ - amount]
  /\ Emit(<<[type |-> "conversion", generation |-> generation[a], account |-> a,
             amount |-> amount]>>)
  /\ UNCHANGED <<orders, units, nextId>>
-----------------------------------------------------------------------------
(* The writer. *)

\* The entry is done with: it is republished on the bus and the next one received.
NextEntry == queue' = Tail(queue) /\ attempt' = 0

\* Mutant: a failed entry goes to the end of the queue.
RetryLater == queue' = Append(Tail(queue), Head(queue)) /\ attempt' = 0
\* Mutant: one attempt too many.
RetryOnceMore ==
  \/ attempt < Attempts /\ attempt' = attempt + 1 /\ UNCHANGED queue
  \/ attempt = Attempts /\ NextEntry
\* An attempt failed. After ATTEMPTS of them the entry is dropped.
Retry ==
  \/ attempt + 1 < Attempts /\ attempt' = attempt + 1 /\ UNCHANGED queue
  \/ attempt + 1 = Attempts /\ "outage" \in Failures /\ NextEntry

WriterTurn ==
  up # "down" /\ queue # <<>> /\ UNCHANGED <<world, current, up, resets, stops>>

Write ==
  /\ WriterTurn
  /\ ~ Violates(store, Head(queue))
  /\ store' = Commit(store, Head(queue))
  /\ NextEntry
\* The attempt fails before the commit.
Refuse ==
  /\ WriterTurn
  /\ "refused" \in Failures
  /\ Retry
  /\ UNCHANGED store
\* The attempt fails after the commit: to the writer it failed.
LoseAck ==
  /\ WriterTurn
  /\ "lost_ack" \in Failures
  /\ ~ Violates(store, Head(queue))
  /\ store' = Commit(store, Head(queue))
  /\ Retry
\* is_permanent: an integrity violation is not retried.
Reject ==
  /\ WriterTurn
  /\ Violates(store, Head(queue))
  /\ NextEntry
  /\ UNCHANGED store
-----------------------------------------------------------------------------
(* Resets, starts and stops. *)

\* Mutant: the broker goes first, at the generation after its own.
ResetBrokerFirst(a) ==
  /\ up # "down" /\ generation[a] < MaxGeneration
  /\ resets' = resets \cup {[account |-> a, generation |-> generation[a] + 1]}
  /\ UNCHANGED <<world, store, current, up, queue, attempt, stops>>
\* App::reset_account: the store's transaction commits and returns the generation.
ResetStore(a) ==
  /\ up # "down" /\ current[a] < MaxGeneration
  /\ current' = [current EXCEPT ![a] = @ + 1]
  /\ resets' = resets \cup {[account |-> a, generation |-> current[a] + 1]}
  /\ UNCHANGED <<world, store, up, queue, attempt, stops>>

\* The call goes on: the account's orders are dropped, not journaled, and its
\* portfolio replaced.
ResetBroker(r) ==
  /\ resets' = resets \ {r}
  /\ orders' = [o \in OrderIds |->
       IF IsOpen(o) /\ orders[o].account = r.account
       THEN [orders[o] EXCEPT !.status = "cancelled"] ELSE orders[o]]
  /\ cash' = [cash EXCEPT ![r.account] = Deposit]
  /\ units' = [units EXCEPT ![r.account] = 0]
  /\ generation' = [generation EXCEPT ![r.account] = r.generation]
  /\ UNCHANGED <<nextId, disk, up, queue, attempt, stops>>
\* `atrader account reset`, with the server stopped.
ResetOffline(a) ==
  /\ up = "down" /\ current[a] < MaxGeneration
  /\ current' = [current EXCEPT ![a] = @ + 1]
  /\ UNCHANGED <<world, store, up, queue, attempt, resets, stops>>

\* The process is gone with everything in its memory.
BlankWorld ==
  /\ orders' = [o \in OrderIds |-> NoOrder]
  /\ cash' = [a \in Accounts |-> 0]
  /\ units' = [a \in Accounts |-> 0]
  /\ generation' = [a \in Accounts |-> 1]
  /\ nextId' = 1
GoDown ==
  /\ up' = "down" /\ queue' = <<>> /\ attempt' = 0 /\ resets' = {}
  /\ BlankWorld
  /\ UNCHANGED disk

\* drain closes the journal; tasks and connections live on until it ends.
CloseJournal ==
  /\ up = "serving" /\ stops < MaxStops
  /\ up' = "draining"
  /\ stops' = stops + 1
  /\ UNCHANGED <<world, disk, queue, attempt, resets>>
\* Mutant: the writer is not awaited.
DrainedAtOnce == up = "draining" /\ GoDown /\ UNCHANGED stops
\* The writer has ended and the process exits.
Drained == up = "draining" /\ queue = <<>> /\ GoDown /\ UNCHANGED stops
\* Mutant: the writer is awaited without a time limit.
DrainUntimed == up = "draining" /\ queue = <<>> /\ GoDown /\ UNCHANGED stops
\* The writer has not ended after 120 s: the process exits with what is still queued.
DrainTimeout == up = "draining" /\ queue # <<>> /\ GoDown /\ UNCHANGED stops
Crash == up = "serving" /\ stops < MaxStops /\ GoDown /\ stops' = stops + 1

\* Mutant: ids continue after the open orders only.
NextIdAfterOpenOrders ==
  IF \E o \in OrderIds : OpenRow(store, current, o)
  THEN 1 + CHOOSE o \in OrderIds : /\ OpenRow(store, current, o)
                                   /\ \A p \in OrderIds : OpenRow(store, current, p) => p <= o
  ELSE 1
\* set_next_order_id(max_order_id + 1)
NextIdAfterStored ==
  IF \E o \in OrderIds : store.rows[o] # NoOrder
  THEN 1 + CHOOSE o \in OrderIds : /\ store.rows[o] # NoOrder
                                   /\ \A p \in OrderIds : store.rows[p] # NoOrder => p <= o
  ELSE 1
\* restore: portfolios, open orders and numbering come from the store.
Start ==
  LET loaded == [a \in Accounts |-> LoadPortfolio(store, a, current[a])] IN
  /\ up = "down"
  /\ \A a \in Accounts : loaded[a].position # "panic"
  /\ up' = "serving"
  /\ cash' = [a \in Accounts |-> loaded[a].cash]
  /\ units' = [a \in Accounts |-> loaded[a].units]
  /\ generation' = current
  /\ orders' = [o \in OrderIds |->
       IF OpenRow(store, current, o)
       THEN [account |-> store.rows[o].account, side |-> store.rows[o].side,
             size |-> store.rows[o].size, filled |-> store.rows[o].filled, status |-> "open"]
       ELSE NoOrder]
  /\ nextId' = NextIdAfterStored
  /\ UNCHANGED <<disk, queue, attempt, resets, stops>>
-----------------------------------------------------------------------------
Init ==
  /\ orders = [o \in OrderIds |-> NoOrder]
  /\ cash = [a \in Accounts |-> Deposit]
  /\ units = [a \in Accounts |-> 0]
  /\ generation = [a \in Accounts |-> 1]
  /\ nextId = 1
  /\ up = "serving" /\ queue = <<>> /\ attempt = 0 /\ resets = {} /\ stops = 0
  /\ store = [rows |-> [o \in OrderIds |-> NoOrder], ledger |-> <<>>]
  /\ current = [a \in Accounts |-> 1]

Trading ==
  \/ \E a \in Accounts, side \in {"buy", "sell"}, size \in Sizes, rests \in BOOLEAN :
       \E taken \in 0 .. size : Place(a, side, size, taken, rests)
  \/ \E o \in OrderIds, q \in Sizes : Fill(o, q)
  \/ \E o \in OrderIds : Close(o)
  \/ \E a \in Accounts : Convert(a, 1)
Writing == Write \/ Refuse \/ LoseAck \/ Reject
Resetting ==
  \/ \E a \in Accounts : ResetStore(a) \/ ResetOffline(a)
  \/ \E r \in resets : ResetBroker(r)
Lifecycle == CloseJournal \/ Drained \/ DrainTimeout \/ Crash \/ Start

Next == Trading \/ Writing \/ Resetting \/ Lifecycle
Spec == Init /\ [][Next]_vars

\* drain waits for the writer or for 120 s, whichever comes first.  Of the writer nothing is
\* assumed: an attempt may wait for the database for ever.
FairSpec == Spec /\ WF_vars(Drained) /\ WF_vars(DrainTimeout)
-----------------------------------------------------------------------------
(* Invariants. *)

\* Types of the code's fields.
TypeOK ==
  /\ orders \in [OrderIds -> Order \cup {NoOrder}]
  /\ cash \in [Accounts -> Int] /\ units \in [Accounts -> Int]
  /\ generation \in [Accounts -> Generations] /\ current \in [Accounts -> Generations]
  /\ nextId \in 1 .. MaxOrders + 1
  /\ up \in {"serving", "draining", "down"}
  /\ queue \in Seq(OrderEntries \cup FillEntries \cup ConversionEntries)
  /\ attempt \in 0 .. Attempts - 1
  /\ resets \subseteq Reset
  /\ store \in [rows : [OrderIds -> Row \cup {NoOrder}],
               ledger : Seq(FillEntries \cup ConversionEntries)]
  /\ stops \in 0 .. MaxStops

\* The store once everything in the queue is written.
WrittenOut ==
  LET s[k \in 0 .. Len(queue)] ==
        IF k = 0 THEN store
        ELSE IF Violates(s[k - 1], queue[k]) THEN s[k - 1] ELSE Commit(s[k - 1], queue[k])
  IN  s[Len(queue)]

\* Memory is always what the store will be: replaying the store with the queue
\* written out gives every account's cash, units and open orders. A restart after
\* a drain therefore finds what was there. (Without dropped or repeated writes.)
StoreCatchesUp ==
  up = "serving" =>
    /\ \A a \in Accounts :
         LET p == LoadPortfolio(WrittenOut, a, generation[a])
         IN  cash[a] = p.cash /\ units[a] = p.units
    /\ \A o \in OrderIds :
         /\ IsOpen(o) <=> OpenRow(WrittenOut, generation, o)
         /\ IsOpen(o) => orders[o].filled = WrittenOut.rows[o].filled

\* Wherever a crash cuts the journal, even between an order and its fill, what
\* would be restored promises no more than it has. (Without dropped or repeated
\* writes.)
CrashSafe ==
  \A a \in Accounts :
    LET p == LoadPortfolio(store, a, current[a])
        open == {o \in OrderIds : OpenRow(store, current, o) /\ store.rows[o].account = a}
    IN  /\ p.cash >= Promised(store.rows, open, "buy")
        /\ p.units >= Promised(store.rows, open, "sell")

\* Nothing is stored under a generation the store does not know yet: after a crash
\* in the middle of a reset no history is found under a generation still to come.
NoFutureGeneration ==
  /\ \A o \in OrderIds : store.rows[o] # NoOrder =>
       store.rows[o].generation <= current[store.rows[o].account]
  /\ \A k \in DOMAIN store.ledger :
       store.ledger[k].generation <= current[store.ledger[k].account]
-----------------------------------------------------------------------------
(* Action properties. *)

\* A stored order keeps what identifies it, never reopens and never loses fills,
\* though writes fail, are repeated or are lost with the process, and though ids are
\* given out anew after a crash.
RowsOnlyAdvance ==
  [][\A o \in OrderIds :
       LET old == store.rows[o]
           new == store'.rows[o]
       IN  old # NoOrder =>
             /\ new.account = old.account /\ new.side = old.side /\ new.size = old.size
             /\ new.generation = old.generation
             /\ new.filled >= old.filled
             /\ old.status # "open" => new = old]_vars
-----------------------------------------------------------------------------
(* Liveness, under FairSpec. *)

\* A drain ends, even when the database never answers an attempt again, and though orders,
\* books and resets go on meanwhile.
DrainEnds == up = "draining" ~> up = "down"
-----------------------------------------------------------------------------
(* What the repository says and the program does not keep. *)

\* "Orders and fills arrive here only after they are persisted" (market.rs): an
\* order or fill that leaves the writer for the bus is in the store.
Persisted(e) ==
  IF e.type = "order"
  THEN store.rows[e.id] # NoOrder /\ store.rows[e.id].filled >= e.order.filled
  ELSE \E k \in DOMAIN store.ledger : store.ledger[k] = e
PublishedIsPersisted ==
  [][up' = up /\ Len(queue') < Len(queue) =>
       \A e \in {Head(queue)} : e.type # "conversion" => Persisted(e)']_vars

\* "sell of a position the broker checked" (ledger.rs): replaying the store never
\* sells what is not there.
SellsArePositions ==
  \A a \in Accounts : LoadPortfolio(store, a, current[a]).position # "panic"

\* Each fill is written in one transaction (the design document): what is stored of
\* an order's fills is never more than the order was filled.
FillsStoredOnce ==
  \A o \in OrderIds :
    LET stored == [k \in 1 .. Len(store.ledger) |->
                     IF store.ledger[k].type = "fill" /\ store.ledger[k].id = o
                     THEN store.ledger[k].qty ELSE 0]
    IN  Total(stored, Len(store.ledger)) > 0 =>
          Total(stored, Len(store.ledger)) <= store.rows[o].filled

\* "Every change is journaled" (the design document).
EveryChangeJournaled ==
  [][up' = up /\ up # "down" /\ generation' = generation
        /\ <<orders, cash, units>>' # <<orders, cash, units>>
       => Len(queue') > Len(queue)]_vars

\* "generation goes up" on a reset (the design document).
GenerationGoesUp ==
  [][up' = up => \A a \in Accounts : generation'[a] >= generation[a]]_vars
=============================================================================
