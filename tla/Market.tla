------------------------------- MODULE Market -------------------------------
(***************************************************************************)
(* How one instrument's order book reaches an order (market.rs, the tools  *)
(* in tools/mod.rs): the stream's books go through a queue and the pump to *)
(* the broker; a call that wants fresh data (ensure_fresh) loads the       *)
(* statistics, looks at the age of the book and fetches a snapshot over    *)
(* REST when it is too old; then the tool quotes or places the order.      *)
(*                                                                         *)
(* A book is the exchange's version it shows and the time it was received. *)
(* now counts SECOND ticks per second.  What needs no waiting takes no     *)
(* time; a book waits at most Lag for the pump.  Which instruments are     *)
(* streamed is module Subscriptions, what a book does to orders Broker.    *)
(*                                                                         *)
(* A definition whose comment begins with Mutant is used by nothing: it is *)
(* the definition after it with a mistake the properties must notice.      *)
(***************************************************************************)
EXTENDS Integers, Sequences

CONSTANTS
  Callers,     \* tool calls handled at the same time
  Asks,        \* the tool each of them calls, "quote" or "order"
  SECOND,      \* ticks per second
  FRESH,       \* seconds a book may be old for ensure_fresh (2)
  STALE,       \* seconds a book may be old for an order (5)
  Lag,         \* ticks a received book waits for the pump
  RestFails,   \* whether requests may fail
  QueueSize,   \* bound: books waiting for the pump; the stream is idle when it is reached
  MaxNow,      \* bound: ticks
  MaxVersion   \* bound: changes of the exchange's book

MarketAssumption ==
  /\ Asks \in [Callers -> {"quote", "order"}] /\ RestFails \in BOOLEAN
  /\ {SECOND, MaxVersion, QueueSize} \subseteq Nat \ {0} /\ {FRESH, STALE, Lag, MaxNow} \subseteq Nat

VARIABLES
  now,
  moved,      \* the exchange: when its book got to version 1, 2, ...
  connected,  \* whether the stream is up
  queue,      \* the channel to the pump
  book,       \* the broker's book of the instrument
  listed,     \* whether the venue's instruments were loaded
  stats,      \* the broker's daily statistics
  callers,    \* what each call is at, and what its requests hold
  result      \* what the last call answered

world == <<now, moved, connected, queue, listed>>
vars == <<world, book, stats, callers, result>>

NoBook == [version |-> 0, at |-> 0]
Idle == [at |-> "idle", kind |-> "none", read |-> NoBook, error |-> "no"]
None == [kind |-> "none", outcome |-> "none", age |-> 0]
Version == Len(moved)
Age == now - book.at
Go(c, step) == callers' = [callers EXCEPT ![c].at = step]
Answer(kind, outcome) ==
  result' = [kind |-> kind, outcome |-> outcome, age |-> Age]

(***************************************************************************)
(* The exchange, the stream and the pump.                                  *)
(***************************************************************************)
Moves ==
  /\ Version < MaxVersion /\ Len(queue) < QueueSize
  /\ moved' = Append(moved, now)
  /\ queue' = IF connected THEN Append(queue, [version |-> Version + 1, at |-> now]) ELSE queue
  /\ UNCHANGED <<now, connected, listed, book, stats, callers, result>>

\* A new stream begins with the book as it is.
Reconnect ==
  /\ ~connected /\ Len(queue) < QueueSize
  /\ connected' = TRUE
  /\ queue' = Append(queue, [version |-> Version, at |-> now])
  /\ UNCHANGED <<now, moved, listed, book, stats, callers, result>>

Disconnect ==
  /\ connected /\ connected' = FALSE
  /\ UNCHANGED <<now, moved, queue, listed, book, stats, callers, result>>

Pump ==
  /\ queue # << >>
  /\ book' = Head(queue) /\ queue' = Tail(queue)
  /\ UNCHANGED <<now, moved, connected, listed, stats, callers, result>>

Passes ==
  /\ now < MaxNow /\ now' = now + 1
  /\ \A k \in DOMAIN queue : now - queue[k].at < Lag
  /\ \A c \in Callers : callers[c].at \notin {"check", "store", "finish"}
  /\ UNCHANGED <<moved, connected, queue, listed, book, stats, callers, result>>

(***************************************************************************)
(* A call: ensure_fresh, then the tool.                                    *)
(***************************************************************************)
Call(c) ==
  /\ callers[c].at = "idle"
  /\ IF listed
     THEN /\ callers' = [callers EXCEPT ![c] =
               [Idle EXCEPT !.at = IF stats = "none" THEN "stats" ELSE "check", !.kind = Asks[c]]]
          /\ UNCHANGED result
     ELSE Answer(Asks[c], "unknown") /\ UNCHANGED callers
  /\ UNCHANGED <<world, book, stats>>

\* A failure leaves the defaults; the next call tries again.
StatsCome(c) ==
  /\ callers[c].at = "stats"
  /\ stats' \in {"loaded"} \cup {s \in {stats} : RestFails}
  /\ Go(c, "check")
  /\ UNCHANGED <<world, book, result>>

\* Mutant: an order's limit is taken for the age of a fresh book.
FreshAsOrders(age) == age <= (STALE + 1) * SECOND

Fresh(age) == age <= FRESH * SECOND

Check(c) ==
  /\ callers[c].at = "check"
  /\ callers' = [callers EXCEPT ![c].at =
       IF book.version # 0 /\ Fresh(Age) THEN "finish" ELSE "ask"]
  /\ UNCHANGED <<world, book, stats, result>>

\* The exchange makes the answer.
Served(c) ==
  /\ callers[c].at = "ask"
  /\ callers' = [callers EXCEPT ![c].at = "rest", ![c].read = [version |-> Version, at |-> now]]
  /\ UNCHANGED <<world, book, stats, result>>

\* Mutant: a snapshot is stamped in another unit of time.
StampedMillis(made) == [made EXCEPT !.at = 1000 * now]

\* Mutant: a snapshot is stamped with the time it was made.
AsMade(made) == made

Stamped(made) == [made EXCEPT !.at = now]

Received(c) ==
  /\ callers[c].at = "rest"
  /\ callers' = [callers EXCEPT ![c].at = "store", ![c].read = Stamped(callers[c].read)]
  /\ UNCHANGED <<world, book, stats, result>>

Store(c) ==
  /\ callers[c].at = "store"
  /\ book' = callers[c].read
  /\ callers' = [callers EXCEPT ![c].at = "finish", ![c].read = NoBook]
  /\ UNCHANGED <<world, stats, result>>

\* A quote is answered all the same, and tells the error.
Fails(c) ==
  /\ RestFails /\ callers[c].at \in {"ask", "rest"}
  /\ IF callers[c].kind = "quote"
     THEN /\ callers' = [callers EXCEPT ![c].at = "finish", ![c].read = NoBook, ![c].error = "yes"]
          /\ UNCHANGED result
     ELSE /\ callers' = [callers EXCEPT ![c] = Idle]
          /\ Answer("order", "upstream")
  /\ UNCHANGED <<world, book, stats>>

\* Whole seconds, truncated.
Marked(age) == age \div SECOND > STALE

Outcome(c, stale) ==
  CASE book.version = 0 -> "no data"
    [] stale -> "stale"
    [] callers[c].error = "yes" -> "fair, with error"
    [] OTHER -> "fair"

Quote(c) ==
  /\ callers[c].at = "finish" /\ callers[c].kind = "quote"
  /\ callers' = [callers EXCEPT ![c] = Idle]
  /\ Answer("quote", Outcome(c, Marked(Age)))
  /\ UNCHANGED <<world, book, stats>>

Place(c) ==
  /\ callers[c].at = "finish" /\ callers[c].kind = "order"
  /\ callers' = [callers EXCEPT ![c] = Idle]
  /\ Answer("order", Outcome(c, Age > STALE * SECOND))
  /\ UNCHANGED <<world, book, stats>>

Init ==
  /\ now = 0
  /\ moved = <<0>> /\ connected = FALSE /\ queue = << >>
  /\ book = NoBook /\ stats = "none"
  /\ listed \in {TRUE} \cup {l \in {FALSE} : RestFails}
  /\ callers = [c \in Callers |-> Idle] /\ result = None

Next ==
  \/ Moves \/ Reconnect \/ Disconnect \/ Pump \/ Passes
  \/ \E c \in Callers :
       \/ StatsCome(c) \/ Check(c) \/ Served(c) \/ Received(c) \/ Store(c) \/ Fails(c)
       \/ Quote(c) \/ Place(c) \/ Call(c)

Spec == Init /\ [][Next]_vars

(***************************************************************************)
(* Properties.                                                             *)
(***************************************************************************)
Books == [version : 0 .. MaxVersion, at : 0 .. MaxNow]

TypeOK ==
  /\ book \in Books /\ Version \in 1 .. MaxVersion
  /\ \A k \in DOMAIN queue : queue[k] \in Books
  /\ \A c \in Callers :
       /\ callers[c].at \in {"idle", "stats", "check", "ask", "rest", "store", "finish"}
       /\ callers[c].read \in Books /\ callers[c].error \in {"yes", "no"}
  /\ stats \in {"none", "loaded"}

\* The margin between 2 s and 5 s is enough: when requests succeed and the pump keeps
\* up, no order is refused for stale data, whatever the stream does meanwhile.
NoNeedlessRefusal == result.kind = "order" => result.outcome \notin {"stale", "no data"}

\* A book is replaced by one received earlier only by what waited for the pump: the
\* answer to a slow request is no older than it says.
HardlyBack == [][book'.at >= book.at - Lag]_vars

\* (violated) A quote that is not marked stale is one whose order would be taken.
QuoteHonest ==
  result.kind = "quote" /\ result.outcome \in {"fair", "fair, with error"} => result.age <= STALE * SECOND

\* (violated) A call that was given fresh data shows a book the exchange has not
\* replaced for longer than FRESH.
EnsuredFresh ==
  [][\A c \in Callers : Quote(c) /\ result'.outcome = "fair" /\ book.version < Version
       => now - moved[book.version + 1] <= FRESH * SECOND]_vars

\* (violated) No order is executed while the stream is down.
DownRefuses ==
  [][\A c \in Callers : Place(c) /\ result'.outcome = "fair" => connected]_vars
=============================================================================
