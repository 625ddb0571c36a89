----------------------------- MODULE VenueStream ----------------------------
(***************************************************************************)
(* From a venue's WebSocket to the broker: the loops of UpbitFeed::stream, *)
(* BinanceFeed::stream and stream_ws (KIS), the frames they parse, the     *)
(* bounded channel they send to and the pump behind it, for a stream of    *)
(* one instrument.                                                         *)
(*                                                                         *)
(* The venue is external: it numbers its prints and the versions of its    *)
(* book, sends each once, begins a stream with the book as it is and holds *)
(* auctions in which it shows a book nobody trades at.  Which instruments  *)
(* are streamed and when is module Subscriptions; the previous close and   *)
(* the wait for the session are in KrxFeed.                                *)
(*                                                                         *)
(* A definition whose comment begins with Mutant is used by nothing: it is *)
(* the definition after it with a mistake the properties must notice.      *)
(***************************************************************************)
EXTENDS Integers, Sequences, SequencesExt

CONSTANTS
  Venue,        \* "upbit", "binance" or "kis"
  Capacity,     \* of the channel to the pump
  MaxPrints,    \* bound: prints
  MaxVersion,   \* bound: versions of the book
  MaxOddities,  \* bound: unreadable, refusing, pinging and other frames, closes, breaks and silences
  MaxWire       \* bound: frames under way

VenueStreamAssumption ==
  /\ Venue \in {"upbit", "binance", "kis"}
  /\ {Capacity, MaxWire} \subseteq Nat \ {0} /\ {MaxPrints, MaxVersion, MaxOddities} \subseteq Nat

VARIABLES
  printed,  \* the venue: prints so far
  shown,    \* its book: version, and whether in an auction
  link,     \* "down", "up" or "dead": the peer is gone and nobody said so
  wire,     \* frames under way to us
  pings,    \* pings to be answered
  sending,  \* what the loop has parsed and not yet sent
  channel,  \* to the pump
  book,     \* the broker: the book it has
  trades,   \* the broker: the prints it was given
  lost,     \* history: prints made or under way while no stream was read, and an auction's
  odd       \* number of oddities so far

venue == <<printed, shown, odd>>
loop == <<link, wire, pings, sending, lost>>
vars == <<venue, loop, channel, book, trades>>

Book(s) == [is |-> "book", n |-> s.version, auction |-> s.auction]
Trade(n, a) == [is |-> "trade", n |-> n, auction |-> a]
Data(events) == [kind |-> "data", events |-> events]
Control(kind) == [kind |-> kind, events |-> <<>>]
Odd == odd < MaxOddities /\ odd' = odd + 1
PrintsIn(events) == {events[k].n : k \in {j \in DOMAIN events : events[j].is = "trade"}}
PrintsOf(frames) == UNION {PrintsIn(frames[k].events) : k \in DOMAIN frames}

(***************************************************************************)
(* Frames: the events of one, in order.                                    *)
(***************************************************************************)

\* An object whose type is neither orderbook nor trade is no event.
UpbitEvents(f) == f.events

\* A stream that is neither depth nor trade is no event.
BinanceEvents(f) == f.events

\* Mutant: an auction's book passes for one to trade at.
AnyHour(e) == TRUE

\* The hour class of a record.
RegularHours(e) == e.auction = "no"

\* The loop over the records of a frame.
Kept(events) ==
  LET kept[k \in 0 .. Len(events)] ==
        IF k = 0 THEN <<>>
        ELSE IF RegularHours(events[k]) THEN Append(kept[k - 1], events[k]) ELSE kept[k - 1]
  IN  kept[Len(events)]

\* Mutant: a frame is taken for one record.
FirstRecord(f) == Kept(IF f.events = <<>> THEN <<>> ELSE <<Head(f.events)>>)

KisEvents(f) == Kept(f.events)

Events(f) ==
  CASE Venue = "upbit" -> UpbitEvents(f)
    [] Venue = "binance" -> BinanceEvents(f)
    [] Venue = "kis" -> KisEvents(f)

(***************************************************************************)
(* The venue.                                                              *)
(***************************************************************************)
Push(f) == wire' = IF link = "up" THEN Append(wire, f) ELSE wire

Unread(ns) == lost' = IF link = "up" /\ shown.auction = "no" THEN lost ELSE lost \cup ns

Prints ==
  /\ printed < MaxPrints /\ Len(wire) < MaxWire
  /\ printed' = printed + 1
  /\ Push(Data(<<Trade(printed + 1, shown.auction)>>))
  /\ Unread({printed + 1})
  /\ UNCHANGED <<shown, odd, link, pings, sending, channel, book, trades>>

\* KIS puts several records into a frame.
PrintsTwice ==
  /\ Venue = "kis" /\ printed + 1 < MaxPrints /\ Len(wire) < MaxWire
  /\ printed' = printed + 2
  /\ Push(Data(<<Trade(printed + 1, shown.auction), Trade(printed + 2, shown.auction)>>))
  /\ Unread({printed + 1, printed + 2})
  /\ UNCHANGED <<shown, odd, link, pings, sending, channel, book, trades>>

Moves(a) ==
  /\ shown.version < MaxVersion /\ Len(wire) < MaxWire
  /\ a = "yes" => Venue = "kis"
  /\ shown' = [version |-> shown.version + 1, auction |-> a]
  /\ Push(Data(<<Book(shown')>>))
  /\ UNCHANGED <<printed, odd, link, pings, sending, lost, channel, book, trades>>

Says(kind) ==
  /\ Odd /\ link = "up" /\ Len(wire) < MaxWire
  /\ kind = "ping" => Venue = "kis"
  /\ wire' = Append(wire, Control(kind))
  /\ UNCHANGED <<printed, shown, link, pings, sending, lost, channel, book, trades>>

\* Mutant: frames of the lost connection are read after the next.
DownKeeping(from) ==
  /\ link' = "down" /\ pings' = 0 /\ wire' = from
  /\ lost' = lost \cup PrintsOf(from)

\* What was under way is lost with the connection.
Down(from) ==
  /\ link' = "down" /\ wire' = <<>> /\ pings' = 0
  /\ lost' = lost \cup PrintsOf(from)

Breaks ==
  /\ Odd /\ link = "up" /\ sending = <<>>
  /\ Down(wire)
  /\ UNCHANGED <<printed, shown, sending, channel, book, trades>>

\* run_feed: another set to stream drops the stream where it waits.
Restarts ==
  /\ Odd /\ link # "down"
  /\ link' = "down" /\ wire' = <<>> /\ pings' = 0 /\ sending' = <<>>
  /\ lost' = lost \cup PrintsOf(wire) \cup PrintsIn(sending)
  /\ UNCHANGED <<printed, shown, channel, book, trades>>

Dies ==
  /\ Odd /\ link = "up" /\ link' = "dead"
  /\ UNCHANGED <<printed, shown, wire, pings, sending, lost, channel, book, trades>>

(***************************************************************************)
(* The loop of stream.                                                     *)
(***************************************************************************)
Connect ==
  /\ link = "down" /\ sending = <<>>
  /\ link' = "up" /\ wire' = <<Data(<<Book(shown)>>)>>
  /\ UNCHANGED <<venue, pings, sending, lost, channel, book, trades>>

\* Upbit and Binance: an unreadable frame ends the stream.  KIS: it is skipped.
Skips(kind) == kind = "other" \/ (kind = "bad" /\ Venue = "kis")

Read ==
  /\ wire # <<>> /\ sending = <<>> /\ pings = 0
  /\ LET f == Head(wire)
     IN  IF f.kind = "data" \/ Skips(f.kind) \/ f.kind = "ping"
         THEN /\ wire' = Tail(wire)
              /\ sending' = Events(f)
              /\ pings' = IF f.kind = "ping" THEN 1 ELSE 0
              /\ UNCHANGED <<link, lost>>
         ELSE Down(Tail(wire)) /\ UNCHANGED sending
  /\ UNCHANGED <<venue, channel, book, trades>>

Pong ==
  /\ pings > 0 /\ pings' = 0
  /\ UNCHANGED <<venue, link, wire, sending, lost, channel, book, trades>>

\* Mutant: an event that finds the channel full is dropped.
TrySend ==
  /\ sending # <<>>
  /\ sending' = Tail(sending)
  /\ channel' = IF Len(channel) < Capacity THEN Append(channel, Head(sending)) ELSE channel
  /\ UNCHANGED <<venue, link, wire, pings, lost, book, trades>>

\* Mutant: what fills the channel up is sent again.
SendAgain ==
  /\ sending # <<>> /\ Len(channel) < Capacity
  /\ sending' = IF Len(channel) + 1 = Capacity THEN sending ELSE Tail(sending)
  /\ channel' = Append(channel, Head(sending))
  /\ UNCHANGED <<venue, link, wire, pings, lost, book, trades>>

\* tx.send waits for room.
Send ==
  /\ sending # <<>> /\ Len(channel) < Capacity
  /\ sending' = Tail(sending)
  /\ channel' = Append(channel, Head(sending))
  /\ UNCHANGED <<venue, link, wire, pings, lost, book, trades>>

\* Mutant: only a stream that was up times out.
IdleUp == link = "up" /\ wire = <<>>

\* next_or_idle: nothing has come for IDLE_TIMEOUT.
Idle == link \in {"up", "dead"} /\ wire = <<>>

TimesOut ==
  /\ Idle /\ sending = <<>> /\ pings = 0
  /\ link = "up" => Odd
  /\ link = "dead" => UNCHANGED odd
  /\ Down(wire)
  /\ UNCHANGED <<printed, shown, sending, channel, book, trades>>

\* Mutant: the newest event first.
PumpNewest ==
  /\ channel # <<>> /\ channel' = Front(channel)
  /\ LET e == Last(channel)
     IN  IF e.is = "book"
         THEN book' = [version |-> e.n, auction |-> e.auction] /\ UNCHANGED trades
         ELSE trades' = Append(trades, e.n) /\ UNCHANGED book
  /\ UNCHANGED <<venue, loop>>

Pump ==
  /\ channel # <<>> /\ channel' = Tail(channel)
  /\ LET e == Head(channel)
     IN  IF e.is = "book"
         THEN book' = [version |-> e.n, auction |-> e.auction] /\ UNCHANGED trades
         ELSE trades' = Append(trades, e.n) /\ UNCHANGED book
  /\ UNCHANGED <<venue, loop>>

\* KIS by REST (krx_book): ten levels and no hour class.
Snapshot ==
  /\ Venue = "kis" /\ book # shown
  /\ book' = shown
  /\ UNCHANGED <<venue, loop, channel, trades>>

Init ==
  /\ printed = 0 /\ shown = [version |-> 0, auction |-> "no"] /\ odd = 0
  /\ link = "down" /\ wire = <<>> /\ pings = 0 /\ sending = <<>> /\ lost = {}
  /\ channel = <<>> /\ trades = <<>>
  /\ book = [version |-> -1, auction |-> "no"]

Streaming ==
  \/ Prints \/ PrintsTwice \/ Breaks \/ Restarts \/ Dies \/ Connect \/ Read \/ Pong \/ Send \/ TimesOut \/ Pump
  \/ \E a \in {"no", "yes"} : Moves(a)
  \/ \E kind \in {"other", "bad", "close", "ping"} : Says(kind)

Next == Streaming \/ Snapshot

Fairness ==
  /\ WF_vars(Connect) /\ WF_vars(Read) /\ WF_vars(Pong) /\ WF_vars(Send) /\ WF_vars(Pump)
  /\ WF_vars(TimesOut /\ link = "dead")

\* Without snapshots.
Spec == Init /\ [][Streaming]_vars /\ Fairness

WithSnapshots == Init /\ [][Next]_vars

(***************************************************************************)
(* Properties.                                                             *)
(***************************************************************************)
TypeOK ==
  /\ link \in {"down", "up", "dead"} /\ pings \in 0 .. 1
  /\ Len(channel) <= Capacity /\ Len(sending) <= 2
  /\ book.version <= shown.version
  /\ link = "down" => wire = <<>>

Increasing(s) == \A j, k \in DOMAIN s : j < k => s[j] < s[k]

\* Orders fill from prints: each reaches the broker at most once and in the order it
\* was made, across reconnects, a slow pump and frames of several records; and the book
\* never goes back.
PrintsInOrder == Increasing(trades)

BookForward == [][book'.version >= book.version]_vars

\* Every print made in regular hours is with the broker or on its way there, or was made
\* or under way when the connection was lost: no frame that is read drops one, whatever
\* the pump's pace.
NoPrintDropped ==
  1 .. printed =
    Range(trades) \cup PrintsIn(channel) \cup PrintsIn(sending) \cup PrintsOf(wire) \cup lost

\* A connection that is dead without a word is noticed.
DeadIsNoticed == link = "dead" ~> link = "down"

\* When the venue has fallen silent, the broker has its book, whatever broke before.
BookCatchesUp == <>[](book.version = shown.version \/ shown.auction = "yes")

\* (violated with snapshots) The broker is given no book of an auction.
NoAuctionBooks == book.auction = "no"
=============================================================================
