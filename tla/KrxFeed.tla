------------------------------ MODULE KrxFeed -------------------------------
(***************************************************************************)
(* The KRX feed (KisKrxFeed in feed/kis/mod.rs) for one instrument: the    *)
(* previous close it fetches once a day and attaches to books, the order   *)
(* book that arrives by REST (snapshot) or by the stream, the wait for the *)
(* session, and the broker's copy of the book, whose previous close gives  *)
(* the day's price limits (broker.rs, price_band in venue.rs).             *)
(*                                                                         *)
(* KIS is external: its previous close changes some time before 08:30, and *)
(* it may take any time to answer, as its client sets no time limit.       *)
(*                                                                         *)
(* A definition whose comment begins with Mutant is used by nothing: it is *)
(* the definition after it with a mistake the properties must notice.      *)
(***************************************************************************)
EXTENDS Naturals

CONSTANTS
  Snapshots,   \* calls of snapshot
  MaxDay,      \* bound: the last day; the first is 2, so that a close of the day before has a name
  Drops        \* whether connections fail

KrxFeedAssumption == MaxDay \in Nat \ {0, 1} /\ Drops \in BOOLEAN /\ "stream" \notin Snapshots

VARIABLES
  day, phase,   \* the clock in Seoul
  rolled,       \* KIS shows today's previous close
  prev,         \* KisKrxFeed.prev_close: [day, of], day = 0 when there is none; and, as history,
                \* whether it was 08:30 between the question and its remembering
  calls,        \* the calls that fetch, what they have got so far and, as history, whether it
                \* has been 08:30 since they began
  stream,       \* how far MarketFeed::stream is
  book          \* the broker's book: when it was received and its previous close; history:
                \* `early` is that of the close, `by` is who stored the book

vars == <<day, phase, rolled, prev, calls, stream, book>>

Days == 2 .. MaxDay
Phases == <<"dawn", "morning", "open", "evening">>   \* from 00:00, 08:30, 09:00, 15:30
PhaseNames == {"dawn", "morning", "open", "evening"}
Unknown == 0
Runner == "stream"
Fetchers == Snapshots \cup {Runner}
Idle == [pc |-> "idle", of |-> Unknown, early |-> FALSE]

IsOpen == phase = "open"

prev_close_cacheable == phase # "dawn"

\* The previous close KIS shows, named by the day it belongs to.
Shown == IF rolled THEN day ELSE day - 1

\* Mutant: what was fetched on another day is attached.
AttachedEver == prev.of

\* attach_prev_close: a value remembered today.
Attached == IF prev.day = day THEN prev.of ELSE Unknown

Store(t) ==
  book' = [day |-> day, phase |-> phase, of |-> Attached, early |-> prev.early,
           by |-> IF t = Runner THEN "stream" ELSE IF calls[t].early THEN "late" ELSE "snapshot"]

-----------------------------------------------------------------------------
(* ensure_prev_close: a stream always fetches, a snapshot unless it has today's value. *)

\* Mutant: any remembered value counts.
FetchIfNone(t) ==
  /\ calls[t] = Idle /\ (t = Runner => stream = "prev")
  /\ calls' = [calls EXCEPT ![t].pc = IF t # Runner /\ prev.day # 0 THEN "book" ELSE "ask"]
  /\ UNCHANGED <<day, phase, rolled, prev, stream, book>>

Fetch(t) ==
  /\ calls[t] = Idle /\ (t = Runner => stream = "prev")
  /\ calls' = [calls EXCEPT ![t].pc = IF t # Runner /\ prev.day = day THEN "book" ELSE "ask"]
  /\ UNCHANGED <<day, phase, rolled, prev, stream, book>>

Serve(t) ==
  /\ calls[t].pc = "ask"
  /\ calls' = [calls EXCEPT ![t].pc = "answer", ![t].of = Shown]
  /\ UNCHANGED <<day, phase, rolled, prev, stream, book>>

Remember(t) ==
  /\ calls[t].pc = "answer"
  /\ prev' = IF prev_close_cacheable THEN [day |-> day, of |-> calls[t].of, early |-> calls[t].early]
             ELSE prev
  /\ calls' = [calls EXCEPT ![t] = IF t = Runner THEN Idle ELSE [@ EXCEPT !.pc = "book"]]
  /\ stream' = IF t = Runner THEN "up" ELSE stream
  /\ UNCHANGED <<day, phase, rolled, book>>

\* snapshot: the book arrives and the market hands it to the broker.
SnapshotBook(t) ==
  /\ t # Runner /\ calls[t].pc = "book"
  /\ Store(t)
  /\ calls' = [calls EXCEPT ![t] = Idle]
  /\ UNCHANGED <<day, phase, rolled, prev, stream>>

\* A request fails; the stream's error ends the stream.
Fails(t) ==
  /\ Drops /\ calls[t] # Idle
  /\ calls' = [calls EXCEPT ![t] = Idle]
  /\ stream' = IF t = Runner THEN "down" ELSE stream
  /\ UNCHANGED <<day, phase, rolled, prev, book>>

\* run_feed starts a stream, which waits until the session it has computed opens.
StreamStarts ==
  /\ stream = "down"
  /\ stream' = IF IsOpen THEN "prev" ELSE "closed"
  /\ UNCHANGED <<day, phase, rolled, prev, calls, book>>

\* Mutant: the wait ends at once.
WaitNotAtAll ==
  /\ stream = "closed"
  /\ stream' = "prev"
  /\ UNCHANGED <<day, phase, rolled, prev, calls, book>>

wait_for_session ==
  /\ stream = "closed" /\ IsOpen
  /\ stream' = "prev"
  /\ UNCHANGED <<day, phase, rolled, prev, calls, book>>

\* A book of the regular session; the frames of other hour classes are skipped.
StreamBook ==
  /\ stream = "up" /\ IsOpen
  /\ Store(Runner)
  /\ UNCHANGED <<day, phase, rolled, prev, calls, stream>>

StreamDrops ==
  /\ Drops /\ stream = "up"
  /\ stream' = "down"
  /\ UNCHANGED <<day, phase, rolled, prev, calls, book>>

-----------------------------------------------------------------------------
Roll ==
  /\ phase = "dawn" /\ ~ rolled
  /\ rolled' = TRUE
  /\ UNCHANGED <<day, phase, prev, calls, stream, book>>

\* The next phase of the day.  A stream that waits wakes before the session is over.
Advance ==
  /\ IsOpen => stream # "closed"
  /\ calls' = [t \in Fetchers |->
                [calls[t] EXCEPT !.early = @ \/ (phase = "dawn" /\ calls[t].pc # "idle")]]
  /\ IF phase = "evening"
     THEN day < MaxDay /\ day' = day + 1 /\ phase' = "dawn" /\ rolled' = FALSE
     ELSE /\ phase = "dawn" => rolled
          /\ \E k \in 1 .. 3 : phase = Phases[k] /\ phase' = Phases[k + 1]
          /\ UNCHANGED <<day, rolled>>
  /\ UNCHANGED <<prev, stream, book>>

Init ==
  /\ day = 2 /\ phase \in PhaseNames /\ rolled = (phase # "dawn")
  /\ prev = [day |-> 0, of |-> Unknown, early |-> FALSE]
  /\ calls = [t \in Fetchers |-> Idle]
  /\ stream = "down"
  /\ book = [day |-> 0, phase |-> "dawn", of |-> Unknown, early |-> FALSE, by |-> "stream"]

Next ==
  \/ \E t \in Fetchers : Fetch(t) \/ Serve(t) \/ Remember(t) \/ SnapshotBook(t) \/ Fails(t)
  \/ StreamStarts \/ wait_for_session \/ StreamBook \/ StreamDrops
  \/ Roll \/ Advance

Spec == Init /\ [][Next]_vars

(***************************************************************************)
(* Properties.                                                             *)
(***************************************************************************)
TypeOK ==
  /\ day \in Days /\ phase \in PhaseNames /\ rolled \in BOOLEAN
  /\ prev \in [day : 0 .. MaxDay, of : 0 .. MaxDay, early : BOOLEAN]
  /\ calls \in [Fetchers -> [pc : {"idle", "ask", "answer", "book"}, of : 0 .. MaxDay, early : BOOLEAN]]
  /\ stream \in {"down", "closed", "prev", "up"}
  /\ book \in [day : 0 .. MaxDay, phase : PhaseNames, of : 0 .. MaxDay, early : BOOLEAN,
              by : {"stream", "snapshot", "late"}]

\* A book carries the previous close of its own day, whatever was remembered on the days
\* before and whatever call was under way over midnight.  One exception the code has: a value
\* asked for before 08:30 and remembered after it may be of an earlier day (CloseIsOfItsDay,
\* below), and only such a value.
NoCloseOfAnotherDay == book.of # Unknown /\ ~ book.early => book.of = book.day

\* From the open on every book a snapshot stores has a previous close, so the price
\* limits hold on it, although the fetch and the book are two requests; unless the
\* snapshot began before 08:30, when its fetch may have been too soon to be remembered.
SnapshotHasLimits ==
  book.by = "snapshot" /\ book.phase \in {"open", "evening"} => book.of # Unknown

\* (violated) "Values fetched before the morning rollover are not cached."
CloseIsOfItsDay == prev.of = prev.day

\* (violated) "KRX daily price limit": a book of the session has a previous close to compute
\* the limits from.
SessionHasLimits == book.phase = "open" /\ book.day # 0 => book.of # Unknown
=============================================================================
