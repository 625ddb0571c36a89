--------------------------- MODULE Subscriptions ----------------------------
(***************************************************************************)
(* Which instruments one venue's feed streams (src/subs.rs), who decides   *)
(* it (Market::refresh_pins and ensure_fresh, the timer of cli.rs) and the *)
(* task that keeps the feed streaming them (run_feed in feed/mod.rs).      *)
(*                                                                         *)
(* Calls run in parallel; a call's step is what it does under one lock.    *)
(* Instruments are numbers in the order of their names.  The market object *)
(* and the event pump live as long as the process, so the returns of       *)
(* run_feed when either is gone are left out.                              *)
(*                                                                         *)
(* A definition whose comment begins with Mutant is used by nothing: it is *)
(* the definition after it with a mistake the properties must notice.      *)
(***************************************************************************)
EXTENDS Naturals, Sequences

CONSTANTS
  Instruments,   \* a set of numbers
  Cap,           \* the feed's cap
  Callers,       \* tasks that call into Market besides the timer
  Sorted,        \* a set of instruments, listed in their order
  MaxBackoff,    \* the longest wait between streams (60 s)
  MaxChanges     \* bound: changes of exposure, watched instruments and touches

ASSUME SubscriptionsAssumption ==
  /\ Cap \in Nat /\ MaxChanges \in Nat /\ MaxBackoff \in Nat \ {0}
  /\ Sorted \in [SUBSET Instruments -> Seq(Instruments)]

VARIABLES
  exposed,    \* SimBroker::active_instruments: positions and resting orders
  extra,      \* Market.extra: instruments alerts watch
  pinned,     \* Subscriptions.pinned
  recent,     \* Subscriptions.recent
  published,  \* the value of the watch channel
  unseen,     \* the channel changed since run_feed last looked
  calls,      \* calls under way, and what they have read so far
  feed,       \* where run_feed is, and what it streams
  backoff,    \* run_feed's local
  changes     \* number of changes so far

lists == <<exposed, extra, pinned, recent>>
channel == <<published, unseen>>
runner == <<feed, backoff>>
vars == <<lists, channel, calls, runner, changes>>

Tasks == Callers \cup {"timer"}
Idle == [pc |-> "none", ids |-> <<>>]
In(x, s) == \E k \in DOMAIN s : s[k] = x

\* Mutant: the cap is tested after the push.
PushOver(out, id) == IF Len(out) > Cap \/ In(id, out) THEN out ELSE Append(out, id)

Push(out, id) == IF Len(out) >= Cap \/ In(id, out) THEN out ELSE Append(out, id)

\* What the first k of all leave in the set, for each k.
Pushed(all) ==
  LET out[k \in 0 .. Len(all)] == IF k = 0 THEN <<>> ELSE Push(out[k - 1], all[k])
  IN  out

select(pins, queries) == Pushed(pins \o queries)[Len(pins \o queries)]

(***************************************************************************)
(* The calls.  refresh_pins reads what is active, then the watched         *)
(* instruments, then stores the pins; touch stores the query; both publish.*)
(***************************************************************************)
Change == changes < MaxChanges /\ changes' = changes + 1

\* s without id (Vec::retain).
Without(s, id) ==
  LET kept[k \in 0 .. Len(s)] ==
        IF k = 0 THEN <<>> ELSE IF s[k] = id THEN kept[k - 1] ELSE Append(kept[k - 1], s[k])
  IN  kept[Len(s)]

Truncated(s) == IF Len(s) > Cap THEN SubSeq(s, 1, Cap) ELSE s

Touch(t, id) ==
  /\ t # "timer" /\ calls[t] = Idle /\ Change
  /\ recent' = Truncated(<<id>> \o Without(recent, id))
  /\ calls' = [calls EXCEPT ![t].pc = "publish"]
  /\ UNCHANGED <<exposed, extra, pinned, channel, runner>>

SetExtra(t, ids) ==
  /\ t # "timer" /\ calls[t] = Idle /\ Change
  /\ extra' = Sorted[ids]
  /\ calls' = [calls EXCEPT ![t].pc = "refresh"]
  /\ UNCHANGED <<exposed, pinned, recent, channel, runner>>

ReadActive(t) ==
  /\ calls[t] = Idle \/ calls[t].pc = "refresh"
  /\ calls' = [calls EXCEPT ![t] = [pc |-> "active", ids |-> Sorted[exposed]]]
  /\ UNCHANGED <<lists, channel, runner, changes>>

ReadExtra(t) ==
  /\ calls[t].pc = "active"
  /\ calls' = [calls EXCEPT ![t] = [pc |-> "pin", ids |-> @.ids \o extra]]
  /\ UNCHANGED <<lists, channel, runner, changes>>

Pin(t) ==
  /\ calls[t].pc = "pin"
  /\ pinned' = calls[t].ids
  /\ calls' = [calls EXCEPT ![t].pc = "publish"]
  /\ UNCHANGED <<exposed, extra, recent, channel, runner, changes>>

Compute(t) ==
  /\ calls[t].pc = "publish"
  /\ calls' = [calls EXCEPT ![t] = [pc |-> "send", ids |-> select(pinned, recent)]]
  /\ UNCHANGED <<lists, channel, runner, changes>>

\* Mutant: the receiver is told only of the first set.
SendQuietly(t) ==
  /\ calls[t].pc = "send"
  /\ published' = calls[t].ids
  /\ unseen' = (unseen \/ (published = <<>> /\ calls[t].ids # <<>>))
  /\ calls' = [calls EXCEPT ![t] = Idle]
  /\ UNCHANGED <<lists, runner, changes>>

Send(t) ==
  /\ calls[t].pc = "send"
  /\ published' = calls[t].ids
  /\ unseen' = (unseen \/ calls[t].ids # published)
  /\ calls' = [calls EXCEPT ![t] = Idle]
  /\ UNCHANGED <<lists, runner, changes>>

\* Orders and fills open and close exposure; the broker tells nobody here.
Expose(ids) ==
  /\ ids # exposed /\ Change
  /\ exposed' = ids
  /\ UNCHANGED <<extra, pinned, recent, channel, calls, runner>>

(***************************************************************************)
(* run_feed.                                                               *)
(***************************************************************************)
Top ==
  /\ feed.pc = "top"
  /\ feed' = IF published = <<>> THEN [pc |-> "empty", ids |-> <<>>]
                                 ELSE [pc |-> "stream", ids |-> published]
  /\ unseen' = FALSE
  /\ UNCHANGED <<lists, published, calls, backoff, changes>>

Waken ==
  /\ feed.pc = "empty" /\ unseen
  /\ feed' = [feed EXCEPT !.pc = "top"]
  /\ unseen' = FALSE
  /\ UNCHANGED <<lists, published, calls, backoff, changes>>

\* A change drops the stream, or cuts the wait between two streams short.
Changed ==
  /\ feed.pc \in {"stream", "wait", "settle"} /\ unseen
  /\ feed' = [pc |-> "settle", ids |-> <<>>]
  /\ unseen' = FALSE
  /\ UNCHANGED <<lists, published, calls, backoff, changes>>

\* Mutant: the stream resumes with a set that is not the newest.
SettledResume ==
  /\ feed.pc = "settle"
  /\ feed' = [pc |-> "stream", ids |-> pinned]
  /\ UNCHANGED <<lists, channel, calls, backoff, changes>>

\* Nothing has changed for SETTLE.
Settled ==
  /\ feed.pc = "settle"
  /\ feed' = [feed EXCEPT !.pc = "top"]
  /\ UNCHANGED <<lists, channel, calls, backoff, changes>>

\* The stream ends by itself, after more than a minute or sooner.
Ended ==
  /\ feed.pc = "stream"
  /\ feed' = [pc |-> "wait", ids |-> <<>>]
  /\ \E since \in {1, backoff} :
       backoff' = IF 2 * since > MaxBackoff THEN MaxBackoff ELSE 2 * since
  /\ UNCHANGED <<lists, channel, calls, changes>>

Waited ==
  /\ feed.pc = "wait"
  /\ feed' = [feed EXCEPT !.pc = "top"]
  /\ UNCHANGED <<lists, channel, calls, backoff, changes>>

-----------------------------------------------------------------------------
Init ==
  /\ exposed = {} /\ extra = <<>> /\ pinned = <<>> /\ recent = <<>>
  /\ published = <<>> /\ unseen = FALSE
  /\ calls = [t \in Tasks |-> Idle]
  /\ feed = [pc |-> "top", ids |-> <<>>] /\ backoff = 1
  /\ changes = 0

Call(t) == ReadActive(t) \/ ReadExtra(t) \/ Pin(t) \/ Compute(t) \/ Send(t)

RunFeed == Top \/ Waken \/ Changed \/ Settled \/ Ended \/ Waited

Next ==
  \/ \E t \in Tasks : \/ Call(t)
                      \/ \E id \in Instruments : Touch(t, id)
                      \/ \E ids \in SUBSET Instruments : SetExtra(t, ids)
  \/ \E ids \in SUBSET Instruments : Expose(ids)
  \/ RunFeed

SafeSpec == Init /\ [][Next]_vars

\* The timer comes round, calls go on, and the runner's waits end: a change is
\* noticed before another second has passed without one.
Fairness ==
  /\ \A t \in Tasks : WF_vars(calls[t] # Idle /\ Call(t))
  /\ WF_vars(ReadActive("timer"))
  /\ WF_vars(Top) /\ WF_vars(Waken) /\ WF_vars(Changed)
  /\ WF_vars(Settled) /\ WF_vars(Waited)

Spec == SafeSpec /\ Fairness

(***************************************************************************)
(* Properties.                                                             *)
(***************************************************************************)
TypeOK ==
  /\ exposed \subseteq Instruments
  /\ {extra, pinned, recent, published} \subseteq Seq(Instruments)
  /\ unseen \in BOOLEAN
  /\ calls \in [Tasks -> [pc : {"none", "refresh", "active", "pin", "publish", "send"},
                          ids : Seq(Instruments)]]
  /\ feed \in [pc : {"top", "empty", "stream", "settle", "wait"}, ids : Seq(Instruments)]
  /\ backoff \in 1 .. MaxBackoff
  /\ changes \in 0 .. MaxChanges

\* A stream that runs on a set other than the published one is about to be
\* told: the change is still in the channel.  An idle feed has nothing to miss.
NothingMissed ==
  /\ feed.pc = "stream" => unseen \/ feed.ids = published
  /\ feed.pc = "empty" => unseen \/ published = <<>>

Wanted == select(Sorted[exposed] \o extra, recent)

\* Once exposure, alerts and queries stop changing the feed streams, again and
\* again however often the stream drops, what they call for: a set published
\* out of order or lost does not survive the timer.
StreamFollows == []<>(feed.ids = Wanted)

\* (violated) subs.rs: "pinned ones (open exposure) always".  Whenever no call is under
\* way, everything pinned within the cap is in the published set.
PinnedAlways ==
  (\A t \in Tasks : calls[t] = Idle) =>
    \A k \in DOMAIN select(pinned, <<>>) : In(select(pinned, <<>>)[k], published)

\* The feed's promise, with the published set and the running stream as they are.
Promise == INSTANCE LiveFeed WITH streaming <- feed.ids

KeepsPromise == Promise!Spec
=============================================================================
