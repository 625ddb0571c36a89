------------------------ MODULE SubscriptionsProofs -------------------------
(***************************************************************************)
(* Proofs about Subscriptions, for any sets of instruments and tasks and   *)
(* any cap: no change of the set is missed by a running or an idle feed,   *)
(* and the set, the channel and the runner implement LiveFeed (its safety; *)
(* that a set is streamed in the end is a matter of TLC's runs).           *)
(***************************************************************************)
EXTENDS Subscriptions, SumsProofs

\* The lists a feed may be asked for: within the cap and without repetition.
Lists == Promise!Lists

LEMMA ListsAre ==
  Lists = {s \in Seq(Instruments) : /\ Len(s) <= Cap
                                    /\ \A i, j \in DOMAIN s : s[i] = s[j] => i = j}
BY DEF Lists, Promise!Lists

\* Push keeps a list within the cap and without repetition.
LEMMA PushInLists ==
  ASSUME NEW out \in Lists, NEW id \in Instruments
  PROVE  Push(out, id) \in Lists
<1>1. out \in Seq(Instruments) /\ Len(out) <= Cap /\ Len(out) \in Nat
  BY ListsAre
<1>2. \A i, j \in DOMAIN out : out[i] = out[j] => i = j
  BY ListsAre
<1>3. CASE Len(out) >= Cap \/ In(id, out)
  BY <1>3 DEF Push
<1>4. CASE ~ (Len(out) >= Cap \/ In(id, out))
  <2> DEFINE s == Append(out, id)
  <2>1. s \in Seq(Instruments) /\ Len(s) = Len(out) + 1
    BY <1>1
  <2>2. Len(s) <= Cap
    BY <1>1, <1>4, <2>1, SubscriptionsAssumption
  <2>3. \A k \in 1 .. Len(out) : s[k] = out[k] /\ out[k] # id
    BY <1>1, <1>4 DEF In
  <2>4. s[Len(out) + 1] = id /\ DOMAIN s = 1 .. Len(out) + 1 /\ DOMAIN out = 1 .. Len(out)
    BY <1>1
  <2>5. ASSUME NEW i \in DOMAIN s, NEW j \in DOMAIN s, s[i] = s[j] PROVE i = j
    <3> HIDE DEF s
    <3>1. i \in 1 .. Len(out) \/ i = Len(out) + 1
      BY <1>1, <2>4
    <3>2. j \in 1 .. Len(out) \/ j = Len(out) + 1
      BY <1>1, <2>4
    <3> QED
      BY <1>2, <2>3, <2>4, <2>5, <3>1, <3>2
  <2>6. Push(out, id) = s
    BY <1>4 DEF Push
  <2> HIDE DEF s
  <2> QED
    BY <2>1, <2>2, <2>5, <2>6, ListsAre
<1> QED
  BY <1>3, <1>4

\* What select has pushed so far is such a list, however many of all are done.
LEMMA PushedInLists ==
  ASSUME NEW all \in Seq(Instruments)
  PROVE  Pushed(all)[Len(all)] \in Lists
<1> DEFINE n == Len(all)
           F == [k \in 1 .. n |-> [out \in Lists |-> Push(out, all[k])]]
           Eq(out) == out = [k \in 0 .. n |-> IF k = 0 THEN <<>> ELSE Push(out[k - 1], all[k])]
<1>1. n \in Nat /\ \A k \in 1 .. n : all[k] \in Instruments
  OBVIOUS
<1>2. <<>> \in Lists
  BY ListsAre, SubscriptionsAssumption
<1>3. F \in [1 .. n -> [Lists -> Lists]]
  BY <1>1, PushInLists
<1>4. PICK f : IsRecursion(f, n, Lists, <<>>, F)
  <2> HIDE DEF F, n
  <2> QED
    BY <1>1, <1>2, <1>3, RecursionExists
<1>5. Eq(f)
  <2>1. f \in [0 .. n -> Lists] /\ f[0] = <<>>
    BY <1>4 DEF IsRecursion
  <2>2. ASSUME NEW k \in 1 .. n PROVE f[k] = Push(f[k - 1], all[k])
    <3>1. k - 1 \in 0 .. n
      BY <1>1
    <3>2. f[k - 1] \in Lists
      BY <2>1, <3>1
    <3>3. f[k] = F[k][f[k - 1]]
      BY <1>4 DEF IsRecursion
    <3> QED
      BY <3>2, <3>3
  <2>3. f = [k \in 0 .. n |-> f[k]]
    BY <2>1
  <2>4. \A k \in 0 .. n : f[k] = IF k = 0 THEN <<>> ELSE Push(f[k - 1], all[k])
    <3>1. \A k \in 0 .. n : k = 0 \/ k \in 1 .. n
      BY <1>1
    <3> QED
      BY <2>1, <2>2, <3>1
  <2> HIDE DEF n
  <2> QED
    BY <2>3, <2>4
<1>6. Eq(Pushed(all))
  BY <1>5 DEF Pushed
<1> DEFINE out == Pushed(all)
           S == {k \in 0 .. n : out[k] \in Lists}
<1>7. out[0] = <<>> /\ \A k \in 1 .. n : out[k] = Push(out[k - 1], all[k])
  <2> HIDE DEF out
  <2>1. out = [k \in 0 .. n |-> IF k = 0 THEN <<>> ELSE Push(out[k - 1], all[k])]
    BY <1>6 DEF out
  <2> QED
    BY <1>1, <2>1
<1>8. 0 \in S
  BY <1>1, <1>2, <1>7
<1>9. ASSUME NEW k \in 1 .. n, k - 1 \in S PROVE k \in S
  <2>1. all[k] \in Instruments /\ out[k - 1] \in Lists /\ k \in 0 .. n
    BY <1>1, <1>9
  <2>2. Push(out[k - 1], all[k]) \in Lists
    <3> HIDE DEF out
    <3> QED
      BY <2>1, PushInLists
  <2> QED
    BY <1>7, <2>1, <2>2
<1>10. \A k \in 0 .. n : k \in S
  <2> HIDE DEF S, n
  <2> QED
    BY <1>1, <1>8, <1>9, UpTo
<1> QED
  BY <1>1, <1>10

\* select never asks for more than the cap or for an instrument twice.
LEMMA SelectInLists ==
  ASSUME NEW pins \in Seq(Instruments), NEW queries \in Seq(Instruments)
  PROVE  select(pins, queries) \in Lists
<1>1. pins \o queries \in Seq(Instruments)
  OBVIOUS
<1> QED
  BY <1>1, PushedInLists DEF select

\* Taking an instrument out of a list leaves a list of instruments.
LEMMA WithoutIsSeq ==
  ASSUME NEW s \in Seq(Instruments), NEW id \in Instruments
  PROVE  Without(s, id) \in Seq(Instruments)
<1> DEFINE n == Len(s)
           X == Seq(Instruments)
           F == [k \in 1 .. n |-> [t \in X |-> IF s[k] = id THEN t ELSE Append(t, s[k])]]
           Eq(t) == t = [k \in 0 .. n |->
                      IF k = 0 THEN <<>> ELSE IF s[k] = id THEN t[k - 1] ELSE Append(t[k - 1], s[k])]
           kept == CHOOSE t : Eq(t)
<1>1. n \in Nat /\ <<>> \in X /\ \A k \in 1 .. n : s[k] \in Instruments
  OBVIOUS
<1>2. F \in [1 .. n -> [X -> X]]
  BY <1>1
<1>3. PICK f : IsRecursion(f, n, X, <<>>, F)
  <2> HIDE DEF F, n, X
  <2> QED
    BY <1>1, <1>2, RecursionExists
<1>4. f \in [0 .. n -> X] /\ f[0] = <<>>
  BY <1>3 DEF IsRecursion
<1>5. ASSUME NEW k \in 1 .. n
      PROVE  f[k] = IF s[k] = id THEN f[k - 1] ELSE Append(f[k - 1], s[k])
  <2>1. k - 1 \in 0 .. n
    BY <1>1
  <2>2. f[k - 1] \in X
    <3> HIDE DEF X, n
    <3> QED
      BY <1>4, <2>1
  <2>3. f[k] = F[k][f[k - 1]]
    <3> HIDE DEF F, X, n
    <3> QED
      BY <1>3 DEF IsRecursion
  <2> HIDE DEF X
  <2> QED
    BY <2>2, <2>3
<1>6. Eq(f)
  <2>1. f = [k \in 0 .. n |-> f[k]]
    BY <1>4
  <2>2. \A k \in 0 .. n : k = 0 \/ k \in 1 .. n
    BY <1>1
  <2> HIDE DEF n, X
  <2>3. \A k \in 0 .. n : f[k] =
          IF k = 0 THEN <<>> ELSE IF s[k] = id THEN f[k - 1] ELSE Append(f[k - 1], s[k])
    BY <1>4, <1>5, <2>2
  <2> QED
    BY <2>1, <2>3
<1>7. Eq(kept)
  BY <1>6
<1> DEFINE S == {k \in 0 .. n : kept[k] \in X}
<1> HIDE DEF kept
<1>8. kept[0] = <<>> /\ \A k \in 1 .. n :
        kept[k] = IF s[k] = id THEN kept[k - 1] ELSE Append(kept[k - 1], s[k])
  <2>1. kept = [k \in 0 .. n |->
           IF k = 0 THEN <<>> ELSE IF s[k] = id THEN kept[k - 1] ELSE Append(kept[k - 1], s[k])]
    BY <1>7
  <2>2. 0 \in 0 .. n /\ \A k \in 1 .. n : k \in 0 .. n /\ k # 0
    BY <1>1
  <2> HIDE DEF n
  <2> QED
    BY <2>1, <2>2
<1>9. 0 \in S
  <2>1. 0 \in 0 .. n
    BY <1>1
  <2>2. kept[0] \in X
    <3> HIDE DEF X
    <3> QED
      BY <1>1, <1>8
  <2> HIDE DEF n, X
  <2> QED
    BY <2>1, <2>2
<1>10. ASSUME NEW k \in 1 .. n, k - 1 \in S PROVE k \in S
  <2>1. kept[k - 1] \in X /\ k \in 0 .. n /\ s[k] \in Instruments
    BY <1>1, <1>10
  <2>2. kept[k] = kept[k - 1] \/ kept[k] = Append(kept[k - 1], s[k])
    <3> HIDE DEF n
    <3> QED
      BY <1>8
  <2>3. Append(kept[k - 1], s[k]) \in X
    BY <2>1
  <2> HIDE DEF X
  <2> QED
    BY <2>1, <2>2, <2>3
<1>11. \A k \in 0 .. n : k \in S
  <2> HIDE DEF S, n
  <2> QED
    BY <1>1, <1>9, <1>10, UpTo
<1>12. kept[n] \in X
  BY <1>1, <1>11
<1> QED
  BY <1>12 DEF Without, kept

-----------------------------------------------------------------------------
Pcs == {"none", "refresh", "active", "pin", "publish", "send"}

\* What the market keeps are sequences of instruments, and what the calls under
\* way carry; the set a call is about to send is one a feed may be asked for.
ListsInv ==
  /\ extra \in Seq(Instruments)
  /\ pinned \in Seq(Instruments)
  /\ recent \in Seq(Instruments)
  /\ exposed \in SUBSET Instruments
CallsInv ==
  /\ calls \in [Tasks -> [pc : Pcs, ids : Seq(Instruments)]]
  /\ \A t \in Tasks : calls[t].pc = "send" => calls[t].ids \in Lists

\* The runner has a list exactly while it streams, and it learns of every change.
FeedInv ==
  /\ published \in Lists
  /\ feed \in [pc : {"top", "empty", "stream", "settle", "wait"}, ids : Seq(Instruments)]
  /\ feed.pc = "stream" <=> feed.ids # <<>>
  /\ NothingMissed

Inv == ListsInv /\ CallsInv /\ FeedInv

LEMMA EmptyInLists == <<>> \in Lists
BY ListsAre, SubscriptionsAssumption

LEMMA InitInv == Init => Inv
<1> SUFFICES ASSUME Init PROVE Inv
  OBVIOUS
<1>1. ListsInv
  BY DEF Init, ListsInv
<1>2. CallsInv
  BY DEF Init, CallsInv, Idle, Pcs
<1>3. FeedInv
  BY EmptyInLists DEF Init, FeedInv, NothingMissed
<1> QED
  BY <1>1, <1>2, <1>3 DEF Inv

\* One call's record replaced by another keeps the calls in order.
LEMMA CallUpdate ==
  ASSUME CallsInv, NEW t \in Tasks, NEW r \in [pc : Pcs, ids : Seq(Instruments)],
         r.pc = "send" => r.ids \in Lists,
         calls' = [calls EXCEPT ![t] = r]
  PROVE  CallsInv'
<1>1. calls' \in [Tasks -> [pc : Pcs, ids : Seq(Instruments)]]
  BY DEF CallsInv
<1>2. ASSUME NEW u \in Tasks, calls'[u].pc = "send" PROVE calls'[u].ids \in Lists
  <2>1. CASE u = t
    BY <1>2, <2>1 DEF CallsInv
  <2>2. CASE u # t
    BY <1>2, <2>2 DEF CallsInv
  <2> QED
    BY <2>1, <2>2
<1>3. Lists' = Lists
  BY DEF Lists, Promise!Lists
<1> QED
  BY <1>1, <1>2, <1>3 DEF CallsInv

\* Setting the stage of a call and leaving its list.
LEMMA StageUpdate ==
  ASSUME CallsInv, NEW t \in Tasks, NEW p \in Pcs, p # "send",
         calls' = [calls EXCEPT ![t].pc = p]
  PROVE  CallsInv'
<1> DEFINE r == [pc |-> p, ids |-> calls[t].ids]
<1>1. calls[t] \in [pc : Pcs, ids : Seq(Instruments)]
  BY DEF CallsInv
<1>2. r \in [pc : Pcs, ids : Seq(Instruments)] /\ r.pc # "send"
  BY <1>1
<1>3. calls' = [calls EXCEPT ![t] = r]
  <2>1. [calls[t] EXCEPT !.pc = p] = r
    BY <1>1
  <2> QED
    BY <2>1
<1> HIDE DEF r
<1> QED
  BY <1>2, <1>3, CallUpdate

LEMMA ListsPrimed == Lists' = Lists
BY DEF Lists, Promise!Lists

\* What leaves channel and runner alone keeps FeedInv.
LEMMA FeedStays ==
  ASSUME FeedInv, UNCHANGED <<channel, runner>>
  PROVE  FeedInv'
BY ListsPrimed DEF FeedInv, NothingMissed, channel, runner

LEMMA TouchKeeps ==
  ASSUME Inv, NEW t \in Tasks, NEW id \in Instruments, Touch(t, id)
  PROVE  Inv'
<1> USE DEF Inv
<1>1. Without(recent, id) \in Seq(Instruments)
  BY WithoutIsSeq DEF ListsInv
<1> DEFINE all == <<id>> \o Without(recent, id)
<1>2. all \in Seq(Instruments)
  BY <1>1
<1>3. Truncated(all) \in Seq(Instruments)
  <2> HIDE DEF all
  <2>1. CASE Len(all) > Cap
    BY <1>2, <2>1, SubscriptionsAssumption DEF Truncated
  <2>2. CASE ~ (Len(all) > Cap)
    BY <1>2, <2>2 DEF Truncated
  <2> QED
    BY <2>1, <2>2
<1>4. recent' = Truncated(all) /\ calls' = [calls EXCEPT ![t].pc = "publish"]
      /\ UNCHANGED <<exposed, extra, pinned, channel, runner>>
  BY DEF Touch
<1> HIDE DEF all
<1>5. ListsInv'
  BY <1>3, <1>4 DEF ListsInv
<1>6. CallsInv'
  BY <1>4, StageUpdate DEF Pcs
<1> QED
  BY <1>4, <1>5, <1>6, FeedStays

LEMMA SetExtraKeeps ==
  ASSUME Inv, NEW t \in Tasks, NEW ids \in SUBSET Instruments, SetExtra(t, ids)
  PROVE  Inv'
<1> USE DEF Inv
<1>1. /\ extra' = Sorted[ids] /\ calls' = [calls EXCEPT ![t].pc = "refresh"]
      /\ UNCHANGED <<exposed, pinned, recent, channel, runner>>
  BY DEF SetExtra
<1>2. ListsInv'
  BY <1>1, SubscriptionsAssumption DEF ListsInv
<1>3. CallsInv'
  BY <1>1, StageUpdate DEF Pcs
<1> QED
  BY <1>1, <1>2, <1>3, FeedStays

\* The steps of a call before it sends.
LEMMA CallKeeps ==
  ASSUME Inv, NEW t \in Tasks, ReadActive(t) \/ ReadExtra(t) \/ Pin(t) \/ Compute(t)
  PROVE  Inv'
<1> USE DEF Inv
<1>1. calls[t] \in [pc : Pcs, ids : Seq(Instruments)]
  BY DEF CallsInv
<1>2. UNCHANGED <<channel, runner>>
  BY DEF ReadActive, ReadExtra, Pin, Compute
<1>3. FeedInv'
  BY <1>2, FeedStays
<1>4. CASE ReadActive(t)
  <2> DEFINE r == [pc |-> "active", ids |-> Sorted[exposed]]
  <2>1. r \in [pc : Pcs, ids : Seq(Instruments)] /\ r.pc # "send"
    BY SubscriptionsAssumption DEF ListsInv, Pcs
  <2>2. calls' = [calls EXCEPT ![t] = r] /\ UNCHANGED lists
    BY <1>4 DEF ReadActive
  <2> HIDE DEF r
  <2>3. CallsInv'
    BY <2>1, <2>2, CallUpdate
  <2> QED
    BY <1>3, <2>2, <2>3 DEF ListsInv, lists
<1>5. CASE ReadExtra(t)
  <2> DEFINE r == [pc |-> "pin", ids |-> calls[t].ids \o extra]
  <2>1. r \in [pc : Pcs, ids : Seq(Instruments)] /\ r.pc # "send"
    BY <1>1 DEF ListsInv, Pcs
  <2>2. calls' = [calls EXCEPT ![t] = r] /\ UNCHANGED lists
    BY <1>5 DEF ReadExtra
  <2> HIDE DEF r
  <2>3. CallsInv'
    BY <2>1, <2>2, CallUpdate
  <2> QED
    BY <1>3, <2>2, <2>3 DEF ListsInv, lists
<1>6. CASE Pin(t)
  <2>1. /\ pinned' = calls[t].ids /\ calls' = [calls EXCEPT ![t].pc = "publish"]
        /\ UNCHANGED <<exposed, extra, recent>>
    BY <1>6 DEF Pin
  <2>2. CallsInv'
    BY <2>1, StageUpdate DEF Pcs
  <2>3. ListsInv'
    BY <1>1, <2>1 DEF ListsInv
  <2> QED
    BY <1>3, <2>2, <2>3
<1>7. CASE Compute(t)
  <2> DEFINE r == [pc |-> "send", ids |-> select(pinned, recent)]
  <2>1. select(pinned, recent) \in Lists
    BY SelectInLists DEF ListsInv
  <2>2. r \in [pc : Pcs, ids : Seq(Instruments)] /\ r.ids \in Lists
    BY <2>1, ListsAre DEF Pcs
  <2>3. calls' = [calls EXCEPT ![t] = r] /\ UNCHANGED lists
    BY <1>7 DEF Compute
  <2> HIDE DEF r
  <2>4. CallsInv'
    BY <2>2, <2>3, CallUpdate
  <2> QED
    BY <1>3, <2>3, <2>4 DEF ListsInv, lists
<1> QED
  BY <1>4, <1>5, <1>6, <1>7

\* A new set marks the channel, whatever the runner is doing.
LEMMA SendKeeps ==
  ASSUME Inv, NEW t \in Tasks, Send(t)
  PROVE  Inv'
<1> USE DEF Inv
<1>1. /\ calls[t].pc = "send" /\ published' = calls[t].ids
      /\ unseen' = (unseen \/ calls[t].ids # published)
      /\ calls' = [calls EXCEPT ![t] = Idle] /\ UNCHANGED <<lists, runner>>
  BY DEF Send
<1>2. CallsInv'
  <2>1. Idle \in [pc : Pcs, ids : Seq(Instruments)] /\ Idle.pc # "send"
    BY DEF Idle, Pcs
  <2> QED
    BY <1>1, <2>1, CallUpdate
<1>3. calls[t].ids \in Lists
  BY <1>1 DEF CallsInv
<1>4. feed' = feed
  BY <1>1 DEF runner
<1>5. NothingMissed'
  <2>1. CASE calls[t].ids # published
    BY <1>1, <2>1 DEF NothingMissed
  <2>2. CASE calls[t].ids = published
    BY <1>1, <1>4, <2>2 DEF NothingMissed, FeedInv
  <2> QED
    BY <2>1, <2>2
<1>6. FeedInv'
  BY <1>1, <1>3, <1>4, <1>5, ListsPrimed DEF FeedInv
<1>7. ListsInv'
  BY <1>1 DEF ListsInv, lists
<1> QED
  BY <1>2, <1>6, <1>7

\* A runner that looks takes the newest set, or finds that there is none.
LEMMA RunFeedKeeps ==
  ASSUME Inv, RunFeed
  PROVE  Inv'
<1> USE DEF Inv
<1>1. UNCHANGED <<lists, published, calls>>
  BY DEF RunFeed, Top, Waken, Changed, Settled, Ended, Waited, channel
<1>2. ListsInv' /\ CallsInv'
  BY <1>1, ListsPrimed DEF ListsInv, CallsInv, lists
<1>3. published' \in Lists'
  BY <1>1, ListsPrimed DEF FeedInv
<1>4. published \in Seq(Instruments)
  BY ListsAre DEF FeedInv
<1>5. CASE Top
  <2>1. CASE published = <<>>
    <3>1. feed' = [pc |-> "empty", ids |-> <<>>] /\ published' = published
      BY <1>5, <2>1 DEF Top
    <3> QED
      BY <1>2, <1>3, <2>1, <3>1 DEF FeedInv, NothingMissed
  <2>2. CASE published # <<>>
    <3>1. feed' = [pc |-> "stream", ids |-> published] /\ published' = published
      BY <1>5, <2>2 DEF Top
    <3> QED
      BY <1>2, <1>3, <1>4, <2>2, <3>1 DEF FeedInv, NothingMissed
  <2> QED
    BY <2>1, <2>2
<1>6. CASE Waken \/ Settled \/ Waited
  <2>1. feed.pc \in {"empty", "settle", "wait"} /\ feed' = [feed EXCEPT !.pc = "top"]
    BY <1>6 DEF Waken, Settled, Waited
  <2>2. feed'.pc = "top" /\ feed'.ids = <<>>
        /\ feed' \in [pc : {"top", "empty", "stream", "settle", "wait"}, ids : Seq(Instruments)]
    BY <2>1 DEF FeedInv
  <2> QED
    BY <1>2, <1>3, <2>2 DEF FeedInv, NothingMissed
<1>7. CASE Changed \/ Ended
  <2>1. \E p \in {"settle", "wait"} : feed' = [pc |-> p, ids |-> <<>>]
    BY <1>7 DEF Changed, Ended
  <2> QED
    BY <1>2, <1>3, <2>1 DEF FeedInv, NothingMissed
<1> QED
  BY <1>5, <1>6, <1>7 DEF RunFeed

LEMMA NextKeeps == Inv /\ [Next]_vars => Inv'
<1> SUFFICES ASSUME Inv, [Next]_vars PROVE Inv'
  OBVIOUS
<1>1. ASSUME NEW t \in Tasks, Call(t) PROVE Inv'
  BY <1>1, CallKeeps, SendKeeps DEF Call
<1>2. ASSUME NEW ids \in SUBSET Instruments, Expose(ids) PROVE Inv'
  <2>1. exposed' = ids /\ UNCHANGED <<extra, pinned, recent, channel, calls, runner>>
    BY <1>2 DEF Expose
  <2> QED
    BY <1>2, <2>1, FeedStays, ListsPrimed DEF Inv, ListsInv, CallsInv
<1>3. CASE UNCHANGED vars
  <2>1. UNCHANGED <<lists, channel, calls, runner>>
    BY <1>3 DEF vars
  <2> QED
    BY <2>1, FeedStays, ListsPrimed DEF Inv, ListsInv, CallsInv, lists
<1> QED
  BY <1>1, <1>2, <1>3, TouchKeeps, SetExtraKeeps, RunFeedKeeps DEF Next

LEMMA Invariance == SafeSpec => []Inv
<1> QED
  BY InitInv, NextKeeps, PTL DEF SafeSpec

\* However calls, touches and streams interleave, a feed that streams a set other
\* than the published one, or sleeps because there is none, has a change waiting
\* in the channel (run_feed's borrow_and_update and changed, feed/mod.rs).
THEOREM FeedNeverMisses == Spec => []NothingMissed
<1>1. Inv => NothingMissed
  BY DEF Inv, FeedInv
<1> QED
  BY <1>1, Invariance, PTL DEF Spec

\* A step of the calls or of the runner is a step of LiveFeed or leaves its
\* variables alone.
LEMMA StepRefines ==
  ASSUME Inv, [Next]_vars
  PROVE  [Promise!Next]_(Promise!vars)
<1> USE DEF Promise!vars
<1>1. ASSUME NEW t \in Tasks, Send(t) PROVE [Promise!Next]_(Promise!vars)
  <2>1. calls[t].pc = "send" /\ published' = calls[t].ids /\ feed' = feed
    BY <1>1 DEF Send, runner
  <2>2. published' \in Promise!Lists
    BY <2>1 DEF Inv, CallsInv, Lists
  <2> QED
    BY <2>1, <2>2 DEF Promise!Next, Promise!Publish
<1>2. CASE RunFeed
  <2>1. published' = published
    BY <1>2 DEF RunFeed, Top, Waken, Changed, Settled, Ended, Waited, channel
  <2>2. CASE Top /\ published # <<>>
    <3>1. feed.ids = <<>> /\ feed'.ids = published
      BY <2>2 DEF Top, Inv, FeedInv
    <3> QED
      BY <2>1, <2>2, <3>1 DEF Promise!Next, Promise!Open
  <2>3. CASE Top /\ published = <<>>
    <3>1. feed.ids = <<>> /\ feed'.ids = <<>>
      BY <2>3 DEF Top, Inv, FeedInv
    <3> QED
      BY <2>1, <3>1
  <2>4. CASE Waken \/ Settled \/ Waited
    <3>1. feed'.ids = feed.ids
      BY <2>4 DEF Waken, Settled, Waited, Inv, FeedInv
    <3> QED
      BY <2>1, <3>1
  <2>5. CASE Changed \/ Ended
    <3>1. feed'.ids = <<>>
      BY <2>5 DEF Changed, Ended
    <3> QED
      BY <2>1, <3>1 DEF Promise!Next, Promise!Close
  <2> QED
    BY <1>2, <2>2, <2>3, <2>4, <2>5 DEF RunFeed
<1>3. CASE UNCHANGED <<channel, runner>>
  BY <1>3 DEF channel, runner
<1>4. ASSUME NEW t \in Tasks, ReadActive(t) \/ ReadExtra(t) \/ Pin(t) \/ Compute(t)
      PROVE  UNCHANGED <<channel, runner>>
  BY <1>4 DEF ReadActive, ReadExtra, Pin, Compute
<1>5. ASSUME NEW t \in Tasks, NEW id \in Instruments, Touch(t, id)
      PROVE  UNCHANGED <<channel, runner>>
  BY <1>5 DEF Touch
<1>6. ASSUME NEW t \in Tasks, NEW ids \in SUBSET Instruments, SetExtra(t, ids) \/ Expose(ids)
      PROVE  UNCHANGED <<channel, runner>>
  BY <1>6 DEF SetExtra, Expose
<1>7. UNCHANGED vars => UNCHANGED <<channel, runner>>
  BY DEF vars
<1>8. ASSUME NEW ids \in SUBSET Instruments, Expose(ids)
      PROVE  UNCHANGED <<channel, runner>>
  BY <1>8 DEF Expose
<1> QED
  BY <1>1, <1>2, <1>3, <1>4, <1>5, <1>6, <1>7, <1>8 DEF Next, Call

\* Subscriptions and run_feed implement LiveFeed's safety: the venue is asked for
\* no instrument twice and for at most the cap, and every stream starts with the
\* set published at that moment (publish in subs.rs, run_feed in feed/mod.rs).
THEOREM ImplementsLiveFeed == SafeSpec => Promise!SafeSpec
<1>1. Init => Promise!Init
  BY DEF Init, Promise!Init
<1>2. Inv /\ [Next]_vars => [Promise!Next]_(Promise!vars)
  BY StepRefines
<1> QED
  BY <1>1, <1>2, Invariance, PTL DEF SafeSpec, Promise!SafeSpec
=============================================================================
