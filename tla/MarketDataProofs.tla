-------------------------- MODULE MarketDataProofs --------------------------
(***************************************************************************)
(* Proofs about what MCMarketData puts side by side: the client of KIS,    *)
(* previous closes, a venue's stream with the pump, the freshness of books *)
(* in quotes and orders, minute bars and cached lookups, for any calls,    *)
(* venues, capacities, lives and bounds.                                   *)
(***************************************************************************)
EXTENDS MCMarketData, SumsProofs, SequenceTheorems

\* A step is one of the part, and leaves the variables of the other parts alone.
LEMMA StepsOfOne ==
  ASSUME [Next]_vars
  PROVE  /\ part' = part
         /\ Kis!Next \/ UNCHANGED kisVars
         /\ Krx!Next \/ UNCHANGED krxVars
         /\ Stream!Streaming \/ UNCHANGED streamVars
         /\ Quotes!Next \/ UNCHANGED marketVars
         /\ Orders!Next \/ UNCHANGED calmVars
         /\ Bars!Next \/ UNCHANGED barVars
         /\ \/ part = "rates" /\ Rates!Next
            \/ part = "pages" /\ Pages!Next
            \/ part = "financials" /\ Financials!Next
            \/ UNCHANGED lookupVars
BY DEF Next, vars, KisSteps, KrxSteps, StreamSteps, QuoteSteps, OrderSteps, BarSteps, RateSteps,
       PageSteps, FinancialSteps, TickSteps

-----------------------------------------------------------------------------
(* Queues. *)

LEMMA Elements ==
  ASSUME NEW S, NEW q \in Seq(S)
  PROVE  Len(q) \in Nat /\ DOMAIN q = 1 .. Len(q) /\ \A k \in DOMAIN q : q[k] \in S
BY LenProperties, ElementOfSeq

\* The first of a queue and those behind it.
LEMMA Tails ==
  ASSUME NEW S, NEW q \in Seq(S), q # << >>
  PROVE  /\ 1 \in DOMAIN q /\ q[1] \in S /\ Head(q) = q[1] /\ Tail(q) \in Seq(S)
         /\ Len(Tail(q)) = Len(q) - 1
         /\ \A k \in DOMAIN Tail(q) : k \in Nat /\ k + 1 \in DOMAIN q /\ Tail(q)[k] = q[k + 1]
<1>1. Len(q) \in Nat /\ Len(q) # 0 /\ DOMAIN q = 1 .. Len(q)
  BY LenProperties, EmptySeq
<1>2. Head(q) = q[1] /\ q[1] \in S /\ 1 \in DOMAIN q
  BY <1>1, LenProperties
<1>3. /\ Tail(q) \in Seq(S) /\ Len(Tail(q)) = Len(q) - 1
      /\ \A k \in 1 .. Len(Tail(q)) : Tail(q)[k] = q[k + 1]
  BY HeadTailProperties
<1>4. DOMAIN Tail(q) = 1 .. Len(q) - 1
  BY <1>3, LenProperties
<1> QED
  BY <1>1, <1>2, <1>3, <1>4

\* A queue with one more.
LEMMA Appended ==
  ASSUME NEW S, NEW q \in Seq(S), NEW e \in S
  PROVE  /\ Append(q, e) \in Seq(S) /\ Len(Append(q, e)) = Len(q) + 1
         /\ \A k \in DOMAIN Append(q, e) :
              (k \in DOMAIN q /\ Append(q, e)[k] = q[k]) \/ (k = Len(q) + 1 /\ Append(q, e)[k] = e)
         /\ \A k \in DOMAIN q : k \in DOMAIN Append(q, e) /\ Append(q, e)[k] = q[k]
         /\ Len(q) + 1 \in DOMAIN Append(q, e) /\ Append(q, e)[Len(q) + 1] = e
<1>1. Len(q) \in Nat /\ DOMAIN q = 1 .. Len(q)
  BY LenProperties
<1>2. /\ Append(q, e) \in Seq(S) /\ Len(Append(q, e)) = Len(q) + 1
      /\ \A k \in 1 .. Len(q) : Append(q, e)[k] = q[k]
      /\ Append(q, e)[Len(q) + 1] = e
  BY AppendProperties
<1>3. DOMAIN Append(q, e) = 1 .. Len(q) + 1
  BY <1>2, LenProperties
<1> QED
  BY <1>1, <1>2, <1>3

-----------------------------------------------------------------------------
(* KisKrxFeed: the previous close. *)

LEMMA KrxNumbers ==
  MaxDay \in Nat /\ 2 <= MaxDay /\ "stream" \notin Snapshots
BY KrxAssumed DEF Krx!KrxFeedAssumption

\* What was asked for since today's 08:30 is of today, and is remembered.
Answers ==
  \A t \in Krx!Fetchers :
    /\ krxCalls[t].pc = "answer" => krxCalls[t].of # 0
    /\ phase # "dawn" /\ ~ krxCalls[t].early =>
         /\ krxCalls[t].pc = "answer" => krxCalls[t].of = day
         /\ krxCalls[t].pc = "book" => prev.day = day

\* What is remembered is the close of the day it was remembered on, if asked for since 08:30.
Remembered ==
  /\ prev.day <= day
  /\ prev.day # 0 => 2 <= prev.day /\ prev.of # 0 /\ (prev.early \/ prev.of = prev.day)

KrxCalls == [pc : {"idle", "ask", "answer", "book"}, of : 0 .. MaxDay, early : BOOLEAN]
KrxCloses == [day : 0 .. MaxDay, of : 0 .. MaxDay, early : BOOLEAN]
KrxBooks == [day : 0 .. MaxDay, phase : Krx!PhaseNames, of : 0 .. MaxDay, early : BOOLEAN,
             by : {"stream", "snapshot", "late"}]

KrxTyped ==
  /\ day \in 2 .. MaxDay /\ phase \in Krx!PhaseNames /\ rolled \in BOOLEAN
  /\ prev \in KrxCloses
  /\ krxCalls \in [Krx!Fetchers -> KrxCalls]
  /\ stream \in {"down", "closed", "prev", "up"}
  /\ krxBook \in KrxBooks

KrxInv ==
  /\ KrxTyped
  /\ phase # "dawn" => rolled
  /\ Answers /\ Remembered /\ Krx!NoCloseOfAnotherDay /\ Krx!SnapshotHasLimits

\* The properties are about the book alone.
LEMMA KrxBookStays ==
  ASSUME UNCHANGED krxBook, Krx!NoCloseOfAnotherDay, Krx!SnapshotHasLimits
  PROVE  Krx!NoCloseOfAnotherDay' /\ Krx!SnapshotHasLimits'
BY DEF Krx!NoCloseOfAnotherDay, Krx!SnapshotHasLimits

LEMMA KrxIdle == Krx!Idle \in KrxCalls /\ Krx!Idle.pc = "idle"
BY KrxNumbers DEF Krx!Idle, KrxCalls, Krx!Unknown

LEMMA KrxStart == Krx!Init => KrxInv
<1> SUFFICES ASSUME Krx!Init PROVE KrxInv
  OBVIOUS
<1>1. KrxTyped
  <2>1. krxBook \in KrxBooks /\ prev \in KrxCloses
    BY KrxNumbers DEF Krx!Init, KrxBooks, KrxCloses, Krx!PhaseNames, Krx!Unknown
  <2>2. rolled \in BOOLEAN
    BY DEF Krx!Init
  <2>3. krxCalls \in [Krx!Fetchers -> KrxCalls]
    BY KrxIdle DEF Krx!Init
  <2> QED
    BY <2>1, <2>2, <2>3, KrxNumbers DEF KrxTyped, Krx!Init
<1>2. Answers
  BY KrxIdle DEF Krx!Init, Answers
<1>3. phase # "dawn" => rolled
  BY DEF Krx!Init
<1> QED
  BY <1>1, <1>2, <1>3
     DEF Krx!Init, KrxInv, Krx!Unknown, Remembered, Krx!NoCloseOfAnotherDay, Krx!SnapshotHasLimits

\* What a call that changes its own entry only must show.
LEMMA KrxCall ==
  ASSUME KrxInv, NEW t \in Krx!Fetchers, Krx!Fetch(t) \/ Krx!Serve(t) \/ Krx!Remember(t)
  PROVE  KrxInv'
<1>1. UNCHANGED <<day, phase, rolled, krxBook>>
  BY DEF Krx!Fetch, Krx!Serve, Krx!Remember
<1>2. Krx!NoCloseOfAnotherDay' /\ Krx!SnapshotHasLimits'
  BY <1>1, KrxBookStays DEF KrxInv
<1>3. KrxTyped /\ Answers /\ Remembered /\ krxCalls[t] \in KrxCalls /\ (phase # "dawn" => rolled)
  BY DEF KrxInv, KrxTyped
<1>4. CASE Krx!Fetch(t)
  <2>1. krxCalls' \in [Krx!Fetchers -> KrxCalls]
    BY <1>3, <1>4 DEF Krx!Fetch, KrxTyped, KrxCalls
  <2>2. KrxTyped'
    BY <1>1, <1>3, <1>4, <2>1 DEF Krx!Fetch, KrxTyped
  <2>3. Answers'
    BY <1>3, <1>4 DEF Krx!Fetch, KrxTyped, KrxCalls, Answers
  <2>4. Remembered' /\ (phase' # "dawn" => rolled')
    BY <1>1, <1>3, <1>4 DEF Krx!Fetch, Remembered
  <2> QED
    BY <1>2, <2>2, <2>3, <2>4 DEF KrxInv
<1>5. CASE Krx!Serve(t)
  <2>1. Krx!Shown \in 0 .. MaxDay /\ Krx!Shown # 0 /\ (phase # "dawn" => Krx!Shown = day)
    BY <1>3, KrxNumbers DEF KrxTyped, Krx!Shown
  <2>2. krxCalls' \in [Krx!Fetchers -> KrxCalls]
    <3> DEFINE r == [krxCalls[t] EXCEPT !.pc = "answer", !.of = Krx!Shown]
    <3>1. krxCalls' = [krxCalls EXCEPT ![t] = r]
      BY <1>5 DEF Krx!Serve
    <3>2. krxCalls \in [Krx!Fetchers -> KrxCalls] /\ r \in KrxCalls
      BY <1>3, <2>1 DEF KrxTyped, KrxCalls
    <3> HIDE DEF r
    <3> QED
      BY <3>1, <3>2
  <2>3. KrxTyped'
    BY <1>1, <1>3, <1>5, <2>2 DEF Krx!Serve, KrxTyped
  <2>4. Answers'
    BY <1>3, <1>5, <2>1 DEF Krx!Serve, KrxTyped, KrxCalls, Answers
  <2>5. Remembered' /\ (phase' # "dawn" => rolled')
    BY <1>1, <1>3, <1>5 DEF Krx!Serve, Remembered
  <2> QED
    BY <1>2, <2>3, <2>4, <2>5 DEF KrxInv
<1>6. CASE Krx!Remember(t)
  <2>1. krxCalls[t].of \in 1 .. MaxDay /\ krxCalls[t].early \in BOOLEAN /\ day \in 2 .. MaxDay
    BY <1>3, <1>6, KrxNumbers DEF Krx!Remember, KrxTyped, KrxCalls, Answers
  <2>2. \/ phase = "dawn" /\ prev' = prev
        \/ phase # "dawn" /\ prev' = [day |-> day, of |-> krxCalls[t].of, early |-> krxCalls[t].early]
    BY <1>6 DEF Krx!Remember, Krx!prev_close_cacheable
  <2>3. phase # "dawn" /\ ~ krxCalls[t].early => krxCalls[t].of = day
    BY <1>3, <1>6 DEF Krx!Remember, Answers
  <2>4. prev' \in KrxCloses
    BY <1>3, <2>1, <2>2, KrxNumbers DEF KrxTyped, KrxCloses
  <2>5. krxCalls' \in [Krx!Fetchers -> KrxCalls] /\ stream' \in {"down", "closed", "prev", "up"}
    BY <1>3, <1>6, KrxIdle DEF Krx!Remember, KrxTyped, KrxCalls
  <2>6. KrxTyped'
    BY <1>1, <1>3, <2>4, <2>5 DEF KrxTyped
  <2>7. Answers'
    <3> SUFFICES ASSUME NEW u \in Krx!Fetchers
                 PROVE  /\ krxCalls'[u].pc = "answer" => krxCalls'[u].of # 0
                        /\ phase' # "dawn" /\ ~ krxCalls'[u].early =>
                             /\ krxCalls'[u].pc = "answer" => krxCalls'[u].of = day'
                             /\ krxCalls'[u].pc = "book" => prev'.day = day'
      BY DEF Answers
    <3>1. phase' # "dawn" => prev'.day = day'
      BY <1>1, <2>2
    <3>2. CASE u = t
      <4>1. krxCalls'[t].pc \in {"idle", "book"}
        BY <1>3, <1>6, KrxIdle DEF Krx!Remember, KrxTyped, KrxCalls
      <4> QED
        BY <3>1, <3>2, <4>1
    <3>3. CASE u # t
      <4>1. krxCalls'[u] = krxCalls[u]
        BY <1>3, <1>6, <3>3 DEF Krx!Remember, KrxTyped
      <4> QED
        BY <1>1, <1>3, <3>1, <4>1 DEF Answers
    <3> QED
      BY <3>2, <3>3
  <2>8. Remembered' /\ (phase' # "dawn" => rolled')
    BY <1>1, <1>3, <2>1, <2>2, <2>3 DEF Remembered
  <2> QED
    BY <1>2, <2>6, <2>7, <2>8 DEF KrxInv
<1> QED
  BY <1>4, <1>5, <1>6

LEMMA KrxBookStep ==
  ASSUME KrxInv, Krx!StreamBook \/ \E t \in Krx!Fetchers : Krx!SnapshotBook(t)
  PROVE  KrxInv'
<1>1. PICK t \in Krx!Fetchers :
        /\ Krx!Store(t)
        /\ t = Krx!Runner \/ (t # Krx!Runner /\ krxCalls[t].pc = "book")
        /\ UNCHANGED <<day, phase, rolled, prev, stream>>
        /\ krxCalls' = krxCalls \/ krxCalls' = [krxCalls EXCEPT ![t] = Krx!Idle]
  BY DEF Krx!StreamBook, Krx!SnapshotBook, Krx!Fetchers
<1>2. KrxTyped /\ Answers /\ Remembered /\ krxCalls[t] \in KrxCalls
  BY DEF KrxInv, KrxTyped
<1>3. /\ Krx!Attached \in 0 .. MaxDay
      /\ Krx!Attached # 0 <=> prev.day = day
      /\ Krx!Attached # 0 /\ ~ prev.early => Krx!Attached = day
  <2>1. day \in Int /\ 2 <= day /\ prev.day \in 0 .. MaxDay /\ prev.of \in 0 .. MaxDay
    BY <1>2 DEF KrxTyped, KrxCloses
  <2> QED
    BY <1>2, <2>1, KrxNumbers DEF Remembered, Krx!Attached, Krx!Unknown
<1>4. /\ krxBook'.day = day /\ krxBook'.phase = phase /\ krxBook'.of = Krx!Attached
      /\ krxBook'.early = prev.early
      /\ krxBook'.by = "snapshot" => t # Krx!Runner /\ ~ krxCalls[t].early
  BY <1>1 DEF Krx!Store
<1>5. KrxTyped'
  <2>1. krxBook' \in KrxBooks
    BY <1>1, <1>2, <1>3, KrxNumbers DEF KrxTyped, KrxCloses, KrxBooks, Krx!Store
  <2>2. krxCalls' \in [Krx!Fetchers -> KrxCalls]
    BY <1>1, <1>2, KrxIdle DEF KrxTyped
  <2> QED
    BY <1>1, <1>2, <2>1, <2>2 DEF KrxTyped
<1>6. Answers'
  BY <1>1, <1>2, KrxIdle DEF KrxTyped, KrxCalls, Answers
<1>7. Krx!NoCloseOfAnotherDay'
  BY <1>1, <1>3, <1>4 DEF Krx!NoCloseOfAnotherDay, Krx!Unknown
<1>8. Krx!SnapshotHasLimits'
  BY <1>1, <1>2, <1>3, <1>4 DEF Krx!SnapshotHasLimits, Krx!Unknown, Answers
<1> QED
  BY <1>1, <1>2, <1>5, <1>6, <1>7, <1>8 DEF KrxInv, Remembered

LEMMA KrxAdvance ==
  ASSUME KrxInv, Krx!Advance
  PROVE  KrxInv'
<1>1. /\ krxCalls' = [t \in Krx!Fetchers |->
             [krxCalls[t] EXCEPT !.early = @ \/ (phase = "dawn" /\ krxCalls[t].pc # "idle")]]
      /\ UNCHANGED <<prev, stream, krxBook>>
  BY DEF Krx!Advance
<1>2. \/ phase = "evening" /\ day' = day + 1 /\ day < MaxDay /\ phase' = "dawn" /\ rolled' = FALSE
      \/ /\ day' = day /\ rolled' = rolled /\ (phase = "dawn" => rolled)
         /\ \/ phase = "dawn" /\ phase' = "morning"
            \/ phase = "morning" /\ phase' = "open"
            \/ phase = "open" /\ phase' = "evening"
  <2>1. CASE phase = "evening"
    BY <2>1 DEF Krx!Advance
  <2>2. CASE phase # "evening"
    <3>1. PICK k \in 1 .. 3 : phase = Krx!Phases[k] /\ phase' = Krx!Phases[k + 1]
      BY <2>2 DEF Krx!Advance
    <3>2. k = 1 \/ k = 2 \/ k = 3
      OBVIOUS
    <3> QED
      BY <2>2, <3>1, <3>2 DEF Krx!Advance, Krx!Phases
  <2> QED
    BY <2>1, <2>2
<1>3. KrxTyped /\ Answers /\ Remembered /\ (phase # "dawn" => rolled)
  BY DEF KrxInv
<1>4. ASSUME NEW t \in Krx!Fetchers
      PROVE  /\ krxCalls'[t] \in KrxCalls
             /\ krxCalls'[t].pc = krxCalls[t].pc /\ krxCalls'[t].of = krxCalls[t].of
             /\ krxCalls[t].early \/ (phase = "dawn" /\ krxCalls[t].pc # "idle") => krxCalls'[t].early
  <2>1. krxCalls[t] \in KrxCalls
    BY <1>3 DEF KrxTyped
  <2> QED
    BY <1>1, <2>1 DEF KrxCalls
<1>5. KrxTyped'
  <2>1. day' \in 2 .. MaxDay
    BY <1>2, <1>3, KrxNumbers DEF KrxTyped
  <2>2. phase' \in Krx!PhaseNames
    BY <1>2 DEF Krx!PhaseNames
  <2>3. rolled' \in BOOLEAN
    BY <1>2, <1>3 DEF KrxTyped
  <2>4. krxCalls' \in [Krx!Fetchers -> KrxCalls]
    BY <1>1, <1>4
  <2> QED
    BY <1>1, <1>3, <2>1, <2>2, <2>3, <2>4 DEF KrxTyped
<1>6. Answers'
  BY <1>1, <1>2, <1>3, <1>4 DEF Answers
<1>7. Remembered' /\ (phase' # "dawn" => rolled')
  <2>1. day \in Int /\ prev.day \in Int
    BY <1>3 DEF KrxTyped, KrxCloses
  <2> QED
    BY <1>1, <1>2, <1>3, <2>1 DEF Remembered
<1>8. Krx!NoCloseOfAnotherDay' /\ Krx!SnapshotHasLimits'
  BY <1>1, KrxBookStays DEF KrxInv
<1> QED
  BY <1>5, <1>6, <1>7, <1>8 DEF KrxInv

LEMMA KrxStep == KrxInv /\ (Krx!Next \/ UNCHANGED krxVars) => KrxInv'
<1> SUFFICES ASSUME KrxInv, Krx!Next \/ UNCHANGED krxVars PROVE KrxInv'
  OBVIOUS
<1>1. KrxTyped /\ Answers /\ Remembered /\ (phase # "dawn" => rolled)
  BY DEF KrxInv
<1>2. ASSUME UNCHANGED <<day, phase, prev, krxCalls, krxBook>>,
             rolled' \in BOOLEAN, phase # "dawn" => rolled',
             stream' \in {"down", "closed", "prev", "up"}
      PROVE  KrxInv'
  <2>1. KrxTyped'
    BY <1>1, <1>2 DEF KrxTyped
  <2>2. Answers' /\ Remembered'
    BY <1>1, <1>2 DEF Answers, Remembered
  <2>3. phase' # "dawn" => rolled'
    BY <1>2, Zenon
  <2> QED
    BY <1>2, <2>1, <2>2, <2>3, KrxBookStays DEF KrxInv
<1>a. rolled \in BOOLEAN /\ stream \in {"down", "closed", "prev", "up"}
  BY <1>1 DEF KrxTyped
<1>b. ASSUME UNCHANGED <<day, phase, prev, krxCalls, krxBook, rolled>>,
             stream' \in {"down", "closed", "prev", "up"}
      PROVE  KrxInv'
  <2>1. rolled' \in BOOLEAN
    BY <1>a, <1>b
  <2>2. phase # "dawn" => rolled'
    BY <1>1, <1>b, Zenon
  <2> QED
    BY <1>2, <1>b, <2>1, <2>2
<1>3. CASE UNCHANGED krxVars
  BY <1>a, <1>b, <1>3 DEF krxVars
<1>4. ASSUME NEW t \in Krx!Fetchers, Krx!Fails(t)
      PROVE  KrxInv'
  <2>1. /\ krxCalls' = [krxCalls EXCEPT ![t] = Krx!Idle] /\ UNCHANGED <<day, phase, rolled, prev, krxBook>>
        /\ stream' \in {"down", stream}
    BY <1>4 DEF Krx!Fails
  <2>2. KrxTyped'
    BY <1>1, <2>1, KrxIdle DEF KrxTyped
  <2>3. Answers'
    BY <1>1, <2>1, KrxIdle DEF KrxTyped, Answers
  <2>4. Remembered' /\ (phase' # "dawn" => rolled')
    BY <1>1, <2>1 DEF Remembered
  <2> QED
    BY <2>1, <2>2, <2>3, <2>4, KrxBookStays DEF KrxInv
<1>5. CASE Krx!StreamStarts \/ Krx!wait_for_session \/ Krx!StreamDrops
  <2>1. UNCHANGED <<day, phase, prev, krxCalls, krxBook, rolled>>
    BY <1>5 DEF Krx!StreamStarts, Krx!wait_for_session, Krx!StreamDrops
  <2>2. stream' \in {"down", "closed", "prev", "up"}
    BY <1>5 DEF Krx!StreamStarts, Krx!wait_for_session, Krx!StreamDrops
  <2> QED
    BY <1>b, <2>1, <2>2
<1>6. CASE Krx!Roll
  <2>1. UNCHANGED <<day, phase, prev, krxCalls, krxBook>> /\ rolled' = TRUE /\ stream' = stream
    BY <1>6 DEF Krx!Roll
  <2>2. rolled' \in BOOLEAN /\ (phase # "dawn" => rolled')
    BY <2>1
  <2> QED
    BY <1>2, <1>a, <2>1, <2>2
<1> QED
  BY <1>3, <1>4, <1>5, <1>6, KrxCall, KrxBookStep, KrxAdvance DEF Krx!Next

-----------------------------------------------------------------------------
(* KisClient: tokens. *)

LEMMA KisNumbers ==
  /\ MinInterval \in Nat /\ Life \in Nat /\ Margin \in Nat /\ MaxTokens \in Nat /\ MaxRestarts \in Nat
  /\ 0 < Margin /\ Margin < Life /\ "nobody" \notin Calls
BY KisAssumed DEF Kis!KisClientAssumption

KisCalls ==
  [pc : {"idle", "pace", "token", "issue", "send", "sent", "dead", "refused", "dropped"}, token : 0 .. MaxTokens]
KisTokens == [key : Keys, left : 0 .. Life]

KisTyped ==
  /\ key \in Keys
  /\ slot \in 0 .. MaxTokens /\ file \in 0 .. MaxTokens /\ issued \in 0 .. MaxTokens /\ saved \in 0 .. MaxTokens
  /\ tokens \in [1 .. MaxTokens -> KisTokens]
  /\ holder \in Calls \union {Kis!Nobody}
  /\ sinceLast \in 0 .. MinInterval /\ sinceSend \in 0 .. MinInterval
  /\ kisCalls \in [Calls -> KisCalls]

\* A request is on its way with a token of the client's key that outlives it.
UnderOwnToken ==
  \A c \in Calls :
    kisCalls[c].pc = "send" =>
      /\ kisCalls[c].token \in 1 .. MaxTokens
      /\ tokens[kisCalls[c].token].key = key /\ tokens[kisCalls[c].token].left >= Margin

\* Who asks for a token holds the lock and has found none that would do.
AskedForNeed ==
  \A c \in Calls :
    kisCalls[c].pc = "issue" => holder = c /\ ~ Kis!Usable(slot) /\ ~ Kis!Usable(file)

\* As tokens outlive requests, none is refused, and the file is not removed.
NoneRefused == \A c \in Calls : kisCalls[c].pc \notin {"dead", "refused", "dropped"}

KisInv ==
  /\ KisTyped
  /\ revoked = 0 /\ file = saved
  /\ UnderOwnToken /\ AskedForNeed /\ NoneRefused

LEMMA KisIdle ==
  Kis!Idle \in KisCalls /\ Kis!Idle.pc = "idle"
BY KisNumbers DEF Kis!Idle, Kis!None, KisCalls

LEMMA KisStart == Kis!Init => KisInv
<1> SUFFICES ASSUME Kis!Init PROVE KisInv
  OBVIOUS
<1>1. KisTyped
  <2>1. [key |-> key, left |-> 0] \in KisTokens
    BY KisNumbers DEF Kis!Init, KisTokens
  <2> QED
    BY <2>1, KisIdle, KisNumbers DEF Kis!Init, KisTyped, Kis!None
<1>2. \A c \in Calls : kisCalls[c].pc = "idle"
  <2>1. \A c \in Calls : kisCalls[c] = Kis!Idle
    BY Zenon DEF Kis!Init
  <2>2. ASSUME NEW r, r = Kis!Idle PROVE r.pc = "idle"
    BY <2>2, KisIdle
  <2> QED
    BY <2>1, <2>2, Zenon
<1>3. file = saved /\ revoked = 0
  BY DEF Kis!Init, Kis!None
<1>4. UnderOwnToken /\ AskedForNeed /\ NoneRefused
  BY <1>2 DEF UnderOwnToken, AskedForNeed, NoneRefused
<1> QED
  BY <1>1, <1>3, <1>4 DEF KisInv

\* A call goes one step further, and no token changes.
LEMMA KisOwn ==
  ASSUME KisInv, NEW c \in Calls, NEW r \in KisCalls,
         kisCalls' = [kisCalls EXCEPT ![c] = r],
         UNCHANGED <<key, file, saved, issued, tokens, revoked>>,
         sinceLast' \in 0 .. MinInterval, sinceSend' \in 0 .. MinInterval,
         slot' \in 0 .. MaxTokens, holder' \in Calls \union {Kis!Nobody},
         r.pc = "send" =>
           r.token \in 1 .. MaxTokens /\ tokens[r.token].key = key /\ tokens[r.token].left >= Margin,
         r.pc = "issue" => holder' = c /\ ~ Kis!Usable(slot') /\ ~ Kis!Usable(file),
         slot' # slot \/ holder' # holder => \A d \in Calls : d # c => kisCalls[d].pc # "issue",
         r.pc \notin {"dead", "refused", "dropped"}
  PROVE  KisInv'
<1>1. \A d \in Calls : kisCalls'[d] = IF d = c THEN r ELSE kisCalls[d]
  BY DEF KisInv, KisTyped
<1>2. KisTyped'
  BY DEF KisInv, KisTyped
<1>3. UnderOwnToken'
  BY <1>1 DEF KisInv, UnderOwnToken
<1>4. AskedForNeed'
  BY <1>1 DEF KisInv, AskedForNeed, Kis!Usable
<1> QED
  BY <1>1, <1>2, <1>3, <1>4 DEF KisInv, NoneRefused

LEMMA KisStep1 ==
  ASSUME KisInv, NEW c \in Calls,
         Kis!Start(c) \/ Kis!Pace(c) \/ Kis!FromMemory(c) \/ Kis!FromFile(c) \/ Kis!Ask(c)
  PROVE  KisInv'
<1>1. /\ key \in Keys /\ slot \in 0 .. MaxTokens /\ file \in 0 .. MaxTokens
      /\ sinceLast \in 0 .. MinInterval /\ sinceSend \in 0 .. MinInterval
      /\ kisCalls[c] \in KisCalls /\ holder \in Calls \union {Kis!Nobody}
      /\ tokens \in [1 .. MaxTokens -> KisTokens]
  BY DEF KisInv, KisTyped
<1>2. \A t \in 0 .. MaxTokens : Kis!Usable(t) => t \in 1 .. MaxTokens /\ tokens[t].key = key /\ tokens[t].left >= Margin
  BY <1>1, KisNumbers DEF Kis!Usable, Kis!None, KisTokens
<1>3. holder = Kis!Nobody => \A d \in Calls : kisCalls[d].pc # "issue"
  BY KisNumbers DEF KisInv, AskedForNeed, Kis!Nobody
<1>4. CASE Kis!Start(c)
  <2>1. [kisCalls[c] EXCEPT !.pc = "pace"] \in KisCalls
    BY <1>1 DEF KisCalls
  <2> QED
    BY <1>1, <1>4, <2>1, KisOwn DEF Kis!Start, Kis!local, KisCalls
<1>5. CASE Kis!Pace(c)
  <2> DEFINE r == [kisCalls[c] EXCEPT !.pc = "token"]
  <2>1. r \in KisCalls /\ r.pc = "token"
    BY <1>1 DEF KisCalls
  <2>2. kisCalls' = [kisCalls EXCEPT ![c] = r] /\ sinceLast' = 0
        /\ UNCHANGED <<key, slot, file, holder, issued, saved, tokens, sinceSend, revoked>>
    BY <1>5 DEF Kis!Pace
  <2>3. sinceLast' \in 0 .. MinInterval
    BY <2>2, KisNumbers
  <2> HIDE DEF r
  <2> QED
    BY <1>1, <2>1, <2>2, <2>3, KisOwn
<1>6. CASE Kis!FromMemory(c)
  <2>1. [pc |-> "send", token |-> slot] \in KisCalls
    BY <1>1 DEF KisCalls
  <2> QED
    BY <1>1, <1>2, <1>6, <2>1, KisOwn DEF Kis!FromMemory, Kis!local
<1>7. CASE Kis!FromFile(c)
  <2>1. [pc |-> "send", token |-> file] \in KisCalls
    BY <1>1 DEF KisCalls
  <2> QED
    BY <1>1, <1>2, <1>3, <1>7, <2>1, KisOwn DEF Kis!FromFile
<1>8. CASE Kis!Ask(c)
  <2>1. [kisCalls[c] EXCEPT !.pc = "issue"] \in KisCalls
    BY <1>1 DEF KisCalls
  <2> QED
    BY <1>1, <1>3, <1>8, <2>1, KisOwn DEF Kis!Ask, KisCalls
<1> QED
  BY <1>4, <1>5, <1>6, <1>7, <1>8

LEMMA KisStep2 ==
  ASSUME KisInv, NEW c \in Calls,
         Kis!IssueFails(c) \/ Kis!Send(c) \/ Kis!Answer(c) \/ Kis!Drop(c) \/ Kis!RemoveFile(c)
  PROVE  KisInv'
<1>1. /\ slot \in 0 .. MaxTokens
      /\ sinceLast \in 0 .. MinInterval /\ sinceSend \in 0 .. MinInterval
      /\ kisCalls[c] \in KisCalls /\ holder \in Calls \union {Kis!Nobody}
      /\ tokens \in [1 .. MaxTokens -> KisTokens]
  BY DEF KisInv, KisTyped
<1>2. ~ Kis!Drop(c) /\ ~ Kis!RemoveFile(c)
  BY DEF KisInv, NoneRefused, Kis!Drop, Kis!RemoveFile
<1>3. CASE Kis!IssueFails(c)
  <2>1. \A d \in Calls : d # c => kisCalls[d].pc # "issue"
    BY <1>3 DEF Kis!IssueFails, KisInv, AskedForNeed
  <2> QED
    BY <1>1, <1>3, <2>1, KisOwn, KisIdle DEF Kis!IssueFails
<1>4. CASE Kis!Send(c)
  <2> DEFINE r == [kisCalls[c] EXCEPT !.pc = "sent"]
  <2>1. r \in KisCalls /\ r.pc = "sent" /\ r.token = kisCalls[c].token
    BY <1>1 DEF KisCalls
  <2>2. /\ kisCalls[c].token \in 1 .. MaxTokens
        /\ tokens[kisCalls[c].token].key = key /\ tokens[kisCalls[c].token].left >= Margin
    BY <1>4 DEF Kis!Send, KisInv, UnderOwnToken
  <2>a. Kis!Alive(kisCalls[c].token)
    <3>1. tokens[kisCalls[c].token].left \in Nat
      BY <1>1, <2>2, KisNumbers DEF KisTokens
    <3> QED
      BY <2>2, <3>1, KisNumbers DEF Kis!Alive
  <2>3. kisCalls' = [kisCalls EXCEPT ![c] = r] /\ sinceSend' = 0
        /\ UNCHANGED <<key, slot, file, holder, sinceLast, issued, saved, tokens, revoked>>
    BY <1>4, <2>a DEF Kis!Send, Kis!local
  <2>4. sinceSend' \in 0 .. MinInterval
    BY <2>3, KisNumbers
  <2> HIDE DEF r
  <2> QED
    BY <1>1, <2>1, <2>2, <2>3, <2>4, KisOwn
<1>5. CASE Kis!Answer(c)
  <2>1. kisCalls' = [kisCalls EXCEPT ![c] = Kis!Idle]
    BY <1>5 DEF Kis!Answer, KisInv, NoneRefused
  <2> QED
    BY <1>1, <1>5, <2>1, KisOwn, KisIdle DEF Kis!Answer, Kis!local
<1> QED
  BY <1>2, <1>3, <1>4, <1>5

LEMMA KisIssue ==
  ASSUME KisInv, NEW c \in Calls, Kis!Issue(c) \/ Kis!IssueUnsaved(c)
  PROVE  KisInv' /\ ~ Kis!Usable(slot) /\ ~ Kis!Usable(saved)
<1>1. Kis!Issued(c)
  BY DEF Kis!Issue, Kis!IssueUnsaved
<1> DEFINE n == issued + 1
           t == [key |-> key, left |-> Life]
           r == [pc |-> "send", token |-> n]
<1>2. /\ kisCalls[c].pc = "issue" /\ issued' = n /\ slot' = n /\ holder' = Kis!Nobody
      /\ tokens' = [tokens EXCEPT ![n] = t] /\ kisCalls' = [kisCalls EXCEPT ![c] = r]
      /\ UNCHANGED <<key, sinceLast, sinceSend, revoked, restarts>>
  BY <1>1 DEF Kis!Issued
<1>3. n \in 1 .. MaxTokens /\ n \in 0 .. MaxTokens
  BY <1>1, KisNumbers DEF Kis!Issued, KisInv, KisTyped
<1>4. file' = saved' /\ file' \in 0 .. MaxTokens
  BY <1>2, <1>3 DEF Kis!Issue, Kis!IssueUnsaved, KisInv, KisTyped
<1>5. t \in KisTokens /\ r \in KisCalls /\ t.key = key /\ t.left = Life /\ r.pc = "send" /\ r.token = n
  BY <1>3, KisNumbers DEF KisInv, KisTyped, KisTokens, KisCalls
<1> HIDE DEF n, t, r
<1>6. \A d \in Calls : kisCalls'[d] = IF d = c THEN r ELSE kisCalls[d]
  BY <1>2 DEF KisInv, KisTyped
<1>7. \A m \in 1 .. MaxTokens : tokens'[m] = IF m = n THEN t ELSE tokens[m]
  BY <1>2 DEF KisInv, KisTyped
<1>8. \A d \in Calls : d # c => kisCalls[d].pc # "issue"
  BY <1>2 DEF KisInv, AskedForNeed
<1>9. KisTyped'
  BY <1>2, <1>3, <1>4, <1>5 DEF KisInv, KisTyped
<1>10. UnderOwnToken'
  BY <1>2, <1>3, <1>5, <1>6, <1>7, KisNumbers DEF KisInv, UnderOwnToken
<1>11. AskedForNeed' /\ NoneRefused'
  BY <1>5, <1>6, <1>8 DEF KisInv, AskedForNeed, NoneRefused
<1>12. ~ Kis!Usable(slot) /\ ~ Kis!Usable(saved)
  BY <1>2 DEF KisInv, AskedForNeed
<1> QED
  BY <1>2, <1>4, <1>9, <1>10, <1>11, <1>12 DEF KisInv

LEMMA KisStep3 ==
  ASSUME KisInv, Kis!Tick \/ \E t \in 1 .. MaxTokens : Kis!Expire(t) \/ Kis!Revoke(t)
  PROVE  KisInv'
<1>1. CASE Kis!Tick
  <2>1. sinceLast' \in 0 .. MinInterval /\ sinceSend' \in 0 .. MinInterval
    BY <1>1, KisNumbers DEF Kis!Tick, KisInv, KisTyped, Kis!Aged, Kis!AtMost
  <2> QED
    BY <1>1, <2>1 DEF Kis!Tick, KisInv, KisTyped, UnderOwnToken, AskedForNeed, NoneRefused, Kis!Usable
<1>2. ASSUME NEW t \in 1 .. MaxTokens, Kis!Expire(t)
      PROVE  KisInv'
  <2>1. tokens \in [1 .. MaxTokens -> KisTokens] /\ tokens[t] \in KisTokens
    BY DEF KisInv, KisTyped
  <2>2. tokens[t].left \in 1 .. Life /\ tokens[t].left - 1 \in 0 .. Life
    BY <1>2, <2>1, KisNumbers DEF Kis!Expire, Kis!Alive, KisTokens
  <2>3. tokens' = [tokens EXCEPT ![t].left = tokens[t].left - 1]
    BY <1>2 DEF Kis!Expire
  <2>4. tokens' \in [1 .. MaxTokens -> KisTokens]
    BY <2>1, <2>2, <2>3 DEF KisTokens
  <2>5. \A m \in 1 .. MaxTokens :
          /\ tokens'[m].key = tokens[m].key
          /\ tokens'[m].left = IF m = t THEN tokens[m].left - 1 ELSE tokens[m].left
    BY <2>1, <2>3 DEF KisTokens
  <2>6. UNCHANGED <<key, slot, file, holder, sinceLast, issued, saved, sinceSend, kisCalls, revoked>>
    BY <1>2 DEF Kis!Expire, Kis!local
  <2>7. UnderOwnToken'
    <3>1. ASSUME NEW c \in Calls, kisCalls[c].pc = "send"
          PROVE  LET m == kisCalls[c].token IN
                 m \in 1 .. MaxTokens /\ tokens'[m].key = key /\ tokens'[m].left >= Margin
      <4>1. kisCalls[c].token \in 1 .. MaxTokens /\ tokens[kisCalls[c].token].key = key
            /\ tokens[kisCalls[c].token].left >= Margin
        BY <3>1 DEF KisInv, UnderOwnToken
      <4>2. kisCalls[c].token = t => tokens[t].left > Margin
        BY <1>2, <2>2, <3>1, KisNumbers DEF Kis!Expire
      <4> QED
        BY <2>2, <2>5, <4>1, <4>2, KisNumbers
    <3> QED
      BY <2>6, <3>1 DEF UnderOwnToken
  <2>8. \A m \in 0 .. MaxTokens : Kis!Usable(m)' => Kis!Usable(m)
    BY <2>2, <2>5, <2>6, KisNumbers DEF Kis!Usable, Kis!None
  <2>9. AskedForNeed'
    BY <2>6, <2>8 DEF KisInv, AskedForNeed, KisTyped
  <2> QED
    BY <2>4, <2>6, <2>7, <2>9 DEF KisInv, KisTyped, NoneRefused
<1>3. ASSUME NEW t \in 1 .. MaxTokens, Kis!Revoke(t)
      PROVE  FALSE
  BY <1>3 DEF Kis!Revoke, KisInv
<1> QED
  BY <1>1, <1>2, <1>3

LEMMA KisRestart ==
  ASSUME KisInv, NEW k \in Keys, Kis!Restart(k)
  PROVE  KisInv'
<1>1. \A c \in Calls : kisCalls'[c] = Kis!Idle
  BY DEF Kis!Restart
<1>2. KisTyped'
  BY <1>1, KisIdle, KisNumbers DEF Kis!Restart, KisInv, KisTyped, Kis!None
<1> QED
  BY <1>1, <1>2, KisIdle DEF Kis!Restart, KisInv, UnderOwnToken, AskedForNeed, NoneRefused

\* A step keeps all that, asks for a token only in need and sends under its own.
LEMMA KisStep ==
  ASSUME KisInv, Kis!Next \/ UNCHANGED kisVars
  PROVE  /\ KisInv'
         /\ issued' # issued => ~ Kis!Usable(slot) /\ ~ Kis!Usable(saved)
<1>1. CASE UNCHANGED kisVars
  BY <1>1 DEF kisVars, KisInv, KisTyped, UnderOwnToken, AskedForNeed, NoneRefused, Kis!Usable
<1>2. ASSUME NEW c \in Calls, Kis!Start(c) \/ Kis!Step(c)
      PROVE  /\ KisInv'
             /\ issued' # issued => ~ Kis!Usable(slot) /\ ~ Kis!Usable(saved)
  <2>1. CASE Kis!Issue(c) \/ Kis!IssueUnsaved(c)
    BY <2>1, KisIssue
  <2>2. CASE Kis!Start(c) \/ Kis!Pace(c) \/ Kis!FromMemory(c) \/ Kis!FromFile(c) \/ Kis!Ask(c)
    BY <2>2, KisStep1 DEF Kis!Start, Kis!Pace, Kis!FromMemory, Kis!FromFile, Kis!Ask
  <2>3. CASE Kis!IssueFails(c) \/ Kis!Send(c) \/ Kis!Answer(c) \/ Kis!Drop(c) \/ Kis!RemoveFile(c)
    BY <2>3, KisStep2 DEF Kis!IssueFails, Kis!Send, Kis!Answer, Kis!Drop, Kis!RemoveFile
  <2> QED
    BY <1>2, <2>1, <2>2, <2>3 DEF Kis!Step
<1>3. CASE Kis!Tick \/ \E t \in 1 .. MaxTokens : Kis!Expire(t) \/ Kis!Revoke(t)
  BY <1>3, KisStep3 DEF Kis!Tick, Kis!Expire, Kis!Revoke
<1>4. ASSUME NEW k \in Keys, Kis!Restart(k)
      PROVE  KisInv' /\ issued' = issued
  BY <1>4, KisRestart DEF Kis!Restart
<1> QED
  BY <1>1, <1>2, <1>3, <1>4 DEF Kis!Next

LEMMA KisSends ==
  ASSUME KisInv, NEW c \in Calls, kisCalls[c].pc = "send"
  PROVE  tokens[kisCalls[c].token].key = key
BY DEF KisInv, UnderOwnToken

-----------------------------------------------------------------------------
(* ensure_fresh, quotes and the pump: how old a book can be. *)

LEMMA QuoteNumbers ==
  /\ MaxQuoteTime \in Nat /\ MaxVersion \in Nat \ {0} /\ QueueSize \in Nat \ {0} /\ Lag \in Nat
  /\ SECOND \in Nat \ {0} /\ FRESH \in Nat /\ STALE \in Nat
  /\ Asks \in [Callers -> {"quote", "order"}]
BY QuotesAssumed DEF Quotes!MarketAssumption

QuoteBooks == [version : 0 .. MaxVersion, at : 0 .. MaxQuoteTime]
QuoteCalls ==
  [at : {"idle", "stats", "check", "ask", "rest", "store", "finish"}, kind : {"none", "quote", "order"},
   read : QuoteBooks, error : {"yes", "no"}]

QuoteTyped ==
  /\ now \in 0 .. MaxQuoteTime
  /\ moved \in Seq(0 .. MaxQuoteTime) /\ Len(moved) \in 1 .. MaxVersion
  /\ queue \in Seq(QuoteBooks) /\ book \in QuoteBooks
  /\ callers \in [Callers -> QuoteCalls] /\ stats \in {"none", "loaded"}

\* No book is of the future, the pump keeps up, and what is stored now was received now.
QuoteAges ==
  /\ book.at <= now
  /\ \A k \in DOMAIN queue : queue[k].at <= now /\ now - queue[k].at <= Lag
  /\ \A c \in Callers : callers[c].at = "store" => callers[c].read.at = now

QuoteInv == QuoteTyped /\ QuoteAges

LEMMA QuoteIdle ==
  Quotes!NoBook \in QuoteBooks /\ Quotes!Idle \in QuoteCalls /\ Quotes!Idle.at = "idle"
<1>1. Quotes!NoBook \in QuoteBooks
  BY QuoteNumbers DEF Quotes!NoBook, QuoteBooks
<1> QED
  BY <1>1 DEF Quotes!Idle, QuoteCalls

LEMMA QuoteStart == Quotes!Init => QuoteInv
<1> SUFFICES ASSUME Quotes!Init PROVE QuoteInv
  OBVIOUS
<1>1. moved \in Seq(0 .. MaxQuoteTime) /\ Len(moved) = 1
  BY QuoteNumbers DEF Quotes!Init
<1>2. QuoteTyped
  BY <1>1, QuoteIdle, QuoteNumbers DEF Quotes!Init, QuoteTyped
<1>3. queue = << >> /\ book.at = 0 /\ now = 0 /\ \A c \in Callers : callers[c].at = "idle"
  BY QuoteIdle DEF Quotes!Init, Quotes!NoBook
<1> QED
  BY <1>2, <1>3 DEF QuoteInv, QuoteAges

\* A call goes one step further.
LEMMA QuoteOwn ==
  ASSUME QuoteInv, NEW c \in Callers, NEW r \in QuoteCalls,
         callers' = [callers EXCEPT ![c] = r], UNCHANGED <<now, moved, queue>>,
         book' \in QuoteBooks, book'.at <= now, stats' \in {"none", "loaded"},
         r.at = "store" => r.read.at = now
  PROVE  QuoteInv'
<1>1. \A d \in Callers : callers'[d] = IF d = c THEN r ELSE callers[d]
  BY DEF QuoteInv, QuoteTyped
<1>2. QuoteTyped'
  BY DEF QuoteInv, QuoteTyped
<1> QED
  BY <1>1, <1>2 DEF QuoteInv, QuoteAges

LEMMA QuoteAsks ==
  ASSUME QuoteInv, NEW c \in Callers,
         Quotes!Call(c) \/ Quotes!StatsCome(c) \/ Quotes!Check(c) \/ Quotes!Served(c) \/ Quotes!Received(c)
  PROVE  QuoteInv' /\ book' = book
<1>1. callers[c] \in QuoteCalls /\ book \in QuoteBooks /\ book.at <= now /\ stats \in {"none", "loaded"}
      /\ now \in 0 .. MaxQuoteTime /\ callers \in [Callers -> QuoteCalls]
  BY DEF QuoteInv, QuoteTyped, QuoteAges
<1>2. UNCHANGED <<now, moved, queue, book>>
  BY DEF Quotes!Call, Quotes!StatsCome, Quotes!Check, Quotes!Served, Quotes!Received, Quotes!world
<1>3. CASE Quotes!Call(c)
  <2>1. CASE listed
    <3> DEFINE r == [Quotes!Idle EXCEPT !.at = IF stats = "none" THEN "stats" ELSE "check", !.kind = Asks[c]]
    <3>1. callers' = [callers EXCEPT ![c] = r] /\ stats' = stats
      BY <1>3, <2>1 DEF Quotes!Call
    <3>2. r \in QuoteCalls /\ r.at # "store"
      BY QuoteIdle, QuoteNumbers DEF QuoteCalls
    <3> HIDE DEF r
    <3> QED
      BY <1>1, <1>2, <3>1, <3>2, QuoteOwn
  <2>2. CASE ~ listed
    BY <1>2, <1>3, <2>2 DEF Quotes!Call, QuoteInv, QuoteTyped, QuoteAges
  <2> QED
    BY <2>1, <2>2
<1>4. CASE Quotes!StatsCome(c)
  <2> DEFINE r == [callers[c] EXCEPT !.at = "check"]
  <2>1. callers' = [callers EXCEPT ![c] = r] /\ stats' \in {"none", "loaded"}
    BY <1>1, <1>4 DEF Quotes!StatsCome, Quotes!Go
  <2>2. r \in QuoteCalls /\ r.at # "store"
    BY <1>1 DEF QuoteCalls
  <2> HIDE DEF r
  <2> QED
    BY <1>1, <1>2, <2>1, <2>2, QuoteOwn
<1>5. CASE Quotes!Check(c)
  <2> DEFINE r == [callers[c] EXCEPT !.at = IF book.version # 0 /\ Quotes!Fresh(Quotes!Age) THEN "finish" ELSE "ask"]
  <2>1. callers' = [callers EXCEPT ![c] = r] /\ stats' = stats
    BY <1>5 DEF Quotes!Check
  <2>2. r \in QuoteCalls /\ r.at # "store"
    BY <1>1 DEF QuoteCalls
  <2> HIDE DEF r
  <2> QED
    BY <1>1, <1>2, <2>1, <2>2, QuoteOwn
<1>6. CASE Quotes!Served(c)
  <2> DEFINE b == [version |-> Quotes!Version, at |-> now]
             r == [callers[c] EXCEPT !.at = "rest", !.read = b]
  <2>1. callers' = [callers EXCEPT ![c] = r] /\ stats' = stats
    BY <1>1, <1>6 DEF Quotes!Served
  <2>2. b \in QuoteBooks
    BY <1>1 DEF QuoteBooks, Quotes!Version, QuoteInv, QuoteTyped
  <2>3. r \in QuoteCalls /\ r.at # "store"
    BY <1>1, <2>2 DEF QuoteCalls
  <2> HIDE DEF r
  <2> QED
    BY <1>1, <1>2, <2>1, <2>3, QuoteOwn
<1>7. CASE Quotes!Received(c)
  <2> DEFINE b == [callers[c].read EXCEPT !.at = now]
             r == [callers[c] EXCEPT !.at = "store", !.read = b]
  <2>1. callers' = [callers EXCEPT ![c] = r] /\ stats' = stats
    BY <1>1, <1>7 DEF Quotes!Received, Quotes!Stamped
  <2>2. callers[c].read \in QuoteBooks
    BY <1>1 DEF QuoteCalls
  <2>3. b \in QuoteBooks /\ b.at = now
    BY <1>1, <2>2 DEF QuoteBooks
  <2> HIDE DEF b
  <2>4. r \in QuoteCalls /\ r.read = b
    BY <1>1, <2>3 DEF QuoteCalls
  <2> HIDE DEF r
  <2> QED
    BY <1>1, <1>2, <2>1, <2>3, <2>4, QuoteOwn
<1> QED
  BY <1>2, <1>3, <1>4, <1>5, <1>6, <1>7

\* Of what ends a call only a stored snapshot changes the book, to one of this moment.
LEMMA QuoteEnds ==
  ASSUME QuoteInv, NEW c \in Callers,
         Quotes!Store(c) \/ Quotes!Fails(c) \/ Quotes!Quote(c) \/ Quotes!Place(c)
  PROVE  QuoteInv' /\ (book' = book \/ book'.at = now)
<1>1. callers[c] \in QuoteCalls /\ book \in QuoteBooks /\ book.at <= now /\ stats \in {"none", "loaded"}
      /\ now \in 0 .. MaxQuoteTime /\ callers \in [Callers -> QuoteCalls]
  BY DEF QuoteInv, QuoteTyped, QuoteAges
<1>2. UNCHANGED <<now, moved, queue, stats>>
  BY DEF Quotes!Store, Quotes!Fails, Quotes!Quote, Quotes!Place, Quotes!world
<1>3. CASE Quotes!Store(c)
  <2> DEFINE r == [callers[c] EXCEPT !.at = "finish", !.read = Quotes!NoBook]
  <2>1. callers' = [callers EXCEPT ![c] = r] /\ book' = callers[c].read
    BY <1>1, <1>3 DEF Quotes!Store
  <2>2. r \in QuoteCalls /\ r.at # "store" /\ callers[c].read \in QuoteBooks
    BY <1>1, QuoteIdle DEF QuoteCalls
  <2>3. book' \in QuoteBooks /\ book'.at = now /\ book'.at <= now
    BY <1>1, <1>3, <2>1, <2>2 DEF Quotes!Store, QuoteInv, QuoteAges
  <2>4. stats' \in {"none", "loaded"}
    BY <1>1, <1>2
  <2> HIDE DEF r
  <2> QED
    BY <1>2, <2>1, <2>2, <2>3, <2>4, QuoteOwn
<1>4. CASE Quotes!Fails(c)
  <2> DEFINE r == IF callers[c].kind = "quote"
                  THEN [callers[c] EXCEPT !.at = "finish", !.read = Quotes!NoBook, !.error = "yes"]
                  ELSE Quotes!Idle
  <2>1. callers' = [callers EXCEPT ![c] = r] /\ book' = book
    BY <1>1, <1>4 DEF Quotes!Fails
  <2>2. r \in QuoteCalls /\ r.at # "store"
    BY <1>1, QuoteIdle DEF QuoteCalls
  <2> HIDE DEF r
  <2> QED
    BY <1>1, <1>2, <2>1, <2>2, QuoteOwn
<1>5. CASE Quotes!Quote(c) \/ Quotes!Place(c)
  <2>1. callers' = [callers EXCEPT ![c] = Quotes!Idle] /\ book' = book
    BY <1>5 DEF Quotes!Quote, Quotes!Place
  <2> QED
    BY <1>1, <1>2, <2>1, QuoteIdle, QuoteOwn
<1> QED
  BY <1>3, <1>4, <1>5

\* A book more in the queue, received now.
LEMMA QuoteQueued ==
  ASSUME QuoteInv, NEW b \in QuoteBooks, b.at = now, queue' = Append(queue, b)
  PROVE  /\ queue' \in Seq(QuoteBooks)
         /\ \A k \in DOMAIN queue' : queue'[k].at <= now /\ now - queue'[k].at <= Lag
<1>1. queue \in Seq(QuoteBooks) /\ now \in Int
  BY DEF QuoteInv, QuoteTyped
<1>2. queue' \in Seq(QuoteBooks)
      /\ \A k \in DOMAIN queue' : (k \in DOMAIN queue /\ queue'[k] = queue[k]) \/ queue'[k] = b
  BY <1>1, Appended
<1> QED
  BY <1>1, <1>2, QuoteNumbers DEF QuoteInv, QuoteAges

LEMMA QuoteWorld ==
  ASSUME QuoteInv,
         Quotes!Moves \/ Quotes!Reconnect \/ Quotes!Disconnect \/ Quotes!Pump \/ Quotes!Passes
  PROVE  QuoteInv' /\ book'.at >= book.at - Lag
<1>1. /\ book \in QuoteBooks /\ book.at \in Int /\ now \in 0 .. MaxQuoteTime /\ book.at <= now
      /\ moved \in Seq(0 .. MaxQuoteTime) /\ Len(moved) \in 1 .. MaxVersion /\ queue \in Seq(QuoteBooks)
      /\ callers \in [Callers -> QuoteCalls]
  BY DEF QuoteInv, QuoteTyped, QuoteAges, QuoteBooks
<1>2. CASE Quotes!Moves
  <2> DEFINE b == [version |-> Len(moved) + 1, at |-> now]
  <2>1. b \in QuoteBooks /\ b.at = now
    BY <1>1, <1>2, QuoteNumbers DEF Quotes!Moves, Quotes!Version, QuoteBooks
  <2>2. queue' = queue \/ queue' = Append(queue, b)
    BY <1>2 DEF Quotes!Moves, Quotes!Version
  <2> HIDE DEF b
  <2>3. moved' \in Seq(0 .. MaxQuoteTime) /\ Len(moved') \in 1 .. MaxVersion
    BY <1>1, <1>2, QuoteNumbers DEF Quotes!Moves, Quotes!Version
  <2>4. UNCHANGED <<now, book, callers, stats>>
    BY <1>2 DEF Quotes!Moves
  <2> QED
    BY <1>1, <2>1, <2>2, <2>3, <2>4, QuoteQueued, QuoteNumbers, SMTT(30) DEF QuoteInv, QuoteTyped, QuoteAges
<1>3. CASE Quotes!Reconnect
  <2> DEFINE b == [version |-> Len(moved), at |-> now]
  <2>1. b \in QuoteBooks /\ b.at = now
    BY <1>1, QuoteNumbers DEF QuoteBooks
  <2>2. queue' = Append(queue, b) /\ UNCHANGED <<now, moved, book, callers, stats>>
    BY <1>3 DEF Quotes!Reconnect, Quotes!Version
  <2> HIDE DEF b
  <2> QED
    BY <1>1, <2>1, <2>2, QuoteQueued, QuoteNumbers DEF QuoteInv, QuoteTyped, QuoteAges
<1>4. CASE Quotes!Disconnect
  BY <1>1, <1>4, QuoteNumbers DEF Quotes!Disconnect, QuoteInv, QuoteTyped, QuoteAges
<1>5. CASE Quotes!Pump
  <2>1. queue # << >> /\ book' = Head(queue) /\ queue' = Tail(queue) /\ UNCHANGED <<now, moved, callers, stats>>
    BY <1>5 DEF Quotes!Pump
  <2>2. /\ 1 \in DOMAIN queue /\ queue[1] \in QuoteBooks /\ book' = queue[1] /\ queue' \in Seq(QuoteBooks)
        /\ \A k \in DOMAIN queue' : k + 1 \in DOMAIN queue /\ queue'[k] = queue[k + 1]
    BY <1>1, <2>1, Tails
  <2>3. queue[1].at \in Int /\ queue[1].at <= now /\ now - queue[1].at <= Lag
    BY <2>2 DEF QuoteInv, QuoteAges, QuoteBooks
  <2>5. QuoteTyped'
    BY <2>1, <2>2 DEF QuoteInv, QuoteTyped
  <2>6. QuoteAges'
    BY <2>1, <2>2, <2>3 DEF QuoteInv, QuoteAges
  <2> QED
    BY <1>1, <2>1, <2>2, <2>3, <2>5, <2>6, QuoteNumbers DEF QuoteInv
<1>6. CASE Quotes!Passes
  <2>1. /\ now' = now + 1 /\ now < MaxQuoteTime /\ UNCHANGED <<moved, queue, book, stats, callers>>
        /\ \A k \in DOMAIN queue : now - queue[k].at < Lag
        /\ \A c \in Callers : callers[c].at # "store"
    BY <1>6 DEF Quotes!Passes
  <2>2. \A k \in DOMAIN queue : queue[k].at \in Int
    <3>1. \A k \in DOMAIN queue : queue[k] \in QuoteBooks
      BY <1>1, Elements
    <3> QED
      BY <3>1 DEF QuoteBooks
  <2>3. QuoteTyped'
    BY <1>1, <2>1, QuoteNumbers DEF QuoteInv, QuoteTyped
  <2>4. QuoteAges'
    BY <1>1, <2>1, <2>2, QuoteNumbers DEF QuoteInv, QuoteAges
  <2> QED
    BY <1>1, <2>1, <2>3, <2>4, QuoteNumbers DEF QuoteInv
<1> QED
  BY <1>2, <1>3, <1>4, <1>5, <1>6

LEMMA QuoteStep ==
  ASSUME QuoteInv, Quotes!Next \/ UNCHANGED marketVars
  PROVE  QuoteInv' /\ book'.at >= book.at - Lag
<1>1. book.at \in Int /\ now \in Int /\ book.at <= now
  BY DEF QuoteInv, QuoteTyped, QuoteBooks, QuoteAges
<1>2. CASE UNCHANGED marketVars
  BY <1>1, <1>2, QuoteNumbers DEF marketVars, QuoteInv, QuoteTyped, QuoteAges
<1>3. CASE Quotes!Moves \/ Quotes!Reconnect \/ Quotes!Disconnect \/ Quotes!Pump \/ Quotes!Passes
  BY <1>3, QuoteWorld
<1>4. ASSUME NEW c \in Callers,
             Quotes!Call(c) \/ Quotes!StatsCome(c) \/ Quotes!Check(c) \/ Quotes!Served(c) \/ Quotes!Received(c)
      PROVE  QuoteInv' /\ book'.at >= book.at - Lag
  BY <1>1, <1>4, QuoteAsks, QuoteNumbers
<1>5. ASSUME NEW c \in Callers,
             Quotes!Store(c) \/ Quotes!Fails(c) \/ Quotes!Quote(c) \/ Quotes!Place(c)
      PROVE  QuoteInv' /\ book'.at >= book.at - Lag
  BY <1>1, <1>5, QuoteEnds, QuoteNumbers
<1> QED
  BY <1>2, <1>3, <1>4, <1>5 DEF Quotes!Next

LEMMA QuoteShows == QuoteInv => Quotes!TypeOK
<1> SUFFICES ASSUME QuoteInv PROVE Quotes!TypeOK
  OBVIOUS
<1>1. Quotes!Books = QuoteBooks
  BY DEF Quotes!Books, QuoteBooks
<1>2. \A k \in DOMAIN queue : queue[k] \in QuoteBooks
  BY Elements DEF QuoteInv, QuoteTyped
<1>3. ASSUME NEW c \in Callers
      PROVE  /\ callers[c].at \in {"idle", "stats", "check", "ask", "rest", "store", "finish"}
             /\ callers[c].read \in QuoteBooks /\ callers[c].error \in {"yes", "no"}
  <2>1. callers[c] \in QuoteCalls
    BY DEF QuoteInv, QuoteTyped
  <2> QED
    BY <2>1 DEF QuoteCalls
<1> QED
  BY <1>1, <1>2, <1>3 DEF QuoteInv, QuoteTyped, Quotes!TypeOK, Quotes!Version

-----------------------------------------------------------------------------
(* Orders whose requests are answered: never refused for stale data. *)

LEMMA OrderNumbers ==
  /\ MaxOrderTime \in Nat /\ MaxVersion \in Nat \ {0} /\ QueueSize \in Nat \ {0} /\ Lag \in Nat
  /\ SECOND \in Nat \ {0} /\ FRESH \in Nat /\ STALE \in Nat
  /\ STALE * SECOND \in Nat /\ Lag <= STALE * SECOND /\ FRESH * SECOND <= STALE * SECOND
<1>1. /\ MaxOrderTime \in Nat /\ MaxVersion \in Nat \ {0} /\ QueueSize \in Nat \ {0} /\ Lag \in Nat
      /\ SECOND \in Nat \ {0} /\ FRESH \in Nat /\ STALE \in Nat
      /\ Lag <= STALE * SECOND /\ FRESH <= STALE
  BY OrdersAssumed DEF Orders!MarketAssumption
<1>2. \A f, s, t \in Nat : f <= s => f * t <= s * t /\ s * t \in Nat
  OBVIOUS
<1> QED
  BY <1>1, <1>2

OrderBooks == [version : 0 .. MaxVersion, at : 0 .. MaxOrderTime]
OrderCalls ==
  [at : {"idle", "stats", "check", "ask", "rest", "store", "finish"}, kind : {"none", "order"},
   read : OrderBooks, error : {"no"}]

\* A book to trade at.
Good(b) == b.version # 0 /\ b.at <= calmNow /\ calmNow - b.at <= STALE * SECOND

OrderTyped ==
  /\ calmNow \in 0 .. MaxOrderTime
  /\ calmMoved \in Seq(0 .. MaxOrderTime) /\ Len(calmMoved) \in 1 .. MaxVersion
  /\ calmQueue \in Seq(OrderBooks) /\ calmBook \in OrderBooks
  /\ calmCallers \in [Callers -> OrderCalls] /\ calmStats \in {"none", "loaded"}

\* What waits for the pump or was received now will do, and what will do does so until the
\* order that found it is placed.
OrderAges ==
  /\ calmBook.at <= calmNow
  /\ \A k \in DOMAIN calmQueue :
       /\ calmQueue[k].version # 0 /\ calmQueue[k].at <= calmNow /\ calmNow - calmQueue[k].at <= Lag
  /\ \A c \in Callers :
       /\ calmCallers[c].at \in {"rest", "store"} => calmCallers[c].read.version # 0
       /\ calmCallers[c].at = "store" => calmCallers[c].read.at = calmNow
       /\ calmCallers[c].at = "finish" => Good(calmBook)
       /\ calmCallers[c].at # "idle" => calmCallers[c].kind = "order"

OrderInv == OrderTyped /\ OrderAges /\ Orders!NoNeedlessRefusal

LEMMA OrderIdle ==
  Orders!NoBook \in OrderBooks /\ Orders!Idle \in OrderCalls /\ Orders!Idle.at = "idle"
<1>1. Orders!NoBook \in OrderBooks
  BY OrderNumbers DEF Orders!NoBook, OrderBooks
<1> QED
  BY <1>1 DEF Orders!Idle, OrderCalls

LEMMA OrderStart == Orders!Init => OrderInv
<1> SUFFICES ASSUME Orders!Init PROVE OrderInv
  OBVIOUS
<1>1. calmMoved \in Seq(0 .. MaxOrderTime) /\ Len(calmMoved) = 1
  BY OrderNumbers DEF Orders!Init
<1>2. OrderTyped
  BY <1>1, OrderIdle, OrderNumbers DEF Orders!Init, OrderTyped
<1>3. calmQueue = << >> /\ calmBook.at = 0 /\ calmNow = 0 /\ \A c \in Callers : calmCallers[c].at = "idle"
  BY OrderIdle DEF Orders!Init, Orders!NoBook
<1>4. OrderAges
  BY <1>3 DEF OrderAges
<1> QED
  BY <1>2, <1>4 DEF OrderInv, Orders!Init, Orders!None, Orders!NoNeedlessRefusal

\* A call goes one step further; the book stays, or is a good one.
LEMMA OrderOwn ==
  ASSUME OrderInv, NEW c \in Callers, NEW r \in OrderCalls,
         calmCallers' = [calmCallers EXCEPT ![c] = r], UNCHANGED <<calmNow, calmMoved, calmQueue>>,
         calmBook' = calmBook \/ (calmBook' \in OrderBooks /\ Good(calmBook')),
         calmStats' \in {"none", "loaded"}, Orders!NoNeedlessRefusal',
         r.at \in {"rest", "store"} => r.read.version # 0,
         r.at = "store" => r.read.at = calmNow,
         r.at = "finish" => Good(calmBook'),
         r.at # "idle" => r.kind = "order"
  PROVE  OrderInv'
<1>1. \A d \in Callers : calmCallers'[d] = IF d = c THEN r ELSE calmCallers[d]
  BY DEF OrderInv, OrderTyped
<1>2. OrderTyped'
  BY DEF OrderInv, OrderTyped
<1>3. \A b : Good(b)' <=> Good(b)
  BY DEF Good
<1>4. OrderAges'
  <2>1. calmBook'.at <= calmNow
    BY DEF OrderInv, OrderAges, Good
  <2>2. ASSUME NEW d \in Callers
        PROVE  /\ calmCallers'[d].at \in {"rest", "store"} => calmCallers'[d].read.version # 0
               /\ calmCallers'[d].at = "store" => calmCallers'[d].read.at = calmNow
               /\ calmCallers'[d].at = "finish" => Good(calmBook')
               /\ calmCallers'[d].at # "idle" => calmCallers'[d].kind = "order"
    <3>1. CASE d = c
      BY <1>1, <3>1
    <3>2. CASE d # c
      BY <1>1, <3>2 DEF OrderInv, OrderAges
    <3> QED
      BY <3>1, <3>2
  <2>3. \A d \in Callers : calmCallers'[d].at = "finish" => Good(calmBook)'
    BY <2>2 DEF Good
  <2> QED
    BY <2>1, <2>2, <2>3 DEF OrderInv, OrderAges
<1> QED
  BY <1>2, <1>4 DEF OrderInv

LEMMA OrderAsks ==
  ASSUME OrderInv, NEW c \in Callers,
         Orders!Call(c) \/ Orders!StatsCome(c) \/ Orders!Check(c) \/ Orders!Served(c) \/ Orders!Received(c)
  PROVE  OrderInv'
<1>1. /\ calmCallers[c] \in OrderCalls /\ calmBook \in OrderBooks /\ calmBook.at <= calmNow
      /\ calmStats \in {"none", "loaded"} /\ calmNow \in 0 .. MaxOrderTime
      /\ calmCallers \in [Callers -> OrderCalls]
      /\ calmCallers[c].at \in {"rest", "store"} => calmCallers[c].read.version # 0
      /\ calmCallers[c].at # "idle" => calmCallers[c].kind = "order"
      /\ Orders!NoNeedlessRefusal
  BY DEF OrderInv, OrderTyped, OrderAges
<1>2. UNCHANGED <<calmNow, calmMoved, calmQueue, calmBook>>
  BY DEF Orders!Call, Orders!StatsCome, Orders!Check, Orders!Served, Orders!Received, Orders!world
<1>3. CASE Orders!Call(c)
  <2>1. CASE calmListed
    <3> DEFINE r == [Orders!Idle EXCEPT !.at = IF calmStats = "none" THEN "stats" ELSE "check", !.kind = "order"]
    <3>1. calmCallers' = [calmCallers EXCEPT ![c] = r] /\ calmStats' = calmStats /\ calmResult' = calmResult
      BY <1>3, <2>1 DEF Orders!Call
    <3>2. r \in OrderCalls /\ r.at \in {"stats", "check"} /\ r.kind = "order"
      BY OrderIdle DEF OrderCalls
    <3>3. Orders!NoNeedlessRefusal'
      BY <1>1, <3>1 DEF Orders!NoNeedlessRefusal
    <3> HIDE DEF r
    <3> QED
      BY <1>1, <1>2, <3>1, <3>2, <3>3, OrderOwn
  <2>2. CASE ~ calmListed
    <3>1. UNCHANGED <<calmCallers, calmStats>> /\ calmResult'.outcome = "unknown"
      BY <1>3, <2>2 DEF Orders!Call, Orders!Answer
    <3>2. Orders!NoNeedlessRefusal'
      BY <3>1 DEF Orders!NoNeedlessRefusal
    <3> QED
      BY <1>2, <3>1, <3>2 DEF OrderInv, OrderTyped, OrderAges, Good
  <2> QED
    BY <2>1, <2>2
<1>4. CASE Orders!StatsCome(c)
  <2> DEFINE r == [calmCallers[c] EXCEPT !.at = "check"]
  <2>1. calmCallers' = [calmCallers EXCEPT ![c] = r] /\ calmStats' \in {"none", "loaded"}
        /\ Orders!NoNeedlessRefusal' /\ calmCallers[c].at = "stats"
    BY <1>1, <1>4 DEF Orders!StatsCome, Orders!Go, Orders!NoNeedlessRefusal
  <2>2. r \in OrderCalls /\ r.at = "check" /\ r.kind = "order"
    BY <1>1, <2>1 DEF OrderCalls
  <2> HIDE DEF r
  <2> QED
    BY <1>1, <1>2, <2>1, <2>2, OrderOwn
<1>5. CASE Orders!Check(c)
  <2> DEFINE r == [calmCallers[c] EXCEPT !.at =
                     IF calmBook.version # 0 /\ Orders!Fresh(Orders!Age) THEN "finish" ELSE "ask"]
  <2>1. calmCallers' = [calmCallers EXCEPT ![c] = r] /\ calmStats' = calmStats
        /\ Orders!NoNeedlessRefusal' /\ calmCallers[c].at = "check"
    BY <1>1, <1>5 DEF Orders!Check, Orders!NoNeedlessRefusal
  <2>2. r \in OrderCalls /\ r.at \in {"finish", "ask"} /\ r.kind = "order"
    BY <1>1, <2>1 DEF OrderCalls
  <2>3. r.at = "finish" => Good(calmBook)
    <3>1. r.at = "finish" => calmBook.version # 0 /\ calmNow - calmBook.at <= FRESH * SECOND
      BY <1>1 DEF OrderCalls, Orders!Fresh, Orders!Age
    <3>2. calmBook.at \in Int /\ calmNow \in Int /\ FRESH * SECOND \in Int
      BY <1>1, OrderNumbers DEF OrderBooks
    <3> HIDE DEF r
    <3> QED
      BY <1>1, <3>1, <3>2, OrderNumbers DEF Good
  <2>4. Good(calmBook') <=> Good(calmBook)
    BY <1>2
  <2> HIDE DEF r
  <2> QED
    BY <1>1, <1>2, <2>1, <2>2, <2>3, <2>4, OrderOwn
<1>6. CASE Orders!Served(c)
  <2> DEFINE b == [version |-> Orders!Version, at |-> calmNow]
             r == [calmCallers[c] EXCEPT !.at = "rest", !.read = b]
  <2>1. calmCallers' = [calmCallers EXCEPT ![c] = r] /\ calmStats' = calmStats
        /\ Orders!NoNeedlessRefusal' /\ calmCallers[c].at = "ask"
    BY <1>1, <1>6 DEF Orders!Served, Orders!NoNeedlessRefusal
  <2>2. b \in OrderBooks /\ b.version # 0
    BY <1>1 DEF OrderBooks, Orders!Version, OrderInv, OrderTyped
  <2> HIDE DEF b
  <2>3. r \in OrderCalls /\ r.at = "rest" /\ r.kind = "order" /\ r.read = b
    BY <1>1, <2>1, <2>2 DEF OrderCalls
  <2> HIDE DEF r
  <2> QED
    BY <1>1, <1>2, <2>1, <2>2, <2>3, OrderOwn
<1>7. CASE Orders!Received(c)
  <2> DEFINE b == [calmCallers[c].read EXCEPT !.at = calmNow]
             r == [calmCallers[c] EXCEPT !.at = "store", !.read = b]
  <2>1. calmCallers' = [calmCallers EXCEPT ![c] = r] /\ calmStats' = calmStats
        /\ Orders!NoNeedlessRefusal' /\ calmCallers[c].at = "rest"
    BY <1>1, <1>7 DEF Orders!Received, Orders!Stamped, Orders!NoNeedlessRefusal
  <2>2. calmCallers[c].read \in OrderBooks /\ calmCallers[c].read.version # 0
    BY <1>1, <2>1 DEF OrderCalls
  <2>3. b \in OrderBooks /\ b.at = calmNow /\ b.version # 0
    BY <1>1, <2>2 DEF OrderBooks
  <2> HIDE DEF b
  <2>4. r \in OrderCalls /\ r.read = b /\ r.at = "store" /\ r.kind = "order"
    BY <1>1, <2>1, <2>3 DEF OrderCalls
  <2> HIDE DEF r
  <2> QED
    BY <1>1, <1>2, <2>1, <2>3, <2>4, OrderOwn
<1> QED
  BY <1>3, <1>4, <1>5, <1>6, <1>7

LEMMA OrderEnds ==
  ASSUME OrderInv, NEW c \in Callers,
         Orders!Store(c) \/ Orders!Fails(c) \/ Orders!Quote(c) \/ Orders!Place(c)
  PROVE  OrderInv'
<1>1. /\ calmCallers[c] \in OrderCalls /\ calmBook \in OrderBooks /\ calmBook.at <= calmNow
      /\ calmStats \in {"none", "loaded"} /\ calmNow \in 0 .. MaxOrderTime
      /\ calmCallers \in [Callers -> OrderCalls]
      /\ calmCallers[c].at # "idle" => calmCallers[c].kind = "order"
      /\ Orders!NoNeedlessRefusal
  BY DEF OrderInv, OrderTyped, OrderAges
<1>2. ~ Orders!Fails(c) /\ ~ Orders!Quote(c)
  BY <1>1 DEF Orders!Fails, Orders!Quote
<1>3. UNCHANGED <<calmNow, calmMoved, calmQueue, calmStats>>
  BY <1>2 DEF Orders!Store, Orders!Place, Orders!world
<1>4. CASE Orders!Store(c)
  <2> DEFINE r == [calmCallers[c] EXCEPT !.at = "finish", !.read = Orders!NoBook]
  <2>1. calmCallers' = [calmCallers EXCEPT ![c] = r] /\ calmBook' = calmCallers[c].read
        /\ Orders!NoNeedlessRefusal' /\ calmCallers[c].at = "store"
    BY <1>1, <1>4 DEF Orders!Store, Orders!NoNeedlessRefusal
  <2>2. r \in OrderCalls /\ r.at = "finish" /\ r.kind = "order" /\ calmCallers[c].read \in OrderBooks
    BY <1>1, <2>1, OrderIdle DEF OrderCalls
  <2>3. calmBook' \in OrderBooks /\ calmBook'.at = calmNow /\ calmBook'.version # 0
    BY <2>1, <2>2 DEF OrderInv, OrderAges
  <2>4. Good(calmBook')
    BY <1>1, <2>3, OrderNumbers DEF Good
  <2> HIDE DEF r
  <2>5. calmStats' \in {"none", "loaded"}
    BY <1>1, <1>3
  <2> QED
    BY <1>3, <2>1, <2>2, <2>3, <2>4, <2>5, OrderOwn
<1>5. CASE Orders!Place(c)
  <2>1. calmCallers' = [calmCallers EXCEPT ![c] = Orders!Idle] /\ calmBook' = calmBook
        /\ calmCallers[c].at = "finish" /\ calmCallers[c].error = "no"
    BY <1>1, <1>5 DEF Orders!Place, OrderCalls
  <2>2. Good(calmBook)
    BY <2>1 DEF OrderInv, OrderAges
  <2>3. calmBook.version # 0 /\ ~ (Orders!Age > STALE * SECOND)
    <3>1. calmBook.at \in Int /\ calmNow \in Int
      BY <1>1 DEF OrderBooks
    <3> QED
      BY <2>2, <3>1, OrderNumbers DEF Good, Orders!Age
  <2>4. Orders!Outcome(c, Orders!Age > STALE * SECOND) = "fair"
    BY <2>1, <2>3 DEF Orders!Outcome
  <2>5. Orders!NoNeedlessRefusal'
    BY <1>5, <2>4 DEF Orders!Place, Orders!Answer, Orders!NoNeedlessRefusal
  <2> QED
    BY <1>1, <1>3, <2>1, <2>5, OrderIdle, OrderOwn
<1> QED
  BY <1>2, <1>4, <1>5

LEMMA OrderQueued ==
  ASSUME OrderInv, NEW b \in OrderBooks, b.at = calmNow, b.version # 0, calmQueue' = Append(calmQueue, b)
  PROVE  /\ calmQueue' \in Seq(OrderBooks)
         /\ \A k \in DOMAIN calmQueue' :
              /\ calmQueue'[k].version # 0 /\ calmQueue'[k].at <= calmNow
              /\ calmNow - calmQueue'[k].at <= Lag
<1>1. calmQueue \in Seq(OrderBooks) /\ calmNow \in Int
  BY DEF OrderInv, OrderTyped
<1>2. calmQueue' \in Seq(OrderBooks)
      /\ \A k \in DOMAIN calmQueue' : (k \in DOMAIN calmQueue /\ calmQueue'[k] = calmQueue[k]) \/ calmQueue'[k] = b
  BY <1>1, Appended
<1> QED
  BY <1>1, <1>2, OrderNumbers DEF OrderInv, OrderAges

LEMMA OrderWorld ==
  ASSUME OrderInv,
         Orders!Moves \/ Orders!Reconnect \/ Orders!Disconnect \/ Orders!Pump \/ Orders!Passes
  PROVE  OrderInv'
<1>1. /\ calmBook \in OrderBooks /\ calmBook.at \in Int /\ calmNow \in 0 .. MaxOrderTime /\ calmBook.at <= calmNow
      /\ calmMoved \in Seq(0 .. MaxOrderTime) /\ Len(calmMoved) \in 1 .. MaxVersion /\ calmQueue \in Seq(OrderBooks)
      /\ calmCallers \in [Callers -> OrderCalls] /\ Orders!NoNeedlessRefusal
  BY DEF OrderInv, OrderTyped, OrderAges, OrderBooks
<1>2. UNCHANGED <<calmCallers, calmStats, calmResult>>
  BY DEF Orders!Moves, Orders!Reconnect, Orders!Disconnect, Orders!Pump, Orders!Passes
<1>3. Orders!NoNeedlessRefusal'
  BY <1>1, <1>2 DEF Orders!NoNeedlessRefusal
<1>4. CASE Orders!Moves
  <2> DEFINE b == [version |-> Len(calmMoved) + 1, at |-> calmNow]
  <2>1. b \in OrderBooks /\ b.at = calmNow /\ b.version # 0
    BY <1>1, <1>4, OrderNumbers DEF Orders!Moves, Orders!Version, OrderBooks
  <2>2. calmQueue' = calmQueue \/ calmQueue' = Append(calmQueue, b)
    BY <1>4 DEF Orders!Moves, Orders!Version
  <2> HIDE DEF b
  <2>3. calmMoved' \in Seq(0 .. MaxOrderTime) /\ Len(calmMoved') \in 1 .. MaxVersion
    BY <1>1, <1>4, OrderNumbers DEF Orders!Moves, Orders!Version
  <2>4. UNCHANGED <<calmNow, calmBook>>
    BY <1>4 DEF Orders!Moves
  <2>5. OrderTyped' /\ OrderAges'
    BY <1>1, <1>2, <2>1, <2>2, <2>3, <2>4, OrderQueued DEF OrderInv, OrderTyped, OrderAges, Good
  <2> QED
    BY <1>3, <2>5 DEF OrderInv
<1>5. CASE Orders!Reconnect
  <2> DEFINE b == [version |-> Len(calmMoved), at |-> calmNow]
  <2>1. b \in OrderBooks /\ b.at = calmNow /\ b.version # 0
    BY <1>1, OrderNumbers DEF OrderBooks
  <2>2. calmQueue' = Append(calmQueue, b) /\ UNCHANGED <<calmNow, calmMoved, calmBook>>
    BY <1>5 DEF Orders!Reconnect, Orders!Version
  <2> HIDE DEF b
  <2>5. OrderTyped' /\ OrderAges'
    BY <1>1, <1>2, <2>1, <2>2, OrderQueued DEF OrderInv, OrderTyped, OrderAges, Good
  <2> QED
    BY <1>3, <2>5 DEF OrderInv
<1>6. CASE Orders!Disconnect
  BY <1>3, <1>6 DEF Orders!Disconnect, OrderInv, OrderTyped, OrderAges, Good
<1>7. CASE Orders!Pump
  <2>1. /\ calmQueue # << >> /\ calmBook' = Head(calmQueue) /\ calmQueue' = Tail(calmQueue)
        /\ UNCHANGED <<calmNow, calmMoved>>
    BY <1>7 DEF Orders!Pump
  <2>2. /\ 1 \in DOMAIN calmQueue /\ calmQueue[1] \in OrderBooks /\ calmBook' = calmQueue[1]
        /\ calmQueue' \in Seq(OrderBooks)
        /\ \A k \in DOMAIN calmQueue' : k + 1 \in DOMAIN calmQueue /\ calmQueue'[k] = calmQueue[k + 1]
    BY <1>1, <2>1, Tails
  <2>3. /\ calmQueue[1].at \in Int /\ calmQueue[1].version # 0
        /\ calmQueue[1].at <= calmNow /\ calmNow - calmQueue[1].at <= Lag
    BY <2>2 DEF OrderInv, OrderAges, OrderBooks
  <2>4. Good(calmBook)'
    BY <1>1, <2>1, <2>2, <2>3, OrderNumbers DEF Good
  <2>5. OrderTyped'
    BY <1>2, <2>1, <2>2 DEF OrderInv, OrderTyped
  <2>6. OrderAges'
    BY <1>2, <2>1, <2>2, <2>3, <2>4 DEF OrderInv, OrderAges
  <2> QED
    BY <1>3, <2>5, <2>6 DEF OrderInv
<1>8. CASE Orders!Passes
  <2>1. /\ calmNow' = calmNow + 1 /\ calmNow < MaxOrderTime /\ UNCHANGED <<calmMoved, calmQueue, calmBook>>
        /\ \A k \in DOMAIN calmQueue : calmNow - calmQueue[k].at < Lag
        /\ \A c \in Callers : calmCallers[c].at \notin {"store", "finish"}
    BY <1>8 DEF Orders!Passes
  <2>2. \A k \in DOMAIN calmQueue : calmQueue[k].at \in Int
    <3>1. \A k \in DOMAIN calmQueue : calmQueue[k] \in OrderBooks
      BY <1>1, Elements
    <3> QED
      BY <3>1 DEF OrderBooks
  <2>3. OrderTyped'
    BY <1>1, <1>2, <2>1, OrderNumbers DEF OrderInv, OrderTyped
  <2>4. OrderAges'
    BY <1>1, <1>2, <2>1, <2>2, OrderNumbers, SMTT(30) DEF OrderInv, OrderAges
  <2> QED
    BY <1>3, <2>3, <2>4 DEF OrderInv
<1> QED
  BY <1>4, <1>5, <1>6, <1>7, <1>8

LEMMA OrderStep == OrderInv /\ (Orders!Next \/ UNCHANGED calmVars) => OrderInv'
<1> SUFFICES ASSUME OrderInv, Orders!Next \/ UNCHANGED calmVars PROVE OrderInv'
  OBVIOUS
<1>1. CASE UNCHANGED calmVars
  BY <1>1 DEF calmVars, OrderInv, OrderTyped, OrderAges, Good, Orders!NoNeedlessRefusal
<1> QED
  BY <1>1, OrderWorld, OrderAsks, OrderEnds DEF Orders!Next

LEMMA OrderShows == OrderInv => Orders!TypeOK /\ Orders!NoNeedlessRefusal
<1> SUFFICES ASSUME OrderInv PROVE Orders!TypeOK /\ Orders!NoNeedlessRefusal
  OBVIOUS
<1>1. Orders!Books = OrderBooks
  BY DEF Orders!Books, OrderBooks
<1>2. \A k \in DOMAIN calmQueue : calmQueue[k] \in OrderBooks
  BY Elements DEF OrderInv, OrderTyped
<1>3. ASSUME NEW c \in Callers
      PROVE  /\ calmCallers[c].at \in {"idle", "stats", "check", "ask", "rest", "store", "finish"}
             /\ calmCallers[c].read \in OrderBooks /\ calmCallers[c].error \in {"yes", "no"}
  <2>1. calmCallers[c] \in OrderCalls
    BY DEF OrderInv, OrderTyped
  <2> QED
    BY <2>1 DEF OrderCalls
<1> QED
  BY <1>1, <1>2, <1>3 DEF OrderInv, OrderTyped, Orders!TypeOK, Orders!Version

LEMMA KrxShows == KrxInv => Krx!TypeOK
<1>1. Krx!Fetchers = Krx!Fetchers /\ Krx!Days = 2 .. MaxDay
  BY DEF Krx!Days
<1> QED
  BY <1>1 DEF KrxInv, KrxTyped, Krx!TypeOK, KrxCalls, KrxCloses, KrxBooks

LEMMA KisShows == KisInv => Kis!TypeOK
<1> SUFFICES ASSUME KisInv PROVE Kis!TypeOK
  OBVIOUS
<1>1. tokens \in [1 .. MaxTokens -> [key : Keys, left : 0 .. Life]]
  BY DEF KisInv, KisTyped, KisTokens
<1>2. kisCalls \in [Calls -> KisCalls] /\ holder \in Calls \cup {Kis!Nobody}
  BY DEF KisInv, KisTyped
<1>3. /\ {slot, file, issued, saved} \subseteq 0 .. MaxTokens
      /\ {sinceLast, sinceSend} \subseteq 0 .. MinInterval
      /\ key \in Keys
  BY DEF KisInv, KisTyped
<1> QED
  BY <1>1, <1>2, <1>3, Zenon DEF Kis!TypeOK, KisCalls

-----------------------------------------------------------------------------
(* FxCache: how old a rate can be. *)

LEMMA RateNumbers ==
  /\ MaxRateTime \in Nat /\ MaxAge \in Nat \ {0} /\ UnderWay \in Nat /\ Spacing \in Nat \ {0}
  /\ "nobody" \notin Callers
BY LookupsAssumed DEF Rates!LookupsAssumption

RateEntries == [of : -1 .. MaxRateTime, at : -1 .. MaxRateTime]
RateCalls ==
  [asks : {"nothing", "rate"}, at : {"idle", "live", "reference", "rate_given", "answered", "refused"},
   began : 0 .. MaxRateTime, copy : RateEntries, left : {<< >>}, there : {{}}, found : {{}},
   of : -1 .. MaxRateTime, failed : BOOLEAN]

RateTyped ==
  /\ hour \in 0 .. MaxRateTime /\ rate \in RateEntries
  /\ codes = -1 /\ page.at = -1 /\ last = -Spacing /\ downloads = "nobody"
  /\ questions \in [Callers -> RateCalls]

\* A rate was under way for UnderWay at most, when it was stored and when one is now.
RateAges ==
  /\ rate.at <= hour
  /\ rate.at # -1 => rate.of <= rate.at /\ rate.at - rate.of <= UnderWay
  /\ \A c \in Callers :
       /\ questions[c].began <= hour
       /\ questions[c].at = "rate_given" =>
            /\ questions[c].began <= questions[c].of /\ questions[c].of <= hour
            /\ hour - questions[c].of <= UnderWay

RateInv == RateTyped /\ RateAges /\ Rates!AnswersFresh

LEMMA RateIdle ==
  /\ Rates!NotThere \in RateEntries /\ Rates!IdleCall \in RateCalls
  /\ Rates!IdleCall.at = "idle" /\ Rates!NotThere.at = -1
<1>1. Rates!NotThere \in RateEntries /\ Rates!NotThere.at = -1
  BY RateNumbers DEF Rates!NotThere, Rates!Never, RateEntries
<1> QED
  BY <1>1, RateNumbers DEF Rates!IdleCall, RateCalls

LEMMA RateStart == Rates!Init => RateInv
<1> SUFFICES ASSUME Rates!Init PROVE RateInv
  OBVIOUS
<1>1. RateTyped
  BY RateIdle, RateNumbers DEF Rates!Init, RateTyped, Rates!Never, Rates!NoOne
<1>2. rate.at = -1 /\ hour = 0 /\ \A c \in Callers : questions[c].at = "idle" /\ questions[c].began = 0
  BY RateIdle DEF Rates!Init, Rates!IdleCall
<1> QED
  BY <1>1, <1>2 DEF RateInv, RateAges, Rates!AnswersFresh

\* A call goes one step further.
LEMMA RateOwn ==
  ASSUME RateInv, NEW c \in Callers, NEW r \in RateCalls,
         questions' = [questions EXCEPT ![c] = r], UNCHANGED <<hour, codes, page, last, downloads>>,
         rate' \in RateEntries, rate'.at <= hour, r.began <= hour,
         rate'.at # -1 => rate'.of <= rate'.at /\ rate'.at - rate'.of <= UnderWay,
         r.at = "rate_given" => r.began <= r.of /\ r.of <= hour /\ hour - r.of <= UnderWay,
         r.at = "answered" /\ ~ r.failed => r.began - r.of < MaxAge + UnderWay
  PROVE  RateInv'
<1>1. \A d \in Callers : questions'[d] = IF d = c THEN r ELSE questions[d]
  BY DEF RateInv, RateTyped
<1>2. RateTyped'
  BY DEF RateInv, RateTyped
<1>3. RateAges'
  BY <1>1 DEF RateInv, RateAges
<1>4. r.asks # "page" /\ \A d \in Callers : questions[d].asks # "page"
  BY DEF RateInv, RateTyped, RateCalls
<1>5. Rates!AnswersFresh'
  BY <1>1, <1>4 DEF RateInv, Rates!AnswersFresh
<1> QED
  BY <1>2, <1>3, <1>5 DEF RateInv

LEMMA RateAsks ==
  ASSUME RateInv, NEW c \in Callers, Rates!AskRate(c)
  PROVE  RateInv'
<1>1. /\ rate \in RateEntries /\ hour \in 0 .. MaxRateTime /\ rate.at <= hour
      /\ rate.at # -1 => rate.of <= rate.at /\ rate.at - rate.of <= UnderWay
      /\ rate.of \in Int /\ rate.at \in Int /\ rate.of \in -1 .. MaxRateTime
  BY DEF RateInv, RateTyped, RateAges, RateEntries
<1>2. UNCHANGED <<rate, hour, codes, page, last, downloads>>
  BY DEF Rates!AskRate, Rates!rateUnchanged
<1>3. CASE Rates!IsFresh(rate.at, MaxAge)
  <2> DEFINE i == [Rates!IdleCall EXCEPT !.asks = "rate", !.at = "answered", !.began = hour, !.copy = rate, !.of = rate.of]
  <2>1. questions' = [questions EXCEPT ![c] = i]
    BY <1>3 DEF Rates!AskRate, Rates!Answered
  <2>2. i \in RateCalls /\ i.at = "answered" /\ i.began = hour /\ i.of = rate.of
    BY <1>1, RateIdle DEF RateCalls
  <2>3. hour - rate.of < MaxAge + UnderWay
    BY <1>1, <1>3, RateNumbers DEF Rates!IsFresh, Rates!Never
  <2>4. i.at # "rate_given" /\ i.began <= hour /\ (i.at = "answered" => i.began - i.of < MaxAge + UnderWay)
    BY <1>1, <2>2, <2>3, RateNumbers
  <2>5. /\ rate' \in RateEntries /\ rate'.at <= hour
        /\ rate'.at # -1 => rate'.of <= rate'.at /\ rate'.at - rate'.of <= UnderWay
    BY <1>1, <1>2
  <2> HIDE DEF i
  <2> QED
    BY <1>2, <2>1, <2>2, <2>4, <2>5, RateOwn
<1>4. CASE ~ Rates!IsFresh(rate.at, MaxAge)
  <2> DEFINE s == IF Live THEN "live" ELSE "reference"
             i == [Rates!IdleCall EXCEPT !.asks = "rate", !.at = s, !.began = hour, !.copy = rate]
  <2>1. questions' = [questions EXCEPT ![c] = i]
    BY <1>4 DEF Rates!AskRate, Rates!Begins
  <2>2. s \in {"live", "reference"}
    OBVIOUS
  <2> HIDE DEF s
  <2>3. i \in RateCalls /\ i.at = s /\ i.began = hour
    BY <1>1, <2>2, RateIdle DEF RateCalls
  <2>4. i.at # "rate_given" /\ i.began <= hour /\ i.at # "answered"
    BY <1>1, <2>2, <2>3, RateNumbers
  <2>5. /\ rate' \in RateEntries /\ rate'.at <= hour
        /\ rate'.at # -1 => rate'.of <= rate'.at /\ rate'.at - rate'.of <= UnderWay
    BY <1>1, <1>2
  <2> HIDE DEF i
  <2> QED
    BY <1>2, <2>1, <2>3, <2>4, <2>5, RateOwn
<1> QED
  BY <1>3, <1>4

LEMMA RateGoes ==
  ASSUME RateInv, NEW c \in Callers,
         Rates!GiveRate(c) \/ Rates!LiveFails(c) \/ Rates!StoreRate(c) \/ Rates!ReferenceFails(c)
  PROVE  RateInv'
<1>1. /\ rate \in RateEntries /\ hour \in 0 .. MaxRateTime /\ rate.at <= hour
      /\ rate.at # -1 => rate.of <= rate.at /\ rate.at - rate.of <= UnderWay
      /\ questions[c] \in RateCalls /\ questions \in [Callers -> RateCalls]
  BY DEF RateInv, RateTyped, RateAges
<1>2. /\ questions[c].began \in 0 .. MaxRateTime /\ questions[c].of \in -1 .. MaxRateTime
      /\ questions[c].copy \in RateEntries /\ questions[c].began <= hour
  BY <1>1 DEF RateCalls, RateInv, RateAges
<1>3. UNCHANGED <<hour, codes, page, last, downloads>>
  BY DEF Rates!GiveRate, Rates!LiveFails, Rates!StoreRate, Rates!ReferenceFails, Rates!rateUnchanged
<1>4. CASE Rates!GiveRate(c)
  <2> DEFINE r == [questions[c] EXCEPT !.at = "rate_given", !.of = hour]
  <2>1. questions' = [questions EXCEPT ![c] = r] /\ rate' = rate
    BY <1>1, <1>4 DEF Rates!GiveRate, Rates!Given
  <2>2. hour \in -1 .. MaxRateTime /\ hour <= hour /\ hour - hour <= UnderWay
    BY <1>1, RateNumbers
  <2>3. r \in RateCalls /\ r.at = "rate_given" /\ r.of = hour /\ r.began = questions[c].began
    BY <1>1, <2>2 DEF RateCalls
  <2> HIDE DEF r
  <2> QED
    BY <1>1, <1>2, <1>3, <2>1, <2>2, <2>3, RateOwn
<1>5. CASE Rates!LiveFails(c)
  <2> DEFINE r == [questions[c] EXCEPT !.at = "reference"]
  <2>1. questions' = [questions EXCEPT ![c] = r] /\ rate' = rate
    BY <1>1, <1>5 DEF Rates!LiveFails, Rates!Go
  <2>2. r \in RateCalls /\ r.at = "reference" /\ r.began = questions[c].began
    BY <1>1 DEF RateCalls
  <2> HIDE DEF r
  <2> QED
    BY <1>1, <1>2, <1>3, <2>1, <2>2, RateOwn
<1>6. CASE Rates!StoreRate(c)
  <2> DEFINE r == [questions[c] EXCEPT !.at = "answered", !.of = questions[c].of]
             e == [of |-> questions[c].of, at |-> hour]
  <2>1. questions' = [questions EXCEPT ![c] = r] /\ rate' = e
    BY <1>1, <1>6 DEF Rates!StoreRate, Rates!Replies, Rates!Stored
  <2>2. r \in RateCalls /\ r.at = "answered" /\ r.of = questions[c].of /\ r.began = questions[c].began
    BY <1>1 DEF RateCalls
  <2>3. /\ questions[c].began <= questions[c].of /\ questions[c].of <= hour
        /\ hour - questions[c].of <= UnderWay
    BY <1>6 DEF RateInv, RateAges, Rates!StoreRate
  <2>4. e \in RateEntries /\ e.of = questions[c].of /\ e.at = hour
    BY <1>1, <1>2 DEF RateEntries
  <2>5. r.began - r.of < MaxAge + UnderWay /\ hour <= hour
    BY <1>1, <1>2, <2>2, <2>3, RateNumbers
  <2> HIDE DEF r, e
  <2> QED
    BY <1>1, <1>2, <1>3, <2>1, <2>2, <2>3, <2>4, <2>5, RateOwn
<1>7. CASE Rates!ReferenceFails(c)
  <2>1. rate' = rate
    BY <1>7 DEF Rates!ReferenceFails, Rates!AfterFailure
  <2>2. CASE questions[c].copy = Rates!NotThere
    <3> DEFINE r == [questions[c] EXCEPT !.at = "refused", !.failed = TRUE]
    <3>1. questions' = [questions EXCEPT ![c] = r]
      BY <1>1, <1>7, <2>2 DEF Rates!ReferenceFails, Rates!Errs
    <3>2. r \in RateCalls /\ r.at = "refused" /\ r.began = questions[c].began
      BY <1>1 DEF RateCalls
    <3> HIDE DEF r
    <3> QED
      BY <1>1, <1>2, <1>3, <2>1, <3>1, <3>2, RateOwn
  <2>3. CASE questions[c].copy # Rates!NotThere
    <3> DEFINE r == [questions[c] EXCEPT !.at = "answered", !.of = questions[c].copy.of, !.failed = TRUE]
    <3>1. questions' = [questions EXCEPT ![c] = r]
      BY <1>1, <1>7, <2>3 DEF Rates!ReferenceFails
    <3>2. questions[c].copy.of \in -1 .. MaxRateTime
      BY <1>2 DEF RateEntries
    <3>3. r \in RateCalls /\ r.at = "answered" /\ r.failed /\ r.began = questions[c].began
      BY <1>1, <3>2 DEF RateCalls
    <3> HIDE DEF r
    <3> QED
      BY <1>1, <1>2, <1>3, <2>1, <3>1, <3>3, RateOwn
  <2> QED
    BY <2>2, <2>3
<1> QED
  BY <1>4, <1>5, <1>6, <1>7

LEMMA RatePasses ==
  ASSUME RateInv, Rates!Passes
  PROVE  RateInv'
<1>1. hour' = hour + 1 /\ hour' \in 0 .. MaxRateTime /\ UNCHANGED <<rate, codes, downloads, page, last, questions>>
  BY RateNumbers DEF Rates!Passes, RateInv, RateTyped
<1>2. ASSUME NEW c \in Callers
      PROVE  /\ questions[c].of \in Int /\ questions[c].began \in Int
             /\ questions[c].at = "rate_given" => hour - questions[c].of < UnderWay
  <2>1. questions[c] \in RateCalls
    BY DEF RateInv, RateTyped
  <2> QED
    BY <2>1 DEF RateCalls, Rates!Passes
<1>3. rate.at \in Int /\ hour \in Int
  BY DEF RateInv, RateTyped, RateEntries
<1>4. RateTyped'
  BY <1>1 DEF RateInv, RateTyped
<1>5. RateAges'
  BY <1>1, <1>2, <1>3, RateNumbers DEF RateInv, RateAges
<1> QED
  BY <1>1, <1>4, <1>5 DEF RateInv, Rates!AnswersFresh

LEMMA RateStep == RateInv /\ (Rates!Next \/ UNCHANGED lookupVars) => RateInv'
<1> SUFFICES ASSUME RateInv, Rates!Next \/ UNCHANGED lookupVars PROVE RateInv'
  OBVIOUS
<1>1. CASE UNCHANGED lookupVars
  BY <1>1 DEF lookupVars, RateInv, RateTyped, RateAges, Rates!AnswersFresh
<1>2. \A c \in Callers : questions[c].at \in {"idle", "live", "reference", "rate_given", "answered", "refused"}
  BY DEF RateInv, RateTyped, RateCalls
<1>3. ASSUME NEW c \in Callers,
             \/ Rates!LockCodes(c) \/ Rates!StoreCodes(c) \/ Rates!CodesFail(c) \/ Rates!CachedReport(c)
             \/ Rates!GiveReport(c) \/ Rates!StoreReport(c) \/ Rates!NoReport(c) \/ Rates!ReportFails(c)
             \/ Rates!LockTurn(c) \/ Rates!SendPage(c) \/ Rates!StorePage(c) \/ Rates!PageFails(c)
             \/ Rates!AskFinancials(c) \/ Rates!AskPage(c)
      PROVE  FALSE
  BY <1>2, <1>3
     DEF Rates!LockCodes, Rates!StoreCodes, Rates!CodesFail, Rates!CachedReport, Rates!GiveReport,
         Rates!StoreReport, Rates!NoReport, Rates!ReportFails, Rates!LockTurn, Rates!SendPage,
         Rates!StorePage, Rates!PageFails, Rates!AskFinancials, Rates!AskPage, Rates!MayAsk
<1>4. ASSUME NEW r \in Rates!Reports, Rates!Files(r) PROVE FALSE
  BY <1>4 DEF Rates!Files
<1> QED
  BY <1>1, <1>3, <1>4, RateAsks, RateGoes, RatePasses DEF Rates!Next

LEMMA RateShows == RateInv => Rates!TypeOK /\ Rates!AnswersFresh
<1> SUFFICES ASSUME RateInv PROVE Rates!TypeOK
  BY DEF RateInv
<1>1. \A c \in Callers : questions[c].at # "codes"
  BY DEF RateInv, RateTyped, RateCalls
<1>2. rate.at \in -1 .. MaxRateTime
  BY DEF RateInv, RateTyped, RateEntries
<1> QED
  BY <1>1, <1>2, RateNumbers DEF RateInv, RateTyped, Rates!TypeOK, Rates!NoOne

-----------------------------------------------------------------------------
(* EdgarClient: how old a page can be, and how far apart requests are. *)

LEMMA PageNumbers ==
  /\ MaxPageTime \in Nat /\ PageLife \in Nat \ {0} /\ UnderWay \in Nat /\ Spacing \in Nat \ {0}
  /\ "nobody" \notin Callers
BY LookupsAssumed DEF Pages!LookupsAssumption

PageEntries == [of : -1 .. MaxPageTime, at : -1 .. MaxPageTime]
PageCalls ==
  [asks : {"nothing", "page"}, at : {"idle", "want_turn", "sleeping", "page_given", "answered", "refused"},
   began : 0 .. MaxPageTime, copy : {Pages!NotThere}, left : {<< >>}, there : {{}}, found : {{}},
   of : Int, failed : BOOLEAN]

PageTyped ==
  /\ hour \in 0 .. MaxPageTime /\ page \in PageEntries
  /\ rate = Pages!NotThere /\ codes = -1 /\ last \in -Spacing .. MaxPageTime /\ downloads = "nobody"
  /\ questions \in [Callers -> PageCalls]

\* A page was under way for UnderWay at most, and the one that waits for its turn, with the
\* mutex of last, waits until Spacing after the last request.
PageAges ==
  /\ page.at <= hour
  /\ page.at # -1 => page.of <= page.at /\ page.at - page.of <= UnderWay
  /\ \A c \in Callers :
       /\ questions[c].began <= hour
       /\ questions[c].at = "page_given" =>
            /\ questions[c].began <= questions[c].of /\ questions[c].of <= hour
            /\ hour - questions[c].of <= UnderWay
       /\ questions[c].at = "sleeping" =>
            /\ questions[c].of = last + Spacing
            /\ \A d \in Callers \ {c} : questions[d].at # "sleeping"

PageInv == PageTyped /\ PageAges /\ Pages!AnswersFresh

\* Who sends a request does so Spacing after the last.
Spaced ==
  \A c \in Callers :
    questions[c].at = "sleeping" /\ questions'[c].at = "page_given" => hour - last >= Spacing

LEMMA PageIdle ==
  /\ Pages!NotThere \in PageEntries /\ Pages!IdleCall \in PageCalls
  /\ Pages!IdleCall.at = "idle" /\ Pages!NotThere.at = -1 /\ Pages!IdleCall.began = 0
<1>1. Pages!NotThere \in PageEntries /\ Pages!NotThere.at = -1
  BY PageNumbers DEF Pages!NotThere, Pages!Never, PageEntries
<1> QED
  BY <1>1, PageNumbers DEF Pages!IdleCall, PageCalls

LEMMA PageStart == Pages!Init => PageInv
<1> SUFFICES ASSUME Pages!Init PROVE PageInv
  OBVIOUS
<1>1. -Spacing \in -Spacing .. MaxPageTime
  BY PageNumbers
<1>2. PageTyped
  BY <1>1, PageIdle, PageNumbers DEF Pages!Init, PageTyped, Pages!Never, Pages!NoOne
<1>3. page.at = -1 /\ hour = 0 /\ \A c \in Callers : questions[c].at = "idle" /\ questions[c].began = 0
  BY PageIdle DEF Pages!Init
<1> QED
  BY <1>2, <1>3 DEF PageInv, PageAges, Pages!AnswersFresh

\* A call goes one step further.
LEMMA PageOwn ==
  ASSUME PageInv, NEW c \in Callers, NEW r \in PageCalls,
         questions' = [questions EXCEPT ![c] = r], UNCHANGED <<hour, rate, codes, downloads>>,
         page' \in PageEntries, page'.at <= hour, r.began <= hour,
         page'.at # -1 => page'.of <= page'.at /\ page'.at - page'.of <= UnderWay,
         r.at = "page_given" => r.began <= r.of /\ r.of <= hour /\ hour - r.of <= UnderWay,
         r.at = "answered" => r.began - r.of < PageLife + UnderWay,
         last' \in -Spacing .. MaxPageTime,
         last' # last => questions[c].at = "sleeping" /\ r.at # "sleeping",
         r.at = "sleeping" =>
           r.of = last + Spacing /\ \A d \in Callers \ {c} : questions[d].at # "sleeping",
         questions[c].at = "sleeping" /\ r.at = "page_given" => hour - last >= Spacing
  PROVE  PageInv' /\ Spaced
<1>1. \A d \in Callers : questions'[d] = IF d = c THEN r ELSE questions[d]
  BY DEF PageInv, PageTyped
<1>2. PageTyped'
  BY DEF PageInv, PageTyped
<1>3. ASSUME NEW d \in Callers, questions'[d].at = "sleeping"
      PROVE  /\ questions'[d].of = last' + Spacing
             /\ \A e \in Callers \ {d} : questions'[e].at # "sleeping"
  <2>1. CASE d = c
    BY <1>1, <1>3, <2>1
  <2>2. CASE d # c
    <3>1. questions[d].at = "sleeping"
      BY <1>1, <1>3, <2>2
    <3>2. questions[c].at # "sleeping" /\ r.at # "sleeping"
      BY <2>2, <3>1 DEF PageInv, PageAges
    <3> QED
      BY <1>1, <2>2, <3>1, <3>2 DEF PageInv, PageAges
  <2> QED
    BY <2>1, <2>2
<1>4. PageAges'
  BY <1>1, <1>3 DEF PageInv, PageAges
<1>5. r.asks # "rate" /\ \A d \in Callers : questions[d].asks # "rate"
  BY DEF PageInv, PageTyped, PageCalls
<1>6. Pages!AnswersFresh'
  BY <1>1, <1>5 DEF PageInv, Pages!AnswersFresh
<1>7. Spaced
  BY <1>1 DEF Spaced
<1> QED
  BY <1>2, <1>4, <1>6, <1>7 DEF PageInv

LEMMA PageAsks ==
  ASSUME PageInv, NEW c \in Callers, Pages!AskPage(c)
  PROVE  PageInv' /\ Spaced
<1>1. /\ page \in PageEntries /\ hour \in 0 .. MaxPageTime /\ page.at <= hour
      /\ page.at # -1 => page.of <= page.at /\ page.at - page.of <= UnderWay
      /\ page.of \in Int /\ page.at \in Int /\ rate = Pages!NotThere
      /\ last \in -Spacing .. MaxPageTime /\ hour \in Int /\ hour <= hour
  BY PageNumbers DEF PageInv, PageTyped, PageAges, PageEntries
<1>2. UNCHANGED <<page, last, hour, rate, codes, downloads>>
  BY DEF Pages!AskPage, Pages!edgarUnchanged
<1>3. /\ page' \in PageEntries /\ page'.at <= hour /\ last' = last
      /\ page'.at # -1 => page'.of <= page'.at /\ page'.at - page'.of <= UnderWay
  BY <1>1, <1>2
<1>4. questions[c].at # "sleeping"
  BY DEF Pages!AskPage, Pages!MayAsk
<1>5. CASE Pages!IsFresh(page.at, PageLife)
  <2> DEFINE i == [Pages!IdleCall EXCEPT !.asks = "page", !.at = "answered", !.began = hour, !.copy = rate, !.of = page.of]
  <2>1. questions' = [questions EXCEPT ![c] = i]
    BY <1>5 DEF Pages!AskPage, Pages!Answered
  <2>2. i \in PageCalls /\ i.at = "answered" /\ i.began = hour /\ i.of = page.of
    BY <1>1, PageIdle DEF PageCalls
  <2>3. hour - page.of < PageLife + UnderWay
    BY <1>1, <1>5, PageNumbers DEF Pages!IsFresh, Pages!Never
  <2> HIDE DEF i
  <2>4. i.at \notin {"sleeping", "page_given"} /\ i.began <= hour /\ i.began - i.of < PageLife + UnderWay
    BY <1>1, <2>2, <2>3
  <2> QED
    BY <1>1, <1>2, <1>3, <1>4, <2>1, <2>2, <2>4, PageOwn
<1>6. CASE ~ Pages!IsFresh(page.at, PageLife)
  <2> DEFINE i == [Pages!IdleCall EXCEPT !.asks = "page", !.at = "want_turn", !.began = hour, !.copy = rate]
  <2>1. questions' = [questions EXCEPT ![c] = i]
    BY <1>6 DEF Pages!AskPage, Pages!Begins
  <2>2. i \in PageCalls /\ i.at = "want_turn" /\ i.began = hour
    BY <1>1, PageIdle DEF PageCalls
  <2> HIDE DEF i
  <2>3. i.at \notin {"sleeping", "page_given", "answered"} /\ i.began <= hour
    BY <1>1, <2>2
  <2> QED
    BY <1>1, <1>2, <1>3, <1>4, <2>1, <2>2, <2>3, PageOwn
<1> QED
  BY <1>5, <1>6

LEMMA PageGoes ==
  ASSUME PageInv, NEW c \in Callers,
         Pages!LockTurn(c) \/ Pages!SendPage(c) \/ Pages!StorePage(c) \/ Pages!PageFails(c)
  PROVE  PageInv' /\ Spaced
<1>1. /\ page \in PageEntries /\ hour \in 0 .. MaxPageTime /\ page.at <= hour
      /\ page.at # -1 => page.of <= page.at /\ page.at - page.of <= UnderWay
      /\ questions[c] \in PageCalls /\ questions \in [Callers -> PageCalls]
      /\ last \in -Spacing .. MaxPageTime /\ hour \in Int /\ hour <= hour /\ last \in Int
      /\ hour \in -Spacing .. MaxPageTime /\ last + Spacing \in Int
  BY PageNumbers DEF PageInv, PageTyped, PageAges
<1>2. /\ questions[c].began \in 0 .. MaxPageTime /\ questions[c].of \in Int
      /\ questions[c].began <= hour
  BY <1>1 DEF PageCalls, PageInv, PageAges
<1>3. UNCHANGED <<hour, rate, codes, downloads>>
  BY DEF Pages!LockTurn, Pages!SendPage, Pages!StorePage, Pages!PageFails, Pages!edgarUnchanged
<1>4. CASE Pages!LockTurn(c)
  <2> DEFINE w == last + Spacing
             r == [questions[c] EXCEPT !.at = "sleeping", !.of = w]
  <2>1. questions' = [questions EXCEPT ![c] = r] /\ page' = page /\ last' = last /\ questions[c].at = "want_turn"
    BY <1>1, <1>4 DEF Pages!LockTurn
  <2>2. r \in PageCalls /\ r.at = "sleeping" /\ r.of = w /\ r.began = questions[c].began
    BY <1>1 DEF PageCalls
  <2>3. \A d \in Callers \ {c} : questions[d].at # "sleeping"
    BY <1>4 DEF Pages!LockTurn, Pages!Turn, Pages!Others
  <2> HIDE DEF r
  <2> QED
    BY <1>1, <1>2, <1>3, <2>1, <2>2, <2>3, PageOwn
<1>5. CASE Pages!SendPage(c)
  <2> DEFINE r == [questions[c] EXCEPT !.at = "page_given", !.of = hour]
  <2>1. questions' = [questions EXCEPT ![c] = r] /\ page' = page /\ last' = hour /\ questions[c].at = "sleeping"
    BY <1>1, <1>5 DEF Pages!SendPage, Pages!Given
  <2>2. r \in PageCalls /\ r.at = "page_given" /\ r.of = hour /\ r.began = questions[c].began
    BY <1>1 DEF PageCalls
  <2>3. hour - last >= Spacing
    BY <1>1, <1>5, PageNumbers DEF Pages!SendPage, PageInv, PageAges
  <2>4. r.began <= r.of /\ r.of <= hour /\ hour - r.of <= UnderWay
    BY <1>1, <1>2, <2>2, PageNumbers
  <2> HIDE DEF r
  <2> QED
    BY <1>1, <1>2, <1>3, <2>1, <2>2, <2>3, <2>4, PageOwn
<1>6. CASE Pages!StorePage(c)
  <2> DEFINE r == [questions[c] EXCEPT !.at = "answered", !.of = questions[c].of]
             e == [of |-> questions[c].of, at |-> hour]
  <2>1. questions' = [questions EXCEPT ![c] = r] /\ page' = e /\ last' = last /\ questions[c].at = "page_given"
    BY <1>1, <1>6 DEF Pages!StorePage, Pages!Replies, Pages!Stored
  <2>2. r \in PageCalls /\ r.at = "answered" /\ r.of = questions[c].of /\ r.began = questions[c].began
    BY <1>1 DEF PageCalls
  <2>3. /\ questions[c].began <= questions[c].of /\ questions[c].of <= hour
        /\ hour - questions[c].of <= UnderWay
    BY <2>1 DEF PageInv, PageAges
  <2>4. questions[c].of \in -1 .. MaxPageTime /\ hour \in -1 .. MaxPageTime
    BY <1>1, <1>2, <2>3, PageNumbers
  <2>5. e \in PageEntries /\ e.of = questions[c].of /\ e.at = hour
    BY <2>4 DEF PageEntries
  <2>6. r.began - r.of < PageLife + UnderWay
    BY <1>2, <2>2, <2>3, PageNumbers
  <2> HIDE DEF r, e
  <2> QED
    BY <1>1, <1>2, <1>3, <2>1, <2>2, <2>3, <2>5, <2>6, PageOwn
<1>7. CASE Pages!PageFails(c)
  <2> DEFINE r == [questions[c] EXCEPT !.at = "refused", !.failed = TRUE]
  <2>1. questions' = [questions EXCEPT ![c] = r] /\ page' = page /\ last' = last /\ questions[c].at = "page_given"
    BY <1>1, <1>7 DEF Pages!PageFails, Pages!Errs
  <2>2. r \in PageCalls /\ r.at = "refused" /\ r.began = questions[c].began
    BY <1>1 DEF PageCalls
  <2> HIDE DEF r
  <2> QED
    BY <1>1, <1>2, <1>3, <2>1, <2>2, PageOwn
<1> QED
  BY <1>4, <1>5, <1>6, <1>7

LEMMA PagePasses ==
  ASSUME PageInv, Pages!Passes
  PROVE  PageInv' /\ Spaced
<1>1. hour' = hour + 1 /\ hour' \in 0 .. MaxPageTime /\ UNCHANGED <<page, rate, codes, downloads, last, questions>>
  BY PageNumbers DEF Pages!Passes, PageInv, PageTyped
<1>2. ASSUME NEW c \in Callers
      PROVE  /\ questions[c].of \in Int /\ questions[c].began \in Int
             /\ questions[c].at = "page_given" => hour - questions[c].of < UnderWay
  <2>1. questions[c] \in PageCalls
    BY DEF PageInv, PageTyped
  <2> QED
    BY <2>1, PageNumbers DEF PageCalls, Pages!Passes
<1>3. page.at \in Int /\ hour \in Int
  BY DEF PageInv, PageTyped, PageEntries
<1>4. PageTyped'
  BY <1>1 DEF PageInv, PageTyped
<1>5. PageAges'
  BY <1>1, <1>2, <1>3, PageNumbers DEF PageInv, PageAges
<1>6. Spaced
  BY <1>1 DEF Spaced
<1> QED
  BY <1>1, <1>4, <1>5, <1>6 DEF PageInv, Pages!AnswersFresh

LEMMA PageStep ==
  ASSUME PageInv, Pages!Next \/ UNCHANGED lookupVars
  PROVE  PageInv' /\ Spaced
<1>1. CASE UNCHANGED lookupVars
  BY <1>1 DEF lookupVars, PageInv, PageTyped, PageAges, Pages!AnswersFresh, Spaced
<1>2. \A c \in Callers : questions[c].at \in {"idle", "want_turn", "sleeping", "page_given", "answered", "refused"}
  BY DEF PageInv, PageTyped, PageCalls
<1>3. ASSUME NEW c \in Callers,
             \/ Pages!LockCodes(c) \/ Pages!StoreCodes(c) \/ Pages!CodesFail(c) \/ Pages!CachedReport(c)
             \/ Pages!GiveReport(c) \/ Pages!StoreReport(c) \/ Pages!NoReport(c) \/ Pages!ReportFails(c)
             \/ Pages!GiveRate(c) \/ Pages!LiveFails(c) \/ Pages!StoreRate(c) \/ Pages!ReferenceFails(c)
             \/ Pages!AskFinancials(c) \/ Pages!AskRate(c)
      PROVE  FALSE
  BY <1>2, <1>3
     DEF Pages!LockCodes, Pages!StoreCodes, Pages!CodesFail, Pages!CachedReport, Pages!GiveReport,
         Pages!StoreReport, Pages!NoReport, Pages!ReportFails, Pages!GiveRate, Pages!LiveFails,
         Pages!StoreRate, Pages!ReferenceFails, Pages!AskFinancials, Pages!AskRate, Pages!MayAsk
<1>4. ASSUME NEW r \in Pages!Reports, Pages!Files(r) PROVE FALSE
  BY <1>4 DEF Pages!Files
<1> QED
  BY <1>1, <1>3, <1>4, PageAsks, PageGoes, PagePasses DEF Pages!Next

LEMMA PageShows == PageInv => Pages!TypeOK /\ Pages!AnswersFresh
<1> SUFFICES ASSUME PageInv PROVE Pages!TypeOK
  BY DEF PageInv
<1>1. \A c \in Callers : questions[c].at # "codes"
  BY DEF PageInv, PageTyped, PageCalls
<1>2. page.at \in -1 .. MaxPageTime
  BY DEF PageInv, PageTyped, PageEntries
<1>3. rate.at = -1 /\ -1 \in -1 .. MaxPageTime
  BY PageNumbers DEF PageInv, PageTyped, Pages!NotThere, Pages!Never
<1> QED
  BY <1>1, <1>2, <1>3, PageNumbers DEF PageInv, PageTyped, Pages!TypeOK, Pages!NoOne

LEMMA PageSends ==
  ASSUME PageInv, Pages!Next \/ UNCHANGED lookupVars
  PROVE  \A c \in Callers :
           /\ questions[c].at # "want_codes"
           /\ questions[c].at = "sleeping" /\ questions'[c].at = "page_given" => hour - last >= Spacing
BY PageStep DEF PageInv, PageTyped, PageCalls, Spaced

-----------------------------------------------------------------------------
(* DartClient: the newest reports, and one download of the codes. *)

LEMMA FinancialNumbers ==
  /\ MaxFinancialTime \in Nat /\ ReportLife \in Nat \ {0} /\ Day \in Nat \ {0} /\ Spacing \in Nat \ {0}
  /\ "nobody" \notin Callers
BY LookupsAssumed DEF Financials!LookupsAssumption

Groups == {Years, Quarters}

LEMMA FinancialGroups ==
  ASSUME NEW g \in Groups
  PROVE  /\ g \in Seq(Financials!Reports) /\ g # << >>
         /\ Len(g) \in Nat \ {0} /\ DOMAIN g = 1 .. Len(g) /\ \A i \in DOMAIN g : g[i] \in Financials!Reports
<1>1. g \in Seq(Financials!Elements(g)) /\ g # << >>
  BY LookupsAssumed DEF Financials!LookupsAssumption, Groups
<1>2. Len(g) \in Nat /\ Len(g) # 0 /\ DOMAIN g = 1 .. Len(g)
  BY <1>1, LenProperties, EmptySeq
<1>3. \A i \in DOMAIN g : g[i] \in Financials!Reports
  BY DEF Financials!Reports, Financials!Elements, Groups
<1>4. g \in [1 .. Len(g) -> Financials!Reports]
  BY <1>1, <1>2, <1>3, LenProperties
<1>5. g \in Seq(Financials!Reports)
  BY <1>2, <1>4, SeqDef
<1> QED
  BY <1>1, <1>2, <1>3, <1>5

\* s is what group g has from the report after the n-th on.
Rest(s, g, n) ==
  /\ s \in Seq(Financials!Reports) /\ s # << >> /\ n \in Nat /\ Len(s) + n = Len(g)
  /\ \A k \in 1 .. Len(s) : s[k] = g[n + k]

NotAmong(g, n, there) == \A i \in 1 .. n : g[i] \notin there

\* Of the group, the newest report there was has been found.
Told(g, there, found) == \A i \in DOMAIN g : g[i] \in there => \E j \in 1 .. i : g[j] \in found

\* Somewhere in the annual reports, or with one found in the quarterly ones.
Asking(left, there, found) ==
  \E s \in Seq(Financials!Reports), n \in Nat :
    \/ left = <<s, Quarters>> /\ Rest(s, Years, n) /\ NotAmong(Years, n, there)
    \/ left = <<s>> /\ Rest(s, Quarters, n) /\ NotAmong(Quarters, n, there) /\ Told(Years, there, found)

LEMMA RestOf ==
  ASSUME NEW g \in Groups, NEW s, NEW n, Rest(s, g, n)
  PROVE  /\ Head(s) = s[1] /\ s[1] = g[n + 1] /\ n + 1 \in DOMAIN g /\ Head(s) \in Financials!Reports
         /\ Len(s) = 1 => n + 1 = Len(g)
         /\ Len(s) # 1 => Rest(Tail(s), g, n + 1)
<1>1. Len(s) \in Nat \ {0} /\ 1 \in DOMAIN s /\ Head(s) = s[1] /\ s[1] \in Financials!Reports
  BY Tails, Elements, LenProperties, EmptySeq DEF Rest
<1>2. Len(g) \in Nat /\ DOMAIN g = 1 .. Len(g)
  BY FinancialGroups
<1>3. s[1] = g[n + 1] /\ n + 1 \in DOMAIN g /\ (Len(s) = 1 => n + 1 = Len(g))
  BY <1>1, <1>2 DEF Rest
<1>4. ASSUME Len(s) # 1
      PROVE  Rest(Tail(s), g, n + 1)
  <2>1. Tail(s) \in Seq(Financials!Reports) /\ Len(Tail(s)) = Len(s) - 1 /\ Len(Tail(s)) # 0
    BY <1>1, <1>4, Tails DEF Rest
  <2>2. Tail(s) # << >>
    BY <2>1, EmptySeq
  <2>3. ASSUME NEW k \in 1 .. Len(Tail(s))
        PROVE  Tail(s)[k] = g[(n + 1) + k]
    <3>1. DOMAIN Tail(s) = 1 .. Len(Tail(s))
      BY <2>1, LenProperties
    <3>2. Tail(s)[k] = s[k + 1] /\ k + 1 \in 1 .. Len(s)
      BY <1>1, <2>1, <2>3, <3>1, Tails DEF Rest
    <3>3. s[k + 1] = g[n + (k + 1)] /\ n + (k + 1) = (n + 1) + k
      BY <3>2 DEF Rest
    <3> QED
      BY <3>2, <3>3
  <2> QED
    BY <1>1, <2>1, <2>2, <2>3 DEF Rest
<1> QED
  BY <1>1, <1>3, <1>4

LEMMA FoundIsTold ==
  ASSUME NEW g \in Groups, NEW n \in Nat, NEW there, NEW found, n + 1 \in DOMAIN g,
         NotAmong(g, n, there), g[n + 1] \in found
  PROVE  Told(g, there, found)
<1>1. DOMAIN g = 1 .. Len(g) /\ Len(g) \in Nat
  BY FinancialGroups
<1>2. ASSUME NEW i \in DOMAIN g, g[i] \in there
      PROVE  n + 1 \in 1 .. i
  BY <1>1, <1>2 DEF NotAmong
<1> QED
  BY <1>2 DEF Told

LEMMA NoneIsTold ==
  ASSUME NEW g \in Groups, NEW there, NEW found, NotAmong(g, Len(g), there)
  PROVE  Told(g, there, found)
BY FinancialGroups DEF NotAmong, Told

LEMMA MoreIsTold ==
  ASSUME NEW g \in Groups, NEW there, NEW found, NEW w, Told(g, there, found)
  PROVE  Told(g, there, found \cup {w})
BY DEF Told

LEMMA Pairs ==
  ASSUME NEW a, NEW b, NEW c
  PROVE  /\ Head(<<a, b>>) = a /\ Tail(<<a, b>>) = <<b>> /\ Head(<<a>>) = a /\ Tail(<<a>>) = << >>
         /\ <<c>> \o <<b>> = <<c, b>> /\ <<c>> \o << >> = <<c>> /\ <<a, b>> # << >> /\ <<a>> # << >>
<1>1. Head(<<a, b>>) = a /\ Head(<<a>>) = a
  OBVIOUS
<1>2. Tail(<<a, b>>) = <<b>>
  OBVIOUS
<1>3. Tail(<<a>>) = << >>
  OBVIOUS
<1>4. <<c>> \o << >> = <<c>>
  OBVIOUS
<1>5. <<a, b>> # << >> /\ <<a>> # << >>
  OBVIOUS
<1>6. <<c>> \o <<b>> = <<c, b>>
  <2>1. <<c>> \in Seq({b, c}) /\ b \in {b, c}
    OBVIOUS
  <2>2. Append(<<c>>, b) = <<c>> \o <<b>>
    BY <2>1, AppendIsConcat
  <2>3. <<c, b>> \in Seq({b, c}) /\ Append(<<c>>, b) \in Seq({b, c})
    BY <2>1, AppendProperties
  <2>4. Len(<<c>>) = 1 /\ <<c>>[1] = c /\ Len(<<c, b>>) = 2 /\ <<c, b>>[1] = c /\ <<c, b>>[2] = b
    OBVIOUS
  <2>5. Len(Append(<<c>>, b)) = 2 /\ Append(<<c>>, b)[1] = c /\ Append(<<c>>, b)[2] = b
    BY <2>1, <2>4, AppendProperties
  <2>6. \A i \in 1 .. 2 : Append(<<c>>, b)[i] = <<c, b>>[i]
    BY <2>4, <2>5
  <2>7. Append(<<c>>, b) = <<c, b>>
    BY <2>3, <2>4, <2>5, <2>6, SeqEqual
  <2> QED
    BY <2>2, <2>7
<1> QED
  BY <1>1, <1>2, <1>3, <1>4, <1>5, <1>6

\* With a report, or without one that was not there, a call goes on.
LEMMA GroupsGoOn ==
  ASSUME NEW left, NEW there, NEW found, NEW given \in BOOLEAN, Asking(left, there, found),
         given \/ Head(Head(left)) \notin there
  PROVE  LET w == Head(Head(left))
             after == IF given \/ Len(Head(left)) = 1 THEN Tail(left) ELSE <<Tail(Head(left))>> \o Tail(left)
             known == IF given THEN found \cup {w} ELSE found
         IN  /\ after = << >> => Told(Years, there, known) /\ Told(Quarters, there, known)
             /\ after # << >> => Asking(after, there, known)
<1> DEFINE w == Head(Head(left))
           after == IF given \/ Len(Head(left)) = 1 THEN Tail(left) ELSE <<Tail(Head(left))>> \o Tail(left)
           known == IF given THEN found \cup {w} ELSE found
<1>1. \A g \in Groups : Told(g, there, found) => Told(g, there, known)
  BY MoreIsTold
<1>2. Years \in Groups /\ Quarters \in Groups
  BY DEF Groups
<1>3. PICK s \in Seq(Financials!Reports), n \in Nat :
        \/ left = <<s, Quarters>> /\ Rest(s, Years, n) /\ NotAmong(Years, n, there)
        \/ left = <<s>> /\ Rest(s, Quarters, n) /\ NotAmong(Quarters, n, there) /\ Told(Years, there, found)
  BY DEF Asking
<1>4. /\ Head(left) = s /\ w = Head(s)
      /\ given \/ Len(s) = 1 => after = Tail(left)
      /\ ~ given /\ Len(s) # 1 => after = <<Tail(s)>> \o Tail(left)
  <2>1. Head(left) = s
    BY <1>3, Pairs
  <2> QED
    BY <2>1
<1>10. (given => known = found \cup {w}) /\ (~ given => known = found)
  OBVIOUS
<1> SUFFICES /\ after = << >> => Told(Years, there, known) /\ Told(Quarters, there, known)
             /\ after # << >> => Asking(after, there, known)
  OBVIOUS
<1>11. given \/ w \notin there
  OBVIOUS
<1> HIDE DEF w, after, known
<1>5. \A g \in Groups :
        Rest(s, g, n) /\ NotAmong(g, n, there) =>
          /\ given \/ Len(s) = 1 => Told(g, there, known)
          /\ ~ given /\ Len(s) # 1 =>
               /\ Rest(Tail(s), g, n + 1) /\ NotAmong(g, n + 1, there)
               /\ Tail(s) \in Seq(Financials!Reports) /\ n + 1 \in Nat
  <2> SUFFICES ASSUME NEW g \in Groups, Rest(s, g, n), NotAmong(g, n, there)
               PROVE  /\ given \/ Len(s) = 1 => Told(g, there, known)
                      /\ ~ given /\ Len(s) # 1 =>
                           /\ Rest(Tail(s), g, n + 1) /\ NotAmong(g, n + 1, there)
                           /\ Tail(s) \in Seq(Financials!Reports) /\ n + 1 \in Nat
    OBVIOUS
  <2>1. w = g[n + 1] /\ n + 1 \in DOMAIN g /\ (Len(s) = 1 => n + 1 = Len(g))
    <3>1. Rest(s, g, n)
      OBVIOUS
    <3>2. Head(s) = s[1] /\ s[1] = g[n + 1] /\ n + 1 \in DOMAIN g /\ (Len(s) = 1 => n + 1 = Len(g))
      BY <3>1, RestOf, ZenonT(40)
    <3> QED
      BY <1>4, <3>2, Zenon
  <2>2. ~ given => NotAmong(g, n + 1, there)
    <3>1. ~ given => g[n + 1] \notin there
      BY <1>11, <2>1
    <3>2. \A i \in 1 .. n + 1 : i \in 1 .. n \/ i = n + 1
      OBVIOUS
    <3> QED
      BY <3>1, <3>2 DEF NotAmong
  <2>3. given => Told(g, there, known)
    <3>1. given => g[n + 1] \in known
      BY <1>10, <2>1
    <3> QED
      BY <2>1, <3>1, FoundIsTold
  <2>4. ~ given /\ Len(s) = 1 => Told(g, there, known)
    BY <2>1, <2>2, NoneIsTold
  <2>5. Len(s) # 1 => Rest(Tail(s), g, n + 1)
    BY RestOf
  <2> QED
    BY <2>2, <2>3, <2>4, <2>5 DEF Rest
<1>6. CASE left = <<s, Quarters>> /\ Rest(s, Years, n) /\ NotAmong(Years, n, there)
  <2>1. CASE given \/ Len(s) = 1
    <3>1. after = <<Quarters>> /\ Told(Years, there, known)
      BY <1>2, <1>4, <1>5, <1>6, <2>1, Pairs
    <3>2. Quarters \in Seq(Financials!Reports) /\ Rest(Quarters, Quarters, 0) /\ NotAmong(Quarters, 0, there)
      BY <1>2, FinancialGroups DEF Rest, NotAmong
    <3>3. Asking(after, there, known)
      BY <3>1, <3>2 DEF Asking
    <3> QED
      BY <3>1, <3>3, Pairs
  <2>2. CASE ~ given /\ Len(s) # 1
    <3>1. after = <<Tail(s), Quarters>>
      BY <1>4, <1>6, <2>2, Pairs
    <3>2. Asking(after, there, known)
      BY <1>2, <1>5, <1>6, <2>2, <3>1 DEF Asking
    <3> QED
      BY <3>1, <3>2, Pairs
  <2> QED
    BY <2>1, <2>2
<1>7. CASE left = <<s>> /\ Rest(s, Quarters, n) /\ NotAmong(Quarters, n, there) /\ Told(Years, there, found)
  <2>1. CASE given \/ Len(s) = 1
    <3>1. after = << >> /\ Told(Years, there, known) /\ Told(Quarters, there, known)
      BY <1>1, <1>2, <1>4, <1>5, <1>7, <2>1, Pairs
    <3> QED
      BY <3>1
  <2>2. CASE ~ given /\ Len(s) # 1
    <3>1. after = <<Tail(s)>>
      BY <1>4, <1>7, <2>2, Pairs
    <3>2. Asking(after, there, known)
      BY <1>1, <1>2, <1>5, <1>7, <2>2, <3>1 DEF Asking
    <3> QED
      BY <3>1, <3>2, Pairs
  <2> QED
    BY <2>1, <2>2
<1> QED
  BY <1>3, <1>6, <1>7

LEMMA AskingIsTyped ==
  ASSUME NEW left, NEW there, NEW found, Asking(left, there, found)
  PROVE  /\ left \in Seq(Seq(Financials!Reports)) /\ left # << >>
         /\ Head(left) \in Seq(Financials!Reports) /\ Head(Head(left)) \in Financials!Reports
<1>1. Years \in Groups /\ Quarters \in Groups
  BY DEF Groups
<1>2. PICK s \in Seq(Financials!Reports), n \in Nat :
        \/ left = <<s, Quarters>> /\ Rest(s, Years, n)
        \/ left = <<s>> /\ Rest(s, Quarters, n)
  BY DEF Asking
<1>3. Head(left) = s /\ left # << >> /\ Head(s) \in Financials!Reports
  <2>1. CASE left = <<s, Quarters>> /\ Rest(s, Years, n)
    BY <1>1, <2>1, Pairs, RestOf
  <2>2. CASE left = <<s>> /\ Rest(s, Quarters, n)
    BY <1>1, <2>2, Pairs, RestOf
  <2> QED
    BY <1>2, <2>1, <2>2
<1>4. Quarters \in Seq(Financials!Reports)
  BY <1>1, FinancialGroups
<1>5. left \in Seq(Seq(Financials!Reports))
  <2> DEFINE R == Seq(Financials!Reports)
  <2>1. <<s, Quarters>> \in Seq(R) /\ <<s>> \in Seq(R)
    <3> HIDE DEF R
    <3>1. s \in R /\ Quarters \in R
      BY <1>4 DEF R
    <3> QED
      BY <3>1
  <2> QED
    BY <1>2, <2>1
<1> QED
  BY <1>3, <1>5

Asked == {"want_codes", "codes", "cached", "report", "report_given", "none_given"}
FinancialCalls ==
  [asks : {"nothing", "financials"}, at : Asked \cup {"idle", "answered", "refused"},
   began : {0}, copy : {Financials!NotThere}, left : Seq(Seq(Financials!Reports)),
   there : SUBSET (Filed \cup Financials!Reports), found : SUBSET Financials!Reports,
   of : {-1}, failed : BOOLEAN]

FinancialTyped ==
  /\ hour \in 0 .. MaxFinancialTime /\ codes \in -1 .. MaxFinancialTime
  /\ rate = Financials!NotThere /\ page.at = -1 /\ last = -Spacing
  /\ downloads \in Callers \cup {"nobody"}
  /\ reports \in [Financials!Reports -> -1 .. MaxFinancialTime]
  /\ filed \in SUBSET (Filed \cup Financials!Reports)
  /\ questions \in [Callers -> FinancialCalls]

\* What a call has found and has still to ask for; what there was is still there.
Sound(r) ==
  /\ r.there \subseteq filed /\ r.found \subseteq filed
  /\ r.at \in Asked => Asking(r.left, r.there, r.found)
  /\ r.at = "report_given" => Head(Head(r.left)) \in filed
  /\ r.at = "none_given" => Head(Head(r.left)) \notin r.there
  /\ r.at = "answered" => Told(Years, r.there, r.found) /\ Told(Quarters, r.there, r.found)

FinancialHolds ==
  /\ \A c \in Callers : downloads = c <=> questions[c].at = "codes"
  /\ \A r \in Financials!Reports : reports[r] # -1 => r \in filed
  /\ \A c \in Callers : Sound(questions[c])

FinancialInv == FinancialTyped /\ FinancialHolds

\* Who downloads the codes does so alone, and when they are due.
OneDownload ==
  \A c \in Callers :
    questions[c].at = "want_codes" /\ questions'[c].at = "codes" =>
      Financials!Due /\ ~ Financials!Others(c, "codes")

LEMMA FinancialIdle ==
  /\ Financials!IdleCall \in FinancialCalls /\ Financials!IdleCall.at = "idle"
  /\ Financials!IdleCall.there = {} /\ Financials!IdleCall.found = {}
<1>1. << >> \in Seq(Seq(Financials!Reports))
  BY EmptySeq
<1> QED
  BY <1>1 DEF Financials!IdleCall, FinancialCalls

LEMMA FinancialStart == Financials!Init => FinancialInv
<1> SUFFICES ASSUME Financials!Init PROVE FinancialInv
  OBVIOUS
<1>1. /\ hour = 0 /\ rate = Financials!NotThere /\ codes = -1 /\ downloads = "nobody" /\ page.at = -1
      /\ last = -Spacing /\ filed = Filed /\ reports = [r \in Financials!Reports |-> -1]
      /\ questions = [c \in Callers |-> Financials!IdleCall]
  BY DEF Financials!Init, Financials!NotThere, Financials!Never, Financials!NoOne
<1>2. -1 \in -1 .. MaxFinancialTime /\ 0 \in 0 .. MaxFinancialTime
  BY FinancialNumbers
<1>3. FinancialTyped
  BY <1>1, <1>2, FinancialIdle DEF FinancialTyped
<1>4. \A c \in Callers : /\ questions[c].at = "idle" /\ questions[c].there = {} /\ questions[c].found = {}
                         /\ c # "nobody"
  BY <1>1, FinancialIdle, FinancialNumbers
<1>5. \A c \in Callers : Sound(questions[c])
  BY <1>4 DEF Sound, Asked
<1>6. FinancialHolds
  BY <1>1, <1>4, <1>5 DEF FinancialHolds
<1> QED
  BY <1>3, <1>6 DEF FinancialInv

\* A call goes one step further.
LEMMA FinancialOwn ==
  ASSUME FinancialInv, NEW c \in Callers, NEW r \in FinancialCalls,
         questions' = [questions EXCEPT ![c] = r], UNCHANGED <<hour, rate, page, last, filed>>,
         codes' \in -1 .. MaxFinancialTime, downloads' \in Callers \cup {"nobody"},
         downloads' = c <=> r.at = "codes",
         \A d \in Callers \ {c} : downloads' = d <=> downloads = d,
         reports' \in [Financials!Reports -> -1 .. MaxFinancialTime],
         \A x \in Financials!Reports : reports'[x] # -1 => x \in filed,
         Sound(r),
         questions[c].at = "want_codes" /\ r.at = "codes" => Financials!Due /\ ~ Financials!Others(c, "codes")
  PROVE  FinancialInv' /\ OneDownload
<1>1. \A d \in Callers : questions'[d] = IF d = c THEN r ELSE questions[d]
  BY DEF FinancialInv, FinancialTyped
<1>2. questions' \in [Callers -> FinancialCalls]
  BY DEF FinancialInv, FinancialTyped
<1>3. FinancialTyped'
  BY <1>2 DEF FinancialInv, FinancialTyped
<1>4. \A d \in Callers : Sound(questions[d])'
  <2> SUFFICES ASSUME NEW d \in Callers PROVE Sound(questions[d])'
    OBVIOUS
  <2>1. Sound(questions'[d])
    BY <1>1 DEF FinancialInv, FinancialHolds
  <2> QED
    BY <2>1 DEF Sound
<1>5. \A d \in Callers : downloads' = d <=> questions'[d].at = "codes"
  BY <1>1 DEF FinancialInv, FinancialHolds
<1>6. \A x \in Financials!Reports : (reports[x] # -1 => x \in filed)'
  OBVIOUS
<1>7. FinancialHolds'
  BY <1>4, <1>5, <1>6 DEF FinancialHolds
<1>8. OneDownload
  BY <1>1 DEF OneDownload
<1> QED
  BY <1>3, <1>7, <1>8 DEF FinancialInv

LEMMA FinancialAsks ==
  ASSUME FinancialInv, NEW c \in Callers, Financials!AskFinancials(c)
  PROVE  FinancialInv' /\ OneDownload
<1> DEFINE gs == <<Years, Quarters>>
           r == [Financials!IdleCall EXCEPT !.asks = "financials", !.at = "want_codes", !.left = gs, !.there = filed]
<1>1. questions' = [questions EXCEPT ![c] = r]
      /\ UNCHANGED <<hour, rate, page, last, filed, codes, downloads, reports>>
  BY DEF Financials!AskFinancials, Financials!dartUnchanged
<1>2. /\ filed \in SUBSET (Filed \cup Financials!Reports) /\ codes \in -1 .. MaxFinancialTime
      /\ downloads \in Callers \cup {"nobody"}
      /\ reports \in [Financials!Reports -> -1 .. MaxFinancialTime]
      /\ \A x \in Financials!Reports : reports[x] # -1 => x \in filed
      /\ downloads = c <=> questions[c].at = "codes"
  BY DEF FinancialInv, FinancialTyped, FinancialHolds
<1>3. questions[c].at # "codes" /\ questions[c].at # "want_codes"
  BY DEF Financials!AskFinancials, Financials!MayAsk
<1>4. Asking(gs, filed, {})
  <2>1. Years \in Groups
    BY DEF Groups
  <2>2. Years \in Seq(Financials!Reports) /\ Rest(Years, Years, 0) /\ NotAmong(Years, 0, filed)
    BY <2>1, FinancialGroups DEF Rest, NotAmong
  <2> QED
    BY <2>2 DEF Asking
<1>5. gs \in Seq(Seq(Financials!Reports))
  BY <1>4, AskingIsTyped
<1> HIDE DEF gs
<1>6. r \in FinancialCalls
  BY <1>2, <1>5, FinancialIdle DEF FinancialCalls, Asked
<1>7. r.at = "want_codes" /\ r.left = gs /\ r.there = filed /\ r.found = {}
  BY FinancialIdle DEF FinancialCalls
<1> HIDE DEF r
<1>8. Sound(r)
  BY <1>4, <1>7 DEF Sound
<1> QED
  BY <1>1, <1>2, <1>3, <1>6, <1>7, <1>8, FinancialOwn

\* With a report, or without one that was not there, a call goes on or is answered.
LEMMA FinancialGoes ==
  ASSUME FinancialInv, NEW c \in Callers, NEW given \in BOOLEAN, Financials!Goes(c, given),
         questions[c].at \in Asked \ {"codes"},
         UNCHANGED <<hour, rate, page, last, filed, codes, downloads>>,
         reports' \in [Financials!Reports -> -1 .. MaxFinancialTime],
         \A x \in Financials!Reports : reports'[x] # -1 => x \in filed,
         given => Financials!Wanted(c) \in filed,
         given \/ Financials!Wanted(c) \notin questions[c].there
  PROVE  FinancialInv' /\ OneDownload
<1> DEFINE q == questions[c]
<1>1. q \in FinancialCalls /\ Sound(q) /\ questions \in [Callers -> FinancialCalls]
      /\ codes \in -1 .. MaxFinancialTime /\ downloads \in Callers \cup {"nobody"}
      /\ (downloads = c <=> q.at = "codes")
  BY DEF FinancialInv, FinancialTyped, FinancialHolds
<1> DEFINE w == Head(Head(q.left))
           after == IF given \/ Len(Head(q.left)) = 1 THEN Tail(q.left) ELSE <<Tail(Head(q.left))>> \o Tail(q.left)
           known == IF given THEN q.found \cup {w} ELSE q.found
           s == IF after = << >> THEN "answered" ELSE "cached"
           r == [q EXCEPT !.left = after, !.found = known, !.at = s]
<1>2. questions' = [questions EXCEPT ![c] = r]
  BY <1>1 DEF Financials!Goes, Financials!Groups, Financials!Wanted
<1>3. Asking(q.left, q.there, q.found)
  BY <1>1 DEF Sound
<1>4. /\ after = << >> => Told(Years, q.there, known) /\ Told(Quarters, q.there, known)
      /\ after # << >> => Asking(after, q.there, known)
  BY <1>3, GroupsGoOn DEF Financials!Wanted
<1>5. w \in Financials!Reports
  BY <1>3, AskingIsTyped
<1>6. known \in SUBSET Financials!Reports /\ known \subseteq filed
  BY <1>1, <1>5 DEF FinancialCalls, Sound, Financials!Wanted
<1>7. after \in Seq(Seq(Financials!Reports))
  BY <1>4, AskingIsTyped, EmptySeq
<1>8. s \in {"answered", "cached"} /\ (s = "answered" <=> after = << >>)
  OBVIOUS
<1> HIDE DEF w, after, known, s
<1>9. r \in FinancialCalls
  BY <1>1, <1>6, <1>7, <1>8 DEF FinancialCalls, Asked
<1>10. r.at = s /\ r.left = after /\ r.there = q.there /\ r.found = known
  BY <1>1 DEF FinancialCalls
<1> HIDE DEF r
<1>11. Sound(r)
  BY <1>1, <1>4, <1>6, <1>8, <1>10 DEF Sound, Asked
<1>12. r.at # "codes" /\ q.at # "codes"
  BY <1>8, <1>10
<1> HIDE DEF q
<1> QED
  BY <1>1, <1>2, <1>9, <1>11, <1>12, FinancialOwn

\* A call whose step alone changes.
LEMMA FinancialTurns ==
  ASSUME FinancialInv, NEW c \in Callers, NEW s \in Asked, questions' = [questions EXCEPT ![c].at = s],
         questions[c].at \in Asked,
         UNCHANGED <<hour, rate, page, last, filed, reports>>,
         codes' \in -1 .. MaxFinancialTime, downloads' \in Callers \cup {"nobody"},
         downloads' = c <=> s = "codes",
         \A d \in Callers \ {c} : downloads' = d <=> downloads = d,
         s = "report_given" => Financials!Wanted(c) \in filed,
         s = "none_given" => Financials!Wanted(c) \notin filed,
         questions[c].at = "want_codes" /\ s = "codes" => Financials!Due /\ ~ Financials!Others(c, "codes")
  PROVE  FinancialInv' /\ OneDownload
<1> DEFINE r == [questions[c] EXCEPT !.at = s]
<1>1. questions[c] \in FinancialCalls /\ Sound(questions[c]) /\ questions \in [Callers -> FinancialCalls]
      /\ reports \in [Financials!Reports -> -1 .. MaxFinancialTime]
      /\ \A x \in Financials!Reports : reports[x] # -1 => x \in filed
  BY DEF FinancialInv, FinancialTyped, FinancialHolds
<1>2. questions' = [questions EXCEPT ![c] = r]
  BY <1>1
<1>3. r \in FinancialCalls
  BY <1>1 DEF FinancialCalls, Asked
<1>4. r.at = s /\ r.left = questions[c].left /\ r.there = questions[c].there /\ r.found = questions[c].found
  BY <1>1 DEF FinancialCalls
<1> HIDE DEF r
<1>5. Sound(r)
  BY <1>1, <1>4 DEF Sound, Financials!Wanted, Asked
<1> QED
  BY <1>1, <1>2, <1>3, <1>4, <1>5, FinancialOwn

\* A request went wrong.
LEMMA FinancialErrs ==
  ASSUME FinancialInv, NEW c \in Callers, Financials!Errs(c),
         UNCHANGED <<hour, rate, page, last, filed, reports, codes>>,
         downloads' \in Callers \cup {"nobody"}, downloads' # c,
         \A d \in Callers \ {c} : downloads' = d <=> downloads = d
  PROVE  FinancialInv' /\ OneDownload
<1> DEFINE r == [questions[c] EXCEPT !.at = "refused", !.failed = TRUE]
<1>1. questions[c] \in FinancialCalls /\ Sound(questions[c]) /\ questions \in [Callers -> FinancialCalls]
      /\ reports \in [Financials!Reports -> -1 .. MaxFinancialTime] /\ codes \in -1 .. MaxFinancialTime
      /\ \A x \in Financials!Reports : reports[x] # -1 => x \in filed
  BY DEF FinancialInv, FinancialTyped, FinancialHolds
<1>2. questions' = [questions EXCEPT ![c] = r]
  BY <1>1 DEF Financials!Errs
<1>3. r \in FinancialCalls
  BY <1>1 DEF FinancialCalls
<1>4. r.at = "refused" /\ r.there = questions[c].there /\ r.found = questions[c].found
  BY <1>1 DEF FinancialCalls
<1> HIDE DEF r
<1>5. Sound(r)
  BY <1>1, <1>4 DEF Sound, Asked
<1> QED
  BY <1>1, <1>2, <1>3, <1>4, <1>5, FinancialOwn

LEMMA FinancialCodes ==
  ASSUME FinancialInv, NEW c \in Callers,
         Financials!LockCodes(c) \/ Financials!StoreCodes(c) \/ Financials!CodesFail(c)
  PROVE  FinancialInv' /\ OneDownload
<1>1. /\ codes \in -1 .. MaxFinancialTime /\ downloads \in Callers \cup {"nobody"}
      /\ hour \in -1 .. MaxFinancialTime /\ c # "nobody"
      /\ \A d \in Callers : downloads = d <=> questions[d].at = "codes"
  BY FinancialNumbers DEF FinancialInv, FinancialTyped, FinancialHolds
<1>2. UNCHANGED <<hour, rate, page, last, filed, reports>>
  BY DEF Financials!LockCodes, Financials!StoreCodes, Financials!CodesFail, Financials!dartUnchanged
<1>3. CASE Financials!LockCodes(c)
  <2>1. downloads = "nobody" /\ codes' = codes /\ questions[c].at = "want_codes"
    BY <1>3 DEF Financials!LockCodes, Financials!Free, Financials!NoOne
  <2>2. \A d \in Callers : d # "nobody"
    BY FinancialNumbers
  <2>3. CASE Financials!Due
    <3>1. downloads' = c /\ questions' = [questions EXCEPT ![c].at = "codes"]
      BY <1>3, <2>3 DEF Financials!LockCodes, Financials!Go
    <3>2. ~ Financials!Others(c, "codes")
      BY <1>1, <2>1, <2>2 DEF Financials!Others
    <3> QED
      BY <1>1, <1>2, <2>1, <2>2, <2>3, <3>1, <3>2, FinancialTurns DEF Asked
  <2>4. CASE ~ Financials!Due
    <3>1. downloads' = downloads /\ questions' = [questions EXCEPT ![c].at = "cached"]
      BY <1>3, <2>4 DEF Financials!LockCodes, Financials!Go
    <3> QED
      BY <1>1, <1>2, <2>1, <2>2, <3>1, FinancialTurns DEF Asked
  <2> QED
    BY <2>3, <2>4
<1>4. CASE Financials!StoreCodes(c)
  <2>1. /\ questions[c].at = "codes" /\ codes' = hour /\ downloads' = "nobody"
        /\ questions' = [questions EXCEPT ![c].at = "cached"]
    BY <1>4 DEF Financials!StoreCodes, Financials!Go, Financials!NoOne
  <2>2. downloads = c /\ \A d \in Callers : d # "nobody"
    BY <1>1, <2>1, FinancialNumbers
  <2> QED
    BY <1>1, <1>2, <2>1, <2>2, FinancialTurns DEF Asked
<1>5. CASE Financials!CodesFail(c)
  <2>1. questions[c].at = "codes" /\ codes' = codes /\ downloads' = "nobody" /\ Financials!Errs(c)
    BY <1>5 DEF Financials!CodesFail, Financials!NoOne
  <2>2. downloads = c /\ \A d \in Callers : d # "nobody"
    BY <1>1, <2>1, FinancialNumbers
  <2> QED
    BY <1>1, <1>2, <2>1, <2>2, FinancialErrs
<1> QED
  BY <1>3, <1>4, <1>5

LEMMA FinancialReports ==
  ASSUME FinancialInv, NEW c \in Callers,
         \/ Financials!CachedReport(c) \/ Financials!GiveReport(c) \/ Financials!StoreReport(c)
         \/ Financials!NoReport(c) \/ Financials!ReportFails(c)
  PROVE  FinancialInv' /\ OneDownload
<1>1. /\ codes \in -1 .. MaxFinancialTime /\ downloads \in Callers \cup {"nobody"}
      /\ hour \in -1 .. MaxFinancialTime /\ hour # -1
      /\ \A d \in Callers : downloads = d <=> questions[d].at = "codes"
      /\ reports \in [Financials!Reports -> -1 .. MaxFinancialTime]
      /\ \A x \in Financials!Reports : reports[x] # -1 => x \in filed
      /\ Sound(questions[c])
  BY FinancialNumbers DEF FinancialInv, FinancialTyped, FinancialHolds
<1>2. UNCHANGED <<hour, rate, page, last, filed, codes, downloads>>
  BY DEF Financials!CachedReport, Financials!GiveReport, Financials!StoreReport, Financials!NoReport,
         Financials!ReportFails, Financials!dartUnchanged
<1>3. questions[c].at \in {"cached", "report", "report_given", "none_given"}
  BY DEF Financials!CachedReport, Financials!GiveReport, Financials!StoreReport, Financials!NoReport,
         Financials!ReportFails
<1>4. questions[c].at \in Asked \ {"codes"} /\ questions[c].at # "want_codes" /\ downloads # c
  BY <1>1, <1>3 DEF Asked
<1>5. Financials!Wanted(c) \in Financials!Reports
  BY <1>1, <1>4, AskingIsTyped DEF Sound, Financials!Wanted
<1>6. CASE Financials!CachedReport(c)
  <2>1. reports' = reports
    BY <1>6 DEF Financials!CachedReport
  <2>2. CASE Financials!IsFresh(reports[Financials!Wanted(c)], ReportLife)
    <3>1. Financials!Goes(c, TRUE)
      BY <1>6, <2>2 DEF Financials!CachedReport
    <3>2. Financials!Wanted(c) \in filed
      BY <1>1, <1>5, <2>2 DEF Financials!IsFresh, Financials!Never
    <3> QED
      BY <1>1, <1>2, <1>4, <2>1, <3>1, <3>2, FinancialGoes
  <2>3. CASE ~ Financials!IsFresh(reports[Financials!Wanted(c)], ReportLife)
    <3>1. questions' = [questions EXCEPT ![c].at = "report"]
      BY <1>6, <2>3 DEF Financials!CachedReport, Financials!Go
    <3>2. "report" \in Asked
      BY DEF Asked
    <3> QED
      BY <1>1, <1>2, <1>4, <2>1, <3>1, <3>2, FinancialTurns
  <2> QED
    BY <2>2, <2>3
<1>7. CASE Financials!GiveReport(c)
  <2> DEFINE s == IF Financials!Wanted(c) \in filed THEN "report_given" ELSE "none_given"
  <2>1. reports' = reports /\ questions' = [questions EXCEPT ![c].at = s]
    BY <1>7 DEF Financials!GiveReport, Financials!Go
  <2>2. /\ s \in Asked /\ s # "codes" /\ (s = "report_given" => Financials!Wanted(c) \in filed)
        /\ s = "none_given" => Financials!Wanted(c) \notin filed
    BY DEF Asked
  <2> HIDE DEF s
  <2> QED
    BY <1>1, <1>2, <1>4, <2>1, <2>2, FinancialTurns
<1>8. CASE Financials!StoreReport(c)
  <2>1. /\ reports' = [reports EXCEPT ![Financials!Wanted(c)] = hour] /\ Financials!Goes(c, TRUE)
        /\ questions[c].at = "report_given"
    BY <1>8 DEF Financials!StoreReport
  <2>2. Financials!Wanted(c) \in filed
    BY <1>1, <2>1 DEF Sound, Financials!Wanted
  <2>3. /\ reports' \in [Financials!Reports -> -1 .. MaxFinancialTime]
        /\ \A x \in Financials!Reports : reports'[x] # -1 => x \in filed
    BY <1>1, <1>5, <2>1, <2>2
  <2> QED
    BY <1>1, <1>2, <1>4, <2>1, <2>2, <2>3, FinancialGoes
<1>9. CASE Financials!NoReport(c)
  <2>1. reports' = reports /\ Financials!Goes(c, FALSE) /\ questions[c].at = "none_given"
    BY <1>9 DEF Financials!NoReport, Financials!NoData
  <2>2. Financials!Wanted(c) \notin questions[c].there
    BY <1>1, <2>1 DEF Sound, Financials!Wanted
  <2> QED
    BY <1>1, <1>2, <1>4, <2>1, <2>2, FinancialGoes
<1>10. CASE Financials!ReportFails(c)
  <2>1. reports' = reports /\ Financials!Errs(c)
    BY <1>10 DEF Financials!ReportFails
  <2> QED
    BY <1>1, <1>2, <1>4, <2>1, FinancialErrs
<1> QED
  BY <1>6, <1>7, <1>8, <1>9, <1>10

\* Time passes, or a company files a report: what was sound still is.
LEMMA FinancialWorld ==
  ASSUME FinancialInv, Financials!Passes \/ \E r \in Financials!Reports : Financials!Files(r)
  PROVE  FinancialInv' /\ OneDownload
<1>1. /\ hour' \in 0 .. MaxFinancialTime /\ filed \subseteq filed'
      /\ filed' \in SUBSET (Filed \cup Financials!Reports)
      /\ UNCHANGED <<rate, codes, downloads, reports, page, last, questions>>
  BY FinancialNumbers DEF Financials!Passes, Financials!Files, FinancialInv, FinancialTyped
<1>2. FinancialTyped'
  BY <1>1 DEF FinancialInv, FinancialTyped
<1>3. ASSUME NEW c \in Callers
      PROVE  Sound(questions[c])'
  BY <1>1 DEF FinancialInv, FinancialHolds, Sound
<1>4. FinancialHolds'
  BY <1>1, <1>3 DEF FinancialInv, FinancialHolds
<1>5. OneDownload
  BY <1>1 DEF OneDownload
<1> QED
  BY <1>2, <1>4, <1>5 DEF FinancialInv

LEMMA FinancialStep ==
  ASSUME FinancialInv, Financials!Next \/ UNCHANGED lookupVars
  PROVE  FinancialInv' /\ OneDownload
<1>1. CASE UNCHANGED lookupVars
  <2>1. UNCHANGED <<hour, rate, codes, downloads, reports, page, last, filed, questions>>
    BY <1>1 DEF lookupVars
  <2>2. FinancialTyped' /\ OneDownload
    BY <2>1 DEF FinancialInv, FinancialTyped, OneDownload
  <2>3. FinancialHolds'
    BY <2>1 DEF FinancialInv, FinancialHolds, Sound
  <2> QED
    BY <2>2, <2>3 DEF FinancialInv
<1>2. \A c \in Callers : questions[c].at \in Asked \cup {"idle", "answered", "refused"}
  BY DEF FinancialInv, FinancialTyped, FinancialCalls
<1>3. ASSUME NEW c \in Callers,
             \/ Financials!GiveRate(c) \/ Financials!LiveFails(c) \/ Financials!StoreRate(c)
             \/ Financials!ReferenceFails(c) \/ Financials!AskRate(c) \/ Financials!AskPage(c)
             \/ Financials!LockTurn(c) \/ Financials!SendPage(c) \/ Financials!StorePage(c)
             \/ Financials!PageFails(c)
      PROVE  FALSE
  BY <1>2, <1>3
     DEF Asked, Financials!GiveRate, Financials!LiveFails, Financials!StoreRate,
         Financials!ReferenceFails, Financials!AskRate, Financials!AskPage, Financials!LockTurn,
         Financials!SendPage, Financials!StorePage, Financials!PageFails, Financials!MayAsk
<1> QED
  BY <1>1, <1>3, FinancialAsks, FinancialCodes, FinancialReports, FinancialWorld DEF Financials!Next

LEMMA FinancialShows == FinancialInv => Financials!TypeOK /\ Financials!NewestReports
<1> SUFFICES ASSUME FinancialInv PROVE Financials!TypeOK /\ Financials!NewestReports
  OBVIOUS
<1>1. downloads = "nobody" <=> \A c \in Callers : questions[c].at # "codes"
  BY FinancialNumbers DEF FinancialInv, FinancialTyped, FinancialHolds
<1>2. rate.at = -1 /\ -1 \in -1 .. MaxFinancialTime /\ -Spacing \in -Spacing .. MaxFinancialTime
  BY FinancialNumbers DEF FinancialInv, FinancialTyped, Financials!NotThere, Financials!Never
<1>3. Financials!TypeOK
  BY <1>1, <1>2 DEF FinancialInv, FinancialTyped, Financials!TypeOK, Financials!NoOne
<1>4. Financials!NewestReports
  BY DEF FinancialInv, FinancialHolds, Sound, Told, Financials!NewestReports
<1> QED
  BY <1>3, <1>4

LEMMA FinancialSends ==
  ASSUME FinancialInv, Financials!Next \/ UNCHANGED lookupVars
  PROVE  \A c \in Callers :
           /\ questions[c].at = "want_codes" /\ questions'[c].at = "codes" =>
                Financials!Due /\ ~ Financials!Others(c, "codes")
           /\ questions[c].at # "sleeping"
BY FinancialStep DEF FinancialInv, FinancialTyped, FinancialCalls, Asked, OneDownload

-----------------------------------------------------------------------------
(* A venue's stream: what is in a queue, and in which order. *)

VenueEvents == [is : {"book", "trade"}, n : Nat, auction : {"no", "yes"}]
Frames ==
  {f \in [kind : {"data", "other", "bad", "close", "ping"}, events : Seq(VenueEvents)] :
     Len(f.events) <= 2 /\ (f.kind # "data" => f.events = << >>)}

Members(q) == {q[k] : k \in DOMAIN q}
OnWire(w) == UNION {Members(w[k].events) : k \in DOMAIN w}
PrintsAmong(S) == {e.n : e \in {x \in S : x.is = "trade"}}

\* f is a later print than e, or shows no older book.
Before(e, f) ==
  /\ e.is = "trade" /\ f.is = "trade" => e.n < f.n
  /\ e.is = "book" /\ f.is = "book" => e.n <= f.n

InOrder(q) == \A j, k \in DOMAIN q : j < k => Before(q[j], q[k])

FramesInOrder(w) ==
  /\ \A k \in DOMAIN w : InOrder(w[k].events)
  /\ \A j, k \in DOMAIN w :
       j < k => \A e \in Members(w[j].events), f \in Members(w[k].events) : Before(e, f)

LEMMA PrintsAre ==
  /\ \A q : Stream!PrintsIn(q) = PrintsAmong(Members(q))
  /\ \A w : Stream!PrintsOf(w) = PrintsAmong(OnWire(w))
<1>1. ASSUME NEW q PROVE Stream!PrintsIn(q) = PrintsAmong(Members(q))
  BY DEF Stream!PrintsIn, PrintsAmong, Members
<1>2. ASSUME NEW w PROVE Stream!PrintsOf(w) = PrintsAmong(OnWire(w))
  <2>1. \A k \in DOMAIN w : Stream!PrintsIn(w[k].events) = PrintsAmong(Members(w[k].events))
    BY <1>1
  <2>2. Stream!PrintsOf(w) = UNION {PrintsAmong(Members(w[k].events)) : k \in DOMAIN w}
    BY <2>1 DEF Stream!PrintsOf
  <2>3. PrintsAmong(OnWire(w)) = UNION {PrintsAmong(Members(w[k].events)) : k \in DOMAIN w}
    BY DEF PrintsAmong, OnWire
  <2> QED
    BY <2>2, <2>3
<1> QED
  BY <1>1, <1>2

LEMMA PrintsOfBoth ==
  ASSUME NEW S, NEW T
  PROVE  PrintsAmong(S \cup T) = PrintsAmong(S) \cup PrintsAmong(T) /\ PrintsAmong({}) = {}
BY DEF PrintsAmong

LEMMA MembersOfAppend ==
  ASSUME NEW S, NEW q \in Seq(S), NEW e \in S
  PROVE  Members(Append(q, e)) = Members(q) \cup {e}
<1> DEFINE a == Append(q, e)
<1>1. /\ \A k \in DOMAIN a : (k \in DOMAIN q /\ a[k] = q[k]) \/ (k = Len(q) + 1 /\ a[k] = e)
      /\ \A k \in DOMAIN q : k \in DOMAIN a /\ a[k] = q[k]
      /\ Len(q) + 1 \in DOMAIN a /\ a[Len(q) + 1] = e
  BY Appended
<1> HIDE DEF a
<1> QED
  BY <1>1 DEF Members

LEMMA MembersOfTail ==
  ASSUME NEW S, NEW q \in Seq(S), q # << >>
  PROVE  /\ Members(q) = {Head(q)} \cup Members(Tail(q))
         /\ Head(q) \in Members(q) /\ Members(Tail(q)) \subseteq Members(q)
<1> DEFINE t == Tail(q)
<1>1. /\ 1 \in DOMAIN q /\ Head(q) = q[1] /\ t \in Seq(S) /\ Len(t) = Len(q) - 1
      /\ \A k \in DOMAIN t : k \in Nat /\ k + 1 \in DOMAIN q /\ t[k] = q[k + 1]
  BY Tails
<1>2. DOMAIN q = 1 .. Len(q) /\ Len(q) \in Nat
  BY Elements
<1>3. DOMAIN t = 1 .. Len(q) - 1
  BY <1>1, LenProperties
<1> HIDE DEF t
<1>4. \A k \in DOMAIN q : k = 1 \/ (k - 1 \in DOMAIN t /\ t[k - 1] = q[k])
  BY <1>1, <1>2, <1>3
<1>5. \A x \in Members(t) : x \in Members(q)
  BY <1>1 DEF Members
<1>6. \A x \in Members(q) : x = q[1] \/ x \in Members(t)
  BY <1>4 DEF Members
<1>7. q[1] \in Members(q)
  BY <1>1 DEF Members
<1>8. Members(q) = {Head(q)} \cup Members(t) /\ Head(q) \in Members(q) /\ Members(t) \subseteq Members(q)
  BY <1>1, <1>5, <1>6, <1>7
<1> QED
  BY <1>8 DEF t

LEMMA NoMembers == Members(<< >>) = {} /\ OnWire(<< >>) = {} /\ InOrder(<< >>) /\ FramesInOrder(<< >>)
BY DEF Members, OnWire, InOrder, FramesInOrder

LEMMA InOrderAppended ==
  ASSUME NEW S, NEW q \in Seq(S), NEW e \in S, InOrder(q), \A x \in Members(q) : Before(x, e)
  PROVE  InOrder(Append(q, e))
<1> DEFINE a == Append(q, e)
<1>1. \A k \in DOMAIN a : (k \in DOMAIN q /\ a[k] = q[k]) \/ (k = Len(q) + 1 /\ a[k] = e)
  BY Appended
<1>2. DOMAIN q = 1 .. Len(q) /\ Len(q) \in Nat
  BY Elements
<1> HIDE DEF a
<1>3. SUFFICES ASSUME NEW j \in DOMAIN a, NEW k \in DOMAIN a, j < k
               PROVE  Before(a[j], a[k])
  BY DEF InOrder, a
<1>4. j \in DOMAIN q /\ a[j] = q[j]
  BY <1>1, <1>2, <1>3
<1>5. CASE k \in DOMAIN q /\ a[k] = q[k]
  BY <1>3, <1>4, <1>5 DEF InOrder
<1>6. CASE a[k] = e
  BY <1>4, <1>6 DEF Members
<1> QED
  BY <1>1, <1>5, <1>6

LEMMA InOrderTail ==
  ASSUME NEW S, NEW q \in Seq(S), q # << >>, InOrder(q)
  PROVE  InOrder(Tail(q)) /\ \A x \in Members(Tail(q)) : Before(Head(q), x)
<1> DEFINE t == Tail(q)
<1>1. /\ 1 \in DOMAIN q /\ Head(q) = q[1]
      /\ \A k \in DOMAIN t : k \in Nat /\ k + 1 \in DOMAIN q /\ t[k] = q[k + 1]
  BY Tails
<1>2. \A k \in DOMAIN t : k # 0
  BY Tails, LenProperties
<1> HIDE DEF t
<1>3. InOrder(t)
  BY <1>1 DEF InOrder
<1>4. ASSUME NEW x \in Members(t) PROVE Before(Head(q), x)
  <2>1. PICK k \in DOMAIN t : x = t[k]
    BY DEF Members
  <2> QED
    BY <1>1, <1>2, <2>1 DEF InOrder
<1> QED
  BY <1>3, <1>4 DEF t

LEMMA WireAppended ==
  ASSUME NEW w \in Seq(Frames), NEW f \in Frames
  PROVE  /\ OnWire(Append(w, f)) = OnWire(w) \cup Members(f.events)
         /\ FramesInOrder(w) /\ InOrder(f.events)
              /\ (\A e \in OnWire(w), x \in Members(f.events) : Before(e, x))
              => FramesInOrder(Append(w, f))
<1> DEFINE a == Append(w, f)
<1>1. /\ \A k \in DOMAIN a : (k \in DOMAIN w /\ a[k] = w[k]) \/ (k = Len(w) + 1 /\ a[k] = f)
      /\ \A k \in DOMAIN w : k \in DOMAIN a /\ a[k] = w[k]
      /\ Len(w) + 1 \in DOMAIN a /\ a[Len(w) + 1] = f
  BY Appended
<1>2. DOMAIN w = 1 .. Len(w) /\ Len(w) \in Nat
  BY Elements
<1> HIDE DEF a
<1>3. OnWire(a) = OnWire(w) \cup Members(f.events)
  BY <1>1 DEF OnWire
<1>4. ASSUME FramesInOrder(w), InOrder(f.events),
             \A e \in OnWire(w), x \in Members(f.events) : Before(e, x)
      PROVE  FramesInOrder(a)
  <2>1. ASSUME NEW k \in DOMAIN a PROVE InOrder(a[k].events)
    BY <1>1, <1>4 DEF FramesInOrder
  <2>2. ASSUME NEW j \in DOMAIN a, NEW k \in DOMAIN a, j < k,
               NEW e \in Members(a[j].events), NEW x \in Members(a[k].events)
        PROVE  Before(e, x)
    <3>1. j \in DOMAIN w /\ a[j] = w[j]
      BY <1>1, <1>2, <2>2
    <3>2. CASE k \in DOMAIN w /\ a[k] = w[k]
      BY <1>4, <2>2, <3>1, <3>2 DEF FramesInOrder
    <3>3. CASE a[k] = f
      <4>1. e \in OnWire(w)
        BY <3>1 DEF OnWire
      <4> QED
        BY <1>4, <3>3, <4>1
    <3> QED
      BY <1>1, <3>2, <3>3
  <2> QED
    BY <2>1, <2>2 DEF FramesInOrder
<1> QED
  BY <1>3, <1>4 DEF a

LEMMA WireTail ==
  ASSUME NEW w \in Seq(Frames), w # << >>
  PROVE  /\ Head(w) \in Frames /\ Tail(w) \in Seq(Frames)
         /\ OnWire(w) = Members(Head(w).events) \cup OnWire(Tail(w))
         /\ FramesInOrder(w) =>
              /\ FramesInOrder(Tail(w)) /\ InOrder(Head(w).events)
              /\ \A e \in Members(Head(w).events), x \in OnWire(Tail(w)) : Before(e, x)
<1> DEFINE t == Tail(w)
<1>1. /\ 1 \in DOMAIN w /\ Head(w) = w[1] /\ w[1] \in Frames /\ t \in Seq(Frames) /\ Len(t) = Len(w) - 1
      /\ \A k \in DOMAIN t : k \in Nat /\ k + 1 \in DOMAIN w /\ t[k] = w[k + 1]
  BY Tails
<1>2. DOMAIN w = 1 .. Len(w) /\ Len(w) \in Nat
  BY Elements
<1>3. DOMAIN t = 1 .. Len(w) - 1
  BY <1>1, LenProperties
<1> HIDE DEF t
<1>4. \A k \in DOMAIN w : k = 1 \/ (k - 1 \in DOMAIN t /\ t[k - 1] = w[k])
  BY <1>1, <1>2, <1>3
<1>5. OnWire(w) = Members(Head(w).events) \cup OnWire(t)
  <2>1. ASSUME NEW x \in OnWire(w) PROVE x \in Members(Head(w).events) \cup OnWire(t)
    <3>1. PICK k \in DOMAIN w : x \in Members(w[k].events)
      BY DEF OnWire
    <3> QED
      BY <1>1, <1>4, <3>1 DEF OnWire
  <2>2. ASSUME NEW x \in Members(Head(w).events) PROVE x \in OnWire(w)
    BY <1>1 DEF OnWire
  <2>3. ASSUME NEW x \in OnWire(t) PROVE x \in OnWire(w)
    <3>1. PICK k \in DOMAIN t : x \in Members(t[k].events)
      BY DEF OnWire
    <3>2. k + 1 \in DOMAIN w /\ x \in Members(w[k + 1].events)
      BY <1>1, <3>1
    <3> QED
      BY <3>2 DEF OnWire
  <2> QED
    BY <2>1, <2>2, <2>3
<1>6. ASSUME FramesInOrder(w)
      PROVE  /\ FramesInOrder(t) /\ InOrder(Head(w).events)
             /\ \A e \in Members(Head(w).events), x \in OnWire(t) : Before(e, x)
  <2>1. FramesInOrder(t)
    BY <1>1, <1>6 DEF FramesInOrder
  <2>2. InOrder(Head(w).events)
    BY <1>1, <1>6 DEF FramesInOrder
  <2>3. ASSUME NEW e \in Members(Head(w).events), NEW x \in OnWire(t)
        PROVE  Before(e, x)
    <3>1. PICK k \in DOMAIN t : x \in Members(t[k].events)
      BY DEF OnWire
    <3>2. k + 1 \in DOMAIN w /\ t[k] = w[k + 1] /\ 1 < k + 1
      BY <1>1, <1>3, <3>1
    <3> QED
      BY <1>1, <1>6, <3>1, <3>2 DEF FramesInOrder
  <2> QED
    BY <2>1, <2>2, <2>3
<1> QED
  BY <1>1, <1>5, <1>6 DEF t

\* Of a frame of two records at most, those in regular hours are kept, in their order.
LEMMA KeptOf ==
  ASSUME NEW q \in Seq(VenueEvents), Len(q) <= 2
  PROVE  /\ Stream!Kept(q) \in Seq(VenueEvents) /\ Len(Stream!Kept(q)) <= 2
         /\ Members(Stream!Kept(q)) = {e \in Members(q) : e.auction = "no"}
         /\ InOrder(q) => InOrder(Stream!Kept(q))
<1> DEFINE n == Len(q)
           Step(s, k) == IF Stream!RegularHours(q[k]) THEN Append(s, q[k]) ELSE s
           Eq(f) == f = [k \in 0 .. n |-> IF k = 0 THEN << >>
                                          ELSE IF Stream!RegularHours(q[k]) THEN Append(f[k - 1], q[k]) ELSE f[k - 1]]
           one == Step(<< >>, 1)
           two == Step(one, 2)
           r == [k \in 0 .. n |-> IF k = 0 THEN << >> ELSE IF k = 1 THEN one ELSE two]
           kept == CHOOSE f : Eq(f)
<1>1. n \in 0 .. 2 /\ DOMAIN q = 1 .. n /\ \A k \in DOMAIN q : q[k] \in VenueEvents
  <2>1. n \in Nat /\ DOMAIN q = 1 .. n
    BY Elements
  <2>2. \A k \in DOMAIN q : q[k] \in VenueEvents
    BY Elements
  <2>3. n <= 2
    OBVIOUS
  <2> HIDE DEF n
  <2> QED
    BY <2>1, <2>2, <2>3
<1>2. Eq(r)
  <2>1. ASSUME NEW k \in 0 .. n
        PROVE  r[k] = IF k = 0 THEN << >> ELSE IF Stream!RegularHours(q[k]) THEN Append(r[k - 1], q[k]) ELSE r[k - 1]
    <3>1. k \in {0, 1, 2} /\ (k # 0 => k - 1 \in 0 .. n)
      BY <1>1
    <3>2. CASE k = 0
      BY <3>2
    <3>3. CASE k = 1
      BY <1>1, <3>1, <3>3
    <3>4. CASE k = 2
      BY <1>1, <3>1, <3>4
    <3> QED
      BY <3>1, <3>2, <3>3, <3>4
  <2> QED
    BY <2>1
<1>3. Eq(kept)
  BY <1>2
<1>4. Stream!Kept(q) = kept[n]
  BY DEF Stream!Kept
<1> HIDE DEF kept
<1>5. kept[0] = << >> /\ \A k \in 1 .. n : kept[k] = Step(kept[k - 1], k)
  <2>1. kept[0] = << >>
    BY <1>1, <1>3
  <2>2. ASSUME NEW k \in 1 .. n PROVE kept[k] = Step(kept[k - 1], k)
    <3>1. k \in 0 .. n /\ k # 0
      BY <1>1
    <3> QED
      BY <1>3, <3>1, Zenon
  <2> QED
    BY <2>1, <2>2
<1>6. (n >= 1 => kept[1] = one) /\ (n = 2 => kept[2] = two)
  <2> HIDE DEF Step
  <2>1. ASSUME n >= 1 PROVE kept[1] = one
    <3>1. 1 \in 1 .. n /\ 1 - 1 = 0
      BY <1>1, <2>1
    <3> QED
      BY <1>5, <3>1
  <2>2. ASSUME n = 2 PROVE kept[2] = two
    <3>1. 2 \in 1 .. n /\ 2 - 1 = 1
      BY <1>1, <2>2
    <3> QED
      BY <1>5, <2>1, <2>2, <3>1
  <2> QED
    BY <2>1, <2>2
<1> HIDE DEF Eq, r
<1>7. << >> \in Seq(VenueEvents) /\ Len(<< >>) = 0
  BY EmptySeq
<1>8. CASE n = 0
  <2>1. Stream!Kept(q) = << >> /\ Members(q) = {}
    BY <1>1, <1>4, <1>5, <1>8 DEF Members
  <2> QED
    BY <1>7, <2>1, NoMembers
<1>9. ASSUME n >= 1
      PROVE  /\ one \in Seq(VenueEvents) /\ Len(one) <= 1
             /\ Members(one) = {e \in {q[1]} : e.auction = "no"}
             /\ InOrder(one)
  <2>1. q[1] \in VenueEvents
    BY <1>1, <1>9
  <2>2. CASE q[1].auction = "no"
    <3>1. one = Append(<< >>, q[1])
      BY <2>2 DEF Stream!RegularHours
    <3> HIDE DEF one
    <3>2. Members(one) = {q[1]}
      <4>1. one = <<q[1]>>
        BY <3>1
      <4>2. DOMAIN <<q[1]>> = {1} /\ <<q[1]>>[1] = q[1]
        OBVIOUS
      <4> QED
        BY <4>1, <4>2 DEF Members
    <3>4. InOrder(one)
      BY <1>7, <2>1, <3>1, InOrderAppended, NoMembers
    <3>3. one \in Seq(VenueEvents) /\ Len(one) = 1
      BY <1>7, <2>1, <3>1, AppendProperties
    <3> QED
      BY <2>2, <3>2, <3>3, <3>4
  <2>3. CASE q[1].auction # "no"
    <3>1. one = << >>
      BY <2>3 DEF Stream!RegularHours
    <3> QED
      BY <1>7, <2>3, <3>1, NoMembers
  <2> QED
    BY <2>2, <2>3
<1>10. CASE n = 1
  <2>1. Members(q) = {q[1]} /\ Stream!Kept(q) = one
    BY <1>1, <1>4, <1>6, <1>10 DEF Members
  <2> HIDE DEF one
  <2> QED
    BY <1>9, <1>10, <2>1
<1>11. CASE n = 2
  <2>1. Members(q) = {q[1], q[2]} /\ Stream!Kept(q) = two /\ q[2] \in VenueEvents
    BY <1>1, <1>4, <1>6, <1>11 DEF Members
  <2>2. InOrder(q) => Before(q[1], q[2])
    BY <1>1, <1>11 DEF InOrder
  <2>3. /\ q[2].auction = "no" => two = Append(one, q[2])
        /\ q[2].auction # "no" => two = one
    BY DEF Stream!RegularHours
  <2>4. /\ one \in Seq(VenueEvents) /\ Len(one) <= 1 /\ Len(one) \in Nat
        /\ Members(one) = {e \in {q[1]} : e.auction = "no"} /\ InOrder(one)
    BY <1>9, <1>11, LenProperties
  <2> HIDE DEF one, two
  <2>5. CASE q[2].auction # "no"
    BY <2>1, <2>3, <2>4, <2>5
  <2>6. CASE q[2].auction = "no"
    <3>1. two = Append(one, q[2]) /\ q[2] \in VenueEvents /\ one \in Seq(VenueEvents)
      BY <2>1, <2>3, <2>4, <2>6
    <3>2. two \in Seq(VenueEvents) /\ Len(two) = Len(one) + 1
      BY <3>1, AppendProperties
    <3>3. Members(two) = Members(one) \cup {q[2]}
      BY <3>1, MembersOfAppend
    <3>4. InOrder(q) => InOrder(two)
      BY <2>2, <2>4, <3>1, InOrderAppended
    <3> QED
      BY <2>1, <2>4, <2>6, <3>2, <3>3, <3>4
  <2> QED
    BY <2>5, <2>6
<1> QED
  BY <1>1, <1>8, <1>10, <1>11

-----------------------------------------------------------------------------
(* A venue's stream: what is on its way to the broker. *)

LEMMA StreamNumbers ==
  Capacity \in Nat \ {0} /\ Versions \in Nat /\ MaxPrints \in Nat /\ Venue \in {"upbit", "binance", "kis"}
BY StreamAssumed DEF Stream!VenueStreamAssumption

ShownBooks == [version : Nat, auction : {"no", "yes"}]

StreamTyped ==
  /\ printed \in Nat /\ shown \in ShownBooks
  /\ link \in {"down", "up", "dead"} /\ pings \in 0 .. 1
  /\ wire \in Seq(Frames) /\ (link = "down" => wire = << >>)
  /\ sending \in Seq(VenueEvents) /\ Len(sending) <= 2
  /\ channel \in Seq(VenueEvents) /\ Len(channel) <= Capacity
  /\ streamBook.version \in Int /\ streamBook.version <= shown.version
  /\ trades \in Seq(Nat)

\* The venue has made it, and the broker has been given nothing after it.
Ahead(e) ==
  /\ e.is = "trade" => e.n \in 1 .. printed /\ \A k \in DOMAIN trades : trades[k] < e.n
  /\ e.is = "book" => streamBook.version <= e.n /\ e.n <= shown.version

Upstream == \A e \in Members(channel) \cup Members(sending) \cup OnWire(wire) : Ahead(e)

Apart ==
  /\ InOrder(channel) /\ InOrder(sending) /\ FramesInOrder(wire)
  /\ \A e \in Members(channel), x \in Members(sending) : Before(e, x)
  /\ \A e \in Members(channel), x \in OnWire(wire) : Before(e, x)
  /\ \A e \in Members(sending), x \in OnWire(wire) : Before(e, x)

\* An auction's records get no further than the wire.
Hours ==
  /\ \A e \in Members(channel) \cup Members(sending) : e.auction = "no"
  /\ \A e \in OnWire(wire) :
       e.auction = "yes" => Venue = "kis" /\ (e.is = "trade" => e.n \in lost)
  /\ streamBook.auction = "no" /\ (Venue # "kis" => shown.auction = "no")

Traded == Stream!Increasing(trades) /\ \A k \in DOMAIN trades : trades[k] \in 1 .. printed

NoneDropped ==
  1 .. printed = Members(trades) \cup PrintsAmong(Members(channel)) \cup PrintsAmong(Members(sending))
                   \cup PrintsAmong(OnWire(wire)) \cup lost

StreamInv == StreamTyped /\ Upstream /\ Apart /\ Hours /\ Traded /\ NoneDropped

LEMMA EventsTyped ==
  ASSUME StreamTyped
  PROVE  /\ \A e \in Members(channel) : e \in VenueEvents
         /\ \A e \in Members(sending) : e \in VenueEvents
         /\ \A e \in OnWire(wire) : e \in VenueEvents
<1>1. \A e \in Members(channel) : e \in VenueEvents
  BY Elements DEF StreamTyped, Members
<1>2. \A e \in Members(sending) : e \in VenueEvents
  BY Elements DEF StreamTyped, Members
<1>3. ASSUME NEW e \in OnWire(wire) PROVE e \in VenueEvents
  <2>1. PICK k \in DOMAIN wire : e \in Members(wire[k].events)
    BY DEF OnWire
  <2>2. wire[k] \in Frames
    BY Elements DEF StreamTyped
  <2>3. wire[k].events \in Seq(VenueEvents)
    BY <2>2 DEF Frames
  <2> QED
    BY <2>1, <2>3, Elements DEF Members
<1> QED
  BY <1>1, <1>2, <1>3

LEMMA StreamStart == Stream!Init => StreamInv
<1> SUFFICES ASSUME Stream!Init PROVE StreamInv
  OBVIOUS
<1>1. /\ printed = 0 /\ shown.version = 0 /\ shown.auction = "no" /\ shown \in ShownBooks
      /\ link = "down" /\ wire = << >> /\ pings = 0 /\ sending = << >> /\ channel = << >>
      /\ trades = << >> /\ lost = {} /\ streamBook.version = -1 /\ streamBook.auction = "no"
  BY DEF Stream!Init, ShownBooks
<1>2. << >> \in Seq(Frames) /\ << >> \in Seq(VenueEvents) /\ << >> \in Seq(Nat) /\ Len(<< >>) = 0
  BY EmptySeq
<1>3. StreamTyped
  BY <1>1, <1>2, StreamNumbers DEF StreamTyped
<1>4. Upstream /\ Apart /\ Hours
  BY <1>1, NoMembers DEF Upstream, Apart, Hours
<1>5. Traded
  BY <1>1 DEF Traded, Stream!Increasing
<1>6. NoneDropped
  BY <1>1, NoMembers, PrintsOfBoth, SMTT(30) DEF NoneDropped
<1> QED
  BY <1>3, <1>4, <1>5, <1>6 DEF StreamInv

\* The venue has made what is in frame f, which goes on the wire or is lost.
LEMMA StreamPush ==
  ASSUME StreamInv, NEW f \in Frames,
         UNCHANGED <<sending, channel, streamBook, trades>>,
         wire' = Append(wire, f) \/ (wire' = wire /\ PrintsAmong(Members(f.events)) \subseteq lost'),
         link' \in {"down", "up", "dead"}, link' = "down" => wire' = << >>, pings' \in 0 .. 1,
         printed' \in Nat, printed <= printed', shown' \in ShownBooks, shown.version <= shown'.version,
         Venue # "kis" => shown'.auction = "no",
         lost \subseteq lost', lost' \subseteq lost \cup PrintsAmong(Members(f.events)),
         1 .. printed' = (1 .. printed) \cup PrintsAmong(Members(f.events)),
         InOrder(f.events),
         \A e \in Members(f.events) :
           /\ e.is = "trade" => printed < e.n /\ e.n <= printed'
           /\ e.is = "book" => shown.version <= e.n /\ e.n <= shown'.version
           /\ e.auction = "yes" => Venue = "kis" /\ (e.is = "trade" => e.n \in lost')
  PROVE  StreamInv'
<1>1. StreamTyped /\ Upstream /\ Apart /\ Hours /\ Traded /\ NoneDropped
  BY DEF StreamInv
<1>2. f.events \in Seq(VenueEvents) /\ \A e \in Members(f.events) : e \in VenueEvents
  <2>1. f.events \in Seq(VenueEvents)
    BY DEF Frames
  <2> QED
    BY <2>1, Elements DEF Members
<1>3. /\ wire' \in Seq(Frames)
      /\ OnWire(wire') = OnWire(wire) \/ OnWire(wire') = OnWire(wire) \cup Members(f.events)
      /\ OnWire(wire') # OnWire(wire) \cup Members(f.events) => wire' = wire
  <2>1. wire \in Seq(Frames)
    BY <1>1 DEF StreamTyped
  <2>2. Append(wire, f) \in Seq(Frames) /\ OnWire(Append(wire, f)) = OnWire(wire) \cup Members(f.events)
    BY <2>1, WireAppended, Appended
  <2>3. CASE wire' = Append(wire, f)
    BY <2>2, <2>3
  <2>4. CASE wire' = wire
    BY <2>1, <2>4
  <2> QED
    BY <2>3, <2>4
<1>4. StreamTyped'
  <2>1. shown.version \in Int /\ shown'.version \in Int
    BY <1>1 DEF StreamTyped, ShownBooks
  <2>2. streamBook'.version <= shown'.version
    BY <1>1, <2>1 DEF StreamTyped
  <2> QED
    BY <1>1, <1>3, <2>2 DEF StreamTyped
<1>5. ASSUME NEW e \in VenueEvents, Ahead(e) PROVE Ahead(e)'
  BY <1>1, <1>5 DEF Ahead, StreamTyped, ShownBooks, VenueEvents
<1>6. ASSUME NEW e \in Members(f.events) PROVE Ahead(e)'
  <2>1. e \in VenueEvents
    BY <1>2
  <2>2. \A k \in DOMAIN trades : trades[k] \in 1 .. printed
    BY <1>1 DEF Traded
  <2>3. streamBook.version <= shown.version /\ streamBook.version \in Int /\ shown.version \in Int
        /\ printed \in Nat
    BY <1>1 DEF StreamTyped, ShownBooks
  <2> QED
    BY <2>1, <2>2, <2>3 DEF Ahead, VenueEvents
<1>7. Upstream'
  BY <1>1, <1>3, <1>5, <1>6, EventsTyped DEF Upstream
<1>8. ASSUME NEW e \in VenueEvents, Ahead(e), NEW x \in Members(f.events) PROVE Before(e, x)
  <2>1. e.n \in Nat /\ x.n \in Nat
    BY <1>2 DEF VenueEvents
  <2>2. printed \in Nat /\ shown.version \in Nat
    BY <1>1 DEF StreamTyped, ShownBooks
  <2> QED
    BY <1>8, <2>1, <2>2 DEF Before, Ahead
<1>9. FramesInOrder(wire')
  <2>1. \A e \in OnWire(wire), x \in Members(f.events) : Before(e, x)
    BY <1>1, <1>8, EventsTyped DEF Upstream
  <2> QED
    BY <1>1, <2>1, WireAppended DEF Apart, StreamTyped
<1>10. Apart'
  BY <1>1, <1>3, <1>8, <1>9, EventsTyped DEF Apart, Upstream
<1>11. Hours'
  BY <1>1, <1>3 DEF Hours
<1>12. Traded'
  BY <1>1 DEF Traded, StreamTyped
<1>13. NoneDropped'
  <2>1. CASE OnWire(wire') = OnWire(wire) \cup Members(f.events)
    <3>1. PrintsAmong(OnWire(wire')) = PrintsAmong(OnWire(wire)) \cup PrintsAmong(Members(f.events))
      BY <2>1, PrintsOfBoth
    <3> QED
      BY <1>1, <3>1 DEF NoneDropped
  <2>2. CASE wire' = wire /\ PrintsAmong(Members(f.events)) \subseteq lost'
    BY <1>1, <2>2 DEF NoneDropped
  <2> QED
    BY <1>1, <2>1, <2>2, WireAppended DEF StreamTyped
<1> QED
  BY <1>4, <1>7, <1>10, <1>11, <1>12, <1>13 DEF StreamInv

\* The connection is lost, with what was on the wire and perhaps what was not yet sent.
LEMMA StreamDrop ==
  ASSUME StreamInv, UNCHANGED <<printed, shown, channel, streamBook, trades>>,
         wire' = << >>, link' = "down", pings' \in 0 .. 1, sending' = sending \/ sending' = << >>,
         lost \subseteq lost', PrintsAmong(OnWire(wire)) \subseteq lost',
         sending' # sending => PrintsAmong(Members(sending)) \subseteq lost',
         lost' \subseteq lost \cup PrintsAmong(OnWire(wire)) \cup PrintsAmong(Members(sending))
  PROVE  StreamInv'
<1>1. StreamTyped /\ Upstream /\ Apart /\ Hours /\ Traded /\ NoneDropped
  BY DEF StreamInv
<1>2. << >> \in Seq(Frames) /\ << >> \in Seq(VenueEvents) /\ Len(<< >>) = 0
  BY EmptySeq
<1>3. StreamTyped'
  <2>1. sending' \in Seq(VenueEvents) /\ Len(sending') <= 2
    <3>1. CASE sending' = sending
      BY <1>1, <3>1 DEF StreamTyped
    <3>2. CASE sending' = << >>
      BY <1>2, <3>2
    <3> QED
      BY <3>1, <3>2
  <2>2. wire' \in Seq(Frames)
    BY <1>2
  <2> QED
    BY <1>1, <2>1, <2>2 DEF StreamTyped
<1>4. OnWire(wire') = {} /\ Members(sending') \subseteq Members(sending) /\ FramesInOrder(wire') /\ InOrder(sending')
  BY <1>1, NoMembers DEF Apart
<1>5. Upstream'
  BY <1>1, <1>4 DEF Upstream, Ahead
<1>6. Apart'
  BY <1>1, <1>4 DEF Apart
<1>7. Hours'
  BY <1>1, <1>4 DEF Hours
<1>8. Traded'
  BY <1>1 DEF Traded
<1>9. NoneDropped'
  <2>1. PrintsAmong(OnWire(wire')) = {}
    BY <1>4, PrintsOfBoth
  <2>2. sending' # sending => PrintsAmong(Members(sending')) = {}
    BY NoMembers, PrintsOfBoth
  <2> QED
    BY <1>1, <2>1, <2>2 DEF NoneDropped
<1> QED
  BY <1>3, <1>5, <1>6, <1>7, <1>8, <1>9 DEF StreamInv

\* What a frame's events come to: all of them, or those in regular hours.
LEMMA ReadOf ==
  ASSUME StreamInv, NEW f \in Frames, Members(f.events) \subseteq OnWire(wire)
  PROVE  /\ Stream!Events(f) \in Seq(VenueEvents) /\ Len(Stream!Events(f)) <= 2
         /\ Members(Stream!Events(f)) = {e \in Members(f.events) : e.auction = "no"}
         /\ InOrder(f.events) => InOrder(Stream!Events(f))
<1>1. f.events \in Seq(VenueEvents) /\ Len(f.events) <= 2
  BY DEF Frames
<1>2. CASE Venue = "kis"
  <2>1. Stream!Events(f) = Stream!Kept(f.events)
    BY <1>2 DEF Stream!Events, Stream!KisEvents
  <2> QED
    BY <1>1, <2>1, KeptOf
<1>3. CASE Venue # "kis"
  <2>1. Stream!Events(f) = f.events
    BY <1>3, StreamNumbers DEF Stream!Events, Stream!UpbitEvents, Stream!BinanceEvents
  <2>2. \A e \in Members(f.events) : e \in VenueEvents /\ e.auction # "yes"
    BY <1>3, EventsTyped DEF StreamInv, Hours
  <2>3. \A e \in Members(f.events) : e.auction = "no"
    BY <2>2 DEF VenueEvents
  <2> QED
    BY <1>1, <2>1, <2>3
<1> QED
  BY <1>2, <1>3

\* A frame is read whose kind does not end the stream.
LEMMA StreamReads ==
  ASSUME StreamInv, wire # << >>, sending = << >>,
         wire' = Tail(wire), sending' = Stream!Events(Head(wire)), pings' \in 0 .. 1,
         UNCHANGED <<printed, shown, link, lost, channel, streamBook, trades>>
  PROVE  StreamInv'
<1>1. StreamTyped /\ Upstream /\ Apart /\ Hours /\ Traded /\ NoneDropped
  BY DEF StreamInv
<1> DEFINE f == Head(wire)
           t == Tail(wire)
           es == Stream!Events(f)
<1>2. /\ f \in Frames /\ t \in Seq(Frames)
      /\ OnWire(wire) = Members(f.events) \cup OnWire(t)
      /\ FramesInOrder(t) /\ InOrder(f.events)
      /\ \A e \in Members(f.events), x \in OnWire(t) : Before(e, x)
  BY <1>1, WireTail DEF StreamTyped, Apart
<1>3. /\ es \in Seq(VenueEvents) /\ Len(es) <= 2 /\ InOrder(es)
      /\ Members(es) = {e \in Members(f.events) : e.auction = "no"}
  BY <1>2, ReadOf
<1> HIDE DEF f, t, es
<1>4. wire' = t /\ sending' = es
  BY DEF f, t, es
<1>5. Members(sending) = {}
  BY NoMembers
<1>6. link # "down"
  BY <1>1 DEF StreamTyped
<1>7. StreamTyped'
  BY <1>1, <1>2, <1>3, <1>4, <1>6 DEF StreamTyped
<1>8. /\ \A e \in Members(es) : e \in OnWire(wire) /\ e.auction = "no"
      /\ OnWire(t) \subseteq OnWire(wire)
  BY <1>2, <1>3
<1>9. Upstream'
  BY <1>1, <1>4, <1>8 DEF Upstream, Ahead
<1>10. Apart'
  <2>1. /\ \A e \in Members(channel), x \in Members(es) : Before(e, x)
        /\ \A e \in Members(channel), x \in OnWire(t) : Before(e, x)
    BY <1>1, <1>8 DEF Apart
  <2>2. \A e \in Members(es), x \in OnWire(t) : Before(e, x)
    BY <1>2, <1>3
  <2> QED
    BY <1>1, <1>2, <1>3, <1>4, <2>1, <2>2 DEF Apart
<1>11. Hours'
  BY <1>1, <1>4, <1>8 DEF Hours
<1>12. Traded'
  BY <1>1 DEF Traded
<1>13. NoneDropped'
  <2>1. PrintsAmong(OnWire(wire)) = PrintsAmong(Members(f.events)) \cup PrintsAmong(OnWire(t))
    BY <1>2, PrintsOfBoth
  <2>2. PrintsAmong(Members(es)) \subseteq PrintsAmong(Members(f.events))
    BY <1>3 DEF PrintsAmong
  <2>3. \A n \in PrintsAmong(Members(f.events)) : n \in PrintsAmong(Members(es)) \/ n \in lost
    <3> SUFFICES ASSUME NEW n \in PrintsAmong(Members(f.events))
                 PROVE  n \in PrintsAmong(Members(es)) \/ n \in lost
      OBVIOUS
    <3>1. PICK e \in Members(f.events) : e.is = "trade" /\ n = e.n
      BY DEF PrintsAmong
    <3>2. e \in OnWire(wire) /\ e \in VenueEvents
      BY <1>1, <1>2, EventsTyped
    <3>3. CASE e.auction = "no"
      BY <1>3, <3>1, <3>3 DEF PrintsAmong
    <3>4. CASE e.auction = "yes"
      BY <1>1, <3>1, <3>2, <3>4 DEF Hours
    <3> QED
      BY <3>2, <3>3, <3>4 DEF VenueEvents
  <2>4. PrintsAmong(Members(sending)) = {}
    BY <1>5, PrintsOfBoth
  <2> QED
    BY <1>1, <1>4, <2>1, <2>2, <2>3, <2>4 DEF NoneDropped
<1> QED
  BY <1>7, <1>9, <1>10, <1>11, <1>12, <1>13 DEF StreamInv

LEMMA StreamSend ==
  ASSUME StreamInv, Stream!Send
  PROVE  StreamInv' /\ streamBook' = streamBook
<1>1. StreamTyped /\ Upstream /\ Apart /\ Hours /\ Traded /\ NoneDropped
  BY DEF StreamInv
<1> DEFINE h == Head(sending)
           t == Tail(sending)
           c == Append(channel, h)
<1>2. /\ sending # << >> /\ Len(channel) < Capacity /\ sending' = t /\ channel' = c
      /\ UNCHANGED <<printed, shown, odd, link, wire, pings, lost, streamBook, trades>>
  BY DEF Stream!Send, Stream!venue
<1>3. /\ h \in VenueEvents /\ t \in Seq(VenueEvents) /\ Len(t) <= 2
      /\ Members(sending) = {h} \cup Members(t) /\ InOrder(t) /\ \A x \in Members(t) : Before(h, x)
  <2>1. sending \in Seq(VenueEvents) /\ sending # << >> /\ InOrder(sending) /\ Len(sending) <= 2
    BY <1>1, <1>2 DEF StreamTyped, Apart
  <2>2. h \in VenueEvents /\ t \in Seq(VenueEvents) /\ Len(t) = Len(sending) - 1 /\ Len(sending) \in Nat
    BY <2>1, Tails, LenProperties
  <2>3. Members(sending) = {h} \cup Members(t)
    BY <2>1, MembersOfTail
  <2>4. InOrder(t) /\ \A x \in Members(t) : Before(h, x)
    BY <2>1, InOrderTail
  <2> QED
    BY <2>1, <2>2, <2>3, <2>4
<1>4. /\ c \in Seq(VenueEvents) /\ Len(c) <= Capacity /\ Members(c) = Members(channel) \cup {h} /\ InOrder(c)
  <2>1. channel \in Seq(VenueEvents) /\ InOrder(channel) /\ \A x \in Members(channel) : Before(x, h)
    BY <1>1, <1>3 DEF StreamTyped, Apart
  <2>2. c \in Seq(VenueEvents) /\ Len(c) = Len(channel) + 1 /\ Len(channel) \in Nat
    BY <1>3, <2>1, Appended, LenProperties
  <2>3. Members(c) = Members(channel) \cup {h}
    BY <1>3, <2>1, MembersOfAppend
  <2>4. InOrder(c)
    BY <1>3, <2>1, InOrderAppended
  <2> QED
    BY <1>2, <2>2, <2>3, <2>4, StreamNumbers
<1> HIDE DEF h, t, c
<1>5. StreamTyped'
  BY <1>1, <1>2, <1>3, <1>4 DEF StreamTyped
<1>6. Upstream'
  BY <1>1, <1>2, <1>3, <1>4 DEF Upstream, Ahead
<1>7. Apart'
  BY <1>1, <1>2, <1>3, <1>4 DEF Apart
<1>8. Hours'
  BY <1>1, <1>2, <1>3, <1>4 DEF Hours
<1>9. Traded'
  BY <1>1, <1>2 DEF Traded
<1>10. NoneDropped'
  <2>1. /\ PrintsAmong(Members(sending)) = PrintsAmong({h}) \cup PrintsAmong(Members(t))
        /\ PrintsAmong(Members(c)) = PrintsAmong(Members(channel)) \cup PrintsAmong({h})
    BY <1>3, <1>4, PrintsOfBoth
  <2> QED
    BY <1>1, <1>2, <2>1 DEF NoneDropped
<1> QED
  BY <1>2, <1>5, <1>6, <1>7, <1>8, <1>9, <1>10 DEF StreamInv

LEMMA StreamPump ==
  ASSUME StreamInv, Stream!Pump
  PROVE  StreamInv' /\ streamBook'.version >= streamBook.version
<1>1. StreamTyped /\ Upstream /\ Apart /\ Hours /\ Traded /\ NoneDropped
  BY DEF StreamInv
<1> DEFINE h == Head(channel)
           t == Tail(channel)
<1>2. /\ channel # << >> /\ channel' = t
      /\ UNCHANGED <<printed, shown, odd, link, wire, pings, sending, lost>>
      /\ h.is = "book" => streamBook' = [version |-> h.n, auction |-> h.auction] /\ trades' = trades
      /\ h.is # "book" => streamBook' = streamBook /\ trades' = Append(trades, h.n)
  BY DEF Stream!Pump, Stream!venue, Stream!loop
<1>3. /\ h \in VenueEvents /\ t \in Seq(VenueEvents) /\ Len(t) <= Capacity
      /\ Members(channel) = {h} \cup Members(t) /\ InOrder(t) /\ \A x \in Members(t) : Before(h, x)
  <2>1. channel \in Seq(VenueEvents) /\ channel # << >> /\ InOrder(channel) /\ Len(channel) <= Capacity
    BY <1>1, <1>2 DEF StreamTyped, Apart
  <2>2. h \in VenueEvents /\ t \in Seq(VenueEvents) /\ Len(t) = Len(channel) - 1 /\ Len(channel) \in Nat
    BY <2>1, Tails, LenProperties
  <2>3. Members(channel) = {h} \cup Members(t)
    BY <2>1, MembersOfTail
  <2>4. InOrder(t) /\ \A x \in Members(t) : Before(h, x)
    BY <2>1, InOrderTail
  <2> QED
    BY <2>1, <2>2, <2>3, <2>4, StreamNumbers
<1> HIDE DEF h, t
<1>4. /\ h.is \in {"book", "trade"} /\ h.n \in Nat /\ h.auction = "no" /\ Ahead(h)
      /\ \A x \in Members(t) \cup Members(sending) \cup OnWire(wire) : Before(h, x) /\ Ahead(x) /\ x \in VenueEvents
  BY <1>1, <1>3, EventsTyped DEF VenueEvents, Hours, Upstream, Apart
<1>5. trades \in Seq(Nat) /\ streamBook.version \in Int /\ shown.version \in Nat /\ printed \in Nat
      /\ streamBook.version <= shown.version
  BY <1>1 DEF StreamTyped, ShownBooks
<1>6. Apart'
  BY <1>1, <1>2, <1>3 DEF Apart
<1>7. CASE h.is = "book"
  <2>1. streamBook'.version = h.n /\ streamBook'.auction = "no" /\ trades' = trades
    BY <1>2, <1>4, <1>7
  <2>2. StreamTyped'
    BY <1>1, <1>2, <1>3, <1>4, <1>5, <1>7, <2>1 DEF StreamTyped, Ahead
  <2>3. Upstream'
    <3>1. ASSUME NEW x \in Members(t) \cup Members(sending) \cup OnWire(wire) PROVE Ahead(x)'
      BY <1>2, <1>4, <1>7, <2>1 DEF Ahead, Before
    <3> QED
      BY <1>2, <3>1 DEF Upstream
  <2>4. Hours'
    BY <1>1, <1>2, <1>3, <2>1 DEF Hours
  <2>5. Traded'
    BY <1>1, <1>2, <2>1 DEF Traded
  <2>6. NoneDropped'
    <3>1. PrintsAmong(Members(channel)) = PrintsAmong(Members(t))
      BY <1>3, <1>7 DEF PrintsAmong
    <3> QED
      BY <1>1, <1>2, <2>1, <3>1 DEF NoneDropped
  <2>7. streamBook'.version >= streamBook.version
    BY <1>4, <1>5, <1>7, <2>1 DEF Ahead
  <2> QED
    BY <1>6, <2>2, <2>3, <2>4, <2>5, <2>6, <2>7 DEF StreamInv
<1>8. CASE h.is = "trade"
  <2> DEFINE a == Append(trades, h.n)
  <2>1. streamBook' = streamBook /\ trades' = a
    BY <1>2, <1>8
  <2>2. /\ a \in Seq(Nat)
        /\ \A k \in DOMAIN a : (k \in DOMAIN trades /\ a[k] = trades[k]) \/ (k = Len(trades) + 1 /\ a[k] = h.n)
        /\ Members(a) = Members(trades) \cup {h.n}
        /\ DOMAIN trades = 1 .. Len(trades) /\ Len(trades) \in Nat
    BY <1>4, <1>5, Appended, MembersOfAppend, Elements
  <2>3. h.n \in 1 .. printed /\ \A k \in DOMAIN trades : trades[k] < h.n
    BY <1>4, <1>8 DEF Ahead
  <2> HIDE DEF a
  <2>4. StreamTyped'
    BY <1>1, <1>2, <1>3, <2>1, <2>2 DEF StreamTyped
  <2>5. Upstream'
    <3>1. ASSUME NEW x \in Members(t) \cup Members(sending) \cup OnWire(wire) PROVE Ahead(x)'
      <4>1. x.is = "trade" => h.n < x.n
        BY <1>4, <1>8 DEF Before
      <4>2. x.is = "trade" => \A k \in DOMAIN a : a[k] < x.n
        BY <1>4, <2>2, <4>1 DEF Ahead
      <4> QED
        BY <1>2, <1>4, <2>1, <4>2 DEF Ahead
    <3> QED
      BY <1>2, <3>1 DEF Upstream
  <2>6. Hours'
    BY <1>1, <1>2, <1>3, <2>1 DEF Hours
  <2>7. Traded'
    <3>1. \A k \in DOMAIN a : a[k] \in 1 .. printed
      BY <1>1, <2>2, <2>3 DEF Traded
    <3>2. ASSUME NEW j \in DOMAIN a, NEW k \in DOMAIN a, j < k PROVE a[j] < a[k]
      <4>1. j \in DOMAIN trades /\ a[j] = trades[j]
        BY <2>2, <3>2
      <4>2. CASE k \in DOMAIN trades /\ a[k] = trades[k]
        BY <1>1, <3>2, <4>1, <4>2 DEF Traded, Stream!Increasing
      <4>3. CASE a[k] = h.n
        BY <2>3, <4>1, <4>3
      <4> QED
        BY <2>2, <4>2, <4>3
    <3> QED
      BY <1>2, <2>1, <3>1, <3>2 DEF Traded, Stream!Increasing
  <2>8. NoneDropped'
    <3>1. PrintsAmong(Members(channel)) = {h.n} \cup PrintsAmong(Members(t))
      BY <1>3, <1>8 DEF PrintsAmong
    <3> QED
      BY <1>1, <1>2, <2>1, <2>2, <3>1 DEF NoneDropped
  <2> QED
    BY <1>5, <1>6, <2>1, <2>4, <2>5, <2>6, <2>7, <2>8 DEF StreamInv
<1> QED
  BY <1>4, <1>7, <1>8

LEMMA DataFrames ==
  ASSUME NEW g \in [kind : {"data", "other", "bad", "close", "ping"}, events : Seq(VenueEvents)],
         Len(g.events) <= 2, g.kind = "data"
  PROVE  g \in Frames
BY DEF Frames

\* A frame of one event, and one of two prints.
LEMMA FrameOf ==
  ASSUME NEW e \in VenueEvents
  PROVE  LET f == Stream!Data(<<e>>)
         IN  f \in Frames /\ f.events = <<e>> /\ Members(f.events) = {e} /\ InOrder(f.events)
<1>1. <<e>> \in Seq(VenueEvents) /\ Len(<<e>>) = 1
  OBVIOUS
<1>2. DOMAIN <<e>> = {1} /\ <<e>>[1] = e
  OBVIOUS
<1>3. Members(<<e>>) = {e} /\ InOrder(<<e>>)
  BY <1>2 DEF Members, InOrder
<1>4. /\ Stream!Data(<<e>>).events = <<e>> /\ Len(Stream!Data(<<e>>).events) = 1 /\ Stream!Data(<<e>>).kind = "data"
      /\ Stream!Data(<<e>>) \in [kind : {"data", "other", "bad", "close", "ping"}, events : Seq(VenueEvents)]
  BY <1>1 DEF Stream!Data
<1>5. Stream!Data(<<e>>) \in Frames
  <2>1. 1 <= 2
    OBVIOUS
  <2> QED
    BY <1>4, <2>1, DataFrames, Zenon
<1> QED
  BY <1>3, <1>4, <1>5

LEMMA FrameOfTwo ==
  ASSUME NEW e \in VenueEvents, NEW x \in VenueEvents, Before(e, x)
  PROVE  LET f == Stream!Data(<<e, x>>)
         IN  f \in Frames /\ f.events = <<e, x>> /\ Members(f.events) = {e, x} /\ InOrder(f.events)
<1>1. <<e, x>> \in Seq(VenueEvents) /\ Len(<<e, x>>) = 2
  OBVIOUS
<1>2. DOMAIN <<e, x>> = {1, 2} /\ <<e, x>>[1] = e /\ <<e, x>>[2] = x
  OBVIOUS
<1>3. Members(<<e, x>>) = {e, x}
  BY <1>2 DEF Members
<1>4. \A j, k \in {1, 2} : j < k => j = 1 /\ k = 2
  OBVIOUS
<1>5. InOrder(<<e, x>>)
  BY <1>2, <1>4 DEF InOrder
<1>6. /\ Stream!Data(<<e, x>>).events = <<e, x>> /\ Len(Stream!Data(<<e, x>>).events) = 2 /\ Stream!Data(<<e, x>>).kind = "data"
      /\ Stream!Data(<<e, x>>) \in [kind : {"data", "other", "bad", "close", "ping"}, events : Seq(VenueEvents)]
  BY <1>1 DEF Stream!Data
<1>7. Stream!Data(<<e, x>>) \in Frames
  <2>1. 2 <= 2
    OBVIOUS
  <2> QED
    BY <1>6, <2>1, DataFrames, Zenon
<1> QED
  BY <1>3, <1>5, <1>6, <1>7

LEMMA FrameOfNone ==
  ASSUME NEW kind \in {"other", "bad", "close", "ping"}
  PROVE  LET f == Stream!Control(kind)
         IN  f \in Frames /\ Members(f.events) = {} /\ InOrder(f.events) /\ PrintsAmong(Members(f.events)) = {}
<1>1. << >> \in Seq(VenueEvents) /\ Len(<< >>) = 0
  BY EmptySeq
<1> QED
  BY <1>1, NoMembers, PrintsOfBoth DEF Stream!Control, Frames

\* A print, alone or with the next in a frame of KIS.
LEMMA StreamPrints ==
  ASSUME StreamInv, Stream!Prints \/ Stream!PrintsTwice
  PROVE  StreamInv' /\ streamBook' = streamBook
<1>1. /\ printed \in Nat /\ shown \in ShownBooks /\ shown.version \in Nat /\ shown.auction \in {"no", "yes"}
      /\ link \in {"down", "up", "dead"} /\ pings \in 0 .. 1 /\ (link = "down" => wire = << >>)
      /\ Venue # "kis" => shown.auction = "no"
  BY DEF StreamInv, StreamTyped, ShownBooks, Hours
<1>2. UNCHANGED <<shown, odd, link, pings, sending, channel, streamBook, trades>>
  BY DEF Stream!Prints, Stream!PrintsTwice
<1> DEFINE a == shown.auction
           e == Stream!Trade(printed + 1, a)
           x == Stream!Trade(printed + 2, a)
<1>3. /\ e \in VenueEvents /\ e.is = "trade" /\ e.n = printed + 1 /\ e.auction = a
      /\ x \in VenueEvents /\ x.is = "trade" /\ x.n = printed + 2 /\ x.auction = a
  BY <1>1 DEF Stream!Trade, VenueEvents
<1>4. Before(e, x)
  BY <1>1, <1>3 DEF Before
<1> HIDE DEF e, x
<1>5. CASE Stream!Prints
  <2> DEFINE f == Stream!Data(<<e>>)
  <2>1. /\ printed' = printed + 1
        /\ wire' = IF link = "up" THEN Append(wire, f) ELSE wire
        /\ lost' = IF link = "up" /\ a = "no" THEN lost ELSE lost \cup {printed + 1}
    BY <1>5 DEF Stream!Prints, Stream!Push, Stream!Unread, e
  <2>2. f \in Frames /\ Members(f.events) = {e} /\ InOrder(f.events)
    BY <1>3, FrameOf
  <2> HIDE DEF f
  <2>3. PrintsAmong(Members(f.events)) = {printed + 1}
    BY <1>3, <2>2 DEF PrintsAmong
  <2>4. 1 .. printed' = (1 .. printed) \cup {printed + 1}
    BY <1>1, <2>1
  <2>5. \A y \in Members(f.events) :
          /\ y.is = "trade" => printed < y.n /\ y.n <= printed'
          /\ y.is = "book" => shown.version <= y.n /\ y.n <= shown'.version
          /\ y.auction = "yes" => Venue = "kis" /\ (y.is = "trade" => y.n \in lost')
    BY <1>1, <1>3, <2>1, <2>2
  <2>6. /\ wire' = Append(wire, f) \/ (wire' = wire /\ PrintsAmong(Members(f.events)) \subseteq lost')
        /\ link' = "down" => wire' = << >>
    BY <1>1, <1>2, <2>1, <2>3
  <2>7. /\ lost \subseteq lost' /\ lost' \subseteq lost \cup PrintsAmong(Members(f.events))
        /\ printed' \in Nat /\ printed <= printed' /\ shown' \in ShownBooks /\ shown.version <= shown'.version
        /\ link' \in {"down", "up", "dead"} /\ pings' \in 0 .. 1 /\ (Venue # "kis" => shown'.auction = "no")
    BY <1>1, <1>2, <2>1, <2>3
  <2> QED
    BY <1>2, <2>2, <2>3, <2>4, <2>5, <2>6, <2>7, StreamPush
<1>6. CASE Stream!PrintsTwice
  <2> DEFINE f == Stream!Data(<<e, x>>)
  <2>1. /\ printed' = printed + 2 /\ Venue = "kis"
        /\ wire' = IF link = "up" THEN Append(wire, f) ELSE wire
        /\ lost' = IF link = "up" /\ a = "no" THEN lost ELSE lost \cup {printed + 1, printed + 2}
    BY <1>6 DEF Stream!PrintsTwice, Stream!Push, Stream!Unread, e, x
  <2>2. f \in Frames /\ Members(f.events) = {e, x} /\ InOrder(f.events)
    BY <1>3, <1>4, FrameOfTwo
  <2> HIDE DEF f
  <2>3. PrintsAmong(Members(f.events)) = {printed + 1, printed + 2}
    BY <1>3, <2>2 DEF PrintsAmong
  <2>4. 1 .. printed' = (1 .. printed) \cup {printed + 1, printed + 2}
    BY <1>1, <2>1
  <2>5. \A y \in Members(f.events) :
          /\ y.is = "trade" => printed < y.n /\ y.n <= printed'
          /\ y.is = "book" => shown.version <= y.n /\ y.n <= shown'.version
          /\ y.auction = "yes" => Venue = "kis" /\ (y.is = "trade" => y.n \in lost')
    BY <1>1, <1>3, <2>1, <2>2
  <2>6. /\ wire' = Append(wire, f) \/ (wire' = wire /\ PrintsAmong(Members(f.events)) \subseteq lost')
        /\ link' = "down" => wire' = << >>
    BY <1>1, <1>2, <2>1, <2>3
  <2>7. /\ lost \subseteq lost' /\ lost' \subseteq lost \cup PrintsAmong(Members(f.events))
        /\ printed' \in Nat /\ printed <= printed' /\ shown' \in ShownBooks /\ shown.version <= shown'.version
        /\ link' \in {"down", "up", "dead"} /\ pings' \in 0 .. 1 /\ (Venue # "kis" => shown'.auction = "no")
    BY <1>1, <1>2, <2>1, <2>3
  <2> QED
    BY <1>2, <2>2, <2>3, <2>4, <2>5, <2>6, <2>7, StreamPush
<1> QED
  BY <1>5, <1>6

\* The book as it is, after a move or at the beginning of a stream.
LEMMA StreamShowsBook ==
  ASSUME StreamInv, (\E a \in {"no", "yes"} : Stream!Moves(a)) \/ Stream!Connect
  PROVE  StreamInv' /\ streamBook' = streamBook
<1>1. /\ printed \in Nat /\ shown \in ShownBooks /\ shown.version \in Nat /\ shown.auction \in {"no", "yes"}
      /\ link \in {"down", "up", "dead"} /\ pings \in 0 .. 1 /\ (link = "down" => wire = << >>)
      /\ Venue # "kis" => shown.auction = "no"
  BY DEF StreamInv, StreamTyped, ShownBooks, Hours
<1>2. ASSUME NEW s \in ShownBooks, shown' = s, shown.version <= s.version,
             Venue # "kis" => s.auction = "no",
             UNCHANGED <<printed, pings, sending, lost, channel, streamBook, trades>>,
             link' \in {"down", "up", "dead"}, link' = "down" => wire' = << >>,
             wire' = Append(wire, Stream!Data(<<Stream!Book(s)>>)) \/ wire' = wire
      PROVE  StreamInv' /\ streamBook' = streamBook
  <2> DEFINE e == Stream!Book(s)
             f == Stream!Data(<<e>>)
  <2>1. e \in VenueEvents /\ e.is = "book" /\ e.n = s.version /\ e.auction = s.auction
    BY DEF Stream!Book, VenueEvents, ShownBooks
  <2> HIDE DEF e
  <2>2. f \in Frames /\ Members(f.events) = {e} /\ InOrder(f.events)
    BY <2>1, FrameOf
  <2> HIDE DEF f
  <2>3. PrintsAmong(Members(f.events)) = {}
    BY <2>1, <2>2 DEF PrintsAmong
  <2>4. \A y \in Members(f.events) :
          /\ y.is = "trade" => printed < y.n /\ y.n <= printed'
          /\ y.is = "book" => shown.version <= y.n /\ y.n <= shown'.version
          /\ y.auction = "yes" => Venue = "kis" /\ (y.is = "trade" => y.n \in lost')
    <3>1. s.version \in Nat /\ (e.auction = "yes" => Venue = "kis")
      BY <1>2, <2>1 DEF ShownBooks
    <3> QED
      BY <1>2, <2>1, <2>2, <3>1
  <2>5. /\ wire' = Append(wire, f) \/ (wire' = wire /\ PrintsAmong(Members(f.events)) \subseteq lost')
    BY <1>2, <2>3 DEF e, f
  <2>6. /\ lost \subseteq lost' /\ lost' \subseteq lost \cup PrintsAmong(Members(f.events))
        /\ printed' \in Nat /\ printed <= printed' /\ shown' \in ShownBooks /\ shown.version <= shown'.version
        /\ link' \in {"down", "up", "dead"} /\ pings' \in 0 .. 1 /\ (Venue # "kis" => shown'.auction = "no")
        /\ 1 .. printed' = (1 .. printed) \cup PrintsAmong(Members(f.events))
    BY <1>1, <1>2, <2>3
  <2> QED
    BY <1>2, <2>2, <2>4, <2>5, <2>6, StreamPush
<1>3. ASSUME NEW a \in {"no", "yes"}, Stream!Moves(a)
      PROVE  StreamInv' /\ streamBook' = streamBook
  <2> DEFINE s == [version |-> shown.version + 1, auction |-> a]
  <2>1. /\ shown' = s /\ (a = "yes" => Venue = "kis")
        /\ wire' = IF link = "up" THEN Append(wire, Stream!Data(<<Stream!Book(shown')>>)) ELSE wire
        /\ UNCHANGED <<printed, link, pings, sending, lost, channel, streamBook, trades>>
    BY <1>3 DEF Stream!Moves, Stream!Push
  <2>2. s \in ShownBooks /\ shown.version <= s.version /\ (Venue # "kis" => s.auction = "no")
    BY <1>1, <2>1 DEF ShownBooks
  <2> HIDE DEF s
  <2>3. wire' = Append(wire, Stream!Data(<<Stream!Book(s)>>)) \/ wire' = wire
    BY <2>1
  <2>4. link' \in {"down", "up", "dead"} /\ (link' = "down" => wire' = << >>)
    BY <1>1, <2>1
  <2> QED
    BY <1>2, <2>1, <2>2, <2>3, <2>4
<1>4. CASE Stream!Connect
  <2>1. /\ link = "down" /\ link' = "up" /\ wire' = <<Stream!Data(<<Stream!Book(shown)>>)>>
        /\ UNCHANGED <<printed, shown, pings, sending, lost, channel, streamBook, trades>>
    BY <1>4 DEF Stream!Connect, Stream!venue
  <2>2. wire = << >>
    BY <1>1, <2>1
  <2>3. wire' = Append(wire, Stream!Data(<<Stream!Book(shown)>>))
    BY <2>1, <2>2
  <2>4. shown.version <= shown.version
    BY <1>1
  <2> QED
    BY <1>1, <1>2, <2>1, <2>3, <2>4
<1> QED
  BY <1>3, <1>4

LEMMA StreamSays ==
  ASSUME StreamInv, NEW kind \in {"other", "bad", "close", "ping"}, Stream!Says(kind)
  PROVE  StreamInv' /\ streamBook' = streamBook
<1>1. /\ printed \in Nat /\ shown \in ShownBooks /\ shown.version \in Nat
      /\ pings \in 0 .. 1 /\ (Venue # "kis" => shown.auction = "no")
  BY DEF StreamInv, StreamTyped, ShownBooks, Hours
<1> DEFINE f == Stream!Control(kind)
<1>2. /\ wire' = Append(wire, f) /\ link = "up"
      /\ UNCHANGED <<printed, shown, link, pings, sending, lost, channel, streamBook, trades>>
  BY DEF Stream!Says
<1>3. f \in Frames /\ Members(f.events) = {} /\ InOrder(f.events) /\ PrintsAmong(Members(f.events)) = {}
  BY FrameOfNone
<1> HIDE DEF f
<1>4. /\ lost \subseteq lost' /\ lost' \subseteq lost \cup PrintsAmong(Members(f.events))
      /\ printed' \in Nat /\ printed <= printed' /\ shown' \in ShownBooks /\ shown.version <= shown'.version
      /\ link' \in {"down", "up", "dead"} /\ link' # "down" /\ pings' \in 0 .. 1
      /\ Venue # "kis" => shown'.auction = "no"
      /\ 1 .. printed' = (1 .. printed) \cup PrintsAmong(Members(f.events))
  BY <1>1, <1>2, <1>3
<1>5. \A y \in Members(f.events) : FALSE
  BY <1>3
<1> QED
  BY <1>2, <1>3, <1>4, <1>5, StreamPush

\* What is lost is what was on the wire.
LEMMA StreamEnds ==
  ASSUME StreamInv, Stream!Breaks \/ Stream!Restarts \/ Stream!TimesOut
  PROVE  StreamInv' /\ streamBook' = streamBook
<1>1. UNCHANGED <<printed, shown, channel, streamBook, trades>>
  BY DEF Stream!Breaks, Stream!Restarts, Stream!TimesOut
<1>2. wire' = << >> /\ link' = "down" /\ pings' = 0
  BY DEF Stream!Breaks, Stream!Restarts, Stream!TimesOut, Stream!Down
<1>3. CASE Stream!Breaks \/ Stream!TimesOut
  <2>1. lost' = lost \cup PrintsAmong(OnWire(wire)) /\ sending' = sending
    BY <1>3, PrintsAre DEF Stream!Breaks, Stream!TimesOut, Stream!Down
  <2> QED
    BY <1>1, <1>2, <2>1, StreamDrop
<1>4. CASE Stream!Restarts
  <2>1. /\ lost' = lost \cup PrintsAmong(OnWire(wire)) \cup PrintsAmong(Members(sending))
        /\ sending' = << >>
    BY <1>4, PrintsAre DEF Stream!Restarts
  <2> QED
    BY <1>1, <1>2, <2>1, StreamDrop
<1> QED
  BY <1>3, <1>4

LEMMA StreamRead ==
  ASSUME StreamInv, Stream!Read
  PROVE  StreamInv' /\ streamBook' = streamBook
<1> DEFINE f == Head(wire)
<1>1. /\ wire # << >> /\ sending = << >> /\ UNCHANGED <<printed, shown, odd, channel, streamBook, trades>>
  BY DEF Stream!Read, Stream!venue
<1>2. CASE f.kind = "data" \/ Stream!Skips(f.kind) \/ f.kind = "ping"
  <2>1. /\ wire' = Tail(wire) /\ sending' = Stream!Events(f) /\ UNCHANGED <<link, lost>>
        /\ pings' = IF f.kind = "ping" THEN 1 ELSE 0
    BY <1>2 DEF Stream!Read
  <2>2. pings' \in 0 .. 1
    BY <2>1
  <2> QED
    BY <1>1, <2>1, <2>2, StreamReads
<1>3. CASE ~ (f.kind = "data" \/ Stream!Skips(f.kind) \/ f.kind = "ping")
  <2>1. /\ wire' = << >> /\ link' = "down" /\ pings' = 0 /\ sending' = sending
        /\ lost' = lost \cup PrintsAmong(OnWire(Tail(wire)))
    BY <1>3, PrintsAre DEF Stream!Read, Stream!Down
  <2>2. f \in Frames /\ OnWire(wire) = Members(f.events) \cup OnWire(Tail(wire))
    BY <1>1, WireTail DEF StreamInv, StreamTyped
  <2>3. f.events = << >>
    BY <1>3, <2>2 DEF Frames
  <2>4. OnWire(wire) = OnWire(Tail(wire))
    BY <2>2, <2>3, NoMembers
  <2> QED
    BY <1>1, <2>1, <2>4, StreamDrop
<1> QED
  BY <1>2, <1>3

LEMMA StreamStep ==
  ASSUME StreamInv, Stream!Streaming \/ UNCHANGED streamVars
  PROVE  StreamInv' /\ streamBook'.version >= streamBook.version
<1>1. streamBook.version \in Int /\ pings \in 0 .. 1 /\ link \in {"down", "up", "dead"}
  BY DEF StreamInv, StreamTyped
<1>2. ASSUME UNCHANGED <<printed, shown, wire, sending, channel, streamBook, trades, lost>>,
             pings' \in 0 .. 1, link' \in {"down", "up", "dead"}, link' = "down" => link = "down"
      PROVE  StreamInv'
  <2>1. StreamTyped' /\ Upstream' /\ NoneDropped'
    BY <1>2 DEF StreamInv, StreamTyped, Upstream, Ahead, NoneDropped
  <2>2. Apart' /\ Hours' /\ Traded'
    BY <1>2 DEF StreamInv, Apart, Hours, Traded
  <2> QED
    BY <2>1, <2>2 DEF StreamInv
<1>3. CASE UNCHANGED streamVars
  BY <1>1, <1>2, <1>3 DEF streamVars
<1>4. CASE Stream!Dies
  BY <1>1, <1>2, <1>4 DEF Stream!Dies
<1>5. CASE Stream!Pong
  <2>1. pings' = 0 /\ UNCHANGED <<printed, shown, link, wire, sending, channel, streamBook, trades, lost>>
    BY <1>5 DEF Stream!Pong, Stream!venue
  <2>2. pings' \in 0 .. 1
    BY <2>1
  <2> QED
    BY <1>1, <1>2, <2>1, <2>2
<1>6. CASE \/ Stream!Prints \/ Stream!PrintsTwice \/ Stream!Breaks \/ Stream!Restarts \/ Stream!Connect
           \/ Stream!Read \/ Stream!Send \/ Stream!TimesOut
           \/ (\E a \in {"no", "yes"} : Stream!Moves(a))
           \/ (\E kind \in {"other", "bad", "close", "ping"} : Stream!Says(kind))
  <2>1. StreamInv' /\ streamBook' = streamBook
    BY <1>6, StreamPrints, StreamShowsBook, StreamSays, StreamEnds, StreamRead, StreamSend
  <2> QED
    BY <1>1, <2>1
<1>7. CASE Stream!Pump
  BY <1>7, StreamPump
<1> QED
  BY <1>3, <1>4, <1>5, <1>6, <1>7 DEF Stream!Streaming

LEMMA StreamShows ==
  StreamInv => Stream!TypeOK /\ Stream!PrintsInOrder /\ Stream!NoPrintDropped /\ Stream!NoAuctionBooks
<1> SUFFICES ASSUME StreamInv
             PROVE  Stream!TypeOK /\ Stream!PrintsInOrder /\ Stream!NoPrintDropped /\ Stream!NoAuctionBooks
  OBVIOUS
<1>1. Stream!TypeOK
  BY DEF StreamInv, StreamTyped, Stream!TypeOK
<1>2. Stream!PrintsInOrder /\ Stream!NoAuctionBooks
  BY DEF StreamInv, Traded, Hours, Stream!PrintsInOrder, Stream!NoAuctionBooks
<1>3. Stream!Range(trades) = Members(trades)
  BY DEF Stream!Range, Members
<1>4. Stream!NoPrintDropped
  BY <1>3, PrintsAre DEF StreamInv, NoneDropped, Stream!NoPrintDropped
<1> QED
  BY <1>1, <1>2, <1>4

-----------------------------------------------------------------------------
(* Bars. *)

\* What bars read of the prices told to them; that there is a highest and a lowest one is
\* carried along.
PricesIn(ps) == {ps[k] : k \in DOMAIN ps}
Highest(ps, x) == x \in PricesIn(ps) /\ \A y \in PricesIn(ps) : x >= y
Lowest(ps, x) == x \in PricesIn(ps) /\ \A y \in PricesIn(ps) : x <= y
Barred(ps) ==
  /\ ps \in Seq(Prices) /\ ps # << >>
  /\ (\E x \in Prices : Highest(ps, x)) /\ \E x \in Prices : Lowest(ps, x)

LEMMA PricesAreNumbers == Prices \subseteq Int
BY BarsAssumed DEF Bars!BarsAssumption

LEMMA ToldIs ==
  ASSUME NEW ps \in Seq(Prices)
  PROVE  /\ PricesIn(ps) \subseteq Prices /\ PricesIn(ps) \subseteq Int
         /\ Len(ps) \in Nat /\ (ps # << >> => Len(ps) >= 1 /\ ps[1] \in Prices /\ ps[Len(ps)] \in Prices)
<1>1. Len(ps) \in Nat /\ DOMAIN ps = 1 .. Len(ps) /\ \A k \in DOMAIN ps : ps[k] \in Prices
  BY Elements
<1>2. ps # << >> => Len(ps) # 0
  BY EmptySeq
<1>3. PricesIn(ps) \subseteq Prices /\ PricesIn(ps) \subseteq Int
  BY <1>1, PricesAreNumbers DEF PricesIn
<1>4. ASSUME ps # << >> PROVE Len(ps) >= 1 /\ ps[1] \in Prices /\ ps[Len(ps)] \in Prices
  <2>1. Len(ps) >= 1
    BY <1>1, <1>2, <1>4
  <2>2. 1 \in 1 .. Len(ps) /\ Len(ps) \in 1 .. Len(ps)
    BY <1>1, <2>1
  <2> QED
    BY <1>1, <2>1, <2>2
<1> QED
  BY <1>1, <1>3, <1>4

LEMMA HighestIs ==
  ASSUME NEW ps \in Seq(Prices), NEW x, Highest(ps, x)
  PROVE  Bars!Max(Bars!ToSet(ps)) = x
<1>1. Bars!ToSet(ps) = PricesIn(ps)
  BY DEF Bars!ToSet, PricesIn
<1>2. Bars!Max(PricesIn(ps)) = CHOOSE z \in PricesIn(ps) : \A y \in PricesIn(ps) : z >= y
  BY DEF Bars!Max
<1>3. \A z \in PricesIn(ps) : (\A y \in PricesIn(ps) : z >= y) => z = x
  BY ToldIs DEF Highest
<1>4. (CHOOSE z \in PricesIn(ps) : \A y \in PricesIn(ps) : z >= y) = x
  BY <1>3 DEF Highest
<1> QED
  BY <1>1, <1>2, <1>4

LEMMA LowestIs ==
  ASSUME NEW ps \in Seq(Prices), NEW x, Lowest(ps, x)
  PROVE  Bars!Min(Bars!ToSet(ps)) = x
<1>1. Bars!ToSet(ps) = PricesIn(ps)
  BY DEF Bars!ToSet, PricesIn
<1>2. Bars!Min(PricesIn(ps)) = CHOOSE z \in PricesIn(ps) : \A y \in PricesIn(ps) : z <= y
  BY DEF Bars!Min
<1>3. \A z \in PricesIn(ps) : (\A y \in PricesIn(ps) : z <= y) => z = x
  BY ToldIs DEF Lowest
<1>4. (CHOOSE z \in PricesIn(ps) : \A y \in PricesIn(ps) : z <= y) = x
  BY <1>3 DEF Lowest
<1> QED
  BY <1>1, <1>2, <1>4

\* A single price.
LEMMA OneBarred ==
  ASSUME NEW p \in Prices
  PROVE  Barred(<<p>>)
<1>1. <<p>> \in Seq(Prices) /\ <<p>> # << >>
  OBVIOUS
<1>2. PricesIn(<<p>>) = {p}
  BY DEF PricesIn
<1>3. p >= p /\ p <= p
  BY PricesAreNumbers
<1> QED
  BY <1>1, <1>2, <1>3 DEF Barred, Highest, Lowest

\* The prices told one after the other, with the bar of both.
LEMMA ToldOfBoth ==
  ASSUME NEW ps \in Seq(Prices), NEW qs \in Seq(Prices)
  PROVE  PricesIn(ps \o qs) = PricesIn(ps) \cup PricesIn(qs)
<1>1. /\ ps \o qs \in Seq(Prices) /\ Len(ps \o qs) = Len(ps) + Len(qs)
      /\ \A k \in 1 .. Len(ps) + Len(qs) :
           (ps \o qs)[k] = IF k <= Len(ps) THEN ps[k] ELSE qs[k - Len(ps)]
  BY ConcatProperties
<1>2. /\ Len(ps) \in Nat /\ DOMAIN ps = 1 .. Len(ps) /\ Len(qs) \in Nat /\ DOMAIN qs = 1 .. Len(qs)
      /\ DOMAIN (ps \o qs) = 1 .. Len(ps) + Len(qs)
  BY <1>1, LenProperties
<1>3. ASSUME NEW y \in PricesIn(ps \o qs) PROVE y \in PricesIn(ps) \cup PricesIn(qs)
  <2>1. PICK k \in 1 .. Len(ps) + Len(qs) : y = (ps \o qs)[k]
    BY <1>2, <1>3 DEF PricesIn
  <2>2. CASE k <= Len(ps)
    BY <1>1, <1>2, <2>1, <2>2 DEF PricesIn
  <2>3. CASE k > Len(ps)
    <3>1. k - Len(ps) \in DOMAIN qs /\ y = qs[k - Len(ps)]
      BY <1>1, <1>2, <2>1, <2>3
    <3> QED
      BY <3>1 DEF PricesIn
  <2> QED
    BY <1>2, <2>2, <2>3
<1>4. ASSUME NEW y \in PricesIn(ps) PROVE y \in PricesIn(ps \o qs)
  <2>1. PICK k \in 1 .. Len(ps) : y = ps[k]
    BY <1>2, <1>4 DEF PricesIn
  <2>2. k \in DOMAIN (ps \o qs) /\ (ps \o qs)[k] = y
    BY <1>1, <1>2, <2>1
  <2> QED
    BY <2>2 DEF PricesIn
<1>5. ASSUME NEW y \in PricesIn(qs) PROVE y \in PricesIn(ps \o qs)
  <2>1. PICK k \in 1 .. Len(qs) : y = qs[k]
    BY <1>2, <1>5 DEF PricesIn
  <2>2. k + Len(ps) \in DOMAIN (ps \o qs) /\ ~ (k + Len(ps) <= Len(ps)) /\ (k + Len(ps)) - Len(ps) = k
    BY <1>2, <2>1
  <2>3. (ps \o qs)[k + Len(ps)] = y
    BY <1>1, <1>2, <2>1, <2>2
  <2> QED
    BY <2>2, <2>3 DEF PricesIn
<1> QED
  BY <1>3, <1>4, <1>5

LEMMA JoinedIsBoth ==
  ASSUME NEW ps, Barred(ps), NEW qs, Barred(qs), NEW a, NEW b
  PROVE  Barred(ps \o qs) /\ Bars!Joined(Bars!BarOf(a, ps), Bars!BarOf(b, qs)) = Bars!BarOf(a, ps \o qs)
<1>1. ps \in Seq(Prices) /\ ps # << >> /\ qs \in Seq(Prices) /\ qs # << >>
  BY DEF Barred
<1>2. PICK h1 \in Prices, l1 \in Prices, h2 \in Prices, l2 \in Prices :
        Highest(ps, h1) /\ Lowest(ps, l1) /\ Highest(qs, h2) /\ Lowest(qs, l2)
  BY DEF Barred
<1> DEFINE h == Bars!Higher(h1, h2)
           l == Bars!Lower(l1, l2)
<1>3. PricesIn(ps) \subseteq Int /\ PricesIn(qs) \subseteq Int /\ PricesIn(ps \o qs) = PricesIn(ps) \cup PricesIn(qs)
  BY <1>1, ToldIs, ToldOfBoth
<1>4. h \in Prices /\ Highest(ps \o qs, h)
  BY <1>2, <1>3, PricesAreNumbers DEF Highest, Bars!Higher
<1>5. l \in Prices /\ Lowest(ps \o qs, l)
  BY <1>2, <1>3, PricesAreNumbers DEF Lowest, Bars!Lower
<1>6. /\ ps \o qs \in Seq(Prices) /\ Len(ps \o qs) = Len(ps) + Len(qs)
      /\ \A k \in 1 .. Len(ps) + Len(qs) :
           (ps \o qs)[k] = IF k <= Len(ps) THEN ps[k] ELSE qs[k - Len(ps)]
  BY <1>1, ConcatProperties
<1>7. Len(ps) \in Nat /\ Len(ps) >= 1 /\ Len(qs) \in Nat /\ Len(qs) >= 1
  BY <1>1, ToldIs
<1>8. (ps \o qs)[1] = ps[1] /\ (ps \o qs)[Len(ps) + Len(qs)] = qs[Len(qs)]
  <2>1. 1 \in 1 .. Len(ps) + Len(qs) /\ 1 <= Len(ps)
    BY <1>7
  <2>2. Len(ps) + Len(qs) \in 1 .. Len(ps) + Len(qs) /\ ~ (Len(ps) + Len(qs) <= Len(ps))
        /\ (Len(ps) + Len(qs)) - Len(ps) = Len(qs)
    BY <1>7
  <2> QED
    BY <1>6, <2>1, <2>2
<1>9. ps \o qs # << >>
  <2>1. Len(ps \o qs) # 0
    BY <1>6, <1>7
  <2> QED
    BY <2>1
<1>10. Barred(ps \o qs)
  BY <1>4, <1>5, <1>6, <1>9 DEF Barred
<1>11. Bars!BarOf(a, ps) =
         [start |-> a, open |-> ps[1], high |-> h1, low |-> l1, close |-> ps[Len(ps)], volume |-> Len(ps)]
  BY <1>1, <1>2, HighestIs, LowestIs DEF Bars!BarOf
<1>12. Bars!BarOf(b, qs) =
         [start |-> b, open |-> qs[1], high |-> h2, low |-> l2, close |-> qs[Len(qs)], volume |-> Len(qs)]
  BY <1>1, <1>2, HighestIs, LowestIs DEF Bars!BarOf
<1>13. Bars!BarOf(a, ps \o qs) =
         [start |-> a, open |-> ps[1], high |-> h, low |-> l, close |-> qs[Len(qs)],
          volume |-> Len(ps) + Len(qs)]
  <2>1. Bars!Max(Bars!ToSet(ps \o qs)) = h /\ Bars!Min(Bars!ToSet(ps \o qs)) = l
    BY <1>4, <1>5, <1>6, HighestIs, LowestIs
  <2> QED
    BY <1>6, <1>8, <2>1 DEF Bars!BarOf
<1> QED
  BY <1>10, <1>11, <1>12, <1>13 DEF Bars!Joined

BarPrints == [minute : Bars!Minutes, price : Prices]

\* A bar and what was told to it.
Holds(b, ps) == b.start \in Bars!Minutes /\ Barred(ps) /\ b = Bars!BarOf(b.start, ps)

BarTyped ==
  /\ minute \in 0 .. MaxMinute
  /\ bus \in Seq(BarPrints) /\ Len(bus) <= BusSize
  /\ told \in [Bars!Minutes -> Seq(Prices)]

\* What is in memory is what was told to it, and so is what is stored; of a minute that has
\* no row nothing was stored.
InMemory ==
  /\ bar # Bars!NoBar => Holds(bar, inBar)
  /\ saving # Bars!NoBar => Holds(saving, inSaving)
InTable ==
  /\ DOMAIN rows \subseteq Bars!Minutes
  /\ \A m \in DOMAIN rows : Barred(told[m]) /\ rows[m] = Bars!BarOf(m, told[m])
  /\ \A m \in Bars!Minutes \ DOMAIN rows : told[m] = << >>

BarInv == BarTyped /\ InMemory /\ InTable

LEMMA BarNumbers ==
  /\ BusSize \in Nat \ {0} /\ MaxMinute \in Nat /\ MaxLate \in Nat
  /\ Bars!Minutes = 0 .. MaxMinute /\ Prices \subseteq Int
BY BarsAssumed DEF Bars!BarsAssumption, Bars!Minutes

LEMMA BarStart == Bars!Init => BarInv
<1> SUFFICES ASSUME Bars!Init PROVE BarInv
  OBVIOUS
<1>1. BarTyped
  <2>1. minute = 0 /\ bus = << >> /\ told = [m \in Bars!Minutes |-> << >>]
    BY DEF Bars!Init
  <2>2. << >> \in Seq(BarPrints) /\ << >> \in Seq(Prices) /\ Len(<< >>) = 0
    OBVIOUS
  <2> QED
    BY <2>1, <2>2, BarNumbers DEF BarTyped
<1>2. InMemory
  BY DEF Bars!Init, InMemory
<1>3. InTable
  BY DEF Bars!Init, InTable
<1> QED
  BY <1>1, <1>2, <1>3 DEF BarInv

\* The bar of a single print.
LEMMA FreshHolds ==
  ASSUME NEW m \in Bars!Minutes, NEW p \in Prices
  PROVE  Holds(Bars!BarOf(m, <<p>>), <<p>>)
BY OneBarred DEF Holds, Bars!BarOf

LEMMA JoinedHolds ==
  ASSUME NEW b, NEW ps, Holds(b, ps), NEW p \in Prices, NEW m
  PROVE  Holds(Bars!Joined(b, Bars!BarOf(m, <<p>>)), Append(ps, p))
<1>1. Barred(ps) /\ b = Bars!BarOf(b.start, ps) /\ b.start \in Bars!Minutes /\ Barred(<<p>>)
  BY OneBarred DEF Holds
<1>2. Bars!Joined(b, Bars!BarOf(m, <<p>>)) = Bars!BarOf(b.start, ps \o <<p>>) /\ Barred(ps \o <<p>>)
  BY <1>1, JoinedIsBoth
<1>3. ps \in Seq(Prices)
  BY <1>1 DEF Barred
<1>4. ps \o <<p>> = Append(ps, p)
  BY <1>3, AppendIsConcat
<1>5. Bars!BarOf(b.start, Append(ps, p)).start = b.start
  BY DEF Bars!BarOf
<1> QED
  BY <1>1, <1>2, <1>4, <1>5 DEF Holds

LEMMA BarTakes ==
  ASSUME BarInv, Bars!OnTrade
  PROVE  BarInv'
<1>1. PICK p : p = Head(bus)
  OBVIOUS
<1>2. bus # << >> /\ saving = Bars!NoBar /\ bus' = Tail(bus) /\ UNCHANGED <<minute, rows, told, made>>
  BY DEF Bars!OnTrade
<1>3. p \in BarPrints /\ Tail(bus) \in Seq(BarPrints) /\ Len(Tail(bus)) = Len(bus) - 1 /\ Len(bus) \in Nat
  BY <1>1, <1>2, Tails, Elements DEF BarInv, BarTyped
<1>4. p.minute \in Bars!Minutes /\ p.price \in Prices
  BY <1>3 DEF BarPrints
<1>5. BarTyped'
  BY <1>2, <1>3, BarNumbers DEF BarInv, BarTyped, Bars!Minutes
<1>6. InTable'
  BY <1>2 DEF BarInv, InTable, Bars!Minutes
<1>7. Holds(Bars!BarOf(p.minute, <<p.price>>), <<p.price>>)
  BY <1>4, FreshHolds
<1>8. InMemory'
  <2>1. \/ bar' = Bars!BarOf(p.minute, <<p.price>>) /\ inBar' = <<p.price>> /\ UNCHANGED <<saving, inSaving>>
        \/ /\ bar # Bars!NoBar /\ bar' = Bars!Joined(bar, Bars!BarOf(p.minute, <<p.price>>))
           /\ inBar' = Append(inBar, p.price) /\ UNCHANGED <<saving, inSaving>>
        \/ /\ bar # Bars!NoBar /\ saving' = bar /\ inSaving' = inBar
           /\ bar' = Bars!BarOf(p.minute, <<p.price>>) /\ inBar' = <<p.price>>
        \/ UNCHANGED <<bar, inBar, saving, inSaving>>
    BY <1>1 DEF Bars!OnTrade
  <2>2. bar # Bars!NoBar => Holds(bar, inBar)
    BY DEF BarInv, InMemory
  <2>3. bar # Bars!NoBar =>
          Holds(Bars!Joined(bar, Bars!BarOf(p.minute, <<p.price>>)), Append(inBar, p.price))
    BY <1>4, <2>2, JoinedHolds
  <2>4. (bar' # Bars!NoBar => Holds(bar', inBar')) /\ (saving' # Bars!NoBar => Holds(saving', inSaving'))
    BY <1>2, <1>7, <2>1, <2>2, <2>3
  <2> QED
    BY <2>4 DEF InMemory, Holds, Barred, Highest, Lowest, PricesIn, Bars!NoBar, Bars!Minutes, Bars!BarOf,
                Bars!Max, Bars!Min, Bars!ToSet
<1> QED
  BY <1>5, <1>6, <1>8 DEF BarInv

LEMMA BarSaves ==
  ASSUME BarInv, Bars!Save
  PROVE  BarInv'
<1>1. /\ saving # Bars!NoBar /\ saving' = Bars!NoBar /\ UNCHANGED <<minute, bus, bar, inBar, made>>
      /\ rows' = Bars!Stored(saving) /\ told' = [told EXCEPT ![saving.start] = @ \o inSaving]
  BY DEF Bars!Save
<1> DEFINE n == saving.start
<1>2. n \in Bars!Minutes /\ Barred(inSaving) /\ saving = Bars!BarOf(n, inSaving)
  BY <1>1 DEF BarInv, InMemory, Holds
<1>3. told \in [Bars!Minutes -> Seq(Prices)] /\ inSaving \in Seq(Prices)
  BY <1>2 DEF BarInv, BarTyped, Barred
<1>4. /\ told' \in [Bars!Minutes -> Seq(Prices)] /\ told'[n] = told[n] \o inSaving
      /\ \A m \in Bars!Minutes : m # n => told'[m] = told[m]
  <2>1. told[n] \o inSaving \in Seq(Prices)
    BY <1>2, <1>3, ConcatProperties
  <2> QED
    BY <1>1, <1>2, <1>3, <2>1
<1>5. /\ DOMAIN rows \subseteq Bars!Minutes
      /\ \A m \in DOMAIN rows : Barred(told[m]) /\ rows[m] = Bars!BarOf(m, told[m])
      /\ \A m \in Bars!Minutes \ DOMAIN rows : told[m] = << >>
  BY DEF BarInv, InTable
<1>6. /\ DOMAIN rows' = DOMAIN rows \cup {n}
      /\ \A m \in DOMAIN rows : m # n => rows'[m] = rows[m]
      /\ n \in DOMAIN rows => rows'[n] = Bars!Joined(rows[n], saving)
      /\ n \notin DOMAIN rows => rows'[n] = saving
  BY <1>1 DEF Bars!Stored
<1>7. Barred(told'[n]) /\ rows'[n] = Bars!BarOf(n, told'[n])
  <2>1. CASE n \in DOMAIN rows
    <3>1. Barred(told[n]) /\ rows[n] = Bars!BarOf(n, told[n])
      BY <1>5, <2>1
    <3>2. Bars!Joined(Bars!BarOf(n, told[n]), Bars!BarOf(n, inSaving)) = Bars!BarOf(n, told[n] \o inSaving)
          /\ Barred(told[n] \o inSaving)
      BY <1>2, <3>1, JoinedIsBoth
    <3> QED
      BY <1>2, <1>4, <1>6, <2>1, <3>1, <3>2
  <2>2. CASE n \notin DOMAIN rows
    <3>1. told[n] = << >>
      BY <1>2, <1>5, <2>2
    <3>2. told'[n] = inSaving
      BY <1>3, <1>4, <3>1, ConcatEmptySeq
    <3> QED
      BY <1>2, <1>6, <2>2, <3>2
  <2> QED
    BY <2>1, <2>2
<1>8. \A m \in DOMAIN rows' : Barred(told'[m]) /\ rows'[m] = Bars!BarOf(m, told'[m])
  BY <1>4, <1>5, <1>6, <1>7
<1>9. DOMAIN rows' \subseteq Bars!Minutes /\ \A m \in Bars!Minutes \ DOMAIN rows' : told'[m] = << >>
  BY <1>2, <1>4, <1>5, <1>6
<1>10. InTable'
  BY <1>8, <1>9 DEF InTable, Barred, Highest, Lowest, PricesIn, Bars!Minutes, Bars!BarOf, Bars!Max, Bars!Min,
                    Bars!ToSet
<1>11. BarTyped'
  BY <1>1, <1>4 DEF BarInv, BarTyped, BarPrints, Bars!Minutes
<1>12. InMemory'
  BY <1>1 DEF BarInv, InMemory, Holds, Barred, Highest, Lowest, PricesIn, Bars!NoBar, Bars!Minutes, Bars!BarOf,
              Bars!Max, Bars!Min, Bars!ToSet
<1> QED
  BY <1>10, <1>11, <1>12 DEF BarInv

LEMMA BarPrinted ==
  ASSUME BarInv, NEW m \in Bars!Minutes, NEW p \in Prices, Bars!Traded(m, p)
  PROVE  BarInv'
<1> DEFINE e == [minute |-> m, price |-> p]
           kept == IF Len(bus) = BusSize THEN Tail(bus) ELSE bus
<1>1. bus' = Append(kept, e) /\ UNCHANGED <<minute, bar, saving, rows, inBar, inSaving, told>>
  BY DEF Bars!Traded
<1>2. bus \in Seq(BarPrints) /\ Len(bus) <= BusSize /\ Len(bus) \in Nat /\ e \in BarPrints
  BY Elements DEF BarInv, BarTyped, BarPrints
<1>3. kept \in Seq(BarPrints) /\ Len(kept) + 1 <= BusSize
  <2>1. CASE Len(bus) = BusSize
    <3>1. bus # << >>
      BY <1>2, <2>1, BarNumbers
    <3>2. Tail(bus) \in Seq(BarPrints) /\ Len(Tail(bus)) = Len(bus) - 1
      BY <1>2, <3>1, Tails
    <3> QED
      BY <1>2, <2>1, <3>2, BarNumbers
  <2>2. CASE Len(bus) # BusSize
    BY <1>2, <2>2, BarNumbers
  <2> QED
    BY <2>1, <2>2
<1>4. Append(kept, e) \in Seq(BarPrints) /\ Len(Append(kept, e)) = Len(kept) + 1
  BY <1>2, <1>3, Appended
<1>5. bus' \in Seq(BarPrints) /\ Len(bus') <= BusSize
  BY <1>1, <1>3, <1>4
<1> HIDE DEF kept, e
<1>6. BarTyped'
  BY <1>1, <1>5 DEF BarInv, BarTyped, BarPrints, Bars!Minutes
<1>7. InTable'
  <2>1. UNCHANGED <<rows, told>>
    BY <1>1
  <2>2. InTable
    BY DEF BarInv
  <2> QED
    BY <2>1, <2>2 DEF InTable, Barred, Highest, Lowest, PricesIn, Bars!Minutes, Bars!BarOf, Bars!Max,
                Bars!Min, Bars!ToSet
<1>8. InMemory'
  <2>1. UNCHANGED <<bar, inBar, saving, inSaving>>
    BY <1>1
  <2>2. InMemory
    BY DEF BarInv
  <2> QED
    BY <2>1, <2>2 DEF InMemory, Holds, Barred, Highest, Lowest, PricesIn, Bars!NoBar, Bars!Minutes,
              Bars!BarOf, Bars!Max, Bars!Min, Bars!ToSet
<1> QED
  BY <1>6, <1>7, <1>8 DEF BarInv

\* Bars end, are lost, or time passes.
LEMMA BarWorld ==
  ASSUME BarInv, Bars!Flush \/ Bars!SaveFails \/ Bars!Restart \/ Bars!Passes \/ UNCHANGED barVars
  PROVE  BarInv'
<1>1. rows' = rows /\ told' = told
  BY DEF Bars!Flush, Bars!SaveFails, Bars!Restart, Bars!Passes, barVars
<1>2. InTable'
  BY <1>1 DEF BarInv, InTable, Barred, Highest, Lowest, PricesIn, Bars!Minutes, Bars!BarOf, Bars!Max,
              Bars!Min, Bars!ToSet
<1>3. (minute' = minute \/ (minute < MaxMinute /\ minute' = minute + 1)) /\ (bus' = bus \/ bus' = << >>)
  BY DEF Bars!Flush, Bars!SaveFails, Bars!Restart, Bars!Passes, barVars
<1>4. BarTyped'
  <2>1. bus' \in Seq(BarPrints) /\ Len(bus') <= BusSize
    <3>1. << >> \in Seq(BarPrints) /\ Len(<< >>) <= BusSize
      BY BarNumbers
    <3> QED
      BY <1>3, <3>1 DEF BarInv, BarTyped
  <2>2. minute' \in 0 .. MaxMinute
    BY <1>3, BarNumbers DEF BarInv, BarTyped
  <2>3. told' \in [Bars!Minutes -> Seq(Prices)]
    BY <1>1 DEF BarInv, BarTyped
  <2> QED
    BY <2>1, <2>2, <2>3 DEF BarTyped, BarPrints, Bars!Minutes
<1>5. /\ (bar' = bar /\ inBar' = inBar) \/ bar' = Bars!NoBar
      /\ \/ saving' = saving /\ inSaving' = inSaving
         \/ saving' = bar /\ inSaving' = inBar
         \/ saving' = Bars!NoBar
  BY DEF Bars!Flush, Bars!SaveFails, Bars!Restart, Bars!Passes, barVars
<1>6. InMemory'
  <2>1. (bar' # Bars!NoBar => Holds(bar', inBar')) /\ (saving' # Bars!NoBar => Holds(saving', inSaving'))
    BY <1>5 DEF BarInv, InMemory
  <2> QED
    BY <2>1 DEF InMemory, Holds, Barred, Highest, Lowest, PricesIn, Bars!NoBar, Bars!Minutes,
              Bars!BarOf, Bars!Max, Bars!Min, Bars!ToSet
<1> QED
  BY <1>2, <1>4, <1>6 DEF BarInv

LEMMA BarStep == BarInv /\ (Bars!Next \/ UNCHANGED barVars) => BarInv'
BY BarTakes, BarSaves, BarPrinted, BarWorld DEF Bars!Next

LEMMA BarShows == BarInv => Bars!TypeOK /\ Bars!BarsAddUp
BY DEF BarInv, BarTyped, InMemory, InTable, Holds, Bars!TypeOK, Bars!BarsAddUp

-----------------------------------------------------------------------------
(* All of it together. *)

LookupInv ==
  /\ part = "rates" => RateInv
  /\ part = "pages" => PageInv
  /\ part = "financials" => FinancialInv

MarketInv == KisInv /\ KrxInv /\ StreamInv /\ QuoteInv /\ OrderInv /\ BarInv /\ LookupInv

LEMMA LookupStart == Rates!Init => RateInv /\ PageInv /\ FinancialInv
<1> SUFFICES ASSUME Rates!Init PROVE RateInv /\ PageInv /\ FinancialInv
  OBVIOUS
<1>1. Pages!Init
  BY DEF Rates!Init, Pages!Init, Rates!NotThere, Pages!NotThere, Rates!Never, Pages!Never, Rates!NoOne,
         Pages!NoOne, Rates!IdleCall, Pages!IdleCall, Rates!Reports, Pages!Reports, Rates!Elements,
         Pages!Elements
<1>2. Financials!Init
  BY DEF Rates!Init, Financials!Init, Rates!NotThere, Financials!NotThere, Rates!Never, Financials!Never,
         Rates!NoOne, Financials!NoOne, Rates!IdleCall, Financials!IdleCall, Rates!Reports,
         Financials!Reports, Rates!Elements, Financials!Elements
<1> QED
  BY <1>1, <1>2, RateStart, PageStart, FinancialStart

\* Only codes that are due are downloaded, by one call, and EDGAR is asked Spacing apart.
LEMMA LookupStep ==
  ASSUME LookupInv, [Next]_vars
  PROVE  /\ LookupInv'
         /\ questions' = questions \/ \A c \in Callers :
              /\ questions[c].at = "want_codes" /\ questions'[c].at = "codes" =>
                   Financials!Due /\ ~ Financials!Others(c, "codes")
              /\ questions[c].at = "sleeping" /\ questions'[c].at = "page_given" => hour - last >= Spacing
<1>1. part' = part
  BY StepsOfOne
<1>2. CASE UNCHANGED lookupVars
  <2>1. part = "rates" => RateInv'
    BY <1>2, RateStep DEF LookupInv
  <2>2. part = "pages" => PageInv'
    BY <1>2, PageStep DEF LookupInv
  <2>3. part = "financials" => FinancialInv'
    BY <1>2, FinancialStep DEF LookupInv
  <2>4. questions' = questions
    BY <1>2 DEF lookupVars
  <2> QED
    BY <1>1, <2>1, <2>2, <2>3, <2>4 DEF LookupInv
<1>3. CASE part = "rates" /\ Rates!Next
  <2>1. RateInv /\ RateInv'
    BY <1>3, RateStep DEF LookupInv
  <2>2. \A c \in Callers : questions[c].at \notin {"want_codes", "sleeping"}
    BY <2>1 DEF RateInv, RateTyped, RateCalls
  <2> QED
    BY <1>1, <1>3, <2>1, <2>2 DEF LookupInv
<1>4. CASE part = "pages" /\ Pages!Next
  <2>1. PageInv /\ PageInv'
    BY <1>4, PageStep DEF LookupInv
  <2>2. \A c \in Callers :
          /\ questions[c].at # "want_codes"
          /\ questions[c].at = "sleeping" /\ questions'[c].at = "page_given" => hour - last >= Spacing
    BY <1>4, <2>1, PageSends
  <2> QED
    BY <1>1, <1>4, <2>1, <2>2 DEF LookupInv
<1>5. CASE part = "financials" /\ Financials!Next
  <2>1. FinancialInv /\ FinancialInv'
    BY <1>5, FinancialStep DEF LookupInv
  <2>2. \A c \in Callers :
          /\ questions[c].at = "want_codes" /\ questions'[c].at = "codes" =>
               Financials!Due /\ ~ Financials!Others(c, "codes")
          /\ questions[c].at # "sleeping"
    BY <1>5, <2>1, FinancialSends
  <2> QED
    BY <1>1, <1>5, <2>1, <2>2 DEF LookupInv
<1> QED
  BY <1>2, <1>3, <1>4, <1>5, StepsOfOne

LEMMA MarketStart == Init => MarketInv
BY KisStart, KrxStart, StreamStart, QuoteStart, OrderStart, BarStart, LookupStart
   DEF Init, MarketInv, LookupInv

LEMMA MarketStep == MarketInv /\ [Next]_vars => MarketInv'
<1> SUFFICES ASSUME MarketInv, [Next]_vars PROVE MarketInv'
  OBVIOUS
<1>1. KisInv' /\ KrxInv'
  BY StepsOfOne, KisStep, KrxStep DEF MarketInv
<1>2. StreamInv' /\ QuoteInv'
  BY StepsOfOne, StreamStep, QuoteStep DEF MarketInv
<1>3. OrderInv' /\ BarInv'
  BY StepsOfOne, OrderStep, BarStep DEF MarketInv
<1>4. LookupInv'
  BY LookupStep DEF MarketInv
<1> QED
  BY <1>1, <1>2, <1>3, <1>4 DEF MarketInv

\* In KIS's KRX feed a book carries the previous close of its own day, whatever call was under
\* way over midnight, unless the value was asked for before 08:30 and remembered after it; and
\* from the open on every book of a snapshot that began since 08:30 has one.
THEOREM ReferencesHold == Spec => []ReferencePrices
<1>1. MarketInv => ReferencePrices
  BY KrxShows DEF MarketInv, KrxInv, ReferencePrices
<1> QED
  BY <1>1, MarketStart, MarketStep, PTL DEF Spec

\* Every print of regular hours that a venue's stream was sent is with the broker, once and
\* in its place, or on its way, or was lost with a connection, whatever the pump's pace
\* (stream_ws, pump); and a stored bar is exactly what its stored prints amount to, whatever
\* was late, flushed early, not saved or lost with the process (BarBuilder, save_bars).
THEOREM PrintsAreKept == Spec => []PrintsKept
<1>1. MarketInv => PrintsKept
  BY StreamShows, BarShows DEF MarketInv, PrintsKept
<1> QED
  BY <1>1, MarketStart, MarketStep, PTL DEF Spec

\* KIS is asked for a token only when neither the one in memory nor the one last saved would
\* do, and no request bears the token of another key (KisAuth, CachedToken); the company
\* codes are downloaded when they are due, by one call at a time, and requests to EDGAR
\* leave Spacing apart; and whatever fails or comes late, a rate, a page or a report that is
\* answered is as new as its life says (FxCache, EdgarClient, DartClient).
THEOREM NoNeedlessRequest == Spec => IssuedOnlyWhenNeeded
<1>1. MarketInv /\ [Next]_vars => [issued' # issued => ~ Kis!Usable(slot) /\ ~ Kis!Usable(saved)]_(Kis!vars)
  BY StepsOfOne, KisStep DEF MarketInv
<1>2. MarketInv /\ [Next]_vars =>
        [\A c \in Calls : kisCalls[c].pc = "send" /\ kisCalls'[c].pc \in {"sent", "dead"} =>
           tokens[kisCalls[c].token].key = key]_kisCalls
  BY KisSends DEF MarketInv
<1>3. MarketInv /\ [Next]_vars =>
        [\A c \in Callers :
           /\ questions[c].at = "want_codes" /\ questions'[c].at = "codes" =>
                Pages!Due /\ ~ Pages!Others(c, "codes")
           /\ questions[c].at = "sleeping" /\ questions'[c].at = "page_given" =>
                hour - last >= Spacing]_questions
  BY LookupStep DEF MarketInv, Financials!Due, Pages!Due, Financials!Others, Pages!Others,
     Financials!Never, Pages!Never
<1>4. MarketInv /\ [Next]_vars =>
        [\A c \in Callers :
           /\ questions[c].at = "want_codes" /\ questions'[c].at = "codes" =>
                Financials!Due /\ ~ Financials!Others(c, "codes")
           /\ questions[c].at = "sleeping" /\ questions'[c].at = "page_given" =>
                hour - last >= Spacing]_questions
  BY LookupStep DEF MarketInv
<1>5. MarketInv => /\ part = "kis" => Kis!TypeOK
                   /\ part = "rates" => Rates!TypeOK /\ Rates!AnswersFresh
                   /\ part = "pages" => Pages!TypeOK /\ Pages!AnswersFresh
                   /\ part = "financials" => Financials!TypeOK /\ Financials!NewestReports
  BY KisShows, RateShows, PageShows, FinancialShows DEF MarketInv, LookupInv
<1> QED
  BY <1>1, <1>2, <1>3, <1>4, <1>5, MarketStart, MarketStep, PTL
     DEF Spec, IssuedOnlyWhenNeeded, Kis!IssuedOnlyWhenNeeded, Kis!SentUnderOwnToken,
         Pages!AskedSparingly, Financials!AskedSparingly

\* A REST answer or a stream takes the broker's book back by no more than what waited in the
\* channel (ensure_fresh, pump), and a stream alone never takes it back; and while requests
\* are answered, however late, no order is refused for stale data.
THEOREM BooksGoForward == Spec => BooksHardlyBack
<1>1. MarketInv /\ [Next]_vars => [book'.at >= book.at - Lag]_(Quotes!vars)
  BY StepsOfOne, QuoteStep DEF MarketInv
<1>2. MarketInv /\ [Next]_vars => [streamBook'.version >= streamBook.version]_(Stream!vars)
  BY StepsOfOne, StreamStep DEF MarketInv
<1>3. MarketInv => /\ part = "quotes" => Quotes!TypeOK
                   /\ part = "orders" => Orders!TypeOK /\ Orders!NoNeedlessRefusal
  BY QuoteShows, OrderShows DEF MarketInv
<1> QED
  BY <1>1, <1>2, <1>3, MarketStart, MarketStep, PTL
     DEF Spec, BooksHardlyBack, Quotes!HardlyBack, Stream!BookForward
=============================================================================
