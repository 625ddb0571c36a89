------------------------------- MODULE Lookups -------------------------------
(***************************************************************************)
(* What is asked of others and cached: the exchange rate (FxCache of       *)
(* fx.rs), the reports and company codes of DART (DartClient of            *)
(* fundamentals/dart.rs) and the pages of EDGAR (EdgarClient of            *)
(* fundamentals/edgar.rs), as the tools ask for them at the same time.     *)
(*                                                                         *)
(* now counts coarse ticks, MaxAge, Hour and Day are the lives of a rate,  *)
(* a report and the company codes.  A cached rate or page is the time at   *)
(* which the other side gave it (of) and that at which it was stored (at); *)
(* of reports and codes only the latter is kept.                           *)
(* Parsing of what they answer is not modelled.                            *)
(*                                                                         *)
(* A definition whose comment begins with Mutant is used by nothing: it is *)
(* the definition after it with a mistake the properties must notice.      *)
(***************************************************************************)
EXTENDS Integers, Sequences

CONSTANTS
  Callers,
  Questions,  \* of "rate", "financials" and "page": what callers ask
  Live,       \* whether a live source of the rate is plugged in
  MaxAge, Hour, Day,
  Spacing,    \* least time between two requests to EDGAR
  Lag,        \* bound: how long a rate or page is under way
  Years,      \* annual reports, the newest first
  Quarters,   \* quarterly reports, the newest first
  Filed,      \* reports there are at the start
  MaxNow      \* bound: time

Elements(s) == {s[i] : i \in DOMAIN s}

LookupsAssumption ==
  /\ Questions \subseteq {"rate", "financials", "page"} /\ Live \in BOOLEAN
  /\ {MaxAge, Hour, Day, Spacing} \subseteq Nat \ {0} /\ Lag \in Nat /\ MaxNow \in Nat
  /\ Years \in Seq(Elements(Years)) /\ Quarters \in Seq(Elements(Quarters)) /\ << >> \notin {Years, Quarters}
  /\ "nobody" \notin Callers

VARIABLES
  now,
  rate,     \* FxCache.cached
  codes,    \* DartClient.corp_codes
  holder,   \* of its mutex, held while the codes are downloaded
  reports,  \* DartClient.cache
  page,     \* EdgarClient.cache, of one URL
  last,     \* EdgarClient.last
  filed,    \* reports DART has
  calls     \* what each caller is at

vars == <<now, rate, codes, holder, reports, page, last, filed, calls>>

Never == -1
Reports == Elements(Years) \cup Elements(Quarters)
NotThere == [of |-> Never, at |-> Never]
NoOne == "nobody"

\* asks: the question; at: the step; began, copy: when it was asked and the rate cached then;
\* left: the groups of reports still to ask for, of each the first there is; there: what
\* DART had when asked; found: the reports it was told; of: when the answer was given, or
\* the time to wait for; failed: whether a request went wrong.
IdleCall ==
  [asks |-> "nothing", at |-> "idle", began |-> 0, copy |-> NotThere, left |-> << >>,
   there |-> {}, found |-> {}, of |-> -1, failed |-> FALSE]

IsFresh(at, life) == at # Never /\ now - at < life
Stored(c) == [of |-> calls[c].of, at |-> now]
Go(c, step) == calls' = [calls EXCEPT ![c].at = step]
\* An answer given now is on its way.
Given(c, step) == calls' = [calls EXCEPT ![c].at = step, ![c].of = now]
Replies(c, of) == calls' = [calls EXCEPT ![c].at = "answered", ![c].of = of]
Errs(c) == calls' = [calls EXCEPT ![c].at = "refused", ![c].failed = TRUE]
Others(c, step) == \E d \in Callers \ {c} : calls[d].at = step
MayAsk(c, q) == q \in Questions /\ calls[c].at \in {"idle", "answered", "refused"}
\* A call that has an entry to answer with, and one that has not.
Answered(c, q, entry) ==
  calls' = [calls EXCEPT ![c] = [IdleCall EXCEPT !.asks = q, !.at = "answered", !.began = now,
                                                 !.copy = rate, !.of = entry.of]]
Begins(c, q, step) ==
  calls' = [calls EXCEPT ![c] = [IdleCall EXCEPT !.asks = q, !.at = step, !.began = now, !.copy = rate]]

(***************************************************************************)
(* usd_krw                                                                 *)
(***************************************************************************)
rateUnchanged == UNCHANGED <<now, codes, holder, reports, page, last, filed>>

\* The copy read here is what a failure falls back on, also after the awaits.
AskRate(c) ==
  /\ MayAsk(c, "rate")
  /\ IF IsFresh(rate.at, MaxAge) THEN Answered(c, "rate", rate)
                              ELSE Begins(c, "rate", IF Live THEN "live" ELSE "reference")
  /\ UNCHANGED rate /\ rateUnchanged

GiveRate(c) ==
  /\ calls[c].at \in {"live", "reference"} /\ Given(c, "rate_given")
  /\ UNCHANGED rate /\ rateUnchanged

LiveFails(c) == calls[c].at = "live" /\ Go(c, "reference") /\ UNCHANGED rate /\ rateUnchanged

StoreRate(c) ==
  /\ calls[c].at = "rate_given"
  /\ rate' = Stored(c) /\ Replies(c, calls[c].of)
  /\ rateUnchanged

\* Mutant: the last rate counts as fresh again.
AfterFailureAnew(c) == IF calls[c].copy = NotThere THEN rate ELSE [of |-> calls[c].copy.of, at |-> now]

AfterFailure(c) == rate

\* The last good rate covers for both sources.
ReferenceFails(c) ==
  /\ calls[c].at = "reference"
  /\ IF calls[c].copy = NotThere
     THEN Errs(c)
     ELSE calls' = [calls EXCEPT ![c].at = "answered", ![c].of = calls[c].copy.of, ![c].failed = TRUE]
  /\ rate' = AfterFailure(c) /\ rateUnchanged

(***************************************************************************)
(* DartClient::fundamentals: company codes, then the first annual report   *)
(* there is and the first quarterly one.                                   *)
(***************************************************************************)
dartUnchanged == UNCHANGED <<now, rate, page, last, filed>>

AskFinancials(c) ==
  /\ MayAsk(c, "financials")
  /\ calls' = [calls EXCEPT ![c] = [IdleCall EXCEPT !.asks = "financials", !.at = "want_codes",
                                                    !.left = <<Years, Quarters>>, !.there = filed]]
  /\ UNCHANGED <<codes, holder, reports>> /\ dartUnchanged

\* Mutant: the mutex is given back before the download.
Unlocked == TRUE

Free == holder = NoOne

Due == codes = Never \/ now - codes > Day

LockCodes(c) ==
  /\ calls[c].at = "want_codes" /\ Free
  /\ IF Due THEN holder' = c /\ Go(c, "codes")
            ELSE UNCHANGED holder /\ Go(c, "cached")
  /\ UNCHANGED <<codes, reports>> /\ dartUnchanged

StoreCodes(c) ==
  /\ calls[c].at = "codes"
  /\ codes' = now /\ holder' = NoOne /\ Go(c, "cached")
  /\ UNCHANGED reports /\ dartUnchanged

\* A company without a code is refused, too.
CodesFail(c) ==
  /\ calls[c].at = "codes" /\ Errs(c) /\ holder' = NoOne
  /\ UNCHANGED <<codes, reports>> /\ dartUnchanged

Wanted(c) == Head(Head(calls[c].left))
\* With a report, the rest of its group is not asked for; without one, the next is.
Groups(c, found) ==
  LET group == Head(calls[c].left)
  IN  IF found \/ Len(group) = 1 THEN Tail(calls[c].left) ELSE <<Tail(group)>> \o Tail(calls[c].left)
Goes(c, found) ==
  LET left == Groups(c, found)
  IN  calls' = [calls EXCEPT ![c].left = left,
                             ![c].found = IF found THEN @ \cup {Wanted(c)} ELSE @,
                             ![c].at = IF left = << >> THEN "answered" ELSE "cached"]

CachedReport(c) ==
  /\ calls[c].at = "cached"
  /\ IF IsFresh(reports[Wanted(c)], Hour) THEN Goes(c, TRUE) ELSE Go(c, "report")
  /\ UNCHANGED <<codes, holder, reports>> /\ dartUnchanged

GiveReport(c) ==
  /\ calls[c].at = "report"
  /\ Go(c, IF Wanted(c) \in filed THEN "report_given" ELSE "none_given")
  /\ UNCHANGED <<codes, holder, reports>> /\ dartUnchanged

StoreReport(c) ==
  /\ calls[c].at = "report_given"
  /\ reports' = [reports EXCEPT ![Wanted(c)] = now]
  /\ Goes(c, TRUE)
  /\ UNCHANGED <<codes, holder>> /\ dartUnchanged

\* Mutant: that there is no report is remembered for an hour as well.
NoDataCached(c) == [reports EXCEPT ![Wanted(c)] = now]

NoData(c) == reports

NoReport(c) ==
  /\ calls[c].at = "none_given"
  /\ reports' = NoData(c) /\ Goes(c, FALSE)
  /\ UNCHANGED <<codes, holder>> /\ dartUnchanged

ReportFails(c) ==
  /\ calls[c].at = "report" /\ Errs(c)
  /\ UNCHANGED <<codes, holder, reports>> /\ dartUnchanged

(***************************************************************************)
(* EdgarClient::get.  The mutex of last is held while a request waits for  *)
(* its turn, not while it is under way.                                    *)
(***************************************************************************)
edgarUnchanged == UNCHANGED <<now, rate, codes, holder, reports, filed>>

AskPage(c) ==
  /\ MayAsk(c, "page")
  /\ IF IsFresh(page.at, Hour) THEN Answered(c, "page", page) ELSE Begins(c, "page", "want_turn")
  /\ UNCHANGED <<page, last>> /\ edgarUnchanged

\* Mutant: the wait is computed with the mutex and slept without it.
AnyTurn(c) == TRUE

Turn(c) == ~Others(c, "sleeping")

LockTurn(c) ==
  /\ calls[c].at = "want_turn" /\ Turn(c)
  /\ calls' = [calls EXCEPT ![c].at = "sleeping", ![c].of = last + Spacing]
  /\ UNCHANGED <<page, last>> /\ edgarUnchanged

SendPage(c) ==
  /\ calls[c].at = "sleeping" /\ now >= calls[c].of
  /\ last' = now /\ Given(c, "page_given")
  /\ UNCHANGED page /\ edgarUnchanged

StorePage(c) ==
  /\ calls[c].at = "page_given"
  /\ page' = Stored(c) /\ Replies(c, calls[c].of)
  /\ UNCHANGED last /\ edgarUnchanged

PageFails(c) ==
  /\ calls[c].at = "page_given" /\ Errs(c)
  /\ UNCHANGED <<page, last>> /\ edgarUnchanged

(***************************************************************************)
(* Time, and the companies.                                                *)
(***************************************************************************)
\* A rate or page is under way for Lag at most: requests time out.
Passes ==
  /\ now < MaxNow
  /\ \A c \in Callers : calls[c].at \in {"rate_given", "page_given"} => now - calls[c].of < Lag
  /\ now' = now + 1
  /\ UNCHANGED <<rate, codes, holder, reports, page, last, filed, calls>>

Files(r) ==
  /\ "financials" \in Questions /\ r \in Reports \ filed
  /\ filed' = filed \cup {r}
  /\ UNCHANGED <<now, rate, codes, holder, reports, page, last, calls>>

Init ==
  /\ now = 0 /\ rate = NotThere /\ codes = Never /\ holder = NoOne
  /\ reports = [r \in Reports |-> Never] /\ page = NotThere
  /\ last = -Spacing /\ filed = Filed
  /\ calls = [c \in Callers |-> IdleCall]

Next ==
  \/ \E c \in Callers :
       \/ AskRate(c) \/ GiveRate(c) \/ LiveFails(c) \/ StoreRate(c) \/ ReferenceFails(c)
       \/ AskFinancials(c) \/ LockCodes(c) \/ StoreCodes(c) \/ CodesFail(c)
       \/ CachedReport(c) \/ GiveReport(c) \/ StoreReport(c) \/ NoReport(c) \/ ReportFails(c)
       \/ AskPage(c) \/ LockTurn(c) \/ SendPage(c) \/ StorePage(c) \/ PageFails(c)
  \/ Passes \/ \E r \in Reports : Files(r)

Spec == Init /\ [][Next]_vars

(***************************************************************************)
(* Properties.                                                             *)
(***************************************************************************)
TypeOK ==
  /\ {rate.at, codes, page.at} \subseteq -1 .. MaxNow /\ last \in -Spacing .. MaxNow
  /\ holder = NoOne <=> \A c \in Callers : calls[c].at # "codes"

\* What is answered from a cache, or by the other side, was given less than the cache's
\* life and an answer's way before the question, whichever of the calls under way stored
\* what in between.  The exception is a rate of which every refresh has failed.
AnswersFresh ==
  \A c \in Callers : calls[c].at = "answered" /\ ~calls[c].failed =>
    /\ calls[c].asks = "rate" => calls[c].began - calls[c].of < MaxAge + Lag
    /\ calls[c].asks = "page" => calls[c].began - calls[c].of < Hour + Lag

\* Financials are of the newest annual and quarterly report there was when they were asked
\* for, although answers are cached for an hour: "no data" must not be.
NewestReports ==
  \A c \in Callers : calls[c].at = "answered" /\ calls[c].asks = "financials" =>
    /\ calls[c].found \subseteq filed
    /\ \A group \in {Years, Quarters} : \A i \in DOMAIN group :
         group[i] \in calls[c].there => \E j \in 1 .. i : group[j] \in calls[c].found

\* The codes of all companies are downloaded once a day, by one of the calls that need
\* them at the same time; and requests to EDGAR leave at least Spacing apart.
AskedSparingly ==
  [][\A c \in Callers :
       /\ calls[c].at = "want_codes" /\ calls'[c].at = "codes" =>
            Due /\ ~Others(c, "codes")
       /\ calls[c].at = "sleeping" /\ calls'[c].at = "page_given" => now - last >= Spacing]_calls
=============================================================================
