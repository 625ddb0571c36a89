---------------------------- MODULE LoginLimiter ----------------------------
(***************************************************************************)
(* The limiter of failed logins (Limiter in web/auth.rs) as the login and  *)
(* password handlers of web/mod.rs use it: they check it under its lock,   *)
(* await the database, and count a failure under the lock again, with the  *)
(* time at which they began.                                               *)
(*                                                                         *)
(* A failure is kept as its age in minutes, a lock as the minutes left.    *)
(*                                                                         *)
(* A definition whose comment begins with Mutant is used by nothing: it is *)
(* the definition after it with a mistake the properties must notice.      *)
(***************************************************************************)
EXTENDS Integers, Sequences, FiniteSets, SequencesExt

CONSTANTS
  Tasks,       \* requests handled at the same time
  Users,       \* names that are tried
  Client,      \* the key of the one client
  Window,      \* how long a failure counts (15 minutes)
  Free,        \* failures without a lock (4)
  MaxLock,     \* the longest lock (60 minutes)
  SweepAt,     \* size of the map that triggers a sweep (1000)
  MaxSpan      \* bound: minutes a request takes

LoginLimiterAssumption ==
  /\ Client \notin Users
  /\ {Window, Free, MaxLock, SweepAt, MaxSpan} \subseteq Nat

VARIABLES
  failures,   \* Limiter.failures: the ages and the lock of each key it holds
  sweepAt,    \* Limiter.sweep_at
  requests,   \* requests past the check, by task
  counted     \* history: ages of the failures of each key since it succeeded

vars == <<failures, sweepAt, requests, counted>>

Keys == Users \cup {Client}
Past == -MaxSpan    \* a lock that is over for every request under way
Entry == [ages |-> <<>>, lock |-> Past]
None == [user |-> Client, age |-> 0, form |-> "login"]
Held == DOMAIN failures

\* The failures that count for a request that began age minutes ago.
Recent(ages, age) == SelectSeq(ages, LAMBDA a : a - age < Window)
Locked(k) == k \in Held /\ failures[k].lock > 0
Bounded(n, m) == IF n < m THEN n ELSE m

\* Mutant: the exponent counts from the first failure over the limit.
LockForLess(n) == IF n <= Free + 1 THEN 0 ELSE Bounded(2 ^ (n - Free - 2), MaxLock)

\* Mutant: the lock is not capped.
LockForUncapped(n) == IF n <= Free THEN 0 ELSE 2 ^ (n - Free - 1)

\* 2^(n-5) minutes from the fifth failure on.
LockFor(n) == IF n <= Free THEN 0 ELSE Bounded(2 ^ (n - Free - 1), MaxLock)

\* Mutant: a sweep forgets the keys that are not locked.
SweptUnlocked(f, age) == [k \in {x \in DOMAIN f : f[x].lock + age > 0} |-> f[k]]

\* Keys whose window and lock have both passed are forgotten.
Swept(f, age) == [k \in {x \in DOMAIN f : f[x].lock + age > 0 \/ Recent(f[x].ages, age) # <<>>} |-> f[k]]

\* Limiter::fail for a request that began age minutes ago.
fail(f, k, age) ==
  LET old == IF k \in DOMAIN f THEN f[k] ELSE Entry
      ages == Append(Recent(old.ages, age), age)
      new == [ages |-> ages, lock |-> IF Len(ages) <= Free THEN old.lock ELSE LockFor(Len(ages)) - age]
  IN  [x \in DOMAIN f \cup {k} |-> IF x = k THEN new ELSE f[x]]

MaxN(a, b) == IF a > b THEN a ELSE b
Size(f) == Cardinality(DOMAIN f)
Sweeps(f, at) == Size(f) >= MaxN(at, SweepAt)
SweptIf(f, at, age) == IF Sweeps(f, at) THEN Swept(f, age) ELSE f
NextSweep(f, at, age) == IF Sweeps(f, at) THEN 2 * Size(Swept(f, age)) ELSE at

-----------------------------------------------------------------------------
Under(t, form) == requests[t] # None /\ requests[t].form = form

\* The login handler looks at both keys, the password handler at the user's only.
Check(t, u, form) ==
  /\ requests[t] = None
  /\ ~ Locked(u) /\ (form = "login" => ~ Locked(Client))
  /\ requests' = [requests EXCEPT ![t] = [user |-> u, age |-> 0, form |-> form]]
  /\ UNCHANGED <<failures, sweepAt, counted>>

\* Wrong name, password or code: both keys fail, one after the other.
Fail(t) ==
  /\ Under(t, "login")
  /\ LET u == requests[t].user
         age == requests[t].age
         one == fail(SweptIf(failures, sweepAt, age), u, age)
         at == NextSweep(failures, sweepAt, age)
     IN  /\ failures' = fail(SweptIf(one, at, age), Client, age)
         /\ sweepAt' = NextSweep(one, at, age)
         /\ counted' = [k \in Keys |-> IF k \in {u, Client} THEN Append(counted[k], age) ELSE counted[k]]
  /\ requests' = [requests EXCEPT ![t] = None]

Succeed(t) ==
  /\ Under(t, "login")
  /\ LET gone == {requests[t].user, Client}
     IN  /\ failures' = [k \in Held \ gone |-> failures[k]]
         /\ counted' = [k \in Keys |-> IF k \in gone THEN <<>> ELSE counted[k]]
  /\ requests' = [requests EXCEPT ![t] = None]
  /\ UNCHANGED sweepAt

\* The password handler counts under the user's key only.
WrongPassword(t) ==
  /\ Under(t, "password")
  /\ LET u == requests[t].user
         age == requests[t].age
     IN  /\ failures' = fail(SweptIf(failures, sweepAt, age), u, age)
         /\ counted' = [counted EXCEPT ![u] = Append(@, age)]
         /\ sweepAt' = NextSweep(failures, sweepAt, age)
  /\ requests' = [requests EXCEPT ![t] = None]

\* The database fails, or the password is the user's: nothing is counted and nothing forgotten.
Leaves(t) ==
  /\ requests[t] # None /\ requests' = [requests EXCEPT ![t] = None]
  /\ UNCHANGED <<failures, sweepAt, counted>>

\* A minute passes; what is older than the window counts for nothing any more.
Older(ages) == [i \in DOMAIN ages |-> Bounded(ages[i] + 1, Window + MaxSpan)]

Minute ==
  /\ \A t \in Tasks : requests[t] # None => requests[t].age < MaxSpan
  /\ failures' = [k \in Held |-> [ages |-> Older(failures[k].ages),
                                  lock |-> MaxN(failures[k].lock - 1, Past)]]
  /\ requests' = [t \in Tasks |-> IF requests[t] = None THEN None ELSE [requests[t] EXCEPT !.age = @ + 1]]
  /\ counted' = [k \in Keys |-> Recent(Older(counted[k]), 0)]
  /\ UNCHANGED sweepAt

Init ==
  /\ failures = << >> /\ sweepAt = 0
  /\ requests = [t \in Tasks |-> None]
  /\ counted = [k \in Keys |-> <<>>]

Next ==
  \/ \E t \in Tasks : \/ \E u \in Users, form \in {"login", "password"} : Check(t, u, form)
                      \/ Fail(t) \/ Succeed(t) \/ WrongPassword(t) \/ Leaves(t)
  \/ Minute

Spec == Init /\ [][Next]_vars

(***************************************************************************)
(* Properties.                                                             *)
(***************************************************************************)
TypeOK ==
  /\ Held \subseteq Keys
  /\ \A k \in Held : /\ failures[k].lock \in Past .. MaxLock
                     /\ \A i \in DOMAIN failures[k].ages : failures[k].ages[i] \in 0 .. Window + MaxSpan
  /\ sweepAt \in 0 .. 2 * Cardinality(Keys)
  /\ requests \in [Tasks -> [user : Keys, age : 0 .. MaxSpan, form : {"login", "password"}]]

\* Locks that double keep the failures of any window few: Free of them cost nothing
\* and the locks of the next (1, 2, 4, ... minutes) fill the window, Doublings of
\* them (4 at 15 minutes). The check and the count are two steps, so requests
\* that were let in together may each add one to every burst, and no more.
Doublings == CHOOSE d \in 1 .. Window : 2 ^ d > Window /\ 2 ^ (d - 1) <= Window
RateBounded ==
  \A k \in Keys : Len(Recent(counted[k], 0)) <= Free + Doublings * Cardinality(Tasks)

\* A sweep, whenever it comes, forgets no failure that still counts.
NothingForgotten ==
  \A k \in Keys : Recent(counted[k], 0) # <<>> =>
    k \in Held /\ Len(Recent(failures[k].ages, 0)) = Len(Recent(counted[k], 0))
=============================================================================
