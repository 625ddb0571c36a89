----------------------------- MODULE KisClient ------------------------------
(***************************************************************************)
(* The client of the KIS REST interface (KisClient in feed/kis/mod.rs):    *)
(* pacing, the access token in memory and on disk, its issuance, expiry    *)
(* and revocation, concurrent calls of get and restarts of the process.    *)
(*                                                                         *)
(* KIS itself is external: it issues tokens, lets them expire, may revoke  *)
(* one (it does when the key is used elsewhere) and refuses dead ones.     *)
(* The client sets no time limit: an answer may never come.                *)
(*                                                                         *)
(* A definition whose comment begins with Mutant is used by nothing: it is *)
(* the definition after it with a mistake the properties must notice.      *)
(***************************************************************************)
EXTENDS Naturals

CONSTANTS
  Calls,         \* calls of get
  Keys,          \* app keys the dashboard may save
  MinInterval,   \* KisConfig::min_interval, in units of the pacing clock
  Life,          \* how long a token lives, in units of the token clock
  Margin,        \* the ten minutes a token must still be good for
  MaxTokens,     \* bound: tokens issued
  MaxRevoked,    \* bound: tokens revoked
  MaxRestarts    \* bound: restarts, each with any key

KisClientAssumption ==
  /\ {MinInterval, Life, Margin, MaxTokens, MaxRevoked, MaxRestarts} \subseteq Nat
  /\ Margin < Life /\ "nobody" \notin Calls

VARIABLES
  key,       \* KisConfig.app_key
  slot,      \* KisClient.token; 0 is None
  file,      \* the token in the cache file; 0 when there is none
  issued,    \* the number of the newest token
  saved,     \* history: the newest token that reached the file
  tokens,    \* what each token is good for: its key and the time left
  holder,    \* who holds the token mutex over an await
  sinceLast, \* age of KisClient.last_call, up to MinInterval
  sinceSend, \* history: age of the newest request sent, up to MinInterval
  calls,     \* how far each call has come, and the token it sends
  revoked, restarts

local == <<slot, file, holder, sinceLast>>
vars == <<key, local, issued, saved, tokens, sinceSend, calls, revoked, restarts>>

None == 0
Idle == [pc |-> "idle", token |-> None]
Nobody == "nobody"
AtMost(n, m) == IF n < m THEN n ELSE m

\* Mutant: the time elapsed is not saturated.
AgedForEver(n) == n + 1

Aged(n) == AtMost(n + 1, MinInterval)

\* Mutant: a cached token is taken whatever app key it was issued for.
UsableForAll(t) == t # None /\ tokens[t].left > Margin

\* What CachedToken::load and the slot's filter accept.
Usable(t) == t # None /\ tokens[t].left > Margin /\ tokens[t].key = key

Alive(t) == tokens[t].left > 0

-----------------------------------------------------------------------------
Start(c) ==
  /\ calls[c] = Idle
  /\ calls' = [calls EXCEPT ![c].pc = "pace"]
  /\ UNCHANGED <<key, local, issued, saved, tokens, sinceSend, revoked, restarts>>

\* last_call is locked over the sleep, so the sleep ends as it was computed.
Pace(c) ==
  /\ calls[c].pc = "pace" /\ sinceLast >= MinInterval
  /\ sinceLast' = 0
  /\ calls' = [calls EXCEPT ![c].pc = "token"]
  /\ UNCHANGED <<key, slot, file, holder, issued, saved, tokens, sinceSend, revoked, restarts>>

\* token(): memory, then the file, then an issuance under the lock.
FromMemory(c) ==
  /\ calls[c].pc = "token" /\ holder = Nobody /\ Usable(slot)
  /\ calls' = [calls EXCEPT ![c] = [pc |-> "send", token |-> slot]]
  /\ UNCHANGED <<key, local, issued, saved, tokens, sinceSend, revoked, restarts>>

FromFile(c) ==
  /\ calls[c].pc = "token" /\ holder = Nobody /\ ~ Usable(slot) /\ Usable(file)
  /\ slot' = file
  /\ calls' = [calls EXCEPT ![c] = [pc |-> "send", token |-> file]]
  /\ UNCHANGED <<key, file, holder, sinceLast, issued, saved, tokens, sinceSend, revoked, restarts>>

\* Mutant: the lock is released while the issuance is under way.
AskUnlocked(c) ==
  /\ calls[c].pc = "token" /\ holder = Nobody /\ ~ Usable(slot) /\ ~ Usable(file)
  /\ calls' = [calls EXCEPT ![c].pc = "issue"]
  /\ UNCHANGED <<key, local, issued, saved, tokens, sinceSend, revoked, restarts>>

Ask(c) ==
  /\ calls[c].pc = "token" /\ holder = Nobody /\ ~ Usable(slot) /\ ~ Usable(file)
  /\ holder' = c
  /\ calls' = [calls EXCEPT ![c].pc = "issue"]
  /\ UNCHANGED <<key, slot, file, sinceLast, issued, saved, tokens, sinceSend, revoked, restarts>>

Issued(c) ==
  /\ calls[c].pc = "issue" /\ issued < MaxTokens
  /\ issued' = issued + 1
  /\ tokens' = [tokens EXCEPT ![issued'] = [key |-> key, left |-> Life]]
  /\ slot' = issued'
  /\ calls' = [calls EXCEPT ![c] = [pc |-> "send", token |-> issued']]
  /\ holder' = Nobody
  /\ UNCHANGED <<key, sinceLast, sinceSend, revoked, restarts>>

Issue(c) == Issued(c) /\ file' = issued' /\ saved' = issued'

\* The file cannot be written: the token is kept in memory only.
IssueUnsaved(c) == Issued(c) /\ UNCHANGED <<file, saved>>

\* Mutant: an issuance that fails keeps the mutex.
IssueFailsHolding(c) ==
  /\ calls[c].pc = "issue"
  /\ calls' = [calls EXCEPT ![c] = Idle]
  /\ UNCHANGED <<key, local, issued, saved, tokens, sinceSend, revoked, restarts>>

IssueFails(c) ==
  /\ calls[c].pc = "issue"
  /\ calls' = [calls EXCEPT ![c] = Idle]
  /\ holder' = Nobody
  /\ UNCHANGED <<key, slot, file, sinceLast, issued, saved, tokens, sinceSend, revoked, restarts>>

\* The request reaches KIS, which looks at its token.
Send(c) ==
  /\ calls[c].pc = "send"
  /\ calls' = [calls EXCEPT ![c].pc = IF Alive(calls[c].token) THEN "sent" ELSE "dead"]
  /\ sinceSend' = 0
  /\ UNCHANGED <<key, local, issued, saved, tokens, revoked, restarts>>

\* KIS answers, or the connection fails; only a dead token makes a token error.
Answer(c) ==
  /\ \/ calls[c].pc \in {"sent", "dead"} /\ calls' = [calls EXCEPT ![c] = Idle]
     \/ calls[c].pc = "dead" /\ calls' = [calls EXCEPT ![c].pc = "refused"]
  /\ UNCHANGED <<key, local, issued, saved, tokens, sinceSend, revoked, restarts>>

\* The token in memory goes, whichever it is by now, and then the file.
Drop(c) ==
  /\ calls[c].pc = "refused" /\ holder = Nobody
  /\ slot' = None
  /\ calls' = [calls EXCEPT ![c].pc = "dropped"]
  /\ UNCHANGED <<key, file, holder, sinceLast, issued, saved, tokens, sinceSend, revoked, restarts>>

RemoveFile(c) ==
  /\ calls[c].pc = "dropped"
  /\ file' = None
  /\ calls' = [calls EXCEPT ![c] = Idle]
  /\ UNCHANGED <<key, slot, holder, sinceLast, issued, saved, tokens, sinceSend, revoked, restarts>>

-----------------------------------------------------------------------------
\* The pacing clock and the token clock; they run on very different scales.
Tick ==
  /\ sinceLast < MinInterval \/ sinceSend < MinInterval
  /\ sinceLast' = Aged(sinceLast) /\ sinceSend' = Aged(sinceSend)
  /\ UNCHANGED <<key, slot, file, holder, issued, saved, tokens, calls, revoked, restarts>>

\* No request is on its way to KIS for the ten minutes of the margin.
Expire(t) ==
  /\ t <= issued /\ Alive(t)
  /\ tokens[t].left <= Margin => \A c \in Calls : calls[c].pc = "send" => calls[c].token # t
  /\ tokens' = [tokens EXCEPT ![t].left = @ - 1]
  /\ UNCHANGED <<key, local, issued, saved, sinceSend, calls, revoked, restarts>>

Revoke(t) ==
  /\ t <= issued /\ Alive(t) /\ revoked < MaxRevoked
  /\ tokens' = [tokens EXCEPT ![t].left = 0]
  /\ revoked' = revoked + 1
  /\ UNCHANGED <<key, local, issued, saved, sinceSend, calls, restarts>>

\* A restart, perhaps to apply another key.
Restart(k) ==
  /\ restarts < MaxRestarts /\ restarts' = restarts + 1
  /\ key' = k
  /\ slot' = None /\ holder' = Nobody /\ sinceLast' = MinInterval
  /\ calls' = [c \in Calls |-> Idle]
  /\ UNCHANGED <<file, issued, saved, tokens, sinceSend, revoked>>

Init ==
  /\ key \in Keys
  /\ slot = None /\ file = None /\ issued = 0 /\ saved = 0
  /\ tokens = [t \in 1 .. MaxTokens |-> [key |-> key, left |-> 0]]
  /\ holder = Nobody /\ sinceLast = MinInterval /\ sinceSend = MinInterval
  /\ calls = [c \in Calls |-> Idle]
  /\ revoked = 0 /\ restarts = 0

Step(c) ==
  \/ Pace(c) \/ FromMemory(c) \/ FromFile(c) \/ Ask(c) \/ Issue(c) \/ IssueUnsaved(c) \/ IssueFails(c)
  \/ Send(c) \/ Answer(c) \/ Drop(c) \/ RemoveFile(c)

Next ==
  \/ \E c \in Calls : Start(c) \/ Step(c)
  \/ Tick
  \/ \E t \in 1 .. MaxTokens : Expire(t) \/ Revoke(t)
  \/ \E k \in Keys : Restart(k)

SafeSpec == Init /\ [][Next]_vars

\* Tasks run and locks are fair (tokio's mutex is first come, first served): pacing and
\* the token lock may be waited for by several, so each call is granted them by strong
\* fairness.  That KIS answers is not assumed.
Fairness ==
  /\ WF_vars(Tick)
  /\ \A c \in Calls :
       /\ SF_vars(Pace(c))
       /\ SF_vars(FromMemory(c) \/ FromFile(c) \/ Ask(c)) /\ SF_vars(Drop(c))
       /\ WF_vars(Send(c)) /\ WF_vars(RemoveFile(c))

Spec == SafeSpec /\ Fairness

(***************************************************************************)
(* Properties.                                                             *)
(***************************************************************************)
TypeOK ==
  /\ key \in Keys
  /\ {slot, file, issued, saved} \subseteq 0 .. MaxTokens
  /\ tokens \in [1 .. MaxTokens -> [key : Keys, left : 0 .. Life]]
  /\ holder \in Calls \cup {Nobody}
  /\ {sinceLast, sinceSend} \subseteq 0 .. MinInterval
  /\ calls \in [Calls -> [pc : {"idle", "pace", "token", "issue", "send", "sent", "dead", "refused", "dropped"},
                          token : 0 .. MaxTokens]]

\* KIS issues one token a minute and tells the user of each: none is asked for
\* while the one in memory or the newest one saved is good for this key, through
\* concurrent calls, expiry and restarts with this or another key (KisClient::token).
IssuedOnlyWhenNeeded ==
  [][issued' # issued => ~ Usable(slot) /\ ~ Usable(saved)]_vars

\* No request is sent under a token of another key (CachedToken::load).
SentUnderOwnToken ==
  [][\A c \in Calls : calls[c].pc = "send" /\ calls'[c].pc \in {"sent", "dead"} => tokens[calls[c].token].key = key]_calls

\* Every call of get whose own request KIS answers comes to an end, whoever holds the locks
\* it needs: a price request of another call that is never answered blocks nobody.  Requests
\* for tokens must be answered, since the mutex is held over them and nothing limits them.
GetsEnd ==
  \A c \in Calls :
    (\A d \in Calls : []<>(calls[d].pc # "issue")) /\ []<>(calls[c].pc \notin {"sent", "dead"}) =>
      ((calls[c] # Idle) ~> (calls[c] = Idle))

\* (violated) "A paced GET": requests leave at least MinInterval apart.
Paced == [][\A c \in Calls : (calls[c].pc = "send" /\ calls'[c].pc \in {"sent", "dead"}) => sinceSend >= MinInterval]_vars

\* (violated) "Drop the dead token": what Drop takes out of memory is not a good token.
OnlyDeadDropped == [][slot # None /\ slot' = None /\ restarts' = restarts => ~ Usable(slot)]_vars
=============================================================================
