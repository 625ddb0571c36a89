----------------------------- MODULE WebSessions -----------------------------
(***************************************************************************)
(* The dashboard's sessions and second factor (AuthStore in web/auth.rs,   *)
(* the handlers of web/mod.rs) for one user whose password is known: every *)
(* handler is a chain of awaited statements, so requests of several tabs,  *)
(* and the reset-2fa command of another process, interleave between them.  *)
(*                                                                         *)
(* now counts 30-second steps of the authenticator; the idle and absolute  *)
(* limits of a session are a few of them here.  A secret is a number, 0    *)
(* for none; a code is the step it belongs to.                             *)
(*                                                                         *)
(* A definition whose comment begins with Mutant is used by nothing: it is *)
(* the definition after it with a mistake the properties must notice.      *)
(***************************************************************************)
EXTENDS Integers, Sequences, FiniteSets

CONSTANTS
  Tasks,        \* requests handled at the same time
  Idle,         \* how long a session may be idle (12 h)
  Absolute,     \* how long a session may last (7 d)
  Codes,        \* recovery codes of an enrolment (10)
  MaxNow,       \* bound: steps of time
  MaxSessions,  \* bound: sessions ever started
  MaxSecrets,   \* bound: secrets ever made
  MaxResets     \* bound: runs of reset-2fa

WebSessionsAssumption ==
  /\ {Idle, Absolute, Codes, MaxNow, MaxSessions, MaxSecrets, MaxResets} \subseteq Nat /\ MaxNow # 0
  /\ Idle <= Absolute

VARIABLES
  now,       \* the time
  user,      \* the users row: secret, enabled, totp_last_step
  sessions,  \* the user_sessions rows by id
  codes,     \* the unused recovery codes: <<set, number>>
  tasks,     \* what each request is doing and the rows it has read
  cli,       \* the statement reset-2fa is at, or idle
  made,      \* how many sessions, secrets, sets of codes and resets there were
  accepted,  \* history: the steps whose codes were accepted, in order
  used,      \* history: the recovery codes that were accepted
  proven     \* history: secrets a code was accepted for at enrolment

vars == <<now, user, sessions, codes, tasks, cli, made, accepted, used, proven>>

NoSession == [pending |-> TRUE, created |-> 0, seen |-> 0, second |-> FALSE]
IdleTask == [at |-> "idle", doing |-> "none", user |-> [secret |-> 0, enabled |-> FALSE, last |-> 0],
             id |-> 0, row |-> NoSession, began |-> 0, second |-> FALSE]
Without(id) == [s \in DOMAIN sessions \ {id} |-> sessions[s]]
To(t, step) == tasks' = [tasks EXCEPT ![t].at = step]
Done(t) == tasks' = [tasks EXCEPT ![t] = IdleTask]

(***************************************************************************)
(* One-time codes.                                                         *)
(***************************************************************************)

\* Mutant: a code of the last accepted step is accepted again.
NewerOrSame(step) == user.last <= step

\* The step of a code must be newer than the last one accepted: one UPDATE.
Newer(step) == user.last < step

\* Mutant: two steps to either side.
StepsFar(time) == {s \in time - 2 .. time + 2 : s > 0}

\* The codes that are valid at a time: its step and one to either side.
StepsNear(time) == {s \in time - 1 .. time + 1 : s > 0}

\* Mutant: the code is checked but not marked.
SpentNot(c) == codes

Spent(c) == codes \ {c}

(***************************************************************************)
(* Logging in.                                                             *)
(***************************************************************************)
LoginStart(t) ==
  /\ tasks[t].at = "idle"
  /\ tasks' = [tasks EXCEPT ![t] = [IdleTask EXCEPT !.at = IF user.enabled THEN "code" ELSE "issue",
                                                    !.doing = "login", !.user = user, !.began = now]]
  /\ UNCHANGED <<now, user, sessions, codes, made, accepted, used, proven, cli>>

\* A code of the secret that was read.  One that is not accepted is tried as a
\* recovery code, which it is not; a wrong code ends the request as Drop does.
LoginCode(t, step) ==
  /\ tasks[t].at = "code"
  /\ IF Newer(step)
     THEN /\ user' = [user EXCEPT !.last = step]
          /\ accepted' = Append(accepted, step)
          /\ tasks' = [tasks EXCEPT ![t].at = "issue", ![t].second = TRUE]
     ELSE Done(t) /\ UNCHANGED <<user, accepted>>
  /\ UNCHANGED <<now, sessions, codes, made, used, proven, cli>>

LoginRecovery(t, c) ==
  /\ tasks[t].at = "code"
  /\ codes' = Spent(c)
  /\ used' = used \cup {c}
  /\ tasks' = [tasks EXCEPT ![t].at = "issue", ![t].second = TRUE]
  /\ UNCHANGED <<now, user, sessions, made, accepted, proven, cli>>

\* Mutant: a session is never pending.
PendingNever(t) == FALSE

\* A login of a user who has not enrolled starts pending, one that enrols or
\* changes the password starts full.
Pending(t) == tasks[t].doing = "login" /\ ~ tasks[t].user.enabled

Issue(t) ==
  /\ tasks[t].at = "issue" /\ made.sessions < MaxSessions
  /\ LET s == [pending |-> Pending(t), created |-> now, seen |-> now, second |-> tasks[t].second]
         id == made.sessions + 1
     IN  sessions' = [x \in DOMAIN sessions \cup {id} |-> IF x = id THEN s ELSE sessions[x]]
  /\ made' = [made EXCEPT !.sessions = @ + 1]
  /\ Done(t)
  /\ UNCHANGED <<now, user, codes, accepted, used, proven, cli>>

(***************************************************************************)
(* A request with a session: SELECT, then DELETE or UPDATE, then the user. *)
(***************************************************************************)

\* Mutant: only idleness ends a session.
ExpiredIdle(s) == now - s.seen > Idle

Expired(s) == now - s.seen > Idle \/ now - s.created > Absolute

Read(t, id, doing) ==
  /\ tasks[t].at = "idle"
  /\ tasks' = [tasks EXCEPT ![t] =
       [IdleTask EXCEPT !.at = IF Expired(sessions[id]) THEN "expired" ELSE "touch",
                        !.doing = doing, !.id = id, !.row = sessions[id], !.began = now,
                        !.second = sessions[id].second]]
  /\ UNCHANGED <<now, user, sessions, codes, made, accepted, used, proven, cli>>

Expire(t) ==
  /\ tasks[t].at = "expired"
  /\ sessions' = Without(tasks[t].id)
  /\ Done(t)
  /\ UNCHANGED <<now, user, codes, made, accepted, used, proven, cli>>

\* Mutant: the touch writes the row that was read.
TouchedRead(t) == [s \in DOMAIN sessions \cup {tasks[t].id} |->
                    IF s = tasks[t].id THEN [tasks[t].row EXCEPT !.seen = tasks[t].began] ELSE sessions[s]]

TouchedRow(t) == [s \in DOMAIN sessions |->
                    IF s = tasks[t].id THEN [sessions[s] EXCEPT !.seen = tasks[t].began] ELSE sessions[s]]

\* The touch, and the user's row: pending sessions may enrol and log out only.  They are two
\* statements, taken at the moment of the second: a touch that waits changes last_seen later
\* than the code does, or finds the row gone.
Touch(t) ==
  /\ tasks[t].at = "touch"
  /\ sessions' = TouchedRow(t)
  /\ IF tasks[t].row.pending /\ tasks[t].doing = "password"
     THEN Done(t)
     ELSE tasks' = [tasks EXCEPT ![t].at = "serve", ![t].user = user]
  /\ UNCHANGED <<now, user, codes, made, accepted, used, proven, cli>>

Logout(t) ==
  /\ tasks[t].at = "serve" /\ tasks[t].doing = "logout"
  /\ sessions' = Without(tasks[t].id)
  /\ Done(t)
  /\ UNCHANGED <<now, user, codes, made, accepted, used, proven, cli>>

(***************************************************************************)
(* Enrolment.                                                              *)
(***************************************************************************)
Setup(t) ==
  /\ tasks[t].at = "serve" /\ tasks[t].doing = "setup" /\ made.secrets < MaxSecrets
  /\ IF tasks[t].user.enabled THEN UNCHANGED <<user, made>>
     ELSE /\ user' = [user EXCEPT !.secret = made.secrets + 1, !.enabled = FALSE]
          /\ made' = [made EXCEPT !.secrets = @ + 1]
  /\ Done(t)
  /\ UNCHANGED <<now, sessions, codes, accepted, used, proven, cli>>

\* A code of the secret that was read.
EnableCode(t, step) ==
  /\ tasks[t].at = "serve" /\ tasks[t].doing = "enable"
  /\ IF tasks[t].user.secret # 0 /\ ~ tasks[t].user.enabled /\ Newer(step)
     THEN /\ user' = [user EXCEPT !.last = step]
          /\ accepted' = Append(accepted, step)
          /\ proven' = proven \cup {tasks[t].user.secret}
          /\ tasks' = [tasks EXCEPT ![t].at = "switch", ![t].second = TRUE]
     ELSE Done(t) /\ UNCHANGED <<user, accepted, proven>>
  /\ UNCHANGED <<now, sessions, codes, made, used, cli>>

\* Mutant: only the flag is written.
FlagOnly(t) == [user EXCEPT !.enabled = TRUE]

\* The secret that was read is written back with the flag.
SwitchedOn(t) == [user EXCEPT !.secret = tasks[t].user.secret, !.enabled = TRUE]

SwitchOn(t) ==
  /\ tasks[t].at = "switch"
  /\ user' = SwitchedOn(t)
  /\ To(t, "save_codes")
  /\ UNCHANGED <<now, sessions, codes, made, accepted, used, proven, cli>>

SaveCodes(t) ==
  /\ tasks[t].at = "save_codes"
  /\ codes' = {made.sets + 1} \X (1 .. Codes)
  /\ made' = [made EXCEPT !.sets = @ + 1]
  /\ To(t, "rotate")
  /\ UNCHANGED <<now, user, sessions, accepted, used, proven, cli>>

\* The session of the enrolment ends before the full one begins.
Rotate(t) ==
  /\ tasks[t].at = "rotate"
  /\ sessions' = Without(tasks[t].id)
  /\ To(t, "issue")
  /\ UNCHANGED <<now, user, codes, made, accepted, used, proven, cli>>

\* A new password (not modelled) ends every session and starts one.
Password(t) ==
  /\ tasks[t].at = "serve" /\ tasks[t].doing = "password"
  /\ sessions' = << >>
  /\ To(t, "issue")
  /\ UNCHANGED <<now, user, codes, made, accepted, used, proven, cli>>

(***************************************************************************)
(* Everything around the requests.                                         *)
(***************************************************************************)
Passes ==
  /\ now < MaxNow
  /\ now' = now + 1
  /\ UNCHANGED <<user, sessions, codes, tasks, made, accepted, used, proven, cli>>

\* A request is dropped, by its client or by a restart, between two statements.
Drop(t) ==
  /\ tasks[t].at # "idle"
  /\ Done(t)
  /\ UNCHANGED <<now, user, sessions, codes, made, accepted, used, proven, cli>>

\* atrader user reset-2fa, a statement at a time; it may be stopped in between.
Reset2faTotp ==
  /\ cli = "idle" /\ made.resets < MaxResets
  /\ user' = [user EXCEPT !.secret = 0, !.enabled = FALSE]
  /\ cli' = "codes"
  /\ made' = [made EXCEPT !.resets = @ + 1]
  /\ UNCHANGED <<now, sessions, codes, tasks, accepted, used, proven>>

Reset2faCodes ==
  /\ cli = "codes"
  /\ codes' = {}
  /\ cli' = "sessions"
  /\ UNCHANGED <<now, user, sessions, tasks, made, accepted, used, proven>>

Reset2faSessions ==
  /\ cli = "sessions"
  /\ sessions' = << >>
  /\ cli' = "idle"
  /\ UNCHANGED <<now, user, codes, tasks, made, accepted, used, proven>>

Reset2faStops ==
  /\ cli # "idle"
  /\ cli' = "idle"
  /\ UNCHANGED <<now, user, sessions, codes, tasks, made, accepted, used, proven>>

Init ==
  /\ now = 1
  /\ user = [secret |-> 0, enabled |-> FALSE, last |-> 0]
  /\ sessions = << >> /\ codes = {}
  /\ tasks = [t \in Tasks |-> IdleTask]
  /\ cli = "idle"
  /\ made = [sessions |-> 0, secrets |-> 0, sets |-> 0, resets |-> 0]
  /\ accepted = <<>> /\ used = {} /\ proven = {}

Next ==
  \/ \E t \in Tasks :
       \/ LoginStart(t) \/ Issue(t) \/ Expire(t) \/ Touch(t) \/ Logout(t)
       \/ Setup(t) \/ SwitchOn(t) \/ SaveCodes(t) \/ Rotate(t) \/ Password(t) \/ Drop(t)
       \/ \E step \in StepsNear(tasks[t].began) : LoginCode(t, step)
       \/ \E step \in StepsNear(now) : EnableCode(t, step)
       \/ \E c \in codes : LoginRecovery(t, c)
       \/ \E id \in DOMAIN sessions, doing \in {"logout", "setup", "enable", "password"} : Read(t, id, doing)
  \/ Passes \/ Reset2faTotp \/ Reset2faCodes \/ Reset2faSessions \/ Reset2faStops

Spec == Init /\ [][Next]_vars
(***************************************************************************)
(* Properties.                                                             *)
(***************************************************************************)
Rows == [pending : BOOLEAN, created : 0 .. MaxNow, seen : 0 .. MaxNow, second : BOOLEAN]

TypeOK ==
  /\ now \in Nat
  /\ user \in [secret : 0 .. MaxSecrets, enabled : BOOLEAN, last : 0 .. MaxNow + 1]
  /\ DOMAIN sessions \subseteq 1 .. made.sessions
  /\ \A id \in DOMAIN sessions : sessions[id] \in Rows
  /\ \A t \in Tasks : tasks[t].id \in 0 .. made.sessions /\ tasks[t].row \in Rows

\* However requests and the reset interleave, a session that is not pending was
\* opened with an accepted code, or from a session that was.
FullNeedsCode == \A id \in DOMAIN sessions : sessions[id].pending \/ sessions[id].second

\* Of racing requests only one is let in by a code: each accepted step is newer
\* than those before it.
CodesOnce == \A i, j \in DOMAIN accepted : i < j => accepted[i] < accepted[j]

\* A recovery code that let somebody in is spent, whatever is enrolled or reset
\* meanwhile.
RecoveryOnce == used \cap codes = {}

\* The secret that is asked for at logins is one whose authenticator has shown a
\* code, also when another tab made a new secret during the enrolment.
EnabledIsProven == user.enabled => user.secret \in proven

\* Uses do not prolong a session past its absolute limit, and none is served
\* that was idle too long.
ServedIsLive ==
  \A t \in Tasks : tasks[t].at = "serve" =>
    /\ tasks[t].began - tasks[t].row.created <= Absolute
    /\ tasks[t].began - tasks[t].row.seen <= Idle

\* A session that ended is not brought back by a request that read it before.
NeverRevived ==
  [][\A id \in 1 .. made.sessions : id \notin DOMAIN sessions => id \notin DOMAIN sessions']_vars
=============================================================================
