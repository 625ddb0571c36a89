-------------------------- MODULE WebSessionsProofs --------------------------
(***************************************************************************)
(* Proofs about WebSessions: what a code, a recovery code and a session    *)
(* are worth, for any number of requests, sessions and steps of time.      *)
(***************************************************************************)
EXTENDS WebSessions, TLAPS

At == {"idle", "code", "issue", "expired", "touch", "serve", "switch", "save_codes", "rotate"}
Doing == {"none", "login", "logout", "setup", "enable", "password"}
UserRow == [secret : 0 .. MaxSecrets, enabled : BOOLEAN, last : 0 .. MaxNow + 1]
Counts == [sessions : Nat, secrets : Nat, sets : Nat, resets : Nat]
Task == [at : At, doing : Doing, user : UserRow, id : Nat, row : Rows, began : 0 .. MaxNow,
         second : BOOLEAN]

\* TypeOK, and the types of what it leaves out.
Types ==
  /\ now \in 1 .. MaxNow /\ user \in UserRow /\ made \in Counts
  /\ sessions = [id \in DOMAIN sessions |-> sessions[id]] /\ DOMAIN sessions \subseteq 1 .. made.sessions
  /\ \A id \in DOMAIN sessions : sessions[id] \in Rows
  /\ tasks \in [Tasks -> Task] /\ \A t \in Tasks : tasks[t].id <= made.sessions

\* What a request has read and shown: who passes the second factor has shown it, and
\* a session that is served was alive when it was read.
FullRow(row) == row.pending \/ row.second
Sound(k) ==
  /\ k.at \in {"expired", "touch", "serve"} => k.row.pending \/ k.second
  /\ k.at = "serve" /\ k.doing = "password" => ~ k.row.pending
  /\ k.at \in {"switch", "save_codes", "rotate"} => k.second
  /\ k.at = "issue" => (k.doing = "login" /\ ~ k.user.enabled) \/ k.second
  /\ k.at \in {"touch", "serve"} => /\ k.began - k.row.created <= Absolute
                                   /\ k.began - k.row.seen <= Idle
AllSound ==
  /\ \A id \in DOMAIN sessions : FullRow(sessions[id])
  /\ \A t \in Tasks : Sound(tasks[t])

\* Codes: the last accepted step is the newest; no recovery code is of a set to come.
Newest ==
  /\ accepted \in Seq(Nat)
  /\ \A i \in DOMAIN accepted : accepted[i] <= user.last
OfSets == used \cup codes \subseteq (1 .. made.sets) \X Nat

\* A secret that is about to be switched on was proven.
AboutToSwitch == \A t \in Tasks : tasks[t].at = "switch" => tasks[t].user.secret \in proven

IInv ==
  /\ Types /\ AllSound /\ Newest /\ CodesOnce /\ OfSets /\ RecoveryOnce
  /\ AboutToSwitch /\ EnabledIsProven

-----------------------------------------------------------------------------
LEMMA Defaults ==
  ASSUME WebSessionsAssumption
  PROVE  /\ NoSession \in Rows /\ IdleTask \in Task /\ IdleTask.at = "idle" /\ IdleTask.id = 0
         /\ Idle \in Nat /\ Absolute \in Nat /\ Codes \in Nat /\ MaxNow \in Nat /\ MaxSecrets \in Nat
<1>1. Idle \in Nat /\ Absolute \in Nat /\ Codes \in Nat /\ MaxNow \in Nat /\ MaxSecrets \in Nat
  BY DEF WebSessionsAssumption
<1>2. NoSession \in Rows
  BY <1>1 DEF NoSession, Rows
<1>3. [secret |-> 0, enabled |-> FALSE, last |-> 0] \in UserRow
  BY <1>1 DEF UserRow
<1>4. 0 \in 0 .. MaxNow /\ "idle" \in At /\ "none" \in Doing
  BY <1>1 DEF At, Doing
<1> QED
  BY <1>1, <1>2, <1>3, <1>4 DEF IdleTask, Task

\* What a step does to sessions keeps them sessions.
LEMMA RowsKept ==
  ASSUME WebSessionsAssumption, Types, NEW t \in Tasks
  PROVE  /\ \A id : /\ Without(id) = [s \in DOMAIN Without(id) |-> Without(id)[s]]
                    /\ DOMAIN Without(id) \subseteq DOMAIN sessions
                    /\ \A s \in DOMAIN Without(id) : Without(id)[s] = sessions[s]
         /\ TouchedRow(t) = [s \in DOMAIN TouchedRow(t) |-> TouchedRow(t)[s]]
         /\ DOMAIN TouchedRow(t) = DOMAIN sessions
         /\ \A s \in DOMAIN TouchedRow(t) :
              /\ TouchedRow(t)[s] \in Rows
              /\ TouchedRow(t)[s].pending = sessions[s].pending
              /\ TouchedRow(t)[s].second = sessions[s].second
<1>1. \A id : /\ Without(id) = [s \in DOMAIN Without(id) |-> Without(id)[s]]
              /\ DOMAIN Without(id) \subseteq DOMAIN sessions
              /\ \A s \in DOMAIN Without(id) : Without(id)[s] = sessions[s]
  BY DEF Without
<1>2. /\ TouchedRow(t) = [s \in DOMAIN TouchedRow(t) |-> TouchedRow(t)[s]]
      /\ DOMAIN TouchedRow(t) = DOMAIN sessions
  BY DEF TouchedRow
<1>3. ASSUME NEW s \in DOMAIN sessions
      PROVE  /\ TouchedRow(t)[s] \in Rows
             /\ TouchedRow(t)[s].pending = sessions[s].pending
             /\ TouchedRow(t)[s].second = sessions[s].second
  <2>1. sessions[s] \in Rows /\ tasks[t].began \in 0 .. MaxNow
    BY DEF Types, Task
  <2>2. TouchedRow(t)[s] = IF s = tasks[t].id THEN [sessions[s] EXCEPT !.seen = tasks[t].began]
                                              ELSE sessions[s]
    BY DEF TouchedRow
  <2> QED
    BY <2>1, <2>2 DEF Rows
<1> QED
  BY <1>1, <1>2, <1>3

\* TypeOK and what it leaves out.
LEMMA TypesKept ==
  ASSUME WebSessionsAssumption, Types, [Next]_vars
  PROVE  Types'
<1> USE Defaults
<1>1. ASSUME NEW t \in Tasks, LoginStart(t) PROVE Types'
  <2>1. [IdleTask EXCEPT !.at = IF user.enabled THEN "code" ELSE "issue",
                         !.doing = "login", !.user = user, !.began = now] \in Task
    <3>1. (IF user.enabled THEN "code" ELSE "issue") \in At /\ "login" \in Doing
      BY DEF At, Doing
    <3>2. user \in UserRow /\ now \in 0 .. MaxNow
      BY DEF Types
    <3> QED
      BY <3>1, <3>2 DEF Task
  <2>2. tasks' \in [Tasks -> Task] /\ \A u \in Tasks : tasks'[u].id <= made.sessions
    BY <1>1, <2>1 DEF LoginStart, Types, Task, Counts
  <2> QED
    BY <1>1, <2>2 DEF LoginStart, Types
<1>2. ASSUME NEW t \in Tasks, NEW step \in StepsNear(tasks[t].began), LoginCode(t, step) PROVE Types'
  <2>1. step \in 0 .. MaxNow + 1
    BY DEF StepsNear, Types, Task
  <2>2. [user EXCEPT !.last = step] \in UserRow
    BY <2>1 DEF Types, UserRow
  <2>3. Done(t) \/ tasks' = [tasks EXCEPT ![t].at = "issue", ![t].second = TRUE]
    BY <1>2 DEF LoginCode
  <2>4. tasks' \in [Tasks -> Task] /\ \A u \in Tasks : tasks'[u].id <= made.sessions
    <3>1. CASE Done(t)
      BY <3>1 DEF Done, Types, Task, Counts
    <3>2. CASE tasks' = [tasks EXCEPT ![t].at = "issue", ![t].second = TRUE]
      BY <3>2 DEF Types, Task, At
    <3> QED
      BY <2>3, <3>1, <3>2
  <2> QED
    BY <1>2, <2>2, <2>4 DEF LoginCode, Types
<1>3. ASSUME NEW t \in Tasks, NEW c \in codes, LoginRecovery(t, c) PROVE Types'
  BY <1>3 DEF LoginRecovery, Types, Task, At
<1>4. ASSUME NEW t \in Tasks, Issue(t) PROVE Types'
  <2> DEFINE s == [pending |-> Pending(t), created |-> now, seen |-> now, second |-> tasks[t].second]
             id == made.sessions + 1
  <2>1. s \in Rows
    BY DEF Rows, Pending, Types, Task
  <2>2. sessions' = [x \in DOMAIN sessions \cup {id} |-> IF x = id THEN s ELSE sessions[x]]
    BY <1>4 DEF Issue
  <2>3. made' \in Counts /\ made'.sessions = id
    BY <1>4 DEF Issue, Types, Counts
  <2>4. /\ DOMAIN sessions' \subseteq 1 .. made'.sessions /\ \A x \in DOMAIN sessions' : sessions'[x] \in Rows
        /\ sessions' = [x \in DOMAIN sessions' |-> sessions'[x]]
    BY <2>1, <2>2, <2>3 DEF Types, Counts
  <2>5. tasks' \in [Tasks -> Task] /\ \A u \in Tasks : tasks'[u].id <= made'.sessions
    BY <1>4, <2>3 DEF Issue, Done, Types, Task, Counts
  <2> QED
    BY <1>4, <2>3, <2>4, <2>5 DEF Issue, Types
<1>5. ASSUME NEW t \in Tasks, Expire(t) \/ Logout(t) \/ Rotate(t) PROVE Types'
  <2>1. sessions' = Without(tasks[t].id) /\ UNCHANGED <<now, user, made>>
    BY <1>5 DEF Expire, Logout, Rotate
  <2>2. tasks' \in [Tasks -> Task] /\ \A u \in Tasks : tasks'[u].id <= made.sessions
    BY <1>5 DEF Expire, Logout, Rotate, Done, To, Types, Task, At, Counts
  <2> QED
    BY <2>1, <2>2, RowsKept DEF Types
<1>6. ASSUME NEW t \in Tasks, Touch(t) PROVE Types'
  <2>1. tasks' \in [Tasks -> Task] /\ \A u \in Tasks : tasks'[u].id <= made.sessions
    BY <1>6 DEF Touch, Done, Types, Task, At, Counts
  <2> QED
    BY <1>6, <2>1, RowsKept DEF Touch, Types
<1>7. ASSUME NEW t \in Tasks, Setup(t) PROVE Types'
  <2>1. user' \in UserRow /\ made' \in Counts /\ made'.sessions = made.sessions
    <3>1. CASE UNCHANGED <<user, made>>
      BY <3>1 DEF Types
    <3>2. CASE /\ user' = [user EXCEPT !.secret = made.secrets + 1, !.enabled = FALSE]
               /\ made' = [made EXCEPT !.secrets = @ + 1]
      <4>1. made.secrets \in Nat /\ made.secrets < MaxSecrets /\ user \in UserRow /\ made \in Counts
        BY <1>7 DEF Setup, Types, Counts
      <4>2. made.secrets + 1 \in 0 .. MaxSecrets
        BY <4>1
      <4>3. user' \in UserRow
        BY <3>2, <4>1, <4>2 DEF UserRow
      <4> QED
        BY <3>2, <4>1, <4>3 DEF Counts
    <3> QED
      BY <1>7, <3>1, <3>2 DEF Setup
  <2>2. tasks' \in [Tasks -> Task] /\ \A u \in Tasks : tasks'[u].id <= made.sessions
    BY <1>7 DEF Setup, Done, Types, Task, Counts
  <2> QED
    BY <1>7, <2>1, <2>2 DEF Setup, Types
<1>8. ASSUME NEW t \in Tasks, NEW step \in StepsNear(now), EnableCode(t, step) PROVE Types'
  <2>1. step \in 0 .. MaxNow + 1
    BY DEF StepsNear, Types
  <2>2. [user EXCEPT !.last = step] \in UserRow
    BY <2>1 DEF Types, UserRow
  <2>3. Done(t) \/ tasks' = [tasks EXCEPT ![t].at = "switch", ![t].second = TRUE]
    BY <1>8 DEF EnableCode
  <2>4. tasks' \in [Tasks -> Task] /\ \A u \in Tasks : tasks'[u].id <= made.sessions
    <3>1. CASE Done(t)
      BY <3>1 DEF Done, Types, Task, Counts
    <3>2. CASE tasks' = [tasks EXCEPT ![t].at = "switch", ![t].second = TRUE]
      BY <3>2 DEF Types, Task, At
    <3> QED
      BY <2>3, <3>1, <3>2
  <2> QED
    BY <1>8, <2>2, <2>4 DEF EnableCode, Types
<1>9. ASSUME NEW t \in Tasks, SwitchOn(t) PROVE Types'
  <2>1. user' \in UserRow
    BY <1>9 DEF SwitchOn, SwitchedOn, Types, Task, UserRow
  <2>2. tasks' \in [Tasks -> Task] /\ \A u \in Tasks : tasks'[u].id <= made.sessions
    BY <1>9 DEF SwitchOn, To, Types, Task, At
  <2> QED
    BY <1>9, <2>1, <2>2 DEF SwitchOn, Types
<1>10. ASSUME NEW t \in Tasks, SaveCodes(t) PROVE Types'
  <2>1. made' \in Counts /\ made'.sessions = made.sessions
    BY <1>10 DEF SaveCodes, Types, Counts
  <2>2. tasks' \in [Tasks -> Task] /\ \A u \in Tasks : tasks'[u].id <= made.sessions
    BY <1>10 DEF SaveCodes, To, Types, Task, At
  <2> QED
    BY <1>10, <2>1, <2>2 DEF SaveCodes, Types
<1>11. ASSUME NEW t \in Tasks, Password(t) PROVE Types'
  <2>1. tasks' \in [Tasks -> Task] /\ \A u \in Tasks : tasks'[u].id <= made.sessions
    BY <1>11 DEF Password, To, Types, Task, At
  <2> QED
    BY <1>11, <2>1 DEF Password, Types
<1>12. ASSUME NEW t \in Tasks, Drop(t) PROVE Types'
  <2>1. tasks' \in [Tasks -> Task] /\ \A u \in Tasks : tasks'[u].id <= made.sessions
    BY <1>12 DEF Drop, Done, Types, Task, Counts
  <2> QED
    BY <1>12, <2>1 DEF Drop, Types
<1>13. ASSUME NEW t \in Tasks, NEW id \in DOMAIN sessions,
              NEW doing \in {"logout", "setup", "enable", "password"}, Read(t, id, doing)
       PROVE  Types'
  <2>1. id \in 1 .. made.sessions /\ made.sessions \in Nat /\ sessions[id] \in Rows
    BY DEF Types, Counts
  <2>2. [IdleTask EXCEPT !.at = IF Expired(sessions[id]) THEN "expired" ELSE "touch",
                         !.doing = doing, !.id = id, !.row = sessions[id], !.began = now,
                         !.second = sessions[id].second] \in Task
    <3>1. sessions[id].second \in BOOLEAN /\ now \in 0 .. MaxNow /\ id \in Nat /\ doing \in Doing
      BY <2>1 DEF Rows, Types, Doing
    <3> QED
      BY <2>1, <3>1 DEF Task, At
  <2>3. tasks' \in [Tasks -> Task] /\ \A u \in Tasks : tasks'[u].id <= made.sessions
    BY <1>13, <2>1, <2>2 DEF Read, Types, Task
  <2> QED
    BY <1>13, <2>3 DEF Read, Types
<1>14. ASSUME Passes \/ Reset2faTotp \/ Reset2faCodes \/ Reset2faSessions \/ Reset2faStops PROVE Types'
  <2>1. CASE Passes
    BY <2>1 DEF Passes, Types
  <2>2. CASE Reset2faTotp
    <3>1. user' \in UserRow
      <4>1. user \in UserRow /\ 0 \in 0 .. MaxSecrets /\ user' = [user EXCEPT !.secret = 0, !.enabled = FALSE]
        BY <2>2 DEF Reset2faTotp, Types
      <4> QED
        BY <4>1 DEF UserRow
    <3>2. made' \in Counts /\ made'.sessions = made.sessions
      BY <2>2 DEF Reset2faTotp, Types, Counts
    <3> QED
      BY <2>2, <3>1, <3>2 DEF Reset2faTotp, Types
  <2>3. CASE Reset2faSessions
    <3>1. DOMAIN sessions' = {} /\ sessions' = [id \in DOMAIN sessions' |-> sessions'[id]]
      BY <2>3 DEF Reset2faSessions
    <3> QED
      BY <2>3, <3>1 DEF Reset2faSessions, Types
  <2>4. CASE Reset2faCodes \/ Reset2faStops
    BY <2>4 DEF Reset2faCodes, Reset2faStops, Types
  <2> QED
    BY <1>14, <2>1, <2>2, <2>3, <2>4
<1>15. CASE UNCHANGED vars
  BY <1>15 DEF vars, Types
<1> QED
  BY <1>1, <1>2, <1>3, <1>4, <1>5, <1>6, <1>7, <1>8, <1>9, <1>10, <1>11, <1>12, <1>13, <1>14, <1>15
  DEF Next

-----------------------------------------------------------------------------
\* Who is let past the second factor has shown it, step by step.
LEMMA SoundKept ==
  ASSUME WebSessionsAssumption, Types, AllSound, [Next]_vars
  PROVE  AllSound'
<1> USE Defaults
<1>1. \A u \in Tasks : tasks[u] \in Task /\ Sound(tasks[u])
  BY DEF Types, AllSound
<1>2. Sound(IdleTask)
  BY DEF Sound, IdleTask
<1>3. ASSUME NEW t \in Tasks, NEW k, tasks' = [tasks EXCEPT ![t] = k], Sound(k)
      PROVE  \A u \in Tasks : Sound(tasks'[u])
  BY <1>1, <1>3 DEF Types
<1>4. ASSUME tasks' = tasks PROVE \A u \in Tasks : Sound(tasks'[u])
  BY <1>1, <1>4
<1>5. ASSUME NEW t \in Tasks, Done(t) PROVE \A u \in Tasks : Sound(tasks'[u])
  BY <1>2, <1>3, <1>5 DEF Done
<1>6. ASSUME sessions' = sessions, \A u \in Tasks : Sound(tasks'[u]) PROVE AllSound'
  BY <1>6 DEF AllSound
<1>7. ASSUME NEW t \in Tasks, LoginStart(t) PROVE AllSound'
  <2> DEFINE k == [IdleTask EXCEPT !.at = IF user.enabled THEN "code" ELSE "issue",
                                   !.doing = "login", !.user = user, !.began = now]
  <2>1. Sound(k)
    BY DEF Sound, IdleTask
  <2> QED
    BY <1>3, <1>6, <1>7, <2>1 DEF LoginStart
<1>8. ASSUME NEW t \in Tasks, NEW step \in StepsNear(tasks[t].began), LoginCode(t, step) PROVE AllSound'
  <2>1. CASE Done(t)
    BY <1>5, <1>6, <1>8, <2>1 DEF LoginCode
  <2>2. CASE tasks' = [tasks EXCEPT ![t].at = "issue", ![t].second = TRUE]
    <3> DEFINE k == [[tasks[t] EXCEPT !.at = "issue"] EXCEPT !.second = TRUE]
    <3>1. tasks' = [tasks EXCEPT ![t] = k]
      BY <2>2 DEF Types, Task
    <3>2. Sound(k)
      BY <1>1 DEF Sound, Task
    <3> QED
      BY <1>3, <1>6, <1>8, <3>1, <3>2 DEF LoginCode
  <2> QED
    BY <1>8, <2>1, <2>2 DEF LoginCode
<1>9. ASSUME NEW t \in Tasks, NEW c \in codes, LoginRecovery(t, c) PROVE AllSound'
  <2> DEFINE k == [[tasks[t] EXCEPT !.at = "issue"] EXCEPT !.second = TRUE]
  <2>1. tasks' = [tasks EXCEPT ![t] = k]
    BY <1>9 DEF LoginRecovery, Types, Task
  <2>2. Sound(k)
    BY <1>1 DEF Sound, Task
  <2> QED
    BY <1>3, <1>6, <1>9, <2>1, <2>2 DEF LoginRecovery
<1>10. ASSUME NEW t \in Tasks, Issue(t) PROVE AllSound'
  <2> DEFINE s == [pending |-> Pending(t), created |-> now, seen |-> now, second |-> tasks[t].second]
             id == made.sessions + 1
  <2>1. FullRow(s)
    BY <1>1, <1>10 DEF FullRow, Pending, Sound, Issue
  <2>2. sessions' = [x \in DOMAIN sessions \cup {id} |-> IF x = id THEN s ELSE sessions[x]]
    BY <1>10 DEF Issue
  <2>3. \A x \in DOMAIN sessions' : FullRow(sessions'[x])
    <3> HIDE DEF s, id
    <3> QED
      BY <2>1, <2>2 DEF AllSound
  <2> QED
    BY <1>5, <1>10, <2>3 DEF Issue, AllSound
<1>11. ASSUME NEW t \in Tasks, Expire(t) \/ Logout(t) PROVE AllSound'
  <2>1. sessions' = Without(tasks[t].id) /\ Done(t)
    BY <1>11 DEF Expire, Logout
  <2> QED
    BY <1>5, <2>1, RowsKept DEF AllSound
<1>12. ASSUME NEW t \in Tasks, Touch(t) PROVE AllSound'
  <2>1. \A x \in DOMAIN sessions' : FullRow(sessions'[x])
    BY <1>12, RowsKept DEF Touch, AllSound, FullRow
  <2>2. CASE Done(t)
    BY <1>5, <2>1, <2>2 DEF AllSound
  <2>3. CASE /\ ~ (tasks[t].row.pending /\ tasks[t].doing = "password")
             /\ tasks' = [tasks EXCEPT ![t].at = "serve", ![t].user = user]
    <3> DEFINE k == [[tasks[t] EXCEPT !.at = "serve"] EXCEPT !.user = user]
    <3>1. tasks' = [tasks EXCEPT ![t] = k]
      BY <2>3 DEF Types, Task
    <3>2. Sound(k)
      BY <1>1, <1>12, <2>3 DEF Sound, Task, Touch
    <3> QED
      BY <1>3, <2>1, <3>1, <3>2 DEF AllSound
  <2> QED
    BY <1>12, <2>2, <2>3 DEF Touch
<1>13. ASSUME NEW t \in Tasks, Setup(t) \/ Drop(t) PROVE AllSound'
  BY <1>5, <1>6, <1>13 DEF Setup, Drop
<1>14. ASSUME NEW t \in Tasks, NEW step \in StepsNear(now), EnableCode(t, step) PROVE AllSound'
  <2>1. CASE Done(t)
    BY <1>5, <1>6, <1>14, <2>1 DEF EnableCode
  <2>2. CASE tasks' = [tasks EXCEPT ![t].at = "switch", ![t].second = TRUE]
    <3> DEFINE k == [[tasks[t] EXCEPT !.at = "switch"] EXCEPT !.second = TRUE]
    <3>1. tasks' = [tasks EXCEPT ![t] = k]
      BY <2>2 DEF Types, Task
    <3>2. Sound(k)
      BY <1>1 DEF Sound, Task
    <3> QED
      BY <1>3, <1>6, <1>14, <3>1, <3>2 DEF EnableCode
  <2> QED
    BY <1>14, <2>1, <2>2 DEF EnableCode
<1>15. ASSUME NEW t \in Tasks, NEW at \in {"save_codes", "rotate", "issue"}, To(t, at),
              \/ tasks[t].at \in {"switch", "save_codes", "rotate"}
              \/ tasks[t].at = "serve" /\ tasks[t].doing = "password"
       PROVE  \A u \in Tasks : Sound(tasks'[u])
  <2> DEFINE k == [tasks[t] EXCEPT !.at = at]
  <2>1. tasks' = [tasks EXCEPT ![t] = k]
    BY <1>15 DEF To, Types, Task
  <2>2. Sound(k)
    BY <1>1, <1>15 DEF Sound, Task
  <2> QED
    BY <1>3, <2>1, <2>2
<1>16. ASSUME NEW t \in Tasks, SwitchOn(t) \/ SaveCodes(t) PROVE AllSound'
  BY <1>6, <1>15, <1>16 DEF SwitchOn, SaveCodes
<1>17. ASSUME NEW t \in Tasks, Rotate(t) PROVE AllSound'
  BY <1>15, <1>17, RowsKept DEF Rotate, AllSound
<1>18. ASSUME NEW t \in Tasks, Password(t) PROVE AllSound'
  <2>1. DOMAIN sessions' = {}
    BY <1>18 DEF Password
  <2> QED
    BY <1>15, <1>18, <2>1 DEF Password, AllSound
<1>19. ASSUME NEW t \in Tasks, NEW id \in DOMAIN sessions,
              NEW doing \in {"logout", "setup", "enable", "password"}, Read(t, id, doing)
       PROVE  AllSound'
  <2> DEFINE k == [IdleTask EXCEPT !.at = IF Expired(sessions[id]) THEN "expired" ELSE "touch",
                                   !.doing = doing, !.id = id, !.row = sessions[id], !.began = now,
                                   !.second = sessions[id].second]
  <2>1. FullRow(sessions[id])
    BY DEF AllSound
  <2>2. ~ Expired(sessions[id]) => /\ now - sessions[id].created <= Absolute
                                   /\ now - sessions[id].seen <= Idle
    BY DEF Expired, Types, Rows
  <2>3. Sound(k)
    BY <2>1, <2>2 DEF Sound, FullRow, IdleTask
  <2> QED
    BY <1>3, <1>6, <1>19, <2>3 DEF Read
<1>20. ASSUME Passes \/ Reset2faTotp \/ Reset2faCodes \/ Reset2faStops PROVE AllSound'
  BY <1>4, <1>6, <1>20 DEF Passes, Reset2faTotp, Reset2faCodes, Reset2faStops
<1>21. ASSUME Reset2faSessions PROVE AllSound'
  <2>1. DOMAIN sessions' = {}
    BY <1>21 DEF Reset2faSessions
  <2> QED
    BY <1>4, <1>21, <2>1 DEF Reset2faSessions, AllSound
<1>22. CASE UNCHANGED vars
  BY <1>4, <1>6, <1>22 DEF vars
<1> QED
  BY <1>7, <1>8, <1>9, <1>10, <1>11, <1>12, <1>13, <1>14, <1>16, <1>17, <1>18, <1>19, <1>20, <1>21, <1>22
  DEF Next

-----------------------------------------------------------------------------
\* A step accepts no code, or one of a newer step.
LEMMA CodesKept ==
  ASSUME WebSessionsAssumption, Types, Newest, CodesOnce, [Next]_vars
  PROVE  Newest' /\ CodesOnce'
<1> USE Defaults
<1>1. user.last \in Nat /\ accepted \in Seq(Nat)
  BY DEF Types, UserRow, Newest
<1>2. ASSUME user'.last = user.last, accepted' = accepted PROVE Newest' /\ CodesOnce'
  BY <1>2 DEF Newest, CodesOnce
<1>3. ASSUME NEW step \in Nat, Newer(step), user' = [user EXCEPT !.last = step],
             accepted' = Append(accepted, step)
      PROVE  Newest' /\ CodesOnce'
  <2>1. user'.last = step /\ user.last < step
    BY <1>3 DEF Newer, Types, UserRow
  <2>2. /\ accepted' \in Seq(Nat) /\ DOMAIN accepted' = DOMAIN accepted \cup {Len(accepted) + 1}
        /\ \A i \in DOMAIN accepted : accepted'[i] = accepted[i] /\ accepted[i] \in Nat
        /\ accepted'[Len(accepted) + 1] = step
        /\ DOMAIN accepted = 1 .. Len(accepted) /\ Len(accepted) \in Nat
    BY <1>1, <1>3
  <2>3. Newest'
    <3>1. ASSUME NEW i \in DOMAIN accepted' PROVE accepted'[i] <= user'.last
      <4>1. i \in DOMAIN accepted => accepted[i] <= user.last
        BY DEF Newest
      <4> QED
        BY <1>1, <2>1, <2>2, <4>1
    <3> QED
      BY <2>2, <3>1 DEF Newest
  <2>4. ASSUME NEW i \in DOMAIN accepted', NEW j \in DOMAIN accepted', i < j
        PROVE  accepted'[i] < accepted'[j]
    <3>1. i \in DOMAIN accepted
      BY <2>2, <2>4
    <3>2. CASE j \in DOMAIN accepted
      BY <2>2, <2>4, <3>1, <3>2 DEF CodesOnce
    <3>3. CASE j = Len(accepted) + 1
      <4>1. accepted[i] <= user.last
        BY <3>1 DEF Newest
      <4> QED
        BY <1>1, <2>1, <2>2, <3>1, <3>3, <4>1
    <3> QED
      BY <2>2, <3>2, <3>3
  <2> QED
    BY <2>3, <2>4 DEF CodesOnce
<1>4. ASSUME NEW t \in Tasks, NEW step \in StepsNear(tasks[t].began), LoginCode(t, step)
      PROVE  Newest' /\ CodesOnce'
  <2>1. step \in Nat
    BY DEF StepsNear, Types, Task
  <2> QED
    BY <1>2, <1>3, <1>4, <2>1 DEF LoginCode
<1>5. ASSUME NEW t \in Tasks, NEW step \in StepsNear(now), EnableCode(t, step)
      PROVE  Newest' /\ CodesOnce'
  <2>1. step \in Nat
    BY DEF StepsNear, Types
  <2> QED
    BY <1>2, <1>3, <1>5, <2>1 DEF EnableCode
<1>6. ASSUME NEW t \in Tasks, Setup(t) \/ SwitchOn(t) PROVE Newest' /\ CodesOnce'
  <2>1. user'.last = user.last /\ accepted' = accepted
    BY <1>6 DEF Setup, SwitchOn, SwitchedOn, Types, UserRow
  <2> QED
    BY <1>2, <2>1
<1>7. ASSUME Reset2faTotp PROVE Newest' /\ CodesOnce'
  <2>1. user'.last = user.last /\ accepted' = accepted
    BY <1>7 DEF Reset2faTotp, Types, UserRow
  <2> QED
    BY <1>2, <2>1
<1>8. ASSUME UNCHANGED <<user, accepted>> PROVE Newest' /\ CodesOnce'
  BY <1>2, <1>8
<1> QED
  BY <1>4, <1>5, <1>6, <1>7, <1>8
  DEF Next, vars, LoginStart, Issue, Expire, Touch, Logout, SaveCodes, Rotate, Password, Drop,
      LoginRecovery, Read, Passes, Reset2faCodes, Reset2faSessions, Reset2faStops

\* A recovery code that was accepted is in no set of codes: new sets have new numbers.
LEMMA RecoveryKept ==
  ASSUME WebSessionsAssumption, Types, OfSets, RecoveryOnce, [Next]_vars
  PROVE  OfSets' /\ RecoveryOnce'
<1> USE Defaults
<1>1. made.sets \in Nat
  BY DEF Types, Counts
<1>2. ASSUME NEW t \in Tasks, NEW c \in codes, LoginRecovery(t, c) PROVE OfSets' /\ RecoveryOnce'
  BY <1>2 DEF LoginRecovery, Spent, OfSets, RecoveryOnce
<1>3. ASSUME NEW t \in Tasks, SaveCodes(t) PROVE OfSets' /\ RecoveryOnce'
  <2>1. made'.sets = made.sets + 1 /\ used' = used /\ codes' = {made.sets + 1} \X (1 .. Codes)
    BY <1>3 DEF SaveCodes, Types, Counts
  <2>2. Codes \in Nat
    OBVIOUS
  <2>3. ASSUME NEW c \in used PROVE c \in (1 .. made.sets + 1) \X Nat /\ c \notin codes'
    <3>1. c \in (1 .. made.sets) \X Nat
      BY DEF OfSets
    <3> QED
      BY <1>1, <2>1, <2>2, <3>1
  <2>4. codes' \subseteq (1 .. made.sets + 1) \X Nat
    BY <1>1, <2>1, <2>2
  <2> QED
    BY <2>1, <2>3, <2>4 DEF OfSets, RecoveryOnce
<1>4. ASSUME Reset2faCodes PROVE OfSets' /\ RecoveryOnce'
  BY <1>4 DEF Reset2faCodes, OfSets, RecoveryOnce
<1>5. ASSUME UNCHANGED <<codes, used>>, made'.sets = made.sets PROVE OfSets' /\ RecoveryOnce'
  BY <1>5 DEF OfSets, RecoveryOnce
<1>6. ASSUME NEW t \in Tasks, Issue(t) \/ Setup(t) PROVE OfSets' /\ RecoveryOnce'
  <2>1. made'.sets = made.sets
    BY <1>6 DEF Issue, Setup, Types, Counts
  <2> QED
    BY <1>5, <1>6, <2>1 DEF Issue, Setup
<1>7. ASSUME Reset2faTotp PROVE OfSets' /\ RecoveryOnce'
  <2>1. made'.sets = made.sets
    BY <1>7 DEF Reset2faTotp, Types, Counts
  <2> QED
    BY <1>5, <1>7, <2>1 DEF Reset2faTotp
<1> QED
  BY <1>2, <1>3, <1>4, <1>5, <1>6, <1>7
  DEF Next, vars, LoginStart, LoginCode, Expire, Touch, Logout, SwitchOn, Rotate, Password, Drop,
      EnableCode, Read, Passes, Reset2faSessions, Reset2faStops

\* What is switched on was proven in this enrolment, whoever wrote the row meanwhile.
LEMMA ProvenKept ==
  ASSUME WebSessionsAssumption, Types, AboutToSwitch, EnabledIsProven, [Next]_vars
  PROVE  AboutToSwitch' /\ EnabledIsProven'
<1> USE Defaults
<1>1. ASSUME proven \subseteq proven',
             \A u \in Tasks : tasks'[u].at = "switch" =>
               \/ tasks[u].at = "switch" /\ tasks'[u].user = tasks[u].user
               \/ tasks'[u].user.secret \in proven'
      PROVE  AboutToSwitch'
  BY <1>1 DEF AboutToSwitch
<1>2. ASSUME proven \subseteq proven', user'.enabled => user'.secret = user.secret /\ user.enabled
      PROVE  EnabledIsProven'
  BY <1>2 DEF EnabledIsProven
<1>3. ASSUME NEW t \in Tasks, NEW k \in Task, tasks' = [tasks EXCEPT ![t] = k], k.at # "switch",
             proven' = proven
      PROVE  AboutToSwitch'
  BY <1>1, <1>3 DEF Types
<1>4. ASSUME NEW t \in Tasks, Done(t), proven' = proven PROVE AboutToSwitch'
  BY <1>3, <1>4 DEF Done
<1>5. ASSUME NEW t \in Tasks, NEW step \in StepsNear(now), EnableCode(t, step)
      PROVE  AboutToSwitch' /\ EnabledIsProven'
  <2>1. CASE Done(t) /\ UNCHANGED <<user, accepted, proven>>
    BY <1>2, <1>4, <2>1
  <2>2. CASE /\ user' = [user EXCEPT !.last = step] /\ proven' = proven \cup {tasks[t].user.secret}
             /\ tasks' = [tasks EXCEPT ![t].at = "switch", ![t].second = TRUE]
    <3>1. user'.enabled = user.enabled /\ user'.secret = user.secret
      BY <2>2 DEF Types, UserRow
    <3>2. \A u \in Tasks : tasks'[u].user = tasks[u].user /\ (u # t => tasks'[u] = tasks[u])
      BY <2>2 DEF Types, Task
    <3>3. proven \subseteq proven' /\ tasks[t].user.secret \in proven'
      BY <2>2
    <3>6. \A u \in Tasks : tasks'[u].at = "switch" =>
            \/ tasks[u].at = "switch" /\ tasks'[u].user = tasks[u].user
            \/ tasks'[u].user.secret \in proven'
      BY <3>2, <3>3
    <3>4. AboutToSwitch'
      BY <1>1, <3>3, <3>6
    <3>5. EnabledIsProven'
      BY <1>2, <3>1, <3>3
    <3> QED
      BY <3>4, <3>5
  <2> QED
    BY <1>5, <2>1, <2>2 DEF EnableCode
<1>6. ASSUME NEW t \in Tasks, SwitchOn(t) PROVE AboutToSwitch' /\ EnabledIsProven'
  <2>1. tasks[t].user.secret \in proven
    BY <1>6 DEF SwitchOn, AboutToSwitch
  <2>2. user'.secret = tasks[t].user.secret /\ proven' = proven
    BY <1>6 DEF SwitchOn, SwitchedOn, Types, UserRow
  <2>3. AboutToSwitch'
    BY <1>1, <1>6, <2>2 DEF SwitchOn, To, Types, Task
  <2> QED
    BY <2>1, <2>2, <2>3 DEF EnabledIsProven
<1>7. ASSUME NEW t \in Tasks, Setup(t) PROVE AboutToSwitch' /\ EnabledIsProven'
  <2>1. user'.enabled => user' = user
    BY <1>7 DEF Setup, Types, UserRow
  <2> QED
    BY <1>2, <1>4, <1>7, <2>1 DEF Setup
<1>8. ASSUME NEW t \in Tasks, NEW step \in StepsNear(tasks[t].began), LoginCode(t, step)
      PROVE  AboutToSwitch' /\ EnabledIsProven'
  <2>1. user'.enabled = user.enabled /\ user'.secret = user.secret /\ proven' = proven
    BY <1>8 DEF LoginCode, Types, UserRow
  <2>2. \A u \in Tasks : tasks'[u].at = "switch" => tasks'[u] = tasks[u]
    BY <1>8 DEF LoginCode, Done, Types, Task
  <2> QED
    BY <1>1, <1>2, <2>1, <2>2
<1>9. ASSUME Reset2faTotp PROVE AboutToSwitch' /\ EnabledIsProven'
  <2>1. ~ user'.enabled
    BY <1>9 DEF Reset2faTotp, Types, UserRow
  <2> QED
    BY <1>1, <1>2, <1>9, <2>1 DEF Reset2faTotp
<1>10. ASSUME UNCHANGED <<user, proven, tasks>> PROVE AboutToSwitch' /\ EnabledIsProven'
  BY <1>1, <1>2, <1>10
<1>11. ASSUME NEW t \in Tasks, UNCHANGED <<user, proven>>,
              \/ LoginStart(t) \/ Issue(t) \/ Expire(t) \/ Touch(t) \/ Logout(t) \/ SaveCodes(t)
              \/ Rotate(t) \/ Password(t) \/ Drop(t) \/ (\E c \in codes : LoginRecovery(t, c))
              \/ \E id \in DOMAIN sessions, doing \in {"logout", "setup", "enable", "password"} :
                   Read(t, id, doing)
       PROVE  AboutToSwitch' /\ EnabledIsProven'
  <2>1. \A u \in Tasks \ {t} : tasks'[u] = tasks[u]
    BY <1>11 DEF LoginStart, Issue, Expire, Touch, Logout, SaveCodes, Rotate, Password, Drop,
                 LoginRecovery, Read, Done, To, Types
  <2>2. tasks'[t].at # "switch"
    <3>1. ASSUME NEW id, NEW doing, Read(t, id, doing) PROVE tasks'[t].at # "switch"
      <4> DEFINE k == [IdleTask EXCEPT !.at = IF Expired(sessions[id]) THEN "expired" ELSE "touch",
                                       !.doing = doing, !.id = id, !.row = sessions[id],
                                       !.began = now, !.second = sessions[id].second]
      <4>1. k.at # "switch"
        BY DEF IdleTask
      <4> HIDE DEF k
      <4>2. tasks' = [tasks EXCEPT ![t] = k]
        BY <3>1 DEF Read, k
      <4> QED
        BY <4>1, <4>2 DEF Types
    <3>6. CASE LoginStart(t)
      <4> DEFINE k == [IdleTask EXCEPT !.at = IF user.enabled THEN "code" ELSE "issue",
                                       !.doing = "login", !.user = user, !.began = now]
      <4>1. k.at # "switch"
        BY DEF IdleTask
      <4> HIDE DEF k
      <4>2. tasks' = [tasks EXCEPT ![t] = k]
        BY <3>6 DEF LoginStart, k
      <4> QED
        BY <4>1, <4>2 DEF Types
    <3>2. CASE Done(t)
      BY <3>2 DEF Done, Types
    <3>3. CASE To(t, "rotate") \/ To(t, "issue")
      BY <3>3 DEF To, Types, Task
    <3>4. CASE tasks' = [tasks EXCEPT ![t].at = "serve", ![t].user = user]
      BY <3>4 DEF Types, Task
    <3>5. CASE tasks' = [tasks EXCEPT ![t].at = "issue", ![t].second = TRUE]
      BY <3>5 DEF Types, Task
    <3> QED
      BY <1>11, <3>1, <3>2, <3>3, <3>4, <3>5, <3>6
      DEF Issue, Expire, Touch, Logout, SaveCodes, Rotate, Password, Drop, LoginRecovery
  <2> QED
    BY <1>1, <1>2, <1>11, <2>1, <2>2
<1>12. ASSUME NEW t \in Tasks,
              \/ LoginStart(t) \/ Issue(t) \/ Expire(t) \/ Touch(t) \/ Logout(t) \/ SaveCodes(t)
              \/ Rotate(t) \/ Password(t) \/ Drop(t) \/ (\E c \in codes : LoginRecovery(t, c))
              \/ \E id \in DOMAIN sessions, doing \in {"logout", "setup", "enable", "password"} :
                   Read(t, id, doing)
       PROVE  UNCHANGED <<user, proven>>
  BY <1>12 DEF LoginStart, Issue, Expire, Touch, Logout, SaveCodes, Rotate, Password, Drop,
               LoginRecovery, Read
<1> QED
  BY <1>5, <1>6, <1>7, <1>8, <1>9, <1>10, <1>11, <1>12
  DEF Next, vars, Passes, Reset2faCodes, Reset2faSessions, Reset2faStops

-----------------------------------------------------------------------------
LEMMA Initially == ASSUME WebSessionsAssumption, Init PROVE IInv
<1> USE Defaults
<1>1. Types /\ AllSound /\ AboutToSwitch
  <2>1. DOMAIN sessions = {} /\ sessions = [id \in DOMAIN sessions |-> sessions[id]]
    BY DEF Init
  <2>2. Sound(IdleTask)
    BY DEF Sound, IdleTask
  <2> QED
    BY <2>1, <2>2 DEF Init, Types, UserRow, Counts, AllSound, AboutToSwitch, WebSessionsAssumption
<1>2. Newest /\ CodesOnce
  BY DEF Init, Newest, CodesOnce
<1>3. OfSets /\ RecoveryOnce /\ EnabledIsProven
  BY DEF Init, OfSets, RecoveryOnce, EnabledIsProven
<1> QED
  BY <1>1, <1>2, <1>3 DEF IInv

\* IInv is inductive.
THEOREM Invariance == ASSUME WebSessionsAssumption PROVE Spec => []IInv
<1>1. Init => IInv
  BY Initially
<1>2. IInv /\ [Next]_vars => IInv'
  BY TypesKept, SoundKept, CodesKept, RecoveryKept, ProvenKept DEF IInv
<1> QED
  BY <1>1, <1>2, PTL DEF Spec

\* What racing requests and reset-2fa cannot do: open a full session without a code, let
\* two requests in by one code or by one recovery code, have an unproven secret asked for,
\* or have a session served past its limits.
THEOREM AccessIsEarned ==
  ASSUME WebSessionsAssumption
  PROVE  Spec => [](/\ TypeOK /\ FullNeedsCode /\ CodesOnce /\ RecoveryOnce /\ EnabledIsProven
                    /\ ServedIsLive)
<1>1. IInv => TypeOK
  <2>1. Types => TypeOK
    BY Defaults DEF Types, TypeOK, UserRow, Task, Counts
  <2> QED
    BY <2>1 DEF IInv
<1>2. IInv => FullNeedsCode /\ ServedIsLive
  BY DEF IInv, AllSound, FullRow, FullNeedsCode, Sound, ServedIsLive
<1>3. IInv => CodesOnce /\ RecoveryOnce /\ EnabledIsProven
  BY DEF IInv
<1> QED
  BY <1>1, <1>2, <1>3, Invariance, PTL

\* A request that read a session before it ended does not bring it back.
THEOREM EndedForGood == ASSUME WebSessionsAssumption PROVE Spec => NeverRevived
<1>1. ASSUME Types, [Next]_vars
      PROVE  \A id \in 1 .. made.sessions : id \notin DOMAIN sessions => id \notin DOMAIN sessions'
  <2>1. ASSUME NEW t \in Tasks, Issue(t) PROVE DOMAIN sessions' = DOMAIN sessions \cup {made.sessions + 1}
    BY <2>1 DEF Issue
  <2>2. ASSUME NEW t \in Tasks, Expire(t) \/ Logout(t) \/ Rotate(t) \/ Touch(t)
        PROVE  DOMAIN sessions' \subseteq DOMAIN sessions
    BY <2>2 DEF Expire, Logout, Rotate, Touch, Without, TouchedRow
  <2>3. ASSUME Reset2faSessions \/ \E t \in Tasks : Password(t) PROVE DOMAIN sessions' = {}
    BY <2>3 DEF Reset2faSessions, Password
  <2>4. \/ \E t \in Tasks : Issue(t)
        \/ \E t \in Tasks : Expire(t) \/ Logout(t) \/ Rotate(t) \/ Touch(t)
        \/ Reset2faSessions \/ (\E t \in Tasks : Password(t))
        \/ sessions' = sessions
    BY <1>1 DEF Next, vars, LoginStart, LoginCode, LoginRecovery, Setup, SwitchOn, SaveCodes, Drop,
                EnableCode, Read, Passes, Reset2faTotp, Reset2faCodes, Reset2faStops
  <2>5. made.sessions \in Nat
    BY <1>1 DEF Types, Counts
  <2> QED
    BY <2>1, <2>2, <2>3, <2>4, <2>5
<1>2. IInv /\ [Next]_vars =>
        [\A id \in 1 .. made.sessions : id \notin DOMAIN sessions => id \notin DOMAIN sessions']_vars
  BY <1>1 DEF IInv
<1> QED
  BY <1>2, Invariance, PTL DEF Spec, NeverRevived
=============================================================================
