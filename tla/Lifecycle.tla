----------------------------- MODULE Lifecycle ------------------------------
(***************************************************************************)
(* The life of the process (src/cli.rs, serve): it reads the credential,   *)
(* restores, links to Attacca, serves until a signal or the dashboard asks *)
(* it to stop, drains the journal and exits with a code the supervisor     *)
(* acts on; and the dashboard's enrollment (src/web/mod.rs, zyris_enroll), *)
(* which ends in a new credential and a restart.                           *)
(*                                                                         *)
(* Attacca is external: it issues codes, lets the user answer them or lets *)
(* them lapse, revokes the old credential when it grants a new one, and    *)
(* closes the link of a revoked one.  Credentials are numbered by the      *)
(* enrollment they come from; 0 is none.  The journal, its writer and    *)
(* what a drain that takes too long loses are module Persist's.            *)
(***************************************************************************)
EXTENDS Naturals, FiniteSets

CONSTANTS
  Tabs,        \* of the dashboard, that may ask for a code
  MaxCodes,    \* bound: enrollments
  MaxSaves,    \* bound: keys saved
  MaxFaults    \* bound: crashes, failures to store and signals

LifecycleAssumption ==
  IsFiniteSet(Tabs) /\ {MaxCodes, MaxSaves, MaxFaults} \subseteq Nat

Codes == 1 .. MaxCodes
NoView == [status |-> "idle", code |-> 0]

VARIABLES
  proc,       \* "down", "connecting", "up" or "draining"
  exit,       \* how the process ended or is about to: "none", "restart", "failed" (to drain
              \* in time), "signal" or "crash"
  token,      \* credential the process read
  stored,     \* credential in the settings directory
  link,       \* to Attacca: "none", "open" or "closed"
  connected,  \* zyris_connected
  permit,     \* of the restart Notify
  view,       \* enrollment view: status and code shown
  tab,        \* per tab: "idle" or "asking"
  task,       \* per code: the task that waits: [at, v], its copy of the view
  code,       \* Attacca: what became of each code
  valid,      \* Attacca: the credential that is not revoked
  saves,      \* number of times keys were saved
  faults      \* number of faults so far

process == <<proc, exit, token, permit>>
attacca == <<code, valid>>
enrollment == <<view, tab, task>>
vars == <<process, stored, link, connected, saves, enrollment, attacca, faults>>

NoTask == [at |-> "none", v |-> NoView]
Fault == faults < MaxFaults /\ faults' = faults + 1
Alive == proc # "down"

(***************************************************************************)
(* serve.                                                                  *)
(***************************************************************************)
Start ==
  /\ proc = "down"
  /\ token' = stored
  /\ proc' = IF stored = 0 THEN "up" ELSE "connecting"
  /\ exit' = "none" /\ permit' = FALSE
  /\ link' = "none" /\ connected' = FALSE
  /\ view' = NoView /\ tab' = [t \in Tabs |-> "idle"] /\ task' = [c \in Codes |-> NoTask]
  /\ UNCHANGED <<stored, saves, attacca, faults>>

\* on_connect runs before connect returns.
Connects ==
  /\ proc = "connecting" /\ token = valid
  /\ proc' = "up" /\ link' = "open" /\ connected' = TRUE
  /\ UNCHANGED <<exit, token, permit, stored, saves, enrollment, attacca, faults>>

\* A refused credential leaves the dashboard up.
Refused ==
  /\ proc = "connecting" /\ token # valid
  /\ proc' = "up"
  /\ UNCHANGED <<exit, token, permit, stored, link, connected, saves, enrollment, attacca, faults>>

\* Mutant: the process ends with its link.
LinkClosedEnds ==
  /\ proc = "up" /\ link = "closed"
  /\ link' = "none" /\ connected' = FALSE
  /\ proc' = "draining" /\ exit' = "closed"
  /\ UNCHANGED <<token, permit, stored, saves, enrollment, attacca, faults>>

\* Mutant: what the dashboard shows is not told.
LinkClosedQuietly ==
  /\ proc = "up" /\ link = "closed" /\ link' = "none"
  /\ UNCHANGED <<process, stored, connected, saves, enrollment, attacca, faults>>

\* wait_closed: stay up, so that the dashboard can finish an enrollment.
LinkClosed ==
  /\ proc = "up" /\ link = "closed"
  /\ link' = "none" /\ connected' = FALSE
  /\ UNCHANGED <<process, stored, saves, enrollment, attacca, faults>>

Stops(why) ==
  /\ proc' = "draining" /\ exit' = why
  /\ link' = IF link = "open" THEN "none" ELSE link
  /\ UNCHANGED <<token, stored, connected, saves, enrollment, attacca>>

StopsToRestart == proc = "up" /\ permit /\ permit' = FALSE /\ Stops("restart") /\ UNCHANGED faults

StopsOnSignal == proc = "up" /\ Fault /\ Stops("signal") /\ UNCHANGED permit

\* The requests and tasks of the process end with it.
Ends(why) ==
  /\ proc' = "down" /\ exit' = why
  /\ link' = "none" /\ connected' = FALSE
  /\ UNCHANGED <<token, permit, stored, saves, enrollment, attacca>>

\* finish: the journal is drained, or has not been after 120 s, which is an error of serve
\* and a code of its own for the supervisor.
Finish ==
  /\ proc = "draining"
  /\ \/ Ends(exit)
     \/ exit = "restart" /\ Ends("failed")
  /\ UNCHANGED faults

\* The handlers of signals are installed by the first poll of shutdown_signal, which is
\* after connect: before it, a signal has its default effect.
KilledConnecting == proc = "connecting" /\ Fault /\ Ends("signal")

Crash == Alive /\ Fault /\ Ends("crash")

\* save_keys asks for a restart too; what is saved is in module Settings.
SavesKeys ==
  /\ Alive /\ saves < MaxSaves /\ saves' = saves + 1
  /\ permit' = TRUE
  /\ UNCHANGED <<proc, exit, token, stored, link, connected, enrollment, attacca, faults>>

(***************************************************************************)
(* zyris_enroll.  The dashboard is up from before connect until the exit.  *)
(***************************************************************************)
InProgress == view.status = "pending" /\ code[view.code] # "lapsed"

Check(t) ==
  /\ Alive /\ tab[t] = "idle" /\ ~InProgress
  /\ tab' = [tab EXCEPT ![t] = "asking"]
  /\ UNCHANGED <<process, stored, link, connected, saves, view, task, attacca, faults>>

\* Attacca issues a code; the view shows it and a task waits for the answer.
Ask(t, c) ==
  /\ Alive /\ tab[t] = "asking" /\ code[c] = "none" /\ \A d \in 1 .. c - 1 : code[d] # "none"
  /\ tab' = [tab EXCEPT ![t] = "idle"]
  /\ code' = [code EXCEPT ![c] = "pending"]
  /\ view' = [status |-> "pending", code |-> c]
  /\ task' = [task EXCEPT ![c] = [at |-> "waiting", v |-> NoView]]
  /\ UNCHANGED <<process, stored, link, connected, saves, valid, faults>>

\* 502: no code was issued.
NoCode(t) ==
  /\ Alive /\ tab[t] = "asking"
  /\ tab' = [tab EXCEPT ![t] = "idle"]
  /\ UNCHANGED <<process, stored, link, connected, saves, view, task, attacca, faults>>

\* wait has answered: the view is copied.
Answered(c) ==
  /\ Alive /\ task[c].at = "waiting" /\ code[c] # "pending"
  /\ task' = [task EXCEPT ![c] = [at |-> "answered", v |-> view]]
  /\ UNCHANGED <<process, stored, link, connected, saves, view, tab, attacca, faults>>

Shows(c, status) == view' = [status |-> status, code |-> 0]

\* Lapsed or denied: the copy, without a code, is what is shown.
GivesUp(c) ==
  /\ Alive /\ task[c].at = "answered" /\ code[c] \in {"lapsed", "denied"}
  /\ Shows(c, code[c])
  /\ task' = [task EXCEPT ![c] = NoTask]
  /\ UNCHANGED <<process, stored, link, connected, saves, tab, attacca, faults>>

Stores(c) ==
  /\ Alive /\ task[c].at = "answered" /\ code[c] = "granted"
  /\ stored' = c /\ Shows(c, "granted")
  /\ task' = [task EXCEPT ![c].at = "stored"]
  /\ UNCHANGED <<process, link, connected, saves, tab, attacca, faults>>

StoreFails(c) ==
  /\ Alive /\ task[c].at = "answered" /\ code[c] = "granted" /\ Fault
  /\ Shows(c, "error")
  /\ task' = [task EXCEPT ![c] = NoTask]
  /\ UNCHANGED <<process, stored, link, connected, saves, tab, attacca>>

\* Mutant: notify_waiters, which is lost on a process that is not waiting yet.
NotifyWaiters(c) ==
  /\ Alive /\ task[c].at = "stored"
  /\ permit' = (proc = "up")
  /\ task' = [task EXCEPT ![c] = NoTask]
  /\ UNCHANGED <<proc, exit, token, stored, link, connected, saves, view, tab, attacca, faults>>

\* After the audit record: notify_one leaves a permit for who waits later.
Notify(c) ==
  /\ Alive /\ task[c].at = "stored"
  /\ permit' = TRUE
  /\ task' = [task EXCEPT ![c] = NoTask]
  /\ UNCHANGED <<proc, exit, token, stored, link, connected, saves, view, tab, attacca, faults>>

(***************************************************************************)
(* Attacca.                                                                *)
(***************************************************************************)
Grants(c) ==
  /\ code[c] = "pending" /\ code' = [code EXCEPT ![c] = "granted"] /\ valid' = c
  /\ UNCHANGED <<process, stored, link, connected, saves, enrollment, faults>>

EndsCode(c, how) ==
  /\ code[c] = "pending" /\ code' = [code EXCEPT ![c] = how]
  /\ UNCHANGED <<process, stored, link, connected, saves, enrollment, valid, faults>>

Closes ==
  /\ link = "open" /\ token # valid /\ link' = "closed"
  /\ UNCHANGED <<process, stored, connected, saves, enrollment, attacca, faults>>

Init ==
  /\ proc = "down" /\ exit = "none" /\ token = 0 /\ stored = 0 /\ link = "none"
  /\ connected = FALSE /\ permit = FALSE /\ view = NoView
  /\ tab = [t \in Tabs |-> "idle"] /\ task = [c \in Codes |-> NoTask]
  /\ code = [c \in Codes |-> "none"] /\ valid = 0 /\ saves = 0 /\ faults = 0

Next ==
  \/ Start \/ Connects \/ Refused \/ LinkClosed \/ StopsToRestart \/ StopsOnSignal \/ Finish
  \/ KilledConnecting \/ Crash \/ SavesKeys \/ Closes
  \/ \E t \in Tabs : Check(t) \/ NoCode(t) \/ \E c \in Codes : Ask(t, c)
  \/ \E c \in Codes :
       \/ Answered(c) \/ GivesUp(c) \/ Stores(c) \/ StoreFails(c) \/ Notify(c) \/ Grants(c)
       \/ \E how \in {"lapsed", "denied"} : EndsCode(c, how)

\* The supervisor starts a process again that did not end on a signal, and a drain ends
\* after 120 s at the latest.
Fairness ==
  /\ WF_vars(Start /\ exit # "signal")
  /\ WF_vars(Connects) /\ WF_vars(Refused) /\ WF_vars(LinkClosed) /\ WF_vars(StopsToRestart)
  /\ WF_vars(Finish) /\ WF_vars(Closes)
  /\ \A c \in Codes :
       WF_vars(Answered(c)) /\ WF_vars(GivesUp(c)) /\ WF_vars(Stores(c)) /\ WF_vars(Notify(c))

Spec == Init /\ [][Next]_vars /\ Fairness

(***************************************************************************)
(* Properties.                                                             *)
(***************************************************************************)
TypeOK ==
  /\ proc \in {"down", "connecting", "up", "draining"}
  /\ exit \in {"none", "restart", "failed", "signal", "crash"}
  /\ {token, stored, valid} \subseteq 0 .. MaxCodes
  /\ link # "none" => Alive /\ token # 0
  /\ view.status = "pending" => view.code # 0

\* A credential that the user has granted and that is in the settings directory is in
\* use in the end, though granting it closes the link of the old one and the request to
\* restart may come while the process still connects; and a crash does not undo it.
Relinks ==
  \A c \in Codes :
    stored = c ~> \/ link = "open" /\ token = c
                  \/ valid # c \/ exit = "signal"

\* A grant that some task waits for is stored, or an error shown, unless the process is
\* asked to stop first: that Attacca closes the link of the old credential does not end it.
GrantStored ==
  \A c \in Codes :
    code[c] = "granted" /\ task[c].at # "none" ~>
      stored >= c \/ view.status = "error" \/ exit \in {"restart", "failed", "signal", "crash"}

\* (violated) A grant that some task waits for ends in a link.
GrantLinks ==
  \A c \in Codes : code[c] = "granted" /\ task[c].at # "none" ~> link = "open" /\ token >= c

\* The dashboard does not show a link that Attacca has closed for good.
ClosedIsShown == link = "closed" ~> ~connected

\* (violated) A signal ends the process only after it has drained the journal.
SignalDrains == [][proc' = "down" /\ exit' = "signal" => proc = "draining"]_vars

\* (violated with two tabs) A tab that asks while an enrollment is in progress is
\* given that one.
OneInProgress == Cardinality({c \in Codes : code[c] = "pending" /\ task[c].at # "none"}) <= 1

\* (violated) The code that waits for the user is the one shown.
PendingIsShown ==
  \A c \in Codes :
    code[c] = "pending" /\ task[c].at # "none" /\ (\A d \in Codes : d > c => code[d] = "none") =>
      view.code = c
=============================================================================
