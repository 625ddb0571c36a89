------------------------------ MODULE Settings ------------------------------
(***************************************************************************)
(* Settings that come from the operator or the dashboard                   *)
(* (src/settings.rs) and the request that saves them (src/web/mod.rs,      *)
(* save_keys): the file of each, written by way of a temporary one, the    *)
(* restart that applies them and the lookup the process does at its start. *)
(*                                                                         *)
(* Files are inodes: an open file, a temporary name and a final name may   *)
(* mean the same one.  A value is a sequence of chunks, all alike; writing *)
(* a shorter one over a longer one leaves the rest.                        *)
(*                                                                         *)
(* A definition whose comment begins with Mutant is used by nothing: it is *)
(* the definition after it with a mistake the properties must notice.      *)
(***************************************************************************)
EXTENDS Naturals, Sequences, FiniteSets, TLC

CONSTANTS
  Names,      \* of the settings
  Operator,   \* those that the environment, or a file it names, gives
  Savers,     \* requests, one body each
  Overlap,    \* whether two requests may save the same name at once
  MaxFaults   \* bound: writes that fail and crashes

SettingsAssumption ==
  /\ Operator \subseteq Names /\ IsFiniteSet(Names) /\ IsFiniteSet(Savers)
  /\ Overlap \in BOOLEAN /\ MaxFaults \in Nat

Blank == <<>>
Short == <<1>>
Long == <<2, 2>>
Unfit == <<3>>          \* of several lines, too long or not of the setting's choices
OperatorsOwn == <<9>>
Bodies == UNION {[ns -> {Blank, Short, Long, Unfit}] : ns \in (SUBSET Names) \ {{}}}
NoBody == [n \in {} |-> Blank]
Inodes == 1 .. Cardinality(Names) * (Cardinality(Savers) + 1)

VARIABLES
  content,  \* of each inode
  file,     \* per name: inode of <dir>/settings/NAME, 0 for none
  tmp,      \* per name: inode of its temporary file, 0 for none
  pc,       \* per request: "idle", "next", "open", "written" or "done"
  body,     \* per request: its names and values
  todo,     \* per request: the names left to save
  name,     \* per request: the name it saves now
  fd,       \* per request: the inode it has open
  sent,     \* history: per name, the values of accepted requests
  permit,   \* of the restart Notify
  up,       \* whether the process serves
  loaded,   \* per name: the value the process was started with
  faults    \* number of faults so far

files == <<content, file, tmp>>
requests == <<pc, body, todo, name, fd, sent>>
process == <<permit, up, loaded>>
vars == <<files, requests, process, faults>>

Fault == faults < MaxFaults /\ faults' = faults + 1

(***************************************************************************)
(* settings.rs                                                             *)
(***************************************************************************)
Contents(i) == IF i = 0 THEN Blank ELSE content[i]

\* The operator's value before the dashboard's; blank is unset.
Lookup(n) == IF n \in Operator THEN OperatorsOwn ELSE Contents(file[n])

Saves(s, n) == up /\ pc[s] = "next" /\ n \in todo[s]

\* save_in of a blank value: the file is removed.
Removes(s, n) ==
  /\ Saves(s, n) /\ body[s][n] = Blank
  /\ file' = [file EXCEPT ![n] = 0]
  /\ todo' = [todo EXCEPT ![s] = @ \ {n}]
  /\ UNCHANGED <<content, tmp, pc, body, name, fd, sent, process, faults>>

\* An inode nothing means any more.
Unused == {i \in Inodes : \A n \in Names, s \in Savers : i \notin {file[n], tmp[n], fd[s]}}
Fresh == {CHOOSE i \in Unused : TRUE}

Opened(s, n, i) ==
  /\ content' = [content EXCEPT ![i] = Blank]
  /\ fd' = [fd EXCEPT ![s] = i] /\ name' = [name EXCEPT ![s] = n]
  /\ pc' = [pc EXCEPT ![s] = "open"]
  /\ UNCHANGED <<body, todo, sent, process, faults>>

\* Mutant: the file itself is opened and truncated.
OpensInPlace(s, n) ==
  /\ Saves(s, n) /\ body[s][n] # Blank
  /\ \E i \in IF file[n] = 0 THEN Fresh ELSE {file[n]} :
       Opened(s, n, i) /\ file' = [file EXCEPT ![n] = i] /\ tmp' = [tmp EXCEPT ![n] = i]

\* The temporary file is made, or truncated if there is one.
Opens(s, n) ==
  /\ Saves(s, n) /\ body[s][n] # Blank
  /\ \E i \in IF tmp[n] = 0 THEN Fresh ELSE {tmp[n]} :
       Opened(s, n, i) /\ tmp' = [tmp EXCEPT ![n] = i] /\ UNCHANGED file

Over(v, old) == v \o SubSeq(old, Len(v) + 1, Len(old))

\* write_all and sync_all.
Writes(s) ==
  /\ up /\ pc[s] = "open"
  /\ content' = [content EXCEPT ![fd[s]] = Over(body[s][name[s]], @)]
  /\ pc' = [pc EXCEPT ![s] = "written"]
  /\ UNCHANGED <<file, tmp, body, todo, name, fd, sent, process, faults>>

\* Mutant: the file stays open.
EndsOpen(s) == pc' = [pc EXCEPT ![s] = "done"] /\ UNCHANGED fd

Ends(s) ==
  /\ pc' = [pc EXCEPT ![s] = "done"] /\ fd' = [fd EXCEPT ![s] = 0]

Renames(s) ==
  /\ up /\ pc[s] = "written" /\ tmp[name[s]] # 0
  /\ file' = [file EXCEPT ![name[s]] = tmp[name[s]]]
  /\ tmp' = [tmp EXCEPT ![name[s]] = 0]
  /\ todo' = [todo EXCEPT ![s] = @ \ {name[s]}]
  /\ pc' = [pc EXCEPT ![s] = "next"] /\ fd' = [fd EXCEPT ![s] = 0]
  /\ UNCHANGED <<content, body, name, sent, process, faults>>

\* Another request renamed it, or a file cannot be removed, opened, written or renamed: 500 at
\* the first name that fails.
Fails(s) ==
  /\ up /\ \/ pc[s] = "written" /\ tmp[name[s]] = 0 /\ UNCHANGED faults
           \/ pc[s] \in {"next", "open", "written"} /\ todo[s] # {} /\ Fault
  /\ Ends(s)
  /\ UNCHANGED <<files, body, todo, name, sent, process>>

(***************************************************************************)
(* save_keys                                                               *)
(***************************************************************************)
\* Every name is the dashboard's to set and every value is fit for it.
Accepted(b) == \A n \in DOMAIN b : n \notin Operator /\ b[n] # Unfit

Request(s, b) ==
  /\ up /\ pc[s] = "idle"
  /\ Overlap \/ \A r \in Savers : DOMAIN b \cap todo[r] = {} \/ pc[r] \in {"idle", "done"}
  /\ body' = [body EXCEPT ![s] = b]
  /\ IF Accepted(b)
     THEN /\ pc' = [pc EXCEPT ![s] = "next"] /\ todo' = [todo EXCEPT ![s] = DOMAIN b]
          /\ sent' = [n \in Names |-> IF n \in DOMAIN b THEN sent[n] \cup {b[n]} ELSE sent[n]]
     ELSE pc' = [pc EXCEPT ![s] = "done"] /\ UNCHANGED <<todo, sent>>
  /\ UNCHANGED <<files, name, fd, process, faults>>

\* Mutant: a key that is taken away needs no restart.
NotifiesOfValues(s) ==
  /\ up /\ pc[s] = "next" /\ todo[s] = {}
  /\ permit' = (permit \/ \E n \in DOMAIN body[s] : body[s][n] # Blank) /\ Ends(s)
  /\ UNCHANGED <<files, body, todo, name, sent, up, loaded, faults>>

\* All are saved: a restart is asked for.
Notifies(s) ==
  /\ up /\ pc[s] = "next" /\ todo[s] = {}
  /\ permit' = TRUE /\ Ends(s)
  /\ UNCHANGED <<files, body, todo, name, sent, up, loaded, faults>>

(***************************************************************************)
(* The process.                                                            *)
(***************************************************************************)
\* Requests under way end with the process; what they have made stays.
Exits ==
  /\ up' = FALSE /\ permit' = FALSE
  /\ pc' = [s \in Savers |-> IF pc[s] = "idle" THEN "idle" ELSE "done"]
  /\ fd' = [s \in Savers |-> 0]
  /\ UNCHANGED <<files, body, todo, name, sent, loaded>>

Restarts == up /\ permit /\ Exits /\ UNCHANGED faults

Crashes == up /\ Fault /\ Exits

Starts ==
  /\ ~up /\ up' = TRUE /\ permit' = FALSE
  /\ loaded' = [n \in Names |-> Lookup(n)]
  /\ UNCHANGED <<files, requests, faults>>

Init ==
  /\ content = [i \in Inodes |-> Blank] /\ file = [n \in Names |-> 0] /\ tmp = [n \in Names |-> 0]
  /\ pc = [s \in Savers |-> "idle"] /\ body = [s \in Savers |-> NoBody]
  /\ todo = [s \in Savers |-> {}] /\ name = [s \in Savers |-> CHOOSE n \in Names : TRUE]
  /\ fd = [s \in Savers |-> 0] /\ sent = [n \in Names |-> {}]
  /\ permit = FALSE /\ up = FALSE /\ loaded = [n \in Names |-> Blank] /\ faults = 0

Next ==
  \/ \E s \in Savers :
       \/ \E n \in Names : Removes(s, n) \/ Opens(s, n)
       \/ Writes(s) \/ Renames(s) \/ Fails(s) \/ Notifies(s)
       \/ \E b \in Bodies : Request(s, b)
  \/ Restarts \/ Crashes \/ Starts

Fairness ==
  /\ WF_vars(Restarts) /\ WF_vars(Starts)
  /\ \A s \in Savers :
       WF_vars(\/ \E n \in Names : Removes(s, n) \/ Opens(s, n)
               \/ Writes(s) \/ Renames(s) \/ Fails(s) \/ Notifies(s))

Spec == Init /\ [][Next]_vars /\ Fairness

(***************************************************************************)
(* Properties.                                                             *)
(***************************************************************************)
TypeOK ==
  /\ \A n \in Names : {file[n], tmp[n]} \subseteq Inodes \cup {0}
  /\ \A s \in Savers : pc[s] \in {"open", "written"} <=> fd[s] # 0

\* (violated when savers overlap) Wherever the process crashes, the disk fails or a restart ends a request: a setting's
\* file, if there is one, holds the whole of a value that an accepted request sent for it.
Whole ==
  \A n \in Names : file[n] # 0 => Contents(file[n]) \in sent[n] \ {Blank}

\* (without faults, violated with them) What is saved is what the process runs with in the end.
SavedIsLoaded == <>[](\A n \in Names : up /\ loaded[n] = Lookup(n))
=============================================================================
