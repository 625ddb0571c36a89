------------------------------ MODULE LiveFeed ------------------------------
(***************************************************************************)
(* What a venue's feed promises, whoever computes the set of instruments   *)
(* and however streams are restarted: the venue is asked for no instrument *)
(* twice and for no more than its cap, a stream always starts with the     *)
(* set published at that moment, one with an older set is closed, and a    *)
(* set is streamed in the end.  Subscriptions implements it.               *)
(***************************************************************************)
EXTENDS Naturals, Sequences

CONSTANTS Instruments, Cap

VARIABLES
  published,   \* the list of instruments to stream
  streaming    \* what the venue is streaming, <<>> when there is no stream

vars == <<published, streaming>>

Lists == {s \in Seq(Instruments) : /\ Len(s) <= Cap
                                   /\ \A i, j \in DOMAIN s : s[i] = s[j] => i = j}

Init == published = <<>> /\ streaming = <<>>

Publish ==
  /\ published' \in Lists /\ published' # published
  /\ UNCHANGED streaming

Open ==
  /\ streaming = <<>> /\ published # <<>>
  /\ streaming' = published
  /\ UNCHANGED published

Close ==
  /\ streaming # <<>>
  /\ streaming' = <<>>
  /\ UNCHANGED published

CloseStale == streaming # published /\ Close

Next == Publish \/ Open \/ Close

SafeSpec == Init /\ [][Next]_vars

Spec == SafeSpec /\ WF_vars(Open) /\ WF_vars(CloseStale)
=============================================================================
