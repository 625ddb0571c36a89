-------------------------- MODULE MCSubscriptions ---------------------------
(* Instances of Subscriptions. *)
EXTENDS Subscriptions, SequencesExt

MCSorted == [s \in SUBSET Instruments |-> SetToSortSeq(s, <)]
=============================================================================
