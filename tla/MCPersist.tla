----------------------------- MODULE MCPersist -----------------------------
(* Small instances of Persist for TLC, and a history of what a stopping process held. *)
EXTENDS Persist

One == {"ann"}
UnitSizes == {1}
SmallSizes == {1, 2}
Hiccups == {"refused"}
Outages == {"refused", "outage"}
LostAnswers == {"lost_ack"}
Anything == {"refused", "outage", "lost_ack"}
Nothing == {}
-----------------------------------------------------------------------------
\* History: what memory held when the journal was closed, until the next start, unless
\* the process ended otherwise than drained.
VARIABLE kept

hvars == <<vars, kept>>
NotKept == [held |-> FALSE]
Memory == [held |-> TRUE, cash |-> cash, units |-> units, orders |-> orders, generation |-> generation]

HInit == Init /\ kept = NotKept
HNext ==
  \/ (Trading \/ Writing \/ Resetting \/ Drained) /\ UNCHANGED kept
  \/ CloseJournal /\ kept' = Memory
  \/ (DrainTimeout \/ Crash \/ Start) /\ kept' = NotKept
HSpec == HInit /\ [][HNext]_hvars
HFairSpec == HSpec /\ WF_hvars(Drained /\ UNCHANGED kept) /\ WF_hvars(DrainTimeout /\ kept' = NotKept)

\* A process that was stopped and drained in time comes back with what it held when it was
\* stopped, cash, units and open orders with their fills, for every account that was not reset
\* since: drain (cli.rs) waits for the writer, nothing that happened before it is missing and
\* nothing that happened during it is there.  (Without dropped or repeated writes.)
DrainedIsRestored ==
  [][up = "down" /\ up' = "serving" /\ kept.held =>
       \A a \in Accounts : current[a] = kept.generation[a] =>
         /\ cash'[a] = kept.cash[a] /\ units'[a] = kept.units[a]
         /\ \A o \in OrderIds :
              LET before == kept.orders[o]
                  after == orders'[o]
                  mine == before.status = "open" /\ before.account = a
              IN  (mine \/ (after.status = "open" /\ after.account = a)) => after = before]_hvars
=============================================================================
