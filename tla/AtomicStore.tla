---------------------------- MODULE AtomicStore ----------------------------
(***************************************************************************)
(* What the Local Store promises its callers (spec 4.1, 5): the user graph *)
(* is changed freely in memory, and SaveUser(with_related_data) makes the  *)
(* store hold exactly the graph, in one transaction, or leaves it as it    *)
(* was.  An object no longer in the graph (never created, deleted on the   *)
(* server) has no row.                                                     *)
(***************************************************************************)
CONSTANTS Objects, Values, Gone

VARIABLES graph,  \* object -> its current field values, or Gone
          store   \* object -> the values of its committed row, or Gone

GraphStates == [Objects -> Values \cup {Gone}]

Init ==
  /\ graph \in GraphStates
  /\ store = [o \in Objects |-> Gone]

(* A change of the in-memory graph; the store is not touched.              *)
Change ==
  /\ graph' \in GraphStates \ {graph}
  /\ UNCHANGED store

(* A successful save: the store becomes the graph.                         *)
Save ==
  /\ store' = graph
  /\ UNCHANGED graph

Spec == Init /\ [][Change \/ Save]_<<graph, store>>
=============================================================================
