---------------------------- MODULE MCEventStream ----------------------------
(***************************************************************************)
(* EventStream on two threads and a few pieces of text: numbers are        *)
(* reserved two at a time, so that batches cross the end of a range.       *)
(***************************************************************************)
EXTENDS EventStream

\* The watched thread streams text, with or without a status change before it.
SmallBatches ==
  [t \in Threads |-> IF t = Watched THEN {<<"text">>, <<"status", "text">>} ELSE {<<"text">>}]

SmallRecords == [t \in Threads |-> IF t = Watched THEN {} ELSE {"item"}]

-----------------------------------------------------------------------------
Promise == INSTANCE ThreadLog WITH
  log <- [t \in Threads |-> Visible(t)],
  saved <- [t \in Threads |-> Stored(t)],
  view <- client.view,
  past <- past,
  withdrawn <- dropped,
  lost <- lost

\* The log and the replica implement ThreadLog: text that was shown is never taken
\* back or reordered by storing it, and a copy is a prefix of what was shown.
OneLog == Promise!LogSpec
=============================================================================
