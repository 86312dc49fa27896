----------------------------- MODULE FlowCredit -----------------------------
(***************************************************************************)
(* The accounting of one end of a relayed stream, class FlowCredit of      *)
(* packages/secure-channel/src/flow-credit.ts, as operators on a record.   *)
(* Each method that changes the object is an operator from the old record  *)
(* to the new one; what the method returns is an operator of its own.      *)
(***************************************************************************)
EXTENDS Integers

CONSTANTS
  FLOW_WINDOW,  \* unconsumed cost units a side may have in flight
  MIN_COST,     \* the least a data fragment costs
  CREDIT_STEP   \* consumed cost units after which credit is returned

ASSUME FlowAssumption ==
  /\ FLOW_WINDOW \in Nat
  /\ MIN_COST \in Nat \ {0}
  /\ CREDIT_STEP \in Nat \ {0}

FlowType == [limited: BOOLEAN, window: Int, counting: BOOLEAN, queued: Int,
             uncounted: Int, unacked: Int, owed: Int]

NewFlow == [limited |-> FALSE, window |-> 0, counting |-> FALSE, queued |-> 0,
            uncounted |-> 0, unacked |-> 0, owed |-> 0]

fragmentCost(plainLength) == IF plainLength > MIN_COST THEN plainLength ELSE MIN_COST

\* start() and credited() return a start fragment only the first time.
StartReplies(f) == ~f.limited

\* Mutant: every start() opens a fresh window.
startAgain(f) ==
  LET limited == [f EXCEPT !.limited = TRUE]
  IN  [limited EXCEPT !.window = FLOW_WINDOW]

start(f) ==
  LET limited == [f EXCEPT !.limited = TRUE]
  IN  IF f.limited THEN f ELSE [limited EXCEPT !.window = FLOW_WINDOW]

Count(f) ==
  LET counting == [f EXCEPT !.counting = TRUE]
  IN  IF f.counting THEN f ELSE [counting EXCEPT !.uncounted = f.queued]

credited(f, amount) == [start(Count(f)) EXCEPT !.window = @ + amount]

allows(f, cost) == ~f.limited \/ f.window >= cost

spend(f, cost) == IF f.limited THEN [f EXCEPT !.window = @ - cost] ELSE f

received(f, cost) ==
  LET queued == [f EXCEPT !.queued = @ + 1]
  IN  IF f.counting THEN [queued EXCEPT !.unacked = @ + cost] ELSE queued

\* What received() returns: false when the peer overran its window.
WithinWindow(f, cost) == ~f.counting \/ f.unacked + cost <= FLOW_WINDOW

\* Whether the fragment the reader takes is one its peer counted.
Counted(f) == f.uncounted = 0 /\ f.counting

\* The credit consumed() returns; 0 stands for none.
CreditDue(f, cost) ==
  IF Counted(f) /\ f.owed + cost >= CREDIT_STEP THEN f.owed + cost ELSE 0

\* Mutant: the credit returned is not taken off what the peer has in flight.
consumedUnpaid(f, cost) ==
  LET read == [f EXCEPT !.queued = @ - 1]
  IN  IF f.uncounted > 0 THEN [read EXCEPT !.uncounted = @ - 1]
      ELSE IF CreditDue(f, cost) > 0 THEN [read EXCEPT !.owed = 0]
      ELSE IF Counted(f) THEN [read EXCEPT !.owed = @ + cost] ELSE read

consumed(f, cost) ==
  LET read == [f EXCEPT !.queued = @ - 1]
      repaid == [read EXCEPT !.unacked = @ - CreditDue(f, cost)]
  IN  IF f.uncounted > 0 THEN [read EXCEPT !.uncounted = @ - 1]
      ELSE IF CreditDue(f, cost) > 0 THEN [repaid EXCEPT !.owed = 0]
      ELSE IF Counted(f) THEN [read EXCEPT !.owed = @ + cost] ELSE read
=============================================================================
