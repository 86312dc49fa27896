----------------------------- MODULE CommandOnce -----------------------------
(***************************************************************************)
(* What the outbox and the receipts promise together: a command is saved   *)
(* before the daemon can know of it, is decided at most once, is never     *)
(* forgotten before it is decided or has failed, and is done for the       *)
(* client only when the daemon accepted it.                                *)
(***************************************************************************)
EXTENDS Sequences, SequencesExt

CONSTANT Commands

VARIABLES
  kept,      \* what the client keeps of each command
  verdict,   \* what the daemon decided on it
  ran        \* the decided commands, in order

OnceInit ==
  /\ kept = [c \in Commands |-> "new"]
  /\ verdict = [c \in Commands |-> "none"]
  /\ ran = <<>>

Save(c) == /\ kept[c] = "new"
           /\ kept' = [kept EXCEPT ![c] = "saved"]
           /\ UNCHANGED <<verdict, ran>>

\* An attempt the daemon refused may leave an earlier one on its way: a command
\* that failed for the client can still be decided.
Decide(c) == /\ verdict[c] = "none" /\ kept[c] \in {"saved", "failed"}
             /\ \E v \in {"acked", "failed"} : verdict' = [verdict EXCEPT ![c] = v]
             /\ ran' = Append(ran, c)
             /\ UNCHANGED kept

Fail(c) == /\ kept[c] = "saved"
           /\ kept' = [kept EXCEPT ![c] = "failed"]
           /\ UNCHANGED <<verdict, ran>>

Finish(c) == /\ kept[c] \in {"saved", "failed"} /\ verdict[c] = "acked"
             /\ kept' = [kept EXCEPT ![c] = "done"]
             /\ UNCHANGED <<verdict, ran>>

OnceNext == \E c \in Commands : Save(c) \/ Decide(c) \/ Fail(c) \/ Finish(c)

OnceSpec == OnceInit /\ [][OnceNext]_<<kept, verdict, ran>>
=============================================================================
