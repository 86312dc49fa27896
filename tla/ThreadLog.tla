------------------------------ MODULE ThreadLog ------------------------------
(***************************************************************************)
(* What the event log promises: each thread has one growing log, of which  *)
(* a prefix is saved; only a failure takes text back, and then exactly the *)
(* unsaved tail; a client's copy is always a prefix of the log, or of the  *)
(* log as it was before a failure, give or take text that was withdrawn    *)
(* because it could not be saved.                                          *)
(***************************************************************************)
EXTENDS Sequences, SequencesExt, Functions

CONSTANTS Threads, Watched

VARIABLES log, saved, view, past, withdrawn, lost

LogInit ==
  /\ log = [t \in Threads |-> <<>>]
  /\ saved = log
  /\ view = <<>>
  /\ past = {<<>>}
  /\ withdrawn = {} /\ lost = {}

Grows(t) ==
  LET now == log'[t]
      kept == saved'[t]
  IN IsPrefix(saved[t], kept) /\ IsPrefix(kept, now) /\ IsPrefix(log[t], now)

Advance == /\ UNCHANGED <<view, past, withdrawn, lost>>
           /\ \A t \in Threads : Grows(t)

\* A crash loses, or a quarantine withdraws, the unsaved text of these threads.
Fail(T) == /\ UNCHANGED view
           /\ past' = past \cup IF Watched \in T THEN {log[Watched]} ELSE {}
           /\ withdrawn \subseteq withdrawn' /\ lost \subseteq lost'
           /\ \A t \in T : /\ log'[t] = saved[t] /\ saved'[t] = saved[t]
                           /\ Range(log[t]) \subseteq Range(saved[t]) \cup withdrawn' \cup lost'
           /\ \A t \in Threads \ T : Grows(t)

Delete(t) == /\ log'[t] = <<>> /\ saved'[t] = <<>>
             /\ \A u \in Threads \ {t} : Grows(u)
             /\ UNCHANGED <<view, past, withdrawn, lost>>

Kept(text) == SelectSeq(text, LAMBDA p : p \notin withdrawn)

Look == /\ \E l \in past \cup {log[Watched]} : IsPrefix(Kept(view'), Kept(l))
        /\ UNCHANGED <<log, saved, past, withdrawn, lost>>

LogNext ==
  \/ Advance
  \/ Look
  \/ \E t \in Threads \ {Watched} : Delete(t)
  \/ \E T \in SUBSET Threads : Fail(T)

LogSpec == LogInit /\ [][LogNext]_<<log, saved, view, past, withdrawn, lost>>
=============================================================================
