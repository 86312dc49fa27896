--------------------------- MODULE MCDurableQueue ---------------------------
(***************************************************************************)
(* Instances of DurableQueue for TLC: how often the person, the provider   *)
(* and the daemon do each thing in a run.                                  *)
(***************************************************************************)
EXTENDS DurableQueue

Allow(f) == [e \in Events |-> IF e \in DOMAIN f THEN f[e] ELSE 0]

\* Every way a delivery can fail, and a crash.
Failures == Allow([send |-> 3, die |-> 2, crash |-> 1, open |-> 1, prepare |-> 1,
                   reject |-> 1, refuse |-> 1])

\* Stops racing deliveries, a lost RPC, an automatic continuation, a death and a restart.
Stops == Allow([send |-> 2, stop |-> 2, die |-> 1, reject |-> 1, crash |-> 1, interrupt |-> 1,
                close |-> 1])

\* Usage limits, everything that lifts one, and a send that fails under one.
Limits == Allow([send |-> 2, quota |-> 2, limit |-> 1, account |-> 1, resume |-> 1,
                 pause |-> 1, reject |-> 1])

\* Both lanes over a provider death, a turn the provider starts by itself, and a person who
\* edits, moves, removes and resends what waits or stayed uncertain.
Progress == Allow([send |-> 2, self |-> 1, die |-> 1, edit |-> 1, remove |-> 1, move |-> 1,
                   resend |-> 1])

\* The shortest stories that contradict the documentation (README, section 6).
StopOnce == Allow([send |-> 2, stop |-> 1])
StopAndCrashes == Allow([send |-> 1, stop |-> 1, crash |-> 2])
PauseAndDeath == Allow([send |-> 2, pause |-> 1, die |-> 1])
PauseAndCrash == Allow([send |-> 1, pause |-> 1, crash |-> 1])
DeathOfContinuation == Allow([send |-> 2, crash |-> 1, die |-> 1])
LateStart == Allow([send |-> 2, reject |-> 1, prepare |-> 1])
=============================================================================
