---------------------------- MODULE MCSlurmWait ----------------------------
(* The instances of SlurmWait that TLC checks.                             *)
EXTENDS SlurmWait

Opt(rm, timeout, dryRun) == [rm |-> rm, timeout |-> timeout, dryRun |-> dryRun]

AllOptions == [rm : BOOLEAN, timeout : BOOLEAN, dryRun : BOOLEAN]

\* Liveness needs the whole state graph at once: a wait that only the cluster
\* or the user can end, and one that the timer ends too.
LiveOptions == {Opt(FALSE, FALSE, FALSE), Opt(FALSE, TRUE, FALSE)}
=============================================================================
