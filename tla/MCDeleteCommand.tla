-------------------------- MODULE MCDeleteCommand --------------------------
(* The instance of DeleteCommand that TLC checks: two users, two Jobs and a *)
(* RayJob, and command lines that meet: on the same name, on a name twice,  *)
(* in the wrong mode, on a name of another kind, as dry runs, and with a    *)
(* flag that Complete refuses.                                              *)
EXTENDS DeleteCommand, TLC

\* The clients are told apart only by their command lines, which Init chooses.
ClientSymmetry == Permutations(Clients)

MCMaxGen == [n \in Names |-> IF n = "b" THEN 2 ELSE 1]

MCKindOf == [n \in Names |-> CASE n = "r" -> "rayjobs" [] n = "p" -> "pods" [] OTHER -> "jobs"]

\* "b" may be of any mode, or foreign.
MCStarts == {f \in [Names -> Labels] : f["a"] = "Job" /\ f["r"] = "Slurm" /\ f["p"] = "Slurm"}

Line(cmd, names, dryRun, cascade) ==
    [cmd |-> cmd, names |-> names, dryRun |-> dryRun, cascade |-> cascade]

MCRequests ==
    {Line("job", <<"a", "b">>, "none", "background"),
     Line("job", <<"b">>, "none", "orphan"),
     Line("slurm", <<"b", "b">>, "none", "foreground"),
     Line("job", <<"a">>, "server", "background"),
     Line("job", <<"b">>, "client", "background"),
     Line("rayjob", <<"r", "a">>, "none", "foreground"),
     Line("interactive", <<"p", "b">>, "none", "background"),
     Line("raycluster", <<"r">>, "none", "nothing")}
=============================================================================
