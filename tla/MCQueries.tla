----------------------------- MODULE MCQueries -----------------------------
(***************************************************************************)
(* Jobs and ConfigMaps in two namespaces in every combination, or a few    *)
(* objects of the other kinds, and the commands with their flags.          *)
(***************************************************************************)
EXTENDS Queries

Obj(k, ns, n, p, m) == [kind |-> k, ns |-> ns, name |-> n, profile |-> p, mode |-> m,
                        queue |-> IF n = 1 THEN "q" ELSE "", app |-> IF n = 2 THEN "a" ELSE ""]

Jobs ==
    {Obj("Job", "here", 1, "p", "Slurm"), Obj("Job", "here", 2, "r", "Slurm"), Obj("Job", "here", 3, "p", "Job"),
     Obj("Job", "there", 1, "p", "Slurm"), Obj("Job", "here", 4, "", ""),
     Obj("ConfigMap", "here", 1, "p", "Slurm"), Obj("ConfigMap", "here", 2, "r", "Slurm")}

Others(kind) == {Obj(kind, "here", 1, "p", ""), Obj(kind, "here", 2, "", ""), Obj(kind, "there", 3, "r", "")}

OtherKinds == {"Pod", "RayJob", "RayCluster", "ApplicationProfile", "LocalQueue"}

MCObjects == Jobs \cup UNION {Others(k) : k \in OtherKinds}

MCClusters == SUBSET Jobs \cup UNION {SUBSET Others(k) : k \in OtherKinds}

Base(verb, cmd) == [verb |-> verb, cmd |-> cmd, all |-> FALSE, profile |-> "", queue |-> "", app |-> "",
                    name |-> 0, args |-> {}, limit |-> 0]

MCQueries ==
    {[Base("list", c) EXCEPT !.all = a, !.profile = p, !.limit = l] :
        c \in {"job", "slurm"}, a \in BOOLEAN, p \in {"", "p"}, l \in -1..2}
    \cup {[Base("list", c) EXCEPT !.all = TRUE, !.limit = 1] : c \in {"interactive", "rayjob", "raycluster"}}
    \cup {[Base("list", "slurm") EXCEPT !.queue = x, !.app = y] : x \in {"", "q"}, y \in {"", "a"}}
    \cup {[Base("describe", c) EXCEPT !.all = a, !.profile = p, !.name = n] :
             c \in {"job", "slurm"}, a \in BOOLEAN, p \in {"", "p"}, n \in {0, 1, 4}}
    \cup {[Base("complete", c) EXCEPT !.args = s] :
             c \in {"job", "slurm"}, s \in SUBSET {1, 3}}
    \cup {[Base("complete", c) EXCEPT !.args = {2}] :
             c \in {"interactive", "rayjob", "raycluster", "profile", "localqueue"}}
=============================================================================
