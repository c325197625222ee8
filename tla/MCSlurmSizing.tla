--------------------------- MODULE MCSlurmSizing ---------------------------
(* The instances of SlurmSizing that TLC checks: every combination of the   *)
(* three sizes, from flags and from the script, and every combination of    *)
(* the resource flags, templates and worker lists.                          *)
EXTENDS SlurmSizing

OptionalOf(S) == {{}} \cup {{v} : v \in S}

\* Containers of a template without and with requests and limits of their own.
Bare == [cpus |-> 0, gpus |-> 0, mem |-> 0, limit |-> 0]
Greedy == [cpus |-> 1, gpus |-> 1, mem |-> 3, limit |-> 4]

Plain ==
    [flags |-> [nodes |-> {}, nTasks |-> {}, perNode |-> {}],
     script |-> [nodes |-> {}, nTasks |-> {}],
     array |-> 0, cpus |-> {}, gpus |-> {}, mem |-> 0, memFlags |-> {},
     scriptOK |-> TRUE, template |-> <<Bare>>, workers |-> {}]

FromFlags ==
    {[Plain EXCEPT !.flags = [nodes |-> n, nTasks |-> t, perNode |-> p], !.array = a] :
        n \in OptionalOf(0..MaxInt), t \in OptionalOf(0..MaxInt), p \in OptionalOf(0..MaxInt), a \in {0, 2}}

FromScript ==
    {[Plain EXCEPT !.flags.perNode = p, !.script = [nodes |-> n, nTasks |-> t], !.template = k] :
        n \in OptionalOf(GoInt), t \in OptionalOf(GoInt), p \in OptionalOf({1, 2, 3, 5}),
        k \in {<<Bare>>, <<Bare, Bare>>}}

FromBoth ==
    {[Plain EXCEPT !.flags.nodes = n, !.flags.nTasks = t, !.script = [nodes |-> {-2}, nTasks |-> {4}],
                   !.scriptOK = ok] :
        n \in OptionalOf({2}), t \in OptionalOf({2, 6}), ok \in BOOLEAN}

Resources ==
    {[Plain EXCEPT !.flags.nTasks = t, !.cpus = c, !.gpus = g, !.mem = 2, !.memFlags = m,
                   !.template = k, !.workers = w] :
        t \in OptionalOf({3}), c \in OptionalOf({0, 2}), g \in OptionalOf({0, 1}),
        m \in SUBSET MemoryFlags,
        k \in {<<>>, <<Bare>>, <<Greedy>>, <<Bare, Greedy>>, <<Greedy, Greedy>>}, w \in {{}, {1}, {2}}}

AllInputs == FromFlags \cup FromScript \cup FromBoth \cup Resources
=============================================================================
