-------------------------- MODULE MCBuildPipeline --------------------------
(***************************************************************************)
(* Command lines for BuildPipeline: each group varies one concern.         *)
(***************************************************************************)
EXTENDS BuildPipeline, TLC

\* Texts for a set of flags: the value of each is its own name.
Texts(S) == [f \in S |-> f]

Plain(m, args) ==
    [mode |-> m, args |-> ("profile" :> "profile") @@ args, scripts |-> IF m = "Slurm" THEN 1 ELSE 0,
     counts |-> "small" :> 1 @@ "large" :> Half + 2, labels |-> "mode" :> "other" @@ "localqueue" :> "other",
     workers |-> {"c1"}, tasks |-> 1, scriptTime |-> ""]

\* Kueue's labels: from the user, the template or the script.
LabelLines ==
    {[Plain(m, Texts(S) @@ more) EXCEPT !.scriptTime = t] :
        m \in Modes,
        S \in SUBSET {"localqueue", "skip-localqueue-validation", "priority", "skip-priority-validation"},
        t \in {"", "time"},
        more \in {<<>>, "time" :> "0", "time" :> "1:00", "time" :> "junk", "raycluster" :> "ray-1",
                  "pod-template-label" :> "labels"}}

\* The flags a profile requires: given, empty, blank or left out.
GapFlags == [Job |-> {"cmd", "request", "parallelism", "localqueue"},
             Interactive |-> {"cmd", "request", "completions", "priority"},
             RayJob |-> {"cmd", "raycluster", "localqueue", "replicas"},
             RayCluster |-> {"replicas", "min-replicas", "max-replicas", "priority"},
             Slurm |-> {"array", "mem", "partition", "time"}]
ValuesOf(f) == {f} \cup (IF f = "cmd" THEN {"", " "} ELSE {})
                    \cup (IF f \in {"localqueue", "raycluster", "priority", "array", "partition"} THEN {""} ELSE {})
GapLines ==
    UNION {UNION {{Plain(m, [f \in S |-> v[f]]) : v \in {w \in [S -> UNION {ValuesOf(f) : f \in S}] :
                                                            \A f \in S : w[f] \in ValuesOf(f)}} :
                  S \in SUBSET (GapFlags[m] \cap Offers(m))} : m \in Modes}

\* Slurm jobs of several containers.
SlurmLines ==
    {[Plain("Slurm", Texts(S)) EXCEPT !.tasks = k, !.workers = w] :
        k \in 1..3, S \in SUBSET {"worker-container"}, w \in {{"c1"}, {"c2"}}}

\* Command lines that are refused.
RefusedLines ==
    {[Plain("Slurm", Texts(S)) EXCEPT !.scripts = k] : k \in 0..2, S \in SUBSET {"wait", "wait-timeout", "stream-container"}}
    \cup {Plain(m, f :> "bad") : m \in Modes, f \in {"request", "cpus-per-task", "nodes", "parallelism"}}
    \cup {[Plain("Job", <<>>) EXCEPT !.args = a] : a \in {<<>>, "profile" :> ""}}

MCLines == {LabelLines, GapLines, SlurmLines, RefusedLines}

-----------------------------------------------------------------------------
Requirements(m) ==
    {S \in SUBSET (GapFlags[m] \cup {"mem", "parallelism", "time"}) :
        Cardinality(S) <= 2 /\ Admitted([kind |-> m, requiredFlags |-> S])}

MCProfiles ==
    UNION {{[modes |-> <<[kind |-> m, requiredFlags |-> S]>>, bundles |-> IF S = {} THEN <<"b1", "b2">> ELSE <<"b2">>] :
               S \in Requirements(m)} : m \in Modes}
    \cup {[modes |-> <<[kind |-> m, requiredFlags |-> {}]>>, bundles |-> b] : m \in Modes, b \in {<<>>, <<"b2", "b1">>}}

MCBundles ==
    [b1 |-> [volumes |-> <<"v1">>, mounts |-> <<"v1">>, env |-> <<<<"A", "b1">>, <<"B", "b1">>>>],
     b2 |-> [volumes |-> <<"v2", "v3">>, mounts |-> <<"v2", "v3">>, env |-> <<<<"A", "b2">>, <<"USER_ID", "b2">>>>]]

Container(n) == [name |-> n, command |-> "own", requests |-> "own", tty |-> FALSE,
                 mounts |-> <<"data">>, env |-> <<<<"A", "template">>, <<"TASK_ID", "template">>>>]
Pod(cs, is)  == [labels |-> "app" :> "own", volumes |-> <<"data">>, containers |-> cs, inits |-> is,
                 subdomain |-> "", configMap |-> ""]
Template(labels, pod, groups, cluster) ==
    [kind |-> "template", name |-> "template", labels |-> labels, head |-> pod, groups |-> groups, cluster |-> cluster,
     parallelism |-> "own", completions |-> "own", command |-> "own", selector |-> "", script |-> FALSE]

LabelSets == {<<>>, "localqueue" :> "own" @@ "mode" :> "own" @@ "time" :> "own"}
PodSet    == {Pod(<<Container("c1")>>, <<>>), Pod(<<Container("c1"), Container("c2")>>, <<Container("i")>>)}
Group(n, pod) == [name |-> n, replicas |-> 0, min |-> 0, max |-> 0, pod |-> pod]

MCTemplates ==
    [m \in Modes |->
        IF m \in {"RayJob", "RayCluster"}
        THEN {Template(l, p, <<Group("small", p), Group("other", p)>>, c) :
                 l \in LabelSets, p \in PodSet, c \in (IF m = "RayJob" THEN BOOLEAN ELSE {TRUE})}
        ELSE {Template(l, p, <<>>, FALSE) : l \in LabelSets, p \in PodSet}]
=============================================================================
