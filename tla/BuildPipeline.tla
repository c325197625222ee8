--------------------------- MODULE BuildPipeline ---------------------------
(***************************************************************************)
(* From a command line to the objects of kjobctl create: the flags of the  *)
(* five subcommands and CreateOptions.Complete in pkg/cmd/create/create.go,*)
(* Builder.Do with its checks in pkg/builder/builder.go, and the build     *)
(* functions of the five modes.  Every Get is a step of its own: the       *)
(* cluster may change between two of them, so each answers independently.  *)
(* How a Slurm job is sized is the subject of SlurmSizing, how its flags   *)
(* and script are read that of SlurmInput.                                 *)
(***************************************************************************)
EXTENDS Integers, Sequences, FiniteSets

CONSTANTS
    Half,          \* an int32 is a number of -Half..(Half - 1)
    CommandLines,  \* groups of command lines, see below
    Profiles,      \* the profiles Get may return: [modes, bundles]
    BundleOf,      \* the bundle Get may return for a name: [volumes, mounts, env]
    TemplatesOf    \* the templates Get may return for a mode

(***************************************************************************)
(* A command line: the mode; args, from the flags given to their texts, of *)
(* which "" is an empty one, " " a blank one and "bad" one that cannot be  *)
(* parsed; counts, labels and workers, the values of the flags that take   *)
(* maps from worker groups to numbers, labels and container names;         *)
(* scripts, the number of arguments; tasks, the containers the slurm       *)
(* builder arrives at, and scriptTime, the time limit of the script.       *)
(***************************************************************************)

VARIABLES
    cmd,
    pc,            \* the step of the command, or "built" or "failed"
    exists,        \* which of "localqueue" and "priority" Get has found
    profile, mode, \* as complete found them
    bundles,       \* the volume bundles, in order
    timeLimit,     \* as merged
    template,      \* what Get returned
    root, children

vars == <<cmd, pc, exists, profile, mode, bundles, timeLimit, template, root, children>>

None == [kind |-> "none"]

(***************************************************************************)
(* The rules the API server checks a mode of a profile with: which modes a *)
(* flag may be required for, and what excludes a Ray cluster.              *)
(***************************************************************************)
RequirableFor(f) ==
    CASE f \in {"replicas", "min-replicas", "max-replicas"} -> {"RayJob", "RayCluster"}
      [] f \in {"request", "cmd"} -> {"Job", "Interactive", "RayJob"}
      [] f = "raycluster" -> {"RayJob"}
      [] f \in {"parallelism", "completions"} -> {"Job", "Interactive", "RayJob", "RayCluster"}
      [] f \in {"localqueue", "priority", "time", "pod-template-label", "pod-template-annotation"} ->
            {"Job", "Interactive", "RayJob", "RayCluster", "Slurm"}
      [] OTHER -> {"Slurm"}

Admitted(m) ==
    /\ \A f \in m.requiredFlags : m.kind \in RequirableFor(f)
    /\ "raycluster" \in m.requiredFlags =>
          m.requiredFlags \cap {"localqueue", "replicas", "min-replicas", "max-replicas"} = {}

ASSUME ProfilesAdmitted == \A p \in Profiles : \A k \in 1..Len(p.modes) : Admitted(p.modes[k])
ASSUME HalfAssumption == Half \in Nat \ {0}

Init ==
    /\ \E group \in CommandLines : cmd \in group
    /\ pc = "complete" /\ exists = {} /\ profile = None /\ mode = None /\ bundles = <<>>
    /\ timeLimit = "" /\ template = None /\ root = None /\ children = <<>>

Fail == pc' = "failed" /\ UNCHANGED <<cmd, exists, profile, mode, bundles, timeLimit, template, root, children>>

-----------------------------------------------------------------------------
(***************************************************************************)
(* The command line.                                                       *)
(***************************************************************************)

CommonFlags ==
    {"profile", "localqueue", "skip-localqueue-validation", "priority", "skip-priority-validation",
     "pod-template-label", "pod-template-annotation"}

SlurmFlagSet ==
    {"array", "cpus-per-task", "gpus-per-task", "mem", "mem-per-task", "mem-per-cpu", "mem-per-gpu",
     "nodes", "ntasks", "ntasks-per-node", "output", "error", "input", "job-name", "partition", "chdir",
     "time"}

createModeSubcommands ==
    [Job         |-> {"cmd", "request", "parallelism", "completions", "time"},
     Interactive |-> {"cmd", "request", "pod-running-timeout", "rm", "time"},
     RayJob      |-> {"cmd", "replicas", "min-replicas", "max-replicas", "raycluster", "time"},
     RayCluster  |-> {"replicas", "min-replicas", "max-replicas", "time"},
     Slurm       |-> {"ignore-unknown-flags", "wait", "wait-timeout", "stream-container", "worker-container",
                      "init-image", "first-node-ip", "first-node-ip-timeout", "rm"} \cup SlurmFlagSet]

Modes     == DOMAIN createModeSubcommands
Offers(m) == CommonFlags \cup createModeSubcommands[m]

\* What an object is made of; a pod has a container, the API server takes no
\* other.
Podlike(pod) ==
    /\ {"labels", "volumes", "containers", "inits", "subdomain", "configMap"} \subseteq DOMAIN pod
    /\ 1 \in DOMAIN pod.containers
    /\ {"mounts", "env", "command", "requests", "tty"} \subseteq DOMAIN pod.containers[1]

Objectlike(t) ==
    /\ {"labels", "name", "head", "groups", "cluster", "parallelism", "completions", "command", "selector", "script"}
          \subseteq DOMAIN t
    /\ Podlike(t.head)

ASSUME TemplatesAssumption ==
    \A group \in CommandLines : \A c \in group :
        c.mode \in Modes /\ \A t \in TemplatesOf[c.mode] : Objectlike(t)

Given(f) == f \in DOMAIN cmd.args

\* What the builder is handed for a flag: an empty text is no text, and a
\* blank command has no words; a flag of any other type has a value if given.
Present(f) == Given(f) /\ cmd.args[f] \notin {"", " "}

\* cobra's checks of the flags and those of Complete.
Accepted ==
    /\ Given("profile") /\ DOMAIN cmd.args \subseteq Offers(cmd.mode)
    /\ \A f \in DOMAIN cmd.args : cmd.args[f] # "bad"
    /\ Given("raycluster") => ~\E f \in {"replicas", "min-replicas", "max-replicas", "localqueue"} : Given(f)
    /\ IF cmd.mode = "Slurm"
       THEN cmd.scripts = 1 /\ (Present("wait-timeout") \/ Given("stream-container") => Given("wait"))
       ELSE cmd.scripts = 0

Complete ==
    \/ /\ pc = "complete" /\ Accepted
       /\ pc' = "clients" /\ timeLimit' = IF Present("time") THEN cmd.args["time"] ELSE ""
       /\ UNCHANGED <<cmd, exists, profile, mode, bundles, template, root, children>>
    \/ pc = "complete" /\ Fail

-----------------------------------------------------------------------------
(***************************************************************************)
(* Builder.Do.                                                             *)
(***************************************************************************)

Continue(next) == pc' = next /\ UNCHANGED <<cmd, profile, mode, bundles, timeLimit, template, root, children>>

\* setClients, and the checks of validateGeneral that ask nobody.
setClients ==
    \/ pc = "clients" /\ Present("profile") /\ Continue("queue") /\ UNCHANGED exists
    \/ pc = "clients" /\ Fail

\* validateGeneral: the queue and the priority class have to exist unless the
\* user says not to look.
validate(f, skip, next) ==
    \/ (~Present(f) \/ Given(skip)) /\ Continue(next) /\ UNCHANGED exists
    \/ Present(f) /\ ~Given(skip) /\ Continue(next) /\ exists' = exists \cup {f}
    \/ Present(f) /\ ~Given(skip) /\ Fail

GetQueue    == pc = "queue" /\ validate("localqueue", "skip-localqueue-validation", "priority")
GetPriority == pc = "priority" /\ validate("priority", "skip-priority-validation", "profile")

\* complete: the profile and its mode; it may be gone or lack the mode.
GetProfile ==
    \/ /\ pc = "profile"
       /\ \E p \in Profiles : \E k \in 1..Len(p.modes) :
             /\ p.modes[k].kind = cmd.mode
             /\ \A j \in (k + 1)..Len(p.modes) : p.modes[j].kind # cmd.mode
             /\ mode' = p.modes[k] /\ profile' = p
       /\ pc' = "bundles"
       /\ UNCHANGED <<cmd, exists, bundles, timeLimit, template, root, children>>
    \/ pc = "profile" /\ Fail

\* complete: the volume bundles, one Get after the other.
GetBundle ==
    \/ /\ pc = "bundles" /\ Len(bundles) < Len(profile.bundles)
       /\ bundles' = Append(bundles, BundleOf[profile.bundles[Len(bundles) + 1]])
       /\ UNCHANGED <<cmd, pc, exists, profile, mode, timeLimit, template, root, children>>
    \/ pc = "bundles" /\ Len(bundles) < Len(profile.bundles) /\ Fail
    \/ pc = "bundles" /\ Len(bundles) = Len(profile.bundles) /\ Continue("flags") /\ UNCHANGED exists

\* The required flags validateFlags never misses: mem is not looked at, and
\* the two maps are never nil.
Unchecked == {"mem", "pod-template-label", "pod-template-annotation"}

\* Mutant of Missing: an empty text will do.
Missing_Empty == {f \in mode.requiredFlags \ Unchecked : ~Given(f)}

Missing == {f \in mode.requiredFlags \ Unchecked : ~Present(f)}

validateFlags ==
    \/ pc = "flags" /\ Missing = {} /\ Continue(IF cmd.mode = "Slurm" THEN "slurm" ELSE "template")
       /\ UNCHANGED exists
    \/ pc = "flags" /\ Missing # {} /\ Fail

\* slurmBuilder.parse and complete: the limit may come from the script.
ReadScript ==
    \/ /\ pc = "slurm"
       /\ timeLimit' = IF timeLimit = "" THEN cmd.scriptTime ELSE timeLimit
       /\ pc' = "template"
       /\ UNCHANGED <<cmd, exists, profile, mode, bundles, template, root, children>>
    \/ pc = "slurm" /\ Fail

-----------------------------------------------------------------------------
(***************************************************************************)
(* The parts of an object.  A template has labels and pods: head, and the  *)
(* worker groups of a Ray cluster.  An object is its template, changed.    *)
(***************************************************************************)

\* The labels in new, written over the old ones.
Over(new, old) == [l \in DOMAIN new \cup DOMAIN old |-> IF l \in DOMAIN new THEN new[l] ELSE old[l]]

\* Mutant of withKjobLabels: labels that are there already are kept.
withKjobLabels_KeepsOld(labels) == Over(labels, [profile |-> cmd.args["profile"], mode |-> mode.kind])

\* The labels of the template are written over.
withKjobLabels(labels) == Over([profile |-> cmd.args["profile"], mode |-> mode.kind], labels)

\* A limit that is no time is an error; one of zero leaves the label alone.
TimeRefused == timeLimit = "junk"

withKueueLabels(labels) ==
    LET asked == {f \in {"localqueue", "priority"} : Present(f)}
                 \cup (IF timeLimit \in {"", "0"} THEN {} ELSE {"time"})
    IN  Over([f \in asked |-> IF f = "time" THEN timeLimit ELSE cmd.args[f]], labels)

\* buildObjectMeta; an object without a strict name is named by the server.
buildObjectMeta(labels, strictNaming) ==
    [labels |-> withKueueLabels(withKjobLabels(labels)), name |-> IF strictNaming THEN "name-1" ELSE ""]

buildChildObjectMeta(name) == [labels |-> withKjobLabels(<<>>), name |-> name]

\* The labels of a pod template are the user's and no others.
PodLabels == IF Given("pod-template-label") THEN cmd.labels ELSE <<>>
buildPodObjectMeta(pod) == [pod EXCEPT !.labels = PodLabels]

\* mergeBundles, for one of the three fields.
Merged(field) ==
    LET upTo[k \in 0..Len(bundles)] == IF k = 0 THEN <<>> ELSE upTo[k - 1] \o bundles[k][field]
    IN  upTo[Len(bundles)]

KjobEnv == <<"USER_ID", "TASK_NAME", "TASK_ID", "PROFILE", "TIMESTAMP">>
additionalEnvironmentVariables == [k \in 1..Len(KjobEnv) |-> <<KjobEnv[k], "kjob">>]

\* Mutant of buildPodSpecVolumesAndEnv: init containers are left out.
buildPodSpecVolumesAndEnv_NoInits(pod) ==
    LET served(c) == [c EXCEPT !.mounts = @ \o Merged("mounts"),
                               !.env = @ \o Merged("env") \o additionalEnvironmentVariables]
    IN  [pod EXCEPT !.volumes = @ \o Merged("volumes"),
                    !.containers = [k \in DOMAIN @ |-> served(@[k])]]

buildPodSpecVolumesAndEnv(pod) ==
    LET served(c) == [c EXCEPT !.mounts = @ \o Merged("mounts"),
                               !.env = @ \o Merged("env") \o additionalEnvironmentVariables]
    IN  [pod EXCEPT !.volumes = @ \o Merged("volumes"),
                    !.containers = [k \in DOMAIN @ |-> served(@[k])],
                    !.inits = [k \in DOMAIN @ |-> served(@[k])]]

\* Command and requests are for the first container only.
buildPodSpec(pod) ==
    LET set(k, c) == [c EXCEPT !.command = IF k = 1 /\ Present("cmd") THEN cmd.args["cmd"] ELSE @,
                               !.requests = IF k = 1 /\ Present("request") THEN cmd.args["request"] ELSE @]
    IN  [buildPodSpecVolumesAndEnv(pod) EXCEPT !.containers = [k \in DOMAIN @ |-> set(k, @[k])]]

Int32(x) == ((x + Half) % (2 * Half)) - Half

\* buildRayClusterSpec for one worker group.
WorkerGroup(g) ==
    LET count(f, old) == IF Given(f) /\ g.name \in DOMAIN cmd.counts THEN Int32(cmd.counts[g.name]) ELSE old
    IN  [g EXCEPT !.replicas = count("replicas", @), !.min = count("min-replicas", @),
                  !.max = count("max-replicas", @), !.pod = buildPodSpecVolumesAndEnv(@)]

buildRayClusterSpec(t) ==
    [t EXCEPT !.head = buildPodSpecVolumesAndEnv(@), !.groups = [k \in DOMAIN @ |-> WorkerGroup(@[k])]]

-----------------------------------------------------------------------------
(***************************************************************************)
(* The build functions: the object made of template t.                     *)
(***************************************************************************)

Meta(t, strict) ==
    LET meta == buildObjectMeta(t.labels, strict) IN [t EXCEPT !.labels = meta.labels, !.name = meta.name]

BuildJob(t) ==
    [Meta(t, FALSE) EXCEPT
        !.head        = buildPodSpec(buildPodObjectMeta(@)),
        !.parallelism = IF Given("parallelism") THEN cmd.args["parallelism"] ELSE @,
        !.completions = IF Given("completions") THEN cmd.args["completions"] ELSE @]

\* The pod itself is the object: the user's labels come before kjob's.
BuildInteractive(t) ==
    LET pod       == buildPodSpec(t.head)
        tty(k, c) == [c EXCEPT !.tty = @ \/ k = 1]
    IN  [Meta([t EXCEPT !.labels = PodLabels], FALSE) EXCEPT
            !.head = [pod EXCEPT !.containers = [k \in DOMAIN @ |-> tty(k, @[k])]]]

\* Mutant of BuildRayJob: the queue label is removed only if the user set it.
BuildRayJob_KeepsQueue(t) ==
    LET o == [Meta(t, FALSE) EXCEPT !.command = IF Given("cmd") /\ cmd.args["cmd"] # "" THEN cmd.args["cmd"] ELSE @]
    IN  IF Present("raycluster")
        THEN [o EXCEPT !.cluster = FALSE, !.selector = cmd.args["raycluster"]]
        ELSE IF t.cluster THEN buildRayClusterSpec(o) ELSE o

\* On an existing cluster the job is not queued and has no cluster of its own.
BuildRayJob(t) ==
    LET o == [Meta(t, FALSE) EXCEPT !.command = IF Given("cmd") /\ cmd.args["cmd"] # "" THEN cmd.args["cmd"] ELSE @]
    IN  IF Present("raycluster")
        THEN [o EXCEPT !.labels = [l \in DOMAIN @ \ {"localqueue"} |-> @[l]],
                       !.cluster = FALSE, !.selector = cmd.args["raycluster"]]
        ELSE IF t.cluster THEN buildRayClusterSpec(o) ELSE o

BuildRayCluster(t) == buildRayClusterSpec(Meta(t, FALSE))

IsWorker(c) == Given("worker-container") => c.name \in cmd.workers

SlurmMounts == <<"slurm-scripts", "slurm-env">>
SlurmInit   == [name |-> "slurm-init-env", mounts |-> SlurmMounts, env |-> <<<<"POD_IP", "kjob">>>>,
                command |-> "init", requests |-> "", tty |-> FALSE]

\* The first container is copied until there is one for each task.
BuildSlurm(t) ==
    LET meta     == Meta(t, TRUE)
        pod      == buildPodSpecVolumesAndEnv(buildPodObjectMeta(t.head))
        work(c)  == [c EXCEPT !.command = "entrypoint", !.mounts = @ \o SlurmMounts]
        own      == [k \in DOMAIN pod.containers |->
                       IF IsWorker(pod.containers[k]) THEN work(pod.containers[k]) ELSE pod.containers[k]]
        replicas == [k \in 1..(cmd.tasks - 1) |-> own[1]]
    IN  [meta EXCEPT
            !.script = TRUE,
            !.head = [pod EXCEPT !.subdomain = meta.name, !.configMap = meta.name,
                                 !.volumes = @ \o SlurmMounts, !.inits = Append(@, SlurmInit),
                                 !.containers = own \o replicas]]

\* The ConfigMap of the scripts and the headless Service of the pods.
SlurmChildren(job) ==
    LET meta == buildChildObjectMeta(job.name)
    IN  <<[kind |-> "ConfigMap", selector |-> "", labels |-> meta.labels, name |-> meta.name],
          [kind |-> "Service", selector |-> job.name, labels |-> meta.labels, name |-> meta.name]>>

Built(t) ==
    CASE cmd.mode = "Job"         -> BuildJob(t)
      [] cmd.mode = "Interactive" -> BuildInteractive(t)
      [] cmd.mode = "RayJob"      -> BuildRayJob(t)
      [] cmd.mode = "RayCluster"  -> BuildRayCluster(t)
      [] cmd.mode = "Slurm"       -> BuildSlurm(t)

\* The Get of the template and the rest of build.
Build ==
    \/ /\ pc = "template" /\ ~TimeRefused
       /\ \E t \in TemplatesOf[cmd.mode] :
             /\ template' = t /\ root' = Built(t)
             /\ children' = IF cmd.mode = "Slurm" THEN SlurmChildren(Built(t)) ELSE <<>>
       /\ pc' = "built"
       /\ UNCHANGED <<cmd, exists, profile, mode, bundles, timeLimit>>
    \/ pc = "template" /\ Fail

Done == pc \in {"built", "failed"} /\ UNCHANGED vars

Next ==
    \/ Complete \/ setClients \/ GetQueue \/ GetPriority \/ GetProfile \/ GetBundle
    \/ validateFlags \/ ReadScript \/ Build
    \/ Done

Spec == Init /\ [][Next]_vars

-----------------------------------------------------------------------------
(***************************************************************************)
(* Properties.                                                             *)
(***************************************************************************)

\* The object and its children can be found: by list, describe and delete,
\* which select on the profile and the mode asked for, whatever labels the
\* template or --pod-template-label bring (buildObjectMeta, build of
\* interactiveBuilder); and, in a Slurm job, by one another: the pods' volume
\* names the ConfigMap, their subdomain the Service, and the Service selects
\* the pods of this job, all before the API server has named anything.
Findable ==
    pc = "built" =>
        /\ \A o \in {root} \cup {children[k] : k \in DOMAIN children} :
              o.labels["profile"] = cmd.args["profile"] /\ o.labels["mode"] = cmd.mode
        /\ \A k \in DOMAIN children : children[k].name = root.name /\ root.name # ""
        /\ cmd.mode = "Slurm" =>
              /\ \E k \in DOMAIN children : children[k].kind = "ConfigMap" /\ children[k].name = root.head.configMap
              /\ \E k \in DOMAIN children :
                    /\ children[k].kind = "Service" /\ children[k].name = root.head.subdomain
                    /\ children[k].selector = root.name

\* The pods of an object; those the object will have.
PodsOf(o) == {o.head} \cup {o.groups[k].pod : k \in DOMAIN o.groups}

Pods == IF cmd.mode = "RayJob" /\ ~root.cluster THEN {} ELSE PodsOf(root)

Containers(pod) ==
    {pod.containers[k] : k \in DOMAIN pod.containers} \cup {pod.inits[k] : k \in DOMAIN pod.inits}

(***************************************************************************)
(* What the API server lets through.  A bundle has mounts and variables,   *)
(* and a mount, which stands for the path it is at, is named after its     *)
(* volume; it mounts volumes the bundle brings, each path once             *)
(* (VolumeBundleSpec).  A pod mounts only volumes it has, and has no two   *)
(* volumes of one name, whoever of the template, the bundles and kjob      *)
(* brings them.  The command "entrypoint" stands for kjob's own script,    *)
(* and "unset" for no value.                                               *)
(***************************************************************************)
Names(s)      == {s[k] : k \in DOMAIN s}
IsSequence(s) == s \in Seq(Names(s))
Apart(s, t)   == Names(s) \cap Names(t) = {}

Bundlelike(b) ==
    /\ IsSequence(b.volumes) /\ IsSequence(b.mounts) /\ IsSequence(b.env)
    /\ Names(b.mounts) \subseteq Names(b.volumes) /\ Apart(b.volumes, SlurmMounts)
    /\ \A j, k \in DOMAIN b.mounts : b.mounts[j] = b.mounts[k] => j = k
    /\ \A k \in DOMAIN b.env : b.env[k][2] # "unset"

ASSUME BundlesAssumption ==
    \A p \in Profiles :
        /\ IsSequence(p.bundles)
        /\ \A k \in DOMAIN p.bundles : Bundlelike(BundleOf[p.bundles[k]])
        /\ \A j, k \in DOMAIN p.bundles :
              j # k => Apart(BundleOf[p.bundles[j]].volumes, BundleOf[p.bundles[k]].volumes)

Runnable(pod) ==
    /\ IsSequence(pod.volumes) /\ IsSequence(pod.containers) /\ IsSequence(pod.inits)
    /\ {"labels", "volumes", "containers", "inits", "subdomain", "configMap"} \subseteq DOMAIN pod
    /\ \A p \in Profiles : \A k \in DOMAIN p.bundles : Apart(pod.volumes, BundleOf[p.bundles[k]].volumes)
    /\ \A c \in Containers(pod) :
          /\ {"mounts", "env", "command", "requests", "tty"} \subseteq DOMAIN c
          /\ IsSequence(c.mounts) /\ IsSequence(c.env)
          /\ Names(c.mounts) \subseteq Names(pod.volumes) /\ c.command # "entrypoint"

ASSUME PodsAssumption ==
    \A m \in Modes : \A t \in TemplatesOf[m] :
        /\ \A pod \in PodsOf(t) : Runnable(pod)
        /\ t.cluster \in BOOLEAN /\ (m \notin {"RayJob", "RayCluster"} => t.groups = <<>>)
        /\ \A k \in DOMAIN t.groups : {"name", "replicas", "min", "max", "pod"} \subseteq DOMAIN t.groups[k]

ASSUME LinesAssumption ==
    \A group \in CommandLines : \A c \in group :
        c.tasks \in Nat /\ ("cmd" \in DOMAIN c.args => c.args["cmd"] # "entrypoint")

\* The kubelet takes the last of several entries for a variable.
Effective(env, v) ==
    LET at == {k \in DOMAIN env : env[k][1] = v}
    IN  IF at = {} THEN "unset" ELSE env[CHOOSE k \in at : \A j \in at : j <= k][2]

BundleEnv == UNION {{BundleOf[profile.bundles[k]].env[j][1] : j \in DOMAIN BundleOf[profile.bundles[k]].env} :
                       k \in DOMAIN profile.bundles}

\* The value of a variable in the last bundle of the profile that has it.
FromBundles(v) ==
    LET has == {k \in DOMAIN profile.bundles : Effective(BundleOf[profile.bundles[k]].env, v) # "unset"}
    IN  Effective(BundleOf[profile.bundles[CHOOSE k \in has : \A j \in has : j <= k]].env, v)

\* In every pod of every mode, worker groups and init containers included,
\* each container of the template, and each copy of one, mounts every volume
\* of the profile's bundles, each once; kjob's variables win over a bundle's
\* and a later bundle's over an earlier one's and the template's.  The init
\* container kjob adds to a Slurm job, slurm-init-env, is added after that and
\* has kjob's two volumes alone.  No container mounts a volume its pod does not
\* have (buildPodSpecVolumesAndEnv, mergeBundles, slurmBuilder.build).
ContainersServed ==
    pc = "built" => \A pod \in Pods : \A c \in Containers(pod) :
        /\ \A k \in DOMAIN c.mounts : \E j \in DOMAIN pod.volumes : pod.volumes[j] = c.mounts[k]
        /\ c.name # SlurmInit.name =>
              /\ \A k \in DOMAIN profile.bundles :
                    LET want == BundleOf[profile.bundles[k]].mounts
                    IN  \A j \in DOMAIN want : Cardinality({i \in DOMAIN c.mounts : c.mounts[i] = want[j]}) = 1
              /\ \A k \in DOMAIN KjobEnv : Effective(c.env, KjobEnv[k]) = "kjob"
              /\ \A v \in BundleEnv \ {KjobEnv[k] : k \in DOMAIN KjobEnv} : Effective(c.env, v) = FromBundles(v)
        /\ c.command = "entrypoint" => \E k \in DOMAIN c.mounts : c.mounts[k] = "slurm-scripts"

\* The object waits in the queue named with --localqueue, which existed unless
\* the user had that check skipped, else in the template's, and a RayJob for an
\* existing cluster in none (validateGeneral, withKueueLabels, rayJobBuilder).
\* --partition, which its help and docs/run_slurm.md:41 call the local queue
\* name, has no part in it: the builder merges it (slurm_builder.go:725, 794) and
\* uses it nowhere, so that the queue stays the template's.
QueueAsAsked ==
    pc = "built" =>
        LET has == "localqueue" \in DOMAIN root.labels
        IN  IF Present("localqueue")
            THEN /\ has /\ root.labels["localqueue"] = cmd.args["localqueue"]
                 /\ "localqueue" \in exists \/ Given("skip-localqueue-validation")
            ELSE has => ~Present("raycluster") /\ root.labels["localqueue"] =
                        (IF cmd.mode = "Interactive" THEN PodLabels ELSE template.labels)["localqueue"]

\* The flags whose value is at a place of its own in the object.  Those of
\* Slurm but time are not: SlurmSizing and SlurmInput say what becomes of them.
CountFlags == {"replicas", "min-replicas", "max-replicas"}
Placed     == {"cmd", "request", "parallelism", "completions", "localqueue", "priority", "raycluster", "time"} \cup CountFlags

Count(g, f) == CASE f = "replicas" -> g.replicas [] f = "min-replicas" -> g.min [] f = "max-replicas" -> g.max

\* Whether the value of flag f is in object o.  A limit of zero is no limit;
\* the counts are those of the worker groups the user names, cut to 32 bits,
\* in an object that has a cluster of its own.
ValueIn(o, f) ==
    /\ f = "cmd" => (IF cmd.mode = "RayJob" THEN o.command ELSE o.head.containers[1].command) = cmd.args[f]
    /\ f = "request" => o.head.containers[1].requests = cmd.args[f]
    /\ f \in {"parallelism", "completions"} => o[f] = cmd.args[f]
    /\ f \in {"localqueue", "priority"} => o.labels[f] = cmd.args[f]
    /\ f = "time" => cmd.args[f] = "0" \/ o.labels[f] = cmd.args[f]
    /\ f = "raycluster" => o.selector = cmd.args[f]
    /\ f \in CountFlags /\ (cmd.mode = "RayJob" => o.cluster) =>
          \A k \in DOMAIN o.groups :
              o.groups[k].name \in DOMAIN cmd.counts => Count(o.groups[k], f) = Int32(cmd.counts[o.groups[k].name])

\* A gap of the template is filled by the user: each flag the mode requires
\* was given, not empty, and one that has a place in the object is there with
\* the value given; a value that comes from the script or the environment does
\* not count.  Three flags are never missed, see Unchecked, and a RayJob whose
\* template has no cluster has no groups to count (validateFlags, the build
\* functions).
FillsTheGaps ==
    pc = "built" =>
        \A f \in mode.requiredFlags \ Unchecked : Present(f) /\ (f \in Placed => ValueIn(root, f))
=============================================================================
