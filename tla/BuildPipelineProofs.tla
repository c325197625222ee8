------------------------ MODULE BuildPipelineProofs ------------------------
(***************************************************************************)
(* What kjobctl create makes of a command line, for every profile, volume  *)
(* bundle and template the API server may return: the object can be found, *)
(* waits in the queue asked for, has the values the profile requires, and  *)
(* its containers have what the volume bundles bring.                      *)
(***************************************************************************)
EXTENDS BuildPipeline, FiniteSetTheorems, SequenceTheorems, WellFoundedInduction, TLAPS

-----------------------------------------------------------------------------
(***************************************************************************)
(* The steps up to the template.                                           *)
(***************************************************************************)

AfterQueue   == {"priority", "profile", "bundles", "flags", "slurm", "template", "built"}
AfterProfile == {"bundles", "flags", "slurm", "template", "built"}
AfterFlags   == {"slurm", "template", "built"}

\* The command line has passed each check whose step is over: that of the
\* flags, of the queue, of the mode of the profile and of what it requires; a
\* time limit of the user's is the one in force.
CheckedInv ==
    /\ \E group \in CommandLines : cmd \in group
    /\ pc \in {"complete", "clients", "queue", "failed"} \cup AfterQueue
    /\ pc \notin {"complete", "failed"} => Accepted
    /\ pc \in AfterQueue /\ Present("localqueue") => "localqueue" \in exists \/ Given("skip-localqueue-validation")
    /\ pc \in AfterProfile => mode.kind = cmd.mode /\ Admitted(mode)
    /\ pc \in AfterFlags => Missing = {}
    /\ pc \notin {"complete", "failed"} /\ Present("time") => timeLimit = cmd.args["time"]

\* What a command line says does not change.
LEMMA SameCommand ==
  ASSUME cmd' = cmd
  PROVE  (Accepted' <=> Accepted) /\ \A f : (Given(f)' <=> Given(f)) /\ (Present(f)' <=> Present(f))
  BY DEF Accepted, Given, Present, Offers

\* Nor does what the mode of the profile requires, once it is known.
LEMMA SameMode ==
  ASSUME cmd' = cmd, mode' = mode
  PROVE  Missing' = Missing /\ (Admitted(mode)' <=> Admitted(mode))
  BY DEF Missing, Present, Given, Admitted, Unchecked, RequirableFor

\* The steps keep what has been checked.
LEMMA CheckedInvariant == Spec => []CheckedInv
  <1>1. Init => CheckedInv
    BY DEF Init, CheckedInv, AfterQueue, AfterProfile, AfterFlags
  <1>2. CheckedInv /\ [Next]_vars => CheckedInv'
    <2> SUFFICES ASSUME CheckedInv, [Next]_vars PROVE CheckedInv'
      OBVIOUS
    <2>1. cmd' = cmd
      BY DEF Next, vars, Complete, setClients, GetQueue, GetPriority, validate, GetProfile, GetBundle,
             validateFlags, ReadScript, Build, Done, Fail, Continue
    <2>2. (Accepted' <=> Accepted) /\ \A f : (Given(f)' <=> Given(f)) /\ (Present(f)' <=> Present(f))
      BY <2>1, SameCommand
    <2>3. mode' = mode => Missing' = Missing /\ (Admitted(mode)' <=> Admitted(mode))
      BY <2>1, SameMode
    <2> USE DEF CheckedInv, AfterQueue, AfterProfile, AfterFlags
    <2>4. CASE Fail
      BY <2>1, <2>4 DEF Fail
    <2>5. CASE Complete
      BY <2>1, <2>2, <2>4, <2>5 DEF Complete
    <2>6. CASE setClients
      BY <2>1, <2>2, <2>4, <2>6 DEF setClients, Continue
    <2>7. CASE GetQueue
      BY <2>1, <2>2, <2>4, <2>7 DEF GetQueue, validate, Continue
    <2>8. CASE GetPriority
      BY <2>1, <2>2, <2>4, <2>8 DEF GetPriority, validate, Continue
    <2>9. CASE GetProfile
      <3>1. CASE pc = "profile" /\ pc' = "bundles" /\ exists' = exists /\ timeLimit' = timeLimit
                 /\ \E p \in Profiles : \E k \in 1..Len(p.modes) : p.modes[k].kind = cmd.mode /\ mode' = p.modes[k]
        <4>1. mode'.kind = cmd.mode /\ Admitted(mode')
          BY <3>1, ProfilesAdmitted
        <4>2. Admitted(mode)'
          BY <4>1 DEF Admitted, RequirableFor
        <4> QED
          BY <2>1, <2>2, <3>1, <4>1, <4>2
      <3> QED
        BY <2>4, <2>9, <3>1 DEF GetProfile
    <2>10. CASE GetBundle
      BY <2>1, <2>2, <2>3, <2>4, <2>10 DEF GetBundle, Continue
    <2>11. CASE validateFlags
      BY <2>1, <2>2, <2>3, <2>4, <2>11 DEF validateFlags, Continue
    <2>12. CASE ReadScript
      BY <2>1, <2>2, <2>3, <2>4, <2>12 DEF ReadScript, Present
    <2>13. CASE Build
      <3>1. CASE pc = "template" /\ pc' = "built" /\ UNCHANGED <<exists, mode, timeLimit>>
        BY <2>1, <2>2, <2>3, <3>1
      <3> QED
        BY <2>4, <2>13, <3>1 DEF Build
    <2>14. CASE Done \/ UNCHANGED vars
      <3>1. UNCHANGED <<pc, exists, mode, timeLimit>>
        BY <2>14 DEF Done, vars
      <3> QED
        BY <2>1, <2>2, <2>3, <3>1
    <2> QED
      BY <2>5, <2>6, <2>7, <2>8, <2>9, <2>10, <2>11, <2>12, <2>13, <2>14 DEF Next
  <1> QED
    BY <1>1, <1>2, PTL DEF Spec

-----------------------------------------------------------------------------
(***************************************************************************)
(* The parts of an object.                                                 *)
(***************************************************************************)

\* The labels of an object made of a template with the labels given.
Labels(labels) == withKueueLabels(withKjobLabels(labels))

\* kjob's labels are those of this command, whatever there was before; the
\* queue and the priority are the user's, else the ones there were.
LEMMA LabelsAreOurs ==
  ASSUME NEW labels
  PROVE  /\ {"profile", "mode"} \subseteq DOMAIN Labels(labels)
         /\ Labels(labels)["profile"] = cmd.args["profile"] /\ Labels(labels)["mode"] = mode.kind
         /\ \A f \in {"localqueue", "priority"} :
               IF Present(f) THEN f \in DOMAIN Labels(labels) /\ Labels(labels)[f] = cmd.args[f]
               ELSE f \in DOMAIN Labels(labels) => Labels(labels)[f] = labels[f]
         /\ timeLimit \notin {"", "0"} => "time" \in DOMAIN Labels(labels) /\ Labels(labels)["time"] = timeLimit
  <1> DEFINE asked == {f \in {"localqueue", "priority"} : Present(f)} \cup (IF timeLimit \in {"", "0"} THEN {} ELSE {"time"})
             kjob  == [profile |-> cmd.args["profile"], mode |-> mode.kind]
             kueue == [f \in asked |-> IF f = "time" THEN timeLimit ELSE cmd.args[f]]
             inner == Over(kjob, labels)
  <1>1. /\ DOMAIN inner = {"profile", "mode"} \cup DOMAIN labels
        /\ inner["profile"] = cmd.args["profile"] /\ inner["mode"] = mode.kind
        /\ \A l \in DOMAIN labels : l \notin {"profile", "mode"} => inner[l] = labels[l]
    BY DEF Over
  <1>2. \A f : f \in asked => f \in {"localqueue", "priority", "time"}
    OBVIOUS
  <1>3. \A f \in {"localqueue", "priority"} : f \in asked <=> Present(f)
    OBVIOUS
  <1>4. /\ DOMAIN kueue = asked /\ \A f \in asked : f # "time" => kueue[f] = cmd.args[f]
        /\ timeLimit \notin {"", "0"} => "time" \in asked /\ kueue["time"] = timeLimit
    OBVIOUS
  <1>5. Labels(labels) = Over(kueue, inner)
    BY DEF Labels, withKueueLabels, withKjobLabels
  <1> HIDE DEF asked, kjob, kueue, inner
  <1>6. /\ DOMAIN Labels(labels) = asked \cup DOMAIN inner
        /\ \A f \in asked : Labels(labels)[f] = kueue[f]
        /\ \A f \in DOMAIN inner \ asked : Labels(labels)[f] = inner[f]
    BY <1>4, <1>5 DEF Over
  <1>7. "profile" \notin asked /\ "mode" \notin asked
    BY <1>2
  <1>8. ASSUME NEW f \in {"localqueue", "priority"}
        PROVE  IF Present(f) THEN f \in DOMAIN Labels(labels) /\ Labels(labels)[f] = cmd.args[f]
               ELSE f \in DOMAIN Labels(labels) => Labels(labels)[f] = labels[f]
    <2>1. CASE Present(f)
      BY <1>3, <1>4, <1>6, <2>1
    <2>2. CASE ~Present(f)
      BY <1>1, <1>3, <1>6, <2>2
    <2> QED
      BY <2>1, <2>2
  <1>9. timeLimit \notin {"", "0"} => "time" \in DOMAIN Labels(labels) /\ Labels(labels)["time"] = timeLimit
    BY <1>4, <1>6
  <1> QED
    BY <1>1, <1>6, <1>7, <1>8, <1>9

\* buildObjectMeta changes the labels and the name and not the pods.
LEMMA MetaOfObject ==
  ASSUME NEW t, {"labels", "name"} \subseteq DOMAIN t, NEW strict
  PROVE  /\ DOMAIN Meta(t, strict) = DOMAIN t
         /\ Meta(t, strict).labels = Labels(t.labels)
         /\ Meta(t, strict).name = (IF strict THEN "name-1" ELSE "")
         /\ \A f \in {"head", "groups", "cluster"} : f \in DOMAIN t => Meta(t, strict)[f] = t[f]
  BY DEF Meta, buildObjectMeta, Labels

\* The volumes and variables leave the first container where it is.
LEMMA PodServed ==
  ASSUME NEW pod, Podlike(pod)
  PROVE  Podlike(buildPodSpecVolumesAndEnv(pod))
  <1> DEFINE served(c) == [c EXCEPT !.mounts = @ \o Merged("mounts"),
                                    !.env = @ \o Merged("env") \o additionalEnvironmentVariables]
             new == buildPodSpecVolumesAndEnv(pod)
  <1>1. new = [pod EXCEPT !.volumes = @ \o Merged("volumes"),
                          !.containers = [k \in DOMAIN @ |-> served(@[k])],
                          !.inits = [k \in DOMAIN @ |-> served(@[k])]]
    BY DEF buildPodSpecVolumesAndEnv
  <1>2. \A c : DOMAIN served(c) = DOMAIN c
    OBVIOUS
  <1> HIDE DEF served, new
  <1>3. DOMAIN new = DOMAIN pod /\ new.containers = [k \in DOMAIN pod.containers |-> served(pod.containers[k])]
    BY <1>1 DEF Podlike
  <1>4. 1 \in DOMAIN new.containers /\ DOMAIN new.containers[1] = DOMAIN pod.containers[1]
    BY <1>2, <1>3 DEF Podlike
  <1>5. Podlike(new)
    BY <1>3, <1>4 DEF Podlike
  <1> QED
    BY <1>5 DEF new

\* Command and requests of the user are in the first container.
LEMMA PodBuilt ==
  ASSUME NEW pod, Podlike(pod)
  PROVE  /\ Podlike(buildPodSpec(pod))
         /\ Present("cmd") => buildPodSpec(pod).containers[1].command = cmd.args["cmd"]
         /\ Present("request") => buildPodSpec(pod).containers[1].requests = cmd.args["request"]
  <1> DEFINE set(k, c) == [c EXCEPT !.command = IF k = 1 /\ Present("cmd") THEN cmd.args["cmd"] ELSE @,
                                    !.requests = IF k = 1 /\ Present("request") THEN cmd.args["request"] ELSE @]
             old == buildPodSpecVolumesAndEnv(pod)
             new == buildPodSpec(pod)
  <1>1. new = [old EXCEPT !.containers = [k \in DOMAIN @ |-> set(k, @[k])]]
    BY DEF buildPodSpec
  <1>2. Podlike(old)
    BY PodServed
  <1>3. \A k, c : DOMAIN set(k, c) = DOMAIN c
    OBVIOUS
  <1>4. ASSUME NEW c, {"command", "requests"} \subseteq DOMAIN c
        PROVE  /\ Present("cmd") => set(1, c).command = cmd.args["cmd"]
               /\ Present("request") => set(1, c).requests = cmd.args["request"]
    BY <1>4
  <1> HIDE DEF set, old, new
  <1>5. DOMAIN new = DOMAIN old /\ new.containers = [k \in DOMAIN old.containers |-> set(k, old.containers[k])]
    BY <1>1, <1>2 DEF Podlike
  <1>6. 1 \in DOMAIN new.containers /\ new.containers[1] = set(1, old.containers[1])
    BY <1>2, <1>5 DEF Podlike
  <1>7. Podlike(new)
    BY <1>2, <1>3, <1>5, <1>6 DEF Podlike
  <1>8. /\ Present("cmd") => new.containers[1].command = cmd.args["cmd"]
        /\ Present("request") => new.containers[1].requests = cmd.args["request"]
    BY <1>2, <1>4, <1>6 DEF Podlike
  <1> QED
    BY <1>7, <1>8 DEF new

-----------------------------------------------------------------------------
(***************************************************************************)
(* The objects of the five modes.                                          *)
(***************************************************************************)

\* A Job has the labels, the command and requests in its first container, and
\* the two numbers.
LEMMA JobBuilt ==
  ASSUME NEW t, Objectlike(t)
  PROVE  /\ BuildJob(t).labels = Labels(t.labels)
         /\ Present("cmd") => BuildJob(t).head.containers[1].command = cmd.args["cmd"]
         /\ Present("request") => BuildJob(t).head.containers[1].requests = cmd.args["request"]
         /\ \A f \in {"parallelism", "completions"} : Given(f) => BuildJob(t)[f] = cmd.args[f]
  <1> DEFINE meta == Meta(t, FALSE)
             pod  == buildPodObjectMeta(t.head)
  <1>1. DOMAIN meta = DOMAIN t /\ meta.labels = Labels(t.labels) /\ meta.head = t.head
    BY MetaOfObject DEF Objectlike
  <1>2. Podlike(pod)
    BY DEF Objectlike, Podlike, buildPodObjectMeta
  <1>3. BuildJob(t) = [meta EXCEPT !.head = buildPodSpec(buildPodObjectMeta(@)),
                                   !.parallelism = IF Given("parallelism") THEN cmd.args["parallelism"] ELSE @,
                                   !.completions = IF Given("completions") THEN cmd.args["completions"] ELSE @]
    BY DEF BuildJob
  <1> HIDE DEF meta
  <1>4. /\ BuildJob(t).labels = Labels(t.labels) /\ BuildJob(t).head = buildPodSpec(pod)
        /\ Given("parallelism") => BuildJob(t).parallelism = cmd.args["parallelism"]
        /\ Given("completions") => BuildJob(t).completions = cmd.args["completions"]
    BY <1>1, <1>3 DEF Objectlike
  <1> QED
    BY <1>2, <1>4, PodBuilt

\* The pod of an interactive session has the labels on top of the user's, and
\* the command and requests in its first container.
LEMMA InteractiveBuilt ==
  ASSUME NEW t, Objectlike(t)
  PROVE  /\ BuildInteractive(t).labels = Labels(PodLabels)
         /\ Present("cmd") => BuildInteractive(t).head.containers[1].command = cmd.args["cmd"]
         /\ Present("request") => BuildInteractive(t).head.containers[1].requests = cmd.args["request"]
  <1> DEFINE pod       == buildPodSpec(t.head)
             own       == [t EXCEPT !.labels = PodLabels]
             meta      == Meta(own, FALSE)
             tty(k, c) == [c EXCEPT !.tty = @ \/ k = 1]
             head      == [pod EXCEPT !.containers = [k \in DOMAIN @ |-> tty(k, @[k])]]
  <1>1. DOMAIN own = DOMAIN t /\ own.labels = PodLabels
    BY DEF Objectlike
  <1>2. DOMAIN meta = DOMAIN t /\ meta.labels = Labels(PodLabels)
    <2>1. {"labels", "name"} \subseteq DOMAIN own
      BY <1>1 DEF Objectlike
    <2> HIDE DEF own
    <2> QED
      BY <1>1, <2>1, MetaOfObject
  <1>3. BuildInteractive(t) = [meta EXCEPT !.head = head]
    BY DEF BuildInteractive
  <1>4. /\ Podlike(pod)
        /\ Present("cmd") => pod.containers[1].command = cmd.args["cmd"]
        /\ Present("request") => pod.containers[1].requests = cmd.args["request"]
    BY PodBuilt DEF Objectlike
  <1> HIDE DEF pod, own, meta
  <1>5. \A c : {"command", "requests"} \subseteq DOMAIN c => tty(1, c).command = c.command /\ tty(1, c).requests = c.requests
    OBVIOUS
  <1> HIDE DEF tty
  <1>6. head.containers[1] = tty(1, pod.containers[1]) /\ {"command", "requests"} \subseteq DOMAIN pod.containers[1]
    BY <1>4 DEF Podlike
  <1> HIDE DEF head
  <1>7. BuildInteractive(t).head = head /\ BuildInteractive(t).labels = Labels(PodLabels)
    BY <1>2, <1>3 DEF Objectlike
  <1> QED
    BY <1>4, <1>5, <1>6, <1>7

\* Building the pods of a Ray cluster leaves the labels, the command and the
\* selector alone.
LEMMA RaySpec ==
  ASSUME NEW o, {"labels", "command", "selector"} \subseteq DOMAIN o
  PROVE  \A f \in {"labels", "command", "selector"} : buildRayClusterSpec(o)[f] = o[f]
  BY DEF buildRayClusterSpec

\* The counts of the user are in the worker groups they name.
LEMMA GroupCounts ==
  ASSUME NEW o, "groups" \in DOMAIN o,
         \A k \in DOMAIN o.groups : {"name", "replicas", "min", "max", "pod"} \subseteq DOMAIN o.groups[k],
         NEW f \in CountFlags, Given(f), NEW k \in DOMAIN buildRayClusterSpec(o).groups
  PROVE  LET g == buildRayClusterSpec(o).groups[k]
         IN  g.name \in DOMAIN cmd.counts => Count(g, f) = Int32(cmd.counts[g.name])
  <1> DEFINE new == buildRayClusterSpec(o)
  <1>1. new.groups = [j \in DOMAIN o.groups |-> WorkerGroup(o.groups[j])]
    BY DEF buildRayClusterSpec
  <1> HIDE DEF new
  <1>2. k \in DOMAIN o.groups /\ new.groups[k] = WorkerGroup(o.groups[k])
    BY <1>1 DEF new
  <1>3. PICK g : g = o.groups[k] /\ {"name", "replicas", "min", "max", "pod"} \subseteq DOMAIN g
    BY <1>2
  <1> DEFINE count(h, old) == IF Given(h) /\ g.name \in DOMAIN cmd.counts THEN Int32(cmd.counts[g.name]) ELSE old
             w == WorkerGroup(g)
  <1>4. w = [g EXCEPT !.replicas = count("replicas", @), !.min = count("min-replicas", @),
                      !.max = count("max-replicas", @), !.pod = buildPodSpecVolumesAndEnv(@)]
    BY DEF WorkerGroup
  <1> HIDE DEF count, w
  <1>5. /\ w.name = g.name /\ w.replicas = count("replicas", g.replicas)
        /\ w.min = count("min-replicas", g.min) /\ w.max = count("max-replicas", g.max)
    BY <1>3, <1>4
  <1>6. ASSUME g.name \in DOMAIN cmd.counts, NEW old PROVE count(f, old) = Int32(cmd.counts[g.name])
    BY <1>6 DEF count
  <1>7. w.name \in DOMAIN cmd.counts => Count(w, f) = Int32(cmd.counts[w.name])
    <2> SUFFICES ASSUME g.name \in DOMAIN cmd.counts PROVE Count(w, f) = Int32(cmd.counts[g.name])
      BY <1>5
    <2>1. CASE f = "replicas"
      BY <1>5, <1>6, <2>1 DEF Count
    <2>2. CASE f = "min-replicas"
      BY <1>5, <1>6, <2>2 DEF Count
    <2>3. CASE f = "max-replicas"
      BY <1>5, <1>6, <2>3 DEF Count
    <2> QED
      BY <2>1, <2>2, <2>3 DEF CountFlags
  <1> QED
    BY <1>2, <1>3, <1>7 DEF w, new

\* A RayJob has the command, and the labels unless it is for an existing
\* cluster: then it has no queue and selects that cluster.
LEMMA RayJobBuilt ==
  ASSUME NEW t, Objectlike(t)
  PROVE  /\ Present("cmd") => BuildRayJob(t).command = cmd.args["cmd"]
         /\ ~Present("raycluster") => BuildRayJob(t).labels = Labels(t.labels)
         /\ Present("raycluster") =>
               /\ BuildRayJob(t).labels = [l \in DOMAIN Labels(t.labels) \ {"localqueue"} |-> Labels(t.labels)[l]]
               /\ BuildRayJob(t).selector = cmd.args["raycluster"]
  <1> DEFINE meta == Meta(t, FALSE)
             o    == [meta EXCEPT !.command = IF Given("cmd") /\ cmd.args["cmd"] # "" THEN cmd.args["cmd"] ELSE @]
             here == [o EXCEPT !.labels = [l \in DOMAIN @ \ {"localqueue"} |-> @[l]],
                               !.cluster = FALSE, !.selector = cmd.args["raycluster"]]
  <1>1. DOMAIN meta = DOMAIN t /\ meta.labels = Labels(t.labels)
    BY MetaOfObject DEF Objectlike
  <1>2. BuildRayJob(t) = IF Present("raycluster") THEN here ELSE IF t.cluster THEN buildRayClusterSpec(o) ELSE o
    BY DEF BuildRayJob
  <1> HIDE DEF meta
  <1>3. DOMAIN o = DOMAIN t /\ o.labels = Labels(t.labels) /\ (Present("cmd") => o.command = cmd.args["cmd"])
    BY <1>1 DEF Objectlike, Present
  <1> HIDE DEF o
  <1>4. /\ here.command = o.command /\ here.selector = cmd.args["raycluster"]
        /\ here.labels = [l \in DOMAIN o.labels \ {"localqueue"} |-> o.labels[l]]
    BY <1>3 DEF Objectlike
  <1> HIDE DEF here
  <1>5. buildRayClusterSpec(o).labels = o.labels /\ buildRayClusterSpec(o).command = o.command
    BY <1>3, RaySpec DEF Objectlike
  <1>6. CASE Present("raycluster")
    BY <1>2, <1>3, <1>4, <1>6
  <1>7. CASE ~Present("raycluster")
    BY <1>2, <1>3, <1>5, <1>7
  <1> QED
    BY <1>6, <1>7

\* A RayJob with a cluster of its own has the template's worker groups, built.
LEMMA RayJobGroups ==
  ASSUME NEW t, Objectlike(t), ~Present("raycluster"), BuildRayJob(t).cluster
  PROVE  \E x : BuildRayJob(t) = buildRayClusterSpec(x) /\ "groups" \in DOMAIN x /\ x.groups = t.groups
  <1> DEFINE meta == Meta(t, FALSE)
             o    == [meta EXCEPT !.command = IF Given("cmd") /\ cmd.args["cmd"] # "" THEN cmd.args["cmd"] ELSE @]
  <1>1. DOMAIN meta = DOMAIN t /\ meta.groups = t.groups /\ meta.cluster = t.cluster
    BY MetaOfObject DEF Objectlike
  <1>2. BuildRayJob(t) = IF t.cluster THEN buildRayClusterSpec(o) ELSE o
    BY DEF BuildRayJob
  <1> HIDE DEF meta
  <1>3. DOMAIN o = DOMAIN t /\ o.groups = t.groups /\ o.cluster = t.cluster
    BY <1>1 DEF Objectlike
  <1> HIDE DEF o
  <1>4. t.cluster
    BY <1>2, <1>3
  <1> QED
    BY <1>2, <1>3, <1>4 DEF Objectlike

\* A RayCluster has the labels.
LEMMA RayClusterBuilt ==
  ASSUME NEW t, Objectlike(t)
  PROVE  BuildRayCluster(t).labels = Labels(t.labels)
  <1>1. DOMAIN Meta(t, FALSE) = DOMAIN t /\ Meta(t, FALSE).labels = Labels(t.labels)
    BY MetaOfObject DEF Objectlike
  <1> QED
    BY <1>1, RaySpec DEF BuildRayCluster, Objectlike

\* A Slurm job has the labels, a name of its own, and pods that use that name
\* for their subdomain and their ConfigMap.
LEMMA SlurmBuilt ==
  ASSUME NEW t, Objectlike(t)
  PROVE  /\ BuildSlurm(t).labels = Labels(t.labels) /\ BuildSlurm(t).name = "name-1"
         /\ BuildSlurm(t).head.subdomain = "name-1" /\ BuildSlurm(t).head.configMap = "name-1"
  <1> DEFINE meta     == Meta(t, TRUE)
             pod      == buildPodSpecVolumesAndEnv(buildPodObjectMeta(t.head))
             work(c)  == [c EXCEPT !.command = "entrypoint", !.mounts = @ \o SlurmMounts]
             own      == [k \in DOMAIN pod.containers |->
                            IF IsWorker(pod.containers[k]) THEN work(pod.containers[k]) ELSE pod.containers[k]]
             replicas == [k \in 1..(cmd.tasks - 1) |-> own[1]]
             head     == [pod EXCEPT !.subdomain = meta.name, !.configMap = meta.name,
                                     !.volumes = @ \o SlurmMounts, !.inits = Append(@, SlurmInit),
                                     !.containers = own \o replicas]
  <1>1. DOMAIN meta = DOMAIN t /\ meta.labels = Labels(t.labels) /\ meta.name = "name-1"
    BY MetaOfObject DEF Objectlike
  <1>2. Podlike(buildPodObjectMeta(t.head))
    BY DEF Objectlike, Podlike, buildPodObjectMeta
  <1>3. Podlike(pod)
    BY <1>2, PodServed
  <1>4. BuildSlurm(t) = [meta EXCEPT !.script = TRUE, !.head = head]
    BY DEF BuildSlurm
  <1> HIDE DEF meta, pod, own, replicas
  <1>5. head.subdomain = meta.name /\ head.configMap = meta.name
    BY <1>3 DEF Podlike
  <1> HIDE DEF head
  <1>6. BuildSlurm(t).head = head /\ BuildSlurm(t).labels = meta.labels /\ BuildSlurm(t).name = meta.name
    BY <1>1, <1>4 DEF Objectlike
  <1> QED
    BY <1>1, <1>5, <1>6

\* The labels that kjob's are written over.
OwnLabels(t) == IF cmd.mode = "Interactive" THEN PodLabels ELSE t.labels

\* What the properties say of the object made of template t.
GoodObject(o, t) ==
    /\ o.labels["profile"] = cmd.args["profile"] /\ o.labels["mode"] = cmd.mode
    /\ IF Present("localqueue") THEN "localqueue" \in DOMAIN o.labels /\ o.labels["localqueue"] = cmd.args["localqueue"]
       ELSE "localqueue" \in DOMAIN o.labels =>
               ~Present("raycluster") /\ o.labels["localqueue"] = OwnLabels(t)["localqueue"]
    /\ \A f \in (mode.requiredFlags \ Unchecked) \cap Placed : ValueIn(o, f)
    /\ cmd.mode = "Slurm" => o.name = "name-1" /\ o.head.subdomain = "name-1" /\ o.head.configMap = "name-1"

\* The flags of the accepted command line are those of its mode.
LEMMA OnlyOffered ==
  ASSUME Accepted, cmd.mode \in Modes
  PROVE  /\ Present("request") => cmd.mode \in {"Job", "Interactive"}
         /\ Present("cmd") => cmd.mode \in {"Job", "Interactive", "RayJob"}
         /\ \A f \in {"parallelism", "completions"} : Present(f) => cmd.mode = "Job"
         /\ Present("raycluster") => cmd.mode = "RayJob" /\ ~Present("localqueue")
         /\ \A f \in CountFlags : Present(f) => cmd.mode \in {"RayJob", "RayCluster"} /\ ~Present("raycluster")
  <1>1. cmd.mode \in {"Job", "Interactive", "RayJob", "RayCluster", "Slurm"}
    BY DEF Modes, createModeSubcommands
  <1>2. \A f : Present(f) => f \in CommonFlags \cup createModeSubcommands[cmd.mode]
    BY DEF Accepted, Present, Given, Offers
  <1>3. Present("raycluster") => ~Present("localqueue") /\ \A f \in CountFlags : ~Present(f)
    BY DEF Accepted, Present, CountFlags
  <1>4. \A f \in {"request", "cmd", "parallelism", "completions", "raycluster"} \cup CountFlags :
          Present(f) => f \in createModeSubcommands[cmd.mode]
    BY <1>2 DEF CommonFlags, CountFlags
  <1>5. CASE cmd.mode = "Job"
    BY <1>3, <1>4, <1>5 DEF createModeSubcommands, CountFlags
  <1>6. CASE cmd.mode = "Interactive"
    BY <1>3, <1>4, <1>6 DEF createModeSubcommands, CountFlags
  <1>7. CASE cmd.mode = "RayJob"
    BY <1>3, <1>4, <1>7 DEF createModeSubcommands, CountFlags
  <1>8. CASE cmd.mode = "RayCluster"
    BY <1>3, <1>4, <1>8 DEF createModeSubcommands, CountFlags
  <1>9. CASE cmd.mode = "Slurm"
    BY <1>4, <1>9 DEF createModeSubcommands, SlurmFlagSet, CountFlags
  <1> QED
    BY <1>1, <1>5, <1>6, <1>7, <1>8, <1>9

\* The object a command line that has passed the checks is turned into.
LEMMA ObjectBuilt ==
  ASSUME CheckedInv, pc = "template", NEW t \in TemplatesOf[cmd.mode]
  PROVE  GoodObject(Built(t), t)
  <1>1. /\ Accepted /\ mode.kind = cmd.mode /\ cmd.mode \in Modes /\ Objectlike(t)
        /\ \A f \in mode.requiredFlags \ Unchecked : Present(f)
    BY TemplatesAssumption DEF CheckedInv, AfterProfile, AfterFlags, Missing
  <1>2. cmd.mode \in {"Job", "Interactive", "RayJob", "RayCluster", "Slurm"}
    BY <1>1 DEF Modes, createModeSubcommands
  <1>3. /\ Present("request") => cmd.mode \in {"Job", "Interactive"}
        /\ Present("cmd") => cmd.mode \in {"Job", "Interactive", "RayJob"}
        /\ Present("parallelism") \/ Present("completions") => cmd.mode = "Job"
        /\ Present("raycluster") => cmd.mode = "RayJob" /\ ~Present("localqueue")
    BY <1>1, OnlyOffered
  <1> DEFINE o == Built(t)
  <1>4. o = CASE cmd.mode = "Job"         -> BuildJob(t)
              [] cmd.mode = "Interactive" -> BuildInteractive(t)
              [] cmd.mode = "RayJob"      -> BuildRayJob(t)
              [] cmd.mode = "RayCluster"  -> BuildRayCluster(t)
              [] cmd.mode = "Slurm"       -> BuildSlurm(t)
    BY DEF Built
  <1> HIDE DEF o
  <1>5. o.labels = (IF Present("raycluster")
                    THEN [l \in DOMAIN Labels(t.labels) \ {"localqueue"} |-> Labels(t.labels)[l]]
                    ELSE Labels(OwnLabels(t)))
    <2>1. CASE cmd.mode = "Job"
      BY <1>1, <1>3, <1>4, <2>1, JobBuilt DEF OwnLabels
    <2>2. CASE cmd.mode = "Interactive"
      BY <1>1, <1>3, <1>4, <2>2, InteractiveBuilt DEF OwnLabels
    <2>3. CASE cmd.mode = "RayJob"
      BY <1>1, <1>3, <1>4, <2>3, RayJobBuilt DEF OwnLabels
    <2>4. CASE cmd.mode = "RayCluster"
      BY <1>1, <1>3, <1>4, <2>4, RayClusterBuilt DEF OwnLabels
    <2>5. CASE cmd.mode = "Slurm"
      BY <1>1, <1>3, <1>4, <2>5, SlurmBuilt DEF OwnLabels
    <2> QED
      BY <1>2, <2>1, <2>2, <2>3, <2>4, <2>5
  <1>6. /\ o.labels["profile"] = cmd.args["profile"] /\ o.labels["mode"] = cmd.mode
        /\ Present("priority") => o.labels["priority"] = cmd.args["priority"]
        /\ IF Present("localqueue") THEN "localqueue" \in DOMAIN o.labels /\ o.labels["localqueue"] = cmd.args["localqueue"]
           ELSE "localqueue" \in DOMAIN o.labels =>
                   ~Present("raycluster") /\ o.labels["localqueue"] = OwnLabels(t)["localqueue"]
    <2>1. CASE Present("raycluster")
      <3>1. PICK new : /\ new = Labels(t.labels) /\ {"profile", "mode"} \subseteq DOMAIN new
                       /\ new["profile"] = cmd.args["profile"] /\ new["mode"] = cmd.mode
                       /\ Present("priority") => "priority" \in DOMAIN new /\ new["priority"] = cmd.args["priority"]
        BY <1>1, LabelsAreOurs
      <3>2. o.labels = [l \in DOMAIN new \ {"localqueue"} |-> new[l]] /\ ~Present("localqueue")
        BY <1>3, <1>5, <2>1, <3>1
      <3> QED
        BY <3>1, <3>2
    <2>2. CASE ~Present("raycluster")
      BY <1>1, <1>5, <2>2, LabelsAreOurs
    <2> QED
      BY <2>1, <2>2
  <1>7. ASSUME NEW f \in Placed, Present(f) PROVE ValueIn(o, f)
    <2>1. CASE f = "cmd"
      <3>1. CASE cmd.mode = "RayJob"
        BY <1>1, <1>4, <1>7, <2>1, <3>1, RayJobBuilt DEF ValueIn, CountFlags
      <3>2. CASE cmd.mode = "Job"
        BY <1>1, <1>4, <1>7, <2>1, <3>2, JobBuilt DEF ValueIn, CountFlags
      <3>3. CASE cmd.mode = "Interactive"
        BY <1>1, <1>4, <1>7, <2>1, <3>3, InteractiveBuilt DEF ValueIn, CountFlags
      <3> QED
        BY <1>3, <1>7, <2>1, <3>1, <3>2, <3>3
    <2>2. CASE f = "request"
      <3>1. CASE cmd.mode = "Job"
        BY <1>1, <1>4, <1>7, <2>2, <3>1, JobBuilt DEF ValueIn, CountFlags
      <3>2. CASE cmd.mode = "Interactive"
        BY <1>1, <1>4, <1>7, <2>2, <3>2, InteractiveBuilt DEF ValueIn, CountFlags
      <3> QED
        BY <1>3, <1>7, <2>2, <3>1, <3>2
    <2>3. CASE f \in {"parallelism", "completions"}
      <3>1. o = BuildJob(t) /\ Given(f)
        BY <1>3, <1>4, <1>7, <2>3 DEF Present
      <3> QED
        BY <1>1, <2>3, <3>1, JobBuilt DEF ValueIn, CountFlags
    <2>4. CASE f \in {"localqueue", "priority"}
      BY <1>6, <1>7, <2>4 DEF ValueIn, CountFlags
    <2>5. CASE f = "raycluster"
      <3>1. o = BuildRayJob(t)
        BY <1>3, <1>4, <1>7, <2>5
      <3> QED
        BY <1>1, <1>7, <2>5, <3>1, RayJobBuilt DEF ValueIn, CountFlags
    <2>6. CASE f = "time"
      <3>1. CASE cmd.args["time"] = "0"
        BY <2>6, <3>1 DEF ValueIn, CountFlags
      <3>2. CASE cmd.args["time"] # "0"
        <4>1. timeLimit = cmd.args["time"] /\ timeLimit \notin {"", "0"}
          BY <1>7, <2>6, <3>2 DEF CheckedInv, Present
        <4>2. o.labels["time"] = timeLimit
          <5>1. ASSUME NEW own PROVE "time" \in DOMAIN Labels(own) /\ Labels(own)["time"] = timeLimit
            BY <4>1, LabelsAreOurs
          <5>2. CASE Present("raycluster")
            <6>1. PICK new : new = Labels(t.labels) /\ "time" \in DOMAIN new /\ new["time"] = timeLimit
              BY <5>1
            <6>2. o.labels = [l \in DOMAIN new \ {"localqueue"} |-> new[l]]
              BY <1>5, <5>2, <6>1
            <6> QED
              BY <6>1, <6>2
          <5>3. CASE ~Present("raycluster")
            BY <1>5, <5>1, <5>3
          <5> QED
            BY <5>2, <5>3
        <4> QED
          BY <2>6, <4>1, <4>2 DEF ValueIn, CountFlags
      <3> QED
        BY <3>1, <3>2
    <2>7. CASE f \in CountFlags
      <3>1. cmd.mode \in {"RayJob", "RayCluster"} /\ ~Present("raycluster")
        BY <1>1, <1>3, <1>7, <2>7, OnlyOffered DEF CountFlags
      <3>2. ASSUME cmd.mode = "RayJob" => o.cluster
            PROVE  \E x : /\ o = buildRayClusterSpec(x) /\ "groups" \in DOMAIN x /\ x.groups = t.groups
        <4>1. CASE cmd.mode = "RayJob"
          BY <1>1, <1>4, <3>1, <3>2, <4>1, RayJobGroups
        <4>2. CASE cmd.mode = "RayCluster"
          <5>1. o = buildRayClusterSpec(Meta(t, FALSE))
            BY <1>4, <4>2 DEF BuildRayCluster
          <5>2. "groups" \in DOMAIN Meta(t, FALSE) /\ Meta(t, FALSE).groups = t.groups
            BY <1>1, MetaOfObject DEF Objectlike
          <5> QED
            BY <5>1, <5>2
        <4> QED
          BY <3>1, <4>1, <4>2
      <3>3. \A k \in DOMAIN t.groups : {"name", "replicas", "min", "max", "pod"} \subseteq DOMAIN t.groups[k]
        BY <1>1, PodsAssumption
      <3>4. ASSUME cmd.mode = "RayJob" => o.cluster, NEW k \in DOMAIN o.groups, o.groups[k].name \in DOMAIN cmd.counts
            PROVE  Count(o.groups[k], f) = Int32(cmd.counts[o.groups[k].name])
        <4>1. PICK x : o = buildRayClusterSpec(x) /\ "groups" \in DOMAIN x /\ x.groups = t.groups
          BY <3>2, <3>4
        <4> QED
          BY <1>7, <2>7, <3>3, <3>4, <4>1, GroupCounts DEF Present
      <3> QED
        BY <2>7, <3>4 DEF ValueIn, CountFlags
    <2> QED
      BY <2>1, <2>2, <2>3, <2>4, <2>5, <2>6, <2>7 DEF Placed
  <1>8. cmd.mode = "Slurm" => o.name = "name-1" /\ o.head.subdomain = "name-1" /\ o.head.configMap = "name-1"
    BY <1>1, <1>4, SlurmBuilt
  <1>9. GoodObject(o, t)
    BY <1>1, <1>6, <1>7, <1>8 DEF GoodObject
  <1> QED
    BY <1>9 DEF o

-----------------------------------------------------------------------------
(***************************************************************************)
(* The theorems.                                                           *)
(***************************************************************************)

\* What create is about to send to the API server is right.
BuiltInv ==
    pc = "built" => /\ GoodObject(root, template)
                    /\ children = IF cmd.mode = "Slurm" THEN SlurmChildren(root) ELSE <<>>

\* What is said of an object depends on the command line and the mode alone.
LEMMA SameGood ==
  ASSUME cmd' = cmd, mode' = mode, NEW o, NEW t
  PROVE  (GoodObject(o, t)' <=> GoodObject(o, t)) /\ SlurmChildren(o)' = SlurmChildren(o)
  <1>1. (Present("localqueue")' <=> Present("localqueue")) /\ (Present("raycluster")' <=> Present("raycluster"))
    BY SameCommand
  <1>2. OwnLabels(t)' = OwnLabels(t)
    BY DEF OwnLabels, PodLabels, Given
  <1>3. \A f : ValueIn(o, f)' <=> ValueIn(o, f)
    BY DEF ValueIn, CountFlags
  <1>4. SlurmChildren(o)' = SlurmChildren(o)
    BY DEF SlurmChildren, buildChildObjectMeta, withKjobLabels
  <1> QED
    BY <1>1, <1>2, <1>3, <1>4 DEF GoodObject, Unchecked, Placed, CountFlags

\* Only the last step builds.
LEMMA BuiltInvariant == Spec => []BuiltInv
  <1>1. Init => BuiltInv
    BY DEF Init, BuiltInv
  <1>2. CheckedInv /\ BuiltInv /\ [Next]_vars => BuiltInv'
    <2> SUFFICES ASSUME CheckedInv, BuiltInv, [Next]_vars, pc' = "built" PROVE BuiltInv'
      BY DEF BuiltInv
    <2>1. CASE UNCHANGED vars /\ pc = "built"
      <3>1. UNCHANGED <<cmd, mode, root, template, children>>
        BY <2>1 DEF vars
      <3>2. GoodObject(root, template) /\ children = IF cmd.mode = "Slurm" THEN SlurmChildren(root) ELSE <<>>
        BY <2>1 DEF BuiltInv
      <3>3. GoodObject(root, template)' /\ SlurmChildren(root)' = SlurmChildren(root)
        <4>1. ASSUME NEW o, NEW t PROVE (GoodObject(o, t)' <=> GoodObject(o, t)) /\ SlurmChildren(o)' = SlurmChildren(o)
          BY <3>1, SameGood
        <4> QED
          BY <3>1, <3>2, <4>1
      <3> QED
        BY <3>1, <3>2, <3>3 DEF BuiltInv
    <2>2. CASE Build /\ pc = "template"
      <3>1. PICK t \in TemplatesOf[cmd.mode] :
              /\ template' = t /\ root' = Built(t) /\ UNCHANGED <<cmd, mode>>
              /\ children' = IF cmd.mode = "Slurm" THEN SlurmChildren(Built(t)) ELSE <<>>
        BY <2>2 DEF Build, Fail
      <3>2. GoodObject(Built(t), t)
        BY <2>2, ObjectBuilt
      <3> DEFINE o == Built(t)
      <3>3. root' = o /\ children' = (IF cmd.mode = "Slurm" THEN SlurmChildren(o) ELSE <<>>) /\ GoodObject(o, t)
        BY <3>1, <3>2
      <3> HIDE DEF o
      <3>4. GoodObject(root', t) /\ children' = IF cmd.mode = "Slurm" THEN SlurmChildren(root') ELSE <<>>
        BY <3>3
      <3>5. GoodObject(root, template)' /\ SlurmChildren(root)' = SlurmChildren(root')
        BY <3>1, <3>4, SameGood
      <3> QED
        BY <3>1, <3>4, <3>5 DEF BuiltInv
    <2>3. (UNCHANGED vars /\ pc = "built") \/ (Build /\ pc = "template")
      BY DEF Next, vars, Complete, setClients, GetQueue, GetPriority, validate, GetProfile, GetBundle,
             validateFlags, ReadScript, Build, Done, Fail, Continue
    <2> QED
      BY <2>1, <2>2, <2>3
  <1> QED
    BY <1>1, <1>2, CheckedInvariant, PTL DEF Spec

\* Every object has the labels that list, describe and delete select on, and
\* the Job, the pods, the ConfigMap and the Service of a Slurm job use one
\* name, whatever labels the template and the user bring (buildObjectMeta,
\* buildChildObjectMeta, slurmBuilder.build).
THEOREM ObjectsFindable == Spec => []Findable
  <1>1. CheckedInv /\ BuiltInv => Findable
    <2> SUFFICES ASSUME CheckedInv, BuiltInv, pc = "built" PROVE Findable
      BY DEF Findable
    <2>1. /\ root.labels["profile"] = cmd.args["profile"] /\ root.labels["mode"] = cmd.mode
          /\ cmd.mode = "Slurm" => root.name = "name-1" /\ root.head.subdomain = "name-1" /\ root.head.configMap = "name-1"
          /\ children = IF cmd.mode = "Slurm" THEN SlurmChildren(root) ELSE <<>>
          /\ mode.kind = cmd.mode
      BY DEF BuiltInv, GoodObject, CheckedInv, AfterProfile
    <2>2. CASE cmd.mode # "Slurm"
      BY <2>1, <2>2 DEF Findable
    <2>3. CASE cmd.mode = "Slurm"
      <3> DEFINE labels  == withKjobLabels(<<>>)
                 config  == [kind |-> "ConfigMap", selector |-> "", labels |-> labels, name |-> root.name]
                 service == [kind |-> "Service", selector |-> root.name, labels |-> labels, name |-> root.name]
      <3>1. labels["profile"] = cmd.args["profile"] /\ labels["mode"] = cmd.mode
        BY <2>1 DEF withKjobLabels, Over
      <3>2. children = <<config, service>>
        BY <2>1, <2>3 DEF SlurmChildren, buildChildObjectMeta
      <3> HIDE DEF labels, config, service
      <3>3. DOMAIN children = 1..2 /\ children[1] = config /\ children[2] = service
        BY <3>2
      <3>4. /\ children[1].kind = "ConfigMap" /\ children[1].labels = labels /\ children[1].name = root.name
            /\ children[2].kind = "Service" /\ children[2].labels = labels /\ children[2].name = root.name
            /\ children[2].selector = root.name
        <4>1. config.kind = "ConfigMap" /\ config.labels = labels /\ config.name = root.name
          BY DEF config
        <4>2. service.kind = "Service" /\ service.labels = labels /\ service.name = root.name /\ service.selector = root.name
          BY DEF service
        <4> QED
          BY <3>3, <4>1, <4>2
      <3>5. \A k \in DOMAIN children : children[k].labels = labels /\ children[k].name = root.name
        BY <3>3, <3>4
      <3>6. \A o \in {root} \cup {children[k] : k \in DOMAIN children} :
              o.labels["profile"] = cmd.args["profile"] /\ o.labels["mode"] = cmd.mode
        BY <2>1, <3>1, <3>5
      <3>7. \E k \in DOMAIN children : children[k].kind = "ConfigMap" /\ children[k].name = root.head.configMap
        BY <2>1, <2>3, <3>3, <3>4
      <3>8. \E k \in DOMAIN children : /\ children[k].kind = "Service" /\ children[k].name = root.head.subdomain
                                       /\ children[k].selector = root.name
        BY <2>1, <2>3, <3>3, <3>4
      <3>9. \A k \in DOMAIN children : children[k].name = root.name /\ root.name # ""
        BY <2>1, <2>3, <3>5
      <3> QED
        BY <3>6, <3>7, <3>8, <3>9 DEF Findable
    <2> QED
      BY <2>2, <2>3
  <1> QED
    BY <1>1, CheckedInvariant, BuiltInvariant, PTL

\* The object waits in the queue the user named, which was looked up unless
\* the user had that skipped, else in the template's own, and for an existing
\* Ray cluster in none (validateGeneral, withKueueLabels, rayJobBuilder.build).
THEOREM QueueOfTheUser == Spec => []QueueAsAsked
  <1>1. CheckedInv /\ BuiltInv => QueueAsAsked
    BY DEF CheckedInv, AfterQueue, BuiltInv, GoodObject, OwnLabels, QueueAsAsked
  <1> QED
    BY <1>1, CheckedInvariant, BuiltInvariant, PTL

\* Each flag the profile's mode requires was given, and one that has a place
\* in the object (Placed) is there with the value given, for every profile the
\* API server admits and every template (validateFlags and the build
\* functions).
THEOREM GapsFilled == Spec => []FillsTheGaps
  <1>1. CheckedInv /\ BuiltInv => FillsTheGaps
    <2> SUFFICES ASSUME CheckedInv, BuiltInv, pc = "built", NEW f \in mode.requiredFlags \ Unchecked
                 PROVE  Present(f) /\ (f \in Placed => ValueIn(root, f))
      BY DEF FillsTheGaps
    <2>1. Present(f)
      BY DEF CheckedInv, AfterFlags, Missing
    <2>2. f \in Placed => ValueIn(root, f)
      BY DEF BuiltInv, GoodObject
    <2> QED
      BY <2>1, <2>2
  <1> QED
    BY <1>1, CheckedInvariant, BuiltInvariant, PTL
-----------------------------------------------------------------------------
(***************************************************************************)
(* Induction over the natural numbers, for sets of them.                   *)
(***************************************************************************)

\* A nonempty set of natural numbers has a smallest element.
LEMMA Smallest ==
  ASSUME NEW T \in SUBSET Nat, T # {}
  PROVE  \E x \in T : \A y \in T : x <= y
  <1> DEFINE R == {p \in Nat \X Nat : p[1] < p[2]}
  <1>1. IsWellFoundedOn(R, Nat)
    BY NatLessThanWellFounded DEF OpToRel
  <1>2. PICK x \in T : \A y \in T : ~(<<y, x>> \in R)
    BY <1>1, WFMin
  <1>3. ASSUME NEW y \in T PROVE x <= y
    <2>1. x \in Nat /\ y \in Nat
      OBVIOUS
    <2>2. <<y, x>> \in Nat \X Nat /\ <<y, x>>[1] = y /\ <<y, x>>[2] = x
      BY <2>1
    <2>3. ~(<<y, x>>[1] < <<y, x>>[2])
      BY <1>2, <2>2
    <2>4. QED
      BY <2>1, <2>2, <2>3
  <1>4. QED
    BY <1>3

\* A set that holds 0 and the successor of each element is all of Nat.
LEMMA Induction ==
  ASSUME NEW T \in SUBSET Nat, 0 \in T, \A k \in T : k + 1 \in T
  PROVE  T = Nat
  <1> DEFINE C == Nat \ T
  <1>1. SUFFICES ASSUME C # {} PROVE FALSE
    OBVIOUS
  <1>2. PICK x \in C : \A y \in C : x <= y
    BY <1>1, Smallest
  <1>3. x # 0 /\ x - 1 \in Nat
    BY <1>2
  <1>4. x - 1 \in T
    BY <1>2, <1>3
  <1>5. QED
    BY <1>2, <1>3, <1>4

\* The values of g are start and then what step makes of the one before.
Follows(g, m, S, start, step) ==
    g \in [0..m -> S] /\ g[0] = start /\ \A k \in 1..m : g[k] = step[<<g[k - 1], k>>]

\* A function defined by recursion over 0..m exists.
LEMMA Recursion ==
  ASSUME NEW m \in Nat, NEW S, NEW start \in S, NEW step \in [S \X (1..m) -> S]
  PROVE  \E g : Follows(g, m, S, start, step)
  <1> DEFINE Defined(g, l) == g[0] = start /\ \A k \in 1..l : g[k] = step[<<g[k - 1], k>>]
             T == {l \in Nat : l <= m => \E g \in [0..l -> S] : Defined(g, l)}
  <1>1. 0 \in T
    <2>1. [k \in 0..0 |-> start] \in [0..0 -> S]
      OBVIOUS
    <2>2. Defined([k \in 0..0 |-> start], 0)
      OBVIOUS
    <2> HIDE DEF Defined
    <2>3. QED
      BY <2>1, <2>2
  <1>2. ASSUME NEW l \in T PROVE l + 1 \in T
    <2>1. SUFFICES ASSUME l + 1 <= m PROVE \E g \in [0..(l + 1) -> S] : Defined(g, l + 1)
      OBVIOUS
    <2>2. l \in Nat /\ l <= m
      BY <2>1
    <2>3. PICK g \in [0..l -> S] : Defined(g, l)
      BY <2>2
    <2> DEFINE h == [k \in 0..(l + 1) |-> IF k = l + 1 THEN step[<<g[l], l + 1>>] ELSE g[k]]
    <2>4. l + 1 \in 1..m /\ l \in 0..l /\ \A k \in 0..(l + 1) : k # l + 1 => k \in 0..l
      BY <2>1, <2>2
    <2>5. step[<<g[l], l + 1>>] \in S
      BY <2>3, <2>4
    <2>6. h \in [0..(l + 1) -> S]
      BY <2>3, <2>4, <2>5
    <2>7. /\ h[l + 1] = step[<<g[l], l + 1>>]
          /\ \A k \in 0..l : h[k] = g[k]
      BY <2>2
    <2>8. \A k \in 1..(l + 1) : h[k] = step[<<h[k - 1], k>>]
      <3>1. SUFFICES ASSUME NEW k \in 1..(l + 1) PROVE h[k] = step[<<h[k - 1], k>>]
        OBVIOUS
      <3> HIDE DEF h
      <3>2. k - 1 \in 0..l
        BY <2>2
      <3>3. CASE k = l + 1
        <4>1. k - 1 = l
          BY <2>2, <3>3
        <4>2. QED
          BY <2>7, <3>2, <3>3, <4>1
      <3>4. CASE k # l + 1
        <4>1. k \in 1..l /\ k \in 0..l
          BY <2>2, <3>4
        <4>2. QED
          BY <2>3, <2>7, <3>2, <4>1
      <3>5. QED
        BY <3>3, <3>4
    <2>9. h[0] = start
      <3>1. 0 \in 0..l
        BY <2>2
      <3> HIDE DEF h
      <3>2. QED
        BY <2>3, <2>7, <3>1
    <2> HIDE DEF h
    <2>10. Defined(h, l + 1)
      BY <2>8, <2>9
    <2> HIDE DEF Defined
    <2>11. QED
      BY <2>6, <2>10
  <1>3. T = Nat
    <2>1. T \in SUBSET Nat
      OBVIOUS
    <2> HIDE DEF T
    <2>2. QED
      BY <1>1, <1>2, <2>1, Induction
  <1>4. m \in T /\ m <= m
    <2> HIDE DEF T
    <2>1. QED
      BY <1>3
  <1>5. \E g \in [0..m -> S] : Defined(g, m)
    <2> HIDE DEF Defined
    <2>1. QED
      BY <1>4
  <1>6. QED
    BY <1>5 DEF Follows


-----------------------------------------------------------------------------
(***************************************************************************)
(* Lists that are put together.                                            *)
(***************************************************************************)

\* A sequence put behind another.
LEMMA Behind ==
  ASSUME NEW S, NEW s \in Seq(S), NEW t \in Seq(S)
  PROVE  /\ s \o t \in Seq(S) /\ Len(s \o t) = Len(s) + Len(t)
         /\ DOMAIN s = 1..Len(s) /\ DOMAIN t = 1..Len(t) /\ DOMAIN (s \o t) = 1..(Len(s) + Len(t))
         /\ Len(s) \in Nat /\ Len(t) \in Nat
         /\ \A k \in 1..Len(s) : (s \o t)[k] = s[k]
         /\ \A k \in 1..Len(t) : (s \o t)[Len(s) + k] = t[k]
         /\ \A k \in DOMAIN (s \o t) : k \in 1..Len(s) \/ \E j \in 1..Len(t) : k = Len(s) + j
  <1>1. Len(s) \in Nat /\ Len(t) \in Nat /\ DOMAIN s = 1..Len(s) /\ DOMAIN t = 1..Len(t)
    OBVIOUS
  <1>2. s \o t \in Seq(S) /\ Len(s \o t) = Len(s) + Len(t) /\ DOMAIN (s \o t) = 1..(Len(s) + Len(t))
    OBVIOUS
  <1>3. \A k \in 1..Len(s) : (s \o t)[k] = s[k]
    OBVIOUS
  <1>4. \A k \in 1..Len(t) : (s \o t)[Len(s) + k] = t[k]
    <2>1. ASSUME NEW k \in 1..Len(t) PROVE (s \o t)[Len(s) + k] = t[k]
      <3>1. Len(s) + k \in 1..(Len(s) + Len(t)) /\ Len(s) + k > Len(s) /\ (Len(s) + k) - Len(s) = k
        BY <1>1
      <3> QED
        BY <3>1
    <2> QED
      BY <2>1
  <1>5. \A k \in DOMAIN (s \o t) : k \in 1..Len(s) \/ \E j \in 1..Len(t) : k = Len(s) + j
    <2>1. ASSUME NEW k \in 1..(Len(s) + Len(t)), k \notin 1..Len(s) PROVE \E j \in 1..Len(t) : k = Len(s) + j
      <3>1. k - Len(s) \in 1..Len(t) /\ k = Len(s) + (k - Len(s))
        BY <1>1, <2>1
      <3> QED
        BY <3>1
    <2> QED
      BY <1>2, <2>1
  <1> QED
    BY <1>1, <1>2, <1>3, <1>4, <1>5

\* It holds what the two hold.
LEMMA NamesBehind ==
  ASSUME NEW S, NEW s \in Seq(S), NEW t \in Seq(S)
  PROVE  Names(s \o t) = Names(s) \cup Names(t)
  <1>1. ASSUME NEW k \in DOMAIN (s \o t) PROVE (s \o t)[k] \in Names(s) \cup Names(t)
    <2>1. CASE k \in 1..Len(s)
      BY <2>1, Behind DEF Names
    <2>2. ASSUME NEW j \in 1..Len(t), k = Len(s) + j PROVE (s \o t)[k] \in Names(s) \cup Names(t)
      BY <2>2, Behind DEF Names
    <2> QED
      BY <2>1, <2>2, Behind
  <1>2. ASSUME NEW k \in DOMAIN s PROVE s[k] \in Names(s \o t)
    <2>1. k \in 1..Len(s) /\ k \in DOMAIN (s \o t) /\ (s \o t)[k] = s[k]
      BY Behind
    <2> QED
      BY <2>1 DEF Names
  <1>3. ASSUME NEW k \in DOMAIN t PROVE t[k] \in Names(s \o t)
    <2>1. k \in 1..Len(t) /\ Len(s) \in Nat /\ Len(t) \in Nat /\ (s \o t)[Len(s) + k] = t[k]
          /\ DOMAIN (s \o t) = 1..(Len(s) + Len(t))
      BY Behind
    <2>2. Len(s) + k \in DOMAIN (s \o t)
      BY <2>1
    <2> QED
      BY <2>1, <2>2 DEF Names
  <1> QED
    BY <1>1, <1>2, <1>3 DEF Names

\* The element x is in s, at one place.
Single(s, x) == \E k \in DOMAIN s : s[k] = x /\ \A j \in DOMAIN s : s[j] = x => j = k

\* What is in one of two lists once, and not in the other, is in both
\* together once.
LEMMA SingleBehind ==
  ASSUME NEW S, NEW s \in Seq(S), NEW t \in Seq(S), NEW x
  PROVE  /\ Single(s, x) /\ x \notin Names(t) => Single(s \o t, x)
         /\ x \notin Names(s) /\ Single(t, x) => Single(s \o t, x)
  <1> DEFINE st == s \o t
  <1>0. /\ Len(s) \in Nat /\ Len(t) \in Nat /\ DOMAIN s = 1..Len(s) /\ DOMAIN t = 1..Len(t)
        /\ DOMAIN st = 1..(Len(s) + Len(t))
        /\ \A k \in 1..Len(s) : st[k] = s[k]
        /\ \A k \in 1..Len(t) : st[Len(s) + k] = t[k]
        /\ \A k \in DOMAIN st : k \in 1..Len(s) \/ \E j \in 1..Len(t) : k = Len(s) + j
    BY Behind
  <1> HIDE DEF st
  <1>1. ASSUME Single(s, x), x \notin Names(t) PROVE Single(st, x)
    <2>1. PICK k \in DOMAIN s : s[k] = x /\ \A j \in DOMAIN s : s[j] = x => j = k
      BY <1>1 DEF Single
    <2>2. k \in DOMAIN st /\ st[k] = x
      BY <1>0, <2>1
    <2>3. ASSUME NEW j \in DOMAIN st, st[j] = x PROVE j = k
      <3>1. CASE j \in 1..Len(s)
        BY <1>0, <2>1, <2>3, <3>1
      <3>2. ASSUME NEW i \in 1..Len(t), j = Len(s) + i PROVE FALSE
        BY <1>0, <1>1, <2>3, <3>2 DEF Names
      <3> QED
        BY <1>0, <3>1, <3>2
    <2> QED
      BY <2>2, <2>3 DEF Single
  <1>2. ASSUME x \notin Names(s), Single(t, x) PROVE Single(st, x)
    <2>1. PICK k \in DOMAIN t : t[k] = x /\ \A j \in DOMAIN t : t[j] = x => j = k
      BY <1>2 DEF Single
    <2>2. Len(s) + k \in DOMAIN st /\ st[Len(s) + k] = x
      BY <1>0, <2>1
    <2>3. ASSUME NEW j \in DOMAIN st, st[j] = x PROVE j = Len(s) + k
      <3>1. CASE j \in 1..Len(s)
        BY <1>0, <1>2, <2>3, <3>1 DEF Names
      <3>2. ASSUME NEW i \in 1..Len(t), j = Len(s) + i PROVE j = Len(s) + k
        BY <1>0, <2>1, <2>3, <3>2
      <3> QED
        BY <1>0, <3>1, <3>2
    <2> QED
      BY <2>2, <2>3 DEF Single
  <1> QED
    BY <1>1, <1>2 DEF st

\* It is counted once.
LEMMA SingleCounted ==
  ASSUME NEW s, NEW x, Single(s, x)
  PROVE  Cardinality({k \in DOMAIN s : s[k] = x}) = 1
  <1>1. PICK k \in DOMAIN s : s[k] = x /\ \A j \in DOMAIN s : s[j] = x => j = k
    BY DEF Single
  <1>2. {j \in DOMAIN s : s[j] = x} = {k}
    BY <1>1
  <1> QED
    BY <1>2, FS_Singleton

-----------------------------------------------------------------------------
(***************************************************************************)
(* Variables.                                                              *)
(***************************************************************************)

Has(env, v) == \E k \in DOMAIN env : env[k][1] = v

\* The last entry of a variable.
LastEntry(env, v, k) == k \in DOMAIN env /\ env[k][1] = v /\ \A j \in DOMAIN env : env[j][1] = v => j <= k

\* The last entry is the one that counts.
LEMMA LastCounts ==
  ASSUME NEW S, NEW env \in Seq(S), NEW v, NEW k, LastEntry(env, v, k)
  PROVE  Effective(env, v) = env[k][2]
  <1> DEFINE at == {j \in DOMAIN env : env[j][1] = v}
             last == CHOOSE i \in at : \A j \in at : j <= i
  <1>1. Effective(env, v) = IF at = {} THEN "unset" ELSE env[last][2]
    BY DEF Effective
  <1>2. k \in at /\ \A j \in at : j <= k
    BY DEF LastEntry
  <1>3. at \subseteq Int
    <2>1. DOMAIN env \subseteq Int
      OBVIOUS
    <2> QED
      BY <2>1
  <1> HIDE DEF at
  <1>4. last \in at /\ \A j \in at : j <= last
    BY <1>2
  <1> HIDE DEF last
  <1>5. last = k
    BY <1>2, <1>3, <1>4
  <1> QED
    BY <1>1, <1>2, <1>5

\* A variable that has an entry has a last one.
LEMMA HasLast ==
  ASSUME NEW S, NEW env \in Seq(S), NEW v, Has(env, v)
  PROVE  \E k : LastEntry(env, v, k)
  <1> DEFINE n == Len(env)
             T == {d \in Nat : \E k \in DOMAIN env : env[k][1] = v /\ d = n - k}
  <1>1. n \in Nat /\ DOMAIN env = 1..n
    OBVIOUS
  <1> HIDE DEF n
  <1>2. PICK k \in DOMAIN env : env[k][1] = v
    BY DEF Has
  <1>3. n - k \in Nat
    BY <1>1
  <1>4. T # {} /\ T \in SUBSET Nat
    BY <1>2, <1>3
  <1>5. PICK d \in T : \A e \in T : d <= e
    <2> HIDE DEF T
    <2> QED
      BY <1>4, Smallest
  <1>6. PICK l \in DOMAIN env : env[l][1] = v /\ d = n - l
    OBVIOUS
  <1>7. ASSUME NEW j \in DOMAIN env, env[j][1] = v PROVE j <= l
    <2>1. n - j \in Nat
      BY <1>1
    <2>2. n - j \in T
      BY <1>7, <2>1
    <2>3. d <= n - j
      <3> HIDE DEF T
      <3> QED
        BY <1>5, <2>2
    <2> QED
      BY <1>1, <1>6, <2>3
  <1> QED
    BY <1>6, <1>7 DEF LastEntry

\* Of two lists the second counts, where it has an entry.
LEMMA EffectiveBehind ==
  ASSUME NEW S, NEW s \in Seq(S), NEW t \in Seq(S), NEW v
  PROVE  /\ Has(s \o t, v) <=> Has(s, v) \/ Has(t, v)
         /\ Has(t, v) => Effective(s \o t, v) = Effective(t, v)
         /\ Has(s, v) /\ ~Has(t, v) => Effective(s \o t, v) = Effective(s, v)
  <1> DEFINE st == s \o t
  <1>0. /\ Len(s) \in Nat /\ Len(t) \in Nat /\ DOMAIN s = 1..Len(s) /\ DOMAIN t = 1..Len(t)
        /\ st \in Seq(S) /\ DOMAIN st = 1..(Len(s) + Len(t))
        /\ \A k \in 1..Len(s) : st[k] = s[k]
        /\ \A k \in 1..Len(t) : st[Len(s) + k] = t[k]
        /\ \A k \in DOMAIN st : k \in 1..Len(s) \/ \E j \in 1..Len(t) : k = Len(s) + j
    BY Behind
  <1> HIDE DEF st
  <1>1. ASSUME Has(t, v) PROVE Has(st, v) /\ Effective(st, v) = Effective(t, v)
    <2>1. PICK k : LastEntry(t, v, k)
      BY <1>1, HasLast
    <2>2. k \in 1..Len(t) /\ t[k][1] = v /\ \A j \in DOMAIN t : t[j][1] = v => j <= k
      BY <1>0, <2>1 DEF LastEntry
    <2>3. Len(s) + k \in DOMAIN st /\ st[Len(s) + k] = t[k]
      BY <1>0, <2>2
    <2>4. ASSUME NEW j \in DOMAIN st, st[j][1] = v PROVE j <= Len(s) + k
      <3>1. CASE j \in 1..Len(s)
        BY <1>0, <2>2, <3>1
      <3>2. ASSUME NEW i \in 1..Len(t), j = Len(s) + i PROVE j <= Len(s) + k
        <4>1. t[i][1] = v
          BY <1>0, <2>4, <3>2
        <4>2. i <= k
          BY <1>0, <2>2, <4>1
        <4>3. k \in Nat /\ i \in Nat /\ Len(s) \in Nat
          BY <1>0, <2>2
        <4> QED
          BY ONLY <3>2, <4>2, <4>3
      <3> QED
        BY <1>0, <3>1, <3>2
    <2>5. LastEntry(st, v, Len(s) + k)
      BY <2>2, <2>3, <2>4 DEF LastEntry
    <2>6. Effective(st, v) = st[Len(s) + k][2]
      BY <1>0, <2>5, LastCounts
    <2>7. Effective(t, v) = t[k][2]
      BY <2>1, LastCounts
    <2>8. Has(st, v)
      BY <2>2, <2>3 DEF Has
    <2> QED
      BY <2>3, <2>6, <2>7, <2>8
  <1>2. ASSUME Has(s, v), ~Has(t, v) PROVE Has(st, v) /\ Effective(st, v) = Effective(s, v)
    <2>1. PICK k : LastEntry(s, v, k)
      BY <1>2, HasLast
    <2>2. k \in 1..Len(s) /\ s[k][1] = v /\ \A j \in DOMAIN s : s[j][1] = v => j <= k
      BY <1>0, <2>1 DEF LastEntry
    <2>3. k \in DOMAIN st /\ st[k] = s[k]
      BY <1>0, <2>2
    <2>4. ASSUME NEW j \in DOMAIN st, st[j][1] = v PROVE j <= k
      <3>1. CASE j \in 1..Len(s)
        BY <1>0, <2>2, <2>4, <3>1
      <3>2. ASSUME NEW i \in 1..Len(t), j = Len(s) + i PROVE FALSE
        BY <1>0, <1>2, <2>4, <3>2 DEF Has
      <3> QED
        BY <1>0, <3>1, <3>2
    <2>5. LastEntry(st, v, k)
      BY <2>2, <2>3, <2>4 DEF LastEntry
    <2>6. Effective(st, v) = st[k][2] /\ Effective(s, v) = s[k][2]
      BY <1>0, <2>1, <2>5, LastCounts
    <2>7. Has(st, v)
      BY <2>2, <2>3 DEF Has
    <2> QED
      BY <2>3, <2>6, <2>7
  <1>3. ASSUME Has(st, v) PROVE Has(s, v) \/ Has(t, v)
    <2>1. PICK k \in DOMAIN st : st[k][1] = v
      BY <1>3 DEF Has
    <2>2. CASE k \in 1..Len(s)
      BY <1>0, <2>1, <2>2 DEF Has
    <2>3. ASSUME NEW i \in 1..Len(t), k = Len(s) + i PROVE Has(t, v)
      BY <1>0, <2>1, <2>3 DEF Has
    <2> QED
      BY <1>0, <2>2, <2>3
  <1> QED
    BY <1>1, <1>2, <1>3 DEF st

-----------------------------------------------------------------------------
(***************************************************************************)
(* The bundles, merged.                                                    *)
(***************************************************************************)

\* What mergeBundles has after the first k bundles.
Merges(g, bs, field, S) ==
    /\ g \in [0..Len(bs) -> Seq(S)] /\ g[0] = <<>>
    /\ \A k \in 1..Len(bs) : bs[k][field] \in Seq(S) /\ g[k] = g[k - 1] \o bs[k][field]

\* The loop of mergeBundles.
LEMMA MergedMerges ==
  ASSUME Len(bundles) \in Nat, NEW S, NEW field, \A k \in 1..Len(bundles) : bundles[k][field] \in Seq(S)
  PROVE  \E g : Merges(g, bundles, field, S) /\ Merged(field) = g[Len(bundles)]
  <1> DEFINE m == Len(bundles)
             add(s, k) == s \o bundles[k][field]
             step == [p \in Seq(S) \X (1..m) |-> add(p[1], p[2])]
             Rec(g) == [k \in 0..m |-> IF k = 0 THEN <<>> ELSE add(g[k - 1], k)]
             upTo == CHOOSE g : g = Rec(g)
  <1>1. m \in Nat /\ <<>> \in Seq(S)
    OBVIOUS
  <1>2. \A s \in Seq(S), k \in 1..m : add(s, k) \in Seq(S)
    OBVIOUS
  <1>3. Merged(field) = upTo[m]
    BY DEF Merged
  <1> HIDE DEF add
  <1>4. step \in [Seq(S) \X (1..m) -> Seq(S)]
    BY <1>2
  <1>5. PICK g : Follows(g, m, Seq(S), <<>>, step)
    <2> HIDE DEF m, step
    <2> QED
      BY <1>1, <1>4, Recursion
  <1>6. g \in [0..m -> Seq(S)] /\ g[0] = <<>> /\ \A k \in 1..m : g[k] = step[<<g[k - 1], k>>]
    BY <1>5 DEF Follows
  <1>7. \A k \in 1..m : g[k] = add(g[k - 1], k)
    <2>1. SUFFICES ASSUME NEW k \in 1..m PROVE g[k] = add(g[k - 1], k)
      OBVIOUS
    <2>2. k - 1 \in 0..m
      BY <1>1
    <2>3. <<g[k - 1], k>> \in Seq(S) \X (1..m)
      BY <1>6, <2>2
    <2>4. step[<<g[k - 1], k>>] = add(g[k - 1], k)
      BY <2>3
    <2> QED
      BY <1>6, <2>4
  <1>8. g = Rec(g)
    <2>1. \A k \in 0..m : k = 0 \/ k \in 1..m
      BY <1>1
    <2>2. \A k \in 0..m : g[k] = IF k = 0 THEN <<>> ELSE add(g[k - 1], k)
      BY <1>6, <1>7, <2>1
    <2>3. g = [k \in 0..m |-> g[k]]
      BY <1>6
    <2> QED
      BY <2>2, <2>3
  <1>9. upTo = Rec(upTo)
    <2> HIDE DEF Rec
    <2> QED
      BY <1>8
  <1>10. DOMAIN upTo = 0..m /\ upTo[0] = <<>> /\ \A k \in 1..m : upTo[k] = add(upTo[k - 1], k)
    <2> HIDE DEF upTo
    <2>1. 0 \in 0..m /\ \A k \in 1..m : k \in 0..m /\ k # 0
      BY <1>1
    <2> QED
      BY <1>9, <2>1
  <1>11. upTo = [k \in 0..m |-> upTo[k]]
    <2> HIDE DEF upTo, m
    <2> QED
      BY <1>9
  <1> DEFINE T == {k \in Nat : k <= m => upTo[k] \in Seq(S)}
  <1> HIDE DEF upTo, Rec, m
  <1>12. 0 \in T
    BY <1>1, <1>10
  <1>13. ASSUME NEW k \in T PROVE k + 1 \in T
    <2>1. SUFFICES ASSUME k + 1 <= m PROVE upTo[k + 1] \in Seq(S)
      OBVIOUS
    <2>2. k + 1 \in 1..m /\ (k + 1) - 1 = k /\ k <= m
      BY <1>1, <2>1
    <2>3. upTo[k] \in Seq(S)
      BY <2>2
    <2> QED
      BY <1>2, <1>10, <2>2, <2>3
  <1>14. T = Nat
    <2>1. T \in SUBSET Nat
      OBVIOUS
    <2> HIDE DEF T
    <2> QED
      BY <1>12, <1>13, <2>1, Induction
  <1>15. \A k \in 0..m : upTo[k] \in Seq(S)
    BY <1>1, <1>14
  <1>16. Merges(upTo, bundles, field, S)
    BY <1>10, <1>11, <1>15 DEF Merges, m, add
  <1> QED
    BY <1>3, <1>16 DEF m

\* What the first k bundles have.
Gathered(bs, field, k) == UNION {Names(bs[l][field]) : l \in 1..k}

\* What each bundle has is in the merged list, and nothing else.
LEMMA MergedNames ==
  ASSUME NEW g, NEW bs, Len(bs) \in Nat, NEW field, NEW S, Merges(g, bs, field, S)
  PROVE  \A k \in 0..Len(bs) : Names(g[k]) = Gathered(bs, field, k)
  <1> DEFINE m == Len(bs)
             All(k) == UNION {Names(bs[l][field]) : l \in 1..k}
             T == {k \in Nat : k <= m => Names(g[k]) = All(k)}
  <1>1. /\ m \in Nat /\ \A k \in 0..m : g[k] \in Seq(S)
        /\ g[0] = <<>> /\ \A k \in 1..m : bs[k][field] \in Seq(S) /\ g[k] = g[k - 1] \o bs[k][field]
    BY DEF Merges
  <1> HIDE DEF m
  <1>2. 0 \in T
    <2>1. Names(g[0]) = {}
      BY <1>1 DEF Names
    <2>2. All(0) = {}
      OBVIOUS
    <2> QED
      BY <2>1, <2>2
  <1>3. ASSUME NEW k \in T PROVE k + 1 \in T
    <2>1. SUFFICES ASSUME k + 1 <= m PROVE Names(g[k + 1]) = All(k + 1)
      OBVIOUS
    <2>2. k + 1 \in 1..m /\ (k + 1) - 1 = k /\ k <= m /\ k \in 0..m
      BY <1>1, <2>1
    <2>3. Names(g[k]) = All(k)
      BY <2>2
    <2>4. Names(g[k + 1]) = Names(g[k]) \cup Names(bs[k + 1][field])
      <3>1. g[k] \in Seq(S) /\ bs[k + 1][field] \in Seq(S) /\ g[k + 1] = g[k] \o bs[k + 1][field]
        BY <1>1, <2>2
      <3> QED
        BY <3>1, NamesBehind
    <2>5. 1..(k + 1) = (1..k) \cup {k + 1}
      OBVIOUS
    <2>6. All(k + 1) = All(k) \cup Names(bs[k + 1][field])
      <3> DEFINE F(l) == Names(bs[l][field])
      <3> HIDE DEF F
      <3>1. UNION {F(l) : l \in 1..(k + 1)} = (UNION {F(l) : l \in 1..k}) \cup F(k + 1)
        BY <2>5
      <3> QED
        BY <3>1 DEF F
    <2> HIDE DEF All
    <2> QED
      BY <2>3, <2>4, <2>6
  <1>4. T = Nat
    <2>1. T \in SUBSET Nat
      OBVIOUS
    <2> HIDE DEF T
    <2> QED
      BY <1>2, <1>3, <2>1, Induction
  <1>5. ASSUME NEW k \in 0..m PROVE Names(g[k]) = All(k)
    <2>1. k \in T /\ k <= m
      <3> HIDE DEF T
      <3> QED
        BY <1>1, <1>4
    <2> HIDE DEF All
    <2> QED
      BY <2>1
  <1> QED
    BY <1>5 DEF m, Gathered

\* What one bundle has once, and no other has, the merged list has once.
LEMMA MergedSingle ==
  ASSUME NEW g, NEW bs, Len(bs) \in Nat, NEW field, NEW S, Merges(g, bs, field, S),
         NEW l \in 1..Len(bs), NEW x, Single(bs[l][field], x),
         \A k \in 1..Len(bs) : k # l => x \notin Names(bs[k][field])
  PROVE  Single(g[Len(bs)], x)
  <1> DEFINE m == Len(bs)
             T == {k \in Nat : k <= m => IF k < l THEN x \notin Names(g[k]) ELSE Single(g[k], x)}
  <1>1. /\ m \in Nat /\ \A k \in 0..m : g[k] \in Seq(S)
        /\ g[0] = <<>> /\ \A k \in 1..m : bs[k][field] \in Seq(S) /\ g[k] = g[k - 1] \o bs[k][field]
        /\ l \in 1..m /\ \A k \in 1..m : k # l => x \notin Names(bs[k][field])
    BY DEF Merges
  <1> HIDE DEF m
  <1>2. 0 \in T
    <2>1. Names(g[0]) = {}
      BY <1>1 DEF Names
    <2> QED
      BY <1>1, <2>1
  <1>3. ASSUME NEW k \in T PROVE k + 1 \in T
    <2>1. SUFFICES ASSUME k + 1 <= m PROVE IF k + 1 < l THEN x \notin Names(g[k + 1]) ELSE Single(g[k + 1], x)
      OBVIOUS
    <2>2. k + 1 \in 1..m /\ (k + 1) - 1 = k /\ k <= m /\ k \in 0..m
      BY <1>1, <2>1
    <2>3. IF k < l THEN x \notin Names(g[k]) ELSE Single(g[k], x)
      BY <2>2
    <2>4. g[k] \in Seq(S) /\ bs[k + 1][field] \in Seq(S) /\ g[k + 1] = g[k] \o bs[k + 1][field]
      BY <1>1, <2>2
    <2>5. Names(g[k + 1]) = Names(g[k]) \cup Names(bs[k + 1][field])
      BY <2>4, NamesBehind
    <2>6. /\ Single(g[k], x) /\ x \notin Names(bs[k + 1][field]) => Single(g[k + 1], x)
          /\ x \notin Names(g[k]) /\ Single(bs[k + 1][field], x) => Single(g[k + 1], x)
      BY <2>4, SingleBehind
    <2>7. CASE k + 1 < l
      BY <1>1, <2>2, <2>3, <2>5, <2>7
    <2>8. CASE k + 1 = l
      BY <1>1, <2>2, <2>3, <2>6, <2>8
    <2>9. CASE k + 1 > l
      BY <1>1, <2>2, <2>3, <2>6, <2>9
    <2> QED
      BY <1>1, <2>2, <2>7, <2>8, <2>9
  <1>4. T = Nat
    <2>1. T \in SUBSET Nat
      OBVIOUS
    <2> HIDE DEF T
    <2> QED
      BY <1>2, <1>3, <2>1, Induction
  <1>5. m \in T /\ m <= m /\ ~(m < l)
    <2> HIDE DEF T
    <2> QED
      BY <1>1, <1>4
  <1>6. Single(g[m], x)
    BY <1>5
  <1> QED
    BY <1>6 DEF m

\* Of the merged variables the entry of the last bundle that has one counts.
LEMMA MergedLast ==
  ASSUME NEW g, NEW bs, Len(bs) \in Nat, NEW S, Merges(g, bs, "env", S),
         NEW l \in 1..Len(bs), NEW v, Has(bs[l].env, v),
         \A k \in 1..Len(bs) : k > l => ~Has(bs[k].env, v)
  PROVE  Has(g[Len(bs)], v) /\ Effective(g[Len(bs)], v) = Effective(bs[l].env, v)
  <1> DEFINE m == Len(bs)
             Right(k) == Has(g[k], v) /\ Effective(g[k], v) = Effective(bs[l].env, v)
             T == {k \in Nat : l <= k /\ k <= m => Right(k)}
  <1>1. /\ m \in Nat /\ \A k \in 0..m : g[k] \in Seq(S)
        /\ \A k \in 1..m : bs[k].env \in Seq(S) /\ g[k] = g[k - 1] \o bs[k].env
        /\ l \in 1..m /\ \A k \in 1..m : k > l => ~Has(bs[k].env, v)
    BY DEF Merges
  <1> HIDE DEF m
  <1>2. 0 \in T
    BY <1>1
  <1>3. ASSUME NEW k \in T PROVE k + 1 \in T
    <2>1. SUFFICES ASSUME l <= k + 1, k + 1 <= m PROVE Right(k + 1)
      OBVIOUS
    <2>2. k + 1 \in 1..m /\ (k + 1) - 1 = k /\ k <= m /\ k \in 0..m
      BY <1>1, <2>1
    <2>3. g[k] \in Seq(S) /\ bs[k + 1].env \in Seq(S) /\ g[k + 1] = g[k] \o bs[k + 1].env
      BY <1>1, <2>2
    <2>4. LET t == bs[k + 1].env
          IN  /\ Has(g[k + 1], v) <=> Has(g[k], v) \/ Has(t, v)
              /\ Has(t, v) => Effective(g[k + 1], v) = Effective(t, v)
              /\ Has(g[k], v) /\ ~Has(t, v) => Effective(g[k + 1], v) = Effective(g[k], v)
      BY <2>3, EffectiveBehind
    <2>5. CASE k + 1 = l
      BY <2>4, <2>5
    <2>6. CASE k + 1 > l
      <3>1. l <= k /\ ~Has(bs[k + 1].env, v)
        BY <1>1, <2>2, <2>6
      <3>2. Right(k)
        BY <2>2, <3>1
      <3> QED
        BY <2>4, <3>1, <3>2
    <2> QED
      BY <1>1, <2>1, <2>5, <2>6
  <1>4. T = Nat
    <2>1. T \in SUBSET Nat
      OBVIOUS
    <2> HIDE DEF T
    <2> QED
      BY <1>2, <1>3, <2>1, Induction
  <1>5. m \in T /\ m <= m /\ l <= m
    <2> HIDE DEF T
    <2> QED
      BY <1>1, <1>4
  <1>6. Right(m)
    <2> HIDE DEF Right
    <2> QED
      BY <1>5
  <1> QED
    BY <1>6 DEF m

\* Three lists, as sequences over one set.
LEMMA OneSet ==
  ASSUME NEW r, NEW s, NEW t, IsSequence(r), IsSequence(s), IsSequence(t)
  PROVE  \E S : r \in Seq(S) /\ s \in Seq(S) /\ t \in Seq(S)
  <1> DEFINE S == Names(r) \cup Names(s) \cup Names(t)
  <1>1. Names(r) \subseteq S /\ Names(s) \subseteq S /\ Names(t) \subseteq S
    OBVIOUS
  <1>2. r \in Seq(Names(r)) /\ s \in Seq(Names(s)) /\ t \in Seq(Names(t))
    BY DEF IsSequence
  <1> HIDE DEF S
  <1>3. r \in Seq(S) /\ s \in Seq(S) /\ t \in Seq(S)
    BY <1>1, <1>2
  <1> QED
    BY <1>3

\* A sequence over any set is one over its elements.
LEMMA OwnSet ==
  ASSUME NEW S, NEW s \in Seq(S)
  PROVE  IsSequence(s)
  <1>1. DOMAIN s = 1..Len(s) /\ Len(s) \in Nat
    OBVIOUS
  <1>2. \A k \in 1..Len(s) : s[k] \in Names(s)
    BY <1>1 DEF Names
  <1>3. s \in Seq(Names(s))
    BY <1>1, <1>2
  <1> QED
    BY <1>3 DEF IsSequence

\* The bundles fetched so far.
Fetched(bs, p) ==
    /\ bs \in Seq({BundleOf[p.bundles[k]] : k \in DOMAIN p.bundles}) /\ Len(bs) <= Len(p.bundles)
    /\ \A k \in 1..Len(bs) : bs[k] = BundleOf[p.bundles[k]]

\* BundleEnv and FromBundles, for profile p.
EnvOf(p) == UNION {{BundleOf[p.bundles[k]].env[j][1] : j \in DOMAIN BundleOf[p.bundles[k]].env} : k \in DOMAIN p.bundles}

LastValue(p, v) ==
    LET has == {k \in DOMAIN p.bundles : Effective(BundleOf[p.bundles[k]].env, v) # "unset"}
    IN  Effective(BundleOf[p.bundles[CHOOSE k \in has : \A j \in has : j <= k]].env, v)

\* What the merged lists vs, ms and es of profile p have to have.
MergedOf(p, vs, ms, es) ==
    /\ IsSequence(vs) /\ IsSequence(ms) /\ IsSequence(es)
    /\ Names(vs) = UNION {Names(BundleOf[p.bundles[k]].volumes) : k \in DOMAIN p.bundles}
    /\ Names(ms) = UNION {Names(BundleOf[p.bundles[k]].mounts) : k \in DOMAIN p.bundles}
    /\ \A k \in DOMAIN p.bundles : \A x \in Names(BundleOf[p.bundles[k]].mounts) : Single(ms, x)
    /\ \A v \in EnvOf(p) : Has(es, v) /\ Effective(es, v) = LastValue(p, v)

\* One of the lists.
LEMMA FieldMerged ==
  ASSUME NEW p \in Profiles, Fetched(bundles, p), Len(bundles) = Len(p.bundles), NEW field \in {"volumes", "mounts", "env"}
  PROVE  /\ IsSequence(Merged(field))
         /\ \E g, S : Merges(g, bundles, field, S) /\ Merged(field) = g[Len(bundles)]
         /\ Names(Merged(field)) = UNION {Names(BundleOf[p.bundles[k]][field]) : k \in DOMAIN p.bundles}
  <1> DEFINE n == Len(bundles)
             S == UNION {Names(bundles[k][field]) : k \in 1..n}
  <1>1. n \in Nat /\ DOMAIN p.bundles = 1..n /\ \A k \in 1..n : bundles[k] = BundleOf[p.bundles[k]]
    BY BundlesAssumption DEF Fetched, IsSequence
  <1>2. \A k \in 1..n : bundles[k][field] \in Seq(Names(bundles[k][field]))
    BY <1>1, BundlesAssumption DEF Bundlelike, IsSequence
  <1>3. \A k \in 1..n : bundles[k][field] \in Seq(S)
    <2>1. ASSUME NEW k \in 1..n PROVE bundles[k][field] \in Seq(S)
      <3>1. Names(bundles[k][field]) \subseteq S
        OBVIOUS
      <3> HIDE DEF S
      <3> QED
        BY <1>2, <3>1
    <2> QED
      BY <2>1
  <1> HIDE DEF S
  <1>4. PICK g : Merges(g, bundles, field, S) /\ Merged(field) = g[n]
    BY <1>1, <1>3, MergedMerges
  <1>5. Merged(field) \in Seq(S)
    BY <1>1, <1>4 DEF Merges
  <1>6. Names(Merged(field)) = UNION {Names(bundles[k][field]) : k \in 1..n}
    <2>1. \A k \in 0..n : Names(g[k]) = Gathered(bundles, field, k)
      BY <1>1, <1>4, MergedNames
    <2>2. n \in 0..n
      BY <1>1
    <2> QED
      BY <1>4, <2>1, <2>2 DEF Gathered
  <1>7. {Names(bundles[k][field]) : k \in 1..n} = {Names(BundleOf[p.bundles[k]][field]) : k \in DOMAIN p.bundles}
    BY <1>1
  <1> QED
    BY <1>4, <1>5, <1>6, <1>7, OwnSet

\* mergeBundles: nothing is lost, nothing is doubled, and of the variables
\* the last bundle's count.
LEMMA BundlesMerged ==
  ASSUME NEW p \in Profiles, Fetched(bundles, p), Len(bundles) = Len(p.bundles)
  PROVE  MergedOf(p, Merged("volumes"), Merged("mounts"), Merged("env"))
  <1> DEFINE n == Len(bundles)
             b(k) == BundleOf[p.bundles[k]]
  <1>1. n \in Nat /\ DOMAIN p.bundles = 1..n /\ \A k \in 1..n : bundles[k] = b(k)
    BY BundlesAssumption DEF Fetched, IsSequence
  <1>2. \A k \in 1..n : Bundlelike(b(k))
    BY <1>1, BundlesAssumption
  <1>3. \A k, l \in 1..n : k # l => Apart(b(k).volumes, b(l).volumes)
    BY <1>1, BundlesAssumption
  <1>4. ASSUME NEW k \in DOMAIN p.bundles, NEW x \in Names(b(k).mounts) PROVE Single(Merged("mounts"), x)
    <2>1. PICK g, S : Merges(g, bundles, "mounts", S) /\ Merged("mounts") = g[n]
      BY FieldMerged
    <2>2. k \in 1..n /\ bundles[k].mounts = b(k).mounts
      BY <1>1
    <2>3. Single(bundles[k].mounts, x)
      BY <1>2, <2>2 DEF Bundlelike, Single, Names
    <2>4. ASSUME NEW l \in 1..n, l # k PROVE x \notin Names(bundles[l].mounts)
      BY <1>1, <1>2, <1>3, <2>2, <2>4 DEF Bundlelike, Apart
    <2>5. Single(g[n], x)
      <3>1. n \in Nat /\ k \in 1..n /\ Merges(g, bundles, "mounts", S) /\ Single(bundles[k]["mounts"], x)
        BY <1>1, <2>1, <2>2, <2>3
      <3>2. \A l \in 1..n : l # k => x \notin Names(bundles[l]["mounts"])
        BY <2>4
      <3> QED
        BY ONLY <3>1, <3>2, MergedSingle
    <2> QED
      BY <2>1, <2>5
  <1>5. ASSUME NEW v \in EnvOf(p) PROVE Has(Merged("env"), v) /\ Effective(Merged("env"), v) = LastValue(p, v)
    <2> DEFINE has == {k \in 1..n : Effective(b(k).env, v) # "unset"}
               last == CHOOSE k \in has : \A j \in has : j <= k
    <2>1. PICK g, S : Merges(g, bundles, "env", S) /\ Merged("env") = g[n]
      BY FieldMerged
    <2>2. ASSUME NEW k \in 1..n PROVE Effective(b(k).env, v) # "unset" <=> Has(b(k).env, v)
      <3> DEFINE env == b(k).env
      <3>1. env \in Seq(Names(env)) /\ \A j \in DOMAIN env : env[j][2] # "unset"
        BY <1>2 DEF Bundlelike, IsSequence
      <3> HIDE DEF env
      <3>2. CASE Has(env, v)
        <4>1. PICK j : LastEntry(env, v, j)
          BY <3>1, <3>2, HasLast
        <4>2. Effective(env, v) = env[j][2] /\ j \in DOMAIN env
          BY <3>1, <4>1, LastCounts DEF LastEntry
        <4> QED
          BY <3>1, <3>2, <4>2 DEF env
      <3>3. CASE ~Has(env, v)
        <4>1. Effective(env, v) = "unset"
          BY <3>3 DEF Effective, Has
        <4> QED
          BY <3>3, <4>1 DEF env
      <3> QED
        BY <3>2, <3>3
    <2>3. \E k \in 1..n : Has(b(k).env, v)
      <3>1. PICK k \in DOMAIN p.bundles : v \in {b(k).env[j][1] : j \in DOMAIN b(k).env}
        BY DEF EnvOf
      <3> QED
        BY <1>1, <3>1 DEF Has
    <2>4. LastValue(p, v) = Effective(b(last).env, v)
      BY <1>1 DEF LastValue
    <2>5. has # {} /\ \A k \in 1..n : k \in has <=> Has(b(k).env, v)
      BY <2>2, <2>3
    <2>6. has \subseteq 1..n
      OBVIOUS
    <2> HIDE DEF has
    <2>7. \E k \in has : \A j \in has : j <= k
      <3> DEFINE T == {d \in Nat : \E k \in has : d = n - k}
      <3>1. PICK k \in has : TRUE
        BY <2>5
      <3>2. n - k \in Nat
        BY <1>1, <2>6
      <3>3. T # {} /\ T \in SUBSET Nat
        BY <3>2
      <3>4. PICK d \in T : \A e \in T : d <= e
        <4> HIDE DEF T
        <4> QED
          BY <3>3, Smallest
      <3>5. PICK l \in has : d = n - l
        OBVIOUS
      <3>6. ASSUME NEW j \in has PROVE j <= l
        <4>1. n - j \in Nat /\ j \in Int /\ l \in Int
          BY <1>1, <2>6
        <4>2. n - j \in T
          BY <4>1
        <4>3. d <= n - j
          <5> HIDE DEF T
          <5> QED
            BY <3>4, <4>2
        <4> QED
          BY <1>1, <3>5, <4>1, <4>3
      <3> QED
        BY <3>6
    <2>8. last \in has /\ \A j \in has : j <= last
      BY <2>7
    <2> HIDE DEF last
    <2>9. last \in 1..n /\ bundles[last].env = b(last).env
      BY <1>1, <2>6, <2>8
    <2>10. Has(bundles[last].env, v)
      BY <2>5, <2>8, <2>9
    <2>11. ASSUME NEW k \in 1..n, k > last PROVE ~Has(bundles[k].env, v)
      <3>1. k \notin has
        BY <2>8, <2>9, <2>11
      <3> QED
        BY <1>1, <2>5, <3>1
    <2>12. Has(g[n], v) /\ Effective(g[n], v) = Effective(bundles[last].env, v)
      <3>1. n \in Nat /\ last \in 1..n /\ Merges(g, bundles, "env", S) /\ Has(bundles[last].env, v)
        BY <1>1, <2>1, <2>9, <2>10
      <3>2. \A k \in 1..n : k > last => ~Has(bundles[k].env, v)
        BY <2>11
      <3> QED
        BY ONLY <3>1, <3>2, MergedLast
    <2> QED
      BY <2>1, <2>4, <2>9, <2>12
  <1> QED
    BY <1>4, <1>5, FieldMerged DEF MergedOf

-----------------------------------------------------------------------------
(***************************************************************************)
(* Containers and pods, made of those of a template.                       *)
(***************************************************************************)

\* Container c is container o of the template with the merged lists, and extra
\* mounts behind them.
FromTemplate(c, o, ms, es, extra) ==
    /\ c.mounts = (o.mounts \o ms) \o extra
    /\ c.env = (o.env \o es) \o additionalEnvironmentVariables
    /\ c.command = "entrypoint" => extra = SlurmMounts

\* Pod new is pod old of the template, served; a Slurm pod has more volumes,
\* and a container of kjob's own.
MadeOf(new, old, vs, ms, es) ==
    \E more \in {<<>>, SlurmMounts} :
        /\ new.volumes = (old.volumes \o vs) \o more
        /\ \A c \in Containers(new) :
              \/ more = SlurmMounts /\ c = SlurmInit
              \/ \E o \in Containers(old) : \E extra \in {<<>>, more} : FromTemplate(c, o, ms, es, extra)

\* What ContainersServed says of a container.
GoodContainer(c, volumes, p) ==
    /\ \A k \in DOMAIN c.mounts : \E j \in DOMAIN volumes : volumes[j] = c.mounts[k]
    /\ c.name # SlurmInit.name =>
          /\ \A k \in DOMAIN p.bundles :
                LET want == BundleOf[p.bundles[k]].mounts
                IN  \A j \in DOMAIN want : Cardinality({i \in DOMAIN c.mounts : c.mounts[i] = want[j]}) = 1
          /\ \A k \in DOMAIN KjobEnv : Effective(c.env, KjobEnv[k]) = "kjob"
          /\ \A v \in EnvOf(p) \ {KjobEnv[k] : k \in DOMAIN KjobEnv} : Effective(c.env, v) = LastValue(p, v)
    /\ c.command = "entrypoint" => \E k \in DOMAIN c.mounts : c.mounts[k] = "slurm-scripts"

\* kjob's own variables and mounts.
LEMMA KjobsOwn ==
  /\ IsSequence(SlurmMounts) /\ IsSequence(<<>>) /\ Names(<<>>) = {} /\ Names(SlurmMounts) = {"slurm-scripts", "slurm-env"}
  /\ IsSequence(additionalEnvironmentVariables)
  /\ \A k \in DOMAIN KjobEnv : Has(additionalEnvironmentVariables, KjobEnv[k])
                               /\ Effective(additionalEnvironmentVariables, KjobEnv[k]) = "kjob"
  /\ \A v : Has(additionalEnvironmentVariables, v) => v \in {KjobEnv[k] : k \in DOMAIN KjobEnv}
  <1> DEFINE K == additionalEnvironmentVariables
  <1>1. /\ SlurmMounts \in Seq({"slurm-scripts", "slurm-env"})
        /\ Names(SlurmMounts) = {"slurm-scripts", "slurm-env"}
    <2>1. DOMAIN SlurmMounts = 1..2 /\ SlurmMounts[1] = "slurm-scripts" /\ SlurmMounts[2] = "slurm-env"
      BY DEF SlurmMounts
    <2>2. SlurmMounts \in Seq({"slurm-scripts", "slurm-env"})
      BY DEF SlurmMounts
    <2>3. 1..2 = {1, 2}
      OBVIOUS
    <2> QED
      BY <2>1, <2>2, <2>3 DEF Names
  <1>2. <<>> \in Seq({}) /\ Names(<<>>) = {}
    BY DEF Names
  <1>3. Len(KjobEnv) = 5 /\ DOMAIN KjobEnv = 1..5
    BY DEF KjobEnv
  <1>4. \A j, k \in 1..5 : KjobEnv[j] = KjobEnv[k] => j = k
    BY DEF KjobEnv
  <1>5. DOMAIN K = 1..5 /\ \A k \in 1..5 : K[k] = <<KjobEnv[k], "kjob">>
    BY <1>3 DEF additionalEnvironmentVariables
  <1>6. K \in Seq({<<KjobEnv[k], "kjob">> : k \in 1..5})
    BY <1>3 DEF additionalEnvironmentVariables
  <1> HIDE DEF K
  <1>7. \A k \in 1..5 : K[k][1] = KjobEnv[k] /\ K[k][2] = "kjob"
    BY <1>5
  <1>8. ASSUME NEW k \in DOMAIN KjobEnv PROVE Has(K, KjobEnv[k]) /\ Effective(K, KjobEnv[k]) = "kjob"
    <2>1. k \in 1..5
      BY <1>3
    <2>2. LastEntry(K, KjobEnv[k], k)
      BY <1>4, <1>5, <1>7, <2>1 DEF LastEntry
    <2>3. Effective(K, KjobEnv[k]) = K[k][2]
      BY <1>6, <2>2, LastCounts
    <2> QED
      BY <1>5, <1>7, <2>1, <2>3 DEF Has
  <1>9. \A v : Has(K, v) => v \in {KjobEnv[k] : k \in DOMAIN KjobEnv}
    BY <1>3, <1>5, <1>7 DEF Has
  <1>10. IsSequence(SlurmMounts) /\ IsSequence(<<>>) /\ IsSequence(K)
    BY <1>1, <1>2, <1>6, OwnSet
  <1> QED
    BY <1>1, <1>2, <1>8, <1>9, <1>10 DEF K

\* Three lists together hold what the three hold.
LEMMA NamesOfThree ==
  ASSUME NEW r, NEW s, NEW t, IsSequence(r), IsSequence(s), IsSequence(t)
  PROVE  Names((r \o s) \o t) = Names(r) \cup Names(s) \cup Names(t)
  <1>1. PICK S : r \in Seq(S) /\ s \in Seq(S) /\ t \in Seq(S)
    BY OneSet
  <1> DEFINE rs == r \o s
  <1>2. Names(rs) = Names(r) \cup Names(s) /\ rs \in Seq(S)
    BY <1>1, NamesBehind
  <1> HIDE DEF rs
  <1>3. Names(rs \o t) = Names(rs) \cup Names(t)
    BY <1>1, <1>2, NamesBehind
  <1> QED
    BY <1>2, <1>3 DEF rs

\* What is in the middle one of three lists, and once, and in no other, is in
\* all three together once.
LEMMA SingleOfThree ==
  ASSUME NEW r, NEW s, NEW t, IsSequence(r), IsSequence(s), IsSequence(t),
         NEW x, Single(s, x), x \notin Names(r), x \notin Names(t)
  PROVE  Single((r \o s) \o t, x)
  <1>1. PICK S : r \in Seq(S) /\ s \in Seq(S) /\ t \in Seq(S)
    BY OneSet
  <1>2. Single(r \o s, x) /\ r \o s \in Seq(S)
    BY <1>1, SingleBehind
  <1> QED
    BY <1>1, <1>2, SingleBehind

\* Of three lists of variables the last that has an entry counts.
LEMMA EffectiveOfThree ==
  ASSUME NEW r, NEW s, NEW t, IsSequence(r), IsSequence(s), IsSequence(t), NEW v
  PROVE  /\ Has(t, v) => Effective((r \o s) \o t, v) = Effective(t, v)
         /\ Has(s, v) /\ ~Has(t, v) => Effective((r \o s) \o t, v) = Effective(s, v)
  <1>1. PICK S : r \in Seq(S) /\ s \in Seq(S) /\ t \in Seq(S)
    BY OneSet
  <1>2. r \o s \in Seq(S)
    BY <1>1
  <1> DEFINE rs == r \o s
  <1>3. Has(s, v) => Has(rs, v) /\ Effective(rs, v) = Effective(s, v)
    BY <1>1, EffectiveBehind
  <1>4. rs \in Seq(S)
    BY <1>2
  <1> HIDE DEF rs
  <1>5. /\ Has(t, v) => Effective(rs \o t, v) = Effective(t, v)
        /\ Has(rs, v) /\ ~Has(t, v) => Effective(rs \o t, v) = Effective(rs, v)
    BY <1>1, <1>4, EffectiveBehind
  <1> QED
    BY <1>3, <1>5 DEF rs

\* A container made of a template's is served.
LEMMA ContainerMade ==
  ASSUME NEW p \in Profiles, NEW vs, NEW ms, NEW es, MergedOf(p, vs, ms, es),
         NEW old, Runnable(old), NEW new, MadeOf(new, old, vs, ms, es), NEW c \in Containers(new)
  PROVE  GoodContainer(c, new.volumes, p)
  <1> DEFINE b(k) == BundleOf[p.bundles[k]]
             V == new.volumes
  <1>1. PICK more \in {<<>>, SlurmMounts} :
          /\ V = (old.volumes \o vs) \o more
          /\ \/ more = SlurmMounts /\ c = SlurmInit
             \/ \E o \in Containers(old) : \E extra \in {<<>>, more} : FromTemplate(c, o, ms, es, extra)
    BY DEF MadeOf
  <1> HIDE DEF V
  <1>2. IsSequence(more) /\ IsSequence(old.volumes) /\ IsSequence(vs) /\ IsSequence(ms) /\ IsSequence(es)
    BY <1>1, KjobsOwn DEF Runnable, MergedOf
  <1>3. Names(V) = Names(old.volumes) \cup Names(vs) \cup Names(more)
    BY <1>1, <1>2, NamesOfThree
  <1>4. ASSUME NEW m, Names(m) \subseteq Names(V) PROVE \A k \in DOMAIN m : \E j \in DOMAIN V : V[j] = m[k]
    <2>1. ASSUME NEW k \in DOMAIN m PROVE \E j \in DOMAIN V : V[j] = m[k]
      <3>1. m[k] \in Names(m)
        BY DEF Names
      <3>2. m[k] \in Names(V)
        BY <1>4, <3>1
      <3> QED
        BY <3>2 DEF Names
    <2> QED
      BY <2>1
  <1>5. CASE more = SlurmMounts /\ c = SlurmInit
    <2>1. c.mounts = SlurmMounts /\ c.name = SlurmInit.name /\ c.command = "init"
      BY <1>5 DEF SlurmInit
    <2>2. \A k \in DOMAIN c.mounts : \E j \in DOMAIN V : V[j] = c.mounts[k]
      BY <1>3, <1>4, <1>5, <2>1
    <2> QED
      BY <2>1, <2>2 DEF GoodContainer, V
  <1>6. ASSUME NEW o \in Containers(old), NEW extra \in {<<>>, more}, FromTemplate(c, o, ms, es, extra)
        PROVE  GoodContainer(c, V, p)
    <2>1. /\ c.mounts = (o.mounts \o ms) \o extra
          /\ c.env = (o.env \o es) \o additionalEnvironmentVariables
          /\ c.command = "entrypoint" => extra = SlurmMounts
      BY <1>6 DEF FromTemplate
    <2>2. /\ IsSequence(o.mounts) /\ IsSequence(o.env) /\ Names(o.mounts) \subseteq Names(old.volumes)
          /\ \A k \in DOMAIN p.bundles : Apart(old.volumes, b(k).volumes)
      BY DEF Runnable
    <2>3. \A k \in DOMAIN p.bundles : Names(b(k).mounts) \subseteq Names(b(k).volumes) /\ Apart(b(k).volumes, SlurmMounts)
      BY BundlesAssumption DEF Bundlelike
    <2>4. IsSequence(extra) /\ IsSequence(additionalEnvironmentVariables) /\ extra \in {<<>>, SlurmMounts}
      BY <1>1, KjobsOwn
    <2>5. Names(c.mounts) = Names(o.mounts) \cup Names(ms) \cup Names(extra)
      BY <1>2, <2>1, <2>2, <2>4, NamesOfThree
    <2>6. Names(ms) \subseteq Names(vs)
      <3>1. Names(ms) = UNION {Names(b(k).mounts) : k \in DOMAIN p.bundles}
        BY DEF MergedOf
      <3>2. Names(vs) = UNION {Names(b(k).volumes) : k \in DOMAIN p.bundles}
        BY DEF MergedOf
      <3> QED
        BY <2>3, <3>1, <3>2
    <2>7. Names(extra) \subseteq Names(more)
      BY KjobsOwn
    <2>8. \A k \in DOMAIN c.mounts : \E j \in DOMAIN V : V[j] = c.mounts[k]
      <3>1. Names(c.mounts) \subseteq Names(V)
        BY <1>3, <2>2, <2>5, <2>6, <2>7
      <3> QED
        BY <1>4, <3>1
    <2>9. ASSUME NEW k \in DOMAIN p.bundles, NEW j \in DOMAIN b(k).mounts
          PROVE  Cardinality({i \in DOMAIN c.mounts : c.mounts[i] = b(k).mounts[j]}) = 1
      <3> DEFINE x == b(k).mounts[j]
      <3>1. x \in Names(b(k).mounts)
        BY DEF Names
      <3>2. Single(ms, x)
        BY <3>1 DEF MergedOf
      <3>3. x \in Names(b(k).volumes) /\ x \notin Names(SlurmMounts)
        BY <2>3, <3>1 DEF Apart
      <3>4. x \notin Names(o.mounts)
        BY <2>2, <3>3 DEF Apart
      <3>5. x \notin Names(extra)
        BY <2>4, <3>3, KjobsOwn
      <3> HIDE DEF x
      <3>6. Single(c.mounts, x)
        BY <1>2, <2>1, <2>2, <2>4, <3>2, <3>4, <3>5, SingleOfThree
      <3> QED
        BY <3>6, SingleCounted DEF x
    <2>10. ASSUME NEW k \in DOMAIN KjobEnv PROVE Effective(c.env, KjobEnv[k]) = "kjob"
      BY <1>2, <2>1, <2>2, <2>4, KjobsOwn, EffectiveOfThree
    <2>11. ASSUME NEW v \in EnvOf(p) \ {KjobEnv[k] : k \in DOMAIN KjobEnv} PROVE Effective(c.env, v) = LastValue(p, v)
      <3>1. ~Has(additionalEnvironmentVariables, v)
        BY KjobsOwn
      <3>2. Has(es, v) /\ Effective(es, v) = LastValue(p, v)
        BY DEF MergedOf
      <3> QED
        BY <1>2, <2>1, <2>2, <2>4, <3>1, <3>2, EffectiveOfThree
    <2>12. c.command = "entrypoint" => \E k \in DOMAIN c.mounts : c.mounts[k] = "slurm-scripts"
      <3>1. c.command = "entrypoint" => "slurm-scripts" \in Names(c.mounts)
        BY <2>1, <2>5, KjobsOwn
      <3> QED
        BY <3>1 DEF Names
    <2> QED
      BY <2>8, <2>9, <2>10, <2>11, <2>12 DEF GoodContainer
  <1> QED
    BY <1>1, <1>5, <1>6 DEF V

\* Container c is container o of the template with the merged lists.
Plainly(c, o, ms, es) ==
    /\ DOMAIN c = DOMAIN o /\ c.mounts = o.mounts \o ms
    /\ c.env = (o.env \o es) \o additionalEnvironmentVariables /\ c.command # "entrypoint"

\* Pod new is pod old with the merged lists in every container.
Filled(new, old, vs, ms, es) ==
    /\ DOMAIN new = DOMAIN old /\ new.volumes = old.volumes \o vs
    /\ IsSequence(new.containers) /\ DOMAIN new.containers = DOMAIN old.containers
    /\ IsSequence(new.inits) /\ DOMAIN new.inits = DOMAIN old.inits
    /\ \A k \in DOMAIN old.containers : Plainly(new.containers[k], old.containers[k], ms, es)
    /\ \A k \in DOMAIN old.inits : Plainly(new.inits[k], old.inits[k], ms, es)

\* Nothing more is behind the lists.
LEMMA NothingMore ==
  ASSUME NEW s, NEW t, IsSequence(s), IsSequence(t)
  PROVE  (s \o t) \o <<>> = s \o t
  <1>1. PICK S : s \in Seq(S) /\ t \in Seq(S)
    BY OneSet
  <1>2. s \o t \in Seq(S)
    BY <1>1
  <1> QED
    BY <1>2

\* A filled pod is made of its template.
LEMMA FilledMade ==
  ASSUME NEW vs, NEW ms, NEW es, IsSequence(vs), IsSequence(ms), IsSequence(es),
         NEW old, Runnable(old), NEW new, Filled(new, old, vs, ms, es)
  PROVE  MadeOf(new, old, vs, ms, es)
  <1>1. \A o \in Containers(old) : IsSequence(o.mounts)
    BY DEF Runnable
  <1>2. new.volumes = (old.volumes \o vs) \o <<>>
    BY NothingMore DEF Runnable, Filled
  <1>3. ASSUME NEW c, NEW o \in Containers(old), Plainly(c, o, ms, es) PROVE FromTemplate(c, o, ms, es, <<>>)
    BY <1>1, <1>3, NothingMore DEF FromTemplate, Plainly
  <1>4. ASSUME NEW c \in Containers(new) PROVE \E o \in Containers(old) : Plainly(c, o, ms, es)
    <2>1. CASE \E k \in DOMAIN new.containers : c = new.containers[k]
      BY <2>1 DEF Filled, Containers
    <2>2. CASE \E k \in DOMAIN new.inits : c = new.inits[k]
      BY <2>2 DEF Filled, Containers
    <2> QED
      BY <2>1, <2>2 DEF Containers
  <1>5. ASSUME NEW c \in Containers(new)
        PROVE  \E o \in Containers(old) : \E extra \in {<<>>, <<>>} : FromTemplate(c, o, ms, es, extra)
    BY <1>3, <1>4
  <1> QED
    BY <1>2, <1>5 DEF MadeOf

\* A function on the positions of a sequence is a sequence.
LEMMA Positions ==
  ASSUME NEW s, IsSequence(s), NEW f, DOMAIN f = DOMAIN s, f = [k \in DOMAIN f |-> f[k]]
  PROVE  IsSequence(f)
  <1>1. DOMAIN s = 1..Len(s) /\ Len(s) \in Nat
    BY DEF IsSequence
  <1>2. \A k \in 1..Len(s) : f[k] \in Names(f)
    BY <1>1 DEF Names
  <1>3. f \in Seq(Names(f))
    BY <1>1, <1>2
  <1> QED
    BY <1>3 DEF IsSequence

\* buildPodSpecVolumesAndEnv fills a pod.
LEMMA PodFilled ==
  ASSUME NEW pod, Runnable(pod)
  PROVE  Filled(buildPodSpecVolumesAndEnv(pod), pod, Merged("volumes"), Merged("mounts"), Merged("env"))
  <1> DEFINE vs == Merged("volumes")
             ms == Merged("mounts")
             es == Merged("env")
             served(c) == [c EXCEPT !.mounts = @ \o ms, !.env = @ \o es \o additionalEnvironmentVariables]
             new == buildPodSpecVolumesAndEnv(pod)
  <1>1. new = [pod EXCEPT !.volumes = @ \o vs,
                          !.containers = [k \in DOMAIN @ |-> served(@[k])],
                          !.inits = [k \in DOMAIN @ |-> served(@[k])]]
    BY DEF buildPodSpecVolumesAndEnv
  <1>2. ASSUME NEW c, {"mounts", "env", "command"} \subseteq DOMAIN c, c.command # "entrypoint"
        PROVE  Plainly(served(c), c, ms, es)
    BY <1>2 DEF Plainly
  <1> HIDE DEF served, new, vs, ms, es
  <1>3. /\ DOMAIN new = DOMAIN pod /\ new.volumes = pod.volumes \o vs
        /\ new.containers = [k \in DOMAIN pod.containers |-> served(pod.containers[k])]
        /\ new.inits = [k \in DOMAIN pod.inits |-> served(pod.inits[k])]
    BY <1>1 DEF Runnable
  <1>4. IsSequence(new.containers) /\ IsSequence(new.inits)
    <2>1. IsSequence(pod.containers) /\ IsSequence(pod.inits)
      BY DEF Runnable
    <2> QED
      BY <1>3, <2>1, Positions
  <1>5. \A c \in Containers(pod) : {"mounts", "env", "command"} \subseteq DOMAIN c /\ c.command # "entrypoint"
    BY DEF Runnable
  <1>6. /\ \A k \in DOMAIN pod.containers : Plainly(served(pod.containers[k]), pod.containers[k], ms, es)
        /\ \A k \in DOMAIN pod.inits : Plainly(served(pod.inits[k]), pod.inits[k], ms, es)
    BY <1>2, <1>5 DEF Containers
  <1>7. Filled(new, pod, vs, ms, es)
    BY <1>3, <1>4, <1>6 DEF Filled
  <1> QED
    BY <1>7 DEF new, vs, ms, es

\* A later change of containers that leaves mounts and variables alone.
LEMMA StillFilled ==
  ASSUME NEW vs, NEW ms, NEW es, NEW old, Runnable(old), NEW new, Filled(new, old, vs, ms, es),
         NEW f, DOMAIN f = DOMAIN new.containers, f = [k \in DOMAIN f |-> f[k]],
         \A k \in DOMAIN f : /\ DOMAIN f[k] = DOMAIN new.containers[k] /\ f[k].mounts = new.containers[k].mounts
                             /\ f[k].env = new.containers[k].env /\ f[k].command # "entrypoint"
  PROVE  Filled([new EXCEPT !.containers = f], old, vs, ms, es)
  <1> DEFINE nw == [new EXCEPT !.containers = f]
  <1>1. {"volumes", "containers", "inits"} \subseteq DOMAIN new
    BY DEF Filled, Runnable
  <1>2. /\ DOMAIN nw = DOMAIN new /\ nw.volumes = new.volumes /\ nw.inits = new.inits
        /\ nw.containers = f
    BY <1>1
  <1>3. IsSequence(f)
    BY Positions DEF Filled
  <1>4. \A k \in DOMAIN old.containers : Plainly(f[k], old.containers[k], ms, es)
    BY DEF Filled, Plainly
  <1> HIDE DEF nw
  <1>5. Filled(nw, old, vs, ms, es)
    BY <1>2, <1>3, <1>4 DEF Filled
  <1> QED
    BY <1>5 DEF nw

\* buildPodSpec does too: command and requests are no mounts.
LEMMA PodSpecFilled ==
  ASSUME NEW pod, Runnable(pod), Present("cmd") => cmd.args["cmd"] # "entrypoint"
  PROVE  Filled(buildPodSpec(pod), pod, Merged("volumes"), Merged("mounts"), Merged("env"))
  <1> DEFINE set(k, c) == [c EXCEPT !.command = IF k = 1 /\ Present("cmd") THEN cmd.args["cmd"] ELSE @,
                                    !.requests = IF k = 1 /\ Present("request") THEN cmd.args["request"] ELSE @]
             old == buildPodSpecVolumesAndEnv(pod)
             f   == [k \in DOMAIN old.containers |-> set(k, old.containers[k])]
  <1>1. buildPodSpec(pod) = [old EXCEPT !.containers = [k \in DOMAIN @ |-> set(k, @[k])]]
    BY DEF buildPodSpec
  <1>2. Filled(old, pod, Merged("volumes"), Merged("mounts"), Merged("env"))
    BY PodFilled
  <1>3. ASSUME NEW k, NEW c, {"mounts", "env", "command", "requests"} \subseteq DOMAIN c, c.command # "entrypoint"
        PROVE  /\ DOMAIN set(k, c) = DOMAIN c /\ set(k, c).mounts = c.mounts
               /\ set(k, c).env = c.env /\ set(k, c).command # "entrypoint"
    BY <1>3
  <1> HIDE DEF set, old
  <1>4. buildPodSpec(pod) = [old EXCEPT !.containers = f]
    <2>1. "containers" \in DOMAIN old
      BY <1>2 DEF Filled, Runnable
    <2> QED
      BY <1>1, <2>1
  <1>5. ASSUME NEW k \in DOMAIN old.containers
        PROVE  {"mounts", "env", "command", "requests"} \subseteq DOMAIN old.containers[k] /\ old.containers[k].command # "entrypoint"
    <2>1. k \in DOMAIN pod.containers /\ Plainly(old.containers[k], pod.containers[k], Merged("mounts"), Merged("env"))
      BY <1>2 DEF Filled
    <2>2. {"mounts", "env", "command", "requests"} \subseteq DOMAIN pod.containers[k]
      BY <2>1 DEF Runnable, Containers
    <2> QED
      BY <2>1, <2>2 DEF Plainly
  <1>6. /\ DOMAIN f = DOMAIN old.containers /\ f = [k \in DOMAIN f |-> f[k]]
        /\ \A k \in DOMAIN f : f[k] = set(k, old.containers[k])
    OBVIOUS
  <1> HIDE DEF f
  <1>7. \A k \in DOMAIN f : /\ DOMAIN f[k] = DOMAIN old.containers[k] /\ f[k].mounts = old.containers[k].mounts
                            /\ f[k].env = old.containers[k].env /\ f[k].command # "entrypoint"
    BY <1>3, <1>5, <1>6
  <1>8. Filled([old EXCEPT !.containers = f], pod, Merged("volumes"), Merged("mounts"), Merged("env"))
    BY <1>2, <1>6, <1>7, StillFilled
  <1> QED
    BY <1>4, <1>8

-----------------------------------------------------------------------------
(***************************************************************************)
(* The pods of the five modes.                                             *)
(***************************************************************************)

\* The pods of object o of mode m.
PodsIn(o, m) == IF m = "RayJob" /\ ~o.cluster THEN {} ELSE PodsOf(o)

\* What ContainersServed says of object o.
AllServed(o, m, p) == \A pod \in PodsIn(o, m) : \A c \in Containers(pod) : GoodContainer(c, pod.volumes, p)

\* Pod new is made of one of the template, with the bundles of the profile.
Made(new) == \E old : Runnable(old) /\ MadeOf(new, old, Merged("volumes"), Merged("mounts"), Merged("env"))

\* A template the API server lets through.
Fit(t, m) ==
    /\ {"labels", "name", "head", "groups", "cluster", "parallelism", "completions", "command", "selector", "script"}
          \subseteq DOMAIN t
    /\ 1 \in DOMAIN t.head.containers /\ \A pod \in PodsOf(t) : Runnable(pod)
    /\ t.cluster \in BOOLEAN /\ (m \notin {"RayJob", "RayCluster"} => t.groups = <<>>)
    /\ \A k \in DOMAIN t.groups : {"replicas", "min", "max", "pod"} \subseteq DOMAIN t.groups[k]

\* The labels of a pod are not looked at.
LEMMA Relabelled ==
  ASSUME NEW pod, Runnable(pod)
  PROVE  Runnable(buildPodObjectMeta(pod))
  <1> DEFINE new == buildPodObjectMeta(pod)
  <1>1. /\ DOMAIN new = DOMAIN pod /\ new.volumes = pod.volumes
        /\ new.containers = pod.containers /\ new.inits = pod.inits
    BY DEF buildPodObjectMeta, Runnable
  <1> HIDE DEF new
  <1>2. Containers(new) = Containers(pod)
    BY <1>1 DEF Containers
  <1>3. Runnable(new)
    BY <1>1, <1>2 DEF Runnable
  <1> QED
    BY <1>3 DEF new

\* buildObjectMeta changes the labels and the name alone.
LEMMA MetaElsewhere ==
  ASSUME NEW t, NEW strict
  PROVE  /\ DOMAIN Meta(t, strict) = DOMAIN t
         /\ \A f \in DOMAIN t \ {"labels", "name"} : Meta(t, strict)[f] = t[f]
  BY DEF Meta

\* The one pod of an object without groups.
LEMMA OnePod ==
  ASSUME NEW o, o.groups = <<>>, Made(o.head), NEW m, m # "RayJob"
  PROVE  \A pod \in PodsIn(o, m) : Made(pod)
  <1>1. PodsOf(o) = {o.head}
    BY DEF PodsOf
  <1>2. PodsIn(o, m) = {o.head}
    BY <1>1 DEF PodsIn
  <1> QED
    BY <1>2

\* The pod of a Job.
LEMMA JobMade ==
  ASSUME NEW t, Fit(t, "Job"), Present("cmd") => cmd.args["cmd"] # "entrypoint",
         IsSequence(Merged("volumes")), IsSequence(Merged("mounts")), IsSequence(Merged("env"))
  PROVE  \A pod \in PodsIn(BuildJob(t), "Job") : Made(pod)
  <1> DEFINE meta == Meta(t, FALSE)
             pod  == buildPodObjectMeta(t.head)
             o    == BuildJob(t)
  <1>1. DOMAIN meta = DOMAIN t /\ meta.head = t.head /\ meta.groups = t.groups
    BY MetaElsewhere DEF Fit
  <1>2. o = [meta EXCEPT !.head = buildPodSpec(buildPodObjectMeta(@)),
                         !.parallelism = IF Given("parallelism") THEN cmd.args["parallelism"] ELSE @,
                         !.completions = IF Given("completions") THEN cmd.args["completions"] ELSE @]
    BY DEF BuildJob
  <1> HIDE DEF meta, o
  <1>3. o.head = buildPodSpec(pod) /\ o.groups = <<>>
    BY <1>1, <1>2 DEF Fit
  <1>4. Runnable(pod)
    BY Relabelled DEF Fit, PodsOf
  <1> HIDE DEF pod
  <1>5. Filled(o.head, pod, Merged("volumes"), Merged("mounts"), Merged("env"))
    BY <1>3, <1>4, PodSpecFilled
  <1>6. MadeOf(o.head, pod, Merged("volumes"), Merged("mounts"), Merged("env"))
    BY <1>4, <1>5, FilledMade
  <1>7. Made(o.head)
    BY <1>4, <1>6 DEF Made
  <1>8. \A q \in PodsIn(o, "Job") : Made(q)
    BY <1>3, <1>7, OnePod
  <1> QED
    BY <1>8 DEF o

\* The pod of an interactive session.
LEMMA InteractiveMade ==
  ASSUME NEW t, Fit(t, "Interactive"), Present("cmd") => cmd.args["cmd"] # "entrypoint",
         IsSequence(Merged("volumes")), IsSequence(Merged("mounts")), IsSequence(Merged("env"))
  PROVE  \A pod \in PodsIn(BuildInteractive(t), "Interactive") : Made(pod)
  <1> DEFINE own       == [t EXCEPT !.labels = PodLabels]
             meta      == Meta(own, FALSE)
             pod       == buildPodSpec(t.head)
             tty(k, c) == [c EXCEPT !.tty = @ \/ k = 1]
             f         == [k \in DOMAIN pod.containers |-> tty(k, pod.containers[k])]
             o         == BuildInteractive(t)
  <1>1. DOMAIN own = DOMAIN t /\ own.groups = t.groups
    BY DEF Fit
  <1>2. DOMAIN meta = DOMAIN t /\ meta.groups = t.groups
    <2>1. DOMAIN meta = DOMAIN own /\ \A x \in DOMAIN own \ {"labels", "name"} : meta[x] = own[x]
      BY MetaElsewhere
    <2>2. "groups" \in DOMAIN own \ {"labels", "name"}
      BY <1>1 DEF Fit
    <2> HIDE DEF own, meta
    <2> QED
      BY <1>1, <2>1, <2>2
  <1>3. o = [meta EXCEPT !.head = [pod EXCEPT !.containers = [k \in DOMAIN @ |-> tty(k, @[k])]]]
    BY DEF BuildInteractive
  <1>4. Runnable(t.head)
    BY DEF Fit, PodsOf
  <1>5. Filled(pod, t.head, Merged("volumes"), Merged("mounts"), Merged("env"))
    BY <1>4, PodSpecFilled
  <1>6. ASSUME NEW k, NEW c, {"mounts", "env", "command"} \subseteq DOMAIN c, c.command # "entrypoint"
        PROVE  /\ DOMAIN tty(k, c) = DOMAIN c /\ tty(k, c).mounts = c.mounts
               /\ tty(k, c).env = c.env /\ tty(k, c).command # "entrypoint"
    BY <1>6
  <1> HIDE DEF own, meta, pod, tty, o
  <1>7. "containers" \in DOMAIN pod
    BY <1>4, <1>5 DEF Filled, Runnable
  <1>8. o.head = [pod EXCEPT !.containers = f] /\ o.groups = <<>>
    BY <1>2, <1>3, <1>7 DEF Fit
  <1>9. ASSUME NEW k \in DOMAIN pod.containers
        PROVE  {"mounts", "env", "command"} \subseteq DOMAIN pod.containers[k] /\ pod.containers[k].command # "entrypoint"
    <2>1. k \in DOMAIN t.head.containers /\ Plainly(pod.containers[k], t.head.containers[k], Merged("mounts"), Merged("env"))
      BY <1>5 DEF Filled
    <2>2. {"mounts", "env", "command"} \subseteq DOMAIN t.head.containers[k]
      BY <1>4, <2>1 DEF Runnable, Containers
    <2> QED
      BY <2>1, <2>2 DEF Plainly
  <1>10. /\ DOMAIN f = DOMAIN pod.containers /\ f = [k \in DOMAIN f |-> f[k]]
         /\ \A k \in DOMAIN f : f[k] = tty(k, pod.containers[k])
    OBVIOUS
  <1> HIDE DEF f
  <1>11. \A k \in DOMAIN f : /\ DOMAIN f[k] = DOMAIN pod.containers[k] /\ f[k].mounts = pod.containers[k].mounts
                             /\ f[k].env = pod.containers[k].env /\ f[k].command # "entrypoint"
    BY <1>6, <1>9, <1>10
  <1>12. Filled(o.head, t.head, Merged("volumes"), Merged("mounts"), Merged("env"))
    BY <1>4, <1>5, <1>8, <1>10, <1>11, StillFilled
  <1>13. MadeOf(o.head, t.head, Merged("volumes"), Merged("mounts"), Merged("env"))
    BY <1>4, <1>12, FilledMade
  <1>14. Made(o.head)
    BY <1>4, <1>13 DEF Made
  <1>15. \A q \in PodsIn(o, "Interactive") : Made(q)
    BY <1>8, <1>14, OnePod
  <1> QED
    BY <1>15 DEF o

\* The pods of a Ray cluster: the head and those of the worker groups.
LEMMA RayMade ==
  ASSUME NEW t, {"head", "groups"} \subseteq DOMAIN t, \A pod \in PodsOf(t) : Runnable(pod),
         \A k \in DOMAIN t.groups : {"replicas", "min", "max", "pod"} \subseteq DOMAIN t.groups[k],
         IsSequence(Merged("volumes")), IsSequence(Merged("mounts")), IsSequence(Merged("env"))
  PROVE  \A pod \in PodsOf(buildRayClusterSpec(t)) : Made(pod)
  <1> DEFINE o == buildRayClusterSpec(t)
  <1>1. ASSUME NEW pod, Runnable(pod) PROVE Made(buildPodSpecVolumesAndEnv(pod))
    <2>1. Filled(buildPodSpecVolumesAndEnv(pod), pod, Merged("volumes"), Merged("mounts"), Merged("env"))
      BY <1>1, PodFilled
    <2>2. MadeOf(buildPodSpecVolumesAndEnv(pod), pod, Merged("volumes"), Merged("mounts"), Merged("env"))
      BY <1>1, <2>1, FilledMade
    <2> QED
      BY <1>1, <2>2 DEF Made
  <1>2. o.head = buildPodSpecVolumesAndEnv(t.head) /\ o.groups = [k \in DOMAIN t.groups |-> WorkerGroup(t.groups[k])]
    BY DEF buildRayClusterSpec
  <1>3. ASSUME NEW k \in DOMAIN t.groups PROVE WorkerGroup(t.groups[k]).pod = buildPodSpecVolumesAndEnv(t.groups[k].pod)
    BY DEF WorkerGroup
  <1> HIDE DEF o
  <1>4. Made(o.head)
    BY <1>1, <1>2 DEF PodsOf
  <1>5. ASSUME NEW k \in DOMAIN o.groups PROVE Made(o.groups[k].pod)
    <2>1. k \in DOMAIN t.groups /\ o.groups[k].pod = buildPodSpecVolumesAndEnv(t.groups[k].pod)
      BY <1>2, <1>3
    <2>2. Runnable(t.groups[k].pod)
      BY <2>1 DEF PodsOf
    <2> QED
      BY <1>1, <2>1, <2>2
  <1>6. \A pod \in PodsOf(o) : Made(pod)
    BY <1>4, <1>5 DEF PodsOf
  <1> QED
    BY <1>6 DEF o

\* A RayJob has the pods of its cluster, or none.
LEMMA RayJobMade ==
  ASSUME NEW t, Fit(t, "RayJob"),
         IsSequence(Merged("volumes")), IsSequence(Merged("mounts")), IsSequence(Merged("env"))
  PROVE  \A pod \in PodsIn(BuildRayJob(t), "RayJob") : Made(pod)
  <1> DEFINE meta == Meta(t, FALSE)
             o    == [meta EXCEPT !.command = IF Given("cmd") /\ cmd.args["cmd"] # "" THEN cmd.args["cmd"] ELSE @]
             here == [o EXCEPT !.labels = [l \in DOMAIN @ \ {"localqueue"} |-> @[l]],
                               !.cluster = FALSE, !.selector = cmd.args["raycluster"]]
             new  == BuildRayJob(t)
  <1>1. DOMAIN meta = DOMAIN t /\ meta.head = t.head /\ meta.groups = t.groups /\ meta.cluster = t.cluster
    BY MetaElsewhere DEF Fit
  <1>2. new = IF Present("raycluster") THEN here ELSE IF t.cluster THEN buildRayClusterSpec(o) ELSE o
    BY DEF BuildRayJob
  <1> HIDE DEF meta, new
  <1>3. DOMAIN o = DOMAIN t /\ o.head = t.head /\ o.groups = t.groups /\ o.cluster = t.cluster
    BY <1>1
  <1> HIDE DEF o
  <1>4. here.cluster = FALSE
    BY <1>3 DEF Fit
  <1> HIDE DEF here
  <1>5. \A pod \in PodsOf(buildRayClusterSpec(o)) : Made(pod)
    <2>1. PodsOf(o) = PodsOf(t) /\ {"head", "groups"} \subseteq DOMAIN o
      BY <1>3 DEF PodsOf, Fit
    <2>2. /\ \A pod \in PodsOf(o) : Runnable(pod)
          /\ \A k \in DOMAIN o.groups : {"replicas", "min", "max", "pod"} \subseteq DOMAIN o.groups[k]
      BY <1>3, <2>1 DEF Fit
    <2> QED
      BY <2>1, <2>2, RayMade
  <1>6. CASE Present("raycluster")
    BY <1>2, <1>4, <1>6 DEF PodsIn, new
  <1>7. CASE ~Present("raycluster") /\ t.cluster = TRUE
    BY <1>2, <1>5, <1>7 DEF PodsIn, new
  <1>8. CASE ~Present("raycluster") /\ t.cluster = FALSE
    BY <1>2, <1>3, <1>8 DEF PodsIn, new
  <1> QED
    BY <1>6, <1>7, <1>8 DEF Fit

\* A RayCluster has the pods of the template.
LEMMA RayClusterMade ==
  ASSUME NEW t, Fit(t, "RayCluster"),
         IsSequence(Merged("volumes")), IsSequence(Merged("mounts")), IsSequence(Merged("env"))
  PROVE  \A pod \in PodsIn(BuildRayCluster(t), "RayCluster") : Made(pod)
  <1> DEFINE o == Meta(t, FALSE)
  <1>1. DOMAIN o = DOMAIN t /\ o.head = t.head /\ o.groups = t.groups
    BY MetaElsewhere DEF Fit
  <1>2. BuildRayCluster(t) = buildRayClusterSpec(o)
    BY DEF BuildRayCluster
  <1> HIDE DEF o
  <1>3. \A pod \in PodsOf(buildRayClusterSpec(o)) : Made(pod)
    <2>1. PodsOf(o) = PodsOf(t) /\ {"head", "groups"} \subseteq DOMAIN o
      BY <1>1 DEF PodsOf, Fit
    <2>2. /\ \A pod \in PodsOf(o) : Runnable(pod)
          /\ \A k \in DOMAIN o.groups : {"replicas", "min", "max", "pod"} \subseteq DOMAIN o.groups[k]
      BY <1>1, <2>1 DEF Fit
    <2> QED
      BY <2>1, <2>2, RayMade
  <1> QED
    BY <1>2, <1>3 DEF PodsIn

\* An element put at the end of a sequence.
LEMMA NamesOfAppend ==
  ASSUME NEW s, IsSequence(s), NEW x
  PROVE  Names(Append(s, x)) = Names(s) \cup {x}
  <1>1. s \in Seq(Names(s)) /\ DOMAIN s = 1..Len(s) /\ Len(s) \in Nat
    BY DEF IsSequence
  <1>2. /\ DOMAIN Append(s, x) = 1..(Len(s) + 1)
        /\ \A k \in 1..Len(s) : Append(s, x)[k] = s[k]
        /\ Append(s, x)[Len(s) + 1] = x
    BY <1>1
  <1>3. 1..(Len(s) + 1) = (1..Len(s)) \cup {Len(s) + 1}
    BY <1>1
  <1> DEFINE a == Append(s, x)
             n == Len(s)
  <1> HIDE DEF a, n
  <1>4. {a[k] : k \in (1..n) \cup {n + 1}} = {a[k] : k \in 1..n} \cup {a[n + 1]}
    OBVIOUS
  <1>5. {a[k] : k \in 1..n} = {s[k] : k \in 1..n}
    BY <1>2 DEF a, n
  <1> QED
    BY <1>1, <1>2, <1>3, <1>4, <1>5 DEF Names, a, n

\* Copies of the first container are behind the others.
LEMMA NamesOfCopies ==
  ASSUME NEW s, IsSequence(s), 1 \in DOMAIN s, NEW tasks \in Nat
  PROVE  Names(s \o [k \in 1..(tasks - 1) |-> s[1]]) = Names(s)
  <1> DEFINE copies == [k \in 1..(tasks - 1) |-> s[1]]
  <1>1. s \in Seq(Names(s)) /\ s[1] \in Names(s)
    BY DEF IsSequence, Names
  <1>2. copies \in Seq(Names(s)) /\ Names(copies) \subseteq Names(s)
    <2>1. CASE tasks = 0
      <3>1. 1..(tasks - 1) = {}
        BY <2>1
      <3>2. copies = <<>>
        BY <3>1
      <3> QED
        BY <3>2, KjobsOwn
    <2>2. CASE tasks # 0
      <3>1. tasks - 1 \in Nat
        BY <2>2
      <3>2. copies \in Seq(Names(s))
        BY <1>1, <3>1
      <3>3. Names(copies) \subseteq Names(s)
        BY <1>1 DEF Names
      <3> QED
        BY <3>2, <3>3
    <2> QED
      BY <2>1, <2>2
  <1> HIDE DEF copies
  <1>3. Names(s \o copies) = Names(s) \cup Names(copies)
    BY <1>1, <1>2, NamesBehind
  <1>4. Names(s \o copies) = Names(s)
    BY <1>2, <1>3
  <1> QED
    BY <1>4 DEF copies

\* The pods of a Slurm job: a container for each task, and the one that
\* writes the environment.
LEMMA SlurmMade ==
  ASSUME NEW t, Fit(t, "Slurm"), cmd.tasks \in Nat,
         IsSequence(Merged("volumes")), IsSequence(Merged("mounts")), IsSequence(Merged("env"))
  PROVE  \A pod \in PodsIn(BuildSlurm(t), "Slurm") : Made(pod)
  <1> DEFINE vs       == Merged("volumes")
             ms       == Merged("mounts")
             es       == Merged("env")
             meta     == Meta(t, TRUE)
             old      == buildPodObjectMeta(t.head)
             pod      == buildPodSpecVolumesAndEnv(old)
             work(c)  == [c EXCEPT !.command = "entrypoint", !.mounts = @ \o SlurmMounts]
             own      == [k \in DOMAIN pod.containers |->
                            IF IsWorker(pod.containers[k]) THEN work(pod.containers[k]) ELSE pod.containers[k]]
             replicas == [k \in 1..(cmd.tasks - 1) |-> own[1]]
             head     == [pod EXCEPT !.subdomain = meta.name, !.configMap = meta.name,
                                     !.volumes = @ \o SlurmMounts, !.inits = Append(@, SlurmInit),
                                     !.containers = own \o replicas]
             o        == BuildSlurm(t)
  <1>1. DOMAIN meta = DOMAIN t /\ meta.groups = t.groups
    BY MetaElsewhere DEF Fit
  <1>2. o = [meta EXCEPT !.script = TRUE, !.head = head]
    BY DEF BuildSlurm
  <1>3. Runnable(old) /\ DOMAIN old.containers = DOMAIN t.head.containers
    <2>1. Runnable(t.head)
      BY DEF Fit, PodsOf
    <2>2. old.containers = t.head.containers
      BY <2>1 DEF buildPodObjectMeta, Runnable
    <2> QED
      BY <2>1, <2>2, Relabelled
  <1> HIDE DEF old
  <1>4. Filled(pod, old, vs, ms, es)
    BY <1>3, PodFilled
  <1> HIDE DEF pod, meta, o, vs, ms, es
  <1>5. ASSUME NEW c, {"mounts", "env", "command"} \subseteq DOMAIN c
        PROVE  /\ work(c).mounts = c.mounts \o SlurmMounts /\ work(c).env = c.env
               /\ work(c).command = "entrypoint"
    BY <1>5
  <1> HIDE DEF work
  <1>6. /\ DOMAIN own = DOMAIN old.containers /\ 1 \in DOMAIN own /\ IsSequence(own)
        /\ \A k \in DOMAIN own : own[k] = work(pod.containers[k]) \/ own[k] = pod.containers[k]
    <2>1. DOMAIN own = DOMAIN pod.containers /\ own = [k \in DOMAIN own |-> own[k]]
      OBVIOUS
    <2>2. \A k \in DOMAIN own : own[k] = work(pod.containers[k]) \/ own[k] = pod.containers[k]
      OBVIOUS
    <2> HIDE DEF own
    <2>3. IsSequence(own)
      BY <1>4, <2>1, Positions DEF Filled
    <2>4. DOMAIN own = DOMAIN old.containers /\ 1 \in DOMAIN own
      BY <1>3, <1>4, <2>1 DEF Filled, Fit
    <2> QED
      BY <2>2, <2>3, <2>4
  <1> HIDE DEF own
  <1>7. Names(own \o replicas) = Names(own)
    BY <1>6, NamesOfCopies
  <1> HIDE DEF replicas
  <1>8. /\ head.volumes = pod.volumes \o SlurmMounts /\ head.inits = Append(pod.inits, SlurmInit)
        /\ head.containers = own \o replicas
    BY <1>3, <1>4 DEF Filled, Runnable
  <1> HIDE DEF head
  <1>9. o.head = head /\ o.groups = <<>>
    BY <1>1, <1>2 DEF Fit
  <1>10. Containers(head) = Names(own) \cup Names(pod.inits) \cup {SlurmInit}
    <2>1. Names(head.inits) = Names(pod.inits) \cup {SlurmInit}
      BY <1>4, <1>8, NamesOfAppend DEF Filled
    <2>2. Names(head.containers) = Names(own)
      BY <1>7, <1>8
    <2>3. Containers(head) = Names(head.containers) \cup Names(head.inits)
      BY DEF Containers, Names
    <2> QED
      BY <2>1, <2>2, <2>3
  <1>11. ASSUME NEW c, NEW q \in Containers(old), Plainly(c, q, ms, es)
         PROVE  FromTemplate(c, q, ms, es, <<>>) /\ FromTemplate(work(c), q, ms, es, SlurmMounts)
    <2>1. IsSequence(q.mounts) /\ {"mounts", "env", "command"} \subseteq DOMAIN q
      BY <1>3 DEF Runnable
    <2>2. {"mounts", "env", "command"} \subseteq DOMAIN c
      BY <1>11, <2>1 DEF Plainly
    <2>3. (q.mounts \o ms) \o <<>> = q.mounts \o ms
      BY <2>1, NothingMore DEF ms
    <2>4. FromTemplate(c, q, ms, es, <<>>)
      BY <1>11, <2>3 DEF Plainly, FromTemplate
    <2>5. FromTemplate(work(c), q, ms, es, SlurmMounts)
      BY <1>5, <1>11, <2>2 DEF Plainly, FromTemplate
    <2> QED
      BY <2>4, <2>5
  <1>12. ASSUME NEW c \in Names(own)
         PROVE  \E q \in Containers(old) : \E extra \in {<<>>, SlurmMounts} : FromTemplate(c, q, ms, es, extra)
    <2>1. PICK k \in DOMAIN own : c = own[k]
      BY DEF Names
    <2>2. k \in DOMAIN old.containers /\ old.containers[k] \in Containers(old)
      BY <1>6, <2>1 DEF Containers
    <2>3. Plainly(pod.containers[k], old.containers[k], ms, es)
      BY <1>4, <2>2 DEF Filled
    <2>4. /\ FromTemplate(pod.containers[k], old.containers[k], ms, es, <<>>)
          /\ FromTemplate(work(pod.containers[k]), old.containers[k], ms, es, SlurmMounts)
      BY <1>11, <2>2, <2>3
    <2> QED
      BY <1>6, <2>1, <2>2, <2>4
  <1>13. ASSUME NEW c \in Names(pod.inits)
         PROVE  \E q \in Containers(old) : FromTemplate(c, q, ms, es, <<>>)
    <2>1. PICK k \in DOMAIN old.inits : c = pod.inits[k]
      BY <1>4 DEF Names, Filled
    <2>2. old.inits[k] \in Containers(old) /\ Plainly(c, old.inits[k], ms, es)
      BY <1>4, <2>1 DEF Containers, Filled
    <2> QED
      BY <1>11, <2>2
  <1>14. head.volumes = (old.volumes \o vs) \o SlurmMounts
    BY <1>4, <1>8 DEF Filled
  <1>15. ASSUME NEW c \in Containers(head)
         PROVE  \/ SlurmMounts = SlurmMounts /\ c = SlurmInit
                \/ \E q \in Containers(old) : \E extra \in {<<>>, SlurmMounts} : FromTemplate(c, q, ms, es, extra)
    BY <1>10, <1>12, <1>13
  <1>16. MadeOf(head, old, vs, ms, es)
    BY <1>14, <1>15 DEF MadeOf
  <1>17. Made(o.head)
    BY <1>3, <1>9, <1>16 DEF Made, vs, ms, es
  <1>18. \A q \in PodsIn(o, "Slurm") : Made(q)
    BY <1>9, <1>17, OnePod
  <1> QED
    BY <1>18 DEF o

-----------------------------------------------------------------------------
(***************************************************************************)
(* Containers get everything.                                              *)
(***************************************************************************)

\* The bundles are those of the profile, in order and as far as fetched.
FetchedInv ==
    /\ pc \in AfterProfile => profile \in Profiles /\ Fetched(bundles, profile)
    /\ pc \in {"complete", "clients", "queue", "priority", "profile"} => bundles = <<>>
    /\ pc \in AfterFlags \cup {"flags"} => Len(bundles) = Len(profile.bundles)

\* Each Get adds the next bundle.
LEMMA FetchedNext ==
  ASSUME NEW p \in Profiles, NEW bs, Fetched(bs, p), Len(bs) < Len(p.bundles)
  PROVE  Fetched(Append(bs, BundleOf[p.bundles[Len(bs) + 1]]), p)
  <1> DEFINE S == {BundleOf[p.bundles[k]] : k \in DOMAIN p.bundles}
             n == Len(bs)
             b == BundleOf[p.bundles[n + 1]]
             new == Append(bs, b)
  <1>1. bs \in Seq(S) /\ \A k \in 1..n : bs[k] = BundleOf[p.bundles[k]]
    BY DEF Fetched
  <1>2. n \in Nat /\ DOMAIN p.bundles = 1..Len(p.bundles) /\ Len(p.bundles) \in Nat
    BY <1>1, BundlesAssumption DEF IsSequence
  <1>3. n + 1 \in DOMAIN p.bundles
    BY <1>2
  <1>4. b \in S
    BY <1>3
  <1> HIDE DEF S, b
  <1>5. /\ new \in Seq(S) /\ Len(new) = n + 1 /\ new[n + 1] = b
        /\ \A k \in 1..n : new[k] = bs[k]
    BY <1>1, <1>4
  <1> HIDE DEF new
  <1>6. ASSUME NEW k \in 1..(n + 1) PROVE new[k] = BundleOf[p.bundles[k]]
    <2>1. k \in 1..n \/ k = n + 1
      BY <1>2
    <2> QED
      BY <1>1, <1>5, <2>1 DEF b
  <1>7. Fetched(new, p)
    BY <1>2, <1>5, <1>6 DEF Fetched, S
  <1> QED
    BY <1>7 DEF new, b

\* The steps fetch the bundles and then leave them alone.
LEMMA FetchedInvariant == Spec => []FetchedInv
  <1> USE DEF AfterProfile, AfterFlags
  <1>1. Init => FetchedInv
    BY DEF Init, FetchedInv
  <1>2. FetchedInv /\ [Next]_vars => FetchedInv'
    <2> SUFFICES ASSUME FetchedInv, [Next]_vars PROVE FetchedInv'
      OBVIOUS
    <2>1. ASSUME UNCHANGED <<profile, bundles>>,
                 pc' \in AfterProfile => pc \in AfterProfile,
                 pc' \in {"complete", "clients", "queue", "priority", "profile"} =>
                    pc \in {"complete", "clients", "queue", "priority", "profile"},
                 pc' \in AfterFlags \cup {"flags"} => Len(bundles) = Len(profile.bundles)
          PROVE  FetchedInv'
      <3>1. profile' = profile /\ bundles' = bundles
        BY <2>1
      <3> QED
        BY <2>1, <3>1 DEF FetchedInv, Fetched
    <2>2. CASE Fail
      BY <2>1, <2>2 DEF Fail
    <2>3. CASE Complete
      BY <2>1, <2>2, <2>3 DEF Complete
    <2>4. CASE setClients
      BY <2>1, <2>2, <2>4 DEF setClients, Continue
    <2>5. CASE GetQueue
      BY <2>1, <2>2, <2>5 DEF GetQueue, validate, Continue
    <2>6. CASE GetPriority
      BY <2>1, <2>2, <2>6 DEF GetPriority, validate, Continue
    <2>7. CASE GetProfile
      <3>1. CASE pc = "profile" /\ pc' = "bundles" /\ bundles' = bundles /\ \E p \in Profiles : profile' = p
        <4>1. bundles' = <<>> /\ profile' \in Profiles
          BY <3>1 DEF FetchedInv
        <4>2. ASSUME NEW p \in Profiles PROVE Fetched(<<>>, p)
          <5>1. Len(p.bundles) \in Nat
            BY BundlesAssumption DEF IsSequence
          <5> QED
            BY <5>1 DEF Fetched
        <4>3. Fetched(bundles', profile')
          BY <4>1, <4>2
        <4>4. Fetched(bundles, profile)'
          BY <4>3 DEF Fetched
        <4> QED
          BY <3>1, <4>1, <4>4 DEF FetchedInv
      <3> QED
        BY <2>2, <2>7, <3>1 DEF GetProfile
    <2>8. CASE GetBundle
      <3>1. CASE /\ pc = "bundles" /\ Len(bundles) < Len(profile.bundles)
                 /\ bundles' = Append(bundles, BundleOf[profile.bundles[Len(bundles) + 1]])
                 /\ pc' = pc /\ profile' = profile
        <4>1. profile \in Profiles /\ Fetched(bundles, profile)
          BY <3>1 DEF FetchedInv
        <4>2. Fetched(Append(bundles, BundleOf[profile.bundles[Len(bundles) + 1]]), profile)
          BY <3>1, <4>1, FetchedNext
        <4>3. Fetched(bundles', profile')
          BY <3>1, <4>2
        <4>4. Fetched(bundles, profile)'
          BY <4>3 DEF Fetched
        <4> QED
          BY <3>1, <4>1, <4>4 DEF FetchedInv
      <3>2. CASE pc = "bundles" /\ Len(bundles) = Len(profile.bundles) /\ Continue("flags")
        BY <2>1, <3>2 DEF Continue
      <3> QED
        BY <2>2, <2>8, <3>1, <3>2 DEF GetBundle
    <2>9. CASE validateFlags
      <3>1. CASE pc = "flags" /\ Continue(IF cmd.mode = "Slurm" THEN "slurm" ELSE "template")
        BY <2>1, <3>1 DEF Continue, FetchedInv
      <3> QED
        BY <2>2, <2>9, <3>1 DEF validateFlags
    <2>10. CASE ReadScript
      <3>1. CASE pc = "slurm" /\ pc' = "template" /\ UNCHANGED <<profile, bundles>>
        BY <2>1, <3>1 DEF FetchedInv
      <3> QED
        BY <2>2, <2>10, <3>1 DEF ReadScript
    <2>11. CASE Build
      <3>1. CASE pc = "template" /\ pc' = "built" /\ UNCHANGED <<profile, bundles>>
        BY <2>1, <3>1 DEF FetchedInv
      <3> QED
        BY <2>2, <2>11, <3>1 DEF Build
    <2>12. CASE Done \/ UNCHANGED vars
      <3>1. UNCHANGED <<pc, profile, bundles>>
        BY <2>12 DEF Done, vars
      <3> QED
        BY <2>1, <3>1 DEF FetchedInv
    <2> QED
      BY <2>3, <2>4, <2>5, <2>6, <2>7, <2>8, <2>9, <2>10, <2>11, <2>12 DEF Next
  <1> QED
    BY <1>1, <1>2, PTL DEF Spec

\* The object made of a template serves its containers.
LEMMA ServedObject ==
  ASSUME CheckedInv, FetchedInv, pc = "template", NEW t \in TemplatesOf[cmd.mode]
  PROVE  AllServed(Built(t), cmd.mode, profile)
  <1>1. PICK group \in CommandLines : cmd \in group
    BY DEF CheckedInv
  <1>2. cmd.mode \in Modes /\ Objectlike(t)
    BY <1>1, TemplatesAssumption
  <1>3. cmd.tasks \in Nat /\ (Present("cmd") => cmd.args["cmd"] # "entrypoint")
    BY <1>1, LinesAssumption DEF Present, Given
  <1>4. Fit(t, cmd.mode)
    <2>1. /\ \A pod \in PodsOf(t) : Runnable(pod)
          /\ t.cluster \in BOOLEAN /\ (cmd.mode \notin {"RayJob", "RayCluster"} => t.groups = <<>>)
          /\ \A k \in DOMAIN t.groups : {"replicas", "min", "max", "pod"} \subseteq DOMAIN t.groups[k]
      BY <1>2, PodsAssumption
    <2> QED
      BY <1>2, <2>1 DEF Fit, Objectlike, Podlike
  <1>5. profile \in Profiles /\ Fetched(bundles, profile) /\ Len(bundles) = Len(profile.bundles)
    BY DEF FetchedInv, AfterProfile, AfterFlags
  <1>6. MergedOf(profile, Merged("volumes"), Merged("mounts"), Merged("env"))
    BY <1>5, BundlesMerged
  <1>7. IsSequence(Merged("volumes")) /\ IsSequence(Merged("mounts")) /\ IsSequence(Merged("env"))
    BY <1>6 DEF MergedOf
  <1> DEFINE o == Built(t)
  <1>8. o = CASE cmd.mode = "Job"         -> BuildJob(t)
              [] cmd.mode = "Interactive" -> BuildInteractive(t)
              [] cmd.mode = "RayJob"      -> BuildRayJob(t)
              [] cmd.mode = "RayCluster"  -> BuildRayCluster(t)
              [] cmd.mode = "Slurm"       -> BuildSlurm(t)
    BY DEF Built
  <1> HIDE DEF o
  <1>9. \A pod \in PodsIn(o, cmd.mode) : Made(pod)
    <2>1. CASE cmd.mode = "Job"
      BY <1>3, <1>4, <1>7, <1>8, <2>1, JobMade
    <2>2. CASE cmd.mode = "Interactive"
      BY <1>3, <1>4, <1>7, <1>8, <2>2, InteractiveMade
    <2>3. CASE cmd.mode = "RayJob"
      BY <1>4, <1>7, <1>8, <2>3, RayJobMade
    <2>4. CASE cmd.mode = "RayCluster"
      BY <1>4, <1>7, <1>8, <2>4, RayClusterMade
    <2>5. CASE cmd.mode = "Slurm"
      BY <1>3, <1>4, <1>7, <1>8, <2>5, SlurmMade
    <2> QED
      BY <1>2, <2>1, <2>2, <2>3, <2>4, <2>5 DEF Modes, createModeSubcommands
  <1>10. ASSUME NEW pod \in PodsIn(o, cmd.mode), NEW c \in Containers(pod) PROVE GoodContainer(c, pod.volumes, profile)
    <2>1. PICK old : Runnable(old) /\ MadeOf(pod, old, Merged("volumes"), Merged("mounts"), Merged("env"))
      BY <1>9 DEF Made
    <2> QED
      BY <1>5, <1>6, <2>1, ContainerMade
  <1>11. AllServed(o, cmd.mode, profile)
    BY <1>10 DEF AllServed
  <1> QED
    BY <1>11 DEF o

\* The object that is about to be sent serves its containers.
ServedInv == pc = "built" => AllServed(root, cmd.mode, profile)

\* Only the last step builds.
LEMMA ServedInvariant == Spec => []ServedInv
  <1>1. Init => ServedInv
    BY DEF Init, ServedInv
  <1>2. CheckedInv /\ FetchedInv /\ ServedInv /\ [Next]_vars => ServedInv'
    <2> SUFFICES ASSUME CheckedInv, FetchedInv, ServedInv, [Next]_vars, pc' = "built" PROVE AllServed(root', cmd'.mode, profile')
      BY DEF ServedInv
    <2>1. CASE UNCHANGED vars /\ pc = "built"
      BY <2>1 DEF ServedInv, vars
    <2>2. CASE Build /\ pc = "template"
      <3>1. PICK t \in TemplatesOf[cmd.mode] : root' = Built(t) /\ UNCHANGED <<cmd, profile>>
        BY <2>2 DEF Build, Fail
      <3>2. AllServed(Built(t), cmd.mode, profile)
        BY <2>2, ServedObject
      <3> QED
        BY <3>1, <3>2
    <2>3. (UNCHANGED vars /\ pc = "built") \/ (Build /\ pc = "template")
      BY DEF Next, vars, Complete, setClients, GetQueue, GetPriority, validate, GetProfile, GetBundle,
             validateFlags, ReadScript, Build, Done, Fail, Continue
    <2> QED
      BY <2>1, <2>2, <2>3
  <1> QED
    BY <1>1, <1>2, CheckedInvariant, FetchedInvariant, PTL DEF Spec

\* Every container of every pod, init containers and worker groups included,
\* mounts each volume of the profile's bundles once and none the pod lacks,
\* has kjob's variables whatever the bundles set, and of the others the value
\* of the last bundle that has one, for every number of bundles, containers
\* and tasks (mergeBundles, buildPodSpecVolumesAndEnv, slurmBuilder.build).
THEOREM ContainersGetEverything == Spec => []ContainersServed
  <1>1. ServedInv => ContainersServed
    <2> SUFFICES ASSUME ServedInv, pc = "built", NEW pod \in Pods, NEW c \in Containers(pod)
                 PROVE  GoodContainer(c, pod.volumes, profile)
      BY DEF ContainersServed, GoodContainer, EnvOf, BundleEnv, LastValue, FromBundles
    <2>1. pod \in PodsIn(root, cmd.mode)
      BY DEF Pods, PodsIn
    <2> QED
      BY <2>1 DEF ServedInv, AllServed
  <1> QED
    BY <1>1, ServedInvariant, PTL

=============================================================================
