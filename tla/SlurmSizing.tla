---------------------------- MODULE SlurmSizing ----------------------------
(***************************************************************************)
(* How "kjobctl create slurm" turns --nodes, --ntasks, --ntasks-per-node,  *)
(* the resource flags and the Job template into the size of a Job and the  *)
(* numbers it tells the script: the flag checks of create.go, parse,       *)
(* complete, the container part of build and the node list of              *)
(* buildInitEntrypointScript in pkg/builder/slurm_builder.go.              *)
(*                                                                         *)
(* Integers are int32 in the code and -Half..Half-1 here.  Quantities of   *)
(* CPUs, GPUs and memory are natural numbers; a request or a variable of 0 *)
(* is one that is not written.  An optional value is a set of at most one. *)
(***************************************************************************)
EXTENDS Integers, Sequences, FiniteSets

CONSTANTS
    Half,     \* 2^31 in the code: its int32 values are -Half..Half-1
    Inputs    \* the command lines, scripts and templates to consider

ASSUME HalfAssumption == Half \in Nat \ {0, 1}

MinInt == -Half
MaxInt == Half - 1
GoInt  == MinInt..MaxInt

MemoryFlags == {"node", "task", "cpu", "gpu"}

Optional(S) == {opt \in SUBSET S : \A v, w \in opt : v = w}

\* What a run of the command starts from: the flags, the #SBATCH lines of the
\* script, the size of the array (0: no array), the quantities, whether the
\* rest of the script is accepted, what each container of the template requests
\* of its own accord (mem) and is limited to (gpus, limit), and which of them
\* are workers ({}: all of them).
Own == [cpus : Nat, gpus : Nat, mem : Nat, limit : Nat]

Input ==
    [flags : [nodes : Optional(GoInt), nTasks : Optional(GoInt), perNode : Optional(GoInt)],
     script : [nodes : Optional(GoInt), nTasks : Optional(GoInt)],
     array : Nat, cpus : Optional(Nat), gpus : Optional(Nat),
     mem : Nat, memFlags : SUBSET MemoryFlags,
     scriptOK : BOOLEAN, template : Seq(Own), workers : SUBSET Nat]

ASSUME InputsAssumption == Inputs \subseteq Input

VARIABLES
    in,          \* the input
    pc,          \* where the command is; "done", "error" and "panic" end it
    nodes, nTasks, perNode,   \* the builder's fields, optional until complete
    containers,  \* the Job's containers: whether they run the script, and what they request
    total,       \* the running totals of CPUs, GPUs and memory
    env,         \* the numbers written into the init script
    completions  \* the Job's completions: its pods, or those of its array

vars == <<in, pc, nodes, nTasks, perNode, containers, total, env, completions>>

None == [cpus |-> 0, gpus |-> 0, mem |-> 0]
NoEnv == [cpusOnNode |-> 0, gpus |-> 0, memPerNode |-> 0, cpusPerGpu |-> 0]

Init ==
    /\ in \in Inputs /\ pc = "flags"
    /\ nodes = {} /\ nTasks = {} /\ perNode = {}
    /\ containers = <<>> /\ total = None /\ env = NoEnv
    /\ completions = 0

Goto(l) == pc' = l
Stop(how) == Goto(how) /\ UNCHANGED <<in, nodes, nTasks, perNode, containers, total, env, completions>>

-----------------------------------------------------------------------------
(***************************************************************************)
(* Go's arithmetic.                                                        *)
(***************************************************************************)

\* Mutant: the product has room.
Wrap_Wide(x) == x

\* An int32 operation keeps the low bits.
Wrap(x) == ((x + Half) % (2 * Half)) - Half

Abs(x) == IF x < 0 THEN -x ELSE x

\* What int32(float64(a) / float64(b)) can be.  The language leaves open what
\* becomes of infinities, NaN and values out of range: amd64 yields the
\* smallest integer, arm64 the nearest one and 0 for NaN.
Quotients(a, b) ==
    IF b = 0
      THEN {MinInt} \cup (IF a = 0 THEN {0} ELSE IF a > 0 THEN {MaxInt} ELSE {})
      ELSE LET q == Abs(a) \div Abs(b)
               r == IF (a < 0) = (b < 0) THEN q ELSE -q
           IN  IF r \in GoInt THEN {r} ELSE {MinInt, MaxInt}

\* Mutant: the quotient is never found to have a fraction.
Exceeds_Never(a, b, r) == FALSE

\* float64(a) / float64(b) > float64(r)
Exceeds(a, b, r) ==
    IF b = 0 THEN a > 0 ELSE IF b > 0 THEN a > r * b ELSE a < r * b

-----------------------------------------------------------------------------
(***************************************************************************)
(* Complete (create.go), parse and complete (slurm_builder.go).            *)
(***************************************************************************)

FlagsOK == \A v \in in.flags.nodes \cup in.flags.nTasks \cup in.flags.perNode : v > 0

\* Flags that are not greater than 0 are refused.
CheckFlags ==
    /\ pc = "flags"
    /\ \/ ~FlagsOK /\ Stop("error")
       \/ FlagsOK /\ Stop("parse")

Else(a, b) == IF a # {} THEN a ELSE b

\* A flag goes before the script; the script cannot set ntasks-per-node.
\* A script, a flag or an array that cannot be parsed is an error.
Parse ==
    /\ pc = "parse"
    /\ \/ Stop("error")
       \/ /\ Goto("complete")
          /\ nodes' = Else(in.flags.nodes, in.script.nodes)
          /\ nTasks' = Else(in.flags.nTasks, in.script.nTasks)
          /\ perNode' = in.flags.perNode
          /\ UNCHANGED <<in, containers, total, env, completions>>

\* ptr.Deref, with the default of the three sizes; a quantity's default is 0.
Deref(opt) == IF opt = {} THEN 1 ELSE CHOOSE v \in opt : TRUE

Size(n, t, p) == [nodes |-> n, nTasks |-> t, perNode |-> p]

\* The quotients that complete does not take for fractions.
WholeQuotients(a, b) == {q \in Quotients(a, b) : ~Exceeds(a, b, q)}

\* The sizes that complete settles for, none when it refuses the three numbers.
Sizes(n, t, p) ==
    IF \/ n # 1 /\ t = 1 /\ p = 1
       \/ n # 1 /\ t # 1 /\ p # 1 /\ t # Wrap(n * p)
      THEN {}
    ELSE IF n = 1 /\ t # 1 /\ p # 1
      THEN {Size(q, t, p) : q \in WholeQuotients(t, p)}
    ELSE IF t # 1 /\ p = 1
      THEN {Size(n, t, q) : q \in WholeQuotients(t, n)}
    ELSE IF t = 1 /\ p # 1
      THEN {Size(n, Wrap(n * p), p)}
      ELSE {Size(n, t, p)}

ArrayOK(n) == in.array = 0 \/ n = 1

MemoryOK ==
    /\ "cpu" \in in.memFlags => in.cpus # {}
    /\ "gpu" \in in.memFlags => in.gpus # {}
    /\ Cardinality(in.memFlags) <= 1

\* Mutant: the number of tasks is not looked at.
ScriptOK_AnyTasks(t) == in.scriptOK

\* SlurmValidateAndReplaceScript.
ScriptOK(t) == t >= 1 /\ in.scriptOK

Accepted(s) == ArrayOK(s.nodes) /\ MemoryOK /\ ScriptOK(s.nTasks)

Complete ==
    /\ pc = "complete"
    /\ LET sizes == Sizes(Deref(nodes), Deref(nTasks), Deref(perNode))
       IN  \/ /\ sizes = {} \/ \E s \in sizes : ~Accepted(s)
              /\ Stop("error")
           \/ \E s \in {x \in sizes : Accepted(x)} :
                /\ nodes' = {s.nodes} /\ nTasks' = {s.nTasks} /\ perNode' = {s.perNode}
                /\ Goto("build") /\ UNCHANGED <<in, containers, total, env, completions>>

-----------------------------------------------------------------------------
(***************************************************************************)
(* build.                                                                  *)
(***************************************************************************)

completion == IF in.array # 0 THEN in.array ELSE Deref(nodes)

\* The template is fetched and the Job made from it; its memory is divided
\* among the containers of the template.
NewJob ==
    /\ pc = "build"
    /\ \/ Stop("error")
       \/ /\ "node" \in in.memFlags /\ in.template = <<>>
          /\ Stop("panic")
       \/ /\ ~("node" \in in.memFlags /\ in.template = <<>>)
          /\ completions' = completion /\ Goto("template")
          /\ UNCHANGED <<in, nodes, nTasks, perNode, containers, total, env>>

Cpus == IF in.cpus = {} THEN 0 ELSE Deref(in.cpus)
Gpus == IF in.gpus = {} THEN 0 ELSE Deref(in.gpus)

IsWorker(i) == in.workers = {} \/ i \in in.workers

\* The memory a task requests: at most one of the flags is there.
TaskMemory ==
    IF "task" \in in.memFlags THEN in.mem
    ELSE IF "cpu" \in in.memFlags THEN in.mem * Cpus
    ELSE IF "gpu" \in in.memFlags THEN in.mem * Gpus ELSE 0

MemoryLimit == IF "node" \in in.memFlags THEN in.mem \div Len(in.template) ELSE 0

\* Do the flags give a worker requests, and limits?
Asked == in.cpus # {} \/ "task" \in in.memFlags \/ TaskMemory # 0
Limited == in.gpus # {} \/ MemoryLimit # 0

\* A worker's requests are replaced as a whole, and so are its limits, or they
\* stay the template's; another container's stay.
Worker(own) ==
    [worker |-> TRUE,
     cpus  |-> IF Asked THEN Cpus ELSE own.cpus, mem |-> IF Asked THEN TaskMemory ELSE own.mem,
     gpus  |-> IF Limited THEN Gpus ELSE own.gpus, limit |-> IF Limited THEN MemoryLimit ELSE own.limit]

Other(own) ==
    [worker |-> FALSE, cpus |-> own.cpus, mem |-> own.mem, gpus |-> own.gpus, limit |-> own.limit]

Add(cpus, gpus, mem) ==
    total' = [cpus |-> total.cpus + cpus, gpus |-> total.gpus + gpus, mem |-> total.mem + mem]

\* One turn of the loop over the template's containers: a worker runs the
\* script and requests what a task needs, another is left alone.
TemplateContainer ==
    /\ pc = "template" /\ Len(containers) < Len(in.template)
    /\ LET own == in.template[Len(containers) + 1]
       IN  IF IsWorker(Len(containers) + 1)
             THEN containers' = Append(containers, Worker(own)) /\ Add(Cpus, Gpus, TaskMemory)
             ELSE containers' = Append(containers, Other(own)) /\ UNCHANGED total
    /\ UNCHANGED <<in, pc, nodes, nTasks, perNode, env, completions>>

Replicas == Len(containers) - Len(in.template)

\* Mutant: the first container is not counted among the tasks.
MoreReplicas_OneMore == Replicas < Deref(perNode)

\* for i := 1; i < b.containers(); i++
MoreReplicas == Replicas + 1 < Deref(perNode)

\* Mutant: a replica's CPUs and memory are not counted.
ReplicaTotals_None == UNCHANGED total

\* What a replica adds to the totals: memory only when it depends on CPUs or
\* GPUs, and no GPUs.
ReplicaTotals == Add(Cpus, 0, IF "task" \in in.memFlags THEN 0 ELSE TaskMemory)

\* One turn of the second loop: a copy of the first container, worker or not.
Replica ==
    /\ pc = "template" /\ Len(containers) >= Len(in.template) /\ MoreReplicas
    /\ IF in.template = <<>>
         THEN Stop("panic")
         ELSE /\ containers' = Append(containers, containers[1]) /\ ReplicaTotals
              /\ UNCHANGED <<in, pc, nodes, nTasks, perNode, env, completions>>

\* The totals become what the script is told.
Totals ==
    /\ pc = "template" /\ Len(containers) >= Len(in.template) /\ ~MoreReplicas
    /\ env' = [cpusOnNode |-> total.cpus, gpus |-> total.gpus,
               memPerNode |-> IF "node" \in in.memFlags THEN in.mem ELSE total.mem,
               cpusPerGpu |-> IF total.gpus = 0 THEN 0 ELSE total.cpus \div total.gpus]
    /\ Goto("script") /\ UNCHANGED <<in, nodes, nTasks, perNode, containers, total, completions>>

\* The init script: a list of the nodes, of which the first one is named.
\* The templates of the scripts can fail.
BuildScripts ==
    /\ pc = "script"
    /\ \/ completion <= 0 /\ Stop("panic")
       \/ completion > 0 /\ (Stop("done") \/ Stop("error"))

Terminated == pc \in {"done", "error", "panic"} /\ UNCHANGED vars

Next ==
    \/ CheckFlags \/ Parse \/ Complete
    \/ NewJob \/ TemplateContainer \/ Replica \/ Totals \/ BuildScripts
    \/ Terminated

Spec == Init /\ [][Next]_vars

-----------------------------------------------------------------------------
(***************************************************************************)
(* What the size of the Job must be.                                       *)
(***************************************************************************)

\* The containers that run the script.
WorkersOf(cs) == {k \in DOMAIN cs : cs[k].worker}

\* The sum of a quantity over the containers ks: the units requested, each
\* counted with the container that requests it.
Units(cs, ks, field) == UNION {{k} \X (1..cs[k][field]) : k \in ks}
Sum(field) == Cardinality(Units(containers, WorkersOf(containers), field))

Container == [worker : BOOLEAN, cpus : Nat, gpus : Nat, mem : Nat, limit : Nat]

\* The variables have their types; the three sizes stay int32 values.
TypeOK ==
    /\ in \in Input
    /\ pc \in {"flags", "parse", "complete", "build", "template", "script", "done", "error", "panic"}
    /\ nodes \in Optional(GoInt) /\ nTasks \in Optional(GoInt) /\ perNode \in Optional(GoInt)
    /\ containers \in Seq(Container) /\ completions \in Int
    /\ total \in [cpus : Nat, gpus : Nat, mem : Nat]
    /\ env \in [cpusOnNode : Nat, gpus : Nat, memPerNode : Nat, cpusPerGpu : Nat]

\* A Job that is built has at least one node and one task per node, and its
\* three sizes agree as int32 values (slurm_builder.go:405-436), whichever of
\* the three were given, and from flags or script.
SizesAgree ==
    pc = "done" =>
        /\ Deref(nodes) >= 1 /\ Deref(perNode) >= 1 /\ Deref(nTasks) >= 1
        /\ Deref(nTasks) = Wrap(Deref(nodes) * Deref(perNode))

FirstIsWorker == in.template # <<>> /\ IsWorker(1)

\* A Job made from a template with one container, a worker, runs the script in
\* as many containers as there are tasks, or that many for each index of an
\* array (slurm_builder.go:295-315), unless their number overflows.
RunsEveryTask ==
    pc = "done" /\ Len(in.template) = 1 /\ FirstIsWorker /\ Deref(nodes) * Deref(perNode) \in GoInt =>
        /\ \A i \in DOMAIN containers : containers[i].worker
        /\ LET pods == IF in.array # 0 THEN 1 ELSE completions
           IN  pods * Len(containers) = Deref(nTasks)

\* When the flags give the workers requests, SLURM_CPUS_ON_NODE is the sum of
\* the CPUs that the containers which run the script request
\* (slurm_builder.go:228-319), and without --mem-per-task SLURM_MEM_PER_NODE
\* that of their memory, whatever the template requested and whatever is
\* replicated; provided that the container which is replicated is a worker.
\* Nothing is claimed of what other containers request, nor of what a worker
\* keeps from its template when no flag replaces it: the totals leave it out,
\* although docs/run_slurm.md:79 speaks of the CPUs of the pod.
TellsWhatIsRequested ==
    pc = "done" /\ FirstIsWorker /\ Asked =>
        /\ env.cpusOnNode = Sum("cpus")
        /\ in.memFlags \cap {"cpu", "gpu"} # {} => env.memPerNode = Sum("mem")

\* Building panics only on a template without containers or on a negative
\* number of nodes in the script, which, unlike the flag, is not checked
\* (create.go:656-678, slurm_builder.go:539).
PanicsOnlyOnBadInput ==
    pc = "panic" => in.template = <<>> \/ \E v \in in.script.nodes : v < 0

\* The strengthening that makes SizesAgree and PanicsOnlyOnBadInput inductive:
\* what holds of the three sizes before and after complete.
Given ==
    pc = "complete" =>
        /\ nodes \in {in.flags.nodes, in.script.nodes} /\ perNode = in.flags.perNode
        /\ nodes = in.flags.nodes \/ in.flags.nodes = {}

Checked == pc \in {"parse", "complete"} => FlagsOK

Good(n, t, p) ==
    /\ t >= 1
    /\ n >= 1 => p >= 1 /\ t = Wrap(n * p)
    /\ n < 1 => \E v \in in.script.nodes : v < 0

Sized ==
    pc \in {"build", "template", "script", "done"} =>
        /\ Good(Deref(nodes), Deref(nTasks), Deref(perNode))
        /\ ArrayOK(Deref(nodes))
        /\ pc = "done" => completion > 0
=============================================================================
