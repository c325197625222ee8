# kjobctl in TLA+

A verification project for kjobctl, the command line tool of kjob: models of
what its commands do in TLA+, checked by TLC on small instances, and theorems
about them that TLAPS proves for every value of the constants.

`PROJECT.json` lists every run, the source lines behind every definition, the
hazards, the findings and the theorems.

## 1. The system

kjobctl creates Jobs, interactive Pods, RayJobs, RayClusters and Slurm-like
jobs from an ApplicationProfile and templates stored in the cluster, and lists,
describes and deletes them. There is no server: every command is a process that
talks to the Kubernetes API server, next to controllers, kubelets, the garbage
collector and other users' commands.

| Component | State | Operations | Correct when |
|---|---|---|---|
| create command (`create.go`: Complete, Run, createObject) | options; position in the list of objects | check flags, build, Create root, Create children with the root as owner, dispatch | objects appear in order and a failure leaves a prefix; dry runs leave nothing; children go when their root goes |
| create slurm --wait (`create.go`: watchJobAndStreamLogs ...) | two watches, signal, timer and error channels, `activeStreams`, one goroutine per event and per log | watch pods, stream logs, watch the job, select, remove | each log opened once and completely; the wait ends when it must, and only then; `--rm` removes |
| create interactive (`create.go`: RunInteractivePod, attachTTY; `helpers.go`) | result, `o.ErrOut`, deferred function | poll, get, attach, deferred Delete | no way out leaves the pod behind; the exit status is that of the session |
| delete commands (`pkg/cmd/delete`) | position in the list of names | Get, check labels, Delete by name, print | only objects of the right mode go; dry runs delete nothing; `--cascade` is honoured |
| Slurm builder: sizes and resources (`slurm_builder.go`) | nodes, ntasks, ntasks-per-node, totals | parse, complete, container loops, totals, node list | the sizes agree; one container per task; what the script is told is what is requested |
| Slurm builder: input (`slurm_builder.go`: parse, getSbatchEnvs, replaceScriptFlags) | the same fields, from three places | read the script, merge, parse the array, rewrite the script, label | a flag beats a variable beats a directive; every index is one pod's task; the script that runs is the one that was written |
| parsers (`pkg/parser`: slurm, array_indexes, time_limit) | the line being joined, the loop variable | directives, srun and its options, refused commands; lists, ranges, steps; six time formats | the lines, the set of indexes, the seconds that were written, or an error |
| builder pipeline (`builder.go` and one builder per mode) | what each Get returned; the object under construction | flags of the subcommand, checks, five kinds of Get, required flags, metadata, pods, clusters, build | what is built can be found again; nothing required is missing; the queue is the one asked for |
| list, describe, completion (`pkg/cmd/list`, `describe`, `completion`) | the continue token, whether the header was printed, what was printed | pages, two Lists for describe slurm, names for the shell | every object once, however the answer is paged; suggested names are accepted |
| init and entrypoint scripts (`templates/*.tmpl`) | files in the pod | wait for the first node's address, export variables | every index gets its own variables |
| API types, generated clients, printcrds, version, documentation generator, test fakes | none | declarations, output | not modelled |

Components meet in the cluster, which is shared state: Run creates the Job that
the waiting goroutines watch; the deferred Delete, `removeObject` and
`delete` work on what Run created; the garbage collector ties children to the
root through the owner reference that createObject writes. Run calls
watchJobAndStreamLogs and RunInteractivePod as its last step; the builder calls
the parsers and hands Run its objects.

Hard to test are: the goroutines of `--wait` against events, signals, timer and
broken watches; events that are stale when a goroutine gets to them; failures
between two Create calls; an object that is replaced between Get and Delete, or
between two pages of a list; a template that changes between two Gets; the
order of the deferred function and the evaluation of the result; int32
arithmetic with floats, overflow and values the script may contain but the
flags may not. Each is listed with its line under "hazards" in `PROJECT.json`.

## 2. The modules

| Module | Models | Read with |
|---|---|---|
| `SlurmWait` | create slurm --wait, with all its goroutines, and the cluster around it | `MCSlurmWait`, `SlurmWaitProofs` |
| `WaitContract` | what that wait promises to Run, abstractly | implemented by `SlurmWait`, used by `CreateCommand` |
| `CreateCommand` | create in all five modes: Complete, Run, createObject | `MCCreateCommand`, `CreateCommandProofs` |
| `InteractivePod` | create interactive after the pod was created | `InteractivePodProofs` |
| `DeleteCommand` | the five delete commands, several users at once | `MCDeleteCommand`, `DeleteCommandProofs` |
| `BuildPipeline` | from the command line to the objects: flags, checks, Builder.Do, the five build functions | `MCBuildPipeline`, `BuildPipelineProofs` |
| `TimeLimit`, `ArrayIndexes`, `SlurmScript` | the three parsers, as operators and (for the loop over a range) actions | used by `SlurmInput` |
| `SlurmInput` | create slurm from flags, variables and script to array, labels and rewritten script; composes the three parsers | `MCSlurmInput`, `SlurmInputProofs` |
| `Queries` | the list and describe commands and the completion functions, while the cluster changes | `MCQueries`, `QueriesProofs` |
| `SlurmSizing` | the size of a Slurm job and the numbers its script sees | `MCSlurmSizing`, `SlurmSizingProofs` |

Actions carry the name of the function or of the case they model; a definition
followed by an underscore (`JobOver_NotDeleted`) is a mutant of the definition
after it, a bug that a property must find, and is not part of any specification.

**SlurmWait.** `main` is the main goroutine (`call`, `select`, `remove`,
`returned`, `killed`); `watcher`, `watcherErrChan`, `verifier` and
`jobCompletionErrChan` are watchJobPods, verifyJobFinished and their channels;
`spawned` the streamLogsFromPod goroutines that were started and have not yet
reached `LoadOrStore`; `activeStreams` and `stream` the rest of each stream.
`SelectCancel`, `SelectWatcher` and `SelectVerifier` are the cases of the
select, of which any that is ready may be taken. A goroutine's call of the API
server is one action that may also fail. When main returns its context is
cancelled and the process ends, so goroutines only step while main has not
returned. The code has one FIFO for all pods; the model has one per pod and
takes the head of any of them, since an event only starts a goroutine that
depends on no other pod. Two goroutines for the same pod and phase are one
element of `spawned`: the second does nothing after `LoadOrStore`.
External: the pods' life, the job's conditions, other clients, and the two
watches, which begin with Added events for what is there, deliver changes in
order and may be closed by the server at any time.

**WaitContract.** The call is entered, waits, perhaps removes and returns; a
success without a signal needs a job that is over or a watch that was cut, a
cancelled call with `--rm` deletes the job or returns the error.
`SlurmWait!Contract` is the refinement mapping: both end conditions of a job are
`over`, and a watch that the server closed is `cut`.

**CreateCommand.** `Complete`, `Build`, `CreateRoot`, `CreateChild`, `Dispatch`
are the steps of Run. A Create call that returns an error may nevertheless have
been carried out. `Persists` is the dry-run decision, `Store` the child with its
owner reference. `Waiting` takes the steps of `WaitContract` on the root;
`Session` is the result of `InteractivePod`. Other users delete the root at any
time and the garbage collector removes children whose owner is gone.

**InteractivePod.** One action per call of RunInteractivePod, attachTTY and the
poll. `Return` evaluates the result and goes to the deferred function, as Go
does; `errOut` is whether `o.ErrOut` is non-nil. A signal kills the process.

**DeleteCommand.** For each client a command line and a position. `Complete`
refuses values of --dry-run and --cascade that it does not know; then
`GetObject`, `DeleteObject`, `PrintObject` for each name. `DeleteJob`,
`DeleteSlurm`, `DeleteInteractive`, `DeleteRayJob` and `DeleteRayCluster` are the
same `Step` with the command's resource and the modes it accepts. `gen` counts
the objects that a name stood for (their UIDs); `deletions` is a history of what
commands deleted, with what their Get had seen. External: the API server's
Delete with its three propagation policies, the garbage collector, other clients
that delete, and create under a free name.

**BuildPipeline.** `Offers` is which flags a subcommand has, `Accepted` the checks
of cobra and of Complete. Then come the steps of Builder.Do in the code's order:
the clients, the LocalQueue and the priority class, the profile and its mode, the
volume bundles in the profile's order, the required flags, for Slurm the script,
and the template with the build function of the mode, which shares
`buildObjectMeta`, the pod and the cluster parts with the others. Each Get
answers for itself, since the cluster may change between two of them, and may
fail. Texts of flags are their own names, except empty, blank and unparsable
ones; pods keep the parts that kjob writes. `Admitted` is the CEL rules on
required flags in the API types.

**SlurmInput.** `ReadScript`, `getSbatchEnvs`, `replaceScriptFlags`, `ParseArray`
(which takes one step per turn of the range loop), `ScanLine` for each line of
the script, `ScanEnd`, `BuildLabel`. `SlurmScript` has the words as model
values with the attributes the parser looks at: whether a word contains a
command's name, is an assignment, an option, or an option with its value. So
how a line is split into words is not modelled, and what is done with the words
is. `ArrayIndexes` and `TimeLimit` see numbers and separators instead of
characters, and int32 of width `Half`; a loop that wraps and appends for ever
ends at `Memory`. `Denoted` and `Meant` are the reference definitions.

**Queries.** One process, one command. `ListJob` ... `ListRayCluster` are
`RunList` with their selectors; a List call returns a page of the objects that
were there when the first page was asked for, with a token that other clients'
changes do not affect, or fails; the last pages may be empty. `Find`,
`getConfigMaps`, `DescribeNext` and `DescribeEnd` are describe; `JobNameFunc`,
`PodNameFunc` and the others are the completion functions. `stable` is a history
of the objects that were there all the time.

**SlurmSizing.** `CheckFlags` (create.go), `Parse`, `Complete`, then build:
`NewJob`, `TemplateContainer` and `Replica` (one turn of each loop), `Totals`,
`BuildScripts`. The width of integers is the constant `Half`. `Quotients` is
int32 of a float division, where Go leaves the result of converting infinities
and values out of range to the platform: the model allows what amd64 and arm64
produce. The parsed script is an input (`scriptOK` stands for everything else
the parser checks).

## 3. The runs

| Run | Shows |
|---|---|
| `wait` | The log of a selected container is opened at most once and no other's (`OneStreamPerContainer`); a finished log is complete although Follow was decided on a stale phase (`DoneMeansComplete`); success is explained by a finished job or a closed watch (`SuccessIsExplained`); cancelling with --rm removes or reports (`CancelRemoves`); while the pod watch is open every started pod has its streams or is about to get them (`NoPodIsMissed`), and no step of a waiting command drops the news that the job is over (`EndIsNotLost`); SlurmWait implements WaitContract (`KeepsContract`). |
| `wait_live` | The wait ends once the end of the job is on its way (`EndOfJobEndsWait`) and, with a timeout, always (`TimeoutEndsWait`); a started pod's log is opened or an error is reported, unless the wait ends first (`StartedPodIsStreamed`). |
| `interactive` | With --rm every return after the client was obtained leaves no pod, unless the Delete failed (`LeavesNoPod`); the exit status is the session's (`ResultIsOutcome`); the poll ends (`PollEnds`). |
| `create` | Dry runs persist nothing; objects appear as a prefix; success means that all of them were created; children of a root that is deleted at any time, even between two Create calls, are collected. |
| `delete` | Objects of another mode are deleted only if they replaced the checked one between Get and Delete (`DeletesOnlyItsMode`); however a command ends, the names before its position are done, those behind it untouched, and a dry run has deleted nothing (`NothingSkipped`); after success nothing that was there and deletable is alive (`SuccessMeansGone`); dependents are orphaned exactly when somebody asked for it (`CascadeHonoured`). |
| `slurm_sizing` | The three sizes agree as int32 values; a one-container template gives as many containers as tasks; when the flags ask for something, SLURM_CPUS_ON_NODE and, per CPU or GPU, SLURM_MEM_PER_NODE are what the containers that run the script request, whatever the template brings (`TellsWhatIsRequested`); only a template without containers or a negative number of nodes in the script makes the builder panic. |
| `slurm_input` | Flags override variables and variables override directives, field by field (`Precedence`); each index an array denotes is the task of exactly one pod (`ArrayAsWritten`); a limit an int32 can hold becomes the label, to the second, in all formats (`TimeAsWritten`); the script that runs is the one that was written, srun replaced by its program (`ScriptAsWritten`), and a command of Slurm is left only behind a word that contains its name or, an srun, behind the one that was replaced (`NoSlurmCommandLeft`). |
| `build` | What is built carries the labels by which list, describe and delete find it, and the parts of a Slurm job name one another (`Findable`); every container of every pod but kjob's own init container gets the bundles' volumes once and the right variables (`ContainersServed`); the queue is the one --localqueue asked for, checked (`QueueAsAsked`); each required flag was given, and those that have a place of their own in the object are there with their value (`FillsTheGaps`). |
| `query` | A list shows one header and every object that matched when it began, once, or nothing (`ListExact`); describe shows all that stayed, a Slurm job next to its ConfigMap (`DescribedTogether`); completion suggests exactly the names the delete command takes (`SuggestionsUsable`). |

Three runs show where the program does not do what its text says:

| Run | Finding |
|---|---|
| `wait_expiry` | When the API server closes a watch, `--wait` returns success while the job is running; its help says it waits for completion. |
| `dryrun_delete` | `--dry-run --wait --rm` sends a real Delete call after a signal or timeout, for the name that was only printed. |
| `interactive_nilerr` | After a session in a raw terminal `o.ErrOut` is nil; a failing deferred Delete writes to it. |

Four more places where the documentation and the code differ were met while
modelling. No run is about them; the models follow the code:

* `docs/run_slurm.md:79` calls SLURM_CPUS_ON_NODE the "Number of CPUs on the
  allocated node (actually pod)". It leaves out what a container that is no worker
  requests in the template (`slurm_builder.go:231`), and what a worker keeps from
  its template when no flag replaces it (`slurm_builder.go:263`).
* `docs/run_slurm.md:29` and `:42` list -c and -D, --chdir among the options that can
  be given by a directive. To the parser (`slurm.go:97`) they are unknown flags:
  refused or, with --ignore-unknown-flags, passed over.
* `docs/run_slurm.md:57` says of SBATCH_MEM_PER_CPU "Same as --mem-per-cpu". It sets
  the memory per task (`slurm_builder.go:690`).
* `docs/run_slurm.md:41` and the help (`create.go:462`) say that --partition is the
  local queue name. It is merged from flag, variable and script
  (`slurm_builder.go:725`, `:794`) and used nowhere.

Each property of a passing run has a mutant under "mutants" that breaks it.
The type invariants of `InteractivePod`, `CreateCommand` and `DeleteCommand` are in
no run: they are proved, and serve the proofs.

### Bounds

* `wait`: one pod with two containers, one of them selected, all eight
  combinations of --rm, timeout and dry run. Streams of different pods share
  only the select, so one pod with several events meets every race of
  `LoadOrStore`; the proofs cover any number. Queues are not bounded: a pod
  has at most four events. `wait_live` has one container and the two
  combinations in which the cluster alone, and the timer too, can end the wait.
* `create`: all requests of all modes, two children, as the Slurm builder
  returns (a ConfigMap and a Service).
* `delete`: two users out of eight command lines that meet on a name, name one
  twice, use the wrong mode, the wrong kind, dry runs and a value that is
  refused; two Jobs, a RayJob and a Pod, one of the Jobs (`b`) of any mode or
  foreign (`Starts`) and its name used twice (`MaxGen`). The users are symmetric.
* `slurm_input`: the groups of `MCInputs` vary one concern each: all lists of up
  to three and all ranges over 4-bit integers with every step and limit; all time
  formats with fields up to and beyond the largest integer, a minute of 2 seconds
  and a day of 2 hours, so that each field can overflow; 16 sets of flags with
  every set of variables, empty ones too, and ten headers of scripts; all lines
  of up to three out of sixteen words, and lines joined, blank, or doubled around
  them. `Memory` is more than any array that does not wrap needs.
* `build`: the groups of `MCLines` vary the labels, the required flags, the
  workers of a Slurm job and what is refused, each with profiles of no, one or
  two bundles in both orders and all admitted pairs of required flags, and
  templates with and without labels, with one or two containers, with and
  without a cluster.
* `query`: every set of seven Jobs and ConfigMaps in two namespaces, or of three
  objects of another kind; pages of one, two or unlimited (a limit of zero or less); one change of the
  cluster at any time (`MaxChanges`), a completion limit of two.
* `slurm_sizing`: integers of 4 bits (`Half` = 8), all sizes from flags, all
  from scripts (negative and zero too), and separately all resource flags with
  templates of 0 to 2 containers, with and without requests and limits of their
  own, of which any may be the worker. Fractions and products that
  overflow to negative and to positive numbers occur at this width, and the
  theorems hold for every width.
* `interactive` needs no bound.

### Fairness

Weak fairness only, of steps the process itself or time takes: the Go scheduler
runs a goroutine that can run; calls of the API server return, with a result or
an error; timers fire. `CreateCommand` also assumes that the garbage collector
collects. Nothing is assumed of users, of pods, of jobs, or that a watch is
closed or a log ends. `Select` is fair as a whole: which of the ready cases it
takes is left open.

### What the properties do not say

* verifyJobFinished ignores Added events, so a job that is over before the watch
  is dialled does not end the wait; `EndOfJobEndsWait` starts from the Modified
  and Deleted events.
* When the job is over, streams that are still copying are cancelled. Only
  streams that end by themselves are claimed to be complete.
* A failed stream is never opened again, since its pod stays in `activeStreams`.
* Containers that the kubelet restarts (restartPolicy OnFailure) are not modelled:
  in `DoneMeansComplete` a container that has exited has exited for good.
* A killed process runs no deferred function: `LeavesNoPod` is about returns.
* Replicas copy the first container even if it is not a worker; properties about
  containers require that it is one (`FirstIsWorker`).
* Agreement of sizes is modulo the width: a product that overflows to a positive
  number is accepted by the code (`slurm_builder.go:434`), and neither `SizesAgree`
  nor `TypeOK` objects to it; `RunsEveryTask` excludes it.
* `TellsWhatIsRequested` is about the containers that run the script, under flags
  that give them requests. A worker's requests are then replaced as a whole; without
  such flags they stay the template's (`slurm_builder.go:263`) and those of a
  container that is no worker always do (`slurm_builder.go:231`), and the totals
  count neither. It is about CPUs and, per CPU or GPU,
  memory: SLURM_GPUS
  leaves out the GPUs of replicas (`slurm_builder.go:295`, while
  `docs/run_slurm.md:85` says total), and a replica's --mem-per-task is not added.
* `Precedence` leaves out memTask and memCpu, since SBATCH_MEM_PER_CPU sets the
  memory per task (`slurm_builder.go:690`), and
  directives with a space instead of `=` or with several options, of which the
  parser reads none and the first. Which directives there are is taken from the
  parser (`slurm.go:94`), so that -c and -D, --chdir are unknown flags. A quantity's variable that is set but empty is an
  error.
* `ArrayAsWritten` excludes ranges whose loop variable wraps
  (`array_indexes.go:140`): the help's largest index, 2147483647
  (`create.go:434`), fills the memory. Mixed lists such as the help's
  "0,6,16-32" (`create.go:432`) are refused.
* `TimeAsWritten` excludes limits beyond int32 seconds, which wrap; a limit of
  zero does not remove the label of a template.
* `ScriptAsWritten` is about srun lines whose options bring their value
  (`Readable`): after an unknown option without one the flag set swallows the
  next word, it strips options behind the program too, and a last line that ends
  in a backslash is dropped. Lines are sequences of words, so the indentation
  that TrimSpace removes (`slurm.go:221`), in a here-document for example, cannot
  be seen.
* `NoSlurmCommandLeft` says where a command of Slurm stays. findCommand looks at the
  first occurrence of a name in a line only (`slurm.go:287`), so one behind a word
  that contains its name is not found, and of several srun of a line the first is
  replaced (`slurm.go:238`): "srun a && srun b" runs srun in the pod.
* `ContainersServed` leaves out slurm-init-env, the init container kjob adds
  (`slurm_builder.go:183`): it mounts kjob's two volumes, none of the bundles', and
  has none of the variables.
* `QueueAsAsked` is about --localqueue. A queue that the user names with --partition
  is ignored; the property says that the template's stays.
* `FillsTheGaps` claims a place and a value for the flags of `Placed`. Of the other
  flags of Slurm it claims that they were given; what becomes of them is the subject
  of `SlurmSizing` and `SlurmInput`, and the partition is used nowhere. A limit of
  zero becomes no label, and a RayJob without a cluster of its own has no groups
  that the replica counts could be in. It excludes mem and the two maps of pod template labels and
  annotations, which validateFlags never misses. Required flags are checked before
  the script and the variables are read, so a value from there does not count.
  The rules on profiles (`types.go:82`) admit requirements that a subcommand has no
  flag for; such a mode can never be created. --replicas is cut to int32
  (`builder.go:711`) and unknown worker groups are ignored; a pod's labels are
  replaced by --pod-template-label even if it is not given.
* `DescribedTogether` is about one namespace: describe slurm selects on no mode
  (`describe.go:283`), and its ConfigMaps on no profile or selector and never on
  all namespaces (`describe.go:316`); without its ConfigMap a Slurm job cannot be
  described by name.
* `SuggestionsUsable` is exact below the limit only: the limit is applied before
  the names already typed are taken away.

## 4. The proofs

`SlurmWaitProofs`, for any pods, containers, flags and selection:

* `TypeCorrect`: `TypeOK` is inductive.
* `OneStream`: from `TypeOK` and `StreamInv`. The property alone is not
  inductive: a stream in state `opening` must be known to be unopened, and a pod
  outside `activeStreams` to have only idle streams.
* `CompleteLogs`: `ExitInv` follows the news that a pod finished from the cluster
  through the event queue and the started goroutine to `follow`: a stream that
  does not follow was started for containers that had exited, and containers do
  not start again.
* `SuccessExplained`: `EventsTrue` (queued events are true and stay true),
  `WatchesOff` and `ResultTrue` (what is in a channel is explained by job or
  watch).
* `CancelledIsRemoved`: `RemoveInv`.
* `EveryPodNoticed`: `NoPodIsMissed` follows the news that a pod has started from
  the cluster, or from the list the dialled watch starts with, through the event
  queue to a goroutine and to the streams. It is inductive with `StreamsOn`: a
  second goroutine of a pod may end without doing anything, because the first one
  has started every stream in the step that claimed the pod.
* `EndReachesMain`: the step property `EndIsNotLost`, with `JobWatchRead` (a watch
  that is open has its reader). Together with the fairness of the scheduler it is
  why `EndOfJobEndsWait` holds; the fairness is left to TLC.
* `Implements`: `Spec => Contract!Spec`. The initial states map to initial
  states; steps of the cluster and main map to steps of the contract and those
  of other goroutines to stutters, by the invariants above.

`SlurmSizingProofs`, for every width of the integers and every input:

* `TypeCorrect`: by the range of `Wrap` and `Quotients`.
* `SizesAlwaysAgree` and `PanicsOnlyThere`: the invariant is `SizeInv`, which
  adds where the sizes come from (`Given`), that flags are positive (`Checked`)
  and what `complete` leaves behind (`Sized`). The arithmetic is in
  `ExactQuotient` (a quotient that passes the test for a fraction is exact) and
  `SizesGood` (each branch of `complete` yields sizes that agree, or keeps a
  negative number of nodes that it was given).
* `EveryTaskRuns` and `TotalsAreSums`: the invariant is `PodInv`. `Filled` ties the
  number of containers to the turn of the loop, `Requested` says that the running
  totals are the sums over the workers so far, whose requests are those of the flags
  if there are any (`Asked`), and `Told` that the environment
  repeats them. A sum is the number of units that are requested (`Units`), so
  that one container more is a disjoint union (`UnitsAppend`).

`InteractivePodProofs`, for any terminal and flags: `TypeCorrect`; `NoPodLeft` by
`CleanupInv` (before its last line the deferred function has removed the pod or
met an error, and neither is undone); `ExitStatus` by `ResultInv` (the result is
evaluated before the deferred function and stays).

`CreateCommandProofs`, for any number of children; of the wait only the steps of
`WaitContract` are used:

* `TypeCorrect`, with `made = 0` before the loop (`TypeInv`).
* `DryRunsPersistNothing`: inductive with the types, since only `CreateRoot` and
  `CreateChild` make objects and both ask `Persists`.
* `LeavesPrefix` and `SuccessCreated`: `ObjectsInv`. Neither property is inductive:
  `MadeInv` says which children exist at each turn of the loop, `SuccessInv` which
  position a command without an error has reached.
* `ChildrenAreOwned`: the safety half of `ChildrenFollowRoot`; that the garbage
  collector then collects is left to TLC.

`DeleteCommandProofs`, for any number of users, names, labels and reuses of names:

* `TypeCorrect`: from `ClusterInv` and `ClientInv`, which also say that an object
  that is there has its dependents and that a user in the loop is at a name.
* `ModeChecked`: `CheckedInv` says that what a user has learned from Get is true of
  the object as long as it is the same one (`gen`).
* `CascadeRespected`: `CascadeInv`, orphaned dependents are those of a deletion in
  the history that asked for it.
* `SuccessGone` and `NoneSkipped`: `GoneInv`, what holds of the names a user is done
  with, whether the command fails later or not, and `GoneStays`, that no other user
  undoes it. `BehindInv` ties each deletion in the history to a name up to the
  user's position and to a command without --dry-run; positions only grow
  (`PositionGrows`).

`SlurmInputProofs`, for every script, every set of flags and variables, every
width of the integers and every vocabulary:

* `SourcesRanked`: `MergeInv` gives the fields of the builder after each source
  (`WithEnv`, `WithScript`); `SlurmFlagsLatest` says that the loop over the
  directives, unless it fails, leaves the last value of each field.
* `ArrayExact`: `ArrayInv` with `Progress`, the indexes appended so far are those of
  the range below the loop variable, in order; `SortedIncreasing` for the lists.
* `TimeLimitExact`: `SecondsExact`, the wrapping sums of every format are exact if
  the result fits.
* `ScriptKept`: `ScanInv` with `Scanned`, each logical line that has ended is in its
  place and the words since the last end are kept. `LogicalIsWhole` connects it
  with the reference definition, and `SrunReadable` says that the flag set of srun
  and Slurm's own reading of the options agree on where the program starts.
* `CommandsGone`: `CleanInv`, findCommand finds nothing in a line that was written,
  and `CleanLine`, what that means for the words. For srun, `SrunLeft`: what the flag
  set leaves are words of the line (`SrunArgsWords`), so an srun that is left was
  behind the one that was replaced.

`BuildPipelineProofs`, for every profile the API server admits, every bundle and
every template:

* `ObjectsFindable`, `QueueOfTheUser` and `GapsFilled`: `CheckedInv` says which
  checks a command line has passed at each step and that the user's time limit is
  the one in force, `BuiltInv` what is true of the
  object made (`GoodObject`). One lemma for each build function (`JobBuilt`,
  `SlurmBuilt` ...) rests on those about labels (`LabelsAreOurs`) and pods
  (`PodBuilt`) and worker groups (`GroupCounts`), and `OnlyOffered` excludes flags the subcommand does not have.
* `ContainersGetEverything`: `FetchedInv` says that the bundles fetched so far are
  the profile's, in its order, and `ServedInv` that each container of the object is
  a good one (`GoodContainer`). By induction over the bundles (`BundlesMerged`)
  what mergeBundles joins names each mount once and has a variable last in the
  last bundle that sets it. One lemma for each build function (`JobMade`,
  `RayJobMade`, `SlurmMade` ...) says that a container of the result is one of the
  template with the bundles' and kjob's entries in a fixed order (`MadeOf`), and
  `ContainerMade` that such a container is good. The copies of a Slurm job's first
  container are covered for any number of tasks (`NamesOfCopies`).

`QueriesProofs`, for every cluster, limit, paging and change in between:

* `ListShowsAll`: `ListInv`, what is buffered is the table of what was matched
  without what is left.
* `DescribeShowsTogether`: `DescribeInv`, what is shown is in the order of names,
  nothing to come is smaller, and nothing that stayed is lost.
* `SuggestionsAreUsable`: by counting, since the limit is applied before the names
  already typed are taken away.

Recursive functions over lines, words and bundles are reasoned about by induction
over sets of numbers: `Smallest` and `Induction` in `SlurmInputProofs` and
`BuildPipelineProofs` follow from the well-foundedness of Nat, and `Recursion` and
`DownRecursion` say that the functions exist.

Assumptions are on constants only, and TLC evaluates them on every run:

| Assumption | Says | Because |
|---|---|---|
| `OptionsAssumption`, `FlagsAssumption`, `CreateAssumption` | flags are Booleans, requests have the fields of `Request` | their Go types |
| `HalfAssumption`, `TimeAssumption`, `MemoryAssumption` | an integer has a bit or two, a minute and a day are positive, there is memory | true of int32 and of the calendar |
| `InputsAssumption`, `WordAssumption`, `TakesAssumption` | inputs and script lines have their types; an option starts with a dash, `--` alone is none, a word does not properly contain itself; an option that takes the next word has no value of its own | what the words stand for |
| `DeleteAssumption`, `RequestsAssumption` | labels are labels, a command line has a name | `cobra.MinimumNArgs(1)` |
| `ProfilesAdmitted`, `TemplatesAssumption` | profiles keep the CEL rules; an object has its fields and a pod a container | the API server refuses others |
| `BundlesAssumption`, `PodsAssumption` | a mount names a volume that its bundle or pod brings, and a path is mounted once; the template, the bundles of a profile and kjob bring no volume of the same name; the command `entrypoint` and the value `unset` are used by kjob only | the list keys of `VolumeBundleSpec` (`volumebundle_types.go`), the API server's validation of pods, and tokens of the model |
| `LinesAssumption` | the number of tasks is a natural number, --cmd is not the token `entrypoint` | `SizesAgree`, and the token of the model |
| `QueriesAssumption` | clusters are finite, a name of a kind stands for one object in a namespace, limits are integers | the API server and the type of --limit |

Only model-checked are the liveness properties `EndOfJobEndsWait`,
`TimeoutEndsWait`, `StartedPodIsStreamed`, `PollEnds` and `ChildrenFollowRoot`,
since TLAPS 1.4.5 reasons neither about fairness nor about ENABLED. The safety
behind three of them is proved: `EndReachesMain`, `EveryPodNoticed` and
`ChildrenAreOwned`.

## 5. Not modelled

Contents of logs, terminals and printed objects; layout and wording of list and
describe (the printers, most of `describe/helpers.go`); how a line of a script is
split into words and quotes; completion of namespaces, contexts, clusters and
users, which reads a kubeconfig or one list; generated clients and API types but
for the rules on required flags; printcrds, version and the documentation
generator; test fakes. None of them has state of its own that another part
depends on.

The scripts that run in the pods are shell. What is put into them is modelled;
the loop that waits for the first node's address is not. With fewer pods in
parallel than completions its first pod may be gone before a later one looks for
it, which then waits for the whole --first-node-ip-timeout.

## 6. Plan

The components that have state are modelled, and every invariant and action
property of the passing runs is proved. What is left:

1. Step properties that follow from the invariants and are not stated yet: that a
   result, once evaluated, stays, and that what a delete command has seen gone is
   never deleted again by it.
2. The loop in the entrypoint script that waits for the first node's address, as a
   component of its own beside the pods of a Slurm job.
