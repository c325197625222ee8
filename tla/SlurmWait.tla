------------------------------ MODULE SlurmWait ------------------------------
(***************************************************************************)
(* kjobctl create slurm --wait [--rm] [--wait-timeout d]                   *)
(* (pkg/cmd/create/create.go, watchJobAndStreamLogs and what it starts).   *)
(*                                                                         *)
(* The command runs a main goroutine that selects over a signal, a timer   *)
(* and two error channels; a goroutine that watches the pods of the job    *)
(* and starts one goroutine per interesting event, which in turn starts    *)
(* one log stream per container; and a goroutine that watches the job      *)
(* until it is over.  They run against a cluster (the job controller, the  *)
(* kubelets, the API server's watches and other clients) that moves at its *)
(* own pace and that is modelled from how the code uses it.                *)
(*                                                                         *)
(* The pod watch is one FIFO channel in the code.  Here each pod has a     *)
(* FIFO of its own and the consumer may take the head of any of them: the  *)
(* order of events of different pods does not matter to the code, which    *)
(* only starts an independent goroutine for each.                          *)
(***************************************************************************)
EXTENDS Naturals, Sequences

CONSTANTS
    Pods,               \* the pods the job may create
    Containers,         \* pod.Spec.Containers of those pods
    SlurmInitContainer, \* builder.SlurmInitContainerName
    StreamContainers,   \* --stream-container, {} when it is not given
    Options             \* the combinations of the other flags, see opts

ASSUME OptionsAssumption == Options \subseteq [rm : BOOLEAN, timeout : BOOLEAN, dryRun : BOOLEAN]

VARIABLES
    \* the cluster
    job,           \* "absent", "active", "Complete", "Failed", "deleted"
    phase,         \* pod.Status.Phase of each pod; "none" before it exists, "gone" after
    exited,        \* the containers of each pod that have exited
    jobWatch,      \* "none", "open", "closed" by the server, "stopped" by the client
    jobEvents,     \* undelivered events of the job watch
    podWatch,
    podEvents,     \* for each pod, the undelivered events of the pod watch
    \* the command
    opts,          \* o.RemoveObject, o.WaitTimeout > 0, o.DryRunStrategy # DryRunNone
    main,          \* watchJobAndStreamLogs: "call", "select", "remove", "returned", "killed"
    cause,         \* the case of the select that was taken
    errs,          \* the errors joined in what the command returns, {} for success
    sigChan,       \* a signal is buffered
    waitTimeoutDone,      \* the channel is closed
    watcher,              \* watchJobPods: "off", "dial", "range", "done"
    watcherErrChan,       \* "empty", "nil", "err"
    verifier,             \* verifyJobFinished
    jobCompletionErrChan,
    spawned,       \* <<pod, phase>> of the streamLogsFromPod goroutines yet to run
    activeStreams, \* o.activeStreams
    follow,        \* for each pod, PodLogOptions.Follow of its streams
    stream,        \* the state of each streamLogsFromPodContainer
    opened         \* how many times each container's log was opened

clusterVars == <<job, phase, exited>>
watchVars   == <<jobWatch, jobEvents, podWatch, podEvents>>
mainVars    == <<main, cause, errs, sigChan, waitTimeoutDone>>
waiterVars  == <<watcher, watcherErrChan, verifier, jobCompletionErrChan>>
streamVars  == <<spawned, activeStreams, follow, stream, opened>>
vars == <<clusterVars, watchVars, opts, mainVars, waiterVars, streamVars>>

Logs == Pods \X Containers

Conditions == {"Complete", "Failed"}
Terminal   == {"Succeeded", "Failed"}
Exists     == {"Pending", "Running"} \cup Terminal

JobEvent == [type : {"Added", "Modified", "Deleted"},
             cond : Conditions \cup {"none"}]   \* the condition that is true, if any
PodEvent == [type : {"Added", "Modified", "Deleted"},
             phase : Exists]

WatchState == {"none", "open", "closed", "stopped"}
ErrChan    == {"empty", "nil", "err"}

Init ==
    /\ opts \in Options
    /\ job = IF opts.dryRun THEN "absent" ELSE "active"
    /\ phase = [p \in Pods |-> "none"]
    /\ exited = [p \in Pods |-> {}]
    /\ jobWatch = "none" /\ jobEvents = <<>>
    /\ podWatch = "none" /\ podEvents = [p \in Pods |-> <<>>]
    /\ main = "call" /\ cause = "none" /\ errs = {}
    /\ sigChan = FALSE /\ waitTimeoutDone = FALSE
    /\ watcher = "off" /\ watcherErrChan = "empty"
    /\ verifier = "off" /\ jobCompletionErrChan = "empty"
    /\ spawned = {} /\ activeStreams = {}
    /\ follow = [p \in Pods |-> FALSE]
    /\ stream = [l \in Logs |-> "idle"]
    /\ opened = [l \in Logs |-> 0]

-----------------------------------------------------------------------------
(***************************************************************************)
(* The cluster (external).  A change of an object is also an event on the  *)
(* watch that selects it, if that watch is open.                           *)
(***************************************************************************)

JobCondition == IF job \in Conditions THEN job ELSE "none"

JobNotify(type, cond) ==
    jobEvents' = IF jobWatch = "open"
                 THEN Append(jobEvents, [type |-> type, cond |-> cond])
                 ELSE jobEvents

PodNotify(p, type, ph) ==
    podEvents' = IF podWatch = "open"
                 THEN [podEvents EXCEPT ![p] = Append(@, [type |-> type, phase |-> ph])]
                 ELSE podEvents

clientUnchanged == UNCHANGED <<jobWatch, podWatch, opts, mainVars, waiterVars, streamVars>>

\* The job controller creates a pod of an active job.
PodCreate(p) ==
    /\ job = "active" /\ phase[p] = "none"
    /\ phase' = [phase EXCEPT ![p] = "Pending"]
    /\ PodNotify(p, "Added", "Pending")
    /\ UNCHANGED <<job, exited, jobEvents>> /\ clientUnchanged

\* The kubelet starts the pod's containers.
PodRun(p) ==
    /\ phase[p] = "Pending"
    /\ phase' = [phase EXCEPT ![p] = "Running"]
    /\ PodNotify(p, "Modified", "Running")
    /\ UNCHANGED <<job, exited, jobEvents>> /\ clientUnchanged

\* A container of a running pod exits while others run on.
ContainerExit(p, c) ==
    /\ phase[p] = "Running" /\ c \notin exited[p]
    /\ exited[p] \cup {c} # Containers
    /\ exited' = [exited EXCEPT ![p] = @ \cup {c}]
    /\ UNCHANGED <<job, phase, jobEvents, podEvents>> /\ clientUnchanged

\* The last container exits (or the pod is evicted while still pending), and
\* the job controller counts the pod in the status of the job.
PodFinish(p, ph) ==
    /\ phase[p] = "Running" \/ (phase[p] = "Pending" /\ ph = "Failed")
    /\ phase' = [phase EXCEPT ![p] = ph]
    /\ exited' = [exited EXCEPT ![p] = Containers]
    /\ PodNotify(p, "Modified", ph)
    /\ IF job \in {"active"} \cup Conditions
         THEN JobNotify("Modified", JobCondition)
         ELSE UNCHANGED jobEvents
    /\ UNCHANGED job /\ clientUnchanged

\* The job controller sets the Complete or the Failed condition.
JobFinish(cond) ==
    /\ job = "active"
    /\ IF cond = "Complete" THEN \A p \in Pods : phase[p] = "Succeeded"
                            ELSE \E p \in Pods : phase[p] = "Failed"
    /\ job' = cond
    /\ JobNotify("Modified", cond)
    /\ UNCHANGED <<phase, exited, podEvents>> /\ clientUnchanged

\* Somebody else deletes the job, or its TTL passes.
JobDelete ==
    /\ job \in {"active"} \cup Conditions
    /\ job' = "deleted"
    /\ JobNotify("Deleted", JobCondition)
    /\ UNCHANGED <<phase, exited, podEvents>> /\ clientUnchanged

\* The garbage collector removes the pods of a deleted job.
PodCollect(p) ==
    /\ job = "deleted" /\ phase[p] \in Exists
    /\ phase' = [phase EXCEPT ![p] = "gone"]
    /\ exited' = [exited EXCEPT ![p] = Containers]
    /\ PodNotify(p, "Deleted", phase[p])
    /\ UNCHANGED <<job, jobEvents>> /\ clientUnchanged

\* The API server ends a watch: its request timeout, a lost connection, or a
\* version that became too old.  (The Status object the last one sends is not
\* a pod or a job, so both loops skip it.)
JobWatchClose ==
    /\ jobWatch = "open" /\ jobWatch' = "closed"
    /\ UNCHANGED <<clusterVars, jobEvents, podWatch, podEvents, opts, mainVars,
                   waiterVars, streamVars>>

PodWatchClose ==
    /\ podWatch = "open" /\ podWatch' = "closed"
    /\ UNCHANGED <<clusterVars, jobWatch, jobEvents, podEvents, opts, mainVars,
                   waiterVars, streamVars>>

Cluster ==
    \/ \E p \in Pods : \/ PodCreate(p) \/ PodRun(p) \/ PodCollect(p)
                       \/ \E c \in Containers : ContainerExit(p, c)
                       \/ \E ph \in Terminal : PodFinish(p, ph)
    \/ \E cond \in Conditions : JobFinish(cond)
    \/ JobDelete
    \/ JobWatchClose \/ PodWatchClose

-----------------------------------------------------------------------------
(***************************************************************************)
(* watchJobAndStreamLogs.                                                  *)
(***************************************************************************)

\* K8sClientset fails: the command returns before it started anything.
ClientError ==
    /\ main = "call"
    /\ main' = "returned" /\ cause' = "client" /\ errs' = {"client"}
    /\ UNCHANGED <<clusterVars, watchVars, opts, sigChan, waitTimeoutDone, waiterVars, streamVars>>

\* From here signals go to sigChan; the two goroutines are started.
Start ==
    /\ main = "call"
    /\ main' = "select" /\ watcher' = "dial" /\ verifier' = "dial"
    /\ UNCHANGED <<clusterVars, watchVars, opts, cause, errs, sigChan, waitTimeoutDone,
                   watcherErrChan, jobCompletionErrChan, streamVars>>

\* SIGINT or SIGTERM: fatal before signal.Notify, buffered (one, the rest
\* are dropped) after it.
Interrupt ==
    /\ \/ main = "call" /\ main' = "killed" /\ UNCHANGED sigChan
       \/ main \in {"select", "remove"} /\ sigChan' = TRUE /\ UNCHANGED main
    /\ UNCHANGED <<clusterVars, watchVars, opts, cause, errs, waitTimeoutDone, waiterVars, streamVars>>

\* Mutant of TimerFires: the timer is only armed together with --rm.
TimerFires_OnlyWithRm ==
    /\ main = "select" /\ opts.timeout /\ opts.rm /\ ~waitTimeoutDone
    /\ waitTimeoutDone' = TRUE
    /\ UNCHANGED <<clusterVars, watchVars, opts, main, cause, errs, sigChan, waiterVars, streamVars>>

\* The timer goroutine, started when --wait-timeout is positive.
TimerFires ==
    /\ main = "select" /\ opts.timeout /\ ~waitTimeoutDone
    /\ waitTimeoutDone' = TRUE
    /\ UNCHANGED <<clusterVars, watchVars, opts, main, cause, errs, sigChan, waiterVars, streamVars>>

\* The select takes any case that is ready.  Signal and timeout end in
\* removeObject, which returns at once without --rm.
SelectCancel(why) ==
    /\ main = "select"
    /\ \/ why = "signal" /\ sigChan /\ sigChan' = FALSE
       \/ why = "timeout" /\ waitTimeoutDone /\ UNCHANGED sigChan
    /\ cause' = why
    /\ main' = IF opts.rm THEN "remove" ELSE "returned"
    /\ errs' = IF why = "timeout" THEN {"timeout"} ELSE {}
    /\ UNCHANGED <<clusterVars, watchVars, opts, waitTimeoutDone, waiterVars, streamVars>>

SelectWatcher ==
    /\ main = "select" /\ watcherErrChan # "empty"
    /\ main' = "returned" /\ cause' = "watcher"
    /\ errs' = (IF watcherErrChan = "err" THEN {"watcher"} ELSE {})
    /\ watcherErrChan' = "empty"
    /\ UNCHANGED <<clusterVars, watchVars, opts, sigChan, waitTimeoutDone,
                   watcher, verifier, jobCompletionErrChan, streamVars>>

SelectVerifier ==
    /\ main = "select" /\ jobCompletionErrChan # "empty"
    /\ main' = "returned" /\ cause' = "verifier"
    /\ errs' = (IF jobCompletionErrChan = "err" THEN {"verifier"} ELSE {})
    /\ jobCompletionErrChan' = "empty"
    /\ UNCHANGED <<clusterVars, watchVars, opts, sigChan, waitTimeoutDone,
                   watcher, verifier, watcherErrChan, streamVars>>

\* Mutant of RemoveObject: the error of the Delete call is dropped.
RemoveObject_ErrorDropped ==
    /\ main = "remove" /\ main' = "returned"
    /\ \/ /\ job \in {"active"} \cup Conditions
          /\ job' = "deleted" /\ JobNotify("Deleted", JobCondition)
       \/ UNCHANGED <<job, jobEvents>>
    /\ UNCHANGED <<phase, exited, jobWatch, podWatch, podEvents, opts, cause, errs, sigChan,
                   waitTimeoutDone, waiterVars, streamVars>>

\* removeObject: the Delete call of the API server, which fails for a job
\* that is not there (or for any other reason); an error of it is returned.
RemoveObject ==
    /\ main = "remove" /\ main' = "returned"
    /\ \/ /\ job \in {"active"} \cup Conditions
          /\ job' = "deleted" /\ JobNotify("Deleted", JobCondition)
          /\ UNCHANGED errs
       \/ /\ errs' = errs \cup {"remove"}
          /\ UNCHANGED <<job, jobEvents>>
    /\ UNCHANGED <<phase, exited, jobWatch, podWatch, podEvents, opts, cause, sigChan,
                   waitTimeoutDone, waiterVars, streamVars>>

\* Goroutines run until main returns, which cancels their context.
Running == main \in {"select", "remove"}

-----------------------------------------------------------------------------
(***************************************************************************)
(* watchJobPods.                                                           *)
(***************************************************************************)

\* The watch starts with one Added event for every pod that is there.
PodWatchDial ==
    /\ Running /\ watcher = "dial"
    /\ \/ /\ watcher' = "range" /\ podWatch' = "open"
          /\ podEvents' = [p \in Pods |-> IF phase[p] \in Exists
                                            THEN <<[type |-> "Added", phase |-> phase[p]]>>
                                            ELSE <<>>]
          /\ UNCHANGED watcherErrChan
       \/ /\ watcher' = "done" /\ watcherErrChan' = "err"
          /\ UNCHANGED <<podWatch, podEvents>>
    /\ UNCHANGED <<clusterVars, jobWatch, jobEvents, opts, mainVars, verifier,
                   jobCompletionErrChan, streamVars>>

\* Mutants of Interesting: without the switch over the phase; without its
\* cases for pods that have already finished.
Interesting_AnyPhase(e) == e.type \in {"Added", "Modified"}
Interesting_OnlyRunning(e) == e.type \in {"Added", "Modified"} /\ e.phase = "Running"

\* Does an event start a streamLogsFromPod goroutine?
Interesting(e) ==
    /\ e.type \in {"Added", "Modified"}
    /\ e.phase \in {"Running"} \cup Terminal

PodWatchEvent(p) ==
    /\ Running /\ watcher = "range" /\ podEvents[p] # <<>>
    /\ podEvents' = [podEvents EXCEPT ![p] = Tail(@)]
    /\ spawned' = IF Interesting(Head(podEvents[p]))
                    THEN spawned \cup {<<p, Head(podEvents[p]).phase>>}
                    ELSE spawned
    /\ UNCHANGED <<clusterVars, jobWatch, jobEvents, podWatch, opts, mainVars, waiterVars,
                   activeStreams, follow, stream, opened>>

\* The result channel is closed and drained: the range ends, nil is sent.
PodWatchEnd ==
    /\ Running /\ watcher = "range" /\ podWatch = "closed"
    /\ \A p \in Pods : podEvents[p] = <<>>
    /\ watcher' = "done" /\ watcherErrChan' = "nil"
    /\ UNCHANGED <<clusterVars, watchVars, opts, mainVars, verifier,
                   jobCompletionErrChan, streamVars>>

(***************************************************************************)
(* streamLogsFromPod and streamLogsFromPodContainer.                       *)
(***************************************************************************)

\* The containers whose log the user asked for.
Selected == {c \in Containers \ {SlurmInitContainer} :
                StreamContainers = {} \/ c \in StreamContainers}

\* Mutants of StreamLogsFromPod: LoadOrStore's answer is ignored; the log of
\* a running pod is not followed.
StreamLogsFromPod_NotOnce(p, ph) ==
    /\ Running /\ <<p, ph>> \in spawned
    /\ spawned' = spawned \ {<<p, ph>>}
    /\ activeStreams' = activeStreams \cup {p}
    /\ follow' = [follow EXCEPT ![p] = (ph = "Running")]
    /\ stream' = [l \in Logs |-> IF l[1] = p /\ l[2] \in Selected THEN "opening" ELSE stream[l]]
    /\ UNCHANGED <<clusterVars, watchVars, opts, mainVars, waiterVars, opened>>

StreamLogsFromPod_NoFollow(p, ph) ==
    /\ Running /\ <<p, ph>> \in spawned
    /\ spawned' = spawned \ {<<p, ph>>}
    /\ activeStreams' = activeStreams \cup {p}
    /\ stream' = [l \in Logs |-> IF l[1] = p /\ l[2] \in Selected /\ p \notin activeStreams
                                   THEN "opening" ELSE stream[l]]
    /\ UNCHANGED <<clusterVars, watchVars, opts, mainVars, waiterVars, follow, opened>>

\* Only the first goroutine of a pod gets past LoadOrStore; it starts one
\* goroutine per selected container, all with the phase its event carried.
StreamLogsFromPod(p, ph) ==
    /\ Running /\ <<p, ph>> \in spawned
    /\ spawned' = spawned \ {<<p, ph>>}
    /\ activeStreams' = activeStreams \cup {p}
    /\ IF p \in activeStreams
         THEN UNCHANGED <<follow, stream>>
         ELSE /\ follow' = [follow EXCEPT ![p] = (ph = "Running")]
              /\ stream' = [l \in Logs |-> IF l[1] = p /\ l[2] \in Selected
                                             THEN "opening" ELSE stream[l]]
    /\ UNCHANGED <<clusterVars, watchVars, opts, mainVars, waiterVars, opened>>

\* GetLogs(...).Stream: fails for a pod that is gone, or for another reason,
\* and is not tried again.
OpenLog(l) ==
    /\ Running /\ stream[l] = "opening"
    /\ \/ /\ phase[l[1]] \in {"Running"} \cup Terminal
          /\ stream' = [stream EXCEPT ![l] = "copying"]
          /\ opened' = [opened EXCEPT ![l] = @ + 1]
       \/ /\ stream' = [stream EXCEPT ![l] = "failed"]
          /\ UNCHANGED opened
    /\ UNCHANGED <<clusterVars, watchVars, opts, mainVars, waiterVars,
                   spawned, activeStreams, follow>>

\* io.Copy ends: with EOF, at the end of what is there or, when the log is
\* followed, once the container has exited; or with an error.
CopyEnd(l) ==
    /\ Running /\ stream[l] = "copying"
    /\ \/ /\ follow[l[1]] => l[2] \in exited[l[1]]
          /\ stream' = [stream EXCEPT ![l] = "done"]
       \/ stream' = [stream EXCEPT ![l] = "failed"]
    /\ UNCHANGED <<clusterVars, watchVars, opts, mainVars, waiterVars,
                   spawned, activeStreams, follow, opened>>

-----------------------------------------------------------------------------
(***************************************************************************)
(* verifyJobFinished.                                                      *)
(***************************************************************************)

JobWatchDial ==
    /\ Running /\ verifier = "dial"
    /\ \/ /\ verifier' = "range" /\ jobWatch' = "open"
          /\ jobEvents' = IF job \in {"active"} \cup Conditions
                            THEN <<[type |-> "Added", cond |-> JobCondition]>>
                            ELSE <<>>
          /\ UNCHANGED jobCompletionErrChan
       \/ /\ verifier' = "done" /\ jobCompletionErrChan' = "err"
          /\ UNCHANGED <<jobWatch, jobEvents>>
    /\ UNCHANGED <<clusterVars, podWatch, podEvents, opts, mainVars, watcher,
                   watcherErrChan, streamVars>>

\* Mutants of JobOver: the condition is not looked at; Deleted is ignored.
JobOver_AnyModified(e) == e.type \in {"Modified", "Deleted"}
JobOver_NotDeleted(e) == e.type = "Modified" /\ e.cond \in Conditions

\* Does an event of the job watch end the wait?
JobOver(e) ==
    \/ e.type = "Modified" /\ e.cond \in Conditions
    \/ e.type = "Deleted"

JobWatchEvent ==
    /\ Running /\ verifier = "range" /\ jobEvents # <<>>
    /\ jobEvents' = Tail(jobEvents)
    /\ IF JobOver(Head(jobEvents))
         THEN /\ verifier' = "done" /\ jobCompletionErrChan' = "nil"
              /\ jobWatch' = IF jobWatch = "closed" THEN "closed" ELSE "stopped"
         ELSE UNCHANGED <<verifier, jobCompletionErrChan, jobWatch>>
    /\ UNCHANGED <<clusterVars, podWatch, podEvents, opts, mainVars, watcher,
                   watcherErrChan, streamVars>>

JobWatchEnd ==
    /\ Running /\ verifier = "range" /\ jobWatch = "closed" /\ jobEvents = <<>>
    /\ verifier' = "done" /\ jobCompletionErrChan' = "nil"
    /\ UNCHANGED <<clusterVars, watchVars, opts, mainVars, watcher,
                   watcherErrChan, streamVars>>

-----------------------------------------------------------------------------
Select == SelectCancel("signal") \/ SelectCancel("timeout") \/ SelectWatcher \/ SelectVerifier

Watcher == PodWatchDial \/ (\E p \in Pods : PodWatchEvent(p)) \/ PodWatchEnd

Verifier == JobWatchDial \/ JobWatchEvent \/ JobWatchEnd

Streams == \/ \E p \in Pods : \E ph \in {"Running"} \cup Terminal : StreamLogsFromPod(p, ph)
           \/ \E l \in Logs : OpenLog(l) \/ CopyEnd(l)

\* The process is gone.
Rest ==
    /\ main \in {"returned", "killed"}
    /\ UNCHANGED vars

\* What the cluster does after the process is gone concerns nobody here.
Next ==
    \/ main \notin {"returned", "killed"} /\ Cluster
    \/ ClientError \/ Start \/ Interrupt \/ TimerFires
    \/ Select \/ RemoveObject
    \/ Watcher \/ Verifier \/ Streams
    \/ Rest

Spec == Init /\ [][Next]_vars

\* Fairness: the Go scheduler runs every goroutine that can run, calls of the
\* API server return, and time passes.  Nothing is assumed of the cluster, of
\* other clients or of the user.
Fairness ==
    /\ WF_vars(Start) /\ WF_vars(TimerFires)
    /\ WF_vars(Select) /\ WF_vars(RemoveObject)
    /\ WF_vars(PodWatchDial) /\ WF_vars(PodWatchEnd)
    /\ \A p \in Pods : /\ WF_vars(PodWatchEvent(p))
                       /\ \A ph \in {"Running"} \cup Terminal : WF_vars(StreamLogsFromPod(p, ph))
    /\ \A l \in Logs : WF_vars(OpenLog(l))
    /\ WF_vars(Verifier)

FairSpec == Spec /\ Fairness

-----------------------------------------------------------------------------
(***************************************************************************)
(* Properties.                                                             *)
(***************************************************************************)

ClusterTypeOK ==
    /\ job \in {"absent", "active", "deleted"} \cup Conditions
    /\ phase \in [Pods -> {"none", "gone"} \cup Exists]
    /\ exited \in [Pods -> SUBSET Containers]

JobWatchTypeOK == jobWatch \in WatchState /\ jobEvents \in Seq(JobEvent)

PodWatchTypeOK == podWatch \in WatchState /\ podEvents \in [Pods -> Seq(PodEvent)]

MainTypeOK ==
    /\ opts \in Options
    /\ main \in {"call", "select", "remove", "returned", "killed"}
    /\ cause \in {"none", "client", "signal", "timeout", "watcher", "verifier"}
    /\ errs \subseteq {"client", "timeout", "remove", "watcher", "verifier"}
    /\ sigChan \in BOOLEAN /\ waitTimeoutDone \in BOOLEAN

WaiterTypeOK ==
    /\ watcher \in {"off", "dial", "range", "done"} /\ watcherErrChan \in ErrChan
    /\ verifier \in {"off", "dial", "range", "done"} /\ jobCompletionErrChan \in ErrChan

StreamTypeOK ==
    /\ spawned \subseteq (Pods \X ({"Running"} \cup Terminal))
    /\ activeStreams \subseteq Pods
    /\ follow \in [Pods -> BOOLEAN]
    /\ stream \in [Logs -> {"idle", "opening", "copying", "done", "failed"}]
    /\ opened \in [Logs -> Nat]

\* Every variable of the command and of the cluster has its type; among the
\* rest, a streamLogsFromPod goroutine only exists for a pod that has started
\* (the switch over the phase in watchJobPods).
TypeOK ==
    /\ ClusterTypeOK /\ JobWatchTypeOK /\ PodWatchTypeOK
    /\ MainTypeOK /\ WaiterTypeOK /\ StreamTypeOK

\* However many events a pod produces and however the goroutines they start
\* are scheduled, the log of a container is opened at most once, and only if
\* the user selected that container (streamLogsFromPod).
OneStreamPerContainer ==
    \A l \in Logs : opened[l] <= (IF l[2] \in Selected THEN 1 ELSE 0)

\* A log that was copied to its end is complete: the container has exited.
\* Follow is decided from the phase in the event, which may be stale by the
\* time the log is opened (streamLogsFromPodContainer).
DoneMeansComplete ==
    \A l \in Logs : stream[l] = "done" => l[2] \in exited[l[1]]

JobIsOver == job \in {"deleted"} \cup Conditions

\* The command reports that the wait is over only for a job that finished or
\* was deleted, or because the API server closed one of its two watches
\* (verifyJobFinished, watchJobPods).
SuccessIsExplained ==
    (main = "returned" /\ cause \in {"watcher", "verifier"} /\ errs = {})
        => JobIsOver \/ "closed" \in {jobWatch, podWatch}

\* A wait that was cancelled with --rm leaves no job behind, unless the
\* error of the Delete call is among the errors it returns (removeObject).
CancelRemoves ==
    (main = "returned" /\ cause \in {"signal", "timeout"} /\ opts.rm)
        => job = "deleted" \/ "remove" \in errs

\* The news that a pod runs or ran is in the pod watch or with a goroutine it
\* started, or the pod's selected containers have their streams.
Noticed(p) ==
    \/ \E i \in 1..Len(podEvents[p]) :
            podEvents[p][i].type # "Deleted" /\ podEvents[p][i].phase # "Pending"
    \/ \E ph \in {"Running"} \cup Terminal : <<p, ph>> \in spawned
    \/ \A c \in Selected : stream[<<p, c>>] # "idle"

\* While the pod watch is open no pod is missed: whether a pod started before
\* the watch was dialled or after it, ran or was finished by then, or failed
\* without ever running, its logs are streamed or are about to be
\* (watchJobPods, streamLogsFromPod).
NoPodIsMissed ==
    podWatch = "open"
        => \A p \in Pods : phase[p] \in {"Running"} \cup Terminal => Noticed(p)

\* The news that the job is over is on its way to the main goroutine.
EndIsKnown ==
    \/ jobCompletionErrChan # "empty"
    \/ verifier = "range" /\ \E i \in 1..Len(jobEvents) :
                                \/ jobEvents[i].type = "Modified" /\ jobEvents[i].cond # "none"
                                \/ jobEvents[i].type = "Deleted"

\* As long as the command waits, no step drops the news that the job is over,
\* and a job that ends while its watch is open is news, whoever ends it
\* (verifyJobFinished, watchJobAndStreamLogs).
EndIsNotLost ==
    [][main' = "select" /\ (EndIsKnown \/ (jobWatch = "open" /\ ~JobIsOver /\ JobIsOver'))
           => EndIsKnown']_vars

\* The strengthenings that make the invariants above inductive.

\* Where a container's stream stands tells how often its log was opened.
StreamInv ==
    \A l \in Logs :
        /\ l[1] \notin activeStreams \/ l[2] \notin Selected => stream[l] = "idle"
        /\ stream[l] \in {"idle", "opening"} => opened[l] = 0
        /\ opened[l] <= 1

\* A pod that got past LoadOrStore has a stream for each selected container.
StreamsOn == \A p \in activeStreams : \A c \in Selected : stream[<<p, c>>] # "idle"

\* News that a pod has finished, wherever it is on its way, is true news:
\* its containers have exited.
ExitInv ==
    /\ \A p \in Pods :
        /\ phase[p] \in Terminal \cup {"gone"} => exited[p] = Containers
        /\ \A i \in 1..Len(podEvents[p]) :
              podEvents[p][i].phase \in Terminal => exited[p] = Containers
        /\ \A ph \in Terminal : <<p, ph>> \in spawned => exited[p] = Containers
    /\ \A l \in Logs : stream[l] \in {"opening", "copying"} /\ ~follow[l[1]]
                            => exited[l[1]] = Containers
    /\ DoneMeansComplete

\* No queued event announces the end of a job that is not over.
EventsTrue == \A i \in 1..Len(jobEvents) : JobOver(jobEvents[i]) => JobIsOver

\* A watch is not open before its goroutine dials.
WatchesOff ==
    /\ watcher \in {"off", "dial"} => podWatch = "none"
    /\ verifier \in {"off", "dial"} => jobWatch = "none"
    /\ main = "call" => watcher = "off" /\ verifier = "off"

\* An open job watch has its reader.
JobWatchRead == jobWatch = "open" => verifier = "range"

\* The channels and the result are explained by the job and the watches.
ResultTrue ==
    /\ jobCompletionErrChan = "nil" => JobIsOver \/ jobWatch = "closed"
    /\ watcherErrChan = "nil" => podWatch = "closed"
    /\ SuccessIsExplained

\* The Delete call is only made with --rm, after a signal or a timeout.
RemoveInv ==
    /\ main = "remove" => opts.rm /\ cause \in {"signal", "timeout"}
    /\ main \in {"call", "select", "killed"} => cause = "none"
    /\ waitTimeoutDone => opts.timeout
    /\ CancelRemoves

\* Once the end of the job (Complete, Failed or deleted) is on its way to
\* verifyJobFinished, the command stops waiting.
EndOfJobEndsWait ==
    (main = "select" /\ \E i \in 1..Len(jobEvents) :
                            \/ jobEvents[i].type = "Modified" /\ jobEvents[i].cond # "none"
                            \/ jobEvents[i].type = "Deleted")
        ~> main = "returned"

\* With --wait-timeout the command returns, whatever the cluster does.
TimeoutEndsWait == (main = "select" /\ opts.timeout) ~> main = "returned"

\* Once the pod watch carries the news that a pod runs or ran, the log of
\* each selected container is opened (or an error is reported), unless the
\* wait ends first.
StartedPodIsStreamed ==
    \A l \in Logs :
        (l[2] \in Selected /\ main = "select" /\ \E i \in 1..Len(podEvents[l[1]]) :
             /\ podEvents[l[1]][i].type \in {"Added", "Modified"}
             /\ podEvents[l[1]][i].phase # "Pending")
        ~> (stream[l] \in {"copying", "done", "failed"} \/ main # "select")

\* The waiting command keeps the contract its caller relies on: every step of
\* its goroutines is a step of the contract or changes nothing in it.
Contract == INSTANCE WaitContract WITH
    job <- IF job \in Conditions THEN "over" ELSE job,
    call <- CASE main = "call" -> "entered" [] main = "select" -> "waiting"
              [] main = "remove" -> "removing" [] OTHER -> main,
    cut <- "closed" \in {jobWatch, podWatch}

KeepsContract == Contract!Spec

\* The help of --wait: "Wait for the Job to complete and stream its Pod
\* logs."  Success means that the job is over.
WaitsForJob ==
    (main = "returned" /\ cause \in {"watcher", "verifier"} /\ errs = {}) => JobIsOver

\* pkg/cmd/helpers/dry_run.go: a dry run prevents "making mutating calls such
\* as CREATE, PATCH, and DELETE".  main = "remove" is the Delete call.
DryRunSendsNoDelete == opts.dryRun => main # "remove"
=============================================================================
