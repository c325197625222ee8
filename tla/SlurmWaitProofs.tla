--------------------------- MODULE SlurmWaitProofs ---------------------------
(***************************************************************************)
(* The safety of the waiting command, for any number of pods and           *)
(* containers and any combination of flags.                                *)
(***************************************************************************)
EXTENDS SlurmWait, TLAPS

-----------------------------------------------------------------------------
(***************************************************************************)
(* Type correctness.  TypeOK is a conjunction of six parts, and a step     *)
(* disturbs one or two of them.                                            *)
(***************************************************************************)

\* The parts of TypeOK whose variables a step leaves alone stay true.
LEMMA TypeStutter ==
    /\ ClusterTypeOK /\ UNCHANGED clusterVars => ClusterTypeOK'
    /\ JobWatchTypeOK /\ UNCHANGED <<jobWatch, jobEvents>> => JobWatchTypeOK'
    /\ PodWatchTypeOK /\ UNCHANGED <<podWatch, podEvents>> => PodWatchTypeOK'
    /\ MainTypeOK /\ UNCHANGED <<opts, mainVars>> => MainTypeOK'
    /\ WaiterTypeOK /\ UNCHANGED waiterVars => WaiterTypeOK'
    /\ StreamTypeOK /\ UNCHANGED streamVars => StreamTypeOK'
  BY DEF ClusterTypeOK, JobWatchTypeOK, PodWatchTypeOK, MainTypeOK, WaiterTypeOK, StreamTypeOK,
         clusterVars, mainVars, waiterVars, streamVars

\* An event put on the job watch has its type.
LEMMA JobNotifyType ==
  ASSUME NEW type \in {"Added", "Modified", "Deleted"}, NEW cond \in Conditions \cup {"none"},
         JobWatchTypeOK, JobNotify(type, cond), UNCHANGED jobWatch
  PROVE  JobWatchTypeOK'
  <1>1. [type |-> type, cond |-> cond] \in JobEvent
    BY DEF JobEvent
  <1> QED
    BY <1>1 DEF JobWatchTypeOK, JobNotify

\* An event put on the pod watch has its type.
LEMMA PodNotifyType ==
  ASSUME NEW p \in Pods, NEW type \in {"Added", "Modified", "Deleted"}, NEW ph \in Exists,
         PodWatchTypeOK, PodNotify(p, type, ph), UNCHANGED podWatch
  PROVE  PodWatchTypeOK'
  <1>1. [type |-> type, phase |-> ph] \in PodEvent
    BY DEF PodEvent
  <1> QED
    BY <1>1 DEF PodWatchTypeOK, PodNotify

\* A sequence of one element has the type of its element.
LEMMA OneElement == ASSUME NEW S, NEW x \in S PROVE <<x>> \in Seq(S) /\ <<>> \in Seq(S)
  OBVIOUS

\* JobCondition is a condition or "none".
LEMMA JobConditionType == JobCondition \in Conditions \cup {"none"}
  BY DEF JobCondition

\* The initial state is well typed.
LEMMA TypeInit == Init => TypeOK
  <1> SUFFICES ASSUME Init PROVE TypeOK
    OBVIOUS
  <1>1. ClusterTypeOK
    BY DEF Init, ClusterTypeOK
  <1>2. JobWatchTypeOK /\ PodWatchTypeOK
    BY DEF Init, JobWatchTypeOK, PodWatchTypeOK, WatchState
  <1>3. MainTypeOK
    BY DEF Init, MainTypeOK
  <1>4. WaiterTypeOK
    BY DEF Init, WaiterTypeOK, ErrChan
  <1>5. StreamTypeOK
    BY DEF Init, StreamTypeOK
  <1> QED
    BY <1>1, <1>2, <1>3, <1>4, <1>5 DEF TypeOK

\* A step of the cluster keeps the types.
LEMMA TypeCluster == TypeOK /\ Cluster => TypeOK'
  <1> SUFFICES ASSUME TypeOK, Cluster PROVE TypeOK'
    OBVIOUS
  <1> USE TypeStutter DEF TypeOK, clientUnchanged
  <1>1. ASSUME NEW p \in Pods, PodCreate(p) PROVE TypeOK'
    <2>1. PodWatchTypeOK'
      BY <1>1, PodNotifyType DEF PodCreate, Exists
    <2> QED
      BY <1>1, <2>1 DEF PodCreate, ClusterTypeOK, Exists
  <1>2. ASSUME NEW p \in Pods, PodRun(p) PROVE TypeOK'
    <2>1. PodWatchTypeOK'
      BY <1>2, PodNotifyType DEF PodRun, Exists
    <2> QED
      BY <1>2, <2>1 DEF PodRun, ClusterTypeOK, Exists
  <1>3. ASSUME NEW p \in Pods, PodCollect(p) PROVE TypeOK'
    <2>1. PodWatchTypeOK'
      BY <1>3, PodNotifyType DEF PodCollect
    <2> QED
      BY <1>3, <2>1 DEF PodCollect, ClusterTypeOK
  <1>4. ASSUME NEW p \in Pods, NEW c \in Containers, ContainerExit(p, c) PROVE TypeOK'
    BY <1>4 DEF ContainerExit, ClusterTypeOK
  <1>5. ASSUME NEW p \in Pods, NEW ph \in Terminal, PodFinish(p, ph) PROVE TypeOK'
    <2>1. PodWatchTypeOK'
      BY <1>5, PodNotifyType DEF PodFinish, Exists
    <2>2. JobWatchTypeOK'
      BY <1>5, JobNotifyType, JobConditionType DEF PodFinish
    <2> QED
      BY <1>5, <2>1, <2>2 DEF PodFinish, ClusterTypeOK, Exists
  <1>6. ASSUME NEW cond \in Conditions, JobFinish(cond) PROVE TypeOK'
    <2>1. JobWatchTypeOK'
      BY <1>6, JobNotifyType DEF JobFinish
    <2> QED
      BY <1>6, <2>1 DEF JobFinish, ClusterTypeOK
  <1>7. CASE JobDelete
    <2>1. JobWatchTypeOK'
      BY <1>7, JobNotifyType, JobConditionType DEF JobDelete
    <2> QED
      BY <1>7, <2>1 DEF JobDelete, ClusterTypeOK
  <1>8. CASE JobWatchClose
    BY <1>8 DEF JobWatchClose, JobWatchTypeOK, WatchState
  <1>9. CASE PodWatchClose
    BY <1>9 DEF PodWatchClose, PodWatchTypeOK, WatchState
  <1> QED
    BY <1>1, <1>2, <1>3, <1>4, <1>5, <1>6, <1>7, <1>8, <1>9 DEF Cluster

\* A step of the main goroutine, of the timer or of the user keeps the types.
LEMMA TypeMain ==
  TypeOK /\ (ClientError \/ Start \/ Interrupt \/ TimerFires \/ Select \/ RemoveObject) => TypeOK'
  <1> SUFFICES ASSUME TypeOK,
                      ClientError \/ Start \/ Interrupt \/ TimerFires \/ Select \/ RemoveObject
               PROVE TypeOK'
    OBVIOUS
  <1> USE TypeStutter DEF TypeOK, watchVars, waiterVars
  <1>1. CASE ClientError
    BY <1>1 DEF ClientError, MainTypeOK
  <1>2. CASE Start
    BY <1>2 DEF Start, MainTypeOK, WaiterTypeOK
  <1>3. CASE Interrupt
    BY <1>3 DEF Interrupt, MainTypeOK
  <1>4. CASE TimerFires
    BY <1>4 DEF TimerFires, MainTypeOK
  <1>5. ASSUME NEW why \in {"signal", "timeout"}, SelectCancel(why) PROVE TypeOK'
    BY <1>5 DEF SelectCancel, MainTypeOK
  <1>6. CASE SelectWatcher
    BY <1>6 DEF SelectWatcher, MainTypeOK, WaiterTypeOK, ErrChan
  <1>7. CASE SelectVerifier
    BY <1>7 DEF SelectVerifier, MainTypeOK, WaiterTypeOK, ErrChan
  <1>8. CASE RemoveObject
    <2>1. JobWatchTypeOK'
      BY <1>8, JobNotifyType, JobConditionType DEF RemoveObject
    <2>2. ClusterTypeOK'
      BY <1>8 DEF RemoveObject, ClusterTypeOK
    <2>3. MainTypeOK'
      BY <1>8 DEF RemoveObject, MainTypeOK
    <2> QED
      BY <1>8, <2>1, <2>2, <2>3 DEF RemoveObject
  <1> QED
    BY <1>1, <1>2, <1>3, <1>4, <1>5, <1>6, <1>7, <1>8 DEF Select

\* A step of one of the goroutines keeps the types.
LEMMA TypeGoroutines == TypeOK /\ (Watcher \/ Verifier \/ Streams) => TypeOK'
  <1> SUFFICES ASSUME TypeOK, Watcher \/ Verifier \/ Streams PROVE TypeOK'
    OBVIOUS
  <1> USE TypeStutter DEF TypeOK, watchVars, waiterVars
  <1>1. CASE PodWatchDial
    <2>1. ASSUME NEW p \in Pods
          PROVE  (IF phase[p] \in Exists THEN <<[type |-> "Added", phase |-> phase[p]]>> ELSE <<>>)
                    \in Seq(PodEvent)
      <3>1. phase[p] \in Exists => [type |-> "Added", phase |-> phase[p]] \in PodEvent
        BY DEF PodEvent
      <3> QED
        BY <3>1, OneElement
    <2>2. PodWatchTypeOK'
      BY <1>1, <2>1 DEF PodWatchDial, PodWatchTypeOK, WatchState
    <2>3. WaiterTypeOK'
      BY <1>1 DEF PodWatchDial, WaiterTypeOK, ErrChan
    <2> QED
      BY <1>1, <2>2, <2>3 DEF PodWatchDial
  <1>2. ASSUME NEW p \in Pods, PodWatchEvent(p) PROVE TypeOK'
    <2>1. Head(podEvents[p]) \in PodEvent /\ Tail(podEvents[p]) \in Seq(PodEvent)
      BY <1>2 DEF PodWatchTypeOK, PodWatchEvent
    <2>2. PodWatchTypeOK'
      BY <1>2, <2>1 DEF PodWatchTypeOK, PodWatchEvent
    <2>3. spawned' \subseteq (Pods \X ({"Running"} \cup Terminal))
      BY <1>2, <2>1 DEF StreamTypeOK, PodWatchEvent, Interesting, PodEvent
    <2> QED
      BY <1>2, <2>2, <2>3 DEF StreamTypeOK, PodWatchEvent
  <1>3. CASE PodWatchEnd
    BY <1>3 DEF PodWatchEnd, WaiterTypeOK, ErrChan
  <1>4. CASE JobWatchDial
    <2>1. [type |-> "Added", cond |-> JobCondition] \in JobEvent
      BY JobConditionType DEF JobEvent
    <2>2. JobWatchTypeOK'
      BY <1>4, <2>1, OneElement DEF JobWatchDial, JobWatchTypeOK, WatchState
    <2>3. WaiterTypeOK'
      BY <1>4 DEF JobWatchDial, WaiterTypeOK, ErrChan
    <2> QED
      BY <1>4, <2>2, <2>3 DEF JobWatchDial
  <1>5. CASE JobWatchEvent
    <2>1. Tail(jobEvents) \in Seq(JobEvent)
      BY <1>5 DEF JobWatchEvent, JobWatchTypeOK
    <2>2. JobWatchTypeOK'
      BY <1>5, <2>1 DEF JobWatchEvent, JobWatchTypeOK, WatchState
    <2>3. WaiterTypeOK'
      BY <1>5 DEF JobWatchEvent, WaiterTypeOK, ErrChan
    <2> QED
      BY <1>5, <2>2, <2>3 DEF JobWatchEvent
  <1>6. CASE JobWatchEnd
    BY <1>6 DEF JobWatchEnd, WaiterTypeOK, ErrChan
  <1>7. ASSUME NEW p \in Pods, NEW ph \in {"Running"} \cup Terminal, StreamLogsFromPod(p, ph)
        PROVE TypeOK'
    BY <1>7 DEF StreamLogsFromPod, StreamTypeOK
  <1>8. ASSUME NEW l \in Logs, OpenLog(l) PROVE TypeOK'
    BY <1>8 DEF OpenLog, StreamTypeOK
  <1>9. ASSUME NEW l \in Logs, CopyEnd(l) PROVE TypeOK'
    BY <1>9 DEF CopyEnd, StreamTypeOK
  <1> QED
    BY <1>1, <1>2, <1>3, <1>4, <1>5, <1>6, <1>7, <1>8, <1>9 DEF Watcher, Verifier, Streams

\* Every step keeps the types.
LEMMA TypeNext == TypeOK /\ [Next]_vars => TypeOK'
  <1>1. TypeOK /\ UNCHANGED vars => TypeOK'
    BY TypeStutter DEF TypeOK, vars, watchVars
  <1> QED
    BY <1>1, TypeCluster, TypeMain, TypeGoroutines DEF Next, Rest

\* Type correctness of the waiting command: every reachable state of
\* watchJobAndStreamLogs and of the goroutines it starts is well typed.
THEOREM TypeCorrect == Spec => []TypeOK
  BY TypeInit, TypeNext, PTL DEF Spec

-----------------------------------------------------------------------------
(***************************************************************************)
(* What the steps of one part leave alone.                                 *)
(***************************************************************************)

MainStep == ClientError \/ Start \/ Interrupt \/ TimerFires \/ Select \/ RemoveObject

\* The cluster does not touch the state of the process.
LEMMA ClusterFrame == Cluster => UNCHANGED <<opts, mainVars, waiterVars, streamVars>>
  BY DEF Cluster, PodCreate, PodRun, PodCollect, ContainerExit, PodFinish, JobFinish, JobDelete,
         JobWatchClose, PodWatchClose, clientUnchanged

\* The main goroutine touches neither the pods, nor their watch, nor a stream.
LEMMA MainFrame == MainStep => UNCHANGED <<phase, exited, podWatch, podEvents, jobWatch, opts, streamVars>>
  BY DEF MainStep, ClientError, Start, Interrupt, TimerFires, Select, SelectCancel, SelectWatcher,
         SelectVerifier, RemoveObject, clusterVars, watchVars

\* Neither does verifyJobFinished, which also leaves the main goroutine alone.
LEMMA VerifierFrame ==
    Verifier => UNCHANGED <<clusterVars, podWatch, podEvents, opts, mainVars, watcherErrChan, streamVars>>
  BY DEF Verifier, JobWatchDial, JobWatchEvent, JobWatchEnd, watchVars

\* watchJobPods and the streams touch neither the cluster nor the job watch.
LEMMA WatcherFrame ==
    Watcher => UNCHANGED <<clusterVars, jobWatch, jobEvents, opts, mainVars, jobCompletionErrChan,
                           activeStreams, follow, stream, opened>>
  BY DEF Watcher, PodWatchDial, PodWatchEvent, PodWatchEnd, watchVars, waiterVars, streamVars

LEMMA StreamsFrame == Streams => UNCHANGED <<clusterVars, watchVars, opts, mainVars, waiterVars>>
  BY DEF Streams, StreamLogsFromPod, OpenLog, CopyEnd

\* The parts of a step of the specification.
LEMMA Steps ==
  ASSUME [Next]_vars
  PROVE  Cluster \/ MainStep \/ Watcher \/ Verifier \/ Streams \/ UNCHANGED vars
  BY DEF Next, Rest, MainStep

-----------------------------------------------------------------------------
(***************************************************************************)
(* One stream per container.                                               *)
(***************************************************************************)

\* StreamInv is inductive: LoadOrStore lets one goroutine of a pod through.
LEMMA StreamNext == TypeOK /\ StreamInv /\ [Next]_vars => StreamInv'
  <1> SUFFICES ASSUME TypeOK, StreamInv, [Next]_vars PROVE StreamInv'
    OBVIOUS
  <1>1. CASE UNCHANGED <<activeStreams, stream, opened>>
    BY <1>1 DEF StreamInv, Selected
  <1>2. ASSUME NEW p \in Pods, NEW ph \in {"Running"} \cup Terminal, StreamLogsFromPod(p, ph)
        PROVE StreamInv'
    <2>1. CASE p \in activeStreams
      <3>1. UNCHANGED <<activeStreams, stream, opened>>
        BY <1>2, <2>1 DEF StreamLogsFromPod
      <3> QED
        BY <1>1, <3>1
    <2>2. CASE p \notin activeStreams
      <3> SUFFICES ASSUME NEW l \in Logs
                   PROVE  /\ l[1] \notin activeStreams' \/ l[2] \notin Selected => stream'[l] = "idle"
                          /\ stream'[l] \in {"idle", "opening"} => opened'[l] = 0
                          /\ opened'[l] <= 1
        BY DEF StreamInv, Selected
      <3>1. /\ stream'[l] = IF l[1] = p /\ l[2] \in Selected THEN "opening" ELSE stream[l]
            /\ activeStreams' = activeStreams \cup {p}
            /\ opened' = opened
        BY <1>2, <2>2 DEF StreamLogsFromPod
      <3>2. /\ l[1] \notin activeStreams \/ l[2] \notin Selected => stream[l] = "idle"
            /\ stream[l] \in {"idle", "opening"} => opened[l] = 0
            /\ opened[l] <= 1
        BY DEF StreamInv
      <3> QED
        BY <2>2, <3>1, <3>2
    <2> QED
      BY <2>1, <2>2
  <1>3. ASSUME NEW l \in Logs, OpenLog(l) PROVE StreamInv'
    BY <1>3 DEF OpenLog, StreamInv, Selected, TypeOK, StreamTypeOK
  <1>4. ASSUME NEW l \in Logs, CopyEnd(l) PROVE StreamInv'
    BY <1>4 DEF CopyEnd, StreamInv, Selected, TypeOK, StreamTypeOK
  <1>5. CASE Streams
    BY <1>2, <1>3, <1>4, <1>5 DEF Streams
  <1> QED
    BY <1>1, <1>5, Steps, ClusterFrame, MainFrame, VerifierFrame, WatcherFrame
    DEF streamVars, vars

\* A container's log is opened at most once, and only if it was selected,
\* however many events its pod produces (streamLogsFromPod).
THEOREM OneStream == Spec => []OneStreamPerContainer
  <1>1. Init => StreamInv
    BY DEF Init, StreamInv
  <1>2. TypeOK /\ StreamInv => OneStreamPerContainer
    BY DEF StreamInv, OneStreamPerContainer, TypeOK, StreamTypeOK
  <1> QED
    BY <1>1, <1>2, TypeCorrect, StreamNext, PTL DEF Spec

-----------------------------------------------------------------------------
(***************************************************************************)
(* No pod is missed.                                                       *)
(***************************************************************************)

\* A queue of the pod watch holds the news that its pod runs or ran.
Tells(es) == \E i \in 1..Len(es) : es[i].type # "Deleted" /\ es[i].phase # "Pending"

\* An event put at the end of a queue adds to what the queue tells.
LEMMA TellsAppend ==
  ASSUME NEW es \in Seq(PodEvent), NEW e \in PodEvent
  PROVE  /\ Tells(es) => Tells(Append(es, e))
         /\ e.type # "Deleted" /\ e.phase # "Pending" => Tells(Append(es, e))
  <1>1. /\ Append(es, e) \in Seq(PodEvent)
        /\ Len(Append(es, e)) = Len(es) + 1
        /\ Len(es) \in Nat
        /\ Append(es, e)[Len(es) + 1] = e
        /\ \A i \in 1..Len(es) : Append(es, e)[i] = es[i]
    OBVIOUS
  <1>2. \A i \in 1..Len(es) : i \in 1..Len(Append(es, e))
    BY <1>1
  <1>3. Len(es) + 1 \in 1..Len(Append(es, e))
    BY <1>1
  <1> QED
    BY <1>1, <1>2, <1>3 DEF Tells

\* The news is in the rest of the queue, or its head starts a goroutine.
LEMMA TellsTail ==
  ASSUME NEW es \in Seq(PodEvent), es # <<>>, Tells(es), ~Interesting(Head(es))
  PROVE  Tells(Tail(es))
  <1>1. PICK i \in 1..Len(es) : es[i].type # "Deleted" /\ es[i].phase # "Pending"
    BY DEF Tells
  <1>2. es[i] \in PodEvent
    OBVIOUS
  <1>3. Interesting(es[i])
    BY <1>1, <1>2 DEF Interesting, PodEvent, Exists
  <1>4. i # 1
    BY <1>3
  <1>5. i - 1 \in 1..Len(Tail(es)) /\ Tail(es)[i - 1] = es[i]
    BY <1>4
  <1> QED
    BY <1>1, <1>5 DEF Tells

\* StreamsOn is inductive: streamLogsFromPod starts a stream for every
\* selected container in the step that claims the pod.
LEMMA StreamsOnNext == TypeOK /\ StreamsOn /\ [Next]_vars => StreamsOn'
  <1> SUFFICES ASSUME TypeOK, StreamsOn, [Next]_vars PROVE StreamsOn'
    OBVIOUS
  <1>0. /\ activeStreams \subseteq Pods
        /\ stream \in [Logs -> {"idle", "opening", "copying", "done", "failed"}]
        /\ \A p \in Pods, c \in Selected : <<p, c>> \in Logs
    BY DEF TypeOK, StreamTypeOK, Selected, Logs
  <1>1. CASE UNCHANGED <<activeStreams, stream>>
    BY <1>1 DEF StreamsOn, Selected
  <1>2. ASSUME NEW p \in Pods, NEW ph \in {"Running"} \cup Terminal, StreamLogsFromPod(p, ph)
        PROVE StreamsOn'
    <2>1. CASE p \in activeStreams
      <3>1. UNCHANGED <<activeStreams, stream>>
        BY <1>2, <2>1 DEF StreamLogsFromPod
      <3> QED
        BY <1>1, <3>1
    <2>2. CASE p \notin activeStreams
      <3> SUFFICES ASSUME NEW q \in activeStreams', NEW c \in Selected PROVE stream'[<<q, c>>] # "idle"
        BY DEF StreamsOn, Selected
      <3>1. /\ activeStreams' = activeStreams \cup {p}
            /\ stream' = [l \in Logs |-> IF l[1] = p /\ l[2] \in Selected
                                           THEN "opening" ELSE stream[l]]
        BY <1>2, <2>2 DEF StreamLogsFromPod
      <3>2. q \in Pods /\ <<q, c>> \in Logs
        BY <1>0, <3>1
      <3>3. stream'[<<q, c>>] = IF q = p THEN "opening" ELSE stream[<<q, c>>]
        BY <3>1, <3>2
      <3>4. q # p => stream[<<q, c>>] # "idle"
        BY <3>1 DEF StreamsOn
      <3> QED
        BY <3>3, <3>4
    <2> QED
      BY <2>1, <2>2
  <1>3. ASSUME NEW l \in Logs, OpenLog(l) \/ CopyEnd(l) PROVE StreamsOn'
    <2>1. /\ activeStreams' = activeStreams
          /\ \A k \in Logs : stream[k] # "idle" => stream'[k] # "idle"
      BY <1>0, <1>3 DEF OpenLog, CopyEnd
    <2> QED
      BY <1>0, <2>1 DEF StreamsOn, Selected
  <1>4. CASE Streams
    BY <1>2, <1>3, <1>4 DEF Streams
  <1> QED
    BY <1>1, <1>4, Steps, ClusterFrame, MainFrame, VerifierFrame, WatcherFrame
    DEF streamVars, vars

\* What is noticed stays noticed while the pod watch only grows.
LEMMA NoticedGrows ==
  ASSUME NEW q \in Pods, UNCHANGED <<spawned, stream>>,
         Tells(podEvents[q]) => Tells(podEvents'[q])
  PROVE  Noticed(q) => Noticed(q)'
  BY DEF Noticed, Tells, Selected, Terminal

\* An event put on the open pod watch is in the queue of its pod, behind what
\* was there.
LEMMA PodNotifyTells ==
  ASSUME TypeOK, podWatch = "open",
         NEW p \in Pods, NEW q \in Pods, NEW type \in {"Added", "Modified", "Deleted"},
         NEW ph \in Exists, PodNotify(p, type, ph)
  PROVE  /\ Tells(podEvents[q]) => Tells(podEvents'[q])
         /\ type # "Deleted" /\ ph # "Pending" => Tells(podEvents'[p])
  <1> DEFINE e == [type |-> type, phase |-> ph]
  <1>1. podEvents \in [Pods -> Seq(PodEvent)] /\ e \in PodEvent
    BY DEF TypeOK, PodWatchTypeOK, PodEvent
  <1>2. podEvents' = [podEvents EXCEPT ![p] = Append(podEvents[p], e)]
    BY DEF PodNotify
  <1>3. podEvents'[p] = Append(podEvents[p], e) /\ (q # p => podEvents'[q] = podEvents[q])
    BY <1>1, <1>2
  <1>4. podEvents[p] \in Seq(PodEvent)
    BY <1>1
  <1>5. e.type = type /\ e.phase = ph
    OBVIOUS
  <1> HIDE DEF e
  <1> QED
    BY <1>1, <1>3, <1>4, <1>5, TellsAppend

\* A step of the cluster keeps NoPodIsMissed: the step that starts or ends a
\* pod also announces it.
LEMMA MissedCluster == TypeOK /\ NoPodIsMissed /\ Cluster => NoPodIsMissed'
  <1> SUFFICES ASSUME TypeOK, NoPodIsMissed, Cluster, podWatch' = "open",
                      NEW q \in Pods, phase'[q] \in {"Running"} \cup Terminal
               PROVE  Noticed(q)'
    BY DEF NoPodIsMissed, Terminal
  <1>0. /\ podWatch = "open" /\ UNCHANGED <<spawned, stream>>
        /\ phase \in [Pods -> {"none", "gone"} \cup Exists]
    <2>1. podWatch = "open"
      BY DEF Cluster, PodCreate, PodRun, PodCollect, ContainerExit, PodFinish, JobFinish, JobDelete,
             JobWatchClose, PodWatchClose, clientUnchanged
    <2> QED
      BY <2>1, ClusterFrame DEF streamVars, TypeOK, ClusterTypeOK
  <1>1. phase[q] \in {"Running"} \cup Terminal => Noticed(q)
    BY <1>0 DEF NoPodIsMissed
  <1>2. CASE UNCHANGED <<phase, podEvents>>
    BY <1>0, <1>1, <1>2, NoticedGrows
  <1>3. ASSUME NEW p \in Pods, NEW type \in {"Added", "Modified", "Deleted"},
               NEW ph \in Exists, PodNotify(p, type, ph),
               q # p => phase'[q] = phase[q],
               q = p => type # "Deleted" /\ ph # "Pending"
        PROVE  Noticed(q)'
    <2>1. /\ Tells(podEvents[q]) => Tells(podEvents'[q])
          /\ q = p => Tells(podEvents'[q])
      BY <1>0, <1>3, PodNotifyTells
    <2>2. CASE q = p
      BY <2>1, <2>2 DEF Noticed, Tells
    <2>3. CASE q # p
      BY <1>0, <1>1, <1>3, <2>1, <2>3, NoticedGrows
    <2> QED
      BY <2>2, <2>3
  <1>4. ASSUME NEW p \in Pods, PodCreate(p) PROVE Noticed(q)'
    <2>1. q # p /\ phase'[q] = phase[q]
      BY <1>0, <1>4 DEF PodCreate, Terminal
    <2> QED
      BY <1>3, <1>4, <2>1 DEF PodCreate, Exists
  <1>5. ASSUME NEW p \in Pods, PodRun(p) PROVE Noticed(q)'
    BY <1>0, <1>3, <1>5 DEF PodRun, Exists
  <1>6. ASSUME NEW p \in Pods, PodCollect(p) PROVE Noticed(q)'
    <2>1. q # p /\ phase'[q] = phase[q]
      BY <1>0, <1>6 DEF PodCollect, Terminal
    <2>2. phase[p] \in Exists /\ PodNotify(p, "Deleted", phase[p])
      BY <1>6 DEF PodCollect
    <2> QED
      BY <1>3, <2>1, <2>2
  <1>7. ASSUME NEW p \in Pods, NEW ph \in Terminal, PodFinish(p, ph) PROVE Noticed(q)'
    BY <1>0, <1>3, <1>7 DEF PodFinish, Exists, Terminal
  <1> QED
    BY <1>2, <1>4, <1>5, <1>6, <1>7
    DEF Cluster, ContainerExit, JobFinish, JobDelete, JobWatchClose, PodWatchClose, clusterVars

\* A step of watchJobPods keeps NoPodIsMissed: the dialled watch starts with
\* the pods that are there, and an event that tells of a started pod leaves
\* the queue only together with the start of a goroutine.
LEMMA MissedWatcher == TypeOK /\ NoPodIsMissed /\ Watcher => NoPodIsMissed'
  <1> SUFFICES ASSUME TypeOK, NoPodIsMissed, Watcher, podWatch' = "open",
                      NEW q \in Pods, phase'[q] \in {"Running"} \cup Terminal
               PROVE  Noticed(q)'
    BY DEF NoPodIsMissed, Terminal
  <1>0. /\ UNCHANGED <<phase, stream>>
        /\ podEvents \in [Pods -> Seq(PodEvent)]
        /\ phase[q] \in {"Running"} \cup Terminal
        /\ podWatch = "open" => Noticed(q)
    BY WatcherFrame DEF TypeOK, PodWatchTypeOK, clusterVars, NoPodIsMissed
  <1>1. CASE UNCHANGED <<podWatch, podEvents, spawned>>
    BY <1>0, <1>1, NoticedGrows
  <1>2. CASE PodWatchDial
    <2>1. CASE UNCHANGED <<podWatch, podEvents>>
      BY <1>1, <1>2, <2>1 DEF PodWatchDial, streamVars
    <2>2. CASE podEvents' = [p \in Pods |-> IF phase[p] \in Exists
                                THEN <<[type |-> "Added", phase |-> phase[p]]>> ELSE <<>>]
      <3>1. podEvents'[q] = <<[type |-> "Added", phase |-> phase[q]]>>
        BY <1>0, <2>2 DEF Exists
      <3>2. 1 \in 1..Len(podEvents'[q]) /\ podEvents'[q][1] = [type |-> "Added", phase |-> phase[q]]
        BY <3>1
      <3>3. podEvents'[q][1].type # "Deleted" /\ podEvents'[q][1].phase # "Pending"
        BY <1>0, <3>2 DEF Terminal
      <3> QED
        BY <3>2, <3>3 DEF Noticed
    <2> QED
      BY <1>2, <2>1, <2>2 DEF PodWatchDial
  <1>3. ASSUME NEW p \in Pods, PodWatchEvent(p) PROVE Noticed(q)'
    <2>0. /\ podWatch = "open" /\ Noticed(q)
          /\ podEvents[p] \in Seq(PodEvent) /\ podEvents[p] # <<>>
          /\ podEvents' = [podEvents EXCEPT ![p] = Tail(podEvents[p])]
      BY <1>0, <1>3 DEF PodWatchEvent
    <2>1. spawned \subseteq spawned'
      BY <1>3 DEF PodWatchEvent
    <2>2. CASE q = p /\ Interesting(Head(podEvents[p]))
      <3>1. <<q, Head(podEvents[p]).phase>> \in spawned'
        BY <1>3, <2>2 DEF PodWatchEvent
      <3>2. Head(podEvents[p]).phase \in {"Running"} \cup Terminal
        BY <2>2 DEF Interesting
      <3> QED
        BY <3>1, <3>2 DEF Noticed, Terminal
    <2>3. CASE q # p \/ ~Interesting(Head(podEvents[p]))
      <3>1. Tells(podEvents[q]) => Tells(podEvents'[q])
        BY <1>0, <2>0, <2>3, TellsTail
      <3> QED
        BY <1>0, <2>0, <2>1, <3>1 DEF Noticed, Tells, Terminal, Selected
    <2> QED
      BY <2>2, <2>3
  <1>4. CASE PodWatchEnd
    BY <1>1, <1>4 DEF PodWatchEnd, watchVars, streamVars
  <1> QED
    BY <1>2, <1>3, <1>4 DEF Watcher

\* A step of a stream keeps NoPodIsMissed: a goroutine that ends has claimed
\* its pod or found it claimed.
LEMMA MissedStreams ==
  TypeOK /\ NoPodIsMissed /\ StreamsOn' /\ Streams => NoPodIsMissed'
  <1> SUFFICES ASSUME TypeOK, NoPodIsMissed, StreamsOn', Streams, podWatch' = "open",
                      NEW q \in Pods, phase'[q] \in {"Running"} \cup Terminal
               PROVE  Noticed(q)'
    BY DEF NoPodIsMissed, Terminal
  <1>0. /\ UNCHANGED podEvents /\ Noticed(q)
        /\ stream \in [Logs -> {"idle", "opening", "copying", "done", "failed"}]
        /\ \A c \in Selected : <<q, c>> \in Logs
    BY StreamsFrame
    DEF TypeOK, StreamTypeOK, clusterVars, watchVars, NoPodIsMissed, Selected, Logs
  <1>1. ASSUME NEW p \in Pods, NEW ph \in {"Running"} \cup Terminal, StreamLogsFromPod(p, ph)
        PROVE  Noticed(q)'
    <2>1. CASE p = q
      <3>1. q \in activeStreams'
        BY <1>1, <2>1 DEF StreamLogsFromPod
      <3> QED
        BY <3>1 DEF StreamsOn, Noticed, Selected
    <2>2. CASE p # q
      <3>1. /\ \A h \in {"Running"} \cup Terminal : <<q, h>> \in spawned => <<q, h>> \in spawned'
            /\ \A c \in Selected : stream[<<q, c>>] # "idle" => stream'[<<q, c>>] # "idle"
        BY <1>0, <1>1, <2>2 DEF StreamLogsFromPod
      <3> QED
        BY <1>0, <3>1 DEF Noticed, Terminal, Selected
    <2> QED
      BY <2>1, <2>2
  <1>2. ASSUME NEW l \in Logs, OpenLog(l) \/ CopyEnd(l) PROVE Noticed(q)'
    <2>1. /\ UNCHANGED spawned
          /\ \A c \in Selected : stream[<<q, c>>] # "idle" => stream'[<<q, c>>] # "idle"
      BY <1>0, <1>2 DEF OpenLog, CopyEnd
    <2> QED
      BY <1>0, <2>1 DEF Noticed, Terminal, Selected
  <1> QED
    BY <1>1, <1>2 DEF Streams

\* NoPodIsMissed is inductive together with StreamsOn.
LEMMA MissedNext == TypeOK /\ NoPodIsMissed /\ StreamsOn /\ [Next]_vars => NoPodIsMissed'
  <1> SUFFICES ASSUME TypeOK, NoPodIsMissed, StreamsOn, [Next]_vars PROVE NoPodIsMissed'
    OBVIOUS
  <1>1. CASE UNCHANGED <<phase, podWatch, podEvents, streamVars>>
    BY <1>1 DEF NoPodIsMissed, Noticed, Selected, Terminal, streamVars
  <1> QED
    BY <1>1, Steps, StreamsOnNext, MissedCluster, MissedWatcher, MissedStreams, MainFrame,
       VerifierFrame
    DEF vars, clusterVars, watchVars

\* While the pod watch is open, every pod that runs or ran has its streams,
\* or the news of it is on its way to streamLogsFromPod (watchJobPods).
THEOREM EveryPodNoticed == Spec => []NoPodIsMissed
  <1>1. Init => NoPodIsMissed /\ StreamsOn
    BY DEF Init, NoPodIsMissed, StreamsOn
  <1> QED
    BY <1>1, TypeCorrect, StreamsOnNext, MissedNext, PTL DEF Spec

-----------------------------------------------------------------------------
(***************************************************************************)
(* Complete logs.                                                          *)
(***************************************************************************)

\* ExitInv for one pod and for one log: the shape its proof works with.
PodExit(p) ==
    /\ phase[p] \in Terminal \cup {"gone"} => exited[p] = Containers
    /\ \A i \in 1..Len(podEvents[p]) : podEvents[p][i].phase \in Terminal => exited[p] = Containers
    /\ \A ph \in Terminal : <<p, ph>> \in spawned => exited[p] = Containers

LogExit(l) ==
    /\ stream[l] \in {"opening", "copying"} /\ ~follow[l[1]] => exited[l[1]] = Containers
    /\ stream[l] = "done" => l[2] \in exited[l[1]]

\* ExitInv pod by pod and log by log.
LEMMA ExitParts == ExitInv <=> (\A p \in Pods : PodExit(p)) /\ (\A l \in Logs : LogExit(l))
  BY DEF ExitInv, DoneMeansComplete, PodExit, LogExit

\* An event appended to a pod's queue keeps PodExit if it tells the truth.
LEMMA PodNotifyExit ==
  ASSUME TypeOK, NEW p \in Pods, NEW q \in Pods, NEW type, NEW ph,
         PodExit(q), PodNotify(p, type, ph),
         exited[q] = Containers => exited'[q] = Containers,
         p = q /\ ph \in Terminal => exited'[q] = Containers
  PROVE  \A i \in 1..Len(podEvents'[q]) :
            podEvents'[q][i].phase \in Terminal => exited'[q] = Containers
  <1>1. podEvents \in [Pods -> Seq(PodEvent)]
    BY DEF TypeOK, PodWatchTypeOK
  <1>2. CASE podEvents'[q] = podEvents[q]
    BY <1>2 DEF PodExit
  <1>3. CASE p = q /\ podEvents'[q] = Append(podEvents[q], [type |-> type, phase |-> ph])
    <2> SUFFICES ASSUME NEW i \in 1..Len(podEvents'[q]), podEvents'[q][i].phase \in Terminal
                 PROVE  exited'[q] = Containers
      OBVIOUS
    <2>1. podEvents[q] \in Seq(PodEvent)
      BY <1>1
    <2>2. CASE i \in 1..Len(podEvents[q])
      <3>1. podEvents'[q][i] = podEvents[q][i]
        BY <1>3, <2>1, <2>2
      <3> QED
        BY <2>2, <3>1 DEF PodExit
    <2>3. CASE i = Len(podEvents[q]) + 1
      <3>1. podEvents'[q][i] = [type |-> type, phase |-> ph]
        BY <1>3, <2>1, <2>3
      <3> QED
        BY <1>3, <3>1
    <2> QED
      BY <1>3, <2>1, <2>2, <2>3
  <1> QED
    BY <1>1, <1>2, <1>3 DEF PodNotify

\* LogExit only needs that exited containers stay exited.
LEMMA LogExitMonotone ==
  ASSUME NEW l \in Logs, LogExit(l), UNCHANGED <<stream, follow>>, TypeOK, TypeOK',
         exited[l[1]] \subseteq exited'[l[1]]
  PROVE  LogExit(l)'
  <1>1. exited[l[1]] \subseteq Containers /\ exited'[l[1]] \subseteq Containers
    BY DEF TypeOK, ClusterTypeOK, Logs
  <1> QED
    BY <1>1 DEF LogExit

\* A step of the cluster keeps ExitInv: it announces the end of a pod only
\* together with the exit of its containers, and containers do not restart.
LEMMA ExitCluster == TypeOK /\ ExitInv /\ Cluster => ExitInv'
  <1> SUFFICES ASSUME TypeOK, ExitInv, Cluster PROVE ExitInv'
    OBVIOUS
  <1>0. /\ TypeOK' /\ UNCHANGED <<spawned, stream, follow>>
        /\ \A p \in Pods : PodExit(p)
        /\ \A l \in Logs : LogExit(l)
        /\ phase \in [Pods -> {"none", "gone"} \cup Exists]
        /\ exited \in [Pods -> SUBSET Containers]
    BY TypeCluster, ClusterFrame, ExitParts DEF streamVars, TypeOK, ClusterTypeOK
  <1>1. \A p \in Pods : exited[p] \subseteq exited'[p]
    BY <1>0 DEF Cluster, PodCreate, PodRun, PodCollect, ContainerExit, PodFinish, JobFinish, JobDelete,
         JobWatchClose, PodWatchClose, clusterVars
  <1>2. \A l \in Logs : LogExit(l)'
    BY <1>0, <1>1, LogExitMonotone DEF Logs
  <1>3. \A q \in Pods : exited[q] = Containers => exited'[q] = Containers
    BY <1>0, <1>1 DEF TypeOK, ClusterTypeOK
  <1>4. ASSUME NEW q \in Pods PROVE PodExit(q)'
    <2>1. CASE UNCHANGED <<phase, podEvents>>
      BY <1>0, <1>3, <2>1 DEF PodExit
    <2>2. ASSUME NEW p \in Pods, NEW type, NEW ph, PodNotify(p, type, ph),
                 p = q /\ ph \in Terminal => exited'[q] = Containers,
                 phase'[q] \in Terminal \cup {"gone"} => exited'[q] = Containers
          PROVE  PodExit(q)'
      <3>1. \A i \in 1..Len(podEvents'[q]) :
                podEvents'[q][i].phase \in Terminal => exited'[q] = Containers
        BY <1>0, <1>3, <2>2, PodNotifyExit
      <3> QED
        BY <1>0, <1>3, <2>2, <3>1 DEF PodExit
    <2>3. ASSUME NEW p \in Pods, PodCreate(p) PROVE PodExit(q)'
      BY <1>0, <1>3, <2>3, <2>2 DEF PodCreate, PodExit, Terminal
    <2>4. ASSUME NEW p \in Pods, PodRun(p) PROVE PodExit(q)'
      BY <1>0, <1>3, <2>4, <2>2 DEF PodRun, PodExit, Terminal
    <2>5. ASSUME NEW p \in Pods, PodCollect(p) PROVE PodExit(q)'
      BY <1>0, <1>3, <2>5, <2>2 DEF PodCollect, PodExit
    <2>6. ASSUME NEW p \in Pods, NEW ph \in Terminal, PodFinish(p, ph) PROVE PodExit(q)'
      BY <1>0, <1>3, <2>6, <2>2 DEF PodFinish, PodExit
    <2> QED
      BY <2>1, <2>3, <2>4, <2>5, <2>6
      DEF Cluster, ContainerExit, JobFinish, JobDelete, JobWatchClose, PodWatchClose, clusterVars
  <1> QED
    <2>1. (\A p \in Pods : PodExit(p)') /\ (\A l \in Logs : LogExit(l)')
      BY <1>2, <1>4
    <2> QED
      BY <2>1 DEF ExitInv, DoneMeansComplete, PodExit, LogExit

\* A step of watchJobPods keeps ExitInv: it hands on what the event says.
LEMMA ExitWatcher == TypeOK /\ ExitInv /\ Watcher => ExitInv'
  <1> SUFFICES ASSUME TypeOK, ExitInv, Watcher PROVE ExitInv'
    OBVIOUS
  <1>0. /\ UNCHANGED <<phase, exited, stream, follow>>
        /\ podEvents \in [Pods -> Seq(PodEvent)]
        /\ \A p \in Pods : PodExit(p)
        /\ \A l \in Logs : LogExit(l)
    BY WatcherFrame, ExitParts DEF TypeOK, PodWatchTypeOK, clusterVars
  <1>1. \A l \in Logs : LogExit(l)'
    BY <1>0 DEF LogExit
  <1>2. CASE PodWatchDial
    <2> SUFFICES ASSUME NEW q \in Pods PROVE PodExit(q)'
      BY <1>1 DEF ExitInv, DoneMeansComplete, PodExit, LogExit
    <2>1. UNCHANGED spawned
      BY <1>2 DEF PodWatchDial, streamVars
    <2>2. CASE UNCHANGED podEvents
      BY <1>0, <2>1, <2>2 DEF PodExit
    <2>3. CASE podEvents'[q] = <<>>
      BY <1>0, <2>1, <2>3 DEF PodExit
    <2>4. CASE podEvents'[q] = <<[type |-> "Added", phase |-> phase[q]]>>
      <3>1. ASSUME NEW i \in 1..Len(podEvents'[q]) PROVE podEvents'[q][i].phase = phase[q]
        BY <2>4
      <3> QED
        BY <1>0, <2>1, <3>1 DEF PodExit
    <2> QED
      BY <1>2, <2>2, <2>3, <2>4 DEF PodWatchDial
  <1>3. ASSUME NEW p \in Pods, PodWatchEvent(p) PROVE ExitInv'
    <2> SUFFICES ASSUME NEW q \in Pods PROVE PodExit(q)'
      BY <1>1 DEF ExitInv, DoneMeansComplete, PodExit, LogExit
    <2>1. podEvents[p] \in Seq(PodEvent) /\ podEvents[p] # <<>>
      BY <1>0, <1>3 DEF PodWatchEvent
    <2>2. ASSUME NEW i \in 1..Len(podEvents'[q]), podEvents'[q][i].phase \in Terminal
          PROVE  exited[q] = Containers
      <3>1. CASE q = p
        <4>1. podEvents'[q] = Tail(podEvents[p])
          BY <1>0, <1>3, <3>1 DEF PodWatchEvent
        <4>2. i + 1 \in 1..Len(podEvents[p]) /\ podEvents'[q][i] = podEvents[p][i + 1]
          BY <2>1, <2>2, <4>1
        <4> QED
          BY <1>0, <2>2, <3>1, <4>2 DEF PodExit
      <3>2. CASE q # p
        BY <1>0, <1>3, <2>2, <3>2 DEF PodWatchEvent, PodExit
      <3> QED
        BY <3>1, <3>2
    <2>3. ASSUME NEW ph \in Terminal, <<q, ph>> \in spawned' PROVE exited[q] = Containers
      <3>1. CASE <<q, ph>> \in spawned
        BY <1>0, <3>1 DEF PodExit
      <3>2. CASE q = p /\ ph = Head(podEvents[p]).phase
        <4>1. 1 \in 1..Len(podEvents[p]) /\ Head(podEvents[p]) = podEvents[p][1]
          BY <2>1
        <4> QED
          BY <1>0, <3>2, <4>1 DEF PodExit
      <3> QED
        BY <1>3, <2>3, <3>1, <3>2 DEF PodWatchEvent
    <2> QED
      BY <1>0, <2>2, <2>3 DEF PodExit
  <1>4. CASE PodWatchEnd
    <2>1. UNCHANGED <<podEvents, spawned>>
      BY <1>4 DEF PodWatchEnd, watchVars, streamVars
    <2> QED
      BY <1>0, <1>1, <2>1 DEF ExitInv, DoneMeansComplete
  <1> QED
    BY <1>2, <1>3, <1>4 DEF Watcher

\* A step of a stream keeps ExitInv: a log that is not followed belongs to a
\* pod that had finished, and one that is followed ends with its container.
LEMMA ExitStreams == TypeOK /\ ExitInv /\ StreamInv /\ Streams => ExitInv'
  <1> SUFFICES ASSUME TypeOK, ExitInv, StreamInv, Streams PROVE ExitInv'
    OBVIOUS
  <1>0. /\ UNCHANGED <<phase, exited, podEvents>>
        /\ \A p \in Pods : PodExit(p)
        /\ \A l \in Logs : LogExit(l)
        /\ follow \in [Pods -> BOOLEAN]
        /\ stream \in [Logs -> {"idle", "opening", "copying", "done", "failed"}]
        /\ exited \in [Pods -> SUBSET Containers]
    BY StreamsFrame, ExitParts DEF TypeOK, StreamTypeOK, ClusterTypeOK, clusterVars, watchVars
  <1>1. spawned' \subseteq spawned
    BY DEF Streams, StreamLogsFromPod, OpenLog, CopyEnd
  <1>2. \A p \in Pods : PodExit(p)'
    BY <1>0, <1>1 DEF PodExit
  <1>3. ASSUME NEW l \in Logs PROVE LogExit(l)'
    <2>0. l[1] \in Pods /\ l[2] \in Containers
      BY DEF Logs
    <2>1. ASSUME NEW p \in Pods, NEW ph \in {"Running"} \cup Terminal, StreamLogsFromPod(p, ph)
          PROVE LogExit(l)'
      <3>1. CASE p \in activeStreams \/ l[1] # p
        <4>1. stream'[l] = stream[l] /\ follow'[l[1]] = follow[l[1]]
          BY <1>0, <2>0, <2>1, <3>1 DEF StreamLogsFromPod
        <4> QED
          BY <1>0, <4>1 DEF LogExit
      <3>2. CASE p \notin activeStreams /\ l[1] = p
        <4>1. /\ stream[l] = "idle"
              /\ stream'[l] \in {"idle", "opening"}
              /\ follow'[l[1]] = (ph = "Running")
              /\ <<p, ph>> \in spawned
          BY <1>0, <2>0, <2>1, <3>2 DEF StreamLogsFromPod, StreamInv
        <4>2. ph # "Running" => exited[p] = Containers
          BY <1>0, <4>1 DEF PodExit
        <4> QED
          BY <1>0, <3>2, <4>1, <4>2 DEF LogExit
      <3> QED
        BY <3>1, <3>2
    <2>2. ASSUME NEW k \in Logs, OpenLog(k) PROVE LogExit(l)'
      BY <1>0, <2>2 DEF OpenLog, LogExit
    <2>3. ASSUME NEW k \in Logs, CopyEnd(k) PROVE LogExit(l)'
      BY <1>0, <2>0, <2>3 DEF CopyEnd, LogExit
    <2> QED
      BY <2>1, <2>2, <2>3 DEF Streams
  <1> QED
    BY <1>2, <1>3 DEF ExitInv, DoneMeansComplete, PodExit, LogExit

\* ExitInv is inductive.
LEMMA ExitNext == TypeOK /\ ExitInv /\ StreamInv /\ [Next]_vars => ExitInv'
  <1> SUFFICES ASSUME TypeOK, ExitInv, StreamInv, [Next]_vars PROVE ExitInv'
    OBVIOUS
  <1>1. CASE UNCHANGED <<phase, exited, podEvents, streamVars>>
    BY <1>1 DEF ExitInv, DoneMeansComplete, streamVars
  <1> QED
    BY <1>1, Steps, ExitCluster, ExitWatcher, ExitStreams, MainFrame, VerifierFrame
    DEF vars, clusterVars, watchVars

\* A log that was copied to its end is complete, although the choice to
\* follow it was made from an event that may have been stale
\* (streamLogsFromPodContainer).
THEOREM CompleteLogs == Spec => []DoneMeansComplete
  <1>1. Init => ExitInv /\ StreamInv
    BY DEF Init, ExitInv, StreamInv, DoneMeansComplete, Terminal
  <1>2. ExitInv => DoneMeansComplete
    BY DEF ExitInv
  <1> QED
    BY <1>1, <1>2, TypeCorrect, StreamNext, ExitNext, PTL DEF Spec

-----------------------------------------------------------------------------
(***************************************************************************)
(* Cancelling.                                                             *)
(***************************************************************************)

\* RemoveInv is inductive.
LEMMA RemoveNext == RemoveInv /\ [Next]_vars => RemoveInv'
  <1> SUFFICES ASSUME RemoveInv, [Next]_vars PROVE RemoveInv'
    OBVIOUS
  <1>0. job = "deleted" => job' = "deleted"
    <2>1. Cluster /\ job = "deleted" => job' = job
      BY DEF Cluster, PodCreate, PodRun, PodCollect, ContainerExit, PodFinish, JobFinish, JobDelete,
             JobWatchClose, PodWatchClose, clusterVars, Conditions
    <2>2. MainStep /\ job = "deleted" => job' = job
      BY DEF MainStep, ClientError, Start, Interrupt, TimerFires, Select, SelectCancel,
             SelectWatcher, SelectVerifier, RemoveObject, clusterVars, Conditions
    <2> QED
      BY <2>1, <2>2, Steps, WatcherFrame, VerifierFrame, StreamsFrame DEF clusterVars, vars
  <1>1. CASE UNCHANGED <<opts, main, cause, errs, waitTimeoutDone>>
    BY <1>0, <1>1 DEF RemoveInv, CancelRemoves
  <1>2. CASE MainStep
    BY <1>0, <1>2
    DEF RemoveInv, CancelRemoves, MainStep, ClientError, Start, Interrupt, TimerFires, Select,
        SelectCancel, SelectWatcher, SelectVerifier, RemoveObject
  <1> QED
    BY <1>1, <1>2, Steps, ClusterFrame, WatcherFrame, VerifierFrame, StreamsFrame DEF mainVars, vars

\* A wait that was cancelled with --rm has deleted the job, or it returns the
\* error of the Delete call (removeObject).
THEOREM CancelledIsRemoved == Spec => []CancelRemoves
  <1>1. Init => RemoveInv
    BY DEF Init, RemoveInv, CancelRemoves
  <1>2. RemoveInv => CancelRemoves
    BY DEF RemoveInv
  <1> QED
    BY <1>1, <1>2, RemoveNext, PTL DEF Spec

-----------------------------------------------------------------------------
(***************************************************************************)
(* What success means.                                                     *)
(***************************************************************************)

\* An event put on the job watch keeps the announcements true.
LEMMA JobNotifyTrue ==
  ASSUME TypeOK, EventsTrue, NEW type, NEW cond, JobNotify(type, cond), JobIsOver => JobIsOver',
         JobOver([type |-> type, cond |-> cond]) => JobIsOver'
  PROVE  EventsTrue'
  <1> SUFFICES ASSUME NEW i \in 1..Len(jobEvents'), JobOver(jobEvents'[i]) PROVE JobIsOver'
    BY DEF EventsTrue, JobOver, Conditions
  <1>1. jobEvents \in Seq(JobEvent)
    BY DEF TypeOK, JobWatchTypeOK
  <1>2. CASE i \in 1..Len(jobEvents) /\ jobEvents'[i] = jobEvents[i]
    BY <1>2 DEF EventsTrue
  <1>3. CASE jobEvents'[i] = [type |-> type, cond |-> cond]
    BY <1>3
  <1>4. CASE jobEvents' = Append(jobEvents, [type |-> type, cond |-> cond])
    <2>1. i \in 1..Len(jobEvents) \/ i = Len(jobEvents) + 1
      BY <1>1, <1>4
    <2>2. i \in 1..Len(jobEvents) => jobEvents'[i] = jobEvents[i]
      BY <1>1, <1>4
    <2>3. i = Len(jobEvents) + 1 => jobEvents'[i] = [type |-> type, cond |-> cond]
      BY <1>1, <1>4
    <2> QED
      BY <1>2, <1>3, <2>1, <2>2, <2>3
  <1> QED
    BY <1>2, <1>4 DEF JobNotify

\* JobCondition tells the truth.
LEMMA ConditionTrue == JobCondition \in Conditions => JobIsOver
  BY DEF JobCondition, JobIsOver, Conditions

\* A job that is over stays over.
LEMMA OverForever == [Next]_vars /\ JobIsOver => JobIsOver'
  <1> SUFFICES ASSUME [Next]_vars, JobIsOver PROVE JobIsOver'
    OBVIOUS
  <1>1. Cluster => JobIsOver'
    BY DEF Cluster, PodCreate, PodRun, PodCollect, ContainerExit, PodFinish, JobFinish, JobDelete,
           JobWatchClose, PodWatchClose, clusterVars, JobIsOver, Conditions
  <1>2. MainStep => JobIsOver'
    BY DEF MainStep, ClientError, Start, Interrupt, TimerFires, Select, SelectCancel, SelectWatcher,
           SelectVerifier, RemoveObject, clusterVars, JobIsOver, Conditions
  <1>3. UNCHANGED job => JobIsOver'
    BY DEF JobIsOver, Conditions
  <1> QED
    BY <1>1, <1>2, <1>3, Steps, WatcherFrame, VerifierFrame, StreamsFrame DEF clusterVars, vars

\* The queued announcements stay true.
LEMMA EventsNext == TypeOK /\ EventsTrue /\ [Next]_vars => EventsTrue'
  <1> SUFFICES ASSUME TypeOK, EventsTrue, [Next]_vars PROVE EventsTrue'
    OBVIOUS
  <1>0. JobIsOver => JobIsOver'
    BY OverForever
  <1>1. CASE UNCHANGED jobEvents
    BY <1>0, <1>1 DEF EventsTrue, JobOver, Conditions
  <1>2. ASSUME NEW p \in Pods, NEW ph \in Terminal, PodFinish(p, ph) PROVE EventsTrue'
    <2>1. CASE JobNotify("Modified", JobCondition)
      BY <1>0, <2>1, JobNotifyTrue, ConditionTrue DEF JobOver
    <2> QED
      BY <1>1, <1>2, <2>1 DEF PodFinish
  <1>3. ASSUME NEW cond \in Conditions, JobFinish(cond) PROVE EventsTrue'
    <2>1. JobIsOver'
      BY <1>3 DEF JobFinish, JobIsOver, Conditions
    <2> QED
      BY <1>0, <1>3, <2>1, JobNotifyTrue DEF JobFinish
  <1>4. CASE JobDelete
    <2>1. JobIsOver'
      BY <1>4 DEF JobDelete, JobIsOver
    <2> QED
      BY <1>0, <1>4, <2>1, JobNotifyTrue DEF JobDelete
  <1>5. CASE Cluster
    BY <1>1, <1>2, <1>3, <1>4, <1>5
    DEF Cluster, PodCreate, PodRun, PodCollect, ContainerExit, JobWatchClose, PodWatchClose
  <1>6. CASE RemoveObject
    <2>1. CASE job' = "deleted" /\ JobNotify("Deleted", JobCondition)
      <3>1. JobIsOver'
        BY <2>1 DEF JobIsOver
      <3> QED
        BY <1>0, <2>1, <3>1, JobNotifyTrue
    <2> QED
      BY <1>1, <1>6, <2>1 DEF RemoveObject
  <1>7. CASE MainStep
    BY <1>1, <1>6, <1>7
    DEF MainStep, ClientError, Start, Interrupt, TimerFires, Select, SelectCancel, SelectWatcher,
        SelectVerifier, watchVars
  <1>8. CASE JobWatchDial
    <2>1. CASE jobEvents' = <<>>
      BY <2>1 DEF EventsTrue
    <2>2. CASE jobEvents' = <<[type |-> "Added", cond |-> JobCondition]>>
      <3>1. \A i \in 1..Len(jobEvents') : jobEvents'[i].type = "Added"
        BY <2>2
      <3> QED
        BY <3>1 DEF EventsTrue, JobOver
    <2> QED
      BY <1>1, <1>8, <2>1, <2>2 DEF JobWatchDial
  <1>9. CASE JobWatchEvent
    <2>1. jobEvents \in Seq(JobEvent) /\ jobEvents # <<>> /\ jobEvents' = Tail(jobEvents)
      BY <1>9 DEF JobWatchEvent, TypeOK, JobWatchTypeOK
    <2>2. \A i \in 1..Len(jobEvents') : i + 1 \in 1..Len(jobEvents) /\ jobEvents'[i] = jobEvents[i + 1]
      BY <2>1
    <2> QED
      BY <1>0, <2>2 DEF EventsTrue, JobOver, Conditions
  <1>10. CASE Verifier
    BY <1>1, <1>8, <1>9, <1>10 DEF Verifier, JobWatchEnd, watchVars
  <1> QED
    BY <1>1, <1>5, <1>7, <1>10, Steps, WatcherFrame, StreamsFrame DEF watchVars, vars

\* A watch is not opened before its goroutine dials.
LEMMA WatchesOffNext == TypeOK /\ WatchesOff /\ [Next]_vars => WatchesOff'
  <1> SUFFICES ASSUME TypeOK, WatchesOff, [Next]_vars PROVE WatchesOff'
    OBVIOUS
  <1>1. CASE UNCHANGED <<watcher, verifier, podWatch, jobWatch, main>>
    BY <1>1 DEF WatchesOff
  <1>2. CASE Cluster
    <2>1. (JobWatchClose \/ PodWatchClose) => WatchesOff'
      BY DEF WatchesOff, JobWatchClose, PodWatchClose, mainVars, waiterVars
    <2> QED
      BY <1>1, <1>2, <2>1
      DEF Cluster, PodCreate, PodRun, PodCollect, ContainerExit, PodFinish, JobFinish, JobDelete,
          clientUnchanged, mainVars, waiterVars
  <1>3. CASE MainStep
    BY <1>3, MainFrame
    DEF WatchesOff, MainStep, ClientError, Start, Interrupt, TimerFires, Select, SelectCancel,
        SelectWatcher, SelectVerifier, RemoveObject, waiterVars
  <1>4. CASE Watcher
    BY <1>4 DEF WatchesOff, Watcher, PodWatchDial, PodWatchEvent, PodWatchEnd, watchVars, Running,
                mainVars, waiterVars
  <1>5. CASE Verifier
    BY <1>5 DEF WatchesOff, Verifier, JobWatchDial, JobWatchEvent, JobWatchEnd, watchVars, Running,
                mainVars
  <1> QED
    BY <1>1, <1>2, <1>3, <1>4, <1>5, Steps, StreamsFrame
    DEF watchVars, mainVars, waiterVars, vars

\* A closed watch stays closed, unless the client stops the job watch because
\* it has learnt the end of the job from it.
LEMMA ClosedForever ==
  ASSUME TypeOK, EventsTrue, WatchesOff, [Next]_vars
  PROVE  /\ podWatch = "closed" => podWatch' = "closed"
         /\ jobWatch = "closed" => jobWatch' = "closed" \/ JobIsOver'
  <1>1. Cluster => UNCHANGED <<podWatch, jobWatch>> \/ JobWatchClose \/ PodWatchClose
    BY DEF Cluster, PodCreate, PodRun, PodCollect, ContainerExit, PodFinish, JobFinish, JobDelete,
           clientUnchanged
  <1>2. CASE Verifier
    <2>1. jobEvents # <<>> => Head(jobEvents) = jobEvents[1] /\ 1 \in 1..Len(jobEvents)
      BY DEF TypeOK, JobWatchTypeOK
    <2>2. ASSUME JobWatchEvent, JobOver(Head(jobEvents)) PROVE JobIsOver'
      BY <2>1, <2>2, OverForever DEF JobWatchEvent, EventsTrue
    <2> QED
      BY <1>2, <2>2, VerifierFrame
      DEF WatchesOff, Verifier, JobWatchDial, JobWatchEvent, JobWatchEnd, watchVars
  <1>3. CASE Watcher
    BY <1>3, WatcherFrame DEF WatchesOff, Watcher, PodWatchDial, PodWatchEvent, PodWatchEnd, watchVars
  <1> QED
    BY <1>1, <1>2, <1>3, Steps, MainFrame, StreamsFrame
    DEF watchVars, vars, JobWatchClose, PodWatchClose

\* The channels and the result stay explained.
LEMMA ResultNext ==
  TypeOK /\ EventsTrue /\ WatchesOff /\ RemoveInv /\ ResultTrue /\ [Next]_vars => ResultTrue'
  <1> SUFFICES ASSUME TypeOK, EventsTrue, WatchesOff, RemoveInv, ResultTrue, [Next]_vars PROVE ResultTrue'
    OBVIOUS
  <1>0. /\ JobIsOver => JobIsOver'
        /\ podWatch = "closed" => podWatch' = "closed"
        /\ jobWatch = "closed" => jobWatch' = "closed" \/ JobIsOver'
    BY OverForever, ClosedForever
  <1>1. CASE UNCHANGED <<main, cause, errs, watcherErrChan, jobCompletionErrChan>>
    BY <1>0, <1>1 DEF ResultTrue, SuccessIsExplained
  <1>2. CASE MainStep
    <2>1. CASE Start \/ Interrupt \/ TimerFires
      BY <1>0, <2>1 DEF ResultTrue, SuccessIsExplained, Start, Interrupt, TimerFires, waiterVars
    <2>2. CASE ClientError \/ RemoveObject
      BY <1>0, <2>2 DEF ResultTrue, SuccessIsExplained, ClientError, RemoveObject, RemoveInv,
                          waiterVars
    <2>3. ASSUME NEW why \in {"signal", "timeout"}, SelectCancel(why) PROVE ResultTrue'
      BY <1>0, <2>3 DEF ResultTrue, SuccessIsExplained, SelectCancel, waiterVars
    <2>4. CASE SelectWatcher
      BY <1>0, <2>4 DEF ResultTrue, SuccessIsExplained, SelectWatcher, TypeOK, WaiterTypeOK, ErrChan
    <2>5. CASE SelectVerifier
      BY <1>0, <2>5 DEF ResultTrue, SuccessIsExplained, SelectVerifier, TypeOK, WaiterTypeOK, ErrChan
    <2> QED
      BY <1>2, <2>1, <2>2, <2>3, <2>4, <2>5 DEF MainStep, Select
  <1>3. CASE Watcher
    BY <1>0, <1>3 DEF ResultTrue, SuccessIsExplained, Watcher, PodWatchDial, PodWatchEvent,
                      PodWatchEnd, watchVars, mainVars, waiterVars, Running
  <1>4. CASE Verifier
    <2>1. jobEvents # <<>> => Head(jobEvents) = jobEvents[1] /\ 1 \in 1..Len(jobEvents)
      BY DEF TypeOK, JobWatchTypeOK
    <2>2. JobWatchEvent /\ JobOver(Head(jobEvents)) => JobIsOver
      BY <2>1 DEF JobWatchEvent, EventsTrue
    <2> QED
      BY <1>0, <1>4, <2>2 DEF ResultTrue, SuccessIsExplained, Verifier, JobWatchDial, JobWatchEvent,
                      JobWatchEnd, watchVars, mainVars, Running
  <1> QED
    BY <1>1, <1>2, <1>3, <1>4, Steps, ClusterFrame, StreamsFrame DEF mainVars, waiterVars, vars

\* The command reports success only when the job is over or the API server
\* closed one of its watches (verifyJobFinished, watchJobPods).
THEOREM SuccessExplained == Spec => []SuccessIsExplained
  <1>1. Init => EventsTrue /\ WatchesOff /\ RemoveInv /\ ResultTrue
    BY DEF Init, EventsTrue, WatchesOff, RemoveInv, CancelRemoves, ResultTrue, SuccessIsExplained
  <1>2. ResultTrue => SuccessIsExplained
    BY DEF ResultTrue
  <1> QED
    BY <1>1, <1>2, TypeCorrect, EventsNext, WatchesOffNext, RemoveNext, ResultNext,
       PTL DEF Spec

-----------------------------------------------------------------------------
(***************************************************************************)
(* The end of the job is not lost.                                         *)
(***************************************************************************)

\* A queue of the job watch holds the news that the job is over.
TellsEnd(es) == \E i \in 1..Len(es) :
    \/ es[i].type = "Modified" /\ es[i].cond # "none"
    \/ es[i].type = "Deleted"

\* An event put at the end of the queue adds to what the queue tells.
LEMMA EndAppend ==
  ASSUME NEW es \in Seq(JobEvent), NEW e \in JobEvent
  PROVE  /\ TellsEnd(es) => TellsEnd(Append(es, e))
         /\ (e.type = "Modified" /\ e.cond # "none") \/ e.type = "Deleted" => TellsEnd(Append(es, e))
  <1>1. /\ Append(es, e) \in Seq(JobEvent)
        /\ Len(Append(es, e)) = Len(es) + 1
        /\ Len(es) \in Nat
        /\ Append(es, e)[Len(es) + 1] = e
        /\ \A i \in 1..Len(es) : Append(es, e)[i] = es[i]
    OBVIOUS
  <1>2. \A i \in 1..Len(es) : i \in 1..Len(Append(es, e))
    BY <1>1
  <1>3. Len(es) + 1 \in 1..Len(Append(es, e))
    BY <1>1
  <1> QED
    BY <1>1, <1>2, <1>3 DEF TellsEnd

\* The news is in the rest of the queue, or its head ends the range.
LEMMA EndTail ==
  ASSUME NEW es \in Seq(JobEvent), es # <<>>, TellsEnd(es), ~JobOver(Head(es))
  PROVE  TellsEnd(Tail(es))
  <1>1. PICK i \in 1..Len(es) : \/ es[i].type = "Modified" /\ es[i].cond # "none"
                                \/ es[i].type = "Deleted"
    BY DEF TellsEnd
  <1>2. es[i] \in JobEvent
    OBVIOUS
  <1>3. JobOver(es[i])
    BY <1>1, <1>2 DEF JobOver, JobEvent
  <1>4. i # 1
    BY <1>3
  <1>5. i - 1 \in 1..Len(Tail(es)) /\ Tail(es)[i - 1] = es[i]
    BY <1>4
  <1> QED
    BY <1>1, <1>5 DEF TellsEnd

\* An event put on the job watch is behind what was there; on an open watch
\* it is there.
LEMMA JobNotifyTells ==
  ASSUME TypeOK, NEW type \in {"Added", "Modified", "Deleted"}, NEW cond \in Conditions \cup {"none"},
         JobNotify(type, cond)
  PROVE  /\ TellsEnd(jobEvents) => TellsEnd(jobEvents')
         /\ jobWatch = "open" /\ ((type = "Modified" /\ cond # "none") \/ type = "Deleted")
                => TellsEnd(jobEvents')
  <1> DEFINE e == [type |-> type, cond |-> cond]
  <1>1. jobEvents \in Seq(JobEvent) /\ e \in JobEvent
    BY DEF TypeOK, JobWatchTypeOK, JobEvent
  <1>2. jobEvents' = IF jobWatch = "open" THEN Append(jobEvents, e) ELSE jobEvents
    BY DEF JobNotify
  <1>3. e.type = type /\ e.cond = cond
    OBVIOUS
  <1> HIDE DEF e
  <1> QED
    BY <1>1, <1>2, <1>3, EndAppend

\* An open job watch keeps its reader: verifyJobFinished stops the watch when
\* it leaves the range over it, unless the server has closed it.
LEMMA JobWatchReadNext == TypeOK /\ WatchesOff /\ JobWatchRead /\ [Next]_vars => JobWatchRead'
  <1> SUFFICES ASSUME TypeOK, WatchesOff, JobWatchRead, [Next]_vars PROVE JobWatchRead'
    OBVIOUS
  <1>1. CASE UNCHANGED <<jobWatch, verifier>>
    BY <1>1 DEF JobWatchRead
  <1>2. CASE Cluster
    BY <1>2, ClusterFrame
    DEF JobWatchRead, Cluster, PodCreate, PodRun, PodCollect, ContainerExit, PodFinish, JobFinish,
        JobDelete, JobWatchClose, PodWatchClose, clientUnchanged, waiterVars
  <1>3. CASE MainStep
    <2>1. Start => jobWatch # "open" /\ jobWatch' = jobWatch
      BY DEF Start, WatchesOff, watchVars
    <2>2. MainStep => Start \/ UNCHANGED <<jobWatch, verifier>>
      BY DEF MainStep, ClientError, Interrupt, TimerFires, Select, SelectCancel, SelectWatcher,
             SelectVerifier, RemoveObject, watchVars, waiterVars
    <2> QED
      BY <1>1, <1>3, <2>1, <2>2 DEF JobWatchRead
  <1>4. CASE Watcher
    BY <1>1, <1>4 DEF Watcher, PodWatchDial, PodWatchEvent, PodWatchEnd, watchVars, waiterVars
  <1>5. CASE Verifier
    BY <1>5 DEF JobWatchRead, Verifier, JobWatchDial, JobWatchEvent, JobWatchEnd, watchVars
  <1> QED
    BY <1>1, <1>2, <1>3, <1>4, <1>5, Steps, StreamsFrame DEF watchVars, waiterVars, vars

\* Where the news of the end is.
LEMMA EndParts ==
  EndIsKnown <=> jobCompletionErrChan # "empty" \/ (verifier = "range" /\ TellsEnd(jobEvents))
  BY DEF EndIsKnown, TellsEnd

\* The same after a step.
LEMMA EndPartsNext ==
  EndIsKnown' <=> jobCompletionErrChan' # "empty" \/ (verifier' = "range" /\ TellsEnd(jobEvents'))
  BY DEF EndIsKnown, TellsEnd

\* A step of the cluster keeps the news and announces the end of the job.
LEMMA EndCluster ==
  ASSUME TypeOK, JobWatchRead, Cluster,
         EndIsKnown \/ (jobWatch = "open" /\ ~JobIsOver /\ JobIsOver')
  PROVE  EndIsKnown'
  <1>0. UNCHANGED <<verifier, jobCompletionErrChan>>
    BY ClusterFrame DEF waiterVars
  <1>1. jobWatch = "open" => verifier = "range"
    BY DEF JobWatchRead
  <1>2. CASE UNCHANGED <<job, jobEvents>>
    <2>1. JobIsOver' => JobIsOver
      BY <1>2 DEF JobIsOver, Conditions
    <2> QED
      BY <1>0, <1>2, <2>1, EndParts, EndPartsNext
  <1>3. ASSUME NEW p \in Pods, NEW ph \in Terminal, PodFinish(p, ph) PROVE EndIsKnown'
    <2>1. job' = job
      BY <1>3 DEF PodFinish
    <2>2. JobIsOver' => JobIsOver
      BY <2>1 DEF JobIsOver, Conditions
    <2>3. CASE JobNotify("Modified", JobCondition)
      <3>1. TellsEnd(jobEvents) => TellsEnd(jobEvents')
        BY <2>3, JobNotifyTells, JobConditionType
      <3> QED
        BY <1>0, <2>2, <3>1, EndParts, EndPartsNext
    <2> QED
      BY <1>2, <1>3, <2>1, <2>3 DEF PodFinish
  <1>4. ASSUME NEW cond \in Conditions, JobFinish(cond) PROVE EndIsKnown'
    <2>1. /\ TellsEnd(jobEvents) => TellsEnd(jobEvents')
          /\ jobWatch = "open" => TellsEnd(jobEvents')
      BY <1>4, JobNotifyTells DEF JobFinish, Conditions
    <2> QED
      BY <1>0, <1>1, <2>1, EndParts, EndPartsNext
  <1>5. CASE JobDelete
    <2>1. /\ TellsEnd(jobEvents) => TellsEnd(jobEvents')
          /\ jobWatch = "open" => TellsEnd(jobEvents')
      BY <1>5, JobNotifyTells, JobConditionType DEF JobDelete
    <2> QED
      BY <1>0, <1>1, <2>1, EndParts, EndPartsNext
  <1> QED
    BY <1>2, <1>3, <1>4, <1>5
    DEF Cluster, PodCreate, PodRun, PodCollect, ContainerExit, JobWatchClose, PodWatchClose, clusterVars

\* A step after which the main goroutine still waits keeps the news: it reads
\* the channels only to return.
LEMMA EndMain ==
  ASSUME WatchesOff, MainStep, main' = "select", EndIsKnown
  PROVE  EndIsKnown'
  <1>1. CASE Start
    <2>1. verifier # "range" /\ jobCompletionErrChan' = jobCompletionErrChan
      BY <1>1 DEF Start, WatchesOff
    <2> QED
      BY <2>1, EndParts, EndPartsNext
  <1>2. CASE UNCHANGED <<verifier, jobCompletionErrChan, jobEvents>>
    BY <1>2, EndParts, EndPartsNext
  <1> QED
    BY <1>1, <1>2
    DEF MainStep, ClientError, Interrupt, TimerFires, Select, SelectCancel, SelectWatcher,
        SelectVerifier, RemoveObject, watchVars, waiterVars

\* A step of verifyJobFinished hands the news on: an event that ends the wait
\* leaves the queue only together with the result it sends.
LEMMA EndVerifier ==
  ASSUME TypeOK, Verifier, EndIsKnown
  PROVE  EndIsKnown'
  <1>1. CASE JobWatchDial
    BY <1>1, EndParts, EndPartsNext DEF JobWatchDial
  <1>2. CASE JobWatchEvent
    <2>0. jobEvents \in Seq(JobEvent) /\ jobEvents # <<>> /\ jobEvents' = Tail(jobEvents)
      BY <1>2 DEF JobWatchEvent, TypeOK, JobWatchTypeOK
    <2>1. CASE JobOver(Head(jobEvents))
      <3>1. jobCompletionErrChan' = "nil"
        BY <1>2, <2>1 DEF JobWatchEvent
      <3> QED
        BY <3>1, EndPartsNext
    <2>2. CASE ~JobOver(Head(jobEvents))
      <3>1. UNCHANGED <<verifier, jobCompletionErrChan>>
        BY <1>2, <2>2 DEF JobWatchEvent
      <3>2. TellsEnd(jobEvents) => TellsEnd(jobEvents')
        BY <2>0, <2>2, EndTail
      <3> QED
        BY <3>1, <3>2, EndParts, EndPartsNext
    <2> QED
      BY <2>1, <2>2
  <1>3. CASE JobWatchEnd
    BY <1>3, EndPartsNext DEF JobWatchEnd
  <1> QED
    BY <1>1, <1>2, <1>3 DEF Verifier

\* As long as the command waits, the news that the job is over stays on its
\* way to the main goroutine, and a job that ends while its watch is open is
\* news (verifyJobFinished).
THEOREM EndReachesMain == Spec => EndIsNotLost
  <1>1. Init => WatchesOff /\ JobWatchRead
    BY DEF Init, WatchesOff, JobWatchRead
  <1>2. TypeOK /\ WatchesOff /\ JobWatchRead /\ [Next]_vars
          => [main' = "select" /\ (EndIsKnown \/ (jobWatch = "open" /\ ~JobIsOver /\ JobIsOver'))
                => EndIsKnown']_vars
    <2> SUFFICES ASSUME TypeOK, WatchesOff, JobWatchRead, [Next]_vars, main' = "select",
                        EndIsKnown \/ (jobWatch = "open" /\ ~JobIsOver /\ JobIsOver')
                 PROVE  EndIsKnown'
      OBVIOUS
    <2>1. CASE Cluster
      BY <2>1, EndCluster
    <2>2. ASSUME UNCHANGED job PROVE EndIsKnown
      BY <2>2 DEF JobIsOver, Conditions
    <2>3. CASE MainStep
      <3>1. UNCHANGED job
        BY <2>3 DEF MainStep, ClientError, Start, Interrupt, TimerFires, Select, SelectCancel,
                    SelectWatcher, SelectVerifier, RemoveObject, clusterVars
      <3> QED
        BY <2>2, <2>3, <3>1, EndMain
    <2>4. CASE Verifier
      BY <2>2, <2>4, VerifierFrame, EndVerifier DEF clusterVars
    <2>5. CASE Watcher
      <3>1. UNCHANGED verifier
        BY <2>5 DEF Watcher, PodWatchDial, PodWatchEvent, PodWatchEnd, waiterVars
      <3> QED
        BY <2>2, <2>5, <3>1, WatcherFrame, EndParts, EndPartsNext DEF clusterVars
    <2>6. CASE Streams \/ UNCHANGED vars
      <3>1. UNCHANGED <<job, verifier, jobCompletionErrChan, jobEvents>>
        BY <2>6, StreamsFrame DEF clusterVars, watchVars, waiterVars, vars
      <3> QED
        BY <2>2, <3>1, EndParts, EndPartsNext
    <2> QED
      BY <2>1, <2>3, <2>4, <2>5, <2>6, Steps
  <1> QED
    BY <1>1, <1>2, TypeCorrect, WatchesOffNext, JobWatchReadNext, PTL DEF Spec, EndIsNotLost

-----------------------------------------------------------------------------
(***************************************************************************)
(* Refinement of WaitContract.                                             *)
(***************************************************************************)

\* The contract's view of the watches.
aCut == "closed" \in {jobWatch, podWatch}

\* A step that leaves the contract's state alone.
Hidden == UNCHANGED <<opts, job, main, errs>> /\ aCut' = aCut

\* Such a step is a stuttering step of the contract.
LEMMA HiddenStutters == Hidden => UNCHANGED Contract!contractVars
  BY DEF Hidden, Contract!contractVars, aCut, Conditions

\* A step of the cluster ends the job, cuts a watch or is hidden.
LEMMA ClusterRefines ==
  ASSUME TypeOK, WatchesOff, main \notin {"returned", "killed"}, Cluster
  PROVE  Contract!Next \/ UNCHANGED Contract!contractVars
  <1>0. UNCHANGED <<opts, main, errs>>
    BY ClusterFrame DEF mainVars
  <1>1. CASE UNCHANGED <<job, jobWatch, podWatch>>
    BY <1>0, <1>1, HiddenStutters DEF Hidden, aCut
  <1>2. CASE JobWatchClose \/ PodWatchClose
    <2>1. main \in {"select", "remove"}
      BY <1>2 DEF JobWatchClose, PodWatchClose, WatchesOff, TypeOK, MainTypeOK
    <2>2. UNCHANGED job /\ aCut'
      BY <1>2 DEF JobWatchClose, PodWatchClose, clusterVars, aCut
    <2>3. Contract!WatchCut
      BY <1>0, <2>1, <2>2 DEF Contract!WatchCut, aCut, Conditions
    <2> QED
      BY <2>3 DEF Contract!Next
  <1>3. CASE JobDelete \/ \E cond \in Conditions : JobFinish(cond)
    <2>1. UNCHANGED <<jobWatch, podWatch>>
      BY <1>3 DEF JobDelete, JobFinish, clientUnchanged
    <2>2. \/ job = "active" /\ job' \in Conditions \cup {"deleted"}
          \/ job \in Conditions /\ job' = "deleted"
      BY <1>3 DEF JobDelete, JobFinish
    <2>3. Contract!JobEnds
      BY <1>0, <2>1, <2>2 DEF Contract!JobEnds, Conditions
    <2> QED
      BY <2>3 DEF Contract!Next
  <1> QED
    BY <1>1, <1>2, <1>3
    DEF Cluster, PodCreate, PodRun, PodCollect, ContainerExit, PodFinish, clientUnchanged, clusterVars

\* A step of the main goroutine is the step of the contract of that name.
LEMMA MainRefines ==
  ASSUME TypeOK, ResultTrue, RemoveInv, MainStep
  PROVE  Contract!Next \/ UNCHANGED Contract!contractVars
  <1>0. UNCHANGED <<opts, jobWatch, podWatch>>
    BY MainFrame
  <1>1. CASE ClientError \/ Start
    <2>1. Contract!Enter
      BY <1>0, <1>1 DEF ClientError, Start, Contract!Enter, clusterVars, Conditions
    <2> QED
      BY <2>1 DEF Contract!Next
  <1>2. CASE Interrupt
    <2>1. CASE main = "call"
      <3>1. Contract!Enter
        BY <1>0, <1>2, <2>1 DEF Interrupt, Contract!Enter, clusterVars, Conditions
      <3> QED
        BY <3>1 DEF Contract!Next
    <2>2. CASE main # "call"
      BY <1>0, <1>2, <2>2, HiddenStutters DEF Interrupt, Hidden, aCut, clusterVars
    <2> QED
      BY <2>1, <2>2
  <1>3. CASE TimerFires
    BY <1>0, <1>3, HiddenStutters DEF TimerFires, Hidden, aCut, clusterVars
  <1>4. ASSUME NEW why \in {"signal", "timeout"}, SelectCancel(why)
        PROVE  Contract!Next
    <2>1. Contract!Cancel
      BY <1>0, <1>4 DEF SelectCancel, RemoveInv, Contract!Cancel, clusterVars, Conditions
    <2> QED
      BY <2>1 DEF Contract!Next
  <1>5. CASE SelectWatcher
    <2>1. CASE watcherErrChan = "err"
      <3>1. Contract!Fail
        BY <1>0, <1>5, <2>1 DEF SelectWatcher, Contract!Fail, clusterVars, Conditions
      <3> QED
        BY <3>1 DEF Contract!Next
    <2>2. CASE watcherErrChan = "nil"
      <3>1. Contract!Finish
        BY <1>0, <1>5, <2>2 DEF SelectWatcher, ResultTrue, Contract!Finish, clusterVars, Conditions
      <3> QED
        BY <3>1 DEF Contract!Next
    <2> QED
      BY <1>5, <2>1, <2>2 DEF SelectWatcher, TypeOK, WaiterTypeOK, ErrChan
  <1>6. CASE SelectVerifier
    <2>1. CASE jobCompletionErrChan = "err"
      <3>1. Contract!Fail
        BY <1>0, <1>6, <2>1 DEF SelectVerifier, Contract!Fail, clusterVars, Conditions
      <3> QED
        BY <3>1 DEF Contract!Next
    <2>2. CASE jobCompletionErrChan = "nil"
      <3>1. Contract!Finish
        BY <1>0, <1>6, <2>2
        DEF SelectVerifier, ResultTrue, JobIsOver, Contract!Finish, clusterVars, Conditions
      <3> QED
        BY <3>1 DEF Contract!Next
    <2> QED
      BY <1>6, <2>1, <2>2 DEF SelectVerifier, TypeOK, WaiterTypeOK, ErrChan
  <1>7. CASE RemoveObject
    <2>1. Contract!Remove
      BY <1>0, <1>7 DEF RemoveObject, Contract!Remove, Conditions
    <2> QED
      BY <2>1 DEF Contract!Next
  <1> QED
    BY <1>1, <1>2, <1>3, <1>4, <1>5, <1>6, <1>7 DEF MainStep, Select

\* A step of the other goroutines is hidden.
LEMMA GoroutinesRefine ==
  ASSUME WatchesOff, Watcher \/ Verifier \/ Streams
  PROVE  UNCHANGED Contract!contractVars
  <1>1. CASE Watcher
    <2>1. aCut' = aCut
      BY <1>1, WatcherFrame
      DEF aCut, WatchesOff, Watcher, PodWatchDial, PodWatchEvent, PodWatchEnd, watchVars
    <2> QED
      BY <1>1, <2>1, WatcherFrame, HiddenStutters DEF Hidden, clusterVars, mainVars
  <1>2. CASE Verifier
    <2>1. aCut' = aCut
      BY <1>2, VerifierFrame
      DEF aCut, WatchesOff, Verifier, JobWatchDial, JobWatchEvent, JobWatchEnd, watchVars
    <2> QED
      BY <1>2, <2>1, VerifierFrame, HiddenStutters DEF Hidden, clusterVars, mainVars
  <1>3. CASE Streams
    BY <1>3, StreamsFrame, HiddenStutters DEF Hidden, aCut, clusterVars, watchVars, mainVars
  <1> QED
    BY <1>1, <1>2, <1>3

\* The waiting command implements the contract: however its goroutines are
\* scheduled, watchJobAndStreamLogs ends in one of the ways WaitContract
\* allows, with the job in the state it says.
THEOREM Implements == Spec => KeepsContract
  <1>1. Init => Contract!Init
    BY DEF Init, Contract!Init, Conditions
  <1>2. TypeOK /\ WatchesOff /\ RemoveInv /\ ResultTrue /\ [Next]_vars
            => [Contract!Next]_Contract!contractVars
    <2> SUFFICES ASSUME TypeOK, WatchesOff, RemoveInv, ResultTrue, [Next]_vars
                 PROVE  Contract!Next \/ UNCHANGED Contract!contractVars
      OBVIOUS
    <2>1. CASE UNCHANGED vars
      BY <2>1, HiddenStutters DEF Hidden, aCut, vars, clusterVars, watchVars, mainVars
    <2> QED
      BY <2>1, ClusterRefines, MainRefines, GoroutinesRefine DEF Next, Rest, MainStep
  <1>3. Init => EventsTrue /\ WatchesOff /\ RemoveInv /\ ResultTrue
    BY DEF Init, EventsTrue, WatchesOff, RemoveInv, CancelRemoves, ResultTrue, SuccessIsExplained
  <1> QED
    BY <1>1, <1>2, <1>3, TypeCorrect, EventsNext, WatchesOffNext, RemoveNext, ResultNext, PTL
    DEF Spec, KeepsContract, Contract!Spec
=============================================================================
