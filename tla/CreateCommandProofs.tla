------------------------ MODULE CreateCommandProofs ------------------------
(***************************************************************************)
(* The safety of create, for any number of children the slurm builder      *)
(* returns and any requests.  Of the waiting only the steps of             *)
(* WaitContract are used, which SlurmWaitProofs shows SlurmWait to take.   *)
(***************************************************************************)
EXTENDS CreateCommand, TLAPS

\* The steps of watchJobAndStreamLogs as Run sees them.
WaitStep == Wait!WatchCut \/ Wait!Enter \/ Wait!Finish \/ Wait!Fail \/ Wait!Cancel \/ Wait!Remove

-----------------------------------------------------------------------------
(***************************************************************************)
(* Type correctness.                                                       *)
(***************************************************************************)

\* The loop over the children has not begun before the builder has returned,
\* so that made does not get ahead of children when children is set.
TypeInv == TypeOK /\ (pc \in {"complete", "build", "root"} => made = 0)

\* What a step of the waiting does to the variables it shares with Run.
LEMMA WaitStepType ==
  ASSUME TypeOK, WaitStep
  PROVE  /\ opts' = opts
         /\ root' \in {root, "deleted"} /\ (root' # root => root # "absent")
         /\ call' \in {"off", "entered", "waiting", "removing", "returned", "killed"}
         /\ cut' \in BOOLEAN
         /\ errs' \subseteq {"flags", "build", "create", "session", "client", "watcher", "verifier",
                             "timeout", "remove"}
  <1> USE DEF TypeOK
  <1>1. CASE Wait!WatchCut
    BY <1>1 DEF Wait!WatchCut
  <1>2. CASE Wait!Enter
    BY <1>2 DEF Wait!Enter
  <1>3. CASE Wait!Finish
    BY <1>3 DEF Wait!Finish
  <1>4. CASE Wait!Fail
    BY <1>4 DEF Wait!Fail
  <1>5. CASE Wait!Cancel
    BY <1>5 DEF Wait!Cancel
  <1>6. CASE Wait!Remove
    BY <1>6 DEF Wait!Remove
  <1> QED
    BY <1>1, <1>2, <1>3, <1>4, <1>5, <1>6 DEF WaitStep

\* Storing a child keeps the types, and touches no child but that one.
LEMMA StoreType ==
  ASSUME TypeOK, NEW k \in Kids, Store(k)
  PROVE  /\ child' \in [Kids -> {"absent", "live", "collected"}] /\ owned' \subseteq Kids
         /\ \A j \in Kids \ {k} : child'[j] = child[j]
         /\ IF Persists THEN child'[k] = "live" ELSE child' = child
  BY DEF TypeOK, Store

\* The child that the loop handles next is one of the children.
LEMMA NextChild == TypeOK /\ made < children => made + 1 \in Kids /\ made + 1 \in 1..children
  BY CreateAssumption DEF TypeOK, Kids

\* The inductive invariant of the types.
LEMMA TypeInvariant == Spec => []TypeInv
  <1>1. Init => TypeInv
    <2> SUFFICES ASSUME Init PROVE TypeInv
      OBVIOUS
    <2>1. made \in 0..children /\ children \in {0, SlurmChildren}
      BY DEF Init
    <2>2. child \in [Kids -> {"absent", "live", "collected"}]
      BY DEF Init
    <2> QED
      BY <2>1, <2>2 DEF Init, TypeInv, TypeOK
  <1>2. TypeInv /\ [Next]_vars => TypeInv'
    <2> SUFFICES ASSUME TypeInv, [Next]_vars PROVE TypeInv'
      OBVIOUS
    <2> USE CreateAssumption DEF TypeInv, TypeOK
    <2>1. CASE Complete
      BY <2>1 DEF Complete, Exit
    <2>2. CASE Build
      <3>1. made' = 0 /\ children' \in {0, SlurmChildren}
        BY <2>2 DEF Build
      <3>2. made' \in 0..children'
        BY <3>1
      <3> QED
        BY <2>2, <3>1, <3>2 DEF Build, Exit
    <2>3. CASE CreateRoot
      BY <2>3 DEF CreateRoot, Exit
    <2>4. CASE CreateChild
      <3>1. made + 1 \in Kids /\ made' \in 0..children
        BY <2>4, NextChild DEF CreateChild, Exit
      <3>2. child' \in [Kids -> {"absent", "live", "collected"}] /\ owned' \subseteq Kids
        BY <2>4, <3>1, StoreType DEF CreateChild
      <3> QED
        BY <2>4, <3>1, <3>2 DEF CreateChild, Exit
    <2>5. CASE Dispatch
      BY <2>5 DEF Dispatch, Exit
    <2>6. CASE Session
      BY <2>6 DEF Session, Exit
    <2>7. CASE Waiting
      <3>1. WaitStep
        BY <2>7 DEF Waiting, WaitStep
      <3> QED
        BY <2>7, <3>1, WaitStepType DEF Waiting
    <2>8. CASE Killed
      BY <2>8 DEF Killed
    <2>9. CASE RootEnds
      BY <2>9 DEF RootEnds
    <2>10. ASSUME NEW k \in Kids, Collect(k) PROVE TypeInv'
      BY <2>10 DEF Collect
    <2>11. CASE Done \/ UNCHANGED vars
      BY <2>11 DEF Done, vars
    <2> QED
      BY <2>1, <2>2, <2>3, <2>4, <2>5, <2>6, <2>7, <2>8, <2>9, <2>10, <2>11 DEF Next, Command
  <1> QED
    BY <1>1, <1>2, PTL DEF Spec

\* Run, createObject and the waiting keep the types; among the rest, no child
\* is handled that the builder did not return.
THEOREM TypeCorrect == Spec => []TypeOK
  <1>1. TypeInv => TypeOK
    BY DEF TypeInv
  <1> QED
    BY <1>1, TypeInvariant, PTL

-----------------------------------------------------------------------------
(***************************************************************************)
(* Steps that do not create: the root may end and children may be          *)
(* collected, but what was created stays created and nothing comes into    *)
(* being.  All steps but CreateRoot and CreateChild are of this kind.      *)
(***************************************************************************)

NothingMade ==
    /\ opts' = opts
    /\ root' = "absent" <=> root = "absent"
    /\ \A k \in Kids : child'[k] = "absent" <=> child[k] = "absent"
    /\ \A k \in Kids : child'[k] = "live" => child[k] = "live"
    /\ owned' = owned

\* Which steps create nothing.
LEMMA OthersMakeNothing ==
  ASSUME TypeOK, [Next]_vars, ~CreateRoot, ~CreateChild
  PROVE  NothingMade
  <1> USE DEF NothingMade, TypeOK
  <1>1. CASE Complete \/ Build \/ Dispatch \/ Killed
    BY <1>1 DEF Complete, Build, Dispatch, Killed
  <1>2. CASE Session
    BY <1>2 DEF Session
  <1>3. CASE Waiting
    <2>1. WaitStep
      BY <1>3 DEF Waiting, WaitStep
    <2> QED
      BY <1>3, <2>1, WaitStepType DEF Waiting
  <1>4. CASE RootEnds
    BY <1>4 DEF RootEnds
  <1>5. ASSUME NEW k \in Kids, Collect(k) PROVE NothingMade
    BY <1>5 DEF Collect
  <1>6. CASE Done \/ UNCHANGED vars
    BY <1>6 DEF Done, vars
  <1> QED
    BY <1>1, <1>2, <1>3, <1>4, <1>5, <1>6 DEF Next, Command

-----------------------------------------------------------------------------
(***************************************************************************)
(* Dry runs.                                                               *)
(***************************************************************************)

\* A dry run of the client or of the server leaves nothing in the cluster,
\* the waiting and the session included (Run, createObject).
THEOREM DryRunsPersistNothing == Spec => []DryRunPersistsNothing
  <1>1. Init => DryRunPersistsNothing
    BY DEF Init, DryRunPersistsNothing
  <1>2. TypeOK /\ DryRunPersistsNothing /\ [Next]_vars => DryRunPersistsNothing'
    <2> SUFFICES ASSUME TypeOK, DryRunPersistsNothing, [Next]_vars, opts'.dryRun # "none"
                 PROVE  root' = "absent" /\ \A k \in Kids : child'[k] = "absent"
      BY DEF DryRunPersistsNothing
    <2>1. ASSUME opts' = opts
          PROVE  root = "absent" /\ \A k \in Kids : child[k] = "absent"
      BY <2>1 DEF DryRunPersistsNothing
    <2>2. opts \in Request
      BY CreateAssumption DEF TypeOK
    <2>3. opts' = opts => ~Persists
      BY <2>2 DEF Persists, Request, DryRuns
    <2>4. CASE CreateRoot
      BY <2>4, <2>1, <2>3 DEF CreateRoot
    <2>5. CASE CreateChild
      <3>1. made + 1 \in Kids /\ ~Persists /\ opts' = opts
        BY <2>5, <2>3, NextChild DEF CreateChild
      <3>2. child' = child
        BY <2>5, <3>1, StoreType DEF CreateChild
      <3> QED
        BY <2>5, <3>1, <3>2, <2>1 DEF CreateChild
    <2>6. CASE ~CreateRoot /\ ~CreateChild
      BY <2>6, <2>1, <2>3, OthersMakeNothing DEF NothingMade
    <2> QED
      BY <2>4, <2>5, <2>6
  <1> QED
    BY <1>1, <1>2, TypeCorrect, PTL DEF Spec

-----------------------------------------------------------------------------
(***************************************************************************)
(* What is there when the loop over the children has come to made, and     *)
(* when the command has left it.                                           *)
(***************************************************************************)

\* The children that were handled exist, and once the first Create call has
\* been answered so does the root.
MadeInv ==
    opts.dryRun = "none" =>
        /\ \A j \in 1..made : child[j] # "absent"
        /\ pc \in {"child", "wait", "session"} => root # "absent"

\* Run leaves the loop without an error only at its end.
SuccessInv ==
    (pc \in {"wait", "session"} \/ (pc = "exit" /\ errs = {})) =>
        made = children /\ (opts.dryRun = "none" => root # "absent")

\* Every live child has an owner reference to the root.
Owned == \A k \in Kids : child[k] = "live" => k \in owned

ObjectsInv == MadeInv /\ PrefixOfObjects /\ SuccessInv /\ Owned

\* A step that creates nothing keeps the parts that are about objects; of the
\* loop it must keep the position.
LEMMA NothingMadeStep ==
  ASSUME TypeOK, ObjectsInv, NothingMade, made' = made,
         pc' \in {"child", "wait", "session"} => pc \in {"child", "wait", "session"}
  PROVE  MadeInv' /\ PrefixOfObjects' /\ Owned'
  <1>1. 1..made \subseteq Kids
    BY CreateAssumption DEF TypeOK, Kids
  <1>2. MadeInv'
    BY <1>1 DEF ObjectsInv, MadeInv, NothingMade
  <1>3. PrefixOfObjects'
    <2>1. \A k \in Kids : 1..k \subseteq Kids
      BY CreateAssumption DEF Kids
    <2> QED
      BY <2>1 DEF ObjectsInv, PrefixOfObjects, NothingMade
  <1>4. Owned'
    BY DEF ObjectsInv, Owned, NothingMade
  <1> QED
    BY <1>2, <1>3, <1>4

\* The inductive invariant of the objects.
LEMMA ObjectsInvariant == Spec => []ObjectsInv
  <1>1. Init => ObjectsInv
    BY DEF Init, ObjectsInv, MadeInv, PrefixOfObjects, SuccessInv, Owned
  <1>2. TypeInv /\ TypeInv' /\ ObjectsInv /\ [Next]_vars => ObjectsInv'
    <2> SUFFICES ASSUME TypeInv, TypeInv', ObjectsInv, [Next]_vars PROVE ObjectsInv'
      OBVIOUS
    <2>t. TypeOK /\ TypeOK'
      BY DEF TypeInv
    <2>1. CASE Complete \/ Build
      <3>1. MadeInv' /\ PrefixOfObjects' /\ Owned'
        <4>1. NothingMade /\ made' = made /\ pc' \notin {"child", "wait", "session"}
          BY <2>1 DEF Complete, Build, Exit, NothingMade
        <4> QED
          BY <4>1, <2>t, NothingMadeStep
      <3>2. SuccessInv'
        BY <2>1 DEF Complete, Build, Exit, SuccessInv
      <3> QED
        BY <3>1, <3>2 DEF ObjectsInv
    <2>2. CASE CreateRoot
      <3>0. opts \in Request /\ opts' = opts /\ made' = 0 /\ child' = child
        BY <2>2, <2>t, CreateAssumption DEF CreateRoot, TypeInv, TypeOK
      <3>1. opts.dryRun = "none" => Persists
        BY DEF Persists
      <3>2. MadeInv'
        BY <2>2, <3>0, <3>1 DEF CreateRoot, MadeInv, Exit
      <3>3. PrefixOfObjects' /\ Owned'
        <4>1. root # "absent" => root' # "absent"
          BY <2>2 DEF CreateRoot
        <4> QED
          BY <2>2, <3>0, <4>1 DEF CreateRoot, ObjectsInv, PrefixOfObjects, Owned
      <3>4. SuccessInv'
        BY <2>2 DEF CreateRoot, SuccessInv, Exit
      <3> QED
        BY <3>2, <3>3, <3>4 DEF ObjectsInv
    <2>3. CASE CreateChild
      <3>0. opts \in Request /\ opts' = opts /\ root' = root
        BY <2>3, <2>t, CreateAssumption DEF CreateChild, TypeOK
      <3>1. made \in Nat /\ made + 1 \in Kids /\ 1..made \subseteq Kids
        BY <2>3, <2>t, NextChild, CreateAssumption DEF CreateChild, TypeOK, Kids
      <3>2. CASE Store(made + 1) /\ Persists
        <4>1. /\ opts.dryRun = "none" /\ root # "absent"
              /\ \A j \in 1..made : child[j] # "absent"
          BY <2>3, <3>0, <3>2 DEF CreateChild, Persists, Request, DryRuns, ObjectsInv, MadeInv
        <4>2. child'[made + 1] = "live" /\ \A j \in Kids \ {made + 1} : child'[j] = child[j]
          BY <3>1, <3>2, <2>t, StoreType
        <4>3. \A j \in 1..(made + 1) : child'[j] # "absent"
          BY <4>1, <4>2, <3>1
        <4>4. MadeInv'
          <5>1. made' \in {made, made + 1}
            BY <2>3 DEF CreateChild
          <5>2. \A j \in 1..made' : child'[j] # "absent"
            BY <4>3, <5>1, <3>1
          <5> QED
            BY <4>1, <5>2, <3>0 DEF MadeInv
        <4>5. PrefixOfObjects'
          <5> SUFFICES ASSUME NEW k \in Kids, child'[k] # "absent", NEW j \in 1..k
                       PROVE  child'[j] # "absent"
            BY <4>1, <3>0 DEF PrefixOfObjects
          <5>1. k \in Nat /\ j \in Kids
            BY CreateAssumption DEF Kids
          <5>2. CASE k = made + 1
            BY <5>2, <4>3
          <5>3. CASE k # made + 1
            <6>1. child[k] # "absent"
              BY <5>3, <4>2
            <6>2. child[j] # "absent"
              BY <6>1 DEF ObjectsInv, PrefixOfObjects
            <6> QED
              BY <6>2, <4>2, <5>1
          <5> QED
            BY <5>2, <5>3
        <4>6. Owned'
          BY <3>2, <4>2, <3>1 DEF Store, ObjectsInv, Owned
        <4> QED
          BY <4>4, <4>5, <4>6, <2>3 DEF ObjectsInv, CreateChild, Exit, SuccessInv
      <3>3. CASE UNCHANGED <<child, owned>> /\ (Persists => made' = made)
        <4>1. MadeInv'
          <5>1. opts'.dryRun = "none" => Persists
            BY <3>0 DEF Persists
          <5> QED
            BY <3>3, <5>1, <3>0, <2>3 DEF ObjectsInv, MadeInv, CreateChild, Exit
        <4>2. PrefixOfObjects' /\ Owned'
          BY <3>3, <3>0 DEF ObjectsInv, PrefixOfObjects, Owned
        <4> QED
          BY <4>1, <4>2, <2>3 DEF ObjectsInv, CreateChild, Exit, SuccessInv
      <3> QED
        BY <3>2, <3>3, <2>3 DEF CreateChild, Store
    <2>4. CASE Dispatch
      <3>1. MadeInv' /\ PrefixOfObjects' /\ Owned'
        <4>1. NothingMade /\ made' = made /\ pc = "child"
          BY <2>4 DEF Dispatch, NothingMade
        <4> QED
          BY <4>1, <2>t, NothingMadeStep
      <3>2. SuccessInv'
        BY <2>4 DEF Dispatch, Exit, SuccessInv, ObjectsInv, MadeInv
      <3> QED
        BY <3>1, <3>2 DEF ObjectsInv
    <2>5. CASE Session \/ Waiting
      <3>1. NothingMade
        BY <2>5, <2>t, OthersMakeNothing DEF Session, Waiting, CreateRoot, CreateChild
      <3>2. made' = made /\ children' = children /\ pc \in {"wait", "session"}
        BY <2>5 DEF Session, Waiting
      <3>3. MadeInv' /\ PrefixOfObjects' /\ Owned'
        BY <3>1, <3>2, <2>t, NothingMadeStep
      <3>4. SuccessInv'
        BY <3>1, <3>2 DEF ObjectsInv, SuccessInv, NothingMade
      <3> QED
        BY <3>3, <3>4 DEF ObjectsInv
    <2>6. ASSUME \/ Killed \/ RootEnds \/ (\E k \in Kids : Collect(k)) \/ Done \/ UNCHANGED vars
          PROVE  ObjectsInv'
      <3>2. /\ made' = made /\ children' = children /\ errs' = errs
            /\ pc' = pc \/ pc' = "killed"
        BY <2>6 DEF Killed, RootEnds, Collect, Done, vars
      <3>3. NothingMade
        BY <2>6, <2>t DEF NothingMade, Killed, RootEnds, Collect, Done, vars, TypeOK
      <3>4. MadeInv' /\ PrefixOfObjects' /\ Owned'
        BY <3>2, <3>3, <2>t, NothingMadeStep
      <3>5. SuccessInv'
        BY <3>2, <3>3 DEF ObjectsInv, SuccessInv, NothingMade
      <3> QED
        BY <3>4, <3>5 DEF ObjectsInv
    <2> QED
      BY <2>1, <2>2, <2>3, <2>4, <2>5, <2>6 DEF Next, Command
  <1> QED
    BY <1>1, <1>2, TypeInvariant, PTL DEF Spec

\* However the command fails or is killed, it leaves a prefix of its objects.
THEOREM LeavesPrefix == Spec => []PrefixOfObjects
  <1>1. ObjectsInv => PrefixOfObjects
    BY DEF ObjectsInv
  <1> QED
    BY <1>1, ObjectsInvariant, PTL

\* Success of Run means that the root and all children were created.
THEOREM SuccessCreated == Spec => []SuccessMeansCreated
  <1>1. ObjectsInv => SuccessMeansCreated
    BY DEF ObjectsInv, SuccessInv, MadeInv, SuccessMeansCreated
  <1> QED
    BY <1>1, ObjectsInvariant, PTL

\* No child ever lives without the owner reference by which the garbage
\* collector finds it, not even one whose Create call was answered by an error
\* (createObject): the safety half of ChildrenFollowRoot.
THEOREM ChildrenAreOwned == Spec => []Owned
  <1>1. ObjectsInv => Owned
    BY DEF ObjectsInv
  <1> QED
    BY <1>1, ObjectsInvariant, PTL
=============================================================================
