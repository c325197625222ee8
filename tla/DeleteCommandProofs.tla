------------------------ MODULE DeleteCommandProofs ------------------------
(***************************************************************************)
(* The safety of the five delete commands, for any number of users, names  *)
(* and command lines, and however often names are used again.              *)
(***************************************************************************)
EXTENDS DeleteCommand, TLAPS

-----------------------------------------------------------------------------
(***************************************************************************)
(* Type correctness.  ClusterInv is about the objects, ClientInv about the *)
(* users; TypeOK follows from both.                                        *)
(***************************************************************************)

\* The cluster: an object that is there has its dependents, none of which was
\* orphaned, and no dependents are those of an object to come.
ClusterInv ==
    /\ obj \in [Names -> {"none", "live", "terminating"}]
    /\ label \in [Names -> Labels]
    /\ gen \in [Names -> Nat \ {0}] /\ \A n \in Names : gen[n] <= MaxGen[n]
    /\ kids \in [Names -> SUBSET Nat] /\ orphans \in [Names -> SUBSET Nat]
    /\ \A n \in Names :
         /\ kids[n] \subseteq 1..gen[n] /\ orphans[n] \subseteq 1..gen[n]
         /\ kids[n] \cap orphans[n] = {}
         /\ obj[n] # "none" => gen[n] \in kids[n]

\* The users: one in the loop is at one of its names, has passed Complete and,
\* before its Delete, has seen an object of that name, perhaps a former one.
ClientInv ==
    /\ req \in [Clients -> Requests] /\ failed \in [Clients -> BOOLEAN]
    /\ pc \in [Clients -> {"complete", "get", "delete", "print", "exit"}]
    /\ idx \in [Clients -> Nat \ {0}] /\ seen \in [Clients -> Nat]
    /\ \A c \in Clients :
         /\ idx[c] \in 1..(Len(req[c].names) + 1)
         /\ pc[c] # "exit" => idx[c] <= Len(req[c].names)
         /\ (pc[c] = "exit" /\ ~failed[c]) => idx[c] = Len(req[c].names) + 1
         /\ pc[c] \in {"get", "delete", "print"} =>
              req[c].dryRun \in DryRunStrategies /\ req[c].cascade \in CascadeStrategies
         /\ pc[c] = "delete" => seen[c] \in 1..gen[Name(c)]

\* The name a user is at is a name.
LEMMA NameType ==
  ASSUME ClientInv, NEW c \in Clients, idx[c] <= Len(req[c].names)
  PROVE  Name(c) \in Names
  <1>1. req[c].names \in Seq(Names)
    BY RequestsAssumption DEF ClientInv
  <1> QED
    BY <1>1 DEF ClientInv, Name

\* A Delete by the API server keeps the cluster's invariant.
LEMMA RemoveKeeps ==
  ASSUME ClusterInv, NEW n \in Names, NEW p, Remove(n, p), obj[n] # "none"
  PROVE  ClusterInv'
  <1>1. /\ obj' \in [Names -> {"none", "live", "terminating"}]
        /\ kids' \in [Names -> SUBSET Nat] /\ orphans' \in [Names -> SUBSET Nat]
        /\ \A m \in Names \ {n} : obj'[m] = obj[m] /\ kids'[m] = kids[m] /\ orphans'[m] = orphans[m]
    BY DEF Remove, ClusterInv
  <1>2. /\ kids'[n] \subseteq kids[n] /\ orphans'[n] \subseteq orphans[n] \cup kids[n]
        /\ kids'[n] \cap orphans'[n] = {}
        /\ obj'[n] # "none" => gen[n] \in kids'[n]
    <2>1. CASE p = "orphan"
      BY <2>1 DEF Remove, ClusterInv
    <2>2. CASE p # "orphan"
      BY <2>2 DEF Remove, ClusterInv
    <2> QED
      BY <2>1, <2>2
  <1>3. gen' = gen /\ label' = label
    BY DEF Remove
  <1> QED
    BY <1>1, <1>2, <1>3 DEF ClusterInv

\* A user moves on, or ends with an error.
LEMMA AdvanceKeeps ==
  ASSUME ClientInv, NEW c \in Clients, pc[c] \in {"get", "print"}, Advance(c),
         UNCHANGED <<req, failed, gen>>, seen' = seen
  PROVE  ClientInv'
  <1>1. idx[c] \in Nat /\ Len(req[c].names) \in Nat /\ idx[c] <= Len(req[c].names)
    BY RequestsAssumption DEF ClientInv
  <1>2. /\ idx' = [idx EXCEPT ![c] = idx[c] + 1]
        /\ pc' = [pc EXCEPT ![c] = IF idx[c] = Len(req[c].names) THEN "exit" ELSE "get"]
    BY DEF Advance
  <1>3. /\ idx' \in [Clients -> Nat \ {0}]
        /\ pc' \in [Clients -> {"complete", "get", "delete", "print", "exit"}]
    BY <1>1, <1>2 DEF ClientInv
  <1>4. ASSUME NEW d \in Clients
        PROVE  /\ idx'[d] \in 1..(Len(req'[d].names) + 1)
               /\ pc'[d] # "exit" => idx'[d] <= Len(req'[d].names)
               /\ (pc'[d] = "exit" /\ ~failed'[d]) => idx'[d] = Len(req'[d].names) + 1
               /\ pc'[d] \in {"get", "delete", "print"} =>
                    req'[d].dryRun \in DryRunStrategies /\ req'[d].cascade \in CascadeStrategies
               /\ pc'[d] = "delete" => seen'[d] \in 1..gen'[Name(d)']
    <2>1. CASE d = c
      BY <2>1, <1>1, <1>2 DEF ClientInv
    <2>2. CASE d # c
      BY <2>2, <1>2 DEF ClientInv, Name
    <2> QED
      BY <2>1, <2>2
  <1> QED
    BY <1>3, <1>4 DEF ClientInv

\* An error ends the command where it is.
LEMMA FailKeeps ==
  ASSUME ClientInv, NEW c \in Clients, pc[c] # "exit", Fail(c), UNCHANGED <<req, gen, seen>>
  PROVE  ClientInv'
  BY DEF Fail, ClientInv, Name

\* The modes that a command accepts.
Accepts(cmd, modes) == \A lbl \in Labels : lbl \in modes \ {NoProfile} <=> Meant(cmd, lbl)

\* The five commands are one: they look at the objects of a resource and
\* accept the modes that they are meant for.
LEMMA OneCommand ==
  ASSUME NEW c \in Clients, Client(c)
  PROVE  \E modes : Accepts(req[c].cmd, modes) /\ Step(c, Resource(req[c].cmd), modes)
  <1>1. CASE DeleteJob(c)
    <2>1. Accepts("job", {"Job"}) /\ Resource("job") = "jobs"
      BY DEF Accepts, Meant, Resource
    <2> QED
      BY <1>1, <2>1 DEF DeleteJob
  <1>2. CASE DeleteSlurm(c)
    <2>1. Accepts("slurm", {"Slurm"}) /\ Resource("slurm") = "jobs"
      BY DEF Accepts, Meant, Resource
    <2> QED
      BY <1>2, <2>1 DEF DeleteSlurm
  <1>3. CASE DeleteInteractive(c)
    <2>1. Accepts("interactive", Labels) /\ Resource("interactive") = "pods"
      BY DEF Accepts, Meant, Resource
    <2> QED
      BY <1>3, <2>1 DEF DeleteInteractive
  <1>4. CASE DeleteRayJob(c)
    <2>1. Accepts("rayjob", Labels) /\ Resource("rayjob") = "rayjobs"
      BY DEF Accepts, Meant, Resource
    <2> QED
      BY <1>4, <2>1 DEF DeleteRayJob
  <1>5. CASE DeleteRayCluster(c)
    <2>1. Accepts("raycluster", Labels) /\ Resource("raycluster") = "rayclusters"
      BY DEF Accepts, Meant, Resource
    <2> QED
      BY <1>5, <2>1 DEF DeleteRayCluster
  <1> QED
    BY <1>1, <1>2, <1>3, <1>4, <1>5 DEF Client

\* A step of a command keeps both invariants.
LEMMA StepKeeps ==
  ASSUME ClusterInv, ClientInv, NEW c \in Clients, NEW resource, NEW modes, Step(c, resource, modes)
  PROVE  ClusterInv' /\ ClientInv'
  <1>0. ClusterInv /\ UNCHANGED clusterVars => ClusterInv'
    BY DEF ClusterInv, clusterVars
  <1>1. CASE Complete(c)
    <2>1. CASE Fail(c)
      BY <1>0, <1>1, <2>1, FailKeeps DEF Complete, clusterVars
    <2>2. CASE ~Fail(c)
      <3>1. pc' = [pc EXCEPT ![c] = "get"] /\ UNCHANGED <<idx, failed, req, seen, gen>>
              /\ req[c].dryRun \in DryRunStrategies /\ req[c].cascade \in CascadeStrategies
              /\ pc[c] = "complete"
        BY <1>1, <2>2 DEF Complete, clusterVars
      <3>2. ClientInv'
        BY <3>1 DEF ClientInv, Name
      <3> QED
        BY <1>0, <1>1, <3>2 DEF Complete
    <2> QED
      BY <2>1, <2>2
  <1>2. CASE GetObject(c, resource, modes)
    <2>0. ClusterInv' /\ pc[c] = "get" /\ UNCHANGED <<req, gen>>
      BY <1>0, <1>2 DEF GetObject, clusterVars
    <2>1. CASE Fail(c) /\ UNCHANGED seen
      BY <2>0, <2>1, FailKeeps
    <2>2. CASE Advance(c) /\ UNCHANGED <<seen, failed>>
      BY <2>0, <2>2, AdvanceKeeps
    <2>3. CASE seen' = [seen EXCEPT ![c] = gen[Name(c)]]
                 /\ pc' = [pc EXCEPT ![c] = "delete"] /\ UNCHANGED <<idx, failed>>
      <3>1. Name(c) \in Names
        BY <2>0, NameType DEF ClientInv
      <3>2. gen[Name(c)] \in Nat \ {0}
        BY <3>1 DEF ClusterInv
      <3>3. ClientInv'
        BY <2>0, <2>3, <3>1, <3>2 DEF ClientInv, Name
      <3> QED
        BY <2>0, <3>3
    <2> QED
      BY <1>2, <2>1, <2>2, <2>3 DEF GetObject
  <1>3. CASE DeleteObject(c)
    <2>0. /\ pc[c] = "delete" /\ UNCHANGED <<req, seen>> /\ gen' = gen
          /\ Name(c) \in Names
      BY <1>3, NameType DEF DeleteObject, ClientInv, Remove, clusterVars
    <2>1. ClusterInv'
      BY <1>3, <1>0, <2>0, RemoveKeeps DEF DeleteObject
    <2>2. CASE Fail(c)
      BY <2>0, <2>1, <2>2, FailKeeps
    <2>3. CASE pc' = [pc EXCEPT ![c] = "print"] /\ UNCHANGED <<idx, failed>>
      <3>1. ClientInv'
        BY <2>0, <2>3 DEF ClientInv, Name
      <3> QED
        BY <2>1, <3>1
    <2> QED
      BY <1>3, <2>2, <2>3 DEF DeleteObject
  <1>4. CASE PrintObject(c)
    <2>0. ClusterInv' /\ pc[c] = "print" /\ UNCHANGED <<req, seen, gen>>
      BY <1>0, <1>4 DEF PrintObject, clusterVars
    <2> QED
      BY <1>4, <2>0, FailKeeps, AdvanceKeeps DEF PrintObject
  <1> QED
    BY <1>1, <1>2, <1>3, <1>4 DEF Step

\* The inductive invariant of the types.
LEMMA TypeInvariant == Spec => [](ClusterInv /\ ClientInv)
  <1>1. Init => ClusterInv /\ ClientInv
    <2> SUFFICES ASSUME Init PROVE ClusterInv /\ ClientInv
      OBVIOUS
    <2>1. \A n \in Names : MaxGen[n] \in Nat \ {0}
      BY DeleteAssumption
    <2>2. ClusterInv
      BY <2>1, DeleteAssumption DEF Init, ClusterInv
    <2>3. ASSUME NEW c \in Clients PROVE req[c].names \in Seq(Names) /\ Len(req[c].names) > 0
      BY RequestsAssumption DEF Init
    <2>4. ASSUME NEW c \in Clients PROVE Len(req[c].names) \in Nat /\ 1 <= Len(req[c].names)
      <3>1. req[c].names \in Seq(Names) /\ Len(req[c].names) > 0
        BY <2>3
      <3>2. Len(req[c].names) \in Nat
        BY <3>1
      <3> QED
        BY <3>1, <3>2
    <2>5. ClientInv
      BY <2>4 DEF Init, ClientInv
    <2> QED
      BY <2>2, <2>5
  <1>2. (ClusterInv /\ ClientInv) /\ [Next]_vars => (ClusterInv /\ ClientInv)'
    <2> SUFFICES ASSUME ClusterInv, ClientInv, [Next]_vars PROVE ClusterInv' /\ ClientInv'
      OBVIOUS
    <2>0. ASSUME UNCHANGED clientVars, gen' = gen PROVE ClientInv'
      BY <2>0 DEF ClientInv, clientVars, Name
    <2>1. ASSUME NEW c \in Clients, Client(c) PROVE ClusterInv' /\ ClientInv'
      BY <2>1, OneCommand, StepKeeps
    <2>2. ASSUME NEW n \in Names, OtherDeletes(n) PROVE ClusterInv' /\ ClientInv'
      BY <2>0, <2>2, RemoveKeeps DEF OtherDeletes, Remove
    <2>3. ASSUME NEW n \in Names, OtherCreates(n) PROVE ClusterInv' /\ ClientInv'
      <3>1. ClusterInv'
        <4>1. /\ obj' \in [Names -> {"none", "live", "terminating"}] /\ label' \in [Names -> Labels]
              /\ gen' \in [Names -> Nat \ {0}] /\ kids' \in [Names -> SUBSET Nat]
              /\ orphans' = orphans
          BY <2>3 DEF OtherCreates, ClusterInv
        <4>2. /\ gen'[n] = gen[n] + 1 /\ kids'[n] = kids[n] \cup {gen[n] + 1}
              /\ \A m \in Names \ {n} : gen'[m] = gen[m] /\ kids'[m] = kids[m] /\ obj'[m] = obj[m]
          BY <2>3 DEF OtherCreates, ClusterInv
        <4>3. /\ gen'[n] <= MaxGen[n] /\ kids'[n] \subseteq 1..gen'[n] /\ orphans[n] \subseteq 1..gen'[n]
              /\ kids'[n] \cap orphans[n] = {} /\ gen'[n] \in kids'[n]
          <5>1. gen[n] \in Nat /\ MaxGen[n] \in Nat /\ gen[n] < MaxGen[n]
            BY <2>3, DeleteAssumption DEF OtherCreates, ClusterInv
          <5>2. kids[n] \subseteq 1..gen[n] /\ orphans[n] \subseteq 1..gen[n] /\ kids[n] \cap orphans[n] = {}
            BY DEF ClusterInv
          <5> QED
            BY <5>1, <5>2, <4>2
        <4> QED
          BY <4>1, <4>2, <4>3 DEF ClusterInv
      <3>2. \A m \in Names : gen[m] \in Nat /\ gen'[m] \in Nat /\ gen[m] <= gen'[m]
        BY <2>3 DEF OtherCreates, ClusterInv
      <3>3. ASSUME NEW c \in Clients, pc[c] = "delete" PROVE seen[c] \in 1..gen'[Name(c)]
        BY <3>2, <3>3, NameType DEF ClientInv
      <3>4. ClientInv'
        BY <2>3, <3>3 DEF OtherCreates, ClientInv, clientVars, Name
      <3> QED
        BY <3>1, <3>4
    <2>4. ASSUME NEW n \in Names, Collect(n) PROVE ClusterInv' /\ ClientInv'
      <3>1. ClusterInv'
        BY <2>4 DEF Collect, ClusterInv
      <3> QED
        BY <2>0, <2>4, <3>1 DEF Collect
    <2>5. CASE Done \/ UNCHANGED vars
      BY <2>5 DEF Done, vars, clusterVars, clientVars, ClusterInv, ClientInv, Name
    <2> QED
      BY <2>1, <2>2, <2>3, <2>4, <2>5 DEF Next
  <1> QED
    BY <1>1, <1>2, PTL DEF Spec

\* The commands, the API server and the garbage collector keep the types; a
\* user about to delete has seen an object that exists or existed.
THEOREM TypeCorrect == Spec => []TypeOK
  <1>1. ClusterInv /\ ClientInv => TypeOK
    BY DEF ClusterInv, ClientInv, TypeOK
  <1> QED
    BY <1>1, TypeInvariant, PTL
-----------------------------------------------------------------------------
(***************************************************************************)
(* What a step can do to the objects and to the history.                   *)
(***************************************************************************)

\* Command lines do not change, and an object only becomes a live one, or
\* another one, when its name is used again.
LEMMA ObjectStep ==
  ASSUME ClusterInv, ClientInv, [Next]_vars
  PROVE  /\ req' = req
         /\ \A n \in Names :
              \/ gen'[n] = gen[n] /\ label'[n] = label[n] /\ (obj'[n] = "live" => obj[n] = "live")
              \/ gen'[n] = gen[n] + 1
  <1>0. ASSUME UNCHANGED <<clusterVars, req>> PROVE req' = req /\ gen' = gen /\ label' = label /\ obj' = obj
    BY <1>0 DEF clusterVars
  <1>1. ASSUME NEW n \in Names, NEW p, Remove(n, p)
        PROVE  /\ gen' = gen /\ label' = label
               /\ \A m \in Names : obj'[m] = "live" => obj[m] = "live"
    BY <1>1 DEF Remove, ClusterInv
  <1>2. ASSUME NEW c \in Clients, Client(c)
        PROVE  /\ req' = req /\ gen' = gen /\ label' = label
               /\ \A n \in Names : obj'[n] = "live" => obj[n] = "live"
    <2>1. PICK modes : Step(c, Resource(req[c].cmd), modes)
      BY <1>2, OneCommand
    <2>2. CASE DeleteObject(c)
      <3>1. req' = req /\ Name(c) \in Names
        BY <2>2, NameType DEF DeleteObject, ClientInv
      <3> QED
        BY <2>2, <3>1, <1>0, <1>1 DEF DeleteObject
    <2>3. CASE ~DeleteObject(c)
      BY <2>1, <2>3, <1>0 DEF Step, Complete, GetObject, PrintObject
    <2> QED
      BY <2>2, <2>3
  <1>3. ASSUME NEW m \in Names, OtherDeletes(m) \/ Collect(m)
        PROVE  /\ req' = req /\ gen' = gen /\ label' = label
               /\ \A n \in Names : obj'[n] = "live" => obj[n] = "live"
    BY <1>1, <1>3 DEF OtherDeletes, Collect, clientVars, ClusterInv
  <1>4. ASSUME NEW m \in Names, OtherCreates(m)
        PROVE  /\ req' = req /\ gen'[m] = gen[m] + 1
               /\ \A n \in Names \ {m} : gen'[n] = gen[n] /\ label'[n] = label[n] /\ obj'[n] = obj[n]
    BY <1>4 DEF OtherCreates, clientVars, ClusterInv
  <1>5. CASE Done \/ UNCHANGED vars
    BY <1>5 DEF Done, vars, clusterVars, clientVars
  <1> QED
    BY <1>2, <1>3, <1>4, <1>5 DEF Next

\* What a user who deletes adds to the history.
Record(c) ==
    [client |-> c, name |-> Name(c), gen |-> gen[Name(c)], checked |-> seen[c],
     label |-> label[Name(c)], dependents |-> gen[Name(c)] \in kids[Name(c)]]

\* User c deletes the object that now has the name it is at.
Deletes(c) ==
    /\ pc[c] = "delete" /\ Effective(c) /\ Name(c) \in Names /\ obj[Name(c)] # "none"
    /\ Remove(Name(c), Propagation(c))
    /\ deletions' = deletions \cup {Record(c)}

\* The history grows only by such a step, and only such a step orphans.
LEMMA DeletionStep ==
  ASSUME ClusterInv, ClientInv, [Next]_vars
  PROVE  (\E c \in Clients : Deletes(c)) \/ UNCHANGED <<deletions, orphans>>
  <1>1. ASSUME NEW c \in Clients, Client(c)
        PROVE  Deletes(c) \/ UNCHANGED <<deletions, orphans>>
    <2>1. PICK modes : Step(c, Resource(req[c].cmd), modes)
      BY <1>1, OneCommand
    <2>2. CASE DeleteObject(c)
      <3>1. Name(c) \in Names
        BY <2>2, NameType DEF DeleteObject, ClientInv
      <3> QED
        BY <2>2, <3>1 DEF DeleteObject, Deletes, Record, clusterVars
    <2>3. CASE ~DeleteObject(c)
      BY <2>1, <2>3 DEF Step, Complete, GetObject, PrintObject, clusterVars
    <2> QED
      BY <2>2, <2>3
  <1>2. ASSUME NEW n \in Names, OtherDeletes(n) \/ OtherCreates(n) \/ Collect(n)
        PROVE  UNCHANGED <<deletions, orphans>>
    BY <1>2 DEF OtherDeletes, OtherCreates, Collect, Remove
  <1>3. CASE Done \/ UNCHANGED vars
    BY <1>3 DEF Done, vars, clusterVars
  <1> QED
    BY <1>1, <1>2, <1>3 DEF Next

-----------------------------------------------------------------------------
(***************************************************************************)
(* The mode of what is deleted.                                            *)
(***************************************************************************)

\* What a user learned from Get is still true of the object, if it still is
\* the object.
CheckedInv ==
    \A c \in Clients :
        (pc[c] = "delete" /\ seen[c] = gen[Name(c)]) => Meant(req[c].cmd, label[Name(c)])

\* Every step keeps what the users have learned.
LEMMA CheckedStep ==
  ASSUME ClusterInv, ClientInv, CheckedInv, [Next]_vars
  PROVE  CheckedInv'
  <1> SUFFICES ASSUME NEW c \in Clients, pc'[c] = "delete", seen'[c] = gen'[Name(c)']
               PROVE  Meant(req'[c].cmd, label'[Name(c)'])
    BY DEF CheckedInv
  <1>0. req' = req
    BY ObjectStep
  \* The user was there before the step: its object cannot have been replaced.
  <1>1. ASSUME pc[c] = "delete", UNCHANGED <<idx, seen>>
        PROVE  Meant(req'[c].cmd, label'[Name(c)'])
    <2>1. Name(c)' = Name(c) /\ Name(c) \in Names
      BY <1>0, <1>1, NameType DEF ClientInv, Name
    <2>2. seen[c] \in 1..gen[Name(c)] /\ gen[Name(c)] \in Nat
      BY <1>1, <2>1 DEF ClientInv, ClusterInv
    <2>3. gen'[Name(c)] # gen[Name(c)] + 1
      BY <1>1, <2>1, <2>2
    <2>4. gen'[Name(c)] = gen[Name(c)] /\ label'[Name(c)] = label[Name(c)]
      BY <2>1, <2>3, ObjectStep
    <2> QED
      BY <1>0, <1>1, <2>1, <2>4 DEF CheckedInv
  \* The user steps.
  <1>2. CASE Client(c)
    <2>1. PICK modes : Accepts(req[c].cmd, modes) /\ Step(c, Resource(req[c].cmd), modes)
      BY <1>2, OneCommand
    <2>2. GetObject(c, Resource(req[c].cmd), modes) /\ ~Advance(c) /\ ~Fail(c)
      BY <2>1 DEF Step, Complete, GetObject, DeleteObject, PrintObject, Advance, Fail, ClientInv
    <2>3. Deletable(c, modes) /\ UNCHANGED <<idx, label>> /\ Name(c) \in Names
      BY <2>2, NameType DEF GetObject, clusterVars, ClientInv
    <2>4. label[Name(c)] \in Labels
      BY <2>3 DEF ClusterInv
    <2> QED
      BY <2>1, <2>3, <2>4, <1>0 DEF Deletable, Accepts, Name
  \* Another user steps.
  <1>3. ASSUME NEW d \in Clients, d # c, Client(d)
        PROVE  Meant(req'[c].cmd, label'[Name(c)'])
    <2>1. PICK modes : Step(d, Resource(req[d].cmd), modes)
      BY <1>3, OneCommand
    <2>2. pc'[c] = pc[c] /\ idx'[c] = idx[c] /\ seen'[c] = seen[c]
      BY <1>3, <2>1 DEF Step, Complete, GetObject, DeleteObject, PrintObject, Advance, Fail, ClientInv
    <2>3. gen' = gen /\ label' = label
      BY <2>1 DEF Step, Complete, GetObject, DeleteObject, PrintObject, Remove, clusterVars
    <2> QED
      BY <1>0, <2>2, <2>3 DEF CheckedInv, Name
  <1>4. ASSUME NEW n \in Names, OtherDeletes(n) \/ OtherCreates(n) \/ Collect(n)
        PROVE  Meant(req'[c].cmd, label'[Name(c)'])
    BY <1>1, <1>4 DEF OtherDeletes, OtherCreates, Collect, clientVars
  <1>5. CASE Done \/ UNCHANGED vars
    BY <1>1, <1>5 DEF Done, vars, clientVars
  <1> QED
    BY <1>2, <1>3, <1>4, <1>5 DEF Next

\* What a command deletes carries the labels it checks, unless the object was
\* replaced between its Get and its Delete (Run of the delete commands).
THEOREM ModeChecked == Spec => []DeletesOnlyItsMode
  <1>1. Init => CheckedInv /\ DeletesOnlyItsMode
    BY DEF Init, CheckedInv, DeletesOnlyItsMode
  <1>2. (ClusterInv /\ ClientInv) /\ (CheckedInv /\ DeletesOnlyItsMode) /\ [Next]_vars
          => (CheckedInv /\ DeletesOnlyItsMode)'
    <2> SUFFICES ASSUME ClusterInv, ClientInv, CheckedInv, DeletesOnlyItsMode, [Next]_vars
                 PROVE  CheckedInv' /\ DeletesOnlyItsMode'
      OBVIOUS
    <2>1. req' = req
      BY ObjectStep
    <2>2. ASSUME NEW c \in Clients, Deletes(c) PROVE DeletesOnlyItsMode'
      <3>1. Meant(req[c].cmd, Record(c).label) \/ Record(c).gen # Record(c).checked
        BY <2>2 DEF Deletes, Record, CheckedInv
      <3>2. Record(c).client = c
        BY DEF Record
      <3> QED
        BY <2>1, <2>2, <3>1, <3>2 DEF Deletes, DeletesOnlyItsMode
    <2> QED
      BY <2>1, <2>2, CheckedStep, DeletionStep DEF DeletesOnlyItsMode
  <1> QED
    BY <1>1, <1>2, TypeInvariant, PTL DEF Spec
-----------------------------------------------------------------------------
(***************************************************************************)
(* The dependents.                                                         *)
(***************************************************************************)

\* An object's dependents are orphaned when, and only when, some command
\* deleted it with orphan; that it had dependents then follows from
\* ClusterInv.
CascadeInv ==
    \A n \in Names : \A g \in Nat : g \in orphans[n] <=> OrphanedBy(n, g) # {}

\* --cascade is honoured: neither another user's policy for the same object
\* nor the garbage collector nor a reuse of the name changes what orphan meant
\* (getCascadingStrategy, DeleteOptions).
THEOREM CascadeRespected == Spec => []CascadeHonoured
  <1> DEFINE Named == \A d \in deletions : d.name \in Names /\ d.gen \in Nat
  <1>1. Init => CascadeInv /\ Named
    BY DEF Init, CascadeInv, OrphanedBy
  <1>2. (ClusterInv /\ ClientInv) /\ (CascadeInv /\ Named) /\ [Next]_vars => (CascadeInv /\ Named)'
    <2> SUFFICES ASSUME ClusterInv, ClientInv, CascadeInv, Named, [Next]_vars
                 PROVE  CascadeInv' /\ Named'
      OBVIOUS
    <2>1. req' = req
      BY ObjectStep
    <2>2. ASSUME NEW c \in Clients, Deletes(c) PROVE CascadeInv' /\ Named'
      <3> DEFINE m == Name(c)
      <3>1. /\ m \in Names /\ gen[m] \in Nat /\ gen[m] \in kids[m]
            /\ Remove(m, req[c].cascade) /\ deletions' = deletions \cup {Record(c)}
        BY <2>2 DEF Deletes, Propagation, ClusterInv
      <3>2. Record(c).name = m /\ Record(c).gen = gen[m] /\ Record(c).client = c
        BY DEF Record
      <3>3. Named'
        BY <3>1, <3>2
      <3>4. ASSUME NEW n \in Names, NEW g \in Nat
            PROVE  g \in orphans'[n] <=> OrphanedBy(n, g)' # {}
        <4>1. OrphanedBy(n, g)' = OrphanedBy(n, g) \cup
                {d \in {Record(c)} : n = m /\ g = gen[m] /\ req[c].cascade = "orphan"}
          BY <2>1, <3>1, <3>2 DEF OrphanedBy
        <4>2. g \in orphans'[n] <=> g \in orphans[n] \/ (n = m /\ g = gen[m] /\ req[c].cascade = "orphan")
          BY <3>1 DEF Remove, ClusterInv
        <4> QED
          BY <4>1, <4>2 DEF CascadeInv
      <3> QED
        BY <3>3, <3>4 DEF CascadeInv
    <2>3. ASSUME UNCHANGED <<deletions, orphans>> PROVE CascadeInv' /\ Named'
      BY <2>1, <2>3 DEF CascadeInv, OrphanedBy
    <2> QED
      BY <2>2, <2>3, DeletionStep
  <1>3. CascadeInv /\ Named => CascadeHonoured
    BY DEF CascadeInv, CascadeHonoured
  <1> QED
    BY <1>1, <1>2, <1>3, TypeInvariant, PTL DEF Spec

-----------------------------------------------------------------------------
(***************************************************************************)
(* What is gone when a command has succeeded.                              *)
(***************************************************************************)

\* If this still is the first object of that name, and one the command may
\* delete, it is not alive.
Gone(cmd, n) ==
    (KindOf[n] = Resource(cmd) /\ gen[n] = 1 /\ Meant(cmd, label[n])) => obj[n] # "live"

\* The positions a user is done with.
Handled(c) ==
    {k \in 1..Len(req[c].names) : k < idx[c] \/ (k = idx[c] /\ pc[c] = "print")}

\* All names a user is done with are gone, whether or not the command failed
\* later.
GoneInv ==
    \A c \in Clients : req[c].dryRun = "none" =>
        \A k \in Handled(c) : Gone(req[c].cmd, req[c].names[k])

\* What is gone stays gone: a live object of the same name is another one.
LEMMA GoneStays ==
  ASSUME ClusterInv, ClientInv, [Next]_vars, NEW n \in Names, NEW cmd, Gone(cmd, n)
  PROVE  Gone(cmd, n)'
  <1>1. gen[n] \in Nat \ {0}
    BY DEF ClusterInv
  <1>2. CASE gen'[n] = gen[n] + 1
    <2>1. gen'[n] # 1
      BY <1>1, <1>2
    <2> QED
      BY <2>1 DEF Gone
  <1>3. CASE gen'[n] = gen[n] /\ label'[n] = label[n] /\ (obj'[n] = "live" => obj[n] = "live")
    BY <1>3 DEF Gone, Meant
  <1> QED
    BY <1>2, <1>3, ObjectStep

\* A step adds to what a user is done with only the name the user is at, and
\* only when that is gone: it was not there, was none to delete, or was deleted.
LEMMA HandledStep ==
  ASSUME ClusterInv, ClientInv, [Next]_vars, NEW c \in Clients, req[c].dryRun = "none",
         NEW k \in Handled(c)', k \notin Handled(c)
  PROVE  Gone(req[c].cmd, req[c].names[k])'
  <1>0. req' = req
    BY ObjectStep
  <1>1. Client(c)
    <2>1. ASSUME NEW d \in Clients, d # c, Client(d) PROVE FALSE
      <3>1. PICK modes : Step(d, Resource(req[d].cmd), modes)
        BY <2>1, OneCommand
      <3>2. pc'[c] = pc[c] /\ idx'[c] = idx[c]
        BY <2>1, <3>1 DEF Step, Complete, GetObject, DeleteObject, PrintObject, Advance, Fail, ClientInv
      <3> QED
        BY <1>0, <3>2 DEF Handled
    <2>2. ASSUME NEW n \in Names, OtherDeletes(n) \/ OtherCreates(n) \/ Collect(n) PROVE FALSE
      BY <1>0, <2>2 DEF OtherDeletes, OtherCreates, Collect, clientVars, Handled
    <2>3. ~(Done \/ UNCHANGED vars)
      BY <1>0 DEF Done, vars, clientVars, Handled
    <2> QED
      BY <2>1, <2>2, <2>3 DEF Next
  <1>2. PICK modes : Accepts(req[c].cmd, modes) /\ Step(c, Resource(req[c].cmd), modes)
    BY <1>1, OneCommand
  <1>3. ~Complete(c)
    BY <1>0 DEF Complete, Handled, Fail, ClientInv
  <1>4. CASE GetObject(c, Resource(req[c].cmd), modes)
    <2>1. Name(c) \in Names /\ label[Name(c)] \in Labels
      BY <1>4, NameType DEF GetObject, ClientInv, ClusterInv
    <2>2. idx' = [idx EXCEPT ![c] = idx[c] + 1] /\ ~(Found(c, Resource(req[c].cmd)) /\ Deletable(c, modes))
            /\ UNCHANGED clusterVars /\ pc'[c] # "print"
      BY <1>0, <1>4 DEF GetObject, Handled, Fail, Advance, ClientInv
    <2>3. k = idx[c]
      BY <1>0, <2>2 DEF Handled, ClientInv
    <2>4. Gone(req[c].cmd, Name(c))
      BY <1>2, <2>1, <2>2 DEF Gone, Found, Deletable, Accepts, ClusterInv
    <2> QED
      BY <2>1, <2>3, <2>4, <1>0, GoneStays DEF Name
  <1>5. CASE DeleteObject(c)
    <2>1. Name(c) \in Names /\ Effective(c)
      BY <1>5, NameType DEF DeleteObject, ClientInv, Effective
    <2>2. Remove(Name(c), Propagation(c)) /\ UNCHANGED idx
      BY <1>0, <1>5, <2>1 DEF DeleteObject, Handled, Fail, ClientInv
    <2>3. k = idx[c]
      BY <1>0, <2>2 DEF Handled, ClientInv
    <2>4. obj'[Name(c)] # "live"
      BY <2>1, <2>2 DEF Remove, ClusterInv
    <2> QED
      BY <1>0, <2>3, <2>4 DEF Gone, Name
  <1>6. CASE PrintObject(c)
    BY <1>0, <1>6 DEF PrintObject, Handled, Advance, Fail, ClientInv
  <1> QED
    BY <1>2, <1>3, <1>4, <1>5, <1>6 DEF Step

\* The names a user is done with are gone, in every state.
LEMMA GoneInvariant == Spec => []GoneInv
  <1>1. Init => GoneInv
    BY DEF Init, GoneInv, Handled
  <1>2. (ClusterInv /\ ClientInv) /\ GoneInv /\ [Next]_vars => GoneInv'
    <2> SUFFICES ASSUME ClusterInv, ClientInv, GoneInv, [Next]_vars, NEW c \in Clients,
                        req'[c].dryRun = "none", NEW k \in Handled(c)'
                 PROVE  Gone(req[c].cmd, req[c].names[k])'
      BY DEF GoneInv
    <2>0. req' = req
      BY ObjectStep
    <2>1. CASE k \notin Handled(c)
      BY <2>0, <2>1, HandledStep
    <2>2. CASE k \in Handled(c)
      <3>1. req[c].names[k] \in Names
        BY <2>2, RequestsAssumption DEF Handled, ClientInv
      <3>2. Gone(req[c].cmd, req[c].names[k])
        BY <2>0, <2>2 DEF GoneInv
      <3> QED
        BY <2>0, <3>1, <3>2, GoneStays
    <2> QED
      BY <2>1, <2>2
  <1> QED
    BY <1>1, <1>2, TypeInvariant, PTL DEF Spec

\* When a command returns without an error, nothing it was asked for, was
\* there from the start and may be deleted by it is alive, whatever other
\* users delete and create meanwhile (Run of the delete commands).
THEOREM SuccessGone == Spec => []SuccessMeansGone
  <1>1. ClientInv /\ GoneInv => SuccessMeansGone
    <2> SUFFICES ASSUME ClientInv, GoneInv, NEW c \in Clients, pc[c] = "exit", ~failed[c],
                        req[c].dryRun = "none", NEW k \in 1..Len(req[c].names)
                 PROVE  Gone(req[c].cmd, req[c].names[k])
      BY DEF SuccessMeansGone, Gone
    <2>1. Len(req[c].names) \in Nat
      BY RequestsAssumption DEF ClientInv
    <2>2. k \in Handled(c)
      BY <2>1 DEF Handled, ClientInv
    <2> QED
      BY <2>2 DEF GoneInv
  <1> QED
    BY <1>1, GoneInvariant, TypeInvariant, PTL

\* What a command has deleted is behind it or where it is, and it is no dry
\* run: a call of one has no effect, and an unknown value does not get that far.
BehindInv ==
    \A d \in deletions :
        /\ d.client \in Clients /\ req[d.client].dryRun = "none"
        /\ \E i \in 1..idx[d.client] : req[d.client].names[i] = d.name

\* A user's position in its list never goes back.
LEMMA PositionGrows ==
  ASSUME ClientInv, [Next]_vars, NEW c \in Clients
  PROVE  idx'[c] \in Nat /\ idx[c] <= idx'[c]
  <1>0. idx[c] \in Nat
    BY DEF ClientInv
  <1>1. ASSUME NEW d \in Clients, Client(d) PROVE idx'[c] = idx[c] \/ idx'[c] = idx[c] + 1
    <2>1. PICK modes : Step(d, Resource(req[d].cmd), modes)
      BY <1>1, OneCommand
    <2>2. idx' = idx \/ idx' = [idx EXCEPT ![d] = idx[d] + 1]
      BY <2>1 DEF Step, Complete, GetObject, DeleteObject, PrintObject, Advance, Fail
    <2> QED
      BY <2>2 DEF ClientInv
  <1>2. ASSUME NEW n \in Names, OtherDeletes(n) \/ OtherCreates(n) \/ Collect(n) PROVE idx' = idx
    BY <1>2 DEF OtherDeletes, OtherCreates, Collect, clientVars
  <1>3. CASE Done \/ UNCHANGED vars
    BY <1>0, <1>3 DEF Done, vars, clientVars
  <1> QED
    BY <1>0, <1>1, <1>2, <1>3 DEF Next

\* However a command ends, the objects under the names before its position are
\* gone and those behind it were not touched by it; a dry run touches none
\* (Run of the delete commands).
THEOREM NoneSkipped == Spec => []NothingSkipped
  <1>1. Init => BehindInv
    BY DEF Init, BehindInv
  <1>2. (ClusterInv /\ ClientInv) /\ BehindInv /\ [Next]_vars => BehindInv'
    <2> SUFFICES ASSUME ClusterInv, ClientInv, BehindInv, [Next]_vars PROVE BehindInv'
      OBVIOUS
    <2>1. req' = req
      BY ObjectStep
    <2>2. ASSUME NEW d \in deletions
          PROVE  /\ d.client \in Clients /\ req'[d.client].dryRun = "none"
                 /\ \E i \in 1..idx'[d.client] : req'[d.client].names[i] = d.name
      <3>1. d.client \in Clients /\ req[d.client].dryRun = "none"
        BY DEF BehindInv
      <3>2. PICK i \in 1..idx[d.client] : req[d.client].names[i] = d.name
        BY DEF BehindInv
      <3>3. i \in 1..idx'[d.client]
        BY <3>1, PositionGrows DEF ClientInv
      <3> QED
        BY <2>1, <3>1, <3>2, <3>3
    <2>3. ASSUME NEW c \in Clients, Deletes(c) PROVE BehindInv'
      <3>1. req[c].dryRun = "none"
        BY <2>3 DEF Deletes, Effective, ClientInv, DryRunStrategies
      <3>2. Record(c).client = c /\ Record(c).name = req[c].names[idx[c]]
        BY DEF Record, Name
      <3>3. idx[c] \in 1..idx'[c]
        BY PositionGrows DEF ClientInv
      <3>4. deletions' = deletions \cup {Record(c)}
        BY <2>3 DEF Deletes
      <3> QED
        BY <2>1, <2>2, <3>1, <3>2, <3>3, <3>4 DEF BehindInv
    <2> QED
      BY <2>2, <2>3, DeletionStep DEF BehindInv
  <1>3. ClientInv /\ GoneInv /\ BehindInv => NothingSkipped
    <2> SUFFICES ASSUME ClientInv, GoneInv, BehindInv, NEW c \in Clients
                 PROVE  /\ req[c].dryRun = "none" =>
                             \A k \in 1..(idx[c] - 1) : Gone(req[c].cmd, req[c].names[k])
                        /\ \A d \in deletions :
                             d.client = c => /\ req[c].dryRun = "none"
                                             /\ \E i \in 1..idx[c] : req[c].names[i] = d.name
      BY DEF NothingSkipped, Gone
    <2>1. Len(req[c].names) \in Nat /\ idx[c] \in 1..(Len(req[c].names) + 1)
      BY RequestsAssumption DEF ClientInv
    <2>2. \A k \in 1..(idx[c] - 1) : k \in Handled(c)
      BY <2>1 DEF Handled
    <2> QED
      BY <2>2 DEF GoneInv, BehindInv
  <1> QED
    BY <1>1, <1>2, <1>3, GoneInvariant, TypeInvariant, PTL DEF Spec
=============================================================================
