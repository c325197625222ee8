--------------------------- MODULE CreateCommand ---------------------------
(***************************************************************************)
(* kjobctl create <mode>: CreateOptions.Complete, Run and createObject in  *)
(* pkg/cmd/create/create.go.  The command builds a root object and its     *)
(* children, creates and prints them one after the other, and then, in two *)
(* of the modes, stays: the waiting of slurm is WaitContract (implemented  *)
(* by SlurmWait), the session of interactive is detailed in                *)
(* InteractivePod.  Other clients and the garbage collector work on the    *)
(* same objects at the same time.                                          *)
(***************************************************************************)
EXTENDS Naturals

CONSTANTS
    SlurmChildren,   \* how many child objects the slurm builder returns
    Options          \* [mode, dryRun, wait, timeout, rm] as the user gave them

Modes   == {"Job", "Interactive", "RayJob", "RayCluster", "Slurm"}
DryRuns == {"none", "client", "server"}
Request == [mode : Modes, dryRun : DryRuns, wait : BOOLEAN, timeout : BOOLEAN, rm : BOOLEAN]

ASSUME CreateAssumption == SlurmChildren \in Nat /\ Options \subseteq Request

VARIABLES
    opts,
    pc,       \* "complete", "build", "root", "child", "wait", "session", "exit", "killed"
    made,     \* how many of childObjs were handled
    children, \* what the builder returned: the number of child objects
    root,     \* in the cluster: "absent", "active", "over" or "deleted"
    child,    \* in the cluster, for each child: "absent", "live" or "collected"
    owned,    \* the children whose owner reference carries the UID of the root
    call, cut,\* the waiting, see WaitContract
    errs      \* the errors the command returns

vars == <<opts, pc, made, children, root, child, owned, call, cut, errs>>

Kids == 1..SlurmChildren

Wait == INSTANCE WaitContract WITH job <- root

Init ==
    /\ opts \in Options
    /\ pc = "complete" /\ made = 0 /\ children = 0
    /\ root = "absent" /\ child = [k \in Kids |-> "absent"] /\ owned = {}
    /\ call = "off" /\ cut = FALSE /\ errs = {}

Ended == pc \in {"exit", "killed"}

-----------------------------------------------------------------------------
(***************************************************************************)
(* The command.                                                            *)
(***************************************************************************)

Exit(e) == pc' = "exit" /\ errs' = e

\* Complete: a timeout needs --wait; any of the other flags may be malformed.
Complete ==
    /\ pc = "complete"
    /\ \/ /\ ~(opts.mode = "Slurm" /\ opts.timeout /\ ~opts.wait)
          /\ pc' = "build" /\ UNCHANGED errs
       \/ Exit({"flags"})
    /\ UNCHANGED <<opts, made, children, root, child, owned, call, cut>>

\* builder.Do: the objects, or an error.
Build ==
    /\ pc = "build"
    /\ \/ /\ pc' = "root" /\ UNCHANGED errs
          /\ children' = IF opts.mode = "Slurm" THEN SlurmChildren ELSE 0
       \/ Exit({"build"}) /\ UNCHANGED children
    /\ UNCHANGED <<opts, made, root, child, owned, call, cut>>

\* Mutant of Persists: createObject forgets DryRunAll.
Persists_NoDryRunAll == opts.dryRun # "client"

\* Run sends a Create call unless the dry run is the client's, and
\* createObject asks for DryRunAll if it is the server's.
Persists == opts.dryRun # "client" /\ opts.dryRun # "server"

\* Mutant of CreateRoot: an error of the Create call is not returned.
CreateRoot_GoesOn ==
    /\ pc = "root"
    /\ pc' = "child" /\ UNCHANGED errs
    /\ root' \in {root} \cup (IF Persists THEN {"active"} ELSE {})
    /\ UNCHANGED <<opts, made, children, child, owned, call, cut>>

\* The root object.  A call that failed may still have been carried out (the
\* answer was lost, or could not be converted), and printing may fail.
CreateRoot ==
    /\ pc = "root"
    /\ \/ pc' = "child" /\ UNCHANGED errs /\ root' = (IF Persists THEN "active" ELSE root)
       \/ Exit({"create"}) /\ root' \in {root} \cup (IF Persists THEN {"active"} ELSE {})
    /\ UNCHANGED <<opts, made, children, child, owned, call, cut>>

\* Mutant of Store: createObject is called without the owner.
Store_NoOwner(k) ==
    /\ child' = IF Persists THEN [child EXCEPT ![k] = "live"] ELSE child
    /\ UNCHANGED owned

\* createObject for a child: its owner is the root the API server returned.
Store(k) ==
    /\ child' = IF Persists THEN [child EXCEPT ![k] = "live"] ELSE child
    /\ owned' = IF Persists THEN owned \cup {k} ELSE owned

\* Mutant of CreateChild: the loop goes on after an error.
CreateChild_GoesOn ==
    /\ pc = "child" /\ made < children
    /\ made' = made + 1 /\ UNCHANGED <<pc, errs>>
    /\ Store(made + 1) \/ UNCHANGED <<child, owned>>
    /\ UNCHANGED <<opts, children, root, call, cut>>

\* The next child; failures as for the root.
CreateChild ==
    /\ pc = "child" /\ made < children
    /\ \/ Store(made + 1) /\ made' = made + 1 /\ UNCHANGED <<pc, errs>>
       \/ Exit({"create"}) /\ UNCHANGED made /\ (Store(made + 1) \/ UNCHANGED <<child, owned>>)
    /\ UNCHANGED <<opts, children, root, call, cut>>

\* The rest of Run.  Only the session of interactive is kept from a dry run.
Dispatch ==
    /\ pc = "child" /\ made = children
    /\ \/ /\ opts.mode = "Interactive" /\ opts.dryRun = "none"
          /\ pc' = "session" /\ UNCHANGED <<call, errs>>
       \/ /\ opts.mode = "Slurm" /\ opts.wait
          /\ pc' = "wait" /\ call' = "entered" /\ UNCHANGED errs
       \/ /\ ~(opts.mode = "Interactive" /\ opts.dryRun = "none")
          /\ ~(opts.mode = "Slurm" /\ opts.wait)
          /\ Exit({}) /\ UNCHANGED call
    /\ UNCHANGED <<opts, made, children, root, child, owned, cut>>

\* RunInteractivePod: with --rm the pod is deleted, unless that fails.
Session ==
    /\ pc = "session"
    /\ \E e \in {{}, {"session"}} : Exit(e)
    /\ root' \in {root} \cup (IF opts.rm /\ root # "absent" THEN {"deleted"} ELSE {})
    /\ UNCHANGED <<opts, made, children, child, owned, call, cut>>

\* watchJobAndStreamLogs.
Waiting ==
    /\ pc = "wait"
    /\ Wait!WatchCut \/ Wait!Enter \/ Wait!Finish \/ Wait!Fail \/ Wait!Cancel \/ Wait!Remove
    /\ pc' = IF call' = "returned" THEN "exit" ELSE IF call' = "killed" THEN "killed" ELSE pc
    /\ UNCHANGED <<made, children, child, owned>>

\* SIGINT or SIGTERM anywhere else.
Killed ==
    /\ ~Ended /\ pc # "wait"
    /\ pc' = "killed"
    /\ UNCHANGED <<opts, made, children, root, child, owned, call, cut, errs>>

-----------------------------------------------------------------------------
(***************************************************************************)
(* The cluster (external).                                                 *)
(***************************************************************************)

\* The root object finishes, or is deleted by another client.
RootEnds ==
    /\ \/ root = "active" /\ root' \in {"over", "deleted"}
       \/ root = "over" /\ root' = "deleted"
    /\ UNCHANGED <<opts, pc, made, children, child, owned, call, cut, errs>>

\* The garbage collector removes an object whose owner is gone.
Collect(k) ==
    /\ child[k] = "live" /\ k \in owned /\ root = "deleted"
    /\ child' = [child EXCEPT ![k] = "collected"]
    /\ UNCHANGED <<opts, pc, made, children, root, owned, call, cut, errs>>

Command == Complete \/ Build \/ CreateRoot \/ CreateChild \/ Dispatch \/ Session \/ Waiting

Done == Ended /\ UNCHANGED vars

Next ==
    \/ Command \/ Killed
    \/ RootEnds \/ \E k \in Kids : Collect(k)
    \/ Done

\* The garbage collector of the cluster keeps working, and the Delete call
\* returns.
Spec == Init /\ [][Next]_vars /\ WF_vars(Waiting /\ call = "removing")
             /\ \A k \in Kids : WF_vars(Collect(k))

-----------------------------------------------------------------------------
(***************************************************************************)
(* Properties.                                                             *)
(***************************************************************************)

\* Every variable has its type; among the rest, Run handles no more children
\* than the builder returned.
TypeOK ==
    /\ opts \in Options
    /\ pc \in {"complete", "build", "root", "child", "wait", "session", "exit", "killed"}
    /\ children \in {0, SlurmChildren} /\ made \in 0..children
    /\ root \in {"absent", "active", "over", "deleted"}
    /\ child \in [Kids -> {"absent", "live", "collected"}] /\ owned \subseteq Kids
    /\ call \in {"off", "entered", "waiting", "removing", "returned", "killed"}
    /\ cut \in BOOLEAN
    /\ errs \subseteq {"flags", "build", "create", "session", "client", "watcher", "verifier",
                       "timeout", "remove"}

\* A dry run, of the client or of the server, leaves no object in the
\* cluster, whatever fails on the way (Run, createObject).
DryRunPersistsNothing ==
    opts.dryRun # "none" => root = "absent" /\ \A k \in Kids : child[k] = "absent"

\* Objects come into being in order: a child only after the root and after
\* the children before it.  A failed or killed command leaves a prefix.
PrefixOfObjects ==
    \A k \in Kids : child[k] # "absent" => root # "absent" /\ \A j \in 1..k : child[j] # "absent"

\* A command that reports success has created everything it printed.
SuccessMeansCreated ==
    (pc = "exit" /\ errs = {} /\ opts.dryRun = "none")
        => root # "absent" /\ \A k \in 1..children : child[k] # "absent"

NoChildLeft == \A k \in Kids : child[k] # "live"

\* Whenever the root is deleted, by the command, by another client or while
\* the command is still creating its children, no child stays behind.
ChildrenFollowRoot == (root = "deleted") ~> NoChildLeft
=============================================================================
