--------------------------- MODULE DeleteCommand ---------------------------
(***************************************************************************)
(* kjobctl delete {job,slurm,interactive,rayjob,raycluster} NAME...        *)
(* (pkg/cmd/delete): for each name a Get, a look at its labels, a Delete   *)
(* by name and a line of output.  Several users run such commands on the   *)
(* same namespace, whose objects other clients delete and create again.    *)
(***************************************************************************)
EXTENDS Naturals, Sequences

CONSTANTS
    Clients,    \* concurrent runs of the command
    Names,      \* the objects' names
    KindOf,     \* the kind of object each name stands for
    Labels,     \* the mode labels objects carry; NoProfile for a foreign object
    NoProfile,
    Starts,     \* the labels the objects may have at first, functions from Names
    Requests,   \* the command lines to consider
    MaxGen      \* bound: how often each name is used

ASSUME DeleteAssumption == MaxGen \in [Names -> Nat \ {0}] /\ NoProfile \in Labels /\ Starts \subseteq [Names -> Labels]

\* cobra.MinimumNArgs(1).
ASSUME RequestsAssumption == \A r \in Requests : r.names \in Seq(Names) /\ Len(r.names) > 0

VARIABLES
    obj,       \* for each name: "none", "live" or "terminating" (foreground)
    gen,       \* which object of that name it is (its UID)
    label,     \* its mode label
    kids,      \* the objects of that name whose dependents exist and refer to them
    orphans,   \* the objects of that name whose dependents were orphaned
    req,       \* for each client, its command line
    pc,        \* "complete", "get", "delete", "print", "exit"
    idx,       \* position in the list of names
    seen,      \* the object that Get returned
    failed,    \* the command returned an error
    deletions  \* the deletions that commands carried out

clusterVars == <<obj, gen, label, kids, orphans>>
clientVars  == <<req, pc, idx, seen, failed>>
vars == <<clusterVars, clientVars, deletions>>

Init ==
    /\ obj = [n \in Names |-> "live"] /\ gen = [n \in Names |-> 1]
    /\ label \in Starts
    /\ kids = [n \in Names |-> {1}] /\ orphans = [n \in Names |-> {}]
    /\ req \in [Clients -> Requests]
    /\ pc = [c \in Clients |-> "complete"] /\ idx = [c \in Clients |-> 1]
    /\ seen = [c \in Clients |-> 0]
    /\ failed = [c \in Clients |-> FALSE]
    /\ deletions = {}

-----------------------------------------------------------------------------
(***************************************************************************)
(* The command.                                                            *)
(***************************************************************************)

Name(c) == req[c].names[idx[c]]

\* Mutant: the loop ends one name early.
Advance_OneShort(c) ==
    /\ idx' = [idx EXCEPT ![c] = @ + 1]
    /\ pc' = [pc EXCEPT ![c] = IF idx[c] + 1 >= Len(req[c].names) THEN "exit" ELSE "get"]

\* Move on to the next name, or return.
Advance(c) ==
    /\ idx' = [idx EXCEPT ![c] = @ + 1]
    /\ pc' = [pc EXCEPT ![c] = IF idx[c] = Len(req[c].names) THEN "exit" ELSE "get"]

Fail(c) ==
    /\ pc' = [pc EXCEPT ![c] = "exit"] /\ failed' = [failed EXCEPT ![c] = TRUE]
    /\ UNCHANGED idx

\* GetDryRunStrategy and getCascadingStrategy know these values and no other.
DryRunStrategies == {"none", "client", "server"}
CascadeStrategies == {"background", "foreground", "orphan"}

\* Complete: a flag with an unknown value, or a client that cannot be had, ends
\* the command before its first call.
Complete(c) ==
    /\ pc[c] = "complete"
    /\ \/ /\ req[c].dryRun \in DryRunStrategies /\ req[c].cascade \in CascadeStrategies
          /\ pc' = [pc EXCEPT ![c] = "get"] /\ UNCHANGED <<idx, failed>>
       \/ Fail(c)
    /\ UNCHANGED <<clusterVars, req, seen, deletions>>

Found(c, resource) == obj[Name(c)] # "none" /\ KindOf[Name(c)] = resource

\* Mutant: any object of kjob will do, whatever its mode.
Deletable_AnyMode(c, modes) == label[Name(c)] # NoProfile

\* The labels: the object comes from kjob and is in one of these modes.
Deletable(c, modes) == label[Name(c)] \in modes \ {NoProfile}

\* Mutant: errors are collected and returned at the end of the loop.
GetObject_ErrorsCollected(c, resource, modes) ==
    /\ pc[c] = "get"
    /\ \/ /\ Found(c, resource) /\ Deletable(c, modes)
          /\ seen' = [seen EXCEPT ![c] = gen[Name(c)]]
          /\ pc' = [pc EXCEPT ![c] = "delete"] /\ UNCHANGED <<idx, failed>>
       \/ /\ ~(Found(c, resource) /\ Deletable(c, modes))
          /\ Advance(c) /\ UNCHANGED <<seen, failed>>
       \/ Advance(c) /\ failed' = [failed EXCEPT ![c] = TRUE] /\ UNCHANGED seen
    /\ UNCHANGED <<clusterVars, req, deletions>>

\* Get: a missing object and one with the wrong labels are reported and
\* skipped, any other error ends the command.
GetObject(c, resource, modes) ==
    /\ pc[c] = "get"
    /\ \/ /\ Found(c, resource) /\ Deletable(c, modes)
          /\ seen' = [seen EXCEPT ![c] = gen[Name(c)]]
          /\ pc' = [pc EXCEPT ![c] = "delete"] /\ UNCHANGED <<idx, failed>>
       \/ /\ ~(Found(c, resource) /\ Deletable(c, modes))
          /\ Advance(c) /\ UNCHANGED <<seen, failed>>
       \/ Fail(c) /\ UNCHANGED seen
    /\ UNCHANGED <<clusterVars, req, deletions>>

\* The DeleteOptions: does the call take effect?
Effective(c) == req[c].dryRun # "client" /\ req[c].dryRun # "server"

\* Mutant: the strategy of --cascade never reaches the call.
Propagation_Fixed(c) == "background"

\* The DeleteOptions: what becomes of the dependents?
Propagation(c) == req[c].cascade

\* What the API server does with a Delete of object n (external).  Of two
\* calls for the same object the later one sets the policy.
Remove(n, propagation) ==
    /\ obj' = [obj EXCEPT ![n] = IF propagation = "foreground" /\ gen[n] \in kids[n]
                                   THEN "terminating" ELSE "none"]
    /\ IF propagation = "orphan"
         THEN /\ kids' = [kids EXCEPT ![n] = @ \ {gen[n]}]
              /\ orphans' = [orphans EXCEPT ![n] = @ \cup (kids[n] \cap {gen[n]})]
         ELSE UNCHANGED <<kids, orphans>>
    /\ UNCHANGED <<gen, label>>

\* Delete by name: an error, that of an object that is gone by now too, ends
\* the command.  A dry run of the client makes no call.
DeleteObject(c) ==
    /\ pc[c] = "delete"
    /\ \/ /\ Effective(c) /\ obj[Name(c)] # "none"
          /\ Remove(Name(c), Propagation(c))
          /\ deletions' = deletions \cup
                {[client |-> c, name |-> Name(c), gen |-> gen[Name(c)], checked |-> seen[c],
                  label |-> label[Name(c)], dependents |-> gen[Name(c)] \in kids[Name(c)]]}
          /\ pc' = [pc EXCEPT ![c] = "print"] /\ UNCHANGED <<idx, failed>>
       \/ /\ ~Effective(c) /\ (obj[Name(c)] # "none" \/ req[c].dryRun = "client")
          /\ pc' = [pc EXCEPT ![c] = "print"]
          /\ UNCHANGED <<clusterVars, deletions, idx, failed>>
       \/ /\ req[c].dryRun # "client"
          /\ Fail(c) /\ UNCHANGED <<clusterVars, deletions>>
    /\ UNCHANGED <<req, seen>>

PrintObject(c) ==
    /\ pc[c] = "print"
    /\ (Advance(c) /\ UNCHANGED failed) \/ Fail(c)
    /\ UNCHANGED <<clusterVars, req, seen, deletions>>

\* One step of Complete or Run of a command for this resource and these modes.
Step(c, resource, modes) ==
    Complete(c) \/ GetObject(c, resource, modes) \/ DeleteObject(c) \/ PrintObject(c)

\* The five commands.  Only those for Jobs look at the mode.
DeleteJob(c) == req[c].cmd = "job" /\ Step(c, "jobs", {"Job"})
DeleteSlurm(c) == req[c].cmd = "slurm" /\ Step(c, "jobs", {"Slurm"})
DeleteInteractive(c) == req[c].cmd = "interactive" /\ Step(c, "pods", Labels)
DeleteRayJob(c) == req[c].cmd = "rayjob" /\ Step(c, "rayjobs", Labels)
DeleteRayCluster(c) == req[c].cmd = "raycluster" /\ Step(c, "rayclusters", Labels)

-----------------------------------------------------------------------------
(***************************************************************************)
(* The cluster and other clients (external).                               *)
(***************************************************************************)

OtherDeletes(n) ==
    /\ obj[n] = "live" /\ Remove(n, "background")
    /\ UNCHANGED <<clientVars, deletions>>

\* Somebody creates an object with a name that is free again.
OtherCreates(n) ==
    /\ obj[n] = "none" /\ gen[n] < MaxGen[n]
    /\ obj' = [obj EXCEPT ![n] = "live"] /\ gen' = [gen EXCEPT ![n] = @ + 1]
    /\ \E lbl \in Labels : label' = [label EXCEPT ![n] = lbl]
    /\ kids' = [kids EXCEPT ![n] = @ \cup {gen[n] + 1}]
    /\ UNCHANGED <<orphans, clientVars, deletions>>

\* The garbage collector removes the dependents of an object that is gone or
\* that waits for them, and then that object.
Collect(n) ==
    /\ LET gone == {g \in kids[n] : g # gen[n] \/ obj[n] # "live"}
       IN  /\ gone # {} \/ obj[n] = "terminating"
           /\ kids' = [kids EXCEPT ![n] = @ \ gone]
    /\ obj' = [obj EXCEPT ![n] = IF @ = "terminating" THEN "none" ELSE @]
    /\ UNCHANGED <<gen, label, orphans, clientVars, deletions>>

Client(c) ==
    DeleteJob(c) \/ DeleteSlurm(c) \/ DeleteInteractive(c) \/ DeleteRayJob(c) \/ DeleteRayCluster(c)

Done == (\A c \in Clients : pc[c] = "exit") /\ UNCHANGED vars

Next ==
    \/ \E c \in Clients : Client(c)
    \/ \E n \in Names : OtherDeletes(n) \/ OtherCreates(n) \/ Collect(n)
    \/ Done

Spec == Init /\ [][Next]_vars

-----------------------------------------------------------------------------
(***************************************************************************)
(* What the commands promise.                                              *)
(***************************************************************************)

\* The variables have their types, and a command that is about to delete
\* looks at an object that exists or existed.
TypeOK ==
    /\ obj \in [Names -> {"none", "live", "terminating"}]
    /\ label \in [Names -> Labels]
    /\ \A n \in Names :
         /\ gen[n] \in 1..MaxGen[n]
         /\ kids[n] \subseteq 1..gen[n] /\ orphans[n] \subseteq 1..gen[n]
         /\ kids[n] \cap orphans[n] = {}
    /\ req \in [Clients -> Requests] /\ failed \in [Clients -> BOOLEAN]
    /\ pc \in [Clients -> {"complete", "get", "delete", "print", "exit"}]
    /\ \A c \in Clients :
         /\ idx[c] \in 1..(Len(req[c].names) + 1)
         /\ seen[c] \in Nat
         /\ pc[c] = "delete" => seen[c] \in 1..gen[Name(c)]

\* The objects a command is for.
Resource(cmd) == CASE cmd \in {"job", "slurm"} -> "jobs" [] cmd = "interactive" -> "pods"
                   [] cmd = "rayjob" -> "rayjobs" [] cmd = "raycluster" -> "rayclusters"

Meant(cmd, lbl) ==
    /\ lbl # NoProfile
    /\ cmd = "job" => lbl = "Job"
    /\ cmd = "slurm" => lbl = "Slurm"

\* An object that a command deletes carries the labels the command checks:
\* those of kjob and, for Jobs, of the right mode (delete_job.go:152-160).
\* The check is by name: when the object was replaced between Get and Delete,
\* nothing is known of the new one.
DeletesOnlyItsMode ==
    \A d \in deletions : Meant(req[d.client].cmd, d.label) \/ d.gen # d.checked

\* However a command ends, and at any time before, its position in the list of
\* names tells what it has done (delete_job.go:142-182): every object under an
\* earlier name that was there from the start and that it may delete is gone,
\* although other users delete, fail and create meanwhile; and every deletion
\* it carried out was of a name up to here, by a command without --dry-run.  A
\* failed command can be given the rest of its names again.
NothingSkipped ==
    \A c \in Clients :
        /\ req[c].dryRun = "none" =>
             \A i \in 1..(idx[c] - 1) :
                LET n == req[c].names[i]
                IN  KindOf[n] = Resource(req[c].cmd) /\ gen[n] = 1
                      /\ Meant(req[c].cmd, label[n]) => obj[n] # "live"
        /\ \A d \in deletions :
             d.client = c => /\ req[c].dryRun = "none"
                             /\ \E i \in 1..idx[c] : req[c].names[i] = d.name

\* When a command returns without an error, no object it was asked for, that
\* was there from the start and that it may delete, is left alive
\* (delete_job.go:142-182), however other users delete and create meanwhile.
SuccessMeansGone ==
    \A c \in Clients :
        pc[c] = "exit" /\ ~failed[c] /\ req[c].dryRun = "none" =>
            \A i \in 1..Len(req[c].names) :
                LET n == req[c].names[i]
                IN  KindOf[n] = Resource(req[c].cmd) /\ gen[n] = 1
                      /\ Meant(req[c].cmd, label[n]) => obj[n] # "live"

OrphanedBy(n, g) ==
    {d \in deletions : d.name = n /\ d.gen = g /\ req[d.client].cascade = "orphan"}

\* --cascade is honoured (helpers.go:40-52): the dependents of an object are
\* orphaned when, and only when, some command deleted it with orphan.
CascadeHonoured ==
    \A d \in deletions :
        d.dependents => (d.gen \in orphans[d.name] <=> OrphanedBy(d.name, d.gen) # {})
=============================================================================
