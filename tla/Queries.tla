------------------------------ MODULE Queries ------------------------------
(***************************************************************************)
(* The commands that only read: the five list commands in pkg/cmd/list,    *)
(* describe in pkg/cmd/describe/describe.go and the completion of names in *)
(* pkg/cmd/completion/completion.go, while other clients create and delete *)
(* objects.  What is kept of the output is which objects appear in it, in  *)
(* which order; list is modelled for its tables, which its tab writer      *)
(* holds back until Flush.                                                 *)
(***************************************************************************)
EXTENDS Integers, Sequences, FiniteSets

CONSTANTS
    Objects,           \* objects there may be: [kind, ns, name, profile, mode, queue, app]
    Clusters,          \* sets of objects the cluster may hold at first
    Queries,           \* command lines: [verb, cmd, all, profile, queue, app, name, args, limit]
    CompletionLimit,   \* completionLimit, 100
    MaxChanges         \* bound on the changes other clients make

\* Labels that are missing are ""; a name of 0 and an empty flag are "not given".
ASSUME QueriesAssumption ==
    /\ CompletionLimit \in Nat \ {0} /\ MaxChanges \in Nat
    /\ Clusters \subseteq SUBSET Objects /\ \A s \in Clusters : IsFiniteSet(s)
    /\ \A o \in Objects : o.name \in Int
    /\ \A r \in Queries : r.limit \in Int
    /\ \A o, p \in Objects : o.kind = p.kind /\ o.ns = p.ns /\ o.name = p.name => o = p

VARIABLES
    q, pc,             \* "start", "list", "more", "find", "maps", "describe", "suggest", "ok" or "error"
    objs, changes,     \* the cluster and the number of changes made to it
    matched, left,     \* what matched when the list began, what it still has to return
    tail,              \* keys that do not match follow the last one that does
    buffer, shown,     \* the lines written, and those that came out
    infos,             \* found and not described yet
    errs,              \* describe has met an error
    stable             \* history: the objects that were there all the time

vars == <<q, pc, objs, changes, matched, left, tail, buffer, shown, infos, errs, stable>>
clusterVars == <<objs, changes, stable>>

Init ==
    /\ q \in Queries /\ pc = (IF q.verb = "complete" THEN "suggest" ELSE "start") /\ tail \in {FALSE, q.verb = "list"}
    /\ objs \in Clusters /\ changes = 0 /\ stable = objs
    /\ matched = {} /\ left = {} /\ buffer = <<>> /\ shown = <<>> /\ infos = {} /\ errs = FALSE

-----------------------------------------------------------------------------
(***************************************************************************)
(* The selectors.                                                          *)
(***************************************************************************)

Matches(filter, value) == filter = "" \/ filter = value

InNamespace(o) == q.all \/ o.ns = "here"

\* The objects of a kind and, unless it is "", of a mode.
Class(kind, mode) == {o \in objs : o.kind = kind /\ Matches(mode, o.mode)}

\* The ListOptions of the list commands, but for the mode.
ListSelects(o) ==
    /\ InNamespace(o) /\ o.profile # "" /\ Matches(q.profile, o.profile)
    /\ Matches(q.queue, o.queue) /\ Matches(q.app, o.app)

\* The kind that describe finds for its argument.
Kind(cmd) == CASE cmd \in {"job", "slurm"} -> "Job" [] cmd = "interactive" -> "Pod"
               [] cmd = "rayjob" -> "RayJob" [] cmd = "raycluster" -> "RayCluster"

\* customizeResourceBuilder; a name is looked up in one namespace, whatever
\* the flags say, and there is no selection on the mode.
DescribeSelects(o) ==
    /\ o.kind = Kind(q.cmd)
    /\ IF q.name # 0 THEN o.ns = "here" /\ o.name = q.name
       ELSE InNamespace(o) /\ o.profile # "" /\ Matches(q.profile, o.profile) /\ Matches(q.app, o.app)

\* getConfigMaps asks for those of the current namespace, and filters by no
\* profile and no selector.
MapSelects(o) ==
    /\ o.kind = "ConfigMap" /\ o.ns = "here"
    /\ IF q.name # 0 THEN o.name = q.name ELSE o.profile # "" /\ o.mode = "Slurm"

-----------------------------------------------------------------------------
(***************************************************************************)
(* list.                                                                   *)
(***************************************************************************)

\* Complete: the request limit, which may be no number, and the client.
Complete ==
    /\ pc = "start" /\ q.verb = "list"
    /\ pc' \in {"error", "list"}
    /\ UNCHANGED <<q, matched, left, tail, buffer, shown, infos, errs, clusterVars>>

Header == [kind |-> "header"]

\* Mutant of Table: every page has its header.
Table_EveryPage(page) == (IF page = <<>> THEN <<>> ELSE <<Header>>) \o page

\* What a page adds: a header as long as nothing was printed; the table
\* printer prints none over an empty table.
Table(page) == (IF buffer = <<>> /\ page # <<>> THEN <<Header>> ELSE <<>>) \o page

\* The pages the API server may return of the objects in rest (external): all
\* without a limit or with a negative one, which listRequestLimit lets pass,
\* else as many as the limit allows, in any order.
Pages(rest) ==
    LET size == IF q.limit <= 0 \/ Cardinality(rest) < q.limit THEN Cardinality(rest) ELSE q.limit
    IN  {s \in [1..size -> rest] : \A j, k \in 1..size : j # k => s[j] # s[k]}

Returned(page) == {page[k] : k \in DOMAIN page}

\* One round of Run: a List call fails, returns a page with a token for the
\* next one, or the last page, after which the table is flushed unless there
\* was nothing in it.  The token belongs to the snapshot of the first page.
RunList(cmd, class) ==
    /\ pc \in {"list", "more"} /\ q.cmd = cmd
    /\ \/ pc' = "error" /\ UNCHANGED <<matched, left, tail, buffer, shown>>
       \/ LET rest == IF pc = "list" THEN {o \in class : ListSelects(o)} ELSE left
          IN  \E page \in Pages(rest) :
                 /\ matched' = IF pc = "list" THEN rest ELSE matched
                 /\ left' = rest \ Returned(page) /\ buffer' = buffer \o Table(page)
                 /\ \/ (left' # {} \/ tail) /\ tail' = (tail /\ left' # {}) /\ pc' = "more" /\ UNCHANGED shown
                    \/ left' = {} /\ ~tail /\ pc' = "ok" /\ shown' = buffer' /\ UNCHANGED tail
    /\ UNCHANGED <<q, infos, errs, clusterVars>>

\* The five commands; only those for Jobs select on the mode.
ListJob == RunList("job", Class("Job", "Job"))
ListSlurm == RunList("slurm", Class("Job", "Slurm"))
ListInteractive == RunList("interactive", Class("Pod", ""))
ListRayJob == RunList("rayjob", Class("RayJob", ""))
ListRayCluster == RunList("raycluster", Class("RayCluster", ""))

-----------------------------------------------------------------------------
(***************************************************************************)
(* describe.                                                               *)
(***************************************************************************)

\* Complete: the two forms of the arguments, a mode that may not exist, the
\* clients and the kind.
CompleteDescribe ==
    /\ pc = "start" /\ q.verb = "describe"
    /\ pc' \in {"error", "find"}
    /\ UNCHANGED <<q, matched, left, tail, buffer, shown, infos, errs, clusterVars>>

\* The first half of Run: a name that is not there is an error.
Find ==
    /\ pc = "find"
    /\ \/ pc' = "error" /\ UNCHANGED infos
       \/ /\ q.name # 0 => \E o \in objs : DescribeSelects(o)
          /\ infos' = {o \in objs : DescribeSelects(o)}
          /\ pc' = IF q.cmd = "slurm" THEN "maps" ELSE "describe"
    /\ UNCHANGED <<q, matched, left, tail, buffer, shown, errs, clusterVars>>

\* getConfigMaps: a call of its own, later than the first.
getConfigMaps ==
    /\ pc = "maps"
    /\ \/ pc' = "error" /\ UNCHANGED infos
       \/ /\ q.name # 0 => \E o \in objs : MapSelects(o)
          /\ infos' = infos \cup {o \in objs : MapSelects(o)}
          /\ pc' = "describe"
    /\ UNCHANGED <<q, matched, left, tail, buffer, shown, errs, clusterVars>>

\* Mutant of First: the objects are described as they were found.
First_Unsorted == infos

\* SortFunc is not stable: of equal names any may come first.
First == {o \in infos : \A p \in infos : o.name <= p.name}

\* One round of the loop: an object without the label is passed over, one
\* that cannot be converted is an error for later.
DescribeNext ==
    /\ pc = "describe" /\ infos # {}
    /\ \E o \in First :
          /\ infos' = infos \ {o}
          /\ \/ o.profile = "" /\ UNCHANGED <<shown, errs>>
             \/ o.profile # "" /\ shown' = Append(shown, o) /\ UNCHANGED errs
             \/ o.profile # "" /\ errs' = TRUE /\ UNCHANGED shown
    /\ UNCHANGED <<q, pc, matched, left, tail, buffer, clusterVars>>

DescribeEnd ==
    /\ pc = "describe" /\ infos = {}
    /\ pc' = IF errs THEN "error" ELSE "ok"
    /\ UNCHANGED <<q, matched, left, tail, buffer, shown, infos, errs, clusterVars>>

-----------------------------------------------------------------------------
(***************************************************************************)
(* Completion: the first names of the list, without those already typed.   *)
(***************************************************************************)

NamesFunc(cmd, found) ==
    /\ pc = "suggest" /\ q.cmd = cmd
    /\ \/ pc' = "error" /\ UNCHANGED shown
       \/ /\ LET here == {o \in found : o.ns = "here"}
                 list == {o \in here : Cardinality({p \in here : p.name < o.name}) < CompletionLimit}
                 args == {o \in list : o.name \notin q.args}
             IN  \E s \in [1..Cardinality(args) -> args] :
                    /\ \A j, k \in DOMAIN s : j < k => s[j].name < s[k].name
                    /\ shown' = s
          /\ pc' = "ok"
    /\ UNCHANGED <<q, matched, left, tail, buffer, infos, errs, clusterVars>>

Kjob(class) == {o \in class : o.profile # ""}

\* Mutant of JobNameFunc: the mode is forgotten.
JobNameFunc_AnyMode(cmd, mode) == NamesFunc(cmd, Kjob(Class("Job", "")))

\* The List calls; profiles and queues are not objects that kjob creates.
JobNameFunc(cmd, mode) == NamesFunc(cmd, Kjob(Class("Job", mode)))
PodNameFunc == NamesFunc("interactive", Kjob(Class("Pod", "")))
RayJobNameFunc == NamesFunc("rayjob", Kjob(Class("RayJob", "")))
RayClusterNameFunc == NamesFunc("raycluster", Kjob(Class("RayCluster", "")))
ApplicationProfileNameFunc == NamesFunc("profile", Class("ApplicationProfile", ""))
LocalQueueNameFunc == NamesFunc("localqueue", Class("LocalQueue", ""))

Suggest ==
    \/ JobNameFunc("job", "Job") \/ JobNameFunc("slurm", "Slurm")
    \/ PodNameFunc \/ RayJobNameFunc \/ RayClusterNameFunc
    \/ ApplicationProfileNameFunc \/ LocalQueueNameFunc

-----------------------------------------------------------------------------
Ended == pc \in {"ok", "error"}

\* Other clients (external).
Change ==
    /\ ~Ended /\ pc # "start" /\ changes < MaxChanges /\ changes' = changes + 1
    /\ \E o \in Objects :
          objs' = (IF o \in objs THEN objs \ {o} ELSE objs \cup {o}) /\ stable' = stable \ {o}
    /\ UNCHANGED <<q, pc, matched, left, tail, buffer, shown, infos, errs>>

Done == Ended /\ UNCHANGED vars

Next ==
    \/ Complete
    \/ ListJob \/ ListSlurm \/ ListInteractive \/ ListRayJob \/ ListRayCluster
    \/ CompleteDescribe \/ Find \/ getConfigMaps \/ DescribeNext \/ DescribeEnd \/ Suggest
    \/ Change \/ Done

Spec == Init /\ [][Next]_vars

-----------------------------------------------------------------------------
(***************************************************************************)
(* Properties.                                                             *)
(***************************************************************************)

\* A list that succeeds shows one header and below it every object that
\* matched when it began, each once, however the answer was cut into pages,
\* empty ones too, and whatever was created or deleted meanwhile; if there is
\* none, or if a page cannot be had, it shows nothing (Run of the list
\* commands).
ListExact ==
    (Ended /\ q.verb = "list") =>
        IF pc = "error" \/ matched = {} THEN shown = <<>>
        ELSE /\ shown[1] = Header /\ Len(shown) = 1 + Cardinality(matched)
             /\ {shown[k] : k \in 2..Len(shown)} = matched

Place(o) == CHOOSE k \in DOMAIN shown : shown[k] = o

\* A describe that succeeds shows everything that was there all the time, and
\* in describe slurm a Job and its ConfigMap stand next to each other; but in
\* one namespace only, and a ConfigMap whose Job was filtered out or is in
\* Job mode stands alone (Run, getConfigMaps).
DescribedTogether ==
    (pc = "ok" /\ q.verb = "describe") =>
        /\ \A o \in stable : DescribeSelects(o) /\ o.profile # "" => \E k \in DOMAIN shown : shown[k] = o
        /\ (q.cmd = "slurm" /\ ~q.all) =>
              \A o, m \in stable :
                  (/\ DescribeSelects(o) /\ o.profile # "" /\ m.kind = "ConfigMap" /\ m.ns = o.ns /\ m.name = o.name
                   /\ m.profile # "" /\ m.mode = "Slurm") =>
                  /\ \E k \in DOMAIN shown : shown[k] = m
                  /\ Place(m) - Place(o) \in {1, -1}

\* What delete NAME would accept, see Deletable in DeleteCommand.
DeleteAccepts(o) ==
    /\ o.kind = Kind(q.cmd) /\ o.ns = "here" /\ o.profile # ""
    /\ q.cmd = "job" => o.mode = "Job"
    /\ q.cmd = "slurm" => o.mode = "Slurm"

\* The names suggested for a delete command are names it would not refuse now,
\* whatever has changed before, without the ones already typed; and as long as
\* the limit is not reached none is left out (JobNameFunc and the other
\* functions).
SuggestionsUsable ==
    (pc = "ok" /\ q.verb = "complete" /\ q.cmd \notin {"profile", "localqueue"}) =>
        LET names  == {shown[k].name : k \in DOMAIN shown}
            usable == {o \in objs : DeleteAccepts(o)}
        IN  /\ names \subseteq {o.name : o \in usable} \ q.args
            /\ Cardinality(usable) <= CompletionLimit => names = {o.name : o \in usable} \ q.args
=============================================================================
