---------------------------- MODULE WaitContract ----------------------------
(***************************************************************************)
(* What kjobctl create slurm --wait promises to its caller, without        *)
(* goroutines, watches or logs: how the call of watchJobAndStreamLogs      *)
(* (pkg/cmd/create/create.go) may end, and what became of the job then.    *)
(* SlurmWait implements it; CreateCommand uses it.                         *)
(***************************************************************************)
EXTENDS Naturals

CONSTANT Options    \* the combinations of --rm, --wait-timeout and --dry-run

VARIABLES
    opts,
    job,    \* "absent" (a dry run), "active", "over" or "deleted"
    call,   \* "entered", "waiting", "removing", "returned" or "killed"
    cut,    \* the API server ended a watch of the command
    errs    \* the errors the call returns

contractVars == <<opts, job, call, cut, errs>>

Init ==
    /\ opts \in Options
    /\ job = IF opts.dryRun THEN "absent" ELSE "active"
    /\ call = "entered" /\ cut = FALSE /\ errs = {}

\* The job finishes or is deleted by another client.
JobEnds ==
    /\ \/ job = "active" /\ job' \in {"over", "deleted"}
       \/ job = "over" /\ job' = "deleted"
    /\ UNCHANGED <<opts, call, cut, errs>>

WatchCut ==
    /\ call \in {"waiting", "removing"} /\ cut' = TRUE
    /\ UNCHANGED <<opts, job, call, errs>>

Enter ==
    /\ call = "entered"
    /\ \/ call' = "waiting" /\ UNCHANGED errs
       \/ call' = "returned" /\ errs' = {"client"}
       \/ call' = "killed" /\ UNCHANGED errs
    /\ UNCHANGED <<opts, job, cut>>

\* Success without a signal: the job is over, or a watch was cut.
Finish ==
    /\ call = "waiting" /\ (job \in {"over", "deleted"} \/ cut)
    /\ call' = "returned" /\ errs' = {}
    /\ UNCHANGED <<opts, job, cut>>

Fail ==
    /\ call = "waiting"
    /\ call' = "returned" /\ errs' \in {{"watcher"}, {"verifier"}}
    /\ UNCHANGED <<opts, job, cut>>

\* A signal, or the timeout if there is one.
Cancel ==
    /\ call = "waiting"
    /\ errs' = {} \/ (opts.timeout /\ errs' = {"timeout"})
    /\ call' = IF opts.rm THEN "removing" ELSE "returned"
    /\ UNCHANGED <<opts, job, cut>>

\* The job is deleted, or the error is returned.
Remove ==
    /\ call = "removing" /\ call' = "returned"
    /\ \/ job \in {"active", "over"} /\ job' = "deleted" /\ UNCHANGED errs
       \/ errs' = errs \cup {"remove"} /\ UNCHANGED job
    /\ UNCHANGED <<opts, cut>>

Next == JobEnds \/ WatchCut \/ Enter \/ Finish \/ Fail \/ Cancel \/ Remove

Spec == Init /\ [][Next]_contractVars
=============================================================================
