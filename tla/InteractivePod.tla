--------------------------- MODULE InteractivePod ---------------------------
(***************************************************************************)
(* kjobctl create interactive [--rm]: RunInteractivePod and attachTTY in   *)
(* pkg/cmd/create/create.go, waitForPodRunning and isPodRunning in         *)
(* pkg/cmd/create/helpers.go.                                              *)
(*                                                                         *)
(* The command polls the pod it created until it runs, reads it again,     *)
(* attaches the terminal to its first container and, with --rm, deletes    *)
(* the pod in a deferred function whichever way it leaves.  The pod, which *)
(* moves and may be deleted meanwhile, and the calls of the API server,    *)
(* which may fail, are modelled from how the code uses them.               *)
(***************************************************************************)
EXTENDS Naturals

CONSTANTS
    RemoveObject,    \* the values of --rm to consider
    Raw,             \* is o.In a terminal (tty.Raw)?
    AllocatesTTY     \* did the first container of the template ask for a TTY?

ASSUME FlagsAssumption ==
    RemoveObject \subseteq BOOLEAN /\ Raw \subseteq BOOLEAN /\ AllocatesTTY \subseteq BOOLEAN

VARIABLES
    pod,        \* its phase, or "gone"
    rm, raw, allocatesTTY,
    pc,         \* see Steps below
    expired,    \* --pod-running-timeout has passed
    outcome,    \* how the session went: "none" yet, "noclient", "ok" or "failed"
    result,     \* the value the command returns: "none" yet, "nil" or "err"
    errOut,     \* o.ErrOut is not nil
    deleteErr   \* the deferred Delete returned an error

vars == <<pod, rm, raw, allocatesTTY, pc, expired, outcome, result, errOut, deleteErr>>
flags == <<rm, raw, allocatesTTY>>

\* "client": before the clientset is there; "poll": a Get of the poll is in
\* flight; "sleep": between two polls; "get": the second Get; "tty": attachTTY
\* sets the terminal up; "attached": the session; "defer": the deferred
\* function; "print": it reports that the pod was deleted.
Steps == {"client", "poll", "sleep", "get", "tty", "attached", "defer", "print",
          "exit", "killed", "panic"}

Init ==
    /\ pod = "Pending"
    /\ rm \in RemoveObject /\ raw \in Raw /\ allocatesTTY \in AllocatesTTY
    /\ pc = "client" /\ expired = FALSE /\ outcome = "none"
    /\ result = "none" /\ errOut = TRUE /\ deleteErr = FALSE

Ended == pc \in {"exit", "killed", "panic"}

-----------------------------------------------------------------------------
(***************************************************************************)
(* The cluster, time and the user (external).                              *)
(***************************************************************************)

\* The kubelet moves the pod on.
PodMoves ==
    /\ ~Ended
    /\ \/ pod = "Pending" /\ pod' \in {"Running", "Succeeded", "Failed"}
       \/ pod = "Running" /\ pod' \in {"Succeeded", "Failed"}
    /\ UNCHANGED <<flags, pc, expired, outcome, result, errOut, deleteErr>>

\* Another client deletes the pod.
PodDeleted ==
    /\ ~Ended /\ pod # "gone" /\ pod' = "gone"
    /\ UNCHANGED <<flags, pc, expired, outcome, result, errOut, deleteErr>>

TimeoutPasses ==
    /\ pc \in {"poll", "sleep"} /\ ~expired /\ expired' = TRUE
    /\ UNCHANGED <<pod, flags, pc, outcome, result, errOut, deleteErr>>

\* A signal ends the process at once: nothing handles it, and the handler
\* that tty.Safe installs restores the terminal and exits.
Killed ==
    /\ ~Ended /\ pc' = "killed"
    /\ UNCHANGED <<pod, flags, expired, outcome, result, errOut, deleteErr>>

-----------------------------------------------------------------------------
(***************************************************************************)
(* The command.                                                            *)
(***************************************************************************)

\* Mutant of Return: the deferred function is only registered for a session
\* that came about.
Return_LateDefer(how) ==
    /\ outcome' = how /\ result' = (IF how = "ok" THEN "nil" ELSE "err")
    /\ pc' = IF rm /\ (how = "ok" \/ pc = "attached") THEN "defer" ELSE "exit"

\* return: the result is evaluated, then the deferred function runs.
Return(how) ==
    /\ outcome' = how /\ result' = (IF how = "ok" THEN "nil" ELSE "err")
    /\ pc' = IF rm /\ how # "noclient" THEN "defer" ELSE "exit"

\* The deferred function is registered once the clientset is there, and
\* before anything can fail with the pod running.
GetClient ==
    /\ pc = "client"
    /\ \/ pc' = "poll" /\ UNCHANGED <<outcome, result>>
       \/ Return("noclient")
    /\ UNCHANGED <<pod, flags, expired, errOut, deleteErr>>

\* isPodRunning: any error of the Get ends the poll, a missing pod is one.
PollReturns ==
    /\ pc = "poll"
    /\ \/ pod = "Running" /\ pc' = "get" /\ UNCHANGED <<outcome, result>>
       \/ pod \notin {"Running", "gone"} /\ pc' = "sleep" /\ UNCHANGED <<outcome, result>>
       \/ Return("failed")
    /\ UNCHANGED <<pod, flags, expired, errOut, deleteErr>>

\* PollUntilContextTimeout: the next poll, or the deadline.
PollAgain ==
    /\ pc = "sleep" /\ ~expired /\ pc' = "poll"
    /\ UNCHANGED <<pod, flags, expired, outcome, result, errOut, deleteErr>>

\* Mutant of PollTimesOut: only a pending pod times out.
PollTimesOut_OnlyPending ==
    /\ pc = "sleep" /\ expired /\ pod = "Pending" /\ Return("failed")
    /\ UNCHANGED <<pod, flags, expired, errOut, deleteErr>>

PollTimesOut ==
    /\ pc = "sleep" /\ expired /\ Return("failed")
    /\ UNCHANGED <<pod, flags, expired, errOut, deleteErr>>

GetPod ==
    /\ pc = "get"
    /\ \/ pod # "gone" /\ pc' = "tty" /\ UNCHANGED <<outcome, result>>
       \/ Return("failed")
    /\ UNCHANGED <<pod, flags, expired, errOut, deleteErr>>

\* attachTTY up to the session.
SetupTTY ==
    /\ pc = "tty"
    /\ IF ~allocatesTTY
         THEN Return("failed") /\ UNCHANGED errOut
         ELSE pc' = "attached" /\ errOut' = (errOut /\ ~raw) /\ UNCHANGED <<outcome, result>>
    /\ UNCHANGED <<pod, flags, expired, deleteErr>>

\* The session ends: the user leaves a shell of a pod that still runs, or
\* the attach call fails, or it breaks.
SessionEnds ==
    /\ pc = "attached"
    /\ \/ Return("ok")
       \/ Return("failed")
    /\ UNCHANGED <<pod, flags, expired, errOut, deleteErr>>

\* Mutant of DeferredDelete: err is a named result.
DeferredDelete_NamedResult ==
    /\ pc = "defer"
    /\ \/ /\ pod # "gone" /\ pod' = "gone" /\ pc' = "print"
          /\ result' = "nil" /\ UNCHANGED deleteErr
       \/ /\ deleteErr' = TRUE /\ pc' = (IF errOut THEN "print" ELSE "panic")
          /\ result' = "err" /\ UNCHANGED pod
    /\ UNCHANGED <<flags, expired, outcome, errOut>>

\* The deferred Delete.  An error of it is written to o.ErrOut; err is the
\* local variable, so the result stays as it was evaluated.
DeferredDelete ==
    /\ pc = "defer"
    /\ \/ /\ pod # "gone" /\ pod' = "gone" /\ pc' = "print"
          /\ UNCHANGED deleteErr
       \/ /\ deleteErr' = TRUE /\ pc' = (IF errOut THEN "print" ELSE "panic")
          /\ UNCHANGED pod
    /\ UNCHANGED <<flags, expired, outcome, result, errOut>>

PrintDeleted ==
    /\ pc = "print" /\ pc' = "exit"
    /\ UNCHANGED <<pod, flags, expired, outcome, result, errOut, deleteErr>>

Done == Ended /\ UNCHANGED vars

Command ==
    \/ GetClient \/ PollReturns \/ PollAgain \/ PollTimesOut \/ GetPod
    \/ SetupTTY \/ SessionEnds \/ DeferredDelete \/ PrintDeleted

Next == PodMoves \/ PodDeleted \/ TimeoutPasses \/ Killed \/ Command \/ Done

\* Calls of the API server return and time passes; the session ends when the
\* user wants it to.
Fairness ==
    /\ WF_vars(TimeoutPasses) /\ WF_vars(GetClient) /\ WF_vars(PollReturns)
    /\ WF_vars(PollAgain) /\ WF_vars(PollTimesOut) /\ WF_vars(GetPod)
    /\ WF_vars(SetupTTY) /\ WF_vars(DeferredDelete) /\ WF_vars(PrintDeleted)

Spec == Init /\ [][Next]_vars /\ Fairness

-----------------------------------------------------------------------------
(***************************************************************************)
(* Properties.                                                             *)
(***************************************************************************)

\* Every variable has its type, and o.ErrOut is only unset for a terminal in
\* raw mode (attachTTY).
TypeOK ==
    /\ pod \in {"Pending", "Running", "Succeeded", "Failed", "gone"}
    /\ rm \in RemoveObject /\ raw \in Raw /\ allocatesTTY \in AllocatesTTY
    /\ pc \in Steps
    /\ expired \in BOOLEAN /\ deleteErr \in BOOLEAN
    /\ outcome \in {"none", "noclient", "ok", "failed"} /\ result \in {"none", "nil", "err"}
    /\ errOut \in {~raw, TRUE}

\* With --rm, whichever way the command leaves RunInteractivePod after it got
\* its client (a failed poll, the timeout, a pod that vanished, no TTY, a
\* broken or a finished session), the pod is gone or the Delete call failed.
LeavesNoPod ==
    (pc = "exit" /\ rm /\ outcome # "noclient") => pod = "gone" \/ deleteErr

\* The exit status tells how the session went: neither a successful cleanup
\* hides its error nor a failed cleanup makes a success an error (the
\* deferred function assigns err after the result was evaluated).
ResultIsOutcome == pc = "exit" => (result = "nil" <=> outcome = "ok")

\* The command does not wait for ever for a pod that does not run: after
\* --pod-running-timeout it gives up (waitForPodRunning).
PollEnds == (pc = "poll") ~> (pc \notin {"poll", "sleep"})

\* create.go:918 unsets o.ErrOut "because both stdout and stderr go over p.Out
\* when tty is true"; so nothing may be written to it afterwards.
NoWriteToNilErrOut == pc # "panic"
=============================================================================
