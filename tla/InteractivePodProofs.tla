------------------------ MODULE InteractivePodProofs ------------------------
(***************************************************************************)
(* The safety of create interactive, for any set of flags.                 *)
(***************************************************************************)
EXTENDS InteractivePod, TLAPS

-----------------------------------------------------------------------------
(***************************************************************************)
(* Type correctness.                                                       *)
(***************************************************************************)

\* return keeps the types of what it sets, and is always a way out.
LEMMA ReturnType ==
  ASSUME NEW how \in {"noclient", "ok", "failed"}, Return(how)
  PROVE  /\ outcome' = how /\ outcome' \in {"none", "noclient", "ok", "failed"}
         /\ result' \in {"nil", "err"} /\ (result' = "nil" <=> how = "ok")
         /\ pc' \in {"defer", "exit"}
         /\ pc' = "exit" => ~rm \/ how = "noclient"
  BY DEF Return

\* Init, every step of the command (RunInteractivePod, the poll, attachTTY, the
\* deferred function) and of the pod, time and the user keep TypeOK.
THEOREM TypeCorrect == Spec => []TypeOK
  <1>1. Init => TypeOK
    BY DEF Init, TypeOK, Steps
  <1>2. TypeOK /\ [Next]_vars => TypeOK'
    <2> SUFFICES ASSUME TypeOK, [Next]_vars PROVE TypeOK'
      OBVIOUS
    <2> USE DEF TypeOK, Steps, flags
    <2>1. CASE PodMoves
      BY <2>1 DEF PodMoves
    <2>2. CASE PodDeleted
      BY <2>2 DEF PodDeleted
    <2>3. CASE TimeoutPasses
      BY <2>3 DEF TimeoutPasses
    <2>4. CASE Killed
      BY <2>4 DEF Killed
    <2>5. CASE GetClient
      BY <2>5, ReturnType DEF GetClient
    <2>6. CASE PollReturns
      BY <2>6, ReturnType DEF PollReturns
    <2>7. CASE PollAgain
      BY <2>7 DEF PollAgain
    <2>8. CASE PollTimesOut
      BY <2>8, ReturnType DEF PollTimesOut
    <2>9. CASE GetPod
      BY <2>9, ReturnType DEF GetPod
    <2>10. CASE SetupTTY
      <3>1. pc' \in Steps /\ outcome' \in {"none", "noclient", "ok", "failed"}
              /\ result' \in {"none", "nil", "err"}
        BY <2>10, ReturnType DEF SetupTTY
      <3>2. errOut' \in {~raw, TRUE}
        BY <2>10, Zenon, FlagsAssumption DEF SetupTTY
      <3> QED
        BY <2>10, <3>1, <3>2 DEF SetupTTY
    <2>11. CASE SessionEnds
      BY <2>11, ReturnType DEF SessionEnds
    <2>12. CASE DeferredDelete
      BY <2>12 DEF DeferredDelete
    <2>13. CASE PrintDeleted
      BY <2>13 DEF PrintDeleted
    <2>14. CASE Done
      BY <2>14 DEF Done, vars
    <2>15. CASE UNCHANGED vars
      BY <2>15 DEF vars
    <2> QED
      BY <2>1, <2>2, <2>3, <2>4, <2>5, <2>6, <2>7, <2>8, <2>9, <2>10, <2>11, <2>12, <2>13, <2>14, <2>15 DEF Next, Command
  <1> QED
    BY <1>1, <1>2, PTL DEF Spec

-----------------------------------------------------------------------------
(***************************************************************************)
(* The cleanup and the exit status.                                        *)
(***************************************************************************)

\* What the deferred function has done when it comes to its last line, and
\* what is so when the command has returned.
CleanupInv ==
    /\ pc = "print" => pod = "gone" \/ deleteErr
    /\ LeavesNoPod

\* The result is evaluated before the deferred function runs, and stays.
ResultInv ==
    pc \in {"defer", "print", "exit", "panic"} => (result = "nil" <=> outcome = "ok")

\* A pod that is gone stays gone, and an error that was met stays met.
LEMMA GoneStays ==
  TypeOK /\ [Next]_vars => (pod = "gone" => pod' = "gone") /\ (deleteErr => deleteErr')
  <1> SUFFICES ASSUME TypeOK, [Next]_vars
               PROVE  (pod = "gone" => pod' = "gone") /\ (deleteErr => deleteErr')
    OBVIOUS
  <1> QED
    BY DEF TypeOK, Next, Command, vars, PodMoves, PodDeleted, TimeoutPasses, Killed, GetClient, PollReturns,
           PollAgain, PollTimesOut, GetPod, SetupTTY, SessionEnds, DeferredDelete, PrintDeleted, Done

\* A step that returns from the body of the function, or stays in it, keeps
\* both invariants: it does not get to the last line of the deferred function,
\* and past it only when there is nothing to clean up.
LEMMA BodyStep ==
  ASSUME TypeOK, CleanupInv, ResultInv, UNCHANGED flags,
         \/ pc' \in {"poll", "sleep", "get", "tty", "attached", "killed"}
         \/ \E how \in {"noclient", "ok", "failed"} : Return(how)
  PROVE  CleanupInv' /\ ResultInv'
  <1>1. CASE pc' \in {"poll", "sleep", "get", "tty", "attached", "killed"}
    BY <1>1 DEF CleanupInv, ResultInv, LeavesNoPod
  <1>2. ASSUME NEW how \in {"noclient", "ok", "failed"}, Return(how)
        PROVE  CleanupInv' /\ ResultInv'
    BY <1>2, ReturnType DEF CleanupInv, ResultInv, LeavesNoPod, flags
  <1> QED
    BY <1>1, <1>2

\* The two invariants hold initially and are kept by every step.
LEMMA CleanupInvariant == Spec => [](CleanupInv /\ ResultInv)
  <1>1. Init => CleanupInv /\ ResultInv
    BY DEF Init, CleanupInv, ResultInv, LeavesNoPod
  <1>2. TypeOK /\ (CleanupInv /\ ResultInv) /\ [Next]_vars => (CleanupInv /\ ResultInv)'
    <2> SUFFICES ASSUME TypeOK, CleanupInv, ResultInv, [Next]_vars PROVE CleanupInv' /\ ResultInv'
      OBVIOUS
    <2>1. CASE PodMoves \/ PodDeleted \/ TimeoutPasses
      BY <2>1, GoneStays DEF PodMoves, PodDeleted, TimeoutPasses, CleanupInv, ResultInv, LeavesNoPod, flags, Ended
    <2>2. CASE Killed
      BY <2>2, BodyStep DEF Killed
    <2>3. CASE GetClient \/ PollReturns \/ PollAgain \/ PollTimesOut
      BY <2>3, BodyStep DEF GetClient, PollReturns, PollAgain, PollTimesOut
    <2>4. CASE GetPod \/ SetupTTY \/ SessionEnds
      BY <2>4, BodyStep DEF GetPod, SetupTTY, SessionEnds
    <2>5. CASE DeferredDelete
      BY <2>5 DEF DeferredDelete, CleanupInv, ResultInv, LeavesNoPod
    <2>6. CASE PrintDeleted
      BY <2>6 DEF PrintDeleted, CleanupInv, ResultInv, LeavesNoPod, flags
    <2>7. CASE Done \/ UNCHANGED vars
      BY <2>7 DEF Done, vars, CleanupInv, ResultInv, LeavesNoPod
    <2> QED
      BY <2>1, <2>2, <2>3, <2>4, <2>5, <2>6, <2>7 DEF Next, Command
  <1> QED
    BY <1>1, <1>2, TypeCorrect, PTL DEF Spec

\* With --rm no way out of RunInteractivePod after the client was obtained
\* leaves the pod behind, unless the Delete call failed.
THEOREM NoPodLeft == Spec => []LeavesNoPod
  <1>1. CleanupInv => LeavesNoPod
    BY DEF CleanupInv
  <1> QED
    BY <1>1, CleanupInvariant, PTL

\* The exit status is that of the session whatever became of the cleanup.
THEOREM ExitStatus == Spec => []ResultIsOutcome
  <1>1. ResultInv => ResultIsOutcome
    BY DEF ResultInv, ResultIsOutcome
  <1> QED
    BY <1>1, CleanupInvariant, PTL
=============================================================================
