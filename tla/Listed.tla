------------------------------- MODULE Listed -------------------------------
(***************************************************************************)
(* A task list written by hand (snax_forge/lower/tasks.py), lowered and    *)
(* run: any configures, starts and syncs in any order, one after the       *)
(* other.  TaskList.check and c.py refuse the list at the first step that  *)
(* breaks a rule, or at its end; one they accept runs.                     *)
(***************************************************************************)
EXTENDS Cluster

CONSTANTS
  Designs,               \* the design points
  NextSteps(_, _, _, _)  \* bound: the steps a list may go on with, from its design point,
                         \* its length so far, `conf' and `starts'

ASSUME ListedAssumption ==
  \A D \in Designs : Design(D) /\ D.dma \in Cores

VARIABLES made, closed   \* the steps so far; whether the list is whole

listedVars == <<listVars, programVars, clusterVars, made, closed>>

(* A step as step_from_dict makes it: the temporal bounds of a streamer's  *)
(* task may all be 0, and it is idle; a start names its tasks in order.    *)
IsStep(x) ==
  \/ x.op = "configure" /\ (x.task.idle => IsMover(x.task.comp))
  \/ x.op = "start" /\ x.tasks \in Seq(Configured)
  \/ x.op = "sync"

Made == steps = <<>> /\ ~closed /\ ~refused

Add(x) ==
  /\ Made /\ IsStep(x)
  /\ steps' = <<x>> /\ made' = made + 1
  /\ UNCHANGED closed

Close == Made /\ closed' = TRUE /\ UNCHANGED <<steps, made>>

Write ==
  /\ (\E x \in NextSteps(design, made, conf, starts) : Add(x)) \/ Close
  /\ UNCHANGED <<listVars, covered, waited, lines, refused, clusterVars>>

ListedLower == Lower /\ UNCHANGED <<clusterVars, made, closed>>
ListedRun == closed /\ Run /\ UNCHANGED <<made, closed>>

ListedOff == UNCHANGED <<listVars, programVars, made, closed>>
ListedCores(k) == Do(k) /\ ListedOff
ListedBarrier == DoBarrier /\ ListedOff
ListedDma == EndDma /\ ListedOff
ListedEnd == (\E t \in active : EndTask(t)) /\ ListedOff
ListedStopped == (refused \/ (Returned /\ Quiet)) /\ UNCHANGED listedVars

ListedInit ==
  /\ \E D \in Designs : LowerInit(D)
  /\ ClusterInit
  /\ made = 0 /\ closed = FALSE

ListedNext ==
  \/ Write \/ ListedLower \/ ListedRun
  \/ \E k \in Cores : ListedCores(k)
  \/ ListedBarrier \/ ListedDma \/ ListedEnd \/ ListedStopped

ListedFairness ==
  /\ \A k \in Cores : WF_listedVars(ListedCores(k))
  /\ WF_listedVars(ListedBarrier) /\ WF_listedVars(ListedDma) /\ WF_listedVars(ListedEnd)
ListedSpec == ListedInit /\ [][ListedNext]_listedVars /\ ListedFairness
=============================================================================
