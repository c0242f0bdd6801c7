------------------------------ MODULE GroupRun ------------------------------
(***************************************************************************)
(* A run of an accelerator's group as the rest of the system sees it: a    *)
(* start that runs asks for JOBS results; each is pushed into the outer    *)
(* output; the last push ends the run.  GroupRule implements it.           *)
(***************************************************************************)
EXTENDS Naturals

CONSTANT JobsSet   \* the values of JOBS a start that runs may carry

VARIABLES running, left

Init == running = FALSE /\ left = 0

(* A start carries what its config holds (GroupRule); the shell's is the   *)
(* JOBS that stands when it accepts the START (AccShell's AskedStart).     *)
Start(jobs) == ~running /\ running' = TRUE /\ left' = jobs

Push ==
  /\ running
  /\ left' = left - 1
  /\ running' = (left' # 0)

Next == Push \/ \E jobs \in JobsSet : Start(jobs)

Spec == Init /\ [][Next]_<<running, left>>

(* Results are owed exactly while the group runs.                          *)
TypeOK == running \in BOOLEAN /\ left \in Nat /\ (running <=> left > 0)
=============================================================================
