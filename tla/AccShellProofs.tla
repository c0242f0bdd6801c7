-------------------------- MODULE AccShellProofs --------------------------
(* What holds of the accelerator's interface for every set of groups and   *)
(* every width of its CSRs.                                                *)
EXTENDS AccShell, TLAPS

(* Results are owed exactly while a group runs (GroupRun's TypeOK).        *)
OwesWhileRunning == \A h \in Groups : running[h] <=> left[h] > 0

ShellInv == TypeOK /\ OwesWhileRunning /\ StatusExact /\ CounterExact /\ ReadsAnswered

LEMMA ShellInit == Init => ShellInv
<1> SUFFICES ASSUME Init PROVE ShellInv
  OBVIOUS
<1>1. JobMax \in Nat /\ CounterMax \in Nat \ {0} /\ MaxCycles \in Nat
  BY ShellAssumption
<1>2. TypeOK
  <2>1. req \in Requests \cup {None} /\ kept \in BOOLEAN /\ answer \in Nat /\ owed \in Nat /\ due \in Nat
    BY DEF Init
  <2>2. 0 \in 0 .. JobMax /\ 0 \in 0 .. CounterMax /\ 0 \in 0 .. MaxCycles
    BY <1>1
  <2>3. QED BY <2>1, <2>2 DEF Init, TypeOK
<1>3. OwesWhileRunning /\ StatusExact /\ ReadsAnswered
  BY DEF Init, OwesWhileRunning, StatusExact, ReadsAnswered
<1>4. CounterExact
  BY <1>1 DEF Init, CounterExact
<1>5. QED BY <1>2, <1>3, <1>4 DEF ShellInv

(* A request's values are inside the CSRs' widths.                         *)
LEMMA RequestsTyped ==
  ASSUME TypeOK
  PROVE  req.op = "write" /\ req.csr \in {"JOBS", "JOB_BEATS"}
           => req.group \in Groups /\ req.data \in 0 .. JobMax
<1>1. Long \subseteq Groups /\ Folds \subseteq Groups /\ Written \subseteq 0 .. JobMax
  BY ShellAssumption
<1>2. req \in Requests \cup {None}
  BY DEF TypeOK
<1>3. CASE req \in [op : {"write"}, csr : {"JOBS"}, group : Long, data : Written]
  BY <1>1, <1>3
<1>4. CASE req \in [op : {"write"}, csr : {"JOBS"}, group : Groups, data : Written \cap {0, 1}]
  BY <1>1, <1>4
<1>5. CASE req \in [op : {"write"}, csr : {"JOB_BEATS"}, group : Folds, data : Written \cap {0, 1}]
  BY <1>1, <1>5
<1>6. QED BY <1>2, <1>3, <1>4, <1>5 DEF Requests, None

LEMMA CycleTyped ==
  ASSUME ShellInv, NEW pushes \in SUBSET Busy, NEW rspReady \in BOOLEAN,
         Cycle(pushes, rspReady)
  PROVE  /\ running' \in [Groups -> BOOLEAN] /\ left' \in [Groups -> 0 .. JobMax]
         /\ done' \in [Groups -> BOOLEAN] /\ counter' \in [Groups -> 0 .. CounterMax]
         /\ OwesWhileRunning'
<1>1. /\ JobMax \in Nat /\ CounterMax \in Nat /\ pushes \subseteq Groups
      /\ \A h \in pushes : running[h]
      /\ left \in [Groups -> 0 .. JobMax] /\ JOBS \in [Groups -> 0 .. JobMax]
      /\ counter \in [Groups -> 0 .. CounterMax] /\ running \in [Groups -> BOOLEAN]
      /\ \A h \in Groups : running[h] <=> left[h] > 0
  BY ShellAssumption DEF ShellInv, TypeOK, Busy, OwesWhileRunning
<1>2. /\ left' = [h \in Groups |->
                  IF h \in pushes THEN left[h] - 1
                  ELSE IF Accepted(h) /\ ~Empty(h) THEN JOBS[h] ELSE left[h]]
      /\ running' = [h \in Groups |->
                  IF h \in pushes THEN left[h] > 1 ELSE running[h] \/ (Accepted(h) /\ ~Empty(h))]
  BY DEF Cycle, Runs
<1>21. \A h \in Groups : left'[h] \in 0 .. JobMax
  <2> SUFFICES ASSUME NEW h \in Groups PROVE left'[h] \in 0 .. JobMax
    OBVIOUS
  <2>1. left[h] \in 0 .. JobMax /\ JOBS[h] \in 0 .. JobMax /\ (h \in pushes => left[h] > 0)
    BY <1>1
  <2>2. QED BY <1>1, <1>2, <2>1
<1>22. left' \in [Groups -> 0 .. JobMax]
  BY <1>2, <1>21
<1>3. running' \in [Groups -> BOOLEAN]
  <2>1. \A h \in Groups : (left[h] > 1) \in BOOLEAN /\ running[h] \in BOOLEAN
    BY <1>1
  <2>2. QED BY <1>2, <2>1
<1>4. done' \in [Groups -> BOOLEAN]
  BY DEF Cycle, Registers, Counted
<1>5. counter' \in [Groups -> 0 .. CounterMax]
  BY <1>1 DEF Cycle, Registers, Counted
<1>6. \A h \in Groups : ~Empty(h) => JOBS[h] > 0
  BY <1>1 DEF Empty
<1>7. OwesWhileRunning'
  <2> SUFFICES ASSUME NEW h \in Groups PROVE running'[h] <=> left'[h] > 0
    BY DEF OwesWhileRunning
  <2>1. left[h] \in Nat /\ JOBS[h] \in Nat /\ (running[h] <=> left[h] > 0)
    BY <1>1
  <2>2. CASE h \in pushes
    <3>1. running'[h] = (left[h] > 1) /\ left'[h] = left[h] - 1
      BY <1>2, <2>2
    <3>2. (left[h] > 1) <=> (left[h] - 1 > 0)
      BY <2>1
    <3>3. QED BY <3>1, <3>2, Zenon
  <2>3. CASE h \notin pushes /\ Accepted(h) /\ ~Empty(h)
    <3>1. running'[h] = TRUE /\ left'[h] = JOBS[h]
      BY <1>2, <2>3
    <3>2. QED BY <1>6, <2>3, <3>1
  <2>4. CASE h \notin pushes /\ ~(Accepted(h) /\ ~Empty(h))
    <3>1. left'[h] = left[h] /\ (running'[h] <=> running[h])
      BY <1>2, <2>4
    <3>2. QED BY <2>1, <3>1, Zenon
  <2>5. QED BY <2>2, <2>3, <2>4
<1>8. QED BY <1>22, <1>3, <1>4, <1>5, <1>7

(* A START is taken only of an idle group.                                 *)
LEMMA AcceptedIdle == \A h \in Groups : Accepted(h) => ~running[h]
BY DEF Accepted, ReqFire, ReqReady

LEMMA StatusStep ==
  ASSUME ShellInv, NEW pushes \in SUBSET Busy, NEW rspReady \in BOOLEAN,
         Cycle(pushes, rspReady)
  PROVE  StatusExact'
<1> SUFFICES ASSUME NEW h \in Groups, started'[h] PROVE done'[h] <=> ~running'[h]
  BY DEF StatusExact
<1>1. /\ running'[h] = IF h \in pushes THEN left[h] > 1
                        ELSE running[h] \/ (Accepted(h) /\ ~Empty(h))
      /\ done'[h] = (Pulse(h, pushes) \/ (done[h] /\ ~Accepted(h)))
      /\ started'[h] = (started[h] \/ Accepted(h))
  BY DEF Cycle, Runs, Registers, Counted, History
<1>2. /\ h \in pushes => running[h]
      /\ left[h] \in Nat /\ (running[h] <=> left[h] > 0)
      /\ started[h] => (done[h] <=> ~running[h])
  BY DEF ShellInv, TypeOK, Busy, OwesWhileRunning, StatusExact
<1>3. CASE h \in pushes
  <2>1. running'[h] = (left[h] > 1)
    BY <1>1, <1>3
  <2>2. running[h] /\ ~Accepted(h)
    BY <1>2, <1>3, AcceptedIdle
  <2>3. (left[h] = 1) <=> ~(left[h] > 1)
    BY <1>2, <2>2
  <2>4. Pulse(h, pushes) <=> left[h] = 1
    BY <1>3, <2>2 DEF Pulse
  <2>5. QED BY <1>1, <1>2, <2>1, <2>2, <2>3, <2>4, Zenon
<1>4. CASE h \notin pushes
  <2>1. Pulse(h, pushes) <=> (Accepted(h) /\ Empty(h))
    BY <1>4 DEF Pulse
  <2>2. running'[h] <=> (running[h] \/ (Accepted(h) /\ ~Empty(h)))
    BY <1>1, <1>4
  <2>3. Accepted(h) => ~running[h]
    BY AcceptedIdle
  <2>4. QED BY <1>1, <1>2, <2>1, <2>2, <2>3, Zenon
<1>5. QED BY <1>3, <1>4

LEMMA CounterStep ==
  ASSUME ShellInv, NEW pushes \in SUBSET Busy, NEW rspReady \in BOOLEAN,
         Cycle(pushes, rspReady)
  PROVE  CounterExact' /\ cycles' \in [Groups -> 0 .. MaxCycles]
<1>1. /\ CounterMax \in Nat /\ MaxCycles \in Nat /\ MaxCycles > CounterMax
      /\ cycles \in [Groups -> 0 .. MaxCycles]
      /\ counter \in [Groups -> 0 .. CounterMax]
  BY ShellAssumption DEF ShellInv, TypeOK
<1>2. /\ counter' = [h \in Groups |->
            IF Accepted(h) THEN 0
            ELSE IF running[h] /\ counter[h] # CounterMax THEN counter[h] + 1 ELSE counter[h]]
      /\ cycles' = [h \in Groups |->
            IF Accepted(h) THEN 0
            ELSE IF running[h] /\ cycles[h] < MaxCycles THEN cycles[h] + 1 ELSE cycles[h]]
  BY DEF Cycle, Registers, Counted, History
<1>3. ASSUME NEW h \in Groups
      PROVE  /\ cycles'[h] \in 0 .. MaxCycles
             /\ counter'[h] = IF cycles'[h] > CounterMax THEN CounterMax ELSE cycles'[h]
  <2>1. /\ cycles[h] \in 0 .. MaxCycles
        /\ counter[h] = IF cycles[h] > CounterMax THEN CounterMax ELSE cycles[h]
    BY <1>1 DEF ShellInv, CounterExact
  <2>2. CASE Accepted(h)
    BY <1>1, <1>2, <2>2
  <2>3. CASE ~Accepted(h) /\ running[h]
    BY <1>1, <1>2, <2>1, <2>3
  <2>4. CASE ~Accepted(h) /\ ~running[h]
    BY <1>1, <1>2, <2>1, <2>4
  <2>5. QED BY <2>2, <2>3, <2>4
<1>4. QED BY <1>2, <1>3 DEF CounterExact

LEMMA ReadStep ==
  ASSUME ShellInv, NEW pushes \in SUBSET Busy, NEW rspReady \in BOOLEAN,
         Cycle(pushes, rspReady)
  PROVE  ReadsAnswered' /\ owed' \in Nat /\ kept' \in BOOLEAN
<1> DEFINE taken == IF Reading THEN 1 ELSE 0
           gone == IF (Reading \/ kept) /\ rspReady THEN 1 ELSE 0
<1>1. owed' = owed + taken - gone
  BY DEF Cycle, History
<1>2. kept' = ((Reading \/ kept) /\ ~rspReady)
  BY DEF Cycle, Respond
<1>3. Reading => ~kept
  BY DEF Reading, ReqFire, ReqReady
<1>4. (owed = IF kept THEN 1 ELSE 0) /\ (kept => answer = due)
  BY DEF ShellInv, ReadsAnswered
<1>41. /\ due' = IF owed' = 0 THEN 0 ELSE IF Reading THEN Value(req.csr, req.group) ELSE due
       /\ answer' = IF Reading THEN Value(req.csr, req.group) ELSE IF kept THEN answer ELSE 0
  BY DEF Cycle, History, Respond
<1>5. owed + taken = (IF Reading \/ kept THEN 1 ELSE 0) /\ owed \in Int /\ taken \in Int
  BY <1>3, <1>4
<1>6. gone \in Int
  OBVIOUS
<1>7. CASE (Reading \/ kept) /\ ~rspReady
  <2>1. owed + taken = 1 /\ gone = 0
    BY <1>5, <1>7
  <2> HIDE DEF taken, gone
  <2>2. owed' = 1
    BY <1>1, <1>5, <1>6, <2>1
  <2>3. kept' = TRUE
    BY <1>2, <1>7, Zenon
  <2>4. answer' = due'
    BY <1>4, <1>41, <1>7, <2>2
  <2>5. QED BY <2>2, <2>3, <2>4 DEF ReadsAnswered
<1>8. CASE ~((Reading \/ kept) /\ ~rspReady)
  <2>1. owed + taken = gone
    BY <1>5, <1>8
  <2> HIDE DEF taken, gone
  <2>2. owed' = 0
    BY <1>1, <1>5, <1>6, <2>1
  <2>3. kept' = FALSE
    BY <1>2, <1>8, Zenon
  <2>4. QED BY <2>2, <2>3 DEF ReadsAnswered
<1>9. QED BY <1>7, <1>8

LEMMA RegistersTyped ==
  ASSUME ShellInv, NEW pushes \in SUBSET Busy, NEW rspReady \in BOOLEAN,
         Cycle(pushes, rspReady)
  PROVE  /\ req' \in Requests \cup {None} /\ answer' \in Nat /\ due' \in Nat
         /\ JOBS' \in [Groups -> 0 .. JobMax] /\ BEATS' \in [Groups -> 0 .. JobMax]
         /\ started' \in [Groups -> BOOLEAN]
<1>1. /\ req \in Requests \cup {None} /\ answer \in Nat /\ due \in Nat
      /\ JOBS \in [Groups -> 0 .. JobMax] /\ BEATS \in [Groups -> 0 .. JobMax]
      /\ counter \in [Groups -> 0 .. CounterMax] /\ JobMax \in Nat /\ CounterMax \in Nat
  BY ShellAssumption DEF ShellInv, TypeOK
<1>2. req' \in Requests \cup {None}
  BY <1>1 DEF Cycle
<1>3. JOBS' \in [Groups -> 0 .. JobMax] /\ BEATS' \in [Groups -> 0 .. JobMax]
  <2>1. CASE ReqFire /\ req.op = "write" /\ req.csr \in {"JOBS", "JOB_BEATS"}
    <3>1. req.group \in Groups /\ req.data \in 0 .. JobMax
      BY <2>1, RequestsTyped DEF ShellInv
    <3>2. /\ JOBS' = IF req.csr = "JOBS" THEN [JOBS EXCEPT ![req.group] = req.data] ELSE JOBS
          /\ BEATS' = IF req.csr = "JOB_BEATS" THEN [BEATS EXCEPT ![req.group] = req.data] ELSE BEATS
      BY <2>1 DEF Cycle, Registers, Counted
    <3>3. QED BY <1>1, <3>1, <3>2
  <2>2. CASE ~(ReqFire /\ req.op = "write" /\ req.csr \in {"JOBS", "JOB_BEATS"})
    BY <1>1, <2>2 DEF Cycle, Registers, Counted, csrs
  <2>3. QED BY <2>1, <2>2
<1>4. answer' \in Nat /\ due' \in Nat
  <2>1. ASSUME Reading PROVE Value(req.csr, req.group) \in Nat
    <3>1. /\ req.group \in Groups
          /\ req.csr \in {"JOBS", "JOB_BEATS", "STATUS", "COUNTER"}
      BY <1>1, <2>1, ShellAssumption DEF Reading, ReqFire, Requests, None
    <3>2. /\ JOBS[req.group] \in Nat /\ BEATS[req.group] \in Nat /\ counter[req.group] \in Nat
      BY <1>1, <3>1
    <3>3. (IF done[req.group] THEN 2 ELSE 0) + (IF running[req.group] THEN 1 ELSE 0) \in Nat
      OBVIOUS
    <3>4. QED BY <3>1, <3>2, <3>3 DEF Value
  <2>2. answer' = IF Reading THEN Value(req.csr, req.group) ELSE IF kept THEN answer ELSE 0
    BY DEF Cycle, Respond
  <2>3. due' = IF owed' = 0 THEN 0 ELSE IF Reading THEN Value(req.csr, req.group) ELSE due
    BY DEF Cycle, History
  <2>4. QED BY <1>1, <2>1, <2>2, <2>3
<1>5. started' \in [Groups -> BOOLEAN]
  BY DEF Cycle, History
<1>6. QED BY <1>2, <1>3, <1>4, <1>5

LEMMA ShellStep == ShellInv /\ [Next]_vars => ShellInv'
<1> SUFFICES ASSUME ShellInv, [Next]_vars PROVE ShellInv'
  OBVIOUS
<1>1. ASSUME NEW pushes \in SUBSET Busy, NEW rspReady \in BOOLEAN, Cycle(pushes, rspReady)
      PROVE  ShellInv'
  <2>1. TypeOK' /\ OwesWhileRunning'
    BY <1>1, CycleTyped, CounterStep, ReadStep, RegistersTyped DEF TypeOK
  <2>2. StatusExact' /\ CounterExact' /\ ReadsAnswered'
    BY <1>1, StatusStep, CounterStep, ReadStep
  <2>3. QED BY <2>1, <2>2 DEF ShellInv
<1>2. CASE UNCHANGED vars
  BY <1>2 DEF vars, csrs, ShellInv, TypeOK, OwesWhileRunning, StatusExact, CounterExact,
              ReadsAnswered
<1>3. QED BY <1>1, <1>2 DEF Next

LEMMA ShellAlways == Spec => []ShellInv
BY ShellInit, ShellStep, PTL DEF Spec

(* From its first start on STATUS says exactly one of busy and done, for   *)
(* every number of groups and every interleaving of their runs.            *)
THEOREM StatusAlwaysExact == Spec => []StatusExact
<1>1. ShellInv => StatusExact
  BY DEF ShellInv
<1>2. QED BY <1>1, ShellAlways, PTL

(* COUNTER is the run's busy cycles, saturating at its width.              *)
THEOREM CounterAlwaysExact == Spec => []CounterExact
<1>1. ShellInv => CounterExact
  BY DEF ShellInv
<1>2. QED BY <1>1, ShellAlways, PTL

(* Every read is answered exactly once, with what its CSR held when it was *)
(* taken, however long the answer waits.                                   *)
THEOREM ReadsAlwaysAnswered == Spec => []ReadsAnswered
<1>1. ShellInv => ReadsAnswered
  BY DEF ShellInv
<1>2. QED BY <1>1, ShellAlways, PTL

THEOREM ShellTyped == Spec => []TypeOK
<1>1. ShellInv => TypeOK
  BY DEF ShellInv
<1>2. QED BY <1>1, ShellAlways, PTL

(* What a cycle does to a group's run: a push delivers a result, a start   *)
(* that is not empty asks for the JOBS that stand, and nothing else        *)
(* touches it.                                                             *)
LEMMA RunSteps ==
  ASSUME ShellInv, NEW pushes \in SUBSET Busy, NEW rspReady \in BOOLEAN,
         Cycle(pushes, rspReady), NEW h \in Groups
  PROVE  [Group(h)!Push \/ AskedStart(h)]_<<running[h], left[h]>>
<1>1. /\ left[h] \in Nat /\ JOBS[h] \in 0 .. JobMax /\ running[h] \in BOOLEAN
      /\ running[h] <=> left[h] > 0
      /\ h \in pushes => running[h]
      /\ JobMax \in Nat
  BY ShellAssumption DEF ShellInv, TypeOK, OwesWhileRunning, Busy
<1>2. /\ left'[h] = IF h \in pushes THEN left[h] - 1
                    ELSE IF Accepted(h) /\ ~Empty(h) THEN JOBS[h] ELSE left[h]
      /\ running'[h] = IF h \in pushes THEN left[h] > 1
                       ELSE running[h] \/ (Accepted(h) /\ ~Empty(h))
  BY DEF Cycle, Runs
<1>3. CASE h \in pushes
  <2>1. running[h] /\ left'[h] = left[h] - 1 /\ running'[h] = (left[h] > 1)
    BY <1>1, <1>2, <1>3
  <2>2. (left[h] > 1) = (left[h] - 1 # 0)
    BY <1>1, <2>1
  <2>3. Group(h)!Push
    BY <2>1, <2>2 DEF Group!Push
  <2>4. QED BY <2>3
<1>4. CASE h \notin pushes /\ Accepted(h) /\ ~Empty(h)
  <2>1. ~running[h] /\ running'[h] = TRUE /\ left'[h] = JOBS[h]
    BY <1>2, <1>4, AcceptedIdle
  <2>2. JOBS[h] # 0 /\ (h \in Folds => BEATS[h] # 0)
    BY <1>4 DEF Empty
  <2>3. Group(h)!Start(JOBS[h])
    BY <2>1 DEF Group!Start
  <2>4. QED BY <1>4, <2>2, <2>3 DEF AskedStart
<1>5. CASE h \notin pushes /\ ~(Accepted(h) /\ ~Empty(h))
  <2>1. left'[h] = left[h] /\ running'[h] = running[h]
    BY <1>1, <1>2, <1>5
  <2>2. QED BY <2>1
<1>6. QED BY <1>3, <1>4, <1>5

(* Every group runs as GroupRun says, for every number of groups and every *)
(* width: a run begins only by a START accepted in that cycle, idle and    *)
(* with nothing it asks for 0, owes the JOBS of that cycle, and no write   *)
(* to a CSR moves it before its last result.                               *)
THEOREM GroupsRunAsAsked == Spec => RunsAsAsked
<1>1. Init => \A h \in Groups : Group(h)!Init
  BY DEF Init, Group!Init
<1>2. ShellInv /\ [Next]_vars
        => [\A h \in Groups : [Group(h)!Push \/ AskedStart(h)]_<<running[h], left[h]>>]_vars
  BY RunSteps DEF Next
<1>3. QED BY <1>1, <1>2, ShellAlways, PTL DEF Spec, RunsAsAsked
=============================================================================
