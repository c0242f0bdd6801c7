------------------------------ MODULE AccShell ------------------------------
(***************************************************************************)
(* The generated accelerator's interface: its CSR manager                  *)
(* (shell/AccCsr.scala) and, per group, the control unit's start, busy and *)
(* done (ctrl/GroupCtrl.scala) over a run as GroupRun describes it.  One   *)
(* clock cycle is one step.  The host holds one request until it is taken; *)
(* a START of a busy group is held, its request not ready; a read is       *)
(* answered in the cycle it is taken and the answer kept until it leaves.  *)
(***************************************************************************)
EXTENDS Integers, FiniteSets

CONSTANTS
  Groups,       \* the accelerator's groups
  Folds,        \* those with a JOB_BEATS; the others start with beats 1
  JobWidth,     \* the bits of JOBS and JOB_BEATS
  Long,         \* bound: the groups given runs of several jobs
  Written,      \* bound: the values the host writes to JOBS and JOB_BEATS
  CounterWidth, \* the bits of COUNTER
  MaxCycles     \* bound on the history's count of a run's busy cycles

JobMax == 2^JobWidth - 1
CounterMax == 2^CounterWidth - 1

ASSUME ShellAssumption ==
  /\ Folds \subseteq Groups
  /\ JobWidth \in Nat /\ JobMax \in Nat \ {0}
  /\ Long \subseteq Groups /\ Written \subseteq 0 .. JobMax
  /\ CounterWidth \in Nat /\ CounterMax \in Nat \ {0}
  /\ MaxCycles \in Nat /\ MaxCycles > CounterMax

VARIABLES
  req,            \* the host's request, or None
  JOBS, BEATS,    \* per group, its read-write CSRs
  done, counter,  \* per group, STATUS's sticky bit and COUNTER
  kept, answer,   \* whether an answer waits for the host, and it
  running, left,  \* per group its run: busy, the results it still owes
  owed, due,      \* history: the reads taken whose answer has not left, the value of the last
  started, cycles \* history: per group, a start was accepted; busy cycles since

csrs == <<JOBS, BEATS>>
vars == <<req, csrs, done, counter, kept, answer, running, left, owed, due, started, cycles>>

Group(h) == INSTANCE GroupRun WITH
  JobsSet <- 1 .. JobMax, running <- running[h], left <- left[h]

None == [op |-> "none"]
Requests ==
  [op : {"write"}, csr : {"START"}, group : Groups, data : {0, 1}]
  \cup [op : {"write"}, csr : {"JOBS"}, group : Long, data : Written]
  \cup [op : {"write"}, csr : {"JOBS"}, group : Groups, data : Written \cap {0, 1}]
  \cup [op : {"write"}, csr : {"JOB_BEATS"}, group : Folds, data : Written \cap {0, 1}]
  \cup [op : {"read"}, csr : {"JOBS", "STATUS", "COUNTER"}, group : Groups]
  \cup [op : {"read"}, csr : {"JOB_BEATS"}, group : Folds]

(* The value a read gives in this cycle.                                   *)
Value(csr, h) ==
  CASE csr = "JOBS"      -> JOBS[h]
    [] csr = "JOB_BEATS" -> BEATS[h]
    [] csr = "STATUS"    -> (IF done[h] THEN 2 ELSE 0) + (IF running[h] THEN 1 ELSE 0)
    [] csr = "COUNTER"   -> counter[h]

(* The request is a START of group h; it is held while h is busy.          *)
Hit(h) == req.op = "write" /\ req.csr = "START" /\ req.group = h /\ req.data = 1
ReqReadyDone == \* a mutant: held until STATUS is read
  ~kept /\ \A h \in Groups : ~(Hit(h) /\ (running[h] \/ done[h]))
ReqReady == ~kept /\ \A h \in Groups : ~(Hit(h) /\ running[h])
ReqFire == req # None /\ ReqReady
Accepted(h) == ReqFire /\ Hit(h)
Empty(h) == JOBS[h] = 0 \/ (h \in Folds /\ BEATS[h] = 0)
Reading == ReqFire /\ req.op = "read"

PulseRun(h, pushes) == h \in pushes /\ left[h] = 1 \* a mutant
(* The done pulse: the run's last push, or an empty run's accept.          *)
Pulse(h, pushes) == (h \in pushes /\ left[h] = 1) \/ (Accepted(h) /\ Empty(h))

CountedOn(h) == \* a mutant: not cleared by a start
  IF running[h] /\ counter[h] # CounterMax THEN counter[h] + 1 ELSE counter[h]
Counted(h) ==
  IF Accepted(h) THEN 0
  ELSE IF running[h] /\ counter[h] # CounterMax THEN counter[h] + 1 ELSE counter[h]

(* STATUS and COUNTER: a done set wins over the accept's clear; the count  *)
(* of busy cycles starts again at an accept and saturates.                 *)
Registers(pushes) ==
  /\ IF ReqFire /\ req.op = "write" /\ req.csr \in {"JOBS", "JOB_BEATS"}
       THEN /\ JOBS' = IF req.csr = "JOBS" THEN [JOBS EXCEPT ![req.group] = req.data] ELSE JOBS
            /\ BEATS' = IF req.csr = "JOB_BEATS" THEN [BEATS EXCEPT ![req.group] = req.data] ELSE BEATS
       ELSE UNCHANGED csrs
  /\ done' = [h \in Groups |-> Pulse(h, pushes) \/ (done[h] /\ ~Accepted(h))]
  /\ counter' = [h \in Groups |-> Counted(h)]

RunsLive(pushes) == \* a mutant: a JOBS written meanwhile moves the run's end
  /\ running' = [h \in Groups |->
       IF h \in pushes THEN left[h] > 1 ELSE running[h] \/ (Accepted(h) /\ ~Empty(h))]
  /\ left' = [h \in Groups |->
       IF h \in pushes THEN left[h] - 1
       ELSE IF Accepted(h) /\ ~Empty(h) THEN JOBS[h]
       ELSE IF running[h] /\ ReqFire /\ req.op = "write" /\ req.csr = "JOBS" /\ req.group = h
                /\ req.data # 0 THEN req.data ELSE left[h]]
(* A run begins in the accept's cycle unless it is empty, and goes on by   *)
(* the pushes of the cycle.                                                *)
Runs(pushes) ==
  /\ running' = [h \in Groups |->
       IF h \in pushes THEN left[h] > 1 ELSE running[h] \/ (Accepted(h) /\ ~Empty(h))]
  /\ left' = [h \in Groups |->
       IF h \in pushes THEN left[h] - 1
       ELSE IF Accepted(h) /\ ~Empty(h) THEN JOBS[h] ELSE left[h]]

RespondOnce(rspReady) == \* a mutant: keeps the CSR read, not the answer
  LET valid == Reading \/ kept
  IN kept' = (valid /\ ~rspReady) /\ answer' = IF Reading THEN Value(req.csr, req.group) ELSE 0
(* The response: the answer of this cycle's read, or the one kept.         *)
Respond(rspReady) ==
  LET valid == Reading \/ kept
      data == IF Reading THEN Value(req.csr, req.group) ELSE IF kept THEN answer ELSE 0
  IN kept' = (valid /\ ~rspReady) /\ answer' = data

History(rspReady) ==
  /\ owed' = owed + (IF Reading THEN 1 ELSE 0)
                   - (IF (Reading \/ kept) /\ rspReady THEN 1 ELSE 0)
  /\ due' = IF owed' = 0 THEN 0 ELSE IF Reading THEN Value(req.csr, req.group) ELSE due
  /\ started' = [h \in Groups |-> started[h] \/ Accepted(h)]
  /\ cycles' = [h \in Groups |->
       IF Accepted(h) THEN 0
       ELSE IF running[h] /\ cycles[h] < MaxCycles THEN cycles[h] + 1 ELSE cycles[h]]

Cycle(pushes, rspReady) ==
  /\ Respond(rspReady)
  /\ Runs(pushes)
  /\ Registers(pushes)
  /\ History(rspReady)
  /\ \/ (req = None \/ ReqFire) /\ req' \in Requests \cup {None}
     \/ req # None /\ ~ReqFire /\ UNCHANGED req

Init ==
  /\ req = None
  /\ JOBS = [h \in Groups |-> 0] /\ BEATS = [h \in Groups |-> 0]
  /\ done = [h \in Groups |-> FALSE] /\ counter = [h \in Groups |-> 0]
  /\ kept = FALSE /\ answer = 0
  /\ running = [h \in Groups |-> FALSE] /\ left = [h \in Groups |-> 0]
  /\ owed = 0 /\ due = 0
  /\ started = [h \in Groups |-> FALSE] /\ cycles = [h \in Groups |-> 0]

Busy == {h \in Groups : running[h]}
Next == \E pushes \in SUBSET Busy, rspReady \in BOOLEAN : Cycle(pushes, rspReady)
Spec == Init /\ [][Next]_vars

(* The clock ticks, the host keeps taking answers and every run goes on.   *)
Fairness ==
  /\ WF_vars(\E pushes \in SUBSET Busy : Cycle(pushes, TRUE))
  /\ \A h \in Groups : WF_vars(\E pushes \in SUBSET Busy, rspReady \in BOOLEAN :
                                h \in pushes /\ Cycle(pushes, rspReady))
LiveSpec == Spec /\ Fairness

----------------------------------------------------------------------------
(* Every register is inside its width and at most one answer waits.        *)
TypeOK ==
  /\ req \in Requests \cup {None}
  /\ JOBS \in [Groups -> 0 .. JobMax] /\ BEATS \in [Groups -> 0 .. JobMax]
  /\ done \in [Groups -> BOOLEAN] /\ counter \in [Groups -> 0 .. CounterMax]
  /\ kept \in BOOLEAN /\ answer \in Nat /\ owed \in Nat /\ due \in Nat
  /\ running \in [Groups -> BOOLEAN] /\ left \in [Groups -> 0 .. JobMax]
  /\ started \in [Groups -> BOOLEAN] /\ cycles \in [Groups -> 0 .. MaxCycles]

(* From its first start on a group's STATUS says exactly one of busy and   *)
(* done, in every cycle: a host that polls it can neither see a run end    *)
(* before it began nor miss the end of one, the empty run's included.      *)
StatusExact == \A h \in Groups : started[h] => (done[h] <=> ~running[h])

(* COUNTER is the busy cycles since the last accepted start, up to its     *)
(* width: it saturates, and an empty run leaves it 0.                      *)
CounterExact ==
  \A h \in Groups :
    counter[h] = IF cycles[h] > CounterMax THEN CounterMax ELSE cycles[h]

(* Every read is answered once, with what its CSR held in the cycle it was *)
(* taken: no other read is taken before the answer leaves, and one that    *)
(* waits is the same however long it waits and whatever the CSRs become.   *)
ReadsAnswered == owed = (IF kept THEN 1 ELSE 0) /\ (kept => answer = due)

(* Each group runs as GroupRun says, with the JOBS of its own start: a run *)
(* begins in a cycle that accepts a START of the group, idle, with nothing *)
(* it asks for 0; it owes the JOBS of that cycle; and until it has given   *)
(* them only its results move it, whatever the host writes to the CSRs.    *)
AskedStart(h) ==
  Accepted(h) /\ JOBS[h] # 0 /\ (h \in Folds => BEATS[h] # 0) /\ Group(h)!Start(JOBS[h])
RunsAsAsked ==
  /\ \A h \in Groups : Group(h)!Init
  /\ [][\A h \in Groups : [Group(h)!Push \/ AskedStart(h)]_<<running[h], left[h]>>]_vars

(* A request is taken in the end: a held START when its group's run ends,  *)
(* and with it every request behind it, for any group.                     *)
RequestsTaken == (req # None) ~> ReqFire
=============================================================================
