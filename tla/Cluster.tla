------------------------------ MODULE Cluster ------------------------------
(***************************************************************************)
(* The lowered program running on the cluster: each core walks its         *)
(* function, the streamer sets, the units' control (GroupRun, AccShell)    *)
(* and the DMA run beside them.  The hardware of the cluster is modelled   *)
(* from how lower/c.py uses it: a start launches what the registers hold   *)
(* and is held while its component is busy; the DMA queues its transfers   *)
(* and runs them in order; a barrier lets every core go or none.           *)
(***************************************************************************)
EXTENDS Lowering

CONSTANT QueueDepth   \* the transfers the DMA queues (dma_req_fifo_depth)

ASSUME QueueAssumption == QueueDepth \in Nat \ {0}

VARIABLES
  running,  \* whether the cores run the program
  pc,       \* per core its next instruction
  regs,     \* per component, the task whose values its registers hold
  active,   \* the streamer and unit tasks under way
  queue,    \* the DMA's transfers, the first under way
  ended,    \* the tasks that are over
  counter,  \* per unit, the task its COUNTER counts
  stored    \* the counters read: the task they are stored for, and the one counted

clusterVars == <<running, pc, regs, active, queue, ended, counter, stored>>

Busy(c) == \E t \in active : t.comp = c
SetBusy(a) == \E m \in MoversOf(a) : Busy(m)
Launched == active \cup ToSet(queue) \cup ended

Over(k) == pc[k] > Len(lines[k])
At(k) == lines[k][pc[k]]
Step(k, op) == running /\ ~Over(k) /\ At(k).op = op /\ pc' = [pc EXCEPT ![k] = @ + 1]
Set(f, c, t) == [x \in DOMAIN f \cup {c} |-> IF x = c THEN t ELSE f[x]]

DoConfig(k) ==
  /\ Step(k, "config")
  /\ regs' = Set(regs, At(k).arg.comp, At(k).arg)
  /\ UNCHANGED <<running, active, queue, ended, counter, stored>>

(* One CSR starts every mover of the set; an idle one has nothing to move. *)
DoStreamers(k) ==
  /\ Step(k, "streamers")
  /\ ~SetBusy(At(k).arg)
  /\ active' = active \cup {t \in {regs[m] : m \in MoversOf(At(k).arg) \cap DOMAIN regs} : ~t.idle}
  /\ UNCHANGED <<running, regs, queue, ended, counter, stored>>

DoStart(k) ==
  LET t == regs[At(k).arg]
  IN /\ Step(k, "start")
     /\ ~Busy(t.comp)
     /\ active' = active \cup {t}
     /\ counter' = Set(counter, t.comp, t)
     /\ UNCHANGED <<running, regs, queue, ended, stored>>

DoDma(k) ==
  /\ Step(k, "dma")
  /\ Len(queue) < QueueDepth
  /\ queue' = Append(queue, At(k).arg)
  /\ UNCHANGED <<running, regs, active, ended, counter, stored>>

DoPoll(k) ==
  /\ \/ Step(k, "status") /\ ~Busy(At(k).arg)
     \/ Step(k, "busy") /\ ~SetBusy(At(k).arg)
     \/ Step(k, "dma_wait") /\ queue = <<>>
  /\ UNCHANGED <<running, regs, active, queue, ended, counter, stored>>

DoCounter(k) ==
  LET t == At(k).arg
  IN /\ Step(k, "counter")
     /\ stored' = stored \cup {[task |-> t, counted |-> counter[t.comp], over |-> ~Busy(t.comp)]}
     /\ UNCHANGED <<running, regs, active, queue, ended, counter>>

DoBarrier ==
  /\ running
  /\ \A k \in Cores : ~Over(k) /\ At(k) = Barrier
  /\ pc' = [k \in Cores |-> pc[k] + 1]
  /\ UNCHANGED <<running, regs, active, queue, ended, counter, stored>>

Do(k) == DoConfig(k) \/ DoStreamers(k) \/ DoStart(k) \/ DoDma(k) \/ DoPoll(k) \/ DoCounter(k)

(* A task ends.  A writer ends after the unit started with it: its last    *)
(* beat is the unit's last result.  One started without its unit may end   *)
(* at any time, which is more than the hardware does.                      *)
FedBy(t) == {a \in Started : a.comp = Unit(t.comp[1]) /\ StepOf(a) = StepOf(t)}
EndTask(t) ==
  /\ t \in active
  /\ t.comp \in Writers(t.comp[1]) => FedBy(t) \subseteq ended
  /\ active' = active \ {t}
  /\ ended' = ended \cup {t}
  /\ UNCHANGED <<running, pc, regs, queue, counter, stored>>

EndDma ==
  /\ queue # <<>>
  /\ queue' = Tail(queue)
  /\ ended' = ended \cup {Head(queue)}
  /\ UNCHANGED <<running, pc, regs, active, counter, stored>>

(* The list is at its end: the program is written, main calls each core's  *)
(* function; or the list is refused.                                       *)
Run ==
  /\ ~running /\ ~refused /\ steps = <<>>
  /\ running' = ~Unfinished /\ refused' = Unfinished
  /\ UNCHANGED <<listVars, covered, waited, lines, steps>>
  /\ UNCHANGED <<pc, regs, active, queue, ended, counter, stored>>

ClusterInit ==
  /\ running = FALSE
  /\ pc = [k \in Cores |-> 1]
  /\ regs = <<>> /\ counter = <<>>
  /\ active = {} /\ queue = <<>> /\ ended = {} /\ stored = {}

Quiet == active = {} /\ queue = <<>>

(* The cores go on, every task that was started ends.                      *)
Returned == running /\ \A k \in Cores : Over(k)

----------------------------------------------------------------------------
(* The program keeps what `after' says: a task is launched only when every *)
(* task it names is over, on whichever core each of them was started.      *)
AfterHonoured ==
  \A t \in Launched : \A a \in conf[t] : a.idle \/ a \in ended

(* ... at least where both were started on one core.                       *)
AfterOnCore ==
  \A t \in Launched : \A a \in conf[t] :
    CoreOf(a.comp) = CoreOf(t.comp) => a.idle \/ a \in ended

(* A start never meets a busy component: it launches exactly its own       *)
(* tasks, from registers no later configure has written, and is not held.  *)
StartsFindIdle ==
  running => \A k \in Cores : ~Over(k) =>
    /\ At(k).op = "streamers" => ~SetBusy(At(k).arg)
    /\ At(k).op = "start" => ~Busy(At(k).arg)

(* Every core passes the same barriers: no core waits at one for ever, and *)
(* main returns.                                                           *)
Returns == running ~> Returned
=============================================================================
