----------------------------- MODULE GroupRule -----------------------------
(***************************************************************************)
(* The control rule of a group of the generated accelerator                *)
(* (hw/chisel/src/main/scala/snax/forge/ctrl/GroupRule.scala): one clock   *)
(* cycle is one step.  A group is a chain of units 1..n, unit 1 its head   *)
(* and unit n its sink; a link joins each unit k < n to unit k + 1, a wire *)
(* (depth 0) or a buffer of depth >= 1 beats.                              *)
(*                                                                         *)
(* A unit takes one beat of its every input per firing (at span > 1 the    *)
(* beat is read lane by lane and the last lane fires), at most one firing  *)
(* per ii cycles, gives a result on every T-th firing, and the result      *)
(* leaves a pipeline of `latency' stages.  The combinational signals of a  *)
(* cycle are the functions `offer' and `fire' that solve the equations of  *)
(* the two passes; everything else is a register.                          *)
(***************************************************************************)
EXTENDS Integers, FiniteSets

CONSTANTS
  Descs,     \* the group descriptions of the design
  Width,     \* the bits of JOBS, JOB_BEATS and every counter (job_width)
  JobsSet,   \* the values of JOBS a start may carry
  TSet       \* the values of a JOB_BEATS a start may carry

Mod == 2^Width

(* A description: `latency', `ii' and `span' of each unit; fixedT[k] the T *)
(* of unit k when the design fixes it, 0 when a start sets it; outer[k]    *)
(* whether unit k reads outer ports; depth[k] the link from k to k + 1.    *)
Description(D) ==
  /\ D.n \in Nat \ {0}
  /\ D.latency \in [1 .. D.n -> Nat]
  /\ D.ii \in [1 .. D.n -> Nat \ {0}]
  /\ D.span \in [1 .. D.n -> Nat \ {0}]
  /\ D.fixedT \in [1 .. D.n -> 0 .. Mod - 1]
  /\ D.outer \in [1 .. D.n -> BOOLEAN]
  /\ D.outer[1]
  /\ D.depth \in [1 .. D.n - 1 -> Nat]

ASSUME WidthAssumption == Width \in Nat /\ Mod \in Nat /\ Mod >= 2
ASSUME DescsAssumption == \A D \in Descs : Description(D)
ASSUME StartAssumption == JobsSet \subseteq 1 .. Mod - 1 /\ TSet \subseteq 1 .. Mod - 1

VARIABLES
  desc,                \* the description the module was elaborated from
  busy, jobs, ts,      \* the run: JOBS and each unit's T
  d, digits, g,        \* per unit: beat counter, mixed-radix digits, jobs digit
  gap, v, lane,        \* per unit: the II gap, the full pipeline stages, the lane
  occupancy, wslot, rslot,  \* per link: a buffer's fill and its ring pointers
  valid,               \* the environment: unit k's outer ports all hold a beat
  fired, given, pushed \* history of the run: firings, giving firings, results pushed

config == <<desc, jobs, ts>>
counters == <<d, digits, g>>
units == <<gap, v, lane>>
links == <<occupancy, wslot, rslot>>
history == <<fired, given, pushed>>
vars == <<desc, busy, jobs, ts, counters, units, links, valid, history>>

Units == 1 .. desc.n
Links == 1 .. desc.n - 1
Sink == desc.n
Wire(k) == k \in Links /\ desc.depth[k] = 0
Buffer(k) == k \in Links /\ desc.depth[k] > 0

(* A unit at latency 0 with a wire out keeps no count and borrows its      *)
(* consumer's test; Counts(k) is the unit whose jobs digit decides for k.  *)
BorrowsOnWire(k) == Wire(k) \* a mutant
Borrows(k) == desc.latency[k] = 0 /\ Wire(k)
Counts(k) ==
  CHOOSE j \in k .. desc.n : ~Borrows(j) /\ \A i \in k .. j - 1 : Borrows(i)

(* Whether unit k has results left to give. *)
Left(k) == g[Counts(k)] # jobs

----------------------------------------------------------------------------
(* The forward pass: what each unit offers, whatever its room.             *)

Avail(o, k) ==
  /\ valid[k]
  /\ k > 1 => IF Wire(k - 1) THEN o[k - 1] ELSE occupancy[k - 1] # 0
Wants(k) == busy /\ Left(k) /\ gap[k] = 0
WouldFire(o, k) == Wants(k) /\ Avail(o, k) /\ lane[k] = desc.span[k] - 1
Gives(o, k) == WouldFire(o, k) /\ d[k] = ts[k] - 1
PipeHead(k) == desc.latency[k] \in v[k]

Forward(o) ==
  \A k \in Units :
    o[k] = IF desc.latency[k] > 0 THEN PipeHead(k) ELSE Gives(o, k)

(* The backward pass: each unit's room, whether it is frozen, its firing.  *)

RoomOverfull(f, ready, k) == \* mutants: off by one, its own firing for its consumer's
  CASE k = Sink  -> ready
    [] Wire(k)   -> f[k + 1]
    [] Buffer(k) -> occupancy[k] <= desc.depth[k] \/ f[k + 1]
RoomOwn(f, ready, k) ==
  CASE k = Sink  -> ready
    [] Wire(k)   -> f[k]
    [] Buffer(k) -> occupancy[k] < desc.depth[k] \/ f[k + 1]
Room(f, ready, k) ==
  CASE k = Sink  -> ready
    [] Wire(k)   -> f[k + 1]
    [] Buffer(k) -> occupancy[k] < desc.depth[k] \/ f[k + 1]
FrozenHead(o, f, ready, k) == PipeHead(k) /\ ~Room(f, ready, k) \* a mutant
Frozen(o, f, ready, k) == o[k] /\ ~Room(f, ready, k)
Give(o, f, ready, k) == o[k] /\ Room(f, ready, k)
Read(o, f, ready, k) == Wants(k) /\ Avail(o, k) /\ ~Frozen(o, f, ready, k)

Backward(o, f, ready) ==
  \A k \in Units : f[k] = (WouldFire(o, k) /\ ~Frozen(o, f, ready, k))

Signals == [Units -> BOOLEAN]

(* The sink's last push: what it gave, this cycle's giving firing included *)
(* at latency 0, makes JOBS, and nothing is left below its pipeline's head.*)
DoneInFlight(o, f, ready) == \* mutants: the pipeline unread, the last firing uncounted
  busy /\ Give(o, f, ready, Sink)
    /\ (g[Sink] + (IF desc.latency[Sink] = 0 /\ Gives(o, Sink) THEN 1 ELSE 0)) % Mod = jobs
DoneUncounted(o, f, ready) ==
  busy /\ Give(o, f, ready, Sink) /\ g[Sink] = jobs /\ v[Sink] \subseteq {desc.latency[Sink]}
Done(o, f, ready) ==
  /\ busy /\ Give(o, f, ready, Sink)
  /\ (g[Sink] + (IF desc.latency[Sink] = 0 /\ Gives(o, Sink) THEN 1 ELSE 0)) % Mod = jobs
  /\ v[Sink] \subseteq {desc.latency[Sink]}

----------------------------------------------------------------------------
(* The registers after a cycle.                                            *)

Pipelines(o, f, ready) ==
  /\ gap' = [k \in Units |->
       IF f[k] /\ desc.ii[k] > 1 THEN desc.ii[k] - 1
       ELSE IF gap[k] # 0 THEN gap[k] - 1 ELSE 0]
  /\ v' = [k \in Units |->
       IF desc.latency[k] = 0 \/ Frozen(o, f, ready, k) THEN v[k]
       ELSE {i + 1 : i \in v[k] \ {desc.latency[k]}}
            \cup {i \in {1} : f[k] /\ Gives(o, k)}]

AroundLate(slot, k) == IF slot[k] = desc.depth[k] THEN 0 ELSE slot[k] + 1 \* a mutant
Around(slot, k) == IF slot[k] = desc.depth[k] - 1 THEN 0 ELSE slot[k] + 1

Buffers(o, f, ready) ==
  LET load(k) == Buffer(k) /\ Give(o, f, ready, k)
      take(k) == Buffer(k) /\ f[k + 1]
  IN /\ occupancy' = [k \in Links |->
          occupancy[k] + (IF load(k) THEN 1 ELSE 0) - (IF take(k) THEN 1 ELSE 0)]
     /\ wslot' = [k \in Links |-> IF load(k) THEN Around(wslot, k) ELSE wslot[k]]
     /\ rslot' = [k \in Links |-> IF take(k) THEN Around(rslot, k) ELSE rslot[k]]

(* A giving firing counts in mixed radix: the digits of the units after it,*)
(* nearest first, wrap at their T and carry, the last into the jobs digit. *)
Carries(k, j) == \A i \in k + 1 .. j - 1 : digits[k][i] = ts[i] - 1

Counters(o, f, ready) ==
  LET gives(k) == f[k] /\ Gives(o, k)
  IN /\ d' = [k \in Units |->
          IF gives(k) THEN 0 ELSE IF f[k] THEN (d[k] + 1) % Mod ELSE d[k]]
     /\ digits' = [k \in Units |-> [j \in Units |->
          IF ~gives(k) \/ Borrows(k) \/ j <= k \/ ~Carries(k, j) THEN digits[k][j]
          ELSE IF digits[k][j] = ts[j] - 1 THEN 0 ELSE (digits[k][j] + 1) % Mod]]
     /\ g' = [k \in Units |->
          IF gives(k) /\ ~Borrows(k) /\ Carries(k, desc.n + 1)
            THEN (g[k] + 1) % Mod ELSE g[k]]
     /\ lane' = [k \in Units |->
          IF f[k] THEN 0 ELSE IF Read(o, f, ready, k) THEN lane[k] + 1 ELSE lane[k]]

(* The streamers drive the outer ports: a beat shown is held until taken.  *)
Ports(f) ==
  \E nv \in Signals :
    /\ \A k \in Units : (desc.outer[k] => valid[k] /\ ~f[k]) => nv[k]
    /\ valid' = nv

History(o, f, ready) ==
  /\ fired' = [k \in Units |-> fired[k] + IF f[k] THEN 1 ELSE 0]
  /\ given' = [k \in Units |-> given[k] + IF f[k] /\ Gives(o, k) THEN 1 ELSE 0]
  /\ pushed' = [k \in Units |-> pushed[k] + IF Give(o, f, ready, k) THEN 1 ELSE 0]

(* What the two passes settle on.                                          *)
Offers == {o \in Signals : Forward(o)}
Fires(o, ready) == {f \in Signals : Backward(o, f, ready)}

(* A cycle without a start.                                                *)
Cycle(o, f, ready) ==
  /\ Pipelines(o, f, ready)
  /\ Buffers(o, f, ready)
  /\ Counters(o, f, ready)
  /\ busy' = (busy /\ ~Done(o, f, ready))
  /\ Ports(f)
  /\ History(o, f, ready)
  /\ UNCHANGED config

(* A start that runs, JOBS and each open unit's T: GroupCtrl raises it only *)
(* while the rule is idle and nothing of it is 0.  It clears the counters;  *)
(* the II gap, the pipelines and the buffers go on as in any cycle.         *)
Open == {k \in Units : desc.fixedT[k] = 0}

Start(o, f, ready, j, t) ==
  /\ ~busy
  /\ busy' = TRUE
  /\ jobs' = j
  /\ ts' = [k \in Units |-> IF k \in Open THEN t[k] ELSE desc.fixedT[k]]
  /\ d' = [k \in Units |-> 0]
  /\ digits' = [k \in Units |-> [i \in Units |-> 0]]
  /\ g' = [k \in Units |-> 0]
  /\ lane' = [k \in Units |-> 0]
  /\ Pipelines(o, f, ready)
  /\ Buffers(o, f, ready)
  /\ Ports(f)
  /\ fired' = [k \in Units |-> 0]
  /\ given' = [k \in Units |-> 0]
  /\ pushed' = [k \in Units |-> 0]
  /\ UNCHANGED desc

Init ==
  /\ desc \in Descs
  /\ busy = FALSE
  /\ jobs = 0
  /\ ts = [k \in Units |-> IF k \in Open THEN 1 ELSE desc.fixedT[k]]
  /\ d = [k \in Units |-> 0]
  /\ digits = [k \in Units |-> [j \in Units |-> 0]]
  /\ g = [k \in Units |-> 0]
  /\ gap = [k \in Units |-> 0]
  /\ v = [k \in Units |-> {}]
  /\ lane = [k \in Units |-> 0]
  /\ occupancy = [k \in Links |-> 0]
  /\ wslot = [k \in Links |-> 0]
  /\ rslot = [k \in Links |-> 0]
  /\ valid \in {nv \in Signals : \A k \in Units : ~desc.outer[k] => nv[k]}
  /\ fired = [k \in Units |-> 0]
  /\ given = [k \in Units |-> 0]
  /\ pushed = [k \in Units |-> 0]

Tick(ready) == \E o \in Offers : \E f \in Fires(o, ready) : Cycle(o, f, ready)
Begin(ready, j, t) ==
  \E o \in Offers : \E f \in Fires(o, ready) : Start(o, f, ready, j, t)

Next ==
  \E ready \in BOOLEAN :
    \/ Tick(ready)
    \/ \E j \in JobsSet : \E t \in [Open -> TSet] : Begin(ready, j, t)
Spec == Init /\ [][Next]_vars

----------------------------------------------------------------------------
(* Every register is inside its width: beat counters and digits below      *)
(* their unit's T, fills within their buffer.                              *)
TypeOK ==
  /\ desc \in Descs /\ busy \in BOOLEAN /\ jobs \in 0 .. Mod - 1
  /\ ts \in [Units -> 0 .. Mod - 1]
  /\ d \in [Units -> 0 .. Mod - 1]
  /\ digits \in [Units -> [Units -> 0 .. Mod - 1]]
  /\ g \in [Units -> 0 .. Mod - 1]
  /\ gap \in [Units -> Nat] /\ \A k \in Units : gap[k] < desc.ii[k]
  /\ v \in [Units -> SUBSET Nat] /\ \A k \in Units : v[k] \subseteq 1 .. desc.latency[k]
  /\ lane \in [Units -> Nat] /\ \A k \in Units : lane[k] < desc.span[k]
  /\ occupancy \in [Links -> Nat] /\ wslot \in [Links -> Nat] /\ rslot \in [Links -> Nat]
  /\ \A k \in Links : occupancy[k] <= desc.depth[k]
  /\ valid \in Signals
  /\ fired \in [Units -> Nat] /\ given \in [Units -> Nat] /\ pushed \in [Units -> Nat]

(* A ring's pointers stay its fill apart, so a full buffer is never told   *)
(* for an empty one and no slot is written while it holds a beat.          *)
RingInv ==
  \A k \in Links : Buffer(k) =>
    /\ wslot[k] < desc.depth[k] /\ rslot[k] < desc.depth[k]
    /\ LET end == rslot[k] + occupancy[k]
       IN wslot[k] = IF end < desc.depth[k] THEN end ELSE end - desc.depth[k]

(* The two passes have exactly one solution in every state: the rule's     *)
(* combinational signals form no loop.                                     *)
WiresDetermined ==
  /\ Cardinality(Offers) = 1
  /\ \A ready \in BOOLEAN, o \in Offers : Cardinality(Fires(o, ready)) = 1

(* SnaxGroupRule's count R_k of the results unit k gives in the run.       *)
Results[k \in Units] == IF k = Sink THEN jobs ELSE Results[k + 1] * ts[k + 1]

(* The nested counters and the borrowed tests decide as the counts do:     *)
(* a unit wants to fire while it has given fewer than R_k results, though  *)
(* R_k itself may be beyond the counters' width.                           *)
LeftIsCount == busy => \A k \in Units : Left(k) <=> given[k] # Results[k]

(* Nothing is lost or made on the way: every result a unit gave is in its  *)
(* pipeline or pushed; every result it pushed is in its buffer or taken by *)
(* its consumer; a unit's firings are T to the result.                     *)
Conserved ==
  busy => /\ \A k \in Units : /\ given[k] = pushed[k] + Cardinality(v[k])
                              /\ fired[k] = given[k] * ts[k] + d[k]
          /\ \A k \in Links : pushed[k] = fired[k + 1] + occupancy[k]

(* SnaxGroupRule's finished(): every unit has fired all it had to and      *)
(* nothing is left in a pipeline or a buffer.                              *)
Finished ==
  /\ \A k \in Units : fired[k] = Results[k] * ts[k] /\ v[k] = {}
  /\ \A k \in Links : occupancy[k] = 0

(* A run ends in the cycle its last work ends, neither a cycle early, with *)
(* a beat under way, nor late: `done' needs no count of the pushes.        *)
DoneIsFinished == [][busy => (~busy' <=> Finished')]_vars

(* A run never waits for what will not come: in every cycle that offers    *)
(* each unit its outer beats and takes the result, something moves: a      *)
(* firing, a lane read, a beat through a pipeline or out of it, a gap.     *)
(* All of these are bounded in a run, so a fed and drained run ends.       *)
NeverStuck ==
  busy /\ (\A k \in Units : valid[k]) =>
    \A o \in Offers : \A f \in Fires(o, TRUE) : \E k \in Units :
      \/ f[k] \/ Read(o, f, TRUE, k) \/ gap[k] # 0
      \/ v[k] # {} /\ ~Frozen(o, f, TRUE, k)

(* The rule implements a run as its users know it: JOBS results, then idle.*)
Run == INSTANCE GroupRun
         WITH running <- busy, left <- IF busy THEN jobs - pushed[Sink] ELSE 0
GroupRunSpec == Run!Spec
=============================================================================
