----------------------------- MODULE GroupData -----------------------------
(***************************************************************************)
(* The datapaths of a group under its control rule: what each enable does  *)
(* to the registers of the catalogue's blocks (datapath/TreeAccumulate,    *)
(* SerialAccumulate, Mac, ElementwiseLanes, LinkBuffer .scala), wired as   *)
(* shell/AccDatapath.scala wires them.                                     *)
(*                                                                         *)
(* A beat stands for what it was computed from: <<lo, hi>> is the fold of  *)
(* the head's beats lo to hi of the run.  Adding what does not continue a  *)
(* fold makes Corrupt.                                                     *)
(***************************************************************************)
EXTENDS GroupRule

VARIABLES
  acc,     \* per unit at latency 1 its register: <<lo, hi, lanes of the last beat read>>
  slots,   \* per link the buffer's slots
  result   \* the last beat pushed into the outer output

Corrupt == <<0, 0>>
dataVars == <<acc, slots, result>>

(* The catalogue: a combinational block has no fold; a register is one     *)
(* stage.                                                                  *)
Catalogued(D) ==
  \A k \in 1 .. D.n : \/ D.latency[k] = 0 /\ D.fixedT[k] = 1 /\ D.span[k] = 1
                      \/ D.latency[k] = 1

(* Unit k's output: its register's fold when every lane of its last beat   *)
(* is in, or at latency 0 what stands at its input.  That input is the     *)
(* head's beat, the producer's output over a wire, or a buffer's rslot.    *)
Held(k) == IF acc[k][3] = desc.span[k] THEN <<acc[k][1], acc[k][2]>> ELSE Corrupt
Input(out, k) ==
  CASE k = 1 -> <<fired[1] + 1, fired[1] + 1>>
    [] k > 1 /\ Wire(k - 1) -> out[k - 1]
    [] k > 1 /\ Buffer(k - 1) -> slots[k - 1][rslot[k - 1]]
Out[k \in Units] == IF desc.latency[k] > 0 THEN Held(k) ELSE Input(Out, k)

(* A firing folds its beat: the job's first (`first') restarts the         *)
(* register, any other must continue its fold.                             *)
BeatFold(k) ==
  LET b == Input(Out, k)
  IN CASE d[k] = 0 -> <<b[1], b[2], 1>>
       [] d[k] # 0 /\ Held(k) # Corrupt /\ acc[k][2] + 1 = b[1] -> <<acc[k][1], b[2], 1>>
       [] OTHER -> <<0, 0, 1>>

(* At span > 1 a read folds one lane of the beat: the job's first lane     *)
(* restarts the register, a beat's first lane must continue its fold and   *)
(* any other be the next of the same beat.                                 *)
LaneFoldFirst(k) == \* a mutant: `first' restarts at every lane
  LET b == Input(Out, k)
  IN IF d[k] = 0 THEN <<b[1], b[2], 1>> ELSE <<acc[k][1], b[2], lane[k] + 1>>
LaneFold(k) ==
  LET b == Input(Out, k)
      n == lane[k]
      continues == IF n = 0 THEN Held(k) # Corrupt /\ acc[k][2] + 1 = b[1]
                            ELSE acc[k][3] = n /\ acc[k][2] = b[2]
  IN CASE d[k] = 0 /\ n = 0 -> <<b[1], b[2], 1>>
       [] ~(d[k] = 0 /\ n = 0) /\ continues -> <<acc[k][1], b[2], n + 1>>
       [] OTHER -> <<0, 0, n + 1>>

Datapath(o, f, ready) ==
  /\ acc' = [k \in Units |->
       CASE desc.latency[k] > 0 /\ desc.span[k] = 1 /\ f[k] -> BeatFold(k)
         [] desc.latency[k] > 0 /\ desc.span[k] > 1 /\ Read(o, f, ready, k) -> LaneFold(k)
         [] OTHER -> acc[k]]
  /\ slots' = [k \in Links |->
       IF Buffer(k) /\ Give(o, f, ready, k)
         THEN [slots[k] EXCEPT ![wslot[k]] = Out[k]] ELSE slots[k]]
  /\ result' = IF Give(o, f, ready, Sink) THEN Out[Sink] ELSE result

DataInit ==
  /\ Init
  /\ acc = [k \in Units |-> <<0, 0, desc.span[k]>>]
  /\ slots = [k \in Links |-> [s \in 0 .. desc.depth[k] - 1 |-> Corrupt]]
  /\ result = Corrupt

(* Other blocks than the catalogue's run under the rule without their data. *)
Data(o, f, ready) == IF Catalogued(desc) THEN Datapath(o, f, ready) ELSE UNCHANGED dataVars

DataTick(ready) ==
  \E o \in Offers : \E f \in Fires(o, ready) :
    Cycle(o, f, ready) /\ Data(o, f, ready)

DataBegin(ready, j, t) ==
  \E o \in Offers : \E f \in Fires(o, ready) :
    Start(o, f, ready, j, t) /\ Data(o, f, ready)

DataNext ==
  \E ready \in BOOLEAN :
    \/ DataTick(ready)
    \/ \E j \in JobsSet : \E t \in [Open -> TSet] : DataBegin(ready, j, t)

DataSpec == DataInit /\ [][DataNext]_<<vars, dataVars>>

----------------------------------------------------------------------------
(* Result r of a run is the fold of exactly its own beats: of the head's   *)
(* beats, those of job r, in order, none missing, none taken twice and     *)
(* none of another job, whatever the stalls on the way.                    *)
PerJob == (Results[1] * ts[1]) \div jobs
ResultsAreJobs ==
  [][LET r == pushed'[Sink]
     IN Catalogued(desc) /\ r > pushed[Sink] => result' = <<(r - 1) * PerJob + 1, r * PerJob>>]_<<vars, dataVars>>
=============================================================================
