------------------------------ MODULE Dataflow ------------------------------
(***************************************************************************)
(* A dataflow graph and the reference executor (snax_forge/dfg/graph.py,   *)
(* dfg/execute.py, dfg/pad.py, brm/function.py).                           *)
(*                                                                         *)
(* A graph's tree is flat: `nodes' is its leaves in execution order, each  *)
(* with the maps it is in, outermost first; `maps' is what is known of a   *)
(* map.  A map's variable is written as the map's id, which keeps the      *)
(* renamings out: the code's fresh names never meet.  Symbols are bound.   *)
(*                                                                         *)
(*   map    begin, count, kind: 0 untagged, "temporal" or "spatial" (as    *)
(*          sets), split, reduce, fused: what made it, each {} or a record *)
(*   leaf   "tasklet": op over its inputs, its output folding or not       *)
(*          "unit": brm, W, instance, group, accelerator, what it replaced *)
(*          "link": the container it carries, from and to                  *)
(*   memlet data, sub: a dimension is c + SUM co[v] * v, an index when len *)
(*          is 0, else len elements from there, step apart                 *)
(***************************************************************************)
EXTENDS Integers, FiniteSets, FiniteSetsExt, Functions, SequencesExt, TLC

NoSplit == {}
Map(begin, count) ==
  [begin |-> begin, count |-> count, kind |-> {}, split |-> NoSplit, reduce |-> {}, fused |-> {}]
Index(c, co) == [c |-> c, co |-> co, len |-> 0, step |-> 1]
Memlet(data, sub) == [data |-> data, sub |-> sub]
Tasklet(id, path, op, in, out, fold) ==
  [id |-> id, kind |-> "tasklet", path |-> path, op |-> op, in |-> in, out |-> out, fold |-> fold]

(* The integer types: two's complement of a width.                         *)
Wrap(x, bits) == ((x + 2 ^ (bits - 1)) % (2 ^ bits)) - 2 ^ (bits - 1)

IsMap(g, id) == id \in DOMAIN g.maps
Tailed(g, m) == \E s \in g.maps[m].split : s.valid # {}
Valid(g, m) == CHOOSE n \in (CHOOSE s \in g.maps[m].split : TRUE).valid : TRUE
Memlets(n) == IF n.kind = "link" THEN {} ELSE ToSet(n.in) \cup {n.out}
Vars(m) == UNION {DOMAIN m.sub[d].co : d \in DOMAIN m.sub}
Tagged(g, m, kind) == kind \in g.maps[m].kind

(* The children of the map at the end of a path, or of the graph.          *)
Kids(g, path) ==
  LET mine == SelectSeq(g.nodes, LAMBDA n : IsPrefix(path, n.path))
      kid(n) == IF n.path = path THEN n.id ELSE n.path[Len(path) + 1]
      ids == [i \in DOMAIN mine |-> kid(mine[i])]
      first == SelectSeq([i \in DOMAIN ids |-> i], LAMBDA i : i = 1 \/ ids[i] # ids[i - 1])
  IN [k \in DOMAIN first |-> ids[first[k]]]
Inside(g, m) == {i \in DOMAIN g.nodes : m \in ToSet(g.nodes[i].path)}
Leaf(g, id) == CHOOSE i \in DOMAIN g.nodes : g.nodes[i].id = id
PathTo(g, m) == \* a map's path, the map included
  LET p == g.nodes[CHOOSE i \in Inside(g, m) : TRUE].path
  IN SubSeq(p, 1, CHOOSE k \in DOMAIN p : p[k] = m)

(* An iteration is what each enclosing variable holds; Points is all of    *)
(* them in order, the last map innermost.                                  *)
Points(g, path) ==
  FoldLeft(LAMBDA es, m :
      FlattenSeq([i \in DOMAIN es |->
        [k \in 1 .. g.maps[m].count |-> es[i] @@ (m :> g.maps[m].begin + (k - 1))]]),
    << <<>> >>, path)
At(d, e) == d.c + MapThenSumSet(LAMBDA v : d.co[v] * e[v], DOMAIN d.co)
Lanes(m) == LET r == {d \in DOMAIN m.sub : m.sub[d].len > 0}
            IN IF r = {} THEN 1 ELSE m.sub[CHOOSE d \in r : TRUE].len
Elem(m, e, lane) ==
  [d \in DOMAIN m.sub |->
     At(m.sub[d], e) + (IF m.sub[d].len = 0 THEN 0 ELSE lane * m.sub[d].step)]
InShape(at, shape) == \A d \in DOMAIN shape : at[d] \in 0 .. shape[d] - 1

-----------------------------------------------------------------------------
(* Tails.  split_factor: a tailed map's only child when that is a map,     *)
(* else its spatial map's count, else the lanes a unit's range moves by.   *)
SplitFactors(g, m) == \* {} for a tail that is not over whole lanes
  LET path == PathTo(g, m)
      kids == Kids(g, path)
      maps == SelectSeq(kids, LAMBDA k : IsMap(g, k) /\ (Len(kids) = 1 \/ Tagged(g, k, "spatial")))
      subs == UNION {UNION {ToSet(x.sub) : x \in Memlets(n)} : n \in {n \in ToSet(g.nodes) : n.path = path}}
  IN IF maps # <<>> THEN {g.maps[maps[1]].count}
     ELSE {d.co[m] \div d.step : d \in {d \in subs : d.len > 0 /\ m \in DOMAIN d.co}}
SplitFactor(g, m) == CHOOSE f \in SplitFactors(g, m) : TRUE

Users(g, c) == {i \in DOMAIN g.nodes : \E x \in Memlets(g.nodes[i]) : x.data = c}
RoundUp(n, w) == w * ((n + w - 1) \div w)
PaddedShape(g, c) ==
  LET shape == g.conts[c].shape
      up(d) == {RoundUp(shape[d], SplitFactor(g, m)) :
                  m \in {m \in DOMAIN g.maps : /\ Tailed(g, m)
                           /\ \E i \in Users(g, c) : /\ m \in ToSet(g.nodes[i].path)
                                \* in: the dimension is over the tailed map's variable
                                /\ \E x \in Memlets(g.nodes[i]) :
                                     x.data = c /\ m \in DOMAIN x.sub[d].co}}
  IN [d \in DOMAIN shape |-> Max({shape[d]} \cup up(d))]

(* pad_value: the identity of the fold that reads a container, else 0.     *)
Identity(op, bits) == IF op = "max" THEN -(2 ^ (bits - 1)) ELSE 0
Folds(n) ==
  IF n.kind = "tasklet" THEN n.fold
  ELSE LET ops == UNION {t.fold : t \in ToSet(n.replaced.tasks)}
       IN IF Cardinality(ops) = 1 THEN ops ELSE {}
PadValues(g, c) ==
  {Identity(CHOOSE op \in Folds(g.nodes[i]) : TRUE, g.conts[c].bits) :
     i \in {i \in Users(g, c) : /\ \E x \in ToSet(g.nodes[i].in) : x.data = c
                                /\ Folds(g.nodes[i]) # {}}}
PadValue(g, c) == IF PadValues(g, c) = {} THEN 0 ELSE CHOOSE v \in PadValues(g, c) : TRUE

-----------------------------------------------------------------------------
(* A leaf reads all it reads, then writes; data is each container's cells. *)
(* What an execution raises makes its result {}, else {data}.              *)
Bits(g, x) == g.conts[x.data].bits
Apply(op, vals, bits) ==
  CASE op = "mul" -> Wrap(vals[1] * vals[2], bits)
    [] op = "add" -> Wrap(vals[1] + vals[2], bits)
    [] op = "max" -> Max({vals[1], vals[2]})
    [] op = "copy" -> vals[1]
InBits(g, n) == Max({Bits(g, n.in[k]) : k \in DOMAIN n.in})
Fold(op, vals, bits) == FoldLeft(LAMBDA x, y : Apply(op, <<x, y>>, bits), Identity(op, bits), vals)

(* _tasklet_lanes: the lanes of the kernel's own iterations.               *)
OwnLane(g, path, e) ==
  \A i \in 1 .. Len(path) - 1 :
    Tailed(g, path[i]) =>
      g.maps[path[i + 1]].count * e[path[i]] + e[path[i + 1]] < Valid(g, path[i])

InTail(g, path) == \E i \in 1 .. Len(path) - 1 : Tailed(g, path[i])
(* A memlet stays in its container, a pad lane in its padding.             *)
TaskletFits(g, x, path, points, padded) ==
  \A e \in ToSet(points) :
    InShape(Elem(x, e, 0), IF OwnLane(g, path, e) THEN g.conts[x.data].shape ELSE padded)
TaskletValue(g, n, e, data) ==
  Wrap(Apply(n.op, [k \in DOMAIN n.in |-> data[n.in[k].data][Elem(n.in[k], e, 0)]], InBits(g, n)),
       Bits(g, n.out))
TaskletCell(g, n, own, data) == \* the iterations that write one cell, folded
  IF n.fold = {} THEN TaskletValue(g, n, own[1], data)
  ELSE Fold(CHOOSE op \in n.fold : TRUE,
            [k \in DOMAIN own |-> TaskletValue(g, n, own[k], data)], Bits(g, n.out))
TaskletWrites(g, n, own, data) ==
  LET cells == {Elem(n.out, e, 0) : e \in ToSet(own)}
  IN IF n.fold = {} /\ Cardinality(cells) # Len(own) THEN {} \* a write conflict
     ELSE {[data EXCEPT ![n.out.data] =
              [c \in cells |->
                 TaskletCell(g, n, SelectSeq(own, LAMBDA e : Elem(n.out, e, 0) = c), data)] @@ @]}
RunTasklet(g, n, data) ==
  LET points == Points(g, n.path)
  IN IF \E x \in Memlets(n) : ~ TaskletFits(g, x, n.path, points, PaddedShape(g, x.data)) THEN {}
     ELSE TaskletWrites(g, n, SelectSeq(points, LAMBDA e : OwnLane(g, n.path, e)), data)

(* named_rates: a beat folds the innermost loops its memlet does not use.  *)
Rated(brm) == brm \in {"accumulate", "mac"}
FoldsFrom(loops, x) == \* how many outer loops the beat is over
  Max({0} \cup {k \in DOMAIN loops : loops[k] \in Vars(x)})
RateHolds(loops, x) == \A k \in 1 .. FoldsFrom(loops, x) : loops[k] \in Vars(x)
Rate(g, loops, x) ==
  FoldLeft(LAMBDA t, m : t * g.maps[m].count, 1,
           SubSeq(loops, FoldsFrom(loops, x) + 1, Len(loops)))

(* check_dtypes: an output at least as wide as every input.                *)
WideEnough(g, in, out) == \A k \in DOMAIN in : Bits(g, out) >= Bits(g, in[k])

(* The firings of a unit: its task's loops are the innermost temporal maps.*)
TaskLoops(g, path) ==
  LET k == Max({0} \cup {k \in DOMAIN path : ~ Tagged(g, path[k], "temporal")})
  IN SubSeq(path, k + 1, Len(path))
BeatLane(g, n, x, e, lane) == \* _beat_indices: is the lane the kernel's
  \A d \in DOMAIN x.sub : x.sub[d].len > 0 =>
    \A m \in ToSet(TaskLoops(g, n.path)) \cap DOMAIN x.sub[d].co :
      Tailed(g, m) => (x.sub[d].co[m] \div x.sub[d].step) * e[m] + lane < Valid(g, m)

BeatFits(g, n, x, e, padded) ==
  \A lane \in 0 .. Lanes(x) - 1 :
    InShape(Elem(x, e, lane), IF BeatLane(g, n, x, e, lane) THEN g.conts[x.data].shape ELSE padded)
LaneRead(g, n, x, e, lane, data) ==
  IF BeatLane(g, n, x, e, lane) THEN data[x.data][Elem(x, e, lane)] ELSE PadValue(g, x.data)
Fire(g, n, e, lane, data) ==
  Wrap(Apply(n.op, [k \in DOMAIN n.in |-> LaneRead(g, n, n.in[k], e, lane, data)], InBits(g, n)),
       Bits(g, n.out))
(* A job's result in one lane: its firings folded, the lanes too into one. *)
Result(g, n, es, lane, data) ==
  IF ~ Rated(n.brm) THEN Fire(g, n, es[1], lane, data)
  ELSE LET lanes == IF Lanes(n.out) = n.W THEN {lane} ELSE 0 .. n.W - 1
       IN Wrap(MapThenSumSet(LAMBDA p : Fire(g, n, es[p[1]], p[2], data), (DOMAIN es) \X lanes),
               Bits(g, n.out))
RunJob(g, n, es, data) == \* its beat is written before the next job reads
  LET e == es[Len(es)]
      own == {l \in 0 .. Lanes(n.out) - 1 : BeatLane(g, n, n.out, e, l)}
  IN [data EXCEPT ![n.out.data] =
        [c \in {Elem(n.out, e, l) : l \in own} |->
           Result(g, n, es, CHOOSE l \in own : Elem(n.out, e, l) = c, data)] @@ @]
RunJobs(g, n, jobs, data) == FoldLeft(LAMBDA d, es : RunJob(g, n, es, d), data, jobs)

(* What a unit's run raises, its task's loops given.                       *)
Refused(g, n, loops, points) ==
  \/ \E m \in ToSet(n.path) : Tagged(g, m, "spatial")
  \/ Rated(n.brm) /\ ~ RateHolds(loops, n.out)
  \/ ~ WideEnough(g, n.in, n.out)
  \/ /\ \E m \in ToSet(loops) : Tailed(g, m)
     /\ \E x \in ToSet(n.in) : Cardinality(PadValues(g, x.data)) > 1
  \/ \E x \in ToSet(n.in) :
       \/ Lanes(x) # n.W
       \/ \E e \in ToSet(points) : ~ BeatFits(g, n, x, e, PaddedShape(g, x.data))
RefusedWrites(g, n, ends) == \* an element out of the container, or written twice
  \/ \E e \in ToSet(ends) : ~ BeatFits(g, n, n.out, e, PaddedShape(g, n.out.data))
  \/ \E i, j \in DOMAIN ends : \E k, l \in 0 .. Lanes(n.out) - 1 :
       /\ <<i, k>> # <<j, l>>
       /\ BeatLane(g, n, n.out, ends[i], k) /\ BeatLane(g, n, n.out, ends[j], l)
       /\ Elem(n.out, ends[i], k) = Elem(n.out, ends[j], l)
RunUnit(g, n, data) ==
  LET loops == TaskLoops(g, n.path)
      points == Points(g, n.path)
      T == IF Rated(n.brm) THEN Rate(g, loops, n.out) ELSE 1
      jobs == [j \in 1 .. Len(points) \div T |-> SubSeq(points, (j - 1) * T + 1, j * T)]
  IN IF Refused(g, n, loops, points) \/ RefusedWrites(g, n, [j \in DOMAIN jobs |-> Last(jobs[j])])
     THEN {} ELSE {RunJobs(g, n, jobs, data)}

(* execute: from the inputs, transients zero; every container at the end.  *)
Cells(shape) ==
  FoldLeft(LAMBDA cs, n : {Append(c, k) : c \in cs, k \in 0 .. n - 1}, {<<>>}, shape)
Start(g, inputs) ==
  [c \in DOMAIN g.conts |->
     IF g.conts[c].transient THEN [at \in Cells(g.conts[c].shape) |-> 0]
     ELSE [at \in Cells(g.conts[c].shape) |-> Wrap(inputs[c][at], g.conts[c].bits)]]
RunNode(g, n, data) ==
  CASE n.kind = "tasklet" -> RunTasklet(g, n, data)
    [] n.kind = "unit" -> RunUnit(g, n, data)
    [] n.kind = "link" -> {data} \* it runs as the transient it replaced
Factors(g) == \A m \in DOMAIN g.maps : Tailed(g, m) => SplitFactors(g, m) # {}
Execute(g, inputs) ==
  IF Factors(g) THEN FoldLeft(LAMBDA ds, n : UNION {RunNode(g, n, d) : d \in ds}, {Start(g, inputs)}, g.nodes)
  ELSE {}
Results(g, data) == [c \in {c \in DOMAIN g.conts : ~ g.conts[c].transient} |-> data[c]]
=============================================================================
