------------------------------ MODULE Streams ------------------------------
(***************************************************************************)
(* A mapped graph on the hardware: what the design checks of its ports     *)
(* (design/check.py), the values each streamer is started with (lower/     *)
(* derive.py, design/streamers.py) and the arrays in memory (lower/        *)
(* layout.py, gen/data.py), run to the end on what is generated of it, in  *)
(* the task list's order.  What the hardware gives is compared with what   *)
(* the reference executor gives.                                           *)
(*                                                                         *)
(* A port is a number: 0 the output, k the k-th input.  L1 is what each    *)
(* byte address holds, an element at its first byte; L2 is the arrays.     *)
(* What raises or hangs gives {}.                                          *)
(***************************************************************************)
EXTENDS Generated

CONSTANTS BeatBytes,  \* the width of a DMA beat
          Junk        \* what an L1 cell may hold before it is written

ASSUME WidthsAssumption == BeatBytes \in Nat \ {0} /\ BeatBytes % WordBytes = 0

Rows(shape) == [d \in DOMAIN shape |-> SeqProduct(SubSeq(shape, d + 1, Len(shape)))]

-----------------------------------------------------------------------------
(* The memory plan: what the DMA moves in whole beats, then the rest in    *)
(* whole words, one after the other.                                       *)
Moved(g, c) == ~ g.conts[c].transient
BlockBytes(g, c) ==
  RoundUp(SeqProduct(PaddedShape(g, c)) * ItemBytes(g, c), IF Moved(g, c) THEN BeatBytes ELSE WordBytes)
Block(g, c) == 0 .. (BlockBytes(g, c) \div ItemBytes(g, c)) - 1
Placed(g) == (DOMAIN g.conts) \ Unplaced(g)
Plan(g) == \* what is moved first
  FoldLeft(LAMBDA p, c : [top |-> p.top + BlockBytes(g, c), base |-> (c :> p.top) @@ p.base],
           [top |-> 0, base |-> <<>>],
           SetToSeq({c \in Placed(g) : Moved(g, c)}) \o SetToSeq({c \in Placed(g) : ~ Moved(g, c)}))
Strides(g, c) == \* in elements
  Rows(PaddedShape(g, c))

(* memlet_values: a memlet over a port's loops, through the layout.  The   *)
(* temporal loops innermost first; a channel's stride is a word's elements.*)
InWords(stride, slices) == stride * slices
RangeDim(x) == CHOOSE d \in DOMAIN x.sub : x.sub[d].len > 0
MemletValues(g, x, loops, base, strides, item, slices) ==
  LET step(m) == MapThenSumSet(LAMBDA d : Co(x.sub[d], m) * strides[d], DOMAIN x.sub)
      start(d) == x.sub[d].c + MapThenSumSet(LAMBDA m : Co(x.sub[d], m) * g.maps[m].begin, ToSet(loops))
      k0 == Len(loops) + 1
  IN [base |-> base + item * MapThenSumSet(LAMBDA d : start(d) * strides[d], DOMAIN x.sub),
      bounds |-> IF loops = <<>> THEN <<1>> ELSE [k \in DOMAIN loops |-> g.maps[loops[k0 - k]].count],
      strides |-> IF loops = <<>> THEN <<0>> ELSE [k \in DOMAIN loops |-> item * step(loops[k0 - k])],
      spatial |-> InWords(item * x.sub[RangeDim(x)].step * strides[RangeDim(x)], slices)]
(* addresses: beat by beat, one per channel.                               *)
Addresses(values, channels) ==
  LET beat(i) == values.base + MapThenSumSet(
        LAMBDA k : ((i \div SeqProduct(SubSeq(values.bounds, 1, k - 1))) % values.bounds[k])
                   * values.strides[k], DOMAIN values.bounds)
  IN [i \in 1 .. SeqProduct(values.bounds) |->
        [k \in 1 .. channels |-> beat(i - 1) + (k - 1) * values.spatial]]
(* A port's elements' addresses, beat by beat and lane by lane: a channel  *)
(* moves the bank word its address is in.                                  *)
InBeats(words, lanes, slices, item) ==
  LET word(a) == (a \div WordBytes) * WordBytes
  IN [i \in DOMAIN words |->
        [l \in 1 .. lanes |-> word(words[i][(l - 1) \div slices + 1]) + ((l - 1) % slices) * item]]

(* A task's program: its movers' values, the set's others idle, and its    *)
(* JOBS and T.                                                             *)
PortValues(g, plan, n, p) ==
  LET x == Port(n, p)
  IN MemletValues(g, x, PortLoops(g, n, p), plan.base[x.data], Strides(g, x.data), ItemBytes(g, x.data),
                  Slices(g, x.data))
TaskValues(g, plan, us, s) ==
  [m \in DOMAIN s.movers |->
     LET mine == {j \in DOMAIN us : us[j].inst = s.movers[m][1]}
     IN IF mine = {} THEN Idle(s.dims[m]) ELSE PortValues(g, plan, us[CHOOSE j \in mine : TRUE], s.movers[m][2])]
Configure(g, plan, e, k, us) ==
  WriteJobs(g, e, k, us) @@ WriteMovers(Header(e, k), TaskValues(g, plan, us, e[k]))

(* The elements' addresses of a unit's port: its mover's, from its CSRs.   *)
Elements(g, e, k, n, p, csrs) ==
  LET m == MoverOn(e[k], <<n.inst, p>>)
      x == Port(n, p)
  IN InBeats(Addresses(MoverAt(e, k, m, csrs), e[k].channels[m]), Lanes(x), Slices(g, x.data), ItemBytes(g, x.data))
(* What never ends: a mover that starts and is no port's of the group's,   *)
(* and what cannot be wired, a port and a mover of other widths.           *)
Misplaced(g, e, k, us, csrs) ==
  \E m \in DOMAIN e[k].movers :
    \/ e[k].channels[m] # NumCh(g, e[k].ports[m])
    \/ /\ e[k].ports[m][1] \notin {us[j].inst : j \in DOMAIN us}
       /\ Starts(MoverAt(e, k, m, csrs))

-----------------------------------------------------------------------------
(* A unit's output beats, its input beats given by port.                   *)
UnitBeats(g, n, ins, t) ==
  LET vals(i, l) == [k \in DOMAIN n.in |-> ins[k][i][l]]
      fire(i, l) == Wrap(Apply(n.op, vals(i, l), InBits(g, n)), Bits(g, n.out))
      folded(j, ls) == Wrap(MapThenSumSet(LAMBDA p : fire(p[1], p[2]), ((j - 1) * t + 1 .. j * t) \X ls),
                            Bits(g, n.out))
      beat(j, l) == IF ~ Rated(n.brm) THEN fire(j, l)
                    ELSE folded(j, IF Lanes(n.out) = n.W THEN {l} ELSE 1 .. n.W)
  IN [j \in 1 .. Len(ins[1]) \div t |-> [l \in 1 .. Lanes(n.out) |-> beat(j, l)]]

(* A group's run, at[k] the addresses of its k-th unit's streamers and t   *)
(* each unit's T: along the chain, each unit takes its streamers' beats    *)
(* and the unit's before it, and each streamer's beats are all taken.      *)
Written(l1, at, beats) ==
  IF Len(at) # Len(beats) THEN {}
  ELSE {FoldLeft(LAMBDA m, i : [a \in ToSet(at[i]) |->
                                  beats[i][CHOOSE l \in DOMAIN at[i] : at[i][l] = a]] @@ m,
                 l1, [i \in DOMAIN at |-> i])}
Taken(l1, at) == [i \in DOMAIN at |-> [l \in DOMAIN at[i] |-> l1[at[i][l]]]]
Fire1(g, n, ins, fires, t) ==
  IF \A p \in DOMAIN ins : Len(ins[p]) = fires THEN {UnitBeats(g, n, ins, t)} ELSE {}
RunChain(g, us, at, jobs, t, l1) ==
  LET fires(k) == jobs * SeqProduct(SubSeq(t, k, Len(t)))
      ins(k, before) == [p \in DOMAIN us[k].in |-> IF p \in DOMAIN at[k] THEN Taken(l1, at[k][p]) ELSE before]
      out == FoldLeft(LAMBDA bs, k : UNION {Fire1(g, us[k], ins(k, b), fires(k), t[k]) : b \in bs},
                      {<<>>}, [k \in DOMAIN us |-> k])
  IN IF \E k \in DOMAIN us : \E p \in DOMAIN at[k] : \E i \in DOMAIN at[k][p] :
          ~ ToSet(at[k][p][i]) \subseteq DOMAIN l1 THEN {}
     ELSE UNION {Written(l1, at[Len(us)][0], beats) : beats \in out}

-----------------------------------------------------------------------------
(* data.h: an input's values, its pads the pad value, an output's zeros,   *)
(* both to whole beats.  An output that does not start at zero is refused. *)
FlatIndex(at, shape) == MapThenSumSet(LAMBDA d : at[d] * Rows(shape)[d], DOMAIN shape)
Outputs(g) == {c \in DOMAIN g.conts : Moved(g, c) /\ \E n \in ToSet(g.nodes) : n.kind # "link" /\ n.out.data = c}
ArrayOf(g, c, values) ==
  LET padded == PaddedShape(g, c)
      at(k) == [d \in DOMAIN padded |-> (k \div Rows(padded)[d]) % padded[d]]
  IN [k \in Block(g, c) |->
        IF c \in Outputs(g) \/ k >= SeqProduct(padded) THEN 0
        ELSE IF InShape(at(k), g.conts[c].shape) THEN values[at(k)] ELSE PadValue(g, c)]
InPlace(g, inputs) == \E c \in Outputs(g) : \E at \in DOMAIN inputs[c] : inputs[c][at] # 0

(* The DMA: a container's whole block, one way or the other.               *)
Loaded(array, base, item) == [a \in {base + k * item : k \in DOMAIN array} |-> array[(a - base) \div item]]
Load(g, plan, c, s) ==
  [s EXCEPT !.l1 = Loaded(s.l2[c], plan.base[c], ItemBytes(g, c)) @@ @, !.inL1 = @ \cup {c}]
Store(g, plan, c, s) ==
  [s EXCEPT !.l2[c] = [k \in DOMAIN @ |-> s.l1[plan.base[c] + k * ItemBytes(g, c)]]]

(* The derivation: a pass per unit node, a linked group's at its first     *)
(* one: loads of what is not in L1 yet, the run, stores of last writes.    *)
Members(g, n) == Order(g, {u.inst : u \in {u \in ToSet(Units(g)) : Group(u) = Group(n)}})
LastWrite(g, c) == Last(SelectSeq(Units(g), LAMBDA n : n.out.data = c)).id
GroupNodes(g, n, members) ==
  IF Len(members) = 1 THEN <<n>> ELSE [k \in DOMAIN members |-> FirstNode(g, members[k])]
Streamed(g, us) == \* a group's ports with a streamer
  {q \in (DOMAIN us) \X (0 .. 2) : q[2] \in Outer(g, us[q[1]])}
Raises(g, us, ports) ==
  \/ \E k \in DOMAIN us : ~ LoopsKnown(g, us[k])
  \/ \E k \in DOMAIN us : Rated(us[k].brm) /\ ~ RateHolds(us[k].path, us[k].out)
  \/ Len(us) > 1 /\ \E k \in DOMAIN us : Len(NodesOf(g, us[k].inst)) # 1
  \/ \E q \in ports : LET x == Port(us[q[1]], q[2])
                       IN \/ Lanes(x) # Lanes(Port(FirstNode(g, us[q[1]].inst), q[2]))
                          \/ Lanes(x) % Slices(g, x.data) # 0
Loads(g, us, ports, s) ==
  {c \in {Port(us[q[1]], q[2]).data : q \in {q \in ports : q[2] # 0}} \ s.inL1 : Moved(g, c)}
Outs(us, ports) == {us[q[1]].out.data : q \in {q \in ports : q[2] = 0}}
Stores(g, us, outs) ==
  {c \in outs : Moved(g, c) /\ \E k \in DOMAIN us : us[k].id = LastWrite(g, c)}
SetOf(e, us) == CHOOSE k \in DOMAIN e : \E x \in DOMAIN e[k].groups : us[1].inst \in ToSet(e[k].groups[x])
RunStarted(g, e, k, us, started, csrs, l1) ==
  IF Misplaced(g, e, k, us, csrs) THEN {}
  ELSE RunChain(g, us, [j \in DOMAIN us |-> [p \in Outer(g, us[j]) |-> Elements(g, e, k, us[j], p, csrs)]],
                JobsOf(e, started, Regs(e, csrs)), TOf(g, e, started, Regs(e, csrs)), l1)
RunWith(g, e, k, us, csrs, s) ==
  {[s EXCEPT !.l1 = l1, !.csrs = csrs] :
     l1 \in RunStarted(g, e, k, us, Started(e, Found(e, k, us, "START", {})), csrs, s.l1)}
RunOn(g, plan, e, k, us, s) == RunWith(g, e, k, us, Configure(g, plan, e, k, us) @@ s.csrs, s)
GroupPass(g, plan, e, us, ports, outs, s) ==
  {FoldLeft(LAMBDA t, c : Store(g, plan, c, t),
            [r EXCEPT !.inL1 = @ \cup outs, !.ran = @ \cup {us[k].inst : k \in DOMAIN us}],
            SetToSeq(Stores(g, us, outs))) : r \in RunOn(g, plan, e, SetOf(e, us), us, s)}
PassOf(g, plan, e, s, us, ports) ==
  IF Raises(g, us, ports) THEN {}
  ELSE GroupPass(g, plan, e, us, ports, Outs(us, ports),
                 FoldLeft(LAMBDA t, c : Load(g, plan, c, t), s, SetToSeq(Loads(g, us, ports, s))))
WithPorts(g, plan, e, s, us) == PassOf(g, plan, e, s, us, Streamed(g, us))
Pass(g, plan, e, s, n) ==
  IF n.inst \in s.ran /\ Len(Members(g, n)) > 1 THEN {s} \* its group has run
  ELSE WithPorts(g, plan, e, s, GroupNodes(g, n, Members(g, n)))
LowerWith(g, plan, e, inputs, junk) ==
  FoldLeft(LAMBDA ss, n : UNION {Pass(g, plan, e, s, n) : s \in ss},
           {[l1 |-> [a \in 0 .. plan.top - 1 |-> junk], inL1 |-> {}, ran |-> {}, csrs |-> <<>>,
             l2 |-> [c \in {c \in DOMAIN g.conts : Moved(g, c)} |-> ArrayOf(g, c, inputs[c])]]}, Units(g))
LowerOn(g, e, inputs, junk) ==
  IF DescriptionRefused(g, e) THEN {} ELSE {s.l2 : s \in LowerWith(g, Plan(g), e, inputs, junk)}
Lower(g, inputs, junk) == \* {} when something raises or hangs, else the L2 at the end
  IF ~ EndsKnown(g) \/ ~ GroupsWhole(g) \/ InPlace(g, inputs) THEN {}
  ELSE LowerOn(g, Entry(g), inputs, junk)

-----------------------------------------------------------------------------
(* The design checks.                                                      *)
Unbound(g) == Units(g) = <<>> \/ \E n \in ToSet(g.nodes) : n.kind = "tasklet"
DtypeProblem(g) ==
  \E n \in ToSet(Units(g)) :
    \/ ~ WideEnough(g, n.in, n.out)
    \/ \E p \in Ports(n) : Bits(g, Port(n, p)) # Bits(g, Port(FirstNode(g, n.inst), p))
TemporalProblem(g) == \E n \in ToSet(Units(g)) : ~ LoopsKnown(g, n)

(* connect.pack: a port's beats are whole words, inside the padded shape.  *)
Highest(g, n, x, d) ==
  LET y == x.sub[d]
      top(m) == g.maps[m].begin + (IF y.co[m] > 0 THEN g.maps[m].count - 1 ELSE 0)
  IN y.c + MapThenSumSet(LAMBDA m : y.co[m] * top(m), DOMAIN y.co)
     + (IF y.len = 0 THEN 0 ELSE y.len * y.step - 1)
Reaches(g, n, x) == \E d \in DOMAIN x.sub : Highest(g, n, x, d) >= PaddedShape(g, x.data)[d]
NotPacked(g, n, x) ==
  LET slices == Slices(g, x.data)
      rows == Rows(PaddedShape(g, x.data))
      step(m) == MapThenSumSet(LAMBDA d : Co(x.sub[d], m) * rows[d], DOMAIN x.sub)
      start == MapThenSumSet(LAMBDA d : (x.sub[d].c + MapThenSumSet(
                 LAMBDA m : Co(x.sub[d], m) * g.maps[m].begin, ToSet(n.path))) * rows[d], DOMAIN x.sub)
  IN /\ slices > 1
     /\ \/ Lanes(x) % slices # 0
        \/ x.sub[RangeDim(x)].step * rows[RangeDim(x)] # 1
        \/ \E m \in ToSet(n.path) : g.maps[m].count > 1 /\ step(m) % slices # 0
        \/ start % slices # 0
ReachOnly(g, n, x) == Reaches(g, n, x) \* a mutant
PackProblem(g, n, x) == Reaches(g, n, x) \/ NotPacked(g, n, x)

(* connect.pad: what a tail's reader folds is the fold's identity.         *)
CodeOnPads(g, n, pads) == Wrap(Apply(n.op, pads, InBits(g, n)), Bits(g, n.out))
RECURSIVE PadContent(_, _, _)
PadContent(g, c, seen) == \* {} when it cannot be said or is never written
  LET writers == {n \in ToSet(Units(g)) : n.out.data = c}
      pads(n) == [k \in DOMAIN n.in |-> PadContent(g, n.in[k].data, seen \cup {c})]
      silent(n) == \/ Folds(n) # {}
                   \/ \E d \in DOMAIN n.out.sub : Highest(g, n, n.out, d) + 1 < PaddedShape(g, c)[d]
                   \/ \E k \in DOMAIN n.in : pads(n)[k] = {}
      gives(n) == CodeOnPads(g, n, [k \in DOMAIN n.in |-> CHOOSE v \in pads(n)[k] : TRUE])
  IN IF writers = {} THEN {PadValue(g, c)}
     ELSE IF c \in seen \/ \E n \in writers : silent(n) THEN {}
     ELSE LET got == {gives(n) : n \in writers} IN IF Cardinality(got) = 1 THEN got ELSE {}
ReadThroughTail(g, n, c) ==
  \E x \in ToSet(n.in) : x.data = c /\ \E m \in ToSet(n.path) : Tailed(g, m) /\ m \in Vars(x)
NoPads(g, c) == FALSE \* a mutant
PadProblem(g, c) ==
  \/ Cardinality(PadValues(g, c)) > 1
  \/ /\ \E n \in ToSet(Units(g)) : n.out.data = c
     /\ \E n \in ToSet(Units(g)) :
          /\ Folds(n) # {} /\ ReadThroughTail(g, n, c)
          /\ PadContent(g, c, {}) # {Identity(CHOOSE op \in Folds(n) : TRUE, g.conts[c].bits)}
Accepted(g) ==
  /\ ~ Unbound(g) /\ ~ DtypeProblem(g) /\ ~ TemporalProblem(g)
  /\ \A n \in ToSet(Units(g)) : \A x \in Memlets(n) : ~ PackProblem(g, n, x)
  /\ \A c \in DOMAIN g.conts : ~ PadProblem(g, c)

-----------------------------------------------------------------------------
(* The elements the kernel writes.                                         *)
Computed(c) ==
  UNION {{Elem(n.out, e, 0) : e \in ToSet(Points(Imported, n.path))} :
           n \in {n \in ToSet(Imported.nodes) : n.out.data = c}}
Gives(g, junk, cells(_)) ==
  \E l2 \in Lower(g, Kernels[kernel].inputs, junk) :
    \A c \in DOMAIN want : \A at \in cells(c) : l2[c][FlatIndex(at, PaddedShape(g, c))] = want[c][at]
(* A mapped graph the design checks accept, an in-place update apart,      *)
(* whose groups are each of one accelerator and follow each other there,   *)
(* lowers without an error, ends, and leaves in L2 every element the       *)
(* kernel computes, whatever L1 held before: the CSRs' numbers and values, *)
(* the streamers' words, the padding, JOBS and T and the loads and stores  *)
(* all agree.                                                              *)
Runs(g) == Accepted(g) /\ ~ InPlace(g, Kernels[kernel].inputs) /\ GroupsWhole(g)
LoweredComputes ==
  Runs(graph) /\ GroupsInRow(Entry(graph)) => \A j \in Junk : Gives(graph, j, Computed)
(* The same of every encapsulation the sandbox takes, groups one through   *)
(* another.                                                                *)
EncapsulatedComputes == Runs(graph) => \A j \in Junk : Gives(graph, j, Computed)
(* What data.h's self-check compares: every element of an output.          *)
LoweredWhole == Runs(graph) => \A j \in Junk : Gives(graph, j, LAMBDA c : DOMAIN want[c])
=============================================================================
