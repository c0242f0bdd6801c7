----------------------------- MODULE Generated -----------------------------
(***************************************************************************)
(* What is generated of a mapped graph, and read back by the hardware: the *)
(* accelerators, their groups and streamer sets (design/streamers.py,      *)
(* gen/accelerator.py, gen/gvsoc.py), the CSRs' numbers (gen/csrs.py,      *)
(* gen/headers.py), the CSR writes of a task's program (lower/derive.py,   *)
(* lower/c.py), and what the generated hardware makes of the CSRs          *)
(* (hw/chisel/.../shell).                                                  *)
(*                                                                         *)
(* A port is a number: 0 the output, k the k-th input; an outer port, one  *)
(* with a streamer, is <<instance, port>>.  A define of a header is the    *)
(* key it is made of, so two never clash.                                  *)
(***************************************************************************)
EXTENDS Mapping

CONSTANTS ByteBits, WordBytes,  \* the widths of a byte and a bank word
          PtrBits,              \* of a half of a streamer's base pointer
          FirstCsr              \* SNAX_CSR_FIRST

ASSUME GeneratedAssumption == {ByteBits, WordBytes, PtrBits, FirstCsr} \subseteq Nat \ {0}

SeqProduct(s) == FoldLeft(LAMBDA t, n : t * n, 1, s)
SeqSum(s) == FoldLeft(LAMBDA t, n : t + n, 0, s)
ItemBytes(g, c) == (g.conts[c].bits + ByteBits - 1) \div ByteBits
Slices(g, c) == Max({1, WordBytes \div ItemBytes(g, c)})

(* A unit's ports, and those on a link, which have no streamer.            *)
Ports(n) == 0 .. Len(n.in)
Port(n, p) == IF p = 0 THEN n.out ELSE n.in[p]
NodesOf(g, inst) == SelectSeq(Units(g), LAMBDA n : n.inst = inst)
FirstNode(g, inst) == NodesOf(g, inst)[1]
LinkEnds(g, l) ==
  [from |-> {p \in {0} : FirstNode(g, l.from).out.data = l.cont},
   to |-> {p \in 1 .. Len(FirstNode(g, l.to).in) : FirstNode(g, l.to).in[p].data = l.cont}]
EndsKnown(g) == \A l \in ToSet(Links(g)) :
  Cardinality(LinkEnds(g, l).from) = 1 /\ Cardinality(LinkEnds(g, l).to) = 1
LinkedPorts(g) == UNION {({l.from} \X LinkEnds(g, l).from) \cup ({l.to} \X LinkEnds(g, l).to) :
                           l \in ToSet(Links(g))}
Outer(g, n) == {p \in Ports(n) : <<n.inst, p>> \notin LinkedPorts(g)}
Unplaced(g) == {l.cont : l \in ToSet(Links(g))} \cup {c \in DOMAIN g.conts : g.conts[c].local # {}}

(* The firing loops: every map around a unit is temporal.  A named rate    *)
(* moves one beat per T firings, over the loops its memlet uses.           *)
LoopsKnown(g, n) == \A m \in ToSet(n.path) : Tagged(g, m, "temporal")
AllLoops(g, n, p) == n.path \* a mutant
PortLoops(g, n, p) ==
  IF p = 0 /\ Rated(n.brm) THEN SelectSeq(n.path, LAMBDA m : m \in Vars(n.out)) ELSE n.path

(* A fold's T: the task's own, a CSR's value; or the instance's, built in, *)
(* when the loops its first node folds over have ranges over no symbol.    *)
Symbolic(m) == m \in DOMAIN Imported.maps /\ Kernels[kernel].symbolic
JobBeats(g, n) == IF Rated(n.brm) THEN Rate(g, n.path, n.out) ELSE 1
FixedT(g, inst) ==
  LET n == FirstNode(g, inst)
      folded == SubSeq(n.path, FoldsFrom(n.path, n.out) + 1, Len(n.path))
  IN IF \E m \in ToSet(folded) : Symbolic(m) THEN {} ELSE {JobBeats(g, n)}
Jobs(g, us) == \* job_writes: the head's firings over every fold's T
  SeqProduct([k \in DOMAIN us[1].path |-> g.maps[us[1].path[k]].count])
    \div SeqProduct([k \in DOMAIN us |-> JobBeats(g, us[k])])

-----------------------------------------------------------------------------
(* The accelerators, each a streamer set: its movers as its template has   *)
(* them, readers first, unit by unit as the graph uses the units; and as   *)
(* the description has it, its groups, their CSRs and their outer ports,   *)
(* group by group.                                                         *)
FirstUses(names) == FoldLeft(LAMBDA s, x : IF x \in ToSet(s) THEN s ELSE Append(s, x), <<>>, names)
AccOf(g, u) == LET n == FirstNode(g, u) IN IF n.acc = {} THEN Group(n) ELSE CHOOSE a \in n.acc : TRUE
GroupOf(g, u) == Group(FirstNode(g, u))
OuterPorts(g, us) ==
  LET ports(side(_)) == FlattenSeq([k \in DOMAIN us |->
        LET n == FirstNode(g, us[k])
            mine == SelectSeq(side(n), LAMBDA p : p \in Outer(g, n))
        IN [i \in DOMAIN mine |-> <<us[k], mine[i]>>]])
  IN ports(LAMBDA n : [p \in 1 .. Len(n.in) |-> p]) \o ports(LAMBDA n : <<0>>)
TemporalDims(g, q) == Max({1} \cup {Len(PortLoops(g, n, q[2])) : n \in ToSet(NodesOf(g, q[1]))})
NumCh(g, q) == LET x == Port(FirstNode(g, q[1]), q[2]) IN Lanes(x) \div Slices(g, x.data)

HasJobBeats(g, u) == Rated(FirstNode(g, u).brm) /\ FixedT(g, u) = {}
GroupCsrs(g, us) == \* in_order
  LET own(name) == [head |-> us[1], name |-> name, unit |-> {}]
      folds == SelectSeq(us, LAMBDA u : HasJobBeats(g, u))
  IN <<own("START"), own("JOBS")>>
     \o [k \in DOMAIN folds |-> [head |-> us[1], name |-> "JOB_BEATS", unit |-> {folds[k]}]]
     \o <<own("STATUS"), own("COUNTER")>>
Described(g, a, units, groups) ==
  [acc |-> a, movers |-> OuterPorts(g, units), groups |-> groups,
   ports |-> OuterPorts(g, FlattenSeq(groups)),
   csrs |-> FlattenSeq([k \in DOMAIN groups |-> GroupCsrs(g, groups[k])])]
WithDims(g, s) ==
  s @@ [dims |-> [m \in DOMAIN s.movers |-> TemporalDims(g, s.movers[m])],
        channels |-> [m \in DOMAIN s.movers |-> NumCh(g, s.movers[m])]]
EntryOf(g, used) == \* of the instances in the order the graph uses them
  LET accs == FirstUses([k \in DOMAIN used |-> AccOf(g, used[k])])
      heads == FirstUses([k \in DOMAIN used |-> GroupOf(g, used[k])])
      members(x) == SelectSeq(used, LAMBDA u : GroupOf(g, u) = x)
      groups(a) == SelectSeq([k \in DOMAIN heads |-> members(heads[k])], LAMBDA us : AccOf(g, us[1]) = a)
  IN [k \in DOMAIN accs |->
        WithDims(g, Described(g, accs[k], SelectSeq(used, LAMBDA u : AccOf(g, u) = accs[k]), groups(accs[k])))]
Entry(g) == EntryOf(g, Order(g, InstancesOf(g)))
(* describe's own lookup: a group's units are all of one accelerator.      *)
GroupsWhole(g) == \A u, v \in InstancesOf(g) : GroupOf(g, u) = GroupOf(g, v) => AccOf(g, u) = AccOf(g, v)
(* Description's checks of the groups' links: chains, of one beat.         *)
Hops(g, us) == [k \in DOMAIN SelectSeq(Links(g), LAMBDA l : l.from \in ToSet(us)) |->
                  LET l == SelectSeq(Links(g), LAMBDA x : x.from \in ToSet(us))[k] IN <<l.from, l.to>>]
Unchained(g, us) ==
  \/ ToSet(Hops(g, us)) # {<<us[i], us[i + 1]>> : i \in 1 .. Len(us) - 1}
  \/ Len(Hops(g, us)) # Len(us) - 1
  \/ \E i \in DOMAIN us : (0 \in Outer(g, FirstNode(g, us[i]))) # (i = Len(us))
Mismatched(g, l) ==
  \E p \in LinkEnds(g, l).to :
    LET from == FirstNode(g, l.from).out
        to == Port(FirstNode(g, l.to), p)
    IN Bits(g, from) # Bits(g, to) \/ Lanes(from) # Lanes(to)
DescriptionRefused(g, e) ==
  \/ \E l \in ToSet(Links(g)) : Mismatched(g, l)
  \/ \E k \in DOMAIN e : \E us \in ToSet(e[k].groups) : Unchained(g, us)
(* An accelerator's units in the graph's order are its groups' one by one. *)
GroupsInRow(e) == \A k \in DOMAIN e : e[k].movers = e[k].ports

-----------------------------------------------------------------------------
(* The numbers: packed from the first, each set's streamer, then its own.  *)
(* csr_layout counts a streamer's CSRs; the header goes through them.      *)
MoverCsrs(dims) == 2 + 1 + 2 * dims
StreamerCsrs(s) == SeqSum([m \in DOMAIN s.dims |-> MoverCsrs(s.dims[m])]) + 1 + 2
OwnCsrs(s) == Len(s.csrs)
OwnBefore(e, k) == SeqSum([j \in 1 .. k - 1 |-> OwnCsrs(e[j])])
Base(e, k) == FirstCsr + OwnBefore(e, k) + SeqSum([j \in 1 .. k - 1 |-> StreamerCsrs(e[j])])
Offset(e, k, c) == OwnBefore(e, k) + SelectInSeq(e[k].csrs, LAMBDA x : x = c) - 1
OwnNumber(e, k, c) == Base(e, k) + StreamerCsrs(e[k]) + Offset(e, k, c) - OwnBefore(e, k)
MoverKeys(m, dims) ==
  <<<<m, "low", 0>>, <<m, "high", 0>>, <<m, "spatial", 0>>>>
  \o [i \in 1 .. dims |-> <<m, "bound", i>>] \o [i \in 1 .. dims |-> <<m, "stride", i>>]
Header(e, k) ==
  LET keys == FlattenSeq([m \in DOMAIN e[k].dims |-> MoverKeys(m, e[k].dims[m])])
  IN [key \in ToSet(keys) |-> Base(e, k) + SelectInSeq(keys, LAMBDA x : x = key) - 1]

(* A task's program: every mover of its set, the other groups' idle, their *)
(* strides a word; a mover's spare loops with bound 1 and stride 0.        *)
Idle(dims) == [base |-> 0, bounds |-> [i \in 1 .. dims |-> 0],
               strides |-> [i \in 1 .. dims |-> WordBytes], spatial |-> 0]
CsrValue(v, key) ==
  LET padded(s, x) == IF key[3] \in DOMAIN s THEN s[key[3]] ELSE x
  IN CASE key[2] = "low" -> v.base % 2 ^ PtrBits
       [] key[2] = "high" -> v.base \div 2 ^ PtrBits
       [] key[2] = "spatial" -> v.spatial
       [] key[2] = "bound" -> padded(v.bounds, 1)
       [] key[2] = "stride" -> padded(v.strides, 0)
WriteMovers(header, values) == \* by mover
  [n \in Range(header) |->
     LET key == CHOOSE key \in DOMAIN header : header[key] = n IN CsrValue(values[key[1]], key)]
Found(e, k, us, name, unit) == \* Description.find
  OwnNumber(e, k, CHOOSE c \in ToSet(e[k].csrs) : c.head = us[1].inst /\ c.name = name /\ c.unit = unit)
WriteJobs(g, e, k, us) == \* job_writes
  LET folds == {j \in DOMAIN us : HasJobBeats(g, us[j].inst)}
      beats(j) == Found(e, k, us, "JOB_BEATS", {us[j].inst})
  IN (Found(e, k, us, "JOBS", {}) :> Jobs(g, us))
     @@ [n \in {beats(j) : j \in folds} |-> JobBeats(g, us[CHOOSE j \in folds : beats(j) = n])]

-----------------------------------------------------------------------------
(* The hardware: a set's CSRs by the same packing, a mover's by counting   *)
(* those before it.  A reader whose first loop has stride 0 goes through   *)
(* it once and gives each beat its bound times.                            *)
Csr(csrs, n) == IF n \in DOMAIN csrs THEN csrs[n] ELSE 0
MoverAt(e, k, m, csrs) ==
  LET dims == e[k].dims[m]
      at == Base(e, k) + SeqSum([i \in 1 .. m - 1 |-> MoverCsrs(e[k].dims[i])])
  IN [base |-> Csr(csrs, at) + 2 ^ PtrBits * Csr(csrs, at + 1),
      spatial |-> Csr(csrs, at + 2),
      bounds |-> [i \in 1 .. dims |-> Csr(csrs, at + 2 + i)],
      strides |-> [i \in 1 .. dims |-> Csr(csrs, at + 2 + dims + i)]]
Starts(v) ==
  \A i \in DOMAIN v.bounds : v.bounds[i] > 0 \/ (i = 1 /\ v.strides[1] = 0)
(* stream2acc and acc2stream: the description's k-th port of a set is on   *)
(* the k-th mover of its streamer.                                         *)
MoverOn(s, q) == SelectInSeq(s.ports, LAMBDA x : x = q)
(* The shell is one for the design: the description's groups and CSRs set  *)
(* after set, the numbers after each set's streamer demuxed onto them.     *)
SpecGroups(e) == FlattenSeq([k \in DOMAIN e |-> e[k].groups])
SpecCsrs(e) == FlattenSeq([k \in DOMAIN e |-> e[k].csrs])
Demux(e) ==
  FlattenSeq([k \in DOMAIN e |-> [i \in 1 .. OwnCsrs(e[k]) |-> Base(e, k) + StreamerCsrs(e[k]) + i - 1]])
Regs(e, csrs) == [i \in DOMAIN Demux(e) |-> Csr(csrs, Demux(e)[i])]
CsrAt(e, us, name) == SelectInSeq(SpecCsrs(e), LAMBDA c : c.head = us[1] /\ c.name = name)
Started(e, number) == \* the group whose START is written
  CHOOSE us \in ToSet(SpecGroups(e)) : Demux(e)[CsrAt(e, us, "START")] = number
JobsOf(e, us, regs) == regs[CsrAt(e, us, "JOBS")]
TOf(g, e, us, regs) == \* jobBeats from its registers, or params.T
  [j \in DOMAIN us |->
     LET at == SelectInSeq(SpecCsrs(e), LAMBDA c : c.unit = {us[j]})
     IN IF at > 0 THEN regs[at]
        ELSE IF Rated(FirstNode(g, us[j]).brm) THEN CHOOSE t \in FixedT(g, us[j]) : TRUE ELSE 1]
=============================================================================
