------------------------------ MODULE Readback ------------------------------
(***************************************************************************)
(* What the converter, the reports and the viewer take the components of a *)
(* run for (snax_forge/run/cluster.py, run/convert.py, run/beats.py): read *)
(* back from the generated files and the design point, never from the run. *)
(*                                                                         *)
(* A mover's name is its port, <<instance, port>>; SNAX-GVSoC's is its     *)
(* kind and how many of it come before.  A path is the name below the      *)
(* accelerator's.                                                          *)
(***************************************************************************)
EXTENDS Streams

(* The design point's streamers: unit by unit as the graph uses them, each *)
(* in its BRM's port order.                                                *)
PointStreamers(g) ==
  LET used == Order(g, InstancesOf(g))
      of(u) == LET n == FirstNode(g, u)
                   mine == SelectSeq([k \in 1 .. Len(n.in) |-> k] \o <<0>>, LAMBDA p : p \in Outer(g, n))
               IN [i \in DOMAIN mine |-> <<u, mine[i]>>]
  IN FlattenSeq([k \in DOMAIN used |-> of(used[k])])
Writes(q) == q[2] = 0
OfKind(ports, write) == SelectSeq(ports, LAMBDA q : Writes(q) = write)
SetUnits(s) == UNION {ToSet(us) : us \in ToSet(s.groups)}

(* cluster_from's refusal: the units with a streamer, in the design        *)
(* point's order, are accelerator.json's, set after set.                   *)
InstancesMissing(e, streamers) == \* a mutant: in any order
  ~ {q[1] : q \in ToSet(streamers)} \subseteq ToSet(FlattenSeq(SpecGroups(e)))
InstancesRefused(e, streamers) ==
  LET names == FirstUses([i \in DOMAIN streamers |-> streamers[i][1]])
      members == FlattenSeq(SpecGroups(e))
  IN names # SelectSeq(members, LAMBDA u : u \in ToSet(names))

(* Its movers: the i-th reader and the i-th writer of a set are those of   *)
(* the design point's streamers on the set's units.                        *)
NamedMovers(streamers, s) ==
  LET of(write) ==
        LET mine == SelectSeq(OfKind(streamers, write), LAMBDA q : q[1] \in SetUnits(s))
            at == IF write THEN Len(OfKind(s.movers, FALSE)) ELSE 0
        IN [i \in DOMAIN mine |->
              [name |-> mine[i], gvsoc |-> <<write, i>>, set |-> s.acc,
               lanes |-> s.channels[at + i], dims |-> s.dims[at + i]]]
  IN of(FALSE) \o of(TRUE)
MoversRefused(streamers, s) ==
  \E write \in BOOLEAN : Len(SelectSeq(OfKind(streamers, write), LAMBDA q : q[1] \in SetUnits(s)))
                           # Len(OfKind(s.movers, write))
MoverNamed(named, gvsoc, set) == CHOOSE m \in ToSet(named) : m.gvsoc = gvsoc /\ m.set = set
MoverFirst(e, named, m) == \* mover_csrs: each set's from its own first
  LET k == CHOOSE k \in DOMAIN e : e[k].acc = m.set
      mine == SelectSeq(named, LAMBDA x : x.set = m.set)
  IN Base(e, k) + SeqSum([i \in 1 .. SelectInSeq(mine, LAMBDA x : x = m) - 1 |-> MoverCsrs(mine[i].dims)])
MoverValues(e, named, m, csrs) ==
  LET first == MoverFirst(e, named, m)
  IN [base |-> Csr(csrs, first), spatial |-> Csr(csrs, first + 2),
      bounds |-> [i \in 1 .. m.dims |-> Csr(csrs, first + 2 + i)],
      strides |-> [i \in 1 .. m.dims |-> Csr(csrs, first + 2 + m.dims + i)]]

-----------------------------------------------------------------------------
(* The units, one per group: named, found below the accelerator and its    *)
(* CSRs bounded by its group's START and COUNTER.                          *)
UnitName(g, us) == IF Len(us) > 1 THEN GroupOf(g, us[1]) ELSE us[1]
UnitPath(g, e, us) ==
  IF Len(us) > 1 THEN <<"group", GroupOf(g, us[1])>>
  ELSE IF Len(SpecGroups(e)) = 1 THEN <<"unit">> ELSE <<"unit", us[1]>>
Numbered(e, k, us, name) ==
  OwnNumber(e, k, CHOOSE c \in ToSet(e[k].csrs) : c.head = us[1] /\ c.name = name /\ c.unit = {})
UnitsOf(g, e) ==
  FlattenSeq([k \in DOMAIN e |-> [i \in DOMAIN e[k].groups |->
    LET us == e[k].groups[i]
    IN [name |-> UnitName(g, us), group |-> GroupOf(g, us[1]), path |-> UnitPath(g, e, us),
        start |-> Numbered(e, k, us, "START"), busy |-> Numbered(e, k, us, "STATUS"),
        counter |-> Numbered(e, k, us, "COUNTER")]]])
(* The set a group is in, as the description lists its groups.             *)
AcceleratorOf(g, e, group) ==
  e[CHOOSE k \in DOMAIN e : \E us \in ToSet(e[k].groups) : GroupOf(g, us[1]) = group].acc
MembersOf(g, e, name) ==
  LET mine == {us \in ToSet(SpecGroups(e)) : name = GroupOf(g, us[1]) \/ name \in ToSet(us)}
      us == CHOOSE us \in mine : TRUE
  IN IF mine = {} \/ Len(us) = 1 THEN {name} ELSE ToSet(us)
MoversOf(g, e, named, name) == SelectSeq(named, LAMBDA m : m.name[1] \in MembersOf(g, e, name))

StreamerLast(e, k) == Base(e, k) + StreamerCsrs(e[k]) - 1
SetOfCsr(e, n) == {k \in DOMAIN e : Base(e, k) <= n /\ n <= StreamerLast(e, k)}
BlockOf(e, units, n) == \* "-" for none
  LET holding == SelectSeq(units, LAMBDA u : u.start <= n /\ n <= u.counter)
  IN IF SetOfCsr(e, n) # {} THEN <<"streamer", e[CHOOSE k \in SetOfCsr(e, n) : TRUE].acc>>
     ELSE IF holding = <<>> THEN <<"-">> ELSE <<"unit", holding[1].name>>
Window(g, e, units, k) ==
  <<Base(e, k), Max({units[i].counter : i \in {i \in DOMAIN units : AcceleratorOf(g, e, units[i].group) = e[k].acc}})>>

(* The manifest's accelerator tasks: a task's trace path, its own with     *)
(* several groups.                                                         *)
TaskTrace(g, e, us) ==
  IF Len(SpecGroups(e)) = 1 /\ Len(us) = 1 THEN <<"unit">>
  ELSE IF Len(us) = 1 THEN <<"unit", us[1]>> ELSE <<"group", GroupOf(g, us[1])>>
(* pairing's refusal of a start: the streamer tasks it launches are one    *)
(* for each mover of the task's set.                                       *)
PairingRefused(g, e, named, k, us) ==
  LET movers == {m.name : m \in {m \in ToSet(named) : m.set = AcceleratorOf(g, e, GroupOf(g, us[1]))}}
  IN ToSet(e[k].movers) # movers

-----------------------------------------------------------------------------
(* source_of and port_of: a line is told by its path and, a streamer's, by *)
(* the mover it names; a crossbar input by the set, the mover and the lane.*)
SourceOf(named, units, path, mover) ==
  IF mover = {} THEN {u.name : u \in {u \in ToSet(units) : u.path = path}}
  ELSE {MoverNamed(named, m, path[2]).name : m \in mover}
PortsOf(m) == [lane \in 1 .. m.lanes |-> <<m.name, lane>>]
InputOf(named, set, gvsoc, lane) == <<MoverNamed(named, gvsoc, set).name, lane>>

(* The slot's rw and ro of each set, by which the demux in front of the    *)
(* sets finds a set's CSRs.                                                *)
Slot(e) ==
  [k \in DOMAIN e |->
     LET count(names) == Cardinality({i \in DOMAIN e[k].csrs : e[k].csrs[i].name \in names})
     IN [rw |-> count({"START", "JOBS", "JOB_BEATS"}), ro |-> count({"STATUS", "COUNTER"}),
         width |-> SeqSum(e[k].channels)]]
DemuxBase(e, k) ==
  FirstCsr + SeqSum([j \in 1 .. k - 1 |-> StreamerCsrs(e[j]) + Slot(e)[j].rw + Slot(e)[j].ro])

-----------------------------------------------------------------------------
Generates(g) == Accepted(g) /\ EndsKnown(g) /\ GroupsWhole(g)
ReadRefused(e, streamers) ==
  \/ InstancesRefused(e, streamers)
  \/ \E k \in DOMAIN e : MoversRefused(streamers, e[k])
SimName(s, m) == \* the m-th mover of a set, as its streamer counts it
  LET readers == Len(OfKind(s.movers, FALSE))
  IN IF m > readers THEN <<TRUE, m - readers>> ELSE <<FALSE, m>>
(* The k-th mover of a set's streamer is wired to the k-th outer port.     *)
MoversAreWired(g, e, named) ==
  \A k \in DOMAIN e : \A m \in DOMAIN e[k].ports :
    /\ SourceOf(named, <<>>, <<"streamer", e[k].acc>>, {SimName(e[k], m)}) = {e[k].ports[m]}
    /\ PortsOf(MoverNamed(named, SimName(e[k], m), e[k].acc))
         = [lane \in 1 .. NumCh(g, e[k].ports[m]) |-> InputOf(named, e[k].acc, SimName(e[k], m), lane)]
CsrsAreTheirs(e, named, units, k, unit, csrs) ==
  /\ \A n \in DOMAIN csrs : BlockOf(e, units, n) \in {<<"streamer", e[k].acc>>, <<"unit", unit>>}
  /\ \A m \in DOMAIN e[k].movers :
       MoverValues(e, named, MoverNamed(named, SimName(e[k], m), e[k].acc), csrs)
         = [MoverAt(e, k, m, csrs) EXCEPT !.base = @ % 2 ^ PtrBits]
WindowsInRow(g, e, units) ==
  \A k \in DOMAIN e :
    /\ Window(g, e, units, k)[1] = DemuxBase(e, k)
    /\ k > 1 => Window(g, e, units, k)[1] = Window(g, e, units, k - 1)[2] + 1
UnitIsTold(g, e, named, units, k, us) ==
  /\ {m.name : m \in ToSet(MoversOf(g, e, named, UnitName(g, us)))}
       = {q \in ToSet(e[k].ports) : q[1] \in ToSet(us)}
  /\ ~ PairingRefused(g, e, named, k, us)
  /\ SourceOf(named, units, TaskTrace(g, e, us), {}) = {UnitName(g, us)}
ReadAsWired(g, e, named, units, plan) ==
  /\ MoversAreWired(g, e, named) /\ WindowsInRow(g, e, units)
  /\ \A k \in DOMAIN e : \A us \in ToSet(e[k].groups) :
       /\ UnitIsTold(g, e, named, units, k, us)
       /\ CsrsAreTheirs(e, named, units, k, UnitName(g, us),
            Configure(g, plan, e, k, GroupNodes(g, FirstNode(g, us[1]), us)))
(* Of every generated design that is read back at all, what its runs are   *)
(* told by is what the hardware is: a mover of a set is named after the    *)
(* port its words go to, lane by lane, a CSR write after the streamer or   *)
(* the unit that takes it, with the values it takes; a unit has its own    *)
(* group's movers, and a task's trace is its unit's.  The graph, the sets, *)
(* the description and the simulator each list movers in an order of their *)
(* own: where those disagree the read is refused, never guessed.           *)
NamedAsWired ==
  LET e == Entry(graph)
      streamers == PointStreamers(graph)
  IN Generates(graph) /\ ~ ReadRefused(e, streamers) =>
       ReadAsWired(graph, e, FlattenSeq([k \in DOMAIN e |-> NamedMovers(streamers, e[k])]),
                   UnitsOf(graph, e), Plan(graph))
(* Every design that runs as the kernel does is read back: one whose       *)
(* accelerators take turns in the graph is not.                            *)
ReadsBack == Runs(graph) /\ GroupsInRow(Entry(graph)) => ~ ReadRefused(Entry(graph), PointStreamers(graph))
=============================================================================
