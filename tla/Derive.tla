------------------------------- MODULE Derive -------------------------------
(***************************************************************************)
(* A design point's task list, derived (snax_forge/lower/derive.py), then  *)
(* lowered and run.  The graph's accelerated nodes run in order, one group *)
(* of tasks each; a linked group's nodes are one, at the first of them.    *)
(*                                                                         *)
(* The L1 and the L2 hold, per container, the task that last wrote it      *)
(* there: what the properties tell apart of its data.                      *)
(***************************************************************************)
EXTENDS Cluster

CONSTANT Graphs   \* the bound graphs with their design points

(* A graph: its design point, its accelerated nodes in execution order,    *)
(* its linked groups, its containers in order, those with an L2 layout and *)
(* those that are transient.  A node names its unit (its group, in a       *)
(* linked one) and the containers of its ports on no link, in port order.  *)
Graph(G) ==
  /\ Design(G.design) /\ G.design.dma \in Cores
  /\ G.nodes \in Seq(ToSet(G.nodes)) /\ G.containers \in Seq(ToSet(G.containers))
  /\ G.linked \subseteq ToSet(G.design.order)
  /\ \A n \in DOMAIN G.nodes :
       LET N == G.nodes[n]
       IN /\ N.unit \in ToSet(G.design.order)
          /\ N.ins \in Seq(ToSet(G.containers)) /\ N.outs \in Seq(ToSet(G.containers))
          /\ N.unit \notin G.linked => /\ Len(N.ins) = G.design.ins[N.unit]
                                       /\ Len(N.outs) = G.design.outs[N.unit]
          /\ \A c \in ToSet(N.ins) : c \in G.l2 \/ \E m \in 1 .. n - 1 : c \in ToSet(G.nodes[m].outs)
  /\ G.l2 \cup G.transient \subseteq ToSet(G.containers)

ASSUME GraphsAssumption == \A G \in Graphs : Graph(G)

VARIABLES
  graph,
  node,     \* the next node to derive, beyond the last two once the list is whole
  inL1,     \* per container, the task that last put it in L1
  readers,  \* per container, the reader tasks since
  final,    \* per container, the task that leaves it in its last memory
  prev,     \* the previous accelerator task, empty before the first
  l1, l2    \* per container, the task that last wrote it there

deriveVars == <<graph, node, inL1, readers, final, prev>>
vars == <<listVars, programVars, clusterVars, deriveVars, l1, l2>>

Nodes == graph.nodes
Containers == ToSet(graph.containers)
Get(f, c) == IF c \in DOMAIN f THEN {f[c]} ELSE {}
Since(c) == IF c \in DOMAIN readers THEN readers[c] ELSE {}

(* The members of s at the places I, in order.                             *)
Only(s, I) == FlattenSeq([i \in DOMAIN s |-> IF i \in I THEN <<s[i]>> ELSE <<>>])

(* A node's group: a linked group's nodes, else the node alone.            *)
UnitOf(n) == Nodes[n].unit
Members(n) ==
  IF UnitOf(n) \notin graph.linked THEN <<n>>
  ELSE Only([m \in DOMAIN Nodes |-> m], {m \in DOMAIN Nodes : UnitOf(m) = UnitOf(n)})
First(n) == Members(n)[1]

(* A group's outer ports, unit by unit: the node and the container of each.*)
InPorts(n) ==
  FlattenSeq([i \in DOMAIN Members(n) |-> LET m == Members(n)[i] IN
    [j \in DOMAIN Nodes[m].ins |-> [node |-> m, data |-> Nodes[m].ins[j]]]])
OutPorts(n) ==
  FlattenSeq([i \in DOMAIN Members(n) |-> LET m == Members(n)[i] IN
    [j \in DOMAIN Nodes[m].outs |-> [node |-> m, data |-> Nodes[m].outs[j]]]])
Written(n) == {p.data : p \in ToSet(OutPorts(n))}

(* Its tasks.                                                              *)
Load(c) == Task(<<"load", c>>, DMA, FALSE)
Store(c) == Task(<<"store", c>>, DMA, FALSE)
Mover(n, side, i) == Task(<<"node", n>>, <<UnitOf(n), side, i>>, FALSE)
Idle(n, m) == Task(<<"node", n>>, m, TRUE)
Accel(n) == Task(<<"node", n>>, Unit(UnitOf(n)), FALSE)
ReadersOf(n, c) == {Mover(n, "in", i) : i \in {j \in DOMAIN InPorts(n) : InPorts(n)[j].data = c}}
WriterOf(n, c) ==
  Mover(n, "out", CHOOSE i \in DOMAIN OutPorts(n) : OutPorts(n)[i].data = c)

(* loads: a DMA into L1 for each input with an L2 layout not there yet.    *)
Loads(n) ==
  LET ins == [i \in DOMAIN InPorts(n) |-> InPorts(n)[i].data]
  IN Only(ins, {i \in DOMAIN ins : /\ ins[i] \in graph.l2 \ DOMAIN inL1
                                   /\ \A j \in 1 .. i - 1 : ins[j] # ins[i]})

(* streamers: a reader after the task that put its container in L1, a      *)
(* writer after that one and the readers since.                            *)
AfterOld(t, n, in) == \* a mutant: the loads just derived forgotten
  LET i == t.comp[3]
      c == OutPorts(n)[i].data
  IN IF t.idle THEN {}
     ELSE IF t.comp[2] = "in" THEN Get(inL1, InPorts(n)[i].data)
     ELSE Since(c) \cup ReadersOf(n, c) \cup Get(inL1, c)
After(t, n, in) ==
  LET i == t.comp[3]
      c == OutPorts(n)[i].data
  IN IF t.idle THEN {}
     ELSE IF t.comp[2] = "in" THEN Get(in, InPorts(n)[i].data)
     ELSE Since(c) \cup ReadersOf(n, c) \cup Get(in, c)

(* The accelerator's movers, unit by unit, the other groups' idle.         *)
SetTasks(n) ==
  LET movers(u) == [i \in 1 .. design.ins[u] |-> <<u, "in", i>>]
                   \o [i \in 1 .. design.outs[u] |-> <<u, "out", i>>]
      units == Only(design.order, {i \in DOMAIN design.order :
                                     design.acc[design.order[i]] = design.acc[UnitOf(n)]})
      all == FlattenSeq([i \in DOMAIN units |-> movers(units[i])])
  IN [i \in DOMAIN all |->
        IF all[i][1] = UnitOf(n) THEN Task(<<"node", n>>, all[i], FALSE) ELSE Idle(n, all[i])]

(* serial_syncs: before the start of another accelerator than the previous *)
(* one, a sync on the previous one's task unless an `after' holds it.      *)
SerialSyncFree(n, after) == \* a mutant
  IF prev # <<>> /\ design.acc[prev[1].comp[1]] # design.acc[UnitOf(n)] /\ after = {}
    THEN <<SyncStep(prev[1])>> ELSE <<>>
SerialSync(n, after) ==
  IF prev # <<>> /\ design.acc[prev[1].comp[1]] # design.acc[UnitOf(n)] /\ prev[1] \notin after
    THEN <<SyncStep(prev[1])>> ELSE <<>>

(* stores: a DMA out of L1 after the writer, for a container's last write. *)
LastWrite(p) == \A m \in p.node + 1 .. Len(Nodes) : p.data \notin ToSet(Nodes[m].outs)
Stores(n) ==
  Only(OutPorts(n), {i \in DOMAIN OutPorts(n) : /\ LastWrite(OutPorts(n)[i])
                                                /\ OutPorts(n)[i].data \in graph.l2})

DmaSteps(t, after) == <<CfgStep(t, after), GoStep(<<t>>)>>

(* A node's group of tasks, none at a linked group's later nodes.          *)
Group(n) ==
  LET loads == Loads(n)
      in == [c \in DOMAIN inL1 \cup ToSet(loads) |->
               IF c \in DOMAIN inL1 THEN inL1[c] ELSE Load(c)]
      movers == SetTasks(n)
      stores == Stores(n)
      after(i) == After(movers[i], n, in)
  IN /\ steps' =
          FlattenSeq([i \in DOMAIN loads |-> DmaSteps(Load(loads[i]), {})])
          \o [i \in DOMAIN movers |-> CfgStep(movers[i], after(i))]
          \o <<CfgStep(Accel(n), {})>>
          \o SerialSync(n, UNION {after(i) : i \in DOMAIN movers})
          \o <<GoStep(Append(movers, Accel(n)))>>
          \o FlattenSeq([i \in DOMAIN stores |->
               DmaSteps(Store(stores[i].data), {WriterOf(n, stores[i].data)})])
     /\ inL1' = [c \in DOMAIN in \cup Written(n) |->
                   IF c \in Written(n) THEN WriterOf(n, c) ELSE in[c]]
     /\ readers' = [c \in (DOMAIN readers \cup {p.data : p \in ToSet(InPorts(n))}) \ Written(n) |->
                      Since(c) \cup ReadersOf(n, c)]
     /\ final' = [c \in DOMAIN final \cup Written(n) |->
                    IF c \notin Written(n) THEN final[c]
                    ELSE IF \E p \in ToSet(stores) : p.data = c THEN Store(c) ELSE WriterOf(n, c)]
     /\ prev' = <<Accel(n)>>

(* The next node of the walk.                                              *)
Walk ==
  /\ steps = <<>> /\ ~refused /\ node <= Len(Nodes)
  /\ node' = node + 1
  /\ IF First(node) = node THEN Group(node) ELSE UNCHANGED <<steps, inL1, readers, final, prev>>
  /\ UNCHANGED <<graph, listVars, covered, waited, lines, refused, clusterVars, l1, l2>>

(* And at the end a sync per container it leaves in its last memory.       *)
Finish ==
  LET written == Only(graph.containers, {i \in DOMAIN graph.containers :
                                           graph.containers[i] \in DOMAIN final \ graph.transient})
  IN /\ steps = <<>> /\ ~refused /\ node = Len(Nodes) + 1
     /\ node' = node + 1
     /\ steps' = [i \in DOMAIN written |-> SyncStep(final[written[i]])]
     /\ UNCHANGED <<graph, inL1, readers, final, prev>>
     /\ UNCHANGED <<listVars, covered, waited, lines, refused, clusterVars, l1, l2>>

LowerStep == Lower /\ UNCHANGED <<clusterVars, deriveVars, l1, l2>>
RunMain == node = Len(Nodes) + 2 /\ Run /\ UNCHANGED <<deriveVars, l1, l2>>

----------------------------------------------------------------------------
(* The memories.                                                           *)

Fresh == Task(<<"fresh">>, <<>>, FALSE)     \* a container's value before the program
Nothing == Task(<<"nothing">>, <<>>, FALSE) \* never written
NodeOf(t) == t.name[2]
Data(t) ==
  IF IsDma(t.comp) THEN t.name[2]
  ELSE IF t.comp[2] = "in" THEN InPorts(NodeOf(t))[t.comp[3]].data
  ELSE OutPorts(NodeOf(t))[t.comp[3]].data
IsLoad(t) == t.name[1] = "load"
IsStore(t) == t.name[1] = "store"
ReadsL1(t) == ~t.idle /\ IF IsDma(t.comp) THEN IsStore(t) ELSE IsMover(t.comp) /\ t.comp[2] = "in"
WritesL1(t) == ~t.idle /\ IF IsDma(t.comp) THEN IsLoad(t) ELSE IsMover(t.comp) /\ t.comp[2] = "out"

TaskEnds(t) ==
  /\ EndTask(t)
  /\ l1' = IF WritesL1(t) THEN [l1 EXCEPT ![Data(t)] = t] ELSE l1
  /\ UNCHANGED l2
DmaEnds ==
  /\ EndDma
  /\ LET c == Data(Head(queue))
     IN IF IsLoad(Head(queue)) THEN l1' = [l1 EXCEPT ![c] = l2[c]] /\ UNCHANGED l2
        ELSE l2' = [l2 EXCEPT ![c] = l1[c]] /\ UNCHANGED l1

Off == UNCHANGED <<listVars, programVars, deriveVars>>
CoreSteps(k) == Do(k) /\ UNCHANGED <<l1, l2>> /\ Off
BarrierStep == DoBarrier /\ UNCHANGED <<l1, l2>> /\ Off
DmaStep == DmaEnds /\ Off
EndStep == (\E t \in active : TaskEnds(t)) /\ Off
Stopped == (refused \/ (Returned /\ Quiet)) /\ UNCHANGED vars

Init ==
  /\ graph \in Graphs
  /\ LowerInit(graph.design)
  /\ ClusterInit
  /\ node = 1 /\ inL1 = <<>> /\ readers = <<>> /\ final = <<>> /\ prev = <<>>
  /\ l1 = [c \in Containers |-> Nothing]
  /\ l2 = [c \in Containers |-> IF c \in graph.l2 THEN Fresh ELSE Nothing]

Next ==
  \/ Walk \/ Finish \/ LowerStep \/ RunMain
  \/ \E k \in Cores : CoreSteps(k)
  \/ BarrierStep \/ DmaStep \/ EndStep \/ Stopped

(* The cores execute, the hardware ends what is started.                   *)
Fairness ==
  /\ \A k \in Cores : WF_vars(CoreSteps(k))
  /\ WF_vars(BarrierStep) /\ WF_vars(DmaStep) /\ WF_vars(EndStep)
Spec == Init /\ [][Next]_vars /\ Fairness

----------------------------------------------------------------------------
(* The write the graph's order puts before node n's use of a container.    *)
Before(c, n) ==
  LET ms == {m \in 1 .. n - 1 : c \in ToSet(Nodes[m].outs)}
      last == CHOOSE m \in ms : \A x \in ms : x <= m
  IN IF ms = {} THEN Fresh ELSE WriterOf(First(last), c)

Wanted(t) ==
  IF IsDma(t.comp) THEN Before(Data(t), Len(Nodes) + 1)
  ELSE Before(Data(t), InPorts(NodeOf(t))[t.comp[3]].node)

(* A reader or a store under way finds the container as its last write     *)
(* before that node left it, no other task writing it meanwhile, and no    *)
(* two tasks write one container at a time.                                *)
UsesInOrder ==
  LET now == active \cup ToSet(queue)
  IN \A t \in now :
       /\ ReadsL1(t) => /\ l1[Data(t)] = Wanted(t)
                        /\ \A w \in now : ~(WritesL1(w) /\ Data(w) = Data(t))
       /\ WritesL1(t) => \A w \in now \ {t} : ~(WritesL1(w) /\ Data(w) = Data(t))

(* When the accelerators' core goes on to forge_check, every output is in  *)
(* its last memory, as its last writer left it.                            *)
OutputsFinal ==
  running /\ Over(SlotCore) =>
    \A c \in Containers \ graph.transient :
      LET w == Before(c, Len(Nodes) + 1)
      IN w # Fresh => (IF c \in graph.l2 THEN l2[c] ELSE l1[c]) = w

(* Whatever the cores, the streamers and the DMA do side by side, memory   *)
(* is used in the graph's order: by every task, and by the check at the    *)
(* end of main, which reads the outputs.                                   *)
Coherent == UsesInOrder /\ OutputsFinal

(* Accelerators run in series (D158): never two streamer sets under way.   *)
InSeries == Cardinality({a \in Accs : \E t \in active : t.comp \in MoversOf(a)}) <= 1
=============================================================================
