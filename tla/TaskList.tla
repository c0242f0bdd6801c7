------------------------------ MODULE TaskList ------------------------------
(***************************************************************************)
(* The lowering's task list (snax_forge/lower/tasks.py): tasks configured  *)
(* and started in order, and the structural rules TaskList.check makes of  *)
(* them.  A list is read from left to right; `conf' and `starts' hold what *)
(* has been read of it.                                                    *)
(*                                                                         *)
(* A component is <<"dma">>, a unit or linked group <<u>>, or a streamer   *)
(* <<u, "in", i>> (a reader) or <<u, "out", i>> (a writer).                *)
(***************************************************************************)
EXTENDS Integers, FiniteSets, Sequences, SequencesExt

VARIABLES
  design,  \* the design point: its units in `order', per unit `acc', `ins' and `outs', the `dma' core
  conf,    \* the tasks configured so far, each with its `after'
  starts   \* the start steps so far, each the sequence of its tasks

(* A design point: its units in the graph's order, a linked group counting *)
(* as one, and per unit its accelerator (one streamer set) and the numbers *)
(* of its readers and writers; and the core that drives the DMA.           *)
Design(D) ==
  LET units == ToSet(D.order)
  IN /\ D.order \in Seq(units) /\ IsInjective(D.order) /\ "dma" \notin units
     /\ DOMAIN D.acc = units
     /\ D.ins \in [units -> Nat] /\ D.outs \in [units -> Nat \ {0}]

DUnits == ToSet(design.order)

DMA == <<"dma">>
Unit(u) == <<u>>
Readers(u) == {<<u, "in", i>> : i \in 1 .. design.ins[u]}
Writers(u) == {<<u, "out", i>> : i \in 1 .. design.outs[u]}
Movers(u) == Readers(u) \cup Writers(u)
Accs == {design.acc[u] : u \in DUnits}
UnitsOf(a) == {u \in DUnits : design.acc[u] = a}
MoversOf(a) == UNION {Movers(u) : u \in UnitsOf(a)}
Components == {DMA} \cup {Unit(u) : u \in DUnits} \cup UNION {Movers(u) : u \in DUnits}

IsDma(c) == c = DMA
IsUnit(c) == c # DMA /\ Len(c) = 1
IsMover(c) == Len(c) = 3

(* A task: its name, its component, and whether it is an idle mover's, all *)
(* of whose temporal bounds are 0: it never starts.                        *)
Task(name, c, idle) == [name |-> name, comp |-> c, idle |-> idle]

Configured == DOMAIN conf
Order == FlattenSeq(starts)
Started == ToSet(Order)
Pending == Configured \ Started

LegalConfigure(t, after) ==
  /\ t \notin Configured
  /\ after \subseteq Configured
  /\ t.comp \in Components
  /\ \A p \in Pending : p.comp # t.comp
LegalStart(ts) ==
  /\ ts # <<>> /\ IsInjective(ts)
  /\ ToSet(ts) \subseteq Pending
  /\ \A t \in ToSet(ts) : conf[t] \subseteq Started
LegalSync(t) == t \in Started
=============================================================================
