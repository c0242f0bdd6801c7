# SNAX-FORGE in TLA+

TLA+ models of SNAX-FORGE: the control and the datapaths of the accelerators it
generates, the program it lowers a design to and that program on the cluster,
the transforms that map a kernel and what the mapped graph does on the hardware,
the memory plan, the records read back from a simulation, the editor with its
session and its server, and the flow that builds and runs all of it. TLC checks
them on small instances, TLAPS proves the theorems listed below for every value
of the constants. Paths are the repository's; `forge/` stands for
`hw/chisel/src/main/scala/snax/forge/`, other paths for `snax_forge/...`.

## The system

SNAX-FORGE takes a kernel to an accelerated program on a SNAX cluster:

    kernel --import--> dataflow graph --sandbox (recipe)--> bound graph
      --design (platform, memory plan)--> design point --lower--> task list --> main.c
                                                      --gen-->   accelerator.json --> RTL / GVSoC
      --run--> events --> profile, reports, viewer

| Component | State | Operations | Talks to | What makes it correct |
|---|---|---|---|---|
| Control rule of a group (`forge/ctrl/GroupRule.scala`) | run registers, per unit counters, II gap, pipeline, lane; per link a ring | one clock cycle; a start | valid/ready to the streamers, start/done to GroupCtrl | one solution per cycle, nothing lost, exactly JOBS results, `done` in the last cycle |
| CSR manager (`forge/shell/AccCsr.scala`, `forge/ctrl/GroupCtrl.scala`) | CSRs, done bit, COUNTER, kept answer | a request, an answer taken, a group's cycle | the core's CSR port, the groups' start handshakes | STATUS and COUNTER exact, a read answered once, the port not held for ever |
| Datapaths (`forge/datapath`, `forge/elementwise`) | accumulator, pipeline data, buffer slots | a cycle under the rule's enables | the rule | a result is its own job's fold |
| Slicer and packer (`forge/stream`) | a held word, a count | a word in, a slice out | streamer, unit | no slice lost or doubled at the last word |
| Task list (`lower/tasks.py`) | its steps | configure, start, sync | derivation writes it, lowering reads it | its structural checks |
| Waits and program (`lower/waits.py`, `lower/c.py`) | per component its latest task, what is waited for, per core its code | one per step | the cluster | a start finds its components idle and its `after` over, on every core |
| Derivation (`lower/derive.py`) | where each container is and who reads it | a group of tasks per node | design point | the program's data flow is the graph's |
| Streamer values, layout (`lower/streams.py`, `layout.py`, `design/streamers.py`) | none | a memlet to bounds and strides | derivation | the words moved are the elements named |
| Cluster (external) | cores, registers, streamer sets, DMA queue, barrier, banks | a core's instruction, a task's end, a cycle | all the above | - |
| Session (`sandbox/session.py`, `sandbox/recipe.py`) | recipe, graphs, cursor, caches, two files | apply, move, set_params, save, resume, queries | editor server | what is shown and cached is what the recipe gives; resume gives it back |
| Editor server (`viz/dfg/server.py`, `viz/server.py`) | the open session, the loaded files | open, edits, views, in threads | session | a page is of one graph |
| Transforms (`sandbox/transforms.py`, `compose.py`) | none (graph to graph) | one per transform | session, dfg | the graph computes the same, the inverse gives it back |
| Graph (`dfg/`), import (`sdfg/`), BRM (`brm/`) | none | build, check, execute | all | execution order, reference execution |
| Design (`design/`) | none | checks, memory plan | lower | containers do not overlap, what is accepted lowers and computes |
| Generation (`gen/`), estimate (`estimate/`, `char/`), reports (`report/`), viewers (`viz/`) | none | one pass each | files | - |
| Records (`run/`) | open regions and beats while reading a log | an event | simulator's log | the records are the run |
| Flow (`flow/`) and the simulator's build (`gvsoc/Makefile`) | an output folder, the shared install and its lock | stages of a run | all the above | a stale file is never taken for current |

What is hard: in the hardware, units of a chain decide within one cycle whether
they fire, each on what its neighbours decide; counters never hold the product
they stand for; a start clears only some registers. In the program, several
cores, streamers, units and a queueing DMA run at once, and the waits between
them are placed sparsely from what earlier waits are known to cover. From a
graph to its streamers, the same loops are read in four places that must agree.
In the editor and the flow: cached answers, threads, files written one after the
other, and processes killed between them. `PROJECT.json` lists the hazards at
their lines.

## Modules

| Module | Models | Correspondence |
|---|---|---|
| `GroupRule` | `forge/ctrl/GroupRule.scala` | one register per variable; the forward and backward passes are the predicates `Forward` and `Backward` on a cycle's signals; `Tick` is a cycle, `Begin` a cycle with a start. `fired`, `given`, `pushed` are history, not registers |
| `GroupRun` | what a group promises (`GroupRule.scala`'s comment, `GroupCtrl`'s idle/busy) | a start of JOBS, one result at a time, idle with the last |
| `GroupData`, `MCGroupData` | `forge/datapath/*`, `ElementwiseLanes`, `AccDatapath`'s wiring | `GroupRule` with the beats' data: an operator's value is the fold of the beats it came from |
| `AccShell` | `forge/shell/AccCsr.scala`, `forge/ctrl/GroupCtrl.scala` | one step is one cycle: a request (or none), the answer taken or not, each group on or off; a group runs any number of cycles. `due` is history: the value a taken read asked for |
| `TaskList` | `lower/tasks.py`; the design's units and sets (`design/streamers.py`) | a task is its name, component and idleness; the structural checks are `LegalConfigure`, `LegalStart`, `LegalSync` |
| `Lowering` | `lower/waits.py`, `lower/c.py` | one action per step of a list; `lines` is each core's code, a sequence of instructions |
| `Cluster` | `c.py`'s `main.c`, and from how it is used the cluster | one action per instruction, task end, transfer end |
| `Derive`, `MCDerive` | `lower/derive.py` | `Walk` derives a group, `Finish` the final syncs, then the list is lowered and run; `l1`, `l2` hold the task that last wrote each container |
| `Listed`, `MCListed` | hand-written lists (`docs/CONTRACTS.md` section 9) | `Write` adds one step at a time, any configure, start or sync in any order, or ends the list; what the checks refuse, `Lower` refuses. `NextSteps` bounds what TLC is given |
| `Session`, `MCSession` | `sandbox/session.py`, with what it calls of `recipe.py`, `run.py`, `transforms.py` and `compose.py` | `recipe`, `graphs`, `cursor`, `own` are the object's; `sites` is its cached forms, `derived` its cached marks, estimates and checks; `disk` is the two files, `pending` those a request has still to write; one action per request, `WriteFile`, `Crash`, `Resume` |
| `Editor`, `MCEditor` | `viz/dfg/server.py`, `viz/server.py`, `common.py`'s loading, and the session's lock | a thread per request, one action per stretch that runs under a lock or between two reads; `Threads` are viewers, changers and openers |
| `GvsocBuild`, `MCGvsocBuild` | `flow/run.py`'s build of SNAX-GVSoC, `gvsoc/Makefile` | `install`, `buildDir`, `checkoutTxt`, `lock` are the shared folder; one action per line of the recipe and per stage that uses it; a developer changes the checkout |
| `Flow` | `flow/run.py`, `flow/forge.py`, `gen/bundle.py` | the folder is a function from each file to the version and flow it was written from; one action per stage, a kill or a refusal at any of them |
| `Placement`, `MCPlacement` | `design/memory.py`, the memory checks of `design/check.py` | `Pass`, `Try`, `Bump`, `Put` are `contiguous_placement`'s loops, `Judge` the checks, `FollowFix` a user who does what the check proposes |
| `Simulated` | external: a traced SNAX-GVSoC run | `Simulate` is one cycle of readers, unit, writer, DMA and banks; it keeps the truth beside the log |
| `Records`, `MCRecords` | `run/convert.py`, `run/beats.py` | `ReadAll` reads a whole log; `Lost`, `Twice`, `Wrong` one with a line lost, doubled or wrong (`Wrongly` lists how), `Cut` one that lacks some cycles |
| `Views` | `viz/index.py`, `movement.py`, `schedule.py`, `cluster.py`, `memory.py`, `run/regions.py` | operators over the records `Records` read: what each answer of the viewer shows, compared with what the simulation did |
| `Dataflow` | `dfg/graph.py`, `dfg/execute.py`, `dfg/pad.py`, `brm/function.py` | a graph is its maps, nodes in order and containers; `Execute` is the reference executor |
| `Mapping`, `MCMapping` | `sandbox/transforms.py`, `compose.py`, `patterns.py`, `run.py` | an action per transform; a transform gives `{}` when it refuses |
| `Generated` | `design/streamers.py`, `gen/accelerator.py`, `gen/csrs.py`, `gen/headers.py`, `gen/gvsoc.py`, `lower/c.py`'s CSR writes; `forge/shell` | `Entry` is the streamer sets with their movers as the template has them and their CSRs and ports as `accelerator.json` has them; `CsrValue`, `WriteJobs` are what the program writes, `MoverAt`, `Started`, `JobsOf`, `TOf` what the hardware makes of it |
| `Streams` | `design/check.py`, `lower/derive.py`, `layout.py`, `gen/data.py`, `forge/shell` | `Accepted` is the design checks of ports, `MemletValues` and `Addresses` the streamers, `Configure` a task's CSRs, `Pass` a node's loads, run and stores, `Lower` the whole program on the arrays of `data.h` |
| `Readback` | `run/cluster.py`; `run/beats.py`'s mover CSRs and pairing, `run/convert.py`'s sources, `gen/gvsoc.py`'s traces and slot | operators over a graph's generated files: the order the graph, the sets, the description and the simulator each list movers and units in |
| `GroupProofs`, `AccShellProofs`, `ClusterProofs`, `SessionProofs`, `FlowProofs`, `PlacementProofs`, `GvsocBuildProofs`, `EditorProofs` | - | the theorems, each about the modules it extends |

How they compose. `Derive` and `Listed` extend `Cluster`, that `Lowering`, that
`TaskList` (`Listed`'s actions have its name, so that one proof module extends both): one state machine from the graph (or the hand-written list) to the
program's end. `Streams` extends `Generated`, that `Mapping`, that `Dataflow`: from
every graph the
transforms reach, what the reference executor gives and what the lowered program
leaves in memory; `Readback` what a run of it is read back as. `Records` extends `Simulated`. `GroupData` extends `GroupRule`,
which implements `GroupRun` (`GroupRunSpec`); `AccShell` uses `GroupRun`'s view of
a group, and `RunsAsAsked` says each group, as the CSR port drives it, is one:
`GroupRun!Start` allows a start of any JOBS, which is all a group can promise, and
`AskedStart` ties it to the JOBS CSR at the accept.
`Session` ends with the graph where `Mapping`'s are checked; `Editor` is the same
session seen from its server's threads.

## What the runs check

| Run | Properties | Shows |
|---|---|---|
| `Group_runs` | `TypeOK RingInv WiresDetermined LeftIsCount Conserved NeverStuck DoneIsFinished ResultsAreJobs GroupRunSpec` | The control rule of a group, with the catalogue's datapaths under it, is right on every chain of up to two units and on the shipped designs: its two passes settle on one solution, its nested counters decide as counts of results would, nothing is lost in a pipeline or a buffer, it never waits on itself, it ends a run exactly with the run's last work, and each result is the fold of its own job's beats. |
| `AccShell_port` | `StatusExact CounterExact ReadsAnswered RunsAsAsked RequestsTaken` | Two groups, one with a JOB_BEATS, behind one CSR port: STATUS and COUNTER say what a polling host relies on, each read is answered once, with what stood when it was taken, each group runs as GroupRun says, the JOBS of its START whatever is written afterwards, and a held START holds the port for a while only. |
| `Derive_graphs` | `Coherent InSeries AfterHonoured Returns` | Every two- and three-node graph over two units and three containers, derived, lowered to three cores and run against streamers, units and DMA: no task starts before those it is after, on whichever cores, data is read in the graph's order, the outputs are final when the check reads them, and main returns. |
| `Listed_lists` | `AfterOnCore StartsFindIdle` | Hand-written lists of configures, starts and syncs, a start any number of steps after its configure, of three parts over one unit, with the DMA on its core and on another, or of two parts over two accelerators or two units of one: on each core the waits placed are enough. |
| `Session_recipe` | `GraphsAreTheRecipes AnswersCurrent FilesReplay` | A session from a kernel and from two recipe files: numbers become params, binds rename them, and undo, redo, drops, param changes, refusals and crashes between the two files leave its graphs, answers and files those of its recipe; what Save writes replays to the graphs shown. |
| `GvsocBuild_shared` | `RecordedUnlessDropped BuiltOnce` | Two flows and a make by hand over the two shared GVSoC checkouts, with edits, moves and discarded edits between the steps and kills at any of them: a simulator is built once for each state of the sources, and the commit a flow records is what it ran unless an edit was dropped. |
| `Flow_folder` | `NothingStale ForgeIsOne` | Flows, forges and hand-made bundles over one output folder, from either start, stopped by a refusal or killed at any stage and started again with the same recipe or another: no file of an earlier flow is taken for this one's, and what the forge left in place answers for one recipe. |
| `Editor_requests` | `UntouchedIsWhole FolderIsShown` | The editor server's threads over one session, its page's GETs between the POSTs that apply, move, change params and open others: a page no edit touches is of one graph, sessions opened one after the other never share a folder, and the files are those of the recipe shown. |
| `Records_log` | `WholeLogIsRead FaultsAreRefused ViewsTellTheRun` | The logs of the readers, the unit, the writer and the DMA of a simulated cluster, read back into the records: a whole log is read to what was simulated, cycle by cycle and bank by bank, and a log that lacks some cycles, or has a line lost, doubled or wrong in its cycle, address, numbers, words or class, is refused; and what the viewer shows of the records, an element's firings, the folded stretches and rows, the blocks at a cycle, is what the run did. |
| `Placement_plans` | `Apart FixHolds AlwaysJudged` | Every plan of up to three containers and two pins: containers live together never share a beat of a memory, the fix a check proposes can be followed, and planning ends. |
| `Mapping_transforms` | `StepsPreserve InversesUndo LinksHold LoweredComputes NamedAsWired` | Every sequence of transforms and compositions, to the bound, over ten small kernels, some with a tail: each gives a graph that computes what the kernel does, each inverse undoes its own, links stay chains of one group, and every graph the design checks accept, lowered to streamer values, JOBS, T and whole-block transfers, leaves in memory what the kernel computes; and the names a run's lines are read back by are those of the hardware they came from. |
| `Derive_hoisted` (violated) | `Coherent` | A linked group runs whole at its first unit's node, before a node between its units that writes what a later unit reads. |

Passing runs check deadlock too, except where the system may really stop
(`Editor`, `Flow`, `Placement`, `Mapping`: a session or a flow may end).

**Finding 1 (`Derive_hoisted`).** A linked group's tasks are all derived at its
first unit's node (`lower/derive.py:259`). A node between its units that writes
what a later unit reads is derived after the group, so that unit reads the old
contents; `derive.py:4-5` and `docs/CONTRACTS.md:172` say nodes run in execution
order.

### Further divergences

Each of these is a property with a configuration beside the runs, which TLC
finds violated (of a configuration that lists several, with one of them left in).

- `Listed_twocores` (`AfterHonoured`): a wait for a task of its own core emits no
  barrier (`lower/c.py:447`), and marks the task as waited for every core. A later
  start on the other core that names it in `after` gets neither wait nor barrier:
  DMA `d1`; DMA `d2` after `d1`; a unit after `d1`. Only a hand-written list on a
  cluster with a core of its own for the DMA meets it.
- `Session_limits` (`FormNamesFree`): a form's proposed names are computed with the
  cached sites of a step (`sandbox/session.py:533`), and only a change *before* a
  step drops them. Ask for the sites of step 0, apply there (the param `W` is
  added), undo: the form of step 0 still proposes `W`, which is taken.
- `Session_limits` (`Reopens`): a redo step whose param is set to a text refuses
  with a plain `SandboxError`, not a `StepError`, and `Session.__init__` catches
  only the latter past the cursor (`sandbox/session.py:235`). A session may be
  undone past such a step, saved in its files, and then not open again.
- `Session_limits` (`ErrorMakesNoStep`): `apply` replaces recipe and graphs and
  writes both files (`sandbox/session.py:412`) before it computes the answer's
  diff, whose estimate raises for a bound unit when `snax-gvsoc` is not checked
  out (`:418`): the request is answered with an error and the step is there.
- `Editor_torn` (`OneChangeAtATime`): a page's GET reads graph, marks, diff and
  checks one by one (`viz/dfg/server.py:281-301`); with an apply, a move and a
  param change between them, a page is of no one state. `sandbox/session.py:116-117`
  says a lock covers the requests.
- `Flow_refused` (`NamesWhatItHas`): a bundle stopped between its parts leaves the
  earlier `bundle.json` beside newer files (`gen/bundle.py:145-155`);
  `docs/CONTRACTS.md:676` says it names what the folder has.
- `GvsocBuild_dropped` (`RecordedRan`): an edit built into the shared install and
  then dropped with git leaves it there with the recorded commit's mark; the
  next flow finds the checkout clean and runs it (`flow/run.py:401-415`).
- `Placement_pinned` (`NeverOverAPin`): a pinned container whose base lies under an
  earlier pinned one is placed over it (`design/memory.py:344-349`), where the
  module says pins are placed around (`:46-47`); the overlap check then refuses.
- `Mapping_limits` (`CanGoBack`): a second split of a split map overwrites the
  record its join reads (`sandbox/transforms.py:316-324`), so a graph with every
  record undone need not be the imported one (`:78-81` says a join restores it).
- `Mapping_limits` (`LoweredWhole`): a kernel that writes a part of an output stores
  its whole block (`lower/derive.py:302-312`, `411-432`) without loading it first,
  so the rest of the output is what L1 held; `data.h`'s self-check compares it all.
- `Mapping_limits` (`LoweredComputes` on `sums_fixed`, sums of literal sizes): a fold's T that is a
  number is built into the unit from the instance's *first* node
  (`gen/accelerator.py:455-476`, `lower/c.py:148-158`); a second node of the
  instance that folds another number of beats gets the first one's T. Nothing
  checks that they agree. With symbolic sizes (the run) T is a CSR and is right.

- `Mapping_limits` (`ReadsBack`): the design point's streamers are in the graph's order,
  `accelerator.json`'s units accelerator by accelerator. Where two accelerators take
  turns in the graph (two units encapsulated, another's node between theirs) the
  orders differ and `run/cluster.py:464` refuses to read the run (`cluster.instances`),
  though the design was generated and runs right.

What the transforms rest on the reference check for, not on their guards (each
then refuses at its step; `Unchecked` leaves them out): a split with a tail of a
map that is half of a split (`dfg/execute.py:284-295` knows one tail); a join of a
split whose inner map was split since; `split_reduce` under a map the reduction
also runs over (`compose.py:105-153` would double); a map made spatial round a
unit, which `join_map` untags though `untag_map` refuses (`transforms.py:354-364`).
Two more of encapsulation: `Mapping_limits` shows `EncapsulatedComputes` violated by
a linked group with another unit of its accelerator between its two in the graph
(multiply and sum linked, an add between, all in one accelerator). `describe` lists an
accelerator's outer ports group by group (`gen/accelerator.py:517-535`), the template
and the program its movers unit by unit in the graph's order (`gen/gvsoc.py:270-302`,
`lower/c.py:260-274`), so the two writers are wired crosswise; `gen/accelerator.py:21-22`
says the ports are "in its streamer's reader and writer order". And `encapsulate`
takes one unit of a linked group without the other (`docs/DECISIONS.md:136`), which
`describe` then looks up in vain (`GroupsWhole`). Both are hypotheses of
`LoweredComputes`. Also seen while modelling: `unfuse_map` refuses after a `join_map` of the fused
nest; `split_reduce` of a two-input fold raises a plain
`ValueError`; linking a container of an instance with two nodes is accepted and
its lowering refuses (`derive.py:283-288`).

### Bounds

- `Group_runs`: `AllChains` is one unit with every latency to 3, II to 3, span to
  2; two units with every pair of latencies to 2 over a wire and buffers of depth
  1 and 2, and with II, span and ports; three units with wires that borrow twice
  and buffers between folds; `Designs` are the catalogue's. `Width = 2`, JOBS and T
  in {1, 3}: 3 is the width's largest value, so a product of two T is beyond it,
  which is what the nested counters are for.
- `AccShell_port`: two groups, one with a JOB_BEATS, with JOBS of two bits and the other
  CSRs of one, runs of up to `MaxCycles = 2` counted cycles, so COUNTER saturates.
  The host writes the values of `Written`, 0, 1 and 2, so a run of one job, of two and an
  empty one are told apart, also when JOBS changes under them; the groups of `Long` are
  given several jobs. Wider registers are what the theorems are for.
- `Derive_graphs`: every two-node graph over three containers on one unit, two
  accelerators and two units of one, with and without a transient container;
  every three-node graph of two units; some with two inputs and one linked
  group. Three cores, one of them idle; a DMA queue of two transfers.
- `Listed_lists`: three parts on one unit, with the DMA driven by its core and by
  another, two parts on two units; a part is a transfer, or a unit with its set, the
  first task of each after any one task before it; a DMA queue of one transfer, so it
  is often full. Starts come any number of steps after their configures, several
  pending together and started together or one by one, a set's movers apart from
  their unit with two parts; one sync. Two parts and the closing syncs already make
  every pair of a start and a wait another one covers; the third gives a wait
  covered through two others. `NextSteps` is only this bound: the theorems are for any.
- `Session_recipe`: two maps and one link, so that a param can be shared, a bind
  rename one of two names, and a link refuse because of another step's param. It
  starts from a kernel, from a recipe whose own param both splits share, and from
  one whose splits are numbers: up to three steps from the kernel, five and four
  from the recipes of four; two or three params. A param set to 1 (the others are
  2) breaks a link further on, a text refuses a redo step. `Asked` is the step
  whose cached answers are asked for beside those every apply fills.
- `Editor_requests`: a viewer's page, a changer with two requests and two openers
  (interchangeable), recipes of up to two steps, a param of two values one of
  which a step refuses, two writes of an input file: a page can meet an apply, a
  move, a param change or a new session between any two of its reads.
- `GvsocBuild_shared`: two flows (interchangeable) and one build by hand, an install
  of two files, two commits, one edit, two kills; a developer with one habit a
  behaviour (edits, moves of HEAD, dropped edits).
- `Flow_folder`: three flows and two forges over one folder, of two recipes one of
  which is refused, and one bundle made beside them; each may be killed at every
  stage. One flow at a time uses a folder: nothing in the code keeps two apart. A
  forge lets its folder go after its own flow, so up to `Beside = 2` flows may begin
  under its later stages: two are what it takes to deceive its sha check.
- `Records_log`: two tasks of every nest of `ThreeNests` (one with a zero stride) on
  a unit of one and of two firings a beat, FIFOs of two words, four banks, one DMA
  copy that waits for a cycle, seven address bits, one idle cycle between tasks and
  three after the last, so that the schedule has a stretch to fold; every line
  lost, doubled or wrong in each way of `Wrongly`, and every stretch of cycles cut
  out. Three regions share fifteen rows: one dense and padded to
  a beat, one whose rows move by two different steps, one of a single row.
- `Placement_plans`: up to three containers of five kinds, up to two pins, at every
  base; words of 2, DMA beats of 4, 32 bytes of L1 with 6 for the runtime; two
  fixes followed.
- `Mapping_transforms`: ten kernels (`dot` with and without a tail, with pads and
  with a node between its two, a chain of three, matrix-vector, a stencil that writes
  part of its output, `axpy` in place, a vector add and two sums), each split by its `factors`, with
  `splits` maps more than its own; the ones with `neutral` also take the steps
  that only rename or retag. Bytes of 6 bits, bank words of 2 and DMA beats of 4,
  so that an element of 6 bits has two slices in a word and one of 8 bits is two
  bytes; a pointer's halves are of 3 bits, the CSRs start at 5; L1 first holds each
  value of `Junk`. Every refusal of the modelled checks
  occurs, and every kernel has graphs the checks accept.

### Fairness

- `GroupRule`: none; that a run does not hang is `NeverStuck`, a safety property:
  with inputs there and the output taken some unit moves.
- `AccShell!Fairness`: the host takes answers, a run goes on.
- `Derive`, `Listed`: a core executes an instruction it can execute, a barrier all
  cores stand at is passed, a transfer and a started task end. These are the
  cluster's clock; the program's own waits are not assumed to end.
- `Placement`: weak fairness of the plan's own loop, which is sequential code.
- The others: none; what is asked of them is safety.
- `Stopped` in `Cluster` is the program's end, a step that changes nothing, so that
  TLC's deadlock check still finds every other state without a step.

## What is proved

Every theorem is `Spec => ...` of the module the proof module extends, for any
constants that keep the modules' `ASSUME`s: chains of any number of units with any
latency, II, span, depth and width; any number of groups, flows, forges, users,
commits, kills, containers and pins; any design point, list, graph and number of
cores. The properties were checked with TLC before they were proved. The library's
induction takes an operator, which the provers cannot instantiate: the proof modules
that need one state induction over a *set* of numbers, from the pigeonhole principle
or the well-founded order of the naturals.

**`GroupRule`** (`GroupProofs`).

- `Typed`, `Rings`: one inductive invariant, `TypeOK /\ RingInv`: that a fill stays
  within its depth needs that a load happens only with room (`Room`) and a take
  only from a fill above 0 (`Avail`), not the counters.
- `RunKept` is the invariant of the rest, `RunInv`. It says per unit that its digits
  are the mixed-radix numeral of what it gave (`Numeral`; no partial product is
  over the result's, `Counted`); that a unit which borrows the next one's test is in
  step with it, as the two share a wire; that what a unit gave is what its pipeline
  holds and what it pushed; per link, that what was pushed is what was taken and what
  the buffer holds; and that an idle group is empty. `LeftIsCount` (`CountersDecide`)
  needs all of it, as a borrowed test is only right while the wire holds nothing;
  `Conserved` (`RunConserves`) is two of its conjuncts.
- `RunEndsWhenFinished`: `Done` is raised when the sink's numeral is at its end;
  that every earlier unit is then at its own follows down the chain from the
  balances. `RunImplemented`: with that, `GroupRun` step by step under
  `busy`, `jobs - pushed[Sink]`.
- `RunNeverStuck`: were nothing to move, then from the sink up no unit with work left
  could be starved or full, and the head has its inputs. `RunDetermined`:
  the backward pass determines who is ready down the chain, the forward one who
  fires, by induction along it.

**`GroupData`** (`GroupProofs` too). `ResultsAreTheirJobs`: `DataInv` says what every
register, pipeline stage and buffer slot holds, as the span of the head's beats that
its count in `RunInv` names; a slot's number is its distance from the read pointer
(`Rings`). `DataDecideNothing`: a behaviour of `GroupData` is one of `GroupRule`, so
the theorems above hold of it.

**`AccShell`** (`AccShellProofs`). `ShellTyped`, `StatusAlwaysExact`,
`CounterAlwaysExact`, `ReadsAlwaysAnswered`: one inductive invariant `ShellInv`,
type correctness with the three properties (the kept answer is the value the read
met), strengthened by what a run owes
(`running[h] <=> left[h] > 0`): STATUS is exact because a start is accepted only
when idle (`AcceptedIdle`), so that the done bit it clears and the run it begins
change together, and an empty run sets it in the same cycle. `GroupsRunAsAsked`:
with it each group, whatever the port and the others do, implements `GroupRun`, and
its starts carry the JOBS that stood at the accept (`AskedStart`), later writes
notwithstanding.

**`Flow`** (`FlowProofs`). `FolderNeverStale`: `FolderInv` says what each file that is
there agrees with (`Chained`), what a flow at its stage has cleared and not written
again (`NotYet`: this is why a failure between two stages leaves nothing stale) and
what it has written (`Written`), and that the program is made of `gen/` or known
to be older (`ElfFresh`). `ForgeMakesOne`: `ForgeInv` follows the forge's stages after
its own flow, with the flow that begins beside it. The proof did not go through for
any number of flows, and rightly: of two flows begun under a forge's later stages the
first can leave its expected lines and stop, and the second make the forge's
design's program again, whose sha then matches (`flow/forge.py:174`). So the property
speaks of at most one, and the run has two.

**`Placement`** (`PlacementProofs`). `PlacedApart`: `Put` places at a base with which
nothing placed clashes, and a later `Put` clashes with nothing; the alignment only
moves a base up to the least multiple (`RoundUp`), so the beats it takes are its own.
`FollowedFixHolds`: the fix is the end of the *other* containers in the refused plan.
The plan made again is another one, as the pin has moved. `MovedLast` compares the two:
with `P` the old plan of the others, all clear of every pin and ending before the
moved one, each pass of the new one puts its container at or below its place in `P`,
as that place is free of pins and above all that was put before; so nothing reaches the pin.

**`GvsocBuild`** (`GvsocBuildProofs`). `BuildInv`: a build by hand holds the lock and is
alone; whoever makes at once (a flow and orphaned makes of killed ones) is of one
checkout, which `checkout.txt` names, and so installs one content; a commit in
`checkout.txt` is the one *every* file was built from (`CommitTold`); unless edits
are dropped, a file of a clean tree's commit has no edit in it (`EditsTold`); and the
tree a flow decided on is the tree until its run, while the install is that tree's.
`RecordedWhatRan` follows from the last of these, `BuildsOnce` from `CommitTold`.

**`Editor`** (`EditorProofs`). `ServerInv`: a session whose lock is free is `Good`, its
graphs its steps' to the cursor at least; one whose lock is held belongs to one
request, and what that has stored is its new state's, what it has left to store the
rest (`Half`: the stores are one by one, so no session is ever simply good). A reader
no change reached holds what its session still holds (`Holds`), so that a store
either touches it or leaves every part it has got true (`StillHolds`), and its next
part is of the same state. A view of step `k` takes its 404s and 400s from its first two
parts, which is why an untouched one is answered. For `FoldersShown`, `FolderParts`: a
session's folder holds it or its request's write is still to come; without two opens
under way at once an opener's name is nobody's folder. A redo that
stops at a refusing step stores graphs only and never writes, and need not: neither
file has graphs in it.

**`Session`** (`SessionProofs`). `SessionInv`. In memory (`MemoryOK`): the graphs are a
`Chain` of the recipe, the first its import and each next one its step on the one
before, none a refusal; the cursor is within them, and each cache's entry is of the
graph its step has. On disk (`FilesOK`): between the writes a request has left the pair
of files shows the graph of the cursor or the one shown before, and the new recipe
with the old cursor does so too, so that a crash after either write does no harm. A saved
recipe is a `Chain` that ends at its last step (`SavedOK`). `CachesCurrent` needs no
more than the first; `FilesShow` needs them all. What a request must be shown to
keep is the chain: a trial step, a drop and a move only cut or extend it; `set_params`
makes it again from the import; a rename or new params leave every step's value, as
the new names are fresh (`fresh_param`'s search always ends: names are many, a
recipe's params finitely many) and what a step names is known. That the replay
computes a chain (`RunIs`) is an induction along the steps.
`StartsAssumption` says that a session starts from a recipe whose steps replay, as
`from_kernel` and `from_recipe` require: they raise otherwise.

**`Cluster`, `Listed`, `Derive`** (`ClusterProofs`). What the lowering has written is
spoken of by place: `Goes(L, j, t)` says instruction `j` of a core's function launches
task `t`, from the registers its configure wrote and no later one has; `Past(L, j, t)`
that before `j` it was launched and its component polled since. The program is the
sequence of instructions, `FlattenSeq` of pieces, so the module first proves what a
concatenation of many sequences holds (`Spreads`).

- `ListInvariant`: the list is any sequence of steps `NextSteps` may offer, of which
  nothing is assumed: a step that is none of tasks.py's is not added (`IsStep`), one the
  checks refuse ends the list. `ListInv` has three parts. `LowerInv` is of the list and its lines:
  a component is launched again only past its task before (`SpacedAre`), a task only
  past its `after` of its core (`AfterAre`), the registers of a configured task that
  is not started are untouched (`PendingAre`), and the two tables the waits are placed
  from say no more than the lines do (`CoveredAre`, `WaitedAre`), what is covered by
  neither being the latest of its component (`LatestAre`). These need each other: a
  wait is left out because of the tables, and a register is free to write because of
  the wait. `RunInv` is of the cluster: what the registers hold is what the last
  configure passed wrote, a task under way was launched and its component not polled
  since, and what was launched and is not under way has ended. `Phases`: nothing runs
  before the list is whole.
- `Chosen` leaves out a wait that another one covers. That there is such a choice is an
  induction over the number of needed waits, in the order of `Wider` (`ChoiceExists`);
  that it covers all that is needed follows (`ChosenIs`). That a wait covers its unit's group too rests on the
  writer ending after its unit (`EndTask`), which is external.
- `AfterIsKept`, `StartsAreIdle`: from `LowerInv` and `RunInv` at the core's next
  instruction. Both are of one core; across cores `AfterHonoured` is false of
  hand-written lists (`Listed_twocores`).
- `DeriveInvariant`, `AccelsInSeries`, `DerivedKeepsAfter`: `DeriveInv` is `LowerInv` and
  `RunInv` of the derived list, with `SeriesInv` (in the lines, a mover of another
  accelerator is launched only past those launched before), `InTurn` (of the steps yet
  to be lowered: a group that is to start has before it a sync on the previous group's
  accelerator, or is of the same one, or finds everything covered) and `WalkInv` (the
  walk hands no accelerator's task to an `after`, so that `serial_syncs` never leaves
  its sync out; `prev` is the last group's). `InTurn` is what makes the walk and
  the lowering meet: the walk writes whole groups, the lowering reads one step at a time.
- `DerivedHonoursAfter`: of a derived list `AfterHonoured` holds, on whichever cores the
  tasks are. Its invariant `AcrossInv` is `DeriveInv` with four parts, each needed by the
  others. `InStep`: the cores have passed as many barriers, as all pass one at once.
  `BarsAre`: every function holds as many, since a wait meets every core or none.
  `AcrossAre`: in the lines, a task on one core comes after a barrier before which what
  it is after on another is past (`Safe`), so that a core that has passed the one knows
  the other past its poll. `Schedule`,
  of the steps yet to be lowered: a start is of one core's tasks, and what a transfer is
  after is not started before its group is, so the wait that first covers it is the one
  the transfer brings, with the transfer's core among its consumers, or a sync, which all
  cores meet. That is what a hand-written list need not keep. `Named`: no task of a node
  yet to be walked is configured, which `Schedule` needs of the walk. Where the DMA has
  the accelerators' core there is nothing across cores and `AsLowered` is enough
  (`TwoCores`).
- Assumed: `Design` of the design points (`ListedAssumption`, `GraphsAssumption`: units
  are told apart, each has an accelerator and at least a writer), a DMA core among
  the cores and an accelerators' core (`CoresAssumption`).

Model-checked only: liveness (`RequestsTaken`, `Returns`, `AlwaysJudged`), which is
out of the prover's reach; `Streams` and `Readback` (recursive operators) and
`Dataflow`, `Mapping`, `Generated`, `Simulated`, `Records` and `Views`, whose properties
are about what folds over data compute; and `Coherent`. It asks more than
`AfterHonoured`: that the `after` of a derived list, with the order of the DMA queue and
of the groups, order every two uses of a container, which is false of a linked group
hoisted over a writer (`Derive_hoisted`), so that a theorem needs a hypothesis on graphs. `Session`'s further
divergences above have no theorem, as TLC finds them violated.

## What is abstracted or left out

- A beat's value is the fold it is; the arithmetic of a lane is not modelled in
  `GroupData` (it is in `Dataflow`, in small widths).
- In `Derive` a task moves a whole container at once at its end; a reader reads it
  as it was, which `Coherent` requires to be one value all the while. Tiles,
  addresses and strides are `Streams`'s, which runs the tasks one after the other:
  that the waits keep that order is what `Derive` checks.
- `Generated`: a CSR's name is the key it is made of, so that two defines never
  clash; the last CSR number, CSR widths, timing, datapaths and dtypes a unit can
  have are left out, and so is what a file says besides what the program and the
  hardware read. A streamer's own loops over its CSRs are external.
- `Streams`: memlets, not a BRM's own stream notation (`lower/streams.py`'s
  `streamer_values`); one contiguous plan (other plans are `Placement`'s); the
  platform's limits on dimensions and channels. `_highest` over-estimates a
  strided range (`design/check.py:554-575`), so the checks refuse some graphs that
  would be right.
- The cluster (`Cluster`, `Simulated`) is what `c.py`, `run/` and their docs say of
  it: a start launches what the registers hold and is held while its set or unit
  is busy; the DMA queues and runs in order; a writer ends after the unit started with
  it (a writer started without its unit ends at any time, which is more than the
  hardware does).
- `csr_read` steps of a task list, the check of values against a design point.
- `Session`: a graph is what its properties tell apart, the value of `N`, each
  map's factor and instance and the link's depth; the reference check of a step
  always passes, a split takes any factor from 1 (no divisibility), a unit is
  bound to its default instance, sites are per step and not per selection,
  `set_params` sets one name, a param's name is a known one or one unknown name.
  A file is written whole or torn by the crash; nothing in `common.py` promises
  more. `export` writes no state a session reads, and is left out. `WriteFile` is a
  step of its own only so that a crash can fall between: no request runs while
  `pending` is not empty.
- `Editor`: two sessions opened at once may choose one folder
  (`sandbox/session.py:286-293`), and two objects may be in use on one folder; the model
  has both (`raced`, `crossed`), and `FolderIsShown` claims nothing of the states after
  them. Two opens at once may both be answered with the session of the later
  one; a POST whose summary raises (`IndexError`) and a GET that meets a
  `SandboxError` end without an answer. They change nothing a property reads.
- `GvsocBuild`: the developer changes nothing while a build reads the sources
  (`Settled`; an edit in the middle of a build gives binaries of two states of the
  tree, of which no property speaks); the make of a killed flow may go on without the lock. `make sw`'s
  own folder has no lock (`gvsoc/Makefile:116`) and is `Flow`'s one flow at a time.
- `Records`: regions, values, core states and the profile's sums. A log that lacks its
  end has lost its summary lines too, which alone refuses it (`run/convert.py:378-401`);
  `Cut` keeps them, the harder case. What no check reads on its own is not in
  `Wrongly`, and a log wrong only there is accepted: the cycle of a done, of a stall, of
  a DMA beat and of a firing that pops no word, a grant's cycle without its `back`, a
  write's `back`, a stall's or a DMA beat's whole address, which other port took the
  bank, `by_addr`, a firing's `n`, a push's `first` and `last`.
- `Mapping`: a link's depth, named parameters of instances, user-made patterns,
  expressions that are not affine, symbols (sizes are numbers; whether they are
  symbols decides only a fixed T).
- The components with status `not_modelled` in `PROJECT.json`, with the reason.

## Plan

1. Done: the control rule, the CSR manager and the datapaths; the path from a
   graph to the program's end; session, editor server, flow, the simulator's
   build, memory plan, records, transforms, and the mapped graph on the hardware.
2. Next to model: `forge/stream`, the slicer and the packer as refinements of a
   queue of slices; the generated description (`gen/accelerator.py`) against the
   reader of it in Chisel; a BRM's own stream notation.
3. Proofs still worth having: `Coherent` of graphs whose linked groups are not hoisted,
   from `AfterHonoured` and an invariant of the walk: of two uses of a container one
   comes after the other through a chain of `after`, the DMA queue and the groups' turn.
