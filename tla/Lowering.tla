------------------------------ MODULE Lowering ------------------------------
(***************************************************************************)
(* A task list becomes the cores' program: where it waits                  *)
(* (snax_forge/lower/waits.py) and what each step emits on which core      *)
(* (snax_forge/lower/c.py).  Each step of the list is one action.          *)
(***************************************************************************)
EXTENDS TaskList

CONSTANTS Cores, SlotCore   \* the cluster's cores, the accelerators'

ASSUME CoresAssumption == SlotCore \in Cores

VARIABLES
  covered,  \* waits.py: the tasks a placed wait has covered
  waited,   \* c.py: the tasks an emitted wait has ended
  lines,    \* per core its function, a sequence of instructions
  steps,    \* the list's steps still to lower
  refused   \* the list is refused: a TaskListError or a CError

listVars == <<design, conf, starts>>
programVars == <<covered, waited, lines, steps, refused>>

CoreOf(c) == IF IsDma(c) THEN design.dma ELSE SlotCore

(* When a task was started, and a component's latest started task.         *)
TasksOn(c) == {t \in Started : t.comp = c}
Place(t) == CHOOSE i \in DOMAIN Order : Order[i] = t
Latest(c) == CHOOSE t \in TasksOn(c) : \A u \in TasksOn(c) : Place(u) <= Place(t)
StepOf(t) == CHOOSE i \in DOMAIN starts : t \in ToSet(starts[i])
Used == {c \in Components : TasksOn(c) # {}}

(* A set as a sequence, by a key.                                          *)
Sorted(S, key) ==
  CHOOSE s \in SetToSeqs(S) : \A i, j \in DOMAIN s : i < j => key[s[i]] < key[s[j]]
InStart(C) == Sorted(C, [c \in C |-> Place(Latest(c))])

----------------------------------------------------------------------------
(* waits.py: what a wait on a component covers.  A writer's wait covers    *)
(* its unit, a unit's its movers, for the tasks the same start launched:   *)
(* two hops reach everything upstream.                                     *)

Upstream(c) ==
  IF IsUnit(c) THEN Movers(c[1])
  ELSE IF c \in UNION {Writers(u) : u \in DUnits} THEN {Unit(c[1])} ELSE {}

Covers(c) ==
  LET with(x) == x \in Used /\ StepOf(Latest(x)) = StepOf(Latest(c))
      hop(X) == X \cup {y \in UNION {Upstream(x) : x \in X} : with(y)}
  IN hop(hop({c}))

IsCovered(t) == t.idle \/ t \in covered

(* The waits a start needs: on every listed component still busy for all   *)
(* the program knows, and for every `after' task not covered yet; one that *)
(* another covers is left out, the widest chosen first.                    *)
NeedNoAfter(ts) == \* mutants: what a start needs, each without the other half
  {c \in {t.comp : t \in ToSet(ts)} : c \in Used /\ ~IsCovered(Latest(c))}
NeedNotBusy(ts) == {a.comp : a \in {b \in UNION {conf[t] : t \in ToSet(ts)} : ~IsCovered(b)}}
Need(ts) ==
  {c \in {t.comp : t \in ToSet(ts)} : c \in Used /\ ~IsCovered(Latest(c))}
  \cup {a.comp : a \in {b \in UNION {conf[t] : t \in ToSet(ts)} : ~IsCovered(b)}}

Wider(c, e) ==
  \/ Cardinality(Covers(c)) > Cardinality(Covers(e))
  \/ Cardinality(Covers(c)) = Cardinality(Covers(e)) /\ Place(Latest(c)) < Place(Latest(e))

Takes(c, chosen) ==
  ~IsCovered(Latest(c)) /\ \A e \in chosen : Wider(e, c) => c \notin Covers(e)
Chosen(ts) == CHOOSE S \in SUBSET Need(ts) : \A c \in Need(ts) : c \in S <=> Takes(c, S)

On(C) == {t \in Started : t.comp \in C}

----------------------------------------------------------------------------
(* c.py: the program.                                                      *)

Instr(op, x) == [op |-> op, arg |-> x]
Barrier == Instr("barrier", <<>>)
Emit(ls, core, code) == [ls EXCEPT ![core] = @ \o code]

(* A wait: the owner polls, then stores the counter of every accelerator   *)
(* task the wait is the first to end, then meets the other cores if one of *)
(* them goes on from here.                                                 *)
Poll(c) ==
  IF IsDma(c) THEN <<Instr("dma_wait", DMA)>>
  ELSE <<Instr("status", Unit(c[1])), Instr("busy", design.acc[c[1]])>>

Counters(ended) ==
  LET accel == {t \in ended : IsUnit(t.comp)}
      order == Sorted(accel, [t \in accel |-> Place(t)])
  IN [i \in DOMAIN order |-> Instr("counter", order[i])]

MeetingTwo(owner, consumers) == \* a mutant: a barrier between those concerned
  IF consumers \ {owner} = {} THEN {} ELSE consumers \cup {owner}
Meeting(owner, consumers) == IF consumers \ {owner} = {} THEN {} ELSE Cores

WaitCodeEarly(k, c, ended, consumers) == \* a mutant: the barrier before the poll
  (IF k \in Meeting(CoreOf(c), consumers) THEN <<Barrier>> ELSE <<>>)
  \o (IF k = CoreOf(c) THEN Poll(c) ELSE <<>>)
  \o (IF k = SlotCore THEN Counters(ended) ELSE <<>>)
WaitCode(k, c, ended, consumers) ==
  (IF k = CoreOf(c) THEN Poll(c) ELSE <<>>)
  \o (IF k = SlotCore THEN Counters(ended) ELSE <<>>)
  \o (IF k \in Meeting(CoreOf(c), consumers) THEN <<Barrier>> ELSE <<>>)

(* The waits on `cs', in order, each with the tasks it is the first to end. *)
WaitAll(cs, consumers) ==
  LET all(n) == On(UNION {Covers(cs[i]) : i \in 1 .. n})
      ended(i) == all(i) \ (waited \cup all(i - 1))
  IN [waited |-> waited \cup all(Len(cs)),
      lines |-> [k \in Cores |->
        lines[k] \o FlattenSeq([i \in DOMAIN cs |-> WaitCode(k, cs[i], ended(i), consumers)])]]

(* The waits before a start: as placed, but the DMA's only for an `after'  *)
(* no wait of the program has ended.  The DMA queues its transfers.        *)
WaitsOf(ts) ==
  LET pending == \E t \in ToSet(ts) : \E a \in conf[t] : IsDma(a.comp) /\ a \notin waited
  IN InStart((Chosen(ts) \ {DMA}) \cup (IF pending THEN {DMA} ELSE {}))

(* Per task its instruction; a set's movers start with one CSR write, at   *)
(* the first of them.                                                      *)
StartCode(ts, i) ==
  LET c == ts[i].comp
      a == design.acc[c[1]]
  IN IF IsDma(c) THEN <<Instr("dma", ts[i])>>
     ELSE IF IsUnit(c) THEN <<Instr("start", c)>>
     ELSE IF \E j \in 1 .. i - 1 : ts[j].comp \in MoversOf(a) THEN <<>>
     ELSE <<Instr("streamers", a)>>

StartAll(ls, ts) ==
  [k \in Cores |-> ls[k] \o FlattenSeq([i \in DOMAIN ts |->
     IF CoreOf(ts[i].comp) = k THEN StartCode(ts, i) ELSE <<>>])]

(* c.start: some movers of a set without the others, or a unit first.      *)
Partial(ts) ==
  LET have == {t.comp : t \in {x \in ToSet(ts) : IsMover(x.comp)}}
  IN \/ \E m \in have : ~(MoversOf(design.acc[m[1]]) \subseteq have)
     \/ /\ have # {}
        /\ \E i \in DOMAIN ts : /\ IsUnit(ts[i].comp)
                                /\ \A j \in 1 .. i - 1 : ~IsMover(ts[j].comp)

(* An idle mover outside a set of several groups.                          *)
IdleAlone(t) == t.idle /\ Cardinality(UnitsOf(design.acc[t.comp[1]])) = 1

Refuse == refused' = TRUE /\ UNCHANGED <<listVars, covered, waited, lines>>

(* A configure writes the component's registers; a DMA task has none.      *)
ConfigCode(t) == IF IsDma(t.comp) THEN <<>> ELSE <<Instr("config", t)>>

Configure(t, after) ==
  IF ~LegalConfigure(t, after) \/ IdleAlone(t) THEN Refuse
  ELSE /\ conf' = [x \in Configured \cup {t} |-> IF x = t THEN after ELSE conf[x]]
       /\ lines' = Emit(lines, CoreOf(t.comp), ConfigCode(t))
       /\ UNCHANGED <<design, starts, covered, waited, refused>>

Start(ts) ==
  IF ~LegalStart(ts) \/ Partial(ts) THEN Refuse
  ELSE LET p == WaitAll(WaitsOf(ts), {CoreOf(t.comp) : t \in ToSet(ts)})
       IN /\ starts' = Append(starts, ts)
          /\ covered' = covered \cup On(UNION {Covers(c) : c \in Chosen(ts)})
          /\ waited' = p.waited
          /\ lines' = StartAll(p.lines, ts)
          /\ UNCHANGED <<design, conf, refused>>

Sync(t) ==
  IF ~LegalSync(t) THEN Refuse
  ELSE LET p == WaitAll(<<t.comp>>, Cores)
       IN /\ covered' = covered \cup On(Covers(t.comp))
          /\ waited' = p.waited
          /\ lines' = p.lines
          /\ UNCHANGED <<listVars, refused>>

(* The list's steps, one after the other.                                  *)
CfgStep(t, after) == [op |-> "configure", task |-> t, after |-> after]
GoStep(ts) == [op |-> "start", tasks |-> ts]
SyncStep(t) == [op |-> "sync", task |-> t]

Lower ==
  /\ steps # <<>> /\ ~refused
  /\ \/ Head(steps).op = "configure" /\ Configure(Head(steps).task, Head(steps).after)
     \/ Head(steps).op = "start" /\ Start(Head(steps).tasks)
     \/ Head(steps).op = "sync" /\ Sync(Head(steps).task)
  /\ steps' = Tail(steps)

(* The end of the list: a task never started, or an accelerator task whose *)
(* counter nothing reads (c.wait), is refused.                             *)
Unfinished == Pending # {} \/ \E t \in Started : IsUnit(t.comp) /\ t \notin waited

LowerInit(D) ==
  /\ design = D
  /\ conf = <<>> /\ starts = <<>>
  /\ covered = {} /\ waited = {} /\ steps = <<>> /\ refused = FALSE
  /\ lines = [k \in Cores |-> <<>>]
=============================================================================
