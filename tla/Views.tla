------------------------------- MODULE Views -------------------------------
(***************************************************************************)
(* What the run viewer shows of a run's lines (snax_forge/viz/: index,     *)
(* movement, schedule, cluster, memory; run/regions.py): every access of   *)
(* an element and the firings it fed or came from, the quiet stretches     *)
(* folded, the blocks at a cycle, the stalls, and the memory's rows folded *)
(* with a mark per word.  Nothing is counted again: each answer is read    *)
(* off the lines' own ids.                                                 *)
(***************************************************************************)
EXTENDS Records

CONSTANTS
  Regions,   \* the L1's, in order: base, shape, strides in words, whether the DMA moves it
  Rows,      \* of the L1
  FoldMin    \* the shortest quiet stretch that folds

ASSUME ViewsAssumption ==
  /\ \A i \in DOMAIN Regions : LET r == Regions[i] IN
       /\ r.base \in Nat /\ r.moved \in BOOLEAN
       /\ Len(r.shape) = Len(r.strides) /\ ToSet(r.shape) \subseteq Nat \ {0} /\ ToSet(r.strides) \subseteq Nat
  /\ Rows \in Nat /\ FoldMin \in Nat \ {0}

None == -1

-----------------------------------------------------------------------------
(* The index: the lines under their ids.                                   *)
Covered(e) == IF e.k = "dma" THEN e.x.addr .. e.x.addr + e.x.words - 1 ELSE {e.x.addr}
Accesses(ev, a) == {e \in ev : e.k \in {"grant", "stall", "dma"} /\ a \in Covered(e)}
BeatGrants(ev, p, task, b) == {g \in Of(ev, "grant", p) : g.task = task /\ g.x.b = b}
FiredBy(ev, task, b) == {f \in Kind(ev, "fire") : f.task = task /\ f.x.b = b}
FoldedIn(ev, task, n) == {p \in Kind(ev, "push") : p.task = task /\ p.x.first <= n /\ n <= p.x.last}
PushOf(ev, task, n) == {p \in Kind(ev, "push") : p.task = task /\ p.x.n = n}

(* Two lines of one key: index.duplicate.                                  *)
Duplicated(ev) ==
  \/ \E g \in Kind(ev, "grant") : Cardinality(BeatGrants(ev, g.src, g.task, g.x.b)) > 1
  \/ \E f \in Kind(ev, "fire") :
       \/ Cardinality({e \in Kind(ev, "fire") : e.task = f.task /\ e.x.n = f.x.n}) > 1
       \/ Cardinality(FoldedIn(ev, f.task, f.x.n)) > 1
  \/ \E p \in Kind(ev, "push") : Cardinality(PushOf(ev, p.task, p.x.n)) > 1
  \/ \E e \in Kind(ev, "dma") : Cardinality({f \in Kind(ev, "dma") : f.x.addr = e.x.addr}) > 1

(* Marks: a word's first write, and its first read after that by anything  *)
(* but the DMA; the stalls that wanted a word or were held for it.         *)
Writes(events) == {e \in events : e.k = "dma" \/ (e.k = "grant" /\ e.x.op = "w")}
ArrivalOf(events) == IF Writes(events) = {} THEN None ELSE Min({e.t : e \in Writes(events)})
UsesOf(events) ==
  {e.t : e \in {g \in events : g.k = "grant" /\ g.x.op = "r" /\ g.t > ArrivalOf(events)}}
FirstUse(events) == Min(UsesOf(events) \cup (IF UsesOf(events) = {} THEN {None} ELSE {}))
WaitOf(events) ==
  IF ArrivalOf(events) = None \/ UsesOf(events) = {} THEN None ELSE FirstUse(events) - ArrivalOf(events)
Held(ev, a) == {e \in Kind(ev, "stall") : e.x.addr = a}
Won(ev, a) == {e \in Kind(ev, "stall") : e.x.byAddr = a}

-----------------------------------------------------------------------------
(* Movement: an element's firings, a firing's operands and results.        *)
Journey(ev, a) ==
  LET consumed(g) == {[role |-> "consumed", hop |-> g, firing |-> f] : f \in FiredBy(ev, g.task, g.x.b)}
      produced(g) == {[role |-> "produced", hop |-> g, firing |-> f] :
                        f \in {e \in Kind(ev, "fire") : \E p \in PushOf(ev, g.task, g.x.b) :
                                 e.task = g.task /\ p.x.first <= e.x.n /\ e.x.n <= p.x.last}}
  IN UNION {IF g.src = Out THEN produced(g) ELSE consumed(g) : g \in {e \in Accesses(ev, a) : e.k = "grant"}}
Operands(ev, f) == UNION {BeatGrants(ev, <<"in", l>>, f.task, f.x.b) : l \in Lanes}
Results(ev, f) == UNION {BeatGrants(ev, Out, f.task, p.x.n) : p \in FoldedIn(ev, f.task, f.x.n)}
(* Of a port's task: its first grant, its last, and the cycles it was held.*)
Pace(ev, p, task) ==
  LET at == {g.t : g \in {e \in Of(ev, "grant", p) : e.task = task}}
  IN [first |-> Min(at), last |-> Max(at), ideal |-> Min(at) + Cardinality(at) - 1,
      held |-> {e.t : e \in {s \in Of(ev, "stall", p) : s.task = task}}]

-----------------------------------------------------------------------------
(* The schedule: bars from start to done, and what lies between them.      *)
Bars(lines) ==
  UNION {RunSpans(lines, s) : s \in Srcs}
  \cup {[task |-> 1, a |-> i.t, b |-> d.t, firings |-> 0] : i \in Kind(lines, "issue"), d \in Of(lines, "done", "dma")}
Active(lines) == (UNION {w.a .. w.b : w \in Bars(lines)}) \cap (0 .. t - 1)
Stretches(cycles) ==   \* the longest [from, to) of such cycles
  {[from |-> a, to |-> Min({b \in a .. t : b \notin cycles})] : a \in {u \in cycles : u - 1 \notin cycles}}
Foldable(lines) == {q \in Stretches((0 .. t - 1) \ Active(lines)) : q.to - q.from >= FoldMin}
Segments(lines, opened, cycle) ==
  LET quiet == Foldable(lines)
      rest == (0 .. t - 1) \ UNION {q.from .. q.to - 1 : q \in quiet}
  IN {[from |-> q.from, to |-> q.to,
       folded |-> q.from \notin opened /\ ~(q.from <= cycle /\ cycle < q.to)] : q \in quiet}
     \cup {[from |-> q.from, to |-> q.to, folded |-> FALSE] : q \in Stretches(rest)}

(* The blocks at a cycle.                                                  *)
ClassRunsOf(ev, lines, src) ==
  UNION {LET mine == {e \in Of(ev, "class", src) : e.task = w.task}
             end == w.a + 1 + Len(sum.classes[src][w.task])
         IN {[from |-> e.t, to |-> Min({f.t : f \in {g \in mine : g.t > e.t}} \cup {end}), mode |-> e.x.mode] :
               e \in mine} : w \in RunSpans(lines, src)}
ClassAt(runs, u) ==
  LET holding == {r \in runs : r.from <= u /\ u < r.to} IN {r.mode : r \in holding}
FifoAt(ev, p, u) ==
  LET seen == {e \in Of(ev, "fifo", p) : e.t <= u}
  IN IF seen = {} THEN 0 ELSE (CHOOSE e \in seen : \A f \in seen : f.t <= e.t).x.count
BankAt(ev, bank, u) ==
  LET here == {e \in ev : e.t = u /\ e.k \in {"grant", "stall", "dma"} /\ \E a \in Covered(e) : Bank(a) = bank}
  IN [access |-> {<<e.k, IF e.k = "dma" THEN "dma" ELSE e.src[1]>> : e \in {f \in here : f.k # "stall"}},
      refused |-> {e.src : e \in Kind(here, "stall")}, served |-> {e.x.by : e \in Kind(here, "stall")}]

-----------------------------------------------------------------------------
(* The memory: a row is a word of each bank; a word holds an element of a  *)
(* region or is padding up to a whole DMA beat.                            *)
BeatPad == -1
Unravelled(shape, f) ==   \* row-major
  [d \in DOMAIN shape |-> (f \div Product(SubSeq(shape, d + 1, Len(shape)))) % shape[d]]
AddressOf(r, f) == r.base + FoldSeq(LAMBDA x, y : x + y, 0, [d \in DOMAIN r.shape |-> Unravelled(r.shape, f)[d] * r.strides[d]])
Elements(r) == 0 .. Product(r.shape) - 1
DataEnd(r) == Max({AddressOf(r, f) : f \in Elements(r)}) + 1
PadEnd(r) == IF r.moved THEN r.base + ((DataEnd(r) - r.base + Banks - 1) \div Banks) * Banks ELSE DataEnd(r)
CellAt(a) ==   \* <<region, element>>, or its padding
  LET held == UNION {{<<i, f>> : f \in {g \in Elements(Regions[i]) : AddressOf(Regions[i], g) = a}} : i \in DOMAIN Regions}
      pads == {<<i, BeatPad>> : i \in {r \in DOMAIN Regions : DataEnd(Regions[r]) <= a /\ a < PadEnd(Regions[r])}}
  IN SetToSeq(held) \o SetToSeq(pads)
Cells == [r \in 0 .. Rows - 1 |-> [c \in 1 .. Banks |-> CellAt(r * Banks + c - 1)]]
Occupied(cells, r) == r \in DOMAIN cells /\ \E c \in DOMAIN cells[r] : cells[r][c] # <<>>

(* Two rows are alike when they hold the same regions, each moved by one   *)
(* step; and their marks are equal, or are times moved by one step.        *)
Moves(a, b) == UNION {{<<a[c][i][1], b[c][i][2] - a[c][i][2]>> : i \in DOMAIN a[c]} : c \in DOMAIN a}
SameShape(a, b) ==
  \A c \in DOMAIN a : Len(a[c]) = Len(b[c]) /\ \A i \in DOMAIN a[c] : a[c][i][1] = b[c][i][1]
AlikeRows(a, b) == SameShape(a, b) /\ \A x, y \in Moves(a, b) : x[1] = y[1] => x = y
TimeStep(a, b) == {b[c] - a[c] : c \in {d \in DOMAIN a : a[d] # None}}
AlikeMarks(kind, a, b) ==
  IF kind = "time" THEN (\A c \in DOMAIN a : (a[c] = None) = (b[c] = None)) /\ Cardinality(TimeStep(a, b)) <= 1
  ELSE a = b
LastAlikeAnyTime(cells, kind, marks, first) ==   \* the time step not compared between rows
  LET follows(r) == Occupied(cells, r) /\ AlikeRows(cells[r - 1], cells[r]) /\ AlikeMarks(kind, marks[r - 1], marks[r])
  IN Max({e \in first .. Rows - 1 : \A r \in first + 1 .. e :
            follows(r) /\ (r >= first + 2 => Moves(cells[r - 2], cells[r - 1]) = Moves(cells[r - 1], cells[r]))})
LastAlike(cells, kind, marks, first) ==   \* of the alike rows from `first`, one step throughout
  LET follows(r) == Occupied(cells, r) /\ AlikeRows(cells[r - 1], cells[r]) /\ AlikeMarks(kind, marks[r - 1], marks[r])
      goesOn(r) == /\ Moves(cells[r - 2], cells[r - 1]) = Moves(cells[r - 1], cells[r])
                   /\ kind = "time" => TimeStep(marks[r - 2], marks[r - 1]) = TimeStep(marks[r - 1], marks[r])
  IN Max({e \in first .. Rows - 1 : \A r \in first + 1 .. e : follows(r) /\ (r >= first + 2 => goesOn(r))})

FoldLine(cells, kind, marks, a, b) ==
  LET flats(i) == UNION {{x[2] : x \in {y \in ToSet(cells[r][c]) : y[1] = i /\ y[2] >= 0}} : r \in {a, b}, c \in 1 .. Banks}
      hidden == UNION {{marks[r][c] : c \in 1 .. Banks} : r \in a .. b} \ {None}
  IN [kind |-> "fold", from |-> a, to |-> b, step |-> Moves(cells[a - 1], cells[a]),
      span |-> [i \in {r \in DOMAIN Regions : flats(r) # {}} |-> <<Min(flats(i)), Max(flats(i))>>],
      marks |-> IF kind = "time"
                THEN [step |-> TimeStep(marks[a - 1], marks[a]),
                      span |-> IF hidden = {} THEN <<>> ELSE <<Min(hidden), Max(hidden)>>]
                ELSE [sum |-> SumFunction([q \in (a .. b) \X (1 .. Banks) |-> marks[q[1]][q[2]]])]]
RowLine(r) == [kind |-> "row", from |-> r, to |-> r]
FoldedLines(cells, kind, marks) ==
  LET rest[r \in 0 .. Rows] ==
        LET last == LastAlike(cells, kind, marks, r)
            busy == Min({e \in r .. Rows : e = Rows \/ Occupied(cells, e)})
        IN IF r = Rows THEN <<>>
           ELSE IF ~Occupied(cells, r) THEN <<[kind |-> "empty", from |-> r, to |-> busy - 1]>> \o rest[busy]
           ELSE <<RowLine(r)>>
                \o (IF last >= r + 2 THEN <<FoldLine(cells, kind, marks, r + 1, last - 1)>> ELSE <<>>)
                \o (IF last > r THEN <<RowLine(last)>> ELSE <<>>)
                \o rest[last + 1]
  IN rest[0]

MarkKinds == {"conflicts", "arrival", "use", "wait"}
MarkAt(ev, name, a) ==
  CASE name = "conflicts" -> Cardinality(Held(ev, a)) + Cardinality(Won(ev, a))
    [] name = "arrival" -> ArrivalOf(Accesses(ev, a))
    [] name = "use" -> FirstUse(Accesses(ev, a))
    [] name = "wait" -> WaitOf(Accesses(ev, a))
KindOf(name) == IF name = "conflicts" THEN "count" ELSE "time"
RowMarks(ev, name) == [r \in 0 .. Rows - 1 |-> [c \in 1 .. Banks |-> MarkAt(ev, name, r * Banks + c - 1)]]

-----------------------------------------------------------------------------
(* What the run did, from its configuration and the simulator's counters.  *)
Fed(a) ==
  {[role |-> "consumed", via |-> <<"in", l>>, task |-> r, n |-> n] :
     <<r, n, l>> \in {x \in (1 .. Runs) \X (0 .. Fires - 1) \X Lanes : Address(<<"in", x[3]>>, x[2] \div Repeat) = a}}
  \cup {[role |-> "produced", via |-> Out, task |-> r, n |-> n] :
          <<r, n>> \in {x \in (1 .. Runs) \X (0 .. Fires - 1) : Address(Out, x[2] \div rate) = a}}
JourneysTold(ev) ==
  \A a \in 0 .. Rows * Banks - 1 :
    LET told == Journey(ev, a)
    IN /\ {[role |-> x.role, via |-> x.hop.src, task |-> x.firing.task, n |-> x.firing.x.n] : x \in told} = Fed(a)
       /\ \A x \in told : IF x.role = "consumed" THEN x.hop.t < x.firing.t ELSE x.firing.t < x.hop.t

(* A result is the sum of the words of the firings its push folds.         *)
SumOfWords(firings) ==
  MapThenSumSet(LAMBDA x : Word(Address(<<"in", x[2]>>, x[1] \div Repeat)), firings \X Lanes)
ResultsTold(ev) ==
  \A f \in Kind(ev, "fire") :
    LET first == (f.x.n \div rate) * rate IN
    /\ {g.x.value : g \in Results(ev, f)} = {SumOfWords(first .. first + rate - 1)}
    /\ \A g \in Operands(ev, f) : g.t < f.t
    /\ \A g \in Results(ev, f) : g.t > f.t

ArrivalsTold(ev) ==
  \A a \in 0 .. OutBase - 1 :
    ArrivalOf(Accesses(ev, a)) =
      IF a \in copy.to .. copy.to + copy.words - 1
      THEN CHOOSE u \in copy.at .. t : /\ u \notin copy.waits
                                       /\ Cardinality((copy.at .. u - 1) \ copy.waits) = a \div Banks - copy.to \div Banks
      ELSE None
PacesTold(ev, lines) ==
  \A p \in Ports : \A w \in RunSpans(lines, p[1]) :
    LET pace == Pace(ev, p, w.task) IN
    /\ w.a < pace.first /\ pace.last < w.b
    /\ Cardinality(pace.held) + BeatCount(p) <= w.b - 1 - w.a
    /\ pace.ideal + Cardinality({u \in pace.held : u > pace.first}) <= pace.last
    /\ pace.held \subseteq w.a + 1 .. pace.last - 1

(* The segments cover the window once; none that is folded hides a busy    *)
(* cycle; the cycle looked at and the stretches opened are not folded.     *)
SegmentsTold(ev, lines) ==
  \A cycle \in 0 .. t - 1 : \A opened \in {{}} \cup {{q.from} : q \in Foldable(lines)} :
    LET segs == Segments(lines, opened, cycle)
        folded == {q \in segs : q.folded}
    IN /\ \A u \in 0 .. t - 1 : Cardinality({q \in segs : q.from <= u /\ u < q.to}) = 1
       /\ \A q \in folded : /\ q.from \notin opened /\ cycle \notin q.from .. q.to - 1
                            /\ \A e \in ev : e.t \in q.from .. q.to - 1 => e.k = "fifo"

(* The blocks at a cycle: the class counted in it, a bank serving one      *)
(* access, that the refused ones are told of.                              *)
BlocksTold(ev, lines) ==
  /\ \A src \in Srcs : \A w \in RunSpans(lines, src) :
       LET runs == ClassRunsOf(ev, lines, src)
           classes == sum.classes[src][w.task]
       IN \A i \in DOMAIN classes : ClassAt(runs, w.a + i) = {classes[i]}
  /\ \A p \in Ports : LET queued == Words(ev, p) IN
       \A u \in 0 .. t - 1 : FifoAt(ev, p, u) = Cardinality({w \in queued : w.from <= u /\ u <= w.to})
  /\ \A bank \in 0 .. Banks - 1, u \in 0 .. t - 1 :
       LET x == BankAt(ev, bank, u)
       IN /\ Cardinality(x.access) <= 1
          /\ x.refused # {} => x.served = {y[2] : y \in x.access} /\ Cardinality(x.served) = 1

(* A folded row can be told from the row above the fold: nothing is hidden *)
(* that its line does not say.                                             *)
FoldsTold(cells, kind, marks, lines) ==
  /\ lines[1].from = 0 /\ Last(lines).to = Rows - 1
  /\ \A i \in 1 .. Len(lines) - 1 : lines[i + 1].from = lines[i].to + 1
  /\ \A i \in DOMAIN lines : \A r \in lines[i].from .. lines[i].to :
       CASE lines[i].kind = "row" -> Occupied(cells, r)
         [] lines[i].kind = "empty" -> ~Occupied(cells, r) /\ \A c \in 1 .. Banks : marks[r][c] \in {None, 0}
         [] lines[i].kind = "fold" ->
              LET l == lines[i]
                  far == r - l.from + 1
                  first == cells[l.from - 1]
                  moved(x) == <<x[1], x[2] + far * (CHOOSE m \in l.step : m[1] = x[1])[2]>>
              IN \A c \in 1 .. Banks :
                   /\ cells[r][c] = [k \in DOMAIN first[c] |-> moved(first[c][k])]
                   /\ \A x \in ToSet(cells[r][c]) : x[2] >= 0 => l.span[x[1]][1] <= x[2] /\ x[2] <= l.span[x[1]][2]
                   /\ marks[r][c] =
                        IF kind = "count" \/ marks[l.from - 1][c] = None THEN marks[l.from - 1][c]
                        ELSE marks[l.from - 1][c] + far * (CHOOSE d \in l.marks.step : TRUE)
MemoryTold(ev) ==
  \A name \in MarkKinds :
    LET marks == RowMarks(ev, name)
    IN FoldsTold(Cells, KindOf(name), marks, FoldedLines(Cells, KindOf(name), marks))

(* What the viewer shows of a run is what the run did: an element's        *)
(* firings, a firing's operands and result, the busy cycles, the blocks    *)
(* at a cycle, the stalls a word had, and the rows its fold hides; and no  *)
(* log the converter accepts is refused for a key named twice.             *)
Told(ev) ==
  /\ ~Duplicated(ev) /\ JourneysTold(ev) /\ ResultsTold(ev) /\ ArrivalsTold(ev)
  /\ PacesTold(ev, read) /\ SegmentsTold(ev, read) /\ BlocksTold(ev, read) /\ MemoryTold(ev)
ViewsTellTheRun == (read # {} /\ fault = "none") => Told(Named(read))
===============================================================================
