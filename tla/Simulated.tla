------------------------------ MODULE Simulated ------------------------------
(***************************************************************************)
(* SNAX-GVSoC's part of a traced run, as snax_forge/run/ reads it (its own *)
(* source is not here): a unit with a reader of two lanes and a writer of  *)
(* one, a word-interleaved L1 behind a crossbar, and a DMA that writes the *)
(* L1 first of all.  One step is one cycle; each cycle writes its event    *)
(* lines, and counts what its summary lines say at the end.                *)
(***************************************************************************)
EXTENDS Integers, FiniteSets, Sequences, Functions, FiniteSetsExt, SequencesExt

CONSTANTS
  Runs,     \* the runs of the unit, each launched with its movers
  Nests,    \* what the streamer's CSRs may hold: bounds and strides, loop 0 first
  Rates,    \* firings per result
  Depth,    \* a lane's FIFO
  Banks,
  Copies,   \* the DMA's copies: from which cycle, which it waits in, where to, how many
            \* words, a beat being Banks words
  Idles,    \* bound: cycles between two runs
  Closing   \* bound: cycles after the last

Product(bounds) == FoldSeq(LAMBDA a, b : a * b, 1, bounds)
ASSUME SimulatedAssumption ==
  /\ Runs \in Nat \ {0} /\ Rates \subseteq Nat \ {0} /\ Depth \in Nat \ {0} /\ Banks \in Nat \ {0}
  /\ Idles \in Nat \ {0} /\ Closing \in Nat \ (0 .. Idles - 1) /\ \A c \in Copies : c.at \in Nat /\ c.to \in Nat /\ c.words \in Nat \ {0}
  /\ \A n \in Nests : /\ Len(n.bounds) = Len(n.strides) /\ \A i \in DOMAIN n.bounds : n.bounds[i] \in Nat \ {0}
                      /\ \A r \in Rates : Product(n.bounds) % r = 0

Lanes == 0 .. 1
Ports == {<<"in", 0>>, <<"in", 1>>, <<"out", 0>>}
Out == <<"out", 0>>
Srcs == {"in", "out", "unit"}
OutBase == 40   \* the output, away from the input

VARIABLES
  nest, rate, copy, served,   \* chosen at the start; the order a bank serves its ports in
  t, run, idle,       \* the cycle, the run, 0 while idle; the idle cycles since
  next,               \* per port, the beats granted
  queue,              \* per port, the words: when visible, beat, value
  fired, result,      \* the run's firings, the unit's result not yet pushed
  pushed, total,      \* results pushed in the run, results of the earlier runs
  left,               \* the DMA's beats to come, <<>> before the copy is issued
  mode,               \* per component, its class of the last cycle
  count,              \* per port, the words visible in the last cycle
  log,                \* the event lines
  sum                 \* the summaries' counters

vars == <<nest, rate, copy, served, t, run, idle, next, queue, fired, result, pushed, total, left, mode, count, log, sum>>

(* A reader with stride 0 on its loop 0 fetches a beat once for all of the *)
(* loop's firings.                                                         *)
Repeat == IF nest.strides[1] = 0 THEN nest.bounds[1] ELSE 1
Fires == Product(nest.bounds)
BeatCount(p) == IF p = Out THEN Fires \div rate ELSE Fires \div Repeat
(* The beat's address as a sum over its loop indices. *)
Digit(b, d) == (b \div Product(SubSeq(nest.bounds, 1, d - 1))) % nest.bounds[d]
Temporal(b) == FoldSeq(LAMBDA x, y : x + y, 0, [d \in DOMAIN nest.bounds |-> Digit(b, d) * nest.strides[d]])
Address(p, b) == IF p = Out THEN OutBase + b ELSE Temporal(b * Repeat) + p[2]
Bank(a) == a % Banks
Row(a) == a \div Banks
Word(a) == 100 + a   \* what the L1 holds

Line(k, src, x) == [k |-> k, src |-> src, t |-> t, x |-> x, run |-> run, again |-> FALSE]

-----------------------------------------------------------------------------
(* The cycle's requests, and who is granted.                               *)

MoverBusy(p) == run > 0 /\ next[p] < BeatCount(p)
Requests(p) ==
  /\ MoverBusy(p)
  /\ IF p = Out THEN queue[p] # <<>> /\ Head(queue[p]).visible <= t ELSE Len(queue[p]) < Depth
BankOf(p) == Bank(Address(p, next[p]))

DmaBanks(beat) == {Bank(a) : a \in beat.from .. beat.from + beat.words - 1}
SplitBeats(from, words) ==   \* a beat ends at a multiple of Banks
  LET Cut[a \in Nat] ==
        IF a >= from + words THEN <<>>
        ELSE LET end == Min({(a \div Banks + 1) * Banks, from + words})
             IN <<[from |-> a, words |-> end - a]>> \o Cut[end]
  IN Cut[from]

(* by[p] is what took p's bank: "dma", the first served of those that ask, or p itself. *)
Arbitrated(dma) ==
  [p \in Ports |->
     IF ~Requests(p) THEN p
     ELSE IF BankOf(p) \in dma THEN <<"dma", 0>>
     ELSE CHOOSE q \in Ports : /\ Requests(q) /\ BankOf(q) = BankOf(p)
                               /\ \A r \in Ports : (Requests(r) /\ BankOf(r) = BankOf(p)) => served[q] <= served[r]]

Granted(by) == {p \in Ports : Requests(p) /\ by[p] = p}
Stalled(by) == {p \in Ports : Requests(p) /\ by[p] # p}
Value(p) == IF p = Out THEN Head(queue[p]).value ELSE Word(Address(p, next[p]))
Visible(p) == queue[p] # <<>> /\ Head(queue[p]).visible <= t
Count(p) == Cardinality({i \in DOMAIN queue[p] : queue[p][i].visible <= t})

PushNow == run > 0 /\ result # <<>> /\ Len(queue[Out]) < Depth
FireNow == run > 0 /\ fired < Fires /\ (\A l \in Lanes : Visible(<<"in", l>>)) /\ (result = <<>> \/ PushNow)
Inputs == [l \in Lanes |-> Head(queue[<<"in", l>>]).value]
Accumulated == IF fired % rate = 0 THEN 0 ELSE sum.acc
Folded == Accumulated + Inputs[0] + Inputs[1]

Class(src, by) ==
  LET mine == {p \in Ports : p[1] = src}
  IN CASE src = "unit" ->
            (CASE FireNow -> "busy" [] ~FireNow /\ result # <<>> /\ ~PushNow -> "stall_out"
               [] ~FireNow /\ fired = Fires /\ (result = <<>> \/ PushNow) -> "flush" [] OTHER -> "stall_in")
       [] OTHER -> IF mine \cap Granted(by) # {} THEN "busy"
                   ELSE IF mine \cap Stalled(by) # {} THEN "stall_xbar" ELSE "stall_fifo"
Working(src) ==
  IF src = "unit" THEN run > 0 /\ pushed < BeatCount(Out) ELSE \E p \in Ports : p[1] = src /\ MoverBusy(p)
Ends(src, by) ==   \* in this cycle
  /\ Working(src)
  /\ IF src = "unit" THEN pushed + 1 = BeatCount(Out) /\ PushNow
     ELSE \A p \in Ports : p[1] = src =>
            next[p] + (IF p \in Granted(by) THEN 1 ELSE 0) = BeatCount(p)

-----------------------------------------------------------------------------
ServedAt(winner, bank, dmaNow) ==   \* the word the bank served
  IF winner[1] # "dma" THEN Address(winner, next[winner])
  ELSE CHOOSE a \in UNION {b.from .. b.from + b.words - 1 : b \in dmaNow} : Bank(a) = bank
Lines(by, dmaNow) ==
  {Line("grant", p, [addr |-> Address(p, next[p]), b |-> next[p], value |-> Value(p), back |-> t + 1,
                     op |-> IF p = Out THEN "w" ELSE "r", bank |-> BankOf(p), row |-> Row(Address(p, next[p]))]) : p \in Granted(by)}
  \cup {Line("stall", p, [by |-> by[p][1], byAddr |-> ServedAt(by[p], BankOf(p), dmaNow),
                          addr |-> Address(p, next[p]), bank |-> BankOf(p),
                          row |-> Row(Address(p, next[p]))]) : p \in Stalled(by)}
  \cup {Line("fifo", p, [count |-> Count(p)]) : p \in {q \in Ports : Count(q) # count[q]}}
  \cup {Line("class", s, [mode |-> Class(s, by)]) : s \in {u \in Srcs : Working(u) /\ Class(u, by) # mode[u]}}
  \cup {Line("done", s, [firings |-> Fires]) : s \in {u \in Srcs : Ends(u, by)}}
  \cup (IF FireNow THEN {Line("fire", "unit", [n |-> fired, b |-> fired \div Repeat, value |-> Inputs])} ELSE {})
  \cup (IF PushNow THEN {Line("push", "unit", [n |-> pushed, first |-> fired - rate, last |-> fired - 1, value |-> result[1]])} ELSE {})
  \cup (IF Len(left) = 1 /\ dmaNow # {} THEN {Line("done", "dma", [id |-> 0])} ELSE {})
  \cup {Line("dma", "dma", [id |-> 0, addr |-> b.from, words |-> b.words, bank |-> Bank(b.from), row |-> Row(b.from)]) : b \in dmaNow}

Requesters(bank, dma) == Cardinality({p \in Ports : Requests(p) /\ BankOf(p) = bank}) + (IF bank \in dma THEN 1 ELSE 0)
Plus(b) == IF b THEN 1 ELSE 0
Counted(by, dma) ==
  [acc |-> IF FireNow THEN Folded ELSE sum.acc,
   firings |-> sum.firings + Plus(FireNow),
   grants |-> [p \in Ports |-> sum.grants[p] + Plus(p \in Granted(by))],
   stalls |-> [p \in Ports |-> sum.stalls[p] + Plus(p \in Stalled(by))],
   dma |-> [p \in Ports |-> sum.dma[p] + Plus(p \in Stalled(by) /\ by[p][1] = "dma")],
   reads |-> [b \in 0 .. Banks - 1 |-> sum.reads[b] + Plus(\E p \in Granted(by) : p # Out /\ BankOf(p) = b)],
   writes |-> [b \in 0 .. Banks - 1 |-> sum.writes[b] + Plus(b \in dma \/ (Out \in Granted(by) /\ BankOf(Out) = b))],
   conflicts |-> [b \in 0 .. Banks - 1 |-> sum.conflicts[b] + Plus(Requesters(b, dma) >= 2)],
   beats |-> sum.beats + Plus(dma # {}),
   qmax |-> [p \in Ports |-> Max({sum.qmax[p], Count(p)})],
   classes |-> [s \in Srcs |-> IF Working(s) THEN [sum.classes[s] EXCEPT ![run] = Append(@, Class(s, by))] ELSE sum.classes[s]]]

(* The DMA's beat of the cycle, if any: one a cycle once it has begun, but *)
(* for the cycles its source keeps it waiting.                             *)
Now == IF left = <<>> \/ t < copy.at \/ t \in copy.waits THEN {} ELSE {Head(left)}
By == Arbitrated(UNION {DmaBanks(b) : b \in Now})
RunEnds == run > 0 /\ \A s \in Srcs : ~Working(s) \/ Ends(s, By)

Cycle ==   \* of everything but the run's number
  /\ t' = t + 1
  /\ left' = IF Now = {} THEN left ELSE Tail(left)
  /\ sum' = Counted(By, UNION {DmaBanks(b) : b \in Now})
  /\ count' = [p \in Ports |-> Count(p)]
  /\ next' = [p \in Ports |-> IF RunEnds THEN 0 ELSE next[p] + Plus(p \in Granted(By))]
  /\ queue' = [p \in Ports |->
       IF p = Out
       THEN (IF p \in Granted(By) THEN Tail(queue[p]) ELSE queue[p])
            \o (IF PushNow THEN <<[visible |-> t + 1, value |-> result[1]]>> ELSE <<>>)
       ELSE (IF FireNow /\ (fired + 1) % Repeat = 0 THEN Tail(queue[p]) ELSE queue[p])
            \o (IF p \in Granted(By) THEN <<[visible |-> t + 2, value |-> Value(p)]>> ELSE <<>>)]
  /\ fired' = IF RunEnds THEN 0 ELSE fired + Plus(FireNow)
  /\ result' = IF FireNow /\ (fired + 1) % rate = 0 THEN <<Folded>> ELSE IF PushNow THEN <<>> ELSE result
  /\ pushed' = IF RunEnds THEN 0 ELSE pushed + Plus(PushNow)
  /\ mode' = [s \in Srcs |-> IF Working(s) /\ ~Ends(s, By) THEN Class(s, By) ELSE "idle"]
  /\ UNCHANGED <<nest, rate, copy, served>>

Work ==
  /\ run > 0 /\ Cycle
  /\ log' = log \cup Lines(By, Now)
  /\ run' = (IF RunEnds THEN 0 ELSE run) /\ total' = total + Plus(RunEnds)
  /\ idle' = 0

(* The unit and its movers are started: they are busy from the next cycle. *)
Launch ==
  /\ run = 0 /\ total < Runs /\ Cycle
  /\ log' = log \cup Lines(By, Now) \cup {Line("start", s, [rate |-> rate]) : s \in Srcs}
  /\ run' = total + 1
  /\ UNCHANGED <<idle, total>>

Rest ==   \* a cycle with the unit idle
  /\ run = 0 /\ (idle < (IF total = Runs THEN Closing ELSE Idles) \/ (total = Runs /\ left # <<>>)) /\ Cycle
  /\ log' = log \cup Lines(By, Now)
  /\ idle' = Min({idle + 1, Closing})
  /\ UNCHANGED <<run, total>>

Simulate == Work \/ Launch \/ Rest
Over == run = 0 /\ total = Runs /\ idle = Closing /\ left = <<>>

SimulatedInit ==
  /\ nest \in Nests /\ rate \in Rates /\ copy \in Copies /\ served \in Bijection(Ports, 1 .. 3)
  /\ t = 0 /\ run = 0 /\ idle = Idles
  /\ next = [p \in Ports |-> 0] /\ queue = [p \in Ports |-> <<>>]
  /\ fired = 0 /\ result = <<>> /\ pushed = 0 /\ total = 0
  /\ left = SplitBeats(copy.to, copy.words)
  /\ mode = [s \in Srcs |-> "idle"] /\ count = [p \in Ports |-> 0]
  /\ log = {Line("issue", "dma", [id |-> 0, to |-> copy.to, words |-> copy.words])}
  /\ sum = [acc |-> 0, firings |-> 0, grants |-> [p \in Ports |-> 0], stalls |-> [p \in Ports |-> 0],
            dma |-> [p \in Ports |-> 0], reads |-> [b \in 0 .. Banks - 1 |-> 0],
            writes |-> [b \in 0 .. Banks - 1 |-> 0], conflicts |-> [b \in 0 .. Banks - 1 |-> 0], beats |-> 0,
            qmax |-> [p \in Ports |-> 0], classes |-> [s \in Srcs |-> [r \in 1 .. Runs |-> <<>>]]]
===============================================================================
