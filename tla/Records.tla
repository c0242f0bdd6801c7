------------------------------- MODULE Records -------------------------------
(***************************************************************************)
(* snax_forge/run/convert.py and beats.py: what a traced run's event lines *)
(* become, and what the converter refuses.  The run ends, its lines are    *)
(* read as they are, cut short, or with one of them lost, written twice or *)
(* wrong (a torn log, a fault of the simulator), and each named check is   *)
(* made.                                                                   *)
(***************************************************************************)
EXTENDS Simulated

CONSTANTS AddressBits   \* the L1 holds 2^AddressBits words
ASSUME RecordsAssumption == AddressBits \in Nat \ {0, 1}

VARIABLES fault, read   \* what was done to the lines, and the lines as read
rvars == <<vars, fault, read>>

Of(lines, k, src) == {e \in lines : e.k = k /\ e.src = src}
Kind(lines, k) == {e \in lines : e.k = k}
Before(f, e) == f.t < e.t \/ (f.t = e.t /\ e.again /\ ~f.again)
Rank(e, lines) == 1 + Cardinality({f \in lines : Before(f, e)})

-----------------------------------------------------------------------------
(* The task level: the starts and dones of a component, in order, are its  *)
(* tasks of the task list, here 1 .. Runs.                                 *)

DoneAt(e) == e.t + 1
Spans(lines, src) ==   \* brackets: a done's task is the one of its start
  {[src |-> src, task |-> Rank(d, Of(lines, "done", src)), a |-> s.t, b |-> DoneAt(d), firings |-> d.x.firings] :
     d \in Of(lines, "done", src), s \in Of(lines, "start", src)}
RunSpans(lines, src) ==
  {w \in Spans(lines, src) : \E s \in Of(lines, "start", src) : s.t = w.a /\ Rank(s, Of(lines, "start", src)) = w.task}
TaskAt(spans, src, t0) ==
  LET holding == {w.task : w \in {v \in spans : v.src = src /\ v.a <= t0 /\ t0 <= v.b}}
  IN IF holding = {} THEN 0 ELSE Min(holding)
Component(e) == IF e.k \in {"grant", "stall", "fifo"} THEN e.src[1] ELSE e.src

(* The lines with the task each is of, 0 for none. *)
Named(lines) ==
  LET spans == UNION {RunSpans(lines, s) : s \in Srcs}
  IN {[k |-> e.k, src |-> e.src, t |-> e.t, x |-> e.x, run |-> e.run, again |-> e.again,
       task |-> TaskAt(spans, Component(e), e.t)] : e \in lines}

UnknownTask(lines) ==
  \/ \E s \in Srcs :
       \/ Cardinality(Of(lines, "start", s)) > Runs
       \/ \E d \in Of(lines, "done", s) :
            Cardinality({b \in Of(lines, "start", s) : b.t < d.t}) < Rank(d, Of(lines, "done", s))
  \/ Cardinality(Kind(lines, "issue")) > 1
  \/ Kind(lines, "issue") = {} /\ Of(lines, "done", "dma") # {}
Unfinished(lines) ==
  \/ \E s \in Srcs : Cardinality(Of(lines, "start", s)) # Cardinality(Of(lines, "done", s))
  \/ Cardinality(Kind(lines, "issue")) # Cardinality(Of(lines, "done", "dma"))

-----------------------------------------------------------------------------
(* The beat level, against the summaries (all sources traced).             *)

GrantCounts(ev) == \E p \in Ports : Cardinality(Of(ev, "grant", p)) # sum.grants[p]

DmaWords(ev, bank) ==
  Cardinality({<<e, j>> \in Kind(ev, "dma") \X (0 .. Banks - 1) : j < e.x.words /\ (e.x.bank + j) % Banks = bank})
BankCounts(ev) ==
  \E b \in 0 .. Banks - 1 :
    LET granted(op) == Cardinality({e \in Kind(ev, "grant") : e.x.op = op /\ e.x.bank = b})
    IN granted("r") # sum.reads[b] \/ granted("w") + DmaWords(ev, b) # sum.writes[b]

(* A row's beats as the iDMA counts them. *)
BeatsOf(base, size) == IF size = 0 THEN 0 ELSE (base + size - 1) \div Banks - base \div Banks + 1
DmaBeats(ev) ==
  LET made == MapThenSumSet(LAMBDA c : BeatsOf(c.x.to, c.x.words), Kind(ev, "issue"))
  IN \/ \E c \in Kind(ev, "issue") : Cardinality(Kind(ev, "dma")) # BeatsOf(c.x.to, c.x.words)
     \/ made # sum.beats

Firings(ev, lines) ==
  \/ \E w \in RunSpans(lines, "unit") :
       LET Number(k, src) == Cardinality({e \in Of(ev, k, src) : e.task = w.task})
       IN \/ Number("fire", "unit") # w.firings
          \/ Number("push", "unit") * rate # w.firings
          \/ Number("grant", Out) # Number("push", "unit")   \* the writer's task has the unit's number
  \/ Cardinality({e \in Kind(ev, "fire") : e.task # 0}) # sum.firings

(* The words the movers of a task were granted for a beat, lane by lane. *)
GrantedWords(ev, p, task, b) == {e.x.value : e \in {g \in Of(ev, "grant", p) : g.task = task /\ g.x.b = b}}
FiredBeats(ev) ==
  \/ \E e \in Kind(ev, "fire") : \E l \in Lanes : GrantedWords(ev, <<"in", l>>, e.task, e.x.b) # {e.x.value[l]}
  \/ \E e \in Kind(ev, "push") : GrantedWords(ev, Out, e.task, e.x.n) # {e.x.value}

BankMap(ev) ==
  \E e \in Kind(ev, "grant") \cup Kind(ev, "stall") \cup Kind(ev, "dma") :
    <<e.x.bank, e.x.row>> # <<Bank(e.x.addr), Row(e.x.addr)>>

(* The streamer's AGU, step by step: loop 0 fastest, each offset on its    *)
(* own, a stride one bit narrower than the address.                        *)
Walk(bounds, strides) ==
  LET step[n \in Nat] ==
        IF n = 0 THEN [d \in DOMAIN bounds |-> [idx |-> 0, off |-> 0]]
        ELSE [d \in DOMAIN bounds |->
               LET was == step[n - 1]
                   last(e) == was[e].idx = bounds[e] - 1
               IN IF \E e \in 1 .. d - 1 : ~last(e) THEN was[d]
                  ELSE IF last(d) THEN [idx |-> 0, off |-> 0]
                  ELSE [idx |-> was[d].idx + 1,
                        off |-> (was[d].off + (strides[d] % (2 ^ (AddressBits - 1)))) % (2 ^ AddressBits)]]
  IN [n \in 0 .. Product(bounds) - 1 |-> FoldSeq(LAMBDA w, y : w.off + y, 0, step[n])]
(* A reader that repeats a beat (stride 0 on loop 0) is granted it once. *)
Once(p) == IF p # Out /\ nest.strides[1] = 0 THEN [nest.bounds EXCEPT ![1] = 1] ELSE nest.bounds
AguNest(p) ==
  IF p = Out THEN [n \in 0 .. BeatCount(Out) - 1 |-> OutBase + n]
  ELSE LET w == Walk(Once(p), nest.strides) IN [n \in DOMAIN w |-> (w[n] + p[2]) % (2 ^ AddressBits)]

MoverNests(ev, lines) ==
  \E p \in Ports : LET nth == AguNest(p) IN
    LET want == {<<n, nth[n]>> : n \in DOMAIN nth} IN
    \E w \in RunSpans(lines, p[1]) :
      LET got == {e \in Of(ev, "grant", p) : e.task = w.task}
      IN {<<Rank(e, got) - 1, e.x.addr>> : e \in got} # want \/ Cardinality(got) # Cardinality(want)

(* The class runs of a component in a task: from its first counted cycle,  *)
(* each to the next line, the last to the end of the cycles its summary    *)
(* counts, the lengths per class being the summary's.                      *)
Modes(src) == IF src = "unit" THEN {"busy", "stall_in", "stall_out", "flush"} ELSE {"busy", "stall_xbar", "stall_fifo"}
Cycles(src, task, m) == Cardinality({i \in DOMAIN sum.classes[src][task] : sum.classes[src][task][i] = m})
ClassRuns(ev, lines) ==
  \E s \in Srcs :
    \/ \E e \in Of(ev, "class", s) : e.task = 0
    \/ \E w \in RunSpans(lines, s) :
         LET mine == {e \in Of(ev, "class", s) : e.task = w.task}
             first == w.a + 1
             end == first + Len(sum.classes[s][w.task])
             at == {e.t : e \in mine}
             Until(e) == Min({u \in at : u > e.t} \cup {end})
         IN \/ first \notin at
            \/ Cardinality(at) # Cardinality(mine)
            \/ \E e, f \in mine : f.t = Until(e) /\ f.x.mode = e.x.mode
            \/ \E e \in mine : e.t >= end
            \/ \E m \in Modes(s) :
                 MapThenSumSet(LAMBDA e : Until(e) - e.t, {e \in mine : e.x.mode = m}) # Cycles(s, w.task, m)

StallCounts(ev) ==
  \E p \in Ports :
    \/ Cardinality(Of(ev, "stall", p)) # sum.stalls[p]
    \/ Cardinality({e \in Of(ev, "stall", p) : e.x.by = "dma"}) # sum.dma[p]
Conflicts(ev) ==
  LET asked == Kind(ev, "grant") \cup Kind(ev, "stall")
      At(bank, u) == Cardinality({e \in asked : e.x.bank = bank /\ e.t = u})
      took(bank, u) == \E e \in asked : e.k = "stall" /\ e.x.bank = bank /\ e.t = u /\ e.x.by = "dma"
  IN \E bank \in 0 .. Banks - 1 :
       Cardinality({u \in {e.t : e \in asked} : At(bank, u) + Plus(took(bank, u) /\ At(bank, u) > 0) >= 2})
         # sum.conflicts[bank]

(* A lane's words: the cycle each becomes visible and the one it is popped. *)
VisiblyBack(g) == g.x.back   \* mutant: visible in the cycle it comes back
Visibly(g) == g.x.back + 1
Words(ev, p) ==
  IF p = Out
  THEN {[from |-> e.t + 1, to |-> g.t, b |-> g.x.b, task |-> g.task] :
          <<g, e>> \in {<<u, v>> \in Of(ev, "grant", p) \X Kind(ev, "push") : v.task = u.task /\ v.x.n = u.x.b}}
  ELSE LET popped(g) == {e.t : e \in {f \in Kind(ev, "fire") : f.task = g.task /\ f.x.b = g.x.b}}
       IN {[from |-> Visibly(g), to |-> Max(popped(g)), b |-> g.x.b, task |-> g.task] :
             g \in {u \in Of(ev, "grant", p) : popped(u) # {}}}
FifoTops(ev) ==   \* mutant: only the highest count is checked
  \E p \in Ports :
    LET mine == Of(ev, "fifo", p) IN Max({e.x.count : e \in mine} \cup {0}) # Max({sum.qmax[p], 0})
FifoCounts(ev) ==
  \E p \in Ports :
    LET words == Words(ev, p)
        mine == Of(ev, "fifo", p)
        N(u) == Cardinality({w \in words : w.from <= u /\ u <= w.to})
        span == IF words = {} THEN {} ELSE Min({w.from : w \in words}) .. Max({w.to : w \in words}) + 1
        want == {<<u, N(u)>> : u \in {v \in span : N(v) # N(v - 1)}}
    IN \/ {<<e.t, e.x.count>> : e \in mine} # want \/ Cardinality(mine) # Cardinality(want)
       \/ \E e \in mine : e.x.count > Depth
       \/ mine # {} /\ Max({e.x.count : e \in mine}) # Max({sum.qmax[p]})
       \/ mine = {} /\ sum.qmax[p] # 0

Refused(lines) ==
  LET ev == Named(lines)
  IN \/ UnknownTask(lines) \/ Unfinished(lines)
     \/ GrantCounts(ev) \/ BankCounts(ev) \/ DmaBeats(ev)
     \/ Firings(ev, lines) \/ FiredBeats(ev) \/ BankMap(ev)
     \/ ClassRuns(ev, lines) \/ MoverNests(ev, lines)
     \/ StallCounts(ev) \/ Conflicts(ev) \/ FifoCounts(ev)

-----------------------------------------------------------------------------
(* How a line may be wrong: its cycle off by one (a grant's with the cycle *)
(* its word is back), a number of it, its address with the bank and the    *)
(* row that go with it, one of a firing's words, its class, who took the   *)
(* bank.  Left out is what no check reads on its own: the cycle of a done, *)
(* of a stall, of a DMA beat, of a firing that pops no word; a grant's     *)
(* cycle without its back, a write's back without its cycle; a stall's or  *)
(* a DMA beat's whole address, which other port took the bank and where;   *)
(* the words of a copy and of its beats; a firing's n, a push's first and  *)
(* last.                                                                   *)
Pops(e) == e.k = "fire" /\ (e.x.n + 1) % Repeat = 0
Off(e, d) == IF e.k = "grant" THEN [e EXCEPT !.t = @ + d, !.x.back = @ + d] ELSE [e EXCEPT !.t = @ + d]
Moved(e, addr) == [e EXCEPT !.x.addr = addr, !.x.bank = Bank(addr), !.x.row = Row(addr)]
Numbers(e) ==
  CASE e.k = "grant" -> {"b", "value", "addr", "bank", "row"}
    [] e.k \in {"stall", "dma"} -> {"addr", "bank", "row"}
    [] e.k = "fire" -> {"b"} [] e.k = "push" -> {"n", "value"} [] e.k = "fifo" -> {"count"}
    [] e.k = "done" /\ e.src = "unit" -> {"firings"}
    [] OTHER -> {}
Wrongly(e) ==
  {Off(e, d) : d \in {c \in {-1, 1} : e.t + c >= 0 /\ (Pops(e) \/ e.k \in {"start", "grant", "push", "fifo", "class"})}}
  \cup {[e EXCEPT !.x[f] = @ + 1] : f \in Numbers(e)}
  \cup {Moved(e, e.x.addr + c) : c \in IF e.k = "grant" THEN {1, Banks} ELSE {}}
  \cup {[e EXCEPT !.x.value[l] = @ + 1] : l \in IF e.k = "fire" THEN Lanes ELSE {}}
  \cup {[e EXCEPT !.x.mode = m] : m \in IF e.k = "class" THEN Modes(e.src) \ {e.x.mode} ELSE {}}
  \cup {[e EXCEPT !.x.by = b] : b \in IF e.k # "stall" THEN {} ELSE IF e.x.by = "dma" THEN {"in", "out"} ELSE {"dma"}}

-----------------------------------------------------------------------------
Init == SimulatedInit /\ fault = "none" /\ read = {}

Running == Simulate /\ UNCHANGED <<fault, read>>
ReadAll == Over /\ read = {} /\ read' = log /\ UNCHANGED <<vars, fault>>
Lost == Over /\ read = {} /\ fault' = "lost" /\ (\E e \in log : read' = log \ {e}) /\ UNCHANGED vars
Twice == Over /\ read = {} /\ fault' = "twice" /\ (\E e \in log : read' = log \cup {[e EXCEPT !.again = TRUE]}) /\ UNCHANGED vars
Wrong ==
  /\ Over /\ read = {} /\ fault' = "wrong"
  /\ \E e \in log : \E w \in Wrongly(e) : read' = (log \ {e}) \cup {w}
  /\ UNCHANGED vars
Cut ==   \* some cycles' lines lost, to the end of the log or not, the summaries kept
  /\ Over /\ read = {} /\ fault' = "cut"
  /\ \E c, d \in 0 .. t : read' = {e \in log : e.t \notin c .. d} /\ read' \notin {{}, log}
  /\ UNCHANGED vars
Done == read # {} /\ UNCHANGED rvars

Next == Running \/ ReadAll \/ Lost \/ Twice \/ Wrong \/ Cut \/ Done
Spec == Init /\ [][Next]_rvars

-----------------------------------------------------------------------------
(* Every run of the simulator is accepted, whatever the order the crossbar *)
(* serves its ports in, the cycles the DMA takes and the reuse of a beat:  *)
(* no check counts a cycle, a word or a beat another way (RUN level        *)
(* `stall`, every source traced).  And a beat, a stall, a firing, a push   *)
(* and a class are named after the run that made them, though the runs     *)
(* follow one another and the task is only found from the cycles of the    *)
(* starts and dones.                                                       *)
TasksAreTheirRuns ==
  \A e \in Named(read) : e.k \in {"grant", "stall", "fire", "push", "class"} => e.task = e.run
WholeLogIsRead ==
  (read # {} /\ fault = "none") => ~Refused(read) /\ TasksAreTheirRuns

(* A log with a stretch of cycles missing, or one line of it lost, written *)
(* twice or wrong in what Wrongly lists, is never accepted, though the     *)
(* checks count, and count each thing apart.  (A log that ends early has   *)
(* lost its summaries too, which alone refuses it.)                        *)
FaultsAreRefused == fault # "none" => Refused(read)
===============================================================================
