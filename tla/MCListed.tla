------------------------------ MODULE MCListed ------------------------------
(* Listed on one unit with the DMA on its core and on another; on two      *)
(* accelerators; and on two units of one, the DMA on their core.  A list   *)
(* configures parts, the DMA's task or a unit's and its set's one after    *)
(* the other, at most Parts(D) times, whatever waits to start or is under  *)
(* way; starts together any of what is configured (the DMA's task, a set's *)
(* movers, a unit; with three parts only whole ones); and syncs at most    *)
(* Syncs times.                                                            *)
EXTENDS Listed

Dsg(order, acc, dma) ==
  [order |-> order, acc |-> acc, ins |-> [u \in DOMAIN acc |-> 1], outs |-> [u \in DOMAIN acc |-> 1],
   dma |-> dma]
OneCore == Dsg(<<"u">>, [u |-> "a"], 0)
TwoCores == Dsg(<<"u">>, [u |-> "a"], 1)
Apart == Dsg(<<"u", "v">>, [u |-> "a", v |-> "b"], 1)
Together == Dsg(<<"u", "v">>, [u |-> "a", v |-> "a"], 0)
JustTwoCores == {TwoCores}
All == {OneCore, TwoCores, Apart, Together}

Parts(D) == IF Len(D.order) = 1 THEN 3 ELSE 2
Syncs == 1

(* The tasks of part n, the DMA's or a unit's: the movers of the unit's    *)
(* set, the other unit's idle, then the unit.                              *)
SetMovers(D, a) == UNION {{<<w, "in", 1>>, <<w, "out", 1>>} : w \in {x \in DOMAIN D.acc : D.acc[x] = a}}
PartTasks(D, n, p) ==
  LET comps == IF p = "dma" THEN <<DMA>> ELSE SetToSeq(SetMovers(D, D.acc[p])) \o <<Unit(p)>>
  IN [i \in DOMAIN comps |-> Task(<<n, p>>, comps[i], IsMover(comps[i]) /\ comps[i][1] # p)]
FirstOf(ts, T) == ts[CHOOSE i \in DOMAIN ts : ts[i] \in T /\ \A j \in 1 .. i - 1 : ts[j] \notin T]

(* A part's next configure; its first busy task may be after one other.    *)
Configures(D, n, p, made_) ==
  LET ts == PartTasks(D, n, p)
      t == FirstOf(ts, ToSet(ts) \ made_)
      busy == {x \in made_ : ~x.idle}
  IN {CfgStep(t, after) :
        after \in {{}} \cup (IF t = FirstOf(ts, {x \in ToSet(ts) : ~x.idle}) THEN {{x} : x \in busy} ELSE {})}

(* What may be started alone, and a start of some of it, movers first.     *)
Startables(D, open) ==
  IF Parts(D) > 2 THEN {{t \in open : t.name = x.name} : x \in open}
  ELSE {{t} : t \in {x \in open : ~IsMover(x.comp)}}
       \cup ({{t \in open : IsMover(t.comp) /\ D.acc[t.comp[1]] = a} : a \in {D.acc[u] : u \in DOMAIN D.acc}} \ {{}})
InOrder(S) ==
  SetToSeq({t \in S : IsDma(t.comp)}) \o SetToSeq({t \in S : IsMover(t.comp)})
  \o SetToSeq({t \in S : IsUnit(t.comp)})

Bounded(D, m, cf, sts) ==
  LET done == DOMAIN cf
      started == UNION {ToSet(sts[i]) : i \in DOMAIN sts}
      open == done \ started
      n == Cardinality({t.name : t \in done})
      last == (CHOOSE t \in done : t.name[1] = n).name[2]
      free(p) == \A t \in open : \A x \in ToSet(PartTasks(D, n, p)) : t.comp # x.comp
  IN IF n > 0 /\ ~(ToSet(PartTasks(D, n, last)) \subseteq done) THEN Configures(D, n, last, done)
     ELSE (IF n = Parts(D) THEN {}
           ELSE UNION {Configures(D, n + 1, p, done) : p \in {q \in {"dma"} \cup DOMAIN D.acc : free(q)}})
          \cup {GoStep(InOrder(UNION A)) : A \in SUBSET Startables(D, open) \ {{}}}
          \cup (IF m - Cardinality(done) - Len(sts) = Syncs THEN {}
                ELSE {SyncStep(t) : t \in {x \in started : ~x.idle}})
=============================================================================
