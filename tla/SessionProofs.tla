---------------------------- MODULE SessionProofs ----------------------------
(***************************************************************************)
(* The editor's session for any recipes it starts from, any numbers and    *)
(* any number of steps: what undo, redo, drops, param changes, renames and *)
(* crashes leave is what the recipe replays to, in memory and on disk.     *)
(***************************************************************************)
EXTENDS Session, WellFoundedInduction, FiniteSetTheorems, SequenceTheorems, TLAPS

(* Induction over a set of numbers rather than over a predicate: a number  *)
(* out of the set would be the first such.                                 *)
LEMMA SetInduction ==
  ASSUME NEW S, 0 \in S, \A n \in Nat : n \in S => n + 1 \in S
  PROVE  Nat \subseteq S
<1> SUFFICES ASSUME Nat \ S # {} PROVE FALSE
  OBVIOUS
<1>1. PICK x \in Nat \ S : \A y \in Nat \ S : ~(<<y, x>> \in OpToRel(<, Nat))
  BY NatLessThanWellFounded, WFMin
<1>2. x # 0 /\ x - 1 \in Nat /\ (x - 1) + 1 = x
  OBVIOUS
<1>3. <<x - 1, x>> \in OpToRel(<, Nat)
  BY <1>2 DEF OpToRel
<1>4. QED BY <1>1, <1>2, <1>3

(* What holds at a, and one further wherever it holds, holds up to b: were  *)
(* there a number where it does not, there would be a first.               *)
LEMMA Upward ==
  ASSUME NEW a \in Int, NEW b \in Int, NEW S, a \in S,
         \A k \in a .. b - 1 : k \in S => k + 1 \in S
  PROVE  a .. b \subseteq S
<1> DEFINE T == {n \in Nat : a + n \in a .. b /\ a + n \notin S}
<1> SUFFICES ASSUME T # {} PROVE FALSE
  <2>1. ASSUME NEW k \in a .. b, k \notin S PROVE k - a \in T
    BY <2>1
  <2>2. QED BY <2>1
<1>1. PICK x \in T : \A y \in T : ~(<<y, x>> \in OpToRel(<, Nat))
  <2>1. T \subseteq Nat
    OBVIOUS
  <2> HIDE DEF T
  <2>2. QED BY <2>1, NatLessThanWellFounded, WFMin
<1>2. \A y \in T : ~(y < x)
  BY <1>1 DEF OpToRel
<1>3. x # 0 /\ x - 1 \in Nat /\ a + (x - 1) \in a .. b - 1 /\ (a + (x - 1)) + 1 = a + x
  OBVIOUS
<1>4. a + (x - 1) \in S
  BY <1>2, <1>3
<1>5. QED BY <1>3, <1>4

(* The graphs of a recipe's first steps, as they are replayed one by one.  *)
IsSeq(s) == \E S : s \in Seq(S)
Chain(r, gs) ==
  /\ IsSeq(gs) /\ Len(gs) \in 1 .. Len(r.steps) + 1
  /\ gs[1] = Import(r)
  /\ \A i \in 1 .. Len(gs) - 1 : gs[i + 1] = Stepped(r, gs[i], i)
  /\ \A i \in 1 .. Len(gs) : IsGraph(gs[i])

-----------------------------------------------------------------------------
(* Replaying.                                                              *)

LEMMA SteppedIs ==
  ASSUME NEW r, NEW g, IsGraph(g), NEW i
  PROVE  LET x == Stepped(r, g, i)
         IN IsGraph(x) \/ (x.error \in {"value", "step"} /\ ~IsGraph(x))
<1> DEFINE s == r.steps[i]
           v == IF s.kind \in Ints THEN Value(r, s.arg) ELSE 0
<1>1. ASSUME NEW kind PROVE Error(kind).error = kind /\ ~IsGraph(Error(kind))
  BY DEF Error, IsGraph
<1>2. CASE v = Text
  BY <1>1, <1>2 DEF Stepped
<1>3. CASE v # Text /\ ~Accepts(g, s, v)
  BY <1>1, <1>3 DEF Stepped
<1>4. CASE v # Text /\ Accepts(g, s, v)
  <2>1. Stepped(r, g, i) = Transformed(g, s, v)
    BY <1>4 DEF Stepped
  <2>2. s.kind \in {"split", "bind", "link"}
    BY <1>4 DEF Accepts
  <2> HIDE DEF s, v
  <2>3. DOMAIN Transformed(g, s, v) = DOMAIN g
    BY <2>2 DEF Transformed
  <2>4. QED BY <2>1, <2>3 DEF IsGraph
<1>5. QED BY <1>2, <1>3, <1>4

(* The recursion has a solution, so that Run's function is one.            *)
LEMMA RunIs ==
  ASSUME NEW r, NEW gs, Len(gs) \in Nat, NEW upto \in Int
  PROVE  LET run == Run(r, gs, upto)
             from == Len(gs)
         IN /\ DOMAIN run = from .. upto + 1
            /\ from <= upto + 1 => run[from] = gs[from]
            /\ \A i \in from .. upto :
                 run[i + 1] = IF IsGraph(run[i]) THEN Stepped(r, run[i], i) ELSE run[i]
<1> DEFINE from == Len(gs)
           Body(f, i) == CASE i = from -> gs[from]
                           [] i > from /\ IsGraph(f[i - 1]) -> Stepped(r, f[i - 1], i - 1)
                           [] OTHER -> f[i - 1]
<1>1. \E f : f = [i \in from .. upto + 1 |-> Body(f, i)]
  <2> DEFINE D(n) == from .. from + n
             S == {n \in Nat : \E f : f = [i \in D(n) |-> Body(f, i)]}
  <2>1. 0 \in S
    <3> DEFINE f == [i \in D(0) |-> gs[from]]
    <3>1. f = [i \in D(0) |-> Body(f, i)]
      OBVIOUS
    <3>2. QED BY <3>1
  <2>2. ASSUME NEW n \in Nat, n \in S PROVE n + 1 \in S
    <3>1. PICK f : f = [i \in D(n) |-> Body(f, i)]
      BY <2>2
    <3> DEFINE g == [i \in D(n + 1) |-> IF i \in D(n) THEN f[i] ELSE Body(f, i)]
    <3> HIDE DEF Body
    <3>2. /\ \A i \in D(n) : g[i] = Body(f, i)
          /\ \A i \in D(n + 1) : i \notin D(n) => g[i] = Body(f, i)
          /\ \A i \in D(n) : f[i] = g[i]
      BY <3>1, SMTT(20)
    <3>3. \A i \in D(n + 1) : i # from => i - 1 \in D(n)
      OBVIOUS
    <3>4. \A i \in D(n + 1) : Body(g, i) = Body(f, i)
      <4> TAKE i \in D(n + 1)
      <4>1. i = from \/ f[i - 1] = g[i - 1]
        BY <3>2, <3>3
      <4> HIDE DEF g
      <4>2. QED BY <4>1 DEF Body
    <3>5. g = [i \in D(n + 1) |-> Body(g, i)]
      BY <3>2, <3>4
    <3> HIDE DEF g
    <3>6. \E h : h = [i \in D(n + 1) |-> Body(h, i)]
      BY <3>5
    <3> HIDE DEF D
    <3>7. QED BY <3>6
  <2>3. Nat \subseteq S
    <3> HIDE DEF S
    <3> QED BY <2>1, <2>2, SetInduction
  <2>4. CASE from <= upto + 1
    <3>1. (upto + 1) - from \in Nat /\ D((upto + 1) - from) = from .. upto + 1
      BY <2>4
    <3> DEFINE m == (upto + 1) - from
    <3> HIDE DEF D, Body
    <3>2. \E f : f = [i \in D(m) |-> Body(f, i)]
      <4> HIDE DEF m
      <4> QED BY <2>3, <3>1 DEF m
    <3>3. QED BY <3>1, <3>2 DEF m
  <2>5. CASE from > upto + 1
    <3> DEFINE f == [i \in from .. upto + 1 |-> 0]
    <3>1. f = [i \in from .. upto + 1 |-> Body(f, i)]
      BY <2>5
    <3>2. QED BY <3>1
  <2>6. QED BY <2>4, <2>5
<1>2. Run(r, gs, upto) = [i \in from .. upto + 1 |-> Body(Run(r, gs, upto), i)]
  BY <1>1 DEF Run
<1>3. QED BY <1>2

LEMMA SeqIs ==
  ASSUME NEW s
  PROVE  /\ IsSeq(s) <=> (Len(s) \in Nat /\ s = [i \in 1 .. Len(s) |-> s[i]])
         /\ \A n \in Nat : \A e : s = [i \in 1 .. n |-> e[i]] => IsSeq(s) /\ Len(s) = n
<1>1. ASSUME NEW n \in Nat, NEW e, s = [i \in 1 .. n |-> e[i]] PROVE IsSeq(s) /\ Len(s) = n
  <2> DEFINE S == {e[i] : i \in 1 .. n}
  <2>1. s \in Seq(S) /\ Len(s) = n
    BY <1>1
  <2>2. QED BY <2>1 DEF IsSeq
<1>2. IsSeq(s) => Len(s) \in Nat /\ s = [i \in 1 .. Len(s) |-> s[i]]
  BY DEF IsSeq
<1>3. QED BY <1>1, <1>2

(* The recursion, read forwards: graphs up to some m, then one error.      *)
LEMMA RunShape ==
  ASSUME NEW r, NEW gs, Chain(r, gs), NEW upto \in Nat, Len(gs) <= upto + 1
  PROVE  LET run == Run(r, gs, upto)
         IN \E m \in Len(gs) .. upto + 1 :
              /\ \A i \in Len(gs) .. m : IsGraph(run[i])
              /\ \A i \in m + 1 .. upto + 1 : ~IsGraph(run[i]) /\ run[i].error \in {"value", "step"}
              /\ m < upto + 1 => run[m + 1] = Stepped(r, run[m], m)
<1> DEFINE run == Run(r, gs, upto)
           from == Len(gs)
           Shape(n, m) ==
             /\ \A i \in from .. m : IsGraph(run[i])
             /\ \A i \in m + 1 .. n : ~IsGraph(run[i]) /\ run[i].error \in {"value", "step"}
             /\ m < n => run[m + 1] = Stepped(r, run[m], m)
           S == {n \in Int : \E m \in from .. n : Shape(n, m)}
<1>1. from \in Nat /\ IsGraph(gs[from]) /\ from >= 1
  BY DEF Chain
<1>2. /\ run[from] = gs[from]
      /\ \A i \in from .. upto : run[i + 1] = IF IsGraph(run[i]) THEN Stepped(r, run[i], i) ELSE run[i]
  BY <1>1, RunIs
<1> HIDE DEF run
<1>3. from \in S
  <2>1. Shape(from, from)
    BY <1>1, <1>2
  <2> HIDE DEF Shape
  <2>2. QED BY <1>1, <2>1
<1>4. ASSUME NEW n \in from .. upto, n \in S PROVE n + 1 \in S
  <2>1. PICK m \in from .. n : Shape(n, m)
    BY <1>4
  <2>2. CASE m = n
    <3>1. IsGraph(run[n]) /\ run[n + 1] = Stepped(r, run[n], n)
      BY <1>1, <1>2, <2>1, <2>2
    <3>2. IsGraph(run[n + 1]) \/ (run[n + 1].error \in {"value", "step"} /\ ~IsGraph(run[n + 1]))
      BY <3>1, SteppedIs
    <3>3. CASE IsGraph(run[n + 1])
      <4>1. Shape(n + 1, n + 1)
        BY <1>1, <2>1, <2>2, <3>3
      <4> HIDE DEF Shape
      <4>2. QED BY <1>1, <4>1
    <3>4. CASE ~IsGraph(run[n + 1])
      <4>1. Shape(n + 1, n)
        BY <1>1, <2>1, <2>2, <3>1, <3>2, <3>4
      <4> HIDE DEF Shape
      <4>2. QED BY <1>1, <4>1
    <3>5. QED BY <3>3, <3>4
  <2>3. CASE m < n
    <3>1. ~IsGraph(run[n]) /\ run[n + 1] = run[n]
      BY <1>1, <1>2, <2>1, <2>3
    <3>2. Shape(n + 1, m)
      BY <1>1, <2>1, <2>3, <3>1
    <3> HIDE DEF Shape
    <3>3. QED BY <1>1, <3>2
  <2>4. QED BY <1>1, <2>1, <2>2, <2>3
<1>5. upto + 1 \in S
  <2> HIDE DEF S
  <2>0. (upto + 1) - 1 = upto /\ from \in Int /\ upto + 1 \in Int
    BY <1>1
  <2>1. from .. upto + 1 \subseteq S
    BY <2>0, <1>3, <1>4, Upward
  <2>2. QED BY <1>1, <2>1
<1>6. QED BY <1>5 DEF run

(* The graphs gs of r, replayed on to step upto, or to one that fails.     *)
ExtendsTo(r, gs, upto, x) ==
  LET n == Len(x.graphs)
  IN /\ x = [graphs |-> x.graphs, error |-> x.error]
     /\ Chain(r, x.graphs) /\ Len(gs) <= n
     /\ \A i \in 1 .. Len(gs) : x.graphs[i] = gs[i]
     /\ x.error = None => n = IF upto + 1 <= Len(gs) THEN Len(gs) ELSE upto + 1
     /\ x.error # None => n <= upto /\ ~IsGraph(Stepped(r, x.graphs[n], n))

LEMMA ExtendedIs ==
  ASSUME NEW r, NEW gs, Chain(r, gs), NEW upto \in Nat, upto <= Len(r.steps), Len(r.steps) \in Nat
  PROVE  ExtendsTo(r, gs, upto, Extended(r, gs, upto))
<1> PICK x : x = Extended(r, gs, upto)
  OBVIOUS
<1> SUFFICES ExtendsTo(r, gs, upto, x)
  OBVIOUS
<1> DEFINE run == Run(r, gs, upto)
           from == Len(gs)
           good == {i \in from + 1 .. upto + 1 : IsGraph(run[i])}
           err == IF upto + 1 <= from \/ IsGraph(run[upto + 1]) THEN None ELSE run[upto + 1].error
           out == gs \o [i \in 1 .. Cardinality(good) |-> run[from + i]]
<1>1. x = [graphs |-> out, error |-> err]
  BY DEF Extended
<1>2. from \in Nat /\ from >= 1 /\ from <= Len(r.steps) + 1 /\ IsSeq(gs)
  BY DEF Chain
<1>3. CASE upto + 1 < from
  <2>1. good = {} /\ Cardinality(good) = 0
    <3>1. good = {}
      BY <1>2, <1>3
    <3> HIDE DEF good
    <3>2. QED BY <3>1, FS_EmptySet
  <2>2. out = gs
    <3> HIDE DEF good, run
    <3>1. [i \in 1 .. Cardinality(good) |-> run[from + i]] = <<>>
      BY <2>1
    <3>2. PICK S : gs \in Seq(S)
      BY <1>2 DEF IsSeq
    <3>3. gs \o <<>> = gs
      BY <3>2
    <3>4. QED BY <3>1, <3>3
  <2>3. err = None
    BY <1>2, <1>3
  <2> HIDE DEF out, err
  <2>4. QED BY <1>1, <1>2, <1>3, <2>2, <2>3 DEF ExtendsTo
<1>4. CASE from <= upto + 1
  <2>1. PICK m \in from .. upto + 1 :
          /\ \A i \in from .. m : IsGraph(run[i])
          /\ \A i \in m + 1 .. upto + 1 : ~IsGraph(run[i]) /\ run[i].error \in {"value", "step"}
          /\ m < upto + 1 => run[m + 1] = Stepped(r, run[m], m)
    BY <1>4, RunShape
  <2>2. /\ run[from] = gs[from]
        /\ \A i \in from .. upto : run[i + 1] = IF IsGraph(run[i]) THEN Stepped(r, run[i], i) ELSE run[i]
    BY <1>2, <1>4, RunIs
  <2> HIDE DEF run
  <2>3. good = from + 1 .. m
    BY <1>2, <2>1
  <2>4. Cardinality(good) = m - from
    <3> HIDE DEF good
    <3>1. Cardinality(from + 1 .. m) = IF from + 1 > m THEN 0 ELSE m - (from + 1) + 1
      <4>1. from + 1 \in Int /\ m \in Int
        BY <1>2
      <4>2. QED BY <4>1, FS_Interval
    <3>2. QED BY <1>2, <2>1, <2>3, <3>1
  <2>5. /\ IsSeq(out) /\ Len(out) = m
        /\ \A i \in 1 .. from : out[i] = gs[i]
        /\ \A i \in from .. m : out[i] = run[i]
    <3> DEFINE more == [i \in 1 .. m - from |-> run[from + i]]
               S == {gs[i] : i \in 1 .. from} \cup {run[i] : i \in from .. m}
    <3>1. gs \in Seq(S) /\ more \in Seq(S) /\ Len(more) = m - from
      <4>1. gs = [i \in 1 .. from |-> gs[i]]
        BY <1>2, SeqIs
      <4>2. gs \in Seq(S)
        <5>1. \A i \in 1 .. from : gs[i] \in S
          OBVIOUS
        <5> HIDE DEF S
        <5>2. QED BY <1>2, <4>1, <5>1
      <4>3. m - from \in Nat /\ \A i \in 1 .. m - from : from + i \in from .. m
        BY <1>2, <2>1
      <4>4. \A i \in 1 .. m - from : run[from + i] \in S
        BY <4>3
      <4> HIDE DEF S
      <4>5. QED BY <4>2, <4>3, <4>4
    <3>2. out = gs \o more
      BY <2>4
    <3>3. \A i \in 1 .. m - from : more[i] = run[from + i]
      OBVIOUS
    <3> HIDE DEF more, S, out
    <3>4. out \in Seq(S) /\ Len(out) = m /\ \A i \in 1 .. from : out[i] = gs[i]
      BY <1>2, <2>1, <3>1, <3>2
    <3>5. \A i \in from + 1 .. m : out[i] = run[i]
      <4> TAKE i \in from + 1 .. m
      <4>1. out[i] = more[i - from] /\ i - from \in 1 .. m - from
        BY <1>2, <2>1, <3>1, <3>2
      <4>2. from + (i - from) = i
        BY <1>2
      <4>3. QED BY <3>3, <4>1, <4>2
    <3>6. out[from] = run[from]
      BY <1>2, <2>2, <3>4
    <3>7. QED BY <1>2, <2>1, <3>4, <3>5, <3>6 DEF IsSeq
  <2>6. Chain(r, out)
    <3> HIDE DEF out
    <3>1. \A i \in 1 .. m - 1 : out[i + 1] = Stepped(r, out[i], i)
      <4> TAKE i \in 1 .. m - 1
      <4>1. CASE i < from
        <5>1. i + 1 \in 1 .. from /\ i \in 1 .. from /\ i \in 1 .. Len(gs) - 1
          BY <1>2, <4>1
        <5>2. gs[i + 1] = Stepped(r, gs[i], i)
          BY <5>1 DEF Chain
        <5>3. QED BY <2>5, <5>1, <5>2
      <4>2. CASE i >= from
        <5>1. i \in from .. m /\ i + 1 \in from .. m /\ i \in from .. upto
          BY <1>2, <2>1, <4>2
        <5>2. QED BY <2>1, <2>2, <2>5, <5>1
      <4>3. QED BY <1>2, <4>1, <4>2
    <3>2. \A i \in 1 .. m : IsGraph(out[i])
      <4> TAKE i \in 1 .. m
      <4>1. CASE i \in 1 .. from
        BY <2>5, <4>1 DEF Chain
      <4>2. CASE i \in from .. m
        BY <2>1, <2>5, <4>2
      <4>3. QED BY <1>2, <4>1, <4>2
    <3>3. out[1] = Import(r)
      BY <1>2, <2>5 DEF Chain
    <3>4. QED BY <1>2, <2>1, <2>5, <3>1, <3>2, <3>3 DEF Chain
  <2>7. err = None => m = upto + 1
    <3>1. CASE m < upto + 1
      <4>1. ~IsGraph(run[upto + 1]) /\ run[upto + 1].error \in {"value", "step"} /\ ~(upto + 1 <= from)
        BY <1>2, <2>1, <3>1
      <4>2. QED BY <4>1 DEF None
    <3>2. QED BY <2>1, <3>1
  <2>8. err # None => m < upto + 1 /\ ~IsGraph(Stepped(r, run[m], m))
    <3>1. CASE m = upto + 1
      BY <1>2, <2>1, <3>1
    <3>2. CASE m < upto + 1
      BY <1>2, <2>1, <3>2
    <3>3. QED BY <2>1, <3>1, <3>2
  <2> HIDE DEF out, err
  <2>9. x.graphs = out /\ x.error = err /\ x = [graphs |-> x.graphs, error |-> x.error]
    BY <1>1
  <2>10. out[m] = run[m]
    BY <1>2, <2>1, <2>5
  <2>11. QED BY <1>2, <1>4, <2>1, <2>5, <2>6, <2>7, <2>8, <2>9, <2>10 DEF ExtendsTo
<1>5. QED BY <1>2, <1>3, <1>4

LEMMA SameChain ==
  ASSUME NEW r, NEW a, NEW b, Chain(r, a), Chain(r, b), NEW n \in Nat, n <= Len(a), n <= Len(b)
  PROVE  \A i \in 1 .. n : a[i] = b[i]
<1> DEFINE S == {i \in Int : a[i] = b[i]}
<1>1. 1 \in S
  BY DEF Chain
<1>2. ASSUME NEW i \in 1 .. n - 1, i \in S PROVE i + 1 \in S
  BY <1>2 DEF Chain
<1>3. 1 .. n \subseteq S
  <2> HIDE DEF S
  <2> QED BY <1>1, <1>2, Upward
<1>4. QED BY <1>3

LEMMA First ==
  ASSUME NEW r, Len(r.steps) \in Nat
  PROVE  Chain(r, <<Import(r)>>) /\ Len(<<Import(r)>>) = 1
<1>1. IsGraph(Import(r))
  BY DEF Import, IsGraph
<1>2. <<Import(r)>> \in Seq({Import(r)}) /\ Len(<<Import(r)>>) = 1
  OBVIOUS
<1>3. <<Import(r)>>[1] = Import(r)
  OBVIOUS
<1> DEFINE gs == <<Import(r)>>
<1> HIDE DEF gs
<1>4. gs[1] = Import(r) /\ Len(gs) = 1 /\ \E S : gs \in Seq(S)
  BY <1>2, <1>3 DEF gs
<1>5. Chain(r, gs)
  BY <1>1, <1>4 DEF Chain, IsSeq
<1>6. QED BY <1>4, <1>5 DEF gs

(* A recipe's replay is its chain, and any chain is a replay.              *)
LEMMA ReplayIs ==
  ASSUME NEW r, Len(r.steps) \in Nat, NEW c, Chain(r, c), NEW k \in 0 .. Len(c) - 1
  PROVE  Replay(r, k) = [graphs |-> SubSeq(c, 1, k + 1), error |-> None]
<1> DEFINE gs == <<Import(r)>>
<1> PICK x : x = Extended(r, gs, k)
  OBVIOUS
<1> DEFINE n == Len(x.graphs)
<1>1. Chain(r, gs) /\ Len(gs) = 1 /\ Len(c) \in 1 .. Len(r.steps) + 1 /\ k \in Nat /\ k <= Len(r.steps)
  BY First DEF Chain
<1> HIDE DEF gs
<1>2. /\ x = [graphs |-> x.graphs, error |-> x.error]
      /\ Chain(r, x.graphs)
      /\ x.error = None => n = k + 1
      /\ x.error # None => n <= k /\ ~IsGraph(Stepped(r, x.graphs[n], n))
  <2>1. ExtendsTo(r, gs, k, x)
    BY <1>1, ExtendedIs
  <2>2. /\ x = [graphs |-> x.graphs, error |-> x.error] /\ Chain(r, x.graphs)
        /\ x.error = None => n = IF k + 1 <= Len(gs) THEN Len(gs) ELSE k + 1
        /\ x.error # None => n <= k /\ ~IsGraph(Stepped(r, x.graphs[n], n))
    BY <2>1 DEF ExtendsTo
  <2>3. (IF k + 1 <= Len(gs) THEN Len(gs) ELSE k + 1) = k + 1
    BY <1>1
  <2>4. QED BY <2>2, <2>3
<1>3. n \in Nat /\ n >= 1 /\ IsSeq(x.graphs)
  BY <1>2 DEF Chain
<1>4. x.error = None
  <2> SUFFICES ASSUME x.error # None PROVE FALSE
    OBVIOUS
  <2>1. x.graphs[n] = c[n]
    BY <1>1, <1>2, <1>3, SameChain
  <2>2. c[n + 1] = Stepped(r, c[n], n) /\ IsGraph(c[n + 1])
    BY <1>1, <1>2, <1>3 DEF Chain
  <2>3. QED BY <1>2, <2>1, <2>2
<1>5. x.graphs = SubSeq(c, 1, k + 1)
  <2>1. \A i \in 1 .. k + 1 : x.graphs[i] = c[i]
    BY <1>1, <1>2, <1>3, <1>4, SameChain
  <2>2. SubSeq(c, 1, k + 1) = [i \in 1 .. k + 1 |-> c[i]]
    BY <1>1 DEF Chain, IsSeq
  <2>3. x.graphs = [i \in 1 .. k + 1 |-> x.graphs[i]]
    BY <1>2, <1>3, <1>4, SeqIs
  <2>4. QED BY <2>1, <2>2, <2>3
<1>6. QED BY <1>2, <1>4, <1>5 DEF Replay, gs

-----------------------------------------------------------------------------
(* The same steps with other names.                                        *)

StepWhole(s) == s = [kind |-> s.kind, on |-> s.on, arg |-> s.arg, inst |-> s.inst]
RecipeOK(r) ==
  /\ r = [params |-> r.params, steps |-> r.steps]
  /\ IsFiniteSet(DOMAIN r.params) /\ N \in DOMAIN r.params
  /\ IsSeq(r.steps) /\ \A i \in 1 .. Len(r.steps) : StepWhole(r.steps[i])

LEMMA StepAlike ==
  ASSUME NEW r, NEW q, NEW g, NEW i,
         q.steps[i].kind = r.steps[i].kind, q.steps[i].on = r.steps[i].on,
         q.steps[i].inst = r.steps[i].inst,
         r.steps[i].kind \in Ints => Value(q, q.steps[i].arg) = Value(r, r.steps[i].arg)
  PROVE  Stepped(q, g, i) = Stepped(r, g, i)
<1> PICK s : s = r.steps[i]
  OBVIOUS
<1> PICK t : t = q.steps[i]
  OBVIOUS
<1> DEFINE v == IF s.kind \in Ints THEN Value(r, s.arg) ELSE 0
           w == IF t.kind \in Ints THEN Value(q, t.arg) ELSE 0
<1>1. t.kind = s.kind /\ t.on = s.on /\ t.inst = s.inst /\ w = v
  OBVIOUS
<1> HIDE DEF v, w
<1>2. Accepts(g, t, w) <=> Accepts(g, s, v)
  BY <1>1 DEF Accepts
<1>3. Transformed(g, t, w) = Transformed(g, s, v)
  BY <1>1 DEF Transformed
<1>4. Stepped(r, g, i) = CASE v = Text -> Error("value")
                           [] v # Text /\ Accepts(g, s, v) -> Transformed(g, s, v)
                           [] OTHER -> Error("step")
  BY DEF Stepped, v
<1>5. Stepped(q, g, i) = CASE w = Text -> Error("value")
                           [] w # Text /\ Accepts(g, t, w) -> Transformed(g, t, w)
                           [] OTHER -> Error("step")
  BY DEF Stepped, w
<1>6. QED BY <1>1, <1>2, <1>3, <1>4, <1>5

(* A step that made a graph names a number or a param.                     *)
LEMMA ArgKnown ==
  ASSUME NEW r, NEW g, NEW i, IsGraph(Stepped(r, g, i)), r.steps[i].kind \in Ints
  PROVE  IsNumber(r.steps[i].arg) \/ r.steps[i].arg \in DOMAIN r.params
<1> SUFFICES ASSUME ~IsNumber(r.steps[i].arg), r.steps[i].arg \notin DOMAIN r.params
             PROVE  FALSE
  OBVIOUS
<1>1. Value(r, r.steps[i].arg) = Text
  BY DEF Value
<1>2. Stepped(r, g, i) = Error("value")
  BY <1>1 DEF Stepped
<1>3. QED BY <1>2 DEF Error, IsGraph

LEMMA SubIs ==
  ASSUME NEW s, IsSeq(s), NEW n \in 0 .. Len(s)
  PROVE  /\ IsSeq(SubSeq(s, 1, n)) /\ Len(SubSeq(s, 1, n)) = n
         /\ \A i \in 1 .. n : SubSeq(s, 1, n)[i] = s[i]
<1>1. PICK S : s \in Seq(S)
  BY DEF IsSeq
<1>2. Len(s) \in Nat /\ n \in Nat /\ n <= Len(s)
  BY <1>1
<1>3. SubSeq(s, 1, n) \in Seq(S)
  BY <1>1, <1>2
<1>4. Len(SubSeq(s, 1, n)) = n
  BY <1>1, <1>2
<1>5. \A i \in 1 .. n : SubSeq(s, 1, n)[i] = s[i]
  BY <1>1, <1>2
<1>6. QED BY <1>3, <1>4, <1>5 DEF IsSeq

LEMMA MoreIs ==
  ASSUME NEW s, IsSeq(s), NEW e
  PROVE  /\ IsSeq(Append(s, e)) /\ Len(Append(s, e)) = Len(s) + 1 /\ Len(s) \in Nat
         /\ \A i \in 1 .. Len(s) : Append(s, e)[i] = s[i]
         /\ Append(s, e)[Len(s) + 1] = e
<1>1. PICK S : s \in Seq(S)
  BY DEF IsSeq
<1>2. s \in Seq(S \cup {e}) /\ e \in S \cup {e}
  BY <1>1
<1>3. QED BY <1>2, AppendProperties DEF IsSeq

LEMMA SubMore ==
  ASSUME NEW s, IsSeq(s), NEW n \in 0 .. Len(s), NEW e
  PROVE  /\ Len(Append(SubSeq(s, 1, n), e)) = n + 1
         /\ \A i \in 1 .. n : Append(SubSeq(s, 1, n), e)[i] = s[i]
         /\ Append(SubSeq(s, 1, n), e)[n + 1] = e
<1> DEFINE u == SubSeq(s, 1, n)
<1>1. IsSeq(u) /\ Len(u) = n /\ \A i \in 1 .. n : u[i] = s[i]
  BY SubIs
<1> HIDE DEF u
<1>2. /\ Len(Append(u, e)) = Len(u) + 1 /\ \A i \in 1 .. Len(u) : Append(u, e)[i] = u[i]
      /\ Append(u, e)[Len(u) + 1] = e
  BY <1>1, MoreIs
<1>3. /\ Len(Append(u, e)) = n + 1 /\ \A i \in 1 .. n : Append(u, e)[i] = s[i]
      /\ Append(u, e)[n + 1] = e
  BY <1>1, <1>2
<1>4. QED BY <1>3 DEF u

(* A chain's graphs, of a recipe whose first steps do the same.            *)
LEMMA ChainAlike ==
  ASSUME NEW r, NEW q, NEW gs, Chain(r, gs), Len(r.steps) \in Nat, Len(q.steps) \in Nat,
         NEW n \in 1 .. Len(gs), n - 1 <= Len(q.steps), Import(q) = Import(r),
         \A i \in 1 .. n - 1 : Stepped(q, gs[i], i) = Stepped(r, gs[i], i)
  PROVE  /\ Chain(q, SubSeq(gs, 1, n)) /\ Len(SubSeq(gs, 1, n)) = n
         /\ \A i \in 1 .. n : SubSeq(gs, 1, n)[i] = gs[i]
<1> PICK c : c = SubSeq(gs, 1, n)
  OBVIOUS
<1>1. IsSeq(gs) /\ Len(gs) \in Nat
  BY DEF Chain
<1>2. IsSeq(c) /\ Len(c) = n /\ \A i \in 1 .. n : c[i] = gs[i]
  BY <1>1, SubIs
<1>3. \A i \in 1 .. n - 1 : c[i + 1] = Stepped(q, c[i], i)
  <2> TAKE i \in 1 .. n - 1
  <2>1. i \in 1 .. n /\ i + 1 \in 1 .. n /\ i \in 1 .. Len(gs) - 1
    BY <1>1
  <2>2. gs[i + 1] = Stepped(r, gs[i], i)
    BY <2>1 DEF Chain
  <2>3. QED BY <1>2, <2>1, <2>2
<1>4. c[1] = Import(q) /\ \A i \in 1 .. n : IsGraph(c[i])
  BY <1>1, <1>2 DEF Chain
<1>5. QED BY <1>2, <1>3, <1>4 DEF Chain

LEMMA Grown ==
  ASSUME NEW r, NEW c, Chain(r, c), Len(r.steps) \in Nat, Len(c) <= Len(r.steps),
         NEW g, g = Stepped(r, c[Len(c)], Len(c)), IsGraph(g)
  PROVE  Chain(r, Append(c, g))
<1> PICK d : d = Append(c, g)
  OBVIOUS
<1>1. Len(c) \in Nat /\ Len(c) >= 1 /\ IsSeq(c)
  BY DEF Chain
<1>2. /\ IsSeq(d) /\ Len(d) = Len(c) + 1 /\ d[Len(c) + 1] = g
      /\ \A i \in 1 .. Len(c) : d[i] = c[i]
  BY <1>1, MoreIs
<1>3. \A i \in 1 .. Len(d) - 1 : d[i + 1] = Stepped(r, d[i], i)
  <2> TAKE i \in 1 .. Len(d) - 1
  <2>1. CASE i = Len(c)
    BY <1>1, <1>2, <2>1
  <2>2. CASE i \in 1 .. Len(c) - 1
    <3>1. c[i + 1] = Stepped(r, c[i], i) /\ i + 1 \in 1 .. Len(c) /\ i \in 1 .. Len(c)
      BY <1>1, <2>2 DEF Chain
    <3>2. QED BY <1>2, <3>1
  <2>3. QED BY <1>1, <1>2, <2>1, <2>2
<1>4. \A i \in 1 .. Len(d) : IsGraph(d[i])
  <2> TAKE i \in 1 .. Len(d)
  <2>1. CASE i = Len(c) + 1
    BY <1>2, <2>1
  <2>2. CASE i \in 1 .. Len(c)
    BY <1>2, <2>2 DEF Chain
  <2>3. QED BY <1>1, <1>2, <2>1, <2>2
<1>5. d[1] = Import(r)
  BY <1>1, <1>2 DEF Chain
<1>6. QED BY <1>1, <1>2, <1>3, <1>4, <1>5 DEF Chain

(* The name a form or a rename takes is nobody's.                          *)
LEMMA FreeIs ==
  ASSUME NEW base, NEW inst, NEW taken, IsFiniteSet(taken)
  PROVE  NextFree(base, inst, taken) \notin taken /\ NextFree(base, inst, taken)[1] = base
<1> DEFINE c == Cardinality(taken)
           free == {k \in 1 .. c + 1 : <<base, inst, k>> \notin taken}
<1>1. c \in Nat
  BY FS_CardinalityType
<1>2. free # {}
  <2> SUFFICES ASSUME \A k \in 1 .. c + 1 : <<base, inst, k>> \in taken PROVE FALSE
    OBVIOUS
  <2> DEFINE f == [k \in 1 .. c + 1 |-> <<base, inst, k>>]
             I == 1 .. c + 1
  <2>1. f \in [I -> taken]
    OBVIOUS
  <2>2. \A j, k \in I : f[j] = f[k] => j = k
    OBVIOUS
  <2>3. IsFiniteSet(I) /\ Cardinality(I) = c + 1
    BY <1>1, FS_Interval
  <2> HIDE DEF f, I
  <2>4. Cardinality(taken) < Cardinality(I)
    BY <1>1, <2>3
  <2>5. QED BY <2>1, <2>2, <2>3, <2>4, FS_PigeonHole
<1>3. \E k \in free : \A j \in free : k <= j
  <2> SUFFICES ASSUME \A k \in free : \E j \in free : j < k PROVE FALSE
    BY <1>1
  <2> DEFINE S == {n \in Int : \A j \in free : n <= j}
  <2>1. 1 \in S
    OBVIOUS
  <2>2. ASSUME NEW n \in 1 .. (c + 2) - 1, n \in S PROVE n + 1 \in S
    <3>1. n \notin free
      <4> SUFFICES ASSUME n \in free PROVE FALSE
        OBVIOUS
      <4>1. PICK j \in free : j < n
        OBVIOUS
      <4>2. n <= j /\ j \in Int
        BY <1>1, <2>2
      <4>3. QED BY <4>1, <4>2
    <3>2. \A j \in free : j \in Int /\ n <= j /\ j # n
      BY <1>1, <2>2, <3>1
    <3>3. QED BY <3>2
  <2>3. 1 .. c + 2 \subseteq S
    <3>1. c + 2 \in Int
      BY <1>1
    <3> HIDE DEF S, c
    <3>2. QED BY <2>1, <2>2, <3>1, Upward
  <2>4. c + 2 \in S
    BY <1>1, <2>3
  <2>5. PICK j : j \in free
    BY <1>2
  <2>6. j <= c + 1 /\ j \in Int /\ c + 2 <= j
    BY <1>1, <2>4, <2>5
  <2>7. QED BY <1>1, <2>6
<1> DEFINE k == CHOOSE k \in free : \A j \in free : k <= j
<1>4. k \in free
  BY <1>3
<1>5. NextFree(base, inst, taken) = <<base, inst, k>>
  BY DEF NextFree
<1> HIDE DEF k
<1>6. QED BY <1>4, <1>5

Alike(q, r) ==
  /\ RecipeOK(q) /\ Len(q.steps) = Len(r.steps) /\ Import(q) = Import(r)
  /\ \A i \in 1 .. Len(r.steps) : \A g :
       IsGraph(Stepped(r, g, i)) => Stepped(q, g, i) = Stepped(r, g, i)

LEMMA ArgSet ==
  ASSUME NEW s, StepWhole(s), NEW a, NEW t, t = [s EXCEPT !.arg = a]
  PROVE  /\ StepWhole(t) /\ t.kind = s.kind /\ t.on = s.on /\ t.inst = s.inst /\ t.arg = a
<1>1. t = [kind |-> s.kind, on |-> s.on, arg |-> a, inst |-> s.inst]
  BY DEF StepWhole
<1>2. QED BY <1>1 DEF StepWhole

LEMMA RenamedAlike ==
  ASSUME NEW r, RecipeOK(r), NEW from \in DOMAIN r.params, from # N, from[1] = "W",
         NEW to, to \notin DOMAIN r.params, to[1] = "W"
  PROVE  Alike(Renamed(r, from, to), r)
<1> PICK q : q = Renamed(r, from, to)
  OBVIOUS
<1> DEFINE n == Len(r.steps)
           arg(i) == IF r.steps[i].arg = from THEN to ELSE r.steps[i].arg
           e == [i \in 1 .. n |-> [r.steps[i] EXCEPT !.arg = arg(i)]]
           D == (DOMAIN r.params \ {from}) \cup {to}
<1>1. n \in Nat /\ DOMAIN r.steps = 1 .. n
  <2>1. n \in Nat /\ r.steps = [i \in 1 .. n |-> r.steps[i]]
    BY SeqIs DEF RecipeOK
  <2>2. QED BY <2>1
<1>2. q = [params |-> RenamedParams(r, from, to), steps |-> e]
  <2>1. \A i \in 1 .. n : [r.steps[i] EXCEPT !.arg = IF @ = from THEN to ELSE @]
                            = [r.steps[i] EXCEPT !.arg = arg(i)]
    OBVIOUS
  <2>2. q = [params |-> RenamedParams(r, from, to),
             steps |-> [i \in 1 .. n |-> [r.steps[i] EXCEPT !.arg = IF @ = from THEN to ELSE @]]]
    BY <1>1 DEF Renamed
  <2>3. QED BY <2>1, <2>2
<1>3. /\ IsSeq(e) /\ Len(e) = n
      /\ \A i \in 1 .. n : /\ StepWhole(e[i]) /\ e[i].kind = r.steps[i].kind /\ e[i].on = r.steps[i].on
                           /\ e[i].inst = r.steps[i].inst /\ e[i].arg = arg(i)
  <2>1. IsSeq(e) /\ Len(e) = n
    <3>1. e = [i \in 1 .. n |-> e[i]]
      OBVIOUS
    <3> HIDE DEF e
    <3>2. QED BY <1>1, <3>1, SeqIs
  <2>2. ASSUME NEW i \in 1 .. n
        PROVE  /\ StepWhole(e[i]) /\ e[i].kind = r.steps[i].kind /\ e[i].on = r.steps[i].on
               /\ e[i].inst = r.steps[i].inst /\ e[i].arg = arg(i)
    <3>1. e[i] = [r.steps[i] EXCEPT !.arg = arg(i)] /\ StepWhole(r.steps[i])
      BY DEF RecipeOK
    <3> HIDE DEF e, arg
    <3>2. QED BY <3>1, ArgSet
  <2> HIDE DEF e
  <2>3. QED BY <2>1, <2>2
<1>4. /\ DOMAIN q.params = D
      /\ \A p \in D : q.params[p] = r.params[IF p = to THEN from ELSE p]
  BY <1>2 DEF RenamedParams
<1>5. q.steps = e /\ q = [params |-> q.params, steps |-> q.steps]
  <2> HIDE DEF e
  <2> QED BY <1>2
<1> HIDE DEF e
<1>6. RecipeOK(q)
  <2>1. IsFiniteSet(D)
    <3>1. IsFiniteSet(DOMAIN r.params)
      BY DEF RecipeOK
    <3>2. IsFiniteSet(DOMAIN r.params \ {from})
      BY <3>1, FS_RemoveElement
    <3>3. QED BY <3>2, FS_AddElement
  <2>2. N \in D
    BY DEF RecipeOK
  <2>3. QED BY <1>3, <1>4, <1>5, <2>1, <2>2 DEF RecipeOK
<1>7. Import(q) = Import(r)
  <2>1. N \in D /\ N # to /\ N \in DOMAIN r.params
    BY DEF RecipeOK
  <2>2. q.params[N] = r.params[N]
    BY <1>4, <2>1
  <2>3. QED BY <2>2 DEF Import
<1>8. ASSUME NEW i \in 1 .. n, NEW g, IsGraph(Stepped(r, g, i))
      PROVE  Stepped(q, g, i) = Stepped(r, g, i)
  <2> DEFINE a == r.steps[i].arg
  <2>1. ASSUME r.steps[i].kind \in Ints PROVE Value(q, arg(i)) = Value(r, a)
    <3>1. IsNumber(a) \/ a \in DOMAIN r.params
      BY <1>8, <2>1, ArgKnown
    <3>2. ~IsNumber(from) /\ ~IsNumber(to)
      BY DEF IsNumber
    <3>3. CASE a = from
      <4>1. arg(i) = to /\ to \in D /\ from \in DOMAIN r.params
        BY <3>3
      <4>2. q.params[to] = r.params[from]
        BY <1>4, <4>1
      <4>3. Value(q, to) = q.params[to] /\ Value(r, from) = r.params[from]
        BY <1>4, <3>2, <4>1 DEF Value
      <4>4. QED BY <3>3, <4>1, <4>2, <4>3
    <3>4. CASE a # from /\ IsNumber(a)
      <4>1. arg(i) = a
        BY <3>4
      <4> HIDE DEF a, arg
      <4>2. Value(q, a) = a[3] /\ Value(r, a) = a[3]
        BY <3>4 DEF Value
      <4>3. QED BY <4>1, <4>2
    <3>5. CASE a # from /\ ~IsNumber(a)
      <4>1. arg(i) = a /\ a \in DOMAIN r.params /\ a # to /\ a \in D
        BY <3>1, <3>5
      <4>2. q.params[a] = r.params[a]
        BY <1>4, <4>1
      <4>3. Value(q, a) = q.params[a] /\ Value(r, a) = r.params[a]
        BY <1>4, <3>5, <4>1 DEF Value
      <4>4. QED BY <4>1, <4>2, <4>3
    <3>6. QED BY <3>3, <3>4, <3>5
  <2> HIDE DEF a, arg
  <2>2. /\ q.steps[i].kind = r.steps[i].kind /\ q.steps[i].on = r.steps[i].on
        /\ q.steps[i].inst = r.steps[i].inst /\ q.steps[i].arg = arg(i)
    BY <1>3, <1>5
  <2>3. QED BY <2>1, <2>2, StepAlike DEF a
<1>9. QED BY <1>3, <1>5, <1>6, <1>7, <1>8 DEF Alike

LEMMA BoundAlike ==
  ASSUME NEW r, RecipeOK(r), NEW g, NEW inst
  PROVE  Alike(Bound(r, g, inst), r)
<1> DEFINE xs == Renamable(r, g, inst)
           x == CHOOSE x \in xs : TRUE
           to == NextFree("W", inst, DOMAIN r.params)
<1>1. CASE xs = {}
  BY <1>1 DEF Bound, Alike
<1>2. CASE xs # {}
  <2>1. x \in xs
    BY <1>2
  <2>2. x \in DOMAIN r.params /\ x # N /\ x[1] = "W"
    BY <2>1 DEF Renamable, EditorFactor
  <2>3. to \notin DOMAIN r.params /\ to[1] = "W"
    BY FreeIs DEF RecipeOK
  <2>4. Bound(r, g, inst) = Renamed(r, x, to)
    BY <1>2 DEF Bound
  <2> HIDE DEF x, to
  <2>5. QED BY <2>2, <2>3, <2>4, RenamedAlike
<1>3. QED BY <1>1, <1>2

LEMMA ChainSame ==
  ASSUME NEW r, NEW q, Alike(q, r), NEW gs, Chain(r, gs), Len(r.steps) \in Nat
  PROVE  Chain(q, gs)
<1>1. Len(gs) \in Nat /\ Len(gs) <= Len(r.steps) + 1
  BY DEF Chain
<1>2. ASSUME NEW i \in 1 .. Len(gs) - 1 PROVE gs[i + 1] = Stepped(q, gs[i], i)
  <2>1. gs[i + 1] = Stepped(r, gs[i], i) /\ IsGraph(gs[i + 1]) /\ i \in 1 .. Len(r.steps)
    BY <1>1 DEF Chain
  <2>2. QED BY <2>1 DEF Alike
<1>3. QED BY <1>2 DEF Chain, Alike

(* The first k steps, the params at least those they name: the same graphs.*)
FirstAre(q, gs, k) ==
  LET c == SubSeq(gs, 1, k + 1)
  IN Chain(q, c) /\ Len(c) = k + 1 /\ c[k + 1] = gs[k + 1]
LEMMA FirstSteps ==
  ASSUME NEW r, RecipeOK(r), NEW gs, Chain(r, gs), NEW k \in 0 .. Len(gs) - 1,
         NEW q, Len(q.steps) \in Nat, k <= Len(q.steps),
         \A i \in 1 .. k : q.steps[i] = r.steps[i],
         q.params[N] = r.params[N],
         \A i \in 1 .. k : LET a == r.steps[i].arg IN
           a \in DOMAIN r.params => a \in DOMAIN q.params /\ q.params[a] = r.params[a]
  PROVE  FirstAre(q, gs, k)
<1>1. Len(r.steps) \in Nat /\ Len(gs) \in Nat /\ k + 1 \in 1 .. Len(gs)
  BY SeqIs DEF RecipeOK, Chain
<1>2. Import(q) = Import(r)
  BY DEF Import
<1>3. ASSUME NEW i \in 1 .. k PROVE Stepped(q, gs[i], i) = Stepped(r, gs[i], i)
  <2> DEFINE a == r.steps[i].arg
  <2>1. IsGraph(Stepped(r, gs[i], i))
    <3>1. i \in 1 .. Len(gs) - 1 /\ i + 1 \in 1 .. Len(gs)
      BY <1>1
    <3>2. gs[i + 1] = Stepped(r, gs[i], i) /\ IsGraph(gs[i + 1])
      BY <3>1 DEF Chain
    <3>3. QED BY <3>2
  <2>2. ASSUME r.steps[i].kind \in Ints PROVE Value(q, a) = Value(r, a)
    <3>1. IsNumber(a) \/ a \in DOMAIN r.params
      BY <2>1, <2>2, ArgKnown
    <3>2. a \in DOMAIN r.params => a \in DOMAIN q.params /\ q.params[a] = r.params[a]
      OBVIOUS
    <3> HIDE DEF a
    <3>3. CASE IsNumber(a)
      BY <3>3 DEF Value
    <3>4. CASE ~IsNumber(a)
      <4>1. Value(q, a) = q.params[a] /\ Value(r, a) = r.params[a]
        BY <3>1, <3>2, <3>4 DEF Value
      <4>2. QED BY <3>1, <3>2, <3>4, <4>1
    <3>5. QED BY <3>3, <3>4
  <2>3. q.steps[i] = r.steps[i]
    OBVIOUS
  <2>4. QED BY <2>2, <2>3, StepAlike
<1>4. \A i \in 1 .. (k + 1) - 1 : Stepped(q, gs[i], i) = Stepped(r, gs[i], i)
  BY <1>3
<1>5. (k + 1) - 1 <= Len(q.steps) /\ k + 1 \in 1 .. k + 1
  OBVIOUS
<1>6. /\ Chain(q, SubSeq(gs, 1, k + 1)) /\ Len(SubSeq(gs, 1, k + 1)) = k + 1
      /\ SubSeq(gs, 1, k + 1)[k + 1] = gs[k + 1]
  BY <1>1, <1>2, <1>4, <1>5, ChainAlike
<1>7. QED BY <1>6 DEF FirstAre

-----------------------------------------------------------------------------
(* What the files show.                                                    *)

Shows(r, c, g) ==
  /\ RecipeOK(r) /\ c \in 0 .. Len(r.steps)
  /\ \E gs : Chain(r, gs) /\ Len(gs) = c + 1 /\ gs[c + 1] = g
ShowsOne(r, c, gs) == \E g \in gs : Shows(r, c, g)

LEMMA ShowsGraph ==
  ASSUME NEW r, RecipeOK(r), NEW gs, Chain(r, gs), NEW k \in 0 .. Len(gs) - 1
  PROVE  Shows(r, k, gs[k + 1])
<1>1. Len(r.steps) \in Nat /\ Len(gs) \in Nat /\ Len(gs) <= Len(r.steps) + 1
  BY SeqIs DEF RecipeOK, Chain
<1>2. k <= Len(r.steps) /\ k \in 0 .. Len(r.steps)
  BY <1>1
<1>3. /\ Chain(r, SubSeq(gs, 1, k + 1)) /\ Len(SubSeq(gs, 1, k + 1)) = k + 1
      /\ SubSeq(gs, 1, k + 1)[k + 1] = gs[k + 1]
  BY <1>1, <1>2, FirstSteps DEF FirstAre
<1>4. QED BY <1>2, <1>3 DEF Shows

LEMMA ShownIs ==
  ASSUME NEW r, NEW c, NEW g, Shows(r, c, g)
  PROVE  Replay(r, c).error = None /\ Last(Replay(r, c).graphs) = g
<1>1. Len(r.steps) \in Nat /\ c \in 0 .. Len(r.steps)
  BY SeqIs DEF RecipeOK, Shows
<1>2. PICK gs : Chain(r, gs) /\ Len(gs) = c + 1 /\ gs[c + 1] = g
  BY DEF Shows
<1>3. c \in 0 .. Len(gs) - 1 /\ IsSeq(gs) /\ c + 1 \in 0 .. Len(gs)
  BY <1>1, <1>2 DEF Chain
<1>4. Replay(r, c) = [graphs |-> SubSeq(gs, 1, c + 1), error |-> None]
  BY <1>1, <1>2, <1>3, ReplayIs
<1>5. Len(SubSeq(gs, 1, c + 1)) = c + 1 /\ SubSeq(gs, 1, c + 1)[c + 1] = g
  <2>1. \A i \in 1 .. c + 1 : SubSeq(gs, 1, c + 1)[i] = gs[i]
    BY <1>3, SubIs
  <2>2. Len(SubSeq(gs, 1, c + 1)) = c + 1
    BY <1>3, SubIs
  <2>3. QED BY <1>1, <1>2, <2>1, <2>2
<1> PICK s : s = SubSeq(gs, 1, c + 1)
  OBVIOUS
<1>6. Replay(r, c) = [graphs |-> s, error |-> None]
  BY <1>4
<1>7. Last(s) = g
  BY <1>5 DEF Last
<1>8. QED BY <1>6, <1>7

-----------------------------------------------------------------------------
(* The invariant: in memory a chain of the recipe with its answers; on     *)
(* disk, before each write left to be made, a recipe and a cursor that     *)
(* show the graph shown now or the one before.                             *)

CacheOf(c, gs) == \A k \in DOMAIN c : k \in 0 .. Len(gs) - 1 /\ c[k] = gs[k + 1]
SitesOf(c, gs) == \A k \in DOMAIN c : k \in 0 .. Len(gs) - 1 /\ c[k].graph = gs[k + 1]
SavedShows(r, gs, k) == Len(r.steps) = k /\ Chain(r, SubSeq(gs, 1, k + 1))

MemoryOK ==
  up => /\ RecipeOK(recipe) /\ Chain(recipe, graphs) /\ cursor \in 0 .. Len(graphs) - 1
        /\ CacheOf(derived, graphs) /\ SitesOf(sites, graphs)
SavedOK ==
  answer.saved # NoRecipe => up /\ pending = <<>> /\ SavedShows(answer.saved, graphs, cursor)
FilesOK ==
  up => /\ pending \in {<<>>, <<"session">>, Writes}
        /\ ShowsOne(disk.recipe, disk.cursor, before \cup {graphs[cursor + 1]})
        /\ pending = Writes => ShowsOne(recipe, disk.cursor, before \cup {graphs[cursor + 1]})
        /\ pending # Writes => disk.recipe = recipe
        /\ pending = <<>> => disk.cursor = cursor
DownOK ==
  ~up => /\ DOMAIN derived = {} /\ DOMAIN sites = {}
         /\ disk.recipe = NoRecipe \/ RecipeOK(disk.recipe)
         /\ disk.cursor \in Nat \cup {-1}
SessionInv ==
  /\ up \in BOOLEAN /\ disk = [recipe |-> disk.recipe, cursor |-> disk.cursor]
  /\ MemoryOK /\ SavedOK /\ FilesOK /\ DownOK

LEMMA WritesAre ==
  /\ Head(Writes) = "recipe" /\ Tail(Writes) = <<"session">>
  /\ Head(<<"session">>) = "session" /\ Tail(<<"session">>) = <<>>
  /\ Writes # <<"session">> /\ Writes # <<>> /\ <<"session">> # <<>>
BY DEF Writes

LEMMA KeptOf ==
  ASSUME NEW c, NEW gs, NEW k \in 0 .. Len(gs) - 1
  PROVE  /\ CacheOf(c, gs) => CacheOf(Kept(c, k, gs[k + 1]), gs)
         /\ \A x : SitesOf(c, gs) /\ x.graph = gs[k + 1] => SitesOf(Kept(c, k, x), gs)
<1>1. ASSUME NEW x PROVE /\ DOMAIN Kept(c, k, x) = DOMAIN c \cup {k}
                         /\ \A j \in DOMAIN c : Kept(c, k, x)[j] = c[j]
                         /\ k \notin DOMAIN c => Kept(c, k, x)[k] = x
  BY DEF Kept
<1>2. ASSUME CacheOf(c, gs) PROVE CacheOf(Kept(c, k, gs[k + 1]), gs)
  BY <1>1, <1>2 DEF CacheOf
<1>3. ASSUME NEW x, SitesOf(c, gs), x.graph = gs[k + 1] PROVE SitesOf(Kept(c, k, x), gs)
  BY <1>1, <1>3 DEF SitesOf
<1>4. QED BY <1>2, <1>3

(* What is forgotten is of the steps replaced; what is kept, of the same.  *)
LEMMA ForgotOf ==
  ASSUME NEW c, NEW gs, NEW hs, NEW k \in Int,
         \A i \in 0 .. k : i <= Len(gs) - 1 => i <= Len(hs) - 1 /\ hs[i + 1] = gs[i + 1],
         Len(gs) \in Nat, Len(hs) \in Nat
  PROVE  /\ CacheOf(c, gs) => CacheOf(Forgot(c, k), hs)
         /\ SitesOf(c, gs) => SitesOf(Forgot(c, k), hs)
<1>1. /\ DOMAIN Forgot(c, k) = {j \in DOMAIN c : j <= k}
      /\ \A j \in DOMAIN Forgot(c, k) : Forgot(c, k)[j] = c[j]
  BY DEF Forgot
<1>2. ASSUME CacheOf(c, gs) PROVE CacheOf(Forgot(c, k), hs)
  BY <1>1, <1>2 DEF CacheOf
<1>3. ASSUME SitesOf(c, gs) PROVE SitesOf(Forgot(c, k), hs)
  BY <1>1, <1>3 DEF SitesOf
<1>4. QED BY <1>2, <1>3

LEMMA LongerOf ==
  ASSUME NEW c, NEW gs, NEW hs, Len(gs) \in Nat, Len(hs) \in Nat, Len(gs) <= Len(hs),
         \A i \in 1 .. Len(gs) : hs[i] = gs[i]
  PROVE  (CacheOf(c, gs) => CacheOf(c, hs)) /\ (SitesOf(c, gs) => SitesOf(c, hs))
<1>1. \A k \in 0 .. Len(gs) - 1 : k \in 0 .. Len(hs) - 1 /\ hs[k + 1] = gs[k + 1]
  OBVIOUS
<1>2. CacheOf(c, gs) => CacheOf(c, hs)
  BY <1>1 DEF CacheOf
<1>3. SitesOf(c, gs) => SitesOf(c, hs)
  BY <1>1 DEF SitesOf
<1>4. QED BY <1>2, <1>3

LEMMA ShowsMore ==
  ASSUME NEW r, NEW c, NEW A, NEW B, A \subseteq B, ShowsOne(r, c, A)
  PROVE  ShowsOne(r, c, B)
BY DEF ShowsOne

LEMMA ShowsNow ==
  ASSUME NEW r, RecipeOK(r), NEW gs, Chain(r, gs), NEW k \in 0 .. Len(gs) - 1,
         NEW A, gs[k + 1] \in A
  PROVE  ShowsOne(r, k, A)
BY ShowsGraph DEF ShowsOne

(* A request that changes nothing but its answer.                          *)
LEMMA Refused ==
  ASSUME SessionInv, Refuse
  PROVE  SessionInv'
<1>1. answer'.saved = NoRecipe
  BY DEF Refuse, Answered
<1>2. QED BY <1>1 DEF SessionInv, MemoryOK, SavedOK, FilesOK, DownOK, Refuse

(* A change: the graphs to the cursor, and one more.                       *)
LEMMA ChangedOK ==
  ASSUME SessionInv, Ready, NEW r, NEW g, Changed(r, g), RecipeOK(r),
         Chain(r, Append(SubSeq(graphs, 1, cursor + 1), g))
  PROVE  SessionInv'
<1> PICK k : k = cursor
  OBVIOUS
<1> PICK hs : hs = Append(SubSeq(graphs, 1, k + 1), g)
  OBVIOUS
<1>1. /\ up /\ pending = <<>> /\ RecipeOK(recipe) /\ Chain(recipe, graphs) /\ k \in 0 .. Len(graphs) - 1
      /\ CacheOf(derived, graphs) /\ SitesOf(sites, graphs)
      /\ disk.recipe = recipe /\ disk.cursor = k
      /\ disk = [recipe |-> disk.recipe, cursor |-> disk.cursor]
  BY WritesAre DEF SessionInv, MemoryOK, FilesOK, Ready
<1>2. IsSeq(graphs) /\ Len(graphs) \in Nat /\ k + 1 \in 0 .. Len(graphs)
  BY <1>1 DEF Chain
<1>3. /\ Len(hs) = k + 2 /\ \A i \in 1 .. k + 1 : hs[i] = graphs[i]
      /\ hs[k + 2] = g
  <2>1. /\ Len(Append(SubSeq(graphs, 1, k + 1), g)) = (k + 1) + 1
        /\ \A i \in 1 .. k + 1 : Append(SubSeq(graphs, 1, k + 1), g)[i] = graphs[i]
        /\ Append(SubSeq(graphs, 1, k + 1), g)[(k + 1) + 1] = g
    BY <1>2, SubMore
  <2>2. (k + 1) + 1 = k + 2
    BY <1>1
  <2>3. QED BY <2>1, <2>2
<1>4. /\ recipe' = r /\ graphs' = hs /\ cursor' = k + 1 /\ sites' = Forgot(sites, k)
      /\ pending' = Writes /\ before' = {graphs[k + 1]} /\ disk' = disk /\ up' = up
      /\ answer'.saved = NoRecipe
  BY DEF Changed, Written, Answered
<1>5. RecipeOK(recipe') /\ Chain(recipe', graphs') /\ cursor' \in 0 .. Len(graphs') - 1
  BY <1>1, <1>3, <1>4
<1>6. CacheOf(Forgot(derived, k), hs) /\ SitesOf(Forgot(sites, k), hs)
  <2>1. \A i \in 0 .. k : i <= Len(hs) - 1 /\ hs[i + 1] = graphs[i + 1]
    BY <1>1, <1>3
  <2>2. k \in Int /\ Len(hs) \in Nat
    BY <1>1, <1>3
  <2>3. QED BY <1>1, <1>2, <2>1, <2>2, ForgotOf
<1>7. CacheOf(derived', graphs')
  <2> DEFINE old == IF CanEstimate(graphs[k + 1]) THEN Kept(Forgot(derived, k), k, graphs[k + 1])
                    ELSE Forgot(derived, k)
  <2>1. derived' = IF CanEstimate(g) THEN Kept(old, k + 1, g) ELSE old
    BY DEF Changed
  <2>2. k \in 0 .. Len(hs) - 1 /\ k + 1 \in 0 .. Len(hs) - 1 /\ hs[k + 1] = graphs[k + 1]
        /\ hs[(k + 1) + 1] = g
    <3>1. (k + 1) + 1 = k + 2 /\ k + 1 \in 1 .. k + 1
      BY <1>1
    <3>2. QED BY <1>1, <1>3, <3>1
  <2>3. CacheOf(old, hs)
    <3>1. CacheOf(Kept(Forgot(derived, k), k, hs[k + 1]), hs)
      BY <1>6, <2>2, KeptOf
    <3>2. QED BY <1>6, <2>2, <3>1
  <2> HIDE DEF old
  <2>4. CacheOf(Kept(old, k + 1, hs[(k + 1) + 1]), hs)
    BY <2>2, <2>3, KeptOf
  <2>5. QED BY <1>4, <2>1, <2>2, <2>3, <2>4
<1>8. ShowsOne(recipe, k, {graphs[k + 1]} \cup {hs[k + 2]})
  BY <1>1, ShowsNow
<1>9. ShowsOne(r, k, {graphs[k + 1]} \cup {hs[k + 2]})
  <2>1. k \in 0 .. Len(hs) - 1 /\ hs[k + 1] = graphs[k + 1] /\ Chain(r, hs)
    BY <1>1, <1>3
  <2>2. QED BY <2>1, ShowsNow
<1>10. MemoryOK'
  BY <1>4, <1>5, <1>6, <1>7 DEF MemoryOK
<1>11. SavedOK'
  BY <1>4 DEF SavedOK
<1>12. FilesOK'
  <2>1. graphs'[cursor' + 1] = hs[k + 2]
    <3>1. (k + 1) + 1 = k + 2
      BY <1>1
    <3>2. QED BY <1>4, <3>1
  <2>2. /\ ShowsOne(disk'.recipe, disk'.cursor, before' \cup {graphs'[cursor' + 1]})
        /\ ShowsOne(recipe', disk'.cursor, before' \cup {graphs'[cursor' + 1]})
    BY <1>1, <1>4, <1>8, <1>9, <2>1
  <2>3. QED BY <1>4, <2>2, WritesAre DEF FilesOK
<1>13. DownOK' /\ up' \in BOOLEAN /\ disk' = [recipe |-> disk'.recipe, cursor |-> disk'.cursor]
  BY <1>1, <1>4 DEF DownOK, SessionInv
<1>14. QED BY <1>10, <1>11, <1>12, <1>13 DEF SessionInv

LEMMA TrialIs ==
  ASSUME RecipeOK(recipe), cursor \in 0 .. Len(recipe.steps), NEW kind, NEW on, NEW given,
         NEW t, t = Trial(kind, on, given)
  PROVE  /\ RecipeOK(t) /\ Len(t.steps) = cursor + 1
         /\ \A i \in 1 .. cursor : t.steps[i] = recipe.steps[i]
         /\ \A p \in DOMAIN recipe.params : p \in DOMAIN t.params /\ t.params[p] = recipe.params[p]
<1> DEFINE name == IF IsNumber(given) THEN Fresh(kind, recipe.params) ELSE given
           params == IF kind \in Ints /\ IsNumber(given)
                     THEN [p \in DOMAIN recipe.params \cup {name} |->
                             IF p = name THEN given[3] ELSE recipe.params[p]]
                     ELSE recipe.params
           step == IF kind \in Ints THEN Step(kind, on, name, 0)
                   ELSE Step(kind, on, Literal(0), Binds(recipe, cursor) + 1)
           first == SubSeq(recipe.steps, 1, cursor)
<1>1. t = [params |-> params, steps |-> Append(first, step)]
  BY DEF Trial
<1>2. StepWhole(step)
  BY DEF Step, StepWhole
<1>3. /\ IsFiniteSet(DOMAIN params)
      /\ \A p \in DOMAIN recipe.params : p \in DOMAIN params /\ params[p] = recipe.params[p]
  <2>1. IsFiniteSet(DOMAIN recipe.params)
    BY DEF RecipeOK
  <2>2. CASE kind \in Ints /\ IsNumber(given)
    <3>1. name \notin DOMAIN recipe.params
      BY <2>1, <2>2, FreeIs DEF Fresh
    <3>2. params = [p \in DOMAIN recipe.params \cup {name} |->
                      IF p = name THEN given[3] ELSE recipe.params[p]]
      BY <2>2
    <3> HIDE DEF name, params
    <3>3. DOMAIN params = DOMAIN recipe.params \cup {name}
      BY <3>2
    <3>4. IsFiniteSet(DOMAIN recipe.params \cup {name})
      BY <2>1, FS_AddElement
    <3>5. QED BY <3>1, <3>2, <3>3, <3>4
  <2>3. CASE ~(kind \in Ints /\ IsNumber(given))
    BY <2>1, <2>3
  <2>4. QED BY <2>2, <2>3
<1> HIDE DEF params, step
<1>4. /\ IsSeq(first) /\ Len(first) = cursor
      /\ \A i \in 1 .. cursor : first[i] = recipe.steps[i]
  BY SubIs DEF RecipeOK
<1> HIDE DEF first
<1>5. /\ IsSeq(t.steps) /\ Len(t.steps) = cursor + 1 /\ t.steps[cursor + 1] = step
      /\ \A i \in 1 .. cursor : t.steps[i] = recipe.steps[i]
  <2>1. t.steps = Append(first, step)
    BY <1>1
  <2>2. /\ IsSeq(Append(first, step)) /\ Len(Append(first, step)) = cursor + 1
        /\ Append(first, step)[cursor + 1] = step
        /\ \A i \in 1 .. cursor : Append(first, step)[i] = first[i]
    BY <1>4, MoreIs
  <2>3. QED BY <1>4, <2>1, <2>2
<1>6. t.params = params /\ t = [params |-> t.params, steps |-> t.steps]
  BY <1>1
<1>7. RecipeOK(t)
  <2>1. N \in DOMAIN params
    BY <1>3 DEF RecipeOK
  <2>2. ASSUME NEW i \in 1 .. cursor + 1 PROVE StepWhole(t.steps[i])
    <3>1. CASE i = cursor + 1
      BY <1>2, <1>5, <3>1
    <3>2. CASE i # cursor + 1
      <4>1. i \in 1 .. cursor /\ i \in 1 .. Len(recipe.steps)
        <5>1. cursor \in Nat /\ Len(recipe.steps) \in Nat
          BY SeqIs DEF RecipeOK
        <5>2. QED BY <3>2, <5>1
      <4>2. StepWhole(recipe.steps[i])
        BY <4>1 DEF RecipeOK
      <4>3. QED BY <1>5, <4>1, <4>2
    <3>3. QED BY <3>1, <3>2
  <2>3. QED BY <1>3, <1>5, <1>6, <2>1, <2>2 DEF RecipeOK
<1>8. QED BY <1>3, <1>5, <1>6, <1>7

LEMMA ApplyOK ==
  ASSUME SessionInv, NEW kind, NEW on, NEW given, NEW drop, Apply(kind, on, given, drop)
  PROVE  SessionInv'
<1> PICK t : t = Trial(kind, on, given)
  OBVIOUS
<1> PICK g : g = Stepped(t, graphs[cursor + 1], cursor + 1)
  OBVIOUS
<1> PICK c : c = SubSeq(graphs, 1, cursor + 1)
  OBVIOUS
<1> DEFINE q == IF kind = "bind" THEN Bound(t, g, Last(t.steps).inst) ELSE t
<1>1. Ready /\ (Refuse \/ (IsGraph(g) /\ Changed(q, g)))
  BY DEF Apply
<1>2. CASE Refuse
  BY <1>2, Refused
<1>3. CASE IsGraph(g) /\ Changed(q, g)
  <2>1. RecipeOK(recipe) /\ Chain(recipe, graphs) /\ cursor \in 0 .. Len(graphs) - 1
    BY <1>1 DEF SessionInv, MemoryOK, Ready
  <2>2. Len(recipe.steps) \in Nat /\ cursor \in 0 .. Len(recipe.steps)
    <3>1. Len(recipe.steps) \in Nat /\ Len(graphs) \in Nat /\ Len(graphs) <= Len(recipe.steps) + 1
      BY <2>1, SeqIs DEF RecipeOK, Chain
    <3>2. QED BY <2>1, <3>1
  <2>3. /\ RecipeOK(t) /\ Len(t.steps) = cursor + 1
        /\ \A i \in 1 .. cursor : t.steps[i] = recipe.steps[i]
        /\ \A p \in DOMAIN recipe.params : p \in DOMAIN t.params /\ t.params[p] = recipe.params[p]
    BY <2>1, <2>2, TrialIs
  <2>4. Chain(t, c) /\ Len(c) = cursor + 1 /\ c[cursor + 1] = graphs[cursor + 1]
    <3>1. t.params[N] = recipe.params[N]
      BY <2>1, <2>3 DEF RecipeOK
    <3>2. cursor <= Len(t.steps) /\ Len(t.steps) \in Nat
      BY <2>2, <2>3
    <3>3. \A i \in 1 .. cursor : LET a == recipe.steps[i].arg IN
            a \in DOMAIN recipe.params => a \in DOMAIN t.params /\ t.params[a] = recipe.params[a]
      BY <2>3
    <3>4. FirstAre(t, graphs, cursor)
      BY <2>1, <2>3, <3>1, <3>2, <3>3, FirstSteps
    <3>5. QED BY <3>4 DEF FirstAre
  <2>5. Chain(t, Append(c, g))
    <3>1. Len(c) <= Len(t.steps) /\ Len(t.steps) \in Nat /\ g = Stepped(t, c[Len(c)], Len(c))
      BY <2>2, <2>3, <2>4
    <3>2. QED BY <1>3, <2>4, <3>1, Grown
  <2>6. RecipeOK(q) /\ Chain(q, Append(c, g))
    <3>1. CASE kind = "bind"
      <4>1. PICK inst : inst = Last(t.steps).inst
        OBVIOUS
      <4>2. Alike(Bound(t, g, inst), t)
        BY <2>3, BoundAlike
      <4>3. Chain(Bound(t, g, inst), Append(c, g))
        <5>1. Len(t.steps) \in Nat
          BY <2>2, <2>3
        <5>2. QED BY <2>5, <4>2, <5>1, ChainSame
      <4>4. q = Bound(t, g, inst)
        BY <3>1, <4>1
      <4>5. QED BY <4>2, <4>3, <4>4 DEF Alike
    <3>2. CASE kind # "bind"
      BY <2>3, <2>5, <3>2
    <3>3. QED BY <3>1, <3>2
  <2> HIDE DEF q
  <2>7. QED BY <1>1, <1>3, <2>6, ChangedOK
<1>4. QED BY <1>1, <1>2, <1>3

(* What a recipe's own replay gives.                                       *)
Gives(r, k, x) ==
  /\ x = [graphs |-> x.graphs, error |-> x.error]
  /\ Chain(r, x.graphs)
  /\ x.error = None => Len(x.graphs) = k + 1
LEMMA ReplayGives ==
  ASSUME NEW r, RecipeOK(r), NEW k \in 0 .. Len(r.steps)
  PROVE  Gives(r, k, Replay(r, k))
<1> PICK x : x = Replay(r, k)
  OBVIOUS
<1> PICK gs : gs = <<Import(r)>>
  OBVIOUS
<1>1. Len(r.steps) \in Nat /\ k \in Nat /\ k <= Len(r.steps)
  BY SeqIs DEF RecipeOK
<1>2. Chain(r, gs) /\ Len(gs) = 1
  BY <1>1, First
<1>3. x = Extended(r, gs, k)
  BY DEF Replay
<1>4. ExtendsTo(r, gs, k, x)
  BY <1>1, <1>2, <1>3, ExtendedIs
<1>5. /\ x = [graphs |-> x.graphs, error |-> x.error] /\ Chain(r, x.graphs)
      /\ x.error = None => Len(x.graphs) = IF k + 1 <= Len(gs) THEN Len(gs) ELSE k + 1
  BY <1>4 DEF ExtendsTo
<1>6. (IF k + 1 <= Len(gs) THEN Len(gs) ELSE k + 1) = k + 1
  BY <1>1, <1>2
<1>7. Gives(r, k, x)
  BY <1>5, <1>6 DEF Gives
<1>8. QED BY <1>7

LEMMA MoveOK ==
  ASSUME SessionInv, NEW k \in 0 .. Steps, Move(k)
  PROVE  SessionInv'
<1> PICK x : x = Extended(recipe, graphs, k)
  OBVIOUS
<1>1. /\ up /\ pending = <<>> /\ RecipeOK(recipe) /\ Chain(recipe, graphs)
      /\ cursor \in 0 .. Len(graphs) - 1
      /\ CacheOf(derived, graphs) /\ SitesOf(sites, graphs)
      /\ disk.recipe = recipe /\ disk.cursor = cursor
  BY WritesAre DEF SessionInv, MemoryOK, FilesOK, Ready, Move
<1>2. Len(recipe.steps) \in Nat /\ Len(graphs) \in Nat /\ k \in Nat /\ k <= Len(recipe.steps)
  BY <1>1, SeqIs DEF RecipeOK, Chain, Steps
<1>3. ExtendsTo(recipe, graphs, k, x)
  BY <1>1, <1>2, ExtendedIs
<1>4. /\ Chain(recipe, x.graphs) /\ Len(graphs) <= Len(x.graphs)
      /\ \A i \in 1 .. Len(graphs) : x.graphs[i] = graphs[i]
      /\ x.error = None => Len(x.graphs) = IF k + 1 <= Len(graphs) THEN Len(graphs) ELSE k + 1
  BY <1>3 DEF ExtendsTo
<1>5. Len(x.graphs) \in Nat
  BY <1>4 DEF Chain
<1>6. /\ graphs' = x.graphs /\ recipe' = recipe /\ sites' = sites /\ derived' = derived /\ disk' = disk
      /\ up' = up /\ answer'.saved = NoRecipe
      /\ \/ cursor' = cursor /\ pending' = pending /\ before' = before
         \/ x.error = None /\ cursor' = k /\ pending' = <<"session">> /\ before' = {graphs[cursor + 1]}
  BY DEF Move, Answered, Written
<1>7. CacheOf(derived, x.graphs) /\ SitesOf(sites, x.graphs)
  BY <1>1, <1>2, <1>4, <1>5, LongerOf
<1>8. cursor' \in 0 .. Len(x.graphs) - 1
  <2>1. x.error = None => k \in 0 .. Len(x.graphs) - 1
    BY <1>2, <1>4, <1>5
  <2>2. cursor \in 0 .. Len(x.graphs) - 1
    BY <1>1, <1>2, <1>4, <1>5
  <2>3. QED BY <1>6, <2>1, <2>2
<1>9. MemoryOK'
  BY <1>1, <1>4, <1>6, <1>7, <1>8 DEF MemoryOK
<1>10. FilesOK'
  <2>1. x.graphs[cursor + 1] = graphs[cursor + 1]
    BY <1>1, <1>2, <1>4
  <2>2. graphs[cursor + 1] \in before' \cup {graphs'[cursor' + 1]}
    BY <1>6, <2>1
  <2>3. ShowsOne(recipe, cursor, before' \cup {graphs'[cursor' + 1]})
    BY <1>1, <2>2, ShowsNow
  <2>4. QED BY <1>1, <1>6, <2>3, WritesAre DEF FilesOK
<1>11. SavedOK' /\ DownOK' /\ up' \in BOOLEAN /\ disk' = [recipe |-> disk'.recipe, cursor |-> disk'.cursor]
  BY <1>1, <1>6 DEF SavedOK, DownOK, SessionInv
<1>12. QED BY <1>9, <1>10, <1>11 DEF SessionInv

LEMMA ParamsOK ==
  ASSUME SessionInv, NEW x \in DOMAIN recipe.params, NEW v, SetParams(x, v)
  PROVE  SessionInv'
<1> PICK params : params = [recipe.params EXCEPT ![x] = v]
  OBVIOUS
<1> PICK r : r = [recipe EXCEPT !.params = params]
  OBVIOUS
<1> PICK run : run = Replay(r, cursor)
  OBVIOUS
<1>0. r = [recipe EXCEPT !.params = [@ EXCEPT ![x] = v]]
  OBVIOUS
<1>1. /\ up /\ pending = <<>> /\ RecipeOK(recipe) /\ Chain(recipe, graphs)
      /\ cursor \in 0 .. Len(graphs) - 1
      /\ CacheOf(derived, graphs) /\ SitesOf(sites, graphs)
      /\ disk.recipe = recipe /\ disk.cursor = cursor
  BY WritesAre DEF SessionInv, MemoryOK, FilesOK, Ready, SetParams
<1>2. /\ Len(recipe.steps) \in Nat /\ Len(graphs) \in Nat /\ cursor \in 0 .. Len(recipe.steps)
  <2>1. Len(recipe.steps) \in Nat /\ Len(graphs) \in Nat /\ Len(graphs) <= Len(recipe.steps) + 1
    BY <1>1, SeqIs DEF RecipeOK, Chain
  <2>2. QED BY <1>1, <2>1
<1>3. RecipeOK(r) /\ r.steps = recipe.steps
  <2>1. recipe = [params |-> recipe.params, steps |-> recipe.steps]
    BY <1>1 DEF RecipeOK
  <2>2. r = [params |-> params, steps |-> recipe.steps]
    BY <2>1
  <2>3. DOMAIN params = DOMAIN recipe.params
    OBVIOUS
  <2>4. r.params = params /\ r.steps = recipe.steps
    BY <2>2
  <2>5. QED BY <1>1, <2>2, <2>3, <2>4 DEF RecipeOK
<1>4. CASE Refuse
  BY <1>4, Refused
<1>5. CASE ~Refuse
  <2>1. /\ run.error = None /\ recipe' = r /\ graphs' = run.graphs
        /\ sites' = Forgot(sites, -1)
        /\ derived' = Kept(Forgot(derived, -1), cursor, run.graphs[cursor + 1])
        /\ Answered(TRUE) /\ Written(Writes) /\ cursor' = cursor
    BY <1>0, <1>5 DEF SetParams, Redo
  <2>2. /\ Chain(r, run.graphs) /\ Len(run.graphs) = cursor + 1
    <3>1. Gives(r, cursor, run)
      <4>1. cursor \in 0 .. Len(r.steps)
        BY <1>2, <1>3
      <4>2. QED BY <1>3, <4>1, ReplayGives
    <3>2. QED BY <2>1, <3>1 DEF Gives
  <2>3. cursor \in 0 .. Len(run.graphs) - 1 /\ Len(run.graphs) \in Nat
    BY <1>2, <2>2
  <2>4. CacheOf(Forgot(derived, -1), run.graphs) /\ SitesOf(Forgot(sites, -1), run.graphs)
    <3>1. \A i \in 0 .. -1 :
            i <= Len(graphs) - 1 => i <= Len(run.graphs) - 1 /\ run.graphs[i + 1] = graphs[i + 1]
      OBVIOUS
    <3>2. -1 \in Int
      OBVIOUS
    <3>3. QED BY <1>1, <1>2, <2>3, <3>1, <3>2, ForgotOf
  <2>5. CacheOf(Kept(Forgot(derived, -1), cursor, run.graphs[cursor + 1]), run.graphs)
    BY <2>3, <2>4, KeptOf
  <2>6. /\ pending' = Writes /\ before' = {graphs[cursor + 1]} /\ disk' = disk /\ up' = up
        /\ answer'.saved = NoRecipe
    BY <2>1 DEF Written, Answered
  <2>7. MemoryOK'
    BY <1>3, <2>1, <2>2, <2>3, <2>4, <2>5 DEF MemoryOK
  <2>8. FilesOK'
    <3>1. ShowsOne(recipe, cursor, {graphs[cursor + 1]} \cup {run.graphs[cursor + 1]})
      BY <1>1, ShowsNow
    <3>2. ShowsOne(r, cursor, {graphs[cursor + 1]} \cup {run.graphs[cursor + 1]})
      BY <1>3, <2>2, <2>3, ShowsNow
    <3>3. QED BY <1>1, <2>1, <2>6, <3>1, <3>2, WritesAre DEF FilesOK
  <2>9. SavedOK' /\ DownOK' /\ up' \in BOOLEAN /\ disk' = [recipe |-> disk'.recipe, cursor |-> disk'.cursor]
    BY <1>1, <2>6 DEF SavedOK, DownOK, SessionInv
  <2>10. QED BY <2>7, <2>8, <2>9 DEF SessionInv
<1>6. QED BY <1>4, <1>5

(* What a save writes is, alone, the graphs to the cursor.                 *)
LEMMA SaveOK ==
  ASSUME SessionInv, NEW bad, Save(bad)
  PROVE  SessionInv'
<1> PICK k : k = cursor
  OBVIOUS
<1> DEFINE names == Used(recipe, k)
<1> PICK q : q = [params |-> [p \in names |-> recipe.params[p]], steps |-> SubSeq(recipe.steps, 1, k)]
  OBVIOUS
<1>1. /\ up /\ pending = <<>> /\ RecipeOK(recipe) /\ Chain(recipe, graphs)
      /\ k \in 0 .. Len(graphs) - 1
  BY DEF SessionInv, MemoryOK, FilesOK, Ready, Save
<1>2. /\ Len(recipe.steps) \in Nat /\ k \in 0 .. Len(recipe.steps)
  <2>1. Len(recipe.steps) \in Nat /\ Len(graphs) \in Nat /\ Len(graphs) <= Len(recipe.steps) + 1
    BY <1>1, SeqIs DEF RecipeOK, Chain
  <2>2. QED BY <1>1, <2>1
<1>3. CASE Refuse
  BY <1>3, Refused
<1>4. CASE ~Refuse
  <2>1. /\ answer' = [ok |-> TRUE, saved |-> q]
        /\ UNCHANGED <<recipe, graphs, cursor, own, sites, derived, disk, pending, up, before>>
    BY <1>4 DEF Save, Saved
  <2>2. answer'.saved = q
    BY <2>1
  <2>3. /\ N \in names /\ names \subseteq DOMAIN recipe.params
        /\ \A i \in 1 .. k : recipe.steps[i].arg \in DOMAIN recipe.params => recipe.steps[i].arg \in names
    BY <1>1 DEF Used, RecipeOK
  <2> HIDE DEF names
  <2>4. /\ Len(q.steps) = k /\ \A i \in 1 .. k : q.steps[i] = recipe.steps[i]
    <3>1. IsSeq(recipe.steps)
      BY <1>1 DEF RecipeOK
    <3>2. /\ Len(SubSeq(recipe.steps, 1, k)) = k
          /\ \A i \in 1 .. k : SubSeq(recipe.steps, 1, k)[i] = recipe.steps[i]
      BY <1>2, <3>1, SubIs
    <3>3. QED BY <3>2
  <2>5. DOMAIN q.params = names /\ \A p \in names : q.params[p] = recipe.params[p]
    OBVIOUS
  <2>6. FirstAre(q, graphs, k)
    <3>1. q.params[N] = recipe.params[N] /\ Len(q.steps) \in Nat /\ k <= Len(q.steps)
      BY <1>2, <2>3, <2>4, <2>5
    <3>2. \A i \in 1 .. k : LET a == recipe.steps[i].arg IN
            a \in DOMAIN recipe.params => a \in DOMAIN q.params /\ q.params[a] = recipe.params[a]
      BY <2>3, <2>5
    <3>3. QED BY <1>1, <2>4, <3>1, <3>2, FirstSteps
  <2>7. SavedShows(q, graphs, k)
    BY <2>4, <2>6 DEF FirstAre, SavedShows
  <2>8. SavedOK'
    BY <1>1, <2>1, <2>2, <2>7 DEF SavedOK
  <2>9. QED BY <1>1, <2>1, <2>8 DEF SessionInv, MemoryOK, FilesOK, DownOK
<1>5. QED BY <1>3, <1>4

LEMMA SitesOK ==
  ASSUME SessionInv, NEW k \in 0 .. Replayed, Sites(k)
  PROVE  SessionInv'
<1> PICK x : x = [graph |-> graphs[k + 1], names |-> Proposed]
  OBVIOUS
<1>1. /\ up /\ sites' = Kept(sites, k, x) /\ answer'.saved = NoRecipe
      /\ UNCHANGED <<recipe, graphs, cursor, own, derived, disk, pending, up, before>>
  BY DEF Sites, Ready, Answered
<1>2. SitesOf(sites, graphs) /\ k \in 0 .. Len(graphs) - 1 /\ x.graph = graphs[k + 1]
  BY <1>1 DEF SessionInv, MemoryOK, Replayed
<1>3. SitesOf(sites', graphs)
  BY <1>1, <1>2, KeptOf
<1>4. MemoryOK'
  BY <1>1, <1>3 DEF SessionInv, MemoryOK
<1>5. QED BY <1>1, <1>4 DEF SessionInv, SavedOK, FilesOK, DownOK

LEMMA AskOK ==
  ASSUME SessionInv, NEW k \in 0 .. Replayed, Ask(k)
  PROVE  SessionInv'
<1>1. /\ up /\ derived' = Kept(derived, k, graphs[k + 1]) /\ answer'.saved = NoRecipe
      /\ UNCHANGED <<recipe, graphs, cursor, own, sites, disk, pending, up, before>>
  BY DEF Ask, Ready, Answered
<1>2. CacheOf(derived, graphs) /\ k \in 0 .. Len(graphs) - 1
  BY <1>1 DEF SessionInv, MemoryOK, Replayed
<1>3. CacheOf(derived', graphs)
  BY <1>1, <1>2, KeptOf
<1>4. MemoryOK'
  BY <1>1, <1>3 DEF SessionInv, MemoryOK
<1>5. QED BY <1>1, <1>4 DEF SessionInv, SavedOK, FilesOK, DownOK

LEMMA WriteOK ==
  ASSUME SessionInv, WriteFile
  PROVE  SessionInv'
<1>1. /\ up /\ pending \in {<<"session">>, Writes} /\ RecipeOK(recipe) /\ Chain(recipe, graphs)
      /\ cursor \in 0 .. Len(graphs) - 1
      /\ disk = [recipe |-> disk.recipe, cursor |-> disk.cursor]
      /\ ShowsOne(disk.recipe, disk.cursor, before \cup {graphs[cursor + 1]})
      /\ pending = Writes => ShowsOne(recipe, disk.cursor, before \cup {graphs[cursor + 1]})
      /\ pending # Writes => disk.recipe = recipe
  BY DEF SessionInv, MemoryOK, FilesOK, WriteFile
<1>2. /\ UNCHANGED <<recipe, graphs, cursor, own, sites, derived, up, answer>>
      /\ pending' = Tail(pending) /\ before' = IF pending' = <<>> THEN {} ELSE before
  BY DEF WriteFile
<1>3. answer.saved = NoRecipe
  BY <1>1, WritesAre DEF SessionInv, SavedOK
<1>4. CASE pending = Writes
  <2>1. disk' = [disk EXCEPT !.recipe = recipe] /\ pending' = <<"session">> /\ before' = before
    BY <1>2, <1>4, WritesAre DEF WriteFile
  <2>2. /\ disk'.recipe = recipe /\ disk'.cursor = disk.cursor
        /\ disk' = [recipe |-> disk'.recipe, cursor |-> disk'.cursor]
    BY <1>1, <2>1
  <2>3. FilesOK'
    BY <1>1, <1>2, <1>4, <2>1, <2>2, WritesAre DEF FilesOK
  <2>4. QED BY <1>1, <1>2, <1>3, <2>2, <2>3 DEF SessionInv, MemoryOK, SavedOK, DownOK
<1>5. CASE pending = <<"session">>
  <2>1. disk' = [disk EXCEPT !.cursor = cursor] /\ pending' = <<>>
    BY <1>2, <1>5, WritesAre DEF WriteFile
  <2>2. /\ disk'.recipe = recipe /\ disk'.cursor = cursor
        /\ disk' = [recipe |-> disk'.recipe, cursor |-> disk'.cursor]
    BY <1>1, <1>5, <2>1, WritesAre
  <2>3. ShowsOne(recipe, cursor, before' \cup {graphs[cursor + 1]})
    BY <1>1, ShowsNow
  <2>4. FilesOK'
    BY <1>1, <1>2, <2>1, <2>2, <2>3, WritesAre DEF FilesOK
  <2>5. QED BY <1>1, <1>2, <1>3, <2>2, <2>4 DEF SessionInv, MemoryOK, SavedOK, DownOK
<1>6. QED BY <1>1, <1>4, <1>5

LEMMA CrashOK ==
  ASSUME SessionInv, Crash
  PROVE  SessionInv'
<1>1. /\ disk = [recipe |-> disk.recipe, cursor |-> disk.cursor]
      /\ RecipeOK(disk.recipe) /\ disk.cursor \in Nat
  <2>1. ShowsOne(disk.recipe, disk.cursor, before \cup {graphs[cursor + 1]})
    BY DEF SessionInv, FilesOK, Crash
  <2>2. RecipeOK(disk.recipe) /\ disk.cursor \in 0 .. Len(disk.recipe.steps)
    BY <2>1 DEF ShowsOne, Shows
  <2>3. QED BY <2>2 DEF SessionInv
<1>2. /\ up' = FALSE /\ answer'.saved = NoRecipe /\ sites' = <<>> /\ derived' = <<>>
      /\ disk' \in {disk, Torn("recipe"), Torn("session")} \cup {Torn(Head(pending))}
  BY DEF Crash
<1>3. disk' = disk \/ \E f : disk' = Torn(f)
  BY <1>2
<1>4. /\ disk' = [recipe |-> disk'.recipe, cursor |-> disk'.cursor]
      /\ disk'.recipe = NoRecipe \/ RecipeOK(disk'.recipe)
      /\ disk'.cursor \in Nat \cup {-1}
  <2>1. CASE disk' = disk
    BY <1>1, <2>1
  <2>2. CASE disk' = [disk EXCEPT !.recipe = NoRecipe]
    BY <1>1, <2>2
  <2>3. CASE disk' = [disk EXCEPT !.cursor = -1]
    BY <1>1, <2>3
  <2>4. QED BY <1>3, <2>1, <2>2, <2>3 DEF Torn
<1>5. DOMAIN derived' = {} /\ DOMAIN sites' = {}
  BY <1>2
<1>6. QED BY <1>2, <1>4, <1>5 DEF SessionInv, MemoryOK, SavedOK, FilesOK, DownOK

LEMMA ResumeOK ==
  ASSUME SessionInv, Resume
  PROVE  SessionInv'
<1> PICK r : r = disk.recipe
  OBVIOUS
<1> PICK k : k = disk.cursor
  OBVIOUS
<1> PICK x : x = Shown
  OBVIOUS
<1> PICK y : y = Rest
  OBVIOUS
<1>1. /\ RecipeOK(r) /\ k \in Nat /\ DOMAIN derived = {} /\ DOMAIN sites = {} /\ r # NoRecipe /\ k # -1
      /\ disk = [recipe |-> r, cursor |-> k]
  BY DEF SessionInv, DownOK, Resume, Opens, Whole
<1>2. Len(r.steps) \in Nat /\ k \in 0 .. Len(r.steps) /\ x.error = None
  <2>1. Len(r.steps) \in Nat
    BY <1>1, SeqIs DEF RecipeOK
  <2>2. k <= Len(r.steps) /\ x.error = None
    BY DEF Resume, Opens
  <2>3. QED BY <1>1, <2>1, <2>2
<1>3. Chain(r, x.graphs) /\ Len(x.graphs) = k + 1
  <2>1. x = Replay(r, k)
    BY DEF Shown
  <2>2. Gives(r, k, x)
    BY <1>1, <1>2, <2>1, ReplayGives
  <2>3. QED BY <1>2, <2>2 DEF Gives
<1>4. Chain(r, y.graphs) /\ k + 1 <= Len(y.graphs)
  <2>1. y = Extended(r, x.graphs, Len(r.steps))
    BY DEF Rest
  <2>2. Len(r.steps) \in Nat /\ Len(r.steps) <= Len(r.steps)
    BY <1>2
  <2>3. ExtendsTo(r, x.graphs, Len(r.steps), y)
    BY <1>2, <1>3, <2>1, <2>2, ExtendedIs
  <2>4. QED BY <1>3, <2>3 DEF ExtendsTo
<1>5. /\ up' = TRUE /\ recipe' = r /\ cursor' = k /\ graphs' = y.graphs
      /\ pending' = Writes /\ before' = {} /\ disk' = disk
      /\ sites' = sites /\ derived' = derived /\ answer'.saved = NoRecipe
  BY DEF Resume, Answered
<1>6. k \in 0 .. Len(y.graphs) - 1
  <2>1. Len(y.graphs) \in Nat
    BY <1>4 DEF Chain
  <2>2. QED BY <1>2, <1>4, <2>1
<1>7. MemoryOK'
  <2>1. CacheOf(derived, y.graphs) /\ SitesOf(sites, y.graphs)
    BY <1>1 DEF CacheOf, SitesOf
  <2>2. QED BY <1>1, <1>4, <1>5, <1>6, <2>1 DEF MemoryOK
<1>8. FilesOK'
  <2>1. ShowsOne(r, k, {} \cup {y.graphs[k + 1]})
    BY <1>1, <1>4, <1>6, ShowsNow
  <2>2. disk'.recipe = r /\ disk'.cursor = k
    BY <1>1, <1>5
  <2>3. QED BY <1>5, <2>1, <2>2, WritesAre DEF FilesOK
<1>9. QED BY <1>1, <1>5, <1>7, <1>8 DEF SessionInv, SavedOK, DownOK

LEMMA SessionStart == Init => SessionInv
<1> SUFFICES ASSUME Init PROVE SessionInv
  OBVIOUS
<1>1. /\ recipe = start.recipe /\ start \in Starts /\ cursor = Len(recipe.steps)
      /\ graphs = Replay(recipe, Len(recipe.steps)).graphs
      /\ sites = <<>> /\ derived = <<>> /\ disk = [recipe |-> recipe, cursor |-> cursor]
      /\ pending = <<>> /\ up = TRUE /\ answer.saved = NoRecipe /\ before = {}
  BY DEF Init, Steps
<1>2. Recipe(recipe)
  BY <1>1, StartsAssumption
<1>3. RecipeOK(recipe) /\ Len(recipe.steps) \in Nat
  <2>1. /\ recipe = [params |-> recipe.params, steps |-> recipe.steps]
        /\ IsFiniteSet(DOMAIN recipe.params) /\ N \in DOMAIN recipe.params
    BY <1>2 DEF Recipe
  <2> DEFINE S == [kind : {"split", "bind", "link"}, on : Maps \cup {Link},
                   arg : STRING \X Int \X Int, inst : Nat]
  <2>2. recipe.steps \in Seq(S)
    BY <1>2 DEF Recipe
  <2>3. \A s \in S : StepWhole(s)
    BY DEF StepWhole
  <2> HIDE DEF S
  <2>4. \A i \in 1 .. Len(recipe.steps) : StepWhole(recipe.steps[i])
    BY <2>2, <2>3
  <2>5. QED BY <2>1, <2>2, <2>4 DEF RecipeOK, IsSeq
<1>4. Chain(recipe, graphs) /\ Len(graphs) = Len(recipe.steps) + 1
  <2>1. Gives(recipe, Len(recipe.steps), Replay(recipe, Len(recipe.steps)))
    BY <1>3, ReplayGives
  <2>2. Replay(recipe, Len(recipe.steps)).error = None
    BY <1>2 DEF Recipe
  <2>3. QED BY <1>1, <2>1, <2>2 DEF Gives
<1>5. cursor \in 0 .. Len(graphs) - 1
  BY <1>1, <1>3, <1>4
<1>6. DOMAIN derived = {} /\ DOMAIN sites = {}
  BY <1>1
<1>7. MemoryOK
  BY <1>3, <1>4, <1>5, <1>6 DEF MemoryOK, CacheOf, SitesOf
<1>8. FilesOK
  <2>1. ShowsOne(recipe, cursor, before \cup {graphs[cursor + 1]})
    BY <1>3, <1>4, <1>5, ShowsNow
  <2>2. QED BY <1>1, <2>1, WritesAre DEF FilesOK
<1>9. disk = [recipe |-> disk.recipe, cursor |-> disk.cursor]
  BY <1>1
<1>10. QED BY <1>1, <1>7, <1>8, <1>9 DEF SessionInv, SavedOK, DownOK

LEMMA SessionStep == SessionInv /\ [Next]_vars => SessionInv'
<1> SUFFICES ASSUME SessionInv, [Next]_vars PROVE SessionInv'
  OBVIOUS
<1>1. CASE UNCHANGED vars
  BY <1>1 DEF SessionInv, MemoryOK, SavedOK, FilesOK, DownOK, vars
<1>2. CASE Edit
  <2>1. \E kind, on, given, drop : Apply(kind, on, given, drop)
    BY <1>2 DEF Edit
  <2>2. QED BY <2>1, ApplyOK
<1>3. CASE \E k \in 0 .. Steps : Move(k)
  BY <1>3, MoveOK
<1>4. CASE \E x \in DOMAIN recipe.params, v \in Values : SetParams(x, v)
  BY <1>4, ParamsOK
<1>5. CASE \E bad \in BOOLEAN : Save(bad)
  BY <1>5, SaveOK
<1>6. CASE \E k \in Asked \cap (0 .. Replayed) : Sites(k) \/ Ask(k)
  BY <1>6, SitesOK, AskOK
<1>7. CASE WriteFile
  BY <1>7, WriteOK
<1>8. CASE Crash
  BY <1>8, CrashOK
<1>9. CASE Resume
  BY <1>9, ResumeOK
<1>10. CASE ResumeRefused
  BY <1>1, <1>10 DEF ResumeRefused
<1>11. QED BY <1>1, <1>2, <1>3, <1>4, <1>5, <1>6, <1>7, <1>8, <1>9, <1>10 DEF Next, Request

LEMMA Held ==
  ASSUME SessionInv
  PROVE  GraphsAreTheRecipes /\ AnswersCurrent /\ FilesReplay
<1>1. GraphsAreTheRecipes
  <2> SUFFICES ASSUME up PROVE Replay(recipe, Replayed) = [graphs |-> graphs, error |-> None]
    BY DEF GraphsAreTheRecipes
  <2>1. RecipeOK(recipe) /\ Chain(recipe, graphs)
    BY DEF SessionInv, MemoryOK
  <2>2. Len(recipe.steps) \in Nat /\ Len(graphs) \in Nat /\ Len(graphs) >= 1 /\ IsSeq(graphs)
    BY <2>1, SeqIs DEF RecipeOK, Chain
  <2>3. Replayed \in 0 .. Len(graphs) - 1 /\ Replayed + 1 = Len(graphs)
    BY <2>2 DEF Replayed
  <2>4. Replay(recipe, Replayed) = [graphs |-> SubSeq(graphs, 1, Replayed + 1), error |-> None]
    BY <2>1, <2>2, <2>3, ReplayIs
  <2>5. SubSeq(graphs, 1, Len(graphs)) = graphs
    BY <2>2, SubSeqFull DEF IsSeq
  <2>6. QED BY <2>3, <2>4, <2>5
<1>2. AnswersCurrent
  BY DEF SessionInv, MemoryOK, DownOK, CacheOf, SitesOf, AnswersCurrent
<1>3. ASSUME answer.saved # NoRecipe
      PROVE  Replay(answer.saved, Len(answer.saved.steps))
               = [graphs |-> SubSeq(graphs, 1, cursor + 1), error |-> None]
  <2> PICK r : r = answer.saved
    OBVIOUS
  <2> DEFINE c == SubSeq(graphs, 1, cursor + 1)
  <2>1. up /\ Len(r.steps) = cursor /\ Chain(r, c)
    BY <1>3 DEF SessionInv, SavedOK, SavedShows
  <2>2. RecipeOK(recipe) /\ Chain(recipe, graphs) /\ cursor \in 0 .. Len(graphs) - 1
    BY <2>1 DEF SessionInv, MemoryOK
  <2>3. IsSeq(graphs) /\ cursor + 1 \in 0 .. Len(graphs) /\ cursor \in Nat
    BY <2>2 DEF Chain
  <2>4. IsSeq(c) /\ Len(c) = cursor + 1
    BY <2>3, SubIs
  <2> HIDE DEF c
  <2>5. cursor \in 0 .. Len(c) - 1 /\ Len(r.steps) \in Nat
    BY <2>1, <2>3, <2>4
  <2>6. Replay(r, cursor) = [graphs |-> SubSeq(c, 1, cursor + 1), error |-> None]
    BY <2>1, <2>5, ReplayIs
  <2>7. SubSeq(c, 1, cursor + 1) = c
    <3>1. SubSeq(c, 1, Len(c)) = c
      BY <2>4, SubSeqFull DEF IsSeq
    <3>2. QED BY <2>4, <3>1
  <2>8. Replay(r, Len(r.steps)) = [graphs |-> c, error |-> None]
    BY <2>1, <2>6, <2>7
  <2>9. QED BY <2>8 DEF c
<1>4. ASSUME up PROVE Opens /\ Last(Shown.graphs) \in before \cup {graphs[cursor + 1]}
  <2> PICK r : r = disk.recipe
    OBVIOUS
  <2> PICK k : k = disk.cursor
    OBVIOUS
  <2>1. PICK g \in before \cup {graphs[cursor + 1]} : Shows(r, k, g)
    BY <1>4 DEF SessionInv, FilesOK, ShowsOne
  <2>2. Replay(r, k).error = None /\ Last(Replay(r, k).graphs) = g
    BY <2>1, ShownIs
  <2>3. RecipeOK(r) /\ k \in 0 .. Len(r.steps) /\ Len(r.steps) \in Nat
    BY <2>1, SeqIs DEF Shows, RecipeOK
  <2>4. r # NoRecipe /\ k # -1
    <3>1. DOMAIN NoRecipe.params = {}
      BY DEF NoRecipe
    <3>2. N \in DOMAIN r.params
      BY <2>3 DEF RecipeOK
    <3>3. QED BY <2>3, <3>1, <3>2
  <2>5. Shown = Replay(r, k)
    BY DEF Shown
  <2>6. Opens
    BY <2>2, <2>3, <2>4, <2>5 DEF Opens, Whole
  <2>7. QED BY <2>1, <2>2, <2>5, <2>6
<1>5. FilesReplay
  BY <1>3, <1>4 DEF FilesReplay
<1>6. QED BY <1>1, <1>2, <1>5

(* Whatever the requests and their order: in memory the graphs are the     *)
(* recipe's (Session.apply, move, set_params, __init__).                   *)
THEOREM GraphsReplay == Spec => []GraphsAreTheRecipes
<1>1. SessionInv => GraphsAreTheRecipes
  BY Held
<1>2. QED BY <1>1, SessionStart, SessionStep, PTL DEF Spec

(* A cached answer is of the graph its step has (Session._forget).         *)
THEOREM CachesCurrent == Spec => []AnswersCurrent
<1>1. SessionInv => AnswersCurrent
  BY Held
<1>2. QED BY <1>1, SessionStart, SessionStep, PTL DEF Spec

(* A saved recipe replays alone to what was saved; the session's files,    *)
(* whole, to the graph shown or the one before (Session.save, _write).     *)
THEOREM FilesShow == Spec => []FilesReplay
<1>1. SessionInv => FilesReplay
  BY Held
<1>2. QED BY <1>1, SessionStart, SessionStep, PTL DEF Spec
=============================================================================
