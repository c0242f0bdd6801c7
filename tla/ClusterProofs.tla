---------------------------- MODULE ClusterProofs ----------------------------
(***************************************************************************)
(* The program of a task list on the cluster, for every list of steps in   *)
(* any order (Listed), every list Derive derives, every design point and   *)
(* every number of cores: a task starts after those of its core its        *)
(* `after' names, and no start meets a busy component; and of a derived    *)
(* list, for every graph: a task starts after those its `after' names on   *)
(* every core, and the accelerators run in series.                         *)
(*                                                                         *)
(* The lowering's part says of the program written so far which            *)
(* instruction launches which task and what is past before it: a component *)
(* is launched again only past its task before, a task past its `after'.   *)
(* The cluster's part says that what the registers hold is what the last   *)
(* configure wrote, that a task under way was launched and its component   *)
(* not polled since, and that the cores have launched what they passed.    *)
(*                                                                         *)
(* A derived list's part says that the movers of another accelerator are   *)
(* launched past those launched before, that the groups yet to be lowered  *)
(* wait for each other in turn, and that the walk hands no accelerator's   *)
(* task to an `after'.                                                     *)
(*                                                                         *)
(* Across cores, every function holds as many barriers, a task on one core *)
(* comes after a barrier that is past what it is after on another, and no  *)
(* core is a barrier ahead of another.                                     *)
(***************************************************************************)
EXTENDS Listed, Derive, FiniteSetTheorems, SequenceTheorems, WellFoundedInduction, TLAPS

-----------------------------------------------------------------------------
(* Naturals and sequences.                                                 *)

(* A nonempty set of naturals has a smallest member.                       *)
LEMMA Least ==
  ASSUME NEW T, T \subseteq Nat, T # {}
  PROVE  \E x \in T : \A y \in T : x <= y
<1>1. PICK x \in T : \A y \in T : ~(<<y, x>> \in OpToRel(<, Nat))
  BY NatLessThanWellFounded, WFMin
<1>2. ASSUME NEW y \in T, y < x PROVE FALSE
  <2>1. <<y, x>> \in {ss \in Nat \X Nat : ss[1] < ss[2]}
    BY <1>2
  <2>2. QED BY <1>1, <2>1 DEF OpToRel
<1>3. QED BY <1>2

(* Induction over a set of numbers, so that a proof may take {n \in Nat :  *)
(* ...}.                                                                   *)
LEMMA Induct ==
  ASSUME NEW S, 0 \in S, \A n \in Nat : n \in S => n + 1 \in S
  PROVE  Nat \subseteq S
<1> SUFFICES ASSUME Nat \ S # {} PROVE FALSE
  OBVIOUS
<1>1. PICK x \in Nat \ S : \A y \in Nat \ S : x <= y
  BY Least
<1>2. x - 1 \in Nat /\ x - 1 \in S
  BY <1>1
<1>3. QED BY <1>1, <1>2

(* A sequence, whatever its elements.                                      *)
IsSeq(s) == s \in Seq(ToSet(s))

(* A sequence over any set is one.                                         *)
LEMMA SeqIs == ASSUME NEW S, NEW s \in Seq(S) PROVE IsSeq(s)
  BY DEF IsSeq, ToSet

(* What it is to be a sequence: a function on 1 .. its length, its members *)
(* those it takes.                                                         *)
LEMMA SeqFacts ==
  ASSUME NEW s, IsSeq(s)
  PROVE  /\ Len(s) \in Nat /\ DOMAIN s = 1 .. Len(s)
         /\ \A i \in 1 .. Len(s) : s[i] \in ToSet(s)
         /\ \A x \in ToSet(s) : \E i \in 1 .. Len(s) : s[i] = x
         /\ \A S : ToSet(s) \subseteq S => s \in Seq(S)
<1>1. Len(s) \in Nat /\ DOMAIN s = 1 .. Len(s)
  BY DEF IsSeq
<1>2. \A S : ToSet(s) \subseteq S => s \in Seq(S)
  BY SeqMonotonic DEF IsSeq
<1>3. QED BY <1>1, <1>2 DEF ToSet

(* The members of a concatenation, in order.                               *)
LEMMA Concat ==
  ASSUME NEW s, NEW t, IsSeq(s), IsSeq(t)
  PROVE  /\ IsSeq(s \o t)
         /\ Len(s \o t) = Len(s) + Len(t)
         /\ \A i \in 1 .. Len(s) : (s \o t)[i] = s[i]
         /\ \A i \in 1 .. Len(t) : (s \o t)[Len(s) + i] = t[i]
<1>1. s \in Seq(ToSet(s) \cup ToSet(t)) /\ t \in Seq(ToSet(s) \cup ToSet(t))
  BY SeqFacts
<1>2. Len(s) \in Nat /\ Len(t) \in Nat
  BY SeqFacts
<1>3. s \o t \in Seq(ToSet(s) \cup ToSet(t)) /\ Len(s \o t) = Len(s) + Len(t)
  BY <1>1, ConcatProperties
<1>4. \A i \in 1 .. Len(s) + Len(t) : (s \o t)[i] = IF i <= Len(s) THEN s[i] ELSE t[i - Len(s)]
  BY <1>1, ConcatProperties
<1>5. \A i \in 1 .. Len(s) : (s \o t)[i] = s[i]
  BY <1>2, <1>4
<1>6. ASSUME NEW i \in 1 .. Len(t) PROVE (s \o t)[Len(s) + i] = t[i]
  <2>1. Len(s) + i \in 1 .. Len(s) + Len(t) /\ ~(Len(s) + i <= Len(s)) /\ (Len(s) + i) - Len(s) = i
    BY <1>2
  <2>2. QED BY <1>4, <2>1
<1>7. QED BY <1>3, <1>5, <1>6, SeqIs

(* An appended member comes last.                                          *)
LEMMA Added ==
  ASSUME NEW s, NEW e, IsSeq(s)
  PROVE  /\ IsSeq(Append(s, e)) /\ Len(Append(s, e)) = Len(s) + 1
         /\ \A i \in 1 .. Len(s) : Append(s, e)[i] = s[i]
         /\ Append(s, e)[Len(s) + 1] = e
<1>1. s \in Seq(ToSet(s) \cup {e}) /\ e \in ToSet(s) \cup {e} /\ Len(s) \in Nat
  BY SeqFacts
<1>2. Append(s, e) \in Seq(ToSet(s) \cup {e})
  BY <1>1, AppendProperties
<1>3. Len(Append(s, e)) = Len(s) + 1
  BY <1>1, AppendProperties
<1>4. \A i \in 1 .. Len(s) : Append(s, e)[i] = s[i]
  BY <1>1, AppendProperties
<1>5. Append(s, e)[Len(s) + 1] = e
  BY <1>1, AppendProperties
<1>6. QED BY <1>2, <1>3, <1>4, <1>5, SeqIs

(* A function on 1 .. n is a sequence of length n.                         *)
LEMMA OfLength ==
  ASSUME NEW n \in Nat, NEW f, f = [i \in 1 .. n |-> f[i]]
  PROVE  IsSeq(f) /\ Len(f) = n
<1>1. f \in [1 .. n -> ToSet(f)]
  <2>1. \A i \in 1 .. n : f[i] \in ToSet(f)
    BY DEF ToSet
  <2>2. QED BY <2>1
<1>2. f \in Seq(ToSet(f))
  BY <1>1
<1>3. QED BY <1>1, <1>2 DEF IsSeq

(* The empty sequence.                                                     *)
LEMMA EmptyIs == IsSeq(<<>>) /\ Len(<<>>) = 0
<1>1. <<>> \in Seq({})
  OBVIOUS
<1>2. QED BY <1>1, SeqIs

(* A sequence of one.                                                      *)
LEMMA Single == ASSUME NEW e PROVE IsSeq(<<e>>) /\ Len(<<e>>) = 1 /\ <<e>>[1] = e
<1>1. <<e>> \in Seq({e})
  OBVIOUS
<1>2. QED BY <1>1, SeqIs

(* A sequence of two.                                                      *)
LEMMA Pair ==
  ASSUME NEW d, NEW e
  PROVE  IsSeq(<<d, e>>) /\ Len(<<d, e>>) = 2 /\ <<d, e>>[1] = d /\ <<d, e>>[2] = e
<1>1. <<d, e>> \in Seq({d, e})
  OBVIOUS
<1>2. QED BY <1>1, SeqIs

(* The head and the rest of a sequence.                                    *)
LEMMA TailIs ==
  ASSUME NEW s, IsSeq(s), s # <<>>
  PROVE  /\ IsSeq(Tail(s)) /\ Len(Tail(s)) \in Nat /\ Len(s) = Len(Tail(s)) + 1
         /\ Head(s) = s[1] /\ 1 \in 1 .. Len(s)
         /\ \A i \in 1 .. Len(Tail(s)) : i + 1 \in 1 .. Len(s) /\ Tail(s)[i] = s[i + 1]
         /\ \A j \in 1 .. Len(s) : j = 1 \/ (j - 1 \in 1 .. Len(Tail(s)) /\ Tail(s)[j - 1] = s[j])
<1> DEFINE r == Tail(s)
<1>1. s \in Seq(ToSet(s))
  BY DEF IsSeq
<1>2. /\ r \in Seq(ToSet(s)) /\ Len(r) = Len(s) - 1 /\ Head(s) = s[1]
      /\ \A i \in 1 .. Len(r) : r[i] = s[i + 1]
  BY <1>1, HeadTailProperties
<1> HIDE DEF r
<1>3. IsSeq(r)
  BY <1>2, SeqIs
<1>4. Len(r) \in Nat /\ Len(s) \in Nat /\ Len(s) = Len(r) + 1
  BY <1>1, <1>2, <1>3, SeqFacts
<1>5. ASSUME NEW j \in 1 .. Len(s), j # 1 PROVE j - 1 \in 1 .. Len(r) /\ r[j - 1] = s[j]
  <2>1. j - 1 \in 1 .. Len(r) /\ (j - 1) + 1 = j
    BY <1>4, <1>5
  <2>2. QED BY <1>2, <2>1
<1>6. 1 \in 1 .. Len(s) /\ \A i \in 1 .. Len(r) : i + 1 \in 1 .. Len(s)
  BY <1>4
<1>7. QED BY <1>2, <1>3, <1>4, <1>5, <1>6 DEF r

(* FlattenSeq.                                                             *)
Flattens(s, n, g) == g = [i \in 1 .. n |-> IF i = 1 THEN s[i] ELSE g[i - 1] \o s[i]]

Then(d, e) == d \o e   \* opaque to the provers where it is not expanded

(* What the recursive function of FlattenSeq gives at i.                   *)
LEMMA FlattensAt ==
  ASSUME NEW s, NEW n \in Nat, NEW g, Flattens(s, n, g), NEW i \in 1 .. n
  PROVE  /\ i = 1 => g[i] = s[i]
         /\ i # 1 => g[i] = Then(g[i - 1], s[i])
<1>1. g = [j \in 1 .. n |-> IF j = 1 THEN s[j] ELSE Then(g[j - 1], s[j])]
  BY DEF Flattens, Then
<1> DEFINE G == [j \in 1 .. n |-> IF j = 1 THEN s[j] ELSE Then(g[j - 1], s[j])]
<1>2. G[i] = IF i = 1 THEN s[i] ELSE Then(g[i - 1], s[i])
  OBVIOUS
<1>3. g[i] = G[i]
  BY <1>1, Zenon
<1> HIDE DEF G
<1>4. QED BY <1>2, <1>3

(* A function that gives so at every i is that recursive function.         *)
LEMMA FlattensIf ==
  ASSUME NEW s, NEW n \in Nat, NEW g, g = [i \in 1 .. n |-> g[i]],
         \A i \in 1 .. n : (i = 1 => g[i] = s[i]) /\ (i # 1 => g[i] = Then(g[i - 1], s[i]))
  PROVE  Flattens(s, n, g)
<1> DEFINE e(i) == IF i = 1 THEN s[i] ELSE Then(g[i - 1], s[i])
<1>1. \A i \in 1 .. n : g[i] = e(i)
  OBVIOUS
<1> HIDE DEF e
<1>2. [i \in 1 .. n |-> g[i]] = [i \in 1 .. n |-> e(i)]
  BY <1>1
<1>3. g = [i \in 1 .. n |-> e(i)]
  BY <1>2, Zenon
<1>4. QED BY <1>3, Zenon DEF Flattens, e, Then

(* The recursive function exists, for any sequence of sequences.           *)
LEMMA FlattenExists ==
  ASSUME NEW s, NEW n \in Nat PROVE \E g : Flattens(s, n, g)
<1> DEFINE N == {m \in Nat : \E g : Flattens(s, m, g)}
<1>1. 0 \in N
  <2>1. Flattens(s, 0, [i \in 1 .. 0 |-> 0])
    BY DEF Flattens
  <2>2. QED BY <2>1
<1>2. ASSUME NEW m \in Nat, m \in N PROVE m + 1 \in N
  <2>1. PICK g : Flattens(s, m, g)
    BY <1>2
  <2> DEFINE h == [i \in 1 .. m + 1 |-> IF i = m + 1 THEN IF i = 1 THEN s[i] ELSE Then(g[m], s[i]) ELSE g[i]]
  <2>2. \A i \in 1 .. m : h[i] = g[i]
    OBVIOUS
  <2>3. h[m + 1] = IF m + 1 = 1 THEN s[m + 1] ELSE Then(g[m], s[m + 1])
    OBVIOUS
  <2>4. h = [i \in 1 .. m + 1 |-> h[i]]
    OBVIOUS
  <2> HIDE DEF h
  <2>5. ASSUME NEW i \in 1 .. m + 1
        PROVE  (i = 1 => h[i] = s[i]) /\ (i # 1 => h[i] = Then(h[i - 1], s[i]))
    <3>1. CASE i \in 1 .. m
      <4>1. (i = 1 => g[i] = s[i]) /\ (i # 1 => g[i] = Then(g[i - 1], s[i]))
        BY <2>1, <3>1, FlattensAt
      <4>2. i # 1 => h[i - 1] = g[i - 1]
        BY <2>2, <3>1
      <4>3. QED BY <2>2, <3>1, <4>1, <4>2
    <3>2. CASE i = m + 1
      <4>1. i # 1 => h[i - 1] = g[m]
        BY <2>2, <3>2
      <4>2. QED BY <2>3, <3>2, <4>1
    <3>3. QED BY <3>1, <3>2
  <2>5b. m + 1 \in Nat
    OBVIOUS
  <2>5a. Flattens(s, m + 1, h)
    <3> DEFINE k == m + 1
    <3>1. k \in Nat /\ h = [i \in 1 .. k |-> h[i]]
          /\ \A i \in 1 .. k : (i = 1 => h[i] = s[i]) /\ (i # 1 => h[i] = Then(h[i - 1], s[i]))
      BY <2>4, <2>5, <2>5b
    <3> HIDE DEF k
    <3>2. Flattens(s, k, h)
      BY <3>1, FlattensIf
    <3>3. QED BY <3>2 DEF k
  <2>6. QED BY <2>5a
<1>3. Nat \subseteq N
  <2> HIDE DEF N
  <2> QED BY <1>1, <1>2, Induct
<1>4. QED BY <1>3

(* FlattenSeq is its last value.                                           *)
LEMMA FlattenDef ==
  ASSUME NEW s, Len(s) \in Nat, Len(s) # 0
  PROVE  \E g : Flattens(s, Len(s), g) /\ FlattenSeq(s) = g[Len(s)]
<1> DEFINE F == CHOOSE g : Flattens(s, Len(s), g)
<1>1. Flattens(s, Len(s), F)
  BY FlattenExists
<1>2. FlattenSeq(s) = F[Len(s)]
  BY DEF FlattenSeq, Flattens
<1>3. QED BY <1>1, <1>2

(* Nothing concatenated is nothing.                                        *)
LEMMA FlattenEmpty == FlattenSeq(<<>>) = <<>>
  BY DEF FlattenSeq

(* One more sequence is concatenated at the end.                           *)
LEMMA FlattenAppend ==
  ASSUME NEW s, NEW e, IsSeq(s), IsSeq(e)
  PROVE  FlattenSeq(Append(s, e)) = FlattenSeq(s) \o e
<1> DEFINE t == Append(s, e)
           n == Len(s)
<1>1. n \in Nat /\ Len(t) = n + 1 /\ t[n + 1] = e /\ \A i \in 1 .. n : t[i] = s[i]
  BY Added, SeqFacts
<1> HIDE DEF t
<1>2. PICK h : Flattens(t, n + 1, h) /\ FlattenSeq(t) = h[n + 1]
  BY <1>1, FlattenDef
<1>6. n + 1 \in Nat /\ n + 1 \in 1 .. n + 1 /\ (n + 1) - 1 = n /\ 1 \in 1 .. n + 1
  BY <1>1
<1>3. CASE n = 0
  <2>1. h[1] = t[1]
    BY <1>2, <1>3, <1>6, FlattensAt
  <2>2. FlattenSeq(s) = <<>>
    <3>1. s = <<>>
      BY <1>3 DEF IsSeq
    <3>2. QED BY <3>1, FlattenEmpty
  <2>3. <<>> \o e = e
    BY ConcatEmptySeq DEF IsSeq
  <2>4. FlattenSeq(t) = e
    BY <1>1, <1>2, <1>3, <2>1
  <2>5. QED BY <2>2, <2>3, <2>4 DEF t
<1>4. CASE n # 0
  <2>1. PICK g : Flattens(s, n, g) /\ FlattenSeq(s) = g[n]
    BY <1>1, <1>4, FlattenDef
  <2> DEFINE S == {i \in Nat : i + 1 \in 1 .. n => h[i + 1] = g[i + 1]}
  <2>2. 0 \in S
    <3>1. h[1] = t[1]
      BY <1>2, <1>6, FlattensAt
    <3>2. 1 \in 1 .. n /\ t[1] = s[1]
      BY <1>1, <1>4
    <3>3. g[1] = s[1]
      BY <1>1, <2>1, <3>2, FlattensAt
    <3>4. QED BY <3>1, <3>2, <3>3
  <2>3. ASSUME NEW i \in Nat, i \in S PROVE i + 1 \in S
    <3> SUFFICES ASSUME i + 2 \in 1 .. n PROVE h[i + 2] = g[i + 2]
      OBVIOUS
    <3>0. n + 1 \in Nat /\ i + 2 \in 1 .. n + 1 /\ i + 2 # 1 /\ (i + 2) - 1 = i + 1
      BY <1>1
    <3>1. h[i + 1] = g[i + 1]
      BY <2>3
    <3>2. h[i + 2] = Then(h[i + 1], t[i + 2])
      BY <1>1, <1>2, <3>0, FlattensAt
    <3>3. g[i + 2] = Then(g[i + 1], s[i + 2])
      BY <1>1, <2>1, <3>0, FlattensAt
    <3>4. QED BY <1>1, <3>1, <3>2, <3>3
  <2>4. Nat \subseteq S
    <3> HIDE DEF S
    <3> QED BY <2>2, <2>3, Induct
  <2>5. h[n] = g[n]
    <3>1. n - 1 \in Nat /\ (n - 1) + 1 = n /\ n \in 1 .. n
      BY <1>1, <1>4
    <3>2. n - 1 \in S
      <4> HIDE DEF S
      <4> QED BY <2>4, <3>1
    <3>3. (n - 1) + 1 \in 1 .. n => h[(n - 1) + 1] = g[(n - 1) + 1]
      BY <3>2, Zenon
    <3>4. QED BY <3>1, <3>3, Zenon
  <2>6. h[n + 1] = Then(h[n], t[n + 1])
    BY <1>2, <1>4, <1>6, FlattensAt
  <2>7. QED BY <1>1, <1>2, <2>1, <2>5, <2>6 DEF t, Then
<1>5. QED BY <1>3, <1>4

-----------------------------------------------------------------------------
(* What a concatenation holds.                                             *)

(* F holds the members of the sequences of s, each once: place p of F is   *)
(* place b[p] of sequence a[p].                                            *)
Spread(s, F, a, b) ==
  /\ IsSeq(F)
  /\ \A p \in 1 .. Len(F) :
        a[p] \in 1 .. Len(s) /\ b[p] \in 1 .. Len(s[a[p]]) /\ F[p] = s[a[p]][b[p]]
  /\ \A p, q \in 1 .. Len(F) : a[p] = a[q] /\ b[p] = b[q] => p = q
  /\ \A i \in 1 .. Len(s) : \A o \in 1 .. Len(s[i]) : \E p \in 1 .. Len(F) : a[p] = i /\ b[p] = o

(* A concatenation spread over s goes on to be so with one more sequence.  *)
LEMMA SpreadAppend ==
  ASSUME NEW s, IsSeq(s), NEW e, IsSeq(e), NEW F, NEW a, NEW b, Spread(s, F, a, b)
  PROVE  \E c, d : Spread(Append(s, e), F \o e, c, d)
<1> DEFINE t == Append(s, e)
           n == Len(s)
           l == Len(F)
           G == F \o e
           c == [p \in 1 .. l + Len(e) |-> IF p <= l THEN a[p] ELSE n + 1]
           d == [p \in 1 .. l + Len(e) |-> IF p <= l THEN b[p] ELSE p - l]
<1>1. /\ n \in Nat /\ IsSeq(t) /\ Len(t) = n + 1 /\ t[n + 1] = e
      /\ \A i \in 1 .. n : t[i] = s[i]
  BY Added, SeqFacts
<1>2. /\ l \in Nat /\ Len(e) \in Nat /\ IsSeq(G) /\ Len(G) = l + Len(e)
      /\ \A p \in 1 .. l : G[p] = F[p]
      /\ \A p \in 1 .. Len(e) : G[l + p] = e[p]
  BY Concat, SeqFacts DEF Spread
<1>3. \A p \in 1 .. l : c[p] = a[p] /\ d[p] = b[p]
  BY <1>2
<1>4. \A p \in 1 .. Len(e) : c[l + p] = n + 1 /\ d[l + p] = p
  BY <1>2
<1>5. \A p \in 1 .. l + Len(e) : p \in 1 .. l \/ \E q \in 1 .. Len(e) : p = l + q
  <2> SUFFICES ASSUME NEW p \in 1 .. l + Len(e), p \notin 1 .. l PROVE \E q \in 1 .. Len(e) : p = l + q
    OBVIOUS
  <2>1. p - l \in 1 .. Len(e) /\ p = l + (p - l)
    BY <1>2
  <2>2. QED BY <2>1
<1>6. /\ \A p \in 1 .. l : a[p] \in 1 .. n /\ b[p] \in 1 .. Len(s[a[p]]) /\ F[p] = s[a[p]][b[p]]
      /\ \A p, q \in 1 .. l : a[p] = a[q] /\ b[p] = b[q] => p = q
      /\ \A i \in 1 .. n : \A o \in 1 .. Len(s[i]) : \E p \in 1 .. l : a[p] = i /\ b[p] = o
  BY DEF Spread
<1> HIDE DEF t, n, l, G, c, d
<1>7. ASSUME NEW p \in 1 .. Len(G)
      PROVE  c[p] \in 1 .. Len(t) /\ d[p] \in 1 .. Len(t[c[p]]) /\ G[p] = t[c[p]][d[p]]
  <2>1. CASE p \in 1 .. l
    <3>1. c[p] = a[p] /\ d[p] = b[p] /\ G[p] = F[p]
      BY <1>2, <1>3, <2>1
    <3>2. a[p] \in 1 .. n /\ b[p] \in 1 .. Len(s[a[p]]) /\ F[p] = s[a[p]][b[p]]
      BY <1>6, <2>1
    <3>3. a[p] \in 1 .. Len(t) /\ t[a[p]] = s[a[p]]
      BY <1>1, <3>2
    <3>4. QED BY <3>1, <3>2, <3>3
  <2>2. CASE \E q \in 1 .. Len(e) : p = l + q
    <3>1. PICK q \in 1 .. Len(e) : p = l + q
      BY <2>2
    <3>2. c[p] = n + 1 /\ d[p] = q /\ G[p] = e[q]
      BY <1>2, <1>4, <3>1
    <3>3. QED BY <1>1, <3>2
  <2>3. QED BY <1>2, <1>5, <2>1, <2>2
<1>8. ASSUME NEW p \in 1 .. Len(G), NEW q \in 1 .. Len(G), c[p] = c[q], d[p] = d[q] PROVE p = q
  <2>1. CASE p \in 1 .. l /\ q \in 1 .. l
    BY <1>3, <1>6, <1>8, <2>1
  <2>2. CASE (\E x \in 1 .. Len(e) : p = l + x) /\ (\E x \in 1 .. Len(e) : q = l + x)
    <3>1. PICK x \in 1 .. Len(e) : p = l + x
      BY <2>2
    <3>2. PICK y \in 1 .. Len(e) : q = l + y
      BY <2>2
    <3>3. x = y
      BY <1>4, <1>8, <3>1, <3>2
    <3>4. QED BY <3>1, <3>2, <3>3
  <2>3. CASE p \in 1 .. l /\ (\E x \in 1 .. Len(e) : q = l + x)
    <3>1. c[p] \in 1 .. n /\ c[q] = n + 1
      BY <1>3, <1>4, <1>6, <2>3
    <3>2. QED BY <1>1, <1>8, <3>1
  <2>4. CASE q \in 1 .. l /\ (\E x \in 1 .. Len(e) : p = l + x)
    <3>1. c[q] \in 1 .. n /\ c[p] = n + 1
      BY <1>3, <1>4, <1>6, <2>4
    <3>2. QED BY <1>1, <1>8, <3>1
  <2>5. QED BY <1>2, <1>5, <2>1, <2>2, <2>3, <2>4
<1>9. ASSUME NEW i \in 1 .. Len(t), NEW o \in 1 .. Len(t[i])
      PROVE  \E p \in 1 .. Len(G) : c[p] = i /\ d[p] = o
  <2>1. CASE i \in 1 .. n
    <3>1. PICK p \in 1 .. l : a[p] = i /\ b[p] = o
      BY <1>1, <1>6, <2>1
    <3>2. p \in 1 .. Len(G)
      BY <1>2
    <3>3. QED BY <1>3, <3>1, <3>2
  <2>2. CASE i = n + 1
    <3>1. o \in 1 .. Len(e)
      BY <1>1, <2>2
    <3>2. l + o \in 1 .. Len(G)
      BY <1>2, <3>1
    <3>3. QED BY <1>4, <2>2, <3>1, <3>2
  <2>3. QED BY <1>1, <2>1, <2>2
<1>10. Spread(t, G, c, d)
  BY <1>2, <1>7, <1>8, <1>9 DEF Spread
<1>11. QED BY <1>10 DEF t, G

(* FlattenSeq spreads over its sequences.                                  *)
LEMMA Spreads ==
  ASSUME NEW s, IsSeq(s), \A i \in 1 .. Len(s) : IsSeq(s[i])
  PROVE  \E a, b : Spread(s, FlattenSeq(s), a, b)
<1> DEFINE Good(t) == IsSeq(t) /\ \A i \in 1 .. Len(t) : IsSeq(t[i])
           N == {n \in Nat : \A t : Good(t) /\ Len(t) = n => \E a, b : Spread(t, FlattenSeq(t), a, b)}
<1>1. 0 \in N
  <2> SUFFICES ASSUME NEW t, Good(t), Len(t) = 0 PROVE \E a, b : Spread(t, FlattenSeq(t), a, b)
    OBVIOUS
  <2>1. t = <<>>
    BY DEF IsSeq
  <2>2. FlattenSeq(t) = <<>> /\ Len(<<>>) = 0 /\ IsSeq(<<>>)
    BY <2>1, FlattenEmpty, EmptyIs
  <2>3. Spread(t, FlattenSeq(t), 0, 0)
    BY <2>1, <2>2 DEF Spread
  <2>4. QED BY <2>3
<1>2. ASSUME NEW n \in Nat, n \in N PROVE n + 1 \in N
  <2> SUFFICES ASSUME NEW t, Good(t), Len(t) = n + 1 PROVE \E a, b : Spread(t, FlattenSeq(t), a, b)
    OBVIOUS
  <2> DEFINE u == [i \in 1 .. n |-> t[i]]
  <2>1. IsSeq(u) /\ Len(u) = n /\ \A i \in 1 .. n : u[i] = t[i]
    <3>1. u = [i \in 1 .. n |-> u[i]] /\ \A i \in 1 .. n : u[i] = t[i]
      OBVIOUS
    <3> HIDE DEF u
    <3>2. QED BY <3>1, OfLength
  <2> HIDE DEF u
  <2>2. t = Append(u, t[n + 1])
    <3>1. /\ IsSeq(Append(u, t[n + 1])) /\ Len(Append(u, t[n + 1])) = n + 1
          /\ \A i \in 1 .. n : Append(u, t[n + 1])[i] = t[i]
          /\ Append(u, t[n + 1])[n + 1] = t[n + 1]
      BY <2>1, Added
    <3>2. \A i \in 1 .. n + 1 : Append(u, t[n + 1])[i] = t[i]
      BY <3>1
    <3>3. \A v, w : IsSeq(v) /\ IsSeq(w) /\ Len(v) = n + 1 /\ Len(w) = n + 1 /\ (\A i \in 1 .. n + 1 : v[i] = w[i]) => v = w
      <4> SUFFICES ASSUME NEW v, NEW w, IsSeq(v), IsSeq(w), Len(v) = n + 1, Len(w) = n + 1,
                          \A i \in 1 .. n + 1 : v[i] = w[i]
                   PROVE v = w
        OBVIOUS
      <4>1. v \in Seq(ToSet(v) \cup ToSet(w)) /\ w \in Seq(ToSet(v) \cup ToSet(w))
        BY SeqFacts
      <4>2. Len(v) = Len(w) /\ \A i \in 1 .. Len(v) : v[i] = w[i]
        OBVIOUS
      <4>3. QED BY <4>1, <4>2, SeqEqual
    <3>4. QED BY <3>1, <3>2, <3>3
  <2>3. n + 1 \in 1 .. n + 1 /\ \A i \in 1 .. n : i \in 1 .. n + 1
    OBVIOUS
  <2>4. Good(u) /\ IsSeq(t[n + 1])
    BY <2>1, <2>3
  <2>5. PICK a, b : Spread(u, FlattenSeq(u), a, b)
    BY <1>2, <2>1, <2>4
  <2> DEFINE e == t[n + 1]
  <2>6. t = Append(u, e) /\ IsSeq(u) /\ IsSeq(e)
    BY <2>1, <2>2, <2>4
  <2> HIDE DEF e, Good
  <2>7. \E c, d : Spread(Append(u, e), FlattenSeq(u) \o e, c, d)
    BY <2>5, <2>6, SpreadAppend
  <2>8. FlattenSeq(Append(u, e)) = FlattenSeq(u) \o e
    BY <2>6, FlattenAppend
  <2>9. QED BY <2>6, <2>7, <2>8
<1>3. Nat \subseteq N
  <2> HIDE DEF N
  <2> QED BY <1>1, <1>2, Induct
<1>4. Len(s) \in Nat
  BY SeqFacts
<1>5. QED BY <1>3, <1>4

(* What a concatenation of sequences holds.                                *)
LEMMA FlattenIs ==
  ASSUME NEW s, IsSeq(s), \A i \in 1 .. Len(s) : IsSeq(s[i])
  PROVE  /\ IsSeq(FlattenSeq(s))
         /\ \A p \in 1 .. Len(FlattenSeq(s)) :
              \E i \in 1 .. Len(s) : \E o \in 1 .. Len(s[i]) : FlattenSeq(s)[p] = s[i][o]
         /\ \A i \in 1 .. Len(s) : \A o \in 1 .. Len(s[i]) :
              \E p \in 1 .. Len(FlattenSeq(s)) : FlattenSeq(s)[p] = s[i][o]
<1>1. PICK a, b : Spread(s, FlattenSeq(s), a, b)
  BY Spreads
<1> DEFINE F == FlattenSeq(s)
<1> HIDE DEF F
<1>2. Spread(s, F, a, b)
  BY <1>1 DEF F
<1>2a. IsSeq(F)
  BY <1>2 DEF Spread
<1>3. ASSUME NEW p \in 1 .. Len(F)
      PROVE  \E i \in 1 .. Len(s) : \E o \in 1 .. Len(s[i]) : F[p] = s[i][o]
  <2>1. a[p] \in 1 .. Len(s) /\ b[p] \in 1 .. Len(s[a[p]]) /\ F[p] = s[a[p]][b[p]]
    BY <1>2 DEF Spread
  <2>2. QED BY <2>1
<1>4. ASSUME NEW i \in 1 .. Len(s), NEW o \in 1 .. Len(s[i]) PROVE \E p \in 1 .. Len(F) : F[p] = s[i][o]
  <2>1. PICK p \in 1 .. Len(F) : a[p] = i /\ b[p] = o
    BY <1>2 DEF Spread
  <2>2. F[p] = s[a[p]][b[p]]
    BY <1>2 DEF Spread
  <2>3. QED BY <2>1, <2>2
<1>5. QED BY <1>2a, <1>3, <1>4 DEF F

(* One of a kind in the sequences is one of a kind in their concatenation. *)
LEMMA FlattenOnce ==
  ASSUME NEW s, IsSeq(s), \A i \in 1 .. Len(s) : IsSeq(s[i]), NEW X,
         \A i, j \in 1 .. Len(s) : \A o \in 1 .. Len(s[i]) : \A r \in 1 .. Len(s[j]) :
            s[i][o] \in X /\ s[j][r] \in X => i = j /\ o = r
  PROVE  \A p, q \in 1 .. Len(FlattenSeq(s)) : FlattenSeq(s)[p] \in X /\ FlattenSeq(s)[q] \in X => p = q
<1>1. PICK a, b : Spread(s, FlattenSeq(s), a, b)
  BY Spreads
<1> DEFINE F == FlattenSeq(s)
<1> HIDE DEF F
<1>2. Spread(s, F, a, b)
  BY <1>1 DEF F
<1>3. ASSUME NEW p \in 1 .. Len(F), NEW q \in 1 .. Len(F), F[p] \in X, F[q] \in X PROVE p = q
  <2>1. /\ a[p] \in 1 .. Len(s) /\ b[p] \in 1 .. Len(s[a[p]]) /\ F[p] = s[a[p]][b[p]]
        /\ a[q] \in 1 .. Len(s) /\ b[q] \in 1 .. Len(s[a[q]]) /\ F[q] = s[a[q]][b[q]]
    BY <1>2 DEF Spread
  <2>2. s[a[p]][b[p]] \in X /\ s[a[q]][b[q]] \in X
    BY <1>3, <2>1, Zenon
  <2>3. a[p] = a[q] /\ b[p] = b[q]
    BY <2>1, <2>2, Zenon
  <2>4. QED BY <1>2, <1>3, <2>3, Zenon DEF Spread
<1>4. QED BY <1>3 DEF F

(* A finite set has a sequence ordered by a key that tells members apart.  *)
LEMMA OrderedExists ==
  ASSUME NEW S, IsFiniteSet(S), NEW key, \A x \in S : key[x] \in Nat,
         \A x, y \in S : key[x] = key[y] => x = y
  PROVE  \E s \in SetToSeqs(S) : \A i, j \in DOMAIN s : i < j => key[s[i]] < key[s[j]]
<1> DEFINE n == Cardinality(S)
           Below(x) == {y \in S : key[y] <= key[x]}
           r == [x \in S |-> Cardinality(Below(x))]
<1>1. n \in Nat /\ IsFiniteSet(1 .. n) /\ Cardinality(1 .. n) = n
  BY FS_CardinalityType, FS_Interval
<1>2. ASSUME NEW x \in S PROVE IsFiniteSet(Below(x)) /\ Cardinality(Below(x)) \in 1 .. n
  <2>1. Below(x) \in SUBSET S /\ x \in Below(x)
    OBVIOUS
  <2> HIDE DEF Below
  <2>2. IsFiniteSet(Below(x)) /\ Cardinality(Below(x)) <= n
    BY <2>1, FS_Subset
  <2>3. Cardinality(Below(x)) \in Nat /\ Cardinality(Below(x)) # 0
    BY <2>1, <2>2, FS_CardinalityType, FS_EmptySet
  <2>4. QED BY <1>1, <2>2, <2>3
<1>3. ASSUME NEW x \in S, NEW y \in S, key[x] < key[y] PROVE r[x] < r[y]
  <2>1. Below(x) \in SUBSET Below(y) /\ y \in Below(y) /\ y \notin Below(x)
    BY <1>3
  <2>2. Below(x) # Below(y)
    BY <2>1
  <2>3. Cardinality(Below(x)) <= Cardinality(Below(y)) /\ Cardinality(Below(x)) # Cardinality(Below(y))
    <3> HIDE DEF Below
    <3> QED BY <1>2, <2>1, <2>2, FS_Subset
  <2>4. r[x] = Cardinality(Below(x)) /\ r[y] = Cardinality(Below(y)) /\ r[x] \in Nat /\ r[y] \in Nat
    <3>1. r[x] = Cardinality(Below(x)) /\ r[y] = Cardinality(Below(y))
      OBVIOUS
    <3> HIDE DEF r, Below
    <3>2. QED BY <1>1, <1>2, <3>1
  <2> HIDE DEF r, Below
  <2>5. QED BY <2>3, <2>4
<1>4. r \in Injection(S, 1 .. n)
  <2>1. r \in [S -> 1 .. n]
    <3> HIDE DEF Below
    <3> QED BY <1>2
  <2> HIDE DEF r
  <2>2. ASSUME NEW x \in S, NEW y \in S, r[x] = r[y] PROVE x = y
    <3>1. ~(key[x] < key[y]) /\ ~(key[y] < key[x])
      BY <1>1, <1>3, <2>1, <2>2
    <3>2. QED BY <3>1
  <2>3. QED BY <2>1, <2>2 DEF Injection, IsInjective
<1> HIDE DEF r
<1>5. r \in Surjection(S, 1 .. n)
  BY <1>1, <1>4, FS_Injection
<1>6. r \in [S -> 1 .. n] /\ \A i \in 1 .. n : \E x \in S : r[x] = i
  BY <1>5 DEF Surjection
<1> DEFINE s == [i \in 1 .. n |-> CHOOSE x \in S : r[x] = i]
<1>7. \A i \in 1 .. n : s[i] \in S /\ r[s[i]] = i
  BY <1>6
<1>8. s \in [1 .. n -> S]
  BY <1>7
<1> HIDE DEF s, n
<1>9. ASSUME NEW i \in 1 .. n, NEW j \in 1 .. n, i < j PROVE key[s[i]] < key[s[j]]
  <2>1. ~(key[s[j]] < key[s[i]]) /\ key[s[i]] # key[s[j]]
    BY <1>1, <1>3, <1>7, <1>9
  <2>2. QED BY <1>7, <2>1
<1>10. \A i, j \in 1 .. n : i # j => s[i] # s[j]
  BY <1>7
<1>11. s \in SetToSeqs(S)
  BY <1>8, <1>10 DEF SetToSeqs, n
<1>12. DOMAIN s = 1 .. n
  BY <1>8
<1>13. QED BY <1>9, <1>11, <1>12

-----------------------------------------------------------------------------
(* Instructions: what each launches, polls and writes.                     *)

(* What an instruction does to a component: launches it, polls it, writes  *)
(* its registers.                                                          *)
Launches(x, c) ==
  \/ x.op = "start" /\ x.arg = c
  \/ x.op = "streamers" /\ c \in MoversOf(x.arg)
  \/ x.op = "dma" /\ c = DMA
Polls(x, c) ==
  \/ x.op = "status" /\ x.arg = c /\ ~IsDma(c)
  \/ x.op = "busy" /\ c \in MoversOf(x.arg)
  \/ x.op = "dma_wait" /\ c = DMA
Writes(x, c) == x.op = "config" /\ x.arg.comp = c
Touches(x, c) == Launches(x, c) \/ Writes(x, c)

(* Instruction j of a core's function launches t: a DMA task by its own    *)
(* instruction, another from the registers its configure wrote.            *)
Wrote(L, i, j, t) ==
  L[i] = Instr("config", t) /\ \A q \in i + 1 .. j - 1 : ~Touches(L[q], t.comp)
Goes(L, j, t) ==
  /\ Launches(L[j], t.comp)
  /\ IF IsDma(t.comp) THEN L[j] = Instr("dma", t) ELSE \E i \in 1 .. j - 1 : Wrote(L, i, j, t)

(* Before instruction j, t was launched and its component polled since.    *)
Past(L, j, t) ==
  \E q \in 1 .. j - 1 : Goes(L, q, t) /\ \E p \in q + 1 .. j - 1 : Polls(L[p], t.comp)

(* No task is configured twice, no transfer issued twice.                  *)
Once(L) ==
  \A i, j \in 1 .. Len(L) : \A t :
    L[i] = L[j] /\ (L[i] = Instr("config", t) \/ L[i] = Instr("dma", t)) => i = j

(* M begins with L.                                                        *)
Prefix(L, M) ==
  /\ IsSeq(L) /\ IsSeq(M) /\ Len(L) <= Len(M)
  /\ \A i \in 1 .. Len(L) : M[i] = L[i]

(* Writing on does not change what an instruction launches.                *)
LEMMA GoesKept ==
  ASSUME NEW L, NEW M, Prefix(L, M), NEW t, NEW j \in 1 .. Len(L)
  PROVE  Goes(M, j, t) <=> Goes(L, j, t)
<1>1. Len(L) \in Nat /\ Len(M) \in Nat /\ \A i \in 1 .. j : M[i] = L[i]
  <2>1. IsSeq(L) /\ IsSeq(M) /\ \A i \in 1 .. Len(L) : M[i] = L[i]
    BY DEF Prefix
  <2>2. Len(L) \in Nat /\ Len(M) \in Nat
    BY <2>1, SeqFacts
  <2>3. QED BY <2>1, <2>2
<1>2. ASSUME NEW i \in 1 .. j - 1
      PROVE  Wrote(M, i, j, t) <=> Wrote(L, i, j, t)
  <2>1. M[i] = L[i] /\ \A q \in i + 1 .. j - 1 : M[q] = L[q]
    BY <1>1
  <2>2. (\A q \in i + 1 .. j - 1 : ~Touches(M[q], t.comp)) <=> (\A q \in i + 1 .. j - 1 : ~Touches(L[q], t.comp))
    BY <2>1, Zenon
  <2>3. QED BY <2>1, <2>2, Zenon DEF Wrote
<1>3. M[j] = L[j]
  BY <1>1
<1>4. QED BY <1>2, <1>3 DEF Goes

(* Writing on does not change what an instruction is past.                 *)
LEMMA PastKept ==
  ASSUME NEW L, NEW M, Prefix(L, M), NEW t, NEW j \in 1 .. Len(L) + 1
  PROVE  Past(M, j, t) <=> Past(L, j, t)
<1>1. Len(L) \in Nat /\ Len(M) \in Nat /\ \A i \in 1 .. j - 1 : i \in 1 .. Len(L) /\ M[i] = L[i]
  BY SeqFacts DEF Prefix
<1>2. \A q \in 1 .. j - 1 : Goes(M, q, t) <=> Goes(L, q, t)
  BY <1>1, GoesKept
<1>3. \A q \in 1 .. j - 1 : \A p \in q + 1 .. j - 1 : M[p] = L[p]
  BY <1>1
<1>4. QED BY <1>2, <1>3 DEF Past

(* Past a task, past it from there on.                                     *)
LEMMA PastOn ==
  ASSUME NEW L, NEW t, NEW i \in Nat, NEW j \in Nat, i <= j, Past(L, i, t)
  PROVE  Past(L, j, t)
  BY DEF Past

(* A task is launched by one instruction.                                  *)
LEMMA GoesOnce ==
  ASSUME NEW L, IsSeq(L), Once(L), NEW t, NEW i \in 1 .. Len(L), NEW j \in 1 .. Len(L), Goes(L, i, t), Goes(L, j, t)
  PROVE  i = j
<1>1. CASE IsDma(t.comp)
  BY <1>1 DEF Goes, Once
<1>2. CASE ~IsDma(t.comp)
  <2>1. PICK p \in 1 .. i - 1 : Wrote(L, p, i, t)
    BY <1>2 DEF Goes
  <2>2. PICK q \in 1 .. j - 1 : Wrote(L, q, j, t)
    BY <1>2 DEF Goes
  <2>3. Len(L) \in Nat
    BY SeqFacts
  <2>4. p \in 1 .. Len(L) /\ q \in 1 .. Len(L)
    BY <2>3
  <2>5. p = q
    BY <2>1, <2>2, <2>4 DEF Once, Wrote
  <2>6. Touches(L[i], t.comp) /\ Touches(L[j], t.comp)
    BY DEF Goes, Touches
  <2>7. ~(i < j)
    BY <2>2, <2>3, <2>5, <2>6 DEF Wrote
  <2>8. ~(j < i)
    BY <2>1, <2>3, <2>5, <2>6 DEF Wrote
  <2>9. QED BY <2>3, <2>7, <2>8
<1>3. QED BY <1>1, <1>2

(* Nothing touched the component since t's registers were written: the     *)
(* next to launch it launches t.                                           *)
LEMMA GoesNext ==
  ASSUME NEW L, NEW M, Prefix(L, M), NEW t, ~IsDma(t.comp),
         NEW i \in 1 .. Len(L), Wrote(L, i, Len(L) + 1, t),
         NEW j \in Len(L) + 1 .. Len(M), Launches(M[j], t.comp),
         \A q \in Len(L) + 1 .. j - 1 : ~Touches(M[q], t.comp)
  PROVE  Goes(M, j, t)
<1>1. Len(L) \in Nat /\ Len(M) \in Nat /\ \A q \in 1 .. Len(L) : M[q] = L[q]
  BY SeqFacts DEF Prefix
<1>2. i \in 1 .. j - 1 /\ M[i] = Instr("config", t)
  BY <1>1 DEF Wrote
<1>3. ASSUME NEW q \in i + 1 .. j - 1 PROVE ~Touches(M[q], t.comp)
  <2>1. CASE q <= Len(L)
    BY <1>1, <2>1 DEF Wrote
  <2>2. CASE ~(q <= Len(L))
    BY <1>1, <2>2
  <2>3. QED BY <2>1, <2>2
<1>4. Wrote(M, i, j, t)
  BY <1>2, <1>3 DEF Wrote
<1>5. QED BY <1>2, <1>4 DEF Goes

(* Launched before the end of L, polled after it: past from there on.      *)
LEMMA PastNext ==
  ASSUME NEW L, NEW M, Prefix(L, M), NEW t, NEW q \in 1 .. Len(L), Goes(L, q, t),
         NEW p \in Len(L) + 1 .. Len(M), Polls(M[p], t.comp),
         NEW j \in p + 1 .. Len(M) + 1
  PROVE  Past(M, j, t)
<1>1. Len(L) \in Nat /\ Len(M) \in Nat
  BY SeqFacts DEF Prefix
<1>2. Goes(M, q, t)
  BY GoesKept
<1>3. q \in 1 .. j - 1 /\ p \in q + 1 .. j - 1
  BY <1>1
<1>4. QED BY <1>2, <1>3 DEF Past

(* A concatenation begins with its first part.                             *)
LEMMA PrefixConcat ==
  ASSUME NEW L, NEW W, IsSeq(L), IsSeq(W)
  PROVE  Prefix(L, L \o W)
  BY Concat, SeqFacts DEF Prefix

(* What begins with M begins with what M begins with.                      *)
LEMMA PrefixTrans ==
  ASSUME NEW L, NEW M, NEW N, Prefix(L, M), Prefix(M, N)
  PROVE  Prefix(L, N)
<1>1. Len(L) \in Nat /\ Len(M) \in Nat /\ Len(N) \in Nat
  BY SeqFacts DEF Prefix
<1>2. QED BY <1>1 DEF Prefix

(* The components of a design point.                                       *)
DesignOK == Design(design) /\ design.dma \in Cores

(* A mover of a unit is a component and neither a unit nor the DMA engine. *)
LEMMA MoverIs ==
  ASSUME DesignOK, NEW u \in DUnits, NEW m \in Movers(u)
  PROVE  m[1] = u /\ Len(m) = 3 /\ IsMover(m) /\ ~IsUnit(m) /\ ~IsDma(m) /\ m \in Components
<1>1. PICK i : m = <<u, "in", i>> \/ m = <<u, "out", i>>
  BY DEF Movers, Readers, Writers
<1>2. m[1] = u /\ Len(m) = 3
  BY <1>1
<1>3. Len(DMA) = 1
  BY DEF DMA
<1>4. m \in Components
  BY DEF Components
<1>5. QED BY <1>2, <1>3, <1>4 DEF IsMover, IsUnit, IsDma

(* So is a unit's own datapath, no mover nor the DMA engine.               *)
LEMMA UnitIs ==
  ASSUME DesignOK, NEW u \in DUnits
  PROVE  LET c == Unit(u)
         IN c[1] = u /\ Len(c) = 1 /\ IsUnit(c) /\ ~IsMover(c) /\ ~IsDma(c) /\ c \in Components
<1> DEFINE c == Unit(u)
<1>1. c[1] = u /\ Len(c) = 1
  BY DEF Unit
<1>2. DMA[1] = "dma"
  BY DEF DMA
<1>3. u # "dma"
  BY DEF DesignOK, Design, DUnits
<1>4. c # DMA
  <2> HIDE DEF c
  <2> QED BY <1>1, <1>2, <1>3
<1>5. c \in Components
  BY DEF Components
<1> HIDE DEF c
<1>6. c[1] = u /\ Len(c) = 1 /\ IsUnit(c) /\ ~IsMover(c) /\ ~IsDma(c) /\ c \in Components
  BY <1>1, <1>4, <1>5 DEF IsMover, IsUnit, IsDma
<1>7. QED BY <1>6 DEF c

(* The DMA engine is a component, no unit and no mover.                    *)
LEMMA DmaIs == IsDma(DMA) /\ ~IsUnit(DMA) /\ ~IsMover(DMA) /\ DMA \in Components /\ Len(DMA) = 1
<1>1. Len(DMA) = 1
  BY DEF DMA
<1>2. QED BY <1>1 DEF IsMover, IsUnit, IsDma, Components

(* Every other component is a unit of the design or a mover of one.        *)
LEMMA ComponentIs ==
  ASSUME DesignOK, NEW c \in Components, ~IsDma(c)
  PROVE  /\ c[1] \in DUnits
         /\ \/ IsUnit(c) /\ c = Unit(c[1])
            \/ IsMover(c) /\ c \in Movers(c[1]) /\ ~IsUnit(c)
<1>1. CASE \E u \in DUnits : c = Unit(u)
  <2>1. PICK u \in DUnits : c = Unit(u)
    BY <1>1
  <2>2. c[1] = u /\ IsUnit(c)
    BY <2>1, UnitIs
  <2>3. c = Unit(c[1])
    BY <2>1, <2>2, Zenon
  <2>4. QED BY <2>2, <2>3
<1>2. CASE \E u \in DUnits : c \in Movers(u)
  BY <1>2, MoverIs
<1>3. QED BY <1>1, <1>2 DEF Components, IsDma

(* The movers of an accelerator are movers of its units.                   *)
LEMMA MoversOfIs ==
  ASSUME DesignOK, NEW a, NEW m \in MoversOf(a)
  PROVE  /\ m \in Components /\ IsMover(m) /\ ~IsUnit(m) /\ ~IsDma(m)
         /\ m[1] \in DUnits /\ design.acc[m[1]] = a
<1>1. PICK u \in DUnits : design.acc[u] = a /\ m \in Movers(u)
  BY DEF MoversOf, UnitsOf
<1>2. QED BY <1>1, MoverIs

(* A unit's movers are among its accelerator's.                            *)
LEMMA InMoversOf ==
  ASSUME DesignOK, NEW u \in DUnits, NEW m \in Movers(u)
  PROVE  m \in MoversOf(design.acc[u])
  BY DEF MoversOf, UnitsOf

(* What feeds a component is of its own unit; nothing feeds the DMA        *)
(* engine.                                                                 *)
LEMMA UpstreamIs ==
  ASSUME DesignOK, NEW c \in Components, NEW x \in Upstream(c)
  PROVE  /\ ~IsDma(c)
         /\ \/ IsUnit(c) /\ x \in Movers(c[1])
            \/ ~IsUnit(c) /\ x = Unit(c[1])
<1>1. CASE IsUnit(c)
  <2>1. x \in Movers(c[1])
    BY <1>1 DEF Upstream
  <2>2. ~IsDma(c)
    BY <1>1 DEF IsUnit, IsDma
  <2>3. QED BY <1>1, <2>1, <2>2
<1>2. CASE ~IsUnit(c)
  <2>1. c \in UNION {Writers(u) : u \in DUnits} /\ x = Unit(c[1])
    BY <1>2 DEF Upstream
  <2>2. PICK u \in DUnits : c \in Movers(u)
    BY <2>1 DEF Movers
  <2>3. QED BY <1>2, <2>1, <2>2, MoverIs
<1>3. QED BY <1>1, <1>2

(* A wait reaches its component's unit and the unit's movers, no further.  *)
Reach(c) == {c} \cup (IF IsDma(c) THEN {} ELSE {Unit(c[1])} \cup Movers(c[1]))

(* What a wait reaches is closed under what feeds it.                      *)
LEMMA ReachUp ==
  ASSUME DesignOK, NEW c \in Components, NEW x \in Reach(c)
  PROVE  x \in Components /\ Upstream(x) \subseteq Reach(c)
<1>1. CASE IsDma(c)
  BY <1>1, UpstreamIs DEF Reach
<1>2. CASE ~IsDma(c)
  <2>1. c[1] \in DUnits /\ (c = Unit(c[1]) \/ c \in Movers(c[1]))
    BY <1>2, ComponentIs
  <2>2. x = Unit(c[1]) \/ x \in Movers(c[1])
    BY <1>2, <2>1 DEF Reach
  <2>3. x \in Components /\ x[1] = c[1]
    BY <2>1, <2>2, UnitIs, MoverIs
  <2>4. Upstream(x) \subseteq Movers(c[1]) \cup {Unit(c[1])}
    BY <2>3, UpstreamIs
  <2>5. QED BY <1>2, <2>3, <2>4 DEF Reach
<1>3. QED BY <1>1, <1>2

(* A wait covers its component and only what it reaches and the list uses  *)
(* (lower/waits.py covers).                                                *)
LEMMA CoversIs ==
  ASSUME DesignOK, NEW c \in Components
  PROVE  c \in Covers(c) /\ Covers(c) \subseteq Reach(c) /\ Covers(c) \subseteq {c} \cup Used
<1> DEFINE with(x) == x \in Used /\ StepOf(Latest(x)) = StepOf(Latest(c))
           hop(X) == X \cup {y \in UNION {Upstream(x) : x \in X} : with(y)}
<1>1. Covers(c) = hop(hop({c}))
  BY DEF Covers
<1>2. \A X : X \subseteq hop(X) /\ hop(X) \subseteq X \cup Used
  OBVIOUS
<1>3. ASSUME NEW X, X \subseteq Reach(c) PROVE hop(X) \subseteq Reach(c)
  <2> HIDE DEF with
  <2>1. \A x \in X : Upstream(x) \subseteq Reach(c)
    BY <1>3, ReachUp
  <2>2. QED BY <1>3, <2>1
<1>4. {c} \subseteq Reach(c)
  BY DEF Reach
<1> HIDE DEF hop
<1>5. hop(hop({c})) \subseteq Reach(c)
  BY <1>3, <1>4
<1>6. c \in hop(hop({c})) /\ hop(hop({c})) \subseteq {c} \cup Used
  BY <1>2
<1>7. QED BY <1>1, <1>5, <1>6

(* The polls of a wait, all on one core, poll what the wait covers         *)
(* (lower/c.py).                                                           *)
LEMMA PollIs ==
  ASSUME DesignOK, NEW c \in Components
  PROVE  IsSeq(Poll(c)) /\ \A x \in Covers(c) :
           CoreOf(x) = CoreOf(c) /\ \E i \in 1 .. Len(Poll(c)) : Polls(Poll(c)[i], x)
<1>1. CASE IsDma(c)
  <2> DEFINE e == Instr("dma_wait", DMA)
  <2>1. Poll(c) = <<e>>
    BY <1>1 DEF Poll
  <2>2. Polls(e, DMA)
    BY DEF Polls, Instr
  <2>3. Covers(c) \subseteq {DMA} /\ c = DMA
    BY <1>1, CoversIs DEF Reach, IsDma
  <2> HIDE DEF e
  <2>4. IsSeq(<<e>>) /\ Len(<<e>>) = 1 /\ <<e>>[1] = e
    BY Single
  <2>5. 1 \in 1 .. 1
    OBVIOUS
  <2>6. QED BY <2>1, <2>2, <2>3, <2>4, <2>5
<1>2. CASE ~IsDma(c)
  <2> DEFINE e == Instr("status", Unit(c[1]))
             f == Instr("busy", design.acc[c[1]])
  <2>1. Poll(c) = <<e, f>>
    BY <1>2 DEF Poll
  <2>2. c[1] \in DUnits /\ (c = Unit(c[1]) \/ c \in Movers(c[1]))
    BY <1>2, ComponentIs
  <2>3. Polls(e, Unit(c[1]))
    BY <2>2, UnitIs DEF Polls, Instr
  <2>4. \A m \in Movers(c[1]) : Polls(f, m)
    BY <2>2, InMoversOf DEF Polls, Instr
  <2>5. \A x \in Covers(c) : x = Unit(c[1]) \/ x \in Movers(c[1])
    BY <1>2, <2>2, CoversIs DEF Reach
  <2>6. \A x \in Covers(c) : ~IsDma(x)
    BY <2>2, <2>5, UnitIs, MoverIs
  <2>7. \A x \in Covers(c) : CoreOf(x) = CoreOf(c)
    BY <1>2, <2>6 DEF CoreOf
  <2> HIDE DEF e, f
  <2>8. IsSeq(<<e, f>>) /\ Len(<<e, f>>) = 2 /\ <<e, f>>[1] = e /\ <<e, f>>[2] = f
    BY Pair
  <2>9. 1 \in 1 .. 2 /\ 2 \in 1 .. 2
    OBVIOUS
  <2>10. QED BY <2>1, <2>3, <2>4, <2>5, <2>7, <2>8, <2>9
<1>3. QED BY <1>1, <1>2

-----------------------------------------------------------------------------
(* The list so far: its started tasks in order.                            *)

(* Sorting a finite set by a key gives its members and no other.           *)
LEMMA SortedIs ==
  ASSUME NEW S, IsFiniteSet(S), NEW key, \A x \in S : key[x] \in Nat,
         \A x, y \in S : key[x] = key[y] => x = y
  PROVE  /\ IsSeq(Sorted(S, key))
         /\ \A i \in 1 .. Len(Sorted(S, key)) : Sorted(S, key)[i] \in S
         /\ \A x \in S : \E i \in 1 .. Len(Sorted(S, key)) : Sorted(S, key)[i] = x
<1> DEFINE s == Sorted(S, key)
           n == Cardinality(S)
<1>1. s \in SetToSeqs(S)
  <2>1. \E z \in SetToSeqs(S) : \A i, j \in DOMAIN z : i < j => key[z[i]] < key[z[j]]
    BY OrderedExists
  <2>2. QED BY <2>1 DEF Sorted
<1> HIDE DEF s
<1>2. s \in [1 .. n -> S] /\ \A i, j \in 1 .. n : i # j => s[i] # s[j]
  BY <1>1 DEF SetToSeqs
<1>3. n \in Nat /\ IsFiniteSet(1 .. n) /\ Cardinality(1 .. n) = n
  BY FS_CardinalityType, FS_Interval
<1> HIDE DEF n
<1>4. s \in Injection(1 .. n, S)
  BY <1>2 DEF Injection, IsInjective
<1>5. s \in Surjection(1 .. n, S)
  BY <1>3, <1>4, FS_Injection DEF n
<1>6. \A x \in S : \E i \in 1 .. n : s[i] = x
  BY <1>5 DEF Surjection
<1>7. s \in Seq(S) /\ Len(s) = n
  BY <1>2, <1>3
<1>8. IsSeq(s)
  BY <1>7, SeqIs
<1>9. QED BY <1>2, <1>6, <1>7, <1>8 DEF s

(* What a list that keeps the rules leaves behind, read so far.            *)
ListOK ==
  /\ DesignOK
  /\ \A t \in Configured : t.comp \in Components /\ (t.idle => IsMover(t.comp)) /\ conf[t] \subseteq Configured
  /\ IsSeq(starts) /\ IsSeq(Order) /\ IsInjective(Order)
  /\ Started \subseteq Configured
  /\ \A t \in Started : conf[t] \subseteq Started
  /\ \A t, u \in Pending : t.comp = u.comp => t = u
  /\ covered \subseteq Started /\ waited \subseteq Started

(* A started task is found at its place in the order of starts.            *)
LEMMA PlaceIs ==
  ASSUME ListOK, NEW t \in Started
  PROVE  Place(t) \in 1 .. Len(Order) /\ Place(t) \in Nat /\ Order[Place(t)] = t
<1>1. DOMAIN Order = 1 .. Len(Order) /\ Len(Order) \in Nat
  BY SeqFacts DEF ListOK
<1>2. \E i \in DOMAIN Order : Order[i] = t
  BY DEF Started, ToSet
<1>3. Place(t) \in DOMAIN Order /\ Order[Place(t)] = t
  BY <1>2 DEF Place
<1>4. QED BY <1>1, <1>3

(* Two started tasks have two places.                                      *)
LEMMA PlaceOnce ==
  ASSUME ListOK, NEW t \in Started, NEW u \in Started, Place(t) = Place(u)
  PROVE  t = u
  BY PlaceIs

(* The started tasks are finitely many.                                    *)
LEMMA StartedFinite ==
  ASSUME ListOK PROVE IsFiniteSet(Started)
<1> DEFINE f == [t \in Started |-> Place(t)]
           n == Len(Order)
<1>1. n \in Nat /\ IsFiniteSet(1 .. n)
  BY SeqFacts, FS_Interval DEF ListOK
<1>2. f \in [Started -> 1 .. n]
  BY PlaceIs
<1>3. \A t, u \in Started : f[t] = f[u] => t = u
  BY PlaceOnce
<1> HIDE DEF f, n
<1>4. f \in Injection(Started, 1 .. n)
  BY <1>2, <1>3 DEF Injection, IsInjective
<1>5. QED BY <1>1, <1>4, FS_Injection

(* The latest task of a component in use is a started one of that          *)
(* component, after all its others.                                        *)
LEMMA LatestIs ==
  ASSUME ListOK, NEW c \in Used
  PROVE  /\ Latest(c) \in Started /\ Latest(c).comp = c /\ c \in Components
         /\ \A u \in Started : u.comp = c => Place(u) <= Place(Latest(c))
<1> DEFINE n == Len(Order)
           T == {n - Place(u) : u \in TasksOn(c)}
<1>1. n \in Nat
  BY SeqFacts DEF ListOK
<1>2. \A u \in TasksOn(c) : u \in Started /\ Place(u) \in 1 .. n
  BY PlaceIs DEF TasksOn
<1> HIDE DEF n
<1>3. T \subseteq Nat /\ T # {}
  BY <1>1, <1>2 DEF Used
<1>4. PICK x \in T : \A y \in T : x <= y
  <2> HIDE DEF T
  <2> QED BY <1>3, Least
<1>5. PICK t \in TasksOn(c) : x = n - Place(t)
  BY <1>4
<1>6. \A u \in TasksOn(c) : Place(u) <= Place(t)
  <2> SUFFICES ASSUME NEW u \in TasksOn(c) PROVE Place(u) <= Place(t)
    OBVIOUS
  <2>1. n - Place(t) <= n - Place(u)
    BY <1>4, <1>5
  <2>2. QED BY <1>1, <1>2, <2>1
<1>7. Latest(c) \in TasksOn(c) /\ \A u \in TasksOn(c) : Place(u) <= Place(Latest(c))
  <2>1. \E z \in TasksOn(c) : \A u \in TasksOn(c) : Place(u) <= Place(z)
    BY <1>6
  <2>2. QED BY <2>1 DEF Latest
<1>8. QED BY <1>7 DEF TasksOn, Used

(* The components in use are finitely many.                                *)
LEMMA UsedFinite ==
  ASSUME ListOK PROVE IsFiniteSet(Used)
<1> DEFINE f == [c \in Used |-> Latest(c)]
<1>1. f \in [Used -> Started]
  BY LatestIs
<1>2. ASSUME NEW c \in Used, NEW d \in Used, f[c] = f[d] PROVE c = d
  <2>1. Latest(c) = Latest(d)
    BY <1>2
  <2>2. QED BY <2>1, LatestIs
<1> HIDE DEF f
<1>3. f \in Injection(Used, Started)
  BY <1>1, <1>2 DEF Injection, IsInjective
<1>4. QED BY <1>3, StartedFinite, FS_Injection

(* The component of a started task is in use.                              *)
LEMMA UsedIf ==
  ASSUME ListOK, NEW t \in Started
  PROVE  t.comp \in Used
<1>1. t \in TasksOn(t.comp) /\ t.comp \in Components
  BY DEF ListOK, TasksOn
<1>2. QED BY <1>1 DEF Used

(* Components in start order are the same components.                      *)
LEMMA InStartIs ==
  ASSUME ListOK, NEW C, C \subseteq Used
  PROVE  /\ IsSeq(InStart(C))
         /\ \A i \in 1 .. Len(InStart(C)) : InStart(C)[i] \in C
         /\ \A c \in C : \E i \in 1 .. Len(InStart(C)) : InStart(C)[i] = c
<1> DEFINE key == [c \in C |-> Place(Latest(c))]
<1>1. IsFiniteSet(C)
  BY UsedFinite, FS_Subset
<1>2. \A c \in C : key[c] \in Nat
  BY LatestIs, PlaceIs
<1>3. ASSUME NEW c \in C, NEW d \in C, key[c] = key[d] PROVE c = d
  <2>1. Place(Latest(c)) = Place(Latest(d))
    BY <1>3
  <2>2. Latest(c) = Latest(d)
    BY <2>1, LatestIs, PlaceOnce
  <2>3. QED BY <2>2, LatestIs
<1> HIDE DEF key
<1>4. /\ IsSeq(Sorted(C, key))
      /\ \A i \in 1 .. Len(Sorted(C, key)) : Sorted(C, key)[i] \in C
      /\ \A c \in C : \E i \in 1 .. Len(Sorted(C, key)) : Sorted(C, key)[i] = c
  BY <1>1, <1>2, <1>3, SortedIs
<1>5. QED BY <1>4 DEF InStart, key

(* A wait's counter reads, one per ended task.                             *)
LEMMA CountersIs ==
  ASSUME ListOK, NEW E, E \subseteq Started
  PROVE  /\ IsSeq(Counters(E))
         /\ \A i \in 1 .. Len(Counters(E)) : \E t \in E : Counters(E)[i] = Instr("counter", t)
<1> DEFINE accel == {t \in E : IsUnit(t.comp)}
           key == [t \in accel |-> Place(t)]
           order == Sorted(accel, key)
<1>1. IsFiniteSet(accel)
  BY StartedFinite, FS_Subset
<1>2. \A t \in accel : key[t] \in Nat
  BY PlaceIs
<1>3. \A t, u \in accel : key[t] = key[u] => t = u
  BY PlaceOnce
<1>4. accel \subseteq E
  OBVIOUS
<1>5. Counters(E) = [i \in DOMAIN order |-> Instr("counter", order[i])]
  BY DEF Counters
<1> HIDE DEF accel, key
<1>6. IsSeq(order) /\ \A i \in 1 .. Len(order) : order[i] \in accel
  BY <1>1, <1>2, <1>3, SortedIs
<1> HIDE DEF order
<1>7. DOMAIN order = 1 .. Len(order) /\ Len(order) \in Nat
  BY <1>6, SeqFacts
<1> DEFINE C == [i \in 1 .. Len(order) |-> Instr("counter", order[i])]
<1>8. C = [i \in 1 .. Len(order) |-> C[i]] /\ \A i \in 1 .. Len(order) : C[i] = Instr("counter", order[i])
  OBVIOUS
<1>9. Counters(E) = C
  BY <1>5, <1>7
<1> HIDE DEF C
<1>10. IsSeq(C) /\ Len(C) = Len(order)
  BY <1>7, <1>8, OfLength
<1>11. QED BY <1>4, <1>6, <1>8, <1>9, <1>10

-----------------------------------------------------------------------------
(* The waits chosen before a start.                                        *)

(* A wait covers finitely many components.                                 *)
LEMMA CoversFinite ==
  ASSUME ListOK, NEW c \in Used
  PROVE  Cardinality(Covers(c)) \in Nat
<1>1. c \in Components
  BY LatestIs
<1>2. Covers(c) \subseteq Used
  BY <1>1, CoversIs DEF ListOK
<1>3. QED BY <1>2, UsedFinite, FS_Subset, FS_CardinalityType

(* Some component of a set is wider than no other of it.                   *)
LEMMA Narrowest ==
  ASSUME ListOK, NEW T, T \subseteq Used, T # {}
  PROVE  \E c \in T : \A d \in T : ~Wider(c, d)
<1> DEFINE w(c) == Cardinality(Covers(c))
           A == {w(c) : c \in T}
<1>1. \A c \in T : w(c) \in Nat
  BY CoversFinite
<1>2. PICK m \in A : \A y \in A : m <= y
  <2>1. A \subseteq Nat /\ A # {}
    BY <1>1
  <2> HIDE DEF A
  <2>2. QED BY <2>1, Least
<1>3. PICK b \in T : w(b) = m
  BY <1>2
<1>4. \A d \in T : m <= w(d)
  BY <1>2
<1> DEFINE n == Len(Order)
           B == {n - Place(Latest(c)) : c \in {d \in T : w(d) = m}}
<1>5. n \in Nat /\ \A c \in T : Place(Latest(c)) \in 1 .. n
  BY SeqFacts, LatestIs, PlaceIs DEF ListOK
<1> HIDE DEF n, w
<1>6. PICK x \in B : \A y \in B : x <= y
  <2>1. B \subseteq Nat /\ B # {}
    BY <1>3, <1>5
  <2> HIDE DEF B
  <2>2. QED BY <2>1, Least
<1>7. PICK c \in T : w(c) = m /\ x = n - Place(Latest(c))
  BY <1>6
<1>8. ASSUME NEW d \in T, Wider(c, d) PROVE FALSE
  <2>1. w(d) \in Nat /\ w(c) \in Nat /\ m <= w(d)
    BY <1>1, <1>4
  <2>2. w(c) > w(d) \/ (w(c) = w(d) /\ Place(Latest(c)) < Place(Latest(d)))
    BY <1>8 DEF Wider, w
  <2>3. w(d) = m /\ Place(Latest(c)) < Place(Latest(d))
    BY <1>7, <2>1, <2>2
  <2>4. x <= n - Place(Latest(d))
    BY <1>6, <2>3
  <2>5. QED BY <1>5, <1>7, <2>3, <2>4
<1>9. QED BY <1>8

(* The waits placed before a start: what it needs, without what a wider    *)
(* one covers.                                                             *)
Choice(S, T) == S \subseteq T /\ \A c \in T : c \in S <=> Takes(c, S)

(* There is such a choice of waits, by the number of components each       *)
(* covers.                                                                 *)
LEMMA ChoiceExists ==
  ASSUME ListOK, NEW T, T \subseteq Used
  PROVE  \E S : Choice(S, T)
<1> DEFINE N == {n \in Nat : \A U : U \subseteq Used /\ Cardinality(U) = n => \E S : Choice(S, U)}
<1>1. 0 \in N
  <2> SUFFICES ASSUME NEW U, U \subseteq Used, Cardinality(U) = 0 PROVE \E S : Choice(S, U)
    OBVIOUS
  <2>1. U = {}
    BY UsedFinite, FS_Subset, FS_EmptySet
  <2>2. Choice({}, U)
    BY <2>1 DEF Choice
  <2>3. QED BY <2>2
<1>2. ASSUME NEW n \in Nat, n \in N PROVE n + 1 \in N
  <2> SUFFICES ASSUME NEW U, U \subseteq Used, Cardinality(U) = n + 1 PROVE \E S : Choice(S, U)
    OBVIOUS
  <2>1. IsFiniteSet(U) /\ U # {}
    BY UsedFinite, FS_Subset, FS_EmptySet
  <2>2. PICK c \in U : \A d \in U : ~Wider(c, d)
    BY <2>1, Narrowest
  <2> DEFINE V == U \ {c}
  <2>3. V \subseteq Used /\ Cardinality(V) = n
    BY <2>1, FS_RemoveElement
  <2>4. PICK S : Choice(S, V)
    BY <1>2, <2>3
  <2>5. S \subseteq V /\ \A d \in V : d \in S <=> Takes(d, S)
    BY <2>4 DEF Choice
  <2>6. \A d \in U : Takes(d, S \cup {c}) <=> Takes(d, S)
    BY <2>2 DEF Takes
  <2>7. CASE Takes(c, S)
    <3>1. Choice(S \cup {c}, U)
      BY <2>5, <2>6, <2>7 DEF Choice
    <3>2. QED BY <3>1
  <2>8. CASE ~Takes(c, S)
    <3>1. Choice(S, U)
      BY <2>5, <2>8 DEF Choice
    <3>2. QED BY <3>1
  <2>9. QED BY <2>7, <2>8
<1>3. Nat \subseteq N
  <2> HIDE DEF N
  <2> QED BY <1>1, <1>2, Induct
<1>4. Cardinality(T) \in Nat
  BY UsedFinite, FS_Subset, FS_CardinalityType
<1>5. QED BY <1>3, <1>4

(* What a start needs over are components in use.                          *)
LEMMA NeedUsed ==
  ASSUME ListOK, NEW ts, \A t \in ToSet(ts) : conf[t] \subseteq Started
  PROVE  Need(ts) \subseteq Used
  BY UsedIf DEF Need

(* What a start waits on: of what it needs, each is covered by one chosen. *)
LEMMA ChosenIs ==
  ASSUME ListOK, NEW ts, \A t \in ToSet(ts) : conf[t] \subseteq Started
  PROVE  /\ Chosen(ts) \subseteq Need(ts)
         /\ \A c \in Need(ts) : IsCovered(Latest(c)) \/ \E e \in Chosen(ts) : c \in Covers(e)
<1>1. Need(ts) \subseteq Used
  BY NeedUsed
<1>2. Choice(Chosen(ts), Need(ts))
  <2>1. PICK S : Choice(S, Need(ts))
    BY <1>1, ChoiceExists
  <2>2. S \in SUBSET Need(ts) /\ \A c \in Need(ts) : c \in S <=> Takes(c, S)
    BY <2>1 DEF Choice
  <2>3. Chosen(ts) \in SUBSET Need(ts) /\ \A c \in Need(ts) : c \in Chosen(ts) <=> Takes(c, Chosen(ts))
    BY <2>2, Zenon DEF Chosen
  <2>4. QED BY <2>3 DEF Choice
<1>3. ASSUME NEW c \in Need(ts), ~IsCovered(Latest(c)) PROVE \E e \in Chosen(ts) : c \in Covers(e)
  <2>1. CASE c \in Chosen(ts)
    <3>1. c \in Components
      BY <1>1, LatestIs
    <3>2. c \in Covers(c)
      BY <3>1, CoversIs DEF ListOK
    <3>3. QED BY <2>1, <3>2
  <2>2. CASE c \notin Chosen(ts)
    BY <1>2, <1>3, <2>2 DEF Choice, Takes
  <2>3. QED BY <2>1, <2>2
<1>4. QED BY <1>2, <1>3 DEF Choice

-----------------------------------------------------------------------------
(* The code of a wait.                                                     *)

(* What waits emit: polls, counters and barriers.                          *)
Waiting(W) == IsSeq(W) /\ \A i \in 1 .. Len(W) : W[i].op \in {"status", "busy", "dma_wait", "counter", "barrier"}

(* Waits followed by waits poll what either polls.                         *)
LEMMA WaitingConcat ==
  ASSUME NEW V, NEW W, Waiting(V), Waiting(W)
  PROVE  /\ Waiting(V \o W)
         /\ \A x : (\E i \in 1 .. Len(V) : Polls(V[i], x)) => \E i \in 1 .. Len(V \o W) : Polls((V \o W)[i], x)
<1>1. /\ IsSeq(V \o W) /\ Len(V \o W) = Len(V) + Len(W) /\ Len(V) \in Nat /\ Len(W) \in Nat
      /\ \A i \in 1 .. Len(V) : (V \o W)[i] = V[i]
      /\ \A i \in 1 .. Len(W) : (V \o W)[Len(V) + i] = W[i]
  BY Concat, SeqFacts DEF Waiting
<1> DEFINE U == V \o W
<1> HIDE DEF U
<1>2. /\ IsSeq(U) /\ Len(U) = Len(V) + Len(W)
      /\ \A i \in 1 .. Len(V) : U[i] = V[i]
      /\ \A i \in 1 .. Len(W) : U[Len(V) + i] = W[i]
  BY <1>1 DEF U
<1>3. ASSUME NEW i \in 1 .. Len(U) PROVE U[i].op \in {"status", "busy", "dma_wait", "counter", "barrier"}
  <2>1. CASE i <= Len(V)
    BY <1>1, <1>2, <2>1 DEF Waiting
  <2>2. CASE ~(i <= Len(V))
    <3>1. i - Len(V) \in 1 .. Len(W) /\ i = Len(V) + (i - Len(V))
      BY <1>1, <1>2, <2>2
    <3>2. U[i] = W[i - Len(V)]
      BY <1>2, <3>1
    <3>3. QED BY <3>1, <3>2 DEF Waiting
  <2>3. QED BY <2>1, <2>2
<1>4. \A i \in 1 .. Len(V) : i \in 1 .. Len(U)
  BY <1>1, <1>2
<1>5. QED BY <1>2, <1>3, <1>4 DEF Waiting, U

(* The polls of a wait are waits.                                          *)
LEMMA PollWaits ==
  ASSUME DesignOK, NEW c PROVE Waiting(Poll(c))
<1>1. CASE IsDma(c)
  <2> DEFINE e == Instr("dma_wait", DMA)
  <2>1. Poll(c) = <<e>> /\ e.op = "dma_wait"
    BY <1>1 DEF Poll, Instr
  <2> HIDE DEF e
  <2>2. IsSeq(<<e>>) /\ Len(<<e>>) = 1 /\ <<e>>[1] = e
    BY Single
  <2>3. QED BY <2>1, <2>2 DEF Waiting
<1>2. CASE ~IsDma(c)
  <2> DEFINE e == Instr("status", Unit(c[1]))
             f == Instr("busy", design.acc[c[1]])
  <2>1. Poll(c) = <<e, f>> /\ e.op = "status" /\ f.op = "busy"
    BY <1>2 DEF Poll, Instr
  <2> HIDE DEF e, f
  <2>2. IsSeq(<<e, f>>) /\ Len(<<e, f>>) = 2 /\ <<e, f>>[1] = e /\ <<e, f>>[2] = f
    BY Pair
  <2>3. \A i \in 1 .. 2 : i = 1 \/ i = 2
    OBVIOUS
  <2>4. QED BY <2>1, <2>2, <2>3 DEF Waiting
<1>3. QED BY <1>1, <1>2

(* The code of a wait waits, and on the component's own core polls all it  *)
(* covers.                                                                 *)
LEMMA WaitCodeIs ==
  ASSUME ListOK, NEW k, NEW c \in Components, NEW E, E \subseteq Started, NEW consumers
  PROVE  /\ Waiting(WaitCode(k, c, E, consumers))
         /\ k = CoreOf(c) => \A x \in Covers(c) : \E i \in 1 .. Len(WaitCode(k, c, E, consumers)) :
                               Polls(WaitCode(k, c, E, consumers)[i], x)
<1> DEFINE A == IF k = CoreOf(c) THEN Poll(c) ELSE <<>>
           B == IF k = SlotCore THEN Counters(E) ELSE <<>>
           C == IF k \in Meeting(CoreOf(c), consumers) THEN <<Barrier>> ELSE <<>>
<1>0. DesignOK
  BY DEF ListOK
<1>1. Waiting(<<>>)
  BY EmptyIs DEF Waiting
<1>2. Waiting(A)
  BY <1>0, <1>1, PollWaits
<1>3. Waiting(Counters(E))
  <2>1. IsSeq(Counters(E)) /\ \A i \in 1 .. Len(Counters(E)) : \E t \in E : Counters(E)[i] = Instr("counter", t)
    BY CountersIs
  <2>2. \A t : Instr("counter", t).op = "counter"
    BY DEF Instr
  <2>3. QED BY <2>1, <2>2 DEF Waiting
<1>4. Waiting(B)
  BY <1>1, <1>3
<1>5. Waiting(C)
  <2>1. Barrier.op = "barrier"
    BY DEF Barrier, Instr
  <2>2. IsSeq(<<Barrier>>) /\ Len(<<Barrier>>) = 1 /\ <<Barrier>>[1] = Barrier
    BY Single
  <2>3. Waiting(<<Barrier>>)
    BY <2>1, <2>2 DEF Waiting
  <2>4. QED BY <1>1, <2>3
<1>6. k = CoreOf(c) => \A x \in Covers(c) : \E i \in 1 .. Len(A) : Polls(A[i], x)
  BY <1>0, PollIs
<1> HIDE DEF A, B, C
<1>7. Waiting(A \o B) /\ \A x : (\E i \in 1 .. Len(A) : Polls(A[i], x)) => \E i \in 1 .. Len(A \o B) : Polls((A \o B)[i], x)
  BY <1>2, <1>4, WaitingConcat
<1> DEFINE F == A \o B
<1>8. F = A \o B
  OBVIOUS
<1> HIDE DEF F
<1>9. Waiting(F) /\ \A x : (\E i \in 1 .. Len(A) : Polls(A[i], x)) => \E i \in 1 .. Len(F) : Polls(F[i], x)
  BY <1>7 DEF F
<1>10. /\ Waiting(F \o C)
       /\ \A x : (\E i \in 1 .. Len(F) : Polls(F[i], x)) => \E i \in 1 .. Len(F \o C) : Polls((F \o C)[i], x)
  BY <1>5, <1>9, WaitingConcat
<1>11. WaitCode(k, c, E, consumers) = F \o C
  BY <1>8 DEF WaitCode, A, B, C
<1> DEFINE G == F \o C
<1>12. G = F \o C
  OBVIOUS
<1> HIDE DEF G
<1>13. QED BY <1>6, <1>9, <1>10, <1>11, <1>12

(* The started tasks of the components the waits on cs cover.              *)
OnOf(cs) == On(UNION {Covers(cs[i]) : i \in 1 .. Len(cs)})

(* The code of several waits adds waits to every core, each polling what   *)
(* it covers, and marks as waited what they cover.                         *)
LEMMA WaitAllIs ==
  ASSUME ListOK, NEW cs, IsSeq(cs), \A i \in 1 .. Len(cs) : cs[i] \in Components, NEW consumers
  PROVE  /\ WaitAll(cs, consumers).waited = waited \cup OnOf(cs)
         /\ \A k \in Cores : \E W :
              /\ Waiting(W) /\ WaitAll(cs, consumers).lines[k] = lines[k] \o W
              /\ \A i \in 1 .. Len(cs) : CoreOf(cs[i]) = k =>
                   \A x \in Covers(cs[i]) : \E p \in 1 .. Len(W) : Polls(W[p], x)
         /\ DOMAIN WaitAll(cs, consumers).lines = Cores
<1> DEFINE all(n) == On(UNION {Covers(cs[i]) : i \in 1 .. n})
           ended_(i) == all(i) \ (waited \cup all(i - 1))
           code(k) == [i \in DOMAIN cs |-> WaitCode(k, cs[i], ended_(i), consumers)]
           P == WaitAll(cs, consumers)
<1>1. /\ P.waited = waited \cup OnOf(cs)
      /\ P.lines = [k \in Cores |-> lines[k] \o FlattenSeq(code(k))]
  BY DEF WaitAll, OnOf
<1>2. Len(cs) \in Nat /\ DOMAIN cs = 1 .. Len(cs)
  BY SeqFacts
<1>3. \A i : ended_(i) \subseteq Started
  BY DEF On
<1> HIDE DEF P, ended_
<1>4. ASSUME NEW k \in Cores
      PROVE  \E W : /\ Waiting(W) /\ P.lines[k] = lines[k] \o W
                    /\ \A i \in 1 .. Len(cs) : CoreOf(cs[i]) = k =>
                         \A x \in Covers(cs[i]) : \E p \in 1 .. Len(W) : Polls(W[p], x)
  <2> DEFINE s == code(k)
             W == FlattenSeq(s)
  <2>1. s = [i \in 1 .. Len(cs) |-> s[i]] /\ \A i \in 1 .. Len(cs) : s[i] = WaitCode(k, cs[i], ended_(i), consumers)
    BY <1>2
  <2>2. P.lines[k] = lines[k] \o W
    BY <1>1
  <2> HIDE DEF s
  <2>3. IsSeq(s) /\ Len(s) = Len(cs)
    BY <1>2, <2>1, OfLength
  <2>4. ASSUME NEW i \in 1 .. Len(cs)
        PROVE  /\ Waiting(s[i])
               /\ CoreOf(cs[i]) = k => \A x \in Covers(cs[i]) : \E o \in 1 .. Len(s[i]) : Polls(s[i][o], x)
    BY <1>3, <2>1, WaitCodeIs
  <2>5. \A i \in 1 .. Len(s) : IsSeq(s[i])
    BY <2>3, <2>4 DEF Waiting
  <2>6. /\ IsSeq(W)
        /\ \A p \in 1 .. Len(W) : \E i \in 1 .. Len(s) : \E o \in 1 .. Len(s[i]) : W[p] = s[i][o]
        /\ \A i \in 1 .. Len(s) : \A o \in 1 .. Len(s[i]) : \E p \in 1 .. Len(W) : W[p] = s[i][o]
    BY <2>3, <2>5, FlattenIs
  <2> HIDE DEF W
  <2>7. Waiting(W)
    BY <2>3, <2>4, <2>6 DEF Waiting
  <2>8. ASSUME NEW i \in 1 .. Len(cs), CoreOf(cs[i]) = k, NEW x \in Covers(cs[i])
        PROVE  \E p \in 1 .. Len(W) : Polls(W[p], x)
    <3>1. PICK o \in 1 .. Len(s[i]) : Polls(s[i][o], x)
      BY <2>4, <2>8
    <3>2. PICK p \in 1 .. Len(W) : W[p] = s[i][o]
      BY <2>3, <2>6
    <3>3. QED BY <3>1, <3>2
  <2>9. QED BY <2>2, <2>7, <2>8
<1>5. DOMAIN P.lines = Cores
  BY <1>1
<1>6. QED BY <1>1, <1>4, <1>5 DEF P

-----------------------------------------------------------------------------
(* The code of a start.                                                    *)

(* A start that keeps the rules and leaves no set half started.            *)
Startable(ts) == IsSeq(ts) /\ IsInjective(ts) /\ ToSet(ts) \subseteq Pending /\ ~Partial(ts)

(* The tasks of a start that keeps the rules are pending, one per          *)
(* component.                                                              *)
LEMMA StartableIs ==
  ASSUME ListOK, NEW ts, Startable(ts)
  PROVE  /\ Len(ts) \in Nat /\ DOMAIN ts = 1 .. Len(ts)
         /\ \A i \in 1 .. Len(ts) : ts[i] \in ToSet(ts) /\ ts[i] \in Pending /\ ts[i].comp \in Components
         /\ \A i, j \in 1 .. Len(ts) : ts[i].comp = ts[j].comp => i = j
         /\ \A t \in ToSet(ts) : \E i \in 1 .. Len(ts) : ts[i] = t
<1>1. Len(ts) \in Nat /\ DOMAIN ts = 1 .. Len(ts)
  BY SeqFacts DEF Startable
<1>2. \A i \in 1 .. Len(ts) : ts[i] \in ToSet(ts) /\ ts[i] \in Pending
  BY SeqFacts DEF Startable
<1>3. \A t \in Pending : t.comp \in Components
  BY DEF ListOK, Pending
<1>4. ASSUME NEW i \in 1 .. Len(ts), NEW j \in 1 .. Len(ts), ts[i].comp = ts[j].comp PROVE i = j
  <2>1. ts[i] = ts[j]
    BY <1>2, <1>4 DEF ListOK
  <2>2. QED BY <1>1, <2>1 DEF Startable, IsInjective
<1>5. \A t \in ToSet(ts) : \E i \in 1 .. Len(ts) : ts[i] = t
  BY SeqFacts DEF Startable
<1>6. QED BY <1>1, <1>2, <1>3, <1>4, <1>5

(* Task i is the first of the start on its accelerator's movers.           *)
FirstMover(ts, i) == \A j \in 1 .. i - 1 : ts[j].comp \notin MoversOf(design.acc[ts[i].comp[1]])

(* The instruction a task of the start puts on its core, if any.           *)
StartOf(k, ts, i) == IF CoreOf(ts[i].comp) = k THEN StartCode(ts, i) ELSE <<>>

(* Instruction x launches task i of the start: a transfer, a unit, or its  *)
(* whole set of movers.                                                    *)
StartIs(k, ts, i, x) ==
  /\ CoreOf(ts[i].comp) = k
  /\ \/ IsDma(ts[i].comp) /\ x = Instr("dma", ts[i])
     \/ IsUnit(ts[i].comp) /\ x = Instr("start", ts[i].comp)
     \/ /\ IsMover(ts[i].comp) /\ ts[i].comp \in MoversOf(design.acc[ts[i].comp[1]])
        /\ x = Instr("streamers", design.acc[ts[i].comp[1]]) /\ FirstMover(ts, i)

(* A task of the start has at most one instruction, and the first of a set *)
(* has one.                                                                *)
LEMMA StartOfIs ==
  ASSUME ListOK, NEW ts, Startable(ts), NEW i \in 1 .. Len(ts), NEW k
  PROVE  /\ IsSeq(StartOf(k, ts, i)) /\ Len(StartOf(k, ts, i)) \in {0, 1}
         /\ Len(StartOf(k, ts, i)) = 1 => StartIs(k, ts, i, StartOf(k, ts, i)[1])
         /\ (CoreOf(ts[i].comp) = k /\ (~IsMover(ts[i].comp) \/ FirstMover(ts, i))) => Len(StartOf(k, ts, i)) = 1
<1> DEFINE c == ts[i].comp
           a == design.acc[c[1]]
           s == StartOf(k, ts, i)
<1>1. c \in Components /\ DesignOK
  BY StartableIs DEF ListOK
<1>2. CASE CoreOf(c) # k
  <2>1. s = <<>>
    BY <1>2 DEF StartOf
  <2>2. QED BY <1>2, <2>1, EmptyIs
<1>3. CASE CoreOf(c) = k /\ IsDma(c)
  <2> DEFINE x == Instr("dma", ts[i])
  <2>1. s = <<x>>
    BY <1>3 DEF StartOf, StartCode
  <2>2. StartIs(k, ts, i, x)
    BY <1>3 DEF StartIs
  <2> HIDE DEF x, s
  <2>3. IsSeq(<<x>>) /\ Len(<<x>>) = 1 /\ <<x>>[1] = x
    BY Single
  <2>4. QED BY <2>1, <2>2, <2>3 DEF s
<1>4. CASE CoreOf(c) = k /\ ~IsDma(c) /\ IsUnit(c)
  <2> DEFINE x == Instr("start", c)
  <2>1. s = <<x>>
    BY <1>4 DEF StartOf, StartCode
  <2>2. StartIs(k, ts, i, x)
    BY <1>4 DEF StartIs
  <2> HIDE DEF x, s
  <2>3. IsSeq(<<x>>) /\ Len(<<x>>) = 1 /\ <<x>>[1] = x
    BY Single
  <2>4. QED BY <2>1, <2>2, <2>3 DEF s
<1>5. CASE CoreOf(c) = k /\ ~IsDma(c) /\ ~IsUnit(c)
  <2>1. IsMover(c) /\ c \in MoversOf(a)
    BY <1>1, <1>5, ComponentIs, InMoversOf
  <2> DEFINE x == Instr("streamers", a)
  <2>2. s = IF \E j \in 1 .. i - 1 : ts[j].comp \in MoversOf(a) THEN <<>> ELSE <<x>>
    BY <1>5 DEF StartOf, StartCode
  <2>3. FirstMover(ts, i) <=> ~\E j \in 1 .. i - 1 : ts[j].comp \in MoversOf(a)
    BY DEF FirstMover
  <2>4. FirstMover(ts, i) => StartIs(k, ts, i, x)
    BY <1>5, <2>1 DEF StartIs
  <2> HIDE DEF x, s, a
  <2>5. IsSeq(<<x>>) /\ Len(<<x>>) = 1 /\ <<x>>[1] = x
    BY Single
  <2>6. IsSeq(<<>>) /\ Len(<<>>) = 0
    BY EmptyIs
  <2>7. CASE FirstMover(ts, i)
    <3>1. s = <<x>>
      BY <2>2, <2>3, <2>7
    <3>2. QED BY <2>4, <2>5, <2>7, <3>1 DEF s
  <2>8. CASE ~FirstMover(ts, i)
    <3>1. s = <<>>
      BY <2>2, <2>3, <2>8
    <3>2. QED BY <2>1, <2>6, <2>8, <3>1 DEF s
  <2>9. QED BY <2>7, <2>8
<1>6. QED BY <1>2, <1>3, <1>4, <1>5

(* It launches tasks of the start only, each by one instruction.           *)
LEMMA StartLaunches ==
  ASSUME ListOK, NEW ts, Startable(ts), NEW k, NEW i \in 1 .. Len(ts), NEW x, StartIs(k, ts, i, x),
         NEW c, Launches(x, c)
  PROVE  /\ x.op \in {"dma", "start", "streamers"}
         /\ \E t \in ToSet(ts) : t.comp = c /\ CoreOf(c) = k /\ (IsDma(c) => x = Instr("dma", t))
         /\ \/ c = ts[i].comp /\ ~IsMover(c)
            \/ IsMover(c) /\ FirstMover(ts, i) /\ design.acc[ts[i].comp[1]] = design.acc[c[1]]
               /\ ts[i].comp \in MoversOf(design.acc[c[1]])
<1> DEFINE d == ts[i].comp
           a == design.acc[d[1]]
<1>1. d \in Components /\ DesignOK /\ ts[i] \in ToSet(ts)
  BY StartableIs DEF ListOK
<1>2. CASE IsDma(d) /\ x = Instr("dma", ts[i])
  <2>1. x.op = "dma"
    BY <1>2 DEF Instr
  <2>2. c = DMA /\ d = DMA
    BY <1>2, <2>1 DEF Launches, IsDma
  <2>3. ~IsMover(c) /\ CoreOf(c) = k
    BY <2>2, DmaIs DEF StartIs
  <2>4. QED BY <1>1, <1>2, <2>1, <2>2, <2>3
<1>3. CASE IsUnit(d) /\ x = Instr("start", d)
  <2>1. x.op = "start" /\ x.arg = d
    BY <1>3 DEF Instr
  <2>2. c = d
    BY <2>1 DEF Launches
  <2>3. ~IsMover(c) /\ ~IsDma(c)
    BY <1>3, <2>2 DEF IsUnit, IsMover, IsDma
  <2>4. CoreOf(c) = k
    BY <2>2 DEF StartIs
  <2>5. QED BY <1>1, <2>1, <2>2, <2>3, <2>4
<1>4. CASE IsMover(d) /\ d \in MoversOf(a) /\ x = Instr("streamers", a) /\ FirstMover(ts, i)
  <2>1. x.op = "streamers" /\ x.arg = a
    BY <1>4 DEF Instr
  <2>2. c \in MoversOf(a)
    BY <2>1 DEF Launches
  <2>3. IsMover(c) /\ ~IsDma(c) /\ design.acc[c[1]] = a /\ ~IsDma(d)
    BY <1>1, <1>4, <2>2, MoversOfIs
  <2>4. CoreOf(c) = k
    BY <2>3 DEF StartIs, CoreOf
  <2>5. \E t \in ToSet(ts) : t.comp = c
    <3> DEFINE have == {t.comp : t \in {y \in ToSet(ts) : IsMover(y.comp)}}
    <3>1. d \in have
      BY <1>1, <1>4
    <3>2. MoversOf(design.acc[d[1]]) \subseteq have
      BY <3>1 DEF Startable, Partial
    <3>3. QED BY <2>2, <3>2
  <2>6. QED BY <1>4, <2>1, <2>3, <2>4, <2>5
<1>5. QED BY <1>2, <1>3, <1>4 DEF StartIs

(* Two tasks of a start are not launched on one component.                 *)
LEMMA StartOnce ==
  ASSUME ListOK, NEW ts, Startable(ts), NEW k, NEW c, NEW i \in 1 .. Len(ts), NEW j \in 1 .. Len(ts),
         NEW x, StartIs(k, ts, i, x), Launches(x, c), NEW y, StartIs(k, ts, j, y), Launches(y, c)
  PROVE  i = j
<1>1. Len(ts) \in Nat
  BY StartableIs
<1>2. /\ \/ c = ts[i].comp /\ ~IsMover(c)
         \/ IsMover(c) /\ FirstMover(ts, i) /\ design.acc[ts[i].comp[1]] = design.acc[c[1]]
            /\ ts[i].comp \in MoversOf(design.acc[c[1]])
      /\ \/ c = ts[j].comp /\ ~IsMover(c)
         \/ IsMover(c) /\ FirstMover(ts, j) /\ design.acc[ts[j].comp[1]] = design.acc[c[1]]
            /\ ts[j].comp \in MoversOf(design.acc[c[1]])
  BY StartLaunches
<1>3. CASE ~IsMover(c)
  BY <1>2, <1>3, StartableIs
<1>4. CASE IsMover(c)
  <2>1. ~(i < j) /\ ~(j < i)
    BY <1>1, <1>2, <1>4 DEF FirstMover
  <2>2. QED BY <1>1, <2>1
<1>5. QED BY <1>3, <1>4

(* The first of a set's movers in the start.                               *)
LEMMA FirstExists ==
  ASSUME ListOK, NEW ts, Startable(ts), NEW i \in 1 .. Len(ts), IsMover(ts[i].comp)
  PROVE  \E j \in 1 .. Len(ts) : /\ FirstMover(ts, j) /\ IsMover(ts[j].comp)
                                 /\ design.acc[ts[j].comp[1]] = design.acc[ts[i].comp[1]]
<1> DEFINE a == design.acc[ts[i].comp[1]]
           J == {j \in 1 .. Len(ts) : ts[j].comp \in MoversOf(a)}
<1>1. Len(ts) \in Nat /\ ts[i].comp \in Components /\ DesignOK
  BY StartableIs DEF ListOK
<1>2. ~IsDma(ts[i].comp) /\ ~IsUnit(ts[i].comp)
  <2>1. Len(ts[i].comp) = 3
    BY DEF IsMover
  <2>2. QED BY <2>1, DmaIs DEF IsDma, IsUnit
<1>3. ts[i].comp \in MoversOf(a)
  BY <1>1, <1>2, ComponentIs, InMoversOf
<1> HIDE DEF a
<1>4. PICK j \in J : \A q \in J : j <= q
  <2>1. J \subseteq Nat /\ J # {}
    BY <1>3
  <2> HIDE DEF J
  <2>2. QED BY <2>1, Least
<1>5. IsMover(ts[j].comp) /\ design.acc[ts[j].comp[1]] = a
  BY <1>1, <1>4, MoversOfIs
<1>6. \A q \in 1 .. j - 1 : ts[q].comp \notin MoversOf(a)
  BY <1>1, <1>4
<1>7. QED BY <1>4, <1>5, <1>6 DEF FirstMover, a

(* What a start puts on core k: each of its tasks there launched by one    *)
(* instruction, nothing else.                                              *)
Launching(k, ts, S) ==
  /\ IsSeq(S)
  /\ \A p \in 1 .. Len(S) : S[p].op \in {"dma", "start", "streamers"} /\ (S[p].op = "start" => IsUnit(S[p].arg))
  /\ \A p \in 1 .. Len(S) : \A c : Launches(S[p], c) =>
       \E t \in ToSet(ts) : t.comp = c /\ CoreOf(c) = k /\ (IsDma(c) => S[p] = Instr("dma", t))
  /\ \A t \in ToSet(ts) : CoreOf(t.comp) = k => \E p \in 1 .. Len(S) : Launches(S[p], t.comp)
  /\ \A c : \A p, q \in 1 .. Len(S) : Launches(S[p], c) /\ Launches(S[q], c) => p = q

(* What the start puts on core k follows L.                                *)
StartAdds(k, ts, L, M) == \E S : Launching(k, ts, S) /\ M = L \o S

(* Emitting a start puts on each core what launches its tasks there.       *)
LEMMA StartAllIs ==
  ASSUME ListOK, NEW ts, Startable(ts), NEW ls, NEW k \in Cores
  PROVE  StartAdds(k, ts, ls[k], StartAll(ls, ts)[k])
<1> DEFINE s == [i \in DOMAIN ts |-> StartOf(k, ts, i)]
           S == FlattenSeq(s)
<1>1. StartAll(ls, ts)[k] = ls[k] \o S
  BY DEF StartAll, StartOf
<1>2. Len(ts) \in Nat /\ DOMAIN ts = 1 .. Len(ts)
  BY StartableIs
<1>3. s = [i \in 1 .. Len(ts) |-> s[i]] /\ \A i \in 1 .. Len(ts) : s[i] = StartOf(k, ts, i)
  BY <1>2
<1> HIDE DEF s
<1>4. IsSeq(s) /\ Len(s) = Len(ts)
  BY <1>2, <1>3, OfLength
<1>5. ASSUME NEW i \in 1 .. Len(ts)
      PROVE  /\ IsSeq(s[i]) /\ Len(s[i]) \in {0, 1}
             /\ \A o \in 1 .. Len(s[i]) : o = 1 /\ StartIs(k, ts, i, s[i][o])
             /\ (CoreOf(ts[i].comp) = k /\ (~IsMover(ts[i].comp) \/ FirstMover(ts, i))) => 1 \in 1 .. Len(s[i])
  <2>1. /\ IsSeq(s[i]) /\ Len(s[i]) \in {0, 1}
        /\ Len(s[i]) = 1 => StartIs(k, ts, i, s[i][1])
        /\ (CoreOf(ts[i].comp) = k /\ (~IsMover(ts[i].comp) \/ FirstMover(ts, i))) => Len(s[i]) = 1
    BY <1>3, StartOfIs
  <2>2. ASSUME NEW o \in 1 .. Len(s[i]) PROVE o = 1 /\ Len(s[i]) = 1
    <3> DEFINE l == Len(s[i])
    <3>1. l = 0 \/ l = 1
      BY <2>1
    <3> HIDE DEF l
    <3>2. o \in 1 .. l
      BY DEF l
    <3>3. o = 1 /\ l = 1
      BY <3>1, <3>2
    <3>4. QED BY <3>3 DEF l
  <2>3. QED BY <2>1, <2>2
<1>6. \A i \in 1 .. Len(s) : IsSeq(s[i])
  BY <1>4, <1>5
<1>7. /\ IsSeq(S)
      /\ \A p \in 1 .. Len(S) : \E i \in 1 .. Len(s) : \E o \in 1 .. Len(s[i]) : S[p] = s[i][o]
      /\ \A i \in 1 .. Len(s) : \A o \in 1 .. Len(s[i]) : \E p \in 1 .. Len(S) : S[p] = s[i][o]
  BY <1>4, <1>6, FlattenIs
<1>8. ASSUME NEW p \in 1 .. Len(S) PROVE \E i \in 1 .. Len(ts) : StartIs(k, ts, i, S[p])
  <2> HIDE DEF S
  <2>1. PICK i \in 1 .. Len(ts) : \E o \in 1 .. Len(s[i]) : S[p] = s[i][o]
    BY <1>4, <1>7
  <2>2. PICK o \in 1 .. Len(s[i]) : S[p] = s[i][o]
    BY <2>1
  <2>3. StartIs(k, ts, i, s[i][o])
    BY <1>5
  <2>4. QED BY <2>2, <2>3
<1>9. ASSUME NEW p \in 1 .. Len(S)
      PROVE  S[p].op \in {"dma", "start", "streamers"} /\ (S[p].op = "start" => IsUnit(S[p].arg))
  <2> HIDE DEF S
  <2>1. PICK i \in 1 .. Len(ts) : StartIs(k, ts, i, S[p])
    BY <1>8
  <2>2. \A y : Instr("dma", y).op = "dma" /\ Instr("start", y).op = "start" /\ Instr("streamers", y).op = "streamers"
    BY DEF Instr
  <2>3. \A y : Instr("start", y).arg = y
    BY DEF Instr
  <2>4. QED BY <2>1, <2>2, <2>3 DEF StartIs
<1>10. ASSUME NEW p \in 1 .. Len(S), NEW c, Launches(S[p], c)
       PROVE  \E t \in ToSet(ts) : t.comp = c /\ CoreOf(c) = k /\ (IsDma(c) => S[p] = Instr("dma", t))
  <2> HIDE DEF S
  <2>1. PICK i \in 1 .. Len(ts) : StartIs(k, ts, i, S[p])
    BY <1>8
  <2>2. QED BY <1>10, <2>1, StartLaunches
<1>11. ASSUME NEW t \in ToSet(ts), CoreOf(t.comp) = k PROVE \E p \in 1 .. Len(S) : Launches(S[p], t.comp)
  <2> HIDE DEF S
  <2>1. PICK i \in 1 .. Len(ts) : ts[i] = t
    BY StartableIs
  <2>2. ASSUME NEW j \in 1 .. Len(ts), CoreOf(ts[j].comp) = k, ~IsMover(ts[j].comp) \/ FirstMover(ts, j)
        PROVE  \E p \in 1 .. Len(S) : StartIs(k, ts, j, S[p])
    <3>1. 1 \in 1 .. Len(s[j]) /\ StartIs(k, ts, j, s[j][1])
      BY <1>5, <2>2
    <3>2. PICK p \in 1 .. Len(S) : S[p] = s[j][1]
      BY <1>4, <1>7, <3>1
    <3>3. QED BY <3>1, <3>2
  <2>3. t.comp \in Components /\ DesignOK
    BY <2>1, StartableIs DEF ListOK
  <2>4. CASE ~IsMover(t.comp)
    <3>1. PICK p \in 1 .. Len(S) : StartIs(k, ts, i, S[p])
      BY <1>11, <2>1, <2>2, <2>4
    <3>2. (IsDma(t.comp) /\ S[p] = Instr("dma", t)) \/ S[p] = Instr("start", t.comp)
      BY <2>1, <2>4, <3>1 DEF StartIs
    <3>3. Launches(S[p], t.comp)
      BY <3>2 DEF Launches, Instr, IsDma
    <3>4. QED BY <3>3
  <2>5. CASE IsMover(t.comp)
    <3>1. PICK j \in 1 .. Len(ts) : /\ FirstMover(ts, j) /\ IsMover(ts[j].comp)
                                    /\ design.acc[ts[j].comp[1]] = design.acc[t.comp[1]]
      BY <2>1, <2>5, FirstExists
    <3>2. \A x : IsMover(x) => ~IsDma(x) /\ ~IsUnit(x)
      <4> SUFFICES ASSUME NEW x, Len(x) = 3 PROVE ~IsDma(x) /\ ~IsUnit(x)
        BY DEF IsMover
      <4>1. ~IsDma(x)
        BY DmaIs DEF IsDma
      <4>2. QED BY <4>1 DEF IsUnit
    <3>3. CoreOf(ts[j].comp) = k
      BY <1>11, <2>5, <3>1, <3>2 DEF CoreOf
    <3>4. PICK p \in 1 .. Len(S) : StartIs(k, ts, j, S[p])
      BY <2>2, <3>1, <3>3
    <3>5. S[p] = Instr("streamers", design.acc[t.comp[1]])
      BY <3>1, <3>2, <3>4 DEF StartIs
    <3>6. t.comp \in MoversOf(design.acc[t.comp[1]])
      BY <2>3, <2>5, <3>2, ComponentIs, InMoversOf
    <3>7. Launches(S[p], t.comp)
      BY <3>5, <3>6 DEF Launches, Instr
    <3>8. QED BY <3>7
  <2>6. QED BY <2>4, <2>5
<1>12. ASSUME NEW c, NEW p \in 1 .. Len(S), NEW q \in 1 .. Len(S), Launches(S[p], c), Launches(S[q], c)
       PROVE  p = q
  <2> DEFINE X == {y \in ToSet(S) : Launches(y, c)}
  <2>1. S[p] \in X /\ S[q] \in X /\ \A y \in X : Launches(y, c)
    BY <1>7, <1>12, SeqFacts
  <2> HIDE DEF X
  <2>2. ASSUME NEW i \in 1 .. Len(s), NEW j \in 1 .. Len(s), NEW o \in 1 .. Len(s[i]), NEW r \in 1 .. Len(s[j]),
               s[i][o] \in X, s[j][r] \in X
        PROVE  i = j /\ o = r
    <3>1. /\ o = 1 /\ StartIs(k, ts, i, s[i][o]) /\ Launches(s[i][o], c)
          /\ r = 1 /\ StartIs(k, ts, j, s[j][r]) /\ Launches(s[j][r], c)
      BY <1>4, <1>5, <2>1, <2>2
    <3>2. i \in 1 .. Len(ts) /\ j \in 1 .. Len(ts)
      BY <1>4
    <3>3. i = j
      BY <3>1, <3>2, StartOnce
    <3>4. QED BY <3>1, <3>3
  <2>3. QED BY <1>4, <1>6, <2>1, <2>2, FlattenOnce
<1>13. Launching(k, ts, S)
  <2>1. IsSeq(S)
    BY <1>7
  <2> HIDE DEF S
  <2>2. QED BY <2>1, <1>9, <1>10, <1>11, <1>12 DEF Launching
<1>14. QED BY <1>1, <1>13 DEF StartAdds

-----------------------------------------------------------------------------
(* The program written so far.                                             *)

(* What holds of the program `ln' written so far, the tasks of `cov'       *)
(* covered and those of `wtd' waited for.                                  *)
LinesAre(ln) ==
  /\ ln = [k \in Cores |-> ln[k]]
  /\ \A k \in Cores : IsSeq(ln[k]) /\ Once(ln[k])
  /\ \A k \in Cores : \A j \in 1 .. Len(ln[k]) : ln[k][j].op = "start" => IsUnit(ln[k][j].arg)
(* A configure is on the slots' core, for a task configured.               *)
ConfigsAre(ln, cf) ==
  \A k \in Cores : \A j \in 1 .. Len(ln[k]) : ln[k][j].op = "config" =>
    k = SlotCore /\ \E t \in DOMAIN cf : ~IsDma(t.comp) /\ ln[k][j] = Instr("config", t)
(* An instruction launches started tasks of its core, and nothing that was *)
(* not started.                                                            *)
LaunchesAre(ln, st) ==
  \A k \in Cores : \A j \in 1 .. Len(ln[k]) : \A c : Launches(ln[k][j], c) =>
    CoreOf(c) = k /\ \E t \in st : t.comp = c /\ Goes(ln[k], j, t)
(* Every started task is launched somewhere.                               *)
GoneAre(ln, st) ==
  \A t \in st : \E j \in 1 .. Len(ln[CoreOf(t.comp)]) : Goes(ln[CoreOf(t.comp)], j, t)
(* The registers of a task not started yet are not written again.          *)
PendingAre(ln, pe) ==
  \A t \in pe : ~IsDma(t.comp) =>
    \E i \in 1 .. Len(ln[SlotCore]) : Wrote(ln[SlotCore], i, Len(ln[SlotCore]) + 1, t)
(* A component is launched again only past its task before.                *)
SpacedAre(ln, st) ==
  \A t \in st : \A j \in 1 .. Len(ln[SlotCore]) : \A q \in 1 .. j - 1 :
    ~IsDma(t.comp) /\ Goes(ln[SlotCore], q, t) /\ Launches(ln[SlotCore][j], t.comp) =>
      t.idle \/ Past(ln[SlotCore], j, t)
(* A task is launched past those its `after' names on its core.            *)
AfterAre(ln, st, cf) ==
  \A k \in Cores : \A j \in 1 .. Len(ln[k]) : \A t \in st : Goes(ln[k], j, t) =>
    \A a \in cf[t] : CoreOf(a.comp) = k => a.idle \/ Past(ln[k], j, a)
(* A covered task is past at the end of its core's function.               *)
CoveredAre(ln, cov) ==
  \A t \in cov : ~IsDma(t.comp) => t.idle \/ Past(ln[SlotCore], Len(ln[SlotCore]) + 1, t)
(* A transfer waited for is past at the end of the DMA core's function.    *)
WaitedAre(ln, wtd) ==
  \A t \in wtd : IsDma(t.comp) => Past(ln[design.dma], Len(ln[design.dma]) + 1, t)

(* ... when the tasks of `cf' are configured and those of `st' started.    *)
ProgramOn(ln, cov, wtd, cf, st) ==
  /\ LinesAre(ln) /\ ConfigsAre(ln, cf) /\ LaunchesAre(ln, st) /\ GoneAre(ln, st)
  /\ PendingAre(ln, DOMAIN cf \ st) /\ SpacedAre(ln, st) /\ AfterAre(ln, st, cf)
  /\ CoveredAre(ln, cov) /\ WaitedAre(ln, wtd)

(* What a wait did not cover is the latest task of its component.          *)
LatestAre(cov) ==
  \A t \in Started : ~IsDma(t.comp) =>
    t.idle \/ t \in cov \/ \A u \in Started : u.comp = t.comp => Place(u) <= Place(t)

(* The program of the list as read so far.                                 *)
ProgramIs(ln, cov, wtd) == ProgramOn(ln, cov, wtd, conf, Started) /\ LatestAre(cov)

(* The core of a component is a core of the cluster.                       *)
LEMMA CoresIs ==
  ASSUME DesignOK
  PROVE  SlotCore \in Cores /\ design.dma \in Cores /\ \A c : CoreOf(c) \in Cores
  BY CoresAssumption DEF DesignOK, CoreOf

(* An instruction is told by its operation and argument.                   *)
LEMMA InstrIs ==
  \A op, x, y : /\ Instr(op, x).op = op /\ Instr(op, x).arg = x
                /\ Instr(op, x) = Instr(op, y) => x = y
<1>1. \A op, x : Instr(op, x).op = op /\ Instr(op, x).arg = x
  BY DEF Instr
<1>2. QED BY <1>1

(* An instruction launches its component's task and no other.              *)
LEMMA GoesSame ==
  ASSUME NEW L, NEW j \in Nat, NEW t, NEW u, t.comp = u.comp, Goes(L, j, t), Goes(L, j, u)
  PROVE  t = u
<1>1. CASE IsDma(t.comp)
  BY <1>1, InstrIs DEF Goes
<1>2. CASE ~IsDma(t.comp)
  <2>1. PICK p \in 1 .. j - 1 : Wrote(L, p, j, t)
    BY <1>2 DEF Goes
  <2>2. PICK q \in 1 .. j - 1 : Wrote(L, q, j, u)
    BY <1>2 DEF Goes
  <2>3. Touches(L[p], t.comp) /\ Touches(L[q], t.comp)
    BY <2>1, <2>2, InstrIs DEF Wrote, Touches, Writes
  <2>4. ~(p < q) /\ ~(q < p)
    BY <2>1, <2>2, <2>3 DEF Wrote
  <2>5. p = q
    BY <2>4
  <2>6. QED BY <2>1, <2>2, <2>5, InstrIs DEF Wrote
<1>3. QED BY <1>1, <1>2

(* What an instruction launches was started, and runs on that core.        *)
LEMMA GoesStarted ==
  ASSUME DesignOK, NEW ln, NEW st, LinesAre(ln), LaunchesAre(ln, st), NEW k \in Cores, NEW j \in 1 .. Len(ln[k]), NEW t, Goes(ln[k], j, t)
  PROVE  t \in st /\ CoreOf(t.comp) = k
<1>1. Launches(ln[k][j], t.comp)
  BY DEF Goes
<1>2. PICK u \in st : u.comp = t.comp /\ Goes(ln[k], j, u)
  BY <1>1 DEF LaunchesAre
<1>3. j \in Nat
  OBVIOUS
<1>4. t = u
  BY <1>2, <1>3, GoesSame
<1>5. QED BY <1>1, <1>2, <1>4 DEF LaunchesAre

(* The operations of an instruction that waits.                            *)
WaitOps == {"status", "busy", "dma_wait", "counter", "barrier"}

(* A wait writes no register and launches nothing.                         *)
LEMMA WaitTouches ==
  ASSUME NEW x, x.op \in WaitOps
  PROVE  /\ x.op \notin {"config", "dma"}
         /\ \A c : ~Launches(x, c) /\ ~Touches(x, c)
<1>1. x.op \notin {"config", "dma", "start", "streamers"}
  BY DEF WaitOps
<1>2. QED BY <1>1 DEF Launches, Touches, Writes

(* The lines grow by waits.                                                *)
Waited(ln, M) ==
  /\ M = [k \in Cores |-> M[k]]
  /\ \A k \in Cores : Prefix(ln[k], M[k]) /\ \A j \in Len(ln[k]) + 1 .. Len(M[k]) : M[k][j].op \in WaitOps

(* Nothing is configured or transferred twice if what is added does        *)
(* neither.                                                                *)
LEMMA OnceKept ==
  ASSUME NEW L, NEW M, Prefix(L, M), Once(L),
         \A j \in Len(L) + 1 .. Len(M) : M[j].op \notin {"config", "dma"}
  PROVE  Once(M)
<1>1. Len(L) \in Nat /\ Len(M) \in Nat /\ \A i \in 1 .. Len(L) : M[i] = L[i]
  BY SeqFacts DEF Prefix
<1>2. ASSUME NEW i \in 1 .. Len(M), NEW t, M[i] = Instr("config", t) \/ M[i] = Instr("dma", t)
      PROVE  i \in 1 .. Len(L)
  <2>1. M[i].op = "config" \/ M[i].op = "dma"
    BY <1>2, InstrIs
  <2>2. ~(i \in Len(L) + 1 .. Len(M))
    BY <2>1
  <2>3. QED BY <1>1, <2>2
<1>3. SUFFICES ASSUME NEW i \in 1 .. Len(M), NEW j \in 1 .. Len(M), NEW t,
                      M[i] = M[j], M[i] = Instr("config", t) \/ M[i] = Instr("dma", t)
               PROVE  i = j
  BY DEF Once
<1>4. i \in 1 .. Len(L) /\ j \in 1 .. Len(L)
  BY <1>2, <1>3
<1>5. L[i] = L[j] /\ (L[i] = Instr("config", t) \/ L[i] = Instr("dma", t))
  BY <1>1, <1>3, <1>4
<1>6. QED BY <1>4, <1>5 DEF Once

(* Adding waits keeps what holds of the program.                           *)
LEMMA WaitKeeps ==
  ASSUME DesignOK, NEW ln, NEW cov, NEW wtd, NEW cf, NEW st, ProgramOn(ln, cov, wtd, cf, st), NEW M, Waited(ln, M),
         NEW cov2, cov \subseteq cov2, NEW wtd2, wtd \subseteq wtd2,
         \A t \in cov2 \ cov : ~IsDma(t.comp) => t.idle \/ Past(M[SlotCore], Len(M[SlotCore]) + 1, t),
         \A t \in wtd2 \ wtd : IsDma(t.comp) => Past(M[design.dma], Len(M[design.dma]) + 1, t)
  PROVE  ProgramOn(M, cov2, wtd2, cf, st)
<1>0. /\ SlotCore \in Cores /\ design.dma \in Cores /\ DesignOK
      /\ \A c : CoreOf(c) \in Cores
  BY CoresIs 
<1>1. \A k \in Cores : /\ Prefix(ln[k], M[k]) /\ Len(ln[k]) \in Nat /\ Len(M[k]) \in Nat /\ Len(ln[k]) <= Len(M[k])
                       /\ \A i \in 1 .. Len(ln[k]) : M[k][i] = ln[k][i]
  BY SeqFacts DEF Waited, Prefix
<1>2. ASSUME NEW k \in Cores, NEW j \in 1 .. Len(M[k]), j \notin 1 .. Len(ln[k])
      PROVE  M[k][j].op \notin {"config", "dma"} /\ \A c : ~Launches(M[k][j], c) /\ ~Touches(M[k][j], c)
  <2>1. j \in Len(ln[k]) + 1 .. Len(M[k])
    BY <1>1, <1>2
  <2>2. M[k][j].op \in WaitOps
    BY <2>1 DEF Waited
  <2>3. QED BY <2>2, WaitTouches
<1>3. LinesAre(M)
  <2>1. \A k \in Cores : IsSeq(M[k])
    BY <1>1 DEF Prefix
  <2>2. ASSUME NEW k \in Cores PROVE Once(M[k])
    <3>1. \A j \in Len(ln[k]) + 1 .. Len(M[k]) : M[k][j].op \notin {"config", "dma"}
      BY WaitTouches DEF Waited
    <3>2. QED BY <1>1, <3>1, OnceKept DEF ProgramOn, LinesAre
  <2>3. ASSUME NEW k \in Cores, NEW j \in 1 .. Len(M[k]), M[k][j].op = "start" PROVE IsUnit(M[k][j].arg)
    <3>1. j \in 1 .. Len(ln[k])
      <4>1. CASE j \notin 1 .. Len(ln[k])
        <5>1. j \in Len(ln[k]) + 1 .. Len(M[k])
          BY <1>1, <4>1
        <5>2. QED BY <2>3, <5>1 DEF Waited, WaitOps
      <4>2. QED BY <4>1
    <3>2. M[k][j] = ln[k][j]
      BY <1>1, <3>1
    <3>3. QED BY <2>3, <3>1, <3>2 DEF ProgramOn, LinesAre
  <2>4. QED BY <2>1, <2>2, <2>3 DEF LinesAre, Waited
<1>4. ConfigsAre(M, cf)
  <2> SUFFICES ASSUME NEW k \in Cores, NEW j \in 1 .. Len(M[k]), M[k][j].op = "config"
               PROVE  k = SlotCore /\ \E t \in DOMAIN cf : ~IsDma(t.comp) /\ M[k][j] = Instr("config", t)
    BY DEF ConfigsAre
  <2>1. j \in 1 .. Len(ln[k])
    BY <1>2
  <2>2. QED BY <1>1, <2>1 DEF ProgramOn, ConfigsAre
<1>5. LaunchesAre(M, st)
  <2> SUFFICES ASSUME NEW k \in Cores, NEW j \in 1 .. Len(M[k]), NEW c, Launches(M[k][j], c)
               PROVE  CoreOf(c) = k /\ \E t \in st : t.comp = c /\ Goes(M[k], j, t)
    BY DEF LaunchesAre
  <2>1. j \in 1 .. Len(ln[k]) /\ Launches(ln[k][j], c)
    BY <1>1, <1>2
  <2>2. CoreOf(c) = k /\ \E t \in st : t.comp = c /\ Goes(ln[k], j, t)
    BY <2>1 DEF ProgramOn, LaunchesAre
  <2>3. QED BY <1>1, <2>1, <2>2, GoesKept
<1>6. GoneAre(M, st)
  <2> SUFFICES ASSUME NEW t \in st
               PROVE  \E j \in 1 .. Len(M[CoreOf(t.comp)]) : Goes(M[CoreOf(t.comp)], j, t)
    BY DEF GoneAre
  <2> DEFINE k == CoreOf(t.comp)
  <2>1. k \in Cores
    BY <1>0
  <2>2. PICK j \in 1 .. Len(ln[k]) : Goes(ln[k], j, t)
    BY DEF ProgramOn, GoneAre
  <2> HIDE DEF k
  <2>3. j \in 1 .. Len(M[k]) /\ Goes(M[k], j, t)
    BY <1>1, <2>1, <2>2, GoesKept
  <2>4. QED BY <2>3 DEF k
<1> DEFINE L == ln[SlotCore]
           N == M[SlotCore]
<1>7. /\ Prefix(L, N) /\ Len(L) \in Nat /\ Len(N) \in Nat /\ Len(L) <= Len(N)
      /\ \A i \in 1 .. Len(L) : N[i] = L[i]
      /\ \A j \in Len(L) + 1 .. Len(N) : \A c : ~Launches(N[j], c) /\ ~Touches(N[j], c)
  <2>1. \A j \in Len(L) + 1 .. Len(N) : \A c : ~Launches(N[j], c) /\ ~Touches(N[j], c)
    BY <1>0, WaitTouches DEF Waited
  <2>2. QED BY <1>0, <1>1, <2>1
<1>8. PendingAre(M, DOMAIN cf \ st)
  <2> SUFFICES ASSUME NEW t \in DOMAIN cf \ st, ~IsDma(t.comp) PROVE \E i \in 1 .. Len(N) : Wrote(N, i, Len(N) + 1, t)
    BY DEF PendingAre
  <2>1. PICK i \in 1 .. Len(L) : Wrote(L, i, Len(L) + 1, t)
    BY DEF ProgramOn, PendingAre
  <2> HIDE DEF L, N
  <2>2. i \in 1 .. Len(N) /\ N[i] = Instr("config", t)
    BY <1>7, <2>1 DEF Wrote
  <2>3. ASSUME NEW q \in i + 1 .. (Len(N) + 1) - 1 PROVE ~Touches(N[q], t.comp)
    <3>1. CASE q <= Len(L)
      BY <1>7, <2>1, <3>1 DEF Wrote
    <3>2. CASE ~(q <= Len(L))
      BY <1>7, <3>2
    <3>3. QED BY <3>1, <3>2
  <2>4. Wrote(N, i, Len(N) + 1, t)
    BY <2>2, <2>3 DEF Wrote
  <2>5. QED BY <2>2, <2>4
<1>9. SpacedAre(M, st)
  <2> SUFFICES ASSUME NEW t \in st, NEW j \in 1 .. Len(N), NEW q \in 1 .. j - 1,
                      ~IsDma(t.comp), Goes(N, q, t), Launches(N[j], t.comp)
               PROVE  t.idle \/ Past(N, j, t)
    BY DEF SpacedAre
  <2>0. SpacedAre(ln, st)
    BY DEF ProgramOn
  <2>1. \A y \in 1 .. Len(L) : \A z \in 1 .. y - 1 :
          Goes(L, z, t) /\ Launches(L[y], t.comp) => t.idle \/ Past(L, y, t)
    BY <2>0 DEF SpacedAre
  <2> HIDE DEF L, N
  <2>2. j \in 1 .. Len(L)
    BY <1>7
  <2>3. q \in 1 .. Len(L)
    BY <1>7, <2>2
  <2>4. Goes(L, q, t)
    BY <1>7, <2>3, GoesKept
  <2>5. t.idle \/ Past(L, j, t)
    BY <1>7, <2>1, <2>2, <2>4
  <2>6. QED BY <1>7, <2>2, <2>5, PastKept
<1>10. AfterAre(M, st, cf)
  <2> SUFFICES ASSUME NEW k \in Cores, NEW j \in 1 .. Len(M[k]), NEW t \in st, Goes(M[k], j, t),
                      NEW a \in cf[t], CoreOf(a.comp) = k
               PROVE  a.idle \/ Past(M[k], j, a)
    BY DEF AfterAre
  <2>1. j \in 1 .. Len(ln[k])
    BY <1>2 DEF Goes
  <2>2. Goes(ln[k], j, t)
    BY <1>1, <2>1, GoesKept
  <2>3. a.idle \/ Past(ln[k], j, a)
    BY <2>1, <2>2 DEF ProgramOn, AfterAre
  <2>4. j \in 1 .. Len(ln[k]) + 1
    BY <1>1, <2>1
  <2>5. QED BY <1>1, <2>3, <2>4, PastKept
<1>11. ASSUME NEW k \in Cores, NEW t, Past(ln[k], Len(ln[k]) + 1, t) PROVE Past(M[k], Len(M[k]) + 1, t)
  <2>1. Len(ln[k]) + 1 \in 1 .. Len(ln[k]) + 1 /\ Len(ln[k]) + 1 \in Nat /\ Len(M[k]) + 1 \in Nat
        /\ Len(ln[k]) + 1 <= Len(M[k]) + 1
    BY <1>1
  <2>2. Past(M[k], Len(ln[k]) + 1, t)
    BY <1>1, <1>11, <2>1, PastKept
  <2>3. QED BY <2>1, <2>2, PastOn
<1>12. CoveredAre(M, cov2)
  <2>1. CoveredAre(ln, cov)
    BY DEF ProgramOn
  <2>2. QED BY <1>0, <1>11, <2>1 DEF CoveredAre
<1>13. WaitedAre(M, wtd2)
  <2>1. WaitedAre(ln, wtd)
    BY DEF ProgramOn
  <2>2. QED BY <1>0, <1>11, <2>1 DEF WaitedAre
<1>15. QED BY <1>3, <1>4, <1>5, <1>6, <1>8, <1>9, <1>10, <1>12, <1>13 DEF ProgramOn

-----------------------------------------------------------------------------
(* A start finds what it needs over.                                       *)

(* After the waits on cs, all they cover is past.                          *)
LEMMA AfterWaits ==
  ASSUME ListOK, ProgramIs(lines, covered, waited),
         NEW cs, IsSeq(cs), \A i \in 1 .. Len(cs) : cs[i] \in Components, NEW consumers,
         NEW cov, covered \subseteq cov,
         \A t \in cov \ covered : t \in Started /\ (~IsDma(t.comp) => \E i \in 1 .. Len(cs) : t.comp \in Covers(cs[i]))
  PROVE  LET P == WaitAll(cs, consumers)
         IN /\ Waited(lines, P.lines) /\ ProgramIs(P.lines, cov, P.waited)
            /\ \A i \in 1 .. Len(cs) : \A t \in Started : t.comp \in Covers(cs[i]) =>
                 Past(P.lines[CoreOf(t.comp)], Len(P.lines[CoreOf(t.comp)]) + 1, t)
            /\ DOMAIN P.lines = Cores /\ P.waited = waited \cup OnOf(cs)
<1> DEFINE P == WaitAll(cs, consumers)
           M == P.lines
<1>0. /\ SlotCore \in Cores /\ design.dma \in Cores /\ DesignOK
      /\ \A c : CoreOf(c) \in Cores
  BY CoresIs DEF ListOK
<1>1. /\ P.waited = waited \cup OnOf(cs)
      /\ \A k \in Cores : \E W :
           /\ Waiting(W) /\ M[k] = lines[k] \o W
           /\ \A i \in 1 .. Len(cs) : CoreOf(cs[i]) = k =>
                \A x \in Covers(cs[i]) : \E p \in 1 .. Len(W) : Polls(W[p], x)
      /\ DOMAIN M = Cores /\ M = [k \in Cores |-> M[k]]
  <2>1. M = [k \in Cores |-> M[k]]
    BY DEF WaitAll
  <2>2. /\ P.waited = waited \cup OnOf(cs)
        /\ \A k \in Cores : \E W :
             /\ Waiting(W) /\ P.lines[k] = lines[k] \o W
             /\ \A i \in 1 .. Len(cs) : CoreOf(cs[i]) = k =>
                  \A x \in Covers(cs[i]) : \E p \in 1 .. Len(W) : Polls(W[p], x)
        /\ DOMAIN P.lines = Cores
    BY WaitAllIs
  <2> HIDE DEF P
  <2>3. QED BY <2>1, <2>2
<1> HIDE DEF P
<1>2. ASSUME NEW k \in Cores
      PROVE  /\ Prefix(lines[k], M[k]) /\ \A j \in Len(lines[k]) + 1 .. Len(M[k]) : M[k][j].op \in WaitOps
             /\ \A i \in 1 .. Len(cs) : CoreOf(cs[i]) = k => \A x \in Covers(cs[i]) :
                  \E p \in Len(lines[k]) + 1 .. Len(M[k]) : Polls(M[k][p], x)
  <2>1. PICK W : /\ Waiting(W) /\ M[k] = lines[k] \o W
                 /\ \A i \in 1 .. Len(cs) : CoreOf(cs[i]) = k =>
                      \A x \in Covers(cs[i]) : \E p \in 1 .. Len(W) : Polls(W[p], x)
    BY <1>1
  <2>2. IsSeq(lines[k]) /\ IsSeq(W)
    BY <2>1 DEF ProgramIs, ProgramOn, LinesAre, Waiting
  <2>3. Prefix(lines[k], M[k])
    BY <2>1, <2>2, PrefixConcat
  <2>4. /\ Len(M[k]) = Len(lines[k]) + Len(W) /\ Len(lines[k]) \in Nat /\ Len(W) \in Nat
        /\ \A i \in 1 .. Len(W) : M[k][Len(lines[k]) + i] = W[i]
    BY <2>1, <2>2, Concat, SeqFacts
  <2>5. ASSUME NEW j \in Len(lines[k]) + 1 .. Len(M[k]) PROVE M[k][j].op \in WaitOps
    <3>1. j - Len(lines[k]) \in 1 .. Len(W) /\ j = Len(lines[k]) + (j - Len(lines[k]))
      BY <2>4
    <3>2. M[k][j] = W[j - Len(lines[k])]
      BY <2>4, <3>1
    <3>3. QED BY <2>1, <3>1, <3>2 DEF Waiting, WaitOps
  <2>6. ASSUME NEW i \in 1 .. Len(cs), CoreOf(cs[i]) = k, NEW x \in Covers(cs[i])
        PROVE  \E p \in Len(lines[k]) + 1 .. Len(M[k]) : Polls(M[k][p], x)
    <3>1. PICK p \in 1 .. Len(W) : Polls(W[p], x)
      BY <2>1, <2>6
    <3>2. Len(lines[k]) + p \in Len(lines[k]) + 1 .. Len(M[k]) /\ M[k][Len(lines[k]) + p] = W[p]
      <4> HIDE DEF M
      <4>1. M[k][Len(lines[k]) + p] = W[p]
        BY <2>4
      <4>2. p \in Nat /\ 1 <= p /\ p <= Len(W)
        BY <2>4
      <4>3. QED BY <2>4, <4>1, <4>2
    <3>3. QED BY <3>1, <3>2
  <2>7. QED BY <2>3, <2>5, <2>6
<1> HIDE DEF M
<1>3. Waited(lines, M)
  BY <1>1, <1>2 DEF Waited, M
<1>4. ASSUME NEW i \in 1 .. Len(cs), NEW t \in Started, t.comp \in Covers(cs[i])
      PROVE  Past(M[CoreOf(t.comp)], Len(M[CoreOf(t.comp)]) + 1, t)
  <2> DEFINE k == CoreOf(t.comp)
             L == lines[k]
             N == M[k]
  <2>1. k \in Cores /\ CoreOf(cs[i]) = k
    BY <1>0, <1>4, PollIs
  <2>2. PICK q \in 1 .. Len(L) : Goes(L, q, t)
    BY DEF ProgramIs, ProgramOn, GoneAre
  <2>3. PICK p \in Len(L) + 1 .. Len(N) : Polls(N[p], t.comp)
    BY <1>2, <1>4, <2>1
  <2>4. Prefix(L, N) /\ Len(L) \in Nat /\ Len(N) \in Nat
    BY <1>2, <2>1, SeqFacts DEF Prefix
  <2> HIDE DEF L, N
  <2>5. Len(N) + 1 \in p + 1 .. Len(N) + 1
    BY <2>4
  <2>6. Past(N, Len(N) + 1, t)
    BY <2>2, <2>3, <2>4, <2>5, PastNext
  <2>7. QED BY <2>6 DEF N
<1>5. ASSUME NEW t \in cov \ covered, ~IsDma(t.comp) PROVE t.idle \/ Past(M[SlotCore], Len(M[SlotCore]) + 1, t)
  <2>1. CoreOf(t.comp) = SlotCore
    BY <1>5 DEF CoreOf
  <2>2. QED BY <1>4, <1>5, <2>1
<1>6. ASSUME NEW t \in P.waited \ waited, IsDma(t.comp) PROVE Past(M[design.dma], Len(M[design.dma]) + 1, t)
  <2>1. t \in Started /\ \E i \in 1 .. Len(cs) : t.comp \in Covers(cs[i])
    BY <1>1, <1>6 DEF OnOf, On
  <2>2. CoreOf(t.comp) = design.dma
    BY <1>6 DEF CoreOf
  <2>3. QED BY <1>4, <2>1, <2>2
<1>7. waited \subseteq P.waited
  BY <1>1
<1>8. ProgramIs(M, cov, P.waited)
  <2>1. ProgramOn(M, cov, P.waited, conf, Started)
    BY <1>0, <1>3, <1>5, <1>6, <1>7, WaitKeeps DEF ProgramIs
  <2>2. LatestAre(cov)
    BY DEF ProgramIs, LatestAre
  <2>3. QED BY <2>1, <2>2 DEF ProgramIs
<1>9. QED BY <1>1, <1>3, <1>4, <1>8 DEF M, P

(* What a start leaves covered.                                            *)
CoveredBy(ts) == covered \cup On(UNION {Covers(c) : c \in Chosen(ts)})
(* The waits before a start, as placed.                                    *)
Waits(ts) == WaitAll(WaitsOf(ts), {CoreOf(t.comp) : t \in ToSet(ts)})

(* The waits before a start are on components of the design, all those     *)
(* chosen among them, and the DMA engine when an `after' needs it.         *)
LEMMA WaitsOfIs ==
  ASSUME ListOK, NEW ts, \A t \in ToSet(ts) : conf[t] \subseteq Started
  PROVE  /\ IsSeq(WaitsOf(ts)) /\ \A i \in 1 .. Len(WaitsOf(ts)) : WaitsOf(ts)[i] \in Components
         /\ \A c \in Chosen(ts) : c # DMA => \E i \in 1 .. Len(WaitsOf(ts)) : WaitsOf(ts)[i] = c
         /\ (\E t \in ToSet(ts) : \E a \in conf[t] : IsDma(a.comp) /\ a \notin waited) =>
              \E i \in 1 .. Len(WaitsOf(ts)) : WaitsOf(ts)[i] = DMA
<1> DEFINE pending == \E t \in ToSet(ts) : \E a \in conf[t] : IsDma(a.comp) /\ a \notin waited
           C == (Chosen(ts) \ {DMA}) \cup (IF pending THEN {DMA} ELSE {})
<1>1. Chosen(ts) \subseteq Used
  BY ChosenIs, NeedUsed
<1>2. pending => DMA \in Used
  <2>1. \A a \in Started : IsDma(a.comp) => DMA \in Used
    BY UsedIf DEF IsDma
  <2>2. QED BY <2>1
<1>3. C \subseteq Used
  BY <1>1, <1>2
<1>4. WaitsOf(ts) = InStart(C)
  BY DEF WaitsOf
<1>5. \A c \in Chosen(ts) : c # DMA => c \in C
  OBVIOUS
<1>6. pending => DMA \in C
  OBVIOUS
<1>7. \A c \in C : c \in Components
  BY <1>3 DEF Used
<1> HIDE DEF C
<1>8. /\ IsSeq(InStart(C))
      /\ \A i \in 1 .. Len(InStart(C)) : InStart(C)[i] \in C
      /\ \A c \in C : \E i \in 1 .. Len(InStart(C)) : InStart(C)[i] = c
  BY <1>3, InStartIs
<1>9. QED BY <1>4, <1>5, <1>6, <1>7, <1>8

(* The waits of a start leave nothing it needs open.                       *)
LEMMA StartReady ==
  ASSUME ListOK, ProgramIs(lines, covered, waited), NEW ts,
         \A t \in ToSet(ts) : conf[t] \subseteq Started
  PROVE  /\ Waited(lines, Waits(ts).lines) /\ ProgramIs(Waits(ts).lines, CoveredBy(ts), Waits(ts).waited)
         /\ DOMAIN Waits(ts).lines = Cores /\ Waits(ts).waited = waited \cup OnOf(WaitsOf(ts))
         /\ \A t \in ToSet(ts) : \A u \in Started : u.comp = t.comp /\ ~IsDma(u.comp) => u.idle \/ u \in CoveredBy(ts)
         /\ \A t \in ToSet(ts) : \A a \in conf[t] : a.idle \/
              Past(Waits(ts).lines[CoreOf(a.comp)], Len(Waits(ts).lines[CoreOf(a.comp)]) + 1, a)
<1> DEFINE cs == WaitsOf(ts)
           cov == CoveredBy(ts)
           M == Waits(ts).lines
<1>0. DesignOK
  BY DEF ListOK
<1>1. /\ IsSeq(cs) /\ \A i \in 1 .. Len(cs) : cs[i] \in Components
      /\ \A c \in Chosen(ts) : c # DMA => \E i \in 1 .. Len(cs) : cs[i] = c
      /\ (\E t \in ToSet(ts) : \E a \in conf[t] : IsDma(a.comp) /\ a \notin waited) => \E i \in 1 .. Len(cs) : cs[i] = DMA
  BY WaitsOfIs
<1>2. Covers(DMA) = {DMA}
  BY <1>0, DmaIs, CoversIs DEF Reach
<1>3. \A c \in Chosen(ts) : \A x \in Covers(c) : ~IsDma(x) => \E i \in 1 .. Len(cs) : x \in Covers(cs[i])
  <2> SUFFICES ASSUME NEW c \in Chosen(ts), NEW x \in Covers(c), ~IsDma(x)
               PROVE  \E i \in 1 .. Len(cs) : x \in Covers(cs[i])
    OBVIOUS
  <2>1. c # DMA
    BY <1>2 DEF IsDma
  <2>2. QED BY <1>1, <2>1
<1>4. covered \subseteq cov /\ \A t \in cov \ covered : t \in Started /\ \E c \in Chosen(ts) : t.comp \in Covers(c)
  BY DEF CoveredBy, On
<1>5. \A t \in cov \ covered : t \in Started /\ (~IsDma(t.comp) => \E i \in 1 .. Len(cs) : t.comp \in Covers(cs[i]))
  BY <1>3, <1>4
<1>6. \A t \in Started : (\E c \in Chosen(ts) : t.comp \in Covers(c)) => t \in cov
  BY DEF CoveredBy, On
<1> HIDE DEF cs, cov
<1>7. /\ Waited(lines, M) /\ ProgramIs(M, cov, Waits(ts).waited)
      /\ \A i \in 1 .. Len(cs) : \A t \in Started : t.comp \in Covers(cs[i]) =>
           Past(M[CoreOf(t.comp)], Len(M[CoreOf(t.comp)]) + 1, t)
      /\ DOMAIN M = Cores /\ Waits(ts).waited = waited \cup OnOf(cs)
  <2> DEFINE consumers == {CoreOf(t.comp) : t \in ToSet(ts)}
  <2>1. Waits(ts) = WaitAll(cs, consumers)
    BY DEF Waits, cs
  <2> HIDE DEF consumers
  <2>2. LET P == WaitAll(cs, consumers)
        IN /\ Waited(lines, P.lines) /\ ProgramIs(P.lines, cov, P.waited)
           /\ \A i \in 1 .. Len(cs) : \A t \in Started : t.comp \in Covers(cs[i]) =>
                Past(P.lines[CoreOf(t.comp)], Len(P.lines[CoreOf(t.comp)]) + 1, t)
           /\ DOMAIN P.lines = Cores /\ P.waited = waited \cup OnOf(cs)
    BY <1>1, <1>4, <1>5, AfterWaits
  <2>3. QED BY <2>1, <2>2
<1> HIDE DEF M
<1>8. \A u \in Started : ~IsDma(u.comp) => IsCovered(u) \/ u = Latest(u.comp)
  <2> SUFFICES ASSUME NEW u \in Started, ~IsDma(u.comp), ~IsCovered(u) PROVE u = Latest(u.comp)
    OBVIOUS
  <2>1. \A v \in Started : v.comp = u.comp => Place(v) <= Place(u)
    BY DEF ProgramIs, LatestAre, IsCovered
  <2>2. /\ u.comp \in Used /\ Latest(u.comp) \in Started /\ Latest(u.comp).comp = u.comp
        /\ Place(u) <= Place(Latest(u.comp))
    BY UsedIf, LatestIs
  <2>3. Place(u) = Place(Latest(u.comp))
    BY <2>1, <2>2, PlaceIs
  <2>4. QED BY <2>2, <2>3, PlaceOnce
<1>9. \A c \in Need(ts) : ~IsCovered(Latest(c)) => \E e \in Chosen(ts) : c \in Covers(e)
  BY ChosenIs
<1>10. ASSUME NEW t \in ToSet(ts), NEW u \in Started, u.comp = t.comp, ~IsDma(u.comp), ~u.idle PROVE u \in cov
  <2>1. CASE IsCovered(u)
    BY <1>4, <1>10, <2>1 DEF IsCovered
  <2>2. CASE ~IsCovered(u)
    <3>1. u = Latest(u.comp) /\ u.comp \in Used
      BY <1>8, <1>10, <2>2, UsedIf
    <3>2. u.comp \in Need(ts)
      BY <1>10, <2>2, <3>1 DEF Need
    <3>3. QED BY <1>6, <1>9, <2>2, <3>1, <3>2
  <2>3. QED BY <2>1, <2>2
<1>11. ASSUME NEW t \in ToSet(ts), NEW a \in conf[t], ~a.idle
       PROVE  Past(M[CoreOf(a.comp)], Len(M[CoreOf(a.comp)]) + 1, a)
  <2>0. a \in Started
    OBVIOUS
  <2>1. CASE IsDma(a.comp)
    <3>1. CASE a \in waited
      <4>1. a \in Waits(ts).waited
        BY <1>7, <3>1
      <4>2. CoreOf(a.comp) = design.dma
        BY <2>1 DEF CoreOf
      <4>3. QED BY <1>7, <2>1, <4>1, <4>2 DEF ProgramIs, ProgramOn, WaitedAre
    <3>2. CASE a \notin waited
      <4>1. PICK i \in 1 .. Len(cs) : cs[i] = DMA
        BY <1>1, <2>1, <3>2
      <4>2. a.comp \in Covers(cs[i])
        BY <1>2, <2>1, <4>1 DEF IsDma
      <4>3. QED BY <1>7, <2>0, <4>2
    <3>3. QED BY <3>1, <3>2
  <2>2. CASE ~IsDma(a.comp) /\ IsCovered(a)
    <3>1. a \in cov
      BY <1>4, <1>11, <2>2 DEF IsCovered
    <3>2. CoreOf(a.comp) = SlotCore
      BY <2>2 DEF CoreOf
    <3>3. QED BY <1>7, <1>11, <2>2, <3>1, <3>2 DEF ProgramIs, ProgramOn, CoveredAre
  <2>3. CASE ~IsDma(a.comp) /\ ~IsCovered(a)
    <3>1. a = Latest(a.comp) /\ a.comp \in Need(ts)
      BY <1>8, <2>0, <2>3 DEF Need
    <3>2. PICK e \in Chosen(ts) : a.comp \in Covers(e)
      BY <1>9, <2>3, <3>1
    <3>3. PICK i \in 1 .. Len(cs) : a.comp \in Covers(cs[i])
      BY <1>3, <2>3, <3>2
    <3>4. QED BY <1>7, <2>0, <3>3
  <2>4. QED BY <2>1, <2>2, <2>3
<1>12. QED BY <1>7, <1>10, <1>11 DEF cs, cov, M

-----------------------------------------------------------------------------
(* What stays while the design point stays.                                *)

(* The design point stays: what is said of instructions stays.             *)
LEMMA SameMovers ==
  ASSUME design' = design
  PROVE  /\ \A a : MoversOf(a)' = MoversOf(a)
         /\ \A c : CoreOf(c)' = CoreOf(c)
         /\ Components' = Components
<1>1. DUnits' = DUnits
  BY DEF DUnits
<1>2. \A u : Movers(u)' = Movers(u)
  BY DEF Movers, Readers, Writers
<1>3. \A a : UnitsOf(a)' = UnitsOf(a)
  BY <1>1 DEF UnitsOf
<1>4. \A a : MoversOf(a)' = MoversOf(a)
  BY <1>2, <1>3 DEF MoversOf
<1>5. \A c : CoreOf(c)' = CoreOf(c)
  BY DEF CoreOf, IsDma, DMA
<1>6. Components' = Components
  BY <1>1, <1>2 DEF Components, DMA, Unit
<1>7. QED BY <1>4, <1>5, <1>6

(* So do what an instruction launches, polls and writes ...                *)
LEMMA SameInstr ==
  ASSUME design' = design
  PROVE  \A x, c : /\ Launches(x, c)' <=> Launches(x, c)
                   /\ Polls(x, c)' <=> Polls(x, c)
                   /\ Touches(x, c)' <=> Touches(x, c)
<1>1. \A x, c : Launches(x, c)' <=> Launches(x, c)
  BY SameMovers DEF Launches, DMA
<1>2. \A x, c : Polls(x, c)' <=> Polls(x, c)
  BY SameMovers DEF Polls, DMA
<1>3. \A x, c : Writes(x, c)' <=> Writes(x, c)
  BY DEF Writes
<1>4. \A x, c : Touches(x, c)' <=> Touches(x, c)
  BY <1>1, <1>3 DEF Touches
<1>5. QED BY <1>1, <1>2, <1>4

(* ... which task it launches, and what is past ...                        *)
LEMMA SameGoes ==
  ASSUME design' = design
  PROVE  /\ \A L, i, j, t : Wrote(L, i, j, t)' <=> Wrote(L, i, j, t)
         /\ \A L, j, t : Goes(L, j, t)' <=> Goes(L, j, t)
         /\ \A L, j, t : Past(L, j, t)' <=> Past(L, j, t)
<1>1. \A L, i, j, t : Wrote(L, i, j, t)' <=> Wrote(L, i, j, t)
  BY SameInstr DEF Wrote, Instr
<1>2. \A L, j, t : Goes(L, j, t)' <=> Goes(L, j, t)
  BY <1>1, SameInstr DEF Goes, Instr, IsDma, DMA
<1>3. \A L, j, t : Past(L, j, t)' <=> Past(L, j, t)
  BY <1>2, SameInstr DEF Past
<1>4. QED BY <1>1, <1>2, <1>3

(* ... and all that is said of the program.                                *)
LEMMA SameProgram ==
  ASSUME design' = design
  PROVE  \A ln, cov, wtd, cf, st : ProgramOn(ln, cov, wtd, cf, st)' <=> ProgramOn(ln, cov, wtd, cf, st)
<1>1. \A ln : LinesAre(ln)' <=> LinesAre(ln)
  BY DEF LinesAre, Once, Instr, IsSeq, IsUnit, DMA
<1>2. \A ln, cf : ConfigsAre(ln, cf)' <=> ConfigsAre(ln, cf)
  BY DEF ConfigsAre, IsDma, DMA, Instr
<1>3. \A ln, st : LaunchesAre(ln, st)' <=> LaunchesAre(ln, st)
  <2>1. \A c : CoreOf(c)' = CoreOf(c)
    BY SameMovers
  <2>2. \A L, j, t : Goes(L, j, t)' <=> Goes(L, j, t)
    BY SameGoes
  <2>3. \A x, c : Launches(x, c)' <=> Launches(x, c)
    BY SameInstr
  <2>4. ASSUME NEW ln, NEW st, LaunchesAre(ln, st) PROVE LaunchesAre(ln, st)'
    BY <2>1, <2>2, <2>3, <2>4 DEF LaunchesAre
  <2>5. ASSUME NEW ln, NEW st, LaunchesAre(ln, st)' PROVE LaunchesAre(ln, st)
    BY <2>1, <2>2, <2>3, <2>5 DEF LaunchesAre
  <2>6. QED BY <2>4, <2>5
<1>4. \A ln, st : GoneAre(ln, st)' <=> GoneAre(ln, st)
  BY SameGoes, SameMovers DEF GoneAre
<1>5. \A ln, pe : PendingAre(ln, pe)' <=> PendingAre(ln, pe)
  BY SameGoes DEF PendingAre, IsDma, DMA
<1>6. \A ln, st : SpacedAre(ln, st)' <=> SpacedAre(ln, st)
  BY SameInstr, SameGoes DEF SpacedAre, IsDma, DMA
<1>7. \A ln, st, cf : AfterAre(ln, st, cf)' <=> AfterAre(ln, st, cf)
  BY SameGoes, SameMovers DEF AfterAre
<1>8. \A ln, cov : CoveredAre(ln, cov)' <=> CoveredAre(ln, cov)
  BY SameGoes DEF CoveredAre, IsDma, DMA
<1>9. \A ln, wtd : WaitedAre(ln, wtd)' <=> WaitedAre(ln, wtd)
  BY SameGoes DEF WaitedAre, IsDma, DMA
<1>10. QED BY <1>1, <1>2, <1>3, <1>4, <1>5, <1>6, <1>7, <1>8, <1>9 DEF ProgramOn

-----------------------------------------------------------------------------
(* A configure.                                                            *)

(* A configure launches nothing and touches its component.                 *)
LEMMA ConfigIs ==
  \A t : /\ Instr("config", t).op = "config"
         /\ \A c : ~Launches(Instr("config", t), c) /\ (Touches(Instr("config", t), c) <=> c = t.comp)
  BY InstrIs DEF Launches, Touches, Writes

(* What a configure adds to the lines.                                     *)
LEMMA ConfigLines ==
  ASSUME ListOK, NEW ln, LinesAre(ln), NEW t, t.comp \in Components,
         NEW M, M = Emit(ln, CoreOf(t.comp), ConfigCode(t))
  PROVE  /\ M = [k \in Cores |-> M[k]]
         /\ \A k \in Cores : Prefix(ln[k], M[k]) /\ \A j \in 1 .. Len(M[k]) : j \notin 1 .. Len(ln[k]) =>
              k = SlotCore /\ j = Len(ln[k]) + 1 /\ ~IsDma(t.comp) /\ M[k][j] = Instr("config", t)
         /\ ~IsDma(t.comp) => Len(M[SlotCore]) = Len(ln[SlotCore]) + 1
<1> DEFINE core == CoreOf(t.comp)
           code == ConfigCode(t)
<1>1. core \in Cores /\ SlotCore \in Cores
  BY CoresIs DEF ListOK
<1>2. ln = [k \in Cores |-> ln[k]] /\ \A k \in Cores : IsSeq(ln[k])
  BY DEF LinesAre
<1>3. M = [ln EXCEPT ![core] = ln[core] \o code]
  BY DEF Emit
<1> HIDE DEF core, code
<1>4. M = [k \in Cores |-> M[k]] /\ M[core] = ln[core] \o code /\ \A k \in Cores : k # core => M[k] = ln[k]
  BY <1>1, <1>2, <1>3
<1>5. CASE IsDma(t.comp)
  <2>1. code = <<>>
    BY <1>5 DEF code, ConfigCode
  <2>2. M[core] = ln[core]
    BY <1>1, <1>2, <1>4, <2>1, ConcatEmptySeq DEF IsSeq
  <2>3. \A k \in Cores : M[k] = ln[k]
    BY <1>4, <2>2
  <2>4. \A k \in Cores : Prefix(ln[k], M[k])
    BY <1>2, <2>3, SeqFacts DEF Prefix
  <2>5. QED BY <1>4, <1>5, <2>3, <2>4
<1>6. CASE ~IsDma(t.comp)
  <2> DEFINE e == Instr("config", t)
  <2>1. code = <<e>> /\ core = SlotCore
    BY <1>6 DEF code, core, ConfigCode, CoreOf
  <2> HIDE DEF e
  <2>2. IsSeq(<<e>>) /\ Len(<<e>>) = 1 /\ <<e>>[1] = e
    BY Single
  <2> DEFINE L == ln[SlotCore]
             N == M[SlotCore]
  <2>3. N = L \o <<e>> /\ IsSeq(L)
    BY <1>1, <1>2, <1>4, <2>1
  <2> HIDE DEF L, N
  <2>4. Prefix(L, N)
    BY <2>2, <2>3, PrefixConcat
  <2>5. Len(N) = Len(L) + 1 /\ Len(L) \in Nat /\ N[Len(L) + 1] = e
    <3>1. Len(L \o <<e>>) = Len(L) + Len(<<e>>) /\ \A i \in 1 .. Len(<<e>>) : (L \o <<e>>)[Len(L) + i] = <<e>>[i]
      BY <2>2, <2>3, Concat
    <3>2. 1 \in 1 .. Len(<<e>>)
      BY <2>2
    <3>3. (L \o <<e>>)[Len(L) + 1] = e
      BY <2>2, <3>1, <3>2
    <3>4. QED BY <2>2, <2>3, <3>1, <3>3, SeqFacts
  <2>6. ASSUME NEW j \in 1 .. Len(N), j \notin 1 .. Len(L) PROVE j = Len(L) + 1 /\ N[j] = e
    <3>1. j = Len(L) + 1
      BY <2>5, <2>6
    <3>2. QED BY <2>5, <3>1
  <2>7. ASSUME NEW k \in Cores, k # SlotCore PROVE M[k] = ln[k] /\ Prefix(ln[k], M[k])
    <3>1. M[k] = ln[k] /\ IsSeq(ln[k])
      BY <1>2, <1>4, <2>1, <2>7
    <3>2. Len(ln[k]) \in Nat
      BY <3>1, SeqFacts
    <3>3. QED BY <3>1, <3>2 DEF Prefix
  <2>8. ASSUME NEW k \in Cores
        PROVE  Prefix(ln[k], M[k]) /\ \A j \in 1 .. Len(M[k]) : j \notin 1 .. Len(ln[k]) =>
                 k = SlotCore /\ j = Len(ln[k]) + 1 /\ ~IsDma(t.comp) /\ M[k][j] = Instr("config", t)
    <3>1. CASE k = SlotCore
      BY <1>6, <2>4, <2>6, <3>1 DEF L, N, e
    <3>2. CASE k # SlotCore
      BY <2>7, <3>2
    <3>3. QED BY <3>1, <3>2
  <2>9. QED BY <1>4, <2>5, <2>8 DEF L, N
<1>7. QED BY <1>5, <1>6

(* A configure keeps what holds of the program: no task of its component   *)
(* is pending.                                                             *)
LEMMA ConfigureKeeps ==
  ASSUME ListOK, ProgramOn(lines, covered, waited, conf, Started),
         NEW t, t \notin Configured, t.comp \in Components, \A p \in Pending : p.comp # t.comp,
         NEW cf, DOMAIN cf = Configured \cup {t}, \A x \in Configured : cf[x] = conf[x],
         NEW M, M = Emit(lines, CoreOf(t.comp), ConfigCode(t))
  PROVE  ProgramOn(M, covered, waited, cf, Started)
<1>0. /\ SlotCore \in Cores /\ design.dma \in Cores /\ DesignOK
      /\ \A c : CoreOf(c) \in Cores
  BY CoresIs DEF ListOK
<1>1. /\ M = [k \in Cores |-> M[k]]
      /\ \A k \in Cores : Prefix(lines[k], M[k]) /\ \A j \in 1 .. Len(M[k]) : j \notin 1 .. Len(lines[k]) =>
           k = SlotCore /\ j = Len(lines[k]) + 1 /\ ~IsDma(t.comp) /\ M[k][j] = Instr("config", t)
      /\ ~IsDma(t.comp) => Len(M[SlotCore]) = Len(lines[SlotCore]) + 1
  BY ConfigLines DEF ProgramOn
<1>2. \A k \in Cores : /\ Len(lines[k]) \in Nat /\ Len(M[k]) \in Nat /\ Len(lines[k]) <= Len(M[k])
                       /\ \A i \in 1 .. Len(lines[k]) : M[k][i] = lines[k][i]
  BY <1>1, SeqFacts DEF Prefix
<1>3. ASSUME NEW k \in Cores, NEW j \in 1 .. Len(M[k]), NEW c, Launches(M[k][j], c)
      PROVE  j \in 1 .. Len(lines[k])
  BY <1>1, <1>3, ConfigIs
<1>4. LinesAre(M)
  <2>1. \A k \in Cores : IsSeq(M[k])
    BY <1>1 DEF Prefix
  <2>2. ASSUME NEW k \in Cores PROVE Once(M[k])
    <3>1. SUFFICES ASSUME NEW i \in 1 .. Len(M[k]), NEW j \in 1 .. Len(M[k]), NEW u,
                          M[k][i] = M[k][j], M[k][i] = Instr("config", u) \/ M[k][i] = Instr("dma", u)
                   PROVE  i = j
      BY DEF Once
    <3>2. ASSUME NEW p \in 1 .. Len(lines[k]), NEW x, lines[k][p] = Instr("config", x) PROVE x # t
      <4>1. lines[k][p].op = "config"
        BY <3>2, InstrIs
      <4>2. \E y \in Configured : lines[k][p] = Instr("config", y)
        BY <4>1 DEF ProgramOn, ConfigsAre, Configured
      <4>3. QED BY <3>2, <4>2, InstrIs
    <3>3. CASE i \in 1 .. Len(lines[k]) /\ j \in 1 .. Len(lines[k])
      <4>1. Once(lines[k]) /\ lines[k][i] = M[k][i] /\ lines[k][j] = M[k][j]
        BY <1>2, <3>3 DEF ProgramOn, LinesAre
      <4>2. QED BY <3>1, <3>3, <4>1 DEF Once
    <3>4. CASE i \notin 1 .. Len(lines[k]) /\ j \notin 1 .. Len(lines[k])
      BY <1>1, <3>4
    <3>5. CASE i \notin 1 .. Len(lines[k]) /\ j \in 1 .. Len(lines[k])
      <4>1. M[k][i] = Instr("config", t) /\ lines[k][j] = M[k][j]
        BY <1>1, <1>2, <3>5
      <4>2. QED BY <3>1, <3>2, <3>5, <4>1
    <3>6. CASE i \in 1 .. Len(lines[k]) /\ j \notin 1 .. Len(lines[k])
      <4>1. M[k][j] = Instr("config", t) /\ lines[k][i] = M[k][i]
        BY <1>1, <1>2, <3>6
      <4>2. QED BY <3>1, <3>2, <3>6, <4>1
    <3>7. QED BY <3>3, <3>4, <3>5, <3>6
  <2>3. ASSUME NEW k \in Cores, NEW j \in 1 .. Len(M[k]), M[k][j].op = "start" PROVE IsUnit(M[k][j].arg)
    <3>1. j \in 1 .. Len(lines[k])
      BY <1>1, <2>3, ConfigIs
    <3>2. M[k][j] = lines[k][j]
      BY <1>2, <3>1
    <3>3. QED BY <2>3, <3>1, <3>2 DEF ProgramOn, LinesAre
  <2>4. QED BY <1>1, <2>1, <2>2, <2>3 DEF LinesAre
<1>5. ConfigsAre(M, cf)
  <2> SUFFICES ASSUME NEW k \in Cores, NEW j \in 1 .. Len(M[k]), M[k][j].op = "config"
               PROVE  k = SlotCore /\ \E u \in DOMAIN cf : ~IsDma(u.comp) /\ M[k][j] = Instr("config", u)
    BY DEF ConfigsAre
  <2>1. CASE j \in 1 .. Len(lines[k])
    <3>1. k = SlotCore /\ \E u \in DOMAIN conf : ~IsDma(u.comp) /\ lines[k][j] = Instr("config", u)
      BY <1>2, <2>1 DEF ProgramOn, ConfigsAre
    <3>2. QED BY <1>2, <2>1, <3>1 DEF Configured
  <2>2. CASE j \notin 1 .. Len(lines[k])
    BY <1>1, <2>2
  <2>3. QED BY <2>1, <2>2
<1>6. LaunchesAre(M, Started)
  <2> SUFFICES ASSUME NEW k \in Cores, NEW j \in 1 .. Len(M[k]), NEW c, Launches(M[k][j], c)
               PROVE  CoreOf(c) = k /\ \E u \in Started : u.comp = c /\ Goes(M[k], j, u)
    BY DEF LaunchesAre
  <2>1. j \in 1 .. Len(lines[k]) /\ Launches(lines[k][j], c)
    BY <1>2, <1>3
  <2>2. CoreOf(c) = k /\ \E u \in Started : u.comp = c /\ Goes(lines[k], j, u)
    BY <2>1 DEF ProgramOn, LaunchesAre
  <2>3. QED BY <1>1, <2>1, <2>2, GoesKept
<1>7. GoneAre(M, Started)
  <2> SUFFICES ASSUME NEW u \in Started
               PROVE  \E j \in 1 .. Len(M[CoreOf(u.comp)]) : Goes(M[CoreOf(u.comp)], j, u)
    BY DEF GoneAre
  <2> DEFINE k == CoreOf(u.comp)
  <2>1. k \in Cores
    BY <1>0
  <2>2. PICK j \in 1 .. Len(lines[k]) : Goes(lines[k], j, u)
    BY DEF ProgramOn, GoneAre
  <2> HIDE DEF k
  <2>3. j \in 1 .. Len(M[k]) /\ Goes(M[k], j, u)
    BY <1>1, <1>2, <2>1, <2>2, GoesKept
  <2>4. QED BY <2>3 DEF k
<1> DEFINE L == lines[SlotCore]
           N == M[SlotCore]
<1>8. /\ Prefix(L, N) /\ Len(L) \in Nat /\ Len(N) \in Nat /\ Len(L) <= Len(N)
      /\ \A i \in 1 .. Len(L) : N[i] = L[i]
      /\ \A j \in 1 .. Len(N) : j \notin 1 .. Len(L) =>
           j = Len(L) + 1 /\ ~IsDma(t.comp) /\ N[j] = Instr("config", t)
      /\ ~IsDma(t.comp) => Len(N) = Len(L) + 1
  BY <1>0, <1>1, <1>2
<1>9. PendingAre(M, DOMAIN cf \ Started)
  <2> SUFFICES ASSUME NEW u \in DOMAIN cf \ Started, ~IsDma(u.comp)
               PROVE  \E i \in 1 .. Len(N) : Wrote(N, i, Len(N) + 1, u)
    BY DEF PendingAre
  <2>1. CASE u = t
    <3> HIDE DEF L, N
    <3>1. Len(N) \in 1 .. Len(N) /\ N[Len(N)] = Instr("config", u)
      BY <1>8, <2>1
    <3>2. \A q \in Len(N) + 1 .. (Len(N) + 1) - 1 : FALSE
      BY <1>8
    <3>3. Wrote(N, Len(N), Len(N) + 1, u)
      BY <3>1, <3>2 DEF Wrote
    <3>4. QED BY <3>1, <3>3
  <2>2. CASE u # t
    <3>1. u \in Pending /\ u.comp # t.comp
      BY <2>2 DEF Pending
    <3>2. PICK i \in 1 .. Len(L) : Wrote(L, i, Len(L) + 1, u)
      BY <3>1 DEF ProgramOn, PendingAre, Pending, Configured
    <3> HIDE DEF L, N
    <3>3. i \in 1 .. Len(N) /\ N[i] = Instr("config", u)
      BY <1>8, <3>2 DEF Wrote
    <3>4. ASSUME NEW q \in i + 1 .. (Len(N) + 1) - 1 PROVE ~Touches(N[q], u.comp)
      <4>1. CASE q \in 1 .. Len(L)
        BY <1>8, <3>2, <4>1 DEF Wrote
      <4>2. CASE q \notin 1 .. Len(L)
        BY <1>8, <3>1, <4>2, ConfigIs
      <4>3. QED BY <4>1, <4>2
    <3>5. Wrote(N, i, Len(N) + 1, u)
      BY <3>3, <3>4 DEF Wrote
    <3>6. QED BY <3>3, <3>5
  <2>3. QED BY <2>1, <2>2
<1>10. SpacedAre(M, Started)
  <2> SUFFICES ASSUME NEW u \in Started, NEW j \in 1 .. Len(N), NEW q \in 1 .. j - 1,
                      ~IsDma(u.comp), Goes(N, q, u), Launches(N[j], u.comp)
               PROVE  u.idle \/ Past(N, j, u)
    BY DEF SpacedAre
  <2>1. \A y \in 1 .. Len(L) : \A z \in 1 .. y - 1 :
          Goes(L, z, u) /\ Launches(L[y], u.comp) => u.idle \/ Past(L, y, u)
    BY DEF ProgramOn, SpacedAre
  <2>2. j \in 1 .. Len(L)
    BY <1>0, <1>3
  <2> HIDE DEF L, N
  <2>3. q \in 1 .. Len(L)
    BY <1>8, <2>2
  <2>4. Goes(L, q, u)
    BY <1>8, <2>3, GoesKept
  <2>5. u.idle \/ Past(L, j, u)
    BY <1>8, <2>1, <2>2, <2>4
  <2>6. QED BY <1>8, <2>2, <2>5, PastKept
<1>11. AfterAre(M, Started, cf)
  <2> SUFFICES ASSUME NEW k \in Cores, NEW j \in 1 .. Len(M[k]), NEW u \in Started, Goes(M[k], j, u),
                      NEW a \in cf[u], CoreOf(a.comp) = k
               PROVE  a.idle \/ Past(M[k], j, a)
    BY DEF AfterAre
  <2>0. a \in conf[u]
    BY DEF ListOK
  <2>1. j \in 1 .. Len(lines[k])
    BY <1>3 DEF Goes
  <2>2. Goes(lines[k], j, u)
    BY <1>1, <2>1, GoesKept
  <2>3. a.idle \/ Past(lines[k], j, a)
    BY <2>0, <2>1, <2>2 DEF ProgramOn, AfterAre
  <2>4. j \in 1 .. Len(lines[k]) + 1
    BY <1>2, <2>1
  <2>5. QED BY <1>1, <2>3, <2>4, PastKept
<1>12. ASSUME NEW k \in Cores, NEW u, Past(lines[k], Len(lines[k]) + 1, u) PROVE Past(M[k], Len(M[k]) + 1, u)
  <2>1. Len(lines[k]) + 1 \in 1 .. Len(lines[k]) + 1 /\ Len(lines[k]) + 1 \in Nat /\ Len(M[k]) + 1 \in Nat
        /\ Len(lines[k]) + 1 <= Len(M[k]) + 1
    BY <1>2
  <2>2. Past(M[k], Len(lines[k]) + 1, u)
    BY <1>1, <1>12, <2>1, PastKept
  <2>3. QED BY <2>1, <2>2, PastOn
<1>13. CoveredAre(M, covered)
  BY <1>0, <1>12 DEF ProgramOn, CoveredAre
<1>14. WaitedAre(M, waited)
  BY <1>0, <1>12 DEF ProgramOn, WaitedAre
<1>15. QED BY <1>4, <1>5, <1>6, <1>7, <1>9, <1>10, <1>11, <1>13, <1>14 DEF ProgramOn

-----------------------------------------------------------------------------
(* A start.                                                                *)

(* The lines grow by the start of ts.                                      *)
Grown(N, M, ts) ==
  /\ M = [k \in Cores |-> M[k]]
  /\ \A k \in Cores :
       /\ Prefix(N[k], M[k])
       /\ \A j \in Len(N[k]) + 1 .. Len(M[k]) :
            /\ M[k][j].op \in {"dma", "start", "streamers"} /\ (M[k][j].op = "start" => IsUnit(M[k][j].arg))
            /\ \A c : Launches(M[k][j], c) =>
                 \E t \in ToSet(ts) : t.comp = c /\ CoreOf(c) = k /\ (IsDma(c) => M[k][j] = Instr("dma", t))
       /\ \A t \in ToSet(ts) : CoreOf(t.comp) = k => \E j \in Len(N[k]) + 1 .. Len(M[k]) : Launches(M[k][j], t.comp)
       /\ \A c : \A i, j \in Len(N[k]) + 1 .. Len(M[k]) : Launches(M[k][i], c) /\ Launches(M[k][j], c) => i = j

(* Emitting a start makes the lines grow by it.                            *)
LEMMA StartGrows ==
  ASSUME ListOK, NEW ts, Startable(ts), NEW N, LinesAre(N), NEW M, M = StartAll(N, ts)
  PROVE  Grown(N, M, ts)
<1>1. M = [k \in Cores |-> M[k]]
  BY DEF StartAll
<1>2. ASSUME NEW k \in Cores
      PROVE  /\ Prefix(N[k], M[k])
             /\ \A j \in Len(N[k]) + 1 .. Len(M[k]) :
                  /\ M[k][j].op \in {"dma", "start", "streamers"} /\ (M[k][j].op = "start" => IsUnit(M[k][j].arg))
                  /\ \A c : Launches(M[k][j], c) =>
                       \E t \in ToSet(ts) : t.comp = c /\ CoreOf(c) = k /\ (IsDma(c) => M[k][j] = Instr("dma", t))
             /\ \A t \in ToSet(ts) : CoreOf(t.comp) = k => \E j \in Len(N[k]) + 1 .. Len(M[k]) : Launches(M[k][j], t.comp)
             /\ \A c : \A i, j \in Len(N[k]) + 1 .. Len(M[k]) : Launches(M[k][i], c) /\ Launches(M[k][j], c) => i = j
  <2>0. StartAdds(k, ts, N[k], M[k])
    BY StartAllIs
  <2>1. PICK S : Launching(k, ts, S) /\ M[k] = N[k] \o S
    BY <2>0 DEF StartAdds
  <2>2. IsSeq(N[k]) /\ IsSeq(S)
    BY <2>1 DEF LinesAre, Launching
  <2> DEFINE A == N[k]
             B == M[k]
             n == Len(A)
  <2>3. /\ n \in Nat /\ Len(S) \in Nat /\ Len(B) = n + Len(S) /\ Prefix(A, B)
        /\ \A p \in 1 .. Len(S) : B[n + p] = S[p]
    BY <2>1, <2>2, Concat, SeqFacts, PrefixConcat
  <2> HIDE DEF A, B, n
  <2>4. ASSUME NEW j \in n + 1 .. Len(B) PROVE j - n \in 1 .. Len(S) /\ j = n + (j - n) /\ B[j] = S[j - n]
    <3>1. j - n \in 1 .. Len(S) /\ j = n + (j - n)
      BY <2>3
    <3>2. QED BY <2>3, <3>1
  <2>5. \A p \in 1 .. Len(S) : n + p \in n + 1 .. Len(B) /\ B[n + p] = S[p]
    BY <2>3
  <2>6. ASSUME NEW j \in n + 1 .. Len(B)
        PROVE  /\ B[j].op \in {"dma", "start", "streamers"} /\ (B[j].op = "start" => IsUnit(B[j].arg))
               /\ \A c : Launches(B[j], c) =>
                    \E t \in ToSet(ts) : t.comp = c /\ CoreOf(c) = k /\ (IsDma(c) => B[j] = Instr("dma", t))
    <3> DEFINE p == j - n
    <3>1. p \in 1 .. Len(S) /\ B[j] = S[p]
      BY <2>4
    <3> HIDE DEF p
    <3>2. S[p].op \in {"dma", "start", "streamers"} /\ (S[p].op = "start" => IsUnit(S[p].arg))
      BY <2>1, <3>1 DEF Launching
    <3>3. \A c : Launches(S[p], c) =>
            \E t \in ToSet(ts) : t.comp = c /\ CoreOf(c) = k /\ (IsDma(c) => S[p] = Instr("dma", t))
      BY <2>1, <3>1 DEF Launching
    <3>4. QED BY <3>1, <3>2, <3>3
  <2>7. ASSUME NEW t \in ToSet(ts), CoreOf(t.comp) = k PROVE \E j \in n + 1 .. Len(B) : Launches(B[j], t.comp)
    <3>1. PICK p \in 1 .. Len(S) : Launches(S[p], t.comp)
      BY <2>1, <2>7 DEF Launching
    <3>2. QED BY <2>5, <3>1
  <2>8. ASSUME NEW c, NEW i \in n + 1 .. Len(B), NEW j \in n + 1 .. Len(B), Launches(B[i], c), Launches(B[j], c)
        PROVE  i = j
    <3> DEFINE p == i - n
               q == j - n
    <3>0. p \in 1 .. Len(S) /\ q \in 1 .. Len(S) /\ Launches(S[p], c) /\ Launches(S[q], c)
      BY <2>4, <2>8
    <3> HIDE DEF p, q
    <3>3. p = q
      BY <2>1, <3>0 DEF Launching
    <3>1. i - n = j - n
      BY <3>3 DEF p, q
    <3>2. QED BY <2>3, <3>1
  <2>9. QED BY <2>3, <2>6, <2>7, <2>8 DEF A, B, n
<1>3. QED BY <1>1, <1>2 DEF Grown

(* A launch writes no registers.                                           *)
LEMMA LaunchOps ==
  \A x : x.op \in {"dma", "start", "streamers"} =>
    /\ x.op # "config"
    /\ \A c : ~Writes(x, c) /\ (Touches(x, c) <=> Launches(x, c))
  BY DEF Writes, Touches

(* What the start launches goes.                                           *)
LEMMA GrownGoes ==
  ASSUME ListOK, NEW N, NEW M, NEW ts, Startable(ts), Grown(N, M, ts), PendingAre(N, Pending),
         NEW k \in Cores, NEW j \in Len(N[k]) + 1 .. Len(M[k]), NEW t \in ToSet(ts), Launches(M[k][j], t.comp)
  PROVE  Goes(M[k], j, t)
<1>0. t \in Pending /\ Prefix(N[k], M[k])
  BY DEF Startable, Grown
<1>1. PICK u \in ToSet(ts) : u.comp = t.comp /\ CoreOf(t.comp) = k /\ (IsDma(t.comp) => M[k][j] = Instr("dma", u))
  BY DEF Grown
<1>2. u = t
  BY <1>0, <1>1 DEF Startable, ListOK
<1>3. CASE IsDma(t.comp)
  BY <1>1, <1>2, <1>3 DEF Goes
<1>4. CASE ~IsDma(t.comp)
  <2>1. k = SlotCore
    BY <1>1, <1>4 DEF CoreOf
  <2>2. PICK i \in 1 .. Len(N[k]) : Wrote(N[k], i, Len(N[k]) + 1, t)
    BY <1>0, <1>4, <2>1 DEF PendingAre
  <2>3. Len(N[k]) \in Nat /\ Len(M[k]) \in Nat
    BY <1>0, SeqFacts DEF Prefix
  <2>4. ASSUME NEW q \in Len(N[k]) + 1 .. j - 1 PROVE ~Touches(M[k][q], t.comp)
    <3>1. q \in Len(N[k]) + 1 .. Len(M[k]) /\ q # j
      BY <2>3
    <3>2. ~Launches(M[k][q], t.comp)
      BY <3>1 DEF Grown
    <3>3. M[k][q].op \in {"dma", "start", "streamers"}
      BY <3>1 DEF Grown
    <3>4. QED BY <3>2, <3>3, LaunchOps
  <2>5. QED BY <1>0, <1>4, <2>2, <2>4, GoesNext
<1>5. QED BY <1>3, <1>4

(* A start keeps what holds of the program when all its components' tasks  *)
(* are covered and all its `after' is past.                                *)
LEMMA StartKeeps ==
  ASSUME ListOK, NEW N, NEW cov, NEW wtd, ProgramOn(N, cov, wtd, conf, Started), NEW ts, Startable(ts),
         \A t \in ToSet(ts) : conf[t] \subseteq Started,
         \A t \in ToSet(ts) : \A u \in Started : u.comp = t.comp /\ ~IsDma(u.comp) => u.idle \/ u \in cov,
         \A t \in ToSet(ts) : \A a \in conf[t] :
           a.idle \/ Past(N[CoreOf(a.comp)], Len(N[CoreOf(a.comp)]) + 1, a),
         NEW M, Grown(N, M, ts), NEW st, st = Started \cup ToSet(ts)
  PROVE  ProgramOn(M, cov, wtd, conf, st)
<1>0. /\ SlotCore \in Cores /\ design.dma \in Cores /\ DesignOK
      /\ \A c : CoreOf(c) \in Cores
  BY CoresIs DEF ListOK
<1>1. \A k \in Cores : /\ Prefix(N[k], M[k]) /\ Len(N[k]) \in Nat /\ Len(M[k]) \in Nat /\ Len(N[k]) <= Len(M[k])
                       /\ \A i \in 1 .. Len(N[k]) : M[k][i] = N[k][i]
  BY SeqFacts DEF Grown, Prefix
<1>2. ASSUME NEW k \in Cores, NEW j \in 1 .. Len(M[k]), j \notin 1 .. Len(N[k])
      PROVE  /\ j \in Len(N[k]) + 1 .. Len(M[k]) /\ M[k][j].op \in {"dma", "start", "streamers"}
             /\ \A c : ~Writes(M[k][j], c) /\ (Touches(M[k][j], c) <=> Launches(M[k][j], c))
  <2>1. j \in Len(N[k]) + 1 .. Len(M[k])
    BY <1>1, <1>2
  <2>2. M[k][j].op \in {"dma", "start", "streamers"}
    BY <2>1 DEF Grown
  <2>3. QED BY <2>1, <2>2, LaunchOps
<1>3. ASSUME NEW k \in Cores, NEW j \in 1 .. Len(M[k]), j \notin 1 .. Len(N[k]), NEW c, Launches(M[k][j], c)
      PROVE  CoreOf(c) = k /\ \E t \in ToSet(ts) : t.comp = c /\ Goes(M[k], j, t)
                                                   /\ (IsDma(c) => M[k][j] = Instr("dma", t))
  <2>1. j \in Len(N[k]) + 1 .. Len(M[k])
    BY <1>2, <1>3
  <2>2. PICK t \in ToSet(ts) : t.comp = c /\ CoreOf(c) = k /\ (IsDma(c) => M[k][j] = Instr("dma", t))
    BY <1>3, <2>1 DEF Grown
  <2>3. PendingAre(N, Pending)
    BY DEF ProgramOn, Pending, Configured
  <2>4. Launches(M[k][j], t.comp)
    BY <1>3, <2>2
  <2>5. Goes(M[k], j, t)
    BY <2>1, <2>3, <2>4, GrownGoes
  <2>6. QED BY <2>2, <2>5
<1>4. ASSUME NEW k \in Cores, NEW j \in 1 .. Len(N[k]), NEW t
      PROVE  j \in 1 .. Len(M[k]) /\ M[k][j] = N[k][j] /\ (Goes(M[k], j, t) <=> Goes(N[k], j, t))
  BY <1>1, GoesKept
<1>5. ASSUME NEW k \in Cores, NEW j \in 1 .. Len(N[k]), NEW t, Goes(M[k], j, t)
      PROVE  Goes(N[k], j, t) /\ t \in Started /\ CoreOf(t.comp) = k
  <2>1. Goes(N[k], j, t)
    BY <1>4, <1>5
  <2>2. QED BY <1>0, <2>1, GoesStarted DEF ProgramOn
<1>6. ASSUME NEW k \in Cores, NEW j \in 1 .. Len(N[k]) + 1, NEW t, Past(N[k], j, t) PROVE Past(M[k], j, t)
  BY <1>1, <1>6, PastKept
<1>7. ASSUME NEW k \in Cores, NEW t, Past(N[k], Len(N[k]) + 1, t), NEW j \in 1 .. Len(M[k]) + 1, j \notin 1 .. Len(N[k])
      PROVE  Past(M[k], j, t)
  <2>1. Len(N[k]) + 1 \in 1 .. Len(N[k]) + 1 /\ Len(N[k]) + 1 \in Nat /\ j \in Nat /\ Len(N[k]) + 1 <= j
    BY <1>1, <1>7
  <2>2. Past(M[k], Len(N[k]) + 1, t)
    BY <1>6, <1>7, <2>1
  <2>3. QED BY <2>1, <2>2, PastOn
<1>8. \A t \in ToSet(ts) : t \in Pending /\ t \notin Started
  BY DEF Startable, Pending
<1>9. LinesAre(M)
  <2>1. \A k \in Cores : IsSeq(M[k])
    BY <1>1 DEF Prefix
  <2>2. ASSUME NEW k \in Cores PROVE Once(M[k])
    <3>1. SUFFICES ASSUME NEW i \in 1 .. Len(M[k]), NEW j \in 1 .. Len(M[k]), NEW u,
                          M[k][i] = M[k][j], M[k][i] = Instr("config", u) \/ M[k][i] = Instr("dma", u)
                   PROVE  i = j
      BY DEF Once
    <3>2. CASE i \in 1 .. Len(N[k]) /\ j \in 1 .. Len(N[k])
      <4>1. Once(N[k]) /\ N[k][i] = M[k][i] /\ N[k][j] = M[k][j]
        BY <1>4, <3>2 DEF ProgramOn, LinesAre
      <4>2. QED BY <3>1, <3>2, <4>1 DEF Once
    <3>3. ASSUME NEW p \in 1 .. Len(M[k]), p \notin 1 .. Len(N[k]),
                 M[k][p] = Instr("config", u) \/ M[k][p] = Instr("dma", u)
          PROVE  M[k][p] = Instr("dma", u) /\ Launches(M[k][p], DMA) /\ u \in ToSet(ts)
      <4>1. M[k][p].op # "config"
        BY <1>2, <3>3
      <4>2. M[k][p] = Instr("dma", u)
        BY <3>3, <4>1, InstrIs
      <4>3. Launches(M[k][p], DMA)
        BY <4>2, InstrIs DEF Launches
      <4>4. PICK t \in ToSet(ts) : t.comp = DMA /\ (IsDma(DMA) => M[k][p] = Instr("dma", t))
        BY <1>3, <3>3, <4>3
      <4>5. t = u
        BY <4>2, <4>4, InstrIs, DmaIs
      <4>6. QED BY <4>2, <4>3, <4>4, <4>5
    <3>4. ASSUME NEW p \in 1 .. Len(N[k]), M[k][p] = Instr("dma", u) PROVE u \in Started
      <4>1. N[k][p] = Instr("dma", u)
        BY <1>4, <3>4
      <4>2. Launches(N[k][p], DMA)
        BY <4>1, InstrIs DEF Launches
      <4>3. PICK t \in Started : t.comp = DMA /\ Goes(N[k], p, t)
        BY <4>2 DEF ProgramOn, LaunchesAre
      <4>4. N[k][p] = Instr("dma", t)
        BY <4>3, DmaIs DEF Goes
      <4>5. t = u
        BY <4>1, <4>4, InstrIs
      <4>6. QED BY <4>5
    <3>5. CASE i \notin 1 .. Len(N[k]) /\ j \notin 1 .. Len(N[k])
      <4>1. Launches(M[k][i], DMA) /\ Launches(M[k][j], DMA)
        BY <3>1, <3>3, <3>5
      <4>2. i \in Len(N[k]) + 1 .. Len(M[k]) /\ j \in Len(N[k]) + 1 .. Len(M[k])
        BY <1>2, <3>5
      <4>3. QED BY <4>1, <4>2 DEF Grown
    <3>6. CASE i \notin 1 .. Len(N[k]) /\ j \in 1 .. Len(N[k])
      BY <1>8, <3>1, <3>3, <3>4, <3>6
    <3>7. CASE i \in 1 .. Len(N[k]) /\ j \notin 1 .. Len(N[k])
      BY <1>8, <3>1, <3>3, <3>4, <3>7
    <3>8. QED BY <3>2, <3>5, <3>6, <3>7
  <2>3. ASSUME NEW k \in Cores, NEW j \in 1 .. Len(M[k]), M[k][j].op = "start" PROVE IsUnit(M[k][j].arg)
    <3>1. CASE j \in 1 .. Len(N[k])
      <4>1. M[k][j] = N[k][j]
        BY <1>4, <3>1
      <4>2. QED BY <2>3, <3>1, <4>1 DEF ProgramOn, LinesAre
    <3>2. CASE j \notin 1 .. Len(N[k])
      <4>1. j \in Len(N[k]) + 1 .. Len(M[k])
        BY <1>2, <3>2
      <4>2. QED BY <2>3, <4>1 DEF Grown
    <3>3. QED BY <3>1, <3>2
  <2>4. QED BY <2>1, <2>2, <2>3 DEF LinesAre, Grown
<1>10. ConfigsAre(M, conf)
  <2> SUFFICES ASSUME NEW k \in Cores, NEW j \in 1 .. Len(M[k]), M[k][j].op = "config"
               PROVE  k = SlotCore /\ \E u \in DOMAIN conf : ~IsDma(u.comp) /\ M[k][j] = Instr("config", u)
    BY DEF ConfigsAre
  <2>1. j \in 1 .. Len(N[k])
    BY <1>2
  <2>2. N[k][j] = M[k][j]
    BY <1>1, <2>1
  <2>3. QED BY <2>1, <2>2 DEF ProgramOn, ConfigsAre
<1>11. LaunchesAre(M, st)
  <2> SUFFICES ASSUME NEW k \in Cores, NEW j \in 1 .. Len(M[k]), NEW c, Launches(M[k][j], c)
               PROVE  CoreOf(c) = k /\ \E u \in st : u.comp = c /\ Goes(M[k], j, u)
    BY DEF LaunchesAre
  <2>1. CASE j \in 1 .. Len(N[k])
    <3>1. Launches(N[k][j], c)
      BY <1>1, <2>1
    <3>2. CoreOf(c) = k /\ \E u \in Started : u.comp = c /\ Goes(N[k], j, u)
      BY <2>1, <3>1 DEF ProgramOn, LaunchesAre
    <3>3. QED BY <1>4, <2>1, <3>2
  <2>2. CASE j \notin 1 .. Len(N[k])
    BY <1>3, <2>2
  <2>3. QED BY <2>1, <2>2
<1>12. GoneAre(M, st)
  <2> SUFFICES ASSUME NEW u \in st
               PROVE  \E j \in 1 .. Len(M[CoreOf(u.comp)]) : Goes(M[CoreOf(u.comp)], j, u)
    BY DEF GoneAre
  <2> DEFINE k == CoreOf(u.comp)
  <2>1. k \in Cores
    BY <1>0
  <2>2. CASE u \in Started
    <3>1. PICK j \in 1 .. Len(N[k]) : Goes(N[k], j, u)
      BY <2>2 DEF ProgramOn, GoneAre
    <3> HIDE DEF k
    <3>2. j \in 1 .. Len(M[k]) /\ Goes(M[k], j, u)
      BY <1>4, <2>1, <3>1
    <3>3. QED BY <3>2 DEF k
  <2>3. CASE u \in ToSet(ts)
    <3>1. PICK j \in Len(N[k]) + 1 .. Len(M[k]) : Launches(M[k][j], u.comp)
      BY <2>1, <2>3 DEF Grown
    <3> HIDE DEF k
    <3>2. j \in 1 .. Len(M[k])
      BY <1>1, <2>1
    <3>3. PendingAre(N, Pending)
      BY DEF ProgramOn, Pending, Configured
    <3>4. Goes(M[k], j, u)
      BY <2>1, <2>3, <3>1, <3>3, GrownGoes
    <3>5. QED BY <3>2, <3>4 DEF k
  <2>4. QED BY <2>2, <2>3
<1> DEFINE L == N[SlotCore]
           X == M[SlotCore]
<1>13. PendingAre(M, DOMAIN conf \ st)
  <2> SUFFICES ASSUME NEW u \in DOMAIN conf \ st, ~IsDma(u.comp)
               PROVE  \E i \in 1 .. Len(X) : Wrote(X, i, Len(X) + 1, u)
    BY DEF PendingAre
  <2>1. u \in Pending /\ u \notin ToSet(ts)
    BY DEF Pending, Configured
  <2>2. PICK i \in 1 .. Len(L) : Wrote(L, i, Len(L) + 1, u)
    BY <2>1 DEF ProgramOn, PendingAre, Pending, Configured
  <2>3. ASSUME NEW q \in 1 .. Len(X), q \notin 1 .. Len(L) PROVE ~Touches(X[q], u.comp)
    <3>1. SUFFICES ASSUME Launches(X[q], u.comp) PROVE FALSE
      BY <1>0, <1>2, <2>3
    <3>2. PICK t \in ToSet(ts) : t.comp = u.comp
      BY <1>0, <1>3, <2>3, <3>1
    <3>3. t = u
      BY <1>8, <2>1, <3>2 DEF ListOK
    <3>4. QED BY <2>1, <3>3
  <2>4. /\ Len(L) \in Nat /\ Len(X) \in Nat /\ Len(L) <= Len(X)
        /\ \A q \in 1 .. Len(L) : X[q] = L[q]
    BY <1>0, <1>1
  <2> HIDE DEF L, X
  <2>5. i \in 1 .. Len(X) /\ X[i] = Instr("config", u)
    BY <2>2, <2>4 DEF Wrote
  <2>6. ASSUME NEW q \in i + 1 .. (Len(X) + 1) - 1 PROVE ~Touches(X[q], u.comp)
    <3>1. CASE q \in 1 .. Len(L)
      BY <2>2, <2>4, <3>1 DEF Wrote
    <3>2. CASE q \notin 1 .. Len(L)
      BY <2>3, <2>4, <3>2
    <3>3. QED BY <3>1, <3>2
  <2>7. Wrote(X, i, Len(X) + 1, u)
    BY <2>5, <2>6 DEF Wrote
  <2>8. QED BY <2>5, <2>7
<1>14. SpacedAre(M, st)
  <2> SUFFICES ASSUME NEW u \in st, NEW j \in 1 .. Len(X), NEW q \in 1 .. j - 1,
                      ~IsDma(u.comp), Goes(X, q, u), Launches(X[j], u.comp)
               PROVE  u.idle \/ Past(X, j, u)
    BY DEF SpacedAre
  <2>0. /\ Len(L) \in Nat /\ Len(X) \in Nat /\ Len(L) <= Len(X) /\ q \in 1 .. Len(X)
    BY <1>0, <1>1
  <2>1. CASE j \in 1 .. Len(L)
    <3>1. q \in 1 .. Len(L)
      BY <2>0, <2>1
    <3>2. Goes(L, q, u) /\ u \in Started
      BY <1>0, <1>5, <3>1
    <3>3. Launches(L[j], u.comp)
      BY <1>0, <1>4, <2>1
    <3>4. u.idle \/ Past(L, j, u)
      BY <2>1, <3>2, <3>3 DEF ProgramOn, SpacedAre
    <3>5. j \in 1 .. Len(L) + 1
      BY <2>0, <2>1
    <3>6. QED BY <1>0, <1>6, <3>4, <3>5
  <2>2. CASE j \notin 1 .. Len(L) /\ q \in 1 .. Len(L)
    <3>1. Goes(L, q, u) /\ u \in Started
      BY <1>0, <1>5, <2>2
    <3>2. PICK t \in ToSet(ts) : t.comp = u.comp
      BY <1>0, <1>3, <2>2
    <3>3. u.idle \/ u \in cov
      BY <3>1, <3>2
    <3>4. u.idle \/ Past(L, Len(L) + 1, u)
      BY <3>3 DEF ProgramOn, CoveredAre
    <3>5. j \in 1 .. Len(X) + 1
      BY <2>0
    <3>6. QED BY <1>0, <1>7, <2>2, <3>4, <3>5
  <2>3. CASE j \notin 1 .. Len(L) /\ q \notin 1 .. Len(L)
    <3>1. Launches(X[q], u.comp)
      BY DEF Goes
    <3>2. q \in Len(L) + 1 .. Len(X) /\ j \in Len(L) + 1 .. Len(X)
      BY <1>0, <1>2, <2>0, <2>3
    <3>3. q = j
      BY <1>0, <3>1, <3>2 DEF Grown
    <3>4. QED BY <2>0, <3>3
  <2>4. QED BY <2>1, <2>2, <2>3
<1>15. AfterAre(M, st, conf)
  <2> SUFFICES ASSUME NEW k \in Cores, NEW j \in 1 .. Len(M[k]), NEW u \in st, Goes(M[k], j, u),
                      NEW a \in conf[u], CoreOf(a.comp) = k
               PROVE  a.idle \/ Past(M[k], j, a)
    BY DEF AfterAre
  <2>1. CASE j \in 1 .. Len(N[k])
    <3>1. Goes(N[k], j, u) /\ u \in Started
      BY <1>5, <2>1
    <3>2. a.idle \/ Past(N[k], j, a)
      BY <2>1, <3>1 DEF ProgramOn, AfterAre
    <3>3. j \in 1 .. Len(N[k]) + 1
      BY <1>1, <2>1
    <3>4. QED BY <1>6, <3>2, <3>3
  <2>2. CASE j \notin 1 .. Len(N[k])
    <3>1. Launches(M[k][j], u.comp)
      BY DEF Goes
    <3>2. PICK t \in ToSet(ts) : t.comp = u.comp /\ Goes(M[k], j, t)
      BY <1>3, <2>2, <3>1
    <3>3. j \in Nat
      OBVIOUS
    <3>4. t = u
      BY <3>2, <3>3, GoesSame
    <3>5. a.idle \/ Past(N[k], Len(N[k]) + 1, a)
      BY <3>2, <3>4
    <3>6. j \in 1 .. Len(M[k]) + 1
      BY <1>1
    <3>7. QED BY <1>7, <2>2, <3>5, <3>6
  <2>3. QED BY <2>1, <2>2
<1>16. ASSUME NEW k \in Cores, NEW u, Past(N[k], Len(N[k]) + 1, u) PROVE Past(M[k], Len(M[k]) + 1, u)
  <2>1. Len(M[k]) + 1 \in 1 .. Len(M[k]) + 1 /\ Len(M[k]) + 1 \notin 1 .. Len(N[k])
    BY <1>1
  <2>2. QED BY <1>7, <1>16, <2>1
<1>17. CoveredAre(M, cov)
  BY <1>0, <1>16 DEF ProgramOn, CoveredAre
<1>18. WaitedAre(M, wtd)
  BY <1>0, <1>16 DEF ProgramOn, WaitedAre
<1>19. QED BY <1>9, <1>10, <1>11, <1>12, <1>13, <1>14, <1>15, <1>17, <1>18 DEF ProgramOn

-----------------------------------------------------------------------------
(* The list.                                                               *)

(* The order of starts stays while no start is read.                       *)
LEMMA SameOrder ==
  ASSUME starts' = starts
  PROVE  Order' = Order /\ Started' = Started /\ \A t : Place(t)' = Place(t)
<1>1. Order' = Order
  BY DEF Order
<1>2. QED BY <1>1 DEF Started, Place

(* The components stay with the design point.                              *)
LEMMA SameDesign ==
  ASSUME design' = design, DesignOK
  PROVE  DesignOK'
  BY DEF DesignOK, Design

(* The list read on by a configure.                                        *)
LEMMA ConfigureList ==
  ASSUME ListOK, LatestAre(covered), NEW t, NEW after, LegalConfigure(t, after), t.idle => IsMover(t.comp),
         conf' = [x \in Configured \cup {t} |-> IF x = t THEN after ELSE conf[x]],
         design' = design, starts' = starts, covered' = covered, waited' = waited
  PROVE  ListOK' /\ LatestAre(covered)' /\ DOMAIN conf' = Configured \cup {t}
         /\ Started' = Started /\ \A x \in Configured : conf'[x] = conf[x]
<1>1. Order' = Order /\ Started' = Started /\ \A x : Place(x)' = Place(x)
  BY SameOrder
<1>2. Components' = Components /\ DesignOK'
  BY SameMovers, SameDesign DEF ListOK
<1>3. /\ Configured' = Configured \cup {t} /\ t \notin Configured
      /\ conf'[t] = after /\ \A x \in Configured : conf'[x] = conf[x]
  BY DEF LegalConfigure, Configured
<1>4. ASSUME NEW x \in Configured'
      PROVE  x.comp \in Components' /\ (x.idle => IsMover(x.comp)') /\ conf'[x] \subseteq Configured'
  <2>1. CASE x = t
    BY <1>2, <1>3, <2>1 DEF LegalConfigure, IsMover
  <2>2. CASE x # t
    BY <1>2, <1>3, <2>2 DEF ListOK, IsMover
  <2>3. QED BY <2>1, <2>2
<1>5. Started' \subseteq Configured' /\ \A x \in Started' : conf'[x] \subseteq Started'
  BY <1>1, <1>3 DEF ListOK
<1>6. \A x, y \in Pending' : x.comp = y.comp => x = y
  <2>1. Pending' = Pending \cup {t}
    BY <1>1, <1>3 DEF Pending, ListOK
  <2>2. QED BY <2>1 DEF ListOK, LegalConfigure
<1>7. IsSeq(starts)' /\ IsSeq(Order)' /\ IsInjective(Order)'
  BY <1>1 DEF ListOK, IsSeq, IsInjective, ToSet
<1>8. ListOK'
  BY <1>1, <1>2, <1>4, <1>5, <1>6, <1>7 DEF ListOK
<1>9. LatestAre(covered)'
  BY <1>1 DEF LatestAre, IsDma, DMA
<1>10. QED BY <1>1, <1>3, <1>8, <1>9 DEF Configured

(* ... by a sync, or not at all.                                           *)
LEMMA SameList ==
  ASSUME ListOK, NEW cov, LatestAre(cov), UNCHANGED listVars,
         covered' = cov, covered' \subseteq Started, waited' \subseteq Started
  PROVE  ListOK' /\ LatestAre(covered)'
<1>1. Order' = Order /\ Started' = Started /\ \A x : Place(x)' = Place(x)
  BY SameOrder DEF listVars
<1>2. Components' = Components /\ DesignOK'
  BY SameMovers, SameDesign DEF ListOK, listVars
<1>3. Configured' = Configured /\ Pending' = Pending /\ conf' = conf /\ starts' = starts
  BY <1>1 DEF Configured, Pending, listVars
<1>4. IsSeq(starts)' /\ IsSeq(Order)' /\ IsInjective(Order)'
  BY <1>1, <1>3 DEF ListOK, IsSeq, IsInjective, ToSet
<1>5. ListOK'
  BY <1>1, <1>2, <1>3, <1>4 DEF ListOK, IsMover
<1>6. LatestAre(covered)'
  BY <1>1 DEF LatestAre, IsDma, DMA
<1>7. QED BY <1>5, <1>6

(* ... by a start: its tasks follow those already started.                 *)
LEMMA StartList ==
  ASSUME ListOK, NEW cov, LatestAre(cov), cov \subseteq Started, NEW ts, Startable(ts),
         \A t \in ToSet(ts) : conf[t] \subseteq Started,
         \A t \in ToSet(ts) : \A u \in Started : u.comp = t.comp /\ ~IsDma(u.comp) => u.idle \/ u \in cov,
         starts' = Append(starts, ts), design' = design, conf' = conf,
         covered' = cov, waited' \subseteq Started
  PROVE  /\ ListOK' /\ LatestAre(covered)' /\ Started' = Started \cup ToSet(ts)
         /\ \A t \in Started : Place(t)' = Place(t) /\ Place(t) \in 1 .. Len(Order)
         /\ \A t \in ToSet(ts) : \E i \in Nat : i > Len(Order) /\ Place(t)' = i
<1>1. Order' = Order \o ts
  BY FlattenAppend DEF Order, ListOK, Startable
<1>2. /\ IsSeq(Order) /\ IsSeq(ts) /\ IsInjective(Order) /\ IsInjective(ts)
      /\ DOMAIN Order = 1 .. Len(Order) /\ DOMAIN ts = 1 .. Len(ts)
      /\ Len(Order) \in Nat /\ Len(ts) \in Nat
  BY SeqFacts DEF ListOK, Startable
<1> DEFINE n == Len(Order)
           m == Len(ts)
           Q == Order \o ts
<1>3. /\ IsSeq(Q) /\ Len(Q) = n + m /\ DOMAIN Q = 1 .. n + m
      /\ \A i \in 1 .. n : Q[i] = Order[i]
      /\ \A i \in 1 .. m : Q[n + i] = ts[i]
  BY <1>2, Concat, SeqFacts
<1>4. \A i \in 1 .. n : Order[i] \in Started
  BY <1>2, SeqFacts DEF Started
<1>5. \A t \in Started : \E i \in 1 .. n : Order[i] = t
  BY <1>2, SeqFacts DEF Started
<1>6. \A i \in 1 .. m : ts[i] \in ToSet(ts) /\ ts[i] \in Pending /\ ts[i] \notin Started
  BY StartableIs DEF Pending
<1>7. \A t \in ToSet(ts) : \E i \in 1 .. m : ts[i] = t
  BY StartableIs
<1>o. \A i, j \in 1 .. n : Order[i] = Order[j] => i = j
  BY <1>2 DEF IsInjective
<1>t. \A i, j \in 1 .. m : ts[i] = ts[j] => i = j
  BY <1>2 DEF IsInjective
<1>c. Started = ToSet(Order)
  BY DEF Started
<1> HIDE DEF n, m, Q
<1>n. n \in Nat /\ m \in Nat
  BY <1>2 DEF n, m
<1>8. ASSUME NEW i \in 1 .. n + m
      PROVE  \/ i \in 1 .. n /\ Q[i] = Order[i] /\ Q[i] \in Started
             \/ i - n \in 1 .. m /\ i > n /\ Q[i] = ts[i - n] /\ Q[i] \in ToSet(ts) /\ Q[i] \notin Started
  <2>1. CASE i <= n
    <3>1. i \in 1 .. n
      BY <2>1
    <3>2. QED BY <1>3, <1>4, <3>1
  <2>2. CASE ~(i <= n)
    <3>1. i - n \in 1 .. m /\ i = n + (i - n)
      BY <1>n, <2>2
    <3>2. Q[i] = ts[i - n]
      BY <1>3, <3>1
    <3>3. QED BY <1>6, <1>n, <2>2, <3>1, <3>2
  <2>3. QED BY <2>1, <2>2
<1>9. ASSUME NEW i \in 1 .. n + m, NEW j \in 1 .. n + m, Q[i] = Q[j] PROVE i = j
  <2>1. CASE i \in 1 .. n /\ Q[i] = Order[i] /\ Q[i] \in Started
    <3>1. j \in 1 .. n /\ Q[j] = Order[j]
      BY <1>8, <1>9, <2>1
    <3>2. QED BY <1>9, <1>o, <2>1, <3>1
  <2>2. CASE i - n \in 1 .. m /\ i > n /\ Q[i] = ts[i - n] /\ Q[i] \notin Started
    <3>1. j - n \in 1 .. m /\ Q[j] = ts[j - n]
      BY <1>8, <1>9, <2>2
    <3>2. i - n = j - n
      BY <1>9, <1>t, <2>2, <3>1
    <3>3. QED BY <1>n, <3>2
  <2>3. QED BY <1>8, <2>1, <2>2
<1>10. ToSet(Q) = Started \cup ToSet(ts)
  <2>1. \A x \in ToSet(Q) : x \in Started \cup ToSet(ts)
    <3>1. \A x \in ToSet(Q) : \E i \in 1 .. n + m : Q[i] = x
      BY <1>3, SeqFacts
    <3>2. QED BY <1>8, <3>1
  <2>2. \A x \in Started : x \in ToSet(Q)
    <3> TAKE x \in Started
    <3>1. PICK i \in 1 .. n : Order[i] = x
      BY <1>5
    <3>2. Q[i] = x /\ i \in 1 .. n + m
      BY <1>3, <1>n, <3>1
    <3>3. QED BY <1>3, <3>2, SeqFacts
  <2>3. \A x \in ToSet(ts) : x \in ToSet(Q)
    <3> TAKE x \in ToSet(ts)
    <3>1. PICK i \in 1 .. m : ts[i] = x
      BY <1>7
    <3>2. Q[n + i] = x /\ n + i \in 1 .. n + m
      BY <1>3, <1>n, <3>1
    <3>3. QED BY <1>3, <3>2, SeqFacts
  <2>4. QED BY <2>1, <2>2, <2>3
<1>11. Order' = Q /\ Started' = Started \cup ToSet(ts)
  BY <1>1, <1>10 DEF Q, Started
<1>12. ASSUME NEW t, NEW i \in 1 .. n + m, Q[i] = t PROVE Place(t)' = i
  <2> DEFINE p == CHOOSE j \in DOMAIN Q : Q[j] = t
  <2>1. p \in 1 .. n + m /\ Q[p] = t
    BY <1>3, <1>12
  <2>2. Place(t)' = p
    BY <1>11 DEF Place
  <2> HIDE DEF p
  <2>3. QED BY <1>9, <1>12, <2>1, <2>2
<1>13. ASSUME NEW t \in Started PROVE Place(t)' = Place(t) /\ Place(t) \in 1 .. n
  <2>1. Place(t) \in 1 .. n /\ Order[Place(t)] = t
    BY PlaceIs DEF n
  <2>2. Place(t) \in 1 .. n + m /\ Q[Place(t)] = t
    BY <1>3, <1>n, <2>1
  <2>3. QED BY <1>12, <2>1, <2>2
<1>14. ASSUME NEW t \in ToSet(ts) PROVE \E i \in 1 .. n + m : i > n /\ Place(t)' = i
  <2>1. PICK i \in 1 .. m : ts[i] = t
    BY <1>7
  <2>2. Q[n + i] = t /\ n + i \in 1 .. n + m /\ n + i > n
    BY <1>3, <1>n, <2>1
  <2>3. QED BY <1>12, <2>2
<1>15. LatestAre(covered)'
  <2> SUFFICES ASSUME NEW t \in Started', ~IsDma(t.comp), ~t.idle, t \notin cov,
                      NEW u \in Started', u.comp = t.comp
               PROVE  Place(u)' <= Place(t)'
    BY DEF LatestAre, IsDma, DMA
  <2>1. CASE t \in Started
    <3>1. u \in Started
      BY <1>11, <2>1
    <3>2. Place(u) <= Place(t)
      BY <2>1, <3>1 DEF LatestAre
    <3>3. QED BY <1>13, <2>1, <3>1, <3>2
  <2>2. CASE t \in ToSet(ts) /\ u \in Started
    BY <1>13, <1>14, <1>n, <2>2
  <2>3. CASE t \in ToSet(ts) /\ u \in ToSet(ts)
    <3>1. t = u
      BY <2>3 DEF Startable, ListOK
    <3>2. QED BY <1>14, <1>n, <2>3, <3>1
  <2>4. QED BY <1>11, <2>1, <2>2, <2>3
<1>16. Components' = Components /\ DesignOK'
  BY SameMovers, SameDesign DEF ListOK
<1>17. Configured' = Configured /\ Pending' = Pending \ ToSet(ts)
  BY <1>11 DEF Configured, Pending
<1>18. ToSet(ts) \subseteq Configured
  BY DEF Startable, Pending
<1>19. IsSeq(starts')
  BY Added DEF ListOK
<1>20. IsSeq(Order') /\ IsInjective(Order')
  BY <1>3, <1>9, <1>11 DEF IsInjective
<1>21. IsSeq(starts)' /\ IsSeq(Order)' /\ IsInjective(Order)'
  BY <1>19, <1>20 DEF IsSeq, IsInjective, ToSet
<1>22. Started' \subseteq Configured' /\ \A x \in Started' : conf'[x] \subseteq Started'
  BY <1>11, <1>17, <1>18 DEF ListOK
<1>23. \A x \in Configured' : x.comp \in Components' /\ (x.idle => IsMover(x.comp)') /\ conf'[x] \subseteq Configured'
  BY <1>16, <1>17 DEF ListOK, IsMover
<1>24. covered' \subseteq Started' /\ waited' \subseteq Started'
  BY <1>11
<1>25. \A x, y \in Pending' : x.comp = y.comp => x = y
  BY <1>17 DEF ListOK
<1>26. ListOK'
  BY <1>16, <1>21, <1>22, <1>23, <1>24, <1>25 DEF ListOK
<1>27. \A x \in ToSet(ts) : \E i \in Nat : i > Len(Order) /\ Place(x)' = i
  BY <1>14, <1>n DEF n
<1>28. \A x \in Started : Place(x)' = Place(x) /\ Place(x) \in 1 .. Len(Order)
  BY <1>13 DEF n
<1>29. QED BY <1>11, <1>15, <1>26, <1>27, <1>28

-----------------------------------------------------------------------------
(* The lowering keeps its part of the invariant.                           *)

(* The steps of a list: idle tasks are movers', a start's tasks a sequence. *)
StepOK(x) ==
  /\ x.op = "configure" /\ x.task.idle => IsMover(x.task.comp)
  /\ x.op = "start" => IsSeq(x.tasks)
(* The steps still to lower are such.                                      *)
StepsAre == IsSeq(steps) /\ \A i \in 1 .. Len(steps) : StepOK(steps[i])

(* The lowering's part of the invariant: the list read so far keeps the    *)
(* rules, the program written so far keeps what it is to keep.             *)
LowerInv == ListOK /\ ProgramIs(lines, covered, waited) /\ StepsAre

(* Lowering a configure keeps it ...                                       *)
LEMMA ConfigureStep ==
  ASSUME ListOK, ProgramIs(lines, covered, waited), NEW t, NEW after, t.idle => IsMover(t.comp),
         LegalConfigure(t, after),
         conf' = [x \in Configured \cup {t} |-> IF x = t THEN after ELSE conf[x]],
         lines' = Emit(lines, CoreOf(t.comp), ConfigCode(t)),
         UNCHANGED <<design, starts, covered, waited>>
  PROVE  ListOK' /\ ProgramIs(lines, covered, waited)'
<1>1. LatestAre(covered)
  BY DEF ProgramIs
<1>2. /\ ListOK' /\ LatestAre(covered)' /\ DOMAIN conf' = Configured \cup {t}
      /\ Started' = Started /\ \A x \in Configured : conf'[x] = conf[x]
  BY <1>1, ConfigureList
<1>3. t \notin Configured /\ t.comp \in Components /\ \A p \in Pending : p.comp # t.comp
  BY DEF LegalConfigure
<1>4. ProgramOn(lines', covered, waited, conf', Started)
  BY <1>2, <1>3, ConfigureKeeps DEF ProgramIs
<1>5. ProgramOn(lines', covered', waited', conf', Started')
  BY <1>2, <1>4
<1>6. ProgramOn(lines, covered, waited, conf, Started)'
  BY <1>5, SameProgram
<1>7. QED BY <1>2, <1>6 DEF ProgramIs

(* ... a start, its waits placed before it ...                             *)
LEMMA StartStep ==
  ASSUME ListOK, ProgramIs(lines, covered, waited), NEW ts, IsSeq(ts), LegalStart(ts), ~Partial(ts),
         starts' = Append(starts, ts),
         covered' = CoveredBy(ts), waited' = Waits(ts).waited,
         lines' = StartAll(Waits(ts).lines, ts),
         UNCHANGED <<design, conf>>
  PROVE  ListOK' /\ ProgramIs(lines, covered, waited)'
<1>1. Startable(ts) /\ \A t \in ToSet(ts) : conf[t] \subseteq Started
  BY DEF LegalStart, Startable
<1> DEFINE N == Waits(ts).lines
           cov == CoveredBy(ts)
           wtd == Waits(ts).waited
<1>2. /\ ProgramIs(N, cov, wtd) /\ wtd = waited \cup OnOf(WaitsOf(ts))
      /\ \A t \in ToSet(ts) : \A u \in Started : u.comp = t.comp /\ ~IsDma(u.comp) => u.idle \/ u \in cov
      /\ \A t \in ToSet(ts) : \A a \in conf[t] :
           a.idle \/ Past(N[CoreOf(a.comp)], Len(N[CoreOf(a.comp)]) + 1, a)
  BY <1>1, StartReady
<1>3. cov \subseteq Started /\ wtd \subseteq Started
  BY <1>2 DEF ListOK, CoveredBy, OnOf, On
<1> HIDE DEF N, cov, wtd
<1>4. ProgramOn(N, cov, wtd, conf, Started) /\ LatestAre(cov) /\ LinesAre(N)
  BY <1>2 DEF ProgramIs, ProgramOn
<1> DEFINE M == StartAll(N, ts)
<1>5. Grown(N, M, ts)
  BY <1>1, <1>4, StartGrows
<1>6. lines' = M /\ covered' = cov /\ waited' = wtd
  BY DEF N, cov, wtd
<1> HIDE DEF M
<1>7. ListOK' /\ LatestAre(covered)' /\ Started' = Started \cup ToSet(ts)
  <2>1. waited' \subseteq Started
    BY <1>3, <1>6
  <2>2. QED BY <1>1, <1>2, <1>3, <1>4, <1>6, <2>1, StartList
<1>8. ProgramOn(M, cov, wtd, conf, Started \cup ToSet(ts))
  BY <1>1, <1>2, <1>4, <1>5, StartKeeps
<1>9. ProgramOn(lines', covered', waited', conf', Started')
  BY <1>6, <1>7, <1>8
<1>10. ProgramOn(lines, covered, waited, conf, Started)'
  BY <1>9, SameProgram
<1>11. QED BY <1>7, <1>10 DEF ProgramIs

(* ... a sync ...                                                          *)
LEMMA SyncKeeps ==
  ASSUME ListOK, ProgramIs(lines, covered, waited), NEW t, LegalSync(t),
         covered' = covered \cup On(Covers(t.comp)),
         waited' = WaitAll(<<t.comp>>, Cores).waited, lines' = WaitAll(<<t.comp>>, Cores).lines,
         UNCHANGED listVars
  PROVE  ListOK' /\ ProgramIs(lines, covered, waited)'
<1> DEFINE cs == <<t.comp>>
           cov == covered \cup On(Covers(t.comp))
           P == WaitAll(cs, Cores)
<1>1. t \in Started /\ t.comp \in Components
  BY DEF LegalSync, ListOK
<1>2. IsSeq(cs) /\ Len(cs) = 1 /\ cs[1] = t.comp
  BY Single
<1> HIDE DEF cs
<1>3. \A i \in 1 .. Len(cs) : cs[i] \in Components
  BY <1>1, <1>2
<1>4. covered \subseteq cov /\ cov \subseteq Started
      /\ \A u \in cov \ covered : u \in Started /\ (~IsDma(u.comp) => \E i \in 1 .. Len(cs) : u.comp \in Covers(cs[i]))
  <2>1. 1 \in 1 .. Len(cs)
    BY <1>2
  <2>2. QED BY <1>2, <2>1 DEF On, ListOK
<1> HIDE DEF cov
<1>5. ProgramIs(P.lines, cov, P.waited) /\ P.waited = waited \cup OnOf(cs)
  BY <1>2, <1>3, <1>4, AfterWaits
<1>6. lines' = P.lines /\ covered' = cov /\ waited' = P.waited
  BY DEF cs, cov
<1> HIDE DEF P
<1>7. waited' \subseteq Started /\ covered' \subseteq Started
  BY <1>4, <1>5, <1>6 DEF ListOK, OnOf, On
<1>8. ProgramOn(P.lines, cov, P.waited, conf, Started) /\ LatestAre(cov)
  BY <1>5 DEF ProgramIs
<1>9. ListOK' /\ LatestAre(covered)'
  BY <1>6, <1>7, <1>8, SameList
<1>10. conf' = conf /\ Started' = Started /\ design' = design
  BY SameOrder DEF listVars
<1>11. ProgramOn(lines', covered', waited', conf', Started')
  BY <1>6, <1>8, <1>10
<1>12. ProgramOn(lines, covered, waited, conf, Started)'
  BY <1>10, <1>11, SameProgram
<1>13. QED BY <1>9, <1>12 DEF ProgramIs

(* ... and a step that emits nothing.                                      *)
LEMMA NoneKeeps ==
  ASSUME ListOK, ProgramIs(lines, covered, waited), UNCHANGED <<listVars, covered, waited, lines>>
  PROVE  ListOK' /\ ProgramIs(lines, covered, waited)'
<1>1. LatestAre(covered) /\ covered \subseteq Started /\ waited \subseteq Started
      /\ ProgramOn(lines, covered, waited, conf, Started)
  BY DEF ProgramIs, ListOK
<1>2. ListOK' /\ LatestAre(covered)'
  BY <1>1, SameList
<1>3. conf' = conf /\ Started' = Started /\ design' = design
  BY SameOrder DEF listVars
<1>4. ProgramOn(lines', covered', waited', conf', Started')
  BY <1>1, <1>3
<1>5. ProgramOn(lines, covered, waited, conf, Started)'
  BY <1>3, <1>4, SameProgram
<1>6. QED BY <1>2, <1>5 DEF ProgramIs

(* Every step of the lowering keeps its part of the invariant.             *)
LEMMA LowerKeeps ==
  ASSUME LowerInv, Lower PROVE LowerInv'
<1> DEFINE x == Head(steps)
<1>1. IsSeq(steps) /\ steps # <<>> /\ \A i \in 1 .. Len(steps) : StepOK(steps[i])
  BY DEF LowerInv, StepsAre, Lower
<1>2. /\ x = steps[1] /\ 1 \in 1 .. Len(steps)
      /\ IsSeq(Tail(steps)) /\ Len(Tail(steps)) \in Nat
      /\ \A i \in 1 .. Len(Tail(steps)) : Tail(steps)[i] = steps[i + 1] /\ i + 1 \in 1 .. Len(steps)
  BY <1>1, TailIs
<1>3. StepOK(x)
  BY <1>1, <1>2
<1>4. StepsAre'
  <2>1. steps' = Tail(steps)
    BY DEF Lower
  <2>2. \A i \in 1 .. Len(Tail(steps)) : StepOK(Tail(steps)[i])
    BY <1>1, <1>2
  <2>3. IsSeq(steps)'
    BY <1>2, <2>1 DEF IsSeq, ToSet
  <2>4. QED BY <2>1, <2>2, <2>3 DEF StepsAre
<1> HIDE DEF x
<1>5. ListOK /\ ProgramIs(lines, covered, waited)
  BY DEF LowerInv
<1>6. CASE Refuse
  BY <1>4, <1>5, <1>6, NoneKeeps DEF Refuse, LowerInv
<1>7. CASE x.op = "configure" /\ Configure(x.task, x.after) /\ ~Refuse
  <2> DEFINE t == x.task
             after == x.after
  <2>1. /\ LegalConfigure(t, after)
        /\ conf' = [y \in Configured \cup {t} |-> IF y = t THEN after ELSE conf[y]]
        /\ lines' = Emit(lines, CoreOf(t.comp), ConfigCode(t))
        /\ UNCHANGED <<design, starts, covered, waited>>
    BY <1>7 DEF Configure
  <2>2. t.idle => IsMover(t.comp)
    BY <1>3, <1>7 DEF StepOK
  <2> HIDE DEF t, after
  <2>3. ListOK' /\ ProgramIs(lines, covered, waited)'
    BY <1>5, <2>1, <2>2, ConfigureStep
  <2>4. QED BY <1>4, <2>3 DEF LowerInv
<1>8. CASE x.op = "start" /\ Start(x.tasks) /\ ~Refuse
  <2> DEFINE ts == x.tasks
  <2>1. /\ LegalStart(ts) /\ ~Partial(ts)
        /\ starts' = Append(starts, ts)
        /\ covered' = CoveredBy(ts) /\ waited' = Waits(ts).waited
        /\ lines' = StartAll(Waits(ts).lines, ts)
        /\ UNCHANGED <<design, conf>>
    BY <1>8 DEF Start, CoveredBy, Waits
  <2>2. IsSeq(ts)
    BY <1>3, <1>8 DEF StepOK
  <2> HIDE DEF ts
  <2>3. ListOK' /\ ProgramIs(lines, covered, waited)'
    BY <1>5, <2>1, <2>2, StartStep
  <2>4. QED BY <1>4, <2>3 DEF LowerInv
<1>9. CASE x.op = "sync" /\ Sync(x.task) /\ ~Refuse
  <2> DEFINE t == x.task
  <2>1. /\ LegalSync(t)
        /\ covered' = covered \cup On(Covers(t.comp))
        /\ waited' = WaitAll(<<t.comp>>, Cores).waited /\ lines' = WaitAll(<<t.comp>>, Cores).lines
        /\ UNCHANGED listVars
    BY <1>9 DEF Sync
  <2> HIDE DEF t
  <2>2. ListOK' /\ ProgramIs(lines, covered, waited)'
    BY <1>5, <2>1, SyncKeeps
  <2>3. QED BY <1>4, <2>2 DEF LowerInv
<1>10. QED BY <1>6, <1>7, <1>8, <1>9 DEF Lower, x

-----------------------------------------------------------------------------
(* The cores, registers and engines.                                       *)

(* The registers hold what the last configure passed wrote.                *)
RegsAre(p, r) ==
  LET L == lines[SlotCore]
      n == p[SlotCore] - 1
  IN /\ \A i \in 1 .. n : \A t : L[i] = Instr("config", t) => t.comp \in DOMAIN r
     /\ \A c \in DOMAIN r : \E i \in 1 .. n :
          L[i] = Instr("config", r[c]) /\ r[c].comp = c /\ \A q \in i + 1 .. n : ~Writes(L[q], c)

(* A task under way was launched, its component not polled since.          *)
UnderAre(p, a, Q) ==
  /\ \A t \in a : ~IsDma(t.comp) /\ ~t.idle
  /\ \A t \in Q : IsDma(t.comp)
  /\ \A t \in a \cup Q : \E q \in 1 .. p[CoreOf(t.comp)] - 1 :
       /\ Goes(lines[CoreOf(t.comp)], q, t)
       /\ \A i \in q + 1 .. p[CoreOf(t.comp)] - 1 : ~Polls(lines[CoreOf(t.comp)][i], t.comp)

(* What the cores have passed is launched, and nothing else.               *)
PassedAre(p, G) ==
  /\ \A k \in Cores : \A q \in 1 .. p[k] - 1 : \A t : Goes(lines[k], q, t) => t.idle \/ t \in G
  /\ \A t \in G : \E q \in 1 .. p[CoreOf(t.comp)] - 1 : Goes(lines[CoreOf(t.comp)], q, t)

(* Every core is at an instruction of its function or at its end.          *)
PcsAre(p) == p = [k \in Cores |-> p[k]] /\ \A k \in Cores : p[k] \in 1 .. Len(lines[k]) + 1

(* The cores at p, the registers r, the tasks a and Q under way, e over.   *)
RunOn(p, r, a, Q, e) ==
  PcsAre(p) /\ RegsAre(p, r) /\ UnderAre(p, a, Q) /\ PassedAre(p, a \cup Q \cup e)

(* What is said of the run depends on the program and the design point     *)
(* only.                                                                   *)
LEMMA SameRun ==
  ASSUME design' = design, lines' = lines
  PROVE  \A p, r, a, Q, e : RunOn(p, r, a, Q, e)' <=> RunOn(p, r, a, Q, e)
<1>1. \A p : PcsAre(p)' <=> PcsAre(p)
  BY DEF PcsAre
<1>2. \A p, r : RegsAre(p, r)' <=> RegsAre(p, r)
  BY DEF RegsAre, Instr, Writes
<1>3. \A p, a, Q : UnderAre(p, a, Q)' <=> UnderAre(p, a, Q)
  <2>1. /\ \A c : CoreOf(c)' = CoreOf(c)
        /\ \A L, j, t : Goes(L, j, t)' <=> Goes(L, j, t)
        /\ \A x, c : Polls(x, c)' <=> Polls(x, c)
    BY SameMovers, SameGoes, SameInstr
  <2>2. ASSUME NEW p, NEW a, NEW Q, UnderAre(p, a, Q) PROVE UnderAre(p, a, Q)'
    BY <2>1, <2>2 DEF UnderAre, IsDma, DMA
  <2>3. ASSUME NEW p, NEW a, NEW Q, UnderAre(p, a, Q)' PROVE UnderAre(p, a, Q)
    BY <2>1, <2>3 DEF UnderAre, IsDma, DMA
  <2>4. QED BY <2>2, <2>3
<1>4. \A p, G : PassedAre(p, G)' <=> PassedAre(p, G)
  BY SameGoes, SameMovers DEF PassedAre
<1>5. QED BY <1>1, <1>2, <1>3, <1>4 DEF RunOn

(* The cores of K go on by an instruction each.                            *)
Further(p, K) == [k \in Cores |-> IF k \in K THEN p[k] + 1 ELSE p[k]]

(* Cores that go on stay within their functions.                           *)
LEMMA FurtherIs ==
  ASSUME PcsAre(pc), LinesAre(lines), NEW K, K \subseteq Cores, \A k \in K : pc[k] <= Len(lines[k])
  PROVE  /\ PcsAre(Further(pc, K))
         /\ \A k \in Cores : /\ Len(lines[k]) \in Nat /\ pc[k] \in Nat /\ pc[k] >= 1
                             /\ k \in K => Further(pc, K)[k] = pc[k] + 1 /\ pc[k] \in 1 .. Len(lines[k])
                             /\ k \notin K => Further(pc, K)[k] = pc[k]
<1>1. ASSUME NEW k \in Cores
      PROVE  /\ Len(lines[k]) \in Nat /\ pc[k] \in Nat /\ pc[k] >= 1
             /\ k \in K => Further(pc, K)[k] = pc[k] + 1 /\ pc[k] \in 1 .. Len(lines[k])
             /\ k \notin K => Further(pc, K)[k] = pc[k]
  <2>1. IsSeq(lines[k]) /\ pc[k] \in 1 .. Len(lines[k]) + 1
    BY DEF LinesAre, PcsAre
  <2>2. Len(lines[k]) \in Nat
    BY <2>1, SeqFacts
  <2>3. /\ k \in K => Further(pc, K)[k] = pc[k] + 1
        /\ k \notin K => Further(pc, K)[k] = pc[k]
    BY DEF Further
  <2>4. QED BY <2>1, <2>2, <2>3
<1>2. \A k \in Cores : Further(pc, K)[k] \in 1 .. Len(lines[k]) + 1
  BY <1>1 DEF PcsAre
<1>3. Further(pc, K) = [k \in Cores |-> Further(pc, K)[k]]
  BY DEF Further
<1>4. QED BY <1>1, <1>2, <1>3 DEF PcsAre

(* Cores that go on keep what is said of the run: what they poll is not    *)
(* under way, what they launch is.                                         *)
LEMMA Advance ==
  ASSUME DesignOK, LinesAre(lines), NEW a, NEW Q, NEW e, NEW r, RunOn(pc, r, a, Q, e),
         NEW K, K \subseteq Cores, \A k \in K : pc[k] <= Len(lines[k]),
         NEW p, p = Further(pc, K), NEW a2, a \subseteq a2, NEW Q2, Q \subseteq Q2, NEW r2, RegsAre(p, r2),
         \A t \in a \cup Q : CoreOf(t.comp) \in K => ~Polls(lines[CoreOf(t.comp)][pc[CoreOf(t.comp)]], t.comp),
         \A t \in (a2 \cup Q2) \ (a \cup Q) :
           CoreOf(t.comp) \in K /\ Goes(lines[CoreOf(t.comp)], pc[CoreOf(t.comp)], t),
         \A t \in a2 : ~IsDma(t.comp) /\ ~t.idle,
         \A t \in Q2 : IsDma(t.comp),
         \A k \in K : \A t : Goes(lines[k], pc[k], t) => t.idle \/ t \in a2 \cup Q2
  PROVE  RunOn(p, r2, a2, Q2, e)
<1>1. /\ PcsAre(p)
      /\ \A k \in Cores : /\ Len(lines[k]) \in Nat /\ pc[k] \in Nat /\ pc[k] >= 1
                          /\ k \in K => p[k] = pc[k] + 1 /\ pc[k] \in 1 .. Len(lines[k])
                          /\ k \notin K => p[k] = pc[k]
  BY FurtherIs DEF RunOn
<1>2. \A c : CoreOf(c) \in Cores
  BY CoresIs
<1>3. ASSUME NEW k \in Cores, NEW q \in 1 .. p[k] - 1 PROVE q \in 1 .. pc[k] - 1 \/ (k \in K /\ q = pc[k])
  <2>1. CASE k \in K
    BY <1>1, <2>1
  <2>2. CASE k \notin K
    BY <1>1, <2>2
  <2>3. QED BY <2>1, <2>2
<1>4. \A k \in Cores : \A q \in 1 .. pc[k] - 1 : q \in 1 .. p[k] - 1
  BY <1>1
<1>5. \A k \in K : pc[k] \in 1 .. p[k] - 1
  BY <1>1
<1>6. ASSUME NEW t \in a \cup Q
      PROVE  \E q \in 1 .. p[CoreOf(t.comp)] - 1 :
               /\ Goes(lines[CoreOf(t.comp)], q, t)
               /\ \A i \in q + 1 .. p[CoreOf(t.comp)] - 1 : ~Polls(lines[CoreOf(t.comp)][i], t.comp)
  <2> DEFINE k == CoreOf(t.comp)
  <2>1. k \in Cores
    BY <1>2
  <2>2. PICK q \in 1 .. pc[k] - 1 : Goes(lines[k], q, t) /\ \A i \in q + 1 .. pc[k] - 1 : ~Polls(lines[k][i], t.comp)
    BY DEF RunOn, UnderAre
  <2>3. k \in K => ~Polls(lines[k][pc[k]], t.comp)
    OBVIOUS
  <2> HIDE DEF k
  <2>4. ASSUME NEW i \in q + 1 .. p[k] - 1 PROVE ~Polls(lines[k][i], t.comp)
    <3>1. i \in 1 .. p[k] - 1
      BY <1>1, <2>1
    <3>2. CASE i \in 1 .. pc[k] - 1
      <4>1. i \in q + 1 .. pc[k] - 1
        BY <1>1, <2>1, <3>2
      <4>2. QED BY <2>2, <4>1
    <3>3. CASE k \in K /\ i = pc[k]
      BY <2>3, <3>3
    <3>4. QED BY <1>3, <2>1, <3>1, <3>2, <3>3
  <2>5. q \in 1 .. p[k] - 1
    BY <1>4, <2>1
  <2>6. QED BY <2>2, <2>4, <2>5 DEF k
<1>7. ASSUME NEW t \in (a2 \cup Q2) \ (a \cup Q)
      PROVE  \E q \in 1 .. p[CoreOf(t.comp)] - 1 :
               /\ Goes(lines[CoreOf(t.comp)], q, t)
               /\ \A i \in q + 1 .. p[CoreOf(t.comp)] - 1 : ~Polls(lines[CoreOf(t.comp)][i], t.comp)
  <2> DEFINE k == CoreOf(t.comp)
  <2>1. k \in K /\ Goes(lines[k], pc[k], t)
    OBVIOUS
  <2> HIDE DEF k
  <2>2. \A i \in pc[k] + 1 .. p[k] - 1 : FALSE
    BY <1>1, <2>1
  <2>3. pc[k] \in 1 .. p[k] - 1
    BY <1>5, <2>1
  <2>4. QED BY <2>1, <2>2, <2>3 DEF k
<1>8. UnderAre(p, a2, Q2)
  <2>1. \A t \in a2 \cup Q2 : t \in a \cup Q \/ t \in (a2 \cup Q2) \ (a \cup Q)
    OBVIOUS
  <2>2. QED BY <1>6, <1>7, <2>1 DEF UnderAre
<1>9. PassedAre(p, a2 \cup Q2 \cup e)
  <2>1. ASSUME NEW k \in Cores, NEW q \in 1 .. p[k] - 1, NEW t, Goes(lines[k], q, t)
        PROVE  t.idle \/ t \in a2 \cup Q2 \cup e
    <3>1. CASE q \in 1 .. pc[k] - 1
      BY <2>1, <3>1 DEF RunOn, PassedAre
    <3>2. CASE k \in K /\ q = pc[k]
      BY <2>1, <3>2
    <3>3. QED BY <1>3, <2>1, <3>1, <3>2
  <2>2. ASSUME NEW t \in a2 \cup Q2 \cup e
        PROVE  \E q \in 1 .. p[CoreOf(t.comp)] - 1 : Goes(lines[CoreOf(t.comp)], q, t)
    <3>1. CASE t \in (a2 \cup Q2) \ (a \cup Q)
      BY <1>7, <3>1
    <3>2. CASE t \in a \cup Q \cup e
      <4>1. PICK q \in 1 .. pc[CoreOf(t.comp)] - 1 : Goes(lines[CoreOf(t.comp)], q, t)
        BY <3>2 DEF RunOn, PassedAre
      <4>2. q \in 1 .. p[CoreOf(t.comp)] - 1
        BY <1>2, <1>4
      <4>3. QED BY <4>1, <4>2
    <3>3. QED BY <3>1, <3>2
  <2>3. QED BY <2>1, <2>2 DEF PassedAre
<1>10. QED BY <1>1, <1>8, <1>9 DEF RunOn

(* No register is written: they are what they were.                        *)
LEMMA RegsStay ==
  ASSUME LinesAre(lines), PcsAre(pc), NEW r, RegsAre(pc, r),
         NEW K, K \subseteq Cores, \A k \in K : pc[k] <= Len(lines[k]),
         SlotCore \in K => lines[SlotCore][pc[SlotCore]].op # "config"
  PROVE  RegsAre(Further(pc, K), r)
<1>0. SlotCore \in Cores
  BY CoresAssumption
<1>1. /\ pc[SlotCore] \in Nat /\ pc[SlotCore] >= 1
      /\ SlotCore \in K => Further(pc, K)[SlotCore] = pc[SlotCore] + 1
      /\ SlotCore \notin K => Further(pc, K)[SlotCore] = pc[SlotCore]
  BY <1>0, FurtherIs
<1> DEFINE L == lines[SlotCore]
           n == pc[SlotCore] - 1
           m == Further(pc, K)[SlotCore] - 1
<1>2. n \in Nat /\ (m = n \/ (m = n + 1 /\ L[n + 1].op # "config"))
  BY <1>1
<1>3. /\ \A i \in 1 .. n : \A t : L[i] = Instr("config", t) => t.comp \in DOMAIN r
      /\ \A c \in DOMAIN r : \E i \in 1 .. n :
           L[i] = Instr("config", r[c]) /\ r[c].comp = c /\ \A q \in i + 1 .. n : ~Writes(L[q], c)
  BY DEF RegsAre
<1> HIDE DEF L, n, m
<1>4. \A i \in 1 .. m : i \in 1 .. n \/ L[i].op # "config"
  BY <1>2
<1>5. ASSUME NEW i \in 1 .. m, NEW t, L[i] = Instr("config", t) PROVE t.comp \in DOMAIN r
  <2>1. L[i].op = "config"
    BY <1>5, InstrIs
  <2>2. QED BY <1>3, <1>4, <1>5, <2>1
<1>6. ASSUME NEW c \in DOMAIN r
      PROVE  \E i \in 1 .. m : L[i] = Instr("config", r[c]) /\ r[c].comp = c /\ \A q \in i + 1 .. m : ~Writes(L[q], c)
  <2>1. PICK i \in 1 .. n : L[i] = Instr("config", r[c]) /\ r[c].comp = c /\ \A q \in i + 1 .. n : ~Writes(L[q], c)
    BY <1>3
  <2>2. ASSUME NEW q \in i + 1 .. m PROVE ~Writes(L[q], c)
    <3>1. CASE q \in 1 .. n
      <4>1. q \in i + 1 .. n
        BY <3>1
      <4>2. QED BY <2>1, <4>1
    <3>2. CASE q \notin 1 .. n
      <4>1. q \in 1 .. m
        BY <1>2
      <4>2. QED BY <1>4, <3>2, <4>1 DEF Writes
    <3>3. QED BY <3>1, <3>2
  <2>3. i \in 1 .. m
    BY <1>2
  <2>4. QED BY <2>1, <2>2, <2>3
<1>7. QED BY <1>5, <1>6 DEF RegsAre, L, n, m

(* A launch finds its own configure in the registers.                      *)
LEMMA RegsHold ==
  ASSUME LinesAre(lines), PcsAre(pc), NEW r, RegsAre(pc, r), NEW t, ~IsDma(t.comp),
         Goes(lines[SlotCore], pc[SlotCore], t)
  PROVE  t.comp \in DOMAIN r /\ r[t.comp] = t
<1>0. SlotCore \in Cores /\ pc[SlotCore] \in Nat
  BY CoresAssumption, SeqFacts DEF PcsAre, LinesAre
<1> DEFINE L == lines[SlotCore]
           n == pc[SlotCore] - 1
           c == t.comp
<1>1. PICK i \in 1 .. n : Wrote(L, i, n + 1, t)
  BY <1>0 DEF Goes
<1>2. /\ \A y \in 1 .. n : \A u : L[y] = Instr("config", u) => u.comp \in DOMAIN r
      /\ \A d \in DOMAIN r : \E y \in 1 .. n :
           L[y] = Instr("config", r[d]) /\ r[d].comp = d /\ \A q \in y + 1 .. n : ~Writes(L[q], d)
  BY DEF RegsAre
<1>3. n \in Int
  BY <1>0
<1> HIDE DEF L, n
<1>4. L[i] = Instr("config", t) /\ \A q \in i + 1 .. n : ~Touches(L[q], c)
  BY <1>1, <1>3 DEF Wrote
<1>5. c \in DOMAIN r
  BY <1>2, <1>4
<1>6. PICK y \in 1 .. n : L[y] = Instr("config", r[c]) /\ r[c].comp = c /\ \A q \in y + 1 .. n : ~Writes(L[q], c)
  BY <1>2, <1>5
<1>7. Writes(L[i], c) /\ Writes(L[y], c) /\ Touches(L[y], c)
  BY <1>4, <1>6, InstrIs DEF Writes, Touches
<1>8. ~(i < y) /\ ~(y < i)
  BY <1>4, <1>6, <1>7
<1>9. i = y
  BY <1>8
<1>10. QED BY <1>4, <1>5, <1>6, <1>9, InstrIs

(* The program is as the lowering wrote it; the cluster as it left it.     *)
AsLowered == ListOK /\ ProgramOn(lines, covered, waited, conf, Started)
(* The cluster's part of the invariant: it runs that program.              *)
RunInv == RunOn(pc, regs, active, ToSet(queue), ended) /\ IsSeq(queue)

(* What of the program the run rests on.                                   *)
LEMMA WrittenIs ==
  ASSUME AsLowered
  PROVE  DesignOK /\ LinesAre(lines) /\ LaunchesAre(lines, Started) /\ SlotCore \in Cores
  BY CoresAssumption DEF AsLowered, ListOK, ProgramOn

(* The parts of the run.                                                   *)
LEMMA RunIs ==
  ASSUME RunInv
  PROVE  /\ PcsAre(pc) /\ RegsAre(pc, regs) /\ UnderAre(pc, active, ToSet(queue))
         /\ PassedAre(pc, Launched)
  BY DEF RunInv, RunOn, Launched

(* A core's step is at an instruction of its function and goes on by one.  *)
LEMMA StepIs ==
  ASSUME AsLowered, RunInv, NEW k \in Cores, NEW op, Step(k, op)
  PROVE  /\ pc' = Further(pc, {k}) /\ pc[k] \in 1 .. Len(lines[k]) /\ pc[k] <= Len(lines[k])
         /\ lines[k][pc[k]] = At(k) /\ lines[k][pc[k]].op = op
<1>1. IsSeq(lines[k]) /\ pc[k] \in 1 .. Len(lines[k]) + 1 /\ pc = [c \in Cores |-> pc[c]]
  BY WrittenIs, RunIs DEF LinesAre, PcsAre
<1>2. Len(lines[k]) \in Nat
  BY <1>1, SeqFacts
<1>3. pc[k] <= Len(lines[k])
  BY <1>1, <1>2 DEF Step, Over
<1>4. pc' = [pc EXCEPT ![k] = pc[k] + 1]
  BY DEF Step
<1>5. pc' = Further(pc, {k})
  <2>1. pc' = [c \in Cores |-> IF c = k THEN pc[k] + 1 ELSE pc[c]]
    BY <1>1, <1>4
  <2>2. QED BY <2>1 DEF Further
<1>6. At(k).op = op
  BY DEF Step
<1>7. lines[k][pc[k]] = At(k)
  BY DEF At
<1>8. QED BY <1>1, <1>2, <1>3, <1>5, <1>6, <1>7

(* An instruction launches a started task of its core.                     *)
LEMMA LaunchIs ==
  ASSUME AsLowered, NEW k \in Cores, NEW j \in 1 .. Len(lines[k]), NEW c, Launches(lines[k][j], c)
  PROVE  CoreOf(c) = k /\ \E t \in Started : t.comp = c /\ Goes(lines[k], j, t)
  BY WrittenIs DEF LaunchesAre

(* What holds at the next state holds of its variables.                    *)
LEMMA RunKept ==
  ASSUME design' = design, lines' = lines, RunOn(pc', regs', active', ToSet(queue'), ended'), IsSeq(queue')
  PROVE  RunInv'
<1>1. RunOn(pc, regs, active, ToSet(queue), ended)'
  <2>1. ToSet(queue)' = ToSet(queue')
    BY DEF ToSet
  <2>2. QED BY <2>1, SameRun
<1>2. IsSeq(queue)'
  BY DEF IsSeq, ToSet
<1>3. QED BY <1>1, <1>2 DEF RunInv

(* Cores that only poll, read counters or meet.                            *)
LEMMA WaitsKeep ==
  ASSUME AsLowered, RunInv, NEW K, K \subseteq Cores,
         \A k \in K : pc[k] <= Len(lines[k]) /\ lines[k][pc[k]].op \in WaitOps,
         \A t \in active \cup ToSet(queue) :
           CoreOf(t.comp) \in K => ~Polls(lines[CoreOf(t.comp)][pc[CoreOf(t.comp)]], t.comp),
         pc' = Further(pc, K), UNCHANGED <<design, lines, regs, active, queue, ended>>
  PROVE  RunInv'
<1>1. \A k \in K : \A c : ~Launches(lines[k][pc[k]], c)
  BY WaitTouches
<1>2. \A k \in K : \A t : ~Goes(lines[k], pc[k], t)
  BY <1>1 DEF Goes
<1>3. RegsAre(Further(pc, K), regs)
  <2>1. \A k \in K : lines[k][pc[k]].op # "config"
    BY WaitTouches
  <2>2. QED BY <2>1, RegsStay, WrittenIs, RunIs
<1> DEFINE Q == ToSet(queue)
<1>4. RunOn(pc, regs, active, Q, ended) /\ UnderAre(pc, active, Q)
  BY RunIs DEF RunInv
<1> HIDE DEF Q
<1>5. (\A t \in active : ~IsDma(t.comp) /\ ~t.idle) /\ \A t \in Q : IsDma(t.comp)
  BY <1>4 DEF UnderAre
<1>6. RunOn(Further(pc, K), regs, active, Q, ended)
  <2>1. \A t \in active \cup Q :
          CoreOf(t.comp) \in K => ~Polls(lines[CoreOf(t.comp)][pc[CoreOf(t.comp)]], t.comp)
    BY DEF Q
  <2>2. QED BY <1>2, <1>3, <1>4, <1>5, <2>1, WrittenIs, Advance
<1>7. RunOn(pc', regs', active', ToSet(queue'), ended') /\ IsSeq(queue')
  BY <1>6 DEF Q, RunInv
<1>8. QED BY <1>7, RunKept

(* A core that writes registers or launches.                               *)
LEMMA LaunchKeeps ==
  ASSUME AsLowered, RunInv, NEW k \in Cores, NEW op, Step(k, op), op \notin {"status", "busy", "dma_wait"},
         active \subseteq active', ToSet(queue) \subseteq ToSet(queue'), IsSeq(queue'),
         RegsAre(pc', regs') \/ (regs' = regs /\ op # "config"), UNCHANGED <<design, lines, ended>>,
         \A t \in (active' \cup ToSet(queue')) \ (active \cup ToSet(queue)) :
           CoreOf(t.comp) = k /\ Goes(lines[k], pc[k], t),
         \A t \in active' \ active : ~IsDma(t.comp) /\ ~t.idle,
         \A t \in ToSet(queue') \ ToSet(queue) : IsDma(t.comp),
         \A t : Goes(lines[k], pc[k], t) => t.idle \/ t \in active' \cup ToSet(queue')
  PROVE  RunInv'
<1> DEFINE K == {k}
           Q == ToSet(queue)
           R == ToSet(queue')
<1>1. /\ pc' = Further(pc, K) /\ K \subseteq Cores /\ \A c \in K : pc[c] <= Len(lines[c])
      /\ lines[k][pc[k]].op = op
  BY StepIs
<1>2. \A t \in active \cup Q : CoreOf(t.comp) \in K => ~Polls(lines[CoreOf(t.comp)][pc[CoreOf(t.comp)]], t.comp)
  BY <1>1 DEF Polls
<1>3. \A t \in (active' \cup R) \ (active \cup Q) :
        CoreOf(t.comp) \in K /\ Goes(lines[CoreOf(t.comp)], pc[CoreOf(t.comp)], t)
  OBVIOUS
<1>4. \A c \in K : \A t : Goes(lines[c], pc[c], t) => t.idle \/ t \in active' \cup R
  OBVIOUS
<1>5. RunOn(pc, regs, active, Q, ended)
  BY DEF RunInv
<1>6. Q \subseteq R /\ (\A t \in R : IsDma(t.comp)) /\ \A t \in active' : ~IsDma(t.comp) /\ ~t.idle
  BY RunIs DEF UnderAre
<1>7. DesignOK /\ LinesAre(lines) /\ RegsAre(pc', regs')
  <2>1. ASSUME op # "config" PROVE RegsAre(Further(pc, K), regs)
    BY <1>1, <2>1, RegsStay, WrittenIs, RunIs
  <2>2. QED BY <1>1, <2>1, WrittenIs
<1> HIDE DEF K, Q, R
<1>8. RunOn(pc', regs', active', R, ended)
  BY <1>1, <1>2, <1>3, <1>4, <1>5, <1>6, <1>7, Advance
<1>9. QED BY <1>8, RunKept DEF R

-----------------------------------------------------------------------------
(* Each step of a core.                                                    *)

(* A configure keeps the run: the registers hold its task.                 *)
LEMMA ConfigStep ==
  ASSUME AsLowered, RunInv, NEW k \in Cores, DoConfig(k), UNCHANGED <<design, lines>>
  PROVE  RunInv'
<1> DEFINE x == lines[k][pc[k]]
<1>1. /\ pc' = Further(pc, {k}) /\ pc[k] \in 1 .. Len(lines[k]) /\ x = At(k) /\ x.op = "config"
      /\ pc[k] <= Len(lines[k]) /\ Step(k, "config")
  BY StepIs DEF DoConfig
<1>2. PICK t : k = SlotCore /\ ~IsDma(t.comp) /\ x = Instr("config", t)
  <2>1. ConfigsAre(lines, conf)
    BY DEF AsLowered, ProgramOn
  <2>2. QED BY <1>1, <2>1 DEF ConfigsAre
<1>3. \A c : ~Launches(x, c)
  BY <1>2, ConfigIs
<1>4. regs' = Set(regs, t.comp, t) /\ UNCHANGED <<active, queue, ended>>
  <2>1. x.arg = t
    BY <1>2, InstrIs
  <2>2. QED BY <1>1, <2>1 DEF DoConfig
<1>5. RegsAre(pc', regs')
  <2> DEFINE L == lines[SlotCore]
             n == pc[SlotCore] - 1
             m == pc'[SlotCore] - 1
             r == regs'
  <2>1. pc[SlotCore] \in Nat /\ pc[SlotCore] >= 1 /\ pc'[SlotCore] = pc[SlotCore] + 1
    <3>1. {k} \subseteq Cores /\ \A c \in {k} : pc[c] <= Len(lines[c])
      BY <1>1
    <3>2. QED BY <1>1, <1>2, <3>1, FurtherIs, WrittenIs, RunIs
  <2>2. n \in Nat /\ m = n + 1 /\ L[m] = Instr("config", t)
    BY <1>2, <2>1
  <2>3. /\ \A i \in 1 .. n : \A u : L[i] = Instr("config", u) => u.comp \in DOMAIN regs
        /\ \A c \in DOMAIN regs : \E i \in 1 .. n :
             L[i] = Instr("config", regs[c]) /\ regs[c].comp = c /\ \A q \in i + 1 .. n : ~Writes(L[q], c)
    BY RunIs DEF RegsAre
  <2>4. /\ DOMAIN r = DOMAIN regs \cup {t.comp} /\ r[t.comp] = t
        /\ \A c \in DOMAIN regs : c # t.comp => r[c] = regs[c]
    BY <1>4 DEF Set
  <2> HIDE DEF L, n, m, r
  <2>5. ASSUME NEW i \in 1 .. m, NEW u, L[i] = Instr("config", u) PROVE u.comp \in DOMAIN r
    <3>1. CASE i = m
      BY <2>2, <2>4, <2>5, <3>1, InstrIs
    <3>2. CASE i # m
      <4>1. i \in 1 .. n
        BY <2>2, <3>2
      <4>2. QED BY <2>3, <2>4, <2>5, <4>1
    <3>3. QED BY <3>1, <3>2
  <2>6. ASSUME NEW c \in DOMAIN r
        PROVE  \E i \in 1 .. m : L[i] = Instr("config", r[c]) /\ r[c].comp = c /\ \A q \in i + 1 .. m : ~Writes(L[q], c)
    <3>1. CASE c = t.comp
      <4>1. m \in 1 .. m /\ \A q \in m + 1 .. m : FALSE
        BY <2>2
      <4>2. QED BY <2>2, <2>4, <3>1, <4>1
    <3>2. CASE c # t.comp
      <4>1. c \in DOMAIN regs /\ r[c] = regs[c]
        BY <2>4, <3>2
      <4>2. PICK i \in 1 .. n : L[i] = Instr("config", r[c]) /\ r[c].comp = c /\ \A q \in i + 1 .. n : ~Writes(L[q], c)
        BY <2>3, <4>1
      <4>3. ~Writes(L[m], c)
        BY <2>2, <3>2, InstrIs DEF Writes
      <4>4. \A q \in i + 1 .. m : q \in i + 1 .. n \/ q = m
        BY <2>2
      <4>5. i \in 1 .. m
        BY <2>2
      <4>6. QED BY <4>2, <4>3, <4>4, <4>5
    <3>3. QED BY <3>1, <3>2
  <2>7. QED BY <2>5, <2>6 DEF RegsAre, L, m, r
<1>8. \A t_ : ~Goes(lines[k], pc[k], t_)
  BY <1>3 DEF Goes
<1>9. IsSeq(queue)
  BY DEF RunInv
<1> DEFINE Q == ToSet(queue')
<1>10. Q = ToSet(queue) /\ active' = active /\ IsSeq(queue')
  BY <1>4, <1>9
<1> HIDE DEF x, Q
<1>11. QED BY <1>1, <1>4, <1>5, <1>8, <1>10, LaunchKeeps DEF Q

(* What the registers hold when core k launches.                           *)
LEMMA HeldBy ==
  ASSUME AsLowered, RunInv, NEW k \in Cores, pc[k] \in 1 .. Len(lines[k]),
         NEW c, Launches(lines[k][pc[k]], c), ~IsDma(c)
  PROVE  /\ k = SlotCore /\ c \in DOMAIN regs /\ regs[c] \in Started /\ regs[c].comp = c
         /\ CoreOf(c) = k /\ Goes(lines[k], pc[k], regs[c])
<1>1. PICK t \in Started : t.comp = c /\ Goes(lines[k], pc[k], t)
  BY LaunchIs
<1>2. CoreOf(c) = k /\ k = SlotCore
  BY LaunchIs DEF CoreOf
<1>3. c \in DOMAIN regs /\ regs[c] = t
  BY <1>1, <1>2, RegsHold, WrittenIs, RunIs
<1>4. QED BY <1>1, <1>2, <1>3

(* A launch on the slots' core takes its task from the registers.          *)
LEMMA HeldIs ==
  ASSUME AsLowered, RunInv, NEW k \in Cores, pc[k] \in 1 .. Len(lines[k]), NEW t, ~IsDma(t.comp),
         Goes(lines[k], pc[k], t)
  PROVE  t = regs[t.comp] /\ t.comp \in DOMAIN regs /\ k = SlotCore
<1>1. Launches(lines[k][pc[k]], t.comp)
  BY DEF Goes
<1>2. k = SlotCore
  BY <1>1, HeldBy
<1>3. QED BY <1>2, RegsHold, WrittenIs, RunIs

(* A write that starts a set's movers keeps the run.                       *)
LEMMA StreamersStep ==
  ASSUME AsLowered, RunInv, NEW k \in Cores, DoStreamers(k), UNCHANGED <<design, lines>>
  PROVE  RunInv'
<1> DEFINE x == lines[k][pc[k]]
           A == {t \in {regs[m] : m \in MoversOf(x.arg) \cap DOMAIN regs} : ~t.idle}
<1>1. /\ pc' = Further(pc, {k}) /\ pc[k] \in 1 .. Len(lines[k]) /\ x = At(k) /\ x.op = "streamers"
      /\ pc[k] <= Len(lines[k]) /\ Step(k, "streamers")
  BY StepIs DEF DoStreamers
<1>2. active' = active \cup A /\ UNCHANGED <<regs, queue, ended>>
  BY <1>1 DEF DoStreamers
<1>3. \A c : Launches(x, c) <=> c \in MoversOf(x.arg)
  BY <1>1 DEF Launches
<1>4. \A m \in MoversOf(x.arg) : ~IsDma(m)
  BY MoversOfIs, WrittenIs
<1>5. ASSUME NEW t \in A PROVE CoreOf(t.comp) = k /\ Goes(lines[k], pc[k], t) /\ ~IsDma(t.comp) /\ ~t.idle
  <2>1. PICK m \in MoversOf(x.arg) : t = regs[m] /\ ~t.idle
    BY <1>5
  <2>2. regs[m].comp = m /\ CoreOf(m) = k /\ Goes(lines[k], pc[k], regs[m])
    BY <1>1, <1>3, <1>4, HeldBy
  <2>3. QED BY <1>4, <2>1, <2>2
<1>6. ASSUME NEW t, Goes(lines[k], pc[k], t), ~t.idle PROVE t \in A
  <2>1. Launches(x, t.comp)
    BY <1>6 DEF Goes
  <2>2. t.comp \in MoversOf(x.arg) /\ ~IsDma(t.comp)
    BY <1>3, <1>4, <2>1
  <2>3. t = regs[t.comp] /\ t.comp \in DOMAIN regs
    BY <1>1, <1>6, <2>2, HeldIs
  <2>4. QED BY <1>6, <2>2, <2>3
<1> HIDE DEF x, A
<1>10. IsSeq(queue') /\ queue' = queue
  BY <1>2 DEF RunInv
<1> DEFINE Q == ToSet(queue)
           R == ToSet(queue')
<1>11. R = Q
  BY <1>10
<1>12. /\ \A t \in (active' \cup R) \ (active \cup Q) : CoreOf(t.comp) = k /\ Goes(lines[k], pc[k], t)
       /\ \A t \in active' \ active : ~IsDma(t.comp) /\ ~t.idle
       /\ \A t : Goes(lines[k], pc[k], t) => t.idle \/ t \in active' \cup R
  BY <1>2, <1>5, <1>6, <1>11
<1>13. active \subseteq active' /\ Q \subseteq R /\ Step(k, "streamers") /\ UNCHANGED <<design, lines, ended>>
  BY <1>1, <1>2, <1>11
<1>14. QED BY <1>2, <1>10, <1>11, <1>12, <1>13, LaunchKeeps

(* A write that starts a unit keeps the run.                               *)
LEMMA StartDone ==
  ASSUME AsLowered, RunInv, NEW k \in Cores, DoStart(k), UNCHANGED <<design, lines>>
  PROVE  RunInv'
<1> DEFINE x == lines[k][pc[k]]
           c == x.arg
           u == regs[c]
<1>1. /\ pc' = Further(pc, {k}) /\ pc[k] \in 1 .. Len(lines[k]) /\ x = At(k) /\ x.op = "start"
      /\ pc[k] <= Len(lines[k]) /\ Step(k, "start")
  BY StepIs DEF DoStart
<1>2. active' = active \cup {u} /\ UNCHANGED <<regs, queue, ended>>
  BY <1>1 DEF DoStart
<1>3. \A d : Launches(x, d) <=> d = c
  BY <1>1 DEF Launches
<1>4. IsUnit(c)
  BY <1>1, WrittenIs DEF LinesAre
<1>5. ~IsDma(c) /\ ~IsMover(c)
  <2>1. c # DMA /\ Len(c) = 1
    BY <1>4 DEF IsUnit
  <2> HIDE DEF c
  <2>2. QED BY <2>1 DEF IsDma, IsMover
<1>6. u \in Started /\ u.comp = c /\ CoreOf(c) = k /\ Goes(lines[k], pc[k], u)
  BY <1>1, <1>3, <1>5, HeldBy
<1>7. ~u.idle
  <2>1. \A t \in Started : t.idle => IsMover(t.comp)
    BY DEF AsLowered, ListOK
  <2> HIDE DEF u
  <2>2. QED BY <1>5, <1>6, <2>1
<1>8. ASSUME NEW t, Goes(lines[k], pc[k], t) PROVE t = u
  <2>1. Launches(x, t.comp)
    BY <1>8 DEF Goes
  <2>2. t.comp = c
    BY <1>3, <2>1
  <2>3. t = regs[t.comp]
    BY <1>1, <1>5, <1>8, <2>2, HeldIs
  <2>4. QED BY <2>2, <2>3
<1> HIDE DEF x, c, u
<1>12. IsSeq(queue') /\ queue' = queue
  BY <1>2 DEF RunInv
<1> DEFINE Q == ToSet(queue)
           R == ToSet(queue')
<1>13. R = Q
  BY <1>12
<1>14. /\ \A t \in (active' \cup R) \ (active \cup Q) : CoreOf(t.comp) = k /\ Goes(lines[k], pc[k], t)
       /\ \A t \in active' \ active : ~IsDma(t.comp) /\ ~t.idle
       /\ \A t : Goes(lines[k], pc[k], t) => t.idle \/ t \in active' \cup R
  BY <1>2, <1>5, <1>6, <1>7, <1>8, <1>13
<1>15. active \subseteq active' /\ Q \subseteq R /\ Step(k, "start") /\ UNCHANGED <<design, lines, ended>>
  BY <1>1, <1>2, <1>13
<1>16. QED BY <1>2, <1>12, <1>13, <1>14, <1>15, LaunchKeeps

(* The members of a queue with one more.                                   *)
LEMMA AppendSet ==
  ASSUME NEW s, IsSeq(s), NEW e
  PROVE  IsSeq(Append(s, e)) /\ ToSet(Append(s, e)) = ToSet(s) \cup {e}
<1> DEFINE n == Len(s)
           t == Append(s, e)
<1>1. /\ IsSeq(t) /\ Len(t) = n + 1 /\ n \in Nat
      /\ \A i \in 1 .. n : t[i] = s[i]
      /\ t[n + 1] = e
  BY Added, SeqFacts
<1>2. /\ \A i \in 1 .. n : s[i] \in ToSet(s)
      /\ \A x \in ToSet(s) : \E i \in 1 .. n : s[i] = x
  BY SeqFacts
<1> HIDE DEF t, n
<1>3. /\ \A i \in 1 .. n + 1 : t[i] \in ToSet(t)
      /\ \A x \in ToSet(t) : \E i \in 1 .. n + 1 : t[i] = x
  BY <1>1, SeqFacts
<1>4. \A i \in 1 .. n + 1 : i \in 1 .. n \/ i = n + 1
  BY <1>1
<1>5. \A x \in ToSet(t) : x \in ToSet(s) \cup {e}
  BY <1>1, <1>2, <1>3, <1>4
<1>6. \A i \in 1 .. n : i \in 1 .. n + 1
  BY <1>1
<1>7. n + 1 \in 1 .. n + 1
  BY <1>1
<1>8. \A x \in ToSet(s) \cup {e} : x \in ToSet(t)
  BY <1>1, <1>2, <1>3, <1>6, <1>7
<1>9. QED BY <1>1, <1>5, <1>8 DEF t

(* The members of a queue without its first.                               *)
LEMMA TailSet ==
  ASSUME NEW s, IsSeq(s), s # <<>>
  PROVE  IsSeq(Tail(s)) /\ ToSet(s) = {Head(s)} \cup ToSet(Tail(s))
<1> DEFINE t == Tail(s)
           h == Head(s)
           n == Len(s)
<1>1. /\ h = s[1] /\ IsSeq(t) /\ Len(t) \in Nat /\ n = Len(t) + 1
      /\ \A i \in 1 .. Len(t) : t[i] = s[i + 1]
  BY TailIs
<1>2. n \in Nat /\ n >= 1 /\ IsSeq(t) /\ Len(t) = n - 1
  <2> HIDE DEF n, t
  <2>1. QED BY <1>1
<1>3. /\ \A i \in 1 .. n : s[i] \in ToSet(s)
      /\ \A x \in ToSet(s) : \E i \in 1 .. n : s[i] = x
      /\ \A i \in 1 .. n - 1 : t[i] \in ToSet(t)
      /\ \A x \in ToSet(t) : \E i \in 1 .. n - 1 : t[i] = x
  <2>1. /\ \A i \in 1 .. n : s[i] \in ToSet(s)
        /\ \A x \in ToSet(s) : \E i \in 1 .. n : s[i] = x
    BY SeqFacts
  <2>2. /\ \A i \in 1 .. Len(t) : t[i] \in ToSet(t)
        /\ \A x \in ToSet(t) : \E i \in 1 .. Len(t) : t[i] = x
    BY <1>2, SeqFacts
  <2> HIDE DEF n, t
  <2>3. QED BY <1>1, <2>1, <2>2
<1> HIDE DEF t, h, n
<1>4. ASSUME NEW x \in ToSet(s) PROVE x \in {h} \cup ToSet(t)
  <2>1. PICK i \in 1 .. n : s[i] = x
    BY <1>3
  <2>2. CASE i = 1
    BY <1>1, <2>1, <2>2
  <2>3. CASE i # 1
    <3>1. i - 1 \in 1 .. n - 1 /\ (i - 1) + 1 = i
      BY <1>2, <2>3
    <3>2. t[i - 1] = x
      BY <1>1, <2>1, <3>1
    <3>3. QED BY <1>3, <3>1, <3>2
  <2>4. QED BY <2>2, <2>3
<1>5. ASSUME NEW x \in {h} \cup ToSet(t) PROVE x \in ToSet(s)
  <2>1. CASE x = h
    <3>1. 1 \in 1 .. n
      BY <1>2
    <3>2. QED BY <1>1, <1>3, <2>1, <3>1
  <2>2. CASE x \in ToSet(t)
    <3>1. PICK i \in 1 .. n - 1 : t[i] = x
      BY <1>3, <2>2
    <3>2. i + 1 \in 1 .. n /\ s[i + 1] = x
      BY <1>1, <1>2, <3>1
    <3>3. QED BY <1>3, <3>2
  <2>3. QED BY <2>1, <2>2
<1>6. QED BY <1>2, <1>4, <1>5 DEF t, h

(* Queueing a transfer keeps the run.                                      *)
LEMMA DmaQueued ==
  ASSUME AsLowered, RunInv, NEW k \in Cores, DoDma(k), UNCHANGED <<design, lines>>
  PROVE  RunInv'
<1> DEFINE x == lines[k][pc[k]]
           u == x.arg
<1>1. /\ pc' = Further(pc, {k}) /\ pc[k] \in 1 .. Len(lines[k]) /\ x = At(k) /\ x.op = "dma"
      /\ pc[k] <= Len(lines[k]) /\ Step(k, "dma")
  BY StepIs DEF DoDma
<1>2. queue' = Append(queue, u) /\ UNCHANGED <<regs, active, ended>>
  BY <1>1 DEF DoDma
<1>3. \A d : Launches(x, d) <=> d = DMA
  BY <1>1 DEF Launches
<1>4. CoreOf(DMA) = k /\ \E t \in Started : t.comp = DMA /\ Goes(lines[k], pc[k], t)
  <2>1. Launches(lines[k][pc[k]], DMA) /\ pc[k] \in 1 .. Len(lines[k])
    BY <1>1, <1>3
  <2> HIDE DEF x, u
  <2>2. QED BY <2>1, LaunchIs
<1>5. ASSUME NEW t, Goes(lines[k], pc[k], t) PROVE t = u /\ t.comp = DMA
  <2>1. Launches(x, t.comp)
    BY <1>5 DEF Goes
  <2>2. t.comp = DMA /\ IsDma(t.comp)
    BY <1>3, <2>1, DmaIs
  <2>3. x = Instr("dma", t)
    BY <1>5, <2>2 DEF Goes
  <2>4. QED BY <2>2, <2>3, InstrIs
<1>6. u.comp = DMA /\ CoreOf(u.comp) = k /\ Goes(lines[k], pc[k], u)
  <2> HIDE DEF u
  <2>1. PICK t \in Started : t.comp = DMA /\ Goes(lines[k], pc[k], t)
    BY <1>4
  <2>2. QED BY <1>4, <1>5, <2>1
<1>8. IsSeq(queue)
  BY DEF RunInv
<1>9. IsSeq(Append(queue, u)) /\ ToSet(Append(queue, u)) = ToSet(queue) \cup {u}
  BY <1>8, AppendSet
<1> HIDE DEF x, u
<1> DEFINE Q == ToSet(queue)
           R == ToSet(queue')
<1>12. R = Q \cup {u} /\ IsSeq(queue') /\ active' = active
  BY <1>2, <1>9
<1>13. IsDma(u.comp)
  BY <1>6, DmaIs
<1> HIDE DEF Q, R
<1>14. /\ \A t \in (active' \cup R) \ (active \cup Q) : CoreOf(t.comp) = k /\ Goes(lines[k], pc[k], t)
       /\ \A t : Goes(lines[k], pc[k], t) => t.idle \/ t \in active' \cup R
  BY <1>5, <1>6, <1>12
<1>16. active \subseteq active' /\ Q \subseteq R /\ Step(k, "dma") /\ UNCHANGED <<design, lines, ended>>
  BY <1>1, <1>2, <1>12
<1>17. QED BY <1>2, <1>12, <1>13, <1>14, <1>16, LaunchKeeps DEF Q, R

(* The tasks under way that are no transfers run from the slots' core.     *)
LEMMA UnderCore ==
  ASSUME AsLowered, RunInv
  PROVE  /\ \A t \in active : ~IsDma(t.comp) /\ ~t.idle /\ CoreOf(t.comp) = SlotCore
         /\ \A t \in ToSet(queue) : IsDma(t.comp)
  BY RunIs DEF UnderAre, CoreOf

(* A poll passes only when what it polls is not under way, so it keeps the *)
(* run.                                                                    *)
LEMMA PollStep ==
  ASSUME AsLowered, RunInv, NEW k \in Cores, DoPoll(k), UNCHANGED <<design, lines>>
  PROVE  RunInv'
<1> DEFINE x == lines[k][pc[k]]
<1>1. /\ pc' = Further(pc, {k}) /\ x = At(k) /\ pc[k] <= Len(lines[k])
      /\ \/ x.op = "status" /\ ~Busy(x.arg)
         \/ x.op = "busy" /\ ~SetBusy(x.arg)
         \/ x.op = "dma_wait" /\ queue = <<>>
      /\ UNCHANGED <<regs, active, queue, ended>>
  BY StepIs DEF DoPoll
<1>2. ASSUME NEW t \in active, Polls(x, t.comp) PROVE FALSE
  <2>1. ~IsDma(t.comp) /\ t.comp # DMA
    BY UnderCore DEF IsDma
  <2>2. CASE x.op = "status" /\ ~Busy(x.arg)
    BY <1>2, <2>1, <2>2 DEF Polls, Busy
  <2>3. CASE x.op = "busy" /\ ~SetBusy(x.arg)
    BY <1>2, <2>1, <2>3 DEF Polls, Busy, SetBusy
  <2>4. CASE x.op = "dma_wait"
    BY <1>2, <2>1, <2>4 DEF Polls
  <2>5. QED BY <1>1, <2>2, <2>3, <2>4
<1>3. ASSUME NEW t \in ToSet(queue), Polls(x, t.comp) PROVE FALSE
  <2>1. IsDma(t.comp)
    BY UnderCore
  <2>2. x.op # "status"
    BY <1>3, <2>1 DEF Polls
  <2>3. \A m : m \in MoversOf(x.arg) => ~IsDma(m)
    BY MoversOfIs, WrittenIs
  <2>4. x.op # "busy"
    BY <1>3, <2>1, <2>3 DEF Polls
  <2>5. queue = <<>>
    BY <1>1, <2>2, <2>4
  <2>6. \A s : IsSeq(s) /\ s = <<>> => \A y : y \notin ToSet(s)
    BY EmptyIs, SeqFacts
  <2>7. QED BY <1>3, <2>5, <2>6 DEF RunInv
<1>4. x.op \in WaitOps
  BY <1>1 DEF WaitOps
<1> HIDE DEF x
<1>5. \A t \in active \cup ToSet(queue) :
        CoreOf(t.comp) \in {k} => ~Polls(lines[CoreOf(t.comp)][pc[CoreOf(t.comp)]], t.comp)
  BY <1>2, <1>3 DEF x
<1>6. {k} \subseteq Cores /\ \A c \in {k} : pc[c] <= Len(lines[c]) /\ lines[c][pc[c]].op \in WaitOps
  BY <1>1, <1>4 DEF x
<1>7. QED BY <1>1, <1>5, <1>6, WaitsKeep

(* Reading a counter keeps the run.                                        *)
LEMMA CounterStep ==
  ASSUME AsLowered, RunInv, NEW k \in Cores, DoCounter(k), UNCHANGED <<design, lines>>
  PROVE  RunInv'
<1>1. /\ pc' = Further(pc, {k}) /\ pc[k] <= Len(lines[k]) /\ lines[k][pc[k]].op = "counter"
      /\ UNCHANGED <<regs, active, queue, ended>>
  BY StepIs DEF DoCounter
<1>2. {k} \subseteq Cores /\ \A c \in {k} : pc[c] <= Len(lines[c]) /\ lines[c][pc[c]].op \in WaitOps
  BY <1>1 DEF WaitOps
<1>3. \A c : ~Polls(lines[k][pc[k]], c)
  BY <1>1 DEF Polls
<1>4. \A t \in active \cup ToSet(queue) :
        CoreOf(t.comp) \in {k} => ~Polls(lines[CoreOf(t.comp)][pc[CoreOf(t.comp)]], t.comp)
  BY <1>3
<1>5. QED BY <1>1, <1>2, <1>4, WaitsKeep

(* Cores that meet at a barrier keep the run.                              *)
LEMMA BarrierPasses ==
  ASSUME AsLowered, RunInv, DoBarrier, UNCHANGED <<design, lines>>
  PROVE  RunInv'
<1>1. ASSUME NEW k \in Cores PROVE pc[k] <= Len(lines[k]) /\ lines[k][pc[k]].op = "barrier"
  <2>1. At(k) = Barrier /\ ~Over(k)
    BY DEF DoBarrier
  <2>2. lines[k][pc[k]].op = "barrier"
    BY <2>1, InstrIs DEF At, Barrier
  <2>3. IsSeq(lines[k]) /\ pc[k] \in 1 .. Len(lines[k]) + 1
    BY WrittenIs, RunIs DEF LinesAre, PcsAre
  <2>4. Len(lines[k]) \in Nat
    BY <2>3, SeqFacts
  <2>5. QED BY <2>1, <2>2, <2>3, <2>4 DEF Over
<1>2. pc' = Further(pc, Cores) /\ UNCHANGED <<regs, active, queue, ended>>
  <2>1. pc' = [k \in Cores |-> pc[k] + 1]
    BY DEF DoBarrier
  <2>2. [k \in Cores |-> pc[k] + 1] = [k \in Cores |-> IF k \in Cores THEN pc[k] + 1 ELSE pc[k]]
    OBVIOUS
  <2>3. QED BY <2>1, <2>2 DEF DoBarrier, Further
<1>3. \A k \in Cores : pc[k] <= Len(lines[k]) /\ lines[k][pc[k]].op \in WaitOps
  BY <1>1 DEF WaitOps
<1>4. \A t \in active \cup ToSet(queue) :
        CoreOf(t.comp) \in Cores => ~Polls(lines[CoreOf(t.comp)][pc[CoreOf(t.comp)]], t.comp)
  BY <1>1 DEF Polls
<1>5. QED BY <1>2, <1>3, <1>4, WaitsKeep

(* A task that ends is under way no more, and still launched.              *)
LEMMA EndKeeps ==
  ASSUME RunInv, UNCHANGED <<design, lines, pc, regs>>,
         active' \subseteq active, ToSet(queue') \subseteq ToSet(queue), IsSeq(queue'),
         active' \cup ToSet(queue') \cup ended' = active \cup ToSet(queue) \cup ended
  PROVE  RunInv'
<1> DEFINE Q == ToSet(queue)
           R == ToSet(queue')
<1>1. PcsAre(pc) /\ RegsAre(pc, regs) /\ UnderAre(pc, active, Q) /\ PassedAre(pc, active \cup Q \cup ended)
  BY DEF RunInv, RunOn
<1>2. UnderAre(pc, active', R)
  BY <1>1 DEF UnderAre
<1>3. RunOn(pc, regs, active', R, ended')
  BY <1>1, <1>2 DEF RunOn
<1>4. RunOn(pc', regs', active', ToSet(queue'), ended')
  BY <1>3
<1>5. QED BY <1>4, RunKept

(* A task or transfer that ends keeps the run.                             *)
LEMMA EndSteps ==
  ASSUME RunInv, EndDma \/ \E t \in active : EndTask(t), UNCHANGED <<design, lines>>
  PROVE  RunInv'
<1>1. CASE \E t \in active : EndTask(t)
  <2>1. PICK t \in active : EndTask(t)
    BY <1>1
  <2>2. /\ active' = active \ {t} /\ ended' = ended \cup {t} /\ queue' = queue
        /\ UNCHANGED <<pc, regs>>
    BY <2>1 DEF EndTask
  <2>3. IsSeq(queue') /\ ToSet(queue') = ToSet(queue)
    BY <2>2 DEF RunInv
  <2>4. QED BY <2>2, <2>3, EndKeeps
<1>2. CASE EndDma
  <2>1. /\ queue # <<>> /\ queue' = Tail(queue) /\ ended' = ended \cup {Head(queue)}
        /\ UNCHANGED <<pc, regs, active>>
    BY <1>2 DEF EndDma
  <2>2. IsSeq(queue') /\ ToSet(queue) = {Head(queue)} \cup ToSet(queue')
    BY <2>1, TailSet DEF RunInv
  <2>3. /\ active' \subseteq active /\ ToSet(queue') \subseteq ToSet(queue)
        /\ active' \cup ToSet(queue') \cup ended' = active \cup ToSet(queue) \cup ended
    BY <2>1, <2>2
  <2>4. QED BY <2>1, <2>2, <2>3, EndKeeps
<1>3. QED BY <1>1, <1>2

-----------------------------------------------------------------------------
(* What follows.                                                           *)

(* Past t on its core, t is over.                                          *)
LEMMA PastEnded ==
  ASSUME AsLowered, RunInv, NEW t, ~t.idle,
         Past(lines[CoreOf(t.comp)], pc[CoreOf(t.comp)], t)
  PROVE  t \in ended
<1> DEFINE k == CoreOf(t.comp)
           L == lines[k]
           n == pc[k]
<1>1. k \in Cores
  BY CoresIs, WrittenIs
<1>2. IsSeq(L) /\ Once(L) /\ n \in 1 .. Len(L) + 1 /\ Len(L) \in Nat
  BY <1>1, WrittenIs, RunIs, SeqFacts DEF LinesAre, PcsAre
<1>3. PICK q \in 1 .. n - 1 : Goes(L, q, t) /\ \E p \in q + 1 .. n - 1 : Polls(L[p], t.comp)
  BY DEF Past
<1>4. t \in Launched
  BY <1>1, <1>3, RunIs DEF PassedAre
<1>5. ASSUME t \in active \cup ToSet(queue) PROVE FALSE
  <2>1. PICK i \in 1 .. n - 1 : Goes(L, i, t) /\ \A p \in i + 1 .. n - 1 : ~Polls(L[p], t.comp)
    BY <1>5, RunIs DEF UnderAre
  <2> HIDE DEF L, n
  <2>2. i \in 1 .. Len(L) /\ q \in 1 .. Len(L)
    BY <1>2
  <2>3. i = q
    BY <1>2, <1>3, <2>1, <2>2, GoesOnce
  <2>4. QED BY <1>3, <2>1, <2>3
<1>6. QED BY <1>4, <1>5 DEF Launched

(* Tasks are launched after those of their core that `after' names.        *)
LEMMA AfterHolds == ASSUME AsLowered, RunInv PROVE AfterOnCore
<1> SUFFICES ASSUME NEW t \in Launched, NEW a \in conf[t], CoreOf(a.comp) = CoreOf(t.comp), ~a.idle
             PROVE  a \in ended
  BY DEF AfterOnCore
<1> DEFINE k == CoreOf(t.comp)
           L == lines[k]
           n == pc[k]
<1>1. k \in Cores
  BY CoresIs, WrittenIs
<1>2. IsSeq(L) /\ n \in 1 .. Len(L) + 1 /\ Len(L) \in Nat
  BY <1>1, WrittenIs, RunIs, SeqFacts DEF LinesAre, PcsAre
<1>3. PICK q \in 1 .. n - 1 : Goes(L, q, t)
  BY RunIs DEF PassedAre
<1>4. q \in 1 .. Len(L) /\ q \in Nat /\ n \in Nat /\ q <= n
  <2> HIDE DEF L, n
  <2> QED BY <1>2
<1>5. t \in Started
  BY <1>1, <1>3, <1>4, WrittenIs, GoesStarted
<1>6. Past(L, q, a)
  BY <1>1, <1>3, <1>4, <1>5 DEF AsLowered, ProgramOn, AfterAre
<1>7. Past(L, n, a)
  BY <1>4, <1>6, PastOn
<1>8. QED BY <1>7, PastEnded

(* No launch meets a busy component.                                       *)
LEMMA StartsHold == ASSUME AsLowered, RunInv PROVE StartsFindIdle
<1>1. ASSUME NEW k \in Cores, ~Over(k), NEW t \in active, Launches(At(k), t.comp) PROVE FALSE
  <2>1. IsSeq(lines[k]) /\ pc[k] \in 1 .. Len(lines[k]) + 1 /\ Once(lines[k])
    BY WrittenIs, RunIs DEF LinesAre, PcsAre
  <2>2. Len(lines[k]) \in Nat
    BY <2>1, SeqFacts
  <2>3. pc[k] \in 1 .. Len(lines[k])
    BY <1>1, <2>1, <2>2 DEF Over
  <2>4. Launches(lines[k][pc[k]], t.comp)
    BY <1>1 DEF At
  <2>5. CoreOf(t.comp) = k /\ k = SlotCore /\ ~IsDma(t.comp) /\ ~t.idle
    BY <1>1, <2>3, <2>4, LaunchIs, UnderCore
  <2> DEFINE L == lines[SlotCore]
             n == pc[SlotCore]
  <2>6. PICK q \in 1 .. n - 1 : Goes(L, q, t) /\ \A i \in q + 1 .. n - 1 : ~Polls(L[i], t.comp)
    BY <2>5, RunIs DEF UnderAre
  <2>7. /\ n \in 1 .. Len(L) /\ Len(L) \in Nat /\ IsSeq(L) /\ Once(L) /\ Launches(L[n], t.comp)
        /\ SlotCore \in Cores
    BY <2>1, <2>2, <2>3, <2>4, <2>5
  <2>8. q \in 1 .. Len(L)
    <3> HIDE DEF L, n
    <3> QED BY <2>7
  <2>9. t \in Started
    BY <2>6, <2>7, <2>8, GoesStarted, WrittenIs
  <2>10. Past(L, n, t)
    BY <2>5, <2>6, <2>7, <2>9 DEF AsLowered, ProgramOn, SpacedAre
  <2>11. PICK j \in 1 .. n - 1 : Goes(L, j, t) /\ \E p \in j + 1 .. n - 1 : Polls(L[p], t.comp)
    BY <2>10 DEF Past
  <2> HIDE DEF L, n
  <2>12. j \in 1 .. Len(L)
    BY <2>7
  <2>13. j = q
    BY <2>6, <2>7, <2>8, <2>11, <2>12, GoesOnce
  <2>14. QED BY <2>6, <2>11, <2>13
<1>2. ASSUME NEW k \in Cores, ~Over(k), At(k).op = "streamers", SetBusy(At(k).arg) PROVE FALSE
  <2>1. PICK m \in MoversOf(At(k).arg) : \E t \in active : t.comp = m
    BY <1>2 DEF SetBusy, Busy
  <2>2. Launches(At(k), m)
    BY <1>2 DEF Launches
  <2>3. QED BY <1>1, <1>2, <2>1, <2>2
<1>3. ASSUME NEW k \in Cores, ~Over(k), At(k).op = "start", Busy(At(k).arg) PROVE FALSE
  BY <1>1, <1>3 DEF Launches, Busy
<1>4. QED BY <1>2, <1>3 DEF StartsFindIdle

(* Nothing has run yet.                                                    *)
AtRest ==
  /\ pc = [k \in Cores |-> 1] /\ regs = <<>>
  /\ active = {} /\ queue = <<>> /\ ended = {}

(* A cluster at rest before any program runs it ...                        *)
LEMMA FreshRun == AtRest /\ LinesAre(lines) => RunInv
<1> SUFFICES ASSUME AtRest, LinesAre(lines) PROVE RunInv
  OBVIOUS
<1>0. SlotCore \in Cores
  BY CoresAssumption
<1>1. \A k \in Cores : pc[k] = 1 /\ pc[k] - 1 = 0 /\ Len(lines[k]) \in Nat
  BY SeqFacts DEF AtRest, LinesAre
<1>2. PcsAre(pc)
  BY <1>1 DEF PcsAre, AtRest
<1>3. RegsAre(pc, regs)
  BY <1>0, <1>1 DEF RegsAre, AtRest
<1>4. ToSet(queue) = {} /\ IsSeq(queue)
  <2>1. IsSeq(<<>>) /\ Len(<<>>) = 0
    BY EmptyIs
  <2>2. \A x \in ToSet(<<>>) : \E i \in 1 .. Len(<<>>) : <<>>[i] = x
    BY <2>1, SeqFacts
  <2>3. QED BY <2>1, <2>2 DEF AtRest
<1>5. UnderAre(pc, {}, {})
  BY DEF UnderAre
<1>6. PassedAre(pc, {})
  BY <1>1 DEF PassedAre
<1>7. QED BY <1>2, <1>3, <1>4, <1>5, <1>6 DEF RunInv, RunOn, AtRest

(* ... also at the next state.                                             *)
LEMMA FreshNext == AtRest' /\ LinesAre(lines)' => RunInv'
  BY FreshRun, PTL

-----------------------------------------------------------------------------
(* The lists that are written.                                             *)

(* A task is its name, its component and whether it is idle.               *)
LEMMA TaskIs ==
  \A n, c, i : Task(n, c, i).name = n /\ Task(n, c, i).comp = c /\ Task(n, c, i).idle = i
  BY DEF Task

(* The steps made of tasks are such.                                       *)
LEMMA StepIsOK ==
  /\ \A t, after : (t.idle => IsMover(t.comp)) => StepOK(CfgStep(t, after))
  /\ \A ts : IsSeq(ts) => StepOK(GoStep(ts))
  /\ \A t : StepOK(SyncStep(t))
<1>1. \A t, after : CfgStep(t, after).op = "configure" /\ CfgStep(t, after).task = t
  BY DEF CfgStep
<1>2. \A ts : GoStep(ts).op = "start" /\ GoStep(ts).tasks = ts
  BY DEF GoStep
<1>3. \A t : SyncStep(t).op = "sync"
  BY DEF SyncStep
<1>4. QED BY <1>1, <1>2, <1>3 DEF StepOK

(* A step a list goes on with is such.                                     *)
LEMMA WrittenIsOK == ASSUME NEW x, IsStep(x) PROVE StepOK(x)
<1>1. CASE x.op = "configure" /\ (x.task.idle => IsMover(x.task.comp))
  BY <1>1 DEF StepOK
<1>2. CASE x.op = "start" /\ x.tasks \in Seq(Configured)
  BY <1>2, SeqIs DEF StepOK
<1>3. CASE x.op = "sync"
  BY <1>3 DEF StepOK
<1>4. QED BY <1>1, <1>2, <1>3 DEF IsStep

(* The steps still to lower stay.                                          *)
LEMMA SameSteps ==
  ASSUME StepsAre, steps' = steps PROVE StepsAre'
<1>1. \A x : StepOK(x)' <=> StepOK(x)
  BY DEF StepOK, IsMover, IsSeq, ToSet
<1>2. IsSeq(steps')
  BY DEF StepsAre
<1>3. QED BY <1>1, <1>2 DEF StepsAre

(* Writing a step, or closing the list, leaves such steps.                 *)
LEMMA WriteSteps ==
  ASSUME StepsAre, Write PROVE StepsAre'
<1>1. ASSUME NEW x, Add(x) PROVE StepsAre'
  <2>1. steps' = <<x>> /\ StepOK(x)
    BY <1>1, WrittenIsOK DEF Add
  <2>2. IsSeq(<<x>>) /\ Len(<<x>>) = 1 /\ <<x>>[1] = x
    BY Single
  <2>3. IsSeq(steps') /\ \A i \in 1 .. Len(steps') : StepOK(steps'[i])
    BY <2>1, <2>2
  <2>4. QED BY <2>3 DEF StepsAre, StepOK, IsMover, IsSeq, ToSet
<1>2. CASE Close
  BY <1>2, SameSteps DEF Close
<1>3. QED BY <1>1, <1>2 DEF Write

-----------------------------------------------------------------------------
(* The invariant, and the theorems.                                        *)

(* The cluster is at rest until the list is whole and lowered.             *)
Phases == (running => closed /\ steps = <<>>) /\ (~running => AtRest)

(* The inductive invariant.                                                *)
ListInv == LowerInv /\ RunInv /\ Phases

(* Nothing written keeps the lowering's part.                              *)
LEMMA EmptyList ==
  ASSUME NEW D, Design(D), D.dma \in Cores, LowerInit(D)
  PROVE  LowerInv /\ Started = {}
<1>1. IsSeq(<<>>) /\ Len(<<>>) = 0 /\ ToSet(<<>>) = {} /\ DOMAIN <<>> = {}
  <2>1. IsSeq(<<>>) /\ Len(<<>>) = 0
    BY EmptyIs
  <2>2. \A x \in ToSet(<<>>) : \E i \in 1 .. Len(<<>>) : <<>>[i] = x
    BY <2>1, SeqFacts
  <2>3. QED BY <2>1, <2>2
<1>2. DesignOK
  BY DEF LowerInit, DesignOK
<1>3. Order = <<>> /\ Started = {} /\ Configured = {} /\ Pending = {} /\ conf = <<>>
  BY <1>1, FlattenEmpty DEF LowerInit, Order, Started, Configured, Pending
<1>4. ListOK
  <2>1. IsSeq(starts) /\ IsSeq(Order) /\ covered = {} /\ waited = {}
    BY <1>1, <1>3 DEF LowerInit
  <2>2. IsInjective(Order)
    BY <1>1, <1>3 DEF IsInjective
  <2>3. QED BY <1>2, <1>3, <2>1, <2>2 DEF ListOK
<1>5. lines = [k \in Cores |-> lines[k]] /\ \A k \in Cores : lines[k] = <<>> /\ Len(lines[k]) = 0
  BY <1>1 DEF LowerInit
<1>6. LinesAre(lines)
  BY <1>1, <1>5 DEF LinesAre, Once
<1>7. ConfigsAre(lines, conf) /\ LaunchesAre(lines, Started)
  BY <1>5 DEF ConfigsAre, LaunchesAre
<1>8. GoneAre(lines, Started) /\ PendingAre(lines, DOMAIN conf \ Started)
  BY <1>1, <1>3 DEF GoneAre, PendingAre
<1>9. SpacedAre(lines, Started) /\ AfterAre(lines, Started, conf)
  BY <1>3 DEF SpacedAre, AfterAre
<1>10. CoveredAre(lines, covered) /\ WaitedAre(lines, waited)
  BY DEF CoveredAre, WaitedAre, LowerInit
<1>11. LatestAre(covered)
  BY <1>3 DEF LatestAre
<1>12. StepsAre
  BY <1>1 DEF StepsAre, LowerInit
<1>13. QED BY <1>3, <1>4, <1>6, <1>7, <1>8, <1>9, <1>10, <1>11, <1>12 DEF LowerInv, ProgramIs, ProgramOn

(* It holds at first ...                                                   *)
LEMMA ListInit == ListedInit => ListInv
<1> SUFFICES ASSUME ListedInit PROVE ListInv
  OBVIOUS
<1>1. LowerInv
  BY EmptyList, ListedAssumption DEF ListedInit
<1>2. AtRest /\ ~running
  BY DEF ListedInit, ClusterInit, AtRest
<1>3. LinesAre(lines)
  BY <1>1 DEF LowerInv, ProgramIs, ProgramOn
<1>4. QED BY <1>1, <1>2, <1>3, FreshRun DEF ListInv, Phases

(* Its parts.                                                              *)
LEMMA ListWritten == ASSUME ListInv PROVE AsLowered /\ RunInv
  BY DEF ListInv, LowerInv, ProgramIs, AsLowered

(* Steps that lower nothing keep the lowering's part.                      *)
LEMMA LowerSame ==
  ASSUME LowerInv, UNCHANGED <<listVars, covered, waited, lines>>, StepsAre'
  PROVE  LowerInv'
  BY NoneKeeps DEF LowerInv

(* The run stays while nothing of the cluster changes.                     *)
LEMMA SameRunning ==
  ASSUME RunInv, UNCHANGED <<design, lines, clusterVars>> PROVE RunInv'
<1>1. UNCHANGED <<pc, regs, active, queue, ended>>
  BY DEF clusterVars
<1>2. RunOn(pc', regs', active', ToSet(queue'), ended') /\ IsSeq(queue')
  BY <1>1 DEF RunInv
<1>3. QED BY <1>2, RunKept

(* An instruction of a core keeps what holds of the run.                   *)
LEMMA CoreKeeps ==
  ASSUME AsLowered, RunInv, NEW k \in Cores, Do(k), UNCHANGED <<design, lines>>
  PROVE  RunInv' /\ running /\ running' = running
<1>1. RunInv'
  BY ConfigStep, StreamersStep, StartDone, DmaQueued, PollStep, CounterStep DEF Do
<1>2. running /\ running' = running
  BY DEF Do, DoConfig, DoStreamers, DoStart, DoDma, DoPoll, DoCounter, Step
<1>3. QED BY <1>1, <1>2

(* ... and every step of the list, of the lowering, of the cores and of    *)
(* the engines keeps it.                                                   *)
LEMMA ListNext == ListInv /\ [ListedNext]_listedVars => ListInv'
<1> SUFFICES ASSUME ListInv, [ListedNext]_listedVars PROVE ListInv'
  OBVIOUS
<1>0. /\ LowerInv /\ ListOK /\ StepsAre /\ RunInv /\ AsLowered
      /\ (running => closed /\ steps = <<>>) /\ (~running => AtRest)
  BY ListWritten DEF ListInv, LowerInv, Phases
<1>1. ASSUME UNCHANGED <<listVars, programVars, clusterVars, closed>> PROVE ListInv'
  <2>1. LowerInv'
    BY <1>0, <1>1, SameSteps, LowerSame DEF programVars
  <2>2. RunInv'
    BY <1>0, <1>1, SameRunning DEF programVars, listVars
  <2>3. Phases'
    BY <1>0, <1>1 DEF Phases, AtRest, clusterVars, programVars
  <2>4. QED BY <2>1, <2>2, <2>3 DEF ListInv
<1>2. CASE Write
  <2>1. UNCHANGED <<listVars, covered, waited, lines, refused, clusterVars>>
    BY <1>2 DEF Write
  <2>2. StepsAre'
    BY <1>0, <1>2, WriteSteps
  <2>3. LowerInv'
    BY <1>0, <2>1, <2>2, LowerSame
  <2>4. RunInv'
    BY <1>0, <2>1, SameRunning DEF listVars
  <2>5. ~closed
    BY <1>2 DEF Write, Add, Close, Made
  <2>6. Phases'
    BY <1>0, <2>1, <2>5 DEF Phases, AtRest, clusterVars
  <2>7. QED BY <2>3, <2>4, <2>6 DEF ListInv
<1>3. CASE ListedLower
  <2>1. Lower /\ UNCHANGED <<clusterVars, closed>> /\ ~running
    BY <1>0, <1>3 DEF ListedLower, Lower
  <2>2. LowerInv'
    BY <1>0, <2>1, LowerKeeps
  <2>3. AtRest' /\ ~running'
    BY <1>0, <2>1 DEF AtRest, clusterVars
  <2>4. LinesAre(lines)'
    BY <2>2 DEF LowerInv, ProgramIs, ProgramOn
  <2>5. RunInv'
    BY <2>3, <2>4, FreshNext
  <2>6. QED BY <2>2, <2>3, <2>5 DEF ListInv, Phases
<1>4. CASE ListedRun
  <2>1. /\ closed /\ steps = <<>> /\ ~running
        /\ UNCHANGED <<listVars, covered, waited, lines, steps, closed>>
        /\ UNCHANGED <<pc, regs, active, queue, ended>>
    BY <1>4 DEF ListedRun, Run
  <2>2. LowerInv'
    BY <1>0, <2>1, SameSteps, LowerSame
  <2>3. RunInv'
    <3>1. RunOn(pc', regs', active', ToSet(queue'), ended') /\ IsSeq(queue')
      BY <1>0, <2>1 DEF RunInv
    <3>2. QED BY <2>1, <3>1, RunKept DEF listVars
  <2>4. Phases'
    BY <1>0, <2>1 DEF Phases, AtRest
  <2>5. QED BY <2>2, <2>3, <2>4 DEF ListInv
<1>5. ASSUME ListedOff, running, running' = running, RunInv' PROVE ListInv'
  <2>1. LowerInv'
    BY <1>0, <1>5, SameSteps, LowerSame DEF ListedOff, programVars
  <2>2. Phases'
    BY <1>0, <1>5 DEF Phases, ListedOff, programVars
  <2>3. QED BY <1>5, <2>1, <2>2 DEF ListInv
<1>6. ASSUME NEW k \in Cores, ListedCores(k) PROVE ListInv'
  <2>1. Do(k) /\ ListedOff /\ UNCHANGED <<design, lines>>
    BY <1>6 DEF ListedCores, ListedOff, listVars, programVars
  <2>2. QED BY <1>0, <1>5, <2>1, CoreKeeps
<1>7. CASE ListedBarrier
  <2>1. ListedOff /\ UNCHANGED <<design, lines>> /\ DoBarrier /\ running /\ running' = running
    BY <1>7 DEF ListedBarrier, DoBarrier, ListedOff, listVars, programVars
  <2>2. QED BY <1>0, <1>5, <2>1, BarrierPasses
<1>8. CASE ListedDma
  <2>1. ListedOff /\ UNCHANGED <<design, lines>> /\ EndDma /\ running' = running
    BY <1>8 DEF ListedDma, EndDma, ListedOff, listVars, programVars
  <2>2. running
    BY <1>0, <2>1 DEF EndDma, AtRest
  <2>3. QED BY <1>0, <1>5, <2>1, <2>2, EndSteps
<1>9. CASE ListedEnd
  <2>1. PICK t \in active : EndTask(t)
    BY <1>9 DEF ListedEnd
  <2>2. ListedOff /\ UNCHANGED <<design, lines>> /\ running' = running
    BY <1>9, <2>1 DEF ListedEnd, EndTask, ListedOff, listVars, programVars
  <2>3. running
    BY <1>0, <2>1 DEF AtRest
  <2>4. QED BY <1>0, <1>5, <2>1, <2>2, <2>3, EndSteps
<1>10. CASE ListedStopped
  BY <1>1, <1>10 DEF ListedStopped, listedVars
<1>11. CASE UNCHANGED listedVars
  BY <1>1, <1>11 DEF listedVars
<1>12. QED BY <1>2, <1>3, <1>4, <1>6, <1>7, <1>8, <1>9, <1>10, <1>11 DEF ListedNext

(* The lowering writes, from every list the checks accept (configures,     *)
(* starts and syncs in any order, any number of them), a program that      *)
(* keeps the order of the list's tasks, and the cores, registers and       *)
(* engines follow it: the invariant the two below rest on.                 *)
THEOREM ListInvariant == ListedSpec => []ListInv
<1>1. ListedInit => ListInv
  BY ListInit
<1>2. ListInv /\ [ListedNext]_listedVars => ListInv'
  BY ListNext
<1>3. QED BY <1>1, <1>2, PTL DEF ListedSpec

(* The program the lowering writes (lower/waits.py, lower/c.py) launches a *)
(* task only when every task of its `after' on the same core is over: for  *)
(* every list of configures, starts and syncs in any order that the checks *)
(* accept, every design point and every number of cores.                   *)
THEOREM AfterIsKept == ListedSpec => []AfterOnCore
<1>1. ListInv => AfterOnCore
  BY ListWritten, AfterHolds
<1>2. QED BY <1>1, ListInvariant, PTL

(* No CSR write of the program starts a component whose task is under way  *)
(* (the accelerator would hold the core, or lose the task before), however *)
(* far a task's start is from its configure: every start finds its         *)
(* components idle.                                                        *)
THEOREM StartsAreIdle == ListedSpec => []StartsFindIdle
<1>1. ListInv => StartsFindIdle
  BY ListWritten, StartsHold
<1>2. QED BY <1>1, ListInvariant, PTL

-----------------------------------------------------------------------------
(* A derived list: the accelerators in series, in the lines.               *)

(* The tasks that move data, and the accelerator of one.                   *)
Moving(S) == {t \in S : IsMover(t.comp) /\ ~t.idle}
AccOf(t) == design.acc[t.comp[1]]

(* The movers of another accelerator are launched past a task.             *)
SeriesOn(ln, st) ==
  \A t \in Moving(st) : \A j \in 1 .. Len(ln[SlotCore]) : \A q \in 1 .. j - 1 : \A m :
    Goes(ln[SlotCore], q, t) /\ Launches(ln[SlotCore][j], m) /\ IsMover(m) /\ design.acc[m[1]] # AccOf(t) =>
      Past(ln[SlotCore], j, t)

(* t was started together with w, the last task so far of its unit.        *)
IsAccel(w) == w.comp[1] \in DUnits /\ w.comp = Unit(w.comp[1])
LatestOfUnit(w) == \A x \in Started : x.comp = w.comp => Place(x) <= Place(w)
Together(k, t, w) == t \in ToSet(starts[k]) /\ w \in ToSet(starts[k])
With(t, w) ==
  /\ IsAccel(w) /\ t.comp \in Movers(w.comp[1]) /\ w \in Started /\ LatestOfUnit(w)
  /\ \E k \in 1 .. Len(starts) : Together(k, t, w)
StartsAre == \A k \in 1 .. Len(starts) : IsSeq(starts[k])

(* What starts together is of one step.                                    *)
LEMMA SameStart ==
  ASSUME ListOK, StartsAre, NEW k \in 1 .. Len(starts), NEW t \in ToSet(starts[k]), NEW w \in ToSet(starts[k])
  PROVE  StepOf(t) = StepOf(w)
<1>1. IsSeq(starts) /\ \A i \in 1 .. Len(starts) : IsSeq(starts[i])
  BY DEF ListOK, StartsAre
<1>2. PICK a, b : Spread(starts, Order, a, b)
  BY <1>1, Spreads DEF Order
<1>3. \A p, q \in 1 .. Len(Order) : Order[p] = Order[q] => p = q
  <2>1. DOMAIN Order = 1 .. Len(Order) /\ IsInjective(Order)
    BY SeqFacts DEF ListOK
  <2>2. QED BY <2>1 DEF IsInjective
<1>4. ASSUME NEW x \in ToSet(starts[k]) PROVE StepOf(x) = k
  <2>1. PICK o \in 1 .. Len(starts[k]) : starts[k][o] = x
    BY <1>1, SeqFacts
  <2>2. PICK p \in 1 .. Len(Order) : a[p] = k /\ b[p] = o
    BY <1>2, <2>1 DEF Spread
  <2>3. Order[p] = x
    BY <1>2, <2>1, <2>2 DEF Spread
  <2>4. ASSUME NEW i \in 1 .. Len(starts), x \in ToSet(starts[i]) PROVE i = k
    <3>1. PICK oo \in 1 .. Len(starts[i]) : starts[i][oo] = x
      BY <1>1, <2>4, SeqFacts
    <3>2. PICK q \in 1 .. Len(Order) : a[q] = i /\ b[q] = oo
      BY <1>2, <3>1 DEF Spread
    <3>3. Order[q] = x
      BY <1>2, <3>1, <3>2 DEF Spread
    <3>4. QED BY <1>3, <2>2, <2>3, <3>2, <3>3
  <2>5. DOMAIN starts = 1 .. Len(starts)
    BY <1>1, SeqFacts
  <2>6. QED BY <2>4, <2>5 DEF StepOf
<1>5. QED BY <1>4

(* A wait on the unit covers what was started with it and is still open.   *)
LEMMA CoveredTogether ==
  ASSUME ListOK, StartsAre, LatestAre(covered), NEW t \in Moving(Started), NEW w, With(t, w)
  PROVE  t \in covered \/ t.comp \in Covers(w.comp)
<1> SUFFICES ASSUME t \notin covered PROVE t.comp \in Covers(w.comp)
  OBVIOUS
<1>0. DesignOK /\ t \in Started /\ IsMover(t.comp) /\ ~t.idle /\ w \in Started
  BY DEF ListOK, Moving, With
<1>1. t.comp \in Components /\ w.comp \in Components /\ ~IsDma(t.comp) /\ IsUnit(w.comp)
  BY <1>0, MoverIs, UnitIs DEF With, IsAccel
<1>2. t.comp \in Used /\ w.comp \in Used
  BY <1>0, UsedIf
<1>3. Latest(t.comp) = t
  <2>1. Latest(t.comp) \in Started /\ Latest(t.comp).comp = t.comp /\ Place(t) <= Place(Latest(t.comp))
    BY <1>0, <1>2, LatestIs
  <2>2. Place(Latest(t.comp)) <= Place(t)
    BY <1>0, <1>1, <2>1 DEF LatestAre
  <2>3. Place(t) \in Nat /\ Place(Latest(t.comp)) \in Nat
    BY <1>0, <2>1, PlaceIs
  <2>4. QED BY <1>0, <2>1, <2>2, <2>3, PlaceOnce
<1>4. Latest(w.comp) = w
  <2>1. Latest(w.comp) \in Started /\ Latest(w.comp).comp = w.comp /\ Place(w) <= Place(Latest(w.comp))
    BY <1>0, <1>2, LatestIs
  <2>2. Place(Latest(w.comp)) <= Place(w)
    BY <2>1 DEF With, LatestOfUnit
  <2>3. Place(w) \in Nat /\ Place(Latest(w.comp)) \in Nat
    BY <1>0, <2>1, PlaceIs
  <2>4. QED BY <1>0, <2>1, <2>2, <2>3, PlaceOnce
<1>5. StepOf(t) = StepOf(w)
  BY SameStart DEF With, Together
<1>6. t.comp \in Upstream(w.comp)
  BY <1>1 DEF With, Upstream
<1> DEFINE with(x) == x \in Used /\ StepOf(Latest(x)) = StepOf(Latest(w.comp))
           hop(X) == X \cup {y \in UNION {Upstream(x) : x \in X} : with(y)}
<1>7. Covers(w.comp) = hop(hop({w.comp}))
  BY DEF Covers
<1>8. with(t.comp)
  BY <1>2, <1>3, <1>4, <1>5
<1>9. t.comp \in hop({w.comp})
  <2> HIDE DEF with
  <2> QED BY <1>6, <1>8
<1>10. \A X : X \subseteq hop(X)
  OBVIOUS
<1> HIDE DEF hop
<1>11. QED BY <1>7, <1>9, <1>10

(* Lines that grow keep the order of accelerators when what is launched on *)
(* is of the accelerator of every task not past.                           *)
LEMMA SeriesGrows ==
  ASSUME DesignOK, NEW N, NEW st, LinesAre(N), LaunchesAre(N, st), SeriesOn(N, st),
         NEW M, Prefix(N[SlotCore], M[SlotCore]), NEW st2,
         \A t \in Moving(st2) : \A j \in Len(N[SlotCore]) + 1 .. Len(M[SlotCore]) : \A m :
           Launches(M[SlotCore][j], m) /\ IsMover(m) /\ design.acc[m[1]] # AccOf(t) =>
             t \in st /\ Past(N[SlotCore], Len(N[SlotCore]) + 1, t)
  PROVE  SeriesOn(M, st2)
<1> DEFINE A == N[SlotCore]
           B == M[SlotCore]
           n == Len(A)
<1>0. SlotCore \in Cores
  BY CoresIs
<1>1. /\ n \in Nat /\ Len(B) \in Nat /\ n <= Len(B) /\ IsSeq(A)
      /\ \A i \in 1 .. n : B[i] = A[i]
  BY SeqFacts DEF Prefix
<1> SUFFICES ASSUME NEW t \in Moving(st2), NEW j \in 1 .. Len(B), NEW q \in 1 .. j - 1, NEW m,
                    Goes(B, q, t), Launches(B[j], m), IsMover(m), design.acc[m[1]] # AccOf(t)
             PROVE  Past(B, j, t)
  BY DEF SeriesOn
<1>2. Prefix(A, B)
  OBVIOUS
<1>3. \A i \in 1 .. n : \A x : Goes(B, i, x) <=> Goes(A, i, x)
  BY <1>2, GoesKept
<1>4. \A i \in 1 .. n + 1 : \A x : Past(B, i, x) <=> Past(A, i, x)
  BY <1>2, PastKept
<1>5. CASE j \in 1 .. n
  <2>1. Goes(A, q, t) /\ Launches(A[j], m) /\ q \in 1 .. n
    BY <1>1, <1>3, <1>5
  <2>2. t \in st
    BY <1>0, <2>1, GoesStarted
  <2>3. t \in Moving(st)
    BY <2>2 DEF Moving
  <2>4. Past(A, j, t)
    BY <1>5, <2>1, <2>3 DEF SeriesOn
  <2>5. QED BY <1>1, <1>4, <1>5, <2>4
<1>6. CASE j \in n + 1 .. Len(B)
  <2>1. Past(A, n + 1, t)
    BY <1>6
  <2>2. Past(B, n + 1, t)
    BY <1>1, <1>4, <2>1
  <2>3. QED BY <1>1, <1>6, <2>2, PastOn
<1>7. QED BY <1>1, <1>5, <1>6

(* It is said of the lines and the tasks alone while the design point      *)
(* stays.                                                                  *)
LEMMA SameSeries ==
  ASSUME design' = design
  PROVE  \A ln, st : SeriesOn(ln, st)' <=> SeriesOn(ln, st)
<1>1. /\ \A x, c : Launches(x, c)' <=> Launches(x, c)
      /\ \A L, j, t : Goes(L, j, t)' <=> Goes(L, j, t)
      /\ \A L, j, t : Past(L, j, t)' <=> Past(L, j, t)
  BY SameInstr, SameGoes
<1>2. ASSUME NEW ln, NEW st, SeriesOn(ln, st) PROVE SeriesOn(ln, st)'
  BY <1>1, <1>2 DEF SeriesOn, Moving, AccOf, IsMover
<1>3. ASSUME NEW ln, NEW st, SeriesOn(ln, st)' PROVE SeriesOn(ln, st)
  BY <1>1, <1>3 DEF SeriesOn, Moving, AccOf, IsMover
<1>4. QED BY <1>2, <1>3

(* Waits and configures launch nothing.                                    *)
LEMMA SeriesWaits ==
  ASSUME DesignOK, NEW N, NEW st, LinesAre(N), LaunchesAre(N, st), SeriesOn(N, st), NEW M, Waited(N, M)
  PROVE  SeriesOn(M, st)
<1>0. SlotCore \in Cores
  BY CoresIs
<1>1. Prefix(N[SlotCore], M[SlotCore])
  BY <1>0 DEF Waited
<1>2. \A j \in Len(N[SlotCore]) + 1 .. Len(M[SlotCore]) : \A m : ~Launches(M[SlotCore][j], m)
  BY <1>0, WaitTouches DEF Waited
<1>3. QED BY <1>1, <1>2, SeriesGrows

(* A configure launches nothing.                                           *)
LEMMA SeriesConfigure ==
  ASSUME ListOK, NEW N, NEW st, LinesAre(N), LaunchesAre(N, st), SeriesOn(N, st), NEW t, t.comp \in Components,
         NEW M, M = Emit(N, CoreOf(t.comp), ConfigCode(t))
  PROVE  SeriesOn(M, st)
<1>0. SlotCore \in Cores /\ DesignOK
  BY CoresIs DEF ListOK
<1>1. Prefix(N[SlotCore], M[SlotCore]) /\ \A j \in 1 .. Len(M[SlotCore]) : j \notin 1 .. Len(N[SlotCore]) =>
        M[SlotCore][j] = Instr("config", t)
  BY <1>0, ConfigLines
<1>2. Len(N[SlotCore]) \in Nat
  BY <1>0, SeqFacts DEF LinesAre
<1>3. \A j \in Len(N[SlotCore]) + 1 .. Len(M[SlotCore]) : j \in 1 .. Len(M[SlotCore]) /\ j \notin 1 .. Len(N[SlotCore])
  BY <1>2
<1>4. \A j \in Len(N[SlotCore]) + 1 .. Len(M[SlotCore]) : \A m : ~Launches(M[SlotCore][j], m)
  BY <1>1, <1>3, ConfigIs
<1>5. QED BY <1>0, <1>1, <1>4, SeriesGrows

(* A start launches its own components, past what is covered.              *)
LEMMA SeriesStart ==
  ASSUME DesignOK, NEW N, NEW st, NEW cov, LinesAre(N), LaunchesAre(N, st), SeriesOn(N, st), CoveredAre(N, cov),
         NEW ts, NEW M, Grown(N, M, ts),
         \A t \in Moving(st \cup ToSet(ts)) : \A x \in ToSet(ts) :
           IsMover(x.comp) /\ AccOf(x) # AccOf(t) => t \in st /\ t \in cov
  PROVE  SeriesOn(M, st \cup ToSet(ts))
<1>0. SlotCore \in Cores
  BY CoresIs
<1>1. /\ Prefix(N[SlotCore], M[SlotCore])
      /\ \A j \in Len(N[SlotCore]) + 1 .. Len(M[SlotCore]) : \A c : Launches(M[SlotCore][j], c) =>
           \E t \in ToSet(ts) : t.comp = c
  BY <1>0 DEF Grown
<1>2. ASSUME NEW t \in Moving(st \cup ToSet(ts)), NEW j \in Len(N[SlotCore]) + 1 .. Len(M[SlotCore]), NEW m,
             Launches(M[SlotCore][j], m), IsMover(m), design.acc[m[1]] # AccOf(t)
      PROVE  t \in st /\ Past(N[SlotCore], Len(N[SlotCore]) + 1, t)
  <2>1. PICK x \in ToSet(ts) : x.comp = m
    BY <1>1, <1>2
  <2>2. AccOf(x) # AccOf(t) /\ IsMover(x.comp)
    BY <1>2, <2>1 DEF AccOf
  <2>3. t \in st /\ t \in cov
    BY <2>2
  <2>4. ~IsDma(t.comp) /\ ~t.idle
    BY DmaIs DEF Moving, IsDma, IsMover
  <2>5. QED BY <2>3, <2>4 DEF CoveredAre
<1> DEFINE st2 == st \cup ToSet(ts)
<1>3. \A t \in Moving(st2) : \A j \in Len(N[SlotCore]) + 1 .. Len(M[SlotCore]) : \A m :
        Launches(M[SlotCore][j], m) /\ IsMover(m) /\ design.acc[m[1]] # AccOf(t) =>
          t \in st /\ Past(N[SlotCore], Len(N[SlotCore]) + 1, t)
  BY <1>2
<1>4. Prefix(N[SlotCore], M[SlotCore])
  BY <1>1
<1> HIDE DEF st2
<1>5. SeriesOn(M, st2)
  BY <1>3, <1>4, SeriesGrows
<1>6. QED BY <1>5 DEF st2

-----------------------------------------------------------------------------
(* A derived list: the groups' turns.                                      *)

(* A start of DMA transfers only.                                          *)
DmaOnly(x) == x.op = "start" => \A t \in ToSet(x.tasks) : IsDma(t.comp)

(* The start of a node's group, w its accelerator's task.                  *)
GroupStart(ts, w) ==
  /\ IsAccel(w) /\ w \in ToSet(ts) /\ \E x \in ToSet(ts) : IsMover(x.comp)
  /\ \A x \in ToSet(ts) : IsMover(x.comp) =>
       /\ x.comp[1] \in DUnits /\ x.comp \in Movers(x.comp[1]) /\ AccOf(x) = AccOf(w)
       /\ x.comp[1] = w.comp[1] \/ x.idle

(* No group is to start: what moves was started with the previous one.     *)
Rested(s, p, cov) ==
  /\ \A i \in 1 .. Len(s) : DmaOnly(s[i])
  /\ \A t \in Moving(Started) : t \in cov \/ (p # <<>> /\ With(t, p[1]))

(* Group p is to start at step i: what moves is waited for before it, or is *)
(* of its accelerator.                                                     *)
Awaited(s, i, t) == \E j \in 1 .. i - 1 : s[j].op = "sync" /\ With(t, s[j].task)
Coming(s, p, i, cov) ==
  /\ s[i].op = "start" /\ GroupStart(s[i].tasks, p[1])
  /\ \A j \in 1 .. Len(s) : j # i => DmaOnly(s[j])
  /\ \A t \in Moving(Started) : t \in cov \/ AccOf(t) = AccOf(p[1]) \/ Awaited(s, i, t)
InTurn(s, p, cov) == Rested(s, p, cov) \/ (p # <<>> /\ \E i \in 1 .. Len(s) : Coming(s, p, i, cov))

(* The list unchanged, so is what is said of it.                           *)
LEMMA SameWith ==
  ASSUME UNCHANGED <<design, starts>>
  PROVE  /\ \A w : IsAccel(w)' <=> IsAccel(w)
         /\ \A t, w : With(t, w)' <=> With(t, w)
<1>1. \A w : IsAccel(w)' <=> IsAccel(w)
  BY DEF IsAccel, DUnits, Unit
<1>2. Started' = Started /\ \A t : Place(t)' = Place(t)
  BY SameOrder
<1>3. \A w : LatestOfUnit(w)' <=> LatestOfUnit(w)
  BY <1>2 DEF LatestOfUnit
<1>4. \A k, t, w : Together(k, t, w)' <=> Together(k, t, w)
  BY DEF Together
<1>5. \A c : Movers(c)' = Movers(c)
  BY DEF Movers, Readers, Writers
<1>6. \A t, w : With(t, w)' <=> With(t, w)
  BY <1>1, <1>2, <1>3, <1>4, <1>5 DEF With
<1>7. QED BY <1>1, <1>6

(* What is said of a start stays while the list does.                      *)
LEMMA SameGroup ==
  ASSUME UNCHANGED <<design, starts>>
  PROVE  \A ts, w : GroupStart(ts, w)' <=> GroupStart(ts, w)
<1>1. /\ \A w : IsAccel(w)' <=> IsAccel(w)
      /\ \A c : Movers(c)' = Movers(c)
      /\ \A t : AccOf(t)' = AccOf(t)
      /\ DUnits' = DUnits
  BY SameWith DEF AccOf, DUnits, Movers, Readers, Writers
<1>2. \A ts, w : GroupStart(ts, w)' <=> GroupStart(ts, w)
  BY <1>1 DEF GroupStart, IsMover
<1>3. QED BY <1>2

(* More covered, still in turn.                                            *)
LEMMA TurnKept ==
  ASSUME NEW s, NEW p, NEW cov, InTurn(s, p, cov), NEW cov2, cov \subseteq cov2
  PROVE  InTurn(s, p, cov2)
<1>1. Rested(s, p, cov) => Rested(s, p, cov2)
  BY DEF Rested
<1>2. \A i : Coming(s, p, i, cov) => Coming(s, p, i, cov2)
  BY DEF Coming
<1>3. QED BY <1>1, <1>2 DEF InTurn

(* And what is said of the turns.                                          *)
LEMMA SameTurn ==
  ASSUME UNCHANGED <<design, starts>>
  PROVE  \A s, p, cov : InTurn(s, p, cov)' <=> InTurn(s, p, cov)
<1>1. /\ \A t, w : With(t, w)' <=> With(t, w)
      /\ \A ts, w : GroupStart(ts, w)' <=> GroupStart(ts, w)
      /\ \A t : AccOf(t)' = AccOf(t)
      /\ Moving(Started)' = Moving(Started)
      /\ \A x : DmaOnly(x)' <=> DmaOnly(x)
  BY SameWith, SameGroup, SameOrder DEF AccOf, Moving, IsMover, DmaOnly, IsDma, DMA
<1>2. \A s, i, t : Awaited(s, i, t)' <=> Awaited(s, i, t)
  BY <1>1 DEF Awaited
<1>3. \A s, p, cov : Rested(s, p, cov)' <=> Rested(s, p, cov)
  BY <1>1 DEF Rested
<1>4. \A s, p, i, cov : Coming(s, p, i, cov)' <=> Coming(s, p, i, cov)
  BY <1>1, <1>2 DEF Coming
<1>5. QED BY <1>3, <1>4 DEF InTurn

(* The rest of a list whose first step starts no group and waits for none  *)
(* that it does not cover.                                                 *)
LEMMA TailTurn ==
  ASSUME NEW s, IsSeq(s), s # <<>>, NEW p, NEW cov, InTurn(s, p, cov), DmaOnly(s[1]),
         \A t \in Moving(Started) : s[1].op = "sync" /\ With(t, s[1].task) => t \in cov
  PROVE  InTurn(Tail(s), p, cov)
<1> DEFINE r == Tail(s)
<1>1. /\ IsSeq(r) /\ Len(r) \in Nat /\ Len(s) = Len(r) + 1
      /\ \A i \in 1 .. Len(r) : r[i] = s[i + 1]
  BY TailIs
<1> HIDE DEF r
<1>2. CASE Rested(s, p, cov)
  <2>1. \A i \in 1 .. Len(r) : i + 1 \in 1 .. Len(s)
    BY <1>1
  <2>2. \A i \in 1 .. Len(r) : DmaOnly(r[i])
    BY <1>1, <1>2, <2>1 DEF Rested
  <2>3. Rested(r, p, cov)
    BY <1>2, <2>2 DEF Rested
  <2>4. QED BY <2>3 DEF InTurn, r
<1>3. CASE p # <<>> /\ \E i \in 1 .. Len(s) : Coming(s, p, i, cov)
  <2>1. PICK i \in 1 .. Len(s) : Coming(s, p, i, cov)
    BY <1>3
  <2>2. i # 1 /\ i - 1 \in 1 .. Len(r)
    <3>1. ~(s[i].op = "start" /\ GroupStart(s[i].tasks, p[1]) /\ DmaOnly(s[i]))
      BY DmaIs DEF GroupStart, DmaOnly, IsDma
    <3>2. QED BY <1>1, <2>1, <3>1 DEF Coming
  <2>3. r[i - 1] = s[i]
    BY <1>1, <2>2
  <2>4. ASSUME NEW j \in 1 .. Len(r), j # i - 1 PROVE DmaOnly(r[j])
    <3>1. j + 1 \in 1 .. Len(s) /\ j + 1 # i
      BY <1>1, <2>4
    <3>2. DmaOnly(s[j + 1])
      BY <2>1, <3>1 DEF Coming
    <3>3. QED BY <1>1, <3>2
  <2>5. ASSUME NEW t \in Moving(Started), t \notin cov, AccOf(t) # AccOf(p[1]) PROVE Awaited(r, i - 1, t)
    <3>1. PICK j \in 1 .. i - 1 : s[j].op = "sync" /\ With(t, s[j].task)
      BY <2>1, <2>5 DEF Coming, Awaited
    <3>2. j # 1
      BY <2>5, <3>1
    <3>3. j - 1 \in 1 .. i - 2 /\ j - 1 \in 1 .. Len(r) /\ (j - 1) + 1 = j
      BY <1>1, <3>2
    <3>4. r[j - 1] = s[j]
      BY <1>1, <3>3
    <3>5. j - 1 \in 1 .. (i - 1) - 1
      BY <3>3
    <3>6. QED BY <3>1, <3>4, <3>5 DEF Awaited
  <2>6. Coming(r, p, i - 1, cov)
    BY <2>1, <2>3, <2>4, <2>5 DEF Coming
  <2>7. QED BY <1>3, <2>2, <2>6 DEF InTurn, r
<1>4. QED BY <1>2, <1>3 DEF InTurn

-----------------------------------------------------------------------------
(* Lowering a list in turn.                                                *)

(* The order of accelerators in the list read so far and in its program.   *)
SeriesInv == SeriesOn(lines, Started) /\ StartsAre

(* After a configure.                                                      *)
LEMMA ConfigureTurn ==
  ASSUME LowerInv, SeriesInv, NEW t, NEW after, LegalConfigure(t, after),
         lines' = Emit(lines, CoreOf(t.comp), ConfigCode(t)),
         UNCHANGED <<design, starts>>
  PROVE  SeriesInv'
<1>1. ListOK /\ LinesAre(lines) /\ LaunchesAre(lines, Started) /\ t.comp \in Components
  BY DEF LowerInv, ProgramIs, ProgramOn, LegalConfigure
<1>2. SeriesOn(lines', Started)
  BY <1>1, SeriesConfigure DEF SeriesInv
<1>3. Started' = Started
  BY SameOrder
<1>4. SeriesOn(lines, Started)'
  BY <1>2, <1>3, SameSeries
<1>5. StartsAre'
  BY DEF SeriesInv, StartsAre, IsSeq, ToSet
<1>6. QED BY <1>4, <1>5 DEF SeriesInv

(* After a sync.                                                           *)
LEMMA SyncTurn ==
  ASSUME LowerInv, SeriesInv, NEW t, LegalSync(t),
         lines' = WaitAll(<<t.comp>>, Cores).lines,
         UNCHANGED listVars
  PROVE  SeriesInv'
<1> DEFINE cs == <<t.comp>>
           P == WaitAll(cs, Cores)
<1>1. /\ ListOK /\ LinesAre(lines) /\ LaunchesAre(lines, Started) /\ ProgramIs(lines, covered, waited)
      /\ DesignOK /\ t.comp \in Components
  BY DEF LowerInv, ProgramIs, ProgramOn, LegalSync, ListOK
<1>2. IsSeq(cs) /\ Len(cs) = 1 /\ cs[1] = t.comp
  BY Single
<1> HIDE DEF cs
<1>3. \A i \in 1 .. Len(cs) : cs[i] \in Components
  BY <1>1, <1>2
<1>4. Waited(lines, P.lines)
  <2>1. \A u \in covered \ covered : u \in Started /\ (~IsDma(u.comp) => \E i \in 1 .. Len(cs) : u.comp \in Covers(cs[i]))
    OBVIOUS
  <2>2. QED BY <1>1, <1>2, <1>3, <2>1, AfterWaits
<1>5. lines' = P.lines
  BY DEF cs
<1> HIDE DEF P
<1>6. SeriesOn(lines', Started)
  BY <1>1, <1>4, <1>5, SeriesWaits DEF SeriesInv
<1>7. Started' = Started /\ design' = design /\ starts' = starts
  BY SameOrder DEF listVars
<1>8. SeriesOn(lines, Started)'
  BY <1>6, <1>7, SameSeries
<1>9. StartsAre'
  BY <1>7 DEF SeriesInv, StartsAre, IsSeq, ToSet
<1>10. QED BY <1>8, <1>9 DEF SeriesInv

(* After a start that keeps the rules.                                     *)
LEMMA StartPlaced ==
  ASSUME ListOK, ProgramIs(lines, covered, waited), NEW ts, IsSeq(ts), LegalStart(ts), ~Partial(ts),
         starts' = Append(starts, ts), covered' = CoveredBy(ts), waited' = Waits(ts).waited,
         UNCHANGED <<design, conf>>
  PROVE  /\ Startable(ts) /\ Started' = Started \cup ToSet(ts) /\ ListOK'
         /\ \A t \in Started : Place(t)' = Place(t) /\ Place(t) \in 1 .. Len(Order)
         /\ \A t \in ToSet(ts) : \E i \in Nat : i > Len(Order) /\ Place(t)' = i
         /\ \A t \in ToSet(ts) : \A u \in Started : u.comp = t.comp /\ ~IsDma(u.comp) => u.idle \/ u \in CoveredBy(ts)
<1>1. Startable(ts) /\ \A t \in ToSet(ts) : conf[t] \subseteq Started
  BY DEF LegalStart, Startable
<1> DEFINE cov == CoveredBy(ts)
           wtd == Waits(ts).waited
<1>2. /\ ProgramIs(Waits(ts).lines, cov, wtd) /\ wtd = waited \cup OnOf(WaitsOf(ts))
      /\ \A t \in ToSet(ts) : \A u \in Started : u.comp = t.comp /\ ~IsDma(u.comp) => u.idle \/ u \in cov
  BY <1>1, StartReady
<1>3. cov \subseteq Started /\ wtd \subseteq Started
  BY <1>2 DEF ListOK, CoveredBy, OnOf, On
<1> HIDE DEF cov, wtd
<1>4. LatestAre(cov) /\ covered' = cov /\ waited' = wtd
  BY <1>2 DEF ProgramIs, cov, wtd
<1>5. waited' \subseteq Started
  BY <1>3, <1>4
<1>6. /\ Started' = Started \cup ToSet(ts) /\ ListOK'
      /\ \A t \in Started : Place(t)' = Place(t) /\ Place(t) \in 1 .. Len(Order)
      /\ \A t \in ToSet(ts) : \E i \in Nat : i > Len(Order) /\ Place(t)' = i
  BY <1>1, <1>2, <1>3, <1>4, <1>5, StartList
<1>7. QED BY <1>1, <1>2, <1>6 DEF cov

(* What starts with ts is together, what it does not start stays together. *)
LEMMA WithStart ==
  ASSUME LowerInv, NEW ts, IsSeq(ts), LegalStart(ts), ~Partial(ts),
         starts' = Append(starts, ts), covered' = CoveredBy(ts), waited' = Waits(ts).waited,
         UNCHANGED <<design, conf>>
  PROVE  /\ \A t, w : With(t, w) /\ (\A x \in ToSet(ts) : x.comp # w.comp) => With(t, w)'
         /\ \A t, w : t \in ToSet(ts) /\ w \in ToSet(ts) /\ IsAccel(w) /\ t.comp \in Movers(w.comp[1]) => With(t, w)'
<1>1. ListOK /\ ProgramIs(lines, covered, waited)
  BY DEF LowerInv
<1>2. /\ Startable(ts) /\ Started' = Started \cup ToSet(ts)
      /\ \A t \in Started : Place(t)' = Place(t) /\ Place(t) \in 1 .. Len(Order)
      /\ \A t \in ToSet(ts) : \E i \in Nat : i > Len(Order) /\ Place(t)' = i
  BY <1>1, StartPlaced
<1>3. /\ \A w : IsAccel(w)' <=> IsAccel(w)
      /\ \A c : Movers(c)' = Movers(c)
  BY DEF IsAccel, DUnits, Unit, Movers, Readers, Writers
<1>4. /\ IsSeq(starts) /\ Len(starts) \in Nat /\ Len(starts') = Len(starts) + 1
      /\ \A k \in 1 .. Len(starts) : starts'[k] = starts[k]
      /\ starts'[Len(starts) + 1] = ts
  BY <1>1, Added, SeqFacts DEF ListOK
<1>5. Len(Order) \in Nat
  BY <1>1, SeqFacts DEF ListOK
<1>6. \A k, t, w : Together(k, t, w)' <=> t \in ToSet(starts'[k]) /\ w \in ToSet(starts'[k])
  BY DEF Together, ToSet
<1>7. ASSUME NEW t, NEW w, With(t, w), \A x \in ToSet(ts) : x.comp # w.comp PROVE With(t, w)'
  <2>1. IsAccel(w) /\ t.comp \in Movers(w.comp[1]) /\ w \in Started /\ LatestOfUnit(w)
    BY <1>7 DEF With
  <2>2. PICK k \in 1 .. Len(starts) : Together(k, t, w)
    BY <1>7 DEF With
  <2>3. k \in 1 .. Len(starts') /\ Together(k, t, w)'
    BY <1>4, <1>6, <2>2 DEF Together
  <2>4. LatestOfUnit(w)'
    <3> SUFFICES ASSUME NEW x \in Started', x.comp = w.comp PROVE Place(x)' <= Place(w)'
      BY DEF LatestOfUnit
    <3>1. x \in Started
      BY <1>2, <1>7
    <3>2. QED BY <1>2, <2>1, <3>1 DEF LatestOfUnit
  <2>5. w \in Started'
    BY <1>2, <2>1
  <2>6. QED BY <1>3, <2>1, <2>3, <2>4, <2>5 DEF With
<1>8. ASSUME NEW t, NEW w, t \in ToSet(ts), w \in ToSet(ts), IsAccel(w), t.comp \in Movers(w.comp[1])
      PROVE  With(t, w)'
  <2>1. \E k \in 1 .. Len(starts') : Together(k, t, w)'
    <3>1. Len(starts) + 1 \in 1 .. Len(starts')
      BY <1>4
    <3>2. t \in ToSet(starts'[Len(starts) + 1]) /\ w \in ToSet(starts'[Len(starts) + 1])
      BY <1>4, <1>8
    <3>3. \E k \in 1 .. Len(starts') : t \in ToSet(starts'[k]) /\ w \in ToSet(starts'[k])
      BY <3>1, <3>2
    <3>4. PICK k \in 1 .. Len(starts') : t \in ToSet(starts'[k]) /\ w \in ToSet(starts'[k])
      BY <3>3
    <3>5. Together(k, t, w)'
      BY <1>6, <3>4
    <3>6. QED BY <3>4, <3>5
  <2>2. LatestOfUnit(w)'
    <3> SUFFICES ASSUME NEW x \in Started', x.comp = w.comp PROVE Place(x)' <= Place(w)'
      BY DEF LatestOfUnit
    <3>1. PICK i \in Nat : i > Len(Order) /\ Place(w)' = i
      BY <1>2, <1>8
    <3>2. CASE x \in Started
      BY <1>2, <1>5, <3>1, <3>2
    <3>3. CASE x \in ToSet(ts)
      <4>1. x = w
        BY <1>1, <1>2, <1>8, <3>3 DEF Startable, ListOK
      <4>2. QED BY <3>1, <4>1
    <3>4. QED BY <1>2, <3>2, <3>3
  <2>3. w \in Started'
    BY <1>2, <1>8
  <2>4. IsAccel(w)' /\ t.comp \in Movers(w.comp[1])'
    BY <1>3, <1>8
  <2>5. QED BY <2>1, <2>2, <2>3, <2>4 DEF With
<1>9. QED BY <1>7, <1>8

(* A start that keeps the rules, lowered.                                  *)
Starts(ts) ==
  /\ IsSeq(ts) /\ LegalStart(ts) /\ ~Partial(ts)
  /\ starts' = Append(starts, ts)
  /\ covered' = CoveredBy(ts) /\ waited' = Waits(ts).waited
  /\ lines' = StartAll(Waits(ts).lines, ts)
  /\ UNCHANGED <<design, conf>>

(* A start of movers whose accelerator's predecessors are covered.         *)
LEMMA StartSeries ==
  ASSUME LowerInv, SeriesInv, NEW ts, Starts(ts),
         \A t \in Moving(Started \cup ToSet(ts)) : \A x \in ToSet(ts) :
           IsMover(x.comp) /\ AccOf(x) # AccOf(t) => t \in Started /\ t \in covered
  PROVE  SeriesInv'
<1>0. ListOK /\ ProgramIs(lines, covered, waited) /\ DesignOK
  BY DEF LowerInv, ListOK
<1>1. /\ Startable(ts) /\ \A t \in ToSet(ts) : conf[t] \subseteq Started
      /\ IsSeq(ts) /\ starts' = Append(starts, ts) /\ design' = design
  BY DEF Starts, LegalStart, Startable
<1>2. Started' = Started \cup ToSet(ts)
  BY <1>0, StartPlaced DEF Starts
<1> DEFINE N == Waits(ts).lines
           cov == CoveredBy(ts)
           wtd == Waits(ts).waited
           st2 == Started \cup ToSet(ts)
<1>3. Waited(lines, N) /\ ProgramIs(N, cov, wtd) /\ covered \subseteq cov
  BY <1>0, <1>1, StartReady DEF CoveredBy
<1>4. LinesAre(lines) /\ LaunchesAre(lines, Started)
  BY <1>0 DEF ProgramIs, ProgramOn
<1> HIDE DEF N, cov, wtd
<1>5. LinesAre(N) /\ LaunchesAre(N, Started) /\ CoveredAre(N, cov)
  BY <1>3 DEF ProgramIs, ProgramOn
<1>6. SeriesOn(N, Started)
  BY <1>0, <1>3, <1>4, SeriesWaits DEF SeriesInv
<1> DEFINE M == StartAll(N, ts)
<1>7. Grown(N, M, ts)
  BY <1>0, <1>1, <1>5, StartGrows
<1>8. lines' = M
  BY DEF N, Starts
<1> HIDE DEF M
<1>9. \A t \in Moving(Started \cup ToSet(ts)) : \A x \in ToSet(ts) :
        IsMover(x.comp) /\ AccOf(x) # AccOf(t) => t \in Started /\ t \in cov
  BY <1>3
<1>10. SeriesOn(M, Started \cup ToSet(ts))
  BY <1>0, <1>5, <1>6, <1>7, <1>9, SeriesStart
<1>11. SeriesOn(lines', Started')
  BY <1>2, <1>8, <1>10
<1>12. SeriesOn(lines, Started)'
  BY <1>1, <1>11, SameSeries
<1>13. /\ IsSeq(starts) /\ Len(starts) \in Nat /\ Len(starts') = Len(starts) + 1
       /\ \A k \in 1 .. Len(starts) : starts'[k] = starts[k]
       /\ starts'[Len(starts) + 1] = ts
  BY <1>0, <1>1, Added, SeqFacts DEF ListOK
<1>14. \A k \in 1 .. Len(starts') : IsSeq(starts'[k])
  BY <1>1, <1>13 DEF SeriesInv, StartsAre
<1>15. StartsAre'
  BY <1>14 DEF StartsAre, IsSeq, ToSet
<1>16. QED BY <1>12, <1>15 DEF SeriesInv

(* Transfers start: what is in turn stays so.                              *)
LEMMA DmaTurn ==
  ASSUME LowerInv, NEW ts, Starts(ts), \A x \in ToSet(ts) : IsDma(x.comp),
         NEW s, NEW p, NEW cov, InTurn(s, p, cov)
  PROVE  InTurn(s, p, cov)'
<1>0. ListOK /\ ProgramIs(lines, covered, waited) /\ DesignOK
  BY DEF LowerInv, ListOK
<1>1. Started' = Started \cup ToSet(ts) /\ design' = design
  BY <1>0, StartPlaced DEF Starts
<1>2. \A t, w : With(t, w) => With(t, w)'
  <2>1. ASSUME NEW t, NEW w, With(t, w), NEW x \in ToSet(ts) PROVE x.comp # w.comp
    BY <1>0, <2>1, UnitIs DEF With, IsAccel
  <2>2. QED BY <2>1, WithStart DEF Starts
<1>3. Moving(Started)' = Moving(Started)
  <2>1. \A x \in ToSet(ts) : ~IsMover(x.comp)
    BY DmaIs DEF IsDma
  <2>2. QED BY <1>1, <2>1 DEF Moving, IsMover
<1>4. /\ \A w : IsAccel(w)' <=> IsAccel(w)
      /\ \A c : Movers(c)' = Movers(c)
      /\ \A t : AccOf(t)' = AccOf(t)
      /\ DUnits' = DUnits
      /\ \A x : DmaOnly(x)' <=> DmaOnly(x)
  BY <1>1 DEF IsAccel, AccOf, DUnits, Unit, Movers, Readers, Writers, DmaOnly, IsDma, DMA
<1>5. \A us, w : GroupStart(us, w)' <=> GroupStart(us, w)
  BY <1>4 DEF GroupStart, IsMover
<1>6. ASSUME Rested(s, p, cov) PROVE Rested(s, p, cov)'
  BY <1>2, <1>3, <1>4, <1>6 DEF Rested
<1>7. ASSUME NEW i, Coming(s, p, i, cov) PROVE Coming(s, p, i, cov)'
  <2>1. \A t : Awaited(s, i, t) => Awaited(s, i, t)'
    BY <1>2 DEF Awaited
  <2>2. QED BY <1>3, <1>4, <1>5, <1>7, <2>1 DEF Coming
<1>8. CASE Rested(s, p, cov)
  BY <1>6, <1>8 DEF InTurn
<1>9. CASE p # <<>> /\ \E i \in 1 .. Len(s) : Coming(s, p, i, cov)
  BY <1>7, <1>9 DEF InTurn
<1>10. QED BY <1>8, <1>9 DEF InTurn

(* A group starts: what moves is then covered, or was started with it.     *)
LEMMA GroupTurn ==
  ASSUME LowerInv, SeriesInv, NEW s, IsSeq(s), s # <<>>, NEW p, p # <<>>, Coming(s, p, 1, covered),
         Starts(s[1].tasks), NEW cov, cov = CoveredBy(s[1].tasks)
  PROVE  SeriesInv' /\ InTurn(Tail(s), p, cov)'
<1> DEFINE ts == s[1].tasks
           w == p[1]
           r == Tail(s)
<1>0. ListOK /\ ProgramIs(lines, covered, waited) /\ DesignOK
  BY DEF LowerInv, ListOK
<1>1. /\ IsAccel(w) /\ w \in ToSet(ts)
      /\ \A x \in ToSet(ts) : IsMover(x.comp) =>
           /\ x.comp[1] \in DUnits /\ x.comp \in Movers(x.comp[1]) /\ AccOf(x) = AccOf(w)
           /\ x.comp[1] = w.comp[1] \/ x.idle
  BY DEF Coming, GroupStart
<1>2. PICK x \in ToSet(ts) : IsMover(x.comp)
  BY DEF Coming, GroupStart
<1>3. \A t \in Moving(Started) : t \in covered \/ AccOf(t) = AccOf(w)
  BY DEF Coming, Awaited
<1>4. /\ Startable(ts) /\ Started' = Started \cup ToSet(ts)
      /\ \A t \in ToSet(ts) : \A u \in Started : u.comp = t.comp /\ ~IsDma(u.comp) => u.idle \/ u \in cov
      /\ ~Partial(ts)
  BY <1>0, StartPlaced DEF Starts
<1>5. \A t, v : t \in ToSet(ts) /\ v \in ToSet(ts) /\ IsAccel(v) /\ t.comp \in Movers(v.comp[1]) => With(t, v)'
  BY WithStart DEF Starts
<1>6. covered \subseteq cov /\ Starts(ts)
  BY DEF CoveredBy, ts
<1>7. \A j \in 1 .. Len(s) : j # 1 => DmaOnly(s[j])
  BY DEF Coming
<1>8. /\ Len(r) \in Nat /\ Len(s) = Len(r) + 1
      /\ \A i \in 1 .. Len(r) : r[i] = s[i + 1]
  BY TailIs
<1> HIDE DEF ts, w, r
<1>9. ASSUME NEW t \in Moving(Started \cup ToSet(ts)), NEW y \in ToSet(ts), IsMover(y.comp), AccOf(y) # AccOf(t)
      PROVE  t \in Started /\ t \in covered
  <2>1. AccOf(y) = AccOf(w)
    BY <1>1, <1>9
  <2>2. t \notin ToSet(ts)
    BY <1>1, <1>9, <2>1 DEF Moving
  <2>3. t \in Moving(Started)
    BY <1>9, <2>2 DEF Moving
  <2>4. QED BY <1>3, <1>9, <2>1, <2>3 DEF Moving
<1>10. SeriesInv'
  BY <1>6, <1>9, StartSeries
<1>11. \A i \in 1 .. Len(r) : DmaOnly(r[i])
  BY <1>7, <1>8
<1>12. ASSUME NEW t \in Moving(Started \cup ToSet(ts)) PROVE t \in cov \/ With(t, w)'
  <2>1. IsMover(t.comp) /\ ~t.idle
    BY <1>12 DEF Moving
  <2>2. CASE t \in ToSet(ts)
    BY <1>1, <1>5, <2>1, <2>2
  <2>3. CASE t \notin ToSet(ts)
    <3>1. t \in Started /\ t \in Moving(Started)
      BY <2>3 DEF Moving
    <3>2. CASE AccOf(t) = AccOf(w)
      <4>1. t.comp \in Components /\ ~IsDma(t.comp)
        BY <1>0, <2>1, <3>1, DmaIs DEF ListOK, IsDma
      <4>2. t.comp[1] \in DUnits /\ t.comp \in Movers(t.comp[1])
        BY <1>0, <2>1, <4>1, ComponentIs, UnitIs
      <4>3. t.comp \in MoversOf(design.acc[t.comp[1]])
        BY <1>0, <4>2, InMoversOf
      <4>4. design.acc[t.comp[1]] = design.acc[x.comp[1]]
        BY <1>1, <1>2, <3>2 DEF AccOf
      <4>5. MoversOf(design.acc[x.comp[1]]) \subseteq {z.comp : z \in {y \in ToSet(ts) : IsMover(y.comp)}}
        BY <1>2, <1>4 DEF Partial
      <4>6. \E z \in ToSet(ts) : z.comp = t.comp
        BY <4>3, <4>4, <4>5
      <4>7. QED BY <1>4, <2>1, <3>1, <4>1, <4>6
    <3>3. QED BY <1>3, <1>6, <3>1, <3>2
  <2>4. QED BY <2>2, <2>3
<1>13. Rested(r, p, cov)'
  <2>1. ASSUME NEW i \in 1 .. Len(r) PROVE DmaOnly(r[i])'
    BY <1>11, <2>1 DEF DmaOnly, IsDma, DMA
  <2>2. ASSUME NEW t \in Moving(Started)' PROVE t \in cov \/ With(t, p[1])'
    BY <1>4, <1>12, <2>2 DEF w, Moving, IsMover
  <2>3. QED BY <2>1, <2>2 DEF Rested
<1>14. QED BY <1>10, <1>13 DEF InTurn, ts, r

(* The lowering keeps the accelerators in turn.                            *)
LEMMA LowerTurn ==
  ASSUME LowerInv, SeriesInv, Lower, InTurn(steps, prev, covered), prev' = prev
  PROVE  SeriesInv' /\ (refused' \/ InTurn(steps, prev, covered)')
<1> DEFINE x == Head(steps)
<1>1. IsSeq(steps) /\ steps # <<>> /\ \A i \in 1 .. Len(steps) : StepOK(steps[i])
  BY DEF LowerInv, StepsAre, Lower
<1>2. x = steps[1] /\ StepOK(x)
  BY <1>1, TailIs
<1>3. steps' = Tail(steps)
  BY DEF Lower
<1> HIDE DEF x
<1>4. ListOK /\ ProgramIs(lines, covered, waited) /\ LatestAre(covered) /\ StartsAre
  BY DEF LowerInv, ProgramIs, SeriesInv
<1>5. CASE Refuse
  <2>1. UNCHANGED <<design, starts>> /\ lines' = lines /\ refused'
    BY <1>5 DEF Refuse, listVars
  <2>2. Started' = Started
    BY <2>1, SameOrder
  <2>3. SeriesOn(lines', Started')
    BY <2>1, <2>2 DEF SeriesInv
  <2>4. SeriesOn(lines, Started)'
    BY <2>1, <2>3, SameSeries
  <2>5. StartsAre'
    BY <1>4, <2>1 DEF StartsAre, IsSeq, ToSet
  <2>6. QED BY <2>1, <2>4, <2>5 DEF SeriesInv
<1>6. CASE x.op = "configure" /\ Configure(x.task, x.after) /\ ~Refuse
  <2> DEFINE t == x.task
             after == x.after
  <2>1. /\ LegalConfigure(t, after)
        /\ lines' = Emit(lines, CoreOf(t.comp), ConfigCode(t))
        /\ UNCHANGED <<design, starts>> /\ covered' = covered
    BY <1>6 DEF Configure
  <2> HIDE DEF t, after
  <2>2. SeriesInv'
    BY <2>1, ConfigureTurn
  <2>3. x.op # "start" /\ x.op # "sync"
    BY <1>6
  <2>4. InTurn(Tail(steps), prev, covered)
    BY <1>1, <1>2, <2>3, TailTurn DEF DmaOnly
  <2>5. InTurn(steps', prev', covered')
    BY <1>3, <2>1, <2>4
  <2>6. InTurn(steps, prev, covered)'
    BY <2>1, <2>5, SameTurn
  <2>7. QED BY <2>2, <2>6
<1>7. CASE x.op = "start" /\ Start(x.tasks) /\ ~Refuse
  <2> DEFINE ts == x.tasks
             cov == CoveredBy(ts)
  <2>1. /\ LegalStart(ts) /\ ~Partial(ts)
        /\ starts' = Append(starts, ts)
        /\ covered' = CoveredBy(ts) /\ waited' = Waits(ts).waited
        /\ lines' = StartAll(Waits(ts).lines, ts)
        /\ UNCHANGED <<design, conf>>
    BY <1>7 DEF Start, CoveredBy, Waits
  <2>2. IsSeq(ts)
    BY <1>2, <1>7 DEF StepOK
  <2>3. Starts(ts)
    BY <2>1, <2>2 DEF Starts
  <2>4. covered' = cov /\ covered \subseteq cov
    BY <2>1 DEF CoveredBy
  <2> HIDE DEF ts, cov
  <2>5. CASE \A y \in ToSet(ts) : IsDma(y.comp)
    <3>1. \A y \in ToSet(ts) : ~IsMover(y.comp)
      BY <2>5, DmaIs DEF IsDma
    <3>2. SeriesInv'
      BY <2>3, <3>1, StartSeries
    <3>3. x.op # "sync" /\ DmaOnly(x)
      BY <1>7, <2>5 DEF DmaOnly, ts
    <3>4. InTurn(Tail(steps), prev, covered)
      BY <1>1, <1>2, <3>3, TailTurn
    <3>5. InTurn(Tail(steps), prev, cov)
      BY <2>4, <3>4, TurnKept
    <3>6. \A s, p, c : InTurn(s, p, c) => InTurn(s, p, c)'
      BY <2>3, <2>5, DmaTurn
    <3>7. InTurn(steps', prev', covered')
      BY <1>3, <2>4, <3>5
    <3>8. InTurn(steps, prev, covered)'
      BY <3>6, <3>7
    <3>9. QED BY <3>2, <3>8
  <2>6. CASE ~ \A y \in ToSet(ts) : IsDma(y.comp)
    <3>1. ~DmaOnly(steps[1]) /\ 1 \in 1 .. Len(steps)
      <4>1. Len(steps) \in Nat /\ Len(steps) # 0
        BY <1>1, SeqFacts, EmptySeq DEF IsSeq
      <4>2. ~DmaOnly(steps[1])
        BY <1>2, <1>7, <2>6 DEF DmaOnly, ts
      <4>3. QED BY <4>1, <4>2
    <3>2. prev # <<>> /\ Coming(steps, prev, 1, covered)
      <4>1. ~Rested(steps, prev, covered)
        BY <3>1 DEF Rested
      <4>2. PICK i \in 1 .. Len(steps) : prev # <<>> /\ Coming(steps, prev, i, covered)
        BY <4>1 DEF InTurn
      <4>3. i = 1
        BY <3>1, <4>2 DEF Coming
      <4>4. QED BY <4>2, <4>3
    <3>3. steps[1].tasks = ts
      BY <1>2 DEF ts
    <3>4. \A s, p, c : /\ IsSeq(s) /\ s # <<>> /\ p # <<>> /\ Coming(s, p, 1, covered)
                       /\ Starts(s[1].tasks) /\ c = CoveredBy(s[1].tasks)
                       => SeriesInv' /\ InTurn(Tail(s), p, c)'
      BY GroupTurn
    <3>5. SeriesInv' /\ \A t, c : t = Tail(steps) /\ c = cov => \A p : p = prev => InTurn(t, p, c)'
      BY <1>1, <2>3, <3>2, <3>3, <3>4 DEF cov
    <3>6. steps' = Tail(steps) /\ prev' = prev /\ covered' = cov
      BY <1>3, <2>4
    <3>7. InTurn(steps, prev, covered)'
      BY <3>5, <3>6
    <3>8. QED BY <3>5, <3>7
  <2>7. QED BY <2>5, <2>6
<1>8. CASE x.op = "sync" /\ Sync(x.task) /\ ~Refuse
  <2> DEFINE w == x.task
             cov == covered \cup On(Covers(w.comp))
  <2>1. /\ LegalSync(w)
        /\ covered' = cov
        /\ lines' = WaitAll(<<w.comp>>, Cores).lines
        /\ UNCHANGED listVars
    BY <1>8 DEF Sync
  <2>2. covered \subseteq cov
    OBVIOUS
  <2>3. ASSUME NEW t \in Moving(Started), With(t, w) PROVE t \in cov
    <3>1. t \in covered \/ t.comp \in Covers(w.comp)
      BY <1>4, <2>3, CoveredTogether
    <3>2. t \in Started
      BY DEF Moving
    <3>3. QED BY <3>1, <3>2 DEF On
  <2> HIDE DEF cov
  <2>4. InTurn(steps, prev, cov)
    BY <2>2, TurnKept
  <2>5. DmaOnly(steps[1]) /\ \A t \in Moving(Started) : With(t, steps[1].task) => t \in cov
    BY <1>2, <1>8, <2>3 DEF DmaOnly
  <2>6. InTurn(Tail(steps), prev, cov)
    BY <1>1, <2>4, <2>5, TailTurn
  <2>7. InTurn(steps', prev', covered')
    BY <1>3, <2>1, <2>6
  <2>8. UNCHANGED <<design, starts>>
    BY <2>1 DEF listVars
  <2>9. InTurn(steps, prev, covered)'
    BY <2>7, <2>8, SameTurn
  <2> HIDE DEF w
  <2>10. SeriesInv'
    BY <2>1, SyncTurn
  <2>11. QED BY <2>9, <2>10
<1>9. QED BY <1>5, <1>6, <1>7, <1>8 DEF Lower, x

-----------------------------------------------------------------------------
(* What the walk of a graph writes.                                        *)

(* Steps that start no group.                                              *)
Calm(s) == IsSeq(s) /\ \A i \in 1 .. Len(s) : StepOK(s[i]) /\ DmaOnly(s[i])

(* Two pieces make one ...                                                 *)
LEMMA CalmConcat ==
  ASSUME NEW s, NEW t, Calm(s), Calm(t) PROVE Calm(s \o t)
<1> DEFINE n == Len(s)
           m == Len(t)
           r == s \o t
<1>1. /\ IsSeq(r) /\ Len(r) = n + m /\ n \in Nat /\ m \in Nat
      /\ \A i \in 1 .. n : r[i] = s[i]
      /\ \A i \in 1 .. m : r[n + i] = t[i]
  BY Concat, SeqFacts DEF Calm
<1>2. (\A i \in 1 .. n : StepOK(s[i]) /\ DmaOnly(s[i])) /\ \A i \in 1 .. m : StepOK(t[i]) /\ DmaOnly(t[i])
  BY DEF Calm
<1> HIDE DEF n, m, r
<1>3. ASSUME NEW i \in 1 .. n + m PROVE StepOK(r[i]) /\ DmaOnly(r[i])
  <2>1. CASE i \in 1 .. n
    BY <1>1, <1>2, <2>1
  <2>2. CASE i \notin 1 .. n
    <3>1. i - n \in 1 .. m /\ n + (i - n) = i
      BY <1>1, <2>2
    <3>2. r[i] = t[i - n]
      BY <1>1, <3>1
    <3>3. QED BY <1>2, <3>1, <3>2
  <2>3. QED BY <2>1, <2>2
<1>4. QED BY <1>1, <1>3 DEF Calm, r

(* ... so do many ...                                                      *)
LEMMA CalmFlatten ==
  ASSUME NEW s, IsSeq(s), \A i \in 1 .. Len(s) : Calm(s[i]) PROVE Calm(FlattenSeq(s))
<1>1. /\ IsSeq(FlattenSeq(s))
      /\ \A p \in 1 .. Len(FlattenSeq(s)) :
           \E i \in 1 .. Len(s) : \E o \in 1 .. Len(s[i]) : FlattenSeq(s)[p] = s[i][o]
  BY FlattenIs DEF Calm
<1>2. QED BY <1>1 DEF Calm

(* ... and single steps.                                                   *)
LEMMA CalmMap ==
  ASSUME NEW n \in Nat, NEW f, f = [i \in 1 .. n |-> f[i]], \A i \in 1 .. n : StepOK(f[i]) /\ DmaOnly(f[i])
  PROVE  Calm(f)
  BY OfLength DEF Calm

(* The steps a list writes, and what they start.                           *)
LEMMA StepStarts ==
  /\ \A t, after : DmaOnly(CfgStep(t, after)) /\ CfgStep(t, after).op = "configure"
  /\ \A t, after : CfgStep(t, after).task = t /\ CfgStep(t, after).after = after
  /\ \A t : DmaOnly(SyncStep(t)) /\ SyncStep(t).op = "sync" /\ SyncStep(t).task = t
  /\ \A ts : GoStep(ts).op = "start" /\ GoStep(ts).tasks = ts
<1>1. \A t, after : LET s == CfgStep(t, after) IN s.op = "configure" /\ s.task = t /\ s.after = after
  BY DEF CfgStep
<1>2. \A t : SyncStep(t).op = "sync" /\ SyncStep(t).task = t
  BY DEF SyncStep
<1>3. \A ts : GoStep(ts).op = "start" /\ GoStep(ts).tasks = ts
  BY DEF GoStep
<1>4. QED BY <1>1, <1>2, <1>3 DEF DmaOnly

(* A transfer's steps start no group.                                      *)
LEMMA CalmDma ==
  ASSUME NEW t, IsDma(t.comp), ~t.idle, NEW after PROVE Calm(DmaSteps(t, after))
<1> DEFINE d == CfgStep(t, after)
           e == GoStep(<<t>>)
<1>1. StepOK(d) /\ DmaOnly(d)
  BY StepIsOK, StepStarts
<1>2. IsSeq(<<t>>) /\ \A x \in ToSet(<<t>>) : x = t
  BY Single, SeqFacts
<1>3. StepOK(e)
  BY <1>2, StepIsOK
<1>4. DmaOnly(e)
  BY <1>2, StepStarts DEF DmaOnly
<1> HIDE DEF d, e
<1>5. IsSeq(<<d, e>>) /\ Len(<<d, e>>) = 2 /\ <<d, e>>[1] = d /\ <<d, e>>[2] = e
  BY Pair
<1>6. \A i \in 1 .. Len(<<d, e>>) : i = 1 \/ i = 2
  BY <1>5
<1>7. Calm(<<d, e>>)
  BY <1>1, <1>3, <1>4, <1>5, <1>6 DEF Calm
<1>8. QED BY <1>7 DEF DmaSteps, d, e

(* The members at some places.                                             *)
LEMMA OnlyIs ==
  ASSUME NEW s, IsSeq(s), NEW I
  PROVE  /\ IsSeq(Only(s, I))
         /\ \A p \in 1 .. Len(Only(s, I)) : \E i \in 1 .. Len(s) : i \in I /\ Only(s, I)[p] = s[i]
         /\ \A i \in 1 .. Len(s) : i \in I => \E p \in 1 .. Len(Only(s, I)) : Only(s, I)[p] = s[i]
<1> DEFINE z == [i \in DOMAIN s |-> IF i \in I THEN <<s[i]>> ELSE <<>>]
<1>1. Len(s) \in Nat /\ DOMAIN s = 1 .. Len(s)
  BY SeqFacts
<1>2. z = [i \in 1 .. Len(s) |-> z[i]]
  BY <1>1
<1>3. \A i \in 1 .. Len(s) : (i \in I => z[i] = <<s[i]>>) /\ (i \notin I => z[i] = <<>>)
  BY <1>1
<1> HIDE DEF z
<1>4. IsSeq(z) /\ Len(z) = Len(s)
  BY <1>1, <1>2, OfLength
<1>5. \A i \in 1 .. Len(s) :
        /\ IsSeq(z[i])
        /\ \A o \in 1 .. Len(z[i]) : i \in I /\ z[i][o] = s[i]
        /\ i \in I => 1 \in 1 .. Len(z[i]) /\ z[i][1] = s[i]
  <2> TAKE i \in 1 .. Len(s)
  <2>1. CASE i \in I
    <3> DEFINE e == s[i]
    <3>1. z[i] = <<e>>
      BY <1>3, <2>1
    <3> HIDE DEF e
    <3>2. IsSeq(<<e>>) /\ Len(<<e>>) = 1 /\ <<e>>[1] = e
      BY Single
    <3>3. \A o \in 1 .. Len(z[i]) : o = 1
      BY <3>1, <3>2
    <3>4. QED BY <2>1, <3>1, <3>2, <3>3 DEF e
  <2>2. CASE i \notin I
    BY <1>3, <2>2, EmptyIs
  <2>3. QED BY <2>1, <2>2
<1>6. /\ IsSeq(FlattenSeq(z))
      /\ \A p \in 1 .. Len(FlattenSeq(z)) :
           \E i \in 1 .. Len(z) : \E o \in 1 .. Len(z[i]) : FlattenSeq(z)[p] = z[i][o]
      /\ \A i \in 1 .. Len(z) : \A o \in 1 .. Len(z[i]) :
           \E p \in 1 .. Len(FlattenSeq(z)) : FlattenSeq(z)[p] = z[i][o]
  BY <1>4, <1>5, FlattenIs
<1>7. Only(s, I) = FlattenSeq(z)
  BY DEF Only, z
<1>8. ASSUME NEW p \in 1 .. Len(FlattenSeq(z)) PROVE \E i \in 1 .. Len(s) : i \in I /\ FlattenSeq(z)[p] = s[i]
  <2>1. PICK i \in 1 .. Len(z) : \E o \in 1 .. Len(z[i]) : FlattenSeq(z)[p] = z[i][o]
    BY <1>6
  <2>2. QED BY <1>4, <1>5, <2>1
<1>9. ASSUME NEW i \in 1 .. Len(s), i \in I PROVE \E p \in 1 .. Len(FlattenSeq(z)) : FlattenSeq(z)[p] = s[i]
  <2>1. 1 \in 1 .. Len(z[i]) /\ z[i][1] = s[i] /\ i \in 1 .. Len(z)
    BY <1>4, <1>5, <1>9
  <2>2. PICK p \in 1 .. Len(FlattenSeq(z)) : FlattenSeq(z)[p] = z[i][1]
    BY <1>6, <2>1
  <2>3. QED BY <2>1, <2>2
<1>10. QED BY <1>6, <1>7, <1>8, <1>9

(* The graph being derived.                                                *)
GraphOK == graph \in Graphs /\ design = graph.design

(* Its design point keeps the rules, its nodes are of units of it.         *)
LEMMA GraphIs ==
  ASSUME GraphOK
  PROVE  /\ DesignOK /\ IsSeq(design.order) /\ IsSeq(Nodes) /\ IsSeq(graph.containers)
         /\ \A n \in 1 .. Len(Nodes) :
              UnitOf(n) \in DUnits /\ IsSeq(Nodes[n].ins) /\ IsSeq(Nodes[n].outs)
<1>1. Graph(graph)
  BY GraphsAssumption DEF GraphOK
<1>2. DesignOK
  BY <1>1 DEF Graph, GraphOK, DesignOK
<1>3. IsSeq(design.order)
  BY <1>2, SeqIs DEF DesignOK, Design
<1>4. IsSeq(Nodes) /\ IsSeq(graph.containers)
  BY <1>1 DEF Graph, IsSeq, Nodes
<1>5. DOMAIN graph.nodes = 1 .. Len(Nodes)
  BY <1>4, SeqFacts DEF Nodes
<1>6. ASSUME NEW n \in 1 .. Len(Nodes)
      PROVE  UnitOf(n) \in DUnits /\ IsSeq(Nodes[n].ins) /\ IsSeq(Nodes[n].outs)
  <2>1. /\ graph.nodes[n].unit \in ToSet(graph.design.order)
        /\ graph.nodes[n].ins \in Seq(ToSet(graph.containers))
        /\ graph.nodes[n].outs \in Seq(ToSet(graph.containers))
    BY <1>1, <1>5 DEF Graph
  <2>2. IsSeq(graph.nodes[n].ins) /\ IsSeq(graph.nodes[n].outs)
    BY <2>1, SeqIs
  <2>3. QED BY <2>1, <2>2 DEF UnitOf, Nodes, DUnits, GraphOK
<1>7. QED BY <1>2, <1>3, <1>4, <1>6

(* A node's group, and the ports on no link.                               *)
LEMMA MembersAre ==
  ASSUME GraphOK, NEW n \in 1 .. Len(Nodes)
  PROVE  IsSeq(Members(n)) /\ \A i \in 1 .. Len(Members(n)) : Members(n)[i] \in 1 .. Len(Nodes)
<1>1. IsSeq(Nodes) /\ Len(Nodes) \in Nat /\ DOMAIN Nodes = 1 .. Len(Nodes)
  BY GraphIs, SeqFacts
<1>2. CASE UnitOf(n) \notin graph.linked
  <2>1. Members(n) = <<n>>
    BY <1>2 DEF Members
  <2>2. IsSeq(<<n>>) /\ Len(<<n>>) = 1 /\ <<n>>[1] = n
    BY Single
  <2>3. QED BY <2>1, <2>2
<1>3. CASE UnitOf(n) \in graph.linked
  <2> DEFINE z == [m \in DOMAIN Nodes |-> m]
             I == {m \in DOMAIN Nodes : UnitOf(m) = UnitOf(n)}
  <2>1. Members(n) = Only(z, I)
    BY <1>3 DEF Members
  <2>2. z = [m \in 1 .. Len(Nodes) |-> z[m]] /\ \A m \in 1 .. Len(Nodes) : z[m] = m
    BY <1>1
  <2> HIDE DEF z, I
  <2>3. IsSeq(z) /\ Len(z) = Len(Nodes)
    BY <1>1, <2>2, OfLength
  <2>4. IsSeq(Only(z, I)) /\ \A p \in 1 .. Len(Only(z, I)) : \E i \in 1 .. Len(z) : i \in I /\ Only(z, I)[p] = z[i]
    BY <2>3, OnlyIs
  <2>5. QED BY <2>1, <2>2, <2>3, <2>4
<1>4. QED BY <1>2, <1>3

(* The input ports of a group are a sequence ...                           *)
LEMMA InPortsAre ==
  ASSUME GraphOK, NEW n \in 1 .. Len(Nodes)
  PROVE  IsSeq(InPorts(n))
<1> DEFINE M == Members(n)
           port(i) == [j \in DOMAIN Nodes[M[i]].ins |-> [node |-> M[i], data |-> Nodes[M[i]].ins[j]]]
           z == [i \in DOMAIN M |-> port(i)]
<1>1. IsSeq(M) /\ \A i \in 1 .. Len(M) : M[i] \in 1 .. Len(Nodes)
  BY MembersAre
<1>2. InPorts(n) = FlattenSeq(z)
  BY DEF InPorts
<1> HIDE DEF M
<1>3. DOMAIN M = 1 .. Len(M) /\ Len(M) \in Nat
  BY <1>1, SeqFacts
<1>4. ASSUME NEW i \in 1 .. Len(M) PROVE IsSeq(port(i))
  <2> DEFINE s == Nodes[M[i]].ins
             f == [j \in DOMAIN s |-> [node |-> M[i], data |-> s[j]]]
  <2>1. IsSeq(s)
    BY <1>1, GraphIs
  <2>2. f = port(i)
    OBVIOUS
  <2> HIDE DEF s, port
  <2>3. DOMAIN s = 1 .. Len(s) /\ Len(s) \in Nat
    BY <2>1, SeqFacts
  <2>4. f = [j \in 1 .. Len(s) |-> f[j]]
    BY <2>3
  <2> HIDE DEF f
  <2>5. IsSeq(f)
    BY <2>3, <2>4, OfLength
  <2>6. QED BY <2>2, <2>5
<1> HIDE DEF port
<1>5. z = [i \in 1 .. Len(M) |-> z[i]] /\ \A i \in 1 .. Len(M) : z[i] = port(i)
  BY <1>3
<1> HIDE DEF z
<1>6. IsSeq(z) /\ Len(z) = Len(M)
  BY <1>3, <1>5, OfLength
<1>7. QED BY <1>2, <1>4, <1>5, <1>6, FlattenIs

(* ... and the output ports ...                                            *)
LEMMA OutPortsAre ==
  ASSUME GraphOK, NEW n \in 1 .. Len(Nodes)
  PROVE  IsSeq(OutPorts(n))
<1> DEFINE M == Members(n)
           port(i) == [j \in DOMAIN Nodes[M[i]].outs |-> [node |-> M[i], data |-> Nodes[M[i]].outs[j]]]
           z == [i \in DOMAIN M |-> port(i)]
<1>1. IsSeq(M) /\ \A i \in 1 .. Len(M) : M[i] \in 1 .. Len(Nodes)
  BY MembersAre
<1>2. OutPorts(n) = FlattenSeq(z)
  BY DEF OutPorts
<1> HIDE DEF M
<1>3. DOMAIN M = 1 .. Len(M) /\ Len(M) \in Nat
  BY <1>1, SeqFacts
<1>4. ASSUME NEW i \in 1 .. Len(M) PROVE IsSeq(port(i))
  <2> DEFINE s == Nodes[M[i]].outs
             f == [j \in DOMAIN s |-> [node |-> M[i], data |-> s[j]]]
  <2>1. IsSeq(s)
    BY <1>1, GraphIs
  <2>2. f = port(i)
    OBVIOUS
  <2> HIDE DEF s, port
  <2>3. DOMAIN s = 1 .. Len(s) /\ Len(s) \in Nat
    BY <2>1, SeqFacts
  <2>4. f = [j \in 1 .. Len(s) |-> f[j]]
    BY <2>3
  <2> HIDE DEF f
  <2>5. IsSeq(f)
    BY <2>3, <2>4, OfLength
  <2>6. QED BY <2>2, <2>5
<1> HIDE DEF port
<1>5. z = [i \in 1 .. Len(M) |-> z[i]] /\ \A i \in 1 .. Len(M) : z[i] = port(i)
  BY <1>3
<1> HIDE DEF z
<1>6. IsSeq(z) /\ Len(z) = Len(M)
  BY <1>3, <1>5, OfLength
<1>7. QED BY <1>2, <1>4, <1>5, <1>6, FlattenIs

(* ... the containers to load ...                                          *)
LEMMA LoadsAre ==
  ASSUME GraphOK, NEW n \in 1 .. Len(Nodes)
  PROVE  IsSeq(Loads(n))
<1> DEFINE s == InPorts(n)
           f == [i \in DOMAIN s |-> s[i].data]
<1>1. IsSeq(s)
  BY InPortsAre
<1>2. \E I : Loads(n) = Only(f, I)
  BY DEF Loads
<1> HIDE DEF s
<1>3. DOMAIN s = 1 .. Len(s) /\ Len(s) \in Nat
  BY <1>1, SeqFacts
<1>4. f = [i \in 1 .. Len(s) |-> f[i]]
  BY <1>3
<1> HIDE DEF f
<1>5. IsSeq(f)
  BY <1>3, <1>4, OfLength
<1>6. QED BY <1>2, <1>5, OnlyIs

(* ... and those to store.                                                 *)
LEMMA StoresAre ==
  ASSUME GraphOK, NEW n \in 1 .. Len(Nodes)
  PROVE  IsSeq(Stores(n))
  BY OutPortsAre, OnlyIs DEF Stores

(* The movers a group starts: those of its accelerator, busy in its unit   *)
(* alone.                                                                  *)
MoverOf(n, x) ==
  /\ IsMover(x.comp) /\ x.comp[1] \in DUnits /\ x.comp \in Movers(x.comp[1])
  /\ AccOf(x) = design.acc[UnitOf(n)] /\ (x.comp[1] = UnitOf(n) \/ x.idle)

(* The movers' tasks of a group: of its accelerator all, and at least one. *)
LEMMA SetTasksAre ==
  ASSUME GraphOK, NEW n \in 1 .. Len(Nodes)
  PROVE  /\ IsSeq(SetTasks(n))
         /\ \A p \in 1 .. Len(SetTasks(n)) : MoverOf(n, SetTasks(n)[p])
         /\ Len(SetTasks(n)) # 0
<1> DEFINE movers(u) == [i \in 1 .. design.ins[u] |-> <<u, "in", i>>]
                        \o [i \in 1 .. design.outs[u] |-> <<u, "out", i>>]
           v == UnitOf(n)
           I == {i \in DOMAIN design.order : design.acc[design.order[i]] = design.acc[v]}
           units == Only(design.order, I)
           z == [i \in DOMAIN units |-> movers(units[i])]
           all == FlattenSeq(z)
           f == [i \in DOMAIN all |-> IF all[i][1] = v THEN Task(<<"node", n>>, all[i], FALSE) ELSE Idle(n, all[i])]
<1>1. DesignOK /\ IsSeq(design.order) /\ v \in DUnits
  BY GraphIs
<1>2. SetTasks(n) = f
  BY DEF SetTasks
<1>3. ASSUME NEW u \in DUnits
      PROVE  /\ IsSeq(movers(u)) /\ \A o \in 1 .. Len(movers(u)) : movers(u)[o] \in Movers(u)
             /\ 1 \in 1 .. Len(movers(u))
  <2> DEFINE a == [i \in 1 .. design.ins[u] |-> <<u, "in", i>>]
             b == [i \in 1 .. design.outs[u] |-> <<u, "out", i>>]
             k == design.ins[u]
             m == design.outs[u]
  <2>1. k \in Nat /\ m \in Nat /\ m # 0
    BY <1>1 DEF DesignOK, Design, DUnits
  <2>2. a = [i \in 1 .. k |-> a[i]] /\ b = [i \in 1 .. m |-> b[i]]
    OBVIOUS
  <2>3. (\A i \in 1 .. k : a[i] \in Movers(u)) /\ (\A i \in 1 .. m : b[i] \in Movers(u))
    BY DEF Movers, Readers, Writers
  <2>4. movers(u) = a \o b
    OBVIOUS
  <2> HIDE DEF a, b, movers, k, m
  <2>5. IsSeq(a) /\ Len(a) = k /\ IsSeq(b) /\ Len(b) = m
    BY <2>1, <2>2, OfLength
  <2> DEFINE r == a \o b
  <2>6. /\ IsSeq(r) /\ Len(r) = k + m
        /\ \A i \in 1 .. k : r[i] = a[i]
        /\ \A i \in 1 .. m : r[k + i] = b[i]
    BY <2>5, Concat
  <2> HIDE DEF r
  <2>7. ASSUME NEW o \in 1 .. k + m PROVE r[o] \in Movers(u)
    <3>1. CASE o \in 1 .. k
      BY <2>3, <2>6, <3>1
    <3>2. CASE o \notin 1 .. k
      <4>1. o - k \in 1 .. m /\ k + (o - k) = o
        BY <2>1, <3>2
      <4>2. r[o] = b[o - k]
        BY <2>6, <4>1
      <4>3. QED BY <2>3, <4>1, <4>2
    <3>3. QED BY <3>1, <3>2
  <2>8. 1 \in 1 .. k + m
    BY <2>1
  <2>9. movers(u) = r
    BY <2>4 DEF r
  <2>10. QED BY <2>6, <2>7, <2>8, <2>9
<1> HIDE DEF movers
<1>4. /\ IsSeq(units)
      /\ \A p \in 1 .. Len(units) : units[p] \in DUnits /\ design.acc[units[p]] = design.acc[v]
      /\ \E p \in 1 .. Len(units) : units[p] = v
  <2>1. /\ DOMAIN design.order = 1 .. Len(design.order)
        /\ \A i \in 1 .. Len(design.order) : design.order[i] \in DUnits
        /\ \E i \in 1 .. Len(design.order) : design.order[i] = v
    BY <1>1, SeqFacts DEF DUnits
  <2>2. \A i \in 1 .. Len(design.order) : i \in I <=> design.acc[design.order[i]] = design.acc[v]
    BY <2>1
  <2> DEFINE s == design.order
  <2> HIDE DEF I, v, s
  <2>3. /\ IsSeq(Only(s, I))
        /\ \A p \in 1 .. Len(Only(s, I)) : \E i \in 1 .. Len(s) : i \in I /\ Only(s, I)[p] = s[i]
        /\ \A i \in 1 .. Len(s) : i \in I => \E p \in 1 .. Len(Only(s, I)) : Only(s, I)[p] = s[i]
    <3>1. IsSeq(s)
      BY <1>1 DEF s
    <3>2. QED BY <3>1, OnlyIs
  <2>4a. units = Only(s, I)
    BY DEF s
  <2> HIDE DEF units
  <2>3a. /\ IsSeq(units)
         /\ \A p \in 1 .. Len(units) : \E i \in 1 .. Len(design.order) : i \in I /\ units[p] = design.order[i]
         /\ \A i \in 1 .. Len(design.order) : i \in I => \E p \in 1 .. Len(units) : units[p] = design.order[i]
    BY <2>3, <2>4a DEF s
  <2>4. ASSUME NEW p \in 1 .. Len(units) PROVE units[p] \in DUnits /\ design.acc[units[p]] = design.acc[v]
    <3>1. PICK i \in 1 .. Len(design.order) : i \in I /\ units[p] = design.order[i]
      BY <2>3a
    <3>2. QED BY <2>1, <2>2, <3>1
  <2>5. PICK i \in 1 .. Len(design.order) : design.order[i] = v
    BY <2>1
  <2>6. \E p \in 1 .. Len(units) : units[p] = v
    BY <2>2, <2>3a, <2>5
  <2>7. QED BY <2>3a, <2>4, <2>6
<1> HIDE DEF units, v
<1>5. DOMAIN units = 1 .. Len(units) /\ Len(units) \in Nat
  BY <1>4, SeqFacts
<1>6. z = [i \in 1 .. Len(units) |-> z[i]] /\ \A i \in 1 .. Len(units) : z[i] = movers(units[i])
  BY <1>5
<1> HIDE DEF z
<1>7. IsSeq(z) /\ Len(z) = Len(units)
  BY <1>5, <1>6, OfLength
<1>8. \A i \in 1 .. Len(z) :
        /\ IsSeq(z[i]) /\ 1 \in 1 .. Len(z[i])
        /\ \A o \in 1 .. Len(z[i]) : z[i][o] \in Movers(units[i])
  BY <1>3, <1>4, <1>6, <1>7
<1>9. /\ IsSeq(all)
      /\ \A p \in 1 .. Len(all) : \E i \in 1 .. Len(z) : \E o \in 1 .. Len(z[i]) : all[p] = z[i][o]
      /\ \A i \in 1 .. Len(z) : \A o \in 1 .. Len(z[i]) : \E p \in 1 .. Len(all) : all[p] = z[i][o]
  BY <1>7, <1>8, FlattenIs
<1> HIDE DEF all
<1>10. DOMAIN all = 1 .. Len(all) /\ Len(all) \in Nat
  BY <1>9, SeqFacts
<1>11. Len(all) # 0
  <2>1. PICK i \in 1 .. Len(units) : units[i] = v
    BY <1>4
  <2>2. \E p \in 1 .. Len(all) : all[p] = z[i][1]
    BY <1>7, <1>8, <1>9, <2>1
  <2>3. QED BY <2>2
<1>12. ASSUME NEW p \in 1 .. Len(all)
       PROVE  \E u \in DUnits : all[p] \in Movers(u) /\ design.acc[u] = design.acc[v]
  <2>1. PICK i \in 1 .. Len(z) : \E o \in 1 .. Len(z[i]) : all[p] = z[i][o]
    BY <1>9
  <2>2. QED BY <1>4, <1>7, <1>8, <2>1
<1>13. f = [i \in 1 .. Len(all) |-> f[i]]
       /\ \A i \in 1 .. Len(all) : f[i] = IF all[i][1] = v THEN Task(<<"node", n>>, all[i], FALSE) ELSE Idle(n, all[i])
  BY <1>10
<1> HIDE DEF f
<1>14. IsSeq(f) /\ Len(f) = Len(all)
  BY <1>10, <1>13, OfLength
<1>15. ASSUME NEW p \in 1 .. Len(all) PROVE MoverOf(n, f[p])
  <2>1. PICK u \in DUnits : all[p] \in Movers(u) /\ design.acc[u] = design.acc[v]
    BY <1>12
  <2>2. all[p][1] = u /\ IsMover(all[p])
    BY <1>1, <2>1, MoverIs
  <2>3. f[p].comp = all[p] /\ (all[p][1] = v \/ f[p].idle)
    <3> DEFINE e == all[p]
    <3>1. (e[1] = v => f[p] = Task(<<"node", n>>, e, FALSE)) /\ (e[1] # v => f[p] = Task(<<"node", n>>, e, TRUE))
      BY <1>13 DEF Idle
    <3>2. \A d, i : Task(<<"node", n>>, d, i).comp = d /\ (Task(<<"node", n>>, d, i).idle <=> i)
      BY DEF Task
    <3> HIDE DEF e
    <3>3. \/ e[1] = v /\ f[p].comp = e
          \/ f[p].comp = e /\ f[p].idle
      BY <3>1, <3>2
    <3>4. f[p].comp = e /\ (e[1] = v \/ f[p].idle)
      BY <3>3
    <3>5. QED BY <3>4 DEF e
  <2>4. QED BY <2>1, <2>2, <2>3 DEF MoverOf, AccOf, v
<1>16. QED BY <1>2, <1>11, <1>14, <1>15

(* One calm step, and none.                                                *)
LEMMA CalmOne ==
  /\ Calm(<<>>)
  /\ \A x : StepOK(x) /\ DmaOnly(x) => Calm(<<x>>)
<1>1. Calm(<<>>)
  BY EmptyIs DEF Calm
<1>2. ASSUME NEW x, StepOK(x), DmaOnly(x) PROVE Calm(<<x>>)
  <2>1. IsSeq(<<x>>) /\ Len(<<x>>) = 1 /\ <<x>>[1] = x
    BY Single
  <2>2. \A i \in 1 .. Len(<<x>>) : i = 1
    BY <2>1
  <2>3. QED BY <1>2, <2>1, <2>2 DEF Calm
<1>3. QED BY <1>1, <1>2

(* No transfer and no mover's task is an accelerator's.                    *)
LEMMA NotAccels ==
  ASSUME DesignOK
  PROVE  /\ \A c : ~IsAccel(Load(c))
         /\ \A n, side, i : ~IsAccel(Mover(n, side, i))
<1>1. \A c : Load(c).comp = DMA
  BY DEF Load, Task
<1>2. \A n, side, i : Mover(n, side, i).comp = <<UnitOf(n), side, i>>
  BY DEF Mover, Task
<1>3. \A w : IsAccel(w) => w.comp # DMA /\ Len(w.comp) = 1
  BY UnitIs DEF IsAccel, IsDma
<1>4. \A n, side, i : Len(<<UnitOf(n), side, i>>) = 3
  OBVIOUS
<1>5. QED BY <1>1, <1>2, <1>3, <1>4

(* What was put in L1, and who reads it, are no accelerators' tasks.       *)
Held ==
  /\ \A c \in DOMAIN inL1 : ~IsAccel(inL1[c])
  /\ \A c \in DOMAIN readers : \A t \in readers[c] : ~IsAccel(t)

(* An `after' names no accelerator's task.                                 *)
LEMMA AfterIs ==
  ASSUME DesignOK, Held, NEW in, \A c \in DOMAIN in : ~IsAccel(in[c]), NEW t, NEW n
  PROVE  \A a \in After(t, n, in) : ~IsAccel(a)
<1>1. \A c : \A a \in Get(in, c) : ~IsAccel(a)
  BY DEF Get
<1>2. \A c : \A a \in Since(c) : ~IsAccel(a)
  BY DEF Since, Held
<1>3. \A c : \A a \in ReadersOf(n, c) : ~IsAccel(a)
  BY NotAccels DEF ReadersOf
<1> DEFINE c == OutPorts(n)[t.comp[3]].data
           d == InPorts(n)[t.comp[3]].data
<1>4. After(t, n, in) \subseteq {} \cup Get(in, d) \cup ((Since(c) \cup ReadersOf(n, c)) \cup Get(in, c))
  BY DEF After
<1> HIDE DEF c, d
<1>5. QED BY <1>1, <1>2, <1>3, <1>4

(* What ends a sequence is in it.                                          *)
LEMMA EndsWith ==
  ASSUME NEW s, NEW t, IsSeq(s), IsSeq(t), NEW i \in 1 .. Len(t)
  PROVE  \E j \in 1 .. Len(s \o t) : (s \o t)[j] = t[i]
<1>1. Len(s \o t) = Len(s) + Len(t) /\ (s \o t)[Len(s) + i] = t[i]
  BY Concat
<1> DEFINE r == s \o t
<1>2. Len(r) = Len(s) + Len(t) /\ r[Len(s) + i] = t[i]
  BY <1>1
<1> HIDE DEF r
<1>3. Len(s) \in Nat /\ Len(t) \in Nat
  BY SeqFacts
<1>4. Len(s) + i \in 1 .. Len(r)
  BY <1>2, <1>3
<1>5. QED BY <1>2, <1>4 DEF r

(* A node's group: calm steps, its start, calm steps; and before the start *)
(* a wait on another accelerator's task just before.                       *)
Shape(n, s, P, E) ==
  /\ Calm(P) /\ Calm(E)
  /\ s = (P \o <<GoStep(Append(SetTasks(n), Accel(n)))>>) \o E
  /\ prev # <<>> /\ IsAccel(prev[1]) /\ design.acc[prev[1].comp[1]] # design.acc[UnitOf(n)] =>
       \E j \in 1 .. Len(P) : P[j] = SyncStep(prev[1])

(* What deriving a group writes is of that shape.                          *)
LEMMA GroupSteps ==
  ASSUME GraphOK, Held, NEW n \in 1 .. Len(Nodes), Group(n)
  PROVE  \E P, E : Shape(n, steps', P, E)
<1> DEFINE loads == Loads(n)
           in == [c \in DOMAIN inL1 \cup ToSet(loads) |->
                    IF c \in DOMAIN inL1 THEN inL1[c] ELSE Load(c)]
           movers == SetTasks(n)
           stores == Stores(n)
           after(i) == After(movers[i], n, in)
           afters == UNION {after(i) : i \in DOMAIN movers}
           A == FlattenSeq([i \in DOMAIN loads |-> DmaSteps(Load(loads[i]), {})])
           B == [i \in DOMAIN movers |-> CfgStep(movers[i], after(i))]
           C == <<CfgStep(Accel(n), {})>>
           D == SerialSync(n, afters)
           e == GoStep(Append(movers, Accel(n)))
           F == FlattenSeq([i \in DOMAIN stores |->
                  DmaSteps(Store(stores[i].data), {WriterOf(n, stores[i].data)})])
<1>0. DesignOK
  BY GraphIs
<1>1. steps' = ((((A \o B) \o C) \o D) \o <<e>>) \o F
  BY DEF Group
<1>2. Calm(A)
  <2> DEFINE z == [i \in DOMAIN loads |-> DmaSteps(Load(loads[i]), {})]
  <2>1. IsSeq(loads)
    BY LoadsAre
  <2>2. DOMAIN loads = 1 .. Len(loads) /\ Len(loads) \in Nat
    BY <2>1, SeqFacts
  <2> HIDE DEF loads
  <2>3. z = [i \in 1 .. Len(loads) |-> z[i]] /\ \A i \in 1 .. Len(loads) : z[i] = DmaSteps(Load(loads[i]), {})
    BY <2>2
  <2>4. \A c : IsDma(Load(c).comp) /\ ~Load(c).idle
    BY DEF Load, Task, IsDma
  <2>5. \A c : Calm(DmaSteps(Load(c), {}))
    BY <2>4, CalmDma
  <2>6. A = FlattenSeq(z)
    OBVIOUS
  <2> HIDE DEF z, A
  <2>7. IsSeq(z) /\ Len(z) = Len(loads)
    BY <2>2, <2>3, OfLength
  <2>8. \A i \in 1 .. Len(z) : Calm(z[i])
    BY <2>3, <2>5, <2>7
  <2>9. QED BY <2>6, <2>7, <2>8, CalmFlatten
<1>3. Calm(B)
  <2>1. IsSeq(movers) /\ \A p \in 1 .. Len(movers) : MoverOf(n, movers[p])
    BY SetTasksAre
  <2>2. DOMAIN movers = 1 .. Len(movers) /\ Len(movers) \in Nat
    BY <2>1, SeqFacts
  <2> HIDE DEF movers, after
  <2>3. B = [i \in 1 .. Len(movers) |-> B[i]] /\ \A i \in 1 .. Len(movers) : B[i] = CfgStep(movers[i], after(i))
    BY <2>2
  <2> HIDE DEF B
  <2>4. \A i \in 1 .. Len(movers) : IsMover(movers[i].comp)
    BY <2>1 DEF MoverOf
  <2>5. \A i \in 1 .. Len(movers) : StepOK(B[i]) /\ DmaOnly(B[i])
    BY <2>3, <2>4, StepIsOK, StepStarts
  <2>6. QED BY <2>2, <2>3, <2>5, CalmMap
<1>4. Calm(C)
  <2>1. ~Accel(n).idle
    BY TaskIs DEF Accel
  <2>2. QED BY <2>1, StepIsOK, StepStarts, CalmOne
<1>5. \A a \in afters : ~IsAccel(a)
  <2>1. \A c \in DOMAIN in : ~IsAccel(in[c])
    BY <1>0, NotAccels DEF Held
  <2> HIDE DEF in
  <2>2. \A i : \A a \in after(i) : ~IsAccel(a)
    BY <1>0, <2>1, AfterIs
  <2> HIDE DEF after
  <2>3. QED BY <2>2
<1> DEFINE other == prev # <<>> /\ design.acc[prev[1].comp[1]] # design.acc[UnitOf(n)] /\ prev[1] \notin afters
<1>6. (other => D = <<SyncStep(prev[1])>>) /\ (~other => D = <<>>)
  BY DEF SerialSync
<1> HIDE DEF D
<1>7. Calm(D)
  <2>1. Calm(<<>>) /\ Calm(<<SyncStep(prev[1])>>)
    BY StepIsOK, StepStarts, CalmOne
  <2> HIDE DEF other
  <2>2. QED BY <1>6, <2>1
<1>8. Calm(F)
  <2> DEFINE tasks(i) == DmaSteps(Store(stores[i].data), {WriterOf(n, stores[i].data)})
             z == [i \in DOMAIN stores |-> tasks(i)]
  <2>1. IsSeq(stores)
    BY StoresAre
  <2>2. DOMAIN stores = 1 .. Len(stores) /\ Len(stores) \in Nat
    BY <2>1, SeqFacts
  <2>3. \A c : IsDma(Store(c).comp) /\ ~Store(c).idle
    BY DEF Store, Task, IsDma
  <2>4. \A i : Calm(tasks(i))
    BY <2>3, CalmDma
  <2>5. F = FlattenSeq(z)
    OBVIOUS
  <2> HIDE DEF stores, tasks, F
  <2>6. z = [i \in 1 .. Len(stores) |-> z[i]] /\ \A i \in 1 .. Len(stores) : z[i] = tasks(i)
    BY <2>2
  <2> HIDE DEF z
  <2>7. IsSeq(z) /\ Len(z) = Len(stores)
    BY <2>2, <2>6, OfLength
  <2>8. \A i \in 1 .. Len(z) : Calm(z[i])
    BY <2>4, <2>6, <2>7
  <2>9. QED BY <2>5, <2>7, <2>8, CalmFlatten
<1> DEFINE Q == (A \o B) \o C
           P == Q \o D
<1>9. e = GoStep(Append(SetTasks(n), Accel(n)))
  OBVIOUS
<1> HIDE DEF A, B, C, F, e, afters, other
<1>10. Calm(Q)
  BY <1>2, <1>3, <1>4, CalmConcat
<1>11. steps' = (P \o <<e>>) \o F
  BY <1>1
<1>12. prev # <<>> /\ IsAccel(prev[1]) /\ design.acc[prev[1].comp[1]] # design.acc[UnitOf(n)] =>
         \E j \in 1 .. Len(P) : P[j] = SyncStep(prev[1])
  <2> HIDE DEF Q
  <2> SUFFICES ASSUME prev # <<>>, IsAccel(prev[1]), design.acc[prev[1].comp[1]] # design.acc[UnitOf(n)]
               PROVE  \E j \in 1 .. Len(P) : P[j] = SyncStep(prev[1])
    OBVIOUS
  <2>1. other
    BY <1>5 DEF other
  <2> DEFINE y == SyncStep(prev[1])
  <2>2. D = <<y>>
    BY <1>6, <2>1
  <2> HIDE DEF y
  <2>3. IsSeq(D) /\ Len(D) = 1 /\ D[1] = y
    BY <2>2, Single
  <2>4. IsSeq(Q) /\ Len(Q) \in Nat
    BY <1>10, SeqFacts DEF Calm
  <2>5. \E j \in 1 .. Len(Q \o D) : (Q \o D)[j] = y
    <3>1. 1 \in 1 .. Len(D)
      BY <2>3
    <3>2. IsSeq(Q) /\ IsSeq(D)
      BY <2>3, <2>4
    <3> HIDE DEF Q
    <3>3. \E j \in 1 .. Len(Q \o D) : (Q \o D)[j] = D[1]
      BY <3>1, <3>2, EndsWith
    <3>4. QED BY <2>3, <3>3
  <2>6. QED BY <2>5 DEF y
<1>13. Calm(P)
  <2> HIDE DEF Q
  <2> QED BY <1>7, <1>10, CalmConcat
<1> HIDE DEF P
<1>14. QED BY <1>8, <1>9, <1>11, <1>12, <1>13 DEF Shape

-----------------------------------------------------------------------------
(* The walk keeps the groups in turn.                                      *)

(* The start of a group: its accelerator's movers and its own task.        *)
LEMMA GroupIs ==
  ASSUME GraphOK, NEW n \in 1 .. Len(Nodes)
  PROVE  LET ts == Append(SetTasks(n), Accel(n))
         IN IsSeq(ts) /\ GroupStart(ts, Accel(n)) /\ AccOf(Accel(n)) = design.acc[UnitOf(n)]
<1> DEFINE m == SetTasks(n)
           w == Accel(n)
           ts == Append(m, w)
           u == UnitOf(n)
<1>1. DesignOK /\ u \in DUnits
  BY GraphIs
<1>2. w.comp = Unit(u)
  BY DEF Accel, Task
<1>3. w.comp[1] = u /\ ~IsMover(w.comp)
  BY <1>1, <1>2, UnitIs
<1>4. IsAccel(w) /\ AccOf(w) = design.acc[u]
  BY <1>1, <1>2, <1>3 DEF IsAccel, AccOf
<1>5. /\ IsSeq(m) /\ Len(m) \in Nat /\ Len(m) # 0
      /\ \A p \in 1 .. Len(m) : MoverOf(n, m[p])
  BY SetTasksAre, SeqFacts
<1> HIDE DEF m, w
<1>6. /\ IsSeq(ts) /\ Len(ts) = Len(m) + 1
      /\ \A i \in 1 .. Len(m) : ts[i] = m[i]
      /\ ts[Len(m) + 1] = w
  BY <1>5, Added
<1> HIDE DEF ts
<1>7. /\ \A i \in 1 .. Len(ts) : ts[i] \in ToSet(ts)
      /\ \A x \in ToSet(ts) : \E i \in 1 .. Len(ts) : ts[i] = x
  BY <1>6, SeqFacts
<1>8. w \in ToSet(ts)
  <2>1. Len(m) + 1 \in 1 .. Len(ts)
    BY <1>5, <1>6
  <2>2. QED BY <1>6, <1>7, <2>1
<1>9. \E x \in ToSet(ts) : IsMover(x.comp)
  <2>1. 1 \in 1 .. Len(m) /\ 1 \in 1 .. Len(ts)
    BY <1>5, <1>6
  <2>2. MoverOf(n, ts[1]) /\ ts[1] \in ToSet(ts)
    BY <1>5, <1>6, <1>7, <2>1
  <2>3. QED BY <2>2 DEF MoverOf
<1>10. ASSUME NEW x \in ToSet(ts), IsMover(x.comp) PROVE MoverOf(n, x)
  <2>1. PICK i \in 1 .. Len(ts) : ts[i] = x
    BY <1>7
  <2>2. i # Len(m) + 1
    BY <1>3, <1>6, <1>10, <2>1
  <2>3. i \in 1 .. Len(m)
    BY <1>5, <1>6, <2>2
  <2>4. QED BY <1>5, <1>6, <2>1, <2>3
<1>11. GroupStart(ts, w)
  <2>1. \A x \in ToSet(ts) : IsMover(x.comp) =>
          /\ x.comp[1] \in DUnits /\ x.comp \in Movers(x.comp[1]) /\ AccOf(x) = AccOf(w)
          /\ x.comp[1] = w.comp[1] \/ x.idle
    BY <1>3, <1>4, <1>10 DEF MoverOf
  <2>2. QED BY <1>4, <1>8, <1>9, <2>1 DEF GroupStart
<1>12. QED BY <1>4, <1>6, <1>11 DEF ts, m, w

(* What moves when no group is to start.                                   *)
LEMMA AtRestMoves ==
  ASSUME NEW p, NEW cov, InTurn(<<>>, p, cov) PROVE Rested(<<>>, p, cov)
<1>1. Len(<<>>) = 0
  BY EmptyIs
<1>2. QED BY <1>1 DEF InTurn

(* The derived group waits for what moves on another accelerator.          *)
LEMMA GroupComing ==
  ASSUME GraphOK, NEW n \in 1 .. Len(Nodes), NEW s, NEW P, NEW E, Shape(n, s, P, E),
         NEW cov, Rested(<<>>, prev, cov)
  PROVE  /\ IsSeq(s) /\ \A i \in 1 .. Len(s) : StepOK(s[i])
         /\ \E i \in 1 .. Len(s) : Coming(s, <<Accel(n)>>, i, cov)
<1> DEFINE w == Accel(n)
           ts == Append(SetTasks(n), w)
           e == GoStep(ts)
           f == <<e>>
           r == P \o f
           t2 == r \o E
<1>1. IsSeq(ts) /\ GroupStart(ts, w) /\ AccOf(w) = design.acc[UnitOf(n)]
  BY GroupIs
<1>2. s = t2
  BY DEF Shape
<1>3. e.op = "start" /\ e.tasks = ts /\ StepOK(e)
  BY <1>1, StepIsOK, StepStarts
<1>4. IsSeq(P) /\ Len(P) \in Nat /\ IsSeq(E) /\ Len(E) \in Nat
      /\ (\A i \in 1 .. Len(P) : StepOK(P[i]) /\ DmaOnly(P[i]))
      /\ \A i \in 1 .. Len(E) : StepOK(E[i]) /\ DmaOnly(E[i])
  BY SeqFacts DEF Shape, Calm
<1>5. prev # <<>> /\ IsAccel(prev[1]) /\ design.acc[prev[1].comp[1]] # design.acc[UnitOf(n)] =>
        \E j \in 1 .. Len(P) : P[j] = SyncStep(prev[1])
  BY DEF Shape
<1> HIDE DEF w, ts, e
<1>6. IsSeq(f) /\ Len(f) = 1 /\ f[1] = e
  BY Single
<1> HIDE DEF f
<1>8. /\ IsSeq(r) /\ Len(r) = Len(P) + 1
      /\ \A i \in 1 .. Len(P) : r[i] = P[i]
      /\ \A i \in 1 .. Len(f) : r[Len(P) + i] = f[i]
  <2>1. IsSeq(P) /\ IsSeq(f)
    BY <1>4, <1>6
  <2>2. Len(f) = 1
    BY <1>6
  <2>3. /\ IsSeq(r) /\ Len(r) = Len(P) + Len(f)
        /\ \A i \in 1 .. Len(P) : r[i] = P[i]
        /\ \A i \in 1 .. Len(f) : r[Len(P) + i] = f[i]
    BY <2>1, Concat
  <2> HIDE DEF r
  <2>4. QED BY <2>2, <2>3
<1> HIDE DEF r
<1>9. /\ IsSeq(t2) /\ Len(t2) = Len(r) + Len(E)
      /\ \A i \in 1 .. Len(r) : t2[i] = r[i]
      /\ \A i \in 1 .. Len(E) : t2[Len(r) + i] = E[i]
  <2>1. IsSeq(r) /\ IsSeq(E)
    BY <1>4, <1>8
  <2>2. QED BY <2>1, Concat
<1> HIDE DEF t2
<1> DEFINE k == Len(P) + 1
<1>10. k \in 1 .. Len(s) /\ s[k] = e
  <2>1. 1 \in 1 .. Len(f) /\ k \in 1 .. Len(r) /\ k \in 1 .. Len(t2)
    BY <1>4, <1>6, <1>8, <1>9
  <2>2. r[k] = e /\ t2[k] = r[k]
    BY <1>6, <1>8, <1>9, <2>1
  <2>3. QED BY <1>2, <2>1, <2>2
<1>11. \A j \in 1 .. Len(P) : j \in 1 .. k - 1 /\ s[j] = P[j]
  <2> TAKE j \in 1 .. Len(P)
  <2>1. j \in 1 .. Len(r) /\ j \in 1 .. k - 1
    BY <1>4, <1>8
  <2>2. QED BY <1>2, <1>8, <1>9, <2>1
<1>12. ASSUME NEW j \in 1 .. Len(s), j # k PROVE StepOK(s[j]) /\ DmaOnly(s[j])
  <2>1. CASE j \in 1 .. Len(P)
    BY <1>4, <1>11, <2>1
  <2>2. CASE j \notin 1 .. Len(P)
    <3>1. j - k \in 1 .. Len(E) /\ Len(r) + (j - k) = j
      BY <1>2, <1>4, <1>8, <1>9, <1>12, <2>2
    <3>2. s[j] = E[j - k]
      BY <1>2, <1>9, <3>1
    <3>3. QED BY <1>4, <3>1, <3>2
  <2>3. QED BY <2>1, <2>2
<1>13. ASSUME NEW t \in Moving(Started), t \notin cov, AccOf(t) # AccOf(w) PROVE Awaited(s, k, t)
  <2>1. prev # <<>> /\ With(t, prev[1])
    BY <1>13 DEF Rested
  <2>2. IsAccel(prev[1]) /\ t.comp \in Movers(prev[1].comp[1]) /\ prev[1].comp[1] \in DUnits
    BY <2>1 DEF With, IsAccel
  <2>3. t.comp[1] = prev[1].comp[1]
    BY <2>2, GraphIs, MoverIs
  <2>4. design.acc[prev[1].comp[1]] # design.acc[UnitOf(n)]
    BY <1>1, <1>13, <2>3 DEF AccOf
  <2>5. PICK j \in 1 .. Len(P) : P[j] = SyncStep(prev[1])
    BY <1>5, <2>1, <2>2, <2>4
  <2>6. s[j].op = "sync" /\ s[j].task = prev[1] /\ j \in 1 .. k - 1
    BY <1>11, <2>5, StepStarts
  <2>7. QED BY <2>1, <2>6 DEF Awaited
<1> HIDE DEF k
<1> DEFINE p == <<w>>
<1>14. p[1] = w
  OBVIOUS
<1> HIDE DEF p
<1>15. Coming(s, p, k, cov)
  <2>1. \A t \in Moving(Started) : t \in cov \/ AccOf(t) = AccOf(p[1]) \/ Awaited(s, k, t)
    BY <1>13, <1>14
  <2>2. QED BY <1>1, <1>3, <1>10, <1>12, <1>14, <2>1 DEF Coming
<1>16. \A i \in 1 .. Len(s) : StepOK(s[i])
  BY <1>3, <1>10, <1>12
<1>17. QED BY <1>2, <1>9, <1>10, <1>15, <1>16 DEF p, w

(* Deriving a group leaves in L1 and among the readers no accelerator's    *)
(* task.                                                                   *)
LEMMA GroupHeld ==
  ASSUME DesignOK, Held, NEW n, Group(n), design' = design PROVE Held'
<1> DEFINE loads == Loads(n)
           in == [c \in DOMAIN inL1 \cup ToSet(loads) |->
                    IF c \in DOMAIN inL1 THEN inL1[c] ELSE Load(c)]
           D == (DOMAIN readers \cup {p.data : p \in ToSet(InPorts(n))}) \ Written(n)
<1>1. /\ inL1' = [c \in DOMAIN in \cup Written(n) |-> IF c \in Written(n) THEN WriterOf(n, c) ELSE in[c]]
      /\ readers' = [c \in D |-> Since(c) \cup ReadersOf(n, c)]
  BY DEF Group
<1>2. \A c \in DOMAIN in : ~IsAccel(in[c])
  BY NotAccels DEF Held
<1> HIDE DEF in, D
<1>3. \A c : ~IsAccel(WriterOf(n, c))
  BY NotAccels DEF WriterOf
<1>4. \A c : \A a \in Since(c) \cup ReadersOf(n, c) : ~IsAccel(a)
  BY NotAccels DEF Since, Held, ReadersOf
<1>5. \A c \in DOMAIN inL1' : ~IsAccel(inL1'[c])
  BY <1>1, <1>2, <1>3
<1>6. ASSUME NEW c \in DOMAIN readers', NEW t \in readers'[c] PROVE ~IsAccel(t)
  <2>1. t \in Since(c) \cup ReadersOf(n, c)
    BY <1>1, <1>6
  <2>2. QED BY <1>4, <2>1
<1>7. \A w : IsAccel(w)' <=> IsAccel(w)
  BY DEF IsAccel, DUnits, Unit
<1>8. QED BY <1>5, <1>6, <1>7 DEF Held

(* The lists read and lowered so far stay while nothing is lowered.        *)
LEMMA SameSeriesInv ==
  ASSUME SeriesInv, UNCHANGED <<design, starts, lines>> PROVE SeriesInv'
<1>1. Started' = Started
  BY SameOrder
<1>2. SeriesOn(lines', Started')
  BY <1>1 DEF SeriesInv
<1>3. SeriesOn(lines, Started)'
  BY <1>2, SameSeries
<1>4. StartsAre'
  BY DEF SeriesInv, StartsAre, IsSeq, ToSet
<1>5. QED BY <1>3, <1>4 DEF SeriesInv

(* The walk's part of the invariant.                                       *)
WalkInv == GraphOK /\ Held /\ node \in Nat \ {0}

(* The walk writes a group in turn.                                        *)
LEMMA WalkTurn ==
  ASSUME WalkInv, StepsAre, InTurn(steps, prev, covered), Walk
  PROVE  WalkInv' /\ StepsAre' /\ InTurn(steps, prev, covered)'
<1>1. /\ steps = <<>> /\ node <= Len(Nodes) /\ node' = node + 1
      /\ UNCHANGED <<graph, design, starts, covered>>
  BY DEF Walk, listVars
<1>2. GraphOK' /\ node' \in Nat \ {0} /\ DesignOK /\ node \in 1 .. Len(Nodes)
  <2>1. IsSeq(Nodes) /\ DesignOK
    BY GraphIs DEF WalkInv
  <2>2. Len(Nodes) \in Nat
    BY <2>1, SeqFacts
  <2>3. QED BY <1>1, <2>1, <2>2 DEF WalkInv, GraphOK
<1>3. Rested(<<>>, prev, covered)
  BY <1>1, AtRestMoves
<1>4. CASE Group(node)
  <2>1. Held'
    BY <1>1, <1>2, <1>4, GroupHeld DEF WalkInv
  <2>2. PICK P, E : Shape(node, steps', P, E)
    BY <1>2, <1>4, GroupSteps DEF WalkInv
  <2>3. \A s, P1, E1 : Shape(node, s, P1, E1) =>
          /\ IsSeq(s) /\ \A i \in 1 .. Len(s) : StepOK(s[i])
          /\ \E i \in 1 .. Len(s) : Coming(s, <<Accel(node)>>, i, covered)
    BY <1>2, <1>3, GroupComing DEF WalkInv
  <2>4. /\ IsSeq(steps') /\ \A i \in 1 .. Len(steps') : StepOK(steps'[i])
        /\ \E i \in 1 .. Len(steps') : Coming(steps', <<Accel(node)>>, i, covered)
    BY <2>2, <2>3
  <2>5. prev' = <<Accel(node)>> /\ prev' # <<>>
    <3> DEFINE w == Accel(node)
    <3>1. prev' = <<w>>
      BY <1>4 DEF Group
    <3> HIDE DEF w
    <3>2. Len(<<w>>) = 1 /\ Len(<<>>) = 0
      BY Single, EmptyIs
    <3>3. QED BY <3>1, <3>2 DEF w
  <2>6. InTurn(steps', prev', covered')
    BY <1>1, <2>4, <2>5 DEF InTurn
  <2>7. InTurn(steps, prev, covered)'
    BY <1>1, <2>6, SameTurn
  <2>8. StepsAre'
    BY <2>4 DEF StepsAre, StepOK, IsMover, IsSeq, ToSet
  <2>9. QED BY <1>2, <2>1, <2>7, <2>8 DEF WalkInv
<1>5. CASE UNCHANGED <<steps, inL1, readers, final, prev>>
  <2>1. \A w : IsAccel(w)' <=> IsAccel(w)
    BY <1>1 DEF IsAccel, DUnits, Unit
  <2>2. Held'
    BY <1>5, <2>1 DEF WalkInv, Held
  <2>3. InTurn(steps', prev', covered')
    BY <1>1, <1>5
  <2>4. InTurn(steps, prev, covered)'
    BY <1>1, <2>3, SameTurn
  <2>5. QED BY <1>2, <1>5, <2>2, <2>4, SameSteps DEF WalkInv
<1>6. QED BY <1>4, <1>5 DEF Walk

(* The syncs of the end start nothing.                                     *)
LEMMA FinishTurn ==
  ASSUME WalkInv, InTurn(steps, prev, covered), Finish
  PROVE  WalkInv' /\ StepsAre' /\ InTurn(steps, prev, covered)'
<1> DEFINE I == {i \in DOMAIN graph.containers : graph.containers[i] \in DOMAIN final \ graph.transient}
           written == Only(graph.containers, I)
           s == [i \in DOMAIN written |-> SyncStep(final[written[i]])]
<1>1. /\ steps = <<>> /\ node' = node + 1 /\ steps' = s
      /\ UNCHANGED <<graph, design, starts, covered, inL1, readers, prev>>
  BY DEF Finish, listVars
<1>2. GraphOK' /\ node' \in Nat \ {0}
  BY <1>1 DEF WalkInv, GraphOK
<1>3. \A w : IsAccel(w)' <=> IsAccel(w)
  BY <1>1 DEF IsAccel, DUnits, Unit
<1>4. Held'
  BY <1>1, <1>3 DEF WalkInv, Held
<1>5. Rested(<<>>, prev, covered)
  BY <1>1, AtRestMoves
<1>6. Calm(s)
  <2>1. IsSeq(written)
    BY GraphIs, OnlyIs DEF WalkInv
  <2> HIDE DEF written
  <2>2. DOMAIN written = 1 .. Len(written) /\ Len(written) \in Nat
    BY <2>1, SeqFacts
  <2>3. s = [i \in 1 .. Len(written) |-> s[i]]
        /\ \A i \in 1 .. Len(written) : s[i] = SyncStep(final[written[i]])
    BY <2>2
  <2> HIDE DEF s
  <2>4. \A i \in 1 .. Len(written) : StepOK(s[i]) /\ DmaOnly(s[i])
    BY <2>3, StepIsOK, StepStarts
  <2>5. QED BY <2>2, <2>3, <2>4, CalmMap
<1> HIDE DEF s
<1>7. StepsAre'
  BY <1>1, <1>6 DEF Calm, StepsAre, StepOK, IsMover, IsSeq, ToSet
<1>8. Rested(s, prev, covered)
  BY <1>5, <1>6 DEF Rested, Calm
<1>9. InTurn(steps', prev', covered')
  BY <1>1, <1>8 DEF InTurn
<1>10. InTurn(steps, prev, covered)'
  BY <1>1, <1>9, SameTurn
<1>11. QED BY <1>2, <1>4, <1>7, <1>10 DEF WalkInv

-----------------------------------------------------------------------------
(* The invariant of a derived list, and its theorems.                      *)

(* Never two accelerators under way.                                       *)
LEMMA SeriesHolds == ASSUME AsLowered, RunInv, SeriesOn(lines, Started) PROVE InSeries
<1> DEFINE L == lines[SlotCore]
           n == pc[SlotCore]
<1>1. /\ SlotCore \in Cores /\ DesignOK /\ IsSeq(L) /\ Once(L) /\ n \in 1 .. Len(L) + 1 /\ Len(L) \in Nat
      /\ LaunchesAre(lines, Started)
  <2>1. SlotCore \in Cores
    BY CoresAssumption
  <2>2. QED BY <2>1, WrittenIs, RunIs, SeqFacts DEF LinesAre, PcsAre
<1>2. ASSUME NEW t \in active, NEW a, t.comp \in MoversOf(a)
      PROVE  /\ IsMover(t.comp) /\ ~t.idle /\ AccOf(t) = a /\ t \in Started
             /\ \E q \in 1 .. Len(L) : /\ q < n /\ Goes(L, q, t) /\ Launches(L[q], t.comp)
                                       /\ \A i \in q + 1 .. n - 1 : ~Polls(L[i], t.comp)
  <2>1. IsMover(t.comp) /\ ~IsDma(t.comp) /\ AccOf(t) = a
    BY <1>1, <1>2, MoversOfIs DEF AccOf
  <2>2. CoreOf(t.comp) = SlotCore
    BY <2>1 DEF CoreOf
  <2>3. PICK q \in 1 .. n - 1 : Goes(L, q, t) /\ \A i \in q + 1 .. n - 1 : ~Polls(L[i], t.comp)
    BY <2>2, RunIs DEF UnderAre
  <2>4. ~t.idle
    BY RunIs DEF UnderAre
  <2> HIDE DEF n
  <2>5. q \in 1 .. Len(L) /\ q < n
    BY <1>1, <2>3
  <2>6. t \in Started
    BY <1>1, <2>3, <2>5, GoesStarted, WrittenIs
  <2>7. Launches(L[q], t.comp)
    BY <2>3 DEF Goes
  <2>8. QED BY <2>1, <2>3, <2>4, <2>5, <2>6, <2>7
<1>3. ASSUME NEW t \in active, NEW a, t.comp \in MoversOf(a), NEW u \in active, NEW b, u.comp \in MoversOf(b), a # b,
             NEW q \in 1 .. Len(L), q < n, Goes(L, q, t), \A i \in q + 1 .. n - 1 : ~Polls(L[i], t.comp),
             NEW j \in 1 .. Len(L), q < j, j < n, Launches(L[j], u.comp)
      PROVE  FALSE
  <2>1. t \in Moving(Started) /\ AccOf(t) = a
    BY <1>2, <1>3 DEF Moving
  <2>2. IsMover(u.comp) /\ design.acc[u.comp[1]] = b
    BY <1>2, <1>3 DEF AccOf
  <2>3. q \in 1 .. j - 1
    BY <1>1, <1>3
  <2>4. Past(L, j, t)
    BY <1>3, <2>1, <2>2, <2>3 DEF SeriesOn
  <2>5. PICK i \in 1 .. j - 1 : Goes(L, i, t) /\ \E p \in i + 1 .. j - 1 : Polls(L[p], t.comp)
    BY <2>4 DEF Past
  <2> HIDE DEF L, n
  <2>6. i \in 1 .. Len(L)
    BY <1>1
  <2>7. i = q
    BY <1>1, <1>3, <2>5, <2>6, GoesOnce
  <2>8. QED BY <1>1, <1>3, <2>5, <2>7
<1>4. ASSUME NEW t \in active, NEW a, t.comp \in MoversOf(a), NEW u \in active, NEW b, u.comp \in MoversOf(b)
      PROVE  a = b
  <2> SUFFICES ASSUME a # b PROVE FALSE
    OBVIOUS
  <2>1. PICK q \in 1 .. Len(L) : /\ q < n /\ Goes(L, q, t) /\ Launches(L[q], t.comp)
                                 /\ \A i \in q + 1 .. n - 1 : ~Polls(L[i], t.comp)
    BY <1>2, <1>4
  <2>2. PICK j \in 1 .. Len(L) : /\ j < n /\ Goes(L, j, u) /\ Launches(L[j], u.comp)
                                 /\ \A i \in j + 1 .. n - 1 : ~Polls(L[i], u.comp)
    BY <1>2, <1>4
  <2>3. ~(q < j)
    BY <1>3, <1>4, <2>1, <2>2
  <2>4. ~(j < q)
    BY <1>3, <1>4, <2>1, <2>2
  <2>5. q = j
    BY <1>1, <2>3, <2>4
  <2>6. Launches(L[q], t.comp) /\ Launches(L[q], u.comp)
    BY <2>1, <2>2, <2>5
  <2> HIDE DEF L, n
  <2> DEFINE x == L[q]
  <2>7. IsMover(t.comp) /\ IsMover(u.comp) /\ AccOf(t) = a /\ AccOf(u) = b
    BY <1>2, <1>4
  <2>8. t.comp # DMA /\ u.comp # DMA
    BY <2>7, DmaIs
  <2>9. \/ x.op = "start" /\ t.comp = u.comp
        \/ x.op = "streamers" /\ t.comp \in MoversOf(x.arg) /\ u.comp \in MoversOf(x.arg)
    BY <2>6, <2>8 DEF Launches
  <2>10. CASE t.comp = u.comp
    BY <2>7, <2>10 DEF AccOf
  <2>11. CASE t.comp \in MoversOf(x.arg) /\ u.comp \in MoversOf(x.arg)
    BY <1>1, <2>7, <2>11, MoversOfIs DEF AccOf
  <2>12. QED BY <2>9, <2>10, <2>11
<1> DEFINE S == {a \in Accs : \E t \in active : t.comp \in MoversOf(a)}
<1>5. \A a, b \in S : a = b
  BY <1>4
<1>6. Cardinality(S) <= 1
  <2> HIDE DEF S
  <2>1. CASE S = {}
    BY <2>1, FS_EmptySet
  <2>2. CASE S # {}
    <3>1. PICK a : S = {a}
      BY <1>5, <2>2
    <3>2. QED BY <3>1, FS_Singleton
  <2>3. QED BY <2>1, <2>2
<1>7. QED BY <1>6 DEF InSeries

(* The cluster is at rest until the list is whole and lowered.             *)
DerivePhases == (running => node = Len(Nodes) + 2 /\ steps = <<>>) /\ (~running => AtRest)

(* The inductive invariant of a derived list.                              *)
DeriveInv ==
  /\ LowerInv /\ RunInv /\ DerivePhases
  /\ WalkInv /\ SeriesInv
  /\ refused \/ InTurn(steps, prev, covered)

(* Before the walk nothing is written and nothing runs.                    *)
LEMMA DeriveInit == Init => DeriveInv
<1> SUFFICES ASSUME Init PROVE DeriveInv
  OBVIOUS
<1>0. /\ graph \in Graphs /\ LowerInit(graph.design) /\ node = 1 /\ inL1 = <<>> /\ readers = <<>>
      /\ steps = <<>> /\ starts = <<>> /\ design = graph.design /\ lines = [k \in Cores |-> <<>>]
      /\ ClusterInit
  BY DEF Init, LowerInit
<1>1. Design(graph.design) /\ graph.design.dma \in Cores
  BY <1>0, GraphsAssumption DEF Graph
<1>2. LowerInv /\ Started = {}
  BY <1>0, <1>1, EmptyList
<1>3. AtRest /\ ~running
  BY <1>0 DEF ClusterInit, AtRest
<1>4. LinesAre(lines)
  BY <1>2 DEF LowerInv, ProgramIs, ProgramOn
<1>5. RunInv
  BY <1>3, <1>4, FreshRun
<1>6. Len(<<>>) = 0 /\ DOMAIN <<>> = {} /\ IsSeq(<<>>)
  BY EmptyIs
<1>7. WalkInv
  BY <1>0, <1>6 DEF WalkInv, GraphOK, Held
<1>8. SeriesInv
  BY <1>0, <1>2, <1>6 DEF SeriesInv, SeriesOn, Moving, StartsAre
<1>9. InTurn(steps, prev, covered)
  BY <1>0, <1>2, <1>6 DEF InTurn, Rested, Moving
<1>10. QED BY <1>2, <1>3, <1>5, <1>7, <1>8, <1>9 DEF DeriveInv, DerivePhases

(* The program under way is a lowered one, its accelerators in series.     *)
LEMMA DeriveWritten == ASSUME DeriveInv PROVE AsLowered /\ RunInv /\ SeriesOn(lines, Started)
  BY DEF DeriveInv, LowerInv, ProgramIs, AsLowered, SeriesInv

(* The walk's part stays while nothing is derived.                         *)
LEMMA SameWalk ==
  ASSUME WalkInv, UNCHANGED <<design, graph, node, inL1, readers>> PROVE WalkInv'
<1>1. \A w : IsAccel(w)' <=> IsAccel(w)
  BY DEF IsAccel, DUnits, Unit
<1>2. Held'
  BY <1>1 DEF WalkInv, Held
<1>3. QED BY <1>2 DEF WalkInv, GraphOK

(* Every step of the walk, the lowering and the cluster keeps it.          *)
LEMMA DeriveNext == DeriveInv /\ [Next]_vars => DeriveInv'
<1> SUFFICES ASSUME DeriveInv, [Next]_vars PROVE DeriveInv'
  OBVIOUS
<1>0. /\ LowerInv /\ ListOK /\ StepsAre /\ RunInv /\ AsLowered /\ WalkInv /\ SeriesInv
      /\ (refused \/ InTurn(steps, prev, covered))
      /\ (running => node = Len(Nodes) + 2 /\ steps = <<>>) /\ (~running => AtRest)
  BY DeriveWritten DEF DeriveInv, LowerInv, DerivePhases
<1>0a. Len(Nodes) \in Nat /\ node \in Nat
  <2>1. IsSeq(Nodes)
    BY <1>0, GraphIs DEF WalkInv
  <2>2. QED BY <1>0, <2>1, SeqFacts DEF WalkInv
<1>1. ASSUME UNCHANGED <<listVars, programVars, deriveVars>>
      PROVE  LowerInv' /\ WalkInv' /\ SeriesInv' /\ (refused \/ InTurn(steps, prev, covered))'
  <2>1. LowerInv'
    BY <1>0, <1>1, SameSteps, LowerSame DEF programVars
  <2>2. WalkInv' /\ SeriesInv'
    BY <1>0, <1>1, SameWalk, SameSeriesInv DEF programVars, deriveVars, listVars
  <2>3. UNCHANGED <<design, starts, steps, prev, covered, refused>>
    BY <1>1 DEF programVars, deriveVars, listVars
  <2>4. InTurn(steps, prev, covered) => InTurn(steps', prev', covered')
    BY <2>3
  <2>5. InTurn(steps, prev, covered) => InTurn(steps, prev, covered)'
    BY <2>3, <2>4, SameTurn
  <2>6. QED BY <1>0, <2>1, <2>2, <2>3, <2>5
<1>2. ASSUME WalkInv', StepsAre', InTurn(steps, prev, covered)', ~running,
             UNCHANGED <<listVars, covered, waited, lines, refused, clusterVars>>
      PROVE  DeriveInv'
  <2>1. LowerInv'
    BY <1>0, <1>2, LowerSame
  <2>2. RunInv'
    BY <1>0, <1>2, SameRunning DEF listVars
  <2>3. SeriesInv'
    BY <1>0, <1>2, SameSeriesInv DEF listVars
  <2>4. DerivePhases'
    BY <1>0, <1>2 DEF DerivePhases, AtRest, clusterVars
  <2>5. QED BY <1>2, <2>1, <2>2, <2>3, <2>4 DEF DeriveInv
<1>3. CASE Walk
  <2>1. ~refused /\ node <= Len(Nodes) /\ UNCHANGED <<listVars, covered, waited, lines, refused, clusterVars>>
    BY <1>3 DEF Walk
  <2>2. ~running
    BY <1>0, <1>0a, <2>1
  <2>3. WalkInv' /\ StepsAre' /\ InTurn(steps, prev, covered)'
    BY <1>0, <1>3, <2>1, WalkTurn
  <2>4. QED BY <1>2, <2>1, <2>2, <2>3
<1>4. CASE Finish
  <2>1. ~refused /\ node = Len(Nodes) + 1 /\ UNCHANGED <<listVars, covered, waited, lines, refused, clusterVars>>
    BY <1>4 DEF Finish
  <2>2. ~running
    BY <1>0, <1>0a, <2>1
  <2>3. WalkInv' /\ StepsAre' /\ InTurn(steps, prev, covered)'
    BY <1>0, <1>4, <2>1, FinishTurn
  <2>4. QED BY <1>2, <2>1, <2>2, <2>3
<1>5. CASE LowerStep
  <2>1. Lower /\ UNCHANGED <<clusterVars, deriveVars>> /\ ~running /\ ~refused
    BY <1>0, <1>5 DEF LowerStep, Lower
  <2>2. LowerInv'
    BY <1>0, <2>1, LowerKeeps
  <2>3. SeriesInv' /\ (refused' \/ InTurn(steps, prev, covered)')
    BY <1>0, <2>1, LowerTurn DEF deriveVars
  <2>4. design' = design
    BY <2>1 DEF Lower, Configure, Start, Sync, Refuse, listVars
  <2>5. WalkInv'
    BY <1>0, <2>1, <2>4, SameWalk DEF deriveVars
  <2>6. AtRest' /\ ~running'
    BY <1>0, <2>1 DEF AtRest, clusterVars
  <2>7. LinesAre(lines)'
    BY <2>2 DEF LowerInv, ProgramIs, ProgramOn
  <2>8. RunInv'
    BY <2>6, <2>7, FreshNext
  <2>9. QED BY <2>2, <2>3, <2>5, <2>6, <2>8 DEF DeriveInv, DerivePhases
<1>6. CASE RunMain
  <2>1. /\ node = Len(Nodes) + 2 /\ steps = <<>> /\ ~running /\ ~refused
        /\ UNCHANGED <<listVars, covered, waited, lines, steps, deriveVars>>
        /\ UNCHANGED <<pc, regs, active, queue, ended>>
    BY <1>6 DEF RunMain, Run
  <2>2. LowerInv'
    BY <1>0, <2>1, SameSteps, LowerSame
  <2>3. RunInv'
    <3>1. RunOn(pc', regs', active', ToSet(queue'), ended') /\ IsSeq(queue')
      BY <1>0, <2>1 DEF RunInv
    <3>2. QED BY <2>1, <3>1, RunKept DEF listVars
  <2>4. WalkInv' /\ SeriesInv'
    BY <1>0, <2>1, SameWalk, SameSeriesInv DEF deriveVars, listVars
  <2>5. InTurn(steps', prev', covered')
    BY <1>0, <2>1 DEF deriveVars
  <2>6. InTurn(steps, prev, covered)'
    BY <2>1, <2>5, SameTurn DEF listVars
  <2>7. Nodes' = Nodes /\ node' = node
    BY <2>1 DEF deriveVars, Nodes
  <2>8. DerivePhases'
    BY <1>0, <2>1, <2>7 DEF DerivePhases, AtRest
  <2>9. QED BY <2>2, <2>3, <2>4, <2>6, <2>8 DEF DeriveInv
<1>7. ASSUME Off, running, running' = running, RunInv' PROVE DeriveInv'
  <2>1. LowerInv' /\ WalkInv' /\ SeriesInv' /\ (refused \/ InTurn(steps, prev, covered))'
    BY <1>1, <1>7 DEF Off
  <2>2. Nodes' = Nodes /\ node' = node /\ steps' = steps
    BY <1>7 DEF Off, deriveVars, programVars, Nodes
  <2>3. DerivePhases'
    BY <1>0, <1>7, <2>2 DEF DerivePhases
  <2>4. QED BY <1>7, <2>1, <2>3 DEF DeriveInv
<1>8. ASSUME NEW k \in Cores, CoreSteps(k) PROVE DeriveInv'
  <2>1. Do(k) /\ Off /\ UNCHANGED <<design, lines>>
    BY <1>8 DEF CoreSteps, Off, listVars, programVars
  <2>2. QED BY <1>0, <1>7, <2>1, CoreKeeps
<1>9. CASE BarrierStep
  <2>1. Off /\ UNCHANGED <<design, lines>> /\ DoBarrier /\ running /\ running' = running
    BY <1>9 DEF BarrierStep, DoBarrier, Off, listVars, programVars
  <2>2. QED BY <1>0, <1>7, <2>1, BarrierPasses
<1>10. CASE DmaStep
  <2>1. Off /\ UNCHANGED <<design, lines>> /\ EndDma /\ running' = running
    BY <1>10 DEF DmaStep, DmaEnds, EndDma, Off, listVars, programVars
  <2>2. running
    BY <1>0, <2>1 DEF EndDma, AtRest
  <2>3. QED BY <1>0, <1>7, <2>1, <2>2, EndSteps
<1>11. CASE EndStep
  <2>1. PICK t \in active : TaskEnds(t)
    BY <1>11 DEF EndStep
  <2>2. EndTask(t) /\ Off /\ UNCHANGED <<design, lines>> /\ running' = running
    BY <1>11, <2>1 DEF EndStep, TaskEnds, EndTask, Off, listVars, programVars
  <2>3. running
    BY <1>0, <2>1 DEF AtRest
  <2>4. QED BY <1>0, <1>7, <2>1, <2>2, <2>3, EndSteps
<1>12. CASE Stopped \/ UNCHANGED vars
  <2>1. UNCHANGED <<listVars, programVars, deriveVars, clusterVars>>
    BY <1>12 DEF Stopped, vars
  <2>2. LowerInv' /\ WalkInv' /\ SeriesInv' /\ (refused \/ InTurn(steps, prev, covered))'
    BY <1>1, <2>1
  <2>3. RunInv'
    BY <1>0, <2>1, SameRunning DEF programVars, listVars
  <2>4. Nodes' = Nodes /\ node' = node /\ steps' = steps
    BY <2>1 DEF deriveVars, programVars, Nodes
  <2>5. DerivePhases'
    BY <1>0, <2>1, <2>4 DEF DerivePhases, AtRest, clusterVars
  <2>6. QED BY <2>2, <2>3, <2>5 DEF DeriveInv
<1>13. QED BY <1>3, <1>4, <1>5, <1>6, <1>8, <1>9, <1>10, <1>11, <1>12 DEF Next

(* The list derived from every graph (lower/derive.py) keeps the rules of  *)
(* a list, its groups are lowered in turn, and the cores, registers and    *)
(* engines follow its program: the invariant the two below rest on.        *)
THEOREM DeriveInvariant == Spec => []DeriveInv
<1>1. Init => DeriveInv
  BY DeriveInit
<1>2. DeriveInv /\ [Next]_vars => DeriveInv'
  BY DeriveNext
<1>3. QED BY <1>1, <1>2, PTL DEF Spec

(* The accelerators run in series (D158): whatever the graph, the design   *)
(* point and the number of cores, never two accelerators' streamers are    *)
(* under way, by the sync serial_syncs (lower/derive.py) puts before the   *)
(* start of another accelerator.                                           *)
THEOREM AccelsInSeries == Spec => []InSeries
<1>1. DeriveInv => InSeries
  BY DeriveWritten, SeriesHolds
<1>2. QED BY <1>1, DeriveInvariant, PTL

(* Its program launches a task only when every task of its `after' on the  *)
(* same core is over, and finds the components it starts idle              *)
(* (lower/waits.py, lower/c.py).                                           *)
THEOREM DerivedKeepsAfter == Spec => [](AfterOnCore /\ StartsFindIdle)
<1>1. DeriveInv => AfterOnCore /\ StartsFindIdle
  BY DeriveWritten, AfterHolds, StartsHold
<1>2. QED BY <1>1, DeriveInvariant, PTL

-----------------------------------------------------------------------------
(* Across cores: what the barriers keep.                                   *)

(* The barriers a core's function holds before instruction j, and in all.  *)
Bars(L, j) == Cardinality({i \in 1 .. j - 1 : L[i].op = "barrier"})
Count(W) == Bars(W, Len(W) + 1)

(* How the number of barriers grows along a function.                      *)
LEMMA BarsAlong ==
  ASSUME NEW L, NEW j \in Nat
  PROVE  /\ Bars(L, j) \in Nat
         /\ \A i \in Nat : i <= j => Bars(L, i) <= Bars(L, j)
         /\ j # 0 => Bars(L, j + 1) = IF L[j].op = "barrier" THEN Bars(L, j) + 1 ELSE Bars(L, j)
<1> DEFINE B(i) == {q \in 1 .. i - 1 : L[q].op = "barrier"}
<1>1. ASSUME NEW i \in Nat PROVE IsFiniteSet(B(i))
  <2>1. IsFiniteSet(1 .. i - 1) /\ B(i) \subseteq 1 .. i - 1
    BY FS_Interval
  <2>2. QED BY <2>1, FS_Subset
<1>2. Cardinality(B(j)) \in Nat
  BY <1>1, FS_CardinalityType
<1>3. ASSUME NEW i \in Nat, i <= j PROVE Cardinality(B(i)) <= Cardinality(B(j))
  <2>1. B(i) \subseteq B(j)
    BY <1>3
  <2>2. QED BY <1>1, <2>1, FS_Subset
<1>4. CASE j # 0 /\ L[j].op = "barrier"
  <2>1. B(j + 1) = B(j) \cup {j} /\ j \notin B(j)
    BY <1>4
  <2> HIDE DEF B
  <2>2. Cardinality(B(j) \cup {j}) = Cardinality(B(j)) + 1
    BY <1>1, <2>1, FS_AddElement
  <2>3. Cardinality(B(j + 1)) = Cardinality(B(j)) + 1
    BY <2>1, <2>2
  <2>4. QED BY <1>2, <1>3, <1>4, <2>3 DEF Bars, B
<1>5. CASE j # 0 /\ L[j].op # "barrier"
  <2>1. B(j + 1) = B(j)
    BY <1>5
  <2>2. QED BY <1>2, <1>3, <1>5, <2>1 DEF Bars
<1>6. CASE j = 0
  BY <1>2, <1>3, <1>6 DEF Bars
<1>7. QED BY <1>4, <1>5, <1>6

(* Where two functions have the same barriers.                             *)
LEMMA BarsSame ==
  ASSUME NEW L, NEW M, NEW j \in Nat,
         \A i \in 1 .. j - 1 : L[i].op = "barrier" <=> M[i].op = "barrier"
  PROVE  Bars(L, j) = Bars(M, j)
<1>1. {i \in 1 .. j - 1 : L[i].op = "barrier"} = {i \in 1 .. j - 1 : M[i].op = "barrier"}
  OBVIOUS
<1>2. QED BY <1>1, Zenon DEF Bars

(* No barrier between: none more.                                          *)
LEMMA BarsNone ==
  ASSUME NEW L, NEW i \in Nat, NEW j \in Nat, i <= j, \A q \in i .. j - 1 : L[q].op # "barrier"
  PROVE  Bars(L, i) = Bars(L, j)
<1>1. {q \in 1 .. i - 1 : L[q].op = "barrier"} = {q \in 1 .. j - 1 : L[q].op = "barrier"}
  OBVIOUS
<1>2. QED BY <1>1, Zenon DEF Bars

(* The barriers of a concatenation.                                        *)
LEMMA CountConcat ==
  ASSUME NEW V, NEW W, IsSeq(V), IsSeq(W)
  PROVE  Count(V \o W) = Count(V) + Count(W)
<1> DEFINE F == V \o W
           n == Len(V)
<1>1. n \in Nat /\ Len(W) \in Nat /\ Len(F) = n + Len(W)
  BY Concat, SeqFacts
<1>2. (\A i \in 1 .. n : F[i] = V[i]) /\ \A i \in 1 .. Len(W) : F[n + i] = W[i]
  BY Concat
<1> HIDE DEF F
<1> DEFINE S == {m \in Nat : m <= Len(W) => Bars(F, n + m + 1) = Count(V) + Bars(W, m + 1)}
<1>3. 0 \in S
  <2>1. Bars(F, n + 1) = Bars(V, n + 1)
    BY <1>1, <1>2, BarsSame
  <2>2. Bars(W, 1) = 0
    <3>1. {i \in 1 .. 1 - 1 : W[i].op = "barrier"} = {}
      OBVIOUS
    <3>2. QED BY <3>1, FS_EmptySet DEF Bars
  <2>3. Bars(V, n + 1) \in Nat
    BY <1>1, BarsAlong
  <2>4. QED BY <1>1, <2>1, <2>2, <2>3 DEF Count
<1>4. ASSUME NEW m \in Nat, m \in S PROVE m + 1 \in S
  <2> SUFFICES ASSUME m + 1 <= Len(W) PROVE Bars(F, n + (m + 1) + 1) = Count(V) + Bars(W, (m + 1) + 1)
    OBVIOUS
  <2>1. Bars(F, n + m + 1) = Count(V) + Bars(W, m + 1)
    BY <1>1, <1>4
  <2>2. F[n + (m + 1)] = W[m + 1] /\ n + m + 1 \in Nat /\ n + m + 1 # 0 /\ n + (m + 1) = n + m + 1 /\ m + 1 # 0 /\ m + 1 \in Nat
    BY <1>1, <1>2
  <2>3. Bars(F, (n + m + 1) + 1) = IF F[n + m + 1].op = "barrier" THEN Bars(F, n + m + 1) + 1 ELSE Bars(F, n + m + 1)
    BY <2>2, BarsAlong
  <2>4. Bars(W, (m + 1) + 1) = IF W[m + 1].op = "barrier" THEN Bars(W, m + 1) + 1 ELSE Bars(W, m + 1)
    BY <2>2, BarsAlong
  <2>5. Count(V) \in Nat /\ Bars(W, m + 1) \in Nat
    <3>1. Len(V) + 1 \in Nat
      BY <1>1
    <3>2. Bars(V, Len(V) + 1) \in Nat /\ Bars(W, m + 1) \in Nat
      BY <2>2, <3>1, BarsAlong
    <3>3. QED BY <3>2 DEF Count
  <2>6. QED BY <2>1, <2>2, <2>3, <2>4, <2>5
<1>5. Nat \subseteq S
  <2> HIDE DEF S
  <2> QED BY <1>3, <1>4, Induct
<1>6. Bars(F, n + Len(W) + 1) = Count(V) + Bars(W, Len(W) + 1)
  <2>1. Len(W) \in S
    BY <1>1, <1>5
  <2>2. QED BY <1>1, <2>1
<1>7. QED BY <1>1, <1>6 DEF Count, F

(* Concatenations of sequences that hold the same barriers pair by pair.   *)
LEMMA FlattenCount ==
  ASSUME NEW s, NEW r, IsSeq(s), IsSeq(r), Len(r) = Len(s),
         \A i \in 1 .. Len(s) : IsSeq(s[i]) /\ IsSeq(r[i]) /\ Count(s[i]) = Count(r[i])
  PROVE  Count(FlattenSeq(s)) = Count(FlattenSeq(r))
<1> DEFINE n == Len(s)
<1>1. n \in Nat
  BY SeqFacts
<1>2. CASE n = 0
  <2>1. s = <<>> /\ r = <<>>
    BY <1>2 DEF IsSeq
  <2>2. QED BY <2>1
<1>3. CASE n # 0
  <2>1. PICK g : Flattens(s, n, g) /\ FlattenSeq(s) = g[n]
    BY <1>1, <1>3, FlattenDef
  <2>2. PICK h : Flattens(r, n, h) /\ FlattenSeq(r) = h[n]
    BY <1>1, <1>3, FlattenDef
  <2> DEFINE S == {i \in Nat : i + 1 \in 1 .. n => /\ IsSeq(g[i + 1]) /\ IsSeq(h[i + 1])
                                                   /\ Count(g[i + 1]) = Count(h[i + 1])}
  <2>3. 0 \in S
    <3>1. 1 \in 1 .. n
      BY <1>1, <1>3
    <3>2. g[1] = s[1] /\ h[1] = r[1]
      BY <1>1, <2>1, <2>2, <3>1, FlattensAt
    <3>3. QED BY <3>1, <3>2
  <2>4. ASSUME NEW i \in Nat, i \in S PROVE i + 1 \in S
    <3> SUFFICES ASSUME i + 2 \in 1 .. n
                 PROVE  IsSeq(g[i + 2]) /\ IsSeq(h[i + 2]) /\ Count(g[i + 2]) = Count(h[i + 2])
      OBVIOUS
    <3>1. i + 1 \in 1 .. n /\ i + 2 # 1 /\ (i + 2) - 1 = i + 1
      BY <1>1
    <3>2. IsSeq(g[i + 1]) /\ IsSeq(h[i + 1]) /\ Count(g[i + 1]) = Count(h[i + 1])
      BY <2>4, <3>1
    <3>3. g[i + 2] = Then(g[i + 1], s[i + 2]) /\ h[i + 2] = Then(h[i + 1], r[i + 2])
      BY <1>1, <2>1, <2>2, <3>1, FlattensAt
    <3>4. IsSeq(s[i + 2]) /\ IsSeq(r[i + 2]) /\ Count(s[i + 2]) = Count(r[i + 2])
      OBVIOUS
    <3>5. IsSeq(g[i + 2]) /\ Count(g[i + 2]) = Count(g[i + 1]) + Count(s[i + 2])
      BY <3>2, <3>3, <3>4, Concat, CountConcat DEF Then
    <3>6. IsSeq(h[i + 2]) /\ Count(h[i + 2]) = Count(h[i + 1]) + Count(r[i + 2])
      BY <3>2, <3>3, <3>4, Concat, CountConcat DEF Then
    <3>7. QED BY <3>2, <3>4, <3>5, <3>6
  <2>5. n - 1 \in S
    <3> HIDE DEF S
    <3>1. Nat \subseteq S
      BY <2>3, <2>4, Induct
    <3>2. QED BY <1>1, <1>3, <3>1
  <2>6. (n - 1) + 1 = n /\ n \in 1 .. n
    BY <1>1, <1>3
  <2>7. Count(g[n]) = Count(h[n])
    BY <2>5, <2>6
  <2>8. QED BY <2>1, <2>2, <2>7
<1>4. QED BY <1>2, <1>3

(* Concatenation is associative.                                           *)
LEMMA ThenThen ==
  ASSUME NEW d, NEW e, NEW f, IsSeq(d), IsSeq(e), IsSeq(f)
  PROVE  Then(Then(d, e), f) = Then(d, Then(e, f))
<1>1. ASSUME NEW T, d \in Seq(T), e \in Seq(T), f \in Seq(T) PROVE (d \o e) \o f = d \o (e \o f)
  BY <1>1, ConcatAssociative
<1>2. /\ d \in Seq(ToSet(d) \cup ToSet(e) \cup ToSet(f))
      /\ e \in Seq(ToSet(d) \cup ToSet(e) \cup ToSet(f))
      /\ f \in Seq(ToSet(d) \cup ToSet(e) \cup ToSet(f))
  BY SeqFacts
<1>3. (d \o e) \o f = d \o (e \o f)
  BY <1>1, <1>2
<1>4. QED BY <1>3 DEF Then

(* A concatenation around one of its sequences.                            *)
LEMMA FlattenSplit ==
  ASSUME NEW s, IsSeq(s), \A j \in 1 .. Len(s) : IsSeq(s[j]), NEW i \in 1 .. Len(s)
  PROVE  \E P, Q : IsSeq(P) /\ IsSeq(Q) /\ FlattenSeq(s) = Then(Then(P, s[i]), Q)
<1> DEFINE n == Len(s)
<1>1. n \in Nat /\ n # 0
  BY SeqFacts
<1>2. PICK g : Flattens(s, n, g) /\ FlattenSeq(s) = g[n]
  BY <1>1, FlattenDef
<1> DEFINE All == {m \in Nat : m + 1 \in 1 .. n => IsSeq(g[m + 1])}
<1>3. \A m \in 1 .. n : IsSeq(g[m])
  <2>1. 0 \in All
    BY <1>1, <1>2, FlattensAt
  <2>2. ASSUME NEW m \in Nat, m \in All PROVE m + 1 \in All
    <3> SUFFICES ASSUME m + 2 \in 1 .. n PROVE IsSeq(g[m + 2])
      OBVIOUS
    <3>1. m + 1 \in 1 .. n /\ m + 2 # 1 /\ (m + 2) - 1 = m + 1
      BY <1>1
    <3>2. IsSeq(g[m + 1]) /\ g[m + 2] = Then(g[m + 1], s[m + 2])
      BY <1>1, <1>2, <2>2, <3>1, FlattensAt
    <3>3. QED BY <3>2, Concat DEF Then
  <2>3. Nat \subseteq All
    <3> HIDE DEF All
    <3> QED BY <2>1, <2>2, Induct
  <2>4. ASSUME NEW m \in 1 .. n PROVE IsSeq(g[m])
    <3>1. m - 1 \in Nat /\ (m - 1) + 1 = m
      BY <1>1
    <3>2. m - 1 \in All
      BY <2>3, <3>1
    <3>3. QED BY <3>1, <3>2
  <2>5. QED BY <2>4
<1>4. \E P : IsSeq(P) /\ IsSeq(Then(P, s[i])) /\ g[i] = Then(P, s[i])
  <2>1. CASE i = 1
    <3>1. <<>> \o s[i] = s[i] /\ g[i] = s[i]
      BY <1>1, <1>2, <2>1, FlattensAt, ConcatEmptySeq DEF IsSeq
    <3>2. QED BY <3>1, EmptyIs DEF Then
  <2>2. CASE i # 1
    <3>1. i - 1 \in 1 .. n
      BY <1>1, <2>2
    <3>2. g[i] = Then(g[i - 1], s[i]) /\ IsSeq(g[i - 1])
      BY <1>1, <1>2, <1>3, <2>2, <3>1, FlattensAt
    <3>3. QED BY <3>2, Concat DEF Then
  <2>3. QED BY <2>1, <2>2
<1>5. PICK P : IsSeq(P) /\ IsSeq(Then(P, s[i])) /\ g[i] = Then(P, s[i])
  BY <1>4
<1> DEFINE S == {m \in Nat : i + m \in 1 .. n => \E Q : IsSeq(Q) /\ g[i + m] = Then(g[i], Q)}
<1>6. 0 \in S
  <2>1. g[i] \o <<>> = g[i]
    BY <1>3, ConcatEmptySeq DEF IsSeq
  <2>2. i + 0 = i /\ IsSeq(<<>>) /\ g[i] = Then(g[i], <<>>)
    BY <2>1, EmptyIs DEF Then
  <2>3. QED BY <2>2
<1>7. ASSUME NEW m \in Nat, m \in S PROVE m + 1 \in S
  <2> SUFFICES ASSUME i + (m + 1) \in 1 .. n PROVE \E Q : IsSeq(Q) /\ g[i + (m + 1)] = Then(g[i], Q)
    OBVIOUS
  <2> DEFINE a == i + m
  <2>1. a \in 1 .. n /\ a + 1 = i + (m + 1) /\ a + 1 # 1 /\ (a + 1) - 1 = a /\ a + 1 \in 1 .. n
    BY <1>1
  <2>2. PICK Q : IsSeq(Q) /\ g[a] = Then(g[i], Q)
    BY <1>7, <2>1
  <2> HIDE DEF a
  <2>3. g[a + 1] = Then(g[a], s[a + 1]) /\ IsSeq(s[a + 1])
    <3> DEFINE b == a + 1
    <3>1. b \in 1 .. n /\ b # 1 /\ b - 1 = a
      BY <2>1
    <3> HIDE DEF b
    <3>2. g[b] = Then(g[b - 1], s[b]) /\ IsSeq(s[b])
      BY <1>1, <1>2, <3>1, FlattensAt
    <3>3. QED BY <3>1, <3>2 DEF b
  <2>4. g[a + 1] = Then(g[i], Then(Q, s[a + 1]))
    <3>1. IsSeq(g[i]) /\ IsSeq(Q) /\ IsSeq(s[a + 1])
      BY <1>3, <2>2, <2>3
    <3>2. QED BY <2>2, <2>3, <3>1, ThenThen
  <2>5. IsSeq(Then(Q, s[a + 1]))
    BY <2>2, <2>3, Concat DEF Then
  <2>6. QED BY <2>1, <2>4, <2>5
<1>8. \E Q : IsSeq(Q) /\ g[n] = Then(g[i], Q)
  <2>1. n - i \in Nat /\ i + (n - i) = n /\ n \in 1 .. n
    BY <1>1
  <2>2. n - i \in S
    <3> HIDE DEF S
    <3>1. Nat \subseteq S
      BY <1>6, <1>7, Induct
    <3>2. QED BY <2>1, <3>1
  <2>3. QED BY <2>1, <2>2
<1>9. QED BY <1>2, <1>5, <1>8

(* A function without a barrier holds none; one barrier is one.            *)
LEMMA CountFew ==
  ASSUME NEW W, IsSeq(W)
  PROVE  /\ (\A i \in 1 .. Len(W) : W[i].op # "barrier") => Count(W) = 0
         /\ Len(W) = 1 /\ W[1].op = "barrier" => Count(W) = 1
<1>1. Len(W) \in Nat
  BY SeqFacts
<1>2. Bars(W, 1) = 0
  <2>1. {i \in 1 .. 1 - 1 : W[i].op = "barrier"} = {}
    OBVIOUS
  <2>2. QED BY <2>1, FS_EmptySet DEF Bars
<1>3. ASSUME \A i \in 1 .. Len(W) : W[i].op # "barrier" PROVE Count(W) = 0
  <2>1. 1 \in Nat /\ Len(W) + 1 \in Nat /\ 1 <= Len(W) + 1 /\ \A q \in 1 .. (Len(W) + 1) - 1 : W[q].op # "barrier"
    BY <1>1, <1>3
  <2>2. Bars(W, 1) = Bars(W, Len(W) + 1)
    BY <2>1, BarsNone
  <2>3. QED BY <1>2, <2>2 DEF Count
<1>4. ASSUME Len(W) = 1, W[1].op = "barrier" PROVE Count(W) = 1
  <2>1. 1 \in Nat /\ 1 # 0
    OBVIOUS
  <2>2. Bars(W, 1 + 1) = Bars(W, 1) + 1
    BY <1>4, <2>1, BarsAlong
  <2>3. QED BY <1>2, <1>4, <2>2 DEF Count
<1>5. QED BY <1>3, <1>4

(* A wait's code: a barrier, its last, on every core or on none.           *)
LEMMA WaitCodeBars ==
  ASSUME ListOK, NEW k \in Cores, NEW c \in Components, NEW E, E \subseteq Started, NEW consumers, NEW W,
         W = WaitCode(k, c, E, consumers)
  PROVE  /\ Count(W) = IF Meeting(CoreOf(c), consumers) = Cores THEN 1 ELSE 0
         /\ Meeting(CoreOf(c), consumers) = Cores => Len(W) # 0 /\ W[Len(W)].op = "barrier"
<1> DEFINE A == IF k = CoreOf(c) THEN Poll(c) ELSE <<>>
           B == IF k = SlotCore THEN Counters(E) ELSE <<>>
           C == IF k \in Meeting(CoreOf(c), consumers) THEN <<Barrier>> ELSE <<>>
           Plain(X) == IsSeq(X) /\ \A i \in 1 .. Len(X) : X[i].op # "barrier"
<1>1. W = (A \o B) \o C
  BY DEF WaitCode
<1>2. Plain(<<>>)
  BY EmptyIs
<1>3. Plain(A)
  <2>1. Plain(Poll(c))
    <3>1. \A x, o : Instr(o, x).op = o
      BY DEF Instr
    <3>2. IsDma(c) => IsSeq(Poll(c)) /\ Len(Poll(c)) = 1 /\ Poll(c)[1].op = "dma_wait"
      BY <3>1, Single DEF Poll
    <3>3. ~IsDma(c) => IsSeq(Poll(c)) /\ Len(Poll(c)) = 2 /\ Poll(c)[1].op = "status" /\ Poll(c)[2].op = "busy"
      <4> DEFINE d == Instr("status", Unit(c[1]))
                 e == Instr("busy", design.acc[c[1]])
      <4>1. d.op = "status" /\ e.op = "busy"
        BY <3>1
      <4>2. ~IsDma(c) => Poll(c) = <<d, e>>
        BY DEF Poll
      <4> HIDE DEF d, e
      <4>3. QED BY <4>1, <4>2, Pair
    <3>4. QED BY <3>2, <3>3
  <2>2. QED BY <1>2, <2>1
<1>4. Plain(B)
  <2>1. Plain(Counters(E))
    <3>1. IsSeq(Counters(E)) /\ \A i \in 1 .. Len(Counters(E)) : \E t \in E : Counters(E)[i] = Instr("counter", t)
      BY CountersIs
    <3>2. \A t : Instr("counter", t).op # "barrier"
      BY DEF Instr
    <3>3. QED BY <3>1, <3>2
  <2>2. QED BY <1>2, <2>1
<1>5. Meeting(CoreOf(c), consumers) \in {{}, Cores}
  BY DEF Meeting
<1>6. /\ IsSeq(C)
      /\ Meeting(CoreOf(c), consumers) = Cores => Len(C) = 1 /\ C[1].op = "barrier"
      /\ Meeting(CoreOf(c), consumers) # Cores => C = <<>>
  <2>1. Barrier.op = "barrier"
    BY DEF Barrier, Instr
  <2>2. IsSeq(<<Barrier>>) /\ Len(<<Barrier>>) = 1 /\ <<Barrier>>[1] = Barrier
    BY Single
  <2>3. Meeting(CoreOf(c), consumers) = Cores => C = <<Barrier>>
    OBVIOUS
  <2>4. Meeting(CoreOf(c), consumers) # Cores => C = <<>>
    BY <1>5
  <2>5. QED BY <2>1, <2>2, <2>3, <2>4, EmptyIs
<1> HIDE DEF A, B, C
<1>7. IsSeq(A) /\ IsSeq(B) /\ Count(A) = 0 /\ Count(B) = 0
  BY <1>3, <1>4, CountFew
<1>8. IsSeq(A \o B) /\ Count(A \o B) = 0
  BY <1>7, Concat, CountConcat
<1>9. Count(C) = IF Meeting(CoreOf(c), consumers) = Cores THEN 1 ELSE 0
  <2>1. Meeting(CoreOf(c), consumers) # Cores => Count(C) = 0
    BY <1>2, <1>6, CountFew
  <2>2. Meeting(CoreOf(c), consumers) = Cores => Count(C) = 1
    BY <1>6, CountFew
  <2>3. QED BY <2>1, <2>2
<1> DEFINE F == A \o B
<1>10. IsSeq(F) /\ Count(F) = 0 /\ W = F \o C
  BY <1>1, <1>8
<1> HIDE DEF F
<1>11. Count(W) = Count(C)
  <2>1. Count(W) = 0 + Count(C)
    BY <1>6, <1>10, CountConcat
  <2>2. QED BY <1>9, <2>1
<1>12. Meeting(CoreOf(c), consumers) = Cores => Len(W) # 0 /\ W[Len(W)].op = "barrier"
  <2> SUFFICES ASSUME Meeting(CoreOf(c), consumers) = Cores PROVE Len(W) # 0 /\ W[Len(W)].op = "barrier"
    OBVIOUS
  <2>1. Len(C) = 1 /\ C[1].op = "barrier"
    BY <1>6
  <2>2. Len(F) \in Nat /\ Len(W) = Len(F) + Len(C) /\ \A i \in 1 .. Len(C) : W[Len(F) + i] = C[i]
    BY <1>6, <1>10, Concat, SeqFacts
  <2>3. QED BY <2>1, <2>2
<1>13. QED BY <1>9, <1>11, <1>12

(* Before one of its barriers a function is past t.                        *)
Met(L, t) == \E i \in 1 .. Len(L) : L[i].op = "barrier" /\ Past(L, i, t)

(* Instruction j of core k comes after such a barrier of t's core.         *)
Safe(ln, k, j, t) ==
  LET L == ln[CoreOf(t.comp)]
  IN \E i \in 1 .. Len(L) : L[i].op = "barrier" /\ Past(L, i, t) /\ Bars(L, i) < Bars(ln[k], j)

(* Every core's function holds as many barriers.                           *)
BarsAre(ln) == \A k, l \in Cores : Count(ln[k]) = Count(ln[l])

(* What a core met after stays met while its function goes on.             *)
LEMMA MetKept ==
  ASSUME NEW L, NEW M, Prefix(L, M), NEW t, Met(L, t)
  PROVE  Met(M, t)
<1>1. PICK i \in 1 .. Len(L) : L[i].op = "barrier" /\ Past(L, i, t)
  BY DEF Met
<1>2. Len(L) \in Nat /\ Len(M) \in Nat /\ Len(L) <= Len(M) /\ M[i] = L[i]
  BY SeqFacts DEF Prefix
<1>3. i \in 1 .. Len(L) + 1 /\ i \in 1 .. Len(M)
  BY <1>2
<1>4. Past(M, i, t)
  BY <1>1, <1>3, PastKept
<1>5. QED BY <1>1, <1>2, <1>3, <1>4 DEF Met

(* Past a barrier after which t is past: safe from there on.               *)
LEMMA MetIsSafe ==
  ASSUME DesignOK, NEW ln, BarsAre(ln), \A k \in Cores : IsSeq(ln[k]), NEW t, Met(ln[CoreOf(t.comp)], t), NEW k \in Cores
  PROVE  Safe(ln, k, Len(ln[k]) + 1, t)
<1> DEFINE L == ln[CoreOf(t.comp)]
<1>1. PICK i \in 1 .. Len(L) : L[i].op = "barrier" /\ Past(L, i, t)
  BY DEF Met
<1>2. CoreOf(t.comp) \in Cores
  BY CoresIs
<1>3. Len(L) \in Nat /\ i \in Nat /\ i # 0 /\ i + 1 \in Nat /\ i + 1 <= Len(L) + 1 /\ Len(L) + 1 \in Nat
  BY <1>2, SeqFacts
<1>4. Bars(L, i) \in Nat /\ Bars(L, i + 1) = Bars(L, i) + 1
  BY <1>1, <1>3, BarsAlong
<1>5. Bars(L, i + 1) <= Bars(L, Len(L) + 1) /\ Bars(L, Len(L) + 1) \in Nat /\ Bars(L, i + 1) \in Nat
  BY <1>3, BarsAlong
<1>6. Bars(L, Len(L) + 1) = Bars(ln[k], Len(ln[k]) + 1)
  BY <1>2 DEF BarsAre, Count
<1>7. Bars(L, i) < Bars(ln[k], Len(ln[k]) + 1)
  BY <1>4, <1>5, <1>6
<1>8. QED BY <1>1, <1>7 DEF Safe

(* Writing on does not make it unsafe, nor does going on.                  *)
LEMMA SafeKept ==
  ASSUME DesignOK, NEW ln, NEW M, \A k \in Cores : Prefix(ln[k], M[k]), NEW t, NEW k \in Cores,
         NEW j \in 1 .. Len(ln[k]) + 1, Safe(ln, k, j, t), NEW i \in Nat, j <= i
  PROVE  Safe(M, k, i, t)
<1> DEFINE L == ln[CoreOf(t.comp)]
           N == M[CoreOf(t.comp)]
<1>1. PICK q \in 1 .. Len(L) : L[q].op = "barrier" /\ Past(L, q, t) /\ Bars(L, q) < Bars(ln[k], j)
  BY DEF Safe
<1>2. CoreOf(t.comp) \in Cores
  BY CoresIs
<1>3. /\ Len(L) \in Nat /\ Len(N) \in Nat /\ Len(L) <= Len(N) /\ \A p \in 1 .. Len(L) : N[p] = L[p]
      /\ Prefix(L, N)
  BY <1>2, SeqFacts DEF Prefix
<1>4. Len(ln[k]) \in Nat /\ \A p \in 1 .. Len(ln[k]) : M[k][p] = ln[k][p]
  BY SeqFacts DEF Prefix
<1>5. q \in 1 .. Len(L) + 1 /\ q \in 1 .. Len(N) /\ q \in Nat /\ \A p \in 1 .. q - 1 : L[p].op = "barrier" <=> N[p].op = "barrier"
  BY <1>3
<1>6. Past(N, q, t)
  BY <1>1, <1>3, <1>5, PastKept
<1>7. Bars(L, q) = Bars(N, q)
  BY <1>5, BarsSame
<1>8. j \in Nat /\ \A p \in 1 .. j - 1 : ln[k][p].op = "barrier" <=> M[k][p].op = "barrier"
  BY <1>4
<1>9. Bars(ln[k], j) = Bars(M[k], j)
  BY <1>8, BarsSame
<1>10. Bars(M[k], j) <= Bars(M[k], i) /\ Bars(M[k], j) \in Nat /\ Bars(M[k], i) \in Nat /\ Bars(N, q) \in Nat
  BY <1>5, <1>8, BarsAlong
<1>11. N[q].op = "barrier"
  BY <1>1, <1>3
<1>12. Bars(N, q) < Bars(M[k], i)
  BY <1>1, <1>7, <1>9, <1>10
<1>13. QED BY <1>5, <1>6, <1>11, <1>12 DEF Safe

(* In a function that goes on from L around the code s, a place of s.      *)
LEMMA Within ==
  ASSUME NEW L, NEW P, NEW s, NEW Q, IsSeq(L), IsSeq(P), IsSeq(s), IsSeq(Q), NEW M, M = Then(L, Then(Then(P, s), Q))
  PROVE  /\ Prefix(L, M)
         /\ \E n \in Nat : /\ Len(L) <= n /\ n + Len(s) <= Len(M)
                           /\ \A p \in 1 .. Len(s) : M[n + p] = s[p]
<1> DEFINE D == Then(P, s)
           E == Then(D, Q)
<1>1. IsSeq(D) /\ Len(D) = Len(P) + Len(s) /\ \A p \in 1 .. Len(s) : D[Len(P) + p] = s[p]
  BY Concat DEF Then
<1>2. Len(L) \in Nat /\ Len(P) \in Nat /\ Len(s) \in Nat /\ Len(Q) \in Nat
  BY SeqFacts
<1> HIDE DEF D
<1>3. IsSeq(E) /\ Len(E) = Len(D) + Len(Q) /\ \A p \in 1 .. Len(D) : E[p] = D[p]
  BY <1>1, Concat DEF Then
<1>4. M = L \o E
  BY DEF D, Then
<1> HIDE DEF E
<1>5. Len(M) = Len(L) + Len(E) /\ \A p \in 1 .. Len(E) : M[Len(L) + p] = E[p]
  <2>1. IsSeq(L) /\ IsSeq(E)
    BY <1>3
  <2>2. /\ Len(L \o E) = Len(L) + Len(E)
        /\ \A p \in 1 .. Len(E) : (L \o E)[Len(L) + p] = E[p]
    BY <2>1, Concat
  <2>3. QED BY <1>4, <2>2, Zenon
<1>6. ASSUME NEW p \in 1 .. Len(s) PROVE M[(Len(L) + Len(P)) + p] = s[p]
  <2>1. Len(P) + p \in 1 .. Len(D) /\ Len(P) + p \in 1 .. Len(E)
    BY <1>1, <1>2, <1>3
  <2>2. M[Len(L) + (Len(P) + p)] = E[Len(P) + p] /\ E[Len(P) + p] = D[Len(P) + p] /\ D[Len(P) + p] = s[p]
    BY <1>1, <1>3, <1>5, <2>1
  <2>3. Len(L) + (Len(P) + p) = (Len(L) + Len(P)) + p
    BY <1>2
  <2>4. QED BY <2>2, <2>3
<1>7. Prefix(L, M)
  BY <1>3, <1>4, PrefixConcat
<1>8. Len(L) + Len(P) \in Nat /\ Len(L) <= Len(L) + Len(P) /\ (Len(L) + Len(P)) + Len(s) <= Len(M)
  BY <1>1, <1>2, <1>3, <1>5
<1>9. QED BY <1>6, <1>7, <1>8

(* Waits leave every core as many barriers, and a task whose wait the      *)
(* cores meet after is past before a barrier.                              *)
LEMMA WaitsMeet ==
  ASSUME ListOK, ProgramIs(lines, covered, waited), BarsAre(lines),
         NEW cs, IsSeq(cs), \A i \in 1 .. Len(cs) : cs[i] \in Components, NEW consumers, NEW M,
         M = WaitAll(cs, consumers).lines
  PROVE  /\ BarsAre(M)
         /\ \A i \in 1 .. Len(cs) : Meeting(CoreOf(cs[i]), consumers) = Cores =>
              \A t \in Started : t.comp \in Covers(cs[i]) => Met(M[CoreOf(t.comp)], t)
<1> DEFINE all(n) == On(UNION {Covers(cs[i]) : i \in 1 .. n})
           ended_(i) == all(i) \ (waited \cup all(i - 1))
           code(k) == [i \in DOMAIN cs |-> WaitCode(k, cs[i], ended_(i), consumers)]
<1>0. DesignOK /\ \A c : CoreOf(c) \in Cores
  BY CoresIs DEF ListOK
<1>1. M = [k \in Cores |-> lines[k] \o FlattenSeq(code(k))]
  BY DEF WaitAll
<1>2. Len(cs) \in Nat /\ DOMAIN cs = 1 .. Len(cs)
  BY SeqFacts
<1>3. \A i : ended_(i) \subseteq Started
  BY DEF On
<1> HIDE DEF ended_
<1>4. ASSUME NEW k \in Cores
      PROVE  /\ IsSeq(code(k)) /\ Len(code(k)) = Len(cs)
             /\ \A i \in 1 .. Len(cs) :
                  /\ code(k)[i] = WaitCode(k, cs[i], ended_(i), consumers)
                  /\ IsSeq(code(k)[i])
                  /\ k = CoreOf(cs[i]) => \A x \in Covers(cs[i]) : \E o \in 1 .. Len(code(k)[i]) : Polls(code(k)[i][o], x)
  <2> DEFINE s == code(k)
  <2>1. s = [i \in 1 .. Len(cs) |-> s[i]] /\ \A i \in 1 .. Len(cs) : s[i] = WaitCode(k, cs[i], ended_(i), consumers)
    BY <1>2
  <2> HIDE DEF s
  <2>2. IsSeq(s) /\ Len(s) = Len(cs)
    BY <1>2, <2>1, OfLength
  <2>3. ASSUME NEW i \in 1 .. Len(cs)
        PROVE  /\ Waiting(s[i])
               /\ k = CoreOf(cs[i]) => \A x \in Covers(cs[i]) : \E o \in 1 .. Len(s[i]) : Polls(s[i][o], x)
    <3> DEFINE e == ended_(i)
    <3>1. e \subseteq Started /\ cs[i] \in Components /\ s[i] = WaitCode(k, cs[i], e, consumers)
      BY <1>3, <2>1
    <3> HIDE DEF e
    <3>2. /\ Waiting(WaitCode(k, cs[i], e, consumers))
          /\ k = CoreOf(cs[i]) => \A x \in Covers(cs[i]) : \E o \in 1 .. Len(WaitCode(k, cs[i], e, consumers)) :
                                    Polls(WaitCode(k, cs[i], e, consumers)[o], x)
      BY <3>1, WaitCodeIs
    <3>3. QED BY <3>1, <3>2
  <2>4. QED BY <2>1, <2>2, <2>3 DEF s, Waiting
<1> HIDE DEF code
<1>5. ASSUME NEW k \in Cores, NEW i \in 1 .. Len(cs)
      PROVE  /\ Count(code(k)[i]) = IF Meeting(CoreOf(cs[i]), consumers) = Cores THEN 1 ELSE 0
             /\ Meeting(CoreOf(cs[i]), consumers) = Cores => Len(code(k)[i]) # 0 /\ code(k)[i][Len(code(k)[i])].op = "barrier"
  <2>1. code(k)[i] = WaitCode(k, cs[i], ended_(i), consumers) /\ cs[i] \in Components /\ ended_(i) \subseteq Started
    BY <1>3, <1>4
  <2>2. QED BY <2>1, WaitCodeBars
<1>6. \A k \in Cores : IsSeq(lines[k])
  BY DEF ProgramIs, ProgramOn, LinesAre
<1>7. ASSUME NEW k \in Cores, NEW l \in Cores PROVE Count(M[k]) = Count(M[l])
  <2>1. Count(FlattenSeq(code(k))) = Count(FlattenSeq(code(l)))
    <3>1. \A i \in 1 .. Len(code(k)) : IsSeq(code(k)[i]) /\ IsSeq(code(l)[i]) /\ Count(code(k)[i]) = Count(code(l)[i])
      BY <1>4, <1>5
    <3>2. IsSeq(code(k)) /\ IsSeq(code(l)) /\ Len(code(l)) = Len(code(k))
      BY <1>4
    <3>3. QED BY <3>1, <3>2, FlattenCount
  <2>2. IsSeq(FlattenSeq(code(k))) /\ IsSeq(FlattenSeq(code(l)))
    BY <1>4, FlattenIs
  <2>3. Count(lines[k]) = Count(lines[l])
    BY DEF BarsAre
  <2>4. M[k] = lines[k] \o FlattenSeq(code(k)) /\ M[l] = lines[l] \o FlattenSeq(code(l))
    BY <1>1
  <2>5. Count(M[k]) = Count(lines[k]) + Count(FlattenSeq(code(k)))
    BY <1>6, <2>2, <2>4, CountConcat
  <2>6. Count(M[l]) = Count(lines[l]) + Count(FlattenSeq(code(l)))
    BY <1>6, <2>2, <2>4, CountConcat
  <2>7. QED BY <2>1, <2>3, <2>5, <2>6
<1>8. ASSUME NEW i \in 1 .. Len(cs), Meeting(CoreOf(cs[i]), consumers) = Cores, NEW t \in Started, t.comp \in Covers(cs[i])
      PROVE  Met(M[CoreOf(t.comp)], t)
  <2> DEFINE k == CoreOf(t.comp)
             L == lines[k]
             N == M[k]
             s == code(k)[i]
  <2>1. k \in Cores /\ k = CoreOf(cs[i])
    BY <1>0, <1>8, PollIs
  <2>2. PICK g \in 1 .. Len(L) : Goes(L, g, t)
    BY DEF ProgramIs, ProgramOn, GoneAre
  <2>3. PICK P, Q : IsSeq(P) /\ IsSeq(Q) /\ FlattenSeq(code(k)) = Then(Then(P, s), Q)
    <3>1. IsSeq(code(k)) /\ i \in 1 .. Len(code(k)) /\ \A j \in 1 .. Len(code(k)) : IsSeq(code(k)[j])
      BY <1>4, <2>1
    <3>2. QED BY <3>1, FlattenSplit
  <2>4. IsSeq(s) /\ IsSeq(L) /\ N = L \o Then(Then(P, s), Q)
    BY <1>1, <1>4, <1>6, <2>1, <2>3
  <2>5. PICK o \in 1 .. Len(s) : Polls(s[o], t.comp)
    BY <1>4, <1>8, <2>1
  <2>6. Len(s) # 0 /\ s[Len(s)].op = "barrier"
    BY <1>5, <1>8, <2>1
  <2> HIDE DEF L, N, s
  <2>7. Prefix(L, N) /\ \E n \in Nat : /\ Len(L) <= n /\ n + Len(s) <= Len(N)
                                       /\ \A p \in 1 .. Len(s) : N[n + p] = s[p]
    <3>1. IsSeq(L) /\ IsSeq(P) /\ IsSeq(s) /\ IsSeq(Q)
      BY <2>3, <2>4
    <3>2. N = Then(L, Then(Then(P, s), Q))
      BY <2>4, Zenon DEF Then
    <3>3. QED BY <3>1, <3>2, Within, SMTT(30)
  <2>8. PICK n \in Nat : Len(L) <= n /\ n + Len(s) <= Len(N) /\ \A p \in 1 .. Len(s) : N[n + p] = s[p]
    BY <2>7
  <2>9. Len(s) \in Nat /\ Len(L) \in Nat /\ Len(N) \in Nat
    BY <2>4, <2>7, SeqFacts DEF Prefix
  <2>10. o # Len(s)
    BY <2>5, <2>6 DEF Polls
  <2>11. /\ n + o \in Len(L) + 1 .. Len(N) /\ N[n + o] = s[o]
         /\ n + Len(s) \in 1 .. Len(N) /\ N[n + Len(s)] = s[Len(s)]
         /\ n + Len(s) \in (n + o) + 1 .. Len(N) + 1
    BY <2>6, <2>8, <2>9, <2>10
  <2>12. Past(N, n + Len(s), t)
    BY <2>2, <2>5, <2>7, <2>11, PastNext
  <2>13. Met(N, t)
    BY <2>6, <2>11, <2>12 DEF Met
  <2>14. QED BY <2>13 DEF N
<1>9. QED BY <1>7, <1>8 DEF BarsAre

(* The DMA is another core's than the accelerators.                        *)
TwoCores == design.dma # SlotCore

(* A task comes after a barrier past those of other cores it is after.     *)
AcrossAre(ln, st, cf) ==
  \A k \in Cores : \A j \in 1 .. Len(ln[k]) : \A t \in st : Goes(ln[k], j, t) =>
    \A a \in cf[t] : a.idle \/ CoreOf(a.comp) = k \/ Safe(ln, k, j, a)

(* A transfer waited for is past before a barrier.                         *)
TransfersMet(ln, wtd) == \A t \in wtd : IsDma(t.comp) => Met(ln[design.dma], t)

(* What a transfer yet to start is after: a mover, and once a wait covered *)
(* it, past before a barrier.                                              *)
OwedMet(ln, cov, a) == ~IsDma(a.comp) /\ (a \in cov => a.idle \/ Met(ln[SlotCore], a))

(* A task of a core launches after the other core's it is after.           *)
LEMMA AcrossGrows ==
  ASSUME DesignOK, NEW ln, NEW st, NEW cf, LinesAre(ln), LaunchesAre(ln, st), AcrossAre(ln, st, cf),
         NEW M, \A k \in Cores : Prefix(ln[k], M[k]),
         NEW st2, NEW cf2, \A t \in st : cf2[t] = cf[t],
         \A k \in Cores : \A j \in Len(ln[k]) + 1 .. Len(M[k]) : \A t \in st2 : Goes(M[k], j, t) =>
           \A a \in cf2[t] : a.idle \/ CoreOf(a.comp) = k \/ Safe(M, k, j, a)
  PROVE  AcrossAre(M, st2, cf2)
<1> SUFFICES ASSUME NEW k \in Cores, NEW j \in 1 .. Len(M[k]), NEW t \in st2, Goes(M[k], j, t), NEW a \in cf2[t]
             PROVE  a.idle \/ CoreOf(a.comp) = k \/ Safe(M, k, j, a)
  BY DEF AcrossAre
<1>1. Len(ln[k]) \in Nat /\ Len(M[k]) \in Nat /\ Prefix(ln[k], M[k])
  BY SeqFacts DEF Prefix
<1>2. CASE j \in 1 .. Len(ln[k])
  <2>1. Goes(ln[k], j, t)
    BY <1>1, <1>2, GoesKept
  <2>2. t \in st
    BY <1>2, <2>1, GoesStarted
  <2>3. a \in cf[t]
    BY <2>2
  <2>4. a.idle \/ CoreOf(a.comp) = k \/ Safe(ln, k, j, a)
    BY <1>2, <2>1, <2>2, <2>3 DEF AcrossAre
  <2>5. ASSUME Safe(ln, k, j, a) PROVE Safe(M, k, j, a)
    <3>1. j \in 1 .. Len(ln[k]) + 1 /\ j \in Nat /\ j <= j
      BY <1>1, <1>2
    <3>2. QED BY <2>5, <3>1, SafeKept
  <2>6. QED BY <2>4, <2>5
<1>3. CASE j \notin 1 .. Len(ln[k])
  <2>1. j \in Len(ln[k]) + 1 .. Len(M[k])
    BY <1>1, <1>3
  <2>2. QED BY <2>1
<1>4. QED BY <1>2, <1>3

(* Functions that go on without a barrier.                                 *)
LEMMA BarsGrow ==
  ASSUME NEW ln, BarsAre(ln), NEW M, \A k \in Cores : Prefix(ln[k], M[k]),
         \A k \in Cores : \A j \in Len(ln[k]) + 1 .. Len(M[k]) : M[k][j].op # "barrier"
  PROVE  BarsAre(M)
<1>1. ASSUME NEW k \in Cores PROVE Count(M[k]) = Count(ln[k])
  <2> DEFINE L == ln[k]
             N == M[k]
  <2>1. /\ Len(L) \in Nat /\ Len(N) \in Nat /\ Len(L) <= Len(N) /\ \A i \in 1 .. Len(L) : N[i] = L[i]
        /\ \A j \in Len(L) + 1 .. Len(N) : N[j].op # "barrier"
    BY SeqFacts DEF Prefix
  <2> HIDE DEF L, N
  <2>2. Len(L) + 1 \in Nat /\ Len(N) + 1 \in Nat /\ Len(L) + 1 <= Len(N) + 1
        /\ (\A i \in 1 .. (Len(L) + 1) - 1 : N[i].op = "barrier" <=> L[i].op = "barrier")
        /\ \A q \in Len(L) + 1 .. (Len(N) + 1) - 1 : N[q].op # "barrier"
    BY <2>1
  <2>3. Bars(N, Len(L) + 1) = Bars(L, Len(L) + 1)
    BY <2>2, BarsSame
  <2>4. Bars(N, Len(L) + 1) = Bars(N, Len(N) + 1)
    BY <2>2, BarsNone
  <2>5. QED BY <2>3, <2>4 DEF Count, L, N
<1>2. QED BY <1>1 DEF BarsAre

(* Between two cores the wait for one meets the other.                     *)
LEMMA MeetingIs ==
  ASSUME DesignOK, TwoCores
  PROVE  /\ Meeting(SlotCore, {design.dma}) = Cores /\ Meeting(design.dma, {SlotCore}) = Cores
         /\ \A c : Meeting(CoreOf(c), Cores) = Cores
  BY CoresIs DEF Meeting, TwoCores

(* What is covered is, but for transfers, on the accelerators' core.       *)
LEMMA CoveredCore ==
  ASSUME DesignOK, TwoCores, NEW c \in Components, NEW x \in Covers(c)
  PROVE  IsDma(x) <=> IsDma(c)
<1>1. CoreOf(x) = CoreOf(c)
  BY PollIs
<1>2. QED BY <1>1 DEF CoreOf, TwoCores

(* An `after' task of a start that is no transfer is covered, or a wait of *)
(* the start covers it.                                                    *)
LEMMA AfterCovered ==
  ASSUME ListOK, LatestAre(covered), NEW ts, \A t \in ToSet(ts) : conf[t] \subseteq Started,
         NEW t \in ToSet(ts), NEW a \in conf[t], ~IsDma(a.comp)
  PROVE  a.idle \/ a \in covered \/ \E e \in Chosen(ts) : a.comp \in Covers(e)
<1> SUFFICES ASSUME ~IsCovered(a) PROVE \E e \in Chosen(ts) : a.comp \in Covers(e)
  BY DEF IsCovered
<1>1. a \in Started
  OBVIOUS
<1>2. \A v \in Started : v.comp = a.comp => Place(v) <= Place(a)
  BY <1>1 DEF LatestAre, IsCovered
<1>3. /\ a.comp \in Used /\ Latest(a.comp) \in Started /\ Latest(a.comp).comp = a.comp
      /\ Place(a) <= Place(Latest(a.comp))
  BY <1>1, UsedIf, LatestIs
<1>4. Place(a) = Place(Latest(a.comp))
  BY <1>1, <1>2, <1>3, PlaceIs
<1>5. a = Latest(a.comp)
  BY <1>1, <1>3, <1>4, PlaceOnce
<1>6. a.comp \in Need(ts)
  BY DEF Need
<1>7. \A c \in Need(ts) : ~IsCovered(Latest(c)) => \E e \in Chosen(ts) : c \in Covers(e)
  BY ChosenIs
<1>8. QED BY <1>5, <1>6, <1>7

(* The waits of a start wait for the DMA only for an `after' transfer, and *)
(* for every other component chosen.                                       *)
LEMMA WaitsOfDma ==
  ASSUME ListOK, NEW ts, \A t \in ToSet(ts) : conf[t] \subseteq Started,
         \A t \in ToSet(ts) : \A a \in conf[t] : ~IsDma(a.comp)
  PROVE  \A i \in 1 .. Len(WaitsOf(ts)) : ~IsDma(WaitsOf(ts)[i])
<1>1. WaitsOf(ts) = InStart(Chosen(ts) \ {DMA})
  <2>1. (Chosen(ts) \ {DMA}) \cup {} = Chosen(ts) \ {DMA}
    OBVIOUS
  <2>2. QED BY <2>1 DEF WaitsOf
<1>2. Chosen(ts) \ {DMA} \subseteq Used
  BY ChosenIs, NeedUsed
<1>3. \A i \in 1 .. Len(WaitsOf(ts)) : WaitsOf(ts)[i] \in Chosen(ts) \ {DMA}
  BY <1>1, <1>2, InStartIs
<1>4. QED BY <1>3 DEF IsDma

(* A start's tasks are transfers, each after movers the cores met after or *)
(* that are not covered, or none is.                                       *)
Sided(ts) ==
  \/ \A t \in ToSet(ts) : IsDma(t.comp) /\ \A a \in conf[t] : OwedMet(lines, covered, a)
  \/ \A t \in ToSet(ts) : ~IsDma(t.comp)

(* The waits of a start meet the other core for what it is after there.    *)
LEMMA StartMeets ==
  ASSUME ListOK, ProgramIs(lines, covered, waited), TwoCores, BarsAre(lines), TransfersMet(lines, waited),
         NEW ts, ToSet(ts) # {}, \A t \in ToSet(ts) : conf[t] \subseteq Started, Sided(ts), NEW N, N = Waits(ts).lines
  PROVE  /\ \A k \in Cores : Prefix(lines[k], N[k])
         /\ BarsAre(N) /\ TransfersMet(N, Waits(ts).waited)
         /\ \A t \in ToSet(ts) : \A a \in conf[t] :
              a.idle \/ CoreOf(a.comp) = CoreOf(t.comp) \/ Met(N[CoreOf(a.comp)], a)
         /\ (\A t \in ToSet(ts) : IsDma(t.comp)) =>
              \A a \in CoveredBy(ts) : IsDma(a.comp) \/ a \in covered \/ Met(N[SlotCore], a)
<1> DEFINE cs == WaitsOf(ts)
           C == {CoreOf(t.comp) : t \in ToSet(ts)}
           wtd == Waits(ts).waited
<1>0. DesignOK /\ SlotCore \in Cores /\ design.dma \in Cores /\ LatestAre(covered)
  BY CoresIs DEF ListOK, ProgramIs
<1>1. /\ IsSeq(cs) /\ \A i \in 1 .. Len(cs) : cs[i] \in Components
      /\ \A c \in Chosen(ts) : c # DMA => \E i \in 1 .. Len(cs) : cs[i] = c
      /\ (\E t \in ToSet(ts) : \E a \in conf[t] : IsDma(a.comp) /\ a \notin waited) => \E i \in 1 .. Len(cs) : cs[i] = DMA
  BY WaitsOfIs
<1>2. /\ \A k \in Cores : Prefix(lines[k], N[k])
      /\ wtd = waited \cup OnOf(cs)
  BY StartReady DEF Waited
<1>3. /\ BarsAre(N)
      /\ \A i \in 1 .. Len(cs) : Meeting(CoreOf(cs[i]), C) = Cores =>
           \A t \in Started : t.comp \in Covers(cs[i]) => Met(N[CoreOf(t.comp)], t)
  <2>1. N = WaitAll(cs, C).lines
    BY DEF Waits
  <2> HIDE DEF cs, C
  <2>2. QED BY <1>1, <2>1, WaitsMeet
<1>4. \A c : CoreOf(c) = IF IsDma(c) THEN design.dma ELSE SlotCore
  BY DEF CoreOf
<1>5. Chosen(ts) \subseteq Components
  <2>1. Chosen(ts) \subseteq Used
    BY ChosenIs, NeedUsed
  <2>2. QED BY <2>1, LatestIs
<1>6. \A t \in wtd \ waited : t \in Started /\ \E i \in 1 .. Len(cs) : t.comp \in Covers(cs[i])
  BY <1>2 DEF OnOf, On
<1>7. ASSUME NEW t, t \in waited, IsDma(t.comp) PROVE Met(N[design.dma], t)
  BY <1>0, <1>2, <1>7, MetKept DEF TransfersMet
<1>8. DMA \in Covers(DMA) /\ IsDma(DMA)
  BY <1>0, DmaIs, CoversIs
<1> HIDE DEF wtd
<1>9. CASE \A t \in ToSet(ts) : IsDma(t.comp) /\ \A a \in conf[t] : OwedMet(lines, covered, a)
  <2>1. C = {design.dma}
    BY <1>4, <1>9
  <2>2. \A i \in 1 .. Len(cs) : ~IsDma(cs[i])
    BY <1>9, WaitsOfDma DEF OwedMet
  <2> HIDE DEF cs, C
  <2>3. \A i \in 1 .. Len(cs) : \A t \in Started : t.comp \in Covers(cs[i]) => Met(N[CoreOf(t.comp)], t)
    BY <1>0, <1>3, <1>4, <2>1, <2>2, MeetingIs
  <2>4. ASSUME NEW e \in Chosen(ts), NEW a \in Started, a.comp \in Covers(e), ~IsDma(a.comp) PROVE Met(N[SlotCore], a)
    <3>1. e # DMA
      BY <1>0, <1>5, <1>8, <2>4, CoveredCore DEF IsDma
    <3>2. PICK i \in 1 .. Len(cs) : cs[i] = e
      BY <1>1, <3>1
    <3>3. QED BY <1>4, <2>3, <2>4, <3>2
  <2>5. ASSUME NEW t \in ToSet(ts), NEW a \in conf[t]
        PROVE  a.idle \/ CoreOf(a.comp) = CoreOf(t.comp) \/ Met(N[CoreOf(a.comp)], a)
    <3>1. ~IsDma(a.comp) /\ (a \in covered => a.idle \/ Met(lines[SlotCore], a)) /\ a \in Started
      BY <1>9 DEF OwedMet
    <3>2. a.idle \/ a \in covered \/ \E e \in Chosen(ts) : a.comp \in Covers(e)
      BY <1>0, <3>1, AfterCovered
    <3>3. Met(lines[SlotCore], a) => Met(N[SlotCore], a)
      BY <1>0, <1>2, MetKept
    <3>4. QED BY <1>4, <2>4, <3>1, <3>2, <3>3
  <2>6. ASSUME NEW t \in wtd, IsDma(t.comp) PROVE Met(N[design.dma], t)
    <3>1. t \notin waited => \E i \in 1 .. Len(cs) : t.comp \in Covers(cs[i])
      BY <1>6
    <3>2. t \in waited
      BY <1>0, <1>1, <2>2, <2>6, <3>1, CoveredCore
    <3>3. QED BY <1>7, <2>6, <3>2
  <2>7. ASSUME NEW a \in CoveredBy(ts), ~IsDma(a.comp), a \notin covered PROVE Met(N[SlotCore], a)
    <3>1. a \in Started /\ \E e \in Chosen(ts) : a.comp \in Covers(e)
      BY <2>7 DEF CoveredBy, On
    <3>2. QED BY <2>4, <2>7, <3>1
  <2>8. QED BY <1>2, <1>3, <2>5, <2>6, <2>7 DEF TransfersMet, wtd
<1>10. CASE \A t \in ToSet(ts) : ~IsDma(t.comp)
  <2>1. C = {SlotCore}
    BY <1>4, <1>10
  <2> HIDE DEF cs, C
  <2>2. \A i \in 1 .. Len(cs) : IsDma(cs[i]) =>
          \A t \in Started : t.comp \in Covers(cs[i]) => Met(N[CoreOf(t.comp)], t)
    BY <1>0, <1>3, <1>4, <2>1, MeetingIs
  <2>3. ASSUME NEW t \in ToSet(ts), NEW a \in conf[t]
        PROVE  a.idle \/ CoreOf(a.comp) = CoreOf(t.comp) \/ Met(N[CoreOf(a.comp)], a)
    <3>1. CASE ~IsDma(a.comp)
      BY <1>4, <1>10, <3>1
    <3>2. CASE IsDma(a.comp) /\ a \in waited
      BY <1>4, <1>7, <3>2
    <3>3. CASE IsDma(a.comp) /\ a \notin waited
      <4>1. PICK i \in 1 .. Len(cs) : cs[i] = DMA
        BY <1>1, <3>3
      <4>2. a \in Started /\ a.comp \in Covers(cs[i]) /\ IsDma(cs[i])
        BY <1>8, <3>3, <4>1 DEF IsDma
      <4>3. QED BY <2>2, <4>2
    <3>4. QED BY <3>1, <3>2, <3>3
  <2>4. ASSUME NEW t \in wtd, IsDma(t.comp) PROVE Met(N[design.dma], t)
    <3>1. CASE t \in waited
      BY <1>7, <2>4, <3>1
    <3>2. CASE t \notin waited
      <4>1. t \in Started /\ \E i \in 1 .. Len(cs) : t.comp \in Covers(cs[i])
        BY <1>6, <3>2
      <4>2. PICK i \in 1 .. Len(cs) : t.comp \in Covers(cs[i])
        BY <4>1
      <4>3. IsDma(cs[i])
        BY <1>0, <1>1, <2>4, <4>2, CoveredCore
      <4>4. Met(N[CoreOf(t.comp)], t)
        BY <2>2, <4>1, <4>2, <4>3
      <4>5. QED BY <1>4, <2>4, <4>4
    <3>3. QED BY <3>1, <3>2
  <2>5. ~(\A t \in ToSet(ts) : IsDma(t.comp))
    BY <1>10
  <2>6. QED BY <1>2, <1>3, <2>3, <2>4, <2>5 DEF TransfersMet, wtd
<1>11. QED BY <1>9, <1>10 DEF Sided

(* What the two cores' functions keep of each other.                       *)
Crossed(ln, st, cf, wtd) == BarsAre(ln) /\ AcrossAre(ln, st, cf) /\ TransfersMet(ln, wtd)

(* ... through a start ...                                                 *)
LEMMA StartCrossed ==
  ASSUME ListOK, ProgramIs(lines, covered, waited), TwoCores, Crossed(lines, Started, conf, waited),
         NEW ts, IsSeq(ts), LegalStart(ts), ~Partial(ts), Sided(ts), NEW M, M = StartAll(Waits(ts).lines, ts)
  PROVE  /\ \A k \in Cores : Prefix(lines[k], M[k])
         /\ Crossed(M, Started \cup ToSet(ts), conf, Waits(ts).waited)
         /\ (\A t \in ToSet(ts) : IsDma(t.comp)) =>
              \A a \in CoveredBy(ts) : IsDma(a.comp) \/ a \in covered \/ Met(M[SlotCore], a)
<1> DEFINE N == Waits(ts).lines
           wtd == Waits(ts).waited
<1>0. DesignOK /\ SlotCore \in Cores /\ design.dma \in Cores
  BY CoresIs DEF ListOK
<1>1. Startable(ts) /\ \A t \in ToSet(ts) : conf[t] \subseteq Started
  BY DEF LegalStart, Startable
<1>2. ToSet(ts) # {}
  <2>1. Len(ts) # 0
    BY DEF LegalStart, IsSeq
  <2>2. 1 \in 1 .. Len(ts) /\ \A i \in 1 .. Len(ts) : ts[i] \in ToSet(ts)
    BY <2>1, SeqFacts
  <2>3. QED BY <2>2
<1>3. /\ ProgramIs(N, CoveredBy(ts), wtd) /\ \A k \in Cores : IsSeq(N[k])
      /\ LinesAre(N) /\ LaunchesAre(N, Started)
      /\ \A k \in Cores : \A j \in Len(lines[k]) + 1 .. Len(N[k]) : N[k][j].op \in WaitOps
  BY <1>1, StartReady DEF ProgramIs, ProgramOn, LinesAre, Waited
<1>4. /\ \A k \in Cores : Prefix(lines[k], N[k])
      /\ BarsAre(N) /\ TransfersMet(N, wtd)
      /\ \A t \in ToSet(ts) : \A a \in conf[t] :
           a.idle \/ CoreOf(a.comp) = CoreOf(t.comp) \/ Met(N[CoreOf(a.comp)], a)
      /\ (\A t \in ToSet(ts) : IsDma(t.comp)) =>
           \A a \in CoveredBy(ts) : IsDma(a.comp) \/ a \in covered \/ Met(N[SlotCore], a)
  BY <1>1, <1>2, StartMeets DEF Crossed
<1> HIDE DEF N, wtd
<1>5. Grown(N, M, ts)
  <2>1. M = StartAll(N, ts)
    BY DEF N
  <2>2. QED BY <1>1, <1>3, <2>1, StartGrows
<1>6. \A k \in Cores : Prefix(N[k], M[k]) /\ \A j \in Len(N[k]) + 1 .. Len(M[k]) : M[k][j].op # "barrier"
  BY <1>5 DEF Grown
<1>7. AcrossAre(N, Started, conf)
  <2>1. LinesAre(lines) /\ LaunchesAre(lines, Started) /\ AcrossAre(lines, Started, conf)
    BY DEF ProgramIs, ProgramOn, Crossed
  <2>2. ASSUME NEW k \in Cores, NEW j \in Len(lines[k]) + 1 .. Len(N[k]), NEW t \in Started, Goes(N[k], j, t) PROVE FALSE
    BY <1>3, <2>2, WaitTouches DEF Goes
  <2>3. QED BY <1>0, <1>4, <2>1, <2>2, AcrossGrows
<1>8. BarsAre(M)
  BY <1>4, <1>6, BarsGrow
<1>9. TransfersMet(M, wtd)
  BY <1>0, <1>4, <1>6, MetKept DEF TransfersMet
<1>10. AcrossAre(M, Started \cup ToSet(ts), conf)
  <2>1. ASSUME NEW k \in Cores, NEW j \in Len(N[k]) + 1 .. Len(M[k]), NEW t \in Started \cup ToSet(ts), Goes(M[k], j, t),
               NEW a \in conf[t], ~a.idle, CoreOf(a.comp) # k
        PROVE  Safe(M, k, j, a)
    <3>1. Launches(M[k][j], t.comp)
      BY <2>1 DEF Goes
    <3>2. PICK u \in ToSet(ts) : u.comp = t.comp /\ CoreOf(t.comp) = k
      <4>1. \A c : Launches(M[k][j], c) => \E x \in ToSet(ts) : x.comp = c /\ CoreOf(c) = k /\ (IsDma(c) => M[k][j] = Instr("dma", x))
        BY <1>5, <2>1, SMTT(30) DEF Grown
      <4>2. QED BY <3>1, <4>1
    <3>3. PendingAre(N, Pending)
      BY <1>3 DEF ProgramIs, ProgramOn, Pending, Configured
    <3>4. Goes(M[k], j, u)
      BY <1>1, <1>5, <2>1, <3>1, <3>2, <3>3, GrownGoes
    <3>5. Len(N[k]) \in Nat /\ Len(M[k]) \in Nat /\ IsSeq(N[k])
      BY <1>3, <1>6, SeqFacts DEF Prefix
    <3>6. j \in Nat /\ Len(N[k]) + 1 <= j /\ Len(N[k]) + 1 \in 1 .. Len(N[k]) + 1
      BY <2>1, <3>5
    <3>7. t = u
      BY <2>1, <3>2, <3>4, <3>6, GoesSame
    <3>8. Met(N[CoreOf(a.comp)], a)
      BY <1>4, <2>1, <3>2, <3>7
    <3>9. Safe(N, k, Len(N[k]) + 1, a)
      BY <1>0, <1>3, <1>4, <2>1, <3>8, MetIsSafe
    <3>10. QED BY <1>0, <1>6, <2>1, <3>6, <3>9, SafeKept
  <2>2. QED BY <1>0, <1>3, <1>6, <1>7, <2>1, AcrossGrows
<1>11. \A k \in Cores : Prefix(lines[k], M[k])
  BY <1>4, <1>6, PrefixTrans
<1>12. (\A t \in ToSet(ts) : IsDma(t.comp)) =>
         \A a \in CoveredBy(ts) : IsDma(a.comp) \/ a \in covered \/ Met(M[SlotCore], a)
  BY <1>0, <1>4, <1>6, MetKept
<1>13. QED BY <1>8, <1>9, <1>10, <1>11, <1>12 DEF Crossed, wtd

(* ... a sync ...                                                          *)
LEMMA SyncCrossed ==
  ASSUME ListOK, ProgramIs(lines, covered, waited), TwoCores, Crossed(lines, Started, conf, waited),
         NEW t, t \in Started, NEW M, M = WaitAll(<<t.comp>>, Cores).lines
  PROVE  /\ \A k \in Cores : Prefix(lines[k], M[k])
         /\ Crossed(M, Started, conf, WaitAll(<<t.comp>>, Cores).waited)
         /\ \A a \in Started : a.comp \in Covers(t.comp) => Met(M[CoreOf(a.comp)], a)
<1> DEFINE cs == <<t.comp>>
           wtd == WaitAll(cs, Cores).waited
<1>0. DesignOK /\ SlotCore \in Cores /\ design.dma \in Cores /\ t.comp \in Components
  BY CoresIs DEF ListOK
<1>1. IsSeq(cs) /\ Len(cs) = 1 /\ cs[1] = t.comp
  BY Single
<1> HIDE DEF cs
<1>2. (\A i \in 1 .. Len(cs) : cs[i] \in Components) /\ 1 \in 1 .. Len(cs)
  BY <1>0, <1>1
<1>3. M = WaitAll(cs, Cores).lines
  BY DEF cs
<1>4. Waited(lines, M) /\ wtd = waited \cup OnOf(cs)
  <2>1. LET P == WaitAll(cs, Cores)
        IN Waited(lines, P.lines) /\ P.waited = waited \cup OnOf(cs)
    BY <1>1, <1>2, AfterWaits
  <2>2. QED BY <1>3, <2>1
<1>5. BarsAre(M) /\ \A a \in Started : a.comp \in Covers(t.comp) => Met(M[CoreOf(a.comp)], a)
  <2>1. BarsAre(lines)
    BY DEF Crossed
  <2>2. /\ BarsAre(M)
        /\ \A i \in 1 .. Len(cs) : Meeting(CoreOf(cs[i]), Cores) = Cores =>
             \A a \in Started : a.comp \in Covers(cs[i]) => Met(M[CoreOf(a.comp)], a)
    BY <1>1, <1>2, <1>3, <2>1, WaitsMeet
  <2>3. Meeting(CoreOf(cs[1]), Cores) = Cores
    BY <1>0, MeetingIs
  <2>4. QED BY <1>1, <1>2, <2>2, <2>3
<1> HIDE DEF wtd
<1>6. \A k \in Cores : Prefix(lines[k], M[k]) /\ \A j \in Len(lines[k]) + 1 .. Len(M[k]) : M[k][j].op \in WaitOps
  BY <1>4 DEF Waited
<1>7. AcrossAre(M, Started, conf)
  <2>1. LinesAre(lines) /\ LaunchesAre(lines, Started) /\ AcrossAre(lines, Started, conf)
    BY DEF ProgramIs, ProgramOn, Crossed
  <2>2. ASSUME NEW k \in Cores, NEW j \in Len(lines[k]) + 1 .. Len(M[k]), NEW u \in Started, Goes(M[k], j, u) PROVE FALSE
    BY <1>6, <2>2, WaitTouches DEF Goes
  <2>3. QED BY <1>0, <1>6, <2>1, <2>2, AcrossGrows
<1>8. ASSUME NEW u \in wtd, IsDma(u.comp) PROVE Met(M[design.dma], u)
  <2>1. CASE u \in waited
    BY <1>0, <1>6, <1>8, <2>1, MetKept DEF Crossed, TransfersMet
  <2>2. CASE u \notin waited
    <3>1. u \in Started /\ u.comp \in Covers(t.comp)
      <4>1. u \in OnOf(cs)
        BY <1>4, <2>2
      <4>2. u \in Started /\ \E i \in 1 .. Len(cs) : u.comp \in Covers(cs[i])
        BY <4>1 DEF OnOf, On
      <4>3. \A i \in 1 .. Len(cs) : cs[i] = t.comp
        BY <1>1
      <4>4. QED BY <4>2, <4>3
    <3>2. CoreOf(u.comp) = design.dma
      BY <1>8 DEF CoreOf
    <3>3. QED BY <1>5, <3>1, <3>2
  <2>3. QED BY <2>1, <2>2
<1>9. QED BY <1>5, <1>6, <1>7, <1>8 DEF Crossed, TransfersMet, wtd, cs

(* ... and a configure.                                                    *)
LEMMA ConfigureCrossed ==
  ASSUME ListOK, ProgramIs(lines, covered, waited), Crossed(lines, Started, conf, waited),
         NEW t, t.comp \in Components, NEW M, M = Emit(lines, CoreOf(t.comp), ConfigCode(t)),
         NEW cf, \A x \in Configured : cf[x] = conf[x]
  PROVE  (\A k \in Cores : Prefix(lines[k], M[k])) /\ Crossed(M, Started, cf, waited)
<1>0. DesignOK /\ SlotCore \in Cores /\ design.dma \in Cores /\ Started \subseteq Configured
  BY CoresIs DEF ListOK
<1>1. LinesAre(lines) /\ LaunchesAre(lines, Started)
  BY DEF ProgramIs, ProgramOn
<1>2. \A k \in Cores : Prefix(lines[k], M[k]) /\ \A j \in 1 .. Len(M[k]) : j \notin 1 .. Len(lines[k]) =>
        k = SlotCore /\ j = Len(lines[k]) + 1 /\ ~IsDma(t.comp) /\ M[k][j] = Instr("config", t)
  BY <1>1, ConfigLines
<1>3. ASSUME NEW k \in Cores, NEW j \in Len(lines[k]) + 1 .. Len(M[k]) PROVE M[k][j] = Instr("config", t)
  <2>1. Len(lines[k]) \in Nat /\ Len(M[k]) \in Nat
    BY <1>2, SeqFacts DEF Prefix
  <2>2. j \in 1 .. Len(M[k]) /\ j \notin 1 .. Len(lines[k])
    BY <2>1
  <2>3. QED BY <1>2, <2>2
<1>4. Instr("config", t).op = "config" /\ \A c : ~Launches(Instr("config", t), c)
  BY ConfigIs
<1>5. BarsAre(M)
  BY <1>2, <1>3, <1>4, BarsGrow DEF Crossed
<1>6. AcrossAre(M, Started, cf)
  <2>1. ASSUME NEW k \in Cores, NEW j \in Len(lines[k]) + 1 .. Len(M[k]), NEW u \in Started, Goes(M[k], j, u) PROVE FALSE
    BY <1>3, <1>4, <2>1 DEF Goes
  <2>2. \A x \in Started : cf[x] = conf[x]
    BY <1>0
  <2>3. AcrossAre(lines, Started, conf)
    BY DEF Crossed
  <2>4. QED BY <1>0, <1>1, <1>2, <2>1, <2>2, <2>3, AcrossGrows
<1>7. TransfersMet(M, waited)
  BY <1>0, <1>2, MetKept DEF Crossed, TransfersMet
<1>8. QED BY <1>2, <1>5, <1>6, <1>7 DEF Crossed

(* A start of no transfer; such a start among the steps.                   *)
NoDma(ts) == \A t \in ToSet(ts) : ~IsDma(t.comp)
HasGroup(s) == \E i \in 1 .. Len(s) : ~DmaOnly(s[i])

(* The transfers to start: pending, or a configure's to come.              *)
ToStart(s, con, st, t) ==
  /\ IsDma(t.comp)
  /\ \/ t \in con \ st
     \/ t \notin con /\ \E i \in 1 .. Len(s) : s[i].op = "configure" /\ s[i].task = t

(* What such a transfer is after.                                          *)
OwedBy(s, con, st, cf, a) ==
  \/ \E t \in con \ st : IsDma(t.comp) /\ a \in cf[t]
  \/ \E i \in 1 .. Len(s) : s[i].op = "configure" /\ IsDma(s[i].task.comp) /\ a \in s[i].after

(* The steps still to lower start transfers alone or movers alone, every   *)
(* transfer by itself; what a transfer is after is not started before the  *)
(* group is, and once covered the cores met after it.                      *)
Schedule(s, con, st, cf, ln, cov) ==
  /\ \A i \in 1 .. Len(s) : s[i].op = "start" => DmaOnly(s[i]) \/ NoDma(s[i].tasks)
  /\ \A t : ToStart(s, con, st, t) => \E j \in 1 .. Len(s) : s[j] = GoStep(<<t>>)
  /\ \A a : OwedBy(s, con, st, cf, a) => OwedMet(ln, cov, a) /\ (HasGroup(s) => a \notin st)

(* A step lowered leaves the schedule of the others, if what is covered or *)
(* started by it keeps it.                                                 *)
LEMMA ScheduleTail ==
  ASSUME NEW s, IsSeq(s), s # <<>>, NEW con, NEW st, NEW cf, NEW ln, NEW cov, Schedule(s, con, st, cf, ln, cov),
         NEW con2, NEW st2, NEW cf2, NEW M, NEW cov2, con \subseteq con2,
         \A t \in con2 \ st2 : IsDma(t.comp) =>
           \/ t \in con \ st /\ cf2[t] = cf[t] /\ s[1] # GoStep(<<t>>)
           \/ s[1].op = "configure" /\ t = s[1].task /\ t \notin con /\ cf2[t] = s[1].after,
         \A t : t \notin con => s[1] # GoStep(<<t>>),
         \A a : OwedBy(s, con, st, cf, a) =>
           /\ OwedMet(ln, cov, a) => OwedMet(M, cov2, a)
           /\ HasGroup(Tail(s)) /\ a \in st2 => a \in st
  PROVE  Schedule(Tail(s), con2, st2, cf2, M, cov2)
<1> DEFINE r == Tail(s)
<1>1. /\ \A i \in 1 .. Len(r) : i + 1 \in 1 .. Len(s) /\ r[i] = s[i + 1]
      /\ \A j \in 1 .. Len(s) : j = 1 \/ (j - 1 \in 1 .. Len(r) /\ r[j - 1] = s[j])
      /\ Len(s) = Len(r) + 1 /\ Len(r) \in Nat
  BY TailIs
<1>2. r = Tail(s)
  OBVIOUS
<1> HIDE DEF r
<1>3. HasGroup(r) => HasGroup(s)
  BY <1>1 DEF HasGroup
<1>4. 1 \in 1 .. Len(s)
  BY <1>1
<1>5. \A i \in 1 .. Len(r) : r[i].op = "start" => DmaOnly(r[i]) \/ NoDma(r[i].tasks)
  BY <1>1 DEF Schedule
<1>6. \A t, u : GoStep(<<t>>).op = "start"
  BY StepStarts
<1>7. ASSUME NEW t, ToStart(r, con2, st2, t) PROVE \E j \in 1 .. Len(r) : r[j] = GoStep(<<t>>)
  <2>1. ToStart(s, con, st, t) /\ s[1] # GoStep(<<t>>)
    <3>1. CASE t \in con2 \ st2
      <4>1. CASE t \in con \ st /\ s[1] # GoStep(<<t>>)
        BY <1>7, <4>1 DEF ToStart
      <4>2. CASE s[1].op = "configure" /\ t = s[1].task /\ t \notin con
        BY <1>4, <1>6, <1>7, <4>2 DEF ToStart
      <4>3. QED BY <1>7, <3>1, <4>1, <4>2 DEF ToStart
    <3>2. CASE t \notin con2
      <4>1. t \notin con /\ s[1] # GoStep(<<t>>)
        BY <3>2
      <4>2. PICK i \in 1 .. Len(r) : r[i].op = "configure" /\ r[i].task = t
        BY <1>7, <3>2 DEF ToStart
      <4>3. QED BY <1>1, <1>7, <4>1, <4>2 DEF ToStart
    <3>3. QED BY <1>7, <3>1, <3>2 DEF ToStart
  <2>2. PICK j \in 1 .. Len(s) : s[j] = GoStep(<<t>>)
    BY <2>1 DEF Schedule
  <2>3. QED BY <1>1, <2>1, <2>2
<1>8. ASSUME NEW a, OwedBy(r, con2, st2, cf2, a) PROVE OwedMet(M, cov2, a) /\ (HasGroup(r) => a \notin st2)
  <2>1. OwedBy(s, con, st, cf, a)
    <3>1. CASE \E t \in con2 \ st2 : IsDma(t.comp) /\ a \in cf2[t]
      <4>1. PICK t \in con2 \ st2 : IsDma(t.comp) /\ a \in cf2[t]
        BY <3>1
      <4>2. CASE t \in con \ st /\ cf2[t] = cf[t]
        BY <4>1, <4>2 DEF OwedBy
      <4>3. CASE s[1].op = "configure" /\ t = s[1].task /\ cf2[t] = s[1].after
        BY <1>4, <4>1, <4>3 DEF OwedBy
      <4>4. QED BY <4>1, <4>2, <4>3
    <3>2. CASE \E i \in 1 .. Len(r) : r[i].op = "configure" /\ IsDma(r[i].task.comp) /\ a \in r[i].after
      BY <1>1, <3>2 DEF OwedBy
    <3>3. QED BY <1>8, <3>1, <3>2 DEF OwedBy
  <2>2. OwedMet(ln, cov, a) /\ (HasGroup(s) => a \notin st)
    BY <2>1 DEF Schedule
  <2>3. QED BY <1>2, <1>3, <2>1, <2>2
<1>9. Schedule(r, con2, st2, cf2, M, cov2)
  BY <1>5, <1>7, <1>8 DEF Schedule
<1>10. QED BY <1>2, <1>9

(* What a transfer is after stays met while the functions go on and what   *)
(* is newly covered is met.                                                *)
LEMMA OwedKept ==
  ASSUME NEW ln, NEW cov, NEW a, OwedMet(ln, cov, a), NEW M, Prefix(ln[SlotCore], M[SlotCore]), NEW cov2,
         a \in cov2 => a \in cov \/ Met(M[SlotCore], a)
  PROVE  OwedMet(M, cov2, a)
<1>1. Met(ln[SlotCore], a) => Met(M[SlotCore], a)
  BY MetKept
<1>2. QED BY <1>1 DEF OwedMet

(* A configure's step lowered.                                             *)
LEMMA ConfigureTail ==
  ASSUME NEW s, IsSeq(s), s # <<>>, NEW con, NEW st, NEW cf, NEW ln, NEW cov, Schedule(s, con, st, cf, ln, cov),
         NEW t, s[1].op = "configure", t = s[1].task, t \notin con, NEW cf2, cf2[t] = s[1].after,
         \A u \in con : cf2[u] = cf[u], NEW M, \A a : OwedBy(s, con, st, cf, a) => OwedMet(M, cov, a)
  PROVE  Schedule(Tail(s), con \cup {t}, st, cf2, M, cov)
<1>1. \A u : s[1] # GoStep(<<u>>)
  BY StepStarts
<1> DEFINE con2 == con \cup {t}
<1>2. con \subseteq con2 /\ \A u \in con2 \ st : u \in con \ st \/ (u = t /\ u \notin con)
  OBVIOUS
<1> HIDE DEF con2
<1>3. Schedule(Tail(s), con2, st, cf2, M, cov)
  BY <1>1, <1>2, ScheduleTail
<1>4. QED BY <1>3 DEF con2

(* A configure keeps the schedule ...                                      *)
LEMMA ConfigureSchedule ==
  ASSUME LowerInv, steps # <<>>, Crossed(lines, Started, conf, waited),
         Schedule(steps, Configured, Started, conf, lines, covered),
         NEW x, x = steps[1], x.op = "configure", LegalConfigure(x.task, x.after),
         NEW cf, cf = [y \in Configured \cup {x.task} |-> IF y = x.task THEN x.after ELSE conf[y]],
         NEW M, M = Emit(lines, CoreOf(x.task.comp), ConfigCode(x.task))
  PROVE  /\ Crossed(M, Started, cf, waited)
         /\ Schedule(Tail(steps), Configured \cup {x.task}, Started, cf, M, covered)
<1> DEFINE t == x.task
           after == x.after
<1>0. /\ ListOK /\ ProgramIs(lines, covered, waited) /\ IsSeq(steps) /\ SlotCore \in Cores
      /\ Started \subseteq Configured
  <2>1. ListOK /\ ProgramIs(lines, covered, waited) /\ IsSeq(steps) /\ DesignOK
    BY DEF LowerInv, StepsAre, ListOK
  <2>2. QED BY <2>1, CoresIs DEF ListOK
<1>1. t \notin Configured /\ t.comp \in Components
  BY DEF LegalConfigure
<1>2. cf[t] = after /\ \A y \in Configured : cf[y] = conf[y]
  BY <1>1
<1>3. M = Emit(lines, CoreOf(t.comp), ConfigCode(t)) /\ t = steps[1].task /\ after = steps[1].after /\ steps[1].op = "configure"
  OBVIOUS
<1> HIDE DEF t, after
<1>4. (\A k \in Cores : Prefix(lines[k], M[k])) /\ Crossed(M, Started, cf, waited)
  BY <1>0, <1>1, <1>2, <1>3, ConfigureCrossed
<1>5. \A a : OwedMet(lines, covered, a) => OwedMet(M, covered, a)
  BY <1>0, <1>4, OwedKept
<1>6. \A a : OwedBy(steps, Configured, Started, conf, a) => OwedMet(M, covered, a)
  BY <1>5 DEF Schedule
<1>7. Schedule(Tail(steps), Configured \cup {t}, Started, cf, M, covered)
  BY <1>0, <1>1, <1>2, <1>3, <1>6, ConfigureTail
<1>8. QED BY <1>4, <1>7 DEF t

(* ... so does a start, one of a group's once alone ...                    *)
LEMMA StartSchedule ==
  ASSUME LowerInv, TwoCores, steps # <<>>, Crossed(lines, Started, conf, waited),
         Schedule(steps, Configured, Started, conf, lines, covered), InTurn(steps, prev, covered),
         NEW ts, steps[1].op = "start", steps[1].tasks = ts, IsSeq(ts), LegalStart(ts), ~Partial(ts),
         NEW M, M = StartAll(Waits(ts).lines, ts)
  PROVE  /\ Crossed(M, Started \cup ToSet(ts), conf, Waits(ts).waited)
         /\ Schedule(Tail(steps), Configured, Started \cup ToSet(ts), conf, M, CoveredBy(ts))
<1>0. /\ ListOK /\ ProgramIs(lines, covered, waited) /\ IsSeq(steps) /\ SlotCore \in Cores
      /\ Started \subseteq Configured /\ covered \subseteq Started
  <2>1. ListOK /\ ProgramIs(lines, covered, waited) /\ IsSeq(steps) /\ DesignOK
    BY DEF LowerInv, StepsAre, ListOK
  <2>2. QED BY <2>1, CoresIs DEF ListOK
<1>1. ToSet(ts) \subseteq Configured \ Started
  BY DEF LegalStart, Pending
<1>2. /\ 1 \in 1 .. Len(steps) /\ Len(Tail(steps)) \in Nat
      /\ \A i \in 1 .. Len(Tail(steps)) : i + 1 \in 1 .. Len(steps) /\ i + 1 # 1 /\ Tail(steps)[i] = steps[i + 1]
  <2> DEFINE r == Tail(steps)
  <2>1. /\ Len(r) \in Nat /\ Len(steps) = Len(r) + 1
        /\ \A i \in 1 .. Len(r) : i + 1 \in 1 .. Len(steps) /\ r[i] = steps[i + 1]
    BY <1>0, TailIs
  <2> HIDE DEF r
  <2>2. 1 \in 1 .. Len(steps) /\ \A i \in 1 .. Len(r) : i + 1 # 1
    BY <2>1
  <2>3. QED BY <2>1, <2>2 DEF r
<1> DEFINE all == \A t \in ToSet(ts) : IsDma(t.comp)
<1>3. all \/ NoDma(ts)
  <2>1. DmaOnly(steps[1]) \/ NoDma(ts)
    BY <1>2 DEF Schedule
  <2>2. QED BY <2>1 DEF DmaOnly
<1>4. Sided(ts)
  <2>1. ASSUME all, NEW t \in ToSet(ts), NEW a \in conf[t] PROVE OwedMet(lines, covered, a)
    <3>1. OwedBy(steps, Configured, Started, conf, a)
      BY <1>1, <2>1 DEF OwedBy
    <3>2. QED BY <3>1 DEF Schedule
  <2>2. all => Sided(ts)
    BY <2>1 DEF Sided
  <2>3. NoDma(ts) => Sided(ts)
    BY DEF Sided, NoDma
  <2>4. QED BY <1>3, <2>2, <2>3
<1>5. /\ \A k \in Cores : Prefix(lines[k], M[k])
      /\ Crossed(M, Started \cup ToSet(ts), conf, Waits(ts).waited)
      /\ all => \A a \in CoveredBy(ts) : IsDma(a.comp) \/ a \in covered \/ Met(M[SlotCore], a)
  BY <1>0, <1>4, StartCrossed
<1>6. ~all => ~DmaOnly(steps[1]) /\ HasGroup(steps) /\ ~HasGroup(Tail(steps))
  <2> SUFFICES ASSUME ~all PROVE ~DmaOnly(steps[1]) /\ HasGroup(steps) /\ ~HasGroup(Tail(steps))
    OBVIOUS
  <2>1. ~DmaOnly(steps[1])
    BY DEF DmaOnly
  <2>2. ~Rested(steps, prev, covered)
    BY <1>2, <2>1 DEF Rested
  <2>3. PICK i \in 1 .. Len(steps) : prev # <<>> /\ Coming(steps, prev, i, covered)
    BY <2>2 DEF InTurn
  <2>4. i = 1 /\ \A j \in 1 .. Len(steps) : j # 1 => DmaOnly(steps[j])
    BY <1>2, <2>1, <2>3 DEF Coming
  <2>5. \A j \in 1 .. Len(Tail(steps)) : DmaOnly(Tail(steps)[j])
    BY <1>2, <2>4
  <2>6. QED BY <1>2, <2>1, <2>5 DEF HasGroup
<1>7. CoveredBy(ts) \subseteq Started
  BY <1>0 DEF CoveredBy, On
<1>8. ASSUME NEW a, OwedBy(steps, Configured, Started, conf, a)
      PROVE  /\ OwedMet(M, CoveredBy(ts), a)
             /\ HasGroup(Tail(steps)) /\ a \in Started \cup ToSet(ts) => a \in Started
  <2>1. OwedMet(lines, covered, a) /\ (HasGroup(steps) => a \notin Started)
    BY <1>8 DEF Schedule
  <2>2. ~IsDma(a.comp)
    BY <2>1 DEF OwedMet
  <2>3. a \in CoveredBy(ts) => a \in covered \/ Met(M[SlotCore], a)
    <3>1. CASE all
      BY <1>5, <2>2, <3>1
    <3>2. CASE ~all
      BY <1>6, <1>7, <2>1, <3>2
    <3>3. QED BY <3>1, <3>2
  <2>4. OwedMet(M, CoveredBy(ts), a)
    BY <1>0, <1>5, <2>1, <2>3, OwedKept
  <2>5. HasGroup(Tail(steps)) /\ a \in ToSet(ts) => FALSE
    BY <1>6, <2>2
  <2>6. QED BY <2>4, <2>5
<1>9. \A t : steps[1] = GoStep(<<t>>) => t \in ToSet(ts)
  <2> SUFFICES ASSUME NEW t, steps[1] = GoStep(<<t>>) PROVE t \in ToSet(ts)
    OBVIOUS
  <2>1. ts = <<t>>
    BY StepStarts
  <2>2. IsSeq(<<t>>) /\ Len(<<t>>) = 1 /\ <<t>>[1] = t
    BY Single
  <2>3. 1 \in 1 .. Len(<<t>>)
    BY <2>2
  <2>4. <<t>>[1] \in ToSet(<<t>>)
    BY <2>2, <2>3, SeqFacts
  <2>5. QED BY <2>1, <2>2, <2>4
<1> DEFINE con == Configured
           st == Started
           st2 == Started \cup ToSet(ts)
           cov2 == CoveredBy(ts)
<1>10. \A t \in con \ st2 : t \in con \ st /\ conf[t] = conf[t] /\ steps[1] # GoStep(<<t>>)
  BY <1>9
<1>11. \A t : t \notin con => steps[1] # GoStep(<<t>>)
  BY <1>1, <1>9
<1>12. /\ con \subseteq con /\ Schedule(steps, con, st, conf, lines, covered)
       /\ \A a : OwedBy(steps, con, st, conf, a) =>
            /\ OwedMet(M, cov2, a)
            /\ HasGroup(Tail(steps)) /\ a \in st2 => a \in st
  BY <1>8
<1> HIDE DEF con, st, st2, cov2
<1>13. Schedule(Tail(steps), con, st2, conf, M, cov2)
  BY <1>0, <1>10, <1>11, <1>12, ScheduleTail
<1>14. QED BY <1>5, <1>13 DEF con, st2, cov2

(* ... and a sync.                                                         *)
LEMMA SyncSchedule ==
  ASSUME LowerInv, TwoCores, steps # <<>>, Crossed(lines, Started, conf, waited),
         Schedule(steps, Configured, Started, conf, lines, covered),
         steps[1].op = "sync", NEW t, t \in Started,
         NEW M, M = WaitAll(<<t.comp>>, Cores).lines
  PROVE  /\ Crossed(M, Started, conf, WaitAll(<<t.comp>>, Cores).waited)
         /\ Schedule(Tail(steps), Configured, Started, conf, M, covered \cup On(Covers(t.comp)))
<1>0. /\ ListOK /\ ProgramIs(lines, covered, waited) /\ IsSeq(steps) /\ SlotCore \in Cores
  <2>1. ListOK /\ ProgramIs(lines, covered, waited) /\ IsSeq(steps) /\ DesignOK
    BY DEF LowerInv, StepsAre, ListOK
  <2>2. QED BY <2>1, CoresIs DEF ListOK
<1>1. /\ \A k \in Cores : Prefix(lines[k], M[k])
      /\ Crossed(M, Started, conf, WaitAll(<<t.comp>>, Cores).waited)
      /\ \A a \in Started : a.comp \in Covers(t.comp) => Met(M[CoreOf(a.comp)], a)
  BY <1>0, SyncCrossed
<1> DEFINE cov2 == covered \cup On(Covers(t.comp))
           con == Configured
           st == Started
<1>2. ASSUME NEW a, OwedMet(lines, covered, a) PROVE OwedMet(M, cov2, a)
  <2>1. CoreOf(a.comp) = SlotCore
    BY <1>2 DEF OwedMet, CoreOf
  <2>2. a \in cov2 => a \in covered \/ Met(M[SlotCore], a)
    BY <1>1, <2>1 DEF On
  <2> HIDE DEF cov2
  <2>3. QED BY <1>0, <1>1, <1>2, <2>2, OwedKept
<1>3. \A u : GoStep(<<u>>).op = "start"
  BY StepStarts
<1>4. \A u : steps[1] # GoStep(<<u>>)
  BY <1>3
<1>5. Schedule(steps, con, st, conf, lines, covered) /\ con \subseteq con
  OBVIOUS
<1> HIDE DEF con, st, cov2
<1>6. Schedule(Tail(steps), con, st, conf, M, cov2)
  BY <1>0, <1>2, <1>4, <1>5, ScheduleTail
<1>7. QED BY <1>1, <1>6 DEF con, st, cov2

(* What is said of the program across cores depends on the design point    *)
(* only.                                                                   *)
LEMMA SameAcross ==
  ASSUME design' = design
  PROVE  /\ TwoCores' <=> TwoCores
         /\ \A ln, st, cf, wtd : Crossed(ln, st, cf, wtd)' <=> Crossed(ln, st, cf, wtd)
         /\ \A ln, cov, a : OwedMet(ln, cov, a)' <=> OwedMet(ln, cov, a)
         /\ \A s, con, st, cf, ln, cov : Schedule(s, con, st, cf, ln, cov)' <=> Schedule(s, con, st, cf, ln, cov)
<1>1. /\ \A c : CoreOf(c)' = CoreOf(c)
      /\ \A L, j, t : Goes(L, j, t)' <=> Goes(L, j, t)
      /\ \A L, j, t : Past(L, j, t)' <=> Past(L, j, t)
      /\ \A c : IsDma(c)' <=> IsDma(c)
  BY SameMovers, SameGoes DEF IsDma, DMA
<1>2. \A L, j : Bars(L, j)' = Bars(L, j)
  BY DEF Bars
<1>3. \A L, t : Met(L, t)' <=> Met(L, t)
  BY <1>1 DEF Met
<1>4. \A ln, k, j, t : Safe(ln, k, j, t)' <=> Safe(ln, k, j, t)
  BY <1>1, <1>2 DEF Safe
<1>5. \A ln : BarsAre(ln)' <=> BarsAre(ln)
  BY <1>2 DEF BarsAre, Count
<1>6. \A ln, st, cf : AcrossAre(ln, st, cf)' <=> AcrossAre(ln, st, cf)
  BY <1>1, <1>4 DEF AcrossAre
<1>7. \A ln, wtd : TransfersMet(ln, wtd)' <=> TransfersMet(ln, wtd)
  BY <1>1, <1>3 DEF TransfersMet
<1>8. \A ln, cov, a : OwedMet(ln, cov, a)' <=> OwedMet(ln, cov, a)
  BY <1>1, <1>3 DEF OwedMet
<1>9. TwoCores' <=> TwoCores
  BY DEF TwoCores
<1>10. /\ \A x : DmaOnly(x)' <=> DmaOnly(x)
       /\ \A ts : NoDma(ts)' <=> NoDma(ts)
       /\ \A s : HasGroup(s)' <=> HasGroup(s)
       /\ \A s, con, st, t : ToStart(s, con, st, t)' <=> ToStart(s, con, st, t)
       /\ \A s, con, st, cf, a : OwedBy(s, con, st, cf, a)' <=> OwedBy(s, con, st, cf, a)
       /\ \A ts : GoStep(ts)' = GoStep(ts)
  BY <1>1 DEF DmaOnly, NoDma, HasGroup, ToStart, OwedBy, GoStep, ToSet
<1>11. \A s, con, st, cf, ln, cov : Schedule(s, con, st, cf, ln, cov)' <=> Schedule(s, con, st, cf, ln, cov)
  BY <1>8, <1>10 DEF Schedule
<1>12. QED BY <1>5, <1>6, <1>7, <1>8, <1>9, <1>11 DEF Crossed

(* The program written so far keeps what is said across cores, the steps   *)
(* to come their schedule.                                                 *)
CrossInv ==
  Crossed(lines, Started, conf, waited) /\ Schedule(steps, Configured, Started, conf, lines, covered)

(* ... and says the same of what the next state holds.                     *)
LEMMA CrossNext ==
  ASSUME design' = design, NEW M, NEW st, NEW cf, NEW wtd, NEW s, NEW con, NEW cov,
         Crossed(M, st, cf, wtd), Schedule(s, con, st, cf, M, cov),
         lines' = M, Started' = st, conf' = cf, waited' = wtd, steps' = s, Configured' = con, covered' = cov
  PROVE  CrossInv'
<1>1. Crossed(lines', Started', conf', waited') /\ Schedule(steps', Configured', Started', conf', lines', covered')
  OBVIOUS
<1>2. Crossed(lines, Started, conf, waited)'
  BY <1>1, SameAcross
<1>3. Schedule(steps, Configured, Started, conf, lines, covered)'
  BY <1>1, SameAcross
<1>4. QED BY <1>2, <1>3 DEF CrossInv

(* ... and is kept by steps scheduled anew while nothing is lowered.       *)
LEMMA CrossSteps ==
  ASSUME UNCHANGED <<design, conf, starts, covered, waited, lines>>, Crossed(lines, Started, conf, waited),
         NEW s, steps' = s, Schedule(s, Configured, Started, conf, lines, covered)
  PROVE  CrossInv' /\ Started' = Started /\ Configured' = Configured
<1> DEFINE M == lines
           con == Configured
           st == Started
<1>1. Started' = st /\ Configured' = con
  BY SameOrder DEF Configured
<1>2. /\ Crossed(M, st, conf, waited) /\ Schedule(s, con, st, conf, M, covered) /\ design' = design
      /\ lines' = M /\ conf' = conf /\ waited' = waited /\ steps' = s /\ covered' = covered
  OBVIOUS
<1> HIDE DEF M, con, st
<1>3. CrossInv'
  BY <1>1, <1>2, CrossNext, Zenon
<1>4. QED BY <1>1, <1>3 DEF con, st

(* The lowering keeps it.                                                  *)
LEMMA LowerCross ==
  ASSUME LowerInv, TwoCores, CrossInv, InTurn(steps, prev, covered), Lower
  PROVE  refused' \/ CrossInv'
<1> DEFINE x == Head(steps)
<1>1. IsSeq(steps) /\ steps # <<>> /\ \A i \in 1 .. Len(steps) : StepOK(steps[i])
  BY DEF LowerInv, StepsAre, Lower
<1>2. x = steps[1] /\ StepOK(x)
  BY <1>1, TailIs
<1>3. steps' = Tail(steps)
  BY DEF Lower
<1> HIDE DEF x
<1>4. /\ ListOK /\ ProgramIs(lines, covered, waited)
      /\ Crossed(lines, Started, conf, waited) /\ Schedule(steps, Configured, Started, conf, lines, covered)
  BY DEF LowerInv, CrossInv
<1>5. CASE Refuse
  BY <1>5 DEF Refuse
<1>6. CASE x.op = "configure" /\ Configure(x.task, x.after) /\ ~Refuse
  <2>1. /\ LegalConfigure(x.task, x.after)
        /\ conf' = [y \in Configured \cup {x.task} |-> IF y = x.task THEN x.after ELSE conf[y]]
        /\ lines' = Emit(lines, CoreOf(x.task.comp), ConfigCode(x.task))
        /\ UNCHANGED <<design, starts, covered, waited>>
    BY <1>6 DEF Configure
  <2>2. Started' = Started /\ Configured' = Configured \cup {x.task}
    BY <2>1, SameOrder DEF Configured
  <2> DEFINE M == Emit(lines, CoreOf(x.task.comp), ConfigCode(x.task))
             cf == [y \in Configured \cup {x.task} |-> IF y = x.task THEN x.after ELSE conf[y]]
             con == Configured \cup {x.task}
             r == Tail(steps)
             st == Started
  <2>3. Crossed(M, Started, cf, waited) /\ Schedule(Tail(steps), Configured \cup {x.task}, Started, cf, M, covered)
    <3>1. \A M1, cf1 : M1 = M /\ cf1 = cf =>
            /\ Crossed(M1, Started, cf1, waited)
            /\ Schedule(Tail(steps), Configured \cup {x.task}, Started, cf1, M1, covered)
      BY <1>1, <1>2, <1>4, <1>6, <2>1, ConfigureSchedule
    <3> HIDE DEF M, cf
    <3>2. QED BY <3>1
  <2>4. /\ Crossed(M, st, cf, waited) /\ Schedule(r, con, st, cf, M, covered)
        /\ lines' = M /\ Started' = st /\ conf' = cf /\ waited' = waited /\ steps' = r /\ Configured' = con /\ covered' = covered
        /\ design' = design
    BY <1>3, <2>1, <2>2, <2>3
  <2> HIDE DEF M, cf, con, r, st
  <2>5. QED BY <2>4, CrossNext, Zenon
<1>7. CASE x.op = "start" /\ Start(x.tasks) /\ ~Refuse
  <2> DEFINE ts == x.tasks
             M == StartAll(Waits(ts).lines, ts)
             st == Started \cup ToSet(ts)
             wtd == Waits(ts).waited
             cov == CoveredBy(ts)
             r == Tail(steps)
             con == Configured
  <2>1. /\ LegalStart(ts) /\ ~Partial(ts)
        /\ starts' = Append(starts, ts)
        /\ covered' = CoveredBy(ts) /\ waited' = Waits(ts).waited
        /\ lines' = StartAll(Waits(ts).lines, ts)
        /\ UNCHANGED <<design, conf>>
    BY <1>7 DEF Start, CoveredBy, Waits
  <2>2. IsSeq(ts)
    BY <1>2, <1>7 DEF StepOK
  <2>3. steps[1].op = "start" /\ steps[1].tasks = ts
    BY <1>2, <1>7
  <2> HIDE DEF ts
  <2>4. Started' = Started \cup ToSet(ts)
    BY <1>4, <2>1, <2>2, StartPlaced
  <2>5. Crossed(M, st, conf, wtd) /\ Schedule(r, con, st, conf, M, cov)
    BY <1>1, <1>4, <2>1, <2>2, <2>3, StartSchedule
  <2>6. /\ lines' = M /\ Started' = st /\ conf' = conf /\ waited' = wtd /\ steps' = r /\ Configured' = con /\ covered' = cov
        /\ design' = design
    BY <1>3, <2>1, <2>4 DEF Configured
  <2> HIDE DEF M, st, wtd, cov, r, con
  <2>7. QED BY <2>5, <2>6, CrossNext, Zenon
<1>8. CASE x.op = "sync" /\ Sync(x.task) /\ ~Refuse
  <2> DEFINE t == x.task
             M == WaitAll(<<t.comp>>, Cores).lines
             wtd == WaitAll(<<t.comp>>, Cores).waited
             cov == covered \cup On(Covers(t.comp))
             r == Tail(steps)
             con == Configured
             st == Started
  <2>1. /\ LegalSync(t)
        /\ covered' = covered \cup On(Covers(t.comp))
        /\ waited' = WaitAll(<<t.comp>>, Cores).waited /\ lines' = WaitAll(<<t.comp>>, Cores).lines
        /\ UNCHANGED listVars
    BY <1>8 DEF Sync
  <2>2. steps[1].op = "sync" /\ t \in Started
    BY <1>2, <1>8, <2>1 DEF LegalSync
  <2> HIDE DEF t
  <2>3. Crossed(M, st, conf, wtd) /\ Schedule(r, con, st, conf, M, cov)
    BY <1>1, <1>4, <2>2, SyncSchedule
  <2>4. /\ lines' = M /\ conf' = conf /\ waited' = wtd /\ steps' = r /\ covered' = cov /\ design' = design
        /\ starts' = starts
    BY <1>3, <2>1 DEF listVars
  <2>5. Started' = st /\ Configured' = con
    BY <2>4, SameOrder DEF Configured
  <2> HIDE DEF M, st, wtd, cov, r, con
  <2>6. QED BY <2>3, <2>4, <2>5, CrossNext, Zenon
<1>9. QED BY <1>5, <1>6, <1>7, <1>8 DEF Lower, x

(* A step of node n's group: its own tasks configured, a transfer after    *)
(* none but them, and transfers started alone or no transfer.              *)
OwnStep(n, x) ==
  /\ x.op = "configure" =>
       IF IsDma(x.task.comp) THEN \A a \in x.after : ~IsDma(a.comp) /\ a.name = <<"node", n>>
       ELSE x.task.name = <<"node", n>>
  /\ x.op = "start" => DmaOnly(x) \/ NoDma(x.tasks)
Moved(s, x) == x.op = "configure" /\ IsDma(x.task.comp) => \E j \in 1 .. Len(s) : s[j] = GoStep(<<x.task>>)

(* Such steps, every transfer configured also started.                     *)
Fit(n, s) == IsSeq(s) /\ \A i \in 1 .. Len(s) : OwnStep(n, s[i]) /\ Moved(s, s[i])

(* Two pieces make one ...                                                 *)
LEMMA FitConcat ==
  ASSUME NEW n, NEW s, NEW t, Fit(n, s), Fit(n, t) PROVE Fit(n, s \o t)
<1> DEFINE l == Len(s)
           m == Len(t)
           r == s \o t
<1>1. /\ IsSeq(r) /\ Len(r) = l + m /\ l \in Nat /\ m \in Nat
      /\ \A i \in 1 .. l : r[i] = s[i]
      /\ \A i \in 1 .. m : r[l + i] = t[i]
  BY Concat, SeqFacts DEF Fit
<1>2. /\ \A i \in 1 .. l : OwnStep(n, s[i]) /\ Moved(s, s[i])
      /\ \A i \in 1 .. m : OwnStep(n, t[i]) /\ Moved(t, t[i])
  BY DEF Fit
<1>3. \A x : Moved(s, x) <=> (x.op = "configure" /\ IsDma(x.task.comp) => \E j \in 1 .. l : s[j] = GoStep(<<x.task>>))
  BY DEF Moved
<1>4. \A x : Moved(t, x) <=> (x.op = "configure" /\ IsDma(x.task.comp) => \E j \in 1 .. m : t[j] = GoStep(<<x.task>>))
  BY DEF Moved
<1>5. \A x : Moved(r, x) <=> (x.op = "configure" /\ IsDma(x.task.comp) => \E j \in 1 .. l + m : r[j] = GoStep(<<x.task>>))
  BY <1>1 DEF Moved
<1> HIDE DEF l, m, r
<1>6. (\A i \in 1 .. l : i \in 1 .. l + m) /\ (\A i \in 1 .. m : l + i \in 1 .. l + m)
  BY <1>1
<1>7. \A x : Moved(s, x) \/ Moved(t, x) => Moved(r, x)
  BY <1>1, <1>3, <1>4, <1>5, <1>6
<1>8. ASSUME NEW i \in 1 .. l + m PROVE OwnStep(n, r[i]) /\ Moved(r, r[i])
  <2>1. CASE i \in 1 .. l
    BY <1>1, <1>2, <1>7, <2>1
  <2>2. CASE i \notin 1 .. l
    <3>1. i - l \in 1 .. m /\ l + (i - l) = i
      BY <1>1, <2>2
    <3>2. r[i] = t[i - l]
      BY <1>1, <3>1
    <3>3. QED BY <1>2, <1>7, <3>1, <3>2
  <2>3. QED BY <2>1, <2>2
<1>9. QED BY <1>1, <1>8 DEF Fit, r

(* ... so do many ...                                                      *)
LEMMA FitFlatten ==
  ASSUME NEW n, NEW s, IsSeq(s), \A i \in 1 .. Len(s) : Fit(n, s[i]) PROVE Fit(n, FlattenSeq(s))
<1> DEFINE r == FlattenSeq(s)
<1>1. /\ IsSeq(r)
      /\ \A p \in 1 .. Len(r) : \E i \in 1 .. Len(s) : \E o \in 1 .. Len(s[i]) : r[p] = s[i][o]
      /\ \A i \in 1 .. Len(s) : \A o \in 1 .. Len(s[i]) : \E p \in 1 .. Len(r) : r[p] = s[i][o]
  BY FlattenIs DEF Fit
<1> HIDE DEF r
<1>2. ASSUME NEW i \in 1 .. Len(s), NEW x, Moved(s[i], x) PROVE Moved(r, x)
  <2> SUFFICES ASSUME x.op = "configure" /\ IsDma(x.task.comp) PROVE \E p \in 1 .. Len(r) : r[p] = GoStep(<<x.task>>)
    BY DEF Moved
  <2>1. PICK o \in 1 .. Len(s[i]) : s[i][o] = GoStep(<<x.task>>)
    BY <1>2 DEF Moved
  <2>2. QED BY <1>1, <2>1
<1>3. ASSUME NEW p \in 1 .. Len(r) PROVE OwnStep(n, r[p]) /\ Moved(r, r[p])
  <2>1. PICK i \in 1 .. Len(s) : \E o \in 1 .. Len(s[i]) : r[p] = s[i][o]
    BY <1>1
  <2>2. PICK o \in 1 .. Len(s[i]) : r[p] = s[i][o]
    BY <2>1
  <2>3. OwnStep(n, s[i][o]) /\ Moved(s[i], s[i][o])
    BY <2>1, <2>2 DEF Fit
  <2>4. QED BY <1>2, <2>1, <2>2, <2>3
<1>4. Fit(n, r)
  BY <1>1, <1>3 DEF Fit
<1>5. QED BY <1>4 DEF r

(* ... and steps that configure no transfer.                               *)
LEMMA FitMap ==
  ASSUME NEW n, NEW l \in Nat, NEW f, f = [i \in 1 .. l |-> f[i]],
         \A i \in 1 .. l : OwnStep(n, f[i]) /\ (f[i].op = "configure" => ~IsDma(f[i].task.comp))
  PROVE  Fit(n, f)
  BY OfLength DEF Fit, Moved

(* No step or one.                                                         *)
LEMMA FitOne ==
  ASSUME NEW n
  PROVE  /\ Fit(n, <<>>)
         /\ \A x : OwnStep(n, x) /\ (x.op = "configure" => ~IsDma(x.task.comp)) => Fit(n, <<x>>)
<1>1. Fit(n, <<>>)
  BY EmptyIs DEF Fit
<1>2. ASSUME NEW x, OwnStep(n, x), x.op = "configure" => ~IsDma(x.task.comp) PROVE Fit(n, <<x>>)
  <2>1. IsSeq(<<x>>) /\ Len(<<x>>) = 1 /\ <<x>>[1] = x
    BY Single
  <2>2. \A i \in 1 .. Len(<<x>>) : i = 1
    BY <2>1
  <2>3. QED BY <1>2, <2>1, <2>2 DEF Fit, Moved
<1>3. QED BY <1>1, <1>2

(* A transfer's steps.                                                     *)
LEMMA FitDma ==
  ASSUME NEW n, NEW t, IsDma(t.comp), NEW after, \A a \in after : ~IsDma(a.comp) /\ a.name = <<"node", n>>
  PROVE  Fit(n, DmaSteps(t, after))
<1> DEFINE d == CfgStep(t, after)
           e == GoStep(<<t>>)
<1>1. OwnStep(n, d) /\ d.task = t /\ d.op = "configure"
  BY StepStarts DEF OwnStep
<1>2. IsSeq(<<t>>) /\ \A x \in ToSet(<<t>>) : x = t
  BY Single, SeqFacts
<1>3. DmaOnly(e) /\ e.op = "start"
  BY <1>2, StepStarts DEF DmaOnly
<1>4. OwnStep(n, e)
  BY <1>3 DEF OwnStep
<1>5. e = GoStep(<<t>>)
  OBVIOUS
<1> HIDE DEF d, e
<1>6. IsSeq(<<d, e>>) /\ Len(<<d, e>>) = 2 /\ <<d, e>>[1] = d /\ <<d, e>>[2] = e
  BY Pair
<1>7. \A i \in 1 .. Len(<<d, e>>) : i = 1 \/ i = 2
  BY <1>6
<1>8. 2 \in 1 .. Len(<<d, e>>)
  BY <1>6
<1>9. Moved(<<d, e>>, d)
  BY <1>1, <1>5, <1>6, <1>8 DEF Moved
<1>10. Moved(<<d, e>>, e)
  BY <1>3 DEF Moved
<1>11. Fit(n, <<d, e>>)
  BY <1>1, <1>4, <1>6, <1>7, <1>9, <1>10 DEF Fit
<1>12. QED BY <1>11 DEF DmaSteps, d, e

(* The names of a group's tasks.                                           *)
LEMMA OwnNames ==
  ASSUME NEW n
  PROVE  /\ \A c : WriterOf(n, c).name = <<"node", n>> /\ ~IsDma(WriterOf(n, c).comp)
         /\ Accel(n).name = <<"node", n>>
         /\ \A i \in DOMAIN SetTasks(n) : SetTasks(n)[i].name = <<"node", n>>
<1>1. \A x, c, b : Task(x, c, b).name = x /\ Task(x, c, b).comp = c
  BY DEF Task
<1>2. \A side, i : Mover(n, side, i).name = <<"node", n>> /\ ~IsDma(Mover(n, side, i).comp)
  <2>1. \A side, i : Mover(n, side, i).comp = <<UnitOf(n), side, i>>
    BY <1>1 DEF Mover
  <2>2. \A u, side, i : Len(<<u, side, i>>) = 3
    OBVIOUS
  <2>3. Len(DMA) = 1
    BY DmaIs
  <2>4. ASSUME NEW side, NEW i PROVE Mover(n, side, i).comp # DMA
    <3> DEFINE c == <<UnitOf(n), side, i>>
    <3>1. Mover(n, side, i).comp = c /\ Len(c) = 3
      BY <2>1, <2>2
    <3> HIDE DEF c
    <3>2. QED BY <2>3, <3>1
  <2>5. \A side, i : Mover(n, side, i).name = <<"node", n>>
    BY <1>1 DEF Mover
  <2>6. QED BY <2>4, <2>5 DEF IsDma
<1>3. \A i \in DOMAIN SetTasks(n) : SetTasks(n)[i].name = <<"node", n>>
  <2> DEFINE movers(u) == [i \in 1 .. design.ins[u] |-> <<u, "in", i>>] \o [i \in 1 .. design.outs[u] |-> <<u, "out", i>>]
             units == Only(design.order, {i \in DOMAIN design.order : design.acc[design.order[i]] = design.acc[UnitOf(n)]})
             all == FlattenSeq([i \in DOMAIN units |-> movers(units[i])])
  <2>1. SetTasks(n) = [i \in DOMAIN all |->
                         IF all[i][1] = UnitOf(n) THEN Task(<<"node", n>>, all[i], FALSE) ELSE Idle(n, all[i])]
    BY DEF SetTasks
  <2> HIDE DEF all
  <2>2. \A m : Idle(n, m).name = <<"node", n>>
    BY <1>1 DEF Idle
  <2> DEFINE e(i) == IF all[i][1] = UnitOf(n) THEN Task(<<"node", n>>, all[i], FALSE) ELSE Idle(n, all[i])
  <2>3. ASSUME NEW i PROVE e(i).name = <<"node", n>>
    <3>1. CASE all[i][1] = UnitOf(n)
      <4>1. e(i) = Task(<<"node", n>>, all[i], FALSE)
        BY <3>1
      <4>2. Task(<<"node", n>>, all[i], FALSE).name = <<"node", n>>
        BY <1>1, Zenon
      <4> HIDE DEF e
      <4>3. QED BY <4>1, <4>2
    <3>2. CASE all[i][1] # UnitOf(n)
      <4>1. e(i) = Idle(n, all[i])
        BY <3>2
      <4> HIDE DEF e
      <4>2. QED BY <2>2, <4>1
    <3>3. QED BY <3>1, <3>2
  <2>4. SetTasks(n) = [i \in DOMAIN all |-> e(i)]
    BY <2>1
  <2> HIDE DEF e
  <2>5. QED BY <2>3, <2>4
<1>4. QED BY <1>1, <1>2, <1>3 DEF WriterOf, Accel

(* What deriving a group writes are such steps.                            *)
LEMMA GroupFit ==
  ASSUME GraphOK, NEW n \in 1 .. Len(Nodes), Group(n)
  PROVE  Fit(n, steps')
<1> DEFINE loads == Loads(n)
           in == [c \in DOMAIN inL1 \cup ToSet(loads) |->
                    IF c \in DOMAIN inL1 THEN inL1[c] ELSE Load(c)]
           movers == SetTasks(n)
           stores == Stores(n)
           after(i) == After(movers[i], n, in)
           afters == UNION {after(i) : i \in DOMAIN movers}
           A == FlattenSeq([i \in DOMAIN loads |-> DmaSteps(Load(loads[i]), {})])
           B == [i \in DOMAIN movers |-> CfgStep(movers[i], after(i))]
           C == <<CfgStep(Accel(n), {})>>
           D == SerialSync(n, afters)
           ts == Append(movers, Accel(n))
           e == GoStep(ts)
           F == FlattenSeq([i \in DOMAIN stores |->
                  DmaSteps(Store(stores[i].data), {WriterOf(n, stores[i].data)})])
<1>0. DesignOK /\ UnitOf(n) \in DUnits
  BY GraphIs
<1>1. steps' = ((((A \o B) \o C) \o D) \o <<e>>) \o F
  BY DEF Group
<1>2. Fit(n, A)
  <2> DEFINE z == [i \in DOMAIN loads |-> DmaSteps(Load(loads[i]), {})]
  <2>1. IsSeq(loads)
    BY LoadsAre
  <2>2. DOMAIN loads = 1 .. Len(loads) /\ Len(loads) \in Nat
    BY <2>1, SeqFacts
  <2> HIDE DEF loads
  <2>3. z = [i \in 1 .. Len(loads) |-> z[i]] /\ \A i \in 1 .. Len(loads) : z[i] = DmaSteps(Load(loads[i]), {})
    BY <2>2
  <2>4. \A c : IsDma(Load(c).comp)
    BY DEF Load, Task, IsDma
  <2>5. \A c : Fit(n, DmaSteps(Load(c), {}))
    BY <2>4, FitDma
  <2>6. A = FlattenSeq(z)
    OBVIOUS
  <2> HIDE DEF z, A
  <2>7. IsSeq(z) /\ Len(z) = Len(loads)
    BY <2>2, <2>3, OfLength
  <2>8. \A i \in 1 .. Len(z) : Fit(n, z[i])
    BY <2>3, <2>5, <2>7
  <2>9. QED BY <2>6, <2>7, <2>8, FitFlatten
<1>3. IsSeq(movers) /\ \A p \in 1 .. Len(movers) : movers[p].name = <<"node", n>> /\ ~IsDma(movers[p].comp)
  <2>1. IsSeq(movers) /\ \A p \in 1 .. Len(movers) : MoverOf(n, movers[p])
    BY SetTasksAre
  <2>2. DOMAIN movers = 1 .. Len(movers)
    BY <2>1, SeqFacts
  <2>3. \A p \in 1 .. Len(movers) : movers[p].name = <<"node", n>>
    BY <2>2, OwnNames
  <2>4. \A x : MoverOf(n, x) => ~IsDma(x.comp)
    BY <1>0, MoverIs DEF MoverOf
  <2>5. QED BY <2>1, <2>3, <2>4
<1>4. Fit(n, B)
  <2>1. DOMAIN movers = 1 .. Len(movers) /\ Len(movers) \in Nat
    BY <1>3, SeqFacts
  <2> HIDE DEF movers, after
  <2>2. B = [i \in 1 .. Len(movers) |-> B[i]] /\ \A i \in 1 .. Len(movers) : B[i] = CfgStep(movers[i], after(i))
    BY <2>1
  <2> HIDE DEF B
  <2>3. ASSUME NEW i \in 1 .. Len(movers) PROVE OwnStep(n, B[i]) /\ ~IsDma(B[i].task.comp)
    <3>1. B[i].op = "configure" /\ B[i].task = movers[i]
      BY <2>2, StepStarts
    <3>2. QED BY <1>3, <3>1 DEF OwnStep
  <2>4. QED BY <2>1, <2>2, <2>3, FitMap
<1>5. Accel(n).name = <<"node", n>> /\ ~IsDma(Accel(n).comp)
  <2>1. Accel(n).comp = Unit(UnitOf(n))
    BY DEF Accel, Task
  <2>2. QED BY <1>0, <2>1, UnitIs, OwnNames
<1>6. Fit(n, C)
  <2> DEFINE x == CfgStep(Accel(n), {})
  <2>1. x.op = "configure" /\ x.task = Accel(n)
    BY StepStarts
  <2>2. C = <<x>>
    OBVIOUS
  <2> HIDE DEF x
  <2>3. OwnStep(n, x) /\ ~IsDma(x.task.comp)
    BY <1>5, <2>1 DEF OwnStep
  <2>4. QED BY <2>2, <2>3, FitOne
<1>7. Fit(n, D)
  <2> DEFINE x == SyncStep(prev[1])
  <2>1. D \in {<<>>, <<x>>}
    BY DEF SerialSync
  <2>2. OwnStep(n, x) /\ x.op # "configure"
    BY StepStarts DEF OwnStep
  <2> HIDE DEF x, D
  <2>3. QED BY <2>1, <2>2, FitOne
<1>8. Fit(n, <<e>>)
  <2>1. /\ IsSeq(ts) /\ Len(ts) = Len(movers) + 1 /\ Len(movers) \in Nat
        /\ \A i \in 1 .. Len(movers) : ts[i] = movers[i]
        /\ ts[Len(movers) + 1] = Accel(n)
    BY <1>3, Added, SeqFacts
  <2>2. \A t \in ToSet(ts) : \E i \in 1 .. Len(ts) : ts[i] = t
    BY <2>1, SeqFacts
  <2>3. e.op = "start" /\ e.tasks = ts
    BY StepStarts
  <2> HIDE DEF ts, movers
  <2>4. ASSUME NEW t \in ToSet(ts) PROVE ~IsDma(t.comp)
    <3>1. PICK i \in 1 .. Len(ts) : ts[i] = t
      BY <2>2
    <3>2. i \in 1 .. Len(movers) \/ i = Len(movers) + 1
      BY <2>1
    <3>3. QED BY <1>3, <1>5, <2>1, <3>1, <3>2
  <2> HIDE DEF e
  <2>5. OwnStep(n, e)
    BY <2>3, <2>4 DEF OwnStep, NoDma
  <2>6. QED BY <2>3, <2>5, FitOne
<1>9. Fit(n, F)
  <2> DEFINE one(i) == DmaSteps(Store(stores[i].data), {WriterOf(n, stores[i].data)})
             z == [i \in DOMAIN stores |-> one(i)]
  <2>1. IsSeq(stores)
    BY StoresAre
  <2>2. DOMAIN stores = 1 .. Len(stores) /\ Len(stores) \in Nat
    BY <2>1, SeqFacts
  <2>3. \A c : IsDma(Store(c).comp)
    BY DEF Store, Task, IsDma
  <2>4. ASSUME NEW i PROVE Fit(n, one(i))
    <3>1. \A a \in {WriterOf(n, stores[i].data)} : ~IsDma(a.comp) /\ a.name = <<"node", n>>
      BY OwnNames
    <3>2. QED BY <2>3, <3>1, FitDma
  <2>5. F = FlattenSeq(z)
    OBVIOUS
  <2> HIDE DEF stores, one, F
  <2>6. z = [i \in 1 .. Len(stores) |-> z[i]] /\ \A i \in 1 .. Len(stores) : z[i] = one(i)
    BY <2>2
  <2> HIDE DEF z
  <2>7. IsSeq(z) /\ Len(z) = Len(stores)
    BY <2>2, <2>6, OfLength
  <2>8. \A i \in 1 .. Len(z) : Fit(n, z[i])
    BY <2>4, <2>6, <2>7
  <2>9. QED BY <2>5, <2>7, <2>8, FitFlatten
<1> HIDE DEF A, B, C, D, F, e
<1>10. Fit(n, (A \o B) \o C)
  BY <1>2, <1>4, <1>6, FitConcat
<1>11. Fit(n, (((A \o B) \o C) \o D) \o <<e>>)
  <2> DEFINE G == (A \o B) \o C
  <2>1. Fit(n, G)
    BY <1>10
  <2> HIDE DEF G
  <2>2. Fit(n, (G \o D) \o <<e>>)
    BY <1>7, <1>8, <2>1, FitConcat
  <2>3. QED BY <2>2 DEF G
<1> DEFINE H == (((A \o B) \o C) \o D) \o <<e>>
<1>12. Fit(n, H) /\ steps' = H \o F
  BY <1>1, <1>11
<1> HIDE DEF H
<1>13. QED BY <1>9, <1>12, FitConcat

(* A task of a node derived before n, or a transfer.                       *)
NamedBelow(n, t) == IsDma(t.comp) \/ \E m \in 1 .. n - 1 : t.name = <<"node", m>>
Named ==
  /\ \A t \in Configured : NamedBelow(node, t)
  /\ \A i \in 1 .. Len(steps) : steps[i].op = "configure" => NamedBelow(node, steps[i].task)

(* A node's own tasks are none of those.                                   *)
LEMMA NotNamed ==
  ASSUME NEW n \in Nat, NEW t, ~IsDma(t.comp), t.name = <<"node", n>>
  PROVE  ~NamedBelow(n, t) /\ (n # 0 => NamedBelow(n + 1, t))
<1>1. ASSUME NEW m, <<"node", m>> = <<"node", n>> PROVE m = n
  <2>1. <<"node", m>>[2] = m /\ <<"node", n>>[2] = n
    OBVIOUS
  <2>2. QED BY <1>1, <2>1
<1>2. n # 0 => n \in 1 .. (n + 1) - 1
  OBVIOUS
<1>3. n \notin 1 .. n - 1
  OBVIOUS
<1>4. QED BY <1>1, <1>2, <1>3 DEF NamedBelow

(* Named below a node, named below the next.                               *)
LEMMA NamedOn ==
  ASSUME NEW n \in Nat, NEW t, NamedBelow(n, t) PROVE NamedBelow(n + 1, t)
<1>1. \A m \in 1 .. n - 1 : m \in 1 .. (n + 1) - 1
  OBVIOUS
<1>2. QED BY <1>1 DEF NamedBelow

(* Between two groups no transfer is pending: a node's own steps are       *)
(* scheduled.                                                              *)
LEMMA ScheduleNew ==
  ASSUME NEW con, NEW st, NEW cf, NEW ln, NEW cov, Schedule(<<>>, con, st, cf, ln, cov), st \subseteq con, cov \subseteq st,
         NEW n, NEW s, Fit(n, s), \A a \in con : ~IsDma(a.comp) => a.name # <<"node", n>>
  PROVE  Schedule(s, con, st, cf, ln, cov)
<1>1. ASSUME NEW t \in con \ st, IsDma(t.comp) PROVE FALSE
  <2>1. ToStart(<<>>, con, st, t)
    BY <1>1 DEF ToStart
  <2>2. \E j \in 1 .. Len(<<>>) : <<>>[j] = GoStep(<<t>>)
    BY <2>1 DEF Schedule
  <2>3. Len(<<>>) = 0
    BY EmptyIs
  <2>4. QED BY <2>2, <2>3
<1>2. \A i \in 1 .. Len(s) : OwnStep(n, s[i]) /\ Moved(s, s[i])
  BY DEF Fit
<1>3. \A i \in 1 .. Len(s) : s[i].op = "start" => DmaOnly(s[i]) \/ NoDma(s[i].tasks)
  BY <1>2 DEF OwnStep
<1>4. ASSUME NEW t, ToStart(s, con, st, t) PROVE \E j \in 1 .. Len(s) : s[j] = GoStep(<<t>>)
  <2>1. IsDma(t.comp) /\ \E i \in 1 .. Len(s) : s[i].op = "configure" /\ s[i].task = t
    BY <1>1, <1>4 DEF ToStart
  <2>2. PICK i \in 1 .. Len(s) : s[i].op = "configure" /\ s[i].task = t
    BY <2>1
  <2>3. Moved(s, s[i])
    BY <1>2
  <2>4. QED BY <2>1, <2>2, <2>3 DEF Moved
<1>5. ASSUME NEW a, OwedBy(s, con, st, cf, a) PROVE OwedMet(ln, cov, a) /\ a \notin st
  <2>1. PICK i \in 1 .. Len(s) : s[i].op = "configure" /\ IsDma(s[i].task.comp) /\ a \in s[i].after
    BY <1>1, <1>5 DEF OwedBy
  <2>2. ~IsDma(a.comp) /\ a.name = <<"node", n>>
    BY <1>2, <2>1 DEF OwnStep
  <2>3. a \notin con
    BY <2>2
  <2>4. QED BY <2>2, <2>3 DEF OwedMet
<1>6. QED BY <1>3, <1>4, <1>5 DEF Schedule

(* The walk writes a group as scheduled ...                                *)
LEMMA WalkCross ==
  ASSUME WalkInv, ListOK, CrossInv, Named, Walk
  PROVE  CrossInv' /\ Named'
<1>1. /\ steps = <<>> /\ node <= Len(Nodes) /\ node' = node + 1
      /\ UNCHANGED <<graph, design, conf, starts, covered, waited, lines>>
  BY DEF Walk, listVars
<1>2. node \in Nat /\ node # 0 /\ node \in 1 .. Len(Nodes) /\ GraphOK
  <2>1. IsSeq(Nodes)
    BY GraphIs DEF WalkInv
  <2>2. Len(Nodes) \in Nat
    BY <2>1, SeqFacts
  <2>3. QED BY <1>1, <2>2 DEF WalkInv
<1>3. Started' = Started /\ Configured' = Configured
  BY <1>1, SameOrder DEF Configured
<1>4. \A t \in Configured : NamedBelow(node', t)
  BY <1>1, <1>2, NamedOn DEF Named
<1>5. /\ Crossed(lines, Started, conf, waited) /\ Schedule(<<>>, Configured, Started, conf, lines, covered)
      /\ Started \subseteq Configured /\ covered \subseteq Started
  BY <1>1 DEF CrossInv, ListOK
<1>6. CASE Group(node)
  <2> DEFINE s == steps'
  <2>1. Fit(node, s)
    BY <1>2, <1>6, GroupFit
  <2>2. \A a \in Configured : ~IsDma(a.comp) => a.name # <<"node", node>>
    BY <1>2, NotNamed DEF Named
  <2>3. Schedule(s, Configured, Started, conf, lines, covered)
    <3> HIDE DEF s
    <3> QED BY <1>5, <2>1, <2>2, ScheduleNew
  <2>4. CrossInv'
    BY <1>1, <1>5, <2>3, CrossSteps
  <2>5. ASSUME NEW i \in 1 .. Len(s), s[i].op = "configure" PROVE NamedBelow(node', s[i].task)
    <3> DEFINE x == s[i]
    <3>1. OwnStep(node, x)
      BY <2>1 DEF Fit
    <3>2. x.op = "configure"
      BY <2>5
    <3> HIDE DEF x, s
    <3>3. CASE IsDma(x.task.comp)
      BY <3>3 DEF NamedBelow, x
    <3>4. CASE ~IsDma(x.task.comp)
      <4>1. x.task.name = <<"node", node>>
        BY <3>1, <3>2, <3>4 DEF OwnStep
      <4>2. QED BY <1>1, <1>2, <3>4, <4>1, NotNamed DEF x
    <3>5. QED BY <3>3, <3>4
  <2>6. Named'
    BY <1>3, <1>4, <2>5 DEF Named, NamedBelow, IsDma, DMA
  <2>7. QED BY <2>4, <2>6
<1>7. CASE UNCHANGED <<steps, inL1, readers, final, prev>>
  <2>1. CrossInv'
    BY <1>1, <1>5, <1>7, CrossSteps
  <2>2. \A i \in 1 .. Len(steps') : steps'[i].op = "configure" => NamedBelow(node', steps'[i].task)
    <3>1. Len(steps') = 0
      BY <1>1, <1>7, EmptyIs
    <3>2. QED BY <3>1
  <2>3. Named'
    BY <1>3, <1>4, <2>2 DEF Named, NamedBelow, IsDma, DMA
  <2>4. QED BY <2>1, <2>3
<1>8. QED BY <1>6, <1>7 DEF Walk

(* ... and at its end syncs alone.                                         *)
LEMMA FinishCross ==
  ASSUME WalkInv, ListOK, CrossInv, Named, Finish
  PROVE  CrossInv' /\ Named'
<1> DEFINE I == {i \in DOMAIN graph.containers : graph.containers[i] \in DOMAIN final \ graph.transient}
           written == Only(graph.containers, I)
           s == [i \in DOMAIN written |-> SyncStep(final[written[i]])]
<1>1. /\ steps = <<>> /\ node' = node + 1 /\ steps' = s /\ node \in Nat
      /\ UNCHANGED <<graph, design, conf, starts, covered, waited, lines>>
  BY DEF Finish, listVars, WalkInv
<1>2. IsSeq(written)
  BY GraphIs, OnlyIs DEF WalkInv
<1> HIDE DEF written
<1>3. DOMAIN written = 1 .. Len(written) /\ Len(written) \in Nat
  BY <1>2, SeqFacts
<1>4. s = [i \in 1 .. Len(written) |-> s[i]] /\ \A i \in 1 .. Len(written) : s[i] = SyncStep(final[written[i]])
  BY <1>3
<1> HIDE DEF s
<1>5. \A i \in 1 .. Len(written) : s[i].op = "sync"
  BY <1>4, StepStarts
<1>6. Fit(node, s) /\ IsSeq(s) /\ Len(s) = Len(written)
  <2>1. \A i \in 1 .. Len(written) : OwnStep(node, s[i]) /\ s[i].op # "configure"
    BY <1>5 DEF OwnStep
  <2>2. QED BY <1>3, <1>4, <2>1, FitMap, OfLength
<1>7. Started' = Started /\ Configured' = Configured
  BY <1>1, SameOrder DEF Configured
<1>8. /\ Crossed(lines, Started, conf, waited) /\ Schedule(<<>>, Configured, Started, conf, lines, covered)
      /\ Started \subseteq Configured /\ covered \subseteq Started
  BY <1>1 DEF CrossInv, ListOK
<1>9. \A a \in Configured : ~IsDma(a.comp) => a.name # <<"node", node>>
  BY <1>1, NotNamed DEF Named
<1>10. Schedule(s, Configured, Started, conf, lines, covered)
  BY <1>6, <1>8, <1>9, ScheduleNew
<1>11. CrossInv'
  BY <1>1, <1>8, <1>10, CrossSteps
<1>12. \A t \in Configured : NamedBelow(node', t)
  BY <1>1, NamedOn DEF Named
<1>13. \A i \in 1 .. Len(steps') : steps'[i].op # "configure"
  BY <1>1, <1>5, <1>6
<1>14. Named'
  BY <1>7, <1>12, <1>13 DEF Named, NamedBelow, IsDma, DMA
<1>15. QED BY <1>11, <1>14

(* The lowering configures the tasks the walk wrote.                       *)
LEMMA LowerNamed ==
  ASSUME Named, StepsAre, Lower, node' = node
  PROVE  Named'
<1>1. IsSeq(steps) /\ steps # <<>> /\ steps' = Tail(steps)
  BY DEF StepsAre, Lower
<1>2. Head(steps) = steps[1] /\ 1 \in 1 .. Len(steps)
  BY <1>1, TailIs
<1>3. \A i \in 1 .. Len(steps') : i + 1 \in 1 .. Len(steps) /\ steps'[i] = steps[i + 1]
  <2> DEFINE r == Tail(steps)
  <2>1. \A i \in 1 .. Len(r) : i + 1 \in 1 .. Len(steps) /\ r[i] = steps[i + 1]
    BY <1>1, TailIs
  <2>2. steps' = r
    BY <1>1
  <2> HIDE DEF r
  <2>3. QED BY <2>1, <2>2
<1>4. \A i \in 1 .. Len(steps') : steps'[i].op = "configure" => NamedBelow(node', steps'[i].task)
  BY <1>3 DEF Named
<1>5. \A t \in Configured' : NamedBelow(node', t)
  <2>1. CASE conf' = conf
    BY <2>1 DEF Named, Configured
  <2>2. CASE Head(steps).op = "configure"
             /\ conf' = [y \in Configured \cup {Head(steps).task} |-> IF y = Head(steps).task THEN Head(steps).after ELSE conf[y]]
    <3>1. Configured' = Configured \cup {Head(steps).task}
      BY <2>2 DEF Configured
    <3>2. NamedBelow(node, Head(steps).task)
      BY <1>2, <2>2 DEF Named
    <3>3. QED BY <3>1, <3>2 DEF Named
  <2>3. conf' = conf \/ /\ Head(steps).op = "configure"
                        /\ conf' = [y \in Configured \cup {Head(steps).task} |-> IF y = Head(steps).task THEN Head(steps).after ELSE conf[y]]
    BY DEF Lower, Configure, Start, Sync, Refuse, listVars
  <2>4. QED BY <2>1, <2>2, <2>3
<1>6. QED BY <1>4, <1>5 DEF Named, NamedBelow, IsDma, DMA

(* The cores have passed as many barriers.                                 *)
InStep == \A k, l \in Cores : Bars(lines[k], pc[k]) = Bars(lines[l], pc[l])

(* A cluster at rest has passed none.                                      *)
LEMMA RestInStep == AtRest => InStep
<1> SUFFICES ASSUME AtRest PROVE InStep
  OBVIOUS
<1>1. ASSUME NEW k \in Cores PROVE Bars(lines[k], pc[k]) = 0
  <2>1. pc[k] = 1
    BY DEF AtRest
  <2>2. {i \in 1 .. 1 - 1 : lines[k][i].op = "barrier"} = {}
    OBVIOUS
  <2>3. QED BY <2>1, <2>2, FS_EmptySet DEF Bars
<1>2. QED BY <1>1 DEF InStep

(* Cores at rest are in step.                                              *)
LEMMA RestNext == AtRest' => InStep'
  BY RestInStep, PTL

(* In step while no core goes on.                                          *)
LEMMA SameInStep ==
  ASSUME InStep, UNCHANGED <<lines, pc>> PROVE InStep'
  BY DEF InStep, Bars

(* A core goes on alone by no barrier ...                                  *)
LEMMA StepInStep ==
  ASSUME AsLowered, RunInv, InStep, NEW k \in Cores, Do(k), lines' = lines
  PROVE  InStep'
<1>1. PICK op \in {"config", "streamers", "start", "dma", "status", "busy", "dma_wait", "counter"} : Step(k, op)
  BY DEF Do, DoConfig, DoStreamers, DoStart, DoDma, DoPoll, DoCounter
<1>2. pc' = Further(pc, {k}) /\ pc[k] \in 1 .. Len(lines[k]) /\ lines[k][pc[k]].op = op
  BY <1>1, StepIs
<1>3. Bars(lines[k], pc[k] + 1) = Bars(lines[k], pc[k])
  <2>1. pc[k] \in Nat /\ pc[k] # 0 /\ lines[k][pc[k]].op # "barrier"
    BY <1>1, <1>2
  <2>2. QED BY <2>1, BarsAlong
<1>4. \A l \in Cores : Bars(lines[l], pc'[l]) = Bars(lines[l], pc[l])
  BY <1>2, <1>3 DEF Further
<1>5. \A l, m \in Cores : Bars(lines[l], pc'[l]) = Bars(lines[m], pc'[m])
  BY <1>4 DEF InStep
<1>6. \A l, m \in Cores : Bars(lines'[l], pc'[l]) = Bars(lines'[m], pc'[m])
  BY <1>5
<1>7. QED BY <1>6 DEF InStep, Bars

(* ... and all of them by one.                                             *)
LEMMA BarrierInStep ==
  ASSUME AsLowered, RunInv, InStep, DoBarrier, lines' = lines
  PROVE  InStep'
<1>1. ASSUME NEW k \in Cores PROVE Bars(lines[k], pc'[k]) = Bars(lines[k], pc[k]) + 1
  <2>1. pc'[k] = pc[k] + 1 /\ lines[k][pc[k]] = Barrier
    BY DEF DoBarrier, At
  <2>2. pc[k] \in 1 .. Len(lines[k]) + 1
    BY RunIs DEF PcsAre
  <2>3. pc[k] \in Nat /\ pc[k] # 0
    BY <2>2
  <2>4. lines[k][pc[k]].op = "barrier"
    BY <2>1 DEF Barrier, Instr
  <2>5. QED BY <2>1, <2>3, <2>4, BarsAlong
<1>2. \A l, m \in Cores : Bars(lines'[l], pc'[l]) = Bars(lines'[m], pc'[m])
  BY <1>1 DEF InStep
<1>3. QED BY <1>2 DEF InStep, Bars

(* Cores that have passed as many barriers keep what is said across them.  *)
LEMMA AcrossHolds ==
  ASSUME AsLowered, RunInv, InStep, TwoCores => AcrossAre(lines, Started, conf)
  PROVE  AfterHonoured
<1> SUFFICES ASSUME NEW t \in Launched, NEW a \in conf[t], ~a.idle PROVE a \in ended
  BY DEF AfterHonoured
<1> DEFINE k == CoreOf(t.comp)
           l == CoreOf(a.comp)
           L == lines[l]
           n == pc[k]
           m == pc[l]
<1>1. CASE k = l
  <2>1. AfterOnCore
    BY AfterHolds
  <2>2. QED BY <1>1, <2>1 DEF AfterOnCore
<1>2. CASE k # l
  <2>0. k \in Cores /\ l \in Cores /\ TwoCores
    <3>1. TwoCores
      BY <1>2 DEF CoreOf, TwoCores
    <3>2. QED BY <3>1, CoresIs, WrittenIs
  <2>1. /\ IsSeq(lines[k]) /\ n \in 1 .. Len(lines[k]) + 1 /\ Len(lines[k]) \in Nat
        /\ IsSeq(L) /\ m \in 1 .. Len(L) + 1 /\ Len(L) \in Nat
    BY <2>0, WrittenIs, RunIs, SeqFacts DEF LinesAre, PcsAre
  <2>2. PICK q \in 1 .. n - 1 : Goes(lines[k], q, t)
    BY RunIs DEF PassedAre
  <2>3. q \in 1 .. Len(lines[k]) /\ q \in Nat /\ n \in Nat /\ q <= n /\ m \in Nat
    <3> HIDE DEF k, L, n, m
    <3> QED BY <2>1
  <2>4. t \in Started
    BY <2>0, <2>2, <2>3, WrittenIs, GoesStarted
  <2>5. Safe(lines, k, q, a)
    BY <1>2, <2>0, <2>2, <2>3, <2>4 DEF AcrossAre
  <2>6. PICK i \in 1 .. Len(L) : Past(L, i, a) /\ Bars(L, i) < Bars(lines[k], q)
    BY <2>5 DEF Safe
  <2>7. Bars(lines[k], n) = Bars(L, m)
    BY <2>0 DEF InStep
  <2> HIDE DEF k, l, L, n, m
  <2>8. Bars(lines[k], q) <= Bars(lines[k], n) /\ Bars(lines[k], n) \in Nat /\ Bars(lines[k], q) \in Nat
    BY <2>3, BarsAlong
  <2>9. i \in Nat /\ Bars(L, i) \in Nat /\ Bars(L, m) \in Nat /\ (m <= i => Bars(L, m) <= Bars(L, i))
    BY <2>3, BarsAlong
  <2>10. i <= m
    BY <2>3, <2>6, <2>7, <2>8, <2>9
  <2>11. Past(L, m, a)
    BY <2>3, <2>6, <2>9, <2>10, PastOn
  <2>12. QED BY <2>11, PastEnded DEF l, L, m
<1>3. QED BY <1>1, <1>2

(* What is said of the program stays while nothing is lowered.             *)
LEMMA SameCross ==
  ASSUME CrossInv, Named, UNCHANGED <<design, conf, starts, covered, waited, lines, steps, node>>
  PROVE  CrossInv' /\ Named'
<1>1. CrossInv' /\ Started' = Started /\ Configured' = Configured
  BY CrossSteps DEF CrossInv
<1>2. QED BY <1>1 DEF Named, NamedBelow, IsDma, DMA

(* The inductive invariant of what two cores keep.                         *)
AcrossInv ==
  /\ DeriveInv /\ InStep /\ (running => ~refused)
  /\ refused \/ (TwoCores => CrossInv /\ Named)

(* It holds at first.                                                      *)
LEMMA AcrossInit == Init => AcrossInv
<1> SUFFICES ASSUME Init PROVE AcrossInv
  OBVIOUS
<1>1. DeriveInv
  BY DeriveInit
<1>2. /\ conf = <<>> /\ starts = <<>> /\ steps = <<>> /\ waited = {} /\ covered = {}
      /\ lines = [k \in Cores |-> <<>>] /\ ClusterInit /\ ~refused
  BY DEF Init, LowerInit
<1>3. AtRest /\ ~running
  BY <1>2 DEF ClusterInit, AtRest
<1>4. Len(<<>>) = 0 /\ DOMAIN <<>> = {} /\ IsSeq(<<>>)
  BY EmptyIs
<1>5. Started = {} /\ Configured = {}
  <2>1. Started \subseteq Configured
    BY <1>1 DEF DeriveInv, LowerInv, ListOK
  <2>2. QED BY <1>2, <1>4, <2>1 DEF Configured
<1>6. \A k \in Cores : lines[k] = <<>>
  BY <1>2
<1>7. Crossed(lines, Started, conf, waited)
  BY <1>2, <1>4, <1>5, <1>6 DEF Crossed, BarsAre, AcrossAre, TransfersMet
<1>8. Schedule(steps, Configured, Started, conf, lines, covered)
  BY <1>2, <1>4, <1>5 DEF Schedule, ToStart, OwedBy
<1>9. Named
  BY <1>2, <1>4, <1>5 DEF Named
<1>10. QED BY <1>1, <1>2, <1>3, <1>7, <1>8, <1>9, RestInStep DEF AcrossInv, CrossInv

(* Every step keeps it.                                                    *)
LEMMA AcrossNext == AcrossInv /\ [Next]_vars => AcrossInv'
<1> SUFFICES ASSUME AcrossInv, [Next]_vars PROVE AcrossInv'
  OBVIOUS
<1>0. /\ DeriveInv' /\ DeriveInv /\ InStep /\ (running => ~refused) /\ (refused \/ (TwoCores => CrossInv /\ Named))
      /\ LowerInv /\ ListOK /\ StepsAre /\ RunInv /\ AsLowered /\ WalkInv
      /\ (refused \/ InTurn(steps, prev, covered))
      /\ (running => steps = <<>>) /\ (~running => AtRest)
  BY DeriveWritten, DeriveNext DEF AcrossInv, DeriveInv, LowerInv, DerivePhases
<1>1. ASSUME UNCHANGED <<listVars, programVars, node>>
      PROVE  refused' \/ (TwoCores' => CrossInv' /\ Named')
  <2>1. TwoCores' <=> TwoCores
    BY <1>1 DEF TwoCores, listVars
  <2>2. refused' = refused
    BY <1>1 DEF programVars
  <2>3. QED BY <1>0, <1>1, <2>1, <2>2, SameCross DEF listVars, programVars
<1>2. ASSUME Walk \/ Finish PROVE AcrossInv'
  <2>1. ~refused /\ UNCHANGED <<listVars, covered, waited, lines, refused, clusterVars>>
    BY <1>2 DEF Walk, Finish
  <2>2. UNCHANGED <<design, lines, pc, running, refused>>
    BY <2>1 DEF listVars, clusterVars
  <2>3. TwoCores' <=> TwoCores
    BY <2>2 DEF TwoCores
  <2>4. TwoCores => CrossInv' /\ Named'
    BY <1>0, <1>2, <2>1, WalkCross, FinishCross
  <2>5. InStep'
    BY <1>0, <2>2, SameInStep
  <2>6. QED BY <1>0, <2>2, <2>3, <2>4, <2>5 DEF AcrossInv
<1>3. CASE LowerStep
  <2>1. Lower /\ UNCHANGED <<clusterVars, deriveVars>> /\ ~running /\ ~refused
    BY <1>0, <1>3 DEF LowerStep, Lower
  <2>2. design' = design /\ node' = node
    BY <2>1 DEF Lower, Configure, Start, Sync, Refuse, listVars, deriveVars
  <2>3. TwoCores' <=> TwoCores
    BY <2>2 DEF TwoCores
  <2>4. TwoCores => refused' \/ CrossInv'
    BY <1>0, <2>1, LowerCross
  <2>5. TwoCores => Named'
    BY <1>0, <2>1, <2>2, LowerNamed
  <2>6. AtRest' /\ ~running'
    BY <1>0, <2>1 DEF AtRest, clusterVars
  <2>7. QED BY <1>0, <2>3, <2>4, <2>5, <2>6, RestNext DEF AcrossInv
<1>4. CASE RunMain
  <2>1. /\ ~refused /\ running' = ~Unfinished /\ refused' = Unfinished
        /\ UNCHANGED <<listVars, covered, waited, lines, steps, deriveVars>> /\ pc' = pc
    BY <1>4 DEF RunMain, Run
  <2>2. UNCHANGED <<design, lines, pc, conf, starts, covered, waited, steps, node>>
    BY <2>1 DEF listVars, deriveVars
  <2>3. TwoCores' <=> TwoCores
    BY <2>2 DEF TwoCores
  <2>4. TwoCores => CrossInv' /\ Named'
    BY <1>0, <2>1, <2>2, SameCross
  <2>5. InStep'
    BY <1>0, <2>2, SameInStep
  <2>6. running' => ~refused'
    BY <2>1
  <2>7. QED BY <1>0, <2>3, <2>4, <2>5, <2>6 DEF AcrossInv
<1>5. ASSUME UNCHANGED <<listVars, programVars, node, running>>, InStep' PROVE AcrossInv'
  <2>1. refused' = refused
    BY <1>5 DEF programVars
  <2>2. running' = running
    BY <1>5
  <2>3. refused' \/ (TwoCores' => CrossInv' /\ Named')
    BY <1>1, <1>5
  <2>4. QED BY <1>0, <1>5, <2>1, <2>2, <2>3 DEF AcrossInv
<1>6. ASSUME NEW k \in Cores, CoreSteps(k) PROVE AcrossInv'
  <2>1. Do(k) /\ UNCHANGED <<listVars, programVars, node, running, lines>>
    BY <1>6 DEF CoreSteps, Off, programVars, deriveVars, Do, DoConfig, DoStreamers, DoStart, DoDma, DoPoll, DoCounter
  <2>2. InStep'
    BY <1>0, <2>1, StepInStep
  <2>3. QED BY <1>5, <2>1, <2>2
<1>7. CASE BarrierStep
  <2>1. DoBarrier /\ UNCHANGED <<listVars, programVars, node, running, lines>>
    BY <1>7 DEF BarrierStep, Off, programVars, deriveVars, DoBarrier
  <2>2. InStep'
    BY <1>0, <2>1, BarrierInStep
  <2>3. QED BY <1>5, <2>1, <2>2
<1>8. CASE DmaStep \/ EndStep \/ Stopped \/ UNCHANGED vars
  <2>1. UNCHANGED <<listVars, programVars, node, running, lines, pc>>
    BY <1>8 DEF DmaStep, DmaEnds, EndDma, EndStep, TaskEnds, EndTask, Stopped, Off, vars, programVars, deriveVars, clusterVars
  <2>2. InStep'
    BY <1>0, <2>1, SameInStep
  <2>3. QED BY <1>5, <2>1, <2>2
<1>9. QED BY <1>2, <1>3, <1>4, <1>6, <1>7, <1>8 DEF Next

(* The program of a derived list launches a task only when every task of   *)
(* its `after' is over, on whichever core it was started: past the barrier *)
(* after the polls of its component (lower/waits.py) the core that goes on *)
(* is behind the core that polled (lower/c.py).                            *)
THEOREM DerivedHonoursAfter == Spec => []AfterHonoured
<1>1. AcrossInv => AfterHonoured
  <2> SUFFICES ASSUME AcrossInv PROVE AfterHonoured
    OBVIOUS
  <2>1. /\ AsLowered /\ RunInv /\ InStep /\ (running => ~refused) /\ (~running => AtRest)
        /\ (refused \/ (TwoCores => CrossInv))
    BY DeriveWritten DEF AcrossInv, DeriveInv, DerivePhases
  <2>2. CASE refused
    <3>1. active = {} /\ queue = <<>> /\ ended = {}
      BY <2>1, <2>2 DEF AtRest
    <3>2. \A x \in ToSet(<<>>) : FALSE
      BY EmptyIs, SeqFacts
    <3>3. QED BY <3>1, <3>2 DEF AfterHonoured, Launched
  <2>3. CASE ~refused
    BY <2>1, <2>3, AcrossHolds DEF CrossInv, Crossed
  <2>4. QED BY <2>2, <2>3
<1>2. Init => AcrossInv
  BY AcrossInit
<1>3. AcrossInv /\ [Next]_vars => AcrossInv'
  BY AcrossNext
<1>4. QED BY <1>1, <1>2, <1>3, PTL DEF Spec
=============================================================================
