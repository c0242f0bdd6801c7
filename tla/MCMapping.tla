----------------------------- MODULE MCMapping -----------------------------
EXTENDS Readback

(* The kernels: dot, a chain, matvec, a stencil over a part of its arrays, *)
(* axpy, a vector add, two sums and a dot with an add between its two.     *)
Cont(shape, bits, transient) == [shape |-> shape, bits |-> bits, transient |-> transient, local |-> {}]
A == <<"A">>  B == <<"B">>  X == <<"x">>  Y == <<"y">>  O == <<"out">>  Tmp == <<"tmp0">>  Tmp1 == <<"tmp1">>
Add == <<"add_map">>  Mult == <<"mult_map">>  Mult1 == <<"mult_map_1">>  Sum == <<"sum_map">>  Sum1 == <<"sum_map_1">>
V(m) == Index(0, m :> 1)

Dot(n) ==
  [maps |-> Mult :> Map(0, n) @@ Sum :> Map(0, n),
   nodes |-> <<Tasklet(<<"mult">>, <<Mult>>, "mul", <<Memlet(A, <<V(Mult)>>), Memlet(B, <<V(Mult)>>)>>,
                       Memlet(Tmp, <<V(Mult)>>), {}),
               Tasklet(<<"sum">>, <<Sum>>, "copy", <<Memlet(Tmp, <<V(Sum)>>)>>,
                       Memlet(O, <<Index(0, <<>>)>>), {"add"})>>,
   conts |-> A :> Cont(<<n>>, 6, FALSE) @@ B :> Cont(<<n>>, 6, FALSE)
             @@ Tmp :> Cont(<<n>>, 6, TRUE) @@ O :> Cont(<<1>>, 8, FALSE)]
MultAdd(n) == \* a chain of three: multiply, add, sum
  [maps |-> Mult :> Map(0, n) @@ Add :> Map(0, n) @@ Sum :> Map(0, n),
   nodes |-> <<Tasklet(<<"mult">>, <<Mult>>, "mul", <<Memlet(A, <<V(Mult)>>), Memlet(B, <<V(Mult)>>)>>,
                       Memlet(Tmp, <<V(Mult)>>), {}),
               Tasklet(<<"add">>, <<Add>>, "add", <<Memlet(Tmp, <<V(Add)>>), Memlet(X, <<V(Add)>>)>>,
                       Memlet(Tmp1, <<V(Add)>>), {}),
               Tasklet(<<"sum">>, <<Sum>>, "copy", <<Memlet(Tmp1, <<V(Sum)>>)>>,
                       Memlet(O, <<Index(0, <<>>)>>), {"add"})>>,
   conts |-> A :> Cont(<<n>>, 6, FALSE) @@ B :> Cont(<<n>>, 6, FALSE) @@ X :> Cont(<<n>>, 6, FALSE)
             @@ Tmp :> Cont(<<n>>, 6, TRUE) @@ Tmp1 :> Cont(<<n>>, 6, TRUE) @@ O :> Cont(<<1>>, 8, FALSE)]
MatVec(r, n) ==
  [maps |-> Mult :> Map(0, r) @@ Mult1 :> Map(0, n) @@ Sum :> Map(0, r) @@ Sum1 :> Map(0, n),
   nodes |-> <<Tasklet(<<"mult">>, <<Mult, Mult1>>, "mul",
                       <<Memlet(A, <<V(Mult), V(Mult1)>>), Memlet(X, <<V(Mult1)>>)>>,
                       Memlet(Tmp, <<V(Mult), V(Mult1)>>), {}),
               Tasklet(<<"sum">>, <<Sum, Sum1>>, "copy", <<Memlet(Tmp, <<V(Sum), V(Sum1)>>)>>,
                       Memlet(O, <<V(Sum)>>), {"add"})>>,
   conts |-> A :> Cont(<<r, n>>, 6, FALSE) @@ X :> Cont(<<n>>, 6, FALSE)
             @@ Tmp :> Cont(<<r, n>>, 6, TRUE) @@ O :> Cont(<<r>>, 8, FALSE)]
Jacobi(n) ==
  [maps |-> Mult :> Map(1, n - 2),
   nodes |-> <<Tasklet(<<"add">>, <<Mult>>, "add",
                       <<Memlet(A, <<Index(-1, Mult :> 1)>>), Memlet(A, <<Index(1, Mult :> 1)>>)>>,
                       Memlet(B, <<V(Mult)>>), {})>>,
   conts |-> A :> Cont(<<n>>, 6, FALSE) @@ B :> Cont(<<n>>, 8, FALSE)]
Axpy(n) ==
  [maps |-> Mult :> Map(0, n),
   nodes |-> <<Tasklet(<<"add">>, <<Mult>>, "add", <<Memlet(X, <<V(Mult)>>), Memlet(Y, <<V(Mult)>>)>>,
                       Memlet(Y, <<V(Mult)>>), {})>>,
   conts |-> X :> Cont(<<n>>, 6, FALSE) @@ Y :> Cont(<<n>>, 6, FALSE)]

VecAdd(n) ==
  [maps |-> Mult :> Map(0, n),
   nodes |-> <<Tasklet(<<"add">>, <<Mult>>, "add", <<Memlet(A, <<V(Mult)>>), Memlet(B, <<V(Mult)>>)>>,
                       Memlet(O, <<V(Mult)>>), {})>>,
   conts |-> A :> Cont(<<n>>, 6, FALSE) @@ B :> Cont(<<n>>, 6, FALSE) @@ O :> Cont(<<n>>, 6, FALSE)]
Sums(n, k) == \* two sums, of n and of k elements
  LET sum(id, m, from, to) == Tasklet(id, <<m>>, "copy", <<Memlet(from, <<V(m)>>)>>,
                                      Memlet(to, <<Index(0, <<>>)>>), {"add"})
  IN [maps |-> Sum :> Map(0, n) @@ Sum1 :> Map(0, k),
      nodes |-> <<sum(<<"sum">>, Sum, A, O), sum(<<"sum_1">>, Sum1, B, Y)>>,
      conts |-> A :> Cont(<<n>>, 6, FALSE) @@ B :> Cont(<<k>>, 6, FALSE)
                @@ O :> Cont(<<1>>, 8, FALSE) @@ Y :> Cont(<<1>>, 8, FALSE)]

(* A link past another unit: multiply and sum linked, an add between them. *)
Past(n) ==
  LET dot == Dot(n)
  IN [maps |-> dot.maps @@ Add :> Map(0, n),
      nodes |-> <<dot.nodes[1],
                  Tasklet(<<"add">>, <<Add>>, "add", <<Memlet(X, <<V(Add)>>), Memlet(X, <<V(Add)>>)>>,
                          Memlet(Y, <<V(Add)>>), {}),
                  dot.nodes[2]>>,
      conts |-> dot.conts @@ X :> Cont(<<n>>, 6, FALSE) @@ Y :> Cont(<<n>>, 6, FALSE)]
Read(g, c) == \E n \in ToSet(g.nodes) : \E x \in ToSet(n.in) : x.data = c
Values(g) == [c \in DOMAIN g.conts |-> [at \in Cells(g.conts[c].shape) |->
                IF ~ Read(g, c) THEN 0
                ELSE Wrap(IF Len(at) = 1 THEN 3 * at[1] * at[1] + Len(c[1]) * 5 + 1
                          ELSE 7 * at[1] - 4 * at[2] + 2, g.conts[c].bits)]]
K(g, factors, splits, neutral, symbolic) ==
  [graph |-> g, inputs |-> Values(g), factors |-> factors, splits |-> splits, neutral |-> neutral,
   symbolic |-> symbolic]
(* How far each goes: what it is split by, the depth its maps and units    *)
(* may add to the imported one, and whether the steps that only rename     *)
(* maps are taken on it.                                                   *)
Small ==
  "dot" :> K(Dot(4), {2}, 3, FALSE, TRUE) @@ "dot_tail" :> K(Dot(5), {2}, 2, TRUE, FALSE)
  @@ "dot_pads" :> K(Dot(5), {2, 4}, 2, FALSE, TRUE)
  @@ "chain" :> K(MultAdd(2), {2}, 0, TRUE, FALSE) @@ "matvec" :> K(MatVec(2, 2), {2}, 1, TRUE, TRUE)
  @@ "jacobi" :> K(Jacobi(6), {2}, 2, TRUE, TRUE) @@ "axpy" :> K(Axpy(5), {2}, 2, TRUE, TRUE)
  @@ "vecadd" :> K(VecAdd(8), {4}, 1, FALSE, TRUE) @@ "sums" :> K(Sums(4, 2), {2}, 2, FALSE, TRUE)
  @@ "past" :> K(Past(2), {2}, 0, TRUE, FALSE)
(* What the code does not do: beside those, the sums with literal sizes.   *)
Limits == Small @@ "sums_fixed" :> K(Sums(4, 2), {2}, 2, FALSE, FALSE)
SameNames == Permutations(Instances)
=============================================================================
