------------------------------ MODULE MCDerive ------------------------------
(* Derive on small bound graphs: two nodes in every way of sharing units,  *)
(* accelerators and containers, and a few longer ones.                     *)
EXTENDS Derive

Dsg(order, acc, ins) ==
  [order |-> order, acc |-> acc, ins |-> ins, outs |-> [u \in DOMAIN acc |-> 1],
   dma |-> 1]
N(u, ins, out) == [unit |-> u, ins |-> ins, outs |-> <<out>>]
UV == <<"u", "v">>
Apart(a, b) == Dsg(UV, [u |-> "a", v |-> "b"], [u |-> a, v |-> b])
Together(a, b) == Dsg(UV, [u |-> "a", v |-> "a"], [u |-> a, v |-> b])
Alone(a) == Dsg(<<"u">>, [u |-> "a"], [u |-> a])
ABC == <<"A", "B", "C">>
G(D, nodes, transient) ==
  [design |-> D, nodes |-> nodes, linked |-> {}, containers |-> ABC,
   l2 |-> ToSet(ABC) \ transient, transient |-> transient]

(* The second node's container read and written; the first reads A, writes B. *)
Uses == {p \in ToSet(ABC) \X ToSet(ABC) : p[1] # p[2]}
Two(D, w) == {G(D, <<N("u", <<"A">>, "B"), N(w, <<p[1]>>, p[2])>>, t) : p \in Uses, t \in {{}, {"B"}}}
Pairs == Two(Apart(1, 1), "v") \cup Two(Together(1, 1), "v") \cup Two(Alone(1), "u")

(* Three nodes of two units in any order over the same three containers.   *)
Triples ==
  {G(D, <<N("u", <<"A">>, "B"), N(w[1], <<p[1]>>, p[2]), N(w[2], <<q[1]>>, q[2])>>, {}) :
     D \in {Apart(1, 1), Together(1, 1)}, w \in {<<"v", "u">>, <<"v", "v">>, <<"u", "v">>}, p \in Uses, q \in Uses}
Longer ==
  { G(Apart(1, 2), <<N("u", <<"A">>, "B"), N("v", <<"A", "B">>, "C"), N("u", <<"C">>, "A")>>, {"B"}),
    G(Together(2, 1), <<N("u", <<"A", "A">>, "B"), N("v", <<"C">>, "A"), N("u", <<"A", "B">>, "C")>>, {"B"}),
    G(Apart(1, 1), <<N("u", <<"A">>, "B"), N("u", <<"B">>, "C"), N("v", <<"C">>, "B")>>, {}) }

(* A linked group of two units, and between them a node that overwrites    *)
(* what the second of them reads.                                          *)
Hoisted ==
  { [design |-> Apart(2, 1), linked |-> {"u"},
     nodes |-> << [unit |-> "u", ins |-> <<"A">>, outs |-> <<>>], N("v", <<"A">>, "B"),
                  [unit |-> "u", ins |-> <<"B">>, outs |-> <<"C">>] >>,
     containers |-> ABC, l2 |-> {"A", "B", "C"}, transient |-> {}] }
Linked ==
  { [design |-> Apart(2, 1), linked |-> {"u"},
     nodes |-> << [unit |-> "u", ins |-> <<"A">>, outs |-> <<>>],
                  [unit |-> "u", ins |-> <<"B">>, outs |-> <<"C">>], N("v", <<"C">>, "A") >>,
     containers |-> ABC, l2 |-> {"A", "B", "C"}, transient |-> {}] }
Bound == Pairs \cup Triples \cup Longer \cup Linked
=============================================================================
