---------------------------- MODULE MCGroupData ----------------------------
(* The group descriptions the run takes, the catalogue's among them.       *)
EXTENDS GroupData, Sequences

Chain(latency, ii, span, fixedT, outer, depth) ==
  [n |-> Len(latency), latency |-> latency, ii |-> ii, span |-> span,
   fixedT |-> fixedT, outer |-> outer, depth |-> depth]

(* One unit: every latency to 3, ii to 3 and span to 2.                    *)
Singles ==
  {Chain(<<l>>, <<i>>, <<s>>, <<t>>, <<TRUE>>, <<>>) :
     l \in 0 .. 3, i \in 1 .. 3, s \in 1 .. 2, t \in {0, 1}}

(* Two units: every pair of latencies over every kind of link; and the     *)
(* second unit slow, or reading its beat lane by lane, or with ports.      *)
Pairs ==
  {Chain(<<l1, l2>>, <<1, 1>>, <<1, 1>>, <<0, 0>>, <<TRUE, FALSE>>, <<dp>>) :
     l1 \in 0 .. 2, l2 \in 0 .. 2, dp \in 0 .. 2}
  \cup {Chain(<<l, 1 - l>>, ii, sp, <<0, t>>, <<TRUE, ot>>, <<dp>>) :
     l \in 0 .. 1, dp \in 0 .. 1, t \in {1}, ot \in BOOLEAN,
     ii \in {<<1, 2>>, <<3, 1>>}, sp \in {<<1, 1>>, <<1, 2>>}}

(* Three units: wires a latency-0 unit borrows through, one after another, *)
(* and buffers between folds.                                              *)
Triples ==
  {Chain(<<0, l, 1>>, <<1, 1, 1>>, <<1, 1, 1>>, <<1, 0, 0>>, <<TRUE, FALSE, FALSE>>, dp) :
     l \in 0 .. 1, dp \in {<<0, 0>>, <<0, 1>>, <<2, 0>>}}

AllChains == Singles \cup Pairs \cup Triples

(* The catalogue's blocks (GroupData): latency 0 without a fold, or 1.     *)
T(l) == IF l = 0 THEN 1 ELSE 0
Designs ==
  {Chain(<<l1, l2>>, ii, <<1, 1>>, <<T(l1), T(l2)>>, <<TRUE, ot>>, <<dp>>) :
     l1 \in 0 .. 1, l2 \in 0 .. 1, dp \in 0 .. 2,
     ii \in {<<1, 2>>, <<2, 1>>}, ot \in BOOLEAN}
  \cup {Chain(<<l, 1>>, <<1, 1>>, <<1, 2>>, <<T(l), 0>>, <<TRUE, FALSE>>, <<dp>>) :
     l \in 0 .. 1, dp \in 0 .. 2}

ASSUME DesignsAssumption == \A D \in Designs : Catalogued(D)
Both == AllChains \cup Designs
=============================================================================
