------------------------------ MODULE Placement ------------------------------
(***************************************************************************)
(* snax_forge/design/memory.py: the memory plan of a design.  The default  *)
(* passes put every container of the graph in L1 in order, around the      *)
(* pinned ones; the memory checks of design/check.py judge the plan, and   *)
(* the fix a refused plan is given is followed.  Addresses are bytes, a    *)
(* container is its bytes over the padded shape, row-major from its base.  *)
(***************************************************************************)
EXTENDS Integers, Sequences

CONSTANTS
  Graphs,      \* sequences of containers: bytes, and whether moved by the DMA, local or in no memory
  Pinnings,    \* what --set pinned: sequences of a container's number and base, the latest last
  Word, Beat,  \* the bytes of a bank word and of the DMA's wide beat
  L1Base, L1End, Runtime,   \* L1's bytes, and those snRuntime keeps at its top
  Rounds       \* bound: the fixes followed

Residencies == {"moved", "local", "none"}
IsGraph(g) == \A i \in DOMAIN g : g[i].bytes \in Nat \ {0} /\ g[i].in \in Residencies
IsPinning(p) == /\ \A k \in DOMAIN p : p[k].of \in Nat \ {0} /\ p[k].base \in Int
                /\ \A k, l \in DOMAIN p : p[k].of = p[l].of => k = l
ASSUME PlacementAssumption ==
  /\ Graphs \subseteq Seq([bytes : Nat \ {0}, in : Residencies])
  /\ Pinnings \subseteq Seq([of : Nat \ {0}, base : Int])
  /\ \A p \in Pinnings : IsPinning(p)
  /\ Word \in Nat \ {0} /\ Beat \in Nat \ {0}
  /\ L1Base \in Int /\ L1End \in Int /\ Runtime \in Nat /\ Rounds \in Nat

VARIABLES
  graph, pins,    \* the containers and the pins
  pc,             \* "place", "judge", "accepted", "refused"
  at,             \* the container placed next
  trying, try,    \* whether it is being tried, and where
  cursor,         \* the end of the last one placed
  placed, base,   \* the containers in L1, and each one's base there
  rounds, fixed   \* the fixes followed, and the container the last one moved, 0 for none

vars == <<graph, pins, pc, at, trying, try, cursor, placed, base, rounds, fixed>>

Containers == DOMAIN graph
PinOf(i) == {k \in DOMAIN pins : pins[k].of = i}
Pinned(i) == PinOf(i) # {}
Resident(i) == graph[i].in # "none"

RoundUp(x, a) == -((-x) \div a) * a
Align(i) == IF graph[i].in = "moved" THEN Beat ELSE Word
(* The DMA moves whole beats: the end of the last one is the container's. *)
Room(i) == IF graph[i].in = "moved" THEN RoundUp(graph[i].bytes, Beat) ELSE graph[i].bytes

Meet(lo, hi, lo2, hi2) == lo < hi2 /\ lo2 < hi
(* What the placement keeps clear of: a pinned container's bytes, another's room. *)
Taken(j) == base[j] + (IF Pinned(j) THEN graph[j].bytes ELSE Room(j))
ClashesOfBytes(b) ==   \* mutant: a moved container's padding is not kept clear
  {j \in Containers : j \in placed /\ Meet(b, b + graph[at].bytes, base[j], Taken(j))}
Clashes(b) == {j \in Containers : j \in placed /\ Meet(b, b + Room(at), base[j], Taken(j))}

-----------------------------------------------------------------------------
ByPin(g, p) == {i \in DOMAIN g : g[i].in # "none" /\ \E k \in DOMAIN p : p[k].of = i}
PinBase(p, i) == LET k == CHOOSE k \in DOMAIN p : p[k].of = i IN p[k].base
Bases(g, p) == [i \in DOMAIN g |-> IF i \in ByPin(g, p) THEN PinBase(p, i) ELSE L1Base]

(* A pin of a container that lives in no memory, or of none, is refused    *)
(* before the passes are run.                                              *)
UnknownPin == \E k \in DOMAIN pins : ~(pins[k].of \in Containers /\ Resident(pins[k].of))

Init ==
  /\ graph \in Graphs /\ pins \in Pinnings
  /\ pc = "place" /\ at = 1 /\ trying = FALSE /\ try = L1Base /\ cursor = L1Base
  /\ placed = ByPin(graph, pins) /\ base = Bases(graph, pins)
  /\ rounds = 0 /\ fixed = 0

Refuse ==
  /\ pc = "place" /\ at = 1 /\ UnknownPin
  /\ pc' = "refused"
  /\ UNCHANGED <<graph, pins, at, trying, try, cursor, placed, base, rounds, fixed>>

Placing == pc = "place" /\ ~UnknownPin /\ at \in Containers

Pass ==   \* a pinned container, or one in no memory
  /\ Placing /\ ~trying /\ (Pinned(at) \/ ~Resident(at))
  /\ at' = at + 1
  /\ UNCHANGED <<graph, pins, pc, trying, try, cursor, placed, base, rounds, fixed>>

Try ==
  /\ Placing /\ ~trying /\ ~Pinned(at) /\ Resident(at)
  /\ trying' = TRUE /\ try' = RoundUp(cursor, Align(at))
  /\ UNCHANGED <<graph, pins, pc, at, cursor, placed, base, rounds, fixed>>

BumpBack ==   \* mutant: to where the clash begins
  /\ Placing /\ trying
  /\ \E j \in Clashes(try) : try' = RoundUp(base[j], Align(at))
  /\ UNCHANGED <<graph, pins, pc, at, trying, cursor, placed, base, rounds, fixed>>
Bump ==   \* past what it clashes with
  /\ Placing /\ trying
  /\ \E j \in Clashes(try) : try' = RoundUp(Taken(j), Align(at))
  /\ UNCHANGED <<graph, pins, pc, at, trying, cursor, placed, base, rounds, fixed>>

Put ==
  /\ Placing /\ trying /\ Clashes(try) = {}
  /\ placed' = placed \cup {at} /\ base' = [base EXCEPT ![at] = try]
  /\ cursor' = try + Room(at)
  /\ at' = at + 1 /\ trying' = FALSE
  /\ UNCHANGED <<graph, pins, pc, try, rounds, fixed>>

-----------------------------------------------------------------------------
(* The memory checks of a made plan.                                       *)

Lo(i) == base[i]
Hi(i) == base[i] + Room(i)
Limit == L1End - Runtime
Unaligned(i) == base[i] % Word # 0 \/ (graph[i].in = "moved" /\ base[i] % Beat # 0)
Unfit(i) == Lo(i) < L1Base \/ Hi(i) > L1End
OverRuntime(i) == ~Unfit(i) /\ Hi(i) > Limit
Overlap(i, j) == i # j /\ Meet(Lo(i), Hi(i), Lo(j), Hi(j))
Problems == \E i \in placed : Unaligned(i) \/ Unfit(i) \/ OverRuntime(i) \/ \E j \in placed : Overlap(i, j)

Judge ==
  /\ pc = "place" /\ at = Len(graph) + 1 /\ ~UnknownPin
  /\ pc' = (IF Problems THEN "refused" ELSE "accepted")
  /\ UNCHANGED <<graph, pins, at, trying, try, cursor, placed, base, rounds, fixed>>

(* The fix of an overlap with a pin: the latest pin of the two past        *)
(* everything (the ends without their padding), and the plan made again.   *)
Latest(i, j) == CHOOSE k \in PinOf(i) \cup PinOf(j) : \A l \in PinOf(i) \cup PinOf(j) : l <= k
EndsOfOthers == {base[i] + graph[i].bytes : i \in {j \in placed : ~Pinned(j)}} \cup {cursor}   \* mutant: the pins' not among them
Ends == {base[i] + graph[i].bytes : i \in placed}
Past == RoundUp(CHOOSE e \in Ends : \A f \in Ends : f <= e, Beat)
Repin(p, k, b) ==
  [l \in DOMAIN p |-> IF l = Len(p) THEN [of |-> p[k].of, base |-> b] ELSE IF l < k THEN p[l] ELSE p[l + 1]]
FollowFix ==
  /\ pc = "refused" /\ ~UnknownPin /\ rounds < Rounds
  /\ \E i, j \in placed :
       /\ i < j /\ Overlap(i, j) /\ (Pinned(i) \/ Pinned(j))
       /\ pins' = Repin(pins, Latest(i, j), Past)
       /\ fixed' = pins[Latest(i, j)].of
  /\ placed' = ByPin(graph, pins') /\ base' = Bases(graph, pins')
  /\ pc' = "place" /\ at' = 1 /\ trying' = FALSE /\ try' = L1Base /\ cursor' = L1Base
  /\ rounds' = rounds + 1
  /\ UNCHANGED graph

Next == Refuse \/ Pass \/ Try \/ Bump \/ Put \/ Judge \/ FollowFix

(* The passes are one sequential computation. *)
Spec == Init /\ [][Next]_vars /\ WF_vars(Refuse \/ Pass \/ Try \/ Bump \/ Put \/ Judge)

-----------------------------------------------------------------------------
Judged == pc \in {"accepted", "refused"} /\ ~UnknownPin

(* What the passes place is apart: the whole beats the DMA moves for one   *)
(* are no other's, and no pinned container's bytes (memory.py:351-374).    *)
Apart ==
  \A i, j \in placed :
    (i # j /\ ~Pinned(i)) => ~Meet(Lo(i), Hi(i), Lo(j), Taken(j))

(* A fix that is followed holds: with every pin on its alignment, the pin  *)
(* it moved overlaps nothing in the plan made again, though every other    *)
(* container may have moved.                                               *)
FixHolds == (Judged /\ fixed # 0 /\ \A i \in placed : ~Unaligned(i)) => \A j \in placed : ~Overlap(fixed, j)

(* The placement ends: going past one clash does not meet another forever. *)
AlwaysJudged == (pc = "place") ~> (pc # "place")

(* memory.py's doc: the placement puts everything else around the pinned   *)
(* layouts, never over them, and a layout the DMA moves keeps its last     *)
(* beat to itself.                                                         *)
NeverOverAPin ==
  Judged => \A i, j \in placed : (Pinned(i) /\ ~Unaligned(i) /\ ~Pinned(j)) => ~Overlap(i, j)
===============================================================================
