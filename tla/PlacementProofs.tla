---------------------------- MODULE PlacementProofs ----------------------------
(***************************************************************************)
(* The memory plan of any graph and pins, in any L1: what the passes place *)
(* is apart, and a fix that is followed holds.                             *)
(***************************************************************************)
EXTENDS Placement, WellFoundedInduction, FiniteSetTheorems, TLAPS

(* What holds at a, and one further wherever it holds, holds up to b: were  *)
(* there a number where it does not, there would be a first.               *)
LEMMA Upward ==
  ASSUME NEW a \in Int, NEW b \in Int, NEW S, a \in S,
         \A k \in a .. b - 1 : k \in S => k + 1 \in S
  PROVE  a .. b \subseteq S
<1> DEFINE T == {n \in Nat : a + n \in a .. b /\ a + n \notin S}
<1> SUFFICES ASSUME T # {} PROVE FALSE
  <2>1. ASSUME NEW k \in a .. b, k \notin S PROVE k - a \in T
    BY <2>1
  <2>2. QED BY <2>1
<1>1. PICK x \in T : \A y \in T : ~(<<y, x>> \in OpToRel(<, Nat))
  <2>1. T \subseteq Nat
    OBVIOUS
  <2> HIDE DEF T
  <2>2. QED BY <2>1, NatLessThanWellFounded, WFMin
<1>2. \A y \in T : ~(y < x)
  BY <1>1 DEF OpToRel
<1>3. x # 0 /\ x - 1 \in Nat /\ a + (x - 1) \in a .. b - 1 /\ (a + (x - 1)) + 1 = a + x
  OBVIOUS
<1>4. a + (x - 1) \in S
  BY <1>2, <1>3
<1>5. QED BY <1>3, <1>4

----------------------------------------------------------------------------
(* The inductive invariant.                                                *)

Multiple(x, a) == \E m \in Int : x = m * a
Pins == ByPin(graph, pins)
Free == {i \in Containers : Resident(i) /\ ~Pinned(i)}

GraphType == [bytes : Nat \ {0}, in : Residencies]
PinType == [of : Nat \ {0}, base : Int]

PlanTyped ==
  /\ graph \in Seq(GraphType) /\ pins \in Seq(PinType) /\ IsPinning(pins)
  /\ pc \in {"place", "accepted", "refused"}
  /\ at \in 1 .. Len(graph) + 1 /\ trying \in BOOLEAN
  /\ try \in Int /\ cursor \in Int /\ base \in [Containers -> Int]
  /\ rounds \in Nat /\ fixed \in Nat

(* The pinned are in L1 from the start, the others as they are reached.    *)
PlacedAre ==
  /\ placed = Pins \cup {i \in Free : i < at}
  /\ \A i \in Pins : base[i] = PinBase(pins, i)
  /\ trying => pc = "place" /\ at \in Free /\ ~UnknownPin
  /\ pc # "place" /\ ~UnknownPin => at = Len(graph) + 1

(* The others are in order, each on its alignment.                         *)
InOrder ==
  /\ L1Base <= cursor
  /\ trying => cursor <= try /\ Multiple(try, Align(at))
  /\ \A i \in Free : i < at =>
       /\ L1Base <= base[i] /\ Multiple(base[i], Align(i)) /\ base[i] + Room(i) <= cursor
       /\ \A j \in Free : i < j /\ j < at => base[i] + Room(i) <= base[j]

(* After a fix: some plan of the others clear of every pin stays before    *)
(* the pin that was moved, and the passes are never ahead of it.           *)
Before(P) ==
  /\ \A i \in Free : /\ L1Base <= P[i] /\ Multiple(P[i], Align(i))
                     /\ P[i] + Room(i) <= base[fixed]
                     /\ \A j \in Free : i < j => P[i] + Room(i) <= P[j]
                     /\ \A j \in Pins \ {fixed} :
                          ~Meet(P[i], P[i] + Room(i), base[j], base[j] + graph[j].bytes)
                     /\ i < at => base[i] + Room(i) <= base[fixed]
                     /\ i >= at => cursor <= P[i]
  /\ trying => try <= P[at]
MovedLast ==
  fixed # 0 => /\ fixed \in Pins /\ Multiple(base[fixed], Beat)
               /\ \A j \in Pins \ {fixed} : base[j] + graph[j].bytes <= base[fixed]
               /\ \E P \in [Containers -> Int] : Before(P)

PlanInv == PlanTyped /\ PlacedAre /\ InOrder /\ Apart /\ MovedLast

----------------------------------------------------------------------------
(* Rounding up to an alignment gives the least multiple that is not below. *)

LEMMA DivisionIs ==
  ASSUME NEW x \in Int, NEW a \in Nat \ {0}
  PROVE  \E q, r \in Int : /\ q = x \div a /\ r = x % a
                           /\ x = q * a + r /\ 0 <= r /\ r < a
<1>1. PICK q : q = x \div a
  OBVIOUS
<1>2. PICK r : r = x % a
  OBVIOUS
<1>3. q \in Int /\ r \in Int
  BY <1>1, <1>2
<1>4. x = q * a + r /\ 0 <= r /\ r < a
  BY <1>1, <1>2
<1>5. QED BY <1>1, <1>2, <1>3, <1>4

LEMMA RoundsUp ==
  ASSUME NEW x \in Int, NEW a \in Nat \ {0}
  PROVE  /\ RoundUp(x, a) \in Int /\ Multiple(RoundUp(x, a), a) /\ x <= RoundUp(x, a)
         /\ \A y \in Int : Multiple(y, a) /\ x <= y => RoundUp(x, a) <= y
<1>0. -x \in Int
  OBVIOUS
<1>1. PICK q, r \in Int : /\ q = (-x) \div a /\ r = (-x) % a
                         /\ -x = q * a + r /\ 0 <= r /\ r < a
  BY <1>0, DivisionIs
<1>2. RoundUp(x, a) = -q * a
  BY <1>1 DEF RoundUp
<1>3. -q * a = (-q) * a /\ -q \in Int /\ (-q) * a \in Int
  BY <1>1
<1>4. Multiple(RoundUp(x, a), a)
  BY <1>2, <1>3 DEF Multiple
<1>5. (-q) * a = x + r
  <2>1. (-q) * a = -(q * a) /\ q * a \in Int
    BY <1>1
  <2>2. QED BY <1>1, <2>1
<1>6. ASSUME NEW y \in Int, Multiple(y, a), x <= y
      PROVE  (-q) * a <= y
  <2>1. PICK m \in Int : y = m * a
    BY <1>6 DEF Multiple
  <2>2. CASE -q <= m
    <3>1. \A k, l \in Int : k <= l => k * a <= l * a
      OBVIOUS
    <3>2. QED BY <1>1, <1>3, <2>1, <2>2, <3>1
  <2>3. CASE ~(-q <= m)
    <3>1. m + 1 <= -q /\ m + 1 \in Int
      BY <1>1, <1>3, <2>3
    <3>2. \A k, l \in Int : k <= l => k * a <= l * a
      OBVIOUS
    <3>3. (m + 1) * a <= (-q) * a /\ (m + 1) * a = m * a + a /\ m * a \in Int
      BY <1>3, <3>1, <3>2
    <3>4. QED BY <1>1, <1>3, <1>5, <1>6, <2>1, <3>3
  <2>4. QED BY <2>2, <2>3
<1>7. QED BY <1>1, <1>2, <1>3, <1>4, <1>5, <1>6

LEMMA MultiplesAdd ==
  ASSUME NEW a \in Nat \ {0}, NEW x \in Int, NEW y \in Int, Multiple(x, a), Multiple(y, a)
  PROVE  Multiple(x + y, a) /\ Multiple(x - y, a)
<1>1. PICK m \in Int : x = m * a
  BY DEF Multiple
<1>2. PICK n \in Int : y = n * a
  BY DEF Multiple
<1>3. x + y = (m + n) * a /\ x - y = (m - n) * a
  BY <1>1, <1>2
<1>4. m + n \in Int /\ m - n \in Int
  OBVIOUS
<1>5. QED BY <1>3, <1>4 DEF Multiple

LEMMA NoRemainder ==
  ASSUME NEW a \in Nat \ {0}, NEW x \in Int, x % a = 0
  PROVE  Multiple(x, a)
<1>1. PICK q, r \in Int : r = x % a /\ x = q * a + r
  BY DivisionIs
<1>2. x = q * a
  BY <1>1
<1>3. QED BY <1>2 DEF Multiple

(* Some container of a set of them ends last.                              *)
LEMMA LastExists ==
  ASSUME NEW n \in Nat, NEW f \in [1 .. n -> Int], NEW S \in SUBSET (1 .. n), S # {}
  PROVE  \E i \in S : \A j \in S : f[j] <= f[i]
<1> DEFINE M == {m \in 0 .. n : (\E k \in S : k <= m) =>
                     \E i \in S : i <= m /\ \A j \in S : j <= m => f[j] <= f[i]}
<1>1. 0 \in M
  OBVIOUS
<1>2. ASSUME NEW m \in 0 .. n - 1, m \in M PROVE m + 1 \in M
  <2>1. /\ m + 1 \in 0 .. n /\ \A j \in S : f[j] \in Int /\ j \in Int
        /\ \A j \in S : j <= m + 1 <=> j <= m \/ j = m + 1
    OBVIOUS
  <2>2. CASE m + 1 \notin S
    BY <1>2, <2>1, <2>2
  <2>3. CASE m + 1 \in S
    <3>1. CASE ~\E k \in S : k <= m
      BY <2>1, <2>3, <3>1, SMTT(20)
    <3>2. CASE \E k \in S : k <= m
      <4>1. PICK i \in S : i <= m /\ \A j \in S : j <= m => f[j] <= f[i]
        BY <1>2, <3>2
      <4>2. CASE f[i] <= f[m + 1]
        <5>1. \A j \in S : j <= m + 1 => f[j] <= f[m + 1]
          BY <2>1, <2>3, <4>1, <4>2
        <5>2. QED BY <2>1, <2>3, <5>1
      <4>3. CASE ~(f[i] <= f[m + 1])
        <5>1. \A j \in S : j <= m + 1 => f[j] <= f[i]
          BY <2>1, <2>3, <4>1, <4>3
        <5>2. i <= m + 1
          BY <2>1, <4>1
        <5>3. QED BY <2>1, <4>1, <5>1, <5>2
      <4>4. QED BY <4>2, <4>3
    <3>3. QED BY <3>1, <3>2
  <2>4. QED BY <2>2, <2>3
<1>3. n \in M
  <2>1. 0 \in Int /\ n \in Int
    OBVIOUS
  <2>2. 0 .. n \subseteq M
    <3> HIDE DEF M
    <3>1. QED BY <1>1, <1>2, <2>1, Upward
  <2> HIDE DEF M
  <2>3. QED BY <2>2
<1>4. \A j \in S : j <= n
  OBVIOUS
<1>5. QED BY <1>3, <1>4

LEMMA ContainersAre ==
  ASSUME PlanTyped, NEW i \in Containers
  PROVE  /\ Containers = 1 .. Len(graph) /\ Len(graph) \in Nat
         /\ graph[i].bytes \in Nat \ {0} /\ graph[i].in \in Residencies
         /\ Align(i) \in Nat \ {0} /\ Room(i) \in Nat /\ graph[i].bytes <= Room(i)
         /\ base[i] \in Int
         /\ graph[i].in # "moved" => Room(i) = graph[i].bytes
         /\ graph[i].in = "moved" =>
              /\ Align(i) = Beat /\ Multiple(Room(i), Beat)
              /\ \A y \in Int : Multiple(y, Beat) /\ graph[i].bytes <= y => Room(i) <= y
<1>1. /\ Containers = 1 .. Len(graph) /\ Len(graph) \in Nat
      /\ graph[i].bytes \in Nat \ {0} /\ graph[i].in \in Residencies
      /\ base[i] \in Int
  <2>1. graph \in Seq(GraphType) /\ base \in [Containers -> Int] /\ DOMAIN graph = Containers
    BY DEF PlanTyped, Containers
  <2>3. DOMAIN graph = 1 .. Len(graph) /\ Len(graph) \in Nat /\ graph[i] \in GraphType
    BY <2>1
  <2>4. graph[i].bytes \in Nat \ {0} /\ graph[i].in \in Residencies
    BY <2>3 DEF GraphType
  <2>5. QED BY <2>1, <2>3, <2>4
<1>2. Word \in Nat \ {0} /\ Beat \in Nat \ {0}
  BY PlacementAssumption
<1>3. /\ RoundUp(graph[i].bytes, Beat) \in Int
      /\ Multiple(RoundUp(graph[i].bytes, Beat), Beat)
      /\ graph[i].bytes <= RoundUp(graph[i].bytes, Beat)
      /\ \A y \in Int : Multiple(y, Beat) /\ graph[i].bytes <= y
                          => RoundUp(graph[i].bytes, Beat) <= y
  <2>1. graph[i].bytes \in Int
    BY <1>1
  <2> DEFINE n == graph[i].bytes
  <2> HIDE DEF n
  <2>2. /\ RoundUp(n, Beat) \in Int /\ Multiple(RoundUp(n, Beat), Beat) /\ n <= RoundUp(n, Beat)
        /\ \A y \in Int : Multiple(y, Beat) /\ n <= y => RoundUp(n, Beat) <= y
    <3>1. n \in Int
      BY <2>1 DEF n
    <3>2. QED BY <1>2, <3>1, RoundsUp
  <2>3. QED BY <2>2 DEF n
<1>4. QED BY <1>1, <1>2, <1>3 DEF Align, Room

(* Past is a whole beat that no container in L1 ends after.                *)
LEMMA PastIs ==
  ASSUME PlanTyped, NEW S \in SUBSET Containers, placed = S, S # {}
  PROVE  /\ Past \in Int /\ Multiple(Past, Beat)
         /\ \A i \in placed : base[i] + graph[i].bytes <= Past
<1> DEFINE f == [i \in 1 .. Len(graph) |-> base[i] + graph[i].bytes]
           last == CHOOSE e \in Ends : \A g \in Ends : g <= e
<1>1. Containers = 1 .. Len(graph) /\ Len(graph) \in Nat
  BY ContainersAre
<1>2. \A i \in 1 .. Len(graph) : base[i] + graph[i].bytes \in Int
  BY <1>1, ContainersAre
<1>3. f \in [1 .. Len(graph) -> Int]
  BY <1>2
<1>4. PICK i \in placed : \A j \in placed : f[j] <= f[i]
  <2> HIDE DEF f
  <2> QED BY <1>1, <1>3, LastExists
<1>5. f[i] \in Ends /\ \A g \in Ends : g <= f[i]
  BY <1>1, <1>4 DEF Ends
<1>6. last \in Ends /\ \A g \in Ends : g <= last
  BY <1>5
<1>7. last \in Int
  BY <1>1, <1>2, <1>6 DEF Ends
<1>8. \A j \in placed : base[j] + graph[j].bytes <= last
  BY <1>6 DEF Ends
<1>9. Past = RoundUp(last, Beat) /\ Beat \in Nat \ {0}
  BY PlacementAssumption DEF Past
<1> HIDE DEF last
<1>10. Past \in Int /\ Multiple(Past, Beat) /\ last <= Past
  BY <1>7, <1>9, RoundsUp
<1>11. \A j \in placed : base[j] + graph[j].bytes \in Int
  BY <1>1, <1>2
<1>12. QED BY <1>7, <1>8, <1>10, <1>11

----------------------------------------------------------------------------
(* The plan before the passes: the pinned at their pins.                   *)

LEMMA SeqIs ==
  ASSUME NEW R, NEW s \in Seq(R)
  PROVE  DOMAIN s = 1 .. Len(s) /\ Len(s) \in Nat /\ \A k \in DOMAIN s : s[k] \in R
OBVIOUS

LEMMA PinBaseIs ==
  ASSUME NEW p \in Seq(PinType), IsPinning(p), NEW k \in DOMAIN p
  PROVE  PinBase(p, p[k].of) = p[k].base /\ p[k].base \in Int
<1>1. p[k] \in PinType
  BY SeqIs
<1>2. p[k].base \in Int
  BY <1>1 DEF PinType
<1> DEFINE l == CHOOSE l \in DOMAIN p : p[l].of = p[k].of
<1>3. l \in DOMAIN p /\ p[l].of = p[k].of
  OBVIOUS
<1>4. l = k
  BY <1>3 DEF IsPinning
<1>5. PinBase(p, p[k].of) = p[l].base
  BY DEF PinBase
<1>6. QED BY <1>2, <1>4, <1>5

LEMMA BasesAre ==
  ASSUME NEW g, NEW p \in Seq(PinType), IsPinning(p)
  PROVE  /\ Bases(g, p) \in [DOMAIN g -> Int]
         /\ \A i \in ByPin(g, p) : Bases(g, p)[i] = PinBase(p, i)
<1>1. ASSUME NEW i \in ByPin(g, p) PROVE PinBase(p, i) \in Int
  <2>1. PICK k \in DOMAIN p : p[k].of = i
    BY <1>1 DEF ByPin
  <2>2. QED BY <2>1, PinBaseIs
<1>2. L1Base \in Int
  BY PlacementAssumption
<1>3. QED BY <1>1, <1>2 DEF Bases, ByPin

LEMMA FreePinned ==
  /\ \A i \in Pins : Pinned(i) /\ Resident(i) /\ i \in Containers
  /\ \A i \in Containers : Pinned(i) /\ Resident(i) => i \in Pins
  /\ \A i \in Free : ~Pinned(i) /\ Resident(i) /\ i \in Containers /\ i \notin Pins
BY DEF Pins, Free, ByPin, Pinned, PinOf, Resident, Containers

Fresh ==
  /\ graph \in Seq(GraphType) /\ pins \in Seq(PinType) /\ IsPinning(pins)
  /\ pc = "place" /\ at = 1 /\ trying = FALSE /\ try = L1Base /\ cursor = L1Base
  /\ placed = ByPin(graph, pins) /\ base = Bases(graph, pins)
  /\ rounds \in Nat /\ fixed \in Nat

LEMMA FreshPlan == Fresh => PlanTyped /\ PlacedAre /\ InOrder /\ Apart
<1> SUFFICES ASSUME graph \in Seq(GraphType), pins \in Seq(PinType), IsPinning(pins),
                    pc = "place", at = 1, trying = FALSE, try = L1Base, cursor = L1Base,
                    placed = ByPin(graph, pins), base = Bases(graph, pins),
                    rounds \in Nat, fixed \in Nat
             PROVE  PlanTyped /\ PlacedAre /\ InOrder /\ Apart
  BY DEF Fresh
<1>1. L1Base \in Int
  BY PlacementAssumption
<1>2. Len(graph) \in Nat
  BY SeqIs
<1>3. /\ base \in [Containers -> Int]
      /\ \A i \in Pins : base[i] = PinBase(pins, i)
  BY BasesAre DEF Containers, Pins
<1>4. PlanTyped
  <2>1. trying \in BOOLEAN
    OBVIOUS
  <2>2. at \in 1 .. Len(graph) + 1
    BY <1>2
  <2>3. pc \in {"place", "accepted", "refused"}
    OBVIOUS
  <2>4. try \in Int /\ cursor \in Int
    BY <1>1
  <2>5. QED BY <1>3, <2>1, <2>2, <2>3, <2>4, Zenon DEF PlanTyped
<1>5. Containers = 1 .. Len(graph)
  BY SeqIs DEF Containers
<1>6. \A i \in Free : ~(i < 1) /\ i \in Nat
  BY <1>2, <1>5, FreePinned
<1>7. PlacedAre
  BY <1>3, <1>6 DEF PlacedAre, Pins
<1>8. InOrder
  BY <1>1, <1>6 DEF InOrder
<1>9. Apart
  BY FreePinned DEF Apart, Pins
<1>10. QED BY <1>4, <1>7, <1>8, <1>9

LEMMA PlanInit == Init => PlanInv
<1> SUFFICES ASSUME Init PROVE PlanInv
  OBVIOUS
<1>1. /\ graph \in Seq(GraphType) /\ pins \in Seq(PinType) /\ IsPinning(pins)
      /\ rounds \in Nat /\ fixed \in Nat /\ fixed = 0
  BY PlacementAssumption DEF Init, GraphType, PinType
<1>2. PlanTyped /\ PlacedAre /\ InOrder /\ Apart
  BY <1>1, FreshPlan DEF Init, Fresh
<1>3. MovedLast
  BY <1>1 DEF MovedLast
<1>4. QED BY <1>2, <1>3 DEF PlanInv

LEMMA SameGraph ==
  ASSUME UNCHANGED <<graph, pins>>
  PROVE  /\ Free' = Free /\ Pins' = Pins /\ Containers' = Containers
         /\ UnknownPin' <=> UnknownPin
         /\ \A i : /\ Align(i)' = Align(i) /\ Room(i)' = Room(i)
                   /\ Pinned(i)' <=> Pinned(i)
<1>1. graph' = graph /\ pins' = pins
  OBVIOUS
<1>2. Containers' = Containers /\ \A i : PinOf(i)' = PinOf(i)
  BY <1>1 DEF Containers, PinOf
<1>3. \A i : (Pinned(i)' <=> Pinned(i)) /\ (Resident(i)' <=> Resident(i))
  BY <1>1, <1>2 DEF Pinned, Resident
<1>4. Free' = Free
  BY <1>2, <1>3 DEF Free
<1>5. Pins' = Pins
  BY <1>1 DEF Pins
<1>6. \A i : Align(i)' = Align(i) /\ Room(i)' = Room(i)
  BY <1>1 DEF Align, Room
<1>7. UnknownPin' <=> UnknownPin
  BY <1>1, <1>2, <1>3 DEF UnknownPin
<1>8. QED BY <1>2, <1>3, <1>4, <1>5, <1>6, <1>7

----------------------------------------------------------------------------
(* The passes.                                                             *)

(* A step that moves no container: what is between the passes' place and   *)
(* the plan is all that has to be shown again.                             *)
Fits(t, n) == \A P \in [Containers -> Int] : fixed # 0 /\ Before(P) => t <= P[n]

LEMMA NothingPut ==
  ASSUME PlanInv, UNCHANGED <<graph, pins, placed, base, cursor, rounds, fixed>>,
         PlacedAre', at' \in 1 .. Len(graph) + 1, at' \in Nat,
         pc' \in {"place", "accepted", "refused"}, trying' \in BOOLEAN, try' \in Int,
         \A i \in Free : i < at' <=> i < at,
         trying' => cursor <= try' /\ Multiple(try', Align(at')) /\ Fits(try', at')
  PROVE  PlanInv'
<1>1. /\ Free' = Free /\ Pins' = Pins /\ Containers' = Containers
      /\ \A i : /\ Align(i)' = Align(i) /\ Room(i)' = Room(i)
                /\ Pinned(i)' <=> Pinned(i)
      /\ \A i \in Free : i \in Containers
  BY SameGraph, FreePinned
<1>2. PlanTyped'
  BY <1>1 DEF PlanInv, PlanTyped
<1>3. InOrder'
  BY <1>1 DEF PlanInv, InOrder
<1>4. Apart'
  BY <1>1 DEF PlanInv, Apart, Taken, Lo, Hi
<1>5. MovedLast'
  <2>1. SUFFICES ASSUME fixed # 0 PROVE MovedLast'
    BY <1>1 DEF MovedLast
  <2>2. /\ fixed \in Pins /\ Multiple(base[fixed], Beat)
        /\ \A j \in Pins \ {fixed} : base[j] + graph[j].bytes <= base[fixed]
    BY <2>1 DEF PlanInv, MovedLast
  <2>3. PICK P \in [Containers -> Int] : Before(P)
    BY <2>1 DEF PlanInv, MovedLast
  <2>4. \A i \in Free : i >= at' <=> i >= at
    <3>1. at \in Nat /\ \A i \in Free : i \in Nat
      <4>1. Len(graph) \in Nat /\ Containers = 1 .. Len(graph)
        BY SeqIs DEF PlanInv, PlanTyped, Containers
      <4>2. QED BY <1>1, <4>1 DEF PlanInv, PlanTyped
    <3>2. QED BY <3>1
  <2>5. trying' => try' <= P[at']
    BY <2>1, <2>3 DEF Fits
  <2>6. Before(P)'
    BY <1>1, <2>3, <2>4, <2>5 DEF Before
  <2>7. QED BY <1>1, <2>2, <2>3, <2>6 DEF MovedLast
<1>6. QED BY <1>2, <1>3, <1>4, <1>5 DEF PlanInv

LEMMA AtIs ==
  ASSUME PlanInv
  PROVE  /\ Len(graph) \in Nat /\ Containers = 1 .. Len(graph) /\ at \in Nat
         /\ at \in 1 .. Len(graph) + 1
         /\ \A i \in Free : i \in Nat /\ i \in Containers /\ i \notin Pins
         /\ PlanTyped /\ PlacedAre /\ InOrder /\ Apart /\ MovedLast
<1>1. Len(graph) \in Nat /\ Containers = 1 .. Len(graph)
  BY SeqIs DEF PlanInv, PlanTyped, Containers
<1>2. QED BY <1>1, FreePinned DEF PlanInv, PlanTyped

LEMMA PassKeeps == PlanInv /\ Pass => PlanInv'
<1> SUFFICES ASSUME PlanInv, Pass PROVE PlanInv'
  OBVIOUS
<1>1. /\ at \in Containers /\ at \notin Free /\ ~trying /\ pc = "place" /\ at' = at + 1
      /\ UNCHANGED <<graph, pins, pc, trying, try, cursor, placed, base, rounds, fixed>>
  BY DEF Pass, Placing, Free
<1>2. Free' = Free /\ Pins' = Pins /\ (UnknownPin' <=> UnknownPin)
  BY <1>1, SameGraph
<1>3. \A i \in Free : i < at + 1 <=> i < at
  BY <1>1, AtIs
<1>4. {i \in Free : i < at + 1} = {i \in Free : i < at}
  BY <1>3
<1>5. PlacedAre'
  BY <1>1, <1>2, <1>4, AtIs DEF PlacedAre
<1>6. at + 1 \in 1 .. Len(graph) + 1 /\ at + 1 \in Nat
  BY <1>1, AtIs
<1>7. /\ try' \in Int /\ trying' \in BOOLEAN /\ ~trying'
      /\ pc' \in {"place", "accepted", "refused"}
  BY <1>1 DEF PlanInv, PlanTyped
<1>8. QED BY <1>1, <1>3, <1>5, <1>6, <1>7, NothingPut

LEMMA TryKeeps == PlanInv /\ Try => PlanInv'
<1> SUFFICES ASSUME PlanInv, Try PROVE PlanInv'
  OBVIOUS
<1>1. /\ at \in Free /\ pc = "place" /\ trying' = TRUE /\ try' = RoundUp(cursor, Align(at))
      /\ ~UnknownPin
      /\ UNCHANGED <<graph, pins, pc, at, cursor, placed, base, rounds, fixed>>
  BY DEF Try, Placing, Free
<1>2. Free' = Free /\ Pins' = Pins /\ (UnknownPin' <=> UnknownPin)
  BY <1>1, SameGraph
<1>3. PlacedAre'
  BY <1>1, <1>2, AtIs DEF PlacedAre
<1>4. cursor \in Int /\ Align(at) \in Nat \ {0} /\ at \in Containers
  BY <1>1, AtIs, ContainersAre DEF PlanTyped
<1>5. /\ try' \in Int /\ Multiple(try', Align(at)) /\ cursor <= try'
      /\ \A y \in Int : Multiple(y, Align(at)) /\ cursor <= y => try' <= y
  BY <1>1, <1>4, RoundsUp
<1>6. ASSUME NEW P \in [Containers -> Int], Before(P) PROVE try' <= P[at]
  BY <1>1, <1>4, <1>5, <1>6, AtIs DEF Before
<1>7. Fits(try', at')
  BY <1>1, <1>6 DEF Fits
<1>8. QED BY <1>1, <1>3, <1>5, <1>7, AtIs, NothingPut

(* What a container being tried meets is a pinned one, when those tried    *)
(* before it end before where it is tried.                                 *)
LEMMA ClashesPinned ==
  ASSUME PlanInv, trying, NEW j \in Clashes(try)
  PROVE  /\ j \in Pins /\ Taken(j) = base[j] + graph[j].bytes
         /\ try < Taken(j) /\ base[j] < try + Room(at)
<1>1. /\ j \in Containers /\ j \in placed /\ try < Taken(j) /\ base[j] < try + Room(at)
      /\ try \in Int /\ cursor \in Int /\ base[j] \in Int /\ Room(j) \in Nat
  <2>1. j \in Containers /\ j \in placed /\ Meet(try, try + Room(at), base[j], Taken(j))
    BY DEF Clashes
  <2>2. QED BY <2>1, AtIs, ContainersAre DEF Meet, PlanTyped
<1>2. ASSUME j \notin Pins PROVE FALSE
  <2>1. j \in Free /\ j < at /\ ~Pinned(j)
    BY <1>1, <1>2, AtIs, FreePinned DEF PlacedAre
  <2>2. Taken(j) = base[j] + Room(j) /\ base[j] + Room(j) <= cursor /\ cursor <= try
    BY <2>1, AtIs DEF Taken, InOrder
  <2>3. QED BY <1>1, <2>2
<1>3. QED BY <1>1, <1>2, FreePinned DEF Taken

LEMMA BumpKeeps == PlanInv /\ Bump => PlanInv'
<1> SUFFICES ASSUME PlanInv, Bump PROVE PlanInv'
  OBVIOUS
<1>1. PICK j \in Clashes(try) : try' = RoundUp(Taken(j), Align(at))
  BY DEF Bump
<1>2. /\ trying /\ pc = "place"
      /\ UNCHANGED <<graph, pins, pc, at, trying, cursor, placed, base, rounds, fixed>>
  BY DEF Bump, Placing
<1>3. /\ at \in Free /\ at \in Containers /\ Align(at) \in Nat \ {0} /\ Room(at) \in Nat
      /\ try \in Int /\ cursor \in Int /\ cursor <= try /\ Multiple(try, Align(at))
  BY <1>2, AtIs, ContainersAre DEF PlacedAre, PlanTyped, InOrder
<1>4. /\ j \in Pins /\ j \in Containers /\ Taken(j) = base[j] + graph[j].bytes
      /\ try < Taken(j) /\ base[j] < try + Room(at)
  BY <1>2, ClashesPinned, FreePinned
<1>5. base[j] \in Int /\ graph[j].bytes \in Nat /\ Taken(j) \in Int
  BY <1>4, AtIs, ContainersAre
<1>6. /\ try' \in Int /\ Multiple(try', Align(at)) /\ Taken(j) <= try'
      /\ \A y \in Int : Multiple(y, Align(at)) /\ Taken(j) <= y => try' <= y
  BY <1>1, <1>3, <1>5, RoundsUp
<1>7. cursor <= try'
  BY <1>3, <1>4, <1>5, <1>6
<1>8. ASSUME NEW P \in [Containers -> Int], fixed # 0, Before(P) PROVE try' <= P[at]
  <2>1. /\ P[at] \in Int /\ try <= P[at] /\ Multiple(P[at], Align(at))
        /\ fixed \in Pins /\ base[fixed] \in Int /\ P[at] + Room(at) <= base[fixed]
    BY <1>2, <1>3, <1>8, AtIs, ContainersAre, FreePinned DEF Before, MovedLast
  <2>2. j # fixed
    BY <1>3, <1>4, <1>5, <2>1
  <2>3. ~Meet(P[at], P[at] + Room(at), base[j], base[j] + graph[j].bytes)
    BY <1>3, <1>4, <1>8, <2>2 DEF Before
  <2>4. Taken(j) <= P[at]
    BY <1>3, <1>4, <1>5, <2>1, <2>3 DEF Meet
  <2>5. QED BY <1>6, <2>1, <2>4
<1>9. Free' = Free /\ Pins' = Pins /\ (UnknownPin' <=> UnknownPin)
  BY <1>2, SameGraph
<1>10. PlacedAre'
  BY <1>2, <1>9, AtIs DEF PlacedAre
<1>11. Fits(try', at')
  BY <1>2, <1>8 DEF Fits
<1>12. QED BY <1>2, <1>6, <1>7, <1>10, <1>11, AtIs, NothingPut

LEMMA StopsKeep == PlanInv /\ (Judge \/ Refuse) => PlanInv'
<1> SUFFICES ASSUME PlanInv, Judge \/ Refuse PROVE PlanInv'
  OBVIOUS
<1>1. /\ pc = "place" /\ pc' \in {"accepted", "refused"}
      /\ at = Len(graph) + 1 \/ UnknownPin
      /\ UNCHANGED <<graph, pins, at, trying, try, cursor, placed, base, rounds, fixed>>
  BY DEF Judge, Refuse
<1>2. ~trying
  <2>1. CASE at = Len(graph) + 1
    BY <2>1, AtIs DEF PlacedAre
  <2>2. CASE UnknownPin
    BY <2>2, AtIs DEF PlacedAre
  <2>3. QED BY <1>1, <2>1, <2>2
<1>3. Free' = Free /\ Pins' = Pins /\ (UnknownPin' <=> UnknownPin)
  BY <1>1, SameGraph
<1>4. PlacedAre'
  BY <1>1, <1>2, <1>3, AtIs DEF PlacedAre
<1>5. try \in Int /\ trying \in BOOLEAN
  BY AtIs DEF PlanTyped
<1>6. QED BY <1>1, <1>2, <1>4, <1>5, AtIs, NothingPut

(* A container put where it is tried meets nothing in L1.                  *)
LEMMA PutKeeps == PlanInv /\ Put => PlanInv'
<1> SUFFICES ASSUME PlanInv, Put PROVE PlanInv'
  OBVIOUS
<1>1. /\ trying /\ pc = "place" /\ ~UnknownPin /\ Clashes(try) = {}
      /\ placed' = placed \cup {at} /\ base' = [base EXCEPT ![at] = try]
      /\ cursor' = try + Room(at) /\ at' = at + 1 /\ trying' = FALSE
      /\ UNCHANGED <<graph, pins, pc, try, rounds, fixed>>
  BY DEF Put, Placing
<1>2. /\ at \in Free /\ at \in Containers /\ Room(at) \in Nat /\ ~Pinned(at) /\ at \notin Pins
      /\ try \in Int /\ cursor \in Int /\ cursor <= try /\ Multiple(try, Align(at))
      /\ L1Base <= cursor /\ L1Base \in Int /\ base \in [Containers -> Int]
  BY <1>1, AtIs, ContainersAre, FreePinned, PlacementAssumption
     DEF PlacedAre, PlanTyped, InOrder
<1>3. /\ Free' = Free /\ Pins' = Pins /\ Containers' = Containers
      /\ UnknownPin' <=> UnknownPin
      /\ \A i : /\ Align(i)' = Align(i) /\ Room(i)' = Room(i)
                /\ Pinned(i)' <=> Pinned(i)
  BY <1>1, SameGraph
<1>4. /\ base' \in [Containers -> Int] /\ base'[at] = try
      /\ \A j \in Containers : j # at => base'[j] = base[j]
  BY <1>1, <1>2
<1>5. \A i \in Free : /\ i \in Containers /\ i \in Nat /\ Room(i) \in Nat /\ base[i] \in Int
                      /\ i < at + 1 <=> i < at \/ i = at
                      /\ i >= at + 1 <=> i > at
  BY <1>2, AtIs, ContainersAre
<1>6. PlanTyped'
  <2>1. at + 1 \in 1 .. Len(graph) + 1
    BY <1>2, AtIs
  <2>2. try + Room(at) \in Int
    BY <1>2
  <2>3. QED BY <1>1, <1>2, <1>3, <1>4, <2>1, <2>2, AtIs DEF PlanTyped
<1>7. PlacedAre'
  <2>1. {i \in Free : i < at + 1} = {i \in Free : i < at} \cup {at}
    BY <1>2, <1>5
  <2>2. placed = Pins \cup {i \in Free : i < at} /\ \A i \in Pins : base[i] = PinBase(pins, i)
    BY AtIs DEF PlacedAre
  <2>3. \A i \in Pins : i \in Containers /\ i # at
    BY <1>2, FreePinned
  <2>4. placed' = Pins \cup {i \in Free : i < at + 1}
    BY <1>1, <2>1, <2>2
  <2>5. \A i \in Pins : base'[i] = PinBase(pins, i)
    BY <1>4, <2>2, <2>3
  <2>6. QED BY <1>1, <1>3, <2>4, <2>5 DEF PlacedAre
<1>8. InOrder'
  <2>1. L1Base <= cursor' /\ cursor <= cursor' /\ cursor' \in Int
    BY <1>1, <1>2
  <2>2. ASSUME NEW i \in Free, i < at + 1
        PROVE  /\ L1Base <= base'[i] /\ Multiple(base'[i], Align(i))
               /\ base'[i] + Room(i) <= cursor'
               /\ \A j \in Free : i < j /\ j < at + 1 => base'[i] + Room(i) <= base'[j]
    <3>1. CASE i = at
      BY <1>1, <1>2, <1>4, <1>5, <3>1
    <3>2. CASE i < at
      <4>1. /\ L1Base <= base[i] /\ Multiple(base[i], Align(i)) /\ base[i] + Room(i) <= cursor
            /\ \A j \in Free : i < j /\ j < at => base[i] + Room(i) <= base[j]
        BY <3>2, AtIs DEF InOrder
      <4>2. base'[i] = base[i] /\ \A j \in Free : j < at => base'[j] = base[j]
        BY <1>2, <1>4, <1>5, <3>2
      <4>3. QED BY <1>2, <1>4, <1>5, <2>1, <4>1, <4>2
    <3>3. QED BY <1>5, <2>2, <3>1, <3>2
  <2>3. QED BY <1>1, <1>3, <2>1, <2>2 DEF InOrder
<1>9. Apart'
  <2>1. /\ placed \subseteq Containers /\ at \notin placed
    BY <1>2, <1>5, FreePinned, AtIs DEF PlacedAre
  <2>2. ASSUME NEW i \in placed', NEW j \in placed', i # j, ~Pinned(i)
        PROVE  ~Meet(base'[i], base'[i] + Room(i), base'[j],
                     base'[j] + IF Pinned(j) THEN graph[j].bytes ELSE Room(j))
    <3>1. CASE i # at /\ j # at
      <4>1. i \in placed /\ j \in placed /\ base'[i] = base[i] /\ base'[j] = base[j]
        BY <1>1, <1>4, <2>1, <3>1
      <4>2. ~Meet(Lo(i), Hi(i), Lo(j), Taken(j))
        BY <2>2, <4>1, AtIs DEF Apart
      <4>3. QED BY <4>1, <4>2 DEF Lo, Hi, Taken
    <3>2. CASE i = at
      <4>1. j \in placed /\ j \in Containers /\ base'[j] = base[j] /\ base'[i] = try
        BY <1>1, <1>4, <2>1, <2>2, <3>2
      <4>2. ~Meet(try, try + Room(at), base[j], Taken(j))
        BY <1>1, <4>1 DEF Clashes
      <4>3. QED BY <3>2, <4>1, <4>2 DEF Taken
    <3>3. CASE j = at
      <4>1. i \in placed /\ i \in Containers /\ base'[i] = base[i] /\ base'[j] = try
        BY <1>1, <1>4, <2>1, <2>2, <3>3
      <4>2. ~Meet(try, try + Room(at), base[i], Taken(i))
        BY <1>1, <4>1 DEF Clashes
      <4>3. ~Meet(base[i], base[i] + Room(i), try, try + Room(at))
        BY <2>2, <4>2 DEF Meet, Taken
      <4>4. QED BY <1>2, <3>3, <4>1, <4>3
    <3>4. QED BY <3>1, <3>2, <3>3
  <2>3. QED BY <1>1, <1>3, <2>2 DEF Apart, Lo, Hi, Taken
<1>10. MovedLast'
  <2>1. SUFFICES ASSUME fixed # 0 PROVE MovedLast'
    BY <1>1 DEF MovedLast
  <2>2. /\ fixed \in Pins /\ Multiple(base[fixed], Beat)
        /\ \A j \in Pins \ {fixed} : base[j] + graph[j].bytes <= base[fixed]
    BY <2>1, AtIs DEF MovedLast
  <2>3. PICK P \in [Containers -> Int] : Before(P)
    BY <2>1, AtIs DEF MovedLast
  <2>4. \A j \in Pins : j \in Containers /\ base'[j] = base[j]
    BY <1>2, <1>4, FreePinned
  <2>5. base[fixed] \in Int /\ P[at] \in Int /\ \A i \in Free : P[i] \in Int
    BY <1>2, <1>5, <2>2, <2>4
  <2>6. try <= P[at] /\ P[at] + Room(at) <= base[fixed]
    BY <1>1, <1>2, <2>3 DEF Before
  <2>7. ASSUME NEW i \in Free
        PROVE  /\ L1Base <= P[i] /\ Multiple(P[i], Align(i))
               /\ P[i] + Room(i) <= base[fixed]
               /\ \A j \in Free : i < j => P[i] + Room(i) <= P[j]
               /\ \A j \in Pins \ {fixed} :
                    ~Meet(P[i], P[i] + Room(i), base[j], base[j] + graph[j].bytes)
               /\ i < at => base[i] + Room(i) <= base[fixed]
    BY <2>3 DEF Before
  <2>8. ASSUME NEW i \in Free, i < at + 1 PROVE base'[i] + Room(i) <= base[fixed]
    <3>1. CASE i = at
      BY <1>2, <1>4, <2>5, <2>6, <3>1
    <3>2. CASE i < at
      BY <1>2, <1>4, <1>5, <2>7, <3>2
    <3>3. QED BY <1>5, <2>8, <3>1, <3>2
  <2>9. ASSUME NEW i \in Free, i >= at + 1 PROVE cursor' <= P[i]
    <3>1. P[at] + Room(at) <= P[i]
      BY <1>2, <1>5, <2>7, <2>9
    <3>2. QED BY <1>1, <1>2, <2>5, <2>6, <3>1
  <2>10. Before(P)'
    BY <1>1, <1>3, <2>2, <2>4, <2>7, <2>8, <2>9 DEF Before
  <2>11. QED BY <1>1, <1>3, <2>2, <2>3, <2>4, <2>10 DEF MovedLast
<1>11. QED BY <1>6, <1>7, <1>8, <1>9, <1>10 DEF PlanInv

----------------------------------------------------------------------------
(* The fix.                                                                *)

(* The pin that is moved is the last then, and the others keep their order *)
(* and their bases.                                                        *)
(* Where each of the moved pins was.                                       *)
Shift(n, k) == [l \in 1 .. n |-> IF l = n THEN k ELSE IF l < k THEN l ELSE l + 1]

LEMMA Shifts ==
  ASSUME NEW n \in Nat, NEW k \in 1 .. n
  PROVE  /\ \A l \in 1 .. n : Shift(n, k)[l] \in 1 .. n
         /\ \A l, r \in 1 .. n : Shift(n, k)[l] = Shift(n, k)[r] => l = r
         /\ \A r \in 1 .. n : \E l \in 1 .. n : Shift(n, k)[l] = r
<1>1. PICK m : m = Shift(n, k)
  OBVIOUS
<1>2. m = [l \in 1 .. n |-> IF l = n THEN k ELSE IF l < k THEN l ELSE l + 1]
  BY <1>1 DEF Shift
<1>3. \A l \in 1 .. n : m[l] \in 1 .. n
  BY <1>2
<1>4. \A l, r \in 1 .. n : m[l] = m[r] => l = r
  BY <1>2
<1>5. ASSUME NEW r \in 1 .. n PROVE \E l \in 1 .. n : m[l] = r
  <2>1. CASE r = k
    BY <1>2, <2>1
  <2>2. CASE r < k
    BY <1>2, <2>2, SMTT(20)
  <2>3. CASE r > k
    <3>1. r - 1 \in 1 .. n /\ m[r - 1] = r
      BY <1>2, <2>3
    <3>2. QED BY <3>1
  <2>4. QED BY <2>1, <2>2, <2>3
<1>6. QED BY <1>1, <1>3, <1>4, <1>5

LEMMA RepinIs ==
  ASSUME NEW p \in Seq(PinType), IsPinning(p), NEW k \in DOMAIN p, NEW b \in Int
  PROVE  /\ Repin(p, k, b) \in Seq(PinType) /\ IsPinning(Repin(p, k, b))
         /\ \A i : (\E l \in DOMAIN Repin(p, k, b) : Repin(p, k, b)[l].of = i)
                    <=> (\E l \in DOMAIN p : p[l].of = i)
         /\ PinBase(Repin(p, k, b), p[k].of) = b
         /\ \A l \in DOMAIN p : l # k => PinBase(Repin(p, k, b), p[l].of) = p[l].base
<1> DEFINE n == Len(p)
           new == [of |-> p[k].of, base |-> b]
           q == Repin(p, k, b)
<1>1. n \in Nat /\ DOMAIN p = 1 .. n /\ k \in 1 .. n /\ n \in 1 .. n
      /\ \A l \in 1 .. n : p[l] \in PinType
  BY SeqIs
<1>2. q = [l \in 1 .. n |-> IF l = n THEN new ELSE IF l < k THEN p[l] ELSE p[l + 1]]
  BY <1>1 DEF Repin
<1> HIDE DEF n, q
<1> DEFINE m == Shift(n, k)
<1>0. m = [l \in 1 .. n |-> IF l = n THEN k ELSE IF l < k THEN l ELSE l + 1]
  BY DEF Shift
<1>3. /\ \A l \in 1 .. n : m[l] \in 1 .. n
      /\ \A l, r \in 1 .. n : m[l] = m[r] => l = r
      /\ \A r \in 1 .. n : \E l \in 1 .. n : m[l] = r
  BY <1>1, Shifts
<1> HIDE DEF m
<1>4. new \in PinType /\ new.of = p[k].of /\ new.base = b
  BY <1>1 DEF PinType
<1>5. ASSUME NEW l \in 1 .. n
      PROVE  /\ q[l] \in PinType /\ q[l].of = p[m[l]].of
             /\ q[l].base = IF l = n THEN b ELSE p[m[l]].base
  <2>1. CASE l = n
    BY <1>0, <1>1, <1>2, <1>4, <2>1
  <2>2. CASE l # n
    <3>1. q[l] = p[m[l]]
      BY <1>0, <1>2, <2>2
    <3>2. QED BY <1>1, <1>3, <2>2, <3>1
  <2>3. QED BY <2>1, <2>2
<1> HIDE DEF new
<1>6. DOMAIN q = 1 .. n /\ q \in [1 .. n -> PinType]
  BY <1>2, <1>5
<1>7. q \in Seq(PinType)
  BY <1>1, <1>6
<1>8. IsPinning(q)
  <2>1. \A l \in 1 .. n : q[l].of \in Nat \ {0} /\ q[l].base \in Int
    BY <1>5 DEF PinType
  <2>2. \A l, r \in 1 .. n : p[l].of = p[r].of => l = r
    BY <1>1 DEF IsPinning
  <2>3. \A l, r \in 1 .. n : q[l].of = q[r].of => l = r
    <3> SUFFICES ASSUME NEW l \in 1 .. n, NEW r \in 1 .. n, q[l].of = q[r].of PROVE l = r
      OBVIOUS
    <3>1. p[m[l]].of = p[m[r]].of
      BY <1>5
    <3>2. m[l] \in 1 .. n /\ m[r] \in 1 .. n
      BY <1>3
    <3>3. m[l] = m[r]
      BY <2>2, <3>1, <3>2
    <3>4. QED BY <1>3, <3>3
  <2>4. QED BY <1>6, <2>1, <2>3 DEF IsPinning
<1>9. \A i : (\E l \in DOMAIN q : q[l].of = i) <=> (\E l \in DOMAIN p : p[l].of = i)
  <2> TAKE i
  <2>1. ASSUME NEW l \in DOMAIN q, q[l].of = i PROVE \E r \in DOMAIN p : p[r].of = i
    <3>1. m[l] \in DOMAIN p /\ p[m[l]].of = i
      BY <1>1, <1>3, <1>5, <1>6, <2>1
    <3>2. QED BY <3>1
  <2>2. ASSUME NEW r \in DOMAIN p, p[r].of = i PROVE \E l \in DOMAIN q : q[l].of = i
    <3>1. PICK l \in 1 .. n : m[l] = r
      BY <1>1, <1>3
    <3>2. l \in DOMAIN q /\ q[l].of = i
      BY <1>5, <1>6, <2>2, <3>1
    <3>3. QED BY <3>2
  <2>3. QED BY <2>1, <2>2
<1>10. PinBase(q, p[k].of) = b
  <2>1. n \in DOMAIN q /\ q[n].of = p[k].of /\ q[n].base = b
    BY <1>0, <1>1, <1>5, <1>6
  <2>2. QED BY <1>7, <1>8, <2>1, PinBaseIs
<1>11. ASSUME NEW l \in DOMAIN p, l # k PROVE PinBase(q, p[l].of) = p[l].base
  <2>1. PICK r \in 1 .. n : m[r] = l
    BY <1>1, <1>3
  <2>2. r # n
    BY <1>0, <1>11, <2>1
  <2>3. r \in DOMAIN q /\ q[r].of = p[l].of /\ q[r].base = p[l].base
    BY <1>5, <1>6, <2>1, <2>2
  <2>4. QED BY <1>7, <1>8, <2>3, PinBaseIs
<1>12. QED BY <1>7, <1>8, <1>9, <1>10, <1>11 DEF q

LEMMA LatestIs ==
  ASSUME PlanTyped, NEW i, NEW j, Pinned(i) \/ Pinned(j)
  PROVE  Latest(i, j) \in DOMAIN pins /\ pins[Latest(i, j)].of \in {i, j}
<1> DEFINE S == PinOf(i) \cup PinOf(j)
           f == [k \in 1 .. Len(pins) |-> k]
<1>1. Len(pins) \in Nat /\ DOMAIN pins = 1 .. Len(pins)
  BY SeqIs DEF PlanTyped
<1>2. S \in SUBSET (1 .. Len(pins)) /\ S # {} /\ \A k \in S : pins[k].of \in {i, j}
  BY <1>1 DEF PinOf, Pinned
<1>3. f \in [1 .. Len(pins) -> Int]
  BY <1>1
<1>4. PICK k \in S : \A l \in S : f[l] <= f[k]
  <2> HIDE DEF S, f
  <2> QED BY <1>1, <1>2, <1>3, LastExists
<1>5. \A l \in S : l <= k
  BY <1>2, <1>4
<1>6. Latest(i, j) = CHOOSE x \in S : \A l \in S : l <= x
  BY DEF Latest
<1>7. Latest(i, j) \in S
  <2> HIDE DEF S
  <2> QED BY <1>5, <1>6
<1>8. QED BY <1>1, <1>2, <1>7

LEMMA FixKeeps == PlanInv /\ FollowFix => PlanInv'
<1> SUFFICES ASSUME PlanInv, FollowFix PROVE PlanInv'
  OBVIOUS
<1>1. PICK i, j \in placed :
        /\ Overlap(i, j) /\ (Pinned(i) \/ Pinned(j))
        /\ pins' = Repin(pins, Latest(i, j), Past) /\ fixed' = pins[Latest(i, j)].of
  BY DEF FollowFix
<1>2. /\ pc = "refused" /\ ~UnknownPin /\ graph' = graph
      /\ placed' = ByPin(graph, pins') /\ base' = Bases(graph, pins')
      /\ pc' = "place" /\ at' = 1 /\ trying' = FALSE /\ try' = L1Base /\ cursor' = L1Base
      /\ rounds' = rounds + 1
  BY DEF FollowFix
<1> DEFINE k == Latest(i, j)
<1>3. k \in DOMAIN pins /\ pins[k].of \in placed
  BY <1>1, AtIs, LatestIs
<1>4. placed \subseteq Containers /\ placed # {}
  BY <1>1, AtIs, FreePinned DEF PlacedAre
<1>5. /\ Past \in Int /\ Multiple(Past, Beat)
      /\ \A c \in placed : base[c] + graph[c].bytes <= Past
  BY <1>4, AtIs, PastIs
<1> HIDE DEF k
<1>6. /\ pins \in Seq(PinType) /\ IsPinning(pins) /\ graph \in Seq(GraphType)
      /\ rounds + 1 \in Nat /\ base \in [Containers -> Int]
  BY AtIs DEF PlanTyped
<1>7. pins' = Repin(pins, k, Past)
  BY <1>1 DEF k
<1>8. /\ pins' \in Seq(PinType) /\ IsPinning(pins')
      /\ \A c : (\E l \in DOMAIN pins' : pins'[l].of = c) <=> (\E l \in DOMAIN pins : pins[l].of = c)
      /\ PinBase(pins', pins[k].of) = Past
      /\ \A l \in DOMAIN pins : l # k => PinBase(pins', pins[l].of) = pins[l].base
  <2> DEFINE q == Repin(pins, k, Past)
  <2>1. /\ q \in Seq(PinType) /\ IsPinning(q)
        /\ \A c : (\E l \in DOMAIN q : q[l].of = c) <=> (\E l \in DOMAIN pins : pins[l].of = c)
        /\ PinBase(q, pins[k].of) = Past
        /\ \A l \in DOMAIN pins : l # k => PinBase(q, pins[l].of) = pins[l].base
    BY <1>3, <1>5, <1>6, RepinIs
  <2> HIDE DEF q
  <2>2. pins' = q
    BY <1>7 DEF q
  <2>3. QED BY <2>1, <2>2
<1>9. fixed' = pins[k].of /\ fixed' \in Nat
  <2>1. pins[k] \in PinType
    BY <1>3, <1>6, SeqIs
  <2>2. QED BY <1>1, <2>1 DEF k, PinType
<1>10. PlanTyped' /\ PlacedAre' /\ InOrder' /\ Apart'
  <2>1. /\ graph' \in Seq(GraphType) /\ placed' = ByPin(graph', pins') /\ base' = Bases(graph', pins')
        /\ rounds' \in Nat
    BY <1>2, <1>6
  <2>2. Fresh'
    BY <1>2, <1>8, <1>9, <2>1 DEF Fresh
  <2>3. QED BY <2>2, FreshPlan, PTL
<1>11. /\ Pins' = Pins /\ Free' = Free /\ Containers' = Containers
       /\ \A c : Align(c)' = Align(c) /\ Room(c)' = Room(c)
  <2>1. Pins' = Pins
    BY <1>2, <1>8 DEF Pins, ByPin
  <2>2. \A c : Pinned(c)' <=> Pinned(c)
    BY <1>8 DEF Pinned, PinOf
  <2>3. QED BY <1>2, <2>1, <2>2 DEF Free, Containers, Resident, Align, Room
<1>12. /\ fixed' \in Pins /\ fixed' \in Containers
  <2>1. \A c \in placed : Resident(c) /\ c \in Containers
    BY AtIs, FreePinned DEF PlacedAre
  <2>2. QED BY <1>3, <1>9, <2>1 DEF Pins, ByPin, Resident, Containers
<1>13. base'[fixed'] = Past
  BY <1>2, <1>8, <1>9, <1>11, <1>12, BasesAre DEF Pins
<1>14. \A c \in Pins \ {fixed'} : base'[c] = base[c] /\ c \in placed /\ c \in Containers
  <2> SUFFICES ASSUME NEW c \in Pins \ {fixed'}
               PROVE  base'[c] = base[c] /\ c \in placed /\ c \in Containers
    OBVIOUS
  <2>1. PICK l \in DOMAIN pins : pins[l].of = c
    BY DEF Pins, ByPin
  <2>2. l # k
    BY <1>9, <2>1
  <2>3. PinBase(pins', c) = pins[l].base /\ PinBase(pins, c) = pins[l].base
    BY <1>6, <1>8, <2>1, <2>2, PinBaseIs
  <2>4. base[c] = PinBase(pins, c) /\ c \in placed
    BY AtIs DEF PlacedAre
  <2>5. base'[c] = PinBase(pins', c)
    BY <1>2, <1>8, <1>11, BasesAre DEF Pins
  <2>6. QED BY <1>4, <2>3, <2>4, <2>5
<1>15. at = Len(graph) + 1
  BY <1>2, AtIs DEF PlacedAre
<1>16. \A c \in Free : /\ c \in Containers /\ c \in placed /\ c < at /\ c \in Nat /\ ~Pinned(c)
                       /\ c >= 1
  BY <1>15, AtIs, FreePinned DEF PlacedAre
<1>17. ASSUME NEW c \in Free
       PROVE  /\ L1Base <= base[c] /\ Multiple(base[c], Align(c))
              /\ base[c] + Room(c) <= Past
              /\ \A d \in Free : c < d => base[c] + Room(c) <= base[d]
              /\ \A d \in Pins \ {fixed'} :
                   ~Meet(base[c], base[c] + Room(c), base'[d], base'[d] + graph[d].bytes)
  <2>1. /\ L1Base <= base[c] /\ Multiple(base[c], Align(c))
        /\ \A d \in Free : c < d => base[c] + Room(c) <= base[d]
    BY <1>16, AtIs DEF InOrder
  <2>2. base[c] + Room(c) <= Past
    <3>1. base[c] + graph[c].bytes <= Past /\ c \in Containers
      BY <1>5, <1>16
    <3>2. CASE graph[c].in # "moved"
      BY <3>1, <3>2, AtIs, ContainersAre
    <3>3. CASE graph[c].in = "moved"
      <4>1. /\ Align(c) = Beat /\ base[c] \in Int /\ graph[c].bytes \in Int /\ Room(c) \in Int
            /\ \A y \in Int : Multiple(y, Beat) /\ graph[c].bytes <= y => Room(c) <= y
        BY <3>1, <3>3, AtIs, ContainersAre
      <4>2. Multiple(Past - base[c], Beat)
        BY <1>5, <2>1, <4>1, MultiplesAdd, PlacementAssumption
      <4>3. Past - base[c] \in Int /\ graph[c].bytes <= Past - base[c]
        BY <1>5, <3>1, <4>1
      <4>4. Room(c) <= Past - base[c]
        BY <4>1, <4>2, <4>3
      <4>5. QED BY <1>5, <4>1, <4>4
    <3>4. QED BY <3>2, <3>3
  <2>3. ASSUME NEW d \in Pins \ {fixed'}
        PROVE  ~Meet(base[c], base[c] + Room(c), base'[d], base'[d] + graph[d].bytes)
    <3>1. /\ c \in placed /\ d \in placed /\ c # d /\ ~Pinned(c) /\ Pinned(d)
          /\ base'[d] = base[d]
      BY <1>14, <1>16, FreePinned
    <3>2. ~Meet(Lo(c), Hi(c), Lo(d), Taken(d))
      BY <3>1, AtIs DEF Apart
    <3>3. QED BY <3>1, <3>2 DEF Lo, Hi, Taken
  <2>4. QED BY <2>1, <2>2, <2>3
<1>18. PICK P \in [Containers -> Int] : P = base
  BY <1>6
<1>19. Before(P)'
  <2>1. \A c \in Free : ~(c < 1) /\ c >= 1
    BY <1>16
  <2>2. \A c \in Free : /\ L1Base <= P[c] /\ Multiple(P[c], Align(c)) /\ P[c] + Room(c) <= Past
                        /\ \A d \in Free : c < d => P[c] + Room(c) <= P[d]
                        /\ \A d \in Pins \ {fixed'} :
                             ~Meet(P[c], P[c] + Room(c), base'[d], base'[d] + graph[d].bytes)
    BY <1>17, <1>18
  <2>3. QED BY <1>2, <1>11, <1>13, <2>1, <2>2 DEF Before
<1>20. MovedLast'
  <2>1. Multiple(base'[fixed'], Beat)
    BY <1>5, <1>13
  <2>2. \A d \in Pins \ {fixed'} : base'[d] + graph[d].bytes <= Past
    BY <1>5, <1>14
  <2>3. QED BY <1>2, <1>11, <1>12, <1>13, <1>19, <2>1, <2>2 DEF MovedLast
<1>21. QED BY <1>10, <1>20 DEF PlanInv

----------------------------------------------------------------------------
(* The theorems.                                                           *)

LEMMA PlanKept == PlanInv /\ [Next]_vars => PlanInv'
<1> SUFFICES ASSUME PlanInv, [Next]_vars PROVE PlanInv'
  OBVIOUS
<1>1. CASE UNCHANGED vars
  <2>1. /\ UNCHANGED <<graph, pins, pc, at, trying, try, cursor, placed, base, rounds, fixed>>
    BY <1>1 DEF vars
  <2>2. Free' = Free /\ Pins' = Pins /\ (UnknownPin' <=> UnknownPin)
    BY <2>1, SameGraph
  <2>3. PlacedAre'
    BY <2>1, <2>2, AtIs DEF PlacedAre
  <2>4. trying => cursor <= try /\ Multiple(try, Align(at)) /\ Fits(try, at)
    BY AtIs DEF InOrder, Fits, Before
  <2>5. QED BY <2>1, <2>3, <2>4, AtIs, NothingPut DEF PlanTyped
<1>2. QED BY <1>1, PassKeeps, TryKeeps, BumpKeeps, PutKeeps, StopsKeep, FixKeeps DEF Next

LEMMA PlanHolds == Spec => []PlanInv
BY PlanInit, PlanKept, PTL DEF Spec

(* For any graph, pins and L1: the whole beats the DMA moves for what the  *)
(* passes place are no other's, and no pinned container's bytes, at every  *)
(* step of the placement and after every fix (memory.py:351-374).          *)
THEOREM PlacedApart == Spec => []Apart
BY PlanHolds, PTL DEF PlanInv

(* For any graph, pins and L1, and however many fixes were followed: with  *)
(* every container on its alignment, the pin a followed fix moved overlaps *)
(* nothing in the plan made again (check.py's fix, memory.py's passes).    *)
(* The plan it was refused for, without the pin, is one the passes are     *)
(* never ahead of, and it ends before where the fix put the pin.           *)
THEOREM FollowedFixHolds == Spec => []FixHolds
<1>1. PlanInv => FixHolds
  <2> SUFFICES ASSUME PlanInv, Judged, fixed # 0, \A i \in placed : ~Unaligned(i),
                      NEW j \in placed, Overlap(fixed, j)
               PROVE  FALSE
    BY DEF FixHolds
  <2>1. /\ fixed \in Pins /\ base[fixed] \in Int /\ Multiple(base[fixed], Beat)
        /\ \A i \in Pins \ {fixed} : base[i] + graph[i].bytes <= base[fixed]
        /\ \A i \in Free : i < at => base[i] + Room(i) <= base[fixed]
    BY AtIs, FreePinned, ContainersAre DEF MovedLast, Before
  <2>2. /\ j \in Containers /\ j # fixed /\ base[fixed] < base[j] + Room(j)
        /\ j \in Pins \/ (j \in Free /\ j < at)
    BY AtIs, FreePinned DEF Overlap, Meet, Lo, Hi, PlacedAre
  <2>3. /\ base[j] \in Int /\ Room(j) \in Nat /\ graph[j].bytes \in Int
    BY <2>2, AtIs, ContainersAre
  <2>4. CASE j \in Free /\ j < at
    BY <2>1, <2>2, <2>3, <2>4
  <2>5. CASE j \in Pins
    <3>1. base[j] + graph[j].bytes <= base[fixed]
      BY <2>1, <2>2, <2>5
    <3>2. CASE graph[j].in # "moved"
      BY <2>1, <2>2, <2>3, <3>1, <3>2, AtIs, ContainersAre
    <3>3. CASE graph[j].in = "moved"
      <4>1. \A y \in Int : Multiple(y, Beat) /\ graph[j].bytes <= y => Room(j) <= y
        BY <2>2, <3>3, AtIs, ContainersAre
      <4>2. Multiple(base[j], Beat)
        BY <2>3, <3>3, NoRemainder, PlacementAssumption DEF Unaligned
      <4>3. Multiple(base[fixed] - base[j], Beat)
        BY <2>1, <2>3, <4>2, MultiplesAdd, PlacementAssumption
      <4>4. base[fixed] - base[j] \in Int /\ graph[j].bytes <= base[fixed] - base[j]
        BY <2>1, <2>3, <3>1
      <4>5. Room(j) <= base[fixed] - base[j]
        BY <4>1, <4>3, <4>4
      <4>6. QED BY <2>1, <2>2, <2>3, <4>5
    <3>4. QED BY <3>2, <3>3
  <2>6. QED BY <2>2, <2>4, <2>5
<1>2. QED BY <1>1, PlanHolds, PTL
================================================================================
