---------------------------- MODULE GroupProofs ----------------------------
(***************************************************************************)
(* What holds of a group's control rule, for every description, width and  *)
(* start: its types and rings; what a run of it does (its books balance,   *)
(* its narrow counters decide as the counts would, it is done when its     *)
(* work is, it implements GroupRun); its combinational signals (the two    *)
(* passes have one solution in every state, and in a run they always move  *)
(* something); and, last, what the catalogue's datapaths compute under it: *)
(* each result is the fold of its own job's beats.                         *)
(***************************************************************************)
EXTENDS GroupData, FiniteSetTheorems, TLAPS

----------------------------------------------------------------------------
(* Induction over a set of numbers rather than over a predicate, and along *)
(* a range of them.                                                        *)

(* Were x the first number out of S, adding one would map 0 .. x - 1 into  *)
(* itself without 0: an injection of a finite set into a smaller one.      *)
LEMMA SetInduction ==
  ASSUME NEW S, 0 \in S, \A n \in Nat : n \in S => n + 1 \in S
  PROVE  Nat \subseteq S
<1> SUFFICES ASSUME NEW x \in Nat, x \notin S PROVE FALSE
  OBVIOUS
<1> DEFINE U == {n \in 0 .. x : \A m \in 0 .. n : m \in S}
           f == [n \in U |-> n + 1]
<1>1. 0 \in U /\ \A n \in U : n + 1 \in U \ {0}
  OBVIOUS
<1>2. /\ IsFiniteSet(U) /\ IsFiniteSet(U \ {0}) /\ Cardinality(U) \in Nat
      /\ Cardinality(U \ {0}) = Cardinality(U) - 1
  <2>1. U \subseteq 0 .. x /\ IsFiniteSet(0 .. x)
    BY FS_Interval
  <2>2. IsFiniteSet(U)
    BY FS_Subset, <2>1
  <2> HIDE DEF U
  <2>3. QED BY <2>2, <1>1, FS_RemoveElement, FS_CardinalityType
<1>3. f \in [U -> U \ {0}]
  BY <1>1
<1>4. \A m, n \in U : f[m] = f[n] => m = n
  OBVIOUS
<1> HIDE DEF U, f
<1>5. QED BY <1>2, <1>3, <1>4, FS_PigeonHole

(* Upwards from a to b ...                                                 *)
LEMMA Upward ==
  ASSUME NEW a \in Int, NEW b \in Int, NEW S, a \in S,
         \A k \in a .. b - 1 : k \in S => k + 1 \in S
  PROVE  a .. b \subseteq S
<1> DEFINE N == {n \in Nat : a + n <= b => a + n \in S}
<1>1. 0 \in N
  OBVIOUS
<1>2. ASSUME NEW n \in Nat, n \in N PROVE n + 1 \in N
  <2> SUFFICES ASSUME a + (n + 1) <= b PROVE a + (n + 1) \in S
    OBVIOUS
  <2>1. a + n \in S /\ a + n \in a .. b - 1
    BY <1>2
  <2>2. QED BY <2>1
<1>3. Nat \subseteq N
  <2> HIDE DEF N
  <2> QED BY <1>1, <1>2, SetInduction
<1>4. ASSUME NEW k \in a .. b PROVE k \in S
  <2>1. k - a \in Nat /\ a + (k - a) = k
    OBVIOUS
  <2>2. QED BY <1>3, <2>1
<1>5. QED BY <1>4

(* ... and downwards from b to a.                                          *)
LEMMA Downward ==
  ASSUME NEW a \in Int, NEW b \in Int, NEW S, b \in S,
         \A k \in a .. b - 1 : k + 1 \in S => k \in S
  PROVE  a .. b \subseteq S
<1> DEFINE N == {n \in Nat : a <= b - n => b - n \in S}
<1>1. 0 \in N
  OBVIOUS
<1>2. ASSUME NEW n \in Nat, n \in N PROVE n + 1 \in N
  <2> SUFFICES ASSUME a <= b - (n + 1) PROVE b - (n + 1) \in S
    OBVIOUS
  <2>1. b - n \in S /\ b - (n + 1) \in a .. b - 1 /\ (b - (n + 1)) + 1 = b - n
    BY <1>2
  <2>2. QED BY <2>1
<1>3. Nat \subseteq N
  <2> HIDE DEF N
  <2> QED BY <1>1, <1>2, SetInduction
<1>4. ASSUME NEW k \in a .. b PROVE k \in S
  <2>1. b - k \in Nat /\ b - (b - k) = k
    OBVIOUS
  <2>2. QED BY <1>3, <2>1
<1>5. QED BY <1>4

----------------------------------------------------------------------------
(* Types and rings.                                                        *)

LEMMA DescTyped ==
  ASSUME TypeOK
  PROVE  /\ Description(desc) /\ Sink \in Nat \ {0} /\ Sink \in Units
         /\ Mod \in Nat /\ Mod >= 2
         /\ \A k \in Units : k \in Nat /\ k >= 1 /\ k <= Sink
         /\ \A k \in Links : k \in Units /\ k + 1 \in Units
         /\ \A x \in Nat : x % Mod \in 0 .. Mod - 1
<1>1. Description(desc)
  BY DescsAssumption DEF TypeOK
<1>2. desc.n \in Nat \ {0}
  BY <1>1 DEF Description
<1>3. Mod \in Nat /\ Mod >= 2
  BY WidthAssumption
<1>4. \A x \in Nat : x % Mod \in 0 .. Mod - 1
  BY <1>3
<1>5. QED
  BY <1>1, <1>2, <1>3, <1>4 DEF Units, Links, Sink

(* The signals of a cycle.                                                 *)
LEMMA PipelinesTyped ==
  ASSUME TypeOK, NEW o \in Signals, NEW f \in Signals, NEW ready \in BOOLEAN,
         Pipelines(o, f, ready)
  PROVE  /\ gap' \in [Units -> Nat] /\ \A k \in Units : gap'[k] < desc.ii[k]
         /\ v' \in [Units -> SUBSET Nat]
         /\ \A k \in Units : v'[k] \subseteq 1 .. desc.latency[k]
<1>1. /\ desc.ii \in [Units -> Nat \ {0}] /\ desc.latency \in [Units -> Nat]
      /\ gap \in [Units -> Nat] /\ \A k \in Units : gap[k] < desc.ii[k]
      /\ v \in [Units -> SUBSET Nat]
      /\ \A k \in Units : v[k] \subseteq 1 .. desc.latency[k]
  BY DescTyped DEF TypeOK, Description, Units
<1>2. gap' \in [Units -> Nat] /\ \A k \in Units : gap'[k] < desc.ii[k]
  BY <1>1, SMTT(20) DEF Pipelines
<1>3. ASSUME NEW k \in Units PROVE v'[k] \subseteq 1 .. desc.latency[k]
  <2>1. CASE desc.latency[k] = 0 \/ Frozen(o, f, ready, k)
    BY <1>1, <2>1 DEF Pipelines
  <2>2. CASE ~(desc.latency[k] = 0 \/ Frozen(o, f, ready, k))
    <3>1. v'[k] = {i + 1 : i \in v[k] \ {desc.latency[k]}}
                  \cup {i \in {1} : f[k] /\ Gives(o, k)}
      BY <2>2 DEF Pipelines
    <3>2. desc.latency[k] \in Nat \ {0}
      BY <1>1, <2>2
    <3>3. \A i \in v[k] \ {desc.latency[k]} : i + 1 \in 1 .. desc.latency[k]
      BY <1>1, <3>2
    <3>4. QED BY <3>1, <3>2, <3>3
  <2>3. QED BY <2>1, <2>2
<1>4. v' \in [Units -> SUBSET Nat]
  <2>1. v' = [k \in Units |-> v'[k]]
    BY DEF Pipelines
  <2>2. \A k \in Units : v'[k] \subseteq Nat
    BY <1>1, <1>3
  <2>3. QED BY <2>1, <2>2
<1>5. QED BY <1>2, <1>3, <1>4

(* A full buffer takes a beat only in a cycle that frees one; an empty one *)
(* gives none.                                                             *)
LEMMA BufferMoves ==
  ASSUME TypeOK, NEW o \in Signals, NEW f \in Signals, NEW ready \in BOOLEAN,
         Forward(o), Backward(o, f, ready), NEW k \in Links, Buffer(k)
  PROVE  /\ f[k + 1] => occupancy[k] # 0
         /\ Give(o, f, ready, k) => occupancy[k] < desc.depth[k] \/ f[k + 1]
<1>1. k + 1 \in Units /\ k + 1 > 1 /\ (k + 1) - 1 = k /\ ~Wire(k) /\ k # Sink
  BY DescTyped DEF Wire, Buffer, Links, Sink
<1>2. f[k + 1] => Avail(o, k + 1)
  BY <1>1 DEF Backward, WouldFire
<1>3. Avail(o, k + 1) => occupancy[k] # 0
  BY <1>1 DEF Avail
<1>4. Room(f, ready, k) = (occupancy[k] < desc.depth[k] \/ f[k + 1])
  BY <1>1 DEF Room
<1>5. QED BY <1>2, <1>3, <1>4 DEF Give

(* The fills stay inside their buffers, and with RingInv the pointers stay *)
(* the fill apart.                                                         *)
LEMMA BuffersTyped ==
  ASSUME TypeOK, NEW o \in Signals, NEW f \in Signals, NEW ready \in BOOLEAN,
         Forward(o), Backward(o, f, ready), Buffers(o, f, ready), UNCHANGED desc
  PROVE  /\ occupancy' \in [Links -> Nat]
         /\ \A k \in Links : occupancy'[k] <= desc.depth[k]
         /\ wslot' \in [Links -> Nat] /\ rslot' \in [Links -> Nat]
         /\ RingInv => RingInv'
<1>1. /\ desc.depth \in [Links -> Nat]
      /\ occupancy \in [Links -> Nat] /\ \A k \in Links : occupancy[k] <= desc.depth[k]
      /\ wslot \in [Links -> Nat] /\ rslot \in [Links -> Nat]
      /\ Links' = Links
  BY DescTyped DEF TypeOK, Description, Links
<1> DEFINE load(k) == Buffer(k) /\ Give(o, f, ready, k)
           take(k) == Buffer(k) /\ f[k + 1]
<1>2. /\ occupancy' = [k \in Links |->
           occupancy[k] + (IF load(k) THEN 1 ELSE 0) - (IF take(k) THEN 1 ELSE 0)]
      /\ wslot' = [k \in Links |-> IF load(k) THEN Around(wslot, k) ELSE wslot[k]]
      /\ rslot' = [k \in Links |-> IF take(k) THEN Around(rslot, k) ELSE rslot[k]]
  BY DEF Buffers
<1>3. \A k \in Links : Buffer(k) =>
        /\ take(k) => occupancy[k] # 0
        /\ load(k) => occupancy[k] < desc.depth[k] \/ take(k)
  BY BufferMoves
<1>4. \A k \in Links : (take(k) \/ load(k)) => Buffer(k)
  OBVIOUS
<1>5. \A k \in Links : Around(wslot, k) \in Nat /\ Around(rslot, k) \in Nat
  BY <1>1 DEF Around
<1>6. \A k \in Links : Buffer(k) => desc.depth[k] > 0
  BY DEF Buffer
<1> HIDE DEF load, take
<1>7. \A k \in Links : occupancy'[k] \in Nat /\ occupancy'[k] <= desc.depth[k]
  BY <1>1, <1>2, <1>3, <1>4
<1>8. occupancy' \in [Links -> Nat] /\ wslot' \in [Links -> Nat] /\ rslot' \in [Links -> Nat]
  BY <1>1, <1>2, <1>5, <1>7
<1>9. ASSUME RingInv PROVE RingInv'
  <2> SUFFICES ASSUME NEW k \in Links, Buffer(k)
               PROVE  /\ wslot'[k] < desc.depth[k] /\ rslot'[k] < desc.depth[k]
                      /\ LET end == rslot'[k] + occupancy'[k]
                         IN wslot'[k] = IF end < desc.depth[k] THEN end ELSE end - desc.depth[k]
    BY <1>1 DEF RingInv, Buffer
  <2> DEFINE D == desc.depth[k]
             w == wslot[k]
             r == rslot[k]
             q == occupancy[k]
  <2>1. /\ D \in Nat /\ D > 0 /\ w \in Nat /\ r \in Nat /\ q \in Nat /\ q <= D
        /\ w < D /\ r < D /\ w = IF r + q < D THEN r + q ELSE r + q - D
    BY <1>1, <1>6, <1>9 DEF RingInv
  <2>2. /\ wslot'[k] = IF load(k) THEN (IF w = D - 1 THEN 0 ELSE w + 1) ELSE w
        /\ rslot'[k] = IF take(k) THEN (IF r = D - 1 THEN 0 ELSE r + 1) ELSE r
        /\ occupancy'[k] = q + (IF load(k) THEN 1 ELSE 0) - (IF take(k) THEN 1 ELSE 0)
    BY <1>2 DEF Around
  <2>3. (take(k) => q # 0) /\ (load(k) => q < D \/ take(k))
    BY <1>3
  <2> HIDE DEF D, w, r, q
  <2>4. /\ wslot'[k] < D /\ rslot'[k] < D
        /\ LET end == rslot'[k] + occupancy'[k]
           IN wslot'[k] = IF end < D THEN end ELSE end - D
    <3>1. CASE load(k) /\ take(k)
      BY <2>1, <2>2, <2>3, <3>1
    <3>2. CASE load(k) /\ ~take(k)
      BY <2>1, <2>2, <2>3, <3>2
    <3>3. CASE ~load(k) /\ take(k)
      BY <2>1, <2>2, <2>3, <3>3
    <3>4. CASE ~load(k) /\ ~take(k)
      BY <2>1, <2>2, <2>3, <3>4
    <3>5. QED BY <3>1, <3>2, <3>3, <3>4
  <2>5. QED BY <2>4 DEF D
<1>10. QED BY <1>7, <1>8, <1>9

(* The counters of a cycle.                                                *)
LEMMA CountersTyped ==
  ASSUME TypeOK, NEW o \in Signals, NEW f \in Signals, NEW ready \in BOOLEAN,
         Backward(o, f, ready), Counters(o, f, ready)
  PROVE  /\ d' \in [Units -> 0 .. Mod - 1]
         /\ digits' \in [Units -> [Units -> 0 .. Mod - 1]]
         /\ g' \in [Units -> 0 .. Mod - 1]
         /\ lane' \in [Units -> Nat] /\ \A k \in Units : lane'[k] < desc.span[k]
<1>1. /\ Mod \in Nat /\ Mod >= 2 /\ \A x \in Nat : x % Mod \in 0 .. Mod - 1
      /\ desc.span \in [Units -> Nat \ {0}]
      /\ lane \in [Units -> Nat] /\ \A k \in Units : lane[k] < desc.span[k]
  BY DescTyped DEF TypeOK, Description, Units
<1>2. \A x \in 0 .. Mod - 1 : (x + 1) % Mod \in 0 .. Mod - 1
  BY <1>1
<1>3. d' \in [Units -> 0 .. Mod - 1]
  BY <1>1, <1>2 DEF Counters, TypeOK
<1>4. g' \in [Units -> 0 .. Mod - 1]
  BY <1>1, <1>2 DEF Counters, TypeOK
<1>5. digits' \in [Units -> [Units -> 0 .. Mod - 1]]
  BY <1>1, <1>2 DEF Counters, TypeOK
<1>6. ASSUME NEW k \in Units PROVE lane'[k] \in Nat /\ lane'[k] < desc.span[k]
  <2>1. lane'[k] = IF f[k] THEN 0 ELSE IF Read(o, f, ready, k) THEN lane[k] + 1 ELSE lane[k]
    BY DEF Counters
  <2>2. ~f[k] /\ Read(o, f, ready, k) => lane[k] # desc.span[k] - 1
    BY DEF Read, Backward, WouldFire
  <2>3. QED BY <1>1, <2>1, <2>2
<1>7. lane' \in [Units -> Nat]
  <2>1. lane' = [k \in Units |-> lane'[k]]
    BY DEF Counters
  <2>2. QED BY <1>6, <2>1
<1>8. QED BY <1>3, <1>4, <1>5, <1>6, <1>7

LEMMA InitTyped == Init => TypeOK /\ RingInv
<1> SUFFICES ASSUME Init PROVE TypeOK /\ RingInv
  OBVIOUS
<1>1. /\ Description(desc) /\ Mod \in Nat /\ Mod >= 2
  BY DescsAssumption, WidthAssumption DEF Init
<1>2. \A k \in Units : 0 < desc.ii[k] /\ 0 < desc.span[k]
  BY <1>1 DEF Description, Units
<1>3. \A k \in Links : desc.depth[k] \in Nat
  BY <1>1 DEF Description, Links
<1>4. ts \in [Units -> 0 .. Mod - 1]
  BY <1>1 DEF Init, Description, Units, Open
<1>5. TypeOK
  <2>1. /\ gap \in [Units -> Nat] /\ \A k \in Units : gap[k] < desc.ii[k]
        /\ lane \in [Units -> Nat] /\ \A k \in Units : lane[k] < desc.span[k]
    BY <1>2 DEF Init
  <2>2. v \in [Units -> SUBSET Nat] /\ \A k \in Units : v[k] \subseteq 1 .. desc.latency[k]
    <3>1. v = [k \in Units |-> {}]
      BY DEF Init
    <3>2. QED BY <3>1
  <2>3. /\ occupancy \in [Links -> Nat] /\ wslot \in [Links -> Nat] /\ rslot \in [Links -> Nat]
        /\ \A k \in Links : occupancy[k] <= desc.depth[k]
    BY <1>3 DEF Init
  <2>4. /\ d \in [Units -> 0 .. Mod - 1] /\ g \in [Units -> 0 .. Mod - 1]
        /\ digits \in [Units -> [Units -> 0 .. Mod - 1]] /\ jobs \in 0 .. Mod - 1
    BY <1>1 DEF Init
  <2>5. /\ fired \in [Units -> Nat] /\ given \in [Units -> Nat] /\ pushed \in [Units -> Nat]
        /\ desc \in Descs /\ busy \in BOOLEAN /\ valid \in Signals
    BY DEF Init
  <2>6. QED BY <1>4, <2>1, <2>2, <2>3, <2>4, <2>5 DEF TypeOK
<1>6. RingInv
  BY <1>3 DEF Init, RingInv, Buffer
<1>7. QED BY <1>5, <1>6

LEMMA CycleTyped ==
  ASSUME TypeOK, NEW ready \in BOOLEAN, NEW o \in Offers, NEW f \in Fires(o, ready),
         Cycle(o, f, ready)
  PROVE  TypeOK' /\ (RingInv => RingInv')
<1>1. /\ o \in Signals /\ f \in Signals /\ Forward(o) /\ Backward(o, f, ready)
      /\ desc' = desc /\ jobs' = jobs /\ ts' = ts
      /\ Units' = Units /\ Links' = Links /\ Signals' = Signals
  BY DEF Offers, Fires, Cycle, config, Units, Links, Signals
<1>2. Pipelines(o, f, ready) /\ Buffers(o, f, ready) /\ Counters(o, f, ready)
  BY DEF Cycle
<1>3. /\ gap' \in [Units -> Nat] /\ \A k \in Units : gap'[k] < desc.ii[k]
      /\ v' \in [Units -> SUBSET Nat]
      /\ \A k \in Units : v'[k] \subseteq 1 .. desc.latency[k]
  BY <1>1, <1>2, PipelinesTyped
<1>4. /\ occupancy' \in [Links -> Nat]
      /\ \A k \in Links : occupancy'[k] <= desc.depth[k]
      /\ wslot' \in [Links -> Nat] /\ rslot' \in [Links -> Nat]
      /\ RingInv => RingInv'
  BY <1>1, <1>2, BuffersTyped
<1>5. /\ d' \in [Units -> 0 .. Mod - 1]
      /\ digits' \in [Units -> [Units -> 0 .. Mod - 1]]
      /\ g' \in [Units -> 0 .. Mod - 1]
      /\ lane' \in [Units -> Nat] /\ \A k \in Units : lane'[k] < desc.span[k]
  BY <1>1, <1>2, CountersTyped
<1>6. valid' \in Signals /\ busy' \in BOOLEAN
  BY DEF Cycle, Ports, TypeOK
<1>7. fired' \in [Units -> Nat] /\ given' \in [Units -> Nat] /\ pushed' \in [Units -> Nat]
  BY DEF Cycle, History, TypeOK
<1>8. QED BY <1>1, <1>3, <1>4, <1>5, <1>6, <1>7 DEF TypeOK

LEMMA StartTyped ==
  ASSUME TypeOK, NEW ready \in BOOLEAN, NEW o \in Offers, NEW f \in Fires(o, ready),
         NEW j \in JobsSet, NEW t \in [Open -> TSet], Start(o, f, ready, j, t)
  PROVE  TypeOK' /\ (RingInv => RingInv')
<1>1. /\ o \in Signals /\ f \in Signals /\ Forward(o) /\ Backward(o, f, ready)
      /\ desc' = desc /\ Units' = Units /\ Links' = Links /\ Signals' = Signals
  BY DEF Offers, Fires, Start, Units, Links, Signals
<1>2. Pipelines(o, f, ready) /\ Buffers(o, f, ready)
  BY DEF Start
<1>3. /\ gap' \in [Units -> Nat] /\ \A k \in Units : gap'[k] < desc.ii[k]
      /\ v' \in [Units -> SUBSET Nat]
      /\ \A k \in Units : v'[k] \subseteq 1 .. desc.latency[k]
  BY <1>1, <1>2, PipelinesTyped
<1>4. /\ occupancy' \in [Links -> Nat]
      /\ \A k \in Links : occupancy'[k] <= desc.depth[k]
      /\ wslot' \in [Links -> Nat] /\ rslot' \in [Links -> Nat]
      /\ RingInv => RingInv'
  BY <1>1, <1>2, BuffersTyped
<1>5. /\ Description(desc) /\ Mod \in Nat /\ Mod >= 2
      /\ \A k \in Units : desc.span[k] \in Nat \ {0}
  BY DescTyped DEF Description, Units
<1>6. ts' \in [Units -> 0 .. Mod - 1] /\ jobs' \in 0 .. Mod - 1
  <2>1. ts' = [k \in Units |-> IF k \in Open THEN t[k] ELSE desc.fixedT[k]] /\ jobs' = j
    BY DEF Start
  <2>2. \A k \in Open : t[k] \in 0 .. Mod - 1
    <3>1. \A k \in Open : t[k] \in TSet
      OBVIOUS
    <3>2. TSet \subseteq 0 .. Mod - 1
      BY <1>5, StartAssumption
    <3>3. QED BY <3>1, <3>2
  <2>3. \A k \in Units : desc.fixedT[k] \in 0 .. Mod - 1
    BY <1>5 DEF Description, Units
  <2>4. j \in 0 .. Mod - 1
    <3>1. JobsSet \subseteq 0 .. Mod - 1
      BY <1>5, StartAssumption
    <3>2. QED BY <3>1
  <2>5. QED BY <2>1, <2>2, <2>3, <2>4
<1>7. /\ d' \in [Units -> 0 .. Mod - 1] /\ g' \in [Units -> 0 .. Mod - 1]
      /\ digits' \in [Units -> [Units -> 0 .. Mod - 1]]
      /\ lane' \in [Units -> Nat] /\ \A k \in Units : lane'[k] < desc.span[k]
      /\ fired' \in [Units -> Nat] /\ given' \in [Units -> Nat] /\ pushed' \in [Units -> Nat]
  <2>1. /\ d' = [k \in Units |-> 0] /\ g' = [k \in Units |-> 0] /\ lane' = [k \in Units |-> 0]
        /\ digits' = [k \in Units |-> [i \in Units |-> 0]]
        /\ fired' = [k \in Units |-> 0] /\ given' = [k \in Units |-> 0]
        /\ pushed' = [k \in Units |-> 0]
    BY DEF Start
  <2>2. 0 \in 0 .. Mod - 1 /\ \A k \in Units : 0 < desc.span[k]
    BY <1>5
  <2>3. QED BY <2>1, <2>2
<1>8. valid' \in Signals /\ busy' \in BOOLEAN /\ desc \in Descs
  BY DEF Start, Ports, TypeOK
<1> HIDE DEF TypeOK
<1>9. TypeOK'
  BY <1>1, <1>3, <1>4, <1>6, <1>7, <1>8 DEF TypeOK
<1>10. QED BY <1>4, <1>9

LEMMA StepTyped == TypeOK /\ RingInv /\ [Next]_vars => TypeOK' /\ RingInv'
<1> SUFFICES ASSUME TypeOK, RingInv, [Next]_vars PROVE TypeOK' /\ RingInv'
  OBVIOUS
<1>1. ASSUME NEW ready \in BOOLEAN, Tick(ready) PROVE TypeOK' /\ RingInv'
  BY <1>1, CycleTyped DEF Tick
<1>2. ASSUME NEW ready \in BOOLEAN, NEW j \in JobsSet, NEW t \in [Open -> TSet],
             Begin(ready, j, t)
      PROVE  TypeOK' /\ RingInv'
  BY <1>2, StartTyped DEF Begin
<1>3. CASE UNCHANGED vars
  BY <1>3 DEF vars, counters, units, links, history, TypeOK, RingInv, Units, Links,
              Signals, Buffer
<1>4. QED BY <1>1, <1>2, <1>3 DEF Next

(* Every register stays inside its width and every fill inside its buffer, *)
(* for every group: no buffer is ever given a beat it has no room for.     *)
THEOREM Typed == Spec => []TypeOK
<1>1. Spec => [](TypeOK /\ RingInv)
  BY InitTyped, StepTyped, PTL DEF Spec
<1>2. QED BY <1>1, PTL

(* A ring's pointers stay its fill apart, for every depth: no slot is      *)
(* written while it holds a beat and none is read that holds none.         *)
THEOREM Rings == Spec => []RingInv
<1>1. Spec => [](TypeOK /\ RingInv)
  BY InitTyped, StepTyped, PTL DEF Spec
<1>2. QED BY <1>1, PTL

----------------------------------------------------------------------------
(* The inductive invariant.                                                *)

(* A unit that counts for itself holds the number of results it gave in    *)
(* mixed radix: c[j] is what its digits from j on and its jobs digit say.  *)
Numeral(k, c) ==
  /\ c[Sink + 1] = g[k]
  /\ \A j \in k + 1 .. Sink : c[j] = c[j + 1] * ts[j] + digits[k][j]
Counted(k) ==
  /\ g[k] <= jobs
  /\ \A j \in k + 1 .. Sink :
       digits[k][j] < ts[j] /\ (g[k] = jobs => digits[k][j] = 0)
  /\ \E c \in [k + 1 .. Sink + 1 -> Nat] : Numeral(k, c) /\ c[k + 1] = given[k]

(* The counts of a unit, and what it has in hand; a link's.                *)
UnitBalanced(k) ==
  /\ given[k] = pushed[k] + Cardinality(v[k])
  /\ fired[k] = given[k] * ts[k] + d[k]
LinkBalanced(k) == pushed[k] = fired[k + 1] + occupancy[k]

UnitBooks(k) ==
  /\ ts[k] > 0
  /\ d[k] < ts[k]
  /\ ~Left(k) => d[k] = 0
  /\ ~Borrows(k) => Counted(k)
  /\ UnitBalanced(k)
Books ==
  /\ jobs > 0
  /\ \A k \in Units : UnitBooks(k)
  /\ \A k \in Links : LinkBalanced(k)

Empty ==
  /\ \A k \in Units : v[k] = {}
  /\ \A k \in Links : occupancy[k] = 0

RunInv == IF busy THEN Books /\ pushed[Sink] < jobs ELSE Empty

----------------------------------------------------------------------------
(* Units, and which of them keep a count.                                  *)

LEMMA UnitsAre ==
  ASSUME TypeOK
  PROVE  /\ Sink \in Nat /\ Sink \in Units /\ Sink \notin Links /\ 1 \in Units
         /\ Units = 1 .. Sink /\ Links = 1 .. Sink - 1
         /\ \A k \in Links : k \in Units /\ k + 1 \in Units /\ k # Sink
         /\ \A k \in Units : k \in Int /\ (k \in Links <=> k # Sink)
  BY DescTyped DEF Units, Links, Sink

(* A chain of borrowed tests ends at a unit that counts for itself.        *)
LEMMA CountsIs ==
  ASSUME TypeOK, NEW k \in Units
  PROVE  /\ Counts(k) \in k .. Sink /\ ~Borrows(Counts(k))
         /\ ~Borrows(k) => Counts(k) = k
         /\ Borrows(k) => k \in Links /\ Counts(k) = Counts(k + 1)
<1> DEFINE At(i, j) == ~Borrows(j) /\ \A m \in i .. j - 1 : Borrows(m)
           S == {i \in Units : \E j \in i .. Sink : At(i, j)}
<1>1. /\ Units = 1 .. Sink /\ Sink \in Units /\ Sink \in Nat /\ ~Borrows(Sink)
      /\ \A i \in Units : Borrows(i) => i \in Links /\ i + 1 \in Units
  BY UnitsAre DEF Borrows, Wire
<1>2. Sink \in S
  <2>1. Sink \in Sink .. Sink /\ At(Sink, Sink)
    BY <1>1
  <2>2. QED BY <1>1, <2>1
<1>3. \A i \in 1 .. Sink - 1 : i + 1 \in S => i \in S
  <2> SUFFICES ASSUME NEW i \in 1 .. Sink - 1, i + 1 \in S PROVE i \in S
    OBVIOUS
  <2>1. CASE ~Borrows(i)
    <3>1. i \in i .. Sink /\ At(i, i)
      BY <2>1, <1>1
    <3>2. QED BY <1>1, <3>1
  <2>2. CASE Borrows(i)
    <3>1. PICK j \in i + 1 .. Sink : At(i + 1, j)
      OBVIOUS
    <3>2. j \in i .. Sink /\ At(i, j)
      BY <1>1, <2>2, <3>1
    <3>3. QED BY <1>1, <3>2
  <2>3. QED BY <2>1, <2>2
<1>4. Units \subseteq S
  <2> HIDE DEF S
  <2>1. 1 .. Sink \subseteq S
    BY <1>1, <1>2, <1>3, Downward
  <2>2. QED BY <1>1, <2>1
<1>5. \A i \in Units : Counts(i) \in i .. Sink /\ At(i, Counts(i))
  BY <1>4 DEF Counts, Sink
<1>6. \A i \in Units : \A p, q \in i .. Sink : At(i, p) /\ At(i, q) => p = q
  BY <1>1
<1>7. ~Borrows(k) => Counts(k) = k
  <2>1. k \in k .. Sink /\ (~Borrows(k) => At(k, k))
    BY <1>1
  <2>2. QED BY <1>5, <1>6, <2>1
<1>8. ASSUME Borrows(k) PROVE k \in Links /\ Counts(k) = Counts(k + 1)
  <2>1. k \in Links /\ k + 1 \in Units
    BY <1>1, <1>8
  <2>2. Counts(k + 1) \in k .. Sink /\ At(k, Counts(k + 1))
    BY <1>1, <1>5, <1>8, <2>1
  <2>3. QED BY <1>5, <1>6, <2>1, <2>2
<1>9. QED BY <1>5, <1>7, <1>8

----------------------------------------------------------------------------
(* One cycle.                                                              *)

(* What a firing says, and how a result passes a wire: a unit fires onto   *)
(* it exactly as its consumer fires off it.                                *)
LEMMA Moves ==
  ASSUME TypeOK, NEW ready \in BOOLEAN, NEW o \in Offers, NEW f \in Fires(o, ready),
         NEW k \in Units
  PROVE  /\ o[k] \in BOOLEAN /\ f[k] \in BOOLEAN
         /\ f[k] => busy /\ Left(k) /\ WouldFire(o, k) /\ ~Frozen(o, f, ready, k)
         /\ desc.latency[k] = 0 =>
              /\ v[k] = {}
              /\ Give(o, f, ready, k) <=> f[k] /\ Gives(o, k)
         /\ Wire(k) => (Give(o, f, ready, k) <=> f[k + 1])
         /\ Borrows(k) => (f[k + 1] <=> f[k] /\ Gives(o, k))
<1>1. o \in Signals /\ f \in Signals /\ Forward(o) /\ Backward(o, f, ready)
  BY DEF Offers, Fires
<1>2. /\ o[k] \in BOOLEAN /\ f[k] \in BOOLEAN
      /\ f[k] <=> WouldFire(o, k) /\ ~Frozen(o, f, ready, k)
      /\ o[k] <=> IF desc.latency[k] > 0 THEN PipeHead(k) ELSE Gives(o, k)
  BY <1>1 DEF Signals, Backward, Forward
<1>3. f[k] => busy /\ Left(k) /\ WouldFire(o, k) /\ ~Frozen(o, f, ready, k)
  BY <1>2 DEF WouldFire, Wants
<1>4. ASSUME desc.latency[k] = 0
      PROVE  v[k] = {} /\ (Give(o, f, ready, k) <=> f[k] /\ Gives(o, k))
  <2>1. v[k] \subseteq 1 .. 0
    BY <1>4 DEF TypeOK
  <2>2. o[k] <=> Gives(o, k)
    BY <1>2, <1>4
  <2>3. /\ Give(o, f, ready, k) <=> o[k] /\ Room(f, ready, k)
        /\ Frozen(o, f, ready, k) <=> o[k] /\ ~Room(f, ready, k)
        /\ Gives(o, k) => WouldFire(o, k)
    BY DEF Give, Frozen, Gives
  <2>4. v[k] = {}
    BY <2>1
  <2>5. QED BY <1>2, <2>2, <2>3, <2>4
<1>5. ASSUME Wire(k) PROVE Give(o, f, ready, k) <=> f[k + 1]
  <2>1. k \in Links /\ k # Sink /\ k + 1 \in Units /\ k \in Int /\ k >= 1
    BY <1>5, DescTyped, UnitsAre DEF Wire
  <2>2. Room(f, ready, k) <=> f[k + 1]
    BY <1>5, <2>1 DEF Room, Wire, Buffer
  <2>3. f[k + 1] => Avail(o, k + 1)
    BY <1>1, <2>1 DEF Backward, WouldFire
  <2>4. Avail(o, k + 1) => o[k]
    <3>1. k + 1 > 1 /\ (k + 1) - 1 = k
      BY <2>1
    <3>2. QED BY <3>1, <1>5 DEF Avail
  <2>5. QED BY <2>2, <2>3, <2>4 DEF Give
<1>6. Borrows(k) => (f[k + 1] <=> f[k] /\ Gives(o, k))
  BY <1>4, <1>5 DEF Borrows
<1>7. QED BY <1>2, <1>3, <1>4, <1>5, <1>6

LEMMA Shifted ==
  ASSUME NEW W \in SUBSET Nat, IsFiniteSet(W)
  PROVE  /\ IsFiniteSet({i + 1 : i \in W})
         /\ Cardinality({i + 1 : i \in W}) = Cardinality(W)
<1> DEFINE T == {i + 1 : i \in W}
           h == [i \in W |-> i + 1]
<1>1. h \in Surjection(W, T) /\ h \in Injection(W, T)
  BY DEF Surjection, Injection, IsInjective
<1> HIDE DEF h, T
<1>2. IsFiniteSet(T) /\ Cardinality(T) = Cardinality(W)
  BY <1>1, FS_Surjection
<1>3. QED BY <1>2 DEF T

(* A pipeline loses what is given and gains what a giving firing puts in.  *)
LEMMA PipeCount ==
  ASSUME TypeOK, NEW ready \in BOOLEAN, NEW o \in Offers, NEW f \in Fires(o, ready),
         Pipelines(o, f, ready), NEW k \in Units
  PROVE  /\ Cardinality(v[k]) \in Nat /\ Cardinality(v'[k]) \in Nat
         /\ Cardinality(v'[k]) + (IF Give(o, f, ready, k) THEN 1 ELSE 0)
              = Cardinality(v[k]) + (IF f[k] /\ Gives(o, k) THEN 1 ELSE 0)
<1> DEFINE L == desc.latency[k]
           gives == f[k] /\ Gives(o, k)
           frozen == Frozen(o, f, ready, k)
           give == Give(o, f, ready, k)
<1>1. /\ L \in Nat /\ v[k] \subseteq 1 .. L /\ IsFiniteSet(v[k])
      /\ Cardinality(v[k]) \in Nat
  <2>1. L \in Nat /\ v[k] \subseteq 1 .. L
    BY DescTyped DEF TypeOK, Description, Units
  <2>2. IsFiniteSet(1 .. L)
    BY <2>1, FS_Interval
  <2>3. QED BY <2>1, <2>2, FS_Subset, FS_CardinalityType
<1>2. /\ f[k] => ~frozen
      /\ L = 0 => (give <=> gives)
  BY Moves
<1>3. /\ give <=> o[k] /\ Room(f, ready, k)
      /\ frozen <=> o[k] /\ ~Room(f, ready, k)
  BY DEF Give, Frozen
<1>4. L > 0 => (o[k] <=> L \in v[k])
  BY DEF Offers, Forward, PipeHead
<1>5. v'[k] = IF L = 0 \/ frozen THEN v[k]
              ELSE {i + 1 : i \in v[k] \ {L}} \cup {i \in {1} : gives}
  BY DEF Pipelines
<1> HIDE DEF L, gives, frozen, give
<1>6. CASE L = 0 \/ frozen
  <2>1. give <=> gives
    BY <1>2, <1>3, <1>6 DEF gives
  <2>2. v'[k] = v[k]
    BY <1>5, <1>6
  <2>3. QED BY <1>1, <2>1, <2>2 DEF give, gives
<1>7. CASE ~(L = 0 \/ frozen)
  <2> DEFINE W == v[k] \ {L}
             T == {i + 1 : i \in W}
  <2>1. /\ v'[k] = T \cup {i \in {1} : gives}
        /\ give <=> L \in v[k]
    BY <1>1, <1>3, <1>4, <1>5, <1>7
  <2>2. /\ IsFiniteSet(W) /\ W \in SUBSET Nat /\ Cardinality(W) \in Nat
        /\ Cardinality(W) = IF L \in v[k] THEN Cardinality(v[k]) - 1 ELSE Cardinality(v[k])
    <3>1. IsFiniteSet(W) /\ Cardinality(W) = IF L \in v[k] THEN Cardinality(v[k]) - 1 ELSE Cardinality(v[k])
      BY <1>1, FS_RemoveElement
    <3>2. W \in SUBSET Nat
      BY <1>1
    <3>3. Cardinality(W) \in Nat
      BY <3>1, FS_CardinalityType
    <3>4. QED BY <3>1, <3>2, <3>3
  <2>3. 1 \notin T
    BY <1>1
  <2> HIDE DEF W
  <2>4. IsFiniteSet(T) /\ Cardinality(T) = Cardinality(W)
    BY <2>2, Shifted
  <2> HIDE DEF T
  <2>5. CASE gives
    <3>1. v'[k] = T \cup {1}
      BY <2>1, <2>5
    <3>2. Cardinality(v'[k]) = Cardinality(W) + 1
      BY <2>3, <2>4, <3>1, FS_AddElement
    <3>3. QED BY <1>1, <2>1, <2>2, <2>5, <3>2 DEF give, gives
  <2>6. CASE ~gives
    <3>1. v'[k] = T
      BY <2>1, <2>6
    <3>2. Cardinality(v'[k]) = Cardinality(W)
      BY <2>4, <3>1
    <3>3. QED BY <1>1, <2>1, <2>2, <2>6, <3>2 DEF give, gives
  <2>7. QED BY <2>5, <2>6
<1>8. QED BY <1>6, <1>7

(* The description is fixed, and with it what is read off it alone.        *)
LEMMA Static ==
  ASSUME UNCHANGED desc
  PROVE  /\ Units' = Units /\ Links' = Links /\ Sink' = Sink
         /\ \A k : Wire(k)' = Wire(k) /\ Borrows(k)' = Borrows(k) /\ Counts(k)' = Counts(k)
<1>1. desc' = desc
  OBVIOUS
<1>2. Units' = Units /\ Links' = Links /\ Sink' = Sink
  BY <1>1 DEF Units, Links, Sink
<1>3. ASSUME NEW k
      PROVE  Wire(k)' = Wire(k) /\ Borrows(k)' = Borrows(k) /\ Counts(k)' = Counts(k)
  BY <1>1 DEF Wire, Borrows, Counts, Links
<1>4. QED BY <1>2, <1>3

(* A firing adds one to its unit's beats, a giving one closes them.        *)
LEMMA BeatsKept ==
  ASSUME TypeOK, NEW ready \in BOOLEAN, NEW o \in Offers, NEW f \in Fires(o, ready),
         Cycle(o, f, ready), NEW k \in Units, UnitBooks(k)
  PROVE  /\ d'[k] < ts'[k]
         /\ UnitBalanced(k)'
         /\ f[k] /\ Gives(o, k) => d'[k] = 0
         /\ ~f[k] => d'[k] = d[k]
<1> DEFINE gives == f[k] /\ Gives(o, k)
           give == Give(o, f, ready, k)
<1>1. /\ d'[k] = IF gives THEN 0 ELSE IF f[k] THEN (d[k] + 1) % Mod ELSE d[k]
      /\ fired'[k] = fired[k] + (IF f[k] THEN 1 ELSE 0)
      /\ given'[k] = given[k] + (IF gives THEN 1 ELSE 0)
      /\ pushed'[k] = pushed[k] + (IF give THEN 1 ELSE 0)
      /\ ts' = ts
  BY DEF Cycle, Counters, History, config
<1>2. Gives(o, k) <=> WouldFire(o, k) /\ d[k] = ts[k] - 1
  BY DEF Gives
<1>3. f[k] => WouldFire(o, k)
  BY Moves
<1>4. /\ d[k] \in Nat /\ ts[k] \in 0 .. Mod - 1 /\ Mod \in Nat /\ d[k] < ts[k] /\ ts[k] > 0
      /\ fired[k] \in Nat /\ given[k] \in Nat /\ pushed[k] \in Nat
      /\ given[k] = pushed[k] + Cardinality(v[k])
      /\ fired[k] = given[k] * ts[k] + d[k]
  BY DescTyped DEF TypeOK, UnitBooks, UnitBalanced
<1>5. d[k] + 1 < Mod => (d[k] + 1) % Mod = d[k] + 1
  BY <1>4
<1>6. /\ Cardinality(v[k]) \in Nat /\ Cardinality(v'[k]) \in Nat
      /\ Cardinality(v'[k]) + (IF give THEN 1 ELSE 0)
           = Cardinality(v[k]) + (IF gives THEN 1 ELSE 0)
  BY PipeCount DEF Cycle
<1> HIDE DEF gives, give
<1>7. given'[k] = pushed'[k] + Cardinality(v'[k])
  <2> DEFINE x == IF gives THEN 1 ELSE 0
             y == IF give THEN 1 ELSE 0
  <2>1. x \in Nat /\ y \in Nat
    OBVIOUS
  <2>2. given'[k] = given[k] + x /\ pushed'[k] = pushed[k] + y
    BY <1>1
  <2>3. Cardinality(v'[k]) + y = Cardinality(v[k]) + x
    BY <1>6
  <2> HIDE DEF x, y
  <2>4. QED BY <1>4, <1>6, <2>1, <2>2, <2>3
<1>8. CASE gives
  <2>1. d'[k] = 0 /\ d[k] = ts[k] - 1 /\ given'[k] = given[k] + 1 /\ fired'[k] = fired[k] + 1
    BY <1>1, <1>2, <1>8 DEF gives
  <2>2. fired'[k] = given'[k] * ts[k] + 0
    BY <1>4, <2>1
  <2>3. QED BY <1>1, <1>4, <1>7, <1>8, <2>1, <2>2 DEF UnitBalanced, gives
<1>9. CASE ~gives
  <2>1. f[k] => d[k] + 1 < ts[k]
    BY <1>2, <1>3, <1>4, <1>9 DEF gives
  <2>2. f[k] => d[k] + 1 < Mod
    BY <1>4, <2>1
  <2>3. d'[k] = d[k] + (IF f[k] THEN 1 ELSE 0) /\ d'[k] < ts[k] /\ given'[k] = given[k]
    BY <1>1, <1>4, <1>5, <1>9, <2>1, <2>2
  <2>4. fired'[k] = given'[k] * ts[k] + d'[k]
    BY <1>1, <1>4, <2>3
  <2>5. QED BY <1>1, <1>4, <1>7, <1>9, <2>3, <2>4 DEF UnitBalanced, gives
<1>10. QED BY <1>8, <1>9

(* What a unit pushes on a link is taken or kept.                          *)
LEMMA LinkKept ==
  ASSUME TypeOK, NEW ready \in BOOLEAN, NEW o \in Offers, NEW f \in Fires(o, ready),
         Cycle(o, f, ready), NEW k \in Links, LinkBalanced(k)
  PROVE  LinkBalanced(k)'
<1>1. /\ k \in Units /\ k + 1 \in Units /\ f[k + 1] \in BOOLEAN
      /\ Wire(k) => (Give(o, f, ready, k) <=> f[k + 1])
  BY UnitsAre, Moves
<1>2. Wire(k) <=> ~Buffer(k)
  <2>1. desc.depth[k] \in Nat
    BY DescTyped DEF Description, Links
  <2>2. QED BY <2>1 DEF Wire, Buffer
<1>3. /\ fired'[k + 1] = fired[k + 1] + (IF f[k + 1] THEN 1 ELSE 0)
      /\ pushed'[k] = pushed[k] + (IF Give(o, f, ready, k) THEN 1 ELSE 0)
      /\ occupancy'[k] = occupancy[k] + (IF Buffer(k) /\ Give(o, f, ready, k) THEN 1 ELSE 0)
                           - (IF Buffer(k) /\ f[k + 1] THEN 1 ELSE 0)
  BY <1>1 DEF Cycle, History, Buffers
<1>4. occupancy[k] \in Nat /\ fired[k + 1] \in Nat /\ pushed[k] \in Nat
  BY <1>1 DEF TypeOK
<1>5. QED BY <1>1, <1>2, <1>3, <1>4 DEF LinkBalanced

(* A giving firing adds one to the numeral: the digits that are full wrap  *)
(* and carry, the first that is not takes the carry.  The jobs digit makes *)
(* JOBS only when every digit wraps, and no digit is counted past it.      *)
LEMMA NumeralKept ==
  ASSUME TypeOK, NEW ready \in BOOLEAN, NEW o \in Offers, NEW f \in Fires(o, ready),
         Cycle(o, f, ready), NEW k \in Units, ~Borrows(k), Counted(k),
         \A j \in Units : ts[j] > 0
  PROVE  Counted(k)'
<1> DEFINE gives == f[k] /\ Gives(o, k)
           N == Sink + 1
<1>1. /\ jobs' = jobs /\ ts' = ts /\ Sink' = Sink
      /\ \A j \in Units :
           digits'[k][j] = IF ~gives \/ j <= k \/ ~Carries(k, j) THEN digits[k][j]
                           ELSE IF digits[k][j] = ts[j] - 1 THEN 0
                           ELSE (digits[k][j] + 1) % Mod
      /\ g'[k] = IF gives /\ Carries(k, N) THEN (g[k] + 1) % Mod ELSE g[k]
      /\ given'[k] = given[k] + (IF gives THEN 1 ELSE 0)
  BY DEF Cycle, Counters, History, config, Sink
<1>2. /\ Sink \in Nat /\ Units = 1 .. Sink /\ k \in 1 .. Sink /\ Mod \in Nat
      /\ jobs \in 0 .. Mod - 1 /\ g[k] \in 0 .. Mod - 1
      /\ \A j \in Units : ts[j] \in 1 .. Mod - 1 /\ digits[k][j] \in Nat
      /\ \A x \in Nat : x < Mod => x % Mod = x
  <2>1. /\ Sink \in Nat /\ Units = 1 .. Sink /\ k \in 1 .. Sink /\ Mod \in Nat
        /\ jobs \in 0 .. Mod - 1 /\ g[k] \in 0 .. Mod - 1
    BY DescTyped, UnitsAre DEF TypeOK
  <2>2. ASSUME NEW j \in Units PROVE ts[j] \in 1 .. Mod - 1 /\ digits[k][j] \in Nat
    <3>1. ts[j] \in 0 .. Mod - 1 /\ ts[j] > 0 /\ digits[k][j] \in 0 .. Mod - 1
      BY DEF TypeOK
    <3>2. QED BY <2>1, <3>1
  <2>3. \A x \in Nat : x < Mod => x % Mod = x
    BY <2>1
  <2>4. QED BY <2>1, <2>2, <2>3
<1>3. /\ g[k] <= jobs
      /\ \A j \in k + 1 .. Sink :
           digits[k][j] < ts[j] /\ (g[k] = jobs => digits[k][j] = 0)
  BY DEF Counted
<1>4. PICK c \in [k + 1 .. N -> Nat] : Numeral(k, c) /\ c[k + 1] = given[k]
  BY DEF Counted
<1>5. /\ c[N] = g[k]
      /\ \A j \in k + 1 .. Sink : c[j] = c[j + 1] * ts[j] + digits[k][j]
  BY <1>4 DEF Numeral
<1>6. gives => g[k] < jobs
  <2>1. gives => g[k] # jobs
    BY Moves, CountsIs DEF Left
  <2>2. QED BY <1>2, <1>3, <2>1
<1>7. /\ Carries(k, k + 1)
      /\ \A j \in k + 1 .. Sink :
           Carries(k, j + 1) <=> Carries(k, j) /\ digits[k][j] = ts[j] - 1
  <2>1. ASSUME NEW j \in k + 1 .. Sink
        PROVE  Carries(k, j + 1) <=> Carries(k, j) /\ digits[k][j] = ts[j] - 1
    <3>1. k + 1 .. (j + 1) - 1 = (k + 1 .. j - 1) \cup {j}
      BY <1>2
    <3>2. QED BY <3>1 DEF Carries
  <2>2. Carries(k, k + 1)
    BY <1>2 DEF Carries
  <2>3. QED BY <2>1, <2>2
<1> DEFINE up(j) == IF gives /\ Carries(k, j) THEN 1 ELSE 0
<1> HIDE DEF gives
<1>8. g'[k] = g[k] + up(N)
  <2>1. gives => (g[k] + 1) % Mod = g[k] + 1
    BY <1>2, <1>6
  <2>2. QED BY <1>1, <1>2, <2>1
<1>9. ASSUME NEW j \in k + 1 .. Sink
      PROVE  /\ digits'[k][j] < ts[j]
             /\ c[j] + up(j) = (c[j + 1] + up(j + 1)) * ts[j] + digits'[k][j]
             /\ gives /\ Carries(k, j + 1) => digits'[k][j] = 0
  <2>1. /\ j \in Units /\ ~(j <= k) /\ j + 1 \in k + 1 .. N
        /\ c[j] \in Nat /\ c[j + 1] \in Nat
        /\ ts[j] \in Nat /\ 0 < ts[j] /\ ts[j] < Mod
        /\ digits[k][j] \in Nat /\ digits[k][j] < ts[j]
        /\ c[j] = c[j + 1] * ts[j] + digits[k][j]
    <3>1. /\ j \in Units /\ ~(j <= k) /\ j \in k + 1 .. N /\ j + 1 \in k + 1 .. N
      BY <1>2
    <3>2. /\ c[j] \in Nat /\ c[j + 1] \in Nat
      BY <1>4, <3>1
    <3>3. ts[j] \in Nat /\ 0 < ts[j] /\ ts[j] < Mod
      BY <1>2, <3>1
    <3>4. digits[k][j] \in Nat /\ digits[k][j] < ts[j]
      BY <1>2, <1>3, <3>1
    <3>5. QED BY <1>5, <3>1, <3>2, <3>3, <3>4
  <2>2. Carries(k, j + 1) <=> Carries(k, j) /\ digits[k][j] = ts[j] - 1
    BY <1>7
  <2>3. CASE ~gives \/ ~Carries(k, j)
    <3>1. digits'[k][j] = digits[k][j] /\ up(j) = 0 /\ up(j + 1) = 0
      BY <1>1, <2>1, <2>2, <2>3
    <3>2. QED BY <2>1, <2>2, <2>3, <3>1
  <2>4. CASE gives /\ Carries(k, j) /\ digits[k][j] = ts[j] - 1
    <3>1. digits'[k][j] = 0 /\ up(j) = 1 /\ up(j + 1) = 1
      BY <1>1, <2>1, <2>2, <2>4
    <3>2. c[j] + 1 = (c[j + 1] + 1) * ts[j] + 0
      <4>1. \A x, t \in Nat : (x * t + (t - 1)) + 1 = (x + 1) * t + 0
        OBVIOUS
      <4>2. c[j] = c[j + 1] * ts[j] + (ts[j] - 1)
        BY <2>1, <2>4
      <4>3. c[j + 1] \in Nat /\ ts[j] \in Nat
        BY <2>1
      <4> HIDE DEF up
      <4>4. QED BY <4>1, <4>2, <4>3
    <3>3. QED BY <2>1, <3>1, <3>2
  <2>5. CASE gives /\ Carries(k, j) /\ digits[k][j] # ts[j] - 1
    <3>1. (digits[k][j] + 1) % Mod = digits[k][j] + 1 /\ digits[k][j] + 1 < ts[j]
      <4>1. Mod \in Nat
        BY <1>2
      <4>2. \A x, t \in Nat : x < t /\ x # t - 1 /\ t < Mod =>
              x + 1 < t /\ x + 1 < Mod /\ x + 1 \in Nat
        BY <4>1
      <4>3. QED BY <1>2, <2>1, <2>5, <4>2
    <3>2. digits'[k][j] = digits[k][j] + 1 /\ up(j) = 1 /\ up(j + 1) = 0
      BY <1>1, <2>1, <2>2, <2>5, <3>1
    <3>3. QED BY <2>1, <2>2, <2>5, <3>1, <3>2, SMTT(20)
  <2>6. QED BY <2>3, <2>4, <2>5
<1>10. ASSUME NEW j \in k + 1 .. Sink, g'[k] = jobs PROVE digits'[k][j] = 0
  <2>1. CASE gives /\ Carries(k, N)
    <3>1. Carries(k, j + 1)
      <4>1. k + 1 .. (j + 1) - 1 \subseteq k + 1 .. N - 1
        BY <1>2
      <4>2. QED BY <2>1, <4>1 DEF Carries
    <3>2. QED BY <1>9, <2>1, <3>1
  <2>2. CASE ~(gives /\ Carries(k, N))
    <3>1. g[k] = jobs /\ ~gives
      BY <1>1, <1>2, <1>3, <1>6, <1>10, <2>2
    <3>2. j \in Units
      BY <1>2
    <3>3. QED BY <1>1, <1>3, <3>1, <3>2
  <2>3. QED BY <2>1, <2>2
<1>11. g'[k] <= jobs
  BY <1>2, <1>3, <1>6, <1>8
<1>12. PICK e : e = [j \in k + 1 .. N |-> c[j] + up(j)]
  OBVIOUS
<1>13. e \in [k + 1 .. N -> Nat] /\ Numeral(k, e)' /\ e[k + 1] = given'[k]
  <2> USE <1>12
  <2>1. e \in [k + 1 .. N -> Nat]
    BY <1>4
  <2>2. e[N] = g'[k]
    BY <1>2, <1>5, <1>8
  <2>3. e[k + 1] = given'[k]
    BY <1>1, <1>2, <1>4, <1>7
  <2>4. \A j \in k + 1 .. Sink : e[j] = e[j + 1] * ts[j] + digits'[k][j]
    <3> TAKE j \in k + 1 .. Sink
    <3>1. j \in k + 1 .. N /\ j + 1 \in k + 1 .. N
      BY <1>2
    <3>2. QED BY <1>9, <3>1
  <2>5. Numeral(k, e)'
    BY <1>1, <2>2, <2>4 DEF Numeral
  <2>6. QED BY <2>1, <2>3, <2>5
<1>14. QED BY <1>1, <1>9, <1>10, <1>11, <1>13 DEF Counted

(* A unit has nothing left from the cycle of its last giving firing on: a  *)
(* unit that borrows a count gives its last result with its counter's.     *)
LEMMA LastGiven ==
  ASSUME TypeOK, NEW ready \in BOOLEAN, NEW o \in Offers, NEW f \in Fires(o, ready),
         Cycle(o, f, ready)
  PROVE  \A k \in Units : Left(k) /\ ~Left(k)' => f[k] /\ Gives(o, k)
<1> DEFINE S == {k \in Units : Left(k) /\ ~Left(k)' => f[k] /\ Gives(o, k)}
<1>1. /\ Units = 1 .. Sink /\ Sink \in Nat /\ Sink \in Units /\ ~Borrows(Sink)
      /\ \A k \in Links : k \in Units /\ k + 1 \in Units
  BY UnitsAre DEF Borrows, Wire
<1>2. \A k \in Units : Left(k)' <=> g'[Counts(k)] # jobs
  <2>1. jobs' = jobs /\ desc' = desc
    BY DEF Cycle, config
  <2>2. QED BY <2>1, Static DEF Left
<1>3. \A k \in Units : ~Borrows(k) => k \in S
  <2> SUFFICES ASSUME NEW k \in Units, ~Borrows(k), Left(k), ~Left(k)'
               PROVE  f[k] /\ Gives(o, k)
    OBVIOUS
  <2>1. Counts(k) = k
    BY CountsIs
  <2>2. g[k] # g'[k]
    BY <1>2, <2>1 DEF Left
  <2>3. g'[k] = IF (f[k] /\ Gives(o, k)) /\ ~Borrows(k) /\ Carries(k, desc.n + 1)
                  THEN (g[k] + 1) % Mod ELSE g[k]
    BY DEF Cycle, Counters
  <2>4. QED BY <2>2, <2>3
<1>4. Sink \in S
  BY <1>1, <1>3
<1>5. ASSUME NEW k \in 1 .. Sink - 1, k + 1 \in S PROVE k \in S
  <2>1. k \in Units /\ k + 1 \in Units
    BY <1>1
  <2>2. CASE Borrows(k)
    <3>1. Counts(k) = Counts(k + 1)
      BY <2>1, <2>2, CountsIs
    <3>2. (Left(k) <=> Left(k + 1)) /\ (Left(k)' <=> Left(k + 1)')
      BY <1>2, <2>1, <3>1 DEF Left
    <3>3. f[k + 1] => f[k] /\ Gives(o, k)
      BY <2>1, <2>2, Moves
    <3>4. QED BY <1>5, <2>1, <3>2, <3>3
  <2>3. QED BY <1>3, <2>1, <2>2
<1>6. Units \subseteq S
  <2> HIDE DEF S
  <2>1. 1 .. Sink \subseteq S
    BY <1>1, <1>4, <1>5, Downward
  <2>2. QED BY <1>1, <2>1
<1>7. QED BY <1>6

LEMMA BooksKept ==
  ASSUME TypeOK, Books, NEW ready \in BOOLEAN, NEW o \in Offers,
         NEW f \in Fires(o, ready), Cycle(o, f, ready)
  PROVE  Books'
<1>1. jobs' = jobs /\ ts' = ts /\ UNCHANGED desc
  BY DEF Cycle, config
<1>2. Units' = Units /\ Links' = Links /\ \A k \in Units : Borrows(k)' = Borrows(k)
  BY <1>1, Static
<1>3. ASSUME NEW k \in Units PROVE UnitBooks(k)'
  <2>1. UnitBooks(k) /\ \A j \in Units : ts[j] > 0
    BY DEF Books, UnitBooks
  <2>2. /\ d'[k] < ts'[k]
        /\ UnitBalanced(k)'
        /\ f[k] /\ Gives(o, k) => d'[k] = 0
        /\ ~f[k] => d'[k] = d[k]
    BY <2>1, BeatsKept
  <2>3. ~Borrows(k) => Counted(k)'
    BY <2>1, NumeralKept DEF UnitBooks
  <2>4. ~Left(k)' => d'[k] = 0
    <3>1. CASE Left(k)
      BY <2>2, <3>1, LastGiven
    <3>2. CASE ~Left(k)
      <4>1. ~f[k] /\ d[k] = 0
        BY <2>1, <3>2, Moves DEF UnitBooks
      <4>2. QED BY <2>2, <4>1
    <3>3. QED BY <3>1, <3>2
  <2>5. QED BY <1>1, <1>2, <2>1, <2>2, <2>3, <2>4 DEF UnitBooks
<1>4. ASSUME NEW k \in Links PROVE LinkBalanced(k)'
  BY LinkKept DEF Books
<1>5. QED BY <1>1, <1>2, <1>3, <1>4 DEF Books

----------------------------------------------------------------------------
(* The counts of a run against R_k.                                        *)

(* The recursion of Results has a solution: its values for the last units  *)
(* extend to one unit before them.                                         *)
LEMMA ResultsAre ==
  ASSUME TypeOK, jobs > 0, \A k \in Units : ts[k] > 0
  PROVE  /\ Results \in [Units -> Nat \ {0}]
         /\ Results[Sink] = jobs
         /\ \A k \in Links : Results[k] = Results[k + 1] * ts[k + 1]
<1> DEFINE Upto(m, R) == /\ R \in [m .. Sink -> Nat \ {0}]
                         /\ \A k \in m .. Sink :
                              R[k] = IF k = Sink THEN jobs ELSE R[k + 1] * ts[k + 1]
           S == {m \in Units : \E R : Upto(m, R)}
<1>1. /\ Units = 1 .. Sink /\ Sink \in Nat /\ Sink \in Units /\ jobs \in Nat \ {0}
      /\ Links = 1 .. Sink - 1
  BY UnitsAre DEF TypeOK
<1>2. \A k \in Units : ts[k] \in Nat \ {0}
  BY DEF TypeOK
<1>3. Sink \in S
  <2>1. Upto(Sink, [k \in Sink .. Sink |-> jobs])
    BY <1>1
  <2>2. QED BY <1>1, <2>1
<1>4. ASSUME NEW m \in 1 .. Sink - 1, m + 1 \in S PROVE m \in S
  <2>1. PICK R : Upto(m + 1, R)
    BY <1>4
  <2> DEFINE Q == [k \in m .. Sink |-> IF k = m THEN R[m + 1] * ts[m + 1] ELSE R[k]]
  <2>2. R[m + 1] \in Nat \ {0} /\ ts[m + 1] \in Nat \ {0} /\ m # Sink
    BY <1>1, <1>2, <2>1
  <2>3. R[m + 1] * ts[m + 1] \in Nat \ {0}
    <3>1. \A x, y \in Nat \ {0} : x * y \in Nat \ {0}
      OBVIOUS
    <3>2. QED BY <2>2, <3>1
  <2>4. Upto(m, Q)
    <3>1. \A k \in m .. Sink : k = m \/ (k \in m + 1 .. Sink /\ k # m)
      OBVIOUS
    <3>2. Q \in [m .. Sink -> Nat \ {0}]
      BY <2>1, <2>3, <3>1
    <3>3. ASSUME NEW k \in m .. Sink
          PROVE  Q[k] = IF k = Sink THEN jobs ELSE Q[k + 1] * ts[k + 1]
      <4>1. CASE k = m
        <5>1. Q[k + 1] = R[m + 1]
          BY <1>1, <4>1
        <5>2. QED BY <1>1, <2>2, <4>1, <5>1
      <4>2. CASE k # m
        <5>1. k \in m + 1 .. Sink /\ Q[k] = R[k] /\ (k # Sink => Q[k + 1] = R[k + 1])
          BY <1>1, <4>2
        <5>2. QED BY <2>1, <5>1
      <4>3. QED BY <4>1, <4>2
    <3>4. QED BY <3>2, <3>3
  <2>5. \E X : Upto(m, X)
    <3> WITNESS Q
    <3> QED BY <2>4
  <2>6. m \in Units
    BY <1>1
  <2> HIDE DEF Upto
  <2>7. QED BY <2>5, <2>6
<1>5. 1 \in S
  <2> HIDE DEF S
  <2>1. 1 .. Sink \subseteq S
    BY <1>1, <1>3, <1>4, Downward, SMTT(20)
  <2>2. QED BY <1>1, <2>1
<1>6. PICK R : Upto(1, R)
  BY <1>5
<1>7. R = [k \in Units |-> IF k = Sink THEN jobs ELSE R[k + 1] * ts[k + 1]]
  BY <1>1, <1>6
<1>8. Results = [k \in Units |-> IF k = Sink THEN jobs ELSE Results[k + 1] * ts[k + 1]]
  BY <1>7 DEF Results
<1>9. QED
  <2> DEFINE T == {k \in Units : Results[k] = R[k]}
  <2>1. Sink \in T
    BY <1>1, <1>7, <1>8
  <2>2. \A k \in 1 .. Sink - 1 : k + 1 \in T => k \in T
    BY <1>1, <1>7, <1>8
  <2>3. 1 .. Sink \subseteq T
    <3> HIDE DEF T
    <3> QED BY <1>1, <2>1, <2>2, Downward
  <2>4. \A k \in Units : Results[k] \in Nat \ {0}
    BY <1>1, <1>6, <2>3
  <2>5. Results \in [Units -> Nat \ {0}]
    BY <1>8, <2>4
  <2>6. QED BY <1>1, <1>8, <2>5

(* Products of a run's counts: a number below another by a whole beat.     *)
LEMMA BelowByABeat ==
  ASSUME NEW c \in Nat, NEW r \in Nat, NEW t \in Nat, NEW x \in Nat, x < t, c < r
  PROVE  c * t + x < r * t
<1>1. PICK e \in Nat : r = c + 1 + e
  <2>1. r - c - 1 \in Nat /\ r = c + 1 + (r - c - 1)
    OBVIOUS
  <2>2. QED BY <2>1
<1>2. r * t = c * t + t + e * t
  BY <1>1
<1>3. e * t \in Nat /\ c * t \in Nat
  OBVIOUS
<1>4. QED BY <1>2, <1>3

(* A numeral is full exactly when its jobs digit is.                       *)
LEMMA NumeralBound ==
  ASSUME TypeOK, Books, NEW k \in Units, ~Borrows(k)
  PROVE  given[k] <= Results[k] /\ (Left(k) <=> given[k] # Results[k])
<1>1. /\ Units = 1 .. Sink /\ Links = 1 .. Sink - 1 /\ Sink \in Nat /\ k \in 1 .. Sink
  BY UnitsAre
<1>2. /\ jobs \in Nat /\ g[k] \in Nat
      /\ \A j \in Units : ts[j] \in Nat /\ digits[k][j] \in Nat
  BY DescTyped DEF TypeOK
<1>3. /\ g[k] <= jobs
      /\ \A j \in k + 1 .. Sink :
           digits[k][j] < ts[j] /\ (g[k] = jobs => digits[k][j] = 0)
  BY DEF Books, UnitBooks, Counted
<1>4. PICK c \in [k + 1 .. Sink + 1 -> Nat] : Numeral(k, c) /\ c[k + 1] = given[k]
  BY DEF Books, UnitBooks, Counted
<1>5. /\ Results \in [Units -> Nat \ {0}] /\ Results[Sink] = jobs
      /\ \A j \in Links : Results[j] = Results[j + 1] * ts[j + 1]
  BY ResultsAre DEF Books, UnitBooks
<1> DEFINE S == {j \in k + 1 .. Sink + 1 :
                   IF g[k] = jobs THEN c[j] = Results[j - 1] ELSE c[j] < Results[j - 1]}
<1>6. Sink + 1 \in S
  <2>1. c[Sink + 1] = g[k] /\ (Sink + 1) - 1 = Sink /\ Sink + 1 \in k + 1 .. Sink + 1
    BY <1>1, <1>4 DEF Numeral
  <2>2. QED BY <1>2, <1>3, <1>5, <2>1
<1>7. ASSUME NEW j \in k + 1 .. (Sink + 1) - 1, j + 1 \in S PROVE j \in S
  <2>1. /\ j \in k + 1 .. Sink /\ j \in k + 1 .. Sink + 1 /\ j \in Units
        /\ j - 1 \in Links /\ j - 1 \in Units /\ (j - 1) + 1 = j /\ (j + 1) - 1 = j
        /\ j + 1 \in k + 1 .. Sink + 1
    BY <1>1
  <2>2. Results[j - 1] = Results[j] * ts[j] /\ Results[j] \in Nat
    BY <1>5, <2>1
  <2>3. c[j] = c[j + 1] * ts[j] + digits[k][j] /\ c[j + 1] \in Nat
    BY <1>4, <2>1 DEF Numeral
  <2>4. ts[j] \in Nat /\ digits[k][j] \in Nat /\ digits[k][j] < ts[j]
    BY <1>2, <1>3, <2>1
  <2>5. CASE g[k] = jobs
    <3>1. digits[k][j] = 0 /\ c[j + 1] = Results[j]
      BY <1>3, <1>7, <2>1, <2>5
    <3>2. c[j] = Results[j] * ts[j] + 0 /\ Results[j] * ts[j] \in Nat
      BY <2>2, <2>3, <2>4, <3>1
    <3>3. c[j] = Results[j - 1]
      BY <2>2, <3>2
    <3>4. QED BY <2>1, <2>5, <3>3
  <2>6. CASE g[k] # jobs
    <3>1. c[j + 1] < Results[j]
      BY <1>7, <2>1, <2>6
    <3>2. c[j] < Results[j - 1]
      BY <2>2, <2>3, <2>4, <3>1, BelowByABeat
    <3>3. QED BY <2>1, <2>6, <3>2
  <2>7. QED BY <2>5, <2>6
<1>8. k + 1 \in S
  <2> HIDE DEF S
  <2>1. k + 1 \in Int /\ Sink + 1 \in Int /\ k + 1 \in k + 1 .. Sink + 1
    BY <1>1
  <2>2. \A j \in k + 1 .. (Sink + 1) - 1 : j + 1 \in S => j \in S
    BY <1>7
  <2>3. k + 1 .. Sink + 1 \subseteq S
    BY <2>1, <2>2, <1>6, Downward, Zenon
  <2>4. QED BY <2>1, <2>3
<1>9. (k + 1) - 1 = k /\ Counts(k) = k
  BY <1>1, CountsIs
<1>10. given[k] \in Nat /\ Results[k] \in Nat
  BY <1>5 DEF TypeOK
<1>11. QED BY <1>4, <1>8, <1>9, <1>10 DEF Left

(* So is the count of a unit that borrows: its one beat in flight is the   *)
(* firing of its consumer.                                                 *)
LEMMA CountBound ==
  ASSUME TypeOK, Books
  PROVE  \A k \in Units : given[k] <= Results[k] /\ (Left(k) <=> given[k] # Results[k])
<1> DEFINE S == {k \in Units : given[k] <= Results[k] /\ (Left(k) <=> given[k] # Results[k])}
<1>1. /\ Units = 1 .. Sink /\ Sink \in Nat /\ Sink \in Units /\ ~Borrows(Sink)
      /\ \A k \in Links : k \in Units /\ k + 1 \in Units
  BY UnitsAre DEF Borrows, Wire
<1>2. /\ Results \in [Units -> Nat \ {0}] /\ Results[Sink] = jobs
      /\ \A j \in Links : Results[j] = Results[j + 1] * ts[j + 1]
  BY ResultsAre DEF Books, UnitBooks
<1>3. Sink \in S
  BY <1>1, NumeralBound
<1>4. ASSUME NEW k \in 1 .. Sink - 1, k + 1 \in S PROVE k \in S
  <2>1. k \in Links /\ k \in Units /\ k + 1 \in Units
    BY <1>1, UnitsAre
  <2>2. CASE ~Borrows(k)
    BY <2>1, <2>2, NumeralBound
  <2>3. CASE Borrows(k)
    <3>1. Left(k) <=> Left(k + 1)
      BY <2>1, <2>3, CountsIs DEF Left
    <3>2. v[k] = {} /\ occupancy[k] = 0
      <4>1. desc.latency[k] = 0 /\ desc.depth[k] = 0
        BY <2>3 DEF Borrows, Wire
      <4>2. v[k] \subseteq 1 .. 0 /\ occupancy[k] \in Nat /\ occupancy[k] <= 0
        BY <2>1, <4>1 DEF TypeOK
      <4>3. QED BY <4>2
    <3>3. given[k] = given[k + 1] * ts[k + 1] + d[k + 1]
      <4>1. given[k] = pushed[k] + 0
        BY <2>1, <3>2, FS_EmptySet DEF Books, UnitBooks, UnitBalanced
      <4>2. pushed[k] = fired[k + 1] + 0
        BY <2>1, <3>2 DEF Books, LinkBalanced
      <4>3. fired[k + 1] = given[k + 1] * ts[k + 1] + d[k + 1]
        BY <2>1 DEF Books, UnitBooks, UnitBalanced
      <4>4. pushed[k] \in Nat /\ fired[k + 1] \in Nat
        BY <2>1 DEF TypeOK
      <4>5. QED BY <4>1, <4>2, <4>3, <4>4
    <3>4. /\ given[k + 1] \in Nat /\ ts[k + 1] \in Nat /\ d[k + 1] \in Nat
          /\ d[k + 1] < ts[k + 1] /\ (~Left(k + 1) => d[k + 1] = 0)
      <4>1. UnitBooks(k + 1)
        BY <2>1 DEF Books
      <4>2. QED BY <2>1, <4>1, DescTyped DEF TypeOK, UnitBooks
    <3>5. Results[k] = Results[k + 1] * ts[k + 1] /\ Results[k + 1] \in Nat
      BY <1>2, <2>1
    <3>6. CASE Left(k + 1)
      <4>1. given[k + 1] < Results[k + 1]
        BY <1>4, <3>4, <3>5, <3>6
      <4>2. given[k] < Results[k]
        BY <3>3, <3>4, <3>5, <4>1, BelowByABeat
      <4>3. given[k] \in Nat /\ Results[k] \in Nat
        BY <1>2, <2>1 DEF TypeOK
      <4>4. QED BY <2>1, <3>1, <3>6, <4>2, <4>3
    <3>7. CASE ~Left(k + 1)
      <4>1. given[k + 1] = Results[k + 1] /\ d[k + 1] = 0
        BY <1>4, <3>4, <3>7
      <4>2. given[k] = Results[k] + 0 /\ Results[k] \in Nat
        BY <1>2, <2>1, <3>3, <3>5, <4>1
      <4>3. QED BY <2>1, <3>1, <3>7, <4>2
    <3>8. QED BY <3>6, <3>7
  <2>4. QED BY <2>2, <2>3
<1>5. QED
  <2> HIDE DEF S
  <2>1. 1 .. Sink \subseteq S
    BY <1>1, <1>3, <1>4, Downward, SMTT(20)
  <2>2. QED BY <1>1, <2>1 DEF S

----------------------------------------------------------------------------
(* The end of a run.                                                       *)

(* Once the sink has pushed JOBS results nothing is under way: a unit that *)
(* gave all of its results fired all it had to, so its supplier gave all.  *)
LEMMA FinishedIs == TypeOK /\ Books => (Finished <=> pushed[Sink] = jobs)
<1> SUFFICES ASSUME TypeOK, Books PROVE Finished <=> pushed[Sink] = jobs
  OBVIOUS
<1>1. /\ Units = 1 .. Sink /\ Sink \in Nat /\ Sink \in Units
      /\ \A k \in Links : k \in Units /\ k + 1 \in Units
  BY UnitsAre
<1>2. /\ Results \in [Units -> Nat \ {0}] /\ Results[Sink] = jobs
      /\ \A j \in Links : Results[j] = Results[j + 1] * ts[j + 1]
  BY ResultsAre DEF Books, UnitBooks
<1>3. ASSUME NEW k \in Units
      PROVE  /\ given[k] \in Nat /\ ts[k] \in Nat /\ d[k] \in Nat /\ pushed[k] \in Nat
             /\ fired[k] \in Nat
             /\ Cardinality(v[k]) \in Nat /\ (Cardinality(v[k]) = 0 <=> v[k] = {})
             /\ given[k] = pushed[k] + Cardinality(v[k])
             /\ fired[k] = given[k] * ts[k] + d[k]
             /\ d[k] < ts[k]
             /\ given[k] <= Results[k]
             /\ given[k] = Results[k] => d[k] = 0
  <2>1. UnitBooks(k)
    BY DEF Books
  <2>2. IsFiniteSet(v[k])
    <3>1. desc.latency[k] \in Nat /\ v[k] \subseteq 1 .. desc.latency[k]
      BY DescTyped DEF TypeOK, Description, Units
    <3>2. IsFiniteSet(1 .. desc.latency[k])
      BY <3>1, FS_Interval
    <3>3. QED BY <3>1, <3>2, FS_Subset
  <2>3. Cardinality(v[k]) \in Nat /\ (Cardinality(v[k]) = 0 <=> v[k] = {})
    BY <2>2, FS_CardinalityType, FS_EmptySet
  <2>4. /\ given[k] \in Nat /\ ts[k] \in Nat /\ d[k] \in Nat /\ pushed[k] \in Nat
        /\ fired[k] \in Nat
    BY DescTyped DEF TypeOK
  <2>5. given[k] <= Results[k] /\ (given[k] = Results[k] => d[k] = 0)
    BY <2>1, CountBound DEF UnitBooks
  <2>6. QED BY <2>1, <2>3, <2>4, <2>5 DEF UnitBooks, UnitBalanced
<1>4. ASSUME Finished PROVE pushed[Sink] = jobs
  <2>1. fired[Sink] = jobs * ts[Sink] /\ v[Sink] = {}
    BY <1>1, <1>2, <1>4 DEF Finished
  <2>2. CASE given[Sink] < jobs
    <3>1. given[Sink] * ts[Sink] + d[Sink] < jobs * ts[Sink] /\ jobs \in Nat
      BY <1>1, <1>2, <1>3, <2>2, BelowByABeat
    <3>2. fired[Sink] = given[Sink] * ts[Sink] + d[Sink] /\ fired[Sink] \in Nat
      BY <1>1, <1>3
    <3>3. QED BY <2>1, <3>1, <3>2
  <2>3. CASE given[Sink] = jobs
    BY <1>1, <1>3, <2>1, <2>3
  <2>4. QED BY <1>1, <1>2, <1>3, <2>2, <2>3
<1>5. ASSUME pushed[Sink] = jobs PROVE Finished
  <2> DEFINE S == {k \in Units : /\ given[k] = Results[k] /\ v[k] = {}
                                 /\ k # Sink => occupancy[k] = 0}
  <2>1. Sink \in S
    <3>1. given[Sink] = jobs + Cardinality(v[Sink]) /\ given[Sink] <= jobs
      BY <1>1, <1>2, <1>3, <1>5
    <3>2. Cardinality(v[Sink]) = 0 /\ given[Sink] = jobs
      BY <1>1, <1>2, <1>3, <3>1
    <3>3. QED BY <1>1, <1>2, <1>3, <3>2
  <2>2. ASSUME NEW k \in 1 .. Sink - 1, k + 1 \in S PROVE k \in S
    <3>1. k \in Links /\ k \in Units /\ k + 1 \in Units
      BY <1>1, UnitsAre
    <3>2. given[k + 1] = Results[k + 1] /\ d[k + 1] = 0
      BY <1>3, <2>2, <3>1
    <3>3. fired[k + 1] = Results[k]
      <4>1. fired[k + 1] = Results[k + 1] * ts[k + 1] + 0
        BY <1>3, <3>1, <3>2
      <4>2. Results[k] \in Nat /\ Results[k] = Results[k + 1] * ts[k + 1]
        BY <1>2, <3>1
      <4>3. QED BY <4>1, <4>2
    <3>4. pushed[k] = Results[k] + occupancy[k] /\ occupancy[k] \in Nat
      BY <3>1, <3>3 DEF Books, LinkBalanced, TypeOK
    <3>5. /\ given[k] = pushed[k] + Cardinality(v[k]) /\ given[k] <= Results[k]
          /\ Cardinality(v[k]) \in Nat /\ Results[k] \in Nat
      BY <1>2, <1>3, <3>1
    <3>6. occupancy[k] = 0 /\ Cardinality(v[k]) = 0 /\ given[k] = Results[k]
      BY <3>4, <3>5
    <3>7. QED BY <1>3, <3>1, <3>6
  <2>3. Units \subseteq S
    <3> HIDE DEF S
    <3>1. 1 .. Sink \subseteq S
      BY <1>1, <2>1, <2>2, Downward, SMTT(20)
    <3>2. QED BY <1>1, <3>1
  <2>4. \A k \in Units : fired[k] = Results[k] * ts[k] /\ v[k] = {}
    <3> SUFFICES ASSUME NEW k \in Units PROVE fired[k] = Results[k] * ts[k]
      BY <2>3
    <3>1. fired[k] = Results[k] * ts[k] + 0 /\ Results[k] * ts[k] \in Nat
      BY <1>2, <1>3, <2>3
    <3>2. QED BY <3>1
  <2>5. \A k \in Links : occupancy[k] = 0
    BY <1>1, <2>3, UnitsAre
  <2>6. QED BY <2>4, <2>5 DEF Finished
<1>6. QED BY <1>4, <1>5

(* The sink has no digits: its jobs digit is its count.                    *)
LEMMA SinkCounts == TypeOK /\ Books => g[Sink] = given[Sink] /\ given[Sink] <= jobs
<1> SUFFICES ASSUME TypeOK, Books PROVE g[Sink] = given[Sink] /\ given[Sink] <= jobs
  OBVIOUS
<1>1. Sink \in Units /\ ~Borrows(Sink)
  BY UnitsAre DEF Borrows, Wire
<1>2. Counted(Sink)
  BY <1>1 DEF Books, UnitBooks
<1>3. QED BY <1>2 DEF Counted, Numeral

(* `done' sees the JOBS-th push of the sink, from its counter and pipeline.*)
LEMMA DoneIs ==
  ASSUME TypeOK, busy, Books, Books', pushed[Sink] < jobs, NEW ready \in BOOLEAN,
         NEW o \in Offers, NEW f \in Fires(o, ready), Cycle(o, f, ready)
  PROVE  /\ Done(o, f, ready) <=> pushed'[Sink] = jobs
         /\ pushed'[Sink] <= jobs
<1> DEFINE L == desc.latency[Sink]
           P == pushed[Sink]
           G == given[Sink]
           q == Cardinality(v[Sink])
           gives == f[Sink] /\ Gives(o, Sink)
           give == Give(o, f, ready, Sink)
<1>1. /\ Sink \in Units /\ Sink' = Sink /\ jobs' = jobs /\ L \in Nat
      /\ Mod \in Nat /\ jobs \in Nat /\ jobs < Mod /\ P \in Nat /\ G \in Nat
      /\ \A x \in Nat : x < Mod => x % Mod = x
  <2>1. Sink' = Sink /\ jobs' = jobs
    BY DEF Cycle, config, Sink
  <2>2. Mod \in Nat /\ \A x \in Nat : x < Mod => x % Mod = x
    <3>1. Mod \in Nat
      BY DescTyped
    <3>2. QED BY <3>1
  <2>3. Sink \in Units /\ L \in Nat
    BY UnitsAre, DescTyped DEF Description, Units
  <2>4. jobs \in 0 .. Mod - 1 /\ P \in Nat /\ G \in Nat
    BY <2>3 DEF TypeOK
  <2>5. QED BY <2>1, <2>2, <2>3, <2>4
<1>2. /\ g[Sink] = G /\ G <= jobs /\ G = P + q
      /\ IsFiniteSet(v[Sink]) /\ q \in Nat
  <2>1. G = P + q
    BY <1>1 DEF Books, UnitBooks, UnitBalanced
  <2>2. v[Sink] \subseteq 1 .. L /\ IsFiniteSet(1 .. L)
    <3>1. v[Sink] \subseteq 1 .. L
      BY <1>1 DEF TypeOK
    <3> HIDE DEF L
    <3>2. L \in Int /\ 1 \in Int
      BY <1>1
    <3>3. IsFiniteSet(1 .. L)
      BY <3>2, FS_Interval
    <3>4. QED BY <3>1, <3>3
  <2>3. IsFiniteSet(v[Sink]) /\ q \in Nat
    BY <2>2, FS_Subset, FS_CardinalityType
  <2>4. QED BY <2>1, <2>3, SinkCounts
<1>3. /\ pushed'[Sink] = P + (IF give THEN 1 ELSE 0)
      /\ given'[Sink] = G + (IF gives THEN 1 ELSE 0)
      /\ given'[Sink] <= jobs
  <2>1. UnitBooks(Sink)' /\ ~Borrows(Sink)'
    BY <1>1, Static DEF Books, Cycle, config, Borrows, Wire, Links, Sink
  <2>2. Counted(Sink)'
    BY <2>1 DEF UnitBooks
  <2>3. given'[Sink] <= jobs
    BY <1>1, <2>2 DEF Counted, Numeral
  <2>4. QED BY <1>1, <2>3 DEF Cycle, History
<1>4. /\ Done(o, f, ready) <=>
           /\ give
           /\ (g[Sink] + (IF L = 0 /\ Gives(o, Sink) THEN 1 ELSE 0)) % Mod = jobs
           /\ v[Sink] \subseteq {L}
      /\ L = 0 => v[Sink] = {} /\ (give <=> gives)
      /\ L > 0 /\ give => L \in v[Sink]
  <2>1. L > 0 /\ give => L \in v[Sink]
    BY <1>1 DEF Give, Offers, Forward, PipeHead
  <2>2. QED BY <1>1, <2>1, Moves DEF Done
<1> HIDE DEF L, P, G, gives, give
<1>5. CASE ~give
  BY <1>1, <1>3, <1>4, <1>5 DEF P
<1>6. CASE give /\ L = 0
  <2>1. Gives(o, Sink) /\ gives /\ q = 0
    BY <1>4, <1>6, FS_EmptySet DEF gives
  <2>2. G = P /\ P + 1 <= jobs /\ pushed'[Sink] = P + 1
    BY <1>1, <1>2, <1>3, <1>6, <2>1
  <2>3. (g[Sink] + 1) % Mod = P + 1
    <3>1. P + 1 \in Nat /\ P + 1 < Mod
      BY <1>1, <2>2
    <3>2. QED BY <1>1, <1>2, <2>2, <3>1
  <2>4. QED BY <1>4, <1>6, <2>1, <2>2, <2>3
<1>7. CASE give /\ L > 0
  <2>1. L \in v[Sink] /\ (g[Sink] + 0) % Mod = G /\ pushed'[Sink] = P + 1
    <3>1. G \in Nat /\ G < Mod /\ G + 0 = G
      BY <1>1, <1>2
    <3>2. (G + 0) % Mod = G
      BY <1>1, <3>1
    <3>3. QED BY <1>2, <1>3, <1>4, <1>7, <3>2
  <2>2. /\ Cardinality(v[Sink] \ {L}) = q - 1 /\ Cardinality(v[Sink] \ {L}) \in Nat
        /\ Cardinality(v[Sink] \ {L}) = 0 <=> v[Sink] \subseteq {L}
    <3>1. IsFiniteSet(v[Sink] \ {L}) /\ Cardinality(v[Sink] \ {L}) = q - 1
      BY <1>2, <2>1, FS_RemoveElement
    <3>2. v[Sink] \ {L} = {} <=> v[Sink] \subseteq {L}
      OBVIOUS
    <3>3. QED BY <3>1, <3>2, FS_CardinalityType, FS_EmptySet
  <2> HIDE DEF q
  <2>3. Done(o, f, ready) <=> G = jobs /\ q = 1
    <3>1. ~(L = 0)
      BY <1>7
    <3>2. Done(o, f, ready) <=> (g[Sink] + 0) % Mod = jobs /\ v[Sink] \subseteq {L}
      BY <1>4, <1>7, <3>1
    <3>3. q - 1 = 0 <=> q = 1
      BY <1>2
    <3>4. QED BY <2>1, <2>2, <3>2, <3>3
  <2>4. QED BY <1>1, <1>2, <2>1, <2>2, <2>3
<1>8. QED BY <1>1, <1>5, <1>6, <1>7

(* An idle group stays empty: nothing is fired without a run.              *)
LEMMA IdleStays ==
  ASSUME TypeOK, ~busy, Empty, NEW ready \in BOOLEAN, NEW o \in Offers,
         NEW f \in Fires(o, ready), Pipelines(o, f, ready), Buffers(o, f, ready),
         UNCHANGED desc
  PROVE  Empty'
<1>1. \A k \in Units : ~f[k] /\ ~o[k]
  <2> TAKE k \in Units
  <2>1. ~f[k] /\ ~Gives(o, k)
    BY Moves DEF Gives, WouldFire, Wants
  <2>2. o[k] = IF desc.latency[k] > 0 THEN PipeHead(k) ELSE Gives(o, k)
    BY DEF Offers, Forward
  <2>3. v[k] = {}
    BY DEF Empty
  <2>4. QED BY <2>1, <2>2, <2>3 DEF PipeHead
<1>2. ASSUME NEW k \in Units PROVE v'[k] = {}
  <2>1. v[k] = {} /\ ~f[k]
    BY <1>1 DEF Empty
  <2>2. QED BY <2>1 DEF Pipelines
<1>3. ASSUME NEW k \in Links PROVE occupancy'[k] = 0
  <2>1. k \in Units /\ k + 1 \in Units
    BY UnitsAre
  <2>2. ~Give(o, f, ready, k) /\ ~f[k + 1] /\ occupancy[k] = 0
    BY <1>1, <2>1 DEF Give, Empty
  <2>3. QED BY <2>2 DEF Buffers
<1>4. QED BY <1>2, <1>3, Static DEF Empty

(* A start opens empty books.                                              *)
LEMMA StartBooks ==
  ASSUME TypeOK, TypeOK', ~busy, Empty, NEW ready \in BOOLEAN, NEW o \in Offers,
         NEW f \in Fires(o, ready), NEW j \in JobsSet, NEW t \in [Open -> TSet],
         Start(o, f, ready, j, t)
  PROVE  Books' /\ pushed'[Sink'] = 0 /\ jobs' = j /\ j \in Nat /\ j > 0
<1>1. /\ UNCHANGED desc /\ Units' = Units /\ Links' = Links /\ Sink' = Sink
      /\ \A k \in Units : Borrows(k)' = Borrows(k)
  BY Static DEF Start
<1>2. /\ Sink \in Nat /\ Sink \in Units /\ Units = 1 .. Sink /\ Mod \in Nat
      /\ \A k \in Links : k \in Units /\ k + 1 \in Units
  BY DescTyped, UnitsAre
<1>3. /\ jobs' = j /\ \A k \in Units : d'[k] = 0 /\ g'[k] = 0 /\ given'[k] = 0
                                       /\ fired'[k] = 0 /\ pushed'[k] = 0
      /\ \A k, i \in Units : digits'[k][i] = 0
  BY DEF Start
<1>4. j \in Nat /\ j > 0
  <2>1. j \in 1 .. Mod - 1
    BY StartAssumption
  <2>2. QED BY <1>2, <2>1
<1>5. \A k \in Units : ts'[k] \in Nat /\ ts'[k] > 0
  <2> TAKE k \in Units
  <2>1. ts'[k] = IF k \in Open THEN t[k] ELSE desc.fixedT[k]
    BY DEF Start
  <2>2. CASE k \in Open
    <3>1. t[k] \in 1 .. Mod - 1
      BY <2>2, StartAssumption
    <3>2. QED BY <1>2, <2>1, <2>2, <3>1
  <2>3. CASE k \notin Open
    <3>1. desc.fixedT[k] \in 0 .. Mod - 1 /\ desc.fixedT[k] # 0
      BY <2>3, DescTyped DEF Description, Units, Open
    <3>2. QED BY <1>2, <2>1, <2>3, <3>1
  <2>4. QED BY <2>2, <2>3
<1>6. Empty'
  BY IdleStays, <1>1 DEF Start
<1>7. ASSUME NEW k \in Units PROVE UnitBooks(k)'
  <2>1. Counted(k)'
    <3>1. PICK c : c = [i \in k + 1 .. Sink + 1 |-> 0]
      OBVIOUS
    <3>2. c \in [k + 1 .. Sink + 1 -> Nat] /\ \A i \in k + 1 .. Sink + 1 : c[i] = 0
      BY <3>1
    <3>3. k \in 1 .. Sink /\ \A i \in k + 1 .. Sink : i \in Units /\ i \in k + 1 .. Sink + 1
                                   /\ i + 1 \in k + 1 .. Sink + 1
      BY <1>2
    <3>4. \A i \in k + 1 .. Sink : c[i] = c[i + 1] * ts'[i] + digits'[k][i]
      <4> TAKE i \in k + 1 .. Sink
      <4>1. c[i] = 0 /\ c[i + 1] = 0 /\ digits'[k][i] = 0 /\ ts'[i] \in Nat
        BY <1>3, <1>5, <3>2, <3>3
      <4>2. QED BY <4>1
    <3>5. c[Sink + 1] = g'[k] /\ c[k + 1] = given'[k]
      BY <1>2, <1>3, <3>2
    <3>6. Numeral(k, c)' /\ c[k + 1] = given'[k]
      BY <1>1, <3>4, <3>5 DEF Numeral
    <3>7. /\ g'[k] <= jobs'
          /\ \A i \in k + 1 .. Sink :
               digits'[k][i] < ts'[i] /\ (g'[k] = jobs' => digits'[k][i] = 0)
      BY <1>3, <1>4, <1>5, <3>3
    <3>8. QED BY <1>1, <3>2, <3>6, <3>7 DEF Counted
  <2>2. UnitBalanced(k)'
    <3>1. v'[k] = {} /\ Cardinality({}) = 0
      BY <1>1, <1>6, FS_EmptySet DEF Empty
    <3>2. QED BY <1>3, <1>5, <3>1 DEF UnitBalanced
  <2>3. QED BY <1>3, <1>5, <2>1, <2>2 DEF UnitBooks
<1>8. ASSUME NEW k \in Links PROVE LinkBalanced(k)'
  <2>1. occupancy'[k] = 0
    BY <1>1, <1>6 DEF Empty
  <2>2. QED BY <1>2, <1>3, <2>1 DEF LinkBalanced
<1>9. QED BY <1>1, <1>2, <1>3, <1>4, <1>7, <1>8 DEF Books

LEMMA RunInvInit == Init => RunInv
<1> SUFFICES ASSUME Init PROVE Empty
  BY DEF Init, RunInv
<1>1. v = [k \in Units |-> {}] /\ occupancy = [k \in Links |-> 0]
  BY DEF Init
<1>2. QED BY <1>1 DEF Empty

(* A cycle of a run: it goes on, or it is finished and the group is empty. *)
LEMMA RunCycle ==
  ASSUME TypeOK, TypeOK', busy, RunInv, NEW ready \in BOOLEAN, NEW o \in Offers,
         NEW f \in Fires(o, ready), Cycle(o, f, ready)
  PROVE  /\ RunInv' /\ Books'
         /\ busy' <=> pushed'[Sink] # jobs
         /\ ~busy' <=> Finished'
         /\ pushed'[Sink] = pushed[Sink] + (IF Give(o, f, ready, Sink) THEN 1 ELSE 0)
<1>1. Books /\ pushed[Sink] < jobs
  BY DEF RunInv
<1>2. Books'
  BY <1>1, BooksKept
<1>3. /\ Sink \in Units /\ Sink' = Sink /\ jobs' = jobs /\ jobs \in Nat
      /\ (busy' <=> ~Done(o, f, ready)) /\ pushed'[Sink] \in Nat
  <2>1. Sink \in Units /\ jobs \in Nat
    BY UnitsAre, DescTyped DEF TypeOK
  <2>2. /\ Sink' = Sink /\ jobs' = jobs /\ Units' = Units
        /\ busy' <=> ~Done(o, f, ready)
    BY Static DEF Cycle, config
  <2>3. QED BY <2>1, <2>2 DEF TypeOK
<1>4. (Done(o, f, ready) <=> pushed'[Sink] = jobs) /\ pushed'[Sink] <= jobs
  BY <1>1, <1>2, DoneIs
<1>5. Finished' <=> pushed'[Sink] = jobs
  <2>1. (TypeOK /\ Books => (Finished <=> pushed[Sink] = jobs))'
    BY FinishedIs, PTL
  <2>2. QED BY <1>2, <1>3, <2>1
<1>6. pushed'[Sink] = pushed[Sink] + (IF Give(o, f, ready, Sink) THEN 1 ELSE 0)
  BY <1>3 DEF Cycle, History
<1>7. CASE busy'
  <2>1. pushed'[Sink] # jobs /\ ~Finished'
    BY <1>3, <1>4, <1>5, <1>7
  <2>2. pushed'[Sink] < jobs
    BY <1>3, <1>4, <2>1
  <2>3. RunInv'
    BY <1>2, <1>3, <1>7, <2>2 DEF RunInv
  <2>4. QED BY <1>2, <1>6, <1>7, <2>1, <2>3
<1>8. CASE ~busy'
  <2>1. Finished'
    BY <1>3, <1>4, <1>5, <1>8
  <2>2. Empty'
    BY <2>1 DEF Finished, Empty
  <2>3. QED BY <1>2, <1>3, <1>4, <1>5, <1>6, <1>8, <2>2 DEF RunInv
<1>9. QED BY <1>7, <1>8

LEMMA RunInvStep == TypeOK /\ TypeOK' /\ RunInv /\ [Next]_vars => RunInv'
<1> SUFFICES ASSUME TypeOK, TypeOK', RunInv, [Next]_vars PROVE RunInv'
  OBVIOUS
<1>1. ASSUME NEW ready \in BOOLEAN, NEW o \in Offers, NEW f \in Fires(o, ready),
             Cycle(o, f, ready)
      PROVE  RunInv'
  <2>1. CASE busy
    BY <1>1, <2>1, RunCycle
  <2>2. CASE ~busy
    <3>1. Empty
      BY <2>2 DEF RunInv
    <3>2. UNCHANGED desc /\ ~busy'
      BY <1>1, <2>2 DEF Cycle, config
    <3>3. Empty'
      BY <1>1, <2>2, <3>1, <3>2, IdleStays DEF Cycle
    <3>4. QED BY <3>2, <3>3 DEF RunInv
  <2>3. QED BY <2>1, <2>2
<1>2. ASSUME NEW ready \in BOOLEAN, NEW o \in Offers, NEW f \in Fires(o, ready),
             NEW j \in JobsSet, NEW t \in [Open -> TSet], Start(o, f, ready, j, t)
      PROVE  RunInv'
  <2>1. ~busy /\ busy'
    BY <1>2 DEF Start
  <2>2. Empty
    BY <2>1 DEF RunInv
  <2>3. Books' /\ pushed'[Sink'] = 0 /\ jobs' = j /\ j \in Nat /\ j > 0
    BY <1>2, <2>1, <2>2, StartBooks
  <2>4. QED BY <2>1, <2>3 DEF RunInv
<1>3. CASE UNCHANGED vars
  <2>1. /\ UNCHANGED desc /\ busy' = busy /\ jobs' = jobs /\ ts' = ts /\ d' = d
        /\ digits' = digits /\ g' = g /\ v' = v /\ occupancy' = occupancy
        /\ fired' = fired /\ given' = given /\ pushed' = pushed
    BY <1>3 DEF vars, counters, units, links, history
  <2>2. Units' = Units /\ Links' = Links /\ Sink' = Sink
        /\ \A k : Borrows(k)' = Borrows(k) /\ Counts(k)' = Counts(k)
    BY <2>1, Static
  <2>3. \A k : Left(k)' = Left(k)
    BY <2>1, <2>2 DEF Left
  <2>4. \A k : Counted(k)' = Counted(k) /\ UnitBalanced(k)' = UnitBalanced(k)
    BY <2>1, <2>2 DEF Counted, Numeral, UnitBalanced
  <2>5. \A k : UnitBooks(k)' = UnitBooks(k) /\ LinkBalanced(k)' = LinkBalanced(k)
    BY <2>1, <2>2, <2>3, <2>4 DEF UnitBooks, LinkBalanced
  <2>6. QED BY <2>1, <2>2, <2>5 DEF RunInv, Books, Empty
<1>4. QED BY <1>1, <1>2, <1>3 DEF Next, Tick, Begin

----------------------------------------------------------------------------
(* The inductive invariant: a running group's books balance and its sink   *)
(* has results to push; an idle group's pipelines and buffers are empty.   *)
THEOREM RunKept == Spec => [](TypeOK /\ RunInv)
<1>1. Init => TypeOK /\ RingInv /\ RunInv
  BY InitTyped, RunInvInit
<1>2. (TypeOK /\ RingInv /\ RunInv) /\ [Next]_vars => (TypeOK /\ RingInv /\ RunInv)'
  BY StepTyped, RunInvStep
<1>3. QED BY <1>1, <1>2, PTL DEF Spec

(* Nothing is lost or made in a run, for every group: each unit's results  *)
(* are in its pipeline or pushed, each link's pushed or taken.             *)
THEOREM RunConserves == Spec => []Conserved
<1>1. TypeOK /\ RunInv => Conserved
  BY DEF RunInv, Books, UnitBooks, UnitBalanced, LinkBalanced, Conserved
<1>2. QED BY <1>1, RunKept, PTL

(* The counters of a unit, each inside its width, and a borrowed test      *)
(* decide as the counts R_k would, however far R_k is beyond the width.    *)
THEOREM CountersDecide == Spec => []LeftIsCount
<1>1. TypeOK /\ RunInv => LeftIsCount
  BY CountBound DEF RunInv, LeftIsCount
<1>2. QED BY <1>1, RunKept, PTL

LEMMA TickEnds ==
  ASSUME TypeOK, TypeOK', RunInv, busy, [Next]_vars
  PROVE  ~busy' <=> Finished'
<1>1. ASSUME NEW ready \in BOOLEAN, NEW o \in Offers, NEW f \in Fires(o, ready),
             Cycle(o, f, ready)
      PROVE  ~busy' <=> Finished'
  BY <1>1, RunCycle
<1>2. ASSUME NEW ready \in BOOLEAN, NEW j \in JobsSet, NEW t \in [Open -> TSet],
             Begin(ready, j, t)
      PROVE  FALSE
  BY <1>2 DEF Begin, Start
<1>3. ASSUME UNCHANGED vars PROVE ~busy' <=> Finished'
  <2>1. Books /\ pushed[Sink] < jobs /\ jobs \in Nat /\ pushed[Sink] \in Nat
    BY DescTyped DEF RunInv, TypeOK
  <2>2. ~Finished
    BY <2>1, FinishedIs
  <2>3. (TypeOK /\ Books => (Finished <=> pushed[Sink] = jobs))'
    BY FinishedIs, PTL
  <2>4. Sink' = Sink /\ jobs' = jobs /\ pushed' = pushed /\ busy' = busy
    BY <1>3 DEF vars, history, Sink
  <2>5. Books'
    BY <2>4, RunInvStep, <1>3 DEF RunInv
  <2>6. QED BY <2>1, <2>3, <2>4, <2>5
<1>4. QED BY <1>1, <1>2, <1>3 DEF Next, Tick

(* A run ends in exactly the cycle its last work ends, for every group:    *)
(* `done' is never raised with a beat under way, and never late.           *)
THEOREM RunEndsWhenFinished == Spec => DoneIsFinished
<1>1. TypeOK /\ TypeOK' /\ RunInv /\ [Next]_vars => [busy => (~busy' <=> Finished')]_vars
  BY TickEnds
<1>2. QED BY <1>1, RunKept, PTL DEF Spec, DoneIsFinished

----------------------------------------------------------------------------
(* The run as its users know it.                                           *)

LEMMA RunStarts == Init => Run!Init
BY DEF Init, Run!Init

LEMMA RunSteps ==
  ASSUME TypeOK, TypeOK', RunInv, [Next]_vars
  PROVE  [Run!Next]_<<busy, IF busy THEN jobs - pushed[Sink] ELSE 0>>
<1> DEFINE left == IF busy THEN jobs - pushed[Sink] ELSE 0
<1>1. ASSUME NEW ready \in BOOLEAN, NEW o \in Offers, NEW f \in Fires(o, ready),
             Cycle(o, f, ready)
      PROVE  Run!Push \/ UNCHANGED <<busy, left>>
  <2>1. CASE busy
    <3>1. /\ busy' <=> pushed'[Sink] # jobs
          /\ pushed'[Sink] = pushed[Sink] + (IF Give(o, f, ready, Sink) THEN 1 ELSE 0)
          /\ Sink' = Sink /\ jobs' = jobs
      BY <1>1, <2>1, RunCycle DEF Cycle, config, Sink
    <3>2. jobs \in Nat /\ pushed[Sink] \in Nat /\ pushed[Sink] < jobs /\ busy' \in BOOLEAN
      BY <2>1, DescTyped DEF TypeOK, RunInv
    <3>3. left = jobs - pushed[Sink] /\ left' = IF busy' THEN jobs - pushed'[Sink] ELSE 0
      BY <2>1, <3>1
    <3> HIDE DEF left
    <3>4. CASE Give(o, f, ready, Sink)
      <4>1. left' = left - 1 /\ (busy' <=> left' # 0)
        BY <3>1, <3>2, <3>3, <3>4
      <4>2. QED BY <2>1, <3>2, <4>1 DEF Run!Push, left
    <3>5. CASE ~Give(o, f, ready, Sink)
      <4>1. pushed'[Sink] = pushed[Sink] /\ busy'
        BY <3>1, <3>2, <3>5
      <4>2. QED BY <2>1, <3>2, <3>3, <4>1
    <3>6. QED BY <3>4, <3>5
  <2>2. CASE ~busy
    <3>1. ~busy' /\ busy \in BOOLEAN /\ busy' \in BOOLEAN
      BY <1>1, <2>2 DEF Cycle, TypeOK
    <3>2. QED BY <2>2, <3>1
  <2>3. QED BY <2>1, <2>2
<1>2. ASSUME NEW ready \in BOOLEAN, NEW o \in Offers, NEW f \in Fires(o, ready),
             NEW j \in JobsSet, NEW t \in [Open -> TSet], Start(o, f, ready, j, t)
      PROVE  Run!Start(j)
  <2>1. ~busy /\ busy' = TRUE
    BY <1>2 DEF Start
  <2>2. pushed'[Sink'] = 0 /\ jobs' = j /\ j \in Nat
    BY <1>2, <2>1, StartBooks DEF RunInv
  <2>3. left' = j
    BY <2>1, <2>2
  <2>4. QED BY <2>1, <2>3 DEF Run!Start
<1>3. CASE UNCHANGED vars
  BY <1>3 DEF vars, history, Sink
<1>4. QED
  BY <1>1, <1>2, <1>3 DEF Next, Tick, Begin, Run!Next

(* The rule implements a run, for every group: a start asks for JOBS       *)
(* results, each push of the sink delivers one, the last ends the run.     *)
THEOREM RunImplemented == Spec => GroupRunSpec
<1>1. Init => Run!Init
  BY RunStarts
<1>2. TypeOK /\ TypeOK' /\ RunInv /\ [Next]_vars
        => [Run!Next]_<<busy, IF busy THEN jobs - pushed[Sink] ELSE 0>>
  BY RunSteps
<1>3. QED BY <1>1, <1>2, RunKept, PTL DEF Spec, GroupRunSpec, Run!Spec

----------------------------------------------------------------------------
(* A run is never stuck.                                                   *)

(* A unit that has given all its results has taken all its supplier's.     *)
LEMMA SupplierIsDone ==
  ASSUME TypeOK, Books, NEW k \in Links, Left(k + 1), v[k] = {}, occupancy[k] = 0
  PROVE  Left(k)
<1>1. k \in Units /\ k + 1 \in Units
  BY UnitsAre
<1>2. /\ Results \in [Units -> Nat \ {0}]
      /\ Results[k] = Results[k + 1] * ts[k + 1]
  BY ResultsAre DEF Books, UnitBooks
<1>3. given[k + 1] < Results[k + 1] /\ given[k + 1] \in Nat
  <2>1. given[k + 1] \in Nat /\ Results[k + 1] \in Nat
    BY <1>1, <1>2 DEF TypeOK
  <2>2. given[k + 1] <= Results[k + 1] /\ given[k + 1] # Results[k + 1]
    BY <1>1, CountBound
  <2>3. QED BY <2>1, <2>2
<1>4. /\ fired[k + 1] = given[k + 1] * ts[k + 1] + d[k + 1] /\ d[k + 1] < ts[k + 1]
      /\ ts[k + 1] \in Nat /\ d[k + 1] \in Nat
  <2>1. UnitBooks(k + 1)
    BY <1>1 DEF Books
  <2>2. QED BY <1>1, <2>1, DescTyped DEF UnitBooks, UnitBalanced, TypeOK
<1>5. fired[k + 1] < Results[k]
  BY <1>1, <1>2, <1>3, <1>4, BelowByABeat
<1>6. given[k] = fired[k + 1]
  <2>1. given[k] = pushed[k] + 0 /\ pushed[k] = fired[k + 1] + 0
    BY <1>1, FS_EmptySet DEF Books, UnitBooks, UnitBalanced, LinkBalanced
  <2>2. pushed[k] \in Nat /\ fired[k + 1] \in Nat
    BY <1>1 DEF TypeOK
  <2>3. QED BY <2>1, <2>2
<1>7. given[k] \in Nat /\ Results[k] \in Nat
  BY <1>1, <1>2 DEF TypeOK
<1>8. QED BY <1>1, <1>5, <1>6, <1>7, CountBound

(* Were nothing to move, a unit would wait for its supplier, and so on up  *)
(* to the head, which waits for nobody.                                    *)
LEMMA SomethingMoves ==
  ASSUME TypeOK, RunInv, busy, \A k \in Units : valid[k],
         NEW o \in Offers, NEW f \in Fires(o, TRUE)
  PROVE  \E k \in Units : \/ f[k] \/ Read(o, f, TRUE, k) \/ gap[k] # 0
                          \/ v[k] # {} /\ ~Frozen(o, f, TRUE, k)
<1> SUFFICES ASSUME \A k \in Units : /\ ~f[k] /\ ~Read(o, f, TRUE, k) /\ gap[k] = 0
                                     /\ v[k] = {} \/ Frozen(o, f, TRUE, k)
             PROVE  FALSE
  OBVIOUS
<1> DEFINE Waits(k) == /\ Left(k) /\ ~Frozen(o, f, TRUE, k) /\ ~Avail(o, k)
           S == {k \in Units : Waits(k)}
<1>1. /\ Units = 1 .. Sink /\ Sink \in Nat /\ Sink \in Units /\ 1 \in Units
      /\ Books /\ pushed[Sink] < jobs
  BY UnitsAre DEF RunInv
<1>2. ASSUME NEW k \in Units, Left(k), ~Frozen(o, f, TRUE, k) PROVE Waits(k)
  <2>1. Wants(k)
    BY <1>2 DEF Wants
  <2>2. QED BY <1>2, <2>1 DEF Read
<1>3. Sink \in S
  <2>1. ~Frozen(o, f, TRUE, Sink)
    BY UnitsAre DEF Frozen, Room, Wire, Buffer
  <2>2. v[Sink] = {}
    BY <1>1, <2>1
  <2>3. given[Sink] = pushed[Sink] + 0 /\ Results[Sink] = jobs
    <3>1. given[Sink] = pushed[Sink] + 0
      BY <1>1, <2>2, FS_EmptySet DEF Books, UnitBooks, UnitBalanced
    <3>2. QED BY <1>1, <3>1, ResultsAre DEF Books, UnitBooks
  <2>4. given[Sink] # Results[Sink]
    <3>1. pushed[Sink] \in Nat /\ jobs \in Nat
      BY <1>1, DescTyped DEF TypeOK
    <3>2. QED BY <1>1, <2>3, <3>1
  <2>5. Left(Sink)
    BY <1>1, <2>4, CountBound
  <2>6. QED BY <1>1, <1>2, <2>1, <2>5
<1>4. ASSUME NEW k \in 1 .. Sink - 1, k + 1 \in S PROVE k \in S
  <2>1. /\ k \in Links /\ k \in Units /\ k + 1 \in Units /\ k # Sink
        /\ k + 1 > 1 /\ (k + 1) - 1 = k /\ desc.depth[k] \in Nat
    <3>1. k \in Links /\ k \in Units /\ k + 1 \in Units /\ k # Sink
      BY <1>1, UnitsAre
    <3>2. desc.depth[k] \in Nat
      BY <3>1, DescTyped DEF Description, Links
    <3>3. QED BY <3>1, <3>2
  <2>2. IF Wire(k) THEN ~o[k] ELSE occupancy[k] = 0
    BY <1>4, <2>1 DEF Avail
  <2>3. ~Frozen(o, f, TRUE, k) /\ occupancy[k] = 0
    <3>1. CASE Wire(k)
      <4>1. occupancy[k] \in Nat /\ occupancy[k] <= 0
        BY <2>1, <3>1 DEF TypeOK, Wire
      <4>2. ~o[k]
        BY <2>2, <3>1
      <4>3. occupancy[k] = 0
        BY <4>1
      <4>4. QED BY <4>2, <4>3 DEF Frozen
    <3>2. CASE ~Wire(k)
      <4>1. Buffer(k) /\ occupancy[k] < desc.depth[k]
        BY <2>1, <2>2, <3>2 DEF Wire, Buffer
      <4>2. Room(f, TRUE, k)
        BY <2>1, <3>2, <4>1 DEF Room
      <4>3. QED BY <2>2, <3>2, <4>2 DEF Frozen
    <3>3. QED BY <3>1, <3>2
  <2>4. v[k] = {}
    BY <2>1, <2>3
  <2>5. Left(k)
    BY <1>1, <1>4, <2>1, <2>3, <2>4, SupplierIsDone
  <2>6. QED BY <1>2, <2>1, <2>3, <2>5
<1>5. 1 \in S
  <2> HIDE DEF S
  <2>1. 1 .. Sink \subseteq S
    BY <1>1, <1>3, <1>4, Downward, SMTT(20)
  <2>2. QED BY <1>1, <2>1
<1>6. Avail(o, 1)
  BY <1>1 DEF Avail
<1>7. QED BY <1>5, <1>6

(* A run never waits for what will not come, for every group: while it is  *)
(* fed and drained something moves in every cycle.                         *)
THEOREM RunNeverStuck == Spec => []NeverStuck
<1>1. TypeOK /\ RunInv => NeverStuck
  BY SomethingMoves DEF NeverStuck
<1>2. QED BY <1>1, RunKept, PTL

----------------------------------------------------------------------------
(* The two passes have one solution.                                       *)

Offered(o, k) == IF desc.latency[k] > 0 THEN PipeHead(k) ELSE Gives(o, k)

(* The forward pass reads a unit's supplier alone, the backward pass its   *)
(* consumer alone.                                                         *)
LEMMA ReadsBefore ==
  ASSUME NEW o, NEW p, NEW k \in Units, k > 1 => o[k - 1] = p[k - 1]
  PROVE  Offered(o, k) = Offered(p, k)
<1>1. Avail(o, k) = Avail(p, k)
  BY DEF Avail
<1>2. QED BY <1>1 DEF Offered, Gives, WouldFire

LEMMA ReadsAfter ==
  ASSUME TypeOK, NEW o, NEW f, NEW h, NEW ready, NEW k \in Units,
         k # Sink => f[k + 1] = h[k + 1]
  PROVE  Frozen(o, f, ready, k) = Frozen(o, h, ready, k)
<1>1. Room(f, ready, k) = Room(h, ready, k)
  <2>1. CASE k = Sink
    BY <2>1, UnitsAre DEF Room, Wire, Buffer
  <2>2. CASE k # Sink
    BY <2>2 DEF Room, Wire, Buffer
  <2>3. QED BY <2>1, <2>2
<1>2. QED BY <1>1 DEF Frozen

LEMMA OneOffer == TypeOK => \E o : Offers = {o}
<1> SUFFICES ASSUME TypeOK PROVE \E o : Offers = {o}
  OBVIOUS
<1>1. Units = 1 .. Sink /\ Sink \in Nat /\ 1 \in Units
  BY UnitsAre
<1>2. \A o, k : Offered(o, k) \in BOOLEAN
  <2> TAKE o, k
  <2>1. PipeHead(k) \in BOOLEAN
    BY DEF PipeHead
  <2>2. Gives(o, k) \in BOOLEAN
    BY DEF Gives
  <2>3. QED BY <2>1, <2>2 DEF Offered
<1> DEFINE S == {m \in 0 .. Sink : \E o \in Signals : \A k \in 1 .. m : o[k] = Offered(o, k)}
<1>3. 0 \in S
  <2>1. [k \in Units |-> FALSE] \in Signals
    BY DEF Signals
  <2>2. QED BY <1>1, <2>1
<1>4. ASSUME NEW m \in 0 .. Sink - 1, m \in S PROVE m + 1 \in S
  <2>1. PICK o \in Signals : \A k \in 1 .. m : o[k] = Offered(o, k)
    BY <1>4
  <2> DEFINE p == [k \in Units |-> IF k = m + 1 THEN Offered(o, k) ELSE o[k]]
  <2>2. p \in Signals
    BY <1>2, <2>1 DEF Signals
  <2>3. \A k \in 1 .. m + 1 : p[k] = Offered(p, k)
    <3> TAKE k \in 1 .. m + 1
    <3>1. k \in Units /\ (k > 1 => p[k - 1] = o[k - 1])
      BY <1>1
    <3>2. Offered(p, k) = Offered(o, k)
      <4> HIDE DEF p
      <4> QED BY <3>1, ReadsBefore
    <3>3. p[k] = Offered(o, k)
      BY <2>1, <3>1
    <3>4. QED BY <3>2, <3>3
  <2> HIDE DEF p
  <2>4. m + 1 \in 0 .. Sink
    BY <1>1
  <2>5. QED BY <2>2, <2>3, <2>4
<1>5. Sink \in S
  <2> HIDE DEF S
  <2>1. 0 .. Sink \subseteq S
    BY <1>1, <1>3, <1>4, Upward
  <2>2. QED BY <1>1, <2>1
<1>6. PICK o \in Signals : \A k \in Units : o[k] = Offered(o, k)
  BY <1>1, <1>5
<1>7. o \in Offers
  BY <1>6 DEF Offers, Forward, Offered
<1>8. ASSUME NEW p \in Offers PROVE p = o
  <2>1. p \in Signals /\ \A k \in Units : p[k] = Offered(p, k)
    BY DEF Offers, Forward, Offered
  <2> DEFINE T == {k \in Units : p[k] = o[k]}
  <2>2. 1 \in T
    <3>1. Offered(p, 1) = Offered(o, 1)
      BY <1>1, ReadsBefore
    <3>2. QED BY <1>1, <1>6, <2>1, <3>1
  <2>3. ASSUME NEW k \in 1 .. Sink - 1, k \in T PROVE k + 1 \in T
    <3>1. k + 1 \in Units /\ (k + 1) - 1 = k
      BY <1>1
    <3>2. Offered(p, k + 1) = Offered(o, k + 1)
      BY <2>3, <3>1, ReadsBefore
    <3>3. QED BY <1>6, <2>1, <3>1, <3>2
  <2>4. Units \subseteq T
    <3> HIDE DEF T
    <3>1. 1 .. Sink \subseteq T
      BY <1>1, <2>2, <2>3, Upward
    <3>2. QED BY <1>1, <3>1
  <2>5. QED BY <1>6, <2>1, <2>4 DEF Signals
<1>9. Offers = {o}
  BY <1>7, <1>8
<1>10. QED BY <1>9

LEMMA OneFiring ==
  ASSUME TypeOK, NEW ready, NEW o
  PROVE  \E f : Fires(o, ready) = {f}
<1>1. Units = 1 .. Sink /\ Sink \in Nat /\ Sink \in Units
  BY UnitsAre
<1> DEFINE Fired(f, k) == WouldFire(o, k) /\ ~Frozen(o, f, ready, k)
<1>2. \A f, k : Fired(f, k) \in BOOLEAN
  OBVIOUS
<1>3. ASSUME NEW f, NEW h, NEW k \in Units, k # Sink => f[k + 1] = h[k + 1]
      PROVE  Fired(f, k) = Fired(h, k)
  <2>1. Frozen(o, f, ready, k) = Frozen(o, h, ready, k)
    BY <1>3, ReadsAfter
  <2>2. QED BY <2>1
<1>4. Fires(o, ready) = {f \in Signals : \A k \in Units : f[k] = Fired(f, k)}
  BY DEF Fires, Backward
<1> HIDE DEF Fired
<1> DEFINE S == {m \in 1 .. Sink + 1 :
                   \E f \in Signals : \A k \in m .. Sink : f[k] = Fired(f, k)}
<1>5. Sink + 1 \in S
  <2>1. [k \in Units |-> FALSE] \in Signals
    BY DEF Signals
  <2>2. Sink + 1 \in 1 .. Sink + 1 /\ Sink + 1 .. Sink = {}
    BY <1>1
  <2>3. QED BY <2>1, <2>2
<1>6. ASSUME NEW m \in 1 .. (Sink + 1) - 1, m + 1 \in S PROVE m \in S
  <2>1. PICK f \in Signals : \A k \in m + 1 .. Sink : f[k] = Fired(f, k)
    BY <1>6
  <2> DEFINE h == [k \in Units |-> IF k = m THEN Fired(f, k) ELSE f[k]]
  <2>2. h \in Signals
    BY <1>2, <2>1 DEF Signals
  <2>3. \A k \in m .. Sink : h[k] = Fired(h, k)
    <3> TAKE k \in m .. Sink
    <3>1. k \in Units /\ (k # Sink => h[k + 1] = f[k + 1]) /\ (k # m => k \in m + 1 .. Sink)
      BY <1>1
    <3>2. Fired(h, k) = Fired(f, k)
      <4> HIDE DEF h
      <4> QED BY <3>1, <1>3
    <3>3. h[k] = Fired(f, k)
      BY <2>1, <3>1
    <3>4. QED BY <3>2, <3>3
  <2> HIDE DEF h
  <2>4. m \in 1 .. Sink + 1
    BY <1>1
  <2>5. QED BY <2>2, <2>3, <2>4
<1>7. 1 \in S
  <2> HIDE DEF S
  <2>1. Sink + 1 \in Int /\ 1 \in 1 .. Sink + 1
    BY <1>1
  <2>2. \A m \in 1 .. (Sink + 1) - 1 : m + 1 \in S => m \in S
    BY <1>6
  <2>3. 1 \in Int
    OBVIOUS
  <2>4. 1 .. Sink + 1 \subseteq S
    BY <1>5, <2>1, <2>2, <2>3, Downward, Zenon
  <2>5. QED BY <2>1, <2>4
<1>8. PICK f \in Signals : \A k \in Units : f[k] = Fired(f, k)
  BY <1>1, <1>7
<1>9. f \in Fires(o, ready)
  BY <1>4, <1>8
<1>10. ASSUME NEW h \in Fires(o, ready) PROVE h = f
  <2>1. h \in Signals /\ \A k \in Units : h[k] = Fired(h, k)
    BY <1>4
  <2> DEFINE T == {k \in Units : h[k] = f[k]}
  <2>2. Sink \in T
    <3>1. Fired(h, Sink) = Fired(f, Sink)
      BY <1>1, <1>3
    <3>2. QED BY <1>1, <1>8, <2>1, <3>1
  <2>3. ASSUME NEW k \in 1 .. Sink - 1, k + 1 \in T PROVE k \in T
    <3>1. k \in Units
      BY <1>1
    <3>2. Fired(h, k) = Fired(f, k)
      BY <1>3, <2>3, <3>1
    <3>3. QED BY <1>8, <2>1, <3>1, <3>2
  <2>4. Units \subseteq T
    <3> HIDE DEF T
    <3>1. 1 .. Sink \subseteq T
      BY <1>1, <2>2, <2>3, Downward
    <3>2. QED BY <1>1, <3>1
  <2>5. QED BY <1>8, <2>1, <2>4 DEF Signals
<1>11. Fires(o, ready) = {f}
  BY <1>9, <1>10
<1>12. QED BY <1>11

(* The rule's combinational signals form no loop, for every group: the two *)
(* passes settle on exactly one solution in every state.                   *)
THEOREM RunDetermined == Spec => []WiresDetermined
<1>1. TypeOK => WiresDetermined
  <2> SUFFICES ASSUME TypeOK PROVE WiresDetermined
    OBVIOUS
  <2>1. Cardinality(Offers) = 1
    BY OneOffer, FS_Singleton
  <2>2. ASSUME NEW ready \in BOOLEAN, NEW o \in Offers PROVE Cardinality(Fires(o, ready)) = 1
    <3>1. \E f : Fires(o, ready) = {f}
      BY OneFiring
    <3>2. QED BY <3>1, FS_Singleton
  <2>3. QED BY <2>1, <2>2 DEF WiresDetermined
<1>2. QED BY <1>1, Typed, PTL

----------------------------------------------------------------------------
(* The inductive invariant.                                                *)

(* The head's beats in one result of unit k, and the i-th result's fold;   *)
(* the head's own beats are the results of a unit 0.                       *)
Span[k \in 0 .. Sink] == IF k = 0 THEN 1 ELSE Span[k - 1] * ts[k]
Fold(k, i) == <<(i - 1) * Span[k] + 1, i * Span[k]>>

(* What a register holds: the fold of its job so far, up to the beat being *)
(* read, the last one read, or its whole job; and a result in the pipeline *)
(* keeps the register still.                                               *)
AccHolds(k) ==
  LET lo == given[k] * Span[k] + 1
  IN /\ v[k] # {} => lane[k] = 0 /\ d[k] = 0 /\ given[k] > 0
     /\ lane[k] > 0 => acc[k] = <<lo, (fired[k] + 1) * Span[k - 1], lane[k]>>
     /\ lane[k] = 0 /\ d[k] > 0 => acc[k] = <<lo, fired[k] * Span[k - 1], desc.span[k]>>
     /\ lane[k] = 0 /\ d[k] = 0 /\ given[k] > 0 =>
          acc[k] = <<(given[k] - 1) * Span[k] + 1, given[k] * Span[k], desc.span[k]>>

(* A buffer's slots from its read pointer on hold the results its consumer *)
(* has not taken, in their order.                                          *)
Slot(k, i) ==
  LET s == rslot[k] + i IN IF s < desc.depth[k] THEN s ELSE s - desc.depth[k]
SlotsHold(k) ==
  \A i \in 0 .. occupancy[k] - 1 : slots[k][Slot(k, i)] = Fold(k, fired[k + 1] + i + 1)

SlotsTyped == \A k \in Links : DOMAIN slots[k] = 0 .. desc.depth[k] - 1
TFixed == \A k \in Units \ Open : ts[k] = desc.fixedT[k]

DataBooks ==
  /\ \A k \in Units : desc.latency[k] # 0 => AccHolds(k)
  /\ \A k \in Links : Buffer(k) => SlotsHold(k)

DataInv == TFixed /\ SlotsTyped /\ (busy /\ Catalogued(desc) => DataBooks)

----------------------------------------------------------------------------
(* The run's spans and the data that stand on its links are what their     *)
(* equations say.                                                          *)

LEMMA SpanIs ==
  ASSUME TypeOK
  PROVE  /\ Span \in [0 .. Sink -> Nat] /\ Span[0] = 1
         /\ \A k \in Units : Span[k] = Span[k - 1] * ts[k]
<1> DEFINE Upto(m, R) == /\ R \in [0 .. m -> Nat]
                         /\ \A k \in 0 .. m : R[k] = IF k = 0 THEN 1 ELSE R[k - 1] * ts[k]
           S == {m \in 0 .. Sink : \E R : Upto(m, R)}
<1>a. Sink \in Nat /\ 0 \in Int /\ Sink \in Int
  BY UnitsAre
<1>1. Units = 1 .. Sink /\ Sink \in Nat /\ \A k \in Units : ts[k] \in Nat
  BY UnitsAre DEF TypeOK
<1>2. 0 \in S
  <2>1. \E X : Upto(0, X)
    <3> WITNESS [k \in 0 .. 0 |-> 1]
    <3> QED OBVIOUS
  <2>2. 0 \in 0 .. Sink
    BY <1>1
  <2> HIDE DEF Upto
  <2>3. QED BY <2>1, <2>2
<1>3. ASSUME NEW m \in 0 .. Sink - 1, m \in S PROVE m + 1 \in S
  <2>1. PICK R : Upto(m, R)
    BY <1>3
  <2> DEFINE Q == [k \in 0 .. m + 1 |-> IF k = m + 1 THEN R[m] * ts[m + 1] ELSE R[k]]
  <2>2. R[m] \in Nat /\ ts[m + 1] \in Nat /\ m \in Nat
    BY <1>1, <2>1
  <2>3. R[m] * ts[m + 1] \in Nat
    BY <2>2
  <2>4. Upto(m + 1, Q)
    <3>1. \A k \in 0 .. m + 1 : k = m + 1 \/ (k \in 0 .. m /\ k # m + 1)
      BY <2>2
    <3>2. Q \in [0 .. m + 1 -> Nat]
      BY <2>1, <2>3, <3>1
    <3>3. ASSUME NEW k \in 0 .. m + 1
          PROVE  Q[k] = IF k = 0 THEN 1 ELSE Q[k - 1] * ts[k]
      <4>1. CASE k = m + 1
        <5>1. Q[k - 1] = R[m] /\ k # 0
          BY <2>2, <4>1
        <5>2. QED BY <4>1, <5>1
      <4>2. CASE k # m + 1
        <5>1. k \in 0 .. m /\ Q[k] = R[k] /\ (k # 0 => Q[k - 1] = R[k - 1])
          BY <2>2, <4>2
        <5>2. QED BY <2>1, <5>1
      <4>3. QED BY <4>1, <4>2
    <3>4. QED BY <3>2, <3>3
  <2>5. \E X : Upto(m + 1, X)
    <3> WITNESS Q
    <3> QED BY <2>4
  <2>6. m + 1 \in 0 .. Sink
    BY <1>1
  <2> HIDE DEF Upto
  <2>7. QED BY <2>5, <2>6
<1>4. Sink \in S
  <2> HIDE DEF S
  <2>1. 0 .. Sink \subseteq S
    BY <1>a, <1>2, <1>3, Upward
  <2>2. QED BY <1>1, <2>1
<1>5. PICK R : Upto(Sink, R)
  BY <1>4
<1>6. R = [k \in 0 .. Sink |-> IF k = 0 THEN 1 ELSE R[k - 1] * ts[k]]
  BY <1>1, <1>5
<1>7. Span = [k \in 0 .. Sink |-> IF k = 0 THEN 1 ELSE Span[k - 1] * ts[k]]
  BY <1>6 DEF Span
<1>8. Span[0] = 1 /\ \A k \in Units : Span[k] = Span[k - 1] * ts[k]
  BY <1>1, <1>7
<1> DEFINE N == {k \in 0 .. Sink : Span[k] \in Nat}
<1>9. 0 \in N
  BY <1>1, <1>8
<1>10. ASSUME NEW k \in 0 .. Sink - 1, k \in N PROVE k + 1 \in N
  <2>1. k + 1 \in Units /\ (k + 1) - 1 = k /\ Span[k] \in Nat /\ k + 1 \in 0 .. Sink
    BY <1>1, <1>10
  <2>2. Span[k + 1] = Span[k] * ts[k + 1] /\ ts[k + 1] \in Nat
    BY <1>1, <1>8, <2>1
  <2>3. QED BY <2>1, <2>2
<1>11. 0 .. Sink \subseteq N
  <2> HIDE DEF N
  <2> QED BY <1>a, <1>9, <1>10, Upward
<1>12. Span \in [0 .. Sink -> Nat]
  BY <1>7, <1>11
<1>13. QED BY <1>8, <1>12

(* A unit's input reads the outputs before its own only.                   *)
LEMMA InputReads ==
  ASSUME TypeOK, NEW k \in Units, NEW p, NEW q, k > 1 => p[k - 1] = q[k - 1]
  PROVE  Input(p, k) = Input(q, k)
<1>1. CASE k = 1
  BY <1>1 DEF Input
<1>2. CASE k > 1 /\ Wire(k - 1)
  <2>1. ~Buffer(k - 1) /\ k # 1
    BY <1>2 DEF Wire, Buffer
  <2>2. QED BY <1>2, <2>1 DEF Input
<1>3. CASE k > 1 /\ Buffer(k - 1)
  <2>1. ~Wire(k - 1) /\ k # 1
    BY <1>3 DEF Wire, Buffer
  <2>2. QED BY <1>3, <2>1 DEF Input
<1>4. k = 1 \/ (k > 1 /\ (Wire(k - 1) \/ Buffer(k - 1)))
  <2>1. Units = 1 .. Sink /\ Links = 1 .. Sink - 1 /\ Sink \in Nat
    BY UnitsAre
  <2>2. \A i \in Links : desc.depth[i] = 0 \/ desc.depth[i] > 0
    <3>1. \A i \in Links : desc.depth[i] \in Nat
      BY DescTyped DEF Description, Links
    <3>2. QED BY <3>1
  <2>3. k # 1 => k - 1 \in Links /\ k > 1
    BY <2>1
  <2>4. QED BY <2>2, <2>3 DEF Wire, Buffer
<1>5. QED BY <1>1, <1>2, <1>3, <1>4

LEMMA OutIs ==
  ASSUME TypeOK
  PROVE  \A k \in Units : Out[k] = IF desc.latency[k] > 0 THEN Held(k) ELSE Input(Out, k)
<1> DEFINE E(R, k) == IF desc.latency[k] > 0 THEN Held(k) ELSE Input(R, k)
           S == {m \in 0 .. Sink : \E R : R = [k \in Units |-> R[k]] /\ \A k \in 1 .. m : R[k] = E(R, k)}
<1>1. Units = 1 .. Sink /\ Sink \in Nat
  BY UnitsAre
<1>2. 0 \in S
  <2>1. PICK R : R = [k \in Units |-> 0]
    OBVIOUS
  <2>2. R = [k \in Units |-> R[k]] /\ \A k \in 1 .. 0 : R[k] = E(R, k)
    BY <2>1
  <2>3. QED BY <1>1, <2>2
<1>3. ASSUME NEW m \in 0 .. Sink - 1, m \in S PROVE m + 1 \in S
  <2>1. PICK R : R = [k \in Units |-> R[k]] /\ \A k \in 1 .. m : R[k] = E(R, k)
    BY <1>3
  <2>2. PICK Q : Q = [k \in Units |-> IF k = m + 1 THEN E(R, k) ELSE R[k]]
    OBVIOUS
  <2>3. \A k \in Units : Q[k] = IF k = m + 1 THEN E(R, k) ELSE R[k]
    BY <2>2
  <2>4. ASSUME NEW k \in 1 .. m + 1 PROVE Q[k] = E(Q, k)
    <3>1. k \in Units /\ (k > 1 => k - 1 \in Units /\ k - 1 # m + 1)
      BY <1>1
    <3>2. k > 1 => Q[k - 1] = R[k - 1]
      BY <2>3, <3>1
    <3>3. E(Q, k) = E(R, k)
      BY <3>1, <3>2, InputReads
    <3> HIDE DEF E
    <3>4. k = m + 1 \/ k \in 1 .. m
      OBVIOUS
    <3>5. Q[k] = E(R, k)
      BY <2>1, <2>3, <3>1, <3>4
    <3>6. QED BY <3>3, <3>5
  <2>5. m + 1 \in 0 .. Sink /\ Q = [k \in Units |-> Q[k]]
    BY <1>1, <2>2
  <2> HIDE DEF E
  <2>6. QED BY <2>4, <2>5
<1>4. Sink \in S
  <2> HIDE DEF S
  <2>1. 0 .. Sink \subseteq S
    BY <1>1, <1>2, <1>3, Upward
  <2>2. QED BY <1>1, <2>1
<1>5. PICK R : R = [k \in Units |-> R[k]] /\ \A k \in Units : R[k] = E(R, k)
  BY <1>1, <1>4
<1>6. R = [k \in Units |-> E(R, k)]
  BY <1>5
<1>7. Out = [k \in Units |-> E(Out, k)]
  BY <1>6 DEF Out
<1>8. QED BY <1>7

----------------------------------------------------------------------------
(* One cycle of a run.                                                     *)

LEMMA UnitNumbers ==
  ASSUME TypeOK, Books, NEW k \in Units
  PROVE  /\ Span[k - 1] \in Nat /\ ts[k] \in Nat /\ ts[k] > 0
         /\ Span[k] = Span[k - 1] * ts[k] /\ Span[k] \in Nat
         /\ d[k] \in Nat /\ d[k] < ts[k] /\ lane[k] \in Nat /\ lane[k] < desc.span[k]
         /\ fired[k] \in Nat /\ given[k] \in Nat /\ pushed[k] \in Nat
         /\ fired[k] = given[k] * ts[k] + d[k]
         /\ desc.latency[k] \in Nat /\ desc.span[k] \in Nat
<1>1. k - 1 \in 0 .. Sink /\ k \in 0 .. Sink
  BY UnitsAre
<1>2. Span[k - 1] \in Nat /\ Span[k] = Span[k - 1] * ts[k] /\ Span[k] \in Nat
  BY <1>1, SpanIs
<1>3. desc.latency[k] \in Nat /\ desc.span[k] \in Nat
  BY DescTyped DEF Description, Units
<1>4. QED BY <1>2, <1>3 DEF TypeOK, Books, UnitBooks, UnitBalanced

(* A block of the catalogue at latency 0 gives what it reads.              *)
LEMMA Straight ==
  ASSUME TypeOK, Books, TFixed, Catalogued(desc), NEW k \in Units, desc.latency[k] = 0
  PROVE  ts[k] = 1 /\ Span[k] = Span[k - 1] /\ fired[k] = pushed[k] /\ d[k] = 0
<1>1. desc.fixedT[k] = 1
  BY DEF Catalogued, Units
<1>2. ts[k] = 1
  BY <1>1 DEF TFixed, Open
<1>3. v[k] = {} /\ Cardinality({}) = 0
  <2>1. v[k] \subseteq 1 .. 0
    BY DEF TypeOK
  <2>2. QED BY <2>1, FS_EmptySet
<1>4. given[k] = pushed[k] + 0
  BY <1>3 DEF Books, UnitBooks, UnitBalanced
<1>5. QED BY <1>2, <1>4, UnitNumbers

(* What stands at a unit's input is the next beat of its producer's        *)
(* results, and what it offers the fold of its own next result.            *)
LEMMA Signal ==
  ASSUME TypeOK, RingInv, Books, TFixed, DataBooks, Catalogued(desc),
         NEW o \in Offers
  PROVE  \A k \in Units : /\ Avail(o, k) => Input(Out, k) = Fold(k - 1, fired[k] + 1)
                          /\ o[k] => Out[k] = Fold(k, pushed[k] + 1)
<1> DEFINE In(k) == Avail(o, k) => Input(Out, k) = Fold(k - 1, fired[k] + 1)
           At(k) == o[k] => Out[k] = Fold(k, pushed[k] + 1)
           S == {k \in Units : In(k) /\ At(k)}
<1>1. /\ Units = 1 .. Sink /\ Links = 1 .. Sink - 1 /\ Sink \in Nat /\ 1 \in Units
      /\ 1 \in Int /\ Sink \in Int
  BY UnitsAre
<1>2. ASSUME NEW k \in Units, In(k) PROVE At(k)
  <2> SUFFICES ASSUME o[k] PROVE Out[k] = Fold(k, pushed[k] + 1)
    OBVIOUS
  <2>1. o[k] <=> IF desc.latency[k] > 0 THEN PipeHead(k) ELSE Gives(o, k)
    BY DEF Offers, Forward
  <2>2. Out[k] = IF desc.latency[k] > 0 THEN Held(k) ELSE Input(Out, k)
    BY OutIs
  <2>3. CASE desc.latency[k] = 0
    <3>1. Avail(o, k)
      BY <2>1, <2>3 DEF Gives, WouldFire
    <3>2. Out[k] = Fold(k - 1, fired[k] + 1)
      BY <1>2, <2>2, <2>3, <3>1
    <3>3. QED BY <2>3, <3>2, Straight DEF Fold
  <2>4. CASE desc.latency[k] # 0
    <3>1. desc.latency[k] = 1 /\ 1 \in v[k]
      BY <2>1, <2>4, UnitNumbers DEF Catalogued, Units, PipeHead
    <3>2. v[k] = {1} /\ Cardinality(v[k]) = 1
      <4>1. v[k] \subseteq 1 .. 1
        BY <3>1 DEF TypeOK
      <4>2. v[k] = {1}
        BY <3>1, <4>1
      <4>3. QED BY <4>2, FS_Singleton
    <3>3. given[k] = pushed[k] + 1
      BY <3>2 DEF Books, UnitBooks, UnitBalanced
    <3>4. acc[k] = <<(given[k] - 1) * Span[k] + 1, given[k] * Span[k], desc.span[k]>>
      BY <2>4, <3>2 DEF DataBooks, AccHolds
    <3>5. (given[k] - 1) = (pushed[k] + 1) - 1
      BY <3>3
    <3>6. QED BY <2>2, <2>4, <3>3, <3>4, <3>5, UnitNumbers DEF Held, Fold
  <2>5. QED BY <2>3, <2>4
<1>3. In(1)
  <2>1. Span[1 - 1] = 1 /\ fired[1] \in Nat
    BY <1>1, SpanIs, UnitNumbers
  <2>2. Input(Out, 1) = <<fired[1] + 1, fired[1] + 1>>
    BY DEF Input
  <2>3. QED BY <2>1, <2>2 DEF Fold
<1>4. ASSUME NEW k \in 1 .. Sink - 1, At(k) PROVE In(k + 1)
  <2> SUFFICES ASSUME Avail(o, k + 1) PROVE Input(Out, k + 1) = Fold(k, fired[k + 1] + 1)
    BY <1>1
  <2>1. /\ k \in Links /\ k \in Units /\ k + 1 \in Units /\ k + 1 > 1 /\ (k + 1) - 1 = k
        /\ k + 1 # 1 /\ desc.depth[k] \in Nat /\ occupancy[k] \in Nat
        /\ occupancy[k] <= desc.depth[k] /\ fired[k + 1] \in Nat
        /\ pushed[k] = fired[k + 1] + occupancy[k]
    <3>1. k \in Links /\ k \in Units /\ k + 1 \in Units /\ k + 1 > 1 /\ (k + 1) - 1 = k
      BY <1>1
    <3>2. desc.depth[k] \in Nat
      BY <3>1, DescTyped DEF Description, Links
    <3>3. QED BY <3>1, <3>2 DEF TypeOK, Books, LinkBalanced
  <2>2. CASE Wire(k)
    <3>1. Input(Out, k + 1) = Out[k]
      <4>1. Wire((k + 1) - 1) /\ ~Buffer((k + 1) - 1)
        BY <2>1, <2>2 DEF Wire, Buffer
      <4>2. QED BY <2>1, <4>1 DEF Input
    <3>2. o[k] /\ occupancy[k] = 0
      BY <2>1, <2>2 DEF Avail, Wire
    <3>3. QED BY <1>4, <2>1, <3>1, <3>2
  <2>3. CASE Buffer(k)
    <3>1. Input(Out, k + 1) = slots[k][rslot[k]]
      <4>1. Buffer((k + 1) - 1) /\ ~Wire((k + 1) - 1)
        BY <2>1, <2>3 DEF Wire, Buffer
      <4>2. QED BY <2>1, <4>1 DEF Input
    <3>2. occupancy[k] # 0
      BY <2>1, <2>3 DEF Avail, Wire, Buffer
    <3>3. 0 \in 0 .. occupancy[k] - 1
      BY <2>1, <3>2
    <3>4. Slot(k, 0) = rslot[k]
      <4>1. rslot[k] \in Nat /\ rslot[k] < desc.depth[k]
        BY <2>1, <2>3 DEF RingInv, TypeOK
      <4>2. QED BY <4>1 DEF Slot
    <3>5. slots[k][Slot(k, 0)] = Fold(k, fired[k + 1] + 0 + 1)
      BY <2>1, <2>3, <3>3 DEF DataBooks, SlotsHold
    <3>6. QED BY <2>1, <3>1, <3>4, <3>5
  <2>4. QED BY <2>1, <2>2, <2>3 DEF Wire, Buffer
<1>5. 1 \in S
  BY <1>1, <1>2, <1>3
<1>6. ASSUME NEW k \in 1 .. Sink - 1, k \in S PROVE k + 1 \in S
  <2>1. k + 1 \in Units
    BY <1>1
  <2>2. In(k + 1)
    BY <1>4, <1>6
  <2>3. At(k + 1)
    BY <1>2, <2>1, <2>2
  <2>4. QED BY <2>1, <2>2, <2>3
<1>7. 1 .. Sink \subseteq S
  <2> HIDE DEF S
  <2> QED BY <1>1, <1>5, <1>6, Upward
<1>8. QED BY <1>1, <1>7

LEMMA FoldsMeet ==
  ASSUME NEW s \in Nat, NEW t \in Nat, NEW n \in Nat
  PROVE  /\ (n * t + 0) * s = n * (s * t)
         /\ (n * t + (t - 1) + 1) * s = (n + 1) * (s * t)
         /\ n * (s * t) \in Nat
<1>1. n * t + (t - 1) + 1 = (n + 1) * t
  OBVIOUS
<1>2. ((n + 1) * t) * s = (n + 1) * (s * t)
  OBVIOUS
<1>3. QED BY <1>1, <1>2

(* A register goes on holding its fold: what a unit reads is the beat that *)
(* comes next, and what it holds is not overwritten before it is given.    *)
LEMMA AccKept ==
  ASSUME TypeOK, RingInv, busy, Books, TFixed, DataBooks, Catalogued(desc),
         NEW ready \in BOOLEAN, NEW o \in Offers, NEW f \in Fires(o, ready),
         Cycle(o, f, ready), Datapath(o, f, ready), NEW k \in Units, desc.latency[k] # 0
  PROVE  AccHolds(k)'
<1> DEFINE S == Span[k - 1]
           T == ts[k]
           G == given[k]
           F == fired[k]
           L == desc.span[k]
           b == Input(Out, k)
           gives == f[k] /\ Gives(o, k)
           read == Read(o, f, ready, k)
<1>1. /\ S \in Nat /\ T \in Nat /\ T > 0 /\ G \in Nat /\ F \in Nat /\ L \in Nat
      /\ Span[k] = S * T /\ d[k] \in Nat /\ d[k] < T /\ lane[k] \in Nat /\ lane[k] < L
      /\ F = G * T + d[k]
  BY UnitNumbers
<1>2. /\ Span' = Span /\ desc' = desc /\ Units' = Units
  BY DEF Cycle, config, Span, Sink, Units
<1>3. /\ d'[k] = IF gives THEN 0 ELSE IF f[k] THEN (d[k] + 1) % Mod ELSE d[k]
      /\ lane'[k] = IF f[k] THEN 0 ELSE IF read THEN lane[k] + 1 ELSE lane[k]
      /\ given'[k] = G + (IF gives THEN 1 ELSE 0)
      /\ fired'[k] = F + (IF f[k] THEN 1 ELSE 0)
  BY DEF Cycle, Counters, History
<1>4. acc'[k] = CASE L = 1 /\ f[k] -> BeatFold(k)
                  [] L > 1 /\ read -> LaneFold(k)
                  [] OTHER -> acc[k]
  BY UnitNumbers DEF Datapath
<1>5. /\ f[k] <=> WouldFire(o, k) /\ ~Frozen(o, f, ready, k)
      /\ WouldFire(o, k) <=> Wants(k) /\ Avail(o, k) /\ lane[k] = L - 1
      /\ read <=> Wants(k) /\ Avail(o, k) /\ ~Frozen(o, f, ready, k)
      /\ Gives(o, k) <=> WouldFire(o, k) /\ d[k] = T - 1
  <2>1. f[k] <=> WouldFire(o, k) /\ ~Frozen(o, f, ready, k)
    BY DEF Fires, Backward, Signals
  <2>2. QED BY <2>1 DEF WouldFire, Read, Gives
<1>6. read => b = <<F * S + 1, (F + 1) * S>>
  <2>1. read => Input(Out, k) = Fold(k - 1, fired[k] + 1)
    BY <1>5, Signal
  <2>2. (F + 1) - 1 = F
    BY <1>1
  <2>3. QED BY <2>1, <2>2 DEF Fold
<1>7. AccHolds(k)
  BY DEF DataBooks
<1>8. d[k] + 1 < T => (d[k] + 1) % Mod = d[k] + 1
  <2>1. T \in 0 .. Mod - 1 /\ Mod \in Nat
    BY DescTyped DEF TypeOK
  <2>2. \A x, t \in Nat : t < Mod /\ x < t => x % Mod = x
    BY <2>1
  <2>3. T < Mod /\ d[k] + 1 \in Nat
    BY <1>1, <2>1
  <2> HIDE DEF T
  <2>4. QED BY <1>1, <2>2, <2>3
<1>9. v'[k] # {} => gives \/ (~read /\ v[k] # {})
  <2>1. desc.latency[k] = 1 /\ v[k] \subseteq 1 .. desc.latency[k]
    BY DEF Catalogued, Units, TypeOK
  <2>2. v'[k] = IF desc.latency[k] = 0 \/ Frozen(o, f, ready, k) THEN v[k]
                ELSE {i + 1 : i \in v[k] \ {desc.latency[k]}} \cup {i \in {1} : gives}
    BY DEF Cycle, Pipelines
  <2>3. v[k] \ {desc.latency[k]} = {}
    BY <2>1
  <2>4. Frozen(o, f, ready, k) => ~read
    BY <1>5
  <2> HIDE DEF gives, read
  <2>5. QED BY <2>1, <2>2, <2>3, <2>4
<1>10. d[k] = 0 => F * S = G * (S * T)
  BY <1>1, FoldsMeet
<1>11. d[k] = T - 1 => (F + 1) * S = (G + 1) * (S * T)
  <2>1. (G * T + (T - 1) + 1) * S = (G + 1) * (S * T)
    BY <1>1, FoldsMeet
  <2>2. d[k] = T - 1 => F + 1 = G * T + (T - 1) + 1
    BY <1>1
  <2>3. QED BY <2>1, <2>2
<1>12. G * (S * T) \in Nat /\ F * S \in Nat /\ (F + 1) * S \in Nat
  BY <1>1, FoldsMeet
<1>13. Held(k) = IF acc[k][3] = L THEN <<acc[k][1], acc[k][2]>> ELSE Corrupt
  BY DEF Held
<1> DEFINE lo == G * (S * T) + 1
<1>14. /\ v[k] # {} => lane[k] = 0 /\ d[k] = 0 /\ G > 0
       /\ lane[k] > 0 => acc[k] = <<lo, (F + 1) * S, lane[k]>>
       /\ lane[k] = 0 /\ d[k] > 0 => acc[k] = <<lo, F * S, L>>
       /\ lane[k] = 0 /\ d[k] = 0 /\ G > 0 =>
            acc[k] = <<(G - 1) * (S * T) + 1, G * (S * T), L>>
  BY <1>1, <1>7 DEF AccHolds
<1> DEFINE lo1 == given'[k] * (S * T) + 1
<1>15. SUFFICES /\ v'[k] # {} => lane'[k] = 0 /\ d'[k] = 0 /\ given'[k] > 0
                /\ lane'[k] > 0 => acc'[k] = <<lo1, (fired'[k] + 1) * S, lane'[k]>>
                /\ lane'[k] = 0 /\ d'[k] > 0 => acc'[k] = <<lo1, fired'[k] * S, L>>
                /\ lane'[k] = 0 /\ d'[k] = 0 /\ given'[k] > 0 =>
                     acc'[k] = <<(given'[k] - 1) * (S * T) + 1, given'[k] * (S * T), L>>
  BY <1>1, <1>2 DEF AccHolds

(* A read of the beat's last lane, or of its only one, makes the beat part *)
(* of the fold; any other lane the beat's lanes so far.                    *)
<1>16. read => acc'[k] = <<lo, (F + 1) * S, lane[k] + 1>>
  <2> SUFFICES ASSUME read PROVE acc'[k] = <<lo, (F + 1) * S, lane[k] + 1>>
    OBVIOUS
  <2>1. b[1] = F * S + 1 /\ b[2] = (F + 1) * S
    BY <1>6
  <2>2. CASE L = 1
    <3>1. f[k] /\ lane[k] = 0
      BY <1>1, <1>5, <2>2
    <3>2. acc'[k] = BeatFold(k)
      BY <1>4, <2>2, <3>1
    <3>3. CASE d[k] = 0
      <4>1. BeatFold(k) = <<b[1], b[2], 1>>
        BY <3>3 DEF BeatFold
      <4>2. QED BY <1>10, <2>1, <3>1, <3>2, <3>3, <4>1
    <3>4. CASE d[k] # 0
      <4>1. acc[k] = <<lo, F * S, L>>
        BY <1>1, <1>14, <3>1, <3>4
      <4>2. Held(k) # Corrupt /\ acc[k][2] + 1 = b[1]
        BY <1>12, <1>13, <2>1, <4>1 DEF Corrupt
      <4>3. BeatFold(k) = <<acc[k][1], b[2], 1>>
        BY <3>4, <4>2 DEF BeatFold
      <4>4. QED BY <2>1, <3>1, <3>2, <4>1, <4>3
    <3>5. QED BY <3>3, <3>4
  <2>3. CASE L # 1
    <3>1. acc'[k] = LaneFold(k)
      <4>1. L > 1
        <5>1. L \in Nat /\ lane[k] \in Nat /\ lane[k] < L
          BY UnitNumbers
        <5>2. QED BY <2>3, <5>1
      <4> HIDE DEF L, read
      <4>2. QED BY <1>4, <2>3, <4>1 DEF read
    <3>2. CASE d[k] = 0 /\ lane[k] = 0
      <4>1. LaneFold(k) = <<b[1], b[2], 1>>
        BY <3>2 DEF LaneFold
      <4>2. QED BY <1>10, <2>1, <3>1, <3>2, <4>1
    <3>3. CASE d[k] # 0 /\ lane[k] = 0
      <4>1. acc[k] = <<lo, F * S, L>>
        BY <1>1, <1>14, <3>3
      <4>2. Held(k) # Corrupt /\ acc[k][2] + 1 = b[1]
        BY <1>12, <1>13, <2>1, <4>1 DEF Corrupt
      <4>3. LaneFold(k) = <<acc[k][1], b[2], lane[k] + 1>>
        BY <3>3, <4>2 DEF LaneFold
      <4>4. QED BY <2>1, <3>1, <4>1, <4>3
    <3>4. CASE lane[k] # 0
      <4>1. acc[k] = <<lo, (F + 1) * S, lane[k]>>
        BY <1>1, <1>14, <3>4
      <4>2. acc[k][3] = lane[k] /\ acc[k][2] = b[2]
        BY <2>1, <4>1
      <4>3. LaneFold(k) = <<acc[k][1], b[2], lane[k] + 1>>
        BY <3>4, <4>2 DEF LaneFold
      <4>4. QED BY <2>1, <3>1, <4>1, <4>3
    <3>5. QED BY <3>2, <3>3, <3>4
  <2>4. QED BY <2>2, <2>3
<1>17. ~read => acc'[k] = acc[k] /\ ~f[k]
  BY <1>4, <1>5
<1> HIDE DEF b, gives, read
<1>18. CASE ~read
  <2>1. ~gives /\ acc'[k] = acc[k] /\ ~f[k]
    BY <1>17, <1>18 DEF gives
  <2>2. d'[k] = d[k] /\ lane'[k] = lane[k] /\ given'[k] = G /\ fired'[k] = F
    BY <1>1, <1>3, <1>18, <2>1
  <2> HIDE DEF S, T, G, F, L
  <2>3. QED BY <1>9, <1>14, <2>1, <2>2
<1>19. CASE read /\ ~f[k]
  <2>1. ~gives /\ lane[k] + 1 > 0
    BY <1>1, <1>19 DEF gives
  <2>2. lane'[k] = lane[k] + 1 /\ given'[k] = G /\ fired'[k] = F
    BY <1>1, <1>3, <1>19, <2>1
  <2> HIDE DEF S, T, G, F, L
  <2>3. QED BY <1>9, <1>16, <1>19, <2>1, <2>2
<1>20. CASE f[k] /\ ~gives
  <2>1. read /\ lane[k] + 1 = L /\ d[k] + 1 < T
    BY <1>1, <1>5, <1>20 DEF gives
  <2>2. /\ d'[k] = d[k] + 1 /\ lane'[k] = 0 /\ given'[k] = G /\ fired'[k] = F + 1
    BY <1>1, <1>3, <1>8, <1>20, <2>1
  <2>3. d'[k] > 0
    BY <1>1, <2>2
  <2> HIDE DEF S, T, G, F, L
  <2>4. QED BY <1>9, <1>16, <1>20, <2>1, <2>2, <2>3
<1>21. CASE gives
  <2>1. f[k] /\ read /\ lane[k] + 1 = L /\ d[k] = T - 1
    BY <1>1, <1>5, <1>21 DEF gives
  <2>2. d'[k] = 0 /\ lane'[k] = 0 /\ given'[k] = G + 1 /\ fired'[k] = F + 1
    BY <1>1, <1>3, <1>21, <2>1
  <2>3. (G + 1) - 1 = G /\ G + 1 > 0
    BY <1>1
  <2> HIDE DEF S, T, G, F, L
  <2>4. QED BY <1>11, <1>16, <2>1, <2>2, <2>3
<1>22. QED
  <2>1. f[k] => read
    BY <1>5 DEF read
  <2>2. QED BY <1>18, <1>19, <1>20, <1>21, <2>1

(* A buffer's slots: a result goes in behind the last, and the first comes *)
(* out, on a full buffer both in one cycle.                                *)
LEMMA SlotsKept ==
  ASSUME TypeOK, RingInv, busy, Books, TFixed, SlotsTyped, DataBooks, Catalogued(desc),
         NEW ready \in BOOLEAN, NEW o \in Offers, NEW f \in Fires(o, ready),
         Cycle(o, f, ready), Datapath(o, f, ready), NEW k \in Links, Buffer(k)
  PROVE  SlotsHold(k)'
<1> DEFINE D == desc.depth[k]
           q == occupancy[k]
           r == rslot[k]
           w == wslot[k]
           F == fired[k + 1]
           load == Give(o, f, ready, k)
           take == f[k + 1]
           at(i) == IF r + i < D THEN r + i ELSE r + i - D
           at1(i) == IF rslot'[k] + i < D THEN rslot'[k] + i ELSE rslot'[k] + i - D
<1>1. /\ D \in Nat /\ q \in Nat /\ q <= D /\ r \in Nat /\ w \in Nat /\ r < D /\ w < D
      /\ w = at(q) /\ F \in Nat /\ pushed[k] = F + q /\ D > 0
      /\ k \in Units /\ k + 1 \in Units
  <2>1. k \in Units /\ k + 1 \in Units
    BY UnitsAre
  <2>2. D \in Nat /\ D > 0
    BY DescTyped DEF Description, Links, Buffer
  <2>3. w < D /\ r < D /\ w = IF r + q < D THEN r + q ELSE r + q - D
    <3>1. /\ w < D /\ r < D
          /\ LET end == r + q IN w = IF end < D THEN end ELSE end - D
      BY Zenon DEF RingInv
    <3>2. w \in Nat /\ r \in Nat /\ q \in Nat /\ D \in Nat
      BY <2>2 DEF TypeOK
    <3> HIDE DEF w, r, q, D
    <3>3. QED BY <3>1, <3>2
  <2>4. QED BY <2>1, <2>2, <2>3 DEF TypeOK, Books, LinkBalanced
<1>2. /\ Span' = Span /\ desc' = desc /\ Links' = Links
  BY DEF Cycle, config, Span, Sink, Links
<1>3. /\ occupancy'[k] = q + (IF load THEN 1 ELSE 0) - (IF take THEN 1 ELSE 0)
      /\ rslot'[k] = IF take THEN (IF r = D - 1 THEN 0 ELSE r + 1) ELSE r
      /\ fired'[k + 1] = F + (IF take THEN 1 ELSE 0)
  BY <1>1 DEF Cycle, Buffers, Around, History
<1>4. /\ take => q # 0
      /\ load => q < D \/ take
  BY BufferMoves DEF Offers, Fires
<1>5. load => Out[k] = Fold(k, F + q + 1)
  BY <1>1, Signal DEF Give
<1>6. \A i \in 0 .. q - 1 : slots[k][at(i)] = Fold(k, F + i + 1)
  <2>1. SlotsHold(k)
    BY DEF DataBooks
  <2>2. \A i \in Nat : Slot(k, i) = at(i)
    BY <1>1 DEF Slot
  <2> HIDE DEF at
  <2>3. QED BY <2>1, <2>2 DEF SlotsHold
<1>7. \A i \in 0 .. D - 1 : slots'[k][i] = IF load /\ i = w THEN Out[k] ELSE slots[k][i]
  <2>1. slots'[k] = IF load THEN [slots[k] EXCEPT ![w] = Out[k]] ELSE slots[k]
    BY DEF Datapath
  <2>2. DOMAIN slots[k] = 0 .. D - 1
    BY DEF SlotsTyped
  <2>3. QED BY <2>1, <2>2
<1>8. SUFFICES ASSUME NEW i \in 0 .. occupancy'[k] - 1
               PROVE  slots'[k][at1(i)] = Fold(k, fired'[k + 1] + i + 1)
  <2>1. \A i \in Nat : Slot(k, i)' = at1(i)
    BY <1>1, <1>2, <1>3 DEF Slot
  <2>2. \A i : Fold(k, i)' = Fold(k, i)
    BY <1>2 DEF Fold
  <2>3. SlotsHold(k)' <=> \A i \in 0 .. occupancy'[k] - 1 :
                            slots'[k][Slot(k, i)'] = Fold(k, fired'[k + 1] + i + 1)
    BY <2>2 DEF SlotsHold
  <2> HIDE DEF at1
  <2>4. QED BY <2>1, <2>3
<1> DEFINE j == i + (IF take THEN 1 ELSE 0)
<1>9. /\ i \in Nat /\ j \in Nat /\ j <= q /\ (j = q => load)
      /\ fired'[k + 1] + i + 1 = F + j + 1
  <2> DEFINE x == IF take THEN 1 ELSE 0
             y == IF load THEN 1 ELSE 0
  <2>1. x \in 0 .. 1 /\ y \in 0 .. 1 /\ (y = 1 => load)
    OBVIOUS
  <2>2. occupancy'[k] = q + y - x /\ fired'[k + 1] = F + x /\ j = i + x
    BY <1>3
  <2>3. q \in Nat /\ F \in Nat
    BY <1>1
  <2> HIDE DEF x, y, q, F, j
  <2>4. i \in 0 .. (q + y - x) - 1
    BY <2>2
  <2>5. QED BY <2>1, <2>2, <2>3, <2>4
<1>10. at1(i) = at(j) /\ at(j) \in 0 .. D - 1
  BY <1>1, <1>3, <1>4, <1>9
<1>11. CASE j = q
  <2>1. at(j) = w
    BY <1>1, <1>11
  <2>2. QED BY <1>5, <1>7, <1>9, <1>10, <1>11, <2>1
<1>12. CASE j # q
  <2>1. j \in 0 .. q - 1
    BY <1>1, <1>9, <1>12
  <2>2. load => at(j) # w
    <3>1. load /\ q = D => j # 0
      <4>1. load /\ q = D => take
        BY <1>1, <1>4
      <4>2. QED BY <1>9, <4>1
    <3>2. QED BY <1>1, <2>1, <3>1
  <2>3. slots'[k][at(j)] = slots[k][at(j)]
    BY <1>7, <1>10, <2>2
  <2>4. QED BY <1>6, <1>9, <1>10, <2>1, <2>3
<1>13. QED BY <1>11, <1>12

----------------------------------------------------------------------------
(* The specification.                                                      *)

LEMMA DataNextIsNext == [DataNext]_<<vars, dataVars>> => [Next]_vars
BY DEF DataNext, Next, DataTick, DataBegin, Tick, Begin

LEMMA DataSpecIsSpec == DataSpec => Spec
<1>1. DataInit => Init
  BY DEF DataInit
<1>2. QED BY <1>1, DataNextIsNext, PTL DEF DataSpec, Spec

LEMMA DataInvInit == DataInit => DataInv
<1> SUFFICES ASSUME DataInit PROVE DataInv
  OBVIOUS
<1>1. Init /\ ~busy
  BY DEF DataInit, Init
<1>2. TFixed
  BY <1>1 DEF Init, TFixed
<1>3. SlotsTyped
  BY DEF DataInit, SlotsTyped
<1>4. QED BY <1>1, <1>2, <1>3 DEF DataInv

LEMMA DataTyped ==
  ASSUME SlotsTyped, NEW o, NEW f, NEW ready, Data(o, f, ready), UNCHANGED desc
  PROVE  SlotsTyped'
<1>1. Links' = Links
  BY DEF Links
<1> SUFFICES ASSUME NEW k \in Links PROVE DOMAIN slots'[k] = 0 .. desc.depth[k] - 1
  BY <1>1 DEF SlotsTyped
<1>2. DOMAIN slots[k] = 0 .. desc.depth[k] - 1
  BY DEF SlotsTyped
<1>3. CASE Catalogued(desc)
  <2>1. slots'[k] = IF Buffer(k) /\ Give(o, f, ready, k)
                      THEN [slots[k] EXCEPT ![wslot[k]] = Out[k]] ELSE slots[k]
    BY <1>3 DEF Data, Datapath
  <2>2. QED BY <1>2, <2>1
<1>4. CASE ~Catalogued(desc)
  BY <1>2, <1>4 DEF Data, dataVars
<1>5. QED BY <1>3, <1>4

LEMMA DataInvStep ==
  ASSUME TypeOK, TypeOK', RingInv, RunInv, RunInv', DataInv,
         [DataNext]_<<vars, dataVars>>
  PROVE  DataInv'
<1>1. ASSUME NEW ready \in BOOLEAN, NEW o \in Offers, NEW f \in Fires(o, ready),
             Cycle(o, f, ready), Data(o, f, ready)
      PROVE  DataInv'
  <2>1. /\ desc' = desc /\ ts' = ts /\ Units' = Units /\ Links' = Links /\ Open' = Open
        /\ busy' => busy
    BY <1>1 DEF Cycle, config, Units, Links, Open
  <2>2. TFixed' /\ SlotsTyped'
    BY <1>1, <2>1, DataTyped DEF DataInv, TFixed
  <2>3. ASSUME busy, Catalogued(desc) PROVE DataBooks'
    <3>1. Books /\ TFixed /\ SlotsTyped /\ DataBooks /\ Datapath(o, f, ready)
      BY <1>1, <2>3 DEF RunInv, DataInv, Data
    <3>2. \A k \in Units : desc.latency[k] # 0 => AccHolds(k)'
      BY <1>1, <2>3, <3>1, AccKept
    <3>3. \A k \in Links : Buffer(k) => SlotsHold(k)'
      BY <1>1, <2>3, <3>1, SlotsKept
    <3>4. \A k : Buffer(k)' = Buffer(k)
      BY <2>1 DEF Buffer
    <3>5. QED BY <2>1, <3>2, <3>3, <3>4 DEF DataBooks
  <2>4. Catalogued(desc)' = Catalogued(desc)
    BY <2>1
  <2>5. QED BY <2>1, <2>2, <2>3, <2>4 DEF DataInv
<1>2. ASSUME NEW ready \in BOOLEAN, NEW o \in Offers, NEW f \in Fires(o, ready),
             NEW j \in JobsSet, NEW t \in [Open -> TSet],
             Start(o, f, ready, j, t), Data(o, f, ready)
      PROVE  DataInv'
  <2>1. ~busy /\ desc' = desc /\ Units' = Units /\ Links' = Links /\ Open' = Open
    BY <1>2 DEF Start, Units, Links, Open
  <2>2. TFixed' /\ SlotsTyped'
    BY <1>2, <2>1, DataTyped DEF DataInv, TFixed, Start
  <2>3. Empty'
    BY <1>2, <2>1, IdleStays DEF RunInv, Start
  <2>4. /\ \A k \in Units : d'[k] = 0 /\ lane'[k] = 0 /\ given'[k] = 0
        /\ \A k \in Units : v'[k] = {}
        /\ \A k \in Links : occupancy'[k] = 0
    BY <1>2, <2>1, <2>3 DEF Start, Empty
  <2>5. \A k \in Units : AccHolds(k)'
    BY <2>4 DEF AccHolds
  <2>6. \A k \in Links : SlotsHold(k)'
    <3>1. 0 .. 0 - 1 = {}
      OBVIOUS
    <3>2. QED BY <2>4, <3>1 DEF SlotsHold
  <2>7. QED BY <2>1, <2>2, <2>5, <2>6 DEF DataInv, DataBooks
<1>3. CASE UNCHANGED <<vars, dataVars>>
  <2>1. /\ desc' = desc /\ busy' = busy /\ ts' = ts /\ d' = d /\ v' = v /\ lane' = lane
        /\ occupancy' = occupancy /\ rslot' = rslot /\ fired' = fired /\ given' = given
        /\ acc' = acc /\ slots' = slots
    BY <1>3 DEF vars, dataVars, counters, units, links, history
  <2>2. /\ Units' = Units /\ Links' = Links /\ Open' = Open /\ Span' = Span
        /\ \A k : Buffer(k)' = Buffer(k)
    BY <2>1 DEF Units, Links, Open, Span, Sink, Buffer
  <2>3. \A k, i : Slot(k, i)' = Slot(k, i) /\ Fold(k, i)' = Fold(k, i)
    BY <2>1, <2>2 DEF Slot, Fold
  <2>4. \A k : AccHolds(k)' = AccHolds(k)
    BY <2>1, <2>2 DEF AccHolds
  <2>5. \A k : SlotsHold(k)' = SlotsHold(k)
    BY <2>1, <2>3 DEF SlotsHold
  <2>6. QED BY <2>1, <2>2, <2>4, <2>5 DEF DataInv, TFixed, SlotsTyped, DataBooks
<1>4. QED BY <1>1, <1>2, <1>3 DEF DataNext, DataTick, DataBegin

(* All the head's beats of a run, shared out over its jobs.                *)
LEMMA PerJobIs ==
  ASSUME TypeOK, Books
  PROVE  PerJob = Span[Sink]
<1> DEFINE S == {k \in Units : Results[k] * Span[k] = jobs * Span[Sink]}
<1>1. /\ Units = 1 .. Sink /\ Links = 1 .. Sink - 1 /\ Sink \in Nat /\ Sink \in Units
      /\ 1 \in Units /\ 1 \in Int /\ Sink \in Int
  BY UnitsAre
<1>2. jobs \in Nat /\ jobs > 0
  BY DescTyped DEF TypeOK, Books
<1>3. /\ Results \in [Units -> Nat \ {0}] /\ Results[Sink] = jobs
      /\ \A k \in Links : Results[k] = Results[k + 1] * ts[k + 1]
  BY ResultsAre DEF Books, UnitBooks
<1>4. Sink \in S
  BY <1>1, <1>3
<1>5. ASSUME NEW k \in 1 .. Sink - 1, k + 1 \in S PROVE k \in S
  <2>1. k \in Units /\ k + 1 \in Units /\ k \in Links /\ (k + 1) - 1 = k
    BY <1>1
  <2>2. /\ Span[k + 1] = Span[k] * ts[k + 1] /\ ts[k + 1] \in Nat /\ Span[k] \in Nat
        /\ Results[k] = Results[k + 1] * ts[k + 1] /\ Results[k + 1] \in Nat
    <3>1. Span[(k + 1) - 1] \in Nat /\ Span[k + 1] = Span[(k + 1) - 1] * ts[k + 1]
          /\ ts[k + 1] \in Nat
      BY <2>1, UnitNumbers
    <3>2. QED BY <1>3, <2>1, <3>1
  <2>3. \A x, s, t \in Nat : (x * t) * s = x * (s * t)
    OBVIOUS
  <2>4. Results[k] * Span[k] = Results[k + 1] * Span[k + 1]
    BY <2>2, <2>3
  <2>5. QED BY <1>5, <2>1, <2>4
<1>6. 1 \in S
  <2> HIDE DEF S
  <2>1. 1 .. Sink \subseteq S
    BY <1>1, <1>4, <1>5, Downward
  <2>2. QED BY <1>1, <2>1
<1>7. Span[1] = ts[1]
  <2>1. Span[1 - 1] = 1 /\ Span[1] = Span[1 - 1] * ts[1] /\ ts[1] \in Nat
    BY <1>1, SpanIs, UnitNumbers
  <2>2. QED BY <2>1
<1>8. Results[1] * ts[1] = jobs * Span[Sink]
  BY <1>6, <1>7
<1>9. Span[Sink] \in Nat
  BY <1>1, UnitNumbers
<1>10. \A n, s \in Nat : n > 0 => (n * s) \div n = s
  OBVIOUS
<1>11. QED BY <1>2, <1>8, <1>9, <1>10 DEF PerJob

LEMMA ResultStep ==
  ASSUME TypeOK, RingInv, RunInv, DataInv, [DataNext]_<<vars, dataVars>>, Catalogued(desc),
         pushed'[Sink] > pushed[Sink]
  PROVE  result' = <<(pushed'[Sink] - 1) * PerJob + 1, pushed'[Sink] * PerJob>>
<1>1. Sink \in Units /\ pushed[Sink] \in Nat
  BY UnitsAre DEF TypeOK
<1>2. ASSUME NEW ready \in BOOLEAN, NEW o \in Offers, NEW f \in Fires(o, ready),
             Cycle(o, f, ready), Data(o, f, ready)
      PROVE  result' = <<(pushed'[Sink] - 1) * PerJob + 1, pushed'[Sink] * PerJob>>
  <2>1. pushed'[Sink] = pushed[Sink] + (IF Give(o, f, ready, Sink) THEN 1 ELSE 0)
    BY <1>1, <1>2 DEF Cycle, History
  <2>2. Give(o, f, ready, Sink) /\ pushed'[Sink] = pushed[Sink] + 1
    BY <1>1, <2>1
  <2>3. busy
    <3> SUFFICES ASSUME ~busy PROVE FALSE
      OBVIOUS
    <3>1. v[Sink] = {}
      BY <1>1 DEF RunInv, Empty
    <3>2. o[Sink] = IF desc.latency[Sink] > 0 THEN PipeHead(Sink) ELSE Gives(o, Sink)
      BY <1>1 DEF Offers, Forward
    <3>3. QED BY <2>2, <3>1, <3>2 DEF PipeHead, Gives, WouldFire, Wants, Give
  <2>4. Books /\ TFixed /\ DataBooks
    BY <2>3 DEF RunInv, DataInv
  <2>5. result' = Out[Sink]
    BY <1>2, <2>2 DEF Data, Datapath
  <2>6. Out[Sink] = Fold(Sink, pushed[Sink] + 1)
    BY <1>1, <2>2, <2>4, Signal DEF Give
  <2>7. PerJob = Span[Sink]
    BY <2>4, PerJobIs
  <2>8. QED BY <2>2, <2>5, <2>6, <2>7 DEF Fold
<1>3. ASSUME NEW ready \in BOOLEAN, NEW j \in JobsSet, NEW t \in [Open -> TSet],
             DataBegin(ready, j, t)
      PROVE  FALSE
  <2>1. pushed'[Sink] = 0
    BY <1>1, <1>3 DEF DataBegin, Start
  <2>2. QED BY <1>1, <2>1
<1>4. CASE UNCHANGED <<vars, dataVars>>
  <2>1. pushed' = pushed
    BY <1>4 DEF vars, history
  <2>2. QED BY <1>1, <2>1
<1>5. QED BY <1>2, <1>3, <1>4 DEF DataNext, DataTick

(* Every result a run pushes is the fold of exactly the beats of its own   *)
(* job, for every chain of the catalogue's datapaths, every T, every       *)
(* buffer depth and every stall: no beat is missing, taken twice or        *)
(* another job's.                                                          *)
THEOREM ResultsAreTheirJobs == DataSpec => ResultsAreJobs
<1>1. DataSpec => [](TypeOK /\ RingInv /\ RunInv /\ DataInv)
  <2>1. DataInit => TypeOK /\ RingInv /\ RunInv /\ DataInv
    BY InitTyped, RunInvInit, DataInvInit DEF DataInit
  <2>2. (TypeOK /\ RingInv /\ RunInv /\ DataInv) /\ [DataNext]_<<vars, dataVars>>
          => (TypeOK /\ RingInv /\ RunInv /\ DataInv)'
    BY DataNextIsNext, StepTyped, RunInvStep, DataInvStep
  <2>3. QED BY <2>1, <2>2, PTL DEF DataSpec
<1>2. (TypeOK /\ RingInv /\ RunInv /\ DataInv) /\ [DataNext]_<<vars, dataVars>>
        => [LET r == pushed'[Sink]
            IN Catalogued(desc) /\ r > pushed[Sink]
                 => result' = <<(r - 1) * PerJob + 1, r * PerJob>>]_<<vars, dataVars>>
  BY ResultStep
<1>3. QED BY <1>1, <1>2, PTL DEF DataSpec, ResultsAreJobs

(* What holds of the rule holds of it with its datapaths: the data decide  *)
(* no control.                                                             *)
THEOREM DataDecideNothing ==
  DataSpec => /\ [](TypeOK /\ RingInv /\ WiresDetermined /\ LeftIsCount /\ Conserved
                      /\ NeverStuck)
              /\ DoneIsFinished /\ GroupRunSpec
BY DataSpecIsSpec, Typed, Rings, RunDetermined, CountersDecide, RunConserves,
   RunNeverStuck, RunEndsWhenFinished, RunImplemented, PTL
=============================================================================
