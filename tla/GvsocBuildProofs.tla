--------------------------- MODULE GvsocBuildProofs ---------------------------
(***************************************************************************)
(* The install every flow shares, for any number of flows, builds called   *)
(* by hand, commits, edits and kills: run.json is about what ran, and a    *)
(* clean tree is not built twice.                                          *)
(***************************************************************************)
EXTENDS GvsocBuild, WellFoundedInduction, FiniteSetTheorems, SequenceTheorems, TLAPS

(* Induction over a set of numbers rather than over a predicate: a number  *)
(* out of the set would be the first such.                                 *)
LEMMA SetInduction ==
  ASSUME NEW S, 0 \in S, \A n \in Nat : n \in S => n + 1 \in S
  PROVE  Nat \subseteq S
<1> SUFFICES ASSUME Nat \ S # {} PROVE FALSE
  OBVIOUS
<1>1. PICK x \in Nat \ S : \A y \in Nat \ S : ~(<<y, x>> \in OpToRel(<, Nat))
  BY NatLessThanWellFounded, WFMin
<1>2. x # 0 /\ x - 1 \in Nat /\ (x - 1) + 1 = x
  OBVIOUS
<1>3. <<x - 1, x>> \in OpToRel(<, Nat)
  BY <1>2 DEF OpToRel
<1>4. QED BY <1>1, <1>2, <1>3

----------------------------------------------------------------------------
(* The inductive invariant.                                                *)

Paths == {Submodule, Sibling}
Places == {"idle", "wait", "clear", "mark", "make", "built", "sw", "check", "done"}
Building == {"clear", "mark", "make", "built"}
Sources == {Nothing} \cup (Paths \X Commits \X (0 .. Edits))

BuildTyped ==
  /\ habit \in Habits /\ tree \in [head : Commits, edit : 0 .. Edits] /\ edits \in 0 .. Edits
  /\ install \in [1 .. Parts -> Sources]
  /\ checkoutTxt = <<>> \/ checkoutTxt \in {<<p>> : p \in Paths} \/ checkoutTxt \in Paths \X Commits
  /\ pc \in [Users -> Places] /\ path \in [Users -> Paths] /\ made \in [Users -> 0 .. Parts]
  /\ \A f \in Flows : path[f] = Submodule
  /\ orphan \subseteq Flows
  /\ DOMAIN seen = Flows /\ DOMAIN ran = Flows

(* A build by hand is alone: it holds the lock and began when nothing else *)
(* built or ran.                                                           *)
HandsAlone ==
  \A h \in Hands : pc[h] \in Building =>
    lock = h /\ \A u \in Users \ {h} : pc[u] \in {"idle", "wait", "done"}
HandsPlaces == \A h \in Hands : pc[h] \notin {"sw", "check"}

(* A make has built its files from its checkout, whatever other makes are  *)
(* under way: they are of the same one; and checkout.txt names it.         *)
Full(p) == \A i \in 1 .. Parts : install[i] = Source(p)
Named(p) == checkoutTxt # <<>> /\ checkoutTxt[1] = p
Agreed(p, n) ==
  /\ Named(p)
  /\ \A i \in 1 .. n : install[i] = Source(p)
  /\ Len(checkoutTxt) = 2 => Full(p) /\ checkoutTxt[2] = HeadOf(p)
MakesAgree == \A u \in Users : pc[u] = "make" => Agreed(path[u], made[u])

Unmade == \A u \in Users : pc[u] # "make" => made[u] = 0

(* A commit in checkout.txt is the one every file was built from.          *)
CommitTold ==
  /\ Len(checkoutTxt) = 2 /\ HasInstall =>
       \A i \in 1 .. Parts : /\ install[i] # Nothing
                             /\ install[i][1] = checkoutTxt[1] /\ install[i][2] = checkoutTxt[2]
  /\ passed => Len(checkoutTxt) = 2

(* Unless edits are dropped, a clean tree's commit was never built with an *)
(* edit.                                                                   *)
EditsTold ==
  /\ habit = "moves" => tree.edit = 0
  /\ habit # "drops" =>
       \A i \in 1 .. Parts : install[i] # Nothing /\ install[i][1] = Submodule =>
         /\ habit = "moves" => install[i][3] = 0
         /\ habit = "edits" => /\ install[i][2] <= tree.head
                               /\ install[i][2] = tree.head /\ tree.edit = 0 => install[i][3] = 0

(* What a flow decided on is the tree while it builds and runs, and from   *)
(* its build to its run the install is that tree's.                        *)
FlowsSee ==
  \A f \in Flows :
    /\ pc[f] \in {"clear", "mark", "make", "built", "sw", "check"} => seen[f] = Checkout
    /\ habit # "drops" /\ pc[f] \in {"built", "sw"} => Full(Submodule) /\ Named(Submodule)
    /\ habit # "drops" /\ pc[f] \in {"check", "done"} =>
         \E e \in 0 .. Edits : /\ ran[f] = {<<Submodule, seen[f].commit, e>>}
                               /\ seen[f].dirty <=> e # 0

BuildInv ==
  /\ BuildTyped /\ HandsAlone /\ HandsPlaces /\ MakesAgree /\ Unmade
  /\ CommitTold /\ EditsTold /\ FlowsSee

----------------------------------------------------------------------------
(* What a checkout is, and what checkout.txt's words are.                  *)

LEMMA Sourced ==
  ASSUME BuildTyped, NEW p \in Paths
  PROVE  /\ Source(p) \in Paths \X Commits \X (0 .. Edits) /\ Source(p)[1] = p
         /\ Source(p) # Nothing /\ HeadOf(p) \in Commits
<1>1. (CHOOSE c \in Commits : TRUE) \in Commits
  BY GvsocBuildAssumption
<1> DEFINE any == CHOOSE c \in Commits : TRUE
<1> HIDE DEF any
<1>2. Source(p) = IF p = Submodule THEN <<p, tree.head, tree.edit>> ELSE <<p, any, 0>>
  BY DEF Source, any
<1>3. tree.head \in Commits /\ tree.edit \in 0 .. Edits /\ any \in Commits /\ 0 \in 0 .. Edits
  BY <1>1, GvsocBuildAssumption DEF BuildTyped, any
<1>4. QED BY <1>2, <1>3 DEF HeadOf, Nothing

LEMMA TheTree ==
  BuildTyped => Source(Submodule) = <<Submodule, tree.head, tree.edit>>
BY DEF Source

LEMMA Worded ==
  ASSUME BuildTyped
  PROVE  /\ checkoutTxt # <<>> => checkoutTxt[1] \in Paths
         /\ Len(checkoutTxt) \in 0 .. 2 /\ (checkoutTxt = <<>> <=> Len(checkoutTxt) = 0)
         /\ Len(checkoutTxt) = 1 => checkoutTxt = <<checkoutTxt[1]>>
         /\ Len(checkoutTxt) = 2 => checkoutTxt = <<checkoutTxt[1], checkoutTxt[2]>>
                                   /\ checkoutTxt[2] \in Commits
<1>1. CASE checkoutTxt = <<>>
  BY <1>1
<1>2. CASE checkoutTxt \in {<<p>> : p \in Paths}
  <2>1. PICK p \in Paths : checkoutTxt = <<p>>
    BY <1>2
  <2>2. QED BY <2>1
<1>3. CASE checkoutTxt \in Paths \X Commits
  <2>1. PICK p \in Paths, c \in Commits : checkoutTxt = <<p, c>>
    BY <1>3
  <2>2. QED BY <2>1
<1>4. QED BY <1>1, <1>2, <1>3 DEF BuildTyped

LEMMA Installed ==
  ASSUME BuildTyped, NEW i \in 1 .. Parts, install[i] # Nothing
  PROVE  install[i] \in Paths \X Commits \X (0 .. Edits)
BY DEF BuildTyped, Sources

(* Two users that build or run at once are flows, of the submodule.        *)
LEMMA Alone ==
  ASSUME BuildInv, NEW u \in Users, NEW v \in Users, u # v,
         pc[u] \in Building, pc[v] \in Building \cup {"sw", "check"}
  PROVE  u \in Flows /\ v \in Flows /\ path[u] = Submodule /\ path[v] = Submodule
<1>1. u \notin Hands
  BY DEF BuildInv, HandsAlone, Building
<1>2. v \notin Hands
  BY DEF BuildInv, HandsAlone, HandsPlaces, Building
<1>3. QED BY <1>1, <1>2 DEF Users, BuildInv, BuildTyped

LEMMA Appending == ASSUME NEW p, NEW c PROVE Append(<<p>>, c) = <<p, c>>
<1> DEFINE S == {p, c}
           s == <<p>>
           t == <<p, c>>
<1>1. s \in Seq(S) /\ t \in Seq(S) /\ c \in S
  OBVIOUS
<1>2. Len(s) = 1 /\ s[1] = p /\ Len(t) = 2 /\ t[1] = p /\ t[2] = c
  OBVIOUS
<1> HIDE DEF S, s, t
<1>3. Append(s, c) \in Seq(S) /\ Len(Append(s, c)) = 2 /\ Append(s, c)[1] = p /\ Append(s, c)[2] = c
  BY <1>1, <1>2, AppendProperties, SMTT(20)
<1>4. Append(s, c) = t
  BY <1>1, <1>2, <1>3, SeqEqual
<1>5. QED BY <1>4 DEF s, t

LEMMA FirstCommit == \E c \in Commits : \A d \in Commits : c <= d
<1> SUFFICES ASSUME \A c \in Commits : \E d \in Commits : ~(c <= d) PROVE FALSE
  OBVIOUS
<1> DEFINE S == {n \in Nat : \A m \in 0 .. n : m \notin Commits}
<1>1. 0 \in S
  BY GvsocBuildAssumption
<1>2. ASSUME NEW n \in Nat, n \in S PROVE n + 1 \in S
  <2>1. n + 1 \notin Commits
    BY <1>2, GvsocBuildAssumption
  <2>2. QED BY <1>2, <2>1
<1> HIDE DEF S
<1>3. Nat \subseteq S
  BY <1>1, <1>2, SetInduction
<1>4. PICK c \in Commits : c \in Nat
  BY GvsocBuildAssumption
<1>5. c \in S /\ c \in 0 .. c
  BY <1>3, <1>4
<1>6. QED BY <1>5 DEF S

LEMMA InitKept == Init => BuildInv
<1> SUFFICES ASSUME Init PROVE BuildInv
  OBVIOUS
<1>1. tree \in [head : Commits, edit : 0 .. Edits]
  <2>1. (CHOOSE c \in Commits : \A d \in Commits : c <= d) \in Commits
    BY FirstCommit
  <2>2. QED BY <2>1, GvsocBuildAssumption DEF Init
<1>2. BuildTyped
  <2>1. install \in [1 .. Parts -> Sources]
    BY DEF Init, Sources
  <2>2. pc \in [Users -> Places] /\ path \in [Users -> Paths] /\ made \in [Users -> 0 .. Parts]
    BY GvsocBuildAssumption DEF Init, Places, Paths
  <2>3. QED BY <1>1, <2>1, <2>2, GvsocBuildAssumption DEF Init, BuildTyped, Users
<1>3. HandsAlone /\ HandsPlaces /\ MakesAgree /\ Unmade
  BY DEF Init, HandsAlone, HandsPlaces, MakesAgree, Unmade, Building, Users
<1>4. CommitTold /\ EditsTold
  BY GvsocBuildAssumption DEF Init, CommitTold, EditsTold, Nothing
<1>5. FlowsSee
  BY DEF Init, FlowsSee, Users
<1>6. QED BY <1>2, <1>3, <1>4, <1>5 DEF BuildInv

----------------------------------------------------------------------------
(* The developer: nothing builds or runs, so only the edits can matter.    *)

LEMMA DevelopKeeps == ASSUME BuildInv, Develop PROVE BuildInv'
<1> USE DEF BuildInv
<1>1. /\ Settled
      /\ habit' = habit /\ install' = install /\ checkoutTxt' = checkoutTxt /\ lock' = lock
      /\ pc' = pc /\ path' = path /\ made' = made /\ orphan' = orphan
      /\ seen' = seen /\ ran' = ran /\ passed' = passed
  BY DEF Develop, state
<1>2. /\ tree' \in [head : Commits, edit : 0 .. Edits] /\ edits' \in 0 .. Edits
      /\ EditsTold'
  <2>1. CASE Edit /\ edits' = edits + 1
    <3>1. tree' = [tree EXCEPT !.edit = edits + 1] /\ edits < Edits /\ habit \in {"edits", "drops"}
      BY <2>1 DEF Edit
    <3>2. edits + 1 \in 0 .. Edits /\ edits + 1 # 0
      BY <3>1, GvsocBuildAssumption DEF BuildTyped
    <3>3. tree' \in [head : Commits, edit : 0 .. Edits] /\ tree'.head = tree.head /\ tree'.edit # 0
      BY <3>1, <3>2 DEF BuildTyped
    <3>4. EditsTold'
      BY <3>1, <3>3, <1>1 DEF EditsTold
    <3>5. QED BY <3>2, <3>3, <3>4, <2>1
  <2>2. CASE Move /\ edits' = edits
    <3>1. habit = "moves" /\ tree' \in [head : Commits, edit : 0 .. Edits] /\ tree'.edit = 0
      BY <2>2, GvsocBuildAssumption DEF Move
    <3>2. QED BY <3>1, <2>2, <1>1 DEF EditsTold, BuildTyped
  <2>3. CASE Commit /\ edits' = edits
    <3>1. PICK c \in Commits : c > tree.head /\ tree' = [head |-> c, edit |-> 0] /\ habit = "edits"
      BY <2>3 DEF Commit
    <3>2. tree' \in [head : Commits, edit : 0 .. Edits] /\ tree'.head = c /\ tree'.edit = 0
      BY <3>1, GvsocBuildAssumption
    <3>3. c \in Nat /\ tree.head \in Nat
      BY GvsocBuildAssumption DEF BuildTyped
    <3>4. EditsTold'
      <4>1. ASSUME NEW i \in 1 .. Parts, install[i] # Nothing, install[i][1] = Submodule
            PROVE  install[i][2] \in Nat /\ install[i][2] <= tree.head
        BY <4>1, <3>1, Installed, GvsocBuildAssumption DEF EditsTold
      <4>2. QED BY <4>1, <3>1, <3>2, <3>3, <1>1 DEF EditsTold
    <3>5. QED BY <3>2, <3>4, <2>3 DEF BuildTyped
  <2>4. CASE Drop /\ edits' = edits
    <3>1. habit = "drops" /\ tree' = [tree EXCEPT !.edit = 0] /\ 0 \in 0 .. Edits
      BY <2>4, GvsocBuildAssumption DEF Drop
    <3>2. tree' \in [head : Commits, edit : 0 .. Edits]
      BY <3>1 DEF BuildTyped
    <3>3. QED BY <3>1, <3>2, <2>4, <1>1 DEF EditsTold, BuildTyped
  <2>5. QED BY <2>1, <2>2, <2>3, <2>4 DEF Develop
<1>3. BuildTyped'
  BY <1>1, <1>2 DEF BuildTyped
<1>4. HandsAlone' /\ HandsPlaces' /\ Unmade' /\ CommitTold'
  BY <1>1 DEF HandsAlone, HandsPlaces, Unmade, CommitTold, HasInstall
<1>5. MakesAgree'
  BY <1>1 DEF MakesAgree, Settled
<1>6. FlowsSee'
  BY <1>1 DEF FlowsSee, Settled, Users
<1>7. QED BY <1>2, <1>3, <1>4, <1>5, <1>6

----------------------------------------------------------------------------
(* The steps of the users.                                                 *)

SameTree == UNCHANGED <<habit, tree, edits>>

LEMMA SourceKept ==
  ASSUME SameTree, NEW p
  PROVE  Source(p)' = Source(p) /\ HeadOf(p)' = HeadOf(p) /\ Checkout' = Checkout /\ habit' = habit
BY DEF SameTree, Source, HeadOf, Checkout

(* A step that leaves the install and checkout.txt alone.                  *)
LEMMA QuietInstall ==
  ASSUME BuildInv, SameTree, UNCHANGED <<install, checkoutTxt, passed>>
  PROVE  /\ CommitTold' /\ EditsTold'
         /\ \A p : (Full(p)' <=> Full(p)) /\ (Named(p)' <=> Named(p))
<1>1. CommitTold' /\ EditsTold'
  BY DEF BuildInv, CommitTold, EditsTold, HasInstall, SameTree
<1>2. \A p : (Full(p)' <=> Full(p)) /\ (Named(p)' <=> Named(p))
  BY SourceKept DEF Full, Named
<1>3. QED BY <1>1, <1>2

(* A step that moves one user only, and neither enters nor leaves a make.  *)
LEMMA QuietUser ==
  ASSUME BuildInv, SameTree, UNCHANGED <<install, checkoutTxt, passed, made>>, NEW u \in Users,
         NEW to \in Places, pc' = [pc EXCEPT ![u] = to], pc[u] # "make", to # "make",
         \A v \in Users \ {u} : path'[v] = path[v]
  PROVE  MakesAgree' /\ Unmade'
<1>1. \A v \in Users : pc'[v] = IF v = u THEN to ELSE pc[v]
  BY DEF BuildInv, BuildTyped
<1>2. Unmade'
  BY <1>1 DEF BuildInv, Unmade
<1>3. ASSUME NEW v \in Users, pc'[v] = "make" PROVE Agreed(path[v], made[v])'
  <2>1. v # u /\ pc[v] = "make" /\ path'[v] = path[v] /\ Agreed(path[v], made[v])
    BY <1>1, <1>3 DEF BuildInv, MakesAgree
  <2>2. QED BY <2>1 DEF Agreed, Full, Named, Source, HeadOf, SameTree
<1>4. MakesAgree'
  BY <1>3 DEF MakesAgree
<1>5. QED BY <1>2, <1>4

LEMMA HandsStay ==
  ASSUME BuildInv, NEW u \in Users, NEW to \in Places, pc' = [pc EXCEPT ![u] = to],
         \/ to \in {"idle", "wait", "done"}
         \/ /\ pc[u] \in Building \cup {"sw", "check"}
            /\ to \in Building => pc[u] \in Building
            /\ u \in Hands => to \in Building,
         lock' = lock \/ (lock = u /\ to \notin Building)
  PROVE  HandsAlone' /\ HandsPlaces'
<1>1. \A v \in Users : pc'[v] = IF v = u THEN to ELSE pc[v]
  BY DEF BuildInv, BuildTyped
<1>2. HandsPlaces'
  BY <1>1 DEF BuildInv, HandsPlaces, Building, Users
<1>3. ASSUME NEW h \in Hands, pc'[h] \in Building
      PROVE  lock' = h /\ \A v \in Users \ {h} : pc'[v] \in {"idle", "wait", "done"}
  <2>1. h \in Users /\ pc[h] \in Building
    BY <1>1, <1>3 DEF Users, Building
  <2>2. lock = h /\ \A v \in Users \ {h} : pc[v] \in {"idle", "wait", "done"}
    BY <2>1 DEF BuildInv, HandsAlone
  <2>3. CASE u = h
    BY <2>1, <2>2, <2>3, <1>1, <1>3
  <2>4. CASE u # h
    BY <2>1, <2>2, <2>4, <1>1 DEF Building
  <2>5. QED BY <2>3, <2>4
<1>4. QED BY <1>2, <1>3 DEF HandsAlone

LEMMA LetGoKeeps == ASSUME BuildInv, NEW u \in Users, LetGo(u), SameTree PROVE BuildInv'
<1> DEFINE to == IF u \in Flows THEN "sw" ELSE "idle"
<1>1. /\ pc[u] = "built" /\ pc' = [pc EXCEPT ![u] = to] /\ to \in Places
      /\ UNCHANGED <<install, checkoutTxt, passed, made, path, orphan, seen, ran>>
      /\ lock' = lock \/ lock = u
  BY DEF LetGo, At, Release, Places
<1>2. to \in {"sw", "idle"} /\ (u \in Hands => to = "idle")
  BY GvsocBuildAssumption
<1> HIDE DEF to
<1>3. \A v \in Users : pc'[v] = IF v = u THEN to ELSE pc[v]
  BY <1>1 DEF BuildInv, BuildTyped
<1>4. BuildTyped'
  BY <1>1 DEF BuildInv, BuildTyped, SameTree
<1>5. HandsAlone' /\ HandsPlaces'
  BY <1>1, <1>2, HandsStay DEF Building
<1>6. MakesAgree' /\ Unmade'
  BY <1>1, <1>2, QuietUser
<1>7. FlowsSee'
  BY <1>1, <1>2, <1>3, QuietInstall, SourceKept DEF BuildInv, FlowsSee, Users
<1>8. QED BY <1>1, <1>4, <1>5, <1>6, <1>7, QuietInstall DEF BuildInv

LEMMA RecordKeeps == ASSUME BuildInv, NEW f \in Flows, Record(f), SameTree PROVE BuildInv'
<1>1. /\ pc[f] = "check" /\ pc' = [pc EXCEPT ![f] = "done"] /\ "done" \in Places /\ f \in Users
      /\ UNCHANGED <<install, checkoutTxt, passed, made, path, orphan, seen, ran, lock>>
  BY DEF Record, At, Places, Users
<1>2. \A v \in Users : pc'[v] = IF v = f THEN "done" ELSE pc[v]
  BY <1>1 DEF BuildInv, BuildTyped
<1>3. BuildTyped'
  BY <1>1 DEF BuildInv, BuildTyped, SameTree
<1>4. HandsAlone' /\ HandsPlaces'
  BY <1>1, HandsStay DEF Building
<1>5. MakesAgree' /\ Unmade'
  BY <1>1, QuietUser
<1>6. FlowsSee'
  BY <1>1, <1>2, QuietInstall, SourceKept DEF BuildInv, FlowsSee, Users
<1>7. QED BY <1>1, <1>3, <1>4, <1>5, <1>6, QuietInstall DEF BuildInv

(* The run uses every file of the install: one built from what was seen.   *)
LEMMA RunKeeps == ASSUME BuildInv, NEW f \in Flows, Run(f), SameTree PROVE BuildInv'
<1> DEFINE to == IF HasInstall THEN "check" ELSE "idle"
<1>1. /\ pc[f] = "sw" /\ pc' = [pc EXCEPT ![f] = to] /\ to \in Places /\ f \in Users
      /\ UNCHANGED <<install, checkoutTxt, passed, made, path, orphan, seen, lock>>
      /\ to \in {"check", "idle"} /\ ran' = [ran EXCEPT ![f] = {install[i] : i \in 1 .. Parts}]
  BY DEF Run, At, Places, Users
<1> HIDE DEF to
<1>2. \A v \in Users : pc'[v] = IF v = f THEN to ELSE pc[v]
  BY <1>1 DEF BuildInv, BuildTyped
<1>3. BuildTyped'
  BY <1>1 DEF BuildInv, BuildTyped, SameTree
<1>4. HandsAlone' /\ HandsPlaces'
  BY <1>1, HandsStay, GvsocBuildAssumption DEF Building
<1>5. MakesAgree' /\ Unmade'
  BY <1>1, QuietUser
<1>6. FlowsSee'
  <2>1. \A g \in Flows : ran'[g] = IF g = f THEN {install[i] : i \in 1 .. Parts} ELSE ran[g]
    BY <1>1 DEF BuildInv, BuildTyped
  <2>2. ASSUME habit # "drops"
        PROVE  \E e \in 0 .. Edits : /\ ran'[f] = {<<Submodule, seen[f].commit, e>>}
                                     /\ seen[f].dirty <=> e # 0
    <3>1. Full(Submodule) /\ seen[f] = Checkout
      BY <1>1, <2>2 DEF BuildInv, FlowsSee
    <3>2. \A i \in 1 .. Parts : install[i] = <<Submodule, tree.head, tree.edit>>
      BY <3>1, TheTree DEF Full, BuildInv
    <3>3. {install[i] : i \in 1 .. Parts} = {<<Submodule, tree.head, tree.edit>>}
      <4>1. 1 \in 1 .. Parts
        BY GvsocBuildAssumption
      <4>2. QED BY <4>1, <3>2
    <3>4. tree.edit \in 0 .. Edits
      BY DEF BuildInv, BuildTyped
    <3>5. seen[f].commit = tree.head /\ seen[f].dirty = (tree.edit # 0)
      BY <3>1 DEF Checkout
    <3>6. QED BY <2>1, <3>3, <3>4, <3>5
  <2>3. QED BY <1>1, <1>2, <2>1, <2>2, QuietInstall, SourceKept DEF BuildInv, FlowsSee, Users
<1>7. QED BY <1>1, <1>3, <1>4, <1>5, <1>6, QuietInstall DEF BuildInv

LEMMA BeginKeeps == ASSUME BuildInv, NEW u \in Users, Begin(u), SameTree PROVE BuildInv'
<1>1. /\ pc[u] \in {"idle", "done"} /\ pc' = [pc EXCEPT ![u] = "wait"] /\ "wait" \in Places
      /\ UNCHANGED <<install, checkoutTxt, passed, made, orphan, lock>>
  BY DEF Begin, Places
<1>2. PICK p \in Paths : path' = [path EXCEPT ![u] = p] /\ (u \in Flows => p = Submodule)
  BY DEF Begin, Paths
<1>3. /\ \A v \in Users : pc'[v] = IF v = u THEN "wait" ELSE pc[v]
      /\ \A v \in Users \ {u} : path'[v] = path[v]
      /\ \A f \in Flows \ {u} : seen'[f] = seen[f] /\ ran'[f] = ran[f]
      /\ DOMAIN seen' = Flows /\ DOMAIN ran' = Flows
  BY <1>1, <1>2 DEF BuildInv, BuildTyped, Begin
<1>4. BuildTyped'
  <2>1. path' \in [Users -> Paths] /\ \A f \in Flows : path'[f] = Submodule
    BY <1>2 DEF BuildInv, BuildTyped, Users
  <2>2. QED BY <1>1, <1>3, <2>1 DEF BuildInv, BuildTyped, SameTree
<1>5. HandsAlone' /\ HandsPlaces'
  BY <1>1, HandsStay
<1>6. MakesAgree' /\ Unmade'
  BY <1>1, <1>3, QuietUser
<1>7. FlowsSee'
  BY <1>1, <1>3, QuietInstall, SourceKept DEF BuildInv, FlowsSee, Users
<1>8. QED BY <1>1, <1>4, <1>5, <1>6, <1>7, QuietInstall DEF BuildInv

(* A flow that does not build finds the install made of the tree it reads. *)
LEMMA NotBuilt ==
  ASSUME BuildInv, ~MustBuild(Checkout)
  PROVE  Named(Submodule) /\ (habit # "drops" => Full(Submodule))
<1>1. /\ HasInstall /\ checkoutTxt # <<>> /\ checkoutTxt[1] = Submodule
      /\ ~(Len(checkoutTxt) < 2) /\ checkoutTxt[2] = tree.head /\ tree.edit = 0
  BY DEF MustBuild, Checkout
<1>2. Len(checkoutTxt) = 2
  BY <1>1, Worded DEF BuildInv
<1>3. ASSUME habit # "drops", NEW i \in 1 .. Parts PROVE install[i] = Source(Submodule)
  <2>1. install[i] # Nothing /\ install[i][1] = Submodule /\ install[i][2] = tree.head
    BY <1>1, <1>2 DEF BuildInv, CommitTold
  <2>2. install[i][3] = 0
    BY <1>1, <1>3, <2>1, GvsocBuildAssumption DEF BuildInv, EditsTold, BuildTyped
  <2>3. install[i] \in Paths \X Commits \X (0 .. Edits)
    BY <2>1, Installed DEF BuildInv
  <2>4. QED BY <2>1, <2>2, <2>3, <1>1, TheTree DEF BuildInv
<1>4. QED BY <1>1, <1>3 DEF Named, Full

LEMMA DecideKeeps == ASSUME BuildInv, NEW f \in Flows, Decide(f), SameTree PROVE BuildInv'
<1> DEFINE to == IF MustBuild(Checkout) THEN "clear" ELSE "built"
<1>1. /\ pc[f] = "wait" /\ pc' = [pc EXCEPT ![f] = to] /\ to \in Places /\ f \in Users
      /\ UNCHANGED <<install, checkoutTxt, passed, made, path, orphan, ran>>
      /\ to \in {"clear", "built"} /\ seen' = [seen EXCEPT ![f] = Checkout]
      /\ lock = NoOwner /\ lock' = f
  BY DEF Decide, Lock, Places, Users
<1>2. to = "built" => Named(Submodule) /\ (habit # "drops" => Full(Submodule))
  BY NotBuilt
<1> HIDE DEF to
<1>3. /\ \A v \in Users : pc'[v] = IF v = f THEN to ELSE pc[v]
      /\ \A g \in Flows : seen'[g] = IF g = f THEN Checkout ELSE seen[g]
      /\ DOMAIN seen' = Flows
  BY <1>1 DEF BuildInv, BuildTyped
<1>4. BuildTyped'
  BY <1>1, <1>3 DEF BuildInv, BuildTyped, SameTree
<1>5. HandsAlone' /\ HandsPlaces'
  <2>1. \A h \in Hands : h \in Users /\ h # f /\ pc[h] \notin Building
    BY <1>1, GvsocBuildAssumption DEF BuildInv, HandsAlone, Users
  <2>2. QED BY <1>3, <2>1 DEF BuildInv, HandsAlone, HandsPlaces
<1>6. MakesAgree' /\ Unmade'
  BY <1>1, QuietUser
<1>7. FlowsSee'
  BY <1>1, <1>2, <1>3, QuietInstall, SourceKept DEF BuildInv, FlowsSee, Users
<1>8. QED BY <1>1, <1>4, <1>5, <1>6, <1>7, QuietInstall DEF BuildInv

LEMMA CallKeeps == ASSUME BuildInv, NEW h \in Hands, Settled, Call(h), SameTree PROVE BuildInv'
<1>1. /\ pc[h] = "wait" /\ pc' = [pc EXCEPT ![h] = "clear"] /\ "clear" \in Places /\ h \in Users
      /\ UNCHANGED <<install, checkoutTxt, passed, made, path, orphan, seen, ran>>
      /\ lock' = h /\ h \notin Flows
  BY GvsocBuildAssumption DEF Call, Lock, At, Places, Users
<1>2. \A v \in Users : pc'[v] = IF v = h THEN "clear" ELSE pc[v]
  BY <1>1 DEF BuildInv, BuildTyped
<1>3. BuildTyped'
  BY <1>1 DEF BuildInv, BuildTyped, SameTree
<1>4. HandsAlone' /\ HandsPlaces'
  BY <1>1, <1>2 DEF HandsAlone, HandsPlaces, Settled, Building, Users
<1>5. MakesAgree' /\ Unmade'
  BY <1>1, QuietUser
<1>6. FlowsSee'
  BY <1>1, <1>2, QuietInstall, SourceKept DEF BuildInv, FlowsSee, Users
<1>7. QED BY <1>1, <1>3, <1>4, <1>5, <1>6, QuietInstall DEF BuildInv

(* A user leaves its make, or is stopped.                                  *)
LEMMA Stopped ==
  ASSUME BuildInv, SameTree, UNCHANGED <<install, checkoutTxt, passed, path, seen, ran>>,
         NEW u \in Users, pc' = [pc EXCEPT ![u] = "idle"], made' = [made EXCEPT ![u] = 0],
         orphan' \subseteq orphan, lock' = lock \/ lock = u
  PROVE  BuildInv'
<1>1. /\ \A v \in Users : pc'[v] = IF v = u THEN "idle" ELSE pc[v]
      /\ \A v \in Users : made'[v] = IF v = u THEN 0 ELSE made[v]
  BY DEF BuildInv, BuildTyped
<1>2. BuildTyped'
  BY GvsocBuildAssumption DEF BuildInv, BuildTyped, SameTree, Places
<1>3. HandsAlone' /\ HandsPlaces'
  BY HandsStay DEF Places, Building
<1>4. Unmade'
  BY <1>1 DEF BuildInv, Unmade
<1>5. ASSUME NEW v \in Users, pc'[v] = "make" PROVE Agreed(path[v], made[v])'
  <2>1. pc[v] = "make" /\ made'[v] = made[v] /\ path'[v] = path[v] /\ Agreed(path[v], made[v])
    BY <1>1, <1>5 DEF BuildInv, MakesAgree
  <2>2. QED BY <2>1 DEF Agreed, Full, Named, Source, HeadOf, SameTree
<1>6. MakesAgree'
  BY <1>5 DEF MakesAgree
<1>7. FlowsSee'
  BY <1>1, QuietInstall, SourceKept DEF BuildInv, FlowsSee, Users
<1>8. QED BY <1>2, <1>3, <1>4, <1>6, <1>7, QuietInstall DEF BuildInv

LEMMA FailKeeps == ASSUME BuildInv, NEW u \in Users, Fail(u), SameTree PROVE BuildInv'
<1>1. /\ pc' = [pc EXCEPT ![u] = "idle"] /\ made' = [made EXCEPT ![u] = 0]
      /\ orphan' \subseteq orphan /\ (lock' = lock \/ lock = u)
      /\ UNCHANGED <<install, checkoutTxt, passed, path, seen, ran>>
  BY DEF Fail, Ended, Release
<1>2. QED BY <1>1, Stopped

LEMMA KillKeeps == ASSUME BuildInv, NEW u \in Users, Kill(u) PROVE BuildInv'
<1>1. /\ lock' = lock \/ lock = u
      /\ UNCHANGED <<install, checkoutTxt, passed, path, seen, ran, habit, tree, edits>>
  BY DEF Kill, Release
<1>2. CASE pc' = [pc EXCEPT ![u] = "idle"] /\ made' = [made EXCEPT ![u] = 0] /\ orphan' = orphan
  <2>1. QED BY <1>1, <1>2, Stopped DEF SameTree
<1>3. CASE u \in Flows /\ orphan' = orphan \cup {u} /\ UNCHANGED <<pc, made>>
  <2>1. BuildTyped'
    BY <1>1, <1>3 DEF BuildInv, BuildTyped
  <2>2. HandsAlone' /\ HandsPlaces'
    <3>1. u \notin Hands
      BY <1>3, GvsocBuildAssumption
    <3>2. QED BY <1>1, <1>3, <3>1 DEF BuildInv, HandsAlone, HandsPlaces
  <2>3. MakesAgree' /\ Unmade'
    BY <1>1, <1>3 DEF BuildInv, MakesAgree, Unmade, Agreed, Full, Named, Source, HeadOf
  <2>4. FlowsSee'
    BY <1>1, <1>3, QuietInstall, SourceKept DEF BuildInv, FlowsSee, SameTree
  <2>5. QED BY <1>1, <2>1, <2>2, <2>3, <2>4, QuietInstall DEF BuildInv, SameTree
<1>4. QED BY <1>2, <1>3 DEF Kill

----------------------------------------------------------------------------
(* The steps of make build.                                                *)

(* Whoever else makes, or is about to run, is of the same checkout.        *)
LEMMA SamePath ==
  ASSUME BuildInv, NEW u \in Users, pc[u] \in Building
  PROVE  /\ \A v \in Users : pc[v] = "make" => path[v] = path[u]
         /\ \A f \in Flows : pc[f] \in {"built", "sw"} => path[u] = Submodule
<1>1. ASSUME NEW v \in Users, pc[v] = "make" PROVE path[v] = path[u]
  BY <1>1, Alone DEF Building
<1>2. ASSUME NEW f \in Flows, pc[f] \in {"built", "sw"} PROVE path[u] = Submodule
  <2>1. f \in Users /\ pc[f] \in Building \cup {"sw", "check"}
    BY <1>2 DEF Users, Building
  <2>2. CASE u = f
    BY <2>2 DEF BuildInv, BuildTyped
  <2>3. QED BY <2>1, <2>2, Alone
<1>3. QED BY <1>1, <1>2

LEMMA ClearKeeps == ASSUME BuildInv, NEW u \in Users, Clear(u), SameTree PROVE BuildInv'
<1>1. /\ pc[u] = "clear" /\ pc' = [pc EXCEPT ![u] = "mark"] /\ "mark" \in Places
      /\ UNCHANGED <<checkoutTxt, lock, path, made, orphan, seen, ran, passed>>
      /\ pc[u] \in Building
  BY DEF Clear, At, Places, Building
<1>2. \A v \in Users : pc'[v] = IF v = u THEN "mark" ELSE pc[v]
  BY <1>1 DEF BuildInv, BuildTyped
<1>3. HandsAlone' /\ HandsPlaces'
  BY <1>1, HandsStay DEF Building
<1>4. CASE install' = install
  <2>1. BuildTyped'
    BY <1>1, <1>4 DEF BuildInv, BuildTyped, SameTree
  <2>2. MakesAgree' /\ Unmade'
    BY <1>1, <1>4, QuietUser
  <2>3. FlowsSee'
    BY <1>1, <1>2, <1>4, QuietInstall, SourceKept DEF BuildInv, FlowsSee, Users
  <2>4. QED BY <1>1, <1>3, <1>4, <2>1, <2>2, <2>3, QuietInstall DEF BuildInv
<1>5. CASE /\ install' = [i \in 1 .. Parts |-> Nothing]
           /\ checkoutTxt = <<>> \/ checkoutTxt[1] # path[u]
  <2>1. ~Named(path[u])
    BY <1>5 DEF Named
  <2>2. \A v \in Users : pc[v] # "make"
    BY <2>1, <1>1, SamePath DEF BuildInv, MakesAgree, Agreed
  <2>3. habit # "drops" => \A f \in Flows : pc[f] \notin {"built", "sw"}
    BY <2>1, <1>1, SamePath DEF BuildInv, FlowsSee
  <2>4. BuildTyped'
    <3>1. install' \in [1 .. Parts -> Sources]
      BY <1>5 DEF Sources
    <3>2. QED BY <1>1, <3>1 DEF BuildInv, BuildTyped, SameTree
  <2>5. MakesAgree' /\ Unmade'
    BY <1>1, <1>2, <2>2 DEF BuildInv, MakesAgree, Unmade
  <2>6. CommitTold' /\ EditsTold'
    <3>1. \A i \in 1 .. Parts : install'[i] = Nothing
      BY <1>5
    <3>2. install'[Parts] = Nothing /\ Parts \in 1 .. Parts
      BY <3>1, GvsocBuildAssumption
    <3>3. QED BY <3>1, <3>2, <1>1 DEF BuildInv, CommitTold, EditsTold, HasInstall, SameTree
  <2>7. FlowsSee'
    BY <1>1, <1>2, <2>3, SourceKept DEF BuildInv, FlowsSee, Users
  <2>8. QED BY <1>3, <2>4, <2>5, <2>6, <2>7 DEF BuildInv
<1>6. QED BY <1>4, <1>5 DEF Clear

LEMMA MarkKeeps == ASSUME BuildInv, NEW u \in Users, Mark(u), SameTree PROVE BuildInv'
<1>1. /\ pc[u] = "mark" /\ pc' = [pc EXCEPT ![u] = "make"] /\ "make" \in Places
      /\ UNCHANGED <<install, lock, path, made, orphan, seen, ran>>
      /\ pc[u] \in Building /\ checkoutTxt' = <<path[u]>> /\ passed' = FALSE
  BY DEF Mark, Marked, At, Places, Building
<1>2. \A v \in Users : pc'[v] = IF v = u THEN "make" ELSE pc[v]
  BY <1>1 DEF BuildInv, BuildTyped
<1>3. /\ checkoutTxt' # <<>> /\ checkoutTxt'[1] = path[u] /\ Len(checkoutTxt') = 1
      /\ path[u] \in Paths
  BY <1>1 DEF BuildInv, BuildTyped
<1>4. BuildTyped'
  BY <1>1, <1>3 DEF BuildInv, BuildTyped, SameTree
<1>5. HandsAlone' /\ HandsPlaces'
  BY <1>1, HandsStay DEF Building
<1>6. ASSUME NEW v \in Users, pc'[v] = "make" PROVE Agreed(path[v], made[v])'
  <2>1. path'[v] = path[u] /\ made'[v] = made[v] /\ path'[v] = path[v]
    BY <1>1, <1>2, <1>6, SamePath
  <2>2. \A i \in 1 .. made[v] : install[i] = Source(path[v])
    <3>1. CASE v = u
      <4>1. made[v] = 0
        BY <3>1, <1>1 DEF BuildInv, Unmade
      <4>2. QED BY <4>1
    <3>2. CASE v # u
      BY <3>2, <1>2, <1>6 DEF BuildInv, MakesAgree, Agreed
    <3>3. QED BY <3>1, <3>2
  <2>3. QED BY <1>1, <1>3, <2>1, <2>2 DEF Agreed, Named, Source, SameTree
<1>7. MakesAgree' /\ Unmade'
  BY <1>1, <1>2, <1>6 DEF BuildInv, MakesAgree, Unmade
<1>8. CommitTold' /\ EditsTold'
  BY <1>1, <1>3 DEF BuildInv, CommitTold, EditsTold, SameTree
<1>9. FlowsSee'
  <2>1. \A f \in Flows : pc[f] \in {"built", "sw"} => Named(Submodule)'
    BY <1>1, <1>3, SamePath DEF Named
  <2>2. Full(Submodule)' <=> Full(Submodule)
    BY <1>1, SourceKept DEF Full
  <2>3. QED BY <1>1, <1>2, <2>1, <2>2, SourceKept DEF BuildInv, FlowsSee, Users
<1>10. QED BY <1>4, <1>5, <1>7, <1>8, <1>9 DEF BuildInv

LEMMA MakeKeeps == ASSUME BuildInv, NEW u \in Users, Make(u), SameTree PROVE BuildInv'
<1> DEFINE n == made[u] + 1
<1>1. /\ pc[u] = "make" /\ made[u] < Parts /\ install' = [install EXCEPT ![n] = Source(path[u])]
      /\ UNCHANGED <<checkoutTxt, lock, pc, path, orphan, seen, ran, passed>>
      /\ pc[u] \in Building /\ path[u] \in Paths
  BY DEF Make, Building, BuildInv, BuildTyped
<1>2. n \in 1 .. Parts /\ made' = [made EXCEPT ![u] = n]
  BY <1>1, GvsocBuildAssumption DEF Make, BuildInv, BuildTyped
<1> HIDE DEF n
<1>3. /\ \A v \in Users : made'[v] = IF v = u THEN n ELSE made[v]
      /\ \A i \in 1 .. Parts : install'[i] = IF i = n THEN Source(path[u]) ELSE install[i]
  BY <1>1, <1>2 DEF BuildInv, BuildTyped
<1>4. /\ Source(path[u]) \in Paths \X Commits \X (0 .. Edits) /\ Source(path[u])[1] = path[u]
      /\ Source(path[u]) # Nothing /\ HeadOf(path[u]) = Source(path[u])[2]
      /\ Source(path[u]) \in Sources
  BY <1>1, Sourced DEF HeadOf, BuildInv, Sources
<1>5. BuildTyped'
  <2>1. install' \in [1 .. Parts -> Sources] /\ made' \in [Users -> 0 .. Parts]
    BY <1>1, <1>2, <1>4 DEF BuildInv, BuildTyped
  <2>2. QED BY <1>1, <2>1 DEF BuildInv, BuildTyped, SameTree
<1>6. HandsAlone' /\ HandsPlaces' /\ Unmade'
  BY <1>1, <1>3 DEF BuildInv, HandsAlone, HandsPlaces, Unmade
<1>7. ASSUME NEW p, p = path[u] PROVE Full(p) => Full(p)'
  BY <1>1, <1>3, <1>7 DEF Full, Source, SameTree
<1>8. Agreed(path[u], made[u])
  BY <1>1 DEF BuildInv, MakesAgree
<1>9. ASSUME NEW v \in Users, pc'[v] = "make" PROVE Agreed(path[v], made[v])'
  <2>1. path'[v] = path[v] /\ path[v] = path[u] /\ Agreed(path[v], made[v])
    BY <1>1, <1>9, SamePath DEF BuildInv, MakesAgree
  <2>2. \A i \in 1 .. made'[v] : install'[i] = Source(path[u])
    <3>1. made'[v] \in 0 .. Parts
      BY <1>5 DEF BuildTyped
    <3>2. /\ Parts \in Nat /\ made[u] \in Nat /\ made[v] \in Nat /\ n = made[u] + 1
          /\ made'[v] = n \/ made'[v] = made[v]
          /\ v = u \/ made'[v] = made[v]
      BY <1>1, <1>3, GvsocBuildAssumption DEF n, BuildInv, BuildTyped
    <3>3. \A i \in 1 .. made'[v] : i \in 1 .. Parts /\ (i = n \/ i \in 1 .. made[v])
      BY <3>1, <3>2, <1>3
    <3>4. QED BY <3>3, <1>3, <2>1 DEF Agreed
  <2>3. QED BY <1>1, <1>3, <2>1, <2>2 DEF Agreed, Full, Named, Source, HeadOf, SameTree
<1>10. MakesAgree'
  BY <1>9 DEF MakesAgree
<1>11. CommitTold'
  <2>1. ASSUME Len(checkoutTxt) = 2, NEW i \in 1 .. Parts
        PROVE  /\ install'[i] # Nothing
               /\ install'[i][1] = checkoutTxt[1] /\ install'[i][2] = checkoutTxt[2]
    <3>1. install'[i] = Source(path[u])
      BY <2>1, <1>3, <1>8 DEF Agreed, Full
    <3>2. QED BY <3>1, <2>1, <1>4, <1>8 DEF Agreed, Named
  <2>2. QED BY <1>1, <2>1 DEF BuildInv, CommitTold
<1>12. EditsTold'
  <2>1. path[u] = Submodule => Source(path[u]) = <<Submodule, tree.head, tree.edit>>
    BY TheTree DEF BuildInv
  <2>2. tree.head \in Nat
    BY GvsocBuildAssumption DEF BuildInv, BuildTyped
  <2>3. ASSUME habit # "drops", NEW i \in 1 .. Parts, install'[i] # Nothing, install'[i][1] = Submodule
        PROVE  /\ habit = "moves" => install'[i][3] = 0
               /\ habit = "edits" => /\ install'[i][2] <= tree.head
                                     /\ install'[i][2] = tree.head /\ tree.edit = 0 => install'[i][3] = 0
    <3>1. CASE i = n
      <4>1. install'[i] = <<Submodule, tree.head, tree.edit>>
        BY <3>1, <1>3, <1>4, <2>1, <2>3
      <4>2. QED BY <4>1, <2>2, <2>3 DEF BuildInv, EditsTold
    <3>2. CASE i # n
      BY <3>2, <1>3, <2>3 DEF BuildInv, EditsTold
    <3>3. QED BY <3>1, <3>2
  <2>4. QED BY <2>3 DEF BuildInv, EditsTold, SameTree
<1>13. FlowsSee'
  <2>1. \A f \in Flows : pc[f] \in {"built", "sw"} =>
          (Full(Submodule) => Full(Submodule)') /\ (Named(Submodule) => Named(Submodule)')
    BY <1>1, <1>7, SamePath DEF Named
  <2>2. QED BY <1>1, <2>1, SourceKept DEF BuildInv, FlowsSee
<1>14. QED BY <1>5, <1>6, <1>10, <1>11, <1>12, <1>13 DEF BuildInv

LEMMA PassKeeps == ASSUME BuildInv, NEW u \in Users, Pass(u), SameTree PROVE BuildInv'
<1> DEFINE to == IF u \in orphan THEN "idle" ELSE "built"
<1>1. /\ pc[u] = "make" /\ pc[u] \in Building /\ made[u] = Parts
      /\ pc' = [pc EXCEPT ![u] = to] /\ to \in Places /\ to \in {"idle", "built"}
      /\ made' = [made EXCEPT ![u] = 0] /\ orphan' \subseteq orphan /\ passed' = TRUE
      /\ UNCHANGED <<install, lock, path, seen, ran>>
      /\ checkoutTxt' = Appended(HeadOf(path[u])) /\ path[u] \in Paths
  BY DEF Pass, Ended, Building, Places, BuildInv, BuildTyped
<1> HIDE DEF to
<1>2. /\ \A v \in Users : pc'[v] = IF v = u THEN to ELSE pc[v]
      /\ \A v \in Users : made'[v] = IF v = u THEN 0 ELSE made[v]
  BY <1>1 DEF BuildInv, BuildTyped
<1>3. Agreed(path[u], made[u]) /\ Full(path[u])
  BY <1>1 DEF BuildInv, MakesAgree, Agreed, Full
<1>4. checkoutTxt' = <<path[u], HeadOf(path[u])>> /\ HeadOf(path[u]) \in Commits
  <2>1. HeadOf(path[u]) \in Commits
    BY <1>1, Sourced DEF BuildInv
  <2>2. CASE Len(checkoutTxt) = 2
    <3>1. checkoutTxt = <<checkoutTxt[1], checkoutTxt[2]>>
      BY <2>2, Worded DEF BuildInv
    <3>2. QED BY <1>1, <1>3, <2>1, <2>2, <3>1 DEF Appended, Agreed, Named
  <2>3. CASE Len(checkoutTxt) # 2
    <3>1. checkoutTxt = <<path[u]>> /\ Len(checkoutTxt) < 2
      BY <2>3, <1>3, Worded DEF BuildInv, Agreed, Named
    <3>2. checkoutTxt' = Append(checkoutTxt, HeadOf(path[u]))
      BY <1>1, <3>1 DEF Appended
    <3>3. Append(checkoutTxt, HeadOf(path[u])) = <<path[u], HeadOf(path[u])>>
      BY <3>1, Appending
    <3>4. QED BY <2>1, <3>1, <3>2, <3>3
  <2>4. QED BY <2>2, <2>3
<1>5. /\ checkoutTxt' # <<>> /\ checkoutTxt'[1] = path[u] /\ checkoutTxt'[2] = HeadOf(path[u])
      /\ Len(checkoutTxt') = 2 /\ checkoutTxt' \in Paths \X Commits
  BY <1>1, <1>4
<1>6. BuildTyped'
  <2>1. pc' \in [Users -> Places] /\ made' \in [Users -> 0 .. Parts]
    BY <1>1, GvsocBuildAssumption DEF BuildInv, BuildTyped
  <2>2. QED BY <1>1, <1>5, <2>1 DEF BuildInv, BuildTyped, SameTree
<1>7. HandsAlone' /\ HandsPlaces'
  <2>1. to \in {"idle", "wait", "done"} \/ (pc[u] \in Building \cup {"sw", "check"} /\ to \in Building)
    BY <1>1 DEF Building
  <2>2. QED BY <1>1, <2>1, HandsStay
<1>8. ASSUME NEW v \in Users, pc'[v] = "make" PROVE Agreed(path[v], made[v])'
  <2>1. path'[v] = path[v] /\ path[v] = path[u] /\ made'[v] = made[v] /\ Agreed(path[v], made[v])
    BY <1>1, <1>2, <1>8, SamePath DEF BuildInv, MakesAgree
  <2>2. QED BY <1>1, <1>3, <1>5, <2>1 DEF Agreed, Full, Named, Source, HeadOf, SameTree
<1>9. MakesAgree' /\ Unmade'
  BY <1>1, <1>2, <1>8 DEF BuildInv, MakesAgree, Unmade
<1>10. CommitTold' /\ EditsTold'
  <2>1. \A i \in 1 .. Parts : /\ install[i] # Nothing /\ install[i][1] = path[u]
                              /\ install[i][2] = HeadOf(path[u])
    BY <1>1, <1>3, Sourced DEF Full, HeadOf, BuildInv
  <2>2. CommitTold'
    BY <1>1, <1>5, <2>1 DEF CommitTold
  <2>3. EditsTold'
    BY <1>1 DEF BuildInv, EditsTold, SameTree
  <2>4. QED BY <2>2, <2>3
<1>11. FlowsSee'
  <2>1. Full(Submodule)' <=> Full(Submodule)
    BY <1>1, SourceKept DEF Full
  <2>2. ASSUME NEW f \in Flows, pc'[f] \in {"built", "sw"}
        PROVE  Named(Submodule)' /\ (habit # "drops" => Full(Submodule))
    <3>1. CASE f = u
      BY <3>1, <1>1, <1>3, <1>5 DEF Named, BuildInv, BuildTyped
    <3>2. CASE f # u
      BY <3>2, <2>2, <1>1, <1>2, <1>5, SamePath DEF Named, BuildInv, FlowsSee, Users
    <3>3. QED BY <3>1, <3>2
  <2>3. QED BY <1>1, <1>2, <2>1, <2>2, SourceKept DEF BuildInv, FlowsSee, Users
<1>12. QED BY <1>6, <1>7, <1>9, <1>10, <1>11 DEF BuildInv

----------------------------------------------------------------------------
(* Every step, and what follows.                                           *)

LEMMA NextKept == BuildInv /\ [Next]_vars => BuildInv'
<1> SUFFICES ASSUME BuildInv, [Next]_vars PROVE BuildInv'
  OBVIOUS
<1>1. CASE Develop
  BY <1>1, DevelopKeeps
<1>2. ASSUME NEW u \in Users, Kill(u) PROVE BuildInv'
  BY <1>2, KillKeeps
<1>3. ASSUME NEW u \in Users, Step(u), Still PROVE BuildInv'
  <2> SameTree
    BY <1>3 DEF Still, SameTree
  <2>1. CASE Clear(u)
    BY <2>1, ClearKeeps
  <2>2. CASE Mark(u)
    BY <2>2, MarkKeeps
  <2>3. CASE Make(u)
    BY <2>3, MakeKeeps
  <2>4. CASE Pass(u)
    BY <2>4, PassKeeps
  <2>5. CASE LetGo(u)
    BY <2>5, LetGoKeeps
  <2>6. CASE Fail(u)
    BY <2>6, FailKeeps
  <2>7. CASE Begin(u)
    BY <2>7, BeginKeeps
  <2>8. CASE u \in Flows /\ Decide(u)
    BY <2>8, DecideKeeps
  <2>9. CASE u \in Flows /\ Run(u)
    BY <2>9, RunKeeps
  <2>10. CASE u \in Flows /\ Record(u)
    BY <2>10, RecordKeeps
  <2>11. CASE u \in Hands /\ Settled /\ Call(u)
    BY <2>11, CallKeeps
  <2>12. QED
    BY <1>3, <2>1, <2>2, <2>3, <2>4, <2>5, <2>6, <2>7, <2>8, <2>9, <2>10, <2>11 DEF Step, Build
<1>4. CASE UNCHANGED vars
  <2>1. UNCHANGED <<install, checkoutTxt, passed, path, seen, ran, habit, tree, edits, pc, made, orphan, lock>>
    BY <1>4 DEF vars, state
  <2>2. BuildTyped'
    BY <2>1 DEF BuildInv, BuildTyped
  <2>3. HandsAlone' /\ HandsPlaces' /\ Unmade'
    BY <2>1 DEF BuildInv, HandsAlone, HandsPlaces, Unmade
  <2>4. MakesAgree'
    BY <2>1 DEF BuildInv, MakesAgree, Agreed, Full, Named, Source, HeadOf
  <2>5. FlowsSee'
    BY <2>1, QuietInstall, SourceKept DEF BuildInv, FlowsSee, SameTree
  <2>6. QED BY <2>1, <2>2, <2>3, <2>4, <2>5, QuietInstall DEF BuildInv, SameTree
<1>5. QED BY <1>1, <1>2, <1>3, <1>4 DEF Next

(* Every file that a run used was built from the commit run.json gives,    *)
(* and from an edit of it exactly when run.json says the tree was dirty;   *)
(* through kills, orphaned makes, failed builds and siblings' builds, for  *)
(* any number of them, unless edits are dropped (_build_gvsoc and          *)
(* build_reason of flow/run.py, and the install rules of gvsoc/Makefile).  *)
THEOREM RecordedWhatRan == Spec => []RecordedUnlessDropped
<1>1. BuildInv => RecordedUnlessDropped
  BY DEF BuildInv, FlowsSee, RecordedUnlessDropped, RecordedRan
<1>2. QED BY InitKept, NextKept, <1>1, PTL DEF Spec

(* No flow builds while the install is wholly made from the clean tree     *)
(* that it reads, by a build that passed (build_reason and the lock of     *)
(* _build_gvsoc, flow/run.py).                                             *)
THEOREM BuildsOnce == Spec => BuiltOnce
<1> DEFINE Once == \A f \in Flows :
             pc[f] = "wait" /\ pc'[f] = "clear" /\ tree.edit = 0 => ~(Whole /\ passed)
<1>1. BuildInv /\ [Next]_vars => [Once]_vars
  <2> SUFFICES ASSUME BuildInv, Next, NEW f \in Flows, pc[f] = "wait", pc'[f] = "clear",
                      tree.edit = 0, Whole, passed
               PROVE  FALSE
    OBVIOUS
  <2>1. pc \in [Users -> Places] /\ f \in Users /\ f \notin Hands
    BY GvsocBuildAssumption DEF BuildInv, BuildTyped, Users
  <2>2. Decide(f)
    <3>1. ~Develop /\ \A u \in Users : ~Kill(u)
      BY <2>1 DEF Develop, state, Kill
    <3>2. PICK u \in Users : Step(u)
      BY <3>1 DEF Next
    <3>3. ASSUME NEW x \in Users, NEW to, pc' = [pc EXCEPT ![x] = to], f # x \/ to # "clear" PROVE FALSE
      BY <2>1, <3>3
    <3>4. ~Clear(u) /\ ~Mark(u) /\ ~LetGo(u) /\ ~Begin(u)
      BY <3>3 DEF Clear, Mark, LetGo, Begin, At
    <3>5. ~Make(u) /\ ~Pass(u) /\ ~Fail(u)
      BY <3>3, <2>1 DEF Make, Pass, Fail, Ended
    <3>6. ~Run(u) /\ ~Record(u) /\ (u \in Hands => ~Call(u))
      BY <3>3, <2>1 DEF Run, Record, Call, At
    <3>7. Decide(u)
      BY <3>2, <3>4, <3>5, <3>6 DEF Step, Build
    <3>8. u = f
      BY <2>1, <3>7 DEF Decide
    <3>9. QED BY <3>7, <3>8
  <2>3. MustBuild(Checkout)
    BY <2>1, <2>2 DEF Decide
  <2>4. Parts \in 1 .. Parts /\ install[Parts] = <<Submodule, tree.head, tree.edit>>
    BY TheTree, GvsocBuildAssumption DEF Whole, BuildInv
  <2>5. HasInstall /\ Len(checkoutTxt) = 2
    BY <2>4 DEF HasInstall, Nothing, BuildInv, CommitTold
  <2>6. checkoutTxt[1] = Submodule /\ checkoutTxt[2] = tree.head /\ checkoutTxt # <<>>
    BY <2>4, <2>5, Worded DEF BuildInv, CommitTold
  <2>7. Checkout.commit = tree.head /\ Checkout.dirty = FALSE
    BY DEF Checkout
  <2>8. QED BY <2>3, <2>5, <2>6, <2>7 DEF MustBuild
<1>2. QED BY InitKept, NextKept, <1>1, PTL DEF Spec, BuiltOnce
=============================================================================
