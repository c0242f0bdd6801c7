------------------------------ MODULE GvsocBuild ------------------------------
(***************************************************************************)
(* The SNAX-GVSoC install that every flow shares (snax_forge/flow/run.py,  *)
(* gvsoc/Makefile): out/snax-gvsoc/ holds its files, checkout.txt and a    *)
(* lock.  A flow decides under the lock whether to build, builds, lets go  *)
(* and runs the install later; a build called by hand may be of a sibling  *)
(* checkout.  Any of them fails or is killed between two steps, and the    *)
(* make of a killed flow may live on without the lock.                     *)
(***************************************************************************)
EXTENDS Integers, Sequences, FiniteSets

CONSTANTS
  Flows, Hands,  \* the flows, and the builds called by hand
  NoOwner,
  Commits,       \* snax-gvsoc's commits
  Parts,         \* bound: the files of an install, built in order
  Edits,         \* bound: the edits of the tree
  Kills,         \* bound: the processes killed
  Habits         \* what the developer does with the tree, see Develop

Submodule == "submodule"
Sibling == "sibling"
Users == Flows \cup Hands

ASSUME GvsocBuildAssumption ==
  /\ Flows \cap Hands = {} /\ NoOwner \notin Users
  /\ Commits \subseteq Nat \ {0} /\ Commits # {}
  /\ Parts \in Nat \ {0} /\ Edits \in Nat /\ Kills \in Nat
  /\ Habits \subseteq {"edits", "moves", "drops"}

VARIABLES
  habit, tree,  \* the submodule: its HEAD, and its uncommitted edit (0: clean)
  install,      \* what each file was built from
  buildDir,     \* whether build/ is there
  checkoutTxt,  \* checkout.txt's words: a path, then commits
  lock,         \* the holder of .build.lock
  pc, path, made,  \* per user: its step, its checkout, the files its make has built
  orphan,       \* the users whose make outlived them
  seen,         \* per flow: the Checkout it decided on, run.json's when done
  ran,          \* per flow: what its run ran
  passed,       \* history: the last build of the install that began has passed
  edits, kills  \* bounded counters

state == <<install, buildDir, checkoutTxt, lock, pc, path, made, orphan, seen, ran, passed>>
vars == <<habit, tree, state, edits, kills>>

Nothing == <<>>
Source(p) == IF p = Submodule THEN <<p, tree.head, tree.edit>> ELSE <<p, CHOOSE c \in Commits : TRUE, 0>>
HeadOf(p) == Source(p)[2]

-----------------------------------------------------------------------------
(* The decision (under the lock).                                          *)

NotSeen == [commit |-> 0, dirty |-> FALSE]
Checkout == [commit |-> tree.head, dirty |-> tree.edit # 0]

HasInstall == install[Parts] # Nothing   \* bin/gvrun is installed last
MustBuildByLast(c) ==   \* a mutant: an interrupted build is not seen
  \/ ~HasInstall
  \/ checkoutTxt = <<>> \/ checkoutTxt[1] # Submodule
  \/ Len(checkoutTxt) = 2 /\ checkoutTxt[2] # c.commit
  \/ c.dirty
MustBuild(c) ==   \* build_reason
  \/ ~HasInstall
  \/ checkoutTxt = <<>> \/ checkoutTxt[1] # Submodule
  \/ Len(checkoutTxt) < 2 \/ checkoutTxt[2] # c.commit
  \/ c.dirty

At(u, from, to) == pc[u] = from /\ pc' = [pc EXCEPT ![u] = to]

Lock(u) == lock = NoOwner /\ lock' = u
Release(u) == lock' = IF lock = u THEN NoOwner ELSE lock

(* A flow waits for the lock, reads the checkout and decides.              *)
Decide(f) ==
  /\ Lock(f) /\ pc[f] = "wait"
  /\ seen' = [seen EXCEPT ![f] = Checkout]
  /\ pc' = [pc EXCEPT ![f] = IF MustBuild(Checkout) THEN "clear" ELSE "built"]
  /\ UNCHANGED <<install, buildDir, checkoutTxt, path, made, orphan, ran, passed>>

(* make build by hand, of a checkout of its own: always builds.            *)
Call(h) ==
  /\ Lock(h) /\ At(h, "wait", "clear")
  /\ UNCHANGED <<install, buildDir, checkoutTxt, path, made, orphan, seen, ran, passed>>

-----------------------------------------------------------------------------
(* make build, of the user or of its orphan.                               *)

Clear(u) ==
  /\ At(u, "clear", "mark")
  /\ IF buildDir /\ (checkoutTxt = <<>> \/ checkoutTxt[1] # path[u])
     THEN buildDir' = FALSE /\ install' = [i \in 1 .. Parts |-> Nothing]
     ELSE UNCHANGED <<buildDir, install>>
  /\ UNCHANGED <<checkoutTxt, lock, path, made, orphan, seen, ran, passed>>

Marked(p) == <<p>>
Mark(u) ==
  /\ At(u, "mark", "make")
  /\ checkoutTxt' = Marked(path[u])
  /\ passed' = FALSE
  /\ UNCHANGED <<install, buildDir, lock, path, made, orphan, seen, ran>>

Make(u) ==
  /\ pc[u] = "make" /\ made[u] < Parts
  /\ buildDir' = TRUE
  /\ install' = [install EXCEPT ![made[u] + 1] = Source(path[u])]
  /\ made' = [made EXCEPT ![u] = @ + 1]
  /\ UNCHANGED <<checkoutTxt, lock, pc, path, orphan, seen, ran, passed>>

(* The commit is appended: the first one of the file is the one read.      *)
Ended(u, to) ==
  /\ pc' = [pc EXCEPT ![u] = IF u \in orphan THEN "idle" ELSE to]
  /\ orphan' = orphan \ {u} /\ made' = [made EXCEPT ![u] = 0]
AppendedLost(c) == checkoutTxt   \* a mutant
Appended(c) == IF Len(checkoutTxt) < 2 THEN Append(checkoutTxt, c) ELSE checkoutTxt
Pass(u) ==
  /\ pc[u] = "make" /\ made[u] = Parts
  /\ checkoutTxt' = Appended(HeadOf(path[u]))
  /\ passed' = TRUE
  /\ Ended(u, "built")
  /\ UNCHANGED <<install, buildDir, lock, path, seen, ran>>

(* make build fails: a FlowError, and the lock let go.                     *)
Fail(u) ==
  /\ pc[u] = "make" /\ made[u] < Parts
  /\ Ended(u, "idle")
  /\ Release(u)
  /\ UNCHANGED <<install, buildDir, checkoutTxt, path, seen, ran, passed>>

LetGo(u) ==
  /\ At(u, "built", IF u \in Flows THEN "sw" ELSE "idle")
  /\ Release(u)
  /\ UNCHANGED <<install, buildDir, checkoutTxt, path, made, orphan, seen, ran, passed>>

-----------------------------------------------------------------------------
(* The flow's run of the install (after sw), and run.json.                 *)

Run(f) ==
  /\ At(f, "sw", IF HasInstall THEN "check" ELSE "idle")   \* no gvrun: make run fails
  /\ ran' = [ran EXCEPT ![f] = {install[i] : i \in 1 .. Parts}]
  /\ UNCHANGED <<install, buildDir, checkoutTxt, lock, path, made, orphan, seen, passed>>

Record(f) ==   \* run.json: the Checkout decided on
  /\ At(f, "check", "done")
  /\ UNCHANGED <<install, buildDir, checkoutTxt, lock, path, made, orphan, seen, ran, passed>>

Begin(u) ==
  /\ pc[u] \in {"idle", "done"} /\ pc' = [pc EXCEPT ![u] = "wait"]
  /\ \E p \in IF u \in Flows THEN {Submodule} ELSE {Submodule, Sibling} : path' = [path EXCEPT ![u] = p]
  /\ IF u \in Flows
     THEN ran' = [ran EXCEPT ![u] = {}] /\ seen' = [seen EXCEPT ![u] = NotSeen]
     ELSE UNCHANGED <<seen, ran>>
  /\ UNCHANGED <<install, buildDir, checkoutTxt, lock, made, orphan, passed>>

(* Killed: the kernel drops its lock; the make of a flow killed in its     *)
(* build may go on, without the lock (flock(1) leaves it to its make).     *)
Kill(u) ==
  /\ pc[u] \notin {"idle", "done"} /\ u \notin orphan
  /\ kills < Kills /\ kills' = kills + 1
  /\ Release(u)
  /\ \/ pc' = [pc EXCEPT ![u] = "idle"] /\ made' = [made EXCEPT ![u] = 0] /\ UNCHANGED orphan
     \/ u \in Flows /\ pc[u] \in {"clear", "mark", "make"} /\ orphan' = orphan \cup {u} /\ UNCHANGED <<pc, made>>
  /\ UNCHANGED <<install, buildDir, checkoutTxt, path, seen, ran, passed, habit, tree, edits>>

-----------------------------------------------------------------------------
(* The developer moves HEAD over clean trees, or edits and commits, or     *)
(* edits and drops the edit, while nothing builds or runs.                 *)
Settled == \A u \in Users : pc[u] \in {"idle", "wait", "done"}

Move == habit \in {"moves"} /\ \E c \in Commits : tree' = [head |-> c, edit |-> 0]
Edit == habit \in {"edits", "drops"} /\ edits < Edits /\ tree' = [tree EXCEPT !.edit = edits + 1]
Commit == habit = "edits" /\ \E c \in Commits : c > tree.head /\ tree' = [head |-> c, edit |-> 0]
Drop == habit = "drops" /\ tree' = [tree EXCEPT !.edit = 0]
Develop ==
  /\ Settled
  /\ (Edit /\ edits' = edits + 1) \/ ((Move \/ Commit \/ Drop) /\ UNCHANGED edits)
  /\ UNCHANGED <<habit, state, kills>>

Init ==
  /\ habit \in Habits
  /\ tree = [head |-> CHOOSE c \in Commits : \A d \in Commits : c <= d, edit |-> 0]
  /\ install = [i \in 1 .. Parts |-> Nothing] /\ buildDir = FALSE /\ checkoutTxt = <<>>
  /\ lock = NoOwner
  /\ pc = [u \in Users |-> "idle"] /\ path = [u \in Users |-> Submodule]
  /\ made = [u \in Users |-> 0] /\ orphan = {}
  /\ seen = [f \in Flows |-> NotSeen] /\ ran = [f \in Flows |-> {}]
  /\ passed = FALSE /\ edits = 0 /\ kills = 0

Still == UNCHANGED <<habit, tree, edits, kills>>
Build(u) == Clear(u) \/ Mark(u) \/ Make(u) \/ Pass(u) \/ LetGo(u)
Step(u) ==
  \/ Build(u) \/ Fail(u) \/ Begin(u)
  \/ u \in Flows /\ (Decide(u) \/ Run(u) \/ Record(u))
  \/ u \in Hands /\ Settled /\ Call(u)

Next ==
  \/ Develop
  \/ \E u \in Users : (Step(u) /\ Still) \/ Kill(u)
Spec == Init /\ [][Next]_vars

-----------------------------------------------------------------------------
(* run.json is about what ran: every file the run used was built from its  *)
(* commit, and from no edit of it unless it says the tree was dirty.       *)
RecordedRan ==
  \A f \in Flows : pc[f] = "done" =>
    \E e \in 0 .. Edits : ran[f] = {<<Submodule, seen[f].commit, e>>} /\ (seen[f].dirty <=> e # 0)

(* It is, through kills, failed builds and siblings' builds, unless the    *)
(* developer drops an edit that was built.                                 *)
RecordedUnlessDropped == habit # "drops" => RecordedRan

(* A clean tree is built once: while the install is wholly made from it,   *)
(* by a build that passed, no flow builds (a second one waits, then finds  *)
(* it built).                                                              *)
Whole == \A i \in 1 .. Parts : install[i] = Source(Submodule)
BuiltOnce ==
  [][\A f \in Flows :
       pc[f] = "wait" /\ pc'[f] = "clear" /\ tree.edit = 0 => ~(Whole /\ passed)]_vars
=============================================================================
