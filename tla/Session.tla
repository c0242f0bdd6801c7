------------------------------- MODULE Session -------------------------------
(***************************************************************************)
(* The editor's session (snax_forge/sandbox/session.py): a recipe, the     *)
(* graphs of its steps, a cursor for undo and redo, the answers cached per *)
(* step, and the two files it is resumed from.  The kernel has two maps,   *)
(* one writing the transient the other reads; its transforms are split     *)
(* (split_map), bind and link.  A request is one action, under the         *)
(* session's lock; the writes of its two files follow it one by one.       *)
(***************************************************************************)
EXTENDS Integers, FiniteSets, SequencesExt

CONSTANTS
  Starts,     \* the recipes a session starts from, each with its bounds
  Numbers,    \* the numbers a step is given
  Values,     \* what set_params is given: numbers, a text
  Text,       \* a text given for a param
  Submodule,  \* whether snax-gvsoc, which the estimate needs, is checked out
  Asked       \* bound: the steps whose sites, marks, estimate and checks are asked for

Maps == {"mul", "sum"}   \* "mul" writes what "sum" reads
Link == "tmp"            \* the transient between them
None == "none"
NoRecipe == [params |-> <<>>, steps |-> <<>>]

(* A name is <<base, instance, number>>: W, W_2, W_acc_1, W_acc_1_2, D, N; *)
(* an int param of a step is a name, or a number as <<"#", 0, v>>.         *)
N == <<"N", 0, 1>>
Literal(v) == <<"#", 0, v>>
IsNumber(e) == e[1] = "#"

ASSUME SessionAssumption ==
  /\ Numbers \subseteq Int /\ Text \notin Int /\ Values \subseteq Int \cup {Text}
  /\ Submodule \in BOOLEAN /\ Asked \subseteq Nat
  /\ \A s \in Starts : s.steps \in Nat /\ s.params \in Nat

VARIABLES
  recipe,   \* params: a function from names; steps
  graphs,   \* of step 0 and the steps replayed
  cursor, own,
  sites,    \* per step asked about: its graph, and the names its forms propose
  derived,  \* per step asked about: the graph its marks, estimate and checks are of
  disk,     \* recipe.json and session.json's cursor, NoRecipe and -1 when torn
  pending,  \* the files still to be written
  up,       \* whether the server runs
  answer, before,  \* history: the last request's answer, the graph shown before it
  start            \* what the session started from, and its bounds

vars == <<recipe, graphs, cursor, own, sites, derived, disk, pending, up, answer, before, start>>

Steps == Len(recipe.steps)
Replayed == Len(graphs) - 1

-----------------------------------------------------------------------------
(* The transforms.  A graph is the value of N, per map the factor it is    *)
(* split by and the instance it is bound as, and the link's depth.         *)

Step(kind, on, arg, inst) == [kind |-> kind, on |-> on, arg |-> arg, inst |-> inst]
Ints == {"split", "link"}   \* the transforms with an int param, `arg'

Import(r) ==
  [n |-> r.params[N], factor |-> [m \in Maps |-> 0], inst |-> [m \in Maps |-> 0], depth |-> -1]

Unbound(g) == \E m \in Maps : g.inst[m] = 0
CanSplit(g, m, factor) == g.factor[m] = 0 /\ factor >= 1
CanBind(g, m) == g.factor[m] # 0 /\ g.inst[m] = 0
CanLink(g, depth) ==   \* both ends bound, the same beats
  ~Unbound(g) /\ g.depth = -1 /\ depth >= 0 /\ g.factor["mul"] = g.factor["sum"]
Accepts(g, s, v) ==
  \/ s.kind = "split" /\ CanSplit(g, s.on, v)
  \/ s.kind = "bind" /\ CanBind(g, s.on)
  \/ s.kind = "link" /\ CanLink(g, v)

Transformed(g, s, v) ==
  CASE s.kind = "split" -> [g EXCEPT !.factor[s.on] = v]
    [] s.kind = "bind" -> [g EXCEPT !.inst[s.on] = s.inst]
    [] s.kind = "link" -> [g EXCEPT !.depth = v]

Value(r, e) ==
  CASE IsNumber(e) -> e[3]
    [] ~IsNumber(e) /\ e \in DOMAIN r.params -> r.params[e]
    [] OTHER -> Text

(* A step on a graph: a graph, a StepError ("step") or, from a param that  *)
(* is no int, a plain SandboxError ("value").                              *)
Error(kind) == [error |-> kind]
IsGraph(x) == "error" \notin DOMAIN x
Stepped(r, g, i) ==
  LET s == r.steps[i]
      v == IF s.kind \in Ints THEN Value(r, s.arg) ELSE 0
  IN CASE v = Text -> Error("value")
       [] v # Text /\ Accepts(g, s, v) -> Transformed(g, s, v)
       [] OTHER -> Error("step")

(* The graphs gs replayed on: up to step `upto', or to the step that fails.*)
Run(r, gs, upto) ==
  LET from == Len(gs)
      run[i \in from .. upto + 1] ==   \* run[i] is of step i - 1
        CASE i = from -> gs[from]
          [] i > from /\ IsGraph(run[i - 1]) -> Stepped(r, run[i - 1], i - 1)
          [] OTHER -> run[i - 1]
  IN run
Extended(r, gs, upto) ==
  LET from == Len(gs)
      run == Run(r, gs, upto)
      good == {i \in from + 1 .. upto + 1 : IsGraph(run[i])}
  IN [graphs |-> gs \o [i \in 1 .. Cardinality(good) |-> run[from + i]],
      error |-> IF upto + 1 <= from \/ IsGraph(run[upto + 1]) THEN None ELSE run[upto + 1].error]

Replay(r, upto) == Extended(r, <<Import(r)>>, upto)

(* What from_kernel and from_recipe open: a recipe whose steps all replay. *)
Recipe(r) ==
  /\ r = [params |-> r.params, steps |-> r.steps]
  /\ IsFiniteSet(DOMAIN r.params) /\ N \in DOMAIN r.params
  /\ r.steps \in Seq([kind : {"split", "bind", "link"}, on : Maps \cup {Link},
                      arg : STRING \X Int \X Int, inst : Nat])
  /\ Replay(r, Len(r.steps)).error = None

ASSUME StartsAssumption == \A s \in Starts : Recipe(s.recipe)

-----------------------------------------------------------------------------
(* Names.                                                                  *)

NextFree(base, inst, taken) ==
  LET free == {k \in 1 .. Cardinality(taken) + 1 : <<base, inst, k>> \notin taken}
  IN <<base, inst, CHOOSE k \in free : \A j \in free : k <= j>>
Fresh(kind, params) == NextFree(IF kind = "split" THEN "W" ELSE "D", 0, DOMAIN params)

EditorFactor(x) == x[1] = "W" /\ x[2] = 0
Binds(r, k) == Cardinality({i \in 1 .. k : r.steps[i].kind = "bind"})

(* What a bind renames: the factor the editor named of this unit's split,  *)
(* when no other step names it.                                            *)
Renamable(r, g, inst) ==
  {x \in DOMAIN r.params \ (own \cup {N}) :
     /\ EditorFactor(x)
     /\ \E i \in DOMAIN r.steps : r.steps[i].arg = x
     /\ \A i \in DOMAIN r.steps :
          r.steps[i].arg = x => r.steps[i].kind = "split" /\ g.inst[r.steps[i].on] = inst}

RenamedParams(r, from, to) ==
  [p \in (DOMAIN r.params \ {from}) \cup {to} |-> r.params[IF p = to THEN from ELSE p]]
Renamed(r, from, to) ==
  [params |-> RenamedParams(r, from, to),
   steps |-> [i \in DOMAIN r.steps |-> [r.steps[i] EXCEPT !.arg = IF @ = from THEN to ELSE @]]]

Bound(r, g, inst) ==
  LET xs == Renamable(r, g, inst)
  IN IF xs = {} THEN r
     ELSE Renamed(r, CHOOSE x \in xs : TRUE, NextFree("W", inst, DOMAIN r.params))

UsedHalf(r, k) == own \cup {N}   \* a mutant: without the steps' own
Used(r, k) == (own \cup {N} \cup {r.steps[i].arg : i \in 1 .. k}) \cap DOMAIN r.params

-----------------------------------------------------------------------------
(* The files and the caches.                                               *)

WritesSwapped == <<"session", "recipe">>   \* a mutant
Writes == <<"recipe", "session">>

ForgotLate(cache, after) == \* a mutant
  [k \in {j \in DOMAIN cache : j <= after + 1} |-> cache[k]]
Forgot(cache, after) == [k \in {j \in DOMAIN cache : j <= after} |-> cache[k]]
Kept(cache, k, x) ==
  [j \in DOMAIN cache \cup {k} |-> IF j \in DOMAIN cache THEN cache[j] ELSE x]

CanEstimate(g) == Submodule \/ \A m \in Maps : g.inst[m] = 0

Ready == up /\ pending = <<>>
Answered(ok) == answer' = [ok |-> ok, saved |-> NoRecipe]
Refuse == Answered(FALSE) /\ UNCHANGED <<recipe, graphs, cursor, own, sites, derived, disk, pending, up, before>>
Written(files) == pending' = files /\ before' = {graphs[cursor + 1]} /\ UNCHANGED <<disk, up, own>>

-----------------------------------------------------------------------------
(* The requests.                                                           *)

(* apply: `given' is the int param, a number or a name.                    *)
Trial(kind, on, given) ==
  LET name == IF IsNumber(given) THEN Fresh(kind, recipe.params) ELSE given
      params == IF kind \in Ints /\ IsNumber(given)
                THEN [p \in DOMAIN recipe.params \cup {name} |-> IF p = name THEN given[3] ELSE recipe.params[p]]
                ELSE recipe.params
      step == IF kind \in Ints THEN Step(kind, on, name, 0)
              ELSE Step(kind, on, Literal(0), Binds(recipe, cursor) + 1)
  IN [params |-> params, steps |-> Append(SubSeq(recipe.steps, 1, cursor), step)]

Changed(r, g) ==
  LET k == cursor
  IN /\ recipe' = r
     /\ graphs' = Append(SubSeq(graphs, 1, k + 1), g)
     /\ cursor' = k + 1
     /\ sites' = Forgot(sites, k)
     /\ LET old == IF CanEstimate(graphs[k + 1]) THEN Kept(Forgot(derived, k), k, graphs[k + 1])
                   ELSE Forgot(derived, k)
        IN derived' = IF CanEstimate(g) THEN Kept(old, k + 1, g) ELSE old
     /\ Answered(CanEstimate(g))   \* else the estimate raises after the change
     /\ Written(Writes)

Apply(kind, on, given, drop) ==
  LET unknown == kind \in Ints /\ ~IsNumber(given) /\ given \notin DOMAIN recipe.params
      trial == Trial(kind, on, given)
      g == Stepped(trial, graphs[cursor + 1], cursor + 1)
  IN /\ Ready
     /\ IF (cursor < Steps /\ ~drop) \/ unknown \/ ~IsGraph(g) THEN Refuse
        ELSE Changed(IF kind = "bind" THEN Bound(trial, g, Last(trial.steps).inst) ELSE trial, g)

Move(k) ==
  LET x == Extended(recipe, graphs, k)
  IN /\ Ready
     /\ graphs' = x.graphs
     /\ IF x.error # None
        THEN Answered(FALSE) /\ UNCHANGED <<cursor, own, disk, pending, up, before>>
        ELSE Answered(TRUE) /\ cursor' = k /\ Written(<<"session">>)
     /\ UNCHANGED <<recipe, sites, derived>>

RedoKept(gs) == gs \o SubSeq(graphs, Len(gs) + 1, Len(graphs)) \* a mutant
Redo(gs) == gs   \* the steps past the cursor are left to be replayed

SetParams(x, v) ==
  LET r == [recipe EXCEPT !.params = [@ EXCEPT ![x] = v]]
      run == Replay(r, cursor)
  IN /\ Ready
     /\ IF r.params[N] = Text THEN Refuse
        ELSE IF run.error # None THEN Refuse
        ELSE /\ recipe' = r /\ graphs' = Redo(run.graphs)
             /\ sites' = Forgot(sites, -1)
             /\ derived' = Kept(Forgot(derived, -1), cursor, run.graphs[cursor + 1])
             /\ Answered(TRUE) /\ Written(Writes)
             /\ UNCHANGED cursor

(* save: its own file, unless its name is taken or the design has problems.*)
Saved ==
  [params |-> [p \in Used(recipe, cursor) |-> recipe.params[p]],
   steps |-> SubSeq(recipe.steps, 1, cursor)]
Save(bad) ==
  /\ Ready
  /\ IF bad \/ Unbound(graphs[cursor + 1]) THEN Refuse
     ELSE /\ answer' = [ok |-> TRUE, saved |-> Saved]
          /\ UNCHANGED <<recipe, graphs, cursor, own, sites, derived, disk, pending, up, before>>

(* sites: the names the forms propose, computed once per step.             *)
Proposed == [W |-> Fresh("split", recipe.params), D |-> Fresh("link", recipe.params)]
Sites(k) ==
  /\ Ready /\ k <= Replayed
  /\ sites' = Kept(sites, k, [graph |-> graphs[k + 1], names |-> Proposed])
  /\ Answered(TRUE)
  /\ UNCHANGED <<recipe, graphs, cursor, own, derived, disk, pending, up, before>>

(* marks, estimate, checks.                                                *)
Ask(k) ==
  /\ Ready /\ k <= Replayed
  /\ CanEstimate(graphs[k + 1])
  /\ derived' = Kept(derived, k, graphs[k + 1])
  /\ Answered(TRUE)
  /\ UNCHANGED <<recipe, graphs, cursor, own, sites, disk, pending, up, before>>

-----------------------------------------------------------------------------
(* The files: each is written whole, or torn by a crash.                   *)

WriteFile ==
  /\ up /\ pending # <<>>
  /\ disk' = IF Head(pending) = "recipe" THEN [disk EXCEPT !.recipe = recipe]
             ELSE [disk EXCEPT !.cursor = cursor]
  /\ pending' = Tail(pending)
  /\ before' = IF pending' = <<>> THEN {} ELSE before
  /\ UNCHANGED <<recipe, graphs, cursor, own, sites, derived, up, answer>>

Torn(f) == IF f = "recipe" THEN [disk EXCEPT !.recipe = NoRecipe] ELSE [disk EXCEPT !.cursor = -1]
Crash ==
  /\ up
  /\ up' = FALSE
  /\ disk' \in {disk} \cup (IF pending = <<>> THEN {} ELSE {Torn(Head(pending))})
  /\ recipe' = disk'.recipe /\ cursor' = disk'.cursor
  /\ graphs' = <<>> /\ sites' = <<>> /\ derived' = <<>> /\ pending' = <<>> /\ before' = {}
  /\ answer' = [ok |-> FALSE, saved |-> NoRecipe]
  /\ UNCHANGED own

(* resume, and __init__: the steps to the cursor, which must replay, then  *)
(* the ones past it, where a StepError is caught and no other.             *)
Whole == disk.recipe # NoRecipe /\ disk.cursor # -1
Shown == Replay(disk.recipe, disk.cursor)
Opens == Whole /\ disk.cursor <= Len(disk.recipe.steps) /\ Shown.error = None
Rest == Extended(disk.recipe, Shown.graphs, Len(disk.recipe.steps))
Resume ==
  /\ ~up
  /\ Opens /\ Rest.error # "value"
  /\ up' = TRUE
  /\ recipe' = disk.recipe /\ cursor' = disk.cursor
  /\ graphs' = Rest.graphs
  /\ pending' = Writes /\ before' = {}
  /\ Answered(TRUE)
  /\ UNCHANGED <<own, sites, derived, disk>>
ResumeRefused == ~up /\ ~(Opens /\ Rest.error # "value") /\ UNCHANGED vars

-----------------------------------------------------------------------------
Init ==
  /\ start \in Starts /\ recipe = start.recipe
  /\ cursor = Steps
  /\ graphs = Replay(recipe, Steps).graphs
  /\ own = DOMAIN recipe.params
  /\ sites = <<>> /\ derived = <<>>
  /\ disk = [recipe |-> recipe, cursor |-> cursor]
  /\ pending = <<>> /\ up = TRUE
  /\ answer = [ok |-> TRUE, saved |-> NoRecipe] /\ before = {}

Stranger == <<"X", 0, 1>>   \* a name no param has
(* Bounds: no step past the start's `steps', no number when it would be a  *)
(* param past its `params'.                                                *)
Givens ==
  {x \in {Literal(v) : v \in Numbers} \cup (DOMAIN recipe.params \ {N}) \cup {Stranger} :
     IsNumber(x) => Cardinality(DOMAIN recipe.params) < start.params}
Edit ==
  /\ cursor < start.steps
  /\ \E drop \in BOOLEAN :
       \/ \E given \in Givens :
            (\E m \in Maps : Apply("split", m, given, drop)) \/ Apply("link", Link, given, drop)
       \/ \E m \in Maps : Apply("bind", m, Literal(0), drop)

Request ==
  \/ Edit
  \/ \E k \in 0 .. Steps : Move(k)
  \/ \E x \in DOMAIN recipe.params, v \in Values : SetParams(x, v)
  \/ \E bad \in BOOLEAN : Save(bad)
  \/ \E k \in Asked \cap (0 .. Replayed) : Sites(k) \/ Ask(k)

Next == (Request \/ WriteFile \/ Crash \/ Resume \/ ResumeRefused) /\ UNCHANGED start
Spec == Init /\ [][Next]_vars

-----------------------------------------------------------------------------
(* Undo, redo, drops, param changes, renames and a resume leave in memory  *)
(* what the recipe gives when it is replayed from its start.               *)
GraphsAreTheRecipes == up => Replay(recipe, Replayed) = [graphs |-> graphs, error |-> None]

(* A cached answer is about the graph its step has now.                    *)
AnswersCurrent ==
  /\ \A k \in DOMAIN derived : derived[k] = graphs[k + 1]
  /\ \A k \in DOMAIN sites : sites[k].graph = graphs[k + 1]

(* What is written replays to what is shown: a saved recipe, alone, to the *)
(* graphs up to the cursor; the session's files, of a process killed at    *)
(* any point with them whole, to the cursor's graph, the one shown before  *)
(* the change or after it.                                                 *)
FilesReplay ==
  /\ answer.saved # NoRecipe =>
       Replay(answer.saved, Len(answer.saved.steps)) = [graphs |-> SubSeq(graphs, 1, cursor + 1), error |-> None]
  /\ up => Opens /\ Last(Shown.graphs) \in before \cup {graphs[cursor + 1]}

(* A request answered with an error made no step and wrote nothing.        *)
ErrorMakesNoStep ==
  [][Ready /\ up' /\ ~answer'.ok => UNCHANGED <<recipe, cursor, disk, pending>>]_vars

(* A form proposes names no param has yet, whatever was done since.        *)
FormNamesFree ==
  \A k \in DOMAIN sites : sites[k].names.W \notin DOMAIN recipe.params

(* The files of a session that is not being written open again.            *)
Reopens == Ready => Opens /\ Rest.error # "value"
=============================================================================
