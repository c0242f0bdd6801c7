-------------------------------- MODULE Editor --------------------------------
(***************************************************************************)
(* The DFG page's server (snax_forge/viz/dfg/server.py): a thread per      *)
(* request.  In view mode the threads share a LoadedSet of files, in edit  *)
(* mode the open session.  A session's own methods hold its lock; a view,  *)
(* an apply's log line and the summary are put together outside it, part   *)
(* by part, while other requests change the session or open another one.   *)
(***************************************************************************)
EXTENDS Integers, FiniteSets, SequencesExt

CONSTANTS
  Viewers, Changers, Openers,  \* the threads, by what they ask for
  Nobody,
  Kinds, Params, Refused,      \* transforms, values of the one param, the pairs that refuse
  Starts,                      \* the recipes a session starts from
  Files,                       \* view mode's
  Requests,                    \* bound: per thread, the requests it makes
  Length, Writes               \* bounds: steps of a session, versions of a file

Threads == Viewers \cup Changers \cup Openers

ASSUME EditorAssumption ==
  /\ Nobody \notin Threads /\ IsFiniteSet(Threads)
  /\ Viewers \cap Changers = {} /\ Viewers \cap Openers = {} /\ Changers \cap Openers = {}
  /\ Starts \subseteq [steps : Seq(Kinds), param : Params] /\ "none" \notin Kinds
  /\ \A r \in Starts : /\ Len(r.steps) <= Length
                      /\ \A i \in DOMAIN r.steps : <<r.steps[i], r.param>> \notin Refused
  /\ Params \subseteq Nat /\ Params # {} /\ Refused \subseteq Kinds \X Params
  /\ Requests \in [Threads -> Nat] /\ Length \in Nat /\ Writes \in Nat

VARIABLES
  mode,     \* "view" or "edit"
  written,  \* view mode: per file its version
  loaded,   \* view mode: per file the version read, and the load that read it
  sess,     \* the Session objects made, in order: name, recipe, graphs, cursor
  lock,     \* per session, who holds its lock
  open,     \* EditState.session, 0 before one is open
  disk,     \* per session folder its recipe and cursor
  req, asked,       \* per thread: its request, how many it made
  raced, crossed    \* history: opens overlapped; two objects of one folder wrote

vars == <<mode, written, loaded, sess, lock, open, disk, req, asked, raced, crossed>>

-----------------------------------------------------------------------------
(* A session.  A graph is the steps that made it and the param they were   *)
(* replayed with; graphs[k + 1] is step k's.                               *)

GraphOf(r, k) == [steps |-> SubSeq(r.steps, 1, k), param |-> r.param]
Accepted(r, k) == \A i \in 1 .. k : <<r.steps[i], r.param>> \notin Refused
Graphs(r, k) == [i \in 1 .. k + 1 |-> GraphOf(r, i - 1)]
N(s) == Len(sess[s].recipe.steps)
Replayed(s) == Len(sess[s].graphs) - 1
Reached(r, k) == CHOOSE j \in 0 .. k : Accepted(r, j) /\ (j = k \/ ~Accepted(r, j + 1))
NoGraph == [steps |-> <<"none">>, param |-> 0]

Idle == [kind |-> "idle"]
Answered(how, r) == [kind |-> "answered", how |-> how, r |-> r]
Ask(t, r) ==
  /\ req[t] = Idle /\ asked[t] < Requests[t]
  /\ asked' = [asked EXCEPT ![t] = @ + 1] /\ req' = [req EXCEPT ![t] = r]
Forget(t) ==   \* the answer is sent
  /\ req[t].kind = "answered" /\ req' = [req EXCEPT ![t] = Idle]
  /\ UNCHANGED <<mode, written, loaded, sess, lock, open, disk, asked, raced, crossed>>

-----------------------------------------------------------------------------
(* Reading, part by part.                                                  *)

View == <<"n", "replayed", "name", "graph", "estimate", "params", "steps", "marks", "diff", "checks">>
Log == <<"before", "after">>
Summary == <<"recipe", "cursor", "size", "labels">>
Locked == {"estimate", "marks", "diff", "checks", "before", "after"}

Reading(s, k, parts) ==
  [kind |-> "reading", s |-> s, k |-> k, parts |-> parts, got |-> <<>>, touched |-> FALSE]

Ok(v) == [how |-> "ok", value |-> v]
Fail(how) == [how |-> how, value |-> 0]
Step(s, k) == IF k <= Replayed(s) THEN Ok(sess[s].graphs[k + 1]) ELSE Ok(NoGraph)
OrLost(s, k) == IF k <= N(s) /\ k <= Replayed(s) THEN Step(s, k) ELSE Fail("lost")

Upto(q, k) == SubSeq(q, 1, IF k < Len(q) THEN k ELSE Len(q))
NameOf(steps, k) == IF k = 0 THEN <<>> ELSE <<steps[k]>>   \* <k>_input or <k>_<transform>
(* A step that is not there is a 404 (also as an IndexError), a redo step  *)
(* a 400; a SandboxError in a GET is neither, and leaves it unanswered.    *)
Part(p, q) ==
  LET s == q.s
      k == q.k
      r == sess[s].recipe
  IN CASE p = "n" -> IF k > N(s) THEN Fail("404") ELSE Ok(N(s))
       [] p = "replayed" -> IF k > Replayed(s) THEN Fail("400") ELSE Ok(Replayed(s))
       [] p = "name" -> IF k > N(s) THEN Fail("404") ELSE Ok(NameOf(r.steps, k))
       [] p = "graph" -> IF k > Replayed(s) THEN Fail("404") ELSE Step(s, k)
       [] p \in {"estimate", "after"} -> Step(s, k)
       [] p = "before" -> Step(s, k - 1)
       [] p = "params" -> Ok(r.param)
       [] p = "steps" -> Ok(Upto(r.steps, k))
       [] p \in {"marks", "checks", "diff"} -> OrLost(s, k)
       [] p = "recipe" -> Ok(r)
       [] p = "cursor" -> Ok(sess[s].cursor)
       [] p = "size" -> Ok(N(s))
       [] p = "labels" -> IF N(s) < q.got[3] THEN Fail("404") ELSE Ok(Upto(r.steps, q.got[3]))

Read(t) ==
  LET r == req[t]
      p == r.parts[Len(r.got) + 1]
      a == Part(p, r)
      next == [r EXCEPT !.got = Append(@, a.value)]
  IN /\ r.kind = "reading"
     /\ p \in Locked => lock[r.s] = Nobody
     /\ req' = [req EXCEPT ![t] =
          CASE a.how # "ok" -> Answered(a.how, r)
            [] a.how = "ok" /\ Len(next.got) = Len(r.parts) -> Answered("page", next)
            [] OTHER -> next]
     /\ UNCHANGED <<mode, written, loaded, sess, lock, open, disk, asked, raced, crossed>>

Look(t) ==
  /\ t \in Viewers /\ open # 0
  /\ \/ \E k \in 0 .. N(open) : Ask(t, Reading(open, k, View))
     \/ Ask(t, Reading(open, Length, Summary))
  /\ UNCHANGED <<mode, written, loaded, sess, lock, open, disk, raced, crossed>>

-----------------------------------------------------------------------------
(* Changing the session: what is worked out under the lock, then the       *)
(* stores one by one (an unlocked read falls between any two).             *)

Wait(t, what) == Ask(t, [kind |-> "waiting", s |-> open, what |-> what])
Request(t) ==
  /\ t \in Changers /\ open # 0
  /\ \/ \E kind \in Kinds, drop \in BOOLEAN : Wait(t, <<"apply", kind, drop>>)
     \/ \E v \in Params : Wait(t, <<"params", v>>)
     \/ \E k \in 0 .. N(open) : Wait(t, <<"move", k>>)
  /\ UNCHANGED <<mode, written, loaded, sess, lock, open, disk, raced, crossed>>

Applied(x, kind) == [steps |-> Append(SubSeq(x.recipe.steps, 1, x.cursor), kind), param |-> x.recipe.param]
GraphsOneShort(x, r) == SubSeq(x.graphs, 1, x.cursor) \o <<GraphOf(r, x.cursor + 1)>>   \* a mutant
GraphsAfter(x, r) == SubSeq(x.graphs, 1, x.cursor + 1) \o <<GraphOf(r, x.cursor + 1)>>

(* What a request does to session x: refused, or its stores.               *)
Nothing == [todo |-> <<>>, new |-> NoGraph]
Apply(x, kind, drop) ==
  LET r == Applied(x, kind)
      after == [recipe |-> r, graphs |-> GraphsAfter(x, r), cursor |-> x.cursor + 1]
  IN IF (x.cursor < Len(x.recipe.steps) /\ ~drop) \/ <<kind, x.recipe.param>> \in Refused
     THEN Nothing
     ELSE [todo |-> <<"recipe", "graphs", "cursor", "write", "log">>, new |-> after]
ParamStoresInMemory == <<"recipe", "graphs">>   \* a mutant
ParamStores == <<"recipe", "graphs", "write">>
SetParams(x, v) ==
  LET r == [x.recipe EXCEPT !.param = v]
  IN IF ~Accepted(r, x.cursor) THEN Nothing
     ELSE [todo |-> ParamStores,
           new |-> [recipe |-> r, graphs |-> Graphs(r, x.cursor), cursor |-> x.cursor]]
Move(x, k) ==   \* the redo steps on the way are appended one by one, also when one refuses
  LET from == Len(x.graphs) - 1
      to == IF k <= from THEN from ELSE Reached(x.recipe, k)
  IN IF k > Len(x.recipe.steps) THEN Nothing
     ELSE [todo |-> CASE k <= from -> <<"cursor", "write">>
                      [] from < k /\ to = k -> <<"graph", "cursor", "write">>
                      [] from < to /\ to < k -> <<"graph">>
                      [] OTHER -> <<>>,
           new |-> [recipe |-> x.recipe, graphs |-> Graphs(x.recipe, to),
                    cursor |-> IF k <= to THEN k ELSE x.cursor]]
Outcome(x, what) ==
  CASE what[1] = "apply" -> Apply(x, what[2], what[3])
    [] what[1] = "params" -> SetParams(x, what[2])
    [] what[1] = "move" -> Move(x, what[2])

Enter(t) ==
  LET r == req[t]
      o == Outcome(sess[r.s], r.what)
  IN /\ r.kind = "waiting" /\ lock[r.s] = Nobody
     /\ r.what[1] = "apply" => sess[r.s].cursor < Length
     /\ \/ /\ o.todo = <<>>
           /\ req' = [req EXCEPT ![t] = Idle] /\ UNCHANGED lock
        \/ /\ o.todo # <<>>
           /\ lock' = [lock EXCEPT ![r.s] = t]
           /\ req' = [req EXCEPT ![t] = [kind |-> "storing", s |-> r.s, todo |-> o.todo, new |-> o.new]]
     /\ UNCHANGED <<mode, written, loaded, sess, open, disk, asked, raced, crossed>>

Stored(x, what, new) ==
  CASE what = "recipe" -> [x EXCEPT !.recipe = new.recipe]
    [] what = "graphs" -> [x EXCEPT !.graphs = new.graphs]
    [] what = "graph" -> [x EXCEPT !.graphs = Append(@, new.graphs[Len(@) + 1])]
    [] what = "cursor" -> [x EXCEPT !.cursor = new.cursor]
    [] OTHER -> x

(* The readers of s whose steps a store changed.                           *)
Changed(x, y, r) ==
  \/ Upto(x.recipe.steps, r.k) # Upto(y.recipe.steps, r.k) \/ x.recipe.param # y.recipe.param
  \/ r.parts # Summary /\ Upto(x.graphs, r.k + 1) # Upto(y.graphs, r.k + 1)
  \/ r.parts = Summary /\ x.cursor # y.cursor
Touched(r, s, y) ==
  IF r.kind = "reading" /\ r.s = s /\ Changed(sess[s], y, r) THEN [r EXCEPT !.touched = TRUE] ELSE r

Store(t) ==
  LET r == req[t]
      what == Head(r.todo)
      y == Stored(sess[r.s], what, r.new)
      rest == IF what = "graph" /\ Len(y.graphs) < Len(r.new.graphs) THEN r.todo ELSE Tail(r.todo)
      over == rest \in {<<>>, <<"log">>}   \* the lock is free again
      next == CASE rest = <<>> -> Idle
                [] rest = <<"log">> -> Reading(r.s, y.cursor, Log)
                [] OTHER -> [r EXCEPT !.todo = rest]
  IN /\ r.kind = "storing"
     /\ sess' = [sess EXCEPT ![r.s] = y]
     /\ lock' = [lock EXCEPT ![r.s] = IF over THEN Nobody ELSE t]
     /\ req' = [u \in Threads |-> IF u = t THEN next ELSE Touched(req[u], r.s, y)]
     /\ IF what = "write"
        THEN /\ disk' = [disk EXCEPT ![y.name] = [recipe |-> y.recipe, cursor |-> y.cursor]]
             /\ crossed' = (crossed \/ \E s \in DOMAIN sess \ {r.s} : sess[s].name = y.name)
        ELSE UNCHANGED <<disk, crossed>>
     /\ UNCHANGED <<mode, written, loaded, open, asked, raced>>

-----------------------------------------------------------------------------
(* Opening a session: a free name is looked for, the steps are replayed,   *)
(* the folder is made and written, and EditState takes the session.        *)

Folders == DOMAIN disk
FreeFirst(taken) == 1   \* a mutant: the name whatever is there
Free(taken) == CHOOSE n \in 1 .. Cardinality(taken) + 1 : n \notin taken /\ 1 .. n - 1 \subseteq taken

Open(t) ==
  /\ t \in Openers
  /\ \/ \E r \in Starts :   \* a kernel's import, or a recipe
          Ask(t, [kind |-> "opening", name |-> Free(Folders), new |-> TRUE,
                  from |-> [recipe |-> r, cursor |-> Len(r.steps)]])
     \/ \E n \in Folders : Ask(t, [kind |-> "opening", name |-> n, from |-> disk[n], new |-> FALSE])
  /\ raced' = (raced \/ \E u \in Openers \ {t} : req[u].kind = "opening")
  /\ UNCHANGED <<mode, written, loaded, sess, lock, open, disk, crossed>>

Make(t) ==
  LET r == req[t]
      x == [name |-> r.name, recipe |-> r.from.recipe, cursor |-> r.from.cursor, new |-> r.new,
            graphs |-> Graphs(r.from.recipe, Reached(r.from.recipe, Len(r.from.recipe.steps)))]
  IN /\ r.kind = "opening"
     /\ sess' = Append(sess, x) /\ lock' = Append(lock, Nobody)
     /\ disk' = [n \in Folders \cup {r.name} |->
                   IF n = r.name THEN [recipe |-> x.recipe, cursor |-> x.cursor] ELSE disk[n]]
     /\ crossed' = (crossed \/ (r.name \in Folders /\ disk[r.name] # r.from))
     /\ req' = [req EXCEPT ![t] = [kind |-> "opened", s |-> Len(sess) + 1]]
     /\ UNCHANGED <<mode, written, loaded, open, asked, raced>>

Take(t) ==   \* its answer is the session's summary, as one asked for
  LET s == req[t].s
  IN /\ req[t].kind = "opened"
     /\ open' = s /\ req' = [req EXCEPT ![t] = Idle]
     /\ UNCHANGED <<mode, written, loaded, sess, lock, disk, asked, raced, crossed>>

-----------------------------------------------------------------------------
(* View mode: Reload reads every file again and swaps the whole set.       *)

Unread(fresh) == {f \in Files : fresh[f].load = <<>>}
NotRead == [f \in Files |-> [version |-> 0, load |-> <<>>]]
Loads(t) == <<t, asked[t] + 1>>   \* a load's name: its thread, and which of its requests

Edit(f) ==
  /\ written[f] < Writes /\ written' = [written EXCEPT ![f] = @ + 1]
  /\ UNCHANGED <<mode, loaded, sess, lock, open, disk, req, asked, raced, crossed>>
Reload(t) ==
  /\ t \in Changers /\ Ask(t, [kind |-> "loading", fresh |-> NotRead, load |-> Loads(t)])
  /\ UNCHANGED <<mode, written, loaded, sess, lock, open, disk, raced, crossed>>
Swap(t, fresh) == loaded' = IF Unread(fresh) = {} THEN fresh ELSE loaded
LoadFile(t, f) ==
  LET r == req[t]
      fresh == [r.fresh EXCEPT ![f] = [version |-> written[f], load |-> r.load]]
  IN /\ r.kind = "loading" /\ f \in Unread(r.fresh)
     /\ req' = [req EXCEPT ![t] = IF Unread(fresh) = {} THEN Idle ELSE [r EXCEPT !.fresh = fresh]]
     /\ Swap(t, fresh)
     /\ UNCHANGED <<mode, written, sess, lock, open, disk, asked, raced, crossed>>
Show(t) ==   \* /api/steps, /api/step/<k>, /api/compare/<j>/<k>: of one values()
  /\ t \in Viewers /\ Ask(t, Answered("entries", loaded))
  /\ UNCHANGED <<mode, written, loaded, sess, lock, open, disk, raced, crossed>>

-----------------------------------------------------------------------------
Init ==
  /\ mode \in {"view", "edit"}
  /\ written = [f \in Files |-> 1] /\ loaded = [f \in Files |-> [version |-> 1, load |-> <<Nobody, 0>>]]
  /\ sess = <<>> /\ lock = <<>> /\ open = 0 /\ disk = <<>>
  /\ req = [t \in Threads |-> Idle] /\ asked = [t \in Threads |-> 0]
  /\ raced = FALSE /\ crossed = FALSE

Next ==
  \/ \E t \in Threads : Forget(t)
  \/ /\ mode = "edit"
     /\ \E t \in Threads : \/ Look(t) \/ Read(t) \/ Request(t) \/ Enter(t) \/ Store(t)
                           \/ Open(t) \/ Make(t) \/ Take(t)
  \/ /\ mode = "view"
     /\ \/ \E f \in Files : Edit(f)
        \/ \E t \in Threads : Reload(t) \/ Show(t) \/ \E f \in Files : LoadFile(t, f)

Spec == Init /\ [][Next]_vars

-----------------------------------------------------------------------------
(* The parts of a step's view are of one graph.                            *)
PartOf(r, p) == r.got[CHOOSE i \in DOMAIN r.parts : r.parts[i] = p]
OneStep(r) ==
  LET g == PartOf(r, "graph")
  IN /\ g = PartOf(r, "estimate") /\ g = PartOf(r, "marks") /\ g = PartOf(r, "diff") /\ g = PartOf(r, "checks")
     /\ g.steps = PartOf(r, "steps") /\ g.param = PartOf(r, "params")
     /\ PartOf(r, "name") = NameOf(g.steps, r.k)
OneRecipe(r) ==
  /\ PartOf(r, "cursor") <= PartOf(r, "size")
  /\ Len(PartOf(r, "recipe").steps) = PartOf(r, "size") /\ PartOf(r, "labels") = PartOf(r, "recipe").steps
OneLog(r) == r.got[2].steps # <<"none">> /\ GraphOf(r.got[2], r.k - 1) = r.got[1]
Whole(r) ==
  CASE r.parts = View -> OneStep(r) [] r.parts = Summary -> OneRecipe(r) [] r.parts = Log -> OneLog(r)

(* A request in view mode sees one load of the files, never half of a      *)
(* reload.                                                                 *)
WholeSets ==
  \A t \in Threads : (req[t].kind = "answered" /\ req[t].how = "entries")
    => \A f, g \in Files : req[t].r[f].load = req[t].r[g].load

(* A view, a log line or a summary is answered, and of one state of the    *)
(* session, unless a change meanwhile reached the steps it shows: applies, *)
(* undos and redos past step k never tear the view of step k.              *)
UntouchedIsWhole ==
  /\ WholeSets
  /\ \A t \in Threads : LET q == req[t] IN
       (q.kind = "answered" /\ q.how \in {"page", "404", "lost"} /\ ~q.r.touched)
         => q.how = "page" /\ Whole(q.r)

(* The session's documentation: the server's threads see one change at a   *)
(* time.  (Violated: a view takes its parts before and after a change.)    *)
OneChangeAtATime ==
  \A t \in Threads : LET q == req[t] IN
    (q.kind = "answered" /\ q.how = "page" /\ q.r.parts = View) => OneStep(q.r)

(* Sessions that are started one after the other have folders of their     *)
(* own; and when no request is under way, the folder of the open session   *)
(* holds what it shows, unless two objects of that folder were in use at   *)
(* once.                                                                   *)
Quiet == \A t \in Threads : req[t].kind \in {"idle", "answered", "reading"}
FoldersApart ==
  raced \/ \A a, b \in DOMAIN sess : (a # b /\ sess[a].new /\ sess[b].new) => sess[a].name # sess[b].name
FolderIsShown ==
  /\ FoldersApart
  /\ (Quiet /\ open # 0 /\ ~crossed)
       => disk[sess[open].name] = [recipe |-> sess[open].recipe, cursor |-> sess[open].cursor]
===============================================================================
