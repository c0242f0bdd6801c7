---------------------------- MODULE EditorProofs ----------------------------
(***************************************************************************)
(* The editor's server for any number of threads, steps, params, folders   *)
(* and requests: a page no change touched is answered whole, and the open  *)
(* session's folder holds what it shows.                                   *)
(***************************************************************************)
EXTENDS Editor, WellFoundedInduction, FiniteSetTheorems, SequenceTheorems, TLAPS

(* What holds at a, and one further wherever it holds, holds up to b: were  *)
(* there a number where it does not, there would be a first.               *)
LEMMA Upward ==
  ASSUME NEW a \in Int, NEW b \in Int, NEW S, a \in S,
         \A k \in a .. b - 1 : k \in S => k + 1 \in S
  PROVE  a .. b \subseteq S
<1> DEFINE T == {n \in Nat : a + n \in a .. b /\ a + n \notin S}
<1> SUFFICES ASSUME T # {} PROVE FALSE
  <2>1. ASSUME NEW k \in a .. b, k \notin S PROVE k - a \in T
    BY <2>1
  <2>2. QED BY <2>1
<1>1. PICK x \in T : \A y \in T : ~(<<y, x>> \in OpToRel(<, Nat))
  <2>1. T \subseteq Nat
    OBVIOUS
  <2> HIDE DEF T
  <2>2. QED BY <2>1, NatLessThanWellFounded, WFMin
<1>2. \A y \in T : ~(y < x)
  BY <1>1 DEF OpToRel
<1>3. x # 0 /\ x - 1 \in Nat /\ a + (x - 1) \in a .. b - 1 /\ (a + (x - 1)) + 1 = a + x
  OBVIOUS
<1>4. a + (x - 1) \in S
  BY <1>2, <1>3
<1>5. QED BY <1>3, <1>4

Recipes == [steps : Seq(Kinds), param : Nat]
News == [recipe : Recipes, graphs : Seq(Recipes), cursor : Nat]
Sessions == [name : Nat, recipe : Recipes, cursor : Nat, new : BOOLEAN, graphs : Seq(Recipes)]
Saved == {d \in [recipe : Recipes, cursor : Nat] :
            /\ d.cursor <= Len(d.recipe.steps) /\ Len(d.recipe.steps) <= Length
            /\ Accepted(d.recipe, d.cursor)}
Whats == ({"apply"} \X Kinds \X BOOLEAN) \cup ({"params"} \X Params) \cup ({"move"} \X Nat)

(* What is left of the stores of an apply, of new params and of a move.    *)
ToLog == {<<"recipe", "graphs", "cursor", "write", "log">>, <<"graphs", "cursor", "write", "log">>,
          <<"cursor", "write", "log">>, <<"write", "log">>}
Todos == ToLog \cup {<<"recipe", "graphs", "write">>, <<"graphs", "write">>, <<"write">>,
                     <<"graph", "cursor", "write">>, <<"cursor", "write">>, <<"graph">>}
ToCursor == (ToLog \ {<<"write", "log">>}) \cup {<<"graph", "cursor", "write">>, <<"cursor", "write">>}

IsReading(q, n) ==
  /\ q = [kind |-> "reading", s |-> q.s, k |-> q.k, parts |-> q.parts, got |-> q.got, touched |-> q.touched]
  /\ q.s \in 1 .. n /\ q.k \in Nat /\ q.parts \in {View, Log, Summary} /\ q.touched \in BOOLEAN
  /\ Len(q.got) < Len(q.parts) /\ \E S : q.got \in Seq(S)
Typed(q, n) ==
  /\ q.kind = "reading" => IsReading(q, n)
  /\ q.kind = "waiting" => q \in [kind : {"waiting"}, s : 1 .. n, what : Whats]
  /\ q.kind = "storing" => q \in [kind : {"storing"}, s : 1 .. n, todo : Todos, new : News]
  /\ q.kind = "opening" => q \in [kind : {"opening"}, name : Nat, new : BOOLEAN, from : Saved]
  /\ q.kind = "opened" => q.s \in 1 .. n

(* A session nobody changes: its graphs are its steps', to the cursor at   *)
(* least.                                                                  *)
Good(x) ==
  /\ Len(x.graphs) \in 1 .. Len(x.recipe.steps) + 1 /\ x.cursor \in 0 .. Len(x.graphs) - 1
  /\ \A i \in 1 .. Len(x.graphs) : x.graphs[i] = GraphOf(x.recipe, i - 1)
  /\ Accepted(x.recipe, Len(x.graphs) - 1) /\ Len(x.recipe.steps) <= Length

(* One whose changes are being stored: what is not left to store is new's. *)
Half(x, todo, new) ==
  /\ Good(new) /\ x.cursor <= Len(new.recipe.steps)
  /\ todo[1] # "recipe" => x.recipe = new.recipe
  /\ todo[1] \notin {"recipe", "graphs", "graph"} => x.graphs = new.graphs
  /\ todo \notin ToCursor => x.cursor = new.cursor
  /\ todo[1] = "graph" =>
       /\ 1 <= Len(x.graphs) /\ Len(x.graphs) < Len(new.graphs)
       /\ \A i \in 1 .. Len(x.graphs) : x.graphs[i] = new.graphs[i]
  /\ todo \in ToLog => new.cursor >= 1

(* What an untouched reader has got is what session x still holds.         *)
ViewHolds(x, q) ==
  LET k == q.k
      n == Len(q.got)
      g == x.graphs[q.k + 1]
  IN /\ k <= Len(x.recipe.steps)
     /\ n >= 2 => k < Len(x.graphs)
     /\ n >= 3 => q.got[3] = NameOf(x.recipe.steps, k)
     /\ n >= 4 => q.got[4] = g
     /\ n >= 5 => q.got[5] = g
     /\ n >= 6 => q.got[6] = x.recipe.param
     /\ n >= 7 => q.got[7] = Upto(x.recipe.steps, k)
     /\ n >= 8 => q.got[8] = g
     /\ n >= 9 => q.got[9] = g
LogHolds(x, q) ==
  /\ q.k \in 1 .. Len(x.recipe.steps) /\ q.k < Len(x.graphs)
  /\ Len(q.got) >= 1 => q.got[1] = x.graphs[q.k]
SummaryHolds(x, q) ==
  /\ q.k = Length
  /\ Len(q.got) >= 1 => q.got[1] = x.recipe
  /\ Len(q.got) >= 2 => q.got[2] = x.cursor
  /\ Len(q.got) >= 3 => q.got[3] = Len(x.recipe.steps)
Holds(x, q) ==
  /\ q.parts = View => ViewHolds(x, q)
  /\ q.parts = Log => LogHolds(x, q)
  /\ q.parts = Summary => SummaryHolds(x, q)

AnswerWhole(q) ==
  (q.kind = "answered" /\ q.how \in {"page", "404", "lost"} /\ ~q.r.touched) => q.how = "page" /\ Whole(q.r)

OneLoad(files) == \A f, g \in Files : files[f].load = files[g].load
LoadWhole(q) ==
  /\ (q.kind = "answered" /\ q.how = "entries") => OneLoad(q.r)
  /\ q.kind = "loading" =>
       /\ q = [kind |-> "loading", fresh |-> q.fresh, load |-> q.load]
       /\ q.fresh = [f \in Files |-> q.fresh[f]]
       /\ \A f \in Files : q.fresh[f].load \in {<<>>, q.load}

(* Thread t's request, over the sessions and their locks.                  *)
RequestOK(t, q, sessions, locks) ==
  /\ Typed(q, Len(sessions))
  /\ q.kind = "storing" => locks[q.s] = t /\ Half(sessions[q.s], q.todo, q.new)
  /\ (q.kind = "reading" /\ ~q.touched) => Holds(sessions[q.s], q)
  /\ AnswerWhole(q) /\ LoadWhole(q)
Fits(x) == x.cursor <= Len(x.recipe.steps) /\ Len(x.recipe.steps) <= Length
SessionsOK ==
  /\ sess \in Seq(Sessions) /\ open \in 0 .. Len(sess) /\ \A s \in 1 .. Len(sess) : Fits(sess[s])
  /\ lock \in Seq(Threads \cup {Nobody}) /\ Len(lock) = Len(sess)
  /\ \A s \in 1 .. Len(sess) : lock[s] = Nobody => Good(sess[s])
DiskOK ==
  /\ disk = [n \in Folders |-> disk[n]] /\ \A n \in Folders : disk[n] \in Saved
  /\ IsFiniteSet(Folders) /\ Folders \subseteq Nat
RequestsOK ==
  /\ req = [t \in Threads |-> req[t]]
  /\ \A t \in Threads : RequestOK(t, req[t], sess, lock)

ServerInv == SessionsOK /\ DiskOK /\ RequestsOK /\ OneLoad(loaded)

(* Without two opens at once, an opener's new folder is nobody's.          *)
NamesFree ==
  /\ \A t \in Threads : req[t].kind = "opening" => t \in Openers
  /\ ~raced => /\ \A t, u \in Threads : (req[t].kind = "opening" /\ req[u].kind = "opening") => t = u
               /\ \A t \in Threads : (req[t].kind = "opening" /\ req[t].new) => req[t].name \notin Folders
Named == \A s \in 1 .. Len(sess) : sess[s].name \in Folders

(* A session's folder holds it, unless a write of it is to come.           *)
Filed(x) == disk[x.name] = [recipe |-> x.recipe, cursor |-> x.cursor]
Storing(t, s) == req[t].kind = "storing" /\ req[t].s = s /\ req[t].todo # <<"graph">>
Synced ==
  ~crossed => \A s \in 1 .. Len(sess) : Filed(sess[s]) \/ \E t \in Threads : Storing(t, s)
FolderParts == NamesFree /\ Named /\ FoldersApart /\ Synced

-----------------------------------------------------------------------------
(* The operators.                                                          *)

LEMMA ReachedIs ==
  ASSUME NEW r, NEW k \in Nat
  PROVE  /\ Reached(r, k) \in 0 .. k /\ Accepted(r, Reached(r, k))
         /\ \A c \in 0 .. k : Accepted(r, c) => c <= Reached(r, k)
<1> DEFINE Stops(j) == j \in 0 .. k /\ Accepted(r, j) /\ (j = k \/ ~Accepted(r, j + 1))
           Runs == {j \in 0 .. k : Accepted(r, j)}
<1>1. \E j \in 0 .. k : Stops(j)
  <2> SUFFICES ASSUME \A j \in 0 .. k : ~Stops(j) PROVE FALSE
    OBVIOUS
  <2>1. 0 \in Runs
    BY DEF Accepted
  <2>2. \A j \in 0 .. k - 1 : j \in Runs => j + 1 \in Runs
    OBVIOUS
  <2>3. 0 .. k \subseteq Runs
    <3> HIDE DEF Runs
    <3> QED BY <2>1, <2>2, Upward
  <2>4. QED BY <2>3
<1>2. Stops(Reached(r, k))
  BY <1>1 DEF Reached
<1>3. ASSUME NEW c \in 0 .. k, Accepted(r, c), c > Reached(r, k) PROVE FALSE
  <2>1. Reached(r, k) + 1 \in 1 .. c
    BY <1>2, <1>3
  <2>2. Accepted(r, Reached(r, k) + 1)
    BY <1>2, <1>3, <2>1 DEF Accepted
  <2>3. QED BY <1>2, <1>3, <2>2
<1>4. QED BY <1>2, <1>3

LEMMA FreeIs ==
  ASSUME NEW taken, IsFiniteSet(taken)
  PROVE  Free(taken) \in Nat /\ Free(taken) \notin taken
<1> DEFINE c == Cardinality(taken)
           First(n) == n \in 1 .. c + 1 /\ n \notin taken /\ 1 .. n - 1 \subseteq taken
           Taken == {n \in 0 .. c + 1 : 1 .. n \subseteq taken}
<1>1. c \in Nat
  BY FS_CardinalityType
<1>2. \E n \in 1 .. c + 1 : First(n)
  <2> SUFFICES ASSUME \A n \in 1 .. c + 1 : ~First(n) PROVE FALSE
    OBVIOUS
  <2>1. 0 \in Taken
    BY <1>1
  <2>2. ASSUME NEW n \in 0 .. c + 1 - 1, n \in Taken PROVE n + 1 \in Taken
    <3>1. 1 .. (n + 1) - 1 \subseteq taken /\ n + 1 \in 1 .. c + 1
      BY <1>1, <2>2
    <3>2. n + 1 \in taken
      BY <3>1
    <3>3. 1 .. n + 1 = 1 .. n \cup {n + 1}
      OBVIOUS
    <3>4. QED BY <2>2, <3>1, <3>2, <3>3
  <2>3. 0 .. c + 1 \subseteq Taken
    <3> HIDE DEF Taken, c
    <3> QED BY <1>1, <2>1, <2>2, Upward
  <2>4. 1 .. c + 1 \subseteq taken
    BY <1>1, <2>3
  <2>5. Cardinality(1 .. c + 1) = c + 1
    BY <1>1, FS_Interval
  <2>6. QED BY <1>1, <2>4, <2>5, FS_Subset
<1>3. QED BY <1>1, <1>2 DEF Free

LEMMA GraphsAre ==
  ASSUME NEW r \in Recipes, NEW k \in 0 .. Len(r.steps)
  PROVE  /\ Graphs(r, k) \in Seq(Recipes) /\ Len(Graphs(r, k)) = k + 1
         /\ \A i \in 1 .. k + 1 : Graphs(r, k)[i] = GraphOf(r, i - 1)
<1>1. ASSUME NEW i \in 1 .. k + 1 PROVE GraphOf(r, i - 1) \in Recipes
  <2>1. SubSeq(r.steps, 1, i - 1) \in Seq(Kinds)
    BY DEF Recipes
  <2>2. QED BY <2>1 DEF GraphOf, Recipes
<1> DEFINE g == [i \in 1 .. k + 1 |-> GraphOf(r, i - 1)]
<1>2. k + 1 \in Nat /\ g \in [1 .. k + 1 -> Recipes]
  BY <1>1 DEF Recipes
<1>3. g \in Seq(Recipes) /\ Len(g) = k + 1
  <2> HIDE DEF g
  <2> QED BY <1>2, LenProperties
<1>4. QED BY <1>3 DEF Graphs

(* What a session is asked to become is again good.                        *)
LEMMA ApplyIs ==
  ASSUME NEW x \in Sessions, Good(x), NEW kind \in Kinds, NEW drop \in BOOLEAN, x.cursor < Length,
         Apply(x, kind, drop).todo # <<>>
  PROVE  LET o == Apply(x, kind, drop) IN o.todo \in Todos /\ o.new \in News /\ Half(x, o.todo, o.new)
<1> DEFINE c == x.cursor
           old == x.recipe.steps
           cut == SubSeq(old, 1, c)
           r == Applied(x, kind)
           last == GraphOf(r, c + 1)
           head == SubSeq(x.graphs, 1, c + 1)
           o == Apply(x, kind, drop)
<1>1. /\ x.recipe \in Recipes /\ old \in Seq(Kinds) /\ x.graphs \in Seq(Recipes) /\ c \in Nat
      /\ c + 1 <= Len(x.graphs) /\ c <= Len(old)
  BY DEF Sessions, Recipes, Good
<1>2. cut \in Seq(Kinds) /\ Len(cut) = c /\ \A i \in 1 .. c : cut[i] = old[i]
  BY <1>1
<1>3. /\ r \in Recipes /\ Len(r.steps) = c + 1 /\ r.steps[c + 1] = kind
      /\ r.param = x.recipe.param /\ \A i \in 1 .. c : r.steps[i] = old[i]
  <2>1. r.steps = Append(cut, kind) /\ r = [steps |-> Append(cut, kind), param |-> x.recipe.param]
    BY DEF Applied
  <2>2. /\ Append(cut, kind) \in Seq(Kinds) /\ Len(Append(cut, kind)) = c + 1
        /\ Append(cut, kind)[c + 1] = kind /\ \A i \in 1 .. c : Append(cut, kind)[i] = cut[i]
    <3> HIDE DEF cut
    <3> QED BY <1>1, <1>2, AppendProperties
  <2>3. QED BY <1>1, <1>2, <2>1, <2>2 DEF Recipes
<1>4. <<kind, x.recipe.param>> \notin Refused
  BY DEF Apply, Nothing
<1>5. o = [todo |-> <<"recipe", "graphs", "cursor", "write", "log">>,
           new |-> [recipe |-> r, graphs |-> GraphsAfter(x, r), cursor |-> c + 1]]
  BY DEF Apply, Nothing
<1> HIDE DEF r, o
<1>6. last \in Recipes
  BY <1>1, <1>3 DEF GraphOf, Recipes
<1>7. head \in Seq(Recipes) /\ Len(head) = c + 1 /\ \A i \in 1 .. c + 1 : head[i] = x.graphs[i]
  BY <1>1
<1> HIDE DEF head, last
<1>8. /\ GraphsAfter(x, r) \in Seq(Recipes) /\ Len(GraphsAfter(x, r)) = c + 2
      /\ GraphsAfter(x, r)[c + 2] = last /\ \A i \in 1 .. c + 1 : GraphsAfter(x, r)[i] = head[i]
  <2>1. GraphsAfter(x, r) = head \o <<last>>
    BY DEF GraphsAfter, head, last
  <2>2. <<last>> \in Seq(Recipes) /\ Len(<<last>>) = 1 /\ <<last>>[1] = last
    BY <1>6
  <2>3. QED BY <1>1, <1>7, <2>1, <2>2, ConcatProperties
<1>9. ASSUME NEW i \in 1 .. c + 2 PROVE GraphsAfter(x, r)[i] = GraphOf(r, i - 1)
  <2>1. CASE i = c + 2
    BY <1>8, <2>1, <1>1 DEF last
  <2>2. CASE i \in 1 .. c + 1
    <3>1. GraphsAfter(x, r)[i] = GraphOf(x.recipe, i - 1)
      BY <1>1, <1>7, <1>8, <2>2 DEF Good
    <3>2. SubSeq(old, 1, i - 1) = SubSeq(r.steps, 1, i - 1)
      <4>1. r.steps \in Seq(Kinds)
        BY <1>3 DEF Recipes
      <4>2. QED BY <1>1, <1>3, <2>2, <4>1
    <3>3. QED BY <1>3, <3>1, <3>2 DEF GraphOf
  <2>3. QED BY <1>1, <2>1, <2>2
<1>10. Accepted(r, c + 1)
  <2>1. \A i \in 1 .. c : <<old[i], x.recipe.param>> \notin Refused
    BY <1>1 DEF Good, Accepted
  <2>2. ASSUME NEW i \in 1 .. c + 1 PROVE <<r.steps[i], r.param>> \notin Refused
    <3>1. CASE i \in 1 .. c
      BY <2>1, <1>3, <3>1
    <3>2. CASE i = c + 1
      BY <1>3, <1>4, <3>2
    <3>3. QED BY <1>1, <3>1, <3>2
  <2>3. QED BY <2>2 DEF Accepted
<1>11. o.new \in News /\ o.todo \in Todos
  BY <1>1, <1>3, <1>5, <1>8 DEF News, Todos, ToLog
<1>12. Good(o.new)
  <2> DEFINE n == [recipe |-> r, graphs |-> GraphsAfter(x, r), cursor |-> c + 1]
  <2>1. c + 1 <= Length
    BY <1>1, EditorAssumption
  <2>2. Len(n.graphs) = c + 2 /\ Len(n.recipe.steps) = c + 1 /\ n.cursor = c + 1
    BY <1>3, <1>8
  <2>3. Accepted(n.recipe, Len(n.graphs) - 1)
    BY <1>1, <1>10, <2>2
  <2>4. \A i \in 1 .. Len(n.graphs) : n.graphs[i] = GraphOf(n.recipe, i - 1)
    BY <1>9, <2>2
  <2> HIDE DEF n
  <2>5. Good(n)
    BY <1>1, <2>1, <2>2, <2>3, <2>4, SMTT(20) DEF Good
  <2>6. QED BY <1>5, <2>5 DEF n
<1>13. Half(x, o.todo, o.new)
  <2>1. o.todo \in ToLog /\ o.todo \in ToCursor /\ o.todo[1] = "recipe"
    BY <1>5 DEF ToLog, ToCursor
  <2>2. x.cursor <= Len(o.new.recipe.steps) /\ o.new.cursor >= 1
    BY <1>1, <1>3, <1>5
  <2>3. QED BY <1>12, <2>1, <2>2 DEF Half
<1>14. QED BY <1>11, <1>13 DEF o

LEMMA GoodGraphs ==
  ASSUME NEW r \in Recipes, NEW k \in 0 .. Len(r.steps), NEW c \in 0 .. k,
         Accepted(r, k), Len(r.steps) <= Length
  PROVE  LET n == [recipe |-> r, graphs |-> Graphs(r, k), cursor |-> c] IN n \in News /\ Good(n)
<1> DEFINE n == [recipe |-> r, graphs |-> Graphs(r, k), cursor |-> c]
<1>1. /\ Graphs(r, k) \in Seq(Recipes) /\ Len(n.graphs) = k + 1 /\ r.steps \in Seq(Kinds)
      /\ \A i \in 1 .. Len(n.graphs) : n.graphs[i] = GraphOf(n.recipe, i - 1)
  <2>1. /\ Graphs(r, k) \in Seq(Recipes) /\ Len(Graphs(r, k)) = k + 1
        /\ \A i \in 1 .. k + 1 : Graphs(r, k)[i] = GraphOf(r, i - 1)
    BY GraphsAre
  <2>2. r.steps \in Seq(Kinds)
    BY DEF Recipes
  <2>3. n.graphs = Graphs(r, k) /\ n.recipe = r
    OBVIOUS
  <2>4. QED BY <2>1, <2>2, <2>3
<1>2. Accepted(n.recipe, Len(n.graphs) - 1) /\ n.cursor = c /\ n.recipe = r
  BY <1>1
<1>3. n \in News
  BY <1>1 DEF News
<1> HIDE DEF n
<1>4. Good(n)
  BY <1>1, <1>2 DEF Good
<1>5. QED BY <1>3, <1>4 DEF n

LEMMA ParamsIs ==
  ASSUME NEW x \in Sessions, Good(x), NEW v \in Params, SetParams(x, v).todo # <<>>
  PROVE  LET o == SetParams(x, v) IN o.todo \in Todos /\ o.new \in News /\ Half(x, o.todo, o.new)
<1> DEFINE r == [x.recipe EXCEPT !.param = v]
           o == SetParams(x, v)
<1>1. x.recipe \in Recipes /\ x.recipe.steps \in Seq(Kinds) /\ x.cursor \in 0 .. Len(x.recipe.steps)
  BY DEF Sessions, Recipes, Good
<1>2. r \in Recipes /\ r.steps = x.recipe.steps
  BY <1>1, EditorAssumption DEF Recipes
<1>3. Accepted(r, x.cursor)
  BY DEF SetParams, Nothing
<1>4. o = [todo |-> <<"recipe", "graphs", "write">>,
           new |-> [recipe |-> r, graphs |-> Graphs(r, x.cursor), cursor |-> x.cursor]]
  BY DEF SetParams, Nothing, ParamStores
<1> HIDE DEF r, o
<1>5. o.new \in News /\ Good(o.new) /\ o.new.recipe = r /\ o.new.cursor = x.cursor
  BY <1>1, <1>2, <1>3, <1>4, GoodGraphs, SMTT(20) DEF Good
<1>6. o.todo \in Todos /\ o.todo[1] = "recipe" /\ o.todo \notin ToLog /\ o.todo \notin ToCursor
  BY <1>4 DEF Todos, ToLog, ToCursor
<1>7. Half(x, o.todo, o.new)
  BY <1>1, <1>2, <1>5, <1>6 DEF Half
<1>8. QED BY <1>5, <1>6, <1>7 DEF o

LEMMA MoveIs ==
  ASSUME NEW x \in Sessions, Good(x), NEW k \in Nat, Move(x, k).todo # <<>>
  PROVE  LET o == Move(x, k) IN o.todo \in Todos /\ o.new \in News /\ Half(x, o.todo, o.new)
<1> DEFINE from == Len(x.graphs) - 1
           to == IF k <= from THEN from ELSE Reached(x.recipe, k)
           o == Move(x, k)
           c == IF k <= to THEN k ELSE x.cursor
<1>1. /\ x.recipe \in Recipes /\ x.recipe.steps \in Seq(Kinds) /\ x.graphs \in Seq(Recipes)
      /\ from \in 0 .. Len(x.recipe.steps) /\ x.cursor \in 0 .. from
  BY DEF Sessions, Recipes, Good
<1>2. k <= Len(x.recipe.steps)
  BY DEF Move, Nothing
<1>3. o = [todo |-> CASE k <= from -> <<"cursor", "write">>
                      [] from < k /\ to = k -> <<"graph", "cursor", "write">>
                      [] from < to /\ to < k -> <<"graph">>
                      [] OTHER -> <<>>,
           new |-> [recipe |-> x.recipe, graphs |-> Graphs(x.recipe, to), cursor |-> c]]
  BY <1>2 DEF Move, Nothing
<1>4. /\ to \in from .. Len(x.recipe.steps) /\ Accepted(x.recipe, to)
      /\ k <= from => to = from
      /\ k > from => to <= k
  <2>1. Accepted(x.recipe, from)
    BY DEF Good
  <2>2. CASE k <= from
    BY <1>1, <2>1, <2>2
  <2>3. CASE k > from
    BY <1>1, <1>2, <2>1, <2>3, ReachedIs
  <2>4. QED BY <1>1, <2>2, <2>3
<1> HIDE DEF to, from, o
<1>5. c \in 0 .. to
  BY <1>1, <1>4
<1> HIDE DEF c
<1>6. o.new \in News /\ Good(o.new) /\ o.new.recipe = x.recipe /\ o.new.cursor = c
  <2> DEFINE n == [recipe |-> x.recipe, graphs |-> Graphs(x.recipe, to), cursor |-> c]
  <2>1. to \in 0 .. Len(x.recipe.steps) /\ Len(x.recipe.steps) <= Length
    BY <1>1, <1>4 DEF Good
  <2>2. n \in News /\ Good(n)
    BY <1>1, <1>4, <1>5, <2>1, GoodGraphs
  <2>3. o.new = n
    BY <1>3
  <2>4. QED BY <2>2, <2>3
<1>7. /\ o.new.graphs = Graphs(x.recipe, to) /\ Len(Graphs(x.recipe, to)) = to + 1
      /\ \A i \in 1 .. to + 1 : Graphs(x.recipe, to)[i] = GraphOf(x.recipe, i - 1)
  BY <1>1, <1>3, <1>4, GraphsAre
<1>8. \A i \in 1 .. from + 1 : x.graphs[i] = Graphs(x.recipe, to)[i]
  BY <1>1, <1>4, <1>7 DEF Good, from
<1>9. Len(x.graphs) = from + 1 /\ x.cursor <= Len(x.recipe.steps)
  BY <1>1 DEF from
<1>0. to > from =>
        /\ 1 <= Len(x.graphs) /\ Len(x.graphs) < Len(o.new.graphs)
        /\ \A i \in 1 .. Len(x.graphs) : x.graphs[i] = o.new.graphs[i]
  BY <1>1, <1>4, <1>7, <1>8, <1>9
<1>10. CASE to > from /\ k <= to
  <2>1. o.todo = <<"graph", "cursor", "write">>
    BY <1>1, <1>3, <1>4, <1>10 DEF from
  <2>2. o.todo \in Todos /\ o.todo \in ToCursor /\ o.todo \notin ToLog /\ o.todo[1] = "graph"
    BY <2>1, SMTT(20) DEF Todos, ToLog, ToCursor
  <2>3. Half(x, o.todo, o.new)
    BY <1>0, <1>6, <1>9, <1>10, <2>2 DEF Half
  <2>4. QED BY <1>6, <2>2, <2>3 DEF o
<1>11. CASE to > from /\ k > to
  <2>1. o.todo = <<"graph">>
    BY <1>1, <1>3, <1>4, <1>11
  <2>2. o.todo \in Todos /\ o.todo \notin ToCursor /\ o.todo \notin ToLog /\ o.todo[1] = "graph"
    BY <2>1, SMTT(20) DEF Todos, ToLog, ToCursor
  <2>3. x.cursor = o.new.cursor
    BY <1>6, <1>11, <1>4, <1>1 DEF c
  <2>4. Half(x, o.todo, o.new)
    BY <1>0, <1>6, <1>9, <1>11, <2>2, <2>3 DEF Half
  <2>5. QED BY <1>6, <2>2, <2>4 DEF o
<1>12. CASE to = from
  <2>1. x.graphs = Graphs(x.recipe, to)
    <3>1. x.graphs \in Seq(Recipes) /\ Graphs(x.recipe, to) \in Seq(Recipes)
      BY <1>1, <1>4, GraphsAre
    <3>2. Len(x.graphs) = Len(Graphs(x.recipe, to)) /\ \A i \in 1 .. Len(x.graphs) : x.graphs[i] = Graphs(x.recipe, to)[i]
      BY <1>7, <1>8, <1>9, <1>12
    <3>3. QED BY <3>1, <3>2, SeqEqual
  <2>2. k <= to /\ o.todo = <<"cursor", "write">>
    BY <1>1, <1>3, <1>4, <1>12 DEF o
  <2>3. o.todo \in Todos /\ o.todo \in ToCursor /\ o.todo \notin ToLog /\ o.todo[1] = "cursor"
    BY <2>2 DEF Todos, ToLog, ToCursor
  <2>4. Half(x, o.todo, o.new)
    BY <1>1, <1>6, <1>7, <1>9, <2>1, <2>3 DEF Half
  <2>5. QED BY <1>6, <2>3, <2>4 DEF o
<1>13. QED BY <1>1, <1>4, <1>10, <1>11, <1>12

(* The stores one after another.                                           *)
Same(rest, todo) == (rest \in ToLog <=> todo \in ToLog) /\ (rest \in ToCursor <=> todo \in ToCursor)
LEMMA TodosAre ==
  ASSUME NEW todo \in Todos
  PROVE  LET rest == Tail(todo) IN
         /\ Head(todo) = todo[1] /\ todo[1] \in {"recipe", "graphs", "graph", "cursor", "write"}
         /\ todo[1] = "recipe" => rest \in Todos /\ rest[1] = "graphs" /\ Same(rest, todo)
         /\ todo[1] = "graphs" => rest \in Todos /\ rest[1] \in {"cursor", "write"} /\ Same(rest, todo)
         /\ todo[1] = "graph" =>
              /\ todo \notin ToLog
              /\ \/ todo = <<"graph">> /\ todo \notin ToCursor /\ rest = <<>>
                 \/ todo \in ToCursor /\ rest \in Todos /\ rest[1] = "cursor" /\ Same(rest, todo)
         /\ todo[1] = "cursor" =>
              /\ rest \in Todos /\ rest[1] = "write" /\ rest \notin ToCursor
              /\ (rest \in ToLog <=> todo \in ToLog)
         /\ todo[1] = "write" =>
              /\ todo \notin ToCursor
              /\ \/ todo \notin ToLog /\ rest = <<>>
                 \/ todo \in ToLog /\ rest = <<"log">>
<1>1. CASE todo = <<"recipe", "graphs", "cursor", "write", "log">>
  <2>1. Head(todo) = "recipe" /\ Tail(todo) = <<"graphs", "cursor", "write", "log">> /\ todo[1] = "recipe" /\ Tail(todo)[1] = "graphs"
    BY <1>1
  <2>2. todo \in ToLog /\ todo \in ToCursor
    BY <1>1 DEF ToLog, ToCursor
  <2>3. Tail(todo) \in ToLog /\ Tail(todo) \in ToCursor /\ Tail(todo) \in Todos
    BY <2>1, SMTT(20) DEF Todos, ToLog, ToCursor
  <2>4. QED BY <1>1, <2>1, <2>2, <2>3 DEF Same
<1>2. CASE todo = <<"graphs", "cursor", "write", "log">>
  <2>1. Head(todo) = "graphs" /\ Tail(todo) = <<"cursor", "write", "log">> /\ todo[1] = "graphs" /\ Tail(todo)[1] = "cursor"
    BY <1>2
  <2>2. todo \in ToLog /\ todo \in ToCursor
    BY <1>2 DEF ToLog, ToCursor
  <2>3. Tail(todo) \in ToLog /\ Tail(todo) \in ToCursor /\ Tail(todo) \in Todos
    BY <2>1, SMTT(20) DEF Todos, ToLog, ToCursor
  <2>4. QED BY <1>2, <2>1, <2>2, <2>3 DEF Same
<1>3. CASE todo = <<"cursor", "write", "log">>
  <2>1. Head(todo) = "cursor" /\ Tail(todo) = <<"write", "log">> /\ todo[1] = "cursor" /\ Tail(todo)[1] = "write"
    BY <1>3
  <2>2. todo \in ToLog /\ todo \in ToCursor
    BY <1>3 DEF ToLog, ToCursor
  <2>3. Tail(todo) \in ToLog /\ Tail(todo) \notin ToCursor /\ Tail(todo) \in Todos
    BY <2>1, SMTT(20) DEF Todos, ToLog, ToCursor
  <2>4. QED BY <1>3, <2>1, <2>2, <2>3 DEF Same
<1>4. CASE todo = <<"write", "log">>
  <2>1. Head(todo) = "write" /\ Tail(todo) = <<"log">> /\ todo[1] = "write" /\ Tail(todo)[1] = "log"
    BY <1>4
  <2>2. todo \in ToLog /\ todo \notin ToCursor
    BY <1>4 DEF ToLog, ToCursor
  <2>3. QED BY <1>4, <2>1, <2>2
<1>5. CASE todo = <<"recipe", "graphs", "write">>
  <2>1. Head(todo) = "recipe" /\ Tail(todo) = <<"graphs", "write">> /\ todo[1] = "recipe" /\ Tail(todo)[1] = "graphs"
    BY <1>5
  <2>2. todo \notin ToLog /\ todo \notin ToCursor
    BY <1>5 DEF ToLog, ToCursor
  <2>3. Tail(todo) \notin ToLog /\ Tail(todo) \notin ToCursor /\ Tail(todo) \in Todos
    BY <2>1, SMTT(20) DEF Todos, ToLog, ToCursor
  <2>4. QED BY <1>5, <2>1, <2>2, <2>3 DEF Same
<1>6. CASE todo = <<"graphs", "write">>
  <2>1. Head(todo) = "graphs" /\ Tail(todo) = <<"write">> /\ todo[1] = "graphs" /\ Tail(todo)[1] = "write"
    BY <1>6
  <2>2. todo \notin ToLog /\ todo \notin ToCursor
    BY <1>6 DEF ToLog, ToCursor
  <2>3. Tail(todo) \notin ToLog /\ Tail(todo) \notin ToCursor /\ Tail(todo) \in Todos
    BY <2>1, SMTT(20) DEF Todos, ToLog, ToCursor
  <2>4. QED BY <1>6, <2>1, <2>2, <2>3 DEF Same
<1>7. CASE todo = <<"write">>
  <2>1. Head(todo) = "write" /\ Tail(todo) = <<>> /\ todo[1] = "write"
    BY <1>7
  <2>2. todo \notin ToLog /\ todo \notin ToCursor
    BY <1>7 DEF ToLog, ToCursor
  <2>3. QED BY <1>7, <2>1, <2>2
<1>8. CASE todo = <<"graph", "cursor", "write">>
  <2>1. Head(todo) = "graph" /\ Tail(todo) = <<"cursor", "write">> /\ todo[1] = "graph" /\ Tail(todo)[1] = "cursor"
    BY <1>8
  <2>2. todo \notin ToLog /\ todo \in ToCursor
    BY <1>8 DEF ToLog, ToCursor
  <2>3. Tail(todo) \in ToCursor /\ Tail(todo) \in Todos
    BY <2>1 DEF Todos, ToCursor
  <2>4. Tail(todo) \notin ToLog
    <3> DEFINE c == <<"cursor", "write">>
    <3>1. Len(c) = 2 /\ c[1] = "cursor"
      OBVIOUS
    <3>2. \A l \in ToLog : Len(l) = 2 => l[1] # "cursor"
      BY DEF ToLog
    <3>3. c \notin ToLog
      <4> HIDE DEF c
      <4> QED BY <3>1, <3>2
    <3>4. QED BY <2>1, <3>3
  <2>5. QED BY <1>8, <2>1, <2>2, <2>3, <2>4 DEF Same
<1>9. CASE todo = <<"cursor", "write">>
  <2>1. Head(todo) = "cursor" /\ Tail(todo) = <<"write">> /\ todo[1] = "cursor" /\ Tail(todo)[1] = "write"
    BY <1>9
  <2>2. todo \notin ToLog /\ todo \in ToCursor
    BY <1>9 DEF ToLog, ToCursor
  <2>3. Tail(todo) \notin ToLog /\ Tail(todo) \notin ToCursor /\ Tail(todo) \in Todos
    BY <2>1, SMTT(20) DEF Todos, ToLog, ToCursor
  <2>4. QED BY <1>9, <2>1, <2>2, <2>3 DEF Same
<1>10. CASE todo = <<"graph">>
  <2>1. Head(todo) = "graph" /\ Tail(todo) = <<>> /\ todo[1] = "graph"
    BY <1>10
  <2>2. todo \notin ToLog /\ todo \notin ToCursor
    BY <1>10 DEF ToLog, ToCursor
  <2>3. QED BY <1>10, <2>1, <2>2
<1>11. QED BY <1>1, <1>2, <1>3, <1>4, <1>5, <1>6, <1>7, <1>8, <1>9, <1>10 DEF Todos, ToLog

RestOf(y, todo, new) == IF Head(todo) = "graph" /\ Len(y.graphs) < Len(new.graphs) THEN todo ELSE Tail(todo)
LEMMA StoreIs ==
  ASSUME NEW x \in Sessions, Fits(x), NEW todo \in Todos, NEW new \in News, Half(x, todo, new)
  PROVE  LET y == Stored(x, Head(todo), new)
             rest == RestOf(y, todo, new)
         IN /\ y \in Sessions /\ Fits(y) /\ y.name = x.name /\ y.new = x.new
            /\ \/ rest \in {<<>>, <<"log">>} /\ Good(y)
               \/ rest \in Todos /\ Half(y, rest, new)
            /\ rest = <<"log">> => y.cursor >= 1
            /\ Head(todo) = "write" => y = x /\ rest \in {<<>>, <<"log">>}
            /\ todo = <<"graph">> => rest \in {<<>>, todo} /\ y.recipe = x.recipe /\ y.cursor = x.cursor
            /\ (Head(todo) # "write" /\ todo # <<"graph">>) => rest \in Todos /\ rest # <<"graph">>
<1> DEFINE y == Stored(x, Head(todo), new)
           rest == RestOf(y, todo, new)
<1>1. /\ x.recipe \in Recipes /\ x.graphs \in Seq(Recipes) /\ x.cursor \in Nat
      /\ x = [name |-> x.name, recipe |-> x.recipe, cursor |-> x.cursor, new |-> x.new, graphs |-> x.graphs]
      /\ x.name \in Nat /\ x.new \in BOOLEAN
  BY DEF Sessions
<1>2. /\ new.recipe \in Recipes /\ new.graphs \in Seq(Recipes) /\ new.cursor \in Nat
      /\ Good(new) /\ x.cursor <= Len(new.recipe.steps)
      /\ Len(new.recipe.steps) \in Nat /\ new.cursor <= Len(new.recipe.steps) /\ Len(new.recipe.steps) <= Length
  <2>1. new.recipe \in Recipes /\ new.graphs \in Seq(Recipes) /\ new.cursor \in Nat
    BY DEF News
  <2>2. Good(new) /\ x.cursor <= Len(new.recipe.steps)
    BY DEF Half
  <2>3. new.recipe.steps \in Seq(Kinds)
    BY <2>1 DEF Recipes
  <2>4. Len(new.recipe.steps) \in Nat
    BY <2>3
  <2>5. new.cursor <= Len(new.recipe.steps) /\ Len(new.recipe.steps) <= Length
    BY <2>2 DEF Good
  <2>6. QED BY <2>1, <2>2, <2>4, <2>5
<1>3. Head(todo) = todo[1]
  BY TodosAre
<1>4. CASE todo[1] = "recipe"
  <2>1. y = [x EXCEPT !.recipe = new.recipe] /\ rest = Tail(todo)
    BY <1>3, <1>4 DEF Stored, RestOf
  <2>2. y \in Sessions /\ y.name = x.name /\ y.new = x.new /\ y.recipe = new.recipe /\ y.cursor = x.cursor
    BY <1>1, <1>2, <2>1 DEF Sessions
  <2> HIDE DEF y, rest
  <2>3. rest \in Todos /\ rest[1] = "graphs" /\ Same(rest, todo)
    BY <1>4, <2>1, TodosAre
  <2>4. Fits(y)
    BY <1>2, <2>2 DEF Fits
  <2>5. Half(y, rest, new)
    BY <1>2, <1>4, <2>2, <2>3 DEF Half, Same
  <2>6. rest # <<"log">> /\ rest # <<"graph">> /\ todo # <<"graph">>
    BY <1>4, <2>3
  <2>7. QED BY <1>3, <1>4, <2>2, <2>3, <2>4, <2>5, <2>6 DEF y, rest
<1>5. CASE todo[1] = "graphs"
  <2>1. y = [x EXCEPT !.graphs = new.graphs] /\ rest = Tail(todo)
    BY <1>3, <1>5 DEF Stored, RestOf
  <2>2. /\ y \in Sessions /\ y.name = x.name /\ y.new = x.new /\ y.recipe = x.recipe
        /\ y.cursor = x.cursor /\ y.graphs = new.graphs
    BY <1>1, <1>2, <2>1 DEF Sessions
  <2> HIDE DEF y, rest
  <2>3. rest \in Todos /\ rest[1] \in {"cursor", "write"} /\ Same(rest, todo)
    BY <1>5, <2>1, TodosAre
  <2>4. Fits(y)
    BY <2>2 DEF Fits
  <2>5. Half(y, rest, new)
    BY <1>2, <1>5, <2>2, <2>3 DEF Half, Same
  <2>6. rest # <<"log">> /\ rest # <<"graph">> /\ todo # <<"graph">>
    BY <1>5, <2>3
  <2>7. QED BY <1>3, <1>5, <2>2, <2>3, <2>4, <2>5, <2>6 DEF y, rest
<1>6. CASE todo[1] = "cursor"
  <2>1. y = [x EXCEPT !.cursor = new.cursor] /\ rest = Tail(todo)
    BY <1>3, <1>6 DEF Stored, RestOf
  <2>2. /\ y \in Sessions /\ y.name = x.name /\ y.new = x.new /\ y.recipe = x.recipe
        /\ y.cursor = new.cursor /\ y.graphs = x.graphs
    BY <1>1, <1>2, <2>1 DEF Sessions
  <2> HIDE DEF y, rest
  <2>3. rest \in Todos /\ rest[1] = "write" /\ rest \notin ToCursor /\ (rest \in ToLog <=> todo \in ToLog)
    BY <1>6, <2>1, TodosAre
  <2>4. x.recipe = new.recipe /\ x.graphs = new.graphs /\ (todo \in ToLog => new.cursor >= 1)
    BY <1>6 DEF Half
  <2>5. Fits(y)
    BY <1>2, <2>2, <2>4 DEF Fits
  <2>6. Half(y, rest, new)
    BY <1>2, <2>2, <2>3, <2>4 DEF Half
  <2>7. rest # <<"log">> /\ rest # <<"graph">> /\ todo # <<"graph">>
    BY <1>6, <2>3
  <2>8. QED BY <1>3, <1>6, <2>2, <2>3, <2>5, <2>6, <2>7 DEF y, rest
<1>7. CASE todo[1] = "write"
  <2>1. y = x /\ rest = Tail(todo)
    BY <1>3, <1>7 DEF Stored, RestOf
  <2> HIDE DEF y, rest
  <2>2. /\ todo \notin ToCursor
        /\ \/ todo \in ToLog /\ rest = <<"log">>
           \/ todo \notin ToLog /\ rest = <<>>
    <3>1. /\ todo \notin ToCursor
          /\ \/ todo \notin ToLog /\ Tail(todo) = <<>>
             \/ todo \in ToLog /\ Tail(todo) = <<"log">>
      BY <1>7, TodosAre
    <3>2. QED BY <2>1, <3>1
  <2>3. x.recipe = new.recipe /\ x.graphs = new.graphs /\ x.cursor = new.cursor
    BY <1>7, <2>2 DEF Half
  <2>4. Good(x)
    BY <1>2, <2>3 DEF Good
  <2>5. rest = <<"log">> => x.cursor >= 1
    <3>1. rest = <<"log">> => todo \in ToLog
      BY <2>2
    <3>2. QED BY <2>3, <3>1 DEF Half
  <2>6. todo # <<"graph">>
    BY <1>7
  <2>7. QED BY <1>3, <1>7, <2>1, <2>2, <2>4, <2>5, <2>6 DEF y, rest
<1>8. CASE todo[1] = "graph"
  <2> DEFINE v == new.graphs[Len(x.graphs) + 1]
  <2>1. y = [x EXCEPT !.graphs = Append(x.graphs, v)]
    BY <1>3, <1>8 DEF Stored
  <2>2. /\ 1 <= Len(x.graphs) /\ Len(x.graphs) < Len(new.graphs) /\ x.recipe = new.recipe
        /\ \A i \in 1 .. Len(x.graphs) : x.graphs[i] = new.graphs[i]
    BY <1>8 DEF Half
  <2>3. v \in Recipes /\ Len(x.graphs) \in Nat /\ Len(new.graphs) \in Nat
    BY <1>1, <1>2, <2>2
  <2>4. /\ Append(x.graphs, v) \in Seq(Recipes) /\ Len(Append(x.graphs, v)) = Len(x.graphs) + 1
        /\ \A i \in 1 .. Len(x.graphs) + 1 : Append(x.graphs, v)[i] = new.graphs[i]
    <3>1. /\ Append(x.graphs, v) \in Seq(Recipes) /\ Len(Append(x.graphs, v)) = Len(x.graphs) + 1
          /\ Append(x.graphs, v)[Len(x.graphs) + 1] = v
          /\ \A i \in 1 .. Len(x.graphs) : Append(x.graphs, v)[i] = x.graphs[i]
      <4> HIDE DEF v
      <4> QED BY <1>1, <2>3, AppendProperties
    <3>2. QED BY <2>2, <2>3, <3>1
  <2>5. /\ y \in Sessions /\ y.name = x.name /\ y.new = x.new /\ y.recipe = x.recipe
        /\ y.cursor = x.cursor /\ y.graphs = Append(x.graphs, v)
    BY <1>1, <2>1, <2>4 DEF Sessions
  <2>6. /\ todo \notin ToLog
        /\ \/ todo = <<"graph">> /\ todo \notin ToCursor /\ Tail(todo) = <<>>
           \/ todo \in ToCursor /\ Tail(todo) \in Todos /\ Tail(todo)[1] = "cursor" /\ Same(Tail(todo), todo)
    BY <1>8, TodosAre
  <2>7. rest = IF Len(y.graphs) < Len(new.graphs) THEN todo ELSE Tail(todo)
    BY <1>3, <1>8 DEF RestOf
  <2> HIDE DEF y, rest, v
  <2>8. Fits(y)
    BY <2>5 DEF Fits
  <2>9. CASE Len(y.graphs) < Len(new.graphs)
    <3>1. Half(y, todo, new)
      BY <1>2, <1>8, <2>2, <2>3, <2>4, <2>5, <2>6, <2>9 DEF Half
    <3>2. rest = todo /\ todo # <<"log">>
      BY <1>8, <2>7, <2>9
    <3>3. QED BY <1>3, <1>8, <2>5, <2>8, <3>1, <3>2 DEF y, rest
  <2>10. CASE ~(Len(y.graphs) < Len(new.graphs))
    <3>1. Len(y.graphs) = Len(new.graphs) /\ \A i \in 1 .. Len(new.graphs) : y.graphs[i] = new.graphs[i]
      BY <2>2, <2>3, <2>4, <2>5, <2>10
    <3>2. y.graphs = new.graphs
      BY <1>2, <2>4, <2>5, <3>1, SeqEqual
    <3>3. rest = Tail(todo)
      BY <2>7, <2>10
    <3>4. CASE todo = <<"graph">> /\ todo \notin ToCursor /\ Tail(todo) = <<>>
      <4>1. y.recipe = new.recipe /\ y.cursor = new.cursor
        BY <2>2, <2>5, <3>4 DEF Half
      <4>2. Good(y)
        BY <1>2, <3>2, <4>1 DEF Good
      <4>3. rest = <<>> /\ rest # <<"log">>
        BY <3>3, <3>4
      <4>4. QED BY <1>3, <1>8, <2>5, <2>8, <3>4, <4>2, <4>3 DEF y, rest
    <3>5. CASE todo \in ToCursor /\ Tail(todo) \in Todos /\ Tail(todo)[1] = "cursor" /\ Same(Tail(todo), todo)
      <4>1. Half(y, rest, new)
        BY <1>2, <2>2, <2>5, <2>6, <3>2, <3>3, <3>5 DEF Half, Same
      <4>2. rest # <<"log">> /\ rest # <<"graph">> /\ todo # <<"graph">>
        <5>1. <<"graph">> \notin ToCursor
          BY DEF ToCursor, ToLog
        <5>2. <<"graph">>[1] = "graph" /\ <<"log">>[1] = "log"
          OBVIOUS
        <5>3. rest[1] = "cursor" /\ todo \in ToCursor
          BY <3>3, <3>5
        <5>4. todo # <<"graph">>
          BY <5>1, <5>3
        <5>5. QED BY <5>2, <5>3, <5>4
      <4>3. QED BY <1>3, <1>8, <2>5, <2>8, <3>3, <3>5, <4>1, <4>2 DEF y, rest
    <3>6. QED BY <2>6, <3>4, <3>5
  <2>11. QED BY <2>9, <2>10
<1>9. QED BY <1>4, <1>5, <1>6, <1>7, <1>8, TodosAre

-----------------------------------------------------------------------------
(* Reading.                                                                *)

LEMMA ViewAt ==
  /\ Len(View) = 10 /\ Len(Log) = 2 /\ Len(Summary) = 4
  /\ \A p \in {"n", "replayed", "name", "graph", "estimate", "params", "steps", "marks", "diff", "checks"} :
       \E i \in 1 .. 10 : View[i] = p
  /\ \A i, j \in 1 .. 10 : View[i] = View[j] => i = j
  /\ \A i, j \in 1 .. 4 : Summary[i] = Summary[j] => i = j
<1>1. Len(View) = 10 /\ Len(Log) = 2 /\ Len(Summary) = 4
  BY DEF View, Log, Summary
<1>2. \A p \in {"n", "replayed", "name", "graph", "estimate", "params", "steps", "marks", "diff", "checks"} :
        \E i \in 1 .. 10 : View[i] = p
  BY DEF View
<1>3. \A i, j \in 1 .. 10 : View[i] = View[j] => i = j
  BY DEF View
<1>4. \A i, j \in 1 .. 4 : Summary[i] = Summary[j] => i = j
  BY DEF Summary
<1>5. QED BY <1>1, <1>2, <1>3, <1>4

LEMMA PartOfView ==
  ASSUME NEW q, q.parts = View, NEW i \in 1 .. 10
  PROVE  PartOf(q, View[i]) = q.got[i]
<1>1. DOMAIN View = 1 .. 10
  BY DEF View
<1>2. (CHOOSE j \in DOMAIN View : View[j] = View[i]) = i
  BY <1>1, ViewAt
<1>3. QED BY <1>2 DEF PartOf

LEMMA PartOfSummary ==
  ASSUME NEW q, q.parts = Summary, NEW i \in 1 .. 4
  PROVE  PartOf(q, Summary[i]) = q.got[i]
<1>1. DOMAIN Summary = 1 .. 4
  BY DEF Summary
<1>2. (CHOOSE j \in DOMAIN Summary : Summary[j] = Summary[i]) = i
  BY <1>1, ViewAt
<1>3. QED BY <1>2 DEF PartOf

LEMMA PartsAre ==
  ASSUME NEW q
  PROVE  LET s == q.s
             k == q.k
             r == sess[q.s].recipe
         IN /\ Part("n", q) = IF k > N(s) THEN Fail("404") ELSE Ok(N(s))
            /\ Part("replayed", q) = IF k > Replayed(s) THEN Fail("400") ELSE Ok(Replayed(s))
            /\ Part("name", q) = IF k > N(s) THEN Fail("404") ELSE Ok(NameOf(r.steps, k))
            /\ Part("graph", q) = IF k > Replayed(s) THEN Fail("404") ELSE Step(s, k)
            /\ Part("estimate", q) = Step(s, k) /\ Part("after", q) = Step(s, k)
            /\ Part("before", q) = Step(s, k - 1)
            /\ Part("params", q) = Ok(r.param)
            /\ Part("steps", q) = Ok(Upto(r.steps, k))
            /\ Part("marks", q) = OrLost(s, k) /\ Part("diff", q) = OrLost(s, k)
            /\ Part("checks", q) = OrLost(s, k)
            /\ Part("recipe", q) = Ok(r)
            /\ Part("cursor", q) = Ok(sess[s].cursor)
            /\ Part("size", q) = Ok(N(s))
            /\ Part("labels", q) = IF N(s) < q.got[3] THEN Fail("404") ELSE Ok(Upto(r.steps, q.got[3]))
BY DEF Part

LEMMA GotMore ==
  ASSUME NEW n, NEW q, IsReading(q, n), NEW v
  PROVE  LET m == [q EXCEPT !.got = Append(@, v)] IN
         /\ m = [kind |-> "reading", s |-> q.s, k |-> q.k, parts |-> q.parts,
                 got |-> Append(q.got, v), touched |-> q.touched]
         /\ Len(m.got) = Len(q.got) + 1 /\ Len(q.got) \in Nat /\ m.got[Len(q.got) + 1] = v
         /\ \A i \in 1 .. Len(q.got) : m.got[i] = q.got[i]
         /\ Len(q.got) + 1 # Len(q.parts) => IsReading(m, n)
<1> DEFINE m == [q EXCEPT !.got = Append(@, v)]
<1>1. m = [kind |-> "reading", s |-> q.s, k |-> q.k, parts |-> q.parts,
           got |-> Append(q.got, v), touched |-> q.touched]
  <2>1. PICK s, k, parts, got, touched :
          q = [kind |-> "reading", s |-> s, k |-> k, parts |-> parts, got |-> got, touched |-> touched]
    BY DEF IsReading
  <2>2. q.s = s /\ q.k = k /\ q.parts = parts /\ q.got = got /\ q.touched = touched
    BY <2>1
  <2>3. m = [kind |-> "reading", s |-> s, k |-> k, parts |-> parts, got |-> Append(q.got, v), touched |-> touched]
    BY <2>1, <2>2
  <2>4. QED BY <2>2, <2>3
<1>2. PICK S : q.got \in Seq(S)
  BY DEF IsReading
<1>3. q.got \in Seq(S \cup {v})
  BY <1>2
<1>4. /\ Append(q.got, v) \in Seq(S \cup {v}) /\ Len(Append(q.got, v)) = Len(q.got) + 1 /\ Len(q.got) \in Nat
      /\ Append(q.got, v)[Len(q.got) + 1] = v /\ \A i \in 1 .. Len(q.got) : Append(q.got, v)[i] = q.got[i]
  BY <1>3, AppendProperties
<1> HIDE DEF m
<1>5. Len(q.parts) \in Nat /\ Len(q.got) < Len(q.parts)
  BY ViewAt DEF IsReading
<1>6. ASSUME Len(q.got) + 1 # Len(q.parts) PROVE IsReading(m, n)
  BY <1>1, <1>4, <1>5, <1>6 DEF IsReading
<1>7. QED BY <1>1, <1>4, <1>6 DEF m

(* The next part of an untouched page: still what the session holds; the   *)
(* last one, under the lock, shows that all are of one graph.              *)
LEMMA ReadView ==
  ASSUME sess \in Seq(Sessions), NEW q, IsReading(q, Len(sess)), q.parts = View,
         ViewHolds(sess[q.s], q),
         LET p == q.parts[Len(q.got) + 1] IN p \in Locked => Good(sess[q.s])
  PROVE  LET a == Part(q.parts[Len(q.got) + 1], q)
             m == [q EXCEPT !.got = Append(@, a.value)]
         IN /\ a.how \in {"ok", "400"}
            /\ a.how = "ok" => ViewHolds(sess[q.s], m)
            /\ (a.how = "ok" /\ Len(m.got) = Len(q.parts)) => OneStep(m)
<1> DEFINE x == sess[q.s]
           k == q.k
           n == Len(q.got)
           g == x.graphs[k + 1]
           a == Part(q.parts[n + 1], q)
           m == [q EXCEPT !.got = Append(@, a.value)]
<1>1. /\ x \in Sessions /\ x.recipe \in Recipes /\ x.recipe.steps \in Seq(Kinds) /\ x.graphs \in Seq(Recipes)
      /\ N(q.s) = Len(x.recipe.steps) /\ Replayed(q.s) = Len(x.graphs) - 1 /\ k \in Nat
      /\ Len(x.graphs) \in Nat /\ Len(x.recipe.steps) \in Nat
  <2>1. x \in Sessions /\ k \in Nat
    BY DEF IsReading
  <2>2. x.recipe \in Recipes /\ x.graphs \in Seq(Recipes)
    BY <2>1 DEF Sessions
  <2>3. x.recipe.steps \in Seq(Kinds)
    BY <2>2 DEF Recipes
  <2>4. N(q.s) = Len(x.recipe.steps) /\ Replayed(q.s) = Len(x.graphs) - 1
    BY DEF N, Replayed
  <2> HIDE DEF x
  <2>5. QED BY <2>1, <2>2, <2>3, <2>4
<1>2. n \in 0 .. 9 /\ q.parts[n + 1] = View[n + 1]
  <2>1. n \in Nat
    BY GotMore, SMTT(20)
  <2>2. Len(q.got) < Len(q.parts)
    BY DEF IsReading
  <2>3. Len(q.parts) = 10
    BY ViewAt
  <2>4. n < 10
    BY <2>2, <2>3
  <2>5. n \in 0 .. 9
    <3> HIDE DEF n
    <3> QED BY <2>1, <2>4
  <2>6. QED BY <2>5
<1>3. /\ m.k = k /\ m.s = q.s /\ m.parts = View /\ Len(m.got) = n + 1 /\ m.got[n + 1] = a.value
      /\ \A i \in 1 .. n : m.got[i] = q.got[i]
  <2> HIDE DEF a
  <2>1. m = [kind |-> "reading", s |-> q.s, k |-> q.k, parts |-> q.parts,
             got |-> Append(q.got, a.value), touched |-> q.touched]
    BY GotMore, ZenonT(30)
  <2>2. Len(m.got) = n + 1 /\ m.got[n + 1] = a.value /\ \A i \in 1 .. n : m.got[i] = q.got[i]
    BY GotMore, SMTT(20)
  <2> HIDE DEF m
  <2>3. QED BY <2>1, <2>2
<1>4. k <= Len(x.recipe.steps) /\ (n >= 2 => k < Len(x.graphs))
  BY DEF ViewHolds
<1>5. n >= 2 => Step(q.s, k) = Ok(g) /\ OrLost(q.s, k) = Ok(g)
  BY <1>1, <1>2, <1>4 DEF Step, OrLost
<1>6. ViewHolds(x, q)
  OBVIOUS
<1> HIDE DEF x, m, a
<1>7. CASE n = 0
  <2>1. a = Part("n", q)
    BY <1>2, <1>7 DEF a, View
  <2>2. a = Ok(N(q.s))
    BY <2>1, <1>1, <1>4, PartsAre DEF x
  <2>3. a.how = "ok"
    BY <2>2 DEF Ok
  <2>4. ViewHolds(x, m)
    BY <1>3, <1>4, <1>7 DEF ViewHolds
  <2>5. QED BY <1>2, <1>3, <1>7, <2>3, <2>4, ViewAt, SMTT(20) DEF x, m, a, IsReading
<1>8. CASE n = 1
  <2>1. a = Part("replayed", q)
    BY <1>2, <1>8 DEF a, View
  <2>2. a = IF k > Replayed(q.s) THEN Fail("400") ELSE Ok(Replayed(q.s))
    BY <2>1, PartsAre
  <2>3. a.how \in {"ok", "400"} /\ (a.how = "ok" => k < Len(x.graphs))
    BY <2>2, <1>1 DEF Ok, Fail
  <2>4. a.how = "ok" => ViewHolds(x, m)
    BY <1>3, <1>4, <1>8, <2>3 DEF ViewHolds
  <2>5. QED BY <1>2, <1>3, <1>8, <2>3, <2>4, ViewAt, SMTT(20) DEF x, m, a, IsReading
<1>9. CASE n = 2
  <2>1. a = Part("name", q)
    BY <1>2, <1>9 DEF a, View
  <2>2. a = Ok(NameOf(x.recipe.steps, k))
    BY <2>1, <1>1, <1>4, <1>9, PartsAre DEF x
  <2>3. a.how = "ok" /\ a.value = NameOf(x.recipe.steps, k)
    BY <2>2 DEF Ok
  <2>4. ViewHolds(x, m)
    BY <1>3, <1>4, <1>6, <1>9, <2>3 DEF ViewHolds
  <2>5. QED BY <1>2, <1>3, <1>9, <2>3, <2>4, ViewAt, SMTT(20) DEF x, m, a, IsReading
<1>10. CASE n = 3
  <2>1. a = Part("graph", q)
    BY <1>2, <1>10 DEF a, View
  <2>2. a = Ok(g)
    BY <2>1, <1>1, <1>4, <1>5, <1>10, PartsAre DEF x
  <2>3. a.how = "ok" /\ a.value = g
    BY <2>2 DEF Ok
  <2>4. ViewHolds(x, m)
    BY <1>3, <1>4, <1>6, <1>10, <2>3 DEF ViewHolds
  <2>5. QED BY <1>2, <1>3, <1>10, <2>3, <2>4, ViewAt, SMTT(20) DEF x, m, a, IsReading
<1>11. CASE n = 4
  <2>1. a = Part("estimate", q)
    BY <1>2, <1>11 DEF a, View
  <2>2. a = Ok(g)
    BY <2>1, <1>5, <1>11, PartsAre
  <2>3. a.how = "ok" /\ a.value = g
    BY <2>2 DEF Ok
  <2>4. ViewHolds(x, m)
    BY <1>3, <1>4, <1>6, <1>11, <2>3 DEF ViewHolds
  <2>5. QED BY <1>2, <1>3, <1>11, <2>3, <2>4, ViewAt, SMTT(20) DEF x, m, a, IsReading
<1>12. CASE n = 5
  <2>1. a = Part("params", q)
    BY <1>2, <1>12 DEF a, View
  <2>2. a = Ok(x.recipe.param)
    BY <2>1, PartsAre DEF x
  <2>3. a.how = "ok" /\ a.value = x.recipe.param
    BY <2>2 DEF Ok
  <2>4. ViewHolds(x, m)
    BY <1>3, <1>4, <1>6, <1>12, <2>3 DEF ViewHolds
  <2>5. QED BY <1>2, <1>3, <1>12, <2>3, <2>4, ViewAt, SMTT(20) DEF x, m, a, IsReading
<1>13. CASE n = 6
  <2>1. a = Part("steps", q)
    BY <1>2, <1>13 DEF a, View
  <2>2. a = Ok(Upto(x.recipe.steps, k))
    BY <2>1, PartsAre DEF x
  <2>3. a.how = "ok" /\ a.value = Upto(x.recipe.steps, k)
    BY <2>2 DEF Ok
  <2>4. ViewHolds(x, m)
    BY <1>3, <1>4, <1>6, <1>13, <2>3 DEF ViewHolds
  <2>5. QED BY <1>2, <1>3, <1>13, <2>3, <2>4, ViewAt, SMTT(20) DEF x, m, a, IsReading
<1>14. CASE n = 7
  <2>1. a = Part("marks", q)
    BY <1>2, <1>14 DEF a, View
  <2>2. a = Ok(g)
    BY <2>1, <1>5, <1>14, PartsAre
  <2>3. a.how = "ok" /\ a.value = g
    BY <2>2 DEF Ok
  <2>4. ViewHolds(x, m)
    BY <1>3, <1>4, <1>6, <1>14, <2>3 DEF ViewHolds
  <2>5. QED BY <1>2, <1>3, <1>14, <2>3, <2>4, ViewAt, SMTT(20) DEF x, m, a, IsReading
<1>15. CASE n = 8
  <2>1. a = Part("diff", q)
    BY <1>2, <1>15 DEF a, View
  <2>2. a = Ok(g)
    BY <2>1, <1>5, <1>15, PartsAre
  <2>3. a.how = "ok" /\ a.value = g
    BY <2>2 DEF Ok
  <2>4. ViewHolds(x, m)
    BY <1>3, <1>4, <1>6, <1>15, <2>3 DEF ViewHolds
  <2>5. QED BY <1>2, <1>3, <1>15, <2>3, <2>4, ViewAt, SMTT(20) DEF x, m, a, IsReading
<1>16. CASE n = 9
  <2>1. a = Part("checks", q)
    BY <1>2, <1>16 DEF a, View
  <2>2. a = Ok(g)
    BY <2>1, <1>5, <1>16, PartsAre
  <2>3. a.how = "ok" /\ a.value = g
    BY <2>2 DEF Ok
  <2>4. ViewHolds(x, m)
    BY <1>3, <1>4, <1>6, <1>16, <2>3 DEF ViewHolds
  <2>5. Good(x)
    BY <1>2, <1>16 DEF Locked, View, x
  <2>6. OneStep(m)
    <3>1. g = GraphOf(x.recipe, k)
      <4>1. k + 1 \in 1 .. Len(x.graphs) /\ (k + 1) - 1 = k
        BY <1>1, <1>4, <1>16
      <4>2. \A i \in 1 .. Len(x.graphs) : x.graphs[i] = GraphOf(x.recipe, i - 1)
        BY <2>5 DEF Good
      <4>3. x.graphs[k + 1] = GraphOf(x.recipe, (k + 1) - 1)
        BY <4>1, <4>2
      <4>4. QED BY <4>1, <4>3
    <3>2. g.steps = Upto(x.recipe.steps, k) /\ g.param = x.recipe.param
      BY <1>1, <1>4, <3>1, SMTT(20) DEF GraphOf, Upto
    <3>3. NameOf(x.recipe.steps, k) = NameOf(g.steps, k)
      BY <1>1, <1>4, <3>1 DEF GraphOf, NameOf
    <3> HIDE DEF g
    <3>4. /\ m.got[3] = NameOf(x.recipe.steps, k) /\ m.got[4] = g /\ m.got[5] = g
          /\ m.got[6] = x.recipe.param /\ m.got[7] = Upto(x.recipe.steps, k)
          /\ m.got[8] = g /\ m.got[9] = g /\ m.got[10] = g
      BY <1>3, <1>16, <2>3, <2>4 DEF ViewHolds, g
    <3>5. /\ PartOf(m, "name") = m.got[3] /\ PartOf(m, "graph") = m.got[4]
          /\ PartOf(m, "estimate") = m.got[5] /\ PartOf(m, "params") = m.got[6]
          /\ PartOf(m, "steps") = m.got[7] /\ PartOf(m, "marks") = m.got[8]
          /\ PartOf(m, "diff") = m.got[9] /\ PartOf(m, "checks") = m.got[10]
      <4>1. \A i \in 1 .. 10 : PartOf(m, View[i]) = m.got[i]
        BY <1>3, PartOfView
      <4>2. /\ View[3] = "name" /\ View[4] = "graph" /\ View[5] = "estimate" /\ View[6] = "params"
            /\ View[7] = "steps" /\ View[8] = "marks" /\ View[9] = "diff" /\ View[10] = "checks"
        BY DEF View
      <4>3. QED BY <4>1, <4>2
    <3>6. QED BY <1>3, <3>2, <3>3, <3>4, <3>5 DEF OneStep
  <2>7. QED BY <2>3, <2>4, <2>6 DEF x, m, a
<1>17. QED BY <1>2, <1>7, <1>8, <1>9, <1>10, <1>11, <1>12, <1>13, <1>14, <1>15, <1>16

LEMMA ReadLog ==
  ASSUME sess \in Seq(Sessions), NEW q, IsReading(q, Len(sess)), q.parts = Log,
         LogHolds(sess[q.s], q), Fits(sess[q.s]),
         LET p == q.parts[Len(q.got) + 1] IN p \in Locked => Good(sess[q.s])
  PROVE  LET a == Part(q.parts[Len(q.got) + 1], q)
             m == [q EXCEPT !.got = Append(@, a.value)]
         IN /\ a.how = "ok" /\ LogHolds(sess[q.s], m)
            /\ Len(m.got) = Len(q.parts) => OneLog(m)
<1> DEFINE x == sess[q.s]
           k == q.k
           n == Len(q.got)
           a == Part(q.parts[n + 1], q)
           m == [q EXCEPT !.got = Append(@, a.value)]
<1>1. /\ x \in Sessions /\ x.recipe \in Recipes /\ x.recipe.steps \in Seq(Kinds) /\ x.graphs \in Seq(Recipes)
      /\ N(q.s) = Len(x.recipe.steps) /\ Replayed(q.s) = Len(x.graphs) - 1 /\ k \in Nat
      /\ Len(x.graphs) \in Nat /\ Len(x.recipe.steps) \in Nat
  <2>1. x \in Sessions /\ k \in Nat
    BY DEF IsReading
  <2>2. x.recipe \in Recipes /\ x.graphs \in Seq(Recipes)
    BY <2>1 DEF Sessions
  <2>3. x.recipe.steps \in Seq(Kinds)
    BY <2>2 DEF Recipes
  <2>4. N(q.s) = Len(x.recipe.steps) /\ Replayed(q.s) = Len(x.graphs) - 1
    BY DEF N, Replayed
  <2> HIDE DEF x
  <2>5. QED BY <2>1, <2>2, <2>3, <2>4
<1>2. n \in 0 .. 1 /\ q.parts[n + 1] = Log[n + 1]
  <2>1. n \in Nat
    BY GotMore, SMTT(20)
  <2>2. Len(q.got) < Len(q.parts)
    BY DEF IsReading
  <2>3. Len(q.parts) = 2
    BY ViewAt
  <2>4. n < 2
    BY <2>2, <2>3
  <2>5. n \in 0 .. 1
    <3> HIDE DEF n
    <3> QED BY <2>1, <2>4
  <2>6. QED BY <2>5
<1>3. /\ m.k = k /\ m.s = q.s /\ m.parts = Log /\ Len(m.got) = n + 1 /\ m.got[n + 1] = a.value
      /\ \A i \in 1 .. n : m.got[i] = q.got[i]
  <2> HIDE DEF a
  <2>1. m = [kind |-> "reading", s |-> q.s, k |-> q.k, parts |-> q.parts,
             got |-> Append(q.got, a.value), touched |-> q.touched]
    BY GotMore, ZenonT(30)
  <2>2. Len(m.got) = n + 1 /\ m.got[n + 1] = a.value /\ \A i \in 1 .. n : m.got[i] = q.got[i]
    BY GotMore, SMTT(20)
  <2> HIDE DEF m
  <2>3. QED BY <2>1, <2>2
<1>4. LogHolds(x, q) /\ Fits(x) /\ Len(q.parts) = 2
  BY ViewAt
<1> HIDE DEF x, m, a
<1>5. CASE n = 0
  <2>1. a = Part("before", q)
    BY <1>2, <1>5 DEF a, Log
  <2>2. Step(q.s, k - 1) = Ok(x.graphs[k])
    <3>1. k \in Int /\ k - 1 <= Replayed(q.s) /\ (k - 1) + 1 = k
      BY <1>1, <1>4 DEF LogHolds
    <3>2. QED BY <3>1 DEF Step, x
  <2>3. a.how = "ok" /\ a.value = x.graphs[k]
    <3>1. a = Ok(x.graphs[k])
      BY <2>1, <2>2, PartsAre
    <3>2. QED BY <3>1 DEF Ok
  <2>4. LogHolds(x, m)
    BY <1>3, <1>4, <1>5, <2>3 DEF LogHolds
  <2>5. Len(m.got) # Len(q.parts)
    BY <1>3, <1>4, <1>5
  <2>6. QED BY <2>3, <2>4, <2>5 DEF x, m, a
<1>6. CASE n = 1
  <2> DEFINE g == x.graphs[k + 1]
             steps == x.recipe.steps
  <2>1. a = Part("after", q)
    BY <1>2, <1>6 DEF a, Log
  <2>2. Step(q.s, k) = Ok(g) /\ k \in 1 .. Len(steps) /\ k + 1 <= Len(x.graphs)
    <3>1. k \in 1 .. Len(steps) /\ k <= Replayed(q.s) /\ k + 1 <= Len(x.graphs)
      BY <1>1, <1>4 DEF LogHolds
    <3>2. QED BY <3>1 DEF Step, x
  <2>3. a.how = "ok" /\ a.value = g
    <3>1. a = Ok(g)
      BY <2>1, <2>2, PartsAre
    <3>2. QED BY <3>1 DEF Ok
  <2>4. LogHolds(x, m)
    BY <1>3, <1>4, <1>6, <2>3 DEF LogHolds
  <2>5. Good(x)
    BY <1>2, <1>6 DEF Locked, Log, x
  <2>6. g = GraphOf(x.recipe, k) /\ x.graphs[k] = GraphOf(x.recipe, k - 1)
    <3>1. \A i \in 1 .. Len(x.graphs) : x.graphs[i] = GraphOf(x.recipe, i - 1)
      BY <2>5 DEF Good
    <3>2. k + 1 \in 1 .. Len(x.graphs) /\ k \in 1 .. Len(x.graphs) /\ (k + 1) - 1 = k
      BY <1>1, <2>2
    <3>3. x.graphs[k + 1] = GraphOf(x.recipe, (k + 1) - 1) /\ x.graphs[k] = GraphOf(x.recipe, k - 1)
      BY <3>1, <3>2
    <3>4. QED BY <3>2, <3>3
  <2>7. m.got[2] = g /\ m.got[1] = x.graphs[k]
    BY <1>3, <1>6, <2>3, <2>4 DEF LogHolds
  <2>8. g.steps = SubSeq(steps, 1, k) /\ g.param = x.recipe.param
    <3>1. GraphOf(x.recipe, k).steps = SubSeq(steps, 1, k) /\ GraphOf(x.recipe, k).param = x.recipe.param
      BY DEF GraphOf
    <3>2. QED BY <2>6, <3>1
  <2>9. g.steps # <<"none">>
    <3>1. g.steps[1] = steps[1] /\ steps[1] \in Kinds
      BY <1>1, <2>2, <2>8
    <3>2. <<"none">>[1] = "none"
      OBVIOUS
    <3> HIDE DEF g
    <3>3. QED BY <3>1, <3>2, EditorAssumption
  <2>10. SubSeq(g.steps, 1, k - 1) = SubSeq(steps, 1, k - 1)
    <3>1. SubSeq(SubSeq(steps, 1, k), 1, k - 1) = SubSeq(steps, 1, k - 1)
      <4> HIDE DEF steps
      <4> QED BY <1>1, <2>2 DEF steps
    <3>2. QED BY <2>8, <3>1
  <2> HIDE DEF g
  <2>11. OneLog(m)
    BY <1>3, <2>6, <2>7, <2>8, <2>9, <2>10 DEF OneLog, GraphOf
  <2>12. QED BY <2>3, <2>4, <2>11 DEF x, m, a
<1>7. QED BY <1>2, <1>5, <1>6

LEMMA ReadSummary ==
  ASSUME sess \in Seq(Sessions), NEW q, IsReading(q, Len(sess)), q.parts = Summary,
         SummaryHolds(sess[q.s], q), Fits(sess[q.s]),
         LET p == q.parts[Len(q.got) + 1] IN p \in Locked => Good(sess[q.s])
  PROVE  LET a == Part(q.parts[Len(q.got) + 1], q)
             m == [q EXCEPT !.got = Append(@, a.value)]
         IN /\ a.how = "ok" /\ SummaryHolds(sess[q.s], m)
            /\ Len(m.got) = Len(q.parts) => OneRecipe(m)
<1> DEFINE x == sess[q.s]
           k == q.k
           n == Len(q.got)
           a == Part(q.parts[n + 1], q)
           m == [q EXCEPT !.got = Append(@, a.value)]
<1>1. /\ x \in Sessions /\ x.recipe \in Recipes /\ x.recipe.steps \in Seq(Kinds) /\ x.graphs \in Seq(Recipes)
      /\ N(q.s) = Len(x.recipe.steps) /\ Replayed(q.s) = Len(x.graphs) - 1 /\ k \in Nat
      /\ Len(x.graphs) \in Nat /\ Len(x.recipe.steps) \in Nat
  <2>1. x \in Sessions /\ k \in Nat
    BY DEF IsReading
  <2>2. x.recipe \in Recipes /\ x.graphs \in Seq(Recipes)
    BY <2>1 DEF Sessions
  <2>3. x.recipe.steps \in Seq(Kinds)
    BY <2>2 DEF Recipes
  <2>4. N(q.s) = Len(x.recipe.steps) /\ Replayed(q.s) = Len(x.graphs) - 1
    BY DEF N, Replayed
  <2> HIDE DEF x
  <2>5. QED BY <2>1, <2>2, <2>3, <2>4
<1>2. n \in 0 .. 3 /\ q.parts[n + 1] = Summary[n + 1]
  <2>1. n \in Nat
    BY GotMore, SMTT(20)
  <2>2. Len(q.got) < Len(q.parts)
    BY DEF IsReading
  <2>3. Len(q.parts) = 4
    BY ViewAt
  <2>4. n < 4
    BY <2>2, <2>3
  <2>5. n \in 0 .. 3
    <3> HIDE DEF n
    <3> QED BY <2>1, <2>4
  <2>6. QED BY <2>5
<1>3. /\ m.k = k /\ m.s = q.s /\ m.parts = Summary /\ Len(m.got) = n + 1 /\ m.got[n + 1] = a.value
      /\ \A i \in 1 .. n : m.got[i] = q.got[i]
  <2> HIDE DEF a
  <2>1. m = [kind |-> "reading", s |-> q.s, k |-> q.k, parts |-> q.parts,
             got |-> Append(q.got, a.value), touched |-> q.touched]
    BY GotMore, ZenonT(30)
  <2>2. Len(m.got) = n + 1 /\ m.got[n + 1] = a.value /\ \A i \in 1 .. n : m.got[i] = q.got[i]
    BY GotMore, SMTT(20)
  <2> HIDE DEF m
  <2>3. QED BY <2>1, <2>2
<1>4. SummaryHolds(x, q) /\ Fits(x) /\ Len(q.parts) = 4
  BY ViewAt
<1> HIDE DEF x, m, a
<1>5. CASE n = 0
  <2>1. a = Part("recipe", q)
    BY <1>2, <1>5 DEF a, Summary
  <2>2. a = Ok(x.recipe)
    BY <2>1, <1>1, PartsAre DEF x
  <2>3. a.how = "ok" /\ a.value = x.recipe
    BY <2>2 DEF Ok
  <2>4. SummaryHolds(x, m)
    BY <1>3, <1>4, <1>5, <2>3 DEF SummaryHolds
  <2>5. Len(m.got) # Len(q.parts)
    BY <1>3, <1>4, <1>5
  <2>6. QED BY <2>3, <2>4, <2>5 DEF x, m, a
<1>6. CASE n = 1
  <2>1. a = Part("cursor", q)
    BY <1>2, <1>6 DEF a, Summary
  <2>2. a = Ok(x.cursor)
    BY <2>1, <1>1, PartsAre DEF x
  <2>3. a.how = "ok" /\ a.value = x.cursor
    BY <2>2 DEF Ok
  <2>4. SummaryHolds(x, m)
    BY <1>3, <1>4, <1>6, <2>3 DEF SummaryHolds
  <2>5. Len(m.got) # Len(q.parts)
    BY <1>3, <1>4, <1>6
  <2>6. QED BY <2>3, <2>4, <2>5 DEF x, m, a
<1>7. CASE n = 2
  <2>1. a = Part("size", q)
    BY <1>2, <1>7 DEF a, Summary
  <2>2. a = Ok(Len(x.recipe.steps))
    BY <2>1, <1>1, PartsAre DEF x
  <2>3. a.how = "ok" /\ a.value = Len(x.recipe.steps)
    BY <2>2 DEF Ok
  <2>4. SummaryHolds(x, m)
    BY <1>3, <1>4, <1>7, <2>3 DEF SummaryHolds
  <2>5. Len(m.got) # Len(q.parts)
    BY <1>3, <1>4, <1>7
  <2>6. QED BY <2>3, <2>4, <2>5 DEF x, m, a
<1>8. CASE n = 3
  <2> DEFINE steps == x.recipe.steps
  <2>1. a = Part("labels", q)
    BY <1>2, <1>8 DEF a, Summary
  <2>2. q.got[1] = x.recipe /\ q.got[2] = x.cursor /\ q.got[3] = Len(steps)
    BY <1>4, <1>8 DEF SummaryHolds
  <2>3. Upto(steps, Len(steps)) = steps
    BY <1>1 DEF Upto
  <2>4. a = Ok(steps)
    <3>1. a = IF N(q.s) < q.got[3] THEN Fail("404") ELSE Ok(Upto(x.recipe.steps, q.got[3]))
      BY <2>1, PartsAre DEF x
    <3>2. QED BY <1>1, <2>2, <2>3, <3>1
  <2>5. a.how = "ok" /\ a.value = steps
    BY <2>4 DEF Ok
  <2>6. SummaryHolds(x, m)
    BY <1>3, <1>4, <1>8 DEF SummaryHolds
  <2>7. m.got[1] = x.recipe /\ m.got[2] = x.cursor /\ m.got[3] = Len(steps) /\ m.got[4] = steps
    BY <1>3, <1>8, <2>2, <2>5
  <2>8. /\ PartOf(m, "recipe") = m.got[1] /\ PartOf(m, "cursor") = m.got[2]
        /\ PartOf(m, "size") = m.got[3] /\ PartOf(m, "labels") = m.got[4]
    <3>1. \A i \in 1 .. 4 : PartOf(m, Summary[i]) = m.got[i]
      BY <1>3, PartOfSummary
    <3>2. Summary[1] = "recipe" /\ Summary[2] = "cursor" /\ Summary[3] = "size" /\ Summary[4] = "labels"
      BY DEF Summary
    <3>3. QED BY <3>1, <3>2
  <2>9. OneRecipe(m)
    BY <1>4, <2>7, <2>8 DEF OneRecipe, Fits
  <2>10. QED BY <2>5, <2>6, <2>9 DEF x, m, a
<1>9. QED BY <1>2, <1>5, <1>6, <1>7, <1>8

LEMMA PartHow ==
  ASSUME NEW n, NEW q, IsReading(q, n)
  PROVE  Part(q.parts[Len(q.got) + 1], q).how \in {"ok", "404", "400", "lost"}
<1> DEFINE p == q.parts[Len(q.got) + 1]
<1>1. p \in {"n", "replayed", "name", "graph", "estimate", "params", "steps", "marks", "diff", "checks",
             "before", "after", "recipe", "cursor", "size", "labels"}
  <2>1. Len(q.got) \in Nat /\ Len(q.got) < Len(q.parts)
    BY GotMore DEF IsReading
  <2>2. CASE q.parts = View
    <3>1. \A i \in 1 .. 10 : View[i] \in {"n", "replayed", "name", "graph", "estimate", "params", "steps", "marks", "diff", "checks"}
      BY DEF View
    <3>2. Len(q.parts) = 10
      BY <2>2, ViewAt
    <3>3. QED BY <2>1, <2>2, <3>1, <3>2
  <2>3. CASE q.parts = Log
    <3>1. \A i \in 1 .. 2 : Log[i] \in {"before", "after"}
      BY DEF Log
    <3>2. Len(q.parts) = 2
      BY <2>3, ViewAt
    <3>3. QED BY <2>1, <2>3, <3>1, <3>2
  <2>4. CASE q.parts = Summary
    <3>1. \A i \in 1 .. 4 : Summary[i] \in {"recipe", "cursor", "size", "labels"}
      BY DEF Summary
    <3>2. Len(q.parts) = 4
      BY <2>4, ViewAt
    <3>3. QED BY <2>1, <2>4, <3>1, <3>2
  <2>5. QED BY <2>2, <2>3, <2>4 DEF IsReading
<1>2. \A v : Ok(v).how = "ok"
  BY DEF Ok
<1>3. Fail("404").how = "404" /\ Fail("400").how = "400" /\ Fail("lost").how = "lost"
  BY DEF Fail
<1>4. \A k : Step(q.s, k).how = "ok" /\ OrLost(q.s, k).how \in {"ok", "lost"}
  BY <1>2, <1>3 DEF Step, OrLost
<1> HIDE DEF p
<1>5. Part(p, q).how \in {"ok", "404", "400", "lost"}
  <2> DEFINE hows == {"ok", "404", "400", "lost"}
  <2>1. Part("n", q).how \in hows /\ Part("replayed", q).how \in hows
    <3>1. Part("n", q) \in {Fail("404"), Ok(N(q.s))}
      BY PartsAre
    <3>2. Part("replayed", q) \in {Fail("400"), Ok(Replayed(q.s))}
      BY PartsAre
    <3>3. QED BY <3>1, <3>2, <1>2, <1>3
  <2>2. Part("name", q).how \in hows /\ Part("graph", q).how \in hows
    <3>1. Part("name", q) \in {Fail("404"), Ok(NameOf(sess[q.s].recipe.steps, q.k))}
      BY PartsAre
    <3>2. Part("graph", q) \in {Fail("404"), Step(q.s, q.k)}
      BY PartsAre
    <3>3. QED BY <3>1, <3>2, <1>2, <1>3, <1>4
  <2>3. Part("estimate", q).how \in hows /\ Part("after", q).how \in hows /\ Part("before", q).how \in hows
    <3>1. Part("estimate", q) = Step(q.s, q.k) /\ Part("after", q) = Step(q.s, q.k)
      BY PartsAre
    <3>2. Part("before", q) = Step(q.s, q.k - 1)
      BY PartsAre
    <3>3. QED BY <3>1, <3>2, <1>4
  <2>4. Part("marks", q).how \in hows /\ Part("diff", q).how \in hows /\ Part("checks", q).how \in hows
    <3>1. /\ Part("marks", q) = OrLost(q.s, q.k) /\ Part("diff", q) = OrLost(q.s, q.k)
          /\ Part("checks", q) = OrLost(q.s, q.k)
      BY PartsAre
    <3>2. QED BY <3>1, <1>4
  <2>5. Part("params", q).how \in hows /\ Part("steps", q).how \in hows /\ Part("recipe", q).how \in hows
    <3>1. /\ Part("params", q) = Ok(sess[q.s].recipe.param) /\ Part("recipe", q) = Ok(sess[q.s].recipe)
          /\ Part("steps", q) = Ok(Upto(sess[q.s].recipe.steps, q.k))
      BY PartsAre
    <3>2. QED BY <3>1, <1>2
  <2>6. Part("cursor", q).how \in hows /\ Part("size", q).how \in hows
    <3>1. Part("cursor", q) = Ok(sess[q.s].cursor) /\ Part("size", q) = Ok(N(q.s))
      BY PartsAre
    <3>2. QED BY <3>1, <1>2
  <2>7. Part("labels", q).how \in hows
    <3>1. Part("labels", q) \in {Fail("404"), Ok(Upto(sess[q.s].recipe.steps, q.got[3]))}
      BY PartsAre
    <3>2. QED BY <3>1, <1>2, <1>3
  <2> HIDE DEF hows
  <2>8. Part(p, q).how \in hows
    BY <1>1, <2>1, <2>2, <2>3, <2>4, <2>5, <2>6, <2>7
  <2>9. QED BY <2>8 DEF hows
<1>6. QED BY <1>5 DEF p

LEMMA UptoIs ==
  ASSUME NEW S, NEW v \in Seq(S), NEW k \in Nat
  PROVE  /\ Len(Upto(v, k)) = IF k < Len(v) THEN k ELSE Len(v)
         /\ \A i \in 1 .. k : i <= Len(v) => Upto(v, k)[i] = v[i]
         /\ Len(v) <= k => Upto(v, k) = v
<1> DEFINE m == IF k < Len(v) THEN k ELSE Len(v)
<1>1. m \in 0 .. Len(v) /\ Len(v) \in Nat
  OBVIOUS
<1>2. Upto(v, k) = SubSeq(v, 1, m)
  BY DEF Upto
<1>3. Len(SubSeq(v, 1, m)) = m /\ \A i \in 1 .. m : SubSeq(v, 1, m)[i] = v[i]
  <2> HIDE DEF m
  <2> QED BY <1>1
<1>4. Len(v) <= k => m = Len(v)
  BY <1>1
<1>5. SubSeq(v, 1, Len(v)) = v
  OBVIOUS
<1>6. QED BY <1>1, <1>2, <1>3, <1>4, <1>5

(* What a store leaves alone of a page stays right.                        *)
LEMMA StillHolds ==
  ASSUME NEW x \in Sessions, NEW y \in Sessions, Fits(x), Fits(y), NEW n, NEW q, IsReading(q, n),
         Holds(x, q), ~Changed(x, y, q)
  PROVE  Holds(y, q)
<1>1. /\ x.recipe.steps \in Seq(Kinds) /\ y.recipe.steps \in Seq(Kinds) /\ q.k \in Nat
      /\ x.graphs \in Seq(Recipes) /\ y.graphs \in Seq(Recipes)
      /\ Len(x.recipe.steps) \in Nat /\ Len(y.recipe.steps) \in Nat
      /\ Len(x.graphs) \in Nat /\ Len(y.graphs) \in Nat
  <2>1. x.recipe \in Recipes /\ y.recipe \in Recipes /\ q.k \in Nat /\ x.graphs \in Seq(Recipes) /\ y.graphs \in Seq(Recipes)
    BY DEF Sessions, IsReading
  <2>2. x.recipe.steps \in Seq(Kinds) /\ y.recipe.steps \in Seq(Kinds)
    BY <2>1 DEF Recipes
  <2>3. QED BY <2>1, <2>2
<1>2. Upto(x.recipe.steps, q.k) = Upto(y.recipe.steps, q.k) /\ x.recipe.param = y.recipe.param
  BY DEF Changed
<1>3. ASSUME q.parts # Summary
      PROVE  /\ q.k < Len(x.graphs) => q.k < Len(y.graphs) /\ y.graphs[q.k + 1] = x.graphs[q.k + 1]
             /\ (q.k \in 1 .. Len(x.graphs) /\ q.k < Len(x.graphs)) => y.graphs[q.k] = x.graphs[q.k]
  <2> DEFINE u == Upto(x.graphs, q.k + 1)
             w == Upto(y.graphs, q.k + 1)
  <2>1. u = w
    BY <1>3 DEF Changed
  <2>2. /\ Len(u) = IF q.k + 1 < Len(x.graphs) THEN q.k + 1 ELSE Len(x.graphs)
        /\ \A i \in 1 .. q.k + 1 : i <= Len(x.graphs) => u[i] = x.graphs[i]
    BY <1>1, UptoIs
  <2>3. /\ Len(w) = IF q.k + 1 < Len(y.graphs) THEN q.k + 1 ELSE Len(y.graphs)
        /\ \A i \in 1 .. q.k + 1 : i <= Len(y.graphs) => w[i] = y.graphs[i]
    BY <1>1, UptoIs
  <2> HIDE DEF u, w
  <2>4. q.k < Len(x.graphs) => q.k < Len(y.graphs)
    BY <1>1, <2>1, <2>2, <2>3
  <2>5. \A i \in 1 .. q.k + 1 : (i <= Len(x.graphs) /\ i <= Len(y.graphs)) => x.graphs[i] = y.graphs[i]
    BY <2>1, <2>2, <2>3
  <2>6. q.k < Len(x.graphs) => x.graphs[q.k + 1] = y.graphs[q.k + 1]
    <3>1. q.k + 1 \in 1 .. q.k + 1 /\ (q.k < Len(x.graphs) => q.k + 1 <= Len(x.graphs) /\ q.k + 1 <= Len(y.graphs))
      BY <1>1, <2>4
    <3>2. QED BY <2>5, <3>1
  <2>7. (q.k \in 1 .. Len(x.graphs) /\ q.k < Len(x.graphs)) => x.graphs[q.k] = y.graphs[q.k]
    <3>1. (q.k \in 1 .. Len(x.graphs) /\ q.k < Len(x.graphs)) =>
            q.k \in 1 .. q.k + 1 /\ q.k <= Len(x.graphs) /\ q.k <= Len(y.graphs)
      BY <1>1, <2>4
    <3>2. QED BY <2>5, <3>1
  <2>8. QED BY <2>4, <2>6, <2>7
<1>4. q.k <= Len(x.recipe.steps) =>
        /\ q.k <= Len(y.recipe.steps) /\ NameOf(x.recipe.steps, q.k) = NameOf(y.recipe.steps, q.k)
  <2> DEFINE u == Upto(x.recipe.steps, q.k)
             w == Upto(y.recipe.steps, q.k)
  <2>1. /\ Len(u) = IF q.k < Len(x.recipe.steps) THEN q.k ELSE Len(x.recipe.steps)
        /\ \A i \in 1 .. q.k : i <= Len(x.recipe.steps) => u[i] = x.recipe.steps[i]
    BY <1>1, UptoIs
  <2>2. /\ Len(w) = IF q.k < Len(y.recipe.steps) THEN q.k ELSE Len(y.recipe.steps)
        /\ \A i \in 1 .. q.k : i <= Len(y.recipe.steps) => w[i] = y.recipe.steps[i]
    BY <1>1, UptoIs
  <2>3. u = w
    BY <1>2
  <2> HIDE DEF u, w
  <2>4. q.k <= Len(x.recipe.steps) => q.k <= Len(y.recipe.steps)
    BY <1>1, <2>1, <2>2, <2>3
  <2>5. ASSUME q.k <= Len(x.recipe.steps), q.k # 0 PROVE x.recipe.steps[q.k] = y.recipe.steps[q.k]
    BY <1>1, <2>1, <2>2, <2>3, <2>4, <2>5, SMTT(20)
  <2>6. QED BY <2>4, <2>5 DEF NameOf
<1>5. CASE q.parts = View
  <2>1. ViewHolds(x, q) /\ q.parts # Summary /\ q.parts # Log
    BY <1>5, ViewAt DEF Holds
  <2>2. ViewHolds(y, q)
    BY <1>2, <1>3, <1>4, <2>1 DEF ViewHolds
  <2>3. QED BY <2>1, <2>2 DEF Holds
<1>6. CASE q.parts = Log
  <2>1. LogHolds(x, q) /\ q.parts # Summary /\ q.parts # View
    BY <1>6, ViewAt DEF Holds
  <2>2. LogHolds(y, q)
    BY <1>1, <1>3, <1>4, <2>1 DEF LogHolds
  <2>3. QED BY <2>1, <2>2 DEF Holds
<1>7. CASE q.parts = Summary
  <2>1. SummaryHolds(x, q) /\ q.parts # Log /\ q.parts # View /\ q.k = Length
    <3>1. Summary # Log /\ Summary # View
      BY ViewAt
    <3>2. SummaryHolds(x, q)
      BY <1>7 DEF Holds
    <3>3. q.k = Length
      BY <3>2 DEF SummaryHolds
    <3>4. QED BY <1>7, <3>1, <3>2, <3>3
  <2>2. x.recipe.steps = y.recipe.steps
    BY <1>1, <1>2, <2>1, UptoIs DEF Fits
  <2>3. x.recipe = y.recipe
    <3>1. x.recipe \in Recipes /\ y.recipe \in Recipes
      BY DEF Sessions
    <3>2. QED BY <1>2, <2>2, <3>1 DEF Recipes
  <2>4. x.cursor = y.cursor
    BY <1>7 DEF Changed
  <2>5. SummaryHolds(y, q)
    BY <2>1, <2>3, <2>4 DEF SummaryHolds
  <2>6. QED BY <2>1, <2>5 DEF Holds
<1>8. QED BY <1>5, <1>6, <1>7 DEF IsReading

-----------------------------------------------------------------------------
(* The steps, one request at a time.                                       *)

LEMMA OneRequest ==
  ASSUME RequestsOK, UNCHANGED <<sess, lock>>, NEW t \in Threads, NEW q,
         req' = [req EXCEPT ![t] = q], RequestOK(t, q, sess, lock)
  PROVE  RequestsOK'
<1>1. req' = [u \in Threads |-> IF u = t THEN q ELSE req[u]]
  BY DEF RequestsOK
<1>2. \A u \in Threads : RequestOK(u, req'[u], sess, lock)
  BY <1>1 DEF RequestsOK
<1>3. QED BY <1>1, <1>2 DEF RequestsOK

LEMMA Others ==
  ASSUME SessionsOK, UNCHANGED <<sess, lock, open>>
  PROVE  SessionsOK'
BY DEF SessionsOK

LEMMA OtherFolders ==
  ASSUME DiskOK, UNCHANGED disk
  PROVE  DiskOK'
BY DEF DiskOK, Folders

LEMMA IdleOK ==
  ASSUME NEW t, NEW S, NEW L
  PROVE  RequestOK(t, Idle, S, L)
BY DEF RequestOK, Idle, Typed, AnswerWhole, LoadWhole

LEMMA ForgetOK ==
  ASSUME ServerInv, NEW t \in Threads, Forget(t)
  PROVE  ServerInv'
<1>1. req' = [req EXCEPT ![t] = Idle] /\ UNCHANGED <<sess, lock, open, disk, loaded>>
  BY DEF Forget
<1>2. RequestOK(t, Idle, sess, lock)
  BY IdleOK
<1>3. RequestsOK'
  BY <1>1, <1>2, OneRequest DEF ServerInv
<1>4. QED BY <1>1, <1>3, Others, OtherFolders DEF ServerInv

LEMMA NewReader ==
  ASSUME NEW t, NEW S, NEW L, NEW s \in 1 .. Len(S), NEW x, x = S[s],
         NEW k \in Nat, NEW parts \in {View, Log, Summary},
         parts = View => k <= Len(x.recipe.steps),
         parts = Log => k \in 1 .. Len(x.recipe.steps) /\ k < Len(x.graphs),
         parts = Summary => k = Length
  PROVE  RequestOK(t, Reading(s, k, parts), S, L)
<1> DEFINE q == Reading(s, k, parts)
<1>1. /\ q.kind = "reading" /\ q.s = s /\ q.k = k /\ q.parts = parts /\ q.got = <<>> /\ q.touched = FALSE
      /\ q = [kind |-> "reading", s |-> s, k |-> k, parts |-> parts, got |-> <<>>, touched |-> FALSE]
  BY DEF Reading
<1>2. <<>> \in Seq(Sessions) /\ Len(<<>>) = 0
  OBVIOUS
<1>3. Len(parts) \in Nat /\ 0 < Len(parts)
  <2>1. Len(parts) \in {10, 2, 4}
    BY ViewAt
  <2>2. \A n \in {10, 2, 4} : n \in Nat /\ 0 < n
    OBVIOUS
  <2>3. QED BY <2>1, <2>2
<1> HIDE DEF q
<1>4. IsReading(q, Len(S))
  BY <1>1, <1>2, <1>3 DEF IsReading
<1>5. Holds(S[q.s], q)
  BY <1>1, <1>2 DEF Holds, ViewHolds, LogHolds, SummaryHolds
<1>6. RequestOK(t, q, S, L)
  BY <1>1, <1>4, <1>5 DEF RequestOK, Typed, AnswerWhole, LoadWhole
<1>7. QED BY <1>6 DEF q

LEMMA LookOK ==
  ASSUME ServerInv, NEW t \in Threads, Look(t)
  PROVE  ServerInv'
<1>1. /\ UNCHANGED <<sess, lock, open, disk, loaded>> /\ open \in 1 .. Len(sess) /\ sess \in Seq(Sessions)
      /\ Length \in Nat
  BY EditorAssumption DEF Look, ServerInv, SessionsOK
<1>2. ASSUME NEW q, Ask(t, q), RequestOK(t, q, sess, lock) PROVE RequestsOK'
  BY <1>1, <1>2, OneRequest DEF Ask, ServerInv
<1>3. \/ \E k \in 0 .. N(open) : Ask(t, Reading(open, k, View))
      \/ Ask(t, Reading(open, Length, Summary))
  BY DEF Look
<1>4. Log # View /\ Summary # View /\ Summary # Log
  <2>1. Len(Log) # Len(View) /\ Len(Summary) # Len(View) /\ Len(Summary) # Len(Log)
    BY ViewAt
  <2>2. QED BY <2>1
<1>5. CASE Ask(t, Reading(open, Length, Summary))
  <2>1. RequestOK(t, Reading(open, Length, Summary), sess, lock)
    BY <1>1, <1>4, NewReader
  <2>2. QED BY <1>1, <1>2, <1>5, <2>1, Others, OtherFolders DEF ServerInv
<1>6. CASE \E k \in 0 .. N(open) : Ask(t, Reading(open, k, View))
  <2>1. PICK k \in 0 .. N(open) : Ask(t, Reading(open, k, View))
    BY <1>6
  <2>2. k \in Nat /\ k <= Len(sess[open].recipe.steps)
    <3>0. sess[open] \in Sessions
      BY <1>1
    <3>1. sess[open].recipe \in Recipes
      BY <3>0 DEF Sessions
    <3>2. sess[open].recipe.steps \in Seq(Kinds)
      BY <3>1 DEF Recipes
    <3>3. QED BY <3>2 DEF N
  <2>3. RequestOK(t, Reading(open, k, View), sess, lock)
    BY <1>1, <1>4, <2>2, NewReader
  <2>4. QED BY <1>1, <1>2, <2>1, <2>3, Others, OtherFolders DEF ServerInv
<1>7. QED BY <1>3, <1>5, <1>6

LEMMA ReadOK ==
  ASSUME ServerInv, NEW t \in Threads, Read(t)
  PROVE  ServerInv'
<1> DEFINE q == req[t]
           p == q.parts[Len(q.got) + 1]
           a == Part(p, q)
           m == [q EXCEPT !.got = Append(@, a.value)]
           x == sess[q.s]
<1>1. /\ q.kind = "reading" /\ (p \in Locked => lock[q.s] = Nobody)
      /\ UNCHANGED <<sess, lock, open, disk, loaded>>
      /\ req' = [req EXCEPT ![t] = CASE a.how # "ok" -> Answered(a.how, q)
                                     [] a.how = "ok" /\ Len(m.got) = Len(q.parts) -> Answered("page", m)
                                     [] OTHER -> m]
  BY DEF Read
<1>2. /\ RequestOK(t, q, sess, lock) /\ sess \in Seq(Sessions)
      /\ \A s \in 1 .. Len(sess) : Fits(sess[s]) /\ (lock[s] = Nobody => Good(sess[s]))
  BY DEF ServerInv, RequestsOK, SessionsOK
<1>3. IsReading(q, Len(sess)) /\ (~q.touched => Holds(x, q)) /\ q.s \in 1 .. Len(sess)
  BY <1>1, <1>2 DEF RequestOK, Typed, IsReading
<1>4. a.how \in {"ok", "404", "400", "lost"}
  <2> HIDE DEF q
  <2> QED BY <1>3, PartHow
<1>5. /\ m = [kind |-> "reading", s |-> q.s, k |-> q.k, parts |-> q.parts,
              got |-> Append(q.got, a.value), touched |-> q.touched]
      /\ Len(m.got) # Len(q.parts) => IsReading(m, Len(sess))
  <2> HIDE DEF q, a
  <2> QED BY <1>3, GotMore, SMTT(20)
<1>6. p \in Locked => Good(x)
  BY <1>1, <1>2, <1>3
<1>7. Log # View /\ Summary # View /\ Summary # Log
  <2>1. Len(Log) # Len(View) /\ Len(Summary) # Len(View) /\ Len(Summary) # Len(Log)
    BY ViewAt
  <2>2. QED BY <2>1
<1>8. ~q.touched => /\ a.how \in {"ok", "400"}
                    /\ a.how = "ok" => Holds(x, m)
                    /\ (a.how = "ok" /\ Len(m.got) = Len(q.parts)) => Whole(m)
  <2> SUFFICES ASSUME ~q.touched
               PROVE  /\ a.how \in {"ok", "400"}
                      /\ a.how = "ok" => Holds(x, m)
                      /\ (a.how = "ok" /\ Len(m.got) = Len(q.parts)) => Whole(m)
    OBVIOUS
  <2>1. Holds(x, q) /\ Fits(x) /\ m.parts = q.parts
    BY <1>2, <1>3, <1>5
  <2>2. CASE q.parts = View
    <3>1. ViewHolds(sess[q.s], q)
      BY <2>1, <2>2 DEF Holds
    <3>2. /\ a.how \in {"ok", "400"} /\ (a.how = "ok" => ViewHolds(x, m))
          /\ (a.how = "ok" /\ Len(m.got) = Len(q.parts)) => OneStep(m)
      <4> HIDE DEF q
      <4> QED BY <1>2, <1>3, <1>6, <2>2, <3>1, ReadView
    <3> HIDE DEF m, a
    <3>3. QED BY <1>7, <2>1, <2>2, <3>2 DEF Holds, Whole
  <2>3. CASE q.parts = Log
    <3>1. LogHolds(sess[q.s], q)
      BY <2>1, <2>3 DEF Holds
    <3>2. a.how = "ok" /\ LogHolds(x, m) /\ (Len(m.got) = Len(q.parts) => OneLog(m))
      <4> HIDE DEF q
      <4> QED BY <1>2, <1>3, <1>6, <2>1, <2>3, <3>1, ReadLog
    <3> HIDE DEF m, a
    <3>3. QED BY <1>7, <2>1, <2>3, <3>2 DEF Holds, Whole
  <2>4. CASE q.parts = Summary
    <3>1. SummaryHolds(sess[q.s], q)
      BY <2>1, <2>4 DEF Holds
    <3>2. a.how = "ok" /\ SummaryHolds(x, m) /\ (Len(m.got) = Len(q.parts) => OneRecipe(m))
      <4> HIDE DEF q
      <4> QED BY <1>2, <1>3, <1>6, <2>1, <2>4, <3>1, ReadSummary
    <3> HIDE DEF m, a
    <3>3. QED BY <1>7, <2>1, <2>4, <3>2 DEF Holds, Whole
  <2>5. QED BY <1>3, <2>2, <2>3, <2>4 DEF IsReading
<1>9. m.touched = q.touched /\ m.kind = "reading" /\ m.s = q.s
  BY <1>5
<1> HIDE DEF a, m, q, x
<1>10. CASE a.how # "ok"
  <2> DEFINE w == Answered(a.how, q)
  <2>1. w.kind = "answered" /\ w.how = a.how /\ w.r = q
    BY DEF Answered
  <2>2. req' = [req EXCEPT ![t] = w]
    BY <1>1, <1>10
  <2> HIDE DEF w
  <2>3. RequestOK(t, w, sess, lock)
    BY <1>4, <1>8, <1>10, <2>1 DEF RequestOK, Typed, AnswerWhole, LoadWhole
  <2>4. QED BY <1>1, <2>2, <2>3, OneRequest, Others, OtherFolders DEF ServerInv
<1>11. CASE a.how = "ok" /\ Len(m.got) = Len(q.parts)
  <2> DEFINE w == Answered("page", m)
  <2>1. w.kind = "answered" /\ w.how = "page" /\ w.r = m
    BY DEF Answered
  <2>2. req' = [req EXCEPT ![t] = w]
    BY <1>1, <1>11
  <2> HIDE DEF w
  <2>3. RequestOK(t, w, sess, lock)
    BY <1>8, <1>9, <1>11, <2>1 DEF RequestOK, Typed, AnswerWhole, LoadWhole
  <2>4. QED BY <1>1, <2>2, <2>3, OneRequest, Others, OtherFolders DEF ServerInv
<1>12. CASE a.how = "ok" /\ Len(m.got) # Len(q.parts)
  <2>1. req' = [req EXCEPT ![t] = m]
    BY <1>1, <1>12
  <2>2. RequestOK(t, m, sess, lock)
    BY <1>5, <1>8, <1>9, <1>12 DEF RequestOK, Typed, AnswerWhole, LoadWhole, x
  <2>3. QED BY <1>1, <2>1, <2>2, OneRequest, Others, OtherFolders DEF ServerInv
<1>13. QED BY <1>10, <1>11, <1>12

LEMMA RequestedOK ==
  ASSUME ServerInv, NEW t \in Threads, Request(t)
  PROVE  ServerInv'
<1>1. UNCHANGED <<sess, lock, open, disk, loaded>> /\ open \in 1 .. Len(sess) /\ sess \in Seq(Sessions)
  BY DEF Request, ServerInv, SessionsOK
<1>2. PICK what \in Whats : Wait(t, what)
  <2>1. \A k \in 0 .. N(open) : k \in Nat
    OBVIOUS
  <2>2. CASE \E kind \in Kinds, drop \in BOOLEAN : Wait(t, <<"apply", kind, drop>>)
    BY <2>2 DEF Whats
  <2>3. CASE \E v \in Params : Wait(t, <<"params", v>>)
    BY <2>3 DEF Whats
  <2>4. CASE \E k \in 0 .. N(open) : Wait(t, <<"move", k>>)
    BY <2>1, <2>4 DEF Whats
  <2>5. QED BY <2>2, <2>3, <2>4 DEF Request
<1> DEFINE q == [kind |-> "waiting", s |-> open, what |-> what]
<1>3. req' = [req EXCEPT ![t] = q]
  BY <1>2 DEF Wait, Ask
<1>4. q.kind = "waiting" /\ q \in [kind : {"waiting"}, s : 1 .. Len(sess), what : Whats]
  BY <1>1
<1> HIDE DEF q
<1>5. RequestOK(t, q, sess, lock)
  BY <1>4 DEF RequestOK, Typed, AnswerWhole, LoadWhole
<1>6. QED BY <1>1, <1>3, <1>5, OneRequest, Others, OtherFolders DEF ServerInv

LEMMA OutcomeIs ==
  ASSUME NEW x \in Sessions, Good(x), NEW what \in Whats, what[1] = "apply" => x.cursor < Length,
         Outcome(x, what).todo # <<>>
  PROVE  LET o == Outcome(x, what) IN o.todo \in Todos /\ o.new \in News /\ Half(x, o.todo, o.new)
<1>1. CASE what \in {"apply"} \X Kinds \X BOOLEAN
  <2>1. PICK kind \in Kinds, drop \in BOOLEAN : what = <<"apply", kind, drop>>
    BY <1>1
  <2>2. Outcome(x, what) = Apply(x, kind, drop) /\ x.cursor < Length
    BY <2>1 DEF Outcome
  <2>3. QED BY <2>2, ApplyIs
<1>2. CASE what \in {"params"} \X Params
  <2>1. PICK v \in Params : what = <<"params", v>>
    BY <1>2
  <2>2. Outcome(x, what) = SetParams(x, v)
    BY <2>1 DEF Outcome
  <2>3. QED BY <2>2, ParamsIs
<1>3. CASE what \in {"move"} \X Nat
  <2>1. PICK k \in Nat : what = <<"move", k>>
    BY <1>3
  <2>2. Outcome(x, what) = Move(x, k)
    BY <2>1 DEF Outcome
  <2>3. QED BY <2>2, MoveIs
<1>4. QED BY <1>1, <1>2, <1>3 DEF Whats

LEMMA EnterOK ==
  ASSUME ServerInv, NEW t \in Threads, Enter(t)
  PROVE  ServerInv'
<1> DEFINE q == req[t]
           s == q.s
           x == sess[s]
           o == Outcome(x, q.what)
           w == [kind |-> "storing", s |-> s, todo |-> o.todo, new |-> o.new]
<1>1. /\ q.kind = "waiting" /\ lock[s] = Nobody /\ (q.what[1] = "apply" => x.cursor < Length)
      /\ UNCHANGED <<sess, open, disk, loaded>>
      /\ \/ o.todo = <<>> /\ req' = [req EXCEPT ![t] = Idle] /\ UNCHANGED lock
         \/ o.todo # <<>> /\ lock' = [lock EXCEPT ![s] = t] /\ req' = [req EXCEPT ![t] = w]
  BY DEF Enter
<1>2. /\ sess \in Seq(Sessions) /\ lock \in Seq(Threads \cup {Nobody}) /\ Len(lock) = Len(sess)
      /\ \A u \in Threads : RequestOK(u, req[u], sess, lock)
      /\ \A r \in 1 .. Len(sess) : Fits(sess[r]) /\ (lock[r] = Nobody => Good(sess[r]))
      /\ req = [u \in Threads |-> req[u]]
  BY DEF ServerInv, SessionsOK, RequestsOK
<1>3. s \in 1 .. Len(sess) /\ q.what \in Whats
  BY <1>1, <1>2 DEF RequestOK, Typed
<1>4. x \in Sessions /\ Good(x)
  BY <1>1, <1>2, <1>3
<1>5. CASE o.todo = <<>> /\ req' = [req EXCEPT ![t] = Idle] /\ UNCHANGED lock
  <2>1. RequestOK(t, Idle, sess, lock)
    BY IdleOK
  <2>2. QED BY <1>1, <1>5, <2>1, OneRequest, Others, OtherFolders DEF ServerInv
<1>6. CASE o.todo # <<>> /\ lock' = [lock EXCEPT ![s] = t] /\ req' = [req EXCEPT ![t] = w]
  <2>1. o.todo \in Todos /\ o.new \in News /\ Half(x, o.todo, o.new)
    <3> HIDE DEF x, q
    <3> QED BY <1>1, <1>3, <1>4, <1>6, OutcomeIs
  <2>2. /\ lock' \in Seq(Threads \cup {Nobody}) /\ Len(lock') = Len(lock) /\ lock'[s] = t
        /\ \A r \in 1 .. Len(sess) : r # s => lock'[r] = lock[r]
    BY <1>2, <1>3, <1>6
  <2>3. t # Nobody /\ \A u \in Threads : u # Nobody
    BY EditorAssumption
  <2>4. SessionsOK'
    <3>1. \A r \in 1 .. Len(sess) : lock'[r] = Nobody => Good(sess[r])
      BY <1>2, <2>2, <2>3
    <3>2. open \in 0 .. Len(sess)
      BY DEF ServerInv, SessionsOK
    <3>3. QED BY <1>1, <1>2, <2>2, <3>1, <3>2 DEF SessionsOK
  <2>5. w.kind = "storing" /\ w.s = s /\ w.todo = o.todo /\ w.new = o.new
        /\ w \in [kind : {"storing"}, s : 1 .. Len(sess), todo : Todos, new : News]
    BY <1>3, <2>1
  <2> HIDE DEF w, o, q, x, s
  <2>6. RequestOK(t, w, sess, lock')
    BY <2>1, <2>2, <2>5 DEF RequestOK, Typed, AnswerWhole, LoadWhole, x
  <2>7. req' = [u \in Threads |-> IF u = t THEN w ELSE req[u]]
    BY <1>2, <1>6
  <2>8. ASSUME NEW u \in Threads, u # t PROVE RequestOK(u, req[u], sess, lock')
    <3>1. RequestOK(u, req[u], sess, lock)
      BY <1>2
    <3>2. req[u].kind = "storing" => req[u].s \in 1 .. Len(sess) /\ lock[req[u].s] = u
      BY <3>1 DEF RequestOK, Typed
    <3>3. req[u].kind = "storing" => lock'[req[u].s] = u
      BY <1>1, <2>2, <2>3, <3>2
    <3>4. QED BY <3>1, <3>3 DEF RequestOK
  <2>9. RequestsOK'
    BY <1>1, <2>6, <2>7, <2>8 DEF RequestsOK
  <2>10. QED BY <1>1, <2>4, <2>9, OtherFolders DEF ServerInv
<1>7. QED BY <1>1, <1>5, <1>6

LEMMA TouchIs ==
  ASSUME NEW n, NEW q, IsReading(q, n), NEW v
  PROVE  [q EXCEPT !.touched = v] =
           [kind |-> "reading", s |-> q.s, k |-> q.k, parts |-> q.parts, got |-> q.got, touched |-> v]
<1> DEFINE m == [q EXCEPT !.touched = v]
<1>1. PICK s, k, parts, got, b :
        q = [kind |-> "reading", s |-> s, k |-> k, parts |-> parts, got |-> got, touched |-> b]
  BY DEF IsReading
<1>2. q.s = s /\ q.k = k /\ q.parts = parts /\ q.got = got
  BY <1>1
<1>3. m = [kind |-> "reading", s |-> s, k |-> k, parts |-> parts, got |-> got, touched |-> v]
  BY <1>1
<1>4. QED BY <1>2, <1>3

LEMMA TouchedOK ==
  ASSUME NEW u, NEW q, NEW s, NEW t, NEW y \in Sessions, NEW S, NEW M, u # t,
         sess \in Seq(Sessions), s \in 1 .. Len(sess), Fits(sess[s]), Fits(y), lock[s] = t,
         RequestOK(u, q, sess, lock), Len(S) = Len(sess), S[s] = y,
         \A r \in 1 .. Len(sess) : r # s => S[r] = sess[r] /\ M[r] = lock[r]
  PROVE  RequestOK(u, Touched(q, s, y), S, M)
<1> DEFINE x == sess[s]
           m == [q EXCEPT !.touched = TRUE]
           Torn == q.kind = "reading" /\ q.s = s /\ Changed(x, y, q)
<1>1. AnswerWhole(q) /\ LoadWhole(q) /\ Typed(q, Len(sess))
  BY DEF RequestOK
<1>2. CASE Torn
  <2>1. Touched(q, s, y) = m
    BY <1>2 DEF Touched
  <2>2. IsReading(q, Len(sess))
    BY <1>1, <1>2 DEF Typed
  <2>3. m = [kind |-> "reading", s |-> q.s, k |-> q.k, parts |-> q.parts, got |-> q.got, touched |-> TRUE]
    BY <2>2, TouchIs
  <2> HIDE DEF m
  <2>4. IsReading(m, Len(sess)) /\ m.kind = "reading" /\ m.touched
    BY <2>2, <2>3 DEF IsReading
  <2>5. QED BY <2>1, <2>4 DEF RequestOK, Typed, AnswerWhole, LoadWhole
<1>3. CASE ~Torn
  <2>1. Touched(q, s, y) = q
    BY <1>3 DEF Touched
  <2>2. ASSUME q.kind = "storing" PROVE M[q.s] = u /\ Half(S[q.s], q.todo, q.new)
    <3>1. q.s \in 1 .. Len(sess) /\ lock[q.s] = u /\ Half(sess[q.s], q.todo, q.new)
      BY <1>1, <2>2 DEF RequestOK, Typed
    <3>2. q.s # s
      <4> SUFFICES ASSUME q.s = s PROVE FALSE
        OBVIOUS
      <4>1. lock[s] = t /\ lock[s] = u
        BY <3>1
      <4>2. QED BY <4>1
    <3>3. QED BY <3>1, <3>2
  <2>3. ASSUME q.kind = "reading", ~q.touched PROVE Holds(S[q.s], q)
    <3>1. IsReading(q, Len(sess)) /\ Holds(sess[q.s], q)
      BY <1>1, <2>3 DEF RequestOK, Typed
    <3>2. q.s \in 1 .. Len(sess)
      BY <3>1 DEF IsReading
    <3>3. CASE q.s # s
      BY <3>1, <3>2, <3>3
    <3>4. CASE q.s = s
      <4>1. ~Changed(x, y, q) /\ x \in Sessions /\ Holds(x, q)
        BY <1>3, <2>3, <3>1, <3>4
      <4>2. Holds(y, q)
        <5> HIDE DEF x, Torn
        <5> QED BY <3>1, <4>1, StillHolds DEF x
      <4>3. QED BY <3>4, <4>2
    <3>5. QED BY <3>3, <3>4
  <2>4. Typed(q, Len(S))
    BY <1>1
  <2>5. QED BY <1>1, <2>1, <2>2, <2>3, <2>4 DEF RequestOK
<1>4. QED BY <1>2, <1>3

LEMMA StoreOK ==
  ASSUME ServerInv, NEW t \in Threads, Store(t)
  PROVE  ServerInv'
<1> DEFINE q == req[t]
           s == q.s
           x == sess[s]
           what == Head(q.todo)
           y == Stored(x, what, q.new)
           rest == RestOf(y, q.todo, q.new)
           over == rest \in {<<>>, <<"log">>}
           w == CASE rest = <<>> -> Idle
                  [] rest = <<"log">> -> Reading(s, y.cursor, Log)
                  [] OTHER -> [q EXCEPT !.todo = rest]
           free == IF over THEN Nobody ELSE t
           saved == [recipe |-> y.recipe, cursor |-> y.cursor]
<1>1. /\ q.kind = "storing" /\ sess' = [sess EXCEPT ![s] = y] /\ lock' = [lock EXCEPT ![s] = free]
      /\ req' = [u \in Threads |-> IF u = t THEN w ELSE Touched(req[u], s, y)]
      /\ \/ what = "write" /\ disk' = [disk EXCEPT ![y.name] = saved]
         \/ UNCHANGED disk
      /\ UNCHANGED <<open, loaded>>
  BY DEF Store, RestOf
<1>2. /\ sess \in Seq(Sessions) /\ lock \in Seq(Threads \cup {Nobody}) /\ Len(lock) = Len(sess)
      /\ \A u \in Threads : RequestOK(u, req[u], sess, lock)
      /\ \A r \in 1 .. Len(sess) : Fits(sess[r]) /\ (lock[r] = Nobody => Good(sess[r]))
      /\ open \in 0 .. Len(sess)
  BY DEF ServerInv, SessionsOK, RequestsOK
<1>3. /\ s \in 1 .. Len(sess) /\ q.todo \in Todos /\ q.new \in News /\ lock[s] = t /\ Half(x, q.todo, q.new)
      /\ q \in [kind : {"storing"}, s : 1 .. Len(sess), todo : Todos, new : News]
  <2>1. RequestOK(t, q, sess, lock)
    BY <1>2
  <2>2. q \in [kind : {"storing"}, s : 1 .. Len(sess), todo : Todos, new : News]
    BY <1>1, <2>1 DEF RequestOK, Typed
  <2>3. lock[s] = t /\ Half(x, q.todo, q.new)
    BY <1>1, <2>1 DEF RequestOK
  <2>4. QED BY <2>2, <2>3
<1>4. x \in Sessions /\ Fits(x)
  BY <1>2, <1>3
<1>5. /\ y \in Sessions /\ Fits(y)
      /\ (over /\ Good(y)) \/ (rest \in Todos /\ Half(y, rest, q.new))
      /\ rest = <<"log">> => y.cursor >= 1
      /\ what = "write" => over
  <2> HIDE DEF x, q
  <2> QED BY <1>3, <1>4, StoreIs
<1> HIDE DEF y, rest, what
<1>6. \A r \in Todos : r \notin {<<>>, <<"log">>}
  BY DEF Todos, ToLog
<1>7. over => Good(y)
  BY <1>5, <1>6
<1>8. /\ sess' \in Seq(Sessions) /\ Len(sess') = Len(sess) /\ sess'[s] = y
      /\ lock' \in Seq(Threads \cup {Nobody}) /\ Len(lock') = Len(sess) /\ lock'[s] = free
      /\ \A r \in 1 .. Len(sess) : r # s => sess'[r] = sess[r] /\ lock'[r] = lock[r]
  <2>1. free \in Threads \cup {Nobody}
    OBVIOUS
  <2> HIDE DEF s, free
  <2>2. QED BY <1>1, <1>2, <1>3, <1>5, <2>1
<1>9. t # Nobody
  BY EditorAssumption
<1>10. SessionsOK'
  <2>1. \A r \in 1 .. Len(sess) : Fits(sess'[r]) /\ (lock'[r] = Nobody => Good(sess'[r]))
    <3> HIDE DEF s, over
    <3> QED BY <1>2, <1>5, <1>7, <1>8, <1>9
  <2>2. QED BY <1>1, <1>2, <1>8, <2>1 DEF SessionsOK
<1>11. DiskOK'
  <2>1. CASE UNCHANGED disk
    BY <2>1, OtherFolders DEF ServerInv
  <2>2. CASE what = "write" /\ disk' = [disk EXCEPT ![y.name] = saved]
    <3>1. Good(y) /\ y \in Sessions
      BY <1>5, <1>7, <2>2
    <3>2. saved \in Saved
      <4>1. y.recipe \in Recipes /\ y.cursor \in Nat /\ y.graphs \in Seq(Recipes)
        BY <3>1 DEF Sessions
      <4>2. Len(y.recipe.steps) \in Nat /\ Len(y.graphs) \in Nat
        BY <4>1 DEF Recipes
      <4>3. y.cursor <= Len(y.graphs) - 1 /\ Accepted(y.recipe, Len(y.graphs) - 1)
        BY <3>1 DEF Good
      <4>4. Accepted(y.recipe, y.cursor)
        BY <4>1, <4>2, <4>3 DEF Accepted
      <4>5. QED BY <1>5, <4>1, <4>4 DEF Fits, Saved
    <3> HIDE DEF saved
    <3>3. Folders' = Folders /\ disk' = [n \in Folders |-> IF n = y.name THEN saved ELSE disk[n]]
      BY <2>2 DEF ServerInv, DiskOK, Folders
    <3>4. QED BY <3>2, <3>3 DEF ServerInv, DiskOK
  <2>3. QED BY <1>1, <2>1, <2>2
<1>12. RequestOK(t, w, sess', lock')
  <2>1. CASE rest = <<>>
    BY <2>1, IdleOK
  <2>2. CASE rest = <<"log">>
    <3>1. Log # View /\ Summary # Log /\ w = Reading(s, y.cursor, Log)
      <4>1. Len(Log) # Len(View) /\ Len(Summary) # Len(Log)
        BY ViewAt
      <4>2. <<"log">> # <<>>
        OBVIOUS
      <4>3. QED BY <2>2, <4>1, <4>2
    <3>2. Good(y) /\ y.cursor >= 1 /\ y \in Sessions
      BY <1>5, <1>7, <2>2
    <3>3. y.cursor \in Nat /\ y.cursor \in 1 .. Len(y.recipe.steps) /\ y.cursor < Len(y.graphs)
      <4>1. y.recipe \in Recipes /\ y.cursor \in Nat /\ y.graphs \in Seq(Recipes)
        BY <3>2 DEF Sessions
      <4>2. Len(y.recipe.steps) \in Nat /\ Len(y.graphs) \in Nat
        BY <4>1 DEF Recipes
      <4>3. QED BY <1>5, <3>2, <4>1, <4>2 DEF Good, Fits
    <3> HIDE DEF w, s
    <3>4. QED BY <1>3, <1>8, <3>1, <3>3, NewReader
  <2>3. CASE ~over
    <3>1. rest \in Todos /\ Half(y, rest, q.new)
      BY <1>5, <2>3
    <3>2. w = [q EXCEPT !.todo = rest]
      BY <2>3
    <3> HIDE DEF w, q
    <3>3. /\ w \in [kind : {"storing"}, s : 1 .. Len(sess), todo : Todos, new : News]
          /\ w.kind = "storing" /\ w.s = s /\ w.todo = rest /\ w.new = q.new
      BY <1>3, <3>1, <3>2
    <3>4. lock'[s] = t
      BY <1>8, <2>3
    <3> HIDE DEF s, x
    <3>5. QED BY <1>8, <3>1, <3>3, <3>4 DEF RequestOK, Typed, AnswerWhole, LoadWhole
  <2>4. QED BY <2>1, <2>2, <2>3
<1>13. ASSUME NEW u \in Threads, u # t PROVE RequestOK(u, Touched(req[u], s, y), sess', lock')
  <2>1. RequestOK(u, req[u], sess, lock) /\ Fits(sess[s])
    BY <1>2, <1>4
  <2> HIDE DEF s, q
  <2>2. QED BY <1>2, <1>3, <1>5, <1>8, <1>13, <2>1, TouchedOK
<1>14. RequestsOK'
  <2> HIDE DEF w, s, q
  <2>1. \A u \in Threads : RequestOK(u, req'[u], sess', lock')
    BY <1>1, <1>12, <1>13
  <2>2. req' = [u \in Threads |-> req'[u]]
    BY <1>1
  <2>3. QED BY <2>1, <2>2 DEF RequestsOK
<1>15. QED BY <1>1, <1>10, <1>11, <1>14 DEF ServerInv

LEMMA OpenOK ==
  ASSUME ServerInv, NEW t \in Threads, Open(t)
  PROVE  ServerInv'
<1>1. UNCHANGED <<sess, lock, open, disk, loaded>>
  BY DEF Open
<1>2. PICK name \in Nat, new \in BOOLEAN, from \in Saved :
        Ask(t, [kind |-> "opening", name |-> name, from |-> from, new |-> new])
  <2>1. CASE \E r \in Starts :
               Ask(t, [kind |-> "opening", name |-> Free(Folders), new |-> TRUE,
                       from |-> [recipe |-> r, cursor |-> Len(r.steps)]])
    <3>1. PICK r \in Starts :
            Ask(t, [kind |-> "opening", name |-> Free(Folders), new |-> TRUE,
                    from |-> [recipe |-> r, cursor |-> Len(r.steps)]])
      BY <2>1
    <3>2. /\ r.steps \in Seq(Kinds) /\ r \in Recipes /\ Len(r.steps) <= Length
          /\ \A i \in DOMAIN r.steps : <<r.steps[i], r.param>> \notin Refused
      BY EditorAssumption DEF Recipes
    <3>3. Accepted(r, Len(r.steps))
      <4>1. DOMAIN r.steps = 1 .. Len(r.steps)
        BY <3>2
      <4>2. QED BY <3>2, <4>1 DEF Accepted
    <3> DEFINE d == [recipe |-> r, cursor |-> Len(r.steps)]
    <3>4. d \in [recipe : Recipes, cursor : Nat] /\ d.recipe = r /\ d.cursor = Len(r.steps)
      BY <3>2
    <3> HIDE DEF d
    <3>5. d \in Saved
      BY <3>2, <3>3, <3>4 DEF Saved
    <3>6. Free(Folders) \in Nat
      BY FreeIs DEF ServerInv, DiskOK
    <3>7. QED BY <3>1, <3>5, <3>6 DEF d
  <2>2. CASE \E n \in Folders : Ask(t, [kind |-> "opening", name |-> n, from |-> disk[n], new |-> FALSE])
    <3>1. Folders \subseteq Nat /\ \A n \in Folders : disk[n] \in Saved
      BY DEF ServerInv, DiskOK
    <3>2. QED BY <2>2, <3>1
  <2>3. QED BY <2>1, <2>2 DEF Open
<1> DEFINE q == [kind |-> "opening", name |-> name, from |-> from, new |-> new]
<1>3. /\ req' = [req EXCEPT ![t] = q] /\ q.kind = "opening"
      /\ q \in [kind : {"opening"}, name : Nat, new : BOOLEAN, from : Saved]
  BY <1>2 DEF Ask
<1> HIDE DEF q
<1>4. RequestOK(t, q, sess, lock)
  BY <1>3 DEF RequestOK, Typed, AnswerWhole, LoadWhole
<1>5. QED BY <1>1, <1>3, <1>4, OneRequest, Others, OtherFolders DEF ServerInv

LEMMA MakeOK ==
  ASSUME ServerInv, NEW t \in Threads, Make(t)
  PROVE  ServerInv'
<1> DEFINE q == req[t]
           r == q.from.recipe
           k == Reached(r, Len(r.steps))
           x == [name |-> q.name, recipe |-> r, cursor |-> q.from.cursor, new |-> q.new, graphs |-> Graphs(r, k)]
           d == [recipe |-> x.recipe, cursor |-> x.cursor]
           w == [kind |-> "opened", s |-> Len(sess) + 1]
<1>1. /\ q.kind = "opening" /\ sess' = Append(sess, x) /\ lock' = Append(lock, Nobody)
      /\ disk' = [n \in Folders \cup {q.name} |-> IF n = q.name THEN d ELSE disk[n]]
      /\ req' = [req EXCEPT ![t] = w] /\ UNCHANGED <<open, loaded>>
  BY DEF Make
<1>2. /\ sess \in Seq(Sessions) /\ lock \in Seq(Threads \cup {Nobody}) /\ Len(lock) = Len(sess)
      /\ \A u \in Threads : RequestOK(u, req[u], sess, lock)
      /\ \A s \in 1 .. Len(sess) : Fits(sess[s]) /\ (lock[s] = Nobody => Good(sess[s]))
      /\ open \in 0 .. Len(sess) /\ req = [u \in Threads |-> req[u]]
  BY DEF ServerInv, SessionsOK, RequestsOK
<1>3. q \in [kind : {"opening"}, name : Nat, new : BOOLEAN, from : Saved]
  BY <1>1, <1>2 DEF RequestOK, Typed
<1>4. /\ q.name \in Nat /\ q.new \in BOOLEAN /\ r \in Recipes /\ q.from.cursor \in Nat
      /\ q.from.cursor <= Len(r.steps) /\ Len(r.steps) <= Length /\ Accepted(r, q.from.cursor)
      /\ q.from \in Saved
  BY <1>3 DEF Saved
<1>5. r.steps \in Seq(Kinds) /\ Len(r.steps) \in Nat
  BY <1>4 DEF Recipes
<1>6. k \in 0 .. Len(r.steps) /\ Accepted(r, k) /\ q.from.cursor <= k
  <2> HIDE DEF r
  <2>1. q.from.cursor \in 0 .. Len(r.steps)
    BY <1>4, <1>5
  <2>2. QED BY <1>4, <1>5, <2>1, ReachedIs
<1>7. Graphs(r, k) \in Seq(Recipes) /\ q.from.cursor \in 0 .. k
  <2> HIDE DEF r, k
  <2> QED BY <1>4, <1>5, <1>6, GraphsAre
<1> DEFINE g == [recipe |-> r, graphs |-> Graphs(r, k), cursor |-> q.from.cursor]
<1>8. Good(g)
  <2> HIDE DEF r, k
  <2> QED BY <1>4, <1>5, <1>6, <1>7, GoodGraphs
<1>9. x \in Sessions /\ x.recipe = r /\ x.cursor = q.from.cursor /\ x.graphs = g.graphs
  <2> HIDE DEF r, k
  <2> QED BY <1>4, <1>7 DEF Sessions
<1>10. g.recipe = r /\ g.cursor = q.from.cursor
  OBVIOUS
<1> HIDE DEF x, g, r, k
<1>11. Good(x) /\ Fits(x)
  BY <1>4, <1>8, <1>9, <1>10 DEF Good, Fits
<1>12. /\ sess' \in Seq(Sessions) /\ Len(sess') = Len(sess) + 1 /\ sess'[Len(sess) + 1] = x
       /\ lock' \in Seq(Threads \cup {Nobody}) /\ Len(lock') = Len(sess) + 1
       /\ \A s \in 1 .. Len(sess) : sess'[s] = sess[s] /\ lock'[s] = lock[s]
       /\ Len(sess) \in Nat
  <2>1. Nobody \in Threads \cup {Nobody}
    OBVIOUS
  <2>2. QED BY <1>1, <1>2, <1>9, <2>1, AppendProperties
<1>13. SessionsOK'
  <2>1. \A s \in 1 .. Len(sess) + 1 : Fits(sess'[s]) /\ (lock'[s] = Nobody => Good(sess'[s]))
    <3> TAKE s \in 1 .. Len(sess) + 1
    <3>1. CASE s = Len(sess) + 1
      BY <1>11, <1>12, <3>1
    <3>2. CASE s \in 1 .. Len(sess)
      BY <1>2, <1>12, <3>2
    <3>3. QED BY <1>12, <3>1, <3>2
  <2>2. QED BY <1>1, <1>2, <1>12, <2>1 DEF SessionsOK
<1>14. DiskOK'
  <2>1. d = q.from
    <3>1. q.from \in [recipe : Recipes, cursor : Nat]
      BY <1>4 DEF Saved
    <3>2. q.from = [recipe |-> q.from.recipe, cursor |-> q.from.cursor]
      BY <3>1
    <3>3. QED BY <1>9, <3>2 DEF r
  <2>2. Folders' = Folders \cup {q.name}
    BY <1>1 DEF Folders
  <2>3. IsFiniteSet(Folders') /\ Folders' \subseteq Nat
    BY <1>4, <2>2, FS_AddElement DEF ServerInv, DiskOK
  <2> HIDE DEF d, q
  <2>4. \A n \in Folders' : disk'[n] \in Saved
    BY <1>1, <1>4, <2>1, <2>2 DEF ServerInv, DiskOK
  <2>5. disk' = [n \in Folders' |-> disk'[n]]
    BY <1>1, <2>2
  <2>6. QED BY <2>3, <2>4, <2>5 DEF DiskOK
<1>15. ASSUME NEW u \in Threads, u # t PROVE RequestOK(u, req[u], sess', lock')
  <2> DEFINE p == req[u]
  <2>1. RequestOK(u, p, sess, lock)
    BY <1>2
  <2> HIDE DEF p
  <2>2. Typed(p, Len(sess))
    BY <2>1 DEF RequestOK
  <2>3. Typed(p, Len(sess')) /\ (p.kind \in {"storing", "reading"} => p.s \in 1 .. Len(sess))
    <3>1. \A s \in 1 .. Len(sess) : s \in 1 .. Len(sess')
      BY <1>12
    <3>2. p.kind = "reading" => IsReading(p, Len(sess')) /\ p.s \in 1 .. Len(sess)
      BY <2>2, <3>1 DEF Typed, IsReading
    <3>3. p.kind = "storing" => /\ p \in [kind : {"storing"}, s : 1 .. Len(sess'), todo : Todos, new : News]
                                /\ p.s \in 1 .. Len(sess)
      BY <2>2, <3>1 DEF Typed
    <3>4. p.kind = "waiting" => p \in [kind : {"waiting"}, s : 1 .. Len(sess'), what : Whats]
      BY <2>2, <3>1 DEF Typed
    <3>5. p.kind = "opening" => p \in [kind : {"opening"}, name : Nat, new : BOOLEAN, from : Saved]
      BY <2>2 DEF Typed
    <3>6. p.kind = "opened" => p.s \in 1 .. Len(sess')
      BY <2>2, <3>1 DEF Typed
    <3>7. QED BY <3>2, <3>3, <3>4, <3>5, <3>6 DEF Typed
  <2>4. p.kind \in {"storing", "reading"} => sess'[p.s] = sess[p.s] /\ lock'[p.s] = lock[p.s]
    BY <1>12, <2>3
  <2>5. RequestOK(u, p, sess', lock')
    BY <2>1, <2>3, <2>4 DEF RequestOK
  <2>6. QED BY <2>5 DEF p
<1>16. RequestOK(t, w, sess', lock')
  <2>1. w.kind = "opened" /\ w.s = Len(sess) + 1
    OBVIOUS
  <2> HIDE DEF w
  <2>2. QED BY <1>12, <2>1 DEF RequestOK, Typed, AnswerWhole, LoadWhole
<1>17. RequestsOK'
  <2> HIDE DEF w
  <2>1. req' = [u \in Threads |-> IF u = t THEN w ELSE req[u]]
    BY <1>1, <1>2
  <2>2. \A u \in Threads : RequestOK(u, req'[u], sess', lock')
    BY <1>15, <1>16, <2>1
  <2>3. QED BY <2>1, <2>2 DEF RequestsOK
<1>18. QED BY <1>1, <1>13, <1>14, <1>17 DEF ServerInv

LEMMA TakeOK ==
  ASSUME ServerInv, NEW t \in Threads, Take(t)
  PROVE  ServerInv'
<1>1. /\ req' = [req EXCEPT ![t] = Idle] /\ UNCHANGED <<sess, lock, disk, loaded>>
      /\ req[t].kind = "opened" /\ open' = req[t].s
  BY DEF Take
<1>2. req[t].s \in 1 .. Len(sess)
  BY <1>1 DEF ServerInv, RequestsOK, RequestOK, Typed
<1>3. SessionsOK'
  BY <1>1, <1>2 DEF ServerInv, SessionsOK
<1>4. RequestsOK'
  BY <1>1, OneRequest, IdleOK DEF ServerInv
<1>5. QED BY <1>1, <1>3, <1>4, OtherFolders DEF ServerInv

-----------------------------------------------------------------------------
(* View mode.                                                              *)

LEMMA EditOK ==
  ASSUME ServerInv, NEW f \in Files, Edit(f)
  PROVE  ServerInv'
BY Others, OtherFolders DEF Edit, ServerInv, RequestsOK

LEMMA ReloadOK ==
  ASSUME ServerInv, NEW t \in Threads, Reload(t)
  PROVE  ServerInv'
<1> DEFINE q == [kind |-> "loading", fresh |-> NotRead, load |-> Loads(t)]
<1>1. req' = [req EXCEPT ![t] = q] /\ UNCHANGED <<sess, lock, open, disk, loaded>>
  BY DEF Reload, Ask
<1>2. q.kind = "loading" /\ q.fresh = NotRead /\ q = [kind |-> "loading", fresh |-> q.fresh, load |-> q.load]
  OBVIOUS
<1> HIDE DEF q
<1>3. NotRead = [f \in Files |-> NotRead[f]] /\ \A f \in Files : NotRead[f].load = <<>>
  BY DEF NotRead
<1>4. RequestOK(t, q, sess, lock)
  BY <1>2, <1>3 DEF RequestOK, Typed, AnswerWhole, LoadWhole
<1>5. QED BY <1>1, <1>4, OneRequest, Others, OtherFolders DEF ServerInv

LEMMA LoadFileOK ==
  ASSUME ServerInv, NEW t \in Threads, NEW f \in Files, LoadFile(t, f)
  PROVE  ServerInv'
<1> DEFINE q == req[t]
           fresh == [q.fresh EXCEPT ![f] = [version |-> written[f], load |-> q.load]]
           m == [q EXCEPT !.fresh = fresh]
<1>1. /\ q.kind = "loading" /\ UNCHANGED <<sess, lock, open, disk>>
      /\ req' = [req EXCEPT ![t] = IF Unread(fresh) = {} THEN Idle ELSE m]
      /\ loaded' = IF Unread(fresh) = {} THEN fresh ELSE loaded
  BY DEF LoadFile, Swap
<1>2. /\ q = [kind |-> "loading", fresh |-> q.fresh, load |-> q.load]
      /\ q.fresh = [g \in Files |-> q.fresh[g]]
      /\ \A g \in Files : q.fresh[g].load \in {<<>>, q.load}
  BY <1>1 DEF ServerInv, RequestsOK, RequestOK, LoadWhole
<1>3. /\ fresh = [g \in Files |-> fresh[g]]
      /\ \A g \in Files : fresh[g].load \in {<<>>, q.load}
  BY <1>2
<1>4. m = [kind |-> "loading", fresh |-> fresh, load |-> q.load]
  <2>1. PICK a, b : q = [kind |-> "loading", fresh |-> a, load |-> b]
    BY <1>2
  <2> HIDE DEF fresh
  <2>2. QED BY <2>1
<1> HIDE DEF m, q, fresh
<1>5. CASE Unread(fresh) = {}
  <2>1. OneLoad(loaded')
    BY <1>1, <1>3, <1>5 DEF Unread, OneLoad
  <2>2. RequestsOK'
    BY <1>1, <1>5, OneRequest, IdleOK DEF ServerInv
  <2>3. QED BY <1>1, <2>1, <2>2, Others, OtherFolders DEF ServerInv
<1>6. CASE Unread(fresh) # {}
  <2>1. RequestOK(t, m, sess, lock)
    BY <1>3, <1>4 DEF RequestOK, Typed, AnswerWhole, LoadWhole
  <2>2. RequestsOK'
    BY <1>1, <1>6, <2>1, OneRequest DEF ServerInv
  <2>3. QED BY <1>1, <1>6, <2>2, Others, OtherFolders DEF ServerInv
<1>7. QED BY <1>5, <1>6

LEMMA ShowOK ==
  ASSUME ServerInv, NEW t \in Threads, Show(t)
  PROVE  ServerInv'
<1> DEFINE q == Answered("entries", loaded)
<1>1. req' = [req EXCEPT ![t] = q] /\ UNCHANGED <<sess, lock, open, disk, loaded>>
  BY DEF Show, Ask
<1>2. q.kind = "answered" /\ q.how = "entries" /\ q.r = loaded
  BY DEF Answered
<1> HIDE DEF q
<1>3. RequestOK(t, q, sess, lock)
  BY <1>2 DEF RequestOK, Typed, AnswerWhole, LoadWhole, ServerInv
<1>4. QED BY <1>1, <1>3, OneRequest, Others, OtherFolders DEF ServerInv

-----------------------------------------------------------------------------
LEMMA ServerStart == Init => ServerInv
<1> SUFFICES ASSUME Init PROVE ServerInv
  OBVIOUS
<1>1. /\ sess = <<>> /\ lock = <<>> /\ open = 0 /\ disk = <<>> /\ req = [t \in Threads |-> Idle]
      /\ loaded = [f \in Files |-> [version |-> 1, load |-> <<Nobody, 0>>]]
  BY DEF Init
<1>2. SessionsOK
  BY <1>1 DEF SessionsOK
<1>3. Folders = {}
  BY <1>1 DEF Folders
<1>4. DiskOK
  <2>1. disk = [n \in Folders |-> disk[n]]
    <3>1. [n \in Folders |-> disk[n]] \in Seq(Nat) /\ Len([n \in Folders |-> disk[n]]) = 0
      <4>1. [n \in Folders |-> disk[n]] = [n \in 1 .. 0 |-> disk[n]]
        BY <1>3
      <4>2. [n \in 1 .. 0 |-> disk[n]] = <<>>
        OBVIOUS
      <4>3. QED BY <4>1, <4>2
    <3>2. QED BY <1>1, <3>1
  <2>2. QED BY <1>3, <2>1, FS_EmptySet DEF DiskOK
<1>5. RequestsOK
  BY <1>1, IdleOK DEF RequestsOK
<1>6. QED BY <1>1, <1>2, <1>4, <1>5 DEF ServerInv, OneLoad

LEMMA ServerStep == ServerInv /\ [Next]_vars => ServerInv'
<1> SUFFICES ASSUME ServerInv, [Next]_vars PROVE ServerInv'
  OBVIOUS
<1>1. CASE UNCHANGED vars
  <2>1. UNCHANGED <<sess, lock, open, disk, loaded, req>>
    BY <1>1 DEF vars
  <2>2. RequestsOK'
    BY <2>1 DEF ServerInv, RequestsOK
  <2>3. QED BY <2>1, <2>2, Others, OtherFolders DEF ServerInv
<1>2. CASE \E t \in Threads : Forget(t)
  BY <1>2, ForgetOK
<1>3. CASE \E t \in Threads : Look(t) \/ Read(t) \/ Request(t) \/ Enter(t) \/ Store(t) \/ Open(t) \/ Make(t) \/ Take(t)
  BY <1>3, LookOK, ReadOK, RequestedOK, EnterOK, StoreOK, OpenOK, MakeOK, TakeOK
<1>4. CASE \E f \in Files : Edit(f)
  BY <1>4, EditOK
<1>5. CASE \E t \in Threads : Reload(t) \/ Show(t) \/ \E f \in Files : LoadFile(t, f)
  BY <1>5, ReloadOK, ShowOK, LoadFileOK
<1>6. QED BY <1>1, <1>2, <1>3, <1>4, <1>5 DEF Next

(* A page, a log line or a summary that no change reached meanwhile is     *)
(* answered, and every part of it is of one state of the session, and a    *)
(* page of view mode is of one load of the files: for any number of        *)
(* threads, sessions, steps and files.                                     *)
THEOREM PagesAreWhole == Spec => []UntouchedIsWhole
<1>1. Init => ServerInv
  BY ServerStart
<1>2. ServerInv /\ [Next]_vars => ServerInv'
  BY ServerStep
<1>3. ServerInv => UntouchedIsWhole
  BY DEF ServerInv, RequestsOK, RequestOK, AnswerWhole, LoadWhole, OneLoad, UntouchedIsWhole, WholeSets
<1>4. QED BY <1>1, <1>2, <1>3, PTL DEF Spec

-----------------------------------------------------------------------------
(* The folders.                                                            *)

LEMMA NoFolder ==
  ASSUME RequestsOK, FolderParts, UNCHANGED <<sess, disk, raced, crossed>>, NEW t \in Threads, NEW q,
         req' = [req EXCEPT ![t] = q], q.kind # "opening", req[t].kind # "storing"
  PROVE  FolderParts'
<1>1. req' = [u \in Threads |-> IF u = t THEN q ELSE req[u]]
  BY DEF RequestsOK
<1>2. \A u \in Threads : req'[u].kind = "opening" => u # t /\ req'[u] = req[u]
  BY <1>1
<1>3. \A u \in Threads : req[u].kind = "storing" => req'[u] = req[u]
  BY <1>1
<1>4. Folders' = Folders /\ Named' /\ FoldersApart'
  BY DEF FolderParts, Named, FoldersApart, Folders
<1>5. NamesFree'
  BY <1>2, <1>4 DEF FolderParts, NamesFree
<1>6. Synced'
  BY <1>3 DEF FolderParts, Synced, Filed, Storing
<1>7. QED BY <1>4, <1>5, <1>6 DEF FolderParts

LEMMA AskNoFolder ==
  ASSUME RequestsOK, FolderParts, UNCHANGED <<sess, disk, raced, crossed>>, NEW t \in Threads, NEW q,
         Ask(t, q), q.kind # "opening"
  PROVE  FolderParts'
<1>1. req' = [req EXCEPT ![t] = q] /\ req[t].kind = "idle"
  BY DEF Ask, Idle
<1>2. QED BY <1>1, NoFolder

LEMMA OpenFolder ==
  ASSUME ServerInv, FolderParts, NEW t \in Threads, Open(t)
  PROVE  FolderParts'
<1>1. PICK q : /\ Ask(t, q) /\ q.kind = "opening" /\ (q.new => q.name \notin Folders)
  <2>1. Free(Folders) \notin Folders
    BY FreeIs DEF ServerInv, DiskOK
  <2>2. CASE \E r \in Starts :
               Ask(t, [kind |-> "opening", name |-> Free(Folders), new |-> TRUE,
                       from |-> [recipe |-> r, cursor |-> Len(r.steps)]])
    <3>1. PICK r \in Starts :
            Ask(t, [kind |-> "opening", name |-> Free(Folders), new |-> TRUE,
                    from |-> [recipe |-> r, cursor |-> Len(r.steps)]])
      BY <2>2
    <3>2. QED BY <2>1, <3>1
  <2>3. CASE \E n \in Folders : Ask(t, [kind |-> "opening", name |-> n, from |-> disk[n], new |-> FALSE])
    BY <2>3
  <2>4. QED BY <2>2, <2>3 DEF Open
<1>2. /\ req' = [u \in Threads |-> IF u = t THEN q ELSE req[u]] /\ req[t].kind = "idle"
      /\ raced' = (raced \/ \E u \in Openers \ {t} : req[u].kind = "opening")
      /\ UNCHANGED <<sess, disk, crossed>> /\ t \in Openers
  BY <1>1 DEF Open, Ask, ServerInv, RequestsOK, Idle
<1>3. Folders' = Folders /\ Named' /\ (FoldersApart => FoldersApart')
  BY <1>2 DEF FolderParts, Named, FoldersApart, Folders
<1>4. NamesFree'
  BY <1>1, <1>2, <1>3 DEF FolderParts, NamesFree
<1>5. \A u \in Threads : req[u].kind = "storing" => req'[u] = req[u]
  BY <1>2
<1>6. Synced'
  BY <1>2, <1>5 DEF FolderParts, Synced, Filed, Storing
<1>7. QED BY <1>3, <1>4, <1>6 DEF FolderParts

LEMMA MakeFolder ==
  ASSUME ServerInv, FolderParts, NEW t \in Threads, Make(t)
  PROVE  FolderParts'
<1> DEFINE q == req[t]
           r == q.from.recipe
           x == [name |-> q.name, recipe |-> r, cursor |-> q.from.cursor, new |-> q.new,
                 graphs |-> Graphs(r, Reached(r, Len(r.steps)))]
           d == [recipe |-> x.recipe, cursor |-> x.cursor]
           w == [kind |-> "opened", s |-> Len(sess) + 1]
<1>1. /\ q.kind = "opening" /\ sess' = Append(sess, x) /\ UNCHANGED raced
      /\ disk' = [n \in Folders \cup {q.name} |-> IF n = q.name THEN d ELSE disk[n]]
      /\ req' = [req EXCEPT ![t] = w]
      /\ crossed' = (crossed \/ (q.name \in Folders /\ disk[q.name] # q.from))
  BY DEF Make
<1>2. q \in [kind : {"opening"}, name : Nat, new : BOOLEAN, from : Saved]
  BY <1>1 DEF ServerInv, RequestsOK, RequestOK, Typed
<1>3. x.name = q.name /\ x.new = q.new /\ d = [recipe |-> x.recipe, cursor |-> x.cursor] /\ d = q.from
  <2>1. q.from \in [recipe : Recipes, cursor : Nat]
    BY <1>2 DEF Saved
  <2>2. q.from = [recipe |-> q.from.recipe, cursor |-> q.from.cursor]
    BY <2>1
  <2>3. x.recipe = q.from.recipe /\ x.cursor = q.from.cursor /\ x.name = q.name /\ x.new = q.new
    OBVIOUS
  <2> HIDE DEF x, q
  <2>4. QED BY <2>2, <2>3
<1>4. w.kind = "opened"
  OBVIOUS
<1> HIDE DEF x, d, w, r
<1>5. /\ Len(sess') = Len(sess) + 1 /\ sess'[Len(sess) + 1] = x /\ Len(sess) \in Nat
      /\ \A s \in 1 .. Len(sess) : sess'[s] = sess[s]
      /\ DOMAIN sess' = 1 .. Len(sess) + 1 /\ DOMAIN sess = 1 .. Len(sess)
  <2>1. sess \in Seq(Sessions \cup {x}) /\ x \in Sessions \cup {x}
    BY DEF ServerInv, SessionsOK
  <2>2. Append(sess, x) \in Seq(Sessions \cup {x})
    BY <2>1
  <2>3. QED BY <1>1, <2>1, <2>2, AppendProperties
<1>6. Folders' = Folders \cup {q.name}
  BY <1>1 DEF Folders
<1>7. req' = [u \in Threads |-> IF u = t THEN w ELSE req[u]]
  BY <1>1 DEF ServerInv, RequestsOK
<1>8. Named'
  <2>1. \A s \in 1 .. Len(sess) + 1 : sess'[s].name \in Folders'
    <3> TAKE s \in 1 .. Len(sess) + 1
    <3>1. CASE s = Len(sess) + 1
      BY <1>3, <1>5, <1>6, <3>1
    <3>2. CASE s \in 1 .. Len(sess)
      BY <1>5, <1>6, <3>2 DEF FolderParts, Named
    <3>3. QED BY <1>5, <3>1, <3>2
  <2>2. QED BY <1>5, <2>1 DEF Named
<1>9. NamesFree'
  <2>1. \A u \in Threads : req'[u].kind = "opening" => u # t /\ req'[u] = req[u]
    BY <1>4, <1>7
  <2>2. ~raced => \A u \in Threads : req'[u].kind # "opening"
    BY <1>1, <2>1 DEF FolderParts, NamesFree
  <2>3. QED BY <1>1, <2>1, <2>2 DEF FolderParts, NamesFree
<1>10. FoldersApart'
  <2> SUFFICES ASSUME ~raced, NEW a \in 1 .. Len(sess) + 1, NEW b \in 1 .. Len(sess) + 1, a # b,
                      sess'[a].new, sess'[b].new
               PROVE  sess'[a].name # sess'[b].name
    BY <1>1, <1>5 DEF FoldersApart
  <2>1. x.new => x.name \notin Folders
    BY <1>1, <1>3 DEF FolderParts, NamesFree
  <2>2. CASE a = Len(sess) + 1
    <3>1. b \in 1 .. Len(sess)
      BY <1>5, <2>2
    <3>2. QED BY <1>5, <2>1, <2>2, <3>1 DEF FolderParts, Named
  <2>3. CASE b = Len(sess) + 1
    <3>1. a \in 1 .. Len(sess)
      BY <1>5, <2>3
    <3>2. QED BY <1>5, <2>1, <2>3, <3>1 DEF FolderParts, Named
  <2>4. CASE a \in 1 .. Len(sess) /\ b \in 1 .. Len(sess)
    BY <1>5, <2>4 DEF FolderParts, FoldersApart
  <2>5. QED BY <1>5, <2>2, <2>3, <2>4
<1>11. Synced'
  <2> DEFINE Kept(s) == disk'[sess'[s].name] = [recipe |-> sess'[s].recipe, cursor |-> sess'[s].cursor]
             Left(s) == \E u \in Threads : req'[u].kind = "storing" /\ req'[u].s = s /\ req'[u].todo # <<"graph">>
  <2> SUFFICES ASSUME ~crossed' PROVE \A s \in 1 .. Len(sess) + 1 : Kept(s) \/ Left(s)
    BY <1>5 DEF Synced, Filed, Storing
  <2>1. ~crossed /\ (q.name \in Folders => disk[q.name] = q.from)
    BY <1>1
  <2>2. \A n \in Folders : disk'[n] = disk[n]
    BY <1>1, <1>3, <2>1
  <2>3. \A u \in Threads : req[u].kind = "storing" => req'[u] = req[u]
    BY <1>1, <1>7
  <2>4. ASSUME NEW s \in 1 .. Len(sess) PROVE Kept(s) \/ Left(s)
    <3>1. sess[s].name \in Folders /\ (Filed(sess[s]) \/ \E u \in Threads : Storing(u, s))
      BY <2>1 DEF FolderParts, Named, Synced
    <3>2. CASE Filed(sess[s])
      BY <1>5, <2>2, <3>1, <3>2 DEF Filed
    <3>3. CASE \E u \in Threads : Storing(u, s)
      BY <2>3, <3>3 DEF Storing
    <3>4. QED BY <3>1, <3>2, <3>3
  <2>5. Kept(Len(sess) + 1)
    BY <1>1, <1>3, <1>5
  <2> HIDE DEF Kept, Left
  <2>6. QED BY <1>5, <2>4, <2>5
<1>12. QED BY <1>8, <1>9, <1>10, <1>11 DEF FolderParts

LEMMA StoreFolder ==
  ASSUME ServerInv, FolderParts, NEW t \in Threads, Store(t)
  PROVE  FolderParts'
<1> DEFINE q == req[t]
           s == q.s
           x == sess[s]
           what == Head(q.todo)
           y == Stored(x, what, q.new)
           rest == RestOf(y, q.todo, q.new)
           w == CASE rest = <<>> -> Idle
                  [] rest = <<"log">> -> Reading(s, y.cursor, Log)
                  [] OTHER -> [q EXCEPT !.todo = rest]
           saved == [recipe |-> y.recipe, cursor |-> y.cursor]
<1>1. /\ q.kind = "storing" /\ sess' = [sess EXCEPT ![s] = y] /\ UNCHANGED raced
      /\ req' = [u \in Threads |-> IF u = t THEN w ELSE Touched(req[u], s, y)]
      /\ \/ /\ what = "write" /\ disk' = [disk EXCEPT ![y.name] = saved]
            /\ crossed' = (crossed \/ \E r \in DOMAIN sess \ {s} : sess[r].name = y.name)
         \/ what # "write" /\ UNCHANGED <<disk, crossed>>
  BY DEF Store, RestOf
<1>2. /\ sess \in Seq(Sessions) /\ \A u \in Threads : RequestOK(u, req[u], sess, lock)
      /\ \A r \in 1 .. Len(sess) : Fits(sess[r])
      /\ disk = [n \in Folders |-> disk[n]]
  BY DEF ServerInv, SessionsOK, RequestsOK, DiskOK
<1>3. /\ s \in 1 .. Len(sess) /\ q.todo \in Todos /\ q.new \in News /\ lock[s] = t /\ Half(x, q.todo, q.new)
      /\ q \in [kind : {"storing"}, s : 1 .. Len(sess), todo : Todos, new : News]
  <2>1. RequestOK(t, q, sess, lock)
    BY <1>2
  <2>2. q \in [kind : {"storing"}, s : 1 .. Len(sess), todo : Todos, new : News]
    BY <1>1, <2>1 DEF RequestOK, Typed
  <2>3. lock[s] = t /\ Half(x, q.todo, q.new)
    BY <1>1, <2>1 DEF RequestOK
  <2>4. QED BY <2>2, <2>3
<1>4. x \in Sessions /\ Fits(x)
  BY <1>2, <1>3
<1>5. /\ y \in Sessions /\ y.name = x.name /\ y.new = x.new
      /\ q.todo = <<"graph">> => y.recipe = x.recipe /\ y.cursor = x.cursor
      /\ (what # "write" /\ q.todo # <<"graph">>) => rest \in Todos /\ rest # <<"graph">>
  <2> HIDE DEF x, q
  <2> QED BY <1>3, <1>4, StoreIs
<1> HIDE DEF y, rest, what
<1>6. \A r \in Todos : r \notin {<<>>, <<"log">>}
  BY DEF Todos, ToLog
<1>7. /\ Len(sess') = Len(sess) /\ sess'[s] = y /\ \A r \in 1 .. Len(sess) : r # s => sess'[r] = sess[r]
      /\ DOMAIN sess' = 1 .. Len(sess) /\ DOMAIN sess = 1 .. Len(sess)
  <2> HIDE DEF s
  <2>1. QED BY <1>1, <1>2, <1>3, <1>5
<1>8. Folders' = Folders
  BY <1>1, <1>2 DEF Folders
<1>9. /\ \A u \in Threads : req'[u].kind = "opening" => u # t /\ req'[u] = req[u]
      /\ \A u \in Threads : (u # t /\ req[u].kind = "storing") => req'[u] = req[u]
  <2>1. w.kind # "opening"
    <3>1. Idle.kind = "idle" /\ Reading(s, y.cursor, Log).kind = "reading"
      BY DEF Idle, Reading
    <3>2. [q EXCEPT !.todo = rest].kind = "storing"
      BY <1>3
    <3> HIDE DEF q, s
    <3>3. QED BY <3>1, <3>2
  <2>2. \A u \in Threads : req[u].kind = "reading" => Touched(req[u], s, y).kind = "reading"
    <3> TAKE u \in Threads
    <3> DEFINE p == req[u]
    <3> HAVE req[u].kind = "reading"
    <3>1. IsReading(p, Len(sess))
      BY <1>2 DEF RequestOK, Typed
    <3> HIDE DEF p
    <3> DEFINE m == [p EXCEPT !.touched = TRUE]
    <3>2. m = [kind |-> "reading", s |-> p.s, k |-> p.k, parts |-> p.parts, got |-> p.got, touched |-> TRUE]
      BY <3>1, TouchIs
    <3>3. Touched(p, s, y) \in {p, m} /\ p.kind = "reading"
      BY DEF Touched, p
    <3> HIDE DEF m
    <3>4. Touched(p, s, y).kind = "reading"
      BY <3>2, <3>3
    <3>5. QED BY <3>4 DEF p
  <2>3. \A u \in Threads : req[u].kind # "reading" => Touched(req[u], s, y) = req[u]
    BY DEF Touched
  <2> HIDE DEF w, q, s
  <2>4. QED BY <1>1, <2>1, <2>2, <2>3
<1>10. NamesFree'
  BY <1>1, <1>8, <1>9 DEF FolderParts, NamesFree
<1>11. Named'
  <2> HIDE DEF s
  <2> QED BY <1>3, <1>5, <1>7, <1>8 DEF FolderParts, Named, x
<1>12. FoldersApart'
  <2>1. \A r \in 1 .. Len(sess) : sess'[r].name = sess[r].name /\ sess'[r].new = sess[r].new
    BY <1>5, <1>7
  <2>2. QED BY <1>1, <1>7, <2>1 DEF FolderParts, FoldersApart
<1>13. Synced'
  <2> DEFINE Kept(r) == disk'[sess'[r].name] = [recipe |-> sess'[r].recipe, cursor |-> sess'[r].cursor]
             Left(r) == \E u \in Threads : req'[u].kind = "storing" /\ req'[u].s = r /\ req'[u].todo # <<"graph">>
  <2> SUFFICES ASSUME ~crossed' PROVE \A r \in 1 .. Len(sess) : Kept(r) \/ Left(r)
    BY <1>7 DEF Synced, Filed, Storing
  <2>1. ~crossed
    BY <1>1
  <2>2. \A r \in 1 .. Len(sess) : Filed(sess[r]) \/ \E u \in Threads : Storing(u, r)
    BY <2>1 DEF FolderParts, Synced
  <2>3. ASSUME NEW r \in 1 .. Len(sess), r # s PROVE Kept(r) \/ Left(r)
    <3>1. ASSUME NEW u \in Threads, Storing(u, r) PROVE Left(r)
      BY <1>9, <2>3, <3>1 DEF Storing
    <3>2. ASSUME Filed(sess[r]) PROVE Kept(r)
      <4>1. sess'[r] = sess[r]
        BY <1>7, <2>3
      <4>2. CASE what = "write"
        <5>1. sess[r].name # y.name /\ disk' = [disk EXCEPT ![y.name] = saved]
          BY <1>1, <1>7, <2>3, <4>2
        <5>2. sess[r].name \in Folders
          BY DEF FolderParts, Named
        <5>3. disk'[sess[r].name] = disk[sess[r].name]
          BY <5>1, <5>2 DEF Folders
        <5>4. QED BY <3>2, <4>1, <5>3 DEF Filed
      <4>3. CASE what # "write"
        BY <1>1, <3>2, <4>1, <4>3 DEF Filed
      <4>4. QED BY <4>2, <4>3
    <3> HIDE DEF Kept, Left
    <3>3. QED BY <2>2, <3>1, <3>2
  <2>4. CASE what = "write"
    <3>1. y.name \in Folders
      BY <1>3, <1>5 DEF FolderParts, Named
    <3>2. disk'[y.name] = saved
      BY <1>1, <2>4, <3>1 DEF Folders
    <3>3. Kept(s)
      BY <1>7, <3>2
    <3> HIDE DEF Kept, Left, s
    <3>4. QED BY <2>3, <3>3
  <2>5. CASE what # "write" /\ q.todo = <<"graph">>
    <3>1. UNCHANGED disk
      BY <1>1, <2>5
    <3>2. Filed(x)
      <4>1. ASSUME NEW u \in Threads, Storing(u, s) PROVE FALSE
        <5>1. RequestOK(u, req[u], sess, lock)
          BY <1>2
        <5>2. lock[s] = u
          BY <4>1, <5>1 DEF RequestOK, Storing
        <5>3. u = t
          BY <1>3, <5>2
        <5>4. QED BY <2>5, <4>1, <5>3 DEF Storing
      <4>2. QED BY <1>3, <2>2, <4>1
    <3>3. Kept(s)
      BY <1>5, <1>7, <2>5, <3>1, <3>2 DEF Filed
    <3> HIDE DEF Kept, Left, s
    <3>4. QED BY <2>3, <3>3
  <2>6. CASE what # "write" /\ q.todo # <<"graph">>
    <3>1. rest \in Todos /\ rest # <<"graph">> /\ rest \notin {<<>>, <<"log">>}
      BY <1>5, <1>6, <2>6
    <3>2. w = [q EXCEPT !.todo = rest]
      BY <3>1
    <3> HIDE DEF w
    <3>3. w.kind = "storing" /\ w.s = s /\ w.todo = rest
      <4> HIDE DEF q
      <4> QED BY <1>3, <3>2 DEF s
    <3>4. Left(s)
      BY <1>1, <3>1, <3>3
    <3> HIDE DEF Kept, Left, s
    <3>5. QED BY <2>3, <3>4
  <2>7. QED BY <2>4, <2>5, <2>6
<1>14. QED BY <1>10, <1>11, <1>12, <1>13 DEF FolderParts

LEMMA ReadFolder ==
  ASSUME ServerInv, FolderParts, NEW t \in Threads, Read(t)
  PROVE  FolderParts'
<1> DEFINE q == req[t]
           a == Part(q.parts[Len(q.got) + 1], q)
           m == [q EXCEPT !.got = Append(@, a.value)]
           w == CASE a.how # "ok" -> Answered(a.how, q)
                  [] a.how = "ok" /\ Len(m.got) = Len(q.parts) -> Answered("page", m)
                  [] OTHER -> m
<1>1. /\ q.kind = "reading" /\ req' = [req EXCEPT ![t] = w]
      /\ UNCHANGED <<sess, disk, raced, crossed>> /\ RequestsOK
  BY DEF Read, ServerInv
<1>2. IsReading(q, Len(sess))
  BY <1>1 DEF RequestsOK, RequestOK, Typed
<1>3. m.kind = "reading"
  <2>1. m = [kind |-> "reading", s |-> q.s, k |-> q.k, parts |-> q.parts,
             got |-> Append(q.got, a.value), touched |-> q.touched]
    <3> HIDE DEF q, a
    <3> QED BY <1>2, GotMore
  <2> HIDE DEF m
  <2>2. QED BY <2>1
<1>4. Answered(a.how, q).kind = "answered" /\ Answered("page", m).kind = "answered"
  BY DEF Answered
<1> HIDE DEF m, a
<1>5. w.kind # "opening"
  BY <1>3, <1>4
<1> HIDE DEF w
<1>6. QED BY <1>1, <1>5, NoFolder

LEMMA EnterFolder ==
  ASSUME ServerInv, FolderParts, NEW t \in Threads, Enter(t)
  PROVE  FolderParts'
<1>1. PICK q : /\ req' = [req EXCEPT ![t] = q] /\ q.kind # "opening" /\ req[t].kind = "waiting"
               /\ UNCHANGED <<sess, disk, raced, crossed>>
  BY DEF Enter, Idle
<1>2. QED BY <1>1, NoFolder DEF ServerInv

LEMMA LoadFolder ==
  ASSUME ServerInv, FolderParts, NEW t \in Threads, NEW f \in Files, LoadFile(t, f)
  PROVE  FolderParts'
<1> DEFINE q == req[t]
           fresh == [q.fresh EXCEPT ![f] = [version |-> written[f], load |-> q.load]]
           m == [q EXCEPT !.fresh = fresh]
           w == IF Unread(fresh) = {} THEN Idle ELSE m
<1>1. /\ q.kind = "loading" /\ req' = [req EXCEPT ![t] = w]
      /\ UNCHANGED <<sess, disk, raced, crossed>> /\ RequestsOK
  BY DEF LoadFile, ServerInv
<1>2. q = [kind |-> "loading", fresh |-> q.fresh, load |-> q.load]
  BY <1>1 DEF RequestsOK, RequestOK, LoadWhole
<1>3. m.kind = "loading"
  <2>1. PICK a, b : q = [kind |-> "loading", fresh |-> a, load |-> b]
    BY <1>2
  <2> HIDE DEF fresh
  <2>2. QED BY <2>1
<1> HIDE DEF m, fresh
<1>4. w.kind # "opening"
  BY <1>3 DEF Idle
<1> HIDE DEF w
<1>5. QED BY <1>1, <1>4, NoFolder

LEMMA OtherFolder ==
  ASSUME ServerInv, FolderParts, NEW t \in Threads,
         Forget(t) \/ Look(t) \/ Request(t) \/ Take(t) \/ Reload(t) \/ Show(t)
  PROVE  FolderParts'
<1>1. CASE Forget(t) \/ Take(t)
  <2>1. /\ req' = [req EXCEPT ![t] = Idle] /\ req[t].kind \in {"answered", "opened"}
        /\ UNCHANGED <<sess, disk, raced, crossed>>
    BY <1>1 DEF Forget, Take
  <2>2. Idle.kind = "idle"
    BY DEF Idle
  <2>3. QED BY <2>1, <2>2, NoFolder DEF ServerInv
<1>2. CASE Look(t) \/ Request(t) \/ Reload(t) \/ Show(t)
  <2>1. PICK q : Ask(t, q) /\ q.kind # "opening" /\ UNCHANGED <<sess, disk, raced, crossed>>
    <3>1. CASE Look(t)
      <4>1. \A s, k, parts : Reading(s, k, parts).kind = "reading"
        BY DEF Reading
      <4>2. QED BY <3>1, <4>1 DEF Look
    <3>2. CASE Request(t)
      <4>1. PICK what : Wait(t, what)
        BY <3>2 DEF Request
      <4>2. QED BY <3>2, <4>1 DEF Request, Wait
    <3>3. CASE Reload(t)
      BY <3>3 DEF Reload
    <3>4. CASE Show(t)
      <4>1. Answered("entries", loaded).kind = "answered"
        BY DEF Answered
      <4>2. QED BY <3>4, <4>1 DEF Show
    <3>5. QED BY <1>2, <3>1, <3>2, <3>3, <3>4
  <2>2. QED BY <2>1, AskNoFolder DEF ServerInv
<1>3. QED BY <1>1, <1>2

LEMMA SameFolder ==
  ASSUME FolderParts, UNCHANGED <<req, sess, disk, raced, crossed>>
  PROVE  FolderParts'
BY DEF FolderParts, NamesFree, Named, FoldersApart, Synced, Filed, Storing, Folders

LEMMA FolderStart == Init => FolderParts
BY DEF Init, FolderParts, NamesFree, Named, FoldersApart, Synced, Idle

LEMMA FolderStep == ServerInv /\ FolderParts /\ [Next]_vars => FolderParts'
<1> SUFFICES ASSUME ServerInv, FolderParts, [Next]_vars PROVE FolderParts'
  OBVIOUS
<1>1. CASE UNCHANGED vars
  BY <1>1, SameFolder DEF vars
<1>2. CASE \E t \in Threads : Forget(t)
  BY <1>2, OtherFolder
<1>3. CASE \E t \in Threads : Look(t) \/ Read(t) \/ Request(t) \/ Enter(t) \/ Store(t) \/ Open(t) \/ Make(t) \/ Take(t)
  BY <1>3, OtherFolder, ReadFolder, EnterFolder, StoreFolder, OpenFolder, MakeFolder
<1>4. CASE \E f \in Files : Edit(f)
  BY <1>4, SameFolder DEF Edit
<1>5. CASE \E t \in Threads : Reload(t) \/ Show(t) \/ \E f \in Files : LoadFile(t, f)
  BY <1>5, OtherFolder, LoadFolder
<1>6. QED BY <1>1, <1>2, <1>3, <1>4, <1>5 DEF Next

(* Sessions started one after the other have folders of their own, and     *)
(* when no request is under way the open session's folder holds its        *)
(* recipe and its cursor, unless two objects of a folder were in use at    *)
(* once: for any number of threads, sessions, folders and steps.           *)
THEOREM FoldersShown == Spec => []FolderIsShown
<1>1. Init => ServerInv /\ FolderParts
  BY ServerStart, FolderStart
<1>2. ServerInv /\ FolderParts /\ [Next]_vars => (ServerInv /\ FolderParts)'
  BY ServerStep, FolderStep
<1>3. ServerInv /\ FolderParts => FolderIsShown
  <2> SUFFICES ASSUME ServerInv, FolderParts, Quiet, open # 0, ~crossed PROVE Filed(sess[open])
    BY DEF FolderParts, FolderIsShown, Filed
  <2>1. open \in 1 .. Len(sess)
    BY DEF ServerInv, SessionsOK
  <2>2. \A t \in Threads : ~Storing(t, open)
    BY DEF Quiet, Storing
  <2>3. QED BY <2>1, <2>2 DEF FolderParts, Synced
<1>4. QED BY <1>1, <1>2, <1>3, PTL DEF Spec
=============================================================================
