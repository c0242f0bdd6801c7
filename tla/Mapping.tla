------------------------------ MODULE Mapping ------------------------------
(***************************************************************************)
(* The sandbox's transforms (snax_forge/sandbox/transforms.py, compose.py, *)
(* patterns.py) on a dataflow graph, each step checked against the kernel  *)
(* (sandbox/run.py).  A transform gives {} when it refuses, else its one   *)
(* graph.  A link's depth moves no element and is left out.                *)
(***************************************************************************)
EXTENDS Dataflow

CONSTANTS
  Kernels,       \* by name, an imported graph with its inputs, symbolic (are its sizes kernel
                 \*   symbols), and three bounds: factors, what a map is split by, splits, how
                 \*   many loops more than its own, and neutral, whether split, tag_map and
                 \*   untag_map are used too, or only the transforms that split and tag at once
  Instances, Groups, Accelerators   \* the names a user gives

VARIABLES
  kernel, graph,  \* the kernel and its graph as far as it is mapped
  want            \* what the kernel's own graph gives on the inputs
vars == <<kernel, graph, want>>

Imported == Kernels[kernel].graph
FactorSet == Kernels[kernel].factors

Id(m, suffix) == Append(m, suffix)
Fresh(m, taken) == Id(m, CHOOSE k \in 1 .. Cardinality(taken) + 1 :
                           /\ Id(m, k) \notin taken
                           /\ \A j \in 1 .. k - 1 : Id(m, j) \in taken)
Ids(g) == \* a replaced map's too, which the code may use again and then not unbind
  DOMAIN g.maps \cup {n.id : n \in ToSet(g.nodes)}
  \cup {n.replaced.map : n \in {n \in ToSet(g.nodes) : n.kind = "unit"}}

(* _map_dims: a function on every dimension of a leaf, and of what a unit  *)
(* replaced.                                                               *)
EachDim(n, F(_)) ==
  LET x(m) == [m EXCEPT !.sub = [d \in DOMAIN m.sub |-> F(m.sub[d])]]
      t(n1) == [n1 EXCEPT !.in = [k \in DOMAIN n1.in |-> x(n1.in[k])], !.out = x(n1.out)]
  IN CASE n.kind = "link" -> n
       [] n.kind = "tasklet" -> t(n)
       [] n.kind = "unit" ->
            [t(n) EXCEPT !.replaced.tasks = [k \in DOMAIN n.replaced.tasks |-> t(n.replaced.tasks[k])]]
AllDims(n) ==
  UNION {ToSet(x.sub) : x \in Memlets(n)}
  \cup (IF n.kind # "unit" THEN {}
        ELSE UNION {UNION {ToSet(x.sub) : x \in Memlets(t)} : t \in ToSet(n.replaced.tasks)})

(* A dimension with a variable's coefficient taken out, or put in.         *)
Co(d, m) == IF m \in DOMAIN d.co THEN d.co[m] ELSE 0
Without(co, ms) == Restrict(co, DOMAIN co \ ms)
Without1(d, m) == [d EXCEPT !.co = Without(@, {m})]

-----------------------------------------------------------------------------
(* split, tag_map, untag_map, split_map and join_map.                      *)
Untagged(g, m) == g.maps[m].kind = {}

Split(g, m, f) ==
  LET n == g.maps[m].count
      inner == Fresh(m, Ids(g))
      made == [begin |-> g.maps[m].begin, count |-> n, valid |-> IF n % f = 0 THEN {} ELSE {n}]
      outer == [g.maps[m] EXCEPT !.begin = 0, !.count = (n + f - 1) \div f, !.split = {made}]
      dim(d) == IF Co(d, m) = 0 THEN d
                ELSE [d EXCEPT !.c = @ + d.co[m] * made.begin,
                               !.co = (m :> f * d.co[m]) @@ (inner :> d.co[m]) @@ @]
      at(p) == SelectInSeq(p, LAMBDA x : x = m)
  IN IF ~ Untagged(g, m) THEN {}
     ELSE {[g EXCEPT !.maps = (m :> outer) @@ (inner :> Map(0, f)) @@ @,
                     !.nodes = [i \in DOMAIN @ |->
                       IF i \notin Inside(g, m) THEN @[i]
                       ELSE [EachDim(@[i], dim) EXCEPT !.path = InsertAt(@, at(@) + 1, inner)]]]}

Tag(g, m, kind) ==
  IF ~ Untagged(g, m) THEN {} ELSE {[g EXCEPT !.maps[m].kind = {kind}]}
UntagAny(g, m) == \* a mutant: a unit's loop too
  IF Untagged(g, m) THEN {} ELSE {[g EXCEPT !.maps[m].kind = {}]}
Untag(g, m) ==
  IF \/ Untagged(g, m)
     \/ \E i \in Inside(g, m) : g.nodes[i].kind = "unit" THEN {}
  ELSE {[g EXCEPT !.maps[m].kind = {}]}
SplitMap(g, m, f) ==
  UNION {UNION {Tag(h, Kids(h, PathTo(h, m))[1], "spatial") : h \in Tag(s, m, "temporal")} :
           s \in Split(g, m, f)}

(* join_map: every index k + c * (b + f * v_t + v_s) becomes k + c * v.    *)
Join(g, m) ==
  LET kids == Kids(g, PathTo(g, m))
      inner == kids[1]
      f == g.maps[inner].count
      was == CHOOSE s \in g.maps[m].split : TRUE
      wrote(d) == Co(d, m) = f * Co(d, inner)
      dim(d) == IF Co(d, inner) = 0 THEN d
                ELSE [d EXCEPT !.c = @ - d.co[inner] * was.begin,
                               !.co = (m :> d.co[inner]) @@ Without(@, {inner})]
  IN IF \/ g.maps[m].split = {}
        \/ Len(kids) # 1 \/ ~ IsMap(g, inner)
        \/ g.maps[inner].begin # 0
        \/ \E i \in Inside(g, m) : \E d \in AllDims(g.nodes[i]) : ~ wrote(d) THEN {}
     ELSE {[g EXCEPT !.maps = (m :> [@[m] EXCEPT !.begin = was.begin, !.count = was.count,
                                                 !.kind = {}, !.split = {}]) @@ Without(@, {inner}),
                     !.nodes = [i \in DOMAIN @ |->
                       IF i \notin Inside(g, m) THEN @[i]
                       ELSE [EachDim(@[i], dim) EXCEPT !.path = Remove(@, inner)]]]}

-----------------------------------------------------------------------------
(* bind and unbind.  A fused nest's two tasklets bind as one (fused_view). *)
FusedNest(g, kids) ==
  /\ Len(kids) = 2
  /\ ~ IsMap(g, kids[1]) /\ ~ IsMap(g, kids[2])
  /\ LET t == g.nodes[Leaf(g, kids[1])]
         u == g.nodes[Leaf(g, kids[2])]
     IN /\ t.kind = "tasklet" /\ u.kind = "tasklet"
        /\ Len(u.in) = 1 /\ u.in[1] = t.out /\ t.fold = {}
OneTasklet(g, kids) ==
  Len(kids) = 1 /\ ~ IsMap(g, kids[1]) /\ g.nodes[Leaf(g, kids[1])].kind = "tasklet"

(* match: the BRM's pattern over the tasklets.                             *)
Brms == {"elementwise_mul", "elementwise_add", "accumulate", "mac"}
OpOf(brm) == CASE brm = "elementwise_mul" -> "mul" [] brm = "elementwise_add" -> "add"
               [] brm = "accumulate" -> "copy" [] brm = "mac" -> "mul"
Matches(brm, tasks, smap) ==
  LET t == tasks[1]
      u == Last(tasks)
  IN /\ Len(tasks) = (IF brm = "mac" THEN 2 ELSE 1)
     /\ t.op = OpOf(brm) /\ Len(t.in) = (IF brm = "accumulate" THEN 1 ELSE 2)
     /\ Rated(brm) => u.op = "copy" \/ brm = "accumulate"
     /\ Rated(brm) => u.fold = {"add"}
     /\ brm = "mac" => smap \in Vars(u.out)

Bind(g, smap, brm, inst) ==
  LET path == PathTo(g, smap)
      kids == Kids(g, path)
      W == g.maps[smap].count
      tasks == [k \in DOMAIN kids |-> g.nodes[Leaf(g, kids[k])]]
      in == tasks[1].in
      out == Last(tasks).out
      folds == Last(tasks).fold # {} /\ smap \notin Vars(out)
      over(x) == {d \in DOMAIN x.sub : smap \in DOMAIN x.sub[d].co}
      lanes(x) == \* _lanes_dims
        [x EXCEPT !.sub = [d \in DOMAIN @ |->
           IF d \notin over(x) THEN @[d]
           ELSE [Without1(@[d], smap) EXCEPT !.len = W, !.step = x.sub[d].co[smap]]]]
      oneLane(x) == [x EXCEPT !.sub[Len(x.sub)].len = 1]
      taken == IF Len(tasks) = 2 /\ g.conts[tasks[1].out.data].local # {}
                 THEN {tasks[1].out.data} ELSE {}
      unit == [id |-> tasks[1].id, kind |-> "unit", path |-> Front(path), brm |-> brm,
               op |-> OpOf(brm), W |-> W, in |-> [k \in DOMAIN in |-> lanes(in[k])],
               out |-> IF folds THEN oneLane(out) ELSE lanes(out),
               inst |-> inst, group |-> {}, acc |-> {},
               replaced |-> [map |-> smap, attrs |-> g.maps[smap],
                             tasks |-> [k \in DOMAIN tasks |-> [tasks[k] EXCEPT !.path = <<>>]],
                             locals |-> {<<c, g.conts[c]>> : c \in taken}]]
  IN IF \/ ~ Tagged(g, smap, "spatial")
        \/ ~ (OneTasklet(g, kids) \/ FusedNest(g, kids)) THEN {}
     ELSE IF \/ \E m \in ToSet(Front(path)) : ~ Tagged(g, m, "temporal")
             \/ ~ Matches(brm, tasks, smap)
             \/ ~ WideEnough(g, in, out)
             \/ g.maps[smap].begin # 0
             \/ \E x \in ToSet(in) \cup (IF folds THEN {} ELSE {out}) :
                  \/ Cardinality(over(x)) # 1
                  \/ \E d \in over(x) : x.sub[d].len # 0 \/ x.sub[d].co[smap] < 0
             \/ brm = "accumulate" /\ ~ folds \* the lanes of its ports differ
             \/ brm # "accumulate" /\ folds /\ W # 1
             \/ Rated(brm) /\ ~ RateHolds(Front(path), out) THEN {}
     ELSE {[g EXCEPT !.maps = Without(@, {smap}), !.conts = Without(@, taken),
                     !.nodes = LET first == Leaf(g, kids[1])
                               IN SubSeq(@, 1, first - 1) \o <<unit>>
                                  \o SubSeq(@, first + Len(tasks), Len(@))]}

OnLinkAsWriter(g, inst) == \E i \in DOMAIN g.nodes : g.nodes[i].kind = "link" /\ inst = g.nodes[i].from \* a mutant
OnLink(g, inst) == \E i \in DOMAIN g.nodes : g.nodes[i].kind = "link" /\ inst \in {g.nodes[i].from, g.nodes[i].to}
Unbind(g, i) ==
  LET n == g.nodes[i]
      was == n.replaced
  IN IF OnLink(g, n.inst) THEN {}
     ELSE {[g EXCEPT !.maps = (was.map :> was.attrs) @@ @,
                     !.conts = @ @@ [c \in {l[1] : l \in was.locals} |->
                                       (CHOOSE l \in was.locals : l[1] = c)[2]],
                     !.nodes = SubSeq(@, 1, i - 1)
                       \o [k \in DOMAIN was.tasks |->
                             [was.tasks[k] EXCEPT !.path = Append(n.path, was.map)]]
                       \o SubSeq(@, i + 1, Len(@))]}

-----------------------------------------------------------------------------
(* split_reduce and join_reduce: a fold as partials, one per lane, and     *)
(* their final sum.  The lengths that leave a tail are refused.            *)
SplitReduce(g, m, f) ==
  LET path == PathTo(g, m)
      kids == Kids(g, path)
      was == g.nodes[Leaf(g, kids[1])]
      kept == SelectSeq([d \in DOMAIN was.out.sub |-> d],
                        LAMBDA d : DOMAIN was.out.sub[d].co \cap ToSet(Front(path)) # {})
      index == [k \in DOMAIN kept |-> was.out.sub[kept[k]]]
      made(h) ==
        LET inner == Kids(h, path)[1]
            i == Leaf(h, was.id)
            t == h.nodes[i]
            partial == Fresh(was.out.data, DOMAIN h.conts)
            final == Fresh(Id(m, 0), Ids(h))
            over(v) == Memlet(partial, Append(index, Index(0, v :> 1)))
            last == Tasklet(Fresh(Id(t.id, 0), Ids(h)), Append(Front(path), final), t.op,
                            <<over(final)>>, t.out, t.fold)
        IN [h EXCEPT
              !.conts = (partial :> [shape |-> Append([k \in DOMAIN kept |-> @[t.out.data].shape[kept[k]]], f),
                                     bits |-> @[t.out.data].bits, transient |-> TRUE,
                                     local |-> {}]) @@ @,
              !.maps = (final :> [Map(0, f) EXCEPT !.kind = {"spatial"}])
                       @@ [@ EXCEPT ![m].reduce = {[partial |-> partial, final |-> final]}],
              !.nodes = SubSeq(@, 1, i - 1) \o <<[t EXCEPT !.out = over(inner)], last>>
                        \o SubSeq(@, i + 1, Len(@))]
  IN IF ~ (Untagged(g, m) /\ OneTasklet(g, kids)) THEN {}
     ELSE IF was.fold = {} \/ m \in Vars(was.out) \/ Len(was.in) # 1
             \/ g.maps[m].count % f # 0 THEN {}
     ELSE {made(h) : h \in SplitMap(g, m, f)}

JoinReduce(g, m) ==
  LET rec == CHOOSE r \in g.maps[m].reduce : TRUE
      path == PathTo(g, m)
      kids == Kids(g, path)
      under == Kids(g, Append(path, kids[1]))
      last == Kids(g, Append(Front(path), rec.final))
      users == {g.nodes[i].id : i \in Users(g, rec.partial)}
               \cup {g.nodes[i].id : i \in {i \in DOMAIN g.nodes :
                       g.nodes[i].kind = "link" /\ g.nodes[i].cont = rec.partial}}
      gone == [g EXCEPT !.conts = Without(@, {rec.partial}),
                        !.maps = [Without(@, {rec.final}) EXCEPT ![m].reduce = {}],
                        !.nodes = [i \in DOMAIN SelectSeq(@, LAMBDA n : rec.final \notin ToSet(n.path)) |->
                          LET n == SelectSeq(g.nodes, LAMBDA k : rec.final \notin ToSet(k.path))[i]
                          IN IF n.id = under[1] THEN [n EXCEPT !.out = g.nodes[Leaf(g, last[1])].out]
                             ELSE n]]
  IN IF g.maps[m].reduce = {} THEN {}
     ELSE IF \/ ~ IsMap(g, rec.final) \* the final sum is bound
             \/ Len(kids) # 1 \/ ~ IsMap(g, kids[1]) THEN {}
     ELSE IF \/ ~ OneTasklet(g, under)
             \/ Front(PathTo(g, rec.final)) # Front(path)
             \/ IsMap(g, last[1]) \/ users # {under[1], last[1]} THEN {}
     ELSE Join(gone, m)

-----------------------------------------------------------------------------
(* fuse_map and unfuse_map: two adjacent nests joined by a transient, its  *)
(* value from then on the fused nest's own.                                *)
Subtree(g, m) == \* as fuse_map keeps it
  LET above == Front(PathTo(g, m))
      below(n) == [n EXCEPT !.path = SubSeq(@, Len(above) + 1, Len(@))]
      nodes == SelectSeq(g.nodes, LAMBDA n : m \in ToSet(n.path))
  IN [maps |-> Restrict(g.maps, UNION {ToSet(below(n).path) : n \in ToSet(nodes)}),
      nodes |-> [k \in DOMAIN nodes |-> below(nodes[k])]]

Fuse(g, first, second) ==
  LET above == Front(PathTo(g, first))
      siblings == Kids(g, above)
      t == g.nodes[Min(Inside(g, first))]
      u == g.nodes[Min(Inside(g, second))]
      levels == Len(above) + 1 .. Len(t.path)
      name(v) == IF \E k \in levels : u.path[k] = v
                   THEN t.path[CHOOSE k \in levels : u.path[k] = v] ELSE v
      dim(d) == [d EXCEPT !.co = [v \in {name(w) : w \in DOMAIN @} |->
                                    d.co[CHOOSE w \in DOMAIN d.co : name(w) = v]]]
      renamed(n) == [EachDim(n, dim) EXCEPT !.path = [k \in DOMAIN @ |-> name(@[k])]]
      read == {k \in DOMAIN u.in : u.in[k].data = t.out.data}
  IN IF \/ Len(siblings) < 2
        \/ ~ \E k \in 1 .. Len(siblings) - 1 : siblings[k] = first /\ siblings[k + 1] = second
        \/ ~ IsMap(g, second) \/ Cardinality(Inside(g, first)) # 1
        \/ t.kind # "tasklet" \/ u.kind # "tasklet" \/ Len(t.path) # Len(u.path) THEN {}
     ELSE IF \/ \E k \in levels : LET a == g.maps[t.path[k]]
                                      b == g.maps[u.path[k]]
                                  IN <<a.begin, a.count, a.kind>> # <<b.begin, b.count, b.kind>>
             \/ Cardinality(read) # 1
             \/ \E k \in read : renamed(u).in[k] # t.out
             \/ ~ g.conts[t.out.data].transient \/ t.fold # {}
             \/ {g.nodes[i].id : i \in Users(g, t.out.data)} # {t.id, u.id} THEN {}
     ELSE {[g EXCEPT
              !.maps = [Without(@, {u.path[k] : k \in levels}) EXCEPT ![first].fused =
                          {[first |-> Subtree(g, first), second |-> Subtree(g, second),
                            roots |-> <<first, second>>, local |-> t.out.data]}],
              !.conts[t.out.data].local = {first},
              !.nodes = [i \in DOMAIN @ |-> IF i \in Inside(g, second) THEN renamed(@[i]) ELSE @[i]]]}

Unfuse(g, m) ==
  LET rec == CHOOSE r \in g.maps[m].fused : TRUE
      above == Front(PathTo(g, m))
      back(s) == [k \in DOMAIN s.nodes |-> [s.nodes[k] EXCEPT !.path = above \o @]]
      at == Min(Inside(g, m))
      was == [g EXCEPT !.maps = rec.first.maps @@ rec.second.maps
                                @@ Without(@, DOMAIN Subtree(g, m).maps),
                       !.conts[rec.local].local = {},
                       !.nodes = SubSeq(@, 1, at - 1) \o back(rec.first) \o back(rec.second)
                                 \o SubSeq(@, Max(Inside(g, m)) + 1, Len(@))]
  IN IF g.maps[m].fused = {} THEN {}
     ELSE IF rec.local \notin DOMAIN g.conts THEN {}
     ELSE IF g \in Fuse(was, rec.roots[1], rec.roots[2]) THEN {was} ELSE {} \* changed since

-----------------------------------------------------------------------------
(* link and unlink: the beats a writer gives are the reader's, in order.   *)
Group(n) == IF n.group = {} THEN n.inst ELSE CHOOSE x \in n.group : TRUE
Units(g) == SelectSeq(g.nodes, LAMBDA n : n.kind = "unit")
Links(g) == SelectSeq(g.nodes, LAMBDA n : n.kind = "link")
InstancesOf(g) == {n.inst : n \in ToSet(Units(g))}
Order(g, members) == \* the instances, by their first node
  LET us == SelectSeq(Units(g), LAMBDA n : n.inst \in members)
      first == SelectSeq([i \in DOMAIN us |-> i],
                         LAMBDA i : \A j \in 1 .. i - 1 : us[j].inst # us[i].inst)
  IN [k \in DOMAIN first |-> us[first[k]].inst]
Beats(g, n, x, named) ==
  LET loops == SelectSeq(n.path, LAMBDA m : named => m \in Vars(x))
      es == Points(g, loops)
  IN [i \in DOMAIN es |-> [l \in 1 .. Lanes(x) |-> Elem(x, es[i], l - 1)]]
In(n, c) == CHOOSE x \in ToSet(n.in) : x.data = c
BeatsMatch(g, w, r, c) == Beats(g, w, w.out, Rated(w.brm)) = Beats(g, r, In(r, c), FALSE)

IsChain(hops, order) ==
  /\ Len(hops) = Len(order) - 1
  /\ ToSet(hops) = {<<order[k], order[k + 1]>> : k \in 1 .. Len(order) - 1}

Link(g, c, group) ==
  LET writers == {i \in DOMAIN g.nodes : g.nodes[i].kind # "link" /\ g.nodes[i].out.data = c}
      readers == {i \in DOMAIN g.nodes :
                    g.nodes[i].kind # "link" /\ \E x \in ToSet(g.nodes[i].in) : x.data = c}
      wi == CHOOSE i \in writers : TRUE
      ri == CHOOSE i \in readers : TRUE
      w == g.nodes[wi]
      r == g.nodes[ri]
      members == {n.inst : n \in {n \in ToSet(Units(g)) : Group(n) \in {Group(w), Group(r)}}}
      mine == {n \in ToSet(Units(g)) : n.inst \in members}
      others == ToSet(Units(g)) \ mine
      hops == [k \in DOMAIN SelectSeq(Links(g), LAMBDA n : n.from \in members) |->
                 LET n == SelectSeq(Links(g), LAMBDA x : x.from \in members)[k] IN <<n.from, n.to>>]
      shared == LongestCommonPrefix({w.path, r.path})
      at == IF r.path = shared THEN ri ELSE Min(Inside(g, r.path[Len(shared) + 1]))
      node == [id |-> c, kind |-> "link", path |-> shared, cont |-> c, from |-> w.inst, to |-> r.inst]
      grouped(n) == IF n.kind = "unit" /\ n \in mine THEN [n EXCEPT !.group = {group}] ELSE n
  IN IF \/ ~ g.conts[c].transient \/ g.conts[c].local # {}
        \/ \E n \in ToSet(Links(g)) : n.cont = c
        \/ Cardinality(writers) # 1 \/ Cardinality(readers) # 1 THEN {}
     ELSE IF w.kind # "unit" \/ r.kind # "unit" THEN {}
     ELSE IF \/ ~ BeatsMatch(g, w, r, c)
             \/ ~ UNION {n.group : n \in mine} \subseteq {group}
             \/ group \in {n.inst : n \in others} \cup {Group(n) : n \in others}
             \/ Cardinality({n.acc : n \in mine}) > 1
             \/ wi >= ri
             \/ ~ IsChain(Append(hops, <<w.inst, r.inst>>), Order(g, members)) THEN {}
     ELSE {[g EXCEPT !.nodes = LET gs == [i \in DOMAIN @ |-> grouped(@[i])]
                               IN InsertAt(gs, at, node)]}

UnlinkKeepsGroup(g, i) == {[g EXCEPT !.nodes = RemoveAt(@, i)]} \* a mutant
Unlink(g, i) ==
  LET gone == g.nodes[i]
      rest == [g EXCEPT !.nodes = RemoveAt(@, i)]
      name == Group(CHOOSE n \in ToSet(Units(g)) : n.inst = gone.from)
      members == {n.inst : n \in {n \in ToSet(Units(g)) : Group(n) = name}}
      joined(ps, n) == IF n.from \notin members THEN ps
                       ELSE {p \in ps : n.from \notin p /\ n.to \notin p}
                            \cup {UNION {p \in ps : n.from \in p \/ n.to \in p}}
      parts == FoldLeft(joined, {{u} : u \in members}, Links(rest))
      alone == UNION {p \in parts : Cardinality(p) = 1}
  IN IF Cardinality({p \in parts : Cardinality(p) > 1}) > 1 THEN {}
     ELSE {[rest EXCEPT !.nodes = [k \in DOMAIN @ |->
              IF @[k].kind = "unit" /\ @[k].inst \in alone THEN [@[k] EXCEPT !.group = {}] ELSE @[k]]]}

-----------------------------------------------------------------------------
(* encapsulate and unencapsulate: groups of one accelerator.               *)
Encapsulate(g, acc, units) ==
  LET nodes == ToSet(Units(g))
  IN IF \/ units = {} \/ ~ units \subseteq InstancesOf(g)
        \/ \E n \in nodes : n.inst \in units /\ n.acc # {}
        \/ acc \in InstancesOf(g) \/ \E n \in nodes : acc \in n.acc THEN {}
     ELSE {[g EXCEPT !.nodes = [i \in DOMAIN @ |->
              IF @[i].kind = "unit" /\ @[i].inst \in units THEN [@[i] EXCEPT !.acc = {acc}] ELSE @[i]]]}
Unencapsulate(g, acc) ==
  IF ~ \E n \in ToSet(Units(g)) : acc \in n.acc THEN {}
  ELSE {[g EXCEPT !.nodes = [i \in DOMAIN @ |->
           IF @[i].kind = "unit" /\ acc \in @[i].acc THEN [@[i] EXCEPT !.acc = {}] ELSE @[i]]]}

-----------------------------------------------------------------------------
(* Graph.from_dict: what a transform's result is refused for.              *)
WellFormed(g) ==
  /\ \A i, j \in DOMAIN g.nodes : g.nodes[i].id = g.nodes[j].id => i = j
  /\ \A i \in DOMAIN g.nodes : \A x \in Memlets(g.nodes[i]) :
       /\ x.data \in DOMAIN g.conts
       /\ Vars(x) \subseteq ToSet(g.nodes[i].path)
  /\ \A n, k \in ToSet(Units(g)) : n.inst = k.inst =>
       <<n.brm, n.W, n.group, n.acc>> = <<k.brm, k.W, k.group, k.acc>>
  /\ \A n \in ToSet(Units(g)) : n.acc \cap InstancesOf(g) = {}

(* checked_step: the graph a transform made runs, and gives what the       *)
(* kernel gives.                                                           *)
Agrees(g) == \E d \in Execute(g, Kernels[kernel].inputs) : Results(g, d) = want
Step(made) == \E g \in made : WellFormed(g) /\ Agrees(g) /\ graph' = g /\ UNCHANGED <<kernel, want>>

Depth(g) == MapThenSumSet(LAMBDA i : Len(g.nodes[i].path) + (IF g.nodes[i].kind = "unit" THEN 1 ELSE 0),
                          {i \in DOMAIN g.nodes : g.nodes[i].kind # "link"})
Room == Depth(graph) - Depth(Imported) < Kernels[kernel].splits
Neutral == Kernels[kernel].neutral
Maps == DOMAIN graph.maps
Nodes == DOMAIN graph.nodes
UnitNodes == {i \in Nodes : graph.nodes[i].kind = "unit"}
LinkNodes == {i \in Nodes : graph.nodes[i].kind = "link"}

split == Neutral /\ Room /\ \E m \in Maps, f \in FactorSet : Step(Split(graph, m, f))
split_map == Room /\ \E m \in Maps, f \in FactorSet : Step(SplitMap(graph, m, f))
tag_map == Neutral /\ \E m \in Maps, k \in {"temporal", "spatial"} :
  /\ k = "spatial" => \A i \in Inside(graph, m) : Last(graph.nodes[i].path) = m \* a bound
  /\ Step(Tag(graph, m, k))
untag_map == Neutral /\ \E m \in Maps : Step(Untag(graph, m))
join_map == \E m \in Maps : Step(Join(graph, m))
bind == \E m \in Maps, b \in Brms, u \in Instances : Step(Bind(graph, m, b, u))
unbind == \E i \in UnitNodes : Step(Unbind(graph, i))
split_reduce == Room /\ \E m \in Maps, f \in FactorSet : Step(SplitReduce(graph, m, f))
join_reduce == \E m \in Maps : Step(JoinReduce(graph, m))
fuse_map == \E m, k \in Maps : Step(Fuse(graph, m, k))
unfuse_map == \E m \in Maps : Step(Unfuse(graph, m))
link == \E c \in DOMAIN graph.conts, x \in Groups : Step(Link(graph, c, x))
unlink == \E i \in LinkNodes : Step(Unlink(graph, i))
encapsulate == \E a \in Accelerators, us \in SUBSET Instances : Step(Encapsulate(graph, a, us))
unencapsulate == \E a \in Accelerators : Step(Unencapsulate(graph, a))

Init == /\ kernel \in DOMAIN Kernels
        /\ graph = Imported
        /\ \E d \in Execute(graph, Kernels[kernel].inputs) : want = Results(graph, d)
Next == \/ split \/ split_map \/ tag_map \/ untag_map \/ join_map \/ bind \/ unbind
        \/ split_reduce \/ join_reduce \/ fuse_map \/ unfuse_map \/ link \/ unlink
        \/ encapsulate \/ unencapsulate
Spec == Init /\ [][Next]_vars

-----------------------------------------------------------------------------
(* What a transform may give that is not the kernel, and checked_step then *)
(* refuses: a split with a tail of a map that is half of a split; a        *)
(* join_map of a split whose inner map was split since; a split_reduce     *)
(* under a map the reduction also runs over; a map made spatial around a   *)
(* unit, untagged by join_map.                                             *)
Half(g, m) == \/ g.maps[m].split # {}
              \/ \E p \in DOMAIN g.maps : g.maps[p].split # {} /\ Kids(g, PathTo(g, p)) = <<m>>
UnitIn(g, m) == \E i \in Inside(g, m) : g.nodes[i].kind = "unit"
WithTail(g, m, f) ==
  \/ g.maps[m].count % f # 0
  \/ \E p \in ToSet(PathTo(g, m)) : Tailed(g, p)
Cuts == {p \in Maps \X FactorSet : ~ (Half(graph, p[1]) /\ WithTail(graph, p[1], p[2]))}
Unchecked ==
  UNION {Split(graph, p[1], p[2])
         \cup (IF UnitIn(graph, p[1]) THEN {} ELSE SplitMap(graph, p[1], p[2])) : p \in Cuts}
  \cup UNION {Tag(graph, m, k) : m \in {m \in Maps : ~ UnitIn(graph, m)}, k \in {"temporal", "spatial"}}
  \cup UNION {Untag(graph, m) : m \in Maps}
  \cup UNION {Join(graph, m) : m \in {m \in Maps :
              /\ ~ UnitIn(graph, m)
              /\ \A k \in Maps : Kids(graph, PathTo(graph, m)) = <<k>> => graph.maps[k].split = {}}}
  \cup UNION {Bind(graph, m, b, u) : m \in Maps, b \in Brms, u \in Instances}
  \cup UNION {Unbind(graph, i) : i \in UnitNodes}
  \cup UNION {SplitReduce(graph, m, f) : m \in {m \in Maps :
              \A i \in Inside(graph, m) :
                 ToSet(Front(PathTo(graph, m))) \subseteq Vars(graph.nodes[i].out)}, f \in FactorSet}
  \cup UNION {JoinReduce(graph, m) : m \in Maps}
  \cup UNION {Fuse(graph, m, k) : m \in Maps, k \in Maps}
  \cup UNION {Unfuse(graph, m) : m \in Maps}
  \cup UNION {Link(graph, c, x) : c \in DOMAIN graph.conts, x \in Groups}
  \cup UNION {Unlink(graph, i) : i \in LinkNodes}
(* Every other graph a transform makes and the graph's own rules accept    *)
(* computes the kernel: binding, fusing, splitting a reduction and linking *)
(* rest on their own guards, not on the run that follows.                  *)
StepsPreserve == \A g \in Unchecked : WellFormed(g) => Agrees(g)

(* A transform's inverse gives back the very graph it was applied to, the  *)
(* second split of a map and a group that was there before apart.          *)
InversesUndo ==
  /\ \A m \in Maps, f \in FactorSet : graph.maps[m].split = {} =>
       /\ \A h \in Split(graph, m, f) \cup SplitMap(graph, m, f) : Join(h, m) = {graph}
       /\ \A h \in SplitReduce(graph, m, f) : JoinReduce(h, m) = {graph}
  /\ \A m \in Maps : ~ UnitIn(graph, m) =>
       \A h \in Tag(graph, m, "temporal") : Untag(h, m) = {graph}
  /\ \A m \in Maps, b \in Brms, u \in Instances \ InstancesOf(graph) :
       \A h \in Bind(graph, m, b, u) :
         Unbind(h, CHOOSE i \in DOMAIN h.nodes : h.nodes[i].kind = "unit" /\ h.nodes[i].inst = u) = {graph}
  /\ \A m, k \in Maps : \A h \in Fuse(graph, m, k) : Unfuse(h, m) = {graph}
  /\ \A c \in DOMAIN graph.conts, x \in Groups : \A h \in Link(graph, c, x) :
       (\A n \in ToSet(Units(graph)) : n.group = {}) =>
         Unlink(h, CHOOSE i \in DOMAIN h.nodes : h.nodes[i].kind = "link" /\ h.nodes[i].cont = c) = {graph}

(* A link's promise outlives the steps after it: its writer's beats are    *)
(* its reader's, in order, the writer first, and its group a chain.        *)
LinksHold ==
  \A k \in LinkNodes :
    LET l == graph.nodes[k]
        w == {i \in UnitNodes : graph.nodes[i].inst = l.from /\ graph.nodes[i].out.data = l.cont}
        r == {i \in UnitNodes : graph.nodes[i].inst = l.to
                                /\ \E x \in ToSet(graph.nodes[i].in) : x.data = l.cont}
    IN /\ Cardinality(w) = 1 /\ Cardinality(r) = 1
       /\ \A i \in w, j \in r : /\ i < k /\ k < j
                                /\ BeatsMatch(graph, graph.nodes[i], graph.nodes[j], l.cont)
                                /\ graph.nodes[i].group = graph.nodes[j].group
                                /\ graph.nodes[i].group # {}
(* What the transforms' docs say of the inverses: a graph at any step can  *)
(* go back to the imported one.                                            *)
Undone(g) == \A m \in DOMAIN g.maps : g.maps[m] = [g.maps[m] EXCEPT !.kind = {}, !.split = {}, !.reduce = {}, !.fused = {}]
CanGoBack == Undone(graph) /\ UnitNodes = {} /\ LinkNodes = {} => graph = Imported
=============================================================================
