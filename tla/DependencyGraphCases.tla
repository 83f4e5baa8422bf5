------------------------ MODULE DependencyGraphCases ------------------------
(***************************************************************************)
(* The graph algorithms against what they are to compute, on every graph of *)
(* three issues and every order of blocking among four.                     *)
(***************************************************************************)
EXTENDS Integers, FiniteSets, Sequences

Dep == INSTANCE DependencyGraph

Ascending(S) == SelectSeq(<<1, 2, 3>>, LAMBDA i : i \in S)
Descending(S) == Dep!Reverse(Ascending(S))

Blocks(g, chain) == \A k \in 1..(Len(chain) - 1) : chain[k] \in Dep!ToSet(g[chain[k + 1]])
Simple(chain) == Cardinality(Dep!ToSet(chain)) = Len(chain)
IsCycle(g, c) == Simple(c) /\ Blocks(g, Dep!Reverse(c)) /\ c[1] \in Dep!ToSet(g[c[Len(c)]])

Reach(g) ==
  LET within[k \in Nat] == IF k = 0 THEN {<<i, j>> \in (DOMAIN g) \X (DOMAIN g) : j \in Dep!ToSet(g[i])}
                           ELSE within[k - 1] \cup
                                  {<<i, j>> \in (DOMAIN g) \X (DOMAIN g) :
                                     \E m \in DOMAIN g : <<i, m>> \in within[k - 1] /\ <<m, j>> \in within[0]}
  IN within[Cardinality(DOMAIN g)]
Cyclic(g) == \E i \in DOMAIN g : <<i, i>> \in Reach(g)

Sets3 == [1..3 -> SUBSET (1..3)]
Graphs3 == {[i \in 1..3 |-> Ascending(s[i])] : s \in Sets3} \cup {[i \in 1..3 |-> Descending(s[i])] : s \in Sets3}

\* A cycle is reported exactly if there is one, and what is reported is a simple
\* cycle of the graph, once.
ASSUME CyclesAreFound ==
  \A g \in Graphs3 :
    LET found == Dep!_detect_cycles(g)
    IN /\ (found # <<>>) = Cyclic(g)
       /\ Simple(found)
       /\ \A c \in Dep!ToSet(found) : IsCycle(g, c)

\* Not every one: the second way back to 1 leads through what is done with.
ASSUME SomeCyclesAreNot ==
  LET g == <<<<2, 3>>, <<3>>, <<1>>>>
  IN IsCycle(g, <<1, 3>>) /\ Dep!_detect_cycles(g) = <<<<1, 2, 3>>>>

Below(i) == 1..(i - 1)
Orders4 == {<<<<>>, Ascending(s[1]), Ascending(s[2]), Ascending(s[3])>> :
              s \in (SUBSET Below(2)) \X (SUBSET Below(3)) \X (SUBSET Below(4))}
\* The same with the deepest blockers last among the keys.
Mirrored(g) == [i \in 1..4 |-> [k \in DOMAIN g[5 - i] |-> 5 - g[5 - i][k]]]
Chains(g) == {c \in UNION {[1..n -> 1..4] : n \in 1..4} : Blocks(g, c)}

\* The critical path can be done in its order, and no chain is longer.
ASSUME CriticalPathIsLongest ==
  \A o \in Orders4 : \A g \in {o, Mirrored(o)} : \A path \in Dep!_compute_critical_path(g) :
     Blocks(g, path) /\ \A c \in Chains(g) : Len(c) <= Len(path)

\* There is none in a graph with a cycle, wherever the cycle is; and which of two
\* that are as long is taken is not determined.
ASSUME CriticalPathOfOthers ==
  /\ Dep!_compute_critical_path(<<<<1>>, <<3>>, <<>>>>) = {<<>>}
  /\ Dep!_compute_critical_path(<<>>) = {<<>>}
  /\ Dep!_compute_critical_path(<<<<2, 3, 7>>, <<>>, <<>>>>) = {<<2, 1>>, <<3, 1>>}

Edges(g) == {<<i, j>> \in (DOMAIN g) \X (DOMAIN g) : j \in Dep!ToSet(g[i])}
Graph(g) == [nodes |-> {[id |-> i, kind |-> "issue", type |-> ""] : i \in DOMAIN g}, edges |-> Edges(g)]
Walks(g, k) == {c \in [1..(k + 1) -> 1..3] : \A i \in 1..k : <<c[i], c[i + 1]>> \in Edges(g)}
Hops(g, id, n) == {c[1] : c \in {w \in UNION {Walks(g, k) : k \in 0..n} : w[Len(w)] = id}}

\* Downstream with N hops is what refers to it in that many; without, upstream
\* and downstream are each other's converse.
ASSUME SelectorsReach ==
  \A s \in Sets3 :
    LET g == [i \in 1..3 |-> Ascending(s[i])]
    IN \A i \in 1..3 :
         /\ \A n \in 0..2 : Dep!_resolve_downstream(i, Graph(g), n) = Hops(g, i, n)
         /\ \A j \in 1..3 : (j \in Dep!_resolve_upstream(i, Graph(g)))
                              = (i \in Dep!_resolve_downstream(j, Graph(g), Dep!Unbounded))

\* No label selects anything, and an id with a plus on either side is refused.
ASSUME SelectorsRefuse ==
  LET g == Graph(<<<<2>>, <<>>>>)
      at(before, behind) == [tag |-> "", before |-> before, behind |-> behind, target |-> 1, depth |-> Dep!Unbounded]
  IN /\ Dep!resolve_selector(g, [at(FALSE, FALSE) EXCEPT !.tag = "critical"]) = {}
     /\ Dep!Refused(g, at(TRUE, TRUE)) /\ ~Dep!Refused(g, at(FALSE, TRUE))
     /\ Dep!resolve_selector(g, at(TRUE, FALSE)) = {1, 2}
     /\ Dep!Orphans(g, "issue") = {} /\ Dep!Orphans([g EXCEPT !.edges = {}], "issue") = {1, 2}
=============================================================================
