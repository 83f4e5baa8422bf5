--------------------------- MODULE DependencyGraph ---------------------------
(***************************************************************************)
(* What is computed on the graph of issues and concepts: the cycles and the *)
(* critical path of blocked_by, what a --select expression selects, and the *)
(* orphans.  Issues are numbers here, in the order in which their keys are  *)
(* sorted; a graph is the sequence of what each is blocked by.              *)
(***************************************************************************)
EXTENDS Integers, FiniteSets, Sequences, SequencesExt, FiniteSetsExt

-----------------------------------------------------------------------------
(* blocked_by.                                                               *)

\* A blocker that is not among the issues is left out, here as in every count.
_build_adjacency(blocked_by) ==
  [i \in DOMAIN blocked_by |-> SelectSeq(blocked_by[i], LAMBDA b : b \in DOMAIN blocked_by)]

InOrder(adj) == [i \in DOMAIN adj |-> i]

\* The walk of _detect_cycles: the frames of its stack are <<issue, place among
\* its blockers>>, `path` the issues that are grey, in order.
Start(s) == <<s, 1>>
_canonical(cycle) ==
  LET least == CHOOSE i \in DOMAIN cycle : \A j \in DOMAIN cycle : cycle[i] <= cycle[j]
  IN SubSeq(cycle, least, Len(cycle)) \o SubSeq(cycle, 1, least - 1)

RECURSIVE Walk(_, _, _, _, _)
Walk(adj, stack, path, black, cycles) ==
  IF stack = <<>> THEN [black |-> black, cycles |-> cycles]
  ELSE LET top == Last(stack)
           node == top[1]
           rest == Front(stack)
           grey == IF top[2] = 1 THEN Append(path, node) ELSE path
       IN IF top[2] > Len(adj[node]) THEN Walk(adj, rest, Front(grey), black \cup {node}, cycles)
          ELSE LET next == adj[node][top[2]]
                   on == Append(rest, <<node, top[2] + 1>>)
               IN CASE next \in ToSet(grey) ->
                         LET from == CHOOSE i \in DOMAIN grey : grey[i] = next
                             cycle == _canonical(SubSeq(grey, from, Len(grey)))
                         IN Walk(adj, on, grey, black,
                                 IF cycle \in ToSet(cycles) THEN cycles ELSE Append(cycles, cycle))
                    [] next \in black -> Walk(adj, on, grey, black, cycles)
                    [] OTHER -> Walk(adj, Append(on, Start(next)), grey, black, cycles)

_detect_cycles(blocked_by) ==
  LET adj == _build_adjacency(blocked_by)
      from(st, s) == IF s \in st.black THEN st ELSE Walk(adj, <<Start(s)>>, <<>>, st.black, st.cycles)
  IN FoldLeft(from, [black |-> {}, cycles |-> <<>>], InOrder(adj)).cycles

\* Kahn's order, what is blocked before what blocks it.
RECURSIVE Kahn(_, _, _, _)
Kahn(adj, queue, indegree, topo) ==
  IF queue = <<>> THEN topo
  ELSE LET i == Head(queue)
           times(j) == Cardinality({k \in DOMAIN adj[i] : adj[i][k] = j})
           left == [j \in DOMAIN adj |-> indegree[j] - times(j)]
           lasts == {k \in DOMAIN adj[i] : \A m \in DOMAIN adj[i] : m > k => adj[i][m] # adj[i][k]}
           freed == SelectSeq([k \in DOMAIN adj[i] |-> k], LAMBDA k : k \in lasts /\ left[adj[i][k]] = 0)
       IN Kahn(adj, Tail(queue) \o [k \in DOMAIN freed |-> adj[i][freed[k]]], left, Append(topo, i))

InDegree(adj) ==
  [j \in DOMAIN adj |-> MapThenSumSet(LAMBDA i : Cardinality({k \in DOMAIN adj[i] : adj[i][k] = j}), DOMAIN adj)]

\* Nobody's parent is 0.
Longest(adj) ==
  LET indegree == InDegree(adj)
      roots == SelectSeq(InOrder(adj), LAMBDA i : indegree[i] = 0)
      relax(l, i) == [j \in DOMAIN adj |->
                        IF j \in ToSet(adj[i]) /\ l[i].length + 1 > l[j].length
                        THEN [length |-> l[i].length + 1, parent |-> i] ELSE l[j]]
  IN FoldLeft(relax, [i \in DOMAIN adj |-> [length |-> 1, parent |-> 0]], Kahn(adj, roots, indegree, <<>>))

RECURSIVE Ancestry(_, _)
Ancestry(longest, i) == IF i = 0 THEN <<>> ELSE <<i>> \o Ancestry(longest, longest[i].parent)

\* max() of a set takes the first of the longest that it comes across, and that
\* differs from one run to the next: any of them.
_compute_critical_path(blocked_by) ==
  LET longest == Longest(_build_adjacency(blocked_by))
      ends == {i \in DOMAIN longest : \A j \in DOMAIN longest : longest[j].length <= longest[i].length}
  IN IF DOMAIN blocked_by = {} \/ _detect_cycles(blocked_by) # <<>> THEN {<<>>}
     ELSE {Ancestry(longest, i) : i \in ends}

-----------------------------------------------------------------------------
(* --select.  A graph has nodes, with an id, a kind and a type each, and     *)
(* edges, pairs of ids, from what refers to what is referred to.             *)

Unbounded == -1

\* The queue has what is at one depth before what is at the next.
RECURSIVE Visit(_, _, _, _, _)
Visit(edges, visited, found, depth, max_depth) ==
  LET further == {e[2] : e \in {x \in edges : x[1] \in found}} \ (visited \cup found)
  IN IF found = {} \/ depth = max_depth THEN visited \cup found
     ELSE Visit(edges, visited \cup found, further, depth + 1, max_depth)

_bfs(start, edges, max_depth) == Visit(edges, {}, {start}, 0, max_depth)

GraphIds(graph) == {n.id : n \in graph.nodes}
_resolve_upstream(target, graph) == _bfs(target, graph.edges, Unbounded)
_resolve_downstream(target, graph, max_depth) ==
  _bfs(target, {<<e[2], e[1]>> : e \in graph.edges}, max_depth)
\* A node's type; labels are not in the graph.
_resolve_tag(tag, graph) == {n.id : n \in {x \in graph.nodes : x.type = tag}}

\* An expression is a tag, or an id with a plus before or behind it.  With both,
\* the one behind is part of an id that does not exist.
Refused(graph, expr) ==
  expr.tag = "" /\ ((expr.before /\ expr.behind) \/ expr.target \notin GraphIds(graph))

resolve_selector(graph, expr) ==
  CASE expr.tag # "" -> _resolve_tag(expr.tag, graph)
    [] expr.tag = "" /\ expr.before -> _resolve_upstream(expr.target, graph)
    [] expr.tag = "" /\ expr.behind -> _resolve_downstream(expr.target, graph, expr.depth)
    [] OTHER -> {expr.target}

-----------------------------------------------------------------------------

_compute_orphans(graph) == GraphIds(graph) \ UNION {{e[1], e[2]} : e \in graph.edges}
Orphans(graph, kind) ==
  {n.id : n \in {x \in graph.nodes : x.kind = kind /\ x.id \in _compute_orphans(graph)}}
=============================================================================
