------------------------------ MODULE MCOrders ------------------------------
(* Model-checking instance of Orders. *)
EXTENDS Orders, TLC

Project(graph, planned) ==
  [calendar |-> [weekdays |-> {1, 2, 3, 4, 5}, holidays |-> {3}], due |-> 6,
   node |-> [n \in Nodes |-> [dependencies |-> graph[n], duration |-> 2, planned |-> planned]]]

(* Every dependency graph, those with a cycle among them, and work that is planned for a
   later day; the work of a node takes two days out of a week with a holiday in it. *)
MCProjects ==
  {Project(g, None) : g \in {h \in [Nodes -> SUBSET Nodes] : \A n \in Nodes : n \notin h[n]}}
    \cup {Project([n \in Nodes |-> {}], 4)}

Says(completed, total, blocked, expected, eta) ==
  [completed |-> completed, total |-> total, blocked |-> blocked, expected |-> expected,
   eta |-> eta]

MCReports ==
  {Says(2, 2, FALSE, None, None), Says(199, 200, FALSE, None, None),
   Says(1, 2, TRUE, None, 5), Says(1, 2, FALSE, 9, None)}

Symmetry == Permutations(OrderIds) \cup Permutations(Nodes)
=============================================================================
