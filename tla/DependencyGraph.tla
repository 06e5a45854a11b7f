---------------------------- MODULE DependencyGraph ----------------------------
(***************************************************************************)
(* The Dependency_Graph_Diagram (diagram_renderer.py): what the page draws *)
(* of a catalog and of the profiles it is given.  tables[p] maps the names *)
(* of the tables of project p to access modes; its domain is the projects  *)
(* that have a profile, in the catalog or not.                             *)
(***************************************************************************)
EXTENDS Naturals, FiniteSets

(* One edge for each table that two projects share, marked when either side  *)
(* does not know how it uses the table.                                      *)
SharedTableEdges(a, b, tables) ==
  { [ends |-> {a, b}, table |-> t,
     unknown |-> "unknown" \in {tables[a][t], tables[b][t]}] :
    t \in DOMAIN tables[a] \cap DOMAIN tables[b] }

Pairs(set) == {pair \in set \X set : pair[1] # pair[2]}

Participating(edges) == UNION {e.ends : e \in edges}

(* _build_dependency_graph_data: the payload of the interactive graph.       *)
GraphData(catalog, tables) ==
  LET edges == UNION {SharedTableEdges(pair[1], pair[2], tables) :
                        pair \in Pairs(catalog \cap DOMAIN tables)}
  IN [nodes |-> catalog \cap Participating(edges), edges |-> edges]

(* Mutant of MermaidSource: only the interactive graph is pruned.            *)
MermaidSourceUnpruned(catalog, tables) ==
  LET edges == UNION {SharedTableEdges(pair[1], pair[2], tables) :
                        pair \in Pairs(catalog \cap DOMAIN tables)}
  IN [nodes |-> catalog, edges |-> edges, count |-> Cardinality(edges)]

(* _build_dependency_graph_mermaid_source: the same graph as text, and how   *)
(* many edges it has.                                                        *)
MermaidSource(catalog, tables) ==
  LET edges == UNION {SharedTableEdges(pair[1], pair[2], tables) :
                        pair \in Pairs(catalog \cap DOMAIN tables)}
  IN [nodes |-> {p \in catalog : \E e \in edges : p \in e.ends},
      edges |-> edges,
      count |-> Cardinality(edges)]

InScopeOnly(catalog, tables) == [p \in catalog \cap DOMAIN tables |-> tables[p]]

(* render_dependency_graph: profiles outside the catalog are dropped; an     *)
(* empty catalog draws nothing.                                              *)
DependencyPage(catalog, tables) ==
  LET kept == InScopeOnly(catalog, tables)
      source == MermaidSource(catalog, kept)
  IN IF catalog = {}
       THEN [source |-> [nodes |-> {}, edges |-> {}, count |-> 0],
             data |-> [nodes |-> {}, edges |-> {}],
             messages |-> {"no projects in scope", "no shared dependencies"}]
       ELSE [source |-> source,
             data |-> GraphData(catalog, kept),
             messages |-> IF source.count > 0 THEN {}
                          ELSE {"no shared dependencies"}]
=============================================================================
