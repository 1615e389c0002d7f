--------------------------- MODULE PrefixTreeParser ---------------------------
(***************************************************************************)
(* prefix_tree_parser with prefix_tree and prefix_tree_node: the log as a  *)
(* tree in which traces share their common beginnings.                     *)
(*                                                                         *)
(* A node is named by the events on the way to it.  It holds the ids of    *)
(* the traces that pass through it; its parent (for a first event, the     *)
(* tree) keeps it in a map under a set of ids, its key.                    *)
(***************************************************************************)
EXTENDS Events, Integers, FiniteSets

NoNode == <<>>

NewTree == [trace_id |-> 0, temp_trace |-> NoNode, nodes |-> <<>>, null_dereferenced |-> FALSE]

\* The nodes under a node, or the first events of the tree under NoNode.
Children(nodes, path) ==
  {node \in DOMAIN nodes : Len(node) = Len(path) + 1
                           /\ SubSeq(node, 1, Len(path)) = path}

\* get_child(trace_id) and get_trace_start(trace_id): by the keys of the map.
ChildOfTrace(nodes, path, id) == {node \in Children(nodes, path) : id \in nodes[node].key}

\* add_child and add_trace of a new node; add_id_to_child and add_id_to_trace of
\* one that is there, which puts it back under a larger key.
NewNode(id)      == [trace_ids |-> {id}, key |-> {id}]
WithIdUnderOldKey(node, id) == [node EXCEPT !.trace_ids = @ \cup {id}] \* a variant
WithIdInKeyOnly(node, id) == [node EXCEPT !.key = @ \cup {id}] \* another
WithId(node, id) == [trace_ids |-> node.trace_ids \cup {id}, key |-> node.key \cup {id}]

Visit(nodes, path, id) ==
  [node \in DOMAIN nodes \cup {path} |->
     IF node # path THEN nodes[node]
     ELSE IF node \in DOMAIN nodes THEN WithId(nodes[node], id) ELSE NewNode(id)]

\* prefix_tree_parser::add_event.  A terminal event with no trace begun calls
\* get_child on a null pointer; nothing after that is modelled.
TreeAdd(s, event) ==
  LET starting == s.temp_trace = NoNode
      id       == IF starting THEN s.trace_id + 1 ELSE s.trace_id
      path     == Append(s.temp_trace, event)
  IN IF s.null_dereferenced THEN s
     ELSE IF event.terminal /\ starting THEN [s EXCEPT !.null_dereferenced = TRUE]
     ELSE [s EXCEPT !.trace_id   = id,
                    !.nodes      = Visit(s.nodes, path, id),
                    !.temp_trace = IF event.terminal THEN NoNode ELSE path]

\* The tree of a log whose traces end in their terminal events: a node for each of their
\* beginnings, with the ids of the traces that begin so.
TreeOf(traces) ==
  LET Beginnings(id) == {SubSeq(traces[id], 1, n) : n \in DOMAIN traces[id]}
      Through(path)  == {id \in DOMAIN traces : path \in Beginnings(id)}
  IN [path \in UNION {Beginnings(id) : id \in DOMAIN traces} |->
        [trace_ids |-> Through(path), key |-> Through(path)]]
=============================================================================
