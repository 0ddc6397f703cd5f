------------------------------- MODULE NAryTree -------------------------------
(***************************************************************************)
(* The n-ary tree of src/bonus/n_ary_tree.  A node is its number in the    *)
(* order of creation, the root is 1, and 0 stands for nullptr.  A node's   *)
(* _children are the nodes created under it, in that order.  parentFunct,  *)
(* where it is set, adds up the results of the children.                   *)
(***************************************************************************)
EXTENDS Naturals, Sequences, SequencesExt, FiniteSetsExt

CONSTANTS Data,        \* values of a node
          MaxNodes     \* bound on the number of nodes

VARIABLE nodes

vars == nodes

Nodes == DOMAIN nodes

Init == nodes = <<>>

Created(parent, value) ==
  Append(nodes, [parent |-> parent, data |-> value, parentFunct |-> FALSE])

setRoot(value) ==
  nodes' = IF nodes = <<>> THEN Created(0, value) ELSE nodes

addChild(parent, value) ==
  /\ Len(nodes) < MaxNodes
  /\ nodes' = IF parent \in Nodes THEN Created(parent, value) ELSE nodes

addChildToRoot(value) == addChild(IF nodes = <<>> THEN 0 ELSE 1, value)

setParentFunct(node) == nodes' = [nodes EXCEPT ![node].parentFunct = TRUE]

Next ==
  \/ \E value \in Data : setRoot(value) \/ addChildToRoot(value)
  \/ \E parent \in Nodes \union {0}, value \in Data : addChild(parent, value)
  \/ \E node \in Nodes : setParentFunct(node)

-------------------------------------------------------------------------------
(***************************************************************************)
(* The traversals; preorder and postorder give the values in the order in  *)
(* which they are passed to the function or pushed to the result.          *)
(***************************************************************************)
\* A plausible slip: the loop over the children stops one short.
MutantChildren(node) ==
  LET all == SetToSortSeq({n \in Nodes : nodes[n].parent = node}, <)
  IN  IF Len(all) < 2 THEN all ELSE Front(all)

Children(node) == SetToSortSeq({n \in Nodes : nodes[n].parent = node}, <)

RECURSIVE preorder(_)
preorder(node) ==
  <<nodes[node].data>>
    \o FlattenSeq([i \in DOMAIN Children(node) |-> preorder(Children(node)[i])])

RECURSIVE postorder(_)
postorder(node) ==
  FlattenSeq([i \in DOMAIN Children(node) |-> postorder(Children(node)[i])])
    \o <<nodes[node].data>>

RECURSIVE postorderCompute(_)
postorderCompute(node) ==
  IF nodes[node].parentFunct
  THEN FoldSeq(+, 0, [i \in DOMAIN Children(node) |-> postorderCompute(Children(node)[i])])
  ELSE nodes[node].data

-------------------------------------------------------------------------------
\* The nodes from the root to node, which no traversal looks at.
path[node \in Nodes] ==
  IF node = 1 THEN <<1>> ELSE Append(path[nodes[node].parent], node)

Above(a, b) == a # b /\ IsPrefix(path[a], path[b])

\* a lies in an earlier subtree than b: where their paths part, a's child is
\* the older one.
Left(a, b) ==
  \E i \in DOMAIN path[a] \cap DOMAIN path[b] :
    /\ path[a][i] < path[b][i]
    /\ \A j \in 1..(i - 1) : path[a][j] = path[b][j]

DataOf(order) == [i \in DOMAIN order |-> nodes[order[i]].data]

\* Every tree that calls can build is visited completely and in the order that
\* positions in the tree dictate: a parent before its children in preorder and
\* after them in postorder, older subtrees first, and postorderCompute adds up
\* the values of the first nodes without a function on each way down, cutting
\* off what is below them (n_ary_tree.hpp:132-158, 170-198, 201-214).
TraversalsAgree ==
  nodes # <<>> =>
    /\ preorder(1) = DataOf(SetToSortSeq(Nodes, LAMBDA a, b : Above(a, b) \/ Left(a, b)))
    /\ postorder(1) = DataOf(SetToSortSeq(Nodes, LAMBDA a, b : Above(b, a) \/ Left(a, b)))
    /\ postorderCompute(1) =
         LET reached == {n \in Nodes : /\ ~nodes[n].parentFunct
                                       /\ \A a \in Nodes : Above(a, n) => nodes[a].parentFunct}
         IN  MapThenSumSet(LAMBDA n : nodes[n].data, reached)
===============================================================================
