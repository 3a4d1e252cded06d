--------------------------- MODULE DependencyTree ---------------------------
(***************************************************************************)
(* The task dependency tree of src/apex/dependency_tree.cpp, seen from    *)
(* one parent node: its children map from task identifier to child Node,  *)
(* the reference count of each child, and the tasks (threads) that hold a *)
(* child as the node their time is added to.  appendChild and replaceChild*)
(* run under the process-wide treeMutex, so each is one step.             *)
(*                                                                         *)
(* The callers are not under src/: a task enters a child with appendChild *)
(* (its tree_node), may be renamed with replaceChild(its identifier, new  *)
(* identifier), and when it stops adds its time to the node it holds with *)
(* addAccumulated.  The Node constructor (dependency_tree.hpp) starts a   *)
(* node with count 1.  A node is a member of NodeIds; erased nodes are    *)
(* leaked by the code, and the identity of one that nobody can reach any  *)
(* more is reused, so that a run stays finite.                             *)
(***************************************************************************)
EXTENDS Integers, FiniteSets

CONSTANTS
    Tasks,     \* threads running tasks under the parent
    Names,     \* task identifiers
    NodeIds,   \* identities of Node objects
    NoNode,    \* a null Node*
    MaxCount   \* bound on Node::count, which appendChild raises

ASSUME TreeAssumption ==
    /\ IsFiniteSet(Tasks) /\ IsFiniteSet(Names) /\ Names # {}
    /\ NoNode \notin NodeIds
    /\ Cardinality(NodeIds) > Cardinality(Names) + Cardinality(Tasks)
    /\ MaxCount \in Nat \ {0}

VARIABLES
    children,  \* std::map<task_identifier, Node*> children (NoNode: no key)
    count,     \* Node::count of each node
    data,      \* Node::data, the task identifier of each node
    held       \* the node each task adds its time to, or NoNode

vars == <<children, count, data, held>>

-----------------------------------------------------------------------------
(* Fault-injection variant of the definition below. *)

\* "if (olditer->second->count-- == 0)": the test reads the count before
\* the decrement, so a child is erased only once its count went below 0.
ErasedPostDecrement(m, c, n) ==
    IF n = -1 THEN [m EXCEPT ![c] = NoNode] ELSE m

-----------------------------------------------------------------------------
\* The nodes still reachable: from the map or from a task.
Live == {children[c] : c \in Names} \cup {held[t] : t \in Tasks}

\* "if (olditer->second->count == 0) children.erase(*old_child);"
ErasedIfUnused(m, c, n) == IF n = 0 THEN [m EXCEPT ![c] = NoNode] ELSE m

(* "iter->second->count++", saturating at the bound MaxCount: counts     *)
(* beyond it are not told apart.                                           *)
Incremented(n) == IF n < MaxCount THEN n + 1 ELSE n

\* "children.insert(std::make_pair(*c, n))": a no-op when the key exists.
Inserted(m, c, n) == IF m[c] = NoNode THEN [m EXCEPT ![c] = n] ELSE m

Init ==
    /\ children = [c \in Names |-> NoNode]
    /\ count = [n \in NodeIds |-> 0]
    /\ data = [n \in NodeIds |-> CHOOSE c \in Names : TRUE]
    /\ held = [t \in Tasks |-> NoNode]

(* Node::appendChild(c): find c; if absent insert a new Node, else         *)
(* count++ on the existing one; return it.                                 *)
AppendChild(t, c) ==
    /\ held[t] = NoNode
    /\ IF children[c] = NoNode
         THEN \E n \in NodeIds \ Live :
                /\ children' = [children EXCEPT ![c] = n]
                /\ count' = [count EXCEPT ![n] = 1]
                /\ data' = [data EXCEPT ![n] = c]
                /\ held' = [held EXCEPT ![t] = n]
         ELSE /\ count' = [count EXCEPT ![children[c]] = Incremented(@)]
              /\ held' = [held EXCEPT ![t] = children[c]]
              /\ UNCHANGED <<children, data>>

(* Node::replaceChild(old, c) with old the renamed task's identifier.  An *)
(* old identifier missing from the map inserts a new node for c.  Else   *)
(* count-- on the old child, erased at 0, then c is looked up (after the  *)
(* erase): an existing child is returned as it is, a missing one created.*)
ReplaceChild(t, c) ==
    /\ held[t] # NoNode
    /\ LET old == data[held[t]]
       IN IF children[old] = NoNode
            THEN \E n \in NodeIds \ Live :
                   /\ children' = Inserted(children, c, n)
                   /\ count' = [count EXCEPT ![n] = 1]
                   /\ data' = [data EXCEPT ![n] = c]
                   /\ held' = [held EXCEPT ![t] = n]
          ELSE LET o  == children[old]
                   m1 == ErasedIfUnused(children, old, count[o] - 1)
                   c1 == [count EXCEPT ![o] = @ - 1]
               IN IF m1[c] = NoNode
                    THEN \E n \in NodeIds \ Live :
                           /\ children' = Inserted(m1, c, n)
                           /\ count' = [c1 EXCEPT ![n] = 1]
                           /\ data' = [data EXCEPT ![n] = c]
                           /\ held' = [held EXCEPT ![t] = n]
                  ELSE /\ children' = m1
                       /\ count' = c1
                       /\ held' = [held EXCEPT ![t] = m1[c]]
                       /\ UNCHANGED data

(* The task stops: Node::addAccumulated adds its time (and a call) to the *)
(* node it holds, under its own mutex, and the task lets the node go.     *)
Stop(t) ==
    /\ held[t] # NoNode
    /\ held' = [held EXCEPT ![t] = NoNode]
    /\ UNCHANGED <<children, count, data>>

Next ==
    \E t \in Tasks :
        \/ \E c \in Names : AppendChild(t, c) \/ ReplaceChild(t, c)
        \/ Stop(t)

Spec == Init /\ [][Next]_vars

-----------------------------------------------------------------------------
TypeOK ==
    /\ children \in [Names -> NodeIds \cup {NoNode}]
    /\ count \in [NodeIds -> 0..MaxCount]
    /\ data \in [NodeIds -> Names]
    /\ held \in [Tasks -> NodeIds \cup {NoNode}]

(* The map is well formed: each identifier maps to a node of that         *)
(* identifier, distinct identifiers to distinct nodes, and no node in it  *)
(* has count 0, since replaceChild erases a child when its count drops to *)
(* 0 and appendChild only ever adds to a count.                            *)
TreeWellFormed ==
    \A c \in Names : children[c] # NoNode =>
        /\ data[children[c]] = c
        /\ count[children[c]] >= 1
        /\ \A d \in Names \ {c} : children[d] # children[c]

(* Every node a running task holds is still in the tree, so the time the *)
(* task adds to it at stop appears under its parent in the output.  The   *)
(* count is what protects this: replaceChild erases a child only when no  *)
(* task entry counted on it is left.                                       *)
HeldNodesInTree ==
    \A t \in Tasks : held[t] # NoNode => children[data[held[t]]] = held[t]
=============================================================================
