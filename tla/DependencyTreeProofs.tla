------------------------ MODULE DependencyTreeProofs ------------------------
(***************************************************************************)
(* Proofs about one parent node of the dependency tree, for every set of  *)
(* tasks, identifiers and nodes allowed by TreeAssumption: the type        *)
(* invariant and the well-formedness of the children map, which together  *)
(* are inductive.  Node::count stays within 0..MaxCount only because a     *)
(* child in the map has count >= 1, so replaceChild's decrement never      *)
(* goes below 0: the two invariants have to be proved together.            *)
(***************************************************************************)
EXTENDS DependencyTree, TLAPS

USE TreeAssumption

Slot == NodeIds \cup {NoNode}

\* The well-formedness of a map m with counts k and identifiers dt.
WF(m, k, dt) ==
    \A c \in Names : m[c] # NoNode =>
        /\ dt[m[c]] = c
        /\ k[m[c]] >= 1
        /\ \A d \in Names \ {c} : m[d] # m[c]

IInv == TypeOK /\ TreeWellFormed

(* Inserting a node that is in no slot of the map, with count 1 and the    *)
(* identifier of its key, keeps the map well formed, whether the insert    *)
(* takes place or the key was already there.                               *)
LEMMA InsertFresh ==
    ASSUME NEW m \in [Names -> Slot], NEW k \in [NodeIds -> Int],
           NEW dt \in [NodeIds -> Names], NEW c \in Names,
           NEW n \in NodeIds, \A d \in Names : m[d] # n,
           WF(m, k, dt)
    PROVE  /\ WF(Inserted(m, c, n), [k EXCEPT ![n] = 1],
                 [dt EXCEPT ![n] = c])
           /\ Inserted(m, c, n) \in [Names -> Slot]
BY DEF WF, Inserted, Slot

(* The state after a step that creates node n for key c and gives it to  *)
(* task t has its types, and its map is well formed.                       *)
LEMMA InsertStep ==
    ASSUME NEW m \in [Names -> Slot], NEW k \in [NodeIds -> 0..MaxCount],
           NEW dt \in [NodeIds -> Names], NEW h \in [Tasks -> Slot],
           NEW c \in Names, NEW t \in Tasks,
           NEW n \in NodeIds, \A d \in Names : m[d] # n,
           WF(m, k, dt)
    PROVE  /\ Inserted(m, c, n) \in [Names -> Slot]
           /\ [k EXCEPT ![n] = 1] \in [NodeIds -> 0..MaxCount]
           /\ [dt EXCEPT ![n] = c] \in [NodeIds -> Names]
           /\ [h EXCEPT ![t] = n] \in [Tasks -> Slot]
           /\ WF(Inserted(m, c, n), [k EXCEPT ![n] = 1],
                 [dt EXCEPT ![n] = c])
<1>1. k \in [NodeIds -> Int]
  OBVIOUS
<1>2. /\ WF(Inserted(m, c, n), [k EXCEPT ![n] = 1], [dt EXCEPT ![n] = c])
      /\ Inserted(m, c, n) \in [Names -> Slot]
  BY <1>1, InsertFresh
<1>3. /\ [k EXCEPT ![n] = 1] \in [NodeIds -> 0..MaxCount]
      /\ [dt EXCEPT ![n] = c] \in [NodeIds -> Names]
      /\ [h EXCEPT ![t] = n] \in [Tasks -> Slot]
  BY DEF Slot
<1>4. QED
  BY <1>2, <1>3

(* Decrementing the count of a child in the map and erasing it when the   *)
(* count reaches 0 keeps the map well formed.                              *)
LEMMA EraseKeeps ==
    ASSUME NEW m \in [Names -> Slot], NEW k \in [NodeIds -> Int],
           NEW dt \in [NodeIds -> Names], NEW old \in Names,
           m[old] # NoNode, WF(m, k, dt)
    PROVE  /\ WF(ErasedIfUnused(m, old, k[m[old]] - 1),
                 [k EXCEPT ![m[old]] = @ - 1], dt)
           /\ ErasedIfUnused(m, old, k[m[old]] - 1) \in [Names -> Slot]
           /\ \A d \in Names :
                ErasedIfUnused(m, old, k[m[old]] - 1)[d] \in {m[d], NoNode}
BY DEF WF, ErasedIfUnused, Slot

(* appendChild's count++ on a child keeps the map well formed.            *)
LEMMA IncrementKeeps ==
    ASSUME NEW m \in [Names -> Slot], NEW k \in [NodeIds -> 0..MaxCount],
           NEW dt \in [NodeIds -> Names], NEW x \in NodeIds, WF(m, k, dt)
    PROVE  /\ WF(m, [k EXCEPT ![x] = Incremented(@)], dt)
           /\ [k EXCEPT ![x] = Incremented(@)] \in [NodeIds -> 0..MaxCount]
BY DEF WF, Incremented

(* A node outside Live is in no slot of the map and held by no task.       *)
LEMMA FreshNotLive ==
    ASSUME NEW n \in NodeIds \ Live
    PROVE  /\ \A d \in Names : children[d] # n
           /\ \A t \in Tasks : held[t] # n
BY DEF Live

-----------------------------------------------------------------------------
(* Init establishes the inductive invariant: the map starts empty.        *)
LEMMA InitIInv == Init => IInv
BY DEF Init, IInv, TypeOK, TreeWellFormed

(* Each of appendChild, replaceChild and a task's stop preserves the type  *)
(* invariant and the well-formedness of the map.                           *)
LEMMA NextIInv == IInv /\ [Next]_vars => IInv'
<1> SUFFICES ASSUME IInv, [Next]_vars PROVE IInv'
  OBVIOUS
<1>0. /\ children \in [Names -> Slot] /\ count \in [NodeIds -> 0..MaxCount]
      /\ data \in [NodeIds -> Names] /\ held \in [Tasks -> Slot]
      /\ WF(children, count, data)
  BY DEF IInv, TypeOK, TreeWellFormed, WF, Slot
<1>1. SUFFICES /\ children' \in [Names -> Slot]
               /\ count' \in [NodeIds -> 0..MaxCount]
               /\ data' \in [NodeIds -> Names]
               /\ held' \in [Tasks -> Slot]
               /\ WF(children', count', data')
  BY DEF IInv, TypeOK, TreeWellFormed, WF, Slot
<1>2. ASSUME NEW t \in Tasks, NEW c \in Names, AppendChild(t, c)
      PROVE  <1>1!1
  <2>1. CASE children[c] = NoNode
    <3>1. PICK n \in NodeIds \ Live :
            /\ children' = [children EXCEPT ![c] = n]
            /\ count' = [count EXCEPT ![n] = 1]
            /\ data' = [data EXCEPT ![n] = c]
            /\ held' = [held EXCEPT ![t] = n]
      BY <1>2, <2>1 DEF AppendChild
    <3>2. \A d \in Names : children[d] # n
      BY FreshNotLive
    <3>3. children' = Inserted(children, c, n)
      BY <3>1, <2>1 DEF Inserted
    <3>4. /\ Inserted(children, c, n) \in [Names -> Slot]
          /\ [count EXCEPT ![n] = 1] \in [NodeIds -> 0..MaxCount]
          /\ [data EXCEPT ![n] = c] \in [NodeIds -> Names]
          /\ [held EXCEPT ![t] = n] \in [Tasks -> Slot]
          /\ WF(Inserted(children, c, n), [count EXCEPT ![n] = 1],
                [data EXCEPT ![n] = c])
      BY <1>0, <3>2, InsertStep
    <3>5. QED
      BY <3>1, <3>3, <3>4
  <2>2. CASE children[c] # NoNode
    <3>1. /\ count' = [count EXCEPT ![children[c]] = Incremented(@)]
          /\ held' = [held EXCEPT ![t] = children[c]]
          /\ UNCHANGED <<children, data>>
      BY <1>2, <2>2 DEF AppendChild
    <3>2. QED
      BY <1>0, <2>2, <3>1, IncrementKeeps DEF Slot
  <2>3. QED
    BY <2>1, <2>2
<1>3. ASSUME NEW t \in Tasks, NEW c \in Names, ReplaceChild(t, c)
      PROVE  <1>1!1
  <2> DEFINE old == data[held[t]]
             o   == children[old]
             m1  == ErasedIfUnused(children, old, count[o] - 1)
             c1  == [count EXCEPT ![o] = @ - 1]
  <2>0. held[t] \in NodeIds /\ old \in Names
    BY <1>0, <1>3 DEF ReplaceChild, Slot
  <2>1. CASE children[old] = NoNode
    <3>1. PICK n \in NodeIds \ Live :
            /\ children' = Inserted(children, c, n)
            /\ count' = [count EXCEPT ![n] = 1]
            /\ data' = [data EXCEPT ![n] = c]
            /\ held' = [held EXCEPT ![t] = n]
      BY <1>3, <2>1 DEF ReplaceChild
    <3>2. \A d \in Names : children[d] # n
      BY FreshNotLive
    <3>3. QED
      BY <1>0, <3>1, <3>2, InsertStep
  <2>2. CASE children[old] # NoNode
    <3>0. /\ o \in NodeIds /\ count[o] >= 1
          /\ WF(m1, c1, data) /\ m1 \in [Names -> Slot]
          /\ \A d \in Names : m1[d] \in {children[d], NoNode}
          /\ c1 \in [NodeIds -> 0..MaxCount]
      <4>1. o \in NodeIds /\ count[o] >= 1
        BY <1>0, <2>0, <2>2 DEF WF, Slot
      <4>2. count \in [NodeIds -> Int]
        BY <1>0
      <4>3. /\ WF(m1, c1, data) /\ m1 \in [Names -> Slot]
            /\ \A d \in Names : m1[d] \in {children[d], NoNode}
        BY <1>0, <2>0, <2>2, <4>2, EraseKeeps
      <4>4. c1 \in [NodeIds -> 0..MaxCount]
        BY <1>0, <4>1
      <4>5. QED
        BY <4>1, <4>3, <4>4
    <3>1. CASE m1[c] = NoNode
      <4>1. PICK n \in NodeIds \ Live :
              /\ children' = Inserted(m1, c, n)
              /\ count' = [c1 EXCEPT ![n] = 1]
              /\ data' = [data EXCEPT ![n] = c]
              /\ held' = [held EXCEPT ![t] = n]
        BY <1>3, <2>2, <3>1 DEF ReplaceChild
      <4>2. \A d \in Names : m1[d] # n
        BY <3>0, FreshNotLive
      <4>3. QED
        BY <1>0, <3>0, <4>1, <4>2, InsertStep
    <3>2. CASE m1[c] # NoNode
      <4>1. /\ children' = m1 /\ count' = c1
            /\ held' = [held EXCEPT ![t] = m1[c]]
            /\ data' = data
        BY <1>3, <2>2, <3>2 DEF ReplaceChild
      <4>2. QED
        BY <1>0, <3>0, <3>2, <4>1 DEF Slot
    <3>3. QED
      BY <3>1, <3>2
  <2>3. QED
    BY <2>1, <2>2
<1>4. ASSUME NEW t \in Tasks, Stop(t)
      PROVE  <1>1!1
  BY <1>0, <1>4 DEF Stop, Slot
<1>5. CASE UNCHANGED vars
  BY <1>0, <1>5 DEF vars
<1>6. QED
  BY <1>2, <1>3, <1>4, <1>5 DEF Next

-----------------------------------------------------------------------------
(* The type invariant holds in every reachable state: in particular        *)
(* replaceChild's count-- never takes a count below 0.                    *)
THEOREM TypeCorrect == Spec => []TypeOK
BY InitIInv, NextIInv, PTL DEF Spec, IInv

(* In every reachable state the children map is well formed: each key     *)
(* maps to a node of that identifier, no two keys share a node, and no     *)
(* node in the map has count 0, whatever appendChild and replaceChild      *)
(* calls the tasks interleave under treeMutex.                             *)
THEOREM TreeStaysWellFormed == Spec => []TreeWellFormed
BY InitIInv, NextIInv, PTL DEF Spec, IInv
=============================================================================
