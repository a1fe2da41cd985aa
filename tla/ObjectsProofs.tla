--------------------------- MODULE ObjectsProofs ----------------------------
(* Machine-checked facts about the kernel objects that stand alone: List,  *)
(* for any number of items and lists, and QueueStorage, which implements   *)
(* BoundedDeque for every capacity and every set of items.                 *)
EXTENDS List, QueueStorage, FiniteSetTheorems, SequenceTheorems, TLAPS

(* The chain of pxNext pointers is one cycle through the marker: a rank    *)
(* grows along it until the marker comes round again.  Without this an     *)
(* item could point to itself, and removing it would strand pxIndex.       *)
OneCycle ==
    \A l \in Lists : \E rank \in [Nodes -> Nat] :
        \A n \in Linked(l) : pxNext[n] # l => rank[n] < rank[pxNext[n]]

(* The inductive invariant behind WellLinked. *)
IInv == TypeOK /\ WellLinked /\ OneCycle /\ CountIsRight

(* Every list operation keeps pointers, values and counters of their type  *)
(* and the two chains of every list mirror images of each other (list.c).  *)
LEMMA InitIInv == Init => IInv
  <1> SUFFICES ASSUME Init PROVE IInv
    OBVIOUS
  <1> USE NodesAssumption, MaxDelayAssumption DEF Init, Nodes
  <1>1. TypeOK
    BY DEF TypeOK
  <1>2. WellLinked
    BY DEF WellLinked, Linked
  <1>3. OneCycle
    <2> SUFFICES ASSUME NEW l \in Lists
                 PROVE  \E rank \in [Nodes -> Nat] : \A n \in Linked(l) :
                            pxNext[n] # l => rank[n] < rank[pxNext[n]]
      BY DEF OneCycle
    <2>1. \A n \in Linked(l) : pxNext[n] = l
      BY DEF Linked
    <2>2. [n \in Nodes |-> 0] \in [Nodes -> Nat]
      OBVIOUS
    <2> QED
      BY <2>1, <2>2
  <1>4. CountIsRight
    <2>1. \A l \in Lists : {i \in Items : pvContainer[i] = l} = {}
      OBVIOUS
    <2> QED
      BY <2>1, FS_EmptySet DEF CountIsRight
  <1> QED
    BY <1>1, <1>2, <1>3, <1>4 DEF IInv

(* LinkAfter is correct at any node of the list. *)
LEMMA LinkKeepsIInv ==
    ASSUME IInv, NEW l \in Lists, NEW i \in Items, pvContainer[i] = NULL,
           NEW n \in Linked(l), LinkAfter(n, i, l),
           UNCHANGED <<xItemValue, pxIndex>>
    PROVE  IInv'
  <1> USE NodesAssumption DEF IInv, Nodes
  <1>0. n \in Nodes /\ pxNext[n] \in Linked(l) /\ pxNext[n] \in Nodes
    BY DEF Linked, WellLinked
  <1>1. TypeOK'
    <2>1. pxNext' \in [Nodes -> Nodes \cup {NULL}]
      BY <1>0 DEF TypeOK, LinkAfter
    <2>2. pxPrevious' \in [Nodes -> Nodes \cup {NULL}]
      BY <1>0 DEF TypeOK, LinkAfter
    <2>3. pvContainer' \in [Items -> Lists \cup {NULL}]
      BY DEF TypeOK, LinkAfter
    <2>4. uxNumberOfItems' \in [Lists -> Nat]
      BY DEF TypeOK, LinkAfter
    <2> QED
      BY <2>1, <2>2, <2>3, <2>4 DEF TypeOK
  <1>2. WellLinked'
    <2>1. Linked(l)' = Linked(l) \cup {i}
      BY DEF Linked, LinkAfter, TypeOK
    <2>2. \A k \in Lists : k # l => Linked(k)' = Linked(k)
      BY DEF Linked, LinkAfter, TypeOK
    <2>3. i \notin Linked(l)
      BY DEF Linked
    <2> SUFFICES ASSUME NEW k \in Lists
                 PROVE  /\ pxIndex'[k] \in Linked(k)'
                        /\ xItemValue'[k] = MaxDelay
                        /\ \A m \in Linked(k)' :
                             /\ pxNext'[m] \in Linked(k)'
                             /\ pxPrevious'[pxNext'[m]] = m
                             /\ pxPrevious'[m] \in Linked(k)'
                             /\ pxNext'[pxPrevious'[m]] = m
      BY DEF WellLinked
    <2>4. pxIndex'[k] \in Linked(k)' /\ xItemValue'[k] = MaxDelay
      BY <2>1, <2>2 DEF WellLinked
    <2>5. ASSUME NEW m \in Linked(k)'
          PROVE  /\ pxNext'[m] \in Linked(k)'
                 /\ pxPrevious'[pxNext'[m]] = m
                 /\ pxPrevious'[m] \in Linked(k)'
                 /\ pxNext'[pxPrevious'[m]] = m
      <3>1. CASE k # l
        <4>1. m \in Linked(k) /\ m \notin Linked(l) /\ m # i /\ m \in Nodes
          BY <2>2, <3>1 DEF Linked
        <4>2. /\ pxNext[m] \in Linked(k) /\ pxNext[m] \notin Linked(l)
              /\ pxPrevious[m] \in Linked(k) /\ pxPrevious[m] \notin Linked(l)
          BY <4>1, <3>1 DEF WellLinked, Linked
        <4>3. pxNext'[m] = pxNext[m] /\ pxPrevious'[m] = pxPrevious[m]
          BY <4>1, <1>0 DEF LinkAfter, TypeOK
        <4>4. /\ pxPrevious'[pxNext[m]] = pxPrevious[pxNext[m]]
              /\ pxNext'[pxPrevious[m]] = pxNext[pxPrevious[m]]
          BY <4>2, <1>0, <2>2, <3>1 DEF LinkAfter, TypeOK, Linked
        <4> QED
          BY <4>1, <4>2, <4>3, <4>4, <2>2, <3>1 DEF WellLinked
      <3>2. CASE k = l
        <4>1. Linked(l) \subseteq Nodes
          BY DEF Linked
        <4>2. pxNext' = [pxNext EXCEPT ![i] = pxNext[n], ![n] = i]
          BY DEF LinkAfter
        <4>3. pxPrevious' =
                [pxPrevious EXCEPT ![i] = n, ![pxNext[n]] = i]
          BY DEF LinkAfter
        <4>4. pxNext \in [Nodes -> Nodes \cup {NULL}]
              /\ pxPrevious \in [Nodes -> Nodes \cup {NULL}]
          BY DEF TypeOK
        <4>5. \A p \in Linked(l) :
                 /\ pxNext[p] \in Linked(l) /\ pxPrevious[pxNext[p]] = p
                 /\ pxPrevious[p] \in Linked(l) /\ pxNext[pxPrevious[p]] = p
          BY DEF WellLinked
        <4>6. m \in Linked(l) \/ m = i
          BY <2>1, <3>2
        <4> HIDE DEF IInv
        <4>7. CASE m = i
          BY <4>7, <1>0, <2>1, <2>3, <3>2, <4>1, <4>2, <4>3, <4>4
        <4>8. CASE m = n
          BY <4>8, <1>0, <2>1, <2>3, <3>2, <4>1, <4>2, <4>3, <4>4, <4>5
        <4>9. CASE m = pxNext[n] /\ m # n
          BY <4>9, <1>0, <2>1, <2>3, <3>2, <4>1, <4>2, <4>3, <4>4, <4>5
        <4>10. CASE m \in Linked(l) /\ m # n /\ m # pxNext[n]
          BY <4>10, <1>0, <2>1, <2>3, <3>2, <4>1, <4>2, <4>3, <4>4, <4>5
        <4> QED
          BY <4>6, <4>7, <4>8, <4>9, <4>10
      <3> QED
        BY <3>1, <3>2
    <2> QED
      BY <2>4, <2>5
  <1>3. OneCycle'
    <2> SUFFICES ASSUME NEW k \in Lists
                 PROVE  \E rank \in [Nodes -> Nat] : \A m \in Linked(k)' :
                            pxNext'[m] # k => rank[m] < rank[pxNext'[m]]
      BY DEF OneCycle
    <2>1. PICK rank \in [Nodes -> Nat] : \A m \in Linked(k) :
                            pxNext[m] # k => rank[m] < rank[pxNext[m]]
      BY DEF OneCycle
    <2>2. pxNext' = [pxNext EXCEPT ![i] = pxNext[n], ![n] = i]
          /\ pxNext \in [Nodes -> Nodes \cup {NULL}]
      BY DEF TypeOK, LinkAfter
    <2>3. i \notin Linked(l) /\ i \in Nodes
      BY DEF Linked
    <2>4. \A m \in Linked(k) : m \in Nodes /\ pxNext[m] \in Linked(k)
      BY DEF WellLinked, Linked
    <2>5. CASE k # l
      <3>1. Linked(k)' = Linked(k) /\ i \notin Linked(k) /\ n \notin Linked(k)
        BY <2>5 DEF Linked, LinkAfter, TypeOK
      <3>2. \A m \in Linked(k) : pxNext'[m] = pxNext[m]
        BY <3>1, <2>2, <2>4
      <3> QED
        BY <2>1, <3>1, <3>2
    <2>6. CASE k = l
      <3> DEFINE r == [m \in Nodes |-> IF m = i THEN 2 * rank[n] + 1
                                        ELSE 2 * rank[m]]
      <3>1. r \in [Nodes -> Nat]
        BY <1>0
      <3>2. Linked(k)' = Linked(k) \cup {i}
        BY <2>6 DEF Linked, LinkAfter, TypeOK
      <3>3. ASSUME NEW m \in Linked(k)', pxNext'[m] # k
            PROVE  r[m] < r[pxNext'[m]]
        <4>1. CASE m = i
          <5>1. pxNext'[m] = pxNext[n] /\ pxNext[n] # i
            BY <4>1, <1>0, <2>2, <2>3, <2>6
          <5>2. rank[n] < rank[pxNext[n]]
            BY <5>1, <3>3, <2>1, <2>6
          <5> QED
            BY <4>1, <5>1, <5>2, <1>0
        <4>2. CASE m = n
          <5>1. pxNext'[m] = i /\ m # i
            BY <4>2, <1>0, <2>2, <2>3
          <5> QED
            BY <4>2, <5>1, <1>0, <2>3
        <4>3. CASE m # i /\ m # n
          <5>1. m \in Linked(k) /\ m \in Nodes /\ pxNext'[m] = pxNext[m]
            BY <4>3, <3>2, <2>2, <2>4
          <5>2. rank[m] < rank[pxNext[m]] /\ pxNext[m] \in Nodes /\ pxNext[m] # i
            BY <5>1, <3>3, <2>1, <2>3, <2>4, <2>6
          <5> QED
            BY <4>3, <5>1, <5>2
        <4> QED
          BY <4>1, <4>2, <4>3
      <3> HIDE DEF r
      <3> QED
        BY <3>1, <3>3
    <2> QED
      BY <2>5, <2>6
  <1>4. CountIsRight'
    <2> SUFFICES ASSUME NEW k \in Lists
                 PROVE  uxNumberOfItems'[k] =
                          Cardinality({j \in Items : pvContainer'[j] = k})
      BY DEF CountIsRight
    <2> DEFINE Members == {j \in Items : pvContainer[j] = k}
    <2>1. uxNumberOfItems[k] = Cardinality(Members)
      BY DEF CountIsRight
    <2>2. IsFiniteSet(Members)
      BY ItemsAssumption, FS_Subset
    <2>3. CASE k # l
      <3>1. {j \in Items : pvContainer'[j] = k} = Members
        BY <2>3 DEF LinkAfter, TypeOK
      <3>2. uxNumberOfItems'[k] = uxNumberOfItems[k]
        BY <2>3 DEF LinkAfter, TypeOK
      <3> QED
        BY <2>1, <3>1, <3>2
    <2>4. CASE k = l
      <3>1. {j \in Items : pvContainer'[j] = k} = Members \cup {i}
        BY <2>4 DEF LinkAfter, TypeOK
      <3>2. i \notin Members
        OBVIOUS
      <3>3. uxNumberOfItems'[k] = uxNumberOfItems[k] + 1
        BY <2>4 DEF LinkAfter, TypeOK
      <3> QED
        BY <2>1, <2>2, <3>1, <3>2, <3>3, FS_AddElement
    <2> QED
      BY <2>3, <2>4
  <1> QED
    BY <1>1, <1>2, <1>3, <1>4

(* A removal leaves every list a mirrored cycle, whichever item goes. *)
LEMMA RemoveKeepsIInv ==
    ASSUME IInv, NEW i \in Items, uxListRemove(i)
    PROVE  IInv'
  <1> USE NodesAssumption DEF Nodes
  <1> PICK l \in Lists : l = pvContainer[i]
    BY DEF uxListRemove, IInv, TypeOK
  <1>0. /\ l \in Lists /\ i \in Linked(l)
        /\ pxNext[i] \in Linked(l) /\ pxPrevious[i] \in Linked(l)
        /\ pxNext[i] \in Nodes /\ pxPrevious[i] \in Nodes
        /\ pxNext[i] # i /\ pxPrevious[i] # i
    <2>1. l \in Lists /\ i \in Linked(l)
      BY DEF uxListRemove, IInv, TypeOK, Linked
    <2>2. i # l
      BY <2>1
    <2>3. pxNext[i] \in Linked(l) /\ pxPrevious[i] \in Linked(l)
      BY <2>1 DEF IInv, WellLinked
    <2>4. pxNext[i] # i
      <3>1. PICK rank \in [Nodes -> Nat] : \A n \in Linked(l) :
                            pxNext[n] # l => rank[n] < rank[pxNext[n]]
        BY <2>1 DEF IInv, OneCycle
      <3> QED
        BY <3>1, <2>1, <2>2
    <2>5. pxPrevious[i] # i
      BY <2>1, <2>4 DEF IInv, WellLinked
    <2> QED
      BY <2>1, <2>3, <2>4, <2>5 DEF Linked
  <1>1. /\ pxNext' = [pxNext EXCEPT ![pxPrevious[i]] = pxNext[i]]
        /\ pxPrevious' = [pxPrevious EXCEPT ![pxNext[i]] = pxPrevious[i]]
        /\ pxIndex' = [pxIndex EXCEPT ![l] = IF @ = i THEN pxPrevious[i] ELSE @]
        /\ xItemValue' = xItemValue
    BY DEF uxListRemove
  <1>2. Linked(l)' = Linked(l) \ {i}
    BY <1>0 DEF Linked, uxListRemove, IInv, TypeOK
  <1>3. \A k \in Lists : k # l => Linked(k)' = Linked(k)
    BY <1>0 DEF Linked, uxListRemove, IInv, TypeOK
  <1>4. \A k \in Lists : k # l =>
            \A m \in Linked(k) : m \in Nodes /\ m \notin Linked(l)
    BY <1>0 DEF Linked
  <1>5. \A k \in Lists : \A m \in Linked(k) :
            /\ m \in Nodes
            /\ pxNext[m] \in Linked(k) /\ pxPrevious[pxNext[m]] = m
            /\ pxPrevious[m] \in Linked(k) /\ pxNext[pxPrevious[m]] = m
    BY DEF IInv, WellLinked, Linked
  <1>6. /\ pxNext \in [Nodes -> Nodes \cup {NULL}]
        /\ pxPrevious \in [Nodes -> Nodes \cup {NULL}]
        /\ pxIndex \in [Lists -> Nodes]
    BY DEF IInv, TypeOK
  <1>7. TypeOK' /\ CountIsRight'
    <2> DEFINE Members(k) == {j \in Items : pvContainer[j] = k}
    <2>1. \A k \in Lists : /\ IsFiniteSet(Members(k))
                          /\ uxNumberOfItems[k] = Cardinality(Members(k))
      BY ItemsAssumption, FS_Subset DEF IInv, CountIsRight
    <2>2. i \in Members(l) /\ pvContainer \in [Items -> Lists \cup {NULL}]
          /\ uxNumberOfItems \in [Lists -> Nat]
      BY DEF IInv, TypeOK
    <2>3. /\ pvContainer' = [pvContainer EXCEPT ![i] = NULL]
          /\ uxNumberOfItems' =
                [uxNumberOfItems EXCEPT ![l] = uxNumberOfItems[l] - 1]
      BY DEF uxListRemove
    <2>4. {j \in Items : pvContainer'[j] = l} = Members(l) \ {i}
      BY <2>2, <2>3
    <2>5. \A k \in Lists :
            k # l => {j \in Items : pvContainer'[j] = k} = Members(k)
      BY <2>2, <2>3
    <2>6. /\ Cardinality(Members(l) \ {i}) = uxNumberOfItems[l] - 1
          /\ Cardinality(Members(l) \ {i}) \in Nat
      <3>1. /\ IsFiniteSet(Members(l)) /\ Cardinality(Members(l)) = uxNumberOfItems[l]
            /\ i \in Members(l)
        BY <2>1, <2>2
      <3> HIDE DEF Members
      <3>2. /\ Cardinality(Members(l) \ {i}) = Cardinality(Members(l)) - 1
            /\ IsFiniteSet(Members(l) \ {i})
        BY <3>1, FS_RemoveElement
      <3>3. Cardinality(Members(l) \ {i}) \in Nat
        BY <3>2, FS_CardinalityType
      <3> QED
        BY <3>1, <3>2, <3>3
    <2>7. CountIsRight'
      BY <2>1, <2>2, <2>3, <2>4, <2>5, <2>6 DEF CountIsRight
    <2>8. uxNumberOfItems' \in [Lists -> Nat]
      BY <2>2, <2>3, <2>6
    <2> QED
      BY <1>0, <1>1, <2>2, <2>3, <2>7, <2>8 DEF uxListRemove, IInv, TypeOK
  <1>8. WellLinked'
    <2>1. \A k \in Lists : pxIndex'[k] \in Linked(k)' /\ xItemValue'[k] = MaxDelay
      BY <1>0, <1>1, <1>2, <1>3, <1>6 DEF IInv, WellLinked
    <2>2. ASSUME NEW k \in Lists, NEW m \in Linked(k)'
          PROVE  /\ pxNext'[m] \in Linked(k)' /\ pxPrevious'[pxNext'[m]] = m
                 /\ pxPrevious'[m] \in Linked(k)' /\ pxNext'[pxPrevious'[m]] = m
      <3>1. CASE k # l
        BY <3>1, <1>0, <1>1, <1>3, <1>4, <1>5, <1>6
      <3>2. CASE k = l
        <4>1. m \in Linked(l) /\ m # i
          BY <3>2, <1>2
        <4> QED
          BY <4>1, <3>2, <1>0, <1>1, <1>2, <1>5, <1>6
      <3> QED
        BY <3>1, <3>2
    <2> QED
      BY <2>1, <2>2 DEF WellLinked
  <1>9. OneCycle'
    <2> SUFFICES ASSUME NEW k \in Lists
                 PROVE  \E rank \in [Nodes -> Nat] : \A m \in Linked(k)' :
                            pxNext'[m] # k => rank[m] < rank[pxNext'[m]]
      BY DEF OneCycle
    <2>1. PICK rank \in [Nodes -> Nat] : \A m \in Linked(k) :
                            pxNext[m] # k => rank[m] < rank[pxNext[m]]
      BY DEF IInv, OneCycle
    <2>2. CASE k # l
      BY <2>1, <2>2, <1>0, <1>1, <1>3, <1>4, <1>6
    <2>3. CASE k = l
      <3>1. ASSUME NEW m \in Linked(k)', pxNext'[m] # k
            PROVE  rank[m] < rank[pxNext'[m]]
        <4>1. m \in Linked(l) /\ m # i /\ m \in Nodes
          BY <2>3, <1>2, <1>5
        <4>2. CASE m = pxPrevious[i]
          <5>1. pxNext[m] = i /\ pxNext'[m] = pxNext[i]
            BY <4>2, <1>0, <1>1, <1>5, <1>6
          <5>2. rank[m] < rank[i] /\ rank[i] < rank[pxNext[i]]
            BY <5>1, <4>1, <3>1, <2>1, <2>3, <1>0
          <5> QED
            BY <5>1, <5>2, <4>1, <1>0
        <4>3. CASE m # pxPrevious[i]
          BY <4>3, <4>1, <3>1, <2>1, <2>3, <1>1, <1>6
        <4> QED
          BY <4>2, <4>3
      <3> QED
        BY <3>1
    <2> QED
      BY <2>2, <2>3
  <1> QED
    BY <1>7, <1>8, <1>9 DEF IInv

LEMMA NextIInv == IInv /\ [Next]_vars => IInv'
  <1> SUFFICES ASSUME IInv, [Next]_vars PROVE IInv'
    OBVIOUS
  <1>1. ASSUME NEW l \in Lists, NEW i \in Items, vListInsertEnd(l, i)
        PROVE  IInv'
    <2>1. pxPrevious[pxIndex[l]] \in Linked(l)
      BY DEF IInv, WellLinked
    <2> QED
      BY <1>1, <2>1, LinkKeepsIInv DEF vListInsertEnd
  <1>2. ASSUME NEW l \in Lists, NEW i \in Items, vListInsert(l, i)
        PROVE  IInv'
    BY <1>2, LinkKeepsIInv DEF vListInsert
  <1>3. ASSUME NEW i \in Items, uxListRemove(i)
        PROVE  IInv'
    BY <1>3, RemoveKeepsIInv
  <1>4. ASSUME NEW l \in Lists, listGET_OWNER_OF_NEXT_ENTRY(l)
        PROVE  IInv'
    <2>1. pxNext[pxIndex[l]] \in Linked(l) /\ pxNext[l] \in Linked(l)
      BY DEF IInv, WellLinked, Linked
    <2>2. NextEntry(l) \in Linked(l) /\ NextEntry(l) \in Nodes
      BY <2>1 DEF NextEntry, Linked, Nodes
    <2>3. TypeOK'
      BY <1>4, <2>2 DEF IInv, TypeOK, listGET_OWNER_OF_NEXT_ENTRY
    <2>4. \A k \in Lists : Linked(k)' = Linked(k)
      BY <1>4 DEF Linked, listGET_OWNER_OF_NEXT_ENTRY
    <2>5. WellLinked'
      BY <1>4, <2>2, <2>4
         DEF IInv, WellLinked, TypeOK, listGET_OWNER_OF_NEXT_ENTRY
    <2>6. OneCycle'
      BY <1>4, <2>4 DEF IInv, OneCycle, listGET_OWNER_OF_NEXT_ENTRY
    <2>7. CountIsRight'
      BY <1>4 DEF IInv, CountIsRight, listGET_OWNER_OF_NEXT_ENTRY
    <2> QED
      BY <2>3, <2>5, <2>6, <2>7 DEF IInv
  <1>5. ASSUME NEW i \in Items, NEW v \in 0..MaxDelay,
               listSET_LIST_ITEM_VALUE(i, v)
        PROVE  IInv'
    <2>1. TypeOK'
      BY <1>5 DEF IInv, TypeOK, listSET_LIST_ITEM_VALUE
    <2>2. \A k \in Lists : Linked(k)' = Linked(k)
      BY <1>5 DEF Linked, listSET_LIST_ITEM_VALUE
    <2>3. \A k \in Lists : xItemValue'[k] = xItemValue[k]
      BY <1>5, NodesAssumption
         DEF IInv, TypeOK, listSET_LIST_ITEM_VALUE, Nodes
    <2>4. WellLinked'
      BY <1>5, <2>2, <2>3 DEF IInv, WellLinked, listSET_LIST_ITEM_VALUE
    <2>5. OneCycle'
      BY <1>5, <2>2 DEF IInv, OneCycle, listSET_LIST_ITEM_VALUE
    <2>6. CountIsRight'
      BY <1>5 DEF IInv, CountIsRight, listSET_LIST_ITEM_VALUE
    <2> QED
      BY <2>1, <2>4, <2>5, <2>6 DEF IInv
  <1>6. CASE UNCHANGED vars
    BY <1>6 DEF IInv, TypeOK, WellLinked, OneCycle, CountIsRight,
                Linked, vars
  <1> QED
    BY <1>1, <1>2, <1>3, <1>4, <1>5, <1>6 DEF Next

(* Every list operation keeps pointers, values and counters of their type. *)
THEOREM TypeCorrect == Spec => []TypeOK
  <1>1. IInv => TypeOK
    BY DEF IInv
  <1> QED
    BY InitIInv, NextIInv, <1>1, PTL DEF Spec

(* Through any sequence of insertions, removals and walks, the two chains  *)
(* of every list mirror each other and pxIndex stays on the list (list.c). *)
THEOREM ListsWellLinked == Spec => []WellLinked
  <1>1. IInv => WellLinked
    BY DEF IInv
  <1> QED
    BY InitIInv, NextIInv, <1>1, PTL DEF Spec

(* uxNumberOfItems of every list is the number of items it contains, so a  *)
(* list the kernel reports empty is empty (list.c:99, 166, 193).           *)
THEOREM CountsRight == Spec => []CountIsRight
  <1>1. IInv => CountIsRight
    BY DEF IInv
  <1> QED
    BY InitIInv, NextIInv, <1>1, PTL DEF Spec

-----------------------------------------------------------------------------
StorageIInv == StorageTypeOK /\ PointersAgree

LEMMA InitStorageIInv == StorageInit => StorageIInv
  BY StorageAssumption DEF StorageInit, StorageIInv, StorageTypeOK, PointersAgree, Slot

LEMMA NextStorageIInv == StorageIInv /\ [StorageNext]_storageVars => StorageIInv'
  <1> SUFFICES ASSUME StorageIInv, [StorageNext]_storageVars PROVE StorageIInv'
    OBVIOUS
  <1> USE StorageAssumption DEF StorageIInv, StorageTypeOK, PointersAgree, Slot, Up, Down
  <1>7. CASE UNCHANGED storageVars
    BY <1>7 DEF storageVars
  <1> SUFFICES ASSUME StorageNext PROVE StorageIInv'
    BY <1>7
  <1> uxLength' = uxLength
    BY DEF StorageNext
  <1>1. ASSUME NEW v \in Values, CopyToBack(v) PROVE StorageIInv'
    BY <1>1 DEF CopyToBack
  <1>2. ASSUME NEW v \in Values, CopyToFront(v) PROVE StorageIInv'
    BY <1>2 DEF CopyToFront
  <1>3. ASSUME NEW v \in Values, Overwrite(v) PROVE StorageIInv'
    BY <1>3 DEF Overwrite
  <1>4. CASE Receive
    BY <1>4 DEF Receive, prvCopyDataFromQueue
  <1>5. CASE Peek
    BY <1>5 DEF Peek
  <1>6. CASE Reset
    BY <1>6 DEF Reset
  <1> QED
    BY <1>1, <1>2, <1>3, <1>4, <1>5, <1>6 DEF StorageNext, prvCopyDataToQueue

(* The pointers stay inside the storage and the count inside the capacity. *)
THEOREM StorageTypeCorrect == StorageSpec => []StorageTypeOK
  <1>1. StorageIInv => StorageTypeOK
    BY DEF StorageIInv
  <1> QED
    BY InitStorageIInv, NextStorageIInv, <1>1, PTL DEF StorageSpec

(* After any mix of writes at both ends, overwrites, reads and resets, the *)
(* write pointer is where the read pointer and the count say it is.        *)
THEOREM PointersAlwaysAgree == StorageSpec => []PointersAgree
  <1>1. StorageIInv => PointersAgree
    BY DEF StorageIInv
  <1> QED
    BY InitStorageIInv, NextStorageIInv, <1>1, PTL DEF StorageSpec

-----------------------------------------------------------------------------
(* The abstract sequence is a sequence of items, as long as the count.     *)
ContentsFacts ==
    /\ Contents \in Seq(Values)
    /\ Len(Contents) = uxMessagesWaiting
    /\ \A k \in 1..uxMessagesWaiting : Contents[k] = storage[Slot(k)]

LEMMA ContentsType == StorageIInv => ContentsFacts
  <1> SUFFICES ASSUME StorageIInv PROVE ContentsFacts
    OBVIOUS
  <1>1. \A k \in 1..uxMessagesWaiting : Slot(k) \in 0..(uxLength - 1)
    BY StorageAssumption DEF StorageIInv, StorageTypeOK, Slot
  <1>2. \A k \in 1..uxMessagesWaiting : storage[Slot(k)] \in Values
    BY <1>1 DEF StorageIInv, StorageTypeOK
  <1>3. uxMessagesWaiting \in Nat
    BY StorageAssumption DEF StorageIInv, StorageTypeOK
  <1> QED
    BY <1>2, <1>3 DEF Contents, ContentsFacts

LEMMA ContentsTypePrimed == StorageIInv' => ContentsFacts'
  BY ContentsType, PTL

(* A step of the circular buffer is a step of the sequence, or leaves it   *)
(* alone.                                                                  *)
LEMMA StepSimulation ==
    StorageIInv /\ StorageIInv' /\ [StorageNext]_storageVars => [Deque!Next]_(Deque!vars)
  <1> SUFFICES ASSUME StorageIInv, StorageIInv', [StorageNext]_storageVars
               PROVE  [Deque!Next]_(Deque!vars)
    OBVIOUS
  <1> DEFINE n == uxMessagesWaiting
  <1>0. /\ Contents \in Seq(Values) /\ Len(Contents) = n
        /\ \A k \in 1..n : Contents[k] = storage[Slot(k)]
        /\ Contents' \in Seq(Values) /\ Len(Contents') = n'
        /\ \A k \in 1..n' : Contents'[k] = storage'[Slot(k)']
    BY ContentsType, ContentsTypePrimed DEF ContentsFacts
  <1>7. CASE UNCHANGED storageVars
    BY <1>7 DEF storageVars, Deque!vars, Contents, Slot
  <1> SUFFICES ASSUME StorageNext PROVE Deque!Next
    BY <1>7
  <1> uxLength' = uxLength
    BY DEF StorageNext
  <1>00. uxLength \in Nat /\ n \in 0..uxLength /\ n' \in 0..uxLength
    BY StorageAssumption DEF StorageIInv, StorageTypeOK
  <1> USE StorageAssumption
  <1>1. ASSUME NEW v \in Values, CopyToBack(v) PROVE Deque!SendToBack(v)
    <2>1. n < uxLength /\ n' = n + 1
      BY <1>1 DEF CopyToBack
    <2>2. \A k \in 1..n : Slot(k)' = Slot(k) /\ Slot(k) # pcWriteTo
      BY <1>1, <2>1 DEF CopyToBack, StorageIInv, StorageTypeOK, PointersAgree, Slot
    <2>3. \A k \in 1..n' : k = n + 1 => Slot(k)' = pcWriteTo
      BY <1>1, <2>1 DEF CopyToBack, StorageIInv, StorageTypeOK, PointersAgree, Slot
    <2>4. \A k \in 1..n : Slot(k) \in 0..(uxLength - 1)
      BY DEF StorageIInv, StorageTypeOK, Slot
    <2>5. \A k \in 1..n' : storage'[Slot(k)'] =
                               IF k = n + 1 THEN v ELSE storage[Slot(k)]
      BY <1>1, <2>1, <2>2, <2>3, <2>4 DEF CopyToBack, StorageIInv, StorageTypeOK
    <2>6. Contents' = Append(Contents, v)
      <3> DEFINE a == Append(Contents, v)
      <3>1. /\ a \in Seq(Values) /\ Len(a) = n + 1 /\ a[n + 1] = v
            /\ \A k \in 1..n : a[k] = Contents[k]
        BY <1>0, <1>00, AppendProperties
      <3> HIDE DEF a
      <3>2. \A k \in 1..n' : Contents'[k] = a[k]
        BY <1>0, <1>00, <2>1, <2>5, <3>1
      <3>3. Contents' = a
        BY <1>0, <2>1, <3>1, <3>2, SeqEqual
      <3> QED
        BY <3>3 DEF a
    <2> QED
      BY <1>0, <1>1, <2>1, <2>6 DEF Deque!SendToBack, CopyToBack
  <1>2. ASSUME NEW v \in Values, CopyToFront(v) PROVE Deque!SendToFront(v)
    <2>1. n < uxLength /\ n' = n + 1
      BY <1>2 DEF CopyToFront
    <2>2. \A k \in 1..n : Slot(k + 1)' = Slot(k) /\ Slot(k) # pcReadFrom
      BY <1>2, <2>1 DEF CopyToFront, StorageIInv, StorageTypeOK, Slot, Down
    <2>3. Slot(1)' = pcReadFrom
      BY <1>2, <2>1 DEF CopyToFront, StorageIInv, StorageTypeOK, Slot, Down
    <2>4. \A k \in 1..n : Slot(k) \in 0..(uxLength - 1)
      BY DEF StorageIInv, StorageTypeOK, Slot
    <2>5. /\ storage'[Slot(1)'] = v
          /\ \A k \in 1..n : storage'[Slot(k + 1)'] = storage[Slot(k)]
      BY <1>2, <2>2, <2>3, <2>4 DEF CopyToFront, StorageIInv, StorageTypeOK
    <2>6. Contents' = <<v>> \o Contents
      <3>1. Contents'[1] = v /\ \A k \in 1..n : Contents'[k + 1] = Contents[k]
        BY <1>0, <1>00, <2>1, <2>5
      <3>2. \A k \in 1..n' : Contents'[k] = (<<v>> \o Contents)[k]
        <4> TAKE k \in 1..n'
        <4>1. CASE k = 1
          BY <4>1, <1>0, <1>00, <3>1
        <4>2. CASE k # 1
          <5>1. k - 1 \in 1..n /\ k = (k - 1) + 1
            BY <4>2, <2>1, <1>00
          <5>2. Contents'[k] = Contents[k - 1]
            BY <5>1, <3>1
          <5> QED
            BY <5>1, <5>2, <4>2, <1>0, <1>00
        <4> QED
          BY <4>1, <4>2
      <3>3. <<v>> \o Contents \in Seq(Values) /\ Len(<<v>> \o Contents) = n'
        BY <1>0, <1>00, <2>1
      <3> QED
        BY <1>0, <3>2, <3>3, SeqEqual
    <2> QED
      BY <1>0, <1>2, <2>1, <2>6 DEF Deque!SendToFront, CopyToFront
  <1>3. ASSUME NEW v \in Values, Overwrite(v) PROVE Deque!Overwrite(v)
    <2>1. uxLength = 1 /\ n' = 1
      BY <1>3, <1>00 DEF Overwrite
    <2>2. Slot(1)' = pcReadFrom /\ storage'[pcReadFrom] = v
      BY <1>3, <2>1 DEF Overwrite, StorageIInv, StorageTypeOK, Slot, Down
    <2>3. Contents'[1] = v
      BY <1>0, <2>1, <2>2
    <2>4. <<v>> \in Seq(Values) /\ Len(<<v>>) = 1 /\ <<v>>[1] = v
      OBVIOUS
    <2>5. Contents' = <<v>>
      BY <1>0, <2>1, <2>3, <2>4, SeqEqual
    <2> QED
      BY <1>3, <2>1, <2>5 DEF Deque!Overwrite, Overwrite
  <1>4. CASE Receive
    <2>1. n > 0 /\ n' = n - 1 /\ pvBuffer' = storage[Slot(1)]
      BY <1>4 DEF Receive, prvCopyDataFromQueue, Slot, Up, StorageIInv, StorageTypeOK
    <2>2. \A k \in 1..n' : Slot(k)' = Slot(k + 1)
      BY <1>4, <2>1 DEF Receive, prvCopyDataFromQueue, Slot, Up, StorageIInv, StorageTypeOK
    <2>3. pvBuffer' = Head(Contents) /\ Contents # <<>>
      BY <1>0, <1>00, <2>1
    <2>4. Contents' = Tail(Contents)
      <3>1. \A k \in 1..n' : Contents'[k] = Contents[k + 1]
        BY <1>0, <1>00, <1>4, <2>1, <2>2 DEF Receive
      <3>2. Tail(Contents) \in Seq(Values) /\ Len(Tail(Contents)) = n'
            /\ \A k \in 1..n' : Tail(Contents)[k] = Contents[k + 1]
        BY <1>0, <1>00, <2>1
      <3> QED
        BY <1>0, <3>1, <3>2, SeqEqual
    <2> QED
      BY <2>3, <2>4 DEF Deque!Next, Deque!Receive
  <1>5. CASE Peek
    <2>1. n > 0 /\ pvBuffer' = storage[Slot(1)] /\ Contents' = Contents
      BY <1>5 DEF Peek, Slot, Up, StorageIInv, StorageTypeOK, Contents
    <2>2. pvBuffer' = Head(Contents) /\ Contents # <<>>
      BY <1>0, <1>00, <2>1
    <2> QED
      BY <2>1, <2>2 DEF Deque!Next, Deque!Peek
  <1>6. CASE Reset
    <2>1. n' = 0 /\ pvBuffer' = pvBuffer
      BY <1>6 DEF Reset
    <2>2. Contents' = <<>>
      BY <1>0, <2>1
    <2> QED
      BY <2>1, <2>2 DEF Deque!Next, Deque!Reset
  <1> QED
    BY <1>1, <1>2, <1>3, <1>4, <1>5, <1>6
       DEF StorageNext, prvCopyDataToQueue, Deque!Next

(* For every capacity, the circular buffer implements the bounded deque.   *)
THEOREM StorageImplementsDeque == StorageSpec => ImplementsDeque
  <1>1. StorageInit => Deque!Init
    BY DEF StorageInit, Deque!Init, Contents
  <1> QED
    BY <1>1, InitStorageIInv, NextStorageIInv, StepSimulation, PTL
       DEF StorageSpec, ImplementsDeque, Deque!Spec
=============================================================================
