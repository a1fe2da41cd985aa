-------------------------- MODULE SchedulerProofs ---------------------------
(* Machine-checked facts about Scheduler, for any tasks, priorities,       *)
(* programs and lengths of the tick counter.                               *)
EXTENDS Scheduler, SequenceProofs

(***************************************************************************)
(* The ready lists, abstractly: who is away is on none of them, any other  *)
(* task is on the one of its priority.                                     *)
(***************************************************************************)
Prios == 0..TopPriority
Nodes == Tasks \cup {End}

Rings == {l \in [Prios -> Seq(Nodes)] :
             \A p \in Prios : IsInjective(l[p]) /\ End \in Range(l[p])}

On(l, t) == {p \in Prios : t \in Range(l[p])}

Placed(l, prio, away) ==
    /\ l \in Rings
    /\ \A p \in Prios, t \in Tasks :
          t \in Range(l[p]) <=> p = prio[t] /\ t \notin away

-----------------------------------------------------------------------------
(* The rings.                                                              *)
LEMMA SingleFacts ==
    ASSUME NEW S, NEW e \in S
    PROVE  /\ <<e>> \in Seq(S) /\ Len(<<e>>) = 1 /\ <<e>>[1] = e
           /\ Range(<<e>>) = {e} /\ IsInjective(<<e>>)
  <1>1. <<e>> \in Seq(S) /\ DOMAIN <<e>> = 1..1 /\ <<e>>[1] = e /\ Len(<<e>>) = 1
    OBVIOUS
  <1>2. Range(<<e>>) = {e}
    BY <1>1 DEF Range
  <1>3. IsInjective(<<e>>)
    BY <1>1 DEF IsInjective
  <1> QED BY <1>1, <1>2, <1>3

LEMMA OnlyOne ==
    ASSUME NEW S, NEW s \in Seq(S), Len(s) = 1
    PROVE  s = <<s[1]>>
  <1> DEFINE e == s[1]
             u == <<e>>
  <1>1. DOMAIN s = 1..1 /\ s = [k \in 1..1 |-> s[k]]
    OBVIOUS
  <1>2. DOMAIN u = 1..1 /\ u = [k \in 1..1 |-> u[k]] /\ u[1] = e
    OBVIOUS
  <1> HIDE DEF u
  <1>3. \A k \in 1..1 : s[k] = u[k]
    BY <1>2
  <1>4. s = u
    BY <1>1, <1>2, <1>3
  <1> QED BY <1>4 DEF u

(* The ring turned by one: the same nodes, and the first is the last now. *)
LEMMA RotatedFacts ==
    ASSUME NEW S, NEW r \in Seq(S), r # <<>>, IsInjective(r)
    PROVE  /\ Rotated(r) \in Seq(S) /\ Rotated(r) # <<>> /\ IsInjective(Rotated(r))
           /\ Range(Rotated(r)) = Range(r)
           /\ Last(Rotated(r)) = r[1]
           /\ Len(r) > 1 => Head(Rotated(r)) = r[2]
  <1>1. /\ Tail(r) \in Seq(S) /\ IsInjective(Tail(r)) /\ Head(r) \in S
        /\ Head(r) \in Range(r) /\ Range(Tail(r)) = Range(r) \ {Head(r)}
    BY TailFacts
  <1>2. /\ <<Head(r)>> \in Seq(S) /\ Range(<<Head(r)>>) = {Head(r)}
        /\ IsInjective(<<Head(r)>>)
    BY <1>1, SingleFacts
  <1>3. /\ Rotated(r) \in Seq(S) /\ IsInjective(Rotated(r))
        /\ Range(Rotated(r)) = Range(r)
    <2>1. Range(Tail(r)) \cap Range(<<Head(r)>>) = {}
      BY <1>1, <1>2
    <2>2. /\ Tail(r) \o <<Head(r)>> \in Seq(S)
          /\ Range(Tail(r) \o <<Head(r)>>) = Range(Tail(r)) \cup Range(<<Head(r)>>)
          /\ IsInjective(Tail(r) \o <<Head(r)>>)
      BY <1>1, <1>2, <2>1, ConcatFacts
    <2> QED BY <1>1, <1>2, <2>2 DEF Rotated
  <1>4. /\ Len(Tail(r)) = Len(r) - 1 /\ Len(r) \in Nat /\ Len(r) > 0 /\ Head(r) = r[1]
        /\ Len(r) > 1 => Tail(r)[1] = r[2]
    OBVIOUS
  <1>5. /\ Len(Tail(r) \o <<Head(r)>>) = Len(r)
        /\ (Tail(r) \o <<Head(r)>>)[Len(r)] = r[1]
        /\ Len(r) > 1 => (Tail(r) \o <<Head(r)>>)[1] = r[2]
    BY <1>1, <1>2, <1>4
  <1>6. Rotated(r) # <<>> /\ Head(Rotated(r)) = Rotated(r)[1]
    BY <1>3, <1>4, <1>5 DEF Rotated
  <1> QED BY <1>3, <1>4, <1>5, <1>6 DEF Rotated, Last

(* A ring with a task in it, after the turn has passed on: pxIndex, the    *)
(* last node, stands on a task.                                            *)
LEMMA NextEntryFacts ==
    ASSUME NEW r \in Seq(Nodes), IsInjective(r), End \in Range(r), r # <<End>>
    PROVE  /\ NextEntry(r) \in Seq(Nodes) /\ IsInjective(NextEntry(r))
           /\ Range(NextEntry(r)) = Range(r)
           /\ Last(NextEntry(r)) \in Tasks \cap Range(r)
  <1>1. r # <<>> /\ Len(r) \in Nat /\ DOMAIN r = 1..Len(r) /\ \A k \in 1..Len(r) : r[k] \in Nodes
    BY DEF Range
  <1>2. \A k \in 1..Len(r) : r[k] \in Range(r)
    BY <1>1 DEF Range
  <1> DEFINE s == Rotated(r)
  <1>3. /\ s \in Seq(Nodes) /\ s # <<>> /\ IsInjective(s) /\ Range(s) = Range(r)
        /\ Last(s) = r[1] /\ (Len(r) > 1 => Head(s) = r[2])
    BY <1>1, RotatedFacts
  <1>4. CASE Head(r) = End
    <2>1. Len(r) # 1
      BY <1>1, <1>4
    <2>2. Len(r) > 1 /\ r[2] # r[1] /\ r[1] = End
      BY <1>1, <1>4, <2>1 DEF IsInjective
    <2> HIDE DEF s
    <2>3. /\ Rotated(s) \in Seq(Nodes) /\ IsInjective(Rotated(s))
          /\ Range(Rotated(s)) = Range(r) /\ Last(Rotated(s)) = s[1]
      BY <1>3, RotatedFacts
    <2>4. s[1] = r[2]
      BY <1>3, <2>2
    <2>5. r[2] \in Tasks \cap Range(r)
      BY <1>1, <1>2, <2>2 DEF Nodes
    <2> QED BY <1>4, <2>3, <2>4, <2>5 DEF NextEntry, s
  <1>5. CASE Head(r) # End
    <2>1. r[1] \in Tasks \cap Range(r)
      BY <1>1, <1>2, <1>5 DEF Nodes
    <2> QED BY <1>3, <1>5, <2>1 DEF NextEntry
  <1> QED BY <1>4, <1>5

(* New nodes in front of pxIndex. *)
LEMMA InsertEndFacts ==
    ASSUME NEW r \in Seq(Nodes), IsInjective(r), r # <<>>,
           NEW q \in Seq(Nodes), IsInjective(q), Range(q) \cap Range(r) = {}
    PROVE  /\ InsertEnd(r, q) \in Seq(Nodes) /\ IsInjective(InsertEnd(r, q))
           /\ Range(InsertEnd(r, q)) = Range(r) \cup Range(q)
  <1> DEFINE f == Front(r)
             l == <<Last(r)>>
             n == Len(r)
  <1>1. n \in Nat /\ n > 0 /\ Last(r) = r[n] /\ r[n] \in Nodes
    BY DEF Last
  <1>2. LET b == SubSeq(r, n - 1 + 1, n)
        IN  /\ f \in Seq(Nodes) /\ IsInjective(f)
            /\ Range(f) \cap Range(b) = {} /\ Range(f) \cup Range(b) = Range(r)
    <2>1. n - 1 \in 0..Len(r)
      BY <1>1
    <2> QED BY <2>1, CutFacts DEF Front
  <1>3. SubSeq(r, n - 1 + 1, n) = l
    <2>1. n - 1 + 1 = n
      BY <1>1
    <2>2. SubSeq(r, n, n) \in Seq(Nodes) /\ Len(SubSeq(r, n, n)) = 1 /\ SubSeq(r, n, n)[1] = r[n]
      BY <1>1
    <2> QED BY <1>1, <2>1, <2>2, OnlyOne
  <1>4. l \in Seq(Nodes) /\ IsInjective(l) /\ Range(l) = {Last(r)}
    BY <1>1, SingleFacts
  <1> HIDE DEF f, l, n
  <1>5. /\ f \in Seq(Nodes) /\ IsInjective(f)
        /\ Range(f) \cap Range(l) = {} /\ Range(f) \cup Range(l) = Range(r)
    BY <1>2, <1>3
  <1>6. /\ f \o q \in Seq(Nodes) /\ IsInjective(f \o q)
        /\ Range(f \o q) = Range(f) \cup Range(q)
    <2>1. Range(f) \cap Range(q) = {}
      BY <1>5
    <2> QED BY <1>5, <2>1, ConcatFacts
  <1>7. /\ (f \o q) \o l \in Seq(Nodes) /\ IsInjective((f \o q) \o l)
        /\ Range((f \o q) \o l) = Range(f) \cup Range(q) \cup Range(l)
    <2> DEFINE g == f \o q
    <2>1. Range(g) \cap Range(l) = {}
      BY <1>5, <1>6
    <2>2. g \in Seq(Nodes) /\ IsInjective(g) /\ Range(g) = Range(f) \cup Range(q)
      BY <1>6
    <2> HIDE DEF g
    <2>3. /\ g \o l \in Seq(Nodes) /\ IsInjective(g \o l)
          /\ Range(g \o l) = Range(g) \cup Range(l)
      BY <1>4, <2>1, <2>2, ConcatFacts
    <2> QED BY <2>2, <2>3 DEF g
  <1>8. InsertEnd(r, q) = (f \o q) \o l
    BY DEF InsertEnd, f, l
  <1> QED BY <1>5, <1>7, <1>8

-----------------------------------------------------------------------------
(* The ready lists.                                                        *)
LEMMA RingTasks ==
    ASSUME NEW l \in Rings, NEW p \in Prios
    PROVE  /\ l[p] \in Seq(Nodes) /\ IsInjective(l[p]) /\ End \in Range(l[p])
           /\ l[p] # <<>>
           /\ \A t \in Tasks : t \in Range(l[p]) => l[p] # <<End>>
           /\ l[p] # <<End>> => \E t \in Tasks : t \in Range(l[p])
  <1>1. l[p] \in Seq(Nodes) /\ IsInjective(l[p]) /\ End \in Range(l[p])
    BY DEF Rings
  <1>2. l[p] # <<>>
    BY <1>1 DEF Range
  <1>3. Range(<<End>>) = {End}
    BY SingleFacts
  <1>4. \A t \in Tasks : t \in Range(l[p]) => l[p] # <<End>>
    BY <1>3, TasksAssumption
  <1>5. ASSUME l[p] # <<End>> PROVE \E t \in Tasks : t \in Range(l[p])
    <2>1. Last(NextEntry(l[p])) \in Tasks \cap Range(l[p])
      BY <1>1, <1>5, NextEntryFacts
    <2> QED BY <2>1
  <1> QED BY <1>1, <1>2, <1>4, <1>5

LEMMA PriosFacts == TopPriority \in Nat /\ 0 \in Prios /\ Prios \subseteq Nat
  BY PriorityAssumption DEF Prios

(* The search for the highest ready priority finds it, since the idle task *)
(* is always ready and the search starts no lower than any ready task.     *)
LEMMA HighestReadyFacts ==
    ASSUME NEW l \in Rings, NEW top \in Prios, Idle \in Range(l[0]),
           \A p \in Prios, t \in Tasks : t \in Range(l[p]) => p <= top
    PROVE  LET p == HighestReady(l, top)
           IN  /\ p \in Prios /\ l[p] # <<End>>
               /\ \A q \in Prios, t \in Tasks : t \in Range(l[q]) => q <= p
  <1> DEFINE T == {p \in 0..top : l[p] # <<End>>}
             Best(p) == /\ p \in 0..top /\ l[p] # <<End>>
                        /\ \A s \in (p + 1)..top : l[s] = <<End>>
  <1>1. top \in Nat /\ 0..top \subseteq Prios /\ 0 \in 0..top
    BY PriosFacts DEF Prios
  <1>2. 0 \in T
    BY <1>1, PriosFacts, RingTasks, TasksAssumption
  <1>3. PICK k \in T : \A j \in T : j <= k
    BY <1>1, <1>2, GreatestNatural
  <1>4. Best(k)
    BY <1>1, <1>3
  <1> DEFINE p == HighestReady(l, top)
  <1>5. p = CHOOSE x \in 0..top : /\ l[x] # <<End>>
                                  /\ \A s \in (x + 1)..top : l[s] = <<End>>
    BY DEF HighestReady
  <1>6. Best(p)
    BY <1>4, <1>5
  <1> HIDE DEF p
  <1>7. ASSUME NEW q \in Prios, NEW t \in Tasks, t \in Range(l[q]) PROVE q <= p
    <2>1. q <= top /\ l[q] # <<End>>
      BY <1>7, RingTasks
    <2>2. q \in Nat /\ p \in Nat /\ top \in Nat
      BY <1>1, <1>6, PriosFacts
    <2>3. ~ q \in (p + 1)..top
      BY <1>6, <2>1
    <2> QED BY <2>1, <2>2, <2>3
  <1>8. p \in Prios /\ l[p] # <<End>>
    BY <1>1, <1>6
  <1> QED BY <1>7, <1>8 DEF p

LEMMA PlacedFacts ==
    ASSUME NEW l, NEW prio \in [Tasks -> Prios], NEW away, Placed(l, prio, away)
    PROVE  /\ l \in Rings
           /\ \A p \in Prios, t \in Tasks :
                 t \in Range(l[p]) <=> p = prio[t] /\ t \notin away
           /\ \A t \in Tasks : t \notin away <=> t \in Range(l[prio[t]])
           /\ \A t \in Tasks : t \notin away <=> On(l, t) # {}
           /\ \A t \in Tasks : t \notin away => On(l, t) = {prio[t]}
  <1>1. /\ l \in Rings
        /\ \A p \in Prios, t \in Tasks :
              t \in Range(l[p]) <=> p = prio[t] /\ t \notin away
    BY DEF Placed
  <1>2. \A t \in Tasks : prio[t] \in Prios
    OBVIOUS
  <1> QED BY <1>1, <1>2 DEF On

(* What a context switch does: the lists stay as they are but for a turn,  *)
(* and the task that runs next is ready and no ready task is above it.     *)
LEMMA DispatchFacts ==
    ASSUME NEW l, NEW prio \in [Tasks -> Prios], NEW away, Placed(l, prio, away),
           NEW top \in Prios, \A t \in Tasks : t \notin away => prio[t] <= top,
           Idle \notin away, prio[Idle] = 0,
           NEW yield \in BOOLEAN, NEW suspended,
           xYieldPending \in BOOLEAN, pxCurrentTCB \in Tasks,
           Dispatch(l, top, yield, suspended)
    PROVE  /\ Placed(pxReadyTasksLists', prio, away)
           /\ uxTopReadyPriority' \in Prios
           /\ \A t \in Tasks : t \notin away => prio[t] <= uxTopReadyPriority'
           /\ pxCurrentTCB' \in Tasks /\ xYieldPending' \in BOOLEAN
           /\ IF yield /\ suspended = 0
              THEN /\ ~ xYieldPending' /\ pxCurrentTCB' \notin away
                   /\ \A t \in Tasks : t \notin away => prio[t] <= prio[pxCurrentTCB']
              ELSE /\ xYieldPending' = (xYieldPending \/ yield)
                   /\ pxCurrentTCB' = pxCurrentTCB
  <1>1. CASE yield /\ suspended = 0
    <2> DEFINE p == HighestReady(l, top)
               r == NextEntry(l[p])
    <2>1. /\ pxReadyTasksLists' = [l EXCEPT ![p] = r]
          /\ pxCurrentTCB' = Last(r)
          /\ uxTopReadyPriority' = p
          /\ xYieldPending' = FALSE
      BY <1>1 DEF Dispatch
    <2>2. /\ l \in Rings
          /\ \A q \in Prios, t \in Tasks :
                t \in Range(l[q]) <=> q = prio[t] /\ t \notin away
          /\ \A t \in Tasks : prio[t] \in Prios
      BY DEF Placed
    <2>3. /\ Idle \in Range(l[0])
          /\ \A q \in Prios, t \in Tasks : t \in Range(l[q]) => q <= top
      BY <2>2, PriosFacts, TasksAssumption
    <2>4. /\ p \in Prios /\ l[p] # <<End>>
          /\ \A q \in Prios, t \in Tasks : t \in Range(l[q]) => q <= p
      BY <2>2, <2>3, HighestReadyFacts
    <2> HIDE DEF p
    <2>5. l[p] \in Seq(Nodes) /\ IsInjective(l[p]) /\ End \in Range(l[p])
      BY <2>2, <2>4, RingTasks
    <2>6. /\ r \in Seq(Nodes) /\ IsInjective(r) /\ Range(r) = Range(l[p])
          /\ Last(r) \in Tasks \cap Range(l[p])
      BY <2>4, <2>5, NextEntryFacts
    <2> HIDE DEF r
    <2> DEFINE new == [l EXCEPT ![p] = r]
    <2>7. /\ l \in [Prios -> Seq(Nodes)]
          /\ \A q \in Prios : IsInjective(l[q]) /\ End \in Range(l[q])
      BY <2>2 DEF Rings
    <2>8. \A q \in Prios : new[q] = IF q = p THEN r ELSE l[q]
      BY <2>7
    <2>9. new \in [Prios -> Seq(Nodes)]
      BY <2>6, <2>7
    <2> HIDE DEF new
    <2>10. \A q \in Prios : /\ Range(new[q]) = Range(l[q])
                            /\ IsInjective(new[q]) /\ End \in Range(new[q])
      BY <2>6, <2>7, <2>8
    <2>11. Placed(new, prio, away)
      BY <2>2, <2>9, <2>10 DEF Placed, Rings
    <2>12. /\ Last(r) \in Tasks /\ Last(r) \notin away /\ prio[Last(r)] = p
           /\ \A t \in Tasks : t \notin away => prio[t] <= p
      BY <2>2, <2>4, <2>6
    <2> QED BY <1>1, <2>1, <2>4, <2>11, <2>12 DEF new
  <1>2. CASE ~ (yield /\ suspended = 0)
    <2>1. /\ pxReadyTasksLists' = l
          /\ uxTopReadyPriority' = top
          /\ xYieldPending' = (xYieldPending \/ yield)
          /\ pxCurrentTCB' = pxCurrentTCB
      BY <1>2 DEF Dispatch
    <2> QED BY <1>2, <2>1
  <1> QED BY <1>1, <1>2

(* prvAddTaskToReadyList, for the tasks of q. *)
LEMMA AddReadyFacts ==
    ASSUME NEW l, NEW prio \in [Tasks -> Prios], NEW away, Placed(l, prio, away),
           NEW q \in Seq(Tasks), IsInjective(q), Range(q) \subseteq away
    PROVE  Placed(AddReady(l, prio, q), prio, away \ Range(q))
  <1> DEFINE others(p) == {t \in Tasks : prio[t] # p}
             new == [p \in Prios |-> InsertEnd(l[p], Without(q, others(p)))]
  <1>1. AddReady(l, prio, q) = new
    BY DEF AddReady, Prios
  <1>2. /\ l \in Rings /\ Range(q) \subseteq Tasks
        /\ \A p \in Prios, t \in Tasks :
              t \in Range(l[p]) <=> p = prio[t] /\ t \notin away
    BY DEF Placed, Range
  <1>3. ASSUME NEW p \in Prios
        PROVE  /\ new[p] \in Seq(Nodes) /\ IsInjective(new[p])
               /\ Range(new[p]) = Range(l[p]) \cup {t \in Range(q) : prio[t] = p}
               /\ End \in Range(new[p])
    <2> DEFINE w == Without(q, others(p))
    <2>1. w \in Seq(Tasks) /\ Range(w) = Range(q) \ others(p) /\ IsInjective(w)
      BY WithoutFacts
    <2>2. Range(w) = {t \in Range(q) : prio[t] = p}
      BY <1>2, <2>1
    <2>3. /\ l[p] \in Seq(Nodes) /\ IsInjective(l[p]) /\ End \in Range(l[p])
          /\ l[p] # <<>>
      BY <1>2, RingTasks
    <2>4. w \in Seq(Nodes)
      BY <2>1 DEF Nodes
    <2>5. Range(w) \cap Range(l[p]) = {}
      BY <1>2, <2>2
    <2>6. new[p] = InsertEnd(l[p], w)
      OBVIOUS
    <2> HIDE DEF w, new
    <2> QED BY <2>1, <2>2, <2>3, <2>4, <2>5, <2>6, InsertEndFacts
  <1>4. new \in [Prios -> Seq(Nodes)]
    BY <1>3
  <1> HIDE DEF new
  <1>5. new \in Rings
    BY <1>3, <1>4 DEF Rings
  <1>6. \A p \in Prios, t \in Tasks :
            t \in Range(new[p]) <=> p = prio[t] /\ t \notin away \ Range(q)
    BY <1>2, <1>3
  <1> QED BY <1>1, <1>5, <1>6 DEF Placed

(* uxListRemove, for the ready list a task of S is on. *)
LEMMA WithoutPlaced ==
    ASSUME NEW l, NEW prio \in [Tasks -> Prios], NEW away, Placed(l, prio, away),
           NEW S \in SUBSET Tasks
    PROVE  Placed([p \in Prios |-> Without(l[p], S)], prio, away \cup S)
  <1> DEFINE new == [p \in Prios |-> Without(l[p], S)]
  <1>1. /\ l \in Rings
        /\ \A p \in Prios, t \in Tasks :
              t \in Range(l[p]) <=> p = prio[t] /\ t \notin away
    BY DEF Placed
  <1>2. ASSUME NEW p \in Prios
        PROVE  /\ new[p] \in Seq(Nodes) /\ IsInjective(new[p])
               /\ Range(new[p]) = Range(l[p]) \ S /\ End \in Range(new[p])
    <2>1. l[p] \in Seq(Nodes) /\ IsInjective(l[p]) /\ End \in Range(l[p])
      BY <1>1, RingTasks
    <2>2. /\ Without(l[p], S) \in Seq(Nodes) /\ IsInjective(Without(l[p], S))
          /\ Range(Without(l[p], S)) = Range(l[p]) \ S
      BY <2>1, WithoutFacts
    <2> QED BY <2>1, <2>2, TasksAssumption
  <1>3. new \in [Prios -> Seq(Nodes)]
    BY <1>2
  <1> HIDE DEF new
  <1>4. new \in Rings
    BY <1>2, <1>3 DEF Rings
  <1>5. \A p \in Prios, t \in Tasks :
            t \in Range(new[p]) <=> p = prio[t] /\ t \notin away \cup S
    BY <1>1, <1>2
  <1> QED BY <1>4, <1>5 DEF Placed, new

LEMMA RemoveReadyFacts ==
    ASSUME NEW l, NEW prio \in [Tasks -> Prios], NEW away, Placed(l, prio, away),
           NEW t \in Tasks
    PROVE  Placed(RemoveReady(l, t), prio, away \cup {t})
  <1>1. RemoveReady(l, t) = [p \in Prios |-> Without(l[p], {t})]
    BY DEF RemoveReady, Prios
  <1>2. {t} \in SUBSET Tasks
    OBVIOUS
  <1> QED BY <1>1, <1>2, WithoutPlaced

(* The priority of a task that is away does not matter to the ready lists. *)
LEMMA RankedPlaced ==
    ASSUME NEW l, NEW prio \in [Tasks -> Prios], NEW away, Placed(l, prio, away),
           NEW t \in Tasks, t \in away, NEW p \in Prios
    PROVE  /\ [prio EXCEPT ![t] = p] \in [Tasks -> Prios]
           /\ Placed(l, [prio EXCEPT ![t] = p], away)
  <1> DEFINE new == [prio EXCEPT ![t] = p]
  <1>1. new \in [Tasks -> Prios] /\ \A u \in Tasks : u # t => new[u] = prio[u]
    OBVIOUS
  <1> HIDE DEF new
  <1>2. Placed(l, new, away)
    BY <1>1 DEF Placed
  <1> QED BY <1>1, <1>2 DEF new

(* taskRECORD_READY_PRIORITY raises the bound to the priorities of q. *)
LEMMA RecordReadyFacts ==
    ASSUME NEW prio \in [Tasks -> Prios], NEW top \in Prios, NEW q \in Seq(Tasks)
    PROVE  /\ RecordReady(top, prio, q) \in Prios /\ top <= RecordReady(top, prio, q)
           /\ \A t \in Range(q) : prio[t] <= RecordReady(top, prio, q)
  <1> DEFINE seen == {top} \cup {prio[t] : t \in Range(q)}
  <1>1. Range(q) \subseteq Tasks
    BY DEF Range
  <1>2. seen \in SUBSET (0..TopPriority) /\ seen # {} /\ top \in seen
        /\ \A t \in Range(q) : prio[t] \in seen
    BY <1>1 DEF Prios
  <1>3. \E k \in seen : \A j \in seen : j <= k
    <2> HIDE DEF seen
    <2> QED BY <1>2, PriosFacts, GreatestNatural
  <1>4. RecordReady(top, prio, q) = CHOOSE k \in seen : \A j \in seen : j <= k
    BY DEF RecordReady
  <1> HIDE DEF seen
  <1>5. /\ RecordReady(top, prio, q) \in seen
        /\ \A j \in seen : j <= RecordReady(top, prio, q)
    BY <1>3, <1>4
  <1> QED BY <1>2, <1>5 DEF Prios

-----------------------------------------------------------------------------
(* The lists of delayed tasks.                                             *)
Sorted(q) == \A i, j \in DOMAIN q : i <= j => xItemValue[q[i]] <= xItemValue[q[j]]

Ticks == 0..portMAX_DELAY

LEMMA TicksFacts ==
    /\ TickMod \in Nat /\ TickMod > 1 /\ portMAX_DELAY = TickMod - 1
    /\ Ticks = {n \in Int : 0 <= n /\ n < TickMod} /\ 0 \in Ticks /\ portMAX_DELAY \in Ticks
  BY TicksAssumption DEF portMAX_DELAY, Ticks

LEMMA ValueFacts ==
    ASSUME xItemValue \in [Tasks -> Ticks], NEW q \in Seq(Tasks)
    PROVE  /\ DOMAIN q = 1..Len(q) /\ Len(q) \in Nat
           /\ \A k \in DOMAIN q : /\ q[k] \in Tasks /\ q[k] \in Range(q)
                                  /\ xItemValue[q[k]] \in Int
           /\ \A t \in Range(q) : /\ t \in Tasks /\ xItemValue[t] \in Int
                                  /\ \E k \in DOMAIN q : q[k] = t
  <1>1. \A t \in Tasks : xItemValue[t] \in Int
    BY TicksFacts
  <1>2. DOMAIN q = 1..Len(q) /\ Len(q) \in Nat /\ \A k \in DOMAIN q : q[k] \in Tasks
    OBVIOUS
  <1> QED BY <1>1, <1>2 DEF Range

(* HeadTime is the least of the wake times. *)
LEMMA HeadTimeFacts ==
    ASSUME xItemValue \in [Tasks -> Ticks], NEW q \in Seq(Tasks), Sorted(q)
    PROVE  /\ HeadTime(q) \in Ticks
           /\ \A t \in Range(q) : HeadTime(q) <= xItemValue[t]
  <1>1. CASE q = <<>>
    <2>1. Range(q) = {}
      BY <1>1 DEF Range
    <2> QED BY <1>1, <2>1, TicksFacts DEF HeadTime
  <1>2. CASE q # <<>>
    <2>1. 1 \in DOMAIN q /\ Head(q) = q[1] /\ q[1] \in Tasks
      BY <1>2
    <2>2. HeadTime(q) = xItemValue[q[1]]
      BY <1>2, <2>1 DEF HeadTime
    <2>3. \A k \in DOMAIN q : xItemValue[q[1]] <= xItemValue[q[k]]
      BY <2>1 DEF Sorted
    <2> QED BY <2>1, <2>2, <2>3, ValueFacts
  <1> QED BY <1>1, <1>2

(* Sorted lists stay sorted when tasks leave. *)
LEMMA WithoutSorted ==
    ASSUME NEW q \in Seq(Tasks), Sorted(q), NEW X
    PROVE  Sorted(Without(q, X))
  <1> DEFINE r == Without(q, X)
  <1>1. PICK p \in [DOMAIN r -> DOMAIN q] : OthersInOrder(q, X, r, p)
    BY WithoutPlaces
  <1>2. r \in Seq(Tasks)
    BY WithoutPlaces
  <1> HIDE DEF r
  <1>3. ASSUME NEW i \in DOMAIN r, NEW j \in DOMAIN r, i <= j
        PROVE  xItemValue[r[i]] <= xItemValue[r[j]]
    <2>1. r[i] = q[p[i]] /\ r[j] = q[p[j]] /\ (i < j => p[i] < p[j])
      BY <1>1 DEF OthersInOrder
    <2>2. i \in Int /\ j \in Int /\ p[i] \in DOMAIN q /\ p[j] \in DOMAIN q
      BY <1>2
    <2>3. DOMAIN q \subseteq Int
      OBVIOUS
    <2>4. p[i] <= p[j]
      BY <1>3, <2>1, <2>2, <2>3
    <2> QED BY <2>1, <2>2, <2>4 DEF Sorted
  <1>4. Sorted(r)
    BY <1>3 DEF Sorted
  <1> QED BY <1>4 DEF r

(* A sorted list cut at the first task whose time has not come. *)
LEMMA SplitFacts ==
    ASSUME xItemValue \in [Tasks -> Ticks], NEW q \in Seq(Tasks), IsInjective(q), Sorted(q),
           NEW now \in Int, NEW n \in 0..Len(q),
           \A k \in DOMAIN q : k <= n <=> xItemValue[q[k]] <= now
    PROVE  LET w == SubSeq(q, 1, n)
               r == SubSeq(q, n + 1, Len(q))
           IN  /\ w \in Seq(Tasks) /\ IsInjective(w) /\ Len(w) = n
               /\ r \in Seq(Tasks) /\ IsInjective(r) /\ Sorted(r)
               /\ Range(w) = {t \in Range(q) : xItemValue[t] <= now}
               /\ Range(r) = {t \in Range(q) : now < xItemValue[t]}
  <1> DEFINE w == SubSeq(q, 1, n)
             r == SubSeq(q, n + 1, Len(q))
  <1>1. /\ w \in Seq(Tasks) /\ IsInjective(w) /\ Len(w) = n
        /\ r \in Seq(Tasks) /\ IsInjective(r) /\ Len(r) = Len(q) - n
        /\ Range(w) \cap Range(r) = {} /\ Range(w) \cup Range(r) = Range(q)
    BY CutFacts
  <1>2. \A j \in 1..n : w[j] = q[j]
    OBVIOUS
  <1>3. \A j \in 1..Len(q) - n : r[j] = q[n + j]
    OBVIOUS
  <1>4. /\ DOMAIN q = 1..Len(q) /\ Len(q) \in Nat /\ n \in Nat /\ n <= Len(q)
        /\ \A k \in DOMAIN q : xItemValue[q[k]] \in Int
    BY ValueFacts
  <1> HIDE DEF w, r
  <1>5. /\ DOMAIN w = 1..n /\ \A j \in DOMAIN w : j \in DOMAIN q /\ j <= n /\ w[j] = q[j]
    BY <1>1, <1>2, <1>4
  <1>6. /\ DOMAIN r = 1..Len(q) - n
        /\ \A j \in DOMAIN r : n + j \in DOMAIN q /\ ~ (n + j <= n) /\ r[j] = q[n + j]
    BY <1>1, <1>3, <1>4
  <1>7. \A t \in Range(w) : xItemValue[t] <= now
    BY <1>5 DEF Range
  <1>8. \A t \in Range(r) : now < xItemValue[t]
    BY <1>4, <1>6 DEF Range
  <1>9. Sorted(r)
    <2>1. ASSUME NEW i \in DOMAIN r, NEW j \in DOMAIN r, i <= j
          PROVE  xItemValue[r[i]] <= xItemValue[r[j]]
      <3>1. /\ n + i \in DOMAIN q /\ r[i] = q[n + i]
            /\ n + j \in DOMAIN q /\ r[j] = q[n + j]
        BY <1>6
      <3>2. n + i <= n + j
        BY <1>4, <1>6, <2>1
      <3> QED BY <3>1, <3>2 DEF Sorted
    <2> QED BY <2>1 DEF Sorted
  <1>10. \A t \in Range(q) : xItemValue[t] \in Int
    BY ValueFacts
  <1>11. /\ Range(w) = {t \in Range(q) : xItemValue[t] <= now}
         /\ Range(r) = {t \in Range(q) : now < xItemValue[t]}
    BY <1>1, <1>7, <1>8, <1>10
  <1> QED BY <1>1, <1>9, <1>11 DEF w, r

LEMMA ExpiredFacts ==
    ASSUME xItemValue \in [Tasks -> Ticks], NEW q \in Seq(Tasks), IsInjective(q), Sorted(q),
           NEW now \in Int
    PROVE  LET w == Expired(q, now)
               r == SubSeq(q, Len(w) + 1, Len(q))
           IN  /\ w \in Seq(Tasks) /\ IsInjective(w)
               /\ r \in Seq(Tasks) /\ IsInjective(r) /\ Sorted(r)
               /\ Range(w) = {t \in Range(q) : xItemValue[t] <= now}
               /\ Range(r) = {t \in Range(q) : now < xItemValue[t]}
  <1> DEFINE waiting == {k \in DOMAIN q : now < xItemValue[q[k]]}
             least == CHOOSE k \in waiting : \A j \in waiting : k <= j
  <1>1. /\ DOMAIN q = 1..Len(q) /\ Len(q) \in Nat
        /\ \A k \in DOMAIN q : xItemValue[q[k]] \in Int
    BY ValueFacts
  <1> DEFINE Some == \E n \in 0..Len(q) :
                        /\ Expired(q, now) = SubSeq(q, 1, n)
                        /\ \A k \in DOMAIN q : k <= n <=> xItemValue[q[k]] <= now
  <1>2. ASSUME waiting = {} PROVE Some
    <2>1. Expired(q, now) = q
      BY <1>2 DEF Expired
    <2>2. SubSeq(q, 1, Len(q)) = q
      OBVIOUS
    <2>3. \A k \in DOMAIN q : k <= Len(q) <=> xItemValue[q[k]] <= now
      BY <1>1, <1>2
    <2>4. Len(q) \in 0..Len(q)
      BY <1>1
    <2> QED BY <2>1, <2>2, <2>3, <2>4
  <1>3. ASSUME waiting # {} PROVE Some
    <2>1. waiting \in SUBSET Nat
      BY <1>1
    <2>2. PICK k \in waiting : \A j \in waiting : k <= j
      BY <1>3, <2>1, LeastNatural
    <2>3. least \in waiting /\ \A j \in waiting : least <= j
      BY <2>2
    <2>4. Expired(q, now) = SubSeq(q, 1, least - 1)
      BY <1>3 DEF Expired
    <2> HIDE DEF least
    <2>5. least \in 1..Len(q) /\ least - 1 \in 0..Len(q) /\ least - 1 + 1 = least
      BY <1>1, <2>3
    <2>6. \A j \in DOMAIN q : j <= least - 1 <=> xItemValue[q[j]] <= now
      <3> SUFFICES ASSUME NEW j \in DOMAIN q
                   PROVE  j <= least - 1 <=> xItemValue[q[j]] <= now
        OBVIOUS
      <3>1. CASE j < least
        <4>1. j \notin waiting
          BY <1>1, <2>3, <2>5, <3>1
        <4> QED BY <1>1, <2>5, <3>1, <4>1
      <3>2. CASE ~ (j < least)
        <4>1. xItemValue[q[least]] <= xItemValue[q[j]]
          BY <1>1, <2>5, <3>2 DEF Sorted
        <4>2. now < xItemValue[q[least]]
          BY <2>3
        <4> QED BY <1>1, <2>5, <3>2, <4>1, <4>2
      <3> QED BY <3>1, <3>2
    <2> QED BY <2>4, <2>5, <2>6
  <1>4. PICK n \in 0..Len(q) :
            /\ Expired(q, now) = SubSeq(q, 1, n)
            /\ \A k \in DOMAIN q : k <= n <=> xItemValue[q[k]] <= now
    BY <1>2, <1>3 DEF Some
  <1> DEFINE w == SubSeq(q, 1, n)
             r == SubSeq(q, n + 1, Len(q))
  <1>5. /\ w \in Seq(Tasks) /\ IsInjective(w) /\ Len(w) = n
        /\ r \in Seq(Tasks) /\ IsInjective(r) /\ Sorted(r)
        /\ Range(w) = {t \in Range(q) : xItemValue[t] <= now}
        /\ Range(r) = {t \in Range(q) : now < xItemValue[t]}
    BY <1>4, SplitFacts
  <1>6. Expired(q, now) = w /\ SubSeq(q, Len(w) + 1, Len(q)) = r
    BY <1>4, <1>5
  <1> HIDE DEF w, r
  <1> QED BY <1>5, <1>6

-----------------------------------------------------------------------------
(* Counting ticks.  After k of them, of the tasks W that waited, those with *)
(* more than k ticks left are still in the lists, their values mean what is *)
(* left, and the others have been woken.                                    *)
Clocks == [tick : Ticks, next : Ticks, delayed : Seq(Tasks), overflow : Seq(Tasks),
           woken : Seq(Tasks)]

ScheduleAt(tick, k) ==
    "delayUntil" \in program.ops =>
        \A t \in Tasks : lag[t] + k < TickMod =>
            pxPreviousWakeTime[t] + lag[t] + k - tick \in {-TickMod, 0, TickMod}

ClockSound(c, W, left, k) ==
    /\ c \in Clocks
    /\ IsInjective(c.delayed) /\ IsInjective(c.overflow) /\ IsInjective(c.woken)
    /\ Sorted(c.delayed) /\ Sorted(c.overflow)
    /\ Range(c.delayed) \cup Range(c.overflow) = {t \in W : left[t] > k}
    /\ Range(c.woken) = {t \in W : left[t] <= k}
    /\ \A t \in Range(c.delayed) :
          xItemValue[t] = c.tick + left[t] - k /\ c.next <= xItemValue[t]
    /\ \A t \in Range(c.overflow) : xItemValue[t] + TickMod = c.tick + left[t] - k
    /\ ScheduleAt(c.tick, k)

Timed ==
    /\ xItemValue \in [Tasks -> Ticks]
    /\ lag \in [Tasks -> -TickMod..TickMod]
    /\ pxPreviousWakeTime \in [Tasks -> Ticks]

LEMMA NextTickFacts ==
    ASSUME NEW tick \in Ticks
    PROVE  /\ (tick + 1) % TickMod \in Ticks
           /\ (tick + 1) % TickMod = IF tick = TickMod - 1 THEN 0 ELSE tick + 1
  <1>1. tick \in Int /\ 0 <= tick /\ tick < TickMod /\ TickMod \in Nat /\ TickMod > 1
    BY TicksFacts
  <1>2. CASE tick = TickMod - 1
    <2>1. tick + 1 = TickMod
      BY <1>1, <1>2
    <2>2. (tick + 1) % TickMod = 0
      BY <1>1, <2>1
    <2> QED BY <1>2, <2>2, TicksFacts
  <1>3. CASE tick # TickMod - 1
    <2>1. (tick + 1) % TickMod = tick + 1
      BY <1>1, <1>3
    <2> QED BY <1>1, <1>3, <2>1, TicksFacts
  <1> QED BY <1>2, <1>3

LEMMA ScheduleTicks ==
    ASSUME Timed, NEW tick \in Ticks, NEW k \in Nat, ScheduleAt(tick, k)
    PROVE  ScheduleAt((tick + 1) % TickMod, k + 1)
  <1> DEFINE now == (tick + 1) % TickMod
  <1>1. /\ now = IF tick = TickMod - 1 THEN 0 ELSE tick + 1
        /\ tick \in Int /\ 0 <= tick /\ tick < TickMod /\ TickMod \in Int /\ TickMod > 1
    BY NextTickFacts, TicksFacts
  <1> HIDE DEF now
  <1>2. ASSUME "delayUntil" \in program.ops, NEW t \in Tasks, lag[t] + (k + 1) < TickMod
        PROVE  pxPreviousWakeTime[t] + lag[t] + (k + 1) - now \in {-TickMod, 0, TickMod}
    <2>1. /\ lag[t] \in Int /\ -TickMod <= lag[t]
          /\ pxPreviousWakeTime[t] \in Int /\ 0 <= pxPreviousWakeTime[t]
          /\ pxPreviousWakeTime[t] < TickMod
      BY TicksFacts DEF Timed
    <2>2. pxPreviousWakeTime[t] + lag[t] + k - tick \in {-TickMod, 0, TickMod}
      <3>1. lag[t] + k < TickMod
        BY <1>1, <1>2, <2>1
      <3> QED BY <1>2, <3>1 DEF ScheduleAt
    <2>3. \/ pxPreviousWakeTime[t] + lag[t] + k - tick = -TickMod
          \/ pxPreviousWakeTime[t] + lag[t] + k - tick = 0
          \/ pxPreviousWakeTime[t] + lag[t] + k - tick = TickMod
      BY <2>2
    <2>4. \/ pxPreviousWakeTime[t] + lag[t] + (k + 1) - now = -TickMod
          \/ pxPreviousWakeTime[t] + lag[t] + (k + 1) - now = 0
          \/ pxPreviousWakeTime[t] + lag[t] + (k + 1) - now = TickMod
      BY <1>1, <1>2, <2>1, <2>3
    <2> QED BY <2>4
  <1> QED BY <1>2 DEF ScheduleAt, now

(* One tick: the lists change places when the counter wraps, the first of   *)
(* them being empty then, and exactly those with one tick left are woken.   *)
LEMMA OneTickFacts ==
    ASSUME Timed, NEW W \in SUBSET Tasks, NEW left \in [Tasks -> Ticks], NEW k \in Nat,
           NEW c, ClockSound(c, W, left, k)
    PROVE  ClockSound(OneTick(c), W, left, k + 1)
  <1> DEFINE now == (c.tick + 1) % TickMod
             wrap == now = 0
             delayed == IF wrap THEN c.overflow ELSE c.delayed
             overflow == IF wrap THEN c.delayed ELSE c.overflow
             next == IF wrap THEN HeadTime(delayed) ELSE c.next
             woken == IF now >= next THEN Expired(delayed, now) ELSE <<>>
             rest == SubSeq(delayed, Len(woken) + 1, Len(delayed))
             d == [tick |-> now,
                   next |-> IF now >= next THEN HeadTime(rest) ELSE next,
                   delayed |-> rest, overflow |-> overflow, woken |-> c.woken \o woken]
  <1>1. OneTick(c) = d
    BY DEF OneTick
  <1>2. /\ c.tick \in Ticks /\ c.next \in Ticks
        /\ c.delayed \in Seq(Tasks) /\ c.overflow \in Seq(Tasks) /\ c.woken \in Seq(Tasks)
        /\ IsInjective(c.delayed) /\ IsInjective(c.overflow) /\ IsInjective(c.woken)
        /\ Sorted(c.delayed) /\ Sorted(c.overflow)
    BY DEF ClockSound, Clocks
  <1>3. /\ Range(c.delayed) \cup Range(c.overflow) = {t \in W : left[t] > k}
        /\ Range(c.woken) = {t \in W : left[t] <= k}
        /\ \A t \in Range(c.delayed) :
              xItemValue[t] = c.tick + left[t] - k /\ c.next <= xItemValue[t]
        /\ \A t \in Range(c.overflow) : xItemValue[t] + TickMod = c.tick + left[t] - k
        /\ ScheduleAt(c.tick, k)
    BY DEF ClockSound
  <1>4. /\ now = IF c.tick = TickMod - 1 THEN 0 ELSE c.tick + 1
        /\ c.tick \in Int /\ 0 <= c.tick /\ c.tick < TickMod /\ now \in Ticks /\ now \in Int
        /\ TickMod \in Int /\ TickMod > 1 /\ 0 <= now /\ now < TickMod
    <2>1. now \in Ticks /\ now = IF c.tick = TickMod - 1 THEN 0 ELSE c.tick + 1
      BY <1>2, NextTickFacts
    <2> HIDE DEF now
    <2> QED BY <1>2, <2>1, TicksFacts
  <1>5. \A t \in Tasks : /\ left[t] \in Int /\ xItemValue[t] \in Int
                         /\ 0 <= xItemValue[t] /\ xItemValue[t] < TickMod
                         /\ 0 <= left[t] /\ left[t] < TickMod
    BY TicksFacts DEF Timed
  <1> HIDE DEF now
  <1>6. /\ delayed \in Seq(Tasks) /\ overflow \in Seq(Tasks)
        /\ IsInjective(delayed) /\ IsInjective(overflow)
        /\ Sorted(delayed) /\ Sorted(overflow)
        /\ Range(delayed) \cup Range(overflow) = {t \in W : left[t] > k}
    BY <1>2, <1>3
  <1>7. \A t \in Range(delayed) \cup Range(overflow) : t \in W /\ t \in Tasks /\ left[t] > k
    BY <1>6
  <1>8. /\ \A t \in Range(delayed) : xItemValue[t] = now + left[t] - (k + 1)
        /\ \A t \in Range(overflow) : xItemValue[t] + TickMod = now + left[t] - (k + 1)
    <2>1. CASE now = 0
      <3>1. c.tick = TickMod - 1 /\ delayed = c.overflow /\ overflow = c.delayed
        BY <1>4, <2>1
      <3>2. ASSUME NEW t \in Range(overflow) PROVE FALSE
        <4>1. xItemValue[t] = c.tick + left[t] - k /\ t \in Tasks /\ left[t] > k
          BY <1>3, <1>7, <3>1, <3>2
        <4> QED BY <1>4, <1>5, <3>1, <4>1
      <3>3. ASSUME NEW t \in Range(delayed)
            PROVE  xItemValue[t] = now + left[t] - (k + 1)
        <4>1. xItemValue[t] + TickMod = c.tick + left[t] - k /\ t \in Tasks
          BY <1>3, <1>7, <3>1, <3>3
        <4> QED BY <1>4, <1>5, <2>1, <3>1, <4>1
      <3> QED BY <3>2, <3>3
    <2>2. CASE now # 0
      <3>1. now = c.tick + 1 /\ delayed = c.delayed /\ overflow = c.overflow
        BY <1>4, <2>2
      <3>2. ASSUME NEW t \in Range(delayed)
            PROVE  xItemValue[t] = now + left[t] - (k + 1)
        <4>1. xItemValue[t] = c.tick + left[t] - k /\ t \in Tasks
          BY <1>3, <1>7, <3>1, <3>2
        <4> QED BY <1>4, <1>5, <3>1, <4>1
      <3>3. ASSUME NEW t \in Range(overflow)
            PROVE  xItemValue[t] + TickMod = now + left[t] - (k + 1)
        <4>1. xItemValue[t] + TickMod = c.tick + left[t] - k /\ t \in Tasks
          BY <1>3, <1>7, <3>1, <3>3
        <4> QED BY <1>4, <1>5, <3>1, <4>1
      <3> QED BY <3>2, <3>3
    <2> QED BY <2>1, <2>2
  <1>9. next \in Ticks /\ \A t \in Range(delayed) : next <= xItemValue[t]
    <2>1. CASE now = 0
      <3> HIDE DEF delayed
      <3>1. next = HeadTime(delayed)
        BY <2>1
      <3> QED BY <1>6, <3>1, HeadTimeFacts DEF Timed
    <2>2. CASE now # 0
      BY <1>2, <1>3, <2>2
    <2> QED BY <2>1, <2>2
  <1> HIDE DEF delayed, overflow, next
  <1>10. /\ woken \in Seq(Tasks) /\ IsInjective(woken)
         /\ rest \in Seq(Tasks) /\ IsInjective(rest) /\ Sorted(rest)
         /\ Range(woken) = {t \in Range(delayed) : xItemValue[t] <= now}
         /\ Range(rest) = {t \in Range(delayed) : now < xItemValue[t]}
    <2>1. CASE now >= next
      <3>1. woken = Expired(delayed, now)
        BY <2>1
      <3> HIDE DEF woken
      <3> QED BY <1>4, <1>6, <3>1, ExpiredFacts DEF Timed
    <2>2. CASE ~ (now >= next)
      <3>1. woken = <<>> /\ Len(woken) = 0 /\ woken \in Seq(Tasks) /\ Range(woken) = {}
        BY <2>2 DEF Range
      <3>2. IsInjective(woken)
        BY <3>1 DEF IsInjective
      <3>3. SubSeq(delayed, 0 + 1, Len(delayed)) = delayed
        BY <1>6
      <3>4. rest = delayed
        BY <3>1, <3>3
      <3>5. \A t \in Range(delayed) : now < xItemValue[t]
        BY <1>4, <1>5, <1>7, <1>9, <2>2, TicksFacts
      <3> HIDE DEF woken, rest
      <3> QED BY <1>4, <1>5, <1>6, <1>7, <3>1, <3>2, <3>4, <3>5
    <2> QED BY <2>1, <2>2
  <1> HIDE DEF woken, rest
  <1>11. /\ Range(woken) = {t \in Range(delayed) : left[t] <= k + 1}
         /\ Range(rest) = {t \in Range(delayed) : left[t] > k + 1}
    <2>1. \A t \in Range(delayed) : /\ xItemValue[t] <= now <=> left[t] <= k + 1
                                    /\ now < xItemValue[t] <=> left[t] > k + 1
      BY <1>4, <1>5, <1>7, <1>8
    <2> QED BY <1>10, <2>1
  <1>12. \A t \in Range(overflow) : left[t] > k + 1
    BY <1>4, <1>5, <1>7, <1>8
  <1>13. Range(rest) \cup Range(overflow) = {t \in W : left[t] > k + 1}
    <2>1. \A t \in W : left[t] > k + 1 => left[t] > k
      BY <1>5
    <2> QED BY <1>6, <1>11, <1>12, <2>1
  <1>14. /\ c.woken \o woken \in Seq(Tasks) /\ IsInjective(c.woken \o woken)
         /\ Range(c.woken \o woken) = Range(c.woken) \cup Range(woken)
    <2> DEFINE v == c.woken
    <2>1. Range(v) \cap Range(woken) = {}
      BY <1>3, <1>5, <1>7, <1>10
    <2>2. v \in Seq(Tasks) /\ IsInjective(v)
      BY <1>2
    <2> HIDE DEF v
    <2>3. /\ v \o woken \in Seq(Tasks) /\ IsInjective(v \o woken)
          /\ Range(v \o woken) = Range(v) \cup Range(woken)
      BY <1>10, <2>1, <2>2, ConcatFacts
    <2> QED BY <2>3 DEF v
  <1>15. Range(c.woken) \cup Range(woken) = {t \in W : left[t] <= k + 1}
    <2>1. \A t \in W : left[t] <= k + 1 <=> left[t] <= k \/ (left[t] > k /\ left[t] <= k + 1)
      BY <1>5
    <2> QED BY <1>3, <1>6, <1>11, <1>12, <2>1, <1>5
  <1>16. /\ d.next \in Ticks
         /\ \A t \in Range(rest) : d.next <= xItemValue[t]
    <2>1. /\ HeadTime(rest) \in Ticks
          /\ \A t \in Range(rest) : HeadTime(rest) <= xItemValue[t]
      BY <1>10, HeadTimeFacts DEF Timed
    <2> QED BY <1>9, <1>10, <2>1
  <1>17. ScheduleAt(now, k + 1)
    BY <1>2, <1>3, ScheduleTicks DEF now
  <1>18. \A t \in Range(rest) : xItemValue[t] = now + left[t] - (k + 1)
    BY <1>8, <1>10
  <1>19. /\ d.tick = now /\ d.delayed = rest /\ d.overflow = overflow
         /\ d.woken = c.woken \o woken
    OBVIOUS
  <1>20. d \in Clocks
    BY <1>4, <1>6, <1>10, <1>14, <1>16 DEF Clocks
  <1> HIDE DEF d
  <1>21. ClockSound(d, W, left, k + 1)
    BY <1>6, <1>8, <1>10, <1>13, <1>14, <1>15, <1>16, <1>17, <1>18, <1>19, <1>20
       DEF ClockSound
  <1> QED BY <1>1, <1>21

(* Ticked is what its recursive definition says, for any number of ticks:   *)
(* such functions exist, each agrees with the next, as a least              *)
(* counterexample would have one before it.                                 *)
Counts(c, n, f) == f = [k \in 0..n |-> IF k = 0 THEN c ELSE OneTick(f[k - 1])]

LEMMA CountsFacts ==
    ASSUME NEW c, NEW n \in Nat, NEW f, Counts(c, n, f)
    PROVE  /\ f[0] = c
           /\ \A k \in 0..n : k # 0 => f[k] = OneTick(f[k - 1])
  <1> DEFINE e(k) == IF k = 0 THEN c ELSE OneTick(f[k - 1])
  <1>1. f = [k \in 0..n |-> e(k)]
    BY DEF Counts
  <1> HIDE DEF e
  <1>2. \A k \in 0..n : f[k] = e(k)
    BY <1>1
  <1>3. 0 \in 0..n
    OBVIOUS
  <1> QED BY <1>2, <1>3 DEF e

LEMMA CountsExist ==
    ASSUME NEW c, NEW n \in Nat
    PROVE  \E f : Counts(c, n, f)
  <1> DEFINE T == {m \in Nat : ~ \E f : Counts(c, m, f)}
  <1>1. SUFFICES ASSUME T # {} PROVE FALSE
    BY <1>1
  <1>2. PICK m \in T : \A j \in T : m <= j
    <2>1. T \in SUBSET Nat
      OBVIOUS
    <2> HIDE DEF T
    <2> QED BY <1>1, <2>1, LeastNatural
  <1>3. m \in Nat /\ ~ \E f : Counts(c, m, f)
    BY <1>2
  <1>4. CASE m = 0
    <2> DEFINE g == [k \in 0..0 |-> c]
    <2>1. g = [k \in 0..0 |-> IF k = 0 THEN c ELSE OneTick(g[k - 1])]
      <3> DEFINE e(k) == IF k = 0 THEN c ELSE OneTick(g[k - 1])
      <3>1. \A k \in 0..0 : e(k) = c
        OBVIOUS
      <3> HIDE DEF e
      <3>2. g = [k \in 0..0 |-> e(k)]
        BY <3>1
      <3> QED BY <3>2 DEF e
    <2> HIDE DEF g
    <2>2. Counts(c, 0, g)
      BY <2>1 DEF Counts
    <2> QED BY <1>3, <1>4, <2>2
  <1>5. CASE m # 0
    <2>1. m - 1 \in Nat /\ ~ (m <= m - 1)
      BY <1>3, <1>5
    <2>2. m - 1 \notin T
      BY <1>2, <2>1
    <2>3. PICK f : Counts(c, m - 1, f)
      BY <2>1, <2>2
    <2> DEFINE g == [k \in 0..m |-> IF k = m THEN OneTick(f[m - 1]) ELSE f[k]]
               e(k) == IF k = 0 THEN c ELSE OneTick(g[k - 1])
    <2>4. f[0] = c /\ \A k \in 0..m - 1 : k # 0 => f[k] = OneTick(f[k - 1])
      BY <2>1, <2>3, CountsFacts
    <2>5. /\ \A k \in 0..m - 1 : k # m /\ k \in 0..m
          /\ \A k \in 0..m : k # 0 => k - 1 \in 0..m - 1
          /\ \A k \in 0..m : k # m => k \in 0..m - 1
          /\ 0 \in 0..m
      BY <1>3, <1>5
    <2>6. /\ \A k \in 0..m - 1 : g[k] = f[k]
          /\ g[m] = OneTick(f[m - 1])
      BY <1>3, <2>5
    <2>7. ASSUME NEW k \in 0..m PROVE g[k] = e(k)
      <3> HIDE DEF g
      <3>1. CASE k = 0
        BY <1>5, <2>4, <2>5, <2>6, <3>1
      <3>2. CASE k # 0
        <4>1. g[k - 1] = f[k - 1]
          BY <2>5, <2>6, <3>2
        <4>2. g[k] = OneTick(f[k - 1])
          BY <2>4, <2>5, <2>6, <3>2
        <4> QED BY <3>2, <4>1, <4>2
      <3> QED BY <3>1, <3>2
    <2>8. g = [k \in 0..m |-> g[k]]
      OBVIOUS
    <2> HIDE DEF g, e
    <2>9. g = [k \in 0..m |-> e(k)]
      BY <2>7, <2>8
    <2>10. Counts(c, m, g)
      BY <2>9 DEF Counts, e
    <2> QED BY <1>3, <2>10
  <1> QED BY <1>4, <1>5

LEMMA CountsAgree ==
    ASSUME NEW c, NEW n \in Nat, NEW f, Counts(c, n, f), NEW g, Counts(c, n + 1, g),
           NEW k \in 0..n
    PROVE  f[k] = g[k]
  <1> DEFINE T == {m \in 0..n : f[m] # g[m]}
  <1>1. /\ f[0] = c /\ \A m \in 0..n : m # 0 => f[m] = OneTick(f[m - 1])
    BY CountsFacts
  <1>2. /\ g[0] = c /\ \A m \in 0..n + 1 : m # 0 => g[m] = OneTick(g[m - 1])
    <2>1. n + 1 \in Nat
      OBVIOUS
    <2> QED BY <2>1, CountsFacts
  <1>3. SUFFICES ASSUME T # {} PROVE FALSE
    BY <1>3
  <1>4. PICK m \in T : \A j \in T : m <= j
    <2>1. T \in SUBSET Nat
      OBVIOUS
    <2> HIDE DEF T
    <2> QED BY <1>3, <2>1, LeastNatural
  <1>5. m \in 0..n /\ f[m] # g[m] /\ m # 0
    BY <1>1, <1>2, <1>4
  <1>6. m - 1 \in 0..n /\ ~ (m <= m - 1) /\ m \in 0..n + 1
    BY <1>5
  <1>7. f[m - 1] = g[m - 1]
    BY <1>4, <1>6
  <1> QED BY <1>1, <1>2, <1>5, <1>6, <1>7

LEMMA TickedFacts ==
    ASSUME NEW c, NEW n \in Nat
    PROVE  Ticked(c, 0) = c /\ Ticked(c, n + 1) = OneTick(Ticked(c, n))
  <1> DEFINE F(m) == CHOOSE f : Counts(c, m, f)
  <1>1. \A m \in Nat : Ticked(c, m) = F(m)[m]
    BY DEF Ticked, Counts
  <1>2. \A m \in Nat : Counts(c, m, F(m))
    BY CountsExist
  <1> HIDE DEF F
  <1>3. /\ 0 \in Nat /\ n + 1 \in Nat /\ n \in 0..n /\ n + 1 \in 0..n + 1
        /\ n + 1 # 0 /\ n + 1 - 1 = n
    OBVIOUS
  <1>4. F(0)[0] = c
    BY <1>2, <1>3, CountsFacts
  <1>5. F(n + 1)[n + 1] = OneTick(F(n + 1)[n])
    <2> DEFINE g == F(n + 1)
               N == n + 1
    <2>1. N \in Nat /\ Counts(c, N, g)
      BY <1>2, <1>3
    <2> HIDE DEF g, N
    <2>2. \A k \in 0..N : k # 0 => g[k] = OneTick(g[k - 1])
      BY <2>1, CountsFacts
    <2>3. N \in 0..N /\ N # 0 /\ N - 1 = n
      BY <1>3 DEF N
    <2>4. g[N] = OneTick(g[n])
      BY <2>2, <2>3
    <2> QED BY <2>4 DEF g, N
  <1>6. F(n)[n] = F(n + 1)[n]
    BY <1>2, <1>3, CountsAgree
  <1> QED BY <1>1, <1>3, <1>4, <1>5, <1>6

LEMMA TicksSound ==
    ASSUME Timed, NEW W \in SUBSET Tasks, NEW left \in [Tasks -> Ticks],
           NEW c, ClockSound(c, W, left, 0), NEW n \in Nat
    PROVE  ClockSound(Ticked(c, n), W, left, n)
  <1> DEFINE T == {m \in Nat : ~ ClockSound(Ticked(c, m), W, left, m)}
  <1>1. SUFFICES ASSUME T # {} PROVE FALSE
    BY <1>1
  <1>2. PICK m \in T : \A j \in T : m <= j
    <2>1. T \in SUBSET Nat
      OBVIOUS
    <2> HIDE DEF T
    <2> QED BY <1>1, <2>1, LeastNatural
  <1>3. m \in Nat /\ ~ ClockSound(Ticked(c, m), W, left, m)
    BY <1>2
  <1>4. m # 0
    <2>1. Ticked(c, 0) = c
      BY <1>3, TickedFacts
    <2> QED BY <1>3, <2>1
  <1>5. m - 1 \in Nat /\ ~ (m <= m - 1) /\ m - 1 + 1 = m
    BY <1>3, <1>4
  <1>6. ClockSound(Ticked(c, m - 1), W, left, m - 1)
    BY <1>2, <1>5
  <1>7. Ticked(c, m) = OneTick(Ticked(c, m - 1))
    <2>1. Ticked(c, m - 1 + 1) = OneTick(Ticked(c, m - 1))
      BY <1>5, TickedFacts
    <2> QED BY <1>5, <2>1
  <1>8. ClockSound(OneTick(Ticked(c, m - 1)), W, left, m - 1 + 1)
    BY <1>5, <1>6, OneTickFacts
  <1> QED BY <1>3, <1>5, <1>7, <1>8

-----------------------------------------------------------------------------
(* The inductive invariant.  A task that xTaskAbortDelay has taken off its  *)
(* state list is not on another one yet.                                    *)
Moving == {t \in Tasks : t = target /\ \E u \in Tasks : pc[u] = "abortEvent"}
Away == Delayed \cup xSuspendedTaskList \cup Moving

(* The calls that keep the scheduler suspended, and the points of a call    *)
(* where the running task has not given up the processor.                   *)
SuspendedCalls == {"delay", "delayUntil", "wait", "resumeAll", "abort", "abortEvent",
                   "abortDone"}
Steady == {"run", "suspendOther", "delay", "delayUntil", "wait", "abort",
           "abortEvent", "abortDone"}

(* Where a task is in a call: only the running one has the scheduler        *)
(* suspended, and what it was called with is still valid.                   *)
CallsSound ==
    /\ \A t \in Tasks : pc[t] \in SuspendedCalls => t = Self /\ uxSchedulerSuspended > 0
    /\ pc[Self] \in {"yield", "suspendSelf"} => uxSchedulerSuspended = 0
    /\ pc[Self] \in {"delay", "delayUntil", "wait", "resumeAll"} =>
          uxSchedulerSuspended = 1
    /\ pc[Self] \in {"delay", "wait"} => arg \in Delays
    /\ pc[Self] \in {"abort", "abortEvent"} => target # Self
    /\ pc[Idle] = "run"

(* Every task that is not away is in the ready list of its priority.  A     *)
(* task waits in one way only; one that waits for an event, or was readied  *)
(* while the scheduler was suspended, is still away.                        *)
Where == Placed(pxReadyTasksLists, uxPriority, Away)

Apart ==
    /\ IsInjective(pxDelayedTaskList) /\ IsInjective(pxOverflowDelayedTaskList)
    /\ IsInjective(xEventList) /\ IsInjective(xPendingReadyList)
    /\ Delayed \cap xSuspendedTaskList = {}
    /\ Moving \cap (Delayed \cup xSuspendedTaskList) = {}
    /\ Range(xEventList) \cap Range(xPendingReadyList) = {}
    /\ Range(xEventList) \cup Range(xPendingReadyList) \subseteq Away

(* The idle task can always run, and no ready task is above the bound that  *)
(* the search for the next task starts from.                                *)
IdleIsReady ==
    /\ Idle \notin Away /\ uxPriority[Idle] = 0
    /\ \A t \in Tasks : t \notin Away => uxPriority[t] <= uxTopReadyPriority

(* With the scheduler running nothing is pending. *)
NothingPends ==
    uxSchedulerSuspended = 0 => xPendingReadyList = <<>> /\ ~ xYieldPending

(* The running task is ready and no ready task is above it, unless a yield  *)
(* is pending.                                                              *)
Highest ==
    pc[Self] \in Steady =>
        /\ Self \notin Away
        /\ \/ xYieldPending
           \/ \A t \in Tasks : t \notin Away => uxPriority[t] <= uxPriority[Self]

(* What the values of the delayed tasks mean: the tick of this round, or of *)
(* the next one, at which their delay is over.                              *)
OnTime ==
    /\ Sorted(pxDelayedTaskList) /\ Sorted(pxOverflowDelayedTaskList)
    /\ \A t \in Range(pxDelayedTaskList) :
          /\ xItemValue[t] = xTickCount + due[t]
          /\ xNextTaskUnblockTime <= xItemValue[t]
    /\ \A t \in Range(pxOverflowDelayedTaskList) :
          xItemValue[t] + TickMod = xTickCount + due[t]

(* A task is never further ahead of its schedule than the rest of its       *)
(* delay, unless a delay was cut short; and pxPreviousWakeTime is lag ticks *)
(* ago, or as far ahead.                                                    *)
OnSchedule ==
    /\ \A t \in Tasks : t \notin excused => lag[t] + due[t] >= 0
    /\ \A t \in Range(xEventList) \cup Range(xPendingReadyList) :
          t \notin excused => lag[t] >= 0
    /\ ScheduleAt(xTickCount, 0)
    /\ pc[Self] = "delayUntil" =>
          /\ "delayUntil" \in program.ops
          /\ lag[Self] \in Increment - TickMod..TickMod - 1

IInv ==
    /\ program \in Programs /\ TypeOK /\ Where /\ Apart /\ CallsSound
    /\ IdleIsReady /\ NothingPends /\ Highest
    /\ DelaysAreExact /\ OnTime /\ OnSchedule

Pcs == {"run", "delay", "delayUntil", "wait", "resumeAll", "yield", "suspendSelf",
        "suspendOther", "abort", "abortEvent", "abortDone"}

(* The types, in the words of the proofs. *)
LEMMA Types ==
    TypeOK <=>
        /\ xTickCount \in Ticks /\ xNextTaskUnblockTime \in Ticks
        /\ uxPendedTicks \in 0..MaxPended
        /\ uxSchedulerSuspended \in 0..MaxNesting
        /\ xYieldPending \in BOOLEAN
        /\ pxCurrentTCB \in Tasks
        /\ uxPriority \in [Tasks -> Prios]
        /\ uxTopReadyPriority \in Prios
        /\ pxReadyTasksLists \in [Prios -> Seq(Nodes)]
        /\ pxDelayedTaskList \in Seq(Tasks)
        /\ pxOverflowDelayedTaskList \in Seq(Tasks)
        /\ xItemValue \in [Tasks -> Ticks]
        /\ xSuspendedTaskList \subseteq Tasks
        /\ xPendingReadyList \in Seq(Tasks)
        /\ xEventList \in Seq(Tasks)
        /\ pc \in [Tasks -> Pcs]
        /\ arg \in Ticks
        /\ target \in Tasks
        /\ pxPreviousWakeTime \in [Tasks -> Ticks]
        /\ due \in [Tasks -> Ticks]
        /\ lag \in [Tasks -> -TickMod..TickMod]
        /\ excused \subseteq Tasks
  BY DEF TypeOK, Ticks, Prios, Nodes, Pcs

LEMMA RangeType ==
    ASSUME NEW S, NEW q \in Seq(S)
    PROVE  Range(q) \subseteq S
  BY DEF Range

(* What the invariant says at once. *)
LEMMA IInvFacts ==
    ASSUME IInv
    PROVE  /\ Delayed \subseteq Tasks /\ Away \subseteq Tasks
           /\ Range(xEventList) \subseteq Tasks /\ Range(xPendingReadyList) \subseteq Tasks
           /\ Timed
           /\ \A t \in Tasks : t \notin Delayed => due[t] = 0
           /\ uxSchedulerSuspended = 0 =>
                 /\ Moving = {} /\ \A t \in Tasks : pc[t] \notin SuspendedCalls
           /\ pc[Self] # "abortEvent" => Moving = {}
           /\ pc[Self] = "abortEvent" => Moving = {target}
           /\ uxSchedulerSuspended \in Nat
  <1>1. TypeOK
    BY DEF IInv
  <1>2. /\ Delayed \subseteq Tasks
        /\ Range(xEventList) \subseteq Tasks /\ Range(xPendingReadyList) \subseteq Tasks
    BY <1>1, Types, RangeType DEF Delayed
  <1>3. Away \subseteq Tasks
    BY <1>1, <1>2, Types DEF Away, Moving
  <1>4. Timed
    BY <1>1, Types DEF Timed
  <1>5. \A t \in Tasks : t \notin Delayed => due[t] = 0
    <2>1. \A t \in Tasks : due[t] \in Int /\ 0 <= due[t]
      BY <1>1, Types, TicksFacts
    <2> QED BY <2>1 DEF IInv, DelaysAreExact
  <1>6. uxSchedulerSuspended = 0 =>
            /\ Moving = {} /\ \A t \in Tasks : pc[t] \notin SuspendedCalls
    BY DEF IInv, CallsSound, Moving, SuspendedCalls
  <1>7. \A t \in Tasks : pc[t] = "abortEvent" => t = Self
    BY DEF IInv, CallsSound, SuspendedCalls
  <1>8. pxCurrentTCB \in Tasks /\ target \in Tasks
    BY <1>1, Types
  <1>9. /\ pc[Self] # "abortEvent" => Moving = {}
        /\ pc[Self] = "abortEvent" => Moving = {target}
    BY <1>7, <1>8 DEF Moving, Self
  <1>10. uxSchedulerSuspended \in Nat
    BY <1>1, Types, BoundsAssumption
  <1> QED BY <1>2, <1>3, <1>4, <1>5, <1>6, <1>9, <1>10

LEMMA PriorityFacts ==
    ASSUME IInv
    PROVE  \A t \in Tasks : uxPriority[t] \in Prios /\ uxPriority[t] \in Int
  <1>1. uxPriority \in [Tasks -> Prios]
    BY Types DEF IInv
  <1>2. \A t \in Tasks : uxPriority[t] \in Prios
    BY <1>1
  <1>3. \A p \in Prios : p \in Int
    BY DEF Prios
  <1> QED BY <1>2, <1>3

(* A step that only takes the running task further in its call. *)
LEMMA OnlyTheCall ==
    ASSUME IInv, NEW l \in Pcs, l # "abortEvent", pc[Self] # "abortEvent",
           pc' = [pc EXCEPT ![Self] = l],
           UNCHANGED <<program, xTickCount, uxPendedTicks, switchVars, uxPriority,
                       waitVars, eventVars>>,
           \/ UNCHANGED periodVars
           \/ /\ pxPreviousWakeTime' \in [Tasks -> Ticks] /\ excused' \subseteq Tasks
              /\ lag' \in [Tasks -> -TickMod..TickMod] /\ OnSchedule',
           xNextTaskUnblockTime' \in Ticks,
           \A t \in Range(pxDelayedTaskList) : xNextTaskUnblockTime' <= xItemValue[t],
           uxSchedulerSuspended' \in 0..MaxNesting, arg' \in Ticks, target' \in Tasks,
           l \in SuspendedCalls => uxSchedulerSuspended' > 0,
           l \in {"yield", "suspendSelf"} => uxSchedulerSuspended' = 0,
           l \in {"delay", "delayUntil", "wait", "resumeAll"} => uxSchedulerSuspended' = 1,
           l \in {"delay", "wait"} => arg' \in Delays,
           l = "abort" => target' # Self,
           l # "run" => Self # Idle,
           l = "delayUntil" => /\ "delayUntil" \in program.ops
                               /\ lag[Self] \in Increment - TickMod..TickMod - 1,
           l \in Steady => pc[Self] \in Steady,
           uxSchedulerSuspended' = 0 => uxSchedulerSuspended = 0
    PROVE  IInv'
  <1>1. /\ UNCHANGED <<program, xTickCount, uxPendedTicks, pxCurrentTCB, uxTopReadyPriority,
                       pxReadyTasksLists, xYieldPending, uxPriority, pxDelayedTaskList,
                       pxOverflowDelayedTaskList, xSuspendedTaskList, xItemValue, due,
                       xPendingReadyList, xEventList>>
        /\ Self' = Self
    BY DEF switchVars, waitVars, eventVars, Self
  <1>2. TypeOK /\ pxCurrentTCB \in Tasks /\ pc \in [Tasks -> Pcs] /\ Self \in Tasks
    BY Types DEF IInv, Self
  <1>3. /\ pc'[Self] = l
        /\ \A t \in Tasks : t # Self => pc'[t] = pc[t]
        /\ pc' \in [Tasks -> Pcs]
    BY <1>2
  <1>4. \A t \in Tasks : pc[t] \in SuspendedCalls => t = Self
    BY DEF IInv, CallsSound
  <1>5. Moving' = {} /\ Moving = {}
    <2>1. \A t \in Tasks : pc'[t] # "abortEvent"
      BY <1>3, <1>4 DEF SuspendedCalls
    <2>2. Moving' = {}
      BY <2>1 DEF Moving
    <2> QED BY <2>2, IInvFacts
  <1>6. Delayed' = Delayed /\ Away' = Away
    BY <1>1, <1>5 DEF Delayed, Away
  <1>7. program' \in Programs
    BY <1>1 DEF IInv
  <1>8. TypeOK'
    <2>1. /\ pxPreviousWakeTime' \in [Tasks -> Ticks] /\ excused' \subseteq Tasks
          /\ lag' \in [Tasks -> -TickMod..TickMod]
      BY <1>2, Types DEF periodVars
    <2> QED BY <1>1, <1>2, <1>3, <2>1, Types DEF TypeOK, Ticks, Pcs
  <1>9. Where'
    BY <1>1, <1>6 DEF IInv, Where
  <1>10. Apart'
    BY <1>1, <1>5, <1>6 DEF IInv, Apart
  <1>11. CallsSound'
    <2>1. \A t \in Tasks : pc'[t] \in SuspendedCalls => t = Self' /\ uxSchedulerSuspended' > 0
      BY <1>1, <1>3, <1>4
    <2>2. pc'[Idle] = "run"
      BY <1>3, TasksAssumption DEF IInv, CallsSound
    <2> QED BY <1>1, <1>3, <2>1, <2>2 DEF CallsSound
  <1>12. IdleIsReady'
    BY <1>1, <1>6 DEF IInv, IdleIsReady
  <1>13. NothingPends'
    BY <1>1 DEF IInv, NothingPends
  <1>14. Highest'
    BY <1>1, <1>3, <1>6 DEF IInv, Highest
  <1>15. DelaysAreExact'
    BY <1>1, <1>6 DEF IInv, DelaysAreExact
  <1>16. OnTime'
    BY <1>1 DEF IInv, OnTime, Sorted
  <1>17. OnSchedule'
    BY <1>1, <1>3 DEF IInv, OnSchedule, ScheduleAt, periodVars
  <1> QED BY <1>7, <1>8, <1>9, <1>10, <1>11, <1>12, <1>13, <1>14, <1>15, <1>16, <1>17 DEF IInv

LEMMA SamePc ==
    ASSUME IInv, pc' = pc
    PROVE  pc' = [pc EXCEPT ![Self] = pc[Self]]
  <1>1. pc \in [Tasks -> Pcs] /\ Self \in Tasks
    BY Types DEF IInv, Self
  <1> QED BY <1>1

LEMMA SuspendFacts ==
    ASSUME IInv, Suspending, uxSchedulerSuspended < MaxNesting
    PROVE  /\ UNCHANGED <<timeVars, switchVars, uxPriority, waitVars, eventVars>>
           /\ uxSchedulerSuspended' = uxSchedulerSuspended + 1
           /\ uxSchedulerSuspended' \in 0..MaxNesting /\ uxSchedulerSuspended' > 0
           /\ uxSchedulerSuspended = 0 => uxSchedulerSuspended' = 1
           /\ UNCHANGED <<xTickCount, uxPendedTicks, xNextTaskUnblockTime>>
           /\ xNextTaskUnblockTime' \in Ticks
           /\ \A t \in Range(pxDelayedTaskList) : xNextTaskUnblockTime' <= xItemValue[t]
  <1>1. uxSchedulerSuspended \in 0..MaxNesting /\ xNextTaskUnblockTime \in Ticks
    BY Types DEF IInv
  <1>2. /\ UNCHANGED <<timeVars, switchVars, uxPriority, waitVars, eventVars>>
        /\ uxSchedulerSuspended' = uxSchedulerSuspended + 1
    BY DEF Suspending
  <1>3. UNCHANGED <<xTickCount, uxPendedTicks, xNextTaskUnblockTime>>
    BY <1>2 DEF timeVars
  <1>4. \A t \in Range(pxDelayedTaskList) : xNextTaskUnblockTime <= xItemValue[t]
    BY DEF IInv, OnTime
  <1> QED BY <1>1, <1>2, <1>3, <1>4, BoundsAssumption

LEMMA vTaskSuspendAllKeeps ==
    IInv /\ UNCHANGED program /\ vTaskSuspendAll => IInv'
  <1> SUFFICES ASSUME IInv, UNCHANGED program, vTaskSuspendAll PROVE IInv'
    OBVIOUS
  <1>1. /\ pc[Self] = "run" /\ uxSchedulerSuspended < MaxNesting /\ Suspending
        /\ pc' = pc /\ arg' = arg /\ target' = target /\ UNCHANGED periodVars
    BY DEF vTaskSuspendAll, MayCall, callVars
  <1>2. pc' = [pc EXCEPT ![Self] = "run"]
    BY <1>1, SamePc
  <1>3. arg' \in Ticks /\ target' \in Tasks /\ "run" \in Pcs
    BY <1>1, Types DEF IInv, Pcs
  <1>4. /\ UNCHANGED <<program, xTickCount, uxPendedTicks, switchVars, uxPriority,
                       waitVars, eventVars, periodVars>>
        /\ xNextTaskUnblockTime' \in Ticks
        /\ \A t \in Range(pxDelayedTaskList) : xNextTaskUnblockTime' <= xItemValue[t]
        /\ uxSchedulerSuspended' \in 0..MaxNesting /\ uxSchedulerSuspended' > 0
    BY <1>1, SuspendFacts
  <1>5. /\ uxSchedulerSuspended' # 0
        /\ "run" \notin SuspendedCalls \cup {"yield", "suspendSelf", "abortEvent"}
    BY <1>4, BoundsAssumption DEF SuspendedCalls
  <1> QED BY <1>1, <1>2, <1>3, <1>4, <1>5, OnlyTheCall DEF SuspendedCalls

(* The start of a call that suspends the scheduler. *)
LEMMA BeginKeeps ==
    ASSUME IInv, UNCHANGED program, Suspending, uxSchedulerSuspended < MaxNesting,
           pc[Self] = "run", Self # Idle, UNCHANGED periodVars,
           NEW l \in {"delay", "delayUntil", "wait", "abort"}, Goto(l),
           l # "abort" => uxSchedulerSuspended = 0,
           l \in {"delay", "wait"} => arg' \in Delays,
           l = "abort" => target' # Self,
           l = "delayUntil" => /\ "delayUntil" \in program.ops
                               /\ lag[Self] \in Increment - TickMod..TickMod - 1,
           arg' \in Ticks, target' \in Tasks
    PROVE  IInv'
  <1>1. l \in Pcs /\ l # "abortEvent" /\ pc[Self] # "abortEvent" /\ pc[Self] \in Steady
    BY DEF Pcs, Steady
  <1>2. /\ l \notin {"yield", "suspendSelf"}
        /\ l \in {"delay", "delayUntil", "wait", "resumeAll"} => uxSchedulerSuspended = 0
    OBVIOUS
  <1>3. pc' = [pc EXCEPT ![Self] = l]
    BY DEF Goto
  <1>4. /\ UNCHANGED <<program, xTickCount, uxPendedTicks, switchVars, uxPriority,
                       waitVars, eventVars, periodVars>>
        /\ xNextTaskUnblockTime' \in Ticks
        /\ \A t \in Range(pxDelayedTaskList) : xNextTaskUnblockTime' <= xItemValue[t]
        /\ uxSchedulerSuspended' \in 0..MaxNesting /\ uxSchedulerSuspended' > 0
        /\ uxSchedulerSuspended = 0 => uxSchedulerSuspended' = 1
    BY SuspendFacts
  <1>5. uxSchedulerSuspended' # 0
    BY <1>4, BoundsAssumption
  <1> QED BY <1>1, <1>2, <1>3, <1>4, <1>5, OnlyTheCall

LEMMA DelaysFacts == \A n \in Delays : n \in Ticks /\ n # 0 /\ n \in Int /\ n > 0
  BY DelaysAssumption, TicksFacts DEF Ticks

LEMMA BeginsKeep ==
    ASSUME IInv, UNCHANGED program,
           \/ \E n \in Delays : BeginDelay(n) \/ BeginWait(n)
           \/ BeginDelayUntil
           \/ \E t \in Tasks : BeginAbort(t)
    PROVE  IInv'
  <1>1. arg \in Ticks /\ target \in Tasks /\ uxSchedulerSuspended \in 0..MaxNesting
    BY Types DEF IInv
  <1>2. uxSchedulerSuspended = 0 => uxSchedulerSuspended < MaxNesting
    BY BoundsAssumption
  <1>3. ASSUME NEW n \in Delays, BeginDelay(n) PROVE IInv'
    <2>1. /\ Suspending /\ uxSchedulerSuspended = 0 /\ pc[Self] = "run" /\ Self # Idle
          /\ UNCHANGED periodVars /\ Goto("delay") /\ arg' = n /\ target' = target
      BY <1>3 DEF BeginDelay, MayBlock, MayCall
    <2> QED BY <1>1, <1>2, <2>1, DelaysFacts, BeginKeeps
  <1>4. ASSUME NEW n \in Delays, BeginWait(n) PROVE IInv'
    <2>1. /\ Suspending /\ uxSchedulerSuspended = 0 /\ pc[Self] = "run" /\ Self # Idle
          /\ UNCHANGED periodVars /\ Goto("wait") /\ arg' = n /\ target' = target
      BY <1>4 DEF BeginWait, MayBlock, MayCall
    <2> QED BY <1>1, <1>2, <2>1, DelaysFacts, BeginKeeps
  <1>5. CASE BeginDelayUntil
    <2>1. /\ Suspending /\ uxSchedulerSuspended = 0 /\ pc[Self] = "run" /\ Self # Idle
          /\ UNCHANGED periodVars /\ Goto("delayUntil") /\ arg' = arg /\ target' = target
          /\ "delayUntil" \in program.ops
          /\ lag[Self] \in Increment - TickMod..TickMod - 1
      BY <1>5 DEF BeginDelayUntil, MayBlock, MayCall
    <2> QED BY <1>1, <1>2, <2>1, BeginKeeps
  <1>6. ASSUME NEW t \in Tasks, BeginAbort(t) PROVE IInv'
    <2>1. /\ Suspending /\ uxSchedulerSuspended < MaxNesting /\ pc[Self] = "run" /\ Self # Idle
          /\ UNCHANGED periodVars /\ Goto("abort") /\ arg' = arg /\ target' = t /\ t # Self
      BY <1>6 DEF BeginAbort, MayCall
    <2> QED BY <1>1, <2>1, BeginKeeps
  <1> QED BY <1>3, <1>4, <1>5, <1>6

LEMMA vTaskSuspendEndsKeeps ==
    IInv /\ UNCHANGED program /\ vTaskSuspendEnds => IInv'
  <1> SUFFICES ASSUME IInv, UNCHANGED program, vTaskSuspendEnds PROVE IInv'
    OBVIOUS
  <1>1. PICK from \in {"suspendOther", "suspendSelf"} :
            \E to \in {"run", "yield"} :
                /\ ResetNextTaskUnblockTime(from, to)
                /\ from = "suspendOther" <=> to = "run"
    BY DEF vTaskSuspendEnds
  <1>2. PICK to \in {"run", "yield"} : /\ ResetNextTaskUnblockTime(from, to)
                                       /\ from = "suspendOther" <=> to = "run"
    BY <1>1
  <1>3. /\ pc[Self] = from /\ xNextTaskUnblockTime' = HeadTime(pxDelayedTaskList)
        /\ Goto(to)
        /\ UNCHANGED <<xTickCount, uxPendedTicks, uxSchedulerSuspended, switchVars,
                       uxPriority, waitVars, eventVars, arg, target, periodVars>>
    BY <1>2 DEF ResetNextTaskUnblockTime
  <1>4. TypeOK /\ Sorted(pxDelayedTaskList)
    BY DEF IInv, OnTime
  <1>5. /\ HeadTime(pxDelayedTaskList) \in Ticks
        /\ \A t \in Range(pxDelayedTaskList) : HeadTime(pxDelayedTaskList) <= xItemValue[t]
    BY <1>4, Types, HeadTimeFacts
  <1>6. /\ arg' \in Ticks /\ target' \in Tasks /\ uxSchedulerSuspended' \in 0..MaxNesting
    BY <1>3, <1>4, Types
  <1>7. /\ to \in Pcs /\ to # "abortEvent" /\ pc[Self] # "abortEvent"
        /\ to \notin SuspendedCalls
        /\ to \in Steady => pc[Self] \in Steady
        /\ pc' = [pc EXCEPT ![Self] = to]
    BY <1>2, <1>3 DEF Pcs, SuspendedCalls, Steady, Goto
  <1>8. to # "run" => Self # Idle
    BY <1>1, <1>3 DEF IInv, CallsSound
  <1>9. to = "yield" => uxSchedulerSuspended' = 0
    BY <1>2, <1>3 DEF IInv, CallsSound
  <1>10. to \notin {"delay", "delayUntil", "wait", "resumeAll", "abort", "suspendSelf"}
    OBVIOUS
  <1> QED BY <1>3, <1>5, <1>6, <1>7, <1>8, <1>9, <1>10, OnlyTheCall

-----------------------------------------------------------------------------
(* Steps that end in Dispatch, with what the lists and priorities are then. *)
LEMMA SwitchFacts ==
    ASSUME IInv, uxPriority' \in [Tasks -> Prios],
           NEW l, Placed(l, uxPriority', Away'),
           NEW top \in Prios,
           \A t \in Tasks : t \notin Away' => uxPriority'[t] <= top,
           Idle \notin Away', uxPriority'[Idle] = 0,
           NEW yield \in BOOLEAN, NEW suspended, Dispatch(l, top, yield, suspended),
           ~ (yield /\ suspended = 0) =>
              (pc'[Self] \in Steady =>
                 /\ Self \notin Away'
                 /\ \/ xYieldPending \/ yield
                    \/ \A t \in Tasks : t \notin Away' => uxPriority'[t] <= uxPriority'[Self])
    PROVE  /\ Where' /\ IdleIsReady' /\ Highest'
           /\ pxReadyTasksLists' \in [Prios -> Seq(Nodes)]
           /\ uxTopReadyPriority' \in Prios /\ pxCurrentTCB' \in Tasks
           /\ xYieldPending' \in BOOLEAN
           /\ yield /\ suspended = 0 => ~ xYieldPending'
           /\ ~ (yield /\ suspended = 0) =>
                 (xYieldPending' <=> xYieldPending \/ yield) /\ Self' = Self
  <1>1. xYieldPending \in BOOLEAN /\ pxCurrentTCB \in Tasks
    BY Types DEF IInv
  <1>2. /\ Placed(pxReadyTasksLists', uxPriority', Away')
        /\ uxTopReadyPriority' \in Prios
        /\ \A t \in Tasks : t \notin Away' => uxPriority'[t] <= uxTopReadyPriority'
        /\ pxCurrentTCB' \in Tasks /\ xYieldPending' \in BOOLEAN
        /\ IF yield /\ suspended = 0
           THEN /\ ~ xYieldPending' /\ pxCurrentTCB' \notin Away'
                /\ \A t \in Tasks : t \notin Away' =>
                      uxPriority'[t] <= uxPriority'[pxCurrentTCB']
           ELSE /\ xYieldPending' = (xYieldPending \/ yield)
                /\ pxCurrentTCB' = pxCurrentTCB
    BY <1>1, DispatchFacts
  <1>3. Where'
    BY <1>2 DEF Where
  <1>4. pxReadyTasksLists' \in [Prios -> Seq(Nodes)]
    BY <1>2 DEF Placed, Rings
  <1>5. IdleIsReady'
    BY <1>2 DEF IdleIsReady
  <1>6. Highest'
    BY <1>2 DEF Highest, Self
  <1> QED BY <1>2, <1>3, <1>4, <1>5, <1>6 DEF Self

LEMMA CallsWhenRunning ==
    ASSUME uxSchedulerSuspended' = 0, pxCurrentTCB' \in Tasks,
           \A t \in Tasks : pc'[t] \notin SuspendedCalls,
           pc'[Idle] = "run"
    PROVE  CallsSound'
  BY DEF CallsSound, SuspendedCalls, Self

(* The parts of the invariant that a step leaves alone. *)
LEMMA TimesStay ==
    ASSUME IInv, UNCHANGED <<xTickCount, xNextTaskUnblockTime, pxDelayedTaskList,
                             pxOverflowDelayedTaskList, xItemValue, due>>
    PROVE  DelaysAreExact' /\ OnTime'
  <1>1. DelaysAreExact'
    BY DEF IInv, DelaysAreExact, Delayed
  <1>2. OnTime'
    BY DEF IInv, OnTime, Sorted
  <1> QED BY <1>1, <1>2

(* A delay that ends early does not put a task ahead of its schedule, unless *)
(* the task is excused for it.                                               *)
LEMMA ScheduleShrinks ==
    ASSUME IInv, UNCHANGED <<program, xTickCount, lag, pxPreviousWakeTime>>,
           excused \subseteq excused', due' \in [Tasks -> Ticks],
           \A t \in Tasks : \/ due'[t] = due[t]
                            \/ due'[t] = 0 /\ (t \notin excused' => lag[t] >= 0),
           \A t \in Range(xEventList)' \cup Range(xPendingReadyList)' :
              \/ t \in Range(xEventList) \cup Range(xPendingReadyList)
              \/ t \in Tasks /\ due[t] = 0,
           pc'[Self'] = "delayUntil" => pc[Self] = "delayUntil" /\ Self' = Self
    PROVE  OnSchedule'
  <1>1. \A t \in Tasks : lag[t] \in Int
    BY Types, TicksFacts DEF IInv
  <1>2. \A t \in Tasks : t \notin excused' => lag'[t] + due'[t] >= 0
    BY <1>1 DEF IInv, OnSchedule
  <1>3. \A t \in Range(xEventList)' \cup Range(xPendingReadyList)' :
            t \notin excused' => lag'[t] >= 0
    BY <1>1 DEF IInv, OnSchedule
  <1>4. ScheduleAt(xTickCount, 0)'
    BY DEF IInv, OnSchedule, ScheduleAt
  <1>5. (pc[Self] = "delayUntil")' =>
            ("delayUntil" \in program.ops /\ lag[Self] \in Increment - TickMod..TickMod - 1)'
    BY DEF IInv, OnSchedule
  <1> QED BY <1>2, <1>3, <1>4, <1>5 DEF OnSchedule

LEMMA ScheduleStays ==
    ASSUME IInv, UNCHANGED <<program, xTickCount, due, lag, pxPreviousWakeTime>>,
           excused \subseteq excused',
           \A t \in Range(xEventList)' \cup Range(xPendingReadyList)' :
              \/ t \in Range(xEventList) \cup Range(xPendingReadyList)
              \/ t \in Tasks /\ due[t] = 0,
           pc'[Self'] = "delayUntil" => pc[Self] = "delayUntil" /\ Self' = Self
    PROVE  OnSchedule'
  <1>1. due \in [Tasks -> Ticks]
    BY Types DEF IInv
  <1> QED BY <1>1, ScheduleShrinks

(* taskYIELD, and the yield at the end of a call. *)
LEMMA OnlyTheSwitch ==
    ASSUME IInv, UNCHANGED <<program, timeVars, uxSchedulerSuspended, uxPriority, waitVars,
                             eventVars, arg, target, periodVars>>,
           pc[Self] = "run" \/ pc[Self] = "yield",
           pc' = [pc EXCEPT ![Self] = "run"],
           Dispatch(pxReadyTasksLists, uxTopReadyPriority, TRUE, uxSchedulerSuspended)
    PROVE  IInv'
  <1>1. UNCHANGED <<program, xTickCount, xNextTaskUnblockTime, uxPendedTicks,
                    uxSchedulerSuspended, uxPriority, pxDelayedTaskList,
                    pxOverflowDelayedTaskList, xSuspendedTaskList, xItemValue, due,
                    xPendingReadyList, xEventList, arg, target, pxPreviousWakeTime, lag,
                    excused>>
    BY DEF timeVars, waitVars, eventVars, periodVars
  <1>2. TypeOK /\ pc \in [Tasks -> Pcs] /\ Self \in Tasks
    BY Types DEF IInv, Self
  <1>3. /\ pc'[Self] = "run" /\ pc' \in [Tasks -> Pcs]
        /\ \A t \in Tasks : t # Self => pc'[t] = pc[t]
    BY <1>2 DEF Pcs
  <1>4. \A t \in Tasks : pc[t] \in SuspendedCalls => t = Self
    BY DEF IInv, CallsSound
  <1>5. \A t \in Tasks : pc'[t] \notin SuspendedCalls
    BY <1>3, <1>4 DEF SuspendedCalls
  <1>6. Moving' = {} /\ Moving = {}
    <2>1. Moving' = {}
      BY <1>5 DEF Moving, SuspendedCalls
    <2> QED BY <2>1, IInvFacts
  <1>7. Delayed' = Delayed /\ Away' = Away
    BY <1>1, <1>6 DEF Delayed, Away
  <1>8. /\ Where' /\ IdleIsReady' /\ Highest'
        /\ pxReadyTasksLists' \in [Prios -> Seq(Nodes)]
        /\ uxTopReadyPriority' \in Prios /\ pxCurrentTCB' \in Tasks
        /\ xYieldPending' \in BOOLEAN
        /\ IF uxSchedulerSuspended = 0 THEN ~ xYieldPending'
           ELSE xYieldPending' /\ Self' = Self
    <2>1. /\ uxPriority' \in [Tasks -> Prios] /\ uxTopReadyPriority \in Prios
          /\ uxPriority' = uxPriority
      BY <1>1, <1>2, Types
    <2>2. /\ Placed(pxReadyTasksLists, uxPriority', Away')
          /\ \A t \in Tasks : t \notin Away' => uxPriority'[t] <= uxTopReadyPriority
          /\ Idle \notin Away' /\ uxPriority'[Idle] = 0
      BY <1>7, <2>1 DEF IInv, Where, IdleIsReady
    <2>3. uxSchedulerSuspended # 0 => Self \notin Away'
      BY <1>7 DEF IInv, CallsSound, Highest, Steady
    <2>4. ~ (TRUE /\ uxSchedulerSuspended = 0) =>
             (pc'[Self] \in Steady =>
                /\ Self \notin Away'
                /\ \/ xYieldPending \/ TRUE
                   \/ \A t \in Tasks : t \notin Away' => uxPriority'[t] <= uxPriority'[Self])
      BY <2>3
    <2>5. /\ uxSchedulerSuspended = 0 => ~ xYieldPending'
          /\ uxSchedulerSuspended # 0 => xYieldPending' /\ Self' = Self
      BY DEF Dispatch, Self
    <2>6. /\ Where' /\ IdleIsReady' /\ Highest'
          /\ pxReadyTasksLists' \in [Prios -> Seq(Nodes)]
          /\ uxTopReadyPriority' \in Prios /\ pxCurrentTCB' \in Tasks
          /\ xYieldPending' \in BOOLEAN
      BY <2>1, <2>2, <2>4, SwitchFacts
    <2> QED BY <2>5, <2>6
  <1>9. program' \in Programs
    BY <1>1 DEF IInv
  <1>10. TypeOK'
    BY <1>1, <1>2, <1>3, <1>8 DEF TypeOK, Ticks, Prios, Nodes, Pcs
  <1>11. Apart'
    BY <1>1, <1>6, <1>7 DEF IInv, Apart
  <1>12. CallsSound'
    <2>1. CASE uxSchedulerSuspended' = 0
      <3>1. pc'[Idle] = "run"
        BY <1>3, TasksAssumption DEF IInv, CallsSound
      <3> QED BY <1>5, <1>8, <2>1, <3>1, CallsWhenRunning
    <2>2. CASE uxSchedulerSuspended' # 0
      <3>1. Self' = Self /\ pc'[Idle] = "run"
        BY <1>1, <1>3, <1>8, <2>2, TasksAssumption DEF IInv, CallsSound
      <3> QED BY <1>3, <1>5, <3>1 DEF CallsSound, SuspendedCalls
    <2> QED BY <2>1, <2>2
  <1>13. NothingPends'
    BY <1>1, <1>8 DEF IInv, NothingPends
  <1>14. DelaysAreExact' /\ OnTime'
    BY <1>1, TimesStay
  <1>15. OnSchedule'
    <2>1. pc'[Self'] = "delayUntil" => pc[Self] = "delayUntil" /\ Self' = Self
      BY <1>5, <1>8 DEF SuspendedCalls, Self
    <2>2. /\ excused \subseteq excused'
          /\ \A t \in Range(xEventList)' \cup Range(xPendingReadyList)' :
                \/ t \in Range(xEventList) \cup Range(xPendingReadyList)
                \/ t \in Tasks /\ due[t] = 0
      BY <1>1
    <2> QED BY <1>1, <2>1, <2>2, ScheduleStays
  <1> QED BY <1>8, <1>9, <1>10, <1>11, <1>12, <1>13, <1>14, <1>15 DEF IInv

LEMMA YieldsKeep ==
    IInv /\ UNCHANGED program /\ (Yield \/ YieldWithinAPI) => IInv'
  <1> SUFFICES ASSUME IInv, UNCHANGED program, Yield \/ YieldWithinAPI PROVE IInv'
    OBVIOUS
  <1>1. CASE Yield
    <2>1. /\ pc[Self] = "run" /\ pc' = pc /\ arg' = arg /\ target' = target
          /\ Dispatch(pxReadyTasksLists, uxTopReadyPriority, TRUE, uxSchedulerSuspended)
          /\ UNCHANGED <<timeVars, uxSchedulerSuspended, uxPriority, waitVars, eventVars,
                         periodVars>>
      BY <1>1 DEF Yield, callVars
    <2>2. pc' = [pc EXCEPT ![Self] = "run"]
      BY <2>1, SamePc
    <2> QED BY <2>1, <2>2, OnlyTheSwitch
  <1>2. CASE YieldWithinAPI
    <2>1. /\ pc[Self] = "yield" /\ pc' = [pc EXCEPT ![Self] = "run"]
          /\ Dispatch(pxReadyTasksLists, uxTopReadyPriority, TRUE, uxSchedulerSuspended)
          /\ UNCHANGED <<timeVars, uxSchedulerSuspended, uxPriority, waitVars, eventVars, arg,
                         target, periodVars>>
      BY <1>2 DEF YieldWithinAPI, Goto
    <2> QED BY <2>1, OnlyTheSwitch
  <1> QED BY <1>1, <1>2

-----------------------------------------------------------------------------
(* Tasks leave the delayed lists before their time, or none does.          *)
LEMMA DelaysShrink ==
    ASSUME IInv, NEW S \in SUBSET Tasks,
           pxDelayedTaskList' \in Seq(Tasks), Sorted(pxDelayedTaskList)',
           Range(pxDelayedTaskList)' = Range(pxDelayedTaskList) \ S,
           pxOverflowDelayedTaskList' \in Seq(Tasks), Sorted(pxOverflowDelayedTaskList)',
           Range(pxOverflowDelayedTaskList)' = Range(pxOverflowDelayedTaskList) \ S,
           \A t \in Tasks : due'[t] = IF t \in S THEN 0 ELSE due[t],
           UNCHANGED <<xItemValue, xTickCount, xNextTaskUnblockTime>>
    PROVE  DelaysAreExact' /\ OnTime' /\ Delayed' = Delayed \ S
  <1>1. Delayed' = Delayed \ S
    BY DEF Delayed
  <1>2. DelaysAreExact'
    <2>1. \A t \in Tasks : t \in Delayed' <=> due'[t] > 0
      BY <1>1 DEF IInv, DelaysAreExact
    <2> QED BY <2>1 DEF DelaysAreExact
  <1>3. Range(pxDelayedTaskList) \subseteq Tasks /\ Range(pxOverflowDelayedTaskList) \subseteq Tasks
    BY IInvFacts DEF Delayed
  <1>4. \A t \in Range(pxDelayedTaskList)' :
            /\ xItemValue'[t] = xTickCount' + due'[t]
            /\ xNextTaskUnblockTime' <= xItemValue'[t]
    BY <1>3 DEF IInv, OnTime
  <1>5. \A t \in Range(pxOverflowDelayedTaskList)' :
            xItemValue'[t] + TickMod = xTickCount' + due'[t]
    BY <1>3 DEF IInv, OnTime
  <1> QED BY <1>1, <1>2, <1>4, <1>5 DEF OnTime

LEMMA DetachFacts ==
    ASSUME IInv, NEW t \in Tasks, Detach(t), UNCHANGED <<xTickCount, xNextTaskUnblockTime>>
    PROVE  /\ pxDelayedTaskList' \in Seq(Tasks) /\ IsInjective(pxDelayedTaskList)'
           /\ pxOverflowDelayedTaskList' \in Seq(Tasks) /\ IsInjective(pxOverflowDelayedTaskList)'
           /\ due' \in [Tasks -> Ticks] /\ xItemValue' = xItemValue
           /\ \A u \in Tasks : due'[u] = IF u = t THEN 0 ELSE due[u]
           /\ DelaysAreExact' /\ OnTime' /\ Delayed' = Delayed \ {t}
  <1>1. /\ pxDelayedTaskList' = Without(pxDelayedTaskList, {t})
        /\ pxOverflowDelayedTaskList' = Without(pxOverflowDelayedTaskList, {t})
        /\ due' = [due EXCEPT ![t] = 0] /\ xItemValue' = xItemValue
    BY DEF Detach
  <1>2. /\ pxDelayedTaskList \in Seq(Tasks) /\ IsInjective(pxDelayedTaskList)
        /\ pxOverflowDelayedTaskList \in Seq(Tasks) /\ IsInjective(pxOverflowDelayedTaskList)
        /\ Sorted(pxDelayedTaskList) /\ Sorted(pxOverflowDelayedTaskList)
        /\ due \in [Tasks -> Ticks]
    BY Types DEF IInv, Apart, OnTime
  <1>3. /\ due' \in [Tasks -> Ticks]
        /\ \A u \in Tasks : due'[u] = IF u = t THEN 0 ELSE due[u]
    BY <1>1, <1>2, TicksFacts
  <1>4. /\ pxDelayedTaskList' \in Seq(Tasks) /\ IsInjective(pxDelayedTaskList)'
        /\ Range(pxDelayedTaskList)' = Range(pxDelayedTaskList) \ {t}
    BY <1>1, <1>2, WithoutFacts
  <1>5. /\ pxOverflowDelayedTaskList' \in Seq(Tasks) /\ IsInjective(pxOverflowDelayedTaskList)'
        /\ Range(pxOverflowDelayedTaskList)' = Range(pxOverflowDelayedTaskList) \ {t}
    BY <1>1, <1>2, WithoutFacts
  <1>6. Sorted(Without(pxDelayedTaskList, {t})) /\ Sorted(Without(pxOverflowDelayedTaskList, {t}))
    BY <1>2, WithoutSorted
  <1>7. Sorted(pxDelayedTaskList)' /\ Sorted(pxOverflowDelayedTaskList)'
    BY <1>1, <1>6 DEF Sorted
  <1>8. \A u \in Tasks : due'[u] = IF u \in {t} THEN 0 ELSE due[u]
    BY <1>3
  <1>9. DelaysAreExact' /\ OnTime' /\ Delayed' = Delayed \ {t}
    BY <1>1, <1>4, <1>5, <1>7, <1>8, DelaysShrink
  <1> QED BY <1>1, <1>3, <1>4, <1>5, <1>9

(* Tasks that were away are put on the ready lists of their priorities, and *)
(* the caller gives up the processor if that is what it takes.              *)
LEMMA ManyReadied ==
    ASSUME IInv, NEW q \in Seq(Tasks), IsInjective(q), Range(q) \subseteq Away,
           Away' = Away \ Range(q), uxPriority' = uxPriority,
           NEW l, Placed(l, uxPriority, Away),
           NEW yield \in BOOLEAN, NEW suspended,
           Dispatch(AddReady(l, uxPriority, q),
                    RecordReady(uxTopReadyPriority, uxPriority, q), yield, suspended),
           ~ yield => \A t \in Range(q) : uxPriority[t] <= uxPriority[Self],
           ~ (yield /\ suspended = 0) => (pc'[Self] \in Steady => pc[Self] \in Steady)
    PROVE  /\ Where' /\ IdleIsReady' /\ Highest'
           /\ pxReadyTasksLists' \in [Prios -> Seq(Nodes)]
           /\ uxTopReadyPriority' \in Prios /\ pxCurrentTCB' \in Tasks
           /\ xYieldPending' \in BOOLEAN
           /\ yield /\ suspended = 0 => ~ xYieldPending'
           /\ ~ (yield /\ suspended = 0) =>
                 (xYieldPending' <=> xYieldPending \/ yield) /\ Self' = Self
  <1> DEFINE new == AddReady(l, uxPriority, q)
             top == RecordReady(uxTopReadyPriority, uxPriority, q)
  <1>1. /\ uxPriority \in [Tasks -> Prios] /\ uxTopReadyPriority \in Prios
        /\ pxCurrentTCB \in Tasks /\ Self \in Tasks
    BY Types DEF IInv, Self
  <1>2. Placed(new, uxPriority, Away \ Range(q))
    BY <1>1, AddReadyFacts
  <1>3. /\ top \in Prios /\ uxTopReadyPriority <= top
        /\ \A u \in Range(q) : uxPriority[u] <= top
    BY <1>1, RecordReadyFacts
  <1>4. Dispatch(new, top, yield, suspended)
    OBVIOUS
  <1> HIDE DEF new, top
  <1>5. /\ uxPriority' \in [Tasks -> Prios] /\ Placed(new, uxPriority', Away')
        /\ Idle \notin Away' /\ uxPriority'[Idle] = 0
    BY <1>1, <1>2 DEF IInv, IdleIsReady
  <1>6. \A u \in Tasks : u \notin Away' => uxPriority'[u] <= top
    <2>1. \A u \in Tasks : uxPriority[u] \in Int /\ uxTopReadyPriority \in Int /\ top \in Int
      BY <1>1, <1>3, PriosFacts
    <2> QED BY <1>3, <2>1 DEF IInv, IdleIsReady
  <1>7. ~ (yield /\ suspended = 0) =>
            (pc'[Self] \in Steady =>
                 /\ Self \notin Away'
                 /\ \/ xYieldPending \/ yield
                    \/ \A u \in Tasks : u \notin Away' => uxPriority'[u] <= uxPriority'[Self])
    BY DEF IInv, Highest
  <1> QED BY <1>3, <1>4, <1>5, <1>6, <1>7, SwitchFacts

LEMMA OneReadied ==
    ASSUME IInv, NEW t \in Tasks, t \in Away, Away' = Away \ {t}, uxPriority' = uxPriority,
           NEW yield \in BOOLEAN, NEW suspended,
           Dispatch(AddReady(pxReadyTasksLists, uxPriority, <<t>>),
                    RecordReady(uxTopReadyPriority, uxPriority, <<t>>), yield, suspended),
           ~ yield => uxPriority[t] <= uxPriority[Self],
           pc'[Self] \in Steady => pc[Self] \in Steady
    PROVE  /\ Where' /\ IdleIsReady' /\ Highest'
           /\ pxReadyTasksLists' \in [Prios -> Seq(Nodes)]
           /\ uxTopReadyPriority' \in Prios /\ pxCurrentTCB' \in Tasks
           /\ xYieldPending' \in BOOLEAN
           /\ yield /\ suspended = 0 => ~ xYieldPending'
           /\ ~ (yield /\ suspended = 0) =>
                 (xYieldPending' <=> xYieldPending \/ yield) /\ Self' = Self
  <1> DEFINE q == <<t>>
  <1>1. q \in Seq(Tasks) /\ Range(q) = {t} /\ IsInjective(q)
    BY SingleFacts
  <1>2. Dispatch(AddReady(pxReadyTasksLists, uxPriority, q),
                 RecordReady(uxTopReadyPriority, uxPriority, q), yield, suspended)
    OBVIOUS
  <1> HIDE DEF q
  <1>3. /\ Range(q) \subseteq Away /\ Away' = Away \ Range(q)
        /\ ~ yield => \A u \in Range(q) : uxPriority[u] <= uxPriority[Self]
        /\ Placed(pxReadyTasksLists, uxPriority, Away)
    BY <1>1 DEF IInv, Where
  <1> QED BY <1>1, <1>2, <1>3, ManyReadied

(* Who runs may change, no task goes on in a call. *)
LEMMA CallsStay ==
    ASSUME IInv, UNCHANGED <<pc, arg, target, uxSchedulerSuspended>>, pxCurrentTCB' \in Tasks,
           uxSchedulerSuspended # 0 => Self' = Self
    PROVE  /\ CallsSound' /\ Moving' = Moving
           /\ pc'[Self'] = "delayUntil" => pc[Self] = "delayUntil" /\ Self' = Self
  <1>1. Moving' = Moving
    BY DEF Moving
  <1>2. CASE uxSchedulerSuspended = 0
    <2>1. /\ \A t \in Tasks : pc'[t] \notin SuspendedCalls
          /\ pc'[Idle] = "run" /\ uxSchedulerSuspended' = 0
      BY <1>2, IInvFacts DEF IInv, CallsSound
    <2>2. CallsSound'
      BY <2>1, CallsWhenRunning
    <2>3. pc'[Self'] # "delayUntil"
      BY <2>1 DEF SuspendedCalls, Self
    <2> QED BY <1>1, <2>2, <2>3
  <1>3. CASE uxSchedulerSuspended # 0
    <2>1. Self' = Self
      BY <1>3
    <2>2. CallsSound'
      BY <2>1 DEF IInv, CallsSound
    <2> QED BY <1>1, <2>1, <2>2
  <1> QED BY <1>2, <1>3

(* A suspended task that no event list holds becomes ready. *)
LEMMA ResumedKeeps ==
    ASSUME IInv, NEW t \in Tasks, IsTaskSuspended(t),
           xSuspendedTaskList' = xSuspendedTaskList \ {t},
           Dispatch(AddReady(pxReadyTasksLists, uxPriority, <<t>>),
                    RecordReady(uxTopReadyPriority, uxPriority, <<t>>),
                    uxPriority[t] >= uxPriority[Self], uxSchedulerSuspended),
           UNCHANGED <<program, timeVars, uxSchedulerSuspended, uxPriority,
                       pxDelayedTaskList, pxOverflowDelayedTaskList, xItemValue,
                       due, eventVars, callVars, periodVars>>
    PROVE  IInv'
  <1>1. UNCHANGED <<program, xTickCount, xNextTaskUnblockTime, uxPendedTicks,
                    uxSchedulerSuspended, uxPriority, pxDelayedTaskList,
                    pxOverflowDelayedTaskList, xItemValue, due,
                    xPendingReadyList, xEventList, pc, arg, target, pxPreviousWakeTime, lag,
                    excused>>
    BY DEF timeVars, eventVars, callVars, periodVars
  <1>2. TypeOK /\ pc \in [Tasks -> Pcs] /\ Self \in Tasks
    BY Types DEF IInv, Self
  <1>3. t \in xSuspendedTaskList /\ t \notin Range(xEventList) \cup Range(xPendingReadyList)
    BY DEF IsTaskSuspended
  <1>4. t \in Away /\ t \notin Delayed /\ t \notin Moving
    BY <1>3 DEF Away, IInv, Apart
  <1>5. Moving' = Moving /\ Delayed' = Delayed
    BY <1>1 DEF Moving, Delayed
  <1>6. Away' = Away \ {t}
    BY <1>4, <1>5 DEF Away
  <1> DEFINE yield == uxPriority[t] >= uxPriority[Self]
  <1>7. /\ yield \in BOOLEAN /\ (~ yield => uxPriority[t] <= uxPriority[Self])
        /\ uxPriority' = uxPriority /\ (pc'[Self] \in Steady => pc[Self] \in Steady)
    <2>1. uxPriority[t] \in Int /\ uxPriority[Self] \in Int
      BY <1>2, Types, PriosFacts
    <2> QED BY <1>1, <2>1
  <1>8. Dispatch(AddReady(pxReadyTasksLists, uxPriority, <<t>>),
                 RecordReady(uxTopReadyPriority, uxPriority, <<t>>),
                 yield, uxSchedulerSuspended)
    OBVIOUS
  <1> HIDE DEF yield
  <1>9. /\ Where' /\ IdleIsReady' /\ Highest'
        /\ pxReadyTasksLists' \in [Prios -> Seq(Nodes)]
        /\ uxTopReadyPriority' \in Prios /\ pxCurrentTCB' \in Tasks
        /\ xYieldPending' \in BOOLEAN
        /\ yield /\ uxSchedulerSuspended = 0 => ~ xYieldPending'
        /\ ~ (yield /\ uxSchedulerSuspended = 0) =>
              (xYieldPending' <=> xYieldPending \/ yield) /\ Self' = Self
    BY <1>4, <1>6, <1>7, <1>8, OneReadied
  <1>10. program' \in Programs
    BY <1>1 DEF IInv
  <1>11. TypeOK'
    BY <1>1, <1>2, <1>9 DEF TypeOK, Ticks, Prios, Nodes, Pcs
  <1>12. Apart'
    BY <1>1, <1>3, <1>5, <1>6 DEF IInv, Apart
  <1>13. uxSchedulerSuspended # 0 => Self' = Self
    BY <1>9
  <1>14. /\ CallsSound'
         /\ pc'[Self'] = "delayUntil" => pc[Self] = "delayUntil" /\ Self' = Self
    BY <1>1, <1>9, <1>13, CallsStay
  <1>15. NothingPends'
    BY <1>1, <1>9 DEF IInv, NothingPends
  <1>16. DelaysAreExact' /\ OnTime'
    BY <1>1, TimesStay
  <1>17. OnSchedule'
    <2>1. /\ excused \subseteq excused'
          /\ \A u \in Range(xEventList)' \cup Range(xPendingReadyList)' :
                \/ u \in Range(xEventList) \cup Range(xPendingReadyList)
                \/ u \in Tasks /\ due[u] = 0
      BY <1>1
    <2> QED BY <1>1, <1>14, <2>1, ScheduleStays
  <1> QED BY <1>9, <1>10, <1>11, <1>12, <1>14, <1>15, <1>16, <1>17 DEF IInv

(* Something is left pending while the scheduler is suspended. *)
LEMMA OnlyPends ==
    ASSUME IInv, uxSchedulerSuspended # 0,
           UNCHANGED <<program, xTickCount, xNextTaskUnblockTime, uxSchedulerSuspended,
                       pxReadyTasksLists, pxCurrentTCB, uxTopReadyPriority, uxPriority,
                       waitVars, callVars, periodVars>>,
           uxPendedTicks' \in 0..MaxPended, xYieldPending' \in BOOLEAN,
           xYieldPending => xYieldPending',
           xEventList' \in Seq(Tasks), IsInjective(xEventList)',
           xPendingReadyList' \in Seq(Tasks), IsInjective(xPendingReadyList)',
           Range(xEventList)' \cap Range(xPendingReadyList)' = {},
           \A t \in Range(xEventList)' \cup Range(xPendingReadyList)' :
              \/ t \in Range(xEventList) \cup Range(xPendingReadyList)
              \/ t \in xSuspendedTaskList
    PROVE  IInv'
  <1>1. UNCHANGED <<program, xTickCount, xNextTaskUnblockTime, uxSchedulerSuspended,
                    uxPriority, pxDelayedTaskList, pxReadyTasksLists, pxCurrentTCB,
                    uxTopReadyPriority,
                    pxOverflowDelayedTaskList, xSuspendedTaskList, xItemValue, due,
                    pc, arg, target, pxPreviousWakeTime, lag, excused>>
    BY DEF waitVars, callVars, periodVars
  <1>2. TypeOK
    BY DEF IInv
  <1>3. Moving' = Moving /\ Delayed' = Delayed
    BY <1>1 DEF Moving, Delayed
  <1>4. Away' = Away
    BY <1>1, <1>3 DEF Away
  <1>5. program' \in Programs /\ Where' /\ IdleIsReady'
    BY <1>1, <1>4 DEF IInv, Where, IdleIsReady
  <1>6. TypeOK'
    BY <1>1, <1>2 DEF TypeOK
  <1>7. Apart'
    <2>1. Range(xEventList)' \cup Range(xPendingReadyList)' \subseteq Away'
      BY <1>4 DEF IInv, Apart, Away
    <2> QED BY <1>1, <1>3, <1>4, <2>1 DEF IInv, Apart
  <1>8. CallsSound' /\ (pc'[Self'] = "delayUntil" => pc[Self] = "delayUntil" /\ Self' = Self)
    BY <1>1 DEF IInv, CallsSound, Self
  <1>9. NothingPends' /\ Highest'
    BY <1>1, <1>4 DEF IInv, NothingPends, Highest, Self
  <1>10. DelaysAreExact' /\ OnTime'
    BY <1>1, TimesStay
  <1>11. OnSchedule'
    <2>1. \A t \in xSuspendedTaskList : t \in Tasks /\ due[t] = 0
      BY <1>2, Types, IInvFacts DEF IInv, Apart
    <2>2. /\ excused \subseteq excused'
          /\ \A u \in Range(xEventList)' \cup Range(xPendingReadyList)' :
                \/ u \in Range(xEventList) \cup Range(xPendingReadyList)
                \/ u \in Tasks /\ due[u] = 0
      BY <1>1, <2>1
    <2> QED BY <1>1, <1>8, <2>2, ScheduleStays
  <1> QED BY <1>5, <1>6, <1>7, <1>8, <1>9, <1>10, <1>11 DEF IInv

LEMMA ResumesKeep ==
    ASSUME IInv, UNCHANGED program, NEW t \in Tasks, vTaskResume(t) \/ xTaskResumeFromISR(t)
    PROVE  IInv'
  <1>1. CASE vTaskResume(t)
    <2>1. /\ IsTaskSuspended(t) /\ xSuspendedTaskList' = xSuspendedTaskList \ {t}
          /\ Dispatch(AddReady(pxReadyTasksLists, uxPriority, <<t>>),
                      RecordReady(uxTopReadyPriority, uxPriority, <<t>>),
                      uxPriority[t] >= uxPriority[Self], uxSchedulerSuspended)
          /\ UNCHANGED <<timeVars, uxSchedulerSuspended, uxPriority,
                         pxDelayedTaskList, pxOverflowDelayedTaskList, xItemValue,
                         due, eventVars, callVars, periodVars>>
      BY <1>1 DEF vTaskResume
    <2> QED BY <2>1, ResumedKeeps
  <1>2. CASE xTaskResumeFromISR(t) /\ uxSchedulerSuspended = 0
    <2>1. /\ IsTaskSuspended(t) /\ xSuspendedTaskList' = xSuspendedTaskList \ {t}
          /\ Dispatch(AddReady(pxReadyTasksLists, uxPriority, <<t>>),
                      RecordReady(uxTopReadyPriority, uxPriority, <<t>>),
                      uxPriority[t] >= uxPriority[Self], uxSchedulerSuspended)
          /\ UNCHANGED <<timeVars, uxSchedulerSuspended, uxPriority,
                         pxDelayedTaskList, pxOverflowDelayedTaskList, xItemValue,
                         due, eventVars, callVars, periodVars>>
      BY <1>2 DEF xTaskResumeFromISR, eventVars
    <2> QED BY <2>1, ResumedKeeps
  <1>3. CASE xTaskResumeFromISR(t) /\ uxSchedulerSuspended # 0
    <2>1. /\ IsTaskSuspended(t) /\ xPendingReadyList' = Append(xPendingReadyList, t)
          /\ UNCHANGED <<xTickCount, xNextTaskUnblockTime, uxPendedTicks,
                         uxSchedulerSuspended, pxReadyTasksLists, pxCurrentTCB,
                         uxTopReadyPriority, xYieldPending, uxPriority, xEventList,
                         waitVars, callVars, periodVars>>
      BY <1>3 DEF xTaskResumeFromISR, timeVars, switchVars, waitVars
    <2>2. t \in xSuspendedTaskList /\ t \notin Range(xEventList) \cup Range(xPendingReadyList)
      BY <2>1 DEF IsTaskSuspended
    <2>3. /\ xPendingReadyList \in Seq(Tasks) /\ IsInjective(xPendingReadyList)
          /\ xEventList \in Seq(Tasks) /\ IsInjective(xEventList)
          /\ Range(xEventList) \cap Range(xPendingReadyList) = {}
          /\ uxPendedTicks \in 0..MaxPended /\ xYieldPending \in BOOLEAN
      BY Types DEF IInv, Apart
    <2>4. /\ xPendingReadyList' \in Seq(Tasks) /\ IsInjective(xPendingReadyList)'
          /\ Range(xPendingReadyList)' = Range(xPendingReadyList) \cup {t}
      BY <2>1, <2>2, <2>3, AppendFacts
    <2> QED BY <1>3, <2>1, <2>2, <2>3, <2>4, OnlyPends
  <1> QED BY <1>1, <1>2, <1>3

LEMMA xTaskRemoveFromEventListKeeps ==
    IInv /\ UNCHANGED program /\ xTaskRemoveFromEventList => IInv'
  <1> SUFFICES ASSUME IInv, UNCHANGED program, xTaskRemoveFromEventList PROVE IInv'
    OBVIOUS
  <1>1. /\ xEventList # <<>> /\ xEventList' = Tail(xEventList)
        /\ UNCHANGED <<timeVars, uxSchedulerSuspended, uxPriority, callVars, periodVars>>
    BY DEF xTaskRemoveFromEventList
  <1>2. UNCHANGED <<program, xTickCount, xNextTaskUnblockTime, uxPendedTicks,
                    uxSchedulerSuspended, uxPriority, pc, arg, target, pxPreviousWakeTime,
                    lag, excused>>
    BY <1>1 DEF timeVars, callVars, periodVars
  <1>3. /\ TypeOK /\ pc \in [Tasks -> Pcs] /\ Self \in Tasks
        /\ xEventList \in Seq(Tasks) /\ IsInjective(xEventList)
        /\ xPendingReadyList \in Seq(Tasks) /\ IsInjective(xPendingReadyList)
        /\ Range(xEventList) \cap Range(xPendingReadyList) = {}
        /\ uxPendedTicks \in 0..MaxPended /\ xYieldPending \in BOOLEAN
    BY Types DEF IInv, Self, Apart
  <1>4. PICK t \in Tasks :
            /\ t = Head(xEventList) /\ t \in Range(xEventList)
            /\ xEventList' \in Seq(Tasks) /\ IsInjective(xEventList)'
            /\ Range(xEventList)' = Range(xEventList) \ {t}
    BY <1>1, <1>3, TailFacts
  <1> DEFINE yield == uxPriority[t] > uxPriority[Self]
  <1>5. CASE uxSchedulerSuspended # 0
    <2>1. /\ xPendingReadyList' = Append(xPendingReadyList, t)
          /\ xYieldPending' = (xYieldPending \/ yield)
          /\ UNCHANGED <<waitVars, pxReadyTasksLists, pxCurrentTCB, uxTopReadyPriority>>
      BY <1>4, <1>5 DEF xTaskRemoveFromEventList
    <2>2. /\ xPendingReadyList' \in Seq(Tasks) /\ IsInjective(xPendingReadyList)'
          /\ Range(xPendingReadyList)' = Range(xPendingReadyList) \cup {t}
      BY <1>3, <1>4, <2>1, AppendFacts
    <2>3. xYieldPending' \in BOOLEAN /\ (xYieldPending => xYieldPending')
      BY <1>3, <2>1
    <2>4. /\ uxPendedTicks' \in 0..MaxPended
          /\ Range(xEventList)' \cap Range(xPendingReadyList)' = {}
          /\ \A u \in Range(xEventList)' \cup Range(xPendingReadyList)' :
                \/ u \in Range(xEventList) \cup Range(xPendingReadyList)
                \/ u \in xSuspendedTaskList
      BY <1>2, <1>3, <1>4, <2>2
    <2> QED BY <1>1, <1>2, <1>4, <1>5, <2>1, <2>2, <2>3, <2>4, OnlyPends
  <1>6. CASE uxSchedulerSuspended = 0
    <2>1. /\ Detach(t) /\ xSuspendedTaskList' = xSuspendedTaskList \ {t}
          /\ Dispatch(AddReady(pxReadyTasksLists, uxPriority, <<t>>),
                      RecordReady(uxTopReadyPriority, uxPriority, <<t>>), yield, 0)
          /\ xPendingReadyList' = xPendingReadyList
      BY <1>4, <1>6 DEF xTaskRemoveFromEventList
    <2>2. /\ pxDelayedTaskList' \in Seq(Tasks) /\ IsInjective(pxDelayedTaskList)'
          /\ pxOverflowDelayedTaskList' \in Seq(Tasks)
          /\ IsInjective(pxOverflowDelayedTaskList)'
          /\ due' \in [Tasks -> Ticks] /\ xItemValue' = xItemValue
          /\ \A u \in Tasks : due'[u] = IF u = t THEN 0 ELSE due[u]
          /\ DelaysAreExact' /\ OnTime' /\ Delayed' = Delayed \ {t}
      BY <1>2, <1>4, <2>1, DetachFacts
    <2>3. Moving' = {} /\ Moving = {}
      BY <1>2, <1>6, IInvFacts DEF Moving
    <2>4. t \in Away /\ Away' = Away \ {t}
      BY <1>4, <2>1, <2>2, <2>3 DEF IInv, Apart, Away
    <2>5. /\ yield \in BOOLEAN /\ (~ yield => uxPriority[t] <= uxPriority[Self])
          /\ (pc'[Self] \in Steady => pc[Self] \in Steady)
      <3>1. \A u \in Tasks : uxPriority[u] \in Int
        BY PriorityFacts
      <3>2. uxPriority[t] \in Int /\ uxPriority[Self] \in Int
        BY <1>3, <3>1
      <3> QED BY <1>2, <3>2
    <2> HIDE DEF yield
    <2>6. /\ Where' /\ IdleIsReady' /\ Highest'
          /\ pxReadyTasksLists' \in [Prios -> Seq(Nodes)]
          /\ uxTopReadyPriority' \in Prios /\ pxCurrentTCB' \in Tasks
          /\ xYieldPending' \in BOOLEAN
          /\ yield /\ 0 = 0 => ~ xYieldPending'
          /\ ~ (yield /\ 0 = 0) => (xYieldPending' <=> xYieldPending \/ yield) /\ Self' = Self
      BY <1>2, <1>4, <2>1, <2>4, <2>5, OneReadied
    <2>7. program' \in Programs
      BY <1>2 DEF IInv
    <2>8. TypeOK'
      BY <1>2, <1>3, <1>4, <2>1, <2>2, <2>6 DEF TypeOK, Ticks, Prios, Nodes, Pcs
    <2>9. Apart'
      BY <1>4, <2>1, <2>2, <2>3, <2>4 DEF IInv, Apart
    <2>10. /\ CallsSound'
           /\ pc'[Self'] = "delayUntil" => pc[Self] = "delayUntil" /\ Self' = Self
      BY <1>2, <1>6, <2>6, CallsStay
    <2>11. NothingPends'
      BY <1>2, <2>1, <2>6 DEF IInv, NothingPends
    <2>12. OnSchedule'
      <3>1. t \notin excused => lag[t] >= 0
        BY <1>4 DEF IInv, OnSchedule
      <3>2. /\ excused \subseteq excused'
            /\ \A u \in Tasks : \/ due'[u] = due[u]
                                \/ due'[u] = 0 /\ (u \notin excused' => lag[u] >= 0)
            /\ \A u \in Range(xEventList)' \cup Range(xPendingReadyList)' :
                  \/ u \in Range(xEventList) \cup Range(xPendingReadyList)
                  \/ u \in Tasks /\ due[u] = 0
        BY <1>2, <1>4, <2>1, <2>2, <3>1
      <3> QED BY <1>2, <2>2, <2>10, <3>2, ScheduleShrinks
    <2> QED BY <2>2, <2>6, <2>7, <2>8, <2>9, <2>10, <2>11, <2>12 DEF IInv
  <1> QED BY <1>5, <1>6

(* xTaskAbortDelay, first: the task is on no state list for a moment. *)
LEMMA AbortDelayKeeps ==
    IInv /\ UNCHANGED program /\ AbortDelay => IInv'
  <1> SUFFICES ASSUME IInv, UNCHANGED program, AbortDelay PROVE IInv'
    OBVIOUS
  <1>1. /\ pc[Self] = "abort"
        /\ UNCHANGED <<timeVars, uxSchedulerSuspended, switchVars, uxPriority,
                       eventVars, arg, target, pxPreviousWakeTime, lag>>
    BY DEF AbortDelay
  <1>2. /\ UNCHANGED <<program, xTickCount, xNextTaskUnblockTime, uxPendedTicks,
                       uxSchedulerSuspended, pxReadyTasksLists, pxCurrentTCB,
                       uxTopReadyPriority, xYieldPending, uxPriority, xPendingReadyList,
                       xEventList, arg, target, pxPreviousWakeTime, lag>>
        /\ Self' = Self
    BY <1>1 DEF timeVars, switchVars, eventVars, Self
  <1>3. TypeOK /\ pc \in [Tasks -> Pcs] /\ Self \in Tasks /\ target \in Tasks
    BY Types DEF IInv, Self
  <1>4. uxSchedulerSuspended > 0 /\ target # Self /\ Self # Idle
    BY <1>1, <1>3 DEF IInv, CallsSound, SuspendedCalls
  <1>5. CASE ~ IsBlocked(target)
    <2>1. pc' = [pc EXCEPT ![Self] = "abortDone"] /\ UNCHANGED <<waitVars, excused>>
      BY <1>5 DEF AbortDelay, Goto
    <2>2. /\ "abortDone" \in Pcs \cap SuspendedCalls \cap Steady /\ "abort" \in Steady
          /\ "abortDone" \notin {"delay", "delayUntil", "wait", "resumeAll", "abort",
                                 "abortEvent", "yield", "suspendSelf"}
      BY DEF Pcs, SuspendedCalls, Steady
    <2>3. /\ uxSchedulerSuspended' \in 0..MaxNesting /\ arg' \in Ticks /\ target' \in Tasks
          /\ xNextTaskUnblockTime' \in Ticks
          /\ \A t \in Range(pxDelayedTaskList) : xNextTaskUnblockTime' <= xItemValue[t]
          /\ uxSchedulerSuspended' > 0 /\ uxSchedulerSuspended' # 0
      BY <1>2, <1>3, <1>4, Types, IInvFacts DEF IInv, OnTime
    <2>4. UNCHANGED <<program, xTickCount, uxPendedTicks, switchVars, uxPriority, waitVars,
                      eventVars, periodVars>>
      BY <1>1, <1>2, <2>1 DEF periodVars
    <2> QED BY <1>1, <1>4, <2>1, <2>2, <2>3, <2>4, OnlyTheCall
  <1>6. CASE IsBlocked(target)
    <2>1. /\ Detach(target) /\ xSuspendedTaskList' = xSuspendedTaskList \ {target}
          /\ excused' = excused \cup {target} /\ pc' = [pc EXCEPT ![Self] = "abortEvent"]
      BY <1>6 DEF AbortDelay, Goto
    <2>2. /\ pxDelayedTaskList' \in Seq(Tasks) /\ IsInjective(pxDelayedTaskList)'
          /\ pxOverflowDelayedTaskList' \in Seq(Tasks)
          /\ IsInjective(pxOverflowDelayedTaskList)'
          /\ due' \in [Tasks -> Ticks] /\ xItemValue' = xItemValue
          /\ \A u \in Tasks : due'[u] = IF u = target THEN 0 ELSE due[u]
          /\ DelaysAreExact' /\ OnTime' /\ Delayed' = Delayed \ {target}
      BY <1>2, <1>3, <2>1, DetachFacts
    <2>3. /\ pc'[Self] = "abortEvent" /\ pc' \in [Tasks -> Pcs]
          /\ \A t \in Tasks : t # Self => pc'[t] = pc[t]
      BY <1>3, <2>1 DEF Pcs
    <2>4. Moving' = {target} /\ Moving = {}
      BY <1>1, <1>2, <1>3, <2>3, IInvFacts DEF Moving
    <2>5. target \in Delayed \cup xSuspendedTaskList
      BY <1>6 DEF IsBlocked
    <2>6. Away' = Away
      BY <2>1, <2>2, <2>4, <2>5 DEF Away
    <2>7. program' \in Programs /\ Where' /\ IdleIsReady' /\ NothingPends'
      BY <1>2, <2>6 DEF IInv, Where, IdleIsReady, NothingPends
    <2>8. TypeOK'
      BY <1>2, <1>3, <2>1, <2>2, <2>3 DEF TypeOK, Ticks, Pcs
    <2>9. Apart'
      BY <1>2, <2>1, <2>2, <2>4, <2>6 DEF IInv, Apart
    <2>10. CallsSound'
      <3>1. \A t \in Tasks : pc'[t] \in SuspendedCalls =>
                t = Self' /\ uxSchedulerSuspended' > 0
        BY <1>2, <1>4, <2>3 DEF IInv, CallsSound
      <3>2. pc'[Idle] = "run"
        BY <1>4, <2>3, TasksAssumption DEF IInv, CallsSound
      <3> QED BY <1>2, <1>4, <2>3, <3>1, <3>2 DEF CallsSound
    <2>11. Highest'
      <3>1. pc[Self] \in Steady
        BY <1>1 DEF Steady
      <3> QED BY <1>2, <2>6, <3>1 DEF IInv, Highest
    <2>12. OnSchedule'
      <3>1. /\ excused \subseteq excused'
            /\ \A u \in Tasks : \/ due'[u] = due[u]
                                \/ due'[u] = 0 /\ (u \notin excused' => lag[u] >= 0)
            /\ \A u \in Range(xEventList)' \cup Range(xPendingReadyList)' :
                  \/ u \in Range(xEventList) \cup Range(xPendingReadyList)
                  \/ u \in Tasks /\ due[u] = 0
            /\ pc'[Self'] = "delayUntil" => pc[Self] = "delayUntil" /\ Self' = Self
        BY <1>2, <2>1, <2>2, <2>3
      <3> QED BY <1>2, <2>2, <3>1, ScheduleShrinks
    <2> QED BY <2>2, <2>7, <2>8, <2>9, <2>10, <2>11, <2>12 DEF IInv
  <1> QED BY <1>5, <1>6

(* Second: off the event list and ready again. *)
LEMMA AbortEventKeeps ==
    IInv /\ UNCHANGED program /\ AbortEvent => IInv'
  <1> SUFFICES ASSUME IInv, UNCHANGED program, AbortEvent PROVE IInv'
    OBVIOUS
  <1> DEFINE yield == uxPriority[target] > uxPriority[Self]
  <1>1. /\ pc[Self] = "abortEvent" /\ pc' = [pc EXCEPT ![Self] = "abortDone"]
        /\ xEventList' = Without(xEventList, {target})
        /\ xPendingReadyList' = Without(xPendingReadyList, {target})
        /\ UNCHANGED <<timeVars, uxSchedulerSuspended, pxCurrentTCB, uxPriority,
                       waitVars, arg, target, periodVars>>
    BY DEF AbortEvent, Goto
  <1>2. /\ UNCHANGED <<program, xTickCount, xNextTaskUnblockTime, uxPendedTicks,
                       uxSchedulerSuspended, pxCurrentTCB, uxPriority, pxDelayedTaskList,
                       pxOverflowDelayedTaskList, xSuspendedTaskList, xItemValue, due,
                       arg, target, pxPreviousWakeTime, lag, excused>>
        /\ Self' = Self
    BY <1>1 DEF timeVars, waitVars, periodVars, Self
  <1>3. /\ TypeOK /\ pc \in [Tasks -> Pcs] /\ Self \in Tasks /\ target \in Tasks
        /\ xEventList \in Seq(Tasks) /\ IsInjective(xEventList)
        /\ xPendingReadyList \in Seq(Tasks) /\ IsInjective(xPendingReadyList)
    BY Types DEF IInv, Self, Apart
  <1>4. uxSchedulerSuspended > 0 /\ uxSchedulerSuspended # 0 /\ target # Self /\ Self # Idle
    <2>1. uxSchedulerSuspended > 0 /\ target # Self /\ Self # Idle
      BY <1>1, <1>3 DEF IInv, CallsSound, SuspendedCalls
    <2> QED BY <2>1, IInvFacts
  <1>5. /\ pc'[Self] = "abortDone" /\ pc' \in [Tasks -> Pcs]
        /\ \A t \in Tasks : t # Self => pc'[t] = pc[t]
    BY <1>1, <1>3 DEF Pcs
  <1>6. /\ xEventList' \in Seq(Tasks) /\ IsInjective(xEventList)'
        /\ Range(xEventList)' = Range(xEventList) \ {target}
    BY <1>1, <1>3, WithoutFacts
  <1>7. /\ xPendingReadyList' \in Seq(Tasks) /\ IsInjective(xPendingReadyList)'
        /\ Range(xPendingReadyList)' = Range(xPendingReadyList) \ {target}
    BY <1>1, <1>3, WithoutFacts
  <1>8. Moving = {target} /\ Moving' = {}
    <2>1. \A t \in Tasks : pc[t] = "abortEvent" => t = Self
      BY DEF IInv, CallsSound, SuspendedCalls
    <2>2. \A t \in Tasks : pc'[t] # "abortEvent"
      BY <1>5, <2>1
    <2> QED BY <1>1, <2>2, IInvFacts DEF Moving
  <1>9. Delayed' = Delayed
    BY <1>2 DEF Delayed
  <1>10. target \in Away /\ Away' = Away \ {target}
    BY <1>2, <1>8, <1>9 DEF Away, IInv, Apart
  <1>11. yield \in BOOLEAN /\ (~ yield => uxPriority[target] <= uxPriority[Self])
    <2>1. uxPriority[target] \in Int /\ uxPriority[Self] \in Int
      BY <1>3, PriorityFacts
    <2> QED BY <2>1
  <1>12. Dispatch(AddReady(pxReadyTasksLists, uxPriority, <<target>>),
                  RecordReady(uxTopReadyPriority, uxPriority, <<target>>), yield,
                  uxSchedulerSuspended)
    BY <1>2, <1>4 DEF AbortEvent, Dispatch
  <1> HIDE DEF yield
  <1>13. pc[Self] \in Steady
    BY <1>1 DEF Steady
  <1>14. /\ Where' /\ IdleIsReady' /\ Highest'
         /\ pxReadyTasksLists' \in [Prios -> Seq(Nodes)]
         /\ uxTopReadyPriority' \in Prios /\ xYieldPending' \in BOOLEAN
    BY <1>2, <1>3, <1>10, <1>11, <1>12, <1>13, OneReadied
  <1>15. program' \in Programs /\ NothingPends'
    BY <1>2, <1>4 DEF IInv, NothingPends
  <1>16. TypeOK'
    BY <1>2, <1>3, <1>5, <1>6, <1>7, <1>14 DEF TypeOK, Ticks, Prios, Nodes, Pcs
  <1>17. Apart'
    BY <1>2, <1>6, <1>7, <1>8, <1>9, <1>10 DEF IInv, Apart
  <1>18. CallsSound'
    <2>1. \A t \in Tasks : pc'[t] \in SuspendedCalls => t = Self' /\ uxSchedulerSuspended' > 0
      BY <1>2, <1>4, <1>5 DEF IInv, CallsSound
    <2>2. pc'[Idle] = "run"
      BY <1>4, <1>5, TasksAssumption DEF IInv, CallsSound
    <2> QED BY <1>2, <1>5, <2>1, <2>2 DEF CallsSound
  <1>19. DelaysAreExact' /\ OnTime'
    BY <1>2, TimesStay
  <1>20. OnSchedule'
    <2>1. /\ excused \subseteq excused'
          /\ \A u \in Range(xEventList)' \cup Range(xPendingReadyList)' :
                \/ u \in Range(xEventList) \cup Range(xPendingReadyList)
                \/ u \in Tasks /\ due[u] = 0
          /\ pc'[Self'] = "delayUntil" => pc[Self] = "delayUntil" /\ Self' = Self
      BY <1>2, <1>5, <1>6, <1>7
    <2> QED BY <1>2, <2>1, ScheduleStays
  <1> QED BY <1>14, <1>15, <1>16, <1>17, <1>18, <1>19, <1>20 DEF IInv

LEMMA vTaskSuspendKeeps ==
    ASSUME IInv, UNCHANGED program, NEW t \in Tasks, vTaskSuspend(t)
    PROVE  IInv'
  <1> DEFINE l == IF t = Self THEN "suspendSelf" ELSE "suspendOther"
  <1>1. /\ pc[Self] = "run" /\ Self # Idle /\ t # Idle /\ (t = Self => uxSchedulerSuspended = 0)
        /\ Detach(t) /\ pc' = [pc EXCEPT ![Self] = l]
        /\ pxReadyTasksLists' = RemoveReady(pxReadyTasksLists, t)
        /\ xEventList' = Without(xEventList, {t})
        /\ xPendingReadyList' = Without(xPendingReadyList, {t})
        /\ xSuspendedTaskList' = xSuspendedTaskList \cup {t}
        /\ excused' = IF t \in Delayed THEN excused \cup {t} ELSE excused
        /\ UNCHANGED <<timeVars, uxSchedulerSuspended, uxPriority, pxCurrentTCB,
                       uxTopReadyPriority, xYieldPending, arg, target,
                       pxPreviousWakeTime, lag>>
    BY DEF vTaskSuspend, MayCall, Goto
  <1>2. /\ UNCHANGED <<program, xTickCount, xNextTaskUnblockTime, uxPendedTicks,
                       uxSchedulerSuspended, uxPriority, pxCurrentTCB,
                       uxTopReadyPriority, xYieldPending, arg, target,
                       pxPreviousWakeTime, lag>>
        /\ Self' = Self
    BY <1>1 DEF timeVars, Self
  <1>3. /\ TypeOK /\ pc \in [Tasks -> Pcs] /\ Self \in Tasks
        /\ xEventList \in Seq(Tasks) /\ IsInjective(xEventList)
        /\ xPendingReadyList \in Seq(Tasks) /\ IsInjective(xPendingReadyList)
        /\ uxPriority \in [Tasks -> Prios]
    BY Types DEF IInv, Self, Apart
  <1>4. /\ l \in {"suspendSelf", "suspendOther"} /\ (l = "suspendSelf" <=> t = Self)
        /\ l \in Pcs /\ l \notin SuspendedCalls
    BY DEF Pcs, SuspendedCalls
  <1>5. /\ pc'[Self] = l /\ pc' \in [Tasks -> Pcs]
        /\ \A u \in Tasks : u # Self => pc'[u] = pc[u]
    BY <1>1, <1>3, <1>4
  <1> HIDE DEF l
  <1>6. /\ pxDelayedTaskList' \in Seq(Tasks) /\ IsInjective(pxDelayedTaskList)'
        /\ pxOverflowDelayedTaskList' \in Seq(Tasks)
        /\ IsInjective(pxOverflowDelayedTaskList)'
        /\ due' \in [Tasks -> Ticks] /\ xItemValue' = xItemValue
        /\ \A u \in Tasks : due'[u] = IF u = t THEN 0 ELSE due[u]
        /\ DelaysAreExact' /\ OnTime' /\ Delayed' = Delayed \ {t}
    BY <1>1, <1>2, DetachFacts
  <1>7. /\ xEventList' \in Seq(Tasks) /\ IsInjective(xEventList)'
        /\ Range(xEventList)' = Range(xEventList) \ {t}
    BY <1>1, <1>3, WithoutFacts
  <1>8. /\ xPendingReadyList' \in Seq(Tasks) /\ IsInjective(xPendingReadyList)'
        /\ Range(xPendingReadyList)' = Range(xPendingReadyList) \ {t}
    BY <1>1, <1>3, WithoutFacts
  <1>9. Moving = {} /\ Moving' = {}
    <2>1. \A u \in Tasks : pc'[u] \in SuspendedCalls => pc[u] \in SuspendedCalls /\ u # Self
      BY <1>4, <1>5
    <2>2. \A u \in Tasks : pc'[u] # "abortEvent"
      BY <2>1 DEF IInv, CallsSound, SuspendedCalls
    <2> QED BY <1>1, <2>2, IInvFacts DEF Moving
  <1>10. Away' = Away \cup {t}
    BY <1>1, <1>6, <1>9 DEF Away
  <1>11. Where' /\ pxReadyTasksLists' \in [Prios -> Seq(Nodes)]
    <2>1. Placed(pxReadyTasksLists, uxPriority, Away)
      BY DEF IInv, Where
    <2>2. Placed(pxReadyTasksLists', uxPriority', Away')
      BY <1>1, <1>2, <1>3, <1>10, <2>1, RemoveReadyFacts
    <2> QED BY <2>2 DEF Where, Placed, Rings
  <1>12. program' \in Programs /\ IdleIsReady'
    BY <1>1, <1>2, <1>10 DEF IInv, IdleIsReady
  <1>13. TypeOK'
    BY <1>1, <1>2, <1>3, <1>5, <1>6, <1>7, <1>8, <1>11 DEF TypeOK, Ticks, Prios, Nodes, Pcs
  <1>14. Apart'
    BY <1>1, <1>6, <1>7, <1>8, <1>9, <1>10 DEF IInv, Apart
  <1>15. CallsSound'
    <2>1. \A u \in Tasks : pc'[u] \in SuspendedCalls => u = Self' /\ uxSchedulerSuspended' > 0
      BY <1>2, <1>4, <1>5 DEF IInv, CallsSound
    <2>2. pc'[Idle] = "run"
      BY <1>1, <1>5, TasksAssumption DEF IInv, CallsSound
    <2> QED BY <1>1, <1>2, <1>4, <1>5, <2>1, <2>2 DEF CallsSound
  <1>16. NothingPends'
    <2>1. xPendingReadyList = <<>> => xPendingReadyList' = <<>>
      <3>1. ASSUME xPendingReadyList = <<>> PROVE Range(xPendingReadyList)' = {}
        BY <1>8, <3>1 DEF Range
      <3> QED BY <1>8, <3>1 DEF Range
    <2> QED BY <1>2, <2>1 DEF IInv, NothingPends
  <1>17. Highest'
    <2>1. l \in Steady => t # Self
      BY <1>4 DEF Steady
    <2>2. pc[Self] \in Steady
      BY <1>1 DEF Steady
    <2> QED BY <1>2, <1>5, <1>10, <2>1, <2>2 DEF IInv, Highest
  <1>18. OnSchedule'
    <2>1. t \notin excused' => lag[t] >= 0
      <3>1. t \notin excused' => t \notin Delayed /\ t \notin excused
        BY <1>1
      <3>2. lag[t] \in Int
        BY <1>3, Types, TicksFacts
      <3> QED BY <3>1, <3>2, IInvFacts DEF IInv, OnSchedule
    <2>2. /\ excused \subseteq excused'
          /\ \A u \in Tasks : \/ due'[u] = due[u]
                              \/ due'[u] = 0 /\ (u \notin excused' => lag[u] >= 0)
          /\ \A u \in Range(xEventList)' \cup Range(xPendingReadyList)' :
                \/ u \in Range(xEventList) \cup Range(xPendingReadyList)
                \/ u \in Tasks /\ due[u] = 0
      BY <1>1, <1>6, <1>7, <1>8, <2>1
    <2>3. pc'[Self'] = "delayUntil" => pc[Self] = "delayUntil" /\ Self' = Self
      BY <1>2, <1>4, <1>5
    <2> QED BY <1>2, <1>6, <2>2, <2>3, ScheduleShrinks
  <1> QED BY <1>6, <1>11, <1>12, <1>13, <1>14, <1>15, <1>16, <1>17, <1>18 DEF IInv

LEMMA vTaskPrioritySetKeeps ==
    ASSUME IInv, UNCHANGED program, NEW t \in Tasks, NEW p \in Prios, vTaskPrioritySet(t, p)
    PROVE  IInv'
  <1> DEFINE prio == [uxPriority EXCEPT ![t] = p]
             yield == IF p > uxPriority[t] THEN t # Self /\ p >= uxPriority[Self] ELSE t = Self
             q == <<t>>
  <1>1. /\ pc[Self] = "run" /\ t # Idle /\ uxPriority' = prio
        /\ UNCHANGED <<timeVars, uxSchedulerSuspended, waitVars, eventVars, callVars,
                       periodVars>>
    BY DEF vTaskPrioritySet, MayCall
  <1>2. UNCHANGED <<program, xTickCount, xNextTaskUnblockTime, uxPendedTicks,
                    uxSchedulerSuspended, pxDelayedTaskList, pxOverflowDelayedTaskList,
                    xSuspendedTaskList, xItemValue, due, xPendingReadyList, xEventList, pc,
                    arg, target, pxPreviousWakeTime, lag, excused>>
    BY <1>1 DEF timeVars, waitVars, eventVars, callVars, periodVars
  <1>3. /\ TypeOK /\ pc \in [Tasks -> Pcs] /\ Self \in Tasks /\ pxCurrentTCB \in Tasks
        /\ uxPriority \in [Tasks -> Prios] /\ uxTopReadyPriority \in Prios
        /\ uxSchedulerSuspended \in Nat
    BY Types, IInvFacts DEF IInv, Self
  <1>4. /\ prio \in [Tasks -> Prios] /\ prio[t] = p /\ p \in Int /\ prio[Idle] = 0
        /\ \A u \in Tasks : u # t => prio[u] = uxPriority[u]
        /\ \A u \in Tasks : prio[u] \in Int /\ uxPriority[u] \in Int
    <2>1. /\ prio \in [Tasks -> Prios] /\ prio[t] = p
          /\ \A u \in Tasks : u # t => prio[u] = uxPriority[u]
      BY <1>3
    <2>2. \A s \in Prios : s \in Int
      BY DEF Prios
    <2>3. prio[Idle] = 0
      BY <1>1, <2>1, TasksAssumption DEF IInv, IdleIsReady
    <2>4. \A u \in Tasks : prio[u] \in Prios /\ uxPriority[u] \in Prios
      BY <1>3, <2>1
    <2> HIDE DEF prio
    <2> QED BY <2>1, <2>2, <2>3, <2>4
  <1>5. Moving' = Moving /\ Delayed' = Delayed
    BY <1>2 DEF Moving, Delayed
  <1>6. Away' = Away
    BY <1>2, <1>5 DEF Away
  <1>7. Placed(pxReadyTasksLists, uxPriority, Away)
    BY DEF IInv, Where
  <1>8. yield \in BOOLEAN
    OBVIOUS
  <1>9. Self \notin Away /\ (xYieldPending \/ \A u \in Tasks : u \notin Away =>
                                                 uxPriority[u] <= uxPriority[Self])
    BY <1>1 DEF IInv, Highest, Steady
  <1> HIDE DEF prio
  <1>10. (\A u \in Tasks : u \notin Away => uxPriority[u] <= uxPriority[Self]) =>
            \/ yield
            \/ \A u \in Tasks : u \notin Away => prio[u] <= prio[Self]
    BY <1>3, <1>4, <1>9
  <1> HIDE DEF yield
  <1>11. ~ (yield /\ uxSchedulerSuspended = 0) =>
            (pc'[Self] \in Steady =>
                 /\ Self \notin Away'
                 /\ \/ xYieldPending \/ yield
                    \/ \A u \in Tasks : u \notin Away' => uxPriority'[u] <= uxPriority'[Self])
    BY <1>1, <1>6, <1>9, <1>10
  <1>12. \E l, top : /\ Placed(l, prio, Away) /\ top \in Prios
                     /\ \A u \in Tasks : u \notin Away => prio[u] <= top
                     /\ Dispatch(l, top, yield, uxSchedulerSuspended)
    <2>1. CASE t \in Away
      <3>1. t \notin Range(pxReadyTasksLists[uxPriority[t]])
        BY <1>3, <1>7, <2>1, PlacedFacts
      <3>2. Dispatch(pxReadyTasksLists, uxTopReadyPriority, yield, uxSchedulerSuspended)
        BY <3>1 DEF vTaskPrioritySet, yield, prio
      <3>3. Placed(pxReadyTasksLists, prio, Away)
        BY <1>3, <1>7, <2>1, RankedPlaced DEF prio
      <3>4. \A u \in Tasks : u \notin Away => prio[u] <= uxTopReadyPriority
        BY <1>4, <2>1 DEF IInv, IdleIsReady
      <3> QED BY <1>3, <3>2, <3>3, <3>4
    <2>2. CASE t \notin Away
      <3> DEFINE bare == RemoveReady(pxReadyTasksLists, t)
                 l == AddReady(bare, prio, q)
                 top == RecordReady(uxTopReadyPriority, prio, q)
      <3>1. t \in Range(pxReadyTasksLists[uxPriority[t]])
        BY <1>3, <1>7, <2>2, PlacedFacts
      <3>2. Dispatch(l, top, yield, uxSchedulerSuspended)
        BY <3>1 DEF vTaskPrioritySet, yield, prio
      <3>3. q \in Seq(Tasks) /\ Range(q) = {t} /\ IsInjective(q)
        BY SingleFacts
      <3> HIDE DEF q
      <3>4. Placed(bare, uxPriority, Away \cup {t})
        BY <1>3, <1>7, RemoveReadyFacts
      <3> HIDE DEF bare
      <3>5. Placed(bare, prio, Away \cup {t})
        <4>1. t \in Away \cup {t}
          OBVIOUS
        <4> QED BY <1>3, <3>4, <4>1, RankedPlaced DEF prio
      <3>6. Placed(l, prio, (Away \cup {t}) \ Range(q))
        <4>1. Range(q) \subseteq Away \cup {t}
          BY <3>3
        <4> QED BY <1>4, <3>3, <3>5, <4>1, AddReadyFacts
      <3>7. (Away \cup {t}) \ Range(q) = Away
        BY <2>2, <3>3
      <3>8. /\ top \in Prios /\ uxTopReadyPriority <= top
            /\ \A u \in Range(q) : prio[u] <= top
        BY <1>3, <1>4, <3>3, RecordReadyFacts
      <3> HIDE DEF l, top
      <3>9. \A u \in Tasks : u \notin Away => prio[u] <= top
        <4>1. uxTopReadyPriority \in Int /\ top \in Int
          BY <1>3, <3>8, PriosFacts
        <4> QED BY <1>4, <3>3, <3>8, <4>1 DEF IInv, IdleIsReady
      <3> QED BY <3>2, <3>6, <3>7, <3>8, <3>9
    <2> QED BY <2>1, <2>2
  <1>13. PICK l, top : /\ Placed(l, prio, Away) /\ top \in Prios
                       /\ \A u \in Tasks : u \notin Away => prio[u] <= top
                       /\ Dispatch(l, top, yield, uxSchedulerSuspended)
    BY <1>12
  <1>14. /\ uxPriority' \in [Tasks -> Prios] /\ Placed(l, uxPriority', Away')
         /\ \A u \in Tasks : u \notin Away' => uxPriority'[u] <= top
         /\ Idle \notin Away' /\ uxPriority'[Idle] = 0
    BY <1>1, <1>4, <1>6, <1>13 DEF IInv, IdleIsReady
  <1>15. /\ Where' /\ IdleIsReady' /\ Highest'
         /\ pxReadyTasksLists' \in [Prios -> Seq(Nodes)]
         /\ uxTopReadyPriority' \in Prios /\ pxCurrentTCB' \in Tasks
         /\ xYieldPending' \in BOOLEAN
         /\ yield /\ uxSchedulerSuspended = 0 => ~ xYieldPending'
         /\ ~ (yield /\ uxSchedulerSuspended = 0) =>
               (xYieldPending' <=> xYieldPending \/ yield) /\ Self' = Self
    BY <1>8, <1>11, <1>13, <1>14, SwitchFacts
  <1>16. program' \in Programs
    BY <1>2 DEF IInv
  <1>17. TypeOK'
    BY <1>2, <1>3, <1>14, <1>15 DEF TypeOK, Ticks, Prios, Nodes, Pcs
  <1>18. Apart'
    BY <1>2, <1>5, <1>6 DEF IInv, Apart
  <1>19. uxSchedulerSuspended # 0 => Self' = Self
    BY <1>15
  <1>20. /\ CallsSound'
         /\ pc'[Self'] = "delayUntil" => pc[Self] = "delayUntil" /\ Self' = Self
    BY <1>2, <1>15, <1>19, CallsStay
  <1>21. NothingPends'
    BY <1>2, <1>15 DEF IInv, NothingPends
  <1>22. DelaysAreExact' /\ OnTime'
    BY <1>2, TimesStay
  <1>23. OnSchedule'
    <2>1. /\ excused \subseteq excused'
          /\ \A u \in Range(xEventList)' \cup Range(xPendingReadyList)' :
                \/ u \in Range(xEventList) \cup Range(xPendingReadyList)
                \/ u \in Tasks /\ due[u] = 0
      BY <1>2
    <2> QED BY <1>2, <1>20, <2>1, ScheduleStays
  <1> QED BY <1>15, <1>16, <1>17, <1>18, <1>20, <1>21, <1>22, <1>23 DEF IInv

(* A tick that is pended, and the end of an inner suspension. *)
LEMMA PendedTickKeeps ==
    IInv /\ UNCHANGED program /\ uxSchedulerSuspended # 0 /\ xTaskIncrementTick => IInv'
  <1> SUFFICES ASSUME IInv, UNCHANGED program, uxSchedulerSuspended # 0, xTaskIncrementTick
               PROVE  IInv'
    OBVIOUS
  <1>1. /\ uxPendedTicks < MaxPended /\ uxPendedTicks' = uxPendedTicks + 1
        /\ xYieldPending' = TRUE
        /\ UNCHANGED <<xTickCount, xNextTaskUnblockTime, pxDelayedTaskList,
                       pxOverflowDelayedTaskList, due, lag, xEventList,
                       pxReadyTasksLists, uxTopReadyPriority, pxCurrentTCB,
                       uxSchedulerSuspended, uxPriority, xSuspendedTaskList,
                       xItemValue, xPendingReadyList, callVars,
                       pxPreviousWakeTime, excused>>
    BY DEF xTaskIncrementTick
  <1>2. UNCHANGED <<waitVars, periodVars>>
    BY <1>1 DEF waitVars, periodVars
  <1>3. uxPendedTicks' \in 0..MaxPended
    <2>1. uxPendedTicks \in 0..MaxPended
      BY Types DEF IInv
    <2> QED BY <1>1, <2>1, BoundsAssumption
  <1>4. /\ xEventList' \in Seq(Tasks) /\ IsInjective(xEventList)'
        /\ xPendingReadyList' \in Seq(Tasks) /\ IsInjective(xPendingReadyList)'
        /\ Range(xEventList)' \cap Range(xPendingReadyList)' = {}
        /\ Range(xEventList)' \cup Range(xPendingReadyList)' =
               Range(xEventList) \cup Range(xPendingReadyList)
    BY <1>1, Types DEF IInv, Apart
  <1>5. /\ xYieldPending' \in BOOLEAN /\ (xYieldPending => xYieldPending')
        /\ \A t \in Range(xEventList)' \cup Range(xPendingReadyList)' :
              \/ t \in Range(xEventList) \cup Range(xPendingReadyList)
              \/ t \in xSuspendedTaskList
    BY <1>1, <1>4
  <1> QED BY <1>1, <1>2, <1>3, <1>4, <1>5, OnlyPends

LEMMA InnerResumeKeeps ==
    IInv /\ UNCHANGED program /\ uxSchedulerSuspended # 1 /\ xTaskResumeAll => IInv'
  <1> SUFFICES ASSUME IInv, UNCHANGED program, uxSchedulerSuspended # 1, xTaskResumeAll
               PROVE  IInv'
    OBVIOUS
  <1>1. PICK from \in {"abortDone", "run"} : ResumeAll(from, "run")
    <2>1. ~ ResumeAll("resumeAll", "yield")
      BY DEF ResumeAll, IInv, CallsSound
    <2> QED BY <2>1 DEF xTaskResumeAll
  <1>2. /\ pc[Self] = from /\ uxSchedulerSuspended > 0
        /\ uxSchedulerSuspended' = uxSchedulerSuspended - 1
        /\ arg' = 0 /\ target' = Idle /\ pc' = [pc EXCEPT ![Self] = "run"]
        /\ UNCHANGED <<timeVars, switchVars, waitVars, eventVars, lag, uxPriority,
                       pxPreviousWakeTime, excused>>
    BY <1>1 DEF ResumeAll, Goto
  <1>3. /\ UNCHANGED <<program, xTickCount, uxPendedTicks, xNextTaskUnblockTime, switchVars,
                       uxPriority, waitVars, eventVars, periodVars>>
        /\ arg' \in Ticks /\ target' \in Tasks
    BY <1>2, TicksFacts, TasksAssumption DEF timeVars, periodVars
  <1>4. /\ xNextTaskUnblockTime' \in Ticks
        /\ \A t \in Range(pxDelayedTaskList) : xNextTaskUnblockTime' <= xItemValue[t]
    BY <1>3, Types DEF IInv, OnTime
  <1>5. uxSchedulerSuspended' \in 0..MaxNesting /\ uxSchedulerSuspended' # 0
    <2>1. uxSchedulerSuspended \in 0..MaxNesting
      BY Types DEF IInv
    <2> QED BY <1>2, <2>1, BoundsAssumption
  <1>6. /\ "run" \in Pcs /\ "run" \notin SuspendedCalls /\ pc[Self] # "abortEvent"
        /\ pc[Self] \in Steady
    BY <1>2 DEF Pcs, SuspendedCalls, Steady
  <1> QED BY <1>2, <1>3, <1>4, <1>5, <1>6, OnlyTheCall

-----------------------------------------------------------------------------
(* Tasks that block.  First the arithmetic of the tick counter.            *)
LEMMA RoundFacts ==
    ASSUME NEW a \in Ticks, NEW n \in Ticks
    PROVE  /\ (a + n) % TickMod = IF a + n < TickMod THEN a + n ELSE a + n - TickMod
           /\ (a - n) % TickMod = IF n <= a THEN a - n ELSE a - n + TickMod
           /\ (a + n) % TickMod \in Ticks /\ (a - n) % TickMod \in Ticks
  <1>1. /\ a \in Int /\ n \in Int /\ TickMod \in Nat /\ 0 <= a /\ a < TickMod
        /\ 0 <= n /\ n < TickMod
    BY TicksFacts
  <1>6. (a + n) % TickMod = IF a + n < TickMod THEN a + n ELSE a + n - TickMod
    <2>1. CASE a + n < TickMod
      <3>1. (a + n) % TickMod = a + n
        BY <1>1, <2>1
      <3> QED BY <2>1, <3>1
    <2>2. CASE ~ (a + n < TickMod)
      <3>1. (a + n) % TickMod = a + n - TickMod
        BY <1>1, <2>2
      <3> QED BY <2>2, <3>1
    <2> QED BY <2>1, <2>2
  <1>7. (a - n) % TickMod = IF n <= a THEN a - n ELSE a - n + TickMod
    <2>1. CASE n <= a
      <3>1. (a - n) % TickMod = a - n
        BY <1>1, <2>1
      <3> QED BY <2>1, <3>1
    <2>2. CASE ~ (n <= a)
      <3>1. (a - n) % TickMod = a - n + TickMod
        BY <1>1, <2>2
      <3> QED BY <2>2, <3>1
    <2> QED BY <2>1, <2>2
  <1> DEFINE later == (a + n) % TickMod
             earlier == (a - n) % TickMod
  <1>8. /\ later = IF a + n < TickMod THEN a + n ELSE a + n - TickMod
        /\ earlier = IF n <= a THEN a - n ELSE a - n + TickMod
    BY <1>6, <1>7
  <1> HIDE DEF later, earlier
  <1>9. later \in Ticks /\ earlier \in Ticks
    BY <1>1, <1>8, TicksFacts
  <1> QED BY <1>6, <1>7, <1>9 DEF later, earlier

(* vListInsert keeps a delayed list sorted. *)
LEMMA InsertSorted ==
    ASSUME xItemValue \in [Tasks -> Ticks], NEW q \in Seq(Tasks), Sorted(q),
           NEW t \in Tasks, t \notin Range(q), NEW time \in Ticks,
           NEW value, value = [xItemValue EXCEPT ![t] = time]
    PROVE  LET r == InsertByTime(q, t, time)
           IN  \A i, j \in DOMAIN r : i <= j => value[r[i]] <= value[r[j]]
  <1> DEFINE later == {u \in Tasks : xItemValue[u] > time}
             r == InsertByTime(q, t, time)
  <1>1. PICK k \in 1..Len(q) + 1 :
            /\ r = InsertAt(q, k, t)
            /\ k \in DOMAIN q => q[k] \in later
            /\ \A j \in 1..k - 1 : q[j] \notin later
    <2> HIDE DEF later
    <2>1. r = InsertBefore(q, t, later)
      BY DEF InsertByTime, later
    <2> HIDE DEF r
    <2> QED BY <2>1, InsertBeforePlace
  <1>2. /\ DOMAIN q = 1..Len(q) /\ Len(q) \in Nat /\ k \in Int
        /\ \A j \in DOMAIN q : q[j] \in Tasks /\ q[j] # t /\ q[j] \in Range(q)
    BY DEF Range
  <1>3. DOMAIN r = 1..Len(q) + 1
        /\ \A j \in DOMAIN r : r[j] = IF j < k THEN q[j] ELSE IF j = k THEN t ELSE q[j - 1]
    <2>1. /\ InsertAt(q, k, t) \in Seq(Tasks) /\ Len(InsertAt(q, k, t)) = Len(q) + 1
          /\ \A j \in DOMAIN InsertAt(q, k, t) :
                InsertAt(q, k, t)[j] = IF j < k THEN q[j] ELSE IF j = k THEN t ELSE q[j - 1]
      BY InsertAtPlaces
    <2> HIDE DEF r
    <2> QED BY <1>1, <2>1
  <1> HIDE DEF r
  <1>4. /\ \A j \in DOMAIN q : value[q[j]] = xItemValue[q[j]] /\ xItemValue[q[j]] \in Int
        /\ value[t] = time /\ time \in Int
    <2>1. \A u \in Tasks : xItemValue[u] \in Int
      BY TicksFacts
    <2> QED BY <1>2, <2>1, TicksFacts
  <1>5. \A i, j \in DOMAIN q : i <= j => value[q[i]] <= value[q[j]]
    BY <1>4 DEF Sorted
  <1>6. \A j \in DOMAIN q : j < k => value[q[j]] <= time
    BY <1>1, <1>2, <1>4
  <1>7. \A j \in DOMAIN q : k <= j => time <= value[q[j]]
    <2> TAKE j \in DOMAIN q
    <2> HAVE k <= j
    <2>1. k \in DOMAIN q
      BY <1>2
    <2>2. xItemValue[q[k]] > time
      BY <1>1, <2>1
    <2>3. value[q[k]] <= value[q[j]]
      BY <1>5, <2>1
    <2> QED BY <1>4, <2>1, <2>2, <2>3
  <1>8. ASSUME NEW i \in DOMAIN r, NEW j \in DOMAIN r, i <= j
        PROVE  value[r[i]] <= value[r[j]]
    <2>1. i \in 1..Len(q) + 1 /\ j \in 1..Len(q) + 1 /\ i \in Int /\ j \in Int
      BY <1>3
    <2>2. CASE i < k /\ j < k
      <3>1. i \in DOMAIN q /\ j \in DOMAIN q /\ r[i] = q[i] /\ r[j] = q[j]
        BY <1>2, <1>3, <2>1, <2>2
      <3> QED BY <1>5, <1>8, <3>1
    <2>3. CASE i < k /\ j = k
      <3>1. i \in DOMAIN q /\ r[i] = q[i] /\ r[j] = t
        BY <1>2, <1>3, <2>1, <2>3
      <3> QED BY <1>4, <1>6, <2>3, <3>1
    <2>4. CASE i < k /\ k < j
      <3>1. i \in DOMAIN q /\ r[i] = q[i] /\ j - 1 \in DOMAIN q /\ r[j] = q[j - 1] /\ i <= j - 1
        BY <1>2, <1>3, <2>1, <2>4
      <3> QED BY <1>5, <3>1
    <2>5. CASE i = k /\ j = k
      BY <1>3, <1>4, <2>5
    <2>6. CASE i = k /\ k < j
      <3>1. r[i] = t /\ j - 1 \in DOMAIN q /\ r[j] = q[j - 1] /\ k <= j - 1
        BY <1>2, <1>3, <2>1, <2>6
      <3> QED BY <1>4, <1>7, <3>1
    <2>7. CASE k < i
      <3>1. /\ i - 1 \in DOMAIN q /\ r[i] = q[i - 1] /\ j - 1 \in DOMAIN q
            /\ r[j] = q[j - 1] /\ i - 1 <= j - 1
        BY <1>2, <1>3, <1>8, <2>1, <2>7
      <3> QED BY <1>5, <3>1
    <2> QED BY <1>2, <1>8, <2>1, <2>2, <2>3, <2>4, <2>5, <2>6, <2>7
  <1> QED BY <1>8 DEF r

(* prvAddCurrentTaskToDelayedList: the running task leaves its ready list   *)
(* and is delayed for n ticks, or suspended if it waits forever.            *)
LEMMA BlockFacts ==
    ASSUME IInv, Self \notin Away, NEW n \in Ticks, n > 0, NEW forever \in BOOLEAN,
           AddCurrentTaskToDelayedList(n, forever), uxPriority' = uxPriority
    PROVE  /\ UNCHANGED <<xTickCount, uxPendedTicks, pxCurrentTCB, uxTopReadyPriority,
                          xYieldPending>>
           /\ pxReadyTasksLists' \in [Prios -> Seq(Nodes)]
           /\ Placed(pxReadyTasksLists', uxPriority', Away \cup {Self})
           /\ pxDelayedTaskList' \in Seq(Tasks) /\ IsInjective(pxDelayedTaskList)'
           /\ pxOverflowDelayedTaskList' \in Seq(Tasks)
           /\ IsInjective(pxOverflowDelayedTaskList)'
           /\ xItemValue' \in [Tasks -> Ticks] /\ due' \in [Tasks -> Ticks]
           /\ xNextTaskUnblockTime' \in Ticks /\ xSuspendedTaskList' \subseteq Tasks
           /\ Delayed' \cup xSuspendedTaskList' = Delayed \cup xSuspendedTaskList \cup {Self}
           /\ Delayed' \cap xSuspendedTaskList' = {}
           /\ \A u \in Tasks : u # Self => due'[u] = due[u]
           /\ due'[Self] = IF n = portMAX_DELAY /\ forever THEN 0 ELSE n
           /\ DelaysAreExact' /\ OnTime'
  <1> DEFINE time == (xTickCount + n) % TickMod
  <1>1. /\ pxReadyTasksLists' = RemoveReady(pxReadyTasksLists, Self)
        /\ UNCHANGED <<xTickCount, uxPendedTicks, pxCurrentTCB, uxTopReadyPriority,
                       xYieldPending>>
    BY DEF AddCurrentTaskToDelayedList
  <1>2. /\ Self \in Tasks /\ uxPriority \in [Tasks -> Prios]
        /\ xTickCount \in Ticks /\ xNextTaskUnblockTime \in Ticks
        /\ xItemValue \in [Tasks -> Ticks] /\ due \in [Tasks -> Ticks]
        /\ xSuspendedTaskList \subseteq Tasks
        /\ pxDelayedTaskList \in Seq(Tasks) /\ IsInjective(pxDelayedTaskList)
        /\ pxOverflowDelayedTaskList \in Seq(Tasks) /\ IsInjective(pxOverflowDelayedTaskList)
        /\ Sorted(pxDelayedTaskList) /\ Sorted(pxOverflowDelayedTaskList)
        /\ Delayed \subseteq Tasks /\ Delayed \cap xSuspendedTaskList = {}
    BY Types, IInvFacts DEF IInv, Self, Apart, OnTime
  <1>3. /\ Self \notin Delayed /\ Self \notin xSuspendedTaskList /\ due[Self] = 0
        /\ Self \notin Range(pxDelayedTaskList) /\ Self \notin Range(pxOverflowDelayedTaskList)
    BY <1>2, IInvFacts DEF Away, Delayed
  <1>4. /\ Placed(pxReadyTasksLists', uxPriority', Away \cup {Self})
        /\ pxReadyTasksLists' \in [Prios -> Seq(Nodes)]
    <2>1. Placed(pxReadyTasksLists, uxPriority, Away)
      BY DEF IInv, Where
    <2>2. Placed(pxReadyTasksLists', uxPriority', Away \cup {Self})
      BY <1>1, <1>2, <2>1, RemoveReadyFacts
    <2> QED BY <2>2 DEF Placed, Rings
  <1>5. CASE n = portMAX_DELAY /\ forever
    <2>1. /\ xSuspendedTaskList' = xSuspendedTaskList \cup {Self}
          /\ UNCHANGED <<xItemValue, pxDelayedTaskList, due, pxOverflowDelayedTaskList,
                         xNextTaskUnblockTime>>
      BY <1>5 DEF AddCurrentTaskToDelayedList
    <2>2. Delayed' = Delayed
      BY <2>1 DEF Delayed
    <2>3. DelaysAreExact' /\ OnTime'
      BY <1>1, <2>1, TimesStay
    <2> QED BY <1>1, <1>2, <1>3, <1>4, <1>5, <2>1, <2>2, <2>3
  <1>6. CASE ~ (n = portMAX_DELAY /\ forever)
    <2>1. /\ xItemValue' = [xItemValue EXCEPT ![Self] = time]
          /\ due' = [due EXCEPT ![Self] = n] /\ xSuspendedTaskList' = xSuspendedTaskList
      BY <1>6 DEF AddCurrentTaskToDelayedList
    <2>2. /\ time = IF xTickCount + n < TickMod THEN xTickCount + n ELSE xTickCount + n - TickMod
          /\ time \in Ticks
      BY <1>2, RoundFacts
    <2>3. IF time < xTickCount
          THEN /\ pxOverflowDelayedTaskList' =
                      InsertByTime(pxOverflowDelayedTaskList, Self, time)
               /\ UNCHANGED <<pxDelayedTaskList, xNextTaskUnblockTime>>
          ELSE /\ pxDelayedTaskList' = InsertByTime(pxDelayedTaskList, Self, time)
               /\ xNextTaskUnblockTime' = IF time < xNextTaskUnblockTime THEN time
                                          ELSE xNextTaskUnblockTime
               /\ UNCHANGED pxOverflowDelayedTaskList
      BY <1>6 DEF AddCurrentTaskToDelayedList
    <2> HIDE DEF time
    <2>4. /\ due' \in [Tasks -> Ticks] /\ xItemValue' \in [Tasks -> Ticks]
          /\ due'[Self] = n /\ \A u \in Tasks : u # Self => due'[u] = due[u]
          /\ xItemValue'[Self] = time
          /\ \A u \in Tasks : u # Self => xItemValue'[u] = xItemValue[u]
      BY <1>2, <2>1, <2>2
    <2>5. /\ TickMod \in Int /\ xTickCount \in Int /\ 0 <= xTickCount /\ xTickCount < TickMod
          /\ n \in Int /\ n < TickMod /\ time \in Int /\ xNextTaskUnblockTime \in Int
          /\ \A u \in Tasks : due[u] \in Int /\ xItemValue[u] \in Int
      BY <1>2, <2>2, TicksFacts
    <2>6. ASSUME NEW q \in {pxDelayedTaskList, pxOverflowDelayedTaskList}
          PROVE  LET r == InsertByTime(q, Self, time)
                 IN  /\ r \in Seq(Tasks) /\ IsInjective(r) /\ Range(r) = Range(q) \cup {Self}
                     /\ \A i, j \in DOMAIN r : i <= j => xItemValue'[r[i]] <= xItemValue'[r[j]]
      <3> DEFINE later == {u \in Tasks : xItemValue[u] > time}
                 r == InsertByTime(q, Self, time)
      <3>1. q \in Seq(Tasks) /\ IsInjective(q) /\ Sorted(q) /\ Self \notin Range(q)
        BY <1>2, <1>3
      <3>2. r = InsertBefore(q, Self, later)
        BY DEF InsertByTime
      <3>3. \A i, j \in DOMAIN r : i <= j => xItemValue'[r[i]] <= xItemValue'[r[j]]
        BY <1>2, <2>1, <2>2, <3>1, InsertSorted
      <3> HIDE DEF r, later
      <3>4. r \in Seq(Tasks) /\ Range(r) = Range(q) \cup {Self} /\ IsInjective(r)
        BY <1>2, <3>1, <3>2, InsertBeforeFacts
      <3> QED BY <3>3, <3>4 DEF r
    <2>7. \A u \in Range(pxDelayedTaskList) \cup Range(pxOverflowDelayedTaskList) :
              u \in Tasks /\ u # Self
      BY <1>2, <1>3 DEF Delayed
    <2>8. /\ \A u \in Range(pxDelayedTaskList) :
                /\ xItemValue'[u] = xTickCount' + due'[u]
                /\ xNextTaskUnblockTime <= xItemValue'[u]
          /\ \A u \in Range(pxOverflowDelayedTaskList) :
                xItemValue'[u] + TickMod = xTickCount' + due'[u]
      BY <1>1, <2>4, <2>7 DEF IInv, OnTime
    <2>9. \A q \in {pxDelayedTaskList, pxOverflowDelayedTaskList} :
             \A i, j \in DOMAIN q : i <= j => xItemValue'[q[i]] <= xItemValue'[q[j]]
      <3> TAKE q \in {pxDelayedTaskList, pxOverflowDelayedTaskList}
      <3>1. q \in Seq(Tasks) /\ Sorted(q) /\ Self \notin Range(q)
        BY <1>2, <1>3
      <3>2. \A i \in DOMAIN q : q[i] \in Tasks /\ q[i] # Self
        BY <3>1 DEF Range
      <3> QED BY <2>4, <3>1, <3>2 DEF Sorted
    <2>10. CASE time < xTickCount
      <3> DEFINE r == InsertByTime(pxOverflowDelayedTaskList, Self, time)
      <3>1. /\ pxOverflowDelayedTaskList' = r
            /\ pxDelayedTaskList' = pxDelayedTaskList
            /\ xNextTaskUnblockTime' = xNextTaskUnblockTime
        BY <2>3, <2>10
      <3>2. /\ r \in Seq(Tasks) /\ IsInjective(r)
            /\ Range(r) = Range(pxOverflowDelayedTaskList) \cup {Self}
            /\ \A i, j \in DOMAIN r : i <= j => xItemValue'[r[i]] <= xItemValue'[r[j]]
        BY <2>6
      <3> HIDE DEF r
      <3>3. Delayed' = Delayed \cup {Self}
        BY <3>1, <3>2 DEF Delayed
      <3>4. DelaysAreExact'
        <4>1. \A u \in Tasks : u \in Delayed' <=> due'[u] > 0
          BY <2>4, <3>3 DEF IInv, DelaysAreExact
        <4> QED BY <4>1 DEF DelaysAreExact
      <3>5. OnTime'
        <4>1. xItemValue'[Self] + TickMod = xTickCount' + due'[Self]
          BY <1>1, <2>2, <2>4, <2>5, <2>10
        <4>2. Sorted(pxDelayedTaskList)' /\ Sorted(pxOverflowDelayedTaskList)'
          BY <2>9, <3>1, <3>2 DEF Sorted
        <4> QED BY <2>8, <3>1, <3>2, <4>1, <4>2 DEF OnTime
      <3> QED BY <1>1, <1>2, <1>3, <1>4, <1>6, <2>1, <2>4, <3>1, <3>2, <3>3, <3>4, <3>5
    <2>11. CASE ~ (time < xTickCount)
      <3> DEFINE r == InsertByTime(pxDelayedTaskList, Self, time)
      <3>1. /\ pxDelayedTaskList' = r
            /\ pxOverflowDelayedTaskList' = pxOverflowDelayedTaskList
            /\ xNextTaskUnblockTime' = IF time < xNextTaskUnblockTime THEN time
                                       ELSE xNextTaskUnblockTime
        BY <2>3, <2>11
      <3>2. /\ r \in Seq(Tasks) /\ IsInjective(r)
            /\ Range(r) = Range(pxDelayedTaskList) \cup {Self}
            /\ \A i, j \in DOMAIN r : i <= j => xItemValue'[r[i]] <= xItemValue'[r[j]]
        BY <2>6
      <3> HIDE DEF r
      <3>3. Delayed' = Delayed \cup {Self}
        BY <3>1, <3>2 DEF Delayed
      <3>4. DelaysAreExact'
        <4>1. \A u \in Tasks : u \in Delayed' <=> due'[u] > 0
          BY <2>4, <3>3 DEF IInv, DelaysAreExact
        <4> QED BY <4>1 DEF DelaysAreExact
      <3>5. /\ xNextTaskUnblockTime' \in Ticks /\ xNextTaskUnblockTime' <= time
            /\ xNextTaskUnblockTime' <= xNextTaskUnblockTime /\ xNextTaskUnblockTime' \in Int
        BY <1>2, <2>2, <2>5, <3>1
      <3>6. OnTime'
        <4>1. xItemValue'[Self] = xTickCount' + due'[Self]
          BY <1>1, <2>2, <2>4, <2>5, <2>11
        <4>2. Sorted(pxDelayedTaskList)' /\ Sorted(pxOverflowDelayedTaskList)'
          BY <2>9, <3>1, <3>2 DEF Sorted
        <4>3. \A u \in Range(pxDelayedTaskList)' :
                  /\ xItemValue'[u] = xTickCount' + due'[u]
                  /\ xNextTaskUnblockTime' <= xItemValue'[u]
          BY <2>4, <2>5, <2>7, <2>8, <3>1, <3>2, <3>5, <4>1
        <4> QED BY <2>8, <3>1, <4>2, <4>3 DEF OnTime
      <3> QED BY <1>1, <1>2, <1>3, <1>4, <1>6, <2>1, <2>4, <3>1, <3>2, <3>3, <3>4, <3>5, <3>6
    <2> QED BY <2>10, <2>11
  <1> QED BY <1>5, <1>6

(* A call that blocks, or finds that it need not, goes on to resume the     *)
(* scheduler.                                                               *)
LEMMA BlocksKeep ==
    ASSUME IInv, pc[Self] \in {"delay", "delayUntil", "wait"},
           pc' = [pc EXCEPT ![Self] = "resumeAll"],
           NEW n \in Ticks, n > 0, NEW forever \in BOOLEAN,
           AddCurrentTaskToDelayedList(n, forever),
           UNCHANGED <<program, uxSchedulerSuspended, uxPriority, xPendingReadyList, arg,
                       target>>,
           xEventList' \in Seq(Tasks), IsInjective(xEventList)',
           Range(xEventList)' \subseteq Range(xEventList) \cup {Self},
           pxPreviousWakeTime' \in [Tasks -> Ticks], excused' \subseteq Tasks,
           lag' \in [Tasks -> -TickMod..TickMod], OnSchedule'
    PROVE  IInv'
  <1>1. /\ TypeOK /\ pc \in [Tasks -> Pcs] /\ Self \in Tasks
        /\ xPendingReadyList \in Seq(Tasks)
    BY Types DEF IInv, Self
  <1>2. /\ uxSchedulerSuspended = 1 /\ Self # Idle /\ Self \notin Away /\ Moving = {}
    <2>1. pc[Self] \in Steady /\ pc[Self] # "abortEvent" /\ pc[Self] # "run"
      BY DEF Steady
    <2> QED BY <1>1, <2>1, IInvFacts DEF IInv, CallsSound, Highest
  <1>3. /\ UNCHANGED <<xTickCount, uxPendedTicks, pxCurrentTCB, uxTopReadyPriority,
                       xYieldPending>>
        /\ pxReadyTasksLists' \in [Prios -> Seq(Nodes)]
        /\ Placed(pxReadyTasksLists', uxPriority', Away \cup {Self})
        /\ pxDelayedTaskList' \in Seq(Tasks) /\ IsInjective(pxDelayedTaskList)'
        /\ pxOverflowDelayedTaskList' \in Seq(Tasks)
        /\ IsInjective(pxOverflowDelayedTaskList)'
        /\ xItemValue' \in [Tasks -> Ticks] /\ due' \in [Tasks -> Ticks]
        /\ xNextTaskUnblockTime' \in Ticks /\ xSuspendedTaskList' \subseteq Tasks
        /\ Delayed' \cup xSuspendedTaskList' = Delayed \cup xSuspendedTaskList \cup {Self}
        /\ Delayed' \cap xSuspendedTaskList' = {}
        /\ DelaysAreExact' /\ OnTime'
    BY <1>2, BlockFacts
  <1>4. Self' = Self
    BY <1>3 DEF Self
  <1>5. /\ pc'[Self] = "resumeAll" /\ pc' \in [Tasks -> Pcs]
        /\ \A u \in Tasks : u # Self => pc'[u] = pc[u]
    BY <1>1 DEF Pcs
  <1>6. Moving' = {}
    <2>1. \A u \in Tasks : pc[u] = "abortEvent" => u = Self
      BY DEF IInv, CallsSound, SuspendedCalls
    <2> QED BY <1>5, <2>1 DEF Moving
  <1>7. Away' = Away \cup {Self}
    BY <1>2, <1>3, <1>6 DEF Away
  <1>8. program' \in Programs /\ Where' /\ IdleIsReady'
    BY <1>2, <1>3, <1>7 DEF IInv, Where, IdleIsReady
  <1>9. TypeOK'
    BY <1>1, <1>3, <1>5 DEF TypeOK, Ticks, Prios, Nodes, Pcs
  <1>10. Apart'
    <2>1. Self \notin Range(xPendingReadyList)
      BY <1>2 DEF IInv, Apart
    <2> QED BY <1>3, <1>6, <1>7, <2>1 DEF IInv, Apart
  <1>11. CallsSound'
    <2>1. \A u \in Tasks : pc'[u] \in SuspendedCalls => u = Self' /\ uxSchedulerSuspended' > 0
      BY <1>2, <1>4, <1>5 DEF IInv, CallsSound
    <2>2. pc'[Idle] = "run"
      BY <1>2, <1>5, TasksAssumption DEF IInv, CallsSound
    <2> QED BY <1>2, <1>4, <1>5, <2>1, <2>2 DEF CallsSound
  <1>12. NothingPends' /\ Highest'
    BY <1>2, <1>4, <1>5 DEF NothingPends, Highest, Steady
  <1> QED BY <1>3, <1>8, <1>9, <1>10, <1>11, <1>12 DEF IInv

(* The schedule, when the running task's delay begins. *)
LEMMA ScheduleBlocks ==
    ASSUME IInv, Self \notin Delayed, pc'[Self'] # "delayUntil",
           UNCHANGED <<program, xTickCount, lag, pxPreviousWakeTime, excused,
                       xPendingReadyList>>,
           due' \in [Tasks -> Ticks], \A u \in Tasks : u # Self => due'[u] = due[u],
           Range(xEventList)' \subseteq Range(xEventList) \cup {Self}
    PROVE  OnSchedule'
  <1>1. /\ Self \in Tasks /\ due[Self] = 0
        /\ \A t \in Tasks : lag[t] \in Int /\ due[t] \in Int /\ due'[t] \in Int /\ due'[t] >= 0
    BY Types, IInvFacts, TicksFacts DEF IInv, Self
  <1>2. \A t \in Tasks : t \notin excused => lag[t] + due[t] >= 0
    BY DEF IInv, OnSchedule
  <1>3. \A t \in Tasks : t \notin excused' => lag'[t] + due'[t] >= 0
    BY <1>1, <1>2
  <1>4. \A t \in Range(xEventList)' \cup Range(xPendingReadyList)' :
            t \notin excused' => lag'[t] >= 0
    BY <1>1, <1>2 DEF IInv, OnSchedule
  <1>5. ScheduleAt(xTickCount, 0)'
    BY DEF IInv, OnSchedule, ScheduleAt
  <1> QED BY <1>3, <1>4, <1>5 DEF OnSchedule

LEMMA vTaskDelayKeeps ==
    IInv /\ UNCHANGED program /\ vTaskDelay => IInv'
  <1> SUFFICES ASSUME IInv, UNCHANGED program, vTaskDelay PROVE IInv'
    OBVIOUS
  <1>1. /\ pc[Self] = "delay" /\ AddCurrentTaskToDelayedList(arg, FALSE)
        /\ pc' = [pc EXCEPT ![Self] = "resumeAll"]
        /\ UNCHANGED <<uxSchedulerSuspended, uxPriority, xPendingReadyList, xEventList, arg,
                       target, pxPreviousWakeTime, lag, excused>>
    BY DEF vTaskDelay, Goto, eventVars, periodVars
  <1>2. arg \in Ticks /\ arg > 0 /\ Self \notin Away /\ FALSE \in BOOLEAN
    BY <1>1, DelaysFacts DEF IInv, CallsSound, Highest, Steady
  <1>3. /\ due' \in [Tasks -> Ticks] /\ \A u \in Tasks : u # Self => due'[u] = due[u]
        /\ UNCHANGED <<xTickCount, pxCurrentTCB>>
    BY <1>1, <1>2, BlockFacts
  <1>4. Self \notin Delayed /\ pc'[Self'] # "delayUntil"
    <2>1. pc \in [Tasks -> Pcs] /\ Self \in Tasks
      BY Types DEF IInv, Self
    <2> QED BY <1>1, <1>2, <1>3, <2>1 DEF Away, Self
  <1>5. OnSchedule'
    BY <1>1, <1>3, <1>4, ScheduleBlocks
  <1>6. /\ xEventList' \in Seq(Tasks) /\ IsInjective(xEventList)'
        /\ pxPreviousWakeTime' \in [Tasks -> Ticks] /\ excused' \subseteq Tasks
        /\ lag' \in [Tasks -> -TickMod..TickMod]
    BY <1>1, Types DEF IInv, Apart
  <1> QED BY <1>1, <1>2, <1>5, <1>6, BlocksKeep

LEMMA vTaskPlaceOnEventListKeeps ==
    IInv /\ UNCHANGED program /\ vTaskPlaceOnEventList => IInv'
  <1> SUFFICES ASSUME IInv, UNCHANGED program, vTaskPlaceOnEventList PROVE IInv'
    OBVIOUS
  <1> DEFINE behind == {u \in Tasks : uxPriority[u] < uxPriority[Self]}
  <1>1. /\ pc[Self] = "wait" /\ AddCurrentTaskToDelayedList(arg, TRUE)
        /\ pc' = [pc EXCEPT ![Self] = "resumeAll"]
        /\ xEventList' = InsertBefore(xEventList, Self, behind)
        /\ UNCHANGED <<uxSchedulerSuspended, uxPriority, xPendingReadyList, arg, target,
                       pxPreviousWakeTime, lag, excused>>
    BY DEF vTaskPlaceOnEventList, Goto, InsertByPriority, periodVars
  <1> HIDE DEF behind
  <1>2. arg \in Ticks /\ arg > 0 /\ Self \notin Away /\ TRUE \in BOOLEAN
    BY <1>1, DelaysFacts DEF IInv, CallsSound, Highest, Steady
  <1>3. /\ due' \in [Tasks -> Ticks] /\ \A u \in Tasks : u # Self => due'[u] = due[u]
        /\ UNCHANGED <<xTickCount, pxCurrentTCB>>
    BY <1>1, <1>2, BlockFacts
  <1>4. /\ pc \in [Tasks -> Pcs] /\ Self \in Tasks
        /\ xEventList \in Seq(Tasks) /\ IsInjective(xEventList) /\ Self \notin Range(xEventList)
    BY <1>2, Types DEF IInv, Self, Apart
  <1>5. /\ xEventList' \in Seq(Tasks) /\ IsInjective(xEventList)'
        /\ Range(xEventList)' = Range(xEventList) \cup {Self}
    BY <1>1, <1>4, InsertBeforeFacts
  <1>6. Self \notin Delayed /\ pc'[Self'] # "delayUntil"
    BY <1>1, <1>2, <1>3, <1>4 DEF Away, Self
  <1>7. OnSchedule'
    BY <1>1, <1>3, <1>5, <1>6, ScheduleBlocks
  <1>8. /\ pxPreviousWakeTime' \in [Tasks -> Ticks] /\ excused' \subseteq Tasks
        /\ lag' \in [Tasks -> -TickMod..TickMod]
    BY <1>1, Types DEF IInv
  <1> QED BY <1>1, <1>2, <1>5, <1>7, <1>8, BlocksKeep

(* vTaskDelayUntil: the wake time lies ahead exactly if more than the ticks *)
(* since the last one remain of the increment, and then the delay is what   *)
(* remains, wherever the counter wraps.                                     *)
LEMMA PeriodFacts ==
    ASSUME NEW previous \in Ticks, xTickCount \in Ticks,
           NEW late \in Increment - TickMod..TickMod - 1,
           previous + late - xTickCount \in {-TickMod, 0, TickMod}
    PROVE  LET time == (previous + Increment) % TickMod
               n == (time - xTickCount) % TickMod
           IN  /\ time \in Ticks /\ n \in Ticks
               /\ time + (late - Increment) - xTickCount \in {-TickMod, 0, TickMod}
               /\ ShouldDelay(previous, time) => n > 0 /\ (late >= 0 => n = Increment - late)
               /\ ~ ShouldDelay(previous, time) => late - Increment >= 0 \/ late < 0
  <1> DEFINE time == (previous + Increment) % TickMod
             n == (time - xTickCount) % TickMod
  <1>1. Increment \in Ticks /\ Increment > 0 /\ Increment \in Int
    BY IncrementAssumption, TicksFacts
  <1>2. /\ time = IF previous + Increment < TickMod THEN previous + Increment
                  ELSE previous + Increment - TickMod
        /\ time \in Ticks
    BY <1>1, RoundFacts
  <1> HIDE DEF time
  <1>3. /\ n = IF xTickCount <= time THEN time - xTickCount ELSE time - xTickCount + TickMod
        /\ n \in Ticks
    BY <1>2, RoundFacts
  <1> HIDE DEF n
  <1>4. /\ previous \in Int /\ 0 <= previous /\ previous < TickMod
        /\ xTickCount \in Int /\ 0 <= xTickCount /\ xTickCount < TickMod
        /\ time \in Int /\ 0 <= time /\ time < TickMod /\ TickMod \in Int /\ TickMod > 1
        /\ late \in Int /\ Increment - TickMod <= late /\ late <= TickMod - 1
        /\ Increment < TickMod /\ n \in Int
    BY <1>1, <1>2, <1>3, TicksFacts
  <1>5. \/ previous + late - xTickCount = -TickMod
        \/ previous + late - xTickCount = 0
        \/ previous + late - xTickCount = TickMod
    OBVIOUS
  <1>6. \/ time + (late - Increment) - xTickCount = -TickMod
        \/ time + (late - Increment) - xTickCount = 0
        \/ time + (late - Increment) - xTickCount = TickMod
    BY <1>1, <1>2, <1>4, <1>5
  <1>7. ShouldDelay(previous, time) => n > 0 /\ (late >= 0 => n = Increment - late)
    BY <1>1, <1>2, <1>3, <1>4, <1>5 DEF ShouldDelay
  <1>8. ~ ShouldDelay(previous, time) => late - Increment >= 0 \/ late < 0
    BY <1>1, <1>2, <1>3, <1>4, <1>5 DEF ShouldDelay
  <1> QED BY <1>2, <1>3, <1>6, <1>7, <1>8 DEF time, n

LEMMA vTaskDelayUntilKeeps ==
    IInv /\ UNCHANGED program /\ vTaskDelayUntil => IInv'
  <1> SUFFICES ASSUME IInv, UNCHANGED program, vTaskDelayUntil PROVE IInv'
    OBVIOUS
  <1> DEFINE previous == pxPreviousWakeTime[Self]
             late == lag[Self]
             time == (previous + Increment) % TickMod
             n == (time - xTickCount) % TickMod
  <1>1. /\ pc[Self] = "delayUntil" /\ pc' = [pc EXCEPT ![Self] = "resumeAll"]
        /\ pxPreviousWakeTime' = [pxPreviousWakeTime EXCEPT ![Self] = time]
        /\ lag' = [lag EXCEPT ![Self] = @ - Increment]
        /\ excused' = IF late >= 0 THEN excused \ {Self} ELSE excused
        /\ IF ShouldDelay(previous, time)
           THEN AddCurrentTaskToDelayedList(n, FALSE)
           ELSE UNCHANGED <<timeVars, switchVars, waitVars>>
        /\ UNCHANGED <<uxSchedulerSuspended, uxPriority, eventVars, arg, target>>
    BY DEF vTaskDelayUntil, Goto
  <1>2. /\ pc \in [Tasks -> Pcs] /\ Self \in Tasks /\ xTickCount \in Ticks
        /\ pxPreviousWakeTime \in [Tasks -> Ticks] /\ previous \in Ticks
        /\ lag \in [Tasks -> -TickMod..TickMod] /\ excused \subseteq Tasks
        /\ due \in [Tasks -> Ticks]
    BY Types DEF IInv, Self
  <1>3. /\ Self \notin Away /\ Self # Idle /\ uxSchedulerSuspended = 1 /\ Self \notin Delayed
        /\ due[Self] = 0
    <2>1. Self \notin Away /\ Self # Idle /\ uxSchedulerSuspended = 1
      BY <1>1, <1>2 DEF IInv, CallsSound, Highest, Steady
    <2> QED BY <1>2, <2>1, IInvFacts DEF Away
  <1>4. "delayUntil" \in program.ops /\ late \in Increment - TickMod..TickMod - 1
    BY <1>1 DEF IInv, OnSchedule
  <1>5. /\ Increment \in Int /\ 0 < Increment /\ Increment < TickMod /\ TickMod \in Int
        /\ late \in Int /\ Increment - TickMod <= late /\ late <= TickMod - 1
        /\ late + 0 < TickMod
    BY <1>4, IncrementAssumption, TicksFacts
  <1>6. previous + late - xTickCount \in {-TickMod, 0, TickMod}
    <2>1. previous + late + 0 - xTickCount \in {-TickMod, 0, TickMod}
      BY <1>2, <1>4, <1>5 DEF IInv, OnSchedule, ScheduleAt
    <2>2. previous \in Int /\ xTickCount \in Int
      BY <1>2, TicksFacts
    <2> QED BY <1>5, <2>1, <2>2
  <1>7. /\ time \in Ticks /\ n \in Ticks
        /\ time + (late - Increment) - xTickCount \in {-TickMod, 0, TickMod}
        /\ ShouldDelay(previous, time) => n > 0 /\ (late >= 0 => n = Increment - late)
        /\ ~ ShouldDelay(previous, time) => late - Increment >= 0 \/ late < 0
    BY <1>2, <1>4, <1>6, PeriodFacts
  <1>8. late < 0 => Self \in excused
    BY <1>2, <1>3, <1>5 DEF IInv, OnSchedule
  <1> HIDE DEF n, time
  <1>9. /\ pxPreviousWakeTime' \in [Tasks -> Ticks] /\ pxPreviousWakeTime'[Self] = time
        /\ \A u \in Tasks : u # Self => pxPreviousWakeTime'[u] = pxPreviousWakeTime[u]
    BY <1>1, <1>2, <1>7
  <1>10. /\ lag' \in [Tasks -> -TickMod..TickMod] /\ lag'[Self] = late - Increment
         /\ \A u \in Tasks : u # Self => lag'[u] = lag[u]
    <2>1. late - Increment \in -TickMod..TickMod
      BY <1>5
    <2> QED BY <1>1, <1>2, <2>1
  <1>11. excused' \subseteq Tasks /\ \A u \in Tasks : u # Self => (u \in excused' <=> u \in excused)
    BY <1>1, <1>2
  <1>12. ASSUME xTickCount' = xTickCount, pxCurrentTCB' = pxCurrentTCB,
                \A u \in Tasks : u # Self => due'[u] = due[u],
                Self \notin excused' => late - Increment + due'[Self] >= 0
         PROVE  OnSchedule'
    <2>1. \A t \in Tasks : t \notin excused' => lag'[t] + due'[t] >= 0
      BY <1>10, <1>11, <1>12 DEF IInv, OnSchedule
    <2>2. \A t \in Range(xEventList)' \cup Range(xPendingReadyList)' :
              t \notin excused' => lag'[t] >= 0
      <3>1. Self \notin Range(xEventList) \cup Range(xPendingReadyList)
        BY <1>3 DEF IInv, Apart
      <3>2. Range(xEventList)' = Range(xEventList) /\ Range(xPendingReadyList)' = Range(xPendingReadyList)
        BY <1>1 DEF eventVars
      <3> QED BY <1>10, <1>11, <3>1, <3>2, IInvFacts DEF IInv, OnSchedule
    <2>3. ScheduleAt(xTickCount, 0)'
      <3>1. ASSUME "delayUntil" \in program.ops, NEW t \in Tasks, lag'[t] + 0 < TickMod
            PROVE  pxPreviousWakeTime'[t] + lag'[t] + 0 - xTickCount \in {-TickMod, 0, TickMod}
        <4>1. CASE t = Self
          <5>1. time \in Int /\ xTickCount \in Int
            BY <1>2, <1>7, TicksFacts
          <5> QED BY <1>5, <1>7, <1>9, <1>10, <4>1, <5>1
        <4>2. CASE t # Self
          BY <1>9, <1>10, <3>1, <4>2 DEF IInv, OnSchedule, ScheduleAt
        <4> QED BY <4>1, <4>2
      <3> QED BY <1>12, <3>1 DEF ScheduleAt
    <2>4. pc'[Self'] # "delayUntil"
      BY <1>1, <1>2, <1>12 DEF Self
    <2> QED BY <2>1, <2>2, <2>3, <2>4 DEF OnSchedule
  <1>13. CASE ShouldDelay(previous, time)
    <2>1. AddCurrentTaskToDelayedList(n, FALSE) /\ n > 0 /\ FALSE \in BOOLEAN
      BY <1>1, <1>7, <1>13
    <2>2. /\ xTickCount' = xTickCount /\ pxCurrentTCB' = pxCurrentTCB
          /\ \A u \in Tasks : u # Self => due'[u] = due[u]
          /\ due'[Self] = n
      BY <1>1, <1>3, <1>7, <2>1, BlockFacts
    <2>3. Self \notin excused' => late - Increment + due'[Self] >= 0
      <3>1. Self \notin excused' => late >= 0
        BY <1>1, <1>5, <1>8
      <3> QED BY <1>5, <1>7, <1>13, <2>2, <3>1
    <2>4. OnSchedule'
      BY <1>12, <2>2, <2>3
    <2>5. /\ xEventList' \in Seq(Tasks) /\ IsInjective(xEventList)'
          /\ Range(xEventList)' \subseteq Range(xEventList) \cup {Self}
          /\ xPendingReadyList' = xPendingReadyList
      BY <1>1, Types DEF IInv, Apart, eventVars
    <2> QED BY <1>1, <1>7, <1>9, <1>10, <1>11, <2>1, <2>4, <2>5, BlocksKeep
  <1>14. CASE ~ ShouldDelay(previous, time)
    <2>1. /\ UNCHANGED <<timeVars, switchVars, waitVars>>
          /\ UNCHANGED <<xTickCount, uxPendedTicks, xNextTaskUnblockTime, pxCurrentTCB, due>>
      BY <1>1, <1>14 DEF timeVars, switchVars, waitVars
    <2>2. Self \notin excused' => late - Increment + due'[Self] >= 0
      BY <1>1, <1>3, <1>5, <1>7, <1>8, <1>14, <2>1
    <2>3. OnSchedule'
      BY <1>12, <2>1, <2>2
    <2>4. /\ uxSchedulerSuspended' \in 0..MaxNesting /\ arg' \in Ticks /\ target' \in Tasks
          /\ xNextTaskUnblockTime' \in Ticks
          /\ \A t \in Range(pxDelayedTaskList) : xNextTaskUnblockTime' <= xItemValue[t]
          /\ uxSchedulerSuspended' = 1
      BY <1>1, <1>3, <2>1, Types DEF IInv, OnTime
    <2>5. /\ "resumeAll" \in Pcs \cap SuspendedCalls /\ "resumeAll" \notin Steady
          /\ "resumeAll" \notin {"yield", "suspendSelf", "delay", "wait", "abort", "abortEvent",
                                 "delayUntil"}
      BY DEF Pcs, SuspendedCalls, Steady
    <2>6. uxSchedulerSuspended' > 0 /\ uxSchedulerSuspended' # 0
      BY <2>4
    <2> QED BY <1>1, <1>3, <1>9, <1>10, <1>11, <2>1, <2>3, <2>4, <2>5, <2>6, OnlyTheCall
  <1> QED BY <1>13, <1>14

-----------------------------------------------------------------------------
(* Ticks are counted.                                                      *)
LEMMA CountFacts ==
    ASSUME IInv, NEW W \in SUBSET Tasks, NEW left \in [Tasks -> Ticks],
           \A t \in Tasks : t \in W <=> left[t] > 0,
           NEW c0, ClockSound(c0, W, left, 0), NEW n \in Nat, NEW c, c = Ticked(c0, n),
           CountTicks(c, n), due' = Elapse(left, n),
           UNCHANGED <<program, xItemValue, pxPreviousWakeTime, excused>>,
           \A t \in Tasks : t \notin excused => lag[t] + left[t] >= 0,
           Range(xEventList)' \cup Range(xPendingReadyList)' \subseteq
               Range(xEventList) \cup Range(xPendingReadyList)
    PROVE  /\ xTickCount' \in Ticks /\ xNextTaskUnblockTime' \in Ticks
           /\ pxDelayedTaskList' \in Seq(Tasks) /\ IsInjective(pxDelayedTaskList)'
           /\ pxOverflowDelayedTaskList' \in Seq(Tasks)
           /\ IsInjective(pxOverflowDelayedTaskList)'
           /\ lag' \in [Tasks -> -TickMod..TickMod] /\ due' \in [Tasks -> Ticks]
           /\ c.woken \in Seq(Tasks) /\ IsInjective(c.woken)
           /\ Range(c.woken) \subseteq W /\ Delayed' = W \ Range(c.woken)
           /\ DelaysAreExact' /\ OnTime'
           /\ pc'[Self'] # "delayUntil" => OnSchedule'
  <1>1. /\ Timed /\ lag \in [Tasks -> -TickMod..TickMod]
        /\ Range(xEventList) \cup Range(xPendingReadyList) \subseteq Tasks
    BY Types, IInvFacts DEF IInv
  <1>2. ClockSound(c, W, left, n)
    BY <1>1, TicksSound
  <1>3. /\ c.tick \in Ticks /\ c.next \in Ticks
        /\ c.delayed \in Seq(Tasks) /\ c.overflow \in Seq(Tasks) /\ c.woken \in Seq(Tasks)
        /\ IsInjective(c.delayed) /\ IsInjective(c.overflow) /\ IsInjective(c.woken)
        /\ Sorted(c.delayed) /\ Sorted(c.overflow)
    BY <1>2 DEF ClockSound, Clocks
  <1>4. /\ Range(c.delayed) \cup Range(c.overflow) = {t \in W : left[t] > n}
        /\ Range(c.woken) = {t \in W : left[t] <= n}
        /\ \A t \in Range(c.delayed) :
              xItemValue[t] = c.tick + left[t] - n /\ c.next <= xItemValue[t]
        /\ \A t \in Range(c.overflow) : xItemValue[t] + TickMod = c.tick + left[t] - n
        /\ ScheduleAt(c.tick, n)
    BY <1>2 DEF ClockSound
  <1>5. /\ xTickCount' = c.tick /\ xNextTaskUnblockTime' = c.next
        /\ pxDelayedTaskList' = c.delayed /\ pxOverflowDelayedTaskList' = c.overflow
        /\ lag' = [t \in Tasks |-> IF "delayUntil" \notin program.ops THEN 0
                                   ELSE IF lag[t] + n > TickMod THEN TickMod
                                   ELSE lag[t] + n]
        /\ due' = [t \in Tasks |-> IF left[t] > n THEN left[t] - n ELSE 0]
    BY DEF CountTicks, Elapse
  <1>6. /\ TickMod \in Int /\ TickMod > 1 /\ n \in Int /\ 0 <= n /\ c.tick \in Int
        /\ \A t \in Tasks : /\ lag[t] \in Int /\ -TickMod <= lag[t] /\ lag[t] <= TickMod
                            /\ left[t] \in Int /\ 0 <= left[t] /\ left[t] < TickMod
    BY <1>1, <1>3, TicksFacts
  <1>7. lag' \in [Tasks -> -TickMod..TickMod] /\ due' \in [Tasks -> Ticks]
    BY <1>5, <1>6, TicksFacts
  <1>8. \A t \in Tasks : /\ due'[t] = IF left[t] > n THEN left[t] - n ELSE 0
                         /\ lag'[t] = IF "delayUntil" \notin program.ops THEN 0
                                      ELSE IF lag[t] + n > TickMod THEN TickMod
                                      ELSE lag[t] + n
    BY <1>5
  <1>9. /\ Delayed' = {t \in W : left[t] > n}
        /\ Range(c.woken) \subseteq W /\ Delayed' = W \ Range(c.woken)
    <2>1. Delayed' = {t \in W : left[t] > n}
      BY <1>4, <1>5 DEF Delayed
    <2> QED BY <1>4, <1>6, <2>1
  <1>10. DelaysAreExact'
    <2>1. \A t \in Tasks : t \in Delayed' <=> due'[t] > 0
      BY <1>6, <1>8, <1>9
    <2> QED BY <2>1 DEF DelaysAreExact
  <1>11. OnTime'
    <2>1. Sorted(pxDelayedTaskList)' /\ Sorted(pxOverflowDelayedTaskList)'
      BY <1>3, <1>5 DEF Sorted
    <2>2. \A t \in Range(c.delayed) \cup Range(c.overflow) : t \in Tasks /\ due'[t] = left[t] - n
      BY <1>4, <1>8
    <2>3. \A t \in Range(pxDelayedTaskList)' :
              /\ xItemValue'[t] = xTickCount' + due'[t]
              /\ xNextTaskUnblockTime' <= xItemValue'[t]
      BY <1>4, <1>5, <1>6, <2>2
    <2>4. \A t \in Range(pxOverflowDelayedTaskList)' :
              xItemValue'[t] + TickMod = xTickCount' + due'[t]
      BY <1>4, <1>5, <1>6, <2>2
    <2> QED BY <2>1, <2>3, <2>4 DEF OnTime
  <1>12. ASSUME pc'[Self'] # "delayUntil" PROVE OnSchedule'
    <2>1. \A t \in Tasks : t \notin excused' => lag'[t] + due'[t] >= 0
      BY <1>6, <1>8
    <2>2. \A t \in Range(xEventList)' \cup Range(xPendingReadyList)' :
              t \notin excused' => lag'[t] >= 0
      BY <1>1, <1>6, <1>8 DEF IInv, OnSchedule
    <2>3. ScheduleAt(xTickCount, 0)'
      <3>1. ASSUME "delayUntil" \in program.ops, NEW t \in Tasks, lag'[t] + 0 < TickMod
            PROVE  pxPreviousWakeTime[t] + lag'[t] + 0 - c.tick \in {-TickMod, 0, TickMod}
        <4>1. lag'[t] = lag[t] + n /\ lag[t] + n < TickMod
          BY <1>6, <1>8, <3>1
        <4>2. pxPreviousWakeTime[t] + lag[t] + n - c.tick \in {-TickMod, 0, TickMod}
          BY <1>4, <3>1, <4>1 DEF ScheduleAt
        <4>3. pxPreviousWakeTime[t] \in Int
          BY <1>1, TicksFacts DEF Timed
        <4>4. pxPreviousWakeTime[t] + lag'[t] + 0 - c.tick =
                  pxPreviousWakeTime[t] + lag[t] + n - c.tick
          BY <1>6, <4>1, <4>3
        <4> QED BY <4>2, <4>4
      <3> QED BY <1>5, <3>1 DEF ScheduleAt
    <2> QED BY <1>12, <2>1, <2>2, <2>3 DEF OnSchedule
  <1> QED BY <1>3, <1>5, <1>7, <1>9, <1>10, <1>11, <1>12

(* The lists as a tick finds them. *)
LEMMA ClockFacts ==
    ASSUME IInv
    PROVE  /\ ClockSound(Clock, Delayed, due, 0)
           /\ Delayed \in SUBSET Tasks /\ due \in [Tasks -> Ticks]
           /\ \A t \in Tasks : t \in Delayed <=> due[t] > 0
           /\ \A t \in Tasks : t \notin excused => lag[t] + due[t] >= 0
  <1>1. /\ xTickCount \in Ticks /\ xNextTaskUnblockTime \in Ticks /\ due \in [Tasks -> Ticks]
        /\ pxDelayedTaskList \in Seq(Tasks) /\ pxOverflowDelayedTaskList \in Seq(Tasks)
        /\ Delayed \subseteq Tasks
    BY Types, IInvFacts DEF IInv
  <1>2. /\ Clock.tick = xTickCount /\ Clock.next = xNextTaskUnblockTime
        /\ Clock.delayed = pxDelayedTaskList /\ Clock.overflow = pxOverflowDelayedTaskList
        /\ Clock.woken = <<>> /\ Clock \in Clocks
    BY <1>1 DEF Clock, Clocks
  <1>3. Range(<<>>) = {} /\ IsInjective(<<>>)
    BY DEF Range, IsInjective
  <1>4. \A t \in Tasks : due[t] \in Int /\ 0 <= due[t]
    BY <1>1, TicksFacts
  <1>5. \A t \in Tasks : t \in Delayed <=> due[t] > 0
    BY DEF IInv, DelaysAreExact
  <1>6. /\ Range(Clock.delayed) \cup Range(Clock.overflow) = {t \in Delayed : due[t] > 0}
        /\ Range(Clock.woken) = {t \in Delayed : due[t] <= 0}
    <2>1. Delayed = {t \in Delayed : due[t] > 0} /\ {t \in Delayed : due[t] <= 0} = {}
      BY <1>1, <1>4, <1>5
    <2> QED BY <1>2, <1>3, <2>1 DEF Delayed
  <1>7. /\ \A t \in Range(Clock.delayed) :
              xItemValue[t] = Clock.tick + due[t] - 0 /\ Clock.next <= xItemValue[t]
        /\ \A t \in Range(Clock.overflow) : xItemValue[t] + TickMod = Clock.tick + due[t] - 0
    <2>1. /\ \A t \in Range(Clock.delayed) \cup Range(Clock.overflow) : t \in Tasks
          /\ xTickCount \in Int
      BY <1>1, <1>2, TicksFacts DEF Delayed
    <2> QED BY <1>2, <1>4, <2>1 DEF IInv, OnTime
  <1>8. /\ IsInjective(Clock.delayed) /\ IsInjective(Clock.overflow)
        /\ IsInjective(Clock.woken) /\ Sorted(Clock.delayed) /\ Sorted(Clock.overflow)
        /\ ScheduleAt(Clock.tick, 0)
    BY <1>2, <1>3 DEF IInv, Apart, OnTime, OnSchedule
  <1>9. ClockSound(Clock, Delayed, due, 0)
    BY <1>2, <1>6, <1>7, <1>8 DEF ClockSound
  <1> QED BY <1>1, <1>5, <1>9 DEF IInv, OnSchedule

LEMMA RunningTickKeeps ==
    IInv /\ UNCHANGED program /\ uxSchedulerSuspended = 0 /\ xTaskIncrementTick => IInv'
  <1> SUFFICES ASSUME IInv, UNCHANGED program, uxSchedulerSuspended = 0, xTaskIncrementTick
               PROVE  IInv'
    OBVIOUS
  <1> DEFINE c == Ticked(Clock, 1)
  <1>1. /\ CountTicks(c, 1) /\ due' = Elapse(due, 1)
        /\ xEventList' = Without(xEventList, Range(c.woken))
        /\ Dispatch(AddReady(pxReadyTasksLists, uxPriority, c.woken),
                    RecordReady(uxTopReadyPriority, uxPriority, c.woken), TRUE, 0)
        /\ UNCHANGED <<uxPendedTicks, uxSchedulerSuspended, uxPriority, xSuspendedTaskList,
                       xItemValue, xPendingReadyList, pc, arg, target,
                       pxPreviousWakeTime, excused>>
    BY DEF xTaskIncrementTick, callVars
  <1>2. c = Ticked(Clock, 1)
    OBVIOUS
  <1> HIDE DEF c
  <1>3. /\ TypeOK /\ pc \in [Tasks -> Pcs] /\ Self \in Tasks
        /\ xEventList \in Seq(Tasks) /\ IsInjective(xEventList)
        /\ Moving = {} /\ xPendingReadyList = <<>> /\ 1 \in Nat
    BY Types, IInvFacts DEF IInv, Self, Apart, NothingPends
  <1>4. /\ xEventList' \in Seq(Tasks) /\ IsInjective(xEventList)'
        /\ Range(xEventList)' = Range(xEventList) \ Range(c.woken)
    BY <1>1, <1>3, WithoutFacts
  <1>5. Range(xEventList)' \cup Range(xPendingReadyList)' \subseteq
            Range(xEventList) \cup Range(xPendingReadyList)
    BY <1>1, <1>4
  <1>6. /\ xTickCount' \in Ticks /\ xNextTaskUnblockTime' \in Ticks
        /\ pxDelayedTaskList' \in Seq(Tasks) /\ IsInjective(pxDelayedTaskList)'
        /\ pxOverflowDelayedTaskList' \in Seq(Tasks)
        /\ IsInjective(pxOverflowDelayedTaskList)'
        /\ lag' \in [Tasks -> -TickMod..TickMod] /\ due' \in [Tasks -> Ticks]
        /\ c.woken \in Seq(Tasks) /\ IsInjective(c.woken)
        /\ Range(c.woken) \subseteq Delayed /\ Delayed' = Delayed \ Range(c.woken)
        /\ DelaysAreExact' /\ OnTime'
        /\ pc'[Self'] # "delayUntil" => OnSchedule'
    BY <1>1, <1>2, <1>3, <1>5, ClockFacts, CountFacts
  <1>7. Moving' = {}
    BY <1>1, <1>3 DEF Moving
  <1>8. Range(c.woken) \subseteq Away /\ Away' = Away \ Range(c.woken)
    BY <1>1, <1>3, <1>6, <1>7 DEF Away, IInv, Apart
  <1>9. ~ (TRUE /\ 0 = 0) => (pc'[Self] \in Steady => pc[Self] \in Steady)
    OBVIOUS
  <1>10. ~ TRUE => \A t \in Range(c.woken) : uxPriority[t] <= uxPriority[Self]
    OBVIOUS
  <1>11. TRUE \in BOOLEAN /\ Placed(pxReadyTasksLists, uxPriority, Away) /\ uxPriority' = uxPriority
    BY <1>1 DEF IInv, Where
  <1>12. /\ Where' /\ IdleIsReady' /\ Highest'
         /\ pxReadyTasksLists' \in [Prios -> Seq(Nodes)]
         /\ uxTopReadyPriority' \in Prios /\ pxCurrentTCB' \in Tasks
         /\ xYieldPending' \in BOOLEAN
    BY <1>1, <1>6, <1>8, <1>9, <1>10, <1>11, ManyReadied
  <1>13. ~ xYieldPending'
    BY <1>1 DEF Dispatch
  <1>14. program' \in Programs
    BY DEF IInv
  <1>15. TypeOK'
    BY <1>1, <1>3, <1>4, <1>6, <1>12 DEF TypeOK, Ticks, Prios, Nodes, Pcs
  <1>16. Apart'
    <2>1. Range(xPendingReadyList) = {}
      BY <1>3 DEF Range
    <2> QED BY <1>1, <1>4, <1>6, <1>7, <1>8, <2>1 DEF IInv, Apart
  <1>17. CallsSound' /\ (pc'[Self'] = "delayUntil" => pc[Self] = "delayUntil" /\ Self' = Self)
    BY <1>1, <1>12, CallsStay
  <1>18. NothingPends'
    BY <1>1, <1>3, <1>13 DEF NothingPends
  <1>19. OnSchedule'
    <2>1. pc[Self] # "delayUntil"
      BY <1>3, IInvFacts DEF SuspendedCalls
    <2> QED BY <1>6, <1>17, <2>1
  <1> QED BY <1>6, <1>12, <1>14, <1>15, <1>16, <1>17, <1>18, <1>19 DEF IInv

(* xTaskResumeAll, when it lets the scheduler run again. *)
LEMMA LastResumeKeeps ==
    ASSUME IInv, UNCHANGED program, uxSchedulerSuspended = 1,
           NEW from \in {"resumeAll", "abortDone", "run"}, NEW to,
           to = IF from = "resumeAll" THEN "yield" ELSE "run", ResumeAll(from, to)
    PROVE  IInv'
  <1> DEFINE pending == Range(xPendingReadyList)
             delayed == Without(pxDelayedTaskList, pending)
             overflow == Without(pxOverflowDelayedTaskList, pending)
             next == IF pending = {} THEN xNextTaskUnblockTime ELSE HeadTime(delayed)
             clock == [Clock EXCEPT !.delayed = Without(@, pending),
                                    !.overflow = Without(@, pending),
                                    !.next = IF pending = {} THEN @ ELSE HeadTime(delayed)]
             c == Ticked(clock, uxPendedTicks)
             awake == xPendingReadyList \o c.woken
             left == [t \in Tasks |-> IF t \in pending THEN 0 ELSE due[t]]
             bare == [p \in 0..TopPriority |-> Without(pxReadyTasksLists[p], pending)]
             lists == AddReady(bare, uxPriority, awake)
             yield == \/ xYieldPending
                      \/ \E t \in Range(awake) : uxPriority[t] >= uxPriority[Self]
                      \/ uxPendedTicks > 0 /\ Len(lists[uxPriority[Self]]) > 2
             after == IF yield THEN "run" ELSE to
             W == Delayed \ pending
  <1>0. /\ pc[Self] = from /\ uxSchedulerSuspended' = uxSchedulerSuspended - 1
        /\ arg' = 0 /\ target' = Idle /\ LastResume(from, to)
        /\ UNCHANGED <<uxPriority, pxPreviousWakeTime, excused>>
    BY DEF ResumeAll
  <1>1. /\ pc[Self] = from /\ uxSchedulerSuspended' = 0 /\ arg' = 0 /\ target' = Idle
        /\ UNCHANGED <<program, uxPriority, pxPreviousWakeTime, excused, xItemValue>>
        /\ uxPendedTicks' = 0 /\ xPendingReadyList' = <<>>
        /\ xSuspendedTaskList' = xSuspendedTaskList \ pending
    <2>1. /\ uxPendedTicks' = 0 /\ xPendingReadyList' = <<>> /\ xItemValue' = xItemValue
          /\ xSuspendedTaskList' = xSuspendedTaskList \ pending
      BY <1>0, Zenon DEF LastResume
    <2> QED BY <1>0, <2>1
  <1>2. /\ CountTicks(c, uxPendedTicks) /\ due' = Elapse(left, uxPendedTicks)
        /\ xEventList' = Without(xEventList, Range(c.woken))
        /\ Dispatch(lists, RecordReady(uxTopReadyPriority, uxPriority, awake), yield, 0)
        /\ Goto(after)
    BY <1>0, Zenon DEF LastResume
  <1>3. /\ TypeOK /\ pc \in [Tasks -> Pcs] /\ Self \in Tasks
        /\ xEventList \in Seq(Tasks) /\ IsInjective(xEventList)
        /\ xPendingReadyList \in Seq(Tasks) /\ IsInjective(xPendingReadyList)
        /\ pending \subseteq Tasks /\ Delayed \subseteq Tasks /\ uxPendedTicks \in Nat
        /\ uxPriority \in [Tasks -> Prios] /\ xYieldPending \in BOOLEAN
    BY Types, IInvFacts, BoundsAssumption DEF IInv, Self, Apart
  <1>4. Moving = {} /\ pending \subseteq Away /\ pending \cap Range(xEventList) = {}
    <2>1. pc[Self] # "abortEvent"
      BY <1>1
    <2> QED BY <2>1, IInvFacts DEF IInv, Apart
  <1> HIDE DEF pending
  <1>5. /\ xItemValue \in [Tasks -> Ticks] /\ xTickCount \in Ticks
        /\ xNextTaskUnblockTime \in Ticks /\ due \in [Tasks -> Ticks]
        /\ pxDelayedTaskList \in Seq(Tasks) /\ IsInjective(pxDelayedTaskList)
        /\ pxOverflowDelayedTaskList \in Seq(Tasks) /\ IsInjective(pxOverflowDelayedTaskList)
        /\ Sorted(pxDelayedTaskList) /\ Sorted(pxOverflowDelayedTaskList)
    BY <1>3, Types DEF IInv, Apart, OnTime
  <1>6. /\ delayed \in Seq(Tasks) /\ IsInjective(delayed) /\ Sorted(delayed)
        /\ Range(delayed) = Range(pxDelayedTaskList) \ pending
    BY <1>5, WithoutFacts, WithoutSorted
  <1>7. /\ overflow \in Seq(Tasks) /\ IsInjective(overflow) /\ Sorted(overflow)
        /\ Range(overflow) = Range(pxOverflowDelayedTaskList) \ pending
    BY <1>5, WithoutFacts, WithoutSorted
  <1>8. clock = [tick |-> xTickCount, next |-> next, delayed |-> delayed,
                 overflow |-> overflow, woken |-> <<>>]
    <2>1. clock = [Clock EXCEPT !.delayed = delayed, !.overflow = overflow, !.next = next]
      BY DEF Clock
    <2> HIDE DEF clock, delayed, overflow, next
    <2> QED BY <2>1 DEF Clock
  <1> HIDE DEF clock, delayed, overflow
  <1>9. next \in Ticks /\ \A t \in Range(delayed) : next <= xItemValue[t]
    <2>1. HeadTime(delayed) \in Ticks /\ \A t \in Range(delayed) : HeadTime(delayed) <= xItemValue[t]
      BY <1>5, <1>6, HeadTimeFacts
    <2> QED BY <1>5, <1>6, <2>1 DEF IInv, OnTime
  <1> HIDE DEF next
  <1>10. /\ left \in [Tasks -> Ticks] /\ W \in SUBSET Tasks
         /\ \A t \in Tasks : left[t] = IF t \in pending THEN 0 ELSE due[t]
         /\ \A t \in Tasks : t \in W <=> left[t] > 0
    <2>1. /\ left \in [Tasks -> Ticks] /\ W \in SUBSET Tasks
          /\ \A t \in Tasks : left[t] = IF t \in pending THEN 0 ELSE due[t]
      BY <1>3, <1>5, TicksFacts
    <2> QED BY <2>1 DEF IInv, DelaysAreExact
  <1> HIDE DEF left
  <1>11. \A t \in Tasks : t \notin excused => lag[t] + left[t] >= 0
    <2>1. \A t \in pending : t \in Tasks /\ (t \notin excused => lag[t] >= 0)
      BY <1>3 DEF pending, IInv, OnSchedule
    <2>2. \A t \in Tasks : lag[t] \in Int
      BY <1>3, Types, TicksFacts
    <2> QED BY <1>10, <2>1, <2>2 DEF IInv, OnSchedule
  <1>12. ClockSound(clock, W, left, 0)
    <2>1. /\ clock.tick = xTickCount /\ clock.next = next /\ clock.delayed = delayed
          /\ clock.overflow = overflow /\ clock.woken = <<>> /\ clock \in Clocks
      BY <1>5, <1>6, <1>7, <1>8, <1>9 DEF Clocks
    <2>2. Range(<<>>) = {} /\ IsInjective(<<>>)
      BY DEF Range, IsInjective
    <2>3. Range(delayed) \cup Range(overflow) = W
      BY <1>6, <1>7 DEF Delayed
    <2>4. /\ Range(clock.delayed) \cup Range(clock.overflow) = {t \in W : left[t] > 0}
          /\ Range(clock.woken) = {t \in W : left[t] <= 0}
      <3>1. \A t \in W : t \in Tasks /\ left[t] > 0 /\ left[t] \in Int
        BY <1>10, TicksFacts
      <3> QED BY <2>1, <2>2, <2>3, <3>1
    <2>5. /\ \A t \in Range(clock.delayed) :
                xItemValue[t] = clock.tick + left[t] - 0 /\ clock.next <= xItemValue[t]
          /\ \A t \in Range(clock.overflow) :
                xItemValue[t] + TickMod = clock.tick + left[t] - 0
      <3>1. \A t \in Range(delayed) \cup Range(overflow) :
                t \in Tasks /\ left[t] = due[t] /\ due[t] \in Int /\ xTickCount \in Int
        BY <1>3, <1>5, <1>10, <2>3, TicksFacts
      <3> QED BY <1>6, <1>7, <1>9, <2>1, <3>1 DEF IInv, OnTime
    <2>6. ScheduleAt(clock.tick, 0)
      BY <2>1 DEF IInv, OnSchedule
    <2> QED BY <1>6, <1>7, <2>1, <2>2, <2>4, <2>5, <2>6 DEF ClockSound
  <1> HIDE DEF W
  <1>13. c = Ticked(clock, uxPendedTicks)
    OBVIOUS
  <1> HIDE DEF c
  <1>14. /\ xEventList' \in Seq(Tasks) /\ IsInjective(xEventList)'
         /\ Range(xEventList)' = Range(xEventList) \ Range(c.woken)
    BY <1>2, <1>3, WithoutFacts
  <1>15. /\ Range(xPendingReadyList)' = {}
         /\ Range(xEventList)' \cup Range(xPendingReadyList)' \subseteq
                Range(xEventList) \cup Range(xPendingReadyList)
    <2>1. Range(xPendingReadyList)' = {}
      BY <1>1 DEF Range
    <2> QED BY <1>14, <2>1
  <1>16. /\ xTickCount' \in Ticks /\ xNextTaskUnblockTime' \in Ticks
         /\ pxDelayedTaskList' \in Seq(Tasks) /\ IsInjective(pxDelayedTaskList)'
         /\ pxOverflowDelayedTaskList' \in Seq(Tasks)
         /\ IsInjective(pxOverflowDelayedTaskList)'
         /\ lag' \in [Tasks -> -TickMod..TickMod] /\ due' \in [Tasks -> Ticks]
         /\ c.woken \in Seq(Tasks) /\ IsInjective(c.woken)
         /\ Range(c.woken) \subseteq W /\ Delayed' = W \ Range(c.woken)
         /\ DelaysAreExact' /\ OnTime'
         /\ pc'[Self'] # "delayUntil" => OnSchedule'
    <2> HIDE DEF awake, bare, lists, yield, after
    <2>1. /\ CountTicks(c, uxPendedTicks) /\ due' = Elapse(left, uxPendedTicks)
          /\ uxPendedTicks \in Nat
          /\ UNCHANGED <<program, xItemValue, pxPreviousWakeTime, excused>>
      BY <1>1, <1>2, <1>3
    <2>2. /\ W \in SUBSET Tasks /\ left \in [Tasks -> Ticks]
          /\ \A t \in Tasks : t \in W <=> left[t] > 0
      BY <1>10
    <2>3. Range(xEventList)' \cup Range(xPendingReadyList)' \subseteq
              Range(xEventList) \cup Range(xPendingReadyList)
      BY <1>15
    <2> QED BY <1>11, <1>12, <1>13, <2>1, <2>2, <2>3, CountFacts
  <1>17. W \subseteq Delayed /\ W \cap pending = {} /\ Delayed \subseteq W \cup pending
    BY DEF W
  <1>18. /\ awake \in Seq(Tasks) /\ IsInjective(awake)
         /\ Range(awake) = pending \cup Range(c.woken)
    <2> DEFINE p == xPendingReadyList
               w == c.woken
    <2>1. /\ p \in Seq(Tasks) /\ w \in Seq(Tasks) /\ IsInjective(p) /\ IsInjective(w)
          /\ Range(p) \cap Range(w) = {} /\ Range(p) = pending
      BY <1>3, <1>16, <1>17 DEF pending
    <2>2. awake = p \o w
      OBVIOUS
    <2> HIDE DEF p, w, awake
    <2>3. awake \in Seq(Tasks) /\ Range(awake) = Range(p) \cup Range(w) /\ IsInjective(awake)
      BY <2>1, <2>2, ConcatFacts
    <2> QED BY <2>1, <2>3 DEF w
  <1> HIDE DEF awake
  <1>19. Placed(bare, uxPriority, Away)
    <2>1. bare = [p \in Prios |-> Without(pxReadyTasksLists[p], pending)]
      BY DEF Prios
    <2>2. Placed(pxReadyTasksLists, uxPriority, Away) /\ pending \in SUBSET Tasks
      BY <1>3 DEF IInv, Where
    <2> HIDE DEF bare
    <2>3. Placed(bare, uxPriority, Away \cup pending)
      BY <1>3, <2>1, <2>2, WithoutPlaced
    <2>4. Away \cup pending = Away
      BY <1>4
    <2> QED BY <2>3, <2>4
  <1>20. yield \in BOOLEAN
    OBVIOUS
  <1>21. ~ yield => ~ xYieldPending /\ \A t \in Range(awake) : uxPriority[t] <= uxPriority[Self]
    <2>1. \A t \in Tasks : uxPriority[t] \in Int
      BY PriorityFacts
    <2>2. Range(awake) \subseteq Tasks
      BY <1>18, RangeType
    <2> QED BY <1>3, <2>1, <2>2
  <1>22. Dispatch(AddReady(bare, uxPriority, awake),
                  RecordReady(uxTopReadyPriority, uxPriority, awake), yield, 0)
    BY <1>2
  <1> HIDE DEF bare, lists, yield
  <1>23. after \in {"run", "yield"} /\ (yield => after = "run") /\ (~ yield => after = to)
    OBVIOUS
  <1> HIDE DEF after
  <1>24. /\ pc'[Self] = after /\ pc' \in [Tasks -> Pcs]
         /\ \A t \in Tasks : t # Self => pc'[t] = pc[t]
    BY <1>2, <1>3, <1>23 DEF Pcs, Goto
  <1>25. \A t \in Tasks : pc'[t] \notin SuspendedCalls
    BY <1>23, <1>24 DEF IInv, CallsSound, SuspendedCalls
  <1>26. Moving' = {}
    BY <1>25 DEF Moving, SuspendedCalls
  <1>27. Range(awake) \subseteq Away /\ Away' = Away \ Range(awake)
    BY <1>1, <1>4, <1>16, <1>17, <1>18, <1>26 DEF Away, IInv, Apart
  <1>28. ~ (yield /\ 0 = 0) => (pc'[Self] \in Steady => pc[Self] \in Steady)
    BY <1>1, <1>23, <1>24 DEF Steady
  <1>29. /\ Where' /\ IdleIsReady' /\ Highest'
         /\ pxReadyTasksLists' \in [Prios -> Seq(Nodes)]
         /\ uxTopReadyPriority' \in Prios /\ pxCurrentTCB' \in Tasks
         /\ xYieldPending' \in BOOLEAN
         /\ yield /\ 0 = 0 => ~ xYieldPending'
         /\ ~ (yield /\ 0 = 0) => (xYieldPending' <=> xYieldPending \/ yield) /\ Self' = Self
    BY <1>1, <1>18, <1>19, <1>20, <1>21, <1>22, <1>27, <1>28, ManyReadied
  <1>30. program' \in Programs
    BY <1>1 DEF IInv
  <1>31. TypeOK'
    <2>1. /\ uxPendedTicks' \in 0..MaxPended /\ arg' \in Ticks /\ target' \in Tasks
          /\ uxSchedulerSuspended' \in 0..MaxNesting /\ xPendingReadyList' \in Seq(Tasks)
      BY <1>1, TicksFacts, TasksAssumption, BoundsAssumption
    <2> QED BY <1>1, <1>3, <1>14, <1>16, <1>24, <1>29, <2>1
            DEF TypeOK, Ticks, Prios, Nodes, Pcs
  <1>32. Apart'
    <2>1. IsInjective(xPendingReadyList)'
      BY <1>1 DEF IsInjective
    <2>2. Delayed' \cap xSuspendedTaskList' = {}
      BY <1>1, <1>16, <1>17 DEF IInv, Apart
    <2>3. Range(xEventList)' \subseteq Away'
      BY <1>4, <1>14, <1>18, <1>27 DEF IInv, Apart
    <2> QED BY <1>14, <1>15, <1>16, <1>26, <2>1, <2>2, <2>3 DEF Apart
  <1>33. CallsSound'
    <2>1. pc'[Idle] = "run"
      <3>1. Self = Idle => from = "run"
        BY <1>1, <1>3 DEF IInv, CallsSound
      <3> QED BY <1>23, <1>24, <3>1, TasksAssumption DEF IInv, CallsSound
    <2> QED BY <1>1, <1>25, <1>29, <2>1, CallsWhenRunning
  <1>34. NothingPends'
    BY <1>1, <1>21, <1>29 DEF NothingPends
  <1>35. OnSchedule'
    <2>1. pc'[Self'] # "delayUntil"
      BY <1>25, <1>29 DEF SuspendedCalls, Self
    <2> QED BY <1>16, <2>1
  <1> QED BY <1>16, <1>29, <1>30, <1>31, <1>32, <1>33, <1>34, <1>35 DEF IInv

-----------------------------------------------------------------------------
LEMMA StutterKeeps ==
    IInv /\ UNCHANGED vars => IInv'
  <1> SUFFICES ASSUME IInv, UNCHANGED vars PROVE IInv'
    OBVIOUS
  <1>1. /\ UNCHANGED <<program, xTickCount, xNextTaskUnblockTime, uxPendedTicks>>
        /\ UNCHANGED <<uxSchedulerSuspended, pxCurrentTCB, uxTopReadyPriority,
                       pxReadyTasksLists, xYieldPending, uxPriority>>
        /\ UNCHANGED <<pxDelayedTaskList, pxOverflowDelayedTaskList, xSuspendedTaskList,
                       xItemValue, due, xPendingReadyList, xEventList>>
        /\ UNCHANGED <<pc, arg, target, pxPreviousWakeTime, lag, excused>>
    BY DEF vars, timeVars, switchVars, waitVars, eventVars, callVars, periodVars
  <1>2. Delayed' = Delayed /\ Moving' = Moving /\ Self' = Self
    BY <1>1 DEF Delayed, Moving, Self
  <1>3. Away' = Away
    BY <1>1, <1>2 DEF Away
  <1>4. program' \in Programs /\ TypeOK'
    BY <1>1 DEF IInv, TypeOK
  <1>5. Where' /\ Apart' /\ IdleIsReady'
    BY <1>1, <1>2, <1>3 DEF IInv, Where, Apart, IdleIsReady
  <1>6. CallsSound' /\ NothingPends' /\ Highest'
    BY <1>1, <1>2, <1>3 DEF IInv, CallsSound, NothingPends, Highest
  <1>7. DelaysAreExact' /\ OnTime'
    BY <1>1, <1>2 DEF IInv, DelaysAreExact, OnTime, Sorted
  <1>8. OnSchedule'
    BY <1>1, <1>2 DEF IInv, OnSchedule, ScheduleAt
  <1> QED BY <1>4, <1>5, <1>6, <1>7, <1>8 DEF IInv

LEMMA TaskStepKeeps ==
    IInv /\ UNCHANGED program /\ TaskStep => IInv'
  <1> SUFFICES ASSUME IInv, UNCHANGED program, TaskStep PROVE IInv'
    OBVIOUS
  <1>1. CASE Yield \/ YieldWithinAPI
    BY <1>1, YieldsKeep
  <1>2. CASE vTaskSuspendAll
    BY <1>2, vTaskSuspendAllKeeps
  <1>3. CASE xTaskResumeAll
    <2>1. CASE uxSchedulerSuspended # 1
      BY <1>3, <2>1, InnerResumeKeeps
    <2>2. CASE uxSchedulerSuspended = 1
      <3>1. CASE ResumeAll("resumeAll", "yield")
        <4>1. "yield" = IF "resumeAll" = "resumeAll" THEN "yield" ELSE "run"
          OBVIOUS
        <4> QED BY <2>2, <3>1, <4>1, LastResumeKeeps
      <3>2. CASE ResumeAll("abortDone", "run")
        <4>1. "run" = IF "abortDone" = "resumeAll" THEN "yield" ELSE "run"
          OBVIOUS
        <4> QED BY <2>2, <3>2, <4>1, LastResumeKeeps
      <3>3. CASE ResumeAll("run", "run")
        <4>1. "run" = IF "run" = "resumeAll" THEN "yield" ELSE "run"
          OBVIOUS
        <4> QED BY <2>2, <3>3, <4>1, LastResumeKeeps
      <3> QED BY <1>3, <3>1, <3>2, <3>3 DEF xTaskResumeAll
    <2> QED BY <2>1, <2>2
  <1>4. CASE \/ \E n \in Delays : BeginDelay(n) \/ BeginWait(n)
             \/ BeginDelayUntil
             \/ \E t \in Tasks : BeginAbort(t)
    BY <1>4, BeginsKeep
  <1>5. CASE vTaskDelay
    BY <1>5, vTaskDelayKeeps
  <1>6. CASE vTaskDelayUntil
    BY <1>6, vTaskDelayUntilKeeps
  <1>7. CASE vTaskPlaceOnEventList
    BY <1>7, vTaskPlaceOnEventListKeeps
  <1>8. CASE \E t \in Tasks : vTaskSuspend(t)
    BY <1>8, vTaskSuspendKeeps
  <1>9. CASE \E t \in Tasks : vTaskResume(t)
    BY <1>9, ResumesKeep
  <1>10. CASE AbortDelay
    BY <1>10, AbortDelayKeeps
  <1>11. CASE AbortEvent
    BY <1>11, AbortEventKeeps
  <1>12. CASE vTaskSuspendEnds
    BY <1>12, vTaskSuspendEndsKeeps
  <1>13. CASE \E t \in Tasks, p \in 0..TopPriority : vTaskPrioritySet(t, p)
    BY <1>13, vTaskPrioritySetKeeps DEF Prios
  <1> QED
    BY <1>1, <1>2, <1>3, <1>4, <1>5, <1>6, <1>7, <1>8, <1>9, <1>10, <1>11, <1>12, <1>13
    DEF TaskStep

LEMMA InterruptKeeps ==
    IInv /\ UNCHANGED program /\ Interrupt => IInv'
  <1> SUFFICES ASSUME IInv, UNCHANGED program, Interrupt PROVE IInv'
    OBVIOUS
  <1>1. CASE xTaskIncrementTick
    BY <1>1, RunningTickKeeps, PendedTickKeeps
  <1>2. CASE xTaskRemoveFromEventList
    BY <1>2, xTaskRemoveFromEventListKeeps
  <1>3. CASE \E t \in Tasks : xTaskResumeFromISR(t)
    BY <1>3, ResumesKeep
  <1> QED BY <1>1, <1>2, <1>3 DEF Interrupt

LEMMA NextKeeps ==
    IInv /\ [Next]_vars => IInv'
  BY StutterKeeps, TaskStepKeeps, InterruptKeeps DEF Next

-----------------------------------------------------------------------------
(* A state of the invariant is a state of each property.                   *)
LEMMA ReadyFacts ==
    ASSUME IInv, NEW t \in Tasks
    PROVE  IF t \in Away THEN Ready(t) = {} ELSE Ready(t) = {uxPriority[t]}
  <1>1. uxPriority \in [Tasks -> Prios] /\ Placed(pxReadyTasksLists, uxPriority, Away)
    BY Types DEF IInv, Where
  <1>2. Ready(t) = On(pxReadyTasksLists, t)
    BY DEF Ready, On, Prios
  <1>3. /\ t \notin Away <=> On(pxReadyTasksLists, t) # {}
        /\ t \notin Away => On(pxReadyTasksLists, t) = {uxPriority[t]}
    BY <1>1, PlacedFacts
  <1> QED BY <1>2, <1>3

LEMMA IInvOneStateList == IInv => OneStateList
  <1> SUFFICES ASSUME IInv PROVE OneStateList
    OBVIOUS
  <1>1. /\ TypeOK
        /\ pxDelayedTaskList \in Seq(Tasks) /\ pxOverflowDelayedTaskList \in Seq(Tasks)
        /\ xEventList \in Seq(Tasks) /\ xPendingReadyList \in Seq(Tasks)
    BY Types DEF IInv
  <1>2. \A p \in 0..TopPriority : IsInjective(pxReadyTasksLists[p])
    BY DEF IInv, Where, Placed, Rings, Prios
  <1>3. IsInjective(pxDelayedTaskList \o pxOverflowDelayedTaskList)
    <2>1. ASSUME NEW t \in Range(pxDelayedTaskList), t \in Range(pxOverflowDelayedTaskList)
          PROVE  FALSE
      <3>1. /\ xItemValue[t] = xTickCount + due[t]
            /\ xItemValue[t] + TickMod = xTickCount + due[t]
        BY <2>1 DEF IInv, OnTime
      <3>2. t \in Tasks
        BY <1>1, RangeType
      <3>3. xItemValue[t] \in Int /\ TickMod \in Int /\ TickMod > 1
        BY <1>1, <3>2, Types, TicksFacts
      <3> QED BY <3>1, <3>3
    <2>2. Range(pxDelayedTaskList) \cap Range(pxOverflowDelayedTaskList) = {}
      BY <2>1
    <2>3. IsInjective(pxDelayedTaskList) /\ IsInjective(pxOverflowDelayedTaskList)
      BY DEF IInv, Apart
    <2> QED BY <1>1, <2>2, <2>3, ConcatFacts
  <1>4. IsInjective(xEventList \o xPendingReadyList)
    <2>1. /\ IsInjective(xEventList) /\ IsInjective(xPendingReadyList)
          /\ Range(xEventList) \cap Range(xPendingReadyList) = {}
      BY DEF IInv, Apart
    <2> QED BY <1>1, <2>1, ConcatFacts
  <1>5. ASSUME NEW t \in Tasks
        PROVE  IF pc[Self] = "abortEvent" /\ t = target
               THEN Ready(t) = {} /\ t \notin Delayed \cup xSuspendedTaskList
               ELSE \/ /\ Ready(t) = {uxPriority[t]}
                       /\ t \notin Delayed \cup xSuspendedTaskList
                    \/ /\ Ready(t) = {} /\ t \in Delayed
                       /\ t \notin xSuspendedTaskList
                    \/ /\ Ready(t) = {} /\ t \notin Delayed
                       /\ t \in xSuspendedTaskList
    <2>1. IF t \in Away THEN Ready(t) = {} ELSE Ready(t) = {uxPriority[t]}
      BY ReadyFacts
    <2>2. /\ Delayed \cap xSuspendedTaskList = {}
          /\ Moving \cap (Delayed \cup xSuspendedTaskList) = {}
      BY DEF IInv, Apart
    <2>3. t \in Away <=> t \in Delayed \/ t \in xSuspendedTaskList \/ t \in Moving
      BY DEF Away
    <2>4. t \in Moving <=> pc[Self] = "abortEvent" /\ t = target
      BY IInvFacts
    <2> QED BY <2>1, <2>2, <2>3, <2>4
  <1> QED BY <1>1, <1>2, <1>3, <1>4, <1>5 DEF OneStateList

LEMMA IInvHighestPriorityRuns == IInv => HighestPriorityRuns
  <1> SUFFICES ASSUME IInv, uxSchedulerSuspended = 0, pc[Self] = "run"
               PROVE  /\ Ready(Self) # {}
                      /\ \A t \in Tasks : Ready(t) # {} => uxPriority[t] <= uxPriority[Self]
    BY DEF HighestPriorityRuns
  <1>1. ~ xYieldPending /\ Self \notin Away /\ Self \in Tasks
    BY Types DEF IInv, NothingPends, Highest, Steady, Self
  <1>2. \A t \in Tasks : t \notin Away => uxPriority[t] <= uxPriority[Self]
    BY <1>1 DEF IInv, Highest, Steady
  <1>3. Ready(Self) # {}
    BY <1>1, ReadyFacts
  <1>4. \A t \in Tasks : Ready(t) # {} => t \notin Away
    BY ReadyFacts
  <1> QED BY <1>2, <1>3, <1>4

LEMMA IInvNeverAhead == IInv => NeverAhead
  <1> SUFFICES ASSUME IInv, uxSchedulerSuspended = 0, pc[Self] = "run", Self \notin excused
               PROVE  lag[Self] >= 0
    BY DEF NeverAhead
  <1>1. Self \in Tasks /\ Self \notin Away
    BY Types DEF IInv, Highest, Steady, Self
  <1>2. due[Self] = 0
    BY <1>1, IInvFacts DEF Away
  <1>3. lag[Self] + due[Self] >= 0 /\ lag[Self] \in Int
    <2>1. lag \in [Tasks -> -TickMod..TickMod]
      BY Types DEF IInv
    <2>2. \A x \in -TickMod..TickMod : x \in Int
      OBVIOUS
    <2> QED BY <1>1, <2>1, <2>2 DEF IInv, OnSchedule
  <1> QED BY <1>2, <1>3

-----------------------------------------------------------------------------
(* The initial states.                                                     *)
LEMMA CreatedFacts ==
    ASSUME NEW created \in SetToSeqs(Tasks)
    PROVE  created \in Seq(Tasks) /\ IsInjective(created) /\ Range(created) = Tasks
  <1> DEFINE n == Cardinality(Tasks)
  <1>1. n \in Nat /\ IsFiniteSet(Tasks)
    BY TasksAssumption, FS_CardinalityType
  <1>2. /\ created \in [1..n -> Tasks]
        /\ \A i, j \in 1..n : i # j => created[i] # created[j]
    BY DEF SetToSeqs
  <1> HIDE DEF n
  <1>3. created \in Seq(Tasks) /\ Len(created) = n
    BY <1>1, <1>2
  <1>4. IsInjective(created)
    BY <1>2 DEF IsInjective
  <1>5. Range(created) \subseteq Tasks /\ Cardinality(Range(created)) = Cardinality(Tasks)
    BY <1>3, <1>4, RangeType, RangeCount DEF n
  <1>6. Range(created) = Tasks
    BY <1>1, <1>5, FS_Subset
  <1> QED BY <1>3, <1>4, <1>6

FirstLists(created, prio) ==
    [p \in Prios |-> Without(created, {t \in Tasks : prio[t] # p}) \o <<End>>]

LEMMA FirstListsFacts ==
    ASSUME NEW created \in SetToSeqs(Tasks), NEW prio \in [Tasks -> Prios],
           NEW l, l = FirstLists(created, prio)
    PROVE  /\ Placed(l, prio, {})
           /\ \A p \in Prios : l[p] # <<End>> =>
                 Last(Front(l[p])) \in Tasks /\ prio[Last(Front(l[p]))] = p
  <1>1. created \in Seq(Tasks) /\ IsInjective(created) /\ Range(created) = Tasks
    BY CreatedFacts
  <1>2. /\ <<End>> \in Seq(Nodes) /\ IsInjective(<<End>>) /\ Range(<<End>>) = {End}
        /\ Len(<<End>>) = 1 /\ <<End>>[1] = End
    BY SingleFacts DEF Nodes
  <1>3. ASSUME NEW p \in Prios
        PROVE  /\ l[p] \in Seq(Nodes) /\ IsInjective(l[p]) /\ End \in Range(l[p])
               /\ \A t \in Tasks : t \in Range(l[p]) <=> p = prio[t]
               /\ l[p] # <<End>> =>
                     Last(Front(l[p])) \in Tasks /\ prio[Last(Front(l[p]))] = p
    <2> DEFINE q == Without(created, {t \in Tasks : prio[t] # p})
    <2>1. /\ q \in Seq(Tasks) /\ IsInjective(q)
          /\ Range(q) = Tasks \ {t \in Tasks : prio[t] # p}
      BY <1>1, WithoutFacts
    <2>2. l[p] = q \o <<End>>
      BY DEF FirstLists
    <2> HIDE DEF q
    <2>3. q \in Seq(Nodes) /\ Len(q) \in Nat
      BY <2>1 DEF Nodes
    <2>4. Range(q) \cap Range(<<End>>) = {}
      BY <1>2, <2>1, TasksAssumption
    <2>5. /\ q \o <<End>> \in Seq(Nodes) /\ IsInjective(q \o <<End>>)
          /\ Range(q \o <<End>>) = Range(q) \cup Range(<<End>>)
      BY <1>2, <2>1, <2>3, <2>4, ConcatFacts
    <2>6. \A t \in Tasks : t \in Range(l[p]) <=> p = prio[t]
      BY <1>2, <2>1, <2>2, <2>5, TasksAssumption
    <2>7. ASSUME l[p] # <<End>>
          PROVE  Last(Front(l[p])) \in Tasks /\ prio[Last(Front(l[p]))] = p
      <3>1. q # <<>>
        <4>1. <<>> \o <<End>> = <<End>>
          BY <1>2
        <4> QED BY <2>2, <2>7, <4>1
      <3>2. Len(q) > 0 /\ Len(q \o <<End>>) = Len(q) + 1
        BY <1>2, <2>3, <3>1
      <3>3. Front(l[p]) = SubSeq(q \o <<End>>, 1, Len(q))
        <4>1. Len(l[p]) - 1 = Len(q)
          BY <2>2, <2>3, <3>2
        <4>2. Front(l[p]) = SubSeq(l[p], 1, Len(l[p]) - 1)
          BY DEF Front
        <4> QED BY <2>2, <4>1, <4>2
      <3>4. /\ SubSeq(q \o <<End>>, 1, Len(q)) \in Seq(Nodes)
            /\ Len(SubSeq(q \o <<End>>, 1, Len(q))) = Len(q)
            /\ SubSeq(q \o <<End>>, 1, Len(q))[Len(q)] = (q \o <<End>>)[Len(q)]
        BY <2>3, <2>5, <3>2
      <3>5. (q \o <<End>>)[Len(q)] = q[Len(q)]
        BY <1>2, <2>3, <3>2
      <3>6. Last(Front(l[p])) = q[Len(q)]
        BY <3>3, <3>4, <3>5 DEF Last
      <3>7. q[Len(q)] \in Range(q)
        BY <2>3, <3>2 DEF Range
      <3> QED BY <2>1, <3>6, <3>7
    <2> QED BY <1>2, <2>2, <2>5, <2>6, <2>7
  <1>4. l \in Rings
    <2>1. l = [p \in Prios |-> l[p]]
      BY DEF FirstLists
    <2>2. l \in [Prios -> Seq(Nodes)]
      BY <1>3, <2>1
    <2> QED BY <1>3, <2>2 DEF Rings
  <1> QED BY <1>3, <1>4 DEF Placed

LEMMA InitIInv == Init => IInv
  <1> SUFFICES ASSUME Init PROVE IInv
    OBVIOUS
  <1>1. /\ xTickCount = 0 /\ xNextTaskUnblockTime = portMAX_DELAY
        /\ uxPendedTicks = 0 /\ uxSchedulerSuspended = 0 /\ xYieldPending = FALSE
        /\ program \in Programs /\ uxPriority = program.priority
        /\ pxDelayedTaskList = <<>> /\ pxOverflowDelayedTaskList = <<>>
        /\ xItemValue = [t \in Tasks |-> 0] /\ xSuspendedTaskList = {}
        /\ xPendingReadyList = <<>> /\ xEventList = <<>>
        /\ pc = [t \in Tasks |-> "run"] /\ arg = 0 /\ target = Idle
        /\ pxPreviousWakeTime = [t \in Tasks |-> 0] /\ due = [t \in Tasks |-> 0]
        /\ lag = [t \in Tasks |-> 0] /\ excused = {}
    BY DEF Init
  <1>2. PICK created \in SetToSeqs(Tasks) :
            pxReadyTasksLists = FirstLists(created, uxPriority)
    BY DEF Init, FirstLists, Prios
  <1>3. uxPriority \in [Tasks -> Prios] /\ uxPriority[Idle] = 0
    BY <1>1, PriorityAssumption DEF Prios
  <1>4. /\ Placed(pxReadyTasksLists, uxPriority, {})
        /\ \A p \in Prios : pxReadyTasksLists[p] # <<End>> =>
              /\ Last(Front(pxReadyTasksLists[p])) \in Tasks
              /\ uxPriority[Last(Front(pxReadyTasksLists[p]))] = p
    BY <1>2, <1>3, FirstListsFacts
  <1>5. PICK p : /\ p = HighestReady(pxReadyTasksLists, TopPriority)
                 /\ uxTopReadyPriority = p
                 /\ pxCurrentTCB = Last(Front(pxReadyTasksLists[p]))
    BY DEF Init
  <1>6. /\ p \in Prios /\ pxReadyTasksLists[p] # <<End>>
        /\ \A t \in Tasks : uxPriority[t] <= p
    <2>1. /\ pxReadyTasksLists \in Rings
          /\ \A q \in Prios, t \in Tasks :
                t \in Range(pxReadyTasksLists[q]) <=> q = uxPriority[t]
      BY <1>4 DEF Placed
    <2>2. TopPriority \in Prios /\ \A q \in Prios : q <= TopPriority
      BY PriorityAssumption DEF Prios
    <2>3. Idle \in Range(pxReadyTasksLists[0])
      BY <1>3, <2>1, PriosFacts, TasksAssumption
    <2>4. LET h == HighestReady(pxReadyTasksLists, TopPriority)
          IN  /\ h \in Prios /\ pxReadyTasksLists[h] # <<End>>
              /\ \A q \in Prios, t \in Tasks :
                    t \in Range(pxReadyTasksLists[q]) => q <= h
      BY <2>1, <2>2, <2>3, HighestReadyFacts
    <2>5. \A t \in Tasks : uxPriority[t] \in Prios
      BY <1>3
    <2> QED BY <1>5, <2>1, <2>4, <2>5
  <1>7. Self = pxCurrentTCB /\ Self \in Tasks /\ uxPriority[Self] = p
    BY <1>4, <1>5, <1>6 DEF Self
  <1>8. TypeOK
    <2>1. /\ 0 \in Ticks /\ portMAX_DELAY \in Ticks /\ 0 \in -TickMod..TickMod
          /\ 0 \in 0..MaxPended /\ 0 \in 0..MaxNesting
      BY TicksFacts, BoundsAssumption
    <2>2. /\ <<>> \in Seq(Tasks) /\ "run" \in Pcs /\ Idle \in Tasks
          /\ pxReadyTasksLists \in [Prios -> Seq(Nodes)]
      BY <1>4, TasksAssumption DEF Placed, Rings, Pcs
    <2> QED BY <1>1, <1>3, <1>5, <1>6, <1>7, <2>1, <2>2, Types DEF Self
  <1>9. Range(pxDelayedTaskList) = {} /\ Range(pxOverflowDelayedTaskList) = {}
        /\ Range(xEventList) = {} /\ Range(xPendingReadyList) = {}
    BY <1>1 DEF Range
  <1>10. Delayed = {} /\ Moving = {} /\ Away = {}
    <2>1. \A t \in Tasks : pc[t] # "abortEvent"
      BY <1>1
    <2> QED BY <1>1, <1>9, <2>1 DEF Delayed, Moving, Away
  <1>11. Where
    BY <1>4, <1>10 DEF Where
  <1>12. Apart
    BY <1>1, <1>9, <1>10 DEF Apart, IsInjective
  <1>13. CallsSound
    BY <1>1, <1>7, TasksAssumption DEF CallsSound, SuspendedCalls
  <1>14. IdleIsReady
    BY <1>3, <1>5, <1>6, <1>10 DEF IdleIsReady
  <1>15. NothingPends
    BY <1>1 DEF NothingPends
  <1>16. Highest
    BY <1>6, <1>7, <1>10 DEF Highest
  <1>17. DelaysAreExact
    BY <1>1, <1>10 DEF DelaysAreExact
  <1>18. OnTime
    BY <1>1, <1>9 DEF OnTime, Sorted
  <1>19. OnSchedule
    <2>1. \A t \in Tasks : lag[t] + due[t] = 0 /\ lag[t] = 0 /\ pxPreviousWakeTime[t] = 0
      BY <1>1
    <2>2. ScheduleAt(xTickCount, 0)
      BY <1>1, <2>1 DEF ScheduleAt
    <2>3. pc[Self] # "delayUntil"
      BY <1>1, <1>7
    <2> QED BY <1>9, <2>1, <2>2, <2>3 DEF OnSchedule
  <1> QED
    BY <1>1, <1>8, <1>11, <1>12, <1>13, <1>14, <1>15, <1>16, <1>17, <1>18, <1>19 DEF IInv

-----------------------------------------------------------------------------
LEMMA AlwaysIInv == Spec => []IInv
  BY InitIInv, NextKeeps, PTL DEF Spec

(* The calls of tasks.c, the tick and the interrupt handlers move a task    *)
(* from list to list: it is on exactly one of them, once, at any point, but *)
(* for the one that xTaskAbortDelay has taken off a list and not yet put on *)
(* the other.                                                               *)
THEOREM AlwaysOneStateList == Spec => []OneStateList
  BY AlwaysIInv, IInvOneStateList, PTL

(* xTaskIncrementTick unblocks a delayed task with the very tick that its   *)
(* call asked for, whatever the width of the tick counter, when it wraps,   *)
(* and when xTaskResumeAll counts the pended ticks in a batch.              *)
THEOREM AlwaysExactDelays == Spec => []DelaysAreExact
  <1>1. IInv => DelaysAreExact
    BY DEF IInv
  <1> QED BY AlwaysIInv, <1>1, PTL

(* vTaskSwitchContext and the yields that the calls ask for leave a task    *)
(* running that is ready, and that no ready task has a higher priority      *)
(* than, whenever the scheduler is not suspended and no call is half way.   *)
THEOREM AlwaysHighestRuns == Spec => []HighestPriorityRuns
  BY AlwaysIInv, IInvHighestPriorityRuns, PTL

(* vTaskDelayUntil does not let a periodic task go ahead of its schedule,   *)
(* unless xTaskAbortDelay or vTaskSuspend cut one of its delays short.      *)
THEOREM AlwaysNeverAhead == Spec => []NeverAhead
  BY AlwaysIInv, IInvNeverAhead, PTL
=============================================================================
