--------------------------- MODULE SequenceProofs ---------------------------
(* Machine-checked facts about sequences that the proofs about the kernel's *)
(* lists share: what the operations of EventList, and taking items from     *)
(* either end, do to the items of a list and to their order.                *)
EXTENDS EventList, FiniteSetTheorems, WellFoundedInduction, TLAPS

(* A set of numbers that is not empty has a least one. *)
LEMMA LeastNatural ==
    ASSUME NEW T \in SUBSET Nat, T # {}
    PROVE  \E k \in T : \A j \in T : k <= j
  <1> DEFINE Less == {ss \in Nat \X Nat : ss[1] < ss[2]}
  <1>1. IsWellFoundedOn(Less, Nat)
    BY NatLessThanWellFounded, Zenon DEF OpToRel
  <1>2. \E k \in T : \A j \in T : ~ (<<j, k>> \in Less)
    <2> HIDE DEF Less
    <2> QED
      BY <1>1, WFMin, Zenon
  <1>3. PICK k \in T : \A j \in T : ~ (<<j, k>> \in Less)
    BY <1>2
  <1>4. \A j \in T : <<j, k>> \in Less <=> j < k
    OBVIOUS
  <1>5. \A j \in T : j \in Nat
    OBVIOUS
  <1> HIDE DEF Less
  <1>6. \A j \in T : ~ (j < k)
    BY <1>3, <1>4
  <1> QED
    BY <1>3, <1>5, <1>6

(* So has one with a bound a greatest one. *)
LEMMA GreatestNatural ==
    ASSUME NEW n \in Nat, NEW T \in SUBSET (0..n), T # {}
    PROVE  \E k \in T : \A j \in T : j <= k
  <1> DEFINE D == {n - j : j \in T}
  <1>1. D \in SUBSET Nat /\ D # {}
    <2>1. \A j \in T : n - j \in Nat
      OBVIOUS
    <2>2. PICK j \in T : TRUE
      OBVIOUS
    <2> QED BY <2>1, <2>2
  <1>2. PICK m \in D : \A j \in D : m <= j
    BY <1>1, LeastNatural
  <1>3. PICK k \in T : m = n - k
    BY <1>2
  <1>4. \A j \in T : n - j \in D
    OBVIOUS
  <1> HIDE DEF D
  <1>5. \A j \in T : n - k <= n - j
    BY <1>2, <1>3, <1>4
  <1> QED BY <1>5

(* Numbers along a loop.  Which entry a function defined on its own earlier *)
(* values has is what the library's induction would say.                    *)
Along(f, n, base, step) ==
    \A k \in 0..n : f[k] = IF k = 0 THEN base ELSE step[<<f[k - 1], k>>]

LEMMA StepsExist ==
    ASSUME NEW D, NEW n \in Nat, NEW base \in D, NEW step \in [D \X (1..n) -> D]
    PROVE  \E f \in [0..n -> D] : Along(f, n, base, step)
  <1> USE DEF Along
  <1> DEFINE Good(m, f) == f \in [0..m -> D] /\ Along(f, m, base, step)
             T == {m \in 0..n : ~ \E f : Good(m, f)}
  <1>1. SUFFICES ASSUME T # {} PROVE FALSE
    <2>1. n \in 0..n /\ n \notin T
      BY <1>1
    <2> QED BY <2>1
  <1>2. PICK m \in T : \A j \in T : m <= j
    <2>1. T \in SUBSET Nat
      OBVIOUS
    <2> HIDE DEF T
    <2> QED BY <1>1, <2>1, LeastNatural
  <1>3. m \in 0..n /\ ~ \E f : Good(m, f)
    BY <1>2
  <1>4. CASE m = 0
    <2>1. Good(m, [k \in 0..m |-> base])
      BY <1>4
    <2> QED BY <1>3, <2>1
  <1>5. CASE m # 0
    <2>1. m - 1 \in 0..n /\ m - 1 \notin T
      BY <1>2, <1>3, <1>5
    <2>2. PICK f : Good(m - 1, f)
      BY <2>1
    <2>3. m - 1 \in 0..m - 1 /\ m \in 1..n /\ <<f[m - 1], m>> \in D \X (1..n)
      BY <1>3, <1>5, <2>2
    <2> DEFINE g == [k \in 0..m |-> IF k = m THEN step[<<f[m - 1], m>>] ELSE f[k]]
    <2>4. g \in [0..m -> D]
      <3>1. step[<<f[m - 1], m>>] \in D
        BY <2>3
      <3>2. \A k \in 0..m : k # m => k \in 0..m - 1
        BY <1>3
      <3> QED BY <2>2, <3>1, <3>2
    <2>5. ASSUME NEW k \in 0..m
          PROVE  g[k] = IF k = 0 THEN base ELSE step[<<g[k - 1], k>>]
      <3>1. CASE k = m
        <4>1. k # 0 /\ k - 1 \in 0..m /\ k - 1 # m
          BY <1>3, <1>5, <3>1
        <4>2. g[k - 1] = f[m - 1]
          BY <3>1, <4>1
        <4> QED BY <3>1, <4>1, <4>2
      <3>2. CASE k # m
        <4>1. k \in 0..m - 1 /\ g[k] = f[k]
          BY <1>3, <3>2
        <4>2. CASE k = 0
          BY <2>2, <4>1, <4>2
        <4>3. CASE k # 0
          <5>1. k - 1 \in 0..m /\ k - 1 # m
            BY <1>3, <2>5, <4>3
          <5>2. g[k - 1] = f[k - 1]
            BY <5>1
          <5> QED BY <2>2, <4>1, <4>3, <5>2
        <4> QED BY <4>2, <4>3
      <3> QED BY <3>1, <3>2
    <2>6. Good(m, g)
      <3> HIDE DEF g
      <3> QED BY <2>4, <2>5
    <2> QED BY <1>3, <2>6
  <1> QED BY <1>4, <1>5

(* What holds at the start and survives each step holds along the loop. *)
LEMMA HoldsAlong ==
    ASSUME NEW D, NEW n \in Nat, NEW f, f[0] \in D,
           \A k \in 1..n : f[k - 1] \in D => f[k] \in D
    PROVE  f[n] \in D
  <1> DEFINE T == {m \in 0..n : f[m] \notin D}
  <1>1. SUFFICES ASSUME T # {} PROVE FALSE
    <2>1. n \in 0..n /\ n \notin T
      BY <1>1
    <2> QED BY <2>1
  <1>2. PICK m \in T : \A j \in T : m <= j
    <2>1. T \in SUBSET Nat
      OBVIOUS
    <2> HIDE DEF T
    <2> QED BY <1>1, <2>1, LeastNatural
  <1>3. m \in 1..n /\ m - 1 \in 0..n /\ m - 1 \notin T
    BY <1>2
  <1>4. f[m - 1] \in D /\ f[m] \notin D
    BY <1>2, <1>3
  <1> QED BY <1>3, <1>4

(* The least of a set of numbers, as CHOOSE finds it. *)
LEMMA LeastIsIn ==
    ASSUME NEW S \in SUBSET Nat, S # {}
    PROVE  Min(S) \in S
  <1>1. PICK k \in S : \A j \in S : k <= j
    BY LeastNatural
  <1> QED BY <1>1 DEF Min

(* The less of two numbers. *)
LEMMA MinOfTwo ==
    ASSUME NEW a \in Nat, NEW b \in Nat
    PROVE  Min({a, b}) = IF a <= b THEN a ELSE b
  BY DEF Min

-----------------------------------------------------------------------------
(* The two ends of a list. *)

LEMMA TailFacts ==
    ASSUME NEW S, NEW q \in Seq(S), q # <<>>, IsInjective(q)
    PROVE  /\ Tail(q) \in Seq(S) /\ IsInjective(Tail(q))
           /\ Head(q) \in S /\ Head(q) \in Range(q)
           /\ Range(Tail(q)) = Range(q) \ {Head(q)}
  <1>1. /\ Tail(q) \in Seq(S) /\ Len(Tail(q)) = Len(q) - 1
        /\ \A j \in 1..Len(q) - 1 : Tail(q)[j] = q[j + 1]
        /\ Head(q) \in S /\ Head(q) = q[1] /\ 1 \in DOMAIN q
        /\ DOMAIN q = 1..Len(q) /\ DOMAIN Tail(q) = 1..Len(q) - 1 /\ Len(q) \in Nat
    OBVIOUS
  <1>2. IsInjective(Tail(q))
    BY <1>1 DEF IsInjective
  <1>3. \A j \in DOMAIN q : j # 1 => j - 1 \in DOMAIN Tail(q) /\ Tail(q)[j - 1] = q[j]
    BY <1>1
  <1>4. \A j \in DOMAIN Tail(q) : j + 1 \in DOMAIN q /\ j + 1 # 1 /\ Tail(q)[j] = q[j + 1]
    BY <1>1
  <1>5. Range(Tail(q)) \subseteq Range(q) \ {Head(q)}
    BY <1>1, <1>4 DEF Range, IsInjective
  <1>6. Range(q) \ {Head(q)} \subseteq Range(Tail(q))
    BY <1>1, <1>3 DEF Range
  <1> QED
    BY <1>1, <1>2, <1>5, <1>6 DEF Range

LEMMA AppendFacts ==
    ASSUME NEW S, NEW q \in Seq(S), NEW e \in S
    PROVE  /\ Append(q, e) \in Seq(S)
           /\ Range(Append(q, e)) = Range(q) \cup {e}
           /\ IsInjective(q) /\ e \notin Range(q) => IsInjective(Append(q, e))
  <1>1. /\ Append(q, e) \in Seq(S) /\ Len(q) \in Nat
        /\ DOMAIN q = 1..Len(q) /\ DOMAIN Append(q, e) = 1..Len(q) + 1
        /\ \A j \in 1..Len(q) + 1 : Append(q, e)[j] = IF j = Len(q) + 1 THEN e ELSE q[j]
    OBVIOUS
  <1> DEFINE r == Append(q, e)
  <1> HIDE DEF r
  <1>2. \A j \in DOMAIN q : j \in DOMAIN r /\ r[j] = q[j]
    BY <1>1 DEF r
  <1>3. Len(q) + 1 \in DOMAIN r /\ r[Len(q) + 1] = e
    BY <1>1 DEF r
  <1>4. \A j \in DOMAIN r : j = Len(q) + 1 \/ j \in DOMAIN q
    BY <1>1 DEF r
  <1>5. Range(r) = Range(q) \cup {e}
    BY <1>2, <1>3, <1>4 DEF Range
  <1>6. ASSUME IsInjective(q), e \notin Range(q)
        PROVE  IsInjective(r)
    BY <1>2, <1>3, <1>4, <1>6 DEF Range, IsInjective
  <1> QED
    BY <1>1, <1>5, <1>6 DEF r

LEMMA ConcatFacts ==
    ASSUME NEW S, NEW p \in Seq(S), NEW q \in Seq(S)
    PROVE  /\ p \o q \in Seq(S)
           /\ Range(p \o q) = Range(p) \cup Range(q)
           /\ (/\ IsInjective(p) /\ IsInjective(q)
               /\ Range(p) \cap Range(q) = {}) <=> IsInjective(p \o q)
  <1>1. /\ p \o q \in Seq(S) /\ Len(p) \in Nat /\ Len(q) \in Nat
        /\ DOMAIN p = 1..Len(p) /\ DOMAIN q = 1..Len(q)
        /\ DOMAIN (p \o q) = 1..Len(p) + Len(q)
        /\ \A j \in 1..Len(p) + Len(q) :
              (p \o q)[j] = IF j <= Len(p) THEN p[j] ELSE q[j - Len(p)]
    OBVIOUS
  <1> DEFINE r == p \o q
  <1> HIDE DEF r
  <1>2. \A j \in DOMAIN p : j \in DOMAIN r /\ r[j] = p[j]
    BY <1>1 DEF r
  <1>3. \A j \in DOMAIN q : j + Len(p) \in DOMAIN r /\ r[j + Len(p)] = q[j]
    BY <1>1 DEF r
  <1>4. \A j \in DOMAIN r : j \in DOMAIN p \/ \E k \in DOMAIN q : j = k + Len(p)
    <2> TAKE j \in DOMAIN r
    <2>1. CASE j <= Len(p)
      BY <1>1, <2>1 DEF r
    <2>2. CASE ~ (j <= Len(p))
      <3>1. j - Len(p) \in DOMAIN q /\ j = (j - Len(p)) + Len(p)
        BY <1>1, <2>2 DEF r
      <3> QED BY <3>1
    <2> QED BY <2>1, <2>2
  <1>5. Range(r) = Range(p) \cup Range(q)
    BY <1>2, <1>3, <1>4 DEF Range
  <1>6. ASSUME IsInjective(p), IsInjective(q), Range(p) \cap Range(q) = {}
        PROVE  IsInjective(r)
    <2>1. \A j \in DOMAIN p, k \in DOMAIN q : p[j] # q[k]
      BY <1>6 DEF Range
    <2> SUFFICES ASSUME NEW a \in DOMAIN r, NEW b \in DOMAIN r, r[a] = r[b]
                 PROVE  a = b
      BY DEF IsInjective
    <2>2. CASE a \in DOMAIN p /\ b \in DOMAIN p
      BY <1>2, <1>6, <2>2 DEF IsInjective
    <2>3. CASE a \in DOMAIN p /\ b \notin DOMAIN p
      BY <1>2, <1>3, <1>4, <2>1, <2>3
    <2>4. CASE a \notin DOMAIN p /\ b \in DOMAIN p
      BY <1>2, <1>3, <1>4, <2>1, <2>4
    <2>5. CASE a \notin DOMAIN p /\ b \notin DOMAIN p
      BY <1>3, <1>4, <1>6, <2>5 DEF IsInjective
    <2> QED BY <2>2, <2>3, <2>4, <2>5
  <1>7. ASSUME IsInjective(r)
        PROVE  IsInjective(p) /\ IsInjective(q) /\ Range(p) \cap Range(q) = {}
    <2>1. IsInjective(p)
      BY <1>2, <1>7 DEF IsInjective
    <2>2. IsInjective(q)
      BY <1>1, <1>3, <1>7 DEF IsInjective
    <2>3. \A j \in DOMAIN p, k \in DOMAIN q : j # k + Len(p)
      BY <1>1
    <2>4. \A j \in DOMAIN p, k \in DOMAIN q : p[j] # q[k]
      BY <1>2, <1>3, <1>7, <2>3 DEF IsInjective
    <2> QED BY <2>1, <2>2, <2>4 DEF Range
  <1> QED
    BY <1>1, <1>5, <1>6, <1>7 DEF r

(* A list cut in two: the first n items, and the others. *)
LEMMA CutPlaces ==
    ASSUME NEW S, NEW q \in Seq(S), NEW n \in 0..Len(q)
    PROVE  /\ SubSeq(q, 1, n) \in Seq(S) /\ Len(SubSeq(q, 1, n)) = n
           /\ \A j \in 1..n : SubSeq(q, 1, n)[j] = q[j]
           /\ SubSeq(q, n + 1, Len(q)) \in Seq(S) /\ Len(SubSeq(q, n + 1, Len(q))) = Len(q) - n
           /\ \A j \in 1..Len(q) - n : SubSeq(q, n + 1, Len(q))[j] = q[n + j]
  <1>1. /\ SubSeq(q, 1, n) \in Seq(S) /\ Len(SubSeq(q, 1, n)) = n
        /\ \A j \in 1..n : SubSeq(q, 1, n)[j] = q[j]
    OBVIOUS
  <1>2. /\ SubSeq(q, n + 1, Len(q)) \in Seq(S) /\ Len(SubSeq(q, n + 1, Len(q))) = Len(q) - n
        /\ \A j \in 1..Len(q) - n : SubSeq(q, n + 1, Len(q))[j] = q[n + j]
    OBVIOUS
  <1> QED BY <1>1, <1>2

LEMMA CutFacts ==
    ASSUME NEW S, NEW q \in Seq(S), NEW n \in 0..Len(q), IsInjective(q)
    PROVE  LET p == SubSeq(q, 1, n)
               r == SubSeq(q, n + 1, Len(q))
           IN  /\ p \in Seq(S) /\ IsInjective(p) /\ Len(p) = n
               /\ r \in Seq(S) /\ IsInjective(r) /\ Len(r) = Len(q) - n
               /\ Range(p) \cap Range(r) = {} /\ Range(p) \cup Range(r) = Range(q)
  <1> DEFINE p == SubSeq(q, 1, n)
             r == SubSeq(q, n + 1, Len(q))
  <1>1. p \in Seq(S) /\ Len(p) = n /\ \A j \in 1..n : p[j] = q[j]
    BY CutPlaces
  <1>2. /\ r \in Seq(S) /\ Len(r) = Len(q) - n
        /\ \A j \in 1..Len(q) - n : r[j] = q[n + j]
    BY CutPlaces
  <1> HIDE DEF p, r
  <1>3. p \o r = q
    <2> DEFINE c == p \o r
    <2>1. /\ c \in Seq(S) /\ Len(c) = Len(q)
          /\ \A j \in 1..Len(q) : c[j] = q[j]
      <3>1. c \in Seq(S) /\ Len(c) = Len(q)
        BY <1>1, <1>2
      <3>2. \A j \in 1..Len(q) : c[j] = q[j]
        BY <1>1, <1>2
      <3> QED BY <3>1, <3>2
    <2> HIDE DEF c
    <2>2. /\ c = [j \in 1..Len(c) |-> c[j]]
          /\ q = [j \in 1..Len(q) |-> q[j]]
      BY <2>1
    <2>3. c = q
      BY <2>1, <2>2
    <2> QED BY <2>3 DEF c
  <1>4. /\ IsInjective(p) /\ IsInjective(r)
        /\ Range(p) \cap Range(r) = {} /\ Range(p) \cup Range(r) = Range(q)
    BY <1>1, <1>2, <1>3, ConcatFacts
  <1> QED
    BY <1>1, <1>2, <1>4 DEF p, r
-----------------------------------------------------------------------------
(* An item that comes in at place k, and where it then is. *)
LEMMA InsertAtPlaces ==
    ASSUME NEW S, NEW q \in Seq(S), NEW e \in S, NEW k \in 1..Len(q) + 1
    PROVE  /\ InsertAt(q, k, e) \in Seq(S)
           /\ Len(InsertAt(q, k, e)) = Len(q) + 1
           /\ \A j \in DOMAIN InsertAt(q, k, e) :
                 InsertAt(q, k, e)[j] =
                    IF j < k THEN q[j] ELSE IF j = k THEN e ELSE q[j - 1]
  <1> DEFINE before == SubSeq(q, 1, k - 1)
             after == SubSeq(q, k, Len(q))
  <1>1. /\ before \in Seq(S) /\ Len(before) = k - 1
        /\ \A j \in 1..k - 1 : before[j] = q[j]
    OBVIOUS
  <1>2. /\ after \in Seq(S) /\ Len(after) = Len(q) + 1 - k
        /\ \A j \in 1..Len(q) + 1 - k : after[j] = q[k + j - 1]
    OBVIOUS
  <1>3. InsertAt(q, k, e) = (before \o <<e>>) \o after
    BY DEF InsertAt
  <1>4. /\ before \o <<e>> \in Seq(S) /\ Len(before \o <<e>>) = k
        /\ \A j \in 1..k : (before \o <<e>>)[j] = IF j = k THEN e ELSE q[j]
    <2> HIDE DEF before
    <2> QED
      BY <1>1
  <1> DEFINE upTo == before \o <<e>>
  <1> HIDE DEF upTo, after
  <1> QED
    BY <1>2, <1>3, <1>4 DEF upTo

LEMMA InsertAtFacts ==
    ASSUME NEW S, NEW q \in Seq(S), NEW e \in S, NEW k \in 1..Len(q) + 1
    PROVE  /\ InsertAt(q, k, e) \in Seq(S)
           /\ Range(InsertAt(q, k, e)) = Range(q) \cup {e}
           /\ IsInjective(q) /\ e \notin Range(q) => IsInjective(InsertAt(q, k, e))
  <1> DEFINE r == InsertAt(q, k, e)
  <1>1. /\ r \in Seq(S) /\ Len(r) = Len(q) + 1
        /\ \A j \in DOMAIN r :
              r[j] = IF j < k THEN q[j] ELSE IF j = k THEN e ELSE q[j - 1]
    BY InsertAtPlaces
  <1>2. /\ DOMAIN q = 1..Len(q) /\ DOMAIN r = 1..Len(q) + 1 /\ Len(q) \in Nat
    BY <1>1
  <1> HIDE DEF r
  <1>3. \A j \in DOMAIN q : LET i == IF j < k THEN j ELSE j + 1
                            IN  i \in DOMAIN r /\ r[i] = q[j]
    BY <1>1, <1>2
  <1>4. k \in DOMAIN r /\ r[k] = e
    BY <1>1, <1>2
  <1>5. \A j \in DOMAIN r : j = k \/ LET i == IF j < k THEN j ELSE j - 1
                                     IN  i \in DOMAIN q /\ r[j] = q[i]
    BY <1>1, <1>2
  <1>6. Range(r) = Range(q) \cup {e}
    BY <1>3, <1>4, <1>5 DEF Range
  <1>7. ASSUME IsInjective(q), e \notin Range(q)
        PROVE  IsInjective(r)
    <2> SUFFICES ASSUME NEW a \in DOMAIN r, NEW b \in DOMAIN r, r[a] = r[b]
                 PROVE  a = b
      BY DEF IsInjective
    <2> DEFINE old(j) == IF j < k THEN j ELSE j - 1
    <2>1. \A j \in DOMAIN r : j # k => old(j) \in DOMAIN q /\ r[j] = q[old(j)] /\ r[j] # e
      BY <1>5, <1>7 DEF Range
    <2>2. (a = k) <=> (b = k)
      BY <1>4, <2>1
    <2>3. CASE a # k
      <3>1. old(a) = old(b)
        BY <1>7, <2>1, <2>2, <2>3 DEF IsInjective
      <3> QED
        BY <1>2, <2>2, <2>3, <3>1
    <2> QED BY <2>2, <2>3
  <1> QED
    BY <1>1, <1>6, <1>7 DEF r

(* An item goes; the others keep their order. *)
LEMMA RemoveAtFacts ==
    ASSUME NEW S, NEW q \in Seq(S), NEW k \in DOMAIN q
    PROVE  /\ RemoveAt(q, k) \in Seq(S)
           /\ Len(RemoveAt(q, k)) = Len(q) - 1
           /\ \A j \in DOMAIN RemoveAt(q, k) :
                 RemoveAt(q, k)[j] = q[IF j < k THEN j ELSE j + 1]
  <1> DEFINE before == SubSeq(q, 1, k - 1)
             after == SubSeq(q, k + 1, Len(q))
  <1>1. /\ before \in Seq(S) /\ Len(before) = k - 1
        /\ \A j \in 1 .. k - 1 : before[j] = q[j]
    OBVIOUS
  <1>2. /\ after \in Seq(S) /\ Len(after) = Len(q) - k
        /\ \A j \in 1 .. Len(q) - k : after[j] = q[k + j]
    OBVIOUS
  <1>3. RemoveAt(q, k) = before \o after
    BY DEF RemoveAt
  <1> HIDE DEF before, after
  <1> QED
    BY <1>1, <1>2, <1>3

(* A list whose elements are in a smaller set is a list over that set. *)
LEMMA ElementsIn ==
    ASSUME NEW S, NEW T, NEW q \in Seq(S), \A j \in DOMAIN q : q[j] \in T
    PROVE  q \in Seq(T)
  <1>1. q = [j \in 1..Len(q) |-> q[j]] /\ Len(q) \in Nat /\ DOMAIN q = 1..Len(q)
    OBVIOUS
  <1> QED BY <1>1

(* Inserting before the items behind: the place, and what the others keep.  *)
LEMMA InsertBeforePlace ==
    ASSUME NEW S, NEW q \in Seq(S), NEW e, NEW behind
    PROVE  \E k \in 1..Len(q) + 1 :
              /\ InsertBefore(q, e, behind) = InsertAt(q, k, e)
              /\ k \in DOMAIN q => q[k] \in behind
              /\ \A j \in 1..k - 1 : q[j] \notin behind
  <1> DEFINE places == {k \in DOMAIN q : q[k] \in behind}
             least == CHOOSE k \in places : \A j \in places : k <= j
  <1>1. DOMAIN q = 1..Len(q) /\ Len(q) \in Nat
    OBVIOUS
  <1>2. CASE places = {}
    <2>1. InsertBefore(q, e, behind) = InsertAt(q, Len(q) + 1, e)
      BY <1>2 DEF InsertBefore
    <2>2. \A j \in 1..Len(q) : q[j] \notin behind
      BY <1>1, <1>2
    <2> QED BY <1>1, <2>1, <2>2
  <1>3. CASE places # {}
    <2>1. places \in SUBSET Nat
      BY <1>1
    <2>2. \E k \in places : \A j \in places : k <= j
      <3> HIDE DEF places
      <3> QED BY <1>3, <2>1, LeastNatural
    <2>3. least \in places /\ \A j \in places : least <= j
      <3> HIDE DEF places
      <3> QED BY <2>2
    <2>4. InsertBefore(q, e, behind) = InsertAt(q, least, e)
      BY <1>3 DEF InsertBefore
    <2> HIDE DEF least
    <2>5. least \in 1..Len(q) /\ q[least] \in behind
      BY <1>1, <2>3
    <2>6. \A j \in 1..least - 1 : q[j] \notin behind
      BY <1>1, <2>3, <2>5
    <2> QED BY <2>4, <2>5, <2>6
  <1> QED BY <1>2, <1>3

LEMMA InsertBeforeFacts ==
    ASSUME NEW S, NEW q \in Seq(S), NEW e \in S, NEW behind
    PROVE  LET r == InsertBefore(q, e, behind)
           IN  /\ r \in Seq(S) /\ Range(r) = Range(q) \cup {e}
               /\ IsInjective(q) /\ e \notin Range(q) => IsInjective(r)
  <1>1. PICK k \in 1..Len(q) + 1 : InsertBefore(q, e, behind) = InsertAt(q, k, e)
    BY InsertBeforePlace
  <1> QED BY <1>1, InsertAtFacts

-----------------------------------------------------------------------------
(* The numbers of a finite set, counted from the least one up: every count  *)
(* up to the size of the set is that of one of them.                        *)
Rank(K, k) == Cardinality({j \in K : j <= k})

LEMMA RankFacts ==
    ASSUME NEW K \in SUBSET Nat, IsFiniteSet(K)
    PROVE  /\ Cardinality(K) \in Nat
           /\ \A k \in K : Rank(K, k) \in 1..Cardinality(K)
           /\ \A a, b \in K : a < b <=> Rank(K, a) < Rank(K, b)
           /\ \A n \in 1..Cardinality(K) : \E k \in K : Rank(K, k) = n
  <1> DEFINE Upto(k) == {j \in K : j <= k}
             N == Cardinality(K)
  <1>1. N \in Nat
    BY FS_CardinalityType
  <1>2. \A k \in K : /\ Upto(k) \in SUBSET K /\ k \in Upto(k)
                     /\ IsFiniteSet(Upto(k)) /\ Cardinality(Upto(k)) \in 1..N
    <2> TAKE k \in K
    <2>1. Upto(k) \in SUBSET K /\ k \in Upto(k)
      OBVIOUS
    <2> HIDE DEF Upto
    <2>2. IsFiniteSet(Upto(k)) /\ Cardinality(Upto(k)) <= N
      BY <2>1, FS_Subset
    <2>3. Cardinality(Upto(k)) \in Nat /\ Cardinality(Upto(k)) # 0
      BY <2>1, <2>2, FS_CardinalityType, FS_EmptySet
    <2> QED BY <1>1, <2>1, <2>2, <2>3
  <1>3. \A k \in K : Rank(K, k) = Cardinality(Upto(k))
    BY DEF Rank
  <1>4. ASSUME NEW a \in K, NEW b \in K, a < b
        PROVE  Cardinality(Upto(a)) < Cardinality(Upto(b))
    <2>a. a \in Nat /\ b \in Nat /\ \A j \in K : j \in Nat
      OBVIOUS
    <2>b. \A j \in K : j <= a => j <= b
      BY <1>4, <2>a
    <2>c. b <= b /\ ~ (b <= a)
      BY <1>4, <2>a
    <2>1. Upto(a) \in SUBSET Upto(b) /\ b \in Upto(b) /\ b \notin Upto(a)
      BY <2>b, <2>c, Zenon
    <2> HIDE DEF Upto
    <2>2. /\ Cardinality(Upto(a)) <= Cardinality(Upto(b))
          /\ Cardinality(Upto(b)) = Cardinality(Upto(a)) => Upto(b) = Upto(a)
      BY <1>2, <2>1, FS_Subset
    <2> QED BY <1>2, <2>1, <2>2
  <1>5. \A a, b \in K : a < b <=> Rank(K, a) < Rank(K, b)
    <2> TAKE a, b \in K
    <2>1. a < b \/ b < a \/ a = b
      OBVIOUS
    <2> HIDE DEF Upto
    <2>2. Cardinality(Upto(a)) \in Nat /\ Cardinality(Upto(b)) \in Nat
      BY <1>1, <1>2
    <2> QED BY <1>3, <1>4, <2>1, <2>2
  <1> DEFINE f == [k \in K |-> Rank(K, k)]
  <1> HIDE DEF N, Upto
  <1>6. f \in [K -> 1..N]
    BY <1>2, <1>3
  <1>7. \A a, b \in K : f[a] = f[b] => a = b
    <2> TAKE a, b \in K
    <2>1. a < b \/ b < a \/ a = b
      OBVIOUS
    <2>2. Rank(K, a) \in Nat /\ Rank(K, b) \in Nat
      BY <1>1, <1>2, <1>3
    <2> QED BY <1>5, <2>1, <2>2
  <1>8. f \in Injection(K, 1..N)
    BY <1>6, <1>7 DEF Injection, IsInjective
  <1>9. IsFiniteSet(1..N) /\ Cardinality(1..N) = N
    BY <1>1, FS_Interval
  <1> HIDE DEF f
  <1>10. f \in Surjection(K, 1..N)
    BY <1>8, <1>9, FS_Injection DEF N
  <1>11. \A n \in 1..N : \E k \in K : f[k] = n
    BY <1>10 DEF Surjection
  <1> QED
    BY <1>1, <1>2, <1>3, <1>5, <1>11 DEF f, N

(* A list r without the items in X has the others of q, in their order: its *)
(* n-th item stood at place p[n].                                           *)
OthersInOrder(q, X, r, p) ==
    /\ \A n \in DOMAIN r : r[n] = q[p[n]] /\ r[n] \notin X
    /\ \A m, n \in DOMAIN r : m < n => p[m] < p[n]
    /\ \A k \in DOMAIN q : q[k] \notin X => \E n \in DOMAIN r : p[n] = k

LEMMA WithoutPlaces ==
    ASSUME NEW S, NEW q \in Seq(S), NEW X
    PROVE  LET r == Without(q, X)
           IN  /\ r \in Seq(S)
               /\ \E p \in [DOMAIN r -> DOMAIN q] : OthersInOrder(q, X, r, p)
  <1> DEFINE K == {k \in DOMAIN q : q[k] \notin X}
             N == Cardinality(K)
             place(n) == CHOOSE k \in K : Rank(K, k) = n
             r == [n \in 1..N |-> q[place(n)]]
             p == [n \in 1..N |-> place(n)]
  <1>1. Without(q, X) = r
    BY DEF Without, Rank
  <1>2. /\ K \in SUBSET Nat /\ DOMAIN q = 1..Len(q) /\ Len(q) \in Nat
        /\ K \in SUBSET (1..Len(q))
    OBVIOUS
  <1>3. IsFiniteSet(K)
    <2> HIDE DEF K
    <2>1. IsFiniteSet(1..Len(q))
      BY <1>2, FS_Interval
    <2> QED BY <1>2, <2>1, FS_Subset
  <1>4. /\ N \in Nat
        /\ \A k \in K : Rank(K, k) \in 1..N
        /\ \A a, b \in K : a < b <=> Rank(K, a) < Rank(K, b)
        /\ \A n \in 1..N : \E k \in K : Rank(K, k) = n
    <2> HIDE DEF K
    <2> QED BY <1>2, <1>3, RankFacts
  <1>5. \A n \in 1..N : place(n) \in K /\ Rank(K, place(n)) = n
    <2> HIDE DEF K, N
    <2> QED BY <1>4
  <1>6. \A k \in K : q[k] \in S /\ q[k] \notin X /\ k \in DOMAIN q
    BY <1>2
  <1> HIDE DEF K, N, place
  <1>7. r \in Seq(S) /\ DOMAIN r = 1..N
    BY <1>4, <1>5, <1>6
  <1>8. p \in [DOMAIN r -> DOMAIN q]
    BY <1>5, <1>6, <1>7
  <1>9. \A n \in DOMAIN r : r[n] = q[p[n]] /\ r[n] \notin X
    BY <1>5, <1>6, <1>7
  <1>10. \A m, n \in DOMAIN r : m < n => p[m] < p[n]
    BY <1>4, <1>5, <1>7
  <1>11. \A k \in K : \E n \in DOMAIN r : p[n] = k
    <2> TAKE k \in K
    <2> DEFINE n == Rank(K, k)
    <2>1. n \in 1..N /\ place(n) \in K /\ Rank(K, place(n)) = n
      BY <1>4, <1>5
    <2>2. place(n) = k
      <3>1. ~ (place(n) < k) /\ ~ (k < place(n))
        BY <1>4, <2>1
      <3>2. place(n) \in Nat /\ k \in Nat
        BY <1>2, <2>1
      <3> QED BY <3>1, <3>2
    <2> QED BY <1>7, <2>1, <2>2
  <1>12. \A k \in DOMAIN q : q[k] \notin X => k \in K
    BY DEF K
  <1> HIDE DEF r, p
  <1>13. OthersInOrder(q, X, r, p)
    BY <1>9, <1>10, <1>11, <1>12 DEF OthersInOrder
  <1> QED BY <1>1, <1>7, <1>8, <1>13

LEMMA WithoutFacts ==
    ASSUME NEW S, NEW q \in Seq(S), NEW X
    PROVE  LET r == Without(q, X)
           IN  /\ r \in Seq(S) /\ Range(r) = Range(q) \ X
               /\ IsInjective(q) => IsInjective(r)
  <1> DEFINE r == Without(q, X)
  <1>1. r \in Seq(S) /\ \E p \in [DOMAIN r -> DOMAIN q] : OthersInOrder(q, X, r, p)
    BY WithoutPlaces
  <1> HIDE DEF r
  <1>2. PICK p \in [DOMAIN r -> DOMAIN q] : OthersInOrder(q, X, r, p)
    BY <1>1
  <1>3. Range(r) = Range(q) \ X
    BY <1>2 DEF Range, OthersInOrder
  <1>4. ASSUME IsInjective(q)
        PROVE  IsInjective(r)
    <2> SUFFICES ASSUME NEW a \in DOMAIN r, NEW b \in DOMAIN r, r[a] = r[b]
                 PROVE  a = b
      BY DEF IsInjective
    <2>1. p[a] = p[b]
      BY <1>2, <1>4 DEF IsInjective, OthersInOrder
    <2>2. a \in Nat /\ b \in Nat /\ p[a] \in Nat
      BY <1>1, <1>2
    <2>3. ~ (a < b) /\ ~ (b < a)
      BY <1>2, <2>1, <2>2 DEF OthersInOrder
    <2> QED BY <2>2, <2>3
  <1> QED BY <1>1, <1>3, <1>4 DEF r

-----------------------------------------------------------------------------
(* Counting. *)

LEMMA RangeCount ==
    ASSUME NEW S, NEW q \in Seq(S), IsInjective(q)
    PROVE  IsFiniteSet(Range(q)) /\ Cardinality(Range(q)) = Len(q)
  <1>1. Len(q) \in Nat /\ q \in [1..Len(q) -> S]
    OBVIOUS
  <1>2. q \in Bijection(1..Len(q), Range(q))
    BY <1>1 DEF Bijection, Injection, Surjection, Range
  <1>3. IsFiniteSet(1..Len(q)) /\ Cardinality(1..Len(q)) = Len(q)
    BY <1>1, FS_Interval
  <1> QED
    BY <1>2, <1>3, FS_Bijection DEF ExistsBijection

LEMMA DisjointCount ==
    ASSUME NEW A, NEW B, IsFiniteSet(A), IsFiniteSet(B), A \cap B = {}
    PROVE  IsFiniteSet(A \cup B) /\ Cardinality(A \cup B) = Cardinality(A) + Cardinality(B)
  <1> DEFINE a == Cardinality(A)
             b == Cardinality(B)
  <1>1. a \in Nat /\ b \in Nat
    BY FS_CardinalityType
  <1>2. PICK f : f \in Bijection(1..a, A)
    BY FS_CardinalityType DEF ExistsBijection
  <1>3. PICK g : g \in Bijection(1..b, B)
    BY FS_CardinalityType DEF ExistsBijection
  <1> HIDE DEF a, b
  <1> DEFINE h == [i \in 1..a + b |-> IF i <= a THEN f[i] ELSE g[i - a]]
  <1>4. /\ f \in [1..a -> A] /\ \A i, j \in 1..a : f[i] = f[j] => i = j
        /\ \A x \in A : \E i \in 1..a : f[i] = x
    BY <1>2 DEF Bijection, Injection, Surjection, IsInjective
  <1>5. /\ g \in [1..b -> B] /\ \A i, j \in 1..b : g[i] = g[j] => i = j
        /\ \A x \in B : \E i \in 1..b : g[i] = x
    BY <1>3 DEF Bijection, Injection, Surjection, IsInjective
  <1>6. ASSUME NEW i \in 1..a + b
        PROVE  /\ i <= a => i \in 1..a /\ h[i] = f[i] /\ h[i] \in A
               /\ ~ (i <= a) => i - a \in 1..b /\ h[i] = g[i - a] /\ h[i] \in B
    BY <1>1, <1>4, <1>5, <1>6
  <1>7. ASSUME NEW i \in 1..a + b, NEW j \in 1..a + b, h[i] = h[j] PROVE i = j
    <2>1. CASE i <= a
      <3>1. j <= a
        BY <1>6, <1>7, <2>1
      <3> QED
        BY <1>4, <1>6, <1>7, <2>1, <3>1
    <2>2. CASE ~ (i <= a)
      <3>1. ~ (j <= a)
        BY <1>6, <1>7, <2>2
      <3>2. i - a = j - a
        BY <1>5, <1>6, <1>7, <2>2, <3>1
      <3> QED
        BY <1>1, <3>2
    <2> QED
      BY <2>1, <2>2
  <1>8. ASSUME NEW x \in A \cup B PROVE \E i \in 1..a + b : h[i] = x
    <2>1. CASE x \in A
      <3>1. PICK i \in 1..a : f[i] = x
        BY <1>4, <2>1
      <3>2. i \in 1..a + b /\ i <= a
        BY <1>1
      <3> QED
        BY <1>6, <3>1, <3>2
    <2>2. CASE x \in B
      <3>1. PICK i \in 1..b : g[i] = x
        BY <1>5, <2>2
      <3>2. i + a \in 1..a + b /\ ~ (i + a <= a) /\ (i + a) - a = i
        BY <1>1
      <3> QED
        BY <1>6, <3>1, <3>2
    <2> QED
      BY <1>8, <2>1, <2>2
  <1>9. h \in [1..a + b -> A \cup B]
    BY <1>6
  <1> HIDE DEF h
  <1>10. h \in Bijection(1..a + b, A \cup B)
    BY <1>7, <1>8, <1>9, Zenon DEF Bijection, Injection, Surjection, IsInjective
  <1>11. IsFiniteSet(1..a + b) /\ Cardinality(1..a + b) = a + b
    <2>1. 1 \in Int /\ a + b \in Int /\ ~ (1 > a + b /\ a + b # 0)
      BY <1>1
    <2>2. /\ IsFiniteSet(1..a + b)
          /\ Cardinality(1..a + b) = IF 1 > a + b THEN 0 ELSE (a + b) - 1 + 1
      BY <2>1, FS_Interval
    <2> QED
      BY <1>1, <2>1, <2>2
  <1> QED
    BY <1>10, <1>11, FS_Bijection DEF ExistsBijection, a, b
=============================================================================
