------------------------ MODULE TopologicalSortProofs ------------------------
(***************************************************************************)
(* What AgentRun's sortItemsTopologically returns, for every list of       *)
(* items: the last item of each local id, once, an item whose parent is in *)
(* the list after its parent, and as they come the items on a cycle of     *)
(* parents or under one.  The two recursive functions of the definition    *)
(* are built up step by step, and read off by induction on the step.       *)
(***************************************************************************)
EXTENDS AgentRun, SetInduction

\* No two items of b have the same local id.
Distinct(b) == \A m, n \in DOMAIN b : b[m].id = b[n].id => m = n

\* Nor any two at the places in S.
Alone(b, S) == \A m, n \in S : b[m].id = b[n].id => m = n

-----------------------------------------------------------------------------
(* Listed.                                                                 *)

Keeps(b, S, g, n) ==
  IF n = 0 THEN <<>> ELSE IF n \in S THEN Append(g[n - 1], b[n]) ELSE g[n - 1]

\* The recursive function of Listed is this one.
LEMMA ListedIs ==
  ASSUME NEW b \in Seq(GeneratedItem), NEW S
  PROVE  \E g : (\A n \in 0..Len(b) : g[n] = Keeps(b, S, g, n)) /\ Listed(b, S) = g[Len(b)]
<1> DEFINE N == Len(b)
           Def(g) == g = [n \in 0..N |->
                            IF n = 0 THEN <<>>
                            ELSE IF n \in S THEN Append(g[n - 1], b[n]) ELSE g[n - 1]]
           UpTo0(k, g) == \A n \in 0..N : n <= k => g[n] = Keeps(b, S, g, n)
           Built == {k \in Nat : \E g : DOMAIN g = 0..N /\ UpTo0(k, g)}
<1>1. N \in Nat
  OBVIOUS
<1>2. 0 \in Built
  <2> DEFINE g == [n \in 0..N |-> <<>>]
  <2>1. DOMAIN g = 0..N /\ UpTo0(0, g)
    BY <1>1 DEF Keeps
  <2> QED
    BY <2>1
<1>3. ASSUME NEW k \in Built PROVE k + 1 \in Built
  <2>1. PICK g : DOMAIN g = 0..N /\ UpTo0(k, g)
    OBVIOUS
  <2> DEFINE h == [n \in 0..N |-> Keeps(b, S, g, n)]
  <2>2. \A n \in 0..N : n <= k => h[n] = g[n]
    BY <2>1
  <2>3. ASSUME NEW n \in 0..N, n <= k + 1 PROVE h[n] = Keeps(b, S, h, n)
    <3>1. h[n] = Keeps(b, S, g, n)
      OBVIOUS
    <3>2. n # 0 => n - 1 \in 0..N /\ n - 1 <= k
      BY <1>1, <2>3
    <3>3. n # 0 => h[n - 1] = g[n - 1]
      BY <2>2, <3>2
    <3> HIDE DEF h
    <3> QED
      BY <3>1, <3>3 DEF Keeps
  <2>4. DOMAIN h = 0..N
    OBVIOUS
  <2> HIDE DEF h
  <2>5. UpTo0(k + 1, h)
    BY <2>3
  <2> QED
    BY <2>4, <2>5
<1>4. Built = Nat
  <2> HIDE DEF Built
  <2>1. Built \in SUBSET Nat
    BY DEF Built
  <2> QED
    BY <1>2, <1>3, <2>1, NaturalsAll
<1>5. \E g : Def(g)
  <2>1. PICK g : DOMAIN g = 0..N /\ UpTo0(N, g)
    BY <1>1, <1>4
  <2> DEFINE h == [n \in 0..N |-> Keeps(b, S, g, n)]
  <2>2. \A n \in 0..N : h[n] = g[n]
    BY <1>1, <2>1
  <2>3. \A n \in 0..N : Keeps(b, S, g, n) = Keeps(b, S, h, n)
    <3> SUFFICES ASSUME NEW n \in 0..N PROVE Keeps(b, S, g, n) = Keeps(b, S, h, n)
      OBVIOUS
    <3>1. n # 0 => n - 1 \in 0..N
      BY <1>1
    <3>2. n # 0 => h[n - 1] = g[n - 1]
      BY <2>2, <3>1
    <3> HIDE DEF h
    <3> QED
      BY <3>2 DEF Keeps
  <2>4. h = [n \in 0..N |-> Keeps(b, S, h, n)]
    BY <2>3
  <2>5. Def(h)
    <3> HIDE DEF h
    <3> QED
      BY <2>4, Zenon DEF Keeps
  <2> QED
    BY <2>5
<1>6. Listed(b, S) = (CHOOSE g : Def(g))[N]
  BY Zenon DEF Listed
<1>7. PICK g : g = (CHOOSE f : Def(f))
  OBVIOUS
<1>8. Def(g)
  BY <1>5, <1>7
<1>9. g = [n \in 0..N |-> Keeps(b, S, g, n)]
  BY <1>8, Zenon DEF Keeps
<1>10. \A n \in 0..N : g[n] = Keeps(b, S, g, n)
  <2> HIDE DEF Def
  <2> SUFFICES ASSUME NEW n \in 0..N PROVE g[n] = Keeps(b, S, g, n)
    OBVIOUS
  <2>1. g[n] = [m \in 0..N |-> Keeps(b, S, g, m)][n]
    BY <1>9, Zenon
  <2> QED
    BY <2>1
<1> QED
  BY <1>6, <1>7, <1>10

\* Listed returns a list of the items of b at the places in S, each once when no two
\* of those have the same local id.
LEMMA ListedItems ==
  ASSUME NEW b \in Seq(GeneratedItem), NEW S \in SUBSET DOMAIN b
  PROVE  /\ Listed(b, S) \in Seq(GeneratedItem)
         /\ \A i : i \in ItemsOf(Listed(b, S)) <=> \E m \in S : i = b[m]
         /\ Alone(b, S) => Distinct(Listed(b, S))
<1> DEFINE N == Len(b)
<1>1. PICK g : (\A n \in 0..N : g[n] = Keeps(b, S, g, n)) /\ Listed(b, S) = g[N]
  BY ListedIs
<1> DEFINE Good(n) == /\ g[n] \in Seq(GeneratedItem)
                      /\ \A i : i \in ItemsOf(g[n]) <=> \E m \in S : m <= n /\ i = b[m]
                      /\ Alone(b, S) => Distinct(g[n])
           P == {n \in Nat : n <= N => Good(n)}
<1>2. N \in Nat /\ DOMAIN b = 1..N /\ \A n \in 1..N : b[n] \in GeneratedItem
  OBVIOUS
<1>3. 0 \in P
  <2>1. g[0] = <<>>
    BY <1>1, <1>2 DEF Keeps
  <2>2. \A m \in S : ~(m <= 0)
    BY <1>2
  <2>3. Good(0)
    BY <2>1, <2>2 DEF ItemsOf, Distinct
  <2> QED
    BY <2>3
<1>4. ASSUME NEW n \in P PROVE n + 1 \in P
  <2> SUFFICES ASSUME n + 1 <= N PROVE Good(n + 1)
    OBVIOUS
  <2>1. n \in Nat /\ n + 1 \in 1..N /\ n + 1 \in 0..N /\ (n + 1) - 1 = n /\ n <= N
    BY <1>2
  <2>2. Good(n)
    BY <2>1
  <2>3. g[n + 1] = IF n + 1 \in S THEN Append(g[n], b[n + 1]) ELSE g[n]
    BY <1>1, <2>1 DEF Keeps
  <2>4. PICK s : s = g[n]
    OBVIOUS
  <2>5. /\ s \in Seq(GeneratedItem) /\ (Alone(b, S) => Distinct(s))
        /\ \A i : i \in ItemsOf(s) <=> \E m \in S : m <= n /\ i = b[m]
    BY <2>2, <2>4
  <2>6. CASE n + 1 \in S
    <3> DEFINE x == b[n + 1]
    <3>1. x \in GeneratedItem
      BY <1>2, <2>1
    <3>2. PICK t : t = Append(s, x)
      OBVIOUS
    <3>3. g[n + 1] = t
      BY <2>3, <2>4, <2>6, <3>2
    <3>4. t \in Seq(GeneratedItem) /\ Len(t) = Len(s) + 1 /\ Len(s) \in Nat
      BY <2>5, <3>1, <3>2
    <3>5. (\A k \in 1..Len(s) : t[k] = s[k]) /\ t[Len(s) + 1] = x
      BY <2>5, <3>2
    <3>6. DOMAIN t = 1..Len(s) + 1 /\ DOMAIN s = 1..Len(s)
      BY <2>5, <3>4
    <3>7. \A i : i \in ItemsOf(t) <=> i \in ItemsOf(s) \/ i = x
      <4> HIDE DEF x
      <4>1. 1..Len(s) + 1 = 1..Len(s) \cup {Len(s) + 1}
        BY <3>4
      <4>2. {t[k] : k \in DOMAIN t} = {t[k] : k \in 1..Len(s)} \cup {t[Len(s) + 1]}
        BY <3>6, <4>1
      <4>3. {t[k] : k \in 1..Len(s)} = {s[k] : k \in DOMAIN s}
        BY <3>5, <3>6
      <4> QED
        BY <3>5, <4>2, <4>3 DEF ItemsOf
    <3>8. \A i : i \in ItemsOf(t) <=> \E m \in S : m <= n + 1 /\ i = b[m]
      <4>1. \A m \in S : m <= n + 1 <=> m <= n \/ m = n + 1
        BY <1>2, <2>1
      <4>2. ASSUME NEW i
            PROVE (\E m \in S : m <= n + 1 /\ i = b[m]) <=> (\E m \in S : m <= n /\ i = b[m]) \/ i = x
        BY <2>6, <4>1
      <4> HIDE DEF x
      <4> QED
        BY <2>5, <3>7, <4>2
    <3>9. ASSUME Alone(b, S), NEW k \in 1..Len(s), s[k].id = x.id PROVE FALSE
      <4>1. s[k] \in ItemsOf(s)
        BY <3>6 DEF ItemsOf
      <4>2. PICK m \in S : m <= n /\ s[k] = b[m]
        BY <2>5, <4>1
      <4>3. b[m].id = b[n + 1].id
        BY <3>9, <4>2
      <4>4. m = n + 1
        BY <2>6, <3>9, <4>3 DEF Alone
      <4> QED
        BY <2>1, <4>2, <4>4
    <3>10. Alone(b, S) => Distinct(t)
      <4> HIDE DEF x
      <4> SUFFICES ASSUME Alone(b, S),
                          NEW k \in 1..Len(s) + 1, NEW l \in 1..Len(s) + 1, t[k].id = t[l].id
                   PROVE k = l
        BY <3>6 DEF Distinct
      <4>1. CASE k \in 1..Len(s) /\ l \in 1..Len(s)
        BY <2>5, <3>5, <3>6, <4>1 DEF Distinct
      <4>2. CASE k = Len(s) + 1 /\ l \in 1..Len(s)
        BY <3>5, <3>9, <4>2
      <4>3. CASE l = Len(s) + 1 /\ k \in 1..Len(s)
        BY <3>5, <3>9, <4>3
      <4> QED
        BY <3>4, <4>1, <4>2, <4>3
    <3> HIDE DEF x
    <3> QED
      BY <3>3, <3>4, <3>8, <3>10
  <2>7. CASE n + 1 \notin S
    <3>1. g[n + 1] = s
      BY <2>3, <2>4, <2>7
    <3>2. \A m \in S : m <= n + 1 <=> m <= n
      BY <1>2, <2>1, <2>7
    <3> QED
      BY <2>5, <3>1, <3>2
  <2> QED
    BY <2>6, <2>7
<1>5. P = Nat
  <2> HIDE DEF P
  <2>1. P \in SUBSET Nat
    BY DEF P
  <2> QED
    BY <1>3, <1>4, <2>1, NaturalsAll
<1>6. Good(N)
  <2>1. N \in P
    BY <1>2, <1>5
  <2> HIDE DEF Good, N
  <2> QED
    BY <1>2, <2>1
<1>7. \A m \in S : m <= N
  BY <1>2
<1>8. PICK l : l = Listed(b, S)
  OBVIOUS
<1>9. /\ l \in Seq(GeneratedItem) /\ (Alone(b, S) => Distinct(l))
      /\ \A i : i \in ItemsOf(l) <=> \E m \in S : m <= N /\ i = b[m]
  BY <1>1, <1>6, <1>8
<1>10. \A i : i \in ItemsOf(l) <=> \E m \in S : i = b[m]
  BY <1>7, <1>9
<1> QED
  BY <1>8, <1>9, <1>10

-----------------------------------------------------------------------------
(* The queue.                                                              *)

\* The local ids that wait for none of the list.
Rootless(b) == Listed(b, {m \in DOMAIN b : IsFirst(b, m) /\ ParentsIn(b, b[m].id) = {}})

\* What the definition makes of the queue it ends with.
Ordered(b, q) ==
  [k \in DOMAIN q |-> itemMap(b, q[k].id)] \o Listed(b, {m \in DOMAIN b : b[m].id \notin IDs(q)})

Takes(b, g, n) ==
  IF n = 0 THEN Rootless(b)
  ELSE IF n > Len(g[n - 1]) THEN g[n - 1]
  ELSE g[n - 1] \o Listed(b, Released(b, g[n - 1], n))

\* The recursive function of sortItemsTopologically is this one.
LEMMA QueueIs ==
  ASSUME NEW b \in Seq(GeneratedItem)
  PROVE  \E g : /\ \A n \in 0..Len(b) : g[n] = Takes(b, g, n)
                /\ sortItemsTopologically(b) = Ordered(b, g[Len(b)])
<1> DEFINE N == Len(b)
           Def(g) == g = [n \in 0..N |->
                            IF n = 0
                            THEN Listed(b, {m \in DOMAIN b :
                                              IsFirst(b, m) /\ ParentsIn(b, b[m].id) = {}})
                            ELSE LET q == g[n - 1] IN
                                 IF n > Len(q) THEN q ELSE q \o Listed(b, Released(b, q, n))]
           UpTo0(k, g) == \A n \in 0..N : n <= k => g[n] = Takes(b, g, n)
           Built == {k \in Nat : \E g : DOMAIN g = 0..N /\ UpTo0(k, g)}
<1>1. N \in Nat
  OBVIOUS
<1>2. 0 \in Built
  <2> DEFINE g == [n \in 0..N |-> Rootless(b)]
  <2>1. DOMAIN g = 0..N /\ UpTo0(0, g)
    BY <1>1 DEF Takes
  <2> QED
    BY <2>1
<1>3. ASSUME NEW k \in Built PROVE k + 1 \in Built
  <2>1. PICK g : DOMAIN g = 0..N /\ UpTo0(k, g)
    OBVIOUS
  <2> DEFINE h == [n \in 0..N |-> Takes(b, g, n)]
  <2>2. \A n \in 0..N : n <= k => h[n] = g[n]
    BY <2>1
  <2>3. ASSUME NEW n \in 0..N, n <= k + 1 PROVE h[n] = Takes(b, h, n)
    <3>1. h[n] = Takes(b, g, n)
      OBVIOUS
    <3>2. n # 0 => n - 1 \in 0..N /\ n - 1 <= k
      BY <1>1, <2>3
    <3>3. n # 0 => h[n - 1] = g[n - 1]
      BY <2>2, <3>2
    <3> HIDE DEF h
    <3> QED
      BY <3>1, <3>3 DEF Takes
  <2>4. DOMAIN h = 0..N
    OBVIOUS
  <2> HIDE DEF h
  <2>5. UpTo0(k + 1, h)
    BY <2>3
  <2> QED
    BY <2>4, <2>5
<1>4. Built = Nat
  <2> HIDE DEF Built
  <2>1. Built \in SUBSET Nat
    BY DEF Built
  <2> QED
    BY <1>2, <1>3, <2>1, NaturalsAll
<1>5. \E g : Def(g)
  <2>1. PICK g : DOMAIN g = 0..N /\ UpTo0(N, g)
    BY <1>1, <1>4
  <2> DEFINE h == [n \in 0..N |-> Takes(b, g, n)]
  <2>2. \A n \in 0..N : h[n] = g[n]
    BY <1>1, <2>1
  <2>3. \A n \in 0..N : Takes(b, g, n) = Takes(b, h, n)
    <3> SUFFICES ASSUME NEW n \in 0..N PROVE Takes(b, g, n) = Takes(b, h, n)
      OBVIOUS
    <3>1. n # 0 => n - 1 \in 0..N
      BY <1>1
    <3>2. n # 0 => h[n - 1] = g[n - 1]
      BY <2>2, <3>1
    <3> HIDE DEF h
    <3> QED
      BY <3>2 DEF Takes
  <2>4. h = [n \in 0..N |-> Takes(b, h, n)]
    BY <2>3
  <2>5. Def(h)
    <3> HIDE DEF h
    <3> QED
      BY <2>4, Zenon DEF Takes, Rootless
  <2> QED
    BY <2>5
<1>6. sortItemsTopologically(b) = Ordered(b, (CHOOSE g : Def(g))[N])
  BY Zenon DEF sortItemsTopologically, Ordered
<1>7. PICK g : g = (CHOOSE f : Def(f))
  OBVIOUS
<1>8. Def(g)
  BY <1>5, <1>7
<1>9. g = [n \in 0..N |-> Takes(b, g, n)]
  BY <1>8, Zenon DEF Takes, Rootless
<1>10. \A n \in 0..N : g[n] = Takes(b, g, n)
  <2> HIDE DEF Def
  <2> SUFFICES ASSUME NEW n \in 0..N PROVE g[n] = Takes(b, g, n)
    OBVIOUS
  <2>1. g[n] = [m \in 0..N |-> Takes(b, g, m)][n]
    BY <1>9, Zenon
  <2> QED
    BY <2>1
<1> HIDE DEF Def
<1>11. sortItemsTopologically(b) = Ordered(b, g[N])
  BY <1>6, <1>7, Zenon
<1> QED
  BY <1>10, <1>11

\* Of places in a list, one comes first and one comes last.
LEMMA Extremes ==
  ASSUME NEW b \in Seq(GeneratedItem), NEW T \in SUBSET DOMAIN b, T # {}
  PROVE  /\ \E m \in T : \A k \in T : m =< k
         /\ \E m \in T : \A k \in T : k =< m
<1> DEFINE N == Len(b)
           U == {N - m : m \in T}
<1>1. N \in Nat /\ T \subseteq 1..N
  OBVIOUS
<1>2. T \in SUBSET Nat
  BY <1>1
<1>3. U \in SUBSET Nat /\ U # {}
  BY <1>1
<1>4. \E m \in T : \A k \in T : m =< k
  BY <1>2, LeastNatural
<1>5. PICK x \in U : \A y \in U : x =< y
  BY <1>3, LeastNatural
<1>6. PICK m \in T : x = N - m
  OBVIOUS
<1>7. \A k \in T : N - k \in U
  OBVIOUS
<1>8. \A k \in T : N - m =< N - k
  BY <1>5, <1>6, <1>7
<1>9. \A k \in T : k =< m
  BY <1>1, <1>8
<1> QED
  BY <1>4, <1>9

\* The items of a list are the values it has.
LEMMA InItems ==
  ASSUME NEW s
  PROVE  \A i : i \in ItemsOf(s) <=> \E k \in DOMAIN s : s[k] = i
BY DEF ItemsOf

\* What one list after another holds.
LEMMA Concat ==
  ASSUME NEW s \in Seq(GeneratedItem), NEW t \in Seq(GeneratedItem)
  PROVE  /\ s \o t \in Seq(GeneratedItem)
         /\ DOMAIN (s \o t) = 1..Len(s) + Len(t)
         /\ \A k \in DOMAIN s : k \in DOMAIN (s \o t) /\ (s \o t)[k] = s[k]
         /\ \A k \in DOMAIN t : Len(s) + k \in DOMAIN (s \o t) /\ (s \o t)[Len(s) + k] = t[k]
         /\ \A k \in DOMAIN (s \o t) :
              \/ k \in DOMAIN s
              \/ k > Len(s) /\ k - Len(s) \in DOMAIN t /\ (s \o t)[k] = t[k - Len(s)]
         /\ ItemsOf(s \o t) = ItemsOf(s) \cup ItemsOf(t)
<1>1. PICK u : u = s \o t
  OBVIOUS
<1>2. /\ u \in Seq(GeneratedItem) /\ Len(u) = Len(s) + Len(t)
      /\ Len(s) \in Nat /\ Len(t) \in Nat
      /\ DOMAIN u = 1..Len(s) + Len(t) /\ DOMAIN s = 1..Len(s) /\ DOMAIN t = 1..Len(t)
  BY <1>1
<1>3. \A k \in DOMAIN s : k \in DOMAIN u /\ u[k] = s[k]
  BY <1>1, <1>2
<1>4. \A k \in DOMAIN t : Len(s) + k \in DOMAIN u /\ u[Len(s) + k] = t[k]
  BY <1>1, <1>2
<1>5. \A k \in DOMAIN u :
        \/ k \in DOMAIN s
        \/ k > Len(s) /\ k - Len(s) \in DOMAIN t /\ u[k] = t[k - Len(s)]
  BY <1>1, <1>2
<1>6. ItemsOf(u) = ItemsOf(s) \cup ItemsOf(t)
  <2>1. ASSUME NEW i \in ItemsOf(u) PROVE i \in ItemsOf(s) \cup ItemsOf(t)
    <3>1. PICK k \in DOMAIN u : u[k] = i
      BY InItems
    <3> QED
      BY <1>3, <1>5, <3>1, InItems
  <2>2. ASSUME NEW i \in ItemsOf(s) PROVE i \in ItemsOf(u)
    <3>1. PICK k \in DOMAIN s : s[k] = i
      BY InItems
    <3> QED
      BY <1>3, <3>1, InItems
  <2>3. ASSUME NEW i \in ItemsOf(t) PROVE i \in ItemsOf(u)
    <3>1. PICK k \in DOMAIN t : t[k] = i
      BY InItems
    <3> QED
      BY <1>4, <3>1, InItems
  <2> QED
    BY <2>1, <2>2, <2>3
<1> QED
  BY <1>1, <1>2, <1>3, <1>4, <1>5, <1>6

\* Two lists without an id in common make one with distinct ids.
LEMMA ConcatDistinct ==
  ASSUME NEW s \in Seq(GeneratedItem), NEW t \in Seq(GeneratedItem), Distinct(s), Distinct(t),
         \A i \in ItemsOf(s), j \in ItemsOf(t) : i.id # j.id
  PROVE  Distinct(s \o t)
<1>1. PICK u : u = s \o t
  OBVIOUS
<1>2. /\ \A k \in DOMAIN s : u[k] = s[k] /\ u[k] \in ItemsOf(s)
      /\ \A k \in DOMAIN u :
           \/ k \in DOMAIN s
           \/ k - Len(s) \in DOMAIN t /\ u[k] = t[k - Len(s)] /\ u[k] \in ItemsOf(t)
      /\ DOMAIN u = 1..Len(s) + Len(t) /\ Len(s) \in Nat /\ Len(t) \in Nat
  BY <1>1, Concat, InItems
<1> SUFFICES ASSUME NEW k \in DOMAIN u, NEW l \in DOMAIN u, u[k].id = u[l].id PROVE k = l
  BY <1>1 DEF Distinct
<1>3. CASE k \in DOMAIN s /\ l \in DOMAIN s
  BY <1>2, <1>3 DEF Distinct
<1>4. CASE k \notin DOMAIN s /\ l \notin DOMAIN s
  <2>1. k - Len(s) = l - Len(s)
    BY <1>2, <1>4 DEF Distinct
  <2> QED
    BY <1>2, <2>1
<1>5. CASE k \in DOMAIN s /\ l \notin DOMAIN s
  BY <1>2, <1>5
<1>6. CASE k \notin DOMAIN s /\ l \in DOMAIN s
  BY <1>2, <1>6
<1> QED
  BY <1>3, <1>4, <1>5, <1>6

\* The local ids of the first n of the queue.
Taken(q, n) == {q[m].id : m \in {k \in DOMAIN q : k =< n}}

\* What the queue is after n items have been taken from it.
Queue(b, n, q) ==
  /\ q \in Seq(GeneratedItem)
  /\ Distinct(q)
  /\ ItemsOf(q) \subseteq ItemsOf(b)
  /\ \A k \in DOMAIN q : \A i \in ParentsIn(b, q[k].id) :
       \E m \in DOMAIN q : m < k /\ m =< n /\ q[m].id = i
  /\ \A x \in DOMAIN b : ParentsIn(b, b[x].id) \subseteq Taken(q, n) => b[x].id \in IDs(q)

\* At first it holds the local ids that wait for none.
LEMMA QueueStarts ==
  ASSUME NEW b \in Seq(GeneratedItem)
  PROVE  Queue(b, 0, Rootless(b))
<1> DEFINE S == {m \in DOMAIN b : IsFirst(b, m) /\ ParentsIn(b, b[m].id) = {}}
<1>1. PICK q : q = Rootless(b)
  OBVIOUS
<1>2. \A m, n \in S : b[m].id = b[n].id => m =< n /\ n =< m
  BY DEF IsFirst
<1>3. Alone(b, S)
  <2>1. \A m, n \in S : m \in Nat /\ n \in Nat
    OBVIOUS
  <2> HIDE DEF S
  <2> QED
    BY <1>2, <2>1 DEF Alone
<1>4. /\ q \in Seq(GeneratedItem) /\ Distinct(q)
      /\ \A i : i \in ItemsOf(q) <=> \E m \in S : i = b[m]
  <2>1. q = Listed(b, S)
    BY <1>1, Zenon DEF Rootless
  <2>2. S \in SUBSET DOMAIN b
    OBVIOUS
  <2> HIDE DEF S
  <2> QED
    BY <1>3, <2>1, <2>2, ListedItems
<1>5. \A k \in DOMAIN q : ParentsIn(b, q[k].id) = {}
  <2> SUFFICES ASSUME NEW k \in DOMAIN q PROVE ParentsIn(b, q[k].id) = {}
    OBVIOUS
  <2>1. PICK m \in S : q[k] = b[m]
    BY <1>4, InItems
  <2> QED
    BY <2>1
<1>6. Taken(q, 0) = {}
  <2>1. \A m \in DOMAIN q : ~(m =< 0)
    BY <1>4
  <2> QED
    BY <2>1 DEF Taken
<1>7. ItemsOf(q) \subseteq ItemsOf(b)
  <2>1. \A m \in S : b[m] \in ItemsOf(b)
    BY InItems
  <2> HIDE DEF S
  <2> QED
    BY <1>4, <2>1
<1>8. ASSUME NEW x \in DOMAIN b, ParentsIn(b, b[x].id) = {} PROVE b[x].id \in IDs(q)
  <2> DEFINE T == {m \in DOMAIN b : b[m].id = b[x].id}
  <2>1. T \in SUBSET DOMAIN b /\ T # {}
    OBVIOUS
  <2>2. PICK m \in T : \A k \in T : m =< k
    <3> HIDE DEF T
    <3> QED
      BY <2>1, Extremes
  <2>3. IsFirst(b, m)
    BY <2>2 DEF IsFirst
  <2>4. m \in S
    BY <1>8, <2>3
  <2>5. b[m] \in ItemsOf(q)
    BY <1>4, <2>4
  <2>6. PICK k \in DOMAIN q : q[k] = b[m]
    BY <2>5, InItems
  <2> QED
    BY <2>6 DEF IDs
<1> QED
  BY <1>1, <1>4, <1>5, <1>6, <1>7, <1>8 DEF Queue

\* An item taken from it brings in what waits for it and for no other any longer.
LEMMA QueueGrows ==
  ASSUME NEW b \in Seq(GeneratedItem), NEW n \in Nat, NEW q, Queue(b, n, q),
         n + 1 <= Len(q)
  PROVE  Queue(b, n + 1, q \o Listed(b, Released(b, q, n + 1)))
<1> DEFINE p == q[n + 1]
           R == Released(b, q, n + 1)
<1>1. /\ q \in Seq(GeneratedItem) /\ Len(q) \in Nat /\ DOMAIN q = 1..Len(q) /\ n + 1 \in DOMAIN q
      /\ Distinct(q) /\ ItemsOf(q) \subseteq ItemsOf(b)
  BY DEF Queue
<1>2. p \in GeneratedItem /\ p \in ItemsOf(q) /\ p \in ItemsOf(b)
  BY <1>1, InItems
<1>3. p.id \in IDs(b)
  <2>1. PICK m \in DOMAIN b : b[m] = p
    BY <1>2, InItems
  <2> QED
    BY <2>1 DEF IDs
<1>4. Taken(q, n + 1) = Taken(q, n) \cup {p.id}
  <2>1. {k \in DOMAIN q : k =< n + 1} = {k \in DOMAIN q : k =< n} \cup {n + 1}
    BY <1>1
  <2> QED
    BY <2>1 DEF Taken
<1>5. /\ R \in SUBSET DOMAIN b
      /\ \A m \in R : /\ b[m].under = p.id
                      /\ ParentsIn(b, b[m].id) \subseteq Taken(q, n + 1)
                      /\ \A k \in DOMAIN b : b[k].id = b[m].id /\ b[k].under = b[m].under => k =< m
      /\ \A m \in DOMAIN b : /\ b[m].under = p.id
                             /\ ParentsIn(b, b[m].id) \subseteq Taken(q, n + 1)
                             /\ \A k \in DOMAIN b : b[k].id = b[m].id /\ b[k].under = b[m].under => k =< m
                             => m \in R
  <2>1. {q[k].id : k \in 1..n + 1} = Taken(q, n + 1)
    <3>1. {k \in DOMAIN q : k =< n + 1} = 1..n + 1
      BY <1>1
    <3> QED
      BY <3>1 DEF Taken
  <2> QED
    BY <2>1 DEF Released
<1>6. ASSUME NEW k \in DOMAIN q, p.id \in ParentsIn(b, q[k].id) PROVE FALSE
  <2>1. PICK m \in DOMAIN q : m < k /\ m =< n /\ q[m].id = p.id
    BY <1>6 DEF Queue
  <2>2. m = n + 1
    BY <1>1, <2>1 DEF Distinct
  <2> QED
    BY <1>1, <2>1, <2>2
<1>7. Alone(b, R)
  <2>1. \A m, k \in R : b[m].id = b[k].id => k =< m /\ m =< k
    BY <1>5
  <2>2. \A m \in R : m \in Nat
    BY <1>5
  <2> HIDE DEF R
  <2> QED
    BY <2>1, <2>2 DEF Alone
<1> HIDE DEF p, R
<1>8. PICK t : t = Listed(b, R)
  OBVIOUS
<1>9. /\ t \in Seq(GeneratedItem) /\ Distinct(t)
      /\ \A i : i \in ItemsOf(t) <=> \E m \in R : i = b[m]
  BY <1>5, <1>7, <1>8, ListedItems
<1>10. \A x \in DOMAIN b : b[x].under = p.id => p.id \in ParentsIn(b, b[x].id)
  <2> SUFFICES ASSUME NEW x \in DOMAIN b, b[x].under = p.id PROVE p.id \in ParentsIn(b, b[x].id)
    OBVIOUS
  <2>1. b[x] \in {j \in ItemsOf(b) : j.id = b[x].id}
    BY InItems
  <2> QED
    BY <1>3, <2>1 DEF ParentsIn
<1>11. \A i \in ItemsOf(q), j \in ItemsOf(t) : i.id # j.id
  <2> SUFFICES ASSUME NEW i \in ItemsOf(q), NEW j \in ItemsOf(t), i.id = j.id PROVE FALSE
    OBVIOUS
  <2>1. PICK k \in DOMAIN q : q[k] = i
    BY InItems
  <2>2. PICK m \in R : j = b[m]
    BY <1>9
  <2>3. m \in DOMAIN b /\ b[m].under = p.id
    BY <1>5
  <2>4. p.id \in ParentsIn(b, q[k].id)
    BY <1>10, <2>1, <2>2, <2>3
  <2> QED
    BY <1>6, <2>4
<1>12. PICK u : u = q \o t
  OBVIOUS
<1>13. /\ u \in Seq(GeneratedItem) /\ Distinct(u)
       /\ ItemsOf(u) = ItemsOf(q) \cup ItemsOf(t)
       /\ \A k \in DOMAIN q : k \in DOMAIN u /\ u[k] = q[k]
       /\ \A k \in DOMAIN u : k \in DOMAIN q \/ (k > Len(q) /\ u[k] \in ItemsOf(t))
       /\ DOMAIN u \subseteq Nat
  <2>1. u \in Seq(GeneratedItem) /\ ItemsOf(u) = ItemsOf(q) \cup ItemsOf(t)
    BY <1>1, <1>9, <1>12, Concat
  <2>2. Distinct(u)
    BY <1>1, <1>9, <1>11, <1>12, ConcatDistinct
  <2>3. /\ \A k \in DOMAIN q : k \in DOMAIN u /\ u[k] = q[k]
        /\ \A k \in DOMAIN u :
             \/ k \in DOMAIN q
             \/ k > Len(q) /\ k - Len(q) \in DOMAIN t /\ u[k] = t[k - Len(q)]
    BY <1>1, <1>9, <1>12, Concat
  <2>4. \A k \in DOMAIN t : t[k] \in ItemsOf(t)
    BY InItems
  <2>5. DOMAIN u \subseteq Nat
    BY <2>1
  <2> QED
    BY <2>1, <2>2, <2>3, <2>4, <2>5
<1>14. ItemsOf(u) \subseteq ItemsOf(b)
  <2>1. \A m \in R : b[m] \in ItemsOf(b)
    BY <1>5, InItems
  <2> QED
    BY <1>1, <1>9, <1>13, <2>1
<1>15. Taken(u, n + 1) = Taken(q, n + 1)
  <2>1. {k \in DOMAIN u : k =< n + 1} = {k \in DOMAIN q : k =< n + 1}
    BY <1>1, <1>13
  <2> QED
    BY <1>13, <2>1 DEF Taken
<1>16. ASSUME NEW k \in DOMAIN u, NEW i \in ParentsIn(b, u[k].id)
       PROVE \E m \in DOMAIN u : m < k /\ m =< n + 1 /\ u[m].id = i
  <2>1. CASE k \in DOMAIN q
    <3>1. PICK m \in DOMAIN q : m < k /\ m =< n /\ q[m].id = i
      BY <1>13, <1>16, <2>1 DEF Queue
    <3> QED
      BY <1>1, <1>13, <2>1, <3>1
  <2>2. CASE k > Len(q) /\ u[k] \in ItemsOf(t)
    <3>1. PICK x \in R : u[k] = b[x]
      BY <1>9, <2>2
    <3>2. i \in Taken(q, n + 1)
      BY <1>5, <1>16, <3>1
    <3>3. PICK m \in DOMAIN q : m =< n + 1 /\ q[m].id = i
      BY <3>2 DEF Taken
    <3>4. m < k
      BY <1>1, <1>13, <2>2, <3>3
    <3> QED
      BY <1>13, <3>3, <3>4
  <2> QED
    BY <1>13, <2>1, <2>2
<1>17. IDs(q) \subseteq IDs(u)
  BY <1>13 DEF IDs
<1>18. ASSUME NEW x \in DOMAIN b, ParentsIn(b, b[x].id) \subseteq Taken(q, n + 1)
       PROVE b[x].id \in IDs(u)
  <2>1. CASE p.id \notin ParentsIn(b, b[x].id)
    <3>1. ParentsIn(b, b[x].id) \subseteq Taken(q, n)
      BY <1>4, <1>18, <2>1
    <3>2. b[x].id \in IDs(q)
      BY <3>1 DEF Queue
    <3> QED
      BY <1>17, <3>2
  <2>2. CASE p.id \in ParentsIn(b, b[x].id)
    <3> DEFINE T == {m \in DOMAIN b : b[m].id = b[x].id /\ b[m].under = p.id}
    <3>1. PICK j \in ItemsOf(b) : j.id = b[x].id /\ j.under = p.id
      BY <2>2 DEF ParentsIn
    <3>2. PICK y \in DOMAIN b : b[y] = j
      BY InItems
    <3>3. T \in SUBSET DOMAIN b /\ T # {}
      BY <3>1, <3>2
    <3>4. PICK m \in T : \A k \in T : k =< m
      <4> HIDE DEF T
      <4> QED
        BY <3>3, Extremes
    <3>5. m \in R
      BY <1>5, <1>18, <3>4
    <3>6. b[m] \in ItemsOf(u)
      BY <1>9, <1>13, <3>5
    <3>7. PICK k \in DOMAIN u : u[k] = b[m]
      BY <3>6, InItems
    <3> QED
      BY <3>7 DEF IDs
  <2> QED
    BY <2>1, <2>2
<1>19. Queue(b, n + 1, u)
  BY <1>13, <1>14, <1>15, <1>16, <1>18 DEF Queue
<1> QED
  BY <1>8, <1>12, <1>19 DEF R

\* When there is none left to take, nothing changes.
LEMMA QueueRests ==
  ASSUME NEW b \in Seq(GeneratedItem), NEW n \in Nat, NEW q, Queue(b, n, q), n + 1 > Len(q)
  PROVE  Queue(b, n + 1, q)
<1>1. \A m \in DOMAIN q : m =< n /\ m =< n + 1
  BY DEF Queue
<1>2. Taken(q, n + 1) = Taken(q, n)
  BY <1>1 DEF Taken
<1> QED
  BY <1>1, <1>2 DEF Queue

\* A list without repetition of items of b is no longer than b.
LEMMA NoLonger ==
  ASSUME NEW b \in Seq(GeneratedItem), NEW q \in Seq(GeneratedItem), Distinct(q),
         ItemsOf(q) \subseteq ItemsOf(b)
  PROVE  Len(q) <= Len(b)
<1> DEFINE Where(k) == CHOOSE m \in 1..Len(b) : b[m] = q[k]
           f == [k \in 1..Len(q) |-> Where(k)]
<1>1. Len(q) \in Nat /\ Len(b) \in Nat /\ DOMAIN q = 1..Len(q) /\ DOMAIN b = 1..Len(b)
  OBVIOUS
<1>2. ASSUME NEW k \in 1..Len(q) PROVE Where(k) \in 1..Len(b) /\ b[Where(k)] = q[k]
  <2>1. q[k] \in ItemsOf(q)
    BY <1>1, InItems
  <2>2. \E m \in 1..Len(b) : b[m] = q[k]
    BY <1>1, <2>1, InItems
  <2> QED
    BY <2>2
<1> HIDE DEF Where
<1>3. f \in [1..Len(q) -> 1..Len(b)]
  BY <1>2
<1>4. ASSUME NEW k \in 1..Len(q), NEW l \in 1..Len(q), f[k] = f[l] PROVE k = l
  <2>1. q[k] = q[l]
    BY <1>2, <1>4
  <2> QED
    BY <1>1, <2>1 DEF Distinct
<1>5. f \in Injection(1..Len(q), 1..Len(b))
  <2> HIDE DEF f
  <2> QED
    BY <1>3, <1>4 DEF Injection, IsInjective
<1>6. \A n \in Nat : IsFiniteSet(1..n) /\ Cardinality(1..n) = n
  <2> SUFFICES ASSUME NEW n \in Nat PROVE IsFiniteSet(1..n) /\ Cardinality(1..n) = n
    OBVIOUS
  <2>1. IsFiniteSet(1..n) /\ Cardinality(1..n) = IF 1 > n THEN 0 ELSE n - 1 + 1
    BY FS_Interval
  <2> QED
    BY <2>1
<1> HIDE DEF f
<1> QED
  BY <1>1, <1>5, <1>6, FS_Injection

\* The queue that the definition ends with.
LEMMA QueueEnds ==
  ASSUME NEW b \in Seq(GeneratedItem)
  PROVE  \E q : /\ Queue(b, Len(b), q) /\ Len(q) <= Len(b)
                /\ sortItemsTopologically(b) = Ordered(b, q)
<1> DEFINE N == Len(b)
<1>1. PICK g : /\ \A n \in 0..N : g[n] = Takes(b, g, n)
               /\ sortItemsTopologically(b) = Ordered(b, g[N])
  BY QueueIs
<1> DEFINE P == {n \in Nat : n <= N => Queue(b, n, g[n])}
<1>2. N \in Nat
  OBVIOUS
<1>3. 0 \in P
  <2>1. g[0] = Rootless(b)
    BY <1>1, <1>2 DEF Takes
  <2> QED
    BY <2>1, QueueStarts
<1>4. ASSUME NEW n \in P PROVE n + 1 \in P
  <2> SUFFICES ASSUME n + 1 <= N PROVE Queue(b, n + 1, g[n + 1])
    OBVIOUS
  <2>1. n \in Nat /\ n + 1 \in 0..N /\ n + 1 # 0 /\ (n + 1) - 1 = n /\ n <= N
    BY <1>2
  <2>2. Queue(b, n, g[n])
    BY <2>1
  <2>3. PICK q : q = g[n]
    OBVIOUS
  <2>4. g[n + 1] = IF n + 1 > Len(q) THEN q ELSE q \o Listed(b, Released(b, q, n + 1))
    BY <1>1, <2>1, <2>3 DEF Takes
  <2>5. Len(q) \in Nat
    BY <2>2, <2>3 DEF Queue
  <2>6. CASE n + 1 > Len(q)
    BY <2>1, <2>2, <2>3, <2>4, <2>6, QueueRests
  <2>7. CASE n + 1 <= Len(q)
    BY <2>1, <2>2, <2>3, <2>4, <2>5, <2>7, QueueGrows
  <2> QED
    BY <2>1, <2>5, <2>6, <2>7
<1>5. P = Nat
  <2> HIDE DEF P
  <2>1. P \in SUBSET Nat
    BY DEF P
  <2> QED
    BY <1>3, <1>4, <2>1, NaturalsAll
<1>6. Queue(b, N, g[N])
  BY <1>2, <1>5
<1>7. Len(g[N]) <= N
  BY <1>6, NoLonger DEF Queue
<1> QED
  BY <1>1, <1>6, <1>7

\* The last item of a local id is the one that stands for it.
LEMMA TheLast ==
  ASSUME NEW b \in Seq(GeneratedItem)
  PROVE  /\ \A id \in IDs(b) : \E n \in DOMAIN b : b[n].id = id /\ IsLast(b, n)
         /\ \A n \in DOMAIN b : IsLast(b, n) => itemMap(b, b[n].id) = b[n]
<1>1. ASSUME NEW id \in IDs(b) PROVE \E n \in DOMAIN b : b[n].id = id /\ IsLast(b, n)
  <2> DEFINE T == {m \in DOMAIN b : b[m].id = id}
  <2>1. T \in SUBSET DOMAIN b /\ T # {}
    BY DEF IDs
  <2>2. PICK m \in T : \A k \in T : k =< m
    <3> HIDE DEF T
    <3> QED
      BY <2>1, Extremes
  <2> QED
    BY <2>2 DEF IsLast
<1>2. ASSUME NEW n \in DOMAIN b, IsLast(b, n) PROVE itemMap(b, b[n].id) = b[n]
  <2> DEFINE c == CHOOSE m \in DOMAIN b : b[m].id = b[n].id /\ IsLast(b, m)
  <2>1. c \in DOMAIN b /\ b[c].id = b[n].id /\ IsLast(b, c)
    BY <1>2
  <2>2. itemMap(b, b[n].id) = b[c]
    BY DEF itemMap
  <2> HIDE DEF c
  <2>3. c =< n /\ n =< c
    BY <1>2, <2>1 DEF IsLast
  <2>4. c \in Nat /\ n \in Nat
    BY <2>1
  <2>5. c = n
    BY <2>3, <2>4
  <2> QED
    BY <2>2, <2>5
<1> QED
  BY <1>1, <1>2

\* sortItemsTopologically returns items of its list, the last of each local id among
\* them, and no local id twice unless one that the list repeats is on a cycle.  An
\* item whose parent the list creates comes after that parent, and after no other
\* item of the parent's local id.
THEOREM SortedParentsFirst ==
  ASSUME NEW b \in Seq(GeneratedItem), NEW s, s = sortItemsTopologically(b)
  PROVE  /\ s \in Seq(GeneratedItem)
         /\ ItemsOf(s) \subseteq ItemsOf(b)
         /\ \A n \in DOMAIN b : IsLast(b, n) => b[n] \in ItemsOf(s)
         /\ KeepsBoth(b) \/ Distinct(s)
         /\ \A k \in DOMAIN s :
              CreatedParent(b, s[k]) # NoItem
              => \E m \in DOMAIN s :
                   /\ m < k /\ s[m].id = s[k].under /\ s[m].into = 0
                   /\ \A l \in DOMAIN s : l < k /\ s[l].id = s[k].under => l = m
<1>1. PICK q : Queue(b, Len(b), q) /\ Len(q) <= Len(b) /\ s = Ordered(b, q)
  BY QueueEnds
<1> DEFINE S == {m \in DOMAIN b : b[m].id \notin IDs(q)}
<1>2. PICK t : t = Listed(b, S)
  OBVIOUS
<1>3. PICK o : o = [k \in DOMAIN q |-> itemMap(b, q[k].id)]
  OBVIOUS
<1>4. s = o \o t
  BY <1>1, <1>2, <1>3, Zenon DEF Ordered
<1>5. /\ t \in Seq(GeneratedItem) /\ (Alone(b, S) => Distinct(t))
      /\ \A i : i \in ItemsOf(t) <=> \E m \in S : i = b[m]
  <2>1. S \in SUBSET DOMAIN b
    OBVIOUS
  <2> HIDE DEF S
  <2> QED
    BY <1>2, <2>1, ListedItems
<1>6. /\ q \in Seq(GeneratedItem) /\ Distinct(q) /\ ItemsOf(q) \subseteq ItemsOf(b)
      /\ DOMAIN q = 1..Len(q) /\ Len(q) \in Nat /\ Len(b) \in Nat
  BY <1>1 DEF Queue
<1>7. \A k \in DOMAIN q : \E n \in DOMAIN b : b[n].id = q[k].id /\ IsLast(b, n) /\ o[k] = b[n]
  <2> SUFFICES ASSUME NEW k \in DOMAIN q
               PROVE  \E n \in DOMAIN b : b[n].id = q[k].id /\ IsLast(b, n) /\ o[k] = b[n]
    OBVIOUS
  <2>1. q[k] \in ItemsOf(b)
    BY <1>6, InItems
  <2>2. PICK x \in DOMAIN b : b[x] = q[k]
    BY <2>1, InItems
  <2>3. q[k].id \in IDs(b)
    BY <2>2 DEF IDs
  <2>4. PICK n \in DOMAIN b : b[n].id = q[k].id /\ IsLast(b, n)
    BY <2>3, TheLast
  <2>5. itemMap(b, b[n].id) = b[n]
    BY <2>4, TheLast
  <2> QED
    BY <1>3, <2>4, <2>5
<1>8. o \in Seq(GeneratedItem) /\ Len(o) = Len(q) /\ DOMAIN o = DOMAIN q
  <2>1. \A k \in DOMAIN q : o[k] \in GeneratedItem
    BY <1>7
  <2>2. o \in [1..Len(q) -> GeneratedItem]
    BY <1>3, <1>6, <2>1
  <2> QED
    BY <1>6, <2>2
<1>9. \A k \in DOMAIN o : o[k].id = q[k].id /\ o[k] \in ItemsOf(b) /\ o[k].id \in IDs(q)
  BY <1>7, <1>8, InItems DEF IDs
<1>10. /\ s \in Seq(GeneratedItem)
       /\ ItemsOf(s) = ItemsOf(o) \cup ItemsOf(t)
       /\ DOMAIN s \subseteq Nat
       /\ \A n \in DOMAIN o : n \in DOMAIN s /\ s[n] = o[n]
       /\ \A n \in DOMAIN s : \/ n \in DOMAIN o
                              \/ n > Len(o) /\ n - Len(o) \in DOMAIN t /\ s[n] = t[n - Len(o)]
  BY <1>4, <1>5, <1>8, Concat
<1>11. ItemsOf(s) \subseteq ItemsOf(b)
  <2>1. ItemsOf(o) \subseteq ItemsOf(b)
    BY <1>9, InItems
  <2>2. ItemsOf(t) \subseteq ItemsOf(b)
    BY <1>5, InItems
  <2> QED
    BY <1>10, <2>1, <2>2
<1>12. ASSUME NEW n \in DOMAIN b, IsLast(b, n) PROVE b[n] \in ItemsOf(s)
  <2>1. CASE b[n].id \in IDs(q)
    <3>1. PICK k \in DOMAIN q : q[k].id = b[n].id
      BY <2>1 DEF IDs
    <3>2. o[k] = b[n]
      BY <1>3, <1>12, <3>1, TheLast
    <3>3. b[n] \in ItemsOf(o)
      BY <1>8, <3>2, InItems
    <3> QED
      BY <1>10, <3>3
  <2>2. CASE b[n].id \notin IDs(q)
    BY <1>5, <1>10, <2>2
  <2> QED
    BY <2>1, <2>2
<1>13. ASSUME NEW x \in S PROVE \E n \in DOMAIN b : b[n].id = b[x].id /\ OnCycle(b, n)
  <2> DEFINE C == {m \in S : b[m].under \in IDs(b) \ IDs(q)}
  <2>1. Taken(q, Len(b)) = IDs(q)
    <3>1. {k \in DOMAIN q : k =< Len(b)} = DOMAIN q
      BY <1>1, <1>6
    <3> QED
      BY <3>1 DEF Taken, IDs
  <2>2. \A y \in S : \E n \in C : b[n].id = b[y].id
    <3> SUFFICES ASSUME NEW y \in S PROVE \E n \in C : b[n].id = b[y].id
      OBVIOUS
    <3>1. ~(ParentsIn(b, b[y].id) \subseteq IDs(q))
      BY <1>1, <2>1 DEF Queue
    <3>2. PICK i \in ItemsOf(b) : i.id = b[y].id /\ i.under \in IDs(b) \ IDs(q)
      BY <3>1 DEF ParentsIn
    <3>3. PICK n \in DOMAIN b : b[n] = i
      BY InItems
    <3> QED
      BY <3>2, <3>3
  <2>3. PICK n \in C : b[n].id = b[x].id
    BY <2>2
  <2>4. ASSUME NEW m \in C PROVE \E k \in C : b[k].id = b[m].under
    <3>1. PICK y \in DOMAIN b : b[y].id = b[m].under
      BY DEF IDs
    <3>2. y \in S
      BY <3>1
    <3> QED
      BY <2>2, <3>1, <3>2
  <2>5. C \in SUBSET DOMAIN b /\ n \in DOMAIN b
    OBVIOUS
  <2> HIDE DEF C
  <2>6. OnCycle(b, n)
    BY <2>3, <2>4, <2>5 DEF OnCycle
  <2> QED
    BY <2>3, <2>5, <2>6
<1>14. ASSUME ~KeepsBoth(b) PROVE Distinct(s)
  <2>1. Alone(b, S)
    <3> SUFFICES ASSUME NEW m \in S, NEW n \in S, b[m].id = b[n].id, m # n PROVE FALSE
      BY DEF Alone
    <3>1. PICK x \in DOMAIN b : b[x].id = b[m].id /\ OnCycle(b, x)
      BY <1>13
    <3>2. \E y \in DOMAIN b : y # x /\ b[y].id = b[x].id
      BY <3>1
    <3> QED
      BY <1>14, <3>1, <3>2 DEF KeepsBoth
  <2>2. Distinct(o)
    BY <1>6, <1>8, <1>9 DEF Distinct
  <2>3. \A i \in ItemsOf(o) : i.id \in IDs(q)
    BY <1>9, InItems
  <2>4. \A i \in ItemsOf(t) : i.id \notin IDs(q)
    BY <1>5
  <2>5. \A i \in ItemsOf(o), j \in ItemsOf(t) : i.id # j.id
    BY <2>3, <2>4
  <2>6. Distinct(t)
    BY <1>5, <2>1
  <2>7. Distinct(o \o t)
    BY <1>5, <1>8, <2>2, <2>5, <2>6, ConcatDistinct
  <2> QED
    BY <1>4, <2>7
<1>15. ASSUME NEW k \in DOMAIN s, CreatedParent(b, s[k]) # NoItem
       PROVE \E m \in DOMAIN s :
               /\ m < k /\ s[m].id = s[k].under /\ s[m].into = 0
               /\ \A l \in DOMAIN s : l < k /\ s[l].id = s[k].under => l = m
  <2>1. /\ \A n \in DOMAIN b : b[n].id = s[k].id => ~OnCycle(b, n)
        /\ \E n \in DOMAIN b : b[n].id = s[k].under /\ IsLast(b, n) /\ b[n].into = 0
    BY <1>15 DEF CreatedParent
  <2>2. s[k] \notin ItemsOf(t)
    <3> SUFFICES ASSUME s[k] \in ItemsOf(t) PROVE FALSE
      OBVIOUS
    <3>1. PICK x \in S : s[k] = b[x]
      BY <1>5
    <3> QED
      BY <1>13, <2>1, <3>1
  <2>3. k \in DOMAIN q /\ s[k] = o[k] /\ s[k].id = q[k].id
    BY <1>8, <1>9, <1>10, <2>2, InItems
  <2>4. PICK p \in DOMAIN b : b[p].id = s[k].under /\ IsLast(b, p) /\ b[p].into = 0
    BY <2>1
  <2>5. s[k].under \in ParentsIn(b, q[k].id)
    <3>1. s[k] \in {j \in ItemsOf(b) : j.id = q[k].id}
      BY <1>8, <1>9, <2>3
    <3>2. s[k].under \in IDs(b)
      BY <2>4 DEF IDs
    <3> QED
      BY <3>1, <3>2 DEF ParentsIn
  <2>6. PICK m \in DOMAIN q : m < k /\ q[m].id = s[k].under
    BY <1>1, <2>3, <2>5 DEF Queue
  <2>7. m \in DOMAIN s /\ s[m] = o[m] /\ o[m].id = q[m].id
    BY <1>8, <1>9, <1>10, <2>6
  <2>8. s[m] = b[p]
    BY <1>3, <2>4, <2>6, <2>7, TheLast
  <2>9. ASSUME NEW l \in DOMAIN s, l < k, s[l].id = s[k].under PROVE l = m
    <3>1. l \in DOMAIN q
      BY <1>6, <1>8, <1>10, <2>3, <2>9
    <3>2. s[l].id = q[l].id
      BY <1>8, <1>9, <1>10, <3>1
    <3> QED
      BY <1>6, <2>6, <2>9, <3>1, <3>2 DEF Distinct
  <2> QED
    BY <2>4, <2>6, <2>7, <2>8, <2>9
<1> QED
  BY <1>10, <1>11, <1>12, <1>14, <1>15

=============================================================================
