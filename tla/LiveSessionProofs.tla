--------------------------- MODULE LiveSessionProofs ---------------------------
(***************************************************************************)
(* Theorems about LiveSession, for any number of sessions, tabs and        *)
(* incidents.                                                              *)
(***************************************************************************)
EXTENDS LiveSession, TLAPS, FiniteSetTheorems, SequenceTheorems, WellFoundedInduction

-----------------------------------------------------------------------------
(* Least and n-th elements of finite sets of positions.                    *)

LEMMA Least ==
  ASSUME NEW S \in SUBSET Nat, S # {}
  PROVE  \E i \in S : \A j \in S : i <= j
<1>1. PICK i \in S : \A j \in S : ~ (<<j, i>> \in OpToRel(<, Nat))
  BY NatLessThanWellFounded, WFMin
<1>2. ASSUME NEW j \in S, j < i PROVE FALSE
  <2>1. <<j, i>> \in Nat \X Nat /\ <<j, i>>[1] < <<j, i>>[2]
    BY <1>2
  <2>2. <<j, i>> \in OpToRel(<, Nat)
    BY <2>1 DEF OpToRel
  <2> QED
    BY <1>1, <2>2
<1> QED
  BY <1>2

Places(S) == \E n \in Nat : S \subseteq 1..n

LEMMA PlacesAreNaturals ==
  ASSUME NEW S, Places(S)
  PROVE  /\ \A i \in S : i \in Nat /\ i \in Int
         /\ \A T \in SUBSET S : Places(T)
BY DEF Places

LEMMA Greatest ==
  ASSUME NEW S, Places(S), S # {}
  PROVE  \E i \in S : \A j \in S : j <= i
<1> DEFINE Above == {u \in Nat : \A j \in S : j <= u}
<1>1. PICK n \in Nat : S \subseteq 1..n
  BY DEF Places
<1>2. \A j \in S : j \in Nat /\ j > 0 /\ j <= n
  BY <1>1
<1>3. n \in Above
  BY <1>2
<1>4. PICK u \in Above : \A v \in Above : u <= v
  <2> HIDE DEF Above
  <2>1. Above \in SUBSET Nat
    BY DEF Above
  <2> QED
    BY <2>1, <1>3, Least
<1>5. CASE u \in S
  BY <1>4, <1>5
<1>6. CASE u \notin S
  <2>1. \A j \in S : j < u
    BY <1>2, <1>4, <1>6
  <2>2. u - 1 \in Above
    BY <1>2, <1>4, <2>1
  <2> QED
    BY <1>4, <2>2
<1> QED
  BY <1>5, <1>6

Below(S, i) == {j \in S : j < i}

LEMMA BelowFacts ==
  ASSUME NEW S, Places(S), NEW i \in S
  PROVE  /\ Below(S, i) \in SUBSET S
         /\ i \notin Below(S, i)
         /\ Places(Below(S, i))
         /\ \A j \in S : j < i => /\ j \in Below(S, i)
                                 /\ Below(S, j) = Below(Below(S, i), j)
                                 /\ Below(S, j) \in SUBSET Below(S, i)
BY PlacesAreNaturals DEF Below

LEMMA PlacesFinite ==
  ASSUME NEW S, Places(S)
  PROVE  IsFiniteSet(S) /\ Cardinality(S) \in Nat
<1>1. PICK n \in Nat : S \in SUBSET (1..n)
  BY DEF Places
<1>2. IsFiniteSet(1..n)
  BY FS_Interval
<1> QED
  BY <1>1, <1>2, FS_Subset, FS_CardinalityType

LEMMA BelowFinite ==
  ASSUME NEW S, Places(S), NEW i \in S
  PROVE  /\ IsFiniteSet(Below(S, i)) /\ Cardinality(Below(S, i)) \in Nat
         /\ Cardinality(Below(S, i)) < Cardinality(S)
<1>1. IsFiniteSet(S) /\ Cardinality(S) \in Nat
  BY PlacesFinite
<1>2. Below(S, i) \in SUBSET S /\ Below(S, i) # S
  BY BelowFacts
<1> QED
  BY <1>1, <1>2, FS_Subset, FS_CardinalityType

LEMMA BelowGrows ==
  ASSUME NEW S, Places(S), NEW i \in S, NEW j \in S, i < j
  PROVE  Cardinality(Below(S, i)) < Cardinality(Below(S, j))
<1>1. Places(Below(S, j)) /\ i \in Below(S, j) /\ Below(S, i) = Below(Below(S, j), i)
  BY BelowFacts
<1> QED
  BY <1>1, BelowFinite

\* Up to its greatest element a set is what is below that and itself.
LEMMA UpTo ==
  ASSUME NEW S, Places(S), NEW m \in S, \A j \in S : j <= m
  PROVE  Cardinality(S) = Cardinality(Below(S, m)) + 1
<1>1. S = Below(S, m) \union {m} /\ m \notin Below(S, m)
  BY PlacesAreNaturals DEF Below
<1> QED
  BY <1>1, BelowFinite, FS_AddElement

\* NthOf enumerates a finite set of positions in their order.
LEMMA NthExists ==
  ASSUME NEW S, Places(S), NEW k \in 1..Cardinality(S)
  PROVE  /\ NthOf(S, k) \in S
         /\ Cardinality(Below(S, NthOf(S, k))) = k - 1
<1> DEFINE Late == {i \in S : Cardinality(Below(S, i)) >= k - 1}
<1>1. Cardinality(S) \in Nat /\ k \in Nat /\ S # {} /\ k <= Cardinality(S)
  BY PlacesFinite, FS_EmptySet
<1>2. PICK m \in S : \A j \in S : j <= m
  BY <1>1, Greatest
<1>3. m \in Late
  BY <1>1, <1>2, UpTo, BelowFinite
<1>4. PICK i \in Late : \A j \in Late : i <= j
  <2>1. Late \in SUBSET Nat
    BY PlacesAreNaturals
  <2> HIDE DEF Late
  <2> QED
    BY <2>1, <1>3, Least
<1>5. Cardinality(Below(S, i)) = k - 1
  <2> SUFFICES ASSUME Cardinality(Below(S, i)) > k - 1 PROVE FALSE
    BY <1>1, <1>4, BelowFinite
  <2> DEFINE L == Below(S, i)
  <2>1. Places(L) /\ L # {} /\ L \in SUBSET S
    <3>1. i \in S
      OBVIOUS
    <3>2. L # {}
      BY <1>1, <3>1, BelowFinite, FS_EmptySet
    <3> QED
      BY <3>1, <3>2, BelowFacts
  <2>2. PICK l \in L : \A j \in L : j <= l
    BY <2>1, Greatest
  <2>3. Cardinality(L) = Cardinality(Below(L, l)) + 1
    BY <2>1, <2>2, UpTo
  <2>4. l \in S /\ l < i /\ l \in Int /\ i \in Int
    BY <2>2, PlacesAreNaturals DEF Below
  <2>5. Below(S, l) = Below(L, l)
    BY <2>4, BelowFacts
  <2>6. l \in Late
    BY <1>1, <2>3, <2>4, <2>5, BelowFinite
  <2> QED
    BY <1>4, <2>4, <2>6
<1>6. Below(S, i) = {j \in S : j < i}
  BY DEF Below
<1> QED
  BY <1>4, <1>5, <1>6 DEF NthOf, Below

LEMMA NthGrows ==
  ASSUME NEW S, Places(S),
         NEW k \in 1..Cardinality(S), NEW l \in 1..Cardinality(S), k < l
  PROVE  NthOf(S, k) < NthOf(S, l)
<1> DEFINE a == NthOf(S, k)
           b == NthOf(S, l)
<1>1. /\ a \in S /\ Cardinality(Below(S, a)) = k - 1
      /\ b \in S /\ Cardinality(Below(S, b)) = l - 1
  BY NthExists
<1>2. a \in Int /\ b \in Int /\ k \in Int /\ l \in Int
  BY <1>1, PlacesAreNaturals
<1> HIDE DEF a, b
<1>3. a # b
  BY <1>1, <1>2
<1>4. ~(b < a)
  BY <1>1, <1>2, BelowGrows
<1>5. a < b
  BY <1>2, <1>3, <1>4
<1> QED
  BY <1>5 DEF a, b

LEMMA NthCovers ==
  ASSUME NEW S, Places(S), NEW i \in S
  PROVE  \E k \in 1..Cardinality(S) : NthOf(S, k) = i
<1> DEFINE k == Cardinality(Below(S, i)) + 1
           a == NthOf(S, k)
<1>1. k \in 1..Cardinality(S) /\ Cardinality(Below(S, i)) \in Nat
  BY BelowFinite, PlacesFinite
<1>2. a \in S /\ Cardinality(Below(S, a)) = k - 1
  BY <1>1, NthExists
<1>3. Cardinality(Below(S, a)) = Cardinality(Below(S, i))
  BY <1>1, <1>2
<1>4. i \in Int /\ a \in Int
  BY <1>2, PlacesAreNaturals
<1> HIDE DEF a
<1>5. ~(a < i) /\ ~(i < a)
  BY <1>1, <1>2, <1>3, BelowGrows
<1>6. a = i
  BY <1>4, <1>5
<1> QED
  BY <1>1, <1>6 DEF a

-----------------------------------------------------------------------------
(* What the operations on the queue keep of the work in it.                *)

In(q, s, t) == \E i \in DOMAIN q : q[i].session = s /\ q[i].type = t

One(q, s) ==
  \A i, j \in DOMAIN q : q[i].session = s /\ q[j].session = s => i = j

GenerateFirst(q, s) ==
  \A i, j \in DOMAIN q :
    q[i].session = s /\ q[j].session = s /\ q[j].type = "generate" => j <= i

\* q with some entries gone.
Thinner(p, q, s) ==
  /\ \A t : In(p, s, t) => In(q, s, t)
  /\ One(q, s) => One(p, s)
  /\ GenerateFirst(q, s) => GenerateFirst(p, s)

SameWork(p, q) ==
  \A s \in Sessions : Thinner(p, q, s) /\ \A t : In(q, s, t) => In(p, s, t)

LEMMA EntryFacts ==
  ASSUME NEW e \in Entries
  PROVE  /\ e.session \in Sessions => e.type \in Types /\ e.type # "exit"
         /\ e.session \notin Sessions => e.session = None /\ e.type = "exit"
BY NoneAssumption DEF Entries, Entry, Types

LEMMA PositionsFacts ==
  ASSUME NEW q \in Seq(Entries)
  PROVE  Places(DOMAIN q)
<1>1. DOMAIN q = 1..Len(q) /\ Len(q) \in Nat
  OBVIOUS
<1> QED
  BY <1>1 DEF Places

\* p keeps entries of q in their order: entry i of p was entry f[i] of q.
LEMMA KeepsOrder ==
  ASSUME NEW p \in Seq(Entries), NEW q \in Seq(Entries), NEW s,
         NEW f \in [DOMAIN p -> DOMAIN q],
         \A i, j \in DOMAIN p : i < j => f[i] < f[j],
         \A i \in DOMAIN p : p[i].session = q[f[i]].session /\ p[i].type = q[f[i]].type
  PROVE  Thinner(p, q, s)
<1>1. DOMAIN p \subseteq Int /\ DOMAIN q \subseteq Int
  OBVIOUS
<1>2. \A i, j \in DOMAIN p : f[j] <= f[i] => j <= i
  BY <1>1
<1>3. \A i, j \in DOMAIN p : f[i] = f[j] => i = j
  BY <1>1
<1>4. \A i \in DOMAIN p : f[i] \in DOMAIN q
  OBVIOUS
<1>5. \A t : In(p, s, t) => In(q, s, t)
  BY <1>4 DEF In
<1>6. One(q, s) => One(p, s)
  BY <1>3, <1>4 DEF One
<1>7. GenerateFirst(q, s) => GenerateFirst(p, s)
  BY <1>2, <1>4 DEF GenerateFirst
<1> QED
  BY <1>5, <1>6, <1>7 DEF Thinner

LEMMA NoExitsFacts ==
  ASSUME NEW q \in Seq(Entries)
  PROVE  /\ NoExits(q) \in Seq(Entries)
         /\ SameWork(NoExits(q), q)
         /\ ~In(NoExits(q), None, "exit")
<1> DEFINE kept == {i \in DOMAIN q : q[i].type # "exit"}
           f == [n \in 1..Cardinality(kept) |-> NthOf(kept, n)]
           p == NoExits(q)
<1>1. Places(kept)
  <2>1. kept \in SUBSET DOMAIN q
    OBVIOUS
  <2> QED
    BY <2>1, PositionsFacts, PlacesAreNaturals
<1>2. Cardinality(kept) \in Nat
  BY <1>1, PlacesFinite
<1>3. /\ p = [n \in 1..Cardinality(kept) |-> q[NthOf(kept, n)]]
      /\ DOMAIN p = 1..Cardinality(kept)
  BY DEF NoExits
<1>4. \A n \in 1..Cardinality(kept) : NthOf(kept, n) \in kept
  BY <1>1, NthExists
<1>5. \A n, m \in 1..Cardinality(kept) : n < m => NthOf(kept, n) < NthOf(kept, m)
  BY <1>1, NthGrows
<1>6. \A i \in kept : \E n \in 1..Cardinality(kept) : NthOf(kept, n) = i
  BY <1>1, NthCovers
<1>7. \A i \in kept : i \in DOMAIN q /\ q[i].type # "exit" /\ q[i] \in Entries
  OBVIOUS
<1>8. \A i \in DOMAIN q : q[i].type # "exit" => i \in kept
  OBVIOUS
<1> HIDE DEF kept, p
<1>9. p \in Seq(Entries)
  BY <1>2, <1>3, <1>4, <1>7
<1>10. \A n \in DOMAIN p : p[n] = q[NthOf(kept, n)]
  BY <1>3
<1>11. ASSUME NEW s \in Sessions PROVE Thinner(p, q, s)
  <2>1. f \in [DOMAIN p -> DOMAIN q]
    BY <1>3, <1>4, <1>7
  <2>2. \A i, j \in DOMAIN p : i < j => f[i] < f[j]
    BY <1>3, <1>5
  <2>3. \A i \in DOMAIN p : p[i].session = q[f[i]].session /\ p[i].type = q[f[i]].type
    BY <1>3, <1>10
  <2> HIDE DEF f
  <2> QED
    BY <1>9, <2>1, <2>2, <2>3, KeepsOrder
<1>12. ASSUME NEW s \in Sessions, NEW t, In(q, s, t) PROVE In(p, s, t)
  <2>1. PICK i \in DOMAIN q : q[i].session = s /\ q[i].type = t
    BY <1>12 DEF In
  <2>2. i \in kept
    BY <1>8, <2>1, EntryFacts
  <2>3. PICK n \in 1..Cardinality(kept) : NthOf(kept, n) = i
    BY <1>6, <2>2
  <2> QED
    BY <1>3, <1>10, <2>1, <2>3 DEF In
<1>13. ~In(p, None, "exit")
  BY <1>3, <1>4, <1>7, <1>10 DEF In
<1> QED
  BY <1>9, <1>11, <1>12, <1>13 DEF SameWork, p

LEMMA FirstFacts ==
  ASSUME NEW q \in Seq(Entries), NEW S \in SUBSET DOMAIN q, S # {}
  PROVE  First(S) \in S /\ \A j \in S : First(S) <= j
<1>1. S \in SUBSET Nat
  BY PositionsFacts, PlacesAreNaturals
<1>2. \E i \in S : \A j \in S : i <= j
  BY <1>1, Least
<1> QED
  BY <1>2 DEF First

LEMMA RemoveFacts ==
  ASSUME NEW q \in Seq(Entries), NEW i \in DOMAIN q, NEW s
  PROVE  /\ RemoveAt(q, i) \in Seq(Entries)
         /\ Thinner(RemoveAt(q, i), q, s)
         /\ q[i].session # s => \A t : In(q, s, t) => In(RemoveAt(q, i), s, t)
         /\ q[i].session = s /\ One(q, s) => \A t : ~In(RemoveAt(q, i), s, t)
         /\ /\ q[i].session = s /\ GenerateFirst(q, s)
            /\ \A j \in DOMAIN q : q[j].session = s => i <= j
            => ~In(RemoveAt(q, i), s, "generate")
<1> DEFINE p == RemoveAt(q, i)
           f == [k \in DOMAIN p |-> IF k < i THEN k ELSE k + 1]
<1>1. /\ DOMAIN q = 1..Len(q) /\ Len(q) \in Nat /\ i \in 1..Len(q)
      /\ \A j \in DOMAIN q : q[j] \in Entries
  OBVIOUS
<1>2. /\ p \in Seq(Entries)
      /\ Len(p) = Len(q) - 1
      /\ \A k \in 1..Len(p) : p[k] = IF k < i THEN q[k] ELSE q[k + 1]
  <2> DEFINE a == SubSeq(q, 1, i - 1)
             b == SubSeq(q, i + 1, Len(q))
  <2>1. a \in Seq(Entries) /\ Len(a) = i - 1 /\ \A k \in 1..(i - 1) : a[k] = q[k]
    BY <1>1, SubSeqProperties
  <2>2. /\ b \in Seq(Entries) /\ Len(b) = Len(q) - i
        /\ \A k \in 1..(Len(q) - i) : b[k] = q[i + k]
    BY <1>1, SubSeqProperties
  <2>3. p = a \o b
    BY DEF RemoveAt
  <2> HIDE DEF a, b, p
  <2>4. /\ p \in Seq(Entries)
        /\ Len(p) = Len(a) + Len(b)
        /\ \A k \in 1..(Len(a) + Len(b)) : p[k] = IF k <= Len(a) THEN a[k] ELSE b[k - Len(a)]
    BY <2>1, <2>2, <2>3, ConcatProperties
  <2>5. Len(p) = Len(q) - 1 /\ i \in Int /\ Len(q) \in Int
    BY <1>1, <2>1, <2>2, <2>4
  <2>6. ASSUME NEW k \in 1..Len(p) PROVE p[k] = IF k < i THEN q[k] ELSE q[k + 1]
    <3>1. p[k] = IF k <= i - 1 THEN a[k] ELSE b[k - (i - 1)]
      BY <2>1, <2>4
    <3>2. k \in Int /\ k >= 1 /\ k <= Len(q) - 1
      BY <2>5
    <3>3. CASE k < i
      <4>1. k <= i - 1 /\ k \in 1..(i - 1)
        BY <2>5, <3>2, <3>3
      <4> QED
        BY <2>1, <3>1, <3>3, <4>1
    <3>4. CASE ~(k < i)
      <4> DEFINE m == k - (i - 1)
      <4>1. ~(k <= i - 1) /\ m \in 1..(Len(q) - i) /\ i + m = k + 1
        BY <2>5, <3>2, <3>4
      <4>2. b[m] = q[i + m]
        BY <2>2, <4>1
      <4> QED
        BY <3>1, <3>4, <4>1, <4>2
    <3> QED
      BY <3>3, <3>4
  <2> QED
    BY <2>4, <2>5, <2>6
<1> HIDE DEF p
<1>3. DOMAIN p = 1..(Len(q) - 1)
  BY <1>2
<1>4. f \in [DOMAIN p -> DOMAIN q]
  BY <1>1, <1>3
<1>5. \A k, l \in DOMAIN p : k < l => f[k] < f[l]
  BY <1>1, <1>3
<1>6. \A k \in DOMAIN p : p[k] = q[f[k]] /\ f[k] # i /\ f[k] \in DOMAIN q
  BY <1>1, <1>2, <1>3
<1>7. \A j \in DOMAIN q : j # i => \E k \in DOMAIN p : f[k] = j
  <2> TAKE j \in DOMAIN q
  <2> HAVE j # i
  <2>1. CASE j < i
    <3>1. j \in DOMAIN p /\ f[j] = j
      BY <1>1, <1>3, <2>1
    <3> QED
      BY <3>1
  <2>2. CASE j > i
    <3>1. j - 1 \in DOMAIN p /\ f[j - 1] = j
      BY <1>1, <1>3, <2>2
    <3> QED
      BY <3>1
  <2> QED
    BY <1>1, <2>1, <2>2
<1> HIDE DEF f
<1>8. Thinner(p, q, s)
  BY <1>2, <1>4, <1>5, <1>6, KeepsOrder
<1>9. q[i].session # s => \A t : In(q, s, t) => In(p, s, t)
  BY <1>6, <1>7 DEF In
<1>10. q[i].session = s /\ One(q, s) => \A t : ~In(p, s, t)
  BY <1>6 DEF In, One
<1>11. ASSUME q[i].session = s, GenerateFirst(q, s),
              \A j \in DOMAIN q : q[j].session = s => i <= j
       PROVE  ~In(p, s, "generate")
  <2> SUFFICES ASSUME NEW k \in DOMAIN p, p[k].session = s, p[k].type = "generate"
               PROVE  FALSE
    BY DEF In
  <2>1. f[k] <= i /\ i <= f[k]
    BY <1>6, <1>11 DEF GenerateFirst
  <2> QED
    BY <1>1, <1>6, <2>1
<1> QED
  BY <1>2, <1>8, <1>9, <1>10, <1>11 DEF p

LEMMA SetLease ==
  ASSUME NEW q \in Seq(Entries), NEW i \in DOMAIN q, q[i].session # None,
         NEW l \in BOOLEAN, NEW p, p = [q EXCEPT ![i].leased = l]
  PROVE  /\ p \in Seq(Entries)
         /\ SameWork(p, q)
         /\ In(p, None, "exit") => In(q, None, "exit")
<1>1. q[i] \in [session : Sessions, type : Types, leased : BOOLEAN]
  BY DEF Entries, Entry
<1>2. [q[i] EXCEPT !.leased = l] \in Entries
  BY <1>1 DEF Entries
<1>3. p \in Seq(Entries) /\ DOMAIN p = DOMAIN q
  BY <1>2
<1>4. \A j \in DOMAIN q : p[j].session = q[j].session /\ p[j].type = q[j].type
  BY <1>1
<1> QED
  BY <1>3, <1>4 DEF SameWork, Thinner, In, One, GenerateFirst

LEMMA LeasedFacts ==
  ASSUME NEW q \in Seq(Entries), NEW i \in DOMAIN q
  PROVE  /\ Leased(q, i) \in Seq(Entries)
         /\ SameWork(Leased(q, i), q)
         /\ In(Leased(q, i), None, "exit") => In(q, None, "exit")
<1>1. CASE q[i].session = None
  <2>1. Leased(q, i) = RemoveAt(q, i)
    BY <1>1 DEF Leased
  <2>2. Thinner(RemoveAt(q, i), q, None) /\ RemoveAt(q, i) \in Seq(Entries)
    BY RemoveFacts
  <2>3. SameWork(RemoveAt(q, i), q)
    BY <1>1, NoneAssumption, RemoveFacts DEF SameWork
  <2> QED
    BY <2>1, <2>2, <2>3 DEF Thinner
<1>2. CASE q[i].session # None
  BY <1>2, SetLease DEF Leased
<1> QED
  BY <1>1, <1>2

LEMMA PushedFacts ==
  ASSUME NEW q \in Seq(Entries), NEW e \in Entries
  PROVE  /\ Append(q, e) \in Seq(Entries)
         /\ \A s, t : In(Append(q, e), s, t) <=> In(q, s, t) \/ (s = e.session /\ t = e.type)
         /\ \A s : s # e.session /\ One(q, s) => One(Append(q, e), s)
         /\ \A s : s # e.session /\ GenerateFirst(q, s) => GenerateFirst(Append(q, e), s)
         /\ \A s : (\A t : ~In(q, s, t)) =>
                 One(Append(q, e), s) /\ GenerateFirst(Append(q, e), s)
         /\ \A s : e.type # "generate" /\ GenerateFirst(q, s) => GenerateFirst(Append(q, e), s)
<1> DEFINE p == Append(q, e)
           n == Len(q) + 1
<1>1. /\ p \in Seq(Entries) /\ Len(q) \in Nat /\ DOMAIN q = 1..Len(q) /\ DOMAIN p = 1..n
      /\ \A i \in DOMAIN q : p[i] = q[i]
      /\ p[n] = e
  BY AppendProperties
<1>2. /\ n \in DOMAIN p
      /\ \A i \in DOMAIN p : i = n \/ i \in DOMAIN q
      /\ \A i \in DOMAIN q : i \in DOMAIN p /\ i # n /\ i <= n /\ p[i] = q[i]
      /\ n <= n
  BY <1>1
<1>3. p[n] = e
  BY <1>1
<1> HIDE DEF p, n
<1>4. \A s, t : In(p, s, t) <=> In(q, s, t) \/ (s = e.session /\ t = e.type)
  BY <1>2, <1>3 DEF In
<1>5. \A s : s # e.session /\ One(q, s) => One(p, s)
  BY <1>2, <1>3 DEF One
<1>6. \A s : s # e.session /\ GenerateFirst(q, s) => GenerateFirst(p, s)
  BY <1>2, <1>3 DEF GenerateFirst
<1>7. ASSUME NEW s, \A t : ~In(q, s, t) PROVE One(p, s) /\ GenerateFirst(p, s)
  <2>1. \A i \in DOMAIN q : q[i].session # s
    BY <1>7 DEF In
  <2>2. \A i \in DOMAIN p : p[i].session = s => i = n
    BY <1>2, <2>1
  <2> QED
    BY <1>2, <2>2 DEF One, GenerateFirst
<1>8. \A s : e.type # "generate" /\ GenerateFirst(q, s) => GenerateFirst(p, s)
  BY <1>2, <1>3 DEF GenerateFirst
<1> QED
  BY <1>1, <1>4, <1>5, <1>6, <1>7, <1>8 DEF p

\* What becomes of q in a step that may hand an event of it to the agent.
Kept(q) ==
  /\ queue' \in Seq(Entries)
  /\ SameWork(queue', q)
  /\ In(queue', None, "exit") => In(q, None, "exit")

Handed(q) ==
  \/ UNCHANGED worker
  \/ /\ agent \in {"idle", "parked"}
     /\ UNCHANGED answer
     /\ \/ agent' = "ended" /\ held' = Idle
        \/ \E s \in Sessions, t \in Types :
             In(q, s, t) /\ agent' = "working" /\ held' = [session |-> s, type |-> t]

LEMMA DeliverFacts ==
  ASSUME NEW q \in Seq(Entries), Free(q) # {}, agent \in {"idle", "parked"}, Deliver(q)
  PROVE  Kept(q) /\ Handed(q)
<1> DEFINE i == First(Free(q))
<1>1. Free(q) \in SUBSET DOMAIN q
  BY DEF Free
<1>2. i \in DOMAIN q /\ q[i] \in Entries
  BY <1>1, FirstFacts
<1>3. queue' = Leased(q, i)
  BY DEF Deliver
<1>4. Kept(q)
  BY <1>2, <1>3, LeasedFacts DEF Kept
<1>5. CASE q[i].type = "exit"
  BY <1>4, <1>5 DEF Deliver, Handed
<1>6. CASE q[i].type # "exit"
  <2>1. q[i].session \in Sessions /\ q[i].type \in Types
    BY <1>2, <1>6, EntryFacts
  <2>2. In(q, q[i].session, q[i].type)
    BY <1>2 DEF In
  <2>3. agent' = "working" /\ held' = [session |-> q[i].session, type |-> q[i].type] /\ UNCHANGED answer
    BY <1>6 DEF Deliver
  <2> QED
    BY <1>4, <2>1, <2>2, <2>3 DEF Handed
<1> QED
  BY <1>5, <1>6

LEMMA FlushFacts ==
  ASSUME NEW q \in Seq(Entries), Flush(q)
  PROVE  Kept(q) /\ Handed(q)
<1>1. CASE agent = "parked" /\ Free(q) # {}
  BY <1>1, DeliverFacts DEF Flush
<1>2. CASE ~(agent = "parked" /\ Free(q) # {})
  BY <1>2 DEF Flush, Kept, Handed, SameWork, Thinner
<1> QED
  BY <1>1, <1>2

LEMMA AckedFacts ==
  ASSUME NEW s \in Sessions, queue \in Seq(Entries)
  PROVE  /\ Acked(s) \in Seq(Entries)
         /\ \A r : Thinner(Acked(s), queue, r)
         /\ \A r : r # s => \A t : In(queue, r, t) => In(Acked(s), r, t)
         /\ One(queue, s) => \A t : ~In(Acked(s), s, t)
         /\ GenerateFirst(queue, s) => ~In(Acked(s), s, "generate")
<1>1. CASE OfSession(s) = {}
  <2>1. Acked(s) = queue
    BY <1>1 DEF Acked
  <2>2. \A t : ~In(queue, s, t)
    BY <1>1 DEF OfSession, In
  <2> QED
    BY <2>1, <2>2 DEF Thinner
<1>2. CASE OfSession(s) # {}
  <2> DEFINE i == First(OfSession(s))
  <2>1. OfSession(s) \in SUBSET DOMAIN queue
    BY DEF OfSession
  <2>2. i \in OfSession(s) /\ \A j \in OfSession(s) : i <= j
    BY <1>2, <2>1, FirstFacts
  <2>3. /\ i \in DOMAIN queue /\ queue[i].session = s
        /\ \A j \in DOMAIN queue : queue[j].session = s => i <= j
    BY <2>2 DEF OfSession
  <2>4. Acked(s) = RemoveAt(queue, i)
    BY <1>2 DEF Acked
  <2> HIDE DEF i
  <2>5. /\ RemoveAt(queue, i) \in Seq(Entries)
        /\ \A r : Thinner(RemoveAt(queue, i), queue, r)
        /\ \A r : r # s => \A t : In(queue, r, t) => In(RemoveAt(queue, i), r, t)
    BY <2>3, RemoveFacts
  <2>6. /\ One(queue, s) => \A t : ~In(RemoveAt(queue, i), s, t)
        /\ GenerateFirst(queue, s) => ~In(RemoveAt(queue, i), s, "generate")
    BY <2>3, RemoveFacts
  <2> QED
    BY <2>4, <2>5, <2>6
<1> QED
  BY <1>1, <1>2

-----------------------------------------------------------------------------
(* The invariant.                                                          *)

Clear(s) == source[s] \notin {"variants", "carbonize"}

\* The agent holds an event exactly while it works on it; a server that is
\* down has nothing in memory.
Placed ==
  /\ agent \in {"working", "answering", "cleaning"} <=> held # Idle
  /\ agent # "answering" => answer = "none"
  /\ ~up => queue = <<>> /\ tabs = 0 /\ ~exitTimer

\* A session's generate comes before all else of it, and a session that was
\* not crossed has one entry at most.
Ordered(s) ==
  /\ GenerateFirst(queue, s)
  /\ s \notin crossed => One(queue, s)

\* In a session that was not crossed, what is owed, what is queued, what the
\* agent holds and what the journal says are about one and the same event.
Journalled(s) ==
  s \notin crossed =>
    /\ held.session = s => phase[s] = "active"
    /\ \A t \in Types :
         /\ <<s, t>> \in owed => /\ phase[s] = "active" /\ pending[s] = t
                                 /\ up => In(queue, s, t)
                                 /\ held.session = s => held.type = t
         /\ In(queue, s, t) => /\ phase[s] = "active"
                               /\ "append" \notin incidents => <<s, t>> \in owed
         /\ "append" \notin incidents /\ phase[s] = "active" /\ pending[s] = t
              => <<s, t>> \in owed

Unsent(s) == page[s] \in {"none", "capturing"}
Untouched(s) == pending[s] = "none" /\ held.session # s /\ \A t : ~In(queue, s, t)

\* A session that has ended is clean, and nothing will make it otherwise: no
\* generate of it is queued or held.  Nothing has happened to a session before
\* its generate, and before the journal knows it.
Ended(s) ==
  /\ Terminal(s) => /\ Clear(s) /\ pending[s] = "none"
                    /\ ~In(queue, s, "generate")
                    /\ held # [session |-> s, type |-> "generate"]
  /\ held.session = s /\ answer \in {"complete", "discarded"} => Clear(s)
  /\ Unsent(s) => ~Terminal(s) /\ Untouched(s)
  /\ phase[s] = "new" => /\ Untouched(s) /\ source[s] = "plain"
                         /\ page[s] \in {"none", "capturing", "dropped"}

IInv ==
  /\ TypeOK
  /\ Placed
  /\ \A s \in Sessions : Ordered(s) /\ Journalled(s) /\ Ended(s)
  /\ ExitOnlyAlone

-----------------------------------------------------------------------------
(* Steps that move no event in or out of a session.                        *)

\* The page does not come back to before its event, nor the source to before
\* the journal knew the session.
PageGoesOn(s) ==
  /\ Unsent(s)' => Unsent(s)
  /\ phase[s] = "new" => /\ source'[s] = "plain"
                         /\ page'[s] \in {"none", "capturing", "dropped"}

Quiet ==
  /\ UNCHANGED <<up, journal, owed, crossed>>
  /\ incidents \subseteq incidents'
  /\ SameWork(queue', queue)
  /\ \/ held' \in {held, Idle}
     \/ \E s \in Sessions, t \in Types :
          In(queue, s, t) /\ held' = [session |-> s, type |-> t]
  /\ \A s \in Sessions :
       /\ PageGoesOn(s)
       /\ held'.session = s /\ answer' \in {"complete", "discarded"} => Clear(s)'
       /\ Terminal(s) => Clear(s)'

\* Nothing of the session but its place in the queue and the agent changes.
QuietFor(s) ==
  /\ up' = up
  /\ phase'[s] = phase[s] /\ pending'[s] = pending[s]
  /\ \A t \in Types : <<s, t>> \in owed' <=> <<s, t>> \in owed
  /\ s \in crossed' <=> s \in crossed
  /\ incidents \subseteq incidents'
  /\ Thinner(queue', queue, s)
  /\ \A t : In(queue, s, t) => In(queue', s, t)
  /\ held'.session = s =>
       \/ held' = held
       \/ \E t \in Types : In(queue, s, t) /\ held' = [session |-> s, type |-> t]
  /\ PageGoesOn(s)
  /\ held'.session = s /\ answer' \in {"complete", "discarded"} => Clear(s)'
  /\ Terminal(s) => Clear(s)'

LEMMA QuietForStep ==
  ASSUME IInv, NEW s \in Sessions, QuietFor(s)
  PROVE  Ordered(s)' /\ Journalled(s)' /\ Ended(s)'
<1>1. Ordered(s) /\ Journalled(s) /\ Ended(s)
  BY DEF IInv
<1>2. /\ \A t : In(queue', s, t) <=> In(queue, s, t)
      /\ One(queue, s) => One(queue', s)
      /\ GenerateFirst(queue, s) => GenerateFirst(queue', s)
  BY DEF QuietFor, Thinner
<1>3. /\ phase'[s] = phase[s] /\ pending'[s] = pending[s] /\ up' = up
      /\ \A t \in Types : <<s, t>> \in owed' <=> <<s, t>> \in owed
      /\ s \in crossed' <=> s \in crossed
  BY DEF QuietFor
<1>4. incidents \subseteq incidents'
  BY DEF QuietFor
<1>5. held'.session = s => held' = held \/ \E t \in Types : In(queue, s, t) /\ held' = [session |-> s, type |-> t]
  BY DEF QuietFor
<1>6. Ordered(s)'
  BY <1>1, <1>2, <1>3 DEF Ordered
<1>7. Journalled(s)'
  <2> SUFFICES ASSUME s \notin crossed PROVE Journalled(s)'
    BY <1>3 DEF Journalled
  <2>1. One(queue, s)
    BY <1>1 DEF Ordered
  <2>2. held'.session = s => phase[s] = "active"
    BY <1>1, <1>5 DEF Journalled
  <2>3. ASSUME NEW t \in Types, <<s, t>> \in owed, held'.session = s
        PROVE  held'.type = t
    <3>1. CASE held' = held
      BY <1>1, <2>3, <3>1 DEF Journalled
    <3>2. CASE \E r \in Types : In(queue, s, r) /\ held' = [session |-> s, type |-> r]
      <4>1. PICK r \in Types : In(queue, s, r) /\ held' = [session |-> s, type |-> r]
        BY <3>2
      <4>2. CASE up
        <5>1. In(queue, s, t)
          BY <1>1, <2>3, <4>2 DEF Journalled
        <5> QED
          BY <2>1, <4>1, <5>1 DEF In, One
      <4>3. CASE ~up
        BY <4>1, <4>3 DEF IInv, Placed, In
      <4> QED
        BY <4>2, <4>3
    <3> QED
      BY <1>5, <2>3, <3>1, <3>2
  <2> QED
    BY <1>1, <1>2, <1>3, <1>4, <2>2, <2>3 DEF Journalled
<1>8. Ended(s)'
  <2>1. Terminal(s)' = Terminal(s)
    BY <1>3 DEF Terminal
  <2>2. /\ PageGoesOn(s)
        /\ held'.session = s /\ answer' \in {"complete", "discarded"} => Clear(s)'
        /\ Terminal(s) => Clear(s)'
    BY DEF QuietFor
  <2>3. Terminal(s) => held' # [session |-> s, type |-> "generate"]
    BY <1>1, <1>5 DEF Ended
  <2>4. Untouched(s) => Untouched(s)'
    BY <1>2, <1>3, <1>5 DEF Untouched
  <2>5. Unsent(s)' => Unsent(s)
    BY <2>2 DEF PageGoesOn
  <2>6. phase[s] = "new" => /\ source'[s] = "plain"
                           /\ page'[s] \in {"none", "capturing", "dropped"}
    BY <2>2 DEF PageGoesOn
  <2> QED
    BY <1>1, <1>2, <1>3, <2>1, <2>2, <2>3, <2>4, <2>5, <2>6 DEF Ended
<1> QED
  BY <1>6, <1>7, <1>8

LEMMA QuietStep ==
  ASSUME IInv, Quiet, NEW s \in Sessions
  PROVE  Ordered(s)' /\ Journalled(s)' /\ Ended(s)'
<1>1. s # None
  BY NoneAssumption
<1>2. held'.session = s =>
        \/ held' = held
        \/ \E t \in Types : In(queue, s, t) /\ held' = [session |-> s, type |-> t]
  BY <1>1 DEF Quiet, Idle
<1>3. QuietFor(s)
  BY <1>2 DEF Quiet, QuietFor, SameWork, journal
<1> QED
  BY <1>3, QuietForStep

-----------------------------------------------------------------------------
(* Types, and where things stand.                                          *)

LEMMA EntryIsOne ==
  /\ \A s \in Sessions, t \in Types : Entry(s, t) \in Entries
  /\ Entry(None, "exit") \in Entries
BY DEF Entries, Entry

LEMMA PushedType ==
  ASSUME queue \in Seq(Entries)
  PROVE  /\ \A s \in Sessions, t \in Types : Pushed(s, t) \in Seq(Entries)
         /\ Pushed(None, "exit") \in Seq(Entries)
BY EntryIsOne, PushedFacts DEF Pushed

\* Where the agent stands after a step that may hand it an event.
LEMMA HandedFacts ==
  ASSUME TypeOK, Placed, NEW q, Handed(q)
  PROVE  /\ agent' \in {"idle", "parked", "working", "answering", "cleaning", "ended"}
         /\ held' \in [session : Sessions, type : Types] \union {Idle}
         /\ answer' = answer
         /\ agent' \in {"working", "answering", "cleaning"} <=> held' # Idle
         /\ agent' # "answering" => answer' = "none"
<1>1. CASE UNCHANGED worker
  BY <1>1 DEF TypeOK, Placed, worker
<1>2. CASE agent' = "ended" /\ held' = Idle /\ agent \in {"idle", "parked"} /\ answer' = answer
  BY <1>2 DEF TypeOK, Placed
<1>3. CASE \E s \in Sessions, t \in Types :
             /\ agent' = "working" /\ held' = [session |-> s, type |-> t]
             /\ agent \in {"idle", "parked"} /\ answer' = answer
  BY <1>3, NoneAssumption DEF TypeOK, Placed, Idle
<1> QED
  BY <1>1, <1>2, <1>3 DEF Handed

\* The entry whose lease runs out is of a session.
LEMMA LeaseFacts ==
  ASSUME queue \in Seq(Entries), NEW i \in DOMAIN queue, queue[i].leased,
         NEW q, q = [queue EXCEPT ![i].leased = FALSE]
  PROVE  /\ q \in Seq(Entries)
         /\ SameWork(q, queue)
         /\ In(q, None, "exit") => In(queue, None, "exit")
<1>1. queue[i] \in Entries
  OBVIOUS
<1>2. queue[i] \in [session : Sessions, type : Types, leased : BOOLEAN]
  BY <1>1 DEF Entries, Entry
<1>3. [queue[i] EXCEPT !.leased = FALSE] \in Entries
  BY <1>2 DEF Entries
<1>4. q \in Seq(Entries) /\ DOMAIN q = DOMAIN queue
  BY <1>3
<1>5. \A j \in DOMAIN queue : q[j].session = queue[j].session /\ q[j].type = queue[j].type
  BY <1>2
<1>6. SameWork(q, queue)
  BY <1>4, <1>5 DEF SameWork, Thinner, In, One, GenerateFirst
<1> QED
  BY <1>4, <1>5, <1>6 DEF In

LEMMA StartFacts ==
  ASSUME TypeOK, Start
  PROVE  /\ queue' \in Seq(Entries)
         /\ \A s \in Sessions : One(queue', s) /\ GenerateFirst(queue', s)
         /\ \A s \in Sessions, t \in Types :
              In(queue', s, t) <=> s \in Restorable /\ pending[s] = t
         /\ ~In(queue', None, "exit")
<1> DEFINE n == Cardinality(Restorable)
<1>1. PICK order \in Bijection(1..n, Restorable) :
        queue' = [i \in DOMAIN order |-> Entry(order[i], pending[order[i]])]
  BY DEF Start
<1>2. n \in Nat
  <2>1. Restorable \in SUBSET Sessions
    BY DEF Restorable
  <2> QED
    BY <2>1, SessionsAssumption, FS_Subset, FS_CardinalityType
<1> HIDE DEF n
<1>3. /\ order \in [1..n -> Restorable]
      /\ \A i, j \in 1..n : order[i] = order[j] => i = j
      /\ \A s \in Restorable : \E i \in 1..n : order[i] = s
  BY <1>1 DEF Bijection, Injection, Surjection, IsInjective
<1>4. \A s \in Restorable : s \in Sessions /\ pending[s] \in Types
  BY DEF Restorable, TypeOK
<1>5. /\ DOMAIN queue' = 1..n
      /\ \A i \in 1..n : queue'[i] = Entry(order[i], pending[order[i]])
  BY <1>1, <1>3
<1>6. queue' \in Seq(Entries)
  <2>1. \A i \in 1..n : Entry(order[i], pending[order[i]]) \in Entries
    BY <1>3, <1>4, EntryIsOne
  <2> QED
    BY <1>1, <1>2, <1>3, <2>1
<1>7. \A i \in 1..n : queue'[i].session = order[i] /\ queue'[i].type = pending[order[i]]
  BY <1>5 DEF Entry
<1>8. ASSUME NEW s \in Sessions PROVE One(queue', s) /\ GenerateFirst(queue', s)
  <2>1. \A i, j \in 1..n : queue'[i].session = s /\ queue'[j].session = s => i = j
    BY <1>3, <1>7
  <2>2. \A i \in 1..n : i <= i
    OBVIOUS
  <2> QED
    BY <1>5, <2>1, <2>2 DEF One, GenerateFirst
<1>9. ASSUME NEW s \in Sessions, NEW t \in Types
      PROVE  In(queue', s, t) <=> s \in Restorable /\ pending[s] = t
  BY <1>3, <1>5, <1>7 DEF In
<1>10. ~In(queue', None, "exit")
  BY <1>3, <1>4, <1>5, <1>7, NoneAssumption DEF In
<1> QED
  BY <1>6, <1>8, <1>9, <1>10

\* What a step may hand out of q, the queue keeps.
LEMMA FlushType ==
  ASSUME TypeOK, Placed, NEW q \in Seq(Entries), Flush(q)
  PROVE  /\ queue' \in Seq(Entries)
         /\ agent' \in {"idle", "parked", "working", "answering", "cleaning", "ended"}
         /\ held' \in [session : Sessions, type : Types] \union {Idle}
         /\ answer' = answer
         /\ agent' \in {"working", "answering", "cleaning"} <=> held' # Idle
         /\ agent' # "answering" => answer' = "none"
BY FlushFacts, HandedFacts DEF Kept

\* The worker's part of TypeOK and Placed.
WorkerStands ==
  /\ agent \in {"idle", "parked", "working", "answering", "cleaning", "ended"}
  /\ held \in [session : Sessions, type : Types] \union {Idle}
  /\ answer \in {"none", "done", "error", "complete", "agent_done", "discarded"}
  /\ agent \in {"working", "answering", "cleaning"} <=> held # Idle
  /\ agent # "answering" => answer = "none"

LEMMA TypeStep ==
  ASSUME TypeOK, Placed, [Next]_vars
  PROVE  TypeOK' /\ Placed'
<1>0. WorkerStands
  BY DEF WorkerStands, TypeOK, Placed
<1>1. CASE UNCHANGED vars
  BY <1>1 DEF vars, server, journal, worker, history, TypeOK, Placed
<1>2. ASSUME NEW s \in Sessions, NEW t \in Types, Post(s, t),
             NEW e \in {"generating", "dropped", "handled", "saving"},
             page' = [page EXCEPT ![s] = e]
      PROVE  TypeOK' /\ Placed'
  <2>1. Pushed(s, t) \in Seq(Entries) /\ Flush(Pushed(s, t))
    BY <1>2, PushedType DEF TypeOK, Post
  <2>2. queue' \in Seq(Entries) /\ WorkerStands'
    BY <2>1, FlushType DEF WorkerStands, TypeOK
  <2> QED
    BY <1>2, <2>2 DEF Post, TypeOK, Placed, WorkerStands
<1>3. ASSUME NEW s \in Sessions, Page(s) PROVE TypeOK' /\ Placed'
  <2>1. CASE Emit(s) \/ Accept(s) \/ Discard(s)
    BY <1>2, <2>1 DEF Emit, Accept, Discard, Types
  <2>2. CASE Go(s) \/ Lost(s) \/ VariantsArrive(s) \/ Reload(s)
    <3>1. UNCHANGED <<server, journal, worker, source, history>>
      BY <2>2 DEF Go, Lost, VariantsArrive, Reload
    <3>2. page' \in [Sessions -> {"none", "capturing", "generating", "cycling", "saving", "handled", "dropped"}]
      BY <2>2 DEF Go, Lost, VariantsArrive, Reload, TypeOK
    <3>3. WorkerStands'
      BY <1>0, <3>1 DEF worker, WorkerStands
    <3>4. TypeOK'
      BY <3>1, <3>2, <3>3 DEF server, journal, history, WorkerStands, TypeOK
    <3>5. Placed'
      BY <3>1, <3>3 DEF server, WorkerStands, Placed
    <3> QED
      BY <3>4, <3>5
  <2>3. CASE Checkpoint(s)
    <3>1. WorkerStands'
      BY <1>0, <2>3 DEF Checkpoint, worker, WorkerStands
    <3>2. TypeOK'
      BY <2>3, <3>1 DEF Checkpoint, server, history, WorkerStands, TypeOK
    <3>3. Placed'
      BY <2>3, <3>1 DEF Checkpoint, server, history, WorkerStands, Placed
    <3> QED
      BY <3>2, <3>3
  <2> QED
    BY <1>3, <2>1, <2>2, <2>3 DEF Page
<1>4. CASE Connect
  <2>1. queue' \in Seq(Entries)
    BY <1>4, NoExitsFacts DEF Connect, TypeOK
  <2>2. WorkerStands'
    BY <1>0, <1>4 DEF Connect, worker, WorkerStands
  <2>3. tabs' \in 0..MaxTabs
    BY <1>4, TabsAssumption DEF Connect, TypeOK
  <2>4. TypeOK'
    BY <1>4, <2>1, <2>2, <2>3 DEF Connect, journal, WorkerStands, TypeOK
  <2>5. Placed'
    BY <1>4, <2>1, <2>2, TabsAssumption DEF Connect, journal, WorkerStands, Placed
  <2> QED
    BY <2>4, <2>5
<1>5. CASE Disconnect
  <2>1. WorkerStands'
    BY <1>0, <1>5 DEF Disconnect, worker, WorkerStands
  <2>2. tabs' \in 0..MaxTabs
    BY <1>5, TabsAssumption DEF Disconnect, TypeOK
  <2>3. TypeOK'
    BY <1>5, <2>1, <2>2 DEF Disconnect, journal, history, WorkerStands, TypeOK
  <2>4. Placed'
    BY <1>5, <2>1, TabsAssumption DEF Disconnect, journal, history, WorkerStands, Placed
  <2> QED
    BY <2>3, <2>4
<1>6. CASE ExitTimerFires
  <2>1. queue' \in Seq(Entries) /\ WorkerStands'
    <3>1. CASE tabs = 0
      BY <1>6, <3>1, PushedType, FlushType DEF ExitTimerFires, WorkerStands, TypeOK
    <3>2. CASE tabs # 0
      BY <1>6, <3>2 DEF ExitTimerFires, WorkerStands, worker, TypeOK, Placed
    <3> QED
      BY <3>1, <3>2
  <2>2. TypeOK'
    BY <1>6, <2>1 DEF ExitTimerFires, journal, history, WorkerStands, TypeOK
  <2>3. Placed'
    BY <1>6, <2>1 DEF ExitTimerFires, journal, history, WorkerStands, Placed
  <2> QED
    BY <2>2, <2>3
<1>7. CASE Exit
  <2>1. queue' \in Seq(Entries) /\ WorkerStands'
    BY <1>7, PushedType, FlushType DEF Exit, WorkerStands, TypeOK
  <2>2. TypeOK'
    BY <1>7, <2>1 DEF Exit, Incident, journal, WorkerStands, TypeOK
  <2>3. Placed'
    BY <1>7, <2>1 DEF Exit, Connected, Incident, journal, WorkerStands, Placed
  <2> QED
    BY <2>2, <2>3
<1>8. CASE Poll
  <2>1. queue' \in Seq(Entries) /\ WorkerStands'
    <3>1. CASE Free(queue) # {}
      BY <1>8, <3>1, DeliverFacts, HandedFacts DEF Poll, Kept, WorkerStands, TypeOK
    <3>2. CASE Free(queue) = {}
      BY <1>8, <3>2 DEF Poll, WorkerStands, TypeOK, Placed
    <3> QED
      BY <3>1, <3>2
  <2>2. TypeOK'
    BY <1>8, <2>1 DEF Poll, journal, history, WorkerStands, TypeOK
  <2>3. Placed'
    BY <1>8, <2>1 DEF Poll, journal, history, WorkerStands, Placed
  <2> QED
    BY <2>2, <2>3
<1>9. CASE Generate \/ CleanUp
  <2>1. WorkerStands'
    BY <1>0, <1>9 DEF Generate, CleanUp, Ready, WorkerStands
  <2>2. TypeOK'
    BY <1>9, <2>1 DEF Generate, CleanUp, Ready, server, journal, history, WorkerStands, TypeOK
  <2>3. Placed'
    BY <1>9, <2>1 DEF Generate, CleanUp, Ready, server, journal, history, WorkerStands, Placed
  <2> QED
    BY <2>2, <2>3
<1>10. CASE RunAccept \/ RunDiscard
  <2>1. WorkerStands'
    BY <1>0, <1>10 DEF RunAccept, RunDiscard, Ready, WorkerStands
  <2>2. source' \in [Sessions -> {"plain", "variants", "accepted", "carbonize"}]
    BY <1>10 DEF RunAccept, RunDiscard, TypeOK
  <2>3. UNCHANGED <<server, journal, page, history>>
    BY <1>10 DEF RunAccept, RunDiscard, Ready
  <2>4. TypeOK'
    BY <2>1, <2>2, <2>3 DEF server, journal, history, WorkerStands, TypeOK
  <2>5. Placed'
    BY <2>1, <2>3 DEF server, WorkerStands, Placed
  <2> QED
    BY <2>4, <2>5
<1>11. CASE ScriptFails \/ Interrupt
  <2>1. WorkerStands'
    BY <1>0, <1>11 DEF ScriptFails, Interrupt, WorkerStands
  <2>2. TypeOK'
    BY <1>11, <2>1 DEF ScriptFails, Interrupt, Incident, server, journal, WorkerStands, TypeOK
  <2>3. Placed'
    BY <1>11, <2>1 DEF ScriptFails, Interrupt, Incident, server, journal, WorkerStands, Placed
  <2> QED
    BY <2>2, <2>3
<1>12. CASE Reply
  <2>1. held.session \in Sessions
    BY <1>12 DEF Reply, TypeOK, Placed, Idle
  <2>2. queue' \in Seq(Entries)
    BY <1>12, <2>1, AckedFacts DEF Reply, TypeOK
  <2>3. WorkerStands'
    BY <1>12 DEF Reply, Afterwards, WorkerStands, TypeOK, Placed
  <2>4. phase' \in [Sessions -> {"new", "active", "completed", "discarded"}]
    BY <1>12 DEF Reply, PhaseAfter, TypeOK, journal
  <2>5. /\ pending' \in [Sessions -> Types \union {"none"}]
        /\ incidents' \subseteq {"crash", "interrupt", "append", "script", "exit", "stop"}
    BY <1>12 DEF Reply, Incident, TypeOK, journal
  <2>6. page' \in [Sessions -> {"none", "capturing", "generating", "cycling", "saving", "handled", "dropped"}]
    BY <1>12 DEF Reply, PageAfter, TypeOK
  <2>7. TypeOK'
    BY <1>12, <2>2, <2>3, <2>4, <2>5, <2>6 DEF Reply, WorkerStands, TypeOK
  <2>8. Placed'
    BY <1>12, <2>2, <2>3, <2>4, <2>5, <2>6 DEF Reply, WorkerStands, Placed
  <2> QED
    BY <2>7, <2>8
<1>13. CASE CompleteDirectly
  BY <1>13 DEF CompleteDirectly, PhaseAfter, server, TypeOK, Placed
<1>14. CASE LeaseExpires
  <2>1. PICK i \in DOMAIN queue : queue[i].leased /\ Flush([queue EXCEPT ![i].leased = FALSE])
    BY <1>14 DEF LeaseExpires
  <2>2. [queue EXCEPT ![i].leased = FALSE] \in Seq(Entries)
    BY <2>1, LeaseFacts DEF TypeOK
  <2>3. queue' \in Seq(Entries) /\ WorkerStands'
    BY <2>1, <2>2, FlushType DEF WorkerStands, TypeOK
  <2>4. up
    BY <2>1 DEF Placed
  <2>5. TypeOK'
    BY <1>14, <2>3, <2>4 DEF LeaseExpires, journal, history, WorkerStands, TypeOK
  <2>6. Placed'
    BY <1>14, <2>3, <2>4 DEF LeaseExpires, journal, history, WorkerStands, Placed
  <2> QED
    BY <2>5, <2>6
<1>15. CASE Crash
  <2>1. WorkerStands'
    BY <1>0, <1>15 DEF Crash, WorkerStands
  <2>2. tabs' \in 0..MaxTabs /\ queue' \in Seq(Entries) /\ queue' = <<>>
    BY <1>15, TabsAssumption DEF Crash, Down, TypeOK
  <2>3. up' = FALSE /\ exitTimer' = FALSE /\ tabs' = 0
    BY <1>15 DEF Crash, Down
  <2>4. incidents' \subseteq {"crash", "interrupt", "append", "script", "exit", "stop"}
    BY <1>15 DEF Crash, Incident, TypeOK
  <2>5. source' \in [Sessions -> {"plain", "variants", "accepted", "carbonize"}]
    BY <1>15 DEF Crash, Clean, TypeOK
  <2>6. /\ UNCHANGED <<journal, owed, asked, crossed>>
        /\ page' \in [Sessions -> {"none", "capturing", "generating", "cycling", "saving", "handled", "dropped"}]
    BY <1>15 DEF Crash, Down, TypeOK
  <2>7. TypeOK'
    BY <2>1, <2>2, <2>3, <2>4, <2>5, <2>6 DEF journal, WorkerStands, TypeOK
  <2>8. Placed'
    BY <2>1, <2>2, <2>3 DEF WorkerStands, Placed
  <2> QED
    BY <2>7, <2>8
<1>16. CASE Stop
  <2>1. WorkerStands'
    BY <1>0, <1>16 DEF Stop, WorkerStands
  <2>2. tabs' \in 0..MaxTabs /\ queue' \in Seq(Entries) /\ queue' = <<>>
    BY <1>16, TabsAssumption DEF Stop, Down, TypeOK
  <2>3. up' = FALSE /\ exitTimer' = FALSE /\ tabs' = 0
    BY <1>16 DEF Stop, Down
  <2>4. incidents' \subseteq {"crash", "interrupt", "append", "script", "exit", "stop"}
    BY <1>16 DEF Stop, Incident, TypeOK
  <2>5. source' \in [Sessions -> {"plain", "variants", "accepted", "carbonize"}]
    BY <1>16 DEF Stop, Clean, TypeOK
  <2>6. /\ UNCHANGED <<journal, owed, asked, crossed>>
        /\ page' \in [Sessions -> {"none", "capturing", "generating", "cycling", "saving", "handled", "dropped"}]
    BY <1>16 DEF Stop, Down, TypeOK
  <2>7. TypeOK'
    BY <2>1, <2>2, <2>3, <2>4, <2>5, <2>6 DEF journal, WorkerStands, TypeOK
  <2>8. Placed'
    BY <2>1, <2>2, <2>3 DEF WorkerStands, Placed
  <2> QED
    BY <2>7, <2>8
<1>17. CASE Start
  <2>1. queue' \in Seq(Entries)
    BY <1>17, StartFacts
  <2> QED
    BY <1>17, <2>1 DEF Start, journal, history, TypeOK, Placed
<1> QED
  BY <1>1, <1>3, <1>4, <1>5, <1>6, <1>7, <1>8, <1>9, <1>10, <1>11, <1>12, <1>13,
     <1>14, <1>15, <1>16, <1>17 DEF Next, Work

-----------------------------------------------------------------------------
(* Which actions are quiet.                                                *)

LEMMA SameWorkFacts ==
  ASSUME NEW q
  PROVE  /\ SameWork(q, q)
         /\ \A p, r : SameWork(r, p) /\ SameWork(p, q) => SameWork(r, q)
BY DEF SameWork, Thinner

LEMMA PageStays ==
  ASSUME IInv, UNCHANGED <<page, source>>, NEW s \in Sessions
  PROVE  PageGoesOn(s)
BY DEF PageGoesOn, Unsent, IInv, Ended

\* A step that puts nothing of a session in the queue and may hand out an event.
LEMMA DeliveryIsQuiet ==
  ASSUME IInv, NEW q \in Seq(Entries), SameWork(q, queue), Kept(q), Handed(q),
         UNCHANGED <<up, journal, source, owed, crossed>>, incidents \subseteq incidents',
         \A s \in Sessions : PageGoesOn(s)
  PROVE  Quiet
<1>1. SameWork(queue', queue)
  BY SameWorkFacts DEF Kept
<1>2. \/ held' \in {held, Idle}
      \/ \E s \in Sessions, t \in Types :
           In(queue, s, t) /\ held' = [session |-> s, type |-> t]
  <2>1. CASE UNCHANGED worker
    BY <2>1 DEF worker
  <2>2. CASE held' = Idle
    BY <2>2
  <2>3. ASSUME NEW s \in Sessions, NEW t \in Types, In(q, s, t),
               held' = [session |-> s, type |-> t]
        PROVE  In(queue, s, t)
    BY <2>3 DEF SameWork, Thinner
  <2> QED
    BY <2>1, <2>2, <2>3 DEF Handed
<1>3. held' = held \/ answer' = "none"
  BY DEF Handed, worker, IInv, Placed
<1>4. answer' = answer
  BY DEF Handed, worker
<1>5. ASSUME NEW s \in Sessions
      PROVE  /\ held'.session = s /\ answer' \in {"complete", "discarded"} => Clear(s)'
             /\ Terminal(s) => Clear(s)'
  <2>1. Clear(s)' = Clear(s)
    BY DEF Clear
  <2>2. Ended(s)
    BY DEF IInv
  <2> QED
    BY <1>3, <1>4, <2>1, <2>2 DEF Ended
<1> QED
  BY <1>1, <1>2, <1>5 DEF Quiet

\* A step of the page or the agent that leaves the queue alone.
LEMMA WorkIsQuiet ==
  ASSUME IInv, UNCHANGED <<up, journal, owed, crossed, queue>>, incidents \subseteq incidents',
         held' \in {held, Idle},
         \A s \in Sessions :
           /\ PageGoesOn(s)
           /\ held'.session = s /\ answer' \in {"complete", "discarded"} => Clear(s)'
           /\ Terminal(s) => Clear(s)'
  PROVE  Quiet
BY SameWorkFacts DEF Quiet

LEMMA PageIsQuiet ==
  ASSUME IInv, NEW s \in Sessions, Go(s) \/ Lost(s) \/ VariantsArrive(s) \/ Reload(s)
  PROVE  Quiet
<1>1. UNCHANGED <<up, journal, owed, crossed, queue, incidents, held, answer, source>>
  BY DEF Go, Lost, VariantsArrive, Reload, server, worker, history
<1>2. ASSUME NEW r \in Sessions PROVE PageGoesOn(r)
  <2>1. page \in [Sessions -> {"none", "capturing", "generating", "cycling", "saving", "handled", "dropped"}]
    BY DEF IInv, TypeOK
  <2>2. phase[r] = "new" => source[r] = "plain" /\ page[r] \in {"none", "capturing", "dropped"}
    BY DEF IInv, Ended
  <2>3. Unsent(r)' => Unsent(r)
    BY <2>1 DEF Go, Lost, VariantsArrive, Reload, Unsent
  <2>4. phase[r] = "new" => page'[r] \in {"none", "capturing", "dropped"}
    BY <2>1, <2>2 DEF Go, Lost, VariantsArrive, Reload
  <2> QED
    BY <1>1, <2>2, <2>3, <2>4 DEF PageGoesOn
<1>3. ASSUME NEW r \in Sessions
      PROVE  /\ held'.session = r /\ answer' \in {"complete", "discarded"} => Clear(r)'
             /\ Terminal(r) => Clear(r)'
  BY <1>1 DEF IInv, Ended, Clear
<1>4. incidents \subseteq incidents' /\ held' \in {held, Idle}
  BY <1>1
<1> QED
  BY <1>1, <1>2, <1>3, <1>4, WorkIsQuiet

\* The journal's fold of a checkpoint.
LEMMA CheckpointFacts ==
  ASSUME IInv, NEW s \in Sessions, Checkpoint(s)
  PROVE  /\ UNCHANGED <<up, pending, owed, crossed, queue, incidents, held, answer, page, source>>
         /\ phase' = phase \/ (phase[s] = "new" /\ phase' = [phase EXCEPT ![s] = "active"])
<1>1. phase \in [Sessions -> {"new", "active", "completed", "discarded"}]
  BY DEF IInv, TypeOK
<1>2. phase' = phase \/ (phase[s] = "new" /\ phase' = [phase EXCEPT ![s] = "active"])
  BY <1>1 DEF Checkpoint, Terminal
<1> QED
  BY <1>2 DEF Checkpoint, server, worker, history

LEMMA ConnectionIsQuiet ==
  ASSUME IInv, Connect \/ Disconnect
  PROVE  Quiet
<1>1. UNCHANGED <<up, journal, owed, crossed, incidents, page, source, held, answer>>
  BY DEF Connect, Disconnect, journal, worker, history
<1>2. SameWork(queue', queue)
  BY NoExitsFacts, SameWorkFacts DEF Connect, Disconnect, IInv, TypeOK
<1>3. ASSUME NEW r \in Sessions
      PROVE  /\ held'.session = r /\ answer' \in {"complete", "discarded"} => Clear(r)'
             /\ Terminal(r) => Clear(r)'
  BY <1>1 DEF IInv, Ended, Clear
<1>4. incidents \subseteq incidents' /\ held' \in {held, Idle}
  BY <1>1
<1> QED
  BY <1>1, <1>2, <1>3, <1>4, PageStays DEF Quiet

LEMMA ExitEventFacts ==
  ASSUME queue \in Seq(Entries)
  PROVE  /\ Pushed(None, "exit") \in Seq(Entries)
         /\ SameWork(Pushed(None, "exit"), queue)
<1>1. Pushed(None, "exit") = Append(queue, Entry(None, "exit"))
  BY DEF Pushed
<1>2. Entry(None, "exit").session = None
  BY DEF Entry
<1>3. Append(queue, Entry(None, "exit")) \in Seq(Entries)
  BY EntryIsOne, PushedFacts
<1> DEFINE e == Entry(None, "exit")
<1>4. e \in Entries /\ e.session = None
  BY <1>2, EntryIsOne
<1> HIDE DEF e
<1>5. ASSUME NEW s \in Sessions
      PROVE  /\ \A t : In(Append(queue, e), s, t) <=> In(queue, s, t)
             /\ One(queue, s) => One(Append(queue, e), s)
             /\ GenerateFirst(queue, s) => GenerateFirst(Append(queue, e), s)
  <2>1. s # e.session /\ queue \in Seq(Entries)
    BY <1>4, NoneAssumption
  <2>2. \A t : In(Append(queue, e), s, t) <=> In(queue, s, t) \/ (s = e.session /\ t = e.type)
    BY <1>4, PushedFacts
  <2>3. One(queue, s) => One(Append(queue, e), s)
    BY <1>4, <2>1, PushedFacts
  <2>4. GenerateFirst(queue, s) => GenerateFirst(Append(queue, e), s)
    BY <1>4, <2>1, PushedFacts
  <2> QED
    BY <2>1, <2>2, <2>3, <2>4
<1>6. SameWork(Append(queue, e), queue)
  BY <1>5 DEF SameWork, Thinner
<1> QED
  BY <1>1, <1>3, <1>6 DEF e

LEMMA ExitIsQuiet ==
  ASSUME IInv, ExitTimerFires \/ Exit
  PROVE  Quiet
<1> DEFINE q == Pushed(None, "exit")
<1>1. queue \in Seq(Entries) /\ page \in [Sessions -> {"none", "capturing", "generating", "cycling", "saving", "handled", "dropped"}]
  BY DEF IInv, TypeOK
<1>2. q \in Seq(Entries) /\ SameWork(q, queue)
  BY <1>1, ExitEventFacts
<1>3. /\ UNCHANGED <<up, journal, source, owed, crossed>>
      /\ incidents \subseteq incidents'
  BY DEF ExitTimerFires, Exit, Incident, history
<1>4. ASSUME NEW s \in Sessions PROVE PageGoesOn(s)
  <2>1. phase[s] = "new" => source[s] = "plain" /\ page[s] \in {"none", "capturing", "dropped"}
    BY DEF IInv, Ended
  <2>2. page'[s] = page[s] \/ (page'[s] = "dropped" /\ page[s] \notin {"none", "capturing"})
    BY <1>1 DEF ExitTimerFires, Exit, Current
  <2> QED
    BY <1>3, <2>1, <2>2 DEF PageGoesOn, Unsent
<1>5. CASE Flush(q)
  <2>1. Kept(q) /\ Handed(q)
    BY <1>2, <1>5, FlushFacts
  <2> HIDE DEF q
  <2> QED
    BY <1>2, <1>3, <1>4, <2>1, DeliveryIsQuiet
<1>6. CASE UNCHANGED <<queue, worker>>
  <2>1. Kept(queue) /\ Handed(queue)
    BY <1>1, <1>6, SameWorkFacts DEF Kept, Handed
  <2> QED
    BY <1>1, <1>3, <1>4, <2>1, SameWorkFacts, DeliveryIsQuiet
<1> QED
  BY <1>5, <1>6 DEF ExitTimerFires, Exit

LEMMA PollIsQuiet ==
  ASSUME IInv, Poll
  PROVE  Quiet
<1>1. queue \in Seq(Entries) /\ SameWork(queue, queue)
  BY SameWorkFacts DEF IInv, TypeOK
<1>2. UNCHANGED <<up, journal, source, owed, crossed, incidents, page>>
  BY DEF Poll, history
<1>3. CASE Free(queue) # {}
  <2>1. Kept(queue) /\ Handed(queue)
    BY <1>1, <1>3, DeliverFacts DEF Poll
  <2> QED
    BY <1>1, <1>2, <2>1, DeliveryIsQuiet, PageStays
<1>4. CASE Free(queue) = {}
  <2>1. held' = held /\ answer' = answer /\ queue' = queue
    BY <1>4 DEF Poll
  <2>2. ASSUME NEW s \in Sessions
        PROVE  /\ held'.session = s /\ answer' \in {"complete", "discarded"} => Clear(s)'
               /\ Terminal(s) => Clear(s)'
    BY <1>2, <2>1 DEF IInv, Ended, Clear
  <2> QED
    BY <1>2, <2>1, <2>2, WorkIsQuiet, PageStays
<1> QED
  BY <1>3, <1>4

LEMMA LeaseIsQuiet ==
  ASSUME IInv, LeaseExpires
  PROVE  Quiet
<1>1. PICK i \in DOMAIN queue :
        /\ queue[i].leased
        /\ Flush([queue EXCEPT ![i].leased = FALSE])
        /\ UNCHANGED <<up, tabs, exitTimer, journal, page, source, history>>
  BY DEF LeaseExpires
<1> DEFINE q == [queue EXCEPT ![i].leased = FALSE]
<1>2. q \in Seq(Entries) /\ SameWork(q, queue)
  BY <1>1, LeaseFacts DEF IInv, TypeOK
<1>3. Kept(q) /\ Handed(q)
  BY <1>1, <1>2, FlushFacts
<1>4. UNCHANGED <<up, journal, source, owed, crossed, incidents, page>>
  BY <1>1 DEF history
<1> HIDE DEF q
<1> QED
  BY <1>2, <1>3, <1>4, DeliveryIsQuiet, PageStays

\* The agent leaves nothing behind in a session that has ended, and answers
\* complete or discarded only for a session it has left clean.
LEMMA AgentIsQuiet ==
  ASSUME IInv, Generate \/ RunAccept \/ RunDiscard \/ CleanUp \/ ScriptFails \/ Interrupt
  PROVE  Quiet
<1>1. /\ UNCHANGED <<up, journal, owed, crossed, queue, page>>
      /\ incidents \subseteq incidents'
      /\ held' \in {held, Idle}
  BY DEF Generate, RunAccept, RunDiscard, CleanUp, ScriptFails, Interrupt, Ready,
         Incident, server, history
<1>2. source \in [Sessions -> {"plain", "variants", "accepted", "carbonize"}]
  BY DEF IInv, TypeOK
<1>3. \A s \in Sessions : Ended(s)
  BY DEF IInv
<1>4. held \in [session : Sessions, type : Types] \union {Idle}
  BY DEF IInv, TypeOK
<1>5. ASSUME NEW s \in Sessions
      PROVE  /\ held'.session = s /\ answer' \in {"complete", "discarded"} => Clear(s)'
             /\ Terminal(s) => Clear(s)'
  <2>1. CASE Generate
    <3>1. answer' \notin {"complete", "discarded"}
      BY <2>1 DEF Generate, Ready
    <3>2. held.session = s => held = [session |-> s, type |-> "generate"]
      BY <1>4, <2>1, NoneAssumption DEF Generate, Idle
    <3>3. Terminal(s) => held.session # s /\ Clear(s)
      BY <1>3, <3>2 DEF Ended
    <3> QED
      BY <1>2, <2>1, <3>1, <3>3 DEF Generate, Clear
  <2>2. CASE RunAccept
    <3>1. source[s] = "variants" => ~Terminal(s)
      BY <1>3 DEF Ended, Clear
    <3> QED
      BY <1>2, <1>3, <2>2, <3>1 DEF RunAccept, Ready, Ended, Clear
  <2>3. CASE RunDiscard
    BY <1>2, <1>3, <2>3 DEF RunDiscard, Ready, Ended, Clear
  <2>4. CASE CleanUp
    BY <1>2, <1>3, <2>4 DEF CleanUp, Ready, Ended, Clear
  <2>5. CASE ScriptFails \/ Interrupt
    BY <1>3, <2>5 DEF ScriptFails, Interrupt, Ended, Clear
  <2> QED
    BY <2>1, <2>2, <2>3, <2>4, <2>5
<1>6. ASSUME NEW s \in Sessions PROVE PageGoesOn(s)
  <2>1. phase[s] = "new" => /\ held.session # s /\ source[s] = "plain"
                           /\ page[s] \in {"none", "capturing", "dropped"}
    BY <1>3 DEF Ended, Untouched
  <2>2. held.session # s => source'[s] = source[s]
    BY <1>2 DEF Generate, RunAccept, RunDiscard, CleanUp, ScriptFails, Interrupt
  <2> QED
    BY <1>1, <2>1, <2>2 DEF PageGoesOn, Unsent
<1> QED
  BY <1>1, <1>5, <1>6, WorkIsQuiet

-----------------------------------------------------------------------------
(* The steps that are not quiet for the session they are about.            *)

LEMMA PushedWork ==
  ASSUME queue \in Seq(Entries), NEW s \in Sessions, NEW t \in Types
  PROVE  /\ Pushed(s, t) \in Seq(Entries)
         /\ \A r, u : In(Pushed(s, t), r, u) <=> In(queue, r, u) \/ (r = s /\ u = t)
         /\ \A r : r # s /\ One(queue, r) => One(Pushed(s, t), r)
         /\ \A r : r # s /\ GenerateFirst(queue, r) => GenerateFirst(Pushed(s, t), r)
         /\ (\A u : ~In(queue, s, u)) => One(Pushed(s, t), s) /\ GenerateFirst(Pushed(s, t), s)
         /\ t # "generate" /\ GenerateFirst(queue, s) => GenerateFirst(Pushed(s, t), s)
<1> DEFINE e == Entry(s, t)
<1>1. e \in Entries /\ e.session = s /\ e.type = t
  BY EntryIsOne DEF Entry
<1>2. CASE In(queue, s, t)
  <2>1. Pushed(s, t) = queue
    BY <1>2, NoneAssumption DEF Pushed, Queued, In
  <2> QED
    BY <1>2, <2>1
<1>3. CASE ~In(queue, s, t)
  <2>1. Pushed(s, t) = Append(queue, e)
    BY <1>3 DEF Pushed, Queued, In
  <2> HIDE DEF e
  <2> QED
    BY <1>1, <2>1, PushedFacts
<1> QED
  BY <1>2, <1>3

\* The page posts an event of s and goes on to another state of the session.
LEMMA PostStep ==
  ASSUME IInv, NEW s \in Sessions, NEW t \in Types, Post(s, t),
         t = "generate" => Unsent(s),
         NEW e \in {"generating", "dropped", "handled", "saving"},
         page' = [page EXCEPT ![s] = e]
  PROVE  \A r \in Sessions : Ordered(r)' /\ Journalled(r)' /\ Ended(r)'
<1> DEFINE q == Pushed(s, t)
<1>1. /\ queue \in Seq(Entries)
      /\ page \in [Sessions -> {"none", "capturing", "generating", "cycling", "saving", "handled", "dropped"}]
      /\ phase \in [Sessions -> {"new", "active", "completed", "discarded"}]
      /\ pending \in [Sessions -> Types \union {"none"}]
  BY DEF IInv, TypeOK
<1>2. /\ q \in Seq(Entries)
      /\ \A r, u : In(q, r, u) <=> In(queue, r, u) \/ (r = s /\ u = t)
      /\ \A r : r # s /\ One(queue, r) => One(q, r)
      /\ \A r : r # s /\ GenerateFirst(queue, r) => GenerateFirst(q, r)
      /\ (\A u : ~In(queue, s, u)) => One(q, s) /\ GenerateFirst(q, s)
      /\ t # "generate" /\ GenerateFirst(queue, s) => GenerateFirst(q, s)
  BY <1>1, PushedWork
<1>3. Flush(q)
  BY DEF Post
<1>4. Kept(q) /\ Handed(q)
  BY <1>2, <1>3, FlushFacts
<1> HIDE DEF q
<1>5. /\ up /\ up' = up /\ source' = source /\ incidents' = incidents
      /\ phase' = [phase EXCEPT ![s] = "active"]
      /\ pending' = [pending EXCEPT ![s] = t]
      /\ owed' = owed \union {<<s, t>>}
      /\ crossed' = IF Overtakes(s) THEN crossed \union {s} ELSE crossed
  BY DEF Post
<1>6. \A r \in Sessions :
        /\ \A u : In(queue', r, u) <=> In(q, r, u)
        /\ One(q, r) => One(queue', r)
        /\ GenerateFirst(q, r) => GenerateFirst(queue', r)
  BY <1>4 DEF Kept, SameWork, Thinner
<1>7. ASSUME NEW r \in Sessions
      PROVE  /\ held'.session = r =>
                  \/ held' = held
                  \/ \E u \in Types : In(q, r, u) /\ held' = [session |-> r, type |-> u]
             /\ answer' = answer
             /\ held' # held => answer' = "none"
  <2>1. r # None
    BY NoneAssumption
  <2> QED
    BY <1>4, <2>1 DEF Handed, worker, Idle, IInv, Placed
<1>8. ASSUME NEW r \in Sessions
      PROVE  /\ held'.session = r /\ answer' \in {"complete", "discarded"} => Clear(r)'
             /\ Clear(r)' = Clear(r)
  <2>1. Clear(r)' = Clear(r)
    BY <1>5 DEF Clear
  <2>2. Ended(r)
    BY DEF IInv
  <2> QED
    BY <1>7, <2>1, <2>2 DEF Ended
<1>9. ASSUME NEW r \in Sessions, r # s
      PROVE  Ordered(r)' /\ Journalled(r)' /\ Ended(r)'
  <2>1. /\ Thinner(queue', queue, r)
        /\ \A u : In(queue, r, u) => In(queue', r, u)
    BY <1>2, <1>6, <1>9 DEF Thinner
  <2>2. held'.session = r =>
          \/ held' = held
          \/ \E u \in Types : In(queue, r, u) /\ held' = [session |-> r, type |-> u]
    BY <1>2, <1>7, <1>9
  <2>3. Terminal(r) => Clear(r)'
    BY <1>8 DEF IInv, Ended
  <2>4. \A u \in Types : <<r, u>> \in owed' <=> <<r, u>> \in owed
    BY <1>5, <1>9
  <2>5. /\ phase'[r] = phase[r] /\ pending'[r] = pending[r]
        /\ r \in crossed' <=> r \in crossed
        /\ page'[r] = page[r] /\ source'[r] = source[r]
        /\ incidents \subseteq incidents'
    BY <1>1, <1>5, <1>9
  <2>6. PageGoesOn(r)
    BY <2>5 DEF PageGoesOn, Unsent, IInv, Ended
  <2>7. QuietFor(r)
    BY <1>5, <1>8, <2>1, <2>2, <2>3, <2>4, <2>5, <2>6 DEF QuietFor
  <2> QED
    BY <2>7, QuietForStep
<1>10. Ordered(s) /\ Journalled(s) /\ Ended(s)
  BY DEF IInv
<1>11. ~Overtakes(s) => held.session # s /\ \A u : ~In(queue, s, u)
  BY DEF Overtakes, OfSession, In
<1>12. phase'[s] = "active" /\ pending'[s] = t /\ page'[s] \notin {"none", "capturing"}
  BY <1>1, <1>5
<1>13. Ordered(s)'
  <2>1. GenerateFirst(q, s)
    <3>1. Unsent(s) => \A u : ~In(queue, s, u)
      BY <1>10 DEF Ended, Untouched
    <3> QED
      BY <1>2, <1>10, <3>1 DEF Ordered
  <2>2. s \notin crossed' => One(q, s)
    BY <1>2, <1>5, <1>11
  <2> QED
    BY <1>6, <2>1, <2>2 DEF Ordered
<1>14. Journalled(s)'
  <2> SUFFICES ASSUME s \notin crossed' PROVE Journalled(s)'
    BY DEF Journalled
  <2>1. s \notin crossed /\ held.session # s /\ \A u : ~In(queue, s, u)
    BY <1>5, <1>11
  <2>2. \A u \in Types : <<s, u>> \notin owed
    BY <1>5, <1>10, <2>1 DEF Journalled
  <2>3. \A u \in Types : <<s, u>> \in owed' <=> u = t
    BY <1>5, <2>2
  <2>4. \A u : In(queue', s, u) <=> u = t
    BY <1>2, <1>6, <2>1
  <2>5. held'.session = s => held'.type = t
    BY <1>2, <1>7, <2>1
  <2> QED
    BY <1>12, <2>3, <2>4, <2>5 DEF Journalled
<1>15. Ended(s)'
  BY <1>8, <1>12 DEF Ended, Terminal, Unsent
<1> QED
  BY <1>9, <1>13, <1>14, <1>15

\* What a reply about the event the agent holds does to sessions.
LEMMA ReplyStep ==
  ASSUME IInv, Reply
  PROVE  \A r \in Sessions : Ordered(r)' /\ Journalled(r)' /\ Ended(r)'
<1>0. PICK s \in Sessions : s = held.session
  BY DEF IInv, TypeOK, Placed, Reply
<1>1. /\ queue \in Seq(Entries)
      /\ phase \in [Sessions -> {"new", "active", "completed", "discarded"}]
      /\ pending \in [Sessions -> Types \union {"none"}]
      /\ held \in [session : Sessions, type : Types]
  BY DEF IInv, TypeOK, Placed, Reply
<1>2. s \in Sessions /\ held.type \in Types /\ s # None
  BY <1>1, NoneAssumption
<1>3. /\ queue' \in Seq(Entries)
      /\ \A r : Thinner(queue', queue, r)
      /\ \A r : r # s => \A t : In(queue, r, t) => In(queue', r, t)
      /\ One(queue, s) => \A t : ~In(queue', s, t)
      /\ GenerateFirst(queue, s) => ~In(queue', s, "generate")
  BY <1>0, <1>1, <1>2, AckedFacts DEF Reply
<1>4. /\ up' = up /\ source' = source /\ crossed' = crossed /\ answer' = "none"
      /\ owed' = owed \ {<<s, held.type>>}
      /\ incidents \subseteq incidents'
      /\ (held' = held /\ answer = "agent_done") \/ held' = Idle
  BY <1>0 DEF Reply, Afterwards, Incident
<1>5. ASSUME NEW r \in Sessions
      PROVE  /\ page'[r] = page[r] \/ page'[r] \in {"cycling", "handled", "dropped"}
             /\ r # s => \/ page'[r] = page[r]
                         \/ page'[r] = "dropped" /\ page[r] \in {"generating", "cycling", "saving"}
  <2>1. page' = PageAfter(s, answer)
    BY <1>0 DEF Reply
  <2> QED
    BY <1>2, <2>1 DEF PageAfter
<1>6. \/ /\ phase' = [phase EXCEPT ![s] = PhaseAfter(answer)]
         /\ pending' = [pending EXCEPT ![s] = "none"]
         /\ ~Terminal(s) \/ OfSession(s) # {}
      \/ OfSession(s) = {} /\ Terminal(s) /\ phase' = phase /\ pending' = pending
      \/ phase' = phase /\ pending' = pending /\ "append" \in incidents'
  BY <1>0 DEF Reply, journal, Incident
<1>7. \A r \in Sessions : Clear(r)' = Clear(r)
  BY <1>4 DEF Clear
<1>8. Ordered(s) /\ Journalled(s) /\ Ended(s)
  BY <1>2 DEF IInv
<1>9. held = [session |-> s, type |-> held.type]
  BY <1>0, <1>1
<1>10. ASSUME NEW r \in Sessions, r # s
       PROVE  Ordered(r)' /\ Journalled(r)' /\ Ended(r)'
  <2>1. held'.session # r
    BY <1>4, <1>9, <1>10, NoneAssumption DEF Idle
  <2>2. phase'[r] = phase[r] /\ pending'[r] = pending[r]
    BY <1>1, <1>6, <1>10
  <2>3. \A u \in Types : <<r, u>> \in owed' <=> <<r, u>> \in owed
    BY <1>4, <1>10
  <2>4. Terminal(r) => Clear(r)'
    BY <1>7 DEF IInv, Ended
  <2>5. PageGoesOn(r)
    <3>1. phase[r] = "new" => source[r] = "plain" /\ page[r] \in {"none", "capturing", "dropped"}
      BY DEF IInv, Ended
    <3> QED
      BY <1>4, <1>5, <1>10, <3>1 DEF PageGoesOn, Unsent
  <2>6. QuietFor(r)
    BY <1>3, <1>4, <1>10, <2>1, <2>2, <2>3, <2>4, <2>5 DEF QuietFor
  <2> QED
    BY <2>6, QuietForStep
<1>11. Ordered(s)'
  BY <1>3, <1>4, <1>8 DEF Ordered, Thinner
<1>12. PhaseAfter("agent_done") = "active" /\ PhaseAfter(answer) # "new"
  BY DEF PhaseAfter
<1>13. PhaseAfter(answer) \in {"completed", "discarded"} => answer \in {"complete", "discarded"}
  BY DEF PhaseAfter
<1>14. Journalled(s)'
  <2> SUFFICES ASSUME s \notin crossed PROVE Journalled(s)'
    BY <1>4 DEF Journalled
  <2>1. \A t : ~In(queue', s, t)
    BY <1>3, <1>8 DEF Ordered
  <2>2. phase[s] = "active"
    BY <1>0, <1>8 DEF Journalled
  <2>3. \A t \in Types : <<s, t>> \notin owed'
    BY <1>0, <1>4, <1>8 DEF Journalled
  <2>4. held'.session = s => phase'[s] = "active"
    BY <1>1, <1>2, <1>4, <1>6, <1>12, <2>2 DEF Idle
  <2>5. "append" \notin incidents' => pending'[s] = "none"
    BY <1>1, <1>2, <1>6, <2>2 DEF Terminal
  <2>6. "none" \notin Types
    BY DEF Types
  <2> QED
    BY <2>1, <2>3, <2>4, <2>5, <2>6 DEF Journalled
<1>15. Ended(s)'
  <2>1. ~Unsent(s) /\ phase[s] # "new"
    BY <1>0, <1>8 DEF Ended, Untouched
  <2>5. ~Unsent(s)'
    BY <1>2, <1>5, <2>1 DEF Unsent
  <2>2. ~In(queue', s, "generate")
    BY <1>3, <1>8 DEF Ordered
  <2>3. phase'[s] # "new"
    BY <1>1, <1>2, <1>6, <1>12, <2>1
  <2>4. ASSUME Terminal(s)'
        PROVE  /\ Clear(s)' /\ pending'[s] = "none"
               /\ held' # [session |-> s, type |-> "generate"]
    <3>1. CASE phase'[s] = phase[s] /\ pending'[s] = pending[s]
      BY <1>2, <1>4, <1>7, <1>8, <2>4, <3>1 DEF Ended, Terminal, Idle
    <3>2. CASE phase'[s] = PhaseAfter(answer) /\ pending'[s] = "none"
      <4>1. answer \in {"complete", "discarded"}
        BY <1>13, <2>4, <3>2 DEF Terminal
      <4>2. held' = Idle /\ Clear(s)
        BY <1>0, <1>4, <1>8, <4>1 DEF Ended
      <4> QED
        BY <1>2, <1>7, <3>2, <4>2 DEF Idle
    <3> QED
      BY <1>1, <1>2, <1>6, <3>1, <3>2
  <2> QED
    BY <1>4, <2>2, <2>3, <2>4, <2>5 DEF Ended
<1> QED
  BY <1>10, <1>11, <1>14, <1>15

LEMMA DirectlyStep ==
  ASSUME IInv, CompleteDirectly
  PROVE  \A r \in Sessions : Ordered(r)' /\ Journalled(r)' /\ Ended(r)'
<1>0. PICK s \in Sessions : s = held.session
  BY DEF IInv, TypeOK, Placed, CompleteDirectly
<1>1. /\ phase \in [Sessions -> {"new", "active", "completed", "discarded"}]
      /\ pending \in [Sessions -> Types \union {"none"}]
      /\ held \in [session : Sessions, type : Types]
  BY DEF IInv, TypeOK, Placed, CompleteDirectly
<1>2. s \in Sessions /\ held.type \in Types
  BY <1>1
<1>3. /\ ~up /\ queue = <<>> /\ answer \in {"complete", "discarded"}
      /\ up' = up /\ queue' = queue /\ page' = page /\ source' = source
      /\ crossed' = crossed /\ incidents' = incidents
      /\ owed' = owed \ {<<s, held.type>>}
      /\ held' = Idle /\ answer' = "none"
      /\ phase' = [phase EXCEPT ![s] = PhaseAfter(answer)]
      /\ pending' = [pending EXCEPT ![s] = "none"]
  BY <1>0 DEF CompleteDirectly, server, IInv, Placed
<1>4. \A r \in Sessions : Clear(r)' = Clear(r)
  BY <1>3 DEF Clear
<1>5. Ordered(s) /\ Journalled(s) /\ Ended(s)
  BY <1>2 DEF IInv
<1>6. Clear(s)
  BY <1>0, <1>3, <1>5 DEF Ended
<1>7. \A r, t : ~In(queue, r, t)
  BY <1>3 DEF In
<1>8. s \notin crossed => \A t \in Types : <<s, t>> \notin owed'
  BY <1>0, <1>3, <1>5 DEF Journalled
<1>9. ASSUME NEW r \in Sessions, r # s
      PROVE  Ordered(r)' /\ Journalled(r)' /\ Ended(r)'
  <2>1. held'.session # r
    BY <1>3, NoneAssumption DEF Idle
  <2>2. phase'[r] = phase[r] /\ pending'[r] = pending[r]
    BY <1>1, <1>3, <1>9
  <2>3. \A u \in Types : <<r, u>> \in owed' <=> <<r, u>> \in owed
    BY <1>3, <1>9
  <2>4. Terminal(r) => Clear(r)'
    BY <1>4 DEF IInv, Ended
  <2>5. Thinner(queue', queue, r)
    BY <1>3 DEF Thinner
  <2>6. PageGoesOn(r)
    BY <1>3, PageStays
  <2>7. QuietFor(r)
    BY <1>3, <2>1, <2>2, <2>3, <2>4, <2>5, <2>6 DEF QuietFor
  <2> QED
    BY <2>7, QuietForStep
<1>10. phase'[s] # "new" /\ pending'[s] = "none" /\ held'.session # s
  BY <1>1, <1>2, <1>3, NoneAssumption DEF PhaseAfter, Idle
<1>11. Ordered(s)'
  BY <1>3, <1>5 DEF Ordered
<1>12. Journalled(s)'
  BY <1>3, <1>7, <1>8, <1>10 DEF Journalled, Types
<1>13. Ended(s)'
  <2>1. ~Unsent(s) /\ ~Unsent(s)'
    BY <1>0, <1>3, <1>5 DEF Ended, Untouched, Unsent
  <2>2. held' # [session |-> s, type |-> "generate"]
    BY <1>10
  <2> QED
    BY <1>2, <1>3, <1>4, <1>6, <1>7, <1>10, <2>1, <2>2 DEF Ended
<1> QED
  BY <1>9, <1>11, <1>12, <1>13

LEMMA DownStep ==
  ASSUME IInv, Crash \/ Stop, NEW s \in Sessions
  PROVE  Ordered(s)' /\ Journalled(s)' /\ Ended(s)'
<1>1. /\ up' = FALSE /\ queue' = <<>>
      /\ UNCHANGED <<journal, held, answer, owed, crossed>>
      /\ incidents \subseteq incidents'
      /\ page' = [r \in Sessions |-> IF page[r] = "capturing" THEN "dropped" ELSE page[r]]
  BY DEF Crash, Stop, Down, Incident
<1>2. phase' = phase /\ pending' = pending
  BY <1>1 DEF journal
<1>3. \A t : ~In(queue', s, t)
  BY <1>1 DEF In
<1>4. Ordered(s) /\ Journalled(s) /\ Ended(s)
  BY DEF IInv
<1>5. Clear(s) => Clear(s)'
  BY DEF Crash, Stop, Clear, Clean
<1>6. Ordered(s)'
  BY <1>1 DEF Ordered, One, GenerateFirst
<1>7. Journalled(s)'
  BY <1>1, <1>2, <1>3, <1>4 DEF Journalled
<1>8. Ended(s)'
  <2>1. Unsent(s)' => Unsent(s)
    BY <1>1 DEF Unsent
  <2>2. Untouched(s) => Untouched(s)'
    BY <1>1, <1>2, <1>3 DEF Untouched
  <2>3. phase[s] = "new" => source'[s] = "plain" /\ page'[s] \in {"none", "capturing", "dropped"}
    <3>1. source[s] = "plain" => source'[s] = "plain"
      BY DEF Crash, Stop, Clean
    <3> QED
      BY <1>1, <1>4, <3>1 DEF Ended
  <2> QED
    BY <1>1, <1>2, <1>3, <1>4, <1>5, <2>1, <2>2, <2>3 DEF Ended, Terminal
<1> QED
  BY <1>6, <1>7, <1>8

LEMMA StartStep ==
  ASSUME IInv, Start, NEW s \in Sessions
  PROVE  Ordered(s)' /\ Journalled(s)' /\ Ended(s)'
<1>1. UNCHANGED <<journal, held, answer, page, source, owed, crossed, incidents>>
  BY DEF Start, history
<1>2. phase' = phase /\ pending' = pending
  BY <1>1 DEF journal
<1>3. /\ queue' \in Seq(Entries)
      /\ One(queue', s) /\ GenerateFirst(queue', s)
      /\ \A t \in Types : In(queue', s, t) <=> phase[s] = "active" /\ pending[s] = t
  <2>1. "none" \notin Types
    BY DEF Types
  <2> QED
    BY <2>1, StartFacts DEF IInv, Restorable
<1>4. \A t : In(queue', s, t) => t \in Types
  BY <1>3, EntryFacts DEF In
<1>5. Ordered(s) /\ Journalled(s) /\ Ended(s)
  BY DEF IInv
<1>6. Ordered(s)'
  BY <1>3 DEF Ordered
<1>7. Journalled(s)'
  BY <1>1, <1>2, <1>3, <1>5 DEF Journalled
<1>8. Ended(s)'
  <2>1. Untouched(s) => Untouched(s)'
    BY <1>1, <1>2, <1>3, <1>4 DEF Untouched, Types
  <2>2. Unsent(s)' = Unsent(s)
    BY <1>1 DEF Unsent
  <2> QED
    BY <1>1, <1>2, <1>3, <1>4, <1>5, <2>1, <2>2 DEF Ended, Terminal, Clear, Types
<1> QED
  BY <1>6, <1>7, <1>8

\* The journal may learn of a session from a checkpoint, before its generate.
LEMMA CheckpointStep ==
  ASSUME IInv, NEW s \in Sessions, Checkpoint(s), NEW r \in Sessions
  PROVE  Ordered(r)' /\ Journalled(r)' /\ Ended(r)'
<1>1. /\ UNCHANGED <<up, pending, owed, crossed, queue, incidents, held, answer, page, source>>
      /\ phase' = phase \/ (phase[s] = "new" /\ phase' = [phase EXCEPT ![s] = "active"])
  BY CheckpointFacts
<1>2. Ordered(r) /\ Journalled(r) /\ Ended(r)
  BY DEF IInv
<1>3. phase \in [Sessions -> {"new", "active", "completed", "discarded"}]
  BY DEF IInv, TypeOK
<1>4. phase'[r] = phase[r] \/ (phase[r] = "new" /\ phase'[r] = "active")
  BY <1>1, <1>3
<1>5. \A t : In(queue', r, t) <=> In(queue, r, t)
  BY <1>1
<1>6. Ordered(r)'
  BY <1>1, <1>2 DEF Ordered
<1>7. CASE phase'[r] = phase[r]
  BY <1>1, <1>2, <1>5, <1>6, <1>7 DEF Journalled, Ended, Terminal, Clear, Unsent, Untouched
<1>8. CASE phase[r] = "new" /\ phase'[r] = "active"
  <2>1. Untouched(r)
    BY <1>2, <1>8 DEF Ended
  <2>2. Journalled(r)'
    BY <1>1, <1>2, <1>5, <1>8, <2>1 DEF Journalled, Untouched, Types
  <2>3. Ended(r)'
    BY <1>1, <1>2, <1>5, <1>8, <2>1 DEF Ended, Terminal, Clear, Unsent, Untouched
  <2> QED
    BY <1>6, <2>2, <2>3
<1> QED
  BY <1>4, <1>7, <1>8

\* The page posts an event of s.
Posts(s) ==
  \E t \in Types, e \in {"generating", "dropped", "handled", "saving"} :
    /\ Post(s, t)
    /\ page' = [page EXCEPT ![s] = e]
    /\ t = "generate" => Unsent(s)

LEMMA Steps ==
  ASSUME IInv, Next
  PROVE  \/ Quiet
         \/ \E s \in Sessions : Posts(s) \/ Checkpoint(s)
         \/ Reply \/ CompleteDirectly \/ Crash \/ Stop \/ Start
<1>1. ASSUME NEW s \in Sessions, Page(s) PROVE Quiet \/ Posts(s) \/ Checkpoint(s)
  <2>1. CASE Go(s) \/ Lost(s) \/ VariantsArrive(s) \/ Reload(s)
    BY <2>1, PageIsQuiet
  <2>2. CASE Emit(s)
    BY <2>2 DEF Emit, Posts, Types, Unsent
  <2>3. CASE Accept(s)
    BY <2>3 DEF Accept, Posts, Types
  <2>4. CASE Discard(s)
    BY <2>4 DEF Discard, Posts, Types
  <2> QED
    BY <1>1, <2>1, <2>2, <2>3, <2>4 DEF Page
<1> QED
  BY <1>1, ConnectionIsQuiet, ExitIsQuiet, PollIsQuiet, LeaseIsQuiet, AgentIsQuiet
     DEF Next, Work

LEMMA StutterIsQuiet ==
  ASSUME IInv, UNCHANGED vars
  PROVE  Quiet
<1>1. /\ UNCHANGED <<up, journal, owed, crossed, queue, page, source, held, answer>>
      /\ incidents' = incidents
  BY DEF vars, server, worker, history
<1>2. ASSUME NEW s \in Sessions
      PROVE  /\ held'.session = s /\ answer' \in {"complete", "discarded"} => Clear(s)'
             /\ Terminal(s) => Clear(s)'
  BY <1>1 DEF IInv, Ended, Clear
<1>3. held' \in {held, Idle} /\ incidents \subseteq incidents'
  BY <1>1
<1> QED
  BY <1>1, <1>2, <1>3, WorkIsQuiet, PageStays

LEMMA SessionStep ==
  ASSUME IInv, [Next]_vars
  PROVE  \A s \in Sessions : Ordered(s)' /\ Journalled(s)' /\ Ended(s)'
<1>1. CASE Quiet
  BY <1>1, QuietStep
<1>2. ASSUME NEW s \in Sessions, Posts(s)
      PROVE  \A r \in Sessions : Ordered(r)' /\ Journalled(r)' /\ Ended(r)'
  BY <1>2, PostStep DEF Posts
<1>3. CASE Reply \/ CompleteDirectly
  BY <1>3, ReplyStep, DirectlyStep
<1>4. CASE Crash \/ Stop \/ Start
  BY <1>4, DownStep, StartStep
<1>5. ASSUME NEW s \in Sessions, Checkpoint(s)
      PROVE  \A r \in Sessions : Ordered(r)' /\ Journalled(r)' /\ Ended(r)'
  BY <1>5, CheckpointStep
<1> QED
  BY <1>1, <1>2, <1>3, <1>4, <1>5, Steps, StutterIsQuiet

-----------------------------------------------------------------------------
(* The exit event.                                                         *)

LEMMA ExitEvent ==
  ASSUME NEW q \in Seq(Entries)
  PROVE  (\E i \in DOMAIN q : q[i].type = "exit") <=> In(q, None, "exit")
<1>1. ASSUME NEW i \in DOMAIN q, q[i].type = "exit" PROVE q[i].session = None
  BY <1>1, EntryFacts
<1> QED
  BY <1>1 DEF In

LEMMA ExitStep ==
  ASSUME IInv, [Next]_vars
  PROVE  ExitOnlyAlone'
<1>1. /\ queue \in Seq(Entries) /\ queue' \in Seq(Entries) /\ tabs \in Nat
      /\ In(queue, None, "exit") => tabs = 0 \/ asked
  <2>1. TypeOK' /\ TypeOK
    BY TypeStep DEF IInv
  <2> QED
    BY <2>1, ExitEvent, TabsAssumption DEF IInv, TypeOK, ExitOnlyAlone
<1> SUFFICES ASSUME In(queue', None, "exit") PROVE tabs' = 0 \/ asked'
  BY <1>1, ExitEvent DEF ExitOnlyAlone
<1>2. ASSUME In(queue, None, "exit"), tabs' = tabs, asked' = asked
      PROVE  tabs' = 0 \/ asked'
  BY <1>1, <1>2
<1>3. CASE UNCHANGED vars
  BY <1>2, <1>3 DEF vars, server, history
<1>4. ASSUME NEW s \in Sessions, Page(s) PROVE tabs' = 0 \/ asked'
  <2>1. CASE Go(s) \/ Lost(s) \/ VariantsArrive(s) \/ Checkpoint(s) \/ Reload(s)
    BY <1>2, <2>1 DEF Go, Lost, VariantsArrive, Checkpoint, Reload, server, history
  <2>2. ASSUME NEW t \in Types, Post(s, t) PROVE tabs' = 0 \/ asked'
    <3>1. Pushed(s, t) \in Seq(Entries) /\ Flush(Pushed(s, t))
      BY <1>1, <2>2, PushedWork DEF Post
    <3>2. In(Pushed(s, t), None, "exit")
      BY <3>1, FlushFacts DEF Kept
    <3>3. In(queue, None, "exit")
      BY <1>1, <3>2, PushedWork, NoneAssumption
    <3> QED
      BY <1>2, <2>2, <3>3 DEF Post
  <2> QED
    BY <1>4, <2>1, <2>2 DEF Page, Emit, Accept, Discard, Types
<1>5. CASE Connect
  BY <1>1, <1>5, NoExitsFacts DEF Connect
<1>6. CASE Disconnect
  BY <1>1, <1>6 DEF Disconnect, history
<1>7. CASE ExitTimerFires
  BY <1>2, <1>7 DEF ExitTimerFires, history
<1>8. CASE Exit
  BY <1>8 DEF Exit
<1>9. CASE Poll
  <2>1. CASE Free(queue) # {}
    BY <1>1, <1>2, <1>9, <2>1, DeliverFacts DEF Poll, Kept, history
  <2>2. CASE Free(queue) = {}
    BY <1>2, <1>9, <2>2 DEF Poll, history
  <2> QED
    BY <2>1, <2>2
<1>10. CASE LeaseExpires
  <2>1. PICK i \in DOMAIN queue :
          /\ queue[i].leased
          /\ Flush([queue EXCEPT ![i].leased = FALSE])
          /\ tabs' = tabs /\ asked' = asked
    BY <1>10 DEF LeaseExpires, history
  <2> DEFINE q == [queue EXCEPT ![i].leased = FALSE]
  <2>2. q \in Seq(Entries) /\ (In(q, None, "exit") => In(queue, None, "exit"))
    BY <1>1, <2>1, LeaseFacts
  <2>3. Kept(q)
    BY <2>1, <2>2, FlushFacts
  <2> HIDE DEF q
  <2> QED
    BY <1>2, <2>1, <2>2, <2>3 DEF Kept
<1>11. CASE Generate \/ RunAccept \/ RunDiscard \/ CleanUp
  BY <1>2, <1>11 DEF Generate, RunAccept, RunDiscard, CleanUp, Ready, server, history
<1>12. CASE ScriptFails \/ Interrupt \/ CompleteDirectly
  BY <1>2, <1>12 DEF ScriptFails, Interrupt, CompleteDirectly, server
<1>13. CASE Reply
  <2>1. held.session \in Sessions /\ queue' = Acked(held.session)
    BY <1>13 DEF Reply, IInv, TypeOK, Placed
  <2>2. Thinner(queue', queue, None)
    BY <1>1, <2>1, AckedFacts
  <2> QED
    BY <1>2, <1>13, <2>2 DEF Reply, Thinner
<1>14. CASE Crash \/ Stop
  BY <1>14 DEF Crash, Stop, Down
<1>15. CASE Start
  BY <1>15, StartFacts DEF IInv
<1> QED
  BY <1>3, <1>4, <1>5, <1>6, <1>7, <1>8, <1>9, <1>10, <1>11, <1>12, <1>13, <1>14,
     <1>15 DEF Next, Work

-----------------------------------------------------------------------------
(* The invariant holds.                                                    *)

LEMMA InitHolds ==
  ASSUME Init
  PROVE  IInv
<1>1. TypeOK
  <2>1. tabs \in 0..MaxTabs /\ queue \in Seq(Entries)
    BY TabsAssumption DEF Init
  <2> QED
    BY <2>1 DEF Init, TypeOK
<1>2. Placed
  BY DEF Init, Placed
<1>3. ASSUME NEW s \in Sessions PROVE Ordered(s) /\ Journalled(s) /\ Ended(s)
  <2>1. s # None
    BY NoneAssumption
  <2> QED
    BY <2>1 DEF Init, Ordered, Journalled, Ended, Terminal, GenerateFirst, One, In, Idle, Types,
                Unsent, Untouched, Clear
<1>4. ExitOnlyAlone
  BY DEF Init, ExitOnlyAlone
<1> QED
  BY <1>1, <1>2, <1>3, <1>4 DEF IInv

\* The invariant holds throughout every behaviour.
THEOREM Invariant == Spec => []IInv
<1>1. Init => IInv
  BY InitHolds
<1>2. IInv /\ [Next]_vars => IInv'
  <2> SUFFICES ASSUME IInv, [Next]_vars PROVE IInv'
    OBVIOUS
  <2>1. TypeOK' /\ Placed'
    BY TypeStep DEF IInv
  <2> QED
    BY <2>1, SessionStep, ExitStep DEF IInv
<1> QED
  BY <1>1, <1>2, PTL DEF Spec

\* Server, agent, page and journal stay within the states the code gives them.
THEOREM TypeCorrect == Spec => []TypeOK
<1>1. IInv => TypeOK
  BY DEF IInv
<1> QED
  BY <1>1, Invariant, PTL

\* An exit event never waits for the agent while a page is connected whose user
\* did not ask for it.
THEOREM ExitsAreMeant == Spec => []ExitOnlyAlone
<1>1. IInv => ExitOnlyAlone
  BY DEF IInv
<1> QED
  BY <1>1, Invariant, PTL

\* A session that reads completed or discarded has left nothing in the source.
THEOREM EndsAreClean == Spec => []EndedIsClean
<1>1. IInv => EndedIsClean
  BY DEF IInv, Ended, Clear, EndedIsClean
<1> QED
  BY <1>1, Invariant, PTL

\* An event of a session whose events come one at a time is in the queue, or in
\* the journal while the server is down, until the agent has replied to it.
THEOREM EventsAreKept == Spec => []NothingIsLost
<1>1. IInv => NothingIsLost
  <2> SUFFICES ASSUME IInv, NEW s \in Sessions \ crossed, NEW t \in Types, <<s, t>> \in owed
               PROVE  IF up THEN Queued(s, t) ELSE s \in Restorable /\ pending[s] = t
    BY DEF NothingIsLost
  <2>1. phase[s] = "active" /\ pending[s] = t /\ (up => In(queue, s, t))
    BY DEF IInv, Journalled
  <2>2. t # "none"
    BY DEF Types
  <2> QED
    BY <2>1, <2>2 DEF In, Queued, Restorable
<1> QED
  BY <1>1, Invariant, PTL

\* While no write was lost, journal and queue agree on the sessions whose events
\* come one at a time, so that a restart changes nothing.
THEOREM JournalIsTheQueue == Spec => []JournalMatchesQueue
<1>1. IInv => JournalMatchesQueue
  <2> SUFFICES ASSUME IInv, up, "append" \notin incidents,
                      NEW s \in Sessions \ crossed, NEW t \in Types
               PROVE  Queued(s, t) <=> s \in Restorable /\ pending[s] = t
    BY DEF JournalMatchesQueue
  <2>1. In(queue, s, t) <=> phase[s] = "active" /\ pending[s] = t
    BY DEF IInv, Journalled
  <2>2. t # "none"
    BY DEF Types
  <2> QED
    BY <2>1, <2>2 DEF In, Queued, Restorable
<1> QED
  BY <1>1, Invariant, PTL

\* A session that has ended stays so until the page posts an event of it.
THEOREM EndsAreFinal == Spec => TerminalStays
<1>1. IInv /\ [Next]_vars =>
        [\A s \in Sessions \ crossed :
           Terminal(s) /\ owed' \subseteq owed => phase'[s] = phase[s]]_vars
  <2> SUFFICES ASSUME IInv, Next, NEW s \in Sessions \ crossed,
                      Terminal(s), owed' \subseteq owed
               PROVE  phase'[s] = phase[s]
    OBVIOUS
  <2>1. /\ phase \in [Sessions -> {"new", "active", "completed", "discarded"}]
        /\ phase[s] # "active"
    BY DEF Terminal, IInv, TypeOK
  <2>2. held.session # s /\ \A t \in Types : <<s, t>> \notin owed
    BY <2>1 DEF IInv, Journalled
  <2>3. CASE Quiet \/ Crash \/ Stop \/ Start
    BY <2>3 DEF Quiet, Crash, Stop, Start, journal
  <2>4. ASSUME NEW r \in Sessions, Posts(r) PROVE phase'[s] = phase[s]
    <3>1. PICK t \in Types : <<r, t>> \in owed' /\ phase' = [phase EXCEPT ![r] = "active"]
      BY <2>4 DEF Posts, Post
    <3>2. r # s
      BY <2>2, <3>1
    <3> QED
      BY <2>1, <3>1, <3>2
  <2>5. ASSUME NEW r \in Sessions, Checkpoint(r) PROVE phase'[s] = phase[s]
    BY <2>1, <2>5 DEF Checkpoint, Terminal
  <2>6. CASE Reply \/ CompleteDirectly
    BY <2>1, <2>2, <2>6 DEF Reply, CompleteDirectly, journal
  <2> QED
    BY <2>3, <2>4, <2>5, <2>6, Steps
<1> QED
  BY <1>1, Invariant, PTL DEF Spec, TerminalStays

=============================================================================
