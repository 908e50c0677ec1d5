------------------------ MODULE TrackingRequestProofs ------------------------
(***************************************************************************)
(* Theorems about the request of a call, for any configurations, payloads, *)
(* texts and lists of dimensions.  The steps are single calls; what is     *)
(* hard is the loop over the dimensions, in AllTurns, and the order of a   *)
(* QMap, in InOrderDef, each by induction over a set of numbers.  A query  *)
(* is put together from pieces that share no name, see QueryConcat.        *)
(***************************************************************************)
EXTENDS TrackingRequest, FiniteSetTheorems, WellFoundedInduction, NaturalsInduction, TLAPS

----------------------------------------------------------------------------
(* Induction.  A set of numbers that is not empty has a least one.         *)

LEMMA LeastNumber ==
    ASSUME NEW S \in SUBSET Nat, S # {}
    PROVE  \E n \in S : \A m \in S : n <= m
<1>1. IsWellFoundedOn(OpToRel(<, Nat), Nat)
  BY NatLessThanWellFounded
<1>2. PICK n \in S : \A m \in S : ~(<<m, n>> \in OpToRel(<, Nat))
  BY <1>1, WFMin
<1>3. ASSUME NEW m \in S PROVE n <= m
  <2>1. ~(m < n)
    BY <1>2 DEF OpToRel
  <2> QED BY <2>1
<1> QED BY <1>3

\* A set that has 0, and with a number the next, has all numbers.
LEMMA Induction ==
    ASSUME NEW S, 0 \in S, \A n \in Nat : n \in S => n + 1 \in S
    PROVE  Nat \subseteq S
<1> SUFFICES ASSUME ~(Nat \subseteq S) PROVE FALSE
  OBVIOUS
<1>1. PICK n \in Nat \ S : \A m \in Nat \ S : n <= m
  BY LeastNumber
<1>2. n # 0 /\ n - 1 \in Nat
  BY <1>1
<1>3. n - 1 \in S
  BY <1>1, <1>2
<1> QED BY <1>1, <1>2, <1>3

----------------------------------------------------------------------------
(* The loop of addCustomDimensions().                                      *)

Begun(items) == [ok |-> TRUE, used |-> {}, items |-> items]

IsLoop(f, items, dims, n) ==
    f = [k \in 0..n |-> IF k = 0 THEN Begun(items) ELSE AddDimension(f[k - 1], dims[k])]

LEMMA LoopExists ==
    ASSUME NEW items, NEW dims, NEW n \in Nat
    PROVE  \E f : IsLoop(f, items, dims, n)
<1> DEFINE Turn(f, k) == IF k = 0 THEN Begun(items) ELSE AddDimension(f[k - 1], dims[k])
           Done == {m \in Nat : \E f : f = [k \in 0..m |-> Turn(f, k)]}
<1>1. 0 \in Done
  <2>1. [k \in 0..0 |-> Begun(items)] = [k \in 0..0 |-> Turn([k_1 \in 0..0 |-> Begun(items)], k)]
    OBVIOUS
  <2> QED BY <2>1
<1>2. ASSUME NEW m \in Nat, m \in Done PROVE m + 1 \in Done
  <2>1. PICK f : f = [k \in 0..m |-> Turn(f, k)]
    BY <1>2
  <2> DEFINE g == [k \in 0..(m + 1) |-> IF k = m + 1 THEN Turn(f, k) ELSE f[k]]
  <2>2. ASSUME NEW k \in 0..(m + 1) PROVE g[k] = Turn(g, k)
    <3>1. CASE k = 0
      BY <2>1, <3>1
    <3>2. CASE k # 0
      <4>1. g[k - 1] = f[k - 1]
        BY <3>2
      <4>2. g[k] = Turn(f, k)
        <5>1. CASE k = m + 1
          BY <5>1
        <5>2. CASE k \in 0..m
          BY <5>2, <2>1
        <5> QED BY <5>1, <5>2
      <4> QED BY <4>1, <4>2
    <3> QED BY <3>1, <3>2
  <2>3. g = [k \in 0..(m + 1) |-> Turn(g, k)]
    BY <2>2
  <2> HIDE DEF g
  <2> QED BY <2>3
<1>3. n \in Done
  <2> HIDE DEF Done
  <2> QED BY <1>1, <1>2, Induction
<1> QED BY <1>3 DEF IsLoop

\* Each turn goes on from the one before.
LEMMA TurnsDef ==
    ASSUME NEW items, NEW dims, Len(dims) \in Nat
    PROVE  /\ Turns(items, dims)[0] = Begun(items)
           /\ \A n \in 1..Len(dims) :
                Turns(items, dims)[n] = AddDimension(Turns(items, dims)[n - 1], dims[n])
<1>1. Turns(items, dims) = CHOOSE f : IsLoop(f, items, dims, Len(dims))
  BY DEF Turns, Begun, IsLoop
<1>2. IsLoop(Turns(items, dims), items, dims, Len(dims))
  BY <1>1, LoopExists, Zenon
<1> QED BY <1>2 DEF IsLoop

----------------------------------------------------------------------------
(* Queries and their pieces.                                               *)

Names ==
    {"idsite", "rec", "apiv", "url", "_id", "ua", "lang", "res", "action_name", "ca", "e_c",
     "e_a", "e_n", "e_v", "ping", "dimension", "pv_id", "new_visit", "rand"}

Values ==
    Texts \cup EventValues \cup {"1", "base", "any"} \cup PageViewIds
        \cup {ToString(c.siteId) : c \in TrackerConfigs}

ParameterType == [name : Names, slot : Int, value : Values]

\* The dimensions among the parameters, as slot and value.
DimensionsOf(q) ==
    {<<q[i].slot, q[i].value>> : i \in {j \in DOMAIN q : q[j].name = "dimension"}}

\* q repeats nothing, and has only these names and these dimensions.
IsQuery(q, names, pairs) ==
    /\ q \in Seq(ParameterType)
    /\ \A i, j \in DOMAIN q : q[i].name = q[j].name /\ q[i].slot = q[j].slot => i = j
    /\ \A i \in DOMAIN q : q[i].name \in names
    /\ DimensionsOf(q) = pairs

LEMMA QueryEmpty == IsQuery(<<>>, {}, {})
BY DEF IsQuery, DimensionsOf

LEMMA QueryWiden ==
    ASSUME NEW q, NEW names, NEW more, NEW pairs, IsQuery(q, names, pairs), names \subseteq more
    PROVE  IsQuery(q, more, pairs)
BY DEF IsQuery

\* Pieces without a common name make a query without a repeated parameter.
LEMMA QueryConcat ==
    ASSUME NEW q, NEW p, NEW names, NEW more, NEW pairs, NEW others,
           IsQuery(q, names, pairs), IsQuery(p, more, others), names \cap more = {}
    PROVE  IsQuery(q \o p, names \cup more, pairs \cup others)
<1> DEFINE r == q \o p
<1>1. q \in Seq(ParameterType) /\ p \in Seq(ParameterType)
  BY DEF IsQuery
<1>2. /\ r \in Seq(ParameterType)
      /\ Len(r) = Len(q) + Len(p)
      /\ \A i \in 1..Len(r) : r[i] = IF i <= Len(q) THEN q[i] ELSE p[i - Len(q)]
  BY <1>1
<1>3. DOMAIN q = 1..Len(q) /\ DOMAIN p = 1..Len(p) /\ DOMAIN r = 1..Len(r)
      /\ Len(q) \in Nat /\ Len(p) \in Nat
  BY <1>1, <1>2
<1> HIDE DEF r
<1>4. \A i \in DOMAIN r :
        \/ i \in DOMAIN q /\ r[i] = q[i]
        \/ i - Len(q) \in DOMAIN p /\ i \notin DOMAIN q /\ r[i] = p[i - Len(q)]
  BY <1>2, <1>3
<1>5. \A i \in DOMAIN r : r[i].name \in names \cup more
  BY <1>4 DEF IsQuery
<1>6. ASSUME NEW i \in DOMAIN r, NEW j \in DOMAIN r, r[i].name = r[j].name, r[i].slot = r[j].slot
      PROVE  i = j
  <2>1. CASE i \in DOMAIN q /\ j \in DOMAIN q
    BY <1>4, <1>6, <2>1 DEF IsQuery
  <2>2. CASE i \notin DOMAIN q /\ j \notin DOMAIN q
    <3>1. i - Len(q) = j - Len(q)
      BY <1>4, <1>6, <2>2 DEF IsQuery
    <3> QED BY <3>1, <1>3
  <2>3. ~(i \in DOMAIN q <=> j \notin DOMAIN q)
    BY <1>4, <1>6 DEF IsQuery
  <2> QED BY <2>1, <2>2, <2>3
<1>7. DimensionsOf(r) = pairs \cup others
  <2>1. DimensionsOf(r) \subseteq DimensionsOf(q) \cup DimensionsOf(p)
    BY <1>4 DEF DimensionsOf
  <2>2. \A i \in DOMAIN q : i \in DOMAIN r /\ r[i] = q[i]
    BY <1>2, <1>3
  <2>3. \A i \in DOMAIN p : i + Len(q) \in DOMAIN r /\ r[i + Len(q)] = p[i]
    BY <1>2, <1>3
  <2>4. DimensionsOf(q) \subseteq DimensionsOf(r) /\ DimensionsOf(p) \subseteq DimensionsOf(r)
    BY <2>2, <2>3 DEF DimensionsOf
  <2> QED BY <2>1, <2>4 DEF IsQuery
<1> QED BY <1>2, <1>5, <1>6, <1>7 DEF IsQuery, r

LEMMA QueryOne ==
    ASSUME NEW n \in Names \ {"dimension"}, NEW v \in Values
    PROVE  IsQuery(<<Parameter(n, v)>>, {n}, {})
<1>1. Parameter(n, v) \in ParameterType
  BY DEF Parameter, ParameterType
<1> QED BY <1>1 DEF IsQuery, DimensionsOf, Parameter

LEMMA QueryOptional ==
    ASSUME NEW n \in Names \ {"dimension"}, NEW t \in Texts
    PROVE  IsQuery(Optional(n, t), {n}, {})
<1>1. Trimmed[t] \in Values
  BY TextAssumption DEF Values
<1> QED BY <1>1, QueryOne, QueryEmpty, QueryWiden DEF Optional

----------------------------------------------------------------------------
(* What addCustomDimensions() does.                                        *)

\* The first n dimensions are in range, and no two with a value share a slot.
AreGood(dims, n) ==
    /\ \A i \in 1..n : DimensionIsValid(dims[i])
    /\ \A i, j \in 1..n :
         dims[i].id = dims[j].id /\ dims[i].value # "" /\ dims[j].value # "" => i = j

\* Those of the first n that have a value.
PairsOf(dims, n) == {<<dims[i].id, dims[i].value>> : i \in {j \in 1..n : dims[j].value # ""}}

SlotsOf(dims, n) == {dims[i].id : i \in {j \in 1..n : dims[j].value # ""}}

\* The invariant of the loop.
AfterTurn(acc, names, dims, n) ==
    /\ acc = [ok |-> acc.ok, used |-> acc.used, items |-> acc.items]
    /\ acc.ok \in BOOLEAN
    /\ acc.ok <=> AreGood(dims, n)
    /\ acc.ok => /\ acc.used = SlotsOf(dims, n)
                 /\ IsQuery(acc.items, names \cup {"dimension"}, PairsOf(dims, n))

LEMMA DimensionAppended ==
    ASSUME NEW q, NEW names, NEW pairs, IsQuery(q, names, pairs), "dimension" \in names,
           NEW d \in DimensionType, \A v : <<d.id, v>> \notin pairs
    PROVE  IsQuery(Append(q, DimensionParameter(d)), names, pairs \cup {<<d.id, d.value>>})
<1> DEFINE r == Append(q, DimensionParameter(d))
<1>1. DimensionParameter(d) \in ParameterType
  BY DEF DimensionParameter, ParameterType, DimensionType, Names, Values
<1>2. /\ r \in Seq(ParameterType)
      /\ Len(q) \in Nat /\ DOMAIN q = 1..Len(q) /\ DOMAIN r = 1..(Len(q) + 1)
      /\ \A i \in DOMAIN q : r[i] = q[i]
      /\ r[Len(q) + 1] = DimensionParameter(d)
  BY <1>1 DEF IsQuery
<1> HIDE DEF r
<1>3. \A i \in DOMAIN r : i \in DOMAIN q \/ i = Len(q) + 1
  BY <1>2
<1>4. \A i \in DOMAIN q : ~(q[i].name = "dimension" /\ q[i].slot = d.id)
  <2>1. \A i \in DOMAIN q : q[i].name = "dimension" => <<q[i].slot, q[i].value>> \in pairs
    BY DEF IsQuery, DimensionsOf
  <2> QED BY <2>1
<1>5. \A i, j \in DOMAIN r : r[i].name = r[j].name /\ r[i].slot = r[j].slot => i = j
  BY <1>2, <1>3, <1>4 DEF IsQuery, DimensionParameter
<1>6. \A i \in DOMAIN r : r[i].name \in names
  BY <1>2, <1>3 DEF IsQuery, DimensionParameter
<1>7. DimensionsOf(r) = DimensionsOf(q) \cup {<<d.id, d.value>>}
  <2>1. DimensionsOf(r) \subseteq DimensionsOf(q) \cup {<<d.id, d.value>>}
    BY <1>2, <1>3 DEF DimensionsOf, DimensionParameter
  <2>2. \A i \in DOMAIN q : i \in DOMAIN r
    BY <1>2
  <2>3. DimensionsOf(q) \subseteq DimensionsOf(r)
    BY <1>2, <2>2 DEF DimensionsOf
  <2>4. Len(q) + 1 \in DOMAIN r
    BY <1>2
  <2>5. <<d.id, d.value>> \in DimensionsOf(r)
    BY <1>2, <2>4 DEF DimensionsOf, DimensionParameter
  <2> QED BY <2>1, <2>3, <2>5
<1> QED BY <1>2, <1>5, <1>6, <1>7 DEF IsQuery, r

\* One turn keeps the invariant.
LEMMA OneTurn ==
    ASSUME NEW names, NEW dims \in Seq(DimensionType), NEW n \in 0..(Len(dims) - 1),
           NEW acc, AfterTurn(acc, names, dims, n)
    PROVE  AfterTurn(AddDimension(acc, dims[n + 1]), names, dims, n + 1)
<1> DEFINE d == dims[n + 1]
           next == AddDimension(acc, d)
<1>1. d \in DimensionType /\ n \in Nat /\ 1..(n + 1) = (1..n) \cup {n + 1} /\ n + 1 \notin 1..n
  OBVIOUS
<1>2. AreGood(dims, n + 1) <=>
        /\ AreGood(dims, n)
        /\ DimensionIsValid(d)
        /\ d.value # "" => d.id \notin SlotsOf(dims, n)
  <2>1. d.id \in SlotsOf(dims, n) <=> \E i \in 1..n : dims[i].id = d.id /\ dims[i].value # ""
    BY DEF SlotsOf
  <2> QED BY <1>1, <2>1 DEF AreGood
<1>3. PairsOf(dims, n + 1) =
        PairsOf(dims, n) \cup (IF d.value = "" THEN {} ELSE {<<d.id, d.value>>})
  BY <1>1 DEF PairsOf
<1>8. SlotsOf(dims, n + 1) = SlotsOf(dims, n) \cup (IF d.value = "" THEN {} ELSE {d.id})
  BY <1>1 DEF SlotsOf
<1>9. \A v : <<d.id, v>> \in PairsOf(dims, n) => d.id \in SlotsOf(dims, n)
  BY DEF PairsOf, SlotsOf
<1> SUFFICES AfterTurn(next, names, dims, n + 1)
  OBVIOUS
<1> HIDE DEF d, next
<1>4. CASE ~acc.ok \/ ~DimensionIsValid(d)
  <2>1. next = [ok |-> FALSE, used |-> acc.used, items |-> acc.items]
    BY <1>4 DEF AddDimension, AfterTurn, next
  <2> QED BY <2>1, <1>2, <1>4 DEF AfterTurn
<1>5. CASE acc.ok /\ DimensionIsValid(d) /\ d.value = ""
  <2>1. next = acc
    BY <1>5 DEF AddDimension, next
  <2> QED BY <2>1, <1>2, <1>3, <1>5, <1>8 DEF AfterTurn
<1>6. CASE acc.ok /\ DimensionIsValid(d) /\ d.value # "" /\ d.id \in acc.used
  <2>1. next = [ok |-> FALSE, used |-> acc.used, items |-> acc.items]
    BY <1>6 DEF AddDimension, AfterTurn, next
  <2> QED BY <2>1, <1>2, <1>6 DEF AfterTurn
<1>7. CASE acc.ok /\ DimensionIsValid(d) /\ d.value # "" /\ d.id \notin acc.used
  <2>1. next = [ok |-> TRUE, used |-> acc.used \cup {d.id},
                items |-> Append(acc.items, DimensionParameter(d))]
    BY <1>7 DEF AddDimension, next
  <2>2. /\ acc.used = SlotsOf(dims, n)
        /\ IsQuery(acc.items, names \cup {"dimension"}, PairsOf(dims, n))
    BY <1>7 DEF AfterTurn
  <2>3. \A v : <<d.id, v>> \notin PairsOf(dims, n)
    BY <1>7, <1>9, <2>2
  <2>4. IsQuery(Append(acc.items, DimensionParameter(d)), names \cup {"dimension"},
                PairsOf(dims, n) \cup {<<d.id, d.value>>})
    BY <1>1, <2>2, <2>3, DimensionAppended
  <2>5. AreGood(dims, n + 1)
    BY <1>2, <1>7, <2>2 DEF AfterTurn
  <2>6. /\ PairsOf(dims, n + 1) = PairsOf(dims, n) \cup {<<d.id, d.value>>}
        /\ SlotsOf(dims, n + 1) = SlotsOf(dims, n) \cup {d.id}
    BY <1>3, <1>7, <1>8
  <2> QED BY <2>1, <2>2, <2>4, <2>5, <2>6 DEF AfterTurn
<1> QED BY <1>4, <1>5, <1>6, <1>7 DEF AfterTurn

\* The loop accepts good dimensions, and adds exactly those with a value.
LEMMA AllTurns ==
    ASSUME NEW items, NEW names, IsQuery(items, names, {}), "dimension" \notin names,
           NEW dims \in Seq(DimensionType)
    PROVE  AfterTurn(AddCustomDimensions(items, dims), names, dims, Len(dims))
<1> DEFINE Good == {n \in Nat : n <= Len(dims) => AfterTurn(Turns(items, dims)[n], names, dims, n)}
<1>1. Len(dims) \in Nat
  OBVIOUS
<1>2. 0 \in Good
  <2>1. AreGood(dims, 0) /\ PairsOf(dims, 0) = {} /\ SlotsOf(dims, 0) = {}
    BY DEF AreGood, PairsOf, SlotsOf
  <2>2. IsQuery(items, names \cup {"dimension"}, {})
    BY QueryWiden
  <2>3. Turns(items, dims)[0] = [ok |-> TRUE, used |-> {}, items |-> items]
    BY <1>1, TurnsDef DEF Begun
  <2>4. AfterTurn([ok |-> TRUE, used |-> {}, items |-> items], names, dims, 0)
    BY <2>1, <2>2 DEF AfterTurn
  <2> QED BY <2>3, <2>4
<1>3. ASSUME NEW n \in Nat, n \in Good PROVE n + 1 \in Good
  <2> SUFFICES ASSUME n + 1 <= Len(dims)
               PROVE  AfterTurn(Turns(items, dims)[n + 1], names, dims, n + 1)
    OBVIOUS
  <2>1. Turns(items, dims)[n + 1] = AddDimension(Turns(items, dims)[n], dims[n + 1])
    BY <1>1, TurnsDef
  <2>2. AfterTurn(Turns(items, dims)[n], names, dims, n)
    BY <1>1, <1>3
  <2> QED BY <1>1, <2>1, <2>2, OneTurn
<1> HIDE DEF Good
<1>4. Len(dims) \in Good
  BY <1>1, <1>2, <1>3, Induction
<1> QED BY <1>1, <1>4 DEF Good, AddCustomDimensions

----------------------------------------------------------------------------
(* What mergeDimensions() does.                                            *)

LEMMA Greatest ==
    ASSUME NEW S \in SUBSET Int, IsFiniteSet(S), S # {}
    PROVE  \E x \in S : \A y \in S : y <= x
<1> DEFINE HasGreatest(T) == \E x \in T : \A y \in T : y <= x
           Done == {n \in Nat : \A T \in SUBSET Int :
                      IsFiniteSet(T) /\ Cardinality(T) = n + 1 => HasGreatest(T)}
<1>1. 0 \in Done
  <2> SUFFICES ASSUME NEW T \in SUBSET Int, IsFiniteSet(T), Cardinality(T) = 0 + 1
               PROVE  HasGreatest(T)
    OBVIOUS
  <2>1. PICK x : T = {x}
    <3>1. Cardinality(T) = 1
      OBVIOUS
    <3> QED BY <3>1, FS_Singleton, Zenon
  <2>2. x \in T /\ x \in Int /\ \A y \in T : y = x
    BY <2>1
  <2> QED BY <2>2
<1>2. ASSUME NEW n \in Nat, n \in Done PROVE n + 1 \in Done
  <2> SUFFICES ASSUME NEW T \in SUBSET Int, IsFiniteSet(T), Cardinality(T) = n + 1 + 1
               PROVE  HasGreatest(T)
    OBVIOUS
  <2>1. PICK z : z \in T
    BY FS_EmptySet
  <2>2. IsFiniteSet(T \ {z}) /\ Cardinality(T \ {z}) = n + 1 /\ T \ {z} \in SUBSET Int
    BY <2>1, FS_RemoveElement
  <2>3. PICK x \in T \ {z} : \A y \in T \ {z} : y <= x
    BY <1>2, <2>2
  <2>4. CASE z <= x
    BY <2>1, <2>3, <2>4
  <2>5. CASE x < z
    BY <2>1, <2>3, <2>5
  <2> QED BY <2>1, <2>3, <2>4, <2>5
<1>3. PICK n \in Nat : Cardinality(S) = n + 1
  <2>1. Cardinality(S) \in Nat /\ Cardinality(S) # 0
    BY FS_CardinalityType, FS_EmptySet
  <2> QED BY <2>1
<1>4. n \in Done
  <2> HIDE DEF Done
  <2> QED BY <1>1, <1>2, Induction
<1> QED BY <1>3, <1>4

LEMMA OrderExists ==
    ASSUME NEW S \in SUBSET Int, IsFiniteSet(S)
    PROVE  \E s \in [1..Cardinality(S) -> S] :
             \A i, j \in 1..Cardinality(S) : i < j => s[i] < s[j]
<1> DEFINE Ascending(s, n) == \A i, j \in 1..n : i < j => s[i] < s[j]
           Done == {n \in Nat : \A T \in SUBSET Int :
                      IsFiniteSet(T) /\ Cardinality(T) = n => \E s \in [1..n -> T] : Ascending(s, n)}
<1>1. 0 \in Done
  <2> SUFFICES ASSUME NEW T \in SUBSET Int PROVE \E s \in [1..0 -> T] : Ascending(s, 0)
    OBVIOUS
  <2>1. [i \in 1..0 |-> 0] \in [1..0 -> T] /\ Ascending([i \in 1..0 |-> 0], 0)
    OBVIOUS
  <2> QED BY <2>1
<1>2. ASSUME NEW n \in Nat, n \in Done PROVE n + 1 \in Done
  <2> SUFFICES ASSUME NEW T \in SUBSET Int, IsFiniteSet(T), Cardinality(T) = n + 1
               PROVE  \E s \in [1..(n + 1) -> T] : Ascending(s, n + 1)
    OBVIOUS
  <2>1. PICK x \in T : \A y \in T : y <= x
    BY Greatest, FS_EmptySet
  <2>2. IsFiniteSet(T \ {x}) /\ Cardinality(T \ {x}) = n /\ T \ {x} \in SUBSET Int
    BY FS_RemoveElement
  <2>3. PICK s \in [1..n -> T \ {x}] : Ascending(s, n)
    BY <1>2, <2>2
  <2> DEFINE t == [i \in 1..(n + 1) |-> IF i = n + 1 THEN x ELSE s[i]]
  <2>4. t \in [1..(n + 1) -> T]
    BY <2>3
  <2>5. Ascending(t, n + 1)
    <3> SUFFICES ASSUME NEW i \in 1..(n + 1), NEW j \in 1..(n + 1), i < j
                 PROVE  t[i] < t[j]
      OBVIOUS
    <3>1. i \in 1..n /\ t[i] = s[i] /\ s[i] \in T \ {x}
      BY <2>3
    <3>2. CASE j = n + 1
      <4>1. t[j] = x /\ s[i] # x /\ s[i] <= x /\ s[i] \in Int /\ x \in Int
        BY <2>1, <3>1, <3>2
      <4> HIDE DEF t
      <4> QED BY <3>1, <4>1
    <3>3. CASE j \in 1..n
      BY <2>3, <3>1, <3>3
    <3> QED BY <3>2, <3>3
  <2> HIDE DEF t
  <2> QED BY <2>4, <2>5
<1>3. Cardinality(S) \in Nat
  BY FS_CardinalityType
<1>4. Cardinality(S) \in Done
  <2> HIDE DEF Done
  <2> QED BY <1>1, <1>2, <1>3, Induction
<1> QED BY <1>4

\* Every key comes once.
LEMMA InOrderDef ==
    ASSUME NEW S \in SUBSET Int, IsFiniteSet(S)
    PROVE  /\ Cardinality(S) \in Nat
           /\ InOrder(S) \in [1..Cardinality(S) -> S]
           /\ \A i, j \in 1..Cardinality(S) : InOrder(S)[i] = InOrder(S)[j] => i = j
           /\ \A k \in S : \E i \in 1..Cardinality(S) : InOrder(S)[i] = k
<1> DEFINE n == Cardinality(S)
           s == InOrder(S)
<1>1. n \in Nat
  BY FS_CardinalityType
<1> DEFINE IsOrder(t) == \A i, j \in DOMAIN t : i < j => t[i] < t[j]
<1>2. \E t \in [1..n -> S] : IsOrder(t)
  BY OrderExists
<1>3. s = CHOOSE t \in [1..n -> S] : IsOrder(t)
  BY Zenon DEF InOrder
<1> HIDE DEF n, s, IsOrder
<1>4. s \in [1..n -> S] /\ IsOrder(s)
  BY <1>2, <1>3, Zenon
<1>5. \A i, j \in 1..n : i < j => s[i] < s[j]
  BY <1>4 DEF IsOrder
<1>6. ASSUME NEW i \in 1..n, NEW j \in 1..n, s[i] = s[j] PROVE i = j
  <2>1. s[i] \in Int /\ s[j] \in Int
    BY <1>4
  <2>2. ~(s[i] < s[j]) /\ ~(s[j] < s[i])
    BY <1>6, <2>1
  <2>3. ~(i < j) /\ ~(j < i)
    BY <1>5, <2>2
  <2> QED BY <1>1, <2>3
<1>7. s \in Injection(1..n, S)
  BY <1>4, <1>6 DEF Injection, IsInjective
<1>8. Cardinality(1..n) = n
  BY <1>1, FS_Interval
<1>9. s \in Surjection(1..n, S)
  BY <1>7, <1>8, FS_Injection DEF n
<1>10. \A k \in S : \E i \in 1..n : s[i] = k
  BY <1>9 DEF Surjection
<1> QED BY <1>1, <1>4, <1>6, <1>10 DEF n, s

\* The tracker's own dimensions, each once.
LEMMA ConfigDimensionsDef ==
    ASSUME NEW c \in TrackerConfigs, NEW ids \in SUBSET DOMAIN c.customDimensions
    PROVE  LET own == ConfigDimensions(c, ids)
           IN  /\ own \in Seq(DimensionType)
               /\ \A i \in DOMAIN own : own[i].id \in ids /\ own[i].value = c.customDimensions[own[i].id]
               /\ \A i, j \in DOMAIN own : own[i].id = own[j].id => i = j
               /\ \A k \in ids : \E i \in DOMAIN own : own[i].id = k
<1> DEFINE n == Cardinality(ids)
           s == InOrder(ids)
           own == ConfigDimensions(c, ids)
<1>1. ids \in SUBSET Int /\ IsFiniteSet(ids) /\ \A k \in ids : c.customDimensions[k] \in Texts
  BY CallAssumption, FS_Subset
<1>2. /\ n \in Nat
      /\ s \in [1..n -> ids]
      /\ \A i, j \in 1..n : s[i] = s[j] => i = j
      /\ \A k \in ids : \E i \in 1..n : s[i] = k
  BY <1>1, InOrderDef
<1>3. own = [i \in 1..n |-> [id |-> s[i], value |-> c.customDimensions[s[i]]]]
  BY DEF ConfigDimensions
<1> HIDE DEF n, s, own
<1>4. \A i \in 1..n : [id |-> s[i], value |-> c.customDimensions[s[i]]] \in DimensionType
  BY <1>1, <1>2 DEF DimensionType
<1>5. own \in Seq(DimensionType)
  BY <1>2, <1>3, <1>4
<1>6. /\ DOMAIN own = 1..n
      /\ \A i \in 1..n : own[i].id = s[i] /\ own[i].value = c.customDimensions[s[i]]
  BY <1>3
<1> QED BY <1>2, <1>5, <1>6 DEF own

\* The slots the call leaves to the tracker.
Left(c, dims) == DOMAIN c.customDimensions \ UsedIds(dims)

LEMMA MergeDef ==
    ASSUME NEW c \in TrackerConfigs, NEW dims \in Seq(DimensionType)
    PROVE  LET merged == MergeDimensions(c, dims)
               n == Len(merged)
           IN  /\ merged \in Seq(DimensionType)
               /\ DimensionsAreValid(merged) <=>
                    DimensionsAreValid(dims) /\ Left(c, dims) \subseteq MinId..MaxId
               /\ AreGood(merged, n) <=>
                    AreGood(dims, Len(dims)) /\ Left(c, dims) \subseteq MinId..MaxId
               /\ PairsOf(merged, n) = PairsOf(dims, Len(dims)) \cup
                    {<<k, c.customDimensions[k]>> :
                        k \in {l \in Left(c, dims) : c.customDimensions[l] # ""}}
<1> DEFINE own == ConfigDimensions(c, Left(c, dims))
           merged == MergeDimensions(c, dims)
           m == Len(dims)
           n == Len(merged)
<1>1. /\ own \in Seq(DimensionType)
      /\ \A i \in DOMAIN own :
           own[i].id \in Left(c, dims) /\ own[i].value = c.customDimensions[own[i].id]
      /\ \A i, j \in DOMAIN own : own[i].id = own[j].id => i = j
      /\ \A k \in Left(c, dims) : \E i \in DOMAIN own : own[i].id = k
  <2>1. Left(c, dims) \in SUBSET DOMAIN c.customDimensions
    BY DEF Left
  <2> QED BY <2>1, ConfigDimensionsDef
<1>2. merged = dims \o own
  BY DEF MergeDimensions, Left
<1> HIDE DEF own, merged
<1>3. /\ merged \in Seq(DimensionType)
      /\ n = m + Len(own) /\ m \in Nat /\ n \in Nat /\ Len(own) \in Nat
      /\ DOMAIN dims = 1..m /\ DOMAIN own = 1..Len(own) /\ DOMAIN merged = 1..n
      /\ \A i \in 1..m : i \in 1..n /\ merged[i] = dims[i]
      /\ \A i \in 1..Len(own) : i + m \in 1..n /\ merged[i + m] = own[i]
  BY <1>1, <1>2
<1>4. ASSUME NEW i \in 1..n
      PROVE  \/ i \in 1..m /\ merged[i] = dims[i]
             \/ i - m \in 1..Len(own) /\ i \notin 1..m /\ merged[i] = own[i - m]
  <2>1. i \in 1..m \/ (i - m \in 1..Len(own) /\ i \notin 1..m /\ (i - m) + m = i)
    BY <1>3
  <2> QED BY <1>3, <2>1
<1> HIDE DEF m, n
<1>5. \A i \in 1..m : dims[i].id \notin Left(c, dims)
  BY <1>3 DEF Left, UsedIds
<1>6. (\A i \in 1..n : DimensionIsValid(merged[i])) <=>
        (\A i \in 1..m : DimensionIsValid(dims[i])) /\ Left(c, dims) \subseteq MinId..MaxId
  <2>1. ASSUME \A i \in 1..n : DimensionIsValid(merged[i])
        PROVE  (\A i \in 1..m : DimensionIsValid(dims[i])) /\ Left(c, dims) \subseteq MinId..MaxId
    <3>1. ASSUME NEW k \in Left(c, dims) PROVE k \in MinId..MaxId
      <4>1. PICK i \in 1..Len(own) : own[i].id = k
        BY <1>1, <1>3
      <4>2. i + m \in 1..n /\ merged[i + m].id = k
        BY <1>3, <4>1
      <4> QED BY <2>1, <4>2 DEF DimensionIsValid
    <3>2. \A i \in 1..m : DimensionIsValid(dims[i])
      BY <1>3, <2>1
    <3> QED BY <3>1, <3>2
  <2>2. ASSUME \A i \in 1..m : DimensionIsValid(dims[i]), Left(c, dims) \subseteq MinId..MaxId,
               NEW i \in 1..n
        PROVE  DimensionIsValid(merged[i])
    BY <1>1, <1>3, <1>4, <2>2 DEF DimensionIsValid
  <2> QED BY <2>1, <2>2
<1>7. (\A i, j \in 1..n :
         merged[i].id = merged[j].id /\ merged[i].value # "" /\ merged[j].value # "" => i = j) <=>
      (\A i, j \in 1..m :
         dims[i].id = dims[j].id /\ dims[i].value # "" /\ dims[j].value # "" => i = j)
  <2>1. ASSUME \A i, j \in 1..m :
                 dims[i].id = dims[j].id /\ dims[i].value # "" /\ dims[j].value # "" => i = j,
               NEW i \in 1..n, NEW j \in 1..n,
               merged[i].id = merged[j].id, merged[i].value # "", merged[j].value # ""
        PROVE  i = j
    <3>1. CASE i \in 1..m /\ j \in 1..m
      BY <1>4, <2>1, <3>1
    <3>2. CASE i \notin 1..m /\ j \notin 1..m
      <4>1. /\ i - m \in DOMAIN own /\ merged[i] = own[i - m]
            /\ j - m \in DOMAIN own /\ merged[j] = own[j - m]
        BY <1>3, <1>4, <3>2
      <4>2. i - m = j - m
        BY <1>1, <2>1, <4>1
      <4> QED BY <1>3, <4>2
    <3>3. \A k \in 1..n : k \in 1..m <=> merged[k].id \notin Left(c, dims)
      BY <1>1, <1>3, <1>4, <1>5
    <3>4. i \in 1..m <=> j \in 1..m
      BY <2>1, <3>3
    <3> QED BY <3>1, <3>2, <3>4
  <2> QED BY <1>3, <2>1
<1>8. PairsOf(merged, n) = PairsOf(dims, m) \cup
        {<<k, c.customDimensions[k]>> : k \in {l \in Left(c, dims) : c.customDimensions[l] # ""}}
  <2> DEFINE pairs == {<<k, c.customDimensions[k]>> :
                         k \in {l \in Left(c, dims) : c.customDimensions[l] # ""}}
  <2>1. ASSUME NEW i \in 1..n, merged[i].value # ""
        PROVE  <<merged[i].id, merged[i].value>> \in PairsOf(dims, m) \cup pairs
    <3>1. CASE i \in 1..m /\ merged[i] = dims[i]
      BY <2>1, <3>1 DEF PairsOf
    <3>2. CASE i - m \in 1..Len(own) /\ merged[i] = own[i - m]
      <4>1. /\ own[i - m].id \in Left(c, dims)
            /\ own[i - m].value = c.customDimensions[own[i - m].id]
        BY <1>1, <1>3, <3>2
      <4>2. <<own[i - m].id, c.customDimensions[own[i - m].id]>> \in pairs
        BY <2>1, <3>2, <4>1
      <4> QED BY <3>2, <4>1, <4>2
    <3> QED BY <1>4, <3>1, <3>2
  <2>2. PairsOf(merged, n) \subseteq PairsOf(dims, m) \cup pairs
    BY <2>1 DEF PairsOf
  <2>3. PairsOf(dims, m) \subseteq PairsOf(merged, n)
    BY <1>3 DEF PairsOf
  <2>4. ASSUME NEW k \in Left(c, dims), c.customDimensions[k] # ""
        PROVE  <<k, c.customDimensions[k]>> \in PairsOf(merged, n)
    <3>1. PICK i \in 1..Len(own) : own[i].id = k
      BY <1>1, <1>3
    <3>2. i + m \in 1..n /\ merged[i + m].id = k /\ merged[i + m].value = c.customDimensions[k]
      BY <1>1, <1>3, <3>1
    <3> QED BY <2>4, <3>2 DEF PairsOf
  <2>5. pairs \subseteq PairsOf(merged, n)
    BY <2>4
  <2> QED BY <2>2, <2>3, <2>5
<1>9. DimensionsAreValid(merged) <=>
        DimensionsAreValid(dims) /\ Left(c, dims) \subseteq MinId..MaxId
  BY <1>3, <1>6 DEF DimensionsAreValid
<1>10. AreGood(merged, n) <=> AreGood(dims, m) /\ Left(c, dims) \subseteq MinId..MaxId
  BY <1>6, <1>7 DEF AreGood
<1> QED BY <1>3, <1>8, <1>9, <1>10 DEF m, n, merged

----------------------------------------------------------------------------
(* What the builder makes of a payload.                                    *)

\* A result is a query of its kind when it is accepted, and nothing otherwise.
Outcome(built, accepted, names, pairs) ==
    /\ built.status = "RequestAccepted" <=> accepted
    /\ accepted => IsQuery(built.query, names, pairs)
    /\ ~accepted => built.query = <<>>

BaseNames == {"idsite", "rec", "apiv", "url", "_id", "ua", "lang", "res"}
PayloadNames == {"action_name", "ca", "e_c", "e_a", "e_n", "e_v", "ping", "dimension"}
BuilderNames == BaseNames \cup PayloadNames

LEMMA BaseQuery ==
    ASSUME NEW c \in TrackerConfigs, NEW url \in Values, NEW o \in Options
    PROVE  IsQuery(<<Parameter("idsite", ToString(c.siteId)), Parameter("rec", "1"),
                     Parameter("apiv", "1"), Parameter("url", url)>>
                   \o (IF o.clientId = "" THEN <<>> ELSE <<Parameter("_id", o.clientId)>>)
                   \o Optional("ua", o.userAgent)
                   \o Optional("lang", o.language)
                   \o Optional("res", o.screenResolution), BaseNames, {})
<1> DEFINE first == <<Parameter("idsite", ToString(c.siteId)), Parameter("rec", "1"),
                      Parameter("apiv", "1"), Parameter("url", url)>>
           id == IF o.clientId = "" THEN <<>> ELSE <<Parameter("_id", o.clientId)>>
           ua == Optional("ua", o.userAgent)
           lang == Optional("lang", o.language)
           res == Optional("res", o.screenResolution)
<1>1. /\ o.clientId \in Texts /\ o.userAgent \in Texts /\ o.language \in Texts
      /\ o.screenResolution \in Texts
  BY CallAssumption
<1>2. IsQuery(first, {"idsite", "rec", "apiv", "url"}, {})
  <2>1. ToString(c.siteId) \in Values /\ "1" \in Values
    BY DEF Values
  <2>2. \A n \in Names, v \in Values : Parameter(n, v) \in ParameterType
    BY DEF Parameter, ParameterType
  <2>3. {"idsite", "rec", "apiv", "url"} \subseteq Names
    BY DEF Names
  <2>4. first \in Seq(ParameterType) /\ Len(first) = 4
    BY <2>1, <2>2, <2>3
  <2>5. /\ first[1].name = "idsite" /\ first[2].name = "rec"
        /\ first[3].name = "apiv" /\ first[4].name = "url"
    BY DEF Parameter
  <2> HIDE DEF first
  <2>6. DOMAIN first = {1, 2, 3, 4}
    BY <2>4
  <2> QED BY <2>4, <2>5, <2>6 DEF IsQuery, DimensionsOf
<1>3. IsQuery(id, {"_id"}, {})
  <2>1. o.clientId \in Values /\ "_id" \in Names \ {"dimension"}
    BY <1>1 DEF Values, Names
  <2>2. IsQuery(<<>>, {"_id"}, {})
    BY QueryEmpty, QueryWiden
  <2> QED BY <2>1, <2>2, QueryOne
<1>4. IsQuery(ua, {"ua"}, {}) /\ IsQuery(lang, {"lang"}, {}) /\ IsQuery(res, {"res"}, {})
  <2>1. {"ua", "lang", "res"} \subseteq Names \ {"dimension"}
    BY DEF Names
  <2> QED BY <1>1, <2>1, QueryOptional
<1> HIDE DEF first, id, ua, lang, res
<1>5. IsQuery(first \o id, {"idsite", "rec", "apiv", "url", "_id"}, {})
  <2>1. IsQuery(first \o id, {"idsite", "rec", "apiv", "url"} \cup {"_id"}, {} \cup {})
    BY <1>2, <1>3, QueryConcat
  <2> QED BY <2>1, QueryWiden
<1>6. IsQuery(first \o id \o ua, {"idsite", "rec", "apiv", "url", "_id", "ua"}, {})
  <2>1. IsQuery(first \o id \o ua, {"idsite", "rec", "apiv", "url", "_id"} \cup {"ua"}, {} \cup {})
    BY <1>4, <1>5, QueryConcat
  <2> QED BY <2>1, QueryWiden
<1>7. IsQuery(first \o id \o ua \o lang, {"idsite", "rec", "apiv", "url", "_id", "ua", "lang"}, {})
  <2>1. IsQuery(first \o id \o ua \o lang,
                {"idsite", "rec", "apiv", "url", "_id", "ua"} \cup {"lang"}, {} \cup {})
    BY <1>4, <1>6, QueryConcat
  <2> QED BY <2>1, QueryWiden
<1>8. IsQuery(first \o id \o ua \o lang \o res, BaseNames, {})
  <2>1. IsQuery(first \o id \o ua \o lang \o res,
                {"idsite", "rec", "apiv", "url", "_id", "ua", "lang"} \cup {"res"}, {} \cup {})
    BY <1>4, <1>7, QueryConcat
  <2> QED BY <2>1, QueryWiden DEF BaseNames
<1> QED BY <1>8 DEF first, id, ua, lang, res

LEMMA RequestBuilt ==
    ASSUME NEW c \in TrackerConfigs, NEW url \in Values, NEW o \in Options,
           NEW payload, payload.ok \in BOOLEAN, NEW pairs,
           payload.ok => IsQuery(payload.items, PayloadNames, pairs)
    PROVE  Outcome(BuildRequest(c, url, o, payload),
                   ConfigIsValid(c) /\ HasValidClientId(o.clientId) /\ payload.ok,
                   BuilderNames, pairs)
<1>1. CASE ~(ConfigIsValid(c) /\ HasValidClientId(o.clientId) /\ payload.ok)
  <2>1. \/ BuildRequest(c, url, o, payload) = Rejected("RequestInvalidConfig")
        \/ BuildRequest(c, url, o, payload) = Rejected("RequestInvalidPayload")
    BY <1>1 DEF BuildRequest
  <2> QED BY <1>1, <2>1 DEF Outcome, Rejected
<1>2. CASE ConfigIsValid(c) /\ HasValidClientId(o.clientId) /\ payload.ok
  <2> DEFINE base == <<Parameter("idsite", ToString(c.siteId)), Parameter("rec", "1"),
                       Parameter("apiv", "1"), Parameter("url", url)>>
                     \o (IF o.clientId = "" THEN <<>> ELSE <<Parameter("_id", o.clientId)>>)
                     \o Optional("ua", o.userAgent)
                     \o Optional("lang", o.language)
                     \o Optional("res", o.screenResolution)
  <2>1. BuildRequest(c, url, o, payload) = Accepted(base \o payload.items)
    BY <1>2 DEF BuildRequest
  <2>2. IsQuery(base, BaseNames, {})
    BY BaseQuery
  <2> HIDE DEF base
  <2>3. BaseNames \cap PayloadNames = {}
    BY DEF BaseNames, PayloadNames
  <2>4. IsQuery(base \o payload.items, BaseNames \cup PayloadNames, {} \cup pairs)
    BY <1>2, <2>2, <2>3, QueryConcat
  <2> QED BY <1>2, <2>1, <2>4 DEF Outcome, Accepted, BuilderNames
<1> QED BY <1>1, <1>2

\* The dimensions of a payload close it.
LEMMA PayloadBuilt ==
    ASSUME NEW items, IsQuery(items, PayloadNames \ {"dimension"}, {}),
           NEW dims \in Seq(DimensionType)
    PROVE  LET payload == AddCustomDimensions(items, dims)
           IN  /\ payload.ok \in BOOLEAN
               /\ payload.ok <=> AreGood(dims, Len(dims))
               /\ payload.ok => IsQuery(payload.items, PayloadNames, PairsOf(dims, Len(dims)))
<1>1. AfterTurn(AddCustomDimensions(items, dims), PayloadNames \ {"dimension"}, dims, Len(dims))
  BY AllTurns
<1>2. (PayloadNames \ {"dimension"}) \cup {"dimension"} = PayloadNames
  BY DEF PayloadNames
<1> QED BY <1>1, <1>2 DEF AfterTurn

PageViewType == [path : Texts, actionName : Texts, customDimensions : Seq(DimensionType)]
EventType ==
    [category : Texts, action : Texts, name : Texts, value : EventValues,
     customDimensions : Seq(DimensionType)]

LEMMA PageViewBuilt ==
    ASSUME NEW c \in TrackerConfigs, NEW p \in PageViewType, NEW o \in Options
    PROVE  Outcome(BuildPageView(c, p, o),
                   /\ PageViewIsValid(p) /\ IsRelativeApplicationPath(p.path)
                   /\ ConfigIsValid(c) /\ HasValidClientId(o.clientId)
                   /\ AreGood(p.customDimensions, Len(p.customDimensions)),
                   BuilderNames, PairsOf(p.customDimensions, Len(p.customDimensions)))
<1> DEFINE dims == p.customDimensions
           items == Optional("action_name", p.actionName)
           payload == AddCustomDimensions(items, dims)
           url == Trimmed[p.path]
<1>1. CASE ~(PageViewIsValid(p) /\ IsRelativeApplicationPath(p.path))
  <2>1. BuildPageView(c, p, o) = Rejected("RequestInvalidPayload")
    BY <1>1 DEF BuildPageView
  <2> QED BY <1>1, <2>1 DEF Outcome, Rejected
<1>2. CASE PageViewIsValid(p) /\ IsRelativeApplicationPath(p.path)
  <2>1. p.path \in Texts /\ p.actionName \in Texts /\ dims \in Seq(DimensionType)
    BY DEF PageViewType
  <2>2. url \in Values
    BY <2>1, TextAssumption DEF Values
  <2>3. IsQuery(items, PayloadNames \ {"dimension"}, {})
    <3>1. "action_name" \in Names \ {"dimension"}
      BY DEF Names
    <3>2. IsQuery(items, {"action_name"}, {})
      BY <2>1, <3>1, QueryOptional
    <3> QED BY <3>2, QueryWiden DEF PayloadNames
  <2>4. BuildPageView(c, p, o) = BuildRequest(c, url, o, payload)
    BY <1>2 DEF BuildPageView
  <2> HIDE DEF items, dims, url
  <2>5. /\ payload.ok \in BOOLEAN
        /\ payload.ok <=> AreGood(dims, Len(dims))
        /\ payload.ok => IsQuery(payload.items, PayloadNames, PairsOf(dims, Len(dims)))
    BY <2>1, <2>3, PayloadBuilt
  <2> HIDE DEF payload
  <2>6. Outcome(BuildRequest(c, url, o, payload),
                ConfigIsValid(c) /\ HasValidClientId(o.clientId) /\ payload.ok,
                BuilderNames, PairsOf(dims, Len(dims)))
    BY <2>2, <2>5, RequestBuilt
  <2> QED BY <1>2, <2>4, <2>5, <2>6 DEF Outcome, dims
<1> QED BY <1>1, <1>2

LEMMA EventBuilt ==
    ASSUME NEW c \in TrackerConfigs, NEW e \in EventType, NEW o \in Options
    PROVE  Outcome(BuildEvent(c, e, o),
                   /\ EventIsValid(e)
                   /\ ConfigIsValid(c) /\ HasValidClientId(o.clientId)
                   /\ AreGood(e.customDimensions, Len(e.customDimensions)),
                   BuilderNames, PairsOf(e.customDimensions, Len(e.customDimensions)))
<1> DEFINE dims == e.customDimensions
           first == <<Parameter("ca", "1"), Parameter("e_c", Trimmed[e.category]),
                      Parameter("e_a", Trimmed[e.action])>>
           name == Optional("e_n", e.name)
           value == IF e.value = "none" THEN <<>> ELSE <<Parameter("e_v", e.value)>>
           items == first \o name \o value
           payload == AddCustomDimensions(items, dims)
<1>1. CASE ~EventIsValid(e)
  <2>1. BuildEvent(c, e, o) = Rejected("RequestInvalidPayload")
    BY <1>1 DEF BuildEvent
  <2> QED BY <1>1, <2>1 DEF Outcome, Rejected
<1>2. CASE EventIsValid(e)
  <2>1. /\ e.category \in Texts /\ e.action \in Texts /\ e.name \in Texts
        /\ e.value \in EventValues /\ dims \in Seq(DimensionType)
    BY DEF EventType
  <2>2. Trimmed[e.category] \in Values /\ Trimmed[e.action] \in Values /\ "1" \in Values
        /\ "base" \in Values /\ e.value \in Values
    BY <2>1, TextAssumption DEF Values
  <2>3. IsQuery(first, {"ca", "e_c", "e_a"}, {})
    <3>1. \A n \in Names, v \in Values : Parameter(n, v) \in ParameterType
      BY DEF Parameter, ParameterType
    <3>2. {"ca", "e_c", "e_a"} \subseteq Names
      BY DEF Names
    <3>3. first \in Seq(ParameterType) /\ Len(first) = 3
      BY <2>2, <3>1, <3>2
    <3>4. first[1].name = "ca" /\ first[2].name = "e_c" /\ first[3].name = "e_a"
      BY DEF Parameter
    <3> HIDE DEF first
    <3>5. DOMAIN first = {1, 2, 3}
      BY <3>3
    <3> QED BY <3>3, <3>4, <3>5 DEF IsQuery, DimensionsOf
  <2>4. IsQuery(name, {"e_n"}, {})
    <3>1. "e_n" \in Names \ {"dimension"}
      BY DEF Names
    <3> QED BY <2>1, <3>1, QueryOptional
  <2>5. IsQuery(value, {"e_v"}, {})
    <3>1. "e_v" \in Names \ {"dimension"}
      BY DEF Names
    <3>2. IsQuery(<<>>, {"e_v"}, {})
      BY QueryEmpty, QueryWiden
    <3> QED BY <2>2, <3>1, <3>2, QueryOne
  <2>6. BuildEvent(c, e, o) = BuildRequest(c, "base", o, payload)
    BY <1>2 DEF BuildEvent
  <2> HIDE DEF first, name, value
  <2>7. IsQuery(items, PayloadNames \ {"dimension"}, {})
    <3>1. IsQuery(first \o name, {"ca", "e_c", "e_a"} \cup {"e_n"}, {} \cup {})
      BY <2>3, <2>4, QueryConcat
    <3>2. IsQuery(first \o name, {"ca", "e_c", "e_a", "e_n"}, {})
      BY <3>1, QueryWiden
    <3>3. IsQuery(first \o name \o value, {"ca", "e_c", "e_a", "e_n"} \cup {"e_v"}, {} \cup {})
      BY <2>5, <3>2, QueryConcat
    <3> QED BY <3>3, QueryWiden DEF PayloadNames
  <2> HIDE DEF items, dims
  <2>8. /\ payload.ok \in BOOLEAN
        /\ payload.ok <=> AreGood(dims, Len(dims))
        /\ payload.ok => IsQuery(payload.items, PayloadNames, PairsOf(dims, Len(dims)))
    BY <2>1, <2>7, PayloadBuilt
  <2> HIDE DEF payload
  <2>9. Outcome(BuildRequest(c, "base", o, payload),
                ConfigIsValid(c) /\ HasValidClientId(o.clientId) /\ payload.ok,
                BuilderNames, PairsOf(dims, Len(dims)))
    BY <2>2, <2>8, RequestBuilt
  <2> QED BY <1>2, <2>6, <2>8, <2>9 DEF Outcome, dims
<1> QED BY <1>1, <1>2

LEMMA PingBuilt ==
    ASSUME NEW c \in TrackerConfigs, NEW path \in Texts, NEW o \in Options
    PROVE  Outcome(BuildPing(c, path, o),
                   /\ ~Blank(path) /\ IsRelativeApplicationPath(path)
                   /\ ConfigIsValid(c) /\ HasValidClientId(o.clientId),
                   BuilderNames, {})
<1> DEFINE payload == [ok |-> TRUE, used |-> {}, items |-> <<Parameter("ping", "1")>>]
           url == Trimmed[path]
           none == {}
<1>1. CASE Blank(path) \/ ~IsRelativeApplicationPath(path)
  <2>1. BuildPing(c, path, o) = Rejected("RequestInvalidPayload")
    BY <1>1 DEF BuildPing
  <2> QED BY <1>1, <2>1 DEF Outcome, Rejected
<1>2. CASE ~Blank(path) /\ IsRelativeApplicationPath(path)
  <2>1. url \in Values /\ "1" \in Values /\ "ping" \in Names \ {"dimension"}
    BY TextAssumption DEF Values, Names
  <2>2. IsQuery(<<Parameter("ping", "1")>>, {"ping"}, {})
    BY <2>1, QueryOne
  <2>3. payload.ok \in BOOLEAN /\ (payload.ok => IsQuery(payload.items, PayloadNames, none))
    BY <2>2, QueryWiden DEF PayloadNames
  <2>4. payload.ok
    OBVIOUS
  <2>5. BuildPing(c, path, o) = BuildRequest(c, url, o, payload)
    BY <1>2 DEF BuildPing
  <2> HIDE DEF payload, url, none
  <2>6. Outcome(BuildRequest(c, url, o, payload),
                ConfigIsValid(c) /\ HasValidClientId(o.clientId) /\ payload.ok, BuilderNames, none)
    BY <2>1, <2>3, RequestBuilt
  <2> QED BY <1>2, <2>4, <2>5, <2>6 DEF Outcome, none
<1> QED BY <1>1, <1>2

----------------------------------------------------------------------------
(* What tracker and dispatcher add.                                        *)

LEMMA CompletedBuilt ==
    ASSUME NEW built, NEW accepted, NEW pairs, Outcome(built, accepted, BuilderNames, pairs),
           NEW id \in PageViewIds, NEW forced \in BOOLEAN
    PROVE  Outcome(Completed(built, id, forced), accepted, Names, pairs)
<1>1. CASE ~accepted
  <2>1. Completed(built, id, forced) = built
    BY <1>1 DEF Completed, Outcome
  <2> QED BY <1>1, <2>1 DEF Outcome
<1>2. CASE accepted
  <2> DEFINE pv == IF id = "" THEN <<>> ELSE <<Parameter("pv_id", id)>>
             visit == IF forced THEN <<Parameter("new_visit", "1")>> ELSE <<>>
             last == <<Parameter("rand", "any")>>
             q == built.query
  <2>1. built.status = "RequestAccepted" /\ IsQuery(q, BuilderNames, pairs)
    BY <1>2 DEF Outcome
  <2>2. {"pv_id", "new_visit", "rand"} \subseteq Names \ {"dimension"}
        /\ {"1", "any"} \subseteq Values /\ id \in Values
    BY DEF Names, Values
  <2>3. IsQuery(pv, {"pv_id"}, {})
    BY <2>2, QueryOne, QueryEmpty, QueryWiden
  <2>4. IsQuery(visit, {"new_visit"}, {})
    BY <2>2, QueryOne, QueryEmpty, QueryWiden
  <2>5. IsQuery(last, {"rand"}, {})
    BY <2>2, QueryOne
  <2>6. Completed(built, id, forced) = Accepted(Append(q \o pv \o visit, Parameter("rand", "any")))
    BY <2>1 DEF Completed, AddCacheBuster, AddTrackerParameters
  <2> HIDE DEF pv, visit, q
  <2>7. IsQuery(q \o pv, BuilderNames \cup {"pv_id"}, pairs \cup {})
    <3>1. BuilderNames \cap {"pv_id"} = {}
      BY DEF BuilderNames, BaseNames, PayloadNames
    <3> QED BY <2>1, <2>3, <3>1, QueryConcat
  <2>8. IsQuery(q \o pv \o visit, (BuilderNames \cup {"pv_id"}) \cup {"new_visit"}, (pairs \cup {}) \cup {})
    <3>1. (BuilderNames \cup {"pv_id"}) \cap {"new_visit"} = {}
      BY DEF BuilderNames, BaseNames, PayloadNames
    <3> QED BY <2>4, <2>7, <3>1, QueryConcat
  <2>9. Append(q \o pv \o visit, Parameter("rand", "any")) = (q \o pv \o visit) \o last
    <3>1. q \o pv \o visit \in Seq(ParameterType) /\ Parameter("rand", "any") \in ParameterType
      BY <2>2, <2>8 DEF IsQuery, Parameter, ParameterType
    <3> DEFINE most == q \o pv \o visit
               rand == Parameter("rand", "any")
    <3> HIDE DEF most, rand
    <3>2. Append(most, rand) = most \o <<rand>>
      BY <3>1 DEF most, rand
    <3> QED BY <3>2 DEF most, rand
  <2> HIDE DEF last
  <2>10. IsQuery((q \o pv \o visit) \o last, ((BuilderNames \cup {"pv_id"}) \cup {"new_visit"}) \cup {"rand"},
                 ((pairs \cup {}) \cup {}) \cup {})
    <3>1. ((BuilderNames \cup {"pv_id"}) \cup {"new_visit"}) \cap {"rand"} = {}
      BY DEF BuilderNames, BaseNames, PayloadNames
    <3> QED BY <2>5, <2>8, <3>1, QueryConcat
  <2>11. IsQuery((q \o pv \o visit) \o last, Names, pairs)
    <3>1. ((pairs \cup {}) \cup {}) \cup {} = pairs
      OBVIOUS
    <3>2. ((BuilderNames \cup {"pv_id"}) \cup {"new_visit"}) \cup {"rand"} \subseteq Names
      BY DEF BuilderNames, BaseNames, PayloadNames, Names
    <3> QED BY <2>10, <3>1, <3>2, QueryWiden
  <2> DEFINE all == Append(q \o pv \o visit, Parameter("rand", "any"))
  <2>12. IsQuery(all, Names, pairs)
    BY <2>9, <2>11
  <2>13. Completed(built, id, forced) = Accepted(all)
    BY <2>6
  <2> HIDE DEF all
  <2> QED BY <1>2, <2>12, <2>13 DEF Outcome, Accepted
<1> QED BY <1>1, <1>2

\* The tracker's own checks reject nothing its builder would accept.
LEMMA AnsweredBuilt ==
    ASSUME NEW built, NEW accepted, NEW pairs, Outcome(built, accepted, BuilderNames, pairs),
           NEW valid, accepted => valid /\ ConfigIsValid(config),
           NEW id \in PageViewIds, NEW forced \in BOOLEAN
    PROVE  Outcome(Answered(valid, built, id, forced), accepted, Names, pairs)
<1>1. CASE owner = "host"
  <2>1. Answered(valid, built, id, forced) = built
    BY <1>1 DEF Answered
  <2>2. BuilderNames \subseteq Names
    BY DEF BuilderNames, BaseNames, PayloadNames, Names
  <2> QED BY <2>1, <2>2, QueryWiden DEF Outcome
<1>2. CASE owner # "host" /\ valid /\ ConfigIsValid(config)
  <2>1. Answered(valid, built, id, forced) = Completed(built, id, forced)
    BY <1>2 DEF Answered, Checked
  <2> QED BY <2>1, CompletedBuilt
<1>3. CASE owner # "host" /\ ~(valid /\ ConfigIsValid(config))
  <2>1. \/ Answered(valid, built, id, forced) = Rejected("RequestInvalidPayload")
        \/ Answered(valid, built, id, forced) = Rejected("RequestInvalidConfig")
    BY <1>3 DEF Answered, Checked
  <2> QED BY <1>3, <2>1 DEF Outcome, Rejected
<1> QED BY <1>1, <1>2, <1>3

----------------------------------------------------------------------------
(* What is acceptable, and what is documented.                             *)

LEMMA ConfigsAgree ==
    ASSUME config \in TrackerConfigs
    PROVE  ConfigIsValid(config) <=> ConfigAcceptable
<1>1. config.endpoint \in UrlType /\ config.actionUrlBase \in UrlType /\ config.siteId \in Int
  BY CallAssumption
<1>2. config.endpoint \in [absolute : {TRUE}, host : {TRUE}, scheme : {"http", "https"}] <=>
        config.endpoint.absolute /\ config.endpoint.host /\ config.endpoint.scheme \in {"http", "https"}
  BY <1>1 DEF UrlType
<1>3. config.siteId > 0 <=> config.siteId \in Nat \ {0}
  BY <1>1
<1> QED BY <1>2, <1>3, Zenon DEF ConfigIsValid, ConfigAcceptable

LEMMA PathsAgree ==
    ASSUME NEW t
    PROVE  ~Blank(t) /\ IsRelativeApplicationPath(t) <=> PathAcceptable(t)
BY DEF Blank, IsRelativeApplicationPath, PathAcceptable

\* The slots of the configuration that are added to those of a payload.
SlotsAdded(dims) == IF owner = "tracker" THEN Left(config, dims) ELSE {}

PairsAdded(slots) ==
    {<<k, config.customDimensions[k]>> : k \in {l \in slots : config.customDimensions[l] # ""}}

LEMMA OwnersDimensions ==
    ASSUME config \in TrackerConfigs, owner \in {"tracker", "host"},
           NEW dims \in Seq(DimensionType)
    PROVE  LET owners == IF owner = "host" THEN dims ELSE MergeDimensions(config, dims)
               slots == SlotsAdded(dims)
           IN  /\ owners \in Seq(DimensionType)
               /\ DimensionsAreValid(owners) <=> DimensionsAreValid(dims) /\ slots \subseteq MinId..MaxId
               /\ AreGood(owners, Len(owners)) <=> AreGood(dims, Len(dims)) /\ slots \subseteq MinId..MaxId
               /\ PairsOf(owners, Len(owners)) = PairsOf(dims, Len(dims)) \cup PairsAdded(slots)
<1>1. CASE owner = "host"
  <2>1. SlotsAdded(dims) = {} /\ PairsAdded({}) = {}
    BY <1>1 DEF SlotsAdded, PairsAdded
  <2> QED BY <1>1, <2>1
<1>2. CASE owner = "tracker"
  <2>1. SlotsAdded(dims) = Left(config, dims)
    BY <1>2 DEF SlotsAdded
  <2> QED BY <1>2, <2>1, MergeDef DEF PairsAdded
<1> QED BY <1>1, <1>2

\* Good dimensions are valid ones.
LEMMA GoodIsValid ==
    ASSUME NEW dims \in Seq(DimensionType), AreGood(dims, Len(dims))
    PROVE  DimensionsAreValid(dims)
<1>1. DOMAIN dims = 1..Len(dims)
  OBVIOUS
<1> QED BY <1>1 DEF AreGood, DimensionsAreValid

LEMMA SlotsAgree ==
    ASSUME NEW dims \in Seq(DimensionType), NEW slots
    PROVE  AreGood(dims, Len(dims)) /\ slots \subseteq MinId..MaxId <=>
             /\ UsedIds(dims) \cup slots \subseteq MinId..MaxId
             /\ \A i, j \in DOMAIN dims :
                  /\ dims[i].id = dims[j].id
                  /\ dims[i].value # "" /\ dims[j].value # ""
                  => i = j
<1>1. DOMAIN dims = 1..Len(dims)
  OBVIOUS
<1>2. UsedIds(dims) \subseteq MinId..MaxId <=> \A i \in DOMAIN dims : DimensionIsValid(dims[i])
  BY DEF UsedIds, DimensionIsValid
<1> QED BY <1>1, <1>2 DEF AreGood

LEMMA PairsAgree ==
    ASSUME NEW dims \in Seq(DimensionType), NEW slots
    PROVE  WithValue({<<dims[i].id, dims[i].value>> : i \in DOMAIN dims}
                     \cup {<<k, config.customDimensions[k]>> : k \in slots})
             = PairsOf(dims, Len(dims)) \cup PairsAdded(slots)
<1> DEFINE given == {<<dims[i].id, dims[i].value>> : i \in DOMAIN dims}
           own == {<<k, config.customDimensions[k]>> : k \in slots}
<1>1. DOMAIN dims = 1..Len(dims)
  OBVIOUS
<1>2. \A a, b : <<a, b>>[2] = b
  OBVIOUS
<1>3. WithValue(given) = PairsOf(dims, Len(dims))
  <2>1. ASSUME NEW pair \in WithValue(given) PROVE pair \in PairsOf(dims, Len(dims))
    <3>1. PICK i \in DOMAIN dims : pair = <<dims[i].id, dims[i].value>>
      BY <2>1 DEF WithValue
    <3>2. dims[i].value # ""
      BY <1>2, <2>1, <3>1 DEF WithValue
    <3> QED BY <1>1, <3>1, <3>2 DEF PairsOf
  <2>2. ASSUME NEW pair \in PairsOf(dims, Len(dims)) PROVE pair \in WithValue(given)
    <3>1. PICK i \in DOMAIN dims : pair = <<dims[i].id, dims[i].value>> /\ dims[i].value # ""
      BY <1>1, <2>2 DEF PairsOf
    <3> QED BY <1>2, <3>1 DEF WithValue
  <2> QED BY <2>1, <2>2
<1>4. WithValue(own) = PairsAdded(slots)
  <2>1. ASSUME NEW pair \in WithValue(own) PROVE pair \in PairsAdded(slots)
    <3>1. PICK k \in slots : pair = <<k, config.customDimensions[k]>>
      BY <2>1 DEF WithValue
    <3>2. config.customDimensions[k] # ""
      BY <1>2, <2>1, <3>1 DEF WithValue
    <3> QED BY <3>1, <3>2 DEF PairsAdded
  <2>2. ASSUME NEW pair \in PairsAdded(slots) PROVE pair \in WithValue(own)
    <3>1. PICK k \in slots : pair = <<k, config.customDimensions[k]>> /\ config.customDimensions[k] # ""
      BY <2>2 DEF PairsAdded
    <3> QED BY <1>2, <3>1 DEF WithValue
  <2> QED BY <2>1, <2>2
<1>5. WithValue(given \cup own) = WithValue(given) \cup WithValue(own)
  BY DEF WithValue
<1> QED BY <1>3, <1>4, <1>5

----------------------------------------------------------------------------
(* The answer to a call.                                                   *)

Acceptable ==
    /\ ConfigAcceptable /\ PayloadAcceptable /\ DimensionsAcceptable
    /\ call.options.clientId \in ClientIds \cup {""}

Documented ==
    WithValue({<<CallDimensions[i].id, CallDimensions[i].value>> : i \in DOMAIN CallDimensions}
              \cup {<<k, config.customDimensions[k]>> : k \in OwnSlots})

\* The strengthening: the answer is there for the whole time of the call, and
\* is a query without repetitions that has the documented dimensions.
AnswerInv ==
    /\ owner \in {"tracker", "host"}
    /\ config \in TrackerConfigs
    /\ Idle => answer = Rejected("none")
    /\ ~Idle => Outcome(answer, Acceptable, Names, Documented)

\* An answer to the dimensions of a page view or an event.
LEMMA DimensionsStep ==
    ASSUME AnswerInv, NEW dims \in Seq(DimensionType),
           UNCHANGED <<owner, config>>,
           CallDimensions' = dims, OwnSlots' = SlotsAdded(dims)
    PROVE  LET owners == IF owner = "host" THEN dims ELSE MergeDimensions(config, dims)
           IN  /\ DimensionsAcceptable' <=> AreGood(owners, Len(owners))
               /\ Documented' = PairsOf(owners, Len(owners))
<1> DEFINE owners == IF owner = "host" THEN dims ELSE MergeDimensions(config, dims)
           slots == SlotsAdded(dims)
<1>1. /\ AreGood(owners, Len(owners)) <=> AreGood(dims, Len(dims)) /\ slots \subseteq MinId..MaxId
      /\ PairsOf(owners, Len(owners)) = PairsOf(dims, Len(dims)) \cup PairsAdded(slots)
  BY OwnersDimensions DEF AnswerInv
<1>2. DimensionsAcceptable' <=>
        /\ UsedIds(dims) \cup slots \subseteq MinId..MaxId
        /\ \A i, j \in DOMAIN dims :
             /\ dims[i].id = dims[j].id
             /\ dims[i].value # "" /\ dims[j].value # ""
             => i = j
  BY DEF DimensionsAcceptable, UsedIds
<1>3. Documented' = WithValue({<<dims[i].id, dims[i].value>> : i \in DOMAIN dims}
                              \cup {<<k, config.customDimensions[k]>> : k \in slots})
  BY DEF Documented, WithValue
<1> HIDE DEF owners, slots
<1>4. DimensionsAcceptable' <=> AreGood(owners, Len(owners))
  BY <1>1, <1>2, SlotsAgree
<1>5. Documented' = PairsOf(owners, Len(owners))
  BY <1>1, <1>3, PairsAgree
<1> QED BY <1>4, <1>5 DEF owners

LEMMA PageViewStep ==
    ASSUME AnswerInv, NEW p \in PageViews, NEW o \in Options, NEW id \in PageViewIds,
           NEW forced \in BOOLEAN, PageView(p, o, id, forced)
    PROVE  AnswerInv'
<1> DEFINE dims == p.customDimensions
           owners == IF owner = "host" THEN dims ELSE MergeDimensions(config, dims)
           payload == OwnersPayload(p)
           accepted == /\ PageViewIsValid(payload) /\ IsRelativeApplicationPath(payload.path)
                       /\ ConfigIsValid(config) /\ HasValidClientId(o.clientId)
                       /\ AreGood(owners, Len(owners))
           pairs == PairsOf(owners, Len(owners))
<1>1. /\ owner \in {"tracker", "host"} /\ config \in TrackerConfigs /\ UNCHANGED <<owner, config>>
      /\ call' = [kind |-> "pageView", payload |-> p, options |-> o]
      /\ answer' = Answered(PageViewIsValid(p), BuildPageView(config, payload, o), id, forced)
  BY DEF PageView, AnswerInv
<1>2. p \in PageViewType /\ dims \in Seq(DimensionType)
  BY CallAssumption DEF PageViewType
<1>3. /\ owners \in Seq(DimensionType)
      /\ DimensionsAreValid(owners) <=> DimensionsAreValid(dims) /\ SlotsAdded(dims) \subseteq MinId..MaxId
  BY <1>1, <1>2, OwnersDimensions
<1>4. /\ payload \in PageViewType /\ payload.customDimensions = owners
      /\ payload.path = p.path /\ payload.actionName = p.actionName
  BY <1>1, <1>2, <1>3 DEF OwnersPayload, Enriched, PageViewType
<1>5. /\ CallDimensions' = dims
      /\ OwnSlots' = SlotsAdded(dims)
      /\ PayloadAcceptable' <=> PathAcceptable(p.path)
      /\ call'.options.clientId = o.clientId
      /\ ConfigAcceptable' <=> ConfigAcceptable
      /\ ~Idle'
  BY <1>1 DEF CallDimensions, OwnSlots, SlotsAdded, Left, UsedIds, PayloadAcceptable, PathAcceptable,
              ConfigAcceptable, Idle, NoCall
<1>6. (DimensionsAcceptable' <=> AreGood(owners, Len(owners))) /\ Documented' = pairs
  BY <1>1, <1>2, <1>5, DimensionsStep
<1> HIDE DEF payload, owners, dims
<1>7. Outcome(BuildPageView(config, payload, o), accepted, BuilderNames, pairs)
  BY <1>1, <1>4, PageViewBuilt
<1>8. AreGood(owners, Len(owners)) => DimensionsAreValid(owners) /\ DimensionsAreValid(dims)
  BY <1>3, GoodIsValid
<1>9. accepted => PageViewIsValid(p) /\ ConfigIsValid(config)
  BY <1>4, <1>8 DEF PageViewIsValid, dims
<1>10. Outcome(answer', accepted, Names, pairs)
  <2> HIDE DEF accepted, pairs
  <2> QED BY <1>1, <1>7, <1>9, AnsweredBuilt
<1>11. accepted <=> Acceptable'
  <2>1. PageViewIsValid(payload) /\ IsRelativeApplicationPath(payload.path) <=>
          PathAcceptable(p.path) /\ DimensionsAreValid(owners)
    BY <1>4, PathsAgree DEF PageViewIsValid
  <2>2. HasValidClientId(o.clientId) <=> o.clientId \in ClientIds \cup {""}
    BY DEF HasValidClientId
  <2>3. ConfigIsValid(config) <=> ConfigAcceptable
    BY <1>1, ConfigsAgree
  <2>4. Acceptable' <=> /\ ConfigAcceptable /\ PathAcceptable(p.path)
                        /\ AreGood(owners, Len(owners)) /\ o.clientId \in ClientIds \cup {""}
    BY <1>5, <1>6 DEF Acceptable
  <2> QED BY <1>8, <2>1, <2>2, <2>3, <2>4
<1> HIDE DEF accepted, pairs
<1>12. Outcome(answer', Acceptable', Names, Documented')
  BY <1>6, <1>10, <1>11 DEF Outcome
<1> QED BY <1>1, <1>5, <1>12 DEF AnswerInv, Outcome, IsQuery, DimensionsOf

LEMMA EventStep ==
    ASSUME AnswerInv, NEW e \in Events, NEW o \in Options, NEW id \in PageViewIds,
           NEW forced \in BOOLEAN, Event(e, o, id, forced)
    PROVE  AnswerInv'
<1> DEFINE dims == e.customDimensions
           owners == IF owner = "host" THEN dims ELSE MergeDimensions(config, dims)
           payload == OwnersPayload(e)
           accepted == /\ EventIsValid(payload)
                       /\ ConfigIsValid(config) /\ HasValidClientId(o.clientId)
                       /\ AreGood(owners, Len(owners))
           pairs == PairsOf(owners, Len(owners))
           textsGood == e.value # "infinite" /\ "" \notin {Trimmed[e.category], Trimmed[e.action]}
<1>1. /\ owner \in {"tracker", "host"} /\ config \in TrackerConfigs /\ UNCHANGED <<owner, config>>
      /\ call' = [kind |-> "event", payload |-> e, options |-> o]
      /\ answer' = Answered(EventIsValid(e), BuildEvent(config, payload, o), id, forced)
  BY DEF Event, AnswerInv
<1>2. e \in EventType /\ dims \in Seq(DimensionType)
  BY CallAssumption DEF EventType
<1>3. /\ owners \in Seq(DimensionType)
      /\ DimensionsAreValid(owners) <=> DimensionsAreValid(dims) /\ SlotsAdded(dims) \subseteq MinId..MaxId
  BY <1>1, <1>2, OwnersDimensions
<1>4. /\ payload \in EventType /\ payload.customDimensions = owners
      /\ payload.category = e.category /\ payload.action = e.action /\ payload.value = e.value
  BY <1>1, <1>2, <1>3 DEF OwnersPayload, Enriched, EventType
<1>5. /\ CallDimensions' = dims
      /\ OwnSlots' = SlotsAdded(dims)
      /\ PayloadAcceptable' <=> textsGood
      /\ call'.options.clientId = o.clientId
      /\ ConfigAcceptable' <=> ConfigAcceptable
      /\ ~Idle'
  BY <1>1 DEF CallDimensions, OwnSlots, SlotsAdded, Left, UsedIds, PayloadAcceptable,
              ConfigAcceptable, Idle, NoCall
<1>6. (DimensionsAcceptable' <=> AreGood(owners, Len(owners))) /\ Documented' = pairs
  BY <1>1, <1>2, <1>5, DimensionsStep
<1> HIDE DEF payload, owners, dims
<1>7. Outcome(BuildEvent(config, payload, o), accepted, BuilderNames, pairs)
  BY <1>1, <1>4, EventBuilt
<1>8. AreGood(owners, Len(owners)) => DimensionsAreValid(owners) /\ DimensionsAreValid(dims)
  BY <1>3, GoodIsValid
<1>9. accepted => EventIsValid(e) /\ ConfigIsValid(config)
  BY <1>4, <1>8 DEF EventIsValid, dims
<1>10. Outcome(answer', accepted, Names, pairs)
  <2> HIDE DEF accepted, pairs
  <2> QED BY <1>1, <1>7, <1>9, AnsweredBuilt
<1>11. accepted <=> Acceptable'
  <2>1. EventIsValid(payload) <=> textsGood /\ DimensionsAreValid(owners)
    BY <1>4 DEF EventIsValid, Blank
  <2>2. HasValidClientId(o.clientId) <=> o.clientId \in ClientIds \cup {""}
    BY DEF HasValidClientId
  <2>3. ConfigIsValid(config) <=> ConfigAcceptable
    BY <1>1, ConfigsAgree
  <2>4. Acceptable' <=> /\ ConfigAcceptable /\ textsGood
                        /\ AreGood(owners, Len(owners)) /\ o.clientId \in ClientIds \cup {""}
    BY <1>5, <1>6 DEF Acceptable
  <2> HIDE DEF textsGood
  <2> QED BY <1>8, <2>1, <2>2, <2>3, <2>4
<1> HIDE DEF accepted, pairs
<1>12. Outcome(answer', Acceptable', Names, Documented')
  BY <1>6, <1>10, <1>11 DEF Outcome
<1> QED BY <1>1, <1>5, <1>12 DEF AnswerInv, Outcome, IsQuery, DimensionsOf

LEMMA PingStep ==
    ASSUME AnswerInv, NEW path \in PingPaths, NEW o \in Options, NEW id \in PageViewIds,
           NEW forced \in BOOLEAN, Ping(path, o, id, forced)
    PROVE  AnswerInv'
<1> DEFINE pingPath == IF owner = "tracker" /\ path = "" THEN "/" ELSE path
           accepted == /\ ~Blank(pingPath) /\ IsRelativeApplicationPath(pingPath)
                       /\ ConfigIsValid(config) /\ HasValidClientId(o.clientId)
           none == {}
<1>1. /\ owner \in {"tracker", "host"} /\ config \in TrackerConfigs /\ UNCHANGED <<owner, config>>
      /\ call' = [kind |-> "ping", path |-> pingPath, options |-> o]
      /\ answer' = Answered(TRUE, BuildPing(config, pingPath, o), id, forced)
  BY DEF Ping, AnswerInv
<1>2. pingPath \in Texts
  BY CallAssumption
<1> HIDE DEF pingPath
<1>3. /\ CallDimensions' = <<>>
      /\ OwnSlots' = {}
      /\ PayloadAcceptable' <=> PathAcceptable(pingPath)
      /\ call'.options.clientId = o.clientId
      /\ ConfigAcceptable' <=> ConfigAcceptable
      /\ ~Idle'
  BY <1>1 DEF CallDimensions, OwnSlots, PayloadAcceptable, PathAcceptable,
              ConfigAcceptable, Idle, NoCall
<1>4. DimensionsAcceptable' /\ Documented' = none
  <2>1. UsedIds(<<>>) = {} /\ DOMAIN <<>> = {}
    BY DEF UsedIds
  <2> QED BY <1>3, <2>1 DEF DimensionsAcceptable, Documented, WithValue, UsedIds
<1> HIDE DEF none
<1>5. Outcome(BuildPing(config, pingPath, o), accepted, BuilderNames, none)
  BY <1>1, <1>2, PingBuilt DEF none
<1>6. Outcome(answer', accepted, Names, none)
  <2>1. accepted => TRUE /\ ConfigIsValid(config)
    OBVIOUS
  <2> HIDE DEF accepted
  <2> QED BY <1>1, <1>5, <2>1, AnsweredBuilt
<1>7. accepted <=> Acceptable'
  <2>1. HasValidClientId(o.clientId) <=> o.clientId \in ClientIds \cup {""}
    BY DEF HasValidClientId
  <2> QED BY <1>1, <1>3, <1>4, <2>1, ConfigsAgree, PathsAgree DEF Acceptable
<1> HIDE DEF accepted
<1>8. Outcome(answer', Acceptable', Names, Documented')
  BY <1>4, <1>6, <1>7 DEF Outcome
<1> QED BY <1>1, <1>3, <1>8 DEF AnswerInv, Outcome, IsQuery, DimensionsOf

LEMMA AnswerStep ==
    ASSUME AnswerInv, [Next]_vars
    PROVE  AnswerInv'
<1>1. ASSUME Return PROVE AnswerInv'
  BY <1>1 DEF Return, AnswerInv, Idle, NoCall, Rejected
<1>2. ASSUME NEW c \in TrackerConfigs, SetConfig(c) PROVE AnswerInv'
  BY <1>2 DEF SetConfig, AnswerInv, Idle, NoCall, Rejected
<1>3. ASSUME UNCHANGED vars PROVE AnswerInv'
  <2>1. owner' = owner /\ config' = config /\ call' = call /\ answer' = answer
    BY <1>3 DEF vars
  <2>2. CallDimensions' = CallDimensions
    BY <2>1 DEF CallDimensions
  <2>3. OwnSlots' = OwnSlots
    BY <2>1, <2>2 DEF OwnSlots, UsedIds
  <2>4. DimensionsAcceptable' <=> DimensionsAcceptable
    BY <2>2, <2>3 DEF DimensionsAcceptable, UsedIds
  <2>5. (ConfigAcceptable' <=> ConfigAcceptable) /\ (PayloadAcceptable' <=> PayloadAcceptable)
    BY <2>1 DEF ConfigAcceptable, PayloadAcceptable, PathAcceptable
  <2>6. Acceptable' <=> Acceptable
    BY <2>1, <2>4, <2>5 DEF Acceptable
  <2>7. Documented' = Documented
    BY <2>1, <2>2, <2>3 DEF Documented, WithValue
  <2>8. Outcome(answer, Acceptable, Names, Documented)
          => Outcome(answer', Acceptable', Names, Documented')
    BY <2>1, <2>6, <2>7 DEF Outcome
  <2> QED BY <2>1, <2>8 DEF AnswerInv, Idle, Outcome, IsQuery, DimensionsOf
<1> QED BY <1>1, <1>2, <1>3, PageViewStep, EventStep, PingStep DEF Next

LEMMA AnswerCorrect == Spec => []AnswerInv
<1>1. Init => AnswerInv
  BY DEF Init, AnswerInv, Idle
<1>2. AnswerInv /\ [Next]_vars => AnswerInv'
  BY AnswerStep
<1> QED BY <1>1, <1>2, PTL DEF Spec

----------------------------------------------------------------------------
(* The theorems.                                                           *)

\* Whatever slots the call and the configuration use, a request has exactly the
\* dimensions the header documents: mergeDimensions(), addCustomDimensions().
THEOREM DimensionsCorrect == Spec => []DimensionsAsDocumented
<1>1. AnswerInv => DimensionsAsDocumented
  <2> SUFFICES ASSUME AnswerInv, Sent PROVE DimensionsAsDocumented
    BY DEF DimensionsAsDocumented
  <2>1. ~Idle
    BY DEF AnswerInv, Sent, Rejected
  <2>2. IsQuery(answer.query, Names, Documented)
    BY <2>1 DEF AnswerInv, Outcome, Sent
  <2>3. DimensionsOf(answer.query) = Documented
    BY <2>2 DEF IsQuery
  <2> QED BY <2>3 DEF DimensionsOf, Documented, DimensionsAsDocumented, SentDimensions
<1> QED BY <1>1, AnswerCorrect, PTL

\* No parameter goes out twice: the names of buildRequest(), of the payloads, of
\* the tracker and of the dispatcher are distinct, and so are the slots.
THEOREM NoParameterTwiceCorrect == Spec => []NoParameterTwice
<1>1. AnswerInv => NoParameterTwice
  <2> SUFFICES ASSUME AnswerInv PROVE NoParameterTwice
    OBVIOUS
  <2>1. CASE Sent
    <3>1. ~Idle
      BY <2>1 DEF AnswerInv, Sent, Rejected
    <3>2. IsQuery(answer.query, Names, Documented)
      BY <2>1, <3>1 DEF AnswerInv, Outcome, Sent
    <3> QED BY <3>2 DEF IsQuery, NoParameterTwice
  <2>2. CASE ~Sent
    <3>1. answer.query = <<>>
      BY <2>2 DEF AnswerInv, Outcome, Sent, Rejected
    <3>2. DOMAIN answer.query = {}
      BY <3>1
    <3> QED BY <3>2 DEF NoParameterTwice
  <2> QED BY <2>1, <2>2
<1> QED BY <1>1, AnswerCorrect, PTL

\* A call is accepted exactly when each of its parts is acceptable by itself:
\* isValid() of config and payloads, buildRequest(), addCustomDimensions().
THEOREM AcceptedCorrect == Spec => []AcceptedIffAcceptable
<1>1. AnswerInv => AcceptedIffAcceptable
  BY DEF AnswerInv, Outcome, Acceptable, Sent, AcceptedIffAcceptable
<1> QED BY <1>1, AnswerCorrect, PTL
=============================================================================
