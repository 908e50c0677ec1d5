------------------------ MODULE UserAgentBuilderProofs ------------------------
(***************************************************************************)
(* Theorems about the User-Agent, for any texts and machines.              *)
(*                                                                         *)
(* Each of the three loops (a token's, the escaping of a name and its      *)
(* unescaping) is shown to be defined, turn by turn, and then to keep an   *)
(* invariant.  What is built of their results is taken apart again by      *)
(* where its parentheses, semicolons and blanks can be.  The invariant of  *)
(* the specification adds that the text is that of the one info there is.  *)
(***************************************************************************)
EXTENDS UserAgentBuilder, FiniteSetTheorems, WellFoundedInduction, NaturalsInduction, TLAPS

----------------------------------------------------------------------------
(* Induction, and the ends of a set of numbers.                            *)

\* Numbers have a least one.
LEMMA LeastNumber ==
    ASSUME NEW S \in SUBSET Nat, S # {}
    PROVE  \E n \in S : \A m \in S : n <= m
<1>1. IsWellFoundedOn(OpToRel(<, Nat), Nat)
  BY NatLessThanWellFounded
<1>2. PICK n \in S : \A m \in S : ~(<<m, n>> \in OpToRel(<, Nat))
  BY <1>1, WFMin
<1>3. ASSUME NEW m \in S PROVE n <= m
  <2>1. ~(m < n)
    BY <1>2 DEF OpToRel
  <2> QED BY <2>1
<1> QED BY <1>3

\* A set that has 0, and with a number the next, has all numbers.
LEMMA Induction ==
    ASSUME NEW S, 0 \in S, \A n \in Nat : n \in S => n + 1 \in S
    PROVE  Nat \subseteq S
<1> SUFFICES ASSUME ~(Nat \subseteq S) PROVE FALSE
  OBVIOUS
<1>1. PICK n \in Nat \ S : \A m \in Nat \ S : n <= m
  BY LeastNumber
<1>2. n # 0 /\ n - 1 \in Nat
  BY <1>1
<1>3. n - 1 \in S
  BY <1>1, <1>2
<1> QED BY <1>1, <1>2, <1>3

LEMMA MinDef ==
    ASSUME NEW S \in SUBSET Nat, S # {}
    PROVE  Min(S) \in S /\ \A n \in S : Min(S) <= n
BY LeastNumber DEF Min

LEMMA MaxDef ==
    ASSUME NEW N \in Nat, NEW S \in SUBSET (0..N), S # {}
    PROVE  Max(S) \in S /\ \A n \in S : n <= Max(S)
<1> DEFINE T == {N - n : n \in S}
<1>1. T \in SUBSET Nat /\ T # {}
  <2>1. \A n \in S : n \in 0..N /\ N - n \in Nat
    OBVIOUS
  <2> QED BY <2>1
<1>2. PICK m \in T : \A k \in T : m <= k
  BY <1>1, LeastNumber
<1>3. PICK x \in S : m = N - x
  BY <1>2
<1>4. ASSUME NEW n \in S PROVE n <= x
  <2>1. m <= N - n
    BY <1>2
  <2> HIDE DEF T
  <2>2. n \in 0..N /\ x \in 0..N
    OBVIOUS
  <2> QED BY <2>1, <2>2, <1>3
<1>5. \E y \in S : \A n \in S : y >= n
  <2>1. x \in 0..N /\ \A n \in S : n \in 0..N
    OBVIOUS
  <2> QED BY <1>4, <2>1
<1>6. Max(S) \in S /\ \A n \in S : Max(S) >= n
  BY <1>5, Zenon DEF Max
<1>7. Max(S) \in 0..N /\ \A n \in S : n \in 0..N
  BY <1>6
<1> QED BY <1>6, <1>7

----------------------------------------------------------------------------
(* Trimming.                                                               *)

\* What is left of s without what is at its ends: nothing, or a..b of it.
LEMMA InnerDef ==
    ASSUME NEW C, NEW s \in Seq(C), NEW outer
    PROVE  /\ Inner(s, outer) \in Seq(C)
           /\ \/ Inner(s, outer) = <<>> /\ \A i \in 1..Len(s) : s[i] \in outer
              \/ \E a, b \in 1..Len(s) :
                    /\ a <= b /\ Inner(s, outer) = SubSeq(s, a, b)
                    /\ s[a] \notin outer /\ s[b] \notin outer
                    /\ \A i \in 1..Len(s) : i < a \/ i > b => s[i] \in outer
<1> DEFINE places == {i \in DOMAIN s : s[i] \notin outer}
<1>1. places \in SUBSET (0..Len(s)) /\ places \in SUBSET Nat /\ DOMAIN s = 1..Len(s) /\ Len(s) \in Nat
  OBVIOUS
<1>2. CASE places = {}
  BY <1>1, <1>2 DEF Inner
<1>3. CASE places # {}
  <2> DEFINE a == Min(places)
             b == Max(places)
  <2>1. a \in places /\ b \in places /\ \A n \in places : a <= n /\ n <= b
    <3> HIDE DEF places
    <3> QED BY <1>1, <1>3, MinDef, MaxDef
  <2>2. Inner(s, outer) = SubSeq(s, a, b)
    BY <1>3 DEF Inner
  <2>3. a \in 1..Len(s) /\ b \in 1..Len(s) /\ a <= b /\ s[a] \notin outer /\ s[b] \notin outer
    BY <2>1, <1>1
  <2>4. \A i \in 1..Len(s) : i < a \/ i > b => s[i] \in outer
    <3> SUFFICES ASSUME NEW i \in 1..Len(s), i < a \/ i > b, s[i] \notin outer PROVE FALSE
      OBVIOUS
    <3>1. i \in places
      BY <1>1
    <3> HIDE DEF places
    <3> QED BY <3>1, <2>1, <2>3
  <2> HIDE DEF places, a, b
  <2>5. SubSeq(s, a, b) \in Seq(C)
    BY <2>3
  <2> QED BY <2>2, <2>3, <2>4, <2>5
<1> QED BY <1>2, <1>3

\* And a..b of s is what is left of it when what is around that goes.
LEMMA InnerIs ==
    ASSUME NEW C, NEW s \in Seq(C), NEW outer, NEW a \in 1..Len(s), NEW b \in 1..Len(s),
           s[a] \notin outer, s[b] \notin outer,
           \A i \in 1..Len(s) : i < a \/ i > b => s[i] \in outer
    PROVE  Inner(s, outer) = SubSeq(s, a, b)
<1>1. ~(Inner(s, outer) = <<>> /\ \A i \in 1..Len(s) : s[i] \in outer)
  OBVIOUS
<1>2. PICK c, d \in 1..Len(s) :
        /\ c <= d /\ Inner(s, outer) = SubSeq(s, c, d)
        /\ s[c] \notin outer /\ s[d] \notin outer
        /\ \A i \in 1..Len(s) : i < c \/ i > d => s[i] \in outer
  BY <1>1, InnerDef
<1>3. ~(c < a) /\ ~(a < c) /\ ~(b < d) /\ ~(d < b)
  BY <1>2
<1>4. a = c /\ b = d
  BY <1>3
<1> QED BY <1>2, <1>4

----------------------------------------------------------------------------
(* The loop of tokenPart() and osVersionPart().                            *)

IsJoinedLoop(f, s, kept, separators, separator, n) ==
    f = [k \in 0..n |->
            IF k = 0 THEN <<>> ELSE Add(f[k - 1], s[k], kept, separators, separator)]

\* A loop of any length is defined.
LEMMA JoinedLoopExists ==
    ASSUME NEW s, NEW kept, NEW separators, NEW separator, NEW n \in Nat
    PROVE  \E f : IsJoinedLoop(f, s, kept, separators, separator, n)
<1> DEFINE Turn(f, k) == IF k = 0 THEN <<>> ELSE Add(f[k - 1], s[k], kept, separators, separator)
           Done == {m \in Nat : \E f : f = [k \in 0..m |-> Turn(f, k)]}
<1>1. 0 \in Done
  <2>1. [k \in 0..0 |-> <<>>] = [k \in 0..0 |-> Turn([k_1 \in 0..0 |-> <<>>], k)]
    OBVIOUS
  <2> QED BY <2>1
<1>2. ASSUME NEW m \in Nat, m \in Done PROVE m + 1 \in Done
  <2>1. PICK f : f = [k \in 0..m |-> Turn(f, k)]
    BY <1>2
  <2> DEFINE g == [k \in 0..(m + 1) |-> IF k = m + 1 THEN Turn(f, k) ELSE f[k]]
  <2>2. ASSUME NEW k \in 0..(m + 1) PROVE g[k] = Turn(g, k)
    <3>1. CASE k = 0
      BY <2>1, <3>1
    <3>2. CASE k # 0
      <4>1. g[k - 1] = f[k - 1]
        BY <3>2
      <4>2. g[k] = Turn(f, k)
        <5>1. CASE k = m + 1
          BY <5>1
        <5>2. CASE k \in 0..m
          BY <5>2, <2>1
        <5> QED BY <5>1, <5>2
      <4> QED BY <4>1, <4>2
    <3> QED BY <3>1, <3>2
  <2>3. g = [k \in 0..(m + 1) |-> Turn(g, k)]
    BY <2>2
  <2> HIDE DEF g
  <2> QED BY <2>3
<1>3. n \in Done
  <2> HIDE DEF Done
  <2> QED BY <1>1, <1>2, Induction
<1> QED BY <1>3 DEF IsJoinedLoop

\* Each turn goes on from the one before.
LEMMA JoinedTurnsDef ==
    ASSUME NEW s, NEW kept, NEW separators, NEW separator, Len(s) \in Nat
    PROVE  LET after == JoinedTurns(s, kept, separators, separator)
           IN  /\ after[0] = <<>>
               /\ \A n \in 1..Len(s) :
                    after[n] = Add(after[n - 1], s[n], kept, separators, separator)
<1> DEFINE after == JoinedTurns(s, kept, separators, separator)
<1>1. after = CHOOSE f : IsJoinedLoop(f, s, kept, separators, separator, Len(s))
  BY DEF JoinedTurns, IsJoinedLoop
<1>2. IsJoinedLoop(after, s, kept, separators, separator, Len(s))
  BY <1>1, JoinedLoopExists, Zenon
<1> QED BY <1>2 DEF IsJoinedLoop

\* The invariant of the loop: t stands for the first n characters of s, each of
\* its own for that at from.  A separator may be its last character, and is then
\* the one there is to be before the next that is kept.
StandsFor(t, s, n, kept, separators, separator, from) ==
    /\ t \in Seq(kept \cup {separator})
    /\ from \in [1..Len(t) -> 1..n]
    /\ \A j, k \in 1..Len(t) : j < k => from[j] < from[k]
    /\ \A i \in 1..n : s[i] \in kept => \E j \in 1..Len(t) : from[j] = i
    /\ \A j \in 1..Len(t) :
        \/ t[j] \in kept /\ s[from[j]] = t[j]
        \/ /\ t[j] = separator /\ s[from[j]] \in separators
           /\ j - 1 \in 1..Len(t) /\ t[j - 1] \in kept
    /\ \A j \in 1..(Len(t) - 1) : {t[j], t[j + 1]} \subseteq kept =>
        \A i \in from[j]..from[j + 1] : s[i] \notin separators
    /\ t # <<>> /\ Last(t) \in kept => \A i \in from[Len(t)]..n : s[i] \notin separators

\* A turn keeps the invariant.
LEMMA TurnStands ==
    ASSUME NEW C, NEW s \in Seq(C), NEW kept, NEW separators, NEW separator,
           kept \cap separators = {}, separator \notin kept,
           NEW n \in Nat, n + 1 \in 1..Len(s), NEW t, NEW from,
           StandsFor(t, s, n, kept, separators, separator, from)
    PROVE  \E to : StandsFor(Add(t, s[n + 1], kept, separators, separator), s, n + 1,
                             kept, separators, separator, to)
<1> DEFINE c == s[n + 1]
           r == Add(t, c, kept, separators, separator)
           L == Len(t)
<1>1. /\ t \in Seq(kept \cup {separator})
      /\ L \in Nat
      /\ from \in [1..L -> 1..n]
      /\ \A j, k \in 1..L : j < k => from[j] < from[k]
      /\ \A i \in 1..n : s[i] \in kept => \E j \in 1..L : from[j] = i
      /\ \A j \in 1..L :
          \/ t[j] \in kept /\ s[from[j]] = t[j]
          \/ /\ t[j] = separator /\ s[from[j]] \in separators
             /\ j - 1 \in 1..L /\ t[j - 1] \in kept
      /\ \A j \in 1..(L - 1) : {t[j], t[j + 1]} \subseteq kept =>
          \A i \in from[j]..from[j + 1] : s[i] \notin separators
      /\ t # <<>> /\ t[L] \in kept => \A i \in from[L]..n : s[i] \notin separators
  BY DEF StandsFor, Last
<1>0. /\ c = s[n + 1] /\ L = Len(t)
      /\ r = IF c \in kept THEN Append(t, c)
             ELSE IF c \in separators /\ t # <<>> /\ t[L] # separator
                  THEN Append(t, separator) ELSE t
      /\ t # <<>> => L # 0
  BY <1>1 DEF Add, Last
<1> SUFFICES \E to : StandsFor(r, s, n + 1, kept, separators, separator, to)
  OBVIOUS
<1> HIDE DEF r, c, L
<1>2. ASSUME NEW e, r = Append(t, e),
             \/ e \in kept /\ c = e
             \/ e = separator /\ c \in separators /\ t # <<>> /\ t[L] \in kept
      PROVE  \E to : StandsFor(r, s, n + 1, kept, separators, separator, to)
  <2> DEFINE to == [j \in 1..(L + 1) |-> IF j <= L THEN from[j] ELSE n + 1]
  <2>1. /\ r \in Seq(kept \cup {separator})
        /\ Len(r) = L + 1
        /\ \A j \in 1..(L + 1) : r[j] = IF j <= L THEN t[j] ELSE e
    BY <1>0, <1>1, <1>2
  <2>2. /\ to \in [1..(L + 1) -> 1..(n + 1)]
        /\ \A j \in 1..(L + 1) : to[j] = IF j <= L THEN from[j] ELSE n + 1
        /\ \A j \in 1..L : from[j] \in 1..n
    <3>1. \A j \in 1..L : from[j] \in 1..n /\ from[j] \in 1..(n + 1)
      BY <1>1
    <3>2. n + 1 \in 1..(n + 1) /\ \A j \in 1..(L + 1) : j <= L => j \in 1..L
      BY <1>1
    <3> QED BY <3>1, <3>2
  <2> HIDE DEF to
  <2>3. ASSUME NEW j \in 1..(L + 1), NEW k \in 1..(L + 1), j < k PROVE to[j] < to[k]
    <3>1. j \in 1..L /\ to[j] = from[j] /\ from[j] \in 1..n
      BY <1>1, <2>2, <2>3
    <3>2. CASE k \in 1..L
      BY <1>1, <2>2, <2>3, <3>1, <3>2
    <3>3. CASE k = L + 1
      BY <1>1, <2>2, <3>1, <3>3
    <3> QED BY <3>2, <3>3, <1>1
  <2>4. ASSUME NEW i \in 1..(n + 1), s[i] \in kept PROVE \E j \in 1..(L + 1) : to[j] = i
    <3>1. CASE i \in 1..n
      <4>1. PICK j \in 1..L : from[j] = i
        BY <1>1, <2>4, <3>1
      <4>2. j \in 1..(L + 1) /\ to[j] = i
        BY <1>1, <2>2, <4>1
      <4> QED BY <4>2
    <3>2. CASE i = n + 1
      <4>1. L + 1 \in 1..(L + 1) /\ to[L + 1] = i
        BY <1>1, <2>2, <3>2
      <4> QED BY <4>1
    <3> QED BY <3>1, <3>2
  <2>5. ASSUME NEW j \in 1..(L + 1)
        PROVE  \/ r[j] \in kept /\ s[to[j]] = r[j]
               \/ /\ r[j] = separator /\ s[to[j]] \in separators
                  /\ j - 1 \in 1..(L + 1) /\ r[j - 1] \in kept
    <3>1. CASE j \in 1..L
      <4>1. r[j] = t[j] /\ to[j] = from[j]
        BY <2>1, <2>2, <3>1
      <4>2. j - 1 \in 1..L => r[j - 1] = t[j - 1]
        BY <1>1, <2>1
      <4> QED BY <1>1, <3>1, <4>1, <4>2
    <3>2. CASE j = L + 1
      <4>1. r[j] = e /\ to[j] = n + 1
        BY <1>1, <2>1, <2>2, <3>2
      <4>2. t # <<>> => L \in 1..(L + 1) /\ r[L] = t[L]
        BY <1>0, <1>1, <2>1
      <4>3. j - 1 = L
        BY <1>1, <3>2
      <4>4. CASE e \in kept /\ c = e
        BY <1>0, <4>1, <4>4
      <4>5. CASE e = separator /\ c \in separators /\ t # <<>> /\ t[L] \in kept
        BY <1>0, <4>1, <4>2, <4>3, <4>5
      <4> QED BY <1>2, <4>4, <4>5
    <3> QED BY <3>1, <3>2, <1>1
  <2>6. ASSUME NEW j \in 1..L, {r[j], r[j + 1]} \subseteq kept, NEW i \in to[j]..to[j + 1]
        PROVE  s[i] \notin separators
    <3>1. r[j] = t[j] /\ to[j] = from[j] /\ from[j] \in 1..n
      BY <1>1, <2>1, <2>2
    <3>2. CASE j + 1 \in 1..L
      <4>1. r[j + 1] = t[j + 1] /\ to[j + 1] = from[j + 1] /\ j \in 1..(L - 1)
        BY <1>1, <2>1, <2>2, <3>2
      <4> QED BY <1>1, <2>6, <3>1, <4>1
    <3>3. CASE j = L
      <4>1. r[j + 1] = e /\ to[j + 1] = n + 1
        BY <1>1, <2>1, <2>2, <3>3
      <4>2. e \in kept /\ c = e
        BY <1>2, <2>6, <4>1
      <4>3. t # <<>> /\ t[L] \in kept
        BY <1>0, <1>1, <2>6, <3>1, <3>3
      <4>4. i \in from[L]..n \/ i = n + 1
        BY <2>6, <3>1, <3>3, <4>1
      <4> QED BY <1>1, <4>2, <4>3, <4>4, <1>0
    <3> QED BY <3>2, <3>3, <1>1
  <2>7. ASSUME Last(r) \in kept, NEW i \in to[L + 1]..(n + 1) PROVE s[i] \notin separators
    <3>1. Last(r) = e /\ to[L + 1] = n + 1
      BY <1>1, <2>1, <2>2 DEF Last
    <3>2. e \in kept /\ c = e /\ i = n + 1
      BY <1>2, <2>7, <3>1
    <3> QED BY <3>2, <1>0
  <2>8. \A j \in 1..((L + 1) - 1) : j \in 1..L
    BY <1>1
  <2>9. StandsFor(r, s, n + 1, kept, separators, separator, to)
    BY <2>1, <2>2, <2>3, <2>4, <2>5, <2>6, <2>7, <2>8, <1>0 DEF StandsFor
  <2> QED BY <2>9
<1>3. ASSUME r = t, c \notin kept, c \in separators => t = <<>> \/ t[L] \notin kept
      PROVE  \E to : StandsFor(r, s, n + 1, kept, separators, separator, to)
  <2>1. from \in [1..L -> 1..(n + 1)] /\ \A j \in 1..L : from[j] \in 1..n
    BY <1>1
  <2>2. \A i \in 1..(n + 1) : s[i] \in kept => \E j \in 1..L : from[j] = i
    BY <1>0, <1>1, <1>3
  <2>3. ASSUME t # <<>>, t[L] \in kept, NEW i \in from[L]..(n + 1) PROVE s[i] \notin separators
    <3>1. L \in 1..L /\ from[L] \in 1..n
      BY <1>0, <1>1, <2>1, <2>3
    <3>2. i \in from[L]..n \/ i = n + 1
      BY <3>1
    <3> QED BY <1>0, <1>1, <1>3, <2>3, <3>2
  <2>4. StandsFor(t, s, n + 1, kept, separators, separator, from)
    BY <1>0, <1>1, <2>1, <2>2, <2>3 DEF StandsFor, Last
  <2> QED BY <1>3, <2>4
<1>4. CASE c \in kept
  BY <1>0, <1>2, <1>4
<1>5. CASE c \notin kept /\ c \in separators /\ t # <<>> /\ t[L] # separator
  <2>1. L \in 1..L
    BY <1>0, <1>1, <1>5
  <2>2. t[L] \in kept
    BY <1>1, <1>5, <2>1
  <2> QED BY <1>0, <1>2, <1>5, <2>2
<1>6. CASE c \notin kept /\ ~(c \in separators /\ t # <<>> /\ t[L] # separator)
  BY <1>0, <1>3, <1>6
<1> QED BY <1>4, <1>5, <1>6

\* After all its turns, and before the end is trimmed.
LEMMA LoopStands ==
    ASSUME NEW C, NEW s \in Seq(C), NEW kept, NEW separators, NEW separator,
           kept \cap separators = {}, separator \notin kept
    PROVE  \E from : StandsFor(JoinedTurns(s, kept, separators, separator)[Len(s)], s, Len(s),
                               kept, separators, separator, from)
<1> DEFINE after == JoinedTurns(s, kept, separators, separator)
           Stands(n) == \E from : StandsFor(after[n], s, n, kept, separators, separator, from)
           Done == {n \in Nat : n <= Len(s) => Stands(n)}
<1>1. Len(s) \in Nat
  OBVIOUS
<1>2. after[0] = <<>> /\ \A n \in 1..Len(s) :
        after[n] = Add(after[n - 1], s[n], kept, separators, separator)
  BY <1>1, JoinedTurnsDef
<1> HIDE DEF after
<1>3. 0 \in Done
  <2>1. StandsFor(<<>>, s, 0, kept, separators, separator, <<>>)
    BY DEF StandsFor
  <2> QED BY <1>2, <2>1
<1>4. ASSUME NEW n \in Nat, n \in Done PROVE n + 1 \in Done
  <2>1. CASE n + 1 <= Len(s)
    <3>1. PICK from : StandsFor(after[n], s, n, kept, separators, separator, from)
      BY <1>1, <1>4, <2>1
    <3>2. n + 1 \in 1..Len(s) /\ after[n + 1] = Add(after[n], s[n + 1], kept, separators, separator)
      BY <1>1, <1>2, <2>1
    <3>3. \E to : StandsFor(Add(after[n], s[n + 1], kept, separators, separator), s, n + 1,
                            kept, separators, separator, to)
      BY <3>1, <3>2, TurnStands
    <3> QED BY <3>2, <3>3
  <2>2. CASE ~(n + 1 <= Len(s))
    BY <2>2
  <2> QED BY <2>1, <2>2
<1>5. Len(s) \in Done
  <2> HIDE DEF Done
  <2> QED BY <1>1, <1>3, <1>4, Induction
<1> QED BY <1>1, <1>5 DEF after

\* What is joined of a text is the text with its separators made alike.
LEMMA JoinedNormalises ==
    ASSUME NEW C, NEW s \in Seq(C), NEW kept, NEW separators, NEW separator,
           kept \cap separators = {}, separator \notin kept, kept \cap Spaces = {}
    PROVE  Normalises(Joined(s, kept, separators, separator), s, kept, separators, separator)
<1> DEFINE value == Trimmed(s)
           t == JoinedTurns(value, kept, separators, separator)[Len(value)]
           r == Inner(t, {separator})
           N == Len(value)
           L == Len(t)
<1>1. value \in Seq(C) /\ N \in Nat
  BY InnerDef DEF Trimmed
\* The value starts after the first a characters of s.
<1>2. \E a \in Nat :
        /\ \A i \in 1..N : a + i \in 1..Len(s) /\ value[i] = s[a + i]
        /\ \A i \in 1..Len(s) : s[i] \in kept => i - a \in 1..N
  <2>1. CASE value = <<>> /\ \A i \in 1..Len(s) : s[i] \in Spaces
    <3>1. N = 0 /\ \A i \in 1..Len(s) : s[i] \notin kept
      BY <2>1
    <3> HIDE DEF N
    <3> QED BY <3>1
  <2>2. ASSUME NEW a \in 1..Len(s), NEW b \in 1..Len(s), a <= b, value = SubSeq(s, a, b),
               \A i \in 1..Len(s) : i < a \/ i > b => s[i] \in Spaces
        PROVE  /\ \A i \in 1..N : (a - 1) + i \in 1..Len(s) /\ value[i] = s[(a - 1) + i]
               /\ \A i \in 1..Len(s) : s[i] \in kept => i - (a - 1) \in 1..N
    <3>1. N = b - a + 1 /\ \A i \in 1..N : value[i] = s[a + i - 1]
      BY <2>2
    <3> HIDE DEF N, value
    <3>2. \A i \in 1..Len(s) : s[i] \in kept => a <= i /\ i <= b
      BY <2>2
    <3> QED BY <3>1, <3>2
  <2>3. \/ value = <<>> /\ \A i \in 1..Len(s) : s[i] \in Spaces
        \/ \E a, b \in 1..Len(s) : a <= b /\ value = SubSeq(s, a, b)
              /\ \A i \in 1..Len(s) : i < a \/ i > b => s[i] \in Spaces
    BY InnerDef DEF Trimmed
  <2>4. \A a \in 1..Len(s) : a - 1 \in Nat
    OBVIOUS
  <2> HIDE DEF value, N
  <2> QED BY <2>1, <2>2, <2>3, <2>4
<1>3. PICK a \in Nat :
        /\ \A i \in 1..N : a + i \in 1..Len(s) /\ value[i] = s[a + i]
        /\ \A i \in 1..Len(s) : s[i] \in kept => i - a \in 1..N
  BY <1>2
<1>4. PICK from : StandsFor(t, value, N, kept, separators, separator, from)
  <2> HIDE DEF value
  <2> QED BY <1>1, LoopStands
<1>5. Joined(s, kept, separators, separator) = r
  BY DEF Joined
<1> HIDE DEF value, N, t
<1>6. /\ t \in Seq(kept \cup {separator})
      /\ L \in Nat
      /\ from \in [1..L -> 1..N]
      /\ \A j, k \in 1..L : j < k => from[j] < from[k]
      /\ \A i \in 1..N : value[i] \in kept => \E j \in 1..L : from[j] = i
      /\ \A j \in 1..L :
          \/ t[j] \in kept /\ value[from[j]] = t[j]
          \/ /\ t[j] = separator /\ value[from[j]] \in separators
             /\ j - 1 \in 1..L /\ t[j - 1] \in kept
      /\ \A j \in 1..(L - 1) : {t[j], t[j + 1]} \subseteq kept =>
          \A i \in from[j]..from[j + 1] : value[i] \notin separators
  BY <1>4 DEF StandsFor
\* r is the first d characters of t.
<1>7. \E d \in 0..L :
        /\ r \in Seq(kept \cup {separator}) /\ Len(r) = d
        /\ \A j \in 1..d : r[j] = t[j]
        /\ d # 0 => t[d] # separator
        /\ \A j \in 1..L : j > d => t[j] = separator
  <2>1. CASE r = <<>> /\ \A j \in 1..L : t[j] \in {separator}
    <3>1. r \in Seq(kept \cup {separator}) /\ Len(r) = 0
      BY <2>1
    <3> HIDE DEF r
    <3> QED BY <1>6, <2>1, <3>1
  <2> HIDE DEF r
  <2>2. ASSUME NEW c \in 1..L, NEW d \in 1..L, c <= d, r = SubSeq(t, c, d),
               t[c] \notin {separator}, t[d] \notin {separator},
               \A j \in 1..L : j < c \/ j > d => t[j] \in {separator}
        PROVE  c = 1
    <3>1. L >= 1 /\ t[1] # separator
      BY <1>6, <2>2
    <3> QED BY <2>2, <3>1, <1>6
  <2>3. ASSUME NEW d \in 1..L, r = SubSeq(t, 1, d)
        PROVE  r \in Seq(kept \cup {separator}) /\ Len(r) = d /\ \A j \in 1..d : r[j] = t[j]
    BY <1>6, <2>3
  <2>4. \/ r = <<>> /\ \A j \in 1..L : t[j] \in {separator}
        \/ \E c, d \in 1..L : c <= d /\ r = SubSeq(t, c, d)
              /\ t[c] \notin {separator} /\ t[d] \notin {separator}
              /\ \A j \in 1..L : j < c \/ j > d => t[j] \in {separator}
    <3>1. t \in Seq(kept \cup {separator})
      BY <1>6
    <3> QED BY <3>1, InnerDef DEF r
  <2> HIDE DEF L
  <2>5. \A d \in 1..L : d \in 0..L
    BY <1>6
  <2> QED BY <2>1, <2>2, <2>3, <2>4, <2>5
<1>8. PICK d \in 0..L :
        /\ r \in Seq(kept \cup {separator}) /\ Len(r) = d
        /\ \A j \in 1..d : r[j] = t[j]
        /\ d # 0 => t[d] # separator
        /\ \A j \in 1..L : j > d => t[j] = separator
  BY <1>7
<1> DEFINE to == [j \in 1..d |-> from[j] + a]
<1> HIDE DEF r, L
<1>9. /\ d \in Nat /\ DOMAIN r = 1..d /\ DOMAIN s = 1..Len(s) /\ Len(s) \in Nat
      /\ \A j \in 1..d : j \in 1..L
  BY <1>6, <1>8
<1>10. \A j \in 1..d : from[j] \in 1..N /\ to[j] = from[j] + a /\ to[j] \in 1..Len(s)
                        /\ value[from[j]] = s[to[j]]
  <2>1. \A j \in 1..d : from[j] \in 1..N /\ to[j] = from[j] + a
    BY <1>6, <1>9
  <2> HIDE DEF to
  <2> QED BY <2>1, <1>1, <1>3
<1>11. to \in [1..d -> 1..Len(s)]
  BY <1>10
<1> HIDE DEF to
<1>12. ASSUME NEW j \in 1..d, NEW k \in 1..d, j < k PROVE to[j] < to[k]
  <2>1. from[j] < from[k]
    BY <1>6, <1>9, <1>12
  <2> QED BY <2>1, <1>10, <1>1
<1>13. ASSUME NEW i \in 1..Len(s), s[i] \in kept PROVE \E j \in 1..d : to[j] = i
  <2>1. i - a \in 1..N /\ value[i - a] \in kept
    <3>1. i - a \in 1..N
      BY <1>3, <1>13
    <3>2. value[i - a] = s[a + (i - a)] /\ a + (i - a) = i
      BY <1>3, <3>1
    <3> QED BY <3>1, <3>2, <1>13
  <2>2. PICK j \in 1..L : from[j] = i - a
    BY <1>6, <2>1
  <2>3. t[j] \in kept
    BY <1>6, <2>1, <2>2
  <2>4. j \in 1..d
    BY <1>6, <1>8, <1>9, <2>3
  <2>5. to[j] = i
    BY <1>10, <2>2, <2>4
  <2> QED BY <2>4, <2>5
<1>14. ASSUME NEW j \in 1..d
       PROVE  \/ r[j] \in kept /\ s[to[j]] = r[j]
              \/ /\ r[j] = separator /\ s[to[j]] \in separators
                 /\ {j - 1, j + 1} \subseteq 1..d /\ {r[j - 1], r[j + 1]} \subseteq kept
  <2>1. r[j] = t[j] /\ value[from[j]] = s[to[j]] /\ j \in 1..L
    BY <1>8, <1>9, <1>10
  <2>2. CASE t[j] \in kept /\ value[from[j]] = t[j]
    BY <2>1, <2>2
  <2>3. CASE t[j] = separator /\ value[from[j]] \in separators /\ j - 1 \in 1..L /\ t[j - 1] \in kept
    <3>1. d # 0 /\ j # d
      BY <1>8, <1>9, <2>3
    <3>2. j - 1 \in 1..d /\ j + 1 \in 1..d
      BY <1>9, <2>3, <3>1
    <3>3. t[j + 1] \in kept
      <4>1. j + 1 \in 1..L /\ (j + 1) - 1 = j
        BY <1>9, <3>2
      <4> QED BY <1>6, <2>3, <4>1
    <3>4. r[j - 1] = t[j - 1] /\ r[j + 1] = t[j + 1]
      BY <1>8, <3>2
    <3> QED BY <2>1, <2>3, <3>2, <3>3, <3>4
  <2> QED BY <1>6, <2>1, <2>2, <2>3
<1>15. ASSUME NEW j \in 1..(d - 1), {r[j], r[j + 1]} \subseteq kept, NEW i \in to[j]..to[j + 1]
       PROVE  s[i] \notin separators
  <2>1. j \in 1..d /\ j + 1 \in 1..d /\ j \in 1..(L - 1)
    BY <1>6, <1>9
  <2>2. {t[j], t[j + 1]} \subseteq kept
    BY <1>8, <1>15, <2>1
  <2>3. from[j] \in 1..N /\ from[j + 1] \in 1..N /\ to[j] = from[j] + a /\ to[j + 1] = from[j + 1] + a
    BY <1>10, <2>1
  <2>4. i - a \in from[j]..from[j + 1] /\ i - a \in 1..N /\ a + (i - a) = i
    BY <1>15, <2>3, <1>1
  <2>5. value[i - a] = s[i]
    BY <1>3, <2>4
  <2>6. value[i - a] \notin separators
    BY <1>6, <2>1, <2>2, <2>4
  <2> QED BY <2>5, <2>6
<1>16. Normalises(r, s, kept, separators, separator)
  <2>1. r \in Seq(kept \cup {separator}) /\ Len(r) = d
    BY <1>8
  <2>2. to \in [DOMAIN r -> DOMAIN s]
    BY <1>9, <1>11
  <2>3. \A j, k \in DOMAIN r : j < k => to[j] < to[k]
    BY <1>9, <1>12
  <2>4. \A i \in DOMAIN s : s[i] \in kept => \E j \in DOMAIN r : to[j] = i
    BY <1>9, <1>13
  <2>5. \A j \in DOMAIN r :
          \/ r[j] \in kept /\ s[to[j]] = r[j]
          \/ /\ r[j] = separator /\ s[to[j]] \in separators
             /\ {j - 1, j + 1} \subseteq DOMAIN r /\ {r[j - 1], r[j + 1]} \subseteq kept
    BY <1>9, <1>14
  <2>6. \A j \in 1..(Len(r) - 1) : {r[j], r[j + 1]} \subseteq kept =>
          \A i \in to[j]..to[j + 1] : s[i] \notin separators
    BY <2>1, <1>15
  <2> QED BY <2>1, <2>2, <2>3, <2>4, <2>5, <2>6, Zenon DEF Normalises
<1> QED BY <1>5, <1>16

----------------------------------------------------------------------------
(* The name of a distribution: how it is written, and read back.           *)

IsEscapeLoop(f, name, n) ==
    f = [k \in 0..n |-> IF k = 0 THEN <<>> ELSE Escape(f[k - 1], name[k])]

LEMMA EscapeLoopExists ==
    ASSUME NEW name, NEW n \in Nat
    PROVE  \E f : IsEscapeLoop(f, name, n)
<1> DEFINE Turn(f, k) == IF k = 0 THEN <<>> ELSE Escape(f[k - 1], name[k])
           Done == {m \in Nat : \E f : f = [k \in 0..m |-> Turn(f, k)]}
<1>1. 0 \in Done
  <2>1. [k \in 0..0 |-> <<>>] = [k \in 0..0 |-> Turn([k_1 \in 0..0 |-> <<>>], k)]
    OBVIOUS
  <2> QED BY <2>1
<1>2. ASSUME NEW m \in Nat, m \in Done PROVE m + 1 \in Done
  <2>1. PICK f : f = [k \in 0..m |-> Turn(f, k)]
    BY <1>2
  <2> DEFINE g == [k \in 0..(m + 1) |-> IF k = m + 1 THEN Turn(f, k) ELSE f[k]]
  <2>2. ASSUME NEW k \in 0..(m + 1) PROVE g[k] = Turn(g, k)
    <3>1. CASE k = 0
      BY <2>1, <3>1
    <3>2. CASE k # 0
      <4>1. g[k - 1] = f[k - 1]
        BY <3>2
      <4>2. g[k] = Turn(f, k)
        <5>1. CASE k = m + 1
          BY <5>1
        <5>2. CASE k \in 0..m
          BY <5>2, <2>1
        <5> QED BY <5>1, <5>2
      <4> QED BY <4>1, <4>2
    <3> QED BY <3>1, <3>2
  <2>3. g = [k \in 0..(m + 1) |-> Turn(g, k)]
    BY <2>2
  <2> HIDE DEF g
  <2> QED BY <2>3
<1>3. n \in Done
  <2> HIDE DEF Done
  <2> QED BY <1>1, <1>2, Induction
<1> QED BY <1>3 DEF IsEscapeLoop

LEMMA EscapeTurnsDef ==
    ASSUME NEW name, Len(name) \in Nat
    PROVE  /\ EscapeTurns(name)[0] = <<>>
           /\ \A k \in 1..Len(name) : EscapeTurns(name)[k] = Escape(EscapeTurns(name)[k - 1], name[k])
<1> DEFINE after == EscapeTurns(name)
<1>1. after = CHOOSE f : IsEscapeLoop(f, name, Len(name))
  BY DEF EscapeTurns, IsEscapeLoop
<1>2. IsEscapeLoop(after, name, Len(name))
  BY <1>1, EscapeLoopExists, Zenon
<1> QED BY <1>2 DEF IsEscapeLoop

Unread == [text |-> <<>>, escaping |-> FALSE]

IsUnescapeLoop(f, s, n) ==
    f = [k \in 0..n |-> IF k = 0 THEN Unread ELSE Unescape(f[k - 1], s[k])]

LEMMA UnescapeLoopExists ==
    ASSUME NEW s, NEW n \in Nat
    PROVE  \E f : IsUnescapeLoop(f, s, n)
<1> DEFINE Turn(f, k) == IF k = 0 THEN Unread ELSE Unescape(f[k - 1], s[k])
           Done == {m \in Nat : \E f : f = [k \in 0..m |-> Turn(f, k)]}
<1>1. 0 \in Done
  <2>1. [k \in 0..0 |-> Unread] = [k \in 0..0 |-> Turn([k_1 \in 0..0 |-> Unread], k)]
    OBVIOUS
  <2> QED BY <2>1
<1>2. ASSUME NEW m \in Nat, m \in Done PROVE m + 1 \in Done
  <2>1. PICK f : f = [k \in 0..m |-> Turn(f, k)]
    BY <1>2
  <2> DEFINE g == [k \in 0..(m + 1) |-> IF k = m + 1 THEN Turn(f, k) ELSE f[k]]
  <2>2. ASSUME NEW k \in 0..(m + 1) PROVE g[k] = Turn(g, k)
    <3>1. CASE k = 0
      BY <2>1, <3>1
    <3>2. CASE k # 0
      <4>1. g[k - 1] = f[k - 1]
        BY <3>2
      <4>2. g[k] = Turn(f, k)
        <5>1. CASE k = m + 1
          BY <5>1
        <5>2. CASE k \in 0..m
          BY <5>2, <2>1
        <5> QED BY <5>1, <5>2
      <4> QED BY <4>1, <4>2
    <3> QED BY <3>1, <3>2
  <2>3. g = [k \in 0..(m + 1) |-> Turn(g, k)]
    BY <2>2
  <2> HIDE DEF g
  <2> QED BY <2>3
<1>3. n \in Done
  <2> HIDE DEF Done
  <2> QED BY <1>1, <1>2, Induction
<1> QED BY <1>3 DEF IsUnescapeLoop

LEMMA UnescapeTurnsDef ==
    ASSUME NEW s, Len(s) \in Nat
    PROVE  /\ UnescapeTurns(s)[0] = Unread
           /\ \A k \in 1..Len(s) : UnescapeTurns(s)[k] = Unescape(UnescapeTurns(s)[k - 1], s[k])
<1> DEFINE after == UnescapeTurns(s)
<1>1. after = CHOOSE f : IsUnescapeLoop(f, s, Len(s))
  BY DEF UnescapeTurns, Unread, IsUnescapeLoop
<1>2. IsUnescapeLoop(after, s, Len(s))
  BY <1>1, UnescapeLoopExists, Zenon
<1> QED BY <1>2 DEF IsUnescapeLoop

\* What is written of the first characters is the start of what is written of
\* more of them.
LEMMA EscapedGrows ==
    ASSUME NEW C, NEW name \in Seq(C), "\\" \in C
    PROVE  LET upTo == EscapeTurns(name)
           IN  \A k \in 0..Len(name) :
                /\ upTo[k] \in Seq(C)
                /\ \A n \in 0..k : /\ Len(upTo[n]) <= Len(upTo[k])
                                   /\ \A j \in 1..Len(upTo[n]) : upTo[n][j] = upTo[k][j]
<1> DEFINE upTo == EscapeTurns(name)
           Grows(k) == /\ upTo[k] \in Seq(C)
                       /\ \A n \in 0..k : /\ Len(upTo[n]) <= Len(upTo[k])
                                          /\ \A j \in 1..Len(upTo[n]) : upTo[n][j] = upTo[k][j]
           Done == {k \in Nat : k <= Len(name) => Grows(k)}
<1>1. Len(name) \in Nat
  OBVIOUS
<1>2. upTo[0] = <<>> /\ \A k \in 1..Len(name) : upTo[k] = Escape(upTo[k - 1], name[k])
  BY <1>1, EscapeTurnsDef
<1> HIDE DEF upTo
<1>3. 0 \in Done
  <2>1. upTo[0] \in Seq(C) /\ \A n \in 0..0 : upTo[n] = upTo[0] /\ Len(upTo[n]) = 0
    BY <1>2
  <2>2. Grows(0)
    BY <2>1
  <2> QED BY <2>2
<1>4. ASSUME NEW k \in Nat, k \in Done PROVE k + 1 \in Done
  <2>1. CASE k + 1 <= Len(name)
    <3>0. k + 1 \in 1..Len(name) /\ (k + 1) - 1 = k
      BY <1>1, <2>1
    <3>1. Grows(k) /\ name[k + 1] \in C /\ upTo[k + 1] = Escape(upTo[k], name[k + 1])
      BY <1>1, <1>2, <1>4, <2>1, <3>0
    <3>2. \E e \in Seq(C) : upTo[k + 1] = upTo[k] \o e
      <4>1. <<"\\", name[k + 1]>> \in Seq(C) /\ <<name[k + 1]>> \in Seq(C)
        BY <3>1
      <4> QED BY <3>1, <4>1 DEF Escape
    <3>3. /\ upTo[k + 1] \in Seq(C) /\ Len(upTo[k]) <= Len(upTo[k + 1])
          /\ Len(upTo[k]) \in Nat /\ Len(upTo[k + 1]) \in Nat
          /\ \A j \in 1..Len(upTo[k]) : upTo[k][j] = upTo[k + 1][j]
      BY <3>1, <3>2
    <3>4. ASSUME NEW n \in 0..k
          PROVE  /\ Len(upTo[n]) <= Len(upTo[k + 1])
                 /\ \A j \in 1..Len(upTo[n]) : upTo[n][j] = upTo[k + 1][j]
      <4>1. Len(upTo[n]) \in Int
        BY <1>1, <1>2, <3>1
      <4> QED BY <3>1, <3>3, <4>1
    <3>5. \A n \in 0..(k + 1) : n \in 0..k \/ n = k + 1
      OBVIOUS
    <3> QED BY <3>3, <3>4, <3>5
  <2>2. CASE ~(k + 1 <= Len(name))
    BY <2>2
  <2> QED BY <2>1, <2>2
<1>5. \A k \in 0..Len(name) : k \in Done
  <2> HIDE DEF Done
  <2> QED BY <1>3, <1>4, Induction
<1> QED BY <1>5 DEF upTo

\* What is escaped is read back as it was.
LEMMA ReadsBack ==
    ASSUME NEW C, NEW name \in Seq(C), "\\" \in C
    PROVE  LET w == EscapeTurns(name)[Len(name)]
           IN  /\ w \in Seq(C)
               /\ UnescapeTurns(w)[Len(w)] = [text |-> name, escaping |-> FALSE]
<1> DEFINE upTo == EscapeTurns(name)
           N == Len(name)
           w == upTo[N]
           after == UnescapeTurns(w)
           Read(n) == [text |-> SubSeq(name, 1, n), escaping |-> FALSE]
           Done == {n \in Nat : n <= N => after[Len(upTo[n])] = Read(n)}
<1>1. N \in Nat
  OBVIOUS
<1>2. upTo[0] = <<>> /\ \A k \in 1..N : upTo[k] = Escape(upTo[k - 1], name[k])
  BY <1>1, EscapeTurnsDef
<1>3. \A n \in 0..N : /\ upTo[n] \in Seq(C) /\ Len(upTo[n]) \in Nat /\ Len(upTo[n]) <= Len(w)
                      /\ \A j \in 1..Len(upTo[n]) : upTo[n][j] = w[j]
  <2>1. N \in 0..N
    BY <1>1
  <2>2. \A n \in 0..N : upTo[n] \in Seq(C) /\ Len(upTo[n]) <= Len(w)
                          /\ \A j \in 1..Len(upTo[n]) : upTo[n][j] = w[j]
    BY <2>1, EscapedGrows
  <2> QED BY <2>2
<1>4. w \in Seq(C) /\ Len(w) \in Nat
  BY <1>1, <1>3
<1>5. after[0] = Unread /\ \A k \in 1..Len(w) : after[k] = Unescape(after[k - 1], w[k])
  BY <1>4, UnescapeTurnsDef
<1> HIDE DEF upTo, w, after
<1>6. 0 \in Done
  <2>1. SubSeq(name, 1, 0) = <<>>
    OBVIOUS
  <2> QED BY <1>2, <1>5, <2>1 DEF Unread
<1>7. ASSUME NEW n \in Nat, n \in Done PROVE n + 1 \in Done
  <2> SUFFICES ASSUME n + 1 <= N PROVE after[Len(upTo[n + 1])] = Read(n + 1)
    BY <1>1
  <2> DEFINE c == name[n + 1]
             L == Len(upTo[n])
  <2>1. n + 1 \in 1..N /\ n \in 0..N /\ n + 1 \in 0..N
    BY <1>1
  <2>2. after[L] = Read(n) /\ L \in Nat /\ upTo[n] \in Seq(C) /\ c \in C
    BY <1>3, <1>7, <2>1
  <2>3. upTo[n + 1] = Escape(upTo[n], c)
    <3>1. (n + 1) - 1 = n
      OBVIOUS
    <3> QED BY <1>2, <2>1, <3>1
  <2>4. Read(n + 1) = [text |-> Append(SubSeq(name, 1, n), c), escaping |-> FALSE]
    <3>1. SubSeq(name, 1, n + 1) = Append(SubSeq(name, 1, n), name[n + 1])
      BY <2>1
    <3> QED BY <3>1
  <2>5. /\ Len(upTo[n + 1]) <= Len(w)
        /\ \A j \in 1..Len(upTo[n + 1]) : upTo[n + 1][j] = w[j]
    BY <1>3, <2>1
  <2> HIDE DEF c, L
  <2>6. CASE c \in Quotes \cup {"\\"}
    <3>1. upTo[n + 1] = upTo[n] \o <<"\\", c>>
      BY <2>3, <2>6 DEF Escape
    <3>2. Len(upTo[n + 1]) = L + 2 /\ upTo[n + 1][L + 1] = "\\" /\ upTo[n + 1][L + 2] = c
      BY <2>2, <3>1 DEF L
    <3>3. w[L + 1] = "\\" /\ w[L + 2] = c /\ L + 1 \in 1..Len(w) /\ L + 2 \in 1..Len(w)
      BY <1>4, <2>2, <2>5, <3>2
    <3>4. after[L + 1] = Unescape(after[L], w[L + 1]) /\ after[L + 2] = Unescape(after[L + 1], w[L + 2])
      <4>1. (L + 1) - 1 = L /\ (L + 2) - 1 = L + 1
        BY <2>2
      <4> QED BY <1>5, <3>3, <4>1
    <3>5. after[L + 1] = [text |-> SubSeq(name, 1, n), escaping |-> TRUE]
      BY <2>2, <3>3, <3>4 DEF Unescape
    <3>6. after[L + 2] = [text |-> Append(SubSeq(name, 1, n), c), escaping |-> FALSE]
      <4>1. after[L + 1].escaping /\ after[L + 1].text = SubSeq(name, 1, n)
        BY <3>5
      <4> QED BY <3>3, <3>4, <4>1 DEF Unescape
    <3> QED BY <2>4, <3>2, <3>6
  <2>7. CASE c \notin Quotes \cup {"\\"}
    <3>1. upTo[n + 1] = upTo[n] \o <<c>>
      BY <2>3, <2>7 DEF Escape
    <3>2. Len(upTo[n + 1]) = L + 1 /\ upTo[n + 1][L + 1] = c
      BY <2>2, <3>1 DEF L
    <3>3. w[L + 1] = c /\ L + 1 \in 1..Len(w)
      BY <1>4, <2>2, <2>5, <3>2
    <3>4. after[L + 1] = Unescape(after[L], w[L + 1])
      <4>1. (L + 1) - 1 = L
        BY <2>2
      <4> QED BY <1>5, <3>3, <4>1
    <3>5. after[L + 1] = [text |-> Append(SubSeq(name, 1, n), c), escaping |-> FALSE]
      BY <2>2, <2>7, <3>3, <3>4 DEF Unescape
    <3> QED BY <2>4, <3>2, <3>5
  <2> QED BY <2>6, <2>7
<1>8. N \in Done
  <2> HIDE DEF Done
  <2> QED BY <1>1, <1>6, <1>7, Induction
<1>9. SubSeq(name, 1, N) = name
  OBVIOUS
<1>10. Len(w) = Len(upTo[N])
  BY DEF w
<1>11. after[Len(upTo[N])] = Read(N)
  <2>1. N <= N
    BY <1>1
  <2> HIDE DEF Read
  <2> QED BY <1>8, <2>1
<1>12. after[Len(w)] = [text |-> name, escaping |-> FALSE]
  BY <1>9, <1>10, <1>11, Zenon
<1> QED BY <1>4, <1>12 DEF w, after, upTo

\* A text without backslashes is read as it is.
LEMMA PlainReadsBack ==
    ASSUME NEW C, NEW s \in Seq(C), \A j \in 1..Len(s) : s[j] # "\\"
    PROVE  UnescapeTurns(s)[Len(s)] = [text |-> s, escaping |-> FALSE]
<1> DEFINE after == UnescapeTurns(s)
           Done == {n \in Nat : n <= Len(s) =>
                        after[n] = [text |-> SubSeq(s, 1, n), escaping |-> FALSE]}
<1>1. Len(s) \in Nat
  OBVIOUS
<1>2. after[0] = Unread /\ \A k \in 1..Len(s) : after[k] = Unescape(after[k - 1], s[k])
  BY <1>1, UnescapeTurnsDef
<1> HIDE DEF after
<1>3. 0 \in Done
  <2>1. SubSeq(s, 1, 0) = <<>>
    OBVIOUS
  <2> QED BY <1>2, <2>1 DEF Unread
<1>4. ASSUME NEW n \in Nat, n \in Done PROVE n + 1 \in Done
  <2> SUFFICES ASSUME n + 1 <= Len(s)
               PROVE  after[n + 1] = [text |-> SubSeq(s, 1, n + 1), escaping |-> FALSE]
    BY <1>1
  <2>1. after[n] = [text |-> SubSeq(s, 1, n), escaping |-> FALSE]
    BY <1>1, <1>4
  <2>2. n + 1 \in 1..Len(s) /\ (n + 1) - 1 = n /\ s[n + 1] # "\\"
    BY <1>1
  <2>3. after[n + 1] = Unescape(after[n], s[n + 1])
    BY <1>2, <2>2
  <2>4. SubSeq(s, 1, n + 1) = Append(SubSeq(s, 1, n), s[n + 1])
    BY <2>2
  <2>5. after[n + 1] = [text |-> Append(SubSeq(s, 1, n), s[n + 1]), escaping |-> FALSE]
    BY <2>1, <2>2, <2>3 DEF Unescape
  <2> QED BY <2>4, <2>5
<1>5. Len(s) \in Done
  <2> HIDE DEF Done
  <2> QED BY <1>1, <1>3, <1>4, Induction
<1>6. SubSeq(s, 1, Len(s)) = s
  OBVIOUS
<1>7. after[Len(s)] = [text |-> SubSeq(s, 1, Len(s)), escaping |-> FALSE]
  BY <1>1, <1>5
<1>8. after[Len(s)] = [text |-> s, escaping |-> FALSE]
  BY <1>6, <1>7, Zenon
<1> QED BY <1>8 DEF after

LEMMA SequenceIsText == ASSUME NEW C, NEW s \in Seq(C) PROVE IsText(s)
BY DEF IsText, Range

\* To trim again changes nothing.
LEMMA TrimmedTwice ==
    ASSUME NEW C, NEW s \in Seq(C)
    PROVE  Trimmed(s) \in Seq(C) /\ Trimmed(Trimmed(s)) = Trimmed(s)
<1> DEFINE t == Trimmed(s)
<1>1. t \in Seq(C)
  BY InnerDef DEF Trimmed
<1>2. CASE t = <<>>
  <2>1. t \in Seq(C) /\ \A i \in 1..Len(t) : t[i] \in Spaces
    BY <1>1, <1>2
  <2>2. Trimmed(t) = <<>>
    <3> HIDE DEF t
    <3>1. ~ \E a, b \in 1..Len(t) : a <= b
      BY <1>2
    <3> QED BY <2>1, <3>1, InnerDef DEF Trimmed
  <2> QED BY <1>1, <1>2, <2>2
<1>3. CASE t # <<>>
  <2>1. PICK a, b \in 1..Len(s) :
          a <= b /\ t = SubSeq(s, a, b) /\ s[a] \notin Spaces /\ s[b] \notin Spaces
    BY <1>3, InnerDef DEF Trimmed
  <2>2. /\ Len(t) = b - a + 1 /\ Len(t) \in Nat
        /\ 1 \in 1..Len(t) /\ Len(t) \in 1..Len(t) /\ t[1] = s[a] /\ t[Len(t)] = s[b]
    BY <2>1
  <2> HIDE DEF t
  <2>3. \A i \in 1..Len(t) : i < 1 \/ i > Len(t) => t[i] \in Spaces
    BY <2>2
  <2>4. Inner(t, Spaces) = SubSeq(t, 1, Len(t))
    BY <1>1, <2>1, <2>2, <2>3, InnerIs
  <2>5. SubSeq(t, 1, Len(t)) = t
    BY <1>1
  <2> QED BY <1>1, <2>4, <2>5 DEF Trimmed, t
<1> QED BY <1>2, <1>3

\* Of a line that os-release may have, the name is read.
LEMMA NameRead ==
    ASSUME NEW line, NEW C, line.name \in Seq(C), Quotes \cup {"\\"} \subseteq C,
           line.quote \in Quotes \/ Range(line.name) \cap (Quotes \cup {"\\"}) = {}
    PROVE  UnquoteOsReleaseValue(Written(line)) = Trimmed(line.name)
<1> DEFINE name == line.name
           q == line.quote
<1>0. name \in Seq(C) /\ (q \in Quotes \/ Range(name) \cap (Quotes \cup {"\\"}) = {})
  OBVIOUS
<1>1. CASE q \in Quotes
  <2> DEFINE w == EscapeTurns(name)[Len(name)]
             z == <<q>> \o w \o <<q>>
  <2>1. w \in Seq(C) /\ UnescapeTurns(w)[Len(w)] = [text |-> name, escaping |-> FALSE]
    BY ReadsBack
  <2>2. Written(line) = z
    BY <1>1 DEF Written
  <2>3. q \in C /\ q \notin Spaces
    BY <1>1, CharacterAssumption
  <2> HIDE DEF w, name, q
  <2>4. /\ z \in Seq(C) /\ Len(z) = Len(w) + 2 /\ Len(z) \in Nat /\ Len(z) >= 2
        /\ z[1] = q /\ z[Len(z)] = q
        /\ SubSeq(z, 2, Len(z) - 1) = w /\ SubSeq(z, 1, Len(z)) = z
    BY <2>1, <2>3
  <2> HIDE DEF z
  <2>5. Trimmed(z) = z
    <3>1. 1 \in 1..Len(z) /\ Len(z) \in 1..Len(z) /\ \A i \in 1..Len(z) : ~(i < 1 \/ i > Len(z))
      BY <2>4
    <3>2. Inner(z, Spaces) = SubSeq(z, 1, Len(z))
      BY <2>3, <2>4, <3>1, InnerIs
    <3> QED BY <2>4, <3>2 DEF Trimmed
  <2>6. Unquoted(Trimmed(z)) = w
    BY <1>1, <2>4, <2>5 DEF Unquoted, Last
  <2>7. UnquoteOsReleaseValue(z) = Trimmed(name)
    BY <2>1, <2>6 DEF UnquoteOsReleaseValue
  <2> QED BY <2>2, <2>7 DEF name
<1>2. CASE q \notin Quotes
  <2> DEFINE v == Trimmed(name)
  <2>1. Written(line) = name
    BY <1>2 DEF Written
  <2>2. \A j \in 1..Len(name) : name[j] \notin Quotes \cup {"\\"}
    BY <1>0, <1>2 DEF Range
  <2> HIDE DEF name, q
  <2>3. v \in Seq(C) /\ Trimmed(v) = v
    BY <1>0, TrimmedTwice
  <2>4. \A j \in 1..Len(v) : v[j] \notin Quotes \cup {"\\"}
    <3>1. CASE v = <<>>
      BY <3>1
    <3>2. CASE v # <<>>
      <4>1. PICK a, b \in 1..Len(name) : a <= b /\ v = SubSeq(name, a, b)
        BY <1>0, <3>2, InnerDef DEF Trimmed
      <4>2. \A j \in 1..Len(v) : a + j - 1 \in 1..Len(name) /\ v[j] = name[a + j - 1]
        BY <1>0, <4>1
      <4> HIDE DEF v
      <4> QED BY <2>2, <4>2
    <3> QED BY <3>1, <3>2
  <2> HIDE DEF v
  <2>5. Unquoted(v) = v
    <3>1. Len(v) >= 2 => v[1] \notin Quotes
      BY <2>3, <2>4
    <3> QED BY <3>1 DEF Unquoted
  <2>6. UnescapeTurns(v)[Len(v)] = [text |-> v, escaping |-> FALSE]
    BY <2>3, <2>4, PlainReadsBack
  <2>7. UnquoteOsReleaseValue(name) = v
    BY <2>3, <2>5, <2>6 DEF UnquoteOsReleaseValue, v
  <2> QED BY <2>1, <2>7 DEF name, v
<1> QED BY <1>1, <1>2

\* The name of the distribution that a machine has.
NamedDistro(m) ==
    LET names == NameLines(m.osRelease)
    IN  IF names = {} THEN <<>> ELSE Trimmed(m.osRelease[Min(names)].name)

\* The first NAME of os-release is read as the name that it names.
LEMMA DistroRead ==
    ASSUME NEW m \in Machines
    PROVE  /\ LinuxDistroFromOsRelease(m.osRelease) = NamedDistro(m)
           /\ IsText(NamedDistro(m)) /\ Trimmed(NamedDistro(m)) = NamedDistro(m)
<1> DEFINE names == NameLines(m.osRelease)
           line == m.osRelease[Min(names)]
<1>1. CASE names = {}
  <2>1. <<>> \in Seq({}) /\ LinuxDistroFromOsRelease(m.osRelease) = <<>> /\ NamedDistro(m) = <<>>
    BY <1>1 DEF LinuxDistroFromOsRelease, NamedDistro
  <2>2. Trimmed(<<>>) = <<>>
    <3>1. \A i \in 1..Len(<<>>) : FALSE
      OBVIOUS
    <3> QED BY <2>1, <3>1, InnerDef DEF Trimmed
  <2> QED BY <2>1, <2>2, SequenceIsText
<1>2. CASE names # {}
  <2>1. m.osRelease \in Seq(Range(m.osRelease))
    BY MachineAssumption
  <2>2. names \in SUBSET Nat /\ \A n \in names : n \in DOMAIN m.osRelease
    BY <2>1 DEF NameLines
  <2>3. Min(names) \in DOMAIN m.osRelease
    <3> HIDE DEF names
    <3> QED BY <1>2, <2>2, MinDef
  <2>4. IsText(line.name) /\ (line.quote \in Quotes \/ Range(line.name) \cap (Quotes \cup {"\\"}) = {})
    <3> HIDE DEF names
    <3> QED BY <2>3, MachineAssumption
  <2> DEFINE C == Range(line.name) \cup Quotes \cup {"\\"}
  <2>5. line.name \in Seq(C) /\ Quotes \cup {"\\"} \subseteq C
    BY <2>4 DEF IsText
  <2>6. LinuxDistroFromOsRelease(m.osRelease) = UnquoteOsReleaseValue(Written(line))
    BY <1>2 DEF LinuxDistroFromOsRelease
  <2>7. NamedDistro(m) = Trimmed(line.name)
    BY <1>2 DEF NamedDistro
  <2> HIDE DEF line, C
  <2>8. UnquoteOsReleaseValue(Written(line)) = Trimmed(line.name)
    BY <2>4, <2>5, NameRead
  <2>9. Trimmed(line.name) \in Seq(C) /\ Trimmed(Trimmed(line.name)) = Trimmed(line.name)
    BY <2>5, TrimmedTwice
  <2>10. IsText(Trimmed(line.name))
    BY <2>9, SequenceIsText
  <2> QED BY <2>6, <2>7, <2>8, <2>9, <2>10
<1> QED BY <1>1, <1>2

----------------------------------------------------------------------------
(* The tokens and the versions.                                            *)

\* tokenPart() of any text.
LEMMA TokenPartNormalises ==
    ASSUME NEW s, IsText(s)
    PROVE  Normalises(TokenPart(s), s, AlphaNumeric \cup Punctuation, Spaces \cup {"-"}, "-")
<1> DEFINE kept == AlphaNumeric \cup Punctuation
           separators == Spaces \cup {"-"}
<1>1. kept \cap separators = {} /\ "-" \notin kept /\ kept \cap Spaces = {}
  BY CharacterAssumption DEF Punctuation
<1>2. s \in Seq(Range(s))
  BY DEF IsText
<1> HIDE DEF kept, separators
<1>3. Normalises(Joined(s, kept, separators, "-"), s, kept, separators, "-")
  BY <1>1, <1>2, JoinedNormalises
<1> QED BY <1>3 DEF TokenPart, kept, separators

\* osVersionPart() of any text.
LEMMA OsVersionNormalises ==
    ASSUME NEW s, IsText(s), NEW separator \in {".", "_"}
    PROVE  Normalises(OsVersionPart(s, separator), s, Digits, {".", "_"}, separator)
<1>1. Digits \cap {".", "_"} = {} /\ separator \notin Digits /\ Digits \cap Spaces = {}
  BY CharacterAssumption DEF Punctuation
<1>2. s \in Seq(Range(s))
  BY DEF IsText
<1>3. Normalises(Joined(s, Digits, {".", "_"}, separator), s, Digits, {".", "_"}, separator)
  BY <1>1, <1>2, JoinedNormalises
<1> QED BY <1>3 DEF OsVersionPart

\* What a text with its separators made alike looks like: none of them is at an
\* end or beside another; it is empty when nothing of the text is kept.
LEMMA Normal ==
    ASSUME NEW t, NEW s, NEW kept, NEW separators, NEW separator,
           Normalises(t, s, kept, separators, separator)
    PROVE  /\ t \in Seq(kept \cup {separator})
           /\ \A j \in 1..Len(t) : t[j] \notin kept =>
                j > 1 /\ j < Len(t) /\ t[j - 1] \in kept /\ t[j + 1] \in kept
           /\ t = <<>> => \A i \in DOMAIN s : s[i] \notin kept
<1>1. t \in Seq(kept \cup {separator}) /\ DOMAIN t = 1..Len(t) /\ Len(t) \in Nat
  BY DEF Normalises
<1>2. PICK from \in [DOMAIN t -> DOMAIN s] :
        /\ \A i \in DOMAIN s : s[i] \in kept => \E j \in DOMAIN t : from[j] = i
        /\ \A j \in DOMAIN t :
            \/ t[j] \in kept /\ s[from[j]] = t[j]
            \/ /\ t[j] = separator /\ s[from[j]] \in separators
               /\ {j - 1, j + 1} \subseteq DOMAIN t /\ {t[j - 1], t[j + 1]} \subseteq kept
  BY DEF Normalises
<1>3. ASSUME NEW j \in 1..Len(t), t[j] \notin kept
      PROVE  j > 1 /\ j < Len(t) /\ t[j - 1] \in kept /\ t[j + 1] \in kept
  <2>1. t[j] = separator /\ {j - 1, j + 1} \subseteq DOMAIN t /\ {t[j - 1], t[j + 1]} \subseteq kept
    BY <1>1, <1>2, <1>3
  <2> QED BY <1>1, <2>1
<1>4. ASSUME t = <<>>, NEW i \in DOMAIN s, s[i] \in kept PROVE FALSE
  <2>1. \E j \in DOMAIN t : from[j] = i
    BY <1>2, <1>4
  <2> QED BY <1>1, <1>4, <2>1
<1> QED BY <1>1, <1>3, <1>4

----------------------------------------------------------------------------
(* The products: texts in which no blank, slash or hyphen is out of place. *)

WordChars == AlphaNumeric \cup Punctuation \cup {"-", "/", " ", "Qt"}

Marks == {" ", "/", "-"}

Loose(t, j) == j \notin 1..Len(t) \/ t[j] \in Marks

Tight(t) ==
    /\ t \in Seq(WordChars) /\ t # <<>>
    /\ \A j \in 0..Len(t) : ~(Loose(t, j) /\ Loose(t, j + 1))

\* Two tight texts with one character between them are one.
LEMMA TightParts ==
    ASSUME NEW a, NEW b, NEW c \in WordChars, Tight(a), Tight(b)
    PROVE  Tight(a \o <<c>> \o b)
<1> DEFINE t == a \o <<c>> \o b
           A == Len(a)
           B == Len(b)
<1>1. /\ a \in Seq(WordChars) /\ b \in Seq(WordChars) /\ A \in Nat /\ B \in Nat /\ A # 0 /\ B # 0
      /\ DOMAIN a = 1..A /\ DOMAIN b = 1..B
  BY DEF Tight
<1>2. /\ t \in Seq(WordChars) /\ Len(t) = A + 1 + B /\ DOMAIN t = 1..(A + 1 + B)
      /\ \A j \in 1..A : t[j] = a[j]
      /\ \A j \in 1..B : t[A + 1 + j] = b[j]
  BY <1>1
<1>3. /\ \A j \in 0..A : ~(Loose(a, j) /\ Loose(a, j + 1))
      /\ \A j \in 0..B : ~(Loose(b, j) /\ Loose(b, j + 1))
  BY DEF Tight
<1> HIDE DEF t
<1>4. ASSUME NEW j \in 0..A PROVE Loose(t, j) => Loose(a, j)
  BY <1>1, <1>2 DEF Loose
<1>5. ASSUME NEW j \in 1..(B + 1) PROVE Loose(t, A + 1 + j) => Loose(b, j)
  BY <1>1, <1>2 DEF Loose
<1>6. Loose(a, A + 1) /\ Loose(b, 0)
  BY <1>1 DEF Loose
<1>7. ~Loose(a, A) /\ ~Loose(b, 1)
  <2>1. A \in 0..A /\ 0 \in 0..B
    BY <1>1
  <2>2. Loose(b, 0 + 1) => Loose(b, 1)
    OBVIOUS
  <2>3. ~(Loose(b, 0) /\ Loose(b, 0 + 1))
    BY <1>3, <2>1
  <2> QED BY <1>3, <1>6, <2>1, <2>3
<1>8. ASSUME NEW j \in 0..Len(t), Loose(t, j), Loose(t, j + 1) PROVE FALSE
  <2>1. CASE j + 1 \in 0..A
    BY <1>1, <1>3, <1>4, <1>8, <2>1
  <2>2. CASE j = A
    BY <1>1, <1>4, <1>7, <1>8, <2>2
  <2>3. CASE j = A + 1
    <3>1. 1 \in 1..(B + 1) /\ A + 1 + 1 = j + 1
      BY <1>1, <2>3
    <3> QED BY <1>5, <1>7, <1>8, <3>1
  <2>4. CASE j > A + 1
    <3>1. j - A - 1 \in 1..(B + 1) /\ j - A \in 1..(B + 1) /\ j - A - 1 \in 0..B
          /\ A + 1 + (j - A - 1) = j /\ A + 1 + (j - A) = j + 1 /\ (j - A - 1) + 1 = j - A
      BY <1>1, <1>2, <2>4
    <3> QED BY <1>3, <1>5, <1>8, <3>1
  <2>5. j + 1 \in 0..A \/ j = A \/ j = A + 1 \/ j > A + 1
    <3>1. j \in Nat
      BY <1>1, <1>2
    <3>2. A \in Nat
      BY <1>1
    <3> HIDE DEF A
    <3> QED BY <3>1, <3>2
  <2> QED BY <2>1, <2>2, <2>3, <2>4, <2>5, Zenon
<1>9. t # <<>>
  BY <1>1, <1>2
<1>10. Tight(t)
  BY <1>2, <1>8, <1>9 DEF Tight
<1> QED BY <1>10 DEF t

\* A token is tight, if it is not empty.
LEMMA TokenTight ==
    ASSUME NEW s, IsText(s), TokenPart(s) # <<>>
    PROVE  Tight(TokenPart(s))
<1> DEFINE t == TokenPart(s)
           kept == AlphaNumeric \cup Punctuation
<1>1. /\ t \in Seq(kept \cup {"-"})
      /\ \A j \in 1..Len(t) : t[j] \notin kept => j < Len(t) /\ j > 1 /\ t[j + 1] \in kept
  <2> DEFINE separator == "-"
             separators == Spaces \cup {"-"}
  <2>1. Normalises(t, s, kept, separators, separator)
    BY TokenPartNormalises
  <2> HIDE DEF t, kept, separator, separators
  <2>2. /\ t \in Seq(kept \cup {separator})
        /\ \A j \in 1..Len(t) : t[j] \notin kept => j < Len(t) /\ j > 1 /\ t[j + 1] \in kept
    BY <2>1, Normal
  <2> QED BY <2>2 DEF separator
<1>2. kept \cap Marks = {}
  BY CharacterAssumption DEF Punctuation, Marks
<1>3. t \in Seq(WordChars) /\ t # <<>>
  <2>1. kept \cup {"-"} \subseteq WordChars /\ t # <<>>
    BY DEF WordChars
  <2> HIDE DEF t, kept
  <2> QED BY <1>1, <2>1
<1>4. DOMAIN t = 1..Len(t) /\ Len(t) \in Nat
  BY <1>1
<1> HIDE DEF t, kept
<1>5. ASSUME NEW j \in 0..Len(t), Loose(t, j), Loose(t, j + 1) PROVE FALSE
  <2>1. CASE j \in 1..Len(t)
    <3>1. t[j] \notin kept
      BY <1>2, <1>4, <1>5, <2>1 DEF Loose
    <3>2. j + 1 \in 1..Len(t) /\ t[j + 1] \in kept
      BY <1>1, <1>4, <2>1, <3>1
    <3> QED BY <1>2, <1>4, <1>5, <3>2 DEF Loose
  <2>2. CASE j = 0
    <3>1. 1 \in 1..Len(t)
      BY <1>3, <1>4
    <3>2. t[1] \in kept
      BY <1>1, <3>1
    <3>3. Loose(t, 1)
      <4>1. j + 1 = 1
        BY <2>2
      <4> QED BY <1>5, <4>1
    <3> QED BY <1>2, <3>1, <3>2, <3>3, <1>4 DEF Loose
  <2> QED BY <1>4, <2>1, <2>2
<1> QED BY <1>3, <1>5 DEF Tight, t

----------------------------------------------------------------------------
(* The version of Windows: at most two numbers of those given.             *)

Places(v, c, n) == {j \in 1..n : v[j] = c}

\* One character more, one more place at most.
LEMMA PlacesCount ==
    ASSUME NEW v, NEW c, NEW n \in Nat
    PROVE  /\ IsFiniteSet(Places(v, c, n)) /\ Cardinality(Places(v, c, n)) \in Nat
           /\ v[n + 1] = c =>
                Cardinality(Places(v, c, n + 1)) = Cardinality(Places(v, c, n)) + 1
           /\ v[n + 1] # c => Places(v, c, n + 1) = Places(v, c, n)
<1>1. IsFiniteSet(Places(v, c, n)) /\ Cardinality(Places(v, c, n)) \in Nat
  <2>1. IsFiniteSet(1..n)
    BY FS_Interval
  <2>2. Places(v, c, n) \subseteq 1..n
    BY DEF Places
  <2>3. IsFiniteSet(Places(v, c, n))
    BY <2>1, <2>2, FS_Subset
  <2> QED BY <2>3, FS_CardinalityType
<1>2. ASSUME v[n + 1] = c
      PROVE  Cardinality(Places(v, c, n + 1)) = Cardinality(Places(v, c, n)) + 1
  <2>1. Places(v, c, n + 1) = Places(v, c, n) \cup {n + 1}
    BY <1>2 DEF Places
  <2>2. n + 1 \notin Places(v, c, n)
    BY DEF Places
  <2> QED BY <1>1, <2>1, <2>2, FS_AddElement
<1>3. ASSUME v[n + 1] # c PROVE Places(v, c, n + 1) = Places(v, c, n)
  BY <1>3 DEF Places
<1> QED BY <1>1, <1>2, <1>3

LEMMA NoPlaces ==
    ASSUME NEW v, NEW c
    PROVE  Places(v, c, 0) = {} /\ Cardinality(Places(v, c, 0)) = 0
BY FS_EmptySet DEF Places

\* Where there are never two there is at most one.
LEMMA AtMostOnePlace ==
    ASSUME NEW v, NEW c, NEW N \in Nat, \A n \in 1..N : Cardinality(Places(v, c, n)) # 2
    PROVE  Cardinality(Places(v, c, N)) <= 1
<1> DEFINE Done == {n \in Nat : n <= N => Cardinality(Places(v, c, n)) <= 1}
<1>1. 0 \in Done
  BY NoPlaces
<1>2. ASSUME NEW n \in Nat, n \in Done PROVE n + 1 \in Done
  <2> SUFFICES ASSUME n + 1 <= N PROVE Cardinality(Places(v, c, n + 1)) <= 1
    OBVIOUS
  <2>1. Cardinality(Places(v, c, n)) <= 1 /\ Cardinality(Places(v, c, n)) \in Nat
    BY <1>2, PlacesCount
  <2>2. Cardinality(Places(v, c, n + 1)) # 2
    BY n + 1 \in 1..N
  <2>3. \/ Cardinality(Places(v, c, n + 1)) = Cardinality(Places(v, c, n)) + 1
        \/ Cardinality(Places(v, c, n + 1)) = Cardinality(Places(v, c, n))
    BY PlacesCount
  <2> QED BY <2>1, <2>2, <2>3
<1>3. N \in Done
  <2> HIDE DEF Done
  <2> QED BY <1>1, <1>2, Induction
<1> QED BY <1>3

\* windowsNtVersion() of any text: the first two numbers of its version at most.
LEMMA WindowsVersion ==
    ASSUME NEW s, IsText(s)
    PROVE  LET v == OsVersionPart(s, ".")
               w == WindowsNtVersion(s)
           IN  /\ w \in Seq(Digits \cup {"."})
               /\ v = <<>> => w = <<>> /\ \A j \in DOMAIN s : s[j] \notin Digits
               /\ v # <<>> => /\ w # <<>> /\ {w[1], Last(w)} \subseteq Digits
                              /\ Cardinality({j \in DOMAIN w : w[j] \notin Digits}) <= 1
                              /\ IsPrefix(w, v)
<1> DEFINE v == OsVersionPart(s, ".")
           w == WindowsNtVersion(s)
           dot == "."
           N == Len(v)
           separators == {".", "_"}
           Count(n) == Cardinality(Places(v, dot, n))
           ends == {n \in DOMAIN v : Count(n) = 2}
<1>1. Normalises(v, s, Digits, separators, dot)
  BY OsVersionNormalises
<1>2. dot \notin Digits
  BY CharacterAssumption DEF Punctuation
<1>3. w = IF ends = {} THEN v ELSE SubSeq(v, 1, Min(ends) - 1)
  BY DEF WindowsNtVersion, Places
<1> HIDE DEF v, w, dot, separators
<1>4. /\ v \in Seq(Digits \cup {dot}) /\ N \in Nat /\ DOMAIN v = 1..N
      /\ \A j \in 1..N :
          \/ v[j] \in Digits
          \/ v[j] = dot /\ j > 1 /\ j < N /\ v[j - 1] \in Digits /\ v[j + 1] \in Digits
      /\ v = <<>> => \A j \in DOMAIN s : s[j] \notin Digits
  <2>1. /\ v \in Seq(Digits \cup {dot})
        /\ v = <<>> => \A j \in DOMAIN s : s[j] \notin Digits
    BY <1>1, Normal
  <2>2. \A j \in 1..N : v[j] \notin Digits =>
          j > 1 /\ j < N /\ v[j - 1] \in Digits /\ v[j + 1] \in Digits
    BY <1>1, Normal
  <2>3. \A j \in 1..N : v[j] \in Digits \/ v[j] = dot
    BY <2>1
  <2> QED BY <2>1, <2>2, <2>3
<1>5. CASE v = <<>>
  <2>1. ends = {}
    BY <1>4, <1>5
  <2> QED BY <1>3, <1>4, <1>5, <2>1 DEF v, w, dot
\* It suffices that w is the first e characters of v, ends well and has no two dots.
<1>6. ASSUME v # <<>>, NEW e \in 1..N, w = SubSeq(v, 1, e), v[e] \in Digits, Count(e) <= 1
      PROVE  /\ w \in Seq(Digits \cup {dot})
             /\ w # <<>> /\ {w[1], Last(w)} \subseteq Digits
             /\ Cardinality({j \in DOMAIN w : w[j] \notin Digits}) <= 1
             /\ IsPrefix(w, v)
  <2>1. /\ w \in Seq(Digits \cup {dot}) /\ Len(w) = e /\ DOMAIN w = 1..e
        /\ \A j \in 1..e : w[j] = v[j] /\ j \in 1..N
    BY <1>4, <1>6
  <2>2. v[1] \in Digits
    BY <1>4, <1>6
  <2>3. w # <<>> /\ {w[1], Last(w)} \subseteq Digits
    BY <1>6, <2>1, <2>2 DEF Last
  <2>4. {j \in DOMAIN w : w[j] \notin Digits} = Places(v, dot, e)
    BY <1>2, <1>4, <2>1 DEF Places
  <2>5. IsPrefix(w, v)
    <3>1. SubSeq(w, 1, Len(w)) = w
      BY <2>1
    <3> QED BY <1>4, <1>6, <2>1, <3>1 DEF IsPrefix
  <2> QED BY <1>6, <2>1, <2>3, <2>4, <2>5
<1>7. CASE v # <<>> /\ ends = {}
  <2>1. N \in 1..N
    BY <1>4, <1>7
  <2>2. w = SubSeq(v, 1, N)
    BY <1>3, <1>4, <1>7
  <2>3. v[N] \in Digits
    BY <1>4, <2>1
  <2>4. Count(N) <= 1
    <3>1. \A n \in 1..N : Count(n) # 2
      BY <1>4, <1>7
    <3> QED BY <1>4, <3>1, AtMostOnePlace
  <2>5. w \in Seq(Digits \cup {dot}) /\ w # <<>> /\ {w[1], Last(w)} \subseteq Digits
        /\ Cardinality({j \in DOMAIN w : w[j] \notin Digits}) <= 1 /\ IsPrefix(w, v)
    <3> HIDE DEF ends, Count
    <3> QED BY <1>6, <1>7, <2>1, <2>2, <2>3, <2>4
  <2> QED BY <1>7, <2>5 DEF v, w, dot
<1>8. CASE v # <<>> /\ ends # {}
  <2> DEFINE m == Min(ends)
             e == m - 1
  <2>1. m \in ends /\ \A n \in ends : m <= n
    <3>1. ends \in SUBSET Nat
      BY <1>4
    <3> HIDE DEF ends
    <3> QED BY <1>8, <3>1, MinDef
  <2>2. m \in 1..N /\ Count(m) = 2
    BY <1>4, <2>1
  <2>3. ASSUME NEW n \in 1..N, n < m PROVE Count(n) # 2
    <3>1. n \in ends => m <= n
      BY <2>1
    <3>2. Count(n) = 2 => n \in ends
      BY <1>4
    <3>3. m \in Int
      BY <2>2
    <3> HIDE DEF ends, m, Count
    <3> QED BY <2>3, <3>1, <3>2, <3>3
  <2>4. w = SubSeq(v, 1, e)
    BY <1>3, <1>8
  <2> HIDE DEF m, ends
  <2>5. e \in Nat /\ e + 1 = m
    BY <2>2
  <2> HIDE DEF e
  <2>6. Count(e) # 2
    BY <2>2, <2>3, <2>5, <1>4, NoPlaces
  <2>7. v[m] = dot /\ Count(e) = 1
    BY <2>2, <2>5, <2>6, PlacesCount
  <2>8. e \in 1..N /\ v[e] \in Digits
    <3>1. m > 1 /\ v[m - 1] \in Digits
      BY <1>2, <1>4, <2>2, <2>7
    <3>2. m - 1 = e
      BY <2>2, <2>5
    <3> QED BY <1>4, <2>2, <3>1, <3>2
  <2>9. w \in Seq(Digits \cup {dot}) /\ w # <<>> /\ {w[1], Last(w)} \subseteq Digits
        /\ Cardinality({j \in DOMAIN w : w[j] \notin Digits}) <= 1 /\ IsPrefix(w, v)
    <3>1. Count(e) <= 1
      BY <2>7
    <3> HIDE DEF Count
    <3> QED BY <1>6, <1>8, <2>4, <2>8, <3>1
  <2> QED BY <1>8, <2>9 DEF v, w, dot
<1> QED BY <1>5, <1>7, <1>8

----------------------------------------------------------------------------
(* The whole text.                                                         *)

IsInfo(i) ==
    /\ i.operatingSystem \in OperatingSystems
    /\ IsText(i.productName) /\ IsText(i.productVersion) /\ IsText(i.qtVersion)
    /\ IsText(i.operatingSystemVersion) /\ IsText(i.linuxDistro)

LEMMA TextJoined ==
    ASSUME NEW a, NEW b, IsText(a), IsText(b)
    PROVE  IsText(a \o b)
<1> DEFINE C == Range(a) \cup Range(b)
<1>1. a \in Seq(C) /\ b \in Seq(C)
  BY DEF IsText
<1> HIDE DEF C
<1>2. a \o b \in Seq(C)
  BY <1>1
<1> QED BY <1>2, SequenceIsText

LEMMA TextAssociative ==
    ASSUME NEW a, NEW b, NEW c, IsText(a), IsText(b), IsText(c)
    PROVE  (a \o b) \o c = a \o (b \o c)
<1> DEFINE C == Range(a) \cup Range(b) \cup Range(c)
<1>1. a \in Seq(C) /\ b \in Seq(C) /\ c \in Seq(C)
  BY DEF IsText
<1> HIDE DEF C
<1> QED BY <1>1

\* Six texts in a row, however they came together.
Regrouped(a, b, c, d, e, f) ==
    (a \o (b \o c) \o d) \o e \o f = a \o b \o (c \o (d \o (e \o f)))

LEMMA SeqRegrouped ==
    ASSUME NEW C, NEW a \in Seq(C), NEW b \in Seq(C), NEW c \in Seq(C), NEW d \in Seq(C),
           NEW e \in Seq(C), NEW f \in Seq(C)
    PROVE  Regrouped(a, b, c, d, e, f)
<1> DEFINE p == a \o b
           u == c \o d
           v == e \o f
           q == p \o u
<1>1. p \in Seq(C) /\ u \in Seq(C) /\ v \in Seq(C)
  OBVIOUS
<1>2. a \o (b \o c) = p \o c
  OBVIOUS
<1>3. u \o v = c \o (d \o v)
  <2> HIDE DEF v
  <2> QED BY <1>1
<1> HIDE DEF p
<1>4. (p \o c) \o d = p \o u
  BY <1>1
<1> HIDE DEF u
<1>5. q \in Seq(C)
  BY <1>1
<1>6. q \o v = p \o (u \o v)
  <2> HIDE DEF v
  <2> QED BY <1>1
<1> HIDE DEF q
<1>7. (q \o e) \o f = q \o v
  BY <1>5
<1> HIDE DEF v
<1>8. ((a \o (b \o c)) \o d) \o e \o f = (((p \o c) \o d) \o e) \o f
  BY <1>2
<1>9. (((p \o c) \o d) \o e) \o f = (q \o e) \o f
  BY <1>4 DEF q
<1>10. p \o (u \o v) = p \o (c \o (d \o v))
  BY <1>3
<1> QED BY <1>6, <1>7, <1>8, <1>9, <1>10 DEF p, v, Regrouped

LEMMA TextRegrouped ==
    ASSUME NEW a, NEW b, NEW c, NEW d, NEW e, NEW f,
           IsText(a), IsText(b), IsText(c), IsText(d), IsText(e), IsText(f)
    PROVE  Regrouped(a, b, c, d, e, f)
<1> DEFINE C == Range(a) \cup Range(b) \cup Range(c) \cup Range(d) \cup Range(e) \cup Range(f)
<1>1. a \in Seq(C) /\ b \in Seq(C) /\ c \in Seq(C) /\ d \in Seq(C) /\ e \in Seq(C) /\ f \in Seq(C)
  BY DEF IsText
<1> HIDE DEF C
<1> QED BY <1>1, SeqRegrouped

LEMMA WordsAreText ==
    ASSUME NEW a, NEW b, NEW c, NEW d
    PROVE  IsText(<<>>) /\ IsText(<<a>>) /\ IsText(<<a, b>>) /\ IsText(<<a, b, c, d>>)
<1>1. /\ <<>> \in Seq({}) /\ <<a>> \in Seq({a}) /\ <<a, b>> \in Seq({a, b})
      /\ <<a, b, c, d>> \in Seq({a, b, c, d})
  OBVIOUS
<1> QED BY <1>1, SequenceIsText

\* desktopPlatformComment() is text.
LEMMA CommentIsText ==
    ASSUME NEW i, IsInfo(i)
    PROVE  IsText(DesktopPlatformComment(i))
<1>1. CASE i.operatingSystem = "Windows"
  <2> DEFINE w == WindowsNtVersion(i.operatingSystemVersion)
             version == IF w = <<>> THEN <<"10.0">> ELSE w
             cpu == CASE i.architecture \in {"X64", "Arm64"} -> <<"; ", "Win64", "; ", "x64">>
                      [] i.architecture = "Arm" -> <<"; ", "ARM">>
                      [] OTHER -> <<>>
  <2>1. IsText(version) /\ IsText(cpu) /\ IsText(<<"Windows NT ">>)
    <3>1. IsText(w)
      BY WindowsVersion, SequenceIsText DEF IsInfo
    <3> HIDE DEF w
    <3> QED BY <3>1, WordsAreText
  <2>2. DesktopPlatformComment(i) = <<"Windows NT ">> \o version \o cpu
    BY <1>1 DEF DesktopPlatformComment, WindowsComment
  <2> HIDE DEF version, cpu
  <2> QED BY <2>1, <2>2, TextJoined
<1>2. CASE i.operatingSystem = "MacOS"
  <2> DEFINE v == OsVersionPart(i.operatingSystemVersion, "_")
             version == IF v = <<>> THEN <<>> ELSE <<" ">> \o v
             first == <<"Macintosh", "; ", IF i.architecture \in {"Arm", "Arm64"} THEN "ARM" ELSE "Intel",
                        " Mac OS X">>
  <2>1. IsText(version) /\ IsText(first)
    <3>1. IsText(v)
      <4>1. v \in Seq(Digits \cup {"_"})
        BY OsVersionNormalises DEF IsInfo, Normalises
      <4> QED BY <4>1, SequenceIsText
    <3> HIDE DEF v
    <3> QED BY <3>1, WordsAreText, TextJoined
  <2>2. DesktopPlatformComment(i) = first \o version
    BY <1>2 DEF DesktopPlatformComment, MacComment
  <2> HIDE DEF version, first
  <2> QED BY <2>1, <2>2, TextJoined
<1>3. CASE i.operatingSystem = "Linux"
  <2> DEFINE distro == Trimmed(i.linuxDistro)
             name == IF distro = <<>> THEN <<>> ELSE distro \o <<"; ">>
  <2>1. PICK last : DesktopPlatformComment(i) = <<"X11", "; ">> \o name \o <<last>>
    BY <1>3 DEF DesktopPlatformComment, LinuxComment
  <2>2. IsText(name) /\ IsText(<<"X11", "; ">>) /\ IsText(<<last>>)
    <3>1. IsText(distro)
      BY TrimmedTwice, SequenceIsText DEF IsInfo, IsText
    <3> HIDE DEF distro
    <3> QED BY <3>1, WordsAreText, TextJoined
  <2> HIDE DEF name
  <2> QED BY <2>1, <2>2, TextJoined
<1>4. CASE i.operatingSystem = "Unknown"
  <2>1. DesktopPlatformComment(i) = <<>>
    BY <1>4 DEF DesktopPlatformComment
  <2> QED BY <2>1, WordsAreText
<1> QED BY <1>1, <1>2, <1>3, <1>4 DEF IsInfo, OperatingSystems

\* With a product name, the text is the comment, if any, and the products.
LEMMA UserAgentShape ==
    ASSUME NEW i, IsInfo(i), TokenPart(i.productName) # <<>>
    PROVE  \E products :
            /\ Tight(products)
            /\ BuildDesktopUserAgent(i) =
                IF DesktopPlatformComment(i) = <<>> THEN products
                ELSE (<<"Mozilla/5.0 (">> \o DesktopPlatformComment(i) \o <<")">>)
                     \o <<" ">> \o products
<1> DEFINE name == TokenPart(i.productName)
           version == TokenPart(i.productVersion)
           qt == TokenPart(i.qtVersion)
           product == ProductToken(i)
           token == QtToken(i.qtVersion)
           comment == DesktopPlatformComment(i)
           first == IF comment = <<>> THEN <<>> ELSE <<"Mozilla/5.0 (">> \o comment \o <<")">>
           products == IF token = <<>> THEN product ELSE product \o <<" ">> \o token
<1>1. {"/", " "} \subseteq WordChars
  BY DEF WordChars
<1>2. Tight(product)
  <2>1. Tight(name) /\ (version # <<>> => Tight(version))
    BY TokenTight DEF IsInfo
  <2>2. product = IF name = <<>> \/ version = <<>> THEN name ELSE name \o <<"/">> \o version
    BY DEF ProductToken
  <2> HIDE DEF name, version, product
  <2> QED BY <1>1, <2>1, <2>2, TightParts DEF name
<1>3. token # <<>> => Tight(token)
  <2>1. token = IF qt = <<>> THEN <<>> ELSE <<"Qt", "/">> \o qt
    BY DEF QtToken
  <2>2. qt # <<>> => Tight(qt)
    BY TokenTight DEF IsInfo
  <2>3. Tight(<<"Qt">>)
    <3>1. <<"Qt">> \in Seq(WordChars) /\ <<"Qt">> # <<>> /\ Len(<<"Qt">>) = 1
      BY DEF WordChars
    <3>2. ~Loose(<<"Qt">>, 1)
      BY DEF Loose, Marks
    <3>3. \A j \in 0..1 : j = 1 \/ j + 1 = 1
      OBVIOUS
    <3> QED BY <3>1, <3>2, <3>3 DEF Tight
  <2> HIDE DEF qt, token
  <2>4. ASSUME qt # <<>> PROVE <<"Qt", "/">> \o qt = <<"Qt">> \o <<"/">> \o qt
    <3>1. qt \in Seq(WordChars) /\ <<"Qt", "/">> = <<"Qt">> \o <<"/">>
      BY <2>2, <2>4 DEF Tight
    <3> QED BY <3>1
  <2>5. qt # <<>> => Tight(<<"Qt">> \o <<"/">> \o qt)
    BY <1>1, <2>2, <2>3, TightParts
  <2> QED BY <2>1, <2>4, <2>5
<1>4. Tight(products)
  <2> HIDE DEF product, token
  <2> QED BY <1>1, <1>2, <1>3, TightParts
<1>5. BuildDesktopUserAgent(i) = JoinTokens(JoinTokens(first, product), token)
  BY <1>2 DEF BuildDesktopUserAgent, Tight
<1>6. IsText(comment) /\ product # <<>> /\ IsText(product) /\ (token # <<>> => IsText(token))
  BY <1>2, <1>3, CommentIsText, SequenceIsText DEF Tight
<1> HIDE DEF comment, product, token
<1>7. CASE comment = <<>>
  BY <1>4, <1>5, <1>6, <1>7 DEF JoinTokens, comment
<1>8. CASE comment # <<>>
  <2> DEFINE blank == <<" ">>
             longer == first \o blank \o product
  <2>1. first = <<"Mozilla/5.0 (">> \o comment \o <<")">>
    BY <1>8
  <2>2. IsText(first) /\ IsText(blank)
    BY <1>6, <2>1, WordsAreText, TextJoined
  <2>3. first # <<>>
    <3>1. PICK x, c, y : first = <<x>> \o c \o <<y>> /\ IsText(c)
      BY <1>6, <2>1
    <3> HIDE DEF first
    <3> QED BY <3>1 DEF IsText
  <2>4. longer # <<>>
    <3> HIDE DEF first, blank
    <3> DEFINE C == Range(first) \cup Range(blank) \cup Range(product)
    <3>1. first \in Seq(C) /\ blank \in Seq(C) /\ product \in Seq(C)
      BY <1>6, <2>2 DEF IsText
    <3> HIDE DEF C
    <3> QED BY <2>3, <3>1
  <2>5. JoinTokens(first, product) = longer
    BY <1>6, <2>3 DEF JoinTokens
  <2>6. JoinTokens(longer, token) = first \o blank \o products
    <3>1. CASE token = <<>>
      BY <3>1 DEF JoinTokens
    <3>2. CASE token # <<>>
      <4>1. JoinTokens(longer, token) = longer \o blank \o token
        BY <2>4, <3>2 DEF JoinTokens
      <4> HIDE DEF first, blank
      <4> DEFINE start == first \o blank
                 end == blank \o token
      <4>2. IsText(start) /\ IsText(longer) /\ IsText(end)
        BY <1>6, <2>2, <3>2, TextJoined
      <4>3. longer \o blank \o token = longer \o end
        <5> HIDE DEF longer
        <5> QED BY <1>6, <2>2, <3>2, <4>2, TextAssociative
      <4>4. product \o blank \o token = product \o end
        BY <1>6, <2>2, <3>2, TextAssociative
      <4> HIDE DEF end
      <4>5. longer \o end = start \o (product \o end)
        <5> HIDE DEF start
        <5> QED BY <1>6, <4>2, TextAssociative DEF longer, start
      <4> QED BY <3>2, <4>1, <4>3, <4>4, <4>5 DEF blank
    <3> QED BY <3>1, <3>2
  <2>7. BuildDesktopUserAgent(i) = first \o blank \o products
    BY <1>5, <2>5, <2>6
  <2> QED BY <1>4, <1>8, <2>1, <2>7 DEF comment
<1> QED BY <1>7, <1>8

\* The products come after the last parenthesis, if there is any.
LEMMA ProductsFollow ==
    ASSUME NEW head, NEW products, IsText(head), products \in Seq(WordChars)
    PROVE  /\ AfterComment(products) = products
           /\ head # <<>> /\ Last(head) = ")" =>
                AfterComment(head \o <<" ">> \o products) = products
<1> DEFINE end == ")"
           blank == " "
           ua == head \o <<blank>> \o products
           ends == {j \in DOMAIN ua : ua[j] = end}
           H == Len(head)
           P == Len(products)
<1>1. end \notin WordChars /\ end # blank
  BY CharacterAssumption DEF WordChars, Punctuation
<1>2. AfterComment(products) = products
  <2>1. {j \in DOMAIN products : products[j] = end} = {}
    <3>1. \A j \in DOMAIN products : products[j] \in WordChars
      OBVIOUS
    <3> HIDE DEF end
    <3> QED BY <1>1, <3>1
  <2> QED BY <2>1 DEF AfterComment
<1>3. ASSUME head # <<>>, Last(head) = end PROVE AfterComment(ua) = products
  <2> HIDE DEF end, blank
  <2> DEFINE C == Range(head) \cup WordChars \cup {blank}
  <2>1. head \in Seq(C) /\ products \in Seq(C) /\ <<blank>> \in Seq(C)
    BY DEF IsText
  <2> HIDE DEF C
  <2>2. /\ ua \in Seq(C) /\ Len(ua) = H + 1 + P /\ DOMAIN ua = 1..(H + 1 + P)
        /\ H \in Nat /\ P \in Nat /\ H # 0
        /\ \A j \in 1..H : ua[j] = head[j]
        /\ ua[H + 1] = blank
        /\ \A j \in 1..P : ua[H + 1 + j] = products[j]
    BY <1>3, <2>1
  <2>3. AfterComment(ua) = IF ends = {} THEN ua ELSE SubSeq(ua, Max(ends) + 2, Len(ua))
    BY DEF AfterComment, end
  <2>4. head[H] = end
    BY <1>3 DEF Last
  <2> HIDE DEF ua
  <2>5. H \in ends
    BY <2>2, <2>4
  <2>6. ASSUME NEW j \in ends PROVE j <= H
    <3> SUFFICES ASSUME j > H PROVE FALSE
      BY <2>2
    <3>1. j \in 1..(H + 1 + P) /\ ua[j] = end
      BY <2>2
    <3>2. j # H + 1
      BY <1>1, <2>2, <3>1
    <3>3. j - H - 1 \in 1..P /\ H + 1 + (j - H - 1) = j
      <4>1. H \in Nat /\ P \in Nat
        BY <2>2
      <4> HIDE DEF H, P
      <4> QED BY <3>1, <3>2, <4>1
    <3>4. products[j - H - 1] = end
      BY <2>2, <3>1, <3>3
    <3> QED BY <1>1, <3>3, <3>4
  <2>7. Max(ends) = H
    <3>1. ends \in SUBSET (0..(H + 1 + P)) /\ H + 1 + P \in Nat
      BY <2>2
    <3>2. ends # {}
      BY <2>5
    <3> HIDE DEF ends
    <3>3. Max(ends) \in ends /\ \A n \in ends : n <= Max(ends)
      BY <3>1, <3>2, MaxDef
    <3>4. Max(ends) <= H /\ H <= Max(ends)
      BY <2>5, <2>6, <3>3
    <3>5. Max(ends) \in Int /\ H \in Int
      <4>1. \A n \in ends : n \in Int
        BY <2>2 DEF ends
      <4> QED BY <2>2, <3>3, <4>1
    <3> HIDE DEF H
    <3> QED BY <3>4, <3>5
  <2>8. SubSeq(ua, H + 2, Len(ua)) = products
    <3>1. \A j \in 1..P : ua[H + 2 + j - 1] = products[j]
      <4>1. \A j \in 1..P : H + 2 + j - 1 = H + 1 + j
        BY <2>2
      <4> QED BY <2>2, <4>1
    <3>2. SubSeq(ua, H + 2, Len(ua)) = [j \in 1..P |-> ua[H + 2 + j - 1]]
      BY <2>2
    <3>3. products = [j \in 1..P |-> products[j]]
      OBVIOUS
    <3> QED BY <3>1, <3>2, <3>3
  <2> HIDE DEF ends
  <2> QED BY <2>3, <2>5, <2>7, <2>8
<1> QED BY <1>2, <1>3 DEF end, blank

\* What is built is empty without a product name, and else ends with its products.
LEMMA WellFormed ==
    ASSUME NEW i, IsInfo(i), NEW ua, ua = BuildDesktopUserAgent(i)
    PROVE  /\ ua = <<>> <=> TokenPart(i.productName) = <<>>
           /\ ua # <<>> => Tight(AfterComment(ua))
<1>1. CASE TokenPart(i.productName) = <<>>
  <2>1. ProductToken(i) = <<>>
    BY <1>1 DEF ProductToken
  <2>2. ua = <<>>
    BY <2>1 DEF BuildDesktopUserAgent
  <2> QED BY <1>1, <2>2
<1>2. CASE TokenPart(i.productName) # <<>>
  <2> DEFINE comment == DesktopPlatformComment(i)
             head == <<"Mozilla/5.0 (">> \o comment \o <<")">>
  <2>1. PICK products :
          /\ Tight(products)
          /\ ua = IF comment = <<>> THEN products ELSE head \o <<" ">> \o products
    BY <1>2, UserAgentShape
  <2>2. IsText(head) /\ head # <<>> /\ Last(head) = ")"
    <3> DEFINE first == "Mozilla/5.0 ("
               end == ")"
               C == Range(comment) \cup {first, end}
    <3>1. comment \in Seq(Range(comment))
      BY CommentIsText DEF IsText
    <3> HIDE DEF comment, first, end
    <3>2. comment \in Seq(C) /\ <<first>> \in Seq(C) /\ <<end>> \in Seq(C)
      BY <3>1
    <3> HIDE DEF C
    <3> DEFINE h == <<first>> \o comment \o <<end>>
    <3>3. h \in Seq(C) /\ h # <<>> /\ h[Len(h)] = end
      BY <3>2
    <3>4. head = h
      BY DEF first, end
    <3> HIDE DEF head, h
    <3> QED BY <3>3, <3>4, SequenceIsText DEF Last, end
  <2>3. products \in Seq(WordChars) /\ products # <<>>
    BY <2>1 DEF Tight
  <2> HIDE DEF head
  <2>4. AfterComment(ua) = products
    <3>1. AfterComment(products) = products /\ AfterComment(head \o <<" ">> \o products) = products
      BY <2>2, <2>3, ProductsFollow
    <3> QED BY <2>1, <3>1
  <2>5. ua # <<>>
    <3> SUFFICES ASSUME ua = <<>> PROVE FALSE
      OBVIOUS
    <3>1. DOMAIN ua = {}
      OBVIOUS
    <3>2. AfterComment(ua) = <<>>
      BY <3>1 DEF AfterComment
    <3> QED BY <2>3, <2>4, <3>2
  <2> QED BY <1>2, <2>1, <2>4, <2>5
<1> QED BY <1>1, <1>2

\* The text has a comment that begins with start and goes on with end.
Begins(ua, start, end) ==
    \E tail : /\ IsText(tail)
             /\ ua = (<<"Mozilla/5.0 (">> \o start) \o (end \o (<<")">> \o tail))

\* It does, when its comment is made of the two.
LEMMA CommentStarts ==
    ASSUME NEW i, IsInfo(i), TokenPart(i.productName) # <<>>, NEW start, NEW end,
           IsText(start), IsText(end), DesktopPlatformComment(i) = start \o end,
           DesktopPlatformComment(i) # <<>>
    PROVE  Begins(BuildDesktopUserAgent(i), start, end)
<1> DEFINE moz == <<"Mozilla/5.0 (">>
           close == <<")">>
           blank == <<" ">>
<1>1. IsText(moz) /\ IsText(close) /\ IsText(blank)
  BY WordsAreText
<1>2. PICK products : /\ Tight(products)
                      /\ BuildDesktopUserAgent(i)
                         = (moz \o DesktopPlatformComment(i) \o close) \o blank \o products
  BY UserAgentShape
<1> HIDE DEF moz, close, blank
<1>3. IsText(products) /\ IsText(blank \o products)
  BY <1>1, <1>2, SequenceIsText, TextJoined DEF Tight
<1>4. Regrouped(moz, start, end, close, blank, products)
  BY <1>1, <1>3, TextRegrouped
<1>5. BuildDesktopUserAgent(i) = (moz \o start) \o (end \o (close \o (blank \o products)))
  BY <1>2, <1>4 DEF Regrouped
<1> QED BY <1>3, <1>5 DEF Begins, moz, close

\* The version is found again between the system and the next mark.
LEMMA WindowsComments ==
    ASSUME NEW i, IsInfo(i), i.operatingSystem = "Windows", NEW ua,
           ua = BuildDesktopUserAgent(i), ua # <<>>
    PROVE  LET end == Min({j \in DOMAIN ua : ua[j] \in {")", "; "}})
               version == SubSeq(ua, 3, end - 1)
               given == WindowsNtVersion(i.operatingSystemVersion)
           IN  version = IF given = <<>> THEN <<"10.0">> ELSE given
<1> DEFINE given == WindowsNtVersion(i.operatingSystemVersion)
           version == IF given = <<>> THEN <<"10.0">> ELSE given
           cpu == CASE i.architecture \in {"X64", "Arm64"} -> <<"; ", "Win64", "; ", "x64">>
                    [] i.architecture = "Arm" -> <<"; ", "ARM">>
                    [] OTHER -> <<>>
           comment == DesktopPlatformComment(i)
           marks == {")", "; "}
           first == "Mozilla/5.0 ("
           nt == "Windows NT "
           V == Len(version)
\* What follows the version begins with the end of it, whatever else there is.
<1>1. \E rest : /\ IsText(rest) /\ rest # <<>> /\ rest[1] \in marks
                /\ ua = (<<first>> \o (<<nt>> \o version)) \o rest
  <2> DEFINE close == <<")">>
             start == <<nt>> \o version
  <2>1. IsText(version) /\ IsText(cpu) /\ IsText(start) /\ IsText(<<first>>) /\ IsText(close)
    <3>1. IsText(given)
      BY WindowsVersion, SequenceIsText DEF IsInfo
    <3>2. IsText(version)
      <4> HIDE DEF given
      <4> QED BY <3>1, WordsAreText
    <3> HIDE DEF version
    <3> QED BY <3>2, WordsAreText, TextJoined
  <2>2. cpu = <<>> \/ cpu[1] \in marks
    OBVIOUS
  <2>3. comment = start \o cpu
    BY DEF DesktopPlatformComment, WindowsComment
  <2>4. TokenPart(i.productName) # <<>>
    BY WellFormed
  <2> HIDE DEF version, cpu, comment, first, nt
  <2>5. comment # <<>>
    <3> DEFINE C == {nt} \cup Range(version) \cup Range(cpu)
    <3>0. version \in Seq(Range(version)) /\ cpu \in Seq(Range(cpu))
      BY <2>1 DEF IsText
    <3>1. version \in Seq(C) /\ cpu \in Seq(C) /\ nt \in C
      BY <3>0
    <3> HIDE DEF C
    <3> QED BY <2>3, <3>1
  <2>6. PICK tail : /\ IsText(tail)
                    /\ ua = (<<first>> \o start) \o (cpu \o (close \o tail))
    <3> HIDE DEF start
    <3>1. Begins(ua, start, cpu)
      BY <2>1, <2>3, <2>4, <2>5, CommentStarts DEF comment
    <3> QED BY <3>1 DEF Begins, first
  <2> DEFINE rest == cpu \o (close \o tail)
  <2>7. IsText(close \o tail) /\ IsText(rest)
    <3> HIDE DEF close
    <3> QED BY <2>1, <2>6, TextJoined
  <2>8. ua = <<first>> \o start \o rest
    BY <2>6
  <2>9. rest # <<>> /\ rest[1] \in marks
    <3> DEFINE c == ")"
    <3>1. c \in marks
      OBVIOUS
    <3> HIDE DEF c, marks
    <3> DEFINE C == Range(cpu) \cup Range(tail) \cup {c}
    <3>0. cpu \in Seq(Range(cpu)) /\ tail \in Seq(Range(tail))
      BY <2>1, <2>6 DEF IsText
    <3>2. cpu \in Seq(C) /\ tail \in Seq(C) /\ c \in C
      BY <3>0
    <3> HIDE DEF C
    <3>3. rest = cpu \o (<<c>> \o tail)
      BY DEF c
    <3> HIDE DEF rest
    <3>4. rest # <<>> /\ rest[1] = IF cpu = <<>> THEN c ELSE cpu[1]
      BY <3>2, <3>3
    <3> QED BY <2>2, <3>1, <3>4
  <2> HIDE DEF rest
  <2> QED BY <2>7, <2>8, <2>9
<1>2. PICK rest : /\ IsText(rest) /\ rest # <<>> /\ rest[1] \in marks
                  /\ ua = (<<first>> \o (<<nt>> \o version)) \o rest
  BY <1>1
<1>3. first \notin marks /\ nt \notin marks
  OBVIOUS
<1>4. /\ IsText(version)
      /\ \A j \in 1..V : version[j] \notin marks
  <2> DEFINE C == Digits \cup {".", "10.0"}
  <2>1. version \in Seq(C)
    <3>1. given \in Seq(Digits \cup {"."})
      BY WindowsVersion DEF IsInfo
    <3>2. Digits \cup {"."} \subseteq C /\ "10.0" \in C
      OBVIOUS
    <3> DEFINE ten == "10.0"
    <3>3. version = IF given = <<>> THEN <<ten>> ELSE given
      OBVIOUS
    <3>4. ten \in C
      OBVIOUS
    <3> HIDE DEF given, C, version, ten
    <3> QED BY <3>1, <3>2, <3>3, <3>4
  <2>2. C \cap marks = {}
    BY CharacterAssumption DEF Punctuation
  <2> HIDE DEF version, C, marks
  <2> QED BY <2>1, <2>2, SequenceIsText
<1>5. /\ ua = (<<first>> \o (<<nt>> \o version)) \o rest
      /\ version = IF given = <<>> THEN <<"10.0">> ELSE given
  BY <1>2
<1> DEFINE ends == {j \in DOMAIN ua : ua[j] \in marks}
           C == {first, nt} \cup Range(version) \cup Range(rest)
<1>6. Min({j \in DOMAIN ua : ua[j] \in {")", "; "}}) = Min(ends)
  OBVIOUS
<1> HIDE DEF first, nt, version, marks, given
<1>7. version \in Seq(C) /\ rest \in Seq(C) /\ first \in C /\ nt \in C
  BY <1>2, <1>4 DEF IsText
<1> HIDE DEF C
<1>8. /\ ua \in Seq(C) /\ V \in Nat /\ Len(ua) = 2 + V + Len(rest) /\ Len(rest) >= 1
      /\ DOMAIN ua = 1..Len(ua) /\ Len(ua) \in Nat
      /\ ua[1] = first /\ ua[2] = nt /\ ua[3 + V] = rest[1]
      /\ \A j \in 1..V : ua[2 + j] = version[j]
  <2> DEFINE s == <<first>> \o (<<nt>> \o version)
  <2>1. /\ s \in Seq(C) /\ Len(s) = 2 + V /\ V \in Nat /\ s[1] = first /\ s[2] = nt
        /\ \A j \in 1..V : s[2 + j] = version[j]
    BY <1>7
  <2>2. ua = s \o rest
    BY <1>5, <1>7
  <2> HIDE DEF s, V
  <2> QED BY <1>2, <1>7, <2>1, <2>2
<1>9. V + 3 \in ends
  BY <1>2, <1>8
<1>10. ASSUME NEW j \in ends PROVE V + 3 <= j
  <2>1. j \in Nat /\ j # 0 /\ ua[j] \in marks
    BY <1>8
  <2>2. j # 1 /\ j # 2
    BY <1>3, <1>8, <2>1
  <2>3. \A k \in 1..V : j # 2 + k
    BY <1>4, <1>8, <2>1
  <2>4. V \in Nat
    BY <1>8
  <2> HIDE DEF V
  <2> SUFFICES ASSUME j < V + 3 PROVE FALSE
    BY <2>1, <2>4
  <2>5. j - 2 \in 1..V /\ j = 2 + (j - 2)
    BY <2>1, <2>2, <2>4
  <2> QED BY <2>3, <2>5
<1>11. Min(ends) = V + 3
  <2>1. ends \in SUBSET Nat /\ V \in Nat
    BY <1>8
  <2> HIDE DEF ends, V
  <2>2. Min(ends) \in ends /\ Min(ends) <= V + 3
    BY <1>9, <2>1, MinDef
  <2>3. Min(ends) \in Nat /\ V + 3 <= Min(ends)
    BY <1>10, <2>1, <2>2
  <2> QED BY <2>1, <2>2, <2>3
<1>12. SubSeq(ua, 3, (V + 3) - 1) = version
  <2>1. SubSeq(ua, 3, (V + 3) - 1) = [j \in 1..V |-> ua[3 + j - 1]]
    BY <1>8
  <2>2. \A j \in 1..V : ua[3 + j - 1] = version[j]
    <3>1. \A j \in 1..V : 3 + j - 1 = 2 + j
      BY <1>8
    <3> QED BY <1>8, <3>1
  <2>3. version = [j \in 1..V |-> version[j]]
    BY <1>7
  <2> QED BY <2>1, <2>2, <2>3
<1>13. SubSeq(ua, 3, Min({j \in DOMAIN ua : ua[j] \in {")", "; "}}) - 1) = version
  BY <1>6, <1>11, <1>12
<1> QED BY <1>13 DEF version, given

\* The distribution is found again after the first mark.
LEMMA DistroComments ==
    ASSUME NEW i, IsInfo(i), i.operatingSystem = "Linux",
           NEW name, IsText(name), Trimmed(i.linuxDistro) = name,
           NEW ua, ua = BuildDesktopUserAgent(i), ua # <<>>
    PROVE  SubSeq(ua, 1, Len(name) + 4)
           = <<"Mozilla/5.0 (", "X11", "; ">> \o (IF name = <<>> THEN <<ua[4]>> ELSE Append(name, "; "))
<1> DEFINE first == "Mozilla/5.0 ("
           x11 == "X11"
           mark == "; "
           close == ")"
           distro == IF name = <<>> THEN <<>> ELSE name \o <<mark>>
           start == <<x11, mark>> \o distro
           N == Len(name)
<1>1. PICK last : DesktopPlatformComment(i) = start \o <<last>>
  BY DEF DesktopPlatformComment, LinuxComment
<1>2. TokenPart(i.productName) # <<>>
  BY WellFormed
<1> HIDE DEF first, x11, mark, close
<1> DEFINE C == Range(name) \cup {first, x11, mark, close, last}
<1>3. name \in Seq(Range(name))
  BY DEF IsText
<1>4. name \in Seq(C) /\ {first, x11, mark, close, last} \subseteq C
  BY <1>3
<1> HIDE DEF C
<1>5. start \in Seq(C) /\ <<last>> \in Seq(C) /\ start \o <<last>> # <<>>
  BY <1>4
<1>6. IsText(start) /\ IsText(<<last>>)
  BY <1>5, SequenceIsText
<1> HIDE DEF start
<1>7. PICK tail : IsText(tail) /\ ua = (<<first>> \o start) \o (<<last>> \o (<<close>> \o tail))
  <2>1. Begins(ua, start, <<last>>)
    BY <1>1, <1>2, <1>5, <1>6, CommentStarts
  <2> QED BY <2>1 DEF Begins, first, close
<1> DEFINE D == C \cup Range(tail)
<1>8. /\ name \in Seq(D) /\ tail \in Seq(D)
      /\ first \in D /\ x11 \in D /\ mark \in D /\ close \in D /\ last \in D
  <2>1. name \in Seq(D)
    BY <1>4
  <2>2. tail \in Seq(Range(tail))
    BY <1>7 DEF IsText
  <2> QED BY <1>4, <2>1, <2>2
<1> HIDE DEF D
<1>9. CASE name = <<>>
  <2>1. start = <<x11, mark>>
    BY <1>9 DEF start
  <2>2. <<first>> \o start = <<first, x11, mark>>
    <3>1. <<first>> \o <<x11, mark>> = <<first, x11, mark>>
      <4> DEFINE three == <<first, x11, mark>>
                 both == <<first>> \o <<x11, mark>>
      <4>1. both \in Seq(C) /\ Len(both) = 3 /\ both[1] = first /\ both[2] = x11 /\ both[3] = mark
        BY <1>4
      <4>2. three = [j \in 1..3 |-> three[j]] /\ both = [j \in 1..3 |-> both[j]]
        BY <4>1
      <4>3. \A j \in 1..3 : three[j] = both[j]
        BY <4>1
      <4> HIDE DEF three, both
      <4>4. three = both
        BY <4>2, <4>3
      <4> QED BY <4>4 DEF three, both
    <3> QED BY <2>1, <3>1
  <2>3. ua = <<first, x11, mark>> \o (<<last>> \o (<<close>> \o tail))
    BY <1>7, <2>2
  <2>4. /\ ua[1] = first /\ ua[2] = x11 /\ ua[3] = mark /\ ua \in Seq(D) /\ Len(ua) >= 4
    BY <1>8, <2>3
  <2>5. SubSeq(ua, 1, 4) = <<first, x11, mark, ua[4]>>
    <3>1. SubSeq(ua, 1, 4) = [j \in 1..4 |-> ua[j]]
      BY <2>4
    <3> DEFINE four == <<first, x11, mark, ua[4]>>
    <3>2. four = [j \in 1..4 |-> four[j]]
      OBVIOUS
    <3>3. \A j \in 1..4 : four[j] = ua[j]
      BY <2>4
    <3> HIDE DEF four
    <3>4. SubSeq(ua, 1, 4) = four
      BY <3>1, <3>2, <3>3
    <3> QED BY <3>4 DEF four
  <2>6. <<first, x11, mark, ua[4]>> = <<first, x11, mark>> \o <<ua[4]>>
    OBVIOUS
  <2>7. Len(name) + 4 = 4
    BY <1>9
  <2> QED BY <1>9, <2>5, <2>6, <2>7 DEF first, x11, mark
<1>10. CASE name # <<>>
  <2> DEFINE head == <<first, x11, mark>> \o Append(name, mark)
             rest == <<last>> \o (<<close>> \o tail)
  <2>1. <<first>> \o start = head
    BY <1>8, <1>10 DEF start
  <2>2. head \in Seq(D) /\ rest \in Seq(D) /\ Len(head) = N + 4
    BY <1>8
  <2>3. ua = head \o rest
    BY <1>7, <2>1
  <2> HIDE DEF head, rest
  <2>4. SubSeq(ua, 1, Len(head)) = head
    BY <2>2, <2>3
  <2>5. SubSeq(ua, 1, N + 4) = head
    BY <2>2, <2>4
  <2> QED BY <1>10, <2>5 DEF head, first, x11, mark
<1> QED BY <1>9, <1>10

----------------------------------------------------------------------------
(* The inductive invariant.                                                *)

\* One info at a time, and without it nothing else.
OneAtATime ==
    /\ info = {} => machine = {} /\ userAgent = {}
    /\ \A i, j \in info : i = j

\* The info is text, and of the machine it was read from, if it was.
InfoRead ==
    /\ \A i \in info : IsInfo(i)
    /\ \A m \in machine, i \in info :
        /\ m \in Machines /\ i.operatingSystem = m.operatingSystem
        /\ m.operatingSystem = "Linux" => i.linuxDistro = NamedDistro(m)

TextBuilt == \A ua \in userAgent, i \in info : ua = BuildDesktopUserAgent(i)

IInv == OneAtATime /\ InfoRead /\ TextBuilt

LEMMA CurrentOsVersionIsText ==
    ASSUME NEW version
    PROVE  IsText(CurrentOsVersion(version))
<1> DEFINE part(v) == IF v < 0 THEN <<>> ELSE <<".", ToString(v)>>
           major == <<ToString(version.major)>>
           minor == part(version.minor)
           micro == part(version.micro)
<1>1. IsText(<<>>) /\ IsText(major) /\ IsText(minor) /\ IsText(micro)
  BY WordsAreText
<1>2. CurrentOsVersion(version) = IF version.major < 0 THEN <<>> ELSE major \o minor \o micro
  BY DEF CurrentOsVersion
<1> HIDE DEF major, minor, micro
<1> QED BY <1>1, <1>2, TextJoined

\* currentDesktopInfo() makes an info of its machine.
LEMMA InfoIsRead ==
    ASSUME NEW m \in Machines, NEW p \in Products, CurrentDesktopInfo(m, p)
    PROVE  /\ machine' = {m} /\ userAgent' = userAgent
           /\ \E i : /\ info' = {i} /\ IsInfo(i) /\ i.operatingSystem = m.operatingSystem
                     /\ m.operatingSystem = "Linux" => i.linuxDistro = NamedDistro(m)
<1> DEFINE distro == IF m.operatingSystem = "Linux" THEN LinuxDistroFromOsRelease(m.osRelease) ELSE <<>>
           version == CurrentOsVersion(m.version)
           architecture == ArchitectureFromQt(m.cpu)
           qt == <<"6">>
           i == [productName |-> p.name, productVersion |-> p.version,
                 operatingSystem |-> m.operatingSystem, operatingSystemVersion |-> version,
                 architecture |-> architecture, qtVersion |-> qt, linuxDistro |-> distro]
<1>1. info' = {i} /\ machine' = {m} /\ userAgent' = userAgent
  BY DEF CurrentDesktopInfo
<1>2. IsText(distro) /\ (m.operatingSystem = "Linux" => distro = NamedDistro(m))
  BY DistroRead, WordsAreText
<1>3. IsText(version) /\ IsText(qt) /\ IsText(p.name) /\ IsText(p.version)
  BY CurrentOsVersionIsText, WordsAreText, HostAssumption
<1>4. m.operatingSystem \in OperatingSystems
  BY MachineAssumption
<1> HIDE DEF distro, version, architecture, qt
<1>5. IsInfo(i) /\ i.operatingSystem = m.operatingSystem /\ i.linuxDistro = distro
  BY <1>2, <1>3, <1>4 DEF IsInfo
<1> HIDE DEF i
<1> QED BY <1>1, <1>2, <1>5

LEMMA InitIInv == Init => IInv
BY DEF Init, IInv, OneAtATime, InfoRead, TextBuilt

LEMMA NextIInv == IInv /\ [Next]_vars => IInv'
<1> SUFFICES ASSUME IInv, [Next]_vars PROVE IInv'
  OBVIOUS
<1> USE DEF IInv, OneAtATime, InfoRead, TextBuilt
<1>1. ASSUME NEW m \in Machines, NEW p \in Products, CurrentDesktopInfo(m, p) PROVE IInv'
  <2>1. info = {} /\ userAgent' = {}
    BY <1>1, InfoIsRead DEF CurrentDesktopInfo
  <2>2. machine' = {m}
    BY <1>1, InfoIsRead
  <2>3. PICK i : /\ info' = {i} /\ IsInfo(i) /\ i.operatingSystem = m.operatingSystem
                 /\ m.operatingSystem = "Linux" => i.linuxDistro = NamedDistro(m)
    BY <1>1, InfoIsRead
  <2>4. OneAtATime' /\ TextBuilt'
    BY <2>1, <2>2, <2>3
  <2>5. ASSUME NEW n \in machine', NEW j \in info' PROVE n = m /\ j = i
    BY <2>2, <2>3
  <2>6. InfoRead'
    BY <2>3, <2>5
  <2> QED BY <2>4, <2>6
<1>2. ASSUME NEW i \in Infos, HostInfo(i) PROVE IInv'
  <2>1. machine' = {} /\ info' = {i} /\ userAgent' = {}
    BY <1>2 DEF HostInfo
  <2>2. IsInfo(i)
    BY HostAssumption DEF IsInfo
  <2> QED BY <2>1, <2>2
<1>3. CASE Build
  <2>1. PICK i \in info : userAgent' = {BuildDesktopUserAgent(i)}
    BY <1>3 DEF Build
  <2>2. machine' = machine /\ info' = info
    BY <1>3 DEF Build
  <2> QED BY <2>1, <2>2
<1>4. CASE Return
  BY <1>4 DEF Return
<1>5. CASE UNCHANGED vars
  BY <1>5 DEF vars
<1> QED BY <1>1, <1>2, <1>3, <1>4, <1>5 DEF Next

LEMMA Invariance == Spec => []IInv
BY InitIInv, NextIInv, PTL DEF Spec

----------------------------------------------------------------------------
(* The properties.                                                         *)

\* The words of a product's name and version and the numbers of a system's
\* version are those given, in their order, however they are separated there
\* (tokenPart(), osVersionPart()).
THEOREM TokensAreFaithful == Spec => []TokensFaithful
<1>1. IInv => TokensFaithful
  <2> SUFFICES ASSUME IInv, NEW i \in info
               PROVE  /\ \A s \in {i.productName, i.productVersion, i.qtVersion} :
                            Normalises(TokenPart(s), s, AlphaNumeric \cup Punctuation, Spaces \cup {"-"}, "-")
                      /\ \A separator \in {".", "_"} :
                            Normalises(OsVersionPart(i.operatingSystemVersion, separator),
                                       i.operatingSystemVersion, Digits, {".", "_"}, separator)
    BY DEF TokensFaithful
  <2>1. IsInfo(i)
    BY DEF IInv, InfoRead
  <2>2. /\ \A s \in {i.productName, i.productVersion, i.qtVersion} : IsText(s)
        /\ IsText(i.operatingSystemVersion)
    BY <2>1 DEF IsInfo
  <2> QED BY <2>2, TokenPartNormalises, OsVersionNormalises
<1> QED BY <1>1, Invariance, PTL

\* A text is empty exactly when the product has no name, and what follows its
\* comment is tokens with nothing empty between them (buildDesktopUserAgent()).
THEOREM UserAgentIsWellFormed == Spec => []UserAgentWellFormed
<1>1. IInv => UserAgentWellFormed
  <2> SUFFICES ASSUME IInv, NEW ua \in userAgent, NEW i \in info
               PROVE  LET words == AfterComment(ua)
                          Free(j) == j \notin DOMAIN words \/ words[j] \in {" ", "/", "-"}
                      IN  /\ ua = <<>> <=> TokenPart(i.productName) = <<>>
                          /\ ua # <<>> => words # <<>> /\ \A j \in 0..Len(words) : ~(Free(j) /\ Free(j + 1))
    BY DEF UserAgentWellFormed
  <2> DEFINE words == AfterComment(ua)
  <2>1. IsInfo(i) /\ ua = BuildDesktopUserAgent(i)
    BY DEF IInv, InfoRead, TextBuilt
  <2>2. (ua = <<>> <=> TokenPart(i.productName) = <<>>) /\ (ua # <<>> => Tight(words))
    BY <2>1, WellFormed
  <2> HIDE DEF words
  <2>3. ASSUME Tight(words)
        PROVE  /\ words # <<>> /\ DOMAIN words = 1..Len(words)
               /\ \A j \in 0..Len(words) : ~(Loose(words, j) /\ Loose(words, j + 1))
    BY <2>3 DEF Tight
  <2> QED BY <2>2, <2>3 DEF Loose, Marks, words
<1> QED BY <1>1, Invariance, PTL

\* The comment of a Windows user agent has one or two numbers, the first ones
\* given, or 10.0 when none is (windowsNtVersion()).
THEOREM WindowsVersionIsKnown == Spec => []WindowsVersionKnown
<1>1. IInv => WindowsVersionKnown
  <2> SUFFICES ASSUME IInv, NEW ua \in userAgent, NEW i \in info,
                      i.operatingSystem = "Windows", ua # <<>>
               PROVE  LET end == Min({j \in DOMAIN ua : ua[j] \in {")", "; "}})
                          version == SubSeq(ua, 3, end - 1)
                      IN  \/ version = <<"10.0">> /\ \A j \in DOMAIN i.operatingSystemVersion :
                                                        i.operatingSystemVersion[j] \notin Digits
                          \/ /\ version # <<>> /\ {version[1], Last(version)} \subseteq Digits
                             /\ Cardinality({j \in DOMAIN version : version[j] \notin Digits}) <= 1
                             /\ IsPrefix(version, OsVersionPart(i.operatingSystemVersion, "."))
    BY DEF WindowsVersionKnown
  <2> DEFINE version == SubSeq(ua, 3, Min({j \in DOMAIN ua : ua[j] \in {")", "; "}}) - 1)
             given == WindowsNtVersion(i.operatingSystemVersion)
             all == OsVersionPart(i.operatingSystemVersion, ".")
             ten == <<"10.0">>
  <2>1. IsInfo(i) /\ ua = BuildDesktopUserAgent(i)
    BY DEF IInv, InfoRead, TextBuilt
  <2>2. version = IF given = <<>> THEN ten ELSE given
    BY <2>1, WindowsComments
  <2>3. IsText(i.operatingSystemVersion)
    BY <2>1 DEF IsInfo
  <2>4. /\ all = <<>> => /\ given = <<>>
                         /\ \A j \in DOMAIN i.operatingSystemVersion : i.operatingSystemVersion[j] \notin Digits
        /\ all # <<>> => /\ given # <<>> /\ {given[1], Last(given)} \subseteq Digits
                         /\ Cardinality({j \in DOMAIN given : given[j] \notin Digits}) <= 1
                         /\ IsPrefix(given, all)
    BY <2>3, WindowsVersion
  <2> HIDE DEF version, given, all, ten
  <2>5. \/ version = ten /\ \A j \in DOMAIN i.operatingSystemVersion : i.operatingSystemVersion[j] \notin Digits
        \/ /\ version # <<>> /\ {version[1], Last(version)} \subseteq Digits
           /\ Cardinality({j \in DOMAIN version : version[j] \notin Digits}) <= 1
           /\ IsPrefix(version, all)
    <3>1. CASE all = <<>>
      BY <2>2, <2>4, <3>1
    <3>2. CASE all # <<>>
      <4>1. version = given
        BY <2>2, <2>4, <3>2
      <4> QED BY <2>4, <3>2, <4>1
    <3> QED BY <3>1, <3>2
  <2> QED BY <2>5 DEF version, all, ten
<1> QED BY <1>1, Invariance, PTL

\* A text built of what a Linux machine says of itself names its distribution as
\* os-release does (linuxDistroFromOsRelease(), linuxPlatformComment()).
THEOREM DistroIsAsNamed == Spec => []DistroAsNamed
<1>1. IInv => DistroAsNamed
  <2> SUFFICES ASSUME IInv, NEW m \in machine, NEW ua \in userAgent,
                      m.operatingSystem = "Linux", ua # <<>>
               PROVE  LET name == NamedDistro(m)
                      IN  SubSeq(ua, 1, Len(name) + 4)
                          = <<"Mozilla/5.0 (", "X11", "; ">>
                            \o (IF name = <<>> THEN <<ua[4]>> ELSE Append(name, "; "))
    BY DEF DistroAsNamed, NamedDistro
  <2>1. PICK i \in info : TRUE
    BY DEF IInv, OneAtATime
  <2>2. /\ m \in Machines /\ IsInfo(i) /\ i.operatingSystem = "Linux"
        /\ i.linuxDistro = NamedDistro(m) /\ ua = BuildDesktopUserAgent(i)
    BY <2>1 DEF IInv, InfoRead, TextBuilt
  <2>3. IsText(NamedDistro(m)) /\ Trimmed(i.linuxDistro) = NamedDistro(m)
    BY <2>2, DistroRead
  <2> QED BY <2>2, <2>3, DistroComments
<1> QED BY <1>1, Invariance, PTL
=============================================================================
