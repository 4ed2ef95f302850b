--------------------------- MODULE TextUtilProofs ---------------------------
(***************************************************************************)
(* The string functions, for texts of any length and any characters.       *)
(***************************************************************************)
EXTENDS MCTextUtil, SequenceTheorems, FiniteSetTheorems, WellFoundedInduction, TLAPS

-----------------------------------------------------------------------------
(* Induction: what holds of the shorter texts and passes on to the longer   *)
(* holds of all.                                                           *)

LEMMA LeastOf ==
  ASSUME NEW B \in SUBSET Nat, B # {}
  PROVE  \E n \in B : \A m \in B : n <= m
<1>1. PICK n \in B : \A m \in B : ~(<<m, n>> \in OpToRel(<, Nat))
  BY NatLessThanWellFounded, WFMin
<1>2. ASSUME NEW m \in B, m < n
      PROVE  FALSE
  <2>1. <<m, n>> \in OpToRel(<, Nat)
    BY <1>2 DEF OpToRel
  <2> QED BY <1>1, <2>1
<1>3. \A m \in B : n <= m
  BY <1>2
<1> QED BY <1>3

LEMMA UpTo ==
  ASSUME NEW G \in SUBSET Nat, NEW n \in Nat, 0 \in G,
         \A k \in 0..n - 1 : k \in G => k + 1 \in G
  PROVE  \A k \in 0..n : k \in G
<1> DEFINE B == {k \in 0..n : k \notin G}
<1> SUFFICES ASSUME B # {} PROVE FALSE
  OBVIOUS
<1>1. PICK k \in B : \A m \in B : k <= m
  <2>1. B \in SUBSET Nat
    OBVIOUS
  <2> QED BY <2>1, LeastOf
<1>2. k - 1 \in 0..n - 1
  BY <1>1
<1>3. k - 1 \notin B
  BY <1>1, <1>2
<1>4. k - 1 \in G /\ (k - 1) + 1 = k
  BY <1>2, <1>3
<1> QED BY <1>1, <1>2, <1>4

LEMMA FirstAndRest ==
  ASSUME NEW S, NEW str \in Seq(S), str # <<>>
  PROVE  /\ str[1] \in S /\ Tail(str) \in Seq(S)
         /\ str = <<str[1]>> \o Tail(str)
         /\ Len(Tail(str)) = Len(str) - 1 /\ Len(str) \in Nat /\ Len(str) >= 1
<1>1. Len(str) \in Nat \ {0}
  BY EmptySeq
<1>2. str[1] \in S /\ Tail(str) \in Seq(S) /\ Len(Tail(str)) = Len(str) - 1
      /\ \A i \in 1..Len(Tail(str)) : Tail(str)[i] = str[i + 1]
  BY <1>1, HeadTailProperties, ElementOfSeq
<1>3. <<str[1]>> \in Seq(S) /\ Len(<<str[1]>>) = 1 /\ <<str[1]>>[1] = str[1]
  BY <1>2
<1> DEFINE new == <<str[1]>> \o Tail(str)
<1>4. /\ new \in Seq(S) /\ Len(new) = Len(str)
      /\ \A i \in 1..Len(str) : new[i] = IF i <= 1 THEN <<str[1]>>[i] ELSE Tail(str)[i - 1]
  BY <1>1, <1>2, <1>3, ConcatProperties
<1>5. \A i \in 1..Len(str) : new[i] = str[i]
  BY <1>1, <1>2, <1>3, <1>4
<1>6. new = str
  BY <1>4, <1>5, SeqEqual
<1> QED BY <1>1, <1>2, <1>6

LEMMA TextInduction ==
  ASSUME NEW S, NEW G \in SUBSET Seq(S), <<>> \in G,
         \A c \in S, rest \in Seq(S) :
           (\A t \in Seq(S) : Len(t) <= Len(rest) => t \in G) => <<c>> \o rest \in G
  PROVE  \A t \in Seq(S) : t \in G
<1> DEFINE B == {Len(t) : t \in Seq(S) \ G}
<1> SUFFICES ASSUME B # {} PROVE FALSE
  OBVIOUS
<1>1. PICK n \in B : \A m \in B : n <= m
  <2>1. \A t \in Seq(S) : Len(t) \in Nat
    BY LenProperties
  <2>2. B \in SUBSET Nat
    BY <2>1
  <2> QED BY <2>2, LeastOf
<1>2. PICK t \in Seq(S) \ G : n = Len(t)
  OBVIOUS
<1>3. /\ t[1] \in S /\ Tail(t) \in Seq(S) /\ t = <<t[1]>> \o Tail(t)
      /\ Len(Tail(t)) = Len(t) - 1 /\ Len(t) \in Nat
  BY <1>2, FirstAndRest
<1>4. \A u \in Seq(S) : Len(u) <= Len(Tail(t)) => u \in G
  <2> SUFFICES ASSUME NEW u \in Seq(S) \ G PROVE ~(Len(u) <= Len(Tail(t)))
    OBVIOUS
  <2>1. Len(u) \in Nat /\ n <= Len(u)
    BY <1>1, LenProperties
  <2> QED BY <1>2, <1>3, <2>1
<1>5. <<t[1]>> \o Tail(t) \in G
  BY <1>3, <1>4
<1> QED BY <1>2, <1>3, <1>5

-----------------------------------------------------------------------------
(* find_and_replace                                                        *)

(* One round of its loop, at position i                                     *)
Round(f, str, substr, repl, i) ==
  IF i > Len(str) THEN <<>>
  ELSE IF IsPrefix(substr, SubSeq(str, i, Len(str)))
       THEN repl \o f[i + Len(substr)]
       ELSE <<str[i]>> \o f[i + 1]

Rounds(f, str, substr, repl) ==
  f = [i \in 1..Len(str) + 1 |-> Round(f, str, substr, repl, i)]

LEMMA NextRound ==
  ASSUME NEW S, NEW str \in Seq(S), NEW substr \in Seq(S), substr # <<>>,
         NEW i \in 1..Len(str)
  PROVE  /\ SubSeq(str, i, Len(str)) \in Seq(S)
         /\ Len(SubSeq(str, i, Len(str))) = Len(str) - i + 1
         /\ Len(substr) \in Nat /\ Len(substr) >= 1 /\ Len(str) \in Nat
         /\ IsPrefix(substr, SubSeq(str, i, Len(str))) => i + Len(substr) \in i + 1..Len(str) + 1
<1>1. Len(str) \in Nat /\ Len(substr) \in Nat /\ Len(substr) >= 1
  BY EmptySeq, LenProperties
<1>2. \A j \in i..Len(str) : str[j] \in S
  BY <1>1, ElementOfSeq
<1>3. SubSeq(str, i, Len(str)) \in Seq(S) /\ Len(SubSeq(str, i, Len(str))) = Len(str) - i + 1
  BY <1>1, <1>2, SubSeqProperties
<1> QED BY <1>1, <1>3 DEF IsPrefix

LEMMA RoundsExist ==
  ASSUME NEW S, NEW str \in Seq(S), NEW substr \in Seq(S), substr # <<>>,
         NEW repl \in Seq(S)
  PROVE  \E f \in [1..Len(str) + 1 -> Seq(S)] : Rounds(f, str, substr, repl)
<1> DEFINE n    == Len(str)
           D(k) == n + 1 - k..n + 1
           R(f, i) == Round(f, str, substr, repl, i)
           Good == {k \in Nat : \E f \in [D(k) -> Seq(S)] : \A i \in D(k) : f[i] = R(f, i)}
<1>0. n \in Nat
  BY LenProperties
<1>1. 0 \in Good
  <2> DEFINE f == [i \in D(0) |-> <<>>]
  <2>1. f \in [D(0) -> Seq(S)] /\ \A i \in D(0) : f[i] = R(f, i)
    BY <1>0 DEF Round
  <2> QED BY <2>1
<1>2. ASSUME NEW k \in 0..n - 1, k \in Good
      PROVE  k + 1 \in Good
  <2>1. PICK f \in [D(k) -> Seq(S)] : \A i \in D(k) : f[i] = R(f, i)
    BY <1>2
  <2> DEFINE g == [i \in D(k + 1) |-> R(f, i)]
  <2>2. \A i \in D(k + 1) : i <= n =>
          /\ i \in 1..n /\ i + 1 \in D(k)
          /\ IsPrefix(substr, SubSeq(str, i, n)) => i + Len(substr) \in D(k)
    BY <1>0, NextRound
  <2>3. \A i \in D(k) : i \in D(k + 1) /\ g[i] = f[i]
    BY <1>0, <2>1
  <2>4. \A i \in D(k + 1) : g[i] = R(g, i)
    <3> TAKE i \in D(k + 1)
    <3>1. CASE i > n
      BY <3>1 DEF Round
    <3>2. CASE i <= n
      BY <1>0, <2>2, <2>3, <3>2 DEF Round
    <3> QED BY <1>0, <3>1, <3>2
  <2>5. \A i \in D(k + 1) : g[i] \in Seq(S)
    <3> TAKE i \in D(k + 1)
    <3>1. CASE i > n
      BY <3>1 DEF Round
    <3>2. CASE i <= n
      <4>1. i \in 1..n /\ str[i] \in S /\ <<str[i]>> \in Seq(S)
        BY <1>0, <3>2, ElementOfSeq
      <4>2. f[i + 1] \in Seq(S)
        BY <2>2, <3>2
      <4>3. IsPrefix(substr, SubSeq(str, i, n)) => f[i + Len(substr)] \in Seq(S)
        BY <2>2, <3>2
      <4>4. g[i] = IF IsPrefix(substr, SubSeq(str, i, n)) THEN repl \o f[i + Len(substr)]
                   ELSE <<str[i]>> \o f[i + 1]
        BY <1>0, <3>2 DEF Round
      <4>5. CASE IsPrefix(substr, SubSeq(str, i, n))
        <5>1. repl \o f[i + Len(substr)] \in Seq(S)
          BY <4>3, <4>5, ConcatProperties
        <5> QED BY <4>4, <4>5, <5>1
      <4>6. CASE ~IsPrefix(substr, SubSeq(str, i, n))
        <5>1. <<str[i]>> \o f[i + 1] \in Seq(S)
          BY <4>1, <4>2, ConcatProperties
        <5> QED BY <4>4, <4>6, <5>1
      <4> QED BY <4>5, <4>6
    <3> QED BY <1>0, <3>1, <3>2
  <2>6. g \in [D(k + 1) -> Seq(S)]
    BY <2>5
  <2>7. k + 1 \in Nat
    BY <1>0
  <2> QED BY <2>4, <2>6, <2>7
<1>3. n \in Good
  <2> HIDE DEF Good
  <2>1. Good \in SUBSET Nat
    BY DEF Good
  <2>2. \A k \in 0..n : k \in Good
    <3> HIDE DEF n
    <3> QED BY <1>0, <1>1, <1>2, <2>1, UpTo
  <2> QED BY <1>0, <2>2
<1>4. PICK f \in [D(n) -> Seq(S)] : \A i \in D(n) : f[i] = R(f, i)
  BY <1>3
<1>5. D(n) = 1..n + 1
  BY <1>0
<1>6. f = [i \in 1..n + 1 |-> R(f, i)]
  BY <1>4, <1>5
<1> QED BY <1>4, <1>5, <1>6 DEF Rounds

LEMMA RoundsAreUnique ==
  ASSUME NEW S, NEW str \in Seq(S), NEW substr \in Seq(S), substr # <<>>,
         NEW repl, NEW f, NEW g,
         Rounds(f, str, substr, repl), Rounds(g, str, substr, repl)
  PROVE  f = g
<1> DEFINE n == Len(str)
           Good == {k \in Nat : \A i \in n + 1 - k..n + 1 : f[i] = g[i]}
<1>0. n \in Nat
  BY LenProperties
<1>a. \A i \in 1..n + 1 : f[i] = Round(f, str, substr, repl, i) /\ g[i] = Round(g, str, substr, repl, i)
  BY DEF Rounds
<1>1. 0 \in Good
  <2>1. n + 1 \in 1..n + 1 /\ n + 1 > n
    BY <1>0
  <2>3. Round(f, str, substr, repl, n + 1) = <<>> /\ Round(g, str, substr, repl, n + 1) = <<>>
    BY <2>1 DEF Round
  <2>2. \A i \in n + 1 - 0..n + 1 : i = n + 1
    BY <1>0
  <2> QED BY <1>a, <2>1, <2>2, <2>3
<1>2. ASSUME NEW k \in 0..n - 1, k \in Good
      PROVE  k + 1 \in Good
  <2>1. \A i \in n + 1 - k..n + 1 : f[i] = g[i]
    BY <1>2
  <2> DEFINE j == n - k
  <2>2. j \in 1..n /\ j + 1 \in n + 1 - k..n + 1
    BY <1>0
  <2>3. IsPrefix(substr, SubSeq(str, j, n)) => j + Len(substr) \in n + 1 - k..n + 1
    <3> HIDE DEF j
    <3>1. IsPrefix(substr, SubSeq(str, j, n)) => j + Len(substr) \in j + 1..n + 1
      BY <2>2, NextRound
    <3> QED BY <1>0, <3>1 DEF j
  <2>4. f[j] = g[j]
    <3>0. j \in 1..n + 1 /\ ~(j > n)
      BY <1>0, <2>2
    <3> HIDE DEF j
    <3>1. /\ j \in 1..n + 1 /\ ~(j > n) /\ f[j + 1] = g[j + 1]
          /\ IsPrefix(substr, SubSeq(str, j, n)) => f[j + Len(substr)] = g[j + Len(substr)]
      BY <2>1, <2>2, <2>3, <3>0
    <3>2. Round(f, str, substr, repl, j) = Round(g, str, substr, repl, j)
      BY <3>1 DEF Round
    <3> QED BY <1>a, <3>1, <3>2
  <2>5. \A i \in n + 1 - (k + 1)..n + 1 : i = j \/ i \in n + 1 - k..n + 1
    BY <1>0
  <2> QED BY <2>1, <2>4, <2>5
<1>3. n \in Good
  <2> HIDE DEF Good
  <2>1. Good \in SUBSET Nat
    BY DEF Good
  <2>2. \A k \in 0..n : k \in Good
    <3> HIDE DEF n
    <3> QED BY <1>0, <1>1, <1>2, <2>1, UpTo
  <2> QED BY <1>0, <2>2
<1>4. \A i \in 1..n + 1 : f[i] = g[i]
  BY <1>0, <1>3
<1> QED BY <1>4 DEF Rounds

LEMMA ReplaceIsRounds ==
  ASSUME NEW S, NEW str \in Seq(S), NEW substr \in Seq(S), substr # <<>>,
         NEW repl \in Seq(S), NEW f, Rounds(f, str, substr, repl)
  PROVE  find_and_replace(str, substr, repl) = f[1]
<1> DEFINE from == CHOOSE g : Rounds(g, str, substr, repl)
<1>1. find_and_replace(str, substr, repl) = from[1]
  BY DEF find_and_replace, Rounds, Round
<1>2. Rounds(from, str, substr, repl)
  OBVIOUS
<1>3. from = f
  <2> HIDE DEF from
  <2> QED BY <1>2, RoundsAreUnique
<1> QED BY <1>1, <1>3

LEMMA ReplaceType ==
  ASSUME NEW S, NEW str \in Seq(S), NEW substr \in Seq(S), substr # <<>>,
         NEW repl \in Seq(S)
  PROVE  find_and_replace(str, substr, repl) \in Seq(S)
<1>1. PICK f \in [1..Len(str) + 1 -> Seq(S)] : Rounds(f, str, substr, repl)
  BY RoundsExist
<1>2. f[1] \in Seq(S)
  <2>1. 1 \in 1..Len(str) + 1
    BY LenProperties
  <2> QED BY <1>1, <2>1
<1>3. find_and_replace(str, substr, repl) = f[1]
  BY <1>1, ReplaceIsRounds
<1> QED BY <1>2, <1>3

LEMMA SuffixOfSuffix ==
  ASSUME NEW S, NEW str \in Seq(S), NEW i \in 1..Len(str) + 1,
         NEW j \in 1..Len(str) - i + 2
  PROVE  /\ SubSeq(str, i, Len(str)) \in Seq(S)
         /\ Len(SubSeq(str, i, Len(str))) = Len(str) - i + 1
         /\ j <= Len(str) - i + 1 => SubSeq(str, i, Len(str))[j] = str[i + j - 1]
         /\ SubSeq(SubSeq(str, i, Len(str)), j, Len(str) - i + 1) = SubSeq(str, i + j - 1, Len(str))
<1> DEFINE n == Len(str)
           u == SubSeq(str, i, n)
           v == SubSeq(u, j, n - i + 1)
           w == SubSeq(str, i + j - 1, n)
<1>1. n \in Nat
  BY LenProperties
<1>2. \A k \in 1..n : str[k] \in S
  BY ElementOfSeq
<1>3. u \in Seq(S) /\ Len(u) = n - i + 1 /\ \A k \in 1..n - i + 1 : u[k] = str[i + k - 1]
  <2>1. \A k \in i..n : str[k] \in S
    BY <1>1, <1>2
  <2> QED BY <1>1, <2>1, SubSeqProperties
<1>4. v \in Seq(S) /\ Len(v) = n - i - j + 2 /\ \A k \in 1..n - i - j + 2 : v[k] = u[j + k - 1]
  <2> HIDE DEF u
  <2> DEFINE m == n - i + 1
  <2>1. \A k \in j..m : u[k] \in S
    BY <1>1, <1>3, ElementOfSeq
  <2>2. m \in Nat /\ (m - j) + 1 = n - i - j + 2 /\ j \in Int /\ j <= m + 1
    BY <1>1
  <2>3. /\ v \in Seq(S) /\ Len(v) = IF j <= m THEN m - j + 1 ELSE 0
        /\ \A k \in 1..m - j + 1 : v[k] = u[j + k - 1]
    <3> HIDE DEF m
    <3> QED BY <2>1, <2>2, SubSeqProperties DEF m
  <2> QED BY <2>2, <2>3
<1>5. w \in Seq(S) /\ Len(w) = n - i - j + 2 /\ \A k \in 1..n - i - j + 2 : w[k] = str[i + j + k - 2]
  <2>1. \A k \in i + j - 1..n : str[k] \in S
    BY <1>1, <1>2
  <2> QED BY <1>1, <2>1, SubSeqProperties
<1>6. \A k \in 1..Len(v) : v[k] = w[k]
  <2> HIDE DEF u, v, w
  <2> TAKE k \in 1..Len(v)
  <2>1. j + k - 1 \in 1..n - i + 1 /\ i + (j + k - 1) - 1 = i + j + k - 2
    BY <1>1, <1>4
  <2> QED BY <1>3, <1>4, <1>5, <2>1
<1>7. v = w
  BY <1>4, <1>5, <1>6, SeqEqual
<1> HIDE DEF u, v, w
<1>8. j <= n - i + 1 => u[j] = str[i + j - 1]
  BY <1>1, <1>3
<1> QED BY <1>3, <1>7, <1>8 DEF u, v, w

(* What the loop makes of the rest of a text, it makes of it as a text.     *)
LEMMA ReplaceRest ==
  ASSUME NEW S, NEW str \in Seq(S), NEW substr \in Seq(S), substr # <<>>,
         NEW repl \in Seq(S), NEW f, Rounds(f, str, substr, repl),
         NEW i \in 1..Len(str) + 1
  PROVE  f[i] = find_and_replace(SubSeq(str, i, Len(str)), substr, repl)
<1> DEFINE n == Len(str)
           u == SubSeq(str, i, n)
           m == n - i + 1
           g == [j \in 1..m + 1 |-> f[i + j - 1]]
<1>1. n \in Nat /\ m \in Nat /\ 1 \in 1..m + 1
  BY LenProperties
<1>2. u \in Seq(S) /\ Len(u) = m
  BY <1>1, SuffixOfSuffix
<1>3. ASSUME NEW j \in 1..m + 1
      PROVE  g[j] = Round(g, u, substr, repl, j)
  <2> DEFINE k == i + j - 1
  <2>1. k \in 1..n + 1 /\ (k > n <=> j > m) /\ g[j] = f[k]
    BY <1>1
  <2>2. f[k] = Round(f, str, substr, repl, k)
    BY <2>1 DEF Rounds
  <2>3. (j <= m => u[j] = str[k]) /\ SubSeq(u, j, m) = SubSeq(str, k, n)
    BY <1>1, SuffixOfSuffix
  <2>4. CASE j > m
    BY <1>2, <2>1, <2>2, <2>4 DEF Round
  <2>5. CASE j <= m
    <3>1. k \in 1..n /\ g[j + 1] = f[k + 1]
      BY <1>1, <2>5
    <3>2. ASSUME IsPrefix(substr, SubSeq(str, k, n))
          PROVE  g[j + Len(substr)] = f[k + Len(substr)]
      <4>1. k + Len(substr) \in k + 1..n + 1 /\ Len(substr) \in Nat
        <5> HIDE DEF k
        <5> QED BY <3>1, <3>2, NextRound
      <4>2. j + Len(substr) \in 1..m + 1 /\ i + (j + Len(substr)) - 1 = k + Len(substr)
        BY <1>1, <2>5, <4>1
      <4> QED BY <4>2
    <3> HIDE DEF g, k, u
    <3>3. ~(j > m) /\ ~(k > n)
      BY <1>1, <2>1, <2>5
    <3>4. Round(g, u, substr, repl, j) = Round(f, str, substr, repl, k)
      BY <1>2, <2>3, <2>5, <3>1, <3>2, <3>3 DEF Round
    <3> QED BY <2>1, <2>2, <3>4
  <2> QED BY <1>1, <2>4, <2>5
<1>4. Rounds(g, u, substr, repl)
  BY <1>2, <1>3 DEF Rounds
<1>5. find_and_replace(u, substr, repl) = g[1]
  <2> HIDE DEF u, g
  <2> QED BY <1>2, <1>4, ReplaceIsRounds
<1>6. g[1] = f[i]
  BY <1>1
<1> QED BY <1>5, <1>6

LEMMA SuffixFrom2 ==
  ASSUME NEW S, NEW str \in Seq(S), str # <<>>
  PROVE  SubSeq(str, 2, Len(str)) = Tail(str)
BY TailIsSubSeq

LEMMA ReplaceStep ==
  ASSUME NEW S, NEW str \in Seq(S), str # <<>>, NEW substr \in Seq(S), substr # <<>>,
         NEW repl \in Seq(S)
  PROVE  find_and_replace(str, substr, repl) =
           IF IsPrefix(substr, str)
           THEN repl \o find_and_replace(SubSeq(str, Len(substr) + 1, Len(str)), substr, repl)
           ELSE <<str[1]>> \o find_and_replace(Tail(str), substr, repl)
<1>1. PICK f \in [1..Len(str) + 1 -> Seq(S)] : Rounds(f, str, substr, repl)
  BY RoundsExist
<1>2. Len(str) \in Nat /\ Len(str) >= 1 /\ Len(substr) \in Nat /\ Len(substr) >= 1
  BY FirstAndRest
<1>3. SubSeq(str, 1, Len(str)) = str /\ SubSeq(str, 2, Len(str)) = Tail(str)
  BY SubSeqFull, SuffixFrom2
<1>4. f[1] = Round(f, str, substr, repl, 1)
  BY <1>1, <1>2 DEF Rounds
<1>5. find_and_replace(str, substr, repl) = f[1]
  BY <1>1, ReplaceIsRounds
<1>6. f[2] = find_and_replace(Tail(str), substr, repl)
  <2>1. 2 \in 1..Len(str) + 1
    BY <1>2
  <2>2. f[2] = find_and_replace(SubSeq(str, 2, Len(str)), substr, repl)
    BY <1>1, <2>1, ReplaceRest
  <2> QED BY <1>3, <2>2
<1>7. ASSUME IsPrefix(substr, str)
      PROVE  f[1 + Len(substr)] =
               find_and_replace(SubSeq(str, Len(substr) + 1, Len(str)), substr, repl)
  <2>1. Len(substr) <= Len(str)
    BY <1>7 DEF IsPrefix
  <2>2. 1 + Len(substr) \in 1..Len(str) + 1 /\ 1 + Len(substr) = Len(substr) + 1
    BY <1>2, <2>1
  <2>3. f[1 + Len(substr)] =
          find_and_replace(SubSeq(str, 1 + Len(substr), Len(str)), substr, repl)
    BY <1>1, <2>2, ReplaceRest
  <2> QED BY <2>2, <2>3
<1>8. f[1] = IF IsPrefix(substr, str) THEN repl \o f[1 + Len(substr)] ELSE <<str[1]>> \o f[2]
  <2>1. ~(1 > Len(str)) /\ 1 + 1 = 2
    BY <1>2
  <2>2. Round(f, str, substr, repl, 1) =
          IF IsPrefix(substr, SubSeq(str, 1, Len(str))) THEN repl \o f[1 + Len(substr)]
          ELSE <<str[1]>> \o f[1 + 1]
    BY ONLY <2>1 DEF Round
  <2> QED BY <1>3, <1>4, <2>1, <2>2
<1> QED BY <1>5, <1>6, <1>7, <1>8

LEMMA ReplaceNothing ==
  ASSUME NEW S, NEW substr \in Seq(S), substr # <<>>, NEW repl \in Seq(S)
  PROVE  find_and_replace(<<>>, substr, repl) = <<>>
<1> <<>> \in Seq(S) /\ Len(<<>>) = 0
  BY EmptySeq
<1>1. PICK f \in [1..Len(<<>>) + 1 -> Seq(S)] : Rounds(f, <<>>, substr, repl)
  BY RoundsExist
<1>2. 1 \in 1..Len(<<>>) + 1 /\ 1 > Len(<<>>)
  OBVIOUS
<1>3. Round(f, <<>>, substr, repl, 1) = <<>>
  BY <1>2 DEF Round
<1>4. f[1] = <<>>
  BY <1>1, <1>2, <1>3 DEF Rounds
<1> QED BY <1>1, <1>4, ReplaceIsRounds
-----------------------------------------------------------------------------
(* Escaping                                                                *)

(* The space as a name: the SMT backend cannot write the literal.           *)
Blank == " "

LEMMA BlankIsNo == Blank # "\\"
BY Zenon DEF Blank

LEMMA EscapeIs ==
  ASSUME NEW t
  PROVE  /\ Escape(t) = find_and_replace(t, <<Blank>>, <<"\\", Blank>>)
         /\ Unescape(t) = find_and_replace(t, <<"\\", Blank>>, <<Blank>>)
BY Zenon DEF Escape, Unescape, Blank

LEMMA PrefixByCharacter ==
  ASSUME NEW S, NEW s \in Seq(S), NEW t \in Seq(S)
  PROVE  IsPrefix(s, t) <=> Len(s) <= Len(t) /\ \A i \in 1..Len(s) : s[i] = t[i]
<1>1. Len(s) \in Nat /\ Len(t) \in Nat /\ SubSeq(s, 1, Len(s)) = s
  BY LenProperties, SubSeqFull
<1>2. ASSUME Len(s) <= Len(t)
      PROVE  SubSeq(s, 1, Len(s)) = SubSeq(t, 1, Len(s)) <=> \A i \in 1..Len(s) : s[i] = t[i]
  <2> DEFINE u == SubSeq(t, 1, Len(s))
  <2>1. \A i \in 1..Len(s) : t[i] \in S
    BY <1>1, <1>2, ElementOfSeq
  <2>2. Len(s) - 1 + 1 = Len(s) /\ \A i \in 1..Len(s) : 1 + i - 1 = i
    BY <1>1
  <2>3. u \in Seq(S) /\ Len(u) = Len(s) /\ \A i \in 1..Len(s) : u[i] = t[i]
    BY <1>1, <2>1, <2>2, SubSeqProperties
  <2> HIDE DEF u
  <2>4. s = u <=> \A i \in 1..Len(s) : s[i] = u[i]
    BY <2>3, SeqEqual
  <2> QED BY <1>1, <2>3, <2>4 DEF u
<1> QED BY <1>2 DEF IsPrefix

LEMMA LongerBy1 ==
  ASSUME NEW S, NEW c \in S, NEW rest \in Seq(S)
  PROVE  LET t == <<c>> \o rest
         IN /\ t \in Seq(S) /\ t # <<>> /\ Len(t) = Len(rest) + 1 /\ Len(rest) \in Nat
            /\ t[1] = c /\ Tail(t) = rest
            /\ \A i \in 1..Len(rest) : t[i + 1] = rest[i]
<1> DEFINE t == <<c>> \o rest
<1>1. <<c>> \in Seq(S) /\ Len(<<c>>) = 1 /\ <<c>>[1] = c /\ Len(rest) \in Nat
  BY LenProperties
<1>2. /\ t \in Seq(S) /\ Len(t) = 1 + Len(rest)
      /\ \A i \in 1..1 + Len(rest) : t[i] = IF i <= 1 THEN <<c>>[i] ELSE rest[i - 1]
  BY <1>1, ConcatProperties
<1> HIDE DEF t
<1>3. t # <<>> /\ t[1] = c /\ \A i \in 1..Len(rest) : t[i + 1] = rest[i]
  BY <1>1, <1>2
<1>4. /\ Tail(t) \in Seq(S) /\ Len(Tail(t)) = Len(rest)
      /\ \A i \in 1..Len(rest) : Tail(t)[i] = rest[i]
  BY <1>1, <1>2, <1>3, HeadTailProperties
<1>5. Tail(t) = rest
  BY <1>4, SeqEqual
<1> QED BY <1>1, <1>2, <1>3, <1>5 DEF t

LEMMA PairOf ==
  ASSUME NEW S, NEW b \in S, NEW c \in S
  PROVE  <<b>> \o <<c>> = <<b, c>>
<1> DEFINE x == <<b>>
           y == <<c>>
           z == <<b, c>>
           w == x \o y
<1>1. x \in Seq(S) /\ Len(x) = 1 /\ x[1] = b /\ y \in Seq(S) /\ Len(y) = 1 /\ y[1] = c
  OBVIOUS
<1>2. z \in Seq(S) /\ Len(z) = 2 /\ z[1] = b /\ z[2] = c
  OBVIOUS
<1>3. /\ w \in Seq(S) /\ Len(w) = Len(x) + Len(y)
      /\ \A i \in 1..Len(x) + Len(y) : w[i] = IF i <= Len(x) THEN x[i] ELSE y[i - Len(x)]
  <2> HIDE DEF x, y
  <2>1. x \in Seq(S) /\ y \in Seq(S)
    BY <1>1
  <2> QED BY <2>1, ConcatProperties
<1> HIDE DEF x, y, z, w
<1>4. \A i \in 1..2 : w[i] = z[i]
  <2>1. 1 \in 1..Len(x) + Len(y) /\ 1 <= Len(x) /\ 2 \in 1..Len(x) + Len(y) /\ ~(2 <= Len(x))
        /\ 2 - Len(x) = 1
    BY <1>1
  <2>2. w[1] = b /\ w[2] = c
    BY <1>1, <1>3, <2>1
  <2>3. \A i \in 1..2 : i = 1 \/ i = 2
    OBVIOUS
  <2> QED BY <1>2, <2>2, <2>3
<1>5. Len(w) = Len(z) /\ \A i \in 1..Len(w) : w[i] = z[i]
  BY <1>1, <1>2, <1>3, <1>4
<1>6. w \in Seq(S) /\ z \in Seq(S)
  BY <1>2, <1>3
<1>7. w = z
  BY <1>5, <1>6, SeqEqual
<1> QED BY <1>7 DEF w, x, y, z

LEMMA PairFirst ==
  ASSUME NEW S, NEW b \in S, NEW c \in S, NEW rest \in Seq(S)
  PROVE  <<b, c>> \o rest = <<b>> \o (<<c>> \o rest)
<1> DEFINE x == <<b>>
           y == <<c>>
<1>1. x \in Seq(S) /\ y \in Seq(S)
  OBVIOUS
<1>2. x \o y = <<b, c>>
  BY PairOf
<1> HIDE DEF x, y
<1>3. (x \o y) \o rest = x \o (y \o rest)
  BY <1>1, ConcatAssociative
<1> QED BY <1>2, <1>3 DEF x, y

LEMMA LongerBy2 ==
  ASSUME NEW S, NEW b \in S, NEW c \in S, NEW rest \in Seq(S)
  PROVE  LET t == <<b, c>> \o rest
         IN /\ t \in Seq(S) /\ t # <<>> /\ Len(t) = Len(rest) + 2 /\ Len(rest) \in Nat
            /\ t[1] = b /\ t[2] = c /\ SubSeq(t, 3, Len(t)) = rest
            /\ \A i \in 1..Len(rest) : t[i + 2] = rest[i]
<1> DEFINE u == <<c>> \o rest
           t == <<b, c>> \o rest
<1>1. /\ u \in Seq(S) /\ Len(u) = Len(rest) + 1 /\ Len(rest) \in Nat
      /\ u[1] = c /\ \A i \in 1..Len(rest) : u[i + 1] = rest[i]
  BY LongerBy1
<1>3. t = <<b>> \o u
  BY PairFirst
<1> HIDE DEF u, t
<1>4. /\ t \in Seq(S) /\ t # <<>> /\ Len(t) = Len(rest) + 2
      /\ t[1] = b /\ \A i \in 1..Len(u) : t[i + 1] = u[i]
  BY <1>1, <1>3, LongerBy1
<1>5. t[2] = c /\ \A i \in 1..Len(rest) : t[i + 2] = rest[i]
  <2>1. t[1 + 1] = u[1]
    BY <1>1, <1>4
  <2>2. ASSUME NEW i \in 1..Len(rest)
        PROVE  t[i + 2] = rest[i]
    <3>1. i + 1 \in 1..Len(u) /\ (i + 1) + 1 = i + 2
      BY <1>1
    <3> QED BY <1>1, <1>4, <3>1
  <2> QED BY <1>1, <2>1, <2>2
<1>6. SubSeq(t, 3, Len(t)) = rest
  <2> DEFINE v == SubSeq(t, 3, Len(t))
  <2>1. \A i \in 3..Len(t) : t[i] \in S
    BY <1>4, ElementOfSeq
  <2>2. Len(t) - 3 + 1 = Len(rest) /\ Len(t) \in Int
    BY <1>1, <1>4
  <2>3. v \in Seq(S) /\ Len(v) = Len(rest) /\ \A i \in 1..Len(rest) : v[i] = t[3 + i - 1]
    BY <1>1, <1>4, <2>1, <2>2, SubSeqProperties
  <2>4. \A i \in 1..Len(rest) : v[i] = rest[i]
    <3> TAKE i \in 1..Len(rest)
    <3>1. 3 + i - 1 = i + 2
      BY <1>1
    <3> QED BY <1>5, <2>3, <3>1
  <2> HIDE DEF v
  <2>5. v = rest
    BY <2>3, <2>4, SeqEqual
  <2> QED BY <2>5 DEF v
<1> QED BY <1>1, <1>3, <1>4, <1>5, <1>6 DEF u, t

LEMMA BeginsWith1 ==
  ASSUME NEW S, NEW a \in S, NEW str \in Seq(S), str # <<>>
  PROVE  IsPrefix(<<a>>, str) <=> str[1] = a
<1> DEFINE s == <<a>>
<1>1. Len(str) \in Nat /\ Len(str) >= 1
  BY FirstAndRest
<1>2. s \in Seq(S) /\ Len(s) = 1 /\ s[1] = a
  OBVIOUS
<1> HIDE DEF s
<1>3. IsPrefix(s, str) <=> Len(s) <= Len(str) /\ \A i \in 1..Len(s) : s[i] = str[i]
  <2>1. s \in Seq(S) /\ str \in Seq(S)
    BY <1>2
  <2> QED BY <2>1, PrefixByCharacter
<1>4. \A i \in 1..Len(s) : i = 1
  BY <1>2
<1>5. 1 \in 1..Len(s)
  BY <1>2
<1> QED BY <1>1, <1>2, <1>3, <1>4, <1>5 DEF s

LEMMA BeginsWith2 ==
  ASSUME NEW S, NEW a \in S, NEW b \in S, NEW str \in Seq(S)
  PROVE  IsPrefix(<<a, b>>, str) <=> Len(str) >= 2 /\ str[1] = a /\ str[2] = b
<1> DEFINE s == <<a, b>>
<1>1. Len(str) \in Nat
  BY LenProperties
<1>2. s \in Seq(S) /\ Len(s) = 2 /\ s[1] = a /\ s[2] = b
  OBVIOUS
<1> HIDE DEF s
<1>3. IsPrefix(s, str) <=> Len(s) <= Len(str) /\ \A i \in 1..Len(s) : s[i] = str[i]
  <2>1. s \in Seq(S) /\ str \in Seq(S)
    BY <1>2
  <2> QED BY <2>1, PrefixByCharacter
<1>4. \A i \in 1..Len(s) : i = 1 \/ i = 2
  BY <1>2
<1>5. 1 \in 1..Len(s) /\ 2 \in 1..Len(s)
  BY <1>2
<1> QED BY <1>1, <1>2, <1>3, <1>4, <1>5 DEF s

LEMMA EscapeStep ==
  ASSUME NEW S, Blank \in S, "\\" \in S, NEW c \in S, NEW rest \in Seq(S)
  PROVE  /\ Escape(rest) \in Seq(S)
         /\ Escape(<<c>> \o rest) = (IF c = Blank THEN <<"\\", Blank>> ELSE <<c>>) \o Escape(rest)
<1> DEFINE t == <<c>> \o rest
<1>1. <<Blank>> \in Seq(S) /\ <<Blank>> # <<>> /\ Len(<<Blank>>) = 1 /\ <<"\\", Blank>> \in Seq(S)
  OBVIOUS
<1>2. t \in Seq(S) /\ t # <<>> /\ t[1] = c /\ Tail(t) = rest
  BY LongerBy1
<1>3. SubSeq(t, 2, Len(t)) = rest
  BY <1>2, SuffixFrom2
<1> HIDE DEF t
<1>4. IsPrefix(<<Blank>>, t) <=> c = Blank
  BY <1>2, BeginsWith1
<1>5. find_and_replace(t, <<Blank>>, <<"\\", Blank>>) =
        IF IsPrefix(<<Blank>>, t)
        THEN <<"\\", Blank>> \o find_and_replace(SubSeq(t, Len(<<Blank>>) + 1, Len(t)), <<Blank>>, <<"\\", Blank>>)
        ELSE <<t[1]>> \o find_and_replace(Tail(t), <<Blank>>, <<"\\", Blank>>)
  BY <1>1, <1>2, ReplaceStep
<1>6. find_and_replace(rest, <<Blank>>, <<"\\", Blank>>) \in Seq(S)
  BY <1>1, ReplaceType
<1>7. Len(<<Blank>>) + 1 = 2
  BY <1>1
<1>8. find_and_replace(t, <<Blank>>, <<"\\", Blank>>) =
        (IF c = Blank THEN <<"\\", Blank>> ELSE <<c>>)
          \o find_and_replace(rest, <<Blank>>, <<"\\", Blank>>)
  BY <1>2, <1>3, <1>4, <1>5, <1>7
<1>9. Escape(t) = (IF c = Blank THEN <<"\\", Blank>> ELSE <<c>>) \o Escape(rest)
  BY <1>8, EscapeIs, Zenon
<1>10. Escape(rest) \in Seq(S)
  BY <1>6, EscapeIs, Zenon
<1> QED BY <1>9, <1>10 DEF t

LEMMA UnescapeStep ==
  ASSUME NEW S, Blank \in S, "\\" \in S, NEW rest \in Seq(S)
  PROVE  /\ Unescape(rest) \in Seq(S)
         /\ Unescape(<<"\\", Blank>> \o rest) = <<Blank>> \o Unescape(rest)
         /\ \A c \in S : ~(c = "\\" /\ rest # <<>> /\ rest[1] = Blank) =>
              Unescape(<<c>> \o rest) = <<c>> \o Unescape(rest)
<1> DEFINE sp == <<Blank>>
           es == <<"\\", Blank>>
<1>1. sp \in Seq(S) /\ es \in Seq(S) /\ es # <<>> /\ Len(es) = 2
  OBVIOUS
<1>2. Unescape(rest) \in Seq(S)
  BY <1>1, ReplaceType, EscapeIs
<1>3. Unescape(es \o rest) = sp \o Unescape(rest)
  <2> DEFINE t == es \o rest
  <2>1. /\ t \in Seq(S) /\ t # <<>> /\ Len(t) >= 2 /\ t[1] = "\\" /\ t[2] = Blank
        /\ SubSeq(t, 3, Len(t)) = rest
    BY LongerBy2
  <2> HIDE DEF t
  <2>2. IsPrefix(es, t)
    BY <2>1, BeginsWith2
  <2>3. find_and_replace(t, es, sp) = sp \o find_and_replace(SubSeq(t, Len(es) + 1, Len(t)), es, sp)
    <3> HIDE DEF es, sp
    <3> QED BY <1>1, <2>1, <2>2, ReplaceStep
  <2>4. Len(es) + 1 = 3
    BY <1>1
  <2>5. find_and_replace(t, es, sp) = sp \o find_and_replace(rest, es, sp)
    <3> HIDE DEF es, sp
    <3> QED BY <2>1, <2>3, <2>4
  <2>6. Unescape(t) = sp \o Unescape(rest)
    BY <2>5, EscapeIs, Zenon
  <2> QED BY <2>6 DEF t
<1>4. ASSUME NEW c \in S, ~(c = "\\" /\ rest # <<>> /\ rest[1] = Blank)
      PROVE  Unescape(<<c>> \o rest) = <<c>> \o Unescape(rest)
  <2> DEFINE t == <<c>> \o rest
  <2>1. /\ t \in Seq(S) /\ t # <<>> /\ Len(t) = Len(rest) + 1 /\ Len(rest) \in Nat
        /\ t[1] = c /\ Tail(t) = rest /\ \A i \in 1..Len(rest) : t[i + 1] = rest[i]
    BY LongerBy1
  <2> HIDE DEF t
  <2>2. ~IsPrefix(es, t)
    <3> SUFFICES ASSUME IsPrefix(es, t) PROVE FALSE
      OBVIOUS
    <3>1. Len(t) >= 2 /\ t[1] = "\\" /\ t[2] = Blank
      BY <2>1, BeginsWith2
    <3>2. 1 \in 1..Len(rest) /\ t[1 + 1] = rest[1]
      BY <2>1, <3>1
    <3>3. rest # <<>>
      BY <3>2
    <3> QED BY <1>4, <2>1, <3>1, <3>2, <3>3
  <2>3. find_and_replace(t, es, sp) = <<t[1]>> \o find_and_replace(Tail(t), es, sp)
    <3> HIDE DEF es, sp
    <3> QED BY <1>1, <2>1, <2>2, ReplaceStep
  <2> QED BY <2>1, <2>3, EscapeIs DEF t
<1> QED BY <1>2, <1>3, <1>4

LEMMA EscapeNothing ==
  Escape(<<>>) = <<>> /\ Unescape(<<>>) = <<>>
<1>1. /\ <<Blank>> \in Seq({Blank, "\\"}) /\ <<"\\", Blank>> \in Seq({Blank, "\\"})
      /\ <<Blank>> # <<>> /\ <<"\\", Blank>> # <<>>
  OBVIOUS
<1> QED BY <1>1, ReplaceNothing, EscapeIs
(* Every space of a text comes after a backslash.                           *)
AllEscaped(t) == \A i \in 1..Len(t) : t[i] = Blank => i > 1 /\ t[i - 1] = "\\"

LEMMA EscapedIsOneWord ==
  ASSUME NEW S, Blank \in S, "\\" \in S
  PROVE  \A t \in Seq(S) :
           /\ Escape(t) \in Seq(S) /\ AllEscaped(Escape(t))
           /\ Escape(t) # <<>> => Escape(t)[1] # Blank
<1> DEFINE G == {t \in Seq(S) : /\ Escape(t) \in Seq(S) /\ AllEscaped(Escape(t))
                                /\ Escape(t) # <<>> => Escape(t)[1] # Blank}
<1>1. <<>> \in G
  <2>1. Len(<<>>) = 0 /\ <<>> \in Seq(S)
    OBVIOUS
  <2>2. AllEscaped(<<>>)
    BY <2>1 DEF AllEscaped
  <2> QED BY <2>1, <2>2, EscapeNothing
<1>2. ASSUME NEW c \in S, NEW rest \in Seq(S),
             \A t \in Seq(S) : Len(t) <= Len(rest) => t \in G
      PROVE  <<c>> \o rest \in G
  <2> DEFINE e == Escape(rest)
             x == Escape(<<c>> \o rest)
  <2>1. e \in Seq(S) /\ AllEscaped(e) /\ (e # <<>> => e[1] # Blank)
    <3>1. Len(rest) \in Nat
      BY LenProperties
    <3> QED BY <1>2, <3>1
  <2>2. <<c>> \o rest \in Seq(S)
    BY LongerBy1
  <2>3. x = (IF c = Blank THEN <<"\\", Blank>> ELSE <<c>>) \o e
    BY EscapeStep
  <2> HIDE DEF e, x
  <2>4. CASE c = Blank
    <3>1. x = <<"\\", Blank>> \o e
      BY <2>3, <2>4
    <3>2. /\ x \in Seq(S) /\ x # <<>> /\ Len(x) = Len(e) + 2 /\ Len(e) \in Nat
          /\ x[1] = "\\" /\ x[2] = Blank /\ \A i \in 1..Len(e) : x[i + 2] = e[i]
      <4> DEFINE y == <<"\\", Blank>> \o e
      <4>1. /\ y \in Seq(S) /\ y # <<>> /\ Len(y) = Len(e) + 2 /\ Len(e) \in Nat
            /\ y[1] = "\\" /\ y[2] = Blank /\ \A i \in 1..Len(e) : y[i + 2] = e[i]
        <5>1. e \in Seq(S)
          BY <2>1
        <5> QED BY <5>1, LongerBy2
      <4> HIDE DEF y
      <4>2. x = y
        BY <3>1 DEF y
      <4> QED BY <4>1, <4>2
    <3>3. ASSUME NEW i \in 1..Len(x), x[i] = Blank
          PROVE  i > 1 /\ x[i - 1] = "\\"
      <4>1. CASE i <= 2
        <5>1. i = 1 \/ i = 2
          BY <3>2, <4>1
        <5>2. i # 1
          BY <3>2, <3>3, BlankIsNo
        <5>3. i = 2 /\ i - 1 = 1
          BY <5>1, <5>2
        <5> QED BY <3>2, <5>3
      <4>2. CASE i > 2
        <5>1. i - 2 \in 1..Len(e) /\ (i - 2) + 2 = i
          BY <3>2, <4>2
        <5>2. e[i - 2] = Blank
          BY <3>2, <3>3, <5>1
        <5>3. i - 2 > 1 /\ e[i - 2 - 1] = "\\"
          BY <2>1, <5>1, <5>2 DEF AllEscaped
        <5>4. i - 3 \in 1..Len(e) /\ (i - 3) + 2 = i - 1 /\ i - 2 - 1 = i - 3
          BY <5>1, <5>3
        <5> QED BY <3>2, <5>3, <5>4
      <4> QED BY <3>2, <4>1, <4>2
    <3> QED BY <2>2, <3>2, <3>3 DEF AllEscaped, x
  <2>5. CASE c # Blank
    <3>1. x = <<c>> \o e
      BY <2>3, <2>5
    <3>2. /\ x \in Seq(S) /\ x # <<>> /\ Len(x) = Len(e) + 1 /\ Len(e) \in Nat
          /\ x[1] = c /\ \A i \in 1..Len(e) : x[i + 1] = e[i]
      BY <2>1, <3>1, LongerBy1
    <3>3. ASSUME NEW i \in 1..Len(x), x[i] = Blank
          PROVE  i > 1 /\ x[i - 1] = "\\"
      <4>1. i - 1 \in 1..Len(e) /\ (i - 1) + 1 = i
        BY <2>5, <3>2, <3>3
      <4>2. e[i - 1] = Blank
        BY <3>2, <3>3, <4>1
      <4>3. i - 1 > 1 /\ e[i - 1 - 1] = "\\"
        BY <2>1, <4>1, <4>2 DEF AllEscaped
      <4>4. i - 2 \in 1..Len(e) /\ (i - 2) + 1 = i - 1 /\ i - 1 - 1 = i - 2
        BY <4>1, <4>3
      <4> QED BY <3>2, <4>3, <4>4
    <3> QED BY <2>2, <2>5, <3>2, <3>3 DEF AllEscaped, x
  <2> QED BY <2>4, <2>5
<1>3. \A t \in Seq(S) : t \in G
  <2>1. G \in SUBSET Seq(S)
    OBVIOUS
  <2> HIDE DEF G
  <2> QED BY <1>1, <1>2, <2>1, TextInduction
<1> QED BY <1>3
LEMMA UnescapeEscape ==
  ASSUME NEW S, Blank \in S, "\\" \in S
  PROVE  \A t \in Seq(S) : Unescape(Escape(t)) = t
<1> DEFINE G == {t \in Seq(S) : Unescape(Escape(t)) = t}
<1>1. <<>> \in G
  BY EmptySeq, EscapeNothing
<1>2. ASSUME NEW c \in S, NEW rest \in Seq(S),
             \A t \in Seq(S) : Len(t) <= Len(rest) => t \in G
      PROVE  <<c>> \o rest \in G
  <2> DEFINE e == Escape(rest)
  <2>1. Unescape(e) = rest
    <3>1. Len(rest) \in Nat
      BY LenProperties
    <3> QED BY <1>2, <3>1
  <2>2. e \in Seq(S) /\ (e # <<>> => e[1] # Blank)
    BY EscapedIsOneWord
  <2>3. <<c>> \o rest \in Seq(S)
    BY LongerBy1
  <2>4. Escape(<<c>> \o rest) = (IF c = Blank THEN <<"\\", Blank>> ELSE <<c>>) \o e
    BY EscapeStep
  <2> HIDE DEF e
  <2>5. CASE c = Blank
    <3>1. Unescape(<<"\\", Blank>> \o e) = <<Blank>> \o Unescape(e)
      BY <2>2, UnescapeStep
    <3> QED BY <2>1, <2>3, <2>4, <2>5, <3>1
  <2>6. CASE c # Blank
    <3>1. Unescape(<<c>> \o e) = <<c>> \o Unescape(e)
      BY <2>2, UnescapeStep
    <3> QED BY <2>1, <2>3, <2>4, <2>6, <3>1
  <2> QED BY <2>5, <2>6
<1>3. \A t \in Seq(S) : t \in G
  <2>1. G \in SUBSET Seq(S)
    OBVIOUS
  <2> HIDE DEF G
  <2> QED BY <1>1, <1>2, <2>1, TextInduction
<1> QED BY <1>3

LEMMA RestIsEscaped ==
  ASSUME NEW S, Blank \in S, "\\" \in S, NEW c \in S, NEW rest \in Seq(S),
         AllEscaped(<<c>> \o rest)
  PROVE  /\ c # Blank
         /\ c # "\\" \/ rest = <<>> \/ rest[1] # Blank => AllEscaped(rest)
<1> DEFINE t == <<c>> \o rest
<1>1. /\ t \in Seq(S) /\ Len(t) = Len(rest) + 1 /\ Len(rest) \in Nat
      /\ t[1] = c /\ \A i \in 1..Len(rest) : t[i + 1] = rest[i]
  BY LongerBy1
<1>2. \A i \in 1..Len(t) : t[i] = Blank => i > 1 /\ t[i - 1] = "\\"
  BY DEF AllEscaped
<1> HIDE DEF t
<1>3. c # Blank
  BY <1>1, <1>2
<1>4. ASSUME c # "\\" \/ rest = <<>> \/ rest[1] # Blank,
             NEW i \in 1..Len(rest), rest[i] = Blank
      PROVE  i > 1 /\ rest[i - 1] = "\\"
  <2>1. i + 1 \in 1..Len(t) /\ t[i + 1] = Blank /\ i + 1 - 1 = i
    BY <1>1, <1>4
  <2>2. t[i] = "\\"
    BY <1>2, <2>1
  <2>3. rest # <<>>
    BY <1>1, <1>4
  <2>4. i # 1
    BY <1>1, <1>4, <2>2, <2>3
  <2>5. i > 1 /\ i - 1 \in 1..Len(rest) /\ (i - 1) + 1 = i
    BY <1>1, <2>4
  <2> QED BY <1>1, <2>2, <2>5
<1> QED BY <1>3, <1>4 DEF AllEscaped

LEMMA RestOfPairIsEscaped ==
  ASSUME NEW S, Blank \in S, "\\" \in S, NEW rest \in Seq(S),
         AllEscaped(<<"\\", Blank>> \o rest)
  PROVE  AllEscaped(rest)
<1> DEFINE t == <<"\\", Blank>> \o rest
           u == <<Blank>> \o rest
<1>1. /\ t \in Seq(S) /\ Len(t) = Len(rest) + 2 /\ Len(rest) \in Nat
      /\ t[2] = Blank /\ \A i \in 1..Len(rest) : t[i + 2] = rest[i]
  BY LongerBy2
<1>2. \A i \in 1..Len(t) : t[i] = Blank => i > 1 /\ t[i - 1] = "\\"
  BY DEF AllEscaped
<1> HIDE DEF t
<1>3. ASSUME NEW i \in 1..Len(rest), rest[i] = Blank
      PROVE  i > 1 /\ rest[i - 1] = "\\"
  <2>1. i + 2 \in 1..Len(t) /\ t[i + 2] = Blank /\ i + 2 - 1 = i + 1
    BY <1>1, <1>3
  <2>2. t[i + 1] = "\\"
    BY <1>2, <2>1
  <2>3. i # 1
    BY <1>1, <2>2, BlankIsNo
  <2>4. i > 1 /\ i - 1 \in 1..Len(rest) /\ (i - 1) + 2 = i + 1
    BY <1>1, <2>3
  <2> QED BY <1>1, <2>2, <2>4
<1> QED BY <1>3 DEF AllEscaped

LEMMA EscapeUnescape ==
  ASSUME NEW S, Blank \in S, "\\" \in S
  PROVE  \A t \in Seq(S) : Escape(Unescape(t)) = t <=> AllEscaped(t)
<1> DEFINE G == {t \in Seq(S) : AllEscaped(t) => Escape(Unescape(t)) = t}
<1>1. <<>> \in G
  BY EmptySeq, EscapeNothing
<1>2. ASSUME NEW c \in S, NEW rest \in Seq(S),
             \A t \in Seq(S) : Len(t) <= Len(rest) => t \in G
      PROVE  <<c>> \o rest \in G
  <2> SUFFICES ASSUME AllEscaped(<<c>> \o rest)
               PROVE  Escape(Unescape(<<c>> \o rest)) = <<c>> \o rest
    BY LongerBy1
  <2>1. c # Blank
    BY RestIsEscaped
  <2>2. Len(rest) \in Nat
    BY LenProperties
  <2>3. CASE c = "\\" /\ rest # <<>> /\ rest[1] = Blank
    <3> DEFINE r == Tail(rest)
    <3>1. r \in Seq(S) /\ rest = <<Blank>> \o r /\ Len(r) <= Len(rest)
      <4>1. /\ Tail(rest) \in Seq(S) /\ rest = <<rest[1]>> \o Tail(rest)
            /\ Len(Tail(rest)) = Len(rest) - 1
        BY <2>3, FirstAndRest
      <4> QED BY <2>2, <2>3, <4>1
    <3> HIDE DEF r
    <3>2. <<c>> \o rest = <<"\\", Blank>> \o r
      <4>1. <<"\\", Blank>> \o r = <<"\\">> \o (<<Blank>> \o r)
        <5>1. r \in Seq(S) /\ "\\" \in S /\ Blank \in S
          BY <3>1
        <5>2. \A b, d \in S : <<b, d>> \o r = <<b>> \o (<<d>> \o r)
          BY ONLY <5>1, PairFirst
        <5> QED BY <5>1, <5>2
      <4>2. c = "\\" /\ rest = <<Blank>> \o r
        BY <2>3, <3>1
      <4> QED BY ONLY <4>1, <4>2
    <3>3. AllEscaped(<<"\\", Blank>> \o r)
      BY <3>2
    <3>4. AllEscaped(r)
      BY <3>1, <3>3, RestOfPairIsEscaped
    <3>5. Escape(Unescape(r)) = r
      BY <1>2, <3>1, <3>4
    <3>6. Unescape(<<"\\", Blank>> \o r) = <<Blank>> \o Unescape(r) /\ Unescape(r) \in Seq(S)
      BY <3>1, UnescapeStep
    <3>7. Escape(<<Blank>> \o Unescape(r)) = <<"\\", Blank>> \o Escape(Unescape(r))
      BY <3>6, EscapeStep
    <3> QED BY <3>2, <3>5, <3>6, <3>7
  <2>4. CASE ~(c = "\\" /\ rest # <<>> /\ rest[1] = Blank)
    <3>1. AllEscaped(rest)
      BY <2>4, RestIsEscaped
    <3>2. Escape(Unescape(rest)) = rest
      BY <1>2, <2>2, <3>1
    <3>3. Unescape(<<c>> \o rest) = <<c>> \o Unescape(rest) /\ Unescape(rest) \in Seq(S)
      BY <2>4, UnescapeStep
    <3>4. Escape(<<c>> \o Unescape(rest)) = <<c>> \o Escape(Unescape(rest))
      BY <2>1, <3>3, EscapeStep
    <3> QED BY <3>2, <3>3, <3>4
  <2> QED BY <2>3, <2>4
<1>3. \A t \in Seq(S) : t \in G
  <2>1. G \in SUBSET Seq(S)
    OBVIOUS
  <2> HIDE DEF G
  <2> QED BY <1>1, <1>2, <2>1, TextInduction
<1>4. ASSUME NEW t \in Seq(S), Escape(Unescape(t)) = t
      PROVE  AllEscaped(t)
  <2>1. Unescape(t) \in Seq(S)
    BY UnescapeStep
  <2>2. AllEscaped(Escape(Unescape(t)))
    BY <2>1, EscapedIsOneWord
  <2> QED BY <1>4, <2>2
<1> QED BY <1>3, <1>4
LEMMA PositionsAre ==
  ASSUME NEW S, NEW t \in Seq(S), NEW c
  PROVE  /\ Len(t) \in Nat
         /\ Positions(c, t) = {i \in 0..Len(t) - 1 : t[i + 1] = c}
<1>1. Len(t) \in Nat
  BY LenProperties
<1>2. \A i \in Positions(c, t) : i \in 0..Len(t) - 1 /\ t[i + 1] = c
  BY <1>1 DEF Positions
<1>3. ASSUME NEW i \in 0..Len(t) - 1, t[i + 1] = c
      PROVE  i \in Positions(c, t)
  <2>1. i + 1 \in {j \in 1..Len(t) : t[j] = c} /\ (i + 1) - 1 = i
    BY <1>1, <1>3
  <2> QED BY <2>1 DEF Positions
<1> QED BY <1>1, <1>2, <1>3

LEMMA AllEscapedPositions ==
  ASSUME NEW S, NEW t \in Seq(S)
  PROVE  AllEscaped(t) <=> \A i \in Positions(Blank, t) : i > 0 /\ t[i] = "\\"
<1> DEFINE P == Positions(Blank, t)
<1>1. Len(t) \in Nat /\ P = {i \in 0..Len(t) - 1 : t[i + 1] = Blank}
  BY PositionsAre
<1> HIDE DEF P
<1>2. ASSUME AllEscaped(t), NEW i \in P
      PROVE  i > 0 /\ t[i] = "\\"
  <2>1. i + 1 \in 1..Len(t) /\ t[i + 1] = Blank /\ (i + 1) - 1 = i
    BY <1>1
  <2>2. i + 1 > 1 /\ t[(i + 1) - 1] = "\\"
    BY <1>2, <2>1 DEF AllEscaped
  <2> QED BY <1>1, <2>1, <2>2
<1>3. ASSUME \A i \in P : i > 0 /\ t[i] = "\\",
             NEW i \in 1..Len(t), t[i] = Blank
      PROVE  i > 1 /\ t[i - 1] = "\\"
  <2>1. i - 1 \in 0..Len(t) - 1 /\ (i - 1) + 1 = i
    BY <1>1
  <2>2. i - 1 \in P
    BY <1>1, <1>3, <2>1
  <2>3. i - 1 > 0 /\ t[i - 1] = "\\"
    BY <1>3, <2>2
  <2> QED BY <1>1, <2>3
<1> QED BY <1>2, <1>3 DEF AllEscaped, P

-----------------------------------------------------------------------------
(* Every text somebody types                                               *)

LEMMA TypedAlways ==
  TextSpec => [](typed \in Seq(Chars))
<1>1. TextInit => typed \in Seq(Chars)
  BY DEF TextInit
<1>2. typed \in Seq(Chars) /\ [TextNext]_typed => (typed \in Seq(Chars))'
  BY DEF TextNext, Keystroke
<1> QED BY <1>1, <1>2, PTL DEF TextSpec

(* Escaping a file name is undone by unescaping it, an escaped name is one  *)
(* word, and what was typed survives the way back if and only if all its    *)
(* spaces are escaped: for names and texts of any length and characters     *)
(* (util.cpp:18-30, tudor-do.cpp:196, 207).                                 *)
THEOREM NamesSurviveEscaping ==
  TextSpec => []EscapingIsUndone
<1>1. typed \in Seq(Chars) => EscapingIsUndone
  <2> SUFFICES ASSUME typed \in Seq(Chars) PROVE EscapingIsUndone
    OBVIOUS
  <2> DEFINE S == Chars \cup {Blank, "\\"}
             spaces == Positions(Blank, typed)
             e == Escape(typed)
  <2>1. typed \in Seq(S) /\ Blank \in S /\ "\\" \in S
    <3>1. Chars \subseteq S
      OBVIOUS
    <3> HIDE DEF S
    <3>2. typed \in Seq(S)
      BY <3>1, SeqMonotonic
    <3> QED BY <3>2 DEF S
  <2> HIDE DEF S
  <2>2. Unescape(Escape(typed)) = typed
    BY <2>1, UnescapeEscape
  <2>3. Escape(Unescape(typed)) = typed <=> \A i \in spaces : i > 0 /\ typed[i] = "\\"
    BY <2>1, EscapeUnescape, AllEscapedPositions
  <2>4. \A i \in Positions(Blank, e) : i > 0 /\ e[i] = "\\"
    <3>1. e \in Seq(S) /\ AllEscaped(e)
      BY <2>1, EscapedIsOneWord
    <3> HIDE DEF e
    <3> QED BY <3>1, AllEscapedPositions
  <2>5. Escaped = {i \in spaces : i > 0 /\ typed[i] = "\\"}
    BY Zenon DEF Escaped, Blank
  <2>6. spaces = Escaped <=> \A i \in spaces : i > 0 /\ typed[i] = "\\"
    <3> HIDE DEF spaces
    <3> QED BY <2>5
  <2> QED BY <2>2, <2>3, <2>4, <2>6, Zenon DEF EscapingIsUndone, Blank
<1> QED BY <1>1, TypedAlways, PTL
-----------------------------------------------------------------------------
(* The last space                                                          *)

LEMMA GreatestOf ==
  ASSUME NEW B \in SUBSET Int, B # {}, NEW n \in Int, \A b \in B : b <= n
  PROVE  Max(B) \in B /\ \A b \in B : b <= Max(B)
<1> DEFINE D == {n - b : b \in B}
<1>1. D \in SUBSET Nat /\ D # {}
  <2>1. \A b \in B : b \in Int /\ b <= n /\ n - b \in Nat
    OBVIOUS
  <2> QED BY <2>1
<1>2. PICK d \in D : \A c \in D : d <= c
  BY <1>1, LeastOf
<1>3. PICK b \in B : d = n - b
  OBVIOUS
<1>4. \A c \in B : b >= c
  <2> TAKE c \in B
  <2>1. n - c \in D /\ b \in Int /\ c \in Int
    OBVIOUS
  <2>2. n - b <= n - c
    BY <1>2, <1>3, <2>1
  <2> HIDE DEF D
  <2> QED BY <2>1, <2>2
<1>5. Max(B) \in B /\ \A c \in B : Max(B) >= c
  BY <1>4 DEF Max
<1> QED BY <1>5

LEMMA LastSpaceIs ==
  ASSUME NEW S, NEW t \in Seq(S)
  PROVE  /\ LastSpace(t) \in {-1} \cup Positions(Blank, t)
         /\ LastSpace(t) \in -1..Len(t) - 1
         /\ \A i \in Positions(Blank, t) : i <= LastSpace(t)
<1> DEFINE P == Positions(Blank, t)
           B == {-1} \cup P
<1>1. LastSpace(t) = Max({NPos} \cup P)
  BY Zenon DEF LastSpace, Blank
<1>2. Len(t) \in Nat /\ P = {i \in 0..Len(t) - 1 : t[i + 1] = Blank}
  BY PositionsAre
<1> HIDE DEF P
<1>3. B \in SUBSET Int /\ B # {} /\ \A b \in B : b <= Len(t) - 1 /\ -1 <= b
  BY <1>2
<1>4. Len(t) - 1 \in Int
  BY <1>2
<1>5. Max(B) \in B /\ \A b \in B : b <= Max(B)
  <2> HIDE DEF B
  <2> QED BY <1>3, <1>4, GreatestOf
<1>6. LastSpace(t) = Max(B)
  BY <1>1 DEF NPos
<1> HIDE DEF B
<1>7. LastSpace(t) \in B /\ LastSpace(t) \in Int /\ LastSpace(t) <= Len(t) - 1 /\ -1 <= LastSpace(t)
  BY <1>3, <1>5, <1>6
<1>8. \A i \in P : i <= LastSpace(t)
  BY <1>5, <1>6 DEF B
<1> QED BY <1>2, <1>7, <1>8 DEF B, P

LEMMA PositionsBefore ==
  ASSUME NEW S, NEW t \in Seq(S), NEW c, NEW n \in 0..Len(t)
  PROVE  /\ SubSeq(t, 1, n) \in Seq(S) /\ Len(SubSeq(t, 1, n)) = n
         /\ \A i \in 1..n : SubSeq(t, 1, n)[i] = t[i]
         /\ Positions(c, SubSeq(t, 1, n)) = {i \in Positions(c, t) : i < n}
<1> DEFINE u == SubSeq(t, 1, n)
<1>1. Len(t) \in Nat /\ Positions(c, t) = {i \in 0..Len(t) - 1 : t[i + 1] = c}
  BY PositionsAre
<1>2. u \in Seq(S) /\ Len(u) = n /\ \A i \in 1..n : u[i] = t[i]
  <2>1. \A i \in 1..n : t[i] \in S
    BY <1>1, ElementOfSeq
  <2>2. n - 1 + 1 = n /\ \A i \in 1..n : 1 + i - 1 = i
    BY <1>1
  <2> QED BY <1>1, <2>1, <2>2, SubSeqProperties
<1> HIDE DEF u
<1>3. Positions(c, u) = {i \in 0..n - 1 : u[i + 1] = c}
  BY <1>2, PositionsAre
<1>4. \A i \in 0..n - 1 : u[i + 1] = t[i + 1] /\ i \in 0..Len(t) - 1 /\ i < n
  BY <1>1, <1>2
<1>5. \A i \in 0..Len(t) - 1 : i < n => i \in 0..n - 1
  BY <1>1
<1>6. Positions(c, u) = {i \in Positions(c, t) : i < n}
  BY <1>1, <1>3, <1>4, <1>5
<1> QED BY <1>2, <1>6 DEF u

(* An escaped last space makes way for the one before it.                   *)
LEMMA FindLastSpaceIs ==
  ASSUME NEW S, NEW t \in Seq(S)
  PROVE  LET p == LastSpace(t)
             q == find_last_space_pos(t)
         IN /\ q \in {-1} \cup Positions(Blank, t) /\ q \in -1..Len(t) - 1
            /\ p > 0 /\ t[p] = "\\" =>
                 q < p - 1 /\ \A i \in Positions(Blank, t) : i < p => i <= q
            /\ ~(p > 0 /\ t[p] = "\\") => q = p
<1> DEFINE p == LastSpace(t)
           q == find_last_space_pos(t)
           P == Positions(Blank, t)
           u == SubSeq(t, 1, p - 1)
<1>1. /\ p \in {-1} \cup P /\ p \in -1..Len(t) - 1
      /\ \A i \in P : i <= p
  BY LastSpaceIs
<1>2. q = IF p > 0 /\ t[p] = "\\" THEN LastSpace(u) ELSE p
  BY DEF find_last_space_pos
<1>3. Len(t) \in Nat /\ P = {i \in 0..Len(t) - 1 : t[i + 1] = Blank}
  BY PositionsAre
<1> HIDE DEF p, q, P
<1>4. CASE ~(p > 0 /\ t[p] = "\\")
  BY <1>1, <1>2, <1>4 DEF p, q, P
<1>5. CASE p > 0 /\ t[p] = "\\"
  <2>1. p - 1 \in 0..Len(t)
    BY <1>1, <1>3, <1>5
  <2>2. u \in Seq(S) /\ Len(u) = p - 1 /\ Positions(Blank, u) = {i \in P : i < p - 1}
    BY <2>1, PositionsBefore DEF P
  <2> HIDE DEF u
  <2>3. /\ LastSpace(u) \in {-1} \cup Positions(Blank, u) /\ LastSpace(u) \in -1..Len(u) - 1
        /\ \A i \in Positions(Blank, u) : i <= LastSpace(u)
    BY <2>2, LastSpaceIs
  <2>4. q = LastSpace(u)
    BY <1>2, <1>5
  <2>5. q \in {-1} \cup P /\ q \in -1..Len(t) - 1 /\ q < p - 1
    BY <1>1, <1>3, <1>5, <2>2, <2>3, <2>4
  <2>6. \A i \in P : i < p => i < p - 1
    <3> SUFFICES ASSUME NEW i \in P, i < p PROVE i # p - 1
      BY <1>1, <1>3
    <3>1. t[i + 1] = Blank /\ (p - 1) + 1 = p
      BY <1>1, <1>3
    <3> QED BY <1>5, <3>1, BlankIsNo
  <2>7. \A i \in P : i < p => i <= q
    BY <2>2, <2>3, <2>4, <2>6
  <2> QED BY <1>5, <2>5, <2>7 DEF p, q, P
<1> QED BY <1>4, <1>5

(* What find_last_space_pos finds is the start of the last word if and only *)
(* if that word has at most one escaped space, for texts of any length      *)
(* (util.cpp:32-47).                                                        *)
THEOREM LastWordFound ==
  TextSpec => []FindsLastWord
<1>1. typed \in Seq(Chars) => FindsLastWord
  <2> SUFFICES ASSUME typed \in Seq(Chars), ~SpacePosThrows(typed)
               PROVE  find_last_space_pos(typed) = LastUnescaped
                        <=> Cardinality({i \in Escaped : i > LastUnescaped}) < 2
    BY DEF FindsLastWord
  <2> DEFINE P == Positions(Blank, typed)
             E == Escaped
             e == LastUnescaped
             p == LastSpace(typed)
             q == find_last_space_pos(typed)
             L == {i \in E : i > e}
  <2>1. /\ E = {i \in P : i > 0 /\ typed[i] = "\\"}
        /\ e = Max({NPos} \cup (P \ E))
    BY Zenon DEF Escaped, LastUnescaped, Blank
  <2>2. /\ p \in {-1} \cup P /\ p \in -1..Len(typed) - 1
        /\ \A i \in P : i <= p
    BY LastSpaceIs
  <2>3. /\ q \in {-1} \cup P /\ q \in -1..Len(typed) - 1
        /\ p > 0 /\ typed[p] = "\\" => q < p - 1 /\ \A i \in P : i < p => i <= q
        /\ ~(p > 0 /\ typed[p] = "\\") => q = p
    BY FindLastSpaceIs
  <2>4. p # 0
    BY DEF SpacePosThrows
  <2>5. Len(typed) \in Nat /\ P = {i \in 0..Len(typed) - 1 : typed[i + 1] = Blank}
    BY PositionsAre
  <2> HIDE DEF P, E, e, p, q
  <2>6. e \in {-1} \cup (P \ E) /\ \A i \in P \ E : i <= e
    <3> DEFINE B == {-1} \cup (P \ E)
    <3>1. B \in SUBSET Int /\ B # {} /\ \A b \in B : b <= Len(typed)
      BY <2>5
    <3>2. Max(B) \in B /\ \A b \in B : b <= Max(B)
      <4>1. Len(typed) \in Int
        BY <2>5
      <4> HIDE DEF B
      <4> QED BY <3>1, <4>1, GreatestOf
    <3>3. e = Max(B)
      BY <2>1 DEF NPos
    <3> HIDE DEF B
    <3>4. e \in B /\ \A b \in B : b <= e
      BY <3>2, <3>3
    <3> QED BY <3>4 DEF B
  <2>7. IsFiniteSet(L) /\ \A i \in L : i \in P /\ i \in Int
    <3>1. IsFiniteSet(0..Len(typed) - 1)
      BY <2>5, FS_Interval
    <3>2. L \subseteq 0..Len(typed) - 1 /\ \A i \in L : i \in P /\ i \in Int
      BY <2>1, <2>5
    <3> QED BY <3>1, <3>2, FS_Subset
  <2>8. /\ p \in Int /\ q \in Int /\ e \in Int
        /\ \A i \in E : i \in P /\ i \in Int /\ i <= p
    BY <2>1, <2>2, <2>3, <2>5, <2>6
  <2>9. q = e <=> Cardinality(L) < 2
    <3>1. CASE ~(p > 0 /\ typed[p] = "\\")
      <4>1. p \notin E /\ q = p
        BY <2>1, <2>3, <3>1
      <4>2. e = p
        BY <2>1, <2>2, <2>5, <2>6, <4>1
      <4>3. L = {}
        BY <2>8, <4>2
      <4>4. Cardinality(L) = 0
        BY <4>3, FS_EmptySet
      <4> QED BY <4>1, <4>2, <4>4
    <3>2. CASE p > 0 /\ typed[p] = "\\"
      <4>1. p \in E /\ e < p
        BY <2>1, <2>2, <2>5, <2>6, <3>2
      <4>2. q < p /\ e <= q
        BY <2>1, <2>3, <2>5, <2>6, <3>2, <4>1
      <4>3. CASE q = e
        <5>1. L \subseteq {p}
          <6> SUFFICES ASSUME NEW i \in L, i # p PROVE FALSE
            OBVIOUS
          <6>1. i \in P /\ i \in Int /\ i < p /\ i > e
            BY <2>8
          <6>2. i <= q
            BY <2>3, <3>2, <6>1
          <6> QED BY <2>8, <4>3, <6>1, <6>2
        <5>2. Cardinality({p}) = 1 /\ IsFiniteSet({p})
          BY FS_Singleton
        <5>3. Cardinality(L) <= 1 /\ Cardinality(L) \in Nat
          BY <2>7, <5>1, <5>2, FS_Subset, FS_CardinalityType
        <5> QED BY <4>3, <5>3
      <4>4. CASE q # e
        <5>1. q \in E /\ q > e
          BY <2>1, <2>3, <2>5, <2>6, <4>2, <4>4
        <5>2. {p, q} \subseteq L
          BY <4>1, <5>1
        <5>3. Cardinality({p, q}) = 2
          <6>1. p # q
            BY <2>8, <4>2
          <6>2. IsFiniteSet({p}) /\ Cardinality({p}) = 1 /\ q \notin {p} /\ {p} \cup {q} = {p, q}
            BY <6>1, FS_Singleton
          <6>3. Cardinality({p} \cup {q}) = Cardinality({p}) + 1
            BY <6>2, FS_AddElement
          <6>4. Cardinality({p} \cup {q}) = 2
            BY ONLY <6>2, <6>3
          <6> QED BY ONLY <6>2, <6>4
        <5>4. Cardinality({p, q}) <= Cardinality(L) /\ Cardinality(L) \in Nat
          BY <2>7, <5>2, FS_Subset, FS_CardinalityType
        <5> QED BY <4>4, <5>3, <5>4
      <4> QED BY <4>3, <4>4
    <3> QED BY <3>1, <3>2
  <2> QED BY <2>9 DEF L, E, e, q
<1> QED BY <1>1, TypedAlways, PTL
-----------------------------------------------------------------------------
(* Folds: the recursive function behind FoldLeft, one member after another *)

LEMMA MaxOf ==
  ASSUME NEW n \in Nat, NEW s \in SUBSET (1..n), s # {}
  PROVE  Max(s) \in s /\ \A x \in s : x <= Max(s)
<1>1. s \in SUBSET Int /\ \A b \in s : b <= n
  OBVIOUS
<1> QED BY <1>1, GreatestOf

LEMMA MaxOfFirst ==
  ASSUME NEW k \in Nat, k > 0
  PROVE  Max(1..k) = k /\ (1..k) \ {k} = 1..k - 1
<1>1. 1..k # {} /\ k \in 1..k
  OBVIOUS
<1>2. Max(1..k) \in 1..k /\ k <= Max(1..k)
  BY <1>1, MaxOf
<1>3. Max(1..k) = k
  BY <1>2
<1>4. (1..k) \ {k} = 1..k - 1
  OBVIOUS
<1> QED BY <1>3, <1>4

(* F stands for the operator that is folded, v0 for what it starts from.    *)
IsFold(V, D, v0, n, seq, F) ==
  v0 \in V /\ n \in Nat /\ seq \in [1..n -> D] /\ F \in [V \X D -> V]

Turns(g, V, v0, n, seq, F) ==
  /\ g \in [SUBSET (1..n) -> V]
  /\ \A s \in SUBSET (1..n) :
       g[s] = IF s = {} THEN v0 ELSE F[<<g[s \ {Max(s)}], seq[Max(s)]>>]

(* The same of a function whose values need not be in V                     *)
TurnsWithin(g, V, v0, n, seq, F) ==
  \A s \in SUBSET (1..n) :
    /\ s = {} => g[s] = v0
    /\ s # {} /\ g[s \ {Max(s)}] \in V => g[s] = F[<<g[s \ {Max(s)}], seq[Max(s)]>>]

LEMMA TurnsExist ==
  ASSUME NEW V, NEW D, NEW v0, NEW n, NEW seq, NEW F, IsFold(V, D, v0, n, seq, F)
  PROVE  \E g : Turns(g, V, v0, n, seq, F)
<1> USE DEF IsFold
<1> DEFINE S    == 1..n
           T(k) == {s \in SUBSET S : Cardinality(s) <= k}
           Turn(g, s) == IF s = {} THEN v0 ELSE F[<<g[s \ {Max(s)}], seq[Max(s)]>>]
           Good == {k \in Nat : \E g \in [T(k) -> V] : \A s \in T(k) : g[s] = Turn(g, s)}
<1>1. /\ IsFiniteSet(S) /\ Cardinality(S) = n
      /\ \A s \in SUBSET S : IsFiniteSet(s) /\ Cardinality(s) \in Nat /\ Cardinality(s) <= n
  <2>1. IsFiniteSet(S) /\ Cardinality(S) = n
    BY FS_Interval
  <2>2. ASSUME NEW s \in SUBSET S
        PROVE  IsFiniteSet(s) /\ Cardinality(s) \in Nat /\ Cardinality(s) <= n
    <3> HIDE DEF S
    <3>1. IsFiniteSet(s) /\ Cardinality(s) <= Cardinality(S)
      BY <2>1, FS_Subset
    <3> QED BY <2>1, <3>1, FS_CardinalityType
  <2> QED BY <2>1, <2>2
<1>2. \A s \in SUBSET S : s # {} =>
        Max(s) \in S /\ seq[Max(s)] \in D /\ Cardinality(s \ {Max(s)}) = Cardinality(s) - 1
  <2> TAKE s \in SUBSET S
  <2> HAVE s # {}
  <2>1. Max(s) \in s
    BY MaxOf
  <2>2. Max(s) \in S /\ seq[Max(s)] \in D
    BY <2>1
  <2>3. Cardinality(s \ {Max(s)}) = Cardinality(s) - 1
    BY <1>1, <2>1, FS_RemoveElement
  <2> QED BY <2>2, <2>3
<1>3. 0 \in Good
  <2> DEFINE g == [s \in T(0) |-> v0]
  <2>1. \A s \in T(0) : s = {}
    BY <1>1, FS_EmptySet
  <2>2. g \in [T(0) -> V] /\ \A s \in T(0) : g[s] = Turn(g, s)
    BY <2>1
  <2> QED BY <2>2
<1>4. ASSUME NEW k \in 0..n - 1, k \in Good
      PROVE  k + 1 \in Good
  <2>1. PICK g \in [T(k) -> V] : \A s \in T(k) : g[s] = Turn(g, s)
    BY <1>4
  <2> DEFINE h == [s \in T(k + 1) |-> Turn(g, s)]
  <2>2. \A s \in T(k + 1) : s # {} => s \ {Max(s)} \in T(k)
    <3> TAKE s \in T(k + 1)
    <3> HAVE s # {}
    <3>1. s \in SUBSET S /\ Cardinality(s) \in Nat /\ Cardinality(s) <= k + 1
      BY <1>1
    <3>2. Cardinality(s \ {Max(s)}) = Cardinality(s) - 1
      BY <1>2, <3>1
    <3>3. Cardinality(s \ {Max(s)}) <= k
      BY <3>1, <3>2
    <3> QED BY <3>1, <3>3
  <2>3. h \in [T(k + 1) -> V]
    <3> SUFFICES ASSUME NEW s \in T(k + 1) PROVE Turn(g, s) \in V
      OBVIOUS
    <3>1. CASE s = {}
      BY <3>1
    <3>2. CASE s # {}
      <4>1. <<g[s \ {Max(s)}], seq[Max(s)]>> \in V \X D
        BY <1>2, <2>2, <3>2
      <4> QED BY <3>2, <4>1
    <3> QED BY <3>1, <3>2
  <2>4. \A s \in T(k) : s \in T(k + 1) /\ h[s] = g[s]
    <3> TAKE s \in T(k)
    <3>1. s \in SUBSET S /\ Cardinality(s) \in Nat /\ Cardinality(s) <= k
      BY <1>1
    <3>2. s \in T(k + 1)
      BY <3>1
    <3>3. h[s] = Turn(g, s)
      BY <3>2
    <3> QED BY <2>1, <3>2, <3>3
  <2>5. \A s \in T(k + 1) : h[s] = Turn(h, s)
    BY <2>2, <2>4
  <2>6. k + 1 \in Nat
    OBVIOUS
  <2> QED BY <2>3, <2>5, <2>6
<1>5. n \in Good
  <2> HIDE DEF Good
  <2>1. Good \in SUBSET Nat
    BY DEF Good
  <2>2. \A k \in 0..n : k \in Good
    BY <1>3, <1>4, <2>1, UpTo
  <2> QED BY <2>2
<1>6. PICK g \in [T(n) -> V] : \A s \in T(n) : g[s] = Turn(g, s)
  BY <1>5
<1>7. T(n) = SUBSET S
  BY <1>1
<1>8. g \in [SUBSET (1..n) -> V] /\ \A s \in SUBSET (1..n) : g[s] = Turn(g, s)
  BY <1>6, <1>7
<1> QED BY <1>8 DEF Turns

LEMMA TurnByTurn ==
  ASSUME NEW V, NEW D, NEW v0, NEW n, NEW seq, NEW F, IsFold(V, D, v0, n, seq, F),
         NEW g, TurnsWithin(g, V, v0, n, seq, F)
  PROVE  /\ g[1..0] = v0
         /\ \A k \in 0..n : g[1..k] \in V
         /\ \A k \in 1..n : g[1..k] = F[<<g[1..k - 1], seq[k]>>]
<1> USE DEF IsFold, TurnsWithin
<1> DEFINE Good == {k \in Nat : g[1..k] \in V}
<1>1. g[1..0] = v0
  <2>1. 1..0 = {} /\ 1..0 \in SUBSET (1..n)
    OBVIOUS
  <2> QED BY <2>1
<1>2. ASSUME NEW k \in 1..n, k - 1 \in Good
      PROVE  g[1..k] = F[<<g[1..k - 1], seq[k]>>] /\ g[1..k] \in V
  <2>1. 1..k # {} /\ Max(1..k) = k /\ (1..k) \ {k} = 1..k - 1
    <3>1. k \in Nat /\ k > 0 /\ k \in 1..k
      OBVIOUS
    <3> QED BY <3>1, MaxOfFirst
  <2>2. 1..k \in SUBSET (1..n)
    OBVIOUS
  <2>3. g[1..k] = F[<<g[1..k - 1], seq[k]>>]
    BY <1>2, <2>1, <2>2
  <2>4. <<g[1..k - 1], seq[k]>> \in V \X D
    BY <1>2
  <2> QED BY <2>3, <2>4
<1>3. \A k \in 0..n : k \in Good
  <2>1. 0 \in Good
    BY <1>1
  <2>2. ASSUME NEW k \in 0..n - 1, k \in Good
        PROVE  k + 1 \in Good
    <3>1. k + 1 \in 1..n /\ (k + 1) - 1 = k /\ k + 1 \in Nat
      OBVIOUS
    <3>2. (k + 1) - 1 \in Good
      BY <2>2, <3>1
    <3>3. g[1..k + 1] \in V
      <4> HIDE DEF Good
      <4> QED BY <1>2, <3>1, <3>2
    <3> QED BY <3>1, <3>3
  <2> HIDE DEF Good
  <2>3. Good \in SUBSET Nat
    BY DEF Good
  <2> QED BY <2>1, <2>2, <2>3, UpTo
<1>4. \A k \in 1..n : g[1..k] = F[<<g[1..k - 1], seq[k]>>]
  <2> TAKE k \in 1..n
  <2>1. k - 1 \in Good
    BY <1>3
  <2> QED BY <1>2, <2>1
<1> QED BY <1>1, <1>3, <1>4
-----------------------------------------------------------------------------
(* Pieces between delimiters, and what they make when put together          *)

Texts(S) == Seq(Seq(S)) \ {<<>>}

PieceStep(ps, c, delim) ==
  IF c = delim THEN Append(ps, <<>>) ELSE [ps EXCEPT ![Len(ps)] = Append(@, c)]

JoinStep(whole, piece) == whole \o <<":">> \o piece

LEMMA PieceStepType ==
  ASSUME NEW S, NEW ps \in Texts(S), NEW c \in S, NEW delim
  PROVE  /\ Len(ps) \in Nat /\ Len(ps) >= 1 /\ ps[Len(ps)] \in Seq(S)
         /\ Append(ps[Len(ps)], c) \in Seq(S)
         /\ [ps EXCEPT ![Len(ps)] = Append(@, c)] \in Texts(S)
         /\ PieceStep(ps, c, delim) \in Texts(S)
<1>1. ps \in Seq(Seq(S)) /\ Len(ps) \in Nat /\ Len(ps) >= 1 /\ Len(ps) \in 1..Len(ps)
  <2>1. ps \in Seq(Seq(S)) /\ ps # <<>>
    BY DEF Texts
  <2> QED BY <2>1, EmptySeq
<1>2. ps[Len(ps)] \in Seq(S)
  BY <1>1, ElementOfSeq
<1>3. Append(ps[Len(ps)], c) \in Seq(S)
  BY <1>2, AppendProperties
<1>4. [ps EXCEPT ![Len(ps)] = Append(@, c)] \in Seq(Seq(S))
      /\ Len([ps EXCEPT ![Len(ps)] = Append(@, c)]) = Len(ps)
  BY <1>1, <1>3, ExceptSeq
<1>5. [ps EXCEPT ![Len(ps)] = Append(@, c)] \in Texts(S)
  <2>1. Len(<<>>) = 0
    OBVIOUS
  <2> QED BY <1>1, <1>4, <2>1 DEF Texts
<1>6. Append(ps, <<>>) \in Texts(S)
  <2>1. <<>> \in Seq(S)
    OBVIOUS
  <2> QED BY <1>1, <2>1, AppendProperties DEF Texts
<1> QED BY <1>1, <1>2, <1>3, <1>5, <1>6 DEF PieceStep

LEMMA PiecesInTurn ==
  ASSUME NEW S, NEW str \in Seq(S), NEW delim
  PROVE  \E a \in [0..Len(str) -> Texts(S)] :
           /\ a[0] = << <<>> >>
           /\ \A k \in 1..Len(str) : a[k] = PieceStep(a[k - 1], str[k], delim)
           /\ Pieces(str, delim) = a[Len(str)]
<1> DEFINE V  == Texts(S)
           n  == Len(str)
           v0 == << <<>> >>
           F  == [x \in V \X S |-> PieceStep(x[1], x[2], delim)]
           Same(g) == g = [s \in SUBSET (1..n) |->
                              IF s = {} THEN v0 ELSE PieceStep(g[s \ {Max(s)}], str[Max(s)], delim)]
           iter == CHOOSE g : Same(g)
<1>1. n \in Nat /\ str \in [1..n -> S] /\ DOMAIN str = 1..n
  BY LenProperties
<1>2. Pieces(str, delim) = iter[1..n]
  BY <1>1 DEF Pieces, FoldLeft, MapThenFoldSet, PieceStep
<1>3. v0 \in V
  BY DEF Texts
<1>4. F \in [V \X S -> V]
  BY PieceStepType
<1>5. \A v \in V, c \in S : F[<<v, c>>] = PieceStep(v, c, delim)
  OBVIOUS
<1>6. \A s \in SUBSET (1..n) : s # {} => Max(s) \in 1..n /\ str[Max(s)] \in S
  BY <1>1, MaxOf
<1> HIDE DEF V, F, v0, n
<1>0. IsFold(V, S, v0, n, str, F)
  BY <1>1, <1>3, <1>4 DEF IsFold
<1>7. PICK g : Turns(g, V, v0, n, str, F)
  BY <1>0, TurnsExist
<1>8. Same(g)
  <2>1. \A s \in SUBSET (1..n) : s # {} =>
          F[<<g[s \ {Max(s)}], str[Max(s)]>>] = PieceStep(g[s \ {Max(s)}], str[Max(s)], delim)
    BY <1>5, <1>6, <1>7 DEF Turns
  <2> QED BY <1>7, <2>1 DEF Turns
<1>9. Same(iter)
  BY <1>8
<1> HIDE DEF iter
<1>10. TurnsWithin(iter, V, v0, n, str, F)
  BY <1>5, <1>6, <1>9 DEF TurnsWithin
<1>11. /\ iter[1..0] = v0
       /\ \A k \in 0..n : iter[1..k] \in V
       /\ \A k \in 1..n : iter[1..k] = F[<<iter[1..k - 1], str[k]>>]
  BY <1>0, <1>10, TurnByTurn
<1> DEFINE a == [k \in 0..n |-> iter[1..k]]
<1>12. a \in [0..n -> V] /\ a[0] = v0 /\ Pieces(str, delim) = a[n]
  BY <1>1, <1>2, <1>11
<1>13. \A k \in 1..n : a[k] = PieceStep(a[k - 1], str[k], delim)
  <2> TAKE k \in 1..n
  <2>1. k - 1 \in 0..n /\ k \in 0..n /\ str[k] \in S
    BY <1>1
  <2> QED BY <1>5, <1>11, <2>1
<1> HIDE DEF a
<1> QED BY <1>12, <1>13 DEF V, n, v0

LEMMA JoinStepType ==
  ASSUME NEW S, ":" \in S, NEW whole \in Seq(S), NEW piece \in Seq(S)
  PROVE  JoinStep(whole, piece) \in Seq(S)
<1> DEFINE colon == <<":">>
<1>1. colon \in Seq(S)
  OBVIOUS
<1> HIDE DEF colon
<1>2. whole \o colon \o piece \in Seq(S)
  BY <1>1, ConcatProperties
<1> QED BY <1>2 DEF JoinStep, colon

(* a[k] is what the first k pieces make.                                    *)
Joining(a, ps, S) ==
  /\ a \in [1..Len(ps) -> Seq(S)] /\ a[1] = ps[1]
  /\ \A k \in 2..Len(ps) : a[k] = JoinStep(a[k - 1], ps[k])

LEMMA JoinedInTurn ==
  ASSUME NEW S, ":" \in S, NEW ps \in Texts(S)
  PROVE  \E a : Joining(a, ps, S) /\ Joined(ps) = a[Len(ps)]
<1> DEFINE V  == Seq(S)
           str == Tail(ps)
           n  == Len(str)
           v0 == Head(ps)
           F  == [x \in V \X V |-> JoinStep(x[1], x[2])]
           Same(g) == g = [s \in SUBSET (1..n) |->
                              IF s = {} THEN v0 ELSE JoinStep(g[s \ {Max(s)}], str[Max(s)])]
           iter == CHOOSE g : Same(g)
<1>0. /\ ps \in Seq(V) /\ ps # <<>> /\ str \in Seq(V) /\ v0 \in V
      /\ v0 = ps[1] /\ Len(ps) \in Nat /\ Len(ps) = n + 1
      /\ \A k \in 1..n : str[k] = ps[k + 1]
  <2>1. ps \in Seq(V) /\ ps # <<>>
    BY DEF Texts
  <2>2. Len(ps) \in Nat
    BY <2>1, LenProperties
  <2> QED BY <2>1, <2>2, HeadTailProperties
<1>1. n \in Nat /\ str \in [1..n -> V] /\ DOMAIN str = 1..n
  BY <1>0, LenProperties
<1>2. Joined(ps) = iter[1..n]
  BY <1>1 DEF Joined, FoldLeft, MapThenFoldSet, JoinStep
<1>4. F \in [V \X V -> V]
  BY JoinStepType
<1>5. \A v \in V, c \in V : F[<<v, c>>] = JoinStep(v, c)
  OBVIOUS
<1>6. \A s \in SUBSET (1..n) : s # {} => Max(s) \in 1..n /\ str[Max(s)] \in V
  BY <1>1, MaxOf
<1> HIDE DEF V, F, v0, n, str
<1>3. IsFold(V, V, v0, n, str, F)
  BY <1>0, <1>1, <1>4 DEF IsFold
<1>7. PICK g : Turns(g, V, v0, n, str, F)
  BY <1>3, TurnsExist
<1>8. Same(g)
  <2>1. \A s \in SUBSET (1..n) : s # {} =>
          F[<<g[s \ {Max(s)}], str[Max(s)]>>] = JoinStep(g[s \ {Max(s)}], str[Max(s)])
    BY <1>5, <1>6, <1>7 DEF Turns
  <2> QED BY <1>7, <2>1 DEF Turns
<1>9. Same(iter)
  BY <1>8
<1> HIDE DEF iter
<1>10. TurnsWithin(iter, V, v0, n, str, F)
  BY <1>5, <1>6, <1>9 DEF TurnsWithin
<1>11. /\ iter[1..0] = v0
       /\ \A k \in 0..n : iter[1..k] \in V
       /\ \A k \in 1..n : iter[1..k] = F[<<iter[1..k - 1], str[k]>>]
  BY <1>3, <1>10, TurnByTurn
<1> DEFINE a == [k \in 1..Len(ps) |-> iter[1..k - 1]]
<1>12. a \in [1..Len(ps) -> V] /\ a[1] = v0 /\ Joined(ps) = a[Len(ps)]
  BY <1>0, <1>1, <1>2, <1>11
<1>13. \A k \in 2..Len(ps) : a[k] = JoinStep(a[k - 1], ps[k])
  <2> TAKE k \in 2..Len(ps)
  <2>1. /\ k - 1 \in 1..n /\ k \in 1..Len(ps) /\ k - 1 \in 1..Len(ps) /\ (k - 1) - 1 \in 0..n
        /\ str[k - 1] \in V /\ str[k - 1] = ps[k]
    BY <1>0, <1>1
  <2>2. a[k] = iter[1..k - 1] /\ a[k - 1] = iter[1..(k - 1) - 1]
    BY <2>1
  <2> QED BY <1>5, <1>11, <2>1, <2>2
<1> HIDE DEF a
<1> QED BY <1>0, <1>12, <1>13 DEF V, Joining
LEMMA TextsAre ==
  ASSUME NEW S, NEW ps \in Texts(S)
  PROVE  ps \in Seq(Seq(S)) /\ Len(ps) \in Nat /\ Len(ps) >= 1
         /\ \A k \in 1..Len(ps) : ps[k] \in Seq(S)
<1>1. ps \in Seq(Seq(S)) /\ ps # <<>>
  BY DEF Texts
<1> QED BY <1>1, EmptySeq, ElementOfSeq

(* Lists that begin alike make the same so far.                             *)
LEMMA JoiningAlike ==
  ASSUME NEW S, NEW ps \in Texts(S), NEW qs \in Texts(S), NEW a, NEW b,
         Joining(a, ps, S), Joining(b, qs, S),
         NEW m \in Nat, m <= Len(ps), m <= Len(qs), \A k \in 1..m : ps[k] = qs[k]
  PROVE  \A k \in 1..m : a[k] = b[k]
<1> DEFINE Good == {k \in Nat : k + 1 <= m => a[k + 1] = b[k + 1]}
<1>1. Len(ps) \in Nat /\ Len(ps) >= 1 /\ Len(qs) \in Nat /\ Len(qs) >= 1
  BY TextsAre
<1>2. 0 \in Good
  BY <1>1 DEF Joining
<1>3. ASSUME NEW k \in 0..m - 1, k \in Good
      PROVE  k + 1 \in Good
  <2> SUFFICES ASSUME (k + 1) + 1 <= m PROVE a[(k + 1) + 1] = b[(k + 1) + 1]
    OBVIOUS
  <2>1. /\ (k + 1) + 1 = k + 2 /\ k + 2 \in 1..m /\ k + 2 \in 2..Len(ps) /\ k + 2 \in 2..Len(qs)
        /\ (k + 2) - 1 = k + 1
    BY <1>1
  <2>2. a[k + 2] = JoinStep(a[k + 1], ps[k + 2]) /\ b[k + 2] = JoinStep(b[k + 1], qs[k + 2])
    BY <2>1 DEF Joining
  <2>3. a[k + 1] = b[k + 1]
    BY <1>3
  <2> QED BY <2>1, <2>2, <2>3
<1>4. \A k \in 0..m : k \in Good
  <2> HIDE DEF Good
  <2>1. Good \in SUBSET Nat
    BY DEF Good
  <2> QED BY <1>2, <1>3, <2>1, UpTo
<1>5. ASSUME NEW k \in 1..m
      PROVE  a[k] = b[k]
  <2>1. k - 1 \in 0..m /\ (k - 1) + 1 = k /\ k <= m
    OBVIOUS
  <2>2. k - 1 \in Good
    BY <1>4, <2>1
  <2> QED BY <2>1, <2>2
<1> QED BY <1>5

LEMMA JoinedOne ==
  ASSUME NEW S, ":" \in S, NEW ps \in Texts(S), Len(ps) = 1
  PROVE  Joined(ps) = ps[1]
<1>1. PICK a : Joining(a, ps, S) /\ Joined(ps) = a[Len(ps)]
  BY JoinedInTurn
<1> QED BY <1>1 DEF Joining

LEMMA JoinedLonger ==
  ASSUME NEW S, ":" \in S, NEW ps \in Texts(S), NEW p \in Seq(S)
  PROVE  Append(ps, p) \in Texts(S) /\ Joined(Append(ps, p)) = JoinStep(Joined(ps), p)
<1> DEFINE qs == Append(ps, p)
           n  == Len(ps)
<1>1. ps \in Seq(Seq(S)) /\ n \in Nat /\ n >= 1
  BY TextsAre
<1>2. /\ qs \in Seq(Seq(S)) /\ qs # <<>> /\ Len(qs) = n + 1
      /\ \A k \in 1..n : qs[k] = ps[k] /\ qs[n + 1] = p
  BY <1>1, AppendProperties
<1>3. qs \in Texts(S) /\ qs[n + 1] = p
  <2>1. n \in 1..n
    BY <1>1
  <2> QED BY <1>2, <2>1 DEF Texts
<1> HIDE DEF qs, n
<1>4. PICK a : Joining(a, ps, S) /\ Joined(ps) = a[Len(ps)]
  BY JoinedInTurn
<1>5. PICK b : Joining(b, qs, S) /\ Joined(qs) = b[Len(qs)]
  BY <1>3, JoinedInTurn
<1>6. b[n] = a[n]
  <2>1. n <= Len(ps) /\ n <= Len(qs) /\ \A k \in 1..n : ps[k] = qs[k]
    BY <1>1, <1>2 DEF n
  <2>2. \A k \in 1..n : a[k] = b[k]
    BY <1>1, <1>3, <1>4, <1>5, <2>1, JoiningAlike
  <2>3. n \in 1..n
    BY <1>1
  <2> QED BY <2>2, <2>3
<1>7. b[n + 1] = JoinStep(b[n], p)
  <2>1. n + 1 \in 2..Len(qs) /\ (n + 1) - 1 = n
    BY <1>1, <1>2
  <2>2. b[n + 1] = JoinStep(b[(n + 1) - 1], qs[n + 1])
    BY <1>5, <2>1 DEF Joining
  <2> QED BY <1>3, <2>1, <2>2
<1>8. Joined(qs) = JoinStep(Joined(ps), p)
  BY <1>2, <1>4, <1>5, <1>6, <1>7 DEF n
<1> QED BY <1>3, <1>8 DEF qs

LEMMA AppendToJoinStep ==
  ASSUME NEW S, ":" \in S, NEW whole \in Seq(S), NEW piece \in Seq(S), NEW c \in S
  PROVE  JoinStep(whole, Append(piece, c)) = Append(JoinStep(whole, piece), c)
<1> DEFINE colon == <<":">>
           w == whole \o colon
           l == <<c>>
<1>1. colon \in Seq(S) /\ l \in Seq(S)
  OBVIOUS
<1>2. Append(piece, c) = piece \o l
  BY AppendIsConcat
<1> HIDE DEF colon
<1>3. w \in Seq(S)
  BY <1>1, ConcatProperties
<1> HIDE DEF l, w
<1>4. w \o piece \in Seq(S)
  BY <1>3, ConcatProperties
<1>5. Append(w \o piece, c) = (w \o piece) \o l
  <2> DEFINE x == w \o piece
  <2>1. x \in Seq(S)
    BY <1>4
  <2> HIDE DEF x
  <2>2. Append(x, c) = x \o <<c>>
    BY <2>1, AppendIsConcat
  <2> QED BY <2>2 DEF x, l
<1>6. (w \o piece) \o l = w \o (piece \o l)
  <2>1. l \in Seq(S)
    BY <1>1 DEF l
  <2> QED BY <1>3, <2>1, ConcatAssociative
<1> QED BY <1>2, <1>5, <1>6 DEF JoinStep, w, colon

LEMMA JoinedGrows ==
  ASSUME NEW S, ":" \in S, NEW ps \in Texts(S), NEW c \in S
  PROVE  Joined([ps EXCEPT ![Len(ps)] = Append(@, c)]) = Append(Joined(ps), c)
<1> DEFINE qs == [ps EXCEPT ![Len(ps)] = Append(@, c)]
           n  == Len(ps)
<1>1. ps \in Seq(Seq(S)) /\ n \in Nat /\ n >= 1 /\ n \in 1..n
      /\ \A k \in 1..n : ps[k] \in Seq(S)
  BY TextsAre
<1>2. /\ qs \in Texts(S) /\ Len(qs) = n
      /\ \A k \in 1..n : qs[k] = IF k = n THEN Append(ps[n], c) ELSE ps[k]
  <2>1. Append(ps[n], c) \in Seq(S) /\ qs \in Texts(S)
    BY PieceStepType
  <2>2. /\ Len(qs) = n
        /\ \A k \in 1..n : qs[k] = IF k = n THEN Append(ps[n], c) ELSE ps[k]
    BY <1>1, <2>1, ExceptSeq
  <2> QED BY <2>1, <2>2
<1> HIDE DEF qs, n
<1>3. PICK a : Joining(a, ps, S) /\ Joined(ps) = a[Len(ps)]
  BY JoinedInTurn
<1>4. PICK b : Joining(b, qs, S) /\ Joined(qs) = b[Len(qs)]
  BY <1>2, JoinedInTurn
<1>5. CASE n = 1
  <2>1. Joined(ps) = ps[1] /\ Joined(qs) = qs[1]
    BY <1>2, <1>5, JoinedOne DEF n
  <2>2. qs[1] = Append(ps[1], c)
    BY <1>1, <1>2, <1>5
  <2> QED BY <2>1, <2>2 DEF qs, n
<1>6. CASE n # 1
  <2>1. n - 1 \in Nat /\ n - 1 <= Len(ps) /\ n - 1 <= Len(qs)
    BY <1>1, <1>2 DEF n
  <2>2. \A k \in 1..n - 1 : ps[k] = qs[k]
    BY <1>1, <1>2
  <2>3. \A k \in 1..n - 1 : a[k] = b[k]
    BY <1>2, <1>3, <1>4, <2>1, <2>2, JoiningAlike
  <2>4. n - 1 \in 1..n - 1 /\ n \in 2..Len(ps) /\ n \in 2..Len(qs) /\ n - 1 \in 1..Len(ps)
    BY <1>1, <1>2, <1>6 DEF n
  <2>5. a[n] = JoinStep(a[n - 1], ps[n]) /\ b[n] = JoinStep(b[n - 1], qs[n])
    BY <1>3, <1>4, <2>4 DEF Joining
  <2>6. a[n - 1] \in Seq(S)
    BY <1>3, <2>4 DEF Joining
  <2>7. b[n] = Append(a[n], c)
    <3>1. JoinStep(a[n - 1], Append(ps[n], c)) = Append(JoinStep(a[n - 1], ps[n]), c)
      BY <1>1, <2>6, AppendToJoinStep
    <3> QED BY <1>1, <1>2, <2>3, <2>4, <2>5, <3>1
  <2> QED BY <1>2, <1>3, <1>4, <2>7 DEF qs, n
<1> QED BY <1>5, <1>6
-----------------------------------------------------------------------------
(* split                                                                   *)

(* What the pieces ps of a text u between its colons are                    *)
ArePieces(ps, u, S) ==
  /\ ps \in Texts(S)
  /\ Joined(ps) = u
  /\ \A k \in 1..Len(ps) : ~Contains(ps[k], ":")
  /\ IsFiniteSet(Positions(":", u)) /\ Cardinality(Positions(":", u)) = Len(ps) - 1
  /\ u # <<>> => (u[Len(u)] = ":" <=> ps[Len(ps)] = <<>>)

LEMMA PositionsOfLonger ==
  ASSUME NEW S, NEW u \in Seq(S), NEW c \in S, NEW d
  PROVE  Positions(d, Append(u, c)) = Positions(d, u) \cup (IF c = d THEN {Len(u)} ELSE {})
<1> DEFINE v == Append(u, c)
           n == Len(u)
<1>1. /\ v \in Seq(S) /\ Len(v) = n + 1 /\ v[n + 1] = c /\ n \in Nat
      /\ \A i \in 1..n : v[i] = u[i]
  BY AppendProperties, LenProperties
<1> HIDE DEF v
<1>2. Positions(d, v) = {i \in 0..Len(v) - 1 : v[i + 1] = d}
      /\ Positions(d, u) = {i \in 0..n - 1 : u[i + 1] = d}
  BY <1>1, PositionsAre
<1>3. \A i \in 0..n - 1 : i + 1 \in 1..n /\ v[i + 1] = u[i + 1] /\ i \in 0..Len(v) - 1
  BY <1>1
<1>4. \A i \in 0..Len(v) - 1 : i \in 0..n - 1 \/ i = n
  BY <1>1
<1>5. n \in 0..Len(v) - 1
  BY <1>1
<1> HIDE DEF n
<1>6. Positions(d, v) = Positions(d, u) \cup (IF c = d THEN {n} ELSE {})
  BY <1>1, <1>2, <1>3, <1>4, <1>5
<1> QED BY <1>6 DEF v, n

LEMMA NextPieces ==
  ASSUME NEW S, ":" \in S, NEW u \in Seq(S), NEW ps, ArePieces(ps, u, S), NEW c \in S
  PROVE  ArePieces(PieceStep(ps, c, ":"), Append(u, c), S)
<1> DEFINE qs == PieceStep(ps, c, ":")
           v  == Append(u, c)
           n  == Len(ps)
<1>1. /\ ps \in Texts(S) /\ ps \in Seq(Seq(S)) /\ n \in Nat /\ n >= 1 /\ n \in 1..n
      /\ \A k \in 1..n : ps[k] \in Seq(S)
  BY TextsAre DEF ArePieces
<1>2. /\ v \in Seq(S) /\ v # <<>> /\ Len(v) = Len(u) + 1 /\ v[Len(u) + 1] = c /\ Len(u) \in Nat
  BY AppendProperties, LenProperties
<1>3. /\ IsFiniteSet(Positions(":", u)) /\ Cardinality(Positions(":", u)) = n - 1
      /\ Positions(":", v) = Positions(":", u) \cup (IF c = ":" THEN {Len(u)} ELSE {})
  BY PositionsOfLonger DEF ArePieces
<1>4. CASE c = ":"
  <2> DEFINE rs == Append(ps, <<>>)
  <2>1. qs = rs
    BY <1>4 DEF PieceStep
  <2>2. /\ rs \in Texts(S) /\ Len(rs) = n + 1 /\ rs[n + 1] = <<>>
        /\ \A k \in 1..n : rs[k] = ps[k]
    <3>1. <<>> \in Seq(S)
      OBVIOUS
    <3>2. rs \in Texts(S)
      BY <1>1, <3>1, JoinedLonger
    <3>3. /\ Len(rs) = n + 1 /\ rs[n + 1] = <<>> /\ \A k \in 1..n : rs[k] = ps[k]
      BY <1>1, <3>1, AppendProperties
    <3> QED BY <3>2, <3>3
  <2>3. Joined(rs) = v
    <3> DEFINE colon == <<":">>
    <3>1. <<>> \in Seq(S) /\ colon \in Seq(S)
      OBVIOUS
    <3>2. Joined(rs) = JoinStep(u, <<>>)
      BY <1>1, <3>1, JoinedLonger DEF ArePieces
    <3>3. v = u \o colon
      BY <1>4, AppendIsConcat
    <3> HIDE DEF colon
    <3>4. u \o colon \in Seq(S)
      BY <3>1, ConcatProperties
    <3>5. (u \o colon) \o <<>> = u \o colon
      BY <3>4, ConcatEmptySeq
    <3> QED BY <3>2, <3>3, <3>5 DEF JoinStep, colon
  <2> HIDE DEF rs
  <2>4. \A k \in 1..n + 1 : ~Contains(rs[k], ":")
    <3>1. ~Contains(<<>>, ":")
      BY DEF Contains
    <3>2. \A k \in 1..n : ~Contains(rs[k], ":")
      BY <2>2 DEF ArePieces
    <3>3. \A k \in 1..n + 1 : k \in 1..n \/ k = n + 1
      BY <1>1
    <3> QED BY <2>2, <3>1, <3>2, <3>3
  <2>5. IsFiniteSet(Positions(":", v)) /\ Cardinality(Positions(":", v)) = n
    <3>1. Positions(":", v) = Positions(":", u) \cup {Len(u)}
      BY <1>3, <1>4
    <3>2. Len(u) \notin Positions(":", u)
      BY <1>2, PositionsAre
    <3> HIDE DEF v
    <3>3. IsFiniteSet(Positions(":", u) \cup {Len(u)})
          /\ Cardinality(Positions(":", u) \cup {Len(u)}) = Cardinality(Positions(":", u)) + 1
      BY <1>3, <3>2, FS_AddElement
    <3>4. (n - 1) + 1 = n
      BY <1>1
    <3> HIDE DEF n
    <3> QED BY <1>3, <3>1, <3>3, <3>4
  <2>6. v[Len(v)] = ":" /\ rs[Len(rs)] = <<>>
    BY <1>2, <1>4, <2>2
  <2>7. Len(rs) - 1 = n
    BY <1>1, <2>2
  <2> HIDE DEF qs, v, n
  <2> QED BY <2>1, <2>2, <2>3, <2>4, <2>5, <2>6, <2>7 DEF ArePieces, qs, v
<1>5. CASE c # ":"
  <2> DEFINE rs == [ps EXCEPT ![Len(ps)] = Append(@, c)]
  <2>1. qs = rs
    BY <1>5 DEF PieceStep
  <2>2. rs \in Texts(S) /\ Append(ps[n], c) \in Seq(S) /\ ps[n] \in Seq(S)
    BY <1>1, PieceStepType
  <2>3. Joined(rs) = v
    BY <1>1, JoinedGrows DEF ArePieces
  <2>4. /\ Len(rs) = n /\ rs[n] = Append(ps[n], c)
        /\ \A k \in 1..n : k # n => rs[k] = ps[k]
    BY <1>1, <2>2, ExceptSeq
  <2> HIDE DEF rs
  <2>5. ~Contains(Append(ps[n], c), ":") /\ Append(ps[n], c) # <<>>
    <3> DEFINE p == ps[n]
               q == Append(p, c)
    <3>1. p \in Seq(S) /\ ~Contains(p, ":")
      BY <1>1, <2>2 DEF ArePieces
    <3> HIDE DEF p
    <3>2. /\ q # <<>> /\ Len(q) = Len(p) + 1 /\ q[Len(p) + 1] = c /\ Len(p) \in Nat
          /\ \A i \in 1..Len(p) : q[i] = p[i]
      BY <3>1, AppendProperties, LenProperties
    <3> HIDE DEF q
    <3>3. \A i \in 1..Len(q) : q[i] # ":"
      <4> TAKE i \in 1..Len(q)
      <4>1. i \in 1..Len(p) \/ i = Len(p) + 1
        BY <3>2
      <4> QED BY <1>5, <3>1, <3>2, <4>1 DEF Contains
    <3> QED BY <3>2, <3>3 DEF Contains, q, p
  <2>6. \A k \in 1..n : ~Contains(rs[k], ":")
    BY <2>4, <2>5 DEF ArePieces
  <2>7. Positions(":", v) = Positions(":", u)
    BY <1>3, <1>5
  <2>8. v[Len(v)] # ":" /\ rs[Len(rs)] # <<>>
    BY <1>2, <1>5, <2>4, <2>5
  <2>9. Cardinality(Positions(":", v)) = Len(rs) - 1 /\ IsFiniteSet(Positions(":", v))
    BY <1>3, <2>4, <2>7
  <2> HIDE DEF qs, v, n
  <2> QED BY <2>1, <2>2, <2>3, <2>4, <2>6, <2>8, <2>9 DEF ArePieces, qs, v
<1> QED BY <1>4, <1>5

LEMMA PiecesOf ==
  ASSUME NEW S, ":" \in S, NEW str \in Seq(S)
  PROVE  ArePieces(Pieces(str, ":"), str, S)
<1> DEFINE n == Len(str)
           u(k) == SubSeq(str, 1, k)
<1>1. PICK a \in [0..n -> Texts(S)] :
        /\ a[0] = << <<>> >>
        /\ \A k \in 1..n : a[k] = PieceStep(a[k - 1], str[k], ":")
        /\ Pieces(str, ":") = a[n]
  BY PiecesInTurn
<1>2. n \in Nat /\ \A k \in 1..n : str[k] \in S
  BY LenProperties, ElementOfSeq
<1> DEFINE Good == {k \in Nat : ArePieces(a[k], u(k), S)}
<1>3. 0 \in Good
  <2> DEFINE ps == << <<>> >>
  <2>1. <<>> \in Seq(S) /\ ps \in Seq(Seq(S)) /\ ps # <<>> /\ Len(ps) = 1 /\ ps[1] = <<>>
    OBVIOUS
  <2>2. ps \in Texts(S)
    BY <2>1 DEF Texts
  <2> HIDE DEF ps
  <2>3. Joined(ps) = <<>>
    BY <2>1, <2>2, JoinedOne
  <2>4. u(0) = <<>>
    BY SubSeqEmpty
  <2>5. Positions(":", <<>>) = {}
    BY <2>1, PositionsAre
  <2>6. IsFiniteSet({}) /\ Cardinality({}) = 0
    BY FS_EmptySet
  <2>7. \A k \in 1..Len(ps) : ~Contains(ps[k], ":")
    BY <2>1 DEF Contains
  <2>8. ArePieces(ps, <<>>, S)
    BY <2>1, <2>2, <2>3, <2>5, <2>6, <2>7 DEF ArePieces
  <2> QED BY <1>1, <2>4, <2>8 DEF ps
<1>4. ASSUME NEW k \in 0..n - 1, k \in Good
      PROVE  k + 1 \in Good
  <2>1. k + 1 \in 1..n /\ (k + 1) - 1 = k /\ k + 1 \in Nat
    BY <1>2
  <2>2. str[k + 1] \in S /\ a[k + 1] = PieceStep(a[k], str[k + 1], ":")
    BY <1>1, <1>2, <2>1
  <2>3. u(k) \in Seq(S)
    <3>1. k \in 0..Len(str)
      BY <1>2
    <3> QED BY <3>1, PositionsBefore
  <2>4. u(k + 1) = Append(u(k), str[k + 1])
    <3>1. k \in 0..Len(str) /\ k + 1 \in 0..Len(str) /\ k \in Nat
      BY <1>2
    <3> DEFINE v == u(k + 1)
               w == Append(u(k), str[k + 1])
    <3>2. v \in Seq(S) /\ Len(v) = k + 1 /\ \A i \in 1..k + 1 : v[i] = str[i]
      BY <3>1, PositionsBefore
    <3>3. u(k) \in Seq(S) /\ Len(u(k)) = k /\ \A i \in 1..k : u(k)[i] = str[i]
      BY <3>1, PositionsBefore
    <3> HIDE DEF u
    <3>4. /\ w \in Seq(S) /\ Len(w) = k + 1 /\ w[k + 1] = str[k + 1]
          /\ \A i \in 1..k : w[i] = u(k)[i]
      BY <2>2, <3>3, AppendProperties
    <3> HIDE DEF v, w
    <3>5. \A i \in 1..k + 1 : v[i] = w[i]
      <4> TAKE i \in 1..k + 1
      <4>1. i \in 1..k \/ i = k + 1
        BY <3>1
      <4> QED BY <3>2, <3>3, <3>4, <4>1
    <3>6. v = w
      BY <3>2, <3>4, <3>5, SeqEqual
    <3> QED BY <3>6 DEF v, w
  <2> HIDE DEF u
  <2>5. ArePieces(PieceStep(a[k], str[k + 1], ":"), Append(u(k), str[k + 1]), S)
    BY <1>4, <2>2, <2>3, NextPieces
  <2> QED BY <2>1, <2>2, <2>4, <2>5
<1>5. n \in Good
  <2> HIDE DEF Good, n
  <2>1. Good \in SUBSET Nat
    BY DEF Good
  <2>2. \A k \in 0..n : k \in Good
    BY <1>2, <1>3, <1>4, <2>1, UpTo
  <2> QED BY <1>2, <2>2
<1>6. u(n) = str
  BY SubSeqFull
<1> QED BY <1>1, <1>5, <1>6
(* The entries of $PATH have no colon, put together again they are the      *)
(* variable but for one colon at its end, and there is one for each colon   *)
(* and one more unless the last colon ends it: for a variable of any length *)
(* (util.cpp:74-82, tudor-do.cpp:312-318).                                  *)
THEOREM SplitLosesNothing ==
  TextSpec => []SplitRejoins
<1>1. typed \in Seq(Chars) => SplitRejoins
  <2> SUFFICES ASSUME typed \in Seq(Chars) PROVE SplitRejoins
    OBVIOUS
  <2> DEFINE S == Chars \cup {":"}
             ps == Pieces(typed, ":")
             n == Len(ps)
             fs == Front(ps)
             pieces == split(typed, ":")
  <2>1. typed \in Seq(S) /\ ":" \in S
    <3>1. Chars \subseteq S
      OBVIOUS
    <3> HIDE DEF S
    <3>2. typed \in Seq(S)
      BY <3>1, SeqMonotonic
    <3> QED BY <3>2 DEF S
  <2> HIDE DEF S
  <2>2. ArePieces(ps, typed, S)
    BY <2>1, PiecesOf
  <2>3. pieces = IF ps[n] = <<>> THEN fs ELSE ps
    BY DEF split, Last
  <2> HIDE DEF ps
  <2>4. /\ ps \in Texts(S) /\ ps \in Seq(Seq(S)) /\ n \in Nat /\ n >= 1
        /\ Joined(ps) = typed
        /\ \A k \in 1..n : ps[k] \in Seq(S) /\ ~Contains(ps[k], ":")
        /\ Cardinality(Positions(":", typed)) = n - 1
        /\ typed # <<>> => (Last(typed) = ":" <=> ps[n] = <<>>)
    BY <2>2, TextsAre DEF ArePieces, Last
  <2>5. CASE ps[n] # <<>>
    <3>1. pieces = ps
      BY <2>3, <2>5
    <3>2. ps # <<>> /\ DOMAIN ps = 1..n
      BY <2>4, LenProperties
    <3>3. typed # <<>> => (n - 1) - n = IF Last(typed) = ":" THEN 0 ELSE -1
      BY <2>4, <2>5
    <3> HIDE DEF pieces, n
    <3> QED BY <2>4, <3>1, <3>2, <3>3 DEF SplitRejoins, pieces, n
  <2>6. CASE ps[n] = <<>>
    <3>1. pieces = fs
      BY <2>3, <2>6
    <3>2. /\ fs \in Seq(Seq(S)) /\ Len(fs) = n - 1 /\ DOMAIN fs = 1..n - 1
          /\ \A k \in 1..n - 1 : fs[k] = ps[k]
      <4>1. n - 1 \in 0..n
        BY <2>4
      <4>2. /\ SubSeq(ps, 1, n - 1) \in Seq(Seq(S)) /\ Len(SubSeq(ps, 1, n - 1)) = n - 1
            /\ \A k \in 1..n - 1 : SubSeq(ps, 1, n - 1)[k] = ps[k]
        BY <2>4, <4>1, PositionsBefore
      <4> QED BY <4>2, LenProperties DEF Front
    <3>3. \A k \in DOMAIN fs : ~Contains(fs[k], ":")
      <4> SUFFICES ASSUME NEW k \in 1..n - 1 PROVE ~Contains(fs[k], ":")
        BY <3>2
      <4>1. fs[k] = ps[k]
        BY <3>2
      <4>2. k \in 1..n
        BY <2>4
      <4> QED BY <2>4, <4>1, <4>2
    <3>4. typed # <<>> => (n - 1) - Len(fs) = IF Last(typed) = ":" THEN 0 ELSE -1
      BY <2>4, <2>6, <3>2
    <3> HIDE DEF fs
    <3>5. IF fs = <<>> THEN typed = <<>> ELSE typed \in {Joined(fs), Joined(fs) \o <<":">>}
      <4>1. CASE fs = <<>>
        <5>1. n = 1
          BY <2>4, <3>2, <4>1
        <5>2. typed = ps[1]
          BY <2>1, <2>4, <5>1, JoinedOne
        <5> QED BY <2>6, <4>1, <5>1, <5>2
      <4>2. CASE fs # <<>>
        <5> DEFINE colon == <<":">>
        <5>1. <<>> \in Seq(S) /\ colon \in Seq(S)
          BY <2>1
        <5>2. fs \in Texts(S)
          BY <3>2, <4>2 DEF Texts
        <5>3. ps = Append(fs, <<>>)
          <6> DEFINE qs == Append(fs, <<>>)
          <6>1. /\ qs \in Seq(Seq(S)) /\ Len(qs) = n /\ qs[n] = <<>>
                /\ \A k \in 1..n - 1 : qs[k] = fs[k]
            <7>1. /\ qs \in Seq(Seq(S)) /\ Len(qs) = Len(fs) + 1 /\ qs[Len(fs) + 1] = <<>>
                  /\ \A k \in 1..Len(fs) : qs[k] = fs[k]
              BY <3>2, <5>1, AppendProperties
            <7>2. Len(fs) + 1 = n
              BY <2>4, <3>2
            <7> HIDE DEF n, qs
            <7> QED BY <3>2, <7>1, <7>2
          <6> HIDE DEF qs
          <6>2. \A k \in 1..n : qs[k] = ps[k]
            <7> TAKE k \in 1..n
            <7>1. k \in 1..n - 1 \/ k = n
              BY <2>4
            <7> QED BY <2>6, <3>2, <6>1, <7>1
          <6>3. qs = ps
            BY <2>4, <6>1, <6>2, SeqEqual
          <6> QED BY <6>3 DEF qs
        <5>4. typed = JoinStep(Joined(fs), <<>>)
          BY <2>1, <2>4, <5>1, <5>2, <5>3, JoinedLonger
        <5>5. Joined(fs) \in Seq(S)
          <6>1. PICK a : Joining(a, fs, S) /\ Joined(fs) = a[Len(fs)]
            BY <2>1, <5>2, JoinedInTurn
          <6>2. Len(fs) \in 1..Len(fs)
            BY <5>2, TextsAre
          <6> QED BY <6>1, <6>2 DEF Joining
        <5> HIDE DEF colon
        <5>6. Joined(fs) \o colon \in Seq(S)
          BY <5>1, <5>5, ConcatProperties
        <5>7. (Joined(fs) \o colon) \o <<>> = Joined(fs) \o colon
          BY <5>6, ConcatEmptySeq
        <5>8. typed = Joined(fs) \o colon
          BY <5>4, <5>7 DEF JoinStep, colon
        <5> QED BY <4>2, <5>8 DEF colon
      <4> QED BY <4>1, <4>2
    <3> HIDE DEF pieces, n
    <3> QED BY <2>4, <3>1, <3>3, <3>4, <3>5 DEF SplitRejoins, pieces
  <2> QED BY <2>5, <2>6
<1> QED BY <1>1, TypedAlways, PTL

=============================================================================
