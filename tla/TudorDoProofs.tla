--------------------------- MODULE TudorDoProofs ---------------------------
(***************************************************************************)
(* The run dialog, for any texts, files, variables, names and history; of  *)
(* TextUtilProofs only what it says of the string functions is used.       *)
(***************************************************************************)
EXTENDS TudorDo, TextUtilProofs

Character == STRING \cup {Blank, "\\", "/", "$", "+"}

Text == Seq(Character)

LEMMA Characters ==
  /\ Blank \in Character /\ "\\" \in Character /\ "/" \in Character
  /\ "$" \in Character /\ "+" \in Character
  /\ Seq(STRING) \subseteq Text
<1>1. STRING \subseteq Character
  BY DEF Character
<1>2. \A t \in Seq(STRING) : t \in Seq(Character)
  BY <1>1, SeqMonotonic
<1> QED BY <1>2 DEF Character, Text

-----------------------------------------------------------------------------
(* Bytes                                                                   *)

(* g[k] is what the first k sequences make.                                 *)
Flattening(g, seqs, S) ==
  /\ g \in [1..Len(seqs) -> Seq(S)]
  /\ \A k \in 1..Len(seqs) : g[k] = IF k = 1 THEN seqs[k] ELSE g[k - 1] \o seqs[k]

LEMMA FlattenInTurn ==
  ASSUME NEW S, NEW seqs \in Seq(Seq(S)), Len(seqs) # 0
  PROVE  \E g : Flattening(g, seqs, S) /\ FlattenSeq(seqs) = g[Len(seqs)]
<1> DEFINE n == Len(seqs)
           R(g, i) == IF i = 1 THEN seqs[i] ELSE g[i - 1] \o seqs[i]
           Same(g) == g = [i \in 1..n |-> R(g, i)]
           flat == CHOOSE g : Same(g)
           Good == {k \in Nat : \E g \in [1..k -> Seq(S)] : \A i \in 1..k : g[i] = R(g, i)}
<1>1. n \in Nat /\ n > 0 /\ \A k \in 1..n : seqs[k] \in Seq(S)
  BY LenProperties, ElementOfSeq
<1>2. FlattenSeq(seqs) = flat[n]
  BY <1>1 DEF FlattenSeq
<1>3. 0 \in Good
  <2> DEFINE none == [i \in 1..0 |-> <<>>]
  <2>1. none \in [1..0 -> Seq(S)]
    OBVIOUS
  <2>2. \A i \in 1..0 : none[i] = R(none, i)
    OBVIOUS
  <2> HIDE DEF none
  <2>3. \E g \in [1..0 -> Seq(S)] : \A i \in 1..0 : g[i] = R(g, i)
    BY <2>1, <2>2
  <2> QED BY <2>3
<1>4. ASSUME NEW k \in 0..n - 1, k \in Good
      PROVE  k + 1 \in Good
  <2>1. PICK g \in [1..k -> Seq(S)] : \A i \in 1..k : g[i] = R(g, i)
    BY <1>4
  <2> DEFINE h == [i \in 1..k + 1 |-> IF i = k + 1 THEN R(g, i) ELSE g[i]]
  <2>2. R(g, k + 1) \in Seq(S)
    <3>1. seqs[k + 1] \in Seq(S)
      BY <1>1
    <3>2. CASE k = 0
      BY <3>1, <3>2
    <3>3. CASE k # 0
      <4>1. g[k] \in Seq(S) /\ (k + 1) - 1 = k
        BY <3>3
      <4>2. g[k] \o seqs[k + 1] \in Seq(S)
        BY <3>1, <4>1, ConcatProperties
      <4> QED BY <3>3, <4>1, <4>2
    <3> QED BY <3>2, <3>3
  <2>3. h \in [1..k + 1 -> Seq(S)]
    BY <2>2
  <2>4. \A i \in 1..k + 1 : h[i] = R(h, i)
    <3> TAKE i \in 1..k + 1
    <3>1. i # 1 => h[i - 1] = g[i - 1]
      OBVIOUS
    <3>2. R(h, i) = R(g, i)
      BY <3>1
    <3>3. i # k + 1 => i \in 1..k /\ h[i] = g[i]
      OBVIOUS
    <3>4. i = k + 1 => h[i] = R(g, i)
      OBVIOUS
    <3> HIDE DEF R, h
    <3> QED BY <2>1, <3>2, <3>3, <3>4
  <2>5. k + 1 \in Nat
    OBVIOUS
  <2> QED BY <2>3, <2>4, <2>5
<1>5. n \in Good
  <2> HIDE DEF Good
  <2>1. Good \in SUBSET Nat
    BY DEF Good
  <2>2. \A k \in 0..n : k \in Good
    BY <1>1, <1>3, <1>4, <2>1, UpTo
  <2> QED BY <1>1, <2>2
<1>6. PICK g \in [1..n -> Seq(S)] : \A i \in 1..n : g[i] = R(g, i)
  BY <1>5
<1>7. Same(g)
  BY <1>6
<1>8. Same(flat)
  BY <1>7
<1> HIDE DEF flat
<1>9. \A i \in 1..n : flat[i] = R(flat, i)
  BY <1>8
<1> DEFINE Typed_ == {k \in Nat : k = 0 \/ flat[k] \in Seq(S)}
<1>10. ASSUME NEW k \in 0..n - 1, k \in Typed_
       PROVE  k + 1 \in Typed_
  <2>1. k + 1 \in 1..n /\ (k + 1) - 1 = k /\ k + 1 \in Nat /\ seqs[k + 1] \in Seq(S)
    BY <1>1
  <2>2. k # 0 => flat[k] \o seqs[k + 1] \in Seq(S)
    BY <1>10, <2>1, ConcatProperties
  <2>3. flat[k + 1] = IF k = 0 THEN seqs[k + 1] ELSE flat[k] \o seqs[k + 1]
    BY <1>9, <2>1
  <2> QED BY <2>1, <2>2, <2>3
<1>11. \A k \in 0..n : k \in Typed_
  <2>0. 0 \in Typed_ /\ Typed_ \in SUBSET Nat
    OBVIOUS
  <2> HIDE DEF Typed_
  <2> QED BY <1>1, <1>10, <2>0, UpTo
<1>12. \A k \in 1..n : flat[k] \in Seq(S)
  BY <1>11
<1>13. flat \in [1..n -> Seq(S)]
  BY <1>8, <1>12
<1> QED BY <1>2, <1>9, <1>13 DEF Flattening

ByteOf(c) == IF c \in Wide THEN <<c, "+", "+">> ELSE <<c>>

LEMMA BytesOfNothing ==
  ASSUME NEW t, Len(t) = 0
  PROVE  Bytes(t) = <<>>
<1>1. [x \in 1..0 |-> ByteOf(t[x])] = <<>>
  OBVIOUS
<1> QED BY <1>1 DEF Bytes, FlattenSeq, ByteOf

LEMMA BytesInTurn ==
  ASSUME NEW t \in Text, t # <<>>
  PROVE  \E g : /\ g \in [1..Len(t) -> Text]
                /\ \A k \in 1..Len(t) : g[k] = IF k = 1 THEN ByteOf(t[k]) ELSE g[k - 1] \o ByteOf(t[k])
                /\ Bytes(t) = g[Len(t)]
<1> DEFINE n == Len(t)
           seqs == [x \in 1..n |-> ByteOf(t[x])]
<1>1. n \in Nat /\ n # 0 /\ \A k \in 1..n : t[k] \in Character
  BY EmptySeq, LenProperties, ElementOfSeq DEF Text
<1>2. \A c \in Character : ByteOf(c) \in Text
  BY Characters DEF ByteOf, Text
<1>3. seqs \in Seq(Text) /\ Len(seqs) = n /\ \A k \in 1..n : seqs[k] = ByteOf(t[k])
  BY <1>1, <1>2
<1>4. Bytes(t) = FlattenSeq(seqs)
  BY DEF Bytes, ByteOf
<1> HIDE DEF seqs
<1>5. PICK g : Flattening(g, seqs, Character) /\ FlattenSeq(seqs) = g[Len(seqs)]
  BY <1>1, <1>3, FlattenInTurn DEF Text
<1> QED BY <1>1, <1>3, <1>4, <1>5 DEF Flattening, Text

LEMMA BytesType ==
  ASSUME NEW t \in Text
  PROVE  Bytes(t) \in Text
<1>1. CASE t = <<>>
  BY <1>1, BytesOfNothing, EmptySeq DEF Text
<1>2. CASE t # <<>>
  <2>1. Len(t) \in Nat /\ Len(t) # 0
    BY <1>2, EmptySeq DEF Text
  <2> QED BY <1>2, <2>1, BytesInTurn
<1> QED BY <1>1, <1>2

(* A text without characters of several bytes is its own bytes.             *)
LEMMA BytesOfPlain ==
  ASSUME NEW t \in Text, ToSet(t) \cap Wide = {}
  PROVE  Bytes(t) = t
<1>1. CASE t = <<>>
  BY <1>1, BytesOfNothing, EmptySeq
<1>2. CASE t # <<>>
  <2> DEFINE n == Len(t)
  <2>1. n \in Nat /\ n # 0 /\ DOMAIN t = 1..n
    BY <1>2, EmptySeq, LenProperties DEF Text
  <2>2. \A k \in 1..n : t[k] \in Character /\ ByteOf(t[k]) = <<t[k]>>
    <3> TAKE k \in 1..n
    <3>1. t[k] \in ToSet(t) /\ t[k] \in Character
      BY <2>1, ElementOfSeq DEF ToSet, Text
    <3> QED BY <3>1 DEF ByteOf
  <2>3. PICK g : /\ g \in [1..n -> Text]
                 /\ \A k \in 1..n : g[k] = IF k = 1 THEN ByteOf(t[k]) ELSE g[k - 1] \o ByteOf(t[k])
                 /\ Bytes(t) = g[n]
    BY <1>2, BytesInTurn
  <2> DEFINE Good == {k \in Nat : k = 0 \/ g[k] = SubSeq(t, 1, k)}
  <2>4. ASSUME NEW k \in 0..n - 1, k \in Good
        PROVE  k + 1 \in Good
    <3>1. k + 1 \in 1..n /\ 1 \in 1..n /\ (k + 1) - 1 = k /\ k + 1 \in Nat
      BY <2>1
    <3>2. SubSeq(t, 1, k + 1) = SubSeq(t, 1, k) \o <<t[k + 1]>>
      <4>1. k + 1 \in 1..Len(t) /\ 1 \in 1..Len(t)
        BY <3>1
      <4> QED BY <3>1, <4>1, SubSeqRecursiveSecond DEF Text
    <3>3. CASE k = 0
      <4>1. SubSeq(t, 1, 0) = <<>>
        BY SubSeqEmpty
      <4>2. SubSeq(t, 1, 1) = <<t[1]>>
        <5> DEFINE one == <<t[1]>>
        <5>1. one \in Seq(Character)
          BY <2>2, <3>1
        <5>2. SubSeq(t, 1, 1) = SubSeq(t, 1, 0) \o one
          <6>1. k + 1 = 1
            BY <3>3
          <6> QED BY ONLY <3>2, <3>3, <6>1
        <5> HIDE DEF one
        <5>3. <<>> \o one = one
          BY <5>1, ConcatEmptySeq
        <5> QED BY <4>1, <5>2, <5>3 DEF one
      <4>3. g[1] = <<t[1]>>
        BY <2>2, <2>3, <3>1
      <4>4. g[k + 1] = SubSeq(t, 1, k + 1)
        BY <3>3, <4>2, <4>3
      <4> QED BY <3>1, <4>4
    <3>4. CASE k # 0
      <4>1. g[k] = SubSeq(t, 1, k) /\ k + 1 # 1
        BY <2>4, <3>4
      <4>2. g[k + 1] = g[k] \o ByteOf(t[k + 1])
        BY <2>3, <3>1, <4>1
      <4>3. g[k + 1] = SubSeq(t, 1, k + 1)
        BY <2>2, <3>1, <3>2, <4>1, <4>2
      <4> QED BY <3>1, <4>3
    <3> QED BY <3>3, <3>4
  <2>5. n \in Good
    <3>1. 0 \in Good /\ Good \in SUBSET Nat
      OBVIOUS
    <3> HIDE DEF Good
    <3>2. \A k \in 0..n : k \in Good
      BY <2>1, <2>4, <3>1, UpTo
    <3> QED BY <2>1, <3>2
  <2>6. SubSeq(t, 1, n) = t
    BY SubSeqFull DEF Text
  <2> QED BY <2>1, <2>3, <2>5, <2>6
<1> QED BY <1>1, <1>2

-----------------------------------------------------------------------------
(* The last word                                                           *)

(* The last word ends the text, and every space in it is escaped.           *)
LEMMA LastWordIs ==
  ASSUME NEW t \in Text
  PROVE  LET place == find_last_space_pos(t) + 1
         IN /\ place \in 0..Len(t) /\ Len(t) \in Nat
            /\ LastWord(t) \in Text /\ Len(LastWord(t)) = Len(t) - place
            /\ \A i \in 1..Len(t) - place : LastWord(t)[i] = t[place + i]
            /\ AllEscaped(LastWord(t))
            /\ t = SubSeq(t, 1, place) \o LastWord(t)
<1> DEFINE p == LastSpace(t)
           q == find_last_space_pos(t)
           place == q + 1
           n == Len(t)
           P == Positions(Blank, t)
           w == LastWord(t)
<1> USE DEF Text
<1>1. /\ q \in {-1} \cup P /\ q \in -1..n - 1
      /\ p > 0 /\ t[p] = "\\" =>
           q < p - 1 /\ \A i \in P : i < p => i <= q
      /\ ~(p > 0 /\ t[p] = "\\") => q = p
  BY FindLastSpaceIs
<1>2. p \in -1..n - 1 /\ \A i \in P : i <= p
  BY LastSpaceIs
<1>3. n \in Nat /\ P = {i \in 0..n - 1 : t[i + 1] = Blank}
  BY PositionsAre
<1>4. \A i \in 1..n : t[i] \in Character
  BY ElementOfSeq
<1>5. w = SubSeq(t, place + 1, n)
  <2>1. q \in Int
    BY <1>1, <1>3
  <2>2. q + 2 = place + 1
    <3> HIDE DEF q
    <3> QED BY <2>1
  <2> HIDE DEF place
  <2> QED BY <2>2 DEF LastWord
<1> HIDE DEF q, p, P, w
<1>6. place \in 0..n
  BY <1>1, <1>3
<1>7. w \in Seq(Character) /\ Len(w) = n - place /\ \A i \in 1..n - place : w[i] = t[place + i]
  <2>1. \A i \in place + 1..n : t[i] \in Character
    BY <1>3, <1>4, <1>6
  <2>2. place + 1 \in Int /\ n \in Int
    BY <1>3, <1>6
  <2>3. /\ w \in Seq(Character) /\ Len(w) = IF place + 1 <= n THEN n - (place + 1) + 1 ELSE 0
        /\ \A i \in 1..n - (place + 1) + 1 : w[i] = t[(place + 1) + i - 1]
    <3> HIDE DEF place, n
    <3> QED BY <1>5, <2>1, <2>2, SubSeqProperties
  <2> QED BY <1>3, <1>6, <2>3
<1>8. AllEscaped(w)
  <2> SUFFICES ASSUME NEW i \in 1..Len(w), w[i] = Blank
               PROVE  i > 1 /\ w[i - 1] = "\\"
    BY DEF AllEscaped
  <2>1. i \in 1..n - place /\ t[place + i] = Blank
    BY <1>7
  <2>2. place + i - 1 \in P
    BY <1>3, <1>6, <2>1
  <2>3. place + i - 1 <= p /\ place + i - 1 > q
    <3> DEFINE j == place + i - 1
    <3>1. j > q
      BY <1>1, <1>3, <2>1
    <3>2. j \in P
      BY <2>2
    <3> HIDE DEF j, place
    <3>3. j <= p
      BY <1>2, <3>2
    <3> QED BY <3>1, <3>3 DEF j
  <2>4. p > 0 /\ t[p] = "\\" /\ q < p - 1
    BY <1>1, <1>2, <2>3
  <2>5. place + i - 1 = p
    BY <1>1, <1>2, <1>3, <2>2, <2>3, <2>4
  <2>6. i - 1 \in 1..n - place /\ place + (i - 1) = p
    BY <1>1, <1>6, <2>1, <2>4, <2>5
  <2> QED BY <1>7, <2>4, <2>6
<1>9. t = SubSeq(t, 1, place) \o w
  <2>1. SubSeq(t, 1, place) \o SubSeq(t, place + 1, n) = SubSeq(t, 1, n)
    <3>1. 1 \in 1..Len(t) + 1 /\ place \in 1 - 1..Len(t) /\ n \in place..Len(t)
      BY <1>3, <1>6
    <3> HIDE DEF place, n
    <3> QED BY <3>1, ConcatAdjacentSubSeq
  <2> QED BY <1>5, <2>1, SubSeqFull
<1> QED BY <1>3, <1>6, <1>7, <1>8, <1>9 DEF w, q

(* Where completion cuts the text: before the last word, if every character *)
(* is one byte                                                              *)
LEMMA PlaceIs ==
  ASSUME NEW t \in Text
  PROVE  /\ BytePlace(t) \in Nat
         /\ ToSet(t) \cap Wide = {} =>
              BytePlace(t) = find_last_space_pos(t) + 1 /\ ~PlaceThrows(t)
<1>1. BytePlace(t) \in Nat
  BY BytesType, FindLastSpaceIs, LenProperties DEF BytePlace, Text
<1>2. ASSUME ToSet(t) \cap Wide = {}
      PROVE  BytePlace(t) = find_last_space_pos(t) + 1 /\ ~PlaceThrows(t)
  <2>1. BytePlace(t) = find_last_space_pos(t) + 1
    BY <1>2, BytesOfPlain DEF BytePlace
  <2> QED BY <2>1, LastWordIs DEF PlaceThrows
<1> QED BY <1>1, <1>2

(* A space that comes first is the only one a search can stop at.           *)
LEMMA SpaceFirst ==
  ASSUME NEW t \in Text, SpacePosThrows(t)
  PROVE  Positions(" ", t) = {0}
<1>1. LastSpace(t) = 0
  BY DEF SpacePosThrows
<1>2. LastSpace(t) \in {-1} \cup Positions(Blank, t) /\ \A i \in Positions(Blank, t) : i <= LastSpace(t)
  BY LastSpaceIs DEF Text
<1>3. Positions(Blank, t) = {i \in 0..Len(t) - 1 : t[i + 1] = Blank} /\ Len(t) \in Nat
  BY PositionsAre DEF Text
<1>4. Positions(Blank, t) = {0}
  BY <1>1, <1>2, <1>3
<1> QED BY <1>4, Zenon DEF Blank

LEMMA WordOfTwo ==
  ASSUME NEW t \in Text, ~TooShort(t)
  PROVE  LastWord(t) # <<>>
<1>1. LastWord(t) = <<>> => Bytes(LastWord(t)) = <<>>
  BY BytesOfNothing, EmptySeq
<1> QED BY <1>1, EmptySeq DEF TooShort

-----------------------------------------------------------------------------
(* Paths                                                                   *)

LEMMA LastSlashIs ==
  ASSUME NEW path \in Text, path # <<>>, path[1] = "/"
  PROVE  /\ LastSlash(path) \in 0..Len(path) - 1 /\ Len(path) \in Nat
         /\ path[LastSlash(path) + 1] = "/"
         /\ \A i \in 1..Len(path) : path[i] = "/" => i <= LastSlash(path) + 1
<1> DEFINE P == Positions("/", path)
           n == Len(path)
<1>1. n \in Nat /\ P = {i \in 0..n - 1 : path[i + 1] = "/"}
  BY PositionsAre DEF Text
<1>2. n # 0
  BY EmptySeq DEF Text
<1>3. P \in SUBSET Int /\ n \in Int /\ P # {} /\ \A i \in P : i <= n
  <2>1. 0 \in P
    BY <1>1, <1>2
  <2>2. P \in SUBSET Int /\ n \in Int /\ \A i \in P : i <= n
    BY <1>1
  <2> HIDE DEF P, n
  <2> QED BY <2>1, <2>2
<1> HIDE DEF P
<1>4. Max(P) \in P /\ \A i \in P : i <= Max(P)
  <2> HIDE DEF n
  <2> QED BY <1>3, GreatestOf
<1>5. LastSlash(path) = Max(P)
  BY DEF LastSlash, P
<1>6. ASSUME NEW i \in 1..n, path[i] = "/"
      PROVE  i <= LastSlash(path) + 1
  <2>1. i - 1 \in P
    BY <1>1, <1>6
  <2>2. i - 1 <= Max(P) /\ Max(P) \in Int
    BY <1>1, <1>4, <2>1
  <2> QED BY <1>5, <2>2
<1> QED BY <1>1, <1>4, <1>5, <1>6

LEMMA TailnameIs ==
  ASSUME NEW path \in Text, path # <<>>, path[1] = "/"
  PROVE  LET n == Len(path) - LastSlash(path) - 1
         IN /\ Tailname(path) \in Text /\ n \in Nat /\ Len(Tailname(path)) = n
            /\ \A i \in 1..n : Tailname(path)[i] = path[LastSlash(path) + 1 + i]
<1> DEFINE l == LastSlash(path)
           n == Len(path)
           u == Tailname(path)
<1>1. l \in 0..n - 1 /\ n \in Nat
  BY LastSlashIs
<1>2. \A i \in 1..n : path[i] \in Character
  BY ElementOfSeq DEF Text
<1>3. u = SubSeq(path, l + 2, n)
  BY DEF Tailname
<1> HIDE DEF l, n, u
<1>4. \A i \in l + 2..n : path[i] \in Character
  BY <1>1, <1>2
<1>5. /\ u \in Seq(Character) /\ Len(u) = IF l + 2 <= n THEN n - (l + 2) + 1 ELSE 0
      /\ \A i \in 1..n - (l + 2) + 1 : u[i] = path[(l + 2) + i - 1]
  <2>1. l + 2 \in Int /\ n \in Int
    BY <1>1
  <2> QED BY <1>3, <1>4, <2>1, SubSeqProperties
<1>6. u \in Seq(Character) /\ Len(u) = n - l - 1 /\ \A i \in 1..n - l - 1 : u[i] = path[l + 1 + i]
  BY <1>1, <1>5
<1> QED BY <1>1, <1>6 DEF l, n, u, Text

(* The directory of a path and the slash behind it are where the path       *)
(* begins.                                                                 *)
LEMMA DirnameIs ==
  ASSUME NEW path \in Text, path # <<>>, path[1] = "/"
  PROVE  /\ Dirname(path) \in Text /\ Dirname(path) # <<>>
         /\ IsPrefix(Dirname(path), path)
         /\ Dirname(path) # <<"/">> =>
              /\ Len(Dirname(path)) < Len(path)
              /\ path[Len(Dirname(path)) + 1] = "/"
              /\ path[LastSlash(path)] # "/" => Len(Dirname(path)) = LastSlash(path)
         /\ LastSlash(path) > 0 /\ path[LastSlash(path)] # "/" => Dirname(path) # <<"/">>
<1> DEFINE l == LastSlash(path)
           ends == {x \in 1..l : path[x] # "/"}
           n == Len(path)
           dir == Dirname(path)
<1>1. l \in 0..n - 1 /\ n \in Nat /\ path[l + 1] = "/"
  BY LastSlashIs
<1>2. \A i \in 1..n : path[i] \in Character
  BY ElementOfSeq DEF Text
<1>3. CASE ends = {}
  <2>1. dir = <<"/">>
    BY <1>3 DEF Dirname
  <2>2. dir \in Text /\ Len(dir) = 1 /\ dir[1] = "/"
    BY <2>1, Characters DEF Text
  <2> HIDE DEF dir
  <2>3. IsPrefix(dir, path)
    BY <1>1, <2>2, PrefixByCharacter DEF Text
  <2>4. l > 0 => path[l] = "/"
    BY <1>1, <1>3
  <2> QED BY <2>1, <2>2, <2>3, <2>4, EmptySeq DEF dir, Text
<1>4. CASE ends # {}
  <2> DEFINE m == Max(ends)
  <2>1. m \in ends /\ \A x \in ends : x <= m
    <3>1. ends \in SUBSET Int /\ n \in Int /\ \A x \in ends : x <= n
      BY <1>1
    <3> HIDE DEF ends, n
    <3> QED BY <1>4, <3>1, GreatestOf
  <2>2. dir = SubSeq(path, 1, m)
    BY <1>4 DEF Dirname
  <2> HIDE DEF m, dir
  <2>3. m \in 1..l /\ path[m] # "/" /\ m < n
    BY <1>1, <2>1
  <2>4. dir \in Text /\ Len(dir) = m /\ \A i \in 1..m : dir[i] = path[i]
    <3>1. m \in 0..Len(path)
      BY <1>1, <2>3
    <3> QED BY <2>2, <3>1, PositionsBefore DEF Text
  <2>5. path[m + 1] = "/"
    <3>1. CASE m = l
      BY <1>1, <3>1
    <3>2. CASE m # l
      <4>1. m + 1 \in 1..l /\ m + 1 \notin ends
        BY <1>1, <2>1, <2>3, <3>2
      <4> QED BY <4>1
    <3> QED BY <3>1, <3>2
  <2>6. path[l] # "/" => m = l
    <3>1. l \in 1..l
      BY <1>1, <2>3
    <3> QED BY <2>1, <2>3, <3>1, <1>1
  <2>7. IsPrefix(dir, path)
    <3>1. Len(dir) <= Len(path) /\ \A i \in 1..Len(dir) : dir[i] = path[i]
      BY <1>1, <2>3, <2>4
    <3> QED BY <2>4, <3>1, PrefixByCharacter DEF Text
  <2>8. dir # <<"/">>
    <3>1. ASSUME dir = <<"/">> PROVE FALSE
      <4>1. Len(dir) = 1 /\ dir[1] = "/"
        BY <3>1
      <4> QED BY <2>3, <2>4, <4>1
    <3> QED BY <3>1
  <2> QED BY <2>3, <2>4, <2>5, <2>6, <2>7, <2>8, EmptySeq DEF dir, Text
<1> QED BY <1>3, <1>4

-----------------------------------------------------------------------------
(* Names escaped                                                           *)

LEMMA SlashIsNoBlank == "/" # Blank /\ "$" # Blank
BY Zenon DEF Blank

LEMMA EscapeConcat ==
  ASSUME NEW t \in Text
  PROVE  \A s \in Text : Escape(s \o t) = Escape(s) \o Escape(t)
<1> DEFINE G == {s \in Text : Escape(s \o t) = Escape(s) \o Escape(t)}
<1>1. <<>> \in G
  <2>1. Escape(t) \in Seq(Character)
    BY Characters, EscapedIsOneWord DEF Text
  <2>2. <<>> \o t = t /\ <<>> \o Escape(t) = Escape(t)
    BY <2>1, ConcatEmptySeq DEF Text
  <2> QED BY <2>2, EscapeNothing, EmptySeq DEF Text
<1>2. ASSUME NEW c \in Character, NEW rest \in Seq(Character),
             \A u \in Seq(Character) : Len(u) <= Len(rest) => u \in G
      PROVE  <<c>> \o rest \in G
  <2> DEFINE one == <<c>>
             e == IF c = Blank THEN <<"\\", Blank>> ELSE <<c>>
  <2>1. rest \in G
    BY <1>2, LenProperties
  <2>2. Escape(rest \o t) = Escape(rest) \o Escape(t)
    BY <2>1
  <2>3. /\ one \in Seq(Character) /\ e \in Seq(Character) /\ rest \o t \in Seq(Character)
        /\ Escape(rest) \in Seq(Character) /\ Escape(t) \in Seq(Character)
        /\ one \o rest \in Seq(Character)
    <3>1. one \in Seq(Character) /\ e \in Seq(Character)
      BY Characters
    <3> HIDE DEF one, e
    <3> QED BY <3>1, Characters, EscapedIsOneWord, ConcatProperties DEF Text
  <2>4. Escape(one \o rest) = e \o Escape(rest) /\ Escape(one \o (rest \o t)) = e \o Escape(rest \o t)
    BY <2>3, Characters, EscapeStep
  <2> HIDE DEF one, e, G
  <2>5. (one \o rest) \o t = one \o (rest \o t)
    <3>1. one \in Seq(Character) /\ rest \in Seq(Character) /\ t \in Seq(Character)
      BY <2>3 DEF Text
    <3> QED BY ONLY <3>1, ConcatAssociative
  <2>6. (e \o Escape(rest)) \o Escape(t) = e \o (Escape(rest) \o Escape(t))
    <3>1. e \in Seq(Character) /\ Escape(rest) \in Seq(Character) /\ Escape(t) \in Seq(Character)
      BY <2>3
    <3> QED BY ONLY <3>1, ConcatAssociative
  <2>7. Escape((one \o rest) \o t) = Escape(one \o rest) \o Escape(t)
    BY <2>2, <2>4, <2>5, <2>6
  <2> QED BY <2>3, <2>7 DEF G, one, Text
<1> HIDE DEF G
<1>3. G \in SUBSET Seq(Character)
  BY DEF G, Text
<1>4. \A s \in Seq(Character) : s \in G
  BY <1>1, <1>2, <1>3, TextInduction
<1> QED BY <1>4 DEF G, Text

LEMMA EscapeWithoutSpaces ==
  \A s \in Text : (\A i \in 1..Len(s) : s[i] # Blank) => Escape(s) = s
<1> DEFINE Plain_(s) == \A i \in 1..Len(s) : s[i] # Blank
           G == {s \in Text : Plain_(s) => Escape(s) = s}
<1>1. <<>> \in G
  BY EscapeNothing, EmptySeq DEF Text
<1>2. ASSUME NEW c \in Character, NEW rest \in Seq(Character),
             \A u \in Seq(Character) : Len(u) <= Len(rest) => u \in G
      PROVE  <<c>> \o rest \in G
  <2> DEFINE t == <<c>> \o rest
  <2>1. rest \in G
    BY <1>2, LenProperties
  <2>2. /\ t \in Seq(Character) /\ Len(t) = Len(rest) + 1 /\ Len(rest) \in Nat
        /\ t[1] = c /\ \A i \in 1..Len(rest) : t[i + 1] = rest[i]
    BY LongerBy1
  <2>3. Escape(t) = (IF c = Blank THEN <<"\\", Blank>> ELSE <<c>>) \o Escape(rest)
    BY Characters, EscapeStep
  <2>4. ASSUME Plain_(t) PROVE Escape(t) = t
    <3> HIDE DEF t
    <3>1. c # Blank
      BY <2>2, <2>4
    <3>2. \A i \in 1..Len(rest) : i + 1 \in 1..Len(t)
      BY <2>2
    <3>3. Escape(rest) = rest
      BY <2>1, <2>2, <2>4, <3>2
    <3> QED BY <2>3, <3>1, <3>3 DEF t
  <2> HIDE DEF Plain_, t
  <2> QED BY <2>2, <2>4 DEF Text, t
<1> HIDE DEF G
<1>3. G \in SUBSET Seq(Character)
  BY DEF G, Text
<1>4. \A s \in Seq(Character) : s \in G
  BY <1>1, <1>2, <1>3, TextInduction
<1> QED BY <1>4 DEF G, Text

LEMMA RootIsRoot ==
  /\ <<"/">> \in Text /\ Len(<<"/">>) = 1 /\ <<"/">>[1] = "/"
  /\ Escape(<<"/">>) = <<"/">> /\ Unescape(<<"/">>) = <<"/">>
<1> DEFINE root == <<"/">>
<1>1. root \in Text /\ Len(root) = 1 /\ root[1] = "/"
  BY Characters DEF Text
<1> HIDE DEF root
<1>2. Escape(root) = root
  BY <1>1, SlashIsNoBlank, EscapeWithoutSpaces
<1>3. Unescape(Escape(root)) = root
  BY <1>1, Characters, UnescapeEscape DEF Text
<1> QED BY <1>1, <1>2, <1>3 DEF root

LEMMA EscapeType ==
  ASSUME NEW t \in Text
  PROVE  Escape(t) \in Text /\ Unescape(t) \in Text /\ (t # <<>> => Escape(t) # <<>>)
<1>1. Escape(t) \in Text /\ Unescape(t) \in Text
  BY Characters, EscapedIsOneWord, UnescapeStep DEF Text
<1>2. Unescape(Escape(t)) = t /\ Unescape(<<>>) = <<>>
  BY Characters, UnescapeEscape, EscapeNothing DEF Text
<1> QED BY <1>1, <1>2

LEMMA FullPathIs ==
  ASSUME NEW dir \in Text, NEW name \in Text
  PROVE  LET whole == IF dir = <<"/">> THEN dir ELSE dir \o <<"/">>
         IN /\ whole \in Text /\ FullPath(dir, name) = whole \o name
            /\ Len(whole) \in Nat /\ Len(whole) >= 1
            /\ FullPath(dir, name) \in Text /\ FullPath(dir, name) # <<>>
            /\ FullPath(dir, <<>>) = whole
            /\ Len(whole) = IF dir = <<"/">> THEN 1 ELSE Len(dir) + 1
            /\ whole[Len(whole)] = "/"
            /\ \A i \in 1..Len(whole) - 1 : whole[i] = dir[i]
            /\ Len(FullPath(dir, name)) = Len(whole) + Len(name)
            /\ \A i \in 1..Len(whole) : FullPath(dir, name)[i] = whole[i]
            /\ \A i \in 1..Len(name) : FullPath(dir, name)[Len(whole) + i] = name[i]
<1> DEFINE root == <<"/">>
           whole == IF dir = root THEN dir ELSE dir \o root
           full == FullPath(dir, name)
<1>1. root \in Seq(Character) /\ Len(root) = 1 /\ root[1] = "/"
  BY RootIsRoot DEF Text
<1>2. Append(dir, "/") = dir \o root
  BY Characters, AppendIsConcat DEF Text
<1>3. full = whole \o name /\ FullPath(dir, <<>>) = whole \o <<>>
  BY <1>2 DEF FullPath
<1>0. Len(dir) \in Nat /\ Len(name) \in Nat
  BY LenProperties DEF Text
<1> HIDE DEF root, full
<1>4. /\ whole \in Seq(Character) /\ Len(whole) = (IF dir = root THEN 1 ELSE Len(dir) + 1)
      /\ whole[Len(whole)] = "/" /\ \A i \in 1..Len(whole) - 1 : whole[i] = dir[i]
  <2>1. CASE dir = root
    BY <1>1, <2>1
  <2>2. CASE dir # root
    <3> DEFINE w == dir \o root
    <3>1. /\ w \in Seq(Character) /\ Len(w) = Len(dir) + 1
          /\ \A i \in 1..Len(dir) + 1 : w[i] = IF i <= Len(dir) THEN dir[i] ELSE root[i - Len(dir)]
      <4>1. dir \in Seq(Character) /\ root \in Seq(Character)
        BY <1>1 DEF Text
      <4>2. /\ w \in Seq(Character) /\ Len(w) = Len(dir) + Len(root)
            /\ \A i \in 1..Len(dir) + Len(root) : w[i] = IF i <= Len(dir) THEN dir[i] ELSE root[i - Len(dir)]
        BY ONLY <4>1, ConcatProperties
      <4> QED BY <1>1, <4>2
    <3>2. whole = w
      BY <2>2
    <3> HIDE DEF whole, w
    <3>3. w[Len(dir) + 1] = "/" /\ \A i \in 1..Len(dir) : w[i] = dir[i]
      BY <1>0, <1>1, <3>1
    <3> QED BY <1>0, <2>2, <3>1, <3>2, <3>3
  <2> QED BY <2>1, <2>2
<1> HIDE DEF whole
<1>5. Len(whole) \in Nat /\ Len(whole) >= 1
  BY <1>0, <1>4
<1>6. /\ full \in Seq(Character) /\ Len(full) = Len(whole) + Len(name)
      /\ \A i \in 1..Len(whole) + Len(name) :
           full[i] = IF i <= Len(whole) THEN whole[i] ELSE name[i - Len(whole)]
  BY <1>3, <1>4, ConcatProperties DEF Text
<1>7. /\ \A i \in 1..Len(whole) : full[i] = whole[i]
      /\ \A i \in 1..Len(name) : full[Len(whole) + i] = name[i]
  BY <1>0, <1>5, <1>6
<1>8. full # <<>>
  BY <1>0, <1>5, <1>6, EmptySeq
<1>9. FullPath(dir, <<>>) = whole
  BY <1>3, <1>4, ConcatEmptySeq
<1> QED BY <1>3, <1>4, <1>5, <1>6, <1>7, <1>8, <1>9 DEF whole, full, root, Text

(* Escaping goes into the directory and the name.                           *)
LEMMA EscapeFullPath ==
  ASSUME NEW dir \in Text, NEW name \in Text
  PROVE  Escape(FullPath(dir, name)) = FullPath(Escape(dir), Escape(name))
<1> DEFINE root == <<"/">>
<1>1. root \in Text /\ Escape(root) = root /\ Unescape(root) = root
  BY RootIsRoot
<1>2. Escape(dir) \in Text /\ Escape(name) \in Text /\ Unescape(Escape(dir)) = dir
  BY Characters, EscapeType, UnescapeEscape DEF Text
<1>3. FullPath(dir, name) = (IF dir = root THEN dir ELSE dir \o root) \o name
  BY FullPathIs
<1>4. FullPath(Escape(dir), Escape(name))
        = (IF Escape(dir) = root THEN Escape(dir) ELSE Escape(dir) \o root) \o Escape(name)
  BY <1>2, FullPathIs
<1> HIDE DEF root
<1>5. dir \o root \in Text
  BY <1>1, ConcatProperties DEF Text
<1>6. CASE dir = root
  BY <1>1, <1>3, <1>4, <1>6, EscapeConcat
<1>7. CASE dir # root
  <2>1. Escape(dir) # root
    BY <1>1, <1>2, <1>7
  <2>2. Escape((dir \o root) \o name) = Escape(dir \o root) \o Escape(name)
    BY <1>5, EscapeConcat
  <2>3. Escape(dir \o root) = Escape(dir) \o root
    BY <1>1, EscapeConcat
  <2> QED BY <1>3, <1>4, <1>7, <2>1, <2>2, <2>3
<1> QED BY <1>6, <1>7

-----------------------------------------------------------------------------
(* File names offered                                                      *)

NoSlashDoubled(t) == \A x \in 1..Len(t) - 1 : ~(t[x] = "/" /\ t[x + 1] = "/")

NamePlain(n) == \A x \in Positions(Blank, n) : x = 0 \/ n[x] # "\\"

(* The directory, escaped again, is what the word begins with, a slash      *)
(* behind it.                                                              *)
LEMMA DirectoryTyped ==
  ASSUME NEW word \in Text, word # <<>>, word[1] = "/", AllEscaped(word)
  PROVE  LET dir == Unescape(Dirname(word))
         IN /\ dir \in Text /\ Escape(dir) = Dirname(word)
            /\ IsPrefix(FullPath(Escape(dir), <<>>), word)
<1> DEFINE d == Dirname(word)
           whole == FullPath(d, <<>>)
           n == Len(word)
<1>1. /\ d \in Text /\ d # <<>> /\ IsPrefix(d, word)
      /\ d # <<"/">> => Len(d) < n /\ word[Len(d) + 1] = "/"
  BY DirnameIs
<1> HIDE DEF d
<1>2. Len(d) \in Nat /\ n \in Nat /\ Len(d) <= n /\ \A i \in 1..Len(d) : d[i] = word[i]
  BY <1>1, LenProperties, PrefixByCharacter DEF Text
<1>3. AllEscaped(d)
  <2> SUFFICES ASSUME NEW i \in 1..Len(d), d[i] = Blank
               PROVE  i > 1 /\ d[i - 1] = "\\"
    BY DEF AllEscaped
  <2>1. i \in 1..n /\ word[i] = Blank
    BY <1>2
  <2>2. i > 1 /\ word[i - 1] = "\\"
    BY <2>1 DEF AllEscaped
  <2> QED BY <1>2, <2>2
<1>4. Unescape(d) \in Text /\ Escape(Unescape(d)) = d
  BY <1>1, <1>3, Characters, EscapeType, EscapeUnescape DEF Text
<1>5. IsPrefix(whole, word)
  <2>1. /\ whole = (IF d = <<"/">> THEN d ELSE d \o <<"/">>)
        /\ whole \in Text
        /\ Len(whole) = IF d = <<"/">> THEN 1 ELSE Len(d) + 1
        /\ whole[Len(whole)] = "/"
        /\ \A i \in 1..Len(whole) - 1 : whole[i] = d[i]
    <3>1. <<>> \in Text
      BY EmptySeq DEF Text
    <3> DEFINE w == IF d = <<"/">> THEN d ELSE d \o <<"/">>
    <3>2. /\ w \in Text /\ FullPath(d, <<>>) = w
          /\ Len(w) = IF d = <<"/">> THEN 1 ELSE Len(d) + 1
          /\ w[Len(w)] = "/"
          /\ \A i \in 1..Len(w) - 1 : w[i] = d[i]
      BY <1>1, <3>1, FullPathIs
    <3> HIDE DEF w
    <3>3. whole = w
      BY <3>2
    <3> QED BY <3>2, <3>3 DEF w
  <2>2. CASE d = <<"/">>
    BY <1>1, <2>1, <2>2
  <2>3. CASE d # <<"/">>
    <3> HIDE DEF whole
    <3>1. Len(whole) = Len(d) + 1 /\ Len(d) < n /\ word[Len(d) + 1] = "/"
      BY <1>1, <2>1, <2>3
    <3>2. \A i \in 1..Len(whole) : whole[i] = word[i]
      BY <1>2, <2>1, <3>1
    <3>3. Len(whole) <= Len(word)
      BY <1>2, <3>1
    <3> QED BY <2>1, <3>2, <3>3, PrefixByCharacter DEF Text
  <2> QED BY <2>2, <2>3
<1> QED BY <1>4, <1>5 DEF d

(* A word without doubled slashes is its directory and its name.            *)
LEMMA PathIsWhole ==
  ASSUME NEW path \in Text, path # <<>>, path[1] = "/", NoSlashDoubled(path)
  PROVE  FullPath(Dirname(path), Tailname(path)) = path
<1> DEFINE d == Dirname(path)
           u == Tailname(path)
           l == LastSlash(path)
           n == Len(path)
           whole == IF d = <<"/">> THEN d ELSE d \o <<"/">>
           full == FullPath(d, u)
<1>1. /\ l \in 0..n - 1 /\ n \in Nat /\ path[l + 1] = "/"
      /\ \A i \in 1..n : path[i] = "/" => i <= l + 1
  BY LastSlashIs
<1>2. u \in Text /\ Len(u) = n - l - 1 /\ \A i \in 1..n - l - 1 : u[i] = path[l + 1 + i]
  BY TailnameIs
<1>3. /\ d \in Text /\ d # <<>> /\ IsPrefix(d, path)
      /\ d # <<"/">> =>
           /\ Len(d) < n /\ path[Len(d) + 1] = "/"
           /\ path[l] # "/" => Len(d) = l
      /\ l > 0 /\ path[l] # "/" => d # <<"/">>
  BY DirnameIs
<1> HIDE DEF d, u, l
<1>4. Len(d) \in Nat /\ Len(d) # 0 /\ \A i \in 1..Len(d) : d[i] = path[i]
  BY <1>3, EmptySeq, PrefixByCharacter DEF Text
<1>5. l > 0 => path[l] # "/"
  BY <1>1 DEF NoSlashDoubled
<1>6. /\ Len(whole) = IF d = <<"/">> THEN 1 ELSE Len(d) + 1
      /\ Len(whole) \in Nat /\ whole[Len(whole)] = "/"
      /\ \A i \in 1..Len(whole) - 1 : whole[i] = d[i]
      /\ full \in Text /\ Len(full) = Len(whole) + Len(u)
      /\ \A i \in 1..Len(whole) : full[i] = whole[i]
      /\ \A i \in 1..Len(u) : full[Len(whole) + i] = u[i]
  BY <1>2, <1>3, FullPathIs
<1> HIDE DEF whole, full
<1>7. Len(whole) = l + 1
  <2>1. CASE l = 0
    <3>1. d # <<"/">> => Len(d) + 1 \in 1..n /\ Len(d) + 1 <= l + 1
      BY <1>1, <1>3, <1>4
    <3> QED BY <1>4, <1>6, <2>1, <3>1
  <2>2. CASE l # 0
    BY <1>1, <1>3, <1>5, <1>6, <2>2
  <2> QED BY <2>1, <2>2
<1>8. Len(full) = n
  <2>1. Len(full) = (l + 1) + Len(u) /\ Len(u) = n - l - 1
    BY <1>2, <1>6, <1>7
  <2> HIDE DEF n
  <2> QED BY <1>1, <2>1
<1>9. ASSUME NEW i \in 1..n
      PROVE  full[i] = path[i]
  <2>1. CASE i <= l
    <3>1. i \in 1..Len(d)
      BY <1>1, <1>3, <1>4, <1>5, <2>1
    <3> QED BY <1>1, <1>4, <1>6, <1>7, <2>1, <3>1
  <2>2. CASE i = l + 1
    BY <1>1, <1>6, <1>7, <2>2
  <2>3. CASE i > l + 1
    <3> DEFINE j == i - (l + 1)
    <3>1. j \in 1..n - l - 1 /\ l + 1 + j = i
      BY <1>1, <2>3
    <3> HIDE DEF j
    <3> QED BY <1>2, <1>6, <1>7, <3>1
  <2> QED BY <1>1, <2>1, <2>2, <2>3
<1>10. full = path
  BY <1>6, <1>8, <1>9, SeqEqual DEF Text
<1> QED BY <1>10 DEF full, d, u

(* What a name goes on with is escaped on its own.                          *)
LEMMA EscapedNameBegins ==
  ASSUME NEW u \in Text, NEW name \in Text, IsPrefix(u, name),
         \A i \in 1..Len(u) : u[i] # Blank
  PROVE  IsPrefix(u, Escape(name))
<1> DEFINE m == Len(u)
           n == Len(name)
           rest == SubSeq(name, m + 1, n)
<1>1. m \in Nat /\ n \in Nat /\ m <= n
  BY LenProperties DEF IsPrefix, Text
<1>2. SubSeq(name, 1, m) = u
  BY <1>1, SubSeqFull DEF IsPrefix, Text
<1>3. rest \in Text
  <2>1. \A i \in m + 1..n : name[i] \in Character
    BY <1>1, ElementOfSeq DEF Text
  <2>2. m + 1 \in Int /\ n \in Int
    BY <1>1
  <2> HIDE DEF m, n
  <2> QED BY <2>1, <2>2, SubSeqProperties DEF Text
<1>4. SubSeq(name, 1, m) \o SubSeq(name, m + 1, n) = SubSeq(name, 1, n)
  <2>1. 1 \in 1..Len(name) + 1 /\ m \in 1 - 1..Len(name) /\ n \in m..Len(name)
    BY <1>1
  <2> HIDE DEF m, n
  <2> QED BY <2>1, ConcatAdjacentSubSeq DEF Text
<1>5. name = u \o rest
  BY <1>2, <1>4, SubSeqFull DEF Text
<1> HIDE DEF rest
<1>6. Escape(name) = u \o Escape(rest)
  BY <1>3, <1>5, EscapeConcat, EscapeWithoutSpaces
<1>7. Escape(rest) \in Seq(Character) /\ u \in Seq(Character)
  BY <1>3, EscapeType DEF Text
<1>8. /\ u \o Escape(rest) \in Seq(Character)
      /\ Len(u \o Escape(rest)) = Len(u) + Len(Escape(rest))
      /\ \A i \in 1..Len(u) + Len(Escape(rest)) :
           (u \o Escape(rest))[i] = IF i <= Len(u) THEN u[i] ELSE Escape(rest)[i - Len(u)]
  BY ONLY <1>7, ConcatProperties
<1>9. Len(Escape(rest)) \in Nat
  BY <1>7, LenProperties
<1>10. /\ Escape(name) \in Seq(Character) /\ Len(u) <= Len(Escape(name))
       /\ \A i \in 1..Len(u) : u[i] = Escape(name)[i]
  BY <1>1, <1>6, <1>8, <1>9
<1> QED BY <1>7, <1>10, PrefixByCharacter

LEMMA FileRowExtends ==
  ASSUME NEW word \in Text, word # <<>>, word[1] = "/", AllEscaped(word), NoSlashDoubled(word),
         NEW name \in Text, NamePlain(name), IsPrefix(Tailname(word), name)
  PROVE  IsPrefix(word, Escape(FullPath(Unescape(Dirname(word)), name)))
<1> DEFINE d == Dirname(word)
           u == Tailname(word)
           l == LastSlash(word)
           n == Len(word)
           row == FullPath(d, Escape(name))
<1>1. l \in 0..n - 1 /\ n \in Nat /\ word[l + 1] = "/"
  BY LastSlashIs
<1>2. u \in Text /\ Len(u) = n - l - 1 /\ \A i \in 1..n - l - 1 : u[i] = word[l + 1 + i]
  BY TailnameIs
<1>3. d \in Text /\ Unescape(d) \in Text /\ Escape(Unescape(d)) = d
  BY DirnameIs, DirectoryTyped
<1>4. FullPath(d, u) = word
  BY PathIsWhole
<1>5. Escape(FullPath(Unescape(d), name)) = row
  BY <1>3, EscapeFullPath
<1> HIDE DEF d, u, l
<1>6. Len(u) <= Len(name) /\ Len(name) \in Nat /\ \A i \in 1..Len(u) : name[i] = u[i]
  BY <1>2, LenProperties, PrefixByCharacter DEF Text, u
<1>7. \A i \in 1..Len(u) : u[i] # Blank
  <2> SUFFICES ASSUME NEW i \in 1..Len(u), u[i] = Blank PROVE FALSE
    OBVIOUS
  <2>1. l + 1 + i \in 1..n /\ word[l + 1 + i] = Blank
    BY <1>1, <1>2
  <2>3. word[l + i] = "\\"
    <3> DEFINE x == l + 1 + i
    <3>1. x \in 1..Len(word) /\ word[x] = Blank /\ x - 1 = l + i
      BY <1>1, <1>2, <2>1
    <3> HIDE DEF x
    <3>2. word[x - 1] = "\\"
      BY <3>1 DEF AllEscaped
    <3> QED BY <3>1, <3>2
  <2>4. CASE i = 1
    BY <1>1, <2>3, <2>4
  <2>5. CASE i # 1
    <3> DEFINE j == i - 1
    <3>1. j \in 1..n - l - 1 /\ l + 1 + j = l + i /\ j + 1 = i /\ j > 0
      BY <1>1, <1>2, <2>5
    <3> HIDE DEF j
    <3>2. name[j] = "\\" /\ name[j + 1] = Blank
      BY <1>2, <1>6, <2>3, <3>1
    <3>3. j \in 0..Len(name) - 1
      BY <1>1, <1>2, <1>6, <3>1
    <3>4. j \in Positions(Blank, name)
      BY <3>2, <3>3, PositionsAre DEF Text
    <3> QED BY <3>1, <3>2, <3>4 DEF NamePlain
  <2> QED BY <2>4, <2>5
<1>8. IsPrefix(u, Escape(name)) /\ Escape(name) \in Text
  BY <1>2, <1>7, EscapedNameBegins, EscapeType DEF u
<1>9. Len(u) <= Len(Escape(name)) /\ Len(Escape(name)) \in Nat /\ \A i \in 1..Len(u) : Escape(name)[i] = u[i]
  BY <1>2, <1>8, LenProperties, PrefixByCharacter DEF Text
<1>10. PICK k \in Nat :
         /\ Len(word) = k + Len(u) /\ \A i \in 1..Len(u) : word[k + i] = u[i]
         /\ Len(row) = k + Len(Escape(name))
         /\ \A i \in 1..Len(Escape(name)) : row[k + i] = Escape(name)[i]
         /\ \A i \in 1..k : row[i] = word[i]
         /\ row \in Text
  <2> DEFINE w == IF d = <<"/">> THEN d ELSE d \o <<"/">>
             e == Escape(name)
  <2>1. /\ Len(w) \in Nat /\ Len(FullPath(d, u)) = Len(w) + Len(u)
        /\ \A i \in 1..Len(w) : FullPath(d, u)[i] = w[i]
        /\ \A i \in 1..Len(u) : FullPath(d, u)[Len(w) + i] = u[i]
    BY <1>2, <1>3, FullPathIs
  <2>2. /\ FullPath(d, e) \in Text /\ Len(FullPath(d, e)) = Len(w) + Len(e)
        /\ \A i \in 1..Len(w) : FullPath(d, e)[i] = w[i]
        /\ \A i \in 1..Len(e) : FullPath(d, e)[Len(w) + i] = e[i]
    BY <1>3, <1>8, FullPathIs
  <2> HIDE DEF w
  <2> QED BY <1>4, <2>1, <2>2
<1> HIDE DEF row
<1>11. Len(word) <= Len(row)
  BY <1>2, <1>9, <1>10
<1>12. ASSUME NEW i \in 1..Len(word)
       PROVE  word[i] = row[i]
  <2>1. CASE i <= k
    BY <1>10, <2>1
  <2>2. CASE i > k
    <3> DEFINE j == i - k
    <3>1. j \in 1..Len(u) /\ k + j = i /\ j \in 1..Len(Escape(name))
      BY <1>1, <1>2, <1>9, <1>10, <2>2
    <3> HIDE DEF j
    <3> QED BY <1>9, <1>10, <3>1
  <2> QED BY <1>10, <2>1, <2>2
<1>13. IsPrefix(word, row)
  BY <1>10, <1>11, <1>12, PrefixByCharacter DEF Text
<1> QED BY <1>5, <1>13 DEF d

-----------------------------------------------------------------------------
(* The rows for a text                                                     *)

Row == Text \ {<<>>}

Silent(t) ==
  TooShort(t) \/ (LastWord(t)[1] = "/" /\ ~Exists(Unescape(Dirname(LastWord(t)))))

FilesOrVariables(t) ==
  IF Silent(t) THEN {}
  ELSE IF LastWord(t)[1] = "/" THEN FileRows(LastWord(t))
  ELSE IF LastWord(t)[1] = "$" THEN VariableRows(LastWord(t)) ELSE {}

Remembered(t, past) == IF Silent(t) THEN {} ELSE {s \in past : IsPrefix(LastWord(t), s)}

LEMMA RowsForIs ==
  ASSUME NEW t
  PROVE  /\ RowsFor(t)[1] = FilesOrVariables(t)
         /\ RowsFor(t)[2] = Remembered(t, m_history)
         /\ RowsFor(t)[3] = IF Silent(t) THEN {}
                            ELSE {n \in UNION {m_path[d] : d \in Dir} : IsPrefix(LastWord(t), n)}
<1>1. CASE Silent(t)
  <2>1. RowsFor(t) = NoRows
    BY <1>1 DEF RowsFor, Silent
  <2> QED BY <1>1, <2>1 DEF NoRows, FilesOrVariables, Remembered
<1>2. CASE ~Silent(t)
  BY <1>2 DEF RowsFor, Silent, FilesOrVariables, Remembered
<1> QED BY <1>1, <1>2

LEMMA ConstantTexts ==
  /\ Typed \subseteq Text /\ Env \subseteq Text /\ Home \in Text /\ Name \subseteq Text
  /\ Launchable \subseteq Row
  /\ \A dir \in DOMAIN Tree : Tree[dir] \subseteq Text
<1>1. \A X \in {Typed, Env, {Home, XdgOpen}, Launchable, Name} : X \subseteq Seq(STRING)
  BY TextsAssumption
<1>2. \A X \in {Typed, Env, {Home, XdgOpen}, Launchable, Name} : X \subseteq Text
  BY <1>1, Characters
<1>3. /\ Typed \subseteq Text /\ Env \subseteq Text /\ {Home, XdgOpen} \subseteq Text
      /\ Launchable \subseteq Text /\ Name \subseteq Text
  BY <1>2
<1> QED BY <1>3, Characters, TextsAssumption DEF Row

(* What the list offers first goes on from a directory that can be read.    *)
LEMMA DirectoryReadable ==
  ASSUME NEW t \in Text, ~ChangeThrows(t), ~Silent(t), LastWord(t)[1] = "/"
  PROVE  Unescape(Dirname(LastWord(t))) \in DOMAIN Tree
<1>1. Len(Bytes(t)) \in Nat
  BY BytesType, LenProperties DEF Text
<1>2. Len(Bytes(t)) >= 2
  BY <1>1 DEF Silent, TooShort
<1> QED BY <1>2 DEF ChangeThrows, Silent, Exists

(* No row is empty.                                                         *)
LEMMA RowsAreRows ==
  ASSUME NEW t \in Text, ~ChangeThrows(t)
  PROVE  FilesOrVariables(t) \subseteq Row
<1> SUFFICES ASSUME NEW r \in FilesOrVariables(t) PROVE r \in Row
  OBVIOUS
<1> DEFINE word == LastWord(t)
<1>1. ~Silent(t) /\ word \in Text /\ word # <<>>
  BY LastWordIs, WordOfTwo DEF FilesOrVariables, Silent
<1>2. CASE word[1] = "/"
  <2> DEFINE dir == Unescape(Dirname(word))
  <2>1. dir \in DOMAIN Tree /\ dir \in Text
    BY <1>1, <1>2, DirectoryReadable, LastWordIs, DirectoryTyped
  <2>2. r \in FileRows(word)
    BY <1>1, <1>2 DEF FilesOrVariables
  <2>3. PICK name \in Tree[dir] : r = Escape(FullPath(dir, name))
    BY <2>2 DEF FileRows
  <2>4. name \in Text
    BY <2>1, ConstantTexts
  <2>5. FullPath(dir, name) \in Text /\ FullPath(dir, name) # <<>>
    BY <2>1, <2>4, FullPathIs
  <2> QED BY <2>3, <2>5, EscapeType DEF Row
<1>3. CASE word[1] = "$"
  <2>1. r \in VariableRows(word)
    BY <1>1, <1>3 DEF FilesOrVariables
  <2>2. PICK v \in Env : r = <<"$">> \o v
    BY <2>1 DEF VariableRows
  <2>3. v \in Seq(Character)
    BY ConstantTexts DEF Text
  <2> QED BY <2>2, <2>3, Characters, LongerBy1 DEF Row, Text
<1>4. CASE word[1] # "/" /\ word[1] # "$"
  BY <1>4 DEF FilesOrVariables
<1> QED BY <1>2, <1>3, <1>4

LEMMA PrefixOfNothing ==
  ASSUME NEW s \in Text, s # <<>>, IsPrefix(s, <<>>)
  PROVE  FALSE
BY EmptySeq DEF IsPrefix, Text

LEMMA RowsForType ==
  ASSUME NEW t \in Text, ~ChangeThrows(t), m_history \subseteq Row, m_path \in [Dir -> SUBSET Name]
  PROVE  /\ \A x \in 1..3 : RowsFor(t)[x] \subseteq Row
         /\ \A n \in RowsFor(t)[3] : n \in Name /\ IsPrefix(LastWord(t), n)
<1>1. RowsFor(t)[1] \subseteq Row
  BY RowsForIs, RowsAreRows
<1>2. RowsFor(t)[2] \subseteq Row
  BY RowsForIs DEF Remembered
<1>3. ASSUME NEW n \in RowsFor(t)[3]
      PROVE  n \in Name /\ IsPrefix(LastWord(t), n) /\ n \in Row
  <2>1. ~Silent(t) /\ n \in UNION {m_path[d] : d \in Dir} /\ IsPrefix(LastWord(t), n)
    BY <1>3, RowsForIs
  <2>2. n \in Name
    BY <2>1
  <2>3. n # <<>>
    BY <2>1, LastWordIs, WordOfTwo, PrefixOfNothing DEF Silent
  <2> QED BY <2>1, <2>2, <2>3, ConstantTexts DEF Row
<1> QED BY <1>1, <1>2, <1>3

(* Without a doubled slash and without a backslash before the space of a    *)
(* name, what the list offers first goes on from the last word.            *)
LEMMA FirstRowsExtend ==
  ASSUME NEW t \in Text, ~ChangeThrows(t), NoSlashDoubled(t),
         \A dir \in DOMAIN Tree : \A n \in Tree[dir] : NamePlain(n),
         NEW r \in FilesOrVariables(t)
  PROVE  IsPrefix(LastWord(t), r)
<1> DEFINE word == LastWord(t)
           place == find_last_space_pos(t) + 1
<1>1. ~Silent(t) /\ word # <<>>
  BY WordOfTwo DEF FilesOrVariables, Silent
<1>2. /\ place \in 0..Len(t) /\ Len(t) \in Nat
      /\ word \in Text /\ Len(word) = Len(t) - place
      /\ \A i \in 1..Len(t) - place : word[i] = t[place + i]
      /\ AllEscaped(word)
  BY LastWordIs
<1>3. NoSlashDoubled(word)
  <2> HIDE DEF word, place
  <2> SUFFICES ASSUME NEW x \in 1..Len(word) - 1, word[x] = "/", word[x + 1] = "/"
               PROVE  FALSE
    BY DEF NoSlashDoubled
  <2> DEFINE y == place + x
  <2>1. y \in 1..Len(t) - 1 /\ t[y] = "/" /\ y + 1 = place + (x + 1)
    BY <1>2
  <2>2. t[y + 1] = "/"
    <3>1. x + 1 \in 1..Len(t) - place
      BY <1>2
    <3> QED BY <1>2, <2>1, <3>1
  <2> HIDE DEF y
  <2> QED BY <2>1, <2>2 DEF NoSlashDoubled
<1>4. CASE word[1] = "/"
  <2> DEFINE dir == Unescape(Dirname(word))
  <2>1. dir \in DOMAIN Tree
    BY <1>1, <1>4, DirectoryReadable
  <2>2. r \in FileRows(word)
    BY <1>1, <1>4 DEF FilesOrVariables
  <2>3. PICK name \in Tree[dir] : IsPrefix(Tailname(word), name) /\ r = Escape(FullPath(dir, name))
    BY <2>2 DEF FileRows
  <2>4. name \in Text /\ NamePlain(name)
    BY <2>1, ConstantTexts
  <2> QED BY <1>1, <1>2, <1>3, <1>4, <2>3, <2>4, FileRowExtends
<1>5. CASE word[1] = "$"
  <2>1. r \in VariableRows(word)
    BY <1>1, <1>5 DEF FilesOrVariables
  <2>2. PICK v \in Env : IsPrefix(Tail(word), v) /\ r = <<"$">> \o v
    BY <2>1 DEF VariableRows
  <2>3. v \in Seq(Character)
    BY ConstantTexts DEF Text
  <2> HIDE DEF word
  <2>4. /\ Tail(word) \in Seq(Character) /\ word = <<"$">> \o Tail(word)
        /\ Len(Tail(word)) = Len(word) - 1 /\ Len(word) \in Nat
    BY <1>1, <1>2, <1>5, FirstAndRest DEF Text
  <2>5. /\ r \in Seq(Character) /\ Len(r) = Len(v) + 1 /\ Len(v) \in Nat
        /\ r[1] = "$" /\ \A i \in 1..Len(v) : r[i + 1] = v[i]
    BY <2>2, <2>3, Characters, LongerBy1
  <2>6. \A i \in 1..Len(Tail(word)) : word[i + 1] = Tail(word)[i]
    BY <2>4, Characters, LongerBy1
  <2>7. Len(Tail(word)) <= Len(v) /\ \A i \in 1..Len(Tail(word)) : Tail(word)[i] = v[i]
    <3> DEFINE rest == Tail(word)
    <3>1. rest \in Seq(Character) /\ IsPrefix(rest, v)
      BY <2>2, <2>4
    <3> HIDE DEF rest
    <3>2. Len(rest) <= Len(v) /\ \A i \in 1..Len(rest) : rest[i] = v[i]
      BY <2>3, <3>1, PrefixByCharacter
    <3> QED BY <3>2 DEF rest
  <2>8. ASSUME NEW i \in 1..Len(word)
        PROVE  word[i] = r[i]
    <3>1. CASE i = 1
      BY <1>5, <2>5, <3>1
    <3>2. CASE i # 1
      <4> DEFINE j == i - 1
      <4>1. j \in 1..Len(Tail(word)) /\ j + 1 = i /\ j \in 1..Len(v)
        BY <2>4, <2>5, <2>7, <3>2
      <4> HIDE DEF j
      <4> QED BY <2>5, <2>6, <2>7, <4>1
    <3> QED BY <3>1, <3>2
  <2>9. Len(word) <= Len(r)
    BY <2>4, <2>5, <2>7
  <2> QED BY <1>2, <2>5, <2>8, <2>9, PrefixByCharacter DEF Text, word
<1>6. CASE word[1] # "/" /\ word[1] # "$"
  BY <1>6 DEF FilesOrVariables
<1> QED BY <1>4, <1>5, <1>6

(* The text without a doubled slash or a character of several bytes, as the *)
(* property says it                                                         *)
LEMMA PlainIs ==
  ASSUME Plain
  PROVE  /\ ToSet(text) \cap Wide = {}
         /\ NoSlashDoubled(text)
         /\ \A dir \in DOMAIN Tree : \A n \in Tree[dir] : NamePlain(n)
BY Zenon DEF Plain, NoSlashDoubled, NamePlain, Blank

(* What begins all texts begins the longest text that begins them all.      *)
LEMMA CommonExtension ==
  ASSUME NEW t \in Text, NEW more \in SUBSET Text, more # {}, \A r \in more : IsPrefix(t, r)
  PROVE  LongestCommonPrefix(more) \in Text /\ IsPrefix(t, LongestCommonPrefix(more))
<1> DEFINE C == CommonPrefixes(more)
           c == LongestCommonPrefix(more)
<1>1. PICK r \in more : TRUE
  OBVIOUS
<1>2. r \in Text /\ IsPrefix(t, r)
  BY <1>1
<1>3. Len(t) \in 0..Len(r) /\ Len(r) \in Nat /\ SubSeq(r, 1, Len(t)) = t
  <2>1. Len(t) \in Nat /\ Len(r) \in Nat
    BY <1>2, LenProperties DEF Text
  <2>2. SubSeq(t, 1, Len(t)) = t
    BY SubSeqFull DEF Text
  <2>3. Len(t) <= Len(r) /\ SubSeq(t, 1, Len(t)) = SubSeq(r, 1, Len(t))
    BY <1>2 DEF IsPrefix
  <2> QED BY <2>1, <2>2, <2>3
<1>4. t \in C
  <2>1. t \in Prefixes(r)
    BY <1>3 DEF Prefixes
  <2> QED BY <2>1 DEF CommonPrefixes
<1>5. ASSUME NEW u \in C
      PROVE  u \in Text /\ Len(u) \in Nat /\ IsPrefix(u, r) /\ Len(u) <= Len(r)
  <2>1. PICK s \in more : u \in Prefixes(s)
    BY DEF CommonPrefixes
  <2>2. PICK l \in 0..Len(s) : u = SubSeq(s, 1, l)
    BY <2>1 DEF Prefixes
  <2>3. s \in Seq(Character)
    BY DEF Text
  <2>4. u \in Text
    BY <2>2, <2>3, PositionsBefore DEF Text
  <2>5. IsPrefix(u, r)
    BY DEF CommonPrefixes
  <2> QED BY <2>4, <2>5, LenProperties DEF Text, IsPrefix
<1>6. \E u \in C : \A v \in C : Len(v) <= Len(u)
  <2> DEFINE L == {Len(u) : u \in C}
  <2>1. L \in SUBSET Int /\ L # {} /\ Len(r) \in Int /\ \A x \in L : x <= Len(r)
    <3> HIDE DEF C
    <3>1. Len(t) \in L /\ Len(r) \in Int
      BY <1>3, <1>4
    <3>2. ASSUME NEW x \in L
          PROVE  x \in Int /\ x <= Len(r)
      BY <1>5
    <3> HIDE DEF L
    <3> QED BY <3>1, <3>2
  <2>2. Max(L) \in L /\ \A x \in L : x <= Max(L)
    <3> HIDE DEF L
    <3> QED BY <2>1, GreatestOf
  <2>3. PICK u \in C : Len(u) = Max(L)
    <3> HIDE DEF C
    <3> QED BY <2>2
  <2>4. \A v \in C : Len(v) \in L
    OBVIOUS
  <2> HIDE DEF L, C
  <2> QED BY <2>2, <2>3, <2>4
<1>7. c \in C /\ \A v \in C : Len(v) <= Len(c)
  BY <1>6 DEF LongestCommonPrefix
<1> HIDE DEF C, c
<1>8. c \in Text /\ IsPrefix(c, r) /\ Len(t) <= Len(c)
  BY <1>4, <1>5, <1>7
<1>9. \A i \in 1..Len(t) : t[i] = r[i]
  BY <1>2, PrefixByCharacter DEF Text
<1>10. \A i \in 1..Len(c) : c[i] = r[i]
  BY <1>2, <1>8, PrefixByCharacter DEF Text
<1>11. Len(c) \in Nat /\ Len(t) \in Nat
  BY <1>8, LenProperties DEF Text
<1>12. \A i \in 1..Len(t) : t[i] = c[i]
  BY <1>8, <1>9, <1>10, <1>11
<1>13. IsPrefix(t, c)
  BY <1>8, <1>12, PrefixByCharacter DEF Text
<1> QED BY <1>8, <1>13 DEF c

LEMMA LesserOf ==
  ASSUME NEW a \in Int, NEW b \in Int
  PROVE  Min({a, b}) \in {a, b} /\ Min({a, b}) <= a /\ Min({a, b}) <= b
<1>1. \E x \in {a, b} : \A y \in {a, b} : x <= y
  <2>1. CASE a <= b
    BY <2>1
  <2>2. CASE ~(a <= b)
    BY <2>2
  <2> QED BY <2>1, <2>2
<1> QED BY <1>1 DEF Min

LEMMA FirstRowsAreOffered ==
  ASSUME Offered # {}
  PROVE  FirstRows \subseteq Offered
<1> DEFINE X == {x \in 1..3 : rows[x] # {}}
<1>1. X \in SUBSET Nat /\ X # {}
  BY DEF Offered
<1>2. PICK x \in X : \A y \in X : x <= y
  <2> HIDE DEF X
  <2> QED BY <1>1, LeastOf
<1>3. Min(X) \in X
  BY <1>2 DEF Min
<1>4. FirstRows = rows[Min(X)]
  BY DEF FirstRows
<1> QED BY <1>3, <1>4 DEF Offered

LEMMA TextParts ==
  ASSUME NEW t \in Text
  PROVE  /\ \A n \in 0..Len(t) : SubSeq(t, 1, n) \in Text /\ Len(SubSeq(t, 1, n)) = n
         /\ \A u \in Text : t \o u \in Text
         /\ Append(t, "/") \in Text
         /\ t # <<>> => Front(t) \in Text
         /\ Len(t) \in Nat
<1>1. \A n \in 0..Len(t) : SubSeq(t, 1, n) \in Text /\ Len(SubSeq(t, 1, n)) = n
  BY PositionsBefore DEF Text
<1>2. \A u \in Text : t \o u \in Text
  BY ConcatProperties DEF Text
<1>3. Append(t, "/") \in Text
  BY Characters, AppendProperties DEF Text
<1>4. Len(t) \in Nat
  BY LenProperties DEF Text
<1>5. t # <<>> => Front(t) \in Text
  <2>1. t # <<>> => Len(t) - 1 \in 0..Len(t)
    BY <1>4, EmptySeq DEF Text
  <2> QED BY <1>1, <2>1 DEF Front
<1> QED BY <1>1, <1>2, <1>3, <1>4, <1>5

-----------------------------------------------------------------------------
(* The inductive invariant of the dialog                                   *)

Bad(t) ==
  \/ Positions(Blank, t) = {0}
  \/ ToSet(t) \cap Wide # {}
  \/ \E path \in Unreadable \cup Regular :
       IsPrefix(FullPath(Escape(path), <<>>), LastWord(t))

TextsKept ==
  /\ text \in Text /\ mark \in 0..Len(text)
  /\ \A x \in 1..3 : rows[x] \subseteq Row
  /\ m_history \subseteq Row /\ launched \subseteq Row
  /\ shown \in BOOLEAN /\ mode \in {"idle", "error"} /\ fault \in {"none", "abort"}

(* The rows go with the text, and the text is one the program got over.     *)
RowsKept ==
  fault = "none" =>
    /\ ~ChangeThrows(text)
    /\ rows[1] = FilesOrVariables(text)
    /\ rows[2] = Remembered(text, m_history)
    /\ \A n \in rows[3] : n \in Name /\ IsPrefix(LastWord(text), n)

DialogKept == TextsKept /\ RowsKept /\ (fault = "abort" => Bad(text))

Listed == m_path \in [Dir -> SUBSET Name]

LEMMA NothingTyped ==
  /\ <<>> \in Text /\ Silent(<<>>) /\ ~ChangeThrows(<<>>)
  /\ FilesOrVariables(<<>>) = {} /\ \A past : Remembered(<<>>, past) = {}
<1>1. Len(Bytes(<<>>)) = 0
  BY BytesOfNothing, EmptySeq
<1> QED BY <1>1, EmptySeq DEF Silent, TooShort, ChangeThrows, FilesOrVariables, Remembered, Text

LEMMA ThrowsOnBadOnly ==
  ASSUME NEW t \in Text, ChangeThrows(t)
  PROVE  Bad(t)
<1>1. CASE SpacePosThrows(t)
  <2>1. Positions(" ", t) = {0}
    BY <1>1, SpaceFirst
  <2>2. Positions(Blank, t) = {0}
    BY <2>1, Zenon DEF Blank
  <2> QED BY <2>2 DEF Bad
<1>2. CASE ~SpacePosThrows(t)
  <2> DEFINE word == LastWord(t)
             dir == Unescape(Dirname(word))
  <2>1. ~TooShort(t) /\ word[1] = "/" /\ dir \in Unreadable \cup Regular
    BY <1>2 DEF ChangeThrows
  <2>2. word \in Text /\ word # <<>> /\ AllEscaped(word)
    BY <2>1, LastWordIs, WordOfTwo
  <2>3. IsPrefix(FullPath(Escape(dir), <<>>), word)
    BY <2>1, <2>2, DirectoryTyped
  <2> QED BY <2>1, <2>3 DEF Bad
<1> QED BY <1>1, <1>2

(* However the text is set, the rows follow.                                *)
LEMMA SetTextKeeps ==
  ASSUME DialogKept, Listed, fault = "none", NEW t \in Text, SetText(t)
  PROVE  /\ text' = t
         /\ \A x \in 1..3 : rows'[x] \subseteq Row
         /\ fault' \in {"none", "abort"}
         /\ fault' = "none" =>
              /\ ~ChangeThrows(t)
              /\ rows'[1] = FilesOrVariables(t)
              /\ rows'[2] = Remembered(t, m_history)
              /\ \A n \in rows'[3] : n \in Name /\ IsPrefix(LastWord(t), n)
         /\ fault' = "abort" => Bad(t)
<1>1. CASE t = text
  BY <1>1 DEF SetText, DialogKept, TextsKept, RowsKept
<1>2. CASE t # text /\ ChangeThrows(t)
  <2>1. rows' = NoRows /\ fault' = "abort" /\ text' = t
    BY <1>2 DEF SetText
  <2>2. \A x \in 1..3 : rows'[x] \subseteq Row
    BY <2>1 DEF NoRows
  <2> QED BY <1>2, <2>1, <2>2, ThrowsOnBadOnly
<1>3. CASE t # text /\ ~ChangeThrows(t)
  <2>1. rows' = RowsFor(t) /\ fault' = "none" /\ text' = t
    BY <1>3 DEF SetText
  <2>2. /\ \A x \in 1..3 : RowsFor(t)[x] \subseteq Row
        /\ \A n \in RowsFor(t)[3] : n \in Name /\ IsPrefix(LastWord(t), n)
    BY <1>3, RowsForType DEF DialogKept, TextsKept, Listed
  <2>3. RowsFor(t)[1] = FilesOrVariables(t) /\ RowsFor(t)[2] = Remembered(t, m_history)
    BY RowsForIs
  <2> QED BY <1>3, <2>1, <2>2, <2>3
<1> QED BY <1>1, <1>2, <1>3

(* An event that sets the text and leaves the history alone                 *)
LEMMA EditKeeps ==
  ASSUME DialogKept, Listed, fault = "none", NEW t \in Text, SetText(t),
         mark' \in 0..Len(text'), shown' \in BOOLEAN, mode' \in {"idle", "error"},
         UNCHANGED <<m_history, launched>>
  PROVE  DialogKept'
<1>1. /\ text' = t
      /\ \A x \in 1..3 : rows'[x] \subseteq Row
      /\ fault' \in {"none", "abort"}
      /\ fault' = "none" =>
           /\ ~ChangeThrows(t)
           /\ rows'[1] = FilesOrVariables(t)
           /\ rows'[2] = Remembered(t, m_history)
           /\ \A n \in rows'[3] : n \in Name /\ IsPrefix(LastWord(t), n)
      /\ fault' = "abort" => Bad(t)
  BY SetTextKeeps
<1>2. TextsKept'
  BY <1>1 DEF DialogKept, TextsKept
<1>3. RowsKept'
  BY <1>1 DEF RowsKept
<1>4. (fault = "abort" => Bad(text))'
  BY <1>1
<1> QED BY <1>2, <1>3, <1>4 DEF DialogKept

(* An event that leaves text, list and history alone                        *)
LEMMA AsideKeeps ==
  ASSUME DialogKept, UNCHANGED <<text, rows, m_history, launched, fault>>,
         mark' \in 0..Len(text), shown' \in BOOLEAN, mode' \in {"idle", "error"}
  PROVE  DialogKept'
BY DEF DialogKept, TextsKept, RowsKept

(* A place beyond the text ends the program.                                *)
LEMMA AbortKeeps ==
  ASSUME DialogKept, PlaceThrows(text), fault' = "abort",
         UNCHANGED <<text, mark, rows, m_history, launched, shown, mode>>
  PROVE  DialogKept'
<1>1. text \in Text
  BY DEF DialogKept, TextsKept
<1>2. Bad(text)
  BY <1>1, PlaceIs DEF Bad
<1>3. TextsKept' /\ RowsKept'
  BY DEF DialogKept, TextsKept, RowsKept
<1>4. (fault = "abort" => Bad(text))'
  BY <1>2
<1> QED BY <1>3, <1>4 DEF DialogKept

LEMMA WithRowType ==
  ASSUME NEW t \in Text, ~PlaceThrows(t), NEW row \in Text
  PROVE  WithRow(t, row) \in Text
<1>1. BytePlace(t) \in 0..Len(t)
  BY PlaceIs, TextParts DEF PlaceThrows
<1>2. SubSeq(t, 1, BytePlace(t)) \in Text
  BY <1>1, TextParts
<1> QED BY <1>2, TextParts DEF WithRow

LEMMA TabKeeps ==
  ASSUME DialogKept, Listed, Tab
  PROVE  DialogKept'
<1>1. /\ fault = "none" /\ text \in Text /\ mark \in 0..Len(text)
      /\ \A x \in 1..3 : rows[x] \subseteq Row
      /\ shown \in BOOLEAN /\ mode \in {"idle", "error"}
  BY DEF Tab, Attended, Running, DialogKept, TextsKept
<1>2. UNCHANGED <<m_path, m_history, launched, shown, mode>>
  BY DEF Tab
<1>3. Len(text) \in Nat
  BY <1>1, TextParts
<1>4. CASE TabTilde
  <2> DEFINE t == Front(text) \o Append(Home, "/")
  <2>1. text # <<>>
    BY <1>4 DEF TabTilde, EndsInTilde
  <2>2. t \in Text
    BY <1>1, <2>1, TextParts, ConstantTexts
  <2>3. SetText(t) /\ mark' = Len(text')
    BY <1>4 DEF TabTilde
  <2> HIDE DEF t
  <2>4. text' = t
    BY <2>3 DEF SetText
  <2>5. mark' \in 0..Len(text')
    BY <2>2, <2>3, <2>4, TextParts
  <2> QED BY <1>1, <1>2, <2>2, <2>3, <2>5, EditKeeps
<1>5. CASE TabAside
  <2>1. UNCHANGED <<text, rows, fault>> /\ mark' = IF Len(text) <= 2 THEN mark ELSE Len(text)
    BY <1>5 DEF TabAside
  <2>2. mark' \in 0..Len(text)
    BY <1>1, <1>3, <2>1
  <2> QED BY <1>1, <1>2, <2>1, <2>2, AsideKeeps
<1>6. CASE Offered # {} /\ TabRow
  <2>1. PICK row \in FirstRows :
          \/ /\ ~PlaceThrows(text)
             /\ SetText(WithRow(text, row))
             /\ mark' = Min({Len(text), Len(text')})
          \/ /\ PlaceThrows(text)
             /\ fault' = "abort"
             /\ UNCHANGED <<text, mark, rows>>
    BY <1>6 DEF TabRow
  <2>2. row \in Text
    <3>1. row \in Offered
      BY <1>6, FirstRowsAreOffered
    <3> QED BY <1>1, <3>1 DEF Offered, Row
  <2>3. CASE PlaceThrows(text)
    BY <1>2, <2>1, <2>3, AbortKeeps
  <2>4. CASE ~PlaceThrows(text)
    <3> DEFINE t == WithRow(text, row)
    <3>1. t \in Text
      BY <1>1, <2>2, <2>4, WithRowType
    <3>2. SetText(t) /\ mark' = Min({Len(text), Len(text')})
      BY <2>1, <2>4
    <3> HIDE DEF t
    <3>3. text' = t
      BY <3>2 DEF SetText
    <3>4. Len(text') \in Nat
      BY <3>1, <3>3, TextParts
    <3>5. mark' \in 0..Len(text')
      BY <1>3, <3>2, <3>4, LesserOf
    <3> QED BY <1>1, <1>2, <3>1, <3>2, <3>5, EditKeeps
  <2> QED BY <2>3, <2>4
<1> QED BY <1>4, <1>5, <1>6 DEF Tab

LEMMA KeysKeep ==
  ASSUME DialogKept, Listed,
         SlashAfterTilde \/ Backspace \/ Escape_ \/ \E chunk \in Typed : Type(chunk)
  PROVE  DialogKept'
<1>1. /\ fault = "none" /\ text \in Text /\ mark \in 0..Len(text)
      /\ shown \in BOOLEAN /\ mode \in {"idle", "error"}
  BY DEF SlashAfterTilde, Backspace, Escape_, Type, Attended, Running, DialogKept, TextsKept
<1>2. Keep \in Text
  BY <1>1, TextParts DEF Keep
<1>3. CASE SlashAfterTilde
  <2> DEFINE home == Front(text) \o Home
             t == IF ChangeThrows(home) THEN home ELSE Append(home, "/")
  <2>1. text # <<>>
    BY <1>3 DEF SlashAfterTilde, TildeNotAlone, EndsInTilde
  <2>2. home \in Text
    BY <1>1, <2>1, TextParts, ConstantTexts
  <2>3. t \in Text
    <3> HIDE DEF home
    <3> QED BY <2>2, TextParts
  <2>4. SetText(t) /\ mark' = Len(text') /\ UNCHANGED <<m_history, launched, shown, mode>>
    BY <1>3 DEF SlashAfterTilde
  <2> HIDE DEF t
  <2>5. text' = t
    BY <2>4 DEF SetText
  <2>6. mark' \in 0..Len(text')
    BY <2>3, <2>4, <2>5, TextParts
  <2> QED BY <1>1, <2>3, <2>4, <2>6, EditKeeps
<1>4. CASE Backspace
  <2> DEFINE t == IF mark < Len(text) THEN Keep ELSE Front(text)
  <2>1. SetText(t) /\ mark' = Len(text') /\ UNCHANGED <<m_history, launched, shown, mode>> /\ text # <<>>
    BY <1>4 DEF Backspace
  <2>2. t \in Text
    BY <1>1, <1>2, <2>1, TextParts
  <2> HIDE DEF t
  <2>3. text' = t
    BY <2>1 DEF SetText
  <2>4. mark' \in 0..Len(text')
    BY <2>1, <2>2, <2>3, TextParts
  <2> QED BY <1>1, <2>1, <2>2, <2>4, EditKeeps
<1>5. CASE Escape_
  <2>1. SetText(<<>>) /\ mark' = 0 /\ shown' = FALSE /\ UNCHANGED <<m_history, launched, mode>>
    BY <1>5 DEF Escape_
  <2>2. <<>> \in Text /\ text' = <<>>
    BY <2>1, NothingTyped DEF SetText
  <2>3. mark' \in 0..Len(text')
    BY <2>1, <2>2, EmptySeq
  <2> QED BY <1>1, <2>1, <2>2, <2>3, EditKeeps
<1>6. ASSUME NEW chunk \in Typed, Type(chunk)
      PROVE  DialogKept'
  <2> DEFINE t == Keep \o chunk
  <2>1. SetText(t) /\ mark' = Len(text') /\ UNCHANGED <<m_history, launched, shown, mode>>
    BY <1>6 DEF Type
  <2>2. t \in Text
    BY <1>2, TextParts, ConstantTexts
  <2> HIDE DEF t
  <2>3. text' = t
    BY <2>1 DEF SetText
  <2>4. mark' \in 0..Len(text')
    BY <2>1, <2>2, <2>3, TextParts
  <2> QED BY <1>1, <2>1, <2>2, <2>4, EditKeeps
<1> QED BY <1>3, <1>4, <1>5, <1>6

LEMMA CompletionKeeps ==
  ASSUME DialogKept, Listed,
         FillPopup \/ InlineComplete \/ \E row \in Offered : SelectRow(row)
  PROVE  DialogKept'
<1>1. /\ fault = "none" /\ text \in Text /\ mark \in 0..Len(text)
      /\ shown \in BOOLEAN /\ mode \in {"idle", "error"}
      /\ Offered \subseteq Row
  BY DEF FillPopup, InlineComplete, SelectRow, Attended, Running, DialogKept, TextsKept, Offered
<1>2. CASE FillPopup
  BY <1>2, AbortKeeps DEF FillPopup
<1>3. CASE InlineComplete
  <2> DEFINE more == {r \in Offered : IsStrictPrefix(text, r)}
             t == LongestCommonPrefix(more)
  <2>1. more # {} /\ SetText(t) /\ mark' = Len(text) /\ UNCHANGED <<m_history, launched, shown, mode>>
    BY <1>3 DEF InlineComplete
  <2>2. t \in Text /\ IsPrefix(text, t)
    <3>1. more \in SUBSET Text /\ \A r \in more : IsPrefix(text, r)
      BY <1>1 DEF Row, IsStrictPrefix
    <3> HIDE DEF more
    <3> QED BY <1>1, <2>1, <3>1, CommonExtension
  <2> HIDE DEF t
  <2>3. text' = t
    BY <2>1 DEF SetText
  <2>4. mark' \in 0..Len(text')
    <3>1. Len(text) <= Len(t)
      BY <2>2 DEF IsPrefix
    <3> QED BY <1>1, <2>1, <2>2, <2>3, <3>1, TextParts
  <2> QED BY <1>1, <2>1, <2>2, <2>4, EditKeeps
<1>4. ASSUME NEW row \in Offered, SelectRow(row)
      PROVE  DialogKept'
  <2> DEFINE t == IF BytePlace(text) = 0 THEN row ELSE WithRow(text, row)
  <2>1. /\ ~PlaceThrows(text) /\ SetText(t) /\ mark' = Len(text')
        /\ UNCHANGED <<m_history, launched, shown, mode>>
    BY <1>4 DEF SelectRow
  <2>2. t \in Text
    BY <1>1, <2>1, WithRowType DEF Row
  <2> HIDE DEF t
  <2>3. text' = t
    BY <2>1 DEF SetText
  <2>4. mark' \in 0..Len(text')
    BY <2>1, <2>2, <2>3, TextParts
  <2> QED BY <1>1, <2>1, <2>2, <2>4, EditKeeps
<1> QED BY <1>2, <1>3, <1>4

HasSpace(c) == Positions(" ", c) # {}

LEMMA LaunchIs ==
  ASSUME Launch
  PROVE  /\ Attended /\ Command \in Launchable
         /\ launched' = launched \cup {Command}
         /\ m_history' = IF HasSpace(Command) THEN m_history \cup {Command} ELSE m_history
         /\ Finish /\ UNCHANGED <<m_path, mode>>
BY Zenon DEF Launch, HasSpace

LEMMA LaunchKeeps ==
  ASSUME DialogKept, Listed, Launch
  PROVE  DialogKept'
<1>1. /\ fault = "none" /\ mode \in {"idle", "error"}
      /\ m_history \subseteq Row /\ launched \subseteq Row
  BY LaunchIs DEF Attended, Running, DialogKept, TextsKept
<1>2. Command \in Row
  BY LaunchIs, ConstantTexts
<1>3. m_history' \subseteq Row /\ launched' \subseteq Row
  BY <1>1, <1>2, LaunchIs
<1>4. SetText(<<>>) /\ mark' = 0 /\ shown' = FALSE /\ mode' = mode
  BY LaunchIs DEF Finish
<1>5. /\ text' = <<>>
      /\ \A x \in 1..3 : rows'[x] \subseteq Row
      /\ fault' \in {"none", "abort"}
      /\ fault' = "none" =>
           /\ ~ChangeThrows(<<>>)
           /\ rows'[1] = FilesOrVariables(<<>>)
           /\ rows'[2] = Remembered(<<>>, m_history)
           /\ \A n \in rows'[3] : n \in Name /\ IsPrefix(LastWord(<<>>), n)
      /\ fault' = "abort" => Bad(<<>>)
  BY <1>1, <1>4, NothingTyped, SetTextKeeps
<1>6. mark' \in 0..Len(text') /\ text' \in Text
  BY <1>4, <1>5, EmptySeq, NothingTyped
<1>7. TextsKept'
  BY <1>1, <1>3, <1>4, <1>5, <1>6 DEF TextsKept
<1>8. Remembered(<<>>, m_history) = {} /\ Remembered(<<>>, m_history') = {}
  BY NothingTyped
<1>9. RowsKept'
  BY <1>5, <1>8 DEF RowsKept
<1>10. (fault = "abort" => Bad(text))'
  BY <1>5
<1> QED BY <1>7, <1>9, <1>10 DEF DialogKept

LEMMA UserKeeps ==
  ASSUME DialogKept, Listed, User
  PROVE  DialogKept'
<1>1. CASE SlashAfterTilde \/ Backspace \/ Escape_ \/ \E chunk \in Typed : Type(chunk)
  BY <1>1, KeysKeep
<1>2. CASE Tab
  BY <1>2, TabKeeps
<1>3. CASE FillPopup \/ InlineComplete \/ \E row \in Offered : SelectRow(row)
  BY <1>3, CompletionKeeps
<1>4. CASE Launch
  BY <1>4, LaunchKeeps
<1>5. CASE Acknowledge
  <2>1. /\ fault = "none" /\ SetText(<<>>) /\ mark' = 0 /\ shown' = FALSE /\ mode' = "idle"
        /\ UNCHANGED <<m_history, launched>>
    BY <1>5 DEF Acknowledge, Running, Finish
  <2>2. text' = <<>>
    BY <2>1 DEF SetText
  <2>3. mark' \in 0..Len(text')
    BY <2>1, <2>2, EmptySeq
  <2> QED BY <2>1, <2>3, NothingTyped, EditKeeps
<1>6. CASE Fail
  BY <1>6, AsideKeeps DEF Fail, DialogKept, TextsKept
<1>7. CASE on_focus_out_event \/ on_delete_event
  BY <1>7, AsideKeeps DEF on_focus_out_event, on_delete_event, Hide, DialogKept, TextsKept
<1> QED BY <1>1, <1>2, <1>3, <1>4, <1>5, <1>6, <1>7 DEF User

-----------------------------------------------------------------------------
(* The running program                                                     *)

Announced == [dir : Dir, kind : {"arrived", "left"}, name : Name]

FeedKept ==
  /\ Listed
  /\ news \in Seq(Announced) /\ Len(news) <= MaxNews
  /\ asked \in Nat /\ answered \in 0..asked

Kept == DialogKept /\ FeedKept

LEMMA KeptAtFirst ==
  Init => Kept
<1> SUFFICES ASSUME Init PROVE Kept
  OBVIOUS
<1>1. /\ text = <<>> /\ mark = 0 /\ rows = NoRows /\ m_history = {} /\ launched = {}
      /\ shown = FALSE /\ mode = "idle" /\ fault = "none"
      /\ m_path \in Listings /\ asked = 0 /\ answered = 0 /\ news = <<>>
  BY DEF Init, DialogInit
<1>2. \A x \in 1..3 : rows[x] = {}
  BY <1>1 DEF NoRows
<1>3. TextsKept
  <2>1. text \in Text /\ Len(text) = 0
    BY <1>1, NothingTyped, EmptySeq
  <2>2. mark \in 0..Len(text)
    BY <1>1, <2>1
  <2>3. \A x \in 1..3 : rows[x] \subseteq Row
    BY <1>2
  <2>4. m_history \subseteq Row /\ launched \subseteq Row
    BY <1>1
  <2>5. shown \in BOOLEAN /\ mode \in {"idle", "error"} /\ fault \in {"none", "abort"}
    BY <1>1
  <2> QED BY <2>1, <2>2, <2>3, <2>4, <2>5 DEF TextsKept
<1>4. RowsKept
  <2>1. /\ ~ChangeThrows(text) /\ FilesOrVariables(text) = {}
        /\ Remembered(text, m_history) = {}
    BY <1>1, NothingTyped
  <2>2. rows[1] = {} /\ rows[2] = {} /\ rows[3] = {}
    BY <1>2
  <2> QED BY <2>1, <2>2 DEF RowsKept
<1>5. DialogKept
  BY <1>1, <1>3, <1>4 DEF DialogKept
<1>6. FeedKept
  BY <1>1, ListingsAssumption, MaxNewsAssumption, EmptySeq DEF FeedKept, Listed
<1> QED BY <1>5, <1>6 DEF Kept

(* The user's doings leave the listings alone, and only a launch changes    *)
(* what is remembered.                                                      *)
LEMMA UserLeaves ==
  ASSUME User
  PROVE  m_path' = m_path /\ (UNCHANGED <<m_history, launched>> \/ Launch)
<1>1. CASE Launch
  BY <1>1, LaunchIs
<1>2. CASE SlashAfterTilde \/ Backspace \/ Escape_ \/ \E chunk \in Typed : Type(chunk)
  BY <1>2 DEF SlashAfterTilde, Backspace, Escape_, Type
<1>3. CASE Tab \/ FillPopup \/ InlineComplete \/ \E row \in Offered : SelectRow(row)
  BY <1>3 DEF Tab, FillPopup, InlineComplete, SelectRow
<1>4. CASE Fail \/ Acknowledge \/ on_focus_out_event \/ on_delete_event
  BY <1>4 DEF Fail, Acknowledge, on_focus_out_event, on_delete_event, Hide
<1> QED BY <1>1, <1>2, <1>3, <1>4 DEF User

LEMMA ListingsKeep ==
  ASSUME FeedKept, ListingChanges
  PROVE  FeedKept'
<1> DEFINE a == Head(news)
<1>1. /\ news # <<>> /\ m_path' = F!Applied(a) /\ news' = Tail(news)
      /\ UNCHANGED <<asked, answered>>
  BY DEF ListingChanges, F!Apply
<1>2. a \in Announced /\ news' \in Seq(Announced) /\ Len(news') <= MaxNews
  <2>1. a \in Announced /\ Tail(news) \in Seq(Announced) /\ Len(Tail(news)) = Len(news) - 1
    BY <1>1, HeadTailProperties DEF FeedKept
  <2>2. Len(news) \in Nat
    BY LenProperties DEF FeedKept
  <2> QED BY <1>1, <2>1, <2>2, MaxNewsAssumption DEF FeedKept
<1> HIDE DEF a
<1>3. /\ a.dir \in Dir /\ a.name \in Name /\ a.kind \in {"arrived", "left"}
  BY <1>2 DEF Announced
<1>4. F!Names(a.dir) \subseteq Name
  BY <1>3 DEF FeedKept, Listed, F!Names
<1>5. m_path' \in [Dir -> SUBSET Name]
  <2>1. CASE a.kind = "arrived"
    BY <1>1, <1>3, <1>4, <2>1 DEF F!Applied, FeedKept, Listed
  <2>2. CASE a.kind = "left"
    BY <1>1, <1>3, <1>4, <2>2 DEF F!Applied, FeedKept, Listed
  <2> QED BY <1>3, <2>1, <2>2
<1> QED BY <1>1, <1>2, <1>5 DEF FeedKept, Listed

LEMMA KeptByStep ==
  Kept /\ [Next]_vars => Kept'
<1> SUFFICES ASSUME Kept, [Next]_vars PROVE Kept'
  OBVIOUS
<1>0. DialogKept /\ FeedKept /\ Listed
  BY DEF Kept, FeedKept
<1>1. ASSUME UNCHANGED dialogVars
      PROVE  DialogKept'
  BY <1>0, <1>1, AsideKeeps DEF dialogVars, DialogKept, TextsKept
<1>2. CASE User /\ UNCHANGED <<asked, answered, news, started>>
  <2>1. DialogKept'
    BY <1>0, <1>2, UserKeeps
  <2>2. FeedKept'
    BY <1>0, <1>2, UserLeaves DEF FeedKept, Listed
  <2> QED BY <2>1, <2>2 DEF Kept
<1>3. CASE Press
  <2>1. UNCHANGED <<dialogVars, m_path, news>> /\ asked' = asked + 1 /\ answered' = answered
    BY <1>3 DEF Press, H!Ask
  <2>2. FeedKept'
    BY <1>0, <2>1 DEF FeedKept, Listed
  <2> QED BY <1>1, <2>1, <2>2 DEF Kept
<1>4. CASE Summon
  <2>1. /\ UNCHANGED <<m_path, text, mark, rows, m_history, launched, mode, fault, news, asked>>
        /\ shown' = TRUE /\ answered < asked /\ answered' = answered + 1
    BY <1>4 DEF Summon, Show, H!Answer
  <2>2. DialogKept'
    BY <1>0, <2>1, AsideKeeps DEF DialogKept, TextsKept
  <2>3. FeedKept'
    BY <1>0, <2>1 DEF FeedKept, Listed
  <2> QED BY <2>2, <2>3 DEF Kept
<1>5. CASE Announce
  <2>1. UNCHANGED <<dialogVars, asked, answered>> /\ Len(news) < MaxNews
    BY <1>5 DEF Announce
  <2>2. PICK d \in Dir, kind \in {"arrived", "left"}, n \in Name :
          m_path' = m_path /\ news' = Append(news, [dir |-> d, kind |-> kind, name |-> n])
    BY <1>5 DEF Announce, F!Announce
  <2> DEFINE one == [dir |-> d, kind |-> kind, name |-> n]
  <2>3. one \in Announced
    BY DEF Announced
  <2>4. news' = Append(news, one)
    BY <2>2
  <2> HIDE DEF one
  <2>5. news' \in Seq(Announced) /\ Len(news') = Len(news) + 1 /\ Len(news) \in Nat
    BY <1>0, <2>3, <2>4, AppendProperties, LenProperties DEF FeedKept
  <2>6. FeedKept'
    BY <1>0, <2>1, <2>2, <2>5, MaxNewsAssumption DEF FeedKept, Listed
  <2> QED BY <1>1, <2>1, <2>6 DEF Kept
<1>6. CASE ListingChanges
  <2>1. UNCHANGED dialogVars
    BY <1>6 DEF ListingChanges
  <2> QED BY <1>0, <1>1, <1>6, <2>1, ListingsKeep DEF Kept
<1>7. CASE UNCHANGED vars
  <2>1. UNCHANGED <<dialogVars, m_path, asked, answered, news>>
    BY <1>7 DEF vars
  <2>2. FeedKept'
    BY <1>0, <2>1 DEF FeedKept, Listed
  <2> QED BY <1>1, <2>1, <2>2 DEF Kept
<1> QED BY <1>2, <1>3, <1>4, <1>5, <1>6, <1>7 DEF Next

LEMMA AlwaysKept ==
  Spec => []Kept
<1> QED BY KeptAtFirst, KeptByStep, PTL DEF Spec

(* Texts, rows, listings and announcements keep their types, and no row, no *)
(* remembered command and no command started is empty, for any files,       *)
(* variables, listings, bounds and things to type (tudor-do.cpp:113-239).   *)
THEOREM DialogTypeCorrect ==
  Spec => []TypeOK
<1>1. Kept => TypeOK
  <2> SUFFICES ASSUME Kept PROVE TypeOK
    OBVIOUS
  <2>1. /\ mark \in 0..Len(text) /\ \A x \in 1..3 : rows[x] \subseteq Row
        /\ m_history \subseteq Row /\ launched \subseteq Row
        /\ shown \in BOOLEAN /\ mode \in {"idle", "error"} /\ fault \in {"none", "abort"}
    BY DEF Kept, DialogKept, TextsKept
  <2>2. \A t \in Offered \cup m_history \cup launched : t # <<>>
    BY <2>1 DEF Offered, Row
  <2>3. answered \in 0..asked /\ Len(news) <= MaxNews /\ \A d \in Dir : m_path[d] \subseteq Name
    BY DEF Kept, FeedKept, Listed
  <2> QED BY <2>1, <2>2, <2>3 DEF TypeOK
<1> QED BY <1>1, AlwaysKept, PTL

(* What the list offers always goes with the text in the entry and with the *)
(* history, however the text was changed (tudor-do.cpp:174-239).            *)
THEOREM RowsStayCurrent ==
  Spec => []RowsAreCurrent
<1>1. Kept => RowsAreCurrent
  BY RowsForIs DEF Kept, DialogKept, RowsKept, RowsAreCurrent, Running
<1> QED BY <1>1, AlwaysKept, PTL

(* Only three kinds of text end the program: one whose only space comes     *)
(* first, one with characters of several bytes, one whose last word has a   *)
(* slash after the path of a directory that cannot be opened or of a file   *)
(* that is none (util.cpp:38, tudor-do.cpp:138, 153, 197-199, 284).         *)
THEOREM AbortsExplained ==
  Spec => []AbortsOnlyOnBadText
<1>1. Kept => (fault = "abort" => Bad(text))
  BY DEF Kept, DialogKept
<1>2. (fault = "abort" => Bad(text)) => AbortsOnlyOnBadText
  BY Zenon DEF AbortsOnlyOnBadText, Bad, Blank
<1> QED BY <1>1, <1>2, AlwaysKept, PTL

(* The program remembers the commands with a space that it started, and no  *)
(* others (tudor-do.cpp:66-75).                                             *)
THEOREM HistoryRan ==
  Spec => []HistoryIsWhatRan
<1> DEFINE Ran == m_history = {c \in launched : HasSpace(c)}
<1>1. Init => Ran
  BY DEF Init, DialogInit
<1>2. Ran /\ [Next]_vars => Ran'
  <2> SUFFICES ASSUME Ran, [Next]_vars PROVE Ran'
    OBVIOUS
  <2>1. CASE UNCHANGED <<m_history, launched>>
    BY <2>1
  <2>2. CASE Launch
    BY <2>2, LaunchIs
  <2>3. UNCHANGED <<m_history, launched>> \/ Launch
    BY UserLeaves DEF Next, Press, Summon, Show, Announce, ListingChanges, dialogVars, vars
  <2> QED BY <2>1, <2>2, <2>3
<1>3. Ran => HistoryIsWhatRan
  BY Zenon DEF HistoryIsWhatRan, HasSpace
<1> HIDE DEF Ran
<1> QED BY <1>1, <1>2, <1>3, PTL DEF Spec

-----------------------------------------------------------------------------
(* What completion does to the text                                        *)

LEMMA RowsExtendWord ==
  ASSUME DialogKept, fault = "none", Plain, NEW r \in Offered
  PROVE  r \in Text /\ IsPrefix(LastWord(text), r)
<1>1. /\ text \in Text /\ ~ChangeThrows(text) /\ NoSlashDoubled(text)
      /\ \A dir \in DOMAIN Tree : \A n \in Tree[dir] : NamePlain(n)
  BY PlainIs DEF DialogKept, TextsKept, RowsKept
<1>2. /\ \A x \in 1..3 : rows[x] \subseteq Row
      /\ rows[1] = FilesOrVariables(text) /\ rows[2] = Remembered(text, m_history)
      /\ \A n \in rows[3] : n \in Name /\ IsPrefix(LastWord(text), n)
  BY DEF DialogKept, TextsKept, RowsKept
<1>3. PICK x \in 1..3 : r \in rows[x]
  BY DEF Offered
<1>4. r \in Text
  BY <1>2, <1>3 DEF Row
<1>5. CASE x = 1
  BY <1>1, <1>2, <1>3, <1>4, <1>5, FirstRowsExtend
<1>6. CASE x = 2
  BY <1>2, <1>3, <1>4, <1>6 DEF Remembered
<1>7. CASE x = 3
  BY <1>2, <1>3, <1>4, <1>7
<1> QED BY <1>3, <1>4, <1>5, <1>6, <1>7

LEMMA WithRowExtends ==
  ASSUME NEW t \in Text, ToSet(t) \cap Wide = {}, NEW row \in Text, IsPrefix(LastWord(t), row)
  PROVE  IsPrefix(t, IF BytePlace(t) = 0 THEN row ELSE WithRow(t, row))
         /\ IsPrefix(t, WithRow(t, row))
<1> DEFINE place == find_last_space_pos(t) + 1
           word == LastWord(t)
           start == SubSeq(t, 1, place)
           new == start \o row
<1>1. /\ place \in 0..Len(t) /\ Len(t) \in Nat
      /\ word \in Text /\ Len(word) = Len(t) - place
      /\ \A i \in 1..Len(t) - place : word[i] = t[place + i]
  BY LastWordIs
<1>2. BytePlace(t) = place
  BY PlaceIs
<1>3. WithRow(t, row) = new
  BY <1>2 DEF WithRow
<1> HIDE DEF place, word
<1>4. start \in Text /\ Len(start) = place /\ \A i \in 1..place : start[i] = t[i]
  BY <1>1, PositionsBefore DEF Text
<1> HIDE DEF start
<1>5. /\ new \in Seq(Character) /\ Len(new) = Len(start) + Len(row)
      /\ \A i \in 1..Len(start) + Len(row) :
           new[i] = IF i <= Len(start) THEN start[i] ELSE row[i - Len(start)]
  <2>1. start \in Seq(Character) /\ row \in Seq(Character)
    BY <1>4 DEF Text
  <2> QED BY ONLY <2>1, ConcatProperties
<1> HIDE DEF new
<1>6. Len(word) <= Len(row) /\ Len(row) \in Nat /\ \A i \in 1..Len(word) : word[i] = row[i]
  BY <1>1, LenProperties, PrefixByCharacter DEF Text, word
<1>7. Len(t) <= Len(new)
  BY <1>1, <1>4, <1>5, <1>6
<1>8. ASSUME NEW i \in 1..Len(t)
      PROVE  t[i] = new[i]
  <2>1. CASE i <= place
    BY <1>1, <1>4, <1>5, <1>6, <2>1
  <2>2. CASE i > place
    <3> DEFINE j == i - place
    <3>1. j \in 1..Len(word) /\ place + j = i /\ j \in 1..Len(t) - place
      BY <1>1, <2>2
    <3>2. i \in 1..Len(start) + Len(row) /\ ~(i <= Len(start)) /\ i - Len(start) = j
      BY <1>1, <1>4, <1>6, <1>7, <1>5, <2>2
    <3>3. new[i] = row[j]
      BY <1>5, <3>2
    <3> HIDE DEF j
    <3> QED BY <1>1, <1>6, <3>1, <3>3
  <2> QED BY <1>1, <2>1, <2>2
<1>9. IsPrefix(t, new)
  BY <1>5, <1>7, <1>8, PrefixByCharacter DEF Text
<1>10. BytePlace(t) = 0 => new = row
  <2>1. ASSUME BytePlace(t) = 0 PROVE new = row
    <3>1. Len(new) = Len(row) /\ \A i \in 1..Len(new) : new[i] = row[i]
      BY <1>2, <1>4, <1>5, <1>6, <2>1
    <3> QED BY <1>5, <3>1, SeqEqual DEF Text
  <2> QED BY <2>1
<1> QED BY <1>3, <1>9, <1>10

LEMMA SamePrefix ==
  ASSUME NEW t \in Text
  PROVE  IsPrefix(t, t)
BY LenProperties DEF IsPrefix, Text

LEMMA CompletionExtends ==
  ASSUME DialogKept, Completion, Plain, ~EndsInTilde
  PROVE  IsPrefix(text, text')
<1>1. fault = "none" /\ text \in Text
  BY DEF Completion, Tab, InlineComplete, SelectRow, Attended, Running, DialogKept, TextsKept
<1>2. ToSet(text) \cap Wide = {}
  BY PlainIs
<1>3. ASSUME NEW row \in Offered
      PROVE  /\ row \in Text
             /\ IsPrefix(text, IF BytePlace(text) = 0 THEN row ELSE WithRow(text, row))
             /\ IsPrefix(text, WithRow(text, row))
  BY <1>1, <1>2, RowsExtendWord, WithRowExtends
<1>4. CASE Tab
  <2>1. CASE TabTilde
    BY <2>1 DEF TabTilde
  <2>2. CASE TabAside
    BY <1>1, <2>2, SamePrefix DEF TabAside
  <2>3. CASE Offered # {} /\ TabRow
    <3>1. PICK row \in FirstRows : text' = WithRow(text, row) \/ text' = text
      BY <2>3 DEF TabRow, SetText
    <3>2. row \in Offered
      BY <2>3, FirstRowsAreOffered
    <3> QED BY <1>1, <1>3, <3>1, <3>2, SamePrefix
  <2> QED BY <1>4, <2>1, <2>2, <2>3 DEF Tab
<1>5. CASE InlineComplete
  <2> DEFINE more == {r \in Offered : IsStrictPrefix(text, r)}
  <2>1. more # {} /\ text' = LongestCommonPrefix(more)
    BY <1>5 DEF InlineComplete, SetText
  <2>2. more \in SUBSET Text /\ \A r \in more : IsPrefix(text, r)
    BY <1>3 DEF IsStrictPrefix
  <2> HIDE DEF more
  <2> QED BY <1>1, <2>1, <2>2, CommonExtension
<1>6. ASSUME NEW row \in Offered, SelectRow(row)
      PROVE  IsPrefix(text, text')
  BY <1>3, <1>6 DEF SelectRow, SetText
<1> QED BY <1>4, <1>5, <1>6 DEF Completion

(* Where no character of the text has several bytes, no slash of it is      *)
(* doubled and no file name has a backslash before a space (Plain), the     *)
(* three ways of completion add to what was typed and take nothing from it  *)
(* (tudor-do.cpp:145-160, 253-292). Of other texts and files it says        *)
(* nothing, and of them it is not true.                                     *)
THEOREM CompletionAdds ==
  Spec => CompletionKeepsTyped
<1>1. Kept => [Completion /\ Plain /\ ~EndsInTilde => IsPrefix(text, text')]_vars
  BY CompletionExtends DEF Kept
<1> QED BY <1>1, AlwaysKept, PTL DEF CompletionKeepsTyped
=============================================================================
