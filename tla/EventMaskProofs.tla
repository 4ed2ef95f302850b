-------------------------- MODULE EventMaskProofs --------------------------
(***************************************************************************)
(* DumpTypes() for every mask of every bit: what it names is there, and    *)
(* exactly what it leaves out.                                             *)
(***************************************************************************)
EXTENDS EventMask, TLAPS

(* The name of a bit stands for that bit, the three other names for groups. *)
LEMMA MaskOfName ==
  /\ \A n \in Bit : GetMaskByName(n) = {n}
  /\ GetMaskByName("IN_CLOSE") = Close
  /\ GetMaskByName("IN_MOVE") = Move
  /\ GetMaskByName("IN_ALL_EVENTS") = Event
<1>1. "IN_CLOSE" \notin Bit /\ "IN_MOVE" \notin Bit /\ "IN_ALL_EVENTS" \notin Bit
  BY DEF Bit, Event, Flag
<1>2. \A n \in Bit : GetMaskByName(n) = {n}
  <2> TAKE n \in Bit
  <2>1. n # "IN_CLOSE" /\ n # "IN_MOVE" /\ n # "IN_ALL_EVENTS" /\ n \in TypeName
    BY <1>1 DEF TypeName
  <2>2. QED
    BY <2>1 DEF GetMaskByName
<1>3. GetMaskByName("IN_CLOSE") = Close
  BY <1>1 DEF GetMaskByName, TypeName
<1>4. GetMaskByName("IN_MOVE") = Move
  BY <1>1 DEF GetMaskByName, TypeName
<1>5. GetMaskByName("IN_ALL_EVENTS") = Event
  BY <1>1 DEF GetMaskByName, TypeName
<1>6. QED
  BY <1>2, <1>3, <1>4, <1>5

(* The names DumpTypes() gives, each with the reason it is given for. *)
LEMMA DumpedFor ==
  ASSUME NEW U, NEW n \in DumpTypes(U)
  PROVE  \/ n \in Bit /\ IsType(U, {n})
         \/ n = "IN_CLOSE" /\ IsType(U, Close)
         \/ n = "IN_MOVE" /\ IsType(U, Move)
         \/ n = "IN_ALL_EVENTS" /\ IsType(U, Event)
<1>1. Plain \subseteq Bit /\ Close \subseteq Bit /\ Move \subseteq Bit /\ Flag \subseteq Bit
  BY DEF Plain, Close, Move, Bit, Event
<1>2. QED
  BY <1>1 DEF DumpTypes, DumpClose, DumpMove

(* What a dumped name stands for can be read back. *)
LEMMA ReadBack ==
  ASSUME NEW U, NEW n \in DumpTypes(U), NEW b \in GetMaskByName(n)
  PROVE  b \in MaskOf(DumpTypes(U))
BY DEF MaskOf

(* A bit is lost only as half of IN_CLOSE next to IN_MOVE_SELF. *)
LEMMA LostBit ==
  ASSUME NEW U, NEW b \in U, b \in Bit, b \notin MaskOf(DumpTypes(U))
  PROVE  b \in Close /\ "IN_MOVE_SELF" \in U /\ ~IsType(U, Close)
<1>1. IsType(U, {b}) /\ b \in GetMaskByName(b)
  BY MaskOfName DEF IsType
<1>2. b \notin DumpTypes(U)
  BY <1>1, ReadBack
<1>3. ~IsType(U, Event) /\ b \in Event
  <2>1. b \notin Flag
    BY <1>1, <1>2 DEF DumpTypes
  <2>2. b \in Event
    BY <2>1 DEF Bit
  <2>3. IsType(U, Event) => "IN_ALL_EVENTS" \in DumpTypes(U)
    BY DEF DumpTypes
  <2>4. QED
    BY <2>2, <2>3, MaskOfName, ReadBack
<1>4. b \notin Plain /\ b \notin DumpClose(U) /\ b \notin DumpMove(U)
  BY <1>1, <1>2, <1>3 DEF DumpTypes
<1>5. DumpClose(U) \subseteq DumpTypes(U) /\ DumpMove(U) \subseteq DumpTypes(U)
  BY <1>3 DEF DumpTypes
<1>6. b \notin Move
  <2>1. IsType(U, Move) => "IN_MOVE" \in DumpTypes(U)
    BY <1>5 DEF DumpMove
  <2>2. b \in Move => IsType(U, Move)
    BY <1>1, <1>4 DEF DumpMove
  <2>3. QED
    BY <2>1, <2>2, MaskOfName, ReadBack
<1>7. b \in Close
  BY <1>3, <1>4, <1>6 DEF Plain
<1>8. ~IsType(U, Close)
  <2>1. IsType(U, Close) => "IN_CLOSE" \in DumpTypes(U)
    BY <1>5 DEF DumpClose
  <2>2. QED
    BY <1>7, <2>1, MaskOfName, ReadBack
<1>9. "IN_MOVE_SELF" \in U
  BY <1>1, <1>4, <1>7 DEF DumpClose, IsType
<1>10. QED
  BY <1>7, <1>8, <1>9

(* Every bit that a name given by DumpTypes() stands for is in the value,   *)
(* for every mask (inotify-cxx.cpp:118-225).                               *)
THEOREM DumpSound == Spec => []DumpIsSound
<1>1. ASSUME NEW n \in DumpTypes(m_uMask)
      PROVE  IsType(m_uMask, GetMaskByName(n))
  <2>1. CASE n \in Bit /\ IsType(m_uMask, {n})
    BY <2>1, MaskOfName
  <2>2. CASE n = "IN_CLOSE" /\ IsType(m_uMask, Close)
    BY <2>2, MaskOfName
  <2>3. CASE n = "IN_MOVE" /\ IsType(m_uMask, Move)
    BY <2>3, MaskOfName
  <2>4. CASE n = "IN_ALL_EVENTS" /\ IsType(m_uMask, Event)
    BY <2>4, MaskOfName
  <2>5. QED
    BY <2>1, <2>2, <2>3, <2>4, DumpedFor
<1>2. DumpIsSound
  BY <1>1 DEF DumpIsSound, IsType
<1>3. QED
  BY <1>2, PTL

(* A half of IN_CLOSE has no name next to IN_MOVE_SELF. *)
LEMMA HalfCloseLost ==
  ASSUME NEW U, NEW c \in Close, "IN_MOVE_SELF" \in U, ~(Close \subseteq U)
  PROVE  c \notin MaskOf(DumpTypes(U))
<1>1. ~IsType(U, Close) /\ ~IsType(U, Event) /\ IsType(U, {"IN_MOVE_SELF"})
  BY DEF IsType, Close, Event
<1>2. SUFFICES ASSUME NEW n \in DumpTypes(U), c \in GetMaskByName(n)
               PROVE  FALSE
  BY DEF MaskOf
<1>3. n \in Bit \/ n = "IN_MOVE"
  BY <1>1, DumpedFor
<1>4. n = c
  BY <1>2, <1>3, MaskOfName DEF Close, Move
<1>5. n \notin DumpClose(U) /\ n \notin DumpMove(U) /\ n \notin Plain /\ n \notin Flag
  BY <1>1, <1>4 DEF DumpClose, DumpMove, Close, Move, Plain, Flag
<1>6. QED
  BY <1>1, <1>5 DEF DumpTypes

(* What DumpTypes() leaves out, for every mask: one half of IN_CLOSE, and   *)
(* that exactly when IN_MOVE_SELF is in the mask and the other half is not  *)
(* (inotify-cxx.cpp:159-175).                                              *)
THEOREM DumpLeavesOut ==
  ASSUME NEW U \in SUBSET Bit
  PROVE  U \ MaskOf(DumpTypes(U)) =
           IF "IN_MOVE_SELF" \in U /\ ~(Close \subseteq U) THEN U \cap Close ELSE {}
<1>1. ASSUME NEW b \in U, b \notin MaskOf(DumpTypes(U))
      PROVE  b \in Close /\ "IN_MOVE_SELF" \in U /\ ~(Close \subseteq U)
  BY <1>1, LostBit DEF IsType, Close
<1>2. CASE "IN_MOVE_SELF" \in U /\ ~(Close \subseteq U)
  BY <1>1, <1>2, HalfCloseLost
<1>3. CASE ~("IN_MOVE_SELF" \in U /\ ~(Close \subseteq U))
  BY <1>1, <1>3
<1>4. QED
  BY <1>2, <1>3

=============================================================================
