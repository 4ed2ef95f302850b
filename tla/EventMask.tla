----------------------------- MODULE EventMask -----------------------------
(***************************************************************************)
(* InotifyEvent's masks (inotify-cxx.cpp:59-230, inotify-cxx.h:287-290).   *)
(* A uint32_t mask is the set of its bits, a bit is the name of its        *)
(* constant in <sys/inotify.h>, a string of types is the set of its names. *)
(* The build has IN_DONT_FOLLOW, IN_ONLYDIR and IN_MOVE_SELF.              *)
(***************************************************************************)
EXTENDS FiniteSets

Event ==
  {"IN_ACCESS", "IN_MODIFY", "IN_ATTRIB", "IN_CLOSE_WRITE", "IN_CLOSE_NOWRITE",
   "IN_OPEN", "IN_MOVED_FROM", "IN_MOVED_TO", "IN_CREATE", "IN_DELETE",
   "IN_DELETE_SELF", "IN_MOVE_SELF"}

Flag ==
  {"IN_UNMOUNT", "IN_Q_OVERFLOW", "IN_IGNORED", "IN_ISDIR", "IN_ONESHOT",
   "IN_DONT_FOLLOW", "IN_ONLYDIR"}

Bit == Event \cup Flag

Close == {"IN_CLOSE_WRITE", "IN_CLOSE_NOWRITE"}
Move  == {"IN_MOVED_FROM", "IN_MOVED_TO"}

TypeName == Bit \cup {"IN_CLOSE", "IN_MOVE", "IN_ALL_EVENTS"}

(* 0, the empty mask, for a name that is none *)
GetMaskByName(rName) ==
  CASE rName \in Bit             -> {rName}
    [] rName = "IN_CLOSE"        -> Close
    [] rName = "IN_MOVE"         -> Move
    [] rName = "IN_ALL_EVENTS"   -> Event
    [] rName \notin TypeName     -> {}

(* Mutant: any bit of the type will do. *)
IsTypeAny(uValue, uType) == uValue \cap uType # {}

(* (uValue & uType) != 0 && (~uValue & uType) == 0 *)
IsType(uValue, uType) == uValue \cap uType # {} /\ uType \ uValue = {}

(* The types with no rule of their own: each is named when its bit is set. *)
Plain == Event \ (Close \cup Move)

(* The else of "#ifdef IN_MOVE_SELF" belongs to IN_MOVE_SELF, not to        *)
(* IN_CLOSE above it.                                                      *)
DumpClose(uValue) ==
       {n \in {"IN_CLOSE"} : IsType(uValue, Close)}
  \cup {n \in Close : ~IsType(uValue, {"IN_MOVE_SELF"}) /\ IsType(uValue, {n})}

DumpMove(uValue) ==
  IF IsType(uValue, Move) THEN {"IN_MOVE"}
  ELSE {n \in Move : IsType(uValue, {n})}

DumpTypes(uValue) ==
  (IF IsType(uValue, Event)
   THEN {"IN_ALL_EVENTS"}
   ELSE {n \in Plain : IsType(uValue, {n})} \cup DumpClose(uValue) \cup DumpMove(uValue))
  \cup {n \in Flag : IsType(uValue, {n})}

-----------------------------------------------------------------------------
(* Masks are built bit by bit, in any order, from Bits.                    *)

CONSTANT Bits

ASSUME BitsAssumption == Bits \subseteq Bit

VARIABLE m_uMask

Init == m_uMask = {}

SetBit(b) == b \notin m_uMask /\ m_uMask' = m_uMask \cup {b}

Next == \E b \in Bits : SetBit(b)

Spec == Init /\ [][Next]_m_uMask

(* The mask a list of names stands for *)
MaskOf(names) == UNION {GetMaskByName(n) : n \in names}

(* Every bit a dumped name stands for is in the value                      *)
(* (inotify-cxx.h:281-285, 354-358).                                       *)
DumpIsSound ==
  \A n \in DumpTypes(m_uMask) :
    GetMaskByName(n) # {} /\ GetMaskByName(n) \subseteq m_uMask

=============================================================================
