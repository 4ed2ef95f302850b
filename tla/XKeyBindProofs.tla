--------------------------- MODULE XKeyBindProofs ---------------------------
(***************************************************************************)
(* Proofs about XKeyBind, for every keyboard, hotkey string and set of     *)
(* grabs of other clients.                                                 *)
(***************************************************************************)
EXTENDS XKeyBind, FiniteSetTheorems, TLAPS

-----------------------------------------------------------------------------
(* The grabs                                                               *)

LEMMA ModifierValues ==
  Modifier = {"Shift", "Lock", "Control", "Mod1", "Mod2", "Mod3", "Mod4", "Mod5"}
<1>1. 1..8 = {1, 2, 3, 4, 5, 6, 7, 8}
  OBVIOUS
<1>2. Modifier = {Modifiers[1], Modifiers[2], Modifiers[3], Modifiers[4],
                  Modifiers[5], Modifiers[6], Modifiers[7], Modifiers[8]}
  BY <1>1 DEF Modifier
<1> QED BY <1>2 DEF Modifiers

(* Every part of a hotkey string stands for modifiers of the keyboard, and  *)
(* AnyModifier is none of them.                                             *)
LEMMA MaskType ==
  ASSUME NEW parts, parts # <<"">>
  PROVE  get_modifiermask(parts) \subseteq Modifier
<1>1. \A part : ModifierOf(part) \subseteq {"Shift", "Control", "Mod1", "Mod4"}
  BY DEF ModifierOf
<1> QED BY <1>1, ModifierValues DEF get_modifiermask

LEMMA AnyIsNoModifier == "Any" \notin Modifier
BY ModifierValues

(* A keyboard with NumLock on one modifier at most: what get_numlock_mask   *)
(* finds is all there is.                                                   *)
LEMMA NumLockMask ==
  ASSUME NEW kb, \A x, y \in NumLockRows(kb) : x = y
  PROVE  /\ Locks(kb) = {"Lock"} \cup get_numlock_mask(kb)
         /\ \A m, n \in get_numlock_mask(kb) : m = n
         /\ get_numlock_mask(kb) \subseteq Modifier
<1>1. NumLockRows(kb) \subseteq 1..8
  BY DEF NumLockRows
<1>2. {y \in NumLockRows(kb) : \A z \in NumLockRows(kb) : z <= y} = NumLockRows(kb)
  BY <1>1
<1>3. get_numlock_mask(kb) = {Modifiers[x] : x \in NumLockRows(kb)}
  BY <1>2 DEF get_numlock_mask
<1> QED BY <1>1, <1>3 DEF Locks, Modifier

(* The four grabs of bind_key are the hotkey under every state of the locks *)
(* and nothing else (xkeybind.cpp:41-61).                                   *)
THEOREM GrabsExact ==
  ASSUME NEW Part, NEW ks \in Seq(Part), NEW kb, NEW keys, 0 \notin keys,
         Meaningful(ks, kb)
  PROVE  Exact(ks, kb, Requested(ks, kb), keys)
<1> DEFINE M == get_modifiermask(ModifierParts(ks))
           K == get_keycode(ks[Len(ks)])
           N == get_numlock_mask(kb)
           Extra == {{}, {"Lock"}, N, N \cup {"Lock"}}
<1>1. M \subseteq Modifier /\ K # 0 /\ M \cap Locks(kb) = {}
  BY MaskType DEF Meaningful
<1>2. /\ Locks(kb) = {"Lock"} \cup N
      /\ \A m, n \in N : m = n
      /\ N \subseteq Modifier
  BY NumLockMask DEF Meaningful
<1>3. Requested(ks, kb) = {[key |-> K, mods |-> M \cup locks] : locks \in Extra}
  <2>1. Len(ks) >= 2
    BY DEF Meaningful
  <2>2. Len(ks) \in Nat
    OBVIOUS
  <2>3. ~(Len(ks) < 2)
    BY <2>1, <2>2
  <2> QED BY <2>3 DEF Requested
<1>4. "Lock" \in Modifier
  BY ModifierValues
<1> HIDE DEF M, K, N
<1>5. ASSUME NEW key \in keys, NEW state \in SUBSET Modifier
      PROVE  Fires(Requested(ks, kb), key, state)
               <=> key = K /\ \E locks \in Extra : M \cup locks = state
  <2>1. "Any" \notin state /\ \A locks \in Extra : "Any" \notin M \cup locks
    BY <1>1, <1>2, <1>4, AnyIsNoModifier
  <2> HIDE DEF Extra
  <2>2. key # 0
    OBVIOUS
  <2>3. ASSUME NEW locks \in Extra
        PROVE  Overlap([key |-> K, mods |-> M \cup locks], [key |-> key, mods |-> state])
                 <=> key = K /\ M \cup locks = state
    BY <1>1, <2>1, <2>2 DEF Overlap
  <2> QED BY <1>3, <2>3 DEF Fires
<1>6. ASSUME NEW state \in SUBSET Modifier
      PROVE  (\E locks \in Extra : M \cup locks = state) <=> state \ Locks(kb) = M
  <2>1. ASSUME NEW locks \in Extra, M \cup locks = state
        PROVE  state \ Locks(kb) = M
    BY <2>1, <1>1, <1>2
  <2>2. ASSUME state \ Locks(kb) = M
        PROVE  \E locks \in Extra : M \cup locks = state
    <3> DEFINE on == state \cap Locks(kb)
    <3>1. M \cup on = state
      BY <2>2
    <3>2. on \in Extra
      <4>1. CASE N \subseteq on /\ "Lock" \in on
        BY <4>1, <1>2
      <4>2. CASE N \subseteq on /\ "Lock" \notin on
        BY <4>2, <1>2
      <4>3. CASE ~(N \subseteq on) /\ "Lock" \in on
        BY <4>3, <1>2
      <4>4. CASE ~(N \subseteq on) /\ "Lock" \notin on
        BY <4>4, <1>2
      <4> QED BY <4>1, <4>2, <4>3, <4>4
    <3> QED BY <3>1, <3>2
  <2> QED BY <2>1, <2>2
<1> QED BY <1>5, <1>6 DEF Exact, M, K

-----------------------------------------------------------------------------
(* The queue of X events                                                   *)

LEMMA PressesFinite ==
  ASSUME NEW E, NEW q \in Seq(E)
  PROVE  IsFiniteSet(PressesIn(q)) /\ Cardinality(PressesIn(q)) \in Nat
<1>1. IsFiniteSet(1..Len(q))
  BY FS_Interval
<1>2. PressesIn(q) \in SUBSET (1..Len(q))
  BY DEF PressesIn
<1>3. IsFiniteSet(PressesIn(q))
  BY <1>1, <1>2, FS_Subset
<1> QED BY <1>3, FS_CardinalityType

LEMMA PressesOfEmpty == Cardinality(PressesIn(<<>>)) = 0
<1>1. PressesIn(<<>>) = {}
  BY DEF PressesIn
<1> QED BY <1>1, FS_EmptySet

LEMMA PressesOfAppend ==
  ASSUME NEW E, NEW q \in Seq(E), NEW e \in E
  PROVE  Cardinality(PressesIn(Append(q, e)))
           = Cardinality(PressesIn(q)) + (IF e = "KeyPress" THEN 1 ELSE 0)
<1>1. PressesIn(Append(q, e))
        = IF e = "KeyPress" THEN PressesIn(q) \cup {Len(q) + 1} ELSE PressesIn(q)
  BY DEF PressesIn
<1>2. Len(q) + 1 \notin PressesIn(q)
  BY DEF PressesIn
<1>3. CASE e = "KeyPress"
  BY <1>1, <1>2, <1>3, PressesFinite, FS_AddElement
<1>4. CASE e # "KeyPress"
  BY <1>1, <1>4, PressesFinite
<1> QED BY <1>3, <1>4

LEMMA PressesOfTail ==
  ASSUME NEW E, NEW q \in Seq(E), q # <<>>
  PROVE  Cardinality(PressesIn(q))
           = Cardinality(PressesIn(Tail(q))) + (IF Head(q) = "KeyPress" THEN 1 ELSE 0)
<1> DEFINE rest == PressesIn(q) \ {1}
           f == [x \in PressesIn(Tail(q)) |-> x + 1]
<1>1. Tail(q) \in Seq(E) /\ Len(Tail(q)) = Len(q) - 1 /\ Len(q) \in Nat \ {0}
  OBVIOUS
<1>2. \A x \in 1..Len(q) - 1 : Tail(q)[x] = q[x + 1]
  OBVIOUS
<1>3. f \in Bijection(PressesIn(Tail(q)), rest)
  <2>1. f \in [PressesIn(Tail(q)) -> rest]
    BY <1>1, <1>2 DEF PressesIn
  <2>2. \A x, y \in PressesIn(Tail(q)) : f[x] = f[y] => x = y
    BY DEF PressesIn
  <2>3. ASSUME NEW y \in rest
        PROVE  \E x \in PressesIn(Tail(q)) : f[x] = y
    <3>1. y \in 1..Len(q) /\ y # 1 /\ q[y] = "KeyPress"
      BY DEF PressesIn
    <3>2. y - 1 \in 1..Len(q) - 1 /\ (y - 1) + 1 = y
      BY <1>1, <3>1
    <3>3. y - 1 \in PressesIn(Tail(q))
      BY <1>1, <1>2, <3>1, <3>2 DEF PressesIn
    <3>4. f[y - 1] = y
      BY <3>2, <3>3
    <3> HIDE DEF f, rest
    <3> QED BY <3>3, <3>4
  <2> HIDE DEF f, rest
  <2> QED BY <2>1, <2>2, <2>3 DEF Bijection, Injection, Surjection, IsInjective
<1>4. Cardinality(rest) = Cardinality(PressesIn(Tail(q)))
  <2>1. IsFiniteSet(PressesIn(Tail(q)))
    BY <1>1, PressesFinite
  <2> HIDE DEF f, rest
  <2>2. ExistsBijection(PressesIn(Tail(q)), rest)
    BY <1>3 DEF ExistsBijection
  <2> QED BY <2>1, <2>2, FS_Bijection
<1>5. 1 \in PressesIn(q) <=> Head(q) = "KeyPress"
  BY <1>1 DEF PressesIn
<1>6. /\ IsFiniteSet(PressesIn(q)) /\ Cardinality(PressesIn(q)) \in Nat
      /\ Cardinality(PressesIn(Tail(q))) \in Nat
  BY <1>1, PressesFinite
<1>7. CASE 1 \in PressesIn(q)
  <2>1. Cardinality(rest) = Cardinality(PressesIn(q)) - 1
    BY <1>6, <1>7, FS_RemoveElement
  <2> HIDE DEF rest
  <2> QED BY <1>4, <1>5, <1>6, <1>7, <2>1
<1>8. CASE 1 \notin PressesIn(q)
  <2>1. rest = PressesIn(q)
    BY <1>8
  <2> HIDE DEF rest
  <2> QED BY <1>4, <1>5, <1>6, <1>8, <2>1
<1> QED BY <1>7, <1>8

-----------------------------------------------------------------------------
(* The inductive invariant                                                 *)

(* XGrabKey is called once, and what it asked for is with the client until *)
(* the thread sends it; a server that refuses some of it ends the process. *)
GrabsInStep ==
  /\ pc.main \in {"construct", "bind"} => requests = {} /\ grabs = {}
  /\ pc.main \notin {"construct", "bind"} /\ fault = "none" /\ requests = {} =>
       grabs = Requested(keystring, keyboard)

ThreadAfterBind ==
  pc.thread # "off" => pc.main \notin {"construct", "bind", "start"}

Surroundings ==
  keystring \in Keystring /\ keyboard \in Keyboard /\ foreign \in Foreign

(* What the type invariant says but for the calls of the slot, which are   *)
(* bounded by the presses and not by a guard of their own                  *)
Shape ==
  /\ requests \in {{}, Requested(keystring, keyboard)}
  /\ grabs \subseteq Requested(keystring, keyboard)
  /\ down \in {0} \cup Key
  /\ xq \in Seq({"KeyPress", "KeyRelease"})
  /\ m_stop \in BOOLEAN
  /\ pc \in [main : {"construct", "bind", "start", "connect", "loop", "join", "destroyed"},
             thread : {"off", "check", "next", "emit", "exit"}]
  /\ pipe \in 0..PipeCap
  /\ fault \in {"none", "exit"}
  /\ asked \in 0..Presses /\ answered \in Nat

IInv ==
  Surroundings /\ Shape /\ GrabsInStep /\ ThreadAfterBind /\ PressesAccountedFor

LEMMA InitIInv == Init => IInv
<1> SUFFICES ASSUME Init PROVE IInv
  OBVIOUS
<1>1. Surroundings /\ GrabsInStep /\ ThreadAfterBind
  BY DEF Init, Surroundings, GrabsInStep, ThreadAfterBind
<1>2. Shape
  <2>1. <<>> \in Seq({"KeyPress", "KeyRelease"})
    OBVIOUS
  <2>2. 0 \in 0..PipeCap /\ 0 \in 0..Presses
    BY XKeyBindAssumption
  <2>3. /\ requests = {} /\ grabs = {} /\ down = 0 /\ xq = <<>>
        /\ m_stop = FALSE /\ pipe = 0 /\ fault = "none"
        /\ asked = 0 /\ answered = 0
        /\ pc = [main |-> "construct", thread |-> "off"]
    BY DEF Init
  <2> QED BY <2>1, <2>2, <2>3 DEF Shape
<1>3. PressesAccountedFor
  BY PressesOfEmpty DEF Init, PressesAccountedFor
<1> QED BY <1>1, <1>2, <1>3 DEF IInv

LEMMA SurroundingsStay ==
  ASSUME Surroundings, [Next]_vars
  PROVE  Surroundings' /\ UNCHANGED surroundings
<1>1. UNCHANGED surroundings
  BY DEF Next, Owner, run, Keys, vars, Construct, BindKey, Start, Connect, DispatchDone,
         Join, stop, Destroy, CheckStop, Flush, XNextEvent, SigDone, Release, Press
<1> QED BY <1>1 DEF Surroundings, surroundings

LEMMA ShapeStep ==
  ASSUME IInv, [Next]_vars
  PROVE  Shape'
<1> USE DEF Shape, server, counts, Go
<1>1. keystring' = keystring /\ keyboard' = keyboard
  BY SurroundingsStay DEF IInv, surroundings
<1>2. Shape
  BY DEF IInv
<1>3. CASE Construct
  BY <1>1, <1>2, <1>3 DEF Construct
<1>4. CASE BindKey
  BY <1>1, <1>2, <1>4 DEF BindKey
<1>5. CASE Start
  BY <1>1, <1>2, <1>5 DEF Start
<1>6. CASE Connect
  BY <1>1, <1>2, <1>6 DEF Connect
<1>7. CASE DispatchDone
  BY <1>1, <1>2, <1>7, XKeyBindAssumption DEF DispatchDone
<1>8. CASE Join
  BY <1>1, <1>2, <1>8 DEF Join
<1>9. CASE stop \/ Destroy
  BY <1>1, <1>2, <1>9 DEF stop, Destroy
<1>10. CASE CheckStop
  BY <1>1, <1>2, <1>10 DEF CheckStop
<1>11. CASE Flush
  BY <1>1, <1>2, <1>11 DEF Flush
<1>12. CASE XNextEvent
  BY <1>1, <1>2, <1>12 DEF XNextEvent
<1>13. CASE SigDone
  BY <1>1, <1>2, <1>13, XKeyBindAssumption DEF SigDone
<1>14. CASE Release
  BY <1>1, <1>2, <1>14 DEF Release
<1>15. ASSUME NEW key \in Key, NEW state \in State, Press(key, state)
       PROVE  Shape'
  BY <1>1, <1>2, <1>15, XKeyBindAssumption DEF Press
<1>16. CASE UNCHANGED vars
  BY <1>1, <1>2, <1>16 DEF vars
<1> QED BY <1>3, <1>4, <1>5, <1>6, <1>7, <1>8, <1>9, <1>10, <1>11, <1>12, <1>13, <1>14,
           <1>15, <1>16 DEF Next, Owner, run, Keys

LEMMA GrabsStep ==
  ASSUME IInv, [Next]_vars
  PROVE  GrabsInStep' /\ ThreadAfterBind'
<1> USE DEF GrabsInStep, ThreadAfterBind, server, Go
<1>1. keystring' = keystring /\ keyboard' = keyboard
  BY SurroundingsStay DEF IInv, surroundings
<1>2. Shape /\ GrabsInStep /\ ThreadAfterBind
  BY DEF IInv
<1>3. CASE Construct
  BY <1>1, <1>2, <1>3 DEF Construct, Shape
<1>4. CASE BindKey
  BY <1>1, <1>2, <1>4 DEF BindKey, Shape
<1>5. CASE Start \/ Connect
  BY <1>1, <1>2, <1>5 DEF Start, Connect, Shape
<1>6. CASE stop \/ Destroy \/ Join
  BY <1>1, <1>2, <1>6 DEF stop, Destroy, Join, Shape
<1>7. CASE CheckStop \/ XNextEvent \/ SigDone
  BY <1>1, <1>2, <1>7 DEF CheckStop, XNextEvent, SigDone, Shape
<1>8. CASE Flush
  BY <1>1, <1>2, <1>8 DEF Flush, Shape
<1>9. CASE DispatchDone \/ Release
  BY <1>1, <1>2, <1>9 DEF DispatchDone, Release, counts, surroundings
<1>10. ASSUME NEW key \in Key, NEW state \in State, Press(key, state)
       PROVE  GrabsInStep' /\ ThreadAfterBind'
  BY <1>1, <1>2, <1>10 DEF Press
<1>11. CASE UNCHANGED vars
  BY <1>1, <1>2, <1>11 DEF vars
<1> QED BY <1>3, <1>4, <1>5, <1>6, <1>7, <1>8, <1>9, <1>10, <1>11 DEF Next, Owner, run, Keys

LEMMA PressesStep ==
  ASSUME IInv, [Next]_vars
  PROVE  PressesAccountedFor'
<1> DEFINE n(q) == Cardinality(PressesIn(q))
<1>1. Shape /\ PressesAccountedFor
  BY DEF IInv
<1>2. /\ xq \in Seq({"KeyPress", "KeyRelease"}) /\ n(xq) \in Nat
      /\ pipe \in Nat /\ asked \in Nat /\ answered \in Nat
      /\ pc \in [main : {"construct", "bind", "start", "connect", "loop", "join", "destroyed"},
                 thread : {"off", "check", "next", "emit", "exit"}]
  BY <1>1, PressesFinite, XKeyBindAssumption DEF Shape
<1>3. asked = answered + pipe + (IF pc.thread = "emit" THEN 1 ELSE 0) + n(xq)
  BY <1>1 DEF PressesAccountedFor
<1>4. SUFFICES asked' = answered' + pipe' + (IF pc'.thread = "emit" THEN 1 ELSE 0) + n(xq')
  BY DEF PressesAccountedFor
<1> HIDE DEF n
<1> USE DEF counts, Go
<1>5. CASE Construct \/ BindKey \/ Connect \/ Join \/ stop \/ Destroy
  BY <1>2, <1>3, <1>5 DEF Construct, BindKey, Connect, Join, stop, Destroy
<1>6. CASE Start
  <2>1. pc.thread = "off"
    BY <1>6 DEF IInv, ThreadAfterBind, Start
  <2>2. pc'.thread = "check"
    BY <1>6 DEF Start
  <2> QED BY <1>2, <1>3, <1>6, <2>1, <2>2 DEF Start
<1>7. CASE DispatchDone
  BY <1>2, <1>3, <1>7 DEF DispatchDone
<1>8. CASE CheckStop \/ Flush
  BY <1>2, <1>3, <1>8 DEF CheckStop, Flush
<1>9. CASE XNextEvent
  <2>1. xq # <<>>
    BY <1>9 DEF XNextEvent
  <2>2. n(xq) = n(Tail(xq)) + (IF Head(xq) = "KeyPress" THEN 1 ELSE 0)
    BY <1>2, <2>1, PressesOfTail DEF n
  <2>3. Tail(xq) \in Seq({"KeyPress", "KeyRelease"})
    BY <1>2, <2>1
  <2>4. n(Tail(xq)) \in Nat
    BY <2>3, PressesFinite DEF n
  <2>5. /\ asked' = asked /\ answered' = answered /\ pipe' = pipe /\ xq' = Tail(xq)
        /\ pc.thread = "next"
        /\ pc'.thread = IF Head(xq) = "KeyPress" THEN "emit" ELSE "check"
    BY <1>2, <1>9 DEF XNextEvent
  <2>6. n(xq') = n(Tail(xq))
    BY <2>5
  <2> QED BY <1>2, <1>3, <2>2, <2>4, <2>5, <2>6
<1>10. CASE SigDone
  BY <1>2, <1>3, <1>10 DEF SigDone
<1>11. CASE Release
  <2>1. n(Append(xq, "KeyRelease")) = n(xq) + 0
    BY <1>2, PressesOfAppend DEF n
  <2> QED BY <1>2, <1>3, <1>11, <2>1 DEF Release
<1>12. ASSUME NEW key \in Key, NEW state \in State, Press(key, state)
       PROVE  asked' = answered' + pipe' + (IF pc'.thread = "emit" THEN 1 ELSE 0) + n(xq')
  <2>1. n(Append(xq, "KeyPress")) = n(xq) + 1
    BY <1>2, PressesOfAppend DEF n
  <2> QED BY <1>2, <1>3, <1>12, <2>1 DEF Press
<1>13. CASE UNCHANGED vars
  BY <1>3, <1>13 DEF vars
<1> QED BY <1>5, <1>6, <1>7, <1>8, <1>9, <1>10, <1>11, <1>12, <1>13 DEF Next, Owner, run, Keys

LEMMA Inductive == IInv /\ [Next]_vars => IInv'
BY SurroundingsStay, ShapeStep, GrabsStep, PressesStep DEF IInv

THEOREM Invariance == Spec => []IInv
<1>1. Init => IInv
  BY InitIInv
<1>2. IInv /\ [Next]_vars => IInv'
  BY Inductive
<1> QED BY <1>1, <1>2, PTL DEF Spec

-----------------------------------------------------------------------------
(* What follows                                                            *)

LEMMA CallsBounded ==
  ASSUME IInv
  PROVE  answered \in 0..asked /\ pipe \in Nat /\ asked \in Nat /\ answered \in Nat
<1>1. Cardinality(PressesIn(xq)) \in Nat
  BY PressesFinite DEF IInv, Shape
<1>2. /\ pipe \in Nat /\ asked \in Nat /\ answered \in Nat
  BY XKeyBindAssumption DEF IInv, Shape
<1> QED BY <1>1, <1>2 DEF IInv, PressesAccountedFor

(* The type invariant, the bound of the pipe included (xkeybind.h:18-39).   *)
THEOREM TypeCorrect == Spec => []TypeOK
<1>1. IInv => TypeOK
  <2> SUFFICES ASSUME IInv PROVE TypeOK
    OBVIOUS
  <2>1. Shape /\ asked \in 0..Presses
    BY DEF IInv, Shape
  <2>2. answered \in 0..Presses
    BY <2>1, CallsBounded, XKeyBindAssumption
  <2> QED BY <2>1, <2>2 DEF Shape, TypeOK
<1> QED BY <1>1, Invariance, PTL

(* Once the thread waits for events, what the server has of a meaningful    *)
(* hotkey string is that hotkey, on every keyboard (xkeybind.cpp:41-61).    *)
THEOREM HotkeyExact == Spec => []HotkeyIsExact
<1>1. IInv => HotkeyIsExact
  <2> SUFFICES ASSUME IInv, pc.thread = "next", requests = {}, fault = "none",
                      Meaningful(keystring, keyboard)
               PROVE  Exact(keystring, keyboard, grabs, Key)
    BY DEF HotkeyIsExact
  <2>1. grabs = Requested(keystring, keyboard)
    BY DEF IInv, GrabsInStep, ThreadAfterBind
  <2>2. keystring \in Seq(STRING) /\ 0 \notin Key
    BY XKeyBindAssumption DEF IInv, Surroundings
  <2> QED BY <2>1, <2>2, GrabsExact
<1> QED BY <1>1, Invariance, PTL

(* No press is lost or doubled on its way to the dialog                     *)
(* (xkeybind.cpp:113-126).                                                  *)
THEOREM PressesSafe == Spec => []PressesAccountedFor
<1>1. IInv => PressesAccountedFor
  BY DEF IInv
<1> QED BY <1>1, Invariance, PTL

(* The thread, the pipe and the dispatcher implement the service of the     *)
(* hotkey: every step is one of its steps or none                           *)
(* (xkeybind.cpp:113-126, tudor-do.cpp:106-110).                            *)
THEOREM SummonsImplemented == Spec => ImplementsSummons
<1>1. Init => S!SummonsInit
  BY DEF Init, S!SummonsInit
<1>2. IInv /\ [Next]_vars => [S!SummonsNext]_(S!summonsVars)
  <2> SUFFICES ASSUME IInv, [Next]_vars
               PROVE  [S!SummonsNext]_(S!summonsVars)
    OBVIOUS
  <2> USE DEF counts, Go, S!SummonsNext, S!summonsVars
  <2>1. CASE Start \/ Connect \/ Join \/ CheckStop \/ XNextEvent \/ SigDone \/ Release
              \/ UNCHANGED vars
    BY <2>1 DEF Start, Connect, Join, CheckStop, XNextEvent, SigDone, Release, vars
  <2>2. CASE Construct \/ BindKey \/ stop \/ Destroy \/ Flush
    BY <2>2 DEF Construct, BindKey, stop, Destroy, Flush, IInv, Shape, S!End
  <2>3. CASE DispatchDone
    <3>1. answered < asked
      <4>1. Cardinality(PressesIn(xq)) \in Nat
        BY PressesFinite DEF IInv, Shape
      <4> QED BY <2>3, <4>1, CallsBounded DEF DispatchDone, IInv, PressesAccountedFor
    <3> QED BY <2>3, <3>1 DEF DispatchDone, S!Answer
  <2>4. ASSUME NEW key \in Key, NEW state \in State, Press(key, state)
        PROVE  S!Ask
    BY <2>4 DEF Press, S!Ask
  <2> QED BY <2>1, <2>2, <2>3, <2>4 DEF Next, Owner, run, Keys
<1> QED BY <1>1, <1>2, Invariance, PTL DEF Spec, ImplementsSummons, S!SummonsSafety

=============================================================================
