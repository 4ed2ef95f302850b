------------------------------ MODULE KeyGrab ------------------------------
(***************************************************************************)
(* The key combinations XKeyBind::bind_key asks the X server for           *)
(* (xkeybind.cpp:41-111), and what the server makes of them. A modifier    *)
(* mask is the set of its modifiers, AnyModifier the set {"Any"}; keycode 0 *)
(* is AnyKey. A hotkey string is the sequence of its parts between the     *)
(* plus signs, which are drawn from a small set.                           *)
(***************************************************************************)
EXTENDS Integers, Sequences

CONSTANTS
  Keycode,     \* [key name -> keycode], for the names XStringToKeysym knows
  Upper        \* [part -> the part in capitals]

ASSUME KeycodeAssumption == \A n \in DOMAIN Keycode : Keycode[n] \in Nat \ {0}

Modifiers ==
  <<"Shift", "Lock", "Control", "Mod1", "Mod2", "Mod3", "Mod4", "Mod5">>
Modifier == {Modifiers[x] : x \in 1..8}

-----------------------------------------------------------------------------
(* A keyboard: the keycodes on each modifier, 0 in an empty place, and the *)
(* keycode of Num_Lock, 0 if no key has it                                 *)

ModifierOf(part) ==
  CASE part = "CTRL"              -> {"Control"}
    [] part \in {"ALT", "MOD1"}   -> {"Mod1"}
    [] part = "SHIFT"             -> {"Shift"}
    [] part \in {"SUPER", "MOD4"} -> {"Mod4"}
    [] OTHER                      -> {}

(* An empty string asks for any modifier; unknown names are skipped.       *)
get_modifiermask(parts) ==
  IF parts = <<"">> THEN {"Any"}
  ELSE UNION {ModifierOf(Upper[parts[x]]) : x \in 1..Len(parts)}

(* The name is looked up in capitals, which most names of keys do not      *)
(* have: "space" becomes "SPACE", which is none.                           *)
get_keycode(name) ==
  IF Upper[name] \in DOMAIN Keycode THEN Keycode[Upper[name]] ELSE 0

NumLockRows(kb) == {x \in 1..8 : kb.numlock \in kb.map[Modifiers[x]]}

(* Each row found replaces the one before. *)
get_numlock_mask(kb) ==
  {Modifiers[x] : x \in {y \in NumLockRows(kb) : \A z \in NumLockRows(kb) : z <= y}}

ModifierParts(ks) == SubSeq(ks, 1, Len(ks) - 1)

(* Mutant: Caps Lock and NumLock together are forgotten. *)
GrabThree(ks, kb) ==
  {[key  |-> get_keycode(ks[Len(ks)]),
    mods |-> get_modifiermask(ModifierParts(ks)) \cup locks] :
      locks \in {{}, {"Lock"}, get_numlock_mask(kb)}}

(* Nothing at all for a string without a plus sign *)
Requested(ks, kb) ==
  IF Len(ks) < 2 THEN {}
  ELSE {[key  |-> get_keycode(ks[Len(ks)]),
         mods |-> get_modifiermask(ModifierParts(ks)) \cup locks] :
          locks \in {{}, {"Lock"}, get_numlock_mask(kb),
                     get_numlock_mask(kb) \cup {"Lock"}}}

-----------------------------------------------------------------------------
(* The X server *)

(* Two grabs for one press *)
Overlap(g, h) ==
  /\ g.key = h.key \/ g.key = 0 \/ h.key = 0
  /\ g.mods = h.mods \/ "Any" \in g.mods \/ "Any" \in h.mods

(* BadValue for AnyModifier together with others, BadAccess for what       *)
(* another client has                                                      *)
Refused(g, foreign) ==
  \/ "Any" \in g.mods /\ g.mods # {"Any"}
  \/ \E f \in foreign : Overlap(f, g)

Fires(grabs, key, state) ==
  \E g \in grabs : Overlap(g, [key |-> key, mods |-> state])

-----------------------------------------------------------------------------
(* The modifiers Caps Lock and NumLock set *)
Locks(kb) == {"Lock"} \cup {Modifiers[x] : x \in NumLockRows(kb)}

(* A known key with known modifiers, which are not the locks of the         *)
(* keyboard, and NumLock on one modifier at most                            *)
Meaningful(ks, kb) ==
  /\ Len(ks) >= 2 /\ ModifierParts(ks) # <<"">>
  /\ get_keycode(ks[Len(ks)]) # 0
  /\ \A x \in 1..Len(ks) - 1 : ModifierOf(Upper[ks[x]]) # {}
  /\ get_modifiermask(ModifierParts(ks)) \cap Locks(kb) = {}
  /\ \A x, y \in NumLockRows(kb) : x = y

(* The combinations asked for are the hotkey under every state of the locks *)
(* and nothing else (xkeybind.cpp:52-59).                                   *)
Exact(ks, kb, grabs, keys) ==
  \A key \in keys, state \in SUBSET Modifier :
    Fires(grabs, key, state)
      <=> /\ key = get_keycode(ks[Len(ks)])
          /\ state \ Locks(kb) = get_modifiermask(ModifierParts(ks))

=============================================================================
