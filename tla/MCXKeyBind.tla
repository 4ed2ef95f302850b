---------------------------- MODULE MCXKeyBind ----------------------------
(* Instances of XKeyBind: a keyboard of four keys *)
EXTENDS XKeyBind, TLC

a == 38
space == 65
F2 == 68
Num_Lock == 77

MCKey == {a, space, F2}

MCKeycode == "A" :> a @@ "a" :> a @@ "space" :> space @@ "F2" :> F2

MCUpper ==
  "" :> "" @@ "a" :> "A" @@ "space" :> "SPACE" @@ "F2" :> "F2" @@ "Alt" :> "ALT"
  @@ "Ctrl" :> "CTRL" @@ "Hyper" :> "HYPER" @@ "Mod4" :> "MOD4" @@ "Shift" :> "SHIFT"

(* The default, two modifiers, a key with no name in capitals, a modifier  *)
(* that is none, no modifier, and no plus sign                             *)
MCKeystring ==
  {<<"Alt", "F2">>, <<"Ctrl", "Shift", "a">>, <<"Mod4", "a">>, <<"Alt", "space">>,
   <<"Hyper", "F2">>, <<"", "F2">>, <<"F2">>}

Rows(numlocks) ==
  [m \in Modifier |-> IF m \in numlocks THEN {Num_Lock} ELSE {1}]

(* NumLock on one modifier, on two, and no NumLock key but an empty place  *)
(* on Mod3                                                                 *)
MCKeyboard ==
  {[map |-> Rows({"Mod2"}), numlock |-> Num_Lock],
   [map |-> Rows({"Mod2", "Mod5"}), numlock |-> Num_Lock],
   [map |-> [Rows({}) EXCEPT !["Mod3"] = {0}], numlock |-> 0]}

(* Nobody else, another client with Alt+F2, and one with every Alt key     *)
MCForeign ==
  {{}, {[key |-> F2, mods |-> {"Mod1"}]}, {[key |-> 0, mods |-> {"Mod1"}]}}

MCState ==
  {{"Mod1"}, {"Mod1", "Lock", "Mod2"}, {"Control", "Shift"}, {"Mod4", "Mod3"}, {}}
=============================================================================
