----------------------------- MODULE MCTextUtil -----------------------------
(***************************************************************************)
(* The string functions on every text of up to MaxChars characters, typed  *)
(* one by one.                                                             *)
(***************************************************************************)
EXTENDS TextUtil

CONSTANTS Chars, MaxChars

MCChars == {"a", " ", "\\", ":"}

VARIABLE typed

TextInit == typed = <<>>

Keystroke(c) == Len(typed) < MaxChars /\ typed' = Append(typed, c)

TextNext == \E c \in Chars : Keystroke(c)

TextSpec == TextInit /\ [][TextNext]_typed

Escaped == {i \in Positions(" ", typed) : i > 0 /\ typed[i] = "\\"}

LastUnescaped == Max({NPos} \cup (Positions(" ", typed) \ Escaped))

(* Reference for find_last_space_pos (util.cpp:32-47): it finds the space   *)
(* the last word begins after, unless the word has two escaped spaces or    *)
(* more; then it never does.                                                *)
FindsLastWord ==
  ~SpacePosThrows(typed) =>
    (find_last_space_pos(typed) = LastUnescaped
       <=> Cardinality({i \in Escaped : i > LastUnescaped}) < 2)

(* Escaping a file name for the entry is undone by unescaping it, whatever  *)
(* backslashes it has; what the user typed survives the way back only if    *)
(* all its spaces are escaped; an escaped name is a single word             *)
(* (util.cpp:18-30, tudor-do.cpp:196, 207).                                 *)
EscapingIsUndone ==
  /\ Unescape(Escape(typed)) = typed
  /\ Escape(Unescape(typed)) = typed <=> Positions(" ", typed) = Escaped
  /\ \A i \in Positions(" ", Escape(typed)) : i > 0 /\ Escape(typed)[i] = "\\"

Joined(pieces) ==
  FoldLeft(LAMBDA whole, piece : whole \o <<":">> \o piece, Head(pieces), Tail(pieces))

(* The entries of $PATH: no entry has a colon, and put together again they  *)
(* are the variable, but for one colon at its end. Entries may be empty,    *)
(* and then no directory can be opened for them (util.cpp:74-82,            *)
(* tudor-do.cpp:312-318).                                                   *)
SplitRejoins ==
  LET pieces == split(typed, ":")
  IN /\ \A k \in DOMAIN pieces : ~Contains(pieces[k], ":")
     /\ IF pieces = <<>> THEN typed = <<>>
        ELSE typed \in {Joined(pieces), Joined(pieces) \o <<":">>}
     /\ typed # <<>> => Cardinality(Positions(":", typed)) - Len(pieces)
                         = (IF Last(typed) = ":" THEN 0 ELSE -1)

=============================================================================
