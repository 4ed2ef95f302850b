------------------------------ MODULE TextUtil ------------------------------
(***************************************************************************)
(* The string functions of util.cpp. A string is a sequence of characters; *)
(* a position counts from 0, as in the code.                               *)
(***************************************************************************)
EXTENDS Integers, FiniteSetsExt, SequencesExt

NPos == -1

Positions(c, str) == {i - 1 : i \in {j \in 1..Len(str) : str[j] = c}}

(* str.find_last_of(' ') *)
LastSpace(str) == Max({NPos} \cup Positions(" ", str))

(* substr(pos - 1, 1) wraps around and throws std::out_of_range. *)
SpacePosThrows(str) == LastSpace(str) = 0

(* Mutant: an escaped space is a space like any other. *)
FindNoRetry(str) == LastSpace(str)

(* The loop breaks after one round: what the second search finds may be     *)
(* escaped as well.                                                         *)
find_last_space_pos(str) ==
  LET pos == LastSpace(str)
  IN IF pos > 0 /\ str[pos] = "\\" THEN LastSpace(SubSeq(str, 1, pos - 1)) ELSE pos

(* Mutant: the search goes on one character too far behind a replacement. *)
ReplaceSkipping(str, substr, repl) ==
  LET from[i \in 1..Len(str) + Len(substr) + 1] ==
        IF i > Len(str) THEN <<>>
        ELSE IF IsPrefix(substr, SubSeq(str, i, Len(str)))
             THEN repl \o SubSeq(str, i + Len(substr), Min({i + Len(substr), Len(str)}))
                       \o from[i + Len(substr) + 1]
             ELSE <<str[i]>> \o from[i + 1]
  IN from[1]

(* from[i] is what the loop makes of the rest of the string from its i-th   *)
(* character on; substr is not empty.                                       *)
find_and_replace(str, substr, repl) ==
  LET from[i \in 1..Len(str) + 1] ==
        IF i > Len(str) THEN <<>>
        ELSE IF IsPrefix(substr, SubSeq(str, i, Len(str)))
             THEN repl \o from[i + Len(substr)]
             ELSE <<str[i]>> \o from[i + 1]
  IN from[1]

(* The pieces between the delimiters, the empty ones and a last empty one   *)
(* included                                                                 *)
Pieces(str, delim) ==
  FoldLeft(LAMBDA ps, c : IF c = delim
                          THEN Append(ps, <<>>)
                          ELSE [ps EXCEPT ![Len(ps)] = Append(@, c)],
           << <<>> >>, str)

(* Mutant: what follows the last delimiter counts also when it is nothing. *)
SplitKeepsTail(str, delim) == Pieces(str, delim)

(* getline() fails at the end of the string: no piece for what follows a    *)
(* last delimiter, none at all for the empty string.                        *)
split(str, delim) ==
  LET ps == Pieces(str, delim)
  IN IF Last(ps) = <<>> THEN Front(ps) ELSE ps

(* What the dialog does to file names with find_and_replace                 *)
(* (tudor-do.cpp:196, 207)                                                  *)
Escape(name) == find_and_replace(name, <<" ">>, <<"\\", " ">>)
Unescape(word) == find_and_replace(word, <<"\\", " ">>, <<" ">>)

=============================================================================
