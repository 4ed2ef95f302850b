------------------------------- MODULE Dialog -------------------------------
(***************************************************************************)
(* class Do (tudor-do.cpp): the entry and its completion list, the history *)
(* of commands, the window and the error dialog. Each action is an event   *)
(* GTK delivers to the main loop, with every handler it runs. The user     *)
(* edits at the end of the text, the one place the handlers leave the      *)
(* cursor at. A character of Wide has several bytes in UTF-8: Bytes is the *)
(* std::string, the text itself the Glib::ustring.                         *)
(***************************************************************************)
EXTENDS TextUtil

CONSTANTS
  Dir,          \* the directories of $PATH
  Wide,         \* characters of three bytes
  Typed,        \* what the user enters at once, a key or pasted text
  MaxLen,       \* bound on the texts that are typed
  Tree,         \* [path of a directory, in any spelling -> the names in it]
  Unreadable,   \* directories that cannot be opened
  Regular,      \* files that are no directories, by their paths
  Env,          \* names of environment variables
  Home,         \* $HOME
  Runnable,     \* absolute paths of executable files
  XdgOpen,      \* "xdg-open "
  Launchable    \* commands that can be parsed and started

VARIABLES
  m_path,       \* [Dir -> names], owned by the path monitor
  text, mark,   \* the text of m_Entry, and how much of it is not selected
  rows,         \* m_Liststore in three groups: files or variables, history, names
  m_history,
  launched,     \* external: the commands started
  shown,        \* the window is visible
  mode,         \* "idle", or "error": the error dialog runs a main loop of its own
  fault         \* "none", "abort", or "corrupt"

dialogVars == <<text, mark, rows, m_history, launched, shown, mode, fault>>

NoRows == <<{}, {}, {}>>
Offered == UNION {rows[x] : x \in 1..3}

DialogInit ==
  /\ text = <<>> /\ mark = 0 /\ rows = NoRows
  /\ m_history = {} /\ launched = {}
  /\ shown = FALSE /\ mode = "idle" /\ fault = "none"

Running == fault = "none"
Attended == Running /\ shown /\ mode = "idle"

-----------------------------------------------------------------------------
(* on_entry_changed_event, for the text it finds                           *)

Bytes(t) ==
  FlattenSeq([x \in 1..Len(t) |-> IF t[x] \in Wide THEN <<t[x], "+", "+">> ELSE <<t[x]>>])

(* What follows the last space, everything without one: counted in bytes of *)
(* a byte string, so that it starts with a whole character                  *)
LastWord(t) == SubSeq(t, find_last_space_pos(t) + 2, Len(t))

(* Glib::path_get_dirname and what follows the last slash *)
LastSlash(path) == Max(Positions("/", path))
Dirname(path) ==
  LET ends == {x \in 1..LastSlash(path) : path[x] # "/"}
  IN IF ends = {} THEN <<"/">> ELSE SubSeq(path, 1, Max(ends))
Tailname(path) == SubSeq(path, LastSlash(path) + 2, Len(path))

FullPath(dir, name) == (IF dir = <<"/">> THEN dir ELSE Append(dir, "/")) \o name

FileRows(word) ==
  LET dir == Unescape(Dirname(word))
  IN {Escape(FullPath(dir, name)) : name \in {n \in Tree[dir] : IsPrefix(Tailname(word), n)}}

VariableRows(word) == {<<"$">> \o v : v \in {e \in Env : IsPrefix(Tail(word), e)}}

TooShort(t) == Len(Bytes(t)) < 2 \/ Len(Bytes(LastWord(t))) <= 2

(* FILE_TEST_EXISTS is true of any file, directory or not. *)
Exists(path) == path \in DOMAIN Tree \cup Unreadable \cup Regular

RowsFor(t) ==
  LET word == LastWord(t)
      Extending(S) == {s \in S : IsPrefix(word, s)}
      first == IF word[1] = "/" THEN FileRows(word)
               ELSE IF word[1] = "$" THEN VariableRows(word) ELSE {}
  IN IF TooShort(t) \/ (word[1] = "/" /\ ~Exists(Unescape(Dirname(word)))) THEN NoRows
     ELSE <<first, Extending(m_history), Extending(UNION {m_path[d] : d \in Dir})>>

(* Mutant: the directory is opened without a look whether it is there. *)
ThrowsUnlessOpen(t) ==
  /\ Len(Bytes(t)) >= 2
  /\ \/ SpacePosThrows(t)
     \/ /\ ~TooShort(t) /\ LastWord(t)[1] = "/"
        /\ Unescape(Dirname(LastWord(t))) \notin DOMAIN Tree

(* std::out_of_range of a single leading space, Glib::FileError of what is  *)
(* there and cannot be opened as a directory: no handler of GTK catches     *)
ChangeThrows(t) ==
  /\ Len(Bytes(t)) >= 2
  /\ \/ SpacePosThrows(t)
     \/ /\ ~TooShort(t) /\ LastWord(t)[1] = "/"
        /\ Unescape(Dirname(LastWord(t))) \in Unreadable \cup Regular

(* Mutant: the list is cleared only when it is about to be filled again. *)
SetTextStale(t) ==
  /\ text' = t
  /\ rows' = IF TooShort(t) \/ ChangeThrows(t) THEN rows ELSE RowsFor(t)
  /\ fault' = IF ChangeThrows(t) THEN "abort" ELSE fault

(* m_Entry.set_text(t) and edits: no signal for a text that stays the same  *)
SetText(t) ==
  /\ text' = t
  /\ rows' = IF t = text THEN rows ELSE IF ChangeThrows(t) THEN NoRows ELSE RowsFor(t)
  /\ fault' = IF t # text /\ ChangeThrows(t) THEN "abort" ELSE fault

Keep == SubSeq(text, 1, mark)

EndsInTilde == text # <<>> /\ Last(text) = "~"

-----------------------------------------------------------------------------
(* Keys                                                                    *)

(* A slash after a tilde that is not alone first puts $HOME in its place    *)
(* (on_entry_key_pressed_event), then it is typed.                          *)
TildeNotAlone == Len(text) > 1 /\ EndsInTilde

SlashAfterTilde ==
  LET home == Front(text) \o Home
  IN /\ Attended /\ TildeNotAlone
     /\ SetText(IF ChangeThrows(home) THEN home ELSE Append(home, "/"))
     /\ mark' = Len(text')
     /\ UNCHANGED <<m_path, m_history, launched, shown, mode>>

Type(chunk) ==
  /\ Attended /\ mark + Len(chunk) <= MaxLen
  /\ ~(chunk = <<"/">> /\ TildeNotAlone)
  /\ SetText(Keep \o chunk)
  /\ mark' = Len(text')
  /\ UNCHANGED <<m_path, m_history, launched, shown, mode>>

Backspace ==
  /\ Attended /\ text # <<>>
  /\ SetText(IF mark < Len(text) THEN Keep ELSE Front(text))
  /\ mark' = Len(text')
  /\ UNCHANGED <<m_path, m_history, launched, shown, mode>>

(* The position of the last space is counted in bytes and used on           *)
(* characters.                                                              *)
BytePlace(t) == find_last_space_pos(Bytes(t)) + 1

PlaceThrows(t) == BytePlace(t) > Len(t)

(* Mutant: the position is not moved past the space. *)
WithRowAtSpace(t, row) == SubSeq(t, 1, BytePlace(t) - 1) \o row

WithRow(t, row) == SubSeq(t, 1, BytePlace(t)) \o row

FirstRows == rows[Min({x \in 1..3 : rows[x] # {}})]

TabTilde ==
  /\ EndsInTilde
  /\ SetText(Front(text) \o Append(Home, "/"))
  /\ mark' = Len(text')

(* Nothing to do but to drop the selection *)
TabAside ==
  /\ ~EndsInTilde
  /\ Len(text) <= 2 \/ Offered = {} \/ BytePlace(text) = 0 \/ mark < Len(text)
  /\ mark' = IF Len(text) <= 2 THEN mark ELSE Len(text)
  /\ UNCHANGED <<text, rows, fault>>

TabRow ==
  /\ Len(text) > 2 /\ ~EndsInTilde /\ mark = Len(text) /\ BytePlace(text) > 0
  /\ \E row \in FirstRows :
       \/ /\ ~PlaceThrows(text)
          /\ SetText(WithRow(text, row))
          /\ mark' = Min({Len(text), Len(text')})
       \/ /\ PlaceThrows(text)
          /\ fault' = "abort"
          /\ UNCHANGED <<text, mark, rows>>

(* on_key_pressed_event sets the text to itself, which does nothing.        *)
Tab ==
  /\ Attended
  /\ TabTilde \/ TabAside \/ (Offered # {} /\ TabRow)
  /\ UNCHANGED <<m_path, m_history, launched, shown, mode>>

Escape_ ==
  /\ Attended
  /\ SetText(<<>>)
  /\ mark' = 0
  /\ shown' = FALSE
  /\ UNCHANGED <<m_path, m_history, launched, mode>>

-----------------------------------------------------------------------------
(* Completion                                                              *)

(* The results on_completion_match may give: it ends without a return       *)
(* when the row does not match.                                             *)
on_completion_match(key, row) ==
  LET match == SubSeq(key, BytePlace(key) + 1, Len(key))
  IN IF Len(match) > 2 /\ IsPrefix(match, row) THEN {TRUE} ELSE BOOLEAN

(* GTK asks it for every row when it fills the popup.                       *)
FillPopup ==
  /\ Attended /\ Offered # {} /\ PlaceThrows(text)
  /\ fault' = "abort"
  /\ UNCHANGED <<m_path, text, mark, rows, m_history, launched, shown, mode>>

(* on_completion_match_selected, and for a text of one word what GTK does   *)
(* with the row                                                             *)
SelectRow(row) ==
  /\ Attended /\ ~PlaceThrows(text) /\ TRUE \in on_completion_match(text, row)
  /\ SetText(IF BytePlace(text) = 0 THEN row ELSE WithRow(text, row))
  /\ mark' = Len(text')
  /\ UNCHANGED <<m_path, m_history, launched, shown, mode>>

(* GTK's inline completion: what all rows that begin with the whole text    *)
(* have in common is added and selected.                                    *)
InlineComplete ==
  LET more == {r \in Offered : IsStrictPrefix(text, r)}
  IN /\ Attended /\ mark = Len(text) /\ more # {}
     /\ SetText(LongestCommonPrefix(more))
     /\ mark' = Len(text)
     /\ UNCHANGED <<m_path, m_history, launched, shown, mode>>

-----------------------------------------------------------------------------
(* on_entry_activate and execute                                           *)

Http == <<"h", "t", "t", "p", ":", "/", "/">>

Command ==
  IF (IsPrefix(<<"/">>, text) \/ IsPrefix(Http, text)) /\ text \notin Runnable
  THEN XdgOpen \o text
  ELSE text

Finish ==
  /\ SetText(<<>>)
  /\ mark' = 0
  /\ shown' = FALSE

(* Mutant: the command is remembered before it is known to start. *)
FailRemembered ==
  /\ Attended /\ Command \notin Launchable
  /\ m_history' = IF Positions(" ", Command) # {} THEN m_history \cup {Command} ELSE m_history
  /\ mode' = "error"
  /\ UNCHANGED <<m_path, text, mark, rows, launched, shown, fault>>

(* Glib::Error: the command cannot be parsed or started.                    *)
Fail ==
  /\ Attended /\ Command \notin Launchable
  /\ mode' = "error"
  /\ UNCHANGED <<m_path, text, mark, rows, m_history, launched, shown, fault>>

Launch ==
  /\ Attended /\ Command \in Launchable
  /\ launched' = launched \cup {Command}
  /\ m_history' = IF Positions(" ", Command) # {} THEN m_history \cup {Command} ELSE m_history
  /\ Finish
  /\ UNCHANGED <<m_path, mode>>

(* The error dialog is answered: dialog.run() returns.                      *)
Acknowledge ==
  /\ Running /\ mode = "error"
  /\ mode' = "idle"
  /\ Finish
  /\ UNCHANGED <<m_path, m_history, launched>>

-----------------------------------------------------------------------------
(* The window: the error dialog takes the focus away as any other window    *)
(* does; a window that is closed is hidden by gtkmm as well.                *)

Hide ==
  /\ shown' = FALSE
  /\ UNCHANGED <<m_path, text, mark, rows, m_history, launched, mode, fault>>

on_focus_out_event == Running /\ shown /\ Hide
on_delete_event == Attended /\ Hide

Show ==
  /\ Running
  /\ shown' = TRUE
  /\ UNCHANGED <<m_path, text, mark, rows, m_history, launched, mode, fault>>

User ==
  \/ \E chunk \in Typed : Type(chunk)
  \/ SlashAfterTilde \/ Backspace \/ Tab \/ Escape_
  \/ FillPopup \/ InlineComplete \/ \E row \in Offered : SelectRow(row)
  \/ Fail \/ Launch \/ Acknowledge
  \/ on_focus_out_event \/ on_delete_event

=============================================================================
