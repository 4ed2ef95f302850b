------------------------------ MODULE TudorDo ------------------------------
(***************************************************************************)
(* The running program: the dialog, the hotkey service and the feed of     *)
(* listings share the state of the main loop. Hotkey and path monitor are  *)
(* their abstract specifications, which XKeyBind and PathMonitor implement. *)
(***************************************************************************)
EXTENDS Dialog

CONSTANTS
  Listings,     \* the listings the program may have after start-up
  Name,         \* names that files may have
  Presses,      \* bound on presses of the hotkey
  MaxNews       \* bound on announcements not applied

(* What is typed, files, variables and commands are texts; an empty command *)
(* cannot be parsed.                                                        *)
ASSUME TextsAssumption ==
  /\ UNION {Typed, Env, {Home, XdgOpen}, Launchable, Name} \subseteq Seq(STRING)
  /\ \A dir \in DOMAIN Tree : Tree[dir] \subseteq Seq(STRING)
  /\ <<>> \notin Launchable

ASSUME FilesAssumption ==
  /\ Runnable \subseteq Regular
  /\ DOMAIN Tree \cap (Unreadable \cup Regular) = {}

ASSUME ListingsAssumption == Listings \subseteq [Dir -> SUBSET Name]

ASSUME MaxNewsAssumption == MaxNews \in Nat

VARIABLES
  asked, answered,   \* Summons
  news, started      \* ListingFeed

vars == <<dialogVars, m_path, asked, answered, news, started>>

H == INSTANCE Summons WITH over <- ~Running

F == INSTANCE ListingFeed WITH
       File <- Name, Unlisted <- {<<>>}, listing <- m_path, pending <- news,
       over <- ~Running

Init ==
  /\ DialogInit
  /\ m_path \in Listings
  /\ asked = 0 /\ answered = 0
  /\ news = <<>> /\ started = TRUE

Press ==
  /\ Running
  /\ UNCHANGED <<dialogVars, m_path, news, started>>
  /\ H!Ask

(* Mutant: the release of the hotkey shows the dialog as well. *)
SummonTwice ==
  /\ Show
  /\ answered' = answered + 1
  /\ UNCHANGED <<asked, news, started>>

(* sig_done calls Gtk::Window::show, from the main loop or from that of the *)
(* error dialog.                                                            *)
Summon ==
  /\ Show /\ H!Answer
  /\ UNCHANGED <<news, started>>

Announce ==
  /\ Running /\ Len(news) < MaxNews
  /\ UNCHANGED <<dialogVars, asked, answered>>
  /\ \E d \in Dir, kind \in {"arrived", "left"}, n \in Name :
       F!Announce([dir |-> d, kind |-> kind, name |-> n])

(* Until the text changes, the list shows the listings as they were.        *)
ListingChanges ==
  /\ Running
  /\ UNCHANGED <<dialogVars, asked, answered>>
  /\ F!Apply

Next ==
  \/ User /\ UNCHANGED <<asked, answered, news, started>>
  \/ Press \/ Summon \/ Announce \/ ListingChanges

Spec == Init /\ [][Next]_vars

-----------------------------------------------------------------------------
(* Properties *)

TypeOK ==
  /\ mark \in 0..Len(text)
  /\ \A t \in Offered \cup m_history \cup launched : t # <<>>
  /\ shown \in BOOLEAN /\ mode \in {"idle", "error"}
  /\ fault \in {"none", "abort"}
  /\ answered \in 0..asked /\ Len(news) <= MaxNews
  /\ \A d \in Dir : m_path[d] \subseteq Name

(* What the list offers goes with the text in the entry and the history as  *)
(* they are, through every way the text can change, and never names a file  *)
(* no listing could have (tudor-do.cpp:174-239).                            *)
RowsAreCurrent ==
  Running =>
    LET now == RowsFor(text)
    IN /\ rows[1] = now[1] /\ rows[2] = now[2]
       /\ \A n \in rows[3] : n \in Name /\ IsPrefix(LastWord(text), n)

(* Completion adds to what the user typed and never takes from it, as long  *)
(* as no character has several bytes, no slash is doubled and no file name  *)
(* has a backslash before a space (tudor-do.cpp:145-160, 253-292): counted  *)
(* in bytes, the place of the last word is off by each byte too many; a     *)
(* path that is put together again has lost the second slash; and in a name *)
(* the backslash is taken as typed, without one of its own.                 *)
Plain ==
  /\ ToSet(text) \cap Wide = {}
  /\ \A x \in 1..Len(text) - 1 : ~(text[x] = "/" /\ text[x + 1] = "/")
  /\ \A dir \in DOMAIN Tree : \A n \in Tree[dir] :
       \A x \in Positions(" ", n) : x = 0 \/ n[x] # "\\"

Completion == Tab \/ InlineComplete \/ \E row \in Offered : SelectRow(row)

CompletionKeepsTyped ==
  [][Completion /\ Plain /\ ~EndsInTilde
       => IsPrefix(text, text')]_vars

(* What the program remembers is what it started, never what failed         *)
(* (tudor-do.cpp:66-75).                                                    *)
HistoryIsWhatRan == m_history = {c \in launched : Positions(" ", c) # {}}

(* The text that ends the program: one whose only space comes first, one    *)
(* with characters of several bytes, or one whose last word goes on with a  *)
(* slash after the path of something that is there and cannot be opened as  *)
(* a directory: a directory nobody may open, or any other file              *)
(* (util.cpp:38, tudor-do.cpp:138, 153, 197-199, 284). No other text does.  *)
AbortsOnlyOnBadText ==
  fault = "abort" =>
    \/ Positions(" ", text) = {0}
    \/ ToSet(text) \cap Wide # {}
    \/ \E path \in Unreadable \cup Regular :
         IsPrefix(FullPath(Escape(path), <<>>), LastWord(text))

=============================================================================
