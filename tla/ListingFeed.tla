---------------------------- MODULE ListingFeed ----------------------------
(***************************************************************************)
(* What the path monitor promises the dialog: listings of directories that *)
(* are taken once and from then on change by announced arrivals and        *)
(* departures only, each applied once, in the order of the announcements,  *)
(* and every one of them in the end unless the process is over.            *)
(***************************************************************************)
EXTENDS Sequences

CONSTANTS
  Dir,         \* directories, by path
  File,        \* names
  Unlisted     \* a directory without a listing

VARIABLES
  listing,     \* the names listed for each directory
  pending,     \* announcements not yet applied
  started,     \* no listing is taken any more
  over         \* the process has ended

feedVars == <<listing, pending, started, over>>

Announcement ==
       [dir : Dir, kind : {"arrived", "left"}, name : File]
  \cup [dir : Dir, kind : {"other"}]

FeedInit ==
  /\ listing = [d \in Dir |-> Unlisted]
  /\ pending = <<>>
  /\ started = FALSE
  /\ over = FALSE

Take(d, names) ==
  /\ ~started
  /\ listing' = [listing EXCEPT ![d] = names]
  /\ UNCHANGED <<pending, started, over>>

Begin ==
  /\ ~started
  /\ started' = TRUE
  /\ UNCHANGED <<listing, pending, over>>

Announce(a) ==
  /\ started
  /\ pending' = Append(pending, a)
  /\ UNCHANGED <<listing, started, over>>

Names(d) == IF listing[d] = Unlisted THEN {} ELSE listing[d]

Applied(a) ==
  CASE a.kind = "arrived" -> [listing EXCEPT ![a.dir] = Names(a.dir) \cup {a.name}]
    [] a.kind = "left"    -> [listing EXCEPT ![a.dir] = Names(a.dir) \ {a.name}]
    [] a.kind = "other"   -> listing

(* The process may end in the middle of it. *)
Apply ==
  /\ ~over /\ pending # <<>>
  /\ listing' = Applied(Head(pending))
  /\ pending' = Tail(pending)
  /\ over' \in BOOLEAN
  /\ UNCHANGED started

Die ==
  /\ over' = TRUE
  /\ UNCHANGED <<listing, pending, started>>

FeedNext ==
  \/ \E d \in Dir, names \in SUBSET File : Take(d, names)
  \/ Begin
  \/ \E a \in Announcement : Announce(a)
  \/ Apply
  \/ Die

FeedSafety == FeedInit /\ [][FeedNext]_feedVars

(* No announcement stays unapplied for ever while the process lasts. *)
EverythingApplied == pending # <<>> ~> (pending = <<>> \/ over)

=============================================================================
