-------------------------- MODULE PathMonitorFeed --------------------------
(***************************************************************************)
(* PathMonitor as an implementation of ListingFeed: an event is announced  *)
(* when WaitForEvents() queues it and applied when run() has the mutex.    *)
(***************************************************************************)
EXTENDS PathMonitor

ASSUME FeedAssumption == \A S \in SUBSET Name : Absent # S

Kind(t) ==
  IF t \in Arrivals THEN "arrived" ELSE IF t \in Departures THEN "left" ELSE "other"

Announced(e) ==
  IF e.type \in ListingEvents
  THEN [dir |-> obj[e.watch].path, kind |-> Kind(e.type), name |-> e.name]
  ELSE [dir |-> obj[e.watch].path, kind |-> "other"]

Unapplied ==
  (IF pc.monitor \in {"lock", "mutate"} THEN <<event>> ELSE <<>>) \o m_events

listingBar ==
  [p \in Path |-> IF m_path[p] = Absent THEN Absent ELSE Range(m_path[p])]

pendingBar == [x \in 1..Len(Unapplied) |-> Announced(Unapplied[x])]

startedBar == pc.main \notin {"list", "watch", "start"}

F == INSTANCE ListingFeed WITH
       Dir <- Path, File <- Name, Unlisted <- Absent,
       listing <- listingBar, pending <- pendingBar,
       started <- startedBar, over <- fault # "none"

(* Where programs only add files, the thread is a feed: every listing step *)
(* applies the oldest event to the listing of the directory its watch was  *)
(* made for, or takes a listing at start-up (monitor.cpp:42-54, 87-113).   *)
ImplementsFeed == F!FeedSafety

(* and applies every event in the end.                                     *)
FeedApplies == F!EverythingApplied

=============================================================================
