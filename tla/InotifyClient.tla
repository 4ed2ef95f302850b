--------------------------- MODULE InotifyClient ---------------------------
(***************************************************************************)
(* The inotify-cxx library under any client that calls it from one thread: *)
(* any call, in any order, on watches that are present or not. A lawful    *)
(* client removes only watches that are present.                           *)
(***************************************************************************)
EXTENDS Inotify

CONSTANT Lawful    \* the client removes only watches that are present

ASSUME ClientAssumption == Lawful \in BOOLEAN

clientVars == <<kernelVars, libVars, fault>>

ClientInit == KernelInit /\ LibraryInit

Present(w) == obj[w] # NULL /\ m_paths[obj[w].path] = w

Removable(w) == obj[w] # NULL /\ (Lawful => Present(w))

Masks == {ListingEvents, ListingEvents \cup {"IN_ONESHOT"}}

(* No call is made while WaitForEvents() is at work on its buffer. *)
Call ==
  /\ m_buf = <<>> /\ fault = "none"
  /\ \/ ~kern.open /\ (\A w \in Watch : obj[w] = NULL) /\ Open
     \/ \E w \in Watch, p \in Path, m \in Masks, e \in BOOLEAN : Construct(w, p, m, e)
     \/ \E w \in Watch : obj[w] # NULL /\ Add(w)
     \/ \E w \in Watch : Removable(w) /\ RemoveWatch(w)
     \/ \E w \in Watch, on \in BOOLEAN : obj[w] # NULL /\ SetEnabled(w, on)
     \/ \E w \in Watch, m \in Masks : obj[w] # NULL /\ SetMask(w, m)
     \/ RemoveAll
     \/ Close
     \/ GetEvent
     \/ ReadEvents
  /\ UNCHANGED <<node, files, ops>>

Parse == fault = "none" /\ ParseEvent /\ UNCHANGED <<node, files, ops>>

Others == fault = "none" /\ FileSystem /\ UNCHANGED <<libVars, fault>>

ClientNext == Call \/ Parse \/ Others

ClientSpec == ClientInit /\ [][ClientNext]_clientVars

-----------------------------------------------------------------------------
ClientTypeOK == KernelTypeOK /\ LibraryTypeOK

(* No event is read for a watch that is disabled: __Disable() never throws *)
(* out of WaitForEvents() (inotify-cxx.cpp:287-290, 459-461).              *)
NoEventWhenDisabled == ~ParseThrows

(* A watch that was added and not removed since is present                 *)
(* (inotify-cxx.h:571-573: removing a watch that is not present does       *)
(* nothing).                                                               *)
AddedIsPresent ==
  \A w \in Watch : obj[w] # NULL /\ obj[w].inotify = "this" => Present(w)

(* No directory has two paths.                                             *)
PathsApart == \A p, q \in Path : node[p] = node[q] => p = q

(* The tables of the library and its watches stay in agreement through any *)
(* calls, as long as no directory has two paths: SetEnabled() makes no     *)
(* check for a watch that has the directory already                        *)
(* (inotify-cxx.cpp:260-267).                                              *)
TablesAgreeApart == PathsApart => WatchTablesAgree

(* "Returns the count of enabled watches." (inotify-cxx.h:614-626), of the  *)
(* watches that are present                                                *)
EnabledAreCounted ==
  Cardinality({d \in 1..MaxWd : m_watches[d] # NULL})
    = Cardinality({w \in Watch : obj[w] # NULL /\ Present(w) /\ obj[w].enabled})

(* The count is exact as long as no directory has two paths.               *)
EnabledCountIsExact == PathsApart => EnabledAreCounted

(* SetEnabled() can fail for an active watch only, one that was added to an *)
(* Inotify object (inotify-cxx.h:459-461): before Add() it does no harm.    *)
NoWildPointer == fault # "corrupt"

=============================================================================
