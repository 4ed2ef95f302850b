------------------------------ MODULE Inotify ------------------------------
(***************************************************************************)
(* The inotify-cxx library as this repository builds it (no                *)
(* INOTIFY_THREAD_SAFE): one Inotify object, its InotifyWatch objects, and *)
(* the calls that change them.  A call that throws InotifyException leaves *)
(* the state as it is at the throw.                                        *)
(***************************************************************************)
EXTENDS InotifyKernel

CONSTANTS
  Watch,       \* InotifyWatch objects
  NULL,        \* the null pointer
  BufLen       \* events that fit the read buffer, INOTIFY_BUFLEN

VARIABLES
  obj,         \* the InotifyWatch objects that have been constructed
  m_watches,   \* watches by descriptor
  m_paths,     \* watches by path
  m_buf,       \* events read and not yet parsed by WaitForEvents
  m_events,    \* the deque of parsed events
  fault        \* "none", or how the process ended: "abort", "corrupt"

libVars == <<obj, m_watches, m_paths, m_buf, m_events>>

WatchObject ==
  [path    : Path,
   mask    : SUBSET MaskBits,
   wd      : Wd,
   inotify : {"null", "this", "wild"},   \* "wild": never initialised
   enabled : BOOLEAN]

ASSUME LibraryAssumption ==
  /\ NULL \notin Watch \cup WatchObject
  /\ BufLen \in Nat \ {0}

Event ==
       [watch : Watch, type : ListingEvents, name : Name]
  \cup [watch : Watch, type : {"IN_IGNORED"}, name : {NoName}]

LibraryTypeOK ==
  /\ obj \in [Watch -> WatchObject \cup {NULL}]
  /\ m_watches \in [1..MaxWd -> Watch \cup {NULL}]
  /\ m_paths \in [Path -> Watch \cup {NULL}]
  /\ m_buf \in Seq(KernelEvent)
  /\ m_events \in Seq(Event)
  /\ fault \in {"none", "abort", "corrupt"}

LibraryInit ==
  /\ obj = [w \in Watch |-> NULL]
  /\ m_watches = [d \in 1..MaxWd |-> NULL]
  /\ m_paths = [p \in Path |-> NULL]
  /\ m_buf = <<>>
  /\ m_events = <<>>
  /\ fault = "none"

-----------------------------------------------------------------------------
(* InotifyWatch *)

(* Mutant: m_wd starts as a zero. *)
ConstructZero(w, p, m, e) ==
  /\ obj[w] = NULL
  /\ obj' = [obj EXCEPT ![w] = [path |-> p, mask |-> m, wd |-> 0,
                                inotify |-> "null", enabled |-> e]]
  /\ UNCHANGED <<m_watches, m_paths, m_buf, m_events, kern, fault>>

(* new InotifyWatch(p, m, e): m_pInotify keeps whatever the memory held. *)
Construct(w, p, m, e) ==
  /\ obj[w] = NULL
  /\ \E garbage \in {"null", "wild"} :
       obj' = [obj EXCEPT ![w] = [path |-> p, mask |-> m, wd |-> NoWd,
                                  inotify |-> garbage, enabled |-> e]]
  /\ UNCHANGED <<m_watches, m_paths, m_buf, m_events, kern, fault>>

(* Inotify::FindWatch(int) *)
FindWatch(d) == IF d \in 1..MaxWd THEN m_watches[d] ELSE NULL

-----------------------------------------------------------------------------
(* Inotify *)

(* Inotify::Inotify() when inotify_init succeeds *)
Open ==
  /\ kern' = [kern EXCEPT !.open = TRUE]
  /\ UNCHANGED <<libVars, fault>>

(* A closed descriptor, a path already in m_paths, a refusal of the kernel. *)
AddRefused(w) ==
  /\ \/ ~kern.open
     \/ m_paths[obj[w].path] # NULL
     \/ obj[w].enabled /\ AddedWd(kern, obj[w].path) = NoWd
  /\ UNCHANGED <<libVars, kern, fault>>

AddDisabled(w) ==
  /\ kern.open /\ m_paths[obj[w].path] = NULL /\ ~obj[w].enabled
  /\ m_paths' = [m_paths EXCEPT ![obj[w].path] = w]
  /\ obj' = [obj EXCEPT ![w].inotify = "this"]
  /\ UNCHANGED <<m_watches, m_buf, m_events, kern, fault>>

(* Another watch has this directory under another path: its mask is set    *)
(* again and the new watch is turned away.                                 *)
AddCollision(w) ==
  LET d     == AddedWd(kern, obj[w].path)
      other == FindWatch(d)
  IN /\ m_paths[obj[w].path] = NULL /\ obj[w].enabled
     /\ d # NoWd /\ other # NULL
     /\ kern' = Added(Added(kern, obj[w].path, obj[w].mask),
                      obj[other].path, obj[other].mask)
     /\ UNCHANGED <<libVars, fault>>

(* Mutant: the watch is not entered by its descriptor. *)
AddUnindexed(w) ==
  LET d == AddedWd(kern, obj[w].path)
  IN /\ m_paths[obj[w].path] = NULL /\ obj[w].enabled
     /\ d # NoWd /\ FindWatch(d) = NULL
     /\ kern' = Added(kern, obj[w].path, obj[w].mask)
     /\ obj' = [obj EXCEPT ![w].wd = d, ![w].inotify = "this"]
     /\ m_paths' = [m_paths EXCEPT ![obj[w].path] = w]
     /\ UNCHANGED <<m_watches, m_buf, m_events, fault>>

AddEnabled(w) ==
  LET d == AddedWd(kern, obj[w].path)
  IN /\ m_paths[obj[w].path] = NULL /\ obj[w].enabled
     /\ d # NoWd /\ FindWatch(d) = NULL
     /\ kern' = Added(kern, obj[w].path, obj[w].mask)
     /\ obj' = [obj EXCEPT ![w].wd = d, ![w].inotify = "this"]
     /\ m_watches' = [m_watches EXCEPT ![d] = w]
     /\ m_paths' = [m_paths EXCEPT ![obj[w].path] = w]
     /\ UNCHANGED <<m_buf, m_events, fault>>

Add(w) == AddRefused(w) \/ AddDisabled(w) \/ AddCollision(w) \/ AddEnabled(w)

(* Inotify::Remove(): a watch the kernel no longer has cannot be removed.   *)
(* The entry of m_paths goes whichever watch it holds.                     *)
RemoveRefused(w) ==
  /\ ~kern.open \/ (obj[w].wd # NoWd /\ ~IsWatchedWd(kern, obj[w].wd))
  /\ UNCHANGED <<libVars, kern, fault>>

(* Mutant: the watch keeps its Inotify object. *)
RemoveStillOwned(w) ==
  /\ kern.open /\ (obj[w].wd = NoWd \/ IsWatchedWd(kern, obj[w].wd))
  /\ kern' = Removed(kern, obj[w].wd)
  /\ m_watches' = [d \in 1..MaxWd |-> IF d = obj[w].wd THEN NULL ELSE m_watches[d]]
  /\ m_paths' = [m_paths EXCEPT ![obj[w].path] = NULL]
  /\ obj' = [obj EXCEPT ![w].wd = NoWd]
  /\ UNCHANGED <<m_buf, m_events, fault>>

RemoveAccepted(w) ==
  LET d == obj[w].wd
  IN /\ kern.open
     /\ d = NoWd \/ IsWatchedWd(kern, d)
     /\ kern' = Removed(kern, d)
     /\ m_watches' = IF d = NoWd THEN m_watches ELSE [m_watches EXCEPT ![d] = NULL]
     /\ m_paths' = [m_paths EXCEPT ![obj[w].path] = NULL]
     /\ obj' = [obj EXCEPT ![w].wd = NoWd, ![w].inotify = "null"]
     /\ UNCHANGED <<m_buf, m_events, fault>>

RemoveWatch(w) == RemoveRefused(w) \/ RemoveAccepted(w)

(* The watches as RemoveAll() leaves them: it visits those m_paths holds.  *)
Released ==
  [w \in Watch |-> IF w \in Range(m_paths)
                   THEN [obj[w] EXCEPT !.wd = NoWd, !.inotify = "null"]
                   ELSE obj[w]]

Cleared ==
  /\ obj' = Released
  /\ m_watches' = [d \in 1..MaxWd |-> NULL]
  /\ m_paths' = [p \in Path |-> NULL]

(* Inotify::RemoveAll() *)
RemoveAll ==
  /\ \E wds \in SetToSeqs({obj[w].wd : w \in Range(m_paths) \ {NULL}}) :
       kern' = FoldLeft(Removed, kern, wds)
  /\ Cleared
  /\ UNCHANGED <<m_buf, m_events, fault>>

(* Inotify::Close() *)
Close ==
  /\ kern.open
  /\ kern' = Closed(kern)
  /\ Cleared
  /\ UNCHANGED <<m_buf, m_events, fault>>

-----------------------------------------------------------------------------
(* Inotify::WaitForEvents(): the read, then one turn of its loop for every  *)
(* event read                                                              *)

ReadEvents ==
  LET n == IF Len(kern.queue) < BufLen THEN Len(kern.queue) ELSE BufLen
  IN /\ kern.open /\ kern.queue # <<>>
     /\ m_buf' = SubSeq(kern.queue, 1, n)
     /\ kern' = [kern EXCEPT !.queue = SubSeq(@, n + 1, Len(@))]
     /\ UNCHANGED <<obj, m_watches, m_paths, m_events, fault>>

(* Mutant: the dead descriptor keeps its entry. *)
DisableStillIndexed(w) ==
  /\ obj' = [obj EXCEPT ![w].enabled = FALSE, ![w].wd = NoWd]
  /\ UNCHANGED m_watches

(* Mutant: the watch with the dead descriptor stays enabled. *)
DisableStillEnabled(w) ==
  /\ m_watches' = [d \in 1..MaxWd |-> IF d = obj[w].wd THEN NULL ELSE m_watches[d]]
  /\ obj' = [obj EXCEPT ![w].wd = NoWd]

(* InotifyWatch::__Disable() of a watch that is enabled *)
Disable(w) ==
  /\ m_watches' = IF obj[w].inotify # "null" /\ obj[w].wd # NoWd
                  THEN [m_watches EXCEPT ![obj[w].wd] = NULL]
                  ELSE m_watches
  /\ obj' = [obj EXCEPT ![w].enabled = FALSE,
                        ![w].wd = IF obj[w].inotify # "null" THEN NoWd ELSE @]

(* Mutant: IN_IGNORED is taken for an event like any other. *)
LastEventOneShot(w, e) == "IN_ONESHOT" \in obj[w].mask

(* The watch dies with the event e: it was to report one event, or the     *)
(* kernel has dropped it.                                                  *)
LastEvent(w, e) == "IN_ONESHOT" \in obj[w].mask \/ e.type = "IN_IGNORED"

(* __Disable() throws out of WaitForEvents: what is left of m_buf is lost. *)
ParseThrows ==
  LET w == FindWatch(Head(m_buf).wd)
  IN  /\ m_buf # <<>> /\ w # NULL
      /\ LastEvent(w, Head(m_buf)) /\ ~obj[w].enabled

ParseEvent ==
  LET e == Head(m_buf)
      w == FindWatch(e.wd)
  IN /\ m_buf # <<>>
     /\ m_buf' = IF ParseThrows THEN <<>> ELSE Tail(m_buf)
     /\ m_events' = IF w = NULL \/ ParseThrows
                    THEN m_events
                    ELSE Append(m_events,
                           [watch |-> w, type |-> e.type, name |-> e.name])
     /\ IF w # NULL /\ ~ParseThrows /\ LastEvent(w, e)
        THEN Disable(w)
        ELSE UNCHANGED <<obj, m_watches>>
     /\ UNCHANGED <<m_paths, kern, fault>>

(* Inotify::GetEvent() with a queued event *)
GetEvent ==
  /\ m_events # <<>>
  /\ m_events' = Tail(m_events)
  /\ UNCHANGED <<obj, m_watches, m_paths, m_buf, kern, fault>>

-----------------------------------------------------------------------------
(* InotifyWatch::SetEnabled() and SetMask()                                *)

(* Nothing to do, no Inotify object, a refusal of the kernel, or whatever  *)
(* the pointer happens to lead to when it was never set.                   *)
SetEnabledAside(w, on) ==
  /\ UNCHANGED <<m_watches, m_paths, m_buf, m_events, kern>>
  /\ \/ obj[w].enabled = on /\ UNCHANGED <<obj, fault>>
     \/ /\ obj[w].enabled # on /\ obj[w].inotify = "null"
        /\ obj' = [obj EXCEPT ![w].enabled = on]
        /\ UNCHANGED fault
     \/ /\ obj[w].enabled # on /\ obj[w].inotify = "wild"
        /\ fault' \in {"none", "corrupt"}
        /\ UNCHANGED obj
     \/ /\ obj[w].enabled # on /\ obj[w].inotify = "this"
        /\ IF on THEN AddedWd(kern, obj[w].path) = NoWd
                 ELSE ~IsWatchedWd(kern, obj[w].wd)
        /\ UNCHANGED <<obj, fault>>

(* insert() keeps the watch that already has the descriptor *)
Enable(w) ==
  LET d == AddedWd(kern, obj[w].path)
  IN /\ ~obj[w].enabled /\ obj[w].inotify = "this" /\ d # NoWd
     /\ kern' = Added(kern, obj[w].path, obj[w].mask)
     /\ obj' = [obj EXCEPT ![w].wd = d, ![w].enabled = TRUE]
     /\ m_watches' = IF m_watches[d] = NULL THEN [m_watches EXCEPT ![d] = w]
                                            ELSE m_watches
     /\ UNCHANGED <<m_paths, m_buf, m_events, fault>>

SwitchOff(w) ==
  LET d == obj[w].wd
  IN /\ obj[w].enabled /\ obj[w].inotify = "this" /\ IsWatchedWd(kern, d)
     /\ kern' = Removed(kern, d)
     /\ obj' = [obj EXCEPT ![w].wd = NoWd, ![w].enabled = FALSE]
     /\ m_watches' = [m_watches EXCEPT ![d] = NULL]
     /\ UNCHANGED <<m_paths, m_buf, m_events, fault>>

SetEnabled(w, on) ==
  SetEnabledAside(w, on) \/ (on /\ Enable(w)) \/ (~on /\ SwitchOff(w))

(* The kernel is asked again for the path, which may by now be another     *)
(* directory; then the call throws and the kernel keeps what it was told.  *)
SetMask(w, m) ==
  LET live == obj[w].wd # NoWd
      same == AddedWd(kern, obj[w].path) = obj[w].wd
  IN /\ kern' = IF live THEN Added(kern, obj[w].path, m) ELSE kern
     /\ obj' = IF live /\ ~same THEN obj ELSE [obj EXCEPT ![w].mask = m]
     /\ UNCHANGED <<m_watches, m_paths, m_buf, m_events, fault>>

-----------------------------------------------------------------------------
(* Properties *)

(* The two maps and the watch objects tell one story: a watch found by     *)
(* path is for that path; a watch found by descriptor is enabled, carries  *)
(* that descriptor and is found by its path (inotify-cxx.cpp:378-383), so  *)
(* that no event can make __Disable() throw.                               *)
WatchTablesAgree ==
  /\ \A p \in Path : m_paths[p] # NULL =>
       obj[m_paths[p]] # NULL /\ obj[m_paths[p]].path = p
  /\ \A d \in 1..MaxWd : m_watches[d] # NULL =>
       LET o == obj[m_watches[d]]
       IN /\ o # NULL
          /\ o.enabled /\ o.wd = d /\ o.inotify = "this"
          /\ m_paths[o.path] = m_watches[d]
  /\ \A w \in Watch : obj[w] # NULL /\ obj[w].wd # NoWd =>
       m_watches[obj[w].wd] = w

(* Every watch the kernel keeps is one the library can name: no event of a *)
(* live watch is dropped by WaitForEvents for want of an owner             *)
(* (inotify-cxx.cpp:354-376, 456-457).                                     *)
NoOrphanKernelWatch ==
  \A i \in Inode : kern.wd[i] # NoWd => FindWatch(kern.wd[i]) # NULL

(* A watch the library takes for live is live in the kernel, or the news   *)
(* of its end is on the way: it can always be removed or enabled again     *)
(* (inotify-cxx.cpp:402, 459-461).                                         *)
EndOfWatchIsHeard ==
  \A d \in 1..MaxWd : m_watches[d] # NULL =>
    \/ IsWatchedWd(kern, d)
    \/ \E e \in Range(m_buf \o kern.queue) :
         e = Overflow \/ (e.wd = d /\ e.type = "IN_IGNORED")

=============================================================================
