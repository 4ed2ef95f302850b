---------------------------- MODULE PathMonitor ----------------------------
(***************************************************************************)
(* monitor.cpp: the main thread lists the directories of $PATH into m_path *)
(* and starts a thread that keeps those lists up to date from inotify.     *)
(* The main loop reads the lists, without m_mutex, while the user types.   *)
(***************************************************************************)
EXTENDS Inotify

CONSTANTS
  Dirs,          \* $PATH, split
  Absent,        \* no entry in the map m_path
  PipeCap,       \* notifications the dispatcher's pipe holds
  Failures,      \* which of these happen: "opendir", "init", "read", "eintr"
  EarlyChanges,  \* directories may change before every watch is placed
  Stops          \* the owner may call stop() and the destructor

ASSUME MonitorAssumption ==
  /\ Dirs \in Seq(Path) /\ Dirs # <<>>
  /\ Watch = 1..Len(Dirs)
  /\ Absent \notin Seq(Name) /\ NULL \notin Event
  /\ PipeCap \in Nat \ {0}
  /\ Failures \subseteq {"opendir", "init", "read", "eintr"}
  /\ EarlyChanges \in BOOLEAN /\ Stops \in BOOLEAN

VARIABLES
  m_path,        \* the listing of each directory
  m_watchlist,   \* the directories to watch
  m_stop,
  m_mutex,       \* "free" or the thread that holds it
  pc,            \* where the two threads are
  k,             \* update_path's index into Dirs
  i,             \* run's index into m_watchlist
  count,         \* run's count of events to take
  event,         \* run's event
  pipe           \* notifications of sig_changed not yet dispatched

runVars  == <<i, count, event>>
monVars  == <<m_path, m_watchlist, m_stop, m_mutex, k, runVars, pipe>>
vars     == <<kernelVars, libVars, fault, monVars, pc>>

MainPlaces    == {"list", "watch", "start", "idle", "scan",
                  "stop", "destroy", "join", "destroyed"}
MonitorPlaces == {"off", "init", "new", "add", "check", "wait", "parse",
                  "drain", "lock", "mutate", "emit", "exit", "exited"}

TypeOK ==
  /\ KernelTypeOK
  /\ LibraryTypeOK
  /\ m_path \in [Path -> Seq(Name) \cup {Absent}]
  /\ m_watchlist \in Seq(Path)
  /\ m_stop \in BOOLEAN
  /\ m_mutex \in {"free", "monitor"}
  /\ pc \in [main : MainPlaces, monitor : MonitorPlaces]
  /\ k \in 1..Len(Dirs)
  /\ i \in 1..Len(Dirs) + 1
  /\ count \in Nat
  /\ event \in Event \cup {NULL}
  /\ pipe \in 0..PipeCap

Init ==
  /\ KernelInit
  /\ LibraryInit
  /\ m_path = [p \in Path |-> Absent]
  /\ m_watchlist = <<>>
  /\ m_stop = FALSE
  /\ m_mutex = "free"
  /\ pc = [main |-> "list", monitor |-> "off"]
  /\ k = 1
  /\ i = 1
  /\ count = 0
  /\ event = NULL
  /\ pipe = 0

Go(thread, from, to) ==
  /\ pc[thread] = from
  /\ pc' = [pc EXCEPT ![thread] = to]

-----------------------------------------------------------------------------
(* Start-up, in the constructor of Do *)

(* update_directory_listing: Glib::Dir throws for a directory that cannot   *)
(* be opened, and nobody catches.                                           *)
UpdateDirectoryListing(p) ==
  \/ /\ node[p] = NoInode
     /\ UNCHANGED <<m_path, fault>>
  \/ /\ node[p] # NoInode
     /\ m_mutex = "free"
     /\ \E listing \in SetToSeqs(files[node[p]]) :
          m_path' = [m_path EXCEPT ![p] = listing]
     /\ UNCHANGED fault
  \/ /\ node[p] # NoInode /\ "opendir" \in Failures
     /\ fault' = "abort"
     /\ UNCHANGED m_path

ListDirectory ==
  /\ Go("main", "list", "watch")
  /\ UpdateDirectoryListing(Dirs[k])
  /\ UNCHANGED <<kernelVars, libVars, m_watchlist, m_stop, m_mutex, k, runVars, pipe>>

(* monitor_directory, and the loop of update_path *)
MonitorDirectory ==
  /\ Go("main", "watch", IF k < Len(Dirs) THEN "list" ELSE "start")
  /\ m_watchlist' = IF node[Dirs[k]] # NoInode
                    THEN Append(m_watchlist, Dirs[k])
                    ELSE m_watchlist
  /\ k' = IF k < Len(Dirs) THEN k + 1 ELSE k
  /\ UNCHANGED <<kernelVars, libVars, fault, m_path, m_stop, m_mutex, runVars, pipe>>

Start ==
  /\ pc.main = "start"
  /\ pc' = [main |-> "idle", monitor |-> "init"]
  /\ UNCHANGED <<kernelVars, libVars, fault, monVars>>

-----------------------------------------------------------------------------
(* The main loop *)

(* A notification of sig_changed is read from the pipe; it has no slot. *)
DispatchChanged ==
  /\ fault = "none" /\ pc.main = "idle" /\ pipe > 0
  /\ pipe' = pipe - 1
  /\ UNCHANGED <<kernelVars, libVars, fault, m_path, m_watchlist, m_stop,
                 m_mutex, k, runVars, pc>>

(* on_entry_changed_event walks m_path *)
BeginScan ==
  /\ Go("main", "idle", "scan")
  /\ UNCHANGED <<kernelVars, libVars, fault, monVars>>

EndScan ==
  /\ Go("main", "scan", "idle")
  /\ UNCHANGED <<kernelVars, libVars, fault, monVars>>

CallStop ==
  /\ Stops
  /\ Go("main", "idle", "stop") \/ Go("main", "idle", "destroy")
  /\ UNCHANGED <<kernelVars, libVars, fault, monVars>>

(* stop(), and the first half of the destructor *)
SetStop ==
  /\ m_mutex = "free"
  /\ m_stop' = TRUE
  /\ Go("main", "stop", "idle") \/ Go("main", "destroy", "join")
  /\ UNCHANGED <<kernelVars, libVars, fault, m_path, m_watchlist, m_mutex, k,
                 runVars, pipe>>

Join ==
  /\ pc.monitor = "exited"
  /\ Go("main", "join", "destroyed")
  /\ UNCHANGED <<kernelVars, libVars, fault, monVars>>

-----------------------------------------------------------------------------
(* PathMonitor::run() *)

(* Inotify notify; outside the try: a failure ends the process *)
OpenInotify ==
  /\ Go("monitor", "init", "new")
  /\ \/ Open
     \/ /\ "init" \in Failures
        /\ fault' = "abort"
        /\ UNCHANGED <<libVars, kern>>
  /\ UNCHANGED <<node, files, ops, monVars>>

(* SetEnabled(true) returns at once: the constructor has enabled the watch. *)
NewWatch ==
  /\ i <= Len(m_watchlist)
  /\ Go("monitor", "new", "add")
  /\ Construct(i, m_watchlist[i], ListingEvents, TRUE)
  /\ UNCHANGED <<node, files, ops, monVars>>

(* notify.Add(watch): an exception is caught and forgotten *)
AddWatch ==
  /\ Go("monitor", "add", "new")
  /\ Add(i)
  /\ i' = i + 1
  /\ UNCHANGED <<node, files, ops, m_path, m_watchlist, m_stop, m_mutex, k,
                 count, event, pipe>>

WatchesPlaced ==
  /\ i > Len(m_watchlist)
  /\ Go("monitor", "new", "check")
  /\ UNCHANGED <<kernelVars, libVars, fault, monVars>>

(* Mutant: m_stop is not looked at again. *)
CheckStopNever ==
  /\ m_mutex = "free"
  /\ Go("monitor", "check", "wait")
  /\ UNCHANGED <<kernelVars, libVars, fault, monVars>>

CheckStop ==
  /\ m_mutex = "free"
  /\ Go("monitor", "check", IF m_stop THEN "exit" ELSE "wait")
  /\ UNCHANGED <<kernelVars, libVars, fault, monVars>>

WaitForEvents ==
  /\ Go("monitor", "wait", "parse")
  /\ ReadEvents
  /\ UNCHANGED <<node, files, ops, monVars>>

(* A signal ends a read that has nothing to return: WaitForEvents() is not  *)
(* asked to try again, and returns.                                         *)
Interrupted ==
  /\ "eintr" \in Failures /\ kern.queue = <<>>
  /\ Go("monitor", "wait", "parse")
  /\ UNCHANGED <<kernelVars, libVars, fault, monVars>>

(* read() fails: the exception leaves the loop, the thread ends *)
ReadFails ==
  /\ "read" \in Failures
  /\ Go("monitor", "wait", "exit")
  /\ UNCHANGED <<kernelVars, libVars, fault, monVars>>

ParseOne ==
  /\ Go("monitor", "parse", IF ParseThrows THEN "exit" ELSE "parse")
  /\ ParseEvent
  /\ UNCHANGED <<node, files, ops, monVars>>

(* Mutant: one event is taken for each read. *)
CountOne ==
  /\ m_buf = <<>>
  /\ Go("monitor", "parse", "drain")
  /\ count' = IF m_events = <<>> THEN 0 ELSE 1
  /\ UNCHANGED <<kernelVars, libVars, fault, m_path, m_watchlist, m_stop,
                 m_mutex, k, i, event, pipe>>

CountEvents ==
  /\ m_buf = <<>>
  /\ Go("monitor", "parse", "drain")
  /\ count' = Len(m_events)
  /\ UNCHANGED <<kernelVars, libVars, fault, m_path, m_watchlist, m_stop,
                 m_mutex, k, i, event, pipe>>

(* Mutant: the newest event is taken first. *)
TakeNewest ==
  /\ count > 0 /\ m_events # <<>>
  /\ Go("monitor", "drain", "lock")
  /\ event' = Last(m_events)
  /\ m_events' = Front(m_events)
  /\ UNCHANGED <<obj, m_watches, m_paths, m_buf, kern, fault, count, node, files,
                 ops, m_path, m_watchlist, m_stop, m_mutex, k, i, pipe>>

TakeEvent ==
  /\ count > 0
  /\ IF m_events # <<>>
     THEN /\ Go("monitor", "drain", "lock")
          /\ GetEvent
          /\ event' = Head(m_events)
          /\ UNCHANGED count
     ELSE /\ Go("monitor", "drain", "drain")
          /\ count' = count - 1
          /\ UNCHANGED <<libVars, kern, fault, event>>
  /\ UNCHANGED <<node, files, ops, m_path, m_watchlist, m_stop, m_mutex, k, i, pipe>>

Drained ==
  /\ count = 0
  /\ Go("monitor", "drain", "check")
  /\ UNCHANGED <<kernelVars, libVars, fault, monVars>>

LockPath ==
  /\ m_mutex = "free"
  /\ Go("monitor", "lock", "mutate")
  /\ m_mutex' = "monitor"
  /\ UNCHANGED <<kernelVars, libVars, fault, m_path, m_watchlist, m_stop, k,
                 runVars, pipe>>

(* Mutant: a file moved into the directory is no arrival. *)
ArrivalsCreated == {"IN_CREATE"}

Arrivals   == {"IN_CREATE", "IN_MOVED_TO"}
Departures == {"IN_DELETE", "IN_MOVED_FROM"}

(* v.erase(++find(v.begin(), v.end(), n)) for a v with entries: what        *)
(* follows the first n goes; past the end, libstdc++ drops the last entry.  *)
Erased(v, n) ==
  LET found == {x \in 1..(Len(v) - 1) : v[x] = n}
  IN  IF found = {} THEN Front(v) ELSE RemoveAt(v, Min(found) + 1)

(* Mutant: the event is applied to the first directory of the list. *)
MutateFirst ==
  LET p == m_watchlist[1]
      v == IF m_path[p] = Absent THEN <<>> ELSE m_path[p]
  IN /\ Go("monitor", "mutate", "emit")
     /\ m_path' = IF event.type \in Arrivals
                  THEN [m_path EXCEPT ![p] = Append(v, event.name)]
                  ELSE m_path
     /\ UNCHANGED <<kernelVars, libVars, fault, m_watchlist, m_stop, m_mutex, k,
                    runVars, pipe>>

(* m_path[directory] of a directory that was never listed is a new, empty   *)
(* vector; erasing from an empty vector corrupts the heap, and the main     *)
(* loop may be reading the vector.                                          *)
Mutate ==
  LET p == obj[event.watch].path
      v == IF m_path[p] = Absent THEN <<>> ELSE m_path[p]
  IN /\ Go("monitor", "mutate", "emit")
     /\ m_path' =
          CASE event.type \in Arrivals ->
                 [m_path EXCEPT ![p] = Append(v, event.name)]
            [] event.type \in Departures /\ v # <<>> ->
                 [m_path EXCEPT ![p] = Erased(v, event.name)]
            [] OTHER -> m_path
     /\ fault' \in
          IF event.type \in Departures /\ v = <<>> THEN {"corrupt"}
          ELSE IF pc.main = "scan" /\ m_path' # m_path THEN {"none", "corrupt"}
          ELSE {"none"}
     /\ UNCHANGED <<kernelVars, libVars, m_watchlist, m_stop, m_mutex, k,
                    runVars, pipe>>

(* Mutant: m_mutex stays locked. *)
EmitHoldingMutex ==
  /\ pipe < PipeCap
  /\ Go("monitor", "emit", "drain")
  /\ pipe' = pipe + 1
  /\ count' = count - 1
  /\ event' = NULL
  /\ UNCHANGED <<kernelVars, libVars, fault, m_path, m_watchlist, m_stop, m_mutex, k, i>>

(* sig_changed() writes to the pipe with m_mutex held *)
Emit ==
  /\ pipe < PipeCap
  /\ Go("monitor", "emit", "drain")
  /\ pipe' = pipe + 1
  /\ m_mutex' = "free"
  /\ count' = count - 1
  /\ event' = NULL
  /\ UNCHANGED <<kernelVars, libVars, fault, m_path, m_watchlist, m_stop, k, i>>

(* ~Inotify() *)
Leave ==
  /\ Go("monitor", "exit", "exited")
  /\ Close
  /\ UNCHANGED <<node, files, ops, monVars>>

-----------------------------------------------------------------------------
Startup == fault = "none" /\ (ListDirectory \/ MonitorDirectory \/ Start)

Owner == fault = "none" /\ (EndScan \/ SetStop \/ Join)

User == fault = "none" /\ (BeginScan \/ CallStop)

Run ==
  /\ fault = "none"
  /\ \/ OpenInotify \/ NewWatch \/ AddWatch \/ WatchesPlaced
     \/ CheckStop \/ WaitForEvents \/ ParseOne \/ CountEvents
     \/ TakeEvent \/ Drained \/ LockPath \/ Mutate \/ Emit \/ Leave

Mishap == fault = "none" /\ (Interrupted \/ ReadFails)

Watching == pc.monitor \notin {"off", "init", "new", "add"}

Environment ==
  /\ fault = "none"
  /\ EarlyChanges \/ Watching
  /\ FileSystem
  /\ UNCHANGED <<libVars, fault, monVars, pc>>

Next ==
  \/ Startup \/ Owner \/ User \/ DispatchChanged
  \/ Run \/ Mishap
  \/ Environment

(* Both threads are scheduled; the main loop serves every ready source of   *)
(* equal priority before it polls again.  Directories, signals, failures    *)
(* and the user are under no obligation.                                    *)
Fairness == WF_vars(Startup) /\ WF_vars(Owner) /\ WF_vars(Run) /\ SF_vars(DispatchChanged)

Spec == Init /\ [][Next]_vars /\ Fairness

-----------------------------------------------------------------------------
(* Properties *)

(* No event waits inside the process for the next change of a directory:   *)
(* when the thread blocks in read (monitor.cpp:87), every event of earlier *)
(* reads has been applied and announced.                                   *)
NoEventStranded ==
  pc.monitor = "wait" => m_buf = <<>> /\ m_events = <<>> /\ event = NULL

(* count, taken before the loop (monitor.cpp:88), stays the number of      *)
(* events still to be taken, so that the loop neither stops early nor      *)
(* takes an event that is not there.                                       *)
CountIsExact ==
  /\ pc.monitor = "drain" => count = Len(m_events)
  /\ pc.monitor \in {"lock", "mutate", "emit"} => count = Len(m_events) + 1

(* The thread has nothing left to do. *)
Quiet == pc.monitor = "wait" /\ kern.queue = <<>>

(* The thread is over, or the process. *)
Over == pc.monitor \in {"exit", "exited"} \/ fault # "none"

(* Once the events are handled, the listing of a directory in m_path is    *)
(* the directory (CHANGELOG:3, monitor.h:5-6).                             *)
ListingMatchesDirectory ==
  Quiet => \A p \in Path :
             m_path[p] # Absent /\ node[p] # NoInode
               => Range(m_path[p]) = files[node[p]]

(* The program keeps running in the background (tudor-do.cpp:6): nothing   *)
(* the thread does to m_path, which the main loop walks without m_mutex    *)
(* (tudor-do.cpp:232-238), breaks it.                                      *)
RunsInBackground == fault # "corrupt"

(* What the kernel reports is handled while thread and process last.       *)
EventsDrain == []<>(Quiet \/ Over)

(* The thread blocks on the dispatcher's full pipe with the mutex locked,  *)
(* while the reader of the pipe waits for the mutex or for the thread.     *)
Deadlocked ==
  pc.monitor = "emit" /\ pipe = PipeCap /\ pc.main \in {"stop", "destroy", "join"}

(* Once stop() has been called, the next event ends the thread, unless it  *)
(* and the caller wait for each other                                      *)
(* (monitor.cpp:22-30, 62-66, 81-87, 111).                                 *)
StopTakesEffect ==
  m_stop /\ pc.monitor = "wait" /\ ~Quiet ~> Over \/ Deadlocked

(* A caller of stop() or of the destructor waits for ever only in that     *)
(* deadlock, or for a thread blocked in an empty read                      *)
(* (monitor.cpp:22-30, 62-66, 111).                                        *)
CallReturns ==
  pc.main \in {"stop", "destroy", "join"} ~>
     \/ pc.main \in {"idle", "destroyed"} \/ fault # "none"
     \/ Deadlocked
     \/ pc.main = "join" /\ Quiet

=============================================================================
