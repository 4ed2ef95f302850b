--------------------------- MODULE HistoryProofs ---------------------------
(***************************************************************************)
(* The path monitor over time. Two properties that remember something:     *)
(* what was read after stop(), and the names a directory has had. And the  *)
(* listing feed that it is where programs only add files: for every $PATH, *)
(* every file system, every failure and every stop().                      *)
(***************************************************************************)
EXTENDS MCMonitorHistory, PathMonitorFeed, PathMonitorProofs

(* The history variables only watch: a behaviour with them keeps what a    *)
(* behaviour without them keeps.                                           *)
LEMMA HistoryKeeps ==
  /\ HInit => MonitorInv
  /\ MonitorInv /\ [HNext]_hvars => MonitorInv'
<1>1. HInit => Init
  BY DEF HInit
<1>2. [HNext]_hvars => [Next]_vars
  BY DEF HNext, hvars
<1> QED BY <1>1, <1>2, InitHolds, StepKeeps

-----------------------------------------------------------------------------
(* Reads after stop() *)

(* Where the thread is when it has read since m_stop was set, and until it *)
(* looks at m_stop again.                                                  *)
LastRound == {"parse", "drain", "lock", "mutate", "emit", "check", "exit", "exited"}

LateInv ==
  /\ late \in {0, 1}
  /\ late = 1 => m_stop /\ pc.monitor \in LastRound

(* From its last round the thread does not come back to read. *)
LEMMA LastRoundLasts ==
  ASSUME MonitorInv, Next, m_stop, pc.monitor \in LastRound
  PROVE  m_stop' /\ pc'.monitor \in LastRound
<1>1. pc \in PcType
  BY DEF MonitorInv, TypeOK, PcType
<1> USE <1>1 DEF LastRound
<1>2. CASE Startup
  <2>1. pc.main \notin {"list", "watch", "start"}
    BY DEF MonitorInv, StartUpInStep
  <2> QED BY <1>2, <2>1 DEF Startup, ListDirectory, MonitorDirectory, Start, Go
<1>3. CASE Owner \/ User
  BY <1>3 DEF Owner, User, EndScan, SetStop, Join, BeginScan, CallStop, Go, monVars, PcType
<1>4. CASE DispatchChanged \/ Environment
  BY <1>4 DEF DispatchChanged, Environment, monVars
<1>5. CASE OpenInotify \/ NewWatch \/ AddWatch \/ WatchesPlaced \/ WaitForEvents \/ Mishap
  BY <1>5 DEF OpenInotify, NewWatch, AddWatch, WatchesPlaced, WaitForEvents, Mishap,
              Interrupted, ReadFails, Go
<1>6. CASE CheckStop \/ ParseOne \/ CountEvents \/ Drained \/ LockPath \/ Mutate \/ Emit \/ Leave
  BY <1>6 DEF CheckStop, ParseOne, CountEvents, Drained, LockPath, Mutate, Emit, Leave,
              Go, monVars, PcType
<1>7. CASE TakeEvent
  BY <1>7 DEF TakeEvent, Go, PcType
<1> QED BY <1>2, <1>3, <1>4, <1>5, <1>6, <1>7 DEF Next, Run

(* The thread that waits in read is in its last round when it comes back. *)
LEMMA ReadIsNotStop ==
  ASSUME Next, pc.monitor = "wait", pc'.monitor = "parse", m_stop
  PROVE  m_stop'
<1>1. \/ Startup \/ Owner \/ User \/ DispatchChanged \/ Environment
      \/ Run \/ Mishap
  BY DEF Next
<1> QED
  BY <1>1 DEF Startup, ListDirectory, MonitorDirectory, Start, Owner, EndScan, SetStop, Join,
     User, BeginScan, CallStop, DispatchChanged, Environment, Run, Mishap, Interrupted,
     ReadFails, OpenInotify, NewWatch, AddWatch, WatchesPlaced, CheckStop, WaitForEvents,
     ParseOne, CountEvents, TakeEvent, Drained, LockPath, Mutate, Emit, Leave, monVars

(* After stop() has set m_stop the thread comes back from read at most     *)
(* once, for every $PATH, every file system and every failure: it looks at *)
(* m_stop before each read (monitor.cpp:82-87).                            *)
THEOREM OneMoreRead == HSpec => []OneReadAfterStop
<1>1. HInit => LateInv
  BY DEF HInit, LateInv
<1>2. MonitorInv /\ LateInv /\ [HNext]_hvars => LateInv'
  <2> SUFFICES ASSUME MonitorInv, LateInv, [HNext]_hvars PROVE LateInv'
    OBVIOUS
  <2>1. CASE UNCHANGED hvars
    BY <2>1 DEF LateInv, hvars, vars, monVars
  <2>2. CASE HNext /\ m_stop /\ pc.monitor = "wait" /\ pc'.monitor = "parse"
    <3>1. late = 0 /\ late' = 1
      BY <2>2 DEF LateInv, HNext, LastRound
    <3>2. m_stop'
      BY <2>2, ReadIsNotStop DEF HNext
    <3> QED BY <2>2, <3>1, <3>2 DEF LateInv, LastRound
  <2>3. CASE HNext /\ ~(m_stop /\ pc.monitor = "wait" /\ pc'.monitor = "parse")
    <3>1. late' = late /\ Next
      BY <2>3 DEF HNext
    <3> QED BY <3>1, LastRoundLasts DEF LateInv
  <2> QED BY <2>1, <2>2, <2>3
<1>3. LateInv => OneReadAfterStop
  BY DEF LateInv, OneReadAfterStop
<1> QED BY <1>1, <1>2, <1>3, HistoryKeeps, PTL DEF HSpec

-----------------------------------------------------------------------------
(* The names of a directory *)

(* An event of the kernel is true if it names a descriptor that has been   *)
(* handed out, and an arrival is of a name the directory of its watch has  *)
(* had; so is an event of the library.                                     *)
TrueEvent ==
  {e \in KernelEvent :
     /\ e.wd < kern.next
     /\ e.type \in Arrivals /\ FindWatch(e.wd) # NULL =>
          e.name \in ever[obj[FindWatch(e.wd)].path]}

TrueNews ==
  {e \in Event :
     obj[e.watch] # NULL /\ (e.type \in Arrivals => e.name \in ever[obj[e.watch].path])}

(* A watch found by the descriptor of a directory is for a path that names *)
(* this directory.                                                         *)
WatchInPlace ==
  \A d \in 1..MaxWd, j \in Inode :
    m_watches[d] # NULL /\ kern.wd[j] = d => node[obj[m_watches[d]].path] = j

EverInv ==
  /\ ever \in [Path -> SUBSET Name]
  /\ \A p \in Path : Present[p] \subseteq ever[p]
  /\ WatchInPlace
  /\ kern.queue \in Seq(TrueEvent) /\ m_buf \in Seq(TrueEvent)
  /\ m_events \in Seq(TrueNews)
  /\ event \in TrueNews \cup {NULL}
  /\ \A p \in Path : m_path[p] \in Seq(ever[p]) \cup {Absent}

(* What no step takes back: a watch object keeps its path, a descriptor    *)
(* that has been handed out gets no new owner, a name that was there was.  *)
Grows ==
  /\ PathsKept
  /\ kern.next <= kern'.next
  /\ \A d \in 1..MaxWd :
       d < kern.next /\ m_watches'[d] # NULL => m_watches'[d] = m_watches[d]
  /\ \A p \in Path : ever[p] \subseteq ever'[p]

LEMMA TruthLasts ==
  ASSUME TypeOK, TypeOK', WatchTablesAgree, EverInv, Grows
  PROVE  TrueEvent \subseteq TrueEvent' /\ TrueNews \subseteq TrueNews'
<1>1. /\ \A w \in Watch : obj[w] # NULL => obj[w].path \in Path
      /\ \A d \in 1..MaxWd : m_watches[d] # NULL => m_watches[d] \in Watch
  BY DEF TypeOK, LibraryTypeOK, WatchObject
<1>2. kern.next \in Nat /\ kern'.next \in Nat
  BY KernelFields
<1>3. ASSUME NEW e \in TrueEvent
      PROVE  e \in TrueEvent'
  <2>1. e \in KernelEvent /\ e.wd < kern.next /\ e.wd \in Wd
    BY WdType DEF TrueEvent, KernelEvent, Overflow
  <2>2. e.wd < kern'.next
    BY <1>2, <2>1 DEF Grows, Wd, NoWd
  <2>3. ASSUME e.type \in Arrivals, FindWatch(e.wd)' # NULL
        PROVE  e.name \in ever'[obj'[FindWatch(e.wd)'].path]
    <3> DEFINE w == FindWatch(e.wd)'
    <3>1. e.wd \in 1..MaxWd /\ w = m_watches'[e.wd]
      BY <2>3 DEF FindWatch
    <3>2. w = m_watches[e.wd] /\ FindWatch(e.wd) = w /\ w \in Watch /\ w # NULL
      BY <1>1, <2>1, <2>3, <3>1 DEF Grows, FindWatch
    <3>3. obj[w] # NULL
      BY <3>1, <3>2 DEF WatchTablesAgree
    <3> QED BY <1>1, <2>3, <3>2, <3>3 DEF Grows, PathsKept, TrueEvent
  <2> QED BY <2>1, <2>2, <2>3 DEF TrueEvent
<1>4. ASSUME NEW e \in TrueNews
      PROVE  e \in TrueNews'
  <2>1. e.watch \in Watch
    BY DEF TrueNews, Event
  <2> QED BY <1>1, <2>1 DEF TrueNews, Grows, PathsKept
<1> QED BY <1>3, <1>4

EverGrows ==
  /\ ever' \in [Path -> SUBSET Name]
  /\ \A p \in Path : ever[p] \subseteq ever'[p] /\ Present'[p] \subseteq ever'[p]

LEMMA HistoryGrows ==
  ASSUME TypeOK', EverInv, HNext
  PROVE  EverGrows
<1>1. \A p \in Path : Present'[p] \in SUBSET Name
  BY DEF Present, TypeOK, KernelTypeOK
<1>2. ever' = [p \in Path |-> ever[p] \cup Present'[p]]
  BY DEF HNext
<1> QED BY <1>1, <1>2 DEF EverGrows, EverInv

-----------------------------------------------------------------------------
(* What each step does to the watches                                      *)

LEMMA TablesSame ==
  ASSUME TypeOK, EverInv, EverGrows, UNCHANGED <<obj, m_watches, node>>,
         kern'.wd = kern.wd, kern.next <= kern'.next
  PROVE  Grows /\ WatchInPlace'
BY DEF EverInv, EverGrows, Grows, PathsKept, WatchInPlace

LEMMA FoundWatches ==
  ASSUME TypeOK, WatchTablesAgree
  PROVE  \A c \in 1..MaxWd : m_watches[c] # NULL =>
           m_watches[c] \in Watch /\ obj[m_watches[c]] # NULL
<1>1. \A c \in 1..MaxWd : m_watches[c] # NULL => obj[m_watches[c]] # NULL
  BY DEF WatchTablesAgree
<1> QED BY <1>1 DEF TypeOK, LibraryTypeOK

LEMMA TablesConstruct ==
  ASSUME TypeOK, WatchTablesAgree, EverInv, EverGrows, UNCHANGED node,
         NEW w \in Watch, NEW p \in Path, Construct(w, p, ListingEvents, TRUE)
  PROVE  Grows /\ WatchInPlace'
<1>1. obj[w] = NULL /\ UNCHANGED <<m_watches, kern>>
      /\ \A v \in Watch \ {w} : obj'[v] = obj[v]
  BY DEF Construct, TypeOK, LibraryTypeOK
<1>2. kern.next \in Nat /\ kern'.next = kern.next
  BY <1>1, KernelFields
<1>3. Grows
  BY <1>1, <1>2 DEF Grows, PathsKept, EverGrows
<1>4. \A d \in 1..MaxWd : m_watches[d] # NULL => m_watches[d] \in Watch \ {w}
  BY <1>1, FoundWatches
<1>5. WatchInPlace'
  BY <1>1, <1>4 DEF EverInv, WatchInPlace
<1> QED BY <1>3, <1>5

LEMMA TablesAdd ==
  ASSUME TypeOK, WatchTablesAgree, NameInv, EverInv, EverGrows, UNCHANGED node,
         NEW w \in Watch, obj[w] # NULL, Add(w)
  PROVE  Grows /\ WatchInPlace' /\ kern'.queue = kern.queue
<1> DEFINE p == obj[w].path
           d == AddedWd(kern, p)
<1>1. /\ KernelTypeOK /\ kern \in KernelType /\ p \in Path /\ obj[w] \in WatchObject
      /\ obj[w].mask = ListingEvents /\ WdsApart(kern)
      /\ kern.next \in Nat /\ kern.wd \in [Inode -> Wd]
  <2>1. KernelTypeOK /\ p \in Path /\ obj[w] \in WatchObject
    BY DEF TypeOK, LibraryTypeOK, WatchObject
  <2> QED BY <2>1, KernelFields DEF NameInv
<1>2. PathsKept
  BY <1>1, AddKeepsPaths DEF CallTypeOK, TypeOK
<1>3. CASE AddRefused(w)
  <2>1. UNCHANGED <<obj, m_watches, node, kern>>
    BY <1>3 DEF AddRefused, libVars
  <2> QED BY <1>1, <2>1, TablesSame
<1>4. CASE AddDisabled(w)
  <2>1. UNCHANGED <<kern, m_watches>>
    BY <1>4 DEF AddDisabled
  <2>2. Grows
    BY <1>1, <1>2, <2>1 DEF Grows, EverGrows
  <2>3. WatchInPlace'
    BY <1>2, <2>1, FoundWatches DEF EverInv, WatchInPlace, PathsKept
  <2> QED BY <2>1, <2>2, <2>3
<1>5. CASE AddCollision(w)
  <2>1. UNCHANGED <<obj, m_watches, node>>
    BY <1>5 DEF AddCollision, libVars
  <2> QED BY <1>5, <2>1, CollisionApart, TablesSame
<1>6. CASE AddEnabled(w)
  <2> DEFINE L == Added(kern, p, ListingEvents)
  <2>1. /\ d # NoWd /\ FindWatch(d) = NULL /\ kern' = L
        /\ obj' = [obj EXCEPT ![w].wd = d, ![w].inotify = "this"]
        /\ m_watches' = [m_watches EXCEPT ![d] = w]
    BY <1>1, <1>6 DEF AddEnabled
  <2>2. /\ L.wd = [kern.wd EXCEPT ![node[p]] = d] /\ L.queue = kern.queue
        /\ kern.next <= L.next
        /\ d = kern.wd[node[p]] \/ d = kern.next
        /\ d \in 1..MaxWd /\ node[p] \in Inode
    BY <1>1, <2>1, AddedApart
  <2> HIDE DEF L
  <2>3. \A v \in Watch : obj[v] # NULL => obj'[v].path = obj[v].path
    BY <1>2 DEF PathsKept
  <2> HIDE DEF d
  <2>4. \A c \in 1..MaxWd : m_watches'[c] = IF c = d THEN w ELSE m_watches[c]
    BY <2>1, <2>2 DEF TypeOK, LibraryTypeOK
  <2>5. d = kern.next
    BY <2>1, <2>2 DEF NameInv, NoOrphanKernelWatch
  <2>6. Grows
    <3>1. \A c \in 1..MaxWd : c < kern.next => c # d
      BY <1>1, <2>5
    <3>2. kern.next <= kern'.next
      BY <2>1, <2>2
    <3> QED BY <1>2, <2>4, <3>1, <3>2 DEF Grows, EverGrows
  <2>7. \A j \in Inode : kern'.wd[j] = IF j = node[p] THEN d ELSE kern.wd[j]
    BY <1>1, <2>1, <2>2
  <2>8. \A j \in Inode : kern.wd[j] # d
    BY <1>1, <2>5 DEF WdsApart, Wd, NoWd
  <2>9. WatchInPlace'
    <3> SUFFICES ASSUME NEW c \in 1..MaxWd, NEW j \in Inode,
                        m_watches'[c] # NULL, kern'.wd[j] = c
                 PROVE  node[obj'[m_watches'[c]].path] = j
      BY DEF WatchInPlace
    <3>1. CASE c = d
      BY <2>3, <2>4, <2>7, <2>8, <3>1
    <3>2. CASE c # d
      <4>1. m_watches[c] # NULL /\ m_watches'[c] = m_watches[c] /\ m_watches[c] \in Watch
            /\ obj[m_watches[c]] # NULL
        BY <2>4, <3>2, FoundWatches
      <4>2. kern.wd[j] = c
        BY <2>7, <3>2
      <4> QED BY <2>3, <4>1, <4>2 DEF EverInv, WatchInPlace
    <3> QED BY <3>1, <3>2
  <2> QED BY <2>1, <2>2, <2>6, <2>9
<1> QED BY <1>3, <1>4, <1>5, <1>6 DEF Add

LEMMA TablesParse ==
  ASSUME TypeOK, WatchTablesAgree, EverInv, EverGrows, UNCHANGED node, ParseEvent
  PROVE  Grows /\ WatchInPlace'
<1> DEFINE e == Head(m_buf)
           w == FindWatch(e.wd)
<1>1. UNCHANGED kern /\ kern.next \in Nat
  BY KernelFields DEF ParseEvent
<1>2. CASE ~(w # NULL /\ ~ParseThrows /\ LastEvent(w, e))
  <2>1. UNCHANGED <<obj, m_watches>>
    BY <1>2 DEF ParseEvent
  <2> QED BY <1>1, <2>1, TablesSame
<1>3. CASE w # NULL /\ ~ParseThrows /\ LastEvent(w, e)
  <2>1. /\ e.wd \in 1..MaxWd /\ w = m_watches[e.wd] /\ w \in Watch
        /\ obj[w] # NULL /\ obj[w].wd = e.wd /\ obj[w].inotify = "this"
    BY <1>3 DEF FindWatch, WatchTablesAgree, TypeOK, LibraryTypeOK
  <2>2. m_watches' = [m_watches EXCEPT ![e.wd] = NULL]
    <3>1. obj[w].inotify # "null" /\ obj[w].wd # NoWd
      BY <2>1 DEF NoWd
    <3>2. Disable(w)
      BY <1>3 DEF ParseEvent
    <3> QED BY <2>1, <3>1, <3>2 DEF Disable
  <2>3. PathsKept
    BY ParseKeepsPaths, AgreeConstructed DEF TypeOK, CallTypeOK, KernelTypeOK
  <2> HIDE DEF w, e
  <2>4. \A c \in 1..MaxWd : m_watches'[c] # NULL => m_watches'[c] = m_watches[c]
    BY <2>1, <2>2 DEF TypeOK, LibraryTypeOK
  <2>5. Grows
    BY <1>1, <2>3, <2>4 DEF Grows, EverGrows
  <2>6. WatchInPlace'
    BY <1>1, <2>3, <2>4, FoundWatches DEF EverInv, WatchInPlace, PathsKept
  <2> QED BY <2>5, <2>6
<1> QED BY <1>2, <1>3

LEMMA TablesClose ==
  ASSUME TypeOK, WatchTablesAgree, EverInv, EverGrows, Close
  PROVE  Grows /\ WatchInPlace'
<1>1. kern' = Closed(kern) /\ m_watches' = [d \in 1..MaxWd |-> NULL]
  BY DEF Close, Cleared
<1>2. kern.next \in Nat /\ kern'.next = kern.next
  BY <1>1, KernelFields DEF Closed, KernelType
<1>3. PathsKept
  BY CloseKeepsPaths DEF TypeOK, CallTypeOK, KernelTypeOK
<1>4. Grows
  BY <1>1, <1>2, <1>3 DEF Grows, EverGrows
<1>5. WatchInPlace'
  BY <1>1 DEF WatchInPlace
<1> QED BY <1>4, <1>5

LEMMA TablesFileSystem ==
  ASSUME TypeOK, TypeOK', WatchTablesAgree, NameInv, EverInv, EverGrows,
         FileSystem, "retarget" \notin FsOps, UNCHANGED libVars
  PROVE  Grows /\ WatchInPlace'
<1>1. /\ kern \in KernelType /\ kern.wd \in [Inode -> Wd] /\ kern.next \in Nat
      /\ WdsApart(kern) /\ Ends(kern, kern.queue) /\ UNCHANGED <<obj, m_watches>>
  BY KernelFields DEF NameInv, libVars
<1>2. ASSUME NEW j \in Inode, NEW n \in Name,
             Create(j, n) \/ Delete(j, n) \/ MoveIn(j, n) \/ MoveOut(j, n)
      PROVE  Grows /\ WatchInPlace'
  <2>1. UNCHANGED node /\ \E t \in ListingEvents : kern' = Emitted(kern, j, t, n)
    BY <1>2 DEF Create, Delete, MoveIn, MoveOut, ListingEvents
  <2>2. kern'.wd = kern.wd /\ kern.next <= kern'.next
    BY <1>1, <2>1, EmittedEnds DEF SameWatches
  <2> QED BY <1>1, <2>1, <2>2, TablesSame
<1>3. ASSUME NEW j \in Inode, NEW a \in Name, NEW b \in Name, Rename(j, a, b)
      PROVE  Grows /\ WatchInPlace'
  <2> DEFINE K == Emitted(kern, j, "IN_MOVED_FROM", a)
  <2>1. UNCHANGED node /\ kern' = Emitted(K, j, "IN_MOVED_TO", b)
        /\ {"IN_MOVED_FROM", "IN_MOVED_TO"} \subseteq ListingEvents
    BY <1>3 DEF Rename, ListingEvents
  <2>2. K \in KernelType /\ SameWatches(K, kern) /\ Ends(kern, K.queue)
    BY <1>1, <2>1, EmittedEnds, EmittedType
  <2> HIDE DEF K
  <2>3. WdsApart(K) /\ Ends(K, K.queue)
    BY <1>1, <2>2 DEF WdsApart, Ends, Gone, SameWatches
  <2>4. SameWatches(kern', K)
    BY <2>1, <2>2, <2>3, EmittedEnds
  <2>5. kern'.wd = kern.wd /\ kern.next <= kern'.next
    BY <1>1, <2>2, <2>4 DEF SameWatches
  <2> QED BY <1>1, <2>1, <2>5, TablesSame
<1>4. ASSUME NEW j \in Inode, RemoveDir(j)
      PROVE  Grows /\ WatchInPlace'
  <2>1. \A q \in Path : node'[q] = IF node[q] = j THEN NoInode ELSE node[q]
    BY <1>4 DEF RemoveDir
  <2>2. kern'.next = kern.next /\ \A l \in Inode : kern'.wd[l] = IF l = j THEN NoWd ELSE kern.wd[l]
    <3>1. CASE kern.wd[j] = NoWd
      BY <1>4, <3>1 DEF RemoveDir
    <3>2. CASE kern.wd[j] # NoWd
      <4>1. kern' = Forgotten(kern, j)
        BY <1>4, <3>2 DEF RemoveDir
      <4>2. kern'.wd = [kern.wd EXCEPT ![j] = NoWd] /\ kern'.next = kern.next
        BY <1>1, <3>2, <4>1, ForgottenEnds
      <4> QED BY <1>1, <4>2
    <3> QED BY <3>1, <3>2
  <2>3. Grows
    BY <1>1, <2>2 DEF Grows, PathsKept, EverGrows
  <2>4. WatchInPlace'
    <3> SUFFICES ASSUME NEW c \in 1..MaxWd, NEW l \in Inode, m_watches[c] # NULL, kern'.wd[l] = c
                 PROVE  node'[obj[m_watches[c]].path] = l
      BY <1>1 DEF WatchInPlace
    <3>1. l # j /\ kern.wd[l] = c
      BY <2>2 DEF NoWd
    <3>2. obj[m_watches[c]].path \in Path
      BY FoundWatches DEF TypeOK, LibraryTypeOK, WatchObject
    <3> QED BY <2>1, <3>1, <3>2 DEF EverInv, WatchInPlace
  <2> QED BY <2>3, <2>4
<1> QED BY <1>2, <1>3, <1>4 DEF FileSystem, Retarget

-----------------------------------------------------------------------------
(* What the kernel reports is true                                         *)

(* The queue holds what it held, the event, and the mark of an overflow.   *)
LEMMA QueuedFrom ==
  ASSUME NEW S, NEW K \in KernelType, K.queue \in Seq(S), NEW e \in S, Overflow \in S
  PROVE  Queued(K, e).queue \in Seq(S)
<1>1. \A x \in S : [K EXCEPT !.queue = Append(@, x)].queue \in Seq(S)
  <2>1. \A x \in S : [K EXCEPT !.queue = Append(@, x)].queue = Append(K.queue, x)
    BY DEF KernelType
  <2> QED BY <2>1, AppendProperties
<1> QED BY <1>1 DEF Queued

LEMMA EmittedFrom ==
  ASSUME NEW S, NEW K \in KernelType, K.queue \in Seq(S), Overflow \in S, WdsApart(K),
         NEW j \in Inode, NEW t \in ListingEvents, NEW n \in Name,
         K.wd[j] # NoWd => [wd |-> K.wd[j], type |-> t, name |-> n] \in S
  PROVE  Emitted(K, j, t, n).queue \in Seq(S)
BY QueuedFrom DEF Emitted, WdsApart

LEMMA Handed ==
  ASSUME TypeOK, NameInv, NEW j \in Inode
  PROVE  /\ kern.next \in Nat /\ kern.wd[j] < kern.next
         /\ kern.wd[j] # NoWd => kern.wd[j] \in 1..MaxWd
<1>1. kern.wd \in [Inode -> Wd] /\ kern.next \in 1..(MaxWd + 1) /\ MaxWd \in Nat
  BY KernelFields
<1>2. kern.wd[j] \in Wd
  BY <1>1
<1> QED BY <1>1, <1>2, WdType DEF NameInv, WdsApart

(* An event of a directory that is watched is true, if an arrival is of a  *)
(* name the directory now has.                                             *)
LEMMA HeardIsTrue ==
  ASSUME TypeOK, TypeOK', WatchTablesAgree, NameInv, EverInv, EverGrows, Grows,
         UNCHANGED <<node, obj, m_watches>>,
         NEW j \in Inode, NEW t \in ListingEvents, NEW n \in Name,
         NEW d \in 1..MaxWd, kern.wd[j] = d, t \in Arrivals => n \in files'[j]
  PROVE  [wd |-> d, type |-> t, name |-> n] \in TrueEvent'
<1>1. d < kern.next /\ kern.next \in Nat /\ kern'.next \in Nat /\ d \in Nat
  <2>1. kern.next \in Nat /\ kern'.next \in Nat
    BY KernelFields
  <2>2. d < kern.next
    BY Handed
  <2> QED BY <2>1, <2>2
<1>2. d < kern'.next
  BY <1>1 DEF Grows
<1>3. [wd |-> d, type |-> t, name |-> n] \in KernelEvent
  BY DEF KernelEvent, Wd
<1>4. FindWatch(d)' = m_watches[d]
  BY DEF FindWatch
<1>5. ASSUME t \in Arrivals, m_watches[d] # NULL
      PROVE  n \in ever'[obj'[m_watches[d]].path]
  <2> DEFINE w == m_watches[d]
  <2>1. w \in Watch /\ obj[w] # NULL
    BY <1>5, FoundWatches
  <2>2. obj[w].path \in Path
    BY <2>1 DEF TypeOK, LibraryTypeOK, WatchObject
  <2>3. node'[obj[w].path] = j
    BY <1>5 DEF EverInv, WatchInPlace
  <2>4. Present'[obj[w].path] = files'[j]
    BY <2>2, <2>3, KernelAssumption DEF Present
  <2>5. n \in ever'[obj[w].path]
    BY <1>5, <2>2, <2>4 DEF EverGrows
  <2> QED BY <2>5
<1> DEFINE e == [wd |-> d, type |-> t, name |-> n]
<1>6. e.wd = d /\ e.type = t /\ e.name = n
  OBVIOUS
<1> HIDE DEF e
<1>7. e \in TrueEvent'
  BY <1>2, <1>3, <1>4, <1>5, <1>6 DEF TrueEvent, e
<1> QED BY <1>7 DEF e

LEMMA FileSystemTrue ==
  ASSUME TypeOK, TypeOK', WatchTablesAgree, NameInv, EverInv, EverGrows, Grows,
         FileSystem, "retarget" \notin FsOps, UNCHANGED libVars
  PROVE  kern'.queue \in Seq(TrueEvent')
<1> DEFINE S == TrueEvent'
<1>1. /\ kern \in KernelType /\ kern.queue \in Seq(S) /\ WdsApart(kern)
      /\ Ends(kern, kern.queue) /\ UNCHANGED <<obj, m_watches>>
      /\ files \in [Inode -> SUBSET Name]
  BY TruthLasts, SeqMonotonic DEF TypeOK, KernelTypeOK, EverInv, NameInv, libVars
<1>2. kern'.next \in Nat \ {0} /\ \A j \in Inode : kern.wd[j] < kern'.next
  <2>1. kern'.next \in 1..(MaxWd + 1) /\ MaxWd \in Nat
    BY KernelFields
  <2>2. \A j \in Inode : kern.wd[j] \in Int
    BY KernelFields DEF Wd, NoWd
  <2>3. \A j \in Inode : kern.wd[j] < kern.next /\ kern.next \in Nat
    BY Handed
  <2> QED BY <2>1, <2>2, <2>3 DEF Grows
<1>3. Overflow \in S
  BY <1>2 DEF Overflow, TrueEvent, KernelEvent, Arrivals, NoWd
<1>4. {"IN_CREATE", "IN_DELETE", "IN_MOVED_FROM", "IN_MOVED_TO"} = ListingEvents
      /\ "IN_DELETE" \notin Arrivals /\ "IN_MOVED_FROM" \notin Arrivals
  BY DEF ListingEvents, Arrivals
<1>5. ASSUME NEW j \in Inode, NEW n \in Name, NEW t \in ListingEvents,
             UNCHANGED node, kern' = Emitted(kern, j, t, n), t \in Arrivals => n \in files'[j]
      PROVE  kern'.queue \in Seq(S)
  <2>1. kern.wd[j] # NoWd => [wd |-> kern.wd[j], type |-> t, name |-> n] \in S
    BY <1>1, <1>5, Handed, HeardIsTrue
  <2> HIDE DEF S
  <2> QED BY <1>1, <1>3, <1>5, <2>1, EmittedFrom
<1>6. ASSUME NEW j \in Inode, NEW n \in Name,
             Create(j, n) \/ Delete(j, n) \/ MoveIn(j, n) \/ MoveOut(j, n)
      PROVE  kern'.queue \in Seq(S)
  <2>1. UNCHANGED node
    BY <1>6 DEF Create, Delete, MoveIn, MoveOut
  <2>2. \E t \in ListingEvents :
          kern' = Emitted(kern, j, t, n) /\ (t \in Arrivals => n \in files'[j])
    BY <1>1, <1>4, <1>6 DEF Create, Delete, MoveIn, MoveOut
  <2> QED BY <1>5, <2>1, <2>2
<1>7. ASSUME NEW j \in Inode, NEW a \in Name, NEW b \in Name, Rename(j, a, b)
      PROVE  kern'.queue \in Seq(S)
  <2> DEFINE K == Emitted(kern, j, "IN_MOVED_FROM", a)
  <2>1. UNCHANGED node /\ kern' = Emitted(K, j, "IN_MOVED_TO", b) /\ b \in files'[j]
    BY <1>1, <1>7 DEF Rename
  <2>2. K \in KernelType /\ SameWatches(K, kern) /\ Ends(kern, K.queue)
    BY <1>1, <1>4, EmittedEnds, EmittedType
  <2>3. /\ kern.wd[j] # NoWd => [wd |-> kern.wd[j], type |-> "IN_MOVED_FROM", name |-> a] \in S
        /\ kern.wd[j] # NoWd => [wd |-> kern.wd[j], type |-> "IN_MOVED_TO", name |-> b] \in S
    BY <1>1, <1>4, <2>1, Handed, HeardIsTrue
  <2> HIDE DEF S
  <2>4. K.queue \in Seq(S)
    BY <1>1, <1>3, <1>4, <2>3, EmittedFrom
  <2> HIDE DEF K
  <2>5. WdsApart(K) /\ K.wd = kern.wd
    BY <1>1, <2>2 DEF WdsApart, SameWatches
  <2> QED BY <1>3, <1>4, <2>1, <2>2, <2>3, <2>4, <2>5, EmittedFrom
<1>8. ASSUME NEW j \in Inode, RemoveDir(j)
      PROVE  kern'.queue \in Seq(S)
  <2> DEFINE K == [kern EXCEPT !.wd[j] = NoWd, !.mask[j] = {}]
             e == [wd |-> kern.wd[j], type |-> "IN_IGNORED", name |-> NoName]
  <2>1. CASE kern.wd[j] = NoWd
    BY <1>1, <1>8, <2>1 DEF RemoveDir
  <2>2. CASE kern.wd[j] # NoWd
    <3>1. K \in KernelType /\ K.queue = kern.queue /\ e \in KernelEvent
      BY <1>1, WdType DEF KernelType, KernelEvent
    <3>2. e \in S
      BY <1>2, <3>1 DEF TrueEvent, Arrivals
    <3>3. kern' = Queued(K, e)
      BY <1>8, <2>2 DEF RemoveDir, Forgotten
    <3> HIDE DEF S, K, e
    <3> QED BY <1>1, <1>3, <3>1, <3>2, <3>3, QueuedFrom
  <2> QED BY <2>1, <2>2
<1> QED BY <1>6, <1>7, <1>8 DEF FileSystem, Retarget

LEMMA ParseTrue ==
  ASSUME TypeOK, TypeOK', WatchTablesAgree, EverInv, Grows, ParseEvent
  PROVE  m_buf' \in Seq(TrueEvent') /\ m_events' \in Seq(TrueNews')
<1> DEFINE e == Head(m_buf)
           w == FindWatch(e.wd)
<1>1. e \in TrueEvent /\ Tail(m_buf) \in Seq(TrueEvent) /\ e \in KernelEvent
  BY HeadTailProperties DEF ParseEvent, EverInv, TrueEvent
<1>2. m_buf' \in Seq(TrueEvent)
  BY <1>1, EmptySeq DEF ParseEvent
<1>3. m_events' \in Seq(TrueNews)
  <2>1. m_events \in Seq(TrueNews)
    BY DEF EverInv
  <2>2. CASE w = NULL \/ ParseThrows
    BY <2>1, <2>2 DEF ParseEvent
  <2>3. CASE ~(w = NULL \/ ParseThrows)
    <3> DEFINE news == [watch |-> w, type |-> e.type, name |-> e.name]
    <3>1. w \in Watch /\ obj[w] # NULL
      BY <2>3, FoundWatches DEF FindWatch
    <3>2. e # Overflow
      BY <2>3, WdType DEF FindWatch, Overflow, NoWd
    <3>3. news \in Event
      BY <1>1, <3>1, <3>2 DEF KernelEvent, Event
    <3>4. e.type \in Arrivals => e.name \in ever[obj[w].path]
      BY <1>1, <2>3 DEF TrueEvent
    <3>5. news \in TrueNews
      BY <3>1, <3>3, <3>4 DEF TrueNews
    <3> QED BY <2>1, <2>3, <3>5, AppendProperties DEF ParseEvent
  <2> QED BY <2>2, <2>3
<1> QED BY <1>2, <1>3, TruthLasts, SeqMonotonic

LEMMA ReadTrue ==
  ASSUME TypeOK, TypeOK', WatchTablesAgree, EverInv, Grows, ReadEvents
  PROVE  m_buf' \in Seq(TrueEvent') /\ kern'.queue \in Seq(TrueEvent')
<1> DEFINE n == IF Len(kern.queue) < BufLen THEN Len(kern.queue) ELSE BufLen
           q == kern.queue
<1>1. q \in Seq(TrueEvent) /\ Len(q) \in Nat /\ BufLen \in Nat \ {0}
  BY LenProperties, LibraryAssumption DEF EverInv
<1>2. n \in 0..Len(q)
  BY <1>1
<1>3. m_buf' = SubSeq(q, 1, n) /\ kern'.queue = SubSeq(q, n + 1, Len(q))
  BY KernelFields DEF ReadEvents, KernelType
<1>4. /\ \A x \in 1..n : q[x] \in TrueEvent
      /\ \A x \in (n + 1)..Len(q) : q[x] \in TrueEvent
  BY <1>1, <1>2, ElementOfSeq
<1>5. n \in Int /\ n + 1 \in Int /\ Len(q) \in Int
  BY <1>1, <1>2
<1> HIDE DEF n, q
<1>6. SubSeq(q, 1, n) \in Seq(TrueEvent) /\ SubSeq(q, n + 1, Len(q)) \in Seq(TrueEvent)
  BY <1>4, <1>5, SubSeqProperties
<1> QED BY <1>3, <1>6, TruthLasts, SeqMonotonic

-----------------------------------------------------------------------------
(* What the listings take from it *)

Listed(f, S) == \A p \in Path : f[p] \in Seq(S[p]) \cup {Absent}

LEMMA ListedLasts ==
  ASSUME EverGrows, NEW f, Listed(f, ever)
  PROVE  Listed(f, ever')
BY SeqMonotonic DEF Listed, EverGrows

LEMMA MutateListed ==
  ASSUME TypeOK, EverInv, Mutate, event # NULL
  PROVE  Listed(m_path', ever)
<1> DEFINE p == obj[event.watch].path
           v == IF m_path[p] = Absent THEN <<>> ELSE m_path[p]
<1>1. event \in TrueNews /\ Listed(m_path, ever) /\ m_path \in [Path -> Seq(Name) \cup {Absent}]
  BY DEF EverInv, Listed, TypeOK
<1>2. p \in Path
  BY <1>1 DEF TrueNews, Event, TypeOK, LibraryTypeOK, WatchObject
<1>3. v \in Seq(ever[p])
  BY <1>1, <1>2, EmptySeq DEF Listed
<1>4. ASSUME NEW u \in Seq(ever[p]), m_path' = [m_path EXCEPT ![p] = u]
      PROVE  Listed(m_path', ever)
  BY <1>1, <1>4 DEF Listed
<1>5. CASE event.type \in Arrivals
  <2>1. Append(v, event.name) \in Seq(ever[p])
    BY <1>1, <1>3, <1>5, AppendProperties DEF TrueNews
  <2>2. m_path' = [m_path EXCEPT ![p] = Append(v, event.name)]
    BY <1>5 DEF Mutate, Arrivals, Departures
  <2> QED BY <1>4, <2>1, <2>2
<1>6. CASE event.type \in Departures /\ v # <<>>
  <2>1. Erased(v, event.name) \in Seq(ever[p])
    BY <1>3, <1>6, ErasedType
  <2>2. m_path' = [m_path EXCEPT ![p] = Erased(v, event.name)]
    BY <1>6 DEF Mutate, Arrivals, Departures
  <2> QED BY <1>4, <2>1, <2>2
<1>7. CASE event.type \notin Arrivals /\ ~(event.type \in Departures /\ v # <<>>)
  BY <1>1, <1>7 DEF Mutate
<1> QED BY <1>5, <1>6, <1>7

LEMMA ListDirectoryListed ==
  ASSUME TypeOK, EverInv, ListDirectory
  PROVE  Listed(m_path', ever)
<1> DEFINE p == Dirs[k]
<1>1. p \in Path /\ Listed(m_path, ever) /\ m_path \in [Path -> Seq(Name) \cup {Absent}]
  BY ElementOfSeq, MonitorAssumption DEF EverInv, Listed, TypeOK
<1>2. CASE m_path' = m_path
  BY <1>1, <1>2
<1>3. CASE m_path' # m_path
  <2>1. node[p] # NoInode /\ \E listing \in SetToSeqs(files[node[p]]) :
                               m_path' = [m_path EXCEPT ![p] = listing]
    BY <1>3 DEF ListDirectory, UpdateDirectoryListing
  <2>2. PICK listing \in SetToSeqs(files[node[p]]) : m_path' = [m_path EXCEPT ![p] = listing]
    BY <2>1
  <2>3. files[node[p]] \in SUBSET Name /\ files[node[p]] \subseteq ever[p]
    BY <1>1, <2>1 DEF TypeOK, KernelTypeOK, EverInv, Present
  <2>4. listing \in Seq(ever[p])
    BY <2>2, <2>3, ListingType, SeqMonotonic
  <2> QED BY <1>1, <2>2, <2>4 DEF Listed
<1> QED BY <1>2, <1>3

-----------------------------------------------------------------------------
(* Every step                                                              *)

LEMMA NamesInit == HInit => EverInv
<1> SUFFICES ASSUME HInit PROVE EverInv
  OBVIOUS
<1>1. Init /\ TypeOK /\ ever = Present
  BY HistoryKeeps DEF HInit, MonitorInv
<1>2. ever \in [Path -> SUBSET Name]
  BY <1>1 DEF Present, TypeOK, KernelTypeOK
<1>3. /\ kern.queue = <<>> /\ m_buf = <<>> /\ m_events = <<>> /\ event = NULL
      /\ m_watches = [d \in 1..MaxWd |-> NULL] /\ m_path = [p \in Path |-> Absent]
  BY <1>1 DEF Init, KernelInit, LibraryInit
<1>4. kern.queue \in Seq(TrueEvent) /\ m_buf \in Seq(TrueEvent) /\ m_events \in Seq(TrueNews)
  BY <1>3, EmptySeq
<1> QED BY <1>1, <1>2, <1>3, <1>4 DEF EverInv, WatchInPlace

LEMMA NamesStep ==
  ASSUME MonitorInv, MonitorInv', NameInv, EverInv, [HNext]_hvars, "retarget" \notin FsOps
  PROVE  EverInv'
<1>1. TypeOK /\ TypeOK' /\ WatchTablesAgree /\ StartUpInStep /\ LoopInStep
  BY DEF MonitorInv
<1>2. CASE UNCHANGED hvars
  BY <1>2 DEF EverInv, Present, WatchInPlace, TrueEvent, TrueNews, FindWatch,
              hvars, vars, kernelVars, libVars, monVars, runVars
<1>3. CASE HNext
  <2>1. EverGrows /\ Next
    BY <1>1, <1>3, HistoryGrows DEF HNext
  <2>2. ASSUME Grows, WatchInPlace', kern'.queue \in Seq(TrueEvent'), m_buf' \in Seq(TrueEvent'),
               m_events' \in Seq(TrueNews'), event' \in TrueNews' \cup {NULL},
               Listed(m_path', ever)
        PROVE  EverInv'
    BY <2>1, <2>2, ListedLasts DEF EverInv, EverGrows, Listed
  <2>3. Listed(m_path, ever)
    BY DEF EverInv, Listed
  (* What stays where it is stays true. *)
  <2>4. ASSUME Grows
        PROVE  /\ kern.queue \in Seq(TrueEvent') /\ m_buf \in Seq(TrueEvent')
               /\ m_events \in Seq(TrueNews') /\ event \in TrueNews' \cup {NULL}
    BY <1>1, <2>4, TruthLasts, SeqMonotonic DEF EverInv
  <2>5. UNCHANGED <<obj, m_watches, node, kern>> => Grows /\ WatchInPlace'
    <3>1. kern.next \in Nat
      BY <1>1, KernelFields
    <3> QED BY <1>1, <2>1, <3>1, TablesSame
  <2>6. CASE UNCHANGED <<kernelVars, libVars, event, m_path>>
    BY <2>2, <2>3, <2>4, <2>5, <2>6 DEF kernelVars, libVars
  <2>7. CASE Startup
    <3>1. CASE ListDirectory
      <4>1. Listed(m_path', ever)
        BY <1>1, <3>1, ListDirectoryListed
      <4>2. UNCHANGED <<kernelVars, libVars, event>>
        BY <3>1 DEF ListDirectory, runVars
      <4> QED BY <2>2, <2>4, <2>5, <4>1, <4>2 DEF kernelVars, libVars
    <3>2. CASE MonitorDirectory \/ Start
      BY <2>6, <3>2 DEF MonitorDirectory, Start, monVars, runVars
    <3> QED BY <2>7, <3>1, <3>2 DEF Startup
  <2>8. CASE Owner \/ User \/ DispatchChanged \/ Mishap
    BY <2>6, <2>8
       DEF Owner, EndScan, SetStop, Join, User, BeginScan, CallStop, DispatchChanged,
           Mishap, Interrupted, ReadFails, monVars, runVars
  <2>9. CASE WatchesPlaced \/ CheckStop \/ CountEvents \/ Drained \/ LockPath
    BY <2>6, <2>9
       DEF WatchesPlaced, CheckStop, CountEvents, Drained, LockPath, monVars, runVars
  <2>10. CASE OpenInotify
    <3>1. UNCHANGED <<node, libVars, event, m_path>>
      BY <2>10 DEF OpenInotify, Open, monVars, runVars
    <3>2. kern'.wd = kern.wd /\ kern.next <= kern'.next /\ kern'.queue = kern.queue
      <4>1. kern.next \in Nat /\ kern \in KernelType
        BY <1>1, KernelFields
      <4>2. CASE kern' = kern
        BY <4>1, <4>2
      <4>3. CASE kern' = [kern EXCEPT !.open = TRUE]
        BY <4>1, <4>3 DEF KernelType
      <4> QED BY <2>10, <4>2, <4>3 DEF OpenInotify, Open
    <3>3. Grows /\ WatchInPlace'
      BY <1>1, <2>1, <3>1, <3>2, TablesSame DEF libVars
    <3> QED BY <2>2, <2>3, <2>4, <3>1, <3>2, <3>3 DEF libVars
  <2>11. CASE NewWatch
    <3>1. i \in Watch /\ m_watchlist[i] \in Path
      <4>1. Len(m_watchlist) \in Nat /\ Len(Dirs) \in Nat /\ i \in 1..Len(m_watchlist)
        BY <1>1, <2>11, LenProperties, MonitorAssumption DEF NewWatch, TypeOK
      <4> QED BY <1>1, <4>1, ElementOfSeq, MonitorAssumption DEF TypeOK, StartUpInStep
    <3>2. Construct(i, m_watchlist[i], ListingEvents, TRUE)
          /\ UNCHANGED <<node, kern, m_buf, m_events, event, m_path>>
      BY <2>11 DEF NewWatch, Construct, monVars, runVars
    <3>3. Grows /\ WatchInPlace'
      BY <1>1, <2>1, <3>1, <3>2, TablesConstruct
    <3> QED BY <2>2, <2>3, <2>4, <3>2, <3>3
  <2>12. CASE AddWatch
    <3>1. pc.monitor = "add" /\ Add(i) /\ UNCHANGED <<node, event, m_path>>
      BY <2>12 DEF AddWatch, Go
    <3>2. i <= Len(m_watchlist) /\ obj[i] # NULL
      BY <1>1, <3>1 DEF StartUpInStep
    <3>3. i \in Watch
      <4>1. Len(m_watchlist) \in Nat /\ Len(Dirs) \in Nat /\ i \in 1..Len(m_watchlist)
        BY <1>1, <3>2, LenProperties, MonitorAssumption DEF TypeOK
      <4> QED BY <1>1, <4>1, MonitorAssumption DEF StartUpInStep
    <3>4. Grows /\ WatchInPlace' /\ kern'.queue = kern.queue
      BY <1>1, <2>1, <3>1, <3>2, <3>3, TablesAdd
    <3>5. UNCHANGED <<m_buf, m_events>>
      BY <3>1 DEF Add, AddRefused, AddDisabled, AddCollision, AddEnabled, libVars
    <3> QED BY <2>2, <2>3, <2>4, <3>1, <3>4, <3>5
  <2>13. CASE WaitForEvents
    <3>1. ReadEvents /\ UNCHANGED <<node, obj, m_watches, m_events, event, m_path>>
      BY <2>13 DEF WaitForEvents, ReadEvents, monVars, runVars
    <3>2. kern'.wd = kern.wd /\ kern.next <= kern'.next
      BY <1>1, <3>1, KernelFields DEF ReadEvents, KernelType
    <3>3. Grows /\ WatchInPlace'
      BY <1>1, <2>1, <3>1, <3>2, TablesSame
    <3>4. m_buf' \in Seq(TrueEvent') /\ kern'.queue \in Seq(TrueEvent')
      BY <1>1, <3>1, <3>3, ReadTrue
    <3> QED BY <2>2, <2>3, <2>4, <3>1, <3>3, <3>4
  <2>14. CASE ParseOne
    <3>1. ParseEvent /\ UNCHANGED <<node, kern, event, m_path>>
      BY <2>14 DEF ParseOne, ParseEvent, monVars, runVars
    <3>2. Grows /\ WatchInPlace'
      BY <1>1, <2>1, <3>1, TablesParse
    <3>3. m_buf' \in Seq(TrueEvent') /\ m_events' \in Seq(TrueNews')
      BY <1>1, <3>1, <3>2, ParseTrue
    <3> QED BY <2>2, <2>3, <2>4, <3>1, <3>2, <3>3
  <2>15. CASE TakeEvent
    <3>1. UNCHANGED <<node, kern, obj, m_watches, m_buf, m_path>>
      BY <2>15 DEF TakeEvent, GetEvent, libVars
    <3>2. Grows /\ WatchInPlace'
      BY <2>5, <3>1
    <3>3. CASE m_events = <<>>
      <4>1. UNCHANGED <<m_events, event>>
        BY <2>15, <3>3 DEF TakeEvent, libVars
      <4> QED BY <2>2, <2>3, <2>4, <3>1, <3>2, <4>1
    <3>4. CASE m_events # <<>>
      <4>1. m_events' = Tail(m_events) /\ event' = Head(m_events)
        BY <2>15, <3>4 DEF TakeEvent, GetEvent
      <4>2. m_events \in Seq(TrueNews')
        BY <2>4, <3>2
      <4>3. m_events' \in Seq(TrueNews') /\ event' \in TrueNews' \cup {NULL}
        BY <3>4, <4>1, <4>2, HeadTailProperties
      <4> QED BY <2>2, <2>3, <2>4, <3>1, <3>2, <4>3
    <3> QED BY <3>3, <3>4
  <2>16. CASE Mutate
    <3>1. UNCHANGED <<kernelVars, libVars, event>> /\ pc.monitor = "mutate"
      BY <2>16 DEF Mutate, Go, runVars
    <3>2. event # NULL
      BY <1>1, <3>1, MonitorAssumption DEF LoopInStep
    <3>3. Listed(m_path', ever)
      BY <1>1, <2>16, <3>2, MutateListed
    <3> QED BY <2>2, <2>4, <2>5, <3>1, <3>3 DEF kernelVars, libVars
  <2>17. CASE Emit
    <3>1. UNCHANGED <<kernelVars, libVars, m_path>> /\ event' = NULL
      BY <2>17 DEF Emit
    <3> QED BY <2>2, <2>3, <2>4, <2>5, <3>1 DEF kernelVars, libVars
  <2>18. CASE Leave
    <3>1. Close /\ UNCHANGED <<node, m_buf, m_events, event, m_path>>
      BY <2>18 DEF Leave, Close, monVars, runVars
    <3>2. Grows /\ WatchInPlace'
      BY <1>1, <2>1, <3>1, TablesClose
    <3>3. kern'.queue = <<>>
      BY <1>1, <3>1, KernelFields DEF Close, Closed, KernelType
    <3> QED BY <2>2, <2>3, <2>4, <3>1, <3>2, <3>3, EmptySeq
  <2>19. CASE Environment
    <3>1. FileSystem /\ UNCHANGED <<libVars, event, m_path>>
      BY <2>19 DEF Environment, monVars, runVars
    <3>2. Grows /\ WatchInPlace'
      BY <1>1, <2>1, <3>1, TablesFileSystem
    <3>3. kern'.queue \in Seq(TrueEvent')
      BY <1>1, <2>1, <3>1, <3>2, FileSystemTrue
    <3> QED BY <2>2, <2>3, <2>4, <3>1, <3>2, <3>3 DEF libVars
  <2> QED BY <2>1, <2>7, <2>8, <2>9, <2>10, <2>11, <2>12, <2>13, <2>14, <2>15, <2>16, <2>17,
             <2>18, <2>19 DEF Next, Run
<1> QED BY <1>2, <1>3

(* While no path comes to name another directory, no listing ever offers a *)
(* name its directory has not had, for every $PATH, every file system,     *)
(* every overflow and every failure (monitor.cpp:96-110): an event in the  *)
(* kernel's queue, in the buffer or in the deque that names an arrival     *)
(* belongs to the directory whose listing it will be applied to.           *)
THEOREM ListingsNameWhatWasThere ==
  ASSUME "retarget" \notin FsOps
  PROVE  HSpec => []NamesWereThere
<1>1. HInit => MonitorInv /\ NameInv /\ EverInv
  BY HistoryKeeps, NameInit, NamesInit DEF HInit
<1>2. MonitorInv /\ NameInv /\ EverInv /\ [HNext]_hvars => (MonitorInv /\ NameInv /\ EverInv)'
  <2>1. [HNext]_hvars => [Next]_vars
    BY DEF HNext, hvars
  <2> QED BY <2>1, HistoryKeeps, NameStep, NamesStep
<1>3. EverInv => NamesWereThere
  <2> SUFFICES ASSUME EverInv, NEW p \in Path, m_path[p] # Absent
               PROVE  Range(m_path[p]) \subseteq ever[p]
    BY DEF NamesWereThere
  <2>1. m_path[p] \in Seq(ever[p])
    BY DEF EverInv
  <2> QED BY <2>1, LenProperties, ElementOfSeq DEF Range
<1> QED BY <1>1, <1>2, <1>3, PTL DEF HSpec

-----------------------------------------------------------------------------
(* The listing feed: no departure is ever reported *)

OnlyAdds == FsOps \subseteq {"create", "move_in", "retarget"}

Report == {e \in KernelEvent : e.type \notin Departures}

(* An event of the library whose watch has been constructed. *)
News == {e \in Event : e.type \notin Departures /\ obj[e.watch] # NULL}

FeedInv ==
  /\ kern.queue \in Seq(Report) /\ m_buf \in Seq(Report)
  /\ m_events \in Seq(News)
  /\ event \in News \cup {NULL}

(* What a directory reports of an arrival is the arrival, the mark of an   *)
(* overflow, or the end of a watch.                                        *)
LEMMA EmittedReport ==
  ASSUME NEW K \in KernelType, K.queue \in Seq(Report), NEW j \in Inode,
         NEW t \in ListingEvents \ Departures, NEW n \in Name
  PROVE  Emitted(K, j, t, n).queue \in Seq(Report)
<1>1. Overflow \in Report
  BY WdType DEF Overflow, Report, KernelEvent, Departures
<1>2. ASSUME NEW L \in KernelType, L.queue \in Seq(Report), NEW e \in Report
      PROVE  Queued(L, e).queue \in Seq(Report)
  <2>1. \A x \in Report : [L EXCEPT !.queue = Append(@, x)].queue \in Seq(Report)
    <3>1. \A x \in Report : [L EXCEPT !.queue = Append(@, x)].queue = Append(L.queue, x)
      BY DEF KernelType
    <3> QED BY <1>2, <3>1, AppendProperties
  <2> QED BY <1>1, <1>2, <2>1 DEF Queued
<1> DEFINE e == [wd |-> K.wd[j], type |-> t, name |-> n]
           K1 == Queued(K, e)
           K2 == [K1 EXCEPT !.wd[j] = NoWd, !.mask[j] = {}]
           ig == [wd |-> K1.wd[j], type |-> "IN_IGNORED", name |-> NoName]
<1>3. e \in Report /\ e \in KernelEvent
  BY DEF Report, KernelEvent, KernelType
<1>4. K1 \in KernelType /\ K1.queue \in Seq(Report)
  BY <1>2, <1>3, QueuedType
<1> HIDE DEF K1
<1>5. K2 \in KernelType /\ K2.queue = K1.queue
  BY <1>4, WdType DEF KernelType
<1>6. ig \in Report
  BY <1>4 DEF Report, KernelEvent, KernelType, Departures
<1> HIDE DEF K2, ig
<1>7. Forgotten(K1, j).queue \in Seq(Report)
  <2>1. Forgotten(K1, j) = Queued(K2, ig)
    BY DEF Forgotten, K2, ig
  <2> QED BY <1>2, <1>4, <1>5, <1>6, <2>1
<1> QED BY <1>4, <1>7 DEF Emitted, K1

LEMMA FileSystemReport ==
  ASSUME OnlyAdds, KernelTypeOK, FileSystem, kern.queue \in Seq(Report)
  PROVE  kern'.queue \in Seq(Report)
<1>1. {"IN_CREATE", "IN_MOVED_TO"} \subseteq ListingEvents \ Departures
  BY DEF ListingEvents, Departures
<1>2. ASSUME NEW j \in Inode, NEW n \in Name, Create(j, n) \/ MoveIn(j, n)
      PROVE  kern'.queue \in Seq(Report)
  <2>1. \E t \in ListingEvents \ Departures : kern' = Emitted(kern, j, t, n)
    BY <1>1, <1>2 DEF Create, MoveIn
  <2> QED BY <2>1, EmittedReport DEF KernelTypeOK
<1>3. \A j \in Inode :
        /\ ~RemoveDir(j)
        /\ \A n \in Name : ~Delete(j, n) /\ ~MoveOut(j, n)
        /\ \A a, b \in Name : ~Rename(j, a, b)
  BY DEF OnlyAdds, RemoveDir, Delete, MoveOut, Rename
<1> QED BY <1>2, <1>3 DEF FileSystem, Retarget

(* Paths are kept, so news stay news. *)
LEMMA NewsLasts ==
  ASSUME PathsKept
  PROVE  News \subseteq News'
BY DEF News, PathsKept, Event

LEMMA FeedUnchanged ==
  ASSUME FeedInv, UNCHANGED <<obj, kern, m_buf, m_events>>,
         event' \in News \cup {NULL}
  PROVE  FeedInv'
BY DEF FeedInv, News

-----------------------------------------------------------------------------
(* The steps of the monitor                                                *)

(* The steps that leave library and kernel alone, but for the events the   *)
(* library hands out.                                                      *)
Aside ==
  \/ Startup \/ Owner \/ User \/ DispatchChanged \/ Mishap
  \/ WatchesPlaced \/ CheckStop \/ CountEvents \/ Drained \/ LockPath \/ Mutate \/ Emit

LEMMA AsideLeaves ==
  ASSUME Aside
  PROVE  UNCHANGED <<obj, kern, m_buf, m_events>> /\ (event' = event \/ event' = NULL)
<1>1. CASE Startup \/ Owner \/ User \/ DispatchChanged \/ Mishap
  BY <1>1 DEF Startup, ListDirectory, MonitorDirectory, Start, Owner, EndScan, SetStop, Join,
     User, BeginScan, CallStop, DispatchChanged, Mishap, Interrupted, ReadFails,
     kernelVars, libVars, monVars, runVars
<1>2. CASE WatchesPlaced \/ CheckStop \/ CountEvents \/ Drained \/ LockPath
  BY <1>2 DEF WatchesPlaced, CheckStop, CountEvents, Drained, LockPath,
     kernelVars, libVars, monVars, runVars
<1>3. CASE Mutate
  BY <1>3 DEF Mutate, kernelVars, libVars, runVars
<1>4. CASE Emit
  BY <1>4 DEF Emit, kernelVars, libVars
<1> QED BY <1>1, <1>2, <1>3, <1>4 DEF Aside

LEMMA AddingWatch ==
  ASSUME MonitorInv, AddWatch
  PROVE  i \in Watch /\ obj[i] # NULL
<1>1. TypeOK /\ StartUpInStep /\ pc.monitor = "add"
  BY DEF MonitorInv, AddWatch, Go
<1>2. i <= Len(m_watchlist) /\ obj[i] # NULL
  BY <1>1 DEF StartUpInStep
<1>3. Len(m_watchlist) \in Nat /\ Len(Dirs) \in Nat /\ i \in 1..Len(m_watchlist)
  BY <1>1, <1>2, LenProperties, MonitorAssumption DEF TypeOK
<1> QED BY <1>1, <1>2, <1>3, MonitorAssumption DEF StartUpInStep

LEMMA NewWatchIsWatch ==
  ASSUME MonitorInv, NewWatch
  PROVE  i \in Watch
<1>1. TypeOK /\ StartUpInStep /\ i <= Len(m_watchlist)
  BY DEF MonitorInv, NewWatch
<1>2. Len(m_watchlist) \in Nat /\ Len(Dirs) \in Nat /\ i \in 1..Len(m_watchlist)
  BY <1>1, LenProperties, MonitorAssumption DEF TypeOK
<1> QED BY <1>1, <1>2, MonitorAssumption DEF StartUpInStep

LEMMA NextKeepsPaths ==
  ASSUME MonitorInv, Next
  PROVE  PathsKept
<1>1. CallTypeOK /\ KernelTypeOK /\ WatchTablesAgree
  BY DEF MonitorInv, TypeOK, CallTypeOK, KernelTypeOK
<1>2. CASE UNCHANGED obj
  BY <1>2 DEF PathsKept
<1>3. CASE Aside \/ OpenInotify \/ WaitForEvents \/ TakeEvent \/ Environment
  BY <1>2, <1>3, AsideLeaves
     DEF OpenInotify, Open, WaitForEvents, ReadEvents, TakeEvent, GetEvent, Environment, libVars
<1>4. CASE NewWatch
  BY <1>1, <1>4, NewWatchIsWatch, ConstructKeepsPaths DEF NewWatch
<1>5. CASE AddWatch
  BY <1>1, <1>5, AddingWatch, AddKeepsPaths DEF AddWatch
<1>6. CASE ParseOne \/ Leave
  BY <1>1, <1>6, ParseKeepsPaths, AgreeConstructed, CloseKeepsPaths DEF ParseOne, Leave
<1> QED BY <1>3, <1>4, <1>5, <1>6 DEF Next, Run, Aside

(* The event parsed is news, if it has an owner. *)
LEMMA ParsedIsNews ==
  ASSUME TypeOK, WatchTablesAgree, FeedInv, m_buf # <<>>, FindWatch(Head(m_buf).wd) # NULL
  PROVE  [watch |-> FindWatch(Head(m_buf).wd), type |-> Head(m_buf).type,
          name |-> Head(m_buf).name] \in News
<1> DEFINE e == Head(m_buf)
           w == FindWatch(e.wd)
<1>1. e \in Report /\ e \in KernelEvent
  BY HeadTailProperties DEF FeedInv, Report
<1>2. w \in Watch /\ obj[w] # NULL
  BY FindWatchType DEF FindWatch, WatchTablesAgree, TypeOK
<1>3. e # Overflow
  BY WdType DEF FindWatch, Overflow, NoWd
<1>4. [watch |-> w, type |-> e.type, name |-> e.name] \in Event
  BY <1>1, <1>2, <1>3 DEF KernelEvent, Event
<1> QED BY <1>1, <1>2, <1>4 DEF News, Report

LEMMA NoNewsYet == Init => FeedInv
<1> SUFFICES ASSUME Init PROVE FeedInv
  OBVIOUS
<1>1. kern.queue = <<>> /\ m_buf = <<>> /\ m_events = <<>> /\ event = NULL
  BY DEF Init, KernelInit, LibraryInit
<1> QED BY <1>1, EmptySeq DEF FeedInv

LEMMA FeedStep ==
  ASSUME MonitorInv, FeedInv, [Next]_vars, OnlyAdds
  PROVE  FeedInv'
<1>1. TypeOK /\ WatchTablesAgree
  BY DEF MonitorInv
<1>2. CASE UNCHANGED vars
  BY <1>2, FeedUnchanged DEF FeedInv, vars, kernelVars, libVars, monVars, runVars
<1>3. CASE Aside
  BY <1>3, AsideLeaves, FeedUnchanged DEF FeedInv
<1>4. CASE Next /\ ~Aside
  <2>1. News \subseteq News'
    BY <1>4, NextKeepsPaths, NewsLasts
  <2>2. ASSUME m_events' \in Seq(News), event' \in News \cup {NULL},
               kern'.queue \in Seq(Report), m_buf' \in Seq(Report)
        PROVE  FeedInv'
    BY <2>1, <2>2, SeqMonotonic DEF FeedInv, Report
  <2>3. CASE OpenInotify
    <3>1. UNCHANGED <<m_buf, m_events, event>> /\ kern'.queue = kern.queue
      BY <1>1, <2>3, KernelFields DEF OpenInotify, Open, libVars, monVars, runVars, KernelType
    <3> QED BY <2>2, <3>1 DEF FeedInv
  <2>4. CASE NewWatch
    BY <2>2, <2>4 DEF NewWatch, Construct, FeedInv, monVars, runVars
  <2>5. CASE AddWatch
    <3>1. UNCHANGED <<m_buf, m_events, event>> /\ Add(i)
      BY <2>5 DEF AddWatch, Add, AddRefused, AddDisabled, AddCollision, AddEnabled, libVars
    <3>2. \A m : \A K \in KernelType, p \in Path : Added(K, p, m).queue = K.queue
      BY DEF Added, KernelType
    <3>3. \A K \in KernelType, p \in Path, m \in SUBSET MaskBits : Added(K, p, m) \in KernelType
      BY <1>1, AddedType DEF TypeOK
    <3>4. \A w \in Watch : obj[w] # NULL => obj[w].path \in Path /\ obj[w].mask \in SUBSET MaskBits
      BY <1>1 DEF TypeOK, LibraryTypeOK, WatchObject
    <3>5. kern \in KernelType
      BY <1>1 DEF TypeOK, KernelTypeOK
    <3>6. i \in Watch /\ obj[i] # NULL
      BY <2>5, AddingWatch
    <3>7. CASE AddRefused(i) \/ AddDisabled(i) \/ AddEnabled(i)
      <4>1. kern'.queue = kern.queue
        BY <3>2, <3>4, <3>5, <3>6, <3>7 DEF AddRefused, AddDisabled, AddEnabled
      <4> QED BY <2>2, <3>1, <4>1 DEF FeedInv
    <3>8. CASE AddCollision(i)
      <4> DEFINE other == FindWatch(AddedWd(kern, obj[i].path))
      <4>1. other \in Watch /\ obj[other] # NULL
        BY <1>1, <3>8, FindWatchType DEF AddCollision, FindWatch, WatchTablesAgree, TypeOK
      <4>2. kern' = Added(Added(kern, obj[i].path, obj[i].mask), obj[other].path, obj[other].mask)
        BY <3>8 DEF AddCollision
      <4> HIDE DEF other
      <4>3. kern'.queue = kern.queue
        BY <3>2, <3>3, <3>4, <3>5, <3>6, <4>1, <4>2
      <4> QED BY <2>2, <3>1, <4>3 DEF FeedInv
    <3> QED BY <3>1, <3>7, <3>8 DEF Add
  <2>6. CASE WaitForEvents
    <3> DEFINE n == IF Len(kern.queue) < BufLen THEN Len(kern.queue) ELSE BufLen
               q == kern.queue
    <3>1. q \in Seq(Report) /\ Len(q) \in Nat /\ BufLen \in Nat \ {0}
      BY LenProperties, LibraryAssumption DEF FeedInv
    <3>2. /\ m_buf' = SubSeq(q, 1, n) /\ kern'.queue = SubSeq(q, n + 1, Len(q))
          /\ UNCHANGED <<m_events, event>>
      BY <1>1, <2>6, KernelFields
         DEF WaitForEvents, ReadEvents, KernelType, monVars, runVars
    <3>3. n \in 0..Len(q) /\ n \in Int /\ n + 1 \in Int /\ Len(q) \in Int
      BY <3>1
    <3>4. /\ \A x \in 1..n : q[x] \in Report
          /\ \A x \in (n + 1)..Len(q) : q[x] \in Report
      BY <3>1, <3>3, ElementOfSeq
    <3> HIDE DEF n, q
    <3>5. SubSeq(q, 1, n) \in Seq(Report) /\ SubSeq(q, n + 1, Len(q)) \in Seq(Report)
      BY <3>3, <3>4, SubSeqProperties
    <3> QED BY <2>2, <3>2, <3>5 DEF FeedInv
  <2>7. CASE ParseOne
    <3>1. ParseEvent /\ UNCHANGED <<kern, event>> /\ m_buf # <<>>
      BY <2>7 DEF ParseOne, ParseEvent, monVars, runVars
    <3>2. m_buf' \in Seq(Report)
      BY <3>1, EmptySeq, HeadTailProperties DEF ParseEvent, FeedInv
    <3>3. m_events' \in Seq(News)
      BY <1>1, <3>1, ParsedIsNews, AppendProperties DEF ParseEvent, FeedInv
    <3> QED BY <2>2, <3>1, <3>2, <3>3 DEF FeedInv
  <2>8. CASE TakeEvent
    <3>1. CASE m_events = <<>>
      BY <2>2, <2>8, <3>1 DEF TakeEvent, FeedInv, libVars
    <3>2. CASE m_events # <<>>
      <4>1. m_events' = Tail(m_events) /\ event' = Head(m_events) /\ UNCHANGED <<kern, m_buf>>
        BY <2>8, <3>2 DEF TakeEvent, GetEvent
      <4>2. m_events' \in Seq(News) /\ event' \in News
        BY <3>2, <4>1, HeadTailProperties DEF FeedInv
      <4> QED BY <2>2, <4>1, <4>2 DEF FeedInv
    <3> QED BY <3>1, <3>2
  <2>9. CASE Leave
    <3>1. UNCHANGED <<m_buf, m_events, event>> /\ kern'.queue = <<>>
      BY <1>1, <2>9, KernelFields DEF Leave, Close, Closed, KernelType, monVars, runVars
    <3> QED BY <2>2, <3>1, EmptySeq DEF FeedInv
  <2>10. CASE Environment
    <3>1. FileSystem /\ UNCHANGED <<m_buf, m_events, event>>
      BY <2>10 DEF Environment, libVars, monVars, runVars
    <3>2. kern'.queue \in Seq(Report)
      BY <1>1, <3>1, FileSystemReport DEF FeedInv, TypeOK
    <3> QED BY <2>2, <3>1, <3>2 DEF FeedInv
  <2> QED BY <1>4, <2>3, <2>4, <2>5, <2>6, <2>7, <2>8, <2>9, <2>10 DEF Next, Run, Aside
<1> QED BY <1>2, <1>3, <1>4

-----------------------------------------------------------------------------
(* The announcements an event stands for                                   *)

Told(o, e) ==
  IF e.type \in ListingEvents
  THEN [dir |-> o[e.watch].path, kind |-> Kind(e.type), name |-> e.name]
  ELSE [dir |-> o[e.watch].path, kind |-> "other"]

Mapped(o, s) == [x \in 1..Len(s) |-> Told(o, s[x])]

LEMMA PendingIsMapped ==
  /\ pendingBar = Mapped(obj, Unapplied)
  /\ pendingBar' = Mapped(obj', Unapplied')
BY DEF pendingBar, Mapped, Told, Announced

LEMMA MappedKept ==
  ASSUME PathsKept, NEW s \in Seq(News)
  PROVE  Mapped(obj', s) = Mapped(obj, s)
<1>1. \A e \in News : obj'[e.watch].path = obj[e.watch].path
  BY DEF PathsKept, News, Event
<1>2. \A e \in News : Told(obj', e) = Told(obj, e)
  BY <1>1 DEF Told
<1>3. \A x \in 1..Len(s) : s[x] \in News
  BY ElementOfSeq
<1> QED BY <1>2, <1>3 DEF Mapped

LEMMA MappedSeq ==
  ASSUME NEW o, NEW S, NEW s \in Seq(S)
  PROVE  /\ Mapped(o, s) \in Seq({Told(o, e) : e \in S})
         /\ Len(Mapped(o, s)) = Len(s)
         /\ \A x \in 1..Len(s) : Mapped(o, s)[x] = Told(o, s[x])
<1>1. Len(s) \in Nat /\ \A x \in 1..Len(s) : s[x] \in S
  BY LenProperties, ElementOfSeq
<1>2. Mapped(o, s) \in [1..Len(s) -> {Told(o, e) : e \in S}]
  BY <1>1 DEF Mapped
<1>3. Mapped(o, s) \in Seq({Told(o, e) : e \in S})
  BY <1>1, <1>2
<1>4. Len(Mapped(o, s)) = Len(s)
  BY <1>1, <1>2
<1> QED BY <1>3, <1>4 DEF Mapped

LEMMA MappedAppend ==
  ASSUME NEW o, NEW S, NEW s \in Seq(S), NEW e \in S
  PROVE  Mapped(o, Append(s, e)) = Append(Mapped(o, s), Told(o, e))
<1> DEFINE T == {Told(o, x) : x \in S}
           c == Append(s, e)
           a == Mapped(o, c)
           b == Append(Mapped(o, s), Told(o, e))
<1>1. /\ c \in Seq(S) /\ Len(c) = Len(s) + 1 /\ Len(s) \in Nat
      /\ (\A x \in 1..Len(s) : c[x] = s[x]) /\ c[Len(s) + 1] = e
  BY AppendProperties, LenProperties
<1> HIDE DEF c
<1>2. /\ a \in Seq(T) /\ Len(a) = Len(s) + 1
      /\ \A x \in 1..Len(s) + 1 : a[x] = Told(o, c[x])
  <2>1. a \in Seq(T) /\ Len(a) = Len(c) /\ \A x \in 1..Len(c) : a[x] = Told(o, c[x])
    BY <1>1, MappedSeq
  <2> HIDE DEF a, T
  <2> QED BY <1>1, <2>1
<1>3. /\ Mapped(o, s) \in Seq(T) /\ Len(Mapped(o, s)) = Len(s)
      /\ \A x \in 1..Len(s) : Mapped(o, s)[x] = Told(o, s[x])
  BY MappedSeq
<1>4. Told(o, e) \in T
  OBVIOUS
<1> HIDE DEF T, a
<1>5. /\ b \in Seq(T) /\ Len(b) = Len(s) + 1
      /\ \A x \in 1..Len(s) : b[x] = Mapped(o, s)[x]
      /\ b[Len(s) + 1] = Told(o, e)
  BY <1>3, <1>4, AppendProperties
<1> HIDE DEF b
<1>6. \A x \in 1..Len(s) + 1 : a[x] = b[x]
  <2> SUFFICES ASSUME NEW x \in 1..Len(s) + 1 PROVE a[x] = b[x]
    OBVIOUS
  <2>1. CASE x = Len(s) + 1
    BY <1>1, <1>2, <1>5, <2>1
  <2>2. CASE x \in 1..Len(s)
    BY <1>1, <1>2, <1>3, <1>5, <2>2
  <2> QED BY <1>1, <2>1, <2>2
<1>7. a = b
  BY <1>2, <1>5, <1>6, SeqEqual
<1> QED BY <1>7 DEF a, b, c

LEMMA MappedCons ==
  ASSUME NEW o, NEW S, NEW s \in Seq(S), NEW e \in S
  PROVE  LET m == Mapped(o, <<e>> \o s)
         IN  m # <<>> /\ Head(m) = Told(o, e) /\ Tail(m) = Mapped(o, s)
<1> DEFINE T == {Told(o, x) : x \in S}
           c == <<e>> \o s
           m == Mapped(o, c)
           t == Mapped(o, s)
<1>1. <<e>> \in Seq(S) /\ Len(<<e>>) = 1 /\ <<e>>[1] = e
  OBVIOUS
<1>2. /\ c \in Seq(S) /\ Len(c) = 1 + Len(s) /\ Len(s) \in Nat
      /\ c[1] = e /\ \A x \in 1..Len(s) : c[x + 1] = s[x]
  <2>1. /\ c \in Seq(S) /\ Len(c) = 1 + Len(s) /\ Len(s) \in Nat
        /\ \A x \in 1..1 + Len(s) : c[x] = IF x <= 1 THEN <<e>>[x] ELSE s[x - 1]
    BY <1>1, ConcatProperties, LenProperties
  <2>2. \A x \in 1..Len(s) : c[x + 1] = s[x + 1 - 1]
    BY <2>1
  <2>3. \A x \in 1..Len(s) : x + 1 - 1 = x
    BY <2>1
  <2> QED BY <1>1, <2>1, <2>2, <2>3
<1> HIDE DEF c
<1>3. /\ m \in Seq(T) /\ Len(m) = 1 + Len(s)
      /\ m[1] = Told(o, e) /\ \A x \in 1..Len(s) : m[x + 1] = Told(o, s[x])
  <2>1. /\ m \in Seq(T) /\ Len(m) = 1 + Len(s)
        /\ \A x \in 1..1 + Len(s) : m[x] = Told(o, c[x])
    <3>1. m \in Seq(T) /\ Len(m) = Len(c) /\ \A x \in 1..Len(c) : m[x] = Told(o, c[x])
      BY <1>2, MappedSeq
    <3> HIDE DEF m, T
    <3> QED BY <1>2, <3>1
  <2>2. \A x \in 1..Len(s) : x + 1 \in 1..1 + Len(s)
    BY <1>2
  <2> QED BY <1>2, <2>1, <2>2
<1>4. /\ t \in Seq(T) /\ Len(t) = Len(s)
      /\ \A x \in 1..Len(s) : t[x] = Told(o, s[x])
  BY MappedSeq
<1> HIDE DEF m, t, T
<1>5. m # <<>>
  BY <1>2, <1>3
<1>6. Head(m) = Told(o, e)
  BY <1>3
<1>7. Tail(m) = t
  <2>1. /\ Tail(m) \in Seq(T) /\ Len(Tail(m)) = Len(s)
        /\ \A x \in 1..Len(s) : Tail(m)[x] = m[x + 1]
    BY <1>2, <1>3, <1>5, HeadTailProperties
  <2> QED BY <1>3, <1>4, <2>1, SeqEqual
<1> QED BY <1>5, <1>6, <1>7 DEF m, t, c

-----------------------------------------------------------------------------
(* Each step of the monitor is a step of the feed, or none of its business *)

LEMMA UnappliedIs ==
  ASSUME TypeOK, LoopInStep, FeedInv
  PROVE  /\ pc.monitor \in {"lock", "mutate"} =>
              event \in News /\ Unapplied = <<event>> \o m_events
         /\ pc.monitor \notin {"lock", "mutate"} => Unapplied = m_events
         /\ Unapplied \in Seq(News)
<1>1. m_events \in Seq(News) /\ <<>> \o m_events = m_events
  BY ConcatEmptySeq DEF FeedInv
<1>2. CASE pc.monitor \in {"lock", "mutate"}
  <2>1. event \in News
    BY <1>2, MonitorAssumption DEF LoopInStep, FeedInv
  <2>2. <<event>> \in Seq(News)
    BY <2>1
  <2> QED BY <1>1, <1>2, <2>1, <2>2, ConcatProperties DEF Unapplied
<1>3. CASE pc.monitor \notin {"lock", "mutate"}
  BY <1>1, <1>3 DEF Unapplied
<1> QED BY <1>2, <1>3

(* The events are the same, and the listings. *)
LEMMA SameFeed ==
  ASSUME TypeOK, LoopInStep, FeedInv, PathsKept, Unapplied' = Unapplied
  PROVE  pendingBar' = pendingBar
<1>1. Unapplied \in Seq(News)
  BY UnappliedIs
<1>2. Mapped(obj', Unapplied') = Mapped(obj, Unapplied)
  BY <1>1, MappedKept
<1> QED BY <1>2, PendingIsMapped

LEMMA SameListing ==
  ASSUME m_path' = m_path
  PROVE  listingBar' = listingBar
BY DEF listingBar

(* The main thread is past the start-up when the other one exists. *)
LEMMA StartedWithThread ==
  ASSUME StartUpInStep, pc.monitor # "off"
  PROVE  startedBar
BY DEF StartUpInStep, startedBar

LEMMA NewsIsAnnouncement ==
  ASSUME TypeOK, NEW e \in News
  PROVE  Told(obj, e) \in F!Announcement
<1>1. obj[e.watch].path \in Path /\ e \in Event /\ e.type \notin Departures
  BY DEF News, Event, TypeOK, LibraryTypeOK, WatchObject
<1>2. CASE e.type \in ListingEvents
  <2>1. e.name \in Name
    BY <1>1, <1>2 DEF Event, ListingEvents
  <2>2. Kind(e.type) = "arrived"
    BY <1>1, <1>2 DEF Kind, Arrivals, Departures, ListingEvents
  <2> QED BY <1>1, <1>2, <2>1, <2>2 DEF Told, F!Announcement
<1>3. CASE e.type \notin ListingEvents
  BY <1>1, <1>3 DEF Told, F!Announcement
<1> QED BY <1>2, <1>3

(* What of the feed a step leaves alone. *)
LEMMA FeedStutters ==
  ASSUME UNCHANGED <<listingBar, pendingBar, startedBar, fault>>
  PROVE  UNCHANGED F!feedVars
<1>1. (fault' # "none") = (fault # "none")
  OBVIOUS
<1> QED BY <1>1 DEF F!feedVars

LEMMA FeedDies ==
  ASSUME UNCHANGED <<listingBar, pendingBar, startedBar>>, fault' # "none"
  PROVE  F!FeedNext
<1>1. (fault' # "none") = TRUE
  OBVIOUS
<1> QED BY <1>1, Zenon DEF F!FeedNext, F!Die

LEMMA FeedTakes ==
  ASSUME NEW p \in Path, NEW names \in SUBSET Name, ~startedBar,
         listingBar' = [listingBar EXCEPT ![p] = names],
         UNCHANGED <<pendingBar, startedBar, fault>>
  PROVE  F!FeedNext
<1>1. (fault' # "none") = (fault # "none")
  OBVIOUS
<1>2. F!Take(p, names)
  BY <1>1, Zenon DEF F!Take
<1> QED BY <1>2 DEF F!FeedNext

LEMMA FeedBegins ==
  ASSUME ~startedBar, startedBar' = TRUE, UNCHANGED <<listingBar, pendingBar, fault>>
  PROVE  F!FeedNext
<1>1. (fault' # "none") = (fault # "none")
  OBVIOUS
<1>2. F!Begin
  BY <1>1, Zenon DEF F!Begin
<1> QED BY <1>2 DEF F!FeedNext

LEMMA FeedAnnounces ==
  ASSUME NEW a \in F!Announcement, startedBar, pendingBar' = Append(pendingBar, a),
         UNCHANGED <<listingBar, startedBar, fault>>
  PROVE  F!FeedNext
<1>1. (fault' # "none") = (fault # "none")
  OBVIOUS
<1>2. F!Announce(a)
  BY <1>1, Zenon DEF F!Announce
<1> QED BY <1>2 DEF F!FeedNext

LEMMA FeedAppliesHead ==
  ASSUME fault = "none", pendingBar # <<>>, listingBar' = F!Applied(Head(pendingBar)),
         pendingBar' = Tail(pendingBar), startedBar' = startedBar
  PROVE  F!FeedNext
<1>1. ~(fault # "none") /\ (fault' # "none") \in BOOLEAN
  OBVIOUS
<1>2. F!Apply
  BY <1>1, Zenon DEF F!Apply
<1> QED BY <1>2 DEF F!FeedNext

(* Taking the listing of a directory at start-up. *)
LEMMA ListDirectoryTakes ==
  ASSUME MonitorInv, FeedInv, fault = "none", ListDirectory
  PROVE  [F!FeedNext]_(F!feedVars)
<1>1. TypeOK /\ LoopInStep
  BY DEF MonitorInv
<1>2. pc.main = "list" /\ pc'.main = "watch" /\ pc'.monitor = pc.monitor
  BY <1>1, MainGoes DEF ListDirectory, TypeOK, PcType, MainPlaces
<1>3. ~startedBar /\ startedBar' = startedBar
  BY <1>2 DEF startedBar
<1>4. pendingBar' = pendingBar
  <2>1. UNCHANGED <<obj, event, m_events>>
    BY DEF ListDirectory, libVars, runVars
  <2>2. PathsKept /\ Unapplied' = Unapplied
    BY <1>2, <2>1 DEF PathsKept, Unapplied
  <2> QED BY <1>1, <2>2, SameFeed
<1> DEFINE p == Dirs[k]
<1>5. p \in Path
  BY <1>1, ElementOfSeq, MonitorAssumption DEF TypeOK
<1>6. UpdateDirectoryListing(p)
  BY DEF ListDirectory
<1> HIDE DEF p
<1>7. CASE UNCHANGED <<m_path, fault>>
  BY <1>3, <1>4, <1>7, SameListing, FeedStutters
<1>8. CASE fault' = "abort" /\ UNCHANGED m_path
  BY <1>3, <1>4, <1>8, SameListing, FeedDies
<1>9. ASSUME node[p] # NoInode, UNCHANGED fault,
             NEW names \in SetToSeqs(files[node[p]]), m_path' = [m_path EXCEPT ![p] = names]
      PROVE  F!FeedNext
  <2>1. files[node[p]] \in SUBSET Name
    BY <1>1, <1>5, <1>9 DEF TypeOK, KernelTypeOK
  <2>2. names \in Seq(Name)
    BY <1>9, <2>1, ListingType
  <2>3. Range(names) \in SUBSET Name /\ names # Absent
    BY <2>2, LenProperties, ElementOfSeq, MonitorAssumption DEF Range
  <2>4. m_path \in [Path -> Seq(Name) \cup {Absent}]
    BY <1>1 DEF TypeOK
  <2>5. listingBar' = [listingBar EXCEPT ![p] = Range(names)]
    BY <1>5, <1>9, <2>3, <2>4 DEF listingBar
  <2> QED BY <1>3, <1>4, <1>5, <1>9, <2>3, <2>5, FeedTakes
<1> QED BY <1>6, <1>7, <1>8, <1>9 DEF UpdateDirectoryListing

(* An event that is queued is announced. *)
LEMMA ParseAnnounces ==
  ASSUME MonitorInv, FeedInv, MonitorInv', FeedInv', ParseOne
  PROVE  [F!FeedNext]_(F!feedVars)
<1>1. TypeOK /\ TypeOK' /\ LoopInStep /\ LoopInStep' /\ WatchTablesAgree /\ StartUpInStep
      /\ StartUpInStep' /\ CallTypeOK
  BY DEF MonitorInv, TypeOK, CallTypeOK, KernelTypeOK
<1>2. /\ pc.monitor = "parse" /\ pc'.monitor \in {"parse", "exit"}
      /\ ParseEvent /\ m_buf # <<>> /\ UNCHANGED <<m_path, fault>>
  BY <1>1, MonitorGoes
     DEF ParseOne, ParseEvent, TypeOK, PcType, MonitorPlaces, monVars
<1>3. Unapplied = m_events /\ Unapplied' = m_events'
  BY <1>1, <1>2, UnappliedIs, ConcatEmptySeq DEF Unapplied, FeedInv
<1>4. startedBar /\ startedBar' /\ listingBar' = listingBar
  BY <1>1, <1>2, StartedWithThread, SameListing DEF StartUpInStep, startedBar
<1>5. PathsKept
  BY <1>1, <1>2, ParseKeepsPaths, AgreeConstructed
<1>6. CASE m_events' = m_events
  <2>1. startedBar' = startedBar
    BY <1>4 DEF startedBar
  <2> QED BY <1>1, <1>2, <1>3, <1>4, <1>5, <1>6, <2>1, SameFeed, FeedStutters
<1>7. CASE m_events' # m_events
  <2> DEFINE e == [watch |-> FindWatch(Head(m_buf).wd), type |-> Head(m_buf).type,
                   name |-> Head(m_buf).name]
  <2>1. m_events' = Append(m_events, e) /\ FindWatch(Head(m_buf).wd) # NULL
    BY <1>2, <1>7 DEF ParseEvent
  <2>2. e \in News
    BY <1>1, <1>2, <2>1, ParsedIsNews
  <2> HIDE DEF e
  <2>3. m_events \in Seq(News) /\ Append(m_events, e) \in Seq(News)
    BY <2>2, AppendProperties DEF FeedInv
  <2>4. pendingBar' = Append(pendingBar, Told(obj, e))
    <3>1. pendingBar' = Mapped(obj', Append(m_events, e))
      BY <1>3, <2>1, PendingIsMapped
    <3>2. Mapped(obj', Append(m_events, e)) = Mapped(obj, Append(m_events, e))
      BY <1>5, <2>3, MappedKept
    <3>3. Mapped(obj, Append(m_events, e)) = Append(Mapped(obj, m_events), Told(obj, e))
      BY <2>2, <2>3, MappedAppend
    <3> QED BY <1>3, <3>1, <3>2, <3>3, PendingIsMapped
  <2>5. startedBar' = startedBar
    BY <1>4 DEF startedBar
  <2> QED BY <1>1, <1>2, <1>4, <2>2, <2>4, <2>5, NewsIsAnnouncement, FeedAnnounces
<1> QED BY <1>6, <1>7

(* A step that leaves listings and events alone. *)
LEMMA StaysOut ==
  ASSUME MonitorInv, FeedInv, PathsKept, m_path' = m_path, Unapplied' = Unapplied,
         startedBar' = startedBar, fault' = fault \/ fault' # "none"
  PROVE  [F!FeedNext]_(F!feedVars)
<1>1. pendingBar' = pendingBar /\ listingBar' = listingBar
  BY SameFeed, SameListing DEF MonitorInv
<1> QED BY <1>1, FeedStutters, FeedDies

(* The event in hand is the oldest of the announcements. *)
LEMMA MutateApplies ==
  ASSUME MonitorInv, FeedInv, fault = "none", Mutate
  PROVE  [F!FeedNext]_(F!feedVars)
<1> DEFINE p == obj[event.watch].path
           n == event.name
           v == IF m_path[p] = Absent THEN <<>> ELSE m_path[p]
<1>1. TypeOK /\ LoopInStep /\ StartUpInStep
  BY DEF MonitorInv
<1>2. pc.monitor = "mutate" /\ pc'.monitor = "emit" /\ pc'.main = pc.main
      /\ UNCHANGED <<obj, m_events, event>>
  BY <1>1, MonitorGoes DEF Mutate, TypeOK, PcType, MonitorPlaces, libVars, runVars
<1>3. event \in News /\ Unapplied = <<event>> \o m_events /\ m_events \in Seq(News)
  BY <1>1, <1>2, UnappliedIs DEF FeedInv
<1>4. Unapplied' = m_events
  BY <1>2, <1>3, ConcatEmptySeq DEF Unapplied
<1>5. pendingBar # <<>> /\ Head(pendingBar) = Told(obj, event) /\ pendingBar' = Tail(pendingBar)
  BY <1>2, <1>3, <1>4, MappedCons, PendingIsMapped
<1>6. startedBar' = startedBar
  BY <1>2 DEF startedBar
<1>7. p \in Path /\ event \in Event /\ event.type \notin Departures
  BY <1>1, <1>3 DEF News, Event, TypeOK, LibraryTypeOK, WatchObject
<1>8. m_path \in [Path -> Seq(Name) \cup {Absent}]
  BY <1>1 DEF TypeOK
<1>9. m_path' = IF event.type \in Arrivals THEN [m_path EXCEPT ![p] = Append(v, n)] ELSE m_path
  BY <1>7 DEF Mutate, Arrivals, Departures
<1>10. CASE event.type \in Arrivals
  <2>1. n \in Name /\ Told(obj, event) = [dir |-> p, kind |-> "arrived", name |-> n]
    BY <1>7, <1>10 DEF Event, ListingEvents, Arrivals, Told, Kind
  <2>2. v \in Seq(Name)
    BY <1>7, <1>8, EmptySeq
  <2>3. F!Names(p) = Range(v)
    <3>1. Range(<<>>) = {}
      BY DEF Range
    <3>2. Range(v) \in SUBSET Name
      BY <2>2, LenProperties, ElementOfSeq DEF Range
    <3> QED BY <1>7, <3>1, <3>2, FeedAssumption DEF F!Names, listingBar
  <2>4. Range(Append(v, n)) = F!Names(p) \cup {n} /\ Append(v, n) # Absent
    <3>1. Range(Append(v, n)) = Range(v) \cup {n}
      BY <2>1, <2>2, RangeAppend
    <3>2. Append(v, n) \in Seq(Name)
      BY <2>1, <2>2, AppendProperties
    <3> HIDE DEF v, n
    <3> QED BY <2>3, <3>1, <3>2, MonitorAssumption
  <2> HIDE DEF p, n, v
  <2>5. listingBar' = [listingBar EXCEPT ![p] = F!Names(p) \cup {n}]
    BY <1>7, <1>8, <1>9, <1>10, <2>4 DEF listingBar
  <2>6. listingBar' = F!Applied(Told(obj, event))
    BY <2>1, <2>5 DEF F!Applied
  <2> QED BY <1>5, <1>6, <2>6, FeedAppliesHead
<1>11. CASE event.type \notin Arrivals
  <2>1. Told(obj, event).kind = "other"
    BY <1>7, <1>11 DEF Told, Kind, ListingEvents, Arrivals, Departures
  <2>2. listingBar' = listingBar
    BY <1>9, <1>11, SameListing
  <2>3. listingBar' = F!Applied(Told(obj, event))
    BY <2>1, <2>2 DEF F!Applied
  <2> QED BY <1>5, <1>6, <2>3, FeedAppliesHead
<1> QED BY <1>10, <1>11

LEMMA StartupMaps ==
  ASSUME MonitorInv, FeedInv, Startup
  PROVE  [F!FeedNext]_(F!feedVars)
<1>1. TypeOK /\ fault = "none" /\ StartUpInStep
  BY DEF MonitorInv, Startup
<1>2. CASE ListDirectory
  BY <1>1, <1>2, ListDirectoryTakes
<1>3. CASE MonitorDirectory
  <2>1. pc.main = "watch" /\ pc'.main \in {"list", "start"} /\ pc'.monitor = pc.monitor
    BY <1>1, <1>3, MainGoes DEF MonitorDirectory, TypeOK, PcType, MainPlaces
  <2>2. UNCHANGED <<obj, m_path, fault, event, m_events>>
    BY <1>3 DEF MonitorDirectory, libVars, runVars
  <2>3. startedBar' = startedBar /\ Unapplied' = Unapplied /\ PathsKept
    BY <2>1, <2>2 DEF startedBar, Unapplied, PathsKept
  <2> QED BY <2>2, <2>3, StaysOut
<1>4. CASE Start
  <2>1. pc.main = "start" /\ pc.monitor = "off" /\ pc'.main = "idle" /\ pc'.monitor = "init"
    BY <1>1, <1>4 DEF Start, StartUpInStep
  <2>2. UNCHANGED <<obj, m_path, fault, event, m_events>>
    BY <1>4 DEF Start, libVars, monVars, runVars
  <2>3. ~startedBar /\ startedBar' = TRUE /\ Unapplied' = Unapplied /\ PathsKept
    BY <2>1, <2>2 DEF startedBar, Unapplied, PathsKept
  <2>4. pendingBar' = pendingBar /\ listingBar' = listingBar
    BY <2>2, <2>3, SameFeed, SameListing DEF MonitorInv
  <2> QED BY <2>2, <2>3, <2>4, FeedBegins
<1> QED BY <1>2, <1>3, <1>4 DEF Startup

LEMMA MainLoopMaps ==
  ASSUME MonitorInv, FeedInv, Owner \/ User \/ DispatchChanged
  PROVE  [F!FeedNext]_(F!feedVars)
<1>1. pc \in PcType
  BY DEF MonitorInv, TypeOK, PcType
<1>2. UNCHANGED <<obj, m_path, fault, event, m_events>>
  BY DEF Owner, EndScan, SetStop, Join, User, BeginScan, CallStop, DispatchChanged,
         libVars, monVars, runVars
<1>3. pc'.monitor = pc.monitor /\ startedBar /\ startedBar'
  <2>1. CASE EndScan \/ BeginScan \/ SetStop
    BY <1>1, <2>1, MainGoes DEF EndScan, BeginScan, SetStop, MainPlaces, startedBar
  <2>2. CASE Join \/ CallStop
    BY <1>1, <2>2, MainGoes DEF Join, CallStop, MainPlaces, startedBar
  <2>3. CASE DispatchChanged
    BY <1>1, <2>3 DEF DispatchChanged, startedBar
  <2> QED BY <2>1, <2>2, <2>3 DEF Owner, User
<1>4. startedBar' = startedBar /\ Unapplied' = Unapplied /\ PathsKept
  BY <1>2, <1>3 DEF startedBar, Unapplied, PathsKept
<1> QED BY <1>2, <1>4, StaysOut

LEMMA RunMaps ==
  ASSUME MonitorInv, FeedInv, MonitorInv', FeedInv', Next, Run \/ Mishap \/ Environment
  PROVE  [F!FeedNext]_(F!feedVars)
<1>1. pc \in PcType /\ TypeOK /\ LoopInStep /\ PathsKept
  BY NextKeepsPaths DEF MonitorInv, TypeOK, PcType
<1>2. ASSUME pc'.main = pc.main, UNCHANGED m_path, Unapplied' = Unapplied,
             fault' = fault \/ fault' # "none"
      PROVE  [F!FeedNext]_(F!feedVars)
  BY <1>1, <1>2, StaysOut DEF startedBar
<1>3. ASSUME pc.monitor \notin {"lock", "mutate"}, pc'.monitor \notin {"lock", "mutate"},
             UNCHANGED m_events
      PROVE  Unapplied' = Unapplied
  BY <1>3 DEF Unapplied
<1>4. CASE ParseOne
  BY <1>4, ParseAnnounces
<1>5. CASE fault = "none" /\ Mutate
  BY <1>5, MutateApplies
<1>6. CASE OpenInotify \/ NewWatch
  <2>1. pc'.main = pc.main /\ pc.monitor \notin {"lock", "mutate"}
        /\ pc'.monitor \notin {"lock", "mutate"}
    <3>1. {"init", "new", "add"} \subseteq MonitorPlaces
      BY DEF MonitorPlaces
    <3>2. Go("monitor", "init", "new") \/ Go("monitor", "new", "add")
      BY <1>6 DEF OpenInotify, NewWatch
    <3> QED BY <1>1, <3>1, <3>2, MonitorGoes
  <2>2. UNCHANGED <<m_path, m_events>> /\ (fault' = fault \/ fault' # "none")
    BY <1>6 DEF OpenInotify, Open, NewWatch, Construct, libVars, monVars
  <2> QED BY <1>2, <1>3, <2>1, <2>2
<1>7. CASE AddWatch
  <2>1. pc'.main = pc.main /\ pc.monitor \notin {"lock", "mutate"}
        /\ pc'.monitor \notin {"lock", "mutate"}
    BY <1>1, <1>7, MonitorGoes DEF AddWatch, MonitorPlaces
  <2>2. UNCHANGED <<m_path, m_events>> /\ (fault' = fault \/ fault' # "none")
    BY <1>7 DEF AddWatch, Add, AddRefused, AddDisabled, AddCollision, AddEnabled, libVars
  <2> QED BY <1>2, <1>3, <2>1, <2>2
<1>8. CASE WatchesPlaced \/ CheckStop \/ WaitForEvents \/ CountEvents \/ Drained \/ Mishap \/ Leave
  <2>1. pc'.main = pc.main /\ pc.monitor \notin {"lock", "mutate"}
        /\ pc'.monitor \notin {"lock", "mutate"}
    BY <1>1, <1>8, MonitorGoes DEF WatchesPlaced, CheckStop, WaitForEvents, CountEvents, Drained,
       Mishap, Interrupted, ReadFails, Leave, MonitorPlaces
  <2>2. UNCHANGED <<m_path, m_events>> /\ (fault' = fault \/ fault' # "none")
    BY <1>8 DEF WatchesPlaced, CheckStop, WaitForEvents, ReadEvents, CountEvents, Drained,
       Mishap, Interrupted, ReadFails, Leave, Close, libVars, monVars
  <2> QED BY <1>2, <1>3, <2>1, <2>2
<1>9. CASE Environment
  <2>1. UNCHANGED <<pc, m_path, m_events, event, fault>>
    BY <1>9 DEF Environment, libVars, monVars, runVars
  <2> QED BY <1>2, <2>1 DEF Unapplied
<1>10. CASE LockPath
  <2>1. pc'.main = pc.main /\ pc.monitor = "lock" /\ pc'.monitor = "mutate"
    BY <1>1, <1>10, MonitorGoes DEF LockPath, MonitorPlaces
  <2>2. UNCHANGED <<m_path, m_events, event, fault>>
    BY <1>10 DEF LockPath, libVars, runVars
  <2> QED BY <1>2, <2>1, <2>2 DEF Unapplied
<1>11. CASE Emit
  <2>1. pc'.main = pc.main /\ pc.monitor = "emit" /\ pc'.monitor = "drain"
    BY <1>1, <1>11, MonitorGoes DEF Emit, MonitorPlaces
  <2>2. UNCHANGED <<m_path, m_events, fault>>
    BY <1>11 DEF Emit, libVars
  <2> QED BY <1>2, <1>3, <2>1, <2>2
<1>12. CASE TakeEvent
  <2>1. UNCHANGED <<m_path, fault>>
    BY <1>12 DEF TakeEvent, GetEvent
  <2>2. CASE m_events = <<>>
    <3>1. pc'.main = pc.main /\ pc.monitor = "drain" /\ pc'.monitor = "drain"
          /\ UNCHANGED m_events
      BY <1>1, <1>12, <2>2, MonitorGoes DEF TakeEvent, MonitorPlaces, libVars
    <3> QED BY <1>2, <1>3, <2>1, <3>1
  <2>3. CASE m_events # <<>>
    <3>1. /\ pc'.main = pc.main /\ pc.monitor = "drain" /\ pc'.monitor = "lock"
          /\ event' = Head(m_events) /\ m_events' = Tail(m_events)
      BY <1>1, <1>12, <2>3, MonitorGoes DEF TakeEvent, GetEvent, MonitorPlaces
    <3>2. m_events \in Seq(News)
      BY DEF FeedInv
    <3>3. <<Head(m_events)>> \o Tail(m_events) = m_events
      BY <2>3, <3>2, HeadThenTail
    <3>4. Unapplied' = Unapplied
      BY <1>1, <3>1, <3>3, UnappliedIs DEF Unapplied
    <3> QED BY <1>2, <2>1, <3>1, <3>4
  <2> QED BY <2>2, <2>3
<1> QED BY <1>4, <1>5, <1>6, <1>7, <1>8, <1>9, <1>10, <1>11, <1>12 DEF Run

LEMMA StepMaps ==
  ASSUME MonitorInv, FeedInv, MonitorInv', FeedInv', [Next]_vars
  PROVE  [F!FeedNext]_(F!feedVars)
<1>1. CASE UNCHANGED vars
  <2>1. UNCHANGED <<obj, m_path, fault, event, m_events, pc>>
    BY <1>1 DEF vars, libVars, monVars, runVars
  <2>2. startedBar' = startedBar /\ Unapplied' = Unapplied /\ PathsKept
    BY <2>1 DEF startedBar, Unapplied, PathsKept
  <2> QED BY <2>1, <2>2, StaysOut
<1>2. CASE Next
  BY <1>2, StartupMaps, MainLoopMaps, RunMaps DEF Next
<1> QED BY <1>1, <1>2

LEMMA InitMaps == Init => F!FeedInit
<1> SUFFICES ASSUME Init PROVE F!FeedInit
  OBVIOUS
<1>1. Unapplied = <<>>
  BY ConcatEmptySeq, EmptySeq DEF Init, LibraryInit, Unapplied
<1>2. pendingBar = <<>>
  BY <1>1 DEF pendingBar
<1>3. listingBar = [p \in Path |-> Absent]
  BY DEF Init, listingBar
<1>4. startedBar = FALSE /\ (fault # "none") = FALSE
  BY DEF Init, LibraryInit, startedBar
<1> QED BY <1>2, <1>3, <1>4 DEF F!FeedInit

-----------------------------------------------------------------------------
(* Where programs only add files, the monitor implements the listing feed: *)
(* a listing is taken before the thread starts, and changes from then on   *)
(* only as the oldest unapplied event says, whatever interleaves.          *)
THEOREM MonitorIsFeed ==
  ASSUME OnlyAdds
  PROVE  Spec => ImplementsFeed
<1>1. Init => MonitorInv /\ FeedInv
  BY InitHolds, NoNewsYet
<1>2. MonitorInv /\ FeedInv /\ [Next]_vars => (MonitorInv /\ FeedInv)'
  BY StepKeeps, FeedStep, OnlyAdds
<1>3. MonitorInv /\ FeedInv /\ (MonitorInv /\ FeedInv)' /\ [Next]_vars
        => [F!FeedNext]_(F!feedVars)
  BY StepMaps
<1> QED BY <1>1, <1>2, <1>3, InitMaps, PTL DEF Spec, ImplementsFeed, F!FeedSafety

=============================================================================
