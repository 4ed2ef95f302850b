------------------------- MODULE PathMonitorProofs -------------------------
(***************************************************************************)
(* What the two threads keep, for every $PATH, every file system and every *)
(* bound: an inductive invariant, MonitorInv, and the properties that      *)
(* follow from it; NameInv beside it, while a path names one directory;    *)
(* SettledInv beside both, while files only arrive.                        *)
(***************************************************************************)
EXTENDS PathMonitor, InotifyProofs, WellFoundedInduction

(* The main thread fills m_watchlist before the other thread exists; the   *)
(* watch that is about to be added is a new one.                           *)
StartUpInStep ==
  /\ Len(m_watchlist) <= Len(Dirs)
  /\ pc.main \in {"list", "watch"} => Len(m_watchlist) < k
  /\ pc.main \in {"list", "watch", "start"} => pc.monitor = "off"
  /\ pc.monitor = "add" =>
       i <= Len(m_watchlist) /\ obj[i] # NULL /\ obj[i].wd = NoWd

(* An event is in hand between GetEvent() and sig_changed, the buffer is   *)
(* empty but while it is parsed, the deque but while it is drained.        *)
LoopInStep ==
  /\ IF pc.monitor \in {"lock", "mutate", "emit"} THEN event \in Event ELSE event = NULL
  /\ pc.monitor # "parse" => m_buf = <<>>
  /\ pc.monitor \in {"off", "init", "new", "add", "check", "wait"} => m_events = <<>>

MonitorInv ==
  TypeOK /\ WatchTablesAgree /\ CountIsExact /\ StartUpInStep /\ LoopInStep

PcType == [main : MainPlaces, monitor : MonitorPlaces]

LEMMA MainGoes ==
  ASSUME pc \in PcType, NEW from, NEW to \in MainPlaces, Go("main", from, to)
  PROVE  pc.main = from /\ pc'.main = to /\ pc'.monitor = pc.monitor /\ pc' \in PcType
BY DEF PcType, Go

LEMMA MonitorGoes ==
  ASSUME pc \in PcType, NEW from, NEW to \in MonitorPlaces, Go("monitor", from, to)
  PROVE  pc.monitor = from /\ pc'.monitor = to /\ pc'.main = pc.main /\ pc' \in PcType
BY DEF PcType, Go

(* The fields of the kernel, now and after a step. *)
LEMMA KernelFields ==
  /\ TypeOK => /\ kern \in KernelType /\ kern.wd \in [Inode -> Wd]
               /\ kern.next \in 1..(MaxWd + 1) /\ kern.next \in Nat /\ MaxWd \in Nat
  /\ TypeOK' => /\ kern' \in KernelType /\ kern'.wd \in [Inode -> Wd]
                /\ kern'.next \in 1..(MaxWd + 1) /\ kern'.next \in Nat
<1>1. ASSUME NEW K \in KernelType
      PROVE  /\ K.wd \in [Inode -> Wd] /\ K.next \in 1..(MaxWd + 1)
             /\ K.next \in Nat /\ MaxWd \in Nat
  <2>1. K.wd \in [Inode -> Wd] /\ K.next \in 1..(MaxWd + 1)
    BY DEF KernelType
  <2> QED BY <2>1, KernelAssumption
<1>2. (TypeOK => kern \in KernelType) /\ (TypeOK' => kern' \in KernelType)
  BY DEF TypeOK, KernelTypeOK
<1> QED BY <1>1, <1>2

(* A directory is listed as a sequence of its names. *)
LEMMA ListingType ==
  ASSUME NEW S \in SUBSET Name, NEW listing \in SetToSeqs(S)
  PROVE  listing \in Seq(S) /\ listing \in Seq(Name)
<1>1. IsFiniteSet(S)
  BY FS_Subset, KernelAssumption
<1>2. Cardinality(S) \in Nat
  BY <1>1, FS_CardinalityType
<1>3. listing \in [1..Cardinality(S) -> S]
  BY DEF SetToSeqs
<1>4. listing \in Seq(S)
  BY <1>2, <1>3
<1>5. QED
  BY <1>4, SeqMonotonic

(* A nonempty set of naturals has a least element. *)
LEMMA MinType ==
  ASSUME NEW S \in SUBSET Nat, S # {}
  PROVE  Min(S) \in S
<1>1. PICK x \in S : \A y \in S : <<y, x>> \notin OpToRel(<, Nat)
  BY NatLessThanWellFounded, WFMin
<1>2. \A y \in S : ~(y < x)
  BY <1>1, Zenon DEF OpToRel
<1>3. \A y \in S : x <= y
  BY <1>2
<1>4. QED
  BY <1>3 DEF Min

(* Erasing from a listing adds nothing. *)
LEMMA ErasedType ==
  ASSUME NEW S, NEW v \in Seq(S), v # <<>>, NEW n
  PROVE  Erased(v, n) \in Seq(S)
<1> DEFINE found == {x \in 1..(Len(v) - 1) : v[x] = n}
<1>1. Len(v) \in Nat \ {0} /\ \A x \in 1..Len(v) : v[x] \in S
  BY EmptySeq, ElementOfSeq
<1>2. Front(v) \in Seq(S)
  BY <1>1, SubSeqProperties DEF Front
<1>3. CASE found # {}
  <2>1. Min(found) \in found
    <3>1. found \in SUBSET Nat
      BY <1>1
    <3>2. QED
      BY <1>3, <3>1, MinType
  <2>2. Min(found) + 1 \in 2..Len(v)
    BY <1>1, <2>1
  <2> DEFINE at == Min(found) + 1
  <2>3. SubSeq(v, 1, at - 1) \in Seq(S) /\ SubSeq(v, at + 1, Len(v)) \in Seq(S)
    <3>1. at - 1 \in Int /\ at + 1 \in Int /\ Len(v) \in Int /\ at - 1 <= Len(v)
      BY <1>1, <2>2
    <3>2. \A x \in 1..(at - 1) : v[x] \in S
      BY <1>1, <2>2
    <3>3. \A x \in (at + 1)..Len(v) : v[x] \in S
      BY <1>1, <2>2
    <3> HIDE DEF at
    <3>4. QED
      BY <3>1, <3>2, <3>3, SubSeqProperties
  <2>4. RemoveAt(v, at) \in Seq(S)
    BY <2>3, ConcatProperties DEF RemoveAt
  <2>5. QED
    BY <1>3, <2>4 DEF Erased
<1>4. QED
  BY <1>2, <1>3 DEF Erased

-----------------------------------------------------------------------------
(* Each step keeps the invariant *)

(* Steps that leave the library and the loop alone keep what is said of    *)
(* them.                                                                   *)
LEMMA LibraryUnchanged ==
  ASSUME WatchTablesAgree, UNCHANGED libVars
  PROVE  WatchTablesAgree'
BY DEF WatchTablesAgree, libVars

LEMMA LoopUnchanged ==
  ASSUME CountIsExact, LoopInStep, UNCHANGED <<libVars, runVars>>, pc'.monitor = pc.monitor
  PROVE  CountIsExact' /\ LoopInStep'
BY DEF CountIsExact, LoopInStep, libVars, runVars

LEMMA StartupKeeps ==
  ASSUME MonitorInv, Startup
  PROVE  MonitorInv'
<1> USE DEF MonitorInv
<1>1. CASE ListDirectory
  <2>1. pc.main = "list" /\ pc'.main = "watch" /\ pc'.monitor = pc.monitor /\ pc' \in PcType
    BY <1>1, MainGoes DEF ListDirectory, TypeOK, PcType, MainPlaces
  <2>2. UNCHANGED <<kernelVars, libVars, m_watchlist, m_stop, m_mutex, k, runVars, pipe>>
    BY <1>1 DEF ListDirectory
  <2>3. m_path' \in [Path -> Seq(Name) \cup {Absent}] /\ fault' \in {"none", "abort", "corrupt"}
    <3>1. Dirs[k] \in Path
      BY ElementOfSeq, MonitorAssumption DEF TypeOK
    <3>2. node[Dirs[k]] # NoInode => files[node[Dirs[k]]] \in SUBSET Name
      BY <3>1 DEF TypeOK, KernelTypeOK
    <3>3. UpdateDirectoryListing(Dirs[k])
      BY <1>1 DEF ListDirectory
    <3>4. QED
      BY <3>1, <3>2, <3>3, ListingType DEF UpdateDirectoryListing, TypeOK, LibraryTypeOK
  <2>4. TypeOK'
    BY <2>1, <2>2, <2>3
       DEF TypeOK, KernelTypeOK, LibraryTypeOK, kernelVars, libVars, runVars, PcType
  <2>5. StartUpInStep'
    BY <2>1, <2>2 DEF StartUpInStep, libVars, runVars
  <2>6. QED
    BY <2>1, <2>2, <2>4, <2>5, LibraryUnchanged, LoopUnchanged
<1>2. CASE MonitorDirectory
  <2> DEFINE next == IF k < Len(Dirs) THEN "list" ELSE "start"
  <2>1. pc.main = "watch" /\ pc'.main = next /\ pc'.monitor = pc.monitor /\ pc' \in PcType
    BY <1>2, MainGoes DEF MonitorDirectory, TypeOK, PcType, MainPlaces
  <2>2. UNCHANGED <<kernelVars, libVars, fault, m_path, m_stop, m_mutex, runVars, pipe>>
    BY <1>2 DEF MonitorDirectory
  <2>3. Dirs[k] \in Path /\ Len(Dirs) \in Nat /\ k \in 1..Len(Dirs)
    BY ElementOfSeq, LenProperties, MonitorAssumption DEF TypeOK
  <2>4. m_watchlist \in Seq(Path) /\ Len(m_watchlist) \in Nat /\ Len(m_watchlist) < k
    BY <2>1, LenProperties DEF TypeOK, StartUpInStep
  <2>5. m_watchlist' \in Seq(Path) /\ Len(m_watchlist') <= Len(m_watchlist) + 1
    BY <1>2, <2>3, <2>4, AppendProperties DEF MonitorDirectory
  <2>6. k' = (IF k < Len(Dirs) THEN k + 1 ELSE k)
    BY <1>2 DEF MonitorDirectory
  <2>7. TypeOK'
    BY <2>1, <2>2, <2>3, <2>5, <2>6
       DEF TypeOK, KernelTypeOK, LibraryTypeOK, kernelVars, libVars, runVars, PcType
  <2>8. StartUpInStep'
    <3>1. Len(m_watchlist') \in Nat
      BY <2>5, LenProperties
    <3>2. pc.monitor = "off"
      BY <2>1 DEF StartUpInStep
    <3>3. QED
      BY <2>1, <2>3, <2>4, <2>5, <2>6, <3>1, <3>2 DEF StartUpInStep
  <2>9. QED
    BY <2>1, <2>2, <2>7, <2>8, LibraryUnchanged, LoopUnchanged
<1>3. CASE Start
  <2>1. pc.monitor = "off" /\ pc' = [main |-> "idle", monitor |-> "init"]
    BY <1>3 DEF Start, StartUpInStep
  <2>2. UNCHANGED <<kernelVars, libVars, fault, monVars>>
    BY <1>3 DEF Start
  <2>3. TypeOK'
    BY <2>1, <2>2 DEF TypeOK, KernelTypeOK, LibraryTypeOK, kernelVars, libVars,
                      monVars, runVars, MainPlaces, MonitorPlaces
  <2>4. StartUpInStep' /\ LoopInStep' /\ CountIsExact'
    BY <2>1, <2>2 DEF StartUpInStep, LoopInStep, CountIsExact, libVars, monVars, runVars
  <2>5. QED
    BY <2>2, <2>3, <2>4, LibraryUnchanged
<1>4. QED
  BY <1>1, <1>2, <1>3 DEF Startup

LEMMA MainLoopKeeps ==
  ASSUME MonitorInv, Owner \/ User \/ DispatchChanged
  PROVE  MonitorInv'
<1> USE DEF MonitorInv
<1>1. /\ pc' \in PcType /\ pc'.monitor = pc.monitor
      /\ pc'.main \notin {"list", "watch", "start"}
  <2>1. pc \in PcType
    BY DEF TypeOK, PcType
  <2>2. CASE EndScan \/ BeginScan
    BY <2>1, <2>2, MainGoes DEF EndScan, BeginScan, MainPlaces
  <2>3. CASE SetStop
    BY <2>1, <2>3, MainGoes DEF SetStop, MainPlaces
  <2>4. CASE Join \/ CallStop
    BY <2>1, <2>4, MainGoes DEF Join, CallStop, MainPlaces
  <2>5. CASE DispatchChanged
    BY <2>1, <2>5 DEF DispatchChanged
  <2>6. QED
    BY <2>2, <2>3, <2>4, <2>5 DEF Owner, User
<1>2. /\ UNCHANGED <<kernelVars, libVars, fault, m_path, m_watchlist, m_mutex, k, runVars>>
      /\ m_stop' \in BOOLEAN /\ pipe' \in 0..PipeCap
  <2>1. m_stop \in BOOLEAN /\ pipe \in 0..PipeCap /\ PipeCap \in Nat
    BY MonitorAssumption DEF TypeOK
  <2>2. CASE Owner \/ User
    BY <2>1, <2>2 DEF Owner, User, EndScan, SetStop, Join, BeginScan, CallStop, monVars
  <2>3. CASE DispatchChanged
    BY <2>1, <2>3 DEF DispatchChanged
  <2>4. QED
    BY <2>2, <2>3
<1>3. TypeOK'
  BY <1>1, <1>2 DEF TypeOK, KernelTypeOK, LibraryTypeOK, kernelVars, libVars, runVars, PcType
<1>4. StartUpInStep'
  BY <1>1, <1>2 DEF StartUpInStep, libVars, runVars
<1>5. QED
  BY <1>1, <1>2, <1>3, <1>4, LibraryUnchanged, LoopUnchanged

LEMMA EnvironmentKeeps ==
  ASSUME MonitorInv, Environment
  PROVE  MonitorInv'
<1> USE DEF MonitorInv
<1>1. UNCHANGED <<libVars, fault, monVars, pc>>
  BY DEF Environment
<1>2. KernelTypeOK'
  BY FileSystemType DEF Environment, TypeOK
<1>3. TypeOK'
  BY <1>1, <1>2 DEF TypeOK, LibraryTypeOK, libVars, monVars, runVars
<1>4. StartUpInStep' /\ CountIsExact' /\ LoopInStep'
  BY <1>1 DEF StartUpInStep, CountIsExact, LoopInStep, libVars, monVars, runVars
<1>5. QED
  BY <1>1, <1>3, <1>4, LibraryUnchanged

(* The thread opens inotify and places its watches. *)
LEMMA PlaceWatchesKeeps ==
  ASSUME MonitorInv, OpenInotify \/ NewWatch \/ AddWatch \/ WatchesPlaced
  PROVE  MonitorInv'
<1> USE DEF MonitorInv
<1>1. pc \in PcType /\ CallTypeOK /\ KernelTypeOK
  BY DEF TypeOK, PcType, CallTypeOK, KernelTypeOK
<1>2. Len(Dirs) \in Nat /\ Len(m_watchlist) \in Nat /\ i \in 1..Len(Dirs) + 1
  BY LenProperties, MonitorAssumption DEF TypeOK
<1>3. CASE OpenInotify
  <2>1. /\ pc.monitor = "init" /\ pc'.monitor = "new" /\ pc'.main = pc.main
        /\ pc' \in PcType
    BY <1>1, <1>3, MonitorGoes DEF OpenInotify, MonitorPlaces
  <2>2. UNCHANGED <<libVars, node, files, ops, monVars>>
    BY <1>3 DEF OpenInotify, Open
  <2>3. kern' \in KernelType /\ fault' \in {"none", "abort", "corrupt"}
    BY <1>1, <1>3 DEF OpenInotify, Open, CallTypeOK, LibraryTypeOK, KernelType
  <2>4. TypeOK'
    BY <2>1, <2>2, <2>3
       DEF TypeOK, KernelTypeOK, LibraryTypeOK, libVars, monVars, runVars, PcType
  <2>5. StartUpInStep' /\ CountIsExact' /\ LoopInStep'
    BY <2>1, <2>2
       DEF StartUpInStep, CountIsExact, LoopInStep, libVars, monVars, runVars
  <2>6. QED
    BY <2>2, <2>4, <2>5, LibraryUnchanged
<1>4. CASE NewWatch
  <2>1. /\ pc.monitor = "new" /\ pc'.monitor = "add" /\ pc'.main = pc.main
        /\ pc' \in PcType
    BY <1>1, <1>4, MonitorGoes DEF NewWatch, MonitorPlaces
  <2>2. UNCHANGED <<node, files, ops, monVars>> /\ i <= Len(m_watchlist)
    BY <1>4 DEF NewWatch
  <2>3. i \in Watch /\ m_watchlist[i] \in Path
    <3>1. i \in 1..Len(m_watchlist)
      BY <1>2, <2>2
    <3>2. QED
      BY <1>2, <3>1, ElementOfSeq, MonitorAssumption DEF StartUpInStep, TypeOK
  <2>4. Construct(i, m_watchlist[i], ListingEvents, TRUE) /\ ListingEvents \in SUBSET MaskBits
    BY <1>4 DEF NewWatch, MaskBits
  <2>5. CallTypeOK' /\ WatchTablesAgree'
    BY <1>1, <2>3, <2>4, ConstructType, ConstructAgrees
  <2>6. /\ UNCHANGED <<m_buf, m_events>>
        /\ obj'[i] # NULL /\ obj'[i].wd = NoWd
    <3>1. PICK garbage \in {"null", "wild"} :
            obj' = [obj EXCEPT ![i] = [path |-> m_watchlist[i], mask |-> ListingEvents,
                                       wd |-> NoWd, inotify |-> garbage, enabled |-> TRUE]]
      BY <2>4 DEF Construct
    <3>2. obj'[i] = [path |-> m_watchlist[i], mask |-> ListingEvents,
                     wd |-> NoWd, inotify |-> garbage, enabled |-> TRUE]
      BY <1>1, <2>3, <3>1 DEF CallTypeOK, LibraryTypeOK
    <3>3. obj'[i] \in WatchObject
      BY <2>3, <2>4, <3>2, WdType DEF WatchObject
    <3>4. obj'[i] # NULL
      BY <3>3, LibraryAssumption
    <3>5. obj'[i].wd = NoWd
      BY <3>2
    <3>6. UNCHANGED <<m_buf, m_events>>
      BY <2>4 DEF Construct
    <3>7. QED
      BY <3>4, <3>5, <3>6
  <2>7. TypeOK'
    BY <2>1, <2>2, <2>5
       DEF TypeOK, CallTypeOK, KernelTypeOK, LibraryTypeOK, monVars, runVars, PcType
  <2>8. StartUpInStep' /\ CountIsExact' /\ LoopInStep'
    BY <2>1, <2>2, <2>6
       DEF StartUpInStep, CountIsExact, LoopInStep, monVars, runVars
  <2>9. QED
    BY <2>5, <2>7, <2>8
<1>5. CASE AddWatch
  <2>1. /\ pc.monitor = "add" /\ pc'.monitor = "new" /\ pc'.main = pc.main
        /\ pc' \in PcType
    BY <1>1, <1>5, MonitorGoes DEF AddWatch, MonitorPlaces
  <2>2. /\ UNCHANGED <<node, files, ops, m_path, m_watchlist, m_stop, m_mutex, k,
                       count, event, pipe>>
        /\ Add(i) /\ i' = i + 1
    BY <1>5 DEF AddWatch
  <2>3. i <= Len(m_watchlist) /\ obj[i] # NULL /\ obj[i].wd = NoWd /\ i \in Watch
    BY <1>2, <2>1, MonitorAssumption DEF StartUpInStep
  <2>4. CallTypeOK' /\ WatchTablesAgree'
    BY <1>1, <2>2, <2>3, AddType, AgreeConstructed, AddAgrees
  <2>5. UNCHANGED <<m_buf, m_events>>
    BY <2>2 DEF Add, AddRefused, AddDisabled, AddCollision, AddEnabled, libVars
  <2>6. i' \in 1..Len(Dirs) + 1
    BY <1>2, <2>2, <2>3 DEF StartUpInStep
  <2>7. TypeOK'
    BY <2>1, <2>2, <2>4, <2>6
       DEF TypeOK, CallTypeOK, KernelTypeOK, LibraryTypeOK, PcType
  <2>8. StartUpInStep' /\ CountIsExact' /\ LoopInStep'
    BY <2>1, <2>2, <2>5 DEF StartUpInStep, CountIsExact, LoopInStep
  <2>9. QED
    BY <2>4, <2>7, <2>8
<1>6. CASE WatchesPlaced
  <2>1. /\ pc.monitor = "new" /\ pc'.monitor = "check" /\ pc'.main = pc.main
        /\ pc' \in PcType
    BY <1>1, <1>6, MonitorGoes DEF WatchesPlaced, MonitorPlaces
  <2>2. UNCHANGED <<kernelVars, libVars, fault, monVars>>
    BY <1>6 DEF WatchesPlaced
  <2>3. TypeOK'
    BY <2>1, <2>2
       DEF TypeOK, KernelTypeOK, LibraryTypeOK, kernelVars, libVars, monVars, runVars, PcType
  <2>4. StartUpInStep' /\ CountIsExact' /\ LoopInStep'
    BY <2>1, <2>2
       DEF StartUpInStep, CountIsExact, LoopInStep, libVars, monVars, runVars
  <2>5. QED
    BY <2>2, <2>3, <2>4, LibraryUnchanged
<1>7. QED
  BY <1>3, <1>4, <1>5, <1>6

(* The thread reads, parses and counts. *)
LEMMA ReadKeeps ==
  ASSUME MonitorInv,
         CheckStop \/ WaitForEvents \/ Interrupted \/ ReadFails \/ ParseOne
           \/ CountEvents \/ Leave
  PROVE  MonitorInv'
<1> USE DEF MonitorInv
<1>1. pc \in PcType /\ CallTypeOK /\ KernelTypeOK
  BY DEF TypeOK, PcType, CallTypeOK, KernelTypeOK
<1>2. CASE CheckStop \/ Interrupted \/ ReadFails
  <2>1. /\ pc.monitor \in {"check", "wait"} /\ pc'.monitor \in {"wait", "parse", "exit"}
        /\ pc'.main = pc.main /\ pc' \in PcType
    BY <1>1, <1>2, MonitorGoes DEF CheckStop, Interrupted, ReadFails, MonitorPlaces
  <2>2. UNCHANGED <<kernelVars, libVars, fault, monVars>>
    BY <1>2 DEF CheckStop, Interrupted, ReadFails
  <2>3. TypeOK'
    BY <2>1, <2>2
       DEF TypeOK, KernelTypeOK, LibraryTypeOK, kernelVars, libVars, monVars, runVars, PcType
  <2>4. StartUpInStep' /\ CountIsExact' /\ LoopInStep'
    BY <2>1, <2>2
       DEF StartUpInStep, CountIsExact, LoopInStep, libVars, monVars, runVars
  <2>5. QED
    BY <2>2, <2>3, <2>4, LibraryUnchanged
<1>3. CASE WaitForEvents
  <2>1. /\ pc.monitor = "wait" /\ pc'.monitor = "parse"
        /\ pc'.main = pc.main /\ pc' \in PcType
    BY <1>1, <1>3, MonitorGoes DEF WaitForEvents, MonitorPlaces
  <2>2. /\ ReadEvents /\ UNCHANGED <<node, files, ops, monVars>>
        /\ UNCHANGED <<obj, m_watches, m_paths, m_events, fault>>
    BY <1>3 DEF WaitForEvents, ReadEvents
  <2>3. CallTypeOK'
    BY <1>1, <2>2, ReadEventsType
  <2>4. TypeOK'
    BY <2>1, <2>2, <2>3
       DEF TypeOK, CallTypeOK, KernelTypeOK, LibraryTypeOK, monVars, runVars, PcType
  <2>5. StartUpInStep' /\ CountIsExact' /\ LoopInStep' /\ WatchTablesAgree'
    BY <2>1, <2>2
       DEF StartUpInStep, CountIsExact, LoopInStep, WatchTablesAgree, monVars, runVars
  <2>6. QED
    BY <2>4, <2>5
<1>4. CASE ParseOne
  <2>1. /\ pc.monitor = "parse" /\ pc'.monitor = (IF ParseThrows THEN "exit" ELSE "parse")
        /\ pc'.main = pc.main /\ pc' \in PcType
    BY <1>1, <1>4, MonitorGoes DEF ParseOne, MonitorPlaces
  <2>2. ParseEvent /\ UNCHANGED <<node, files, ops, monVars>>
    BY <1>4 DEF ParseOne
  <2>3. CallTypeOK' /\ WatchTablesAgree'
    BY <1>1, <2>2, ParseEventType, AgreeConstructed, ParseEventAgrees
  <2>4. TypeOK'
    BY <2>1, <2>2, <2>3
       DEF TypeOK, CallTypeOK, KernelTypeOK, LibraryTypeOK, monVars, runVars, PcType
  <2>5. StartUpInStep' /\ CountIsExact'
    BY <2>1, <2>2 DEF StartUpInStep, CountIsExact, monVars, runVars
  <2>6. LoopInStep'
    <3>1. ParseThrows => m_buf' = <<>>
      BY <2>2 DEF ParseEvent
    <3>2. QED
      BY <2>1, <2>2, <3>1 DEF LoopInStep, monVars, runVars
  <2>7. QED
    BY <2>3, <2>4, <2>5, <2>6
<1>5. CASE CountEvents
  <2>1. /\ pc.monitor = "parse" /\ pc'.monitor = "drain"
        /\ pc'.main = pc.main /\ pc' \in PcType
    BY <1>1, <1>5, MonitorGoes DEF CountEvents, MonitorPlaces
  <2>2. /\ UNCHANGED <<kernelVars, libVars, fault, m_path, m_watchlist, m_stop,
                       m_mutex, k, i, event, pipe>>
        /\ m_buf = <<>> /\ count' = Len(m_events)
    BY <1>5 DEF CountEvents
  <2>3. Len(m_events) \in Nat
    BY <1>1, LenProperties DEF CallTypeOK, LibraryTypeOK
  <2>4. TypeOK'
    BY <2>1, <2>2, <2>3
       DEF TypeOK, KernelTypeOK, LibraryTypeOK, kernelVars, libVars, PcType
  <2>5. StartUpInStep' /\ CountIsExact' /\ LoopInStep'
    BY <2>1, <2>2 DEF StartUpInStep, CountIsExact, LoopInStep, libVars
  <2>6. QED
    BY <2>2, <2>4, <2>5, LibraryUnchanged
<1>6. CASE Leave
  <2>1. /\ pc.monitor = "exit" /\ pc'.monitor = "exited"
        /\ pc'.main = pc.main /\ pc' \in PcType
    BY <1>1, <1>6, MonitorGoes DEF Leave, MonitorPlaces
  <2>2. Close /\ UNCHANGED <<node, files, ops, monVars, m_buf, m_events>>
    BY <1>6 DEF Leave, Close
  <2>3. CallTypeOK' /\ WatchTablesAgree'
    BY <1>1, <2>2, CloseType, AgreeConstructed, CloseAgrees
  <2>4. TypeOK'
    BY <2>1, <2>2, <2>3
       DEF TypeOK, CallTypeOK, KernelTypeOK, LibraryTypeOK, monVars, runVars, PcType
  <2>5. StartUpInStep' /\ CountIsExact' /\ LoopInStep'
    BY <2>1, <2>2
       DEF StartUpInStep, CountIsExact, LoopInStep, monVars, runVars
  <2>6. QED
    BY <2>3, <2>4, <2>5
<1>7. QED
  BY <1>2, <1>3, <1>4, <1>5, <1>6

(* The thread takes the events one by one and applies them. *)
LEMMA DrainKeeps ==
  ASSUME MonitorInv, TakeEvent \/ Drained \/ LockPath \/ Mutate \/ Emit
  PROVE  MonitorInv'
<1> USE DEF MonitorInv
<1>1. pc \in PcType /\ CallTypeOK /\ KernelTypeOK
  BY DEF TypeOK, PcType, CallTypeOK, KernelTypeOK
<1>2. m_events \in Seq(Event) /\ Len(m_events) \in Nat
  BY <1>1, LenProperties DEF CallTypeOK, LibraryTypeOK
<1>3. CASE TakeEvent
  <2>1. pc.monitor = "drain"
    BY <1>3 DEF TakeEvent, Go
  <2>2. m_events # <<>>
    <3>1. Len(m_events) > 0
      BY <1>2, <1>3, <2>1 DEF TakeEvent, CountIsExact
    <3>2. QED
      BY <3>1, EmptySeq
  <2>3. /\ GetEvent /\ event' = Head(m_events)
        /\ UNCHANGED <<count, node, files, ops, m_path, m_watchlist, m_stop, m_mutex,
                       k, i, pipe>>
        /\ m_events' = Tail(m_events)
        /\ UNCHANGED <<obj, m_watches, m_paths, m_buf, kern, fault>>
    BY <1>3, <2>2 DEF TakeEvent, GetEvent
  <2>4. /\ pc'.monitor = "lock" /\ pc'.main = pc.main /\ pc' \in PcType
    BY <1>1, <1>3, <2>2, MonitorGoes DEF TakeEvent, MonitorPlaces
  <2>5. CallTypeOK' /\ Head(m_events) \in Event
    BY <1>1, <2>3, GetEventType
  <2>6. TypeOK'
    BY <2>3, <2>4, <2>5
       DEF TypeOK, CallTypeOK, KernelTypeOK, LibraryTypeOK, PcType
  <2>7. CountIsExact'
    <3>1. Len(Tail(m_events)) = Len(m_events) - 1
      BY <1>2, <2>2, HeadTailProperties
    <3>2. QED
      BY <1>2, <2>1, <2>3, <2>4, <3>1 DEF CountIsExact
  <2>8. StartUpInStep' /\ LoopInStep' /\ WatchTablesAgree'
    BY <2>1, <2>3, <2>4, <2>5 DEF StartUpInStep, LoopInStep, WatchTablesAgree
  <2>9. QED
    BY <2>6, <2>7, <2>8
<1>4. CASE Drained
  <2>1. /\ pc.monitor = "drain" /\ pc'.monitor = "check"
        /\ pc'.main = pc.main /\ pc' \in PcType
    BY <1>1, <1>4, MonitorGoes DEF Drained, MonitorPlaces
  <2>2. UNCHANGED <<kernelVars, libVars, fault, monVars>> /\ count = 0
    BY <1>4 DEF Drained
  <2>3. m_events = <<>>
    BY <1>2, <2>1, <2>2, EmptySeq DEF CountIsExact
  <2>4. TypeOK'
    BY <2>1, <2>2
       DEF TypeOK, KernelTypeOK, LibraryTypeOK, kernelVars, libVars, monVars, runVars, PcType
  <2>5. StartUpInStep' /\ CountIsExact' /\ LoopInStep'
    BY <2>1, <2>2, <2>3
       DEF StartUpInStep, CountIsExact, LoopInStep, libVars, monVars, runVars
  <2>6. QED
    BY <2>2, <2>4, <2>5, LibraryUnchanged
<1>5. CASE LockPath
  <2>1. /\ pc.monitor = "lock" /\ pc'.monitor = "mutate"
        /\ pc'.main = pc.main /\ pc' \in PcType
    BY <1>1, <1>5, MonitorGoes DEF LockPath, MonitorPlaces
  <2>2. /\ UNCHANGED <<kernelVars, libVars, fault, m_path, m_watchlist, m_stop, k,
                       runVars, pipe>>
        /\ m_mutex' = "monitor"
    BY <1>5 DEF LockPath
  <2>3. TypeOK'
    BY <2>1, <2>2
       DEF TypeOK, KernelTypeOK, LibraryTypeOK, kernelVars, libVars, runVars, PcType
  <2>4. StartUpInStep' /\ CountIsExact' /\ LoopInStep'
    BY <2>1, <2>2 DEF StartUpInStep, CountIsExact, LoopInStep, libVars, runVars
  <2>5. QED
    BY <2>2, <2>3, <2>4, LibraryUnchanged
<1>6. CASE Mutate
  <2> DEFINE p == obj[event.watch].path
             v == IF m_path[p] = Absent THEN <<>> ELSE m_path[p]
  <2>1. /\ pc.monitor = "mutate" /\ pc'.monitor = "emit"
        /\ pc'.main = pc.main /\ pc' \in PcType
    BY <1>1, <1>6, MonitorGoes DEF Mutate, MonitorPlaces
  <2>2. UNCHANGED <<kernelVars, libVars, m_watchlist, m_stop, m_mutex, k, runVars, pipe>>
    BY <1>6 DEF Mutate
  <2>3. fault' \in {"none", "abort", "corrupt"}
    BY <1>6 DEF Mutate
  <2>4. m_path' \in [Path -> Seq(Name) \cup {Absent}]
    <3>1. m_path \in [Path -> Seq(Name) \cup {Absent}]
      BY DEF TypeOK
    <3>2. p \in Path => v \in Seq(Name)
      BY <3>1, EmptySeq
    <3>3. event \in Event
      BY <2>1 DEF LoopInStep
    <3>4. CASE event.type \in Arrivals
      <4>1. event.name \in Name
        BY <3>3, <3>4 DEF Event, Arrivals
      <4>2. p \in Path => Append(v, event.name) \in Seq(Name)
        BY <3>2, <4>1, AppendProperties
      <4>3. m_path' = [m_path EXCEPT ![p] = Append(v, event.name)]
        BY <1>6, <3>4 DEF Mutate, Arrivals, Departures
      <4>4. QED
        BY <3>1, <4>2, <4>3
    <3>5. CASE event.type \in Departures /\ v # <<>>
      <4>1. p \in Path => Erased(v, event.name) \in Seq(Name)
        BY <3>2, <3>5, ErasedType
      <4>2. m_path' = [m_path EXCEPT ![p] = Erased(v, event.name)]
        BY <1>6, <3>5 DEF Mutate, Arrivals, Departures
      <4>3. QED
        BY <3>1, <4>1, <4>2
    <3>6. CASE event.type \notin Arrivals /\ ~(event.type \in Departures /\ v # <<>>)
      BY <1>6, <3>1, <3>6 DEF Mutate
    <3>7. QED
      BY <3>4, <3>5, <3>6
  <2>5. TypeOK'
    BY <2>1, <2>2, <2>3, <2>4
       DEF TypeOK, KernelTypeOK, LibraryTypeOK, kernelVars, libVars, runVars, PcType
  <2>6. StartUpInStep' /\ CountIsExact' /\ LoopInStep'
    BY <2>1, <2>2 DEF StartUpInStep, CountIsExact, LoopInStep, libVars, runVars
  <2>7. QED
    BY <2>2, <2>5, <2>6, LibraryUnchanged
<1>7. CASE Emit
  <2>1. /\ pc.monitor = "emit" /\ pc'.monitor = "drain"
        /\ pc'.main = pc.main /\ pc' \in PcType
    BY <1>1, <1>7, MonitorGoes DEF Emit, MonitorPlaces
  <2>2. /\ UNCHANGED <<kernelVars, libVars, fault, m_path, m_watchlist, m_stop, k, i>>
        /\ pipe < PipeCap /\ pipe' = pipe + 1
        /\ m_mutex' = "free" /\ count' = count - 1 /\ event' = NULL
    BY <1>7 DEF Emit
  <2>3. count = Len(m_events) + 1 /\ count' \in Nat
    BY <1>2, <2>1, <2>2 DEF CountIsExact
  <2>4. pipe' \in 0..PipeCap
    BY <2>2, MonitorAssumption DEF TypeOK
  <2>5. TypeOK'
    BY <2>1, <2>2, <2>3, <2>4
       DEF TypeOK, KernelTypeOK, LibraryTypeOK, kernelVars, libVars, PcType
  <2>6. StartUpInStep' /\ CountIsExact' /\ LoopInStep'
    BY <1>2, <2>1, <2>2, <2>3 DEF StartUpInStep, CountIsExact, LoopInStep, libVars
  <2>7. QED
    BY <2>2, <2>5, <2>6, LibraryUnchanged
<1>8. QED
  BY <1>3, <1>4, <1>5, <1>6, <1>7

LEMMA InitHolds == Init => MonitorInv
<1> SUFFICES ASSUME Init PROVE MonitorInv
  OBVIOUS
<1> USE DEF Init
<1>1. KernelTypeOK
  <2>1. <<>> \in Seq(KernelEvent)
    BY EmptySeq
  <2>2. kern \in KernelType
    BY <2>1, WdType, KernelAssumption DEF KernelInit, KernelType
  <2>3. QED
    BY <2>2, KernelAssumption DEF KernelInit, KernelTypeOK
<1>2. LibraryTypeOK
  BY EmptySeq DEF LibraryInit, LibraryTypeOK
<1>3. Len(Dirs) \in Nat \ {0}
  BY EmptySeq, MonitorAssumption
<1>4. TypeOK
  <2>1. m_watchlist \in Seq(Path)
    BY EmptySeq
  <2>2. m_path \in [Path -> Seq(Name) \cup {Absent}]
    OBVIOUS
  <2>3. pc \in [main : MainPlaces, monitor : MonitorPlaces]
    BY DEF MainPlaces, MonitorPlaces
  <2>4. k \in 1..Len(Dirs) /\ i \in 1..Len(Dirs) + 1 /\ count \in Nat /\ pipe \in 0..PipeCap
    BY <1>3, MonitorAssumption
  <2>5. QED
    BY <1>1, <1>2, <2>1, <2>2, <2>3, <2>4 DEF TypeOK
<1>5. WatchTablesAgree
  BY DEF LibraryInit, WatchTablesAgree
<1>6. StartUpInStep
  BY <1>3, EmptySeq DEF StartUpInStep
<1>7. LoopInStep /\ CountIsExact
  BY DEF LoopInStep, CountIsExact, LibraryInit
<1>8. QED
  BY <1>4, <1>5, <1>6, <1>7 DEF MonitorInv

LEMMA StepKeeps == MonitorInv /\ [Next]_vars => MonitorInv'
<1> SUFFICES ASSUME MonitorInv, [Next]_vars PROVE MonitorInv'
  OBVIOUS
<1>1. CASE Startup
  BY <1>1, StartupKeeps
<1>2. CASE Owner \/ User \/ DispatchChanged
  BY <1>2, MainLoopKeeps
<1>3. CASE Run
  BY <1>3, PlaceWatchesKeeps, ReadKeeps, DrainKeeps DEF Run
<1>4. CASE Mishap
  BY <1>4, ReadKeeps DEF Mishap
<1>5. CASE Environment
  BY <1>5, EnvironmentKeeps
<1>6. CASE UNCHANGED vars
  BY <1>6
     DEF MonitorInv, TypeOK, KernelTypeOK, LibraryTypeOK, WatchTablesAgree, CountIsExact,
         StartUpInStep, LoopInStep, vars, kernelVars, libVars, monVars, runVars
<1>7. QED
  BY <1>1, <1>2, <1>3, <1>4, <1>5, <1>6 DEF Next

(* The invariant holds of every behaviour.  It is inductive because each   *)
(* part needs the others: the events taken are those counted only if the   *)
(* buffer is empty when they are counted, and the types of what is parsed  *)
(* depend on the agreement of the library's tables.                        *)
THEOREM MonitorInvariant == Spec => []MonitorInv
<1>1. QED
  BY InitHolds, StepKeeps, PTL DEF Spec

-----------------------------------------------------------------------------
(* What follows *)

(* Both threads, the library and the kernel keep their types, for every    *)
(* $PATH and every file system (monitor.cpp, inotify-cxx.cpp).             *)
THEOREM TypeCorrect == Spec => []TypeOK
<1>1. MonitorInv => TypeOK
  BY DEF MonitorInv
<1>2. QED
  BY <1>1, MonitorInvariant, PTL

(* As run() uses the library, its tables always agree (inotify-cxx.cpp:    *)
(* 378-383, 283-300).                                                      *)
THEOREM TablesAgree == Spec => []WatchTablesAgree
<1>1. MonitorInv => WatchTablesAgree
  BY DEF MonitorInv
<1>2. QED
  BY <1>1, MonitorInvariant, PTL

(* The count run() takes before it drains the deque is the number of       *)
(* events it then takes (monitor.cpp:88-113).                              *)
THEOREM CountCorrect == Spec => []CountIsExact
<1>1. MonitorInv => CountIsExact
  BY DEF MonitorInv
<1>2. QED
  BY <1>1, MonitorInvariant, PTL

(* When run() blocks in read, no event of an earlier read is left inside   *)
(* the process (monitor.cpp:87-113).                                       *)
THEOREM NothingStranded == Spec => []NoEventStranded
<1>1. MonitorInv => NoEventStranded
  BY DEF MonitorInv, LoopInStep, NoEventStranded
<1>2. QED
  BY <1>1, MonitorInvariant, PTL

(* WaitForEvents never throws out of run()'s loop because an event came    *)
(* for a watch that is disabled: the exception "event cannot occur on      *)
(* disabled watch" (inotify-cxx.cpp:289) stays unreachable.                *)
THEOREM DisableNeverThrows == Spec => []~ParseThrows
<1>1. MonitorInv => ~ParseThrows
  BY DEF MonitorInv, ParseThrows, FindWatch, WatchTablesAgree
<1>2. QED
  BY <1>1, MonitorInvariant, PTL

-----------------------------------------------------------------------------
(* The kernel: descriptors are handed out once, one to a directory, and an *)
(* IN_IGNORED is about a watch that is gone                                *)

Gone(K, d) == d < K.next /\ \A j \in Inode : K.wd[j] # NoWd => K.wd[j] # d

Ends(K, q) == \A x \in 1..Len(q) : q[x].type = "IN_IGNORED" => Gone(K, q[x].wd)

WdsApart(K) ==
  /\ \A j, l \in Inode : K.wd[j] # NoWd /\ K.wd[j] = K.wd[l] => j = l
  /\ \A j \in Inode : K.wd[j] < K.next /\ "IN_ONESHOT" \notin K.mask[j]

SameWatches(K, L) ==
  K.wd = L.wd /\ K.mask = L.mask /\ K.next = L.next /\ K.open = L.open

LEMMA QueuedEnds ==
  ASSUME NEW K \in KernelType, NEW e \in KernelEvent, Ends(K, K.queue),
         e.type = "IN_IGNORED" => Gone(K, e.wd)
  PROVE  SameWatches(Queued(K, e), K) /\ Ends(K, Queued(K, e).queue)
<1>1. Overflow \in KernelEvent /\ Overflow.type # "IN_IGNORED"
  BY WdType DEF Overflow, KernelEvent
<1>2. ASSUME NEW x \in KernelEvent, x.type = "IN_IGNORED" => Gone(K, x.wd)
      PROVE  /\ SameWatches([K EXCEPT !.queue = Append(@, x)], K)
             /\ Ends(K, [K EXCEPT !.queue = Append(@, x)].queue)
  <2>1. K.queue \in Seq(KernelEvent)
    BY DEF KernelType
  <2>2. [K EXCEPT !.queue = Append(@, x)].queue = Append(K.queue, x)
    BY DEF KernelType
  <2>3. Ends(K, Append(K.queue, x))
    <3> SUFFICES ASSUME NEW y \in 1..Len(Append(K.queue, x)),
                        Append(K.queue, x)[y].type = "IN_IGNORED"
                 PROVE  Gone(K, Append(K.queue, x)[y].wd)
      BY DEF Ends
    <3>1. CASE y = Len(K.queue) + 1
      BY <1>2, <2>1, <3>1, AppendProperties
    <3>2. CASE y \in 1..Len(K.queue)
      <4>1. Append(K.queue, x)[y] = K.queue[y]
        BY <2>1, <3>2, AppendProperties
      <4> QED BY <3>2, <4>1 DEF Ends
    <3> QED BY <2>1, <3>1, <3>2, AppendProperties, LenProperties
  <2>4. SameWatches([K EXCEPT !.queue = Append(@, x)], K)
    BY DEF KernelType, SameWatches
  <2> QED BY <2>2, <2>3, <2>4
<1>3. SameWatches(K, K)
  BY DEF SameWatches
<1> QED BY <1>1, <1>2, <1>3 DEF Queued

LEMMA EmittedEnds ==
  ASSUME NEW K \in KernelType, NEW j \in Inode, NEW t \in ListingEvents, NEW n \in Name,
         WdsApart(K), Ends(K, K.queue)
  PROVE  SameWatches(Emitted(K, j, t, n), K) /\ Ends(K, Emitted(K, j, t, n).queue)
<1> DEFINE e == [wd |-> K.wd[j], type |-> t, name |-> n]
<1>1. e \in KernelEvent
  BY DEF KernelType, KernelEvent
<1>2. e.type # "IN_IGNORED"
  BY DEF ListingEvents
<1>3. SameWatches(Queued(K, e), K) /\ Ends(K, Queued(K, e).queue)
  BY <1>1, <1>2, QueuedEnds
<1>4. SameWatches(K, K)
  BY DEF SameWatches
<1> QED BY <1>3, <1>4 DEF Emitted, WdsApart

LEMMA ForgottenEnds ==
  ASSUME NEW K \in KernelType, NEW j \in Inode, K.wd[j] # NoWd,
         WdsApart(K), Ends(K, K.queue)
  PROVE  LET L == Forgotten(K, j)
         IN /\ L.wd = [K.wd EXCEPT ![j] = NoWd] /\ L.next = K.next
            /\ WdsApart(L) /\ Ends(L, L.queue)
            /\ \A q \in Seq(KernelEvent) : Ends(K, q) => Ends(L, q)
<1> DEFINE K1 == [K EXCEPT !.wd[j] = NoWd, !.mask[j] = {}]
           e == [wd |-> K.wd[j], type |-> "IN_IGNORED", name |-> NoName]
<1>1. K1 \in KernelType /\ e \in KernelEvent
  BY WdType DEF KernelType, KernelEvent
<1>2. /\ K1.wd = [K.wd EXCEPT ![j] = NoWd] /\ K1.mask = [K.mask EXCEPT ![j] = {}]
      /\ K1.next = K.next /\ K1.queue = K.queue
  BY DEF KernelType
<1>3. K.wd \in [Inode -> Wd] /\ K.mask \in [Inode -> SUBSET MaskBits] /\ K.next \in Nat
  BY KernelAssumption DEF KernelType
<1> HIDE DEF K1
<1>4. WdsApart(K1)
  BY <1>2, <1>3 DEF WdsApart, NoWd
<1>5. ASSUME NEW d, Gone(K, d)
      PROVE  Gone(K1, d)
  BY <1>2, <1>3, <1>5 DEF Gone
<1>6. Gone(K1, K.wd[j])
  BY <1>2, <1>3 DEF Gone, WdsApart
<1>7. \A q \in Seq(KernelEvent) : Ends(K, q) => Ends(K1, q)
  BY <1>5 DEF Ends
<1>8. Ends(K1, K1.queue)
  BY <1>2, <1>7 DEF KernelType
<1>9. SameWatches(Queued(K1, e), K1) /\ Ends(K1, Queued(K1, e).queue)
  BY <1>1, <1>6, <1>8, QueuedEnds
<1>10. Forgotten(K, j) = Queued(K1, e)
  BY DEF Forgotten, K1
<1> DEFINE L == Forgotten(K, j)
<1>11. SameWatches(L, K1) /\ Ends(K1, L.queue)
  BY <1>9, <1>10
<1> HIDE DEF L
<1>12. WdsApart(L) /\ \A d : Gone(K1, d) => Gone(L, d)
  BY <1>4, <1>11 DEF WdsApart, SameWatches, Gone
<1>13. \A q : Ends(K1, q) => Ends(L, q)
  BY <1>12 DEF Ends
<1>14. L.wd = [K.wd EXCEPT ![j] = NoWd] /\ L.next = K.next
  BY <1>2, <1>11 DEF SameWatches
<1> QED BY <1>7, <1>11, <1>12, <1>13, <1>14 DEF L

(* Adding a watch on a directory that has one already changes its mask; on *)
(* another, the next descriptor is its.                                    *)
LEMMA AddedApart ==
  ASSUME KernelTypeOK, NEW K \in KernelType, NEW p \in Path,
         AddedWd(K, p) # NoWd, WdsApart(K)
  PROVE  LET d == AddedWd(K, p)
             L == Added(K, p, ListingEvents)
         IN /\ L.wd = [K.wd EXCEPT ![node[p]] = d] /\ L.queue = K.queue
            /\ d < L.next /\ K.next <= L.next
            /\ d = K.wd[node[p]] \/ (d = K.next /\ K.wd[node[p]] = NoWd)
            /\ d \in 1..MaxWd /\ node[p] \in Inode
            /\ WdsApart(L) /\ \A q \in Seq(KernelEvent) : Ends(K, q) => Ends(L, q)
<1> DEFINE d == AddedWd(K, p)
           L == Added(K, p, ListingEvents)
           j == node[p]
<1>1. d \in 1..MaxWd /\ j \in Inode /\ K.wd \in [Inode -> Wd]
      /\ K.mask \in [Inode -> SUBSET MaskBits] /\ K.next \in Nat
  BY AddedWdType, KernelAssumption DEF KernelType
<1>2. d = K.wd[j] \/ (d = K.next /\ K.wd[j] = NoWd)
  BY DEF AddedWd
<1>3. /\ L.wd = [K.wd EXCEPT ![j] = d] /\ L.mask = [K.mask EXCEPT ![j] = ListingEvents]
      /\ L.next = (IF d = K.next THEN K.next + 1 ELSE K.next) /\ L.queue = K.queue
  BY DEF Added, KernelType
<1> HIDE DEF d, L, j
<1>4. d < L.next /\ K.next <= L.next
  BY <1>1, <1>2, <1>3 DEF WdsApart
<1>5. "IN_ONESHOT" \notin ListingEvents
  BY DEF ListingEvents
<1>6. \A l \in Inode : L.wd[l] = (IF l = j THEN d ELSE K.wd[l])
                     /\ "IN_ONESHOT" \notin L.mask[l]
  BY <1>1, <1>3, <1>5 DEF WdsApart
<1>7. \A l \in Inode : K.wd[l] < K.next /\ K.wd[l] \in Int
  BY <1>1 DEF WdsApart, Wd, NoWd
<1>8. WdsApart(L)
  <2>1. \A l \in Inode \ {j} : K.wd[l] # NoWd => K.wd[l] # d
    BY <1>1, <1>2, <1>7 DEF WdsApart
  <2>2. \A l \in Inode : L.wd[l] < L.next
    BY <1>1, <1>3, <1>4, <1>6, <1>7
  <2> QED BY <1>1, <1>6, <2>1, <2>2 DEF WdsApart
<1>9. ASSUME NEW c \in Wd, Gone(K, c)
      PROVE  Gone(L, c)
  <2>1. c < L.next
    BY <1>1, <1>3, <1>9 DEF Gone, Wd, NoWd
  <2>2. c # d
    BY <1>1, <1>2, <1>9, WdType DEF Gone, NoWd
  <2> QED BY <1>6, <1>9, <2>1, <2>2 DEF Gone
<1>10. ASSUME NEW q \in Seq(KernelEvent), Ends(K, q)
       PROVE  Ends(L, q)
  <2>1. \A x \in 1..Len(q) : q[x] \in KernelEvent
    OBVIOUS
  <2>2. \A e \in KernelEvent : e.wd \in Wd
    BY WdType DEF KernelEvent, Overflow
  <2> QED BY <1>9, <1>10, <2>1, <2>2 DEF Ends
<1> QED BY <1>1, <1>2, <1>3, <1>4, <1>8, <1>10 DEF d, L, j

-----------------------------------------------------------------------------
(* The library and the kernel: a watch with a descriptor is for a path that *)
(* still names the directory of that descriptor, or none any more          *)

PathHasWd(w) ==
  obj[w].wd # NoWd =>
    node[obj[w].path] = NoInode \/ kern.wd[node[obj[w].path]] = obj[w].wd

NameInv ==
  /\ WdsApart(kern) /\ Ends(kern, kern.queue) /\ Ends(kern, m_buf)
  /\ \A d \in 1..MaxWd : m_watches[d] # NULL => d < kern.next
  /\ \A w \in Watch : obj[w] # NULL => obj[w].mask = ListingEvents /\ PathHasWd(w)
  /\ NoOrphanKernelWatch

LEMMA NameUnchanged ==
  ASSUME NameInv, UNCHANGED <<node, kern, obj, m_watches, m_buf>>
  PROVE  NameInv'
BY DEF NameInv, WdsApart, Ends, Gone, PathHasWd, NoOrphanKernelWatch, FindWatch

LEMMA NameInit == Init => NameInv
<1> SUFFICES ASSUME Init PROVE NameInv
  OBVIOUS
<1>1. /\ kern.wd = [j \in Inode |-> NoWd] /\ kern.mask = [j \in Inode |-> {}]
      /\ kern.next = 1 /\ kern.queue = <<>> /\ m_buf = <<>>
      /\ m_watches = [d \in 1..MaxWd |-> NULL] /\ obj = [w \in Watch |-> NULL]
  BY DEF Init, KernelInit, LibraryInit
<1>2. WdsApart(kern)
  BY <1>1 DEF WdsApart, NoWd
<1>3. Ends(kern, kern.queue) /\ Ends(kern, m_buf)
  BY <1>1 DEF Ends
<1>4. NoOrphanKernelWatch
  BY <1>1 DEF NoOrphanKernelWatch
<1> QED BY <1>1, <1>2, <1>3, <1>4 DEF NameInv

LEMMA NameOpen ==
  ASSUME TypeOK, NameInv, Open, UNCHANGED node
  PROVE  NameInv'
<1>1. SameWatches([kern' EXCEPT !.open = FALSE], [kern EXCEPT !.open = FALSE])
      /\ kern'.queue = kern.queue /\ kern'.wd = kern.wd /\ kern'.mask = kern.mask
      /\ kern'.next = kern.next
  BY DEF Open, TypeOK, KernelTypeOK, KernelType, SameWatches
<1>2. UNCHANGED <<obj, m_watches, m_buf>>
  BY DEF Open, libVars
<1> QED BY <1>1, <1>2
        DEF NameInv, WdsApart, Ends, Gone, PathHasWd, NoOrphanKernelWatch, FindWatch

LEMMA NameConstruct ==
  ASSUME TypeOK, NameInv, NEW w \in Watch, NEW p \in Path,
         Construct(w, p, ListingEvents, TRUE), UNCHANGED node
  PROVE  NameInv'
<1>1. UNCHANGED <<node, kern, m_watches, m_buf>>
  BY DEF Construct
<1>2. /\ obj'[w].mask = ListingEvents /\ obj'[w].wd = NoWd
      /\ \A v \in Watch \ {w} : obj'[v] = obj[v]
  BY DEF Construct, TypeOK, LibraryTypeOK
<1>3. \A v \in Watch : obj'[v] # NULL => obj'[v].mask = ListingEvents /\ PathHasWd(v)'
  BY <1>1, <1>2 DEF NameInv, PathHasWd
<1> QED BY <1>1, <1>3
        DEF NameInv, WdsApart, Ends, Gone, NoOrphanKernelWatch, FindWatch

LEMMA NameRead ==
  ASSUME TypeOK, NameInv, ReadEvents, UNCHANGED node
  PROVE  NameInv'
<1> DEFINE n == IF Len(kern.queue) < BufLen THEN Len(kern.queue) ELSE BufLen
<1>1. kern \in KernelType /\ kern.queue \in Seq(KernelEvent) /\ Len(kern.queue) \in Nat
      /\ BufLen \in Nat \ {0}
  BY LibraryAssumption DEF TypeOK, KernelTypeOK, KernelType
<1>2. /\ m_buf' = SubSeq(kern.queue, 1, n)
      /\ kern' = [kern EXCEPT !.queue = SubSeq(@, n + 1, Len(@))]
      /\ UNCHANGED <<obj, m_watches>>
  BY DEF ReadEvents
<1>3. n \in 0..Len(kern.queue)
  BY <1>1
<1>4. /\ kern'.wd = kern.wd /\ kern'.mask = kern.mask /\ kern'.next = kern.next
      /\ kern'.queue = SubSeq(kern.queue, n + 1, Len(kern.queue))
  BY <1>1, <1>2 DEF KernelType
<1> HIDE DEF n
<1>5. Ends(kern, m_buf')
  <2>1. Len(m_buf') = n /\ \A x \in 1..n : m_buf'[x] = kern.queue[x]
    BY <1>1, <1>2, <1>3
  <2> QED BY <1>1, <1>3, <2>1 DEF NameInv, Ends
<1>6. Ends(kern, kern'.queue)
  <2>1. /\ Len(kern'.queue) = Len(kern.queue) - n
        /\ \A x \in 1..Len(kern.queue) - n : kern'.queue[x] = kern.queue[x + n]
    BY <1>1, <1>3, <1>4
  <2>2. \A x \in 1..Len(kern.queue) - n : x + n \in 1..Len(kern.queue)
    BY <1>1, <1>3
  <2> QED BY <2>1, <2>2 DEF NameInv, Ends
<1>7. \A q : Ends(kern, q) => Ends(kern', q)
  BY <1>4 DEF Ends, Gone
<1>8. Ends(kern', kern'.queue) /\ Ends(kern', m_buf')
  BY <1>5, <1>6, <1>7
<1>9. WdsApart(kern') /\ NoOrphanKernelWatch'
  BY <1>2, <1>4 DEF NameInv, WdsApart, NoOrphanKernelWatch, FindWatch
<1>10. \A w \in Watch : obj'[w] # NULL => obj'[w].mask = ListingEvents /\ PathHasWd(w)'
  BY <1>2, <1>4 DEF NameInv, PathHasWd
<1>11. \A d \in 1..MaxWd : m_watches'[d] # NULL => d < kern'.next
  BY <1>2, <1>4 DEF NameInv
<1> QED BY <1>8, <1>9, <1>10, <1>11 DEF NameInv

LEMMA NameParse ==
  ASSUME TypeOK, WatchTablesAgree, NameInv, ParseEvent, UNCHANGED node
  PROVE  NameInv'
<1> DEFINE e == Head(m_buf)
           w == FindWatch(e.wd)
<1>1. /\ m_buf # <<>> /\ m_buf \in Seq(KernelEvent) /\ UNCHANGED kern
      /\ m_buf' = <<>> \/ m_buf' = Tail(m_buf)
  BY DEF ParseEvent, TypeOK, LibraryTypeOK
<1>2. Ends(kern, m_buf')
  <2>1. CASE m_buf' = <<>>
    BY <2>1 DEF Ends
  <2>2. CASE m_buf' = Tail(m_buf)
    <3>1. Len(m_buf') = Len(m_buf) - 1 /\ Len(m_buf) \in Nat
          /\ \A x \in 1..Len(m_buf) - 1 : m_buf'[x] = m_buf[x + 1]
      BY <1>1, <2>2
    <3>2. \A x \in 1..Len(m_buf) - 1 : x + 1 \in 1..Len(m_buf)
      BY <3>1
    <3> QED BY <3>1, <3>2 DEF NameInv, Ends
  <2> QED BY <1>1, <2>1, <2>2
<1>3. CASE ~(w # NULL /\ ~ParseThrows /\ LastEvent(w, e))
  <2>1. UNCHANGED <<obj, m_watches>>
    BY <1>3 DEF ParseEvent
  <2> QED BY <1>1, <1>2, <2>1
          DEF NameInv, WdsApart, Ends, Gone, PathHasWd, NoOrphanKernelWatch, FindWatch
<1>4. CASE w # NULL /\ ~ParseThrows /\ LastEvent(w, e)
  <2>1. /\ e.wd \in 1..MaxWd /\ w = m_watches[e.wd] /\ w \in Watch
        /\ obj[w] # NULL /\ obj[w].wd = e.wd /\ obj[w].inotify = "this"
    BY <1>4 DEF FindWatch, WatchTablesAgree, TypeOK, LibraryTypeOK
  <2>2. e.type = "IN_IGNORED"
    BY <1>4, <2>1 DEF LastEvent, NameInv, ListingEvents
  <2>3. Gone(kern, e.wd)
    <3>1. e = m_buf[1] /\ 1 \in 1..Len(m_buf)
      BY <1>1
    <3> QED BY <2>2, <3>1 DEF NameInv, Ends
  <2>4. /\ m_watches' = [m_watches EXCEPT ![e.wd] = NULL]
        /\ obj' = [obj EXCEPT ![w].enabled = FALSE, ![w].wd = NoWd]
    <3>1. obj[w].inotify # "null" /\ obj[w].wd # NoWd
      BY <2>1 DEF NoWd
    <3>2. Disable(w)
      BY <1>4 DEF ParseEvent
    <3> QED BY <2>1, <3>1, <3>2 DEF Disable
  <2>5. obj[w] \in WatchObject
    BY <2>1 DEF TypeOK, LibraryTypeOK
  <2>6. /\ obj'[w].mask = obj[w].mask /\ obj'[w].wd = NoWd
        /\ \A v \in Watch \ {w} : obj'[v] = obj[v]
    BY <2>1, <2>4, <2>5 DEF TypeOK, LibraryTypeOK, WatchObject
  <2>7. \A v \in Watch : obj'[v] # NULL => obj'[v].mask = ListingEvents /\ PathHasWd(v)'
    BY <1>1, <2>1, <2>6 DEF NameInv, PathHasWd
  <2>8. \A c \in 1..MaxWd : m_watches'[c] = IF c = e.wd THEN NULL ELSE m_watches[c]
    BY <2>1, <2>4 DEF TypeOK, LibraryTypeOK
  <2>9. NoOrphanKernelWatch'
    BY <1>1, <2>3, <2>8 DEF NameInv, NoOrphanKernelWatch, FindWatch, Gone
  <2>10. WdsApart(kern') /\ Ends(kern', kern'.queue) /\ Ends(kern', m_buf')
    BY <1>1, <1>2 DEF NameInv
  <2> QED BY <1>1, <2>7, <2>8, <2>9, <2>10 DEF NameInv
<1> QED BY <1>3, <1>4

LEMMA NameClose ==
  ASSUME TypeOK, WatchTablesAgree, WatchTablesAgree', NameInv, Close, m_buf = <<>>, UNCHANGED node
  PROVE  NameInv'
<1>1. /\ kern' = Closed(kern) /\ m_buf' = <<>> /\ obj' = Released
      /\ m_watches' = [d \in 1..MaxWd |-> NULL]
  BY DEF Close, Cleared
<1>2. /\ kern'.wd = [j \in Inode |-> NoWd] /\ kern'.mask = [j \in Inode |-> {}]
      /\ kern'.queue = <<>> /\ kern'.next = kern.next /\ kern.next \in Nat \ {0}
  BY <1>1, KernelAssumption DEF Closed, TypeOK, KernelTypeOK, KernelType
<1>3. WdsApart(kern')
  BY <1>2 DEF WdsApart, NoWd
<1>4. Ends(kern', kern'.queue) /\ Ends(kern', m_buf') /\ NoOrphanKernelWatch'
  BY <1>1, <1>2 DEF Ends, NoOrphanKernelWatch
<1>5. ASSUME NEW w \in Watch, obj'[w] # NULL
      PROVE  obj'[w].mask = ListingEvents /\ PathHasWd(w)'
  <2>1. obj[w] # NULL /\ obj[w] \in WatchObject
    <3>1. CASE w \in Range(m_paths)
      BY <3>1, LibraryAssumption DEF Range, TypeOK, LibraryTypeOK, WatchTablesAgree
    <3>2. CASE w \notin Range(m_paths)
      BY <1>1, <1>5, <3>2 DEF Released, TypeOK, LibraryTypeOK
    <3> QED BY <3>1, <3>2
  <2>2. obj'[w].mask = obj[w].mask /\ obj'[w].wd \in {NoWd, obj[w].wd}
    BY <1>1, <2>1 DEF Released, WatchObject
  <2>3. obj'[w].wd = NoWd
    <3>1. obj[w].wd # NoWd => obj[w].wd \in 1..MaxWd
      BY <2>1 DEF WatchObject, Wd
    <3> QED BY <1>1, <1>5, <2>2, <3>1, LibraryAssumption DEF WatchTablesAgree
  <2> QED BY <2>1, <2>2, <2>3 DEF NameInv, PathHasWd
<1> QED BY <1>1, <1>3, <1>4, <1>5 DEF NameInv

(* The kernel hears of new events or of a mask, or it does not.            *)
LEMMA NameSame ==
  ASSUME NameInv, UNCHANGED <<node, obj, m_watches, m_buf>>, kern'.wd = kern.wd,
         WdsApart(kern'), Ends(kern', kern'.queue), Ends(kern', m_buf),
         \A d \in 1..MaxWd : m_watches[d] # NULL => d < kern'.next
  PROVE  NameInv'
<1>1. NoOrphanKernelWatch'
  BY DEF NameInv, NoOrphanKernelWatch, FindWatch
<1>2. \A w \in Watch : obj'[w] # NULL => obj'[w].mask = ListingEvents /\ PathHasWd(w)'
  BY DEF NameInv, PathHasWd
<1> QED BY <1>1, <1>2 DEF NameInv

(* A watch that is turned away: the kernel has been asked twice about one  *)
(* directory, and keeps its descriptors.                                   *)
LEMMA CollisionApart ==
  ASSUME TypeOK, WatchTablesAgree, NameInv, UNCHANGED node,
         NEW w \in Watch, obj[w] # NULL, AddCollision(w)
  PROVE  /\ kern'.wd = kern.wd /\ kern'.queue = kern.queue
         /\ kern.next <= kern'.next /\ kern'.next \in Nat
         /\ WdsApart(kern') /\ Ends(kern', kern'.queue) /\ Ends(kern', m_buf)
<1> DEFINE p == obj[w].path
           d == AddedWd(kern, p)
           L == Added(kern, p, ListingEvents)
           other == FindWatch(d)
           q == obj[other].path
           L2 == Added(L, q, ListingEvents)
<1>1. /\ KernelTypeOK /\ kern \in KernelType /\ p \in Path /\ obj[w] \in WatchObject
      /\ obj[w].mask = ListingEvents /\ m_buf \in Seq(KernelEvent)
      /\ ListingEvents \in SUBSET MaskBits /\ kern.queue \in Seq(KernelEvent)
      /\ kern.next \in Nat /\ kern.wd \in [Inode -> Wd]
  BY KernelAssumption DEF TypeOK, KernelTypeOK, KernelType, LibraryTypeOK, WatchObject, NameInv,
     MaskBits
<1>2. WdsApart(kern) /\ Ends(kern, kern.queue) /\ Ends(kern, m_buf)
  BY DEF NameInv
<1>3. d # NoWd /\ other # NULL
  BY DEF AddCollision
<1>4. /\ L.wd = [kern.wd EXCEPT ![node[p]] = d] /\ L.queue = kern.queue
      /\ d < L.next /\ kern.next <= L.next
      /\ d = kern.wd[node[p]] \/ (d = kern.next /\ kern.wd[node[p]] = NoWd)
      /\ d \in 1..MaxWd /\ node[p] \in Inode
      /\ WdsApart(L) /\ Ends(L, L.queue) /\ Ends(L, m_buf)
      /\ L \in KernelType /\ L.next \in Nat
  <2>1. L \in KernelType
    BY <1>1, AddedType
  <2>2. L.next \in Nat
    BY <2>1, KernelAssumption DEF KernelType
  <2> QED BY <1>1, <1>2, <1>3, <2>1, <2>2, AddedApart
<1>5. /\ other = m_watches[d] /\ other \in Watch
      /\ obj[other] # NULL /\ obj[other].wd = d
  BY <1>3, <1>4 DEF FindWatch, WatchTablesAgree, TypeOK, LibraryTypeOK
<1>6. q \in Path /\ obj[other].mask = ListingEvents
  BY <1>5 DEF NameInv, TypeOK, LibraryTypeOK, WatchObject
<1>7. kern' = L2
  BY <1>1, <1>6 DEF AddCollision
<1>8. d < kern.next
  BY <1>3, <1>4, <1>5 DEF NameInv
<1>9. d = kern.wd[node[p]] /\ L.wd = kern.wd
  BY <1>1, <1>4, <1>8
<1>10. CASE AddedWd(L, q) = NoWd
  <2>1. kern' = L
    BY <1>7, <1>10 DEF Added
  <2> HIDE DEF L
  <2> QED BY <1>4, <1>9, <2>1
<1>11. CASE AddedWd(L, q) # NoWd
  <2> HIDE DEF d, p, L, q, other, L2
  <2>1. /\ L2.wd = [L.wd EXCEPT ![node[q]] = AddedWd(L, q)] /\ L2.queue = L.queue
        /\ L.next <= L2.next
        /\ \/ AddedWd(L, q) = L.wd[node[q]]
           \/ AddedWd(L, q) = L.next /\ L.wd[node[q]] = NoWd
        /\ node[q] \in Inode
        /\ WdsApart(L2) /\ \A r \in Seq(KernelEvent) : Ends(L, r) => Ends(L2, r)
    BY <1>1, <1>4, <1>6, <1>11, AddedApart DEF L2
  <2>2. L.wd[node[q]] = d
    <3>1. PathHasWd(other)
      BY <1>5 DEF NameInv
    <3>2. node[q] # NoInode
      BY <2>1, KernelAssumption
    <3> QED BY <1>3, <1>5, <1>9, <3>1, <3>2 DEF PathHasWd, q
  <2>3. L2.wd = kern.wd
    BY <1>1, <1>3, <1>9, <2>1, <2>2
  <2>4. L2 \in KernelType
    BY <1>1, <1>4, <1>6, AddedType DEF L2
  <2>5. L2.next \in Nat
    BY <2>4, KernelAssumption DEF KernelType
  <2>6. kern.next <= L2.next
    BY <1>1, <1>4, <2>1, <2>5
  <2> QED BY <1>1, <1>4, <1>7, <2>1, <2>3, <2>5, <2>6
<1> QED BY <1>10, <1>11

LEMMA NameAdd ==
  ASSUME TypeOK, WatchTablesAgree, NameInv, UNCHANGED node,
         NEW w \in Watch, obj[w] # NULL, obj[w].wd = NoWd, Add(w)
  PROVE  NameInv'
<1> DEFINE p == obj[w].path
           d == AddedWd(kern, p)
           L == Added(kern, p, ListingEvents)
<1>1. /\ KernelTypeOK /\ kern \in KernelType /\ p \in Path /\ obj[w] \in WatchObject
      /\ obj[w].mask = ListingEvents /\ m_buf \in Seq(KernelEvent)
      /\ ListingEvents \in SUBSET MaskBits /\ kern.queue \in Seq(KernelEvent)
      /\ kern.next \in Nat /\ kern.wd \in [Inode -> Wd]
  BY KernelAssumption DEF TypeOK, KernelTypeOK, KernelType, LibraryTypeOK, WatchObject, NameInv,
     MaskBits
<1>2. WdsApart(kern) /\ Ends(kern, kern.queue) /\ Ends(kern, m_buf)
  BY DEF NameInv
<1>3. CASE AddRefused(w)
  BY <1>3, NameUnchanged DEF AddRefused, libVars
<1>4. CASE AddDisabled(w)
  <2>1. /\ obj' = [obj EXCEPT ![w].inotify = "this"] /\ UNCHANGED <<kern, m_watches, m_buf>>
    BY <1>4 DEF AddDisabled
  <2>2. /\ obj'[w].mask = obj[w].mask /\ obj'[w].wd = NoWd
        /\ \A v \in Watch \ {w} : obj'[v] = obj[v]
    BY <1>1, <2>1 DEF TypeOK, LibraryTypeOK, WatchObject
  <2>3. \A v \in Watch : obj'[v] # NULL => obj'[v].mask = ListingEvents /\ PathHasWd(v)'
    BY <1>1, <2>1, <2>2 DEF NameInv, PathHasWd
  <2>4. NoOrphanKernelWatch'
    BY <2>1 DEF NameInv, NoOrphanKernelWatch, FindWatch
  <2> QED BY <1>2, <2>1, <2>3, <2>4 DEF NameInv
<1>5. ASSUME d # NoWd
      PROVE  /\ L.wd = [kern.wd EXCEPT ![node[p]] = d] /\ L.queue = kern.queue
             /\ d < L.next /\ kern.next <= L.next
             /\ d = kern.wd[node[p]] \/ (d = kern.next /\ kern.wd[node[p]] = NoWd)
             /\ d \in 1..MaxWd /\ node[p] \in Inode
             /\ WdsApart(L) /\ Ends(L, L.queue) /\ Ends(L, m_buf)
             /\ L \in KernelType /\ L.next \in Nat
  <2>1. L \in KernelType
    BY <1>1, AddedType
  <2>2. L.next \in Nat
    BY <2>1, KernelAssumption DEF KernelType
  <2> QED BY <1>1, <1>2, <1>5, <2>1, <2>2, AddedApart
<1>6. CASE AddCollision(w)
  <2>1. UNCHANGED <<obj, m_watches, m_buf>>
    BY <1>6 DEF AddCollision, libVars
  <2>2. /\ kern'.wd = kern.wd /\ kern.next <= kern'.next /\ kern'.next \in Nat
        /\ WdsApart(kern') /\ Ends(kern', kern'.queue) /\ Ends(kern', m_buf)
    BY <1>6, CollisionApart
  <2>3. \A c \in 1..MaxWd : m_watches[c] # NULL => c < kern'.next
    BY <1>1, <2>2 DEF NameInv
  <2> QED BY <2>1, <2>2, <2>3, NameSame
<1>7. CASE AddEnabled(w)
  <2>1. /\ d # NoWd /\ FindWatch(d) = NULL /\ kern' = L
        /\ obj' = [obj EXCEPT ![w].wd = d, ![w].inotify = "this"]
        /\ m_watches' = [m_watches EXCEPT ![d] = w] /\ m_buf' = m_buf
    BY <1>1, <1>7 DEF AddEnabled
  <2> HIDE DEF L
  <2>2. /\ obj'[w].mask = obj[w].mask /\ obj'[w].wd = d /\ obj'[w].path = p
        /\ \A v \in Watch \ {w} : obj'[v] = obj[v]
    BY <1>1, <2>1 DEF TypeOK, LibraryTypeOK, WatchObject
  <2> HIDE DEF d, p
  <2>3. \A c \in 1..MaxWd : m_watches'[c] = IF c = d THEN w ELSE m_watches[c]
    BY <1>5, <2>1 DEF TypeOK, LibraryTypeOK
  <2>4. \A c \in 1..MaxWd : m_watches'[c] # NULL => c < kern'.next
    BY <1>1, <1>5, <2>1, <2>3 DEF NameInv
  <2>5. \A j \in Inode : kern'.wd[j] = IF j = node[p] THEN d ELSE kern.wd[j]
    BY <1>1, <1>5, <2>1
  <2>6. NoOrphanKernelWatch'
    <3>1. w # NULL
      BY LibraryAssumption
    <3> QED BY <1>5, <2>1, <2>3, <2>5, <3>1 DEF NameInv, NoOrphanKernelWatch, FindWatch
  <2>7. ASSUME NEW v \in Watch, obj'[v] # NULL
        PROVE  obj'[v].mask = ListingEvents /\ PathHasWd(v)'
    <3>1. CASE v = w
      BY <1>1, <1>5, <2>1, <2>2, <3>1 DEF PathHasWd
    <3>2. CASE v # w
      <4>1. obj'[v] = obj[v] /\ obj[v].mask = ListingEvents /\ PathHasWd(v)
        BY <2>2, <2>7, <3>2 DEF NameInv
      <4>2. obj[v].path \in Path
        BY <2>7, <4>1 DEF TypeOK, LibraryTypeOK, WatchObject
      <4>3. node[obj[v].path] \in Inode \cup {NoInode}
        BY <1>1, <4>2 DEF KernelTypeOK
      <4> QED BY <1>5, <2>1, <2>5, <4>1, <4>3 DEF PathHasWd
    <3> QED BY <3>1, <3>2
  <2> QED BY <1>5, <2>1, <2>4, <2>6, <2>7 DEF NameInv
<1> QED BY <1>3, <1>4, <1>6, <1>7 DEF Add

LEMMA NameFileSystem ==
  ASSUME TypeOK, NameInv, FileSystem, "retarget" \notin FsOps, UNCHANGED libVars
  PROVE  NameInv'
<1>1. /\ kern \in KernelType /\ m_buf \in Seq(KernelEvent) /\ kern.wd \in [Inode -> Wd]
      /\ WdsApart(kern) /\ Ends(kern, kern.queue) /\ Ends(kern, m_buf)
      /\ UNCHANGED <<obj, m_watches, m_buf>>
  BY DEF TypeOK, KernelTypeOK, KernelType, LibraryTypeOK, NameInv, libVars
<1>2. ASSUME UNCHANGED node, SameWatches(kern', kern), Ends(kern, kern'.queue)
      PROVE  NameInv'
  <2>1. \A q : Ends(kern, q) => Ends(kern', q)
    BY <1>2 DEF Ends, Gone, SameWatches
  <2>2. WdsApart(kern')
    BY <1>1, <1>2 DEF WdsApart, SameWatches
  <2> QED BY <1>1, <1>2, <2>1, <2>2, NameSame DEF SameWatches, NameInv
<1>3. ASSUME NEW j \in Inode, NEW n \in Name,
             Create(j, n) \/ Delete(j, n) \/ MoveIn(j, n) \/ MoveOut(j, n)
      PROVE  NameInv'
  <2>1. UNCHANGED node /\ \E t \in ListingEvents : kern' = Emitted(kern, j, t, n)
    BY <1>3 DEF Create, Delete, MoveIn, MoveOut, ListingEvents
  <2> QED BY <1>1, <1>2, <2>1, EmittedEnds
<1>4. ASSUME NEW j \in Inode, NEW a \in Name, NEW b \in Name, Rename(j, a, b)
      PROVE  NameInv'
  <2> DEFINE K == Emitted(kern, j, "IN_MOVED_FROM", a)
  <2>1. UNCHANGED node /\ kern' = Emitted(K, j, "IN_MOVED_TO", b)
        /\ {"IN_MOVED_FROM", "IN_MOVED_TO"} \subseteq ListingEvents
    BY <1>4 DEF Rename, ListingEvents
  <2>2. K \in KernelType /\ SameWatches(K, kern) /\ Ends(kern, K.queue)
    BY <1>1, <2>1, EmittedEnds, EmittedType
  <2> HIDE DEF K
  <2>3. WdsApart(K) /\ \A q : Ends(kern, q) <=> Ends(K, q)
    BY <1>1, <2>2 DEF WdsApart, Ends, Gone, SameWatches
  <2>4. SameWatches(kern', K) /\ Ends(K, kern'.queue)
    BY <2>1, <2>2, <2>3, EmittedEnds
  <2> QED BY <1>2, <2>1, <2>2, <2>3, <2>4 DEF SameWatches
<1>5. ASSUME NEW j \in Inode, RemoveDir(j)
      PROVE  NameInv'
  <2>1. \A p \in Path : node'[p] = IF node[p] = j THEN NoInode ELSE node[p]
    BY <1>5 DEF RemoveDir
  <2>2. \A w \in Watch : obj[w] # NULL => obj[w].path \in Path
    BY DEF TypeOK, LibraryTypeOK, WatchObject
  <2>3. CASE kern.wd[j] = NoWd
    <3>1. kern' = kern
      BY <1>5, <2>3 DEF RemoveDir
    <3>2. \A w \in Watch : obj'[w] # NULL => obj'[w].mask = ListingEvents /\ PathHasWd(w)'
      BY <1>1, <2>1, <2>2, <3>1 DEF NameInv, PathHasWd
    <3>3. NoOrphanKernelWatch'
      BY <1>1, <3>1 DEF NameInv, NoOrphanKernelWatch, FindWatch
    <3> QED BY <1>1, <3>1, <3>2, <3>3 DEF NameInv
  <2>4. CASE kern.wd[j] # NoWd
    <3>1. /\ kern'.wd = [kern.wd EXCEPT ![j] = NoWd] /\ kern'.next = kern.next
          /\ WdsApart(kern') /\ Ends(kern', kern'.queue) /\ Ends(kern', m_buf)
      <4>1. kern' = Forgotten(kern, j)
        BY <1>5, <2>4 DEF RemoveDir
      <4> QED BY <1>1, <2>4, <4>1, ForgottenEnds
    <3>2. \A l \in Inode : kern'.wd[l] = IF l = j THEN NoWd ELSE kern.wd[l]
      BY <1>1, <3>1
    <3>3. ASSUME NEW w \in Watch, obj'[w] # NULL
          PROVE  obj'[w].mask = ListingEvents /\ PathHasWd(w)'
      <4>1. obj[w].path \in Path /\ node[obj[w].path] \in Inode \cup {NoInode}
        BY <1>1, <2>2, <3>3 DEF TypeOK, KernelTypeOK
      <4> QED BY <1>1, <2>1, <3>2, <3>3, <4>1 DEF NameInv, PathHasWd
    <3>4. NoOrphanKernelWatch'
      BY <1>1, <3>2 DEF NameInv, NoOrphanKernelWatch, FindWatch
    <3> QED BY <1>1, <3>1, <3>3, <3>4 DEF NameInv
  <2> QED BY <2>3, <2>4
<1> QED BY <1>3, <1>4, <1>5 DEF FileSystem, Retarget

-----------------------------------------------------------------------------
(* Every step of the monitor *)

LEMMA NameStep ==
  ASSUME MonitorInv, MonitorInv', NameInv, [Next]_vars, "retarget" \notin FsOps
  PROVE  NameInv'
<1>1. TypeOK /\ WatchTablesAgree /\ WatchTablesAgree' /\ StartUpInStep /\ LoopInStep
  BY DEF MonitorInv
<1>2. CASE UNCHANGED <<kernelVars, libVars>>
  BY <1>2, NameUnchanged DEF kernelVars, libVars
<1>3. CASE Startup \/ Owner \/ User \/ DispatchChanged
  BY <1>2, <1>3
     DEF Startup, ListDirectory, MonitorDirectory, Start, Owner, EndScan, SetStop, Join,
         User, BeginScan, CallStop, DispatchChanged
<1>4. CASE OpenInotify
  <2>1. CASE Open
    BY <1>1, <1>4, <2>1, NameOpen DEF OpenInotify
  <2>2. CASE UNCHANGED <<libVars, kern>>
    BY <1>2, <1>4, <2>2 DEF OpenInotify, kernelVars
  <2> QED BY <1>4, <2>1, <2>2 DEF OpenInotify
<1>5. CASE NewWatch
  <2>1. i \in Watch /\ m_watchlist[i] \in Path
    <3>1. Len(m_watchlist) \in Nat /\ Len(Dirs) \in Nat /\ i \in 1..Len(m_watchlist)
      BY <1>1, <1>5, LenProperties, MonitorAssumption DEF NewWatch, TypeOK
    <3> QED BY <1>1, <3>1, ElementOfSeq, MonitorAssumption DEF TypeOK, StartUpInStep
  <2> QED BY <1>1, <1>5, <2>1, NameConstruct DEF NewWatch
<1>6. CASE AddWatch
  <2>1. pc.monitor = "add" /\ Add(i) /\ UNCHANGED node
    BY <1>6 DEF AddWatch, Go
  <2>2. i <= Len(m_watchlist) /\ obj[i] # NULL /\ obj[i].wd = NoWd
    BY <1>1, <2>1 DEF StartUpInStep
  <2>3. i \in Watch
    <3>1. Len(m_watchlist) \in Nat /\ Len(Dirs) \in Nat /\ i \in 1..Len(m_watchlist)
      BY <1>1, <2>2, LenProperties, MonitorAssumption DEF TypeOK
    <3> QED BY <1>1, <3>1, MonitorAssumption DEF StartUpInStep
  <2> QED BY <1>1, <2>1, <2>2, <2>3, NameAdd
<1>7. CASE WaitForEvents
  BY <1>1, <1>7, NameRead DEF WaitForEvents
<1>8. CASE ParseOne
  BY <1>1, <1>8, NameParse DEF ParseOne
<1>9. CASE TakeEvent
  <2>1. UNCHANGED <<node, kern, obj, m_watches, m_buf>>
    BY <1>9 DEF TakeEvent, GetEvent, libVars
  <2> QED BY <2>1, NameUnchanged
<1>10. CASE Leave
  <2>1. pc.monitor = "exit" /\ Close /\ UNCHANGED node
    BY <1>10 DEF Leave, Go
  <2>2. m_buf = <<>>
    BY <1>1, <2>1 DEF LoopInStep
  <2> QED BY <1>1, <2>1, <2>2, NameClose
<1>11. CASE WatchesPlaced \/ CheckStop \/ CountEvents \/ Drained \/ LockPath \/ Mutate \/ Emit
             \/ Mishap
  BY <1>2, <1>11
     DEF WatchesPlaced, CheckStop, CountEvents, Drained, LockPath, Mutate, Emit, Mishap,
         Interrupted, ReadFails
<1>12. CASE Environment
  BY <1>1, <1>12, NameFileSystem DEF Environment
<1>13. CASE UNCHANGED vars
  BY <1>2, <1>13 DEF vars
<1> QED BY <1>3, <1>4, <1>5, <1>6, <1>7, <1>8, <1>9, <1>10, <1>11, <1>12, <1>13 DEF Next, Run

(* While no path comes to name another directory, the library has an owner *)
(* for every watch of the kernel: no event of a live watch is dropped by   *)
(* WaitForEvents (inotify-cxx.cpp:354-376, 456-457). A switched path is    *)
(* what AddCollision() cannot survive (inotify-cxx.cpp:367).               *)
THEOREM KernelWatchesNamed ==
  ASSUME "retarget" \notin FsOps
  PROVE  Spec => []NoOrphanKernelWatch
<1>1. Init => MonitorInv /\ NameInv
  BY InitHolds, NameInit
<1>2. MonitorInv /\ NameInv /\ [Next]_vars => (MonitorInv /\ NameInv)'
  BY StepKeeps, NameStep
<1>3. MonitorInv /\ NameInv => NoOrphanKernelWatch
  BY DEF NameInv
<1> QED BY <1>1, <1>2, <1>3, PTL DEF Spec

-----------------------------------------------------------------------------
(* Sequences *)

(* Taking the first of a sequence leaves the rest. *)
LEMMA HeadThenTail ==
  ASSUME NEW S, NEW s \in Seq(S), s # <<>>
  PROVE  <<Head(s)>> \o Tail(s) = s
<1> DEFINE h == <<Head(s)>>
           t == Tail(s)
<1>1. Head(s) \in S /\ Head(s) = s[1] /\ t \in Seq(S) /\ Len(t) = Len(s) - 1
      /\ \A x \in 1..Len(t) : t[x] = s[x + 1]
  BY HeadTailProperties
<1>2. h \in Seq(S) /\ Len(h) = 1 /\ h[1] = s[1]
  BY <1>1
<1>3. Len(s) \in Nat /\ Len(t) \in Nat
  BY <1>1, LenProperties
<1> HIDE DEF h, t
<1>4. /\ h \o t \in Seq(S) /\ Len(h \o t) = Len(s)
      /\ \A x \in 1..Len(s) : (h \o t)[x] = IF x <= 1 THEN h[x] ELSE t[x - 1]
  <2>1. 1 + Len(t) = Len(s)
    BY <1>1, <1>3
  <2>2. /\ h \o t \in Seq(S) /\ Len(h \o t) = Len(h) + Len(t)
        /\ \A x \in 1..Len(h) + Len(t) :
             (h \o t)[x] = IF x <= Len(h) THEN h[x] ELSE t[x - Len(h)]
    <3>1. h \in Seq(S) /\ t \in Seq(S)
      BY <1>1, <1>2
    <3> QED BY ONLY <3>1, ConcatProperties
  <2> QED BY <1>2, <2>1, <2>2
<1>5. \A x \in 1..Len(s) : (h \o t)[x] = s[x]
  <2> SUFFICES ASSUME NEW x \in 1..Len(s) PROVE (h \o t)[x] = s[x]
    OBVIOUS
  <2>1. CASE x = 1
    BY <1>2, <1>4, <2>1
  <2>2. CASE x # 1
    <3>1. x - 1 \in 1..Len(t) /\ x - 1 + 1 = x /\ ~(x <= 1)
      BY <1>1, <1>3, <2>2
    <3> QED BY <1>1, <1>4, <3>1
  <2> QED BY <2>1, <2>2
<1>6. h \o t = s
  BY <1>4, <1>5, SeqEqual
<1> QED BY <1>6 DEF h, t

(* Appending a name adds it to the listing. *)
LEMMA RangeAppend ==
  ASSUME NEW v \in Seq(Name), NEW n \in Name
  PROVE  Range(Append(v, n)) = Range(v) \cup {n}
<1>1. /\ Len(v) \in Nat /\ Len(Append(v, n)) = Len(v) + 1
      /\ \A x \in 1..Len(v) : Append(v, n)[x] = v[x]
      /\ Append(v, n)[Len(v) + 1] = n
      /\ DOMAIN v = 1..Len(v) /\ DOMAIN Append(v, n) = 1..Len(v) + 1
  BY AppendProperties, LenProperties
<1>2. 1..Len(v) + 1 = (1..Len(v)) \cup {Len(v) + 1}
  BY <1>1
<1> QED BY <1>1, <1>2 DEF Range

-----------------------------------------------------------------------------
(* The listings and the directories                                        *)

DirectoriesApart(f) == \A p, q \in Path : f[p] = f[q] => p = q \/ f[p] = NoInode

(* Files only arrive, directories may go; none of it before the watches    *)
(* are placed; no directory has two paths; a descriptor for each watch.    *)
SettledWorld ==
  /\ FsOps \subseteq {"create", "move_in", "rmdir"}
  /\ ~EarlyChanges
  /\ \A f \in InitNodes : DirectoriesApart(f)
  /\ Len(Dirs) <= MaxWd

(* The queue of the kernel is not full. *)
HasRoom == Len(kern.queue) < MaxQueued

Additions == Arrivals \cup {"IN_IGNORED"}
AllAdded(q) == \A x \in 1..Len(q) : q[x].type \in Additions

(* The names in the events of q that are in S. *)
Names(q, S) == {q[x].name : x \in {y \in 1..Len(q) : q[y] \in S}}

Reports(d) == {e \in KernelEvent : e.wd = d /\ e.type \in Arrivals}
ForPath(p) == {e \in Event : obj[e.watch].path = p /\ e.type \in Arrivals}

InHand(p) ==
  IF pc.monitor \in {"lock", "mutate"} THEN Names(<<event>>, ForPath(p)) ELSE {}

(* The files that are on their way into the listing of p. *)
Arriving(p) ==
  LET d == kern.wd[node[p]]
  IN  Names(kern.queue, Reports(d)) \cup Names(m_buf, Reports(d))
        \cup Names(m_events, ForPath(p)) \cup InHand(p)

Known(p) == node[p] # NoInode /\ m_path[p] # Absent

(* A watch of the kernel is on the directory of p, and is found by it. *)
Placed(p) ==
  LET d == kern.wd[node[p]]
  IN  /\ d \in 1..MaxWd /\ kern.mask[node[p]] = ListingEvents
      /\ m_watches[d] # NULL /\ obj[m_watches[d]].path = p

OnlyAdditions ==
  /\ AllAdded(kern.queue) /\ AllAdded(m_buf) /\ AllAdded(m_events)
  /\ event # NULL => event.type \in Additions

(* Before the last watch is placed. *)
StartsRight ==
  /\ pc.monitor = "off" => i = 1
  /\ pc.monitor \in {"new", "add"} /\ fault = "none" => kern.open
  /\ pc.monitor = "add" => obj[i].enabled
  /\ ~Watching =>
       /\ kern.queue = <<>> /\ kern.next <= i
       /\ \A x \in 1..Len(m_watchlist) : node[m_watchlist[x]] # NoInode
       /\ \A p \in Path : m_paths[p] # NULL => Placed(p)

(* A watch is for an entry of the list; so are events. *)
Owned ==
  /\ \A w \in Watch : obj[w] # NULL => w \in 1..Len(m_watchlist) /\ obj[w].path = m_watchlist[w]
  /\ \A x \in 1..Len(m_events) : obj[m_events[x].watch] # NULL
  /\ event # NULL => obj[event.watch] # NULL

(* A directory on the list of watches has a listing, and the reverse. *)
ListedAndWatched ==
  /\ \A x \in 1..Len(m_watchlist) : m_path[m_watchlist[x]] # Absent
  /\ fault = "none" /\ pc.main = "watch" /\ node[Dirs[k]] # NoInode => m_path[Dirs[k]] # Absent
  /\ \A p \in Path : Known(p) =>
       \/ pc.main = "watch" /\ p = Dirs[k]
       \/ \E x \in 1..Len(m_watchlist) : m_watchlist[x] = p

PlacedInTurn ==
  /\ Watching => i > Len(m_watchlist)
  /\ \A x \in 1..Len(m_watchlist) :
       x < i /\ node[m_watchlist[x]] # NoInode => Placed(m_watchlist[x])

(* What is not in the listing is on its way. *)
UpToDate ==
  \A p \in Path : Known(p) => files[node[p]] = Range(m_path[p]) \cup Arriving(p)

SettledInv ==
  /\ DirectoriesApart(node) /\ OnlyAdditions /\ StartsRight /\ Owned
  /\ ListedAndWatched /\ PlacedInTurn /\ UpToDate

(* A thread on its way out has closed its eyes. *)
Working == pc.monitor \notin {"exit", "exited"}

LEMMA NamesConcat ==
  ASSUME NEW T, NEW q \in Seq(T), NEW r \in Seq(T), NEW S
  PROVE  Names(q \o r, S) = Names(q, S) \cup Names(r, S)
<1>1. /\ Len(q) \in Nat /\ Len(r) \in Nat /\ Len(q \o r) = Len(q) + Len(r)
      /\ \A x \in 1..Len(q) + Len(r) :
           (q \o r)[x] = IF x <= Len(q) THEN q[x] ELSE r[x - Len(q)]
  BY ConcatProperties, LenProperties
<1> DEFINE t == q \o r
<1> HIDE DEF t
<1>2. /\ Len(t) = Len(q) + Len(r)
      /\ \A x \in 1..Len(q) : x \in 1..Len(t) /\ t[x] = q[x]
      /\ \A x \in 1..Len(r) : Len(q) + x \in 1..Len(t) /\ t[Len(q) + x] = r[x]
  <2>1. Len(t) = Len(q) + Len(r)
    BY <1>1 DEF t
  <2>2. ASSUME NEW x \in 1..Len(q)
        PROVE  x \in 1..Len(t) /\ t[x] = q[x]
    <3>1. x \in 1..Len(q) + Len(r) /\ x <= Len(q)
      BY <1>1
    <3> QED BY <1>1, <2>1, <3>1 DEF t
  <2>3. ASSUME NEW x \in 1..Len(r)
        PROVE  Len(q) + x \in 1..Len(t) /\ t[Len(q) + x] = r[x]
    <3>1. Len(q) + x \in 1..Len(q) + Len(r) /\ ~(Len(q) + x <= Len(q)) /\ Len(q) + x - Len(q) = x
      BY <1>1
    <3>2. t[Len(q) + x] = r[Len(q) + x - Len(q)]
      BY <1>1, <3>1 DEF t
    <3> QED BY <2>1, <3>1, <3>2
  <2> QED BY <2>1, <2>2, <2>3
<1>3. \A x \in 1..Len(t) : x \in 1..Len(q) \/ (x - Len(q) \in 1..Len(r) /\ Len(q) + (x - Len(q)) = x)
  BY <1>1, <1>2
<1>4. Names(t, S) \subseteq Names(q, S) \cup Names(r, S)
  <2> SUFFICES ASSUME NEW x \in 1..Len(t), t[x] \in S
               PROVE  t[x].name \in Names(q, S) \cup Names(r, S)
    BY DEF Names
  <2>1. CASE x \in 1..Len(q)
    BY <1>2, <2>1 DEF Names
  <2>2. CASE x \notin 1..Len(q)
    <3>1. x - Len(q) \in 1..Len(r) /\ t[x] = r[x - Len(q)]
      BY <1>2, <1>3, <2>2
    <3> QED BY <3>1 DEF Names
  <2> QED BY <2>1, <2>2
<1>5. Names(q, S) \subseteq Names(t, S)
  <2> SUFFICES ASSUME NEW x \in 1..Len(q), q[x] \in S
               PROVE  q[x].name \in Names(t, S)
    BY DEF Names
  <2>1. x \in 1..Len(t) /\ t[x] = q[x]
    BY <1>2
  <2> QED BY <2>1 DEF Names
<1>6. Names(r, S) \subseteq Names(t, S)
  <2> SUFFICES ASSUME NEW x \in 1..Len(r), r[x] \in S
               PROVE  r[x].name \in Names(t, S)
    BY DEF Names
  <2>1. Len(q) + x \in 1..Len(t) /\ t[Len(q) + x] = r[x]
    BY <1>2
  <2> QED BY <2>1 DEF Names
<1> QED BY <1>4, <1>5, <1>6 DEF t

LEMMA NamesOne ==
  ASSUME NEW e, NEW S
  PROVE  Names(<<e>>, S) = IF e \in S THEN {e.name} ELSE {}
<1>1. Len(<<e>>) = 1 /\ <<e>>[1] = e /\ 1..1 = {1}
  OBVIOUS
<1> QED BY <1>1 DEF Names

LEMMA NamesNone ==
  ASSUME NEW S
  PROVE  Names(<<>>, S) = {}
BY DEF Names

LEMMA NamesAppend ==
  ASSUME NEW T, NEW q \in Seq(T), NEW e \in T, NEW S
  PROVE  Names(Append(q, e), S) = Names(q, S) \cup (IF e \in S THEN {e.name} ELSE {})
<1>1. Append(q, e) = q \o <<e>> /\ <<e>> \in Seq(T)
  BY AppendIsConcat
<1>2. \A r \in Seq(T) : Names(q \o r, S) = Names(q, S) \cup Names(r, S)
  BY NamesConcat
<1>3. Names(<<e>>, S) = IF e \in S THEN {e.name} ELSE {}
  BY NamesOne
<1> QED BY <1>1, <1>2, <1>3, Zenon

LEMMA NamesHeadTail ==
  ASSUME NEW T, NEW q \in Seq(T), q # <<>>, NEW S
  PROVE  Names(q, S) = (IF Head(q) \in S THEN {Head(q).name} ELSE {}) \cup Names(Tail(q), S)
<1>1. <<Head(q)>> \o Tail(q) = q /\ <<Head(q)>> \in Seq(T) /\ Tail(q) \in Seq(T)
  BY HeadThenTail, HeadTailProperties
<1>2. \A h, t \in Seq(T) : Names(h \o t, S) = Names(h, S) \cup Names(t, S)
  BY NamesConcat
<1>3. Names(<<Head(q)>>, S) = IF Head(q) \in S THEN {Head(q).name} ELSE {}
  BY NamesOne
<1> QED BY <1>1, <1>2, <1>3, Zenon

LEMMA NamesSplit ==
  ASSUME NEW T, NEW q \in Seq(T), NEW n \in 0..Len(q), NEW S
  PROVE  Names(q, S) = Names(SubSeq(q, 1, n), S) \cup Names(SubSeq(q, n + 1, Len(q)), S)
<1>1. Len(q) \in Nat /\ SubSeq(q, 1, Len(q)) = q
  BY LenProperties, SubSeqFull
<1>2. SubSeq(q, 1, n) \o SubSeq(q, n + 1, Len(q)) = q
  <2>1. 1 \in 1..Len(q) + 1 /\ n \in 1 - 1..Len(q) /\ Len(q) \in n..Len(q)
    BY <1>1
  <2>2. SubSeq(q, 1, n) \o SubSeq(q, n + 1, Len(q)) = SubSeq(q, 1, Len(q))
    BY <2>1, ConcatAdjacentSubSeq, Zenon
  <2> QED BY <1>1, <2>2, Zenon
<1>3. SubSeq(q, 1, n) \in Seq(T) /\ SubSeq(q, n + 1, Len(q)) \in Seq(T)
  BY <1>1, SubSeqProperties
<1>4. \A l, r \in Seq(T) : Names(l \o r, S) = Names(l, S) \cup Names(r, S)
  BY NamesConcat
<1> QED BY <1>2, <1>3, <1>4, Zenon

(* A sequence of events keeps its kind. *)
LEMMA AllAddedParts ==
  ASSUME NEW T, NEW q \in Seq(T), AllAdded(q)
  PROVE  /\ \A e \in T : e.type \in Additions => AllAdded(Append(q, e))
         /\ q # <<>> => AllAdded(Tail(q)) /\ Head(q).type \in Additions
         /\ \A n \in 0..Len(q) : AllAdded(SubSeq(q, 1, n)) /\ AllAdded(SubSeq(q, n + 1, Len(q)))
<1>1. Len(q) \in Nat
  BY LenProperties
<1>2. ASSUME NEW e \in T, e.type \in Additions
      PROVE  AllAdded(Append(q, e))
  <2>1. Len(Append(q, e)) = Len(q) + 1 /\ Append(q, e)[Len(q) + 1] = e
        /\ \A x \in 1..Len(q) : Append(q, e)[x] = q[x]
    BY AppendProperties
  <2>2. \A x \in 1..Len(q) + 1 : x \in 1..Len(q) \/ x = Len(q) + 1
    BY <1>1
  <2> QED BY <1>2, <2>1, <2>2 DEF AllAdded
<1>3. ASSUME q # <<>>
      PROVE  AllAdded(Tail(q)) /\ Head(q).type \in Additions
  <2>1. /\ Len(Tail(q)) = Len(q) - 1 /\ 1 \in 1..Len(q) /\ Head(q) = q[1]
        /\ \A x \in 1..Len(Tail(q)) : Tail(q)[x] = q[x + 1] /\ x + 1 \in 1..Len(q)
    BY <1>1, <1>3, HeadTailProperties
  <2> QED BY <2>1 DEF AllAdded
<1>4. ASSUME NEW n \in 0..Len(q)
      PROVE  AllAdded(SubSeq(q, 1, n)) /\ AllAdded(SubSeq(q, n + 1, Len(q)))
  <2>1. Len(SubSeq(q, 1, n)) = n /\ \A x \in 1..n : SubSeq(q, 1, n)[x] = q[x]
    BY <1>1
  <2>2. /\ Len(SubSeq(q, n + 1, Len(q))) = Len(q) - n
        /\ \A x \in 1..Len(q) - n : SubSeq(q, n + 1, Len(q))[x] = q[x + n] /\ x + n \in 1..Len(q)
    BY <1>1
  <2>3. \A x \in 1..n : x \in 1..Len(q)
    BY <1>1
  <2>4. AllAdded(SubSeq(q, 1, n))
    BY <2>1, <2>3 DEF AllAdded
  <2>5. AllAdded(SubSeq(q, n + 1, Len(q)))
    BY <2>2 DEF AllAdded
  <2> QED BY <2>4, <2>5
<1> QED BY <1>2, <1>3, <1>4

-----------------------------------------------------------------------------
(* Steps that change little                                                *)

(* Nothing is on its way before the last watch is placed. *)
LEMMA NothingArrives ==
  /\ MonitorInv /\ StartsRight /\ ~Watching => \A p : Arriving(p) = {}
  /\ (MonitorInv /\ StartsRight /\ ~Watching => \A p : Arriving(p) = {})'
<1>1. ASSUME MonitorInv, StartsRight, ~Watching, NEW p
      PROVE  Arriving(p) = {}
  <2>1. kern.queue = <<>> /\ m_buf = <<>> /\ m_events = <<>> /\ pc.monitor \notin {"lock", "mutate"}
    BY <1>1 DEF StartsRight, Watching, MonitorInv, LoopInStep
  <2> QED BY <2>1, NamesNone DEF Arriving, InHand
<1>2. ASSUME MonitorInv', StartsRight', ~Watching', NEW p
      PROVE  Arriving(p)' = {}
  <2>1. kern'.queue = <<>> /\ m_buf' = <<>> /\ m_events' = <<>> /\ pc'.monitor \notin {"lock", "mutate"}
    BY <1>2 DEF StartsRight, Watching, MonitorInv, LoopInStep
  <2> QED BY <2>1, NamesNone DEF Arriving, InHand
<1> QED BY <1>1, <1>2

(* Once the thread looks for events, every listed directory has its watch. *)
LEMMA KnownIsPlaced ==
  ASSUME MonitorInv, SettledInv, Watching, NEW p \in Path, Known(p)
  PROVE  Placed(p)
<1>1. pc.main # "watch"
  BY DEF MonitorInv, StartUpInStep, Watching
<1>2. PICK x \in 1..Len(m_watchlist) : m_watchlist[x] = p
  BY <1>1 DEF SettledInv, ListedAndWatched
<1>3. x < i
  <2>1. Len(m_watchlist) \in Nat /\ i \in Nat /\ i > Len(m_watchlist)
    BY LenProperties DEF SettledInv, PlacedInTurn, MonitorInv, TypeOK
  <2> QED BY <2>1
<1> QED BY <1>2, <1>3 DEF SettledInv, PlacedInTurn, Known

LEMMA SettledFrame ==
  ASSUME SettledInv, UNCHANGED <<node, files, kern, libVars, m_path, m_watchlist, k, i>>,
         Watching' = Watching, (pc'.main = "watch") = (pc.main = "watch"),
         pc'.monitor \in {"off", "new", "add"} => pc'.monitor = pc.monitor,
         fault' = "none" => fault = "none",
         event' # NULL => event' = event,
         pc'.monitor \in {"lock", "mutate"} => pc.monitor \in {"lock", "mutate"},
         pc.monitor \in {"lock", "mutate"} => pc'.monitor \in {"lock", "mutate"} /\ event' = event
  PROVE  SettledInv'
<1>0. UNCHANGED <<obj, m_watches, m_paths, m_buf, m_events>>
  BY DEF libVars
<1> USE <1>0
<1>1. DirectoriesApart(node') /\ OnlyAdditions'
  BY DEF SettledInv, OnlyAdditions, DirectoriesApart
<1>2. \A p : Placed(p)' = Placed(p) /\ Known(p)' = Known(p)
  BY DEF Placed, Known
<1>3. StartsRight'
  BY <1>2 DEF SettledInv, StartsRight
<1>4. Owned' /\ ListedAndWatched' /\ PlacedInTurn'
  BY <1>2 DEF SettledInv, Owned, ListedAndWatched, PlacedInTurn
<1>5. \A p : InHand(p)' = InHand(p)
  BY DEF InHand, ForPath
<1>6. \A p : Arriving(p)' = Arriving(p)
  BY <1>5 DEF Arriving, ForPath
<1>7. UpToDate'
  BY <1>2, <1>6 DEF SettledInv, UpToDate
<1> QED BY <1>1, <1>3, <1>4, <1>7 DEF SettledInv

-----------------------------------------------------------------------------
(* Other programs                                                          *)

LEMMA QueuedNames ==
  ASSUME NEW K \in KernelType, NEW e \in KernelEvent, Len(K.queue) < MaxQueued
  PROVE  /\ AllAdded(K.queue) /\ e.type \in Additions => AllAdded(Queued(K, e).queue)
         /\ \A S : Names(Queued(K, e).queue, S)
                     = Names(K.queue, S) \cup (IF e \in S THEN {e.name} ELSE {})
<1>1. K.queue \in Seq(KernelEvent) /\ Len(K.queue) \in Nat /\ MaxQueued \in Nat
  BY KernelAssumption DEF KernelType
<1>2. CASE K.queue # <<>> /\ Last(K.queue) = e
  <2>1. Queued(K, e) = K
    BY <1>1, <1>2 DEF Queued
  <2>2. Len(K.queue) \in 1..Len(K.queue) /\ K.queue[Len(K.queue)] = e
    BY <1>1, <1>2, EmptySeq DEF Last
  <2>3. \A S : e \in S => e.name \in Names(K.queue, S)
    BY <2>2 DEF Names
  <2> QED BY <2>1, <2>3
<1>3. CASE ~(K.queue # <<>> /\ Last(K.queue) = e)
  <2>1. Queued(K, e).queue = Append(K.queue, e)
    BY <1>1, <1>3 DEF Queued, KernelType
  <2> QED BY <1>1, <2>1, NamesAppend, AllAddedParts
<1> QED BY <1>2, <1>3

LEMMA EmittedNames ==
  ASSUME NEW K \in KernelType, NEW j \in Inode, NEW t \in Arrivals, NEW n \in Name,
         Len(K.queue) < MaxQueued, WdsApart(K), AllAdded(K.queue),
         NEW L, L = Emitted(K, j, t, n)
  PROVE  /\ AllAdded(L.queue)
         /\ \A d \in Wd : d # K.wd[j] => Names(L.queue, Reports(d)) = Names(K.queue, Reports(d))
         /\ K.wd[j] # NoWd /\ t \in K.mask[j] =>
              Names(L.queue, Reports(K.wd[j])) = Names(K.queue, Reports(K.wd[j])) \cup {n}
<1> DEFINE e == [wd |-> K.wd[j], type |-> t, name |-> n]
<1>1. e \in KernelEvent /\ e.type \in Additions /\ e.wd = K.wd[j] /\ e.type \in Arrivals
      /\ e.name = n
  BY DEF KernelType, KernelEvent, Additions, Arrivals, ListingEvents
<1>2. L = K \/ L = Queued(K, e)
  BY DEF Emitted, WdsApart
<1>3. K.wd[j] # NoWd /\ t \in K.mask[j] => L = Queued(K, e)
  BY DEF Emitted, WdsApart
<1> HIDE DEF e
<1>4. AllAdded(L.queue)
  BY <1>1, <1>2, QueuedNames
<1>5. \A d : e \in Reports(d) <=> d = K.wd[j]
  BY <1>1 DEF Reports
<1>6. \A d : Names(Queued(K, e).queue, Reports(d))
               = Names(K.queue, Reports(d)) \cup (IF d = K.wd[j] THEN {n} ELSE {})
  BY <1>1, <1>5, QueuedNames
<1> QED BY <1>2, <1>3, <1>4, <1>6

LEMMA ForgottenNames ==
  ASSUME NEW K \in KernelType, NEW j \in Inode, Len(K.queue) < MaxQueued, AllAdded(K.queue)
  PROVE  LET L == Forgotten(K, j)
         IN  /\ AllAdded(L.queue) /\ L.mask = [K.mask EXCEPT ![j] = {}]
             /\ \A d : Names(L.queue, Reports(d)) = Names(K.queue, Reports(d))
<1> DEFINE M == [K EXCEPT !.wd[j] = NoWd, !.mask[j] = {}]
           e == [wd |-> K.wd[j], type |-> "IN_IGNORED", name |-> NoName]
<1>1. M \in KernelType /\ e \in KernelEvent
  BY WdType DEF KernelType, KernelEvent
<1>2. M.queue = K.queue /\ M.mask = [K.mask EXCEPT ![j] = {}]
  BY DEF KernelType
<1>3. Forgotten(K, j) = Queued(M, e)
  BY DEF Forgotten
<1>4. e.type \in Additions /\ \A d : e \notin Reports(d)
  BY DEF Additions, Reports, Arrivals
<1>5. Queued(M, e).mask = M.mask
  <2>1. \A x : [M EXCEPT !.queue = x].mask = M.mask
    BY <1>1 DEF KernelType
  <2> HIDE DEF M
  <2> QED BY <2>1 DEF Queued
<1> HIDE DEF M, e
<1>6. AllAdded(Queued(M, e).queue)
  BY <1>1, <1>2, <1>4, QueuedNames
<1>7. \A d : Names(Queued(M, e).queue, Reports(d))
             = Names(K.queue, Reports(d)) \cup (IF e \in Reports(d) THEN {e.name} ELSE {})
  BY <1>1, <1>2, QueuedNames
<1>8. \A d : Names(Queued(M, e).queue, Reports(d)) = Names(K.queue, Reports(d))
  BY <1>4, <1>7
<1> QED BY <1>2, <1>3, <1>5, <1>6, <1>8

LEMMA EnvironmentFrame ==
  ASSUME MonitorInv, SettledInv, Watching, UNCHANGED <<libVars, fault, monVars, pc>>,
         \A p \in Path : node'[p] # NoInode =>
           /\ node'[p] = node[p]
           /\ kern'.wd[node[p]] = kern.wd[node[p]]
           /\ kern'.mask[node[p]] = kern.mask[node[p]],
         AllAdded(kern'.queue),
         \A p \in Path : Placed(p) /\ Known(p) /\ node'[p] # NoInode =>
           \E X : /\ files'[node[p]] = files[node[p]] \cup X
                  /\ Names(kern'.queue, Reports(kern.wd[node[p]]))
                       = Names(kern.queue, Reports(kern.wd[node[p]])) \cup X
  PROVE  SettledInv'
<1>0. UNCHANGED <<obj, m_watches, m_paths, m_buf, m_events, m_path, m_watchlist, k, i, event>>
  BY DEF libVars, monVars, runVars
<1> USE <1>0
<1>1. DirectoriesApart(node')
  BY DEF SettledInv, DirectoriesApart
<1>2. OnlyAdditions' /\ Owned'
  BY DEF SettledInv, OnlyAdditions, Owned
<1>3. StartsRight'
  BY DEF Watching, StartsRight
<1>4. \A p \in Path : Known(p)' => Known(p)
  BY DEF Known
<1>5. pc.main # "watch"
  BY DEF MonitorInv, StartUpInStep, Watching
<1>6. ListedAndWatched'
  BY <1>4, <1>5 DEF SettledInv, ListedAndWatched
<1>7. \A p \in Path : node'[p] # NoInode /\ Placed(p) => Placed(p)'
  BY DEF Placed
<1>8. PlacedInTurn'
  <2>1. \A x \in 1..Len(m_watchlist) : m_watchlist[x] \in Path
    BY ElementOfSeq DEF MonitorInv, TypeOK
  <2> QED BY <1>7, <2>1 DEF SettledInv, PlacedInTurn, Watching
<1>9. UpToDate'
  <2> SUFFICES ASSUME NEW p \in Path, Known(p)'
               PROVE  files'[node'[p]] = Range(m_path[p]) \cup Arriving(p)'
    BY DEF UpToDate
  <2>1. Known(p) /\ Placed(p) /\ node'[p] # NoInode /\ node'[p] = node[p]
    BY <1>4, KnownIsPlaced DEF Known
  <2>2. PICK X : /\ files'[node[p]] = files[node[p]] \cup X
                 /\ Names(kern'.queue, Reports(kern.wd[node[p]]))
                      = Names(kern.queue, Reports(kern.wd[node[p]])) \cup X
    BY <2>1
  <2>3. InHand(p)' = InHand(p) /\ ForPath(p)' = ForPath(p)
    BY DEF InHand, ForPath
  <2>4. Arriving(p)' = Arriving(p) \cup X
    BY <2>1, <2>2, <2>3 DEF Arriving
  <2> QED BY <2>1, <2>2, <2>4 DEF SettledInv, UpToDate
<1> QED BY <1>1, <1>2, <1>3, <1>6, <1>8, <1>9 DEF SettledInv

LEMMA SettledEnvironment ==
  ASSUME MonitorInv, NameInv, SettledInv, SettledWorld, HasRoom, Environment
  PROVE  SettledInv'
<1>1. Watching /\ UNCHANGED <<libVars, fault, monVars, pc>> /\ FileSystem
  BY DEF Environment, SettledWorld
<1>2. /\ kern \in KernelType /\ kern.wd \in [Inode -> Wd] /\ kern.mask \in [Inode -> SUBSET MaskBits]
      /\ node \in [Path -> Inode \cup {NoInode}] /\ files \in [Inode -> SUBSET Name]
      /\ WdsApart(kern) /\ Ends(kern, kern.queue) /\ Len(kern.queue) < MaxQueued
      /\ AllAdded(kern.queue)
  BY DEF MonitorInv, TypeOK, KernelTypeOK, KernelType, NameInv, HasRoom, SettledInv, OnlyAdditions
<1>3. ASSUME NEW j \in Inode, NEW n \in Name, NEW t \in Arrivals, UNCHANGED node,
             files' = [files EXCEPT ![j] = @ \cup {n}], kern' = Emitted(kern, j, t, n)
      PROVE  SettledInv'
  <2>1. kern'.wd = kern.wd /\ kern'.mask = kern.mask
    BY <1>2, <1>3, EmittedEnds DEF SameWatches, Arrivals, ListingEvents
  <2>0. /\ kern \in KernelType /\ Len(kern.queue) < MaxQueued /\ WdsApart(kern)
        /\ AllAdded(kern.queue) /\ kern' = Emitted(kern, j, t, n)
    BY <1>2, <1>3
  <2>2. AllAdded(kern'.queue)
    BY <2>0, EmittedNames
  <2>4. \A d \in Wd :
          d # kern.wd[j] => Names(kern'.queue, Reports(d)) = Names(kern.queue, Reports(d))
    BY <2>0, EmittedNames
  <2>5. kern.wd[j] # NoWd /\ t \in kern.mask[j] =>
          Names(kern'.queue, Reports(kern.wd[j])) = Names(kern.queue, Reports(kern.wd[j])) \cup {n}
    BY <2>0, EmittedNames
  <2>3. ASSUME NEW p \in Path, Placed(p), Known(p)
        PROVE  \E X : /\ files'[node[p]] = files[node[p]] \cup X
                      /\ Names(kern'.queue, Reports(kern.wd[node[p]]))
                           = Names(kern.queue, Reports(kern.wd[node[p]])) \cup X
    <3>1. node[p] \in Inode
      BY <1>2, <2>3 DEF Known
    <3>2. CASE node[p] = j
      <4>1. kern.wd[j] # NoWd /\ t \in kern.mask[j]
        BY <2>3, <3>2 DEF Placed, NoWd, Arrivals, ListingEvents
      <4>2. files'[j] = files[j] \cup {n}
        BY <1>2, <1>3
      <4> QED BY <2>5, <3>2, <4>1, <4>2
    <3>3. CASE node[p] # j
      <4>1. kern.wd[node[p]] # kern.wd[j] /\ kern.wd[node[p]] \in Wd
        BY <1>2, <2>3, <3>1, <3>3 DEF Placed, WdsApart, NoWd
      <4>2. Names(kern'.queue, Reports(kern.wd[node[p]]))
              = Names(kern.queue, Reports(kern.wd[node[p]])) \cup {}
        BY <2>4, <4>1
      <4>3. files'[node[p]] = files[node[p]] \cup {}
        BY <1>2, <1>3, <3>1, <3>3
      <4> QED BY <4>2, <4>3
    <3> QED BY <3>2, <3>3
  <2> QED BY <1>1, <1>3, <2>1, <2>2, <2>3, EnvironmentFrame
<1>4. ASSUME NEW j \in Inode, NEW n \in Name, Create(j, n) \/ MoveIn(j, n)
      PROVE  SettledInv'
  <2>1. {"IN_CREATE", "IN_MOVED_TO"} = Arrivals
    BY DEF Arrivals
  <2> QED BY <1>3, <1>4, <2>1 DEF Create, MoveIn
<1>5. ASSUME NEW j \in Inode, RemoveDir(j)
      PROVE  SettledInv'
  <2>1. \A p \in Path : node'[p] = IF node[p] = j THEN NoInode ELSE node[p]
    BY <1>5 DEF RemoveDir
  <2>2. files' = files
    BY <1>5 DEF RemoveDir
  <2>3. /\ AllAdded(kern'.queue) /\ \A d : Names(kern'.queue, Reports(d)) = Names(kern.queue, Reports(d))
        /\ \A l \in Inode \ {j} : kern'.wd[l] = kern.wd[l] /\ kern'.mask[l] = kern.mask[l]
    <3>1. CASE kern.wd[j] = NoWd
      BY <1>2, <1>5, <3>1 DEF RemoveDir
    <3>2. CASE kern.wd[j] # NoWd
      <4>1. kern' = Forgotten(kern, j)
        BY <1>5, <3>2 DEF RemoveDir
      <4>2. kern'.wd = [kern.wd EXCEPT ![j] = NoWd]
        BY <1>2, <3>2, <4>1, ForgottenEnds
      <4>3. /\ AllAdded(kern'.queue) /\ kern'.mask = [kern.mask EXCEPT ![j] = {}]
            /\ \A d : Names(kern'.queue, Reports(d)) = Names(kern.queue, Reports(d))
        BY <1>2, <4>1, ForgottenNames
      <4> QED BY <1>2, <4>2, <4>3
    <3> QED BY <3>1, <3>2
  <2>4. ASSUME NEW p \in Path, node'[p] # NoInode
        PROVE  node'[p] = node[p] /\ node[p] \in Inode \ {j}
    BY <1>2, <2>1, <2>4
  <2>5. \A p \in Path : Placed(p) /\ Known(p) /\ node'[p] # NoInode =>
          \E X : /\ files'[node[p]] = files[node[p]] \cup X
                 /\ Names(kern'.queue, Reports(kern.wd[node[p]]))
                      = Names(kern.queue, Reports(kern.wd[node[p]])) \cup X
    <3>1. \A p : files'[node[p]] = files[node[p]] \cup {}
                 /\ Names(kern'.queue, Reports(kern.wd[node[p]]))
                      = Names(kern.queue, Reports(kern.wd[node[p]])) \cup {}
      BY <2>2, <2>3
    <3> QED BY <3>1
  <2> QED BY <1>1, <2>3, <2>4, <2>5, EnvironmentFrame
<1>6. {"delete", "move_out", "rename", "retarget"} \cap FsOps = {}
  BY DEF SettledWorld
<1> QED BY <1>1, <1>4, <1>5, <1>6
        DEF FileSystem, Delete, MoveOut, Rename, Retarget

-----------------------------------------------------------------------------
(* Start-up                                                                *)

LEMMA ListedWhole ==
  ASSUME NEW S \in SUBSET Name, NEW listing \in SetToSeqs(S)
  PROVE  Range(listing) = S
<1> DEFINE D == 1..Cardinality(S)
<1>1. IsFiniteSet(S)
  BY FS_Subset, KernelAssumption
<1>2. Cardinality(S) \in Nat
  BY <1>1, FS_CardinalityType
<1>3. listing \in [D -> S] /\ \A x, y \in D : x # y => listing[x] # listing[y]
  BY DEF SetToSeqs
<1>4. listing \in Injection(D, S)
  BY <1>3 DEF Injection, IsInjective
<1>5. Cardinality(D) = Cardinality(S)
  BY <1>2, FS_Interval
<1>6. listing \in Surjection(D, S)
  BY <1>1, <1>4, <1>5, FS_Injection
<1> QED BY <1>3, <1>6 DEF Surjection, Range

LEMMA SettledListDirectory ==
  ASSUME MonitorInv, MonitorInv', SettledInv, fault = "none", ListDirectory
  PROVE  SettledInv'
<1> DEFINE p0 == Dirs[k]
<1>1. /\ pc.main = "list" /\ pc'.main = "watch" /\ pc'.monitor = pc.monitor
      /\ UNCHANGED <<node, files, kern, obj, m_watches, m_paths, m_buf, m_events, m_watchlist, k, i,
                     event>>
  BY MainGoes DEF ListDirectory, MonitorInv, TypeOK, PcType, MainPlaces, kernelVars, libVars,
                  runVars
<1>2. pc.monitor = "off" /\ ~Watching /\ ~Watching'
  BY <1>1 DEF MonitorInv, StartUpInStep, Watching
<1>3. p0 \in Path
  BY ElementOfSeq, MonitorAssumption DEF MonitorInv, TypeOK
<1>4. \/ UNCHANGED m_path /\ (node[p0] = NoInode \/ fault' = "abort")
      \/ /\ node[p0] # NoInode /\ m_path' = [m_path EXCEPT ![p0] = m_path'[p0]]
         /\ m_path'[p0] # Absent /\ Range(m_path'[p0]) = files[node[p0]]
  <2>1. CASE \E listing \in SetToSeqs(files[node[p0]]) :
               m_path' = [m_path EXCEPT ![p0] = listing] /\ node[p0] # NoInode
    <3>1. files[node[p0]] \in SUBSET Name
      BY <1>3, <2>1 DEF MonitorInv, TypeOK, KernelTypeOK
    <3>2. PICK listing \in SetToSeqs(files[node[p0]]) : m_path' = [m_path EXCEPT ![p0] = listing]
      BY <2>1
    <3>3. listing \in Seq(Name) /\ Range(listing) = files[node[p0]]
      BY <3>1, ListingType, ListedWhole
    <3>4. m_path'[p0] = listing
      BY <1>3, <3>2 DEF MonitorInv, TypeOK
    <3> QED BY <2>1, <3>2, <3>3, <3>4, MonitorAssumption
  <2> QED BY <2>1 DEF ListDirectory, UpdateDirectoryListing
<1>5. ASSUME NEW p \in Path, p # p0
      PROVE  m_path'[p] = m_path[p]
  BY <1>4, <1>5 DEF MonitorInv, TypeOK
<1> HIDE DEF p0
<1>6. DirectoriesApart(node') /\ OnlyAdditions' /\ Owned'
  BY <1>1 DEF SettledInv, DirectoriesApart, OnlyAdditions, Owned
<1>7. \A p : Placed(p)' = Placed(p)
  BY <1>1 DEF Placed
<1>8. StartsRight' /\ PlacedInTurn'
  BY <1>1, <1>2, <1>7 DEF SettledInv, StartsRight, PlacedInTurn
<1>9. ListedAndWatched'
  <2>1. \A x \in 1..Len(m_watchlist) : m_watchlist[x] \in Path
    BY ElementOfSeq DEF MonitorInv, TypeOK
  <2>2. \A x \in 1..Len(m_watchlist') : m_path'[m_watchlist'[x]] # Absent
    BY <1>1, <1>4, <1>5, <2>1 DEF SettledInv, ListedAndWatched
  <2>3. fault' = "none" /\ node'[p0] # NoInode => m_path'[p0] # Absent
    BY <1>1, <1>4
  <2>4. ASSUME NEW p \in Path, Known(p)', p # p0
        PROVE  \E x \in 1..Len(m_watchlist) : m_watchlist[x] = p
    BY <1>1, <1>5, <2>4 DEF SettledInv, ListedAndWatched, Known
  <2> QED BY <1>1, <2>2, <2>3, <2>4 DEF ListedAndWatched, p0
<1>10. UpToDate'
  <2> SUFFICES ASSUME NEW p \in Path, Known(p)'
               PROVE  files'[node'[p]] = Range(m_path'[p]) \cup Arriving(p)'
    BY DEF UpToDate
  <2>1. Arriving(p)' = {} /\ Arriving(p) = {}
    BY <1>2, <1>8, NothingArrives DEF SettledInv
  <2>2. m_path'[p] = m_path[p] => files[node[p]] = Range(m_path[p]) \cup Arriving(p)
    BY <1>1 DEF SettledInv, UpToDate, Known
  <2>3. m_path'[p] # m_path[p] => Range(m_path'[p]) = files[node[p]]
    BY <1>4, <1>5
  <2> QED BY <1>1, <2>1, <2>2, <2>3
<1> QED BY <1>6, <1>8, <1>9, <1>10 DEF SettledInv

LEMMA SettledMonitorDirectory ==
  ASSUME MonitorInv, MonitorInv', SettledInv, fault = "none", MonitorDirectory
  PROVE  SettledInv'
<1> DEFINE p0 == Dirs[k]
<1>1. /\ pc.main = "watch" /\ pc'.main # "watch" /\ pc'.monitor = pc.monitor
      /\ UNCHANGED <<node, files, kern, obj, m_watches, m_paths, m_buf, m_events, m_path, i, event,
                     fault>>
      /\ m_watchlist' = IF node[p0] # NoInode THEN Append(m_watchlist, p0) ELSE m_watchlist
  BY MainGoes DEF MonitorDirectory, MonitorInv, TypeOK, PcType, MainPlaces, kernelVars, libVars,
                  runVars
<1>2. pc.monitor = "off" /\ ~Watching /\ ~Watching' /\ i = 1
  BY <1>1 DEF MonitorInv, StartUpInStep, Watching, SettledInv, StartsRight
<1>3. p0 \in Path /\ m_watchlist \in Seq(Path) /\ Len(m_watchlist) \in Nat
  BY ElementOfSeq, LenProperties, MonitorAssumption DEF MonitorInv, TypeOK
<1>4. /\ \A x \in 1..Len(m_watchlist) :
           x \in 1..Len(m_watchlist') /\ m_watchlist'[x] = m_watchlist[x]
      /\ \A x \in 1..Len(m_watchlist') :
           x \in 1..Len(m_watchlist) \/ (node[p0] # NoInode /\ m_watchlist'[x] = p0)
      /\ node[p0] # NoInode => \E x \in 1..Len(m_watchlist') : m_watchlist'[x] = p0
  <2>1. CASE node[p0] = NoInode
    BY <1>1, <2>1
  <2>2. CASE node[p0] # NoInode
    <3>1. /\ Len(m_watchlist') = Len(m_watchlist) + 1
          /\ \A x \in 1..Len(m_watchlist) : m_watchlist'[x] = m_watchlist[x]
          /\ m_watchlist'[Len(m_watchlist) + 1] = p0
      BY <1>1, <1>3, <2>2, AppendProperties
    <3> HIDE DEF p0
    <3>2. /\ \A x \in 1..Len(m_watchlist) : x \in 1..Len(m_watchlist) + 1
          /\ \A x \in 1..Len(m_watchlist) + 1 :
               x \in 1..Len(m_watchlist) \/ x = Len(m_watchlist) + 1
          /\ Len(m_watchlist) + 1 \in 1..Len(m_watchlist) + 1
      BY <1>3
    <3> QED BY <2>2, <3>1, <3>2
  <2> QED BY <2>1, <2>2
<1> HIDE DEF p0
<1>5. DirectoriesApart(node') /\ OnlyAdditions'
  BY <1>1 DEF SettledInv, DirectoriesApart, OnlyAdditions
<1>6. Owned'
  BY <1>1, <1>4 DEF SettledInv, Owned
<1>7. \A p : Placed(p)' = Placed(p) /\ Known(p)' = Known(p)
  BY <1>1 DEF Placed, Known
<1>8. StartsRight'
  BY <1>1, <1>2, <1>4, <1>7 DEF SettledInv, StartsRight
<1>9. PlacedInTurn'
  BY <1>1, <1>2 DEF PlacedInTurn
<1>10. ListedAndWatched'
  <2>1. node[p0] # NoInode => m_path[p0] # Absent
    BY <1>1 DEF SettledInv, ListedAndWatched, p0
  <2>2. \A x \in 1..Len(m_watchlist') : m_path[m_watchlist'[x]] # Absent
    BY <1>4, <2>1 DEF SettledInv, ListedAndWatched
  <2>3. ASSUME NEW p \in Path, Known(p)
        PROVE  \E x \in 1..Len(m_watchlist') : m_watchlist'[x] = p
    <3>1. p = p0 \/ \E x \in 1..Len(m_watchlist) : m_watchlist[x] = p
      BY <2>3 DEF SettledInv, ListedAndWatched, p0
    <3>2. node[p] # NoInode
      BY <2>3 DEF Known
    <3> QED BY <1>4, <3>1, <3>2
  <2> QED BY <1>1, <1>7, <2>2, <2>3 DEF ListedAndWatched
<1>11. UpToDate'
  <2>1. \A p : Arriving(p)' = {} /\ Arriving(p) = {}
    BY <1>2, <1>8, NothingArrives DEF SettledInv
  <2> QED BY <1>1, <1>7, <2>1 DEF SettledInv, UpToDate
<1> QED BY <1>5, <1>6, <1>8, <1>9, <1>10, <1>11 DEF SettledInv

LEMMA SettledInit ==
  ASSUME Init, SettledWorld
  PROVE  SettledInv
<1>1. /\ node \in InitNodes /\ kern.queue = <<>> /\ kern.next = 1 /\ m_buf = <<>> /\ m_events = <<>>
      /\ event = NULL /\ m_watchlist = <<>> /\ i = 1 /\ pc = [main |-> "list", monitor |-> "off"]
      /\ obj = [w \in Watch |-> NULL] /\ m_paths = [p \in Path |-> NULL]
      /\ m_path = [p \in Path |-> Absent]
  BY DEF Init, KernelInit, LibraryInit
<1>2. DirectoriesApart(node) /\ OnlyAdditions
  BY <1>1 DEF SettledWorld, OnlyAdditions, AllAdded
<1>3. ~Watching /\ StartsRight /\ Owned
  BY <1>1 DEF StartsRight, Owned, Watching
<1>4. ListedAndWatched /\ PlacedInTurn
  BY <1>1, <1>3 DEF ListedAndWatched, PlacedInTurn, Known
<1>5. UpToDate
  BY <1>1 DEF UpToDate, Known
<1> QED BY <1>2, <1>3, <1>4, <1>5 DEF SettledInv

-----------------------------------------------------------------------------
(* The watches are placed                                                  *)

LEMMA SettledOpen ==
  ASSUME MonitorInv, MonitorInv', SettledInv, OpenInotify
  PROVE  SettledInv'
<1>1. /\ pc.monitor = "init" /\ pc'.monitor = "new" /\ pc'.main = pc.main
      /\ UNCHANGED <<node, files, obj, m_watches, m_paths, m_buf, m_events, m_path, m_watchlist, k, i,
                     event>>
      /\ kern'.wd = kern.wd /\ kern'.mask = kern.mask /\ kern'.next = kern.next
      /\ kern'.queue = kern.queue
      /\ fault' = "abort" \/ (kern'.open /\ fault' = fault)
  <2>1. pc.monitor = "init" /\ pc'.monitor = "new" /\ pc'.main = pc.main
    BY MonitorGoes DEF OpenInotify, MonitorInv, TypeOK, PcType, MonitorPlaces
  <2> QED BY <2>1 DEF OpenInotify, Open, libVars, monVars, runVars, MonitorInv, TypeOK, KernelTypeOK,
                 KernelType
<1>2. ~Watching /\ ~Watching' /\ pc.main # "watch"
  BY <1>1 DEF Watching, MonitorInv, StartUpInStep
<1>3. DirectoriesApart(node') /\ OnlyAdditions' /\ Owned'
  BY <1>1 DEF SettledInv, DirectoriesApart, OnlyAdditions, Owned
<1>4. \A p : Placed(p)' = Placed(p) /\ Known(p)' = Known(p)
  BY <1>1 DEF Placed, Known
<1>5. StartsRight' /\ PlacedInTurn' /\ ListedAndWatched'
  <2>1. StartsRight'
    BY <1>1, <1>2, <1>4 DEF SettledInv, StartsRight
  <2>2. PlacedInTurn' /\ ListedAndWatched'
    BY <1>1, <1>2, <1>4 DEF SettledInv, PlacedInTurn, ListedAndWatched
  <2> QED BY <2>1, <2>2
<1>6. UpToDate'
  <2>1. \A p : Arriving(p)' = {} /\ Arriving(p) = {}
    BY <1>2, <1>5, NothingArrives DEF SettledInv
  <2> QED BY <1>1, <1>4, <2>1 DEF SettledInv, UpToDate
<1> QED BY <1>3, <1>5, <1>6 DEF SettledInv

(* What the two steps on a watch leave alone, and what they need. *)
LEMMA PlacingFrame ==
  ASSUME MonitorInv, MonitorInv', SettledInv, pc.monitor \in {"new", "add"},
         pc'.monitor \in {"new", "add"}, pc'.main = pc.main,
         UNCHANGED <<node, files, m_buf, m_events, m_path, m_watchlist, k, event, fault>>,
         StartsRight', PlacedInTurn',
         \A w \in Watch : obj'[w] # NULL => w \in 1..Len(m_watchlist) /\ obj'[w].path = m_watchlist[w],
         kern'.queue = kern.queue
  PROVE  SettledInv'
<1>1. ~Watching /\ ~Watching' /\ pc.main # "watch" /\ m_events = <<>> /\ event = NULL
  BY DEF Watching, MonitorInv, StartUpInStep, LoopInStep
<1>2. DirectoriesApart(node') /\ OnlyAdditions' /\ Owned'
  BY <1>1 DEF SettledInv, DirectoriesApart, OnlyAdditions, Owned
<1>3. \A p : Known(p)' = Known(p)
  BY DEF Known
<1>4. ListedAndWatched'
  BY <1>1, <1>3 DEF SettledInv, ListedAndWatched
<1>5. UpToDate'
  <2>1. \A p : Arriving(p)' = {} /\ Arriving(p) = {}
    BY <1>1, NothingArrives DEF SettledInv
  <2> QED BY <1>3, <2>1 DEF SettledInv, UpToDate
<1> QED BY <1>2, <1>4, <1>5 DEF SettledInv

LEMMA SettledNewWatch ==
  ASSUME MonitorInv, MonitorInv', SettledInv, fault = "none", NewWatch
  PROVE  SettledInv'
<1>1. /\ pc.monitor = "new" /\ pc'.monitor = "add" /\ pc'.main = pc.main
      /\ i <= Len(m_watchlist) /\ Construct(i, m_watchlist[i], ListingEvents, TRUE)
      /\ UNCHANGED <<node, files, kern, m_watches, m_paths, m_buf, m_events, m_path, m_watchlist, k, i,
                     event, fault>>
  <2>1. pc.monitor = "new" /\ pc'.monitor = "add" /\ pc'.main = pc.main
    BY MonitorGoes DEF NewWatch, MonitorInv, TypeOK, PcType, MonitorPlaces
  <2> QED BY <2>1 DEF NewWatch, Construct, monVars, runVars
<1>2. i \in 1..Len(m_watchlist) /\ i \in Watch
  <2>1. Len(m_watchlist) \in Nat /\ Len(Dirs) \in Nat /\ i \in 1..Len(m_watchlist)
    BY <1>1, LenProperties, MonitorAssumption DEF MonitorInv, TypeOK
  <2> QED BY <2>1, MonitorAssumption DEF MonitorInv, StartUpInStep
<1>3. /\ obj[i] = NULL /\ obj'[i].path = m_watchlist[i] /\ obj'[i].enabled
      /\ \A w \in Watch \ {i} : obj'[w] = obj[w]
  BY <1>1, <1>2 DEF Construct, MonitorInv, TypeOK, LibraryTypeOK
<1>4. ASSUME NEW p, Placed(p)
      PROVE  Placed(p)'
  <2>1. kern.wd[node[p]] \in 1..MaxWd /\ m_watches[kern.wd[node[p]]] # NULL
    BY <1>4 DEF Placed
  <2>2. m_watches[kern.wd[node[p]]] \in Watch \ {i}
    <3>1. m_watches \in [1..MaxWd -> Watch \cup {NULL}]
      BY DEF MonitorInv, TypeOK, LibraryTypeOK
    <3>2. WatchTablesAgree
      BY DEF MonitorInv
    <3>3. obj[m_watches[kern.wd[node[p]]]] # NULL
      BY <2>1, <3>2 DEF WatchTablesAgree
    <3> QED BY <1>3, <2>1, <3>1, <3>3
  <2> QED BY <1>1, <1>3, <1>4, <2>2 DEF Placed
<1>5. StartsRight'
  BY <1>1, <1>3, <1>4 DEF SettledInv, StartsRight, Watching
<1>6. PlacedInTurn'
  BY <1>1, <1>4 DEF SettledInv, PlacedInTurn, Watching
<1>7. \A w \in Watch : obj'[w] # NULL => w \in 1..Len(m_watchlist) /\ obj'[w].path = m_watchlist[w]
  BY <1>2, <1>3 DEF SettledInv, Owned
<1> QED BY <1>1, <1>5, <1>6, <1>7, PlacingFrame

(* Add() finds the directory without a watch, or with the right one. *)
LEMMA SettledAddWatch ==
  ASSUME MonitorInv, MonitorInv', NameInv, NameInv', SettledInv, SettledWorld, fault = "none", AddWatch
  PROVE  SettledInv'
<1>0. PICK p0 : p0 = m_watchlist[i]
  OBVIOUS
<1> DEFINE d == AddedWd(kern, p0)
<1>1. /\ pc.monitor = "add" /\ pc'.monitor = "new" /\ pc'.main = pc.main /\ Add(i) /\ i' = i + 1
      /\ UNCHANGED <<node, files, m_path, m_watchlist, k, event>>
  <2>1. pc.monitor = "add" /\ pc'.monitor = "new" /\ pc'.main = pc.main
    BY MonitorGoes DEF AddWatch, MonitorInv, TypeOK, PcType, MonitorPlaces
  <2> QED BY <2>1 DEF AddWatch
<1>2. /\ i \in 1..Len(m_watchlist) /\ i \in Watch /\ i \in Nat /\ i <= MaxWd /\ p0 \in Path
      /\ obj[i] # NULL /\ obj[i].wd = NoWd /\ obj[i].enabled /\ obj[i].path = p0
      /\ obj[i].mask = ListingEvents /\ obj[i] \in WatchObject
  <2>1. /\ Len(m_watchlist) \in Nat /\ Len(Dirs) \in Nat /\ i \in Nat /\ i >= 1
        /\ i <= Len(m_watchlist) /\ Len(m_watchlist) <= Len(Dirs)
        /\ obj[i] # NULL /\ obj[i].wd = NoWd
    BY <1>1, LenProperties, MonitorAssumption DEF MonitorInv, TypeOK, StartUpInStep
  <2>2. i \in 1..Len(m_watchlist) /\ i \in 1..Len(Dirs) /\ i <= MaxWd
    BY <2>1, KernelAssumption DEF SettledWorld
  <2>3. i \in Watch
    BY <2>2, MonitorAssumption
  <2>4. p0 \in Path
    BY <1>0, <2>2, ElementOfSeq DEF MonitorInv, TypeOK
  <2>5. obj[i].enabled /\ obj[i].path = p0
    BY <1>0, <1>1, <2>1, <2>3 DEF SettledInv, StartsRight, Owned
  <2>6. obj[i].mask = ListingEvents /\ obj[i] \in WatchObject
    BY <2>1, <2>3 DEF NameInv, MonitorInv, TypeOK, LibraryTypeOK
  <2> QED BY <2>1, <2>2, <2>3, <2>4, <2>5, <2>6
<1>3. /\ kern.open /\ kern.next <= i /\ node[p0] # NoInode /\ node[p0] \in Inode
      /\ \A p \in Path : m_paths[p] # NULL => Placed(p)
      /\ kern \in KernelType /\ kern.wd \in [Inode -> Wd] /\ kern.mask \in [Inode -> SUBSET MaskBits]
      /\ kern.next \in Nat /\ KernelTypeOK
      /\ node \in [Path -> Inode \cup {NoInode}]
  <2>1. ~Watching
    BY <1>1 DEF Watching
  <2>2. /\ kern \in KernelType /\ kern.wd \in [Inode -> Wd] /\ kern.next \in Nat
        /\ kern.mask \in [Inode -> SUBSET MaskBits] /\ KernelTypeOK
        /\ node \in [Path -> Inode \cup {NoInode}]
    BY KernelFields DEF MonitorInv, TypeOK, KernelTypeOK, KernelType
  <2>3. /\ kern.open /\ kern.next <= i /\ node[p0] # NoInode
        /\ \A p \in Path : m_paths[p] # NULL => Placed(p)
    BY <1>0, <1>1, <1>2, <2>1 DEF SettledInv, StartsRight
  <2> QED BY <1>2, <2>2, <2>3
<1>4. d # NoWd /\ d = IF kern.wd[node[p0]] # NoWd THEN kern.wd[node[p0]] ELSE kern.next
  <2>1. kern.next <= MaxWd
    BY <1>2, <1>3, KernelAssumption
  <2> QED BY <1>2, <1>3, <2>1 DEF AddedWd, NoWd
<1>5. m_paths[p0] = NULL => kern.wd[node[p0]] = NoWd /\ d = kern.next /\ FindWatch(d) = NULL
  <2> SUFFICES ASSUME m_paths[p0] = NULL
               PROVE  kern.wd[node[p0]] = NoWd /\ d = kern.next /\ FindWatch(d) = NULL
    OBVIOUS
  <2>1. kern.wd[node[p0]] = NoWd
    <3> SUFFICES ASSUME kern.wd[node[p0]] # NoWd PROVE FALSE
      OBVIOUS
    <3> DEFINE c == kern.wd[node[p0]]
               w == m_watches[c]
    <3>1. c \in 1..MaxWd /\ w # NULL
      BY <1>3, WdType DEF NameInv, NoOrphanKernelWatch, FindWatch
    <3>2. w \in Watch /\ obj[w] # NULL /\ obj[w].wd = c /\ m_paths[obj[w].path] = w
      <4>1. WatchTablesAgree /\ m_watches \in [1..MaxWd -> Watch \cup {NULL}]
        BY DEF MonitorInv, TypeOK, LibraryTypeOK
      <4> QED BY <3>1, <4>1 DEF WatchTablesAgree
    <3>3. obj[w].path = m_watchlist[w] /\ w \in 1..Len(m_watchlist)
      BY <3>2 DEF SettledInv, Owned
    <3>4. node[obj[w].path] # NoInode /\ obj[w].path \in Path
      <4>1. obj[w].path \in Path
        BY <3>2 DEF MonitorInv, TypeOK, LibraryTypeOK, WatchObject
      <4> QED BY <1>1, <3>3, <4>1 DEF SettledInv, StartsRight, Watching
    <3>5. kern.wd[node[obj[w].path]] = c /\ node[obj[w].path] \in Inode
      BY <1>3, <3>2, <3>4 DEF NameInv, PathHasWd, NoWd
    <3>6. node[obj[w].path] = node[p0]
      BY <1>3, <3>5 DEF NameInv, WdsApart
    <3>7. obj[w].path = p0
      BY <1>2, <1>3, <3>4, <3>6 DEF SettledInv, DirectoriesApart
    <3> QED BY <3>1, <3>2, <3>7
  <2>2. d = kern.next
    BY <1>4, <2>1
  <2>3. FindWatch(d) = NULL
    BY <1>3, <2>2 DEF FindWatch, NameInv
  <2> QED BY <2>1, <2>2, <2>3
<1> HIDE DEF d
<1>6. ASSUME UNCHANGED <<obj, m_watches, m_paths, m_buf, m_events, kern, fault>>, Placed(p0)
      PROVE  SettledInv'
  <2>1. \A p : Placed(p)' = Placed(p)
    BY <1>1, <1>6 DEF Placed
  <2>2. StartsRight'
    BY <1>1, <1>2, <1>3, <1>6, <2>1 DEF SettledInv, StartsRight, Watching
  <2>3. PlacedInTurn'
    <3>1. \A x \in 1..Len(m_watchlist) : x < i + 1 => x < i \/ x = i
      BY <1>2
    <3> QED BY <1>0, <1>1, <1>6, <2>1, <3>1 DEF SettledInv, PlacedInTurn, Watching
  <2>4. \A w \in Watch : obj'[w] # NULL => w \in 1..Len(m_watchlist) /\ obj'[w].path = m_watchlist[w]
    BY <1>6 DEF SettledInv, Owned
  <2> QED BY <1>1, <1>6, <2>2, <2>3, <2>4, PlacingFrame
<1>7. CASE AddRefused(i)
  <2>1. Placed(p0)
    BY <1>2, <1>3, <1>4, <1>7 DEF AddRefused, d
  <2> QED BY <1>6, <1>7, <2>1 DEF AddRefused, libVars
<1>8. ~AddDisabled(i) /\ ~AddCollision(i)
  <2>1. ~AddDisabled(i)
    BY <1>2 DEF AddDisabled
  <2>2. ~AddCollision(i)
    BY <1>2, <1>5 DEF AddCollision, d
  <2> QED BY <2>1, <2>2
<1>9. CASE AddEnabled(i)
  <2>1. /\ m_paths[p0] = NULL /\ kern' = Added(kern, p0, ListingEvents)
        /\ obj' = [obj EXCEPT ![i].wd = d, ![i].inotify = "this"]
        /\ m_watches' = [m_watches EXCEPT ![d] = i]
        /\ m_paths' = [m_paths EXCEPT ![p0] = i]
        /\ UNCHANGED <<m_buf, m_events, fault>>
    BY <1>2, <1>9 DEF AddEnabled, d
  <2>2. /\ kern.wd[node[p0]] = NoWd /\ d = kern.next /\ d \in 1..MaxWd /\ m_watches[d] = NULL
    <3>1. d \in 1..MaxWd
      BY <1>2, <1>3, <1>4, AddedWdType DEF d
    <3> QED BY <1>5, <2>1, <3>1 DEF FindWatch
  <2>3. /\ kern'.wd = [kern.wd EXCEPT ![node[p0]] = d]
        /\ kern'.mask = [kern.mask EXCEPT ![node[p0]] = ListingEvents]
        /\ kern'.next = kern.next + 1 /\ kern'.queue = kern.queue /\ kern'.open = kern.open
    BY <1>3, <1>4, <2>1, <2>2 DEF Added, KernelType, d
  <2>4. /\ \A c \in 1..MaxWd : m_watches'[c] = IF c = d THEN i ELSE m_watches[c]
        /\ \A p \in Path : m_paths'[p] = IF p = p0 THEN i ELSE m_paths[p]
        /\ \A w \in Watch \ {i} : obj'[w] = obj[w]
        /\ obj'[i].path = p0 /\ obj'[i] # NULL
    <3>1. obj'[i] # NULL
      <4>1. obj'[i] = [obj[i] EXCEPT !.wd = d, !.inotify = "this"]
        BY <1>2, <2>1 DEF MonitorInv, TypeOK, LibraryTypeOK
      <4>2. obj'[i] \in WatchObject
        BY <1>2, <2>2, <4>1 DEF WatchObject, Wd
      <4> QED BY <4>2, LibraryAssumption
    <3> QED BY <1>2, <2>1, <2>2, <3>1 DEF MonitorInv, TypeOK, LibraryTypeOK, WatchObject
  <2>5. i # NULL
    BY <1>2, LibraryAssumption
  <2>6. Placed(p0)'
    BY <1>1, <1>3, <2>2, <2>3, <2>4, <2>5 DEF Placed
  <2>7. ASSUME NEW p \in Path, p # p0, node[p] # NoInode, Placed(p)
        PROVE  Placed(p)'
    <3>1. node[p] # node[p0] /\ node[p] \in Inode
      BY <1>2, <1>3, <2>7 DEF SettledInv, DirectoriesApart
    <3>2. kern'.wd[node[p]] = kern.wd[node[p]] /\ kern'.mask[node[p]] = kern.mask[node[p]]
      BY <1>3, <2>3, <3>1
    <3>3. m_watches[kern.wd[node[p]]] # NULL /\ kern.wd[node[p]] \in 1..MaxWd
      BY <2>7 DEF Placed
    <3>4. kern.wd[node[p]] # d
      BY <2>2, <3>3
    <3>5. m_watches[kern.wd[node[p]]] \in Watch
      BY <3>3 DEF MonitorInv, TypeOK, LibraryTypeOK
    <3>6. obj'[m_watches[kern.wd[node[p]]]].path = p
      BY <2>4, <2>7, <3>5, <1>2 DEF Placed
    <3> QED BY <1>1, <2>4, <2>7, <3>2, <3>3, <3>4, <3>6 DEF Placed
  <2>8. \A w \in Watch : obj'[w] # NULL => w \in 1..Len(m_watchlist) /\ obj'[w].path = m_watchlist[w]
    BY <1>0, <1>2, <2>4 DEF SettledInv, Owned
  <2>9. StartsRight'
    <3>1. ASSUME NEW p \in Path, m_paths'[p] # NULL
          PROVE  Placed(p)'
      <4>1. CASE p = p0
        BY <2>6, <4>1
      <4>2. CASE p # p0
        <5>1. m_paths[p] # NULL
          BY <2>4, <3>1, <4>2
        <5>2. obj[m_paths[p]] # NULL /\ obj[m_paths[p]].path = p /\ m_paths[p] \in Watch
          BY <5>1 DEF MonitorInv, WatchTablesAgree, TypeOK, LibraryTypeOK
        <5>3. node[p] # NoInode
          BY <1>1, <5>2 DEF SettledInv, Owned, StartsRight, Watching
        <5> QED BY <1>3, <2>7, <4>2, <5>1, <5>3
      <4> QED BY <4>1, <4>2
    <3>2. kern'.next <= i' /\ kern'.queue = <<>>
      BY <1>1, <1>2, <1>3, <2>3 DEF SettledInv, StartsRight, Watching
    <3>3. \A x \in 1..Len(m_watchlist') : node'[m_watchlist'[x]] # NoInode
      BY <1>1 DEF SettledInv, StartsRight, Watching
    <3> QED BY <1>1, <1>3, <2>3, <3>1, <3>2, <3>3 DEF StartsRight
  <2>10. PlacedInTurn'
    <3>1. ASSUME NEW x \in 1..Len(m_watchlist), x < i + 1,
                 NEW p, p = m_watchlist[x], node[p] # NoInode
          PROVE  Placed(p)'
      <4>1. CASE p = p0
        BY <2>6, <4>1
      <4>2. CASE p # p0
        <5>1. x < i
          BY <1>0, <1>2, <3>1, <4>2
        <5>2. p \in Path
          BY <3>1, ElementOfSeq DEF MonitorInv, TypeOK
        <5> QED BY <2>7, <3>1, <4>2, <5>1, <5>2 DEF SettledInv, PlacedInTurn
      <4> QED BY <4>1, <4>2
    <3> QED BY <1>1, <3>1 DEF PlacedInTurn, Watching
  <2> QED BY <1>1, <2>1, <2>3, <2>8, <2>9, <2>10, PlacingFrame
<1> QED BY <1>1, <1>7, <1>8, <1>9 DEF Add

LEMMA SettledPlaced ==
  ASSUME MonitorInv, MonitorInv', SettledInv, WatchesPlaced
  PROVE  SettledInv'
<1>1. /\ pc.monitor = "new" /\ pc'.monitor = "check" /\ pc'.main = pc.main /\ i > Len(m_watchlist)
      /\ UNCHANGED <<node, files, kern, obj, m_watches, m_paths, m_buf, m_events, m_path, m_watchlist,
                     k, i, event, fault>>
  <2>1. pc.monitor = "new" /\ pc'.monitor = "check" /\ pc'.main = pc.main
    BY MonitorGoes DEF WatchesPlaced, MonitorInv, TypeOK, PcType, MonitorPlaces
  <2> QED BY <2>1 DEF WatchesPlaced, kernelVars, libVars, monVars, runVars
<1>2. \A p : Placed(p)' = Placed(p) /\ Known(p)' = Known(p)
  BY <1>1 DEF Placed, Known
<1>3. \A p : Arriving(p)' = Arriving(p)
  BY <1>1 DEF Arriving, InHand, ForPath
<1>4. DirectoriesApart(node') /\ OnlyAdditions' /\ Owned'
  BY <1>1 DEF SettledInv, DirectoriesApart, OnlyAdditions, Owned
<1>5. StartsRight' /\ PlacedInTurn'
  BY <1>1, <1>2 DEF SettledInv, StartsRight, PlacedInTurn, Watching
<1>6. ListedAndWatched' /\ UpToDate'
  BY <1>1, <1>2, <1>3 DEF SettledInv, ListedAndWatched, UpToDate
<1> QED BY <1>4, <1>5, <1>6 DEF SettledInv

-----------------------------------------------------------------------------
(* Events on their way                                                     *)

(* An event moves on; nothing arrives and nothing is lost. *)
LEMMA MovingFrame ==
  ASSUME MonitorInv, SettledInv, Watching, Watching', pc'.main = pc.main,
         UNCHANGED <<node, files, m_path, m_watchlist, k, i>>,
         fault' = "none" => fault = "none",
         OnlyAdditions', Owned',
         \A p \in Path : node[p] # NoInode /\ Placed(p) => Placed(p)',
         \A p \in Path : Known(p) => Arriving(p)' = Arriving(p)
  PROVE  SettledInv'
<1>1. DirectoriesApart(node')
  BY DEF SettledInv, DirectoriesApart
<1>2. \A p : Known(p)' = Known(p)
  BY DEF Known
<1>3. StartsRight'
  BY DEF StartsRight, Watching
<1>4. ListedAndWatched'
  BY <1>2 DEF SettledInv, ListedAndWatched
<1>5. PlacedInTurn'
  <2>1. Watching' => i' > Len(m_watchlist')
    BY DEF SettledInv, PlacedInTurn
  <2>2. ASSUME NEW x \in 1..Len(m_watchlist), NEW p, p = m_watchlist[x], x < i, node[p] # NoInode,
               p \in Path
        PROVE  Placed(p)'
    BY <2>2 DEF SettledInv, PlacedInTurn
  <2>3. \A x \in 1..Len(m_watchlist) : m_watchlist[x] \in Path
    BY ElementOfSeq DEF MonitorInv, TypeOK
  <2> QED BY <2>1, <2>2, <2>3 DEF PlacedInTurn
<1>6. UpToDate'
  BY <1>2 DEF SettledInv, UpToDate
<1> QED BY <1>1, <1>3, <1>4, <1>5, <1>6 DEF SettledInv

LEMMA SettledRead ==
  ASSUME MonitorInv, SettledInv, WaitForEvents
  PROVE  SettledInv'
<1> DEFINE n == IF Len(kern.queue) < BufLen THEN Len(kern.queue) ELSE BufLen
<1>1. /\ pc.monitor = "wait" /\ pc'.monitor = "parse" /\ pc'.main = pc.main
      /\ UNCHANGED <<node, files, obj, m_watches, m_paths, m_events, m_path, m_watchlist, k, i, event,
                     fault>>
      /\ m_buf' = SubSeq(kern.queue, 1, n)
      /\ kern' = [kern EXCEPT !.queue = SubSeq(@, n + 1, Len(@))]
  <2>1. pc.monitor = "wait" /\ pc'.monitor = "parse" /\ pc'.main = pc.main
    BY MonitorGoes DEF WaitForEvents, MonitorInv, TypeOK, PcType, MonitorPlaces
  <2> QED BY <2>1 DEF WaitForEvents, ReadEvents, monVars, runVars
<1>2. /\ kern \in KernelType /\ kern.queue \in Seq(KernelEvent) /\ Len(kern.queue) \in Nat
      /\ n \in 0..Len(kern.queue)
  BY LibraryAssumption DEF MonitorInv, TypeOK, KernelTypeOK, KernelType
<1>3. /\ kern'.wd = kern.wd /\ kern'.mask = kern.mask
      /\ kern'.queue = SubSeq(kern.queue, n + 1, Len(kern.queue))
  BY <1>1, <1>2 DEF KernelType
<1> HIDE DEF n
<1>4. Watching /\ Watching' /\ m_buf = <<>>
  BY <1>1 DEF Watching, MonitorInv, LoopInStep
<1>5. OnlyAdditions'
  BY <1>1, <1>2, <1>3, AllAddedParts DEF SettledInv, OnlyAdditions
<1>6. Owned'
  BY <1>1 DEF SettledInv, Owned
<1>7. \A p : Placed(p)' = Placed(p)
  BY <1>1, <1>3 DEF Placed
<1>8. \A p : Arriving(p)' = Arriving(p)
  <2>1. \A S : Names(kern.queue, S) = Names(m_buf', S) \cup Names(kern'.queue, S)
    BY <1>1, <1>2, <1>3, NamesSplit
  <2>2. \A S : Names(m_buf, S) = {}
    BY <1>4, NamesNone
  <2>3. \A p : InHand(p)' = InHand(p) /\ ForPath(p)' = ForPath(p)
    BY <1>1 DEF InHand, ForPath
  <2> QED BY <1>1, <1>3, <2>1, <2>2, <2>3 DEF Arriving
<1> QED BY <1>1, <1>4, <1>5, <1>6, <1>7, <1>8, MovingFrame

LEMMA SettledParse ==
  ASSUME MonitorInv, NameInv, SettledInv, ParseOne, Working'
  PROVE  SettledInv'
<1> DEFINE e == Head(m_buf)
           w == FindWatch(e.wd)
           f == [watch |-> w, type |-> e.type, name |-> e.name]
<1>1. /\ pc.monitor = "parse" /\ pc'.monitor = "parse" /\ pc'.main = pc.main /\ ~ParseThrows
      /\ UNCHANGED <<node, files, kern, m_paths, m_path, m_watchlist, k, i, event, fault>>
      /\ m_buf # <<>> /\ m_buf' = Tail(m_buf)
      /\ m_events' = IF w = NULL THEN m_events ELSE Append(m_events, f)
  <2>1. pc.monitor = "parse" /\ pc'.monitor = "parse" /\ pc'.main = pc.main /\ ~ParseThrows
    BY MonitorGoes DEF ParseOne, MonitorInv, TypeOK, PcType, MonitorPlaces, Working
  <2> QED BY <2>1 DEF ParseOne, ParseEvent, monVars, runVars
<1>2. /\ m_buf \in Seq(KernelEvent) /\ e \in KernelEvent /\ e.type \in Additions
      /\ AllAdded(Tail(m_buf)) /\ m_events \in Seq(Event)
  BY <1>1, HeadTailProperties, AllAddedParts DEF MonitorInv, TypeOK, LibraryTypeOK, SettledInv,
     OnlyAdditions
<1>3. w # NULL => /\ e.wd \in 1..MaxWd /\ w = m_watches[e.wd] /\ w \in Watch
                  /\ obj[w] # NULL /\ obj[w].wd = e.wd /\ obj[w].inotify = "this"
                  /\ obj[w] \in WatchObject
  <2>1. WatchTablesAgree /\ m_watches \in [1..MaxWd -> Watch \cup {NULL}]
        /\ obj \in [Watch -> WatchObject \cup {NULL}]
    BY DEF MonitorInv, TypeOK, LibraryTypeOK
  <2> QED BY <2>1 DEF FindWatch, WatchTablesAgree
<1>4. w # NULL => f \in Event
  BY <1>2, <1>3 DEF Event, KernelEvent, Additions, Arrivals, ListingEvents, Overflow
<1>5. /\ \A v \in Watch : obj'[v].path = obj[v].path /\ (obj'[v] # NULL <=> obj[v] # NULL)
      /\ \A c \in 1..MaxWd : m_watches'[c] = m_watches[c] \/ (c = e.wd /\ Gone(kern, c))
  <2>1. CASE ~(w # NULL /\ LastEvent(w, e))
    BY <1>1, <2>1 DEF ParseOne, ParseEvent
  <2>2. CASE w # NULL /\ LastEvent(w, e)
    <3>1. Disable(w)
      BY <1>1, <2>2 DEF ParseOne, ParseEvent
    <3>2. obj'[w] = [obj[w] EXCEPT !.enabled = FALSE, !.wd = NoWd]
          /\ \A v \in Watch \ {w} : obj'[v] = obj[v]
      BY <1>3, <2>2, <3>1 DEF Disable, MonitorInv, TypeOK, LibraryTypeOK
    <3>3. obj'[w].path = obj[w].path /\ obj'[w] # NULL
      <4>1. obj'[w] \in WatchObject
        BY <1>3, <2>2, <3>2, WdType DEF WatchObject
      <4> QED BY <1>3, <2>2, <3>2, <4>1, LibraryAssumption DEF WatchObject
    <3>4. obj[w].mask = ListingEvents
      BY <1>3, <2>2 DEF NameInv
    <3>5. e.type = "IN_IGNORED"
      BY <2>2, <3>4 DEF LastEvent, ListingEvents
    <3>6. Gone(kern, e.wd)
      <4>1. e = m_buf[1] /\ 1 \in 1..Len(m_buf)
        BY <1>1, <1>2, EmptySeq
      <4> QED BY <3>5, <4>1 DEF NameInv, Ends
    <3>7. \A c \in 1..MaxWd : m_watches'[c] = m_watches[c] \/ c = e.wd
      BY <1>3, <2>2, <3>1 DEF Disable, MonitorInv, TypeOK, LibraryTypeOK
    <3> QED BY <1>3, <2>2, <3>2, <3>3, <3>6, <3>7
  <2> QED BY <2>1, <2>2
<1>6. Watching /\ Watching'
  BY <1>1 DEF Watching
<1> HIDE DEF e, w, f
<1>7. OnlyAdditions'
  <2>1. AllAdded(m_events')
    <3>1. f.type = e.type
      BY DEF f
    <3>2. AllAdded(m_events)
      BY DEF SettledInv, OnlyAdditions
    <3> QED BY <1>1, <1>2, <1>4, <3>1, <3>2, AllAddedParts
  <2> QED BY <1>1, <1>2, <2>1 DEF SettledInv, OnlyAdditions
<1>8. Owned'
  <2>1. \A x \in 1..Len(m_events) : m_events[x].watch \in Watch
    BY <1>2, ElementOfSeq DEF Event
  <2>2. \A x \in 1..Len(m_events) : obj'[m_events[x].watch] # NULL
    BY <1>5, <2>1 DEF SettledInv, Owned
  <2>3. \A x \in 1..Len(m_events') : obj'[m_events'[x].watch] # NULL
    <3>1. CASE w = NULL
      BY <1>1, <2>2, <3>1
    <3>2. CASE w # NULL
      <4>1. /\ Len(m_events') = Len(m_events) + 1 /\ m_events'[Len(m_events) + 1] = f
            /\ \A x \in 1..Len(m_events) : m_events'[x] = m_events[x]
            /\ Len(m_events) \in Nat
        BY <1>1, <1>2, <1>4, <3>2, AppendProperties, LenProperties
      <4>2. \A x \in 1..Len(m_events) + 1 : x \in 1..Len(m_events) \/ x = Len(m_events) + 1
        BY <4>1
      <4>3. f.watch = w /\ obj'[w] # NULL
        BY <1>3, <1>5, <3>2 DEF f
      <4> QED BY <2>2, <4>1, <4>2, <4>3
    <3> QED BY <3>1, <3>2
  <2>4. event' # NULL => obj'[event'.watch] # NULL
    <3>1. event = NULL
      BY <1>1 DEF MonitorInv, LoopInStep
    <3> QED BY <1>1, <3>1
  <2> QED BY <1>1, <1>5, <2>3, <2>4 DEF SettledInv, Owned
<1>9. ASSUME NEW p \in Path, node[p] # NoInode, Placed(p)
      PROVE  Placed(p)'
  <2> DEFINE c == kern.wd[node[p]]
  <2>1. c \in 1..MaxWd /\ m_watches[c] # NULL /\ obj[m_watches[c]].path = p
    BY <1>9 DEF Placed
  <2>2. node[p] \in Inode /\ m_watches[c] \in Watch
    BY <1>9, <2>1 DEF MonitorInv, TypeOK, LibraryTypeOK, KernelTypeOK
  <2>3. ~Gone(kern, c)
    BY <2>1, <2>2 DEF Gone, NoWd
  <2>4. m_watches'[c] = m_watches[c]
    BY <1>5, <2>1, <2>3
  <2> QED BY <1>1, <1>5, <1>9, <2>2, <2>4 DEF Placed
<1>10. ASSUME NEW p \in Path, Known(p)
       PROVE  Arriving(p)' = Arriving(p)
  <2> DEFINE c == kern.wd[node[p]]
  <2>1. Placed(p) /\ node[p] # NoInode
    BY <1>6, <1>10, KnownIsPlaced DEF Known
  <2>2. c \in 1..MaxWd /\ m_watches[c] # NULL /\ obj[m_watches[c]].path = p
    BY <2>1 DEF Placed
  <2> HIDE DEF c
  <2>3. ForPath(p)' = ForPath(p)
    <3>1. \A g \in Event : g.watch \in Watch
      BY DEF Event
    <3> QED BY <1>5, <3>1 DEF ForPath
  <2>4. e \in Reports(c) <=> (w # NULL /\ f \in ForPath(p))
    <3>1. ASSUME e \in Reports(c)
          PROVE  w # NULL /\ f \in ForPath(p)
      <4>1. e.wd = c /\ e.type \in Arrivals
        BY <3>1 DEF Reports
      <4>2. w = m_watches[c] /\ w # NULL
        BY <2>2, <4>1 DEF FindWatch, w
      <4>3. f.watch = w /\ f.type = e.type
        BY DEF f
      <4> QED BY <1>4, <2>2, <4>1, <4>2, <4>3 DEF ForPath
    <3>2. ASSUME w # NULL, f \in ForPath(p)
          PROVE  e \in Reports(c)
      <4>1. f.watch = w /\ f.type = e.type /\ obj[w].path = p /\ e.type \in Arrivals
        BY <3>2 DEF ForPath, f
      <4>2. kern.wd[node[p]] = e.wd
        BY <1>3, <2>1, <3>2, <4>1 DEF NameInv, PathHasWd, NoWd
      <4> QED BY <1>2, <4>1, <4>2 DEF Reports, c
    <3> QED BY <3>1, <3>2
  <2>5. Names(m_buf, Reports(c))
          = (IF e \in Reports(c) THEN {e.name} ELSE {}) \cup Names(m_buf', Reports(c))
    BY <1>1, <1>2, NamesHeadTail DEF e
  <2>6. Names(m_events', ForPath(p))
          = Names(m_events, ForPath(p)) \cup
              (IF w # NULL /\ f \in ForPath(p) THEN {e.name} ELSE {})
    <3>1. CASE w = NULL
      BY <1>1, <3>1
    <3>2. CASE w # NULL
      <4>1. f.name = e.name
        BY DEF f
      <4>2. Names(Append(m_events, f), ForPath(p))
              = Names(m_events, ForPath(p)) \cup (IF f \in ForPath(p) THEN {f.name} ELSE {})
        BY <1>2, <1>4, <3>2, NamesAppend
      <4> QED BY <1>1, <3>2, <4>1, <4>2
    <3> QED BY <3>1, <3>2
  <2>7. InHand(p)' = {} /\ InHand(p) = {}
    BY <1>1 DEF InHand
  <2>8. Arriving(p) = Names(kern.queue, Reports(c)) \cup Names(m_buf, Reports(c))
                        \cup Names(m_events, ForPath(p))
    BY <2>7 DEF Arriving, c
  <2>9. Arriving(p)' = Names(kern.queue, Reports(c)) \cup Names(m_buf', Reports(c))
                         \cup Names(m_events', ForPath(p))
    BY <1>1, <2>3, <2>7 DEF Arriving, c
  <2> QED BY <2>4, <2>5, <2>6, <2>8, <2>9
<1> QED BY <1>1, <1>6, <1>7, <1>8, <1>9, <1>10, MovingFrame

LEMMA SettledTake ==
  ASSUME MonitorInv, SettledInv, TakeEvent
  PROVE  SettledInv'
<1>1. /\ pc.monitor = "drain" /\ pc'.main = pc.main
      /\ UNCHANGED <<node, files, kern, obj, m_watches, m_paths, m_buf, m_path, m_watchlist, k, i,
                     fault>>
      /\ m_events \in Seq(Event) /\ event = NULL
      /\ \/ m_events' = m_events /\ event' = event /\ pc'.monitor = "drain"
         \/ /\ m_events # <<>> /\ m_events' = Tail(m_events) /\ event' = Head(m_events)
            /\ pc'.monitor = "lock"
  <2>1. pc.monitor = "drain"
    BY DEF TakeEvent, Go
  <2>2. m_events \in Seq(Event) /\ event = NULL
    BY <2>1 DEF MonitorInv, TypeOK, LibraryTypeOK, LoopInStep
  <2>3. CASE m_events # <<>>
    <3>1. pc'.monitor = "lock" /\ pc'.main = pc.main
      BY <2>3, MonitorGoes DEF TakeEvent, MonitorInv, TypeOK, PcType, MonitorPlaces
    <3> QED BY <2>1, <2>2, <2>3, <3>1 DEF TakeEvent, GetEvent
  <2>4. CASE m_events = <<>>
    <3>1. pc'.monitor = "drain" /\ pc'.main = pc.main
      BY <2>4, MonitorGoes DEF TakeEvent, MonitorInv, TypeOK, PcType, MonitorPlaces
    <3> QED BY <2>1, <2>2, <2>4, <3>1 DEF TakeEvent, libVars
  <2> QED BY <2>3, <2>4
<1>2. Watching /\ Watching'
  BY <1>1 DEF Watching
<1>3. \A p : Placed(p)' = Placed(p) /\ ForPath(p)' = ForPath(p)
  BY <1>1 DEF Placed, ForPath
<1>4. CASE m_events' = m_events /\ event' = event /\ pc'.monitor = "drain"
  <2>1. OnlyAdditions' /\ Owned'
    BY <1>1, <1>4 DEF SettledInv, OnlyAdditions, Owned
  <2>2. \A p : Arriving(p)' = Arriving(p)
    BY <1>1, <1>3, <1>4 DEF Arriving, InHand
  <2> QED BY <1>1, <1>2, <1>3, <2>1, <2>2, MovingFrame
<1>5. CASE /\ m_events # <<>> /\ m_events' = Tail(m_events) /\ event' = Head(m_events)
           /\ pc'.monitor = "lock"
  <2>1. OnlyAdditions'
    BY <1>1, <1>5, AllAddedParts DEF SettledInv, OnlyAdditions
  <2>2. Owned'
    <3>1. /\ Head(m_events) = m_events[1] /\ 1 \in 1..Len(m_events)
          /\ \A x \in 1..Len(m_events') :
               m_events'[x] = m_events[x + 1] /\ x + 1 \in 1..Len(m_events)
      BY <1>1, <1>5, HeadTailProperties, LenProperties, EmptySeq
    <3> QED BY <1>1, <1>5, <3>1 DEF SettledInv, Owned
  <2>3. ASSUME NEW p
        PROVE  Arriving(p)' = Arriving(p)
    <3>1. Names(m_events, ForPath(p))
            = (IF event' \in ForPath(p) THEN {event'.name} ELSE {}) \cup Names(m_events', ForPath(p))
      BY <1>1, <1>5, NamesHeadTail
    <3>2. InHand(p) = {}
      BY <1>1 DEF InHand
    <3>3. InHand(p)' = IF event' \in ForPath(p) THEN {event'.name} ELSE {}
      BY <1>3, <1>5, NamesOne DEF InHand
    <3>4. Arriving(p) = Names(kern.queue, Reports(kern.wd[node[p]]))
                          \cup Names(m_buf, Reports(kern.wd[node[p]])) \cup Names(m_events, ForPath(p))
      BY <3>2 DEF Arriving
    <3>5. Arriving(p)' = Names(kern.queue, Reports(kern.wd[node[p]]))
                           \cup Names(m_buf, Reports(kern.wd[node[p]]))
                           \cup Names(m_events', ForPath(p)) \cup InHand(p)'
      BY <1>1, <1>3 DEF Arriving
    <3> QED BY <3>1, <3>3, <3>4, <3>5
  <2> QED BY <1>1, <1>2, <1>3, <2>1, <2>2, <2>3, MovingFrame
<1> QED BY <1>1, <1>4, <1>5

(* The event in hand goes into the listing of its directory. *)
LEMMA SettledMutate ==
  ASSUME MonitorInv, SettledInv, fault = "none", Mutate
  PROVE  SettledInv'
<1>0. PICK p0 : p0 = obj[event.watch].path
  OBVIOUS
<1>1. /\ pc.monitor = "mutate" /\ pc'.monitor = "emit" /\ pc'.main = pc.main
      /\ UNCHANGED <<node, files, kern, obj, m_watches, m_paths, m_buf, m_events, m_watchlist, k, i,
                     event>>
      /\ event \in Event
  <2>1. pc.monitor = "mutate" /\ pc'.monitor = "emit" /\ pc'.main = pc.main
    BY MonitorGoes DEF Mutate, MonitorInv, TypeOK, PcType, MonitorPlaces
  <2>2. event \in Event
    BY <2>1 DEF MonitorInv, LoopInStep
  <2> QED BY <2>1, <2>2 DEF Mutate, kernelVars, libVars, runVars
<1>2. /\ obj[event.watch] # NULL /\ p0 \in Path /\ m_path[p0] # Absent /\ m_path[p0] \in Seq(Name)
  <2>1. event # NULL /\ event.watch \in Watch
    BY <1>1, MonitorAssumption DEF Event
  <2>2. obj[event.watch] # NULL
    BY <2>1 DEF SettledInv, Owned
  <2>3. event.watch \in 1..Len(m_watchlist) /\ p0 = m_watchlist[event.watch]
    BY <1>0, <2>1, <2>2 DEF SettledInv, Owned
  <2>4. p0 \in Path
    BY <2>3, ElementOfSeq DEF MonitorInv, TypeOK
  <2>5. m_path[p0] # Absent
    BY <2>3 DEF SettledInv, ListedAndWatched
  <2> QED BY <2>2, <2>4, <2>5 DEF MonitorInv, TypeOK
<1>3. event.type \in Additions
  BY <1>1, MonitorAssumption DEF SettledInv, OnlyAdditions
<1>4. m_path' = IF event.type \in Arrivals
                THEN [m_path EXCEPT ![p0] = Append(m_path[p0], event.name)] ELSE m_path
  BY <1>0, <1>2, <1>3 DEF Mutate, Additions, Arrivals, Departures
<1>5. event.type \in Arrivals => event.name \in Name
  BY <1>1 DEF Event, Arrivals
<1>6. Watching /\ Watching'
  BY <1>1 DEF Watching
<1>7. ASSUME NEW p \in Path
      PROVE  /\ m_path'[p] # Absent <=> m_path[p] # Absent
             /\ m_path[p] # Absent => Range(m_path'[p]) = Range(m_path[p]) \cup InHand(p)
  <2>1. InHand(p) = IF p = p0 /\ event.type \in Arrivals THEN {event.name} ELSE {}
    BY <1>0, <1>1, NamesOne DEF InHand, ForPath
  <2>2. CASE p = p0 /\ event.type \in Arrivals
    <3>1. m_path'[p] = Append(m_path[p0], event.name)
      BY <1>2, <1>4, <2>2 DEF MonitorInv, TypeOK
    <3>2. m_path'[p] \in Seq(Name) /\ Range(m_path'[p]) = Range(m_path[p]) \cup {event.name}
      BY <1>2, <1>5, <2>2, <3>1, RangeAppend, AppendProperties
    <3> QED BY <1>2, <2>1, <2>2, <3>2, MonitorAssumption
  <2>3. CASE ~(p = p0 /\ event.type \in Arrivals)
    <3>1. m_path'[p] = m_path[p]
      BY <1>4, <2>3 DEF MonitorInv, TypeOK
    <3> QED BY <2>1, <2>3, <3>1
  <2> QED BY <2>2, <2>3
<1>8. DirectoriesApart(node') /\ OnlyAdditions' /\ Owned'
  BY <1>1 DEF SettledInv, DirectoriesApart, OnlyAdditions, Owned
<1>9. \A p : Placed(p)' = Placed(p)
  BY <1>1 DEF Placed
<1>10. StartsRight' /\ PlacedInTurn'
  BY <1>1, <1>6, <1>9 DEF SettledInv, StartsRight, PlacedInTurn, Watching
<1>11. \A p \in Path : Known(p)' <=> Known(p)
  BY <1>1, <1>7 DEF Known
<1>12. ListedAndWatched'
  <2>1. \A x \in 1..Len(m_watchlist) : m_watchlist[x] \in Path
    BY ElementOfSeq DEF MonitorInv, TypeOK
  <2>2. \A x \in 1..Len(m_watchlist') : m_path'[m_watchlist'[x]] # Absent
    BY <1>1, <1>7, <2>1 DEF SettledInv, ListedAndWatched
  <2>3. pc'.main # "watch"
    BY <1>1 DEF MonitorInv, StartUpInStep
  <2>4. \A p \in Path : Known(p)' => \E x \in 1..Len(m_watchlist') : m_watchlist'[x] = p
    BY <1>1, <1>11, <2>3 DEF SettledInv, ListedAndWatched
  <2> QED BY <2>2, <2>3, <2>4 DEF ListedAndWatched
<1>13. UpToDate'
  <2> SUFFICES ASSUME NEW p \in Path, Known(p)'
               PROVE  files'[node'[p]] = Range(m_path'[p]) \cup Arriving(p)'
    BY DEF UpToDate
  <2>1. Known(p) /\ m_path[p] # Absent
    BY <1>11 DEF Known
  <2>2. files[node[p]] = Range(m_path[p]) \cup Arriving(p)
    BY <2>1 DEF SettledInv, UpToDate
  <2>3. Arriving(p) = Arriving(p)' \cup InHand(p)
    BY <1>1 DEF Arriving, InHand, ForPath
  <2> QED BY <1>1, <1>7, <2>1, <2>2, <2>3
<1> QED BY <1>8, <1>10, <1>12, <1>13 DEF SettledInv

-----------------------------------------------------------------------------
(* Every step                                                              *)

LEMMA SettledThreads ==
  ASSUME MonitorInv, SettledInv, fault = "none",
         Start \/ EndScan \/ SetStop \/ Join \/ BeginScan \/ CallStop \/ DispatchChanged
  PROVE  SettledInv'
<1>1. pc \in PcType
  BY DEF MonitorInv, TypeOK, PcType
<1>2. UNCHANGED <<node, files, kern, libVars, m_path, m_watchlist, k, i, event, fault>>
  BY DEF Start, EndScan, SetStop, Join, BeginScan, CallStop, DispatchChanged, kernelVars, monVars,
         runVars
<1>3. CASE Start
  <2>1. pc.main = "start" /\ pc'.main = "idle" /\ pc'.monitor = "init"
    BY <1>3 DEF Start
  <2>2. pc.monitor = "off"
    BY <2>1 DEF MonitorInv, StartUpInStep
  <2>3. Watching' = Watching /\ (pc'.main = "watch") = (pc.main = "watch")
    BY <2>1, <2>2 DEF Watching
  <2> QED BY <1>2, <2>1, <2>2, <2>3, SettledFrame
<1>4. CASE EndScan \/ SetStop \/ Join \/ BeginScan \/ CallStop \/ DispatchChanged
  <2>1. pc'.monitor = pc.monitor
    BY <1>1, <1>4, MainGoes
       DEF EndScan, SetStop, Join, BeginScan, CallStop, DispatchChanged, MainPlaces
  <2>2. pc.main # "watch" /\ pc'.main # "watch"
    BY <1>1, <1>4, MainGoes
       DEF EndScan, SetStop, Join, BeginScan, CallStop, DispatchChanged, MainPlaces
  <2>3. Watching' = Watching /\ (pc'.main = "watch") = (pc.main = "watch")
    BY <2>1, <2>2 DEF Watching
  <2> QED BY <1>2, <2>1, <2>3, SettledFrame
<1> QED BY <1>3, <1>4

LEMMA SettledLoop ==
  ASSUME MonitorInv, SettledInv, fault = "none",
         CheckStop \/ Interrupted \/ CountEvents \/ Drained \/ LockPath \/ Emit
  PROVE  SettledInv'
<1>1. pc \in PcType
  BY DEF MonitorInv, TypeOK, PcType
<1>2. UNCHANGED <<node, files, kern, libVars, m_path, m_watchlist, k, i, fault>>
  BY DEF CheckStop, Interrupted, CountEvents, Drained, LockPath, Emit, kernelVars, monVars, runVars
<1>3. /\ pc'.main = pc.main
      /\ pc.monitor \notin {"off", "init", "new", "add"}
      /\ pc'.monitor \notin {"off", "init", "new", "add"}
  BY <1>1, MonitorGoes
     DEF CheckStop, Interrupted, CountEvents, Drained, LockPath, Emit, MonitorPlaces
<1>4. Watching' = Watching /\ (pc'.main = "watch") = (pc.main = "watch")
  BY <1>3 DEF Watching
<1>5. CASE CheckStop \/ Interrupted \/ CountEvents \/ Drained
  <2>1. event' = event
    BY <1>5 DEF CheckStop, Interrupted, CountEvents, Drained, monVars, runVars
  <2>2. pc.monitor \notin {"lock", "mutate"} /\ pc'.monitor \notin {"lock", "mutate"}
    BY <1>1, <1>5, MonitorGoes DEF CheckStop, Interrupted, CountEvents, Drained, MonitorPlaces
  <2> QED BY <1>2, <1>3, <1>4, <2>1, <2>2, SettledFrame
<1>6. CASE LockPath
  <2>1. pc.monitor = "lock" /\ pc'.monitor = "mutate" /\ event' = event
    BY <1>1, <1>6, MonitorGoes DEF LockPath, MonitorPlaces, runVars
  <2> QED BY <1>2, <1>3, <1>4, <2>1, SettledFrame
<1>7. CASE Emit
  <2>1. pc.monitor = "emit" /\ pc'.monitor = "drain" /\ event' = NULL
    BY <1>1, <1>7, MonitorGoes DEF Emit, MonitorPlaces
  <2> QED BY <1>2, <1>3, <1>4, <2>1, SettledFrame
<1> QED BY <1>5, <1>6, <1>7

(* A thread on its way out stays there. *)
LEMMA LeavesForGood ==
  ASSUME MonitorInv, [Next]_vars, ~Working
  PROVE  ~Working'
<1>1. pc \in PcType /\ pc.monitor \in {"exit", "exited"}
  BY DEF MonitorInv, TypeOK, PcType, Working
<1>2. CASE Startup
  <2>1. ~Start
    BY <1>1 DEF Start, MonitorInv, StartUpInStep
  <2>2. pc'.monitor = pc.monitor
    BY <1>1, <1>2, <2>1, MainGoes DEF Startup, ListDirectory, MonitorDirectory, MainPlaces
  <2> QED BY <1>1, <2>2 DEF Working
<1>3. CASE Owner \/ User \/ DispatchChanged
  <2>1. pc'.monitor = pc.monitor
    BY <1>1, <1>3, MainGoes
       DEF Owner, User, EndScan, SetStop, Join, BeginScan, CallStop, DispatchChanged, MainPlaces
  <2> QED BY <1>1, <2>1 DEF Working
<1>4. CASE Run \/ Mishap
  <2>1. \A from, to : Go("monitor", from, to) => from = pc.monitor
    BY DEF Go
  <2>2. ~(OpenInotify \/ NewWatch \/ AddWatch \/ WatchesPlaced \/ CheckStop \/ WaitForEvents)
    BY <1>1, <2>1 DEF OpenInotify, NewWatch, AddWatch, WatchesPlaced, CheckStop, WaitForEvents
  <2>3. ~(ParseOne \/ CountEvents \/ TakeEvent \/ Drained \/ LockPath \/ Mutate \/ Emit)
    BY <1>1, <2>1 DEF ParseOne, CountEvents, TakeEvent, Drained, LockPath, Mutate, Emit
  <2>4. ~Mishap
    BY <1>1, <2>1 DEF Mishap, Interrupted, ReadFails
  <2>5. Leave
    BY <1>4, <2>2, <2>3, <2>4 DEF Run
  <2>6. pc'.monitor = "exited"
    BY <1>1, <2>5, MonitorGoes DEF Leave, MonitorPlaces
  <2> QED BY <2>6 DEF Working
<1>5. CASE Environment \/ UNCHANGED vars
  BY <1>1, <1>5 DEF Environment, vars, Working
<1> QED BY <1>2, <1>3, <1>4, <1>5 DEF Next

LEMMA SettledStep ==
  ASSUME MonitorInv, MonitorInv', NameInv, NameInv', SettledWorld, HasRoom,
         Working => SettledInv, [Next]_vars
  PROVE  Working' => SettledInv'
<1>1. SUFFICES ASSUME Working'
               PROVE  SettledInv'
  OBVIOUS
<1>2. SettledInv
  BY <1>1, LeavesForGood
<1>3. CASE Startup
  BY <1>2, <1>3, SettledListDirectory, SettledMonitorDirectory, SettledThreads DEF Startup
<1>4. CASE Owner \/ User \/ DispatchChanged
  BY <1>2, <1>4, SettledThreads DEF Owner, User, DispatchChanged
<1>5. CASE Run
  <2>1. ~Leave
    BY <1>1, MonitorGoes DEF Leave, Working, MonitorInv, TypeOK, PcType, MonitorPlaces
  <2>2. CASE OpenInotify \/ NewWatch \/ AddWatch \/ WatchesPlaced
    BY <1>2, <1>5, <2>2, SettledOpen, SettledNewWatch, SettledAddWatch, SettledPlaced DEF Run
  <2>3. CASE WaitForEvents \/ ParseOne \/ TakeEvent \/ Mutate
    BY <1>1, <1>2, <1>5, <2>3, SettledRead, SettledParse, SettledTake, SettledMutate DEF Run
  <2>4. CASE CheckStop \/ CountEvents \/ Drained \/ LockPath \/ Emit
    BY <1>2, <1>5, <2>4, SettledLoop DEF Run
  <2> QED BY <1>5, <2>1, <2>2, <2>3, <2>4 DEF Run
<1>6. CASE Mishap
  <2>1. ~ReadFails
    BY <1>1, MonitorGoes DEF ReadFails, Working, MonitorInv, TypeOK, PcType, MonitorPlaces
  <2> QED BY <1>2, <1>6, <2>1, SettledLoop DEF Mishap
<1>7. CASE Environment
  BY <1>2, <1>7, SettledEnvironment
<1>8. CASE UNCHANGED vars
  BY <1>2, <1>8, SettledFrame DEF vars, kernelVars, monVars, runVars, Watching
<1> QED BY <1>3, <1>4, <1>5, <1>6, <1>7, <1>8 DEF Next

(* While files only arrive and directories only go, none before the        *)
(* watches are placed, no directory has two paths, inotify has a watch for *)
(* each and the queue does not fill, a listing is its directory whenever   *)
(* the thread has nothing left to do: no arrival is lost between the       *)
(* listing (monitor.cpp:40-53), the watch (monitor.cpp:76-84), the two     *)
(* queues (monitor.cpp:87-91) and m_path (monitor.cpp:96-101).             *)
THEOREM ListingsSettle ==
  ASSUME SettledWorld
  PROVE  Spec /\ []HasRoom => []ListingMatchesDirectory
<1>1. "retarget" \notin FsOps
  BY DEF SettledWorld
<1>2. Init => MonitorInv /\ NameInv /\ (Working => SettledInv)
  BY InitHolds, NameInit, SettledInit
<1>3. /\ MonitorInv /\ NameInv /\ (Working => SettledInv) /\ HasRoom /\ [Next]_vars
      => (MonitorInv /\ NameInv /\ (Working => SettledInv))'
  BY <1>1, StepKeeps, NameStep, SettledStep
<1>4. MonitorInv /\ (Working => SettledInv) => ListingMatchesDirectory
  <2>1. SUFFICES ASSUME MonitorInv, Working => SettledInv, Quiet, NEW p \in Path,
                        m_path[p] # Absent, node[p] # NoInode
                 PROVE  Range(m_path[p]) = files[node[p]]
    BY DEF ListingMatchesDirectory
  <2>2. SettledInv /\ kern.queue = <<>> /\ m_buf = <<>> /\ m_events = <<>> /\ InHand(p) = {}
    BY <2>1 DEF Quiet, Working, MonitorInv, LoopInStep, InHand
  <2>3. Arriving(p) = {}
    BY <2>2, NamesNone DEF Arriving
  <2> QED BY <2>1, <2>2, <2>3 DEF SettledInv, UpToDate, Known
<1> QED BY <1>2, <1>3, <1>4, PTL DEF Spec

=============================================================================
