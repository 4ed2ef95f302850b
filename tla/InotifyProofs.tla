--------------------------- MODULE InotifyProofs ---------------------------
(***************************************************************************)
(* What every system call and library call keeps, for every value of the   *)
(* constants: the types of the kernel's and the library's state, and the   *)
(* agreement of the library's tables.                                      *)
(***************************************************************************)
EXTENDS Inotify, TLAPS, SequenceTheorems, FiniteSetTheorems

-----------------------------------------------------------------------------
(* The kernel *)

LEMMA WdType == NoWd \in Wd /\ (\A d \in Wd : d # NoWd => d \in 1..MaxWd)
BY DEF Wd, NoWd

(* The queue takes events only. *)
LEMMA QueuedType ==
  ASSUME NEW K \in KernelType, NEW e \in KernelEvent
  PROVE  Queued(K, e) \in KernelType
<1>1. Overflow \in KernelEvent
  BY WdType DEF Overflow, KernelEvent
<1>2. \A x \in KernelEvent : [K EXCEPT !.queue = Append(@, x)] \in KernelType
  <2>1. K.queue \in Seq(KernelEvent)
    BY DEF KernelType
  <2>2. \A x \in KernelEvent : Append(K.queue, x) \in Seq(KernelEvent)
    BY <2>1, AppendProperties
  <2>3. QED
    BY <2>2 DEF KernelType
<1>3. QED
  BY <1>1, <1>2 DEF Queued

LEMMA ForgottenType ==
  ASSUME NEW K \in KernelType, NEW d \in Inode
  PROVE  Forgotten(K, d) \in KernelType
<1>1. [K EXCEPT !.wd[d] = NoWd, !.mask[d] = {}] \in KernelType
  BY WdType DEF KernelType
<1>2. [wd |-> K.wd[d], type |-> "IN_IGNORED", name |-> NoName] \in KernelEvent
  BY DEF KernelType, KernelEvent
<1>3. QED
  BY <1>1, <1>2, QueuedType DEF Forgotten

LEMMA EmittedType ==
  ASSUME NEW K \in KernelType, NEW d \in Inode,
         NEW t \in ListingEvents, NEW n \in Name
  PROVE  Emitted(K, d, t, n) \in KernelType
<1>1. [wd |-> K.wd[d], type |-> t, name |-> n] \in KernelEvent
  BY DEF KernelType, KernelEvent
<1>2. Queued(K, [wd |-> K.wd[d], type |-> t, name |-> n]) \in KernelType
  BY <1>1, QueuedType
<1>3. QED
  BY <1>2, ForgottenType DEF Emitted

LEMMA AddedWdType ==
  ASSUME KernelTypeOK, NEW K \in KernelType, NEW p \in Path
  PROVE  /\ AddedWd(K, p) \in Wd
         /\ AddedWd(K, p) # NoWd => AddedWd(K, p) \in 1..MaxWd /\ node[p] \in Inode
<1>1. CASE ~K.open \/ node[p] = NoInode
  BY <1>1, WdType DEF AddedWd
<1>2. CASE K.open /\ node[p] # NoInode
  <2>1. node[p] \in Inode
    BY <1>2 DEF KernelTypeOK
  <2>2. K.wd[node[p]] \in Wd /\ K.next \in 1..(MaxWd + 1)
    BY <2>1 DEF KernelType
  <2>3. K.next <= MaxWd => K.next \in 1..MaxWd /\ K.next \in Wd
    BY <2>2, KernelAssumption DEF Wd
  <2>4. QED
    BY <1>2, <2>1, <2>2, <2>3, WdType DEF AddedWd
<1>3. QED
  BY <1>1, <1>2

LEMMA AddedType ==
  ASSUME KernelTypeOK, NEW K \in KernelType, NEW p \in Path, NEW m \in SUBSET MaskBits
  PROVE  Added(K, p, m) \in KernelType
<1> DEFINE d == AddedWd(K, p)
<1>1. CASE d = NoWd
  BY <1>1 DEF Added
<1>2. CASE d # NoWd
  <2>1. d \in Wd /\ d \in 1..MaxWd /\ node[p] \in Inode
    BY <1>2, AddedWdType
  <2>2. K.next \in 1..(MaxWd + 1)
    BY DEF KernelType
  <2>3. (IF d = K.next THEN K.next + 1 ELSE K.next) \in 1..(MaxWd + 1)
    BY <2>1, <2>2, KernelAssumption
  <2>4. QED
    BY <1>2, <2>1, <2>3 DEF Added, KernelType
<1>3. QED
  BY <1>1, <1>2

LEMMA ClosedType ==
  ASSUME NEW K \in KernelType
  PROVE  Closed(K) \in KernelType
<1>1. <<>> \in Seq(KernelEvent)
  BY EmptySeq
<1>2. QED
  BY <1>1, WdType DEF Closed, KernelType

(* Whatever other programs do, the kernel's state keeps its type. *)
LEMMA FileSystemType ==
  ASSUME KernelTypeOK, FileSystem
  PROVE  KernelTypeOK'
<1>1. ops' \in 0..MaxOps
  BY KernelAssumption DEF KernelTypeOK, FileSystem
<1>2. ASSUME NEW d \in Inode, NEW n \in Name,
             Create(d, n) \/ Delete(d, n) \/ MoveIn(d, n) \/ MoveOut(d, n)
      PROVE  KernelTypeOK'
  <2>1. \A t \in ListingEvents : Emitted(kern, d, t, n) \in KernelType
    BY EmittedType DEF KernelTypeOK
  <2>2. kern' \in KernelType
    BY <1>2, <2>1 DEF Create, Delete, MoveIn, MoveOut, ListingEvents
  <2>3. files' \in [Inode -> SUBSET Name] /\ node' = node
    BY <1>2 DEF KernelTypeOK, Create, Delete, MoveIn, MoveOut
  <2>4. QED
    BY <1>1, <2>2, <2>3 DEF KernelTypeOK
<1>3. ASSUME NEW d \in Inode, NEW a \in Name, NEW b \in Name, Rename(d, a, b)
      PROVE  KernelTypeOK'
  <2>1. Emitted(kern, d, "IN_MOVED_FROM", a) \in KernelType
    BY EmittedType DEF KernelTypeOK, ListingEvents
  <2>2. kern' \in KernelType
    BY <1>3, <2>1, EmittedType DEF Rename, ListingEvents
  <2>3. files' \in [Inode -> SUBSET Name] /\ node' = node
    BY <1>3 DEF KernelTypeOK, Rename
  <2>4. QED
    BY <1>1, <2>2, <2>3 DEF KernelTypeOK
<1>4. ASSUME NEW d \in Inode, RemoveDir(d)
      PROVE  KernelTypeOK'
  <2>1. kern' \in KernelType
    BY <1>4, ForgottenType DEF RemoveDir, KernelTypeOK
  <2>2. node' \in [Path -> Inode \cup {NoInode}] /\ files' = files
    BY <1>4 DEF RemoveDir, KernelTypeOK
  <2>3. QED
    BY <1>1, <2>1, <2>2 DEF KernelTypeOK
<1>5. ASSUME NEW p \in Path, NEW d \in Inode, Retarget(p, d)
      PROVE  KernelTypeOK'
  BY <1>1, <1>5 DEF Retarget, KernelTypeOK
<1>6. QED
  BY <1>2, <1>3, <1>4, <1>5 DEF FileSystem

-----------------------------------------------------------------------------
(* The library: types *)

CallTypeOK == LibraryTypeOK /\ kern \in KernelType

(* What a table names has been constructed. *)
Constructed ==
  /\ \A p \in Path : m_paths[p] # NULL => obj[m_paths[p]] # NULL
  /\ \A d \in 1..MaxWd : m_watches[d] # NULL => obj[m_watches[d]] # NULL

LEMMA AgreeConstructed == WatchTablesAgree => Constructed
BY DEF WatchTablesAgree, Constructed

LEMMA ConstructType ==
  ASSUME CallTypeOK, NEW w \in Watch, NEW p \in Path, NEW m \in SUBSET MaskBits,
         NEW e \in BOOLEAN, Construct(w, p, m, e)
  PROVE  CallTypeOK'
<1>1. PICK garbage \in {"null", "wild"} :
        obj' = [obj EXCEPT ![w] = [path |-> p, mask |-> m, wd |-> NoWd,
                                   inotify |-> garbage, enabled |-> e]]
  BY DEF Construct
<1>2. [path |-> p, mask |-> m, wd |-> NoWd, inotify |-> garbage, enabled |-> e]
        \in WatchObject
  BY WdType DEF WatchObject
<1>3. obj' \in [Watch -> WatchObject \cup {NULL}]
  BY <1>1, <1>2 DEF CallTypeOK, LibraryTypeOK
<1>4. QED
  BY <1>3 DEF Construct, CallTypeOK, LibraryTypeOK

LEMMA OpenType ==
  ASSUME CallTypeOK, Open
  PROVE  CallTypeOK'
BY DEF Open, CallTypeOK, LibraryTypeOK, libVars, KernelType

(* A watch found by a descriptor is a watch. *)
LEMMA FindWatchType ==
  ASSUME LibraryTypeOK, NEW d
  PROVE  FindWatch(d) \in Watch \cup {NULL}
BY DEF FindWatch, LibraryTypeOK

LEMMA AddType ==
  ASSUME CallTypeOK, KernelTypeOK, Constructed,
         NEW w \in Watch, obj[w] # NULL, Add(w)
  PROVE  CallTypeOK'
<1> DEFINE d == AddedWd(kern, obj[w].path)
<1>1. obj[w] \in WatchObject /\ obj[w].path \in Path /\ obj[w].mask \in SUBSET MaskBits
  BY DEF CallTypeOK, LibraryTypeOK, WatchObject
<1>2. Added(kern, obj[w].path, obj[w].mask) \in KernelType
  BY <1>1, AddedType DEF CallTypeOK
<1>3. CASE AddRefused(w)
  BY <1>3 DEF AddRefused, CallTypeOK, LibraryTypeOK, libVars
<1>4. CASE AddDisabled(w)
  BY <1>1, <1>4 DEF AddDisabled, CallTypeOK, LibraryTypeOK, WatchObject
<1>5. CASE AddCollision(w)
  <2> DEFINE other == FindWatch(d)
  <2>1. other \in Watch /\ obj[other] # NULL
    BY <1>5, FindWatchType DEF AddCollision, CallTypeOK, FindWatch, Constructed
  <2>2. obj[other].path \in Path /\ obj[other].mask \in SUBSET MaskBits
    BY <2>1 DEF CallTypeOK, LibraryTypeOK, WatchObject
  <2>3. kern' \in KernelType
    BY <1>2, <1>5, <2>2, AddedType DEF AddCollision
  <2>4. QED
    BY <1>5, <2>3 DEF AddCollision, CallTypeOK, LibraryTypeOK, libVars
<1>6. CASE AddEnabled(w)
  <2>1. d \in Wd /\ d \in 1..MaxWd
    BY <1>1, <1>6, AddedWdType DEF AddEnabled, CallTypeOK
  <2>2. obj' \in [Watch -> WatchObject \cup {NULL}]
    BY <1>1, <1>6, <2>1 DEF AddEnabled, CallTypeOK, LibraryTypeOK, WatchObject
  <2>3. /\ m_watches' \in [1..MaxWd -> Watch \cup {NULL}]
        /\ m_paths' \in [Path -> Watch \cup {NULL}]
    BY <1>1, <1>6, <2>1 DEF AddEnabled, CallTypeOK, LibraryTypeOK
  <2>4. QED
    BY <1>2, <1>6, <2>2, <2>3 DEF AddEnabled, CallTypeOK, LibraryTypeOK
<1>7. QED
  BY <1>3, <1>4, <1>5, <1>6 DEF Add

(* RemoveAll() and Close() leave no table entry behind. *)
LEMMA ReleasedType ==
  ASSUME LibraryTypeOK, Constructed
  PROVE  Released \in [Watch -> WatchObject \cup {NULL}]
<1>1. ASSUME NEW w \in Watch, w \in Range(m_paths)
      PROVE  obj[w] \in WatchObject
  BY <1>1, LibraryAssumption DEF Range, LibraryTypeOK, Constructed
<1>2. ASSUME NEW w \in Watch, obj[w] \in WatchObject
      PROVE  [obj[w] EXCEPT !.wd = NoWd, !.inotify = "null"] \in WatchObject
  BY <1>2, WdType DEF WatchObject
<1>3. QED
  BY <1>1, <1>2 DEF Released, LibraryTypeOK

LEMMA CloseType ==
  ASSUME CallTypeOK, Constructed, Close
  PROVE  CallTypeOK'
<1>1. Released \in [Watch -> WatchObject \cup {NULL}]
  BY ReleasedType DEF CallTypeOK
<1>2. kern' \in KernelType
  BY ClosedType DEF Close, CallTypeOK
<1>3. QED
  BY <1>1, <1>2 DEF Close, Cleared, CallTypeOK, LibraryTypeOK

(* One read moves events from the kernel's queue to the buffer. *)
LEMMA ReadEventsType ==
  ASSUME CallTypeOK, ReadEvents
  PROVE  CallTypeOK'
<1> DEFINE n == IF Len(kern.queue) < BufLen THEN Len(kern.queue) ELSE BufLen
<1>1. kern.queue \in Seq(KernelEvent)
  BY DEF CallTypeOK, KernelType
<1>2. Len(kern.queue) \in Nat /\ n \in 0..Len(kern.queue)
  BY <1>1, LenProperties, LibraryAssumption
<1>3. SubSeq(kern.queue, 1, n) \in Seq(KernelEvent)
  BY <1>1, <1>2, SubSeqProperties
<1>4. SubSeq(kern.queue, n + 1, Len(kern.queue)) \in Seq(KernelEvent)
  BY <1>1, <1>2, SubSeqProperties
<1>5. kern' \in KernelType
  BY <1>4 DEF ReadEvents, CallTypeOK, KernelType
<1>6. QED
  BY <1>3, <1>5 DEF ReadEvents, CallTypeOK, LibraryTypeOK

(* What WaitForEvents queues for the program is an event of one of its     *)
(* watches.                                                                *)
LEMMA ParseEventType ==
  ASSUME CallTypeOK, Constructed, ParseEvent
  PROVE  CallTypeOK'
<1> DEFINE e == Head(m_buf)
           w == FindWatch(e.wd)
<1>1. e \in KernelEvent /\ Tail(m_buf) \in Seq(KernelEvent)
  BY HeadTailProperties DEF ParseEvent, CallTypeOK, LibraryTypeOK
<1>2. m_buf' \in Seq(KernelEvent)
  BY <1>1, EmptySeq DEF ParseEvent
<1>3. w \in Watch \cup {NULL}
  BY FindWatchType DEF CallTypeOK
<1>4. m_events' \in Seq(Event)
  <2>1. m_events \in Seq(Event)
    BY DEF CallTypeOK, LibraryTypeOK
  <2>2. CASE w = NULL \/ ParseThrows
    BY <2>1, <2>2 DEF ParseEvent
  <2>3. CASE ~(w = NULL \/ ParseThrows)
    <3>1. e # Overflow
      BY <2>3, WdType DEF FindWatch, Overflow, NoWd
    <3>2. [watch |-> w, type |-> e.type, name |-> e.name] \in Event
      BY <1>1, <1>3, <2>3, <3>1 DEF KernelEvent, Event
    <3>3. QED
      BY <2>1, <2>3, <3>2, AppendProperties DEF ParseEvent
  <2>4. QED
    BY <2>2, <2>3
<1>5. obj' \in [Watch -> WatchObject \cup {NULL}] /\ m_watches' \in [1..MaxWd -> Watch \cup {NULL}]
  <2>1. CASE w # NULL /\ ~ParseThrows /\ LastEvent(w, e)
    <3>1. w \in Watch /\ obj[w] # NULL
      BY <1>3, <2>1 DEF FindWatch, Constructed
    <3>2. obj[w] \in WatchObject
      BY <3>1 DEF CallTypeOK, LibraryTypeOK
    <3>3. Disable(w)
      BY <2>1 DEF ParseEvent
    <3>4. obj' \in [Watch -> WatchObject \cup {NULL}]
      BY <3>1, <3>2, <3>3, WdType DEF Disable, CallTypeOK, LibraryTypeOK, WatchObject
    <3>5. m_watches' \in [1..MaxWd -> Watch \cup {NULL}]
      BY <3>3 DEF Disable, CallTypeOK, LibraryTypeOK
    <3>6. QED
      BY <3>4, <3>5
  <2>2. CASE ~(w # NULL /\ ~ParseThrows /\ LastEvent(w, e))
    BY <2>2 DEF ParseEvent, CallTypeOK, LibraryTypeOK
  <2>3. QED
    BY <2>1, <2>2
<1>6. QED
  BY <1>2, <1>4, <1>5 DEF ParseEvent, CallTypeOK, LibraryTypeOK

(* GetEvent() gives an event and keeps the others. *)
LEMMA GetEventType ==
  ASSUME CallTypeOK, GetEvent
  PROVE  CallTypeOK' /\ Head(m_events) \in Event
<1>1. m_events \in Seq(Event) /\ m_events # <<>>
  BY DEF GetEvent, CallTypeOK, LibraryTypeOK
<1>2. Head(m_events) \in Event /\ Tail(m_events) \in Seq(Event)
  BY <1>1, HeadTailProperties
<1>3. QED
  BY <1>2 DEF GetEvent, CallTypeOK, LibraryTypeOK

-----------------------------------------------------------------------------
(* The library: the tables agree *)

(* A new watch is in no table. *)
LEMMA ConstructAgrees ==
  ASSUME CallTypeOK, WatchTablesAgree, NEW w \in Watch, NEW p \in Path,
         NEW m \in SUBSET MaskBits, NEW e \in BOOLEAN, Construct(w, p, m, e)
  PROVE  WatchTablesAgree'
<1>1. obj[w] = NULL /\ m_watches' = m_watches /\ m_paths' = m_paths
  BY DEF Construct
<1>2. PICK garbage \in {"null", "wild"} :
        obj' = [obj EXCEPT ![w] = [path |-> p, mask |-> m, wd |-> NoWd,
                                   inotify |-> garbage, enabled |-> e]]
  BY DEF Construct
<1>3. \A v \in Watch : v # w => obj'[v] = obj[v]
  BY <1>2 DEF CallTypeOK, LibraryTypeOK
<1>4. obj'[w].wd = NoWd
  BY <1>2 DEF CallTypeOK, LibraryTypeOK
<1>5. QED
  BY <1>1, <1>3, <1>4 DEF WatchTablesAgree, CallTypeOK, LibraryTypeOK

(* Add() enters a watch in both tables or in none. *)
LEMMA AddAgrees ==
  ASSUME CallTypeOK, KernelTypeOK, WatchTablesAgree,
         NEW w \in Watch, obj[w] # NULL, obj[w].wd = NoWd, Add(w)
  PROVE  WatchTablesAgree'
<1> DEFINE d == AddedWd(kern, obj[w].path)
<1>1. obj[w] \in WatchObject /\ obj[w].path \in Path
  BY DEF CallTypeOK, LibraryTypeOK, WatchObject
<1>2. CASE AddRefused(w) \/ AddCollision(w)
  BY <1>2 DEF AddRefused, AddCollision, libVars, WatchTablesAgree
<1>3. CASE AddDisabled(w)
  <2>1. /\ obj' = [obj EXCEPT ![w].inotify = "this"]
        /\ m_paths' = [m_paths EXCEPT ![obj[w].path] = w]
        /\ m_watches' = m_watches
        /\ m_paths[obj[w].path] = NULL
    BY <1>3 DEF AddDisabled
  <2>2. \A v \in Watch : obj[v] # NULL => 
          obj'[v] # NULL /\ obj'[v].path = obj[v].path
           /\ obj'[v].wd = obj[v].wd /\ (v # w => obj'[v] = obj[v])
    BY <1>1, <2>1, LibraryAssumption DEF CallTypeOK, LibraryTypeOK, WatchObject
  <2>3. QED
    BY <1>1, <2>1, <2>2 DEF WatchTablesAgree, CallTypeOK, LibraryTypeOK
<1>4. CASE AddEnabled(w)
  <2>1. /\ obj' = [obj EXCEPT ![w].wd = d, ![w].inotify = "this"]
        /\ m_watches' = [m_watches EXCEPT ![d] = w]
        /\ m_paths' = [m_paths EXCEPT ![obj[w].path] = w]
        /\ m_paths[obj[w].path] = NULL
        /\ obj[w].enabled
        /\ d # NoWd
    BY <1>4 DEF AddEnabled
  <2>2. d \in 1..MaxWd
    BY <1>1, <2>1, AddedWdType DEF CallTypeOK
  <2>3. m_watches[d] = NULL
    BY <1>4, <2>2 DEF AddEnabled, FindWatch
  <2>4. /\ obj'[w] \in WatchObject /\ obj'[w].path = obj[w].path
        /\ obj'[w].wd = d /\ obj'[w].inotify = "this" /\ obj'[w].enabled
        /\ \A v \in Watch : v # w => obj'[v] = obj[v]
    BY <1>1, <2>1, <2>2 DEF CallTypeOK, LibraryTypeOK, WatchObject, Wd
  <2>5. ASSUME NEW p \in Path, m_paths'[p] # NULL
        PROVE  obj'[m_paths'[p]] # NULL /\ obj'[m_paths'[p]].path = p
    <3>1. CASE p = obj[w].path
      BY <1>1, <2>1, <2>4, <3>1, LibraryAssumption DEF CallTypeOK, LibraryTypeOK
    <3>2. CASE p # obj[w].path
      <4>1. m_paths'[p] = m_paths[p] /\ m_paths[p] \in Watch \ {w}
        BY <2>1, <2>5, <3>2 DEF WatchTablesAgree, CallTypeOK, LibraryTypeOK
      <4>2. QED
        BY <2>4, <2>5, <4>1 DEF WatchTablesAgree
    <3>3. QED
      BY <3>1, <3>2
  <2>6. ASSUME NEW c \in 1..MaxWd, m_watches'[c] # NULL
        PROVE  LET o == obj'[m_watches'[c]]
               IN  /\ o # NULL
                   /\ o.enabled /\ o.wd = c /\ o.inotify = "this"
                   /\ m_paths'[o.path] = m_watches'[c]
    <3>1. CASE c = d
      BY <1>1, <2>1, <2>2, <2>4, <3>1, LibraryAssumption DEF CallTypeOK, LibraryTypeOK
    <3>2. CASE c # d
      <4>1. m_watches'[c] = m_watches[c] /\ m_watches[c] \in Watch
        BY <2>1, <2>2, <2>6, <3>2 DEF CallTypeOK, LibraryTypeOK
      <4>2. m_watches[c] # w
        BY <2>6, <4>1 DEF WatchTablesAgree, NoWd
      <4>3. obj'[m_watches[c]] = obj[m_watches[c]]
        BY <2>4, <4>1, <4>2
      <4>4. obj[m_watches[c]] \in WatchObject
        BY <2>6, <4>1 DEF WatchTablesAgree, CallTypeOK, LibraryTypeOK
      <4>5. obj[m_watches[c]].path \in Path
        BY <4>4 DEF WatchObject
      <4>6. QED
        BY <1>1, <2>1, <2>6, <4>1, <4>3, <4>5, LibraryAssumption
           DEF WatchTablesAgree, CallTypeOK, LibraryTypeOK
    <3>3. QED
      BY <3>1, <3>2
  <2>7. ASSUME NEW v \in Watch, obj'[v] # NULL, obj'[v].wd # NoWd
        PROVE  m_watches'[obj'[v].wd] = v
    <3>1. CASE v = w
      BY <2>1, <2>2, <2>4, <3>1 DEF CallTypeOK, LibraryTypeOK
    <3>2. CASE v # w
      <4>1. obj'[v] = obj[v] /\ obj[v] \in WatchObject
        BY <2>4, <2>7, <3>2 DEF CallTypeOK, LibraryTypeOK
      <4>2. m_watches[obj[v].wd] = v /\ obj[v].wd \in 1..MaxWd
        BY <2>7, <4>1 DEF WatchTablesAgree, WatchObject, Wd
      <4>3. obj[v].wd # d
        BY <2>3, <4>2, LibraryAssumption
      <4>4. QED
        BY <2>1, <2>2, <4>1, <4>2, <4>3 DEF CallTypeOK, LibraryTypeOK
    <3>3. QED
      BY <3>1, <3>2
  <2>8. QED
    BY <2>5, <2>6, <2>7 DEF WatchTablesAgree
<1>5. QED
  BY <1>2, <1>3, <1>4 DEF Add

(* A watch that dies with its last event leaves the table of descriptors.  *)
LEMMA ParseEventAgrees ==
  ASSUME CallTypeOK, WatchTablesAgree, ParseEvent
  PROVE  WatchTablesAgree'
<1> DEFINE e == Head(m_buf)
           w == FindWatch(e.wd)
<1>1. m_paths' = m_paths
  BY DEF ParseEvent
<1>2. CASE ~(w # NULL /\ ~ParseThrows /\ LastEvent(w, e))
  BY <1>1, <1>2 DEF ParseEvent, WatchTablesAgree
<1>3. CASE w # NULL /\ ~ParseThrows /\ LastEvent(w, e)
  <2>1. /\ e.wd \in 1..MaxWd /\ w = m_watches[e.wd] /\ w \in Watch
        /\ obj[w] # NULL /\ obj[w].enabled /\ obj[w].wd = e.wd
        /\ obj[w].inotify = "this" /\ m_paths[obj[w].path] = w
    BY <1>3 DEF FindWatch, WatchTablesAgree, CallTypeOK, LibraryTypeOK
  <2>2. Disable(w)
    BY <1>3 DEF ParseEvent
  <2>3. /\ m_watches' = [m_watches EXCEPT ![e.wd] = NULL]
        /\ obj' = [obj EXCEPT ![w].enabled = FALSE, ![w].wd = NoWd]
    <3>1. obj[w].inotify # "null" /\ obj[w].wd # NoWd
      BY <2>1 DEF NoWd
    <3>2. QED
      BY <2>1, <2>2, <3>1 DEF Disable
  <2>4. obj[w] \in WatchObject
    BY <2>1 DEF CallTypeOK, LibraryTypeOK
  <2>5. /\ obj'[w] \in WatchObject /\ obj'[w].path = obj[w].path /\ obj'[w].wd = NoWd
        /\ \A v \in Watch : v # w => obj'[v] = obj[v]
    BY <2>1, <2>3, <2>4, WdType DEF CallTypeOK, LibraryTypeOK, WatchObject
  <2>6. \A p \in Path : m_paths'[p] # NULL =>
          obj'[m_paths'[p]] # NULL /\ obj'[m_paths'[p]].path = p
    BY <1>1, <2>5, LibraryAssumption DEF WatchTablesAgree, CallTypeOK, LibraryTypeOK
  <2>7. ASSUME NEW c \in 1..MaxWd, m_watches'[c] # NULL
        PROVE  m_watches'[c] = m_watches[c] /\ m_watches[c] \in Watch \ {w}
    BY <2>1, <2>3, <2>7 DEF WatchTablesAgree, CallTypeOK, LibraryTypeOK
  <2>8. ASSUME NEW v \in Watch, obj'[v] # NULL, obj'[v].wd # NoWd
        PROVE  m_watches'[obj'[v].wd] = v
    <3>1. v # w /\ obj'[v] = obj[v] /\ obj[v] \in WatchObject
      BY <2>5, <2>8 DEF CallTypeOK, LibraryTypeOK
    <3>2. m_watches[obj[v].wd] = v /\ obj[v].wd \in 1..MaxWd
      BY <2>8, <3>1 DEF WatchTablesAgree, WatchObject, Wd
    <3>3. QED
      BY <2>1, <2>3, <3>1, <3>2 DEF CallTypeOK, LibraryTypeOK
  <2>9. QED
    BY <1>1, <2>5, <2>6, <2>7, <2>8 DEF WatchTablesAgree
<1>4. QED
  BY <1>2, <1>3

(* Close() empties both tables and parts with every watch they held. *)
LEMMA CloseAgrees ==
  ASSUME CallTypeOK, WatchTablesAgree, Close
  PROVE  WatchTablesAgree'
<1>1. /\ obj' = Released
      /\ m_watches' = [d \in 1..MaxWd |-> NULL]
      /\ m_paths' = [p \in Path |-> NULL]
  BY DEF Close, Cleared
<1>2. ASSUME NEW w \in Watch, obj'[w] # NULL, obj'[w].wd # NoWd
      PROVE  FALSE
  <2>1. CASE w \in Range(m_paths)
    <3>1. obj[w] \in WatchObject
      BY <2>1, LibraryAssumption DEF Range, CallTypeOK, LibraryTypeOK, WatchTablesAgree
    <3>2. obj'[w] = [obj[w] EXCEPT !.wd = NoWd, !.inotify = "null"]
      BY <1>1, <2>1 DEF Released
    <3>3. QED
      BY <1>2, <3>1, <3>2 DEF WatchObject
  <2>2. CASE w \notin Range(m_paths)
    <3>1. obj'[w] = obj[w] /\ obj[w] \in WatchObject
      BY <1>1, <1>2, <2>2 DEF Released, CallTypeOK, LibraryTypeOK
    <3>2. m_watches[obj[w].wd] = w /\ obj[w].wd \in 1..MaxWd
      BY <1>2, <3>1 DEF WatchTablesAgree, WatchObject, Wd
    <3>3. m_paths[obj[w].path] = w /\ obj[w].path \in Path
      BY <3>1, <3>2, LibraryAssumption DEF WatchTablesAgree, WatchObject
    <3>4. QED
      BY <2>2, <3>3 DEF Range, CallTypeOK, LibraryTypeOK
  <2>3. QED
    BY <2>1, <2>2
<1>3. QED
  BY <1>1, <1>2 DEF WatchTablesAgree

-----------------------------------------------------------------------------
(* A watch object keeps its path                                           *)

PathsKept ==
  \A w \in Watch : obj[w] # NULL => obj'[w] # NULL /\ obj'[w].path = obj[w].path

(* Fields of one watch change, not its path. *)
LEMMA FieldsKeepPaths ==
  ASSUME CallTypeOK, NEW w \in Watch, obj[w] # NULL, NEW o \in WatchObject,
         o.path = obj[w].path, obj' = [obj EXCEPT ![w] = o]
  PROVE  PathsKept
<1>1. obj'[w] = o /\ o # NULL
  BY LibraryAssumption DEF CallTypeOK, LibraryTypeOK
<1>2. \A v \in Watch \ {w} : obj'[v] = obj[v]
  BY DEF CallTypeOK, LibraryTypeOK
<1> QED BY <1>1, <1>2 DEF PathsKept

LEMMA ConstructKeepsPaths ==
  ASSUME CallTypeOK, NEW w \in Watch, NEW p, NEW m, NEW e, Construct(w, p, m, e)
  PROVE  PathsKept
<1>1. obj[w] = NULL /\ \A v \in Watch \ {w} : obj'[v] = obj[v]
  BY DEF Construct, CallTypeOK, LibraryTypeOK
<1> QED BY <1>1 DEF PathsKept

LEMMA AddKeepsPaths ==
  ASSUME CallTypeOK, KernelTypeOK, NEW w \in Watch, obj[w] # NULL, Add(w)
  PROVE  PathsKept
<1> DEFINE d == AddedWd(kern, obj[w].path)
<1>1. obj[w] \in WatchObject /\ obj[w].path \in Path
  BY DEF CallTypeOK, LibraryTypeOK, WatchObject
<1>2. CASE AddRefused(w) \/ AddCollision(w)
  BY <1>2 DEF AddRefused, AddCollision, libVars, PathsKept
<1>3. CASE AddDisabled(w)
  <2> DEFINE o == [obj[w] EXCEPT !.inotify = "this"]
  <2>1. o \in WatchObject /\ o.path = obj[w].path
    BY <1>1 DEF WatchObject
  <2>2. obj' = [obj EXCEPT ![w] = o]
    BY <1>3 DEF AddDisabled
  <2> HIDE DEF o
  <2> QED BY <2>1, <2>2, FieldsKeepPaths
<1>4. CASE AddEnabled(w)
  <2> DEFINE o == [obj[w] EXCEPT !.wd = d, !.inotify = "this"]
  <2>1. d \in Wd
    BY <1>1, AddedWdType DEF CallTypeOK
  <2>2. o \in WatchObject /\ o.path = obj[w].path
    BY <1>1, <2>1 DEF WatchObject
  <2>3. obj' = [obj EXCEPT ![w] = o]
    BY <1>4 DEF AddEnabled
  <2> HIDE DEF o
  <2> QED BY <2>2, <2>3, FieldsKeepPaths
<1> QED BY <1>2, <1>3, <1>4 DEF Add

LEMMA ParseKeepsPaths ==
  ASSUME CallTypeOK, Constructed, ParseEvent
  PROVE  PathsKept
<1> DEFINE e == Head(m_buf)
           w == FindWatch(e.wd)
<1>1. CASE ~(w # NULL /\ ~ParseThrows /\ LastEvent(w, e))
  BY <1>1 DEF ParseEvent, PathsKept
<1>2. CASE w # NULL /\ ~ParseThrows /\ LastEvent(w, e)
  <2>1. w \in Watch /\ obj[w] # NULL
    BY <1>2, FindWatchType DEF FindWatch, Constructed, CallTypeOK
  <2>2. obj[w] \in WatchObject
    BY <2>1 DEF CallTypeOK, LibraryTypeOK
  <2> DEFINE o == [obj[w] EXCEPT !.enabled = FALSE,
                                 !.wd = IF obj[w].inotify # "null" THEN NoWd ELSE @]
  <2>3. o \in WatchObject /\ o.path = obj[w].path
    BY <2>2, WdType DEF WatchObject
  <2>4. obj' = [obj EXCEPT ![w] = o]
    BY <1>2 DEF ParseEvent, Disable
  <2> HIDE DEF o
  <2> QED BY <2>1, <2>3, <2>4, FieldsKeepPaths
<1> QED BY <1>1, <1>2

LEMMA CloseKeepsPaths ==
  ASSUME CallTypeOK, Close
  PROVE  PathsKept
<1> SUFFICES ASSUME NEW w \in Watch, obj[w] # NULL
             PROVE  obj'[w] # NULL /\ obj'[w].path = obj[w].path
  BY DEF PathsKept
<1>1. obj[w] \in WatchObject /\ obj' = Released
  BY DEF Close, Cleared, CallTypeOK, LibraryTypeOK
<1>2. obj'[w].path = obj[w].path /\ obj'[w] \in WatchObject
  BY <1>1, WdType DEF Released, WatchObject
<1> QED BY <1>2, LibraryAssumption

=============================================================================
