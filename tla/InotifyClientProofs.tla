------------------------ MODULE InotifyClientProofs ------------------------
(***************************************************************************)
(* The inotify-cxx library under any client of one thread, for every file  *)
(* system and any number of watches: what holds whatever the client calls, *)
(* what holds if it removes only watches that are present,                 *)
(* and what holds if, besides, no directory has two paths.                 *)
(***************************************************************************)
EXTENDS InotifyClient, InotifyProofs, WellFoundedInduction

-----------------------------------------------------------------------------
(* RemoveAll() removes descriptors one after the other: a fold             *)

LEMMA LeastOf ==
  ASSUME NEW B \in SUBSET Nat, B # {}
  PROVE  \E n \in B : \A m \in B : n <= m
<1>1. PICK n \in B : \A m \in B : ~(<<m, n>> \in OpToRel(<, Nat))
  BY NatLessThanWellFounded, WFMin
<1>2. ASSUME NEW m \in B, m < n
      PROVE  FALSE
  <2>1. <<m, n>> \in OpToRel(<, Nat)
    BY <1>2 DEF OpToRel
  <2> QED BY <1>1, <2>1
<1>3. \A m \in B : n <= m
  BY <1>2
<1> QED BY <1>3

LEMMA LastOf ==
  ASSUME NEW n \in Nat, NEW s \in SUBSET (1..n), s # {}
  PROVE  Max(s) \in s
<1> DEFINE B == {n - x : x \in s}
<1>1. B \in SUBSET Nat /\ B # {}
  <2>1. \A x \in s : x \in 1..n /\ n - x \in Nat
    OBVIOUS
  <2> QED BY <2>1
<1>2. PICK b \in B : \A c \in B : b <= c
  BY <1>1, LeastOf
<1>3. PICK x \in s : b = n - x
  OBVIOUS
<1>4. \A y \in s : x >= y
  <2> TAKE y \in s
  <2>1. n - y \in B /\ x \in 1..n /\ y \in 1..n
    OBVIOUS
  <2> QED BY <1>2, <1>3, <2>1
<1> QED BY <1>4 DEF Max

(* The recursive function behind FoldLeft exists, and its values stay       *)
(* wherever each removal stays.                                            *)
LEMMA RemovedInTurn ==
  ASSUME NEW V, NEW D, NEW K0 \in V, NEW wds \in Seq(D),
         \A K \in V, d \in D : Removed(K, d) \in V
  PROVE  FoldLeft(Removed, K0, wds) \in V
<1> DEFINE S    == DOMAIN wds
           T(n) == {s \in SUBSET S : Cardinality(s) <= n}
           Turn(g, s) == IF s = {} THEN K0 ELSE Removed(g[s \ {Max(s)}], wds[Max(s)])
           iter == CHOOSE g : g = [s \in SUBSET S |-> Turn(g, s)]
           Bad == {n \in Nat : ~ \E g \in [T(n) -> V] : \A s \in T(n) : g[s] = Turn(g, s)}
<1>1. FoldLeft(Removed, K0, wds) = iter[S]
  BY DEF FoldLeft, MapThenFoldSet
<1>2. /\ S = 1..Len(wds) /\ Len(wds) \in Nat /\ IsFiniteSet(S)
      /\ \A s \in SUBSET S : IsFiniteSet(s) /\ Cardinality(s) \in Nat
  <2>1. S = 1..Len(wds) /\ Len(wds) \in Nat
    OBVIOUS
  <2>2. IsFiniteSet(S)
    BY <2>1, FS_Interval
  <2>3. \A s \in SUBSET S : IsFiniteSet(s) /\ Cardinality(s) \in Nat
    BY <2>2, FS_Subset, FS_CardinalityType
  <2> QED BY <2>1, <2>2, <2>3
<1>3. \A s \in SUBSET S : s # {} =>
        Max(s) \in S /\ wds[Max(s)] \in D /\ Cardinality(s \ {Max(s)}) = Cardinality(s) - 1
  <2> TAKE s \in SUBSET S
  <2> HAVE s # {}
  <2>1. Max(s) \in s
    BY <1>2, LastOf
  <2>2. Max(s) \in S /\ wds[Max(s)] \in D
    BY <1>2, <2>1
  <2>3. Cardinality(s \ {Max(s)}) = Cardinality(s) - 1
    BY <1>2, <2>1, FS_RemoveElement
  <2> QED BY <2>2, <2>3
<1>4. 0 \notin Bad
  <2> DEFINE g == [s \in T(0) |-> K0]
  <2>1. \A s \in T(0) : s = {}
    BY <1>2, FS_EmptySet
  <2>2. g \in [T(0) -> V] /\ \A s \in T(0) : g[s] = Turn(g, s)
    BY <2>1
  <2> QED BY <2>2
<1>5. ASSUME NEW n \in Nat, n \notin Bad
      PROVE  n + 1 \notin Bad
  <2>1. PICK g \in [T(n) -> V] : \A s \in T(n) : g[s] = Turn(g, s)
    BY <1>5
  <2> DEFINE h == [s \in T(n + 1) |-> Turn(g, s)]
  <2>2. \A s \in T(n + 1) : s # {} => s \ {Max(s)} \in T(n)
    <3> TAKE s \in T(n + 1)
    <3> HAVE s # {}
    <3>1. s \in SUBSET S /\ Cardinality(s) \in Nat /\ Cardinality(s) <= n + 1
      BY <1>2
    <3>2. Cardinality(s \ {Max(s)}) = Cardinality(s) - 1
      BY <1>3, <3>1
    <3>3. Cardinality(s \ {Max(s)}) <= n
      BY <3>1, <3>2
    <3> QED BY <3>1, <3>3
  <2>3. h \in [T(n + 1) -> V]
    BY <1>3, <2>2
  <2>4. \A s \in T(n) : s \in T(n + 1) /\ h[s] = g[s]
    <3> TAKE s \in T(n)
    <3>1. s \in SUBSET S /\ Cardinality(s) \in Nat /\ Cardinality(s) <= n
      BY <1>2
    <3>2. s \in T(n + 1)
      BY <3>1
    <3>3. h[s] = Turn(g, s)
      BY <3>2
    <3> QED BY <2>1, <3>2, <3>3
  <2>5. \A s \in T(n + 1) : h[s] = Turn(h, s)
    BY <2>2, <2>4
  <2> QED BY <2>3, <2>5
<1>6. Bad = {}
  <2>1. Bad \in SUBSET Nat
    OBVIOUS
  <2> SUFFICES ASSUME Bad # {} PROVE FALSE
    OBVIOUS
  <2>2. PICK n \in Bad : \A m \in Bad : n <= m
    BY <2>1, LeastOf
  <2> HIDE DEF Bad
  <2>3. n - 1 \in Nat /\ n = (n - 1) + 1 /\ n - 1 \notin Bad
    BY <1>4, <2>1, <2>2
  <2> QED BY <1>5, <2>3, <2>2
<1>7. PICK g : g \in [SUBSET S -> V] /\ \A s \in SUBSET S : g[s] = Turn(g, s)
  <2>1. T(Cardinality(S)) = SUBSET S
    BY <1>2, FS_Subset
  <2>2. Cardinality(S) \notin Bad
    BY <1>6
  <2> QED BY <1>2, <2>1, <2>2
<1>8. iter = [s \in SUBSET S |-> Turn(iter, s)]
  <2>1. g = [s \in SUBSET S |-> Turn(g, s)]
    BY <1>7
  <2> QED BY <2>1
<1> HIDE DEF iter
<1>9. ASSUME NEW s \in SUBSET S, iter[s] \notin V
      PROVE  FALSE
  <2> DEFINE B == {Cardinality(t) : t \in {t \in SUBSET S : iter[t] \notin V}}
  <2>1. B \in SUBSET Nat /\ B # {}
    BY <1>2, <1>9
  <2>2. PICK b \in B : \A c \in B : b <= c
    BY <2>1, LeastOf
  <2>3. PICK t \in SUBSET S : iter[t] \notin V /\ b = Cardinality(t)
    OBVIOUS
  <2>4. t # {}
    BY <1>8, <2>3
  <2>5. t \ {Max(t)} \in SUBSET S /\ Cardinality(t \ {Max(t)}) < b
    <3>1. Cardinality(t \ {Max(t)}) = Cardinality(t) - 1 /\ Cardinality(t) \in Nat
      BY <1>2, <1>3, <2>4
    <3> QED BY <2>3, <3>1
  <2>6. iter[t \ {Max(t)}] \in V
    <3> SUFFICES ASSUME iter[t \ {Max(t)}] \notin V PROVE FALSE
      OBVIOUS
    <3>1. Cardinality(t \ {Max(t)}) \in B
      BY <2>5
    <3>2. b <= Cardinality(t \ {Max(t)}) /\ b \in Nat /\ Cardinality(t \ {Max(t)}) \in Nat
      BY <2>1, <2>2, <3>1
    <3> QED BY <2>5, <3>2
  <2>7. iter[t] \in V
    BY <1>3, <1>8, <2>4, <2>6
  <2> QED BY <2>3, <2>7
<1> QED BY <1>1, <1>9

-----------------------------------------------------------------------------
(* The kernel when watches go *)

(* A kernel that differs from another by watches gone and events queued.    *)
Fewer(K) ==
  {L \in KernelType :
     /\ L.open = K.open /\ L.next = K.next
     /\ \A j \in Inode : L.wd[j] \in {K.wd[j], NoWd}}

LEMMA QueuedFewer ==
  ASSUME NEW K \in KernelType, NEW L \in Fewer(K), NEW e \in KernelEvent
  PROVE  Queued(L, e) \in Fewer(K)
<1>1. Queued(L, e) \in KernelType
  BY QueuedType DEF Fewer
<1>2. \A x : LET M == [L EXCEPT !.queue = Append(@, x)]
             IN  M.open = L.open /\ M.next = L.next /\ M.wd = L.wd
  BY DEF KernelType, Fewer
<1>3. Queued(L, e).open = L.open /\ Queued(L, e).next = L.next /\ Queued(L, e).wd = L.wd
  BY <1>2 DEF Queued
<1> QED BY <1>1, <1>3 DEF Fewer

LEMMA ForgottenFewer ==
  ASSUME NEW K \in KernelType, NEW L \in Fewer(K), NEW j \in Inode
  PROVE  Forgotten(L, j) \in Fewer(K)
<1> DEFINE M == [L EXCEPT !.wd[j] = NoWd, !.mask[j] = {}]
           e == [wd |-> L.wd[j], type |-> "IN_IGNORED", name |-> NoName]
<1>1. M \in KernelType /\ e \in KernelEvent
  BY WdType DEF KernelType, KernelEvent, Fewer
<1>2. M.open = L.open /\ M.next = L.next /\ M.wd = [L.wd EXCEPT ![j] = NoWd]
  BY DEF KernelType, Fewer
<1>3. M \in Fewer(K)
  BY <1>1, <1>2 DEF Fewer, KernelType
<1> HIDE DEF M, e
<1>4. Queued(M, e) \in Fewer(K)
  BY <1>1, <1>3, QueuedFewer
<1> QED BY <1>4 DEF Forgotten, M, e

LEMMA RemovedFewer ==
  ASSUME NEW K \in KernelType, NEW L \in Fewer(K), NEW d
  PROVE  Removed(L, d) \in Fewer(K)
<1>1. CASE IsWatchedWd(L, d)
  <2>1. (CHOOSE i \in Inode : L.wd[i] = d) \in Inode
    BY <1>1 DEF IsWatchedWd
  <2> QED BY <1>1, <2>1, ForgottenFewer DEF Removed
<1>2. CASE ~IsWatchedWd(L, d)
  BY <1>2 DEF Removed
<1> QED BY <1>1, <1>2

(* However many watches RemoveAll() finds, and in whatever order. *)
LEMMA AllRemovedFewer ==
  ASSUME LibraryTypeOK, Constructed, kern \in KernelType, RemoveAll
  PROVE  kern' \in Fewer(kern)
<1> DEFINE D == {obj[w].wd : w \in Range(m_paths) \ {NULL}}
<1>1. PICK wds \in SetToSeqs(D) : kern' = FoldLeft(Removed, kern, wds)
  BY DEF RemoveAll
<1>2. wds \in [1..Cardinality(D) -> D]
  BY DEF SetToSeqs
<1>3. wds \in Seq(D)
  <2>1. D \in SUBSET Wd
    <3>1. \A w \in Range(m_paths) \ {NULL} : obj[w] \in WatchObject
      BY DEF Range, LibraryTypeOK, Constructed
    <3> QED BY <3>1 DEF WatchObject
  <2>2. IsFiniteSet(Wd)
    <3>1. IsFiniteSet(1..MaxWd)
      BY KernelAssumption, FS_Interval
    <3>2. IsFiniteSet((1..MaxWd) \cup {NoWd})
      BY <3>1, FS_AddElement
    <3>3. Wd = (1..MaxWd) \cup {NoWd}
      BY DEF Wd
    <3> QED BY <3>2, <3>3
  <2>3. Cardinality(D) \in Nat
    BY <2>1, <2>2, FS_Subset, FS_CardinalityType
  <2> HIDE DEF D
  <2> QED BY <1>2, <2>3, SeqDef
<1>4. kern \in Fewer(kern)
  BY DEF Fewer
<1>5. \A L \in Fewer(kern), d \in D : Removed(L, d) \in Fewer(kern)
  BY RemovedFewer
<1> HIDE DEF D
<1> QED BY <1>1, <1>3, <1>4, <1>5, RemovedInTurn

-----------------------------------------------------------------------------
(* What each call does, watch by watch and entry by entry                  *)

(* Watch w alone changes, and keeps its path. *)
Turns(w, m, d, i, e) ==
  /\ obj'[w] = [path |-> obj[w].path, mask |-> m, wd |-> d, inotify |-> i, enabled |-> e]
  /\ obj'[w] \in WatchObject /\ obj'[w] # NULL
  /\ \A v \in Watch \ {w} : obj'[v] = obj[v]
  /\ obj' \in [Watch -> WatchObject \cup {NULL}]

LEMMA FieldsTurn ==
  ASSUME LibraryTypeOK, NEW w \in Watch, obj[w] # NULL,
         NEW m \in SUBSET MaskBits, NEW d \in Wd, NEW i \in {"null", "this", "wild"},
         NEW e \in BOOLEAN,
         obj' = [obj EXCEPT ![w].mask = m, ![w].wd = d, ![w].inotify = i, ![w].enabled = e]
  PROVE  Turns(w, m, d, i, e)
<1> DEFINE o == [path |-> obj[w].path, mask |-> m, wd |-> d, inotify |-> i, enabled |-> e]
<1>1. obj[w] \in WatchObject /\ o \in WatchObject
  BY DEF LibraryTypeOK, WatchObject
<1>2. obj'[w] = o
  BY <1>1 DEF LibraryTypeOK, WatchObject
<1>3. \A v \in Watch \ {w} : obj'[v] = obj[v]
  BY DEF LibraryTypeOK
<1>4. obj' \in [Watch -> WatchObject \cup {NULL}]
  BY <1>1, <1>2, <1>3 DEF LibraryTypeOK
<1> QED BY <1>1, <1>2, <1>3, <1>4, LibraryAssumption DEF Turns

LEMMA AddDisabledDoes ==
  ASSUME LibraryTypeOK, NEW w \in Watch, obj[w] # NULL, AddDisabled(w)
  PROVE  /\ Turns(w, obj[w].mask, obj[w].wd, "this", FALSE)
         /\ obj[w].path \in Path /\ m_paths[obj[w].path] = NULL
         /\ \A p \in Path : m_paths'[p] = IF p = obj[w].path THEN w ELSE m_paths[p]
         /\ m_watches' = m_watches
<1>1. obj[w] \in WatchObject /\ obj[w].path \in Path
  BY DEF LibraryTypeOK, WatchObject
<1>2. obj' = [obj EXCEPT ![w].mask = obj[w].mask, ![w].wd = obj[w].wd,
                         ![w].inotify = "this", ![w].enabled = FALSE]
  BY <1>1 DEF AddDisabled, LibraryTypeOK, WatchObject
<1>3. Turns(w, obj[w].mask, obj[w].wd, "this", FALSE)
  BY <1>1, <1>2, FieldsTurn DEF WatchObject
<1> QED BY <1>1, <1>3 DEF AddDisabled, LibraryTypeOK

LEMMA AddEnabledDoes ==
  ASSUME LibraryTypeOK, KernelTypeOK, NEW w \in Watch, obj[w] # NULL, AddEnabled(w)
  PROVE  LET d == AddedWd(kern, obj[w].path)
         IN /\ d \in 1..MaxWd /\ d # NoWd /\ m_watches[d] = NULL
            /\ Turns(w, obj[w].mask, d, "this", TRUE)
            /\ obj[w].path \in Path /\ m_paths[obj[w].path] = NULL
            /\ \A p \in Path : m_paths'[p] = IF p = obj[w].path THEN w ELSE m_paths[p]
            /\ \A c \in 1..MaxWd : m_watches'[c] = IF c = d THEN w ELSE m_watches[c]
<1> DEFINE d == AddedWd(kern, obj[w].path)
<1>1. obj[w] \in WatchObject /\ obj[w].path \in Path
  BY DEF LibraryTypeOK, WatchObject
<1>2. d \in Wd /\ d \in 1..MaxWd /\ d # NoWd
  BY <1>1, AddedWdType DEF AddEnabled, KernelTypeOK
<1>3. obj' = [obj EXCEPT ![w].mask = obj[w].mask, ![w].wd = d,
                         ![w].inotify = "this", ![w].enabled = TRUE]
  BY <1>1 DEF AddEnabled, LibraryTypeOK, WatchObject
<1> HIDE DEF d
<1>4. Turns(w, obj[w].mask, d, "this", TRUE)
  BY <1>1, <1>2, <1>3, FieldsTurn DEF WatchObject
<1> QED BY <1>1, <1>2, <1>4 DEF AddEnabled, LibraryTypeOK, FindWatch, d

LEMMA RemoveDoes ==
  ASSUME LibraryTypeOK, NEW w \in Watch, obj[w] # NULL, RemoveAccepted(w)
  PROVE  /\ Turns(w, obj[w].mask, NoWd, "null", obj[w].enabled)
         /\ \A p \in Path : m_paths'[p] = IF p = obj[w].path THEN NULL ELSE m_paths[p]
         /\ \A c \in 1..MaxWd : m_watches'[c] = IF c = obj[w].wd THEN NULL ELSE m_watches[c]
         /\ obj[w].path \in Path
<1>1. obj[w] \in WatchObject /\ obj[w].path \in Path /\ obj[w].wd \in Wd
  BY DEF LibraryTypeOK, WatchObject
<1>2. obj' = [obj EXCEPT ![w].mask = obj[w].mask, ![w].wd = NoWd,
                         ![w].inotify = "null", ![w].enabled = obj[w].enabled]
  BY <1>1 DEF RemoveAccepted, LibraryTypeOK, WatchObject
<1>3. Turns(w, obj[w].mask, NoWd, "null", obj[w].enabled)
  <2>1. obj[w].mask \in SUBSET MaskBits /\ obj[w].enabled \in BOOLEAN /\ NoWd \in Wd
    BY <1>1, WdType DEF WatchObject
  <2> QED BY <1>2, <2>1, FieldsTurn
<1>4. NoWd \notin 1..MaxWd
  BY DEF NoWd
<1> QED BY <1>1, <1>3, <1>4 DEF RemoveAccepted, LibraryTypeOK

LEMMA EnableDoes ==
  ASSUME LibraryTypeOK, KernelTypeOK, NEW w \in Watch, obj[w] # NULL, Enable(w)
  PROVE  LET d == AddedWd(kern, obj[w].path)
         IN /\ d \in 1..MaxWd /\ d # NoWd
            /\ Turns(w, obj[w].mask, d, "this", TRUE)
            /\ m_paths' = m_paths
            /\ \A c \in 1..MaxWd : m_watches'[c] =
                 IF c = d /\ m_watches[d] = NULL THEN w ELSE m_watches[c]
<1> DEFINE d == AddedWd(kern, obj[w].path)
<1>1. obj[w] \in WatchObject /\ obj[w].path \in Path
  BY DEF LibraryTypeOK, WatchObject
<1>2. d \in Wd /\ d \in 1..MaxWd /\ d # NoWd
  BY <1>1, AddedWdType DEF Enable, KernelTypeOK
<1>3. obj' = [obj EXCEPT ![w].mask = obj[w].mask, ![w].wd = d,
                         ![w].inotify = "this", ![w].enabled = TRUE]
  BY <1>1 DEF Enable, LibraryTypeOK, WatchObject
<1> HIDE DEF d
<1>4. Turns(w, obj[w].mask, d, "this", TRUE)
  BY <1>1, <1>2, <1>3, FieldsTurn DEF WatchObject
<1> QED BY <1>1, <1>2, <1>4 DEF Enable, LibraryTypeOK, d

LEMMA SwitchOffDoes ==
  ASSUME LibraryTypeOK, KernelTypeOK, NEW w \in Watch, obj[w] # NULL, SwitchOff(w)
  PROVE  /\ obj[w].wd \in 1..MaxWd
         /\ Turns(w, obj[w].mask, NoWd, "this", FALSE)
         /\ m_paths' = m_paths
         /\ \A c \in 1..MaxWd : m_watches'[c] = IF c = obj[w].wd THEN NULL ELSE m_watches[c]
<1>1. obj[w] \in WatchObject /\ obj[w].path \in Path /\ obj[w].wd \in 1..MaxWd
  BY WdType DEF LibraryTypeOK, WatchObject, SwitchOff, IsWatchedWd
<1>2. obj' = [obj EXCEPT ![w].mask = obj[w].mask, ![w].wd = NoWd,
                         ![w].inotify = "this", ![w].enabled = FALSE]
  BY <1>1 DEF SwitchOff, LibraryTypeOK, WatchObject
<1>3. Turns(w, obj[w].mask, NoWd, "this", FALSE)
  BY <1>1, <1>2, WdType, FieldsTurn DEF WatchObject
<1> QED BY <1>1, <1>3 DEF SwitchOff, LibraryTypeOK

LEMMA DisableDoes ==
  ASSUME LibraryTypeOK, NEW w \in Watch, obj[w] # NULL, Disable(w)
  PROVE  Turns(w, obj[w].mask, IF obj[w].inotify # "null" THEN NoWd ELSE obj[w].wd,
               obj[w].inotify, FALSE)
<1> DEFINE d == IF obj[w].inotify # "null" THEN NoWd ELSE obj[w].wd
<1>1. obj[w] \in WatchObject
  BY DEF LibraryTypeOK
<1>2. obj' = [obj EXCEPT ![w].mask = obj[w].mask, ![w].wd = d,
                         ![w].inotify = obj[w].inotify, ![w].enabled = FALSE]
  BY <1>1 DEF Disable, LibraryTypeOK, WatchObject
<1>3. /\ d \in Wd /\ obj[w].mask \in SUBSET MaskBits
      /\ obj[w].inotify \in {"null", "this", "wild"}
  BY <1>1, WdType DEF WatchObject
<1> HIDE DEF d
<1>4. Turns(w, obj[w].mask, d, obj[w].inotify, FALSE)
  BY <1>2, <1>3, FieldsTurn
<1> QED BY <1>4 DEF d

(* SetEnabled() that does not reach the kernel turns the switch of a watch *)
(* without an owner, at most.                                              *)
LEMMA AsideDoes ==
  ASSUME LibraryTypeOK, NEW w \in Watch, obj[w] # NULL, NEW on \in BOOLEAN,
         SetEnabledAside(w, on)
  PROVE  /\ UNCHANGED <<m_watches, m_paths, m_buf, m_events, kern>>
         /\ \/ UNCHANGED obj
            \/ obj[w].inotify = "null" /\ Turns(w, obj[w].mask, obj[w].wd, "null", on)
         /\ fault' = fault \/ (obj[w].inotify = "wild" /\ fault' \in {"none", "corrupt"})
<1>1. obj[w] \in WatchObject
  BY DEF LibraryTypeOK
<1>2. ASSUME obj[w].inotify = "null", obj' = [obj EXCEPT ![w].enabled = on]
      PROVE  Turns(w, obj[w].mask, obj[w].wd, "null", on)
  <2>1. obj' = [obj EXCEPT ![w].mask = obj[w].mask, ![w].wd = obj[w].wd,
                           ![w].inotify = "null", ![w].enabled = on]
    BY <1>1, <1>2 DEF LibraryTypeOK, WatchObject
  <2> QED BY <1>1, <2>1, FieldsTurn DEF WatchObject
<1> QED BY <1>2 DEF SetEnabledAside

LEMMA SetMaskDoes ==
  ASSUME LibraryTypeOK, NEW w \in Watch, obj[w] # NULL, NEW m \in SUBSET MaskBits,
         SetMask(w, m)
  PROVE  \E n \in SUBSET MaskBits :
           Turns(w, n, obj[w].wd, obj[w].inotify, obj[w].enabled)
<1>1. obj[w] \in WatchObject
  BY DEF LibraryTypeOK
<1>2. \E n \in {m, obj[w].mask} : obj' = [obj EXCEPT ![w].mask = n]
  <2>1. obj = [obj EXCEPT ![w].mask = obj[w].mask]
    BY <1>1 DEF LibraryTypeOK, WatchObject
  <2> QED BY <2>1 DEF SetMask
<1>3. PICK n \in {m, obj[w].mask} : obj' = [obj EXCEPT ![w].mask = n]
  BY <1>2
<1>4. obj' = [obj EXCEPT ![w].mask = n, ![w].wd = obj[w].wd,
                         ![w].inotify = obj[w].inotify, ![w].enabled = obj[w].enabled]
  BY <1>1, <1>3 DEF LibraryTypeOK, WatchObject
<1>5. /\ n \in SUBSET MaskBits /\ obj[w].wd \in Wd
      /\ obj[w].inotify \in {"null", "this", "wild"} /\ obj[w].enabled \in BOOLEAN
  BY <1>1, <1>3 DEF WatchObject
<1>6. Turns(w, n, obj[w].wd, obj[w].inotify, obj[w].enabled)
  BY <1>4, <1>5, FieldsTurn
<1> QED BY <1>5, <1>6

(* RemoveAll() and Close() part with the watches that are present. *)
LEMMA ClearedDoes ==
  ASSUME LibraryTypeOK, Constructed, Cleared
  PROVE  /\ obj' \in [Watch -> WatchObject \cup {NULL}]
         /\ \A d \in 1..MaxWd : m_watches'[d] = NULL
         /\ \A p \in Path : m_paths'[p] = NULL
         /\ \A w \in Watch : obj[w] # NULL =>
              /\ obj'[w] # NULL /\ obj'[w].path = obj[w].path
              /\ Present(w) => obj'[w].wd = NoWd /\ obj'[w].inotify = "null"
              /\ obj'[w] = obj[w] \/ (obj'[w].wd = NoWd /\ obj'[w].inotify = "null")
         /\ \A w \in Watch : obj'[w] # NULL => obj[w] # NULL
<1>1. obj' \in [Watch -> WatchObject \cup {NULL}]
  BY ReleasedType DEF Cleared
<1>2. ASSUME NEW w \in Watch, obj[w] # NULL
      PROVE  /\ obj'[w] # NULL /\ obj'[w].path = obj[w].path
             /\ Present(w) => obj'[w].wd = NoWd /\ obj'[w].inotify = "null"
             /\ obj'[w] = obj[w] \/ (obj'[w].wd = NoWd /\ obj'[w].inotify = "null")
  <2>1. obj[w] \in WatchObject /\ obj[w].path \in Path
    BY <1>2 DEF LibraryTypeOK, WatchObject
  <2>2. Present(w) => w \in Range(m_paths)
    BY <2>1 DEF Present, Range, LibraryTypeOK
  <2>3. obj'[w] = IF w \in Range(m_paths)
                  THEN [obj[w] EXCEPT !.wd = NoWd, !.inotify = "null"] ELSE obj[w]
    BY DEF Cleared, Released
  <2>4. [obj[w] EXCEPT !.wd = NoWd, !.inotify = "null"] \in WatchObject
    BY <2>1, WdType DEF WatchObject
  <2> QED BY <2>1, <2>2, <2>3, <2>4, LibraryAssumption DEF WatchObject
<1>3. ASSUME NEW w \in Watch, obj'[w] # NULL
      PROVE  obj[w] # NULL
  <2>1. CASE w \in Range(m_paths)
    BY <2>1, LibraryAssumption DEF Range, LibraryTypeOK, Constructed
  <2>2. CASE w \notin Range(m_paths)
    BY <1>3, <2>2 DEF Cleared, Released
  <2> QED BY <2>1, <2>2
<1> QED BY <1>1, <1>2, <1>3 DEF Cleared

-----------------------------------------------------------------------------
(* Whatever the client calls: types, and the watches that are found by path *)

(* A watch found by a path is for that path and has been told its owner. *)
Owned ==
  \A p \in Path : m_paths[p] # NULL =>
    /\ obj[m_paths[p]] # NULL
    /\ obj[m_paths[p]].path = p /\ obj[m_paths[p]].inotify = "this"

AnyInv == ClientTypeOK /\ Constructed /\ Owned

LEMMA MaskType == \A m \in Masks : m \in SUBSET MaskBits
BY DEF Masks, MaskBits

LEMMA RemovedType ==
  ASSUME NEW K \in KernelType, NEW d
  PROVE  Removed(K, d) \in KernelType
<1>1. K \in Fewer(K)
  BY DEF Fewer
<1> QED BY <1>1, RemovedFewer DEF Fewer

LEMMA RemoveType ==
  ASSUME CallTypeOK, NEW w \in Watch, obj[w] # NULL, RemoveWatch(w)
  PROVE  CallTypeOK'
<1>1. CASE RemoveRefused(w)
  BY <1>1 DEF RemoveRefused, CallTypeOK, LibraryTypeOK, libVars
<1>2. CASE RemoveAccepted(w)
  <2>1. obj' \in [Watch -> WatchObject \cup {NULL}]
    BY <1>2, RemoveDoes DEF Turns, CallTypeOK
  <2>2. kern' \in KernelType
    BY <1>2, RemovedType DEF RemoveAccepted, CallTypeOK
  <2> QED BY <1>2, <2>1, <2>2 DEF RemoveAccepted, CallTypeOK, LibraryTypeOK
<1> QED BY <1>1, <1>2 DEF RemoveWatch

LEMMA RemoveAllType ==
  ASSUME CallTypeOK, Constructed, RemoveAll
  PROVE  CallTypeOK'
<1>1. kern' \in KernelType
  BY AllRemovedFewer DEF CallTypeOK, Fewer
<1>2. Released \in [Watch -> WatchObject \cup {NULL}]
  BY ReleasedType DEF CallTypeOK
<1> QED BY <1>1, <1>2 DEF RemoveAll, Cleared, CallTypeOK, LibraryTypeOK

LEMMA SetEnabledType ==
  ASSUME CallTypeOK, KernelTypeOK, NEW w \in Watch, obj[w] # NULL, NEW on \in BOOLEAN,
         SetEnabled(w, on)
  PROVE  CallTypeOK'
<1>1. obj[w].path \in Path /\ obj[w].mask \in SUBSET MaskBits
  BY DEF CallTypeOK, LibraryTypeOK, WatchObject
<1>2. CASE SetEnabledAside(w, on)
  <2>1. obj' \in [Watch -> WatchObject \cup {NULL}]
    BY <1>2, AsideDoes DEF Turns, CallTypeOK, LibraryTypeOK
  <2>2. fault' \in {"none", "abort", "corrupt"}
    BY <1>2, AsideDoes DEF CallTypeOK, LibraryTypeOK
  <2>3. UNCHANGED <<m_watches, m_paths, m_buf, m_events, kern>>
    BY <1>2, AsideDoes DEF CallTypeOK
  <2> QED BY <2>1, <2>2, <2>3 DEF CallTypeOK, LibraryTypeOK
<1>3. CASE Enable(w)
  <2>1. obj' \in [Watch -> WatchObject \cup {NULL}]
    BY <1>3, EnableDoes DEF Turns, CallTypeOK
  <2>2. kern' \in KernelType
    BY <1>1, <1>3, AddedType DEF Enable, CallTypeOK
  <2> QED BY <1>3, <2>1, <2>2 DEF Enable, CallTypeOK, LibraryTypeOK
<1>4. CASE SwitchOff(w)
  <2>1. obj' \in [Watch -> WatchObject \cup {NULL}]
    BY <1>4, SwitchOffDoes DEF Turns, CallTypeOK
  <2>2. kern' \in KernelType
    BY <1>4, RemovedType DEF SwitchOff, CallTypeOK
  <2> QED BY <1>4, <2>1, <2>2 DEF SwitchOff, CallTypeOK, LibraryTypeOK
<1> QED BY <1>2, <1>3, <1>4 DEF SetEnabled

LEMMA SetMaskType ==
  ASSUME CallTypeOK, KernelTypeOK, NEW w \in Watch, obj[w] # NULL,
         NEW m \in SUBSET MaskBits, SetMask(w, m)
  PROVE  CallTypeOK'
<1>1. obj[w].path \in Path
  BY DEF CallTypeOK, LibraryTypeOK, WatchObject
<1>2. obj' \in [Watch -> WatchObject \cup {NULL}]
  BY SetMaskDoes DEF Turns, CallTypeOK
<1>3. kern' \in KernelType
  BY <1>1, AddedType DEF SetMask, CallTypeOK
<1> QED BY <1>2, <1>3 DEF SetMask, CallTypeOK, LibraryTypeOK

(* A call that leaves the table of paths alone keeps its watches as owned. *)
LEMMA PathsOwned ==
  ASSUME AnyInv, m_paths' = m_paths,
         \A v \in Watch : obj[v] # NULL /\ obj[v].inotify = "this" =>
           obj'[v] # NULL /\ obj'[v].path = obj[v].path /\ obj'[v].inotify = "this"
  PROVE  Owned'
<1>1. \A p \in Path : m_paths[p] \in Watch \cup {NULL}
  BY DEF AnyInv, ClientTypeOK, LibraryTypeOK
<1> QED BY <1>1 DEF AnyInv, Owned

(* What is in a table stays constructed, what a call enters is. *)
LEMMA StillConstructed ==
  ASSUME AnyInv, \A v \in Watch : obj[v] # NULL => obj'[v] # NULL,
         \A p \in Path : m_paths'[p] \in {m_paths[p], NULL} \/ obj'[m_paths'[p]] # NULL,
         \A d \in 1..MaxWd :
           m_watches'[d] \in {m_watches[d], NULL} \/ obj'[m_watches'[d]] # NULL
  PROVE  Constructed'
<1>1. /\ \A p \in Path : m_paths[p] \in Watch \cup {NULL}
      /\ \A d \in 1..MaxWd : m_watches[d] \in Watch \cup {NULL}
  BY DEF AnyInv, ClientTypeOK, LibraryTypeOK
<1> QED BY <1>1 DEF AnyInv, Constructed

LEMMA AnyInit == ClientInit => AnyInv
<1> SUFFICES ASSUME ClientInit PROVE AnyInv
  OBVIOUS
<1> USE DEF ClientInit, KernelInit, LibraryInit
<1>1. kern \in KernelType
  <2>1. <<>> \in Seq(KernelEvent) /\ 1 \in 1..(MaxWd + 1)
    BY EmptySeq, KernelAssumption
  <2> QED BY <2>1, WdType DEF KernelType
<1>2. KernelTypeOK
  BY <1>1, KernelAssumption DEF KernelTypeOK
<1>3. LibraryTypeOK
  BY EmptySeq DEF LibraryTypeOK
<1>4. Constructed /\ Owned
  BY DEF Constructed, Owned
<1> QED BY <1>2, <1>3, <1>4 DEF AnyInv, ClientTypeOK

(* Each of the calls, with the files as they are. *)
LEMMA AnyCall ==
  ASSUME AnyInv, Call
  PROVE  AnyInv'
<1>1. /\ CallTypeOK /\ KernelTypeOK /\ LibraryTypeOK /\ Constructed /\ Owned
      /\ UNCHANGED <<node, files, ops>>
  BY DEF AnyInv, ClientTypeOK, CallTypeOK, KernelTypeOK, Call
<1>2. CallTypeOK' => ClientTypeOK'
  BY <1>1 DEF CallTypeOK, ClientTypeOK, KernelTypeOK
<1>3. CASE Open
  <2>1. UNCHANGED <<obj, m_watches, m_paths>>
    BY <1>3 DEF Open, libVars
  <2>2. Constructed' /\ Owned'
    BY <1>1, <2>1 DEF Constructed, Owned
  <2> QED BY <1>1, <1>2, <1>3, <2>2, OpenType DEF AnyInv
<1>4. ASSUME NEW w \in Watch, NEW p \in Path, NEW m \in Masks, NEW e \in BOOLEAN,
             Construct(w, p, m, e)
      PROVE  AnyInv'
  <2>1. CallTypeOK'
    BY <1>1, <1>4, ConstructType, MaskType
  <2>2. /\ obj[w] = NULL /\ obj'[w] # NULL /\ \A v \in Watch \ {w} : obj'[v] = obj[v]
        /\ UNCHANGED <<m_watches, m_paths>>
    <3>1. PICK g \in {"null", "wild"} :
            obj' = [obj EXCEPT ![w] = [path |-> p, mask |-> m, wd |-> NoWd,
                                       inotify |-> g, enabled |-> e]]
      BY <1>4 DEF Construct
    <3>2. [path |-> p, mask |-> m, wd |-> NoWd, inotify |-> g, enabled |-> e] \in WatchObject
      BY MaskType, WdType DEF WatchObject
    <3> QED BY <1>1, <1>4, <3>1, <3>2, LibraryAssumption DEF Construct, LibraryTypeOK
  <2>3. Constructed'
    BY <2>2, StillConstructed
  <2>4. Owned'
    BY <2>2, PathsOwned
  <2> QED BY <1>2, <2>1, <2>3, <2>4 DEF AnyInv
<1>5. ASSUME NEW w \in Watch, obj[w] # NULL, Add(w)
      PROVE  AnyInv'
  <2>1. CallTypeOK'
    BY <1>1, <1>5, AddType
  <2>2. CASE AddRefused(w) \/ AddCollision(w)
    <3>1. UNCHANGED <<obj, m_watches, m_paths>>
      BY <2>2 DEF AddRefused, AddCollision, libVars
    <3> QED BY <1>1, <1>2, <2>1, <3>1 DEF AnyInv, Constructed, Owned
  <2>3. ASSUME NEW d, Turns(w, obj[w].mask, d, "this", obj[w].enabled),
               obj[w].path \in Path,
               \A p \in Path : m_paths'[p] = IF p = obj[w].path THEN w ELSE m_paths[p],
               \A c \in 1..MaxWd : m_watches'[c] \in {m_watches[c], w}
        PROVE  AnyInv'
    <3>1. \A v \in Watch : obj[v] # NULL =>
            /\ obj'[v] # NULL /\ obj'[v].path = obj[v].path
            /\ obj[v].inotify = "this" => obj'[v].inotify = "this"
      BY <2>3 DEF Turns
    <3>2. obj'[w].path = obj[w].path /\ obj'[w].inotify = "this" /\ obj'[w] # NULL
      BY <2>3 DEF Turns
    <3>3. Constructed'
      BY <2>3, <3>1, <3>2, StillConstructed
    <3>4. Owned'
      <4>1. \A p \in Path : m_paths[p] \in Watch \cup {NULL}
        BY <1>1 DEF LibraryTypeOK
      <4> QED BY <1>1, <2>3, <3>1, <3>2, <4>1 DEF Owned
    <3> QED BY <1>2, <2>1, <3>3, <3>4 DEF AnyInv
  <2>4. CASE AddDisabled(w)
    <3>1. obj[w].enabled = FALSE
      BY <1>1, <1>5, <2>4 DEF AddDisabled, LibraryTypeOK, WatchObject
    <3> QED BY <1>1, <1>5, <2>3, <2>4, <3>1, AddDisabledDoes
  <2>5. CASE AddEnabled(w)
    <3>1. obj[w].enabled = TRUE
      BY <1>1, <1>5, <2>5 DEF AddEnabled, LibraryTypeOK, WatchObject
    <3> QED BY <1>1, <1>5, <2>3, <2>5, <3>1, AddEnabledDoes
  <2> QED BY <1>5, <2>2, <2>4, <2>5 DEF Add
<1>6. ASSUME NEW w \in Watch, obj[w] # NULL, RemoveWatch(w)
      PROVE  AnyInv'
  <2>1. CallTypeOK'
    BY <1>1, <1>6, RemoveType
  <2>2. CASE RemoveRefused(w)
    <3>1. UNCHANGED <<obj, m_watches, m_paths>>
      BY <2>2 DEF RemoveRefused, libVars
    <3> QED BY <1>1, <1>2, <2>1, <3>1 DEF AnyInv, Constructed, Owned
  <2>3. CASE RemoveAccepted(w)
    <3>1. /\ Turns(w, obj[w].mask, NoWd, "null", obj[w].enabled)
          /\ \A p \in Path : m_paths'[p] = IF p = obj[w].path THEN NULL ELSE m_paths[p]
          /\ \A c \in 1..MaxWd : m_watches'[c] \in {m_watches[c], NULL}
      BY <1>1, <1>6, <2>3, RemoveDoes
    <3>2. Constructed'
      BY <3>1, StillConstructed DEF Turns
    <3>3. Owned'
      <4>1. \A p \in Path : m_paths'[p] # NULL =>
              m_paths'[p] = m_paths[p] /\ m_paths[p] \in Watch \ {w}
        BY <1>1, <3>1 DEF Owned, LibraryTypeOK
      <4> QED BY <1>1, <3>1, <4>1 DEF Owned, Turns
    <3> QED BY <1>2, <2>1, <3>2, <3>3 DEF AnyInv
  <2> QED BY <1>6, <2>2, <2>3 DEF RemoveWatch
<1>7. ASSUME NEW w \in Watch, NEW on \in BOOLEAN, obj[w] # NULL, SetEnabled(w, on)
      PROVE  AnyInv'
  <2>1. CallTypeOK'
    BY <1>1, <1>7, SetEnabledType
  <2>2. \A v \in Watch : obj[v] # NULL =>
          /\ obj'[v] # NULL /\ obj'[v].path = obj[v].path
          /\ obj[v].inotify = "this" => obj'[v].inotify = "this"
    <3>1. \/ UNCHANGED obj
          \/ \E d, e : Turns(w, obj[w].mask, d, "this", e)
          \/ \E e : obj[w].inotify = "null" /\ Turns(w, obj[w].mask, obj[w].wd, "null", e)
      <4>1. CASE SetEnabledAside(w, on)
        BY <1>1, <1>7, <4>1, AsideDoes
      <4>2. CASE Enable(w)
        BY <1>1, <1>7, <4>2, EnableDoes
      <4>3. CASE SwitchOff(w)
        BY <1>1, <1>7, <4>3, SwitchOffDoes
      <4> QED BY <1>7, <4>1, <4>2, <4>3 DEF SetEnabled
    <3>2. ASSUME NEW d, NEW i, NEW e, Turns(w, obj[w].mask, d, i, e),
                 obj[w].inotify = "this" => i = "this"
          PROVE  \A v \in Watch : obj[v] # NULL =>
                   /\ obj'[v] # NULL /\ obj'[v].path = obj[v].path
                   /\ obj[v].inotify = "this" => obj'[v].inotify = "this"
      BY <3>2 DEF Turns
    <3>3. CASE UNCHANGED obj
      BY <3>3
    <3>4. CASE \E d, e : Turns(w, obj[w].mask, d, "this", e)
      BY <3>2, <3>4
    <3>5. CASE \E e : obj[w].inotify = "null" /\ Turns(w, obj[w].mask, obj[w].wd, "null", e)
      BY <3>2, <3>5
    <3> QED BY <3>1, <3>3, <3>4, <3>5
  <2>3. m_paths' = m_paths
    BY <1>7 DEF SetEnabled, SetEnabledAside, Enable, SwitchOff
  <2>4. \A c \in 1..MaxWd : m_watches'[c] \in {m_watches[c], NULL, w}
    <3>1. CASE SetEnabledAside(w, on)
      BY <3>1 DEF SetEnabledAside
    <3>2. CASE Enable(w)
      BY <1>1, <1>7, <3>2, EnableDoes
    <3>3. CASE SwitchOff(w)
      BY <1>1, <1>7, <3>3, SwitchOffDoes
    <3> QED BY <1>7, <3>1, <3>2, <3>3 DEF SetEnabled
  <2>5. Constructed'
    BY <1>7, <2>2, <2>3, <2>4, StillConstructed
  <2>6. Owned'
    BY <2>2, <2>3, PathsOwned
  <2> QED BY <1>2, <2>1, <2>5, <2>6 DEF AnyInv
<1>8. ASSUME NEW w \in Watch, NEW m \in Masks, obj[w] # NULL, SetMask(w, m)
      PROVE  AnyInv'
  <2>1. CallTypeOK'
    BY <1>1, <1>8, SetMaskType, MaskType
  <2>2. PICK n \in SUBSET MaskBits :
          Turns(w, n, obj[w].wd, obj[w].inotify, obj[w].enabled)
    BY <1>1, <1>8, SetMaskDoes, MaskType
  <2>3. UNCHANGED <<m_watches, m_paths>>
    BY <1>8 DEF SetMask
  <2>4. Constructed' /\ Owned'
    BY <2>2, <2>3, StillConstructed, PathsOwned DEF Turns
  <2> QED BY <1>2, <2>1, <2>4 DEF AnyInv
<1>9. CASE RemoveAll \/ Close
  <2>1. CallTypeOK'
    BY <1>1, <1>9, RemoveAllType, CloseType
  <2>2. Cleared
    BY <1>9 DEF RemoveAll, Close
  <2>3. Constructed' /\ Owned'
    BY <1>1, <2>2, ClearedDoes DEF Constructed, Owned
  <2> QED BY <1>2, <2>1, <2>3 DEF AnyInv
<1>10. CASE GetEvent \/ ReadEvents
  <2>1. CallTypeOK'
    BY <1>1, <1>10, GetEventType, ReadEventsType
  <2>2. UNCHANGED <<obj, m_watches, m_paths>>
    BY <1>10 DEF GetEvent, ReadEvents
  <2> QED BY <1>1, <1>2, <2>1, <2>2 DEF AnyInv, Constructed, Owned
<1> QED BY <1>3, <1>4, <1>5, <1>6, <1>7, <1>8, <1>9, <1>10 DEF Call, Removable

LEMMA AnyParse ==
  ASSUME AnyInv, Parse
  PROVE  AnyInv'
<1> DEFINE e == Head(m_buf)
           w == FindWatch(e.wd)
<1>1. /\ CallTypeOK /\ KernelTypeOK /\ LibraryTypeOK /\ Constructed /\ ParseEvent
      /\ UNCHANGED <<node, files, ops, m_paths>>
  BY DEF AnyInv, ClientTypeOK, CallTypeOK, KernelTypeOK, Parse, ParseEvent
<1>2. CallTypeOK'
  BY <1>1, ParseEventType
<1>3. \/ UNCHANGED <<obj, m_watches>>
      \/ w \in Watch /\ obj[w] # NULL /\ Disable(w)
  BY <1>1, FindWatchType DEF ParseEvent, FindWatch, Constructed
<1>4. CASE UNCHANGED <<obj, m_watches>>
  BY <1>1, <1>2, <1>4
     DEF AnyInv, Constructed, Owned, CallTypeOK, ClientTypeOK, KernelTypeOK
<1>5. CASE w \in Watch /\ obj[w] # NULL /\ Disable(w)
  <2>2. \E d : Turns(w, obj[w].mask, d, obj[w].inotify, FALSE)
    BY <1>1, <1>5, DisableDoes
  <2>3. \A c \in 1..MaxWd : m_watches'[c] \in {m_watches[c], NULL}
    BY <1>1, <1>5 DEF Disable, LibraryTypeOK
  <2> HIDE DEF w
  <2>4. Constructed' /\ Owned'
    BY <1>1, <2>2, <2>3, StillConstructed, PathsOwned DEF Turns
  <2> QED BY <1>1, <1>2, <2>4 DEF AnyInv, CallTypeOK, ClientTypeOK, KernelTypeOK
<1> QED BY <1>3, <1>4, <1>5

LEMMA AnyStep ==
  ASSUME AnyInv, [ClientNext]_clientVars
  PROVE  AnyInv'
<1>1. CASE Call
  BY <1>1, AnyCall
<1>2. CASE Parse
  BY <1>2, AnyParse
<1>3. CASE Others
  <2>1. KernelTypeOK'
    BY <1>3, FileSystemType DEF Others, AnyInv, ClientTypeOK
  <2>2. UNCHANGED <<obj, m_watches, m_paths, m_buf, m_events, fault>>
    BY <1>3 DEF Others, libVars
  <2> QED BY <2>1, <2>2 DEF AnyInv, ClientTypeOK, LibraryTypeOK, Constructed, Owned
<1>4. CASE UNCHANGED clientVars
  BY <1>4 DEF clientVars, kernelVars, libVars, AnyInv, ClientTypeOK, KernelTypeOK,
              LibraryTypeOK, Constructed, Owned
<1> QED BY <1>1, <1>2, <1>3, <1>4 DEF ClientNext

(* Whatever a client of one thread calls, kernel and library keep their    *)
(* types: no call leaves a null pointer where a watch is expected          *)
(* (inotify-cxx.cpp:337-640).                                              *)
THEOREM LibraryTypeCorrect == ClientSpec => []ClientTypeOK
<1>1. ClientInit => AnyInv
  BY AnyInit
<1>2. AnyInv /\ [ClientNext]_clientVars => AnyInv'
  BY AnyStep
<1>3. AnyInv => ClientTypeOK
  BY DEF AnyInv
<1> QED BY <1>1, <1>2, <1>3, PTL DEF ClientSpec

-----------------------------------------------------------------------------
(* A client that removes only watches that are present                     *)

(* A watch found by a descriptor is enabled, carries that descriptor and is *)
(* found by its path.                                                      *)
Filed ==
  \A d \in 1..MaxWd : m_watches[d] # NULL =>
    LET o == obj[m_watches[d]]
    IN /\ o # NULL
       /\ o.enabled /\ o.wd = d /\ o.inotify = "this"
       /\ m_paths[o.path] = m_watches[d]

EnabledHasWd ==
  \A w \in Watch :
    obj[w] # NULL /\ obj[w].inotify = "this" /\ obj[w].enabled => obj[w].wd # NoWd

LawfulInv == AnyInv /\ Filed /\ AddedIsPresent /\ EnabledHasWd

(* Watches are told apart by their paths. *)
LEMMA PresentApart ==
  ASSUME LibraryTypeOK, NEW v \in Watch, NEW w \in Watch, v # w, obj[v] # NULL,
         Present(v), Present(w) \/ m_paths[obj[w].path] = NULL
  PROVE  obj[v].path # obj[w].path
BY LibraryAssumption DEF Present

(* Watch w comes to have descriptor d, owner i and state e; the tables      *)
(* follow it and have what they had of the other watches.                  *)
TablesFollow(w, d, i, e) ==
  /\ \A v \in Watch \ {w} : obj[v] # NULL /\ Present(v) =>
       m_paths'[obj[v].path] = m_paths[obj[v].path]
  /\ i = "this" => m_paths'[obj[w].path] = w /\ (e => d # NoWd)
  /\ \A c \in 1..MaxWd :
       \/ m_watches'[c] = m_watches[c] /\ m_watches[c] # w
       \/ m_watches'[c] = NULL
       \/ m_watches'[c] = w /\ c = d /\ i = "this" /\ e

LEMMA OthersKeep ==
  ASSUME LawfulInv, NEW w \in Watch, NEW m, NEW d, NEW i, NEW e, obj[w] # NULL,
         Turns(w, m, d, i, e), TablesFollow(w, d, i, e)
  PROVE  Filed' /\ AddedIsPresent' /\ EnabledHasWd'
<1> USE DEF TablesFollow
<1>1. /\ obj'[w] # NULL /\ obj'[w].path = obj[w].path /\ obj'[w].inotify = i
      /\ obj'[w].wd = d /\ obj'[w].enabled = e
      /\ \A v \in Watch \ {w} : obj'[v] = obj[v]
  BY DEF Turns
<1>2. AddedIsPresent'
  <2> SUFFICES ASSUME NEW v \in Watch, obj'[v] # NULL, obj'[v].inotify = "this"
               PROVE  m_paths'[obj'[v].path] = v
    BY DEF AddedIsPresent, Present
  <2>1. CASE v = w
    BY <1>1, <2>1
  <2>2. CASE v # w
    <3>1. obj[v] # NULL /\ obj[v].inotify = "this" /\ obj'[v] = obj[v]
      BY <1>1, <2>2
    <3>2. Present(v)
      BY <3>1 DEF LawfulInv, AddedIsPresent
    <3> QED BY <2>2, <3>1, <3>2 DEF Present
  <2> QED BY <2>1, <2>2
<1>3. Filed'
  <2> SUFFICES ASSUME NEW c \in 1..MaxWd, m_watches'[c] # NULL
               PROVE  LET o == obj'[m_watches'[c]]
                      IN /\ o # NULL
                         /\ o.enabled /\ o.wd = c /\ o.inotify = "this"
                         /\ m_paths'[o.path] = m_watches'[c]
    BY DEF Filed
  <2>1. CASE m_watches'[c] = w /\ c = d /\ i = "this" /\ e
    BY <1>1, <2>1
  <2>2. CASE m_watches'[c] = m_watches[c] /\ m_watches[c] # w
    <3> DEFINE v == m_watches[c]
    <3>1. v \in Watch \ {w} /\ v # NULL
      BY <2>2 DEF LawfulInv, AnyInv, ClientTypeOK, LibraryTypeOK
    <3>2. /\ obj[v] # NULL /\ obj[v].enabled /\ obj[v].wd = c /\ obj[v].inotify = "this"
          /\ m_paths[obj[v].path] = v
      BY <3>1 DEF LawfulInv, Filed
    <3>3. obj'[v] = obj[v] /\ m_paths'[obj[v].path] = v
      BY <1>1, <3>1, <3>2 DEF Present
    <3> QED BY <2>2, <3>2, <3>3
  <2> QED BY <2>1, <2>2
<1>4. EnabledHasWd'
  <2> SUFFICES ASSUME NEW v \in Watch, obj'[v] # NULL, obj'[v].inotify = "this",
                      obj'[v].enabled
               PROVE  obj'[v].wd # NoWd
    BY DEF EnabledHasWd
  <2>1. CASE v = w
    BY <1>1, <2>1
  <2>2. CASE v # w
    BY <1>1, <2>2 DEF LawfulInv, EnabledHasWd
  <2> QED BY <2>1, <2>2
<1> QED BY <1>2, <1>3, <1>4

LEMMA LawfulInit == ClientInit => LawfulInv
BY AnyInit DEF ClientInit, LibraryInit, LawfulInv, Filed, AddedIsPresent, EnabledHasWd

LEMMA LawfulCall ==
  ASSUME LawfulInv, Call, Lawful
  PROVE  LawfulInv'
<1> DEFINE Rest == Filed /\ AddedIsPresent /\ EnabledHasWd
<1>1. /\ AnyInv /\ LibraryTypeOK /\ KernelTypeOK /\ Constructed /\ Owned /\ Filed
      /\ AddedIsPresent /\ EnabledHasWd
      /\ m_watches \in [1..MaxWd -> Watch \cup {NULL}]
  BY DEF LawfulInv, AnyInv, ClientTypeOK, LibraryTypeOK
<1>2. SUFFICES Rest'
  BY AnyCall DEF LawfulInv
<1>3. CASE UNCHANGED <<obj, m_watches, m_paths>>
  BY <1>1, <1>3 DEF Filed, AddedIsPresent, EnabledHasWd, Present
<1>4. ASSUME NEW w \in Watch, NEW p \in Path, NEW m \in Masks, NEW e \in BOOLEAN,
             Construct(w, p, m, e)
      PROVE  Rest'
  <2>1. PICK g \in {"null", "wild"} :
          obj' = [obj EXCEPT ![w] = [path |-> p, mask |-> m, wd |-> NoWd,
                                     inotify |-> g, enabled |-> e]]
    BY <1>4 DEF Construct
  <2>2. /\ obj[w] = NULL /\ obj'[w].inotify # "this"
        /\ \A v \in Watch \ {w} : obj'[v] = obj[v]
        /\ UNCHANGED <<m_watches, m_paths>>
    BY <1>1, <1>4, <2>1 DEF Construct, LibraryTypeOK
  <2> QED BY <1>1, <2>2 DEF Filed, AddedIsPresent, EnabledHasWd, Present
(* A watch without an owner that is not in the table by descriptor. *)
<1>5. ASSUME NEW w \in Watch, obj[w] # NULL, ~obj[w].enabled \/ obj[w].inotify # "this"
      PROVE  \A c \in 1..MaxWd : m_watches[c] # w
  BY <1>1, <1>5, LibraryAssumption DEF Filed
<1>6. ASSUME NEW w \in Watch, obj[w] # NULL, AddDisabled(w)
      PROVE  Rest'
  <2>1. /\ Turns(w, obj[w].mask, obj[w].wd, "this", FALSE)
        /\ obj[w].path \in Path /\ m_paths[obj[w].path] = NULL
        /\ \A p \in Path : m_paths'[p] = IF p = obj[w].path THEN w ELSE m_paths[p]
        /\ m_watches' = m_watches /\ ~obj[w].enabled
    BY <1>1, <1>6, AddDisabledDoes DEF AddDisabled
  <2>2. \A v \in Watch \ {w} : obj[v] # NULL /\ Present(v) =>
          m_paths'[obj[v].path] = m_paths[obj[v].path]
    BY <1>1, <2>1, PresentApart DEF LibraryTypeOK, WatchObject
  <2>3. \A c \in 1..MaxWd : m_watches'[c] = m_watches[c] /\ m_watches[c] # w
    BY <1>5, <1>6, <2>1
  <2>4. TablesFollow(w, obj[w].wd, "this", FALSE)
    BY <2>1, <2>2, <2>3 DEF TablesFollow
  <2> QED BY <1>6, <2>1, <2>4, OthersKeep
<1>7. ASSUME NEW w \in Watch, obj[w] # NULL, AddEnabled(w)
      PROVE  Rest'
  <2> DEFINE d == AddedWd(kern, obj[w].path)
  <2>1. /\ d \in 1..MaxWd /\ d # NoWd
        /\ Turns(w, obj[w].mask, d, "this", TRUE)
        /\ obj[w].path \in Path /\ m_paths[obj[w].path] = NULL
        /\ \A p \in Path : m_paths'[p] = IF p = obj[w].path THEN w ELSE m_paths[p]
        /\ \A c \in 1..MaxWd : m_watches'[c] = IF c = d THEN w ELSE m_watches[c]
    BY <1>1, <1>7, AddEnabledDoes
  <2> HIDE DEF d
  <2>2. \A v \in Watch \ {w} : obj[v] # NULL /\ Present(v) =>
          m_paths'[obj[v].path] = m_paths[obj[v].path]
    BY <1>1, <2>1, PresentApart DEF LibraryTypeOK, WatchObject
  <2>3. obj[w].inotify # "this"
    BY <1>1, <1>7, <2>1, LibraryAssumption DEF AddedIsPresent, Present
  <2>4. \A c \in 1..MaxWd :
          \/ m_watches'[c] = m_watches[c] /\ m_watches[c] # w
          \/ m_watches'[c] = w /\ c = d
    BY <1>5, <1>7, <2>1, <2>3
  <2>5. TablesFollow(w, d, "this", TRUE)
    BY <2>1, <2>2, <2>4 DEF TablesFollow
  <2> QED BY <1>7, <2>1, <2>5, OthersKeep
<1>8. ASSUME NEW w \in Watch, obj[w] # NULL, Present(w), RemoveAccepted(w)
      PROVE  Rest'
  <2>1. /\ Turns(w, obj[w].mask, NoWd, "null", obj[w].enabled)
        /\ \A p \in Path : m_paths'[p] = IF p = obj[w].path THEN NULL ELSE m_paths[p]
        /\ \A c \in 1..MaxWd : m_watches'[c] = IF c = obj[w].wd THEN NULL ELSE m_watches[c]
    BY <1>1, <1>8, RemoveDoes
  <2>2. \A v \in Watch \ {w} : obj[v] # NULL /\ Present(v) =>
          m_paths'[obj[v].path] = m_paths[obj[v].path]
    BY <1>1, <1>8, <2>1, PresentApart DEF LibraryTypeOK, WatchObject
  <2>3. \A c \in 1..MaxWd : m_watches[c] = w => c = obj[w].wd
    BY <1>1, LibraryAssumption DEF Filed
  <2>4. \A c \in 1..MaxWd :
          \/ m_watches'[c] = m_watches[c] /\ m_watches[c] # w
          \/ m_watches'[c] = NULL
    BY <2>1, <2>3
  <2>5. TablesFollow(w, NoWd, "null", obj[w].enabled)
    BY <2>2, <2>4 DEF TablesFollow
  <2> QED BY <1>8, <2>1, <2>5, OthersKeep
<1>9. ASSUME NEW w \in Watch, NEW on \in BOOLEAN, obj[w] # NULL, SetEnabledAside(w, on)
      PROVE  Rest'
  <2>1. CASE UNCHANGED obj
    BY <1>3, <1>9, <2>1 DEF SetEnabledAside
  <2>2. CASE obj[w].inotify = "null" /\ Turns(w, obj[w].mask, obj[w].wd, "null", on)
    <3>1. UNCHANGED <<m_watches, m_paths>>
      BY <1>9 DEF SetEnabledAside
    <3>2. \A c \in 1..MaxWd : m_watches[c] # w
      BY <1>5, <1>9, <2>2
    <3>3. TablesFollow(w, obj[w].wd, "null", on)
      BY <3>1, <3>2 DEF TablesFollow
    <3> QED BY <1>9, <2>2, <3>3, OthersKeep
  <2> QED BY <1>1, <1>9, <2>1, <2>2, AsideDoes
<1>10. ASSUME NEW w \in Watch, obj[w] # NULL, Enable(w)
       PROVE  Rest'
  <2> DEFINE d == AddedWd(kern, obj[w].path)
  <2>1. /\ d \in 1..MaxWd /\ d # NoWd
        /\ Turns(w, obj[w].mask, d, "this", TRUE)
        /\ m_paths' = m_paths
        /\ \A c \in 1..MaxWd : m_watches'[c] =
             IF c = d /\ m_watches[d] = NULL THEN w ELSE m_watches[c]
    BY <1>1, <1>10, EnableDoes
  <2> HIDE DEF d
  <2>2. m_paths[obj[w].path] = w /\ ~obj[w].enabled
    BY <1>1, <1>10 DEF Enable, AddedIsPresent, Present
  <2>3. \A c \in 1..MaxWd : m_watches[c] # w
    BY <1>5, <1>10, <2>2
  <2>4. \A c \in 1..MaxWd :
          \/ m_watches'[c] = m_watches[c] /\ m_watches[c] # w
          \/ m_watches'[c] = w /\ c = d
    BY <2>1, <2>3
  <2>5. TablesFollow(w, d, "this", TRUE)
    BY <2>1, <2>2, <2>4 DEF TablesFollow
  <2> QED BY <1>10, <2>1, <2>5, OthersKeep
<1>11. ASSUME NEW w \in Watch, obj[w] # NULL, SwitchOff(w)
       PROVE  Rest'
  <2>1. /\ Turns(w, obj[w].mask, NoWd, "this", FALSE)
        /\ m_paths' = m_paths
        /\ \A c \in 1..MaxWd : m_watches'[c] = IF c = obj[w].wd THEN NULL ELSE m_watches[c]
    BY <1>1, <1>11, SwitchOffDoes
  <2>2. m_paths[obj[w].path] = w
    BY <1>1, <1>11 DEF SwitchOff, AddedIsPresent, Present
  <2>3. \A c \in 1..MaxWd : m_watches[c] = w => c = obj[w].wd
    BY <1>1, LibraryAssumption DEF Filed
  <2>4. TablesFollow(w, NoWd, "this", FALSE)
    BY <2>1, <2>2, <2>3 DEF TablesFollow
  <2> QED BY <1>11, <2>1, <2>4, OthersKeep
<1>12. ASSUME NEW w \in Watch, NEW m \in Masks, obj[w] # NULL, SetMask(w, m)
       PROVE  Rest'
  <2>1. PICK n \in SUBSET MaskBits :
          Turns(w, n, obj[w].wd, obj[w].inotify, obj[w].enabled)
    BY <1>1, <1>12, SetMaskDoes, MaskType
  <2>2. UNCHANGED <<m_watches, m_paths>>
    BY <1>12 DEF SetMask
  <2>3. obj[w].inotify = "this" =>
          m_paths[obj[w].path] = w /\ (obj[w].enabled => obj[w].wd # NoWd)
    BY <1>1, <1>12 DEF AddedIsPresent, EnabledHasWd, Present
  <2>4. \A c \in 1..MaxWd :
          m_watches[c] = w => c = obj[w].wd /\ obj[w].inotify = "this" /\ obj[w].enabled
    BY <1>1, LibraryAssumption DEF Filed
  <2>5. TablesFollow(w, obj[w].wd, obj[w].inotify, obj[w].enabled)
    BY <2>2, <2>3, <2>4 DEF TablesFollow
  <2> QED BY <1>12, <2>1, <2>5, OthersKeep
<1>13. CASE Cleared
  <2>1. \A w \in Watch : obj'[w] # NULL /\ obj'[w].inotify = "this" => FALSE
    BY <1>1, <1>13, ClearedDoes DEF AddedIsPresent
  <2>2. \A d \in 1..MaxWd : m_watches'[d] = NULL
    BY <1>1, <1>13, ClearedDoes
  <2> QED BY <2>1, <2>2 DEF Filed, AddedIsPresent, EnabledHasWd
<1>14. ASSUME NEW w \in Watch, obj[w] # NULL, Add(w)
       PROVE  Rest'
  <2>1. CASE AddRefused(w) \/ AddCollision(w)
    BY <1>3, <2>1 DEF AddRefused, AddCollision, libVars
  <2> QED BY <1>6, <1>7, <1>14, <2>1 DEF Add
<1>15. ASSUME NEW w \in Watch, Removable(w), RemoveWatch(w)
       PROVE  Rest'
  <2>1. CASE RemoveRefused(w)
    BY <1>3, <2>1 DEF RemoveRefused, libVars
  <2> QED BY <1>8, <1>15, <2>1 DEF RemoveWatch, Removable
<1>16. ASSUME NEW w \in Watch, NEW on \in BOOLEAN, obj[w] # NULL, SetEnabled(w, on)
       PROVE  Rest'
  BY <1>9, <1>10, <1>11, <1>16 DEF SetEnabled
<1>17. CASE Open \/ GetEvent \/ ReadEvents
  BY <1>3, <1>17 DEF Open, GetEvent, ReadEvents, libVars
<1>18. CASE RemoveAll \/ Close
  BY <1>13, <1>18 DEF RemoveAll, Close
<1> HIDE DEF Rest
<1> QED BY <1>4, <1>12, <1>14, <1>15, <1>16, <1>17, <1>18 DEF Call, Removable

(* The watch an event is for is the one to be disabled by it.              *)
LEMMA LawfulParse ==
  ASSUME LawfulInv, Parse
  PROVE  LawfulInv'
<1> DEFINE e == Head(m_buf)
           w == FindWatch(e.wd)
<1>1. /\ LibraryTypeOK /\ Filed /\ AddedIsPresent /\ EnabledHasWd /\ ParseEvent
      /\ m_paths' = m_paths
  BY DEF LawfulInv, AnyInv, ClientTypeOK, Parse, ParseEvent
<1>2. SUFFICES Filed' /\ AddedIsPresent' /\ EnabledHasWd'
  BY AnyParse DEF LawfulInv
<1>3. CASE UNCHANGED <<obj, m_watches>>
  BY <1>1, <1>3 DEF Filed, AddedIsPresent, EnabledHasWd, Present
<1>4. CASE w # NULL /\ Disable(w)
  <2>1. /\ e.wd \in 1..MaxWd /\ w = m_watches[e.wd] /\ w \in Watch
        /\ obj[w] # NULL /\ obj[w].enabled /\ obj[w].wd = e.wd
        /\ obj[w].inotify = "this" /\ m_paths[obj[w].path] = w
        /\ obj[w].inotify # "null" /\ obj[w].wd # NoWd
    BY <1>1, <1>4 DEF FindWatch, Filed, LibraryTypeOK, NoWd
  <2> HIDE DEF w
  <2>3. \A c \in 1..MaxWd : m_watches'[c] = IF c = obj[w].wd THEN NULL ELSE m_watches[c]
    BY <1>1, <1>4, <2>1 DEF Disable, LibraryTypeOK
  <2>4. Turns(w, obj[w].mask, NoWd, "this", FALSE)
    <3>1. Turns(w, obj[w].mask, IF obj[w].inotify # "null" THEN NoWd ELSE obj[w].wd,
                obj[w].inotify, FALSE)
      BY <1>1, <1>4, <2>1, DisableDoes
    <3> QED BY <2>1, <3>1
  <2>5. \A c \in 1..MaxWd : m_watches[c] = w => c = obj[w].wd
    BY <1>1, <2>1, LibraryAssumption DEF Filed
  <2>6. TablesFollow(w, NoWd, "this", FALSE)
    BY <1>1, <2>1, <2>3, <2>5 DEF TablesFollow
  <2> QED BY <2>1, <2>4, <2>6, OthersKeep
<1> QED BY <1>1, <1>3, <1>4 DEF ParseEvent

LEMMA LawfulStep ==
  ASSUME LawfulInv, [ClientNext]_clientVars, Lawful
  PROVE  LawfulInv'
<1>1. CASE Others \/ UNCHANGED clientVars
  <2>1. UNCHANGED <<obj, m_watches, m_paths>>
    BY <1>1 DEF Others, libVars, clientVars
  <2> QED BY <2>1, AnyStep
          DEF LawfulInv, Filed, AddedIsPresent, EnabledHasWd, Present
<1> QED BY <1>1, LawfulCall, LawfulParse DEF ClientNext

LEMMA LawfulInvariant ==
  ASSUME Lawful
  PROVE  ClientSpec => []LawfulInv
<1>1. LawfulInv /\ [ClientNext]_clientVars => LawfulInv'
  BY LawfulStep
<1> QED BY LawfulInit, <1>1, PTL DEF ClientSpec

(* A client that removes only watches that are present finds every watch   *)
(* it added and did not remove (inotify-cxx.h:571-573), whatever else it   *)
(* calls and whatever the kernel drops.                                    *)
THEOREM AddedStays ==
  ASSUME Lawful
  PROVE  ClientSpec => []AddedIsPresent
<1>1. LawfulInv => AddedIsPresent
  BY DEF LawfulInv
<1> QED BY <1>1, LawfulInvariant, PTL

(* No event can make __Disable() throw (inotify-cxx.cpp:287-290, 459-461): *)
(* a watch in the table of descriptors is enabled.                         *)
THEOREM EventsForEnabledOnly ==
  ASSUME Lawful
  PROVE  ClientSpec => []NoEventWhenDisabled
<1>1. LawfulInv => NoEventWhenDisabled
  BY DEF LawfulInv, Filed, NoEventWhenDisabled, ParseThrows, FindWatch
<1> QED BY <1>1, LawfulInvariant, PTL

-----------------------------------------------------------------------------
(* The end of a watch is heard                                             *)

Ending(d) == [wd |-> d, type |-> "IN_IGNORED", name |-> NoName]

(* The kernel still watches for d, or will tell that it does not. *)
Told(K, d) ==
  \/ IsWatchedWd(K, d)
  \/ Overflow \in Range(K.queue) \/ Ending(d) \in Range(K.queue)

Hears(K, L) ==
  /\ \A d : Told(K, d) => Told(L, d)
  /\ Overflow \in Range(K.queue) => Overflow \in Range(L.queue)

LEMMA AppendRange ==
  ASSUME NEW S, NEW q \in Seq(S), NEW e \in S
  PROVE  Range(Append(q, e)) = Range(q) \cup {e}
<1>1. /\ Append(q, e) \in Seq(S) /\ Len(Append(q, e)) = Len(q) + 1 /\ Len(q) \in Nat
      /\ Append(q, e)[Len(q) + 1] = e
      /\ \A x \in 1..Len(q) : Append(q, e)[x] = q[x]
  BY AppendProperties, LenProperties
<1>2. DOMAIN Append(q, e) = 1..(Len(q) + 1) /\ DOMAIN q = 1..Len(q)
  BY <1>1
<1> QED BY <1>1, <1>2 DEF Range

LEMMA QueuedHears ==
  ASSUME NEW K \in KernelType, NEW e \in KernelEvent
  PROVE  /\ Hears(K, Queued(K, e)) /\ Queued(K, e).wd = K.wd
         /\ Overflow \in Range(Queued(K, e).queue) \/ e \in Range(Queued(K, e).queue)
<1>1. K.queue \in Seq(KernelEvent) /\ Overflow \in KernelEvent
  BY WdType DEF KernelType, Overflow, KernelEvent
<1>2. ASSUME NEW x \in KernelEvent
      PROVE  LET L == [K EXCEPT !.queue = Append(@, x)]
             IN  L.wd = K.wd /\ Range(L.queue) = Range(K.queue) \cup {x}
  <2>1. [K EXCEPT !.queue = Append(@, x)].queue = Append(K.queue, x)
    BY DEF KernelType
  <2>2. [K EXCEPT !.queue = Append(@, x)].wd = K.wd
    BY DEF KernelType
  <2>3. Range(Append(K.queue, x)) = Range(K.queue) \cup {x}
    BY <1>1, AppendRange
  <2> QED BY <2>1, <2>2, <2>3
<1>3. CASE Queued(K, e) = K
  <2>1. Overflow \in Range(K.queue) \/ e \in Range(K.queue)
    <3>1. CASE Len(K.queue) >= MaxQueued
      <4>1. K.queue # Append(K.queue, Overflow)
        BY <1>1, AppendProperties, LenProperties
      <4>2. Overflow \in Range(K.queue)
        <5> SUFFICES ASSUME Overflow \notin Range(K.queue) PROVE FALSE
          OBVIOUS
        <5>1. Queued(K, e) = [K EXCEPT !.queue = Append(@, Overflow)]
          BY <3>1 DEF Queued
        <5> QED BY <1>3, <4>1, <5>1 DEF KernelType
      <4> QED BY <4>2
    <3>2. CASE ~(Len(K.queue) >= MaxQueued)
      <4>1. K.queue # Append(K.queue, e)
        BY <1>1, AppendProperties, LenProperties
      <4>2. K.queue # <<>> /\ Last(K.queue) = e
        <5> SUFFICES ASSUME ~(K.queue # <<>> /\ Last(K.queue) = e) PROVE FALSE
          OBVIOUS
        <5>1. Queued(K, e) = [K EXCEPT !.queue = Append(@, e)]
          BY <3>2 DEF Queued
        <5> QED BY <1>3, <4>1, <5>1 DEF KernelType
      <4>3. Len(K.queue) \in DOMAIN K.queue
        BY <1>1, <4>2, EmptySeq, LenProperties
      <4> QED BY <4>2, <4>3 DEF Last, Range
    <3> QED BY <3>1, <3>2
  <2> QED BY <1>3, <2>1 DEF Hears
<1>4. ASSUME NEW x \in {e, Overflow}, Queued(K, e) = [K EXCEPT !.queue = Append(@, x)]
      PROVE  /\ Hears(K, Queued(K, e)) /\ Queued(K, e).wd = K.wd
             /\ Overflow \in Range(Queued(K, e).queue) \/ e \in Range(Queued(K, e).queue)
  <2>1. Queued(K, e).wd = K.wd /\ Range(Queued(K, e).queue) = Range(K.queue) \cup {x}
    BY <1>1, <1>2, <1>4
  <2> QED BY <2>1 DEF Hears, Told, IsWatchedWd
<1> QED BY <1>3, <1>4 DEF Queued

LEMMA ForgottenHears ==
  ASSUME NEW K \in KernelType, NEW j \in Inode
  PROVE  Hears(K, Forgotten(K, j))
<1> DEFINE M == [K EXCEPT !.wd[j] = NoWd, !.mask[j] = {}]
           L == Queued(M, Ending(K.wd[j]))
<1>1. M \in KernelType /\ Ending(K.wd[j]) \in KernelEvent
  BY WdType DEF KernelType, KernelEvent, Ending
<1>2. M.queue = K.queue /\ \A l \in Inode \ {j} : M.wd[l] = K.wd[l]
  BY DEF KernelType
<1> HIDE DEF M
<1>3. Hears(M, L) /\ (Overflow \in Range(L.queue) \/ Ending(K.wd[j]) \in Range(L.queue))
  BY <1>1, QueuedHears
<1>4. Forgotten(K, j) = L
  BY DEF Forgotten, Ending, M
<1> HIDE DEF L
<1>5. ASSUME NEW d, Told(K, d)
      PROVE  Told(L, d)
  <2>1. CASE d = K.wd[j]
    BY <1>3, <2>1 DEF Told
  <2>2. CASE d # K.wd[j]
    <3>1. Told(M, d)
      BY <1>2, <1>5, <2>2 DEF Told, IsWatchedWd
    <3> QED BY <1>3, <3>1 DEF Hears
  <2> QED BY <2>1, <2>2
<1>6. Overflow \in Range(K.queue) => Overflow \in Range(L.queue)
  BY <1>2, <1>3 DEF Hears
<1> QED BY <1>4, <1>5, <1>6 DEF Hears

LEMMA EmittedHears ==
  ASSUME NEW K \in KernelType, NEW j \in Inode, NEW t \in ListingEvents, NEW n \in Name
  PROVE  Hears(K, Emitted(K, j, t, n))
<1> DEFINE e == [wd |-> K.wd[j], type |-> t, name |-> n]
<1>1. e \in KernelEvent
  BY DEF KernelType, KernelEvent
<1>2. Queued(K, e) \in KernelType /\ Hears(K, Queued(K, e))
  BY <1>1, QueuedType, QueuedHears
<1>3. Hears(Queued(K, e), Forgotten(Queued(K, e), j))
  BY <1>2, ForgottenHears
<1>4. Hears(K, K)
  BY DEF Hears
<1> HIDE DEF e
<1>5. Hears(K, Forgotten(Queued(K, e), j))
  BY <1>2, <1>3 DEF Hears
<1> QED BY <1>2, <1>4, <1>5 DEF Emitted, e

LEMMA RemovedHears ==
  ASSUME NEW K \in KernelType, NEW d
  PROVE  Hears(K, Removed(K, d))
<1>1. CASE IsWatchedWd(K, d)
  <2>1. (CHOOSE i \in Inode : K.wd[i] = d) \in Inode
    BY <1>1 DEF IsWatchedWd
  <2> QED BY <1>1, <2>1, ForgottenHears DEF Removed
<1>2. CASE ~IsWatchedWd(K, d)
  BY <1>2 DEF Removed, Hears
<1> QED BY <1>1, <1>2

LEMMA AddedHears ==
  ASSUME KernelTypeOK, NEW K \in KernelType, NEW p \in Path, NEW m \in SUBSET MaskBits
  PROVE  /\ Hears(K, Added(K, p, m))
         /\ AddedWd(K, p) # NoWd => Told(Added(K, p, m), AddedWd(K, p))
<1> DEFINE d == AddedWd(K, p)
           L == Added(K, p, m)
<1>1. CASE d = NoWd
  BY <1>1 DEF Added, Hears
<1>2. CASE d # NoWd
  <2>1. node[p] \in Inode
    BY <1>2, AddedWdType
  <2>2. L.queue = K.queue /\ L.wd = [K.wd EXCEPT ![node[p]] = d]
    BY <1>2 DEF Added, KernelType
  <2>3. K.wd[node[p]] \in {d, NoWd} /\ K.wd \in [Inode -> Wd]
    BY <1>2 DEF AddedWd, KernelType
  <2> HIDE DEF d, L
  <2>4. \A c : IsWatchedWd(K, c) => IsWatchedWd(L, c)
    BY <2>1, <2>2, <2>3 DEF IsWatchedWd
  <2>5. IsWatchedWd(L, d)
    BY <1>2, <2>1, <2>2, <2>3 DEF IsWatchedWd
  <2>6. Hears(K, L) /\ Told(L, d)
    BY <2>2, <2>4, <2>5 DEF Hears, Told
  <2> QED BY <2>6 DEF d, L
<1> QED BY <1>1, <1>2

LEMMA FileSystemHears ==
  ASSUME KernelTypeOK, FileSystem
  PROVE  Hears(kern, kern')
<1>1. kern \in KernelType /\ Hears(kern, kern)
  BY DEF KernelTypeOK, Hears
<1>2. ASSUME NEW i \in Inode, NEW n \in Name,
             Create(i, n) \/ Delete(i, n) \/ MoveIn(i, n) \/ MoveOut(i, n)
      PROVE  Hears(kern, kern')
  <2>1. \A t \in ListingEvents : Hears(kern, Emitted(kern, i, t, n))
    BY <1>1, EmittedHears
  <2> QED BY <1>2, <2>1 DEF Create, Delete, MoveIn, MoveOut, ListingEvents
<1>3. ASSUME NEW i \in Inode, NEW a \in Name, NEW b \in Name, Rename(i, a, b)
      PROVE  Hears(kern, kern')
  <2> DEFINE K1 == Emitted(kern, i, "IN_MOVED_FROM", a)
  <2>1. K1 \in KernelType /\ Hears(kern, K1)
    BY <1>1, EmittedType, EmittedHears DEF ListingEvents
  <2> HIDE DEF K1
  <2>2. Hears(K1, Emitted(K1, i, "IN_MOVED_TO", b))
    BY <2>1, EmittedHears DEF ListingEvents
  <2>3. Hears(kern, Emitted(K1, i, "IN_MOVED_TO", b))
    BY <2>1, <2>2 DEF Hears
  <2> QED BY <1>3, <2>3 DEF Rename, K1
<1>4. ASSUME NEW i \in Inode, RemoveDir(i)
      PROVE  Hears(kern, kern')
  BY <1>1, <1>4, ForgottenHears DEF RemoveDir
<1>5. ASSUME NEW p \in Path, NEW i \in Inode, Retarget(p, i)
      PROVE  Hears(kern, kern')
  BY <1>1, <1>5 DEF Retarget
<1> QED BY <1>2, <1>3, <1>4, <1>5 DEF FileSystem

LEMMA ConcatRange ==
  ASSUME NEW S, NEW q \in Seq(S), NEW r \in Seq(S)
  PROVE  Range(q \o r) = Range(q) \cup Range(r)
<1>1. /\ Len(q) \in Nat /\ Len(r) \in Nat /\ Len(q \o r) = Len(q) + Len(r)
      /\ \A x \in 1..(Len(q) + Len(r)) :
           (q \o r)[x] = IF x <= Len(q) THEN q[x] ELSE r[x - Len(q)]
  BY ConcatProperties, LenProperties
<1>2. /\ DOMAIN q = 1..Len(q) /\ DOMAIN r = 1..Len(r)
      /\ DOMAIN (q \o r) = 1..(Len(q) + Len(r))
  BY <1>1, ConcatProperties, LenProperties
<1>3. ASSUME NEW e \in Range(q \o r)
      PROVE  e \in Range(q) \cup Range(r)
  BY <1>1, <1>2 DEF Range
<1>4. ASSUME NEW e \in Range(q)
      PROVE  e \in Range(q \o r)
  BY <1>1, <1>2 DEF Range
<1>5. ASSUME NEW e \in Range(r)
      PROVE  e \in Range(q \o r)
  <2>1. PICK x \in 1..Len(r) : e = r[x]
    BY <1>2 DEF Range
  <2>2. /\ x + Len(q) \in 1..(Len(q) + Len(r)) /\ ~(x + Len(q) <= Len(q))
        /\ (x + Len(q)) - Len(q) = x
    BY <1>1
  <2>3. (q \o r)[x + Len(q)] = e
    BY <1>1, <2>1, <2>2
  <2> QED BY <1>2, <2>2, <2>3 DEF Range
<1> QED BY <1>3, <1>4, <1>5

(* What is read at once and what stays queued. *)
LEMMA SplitRange ==
  ASSUME NEW S, NEW q \in Seq(S), NEW n \in 0..Len(q)
  PROVE  Range(q) \subseteq Range(SubSeq(q, 1, n)) \cup Range(SubSeq(q, n + 1, Len(q)))
<1>1. Len(q) \in Nat /\ DOMAIN q = 1..Len(q)
  BY LenProperties
<1>2. /\ DOMAIN SubSeq(q, 1, n) = 1..n
      /\ \A x \in 1..n : SubSeq(q, 1, n)[x] = q[x]
  BY <1>1
<1>3. /\ DOMAIN SubSeq(q, n + 1, Len(q)) = 1..(Len(q) - n)
      /\ \A x \in 1..(Len(q) - n) : SubSeq(q, n + 1, Len(q))[x] = q[x + n]
  BY <1>1
<1>4. ASSUME NEW x \in 1..Len(q), x > n
      PROVE  q[x] \in Range(SubSeq(q, n + 1, Len(q)))
  <2>1. x - n \in 1..(Len(q) - n) /\ (x - n) + n = x
    BY <1>1, <1>4
  <2> QED BY <1>3, <2>1 DEF Range
<1>5. ASSUME NEW x \in 1..Len(q), ~(x > n)
      PROVE  q[x] \in Range(SubSeq(q, 1, n))
  <2>1. x \in 1..n
    BY <1>1, <1>5
  <2> QED BY <1>2, <2>1 DEF Range
<1> QED BY <1>1, <1>4, <1>5 DEF Range

LEMMA HeadTailRange ==
  ASSUME NEW S, NEW q \in Seq(S), q # <<>>
  PROVE  Range(q) \subseteq {Head(q)} \cup Range(Tail(q)) /\ Head(q) \in Range(q)
<1>1. /\ Len(q) \in Nat \ {0} /\ DOMAIN q = 1..Len(q) /\ Head(q) = q[1]
      /\ DOMAIN Tail(q) = 1..(Len(q) - 1)
      /\ \A x \in 1..(Len(q) - 1) : Tail(q)[x] = q[x + 1]
  BY EmptySeq, LenProperties, HeadTailProperties
<1>2. ASSUME NEW x \in 1..Len(q), x # 1
      PROVE  q[x] \in Range(Tail(q))
  <2>1. x - 1 \in 1..(Len(q) - 1) /\ (x - 1) + 1 = x
    BY <1>1, <1>2
  <2> QED BY <1>1, <2>1 DEF Range
<1> QED BY <1>1, <1>2 DEF Range

(* The news of the end of d has been read and waits for its turn. *)
Pending(d) == Overflow \in Range(m_buf) \/ Ending(d) \in Range(m_buf)

Heard ==
  \A d \in 1..MaxWd : m_watches[d] # NULL => Told(kern, d) \/ Pending(d)

LEMMA HeardIs ==
  ASSUME LibraryTypeOK, KernelTypeOK
  PROVE  Heard <=> EndOfWatchIsHeard
<1>1. m_buf \in Seq(KernelEvent) /\ kern.queue \in Seq(KernelEvent)
  BY DEF LibraryTypeOK, KernelTypeOK, KernelType
<1>2. Range(m_buf \o kern.queue) = Range(m_buf) \cup Range(kern.queue)
  BY <1>1, ConcatRange
<1>3. Range(m_buf) \subseteq KernelEvent /\ Range(kern.queue) \subseteq KernelEvent
  BY <1>1, ElementOfSeq, LenProperties DEF Range
<1>4. \A e \in KernelEvent, d \in 1..MaxWd :
        e = Ending(d) <=> e.wd = d /\ e.type = "IN_IGNORED"
  BY DEF KernelEvent, Ending, Overflow, ListingEvents
<1>5. \A d \in 1..MaxWd :
        Told(kern, d) \/ Pending(d) <=>
          \/ IsWatchedWd(kern, d)
          \/ \E e \in Range(m_buf) \cup Range(kern.queue) :
               e = Overflow \/ (e.wd = d /\ e.type = "IN_IGNORED")
  BY <1>3, <1>4 DEF Told, Pending
<1> QED BY <1>2, <1>5 DEF Heard, EndOfWatchIsHeard

(* A step that takes no event from the buffer, and enters a watch only by a *)
(* descriptor the kernel has, leaves no end unheard.                       *)
LEMMA StillHeard ==
  ASSUME Heard, Hears(kern, kern'), m_buf' = m_buf,
         \A d \in 1..MaxWd : m_watches'[d] # NULL =>
           m_watches[d] # NULL \/ Told(kern', d)
  PROVE  Heard'
BY DEF Heard, Hears, Pending

LEMMA HeardCall ==
  ASSUME LawfulInv, Heard, Call
  PROVE  Heard'
<1>1. /\ KernelTypeOK /\ LibraryTypeOK /\ Constructed /\ kern \in KernelType /\ m_buf = <<>>
      /\ Hears(kern, kern)
  BY DEF LawfulInv, AnyInv, ClientTypeOK, KernelTypeOK, Call, Hears
<1>2. ASSUME NEW w \in Watch, obj[w] # NULL
      PROVE  obj[w].path \in Path /\ obj[w].mask \in SUBSET MaskBits
  BY <1>1, <1>2 DEF LibraryTypeOK, WatchObject
<1>3. CASE UNCHANGED <<m_watches, m_buf>> /\ Hears(kern, kern')
  BY <1>3, StillHeard
<1>4. CASE Open
  <2>1. kern'.wd = kern.wd /\ kern'.queue = kern.queue
    BY <1>1, <1>4 DEF Open, KernelType
  <2>2. Hears(kern, kern')
    BY <2>1 DEF Hears, Told, IsWatchedWd
  <2> QED BY <1>3, <1>4, <2>2 DEF Open, libVars
<1>5. ASSUME NEW w \in Watch, obj[w] # NULL, Add(w)
      PROVE  Heard'
  <2>1. CASE AddRefused(w) \/ AddDisabled(w)
    BY <1>1, <1>3, <2>1 DEF AddRefused, AddDisabled, libVars
  <2>2. CASE AddCollision(w)
    <3> DEFINE K == Added(kern, obj[w].path, obj[w].mask)
               v == FindWatch(AddedWd(kern, obj[w].path))
    <3>1. v \in Watch /\ obj[v] # NULL
      BY <1>1, <2>2, FindWatchType DEF AddCollision, FindWatch, Constructed
    <3>2. K \in KernelType /\ Hears(kern, K)
      BY <1>1, <1>2, <1>5, AddedType, AddedHears
    <3>3. kern' = Added(K, obj[v].path, obj[v].mask)
      BY <2>2 DEF AddCollision
    <3> HIDE DEF K, v
    <3>4. Hears(K, kern')
      BY <1>1, <1>2, <3>1, <3>2, <3>3, AddedHears
    <3>5. Hears(kern, kern')
      BY <3>2, <3>4 DEF Hears
    <3> QED BY <1>3, <2>2, <3>5 DEF AddCollision, libVars
  <2>3. CASE AddEnabled(w)
    <3> DEFINE d == AddedWd(kern, obj[w].path)
    <3>1. /\ kern' = Added(kern, obj[w].path, obj[w].mask) /\ m_buf' = m_buf /\ d # NoWd
          /\ \A c \in 1..MaxWd : m_watches'[c] = IF c = d THEN w ELSE m_watches[c]
      BY <1>1, <1>5, <2>3, AddEnabledDoes DEF AddEnabled
    <3>2. Hears(kern, kern') /\ Told(kern', d)
      BY <1>1, <1>2, <1>5, <3>1, AddedHears
    <3> HIDE DEF d
    <3> QED BY <3>1, <3>2, StillHeard
  <2> QED BY <1>5, <2>1, <2>2, <2>3 DEF Add
<1>6. ASSUME NEW w \in Watch, obj[w] # NULL, RemoveWatch(w)
      PROVE  Heard'
  <2>1. CASE RemoveRefused(w)
    BY <1>1, <1>3, <2>1 DEF RemoveRefused, libVars
  <2>2. CASE RemoveAccepted(w)
    <3>1. \A c \in 1..MaxWd : m_watches'[c] = IF c = obj[w].wd THEN NULL ELSE m_watches[c]
      BY <1>1, <1>6, <2>2, RemoveDoes
    <3>2. Hears(kern, kern') /\ m_buf' = m_buf
      BY <1>1, <2>2, RemovedHears DEF RemoveAccepted
    <3> QED BY <3>1, <3>2, StillHeard
  <2> QED BY <1>6, <2>1, <2>2 DEF RemoveWatch
<1>7. ASSUME NEW w \in Watch, NEW on \in BOOLEAN, obj[w] # NULL, SetEnabled(w, on)
      PROVE  Heard'
  <2>1. CASE SetEnabledAside(w, on)
    BY <1>1, <1>3, <2>1 DEF SetEnabledAside
  <2>2. CASE Enable(w)
    <3> DEFINE d == AddedWd(kern, obj[w].path)
    <3>1. /\ kern' = Added(kern, obj[w].path, obj[w].mask) /\ m_buf' = m_buf /\ d # NoWd
          /\ \A c \in 1..MaxWd : m_watches'[c] =
               IF c = d /\ m_watches[d] = NULL THEN w ELSE m_watches[c]
      BY <1>1, <1>7, <2>2, EnableDoes DEF Enable
    <3>2. Hears(kern, kern') /\ Told(kern', d)
      BY <1>1, <1>2, <1>7, <3>1, AddedHears
    <3> HIDE DEF d
    <3> QED BY <3>1, <3>2, StillHeard
  <2>3. CASE SwitchOff(w)
    <3>1. \A c \in 1..MaxWd : m_watches'[c] = IF c = obj[w].wd THEN NULL ELSE m_watches[c]
      BY <1>1, <1>7, <2>3, SwitchOffDoes
    <3>2. Hears(kern, kern') /\ m_buf' = m_buf
      BY <1>1, <2>3, RemovedHears DEF SwitchOff
    <3> QED BY <3>1, <3>2, StillHeard
  <2> QED BY <1>7, <2>1, <2>2, <2>3 DEF SetEnabled
<1>8. ASSUME NEW w \in Watch, NEW m \in Masks, obj[w] # NULL, SetMask(w, m)
      PROVE  Heard'
  <2>1. Hears(kern, Added(kern, obj[w].path, m))
    BY <1>1, <1>2, <1>8, MaskType, AddedHears
  <2> QED BY <1>1, <1>3, <1>8, <2>1 DEF SetMask
<1>9. CASE RemoveAll \/ Close
  <2>1. \A d \in 1..MaxWd : m_watches'[d] = NULL
    BY <1>1, <1>9, ClearedDoes DEF RemoveAll, Close
  <2> QED BY <2>1 DEF Heard
<1>10. CASE ReadEvents
  <2> DEFINE q == kern.queue
             n == IF Len(q) < BufLen THEN Len(q) ELSE BufLen
  <2>1. q \in Seq(KernelEvent) /\ n \in 0..Len(q)
    BY <1>1, LenProperties, LibraryAssumption DEF KernelType
  <2>2. /\ m_buf' = SubSeq(q, 1, n) /\ kern'.queue = SubSeq(q, n + 1, Len(q))
        /\ kern'.wd = kern.wd /\ m_watches' = m_watches
    BY <1>1, <1>10 DEF ReadEvents, KernelType
  <2> HIDE DEF q, n
  <2>3. Range(q) \subseteq Range(m_buf') \cup Range(kern'.queue)
    BY <2>1, <2>2, SplitRange
  <2>4. \A d : ~Pending(d)
    BY <1>1 DEF Pending, Range
  <2>5. ASSUME NEW d, Told(kern, d)
        PROVE  Told(kern', d) \/ Pending(d)'
    BY <2>2, <2>3, <2>5 DEF Told, Pending, IsWatchedWd, q
  <2> QED BY <2>2, <2>4, <2>5 DEF Heard
<1>11. ASSUME NEW w \in Watch, NEW p, NEW m, NEW e, Construct(w, p, m, e)
       PROVE  Heard'
  BY <1>1, <1>3, <1>11 DEF Construct
<1>12. CASE GetEvent
  BY <1>1, <1>3, <1>12 DEF GetEvent
<1> QED BY <1>4, <1>5, <1>6, <1>7, <1>8, <1>9, <1>10, <1>11, <1>12 DEF Call, Removable

(* The turn of an end strikes the watch from the table of descriptors. *)
LEMMA HeardParse ==
  ASSUME LawfulInv, Heard, Overflow \notin Range(m_buf), Parse
  PROVE  Heard'
<1> DEFINE e == Head(m_buf)
           w == FindWatch(e.wd)
<1>1. /\ LibraryTypeOK /\ Filed /\ m_buf \in Seq(KernelEvent) /\ m_buf # <<>>
      /\ kern' = kern /\ ParseEvent
  BY DEF LawfulInv, AnyInv, ClientTypeOK, LibraryTypeOK, Parse, ParseEvent
<1>2. ~ParseThrows
  BY <1>1 DEF Filed, ParseThrows, FindWatch
<1>3. Range(m_buf) \subseteq {e} \cup Range(m_buf')
  BY <1>1, <1>2, HeadTailRange DEF ParseEvent
<1>4. ASSUME NEW d \in 1..MaxWd, m_watches'[d] # NULL
      PROVE  m_watches[d] # NULL /\ e # Ending(d)
  <2>1. CASE UNCHANGED m_watches /\ (w = NULL \/ ~LastEvent(w, e))
    <3>1. e = Ending(d) => w = m_watches[d] /\ LastEvent(w, e)
      BY DEF Ending, FindWatch, LastEvent
    <3> QED BY <1>4, <2>1, <3>1
  <2>2. CASE w # NULL /\ Disable(w)
    <3>1. /\ e.wd \in 1..MaxWd /\ w = m_watches[e.wd] /\ obj[w].wd = e.wd
          /\ obj[w].inotify # "null" /\ obj[w].wd # NoWd
      BY <1>1, <2>2 DEF FindWatch, Filed, NoWd
    <3>2. m_watches' = [m_watches EXCEPT ![e.wd] = NULL]
      BY <2>2, <3>1 DEF Disable
    <3>3. d # e.wd /\ m_watches'[d] = m_watches[d]
      BY <1>1, <1>4, <3>1, <3>2 DEF LibraryTypeOK
    <3>4. e # Ending(d)
      BY <3>3 DEF Ending
    <3> QED BY <1>4, <3>3, <3>4
  <2> QED BY <1>1, <1>2, <2>1, <2>2 DEF ParseEvent
<1> HIDE DEF e
<1>5. ASSUME NEW d \in 1..MaxWd, m_watches'[d] # NULL
      PROVE  Told(kern', d) \/ Pending(d)'
  BY <1>1, <1>3, <1>4, <1>5 DEF Heard, Pending
<1> QED BY <1>5 DEF Heard

(* A watch the library takes for live is live in the kernel, or the news   *)
(* of its end is on the way: it can always be removed or enabled again     *)
(* (inotify-cxx.cpp:402, 459-461).  The client removes only watches that   *)
(* are present, and the kernel's mark that it lost events never comes: the *)
(* library drops that mark, and the end it stood for is never heard.       *)
THEOREM EndsAreHeard ==
  ASSUME Lawful
  PROVE  ClientSpec /\ [](Overflow \notin Range(m_buf)) => []EndOfWatchIsHeard
<1> DEFINE P == Overflow \notin Range(m_buf)
<1>1. ClientInit => LawfulInv /\ Heard
  BY LawfulInit DEF ClientInit, LibraryInit, Heard
<1>2. LawfulInv /\ Heard /\ P /\ [ClientNext]_clientVars => LawfulInv' /\ Heard'
  <2> SUFFICES ASSUME LawfulInv, Heard, P, [ClientNext]_clientVars
               PROVE  Heard'
    BY LawfulStep
  <2>1. CASE Others
    <3>1. Hears(kern, kern')
      BY <2>1, FileSystemHears DEF Others, LawfulInv, AnyInv, ClientTypeOK
    <3> QED BY <2>1, <3>1, StillHeard DEF Others, libVars
  <2>2. CASE UNCHANGED clientVars
    BY <2>2 DEF clientVars, kernelVars, libVars, Heard, Pending
  <2> QED BY <2>1, <2>2, HeardCall, HeardParse DEF ClientNext
<1>3. LawfulInv /\ Heard => EndOfWatchIsHeard
  BY HeardIs DEF LawfulInv, AnyInv, ClientTypeOK
<1> HIDE DEF P
<1>4. ClientSpec /\ []P => []EndOfWatchIsHeard
  BY <1>1, <1>2, <1>3, PTL DEF ClientSpec
<1> QED BY <1>4 DEF P

-----------------------------------------------------------------------------
(* As long as no directory has two paths                                   *)

(* A descriptor is one directory's, and is not handed out again. *)
OneWatchEach(K) ==
  \A i, j \in Inode :
    K.wd[i] # NoWd => K.wd[i] < K.next /\ (K.wd[i] = K.wd[j] => i = j)

(* The kernel goes from K to L and keeps its old descriptors where they are. *)
Ages(K, L) ==
  /\ K.next <= L.next /\ OneWatchEach(L)
  /\ \A d \in 1..MaxWd, j \in Inode : d < K.next /\ L.wd[j] = d => K.wd[j] = d

(* A descriptor in the table was handed out, and is of the directory that  *)
(* the path of its watch names.                                            *)
InPlace ==
  \A d \in 1..MaxWd : m_watches[d] # NULL =>
    /\ d < kern.next
    /\ \A j \in Inode : kern.wd[j] = d => node[obj[m_watches[d]].path] = j

Indexed ==
  \A w \in Watch : obj[w] # NULL /\ obj[w].wd # NoWd => m_watches[obj[w].wd] = w

ApartInv ==
  LawfulInv /\ OneWatchEach(kern) /\ InPlace /\ (PathsApart => Indexed)

LEMMA FewerAges ==
  ASSUME NEW K \in KernelType, OneWatchEach(K), NEW L \in Fewer(K)
  PROVE  Ages(K, L)
<1>1. /\ L.next = K.next /\ K.next \in Nat
      /\ \A j \in Inode : L.wd[j] \in {K.wd[j], NoWd}
  BY KernelAssumption DEF Fewer, KernelType
<1>2. OneWatchEach(L)
  BY <1>1 DEF OneWatchEach
<1>3. \A d \in 1..MaxWd : d # NoWd
  BY DEF NoWd
<1> QED BY <1>1, <1>2, <1>3 DEF Ages

LEMMA AddedAges ==
  ASSUME KernelTypeOK, NEW K \in KernelType, OneWatchEach(K),
         NEW p \in Path, NEW m \in SUBSET MaskBits
  PROVE  /\ Ages(K, Added(K, p, m))
         /\ AddedWd(K, p) # NoWd =>
              /\ node[p] \in Inode /\ Added(K, p, m).wd[node[p]] = AddedWd(K, p)
              /\ AddedWd(K, p) < Added(K, p, m).next
<1> DEFINE d == AddedWd(K, p)
           L == Added(K, p, m)
<1>1. K.next \in Nat /\ K.wd \in [Inode -> Wd]
  BY KernelAssumption DEF KernelType
<1>2. CASE d = NoWd
  <2>1. L = K
    BY <1>2 DEF Added
  <2> QED BY <1>1, <1>2, <2>1 DEF Ages
<1>3. CASE d # NoWd
  <2>1. node[p] \in Inode /\ d \in 1..MaxWd
    BY <1>3, AddedWdType
  <2>2. /\ L.wd = [K.wd EXCEPT ![node[p]] = d]
        /\ L.next = IF d = K.next THEN K.next + 1 ELSE K.next
    BY <1>3 DEF Added, KernelType
  <2>3. \/ d = K.wd[node[p]] /\ d < K.next
        \/ d = K.next
    BY <1>3, <2>1 DEF AddedWd, OneWatchEach
  <2> HIDE DEF d, L
  <2>4. /\ L.wd[node[p]] = d /\ d < L.next /\ K.next <= L.next /\ L.next \in Nat
        /\ \A j \in Inode \ {node[p]} : L.wd[j] = K.wd[j]
    BY <1>1, <2>1, <2>2, <2>3
  <2>5. \A j \in Inode : K.wd[j] # NoWd => K.wd[j] < K.next /\ K.wd[j] \in Nat
    BY <1>1, WdType DEF OneWatchEach
  <2>6. \A j \in Inode \ {node[p]} : K.wd[j] # d
    BY <1>1, <1>3, <2>1, <2>3, <2>5 DEF OneWatchEach
  <2>7. OneWatchEach(L)
    BY <1>1, <2>1, <2>4, <2>5, <2>6 DEF OneWatchEach
  <2>8. \A c \in 1..MaxWd, j \in Inode : c < K.next /\ L.wd[j] = c => K.wd[j] = c
    BY <1>1, <2>1, <2>3, <2>4
  <2> QED BY <2>1, <2>4, <2>7, <2>8 DEF Ages, d, L
<1> QED BY <1>2, <1>3

LEMMA AgesOn ==
  ASSUME NEW K \in KernelType, NEW L \in KernelType, NEW M \in KernelType,
         Ages(K, L), Ages(L, M)
  PROVE  Ages(K, M)
<1>1. K.next \in Nat /\ L.next \in Nat /\ M.next \in Nat
  BY KernelAssumption DEF KernelType
<1> QED BY <1>1 DEF Ages

LEMMA EmittedFewer ==
  ASSUME NEW K \in KernelType, NEW L \in Fewer(K), NEW j \in Inode,
         NEW t \in ListingEvents, NEW n \in Name
  PROVE  Emitted(L, j, t, n) \in Fewer(K)
<1> DEFINE e == [wd |-> L.wd[j], type |-> t, name |-> n]
<1>1. e \in KernelEvent
  BY DEF Fewer, KernelType, KernelEvent
<1> HIDE DEF e
<1>2. Queued(L, e) \in Fewer(K) /\ Forgotten(Queued(L, e), j) \in Fewer(K)
  BY <1>1, QueuedFewer, ForgottenFewer
<1> QED BY <1>2 DEF Emitted, e

(* Without a path that comes to name another directory, other programs end *)
(* watches, and take directories from paths.                               *)
LEMMA FileSystemFewer ==
  ASSUME KernelTypeOK, FileSystem, "retarget" \notin FsOps
  PROVE  /\ kern' \in Fewer(kern)
         /\ \A p \in Path : node'[p] \in {node[p], NoInode}
         /\ \A p, q \in Path : node[p] = node[q] => node'[p] = node'[q]
         /\ \A p \in Path, j \in Inode :
              kern'.wd[j] # NoWd /\ node[p] = j => node'[p] = j
<1>1. kern \in KernelType /\ kern \in Fewer(kern)
  BY DEF KernelTypeOK, Fewer
<1>2. CASE node' = node /\ kern' \in Fewer(kern)
  BY <1>2
<1>3. ASSUME NEW i \in Inode, NEW n \in Name,
             Create(i, n) \/ Delete(i, n) \/ MoveIn(i, n) \/ MoveOut(i, n)
      PROVE  node' = node /\ kern' \in Fewer(kern)
  <2>1. \A t \in ListingEvents : Emitted(kern, i, t, n) \in Fewer(kern)
    BY <1>1, EmittedFewer
  <2> QED BY <1>3, <2>1 DEF Create, Delete, MoveIn, MoveOut, ListingEvents
<1>4. ASSUME NEW i \in Inode, NEW a \in Name, NEW b \in Name, Rename(i, a, b)
      PROVE  node' = node /\ kern' \in Fewer(kern)
  <2>1. Emitted(kern, i, "IN_MOVED_FROM", a) \in Fewer(kern)
    BY <1>1, EmittedFewer DEF ListingEvents
  <2>2. Emitted(Emitted(kern, i, "IN_MOVED_FROM", a), i, "IN_MOVED_TO", b) \in Fewer(kern)
    BY <1>1, <2>1, EmittedFewer DEF ListingEvents
  <2> QED BY <1>4, <2>2 DEF Rename
<1>5. ASSUME NEW i \in Inode, RemoveDir(i)
      PROVE  /\ kern' \in Fewer(kern) /\ kern'.wd[i] = NoWd
             /\ node' = [p \in Path |-> IF node[p] = i THEN NoInode ELSE node[p]]
  <2>1. kern' \in Fewer(kern)
    BY <1>1, <1>5, ForgottenFewer DEF RemoveDir
  <2>2. kern.wd[i] = NoWd => kern'.wd[i] = NoWd
    BY <1>5 DEF RemoveDir
  <2>3. ASSUME kern.wd[i] # NoWd
        PROVE  kern'.wd[i] = NoWd
    <3> DEFINE M == [kern EXCEPT !.wd[i] = NoWd, !.mask[i] = {}]
               e == [wd |-> kern.wd[i], type |-> "IN_IGNORED", name |-> NoName]
    <3>1. M \in KernelType /\ e \in KernelEvent /\ M.wd[i] = NoWd
      BY <1>1, WdType DEF KernelType, KernelEvent
    <3>2. kern' = Queued(M, e)
      BY <1>5, <2>3 DEF RemoveDir, Forgotten
    <3> HIDE DEF M, e
    <3>3. kern'.wd = M.wd
      BY <3>1, <3>2, QueuedHears
    <3> QED BY <3>1, <3>3
  <2> QED BY <1>5, <2>1, <2>2, <2>3 DEF RemoveDir
<1>6. ASSUME NEW i \in Inode, RemoveDir(i)
      PROVE  /\ kern' \in Fewer(kern)
             /\ \A p \in Path : node'[p] \in {node[p], NoInode}
             /\ \A p, q \in Path : node[p] = node[q] => node'[p] = node'[q]
             /\ \A p \in Path, j \in Inode :
                  kern'.wd[j] # NoWd /\ node[p] = j => node'[p] = j
  BY <1>5, <1>6
<1> QED BY <1>2, <1>3, <1>4, <1>6 DEF FileSystem, Retarget

(* The directories as they are: what a call enters is in its place. *)
LEMMA StillInPlace ==
  ASSUME LibraryTypeOK, KernelTypeOK, kern' \in KernelType, InPlace, Ages(kern, kern'),
         node' = node, PathsKept, Constructed,
         \A d \in 1..MaxWd : m_watches'[d] # NULL =>
           \/ m_watches'[d] = m_watches[d]
           \/ /\ d < kern'.next /\ node[obj'[m_watches'[d]].path] \in Inode
              /\ kern'.wd[node[obj'[m_watches'[d]].path]] = d
  PROVE  InPlace' /\ OneWatchEach(kern')
<1>1. kern.next \in Nat /\ kern'.next \in Nat /\ kern.next <= kern'.next
  BY KernelAssumption DEF KernelTypeOK, KernelType, Ages
<1>2. ASSUME NEW d \in 1..MaxWd, m_watches'[d] # NULL, m_watches'[d] = m_watches[d]
      PROVE  /\ d < kern'.next
             /\ \A j \in Inode : kern'.wd[j] = d => node'[obj'[m_watches'[d]].path] = j
  <2>1. m_watches[d] \in Watch /\ obj[m_watches[d]] # NULL
    BY <1>2 DEF LibraryTypeOK, Constructed
  <2>2. obj'[m_watches[d]].path = obj[m_watches[d]].path
    BY <2>1 DEF PathsKept
  <2>3. d < kern.next /\ \A j \in Inode : kern.wd[j] = d => node[obj[m_watches[d]].path] = j
    BY <1>2 DEF InPlace
  <2>4. \A j \in Inode : kern'.wd[j] = d => kern.wd[j] = d
    BY <2>3 DEF Ages
  <2>5. d < kern'.next
    BY <1>1, <2>3
  <2> QED BY <1>2, <2>2, <2>3, <2>4, <2>5
<1>3. ASSUME NEW d \in 1..MaxWd, d < kern'.next, node[obj'[m_watches'[d]].path] \in Inode,
             kern'.wd[node[obj'[m_watches'[d]].path]] = d
      PROVE  \A j \in Inode : kern'.wd[j] = d => node'[obj'[m_watches'[d]].path] = j
  <2>1. d # NoWd
    BY DEF NoWd
  <2> QED BY <1>3, <2>1 DEF Ages, OneWatchEach
<1> QED BY <1>2, <1>3 DEF InPlace, Ages

(* A watch changes, and only entries of its own with it. *)
LEMMA StillIndexed ==
  ASSUME LibraryTypeOK, Indexed, NEW w \in Watch, obj[w] # NULL,
         NEW m, NEW d, NEW i, NEW e, Turns(w, m, d, i, e),
         d # NoWd => m_watches'[d] = w,
         \A c \in 1..MaxWd : m_watches'[c] = m_watches[c] \/ m_watches[c] \in {NULL, w}
  PROVE  Indexed'
<1> SUFFICES ASSUME NEW v \in Watch, obj'[v] # NULL, obj'[v].wd # NoWd
             PROVE  m_watches'[obj'[v].wd] = v
  BY DEF Indexed
<1>1. CASE v = w
  BY <1>1 DEF Turns
<1>2. CASE v # w
  <2>1. obj'[v] = obj[v] /\ obj[v] \in WatchObject
    BY <1>2 DEF Turns, LibraryTypeOK
  <2>2. m_watches[obj[v].wd] = v /\ obj[v].wd \in 1..MaxWd
    BY <2>1, WdType DEF Indexed, WatchObject
  <2> QED BY <1>2, <2>1, <2>2, LibraryAssumption
<1> QED BY <1>1, <1>2

LEMMA ApartCall ==
  ASSUME ApartInv, Call, Lawful
  PROVE  OneWatchEach(kern') /\ InPlace' /\ (PathsApart => Indexed')
<1> DEFINE Goal == OneWatchEach(kern') /\ InPlace' /\ (PathsApart => Indexed')
<1> SUFFICES Goal
  OBVIOUS
<1>1. /\ KernelTypeOK /\ LibraryTypeOK /\ Constructed /\ Owned /\ Filed /\ AddedIsPresent
      /\ kern \in KernelType /\ OneWatchEach(kern) /\ InPlace /\ node' = node
      /\ PathsApart => Indexed
  BY DEF ApartInv, LawfulInv, AnyInv, ClientTypeOK, KernelTypeOK, Call
<1>2. kern' \in KernelType
  BY AnyCall DEF ApartInv, LawfulInv, AnyInv, ClientTypeOK, KernelTypeOK
<1>3. kern \in Fewer(kern) /\ Ages(kern, kern)
  BY <1>1, FewerAges DEF Fewer
<1>4. ASSUME NEW w \in Watch, obj[w] # NULL
      PROVE  /\ obj[w].path \in Path /\ obj[w].mask \in SUBSET MaskBits
             /\ obj[w].wd # NoWd => obj[w].wd \in 1..MaxWd
  BY <1>1, <1>4, WdType DEF LibraryTypeOK, WatchObject
<1>5. ASSUME UNCHANGED <<obj, m_watches>>, Ages(kern, kern')
      PROVE  Goal
  <2>1. PathsKept
    BY <1>5 DEF PathsKept
  <2>2. OneWatchEach(kern') /\ InPlace'
    BY <1>1, <1>2, <1>5, <2>1, StillInPlace
  <2>3. Indexed => Indexed'
    BY <1>5 DEF Indexed
  <2> QED BY <1>1, <2>2, <2>3
<1>6. ASSUME NEW w \in Watch, obj[w] # NULL, NEW m, NEW d, NEW i, NEW e,
             Turns(w, m, d, i, e)
      PROVE  PathsKept
  BY <1>6 DEF Turns, PathsKept
(* Watch w leaves the table of descriptors. *)
<1>7. ASSUME NEW w \in Watch, obj[w] # NULL, NEW i, NEW e,
             Turns(w, obj[w].mask, NoWd, i, e), kern' \in Fewer(kern),
             \A c \in 1..MaxWd : m_watches'[c] = IF c = obj[w].wd THEN NULL ELSE m_watches[c]
      PROVE  Goal
  <2>1. OneWatchEach(kern') /\ InPlace'
    BY <1>1, <1>2, <1>6, <1>7, FewerAges, StillInPlace
  <2>2. ASSUME Indexed
        PROVE  Indexed'
    <3>1. \A c \in 1..MaxWd : m_watches'[c] = m_watches[c] \/ m_watches[c] \in {NULL, w}
      <4>1. \A c \in 1..MaxWd : c # NoWd
        BY DEF NoWd
      <4> QED BY <1>7, <2>2, <4>1 DEF Indexed
    <3> QED BY <1>1, <1>7, <2>2, <3>1, StillIndexed
  <2> QED BY <1>1, <2>1, <2>2
(* Watch w enters it, at an entry that was free. *)
<1>8. ASSUME NEW w \in Watch, obj[w] # NULL,
             LET d == AddedWd(kern, obj[w].path)
             IN /\ d \in 1..MaxWd /\ d # NoWd
                /\ Turns(w, obj[w].mask, d, "this", TRUE)
                /\ kern' = Added(kern, obj[w].path, obj[w].mask)
                /\ \A c \in 1..MaxWd : m_watches'[c] =
                     IF c = d /\ m_watches[d] = NULL THEN w ELSE m_watches[c]
                /\ PathsApart => m_watches[d] = NULL
      PROVE  Goal
  <2> DEFINE d == AddedWd(kern, obj[w].path)
  <2>1. /\ Ages(kern, kern') /\ node[obj[w].path] \in Inode
        /\ kern'.wd[node[obj[w].path]] = d /\ d < kern'.next
    BY <1>1, <1>4, <1>8, AddedAges
  <2>2. obj'[w].path = obj[w].path /\ PathsKept
    BY <1>6, <1>8 DEF Turns
  <2>3. OneWatchEach(kern') /\ InPlace'
    BY <1>1, <1>2, <1>8, <2>1, <2>2, StillInPlace
  <2>4. ASSUME PathsApart
        PROVE  Indexed'
    BY <1>1, <1>8, <2>4, StillIndexed
  <2> QED BY <2>3, <2>4
<1>9. CASE Open
  <2>1. kern'.wd = kern.wd /\ kern'.next = kern.next /\ UNCHANGED <<obj, m_watches>>
    BY <1>1, <1>9 DEF Open, KernelType, libVars
  <2> QED BY <1>3, <1>5, <2>1 DEF Ages, OneWatchEach
<1>10. ASSUME NEW w \in Watch, NEW p \in Path, NEW m \in Masks, NEW e \in BOOLEAN,
              Construct(w, p, m, e)
       PROVE  Goal
  <2>1. PICK g \in {"null", "wild"} :
          obj' = [obj EXCEPT ![w] = [path |-> p, mask |-> m, wd |-> NoWd,
                                     inotify |-> g, enabled |-> e]]
    BY <1>10 DEF Construct
  <2>2. /\ obj[w] = NULL /\ obj'[w].wd = NoWd /\ \A v \in Watch \ {w} : obj'[v] = obj[v]
        /\ UNCHANGED <<m_watches, kern>>
    BY <1>1, <1>10, <2>1 DEF Construct, LibraryTypeOK
  <2>3. OneWatchEach(kern') /\ InPlace'
    BY <1>1, <1>2, <1>3, <2>2, StillInPlace DEF PathsKept
  <2>4. Indexed => Indexed'
    BY <2>2 DEF Indexed
  <2> QED BY <1>1, <2>3, <2>4
<1>11. ASSUME NEW w \in Watch, obj[w] # NULL, Add(w)
       PROVE  Goal
  <2>1. CASE AddRefused(w)
    BY <1>3, <1>5, <2>1 DEF AddRefused, libVars
  <2>2. CASE AddDisabled(w)
    <3>1. /\ Turns(w, obj[w].mask, obj[w].wd, "this", FALSE)
          /\ m_watches' = m_watches /\ kern' = kern
      BY <1>1, <1>11, <2>2, AddDisabledDoes DEF AddDisabled
    <3>2. OneWatchEach(kern') /\ InPlace'
      BY <1>1, <1>2, <1>3, <1>6, <1>11, <3>1, StillInPlace
    <3>3. Indexed => Indexed'
      BY <1>1, <1>11, <3>1, StillIndexed DEF Indexed
    <3> QED BY <1>1, <3>2, <3>3
  <2>3. CASE AddCollision(w)
    <3> DEFINE K == Added(kern, obj[w].path, obj[w].mask)
               v == FindWatch(AddedWd(kern, obj[w].path))
    <3>1. v \in Watch /\ obj[v] # NULL
      BY <1>1, <2>3, FindWatchType DEF AddCollision, FindWatch, Constructed
    <3>2. K \in KernelType /\ Ages(kern, K)
      BY <1>1, <1>4, <1>11, AddedType, AddedAges
    <3>3. kern' = Added(K, obj[v].path, obj[v].mask)
      BY <2>3 DEF AddCollision
    <3> HIDE DEF K, v
    <3>4. OneWatchEach(K)
      BY <3>2 DEF Ages
    <3>5. Ages(K, kern')
      BY <1>1, <1>4, <3>1, <3>2, <3>3, <3>4, AddedAges
    <3>6. Ages(kern, kern')
      BY <1>1, <1>2, <3>2, <3>5, AgesOn
    <3> QED BY <1>5, <2>3, <3>6 DEF AddCollision, libVars
  <2>4. CASE AddEnabled(w)
    <3>1. LET d == AddedWd(kern, obj[w].path)
          IN /\ d \in 1..MaxWd /\ d # NoWd /\ m_watches[d] = NULL
             /\ Turns(w, obj[w].mask, d, "this", TRUE)
             /\ \A c \in 1..MaxWd : m_watches'[c] = IF c = d THEN w ELSE m_watches[c]
      BY <1>1, <1>11, <2>4, AddEnabledDoes
    <3>2. kern' = Added(kern, obj[w].path, obj[w].mask)
      BY <2>4 DEF AddEnabled
    <3> HIDE DEF Goal
    <3> QED BY <1>8, <1>11, <3>1, <3>2
  <2> QED BY <1>11, <2>1, <2>2, <2>3, <2>4 DEF Add
<1>12. ASSUME NEW w \in Watch, obj[w] # NULL, RemoveWatch(w)
       PROVE  Goal
  <2>1. CASE RemoveRefused(w)
    BY <1>3, <1>5, <2>1 DEF RemoveRefused, libVars
  <2>2. CASE RemoveAccepted(w)
    <3>1. /\ Turns(w, obj[w].mask, NoWd, "null", obj[w].enabled)
          /\ \A c \in 1..MaxWd : m_watches'[c] =
               IF c = obj[w].wd THEN NULL ELSE m_watches[c]
      BY <1>1, <1>12, <2>2, RemoveDoes
    <3>2. kern' \in Fewer(kern)
      BY <1>1, <1>3, <2>2, RemovedFewer DEF RemoveAccepted
    <3> HIDE DEF Goal
    <3> QED BY <1>7, <1>12, <3>1, <3>2
  <2> QED BY <1>12, <2>1, <2>2 DEF RemoveWatch
<1>13. ASSUME NEW w \in Watch, NEW on \in BOOLEAN, obj[w] # NULL, SetEnabledAside(w, on)
       PROVE  Goal
  <2>1. UNCHANGED <<m_watches, kern>>
    BY <1>13 DEF SetEnabledAside
  <2>2. CASE UNCHANGED obj
    BY <1>3, <1>5, <2>1, <2>2
  <2>3. CASE Turns(w, obj[w].mask, obj[w].wd, "null", on)
    <3>1. OneWatchEach(kern') /\ InPlace'
      BY <1>1, <1>2, <1>3, <1>6, <1>13, <2>1, <2>3, StillInPlace
    <3>2. Indexed => Indexed'
      BY <1>1, <1>13, <2>1, <2>3, StillIndexed DEF Indexed
    <3> QED BY <1>1, <3>1, <3>2
  <2> QED BY <1>1, <1>13, <2>2, <2>3, AsideDoes
(* A watch that has the directory already has its path, and is the watch.   *)
<1>14. ASSUME NEW w \in Watch, obj[w] # NULL, Enable(w)
       PROVE  Goal
  <2> DEFINE d == AddedWd(kern, obj[w].path)
  <2>1. /\ d \in 1..MaxWd /\ d # NoWd
        /\ Turns(w, obj[w].mask, d, "this", TRUE)
        /\ \A c \in 1..MaxWd : m_watches'[c] =
             IF c = d /\ m_watches[d] = NULL THEN w ELSE m_watches[c]
        /\ kern' = Added(kern, obj[w].path, obj[w].mask)
        /\ ~obj[w].enabled
    BY <1>1, <1>14, EnableDoes DEF Enable
  <2>2. ASSUME PathsApart, m_watches[d] # NULL
        PROVE  FALSE
    <3> DEFINE v == m_watches[d]
    <3>1. /\ v \in Watch /\ obj[v] # NULL /\ obj[v].enabled /\ m_paths[obj[v].path] = v
          /\ d < kern.next
          /\ \A j \in Inode : kern.wd[j] = d => node[obj[v].path] = j
      BY <1>1, <2>1, <2>2 DEF LibraryTypeOK, Filed, InPlace
    <3>2. node[obj[w].path] \in Inode
      BY <1>1, <1>4, <1>14, <2>1, AddedWdType
    <3>3. d = kern.wd[node[obj[w].path]]
      <4>1. d \in {kern.wd[node[obj[w].path]], kern.next}
        BY <2>1 DEF AddedWd
      <4>2. d # kern.next
        BY <2>1, <3>1
      <4> QED BY <4>1, <4>2
    <3> HIDE DEF d, v
    <3>4. node[obj[v].path] = node[obj[w].path]
      BY <3>1, <3>2, <3>3
    <3>5. obj[v].path = obj[w].path
      BY <1>4, <1>14, <2>2, <3>1, <3>4 DEF PathsApart
    <3>6. m_paths[obj[w].path] = w
      BY <1>1, <1>14 DEF Enable, AddedIsPresent, Present
    <3> QED BY <2>1, <3>1, <3>5, <3>6
  <2> HIDE DEF Goal
  <2> QED BY <1>8, <1>14, <2>1, <2>2
<1>15. ASSUME NEW w \in Watch, obj[w] # NULL, SwitchOff(w)
       PROVE  Goal
  <2>1. /\ Turns(w, obj[w].mask, NoWd, "this", FALSE)
        /\ \A c \in 1..MaxWd : m_watches'[c] = IF c = obj[w].wd THEN NULL ELSE m_watches[c]
    BY <1>1, <1>15, SwitchOffDoes
  <2>2. kern' \in Fewer(kern)
    BY <1>1, <1>3, <1>15, RemovedFewer DEF SwitchOff
  <2> HIDE DEF Goal
  <2> QED BY <1>7, <1>15, <2>1, <2>2
<1>16. ASSUME NEW w \in Watch, NEW m \in Masks, obj[w] # NULL, SetMask(w, m)
       PROVE  Goal
  <2>1. PICK n \in SUBSET MaskBits :
          Turns(w, n, obj[w].wd, obj[w].inotify, obj[w].enabled)
    BY <1>1, <1>16, SetMaskDoes, MaskType
  <2>2. m_watches' = m_watches /\ Ages(kern, kern')
    BY <1>1, <1>3, <1>4, <1>16, MaskType, AddedAges DEF SetMask
  <2>3. OneWatchEach(kern') /\ InPlace'
    BY <1>1, <1>2, <1>6, <1>16, <2>1, <2>2, StillInPlace
  <2>4. Indexed => Indexed'
    BY <1>1, <1>16, <2>1, <2>2, StillIndexed DEF Indexed
  <2> QED BY <1>1, <2>3, <2>4
<1>17. CASE RemoveAll \/ Close
  <2>1. Cleared
    BY <1>17 DEF RemoveAll, Close
  <2>2. OneWatchEach(kern')
    <3>1. CASE RemoveAll
      BY <1>1, <3>1, AllRemovedFewer, FewerAges DEF Ages
    <3>2. CASE Close
      <4>1. \A j \in Inode : kern'.wd[j] = NoWd
        BY <1>1, <3>2 DEF Close, Closed, KernelType
      <4> QED BY <4>1 DEF OneWatchEach
    <3> QED BY <1>17, <3>1, <3>2
  <2>3. InPlace'
    BY <1>1, <2>1, ClearedDoes DEF InPlace
  <2>4. ASSUME Indexed, NEW w \in Watch, obj'[w] # NULL, obj'[w].wd # NoWd
        PROVE  FALSE
    <3>1. obj[w] # NULL /\ obj'[w] = obj[w] /\ ~Present(w)
      BY <1>1, <2>1, <2>4, ClearedDoes
    <3>2. m_watches[obj[w].wd] = w /\ obj[w].wd \in 1..MaxWd
      BY <1>4, <2>4, <3>1 DEF Indexed
    <3> QED BY <1>1, <3>1, <3>2, LibraryAssumption DEF Filed, Present
  <2>5. Indexed => Indexed'
    BY <2>4 DEF Indexed
  <2> QED BY <1>1, <2>2, <2>3, <2>5
<1>18. CASE GetEvent \/ ReadEvents
  <2>1. /\ UNCHANGED <<obj, m_watches>>
        /\ kern'.wd = kern.wd /\ kern'.next = kern.next
    BY <1>1, <1>18 DEF GetEvent, ReadEvents, KernelType
  <2>2. Ages(kern, kern')
    BY <1>3, <2>1 DEF Ages, OneWatchEach
  <2> QED BY <1>5, <2>1, <2>2
<1> HIDE DEF Goal
<1>19. ASSUME NEW w \in Watch, NEW on \in BOOLEAN, obj[w] # NULL, SetEnabled(w, on)
       PROVE  Goal
  BY <1>13, <1>14, <1>15, <1>19 DEF SetEnabled
<1> QED BY <1>9, <1>10, <1>11, <1>12, <1>16, <1>17, <1>18, <1>19 DEF Call, Removable

LEMMA ApartParse ==
  ASSUME ApartInv, Parse
  PROVE  OneWatchEach(kern') /\ InPlace' /\ (PathsApart => Indexed')
<1> DEFINE e == Head(m_buf)
           w == FindWatch(e.wd)
<1>1. /\ KernelTypeOK /\ LibraryTypeOK /\ Constructed /\ Filed
      /\ kern' = kern /\ kern \in KernelType /\ OneWatchEach(kern) /\ InPlace /\ node' = node
      /\ PathsApart => Indexed
  BY DEF ApartInv, LawfulInv, AnyInv, ClientTypeOK, KernelTypeOK, Parse, ParseEvent
<1>2. Ages(kern, kern')
  <2>1. kern \in Fewer(kern)
    BY <1>1 DEF Fewer
  <2> QED BY <1>1, <2>1, FewerAges
<1>3. /\ ParseEvent
      /\ \/ UNCHANGED <<obj, m_watches>>
         \/ w # NULL /\ Disable(w)
  BY DEF Parse, ParseEvent
<1>4. CASE UNCHANGED <<obj, m_watches>>
  <2>1. InPlace'
    BY <1>1, <1>2, <1>4, StillInPlace DEF PathsKept
  <2>2. Indexed => Indexed'
    BY <1>4 DEF Indexed
  <2> QED BY <1>1, <2>1, <2>2
<1>5. CASE w # NULL /\ Disable(w)
  <2>1. /\ e.wd \in 1..MaxWd /\ w = m_watches[e.wd] /\ w \in Watch
        /\ obj[w] # NULL /\ obj[w].wd = e.wd /\ obj[w].inotify # "null" /\ obj[w].wd # NoWd
    BY <1>1, <1>5 DEF FindWatch, Filed, LibraryTypeOK, NoWd
  <2>2. Turns(w, obj[w].mask, NoWd, obj[w].inotify, FALSE)
    <3>1. Turns(w, obj[w].mask, IF obj[w].inotify # "null" THEN NoWd ELSE obj[w].wd,
                obj[w].inotify, FALSE)
      BY <1>1, <1>5, <2>1, DisableDoes
    <3> QED BY <2>1, <3>1
  <2>3. \A c \in 1..MaxWd : m_watches'[c] = IF c = e.wd THEN NULL ELSE m_watches[c]
    BY <1>1, <1>5, <2>1 DEF Disable, LibraryTypeOK
  <2> HIDE DEF w, e
  <2>4. InPlace'
    BY <1>1, <1>2, <2>1, <2>2, <2>3, StillInPlace DEF PathsKept, Turns
  <2>5. Indexed => Indexed'
    BY <1>1, <2>1, <2>2, <2>3, StillIndexed
  <2> QED BY <1>1, <2>4, <2>5
<1> QED BY <1>3, <1>4, <1>5

LEMMA ApartStep ==
  ASSUME ApartInv, [ClientNext]_clientVars, Lawful, "retarget" \notin FsOps
  PROVE  ApartInv'
<1>1. /\ KernelTypeOK /\ LibraryTypeOK /\ Constructed /\ OneWatchEach(kern) /\ InPlace
      /\ kern \in KernelType
      /\ PathsApart => Indexed
  BY DEF ApartInv, LawfulInv, AnyInv, ClientTypeOK, KernelTypeOK
<1>2. LawfulInv'
  BY LawfulStep DEF ApartInv
<1>3. CASE Call \/ Parse
  <2>1. OneWatchEach(kern') /\ InPlace' /\ (PathsApart => Indexed')
    BY <1>3, ApartCall, ApartParse
  <2>2. PathsApart' <=> PathsApart
    BY <1>3 DEF Call, Parse, PathsApart
  <2> QED BY <1>2, <2>1, <2>2 DEF ApartInv, OneWatchEach
<1>4. CASE Others
  <2>1. /\ FileSystem /\ UNCHANGED <<obj, m_watches>>
    BY <1>4 DEF Others, libVars
  <2>2. /\ kern' \in Fewer(kern)
        /\ \A p, q \in Path : node[p] = node[q] => node'[p] = node'[q]
        /\ \A p \in Path, j \in Inode :
             kern'.wd[j] # NoWd /\ node[p] = j => node'[p] = j
    BY <1>1, <2>1, FileSystemFewer
  <2>3. Ages(kern, kern') /\ kern.next \in Nat /\ kern'.next \in Nat
    <3>1. Ages(kern, kern')
      BY <1>1, <2>2, FewerAges
    <3>2. kern' \in KernelType
      BY <2>2 DEF Fewer
    <3> QED BY <1>1, <3>1, <3>2, KernelAssumption DEF KernelType
  <2>4. InPlace'
    <3> SUFFICES ASSUME NEW d \in 1..MaxWd, m_watches[d] # NULL
                 PROVE  /\ d < kern'.next
                        /\ \A j \in Inode :
                             kern'.wd[j] = d => node'[obj[m_watches[d]].path] = j
      BY <2>1 DEF InPlace
    <3>1. /\ d < kern.next /\ d # NoWd
          /\ \A j \in Inode : kern.wd[j] = d => node[obj[m_watches[d]].path] = j
      BY <1>1 DEF InPlace, NoWd
    <3>2. obj[m_watches[d]].path \in Path
      BY <1>1 DEF LibraryTypeOK, Constructed, WatchObject
    <3>3. d < kern'.next
      BY <2>3, <3>1 DEF Ages
    <3>4. \A j \in Inode : kern'.wd[j] = d => kern.wd[j] = d
      BY <2>3, <3>1 DEF Ages
    <3> QED BY <2>2, <3>1, <3>2, <3>3, <3>4
  <2>5. PathsApart' => PathsApart
    BY <2>2 DEF PathsApart
  <2>6. Indexed => Indexed'
    BY <2>1 DEF Indexed
  <2> QED BY <1>1, <1>2, <2>3, <2>4, <2>5, <2>6 DEF ApartInv, Ages, OneWatchEach
<1>5. CASE UNCHANGED clientVars
  BY <1>1, <1>2, <1>5
     DEF clientVars, kernelVars, libVars, ApartInv, OneWatchEach, InPlace, PathsApart, Indexed
<1> QED BY <1>3, <1>4, <1>5 DEF ClientNext

LEMMA ApartInvariant ==
  ASSUME Lawful, "retarget" \notin FsOps
  PROVE  ClientSpec => []ApartInv
<1>1. ClientInit => ApartInv
  <2> SUFFICES ASSUME ClientInit PROVE ApartInv
    OBVIOUS
  <2>1. kern.wd = [i \in Inode |-> NoWd]
    BY DEF ClientInit, KernelInit
  <2>2. OneWatchEach(kern)
    BY <2>1 DEF OneWatchEach
  <2>3. InPlace /\ Indexed
    BY DEF ClientInit, LibraryInit, InPlace, Indexed
  <2> QED BY <2>2, <2>3, LawfulInit DEF ApartInv
<1>2. ApartInv /\ [ClientNext]_clientVars => ApartInv'
  BY ApartStep
<1> QED BY <1>1, <1>2, PTL DEF ClientSpec

(* The tables of the library and its watches stay in agreement through any *)
(* calls, as long as no directory has two paths (inotify-cxx.cpp:260-267): *)
(* the client removes only watches that are present, and no path comes to  *)
(* name another directory.  With directories apart, the watch that has the *)
(* descriptor SetEnabled() is given has the same path, and so is the same. *)
THEOREM TablesAgree ==
  ASSUME Lawful, "retarget" \notin FsOps
  PROVE  ClientSpec => []TablesAgreeApart
<1>1. ApartInv => TablesAgreeApart
  BY DEF ApartInv, LawfulInv, AnyInv, Owned, Filed, Indexed, TablesAgreeApart,
         WatchTablesAgree
<1> QED BY <1>1, ApartInvariant, PTL

(* GetEnabledCount() is the number of enabled watches among the added      *)
(* (inotify-cxx.h:614-626), under the same conditions: the entries of the  *)
(* table of descriptors and those watches are in bijection.                *)
THEOREM CountIsExact ==
  ASSUME Lawful, "retarget" \notin FsOps
  PROVE  ClientSpec => []EnabledCountIsExact
<1>1. ASSUME ApartInv, PathsApart
      PROVE  Cardinality({d \in 1..MaxWd : m_watches[d] # NULL})
               = Cardinality({w \in Watch : obj[w] # NULL /\ Present(w) /\ obj[w].enabled})
  <2> DEFINE S == {d \in 1..MaxWd : m_watches[d] # NULL}
             T == {w \in Watch : obj[w] # NULL /\ Present(w) /\ obj[w].enabled}
             f == [d \in S |-> m_watches[d]]
  <2>1. LibraryTypeOK /\ Owned /\ Filed /\ EnabledHasWd /\ Indexed
    BY <1>1 DEF ApartInv, LawfulInv, AnyInv, ClientTypeOK
  <2>2. f \in [S -> T]
    <3>1. \A d \in S : m_watches[d] \in T
      BY <2>1 DEF LibraryTypeOK, Filed, Present
    <3> QED BY <3>1
  <2>3. \A c, d \in S : f[c] = f[d] => c = d
    BY <2>1 DEF Filed
  <2>4. \A w \in T : \E d \in S : f[d] = w
    <3> TAKE w \in T
    <3>1. obj[w].path \in Path /\ m_paths[obj[w].path] = w /\ w # NULL
      BY <2>1, LibraryAssumption DEF Present, LibraryTypeOK, WatchObject
    <3>2. obj[w].inotify = "this"
      BY <2>1, <3>1 DEF Owned
    <3>3. obj[w].wd # NoWd /\ obj[w].wd \in 1..MaxWd
      BY <2>1, <3>2, WdType DEF EnabledHasWd, LibraryTypeOK, WatchObject
    <3>4. m_watches[obj[w].wd] = w
      BY <2>1, <3>3 DEF Indexed
    <3> QED BY <3>1, <3>3, <3>4
  <2>5. ExistsBijection(S, T)
    <3>1. f \in Bijection(S, T)
      BY <2>2, <2>3, <2>4 DEF Bijection, Injection, Surjection, IsInjective
    <3> QED BY <3>1 DEF ExistsBijection
  <2>6. IsFiniteSet(S)
    BY KernelAssumption, FS_Interval, FS_Subset
  <2> HIDE DEF S, T
  <2>7. Cardinality(T) = Cardinality(S)
    BY <2>5, <2>6, FS_Bijection
  <2> QED BY <2>7 DEF S, T
<1>2. ApartInv => EnabledCountIsExact
  BY <1>1 DEF EnabledCountIsExact, EnabledAreCounted
<1> QED BY <1>2, ApartInvariant, PTL

=============================================================================
