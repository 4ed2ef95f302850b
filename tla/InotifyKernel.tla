--------------------------- MODULE InotifyKernel ---------------------------
(***************************************************************************)
(* External to the repository: the directories named by $PATH and the one  *)
(* inotify instance of the process, as far as inotify-cxx.cpp and          *)
(* monitor.cpp can observe them through inotify_init, inotify_add_watch,   *)
(* inotify_rm_watch, read and close.                                       *)
(*                                                                         *)
(* A system call is an operator from one kernel record to the next, so     *)
(* that a library call that makes several of them is still one action.     *)
(***************************************************************************)
EXTENDS Integers, Sequences, SequencesExt

CONSTANTS
  Path,        \* the strings that name directories
  Inode,       \* the directories themselves; two paths may name one
  Name,        \* file names
  NoInode,     \* what a path resolves to when it names no directory
  NoName,      \* the empty name of an event about the watch itself
  InitNodes,   \* the ways the paths may resolve when the program starts
  MaxWd,       \* watch descriptors the kernel can hand out
  MaxQueued,   \* fs.inotify.max_queued_events
  FsOps,       \* the kinds of change other programs make
  MaxOps       \* bound: how many changes they make

ASSUME KernelAssumption ==
  /\ IsFiniteSet(Name)
  /\ NoInode \notin Inode
  /\ NoName \notin Name
  /\ InitNodes \subseteq [Path -> Inode \cup {NoInode}]
  /\ MaxWd \in Nat /\ MaxQueued \in Nat /\ MaxOps \in Nat

VARIABLES
  node,        \* the directory each path resolves to
  files,       \* the entries of each directory
  kern,        \* the inotify instance
  ops          \* changes made so far

kernelVars == <<node, files, kern, ops>>

NoWd == -1

ListingEvents == {"IN_CREATE", "IN_DELETE", "IN_MOVED_FROM", "IN_MOVED_TO"}
MaskBits      == ListingEvents \cup {"IN_ONESHOT"}

Wd == {NoWd} \cup 1..MaxWd

Overflow == [wd |-> NoWd, type |-> "IN_Q_OVERFLOW", name |-> NoName]

KernelEvent ==
       [wd : Wd, type : ListingEvents, name : Name]
  \cup [wd : Wd, type : {"IN_IGNORED"}, name : {NoName}]
  \cup {Overflow}

KernelType ==
  [open  : BOOLEAN,
   wd    : [Inode -> Wd],
   mask  : [Inode -> SUBSET MaskBits],
   next  : 1..(MaxWd + 1),
   queue : Seq(KernelEvent)]

KernelTypeOK ==
  /\ node \in [Path -> Inode \cup {NoInode}]
  /\ files \in [Inode -> SUBSET Name]
  /\ kern \in KernelType
  /\ ops \in 0..MaxOps

KernelInit ==
  /\ node \in InitNodes
  /\ files \in [Inode -> SUBSET Name]
  /\ kern = [open  |-> FALSE,
             wd    |-> [i \in Inode |-> NoWd],
             mask  |-> [i \in Inode |-> {}],
             next  |-> 1,
             queue |-> <<>>]
  /\ ops = 0

-----------------------------------------------------------------------------
(* The event queue: a full queue takes one overflow mark and drops what     *)
(* follows; an event equal to the last one queued is merged with it.        *)

Queued(K, e) ==
  IF Len(K.queue) >= MaxQueued
  THEN IF Overflow \in Range(K.queue)
       THEN K
       ELSE [K EXCEPT !.queue = Append(@, Overflow)]
  ELSE IF K.queue # <<>> /\ Last(K.queue) = e
       THEN K
       ELSE [K EXCEPT !.queue = Append(@, e)]

(* The watch on directory i ends, by request or because i is gone. *)
Forgotten(K, i) ==
  Queued([K EXCEPT !.wd[i] = NoWd, !.mask[i] = {}],
         [wd |-> K.wd[i], type |-> "IN_IGNORED", name |-> NoName])

Emitted(K, i, t, n) ==
  IF K.wd[i] = NoWd \/ t \notin K.mask[i]
  THEN K
  ELSE LET K1 == Queued(K, [wd |-> K.wd[i], type |-> t, name |-> n])
       IN  IF "IN_ONESHOT" \in K.mask[i] THEN Forgotten(K1, i) ELSE K1

-----------------------------------------------------------------------------
(* System calls *)

(* The descriptor inotify_add_watch returns for path p, or -1. *)
AddedWd(K, p) ==
  IF ~K.open \/ node[p] = NoInode THEN NoWd
  ELSE IF K.wd[node[p]] # NoWd THEN K.wd[node[p]]
  ELSE IF K.next <= MaxWd THEN K.next
  ELSE NoWd

(* inotify_add_watch(fd, p, m): a directory has one watch, the last mask wins. *)
Added(K, p, m) ==
  LET d == AddedWd(K, p)
  IN  IF d = NoWd
      THEN K
      ELSE [K EXCEPT !.wd[node[p]]   = d,
                     !.mask[node[p]] = m,
                     !.next          = IF d = @ THEN @ + 1 ELSE @]

IsWatchedWd(K, d) == d # NoWd /\ \E i \in Inode : K.wd[i] = d

(* inotify_rm_watch(fd, d), when d is a watch of the kernel *)
Removed(K, d) ==
  IF IsWatchedWd(K, d)
  THEN Forgotten(K, CHOOSE i \in Inode : K.wd[i] = d)
  ELSE K

(* close(fd) *)
Closed(K) ==
  [K EXCEPT !.open = FALSE,
            !.wd    = [i \in Inode |-> NoWd],
            !.mask  = [i \in Inode |-> {}],
            !.queue = <<>>]

-----------------------------------------------------------------------------
(* What other programs do to the directories *)

Create(i, n) ==
  /\ "create" \in FsOps
  /\ n \notin files[i]
  /\ files' = [files EXCEPT ![i] = @ \cup {n}]
  /\ kern'  = Emitted(kern, i, "IN_CREATE", n)
  /\ UNCHANGED node

Delete(i, n) ==
  /\ "delete" \in FsOps
  /\ n \in files[i]
  /\ files' = [files EXCEPT ![i] = @ \ {n}]
  /\ kern'  = Emitted(kern, i, "IN_DELETE", n)
  /\ UNCHANGED node

(* rename(2) within one directory, replacing b when it exists *)
Rename(i, a, b) ==
  /\ "rename" \in FsOps
  /\ a \in files[i] /\ a # b
  /\ files' = [files EXCEPT ![i] = (@ \ {a}) \cup {b}]
  /\ kern'  = Emitted(Emitted(kern, i, "IN_MOVED_FROM", a), i, "IN_MOVED_TO", b)
  /\ UNCHANGED node

(* rename(2) from and to a directory nobody watches *)
MoveIn(i, n) ==
  /\ "move_in" \in FsOps
  /\ files' = [files EXCEPT ![i] = @ \cup {n}]
  /\ kern'  = Emitted(kern, i, "IN_MOVED_TO", n)
  /\ UNCHANGED node

MoveOut(i, n) ==
  /\ "move_out" \in FsOps
  /\ n \in files[i]
  /\ files' = [files EXCEPT ![i] = @ \ {n}]
  /\ kern'  = Emitted(kern, i, "IN_MOVED_FROM", n)
  /\ UNCHANGED node

RemoveDir(i) ==
  /\ "rmdir" \in FsOps
  /\ files[i] = {}
  /\ node' = [p \in Path |-> IF node[p] = i THEN NoInode ELSE node[p]]
  /\ kern' = IF kern.wd[i] = NoWd THEN kern ELSE Forgotten(kern, i)
  /\ UNCHANGED files

(* A path comes to name another directory: mkdir, mv, a switched symlink. *)
Retarget(p, i) ==
  /\ "retarget" \in FsOps
  /\ node[p] # i
  /\ node' = [node EXCEPT ![p] = i]
  /\ UNCHANGED <<files, kern>>

FileSystem ==
  /\ ops < MaxOps
  /\ ops' = ops + 1
  /\ \/ \E i \in Inode \cap Range(node) :
          \/ \E n \in Name : Create(i, n) \/ Delete(i, n) \/ MoveIn(i, n) \/ MoveOut(i, n)
          \/ \E a, b \in Name : Rename(i, a, b)
          \/ RemoveDir(i)
     \/ \E p \in Path, i \in Inode : Retarget(p, i)

=============================================================================
