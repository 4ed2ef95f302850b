---------------------------- MODULE InotifyLock ----------------------------
(***************************************************************************)
(* The library built with INOTIFY_THREAD_SAFE, reduced to its locks: the   *)
(* read-write lock of the Inotify object and that of a watch, and the      *)
(* calls threads make, each a sequence of steps on them                    *)
(* (inotify-cxx.h:79-138). This repository does not define the symbol.     *)
(***************************************************************************)
EXTENDS Sequences, FiniteSets

CONSTANTS
  Thread,
  NoThread,
  Call          \* the calls threads make

Lock == {"inotify", "watch"}

VARIABLES
  lock,         \* [Lock -> [writer |-> a thread or NoThread, readers |-> threads]]
  todo          \* the steps left of the call each thread is in

vars == <<lock, todo>>

-----------------------------------------------------------------------------
(* The steps of each call, one sequence for each way through it that ends   *)
(* with a return or with a throw of its own                                 *)

Ask(op, l) == [op |-> op, on |-> l]
Unlock(l) == Ask("unlock", l)

Taken(op, l) == <<Ask(op, l), Unlock(l)>>

Writing == Taken("write", "inotify")
Reading == Taken("read", "inotify")
Watching == Taken("write", "watch")
FindWatch == Reading

(* IN_WRITE_BEGIN ... IN_WRITE_END around what a call does                  *)
Within(steps) == <<Ask("write", "inotify")>> \o steps \o <<Unlock("inotify")>>

Steps(call) ==
  CASE call = "Add" ->
         {Writing, Within(FindWatch), Within(FindWatch \o FindWatch)}
    [] call = "Close" -> {Writing, Within(Writing)}
    [] call = "WaitForEvents" ->
         {<<>>, Within(FindWatch),
          Within(FindWatch \o Watching)}
    [] call \in {"Remove", "RemoveAll", "GetEvent", "SetNonBlock", "SetCloseOnExec"} ->
         {Writing}
    [] call \in {"PeekEvent", "FindWatch", "GetWatchCount", "GetEnabledCount", "GetEventCount"} ->
         {Reading}
    [] call \in {"SetMask", "SetEnabled"} -> {Watching}

-----------------------------------------------------------------------------
LockInit ==
  /\ lock = [l \in Lock |-> [writer |-> NoThread, readers |-> {}]]
  /\ todo = [t \in Thread |-> <<>>]

Begin(t) ==
  /\ todo[t] = <<>>
  /\ \E call \in Call : \E steps \in Steps(call) : todo' = [todo EXCEPT ![t] = steps]
  /\ UNCHANGED lock

Advance(t) == todo' = [todo EXCEPT ![t] = Tail(@)]

(* EDEADLK, for a thread that asks for a lock it holds for writing: the     *)
(* macro throws, and nothing on the way out of the call releases what it    *)
(* holds.                                                                   *)
Throw(t) ==
  /\ todo[t] # <<>>
  /\ Head(todo[t]).op # "unlock"
  /\ lock[Head(todo[t]).on].writer = t
  /\ todo' = [todo EXCEPT ![t] = <<>>]
  /\ UNCHANGED lock

Acquire(t) ==
  LET l == Head(todo[t]).on
  IN /\ todo[t] # <<>>
     /\ lock[l].writer = NoThread
     /\ \/ /\ Head(todo[t]).op = "read"
           /\ lock' = [lock EXCEPT ![l].readers = @ \cup {t}]
        \/ /\ Head(todo[t]).op = "write" /\ lock[l].readers = {}
           /\ lock' = [lock EXCEPT ![l].writer = t]
     /\ Advance(t)

Release(t) ==
  LET l == Head(todo[t]).on
  IN /\ todo[t] # <<>> /\ Head(todo[t]).op = "unlock"
     /\ lock' = [lock EXCEPT ![l].writer = IF @ = t THEN NoThread ELSE @,
                             ![l].readers = @ \ {t}]
     /\ Advance(t)

Step(t) == Throw(t) \/ Acquire(t) \/ Release(t)

LockNext == \E t \in Thread : Begin(t) \/ Step(t)

LockSpec == LockInit /\ [][LockNext]_vars

-----------------------------------------------------------------------------
(* A thread that is in no call holds no lock, whatever became of its call:  *)
(* "If the INOTIFY_THREAD_SAFE is defined this class is thread-safe"        *)
(* (inotify-cxx.h:529).                                                     *)
NoLockLeft ==
  \A t \in Thread : todo[t] = <<>> =>
    \A l \in Lock : lock[l].writer # t /\ t \notin lock[l].readers

=============================================================================
