------------------------------ MODULE XKeyBind ------------------------------
(***************************************************************************)
(* class XKeyBind (xkeybind.cpp): the main thread binds the hotkey, starts *)
(* the thread run() is and loops; the thread waits in XNextEvent and calls *)
(* the main loop through the bounded pipe of a Glib::Dispatcher.           *)
(***************************************************************************)
EXTENDS KeyGrab, FiniteSets

CONSTANTS
  Keystring,   \* hotkey strings of the command line
  Keyboard,    \* keyboards
  Foreign,     \* what other clients may have grabbed: sets of grabs
  Key,         \* keycodes the user presses
  State,       \* sets of modifiers the user has on
  Presses,     \* bound on the key presses that reach the program
  PipeCap,     \* notifications the pipe holds
  Stops        \* whether the owner may stop or destroy the object

ASSUME XKeyBindAssumption ==
  /\ Keystring \subseteq Seq(STRING) /\ \A ks \in Keystring : Len(ks) > 0
  /\ Key \subseteq Nat \ {0}
  /\ Presses \in Nat /\ PipeCap \in Nat \ {0} /\ Stops \in BOOLEAN

VARIABLES
  keystring, keyboard, foreign,   \* the surroundings; they do not change
  requests,    \* XGrabKey requests not yet sent to the server
  grabs,       \* the server's grabs for m_dpy
  down,        \* the key whose press fired, while it is held; 0 for none
  xq,          \* X events on their way to m_dpy
  m_stop,
  pc,          \* [main |-> , thread |-> ]
  pipe,        \* notifications of sig_done in the pipe
  fault,       \* "none" or "exit": how the process ended
  asked, answered   \* key presses sent to m_dpy, calls of the slot

surroundings == <<keystring, keyboard, foreign>>
server == <<requests, grabs, down>>
counts == <<asked, answered>>
vars == <<surroundings, server, xq, m_stop, pc, pipe, fault, counts>>

Init ==
  /\ keystring \in Keystring /\ keyboard \in Keyboard /\ foreign \in Foreign
  /\ requests = {} /\ grabs = {} /\ down = 0 /\ xq = <<>>
  /\ m_stop = FALSE
  /\ pc = [main |-> "construct", thread |-> "off"]
  /\ pipe = 0 /\ fault = "none"
  /\ asked = 0 /\ answered = 0

Go(thread, from, to) ==
  /\ fault = "none" /\ pc[thread] = from
  /\ pc' = [pc EXCEPT ![thread] = to]

-----------------------------------------------------------------------------
(* The main thread: constructor, Do::bind_key, Do::start_xevent_loop, the   *)
(* loop, and what ends it                                                   *)

(* fatal_error() when the display cannot be opened                          *)
Construct ==
  /\ Go("main", "construct", "bind")
  /\ fault' \in {"none", "exit"}
  /\ UNCHANGED <<surroundings, server, xq, m_stop, pipe, counts>>

(* The requests stay in the buffer of m_dpy. Keycode and NumLock mask are   *)
(* each looked up on a display opened for it, with the same fatal_error().  *)
BindKey ==
  /\ Go("main", "bind", "start")
  /\ requests' = Requested(keystring, keyboard)
  /\ fault' = "none" \/ (Len(keystring) >= 2 /\ fault' = "exit")
  /\ UNCHANGED <<surroundings, grabs, down, xq, m_stop, pipe, counts>>

Start ==
  /\ fault = "none" /\ pc.main = "start"
  /\ pc' = [main |-> "connect", thread |-> "check"]
  /\ UNCHANGED <<surroundings, server, xq, m_stop, pipe, fault, counts>>

Connect ==
  /\ Go("main", "connect", "loop")
  /\ UNCHANGED <<surroundings, server, xq, m_stop, pipe, fault, counts>>

(* A notification is read from the pipe and Gtk::Window::show is called.    *)
DispatchDone ==
  /\ fault = "none" /\ pc.main = "loop" /\ pipe > 0
  /\ pipe' = pipe - 1
  /\ answered' = answered + 1
  /\ UNCHANGED <<surroundings, server, xq, m_stop, pc, fault, asked>>

stop ==
  /\ Stops /\ Go("main", "loop", "loop")
  /\ m_stop' = TRUE
  /\ UNCHANGED <<surroundings, server, xq, pipe, fault, counts>>

Destroy ==
  /\ Stops /\ Go("main", "loop", "join")
  /\ m_stop' = TRUE
  /\ UNCHANGED <<surroundings, server, xq, pipe, fault, counts>>

Join ==
  /\ pc.thread = "exit"
  /\ Go("main", "join", "destroyed")
  /\ UNCHANGED <<surroundings, server, xq, m_stop, pipe, fault, counts>>

-----------------------------------------------------------------------------
(* The thread                                                              *)

(* Mutant: the flag is not looked at. *)
CheckStopNever ==
  /\ Go("thread", "check", "next")
  /\ UNCHANGED <<surroundings, server, xq, m_stop, pipe, fault, counts>>

(* m_mutex is held for this look only. *)
CheckStop ==
  /\ Go("thread", "check", IF m_stop THEN "exit" ELSE "next")
  /\ UNCHANGED <<surroundings, server, xq, m_stop, pipe, fault, counts>>

(* XNextEvent sends what is buffered before it waits. The error handler GDK *)
(* installs for every display ends the process on a refusal.                *)
Flush ==
  /\ requests # {}
  /\ Go("thread", "next", "next")
  /\ grabs' = {g \in requests : ~Refused(g, foreign)}
  /\ requests' = {}
  /\ fault' = IF grabs' = requests THEN "none" ELSE "exit"
  /\ UNCHANGED <<surroundings, down, xq, m_stop, pipe, counts>>

(* Mutant: the release of a key counts as well. *)
XNextEventAny ==
  /\ requests = {} /\ xq # <<>>
  /\ Go("thread", "next", "emit")
  /\ xq' = Tail(xq)
  /\ UNCHANGED <<surroundings, server, m_stop, pipe, fault, counts>>

XNextEvent ==
  /\ requests = {} /\ xq # <<>>
  /\ Go("thread", "next", IF Head(xq) = "KeyPress" THEN "emit" ELSE "check")
  /\ xq' = Tail(xq)
  /\ UNCHANGED <<surroundings, server, m_stop, pipe, fault, counts>>

(* Mutant: a notification is dropped when another waits in the pipe. *)
SigDoneOnce ==
  /\ Go("thread", "emit", "check")
  /\ pipe' = 1
  /\ UNCHANGED <<surroundings, server, xq, m_stop, fault, counts>>

(* Mutant: sig_done() never blocks. *)
SigDoneNoWait ==
  /\ Go("thread", "emit", "check")
  /\ pipe' = pipe + 1
  /\ UNCHANGED <<surroundings, server, xq, m_stop, fault, counts>>

(* sig_done() blocks while the pipe is full. *)
SigDone ==
  /\ pipe < PipeCap
  /\ Go("thread", "emit", "check")
  /\ pipe' = pipe + 1
  /\ UNCHANGED <<surroundings, server, xq, m_stop, fault, counts>>

run == CheckStop \/ Flush \/ XNextEvent \/ SigDone

-----------------------------------------------------------------------------
(* The user's keyboard, and the server                                     *)

(* While the key that fired is held, every other key goes the same way.    *)
Press(key, state) ==
  /\ fault = "none" /\ asked < Presses /\ key # down
  /\ down # 0 \/ Fires(grabs, key, state)
  /\ down' = IF down = 0 THEN key ELSE down
  /\ xq' = Append(xq, "KeyPress")
  /\ asked' = asked + 1
  /\ UNCHANGED <<surroundings, requests, grabs, m_stop, pc, pipe, fault, answered>>

Release ==
  /\ fault = "none" /\ down # 0
  /\ down' = 0
  /\ xq' = Append(xq, "KeyRelease")
  /\ UNCHANGED <<surroundings, requests, grabs, m_stop, pc, pipe, fault, counts>>

Keys == Release \/ \E key \in Key, state \in State : Press(key, state)

-----------------------------------------------------------------------------
Owner == Construct \/ BindKey \/ Start \/ Connect \/ DispatchDone \/ Join

Next == Owner \/ stop \/ Destroy \/ run \/ Keys

Spec == Init /\ [][Next]_vars /\ WF_vars(run) /\ WF_vars(Owner)

-----------------------------------------------------------------------------
(* Properties *)

TypeOK ==
  /\ requests \in {{}, Requested(keystring, keyboard)}
  /\ grabs \subseteq Requested(keystring, keyboard)
  /\ down \in {0} \cup Key
  /\ xq \in Seq({"KeyPress", "KeyRelease"})
  /\ m_stop \in BOOLEAN
  /\ pc \in [main : {"construct", "bind", "start", "connect", "loop", "join", "destroyed"},
             thread : {"off", "check", "next", "emit", "exit"}]
  /\ pipe \in 0..PipeCap
  /\ fault \in {"none", "exit"}
  /\ asked \in 0..Presses /\ answered \in 0..Presses

(* Once the thread waits for events of a process that still runs, the       *)
(* hotkey fires whatever Caps Lock and NumLock are, and nothing else does   *)
(* (xkeybind.cpp:41-61).                                                    *)
HotkeyIsExact ==
  pc.thread = "next" /\ requests = {} /\ fault = "none"
      /\ Meaningful(keystring, keyboard) =>
    Exact(keystring, keyboard, grabs, Key)

PressesIn(q) == {x \in 1..Len(q) : q[x] = "KeyPress"}

(* No press is lost or doubled between the X server and the dialog: each    *)
(* that is not answered is in the X queue, with the thread or in the pipe   *)
(* (xkeybind.cpp:113-126).                                                  *)
PressesAccountedFor ==
  asked = answered + pipe + (IF pc.thread = "emit" THEN 1 ELSE 0)
            + Cardinality(PressesIn(xq))

(* Once stop() or the destructor has set m_stop, the next event ends the    *)
(* thread, unless it blocks on the full pipe whose reader is waiting for it *)
(* in the destructor (xkeybind.cpp:19-27, 35-39, 116-125). A thread with no *)
(* event to come keeps the destructor waiting for ever.                     *)
StopTakesEffect ==
  m_stop /\ pc.thread = "next" /\ xq # <<>> ~>
    \/ pc.thread = "exit" \/ fault # "none"
    \/ pc.thread = "emit" /\ pipe = PipeCap /\ pc.main = "join"

S == INSTANCE Summons WITH over <- m_stop \/ fault # "none"

(* The thread and the dispatcher together are the service: the dialog is    *)
(* called for presses only, once each                                       *)
(* (xkeybind.cpp:113-126, tudor-do.cpp:106-110).                            *)
ImplementsSummons == S!SummonsSafety

(* and for every one of them, until the object is told to stop.             *)
PressesAnswered == S!EveryPressAnswered

=============================================================================
