# A formal model of tudor-do

tudor-do is a run dialog that stays in memory. It lists the directories of
`$PATH` when it starts, keeps those lists up to date from inotify in a thread of
its own, and completes what the user types from them. This directory holds TLA+
modules translated from its source, TLC configurations that check them on small
instances, and proofs, checked by TLAPS, of what holds for every instance.

Paths such as `monitor.cpp:104` are relative to the repository (`src/`).

## 1. Inventory

| Part | State | Operations | Talks to |
|---|---|---|---|
| inotify-cxx (`inotify-cxx.cpp`, `.h`) | `m_watches` by descriptor, `m_paths` by path, `m_buf`, deque `m_events`; per watch path, mask, descriptor, owner, enabled | construct, `Add`, `Remove`, `RemoveAll`, `Close`, `WaitForEvents`, `GetEvent`, `FindWatch`, counts, `SetEnabled`, `SetMask`, `__Disable` | the kernel, by system calls; the path monitor, which calls it from one thread |
| Event masks (`inotify-cxx.cpp:59-230`) | none | `GetMaskByName`, `IsType`, `DumpTypes` | the library |
| Capabilities (`inotify-cxx.cpp:529-640`) | files under /proc, flags of the descriptor | get and set | nobody calls them here |
| Path monitor (`monitor.cpp`, `.h`) | `m_path` (owned by the dialog), `m_watchlist`, `m_stop`, `m_mutex`, the thread | constructor, destructor, `monitor_directory`, `update_directory_listing`, `start`, `stop`, `run` | library; dialog (shared map, `sig_changed` through Glib's dispatcher pipe) |
| Run dialog (`tudor-do.cpp`, `.h`) | `m_path`, entry text, list store, `m_history`, visibility | `update_path`, the GTK handlers, `execute` | monitor, hotkey, GTK |
| Hotkey (`xkeybind.cpp`, `.h`) | display, `m_stop`, `m_mutex`, the thread | `bind_key`, masks, `start`, `stop`, `run` | X server; dialog, by `sig_done` |
| Text utilities (`util.cpp`) | none | `find_and_replace`, `find_last_space_pos`, `split`, `upper`, ... | dialog, hotkey |

What is hard about it:

* two threads, one mutex that the reader of the shared map does not take, and a
  dispatcher whose bounded pipe is written with that mutex held;
* a cache (the listings) kept in step with directories by a lossy stream of
  events, each about a watch that may be gone by the time it is read;
* a library with two maps over objects it does not own, whose entries must stay
  in step through every order of calls, kernel-side removals included;
* stopping a thread that blocks in `read`, and one that blocks in `XNextEvent`;
* exceptions that leave a GTK callback, and strings whose positions are counted
  in bytes in one place and in characters in the next;
* a window that a nested main loop, a focus change and another thread's
  notification show and hide.

What makes each part correct:

* **library**: the tables and the watches agree; every watch of the kernel has
  an owner in the library; the end of a watch is always heard; calls on absent
  watches are harmless; counts are exact.
* **masks**: a dump names what is in the mask, all of it.
* **monitor**: every event is applied once, in order, to the right listing;
  the listing becomes the directory; nothing is left undone while the thread
  blocks; stop works; nobody waits for ever; the reader is not disturbed.
* **hotkey**: what is grabbed is the hotkey whatever the locks are; every press
  shows the dialog once; a stop takes effect.
* **dialog**: the list goes with the text; completion adds and never takes away;
  the history is what ran; known texts only end the program.
* **text**: the last word is found; escaping is undone; `$PATH` is split whole.

## 2. Modules

```
 InotifyKernel   external: directories, the kernel's inotify instance
      |
   Inotify       the library ---------- InotifyClient -- MCInotify
      |     \                                 |
      |      InotifyProofs ----------- InotifyClientProofs
      |            |
 PathMonitor   main thread, run(), mutex, pipe
      |     \      |
      |      PathMonitorProofs
 PathMonitorFeed --(refines)--> ListingFeed <----.
      |                                           \
 MCPathMonitor -- MCMonitorHistory                 \ (instances)
      HistoryProofs                                 \
 TextUtil -- Dialog ----------------------------- TudorDo -- MCTudorDo
      \                                             /  |
       MCTextUtil -- TextUtilProofs ---------------/--- TudorDoProofs
             |                                     |
       MCFunctions                                 |
                                                   /
 KeyGrab -- XKeyBind --(refines)--> Summons <-----'  (instance)
                  \
                   MCXKeyBind, XKeyBindProofs

 EventMask -- MCFunctions                 InotifyLock
      \
       EventMaskProofs
```

`TudorDo` composes the dialog with the two services at their abstract
specifications: `XKeyBind` is shown to implement `Summons`, `PathMonitor` to
implement `ListingFeed` where files are only added. `HistoryProofs` extends
`MCMonitorHistory`, `PathMonitorFeed` and `PathMonitorProofs`; `TudorDoProofs`
extends `TudorDo` and `TextUtilProofs`.

### InotifyKernel (external)

`node` says which directory a path names, `files` what a directory holds, `kern`
is the inotify instance: descriptors per directory, masks, the queue. A system
call is an operator from `kern` to `kern`, so that a library call that makes
several remains one action. Modelled of inotify(7): one watch per directory
whatever path it was set by, the last mask wins, descriptors are not used twice,
events equal to the last queued one are merged, a full queue takes one overflow
mark and drops the rest, `IN_ONESHOT`, `IN_IGNORED` when a watch ends. Other
programs create, delete, rename, move in and out, remove directories, and make a
path name another directory (`Retarget`).

### Inotify

One action per call; a throw ends the action with the state as it is at the throw.

| Code | Definition |
|---|---|
| `InotifyWatch::InotifyWatch` | `Construct`: `m_pInotify` is `"null"` or `"wild"`, since no one sets it |
| `Inotify::Add` | `Add` = `AddRefused`, `AddDisabled`, `AddCollision`, `AddEnabled` |
| `Remove`, `RemoveAll`, `Close` | `RemoveWatch`, `RemoveAll`, `Close` |
| `WaitForEvents` | `ReadEvents`, then `ParseEvent` once per event: the loop is a step per event so that other programs act in between |
| `__Disable` | `Disable`, and `ParseThrows` for its exception |
| `GetEvent` | `GetEvent` |
| `SetEnabled`, `SetMask` | `SetEnabled` = `SetEnabledAside`, `Enable`, `SwitchOff`; `SetMask` |

`fault` records how a process ends that the code does not end itself: `"abort"`
(an exception nobody catches), `"corrupt"` (undefined behaviour that did harm;
the model also lets it do none).

### InotifyClient

The library under a client that makes any sequence of calls, from one thread.
If `Lawful`, it removes only watches that are present; every other call it makes
on any watch that was constructed, added or not.

### PathMonitor

Both threads have a place in `pc`. The main thread: `list`, `watch` (once per
directory), `start`, then `idle`, `scan` (it walks `m_path`), `stop`, `destroy`,
`join`. The monitor thread: `init`, `new`, `add` (once per watch), then `check`,
`wait`, `parse`, `drain`, `lock`, `mutate`, `emit` and back, or `exit`. The
statements of `run()` are split where another thread can see or change something:
around the mutex, around each system call, around each event.

* `Erased` is `v.erase(++find(...))` by what it does: the element *after* the
  first match goes. When there is nothing after it the call is undefined; the
  outcome taken is libstdc++'s (the last element goes) for a vector with
  elements, and a corrupted heap for an empty one.
* `Mutate` while the main thread is in `scan` is a data race: `fault'` is either.
* `Emit` needs room in the pipe. `DispatchChanged` empties it; no slot is
  connected to `sig_changed` in this program.
* The listing is read from the directory in one step. A directory that cannot be
  opened, or goes away in between, is `"opendir"` in `Failures`.

### ListingFeed, PathMonitorFeed

`ListingFeed` is what the monitor promises: listings are taken before it begins;
afterwards they change only by announced arrivals and departures, each applied
once and in order, and all of them are applied unless the process ends.
`PathMonitorFeed` maps the monitor to it: an event is announced when
`WaitForEvents` queues it, applied when `run()` has the mutex.

### EventMask

A mask is the set of its bits. `DumpTypes` follows the `if`s of the code with the
`#ifdef`s as the build has them, including the `else` at `inotify-cxx.cpp:166`.

### InotifyLock

The build with `INOTIFY_THREAD_SAFE`, which this repository does not make but its
header describes. A call is the sequence of lock operations on the way through it
(`Steps`), for every way that ends with a return or a throw of its own. `Throw` is
the throw in `IN_READ_BEGIN` and `IN_WRITE_BEGIN` when the lock operation fails:
glibc gives `EDEADLK` to a thread that holds the lock for writing.

### TextUtil

A string is a sequence of characters, positions count from 0, `npos` is -1.
`find_last_space_pos` is without the loop, which runs once; `SpacePosThrows` is
the case in which `substr(pos - 1, 1)` throws. `Escape` and `Unescape` are the two
calls of `find_and_replace` in the dialog. `find_and_replace` and `split` are a
recursive function and a fold. `MCTextUtil` builds a text one character at a
time (`Keystroke`) and has the reference definitions: what a word, an escaped
space and an entry of `$PATH` are. `MCFunctions` puts these texts and the masks of
`EventMask` into one run: they share no state.

### KeyGrab, XKeyBind, Summons

`KeyGrab` has the pure part: a modifier mask is a set, a hotkey string the sequence
of its parts, a keyboard the modifier map and the keycode of NumLock. `Requested`
is the set of the four grabs, `Refused`, `Overlap` and `Fires` the rules of the X
server (external).

`XKeyBind` has the main thread (`construct`, `bind`, `start`, `connect`, `loop`,
then `join`) and the thread `run()` is (`check`, `next`, `emit`, `exit`). The
grabs are requests that stay in the buffer of the connection until `XNextEvent`
sends them (`Flush`); a refusal ends the process, by the error handler GDK
installs. While the key that fired is held, the server sends every key there
(`Press`). `Summons` is the promise: the dialog is called once for each press.

### Dialog, TudorDo

Each action is an event GTK delivers, with all handlers it runs and all signals
they cause: `SetText` is `set_text` with `on_entry_changed_event`, which GTK does
not call for the same text. The list has three groups, in the order in which the
handler fills it. A text is a sequence of characters; `Bytes` is the
`std::string`, in which a character of `Wide` has three. `mark` is how much of the
text is not selected (inline completion and Tab select the rest).

| Code | Definition |
|---|---|
| `on_entry_changed_event` | `RowsFor`, `ChangeThrows`, in `SetText`; `Exists` is `file_test`, true also of a file that is no directory (`Regular`), at which `Glib::Dir` then throws |
| `on_entry_key_pressed_event`, `on_key_pressed_event` | `SlashAfterTilde`, `Tab` = `TabTilde`, `TabAside`, `TabRow`; `Escape_` |
| `on_completion_match`, `on_completion_match_selected` | the operator of that name, `FillPopup` where it throws; `SelectRow` |
| `setup_completion` (inline completion of GTK) | `InlineComplete` |
| `on_entry_activate`, `execute` | `Command`; `Launch`, or `Fail` and `Acknowledge` around the main loop of the error dialog |
| `on_focus_out_event`, `on_delete_event`, `show` | the actions of that name, `Show` |

The constants are bounded by assumptions the code justifies:
what is typed, the environment and file names are strings, `execute` does not
succeed for an empty command line, which g_spawn cannot parse, a path is of a
directory that can be opened, of one that cannot, or of another file, and a
listing is a set of names.

`on_completion_match` ends without a return for a row that does not match: the
result is either. `TudorDo` adds the press of the hotkey and its call of `show`
(`Press`, `Summon`), and the announcements of the monitor (`Announce`,
`ListingChanges`).

### MCMonitorHistory

`PathMonitor` with two history variables: the names each path has had and the
reads that ended after `m_stop` was set.

## 3. Runs

| Run | Checks | Shows |
|---|---|---|
| `monitor_safety` | `TypeOK`, `WatchTablesAgree`, `NoOrphanKernelWatch`, `NoEventStranded`, `CountIsExact`, `OneReadAfterStop`, `NamesWereThere` | every failure, every change but retargeting, any resolution of the paths, a queue of two that a rename and one more change overflow, `stop()` at any time; no listing names a file its directory never had, whichever events are lost |
| `monitor_settled` | `ListingMatchesDirectory`, `StopTakesEffect`, `CallReturns` | the purpose of the monitor, in the circumstances in which the code achieves it (files arrive, directories may be removed), with interrupted and failing reads; what a stop reaches, and the only two things that can keep its caller |
| `monitor_feed` | `ImplementsFeed`, `FeedApplies`, `EventsDrain` | refinement of `ListingFeed` where files are only added, three changes and a queue of two; the events are worked off |
| `library` | `ClientTypeOK`, `TablesAgreeApart`, `EnabledCountIsExact`, `AddedIsPresent`, `NoEventWhenDisabled`, `EndOfWatchIsHeard` | the library under a client that removes only what is present, with two paths for two directories or for one |
| `functions` | `FindsLastWord`, `EscapingIsUndone`, `SplitRejoins`, `DumpIsSound` | the pure functions against reference definitions: every text of up to six characters; every mask of the twelve events and two flags |
| `hotkey` | `TypeOK`, `HotkeyIsExact`, `PressesAccountedFor`, `StopTakesEffect`, `ImplementsSummons`, `PressesAnswered` | seven hotkey strings, three keyboards, three sets of foreign grabs, a stop at any time |
| `dialog` | `TypeOK`, `RowsAreCurrent`, `HistoryIsWhatRan`, `AbortsOnlyOnBadText`, `CompletionKeepsTyped` | all a user can do to a text at its end, while the hotkey is pressed and a listing changes |

Runs that end in a violation, each a disagreement of the code with its own text
(quoted under `findings` in PROJECT.json):

| Run | Violates | Cause |
|---|---|---|
| `listing_delete` | `ListingMatchesDirectory` | `monitor.cpp:104` erases the next name |
| `background` | `RunsInBackground` | `m_path` is read without the mutex |
| `lib_remove` | `AddedIsPresent` | `Remove` of an absent watch erases by path |
| `lib_enable` | `NoWildPointer` | `SetEnabled` before `Add` follows `m_pInotify`, which the constructor does not set (`inotify-cxx.h:395-402`, `inotify-cxx.cpp:259`) |
| `lock` | `NoLockLeft` | `Add`, `Close` and `WaitForEvents` lock what they have locked |

`monitor_settled` is the list of what has to be true of the world for the
listings to be right. It does not catch what it leaves out; each of these was put
in once, with the constants named, and TLC found the property violated in a few
steps:

* files are deleted (run `listing_delete`: `monitor.cpp:104` erases the next name);
* directories change between the listing, in the constructor, and the watch, in
  the thread (`EarlyChanges = TRUE`): no event, never listed;
* two entries of `$PATH` name one directory (both paths at `d1`): `Add` turns the
  second away, `run()` drops the exception (`monitor.cpp:78`), and the second
  listing stays as it was;
* the kernel's queue overflows (`MaxQueued = 1`): the mark has descriptor -1,
  `FindWatch` gives `NULL` and the mark is dropped (`inotify-cxx.cpp:456`);
* a path comes to name another directory (`"retarget"`): the watch and the
  listing stay those of the old one. `NamesWereThere` is violated as well, if the
  old directory has another path by which a file comes into it: the file is
  listed under the path that has left it (`monitor.cpp:96`).

Nobody in the repository calls `PathMonitor::stop()` or deletes the monitor the
dialog makes. What `StopTakesEffect`, `CallReturns` and `OneReadAfterStop` say, and
the deadlock they exclude by name (`Deadlocked`: the thread blocks on the full
pipe with the mutex, its reader in `stop()` or the destructor), is of the class,
not of this program.

The properties say where the code keeps its promise; their conditions are the
places where it does not. What the models show besides the findings:

* **Listings**: a file that replaces another by rename is listed twice
  (`monitor.cpp:101`); a watch of the kernel is left without an owner when a path
  changes its meaning (`inotify-cxx.cpp:238, 367`).
* **Library**: `TablesAgreeApart` and `EnabledCountIsExact` say "if no directory
  has two paths": `SetEnabled(true)` makes no check for another watch of the
  directory, as `Add` does (`inotify-cxx.cpp:260-267`), and two enabled watches
  then share a descriptor and are counted as one (TLC finds `EnabledAreCounted`,
  without the condition, violated under the constants of `lib_enable`). A dump of
  IN_MOVE_SELF with half of IN_CLOSE loses that half, though the header promises
  all types (`inotify-cxx.cpp:166`, `inotify-cxx.h:354`): the theorem
  `DumpLeavesOut` says so exactly. `run()` calls `SetEnabled`
  before `Add` as well (`monitor.cpp:76`), but on a watch that is enabled already,
  for which the call returns before it looks at the pointer.
* **Hotkey** (`Meaningful` leaves these out): the key's name is looked up in
  capitals, so Alt+space is looked up as `SPACE`, is unknown, and grabs every key
  with Alt; unknown modifiers are skipped; an empty modifier asks for AnyModifier
  together with LockMask, which the server refuses, and the program ends, as it
  does when another client has the combination; when NumLock is on two rows of
  the modifier map, the last one counts. Keys pressed while the hotkey is held
  show the dialog too. Looking up the key and the NumLock mask each opens a display of
  its own and never closes it (`xkeybind.cpp:71, 102`; not modelled: it happens
  once in the life of the program).
* **Text that ends the program** (`AbortsOnlyOnBadText`): a single space that comes
  first (`util.cpp:38`); a slash after the path of a directory that cannot be opened,
  the root included, or of a file that is no directory, as in `/usr/bin/ls/`: the
  test at `tudor-do.cpp:197` is for existence, and `Glib::Dir` throws at `:199`;
  characters of several bytes (`tudor-do.cpp:138, 153, 284`).
* **Last words** (`FindsLastWord`): a word with two escaped spaces or more is cut
  at the second last; so names with several spaces cannot be completed.
* **Completion** (`CompletionKeepsTyped`): wide characters misplace it; a doubled
  slash is lost; a file name with a backslash before a space is escaped once and
  typed as it is, so completing it again takes the backslash away, since the word
  is unescaped before it is looked up but the name is not (`tudor-do.cpp:195-210`).
  A tilde that is the whole text is not expanded by a slash, as
  it is by Tab (`tudor-do.cpp:246-247`).
* **Error dialog**: its answer hides the window, also one the hotkey has shown in
  the meantime (`tudor-do.cpp:74-77`). Both are actions of `TudorDo`; no property
  is about it, since the repository promises nothing else.

### Bounds

* `MaxOps`: changes by other programs, three in `monitor_feed`, two in the other
  passing runs, one or two in the violations. Every interaction found needs at most
  two (a change, and one that races it).
* Two directories and two watches: enough for collisions, for entries that hold
  another's watch, and for events applied to the wrong listing.
* `MaxQueued` is 2 in `monitor_safety`, where a rename (two events) and another
  change overflow it, and in `monitor_feed`, where three changes do; 10,
  never reached, elsewhere. With `BufLen` 2 a longer queue
  needs several reads.
* Two names where a rename, a listing with several entries or the entry next to
  the one erased matters, one elsewhere.
* `monitor_safety` is checked up to permutations of the names and of the
  directories. This is sound: no definition tells one from another, the paths
  resolve in every way (`Anyhow`) at the start, and the properties are invariants.
* `PipeCap` is 1 in the runs about waiting (`monitor_settled`, `monitor_feed`,
  `hotkey`), so that the full pipe is reached with two notifications, and 2
  elsewhere.
* `MaxWd` two or three: the library run needs a third to see a descriptor die and
  a new one take its place; running out of descriptors stands for ENOSPC.
* `functions`: four characters (a letter, the space, the backslash, the colon) and six
  places: two escaped spaces with something before, between and after them.
* `hotkey`: three presses, so that one is with the thread, one in the pipe and
  one in the X queue.
* `dialog`: texts of up to five characters that are typed, any length by
  completion; what the user enters at once is a word of three letters, two wide
  characters, or one of the characters the code looks for, so that a word long
  enough for the list (three) takes one event. One file per group of the list,
  one file with a space, a directory nobody may open, a file whose name is one key
  (so that a slash can be typed after it), a failing and a starting command. Two presses of the hotkey, so that one can come while the error dialog is
  open, and one announcement: each handler is
  independent of how often the services have called before.
* `lock`: two threads; the violation needs one.
* `CHECK_DEADLOCK FALSE` in every run: a process that ended, a monitor that is
  destroyed, a thread blocked in `read` when nobody changes anything more, a text
  or mask that is complete, do stop.

### Fairness

`WF(Run)`, `WF(Owner)`, `WF(Startup)` in `PathMonitor`, `WF(run)`, `WF(Owner)` in
`XKeyBind`: both threads are scheduled by the operating system. `SF(DispatchChanged)`: the main loop may be busy scanning again and again,
but Glib's loop polls its sources and dispatches every ready one of the highest
priority before it polls again, and the dispatcher has the default priority, as GTK's event source has, so a notification that is ready again
and again is served. Nothing is assumed of the user (`BeginScan`, `CallStop`), of
signals and failing reads (`Mishap`), or of other programs (`Environment`, `Keys`).

`WF(DispatchDone)` is part of `WF(Owner)` in `XKeyBind`: there the loop has no
other source that disables it. `TudorDo` and the library under a client are
checked for safety only and assume nothing.

## 4. Proofs

`InotifyProofs` holds the lemmas about the kernel and the library: every system
call keeps `KernelType`, every library call `run()` makes keeps the types and
`WatchTablesAgree`. `PathMonitorProofs` proves about `PathMonitor!Spec`:

* `MonitorInvariant`: `MonitorInv` is inductive;
* `TypeCorrect`, `TablesAgree`, `CountCorrect`, `NothingStranded`: the properties
  of those names in `monitor_safety`, for any `$PATH`, any number of names and
  directories, any bounds;
* `DisableNeverThrows`: the exception of `inotify-cxx.cpp:289` is out of reach of
  `run()`.

None of the properties is inductive by itself. `CountIsExact` needs that the
buffer is parsed to its end before the count is taken and that the deque is empty
before a read (`LoopInStep`); this needs `CountIsExact`. The types of what
`ParseEvent` queues need that a watch found by descriptor exists and is of the
right type (`WatchTablesAgree`), and this is kept by `Add` only for a watch that
is new, constructed and without a descriptor (`StartUpInStep`); that the index
into the watch list stays within `Dirs` needs the relation of the main thread's
index to the length of the list, and that the other thread does not exist yet.
So `MonitorInv` is the conjunction of all of them. `MonitorInv` was checked by
TLC on the instance of `monitor_safety` before it was proved.

`KernelWatchesNamed` is `NoOrphanKernelWatch`, under the
assumption `"retarget" \notin FsOps` (without it TLC finds a counterexample in
two changes). The invariant `NameInv` is about the moments between: a descriptor
is handed out once and belongs to one directory (`WdsApart`); an IN_IGNORED in
the queue or the read buffer is about a watch that is gone (`Ends`), so that
forgetting a watch by it never forgets a live one; and the path of a watch that
has a descriptor names the directory with that descriptor or none (`PathHasWd`), so
that the second call of a collision makes no new watch.

`ListingsSettle` is `ListingMatchesDirectory`, the purpose of the monitor:

    ASSUME SettledWorld  PROVE  Spec /\ []HasRoom => []ListingMatchesDirectory

`SettledWorld` and `HasRoom` are what `monitor_settled` assumes, in general: the
operations are among create, move in and remove a directory, none before the
watches are placed; no directory has two paths at the start; there is a descriptor
for each entry of `$PATH`; and the kernel's queue is never full. Every failure is
allowed, and any stop. The invariant, `SettledInv`, is the accounting the property
is short for: what a directory holds is what its listing names together with what
is on its way to it (`UpToDate`), where the names on their way (`Arriving`) are
those in the kernel's queue and in the read buffer under the descriptor of the
directory, and in the deque and in hand under the path of the watch. For a name to
get from one of these to the next, an event must find its watch by the
descriptor: every listed directory has a watch in the kernel, for the events of a
listing, and the library's table leads from its descriptor to a watch for that path
(`Placed`, `PlacedInTurn`, `ListedAndWatched`). That in turn needs the order of the
start-up, in which nothing is in any queue and the watches before `i` are placed
(`StartsRight`), that the watch of an event still exists (`Owned`), and that no
event is a departure (`OnlyAdditions`). The invariant holds until the thread is
on its way out (`Working`). TLC checked it on the instance of `monitor_settled`,
with all four failures, before it was proved.

`HistoryProofs` proves two properties of the histories:

* `OneMoreRead`: `OneReadAfterStop`, for every system. The thread that counted a
  read after `m_stop` was set is in its last round (`LateInv`), on the way to
  `check` or out, and `m_stop` is never reset.
* `ListingsNameWhatWasThere`: `NamesWereThere`, if `"retarget" \notin FsOps`. An
  arrival is believed by its descriptor alone, so `EverInv` follows it: in the
  kernel's queue and the read buffer an arrival names a file that was in the
  directory of whichever watch has its descriptor, if any still has
  (`TrueEvent`); in the deque and in hand it is about the path of its watch
  (`TrueNews`); and a watch found by the descriptor of a directory is for a path
  that names that directory (`WatchInPlace`). That these last is `Grows`: a watch
  keeps its path, a descriptor gets no second owner, a history forgets nothing.

It also proves `MonitorIsFeed`: `Spec => ImplementsFeed` if
`FsOps \subseteq {"create", "move_in", "retarget"}` (for any other operation TLC
refutes it, `monitor.cpp:104`). `FeedInv` says that no departure is in any queue
and that the watch of an event was constructed; then a step of the monitor is
`Take` (`ListDirectory`), `Begin` (`Start`), `Announce` (`ParseEvent` when the
event has an owner), `Apply` (`Mutate`: the event in hand is the head of the
unapplied ones, `MutateApplies`), `Die`, or nothing the feed sees (`StaysOut`).
Names lost by an overflow are never announced: the theorem is about what is.

`InotifyClientProofs` proves the properties of run `library`, each from the
conditions it needs and for any number of watches and descriptors:

* no condition: `LibraryTypeCorrect`. What is in a table was constructed
  (`Constructed`), and an event in the deque is about a watch that was (`Owned`).
  `RemoveAll` walks the table of descriptors; its fold is shown to keep what each
  removal keeps.
* the client removes only watches that are present: `AddedStays` (`AddedIsPresent`) and
  `EventsForEnabledOnly` (`NoEventWhenDisabled`), from `LawfulInv`, by which an
  entry of a table is a watch that agrees with it (`Filed`) and an enabled watch
  has a descriptor (`EnabledHasWd`); and `EndsAreHeard` (`EndOfWatchIsHeard`), for
  behaviours in which the overflow mark never comes: the library drops the mark
  (`inotify-cxx.cpp:456`), so an end that was lost with it is never heard.
* and no path changes its meaning (`"retarget" \notin FsOps`): `TablesAgree`
  (`TablesAgreeApart`) and `CountIsExact` (`EnabledCountIsExact`). These two
  properties are about directories that are apart, now; the invariant has to be
  about all states, so `ApartInv` says where the watch of each descriptor is
  (`InPlace`), and that the table leads back to it if the paths are apart
  (`Indexed`). The count is exact because the entries of the table and the enabled
  watches that are present are in bijection.

`XKeyBindProofs` proves `GrabsExact`, for every keyboard and hotkey string (the
four grabs are the sets that differ from the modifiers asked for by locks only,
and no more of these exist), and about `XKeyBind!Spec`, from the inductive
invariant `IInv`: `TypeCorrect`, `HotkeyExact`, `PressesSafe` and
`SummonsImplemented`. `HotkeyIsExact` needs that a grab the server has was in the
requests and that a process that runs had none refused (`GrabsInStep`);
that in turn needs that the thread, which sends the requests, does not run before
they are made (`ThreadAfterBind`). `PressesAccountedFor` is inductive next to the
types; the refinement needs it to know that a notification in the pipe stands
for a press not yet answered.

`EventMaskProofs` proves, for every mask of every flag, `DumpSound`
(`DumpIsSound`), and `DumpLeavesOut`: a bit is missing from the dump if and only if it is one half of
IN_CLOSE without the other, and IN_MOVE_SELF is in the mask.

`TextUtilProofs` proves the three properties of texts in run `functions` for every text of every
length over any characters: `NamesSurviveEscaping`, `LastWordFound` and
`SplitLosesNothing`. They are about a recursive function and a fold, so they need
induction on the length of a text, which is stated with a set where the library's
induction theorems have a predicate (`TextInduction`: by a shortest counterexample,
from the well-foundedness of the naturals), and that the functions defined by
recursion exist and obey their equations. From these come the equations of
`find_and_replace` and `split` (what each does with one more character), and from
those what becomes of a space, a backslash and a colon.

`TudorDoProofs` proves the safety properties of run `dialog` for any texts, files,
variables, names, listings and bounds: `DialogTypeCorrect`, `RowsStayCurrent`,
`AbortsExplained`, `HistoryRan` and `CompletionAdds`. The invariant, `Kept`, is of
three parts: every text there is (in the entry, the rows, the history) is a text,
and none that is offered is empty (`TextsKept`); in a process that runs, the rows
are what the handler makes of the text that is there, which it got over
(`RowsKept`); and a process that was aborted has a text of the three kinds (`Bad`):
a single space first, a wide character, a slash after what cannot be opened as a
directory.
`RowsKept` holds because every way to set the text goes through `SetText`, and the
one event that adds to the history clears the text. `CompletionAdds`, which is about
texts without wide characters and doubled slashes and trees without a backslash
before a space (`Plain`), follows from it:
the row that is completed was made for the text that is there, so it goes on from
its last word. For a remembered command, a variable or a name from the listings that
is what `RowsFor` asks of it. For a file it is the longest of the arguments: the word
is cut at its last slash, unescaped, put together with the name that was found and
escaped again, which gives the word back only if it had no doubled slash
(`PathIsWhole`), escaping goes into the parts (`EscapeFullPath`) and the name has no
backslash before a space (`FileRowExtends`). And the row is put where the word begins
only if characters are bytes (`PlaceIs`, `BytesOfPlain`).

Assumptions: `KernelAssumption` (names are finite, `NoInode` and `NoName` are
distinct from the rest, bounds are naturals), `LibraryAssumption` (`NULL` is
neither a watch nor an object, a read takes at least one event),
`MonitorAssumption` (`$PATH` is a nonempty sequence of paths, one watch object
per entry, the pipe holds at least one notification, `NULL` is no event),
`FeedAssumption` (`Absent` is no set of names), `KeycodeAssumption` (keycodes
are positive: 0 is AnyKey), `XKeyBindAssumption` (hotkey strings have a part, the
pipe holds at least one notification), `TextsAssumption` (what is typed, `$HOME`,
variables, files and commands are strings; no empty command is started),
`FilesAssumption` (what can be run is a file; a directory that can be opened is
neither a file nor one that cannot),
`ListingsAssumption` and `MaxNewsAssumption` (listings are sets of names, the bound
is a natural), `ClientAssumption` and `BitsAssumption` (`Lawful` is a Boolean, bits are
among those there are). TLC evaluates them in every run that uses
the module.

Every invariant and every action property of the passing runs, and both
refinements, are stated by one of these theorems. Only model-checked: the
liveness properties (`EventsDrain`, `StopTakesEffect`, `CallReturns`,
`FeedApplies`, `PressesAnswered`), which depend on fairness and are
out of TLAPS's reach. The theorems with conditions say less than the runs do where
a condition fails; where TLC finds the property violated without the condition,
this is said above.

## 5. Not modelled, and the plan

Not modelled: capabilities and descriptor flags (files under /proc and `fcntl`
flags, no state of the program), option parsing, packaging, rendering by GTK, the
pop-up's own selection by arrow keys, edits in the middle of the text (the
handlers move the cursor to the end whenever the word is a path).

Planned:

1. `TudorDo` over `ListingFeed` without the restriction to added files, once
   `monitor.cpp:104` erases the name that was deleted; the same for
   `SettledWorld`, in which deletions are then allowed, and for `MonitorIsFeed`.
2. That `Placed` survives two paths for one directory, once `run()` does something
   about the watch that `Add` turns away (`monitor.cpp:78`).
