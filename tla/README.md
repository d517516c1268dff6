# A formal model of btop

TLA+ modules that model the concurrent core of this repository's btop and the
parts of it that compute, remember and draw; the TLC configurations that check
them on small instances; and theorems about them that TLAPS checks. Paths are
relative to the repository; `btop.cpp:915` is short for `src/btop.cpp`, line 915.

    tlc -workers 2 -config Runner.cfg MCRunner.tla       # one run
    tlapm Runner_proofs.tla                              # one module's proofs

`PROJECT.json` has the runs, the lines each definition models, a mutant for
every property (a slip in the code that the property catches), the hazards, the
findings and the theorems. In the modules such slips are marked `slip:`.

## 1. The system

btop has two threads. The **main thread** runs the event loop, the application
state machine, the keyboard and the menus. The **runner thread** sleeps on a
semaphore; each permit makes it collect (CPU, memory, network, processes, GPU),
draw the boxes and write one frame. **Signal handlers** interrupt either thread,
push an event and send SIGUSR1.

| Component | State | Operations | Talks to | Hard part | What makes it correct |
|---|---|---|---|---|---|
| Event queue (`btop_events.hpp`) | `head_`, `tail_`, `slots_` | `push`, `try_pop` | handlers, runner, main loop | lock-free, wrapping counters, more producers than it is written for | a bounded FIFO: nothing lost, torn or repeated |
| Runner (`btop.cpp:429-1022`, `btop_shared.hpp:436-453`, `btop_state.hpp`, `btop_dirty.hpp`) | `runner_state_tag`, `do_work`, `mtx`, `pending_dirty`, `current_conf` | the cycle; `run`, `stop`, `wait_idle`, `request_redraw`, `clean_quit` | main loop, menus, configuration | a tag both threads store, deadlines, stall restart, cancellation | exclusive access to `current_conf` and the settings; requests are drawn; quitting ends |
| Application state machine and main loop (`btop.cpp:285-425, 1024-1143, 1655-1844`) | `app_state`, `app_var`, the queue | `on_event`, `on_exit`, `on_enter`, the drain, the chains, tick, poll | all of the above, the terminal | order of events, transient states, wake-ups | every event is dispatched; transient states end; no wake-up is lost |
| Input (`btop_input.cpp`) | `fsm_state`, `history` | `poll`, `get`, `process` | menus, runner, configuration | state shared with the menus through `pause_output` | keys go to the menu exactly while one is open |
| Menus (`btop_menu.cpp`, `btop_menu_pda.hpp`) | stack of frames, `redraw`, `overlay`, `pause_output` | `show`, `process`, eight handlers | runner, drawing | nested frames, flags cleared in several places | nothing of a closed menu stays, boxes come back |
| Configuration (`btop_config.cpp`) | settings, their cache while locked, presets, boxes | `lock`, `unlock`, `set`, `flip`, `toggle_box`, `apply_preset`, `load`, `write` | runner reads it while it collects; keys, menu, resize and reload write it | writes during a cycle, three copies of the boxes, refused changes | a cycle reads one version, the last set wins, what is drawn is laid out, a restart finds what was changed |
| Terminal (`btop_tools.cpp`) | raw mode, size | `init`, `restore`, `refresh` | main loop | suspension in between | btop's mode whenever btop reads or draws |
| Screen (`btop_draw.cpp:306-745`) | two cell buffers, `force_full` | `resize`, `swap`, `render_to_buffer`, `diff_and_emit`, `full_emit` | runner, the terminal | differential update with the terminal's own cursor and colours as hidden state | the terminal shows the last frame |
| Graphs (`btop_draw.cpp`, `RingBuffer` in `btop_shared.hpp`) | ring of samples, two phases of a graph | `push_back`, `resize`, `_create`, `operator()` | collectors, boxes | a ring that is resized full, two renderings that take turns | the ring is a window of the newest samples, the graph shows what it was given |
| Process list (`linux/btop_collect.cpp`, `btop_shared.cpp`) | `proc_map`, `current_procs`, dead processes, counts | `collect`, `tree_gen`, filter, collapse | kernel, keys, the view | one list rebuilt, filtered and made a tree in place, or paused while its processes end | a row per process that matches, and the count of rows |
| Process view (`btop_draw.cpp:2290-2470`, `btop_input.cpp`) | `proc_start`, `proc_selected`, `selected_pid`, what is followed and detailed | keys, `selection`, `draw_proc_follow_logic`, the bounds of `draw` | list, settings | a selection kept as a row over lists that change, and a banner that takes a row | signals go to the process on the selected row |
| Line editor (`Draw::TextEdit`) | text, byte and character position | `command` | filter, options | UTF-8, two positions | one key edits one character |
| Collectors (`linux/`, `osx/`, `freebsd/`, `openbsd/`, `netbsd/`) | previous counters | `collect` per box | runner | failures, restarting counters, interfaces that come and go | totals count no byte twice but after a failed reading, and only grow |
| io_uring reader (`linux/io_uring_reader.cpp`) | submission and completion rings | `read_batch` | the Linux collector | batches cut short | not modelled, see section 7 |
| Themes, command line, log, sensors, vendored code | | | | | not modelled, see section 7 |

## 2. Modules

| Module | Models | Extends |
|---|---|---|
| `EventFifo` | the abstract queue: a sequence of at most `Capacity` events | |
| `EventQueue` | `push` and `try_pop`, one step per load, store, and begin and end of copying a slot | |
| `Runner` | the runner thread and every function that drives it; `Client` issues the calls in any order | |
| `AppLoop` | main loop, application state machine, signals, terminal | `Runner`, in the place of its `Client` |
| `Menus` | input state machine, menu stack and dispatch loop | `Runner`, in the place of its `Client` |
| `SignalMenu` | the process that the signal and renice menus name, and the one they reach | `Menus` |
| `Screen` | the frame from the boxes' characters to the terminal's cells, with the terminal | |
| `Window` | the abstract time series: the newest samples, as many as there is room for | |
| `History` | `RingBuffer` and `Draw::Graph`, filled by a collector and resized with the box | |
| `NetStats` | `Net::collect()`, its interfaces and totals, and the kernel's counters | |
| `Settings` | the settings with their lock, cache and file, the boxes, the presets and the layout | |
| `ProcList` | `Proc::collect()` and the tree: who is in the list, hidden and counted | |
| `ProcView` | the rows in view, the selection, following, details and pausing | |
| `LineEditor` | the abstract line: characters and a cursor between them | |
| `TextEdit` | `Draw::TextEdit` on bytes, with `ulen`, `uresize` and `luresize` | |
| `MC...` | the instances for TLC; `MCParts` chooses `EventQueue` or one of the last seven components and runs it | |
| `ModArith` | lemmas on `%` and on the least number of a set | |
| `EventQueue_proofs`, `Runner_proofs`, `AppLoop_proofs`, `Menus_proofs` | the proofs about those modules | each its component |
| `Collect_proofs` | the proofs about `History`, `NetStats` and `ProcList` | those |
| `Draw_proofs` | the proofs about `Screen`, `ProcView` and `TextEdit` | those |
| `Parts_proofs` | the proofs about `Settings`, and about the parts side by side | `MCParts`, and the proofs about the other parts |

**State.** In `Runner`, `tag`, `app`, `permits`, `pending`, `queue` and `wake`
are what the threads share (`runner_state_tag`, `app_state`, the count of
`do_work`, `pending_dirty`, the event queue, a pending SIGUSR1). `rpc` is the
line the runner is at, `taken` the bits of its cycle. `tty` is the terminal's
mode. `locked` is `Config::locked`.

**The main thread is a list of steps.** `todo` holds what it still has to do.
A call puts the callee's steps in front (`Become`), an early return leaves them
out (`Return`). So `run()` is `Run == AwaitDone \o <<"restart", "guard">>`, and
its guard adds `unlock`, `configure`, `trigger`, `awaitStarted`, or nothing. One
action performs one step, and a step touches what the threads share at most
once. The composed modules add steps of their own. This keeps `clean_quit()`
inside `stop()` inside `clean_quit()`, as the code can nest them.

**The mutex.** The runner holds `mtx` from start to end, so `stop()`'s
`try_lock` fails exactly while it lives: the mutex is a function of `rpc` and of
the steps `stop()` has left.

**Deadlines.** Time is not counted. A timed wait may end when what it waits for
has come, or when its deadline is in the constant `Slow`, which names the
deadlines ("start", "work", "brief", "join") the runner may miss. `Slow = {}` is
a runner that is always in time; a wait for something that can no longer come
always ends. `Slow` full lets every deadline pass at any moment.

**The queue in `Runner`** is the abstract one of `EventFifo`. `EventQueue`
justifies it for one producer, and the run `EventQueueMPSC` shows what is
different with the producers btop has; what follows from `Runner`, `AppLoop` and
`Menus` is therefore about btop with a queue that keeps its promise.

**`Screen`.** A frame is three phases: `phase = "draw"` puts characters and
cursor movements into `current` with the pen the last SGR sequence left,
`"emit"` walks over the cells. Emitting writes to `display`, which has a cursor
and a pen of its own; `last` and `lastPen` are what the loop believes of them.
The boxes' output is any sequence of moves, pens and glyphs. The abstract
promise is the invariant `DisplayShowsFrame`: between frames `display` is
`previous`.

**`Settings`.** `values` and `cache` are the arrays and their temporary
counterparts; `wanted` remembers what each setting was last given, so that
"the last set wins" can be said at all. The boxes exist three times, as the
setting `shown_boxes`, as `current_boxes`, which is collected and drawn, and as
`laidOut`, what `calcSizes()` found. A cycle of the runner is a flag with the
position of the selection it owns; that `unlock()` waits for it is `Runner`'s
matter, with the exceptions of the findings 2 and 3.

**`SignalMenu`.** The pid of a menu exists four times: as `drawnPid`
(`Proc::selected_pid`, the runner's), as the setting `selectedPid`, as `named` in
the text of the menu, and as `reached` by `kill()` or `set_priority()`. `asked`
and `noUpdate` are `run()`'s argument on its way to the cycle. Details are not
open and no key sorts or filters the list meanwhile: the list changes by itself.

**`ProcList`, `ProcView`.** `ProcList` is the list before it is drawn, `ProcView`
the rows that are left of it. They are separate since their only link is the
list itself: `ProcView` takes any list at any update, which is more than
`ProcList` delivers.

**`NetStats`.** The kernel is part of the model: `counter` may restart with the
driver, or go away with the interface; `sent` is the bytes really carried, which
btop cannot see and the totals are compared with. Any reading
may fail, by itself or since its interface went away after `getifaddrs()` listed
it: the fallback of `readfile()` is "0", a number that does not parse is left 0,
and `collect()` takes the 0 for a restart. The history variable `again`, which is
no state of btop, counts what that adds: the last value, unless the counter had
really restarted below it.

**`History`, `TextEdit`.** Each refines an abstract specification of one page.
The graph has no abstract module: `plotted` remembers the samples it was given,
and `GraphShowsPlotted` says that its characters are those, in pairs.

**Memory order** is sequentially consistent. The tag is stored with release and
read with acquire order, or the default, and no property relies on the order of
two relaxed accesses.

## 3. Runs

| Run | Checks | Shows |
|---|---|---|
| `EventQueueMPSC` | `ImplementsFifo`: **violated** | two producers claim one slot |
| `Runner` | `ConfigureExclusive`, `UnlockExclusive`, `PermitsBinary`, `ExitAfterRunner`, `QuitCompletes`, `Redrawn` | a runner in time: no cycle sees a changing configuration, the binary semaphore is never released twice, nothing requested is lost, quitting ends after the runner |
| `RunnerStalls` | `TypeOK`, `WokenIsInactive`, `QuitCompletes` | every deadline may pass, btop may be suspended or reload, collectors throw: the tag protocol holds and quitting still ends |
| `RunnerWaitIdle` | `WaitIdleReturns`: **violated** | `wait_idle()` may wait for ever |
| `RunnerStop` | `UnlockExclusive`: **violated** | after `stop()` for a reload or resize, settings are written under a running cycle |
| `RunnerError` | `QuitCompletes`: **violated** without `pthread_timedjoin_np` | in state Error the runner does not end |
| `AppLoop` | `AppTypeOK`, `NoDeadlock`, `NoLostWakeup`, `PollInAppMode`, `EventsDrained`, `BackToRunning` | signals, keys, resizes and faults in any order: the two threads wait for each other in three places only, every event wakes the loop, and btop comes back to running |
| `AppLoopQuit` | `QuitHonoured`: **violated** | a Quit behind a Reload in one drain is dropped |
| `Menus` | `MenuTypeOK`, `NoGhost`, `NeverFrozen`, `MenuReturns` | menus over a running runner |
| `MenusInput` | `InputFollowsMenu`: **violated** | with default settings a menu loses the keyboard at its first key |
| `MenusSignal` | `ReachesTheNamed`: **violated** | a signal goes to another process than the menu names |
| `Parts` | `PartsTypeOK` and, per part, the properties below | the event queue and the components of the second half of section 2, each in turn |

What some of these leave out, by their statement: `Redrawn` asks nothing for a
cycle that `stop()` cancelled, that a stall restarted, or that `coreNum_reset` gave
up, where requested bits may be lost; `QuitCompletes` nothing once a join without a
deadline waits for ever (`JoinHung`); `ExitAfterRunner` is about a runner in time,
not about the join that gives up; `NeverFrozen` rules out boxes paused for good, not
those paused just behind a closed menu until the next key.

`Parts` has one type invariant for all parts, and of each part:

| Part | Properties | In words |
|---|---|---|
| `EventQueue`, one producer | `Bounded`, `NoSlotRace`, `ImplementsFifo` | the ring is the bounded FIFO through every wrap of its counters, and no slot is read while it is written |
| `Screen` | `DisplayShowsFrame` | between frames the terminal shows the frame drawn last, after any sequence of partial and full frames and resizes |
| `NetStats` | `NeverOvercounts`, `TotalOnlyGrows`, `SelectedKnown` | a total is never more than what was carried and what failed readings made count again; it falls only after `z`, also on a failed reading; the selected interface is one that was collected, or none is there |
| `History` | `ImplementsWindow`, `GraphShowsPlotted` | the ring is a window of the newest samples; the graph shows what it was given, whichever phase is out |
| `Settings` | `LastSetWins`, `StableInCycle`, `DrawsWhatIsLaidOut`, `SavedUnlessCached`, `PresetExists` | the value given last is the one in force or waiting; getters do not change in a cycle; the boxes drawn are those laid out; a restart finds the changes; `p` and `P` stay in the list of presets |
| `ProcList` | `ShownCounted`, `PausedListKept` | the number of rows is the number the view scrolls by; a paused list loses no row |
| `ProcView` | `SelectedIsShown`, `FollowedIsSelected`, `PauseKeepsSelection` | the pid that signals go to is the one on the selected row; the followed process is on the row that is selected or returned to; pausing selects no other process |
| `TextEdit` | `EditsALine` | on UTF-8 bytes, each key is one step of `LineEditor` |

### Bounds, and why they are enough

- `EventQueue`: 2 slots, counters modulo 8, 2 events. The counters wrap with the
  ring empty, half full and full; 8 is four times the capacity, so a slot is
  reused in each residue. The proofs have no bound.
- `QueueLength` 1 to 3: a queue of 1 is full after one event; 3 holds three
  events in one drain.
- `MaxPermits` 2 or 3: more than the one a binary semaphore may count, so that a
  double release is seen.
- `MaxFaults`: 2 exceptions or core count changes, enough for a fault while the
  last one is being handled.
- `MaxInputs` 2 (`AppLoop`): signals, keys, resizes and faults together. Every
  pair in every order, at every point of the loop and of the cycle.
- `MaxKeys` 3 (`Menus`): open a menu, act in it, act again; a resize counts as
  one. Ticks are unbounded. `Opened` has a panel that leads to others and a
  message box that leads to another. `Background` is
  {FALSE} in the run `Menus`, the setting under which the runner pauses the boxes
  (the options menu can switch it), and {TRUE}, the default, in `MenusInput` and
  `MenusSignal`. The sizes are one that fits every frame and one
  that fits the message boxes only. `MenusSignal` has two processes, and keys
  to open a menu and to act in it.
- One box bit besides `ForceFullEmit`, or none where no property is about them:
  the bits are independent.

- `Parts`. Where a theorem of section 5 states the property, the bound only
  decides which slips TLC finds. `Screen`: 2 x 2 and 1 x 1 cells, so that there
  are neighbours in a row, a wrap to the next row, gaps, and a resize that
  shrinks and grows; two pens that differ in both colours and an attribute.
  `NetStats`: two interfaces, one of which comes and goes, and two bytes, in
  one direction or one in each (`MaxSent`): enough for a restart, a total zeroed,
  and another restart. Readings fail, in one direction or both, until they have
  made two bytes count again (`MaxAgain`): two failures with readings between
  them, or one at the largest value. `History`: capacities 1 and 4, a graph of 2 characters (up to four
  samples): an odd and an even number of samples, a ring that is full, wraps
  and is resized both ways. `Settings`: a list of presets that shrinks on
  reload, with a box that is not `Present`; a terminal too small for two boxes.
  `ProcView`: lists of none, four and five rows with a row or two in view, the
  details and the banner open or not; lists share processes in other orders.
- `ProcList` has three processes, a chain of three with a child that is adopted
  by init, which is the smallest with a collapsed branch within a collapsed branch
  and a parent that ends; one filter that matches the middle of the chain.
- `TextEdit` has texts of up to four bytes, with characters of one to three: the
  cursor before, behind and between wide and narrow ones.

In `Parts` the parts do not interact, so the states of the run are the sum, not
the product, of theirs, and what holds in the run holds in each part. Deadlock is
checked there. TLC's own check is off in `Runner` and what extends it: the process exits, and
without a user or a signal the main thread may wait. That the two threads do not
wait for each other is the invariant `NoDeadlock`, which names the waits one by
one; what must go on is said by the liveness properties.

### Fairness

`WF(RunnerThread)` and `WF(MainCall)` (with the loop's own steps in the composed
modules): the operating system schedules both threads. Weak fairness is enough,
since a blocked step (semaphore, futex, join) is awaited continuously. Nothing
is assumed of users, signals, collectors that fail, or the terminal's size. In
`EventQueue` and in `Parts` no fairness is assumed and no liveness stated: their
operations are calls that return, and who calls them is `Runner`'s matter.

Liveness properties name their exceptions. `Hung` is the state in which the main
thread waits for a runner that waits for it: the violation of
`RunnerWaitIdle`, and the join of a thread that was cancelled too late.
`Waiting` adds the waits for the user.

## 4. Findings

1. **Event queue** (`btop_events.hpp:96`): written for one producer, used by
   signal handlers, the runner and the main thread. Two pushes load the same
   `head_`; an accepted event is overwritten.
2. **`wait_idle()`** (`btop_shared.hpp:451`): the tag is loaded a second time
   for the futex. If the runner went Idle in between, the main thread waits for
   the tag to leave Idle.
3. **`stop()`** (`btop.cpp:997`): stores Stopping first, so `is_active()` is
   false and the waits are skipped; resets the tag to Idle while the runner is
   still collecting. `Config::unlock()` after it finds Idle, does not wait, and
   writes the settings under the cycle. The run `Runner` therefore leaves the
   reload out, and `UnlockExclusive` holds there for what does not call `stop()`
   on a runner at work, and for quitting.
4. **Error exit** (`btop.cpp:238`): the loop ends for Quitting only; without
   `pthread_timedjoin_np` the join after a ThreadError does not return.
5. **Dropped Quit** (`btop.cpp:355`): events behind a Reload, Resize or Sleep
   are dispatched in a transient state and fall into the catch-all. The unit
   tests assert this for each pair (`ResizingQuit_PreservesState`,
   `ReloadingQuit_PreservesState` and `SleepingQuit_PreservesState`,
   `tests/test_transitions.cpp:173, 217, 261`), so that it is the drain, which
   leads there, that disagrees with `btop_state.hpp:15`.
6. **Menu input** (`btop_input.cpp:267`): `pause_output` is taken as the sign of
   an open menu, but is only ever true when `background_update` is off.
7. **Menus about a process** (`btop_menu.cpp:1116`, and 989 and 1734): the pid
   is read again at each key, the text only at a redraw. With `background_update`
   the list goes on behind the menu, `unlock()` takes over the process that came
   to the selected row, and the signal or priority goes to that one.

## 5. Proofs

Proved for every value of the constants that satisfies their assumptions.

**`EventQueue_proofs`**: `TypeCorrect`, for any number of producers, races included;
and, from `OneProducer`, `NeverOverfull` and `RaceFree`. Neither boundedness nor freedom from races is inductive: a producer
between its check and its store holds a promise that lives in its local `h`. The
invariant `IInv` adds that `h` is still `head_` (`PushCurrent`), that a
producer past its check has room (`PushHasRoom`) and a consumer past its check
an item (`PopHasItem`). A race needs `Index(head) = Index(tail)` with both copies
under way, so the counters are equal modulo the capacity although they are
between 1 and `Capacity - 1` apart; `IndexDistinct` excludes it, from `ModArith`
and the assumption that the capacity divides the counters' range.

`RingImplementsFifo`, in the same module: the refinement mapping is the sequence
of slots from `tail` to `head`. `RInv` adds to `IInv` that the slot being filled
gets the producer's item and the slot being emptied is what the consumer holds.
`PushPublish` maps to an append, `PopRelease` to taking the head, the load of
`head_` to the offer of an event and `PushFull` to its refusal, every other step
to a stutter; that the capacity divides the range makes the mapping survive the
wrap.

**`Runner_proofs`**: `TypeCorrect`, which needs that every list of steps a call
puts into `todo` is made of steps; and `WokenInactive`, for every set of calls
and of missed deadlines. Its invariant `WaitInv` says that the tag is inactive
all the way from the runner's store of Idle to its store of Collecting: nobody
else ever stores an active tag.

`ConfiguresAlone`, `UnlocksAlone`, `OnePermit` and `ExitsLast`, in the same module,
are about the run `Runner` for every set of boxes and bounds. They assume `Prompt`: no
deadline that counts is missed and no call stops a runner at work, except to
quit (finding 3 is what happens otherwise). Exclusion is nowhere a matter of one step: it
follows from what the earlier waits have seen. `ExclusionInv` says what the main
thread knows at each step it can be at (`RunInv`, `QuitInv`): from the first wait of
`run()` no cycle is about to begin (`Resting`), behind the second none is under
way (`Quiet`), and that the two stay true until the permit is given. What comes next is in
`todo`, so the invariant also has that any two neighbours there may follow one another (`Chain`);
lists that are put in front keep this by `ChainConcat`.

`NeverDeadlocked` (`Runner_proofs`), `LoopNeverDeadlocked` (`AppLoop_proofs`) and
`MenusNeverDeadlocked` (`Menus_proofs`) say of all calls, missed deadlines,
exceptions, cancellations and restarts of the thread, and of `stop()` on a runner at
work: wherever one thread waits, for the tag, the semaphore, `mtx` or
the end of the thread, the other has a step to take, but in three places: finding 2, `run()`
joining a runner that sleeps, and finding 4. `MainWaits` and `RunnerWaits` list the
places. One invariant, `HangInv`, serves all three. It says who will make a
wait end: the tag is Stopping only with the main thread inside `stop()` or leaving
(`StopInv`), the lists in `todo` release what they take (`Entered`, `Live`), a
runner that has not begun while `stop()` holds `mtx` will find the tag as `stop()`
left it (`NewInv`), and on the way out a permit is there, or not needed, before
the main thread waits for the answer (`EndInv`). The steps of the runner
(`HangThread`) and of the main thread inside a call (`HangCall`) are proved once,
over any set of steps that contains them; each of the three modules adds that its own
calls are made of `Proper` lists.

**`AppLoop_proofs`**: `AppTypesCorrect`, `NoWakeupLost` and `ReadsInAppMode`, for
every set of signals, boxes, missed deadlines and lengths of the queue. `AppInv`
adds to the types the shape of `todo` (`Shape`): the loop's own steps come last, a
`Term::restore` is followed by the stop or the exit, and the process is stopped
only asleep and with the queue still to be drained. `WakeInv`: an event in the queue has
either a signal pending or about to be sent, or a drain or an upkeep before the
wait (`WillDrain`), however the calls in between nest. `TtyInv`: in the mode of the
shell the process is gone, stopped, or asleep with a Resume on its way to
`Term::init`. The Resume is on its way only if the queue took it: a push into a
full queue is dropped, so `ReadsInAppMode` has the hypothesis `RoomToResume`, that
the queue is not full at the moment of a SIGCONT. With a full one btop would go on
in the shell's mode; the run `AppLoop` has fewer inputs than its queue has slots.

**`Menus_proofs`**: `MenuTypesCorrect`, `NoGhostLeft` and `NothingFreezes`, for every
size, set of frames the user opens and set of missed deadlines. `MenuInv` has
the types, that `poll` is the last step and that the rounds of `Menu::process` are not
nested (`TodoInv`), and that a menu or such a round answers for an overlay
(`GhostInv`). `NothingFreezes` is about two threads and a flag each copies from
the other: `FrozenInv` says that with no menu and the input handed back neither
the output is paused nor can a cycle that ends pause it, and that until then
`run()` is still to assign `current_conf` without the overlay. Only `stop()` could
keep `run()` from it, through a tag that stays Stopping: `StopInv` says that the tag is
Stopping only as long as the main thread is inside `stop()` or leaving for good.

**`Draw_proofs`**, of `Screen`: `DisplayIsFrame`, for every size, glyph and pen.
`ScreenInv` says what holds while cells are emitted (`EmitInv`): up to the scan
the display is the new frame, from there on the old one or a cleared screen; and
once a cell was written, the terminal's cursor and colours are where the loop
believes. That the first cell of a frame sets no attributes it lacks is not part
of it: cells are compared by `Alike`, see section 6. Of `ProcView`:
`SelectionStands`, `FollowStands`, `PauseStands`. `ViewInv`
knows that outside of a key the selected row is in the list and in view, and
that the banner is up while the list is paused, and still up when the key that
ends the pause was pressed: the row the banner takes is what the arithmetic of
`select_max` turns on.

Of `TextEdit`: `EditsLines`, the refinement of `LineEditor`, for every set of
characters of one to four bytes and texts of any length. The witness of `LineInv` is
what the code does not have: the characters, and the place in bytes where each of
them ends (`Spells`). `LeadsAre` and `ULenIs` say what `ulen` counts, `UResizeIs` and
`LUResizeIs` that the loops of `uresize` and `luresize` stop at such a place, and
`SpellsCut` and `SpellsPut` that cutting and joining there gives characters
again; then each key is one lemma. `LUResizeIs` needs that a character comes
before those that are kept, as `luresize` never looks at the first byte: Backspace
calls it with exactly one more. `SpelledIs` and `EncodedIs` show that
bytes are read back as these characters and no others, which makes the mapping
one.

**`Collect_proofs`**, of `NetStats`: `TotalsAreCarried` and `TotalsGrow`, for every
set of interfaces, for counters that restart at any time and readings that fail at
any time, and `SelectedIsKnown`. `NetInv` bounds, per link, what was read and what was
rolled over by what was carried and counted again, split where the counter last
restarted, and says that a link without an interface has no statistics left. `SelectedInv`
rests on an interface that is always there (`Permanent`).

Of `History`: `RingIsWindow`. The mapping reads the ring from `head_`;
the lemmas are about indices modulo a capacity that is a variable, with
`ModArith` for the wrap: pushing into a full ring is `Tail` and `Append`, and
resizing keeps the newest samples. And `GraphIsPlotted`, for all samples and widths
above one, in either mode. `Aligned` is the invariant of the loop of `_create()`: both
sides show the series up to the place it has come to, one of them a sample
behind, and their lengths differ by at most one (`InTurn`); the constructor makes the
number of rounds even, so that they end equal. `Shows` is what drawing keeps: it
says nothing of the leftmost character of the side behind, which lacks its left half
and is dropped before it comes to the front. Two hypotheses are needed, as TLC
shows without them. A tty graph of one column, drawn anew over two samples or more, has a
blank for its left half (`GraphWidthsAssumption`; btop's have four columns and
more). And a ring resized to nothing forgets the sample that the next
character's left half stands for (`0 \notin Rooms`; a box that is drawn has a width).

Of `ProcList`: `RowsAreCounted` and `PausedKeeps`, for every set of processes, parents
and filters. What hides a row is spread over flags of the row (`filtered`), flags
of those above it (`collapsed`) and the count, `filter_found`, which `tree_gen` adds
to as it goes. `CountInv` says when count and flags agree: always once
the tree was made (`HiddenInv`), and with no branch collapsed also before it is made
again (`OpenInv`), except for what `muddled` marks. The lemmas (`UpdateCounts`,
`OpenCounts`, `ArrangeCounts`) follow one call of `_tree_gen` over all rows, with
"is above" as the least set closed under children (`Closed`), so that trees
need no induction.

**Loops.** The library's induction theorems cannot be instantiated here, but
`LeastNatural` in `ModArith`, proved from well-founded sets of finite sets, does their
work: a loop that goes wrong has a first round in which it does. `RoundsAre` uses it
to show that the recursive function of the loop of `_create()` exists, and `RoundsKeep` that
each round keeps `Aligned`.

**`Parts_proofs`**, of `Settings`: `SetterWins`, `SettingsStand`, `BoxesAgree`, `ChangesSaved`
and `PresetFound`, for all boxes, presets and sizes. `SettingsInv` is the
conjunction of three invariants that need one another only through the setters,
which is a lemma for each kind of them (`StoreKeepsInv` and those after it):
`StoreInv` (a setting has one value, in the cache if it is there, and the cache
is in use only while locked), `SavedInv` (`write_new` is set from the first change
the file does not have) and `BoxesInv` (`current_boxes` is what `shown_boxes` was
last set to, and laid out when the boxes are up). `PresetInv` adds the types of
the lists of presets.

**Types of the parts.** `TypeCorrect` of the queue, `ScreenTypesCorrect`,
`ProcViewTypesCorrect`, `TextEditTypesCorrect`, `NetTypesCorrect`,
`HistoryTypesCorrect`, `ProcListTypesCorrect` and `SettingsTypesCorrect` are the type
invariants of the parts, each with the invariant of its part: a cursor is inside
its text because the text is characters with known ends, a count is a number because it is
what the flags say, the shown preset is a number because the list is never empty. Then
`PartsKeepApart` says that the composition `MCParts` runs its parts by their own
specifications, so that what is proved of a part holds of the run `Parts`, and
`PartsTypesCorrect` that all of them keep to their types.

**Only model-checked**: the liveness properties `QuitCompletes`, `Redrawn`,
`EventsDrained`, `BackToRunning` and `MenuReturns`, which are out of TLAPS's reach, as
is ENABLED: `NoDeadlock` is therefore stated with the guards of the waits written
out. Every invariant and every action property of a passing run is proved. Of the queue,
what happens with two producers is a finding (section 4).

## 6. What the models abstract

- What a cycle collects and draws: one step, with the tag's changes, dirty bits
  and faults around it. The GPU and per-box exceptions are one kind of fault.
- `run("clock")` and `run("overlay")` write directly and are one step.
- In `Menus`, a handler is what it answers: keep, draw, pop, replace, flip a
  setting. Pages, cursors, mouse mappings, the text of an edited option and the
  filter are left out. A key is one of five kinds. Flipped settings other than
  `background_update` only cause a new layout.
- In `AppLoop` no menu is open; in `Menus` no signal arrives and the runner does
  not fail. Both share `Runner`.
- `pthread_cancel` takes effect in the collectors' reads and in the write of a
  frame, not in the semaphore, which is a bare futex.
- The terminal is "app" or "shell" in `AppLoop`. In `Screen` it is cells, a cursor
  and a pen; each glyph is one column wide, as `render_to_buffer()` takes it, also
  for wide CJK characters. `Erases` says whether clearing uses the current
  background. Cells are compared by glyph and colours: attributes can differ, as
  `last_attrs` starts as UINT8_MAX, which looks as if every attribute were on
  already, and "22" ends bold and dim together.
- `Term::clear` inside rendered output is ignored by `render_to_buffer()`, so that
  the cells below "No boxes shown!" stay; the model has no such sequence.
- `History`: the first sample of a series is lost, as the ring has no capacity
  yet, and a graph skips an update whose newest value equals the one before. Both
  are in the model; `Window` and `plotted` are stated with them. `pop_front` is
  never called.
- `NetStats`: speeds, scales and addresses. `again` counts the last value of an
  interface that went away in the middle of a reading as well, though nothing reads
  it again. The overflow guard compares a sum of
  unsigned numbers with their maximum and is never true; sums do not wrap. `z`
  before the first collection that succeeds throws from `at()`, and is not
  pressed then.
- `ProcList`: a process is its pid and its parent. Order, usage, kernel threads
  (which skip the filter), a reused pid (which keeps its old name) and lists of
  `SOA_THRESHOLD` and more are left out. `ShownCounted` excuses the lists the
  code is known to miscount, those `muddled` marks: a paused list one of whose
  processes was stopped, and a tree made again of a list with collapsed branches.
- `ProcView`: keys come between cycles; the list is at least `select_max` long
  where `FollowedIsSelected` and `PauseKeepsSelection` are stated, as a shorter
  one makes the followed row, or the one after a pause, another (`btop_draw.cpp`
  2318 and 2341).
- `Settings`: one setting of each role. After SIGUSR2 nothing lays the boxes out
  or shortens the preset's number, so `DrawsWhatIsLaidOut` and `PresetExists` end
  at a reload: with fewer presets than before, `P` makes `at()` throw.

## 7. Not modelled

Theme parsing and colours, the command line (parsed before any thread starts),
the log (output under one mutex), sensors and GPU interfaces, vendored `fmt` and
`intel_gpu_top`, tests and benchmarks: I/O or data without a protocol. Of the
collectors, reading and parsing what the kernel offers, and the arithmetic of
percentages; those of other systems than Linux. Of drawing, what each box puts
into a frame.

Most lines of the repository's C++ are of these kinds: `include/fmt`, the register
and counter headers of `intel_gpu_top`, and four more sets of collectors that are
not built together with the Linux one.

The io_uring reader links a READ to an OPENAT and says that the kernel fills in
the descriptor (`linux/io_uring_reader.cpp:122-204`), which plain linked requests
do not do: with a kernel as it is, every batch fails and falls back to reading
one file after the other. Only with another kernel would its own hazards show:
requests left prepared when a batch is given up at line 138, and completions left
in the ring after a failed wait, that the next batch takes for its own.

What was met on the way and has no run, since no line of the repository promises
otherwise or the models leave it out:

- `clean_quit()` writes the settings without `unlock()`: what is in the cache is
  lost (`SavedUnlessCached` is stated with this).
- A preset that is refused leaves the boxes' positions changed
  (`btop_config.cpp:517`), and at the start the answer of `apply_preset()` is not
  looked at.
- The runner calls setters without a lock while it draws the process box.
- A network counter that cannot be read counts as 0, which is taken for a restart
  (`linux/btop_collect.cpp:2824-2833`): its last value is added to `rollover`, and
  the next reading counts the same bytes again, once per failure. The model does
  so, and `NeverOvercounts` is stated with what it adds.
- `locate_selection` and the details search the list with `find()` and use the
  result unchecked (`linux/btop_collect.cpp:3571, 2976`).
- With 128 processes or more, `soa_sort()` overwrites the front of the list with
  the sorted rows without keeping what was there (`btop_shared.cpp:128-137`):
  processes are lost until the next update finds them again as new ones, and rows
  moved to the front stay behind as well, with their `pid` and without a name.
- The partial sort covers `select_max` rows from the top of the list, not the rows
  that are scrolled to or that a filter leaves (`btop_shared.cpp:151`).
- `tree_sort` passes a bool as the index to sort below (`btop_shared.cpp:290`).
- Of several keys read at once, all but the first are dropped, and a UTF-8
  character split over two reads is taken for two (`btop_input.cpp:160-240`).
- `TextEdit::clear()` leaves the cursor where it was; the filter's text is drawn
  by the runner while a key edits it (`btop_draw.cpp:2466`).
- The keyboard stays with the filter when the process box is hidden meanwhile
  (`btop_input.cpp:362`).

## 8. Plan

Done: the queue, the runner, the main loop, the menus, the settings with their
boxes and presets, the screen, the graphs, the network totals, the list of
processes, its view and the line editor. Next, in this order:

1. `ProcView` composed with `Settings` and `SignalMenu`: the keys that move the
   selection in the middle of a cycle, when `selected_pid` and `proc_selected`
   are in the cache, and the menus that read them.
2. The state Filtering of the input machine, with the filter's text shared with
   the runner.
3. `ProcList` composed with `ProcView` over collapsing and what it does to the
   selection; the order of the list (`proc_sorter`, `tree_sort`) against a
   reference sort.
4. The network and process collectors of the other systems, as variants.
