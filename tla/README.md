# Verification of the Chrome OS platform programs

TLA+ models of the software in `src/src/platform`, checked with TLC and, where a
result should hold for every value of the constants, proved with TLAPS. Three
groups of programs carry logic of their own:

- `update_engine` (and the shell updater that preceded it), which replaces the
  running system's twin partition: threads, callbacks, failures, retries and
  power cuts meet in it, and a wrong step leaves a machine that does not boot;
- `window_manager`, which follows the X events of clients it does not control;
- the small programs around them: verified boot, the jail, the key script, the
  metrics file.

## 1. Inventory

The repository holds the platform's own programs (`src/src/platform`, one
directory each), scripts that build an image (`src/src/scripts`,
`src/src/package_scripts`), test suites and vendored code. `PROJECT.json` lists
all of them, the ones that are not modelled with the reason.

### update_engine

`UpdateAttempter` (main.cc) makes seven Actions, joins neighbours with pipes and
gives them to an `ActionProcessor`:

    OmahaRequestPrep -> UpdateCheck -> OmahaResponseHandler -> FilesystemCopier
      -> Download  (-> Install, commented out)  Postinstall -> SetBootableFlag

Everything runs on one glib main loop, except the helper thread of the copier.

| component | state | operations | interacts with |
|---|---|---|---|
| `ActionProcessor`, `Action` | `actions_`, `current_action_`, `delegate_`, each Action's `processor_` | Enqueue, Start, Stop, ActionComplete, destructor | Actions, and its delegate, which calls back |
| `FilesystemCopierAction` | `is_mounted_`, `skipped_copy_`, the helper thread, the partition with its marker file | PerformAction, TerminateProcessing, HelperThreadMain, CollectThread | mkfs, mount, the iterator; a main-loop timeout brings the result back |
| `FilesystemIterator` | `names_`, `dirs_`, `stbuf_`, `is_end_`, `is_err_` | Increment | the live root filesystem, changed by other processes |
| `LibcurlHttpFetcher` | handles, sizes and offsets, timeout and watches | Begin, Terminate, Pause, Unpause, callbacks | libcurl, the main loop, its delegate |
| `DownloadAction`, `FileWriter`s, `OmahaHashCalculator` | `writer_`, `fd_`, running hash, zlib stream | PerformAction, ReceivedBytes, TransferComplete, TerminateProcessing | the fetcher and the install partition |
| `UpdateAttempter` | `actions_`, `full_update_`, the pipes | Update, ProcessingDone | owns and is the delegate of the processor |
| `PostinstallRunner`, `SetBootableFlag`, `GetInstallDev()` | the MBR, the partition pair | PerformAction | mount, the script, the disk |
| `Subprocess` | `callback_records_` | Exec, CancelExec, the child watch | children that exit at any time, callbacks that call it again |
| extents and `ExtentWriter`s | the extents of a file, the place in them, the bzip2 stream | AppendBlockToExtents, Write, End | a device with holes; streams that end within a block |

### window_manager

One process on one thread. X events arrive in a queue and are handled one at a
time; what they say may be out of date when they are handled, because clients
and the server go on. `WindowManager` keeps a `Window` per client and hands
events to the two consumers, `LayoutManager` and `PanelManager`.

| component | state | operations | what is hard |
|---|---|---|---|
| `WindowManager` | `client_windows_`, `stacked_xids_`, `mapped_xids_`, hints on the root window | Init, one handler per event | events and queries overlap at startup; windows die at any point |
| taking over the selections | WM_S0, _NET_WM_CM_S0 | RegisterExistence | another manager may come or go between any two requests |
| `LayoutManager`, `ToplevelWindow` | mode, toplevels, transients, active and magnified window, tab windows | Handle..., SetMode, key actions | five pointers to windows that may go; late focus events |
| `PanelManager`, `PanelBar`, `PanelDock`, `Panel` | panels by container, dragged panel, timer | Handle..., AddPanel, RemovePanel, PackPanels, HideCollapsedPanels | a drag has two ends and a timer between them |
| `EventConsumerRegistrar`, `HotkeyOverlay` | tables of consumers; polled keys | (Un)Register..., HandleKeyboardState | registrations that outlive their windows |
| `RealXConnection` | trapped error, server grabs, masks | TrapErrors, request, UntrapErrors, replies | errors of earlier requests arrive late |
| `TidyInterface`, `OpenGlDrawVisitor` | tree of actors, animations, textures, `dirty_` | AddActor, Raise..., Draw, visit | what is drawn lags behind what was changed |
| `StackingManager`, `Stacker` | layers, X order, actor order, shadows | Stack... | three orders that must agree |
| `Window`, `Shadow` | a client's geometry, hints, shape, picture | constructor, property and shape handlers | properties change between the constructor's requests |
| `KeyBindings`, `MotionEventCoalescer` | bindings; latest position | Handle key press/release; Store, timer | a binding removed while its key is held |
| `MockChrome`, `wm_ipc` | tabs, floating tab, panel titlebar | pointer handlers, messages | messages cross |

### Other programs

| component | state | what is hard |
|---|---|---|
| `vboot_reference` | digest context; Montgomery arithmetic; firmware image | block boundaries, carries, damaged images and two verifiers |
| `memento_softwareupdate` | lock file, two partitions, MBR | two updaters, kills at any line |
| `minijail` | options; capabilities and namespaces | steps that need what an earlier step gave up |
| `autox` | keyboard mapping, held keys | a key symbol under several keys and columns |
| `metrics_daemon`, `metrics_collection` | one shared file and its lock | appends against truncation |

What makes each correct, and what can go wrong in it that a unit test hardly
reaches, is the list `hazards` in `PROJECT.json`, each at its line and with the
properties that would catch it.

## 2. Modules

| module | models | kind |
|---|---|---|
| `ActionProcessor` | action_processor.{h,cc}, AbstractAction of action.h | component |
| `SourceTree` | the tree that is copied: paths, inodes, exclusions, mount points | shared constants |
| `FilesystemCopier`, `DurableCopy` | filesystem_copier_action.{h,cc}; what it promises | component, abstract specification |
| `FilesystemIterator`, `TreeWalk` | filesystem_iterator.{h,cc}; what it promises | component, abstract specification |
| `LibcurlHttpFetcher`, `HttpFetcher` | libcurl_http_fetcher.{h,cc}; http_fetcher.h | component, abstract specification |
| `DownloadAction` | download_action.{h,cc}, its writers and hash; uses `HttpFetcher` | component |
| `UpdateAttempter` | main.cc and the outcomes of the seven Actions; uses `ActionProcessor` | composition |
| `BootSwitch` | GetInstallDev(), PostinstallRunnerAction, SetBootableFlagAction | component |
| `Panel`, `PanelBar`, `PanelDock` | panel.cc, panel_bar.cc, panel_dock.cc as operators on the state | parts of a component |
| `WmUtil` | the Stacker of util.h, key_bindings.cc, motion_event_coalescer.cc | parts |
| `PanelManager` | panel_manager.cc; uses the four above | composition |
| `ToplevelWindow` | LayoutManager::ToplevelWindow and the geometry of the overview modes | part |
| `LayoutManager` | layout_manager.cc; uses `ToplevelWindow` and `WmUtil` | composition |
| `WindowManager` | window_manager.cc: startup and event handlers, over the server's windows and events (external, first part of the module) | component |
| `EventConsumers` | event_consumer_registrar.cc, who registers what, hotkey_overlay.cc | component |
| `RealXConnection` | real_x_connection.cc, x_connection.cc; RegisterExistence() of window_manager.cc and the managers before and after us | components |
| `TidyInterface` | tidy_interface.cc, opengl_visitor.cc; stacking_manager.cc | components |
| `Window` | window.cc, shadow.cc | component |
| `MockChrome` | mock_chrome.cc, wm_ipc.cc | component |
| `EngineHelpers` | subprocess.{h,cc}; extent_mapper.cc, graph_utils.cc, the extent writers | components |
| `VbootCrypto` | crypto/sha*.c, crypto/rsa.c | components |
| `FirmwareImage` | utils/firmware_image.c | component |
| `MementoUpdater` | memento_updater.sh, software_update.sh, ping_omaha.sh | component |
| `MiniJail` | minijail.cc, options.cc, env.cc | component |
| `ScriptRunner` | autox/script_runner.cc | component |
| `MetricsFile` | metrics_daemon.cc, metrics_library.cc, metrics_client.cc | component |
| `*_proofs` | theorems about `ActionProcessor`, `LibcurlHttpFetcher`, `FilesystemCopier`, `FilesystemIterator`, `UpdateAttempter`, `WindowManager`; `PlatformUnits_proofs` and `WindowUnits_proofs` about the units of the two runs of that name, the former about `DownloadAction`, too | proofs |
| `MC*` | instances for TLC; `MCWindowUnits` and `MCPlatformUnits` let a behaviour pick one of several components that share no state | instances |

The definitions keep the names of the code; `map` in `PROJECT.json` gives the
lines of each. A handler that the code runs to its end before the next event is
one step; calls that block on the server, on another process or on the disk are
cut where they block.

### ActionProcessor

`actions`, `current`, `owner`, `delegate` are the fields. `ctl` says what is on
the one thread's stack, because that decides who may call what: only the idle
loop or the delegate calls Enqueue and Start, only the loop calls Stop and the
destructor, an Action reports from inside `PerformAction()` or, if it is
asynchronous, from the loop later. `Sync` is the set of Actions whose
`PerformAction()` never returns without a report, whose
`TerminateProcessing()` is a `CHECK(false)`. `life` records a failed CHECK.
`owed`, `allOk` and `verdict` are history. `ActionCompleted()` of the delegate
is left out: no delegate outside the tests implements it.

### FilesystemCopier and FilesystemIterator

The main thread and the helper are two processes over the Action's fields and
the partition. The partition has two copies: `disk`, which the kernel shows, and
`stable`, which survives a power failure. `WriteBack` may make them equal at any
time and a successful umount does. That the kernel writes changes back in the
order they were made is an assumption: it is what ext3, which the copier
formats, gives with ordered data. A file is absent, torn or whole; hard links
are paths with the same `ino`. Creating an entry and its chmod()/lchown() are
one step with two outcomes, except for regular files, whose data takes a second
step so that the power may fail in between. `Restart` is a power failure at any
time as well as the next run of the engine.

`Increment()` of the iterator calls itself for excluded names, so `pc` says where
its (only) frame is: a recursive call is the last thing it does. `Vanish` is
another process removing an entry between any two steps. `Dots` stands for both
`.` and `..`. The root itself never disappears, since the copier walks `/`; the
early return of filesystem_iterator.cc:89-93 is therefore not taken.

### LibcurlHttpFetcher, HttpFetcher, DownloadAction

libcurl is external: a request yields the bytes after its offset, one per
`LibcurlWrite`, stops when the resource is complete or the connection breaks,
and may or may not state a length. `HttpFetcher` is the interface as its header
states it, `LibcurlHttpFetcher` is shown to implement it, and `DownloadAction`
is checked over it, so that what is shown of the download holds with any
fetcher that keeps the interface. In `DownloadAction` a SHA-1 hash is what it
covers: it matches iff every chunk, undamaged and in order, went into it.

### UpdateAttempter and BootSwitch

Each step of `UpdateAttempter` that concerns the processor is a step of
`ActionProcessor` conjoined with its effect on the pipes, the partitions and the
main loop; an Action's work is one step with the outcomes its own module allows: a
report of success or failure, what the partition and the output pipe then hold, or a
failed CHECK that ends the process (`UpdateCheckAborts`, `FilesystemCopierAborts`,
`DownloadAborts`, `Postinstall`).
TLC checks that the composition is a behaviour of `ActionProcessor`
(`UsesProcessorCorrectly`), so the theorems about it apply. `Update()` is split
into one step per statement that calls the processor, all inside
`ProcessingDone()` when it is a retry.

`BootSwitch` follows the last two Actions on a disk of which the kernel holds
newer blocks than the medium: the device of `GetInstallDev()`, digit by digit,
mount, script, umount, and the read and write of the MBR with its four flags.

### PanelManager and its parts

The handlers are operators on a record `st` of all the fields; an event is one
step that applies a handler. Coordinates are small integers; animations end at
once, as X windows do in the code. Focus events are delivered late, from a queue
of at most `MaxFocusEvents`. `Window::focused_` is not initialised by its
constructor, so a new window may have either value. A handler that would use a
pointer to a destroyed panel is undefined in the code; the model stops there
(`NoDangling` is a guard), and section 5 says where that happens.

### LayoutManager and its parts

Both modes, both kinds of overview mode (`--lm_new_overview_mode`), the key
actions of each mode, and the windows of a tab drag. `ToplevelWindow` computes
positions with the code's integer and rounding arithmetic. Clients answer a
WM_TAKE_FOCUS at once; a window that is unmapped is destroyed, and its queued
focus events with it. DCHECKs are those of a release build: none.

### WindowManager and taking over

The X server is external: a tree of at most two levels, a stacking order, an event
queue in the order of the requests. Clients create, configure, reparent, map,
unmap and destroy between any two requests of the window manager; each handler
is one step except at startup, which is cut at selection, query and manage. The
one consumer raises a window when it is mapped. The second part of `RealXConnection`
has the managers that own the selections when we start, one that starts while we do, and
our own waits for their windows to go.

### The window units

`RealXConnection` has one request of each kind (checked by a round trip, by a
reply, or not at all); what matters is whose error is read when. `TidyInterface`
draws into a frame, the set of what was drawn with which opacity and texture, in
the order of its passes; GL itself is left out. `Window` is one-dimensional.
`MockChrome` plays Chrome: its tabs move within, out of and into windows.

### Verified boot

Words, blocks and length fields are scaled down (a block is 5 or 7 bytes, a
word 4 values) so that every boundary is met; `VbootCrypto` really computes and
compares with the definition of a modular power. In `FirmwareImage` an image is
a sequence of cells and a signature names what it covers; one or two cells are
damaged, and both verifiers are run. A field is read at an offset computed from
what the image itself says (`Field`); one that lies beyond its end yields whatever
the heap holds there (`Heap`). The compression functions, PKCS padding and
the hardness of either are abstract.

### EngineHelpers

`Subprocess` has an action for each call and for the exit of a child; a callback
is on the stack between `GChildExitedCallback` and `CallbackReturns`, so Exec() and
CancelExec() may come from within it. For the extents a file is listed block by
block, both ways the code does it; then a stream is written into the extents in
pieces of any size, directly, through the zero padder or through the
decompressor, to a device that knows which byte of the stream each of its bytes
holds.

### MementoUpdater, MiniJail, ScriptRunner, MetricsFile

A kill of the updater reaches its whole pipeline and `sfdisk` is atomic. The
kernel's rules for capabilities, setuid and namespaces are external in
`MiniJail`, the X server and XTEST in `ScriptRunner`, Chrome in `MetricsFile`.

## 3. What the runs check

| run | instance | states | checks |
|---|---|---|---|
| `action_processor` | three Actions, one synchronous | 740 | `IInv`, `NothingSilentlyDropped`, `QueuedActionGetsItsTurn` |
| `filesystem_copier` | directory, file with two names, lost+found; three attempts | 8 000 | `CopyIsTrustworthy`, `CopyIsDurable`, `CopyComesToAnEnd` |
| `filesystem_copier_marker` | the same with a marker in the source | violation | `SkippedIsUnneeded` |
| `filesystem_iterator` | a nested, an excluded and a mounted directory; five entries may vanish, reading may fail outside lost+found | 14 700 | `WalkKeepsItsPlace`, `WalksTheTree` |
| `libcurl_http_fetcher` | three bytes, two transfers, three broken connections | 1 900 | `IInv`, `FetcherKeepsInterface`, `TransferComesToAnEnd` |
| `download_action` | four chunks | 390 | `IInv` |
| `update_attempter` | no bound: the code makes at most two attempts | 540 | `AttemptsStayApart`, `HarmsNothing`, `UpdateComesToAnEnd` |
| `panel_manager` | two panels, six events, two screens | 408 000 | `PanelsInPlace`, `PanelsReachable` |
| `layout_manager` | two toplevels, two transients (a modal one), two of the windows there at the start, four events | 280 000 | `LayoutIsConsistent`, `ModalNotLost` |
| `window_manager` | three windows, three client requests | 490 000 | `ToldInTurn`, `KnowsTheDesktop` |
| `window_units` | one of eight components per behaviour | 668 000 | see below |
| `platform_units` | one of ten components per behaviour | 855 000 | see below |

A property named by a run is a conjunction where one component promises several
things; its parts are defined, commented and named in the component's module.
Each part has a mutant in `PROJECT.json` that breaks the conjunction through it.

- `action_processor`: three Actions are enough for one to run, one to wait and
  one to be enqueued late; the theorems remove the bound. `IInv` says that each
  batch gives one final notification (`OneOutcomePerBatch`) with the right verdict
  (`VerdictIsTruthful`), that held Actions are owned (`HeldActionsAreOwned`) and
  that no synchronous one can be stopped (`SyncActionNeverStopped`).
- `filesystem_copier`: three attempts let a second one find what the first left
  and a third what a broken second left. `CopyIsTrustworthy` joins
  `MarkerMeansComplete` and `SuccessMeansCopied`, about every failing step and
  every power cut, and `NeverFormatsMounted` and `ReportedAfterHelper`, about the
  two threads; `CopyIsDurable` is refinement of `DurableCopy`. They need a source
  without the marker; `filesystem_copier_marker` shows what happens with it.
- `filesystem_iterator`: `WalkKeepsItsPlace` is the CHECKs of the code plus what
  they are for, and the exclusions; `WalksTheTree` is refinement of `TreeWalk`,
  and termination.
- `libcurl_http_fetcher`: three breaks allow a resume of a resume, two transfers a
  second one begun from the callback of the first.
- `download_action`: every combination of damage and failing writes.
- `update_attempter`: `AttemptsStayApart` is about the two attempts (the plan used
  is the one of this attempt, the process quits for a reason, and if a CHECK ends
  it, it is one in the update check or in an Action at work on a delta update,
  never one of the processor's: `AbortsInDeltaAction`); `HarmsNothing` is refinement of
  `ActionProcessor` and that the disk is left alone without an update.
- `panel_manager`: with six events one panel can be dragged out of the bar into a
  dock, or collapsed, hidden and shown, while the other is added, resized or
  goes. `PanelsInPlace`: panels at rest are packed (`Snapped`), the X windows that
  get clicks are where the pictures are (`ClientInPlace`), each panel is in
  exactly one container (`Held`) and the docks' area is taken from the layout
  manager exactly while they hold panels (`AreaIsFree`). `PanelsReachable`: a
  click on a panel arrives, and a hidden one comes back: the strip that notices the
  pointer is in the bottom row of the screen or, where a resize has left it behind,
  the panel's titlebar sticks out (`HiddenComeBack`). A collapsed panel that its
  client has shrunk since is excepted (`sunk`), see section 5.
- `layout_manager`: four events cover map, switch, focus and unmap in any order;
  five were checked once as well. `LayoutIsConsistent`: what is on the screen is
  what the mode says (`ModeIsShown`), pointers are to windows that exist and belong
  there (`PointersValid`), what is shown can be clicked (`Clickable`), the tab
  summary is the magnified window's (`SummaryOfMagnified`), transients follow
  (`TransientsFollow`). `ModalNotLost`, an action property: focus does not
  leave a modal transient for another of the same toplevel.
- `window_manager`: three requests by clients around startup and after it; four
  were checked once as well (5.6 million states). `ToldInTurn` and
  `KnowsTheDesktop`: consumers hear of map and unmap in turn, and once the events are
  handled the window manager's lists and the root window's properties are those
  of the server. Windows that are restacked between selection and the start of
  the loop are excepted (`disturbed`), see section 5.
- `window_units`: `ManagesAlone` (never two managers on one selection) and
  `RegisterExistenceReturns` (liveness); `CallsAnswerForThemselves` (a call fails
  iff a request of its own did, and masks are merged); `SceneIsDrawn` (a clean
  frame shows the tree, in order, from current textures); `StackedInLayers`
  (X order, actor order and shadows agree with the layers); `WindowIsCurrent`
  (with no event left, what is known of a client is what the server has; shadow
  and size follow); `ChromeAgrees` (each tab in one place, the pressed tab is the
  dragged one, Chrome and the window manager end up with one state of a panel
  unless it was created expanded and never changed); `EventsReachOwner` (a window's events reach
  the manager that owns it, and nobody else); `OverlayShowsHeldKeys`.
- `platform_units`: `CryptoMatchesReference` (the blocks digested are the padded
  message, however it is cut into pieces; Montgomery's result is the power);
  `CallbacksInTurn` (a callback runs once, for a child that exited, never after it
  was cancelled); `ExtentsHoldStream` (the extents list the file's blocks and the
  bytes written are on them in order, holes and padding included; two blocks of
  two bytes and a third that is not a neighbour, pieces of up to three bytes and a
  token of three make every remainder occur); `VerifiedIsSigned` (what is accepted was signed, and the
  two verifiers agree); `BootsCompleteSystem`; `UpdatesInTurn`; `JailHolds`;
  `ScriptTypesAsWritten`; `MetricsArrive`; and, the liveness of the two locks,
  `LocksAreGot`: the updater's loop gets past a stale lock and every metrics client
  ends.

Deadlock checking is off where the modelled thing may stop: a destroyed
processor, an Action that has reported, a process that has aborted, and the
window runs, which stop at their bound on events (`MaxSteps` and the like).

### Fairness

- `ActionProcessor`: calls return, and an Action that was started reports
  (action.h:79 requires it; the copier's and the fetcher's own liveness
  properties show when they do).
- `FilesystemCopier`: the kernel schedules both threads, glib runs a due timeout.
- `FilesystemIterator`: the caller's loop goes on.
- `LibcurlHttpFetcher`: glib runs a due timeout, calls return, and a server that
  is asked again and again eventually sends (strong fairness of
  `LibcurlWrite`). The number of broken connections is bounded by `MaxDrops`; a
  server that breaks every one keeps the code resuming for ever.
- `UpdateAttempter`: weak fairness of the whole next-state relation, one thread.
- `MCWindowUnits`: our process runs on, and a manager that lost a selection quits,
  as ICCCM asks of it. `MCPlatformUnits`: the updater's loop goes on, and a
  process that holds or can get the metrics lock goes on.

## 4. What is proved

`ActionProcessor_proofs` proves, for every set of Actions, every choice of the
synchronous ones (`SyncAssumption`) and a `NoAction` that is not an Action
(`NoActionAssumption`):

| theorem | states |
|---|---|
| `Safety` | `Spec => []IInv`, the invariant of the run |
| `TypeCorrect`, `ExactlyOneNotification`, `TruthfulVerdict`, `HeldActionsOwned`, `SyncActionsSafe` | the parts of `IInv` |
| `NoSilentDrop` | the action property `NothingSilentlyDropped` |

None of the parts is inductive alone. A verdict is truthful because, while
a batch runs, nothing in it has failed yet (`RunningBatchIsClean`): the first
failure ends the batch. The notification count is right because the delegate is
only called, and changed, between batches. That Actions are held once needs
that the queue has no duplicates, which `AppendDistinct` and `TailDistinct`
carry through Enqueue and through taking the head. `IInv` is the conjunction;
`InitIInv` and `NextIInv` have a step per action and under it a step per
invariant.

`LibcurlHttpFetcher_proofs` proves, for every length of the resource and every
bound on transfers and broken connections (`FetcherAssumption`: they are natural
numbers):

| theorem | states |
|---|---|
| `Safety` | `Spec => []IInv` |
| `TypeCorrect`, `Contiguous`, `KnownSizeComplete`, `NeverForgotten`, `QuietWhenIdle` | the parts of `IInv` |
| `ImplementsInterface` | `Spec => FetcherKeepsInterface`, refinement of `HttpFetcher` |

What has to be added to the invariants is `CallsAreConsistent`: a callback on the
stack has a transfer, the delegate is called only after `CleanUp()`, the handle's
pause state is the one the delegate asked for, a size that is known is the right
one (`Total`, computed as offset plus length), and no request starts beyond what
was received. The refinement is a case split over the actions: `BeginTransfer`,
`LibcurlWrite`, the two ways to end and the two pauses are steps of the interface
under the mapping `active <- inProgress`, the others leave what the delegate sees
unchanged; that a resumed, unpaused handle delivers to nobody who has paused is
where the invariant is needed.

`FilesystemCopier_proofs` proves, for every source tree (`TreeAssumption`,
`ReachableAssumption`), any number of attempts and any failures:

| theorem | states |
|---|---|
| `ThreadsSafety` | types, `NeverFormatsMounted`, `ReportedAfterHelper` |
| `CopierSafety` | `CopyIsTrustworthy`, if the marker is not among the wanted files of the source |
| `CopierIsDurable` | `CopyIsDurable`, refinement of `DurableCopy`, under the same hypothesis |

The hypothesis is the one `filesystem_copier_marker` shows to be needed. The
invariant has two halves. `Threads` says which of the two threads may be where,
and what `is_mounted_` and the report are then. `Copying` says what both versions of
the partition hold while the helper is at work: everything of the list that was
passed, faithfully, nothing else that is whole but wrong, and no marker; that
`stable` is an older `disk`. Without the clause about the medium, a power failure
between the write of the marker and the umount cannot be dealt with.

`FilesystemIterator_proofs` proves `WalkSafety` (`WalkKeepsItsPlace`) and
`WalksTree` (refinement of `TreeWalk`) for every tree and any removals, if no
excluded directory fails to be read (`BadDirs \cap Excluded = {}`). That hypothesis
is needed: when readdir_r() or closedir() of an excluded directory fails,
IncrementInternal() returns with `is_err_`, Increment() still calls itself because
the name has the excluded prefix (filesystem_iterator.cc:100-106), opens the
directory again, and `CHECK_EQ(dirs_.size(), names_.size() + 1)` (line 112) fails;
TLC reaches that in seven states when lost+found is in `BadDirs`. The
invariant ties the stack of open directories to the current name (its
directories, in order, each one open at the entry that the name goes through)
and, for the refinement, says which entries are behind the position.

`UpdateAttempter_proofs` proves `Safety`, `AttemptsApart` (`AttemptsStayApart`),
`DiskLeftAlone`, `UsesProcessor` and from them `NothingHarmed` (`HarmsNothing`).
There is no bound to remove; what the proof gives is that the composition is one:
each step maps to a step of `ActionProcessor`, so the invariant of that module is
available, and only the pipes, the plan and the attempt have to be added to it. What
the pipe to the download holds is what `AbortsInDeltaAction` rests on: the copier
fills it for a delta update only (`PassedOn`), without it the download opens nothing, and
so the CHECKs behind it, Postinstall's included, are out of a full update's reach.

`WindowManager_proofs` proves, for every set of windows, any number of clients'
requests between any two steps of the window manager, and every desktop it may
find when it starts (`ParentsAssumption`: the root window is not the other parent):

| theorem | states |
|---|---|
| `Safety` | `Spec => []IInv` |
| `ConsumersToldInTurn` | `ToldInTurn` |
| `RootChildrenTracked` | `TracksRootChildren`, the first part of `KnowsTheDesktop` |

Neither property is inductive, because what the window manager knows of a window is
late by the events in the queue. `IInv` says how late (`Told`): a window that is
not on the screen is hidden by an event that no later MapNotify takes back, or the
object is not mapped and no MapNotify is on its way (`HiddenIsTold`); the same holds
at each DestroyNotify in the queue (`DestroyedInTurn`); a window that is no child of
the root is told gone, or its object does not exist and no CreateNotify is on its
way (`GoneIsTold`); a child, and one that is mapped, is known or told of
(`ChildIsTold`, `ShownIsTold`). During startup the windows of the query that are not
taken over yet stand for the rest. The proof has three parts: what one more event
in the queue does to `Told`; what handling the first one does to it, if the handler
makes of the object what the event tells (`Heard`); and that each request of a
client or of the window manager is of the first kind, each handler (described by
`Made`) of the second followed by some of the first. The case of interest is a
client that destroys a window between selection and query, or between the MapRequest
and our XMapWindow().

`PlatformUnits_proofs` has one theorem `MCSpec => []P` per unit; each rests on an
invariant over the unit's record, which the other units leave alone.

| theorem | of | what the invariant adds |
|---|---|---|
| `CallbacksSafety` | `CallbacksInTurn`, any number of children | a record is set exactly for a child that runs or has exited and was not cancelled before its callback; at most one callback is on the stack, and for an exited child |
| `UpdaterSafety` | `UpdatesInTurn`, any number of runs, kills and failures | what a run at each line knows of the lock, of the two partitions and of the table, unless another run has interfered |
| `JailSafety` | `JailHolds`, all users, groups and options | for each step, the capabilities and namespaces that the steps before it left. The user is not root (`0 \notin JailUids`): a process that stays root keeps what it was asked to drop |
| `SwitchSafety` | `BootsCompleteSystem`, any number of updates and power failures | the system runs from the flagged partition (`RunsFrom`) until the table is written and moves to the other one (`MovesTo`), which is complete by then on the medium as well |
| `MetricsSafety` | `NothingTruncatedUnread`, a part of `MetricsArrive` | who holds the lock, and that what Chrome has read is what the file held when it got it |
| `FirmwareSafety` | `VerifiedIsSigned`, all keys, versions and lengths, any number of changes | `FirmwareIs`, below |

`FirmwareIs` says of every cell of the blob where it comes from: a signature
that verifies names something that was signed; a preamble was signed together with
data of the length that it holds; the blob has at most one preamble, so that
changes cannot make the signature of the preamble pass for one of the data or the
other way round; a blob that is marked as written is the written image, and
without changes it is the one that was signed. The parser reads each part at an
offset computed from lengths in the parts before it: the lemmas about `Field`
(`SevenParts`, `AtLeft`, `AtRight`) show that it finds the parts that were
concatenated, and what an offset beyond the end yields.

Its last section is about `DownloadAction`, the fetcher's delegate: for every number
of chunks (`ChunksAssumption`) it proves `ActionSafety` (`IInv`) and from it
`ActionTypeCorrect`, `AuthenticOnSuccess`, `WrittenOnDirectSuccess` and `WriterOpen`
(which no run checks). `StageFits` ties the stage to the fetcher and the writer;
`HashFollows` says that the hash is never ahead of what was received and, without a
decompressor, covers what was written. The fetcher is any that keeps `HttpFetcher`,
which is what `ImplementsInterface` shows of the real one.

`WindowUnits_proofs` does the same for the window units:

| theorem | of | what the invariant adds |
|---|---|---|
| `TakeoverSafety` | `ManagesAlone`, any selections and managers | for each selection, whether it was asked for, whom it was taken from, and that we wait for exactly those |
| `OverlaySafety` | `OverlayShowsHeldKeys`, any keys | the held modifiers are those of the last poll, whether or not the overlay shows |
| `WindowSafety` | `WindowIsCurrent`, any geometry, hints and number of requests | whatever the window manager does not know of a client yet is still to be read or in the queue, in an order in which the later answer is the newer one: nothing is read before its events were selected, the type before the shape, the shape before its region; actor and shadow are where the last request put them |
| `ChromeSafety` | `ChromeAgrees`, any tabs, windows and number of events | each window has different tabs and drags the one that was pressed (`TabsKept`); the windows and what was closed share the tabs out between them (`SharedOut`), which a dropped tab moves from one share to another; the last message to Chrome is about the state that is shown, and without one Chrome has that state, unless the panel was created expanded and no change has been told; and the messages to the window manager end every drag they begin (`InTouch`) |
| `ConsumersSafety` | `EventsReachOwner`, any windows and number of events | each registrar remembers exactly what its object needs (`RegistrarsRemember`), so that its destructor takes back that and nothing else; a panel's titlebar belongs to no other panel and a transient to a mapped toplevel (`RolesFit`), so that no two objects registered for one window |
| `StackSafety` | `StackedInLayers`, any layers, windows and number of calls | both orders are strict and total and hold every layer's marker in turn; a stacked window lies between the marker of its layer and the next (`WithinLayers`), its shadow under every window of that layer unless it was stacked over its owner (`ShadowsUnder`), and two X windows of which none is loose are in the order of their actors (`OrdersAgree`). A call moves one window next to another item or marker and leaves the order of the rest (`PlacedNextTo`, `Restacked`), so that only pairs with that window have to be looked at |

Each constant has only the assumption its module states (`ASSUME`): that sentinels
differ from the values they are told apart from (`NoAction`, `NoTag`, `NoOwner`,
`Unset`, ...), that bounds and sizes are natural numbers, that layers are numbered
from 1, that the tree is a tree, that pixel sizes are positive where the code
divides by them. TLC evaluates them in the runs.

Only model-checked:

- liveness, since the prover has neither fairness nor ENABLED: `CopyComesToAnEnd`,
  `TransferComesToAnEnd`, `QueuedActionGetsItsTurn`, `UpdateComesToAnEnd`,
  `RegisterExistenceReturns`, `LocksAreGot`, the second half of `WalksTheTree`;
- what a fold or a recursive definition computes for every input, which needs
  induction over data: `CryptoMatchesReference`, `ExtentsHoldStream`,
  `ScriptTypesAsWritten`, the order of the reports in `MetricsArrive`,
  `CallsAnswerForThemselves`, and the packing of panels and the layouts, which are
  sums over sequences (`PanelsInPlace`, `PanelsReachable`, `LayoutIsConsistent`,
  `ModalNotLost`);
- what is stated with SelectSeq or a fold, which the prover does not expand: the client
  list and the stacking order of `KnowsTheDesktop` (`ClientListIsCurrent`,
  `StackingIsServers`), and `SceneIsDrawn`.

## 5. Where code and documents disagree

`filesystem_copier_marker` shows a disagreement with a run of its own: the marker
of an earlier update is copied like any file, so a copy cut short by a power
failure can be taken for a finished one. The others below were met while
modelling. The models keep what the code does; a property that would be broken
by one names the exception. Paths are below `src/src/platform`.

update_engine:

- a partition that cannot be formatted or mounted aborts the process in
  `CHECK(is_mounted_)` (filesystem_copier_action.cc:139, 102), where
  filesystem_copier_action_unittest.cc:261 expects a report;
- a stopped copier still reports, through a NULL pointer
  (filesystem_copier_action.cc:87, 159, against action.h:102);
- an error inside an excluded directory becomes a failed CHECK
  (filesystem_iterator.cc:101, 112);
- write errors behind the decompressor are dropped
  (decompressing_file_writer.cc:69, against file_writer.h:29);
- a full update passes no plan on (filesystem_copier_action.cc:40, against
  filesystem_copier_action.h:45), so the retry cannot work, and a copy that failed
  passes its plan on all the same (line 143);
- close() of the output that fails, and a stream that the decompressor ends early, abort
  the process where a report is due (download_action.cc:58, 73,
  decompressing_file_writer.cc:73);
- Actions dropped after a failure keep their pointer to the processor; the
  helper thread writes the output pipe; Postinstall has no input pipe while the
  install Action is commented out, and aborts;
- a short write of the MBR whose rest fails, or a power failure in it, and an
  umount failure taken as "non-fatal" can leave a flagged partition that is not
  complete; a second update without a restart writes over the flagged partition.
  `BootsCompleteSystem` excepts these.

window_manager, panels:

- a panel unmapped while it is dragged stays in `dragged_panel_`
  (panel_manager.cc:149-177, 497, against panel_manager.h:153-156);
- a panel dragged vertically is not snapped at the end of its drag when another
  one was removed, or the screen resized, meanwhile (panel_bar.h:104); a
  configure request on a collapsed panel shifts its titlebar; the bar stays in
  HIDE_COLLAPSED_PANELS_STATE_WAITING_TO_HIDE when a dragged collapsed panel goes
  (panel_bar.cc:749); `desired_panel_to_focus_` may be collapsed (panel_bar.h:73-75);
- HandleScreenResize() (panel_bar.cc:379-390) does not move the strip that is to
  "detect when the mouse is at the bottom of the screen" (panel_bar.h:265-266): on a
  larger screen it lies in the middle, on a smaller one beyond the edge. What
  sticks out of the titlebars still shows the panels, but not the titlebar of one
  whose client makes it smaller afterwards: it goes down with the bottom edge, below
  the screen.

window_manager, layout:

- a late FocusOut leaves the focus on an offscreen client in overview mode
  (layout_manager.cc:1569); `transient_to_toplevel_` keeps a destroyed toplevel;
  `toplevel_under_floating_tab_` is not reset; a stale `focused_` steals the focus;
- releasing the button over the background configures the overview in active
  mode too (layout_manager.h:459-468); in the new overview mode SetMode() takes the
  magnified window for the active one (layout_manager.h:477-479); a toplevel mapped
  in overview mode is not told the mode;
- OverviewWindowContainsPoint() compares absolute with relative coordinates;
  thumbnail sizes may be negative and the panning offset is off by one;
  MoveFloatingTab() shows a summary that nothing hides; two combos with one
  keysym for one action fail a CHECK in AddBinding(); key actions outlive the
  LayoutManager.

window_manager, core and connection:

- ConfigureNotify events queued between SelectInput and the query are replayed
  on the newer snapshot (window_manager.cc:382-388, 984-1002, against
  window_manager.h:317-322): `disturbed`;
- lowering an override-redirect window does not lower its actor; an InputOnly
  window created between selection and query, or a known window reparented to
  the root, breaks a DCHECK; HandleDestroyNotify() looks in
  `xids_tracked_by_compositor_` after erasing; CirculateNotify is ignored;
- if the owner goes between GetSelectionOwner() and SelectInputOnWindow() the
  wait does not end (window_manager.cc:639-664), and the window manager does not
  quit when it loses the selection itself;
- x_connection.cc:24 relies on what GetIntArrayProperty() does not guarantee; an
  empty property fails `CHECK(!values.empty())` in wm_ipc.cc or is indexed
  (window.cc:204, window_manager.cc:1604); GetCompositingPixmapForWindow() returns
  an id after an error.

window_manager, drawing and clients:

- AnimateFloat() leaves an older animation of the value running; damage is
  subtracted after the bind, so that a drawing in between is lost (`raced`); a
  clone of a texture actor stops the monitoring of the original; ContainerActor's
  children keep a dangling `parent_`; SetColor() and SetStageColor() do not mark
  the scene dirty;
- hints that a client removes keep their old values, WM_PROTOCOLS and
  CHROME_STATE are not read again, the title is not read at the start, a shape
  mask keeps its old size; a _NET_WM_STATE change not yet seen is overwritten;
- MockChrome takes every new panel for a collapsed one (mock_chrome.cc:825), also
  those it creates expanded (:624), and the window manager tells it of changes only
  (panel.cc:356-364): the first click on such a panel asks for what it is already,
  and is ignored (panel_bar.cc:457-461);
- MockChrome's `window_under_floating_tab_` dangles; configure requests of orphan
  transients and of tab windows are ignored (window_manager.cc:1112-1121); the
  counters of LayoutManager::Metrics are never incremented.

Verified boot: SHA-2 stores 32 bits of the length; DigestFile() stops at a short
read; `sign_algorithm > kNumAlgorithms` is off by one, and VerifyFirmwareImage()
uses the tables before it checks; the comment on dev_mode says the opposite of
the code; SignatureFile() uses cmd after Free(); WriteFirmwareHeader() and
ReadFirmwareImage() disagree on the header's length, so that no written image is
read back (ReadFirmwareImage() is not modelled for this reason).

Updater, jail, script, metrics: memento_updater.sh may leave a partition bootable
that is not ready when a second run interferes (42-49, 277-281, against 11-12) or
`sfdisk` fails unnoticed; the stale-lock test and its rm race, the trap removes
the lock twice, and a reused process id keeps it; `change_gid()` returns
`change_uid_` (minijail/options.h:153); ConvertCharToKeySym() compares a pointer
with NoSymbol (script_runner.cc:244), the grave accent is missing, a string
releases a Shift that is held, a failed CHECK leaves keys held; a short write
returns with the lock (metrics_daemon.cc:190-194: `LockIsLeft`), a message that is
too long overruns its buffer (metrics_library.cc:85), the mode for stdin cannot be
reached (metrics_client.cc:97, 128), and a clock set back gives negative durations.

## 6. Not modelled

See `components`. Of the delta generator only the extents are modelled: the rest is
not called by an Action at this commit; pam_offline,
cryptohome, tpm_lite, monitor_reconfig, theme, microbenchmark and the scripts are
computations on bytes, drawing, or one pass through system calls. In the modelled
parts: object lifetimes on the C++ stack (an Action destroyed by the delegate it
is calling), the XML of the Omaha protocol, contents of files, hashes and URLs, a
source that changes between two attempts, GL calls, user metrics, animations in
the panels and the layout, debugging aids. mock_x_connection.cc is no component of
its own: the server in `WindowManager`, which is external, follows what it and its
callers say a request does. Cases that are left out of a modelled operation:

- `WindowManager`: focus events of grabs and of the pointer (`EventConsumers` has
  them), and a map request that no consumer takes;
- `ToplevelWindow`: a client that is sent WM_TAKE_FOCUS takes the focus at once or
  is given it, which is one step;
- `TidyInterface`: depths and images with an alpha channel, and the stacking of a
  panel's input windows;
- `Window`: what a client does to its own geometry, and HandleConfigureNotify()
  (`WindowManager` has its part about the stacking order);
- `MiniJail`: an id is a number other than 0; strtol() takes anything else for 0
  or the nearest number, with a warning only (minijail_main.cc:97-111).

## 7. Plan

What could be proved next: `StackingIsServers`, with the orders compared pair by pair
(`Above`, as in `StackedInLayers`) instead of as filtered sequences; the panels' `Held` for any
number of panels, and the parts of `ExtentsHoldStream` and `MetricsArrive` that need
induction: the least element of an inhabited set of naturals follows from WFMin and
NatLessThanWellFounded, and a smallest counterexample does what the induction theorems
with an operator as a parameter do.
