# ptyline in TLA+

TLA+ models of [ptyline](../src/README.md), a program that runs a shell under a
pseudo-terminal and keeps a status bar on the last rows of the real terminal.
The models are checked with TLC on small instances; the safety properties that
matter most are proved with TLAPS for every value of the constants. Paths below
are relative to `src/`.

ptyline has no consistency problem of the database kind. What is hard in it is
that **three things nobody can read back have to stay in step**: the size of the
child's PTY, the scroll region of the real terminal, and what the reserved rows
display. They are changed by one event loop that reacts to window resizes (which
are debounced), to sequences in the child's output, to configuration reloads and
to goroutines that refresh modules, each at its own pace.

## 1. The system

| component | state | operations | talks to |
|---|---|---|---|
| Reserved area (`internal/reserved/area.go`) | none: arithmetic | child rows, bar top, bar rows, bar geometry | everybody |
| Event bus (`internal/event/event.go`) | a channel of 256 events | `Send`, `SendCtx` (block), `TrySend` | all goroutines to the loop |
| Event loop (`internal/proxy/eventloop.go`, handlers in `internal/app/app.go`) | `area`, `state`, `resizePending`, pre-resize bar | one handler per event kind, then `Redraw` | filter, writer, coordinator, supervisor, controller |
| ANSI/OSC filter (`internal/proxy/ansi_filter.go`, `osc.go`) | rows, area, alternate-screen flag, bar-clobbered and scroll-reset flags, partial sequences, believed cursor row | `Filter`, `SetRows`, `SetArea`, `TakeBarClobbered`, `TakeScrollReset` | called by the loop on each chunk |
| Terminal writer (`internal/proxy/writer.go`) | bar position, repaint cache `lastBars`, pending frame, time of the last frame | `WriteOutput`, `WriteOutputFramed`, `RequestBarFrame`, `SetBarRows`, `ClearRows`, `InvalidateBar`, `OnAltEnter` | the real terminal |
| Alternate-screen coordinator (`internal/app/altscreen.go`) | pending transition, resized-during-alt | `SetPending`, `FlushPending`, `Apply` | supervisor, controller, writer |
| Resize pipeline (`internal/proxy/signals.go`, `resize_debounce.go`, `internal/app/resize_scroll.go`) | signal channel, debouncer channel, its timer | SIGWINCH to `Resize`, `Resize` to settled `ResizeCommit` | bus |
| Child supervisor (`internal/pty`) | PTY size, area, child process | `Resize`, `ResizeFull`, `SetArea`, `Start`, `Wait`, `TerminateGroup`, adoption | kernel |
| Terminal controller (`internal/terminal/controller.go`) | raw mode, margins | enter, restore, margins | the real terminal |
| Cursor query (`internal/terminal/cursor_query.go`) | armed flag, grace deadline, buffered reply | `Arm`, `Filter` on stdin | stdin reader, loop |
| Exec modules (`internal/app/exec_runtime.go`, `module_set.go`, `internal/modules/exec.go`) | per module: `pending`, `refreshing`, context, ticker | `refresh`, `Start`, `Stop`, `Reconcile`, `refreshAfterCommand` | bus, `cwdHolder` |
| Git module (`internal/modules/git.go`, `app.go` 386-460) | one worker flag and one pending flag for all generations | `refreshGitMod`, ticker, `RefreshAll` | bus, `cwdHolder` |
| Command tracker (`internal/command/tracker.go`, `internal/modules/command.go`) | start, last activity, last key, shown, capped, animating | `ApplyShellMeta`, `Tick`, `RecordKeystroke`, `RecordOutput` | loop; the animation ticker (`internal/app/bar/bar.go`) reads `animating` |
| Configuration (`internal/config/loader.go`, `internal/app/reload.go`) | base kept aside, configuration in use, a module map that both share, cache of overlay paths | load, merge, infer, validate, apply, reload | loop, module set, renderer |
| Re-exec handoff (`internal/app/reexec_unix.go`, `handoff.go`) | environment of the next image | exec, adopt, fall back | lifecycle |
| Probe modules and scheduler (`internal/app/probemodules.go`, `internal/status/scheduler.go`) | one entry per module with its context | `Reconcile`, `OnCWDChange`, ticker, one-shot sample | bus |
| Layout and texts (`internal/status/layout`, `formatting`, `width`, `renderer/template.go`) | none | parse, arrange, drop, fill, cut | `renderFn` |
| Renderer (`internal/status/renderer/renderer.go`) | what each module showed last, since when it is lit, is anything moving | `RenderRow`, `TakeAnimationState` | the ticker, through an atomic flag |
| Session (`internal/app/app.go`, `reexec_unix.go`, `internal/pty/supervisor.go`) | start-up step, child, PTY, saved terminal mode | start, adopt, run, terminate, re-exec, restore | kernel |

What makes it hard, and what is correct, component by component:

* **Screen** (loop, filter, writer, coordinator, resize pipeline, supervisor,
  controller). A height travels through a signal channel of capacity one, the
  bus, the debouncer's channel and timer, and the bus again; in every one of these places
  an older height can be waiting. Meanwhile the child switches screens, resets
  the terminal and erases the bar. Correct: once everything is worked off, the child, the
  bar and the margins fit the window as it is now; on the alternate screen the child owns every
  row and no frame is painted; the repaint cache never hides a damaged bar; a
  suppressed or deferred repaint happens eventually.
* **Output filter.** It sees the child's output in pieces cut anywhere, and it rewrites an erase from
  a cursor row that it only believes. Correct: where a read ends makes no difference; what it
  takes for a sequence is one; a believed row is the cursor's; nothing the child sends takes
  the cursor into the bar.
* **Cursor query and placement.** An answer comes through the reader of the user's keys,
  while the loop waits for it; it may come after its timeout and be taken for the
  answer to the next query; the child asks such questions, too. Correct: keys arrive in
  order and once; neither side waits for the other for good; the cursor is not
  left inside the bar.
* **Refreshes** of exec, git and probe modules: three protocols for one task. Several callers, few workers, flags
  without a lock, results that arrive late and out of order. Correct: no request is
  lost, and the bar ends up with the current directory and the current configuration.
* **Configuration.** Overlays merge into a map that the base shares, and a merge that is refused has
  already happened. Correct: an overlay changes no command, leaves no layout behind in the next
  directory, and does not switch on what the base switched off; what is in use is valid.
* **Session.** Signals are dropped when a channel of one is full; the process replaces
  its own image; the child exits while its output is still being read. Correct: the
  terminal is restored on every way out, no child is left behind, output is complete, and the
  program ends.
* **Command tracker.** What is shown of a command depends on clocks that only ticks
  read, and ticks come late, come twice and come from several senders; a reload replaces the tracker.
  Correct: instant commands never flash up, a shown result is the command's, the
  animation ends, long commands appear and finished ones go.
* **Bar** (layout, texts, highlights). A row one cell too long wraps onto the child's screen. Every row
  stores the one flag that keeps the ticker drawing, and the renderer is replaced in the middle
  of a highlight. Correct: a row is exactly as wide as the bar, only what does not
  fit is dropped, no separator stands for nothing, what moves goes on moving and changes are seen.

## 2. The modules

| module | models |
|---|---|
| `ReservedArea` | `reserved.Area` and `bar.Geometry`: pure operators |
| `Screen` | the screen protocol: loop, filter, writer, coordinator, debouncer, SIGWINCH forwarder, supervisor's sizes, the layout half of a reload |
| `OutputFilter` | the cursor, margins and erases, as the terminal has them and as the filter believes them |
| `AnsiScan` | how bytes become sequences, and the passes over one read |
| `Selection` | filtering a sequence by a set, as a recursive function |
| `QueryChannel` | abstract: questions about the cursor and whose answer each one gets |
| `PositionQuery` | `terminal.PositionQuery`, the stdin reader, the grace timers, the waiting loop; implements `QueryChannel` |
| `CursorPlacement` | where commits and screen switches leave the cursor; uses `QueryChannel` |
| `Coalescing` | abstract: what refreshing a module promises its callers |
| `ExecRefresh` | an exec module's requests, workers, tickers and restarts; implements `Coalescing` |
| `GitRefresh` | the git module's, with one worker for all generations |
| `ProbeModules` | the system modules', with a goroutine each and no flags at all |
| `ConfigLoader` | parsing, merging, inference and validation: pure operators |
| `ConfigOverlay` | which configuration is in use, over edits, reloads and changes of directory; uses `ConfigLoader` |
| `Lifecycle` | the session from start to exit, signals, the child's end, re-exec |
| `CommandTracker` | `command.Tracker`, the command module, the shell's hooks, ticker and reveal timer |
| `BarLayout` | one row of the bar: format, arrangement, omission, justification |
| `ValueText` | the text of a module or template, and how it is cut to its block |
| `Animation` | the highlights of changed values and the shine of a running command |
| `...Proofs` | theorems about the module of that name (`Screen`, `CursorPlacement`, `ExecRefresh`, `GitRefresh`, `ProbeModules`, `CommandTracker`); `ScreenProofs` is also about `ReservedArea` and `OutputFilter` |
| `AppProofs` | theorems about `ConfigOverlay` and `Lifecycle` |
| `InductionProofs` | theorems that need induction over data, about `PositionQuery`, `Animation`, `BarLayout`, `ValueText` and `AnsiScan` |
| `MC...` | constants, and for the algorithms the inputs, for TLC |

### Screen

The event loop is one goroutine, so its position `pc` says where in the
handling of one event it is; every other goroutine, the user and the terminal
move between any two of its steps.

| action | code |
|---|---|
| `WindowResize` | the user and the terminal (external); a terminal may drop its margins and lose its bottom rows |
| `OtherSignal`, `TakeSignal`, `SendSize` | `StartSignals`: a channel of one that SIGWINCH shares with SIGUSR1; the size is read when the signal is taken, and sent when the bus has room |
| `HandleResize` | `event.Resize`: `AnsiFilter.SetRows` and the `ResizeRequest` handler with its burst logic |
| `DebounceTake`, `DebounceFire` | the two cases of `ResizeDebouncer.Start` |
| `HandleCommit` | `event.ResizeCommit` and the `ResizeCommit` handler |
| `BeginChunk`, `FilterErase`, `FilterReset`, `FilterMargins`, `FilterAlt`, `FilterEnd` | one pass of `AnsiFilter.Filter` over a chunk: what each kind of sequence does; a screen switch ends the pass and defers the rest of the chunk |
| `WritePlain`, `WriteFramed` | `WriteOutput`, `WriteOutputFramed` |
| `FlushNothing`, `AltEnter`, `AltLeave` | `altScreenCoordinator.FlushPending` |
| `Settle`, `ApplyMeta` | the rest of `Loop.Run`'s pass: invalidate, `ScrollReset`, metadata of the pass |
| `HandleReload`, `HandleModule`, `HandleRedrawRequest`, `RedrawStep` | the other events and the `redraw` that ends each |
| `RateWindowEnds` | the limit on bar frames per second |

Abstractions. Bytes are not stored: while the loop filters a chunk the child's
next relevant sequence is chosen freely, any number of times. A rendering is a
value (`Lines`), a frame is a rendering with the number of rows it was made for,
because that is what `equalLines` compares. `shown` says whether the reserved
rows display a frame or why they do not: wiped by ptyline or the child, or damaged by
the terminal or by ptyline itself during a resize. Columns are left out: nothing modelled depends on them but the
cache, which `content` may change anyway. Only resize events are queued in `bus`;
the other kinds carry no data here, so receiving one at a moment of the
environment's choice is the same as having queued it. `altTainted`, `late` and
`missed` are history variables that name known flaws (section 4): a reload on the alternate screen, a redraw for
which no timer was started, a SIGWINCH that the runtime dropped. The properties are stated for all other behaviours.

### ExecRefresh

One module id. Each reload that changes its configuration makes a new runtime
(`gen`), older ones are stopped. `pending` and `refreshing` are the two atomic
flags of every runtime; each action of a worker is one atomic operation of the
loop in `execModuleRuntime.refresh`: `Take` (CAS on `pending`), `GiveUp` (`ctx.Err`), `Run`
and `RunEnds` (the command), `Send` (`Bus.SendCtx`), `Clear`, `Recheck`, `Reacquire`.
The callers are the loop (`ChangeDir`, `CommandDone`, `Restart`, each followed by
`LoopCas`) and the tickers (`TickerFires`, `TickerStore`, `TickerCas`). A worker
inherits its caller's context: a ticker and `Start` pass the module's, the
shell-metadata handlers pass the program's, and that difference matters (section 4).

`Coalescing` is the promise in the comment on `refresh`: requests coalesce, are
never dropped, refreshes do not overlap. The refinement maps a request to the
flag `pending`, and a running refresh to a worker between `Take` and the return to
the flag.

### PositionQuery, QueryChannel, CursorPlacement

The terminal answers CSI 6 n in the stream of the user's keys. `PositionQuery` models
that stream as symbols: a key, an ESC, and what completes one to a function key or to an
answer. A read takes any non-empty part of what has arrived, so that it may end
between an ESC and its tail.

| action | code |
|---|---|
| `PressKey`, `Answer`, `ChildAsks` | the user, the terminal and the child (external) |
| `Arm` in `Probe`, `AskAndWait` | `PositionQuery.Arm`, called by `probeCursorRowAsync` and `reapplyScrollRegionAfterShrink` |
| `GraceEnds`, `GraceExpired` | the timer fires; its function gets the mutex, perhaps after the next `Arm` |
| `ReadInput`, `SendInput` | the goroutine of `StartReader`; entering `Filter` |
| `FilterPasses`, `FilterKeeps`, `FilterMatches`, `FilterEnds` | the iterations of `Filter`, under the mutex: forward, keep an incomplete sequence, take an answer, forward the rest |
| `HandleInput` | `WriteInput` in the loop |
| `Answered`, `TimesOut` | the `select` in `reapplyScrollRegionAfterShrink` |

`QueryChannel` forgets bytes, reads and timers: answers come in the order of the
questions, the first that comes by while a question is open is taken for its
answer, others go on to the child. `PositionQuery` is shown to implement it
(`IsQueryChannel`), and `CursorPlacement` is built on it, so what is proved there rests on
the protocol of the code and not on an ideal one.

| action of `CursorPlacement` | code |
|---|---|
| `CommitGrow`, `CommitShrink`, `CommitOnAlt` | the cursor's part of the `ResizeCommit` handler |
| `ShrinkAnswered`, `ShrinkTimesOut` | `reapplyScrollRegionAfterShrink` |
| `AltEnter`, `AltLeave` | `altScreenCoordinator.Apply` |
| `Query`, `ReadReply`, `QueryEnds` | `Arm` and the channel's other steps |
| `WindowResize`, `Answer`, `TypeReply`, `ChildOutput`, `ChildAsks` | terminal, user and child (external): the terminal takes the cursor along when it gets smaller; the child keeps to its rows where margins hold it, and goes anywhere while a size is under way |

`sizes` are the heights that the window had since the last commit: any of them may be committed next, the window's own
too when it is not the last (`Commit`). From the first resize of a burst to its commit the child has rows that the margins do not fit, so
nothing holds its cursor (`Confined`). `overlapped`, `placed` and `strayed` are history variables: which queries had
company, what the last shrink went by, and whether the child left its rows then.

### CommandTracker

Time is discrete and every instant is kept as its age, which stops at the first value past the
thresholds it is compared with. The zero times of a new tracker are the largest ages;
`stamped` keeps apart what the code asks with `startedAt.IsZero`.

| action | code |
|---|---|
| `CommandStarts`; `DurationReported`, `ExitCodeReported`, `DirectoryReported`, `CommandCleared`; `PromptRedrawn` | the hooks `preexec` and `precmd`, and for each of their messages `StatusState.ApplyShellMeta`, then `Tracker.ApplyShellMeta`, then the reveal timer |
| `Keystroke`, `Output` | `RecordKeystroke`, `RecordOutput` |
| `ConfigReload`, and `Renew` in `DirectoryReported` | `updateModules` replaces the tracker |
| `TickerFires`, `OtherTick`, `RevealTimerFires` | `bar.StartTicker` and `time.AfterFunc`: they put a Tick on the bus, to be handled at some later time |
| `Tick` | the `Tick` handler, `Tracker.Tick` |
| `Time` | the clock (external) |

`shown` is the snapshot in `state.Modules["command"]`: empty, a running name with or without
animation, or a finished command with its result. A message of a hook and its handler are one action, since the PTY
is a FIFO and a delay in it only makes the shell slower. `outcome` and `renewed` are history variables: how
each command really ended, and whether a reload replaced the tracker since the last report.

### OutputFilter and AnsiScan

`AnsiScan` is the scanner on classes of bytes: `scanEscape`, `scanString` and `Filter` with its
buffered tail, the switches between the screens in either direction (`SwitchesAlt`), the passes of `Loop.Run` over one read, each ended
by a switch that defers the bytes behind it, and beside it `Terminal`, the
parser of a DEC terminal, which is the reference.

`OutputFilter` has one action for each kind of sequence; it does at once what the filter makes of it and
what the terminal does with the result.

| action | code |
|---|---|
| `Down`, `Up`, `Wrap`, `MoveByVPR` | relative movements and text; `advanceRow`, and what it does not see |
| `Miscounted` | the same where `parseCount` cannot read the count |
| `MoveTo`, `MoveToInAlt`, `MoveToMalformed`, `MoveToOutOfRange` | `clampCursorRow`; on the alternate screen; with a row that is no number; with one too large for an int |
| `Save`, `RestoreSaved` | ESC 7 and ESC 8, which the filter does not follow |
| `EraseToEnd`, `EraseAll` | `rewriteEraseDisplay`; ED 2 and 3 |
| `SetMargins`, `Reset` | `rewriteScrollRegion`; RIS and DECSTR |
| `EnterAlt`, `LeaveAlt`, `TakeFlags` | the private modes 1049, 1047 and 47; `TakeBarClobbered`, `TakeScrollReset` |
| `GiveUp`, `Reconcile` | the goroutine of `probeCursorRowAsync`: time-out, answer |

`drift`, `overtaken`, `strayed`, `escaped` and `savedEscape` are history variables: something the filter does not follow, a move
since the query, margins of the child's own, a cursor (or a saved one) that a number out of range or VPR took to the bar. The window keeps its height here. `altActive`, `barClobbered` and
`regionReset` are the filter's fields that `Screen` has as `alt`, `clobbered` and `scrollReset`; the names differ, as does the
specification's (`FilterSpec`), so that one module of proofs can extend both.

### GitRefresh and ProbeModules

`GitRefresh` follows `refreshGitMod` as `ExecRefresh` follows its counterpart, action by atomic
operation: the loop and each ticker store `gitPending` and try the CAS (`LoopStores`, `LoopCas`,
`TickerStores`, `TickerCas`); a worker takes the flag (`Take`), notes the directory
(`NoteDir`), reads the repository (`ReadRepo`), compares (`Discard` or `Keep`), sends one snapshot per id
(`Send`) and looks again (`Clear`, `Recheck`, `Reacquire`). A worker keeps the module it was started with, whatever
a reload did in the meantime.

In `ProbeModules` the manager's `Reconcile` (`UpdateModules`), its one-shot sample after a change of directory, `OnCWDChange`
(`ChangeDir`) and the goroutines of the scheduler (`TickerFires`, `TickerStops`, `Sample`, `Overrun`, `Emit`) are for `disk`, the one
module that depends on the directory. A sample stands for the directory it read.

### ConfigLoader and ConfigOverlay

A file has one field of each kind that merging treats differently: the modules that the bar refers to, a style,
a palette that may be absent, and per module `enabled` in three values, the references of a template, a width and a command.
`ConfigLoader` has `Parse`, `MergeOverlay`, `InferActiveModules`, `Validate`, `ValidateOverlayScope` and
`ApplyOverlays` as operators. `ConfigOverlay` runs them as the program does: `Start`, `ReportDir` (the shell reports its directory:
`FindProjectConfig`, the cache, `reloadConfig`), `ConfigReload` (`ptyline --reload`) and
`EditFile` (the user). Go copies a `Config` by value but its maps by reference; `mods` is the one module map
that the base and the configuration in use share, so every merge, accepted or refused, writes into it. `tainted`,
`inForce`, `loaded` and `reshaped` are history variables.

### Lifecycle

| action | code |
|---|---|
| `ParseHandoff`, `LoadConfig`, `Enter`, `QuerySize`, `StartChild` or `AdoptChild`, `Visuals`, `StartReaders`, `StartSignals` | `run` in its order; each may fail and leave through its deferred calls (`Restore`) or without them |
| `TakeSignal`, `SendSignal` | the goroutine of `StartSignals` |
| `ReadPty`, `ReadPtyEnds`, `SendOutput`, `ReadKey` | the readers |
| `Reap`, `Drain`, `SendExited` | the goroutine that waits for the child and, for a bounded time, for its output |
| `TakeOutput`, `TakeKey`, `TakeResize`, `TakeTermination`, `TakeChildExited`, `TakeReload` | the loop's handlers |
| `SignalGroup`, `AwaitGroup` | `TerminateGroup`: SIGTERM or SIGHUP, two seconds, SIGKILL |
| `ClearCloexec`, `SuspendRaw`, `Exec`, `ExecFails` | `reexec`, with its way back |
| `ChildWrites`, `ChildExits`, `OrphanExits`, `Deliver`, `ResizeWindow`, `SendTerm`, `SendReload`, `Install` | child, kernel, user and package manager (external) |

`exec` keeps descriptors without FD_CLOEXEC, the environment and the child, and drops goroutines, channels and whatever was
queued in them. `missed` and `cut` are history variables: a SIGWINCH that nobody saw, a drain that the
grace period ended.

### The bar: BarLayout, ValueText, Animation

`BarLayout` and `ValueText` are operators from a row's format and its modules' texts to the arrangement, and from a format
and its values to a text; a text is a number of cells in the first and a sequence of symbols in the
second. Their loops (over the tokens, the blocks from most to least important, the separators, the
symbols) are recursive functions, one step of the code's loop to one value. `Animation` has the loop's events that draw or update (`ModuleUpdated`, `CommandAppears`, `CommandWrites`,
`CommandEnds`, `Tick`, `RedrawRequest`, `WriteOutputFramed`, `ResizeRequest`, `ResizeCommit`, `ConfigReload`, `EnterAltScreen`,
`LeaveAltScreen`), each ending in a redraw (`RedrawAsked`) that renders row by row and may or may not reach the screen; `shown` is the frame the user sees. A
frame that the rate limit puts off starts a timer (`due`), or does not (`late`).
`MCAlgorithms` feeds all of these, `AnsiScan` and `OutputFilter`: a behaviour builds one stream, one row or one format piece by piece, or is one
history of `Animation` or `OutputFilter`. The subjects do not interact; they share a configuration of TLC.

### Mutants

An operator whose comment says "mutant" is not part of the specification:
it is the definition that follows it with a plausible mistake. For each property there is
one that the property catches; replacing the definition by it makes TLC find the
violation. They document what the properties are sensitive to.

## 3. What is checked

`tlc -config <cfg> <module>`; each run ends within a few minutes.

| cfg | properties | shows |
|---|---|---|
| `MCScreen` | `ScreenFitsWindow`, `CacheIsSound`, `ResizeCommitted`, `BarCatchesUp` | two instances: one window change, bars of one and two rows, two renderings, screen switches, resets and reloads in every interleaving with forwarder and debouncer; and two window changes between three heights, so that older sizes and a newer one are under way, a bus of two events that they fill, SIGUSR1 in the way of SIGWINCH, screen switches |
| `MCPositionQuery` | `InputArrives`, `InputGetsThrough`, `IsQueryChannel` | two queries, two keys of any kind, every way to cut the input into reads; refinement and liveness |
| `MCPositionQueryEscape` | `NoKeyDropped` | violated, see section 4 |
| `MCCursorPlacement` | `CursorOutOfBar` | three heights and three resizes that commits may lag behind, two queries, one key that looks like an answer, a terminal that clamps |
| `MCConfigOverlayLayers` | `EnabledIsLayered` | violated, see section 4 |
| `MCExecRefresh` | `FinalSnapshotIsCurrent`, `PromiseKept`, `DirectoryCatchesUp` | two workers, two runtimes, a directory change, any number of ticks and commands |
| `MCGitRefresh` | `QuietMeansCurrent`, `BarCatchesUp` | two workers, a reload, a directory change, a change in the repository, any number of ticks |
| `MCProbeModules` | `OnlyTheEntryRuns`, `BarCatchesUp` | three goroutines, two reloads, two directory changes, any number of ticks and overruns |
| `MCConfigOverlay` | `CommandsAreTheBases`, `InferenceResurrectsNothing`, `LayoutIsLayered`, `InUseIsValid`, `OverlayFollowsDirectory` | one edit of any file, any number of reloads and directory changes, every combination of three base files and seven overlays |
| `MCLifecycle` | `ExitIsClean`, `SessionIsKept`, `OutputIsComplete`, `SizeIsCurrent`, `Ends` | two images, two signals, two window sizes, a key, a chunk of output, each step failing where it can |
| `MCCommandTracker` | `SuccessIsEarned`, `TickerGoesQuiet`, `LongCommandIsShown`, `DoneGoesAway` | two commands in turn, any number of lines, keys and writes, two ticks on the bus, one reload at any point |
| `MCAlgorithms` | `CutsNeverMatter`, `SequencesAreTheTerminals`, `RowsAreExact`, `OnlyWhatDoesNotFitIsDropped`, `NoStraySeparator`, `TextsAreTidy`, `NothingFreezes`, `ChangesAreLit`, `BeliefIsExact`, `EraseIsFaithful`, `CursorOffBar` | every stream of five bytes, and of seven when they are those of screen switches, and every cut of it; every row of up to five of ten tokens under four settings; every format of up to four symbols with sixteen pairs of values; every history of the highlights up to phase three; every order of sequences, flags, answers and time-outs on five rows |
| `MCOutputFilterEscape`, `MCCursorPlacementBounce`, `MCAnimationLate` (modules `OutputFilter`, `CursorPlacement`, `MCAlgorithms`) | `CursorNeverOnBar`, `CursorSettles`, `GoesOn` | violated, within a second each: the exceptions of `CursorOffBar`, `CursorOutOfBar` and `NothingFreezes` are needed |

A definition called `TypeOK` documents what each variable holds. Where a module has proofs it is a theorem;
in the other modules it was checked on the instance of the run when the module was written, and it is not among the
properties of a run because a run's time is better spent on the others. The same holds of the inductive
invariants, which are proved.

**Bounds.** Two of a kind is what an interleaving needs: an old and a new height, directory, runtime, query,
module or image; three are used where a third can come between (a query before and after a shrink's own; two
goroutines of a replaced entry beside the new one's). A bus of one slot makes every sender block. Ticks, the child's sequences, module
updates and commands are not bounded, except that the tracker runs two commands and the phase of `Animation` stops at three, one and a half crossings
of the shine. The first instance of `MCScreen` has one change of the window, because the cache and the bars are what it is about, and in it a
resize damages only a bar of one row; the second has two, which is what
an older height committed last needs, and fills forwarder, bus, debouncer's channel and timer with them, while bar and rendering stay. `Invariant` in
`ScreenProofs` says it for any number. A cut between two screen switches needs seven bytes (ESC [ h ESC [ l and one more): `MaxSwitchBytes`. `Areas = {1, 2}` and `Heights = {3, 4}` contain a
child with one row, too few for margins, and one with several. Five rows with a bar of two give the filter three of the child's, so that margins of the child's leave
one above or one below, and two to keep out of. The values of `Animation` are symmetric: they are only compared. In the tracker the thresholds are in the order they have in the code, where
neighbours may coincide (echo window < appearance delay <= idle timeout < least duration = grace = time to live <
maximum), with the smallest values that keep them apart. The overlays are chosen one for each thing an overlay can do or get
wrong: refer to modules, list one, extend a template, refer to a module that does not exist, break the visuals, switch a
module off, try to give a source, be malformed. The four settings of a row are bars of three to eight cells with and
without border, separator and least gap, one for each justification; a row of five tokens has three sections with something in each.

**Fairness.** Goroutines keep running: weak fairness for each of them and for the event loop. Strong fairness is
used where a queue is abstracted away or a `select` has two ready cases: an event that waits in the FIFO bus is received after
finitely many others (`HandleResize`, `HandleCommit`, `HandleRedrawRequest`, `HandleInput`, and in `ExecRefresh` `Send`,
`ApplySnapshot`), a chunk is finite (`FilterEnd`), Go's mutex does not starve a timer's function (`GraceExpired`), and a
select does not choose the same case for ever (`TickerStops`, `Emit` in `ProbeModules`). Tickers tick in
`GitRefresh`, `ProbeModules` and `CommandTracker`, since the freshness they promise comes from them; in `ExecRefresh` they need
not. A command of an exec module ends because it is killed at its deadline. The user, the child, the repository and the terminal's answers are never fair.

## 4. What the code does otherwise than it says

Five configurations show one of these each, as a property that says what the code's own words say and that TLC finds violated:

- `MCPositionQueryEscape` (`NoKeyDropped`): an Escape key pressed while a query is open is kept
  as the beginning of a sequence; if nothing follows before the grace period ends or the next query is armed, it is
  thrown away (`cursor_query.go:54,69`; the comment at `:72-79`).
- `MCOutputFilterEscape` (`CursorNeverOnBar`): an absolute move whose row is too large for an int is forwarded as it is
  (`ansi_filter.go:506-508`), and so is VPR (`:437`), which margins do not hold; the terminal stops at its own last row, in
  the bar. The comment at `:484-492` says that absolute moves are rewritten and that relative ones stay bounded. Exception (`escaped`) in `CursorOffBar`.
- `MCCursorPlacementBounce` (`CursorSettles`): the child gets its new rows at the first resize of a burst (`app.go:709`), the margins at the commit. If
  the window grows and shrinks back within the debounce, the child may be in the last row when the commit finds nothing changed and leaves the
  cursor where it is (`app.go:761-765`); the comments at `:634-637,721-722` say that cursor safety settles when the drag stops. Exception (`strayed`) in `CursorOutOfBar`.
- `MCConfigOverlayLayers` (`EnabledIsLayered`): a module that a project's overlay switches on stays on in the next directory and
  after a reload, since the map that says so is shared (`loader.go:452-460`, `app.go:818`, `reload.go:25`); ARCHITECTURE.md:92-96 and README.md:159-163 promise
  layers.
- `MCAnimationLate` (`GoesOn`): `readyForBarFrame` and `PendingRedrawDue` read the clock separately (`writer.go:183,200`); when the rate window ends between the two, a
  frame is put off and no timer started, against `app.go:307-309`. When no tick follows, a sweep stops where it is. Exception (`late`) in
  `NothingFreezes` and in `Screen`'s `BarCatchesUp`.

The others turned up while modelling. Where a property has an exception, it is one of all these.

*Screen.*
- A reload that changes the bar height, or a scroll reset followed by a switch in one pass, while the child is on the alternate screen lays the normal
  screen out there (`reload.go:59,64`, `eventloop.go:110`; ARCHITECTURE.md:66-71). Exception in `ScreenFitsWindow`.
- A framed repaint in a burst is erased in part by the commit's `ClearRows`, and the cache hides it (`app.go:740`,
  `writer.go:134-136`). Exception in `CacheIsSound`.
- A SIGWINCH that finds SIGUSR1 in the signals' channel is dropped (`signals.go:18`): child and bar keep the old height until the next
  change. Exception (`missed`) in `ScreenFitsWindow` and `ResizeCommitted`.

*Filter.*
- A scroll region of the child's that ends above the cursor lets a line feed go into the bar; the comment at
  `ansi_filter.go:485-492` excludes it. Exceptions (`strayed`) in all three properties, also for `?47l` and `?1047l`, which do not
  restore the cursor.
- The rewritten erase and `ApplyScrollRegion` use ESC 7 and ESC 8 and so overwrite the cursor the child had saved.
- The belief is not corrected by ESC 8, by the home position after DECSTBM or a full reset, or by movements on the alternate
  screen (`drift`); a late answer of the terminal replaces a newer belief (`resize_scroll.go:91`). A full reset on the alternate screen leaves the
  filter thinking it is still there.

*Refreshes.*
- A worker started with the program's context survives its exec module: after a restart its snapshot may replace the
  new module's (`app.go:809`, `module_set.go:71,80-83`).
- The git worker keeps the module it was started with as long as there is something to do: under steady requests a changed format
  is never shown. `BarCatchesUp` in `GitRefresh` therefore says nothing of the module's generation.
- Both comments about a "last good value" of a probe (`scheduler.go:58-61`, `system.go:91-93`) are wrong: an overrun makes the module vanish. A
  cancelled goroutine may still emit. A change of `timeout_ms` alone is not applied by a reload.
- `exec.go:73-75` says that a failing command's output is still shown; `blockValue` (`renderer.go:697`) shows nothing of a snapshot with an
  error, so `{stderr}` and `{exit_code}` of a failing command never appear. `limitWriter` (`exec.go:183-192`) returns a short count when
  output straddles its limit: the copy fails and the module vanishes instead of being cut.

*Configuration.*
- A merge that is refused has already written into the shared module map. An overlay that refers to an unknown
  module `{foo}` enables it there as an exec module without a command, and every later overlay is refused until `--reload`.
  Exception (`tainted`) in `InUseIsValid`.
- For the same reason the retry that the comment at `reload.go:27-28` promises fails even when the file has been fixed: the
  bad entry is still in the map. `--reload` merges the overlay at the stored path, not the nearest one, and only a reload that succeeds empties the
  cache, so a `.ptyline` that comes or goes is noticed late. Exceptions in `OverlayFollowsDirectory`.

*Session.*
- A theme that does not build makes an adopted image exit (`app.go:119-121` says it never does); a handoff the new image refuses leaves the scroll
  region; a signal before `Notify` leaves the terminal raw. Exceptions in `ExitIsClean`.
- A SIGWINCH is lost when it comes before `Notify` or when the channel of one holds another signal (`missed` in
  `SizeIsCurrent`), and so is a SIGTERM; what waits in the bus or behind a reload is lost by `exec` (exceptions in `Ends`).
- A child reaped by the old image just before `exec`, or a key written after the PTY's other side was closed, turns the child's exit code into 1.

*Tracker.*
- `updateModules` (`app.go:571`) replaces the tracker without regard to the command it follows: a capped command may animate again
  and, without a start time, is never capped (the comment at `tracker.go:29-38` says otherwise); a finished one loses the tick that would clear it; a name
  may appear before its delay. A finished command also stays when no module is animated (`bar.go:236-239`).
- `done_failure_ttl_ms` is never acted on by a tick; an interrupted empty line reports an exit code of its own, which is shown
  as the last command's. This is why `SuccessIsEarned` speaks of successes only.

*Bar.*
- A style wider than the room of its block is written in full, and a border needs four cells: then the row is wider than the bar,
  against the comment at `layout.go:85-89`. Exceptions in `RowsAreExact`. A blank literal between two empty
  modules leaves a doubled separator (`renderer.go:340-342`); an empty module of fixed width takes its room; modules are dropped before literals.
- Every row stores the flag that keeps the ticker drawing (`renderer.go:325-327`). With three or more rows, the sweep over a command above the last two stops
  where it is; `TestMultiRowChangeFlagAccumulates` (`renderer_test.go:680-704`) promises otherwise and tries two rows. So does a reload in the middle of
  a silent command. Exceptions in `NothingFreezes`.
- Changes are detected in the text after truncation (`renderer.go:259-271`): a resize of a cut block counts as a change, and a module in two blocks of
  different widths changes with every frame.
- A "|" inside a value (a command `a || b`, a branch, a command's output) divides the text like one of the format's
  (`command.go:84`); output that contains `{stderr}` is expanded again (`exec.go:137-140`); "||" in a template is ignored.
  Exceptions in `TextsAreTidy`.
- The "connecting" state of an SSH command hardly ever shows (`ssh.go:38-41`).

## 5. What is proved

All proofs hold for every value of the constants under the named assumptions of the module: heights and bar heights are
positive, there is at least one of each value, capacities are positive, of the tracker's thresholds the appearance
delay and the grace do not exceed the maximum, the bar has at least one row and the shine a positive cycle, the filter's terminal has at least two rows above the bar, the default
modules are a valid configuration, and a probe module may have at least two goroutines. The number of resizes, queries, runtimes, images, signals, edits and changes is an arbitrary
natural number, so the bounds of the runs are not bounds of the theorems.

* `ScreenProofs`, of `ReservedArea`: `ChildRowsBounds`, `BarInsideTerminal`, `SplitExact` and
  `GeometryInjective`.
* `ScreenProofs`, of `Screen`: `TypeCorrect` (`TypeOK`); `Invariant` (`IInv`); from it
  `NormalScreenIsLaidOut` (`SettledNormal`), `AlternateScreenIsTheChilds` (`SettledAlt`) and both together,
  `ScreenAlwaysFits` (`ScreenFitsWindow`);
  `AlternateScreenIsNeverPainted` (`NoFrameOnAlt`). `ScreenFitsWindow` speaks of settled
  states only and says nothing of how one gets there. `IInv` adds:
  `NewestSizeInFlight` (whichever stage of the pipeline, from the forwarder's hand to a queued commit, is the first non-empty one
  holds the window's height, unless a SIGWINCH waits or was dropped), `BurstIsCommitted` (a burst has a commit still
  to come), `TransitionIsApplied` (a screen switch waits only between the filter and
  `FlushPending`), `LaidOut` (outside a burst all geometry agrees with the height the loop knows)
  and `MarginsSet`. With an empty pipeline the first gives `stRows = winRows`, the
  second that no burst is open, and the others the layout for that height. `CacheStaysSound` (`CacheIsSound`) has an
  inductive invariant of its own, `CacheInv`: what the writer believes to have painted is on the screen at the place its geometry
  says, and whoever changes the place, the rows or the screen forgets the belief; `GeometryInjective` makes comparing geometries enough.
* `ScreenProofs`, of `OutputFilter`: `FilterTypeCorrect`; `FilterInvariant` (`FilterInv`); from it `BeliefStaysExact`, `ErasesAreFaithful` and `CursorStaysOffBar`. A belief
  can be exact only because the margins are where the filter puts them (`MarginsAreSet`): so both clamp a relative
  movement at the same rows. The cursor that a screen switch brings back was saved off the bar (`SavedOffBar`), an answer not
  overtaken is the cursor's row (`AnswerIsExact`), and what takes the cursor to the bar by a number out of range or by VPR the filter
  knows not to know (`EscapesAreMissed`).
* `CursorPlacementProofs`: `TypeCorrect`; `Invariant` (`IInv`); from it `CursorStaysOutOfBar`
  (`CursorOutOfBar`) and `AnswersAreOwn` (`OwnAnswer`). Outside the wait the cursor is among the rows of the last
  commit unless the child left them during a burst (`strayed`), whichever of the burst's sizes that commit was for. The cursor can only go up while
  the loop waits, because nothing but the window moves it: so the answer to the
  shrink's own query is never above the cursor (`AnswerIsNoLower`), and comparing it with the
  child's rows finds every cursor in the bar. That it is the query's own answer follows when
  nothing else was around when it was asked (`AloneUnlessOverlapped`), because nobody has an
  answer to a question not yet asked (`AnswersArePast`). On the alternate screen the
  saved cursor keeps its place among the child's rows as long as no resize was handled there
  (`CursorAmongChildRows`).
* `ExecRefreshProofs`: `TypeCorrect`; `OneOwnerAlways` (`OneOwner`, inductive with
  `TypeOK`: whoever sets `refreshing` does it by a CAS, whoever clears it owns it);
  `RequestIsAlwaysSeen` (`RequestIsSeen`, inductive together with `OneOwner`, which
  gives a caller whose CAS fails a worker that still has to look);
  `RefreshKeepsPromise` (`Spec => PromiseSafe`): each step is a step of `Coalescing`
  or leaves its variables alone, because `Take` finds no other running worker. `Invariant` (`IInv`) adds what
  `FinalSnapshotStaysCurrent` (`FinalSnapshotIsCurrent`) needs: unless the directory is still to be read, what a worker has read is
  the current one (`ReadIsCurrent`), and behind the last current snapshot on the bus there is no other of the same runtime
  (`CurrentIsLast`). The bus being a FIFO that workers of stopped runtimes also send to, the second half is about positions in it.
* `GitRefreshProofs`: `Invariant` (`TypeOK` and `IInv`); from it `QuietIsCurrent` (`QuietMeansCurrent`). `gitRefreshing` is set
  exactly while one worker owns it (`OneOwner`). `EndsWith(i, s)` says that id `i` shows `s` once the bus is worked off: while a worker
  sends a round, the ids it has reached end with the round's snapshot (`RoundUnderWay`), between two rounds all of them end with one
  snapshot (`LastRound`); and this is of the shell's directory unless the directory will be read again (`Due`). The comparison of
  directories in the worker plays no part in this: it saves a round, the flag that every change of directory sets does the rest.
* `ProbeModulesProofs`: `TypeCorrect`; `Invariant` (`IInv`); from it `RunsOnlyTheEntry` (`OnlyTheEntryRuns`). A module that starts is
  younger than every goroutine there is and every context that is cancelled (`GensAreStarted`), and what it replaces is cancelled before
  (`RunningIsTheEntrys`), so it has the one ticker that it was started with (`EntryHasOneTicker`): a ticker ends only
  when its context is done, and a sample never becomes one (`FreeIsIdle`).
* `AppProofs`, of `ConfigOverlay`: `OverlayTypeCorrect`; `OverlayInvariant`; from it `CommandsStayTheBases`, `DisabledStaysOff` (`InferenceResurrectsNothing`), `InUseStaysValid`,
  `LayoutIsAlwaysLayered` and `OverlayStaysNearest` (`OverlayFollowsDirectory`). The last needs that the cache holds what a
  lookup gave (`CacheIsLookup`) until the user adds or removes a file (`reshaped`). Lemmas say what each operator of the loader keeps: merging leaves command and source of every module the base has
  alone, because the scope of an overlay was validated; inference enables only what was not switched off explicitly; and the layout of a
  merge does not depend on the map's contents, so that what earlier merges left there does not matter to it.
* `AppProofs`, of `Lifecycle`: `TypeCorrect`; `Invariant` (`TypeOK` and `IInv`); from it `TerminalAndChildAreLeftClean` (`ExitIsClean`),
  `EveryImageKeepsTheSession` (`SessionIsKept`), `NothingTheChildWroteIsLost` (`OutputIsComplete`) and `TheLoopKnowsTheSize`
  (`SizeIsCurrent`: the size handed to the loop; what the PTY gets of it is `Screen`'s subject). `Staged` says at each step of start-up, re-exec and exit what the image has set up so far and what the terminal, the
  child and the environment are like; with `ModeIsRemembered` (what raw mode will be restored to is the mode before the program, over any number of
  images) and `SessionHeld` it gives the first two. The third is a ledger: what the child wrote is what is in the PTY, with the reader, on the bus
  or in the loop's hand, and on the screen (`NoChunkIsLost`), and while the reader is awaited only the cut of a drain loses
  any (`ReaderIsAwaited`, `ExitIsReal`). The fourth says where a size under way is (`SizeArrives`).
* `CommandTrackerProofs`: `TypeCorrect`; `Invariant` (`IInv`); from it `InstantCommandsStayHidden`
  (`OnlyRunningIsActive`), `ShownSuccessIsEarned` (`SuccessIsEarned`) and `CapHoldsAlways` (`CapHolds`). The first needs that
  the tracker's clock is the run's as long as no reload stopped it (`ClockIsRunTime`), the second that the
  shell's report belongs to its last command (`LastIsCommand`, `ResultIsOutcome`) and that a display is never
  older than the command before the running one (`DisplayIsRecent`).
* `InductionProofs`, of `PositionQuery`: `TypeCorrect`; `StreamIsKept` (`IInv`); from it `EveryKeyArrives` (`InputArrives`) and `FilterHasRoom`
  (`ReplyHasRoom`: the `select` with which `Filter` hands over a reply never takes its `default`). Every step of the reader moves a front of what `Filter` has not decided about to the end of what it has let
  through (`Moves`), or takes or loses it and says so; hence the order of keys and the sum of those on their way and lost. That a match loses no
  key but the one whose reply it took needs that a tail follows its own ESC (`TailsFollow`), which the buffer must not break (`HeldBack`). From the same
  invariant `ItIsAChannel` (`IsQueryChannel`): what `Filter` lets through is `Leak` when there is an answer in it, a match is `Take` because the
  channel of an armed query is empty (`OneAnswer`), and throwing the buffer away hides nothing because it holds an ESC at most.
* `InductionProofs`, of `Animation`: `AnimationGoesOn` (`NothingFreezes`) and `ChangesCatchTheEye` (`ChangesAreLit`), from `AnimationInv`: the renderer
  remembers what the frame on the screen shows (`Remembers`), so the next frame compares with that. What a frame does is an
  induction over its rows: above row i the modules of the rows above are noted and the others as they were (`OneRowMore`).
* `InductionProofs`, of `BarLayout`, for every row (`Rows`: any number of tokens of any width and style, any bar and settings):
  `RowsFillTheBar` (`RowsAreExact`), `RowsDropLittle` (`OnlyWhatDoesNotFitIsDropped`) and `SeparatorsStandBetween` (`NoStraySeparator`).
  Each loop has an invariant: what `ParseFormat` has read are blocks; `Engine.arrange` has spent exactly the width of what it kept
  and nothing it passed over would still fit (`ChoiceOK`), and what it considers next is well defined because `Precedes` is a
  strict total order (`NextExists`); each separator kept so far has something visible between itself and the one before
  (`KeptSeparators`). The row is exact because the sections take no more than what was kept and the gaps are what is left (`GapsFill`).
* `InductionProofs`, of `ValueText`: `BlocksAreFull` (`BlocksAreExact`, a part of `RowsAreExact`), for every text and width: cells add up when texts are joined
  (`CellsOfConcat`), a cut never exceeds its cells (`CutsFit`), and an ellipsis takes one of them (`TruncateFits`, `PadFills`). It is what the
  row takes for granted of its blocks.
* `InductionProofs`, of `ValueText` too: `TextsStayTidy` (`TextsAreTidy`), for every format, any outputs, any limit and any separator that is
  none of the symbols (`TextTidy`); outputs are made of `ValueSymbols`, which have no `||`. Splitting, normalizing and joining are
  described symbol by symbol (`SplitMore`, `NormalizedOn`, `JoinSegmentsOn`). Tidy texts that are joined stay tidy
  (`TidyBlank`, `TidyMark`), and a tidy text is normalized already (`NormalizedSame`), hence the command module makes what git's does.
  Dividing a format and replacing in its parts is replacing and dividing the text, when no value brings a bar
  (`SplitReplace`): hence a template makes what git's does. Replacing one placeholder after the other is replacing all at
  once, when no value brings a placeholder (`ReplaceTwice`, `InTurn`): hence the exec module does.
* `InductionProofs`, of `AnsiScan`: `CutsAreHarmless` (`CutsNeverMatter`), for every stream and every cut of it. `Advance` is `Filter`'s step without its
  stops; where it gets stuck (`End`) is what remains of the bytes. A complete sequence stays what it is when more bytes follow (`SequenceStays`), so
  the scan may wait for them anywhere (`EndWith`); `Filter`'s loop only stops early at a switch between the screens, in either direction and as often as the bytes have one; each
  pass shortens what is deferred, so that in as many passes as there are bytes it gets to the same end (`NextPassSettles`, by induction over the
  passes). So what the passes keep of a read depends on that end alone (`PassesSettle`), and two reads are as good as one (`ReadsJoin`), unless something oversized was passed through: that
  depends on the cut.
* `InductionProofs`, of `AnsiScan` too: `SequencesAgree` (`SequencesAreTheTerminals`), for every stream. `Bytewise` gives `Filter` the stream byte by
  byte; after each byte both have found the same sequences, and what `Filter` holds back is the terminal's unfinished
  sequence (`Matches`), which looks as the terminal's mode says (`Shape`). One more byte keeps that (`MatchStep`). Of `WellFormed` the
  proof needs only that no ESC follows an ESC.

The prover has no rule of induction to offer for a property of ours, since the library's take the property as an
operator. So `InductionProofs` looks at the least natural for which a property fails (`LeastNatural`, from the library's
`NatLessThanWellFounded` and `WFMin`), and from this gets induction over sequences for the members of a set (`SeqByAppend`). A recursive function is a `CHOOSE` among
the solutions of its equation: a solution for every length exists by the same induction, and then the equation may be used.
`Only` and `Below` are written for this: a filter by a set and not by an operator, and one row as a step of its own.

Only model-checked is liveness (`ResizeCommitted`, the two `BarCatchesUp`, `DirectoryCatchesUp`, the fair half of `PromiseKept`, `InputGetsThrough`,
`Ends`, `TickerGoesQuiet`, `LongCommandIsShown`, `DoneGoesAway`), which is out of the prover's reach. Every other property of the passing
runs is stated by a theorem.

## 6. What is not modelled

* In the screen: failing writes, which end the session. In the filter: what the text of an OSC sequence says (the shell's messages are
  abstract in `CommandTracker`); which numbers of a private mode are screen switches, in `AnsiScan`; DECALN, selective erase (`CSI ? J`) and the
  savings of the alternate screen other than its cursor. In both: columns, and a window that changes while the filter tracks a row.
* In the screen and the session: a `QuerySize` that fails after start-up.
* In the cursor's placement: a bar that changes its height, a change of width alone, a terminal that moves the cursor down when it
  gets taller, and the ways off the margins that `OutputFilter` is about (they are not repeated in `ChildOutput`).
* In the refreshes: several exec ids (they share nothing but the bus), time
  modules, a panic in a module's worker; what `git status --porcelain` says, and how a probe reads the system.
* In the configuration: TOML decoding, migration, the many settings that merge like those that are modelled, and the validation
  of single values.
* In the session: a write to a PTY nobody reads, and what the handoff looks like in the environment.
* In the command tracker: a reload that changes its thresholds or disables the module.
* In the bar: colours, themes, icons, spans, and settings of blocks that a format cannot express (`MinWidth`, `MaxWidth`, fill widths).
* The SSH animator is two assignments around a time-out. System metric modules, shell scripts, command line,
  diagnostics and the Windows stubs are input, output and one-time detection.

## 7. Plan

1. An abstract two-screen layout that `Screen` implements.
2. The porcelain parser of the git module, against a reference that counts entries.
