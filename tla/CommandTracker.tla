--------------------------- MODULE CommandTracker ---------------------------
(***************************************************************************)
(* The command module of the bar: the tracker that decides when a running  *)
(* command's name appears, how long it glints, and when a finished command *)
(* is taken off the bar.                                                   *)
(*                                                                         *)
(* The actors are the shell, whose hooks report in a fixed order; the user *)
(* and the program, which type and write; the animation ticker and the     *)
(* reveal timer, goroutines that put Ticks on the bus; and the event loop, *)
(* which owns the tracker and may replace it at any time, because a reload *)
(* builds a new one.  A hook's message and its handler are one action: the *)
(* PTY is a FIFO, so a delay of it only makes the shell slower.            *)
(*                                                                         *)
(* Time is discrete (Time moves every clock at once), and an instant is    *)
(* kept as its age.  An age stops at the first value past the threshold it *)
(* is compared with; the zero time of a new tracker has that largest age.  *)
(***************************************************************************)
EXTENDS Integers

CONSTANTS
    Commands, NoCommand,          \* command names, and the empty name
    ShowDelay,                    \* commandActiveShowDelay, or its configured value
    EchoWindow, IdleTimeout,      \* keystrokeEchoWindow, commandAnimationIdleTimeout
    StartGrace, MaxDuration,      \* commandAnimationStartGrace, ...MaxDuration
    DoneMin, DoneTTL, FailureTTL, \* CommandDisplayPolicy; FailureTTL = 0 is "none"
    Enabled,                      \* cfg.Enabled of the command module
    MaxTicks,                     \* bound: Ticks waiting on the bus
    MaxReloads                    \* bound: how often a reload replaces the tracker

ASSUME CommandsAssumption == NoCommand \notin Commands /\ Commands # {}
ASSUME ClockAssumption ==
    /\ {ShowDelay, DoneMin, DoneTTL} \subseteq Nat \ {0}
    /\ {EchoWindow, IdleTimeout, StartGrace, MaxDuration, FailureTTL} \subseteq Nat
    /\ ShowDelay <= MaxDuration /\ StartGrace <= MaxDuration
ASSUME BoundsAssumption == Enabled \in BOOLEAN /\ MaxTicks \in Nat \ {0} /\ MaxReloads \in Nat

\* The largest age each clock distinguishes.
StartEnd == IF MaxDuration < DoneMin THEN DoneMin ELSE MaxDuration + 1
DoneEnd  == IF DoneTTL < FailureTTL THEN FailureTTL ELSE DoneTTL
RunAges  == 0..StartEnd
DoneAges == 0..DoneEnd
WorkAges == 0..(IdleTimeout + 1)
KeyAges  == 0..(EchoWindow + 1)
Older(age, end) == IF age < end THEN age + 1 ELSE end

VARIABLES
    phase,     \* the shell: where it is between two prompts
    cmd,       \* ... the command it ran last
    code,      \* ... its $?, 0 or 1 for every failure
    runAge,    \* ... the time from its start to now, or to its end
    shell,     \* ShellState
    tracker,   \* Tracker
    glint,     \* ActiveCommandAnimating
    shown,     \* the snapshot of the command module
    ticker,    \* whether the configuration animates anything, so that a ticker runs
    pending,   \* Ticks on the bus
    reveal,    \* activeRevealTimer: its age, Idle when it is not armed
    reloads,
    outcome,   \* history: how the last run of each command ended
    renewed    \* history: a reload since the shell last reported a start or an end

shellVars == <<phase, cmd, code, runAge>>
loopVars  == <<shell, tracker, glint, shown>>
vars == <<shellVars, loopVars, ticker, pending, reveal, reloads, outcome, renewed>>

Phases == {"prompt", "running", "ended", "redrawn", "cwd", "settle"}
Idle   == -1
Nothing == [kind |-> "empty", cmd |-> NoCommand, ok |-> FALSE, anim |-> FALSE]

Snapshots == [kind : {"empty", "active", "done"}, cmd : Commands \cup {NoCommand},
              ok : BOOLEAN, anim : BOOLEAN]

ShellStates == [active : Commands \cup {NoCommand}, last : Commands \cup {NoCommand}, exit : {0, 1},
                duration : RunAges, completed : BOOLEAN, doneAge : DoneAges]

TrackerStates == [animating : BOOLEAN, stamped : BOOLEAN, activeShown : BOOLEAN, capped : BOOLEAN,
                  startAge : RunAges, activityAge : WorkAges, stdinAge : KeyAges]

NewTracker == [animating |-> FALSE, stamped |-> FALSE, activeShown |-> FALSE, capped |-> FALSE,
               startAge |-> StartEnd, activityAge |-> IdleTimeout + 1,
               stdinAge |-> EchoWindow + 1]

Init ==
    /\ phase = "prompt" /\ cmd = NoCommand /\ code = 0 /\ runAge = 0
    /\ shell = [active |-> NoCommand, last |-> NoCommand, exit |-> 0, duration |-> 0,
                completed |-> FALSE, doneAge |-> 0]
    /\ tracker = NewTracker /\ glint = FALSE /\ shown = Nothing
    /\ ticker \in BOOLEAN /\ pending = 0 /\ reveal = Idle /\ reloads = 0
    /\ outcome = [c \in Commands |-> "none"] /\ renewed = FALSE

-----------------------------------------------------------------------------
(* When a finished command is on the bar, and the snapshot of the module.   *)

ShouldClearDone(s) ==
    s.active = NoCommand /\ s.completed /\ s.exit = 0 /\ s.doneAge >= DoneTTL

ShouldTickDoneLonger(s) ==          \* mutant: off by one against what is shown
    /\ s.active = NoCommand /\ s.completed /\ s.exit = 0
    /\ s.duration > DoneMin /\ ~ShouldClearDone(s)

ShouldTickDone(s) ==
    /\ s.active = NoCommand /\ s.completed /\ s.exit = 0
    /\ s.duration >= DoneMin /\ ~ShouldClearDone(s)

ShouldShowDoneEarly(s) ==           \* mutant: does not ask whether it is completed
    /\ s.last # NoCommand
    /\ \/ s.exit = 0 /\ s.duration >= DoneMin /\ ~ShouldClearDone(s)
       \/ s.exit # 0 /\ ~(FailureTTL > 0 /\ s.doneAge >= FailureTTL)

ShouldShowDone(s) ==
    /\ s.last # NoCommand /\ s.completed
    /\ \/ s.exit = 0 /\ s.duration >= DoneMin /\ ~ShouldClearDone(s)
       \/ s.exit # 0 /\ ~(FailureTTL > 0 /\ s.doneAge >= FailureTTL)

\* A name that is held back is blanked first.
Visible(t, s) == [s EXCEPT !.active = IF t.activeShown THEN s.active ELSE NoCommand]

Format(s, animating) ==
    CASE s.active # NoCommand ->
            [kind |-> "active", cmd |-> s.active, ok |-> FALSE, anim |-> animating]
      [] s.active = NoCommand /\ ShouldShowDone(s) ->
            [kind |-> "done", cmd |-> s.last, ok |-> s.exit = 0, anim |-> FALSE]
      [] OTHER -> Nothing

Snapshot(t, s, animating) == Format(Visible(t, s), animating)

Publish(t, s, animating) == shown' = IF Enabled THEN Snapshot(t, s, animating) ELSE shown

-----------------------------------------------------------------------------
(* The shell's hooks, and the ShellMeta handler for what they report.       *)

\* preexec.  Names alternate, so that a display can be told from the last one.
CommandStarts(c) ==
    /\ phase = "prompt" /\ c # cmd
    /\ phase' = "running" /\ cmd' = c /\ runAge' = 0
    /\ shell' = [shell EXCEPT !.active = c, !.last = c, !.completed = FALSE, !.doneAge = 0]
    /\ tracker' = [tracker EXCEPT !.startAge = 0, !.stamped = TRUE, !.activityAge = 0,
                                  !.activeShown = FALSE, !.capped = FALSE, !.animating = TRUE]
    /\ glint' = FALSE
    /\ reveal' = 0
    /\ outcome' = [outcome EXCEPT ![c] = "none"]
    /\ renewed' = FALSE
    /\ UNCHANGED <<code, shown, ticker, pending, reloads>>

\* precmd after a command begins with its duration ...
DurationReported ==
    /\ phase = "running"
    /\ phase' = "ended"
    /\ shell' = [shell EXCEPT !.duration = runAge]
    /\ Publish(tracker, shell', glint)
    /\ UNCHANGED <<cmd, code, runAge, tracker, glint, ticker, pending, reveal, reloads,
                   outcome, renewed>>

\* ... and after an empty or an interrupted line with the exit code.
PromptRedrawn ==
    /\ phase = "prompt"
    /\ phase' = "redrawn"
    /\ UNCHANGED <<cmd, code, runAge, loopVars, ticker, pending, reveal, reloads, outcome, renewed>>

Outcome(exit, duration) ==
    IF exit # 0 THEN "failed" ELSE IF duration >= DoneMin THEN "long" ELSE "short"

\* $? is the command's; an empty line leaves it, an interrupt makes it a failure.
ExitCodeReported(exit) ==
    /\ phase \in {"ended", "redrawn"}
    /\ phase = "redrawn" => exit \in {code, 1}
    /\ phase' = "cwd" /\ code' = exit
    /\ shell' = [shell EXCEPT !.exit = exit]
    /\ Publish(tracker, shell', glint)
    /\ outcome' = IF phase = "ended" THEN [outcome EXCEPT ![cmd] = Outcome(exit, shell.duration)]
                                     ELSE outcome
    /\ UNCHANGED <<cmd, runAge, tracker, glint, ticker, pending, reveal, reloads, renewed>>

\* updateModules replaces the tracker and restarts the ticker with the new flag.
Renew ==
    /\ reloads < MaxReloads /\ reloads' = reloads + 1
    /\ tracker' = NewTracker
    /\ renewed' = TRUE

\* The directory may belong to another project, and then its overlay is loaded.
DirectoryReported ==
    /\ phase = "cwd"
    /\ phase' = "settle"
    /\ \/ Renew
       \/ UNCHANGED <<reloads, tracker, renewed>>
    /\ UNCHANGED <<cmd, code, runAge, shell, glint, shown, ticker, pending, reveal, outcome>>

\* precmd ends with command "".
CommandCleared ==
    /\ phase = "settle"
    /\ phase' = "prompt"
    /\ shell' = [shell EXCEPT !.active = NoCommand,
                              !.completed = @ \/ shell.last # NoCommand, !.doneAge = 0]
    /\ tracker' = [tracker EXCEPT !.activeShown = FALSE, !.animating = ShouldTickDone(shell')]
    /\ glint' = FALSE
    /\ Publish(tracker', shell', FALSE)
    /\ reveal' = Idle
    /\ renewed' = FALSE
    /\ UNCHANGED <<cmd, code, runAge, ticker, pending, reloads, outcome>>

\* A reload that the user asks for, between any two events.
ConfigReload ==
    /\ Renew
    /\ UNCHANGED <<shellVars, shell, glint, shown, ticker, pending, reveal, outcome>>

-----------------------------------------------------------------------------
(* The terminal: a key, and output of the program that runs.                *)

Keystroke ==
    /\ tracker' = [tracker EXCEPT !.stdinAge = 0]
    /\ UNCHANGED <<shellVars, shell, glint, shown, ticker, pending, reveal, reloads,
                   outcome, renewed>>

Output ==
    /\ shell.active # NoCommand /\ ~tracker.capped
    /\ tracker.stdinAge > EchoWindow
    /\ tracker' = [tracker EXCEPT !.activityAge = 0, !.animating = TRUE]
    /\ glint' = (glint \/ ~tracker.animating)
    /\ UNCHANGED <<shellVars, shell, shown, ticker, pending, reveal, reloads, outcome, renewed>>

-----------------------------------------------------------------------------
(* Ticks: who sends them, and the handler.                                  *)

SendTick == pending < MaxTicks /\ pending' = pending + 1

TickerFires ==
    /\ ticker /\ tracker.animating /\ SendTick
    /\ UNCHANGED <<shellVars, loopVars, ticker, reveal, reloads, outcome, renewed>>

\* The same ticker, while a value that changed in another module still animates.
OtherTick ==
    /\ ticker /\ ~tracker.animating /\ SendTick
    /\ UNCHANGED <<shellVars, loopVars, ticker, reveal, reloads, outcome, renewed>>

RevealTimerFires ==
    /\ reveal = ShowDelay /\ SendTick
    /\ reveal' = Idle
    /\ UNCHANGED <<shellVars, loopVars, ticker, reloads, outcome, renewed>>

ClearLastCommand(s) ==
    [s EXCEPT !.last = NoCommand, !.exit = 0, !.duration = 0, !.completed = FALSE, !.doneAge = 0]

TickAtPrompt ==
    /\ shell.active = NoCommand
    /\ glint' = FALSE
    /\ IF ShouldClearDone(shell)
       THEN /\ shell' = ClearLastCommand(shell)
            /\ tracker' = [tracker EXCEPT !.animating = FALSE]
            /\ Publish(tracker', shell', FALSE)
       ELSE UNCHANGED <<shell, tracker, shown>>

DueLate(t) == t.activeShown \/ t.startAge > ShowDelay  \* mutant: the reveal timer's tick is early

\* The name is due, once: nothing hides it again before the command ends.
Due(t) == t.activeShown \/ t.startAge >= ShowDelay

CappedWhenIdle(t) ==                                  \* mutant: output holds the cap off
    t.stamped /\ t.startAge > MaxDuration /\ t.activityAge > IdleTimeout

Capped(t)   == t.stamped /\ t.startAge > MaxDuration
StillNew(t) == t.stamped /\ t.startAge <= StartGrace
Working(t)  == StillNew(t) \/ t.activityAge <= IdleTimeout

\* What the tick makes of the tracker of a command whose name is due.
Advanced(t) ==
    IF t.capped THEN t
    ELSE IF Capped(t) THEN [t EXCEPT !.capped = TRUE, !.animating = FALSE]
    ELSE [t EXCEPT !.animating = StillNew(t) \/ (@ /\ Working(t))]

TickWhileRunning ==
    /\ shell.active # NoCommand
    /\ UNCHANGED shell
    /\ IF ~Due(tracker)
       THEN UNCHANGED <<tracker, glint, shown>>
       ELSE /\ tracker' = Advanced([tracker EXCEPT !.activeShown = TRUE])
            /\ IF tracker.capped
               THEN UNCHANGED <<glint, shown>>
               ELSE /\ glint' = (~Capped(tracker) /\ Working(tracker))
                    /\ Publish(tracker', shell, glint')

Tick ==
    /\ pending > 0 /\ pending' = pending - 1
    /\ TickAtPrompt \/ TickWhileRunning
    /\ UNCHANGED <<shellVars, ticker, reveal, reloads, outcome, renewed>>

-----------------------------------------------------------------------------
Time ==
    /\ runAge' = IF shell.active # NoCommand THEN Older(runAge, StartEnd) ELSE runAge
    /\ shell' = [shell EXCEPT !.doneAge = IF shell.completed THEN Older(@, DoneEnd) ELSE @]
    /\ tracker' = [tracker EXCEPT !.startAge = Older(@, StartEnd),
                                  !.activityAge = Older(@, IdleTimeout + 1),
                                  !.stdinAge = Older(@, EchoWindow + 1)]
    /\ reveal' = IF reveal = Idle THEN Idle ELSE Older(reveal, ShowDelay)
    /\ UNCHANGED <<phase, cmd, code, glint, shown, ticker, pending, reloads, outcome, renewed>>

Next ==
    \/ \E c \in Commands : CommandStarts(c)
    \/ DurationReported \/ PromptRedrawn
    \/ \E exit \in {0, 1} : ExitCodeReported(exit)
    \/ DirectoryReported \/ CommandCleared
    \/ ConfigReload \/ Keystroke \/ Output
    \/ TickerFires \/ OtherTick \/ RevealTimerFires
    \/ Tick \/ Time

\* The clock runs, timers fire and the loop works off its events.  Nothing is
\* promised of the shell, the user and the program.
Fairness == WF_vars(Time) /\ WF_vars(TickerFires) /\ WF_vars(RevealTimerFires) /\ WF_vars(Tick)

Spec == Init /\ [][Next]_vars /\ Fairness

-----------------------------------------------------------------------------
TerminalType ==
    /\ phase \in Phases /\ cmd \in Commands \cup {NoCommand} /\ code \in {0, 1}
    /\ runAge \in RunAges
    /\ pending \in 0..MaxTicks /\ reveal \in {Idle} \cup 0..ShowDelay /\ reloads \in 0..MaxReloads

ShellType == shell \in ShellStates

TrackerType == tracker \in TrackerStates

BarType ==
    /\ shown \in Snapshots
    /\ glint \in BOOLEAN /\ ticker \in BOOLEAN /\ renewed \in BOOLEAN
    /\ outcome \in [Commands -> {"none", "long", "short", "failed"}]

\* Types of the variables; part of it is that the bus never exceeds its capacity.
TypeOK == TerminalType /\ ShellType /\ TrackerType /\ BarType

\* An instant command never flashes into the bar (tracker.go:45-48): a name
\* shown as running is the shell's command, it has run for the appearance
\* delay, and it is gone with the prompt.  A reload drops the start time with
\* the old tracker, so a command that has seen one may be shown sooner.
OnlyRunningIsActive ==
    shown.kind = "active" =>
        /\ shell.active # NoCommand /\ shown.cmd = shell.active
        /\ runAge >= ShowDelay \/ renewed

\* A command shown as finished well did finish so, after the least duration
\* that is worth showing, whatever codes, durations, prompts and reloads came
\* between its end and the snapshot.
SuccessIsEarned == shown.kind = "done" /\ shown.ok => outcome[shown.cmd] = "long"

\* Once capped the command still shows as running but nothing of it animates,
\* whatever it writes, until the next one starts (tracker.go:29-38): not the
\* ticker, not the snapshot of a late exit code or duration.
CapHolds ==
    tracker.capped /\ shell.active # NoCommand =>
        ~tracker.animating /\ ~glint /\ ~shown.anim

\* The ticker, which redraws the bar on every beat, is not kept running by a
\* shell that stays at its prompt, nor by one command for ever, however much
\* that writes (tracker.go:29-38); unless a reload forgot when it started.
TickerGoesQuiet ==
    ticker =>
        /\ <>[](phase = "prompt") => <>[]~tracker.animating
        /\ <>[](phase = "running" /\ ~renewed) => <>[]~tracker.animating

\* A command that keeps running is shown in the end, with or without an
\* animation ticker, with or without a reload (app.go:655-657).
LongCommandIsShown ==
    Enabled /\ <>[](phase = "running") => <>[](shown.kind = "active" /\ shown.cmd = cmd)

\* A successful command does not stay on the bar of a shell that stays at its
\* prompt, if there is a ticker and no reload took the tracker that waits for
\* the end of its time.
DoneGoesAway ==
    ticker /\ <>[](phase = "prompt" /\ ~renewed) => <>[]~(shown.kind = "done" /\ shown.ok)

-----------------------------------------------------------------------------
(* The inductive invariant of the three safety properties.                  *)

\* Between preexec and the end of precmd, and only then, a command is active.
ActiveBetweenHooks ==
    /\ phase \in {"running", "ended"} => shell.active = cmd /\ cmd # NoCommand
    /\ phase \in {"prompt", "redrawn"} => shell.active = NoCommand
    /\ shell.active # NoCommand => shell.active = cmd

\* The tracker's clock is the shell's, unless a reload stopped it.
ClockIsRunTime ==
    shell.active # NoCommand /\ ~renewed =>
        /\ tracker.stamped /\ tracker.startAge = runAge
        /\ tracker.activeShown => runAge >= ShowDelay

\* What ShellState says of the last command is what became of it.
LastIsCommand ==
    /\ shell.active # NoCommand => ~shell.completed
    /\ shell.completed => shell.last # NoCommand
    /\ shell.last # NoCommand => shell.last = cmd
    /\ shell.exit = code

ResultIsOutcome ==
    /\ shell.last # NoCommand \/ shell.active # NoCommand
    /\ phase \notin {"running", "ended"} /\ shell.exit = 0 /\ shell.duration >= DoneMin
    => outcome[cmd] = "long"

\* A display is never older than the command before the running one.
DisplayIsRecent ==
    /\ ~Enabled => shown = Nothing
    /\ shown.kind = "done" => shown.cmd # NoCommand
    /\ shown.kind = "done" /\ phase # "running" => shown.cmd = cmd
    /\ shown.kind = "done" /\ shell.active # NoCommand => shown.cmd # cmd

\* The safety properties, and what makes them hold in every step: the tracker's clock
\* is that of the run, the shell's report is that of its last command, and what
\* is on the bar was published by the current or by the last command.
IInv ==
    /\ ActiveBetweenHooks /\ ClockIsRunTime /\ LastIsCommand /\ ResultIsOutcome /\ DisplayIsRecent
    /\ OnlyRunningIsActive /\ SuccessIsEarned /\ CapHolds
=============================================================================
