------------------------ MODULE CommandTrackerProofs ------------------------
(***************************************************************************)
(* Proofs about the command tracker, for any commands, any thresholds and  *)
(* any number of reloads and waiting ticks.                                *)
(***************************************************************************)
EXTENDS CommandTracker, TLAPS

USE CommandsAssumption, ClockAssumption, BoundsAssumption

\* The largest ages are ages, and cover the thresholds.
LEMMA Ends ==
    /\ StartEnd \in Nat /\ DoneEnd \in Nat /\ ShowDelay <= StartEnd
    /\ StartEnd \in RunAges /\ 0 \in RunAges /\ 0 \in DoneAges
    /\ IdleTimeout + 1 \in WorkAges /\ 0 \in WorkAges
    /\ EchoWindow + 1 \in KeyAges /\ 0 \in KeyAges
    /\ RunAges \subseteq Nat
  BY DEF StartEnd, DoneEnd, RunAges, DoneAges, WorkAges, KeyAges

\* Time keeps every clock in its range and never sets one back.
LEMMA OlderIsAge ==
    /\ \A age \in RunAges  : Older(age, StartEnd) \in RunAges /\ Older(age, StartEnd) >= age
    /\ \A age \in DoneAges : Older(age, DoneEnd) \in DoneAges
    /\ \A age \in WorkAges : Older(age, IdleTimeout + 1) \in WorkAges
    /\ \A age \in KeyAges  : Older(age, EchoWindow + 1) \in KeyAges
    /\ \A age \in 0..ShowDelay : Older(age, ShowDelay) \in 0..ShowDelay
  BY Ends DEF Older, RunAges, DoneAges, WorkAges, KeyAges

\* The three kinds of snapshot, and what each says.
LEMMA FormatFacts ==
    ASSUME NEW s \in ShellStates, NEW animating \in BOOLEAN
    PROVE  LET snap == Format(s, animating)
           IN  /\ snap \in Snapshots
               /\ snap.kind = "active" => s.active # NoCommand /\ snap.cmd = s.active
               /\ snap.kind = "done" => ShouldShowDone(s) /\ snap.cmd = s.last
               /\ snap.kind = "done" /\ snap.ok => s.exit = 0
               /\ snap.anim => animating
  <1>1. CASE s.active # NoCommand
    <2>1. Format(s, animating) = [kind |-> "active", cmd |-> s.active, ok |-> FALSE, anim |-> animating]
      BY <1>1 DEF Format
    <2>2. Format(s, animating) \in Snapshots
      BY <2>1 DEF Snapshots, ShellStates
    <2> QED
      BY <1>1, <2>1, <2>2
  <1>2. CASE s.active = NoCommand /\ ShouldShowDone(s)
    <2> DEFINE good == s.exit = 0
    <2>1. Format(s, animating) = [kind |-> "done", cmd |-> s.last, ok |-> good, anim |-> FALSE]
      BY <1>2 DEF Format
    <2>2. good \in BOOLEAN /\ (good => s.exit = 0)
      OBVIOUS
    <2> HIDE DEF good
    <2>3. Format(s, animating) \in Snapshots
      BY <2>1, <2>2 DEF Snapshots, ShellStates
    <2> QED
      BY <1>2, <2>1, <2>2, <2>3
  <1>3. CASE s.active = NoCommand /\ ~ShouldShowDone(s)
    <2>1. Format(s, animating) = Nothing
      BY <1>3 DEF Format
    <2> QED
      BY <2>1 DEF Snapshots, Nothing
  <1> QED
    BY <1>1, <1>2, <1>3

\* The same of a snapshot, in terms of the shell's state before it is blanked.
LEMMA SnapshotFacts ==
    ASSUME NEW t, NEW s \in ShellStates, NEW animating \in BOOLEAN
    PROVE  LET snap == Snapshot(t, s, animating)
           IN  /\ snap \in Snapshots
               /\ snap.kind = "active" => t.activeShown /\ s.active # NoCommand /\ snap.cmd = s.active
               /\ snap.kind = "done" => /\ s.completed /\ s.last # NoCommand /\ snap.cmd = s.last
               /\ snap.kind = "done" /\ snap.ok => s.exit = 0 /\ s.duration >= DoneMin
               /\ snap.anim => animating
  <1>1. Visible(t, s) \in ShellStates
    BY DEF Visible, ShellStates
  <1>2. /\ Visible(t, s).active = IF t.activeShown THEN s.active ELSE NoCommand
        /\ Visible(t, s).last = s.last /\ Visible(t, s).completed = s.completed
        /\ Visible(t, s).exit = s.exit /\ Visible(t, s).duration = s.duration
    BY DEF Visible, ShellStates
  <1>3. ShouldShowDone(Visible(t, s)) =>
           /\ s.completed /\ s.last # NoCommand
           /\ s.exit = 0 => s.duration >= DoneMin
    BY <1>2 DEF ShouldShowDone
  <1> QED
    BY <1>1, <1>2, <1>3, FormatFacts DEF Snapshot

\* What is on the bar after a snapshot was published.
Published(t, s, animating) ==
    /\ shown' \in Snapshots
    /\ ~Enabled => shown' = shown
    /\ Enabled =>
          /\ shown'.kind = "active" => t.activeShown /\ s.active # NoCommand /\ shown'.cmd = s.active
          /\ shown'.kind = "done" => s.completed /\ s.last # NoCommand /\ shown'.cmd = s.last
          /\ shown'.kind = "done" /\ shown'.ok => s.exit = 0 /\ s.duration >= DoneMin
          /\ shown'.anim => animating

\* What is published is what the shell and the tracker know.
LEMMA PublishFacts ==
    ASSUME NEW t, NEW s \in ShellStates, NEW animating \in BOOLEAN, shown \in Snapshots,
           Publish(t, s, animating)
    PROVE  Published(t, s, animating)
  BY SnapshotFacts DEF Publish, Published

\* A module that is not enabled publishes nothing, so that its display promises hold.
LEMMA DisabledIsQuiet ==
    ASSUME DisplayIsRecent, ~Enabled, shown' = shown
    PROVE  DisplayIsRecent' /\ OnlyRunningIsActive' /\ SuccessIsEarned' /\ shown'.anim = FALSE
  BY DEF DisplayIsRecent, OnlyRunningIsActive, SuccessIsEarned, Nothing

\* The tracker starts at a prompt, with nothing shown.
LEMMA InitCorrect == Init => TypeOK /\ IInv
  <1> SUFFICES ASSUME Init PROVE TypeOK /\ IInv
    OBVIOUS
  <1>1. TerminalType
    BY Ends DEF Init, TerminalType, Phases, Idle
  <1>2. ShellType
    BY Ends DEF Init, ShellType, ShellStates
  <1>3. TrackerType
    BY Ends DEF Init, TrackerType, TrackerStates, NewTracker
  <1>4. BarType
    BY DEF Init, BarType, Snapshots, Nothing
  <1>5. IInv
    BY DEF Init, IInv, ActiveBetweenHooks, ClockIsRunTime, LastIsCommand, ResultIsOutcome,
       DisplayIsRecent, OnlyRunningIsActive, SuccessIsEarned, CapHolds, NewTracker, Nothing
  <1> QED
    BY <1>1, <1>2, <1>3, <1>4, <1>5 DEF TypeOK

\* The shell starts a command.
LEMMA CommandStartsCorrect ==
    ASSUME TypeOK, IInv, NEW c \in Commands, CommandStarts(c)
    PROVE  TypeOK' /\ IInv'
  <1> USE DEF CommandStarts, TypeOK
  <1>1. TerminalType'
    BY Ends DEF TerminalType, Phases, Idle
  <1>2. ShellType'
    BY Ends DEF ShellType, ShellStates
  <1>3. TrackerType'
    BY Ends DEF TrackerType, TrackerStates
  <1>4. BarType'
    BY DEF BarType
  <1>5. IInv'
    BY DEF IInv, ActiveBetweenHooks, ClockIsRunTime, LastIsCommand, ResultIsOutcome,
       DisplayIsRecent, OnlyRunningIsActive, SuccessIsEarned, CapHolds, TerminalType, ShellType, ShellStates, TrackerType, BarType, Snapshots
  <1> QED
    BY <1>1, <1>2, <1>3, <1>4, <1>5

\* A key stroke moves one clock that no invariant reads.
LEMMA KeystrokeCorrect ==
    ASSUME TypeOK, IInv, Keystroke
    PROVE  TypeOK' /\ IInv'
  <1> USE DEF TypeOK
  <1>1. TerminalType'
    BY Ends DEF Keystroke, shellVars, TerminalType, Phases, Idle
  <1>2. ShellType'
    BY Ends DEF Keystroke, shellVars, ShellType, ShellStates
  <1>3. TrackerType'
    BY Ends DEF Keystroke, shellVars, TrackerType, TrackerStates
  <1>4. BarType'
    BY DEF Keystroke, shellVars, BarType
  <1>5. IInv'
    BY Ends DEF Keystroke, shellVars, IInv, ActiveBetweenHooks, ClockIsRunTime, LastIsCommand, ResultIsOutcome,
       DisplayIsRecent, OnlyRunningIsActive, SuccessIsEarned, CapHolds, TerminalType, ShellType, ShellStates,
       TrackerType, TrackerStates, BarType, Snapshots
  <1> QED
    BY <1>1, <1>2, <1>3, <1>4, <1>5

\* Output starts the animation of a command that is not capped.
LEMMA OutputCorrect ==
    ASSUME TypeOK, IInv, Output
    PROVE  TypeOK' /\ IInv'
  <1> USE DEF TypeOK
  <1>1. TerminalType'
    BY Ends DEF Output, shellVars, TerminalType, Phases, Idle
  <1>2. ShellType'
    BY Ends DEF Output, shellVars, ShellType, ShellStates
  <1>3. TrackerType'
    BY Ends DEF Output, shellVars, TrackerType, TrackerStates
  <1>4. BarType'
    BY DEF Output, shellVars, BarType
  <1>5. IInv'
    BY Ends DEF Output, shellVars, IInv, ActiveBetweenHooks, ClockIsRunTime, LastIsCommand, ResultIsOutcome,
       DisplayIsRecent, OnlyRunningIsActive, SuccessIsEarned, CapHolds, TerminalType, ShellType, ShellStates,
       TrackerType, TrackerStates, BarType, Snapshots
  <1> QED
    BY <1>1, <1>2, <1>3, <1>4, <1>5

\* A new tracker has no start time, no name shown and no cap.
LEMMA ReloadCorrect ==
    ASSUME TypeOK, IInv, ConfigReload
    PROVE  TypeOK' /\ IInv'
  <1> USE DEF TypeOK
  <1>1. TerminalType'
    BY Ends DEF ConfigReload, Renew, NewTracker, shellVars, TerminalType, Phases, Idle
  <1>2. ShellType'
    BY Ends DEF ConfigReload, Renew, NewTracker, shellVars, ShellType, ShellStates
  <1>3. TrackerType'
    BY Ends DEF ConfigReload, Renew, NewTracker, shellVars, TrackerType, TrackerStates
  <1>4. BarType'
    BY DEF ConfigReload, Renew, NewTracker, shellVars, BarType
  <1>5. IInv'
    BY Ends DEF ConfigReload, Renew, NewTracker, shellVars, IInv, ActiveBetweenHooks, ClockIsRunTime, LastIsCommand, ResultIsOutcome,
       DisplayIsRecent, OnlyRunningIsActive, SuccessIsEarned, CapHolds, TerminalType, ShellType, ShellStates,
       TrackerType, TrackerStates, BarType, Snapshots
  <1> QED
    BY <1>1, <1>2, <1>3, <1>4, <1>5

\* So does one that comes with the directory.
LEMMA DirectoryCorrect ==
    ASSUME TypeOK, IInv, DirectoryReported
    PROVE  TypeOK' /\ IInv'
  <1> USE DEF TypeOK
  <1>1. TerminalType'
    BY Ends DEF DirectoryReported, Renew, NewTracker, TerminalType, Phases, Idle
  <1>2. ShellType'
    BY Ends DEF DirectoryReported, Renew, NewTracker, ShellType, ShellStates
  <1>3. TrackerType'
    <2>1. CASE Renew
      BY <2>1, Ends DEF Renew, NewTracker, TrackerType, TrackerStates
    <2>2. CASE UNCHANGED <<reloads, tracker, renewed>>
      BY <2>2 DEF TrackerType, TrackerStates
    <2> QED
      BY <2>1, <2>2 DEF DirectoryReported
  <1>4. BarType'
    BY DEF DirectoryReported, Renew, NewTracker, BarType
  <1>5. IInv'
    BY Ends DEF DirectoryReported, Renew, NewTracker, IInv, ActiveBetweenHooks, ClockIsRunTime, LastIsCommand, ResultIsOutcome,
       DisplayIsRecent, OnlyRunningIsActive, SuccessIsEarned, CapHolds, TerminalType, ShellType, ShellStates,
       TrackerType, TrackerStates, BarType, Snapshots
  <1> QED
    BY <1>1, <1>2, <1>3, <1>4, <1>5

\* An empty line.
LEMMA RedrawnCorrect ==
    ASSUME TypeOK, IInv, PromptRedrawn
    PROVE  TypeOK' /\ IInv'
  <1> USE DEF TypeOK
  <1>1. TerminalType'
    BY Ends DEF PromptRedrawn, loopVars, TerminalType, Phases, Idle
  <1>2. ShellType'
    BY Ends DEF PromptRedrawn, loopVars, ShellType, ShellStates
  <1>3. TrackerType'
    BY Ends DEF PromptRedrawn, loopVars, TrackerType, TrackerStates
  <1>4. BarType'
    BY DEF PromptRedrawn, loopVars, BarType
  <1>5. IInv'
    BY Ends DEF PromptRedrawn, loopVars, IInv, ActiveBetweenHooks, ClockIsRunTime, LastIsCommand, ResultIsOutcome,
       DisplayIsRecent, OnlyRunningIsActive, SuccessIsEarned, CapHolds, TerminalType, ShellType, ShellStates,
       TrackerType, TrackerStates, BarType, Snapshots
  <1> QED
    BY <1>1, <1>2, <1>3, <1>4, <1>5

\* Ticks are sent while the bus has room.
LEMMA SendersCorrect ==
    ASSUME TypeOK, IInv, TickerFires \/ OtherTick \/ RevealTimerFires
    PROVE  TypeOK' /\ IInv'
  <1> USE DEF TypeOK
  <1>1. TerminalType'
    BY Ends DEF TickerFires, OtherTick, RevealTimerFires, SendTick, shellVars, loopVars, TerminalType, Phases, Idle
  <1>2. ShellType'
    BY Ends DEF TickerFires, OtherTick, RevealTimerFires, SendTick, shellVars, loopVars, ShellType, ShellStates
  <1>3. TrackerType'
    BY Ends DEF TickerFires, OtherTick, RevealTimerFires, SendTick, shellVars, loopVars, TrackerType, TrackerStates
  <1>4. BarType'
    BY DEF TickerFires, OtherTick, RevealTimerFires, SendTick, shellVars, loopVars, BarType
  <1>5. IInv'
    BY Ends DEF TickerFires, OtherTick, RevealTimerFires, SendTick, shellVars, loopVars, IInv, ActiveBetweenHooks, ClockIsRunTime, LastIsCommand, ResultIsOutcome,
       DisplayIsRecent, OnlyRunningIsActive, SuccessIsEarned, CapHolds, TerminalType, ShellType, ShellStates,
       TrackerType, TrackerStates, BarType, Snapshots
  <1> QED
    BY <1>1, <1>2, <1>3, <1>4, <1>5

\* The command is still active, so what is published is its name or nothing.
LEMMA DurationCorrect ==
    ASSUME TypeOK, IInv, DurationReported
    PROVE  TypeOK' /\ IInv'
  <1> USE DEF TypeOK
  <1>1. TerminalType'
    BY Ends DEF DurationReported, TerminalType, Phases, Idle
  <1>2. ShellType'
    <2>1. runAge \in RunAges /\ shell' = [shell EXCEPT !.duration = runAge]
      BY DEF DurationReported, TerminalType
    <2> QED
      BY <2>1 DEF ShellType, ShellStates
  <1>3. TrackerType'
    BY Ends DEF DurationReported, TrackerType, TrackerStates
  <1>4. /\ shell'.active = shell.active /\ shell'.completed = shell.completed
        /\ shell'.last = shell.last /\ shell'.exit = shell.exit
    BY DEF DurationReported, ShellType, ShellStates
  <1>5. shell.active = cmd /\ cmd # NoCommand /\ ~shell.completed
    BY DEF DurationReported, IInv, ActiveBetweenHooks, LastIsCommand
  <1>6. Published(tracker, shell', glint)
    BY <1>2, PublishFacts DEF DurationReported, ShellType, BarType
  <1>7. BarType'
    BY <1>6 DEF DurationReported, BarType, Published
  <1>8. IInv'
    <2>1. ActiveBetweenHooks' /\ ClockIsRunTime' /\ LastIsCommand' /\ ResultIsOutcome'
      BY <1>4, <1>5 DEF DurationReported, IInv, ActiveBetweenHooks, ClockIsRunTime, LastIsCommand, ResultIsOutcome
    <2>2. CASE ~Enabled
      <3>1. DisplayIsRecent' /\ OnlyRunningIsActive' /\ SuccessIsEarned' /\ shown'.anim = FALSE
        BY <2>2, <1>6, DisabledIsQuiet DEF IInv, Published
      <3> QED
        BY <2>1, <3>1 DEF DurationReported, IInv, CapHolds
    <2>3. CASE Enabled
      <3>1. shown'.kind # "done"
        BY <2>3, <1>4, <1>5, <1>6 DEF Published
      <3>2. DisplayIsRecent' /\ SuccessIsEarned'
        BY <2>3, <3>1 DEF DisplayIsRecent, SuccessIsEarned
      <3>3. OnlyRunningIsActive'
        BY <2>1, <2>3, <1>4, <1>5, <1>6 DEF DurationReported, Published, ClockIsRunTime, OnlyRunningIsActive
      <3>4. CapHolds'
        BY <2>3, <1>4, <1>5, <1>6 DEF DurationReported, IInv, Published, CapHolds
      <3> QED
        BY <2>1, <3>2, <3>3, <3>4 DEF IInv
    <2> QED
      BY <2>2, <2>3
  <1> QED
    BY <1>1, <1>2, <1>3, <1>7, <1>8

\* The code is that of the command that just ended, or that of the prompt.
LEMMA ExitCodeCorrect ==
    ASSUME TypeOK, IInv, NEW exit \in {0, 1}, ExitCodeReported(exit)
    PROVE  TypeOK' /\ IInv'
  <1> USE DEF TypeOK
  <1>1. TerminalType'
    BY Ends DEF ExitCodeReported, TerminalType, Phases, Idle
  <1>2. ShellType'
    BY DEF ExitCodeReported, ShellType, ShellStates
  <1>3. TrackerType'
    BY DEF ExitCodeReported, TrackerType, TrackerStates
  <1>4. /\ shell'.active = shell.active /\ shell'.completed = shell.completed
        /\ shell'.last = shell.last /\ shell'.exit = exit /\ shell'.duration = shell.duration
    BY DEF ExitCodeReported, ShellType, ShellStates
  <1>5. /\ phase = "ended" => shell.active = cmd /\ cmd # NoCommand /\ ~shell.completed
        /\ phase = "redrawn" => shell.active = NoCommand /\ exit \in {shell.exit, 1}
    BY DEF ExitCodeReported, IInv, ActiveBetweenHooks, LastIsCommand
  <1>6. Published(tracker, shell', glint)
    BY <1>2, PublishFacts DEF ExitCodeReported, ShellType, BarType
  <1>7. BarType'
    BY <1>6 DEF ExitCodeReported, BarType, Published, Outcome
  <1>8. /\ phase = "redrawn" => outcome' = outcome
        /\ phase = "ended" /\ exit = 0 /\ shell.duration >= DoneMin => outcome'[cmd] = "long"
    BY <1>5, Ends DEF ExitCodeReported, Outcome, BarType, ShellType, ShellStates, TerminalType
  <1>9. ActiveBetweenHooks' /\ ClockIsRunTime' /\ LastIsCommand'
    BY <1>4, <1>5 DEF ExitCodeReported, IInv, ActiveBetweenHooks, ClockIsRunTime, LastIsCommand
  <1>10. ResultIsOutcome'
    BY <1>4, <1>5, <1>8 DEF ExitCodeReported, IInv, ResultIsOutcome, LastIsCommand
  <1>11. CASE ~Enabled
    <2>1. DisplayIsRecent' /\ OnlyRunningIsActive' /\ SuccessIsEarned' /\ shown'.anim = FALSE
      BY <1>11, <1>6, DisabledIsQuiet DEF IInv, Published
    <2> QED
      BY <1>1, <1>2, <1>3, <1>4, <1>7, <1>9, <1>10, <2>1 DEF ExitCodeReported, IInv, CapHolds
  <1>12. CASE Enabled
    <2>1. shown'.kind = "done" => phase = "redrawn" /\ shown'.cmd = cmd /\ cmd # NoCommand
      BY <1>12, <1>4, <1>5, <1>6 DEF ExitCodeReported, Published, IInv, LastIsCommand
    <2>2. DisplayIsRecent'
      BY <1>12, <1>4, <1>5, <2>1 DEF ExitCodeReported, DisplayIsRecent
    <2>3. SuccessIsEarned'
      BY <1>12, <1>4, <1>5, <1>6, <1>8, <2>1 DEF ExitCodeReported, SuccessIsEarned, Published, IInv,
         ResultIsOutcome, LastIsCommand
    <2>4. OnlyRunningIsActive'
      BY <1>12, <1>4, <1>6, <1>9 DEF ExitCodeReported, Published, ClockIsRunTime, OnlyRunningIsActive
    <2>5. CapHolds'
      BY <1>12, <1>4, <1>6 DEF ExitCodeReported, IInv, Published, CapHolds
    <2> QED
      BY <1>1, <1>2, <1>3, <1>7, <1>9, <1>10, <2>2, <2>3, <2>4, <2>5 DEF IInv
  <1> QED
    BY <1>11, <1>12

\* The command is over: no name is active, and its result is published.
LEMMA ClearedCorrect ==
    ASSUME TypeOK, IInv, CommandCleared
    PROVE  TypeOK' /\ IInv'
  <1> USE DEF TypeOK
  <1> DEFINE over == shell.completed \/ shell.last # NoCommand
             more == ShouldTickDone(shell')
  <1>1. TerminalType'
    BY DEF CommandCleared, TerminalType, Phases, Idle
  <1>2. over \in BOOLEAN /\ more \in BOOLEAN
    BY DEF ShouldTickDone
  <1>3. /\ shell' = [shell EXCEPT !.active = NoCommand, !.completed = over, !.doneAge = 0]
        /\ tracker' = [tracker EXCEPT !.activeShown = FALSE, !.animating = more]
    BY DEF CommandCleared, ShellType, ShellStates
  <1> HIDE DEF more
  <1>4. TrackerType'
    BY <1>2, <1>3 DEF TrackerType, TrackerStates
  <1>5. /\ over = (shell.last # NoCommand)
        /\ shell.last # NoCommand => shell.last = cmd
    BY DEF IInv, LastIsCommand, ShellType, ShellStates
  <1> HIDE DEF over
  <1>6. ShellType'
    BY <1>2, <1>3, Ends DEF ShellType, ShellStates
  <1>7. /\ shell'.active = NoCommand /\ shell'.completed = (shell.last # NoCommand)
        /\ shell'.last = shell.last /\ shell'.exit = shell.exit /\ shell'.duration = shell.duration
    BY <1>3, <1>5 DEF ShellType, ShellStates
  <1>8. Published(tracker', shell', FALSE)
    BY <1>6, PublishFacts DEF CommandCleared, ShellType, BarType
  <1>9. BarType'
    BY <1>8 DEF CommandCleared, BarType, Published
  <1>10. ActiveBetweenHooks' /\ ClockIsRunTime' /\ LastIsCommand' /\ ResultIsOutcome' /\ CapHolds'
    BY <1>5, <1>7 DEF CommandCleared, IInv, ActiveBetweenHooks, ClockIsRunTime, LastIsCommand,
       ResultIsOutcome, CapHolds
  <1>11. CASE ~Enabled
    <2>1. DisplayIsRecent' /\ OnlyRunningIsActive' /\ SuccessIsEarned'
      BY <1>11, <1>8, DisabledIsQuiet DEF IInv, Published
    <2> QED
      BY <1>1, <1>4, <1>6, <1>9, <1>10, <2>1 DEF IInv
  <1>12. CASE Enabled
    <2>1. /\ shown'.kind # "active"
          /\ shown'.kind = "done" => shell.last # NoCommand /\ shown'.cmd = cmd
      BY <1>12, <1>5, <1>7, <1>8 DEF Published
    <2>2. DisplayIsRecent' /\ OnlyRunningIsActive'
      BY <1>12, <1>5, <1>7, <2>1 DEF CommandCleared, DisplayIsRecent, OnlyRunningIsActive
    <2>3. SuccessIsEarned'
      BY <1>12, <1>5, <1>7, <1>8, <2>1 DEF CommandCleared, SuccessIsEarned, Published, IInv, ResultIsOutcome
    <2> QED
      BY <1>1, <1>4, <1>6, <1>9, <1>10, <2>2, <2>3 DEF IInv
  <1> QED
    BY <1>11, <1>12

\* A tick at the prompt takes an expired command off the bar.
LEMMA PromptTickCorrect ==
    ASSUME TypeOK, IInv, Tick, TickAtPrompt
    PROVE  TypeOK' /\ IInv'
  <1> USE DEF TypeOK
  <1>1. TerminalType'
    BY DEF Tick, shellVars, TerminalType, Phases, Idle
  <1>2. /\ UNCHANGED <<phase, cmd, code, runAge, outcome, renewed, ticker>>
        /\ glint' = FALSE /\ shell.active = NoCommand
    BY DEF Tick, shellVars, TickAtPrompt
  <1>3. CASE ShouldClearDone(shell)
    <2>1. /\ shell' = ClearLastCommand(shell)
          /\ tracker' = [tracker EXCEPT !.animating = FALSE]
          /\ Publish(tracker', shell', FALSE)
      BY <1>3 DEF TickAtPrompt
    <2>2. ShellType' /\ TrackerType'
      BY <2>1, Ends DEF ClearLastCommand, ShellType, ShellStates, TrackerType, TrackerStates
    <2>3. /\ shell'.active = NoCommand /\ shell'.last = NoCommand /\ shell'.completed = FALSE
          /\ shell'.exit = 0
      BY <1>2, <2>1 DEF ClearLastCommand, ShellType, ShellStates
    <2>4. shell.exit = 0
      BY <1>3 DEF ShouldClearDone
    <2>5. Published(tracker', shell', FALSE)
      BY <2>1, <2>2, PublishFacts DEF ShellType, BarType
    <2>6. BarType'
      BY <1>2, <2>5 DEF BarType, Published
    <2>7. ActiveBetweenHooks' /\ ClockIsRunTime' /\ LastIsCommand' /\ ResultIsOutcome' /\ CapHolds'
      BY <1>2, <2>3, <2>4 DEF IInv, ActiveBetweenHooks, ClockIsRunTime, LastIsCommand,
         ResultIsOutcome, CapHolds
    <2>8. DisplayIsRecent' /\ OnlyRunningIsActive' /\ SuccessIsEarned'
      <3>1. CASE ~Enabled
        BY <3>1, <2>5, DisabledIsQuiet DEF IInv, Published
      <3>2. CASE Enabled
        BY <3>2, <2>3, <2>5 DEF Published, DisplayIsRecent, OnlyRunningIsActive, SuccessIsEarned
      <3> QED
        BY <3>1, <3>2
    <2> QED
      BY <1>1, <2>2, <2>6, <2>7, <2>8 DEF IInv
  <1>4. CASE ~ShouldClearDone(shell)
    <2>1. UNCHANGED <<shell, tracker, shown>>
      BY <1>4 DEF TickAtPrompt
    <2>2. ShellType' /\ TrackerType' /\ BarType'
      BY <1>2, <2>1 DEF ShellType, TrackerType, BarType
    <2>3. IInv'
      BY <1>2, <2>1 DEF IInv, ActiveBetweenHooks, ClockIsRunTime, LastIsCommand, ResultIsOutcome,
         DisplayIsRecent, OnlyRunningIsActive, SuccessIsEarned, CapHolds
    <2> QED
      BY <1>1, <2>2, <2>3
  <1> QED
    BY <1>3, <1>4

\* What a tick that is due makes of the tracker: the clocks stay, and a cap stops everything.
LEMMA AdvancedFacts ==
    ASSUME NEW t \in TrackerStates
    PROVE  /\ Advanced(t) \in TrackerStates
           /\ Advanced(t).activeShown = t.activeShown /\ Advanced(t).stamped = t.stamped
           /\ Advanced(t).startAge = t.startAge
           /\ t.capped => Advanced(t) = t
           /\ Advanced(t).capped => t.capped \/ Capped(t)
           /\ ~t.capped /\ Advanced(t).capped => ~Advanced(t).animating
  <1>1. CASE t.capped
    BY <1>1 DEF Advanced
  <1>2. CASE ~t.capped /\ Capped(t)
    <2>1. Advanced(t) = [t EXCEPT !.capped = TRUE, !.animating = FALSE]
      BY <1>2 DEF Advanced
    <2> QED
      BY <1>2, <2>1 DEF TrackerStates
  <1>3. CASE ~t.capped /\ ~Capped(t)
    <2> DEFINE moving == StillNew(t) \/ (t.animating /\ Working(t))
    <2>1. Advanced(t) = [t EXCEPT !.animating = moving]
      BY <1>3 DEF Advanced, TrackerStates
    <2>2. moving \in BOOLEAN
      OBVIOUS
    <2> HIDE DEF moving
    <2> QED
      BY <1>3, <2>1, <2>2 DEF TrackerStates
  <1> QED
    BY <1>1, <1>2, <1>3

\* A tick for a running command reveals it, not before its time, and may cap it.
LEMMA RunningTickCorrect ==
    ASSUME TypeOK, IInv, Tick, TickWhileRunning
    PROVE  TypeOK' /\ IInv'
  <1> USE DEF TypeOK
  <1> DEFINE t == [tracker EXCEPT !.activeShown = TRUE]
  <1>1. TerminalType'
    BY DEF Tick, shellVars, TerminalType, Phases, Idle
  <1>2. /\ UNCHANGED <<phase, cmd, code, runAge, outcome, renewed, ticker, shell>>
        /\ shell.active # NoCommand
    BY DEF Tick, shellVars, TickWhileRunning
  <1>3. ShellType' /\ shell.active = cmd /\ ~shell.completed
    BY <1>2 DEF ShellType, IInv, ActiveBetweenHooks, LastIsCommand
  <1>4. CASE ~Due(tracker)
    <2>1. UNCHANGED <<tracker, glint, shown>>
      BY <1>4 DEF TickWhileRunning
    <2>2. TrackerType' /\ BarType'
      BY <1>2, <2>1 DEF TrackerType, BarType
    <2>3. IInv'
      BY <1>2, <2>1 DEF IInv, ActiveBetweenHooks, ClockIsRunTime, LastIsCommand, ResultIsOutcome,
         DisplayIsRecent, OnlyRunningIsActive, SuccessIsEarned, CapHolds
    <2> QED
      BY <1>1, <1>3, <2>2, <2>3
  <1>5. CASE Due(tracker)
    <2>1. /\ t \in TrackerStates /\ t.activeShown /\ t.stamped = tracker.stamped
          /\ t.startAge = tracker.startAge /\ t.capped = tracker.capped
          /\ t.animating = tracker.animating /\ (Capped(t) <=> Capped(tracker))
      BY DEF TrackerType, TrackerStates, Capped
    <2>2. tracker' = Advanced(t)
      BY <1>5 DEF TickWhileRunning
    <2> HIDE DEF t
    <2>3. /\ TrackerType' /\ tracker'.activeShown /\ tracker'.stamped = tracker.stamped
          /\ tracker'.startAge = tracker.startAge
      BY <2>1, <2>2, AdvancedFacts DEF TrackerType
    <2>4. ~renewed => runAge >= ShowDelay
      BY <1>2, <1>5 DEF Due, IInv, ClockIsRunTime
    <2>5. ActiveBetweenHooks' /\ ClockIsRunTime' /\ LastIsCommand' /\ ResultIsOutcome'
      BY <1>2, <2>3, <2>4 DEF IInv, ActiveBetweenHooks, ClockIsRunTime, LastIsCommand, ResultIsOutcome
    <2>6. CASE tracker.capped
      <3>1. UNCHANGED <<glint, shown>>
        BY <1>5, <2>6 DEF TickWhileRunning
      <3>2. BarType'
        BY <1>2, <3>1 DEF BarType
      <3>3. tracker'.animating = tracker.animating
        BY <2>1, <2>2, <2>6, AdvancedFacts
      <3>4. DisplayIsRecent' /\ OnlyRunningIsActive' /\ SuccessIsEarned' /\ CapHolds'
        BY <1>2, <2>6, <3>1, <3>3 DEF IInv, DisplayIsRecent, OnlyRunningIsActive, SuccessIsEarned, CapHolds
      <3> QED
        BY <1>1, <1>3, <2>3, <2>5, <3>2, <3>4 DEF IInv
    <2>7. CASE ~tracker.capped
      <3>1. /\ glint' = (~Capped(tracker) /\ Working(tracker))
            /\ Publish(tracker', shell, glint')
        BY <1>5, <2>7 DEF TickWhileRunning
      <3>2. glint' \in BOOLEAN /\ (Capped(tracker) => ~glint')
        BY <3>1
      <3>3. Published(tracker', shell, glint')
        BY <3>1, <3>2, PublishFacts DEF ShellType, BarType
      <3>4. BarType'
        BY <1>2, <3>2, <3>3 DEF BarType, Published
      <3>5. tracker'.capped => Capped(tracker) /\ ~tracker'.animating
        BY <2>1, <2>2, <2>7, AdvancedFacts
      <3>6. CASE ~Enabled
        <4>1. DisplayIsRecent' /\ OnlyRunningIsActive' /\ SuccessIsEarned' /\ shown'.anim = FALSE
          BY <3>6, <3>3, DisabledIsQuiet DEF IInv, Published
        <4>2. CapHolds'
          BY <3>2, <3>5, <4>1 DEF CapHolds
        <4> QED
          BY <1>1, <1>3, <2>3, <2>5, <3>4, <4>1, <4>2 DEF IInv
      <3>7. CASE Enabled
        <4>1. shown'.kind # "done"
          BY <3>7, <1>3, <3>3 DEF Published
        <4>2. DisplayIsRecent' /\ SuccessIsEarned'
          BY <3>7, <4>1 DEF DisplayIsRecent, SuccessIsEarned
        <4>3. OnlyRunningIsActive'
          BY <3>7, <1>2, <2>4, <3>3 DEF Published, OnlyRunningIsActive
        <4>4. CapHolds'
          BY <3>7, <3>2, <3>3, <3>5 DEF Published, CapHolds
        <4> QED
          BY <1>1, <1>3, <2>3, <2>5, <3>4, <4>2, <4>3, <4>4 DEF IInv
      <3> QED
        BY <3>6, <3>7
    <2> QED
      BY <2>6, <2>7
  <1> QED
    BY <1>4, <1>5

\* Time moves the tracker's clock and the shell's by the same amount.
LEMMA TimeCorrect ==
    ASSUME TypeOK, IInv, Time
    PROVE  TypeOK' /\ IInv'
  <1> USE DEF TypeOK
  <1>1. TerminalType'
    BY OlderIsAge DEF Time, TerminalType, Phases, Idle
  <1> DEFINE done == IF shell.completed THEN Older(shell.doneAge, DoneEnd) ELSE shell.doneAge
  <1>2. done \in DoneAges
    BY OlderIsAge DEF ShellType, ShellStates
  <1>3. shell' = [shell EXCEPT !.doneAge = done]
    BY DEF Time, ShellType, ShellStates
  <1> HIDE DEF done
  <1>4. /\ ShellType' /\ shell'.active = shell.active /\ shell'.last = shell.last
        /\ shell'.exit = shell.exit /\ shell'.duration = shell.duration
        /\ shell'.completed = shell.completed
    BY <1>2, <1>3 DEF ShellType, ShellStates
  <1>5. /\ Older(tracker.startAge, StartEnd) \in RunAges
        /\ Older(tracker.activityAge, IdleTimeout + 1) \in WorkAges
        /\ Older(tracker.stdinAge, EchoWindow + 1) \in KeyAges
    BY OlderIsAge DEF TrackerType, TrackerStates
  <1>6. /\ TrackerType' /\ tracker'.startAge = Older(tracker.startAge, StartEnd)
        /\ tracker'.stamped = tracker.stamped /\ tracker'.activeShown = tracker.activeShown
        /\ tracker'.capped = tracker.capped /\ tracker'.animating = tracker.animating
    BY <1>5 DEF Time, TrackerType, TrackerStates
  <1>7. BarType'
    BY DEF Time, BarType
  <1>8. UNCHANGED <<phase, cmd, code, glint, shown, outcome, renewed>>
    BY DEF Time
  <1>9. /\ shell.active # NoCommand => runAge' = Older(runAge, StartEnd)
        /\ runAge' >= runAge /\ runAge \in Nat /\ runAge' \in Nat
    BY OlderIsAge, Ends DEF Time, TerminalType
  <1>10. ClockIsRunTime' /\ OnlyRunningIsActive'
    BY <1>4, <1>6, <1>8, <1>9 DEF IInv, ClockIsRunTime, OnlyRunningIsActive
  <1>11. ActiveBetweenHooks' /\ LastIsCommand' /\ ResultIsOutcome' /\ DisplayIsRecent'
         /\ SuccessIsEarned' /\ CapHolds'
    BY <1>4, <1>6, <1>8 DEF IInv, ActiveBetweenHooks, LastIsCommand, ResultIsOutcome, DisplayIsRecent,
       SuccessIsEarned, CapHolds
  <1> QED
    BY <1>1, <1>4, <1>6, <1>7, <1>10, <1>11 DEF IInv

\* Every step, by the action taken.
LEMMA StepCorrect == TypeOK /\ IInv /\ [Next]_vars => TypeOK' /\ IInv'
  <1> SUFFICES ASSUME TypeOK, IInv, [Next]_vars PROVE TypeOK' /\ IInv'
    OBVIOUS
  <1>1. CASE UNCHANGED vars
    BY <1>1 DEF vars, shellVars, loopVars, TypeOK, TerminalType, ShellType, TrackerType, BarType,
       IInv, ActiveBetweenHooks, ClockIsRunTime, LastIsCommand, ResultIsOutcome, DisplayIsRecent,
       OnlyRunningIsActive, SuccessIsEarned, CapHolds
  <1>2. CASE Tick
    BY <1>2, PromptTickCorrect, RunningTickCorrect DEF Tick
  <1>3. CASE \E c \in Commands : CommandStarts(c)
    BY <1>3, CommandStartsCorrect
  <1>4. CASE \E exit \in {0, 1} : ExitCodeReported(exit)
    BY <1>4, ExitCodeCorrect
  <1>5. CASE DurationReported \/ PromptRedrawn \/ DirectoryReported \/ CommandCleared
    BY <1>5, DurationCorrect, RedrawnCorrect, DirectoryCorrect, ClearedCorrect
  <1>6. CASE ConfigReload \/ Keystroke \/ Output \/ Time
    BY <1>6, ReloadCorrect, KeystrokeCorrect, OutputCorrect, TimeCorrect
  <1>7. CASE TickerFires \/ OtherTick \/ RevealTimerFires
    BY <1>7, SendersCorrect
  <1> QED
    BY <1>1, <1>2, <1>3, <1>4, <1>5, <1>6, <1>7 DEF Next

\* Types and the parts of IInv hold together, always.
LEMMA AlwaysCorrect == Spec => [](TypeOK /\ IInv)
  BY InitCorrect, StepCorrect, PTL DEF Spec

\* Type correctness; part of it: waiting ticks never exceed the capacity of the bus.
THEOREM TypeCorrect == Spec => []TypeOK
  BY AlwaysCorrect, PTL

\* The inductive invariant of the tracker, whatever its thresholds.
THEOREM Invariant == Spec => []IInv
  BY AlwaysCorrect, PTL

\* A name on the bar is the running command's and has outlived the appearance delay,
\* unless a reload replaced the tracker while it ran.
THEOREM InstantCommandsStayHidden == Spec => []OnlyRunningIsActive
  <1>1. IInv => OnlyRunningIsActive
    BY DEF IInv
  <1> QED
    BY <1>1, Invariant, PTL

\* A command shown as finished well did finish well and ran long enough.
THEOREM ShownSuccessIsEarned == Spec => []SuccessIsEarned
  <1>1. IInv => SuccessIsEarned
    BY DEF IInv
  <1> QED
    BY <1>1, Invariant, PTL

\* A capped command animates nothing until it ends, whatever it writes.
THEOREM CapHoldsAlways == Spec => []CapHolds
  <1>1. IInv => CapHolds
    BY DEF IInv
  <1> QED
    BY <1>1, Invariant, PTL
=============================================================================
