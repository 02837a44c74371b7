------------------------------ MODULE Animation ------------------------------
(***************************************************************************)
(* What moves in the bar: the shine over a running command and the         *)
(* highlights of modules whose value has changed (renderer.RenderRow,      *)
(* animationMode, changeAnimationActive), and the flag that keeps the      *)
(* ticker going while something moves.                                     *)
(*                                                                         *)
(* The bar is rendered row by row, and every row stores the flag anew.     *)
(* The renderer is replaced at every resize and reload and takes the state *)
(* of its animations along.  A frame is painted only when the writer lets  *)
(* it: not in a resize burst, on the alternate screen or in the rate       *)
(* limit's window.                                                         *)
(***************************************************************************)
EXTENDS Integers, FiniteSets

CONSTANTS
    Modules,        \* the modules that animate changes of their value
    Values,         \* what they show
    RowCount,       \* the rows of the bar, and the row of each module
    RowOf,
    CommandRow,     \* the row of the command module
    Durations,      \* ticks a highlight may last, by configuration; 0 is "off"
    Cycle,          \* ticks the shine needs to cross the command's text
    MaxPhase,       \* bound on the animation phase
    None            \* no value

ASSUME RowsAssumption == /\ RowCount \in Nat \ {0}
                         /\ RowOf \in [Modules -> 1..RowCount]
                         /\ CommandRow \in 1..RowCount
ASSUME TimesAssumption == /\ Durations \subseteq Nat
                          /\ Cycle \in Nat \ {0} /\ MaxPhase \in Nat
ASSUME ValuesAssumption == None \notin Values

VARIABLES
    phase,          \* state.AnimationPhase
    snapshots,      \* per module its value and AnimationSuppressed
    command,        \* the command module: is it shown running, and suppressed
    animating,      \* the tracker's flag
    duration,       \* the configured DurationTicks of the modules
    renderer,       \* AnimationState: lastValues, changedAt, changedFor, frameActive
    flag,           \* changeAnimating, the renderer's flag
    shown,          \* what the frame on the screen shows and what moves in it
    due,            \* a RedrawRequest is on its way
    burst, altScreen, \* resizePending, the alternate screen
    \* history
    renewed,        \* a reload replaced the tracker while a command was running
    late            \* a frame was put off and nothing will ask for it again

stateVars == <<phase, snapshots, command, animating, duration>>
frameVars == <<renderer, flag, shown>>
request == <<due, late>>
screenVars == <<burst, altScreen>>
animationVars == <<stateVars, frameVars, request, screenVars, renewed>>

Snapshot(value, suppressed) == [value |-> value, suppressed |-> suppressed]
Unchanging == [at |-> None, for |-> 0]
Nothing == [snapshots |-> [m \in Modules |-> Snapshot(None, TRUE)],
            lit |-> {}, shine |-> FALSE, duration |-> 0]

NewRenderer == [last |-> [m \in Modules |-> None],
                changed |-> [m \in Modules |-> Unchanging],
                frameActive |-> FALSE]
-------------------------------------------------------------------------------
(* RenderRow, for a state st: snapshots, command, duration and phase. *)

\* The modules whose block of a row is visible: an empty value has no block.
Visible(row, st) == {m \in Modules : RowOf[m] = row /\ st.snapshots[m].value # None}

\* Those whose changes animationMode looks at.
Watched(row, st) ==
    {m \in Visible(row, st) : st.duration # 0 /\ ~st.snapshots[m].suppressed}

\* changeAnimationActive's first half: a new value opens a window, unless it is
\* the first that was ever seen.
NoteChanges(r, watched, st) ==
    [r EXCEPT !.last = [m \in Modules |->
                  IF m \in watched THEN st.snapshots[m].value ELSE r.last[m]],
              !.changed = [m \in Modules |->
                  IF m \in watched /\ r.last[m] \notin {None, st.snapshots[m].value}
                  THEN [at |-> st.phase, for |-> st.duration]
                  ELSE r.changed[m]]]

\* refreshChangeFlag closes the windows that are over, and those that a reset
\* of the phase has left in the future.
Open(w, phase_) == w # Unchanging /\ w.at <= phase_ /\ phase_ - w.at < w.for
refreshChangeFlag(r, phase_) ==
    [r EXCEPT !.changed = [m \in Modules |->
                  IF Open(r.changed[m], phase_) THEN r.changed[m] ELSE Unchanging]]

\* A suppressed command finishes the sweep it is in (glintVisible).
FinishesSweep(row, st) ==
    /\ row = CommandRow
    /\ st.command.running /\ st.command.suppressed
    /\ st.phase % Cycle # 0

\* As if every row spoke for itself only (a mutant).
RenderRowAlone(row, r, st) ==
    LET watched == Watched(row, st)
        noted   == refreshChangeFlag(NoteChanges(r, watched, st), st.phase)
        active  == FinishesSweep(row, st)
    IN  [renderer |-> [noted EXCEPT !.frameActive = active],
         flag     |-> active \/ \E m \in Modules : noted.changed[m] # Unchanging,
         lit      |-> {m \in watched : noted.changed[m] # Unchanging},
         shine    |-> row = CommandRow /\ st.command.running
                      /\ (active \/ ~st.command.suppressed)]

\* One row: the renderer after it, the flag it stores, and what moves in it.
\* The flag counts the row before, which for the first is the last frame's last.
RenderRow(row, r, st) ==
    LET watched == Watched(row, st)
        noted   == refreshChangeFlag(NoteChanges(r, watched, st), st.phase)
        active  == FinishesSweep(row, st)
    IN  [renderer |-> [noted EXCEPT !.frameActive = active],
         flag     |-> \/ \E m \in Modules : noted.changed[m] # Unchanging
                      \/ active
                      \/ r.frameActive,
         lit      |-> {m \in watched : /\ noted.changed[m] # Unchanging
                                       /\ st.phase - noted.changed[m].at < st.duration},
         shine    |-> row = CommandRow /\ st.command.running
                      /\ (active \/ ~st.command.suppressed)]

\* bar.Render: the rows from top to bottom, with one renderer; what there is
\* before the first one, and what a row makes of the rows above it.
Unrendered(r) == [renderer |-> r, flag |-> FALSE, lit |-> {}, shine |-> FALSE]
Below(above, i, st) ==
    LET row == RenderRow(i, above.renderer, st)
    IN  [row EXCEPT !.lit = @ \cup above.lit, !.shine = @ \/ above.shine]

RenderRows(r, st) ==
    LET upTo[i \in 0..RowCount] ==
            IF i = 0 THEN Unrendered(r) ELSE Below(upTo[i - 1], i, st)
    IN  upTo
Render(r, st) == RenderRows(r, st)[RowCount]
-------------------------------------------------------------------------------
AnimationInit ==
    /\ phase = 0 /\ duration \in Durations
    /\ snapshots = [m \in Modules |-> Snapshot(None, TRUE)]
    /\ command = [running |-> FALSE, suppressed |-> TRUE]
    /\ animating = FALSE
    /\ renderer = NewRenderer /\ flag = FALSE /\ shown = Nothing
    /\ due = FALSE /\ late = FALSE
    /\ burst = FALSE /\ altScreen = FALSE /\ renewed = FALSE

\* renderFn, by the renderer r, and the writing of its lines.
Paint(r) ==
    LET st    == [snapshots |-> snapshots', command |-> command', duration |-> duration',
                  phase |-> phase']
        frame == Render(r, st)
    IN  /\ renderer' = frame.renderer
        /\ flag' = frame.flag
        /\ shown' = [snapshots |-> snapshots', lit |-> frame.lit, shine |-> frame.shine,
                     duration |-> duration']

KeepFrame(r) == renderer' = r /\ UNCHANGED <<flag, shown>>

\* run's redraw, with the handler's effect before it; `asked': another request
\* is on its way all the same.  A frame that the rate limit puts off is asked for
\* by a timer, unless the limit's window ends between the two looks at the clock,
\* of readyForBarFrame and of PendingRedrawDue.
RedrawAsked(r, asked) ==
    \/ ~burst' /\ ~altScreen' /\ Paint(r) /\ due' = FALSE /\ late' = FALSE
    \/ ~burst' /\ ~altScreen' /\ KeepFrame(r) /\ due' = TRUE /\ late' = FALSE
    \/ ~burst' /\ ~altScreen' /\ KeepFrame(r) /\ due' = asked /\ late' = ~asked
    \/ (burst' \/ altScreen') /\ KeepFrame(r) /\ due' = asked /\ UNCHANGED late

Redraw(r) == RedrawAsked(r, due)

NewWithoutState(r) == NewRenderer                         \* mutant
\* TakeAnimationState and NewWithState: a new renderer carries on.
NewWithState(r) == r
-------------------------------------------------------------------------------
(* The handlers. *)

ModuleUpdated ==
    /\ \E m \in Modules, v \in Values \cup {None}, suppressed \in BOOLEAN :
           /\ v = None => suppressed
           /\ snapshots' = [snapshots EXCEPT ![m] = Snapshot(v, suppressed)]
    /\ UNCHANGED <<phase, command, animating, duration, screenVars, renewed>>
    /\ Redraw(renderer)

\* The tracker as far as the renderer sees it (CommandTracker has its rules): a
\* command appears, produces output after a pause, ends.
CommandAppears ==
    /\ ~command.running
    /\ command' = [running |-> TRUE, suppressed |-> FALSE]
    /\ animating' = TRUE
    /\ renewed' = FALSE
    /\ UNCHANGED <<phase, snapshots, duration, screenVars>>
    /\ Redraw(renderer)

CommandWrites ==
    /\ command.running
    /\ animating' = TRUE
    /\ UNCHANGED <<phase, snapshots, command, duration>>
    /\ UNCHANGED <<frameVars, request, screenVars, renewed>>

CommandEnds ==
    /\ command.running
    /\ command' = [running |-> FALSE, suppressed |-> TRUE]
    /\ phase' = 0
    /\ animating' \in BOOLEAN
    /\ renewed' = FALSE
    /\ UNCHANGED <<snapshots, duration, screenVars>>
    /\ Redraw(renderer)

\* The Tick handler: the tracker suppresses a command that is idle or capped and
\* wakes one that is not.
TickCommand ==
    \/ command.running /\ animating' = FALSE /\ command' = [command EXCEPT !.suppressed = TRUE]
    \/ command.running /\ animating' = TRUE /\ command' = [command EXCEPT !.suppressed = FALSE]
    \/ ~command.running /\ animating' \in {animating, FALSE} /\ UNCHANGED command

\* Ticks come from the ticker, which fires while one of the flags is up
\* (StartTicker), and single ones from the tracker's reveal timer.
Tick ==
    /\ phase < MaxPhase /\ phase' = phase + 1
    /\ TickCommand
    /\ renewed' = (renewed /\ animating' = FALSE)
    /\ UNCHANGED <<snapshots, duration, screenVars>>
    /\ Redraw(renderer)

RedrawRequest ==
    /\ due
    /\ UNCHANGED <<stateVars, screenVars, renewed>>
    /\ RedrawAsked(renderer, FALSE)

\* Child output that has wiped the bar brings a frame with it, in a burst too.
WriteOutputFramed ==
    /\ ~altScreen
    /\ late' = FALSE
    /\ UNCHANGED <<stateVars, due, screenVars, renewed>>
    /\ Paint(renderer)

\* A resize replaces the renderer when it begins and when it is committed.
ResizeRequest ==
    /\ burst' = TRUE
    /\ KeepFrame(NewWithState(renderer))
    /\ UNCHANGED <<stateVars, request, altScreen, renewed>>

ResizeCommit ==
    /\ burst /\ burst' = FALSE
    /\ UNCHANGED <<stateVars, altScreen, renewed>>
    /\ Redraw(NewWithState(renderer))

\* A reload may change the highlights' length, and renews the tracker, which
\* forgets that a command is running.
ConfigReload ==
    /\ duration' \in Durations
    /\ animating' = FALSE
    /\ renewed' = command.running
    /\ UNCHANGED <<phase, snapshots, command, screenVars>>
    /\ Redraw(NewWithState(renderer))

EnterAltScreen ==
    /\ ~altScreen /\ altScreen' = TRUE
    /\ UNCHANGED <<stateVars, frameVars, request, burst, renewed>>

LeaveAltScreen ==
    /\ altScreen /\ altScreen' = FALSE
    /\ UNCHANGED <<stateVars, burst, renewed>>
    /\ Redraw(renderer)

AnimationNext ==
    \/ ModuleUpdated \/ CommandAppears \/ CommandWrites \/ CommandEnds
    \/ Tick \/ RedrawRequest \/ WriteOutputFramed
    \/ ResizeRequest \/ ResizeCommit \/ ConfigReload \/ EnterAltScreen \/ LeaveAltScreen

AnimationSpec == AnimationInit /\ [][AnimationNext]_animationVars
-------------------------------------------------------------------------------
(* Properties. *)

\* What moves in the frame on the screen goes on moving: while it shows a lit
\* module or a shining command, the ticker runs or a redraw is coming, or the
\* screen is not the bar's at the moment.  Every row stores the renderer's flag
\* (RenderRow), so for a shine this holds in one of the last two rows only; and a
\* reload forgets that a command is animated.
GoesOn ==
    \/ altScreen \/ burst \/ due
    \/ flag \/ animating
    \/ shown.lit = {} /\ (shown.shine => renewed \/ CommandRow < RowCount - 1)

\* It does, but for a frame that was put off and that no timer asks for again
\* (redraw, PendingRedrawDue): what is frozen then stays so until the next event.
NothingFreezes == GoesOn \/ late

\* A value that replaces another one in front of the user is lit in the frame
\* it comes with, whatever happened to renderer, configuration and phase
\* between the two frames.
LitWithTheFrame ==
    \A m \in Modules :
       LET before == shown.snapshots[m].value
           after  == shown'.snapshots[m].value
       IN  /\ None \notin {before, after} /\ before # after
           /\ 0 \notin {shown.duration, shown'.duration}
           /\ ~shown.snapshots[m].suppressed /\ ~shown'.snapshots[m].suppressed
           => m \in shown'.lit
ChangesAreLit == [][LitWithTheFrame]_animationVars

\* The renderer's and the state's values.
Windows == {Unchanging} \cup [at : Nat, for : Nat]
Renderers == [last : [Modules -> Values \cup {None}], changed : [Modules -> Windows],
              frameActive : BOOLEAN]
States == [snapshots : [Modules -> [value : Values \cup {None}, suppressed : BOOLEAN]],
           command : [running : BOOLEAN, suppressed : BOOLEAN],
           duration : Nat, phase : Nat]

\* Everything the flag says, and what is shown, is taken from this.
State == [snapshots |-> snapshots, command |-> command, duration |-> duration,
          phase |-> phase]

\* What the program keeps, the renderer left out: an unsuppressed command is
\* animated, but for a tracker that was renewed.
StateOK ==
    /\ State \in States
    /\ duration \in Durations /\ due \in BOOLEAN /\ late \in BOOLEAN
    /\ command.running /\ ~command.suppressed => animating \/ renewed

\* What the renderer remembers of the frame on the screen.
Remembers ==
    \A m \in Modules :
       /\ shown.duration # 0 /\ ~shown.snapshots[m].suppressed
       /\ shown.snapshots[m].value # None
       => renderer.last[m] = shown.snapshots[m].value

\* The strengthening of NothingFreezes and ChangesAreLit.
AnimationInv == StateOK /\ renderer \in Renderers /\ Remembers /\ NothingFreezes
===============================================================================
