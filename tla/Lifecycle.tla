------------------------------- MODULE Lifecycle -------------------------------
(***************************************************************************)
(* The life of the process: run in app/app.go from start-up to exit, the   *)
(* goroutines it starts (the PTY reader, the one that waits for the child, *)
(* the one that takes signals), the end of the event loop, TerminateGroup, *)
(* and the re-exec, where a new image of the program takes over the child, *)
(* the PTY and the terminal.                                               *)
(*                                                                         *)
(* The kernel's part is modelled from what the code relies on: a descriptor*)
(* without FD_CLOEXEC survives exec, goroutines and buffers do not, a PTY  *)
(* gives what was written before it reports the end, a signal nobody has   *)
(* asked for is fatal (SIGTERM, SIGHUP, SIGINT) or ignored.                *)
(***************************************************************************)
EXTENDS Integers, Sequences

CONSTANTS
    BusCap,          \* capacity of the event bus
    MaxImages,       \* bound: images of the program that run one after the other
    MaxOutput,       \* bound: chunks the child writes
    MaxKeys,         \* bound: keys the user presses
    MaxSizes,        \* bound: sizes the window has
    MaxSignals       \* bound: SIGTERM and SIGUSR1 from outside

ASSUME LifecycleAssumption ==
    /\ BusCap \in Nat \ {0} /\ MaxImages \in Nat \ {0} /\ MaxSizes \in Nat \ {0}
    /\ MaxOutput \in Nat /\ MaxKeys \in Nat /\ MaxSignals \in Nat

Images == 1..MaxImages
Sizes  == 1..MaxSizes
Codes  == {"none", "child", "one", "signal"}     \* the child's, 1, 128+signo

VARIABLES
    pc, image, code,      \* run and the loop; which image; the exit code
    handoff,              \* PTYLINE_HANDOFF: "none", "valid", "refused"
    nonce, childNonce,    \* execEnvNonce and PTYLINE_NONCE of the child, by origin
    raw, region,          \* the terminal: raw mode, a scroll region below full height
    saved,                \* rawState.saved
    ttyFailed,            \* a change of the terminal's mode has failed
    master, cloexec,      \* the PTY's master: is it open, FD_CLOEXEC
    winsize, size,        \* the window's size, and the one the loop was told of last
                          \* (what it does with it is the subject of Screen)
    missed,               \* a SIGWINCH passed unseen since size was read
    signals, sg,          \* channel of signals; the goroutine behind it: what it sends
    bus,
    child, slave, killed, \* the child; its side of the PTY is open; SIGKILL was sent
    inPty, written, shown,\* chunks of output: in the PTY, ever written, on the screen
    rd, wt,               \* PTY reader, waiting goroutine
    wcode,                \* what Wait returned
    cut,                  \* output was given up: end of the grace window, or a re-exec
    disk,                 \* the binary on disk, compared to the one that runs
    keys, sent            \* counters of the bounds

proc   == <<image, code, handoff, nonce, childNonce, disk>>
term   == <<raw, region, saved, ttyFailed>>
fd     == <<master, cloexec>>
window == <<winsize, size, missed>>
sigs   == <<signals, sg>>
kid    == <<child, slave, killed>>
pty    == <<inPty, written, shown, rd, wt, wcode, cut>>
env    == <<keys, sent>>
vars == <<pc, proc, term, fd, window, sigs, bus, kid, pty, env>>

Events == {<<e>> : e \in {"output", "key", "termination", "exited", "reload"}}
             \cup ({"resize"} \X Sizes)

Nothing == <<>>
Off     == <<"off">>
Idle    == <<"idle">>
Adopted == handoff = "valid"
\* signal.Notify has been called in this image.
Listening == sg # Off
Room == Len(bus) < BusCap

Init ==
    /\ pc = "parse" /\ image = 1 /\ code = "none" /\ handoff = "none"
    /\ nonce = 0 /\ childNonce = 0 /\ disk = "same"
    /\ raw = FALSE /\ region = FALSE /\ saved = FALSE /\ ttyFailed = FALSE
    /\ master = FALSE /\ cloexec = FALSE
    /\ winsize = 1 /\ size = 1 /\ missed = FALSE
    /\ signals = Nothing /\ sg = Off /\ bus = <<>>
    /\ child = "none" /\ slave = FALSE /\ killed = FALSE
    /\ inPty = 0 /\ written = 0 /\ shown = 0 /\ rd = "off" /\ wt = "off"
    /\ wcode = "none" /\ cut = FALSE
    /\ keys = 0 /\ sent = 0
-------------------------------------------------------------------------------
(* run, up to the loop. *)

\* A return before the terminal was touched, and one that unwinds to Restore.
LeaveAtOnce == pc' = "gone" /\ code' = "one"
\* Mutant: an exit that does not run the deferred calls.
LeaveWithoutDefers == pc' = "gone" /\ code' = "one"
Unwind      == pc' = "restore" /\ code' = "one"

ParseHandoff ==
    /\ pc = "parse"
    /\ IF handoff = "refused" THEN LeaveAtOnce ELSE pc' = "load" /\ UNCHANGED code
    /\ UNCHANGED <<image, handoff, nonce, childNonce, disk, term, fd, window, sigs, bus, kid, pty, env>>

\* Configuration and overlays; an adopted image falls back to the defaults.
LoadConfig ==
    /\ pc = "load"
    /\ \/ ~Adopted /\ LeaveAtOnce
       \/ pc' = "enter" /\ UNCHANGED code
    /\ UNCHANGED <<image, handoff, nonce, childNonce, disk, term, fd, window, sigs, bus, kid, pty, env>>

\* Controller.Enter; when it fails it calls Restore.
Enter ==
    /\ pc = "enter"
    /\ \/ raw' = TRUE /\ saved' = TRUE /\ pc' = "query" /\ UNCHANGED <<code, region, ttyFailed>>
       \/ LeaveAtOnce /\ region' = FALSE /\ UNCHANGED <<raw, saved, ttyFailed>>
    /\ UNCHANGED <<image, handoff, nonce, childNonce, disk, fd, window, sigs, bus, kid, pty, env>>

QuerySize ==
    /\ pc = "query"
    /\ size' = winsize /\ missed' = FALSE
    /\ region' = TRUE
    /\ pc' = "child"
    /\ UNCHANGED <<winsize, proc, raw, saved, ttyFailed, fd, sigs, bus, kid, pty, env>>

\* Mutant: the adopted image makes a nonce of its own.
AdoptWithNewNonce ==
    /\ pc = "child" /\ Adopted
    /\ nonce' = image
    /\ cloexec' = TRUE
    /\ pc' = "theme"
    /\ UNCHANGED <<image, code, handoff, childNonce, disk, term, master, window, sigs, bus, kid, pty, env>>

\* Adopt takes the master over and protects it from later subprocesses.
AdoptChild ==
    /\ pc = "child" /\ Adopted
    /\ nonce' = childNonce
    /\ cloexec' = TRUE
    /\ pc' = "theme"
    /\ UNCHANGED <<image, code, handoff, childNonce, disk, term, master, window, sigs, bus, kid, pty, env>>

StartChild ==
    /\ pc = "child" /\ ~Adopted
    /\ nonce' = image
    /\ \/ Unwind /\ UNCHANGED <<childNonce, fd, kid>>
       \/ /\ childNonce' = image
          /\ child' = "running" /\ slave' = TRUE /\ UNCHANGED killed
          /\ master' = TRUE /\ cloexec' = TRUE
          /\ pc' = "theme" /\ UNCHANGED code
    /\ UNCHANGED <<image, handoff, disk, term, window, sigs, bus, pty, env>>

\* VisualsFromConfig may refuse what Load accepted.
Visuals ==
    /\ pc = "theme"
    /\ \/ Unwind
       \/ pc' = "readers" /\ UNCHANGED code
    /\ UNCHANGED <<image, handoff, nonce, childNonce, disk, term, fd, window, sigs, bus, kid, pty, env>>

StartReaders ==
    /\ pc = "readers"
    /\ rd' = "read" /\ wt' = "wait"
    /\ pc' = "notify"
    /\ UNCHANGED <<proc, term, fd, window, sigs, bus, kid, inPty, written, shown, wcode, cut, env>>

StartSignals ==
    /\ pc = "notify"
    /\ sg' = Idle
    /\ pc' = "run"
    /\ UNCHANGED <<proc, term, fd, window, signals, bus, kid, pty, env>>

\* ClearBar and the deferred Restore: disableRaw does nothing without a saved mode.
Restore ==
    /\ pc = "restore"
    /\ region' = FALSE
    /\ raw' = (raw /\ ~saved) /\ saved' = FALSE
    /\ pc' = "gone"
    /\ UNCHANGED <<ttyFailed, proc, fd, window, sigs, bus, kid, pty, env>>
-------------------------------------------------------------------------------
(* The loop, one action per event that matters here. *)

Takes(e) == pc = "run" /\ bus # <<>> /\ Head(bus)[1] = e /\ bus' = Tail(bus)

\* The error path shares TerminateGroup with the signals.
Terminate(c) == pc' = "terminate" /\ code' = c

TakeOutput ==
    /\ Takes("output")
    /\ \/ shown' = shown + 1 /\ UNCHANGED <<pc, code>>
       \/ Terminate("one") /\ UNCHANGED shown       \* the terminal refuses it
    /\ UNCHANGED <<image, handoff, nonce, childNonce, disk, term, fd, window, sigs, kid,
                   inPty, written, rd, wt, wcode, cut, env>>

\* Writing to a PTY whose other side is closed fails.
TakeKey ==
    /\ Takes("key")
    /\ IF slave THEN UNCHANGED <<pc, code>> ELSE Terminate("one")
    /\ UNCHANGED <<image, handoff, nonce, childNonce, disk, term, fd, window, sigs, kid, pty, env>>

TakeResize ==
    /\ Takes("resize")
    /\ size' = Head(bus)[2]
    /\ UNCHANGED <<pc, winsize, missed, proc, term, fd, sigs, kid, pty, env>>

TakeTermination ==
    /\ Takes("termination")
    /\ Terminate("signal")
    /\ UNCHANGED <<image, handoff, nonce, childNonce, disk, term, fd, window, sigs, kid, pty, env>>

TakeChildExited ==
    /\ Takes("exited")
    /\ pc' = "restore" /\ code' = wcode
    /\ UNCHANGED <<image, handoff, nonce, childNonce, disk, term, fd, window, sigs, kid, pty, env>>

\* ConfigReload: binIdent.changed, then the alternate screen; everything that
\* does not lead to a re-exec leaves the process as it is.
TakeReload ==
    /\ Takes("reload")
    /\ \/ UNCHANGED pc
       \/ disk \in {"compatible", "incompatible"} /\ image < MaxImages /\ pc' = "cloexec"
    /\ UNCHANGED <<proc, term, fd, window, sigs, kid, pty, env>>

\* TerminateGroup: SIGTERM or SIGHUP, which the child may ignore, and SIGKILL
\* after two seconds.
SignalGroup ==
    /\ pc = "terminate"
    /\ pc' = "await"
    /\ UNCHANGED <<proc, term, fd, window, sigs, bus, kid, pty, env>>

AwaitGroup ==
    /\ pc = "await"
    /\ killed' = (child # "reaped")
    /\ pc' = "restore"
    /\ UNCHANGED <<proc, term, fd, window, sigs, bus, child, slave, pty, env>>
-------------------------------------------------------------------------------
(* reexecSelf, and what the kernel keeps.  Each step may fail; the loop then *)
(* goes on with the old image.                                               *)

ClearCloexec ==
    /\ pc = "cloexec"
    /\ \/ cloexec' = FALSE /\ pc' = "suspend"
       \/ UNCHANGED cloexec /\ pc' = "run"
    /\ UNCHANGED <<proc, term, master, window, sigs, bus, kid, pty, env>>

\* disableRaw forgets the saved mode even when it fails; a payload that cannot
\* be marshalled ends here as well, with the mode untouched.
SuspendRaw ==
    /\ pc = "suspend"
    /\ \/ raw' = FALSE /\ saved' = FALSE /\ pc' = "exec" /\ UNCHANGED <<ttyFailed, cloexec>>
       \/ saved' = FALSE /\ ttyFailed' = TRUE /\ cloexec' = TRUE /\ pc' = "run" /\ UNCHANGED raw
       \/ cloexec' = TRUE /\ pc' = "run" /\ UNCHANGED <<raw, saved, ttyFailed>>
    /\ UNCHANGED <<region, proc, master, window, sigs, bus, kid, pty, env>>

ExecFails ==
    /\ pc = "exec"
    /\ \/ raw' = TRUE /\ saved' = TRUE /\ UNCHANGED ttyFailed
       \/ ttyFailed' = TRUE /\ UNCHANGED <<raw, saved>>
    /\ cloexec' = TRUE
    /\ pc' = "run"
    /\ UNCHANGED <<region, proc, master, window, sigs, bus, kid, pty, env>>

\* Goroutines, channels and buffers of the old image are gone.
Exec ==
    /\ pc = "exec"
    /\ pc' = "parse" /\ image' = image + 1
    /\ handoff' = IF disk = "compatible" THEN "valid" ELSE "refused"
    /\ disk' = "same"
    /\ master' = ~cloexec
    /\ saved' = FALSE
    /\ signals' = Nothing /\ sg' = Off /\ bus' = <<>>
    /\ rd' = "off" /\ wt' = "off" /\ wcode' = "none"
    /\ cut' = TRUE
    /\ UNCHANGED <<code, nonce, childNonce, raw, region, ttyFailed, cloexec, window, kid,
                   inPty, written, shown, env>>
-------------------------------------------------------------------------------
(* The goroutines. *)

Alive == pc # "gone"

\* QuerySize happens when the signal is taken, not when it came.
TakeSignal ==
    /\ Alive /\ sg = Idle /\ signals # Nothing
    /\ sg' = CASE signals[1] = "WINCH" -> <<"resize", winsize>>
               [] signals[1] = "TERM"  -> <<"termination">>
               [] signals[1] = "USR1"  -> <<"reload">>
    /\ missed' = (missed /\ signals[1] # "WINCH")
    /\ signals' = Nothing
    /\ UNCHANGED <<pc, proc, term, fd, winsize, size, bus, kid, pty, env>>

\* Mutant: a send that gives up when the bus is full.
SendSignalOrDrop ==
    /\ Alive /\ sg \notin {Off, Idle}
    /\ bus' = IF Room THEN Append(bus, sg) ELSE bus
    /\ sg' = Idle
    /\ UNCHANGED <<pc, proc, term, fd, window, signals, kid, pty, env>>

SendSignal ==
    /\ Alive /\ sg \notin {Off, Idle} /\ Room
    /\ bus' = Append(bus, sg)
    /\ sg' = Idle
    /\ UNCHANGED <<pc, proc, term, fd, window, signals, kid, pty, env>>

ReadPty ==
    /\ Alive /\ rd = "read" /\ inPty > 0
    /\ inPty' = inPty - 1 /\ rd' = "send"
    /\ UNCHANGED <<pc, proc, term, fd, window, sigs, bus, kid, written, shown, wt, wcode, cut, env>>

ReadPtyEnds ==
    /\ Alive /\ rd = "read" /\ inPty = 0 /\ ~slave
    /\ rd' = "done"
    /\ UNCHANGED <<pc, proc, term, fd, window, sigs, bus, kid, inPty, written, shown, wt, wcode, cut, env>>

SendOutput ==
    /\ Alive /\ rd = "send" /\ Room
    /\ bus' = Append(bus, <<"output">>) /\ rd' = "read"
    /\ UNCHANGED <<pc, proc, term, fd, window, sigs, kid, inPty, written, shown, wt, wcode, cut, env>>

\* cmd.Wait or wait4; waitDone is closed with it.  A child that the previous
\* image has reaped on its last steps is unknown to wait4, which makes it a 1.
Reap ==
    /\ Alive /\ wt = "wait" /\ child \in {"zombie", "reaped"}
    /\ wcode' = IF child = "zombie" THEN "child" ELSE "one"
    /\ child' = "reaped" /\ wt' = "drain"
    /\ UNCHANGED <<pc, proc, term, fd, window, sigs, bus, slave, killed, inPty, written, shown, rd, cut, env>>

\* Mutants: no drain; no grace window.
DontDrain ==
    /\ Alive /\ wt = "drain"
    /\ wt' = "send"
    /\ UNCHANGED <<pc, proc, term, fd, window, sigs, bus, kid, inPty, written, shown, rd, wcode, cut, env>>
DrainForever ==
    /\ Alive /\ wt = "drain" /\ rd = "done"
    /\ wt' = "send"
    /\ UNCHANGED <<pc, proc, term, fd, window, sigs, bus, kid, inPty, written, shown, rd, wcode, cut, env>>

\* The reader has finished, or the grace window is over.
Drain ==
    /\ Alive /\ wt = "drain"
    /\ cut' = (cut \/ rd # "done")
    /\ wt' = "send"
    /\ UNCHANGED <<pc, proc, term, fd, window, sigs, bus, kid, inPty, written, shown, rd, wcode, env>>

SendExited ==
    /\ Alive /\ wt = "send" /\ Room
    /\ bus' = Append(bus, <<"exited">>) /\ wt' = "done"
    /\ UNCHANGED <<pc, proc, term, fd, window, sigs, kid, inPty, written, shown, rd, wcode, cut, env>>

\* The reader of the terminal's input.
ReadKey ==
    /\ Alive /\ rd # "off" /\ keys < MaxKeys /\ Room
    /\ keys' = keys + 1
    /\ bus' = Append(bus, <<"key">>)
    /\ UNCHANGED <<pc, proc, term, fd, window, sigs, kid, pty, sent>>
-------------------------------------------------------------------------------
(* What happens around the process (external). *)

ChildWrites ==
    /\ slave /\ written < MaxOutput
    /\ inPty' = inPty + 1 /\ written' = written + 1
    /\ UNCHANGED <<pc, proc, term, fd, window, sigs, bus, kid, shown, rd, wt, wcode, cut, env>>

\* A process it leaves behind may keep its side of the PTY open.
ChildExits ==
    /\ child = "running"
    /\ child' = "zombie"
    /\ slave' \in BOOLEAN
    /\ UNCHANGED <<pc, proc, term, fd, window, sigs, bus, killed, pty, env>>

OrphanExits ==
    /\ slave /\ child \in {"zombie", "reaped"}
    /\ slave' = FALSE
    /\ UNCHANGED <<pc, proc, term, fd, window, sigs, bus, child, killed, pty, env>>

\* The channel has room for one signal, and the runtime does not wait.
Deliver(s) == signals' = IF signals = Nothing THEN <<s>> ELSE signals

ResizeWindow ==
    /\ Alive /\ winsize < MaxSizes
    /\ winsize' = winsize + 1
    /\ IF Listening
       THEN Deliver("WINCH") /\ missed' = (missed \/ signals \notin {Nothing, <<"WINCH">>})
       ELSE missed' = TRUE /\ UNCHANGED signals
    /\ UNCHANGED <<pc, proc, term, fd, size, sg, bus, kid, pty, env>>

\* SIGTERM stands for SIGHUP and SIGINT too.
SendTerm ==
    /\ Alive /\ sent < MaxSignals
    /\ sent' = sent + 1
    /\ IF Listening THEN Deliver("TERM") /\ UNCHANGED <<pc, code>>
       ELSE pc' = "gone" /\ code' = "signal" /\ UNCHANGED signals
    /\ UNCHANGED <<image, handoff, nonce, childNonce, disk, term, fd, window, sg, bus, kid, pty, keys>>

\* sendReloadSignal (ptyline --reload).
SendReload ==
    /\ Alive /\ sent < MaxSignals
    /\ sent' = sent + 1
    /\ IF Listening THEN Deliver("USR1") ELSE UNCHANGED signals
    /\ UNCHANGED <<pc, proc, term, fd, window, sg, bus, kid, pty, keys>>

\* binaryIdentity: also a file that is empty or cannot be executed.
Install ==
    /\ Alive /\ disk = "same" /\ image < MaxImages
    /\ disk' \in {"compatible", "incompatible", "broken"}
    /\ UNCHANGED <<pc, image, code, handoff, nonce, childNonce, term, fd, window, sigs, bus, kid, pty, env>>

-------------------------------------------------------------------------------
Main ==
    \/ ParseHandoff \/ LoadConfig \/ Enter \/ QuerySize \/ AdoptChild \/ StartChild
    \/ Visuals \/ StartReaders \/ StartSignals \/ Restore
    \/ TakeOutput \/ TakeKey \/ TakeResize \/ TakeTermination \/ TakeChildExited \/ TakeReload
    \/ SignalGroup \/ AwaitGroup
    \/ ClearCloexec \/ SuspendRaw \/ ExecFails \/ Exec

Signalling == TakeSignal \/ SendSignal
Reader     == ReadPty \/ ReadPtyEnds \/ SendOutput
Waiter     == Reap \/ Drain \/ SendExited

Outside == \/ ReadKey \/ ChildWrites \/ ChildExits \/ OrphanExits
           \/ ResizeWindow \/ SendTerm \/ SendReload \/ Install

Next == Main \/ Signalling \/ Reader \/ Waiter \/ Outside

\* The scheduler runs run and the three goroutines.  Nothing is assumed of the
\* child, the user or whoever sends signals.
Fairness == WF_vars(Main) /\ WF_vars(Signalling) /\ WF_vars(Reader) /\ WF_vars(Waiter)

Spec == Init /\ [][Next]_vars /\ Fairness
-------------------------------------------------------------------------------
(* Properties. *)

StateType ==
    /\ pc \in {"parse", "load", "enter", "query", "child", "theme", "readers", "notify", "run",
               "terminate", "await", "cloexec", "suspend", "exec", "restore", "gone"}
    /\ image \in Images /\ code \in Codes /\ handoff \in {"none", "valid", "refused"}
    /\ nonce \in 0..MaxImages /\ childNonce \in 0..MaxImages
    /\ disk \in {"same", "compatible", "incompatible", "broken"}
    /\ winsize \in Sizes /\ size \in Sizes
    /\ child \in {"none", "running", "zombie", "reaped"}
    /\ rd \in {"off", "read", "send", "done"} /\ wt \in {"off", "wait", "drain", "send", "done"}
    /\ wcode \in {"none", "child", "one"} /\ keys \in 0..MaxKeys /\ sent \in 0..MaxSignals
FlagsType ==
    /\ raw \in BOOLEAN /\ region \in BOOLEAN /\ saved \in BOOLEAN /\ ttyFailed \in BOOLEAN
    /\ master \in BOOLEAN /\ cloexec \in BOOLEAN /\ missed \in BOOLEAN
    /\ slave \in BOOLEAN /\ killed \in BOOLEAN /\ cut \in BOOLEAN
QueuesType ==
    /\ signals \in {Nothing} \cup {<<s>> : s \in {"WINCH", "TERM", "USR1"}}
    /\ sg \in {Off, Idle, <<"termination">>, <<"reload">>} \cup ({"resize"} \X Sizes)
    /\ bus \in Seq(Events) /\ Len(bus) <= BusCap
CountsType ==
    inPty \in 0..MaxOutput /\ written \in 0..MaxOutput /\ shown \in 0..MaxOutput

\* Types; part of it: the bus never holds more than it has room for, and no
\* more chunks come out of the PTY than went in.
TypeOK == StateType /\ FlagsType /\ QueuesType /\ CountsType

\* Killed by a signal that came before signal.Notify: no deferred call runs.
KilledEarly == pc = "gone" /\ code = "signal" /\ sg = Off

\* Controller's cardinal rule: whatever it changes, it restores, on every way
\* out, a failed re-exec in between included.  Three ways break it: a signal
\* before Notify, a handoff the new binary refuses (the scroll region stays),
\* and a terminal that refuses a change of its mode.
TerminalIsRestored ==
    pc = "gone" /\ ~ttyFailed => /\ raw => KilledEarly
                                 /\ region => KilledEarly \/ handoff = "refused"

\* Whenever the loop runs, in whichever image and after whichever failed
\* re-exec, it has the child's PTY, nobody else inherits it, the child's
\* nonce is accepted and the terminal is raw.
SessionIsKept ==
    pc = "run" => /\ master /\ cloexec /\ nonce = childNonce
                  /\ region /\ (raw \/ ttyFailed)

\* Once the waiting goroutine runs the program does not leave a child behind
\* that was neither reaped nor killed, whatever ended the loop.
NoOrphan == pc = "gone" /\ wt # "off" /\ ~KilledEarly => child = "reaped" \/ killed

\* Both, however the program ended.
ExitIsClean == TerminalIsRestored /\ NoOrphan

\* When the child's exit ends the loop, all it wrote is on the screen, unless
\* the grace window ended or an image was replaced.
OutputIsComplete == pc = "gone" /\ code = "child" /\ ~cut => shown = written

\* With no change of size on its way the last size that reached the loop is the
\* window's, unless a SIGWINCH came before Notify or met another signal in the
\* channel (TakeResize).  The PTY and the margins follow a throttle and a
\* debouncer later: Screen's ScreenFitsWindow and ResizeCommitted.
SizeIsCurrent ==
    /\ pc = "run" /\ ~missed
    /\ signals # <<"WINCH">>
    /\ Len(sg) = 1
    /\ \A i \in DOMAIN bus : Len(bus[i]) = 1
    => size = winsize

\* When the child has exited the program ends, even if something the child
\* left behind keeps the PTY open.
ChildExitEndsIt == child = "zombie" ~> pc = "gone"

\* A termination signal that found room in the channel ends the program, even
\* if the child ignores it; only a re-exec that comes first swallows it.
SignalEndsIt == \A i \in Images : image = i /\ signals = <<"TERM">> ~> pc = "gone" \/ image # i

\* Both: nothing that should end the program is waited for in vain.
Ends == ChildExitEndsIt /\ SignalEndsIt
-------------------------------------------------------------------------------
(* Why the safety properties hold: an inductive invariant, in parts.       *)

Early == {"parse", "load", "enter", "query", "child", "theme", "readers"}
Over  == {"terminate", "await", "restore", "gone"}

\* What has not started before its place in run, and when there is an exit code.
Staged ==
    /\ pc \in Early => rd = "off" /\ wt = "off" /\ bus = <<>>
    /\ pc \in Early \cup {"notify"} => sg = Off /\ signals = Nothing
    /\ pc \notin Over => code = "none"
    /\ pc \in {"cloexec", "suspend", "exec"} => image < MaxImages
    /\ pc \notin {"parse", "gone"} => handoff # "refused"

\* A changed mode is remembered, and there is none when the old image hands over.
ModeIsRemembered ==
    /\ pc # "gone" /\ raw => saved \/ ttyFailed
    /\ pc \in {"parse", "load", "enter", "exec"} => ~raw
    /\ pc \in {"parse", "load", "enter"} /\ handoff = "none" => ~region

\* What an image has of the session before its loop runs, and hands on.
SessionHeld ==
    /\ pc \in Early /\ handoff = "valid" => master
    /\ pc \in {"theme", "readers", "notify", "run", "cloexec", "suspend", "exec"} =>
          master /\ region /\ nonce = childNonce
    /\ pc = "child" => region
    /\ pc \in {"theme", "readers", "notify", "run", "cloexec"} => cloexec
    /\ pc \in {"suspend", "exec"} => ~cloexec
    /\ pc \in {"query", "child", "theme", "readers", "notify", "run", "cloexec", "suspend"} =>
          raw \/ ttyFailed

\* The child is announced as gone only when it is, and the loop is left only
\* then or once it has been killed.
ExitIsReal ==
    /\ wt \in {"drain", "send", "done"} => child = "reaped"
    /\ (\E i \in 1..Len(bus) : bus[i] = <<"exited">>) => wt = "done"
    /\ pc = "restore" => wt = "off" \/ child = "reaped" \/ killed

\* The reader is done when there is nothing left to read, and the waiting
\* goroutine has seen that before it goes on, unless its grace window ended.
ReaderIsAwaited ==
    /\ child = "running" => slave
    /\ rd = "done" => inPty = 0 /\ ~slave
    /\ ~cut /\ wt \in {"send", "done"} => rd = "done"
    /\ code = "child" => pc \in {"restore", "gone"}
    /\ code = "child" /\ ~cut => shown = written /\ ~slave

\* total[i] chunks are taken off the bus when its first i events are; behind
\* the child's exit there are none.  No chunk is lost between the PTY and the
\* screen while nothing is cut and the terminal takes what it is sent.
InHand == IF rd = "send" THEN 1 ELSE 0
Ledger(total) ==
    /\ shown <= total[0] /\ total[Len(bus)] + inPty + InHand <= written
    /\ ~cut /\ code = "none" =>
          shown = total[0] /\ total[Len(bus)] + inPty + InHand = written
    /\ \A i, j \in 0..Len(bus) : i <= j => total[i] <= total[j]
    /\ \A i \in 1..Len(bus) :
          /\ total[i] = total[i - 1] + (IF bus[i] = <<"output">> THEN 1 ELSE 0)
          /\ ~cut /\ bus[i] = <<"exited">> => total[Len(bus)] = total[i]
NoChunkIsLost == \E total \in [0..Len(bus) -> 0..MaxOutput] : Ledger(total)

\* Unless a signal is still in the channel, the newest size that is on its way
\* is the window's: the goroutine's is newer than any in the bus.
IsResize(e) == Len(e) = 2
SizeArrives ==
    pc \notin {"parse", "load", "enter", "query", "gone"} /\ ~missed /\ signals # <<"WINCH">> =>
        \/ IsResize(sg) /\ sg[2] = winsize
        \/ ~IsResize(sg) /\ \E i \in 1..Len(bus) :
              /\ IsResize(bus[i]) /\ bus[i][2] = winsize
              /\ \A j \in i+1..Len(bus) : ~IsResize(bus[j])
        \/ /\ ~IsResize(sg) /\ \A i \in 1..Len(bus) : ~IsResize(bus[i])
           /\ size = winsize

IInv == /\ Staged /\ ModeIsRemembered /\ SessionHeld /\ ExitIsReal /\ ReaderIsAwaited
        /\ NoChunkIsLost /\ SizeArrives /\ ExitIsClean
===============================================================================
