-------------------------------- MODULE Screen --------------------------------
(***************************************************************************)
(* The screen protocol of ptyline: how the event loop keeps three things   *)
(* in step with the height of the real terminal and with the screen        *)
(* (normal or alternate) the child is on:                                  *)
(*                                                                         *)
(*   - the size of the child PTY;                                          *)
(*   - the scroll region of the real terminal;                             *)
(*   - the status bar painted on the reserved rows.                        *)
(*                                                                         *)
(* Modelled: proxy.Loop.Run, the handlers app.run installs in it, the      *)
(* screen-related part of proxy.AnsiFilter, proxy.TerminalWriter,          *)
(* app.altScreenCoordinator, app.appState.reloadConfig, the SIGWINCH       *)
(* forwarder and proxy.ResizeDebouncer.                                    *)
(*                                                                         *)
(* The loop is one goroutine.  `pc' is where it is in the handling of one  *)
(* event; "idle" is the receive on the bus.  Every other goroutine, the    *)
(* user and the terminal move between any two steps of the loop.           *)
(*                                                                         *)
(* Chunks of child output are not stored: while the loop is filtering one, *)
(* the child's next sequence is chosen freely, for any number of           *)
(* sequences.  Only resize events are queued in `bus'; an event of any     *)
(* other kind carries no data, so receiving it at a moment of the          *)
(* environment's choice is the same as having queued it.                   *)
(***************************************************************************)
EXTENDS ReservedArea, Sequences

CONSTANTS
    Heights,          \* heights the terminal window may have
    Areas,            \* bar heights a configuration may ask for
    Lines,            \* renderings of the bar
    BusCap,           \* capacity of the event bus
    LargeJump,        \* largeResizeJumpRows
    MinMargin,        \* the smallest bottom margin the terminal accepts
    OtherSignals,     \* signals that share SIGWINCH's channel and do not end ptyline
    MaxResizes        \* bound: how often the window may change its height

ASSUME HeightsAssumption == Heights \subseteq (Nat \ {0}) /\ Heights # {}
ASSUME AreasAssumption   == Areas \subseteq (Nat \ {0}) /\ Areas # {}
ASSUME LinesAssumption   == Lines # {}
ASSUME BoundsAssumption  == /\ BusCap \in Nat \ {0}
                            /\ LargeJump \in Nat
                            /\ MinMargin \in Nat \ {0}
                            /\ MaxResizes \in Nat
ASSUME SignalsAssumption == OtherSignals \subseteq {"USR1"}

VARIABLES
    \* the real terminal and its user (external)
    winRows,          \* its height
    resizes,          \* how often it changed so far (bounded by MaxResizes)
    region,           \* bottom margin, 0 when the margins are reset
    regionBy,         \* who set the margins last: "ptyline" or "child"
    shown,            \* what the reserved rows display
    \* SIGWINCH forwarder, bus and resize debouncer
    sig,              \* what StartSignals' channel holds: "none" or a signal
    hand,             \* size read for a SIGWINCH and not sent yet, 0 when none
    bus,              \* queued Resize and ResizeCommit events
    debCh,            \* ResizeDebouncer.ch, 0 when empty
    debTimer,         \* size of the running settling timer, 0 when stopped
    \* the event loop
    pc,
    \* AnsiFilter
    alt, fRows, fArea, clobbered, scrollReset, deferred,
    pending,          \* altScreenCoordinator: "none", or the transition to apply
    \* app.run: area and state.Terminal.Rows, the resize burst
    area, stRows, resizePending,
    pre,              \* preResizeBarTop and preResizeBarCount, read in a burst only
    \* pty.Supervisor
    supArea, ptyRows,
    \* TerminalWriter
    barTop, barCount, lastBars, pendingFrame,
    recent,           \* lastBarAt is set and less than a redraw interval old
    redrawTimer,      \* a one-shot RedrawRequest is scheduled
    content,          \* what renderFn would return now
    \* history: ptyline protected the bar although the child is on the
    \* alternate screen (a reload or a scroll reset handled there)
    altTainted,
    \* history: redraw put a frame off without scheduling a timer for it
    late,
    \* history: a SIGWINCH was dropped, and none was taken since
    missed

termVars   == <<winRows, resizes, region, regionBy, shown>>
signalVars == <<sig, hand, missed>>
pipeVars   == <<signalVars, bus, debCh, debTimer>>
filterVars == <<alt, fRows, fArea, clobbered, scrollReset, deferred>>
burstVars  == <<resizePending, pre>>
sizeVars   == <<area, stRows, supArea, ptyRows>>
writerVars == <<barTop, barCount, lastBars, pendingFrame, recent, redrawTimer>>
vars == <<termVars, pipeVars, pc, filterVars, pending, burstVars, sizeVars,
          writerVars, content, altTainted, late>>

\* A bar frame: one rendered line per configured row, so the number of rows is
\* part of what equalLines compares.
Frames   == Lines \X Areas
NoFrame  == <<>>                       \* lastBars = nil
Frame    == <<content, area>>

\* Why the reserved rows do not display a frame.
Erased == <<"erased">>                 \* wiped by the child or a reload, or moved away from
Lost   == <<"lost">>                   \* damaged by a resize of the window

Wipe(s, why) == IF s \in Frames THEN why ELSE s

NoBar == [top |-> 0, count |-> 0]

ResizeEvent(r) == [kind |-> "resize", rows |-> r]
CommitEvent(r) == [kind |-> "commit", rows |-> r]
Events == [kind : {"resize", "commit"}, rows : Heights]

PCs == {"idle", "filter", "write", "flush", "settle", "meta", "redraw"}
-------------------------------------------------------------------------------
(***************************************************************************)
(* app.run up to loop.Run: margins set, child started, bar geometry known, *)
(* one redraw done.                                                        *)
(***************************************************************************)
Init ==
    \E rows \in Heights, a \in Areas, v \in Lines :
        /\ winRows = rows /\ resizes = 0
        /\ sig = "none" /\ hand = 0 /\ missed = FALSE
        /\ region = (IF ChildRows(a, rows) >= MinMargin THEN ChildRows(a, rows) ELSE 0)
        /\ regionBy = "ptyline"
        /\ bus = <<>> /\ debCh = 0 /\ debTimer = 0
        /\ pc = "redraw"
        /\ alt = FALSE /\ fRows = rows /\ fArea = a
        /\ clobbered = FALSE /\ scrollReset = FALSE /\ deferred = FALSE
        /\ pending = "none"
        /\ area = a /\ supArea = a /\ stRows = rows
        /\ resizePending = FALSE /\ pre = NoBar
        /\ ptyRows = ChildRows(a, rows)
        /\ barTop = Geometry(a, rows, a).top
        /\ barCount = Geometry(a, rows, a).count
        /\ lastBars = NoFrame /\ shown = Erased
        /\ pendingFrame = FALSE /\ recent = FALSE /\ redrawTimer = FALSE
        /\ content = v
        /\ altTainted = FALSE /\ late = FALSE
-------------------------------------------------------------------------------
(***************************************************************************)
(* Operations shared by several handlers.  Each states the next values of  *)
(* the variables named in its comment.                                     *)
(***************************************************************************)

\* Controller.ApplyScrollRegion and ApplyScrollRegionAtChildBottom set the same
\* margins; they differ in where they leave the cursor.  A terminal ignores
\* margins that enclose too few rows.  (region, regionBy)
MarginsOverBar(a, rows) ==          \* mutant: the rows of the window
    region' = rows /\ regionBy' = "ptyline"
ApplyScrollRegion(a, rows) ==
    IF ChildRows(a, rows) >= MinMargin
    THEN region' = ChildRows(a, rows) /\ regionBy' = "ptyline"
    ELSE UNCHANGED <<region, regionBy>>

\* Controller.ResetScrollRegion.  (region, regionBy)
ResetScrollRegion ==
    /\ region' = 0
    /\ regionBy' = "ptyline"

BarRows == [top |-> barTop, count |-> barCount]
BarHere == barTop # 0 /\ barCount # 0

\* The writer paints a frame only where there is a bar, and never on the
\* alternate screen.
PaintAllowed == ~alt /\ BarHere

\* The one-shot RedrawRequest for a frame the rate limit put off.  (redrawTimer)
ScheduleNothing == UNCHANGED redrawTimer        \* mutant: left to the next event
ScheduleRedraw == redrawTimer' = (redrawTimer \/ PaintAllowed)

\* redraw in app.run: mark a frame pending, paint it if the writer is ready,
\* else schedule a one-shot RedrawRequest for the end of the rate window.  The
\* clock is read twice, by readyForBarFrame and by PendingRedrawDue: the window
\* may end in between, and then nothing is painted and nothing is scheduled.
\* (lastBars, pendingFrame, recent, redrawTimer, shown, late)
Redraw ==
    \/ /\ resizePending
       /\ UNCHANGED <<lastBars, pendingFrame, recent, redrawTimer, shown, late>>
    \/ /\ ~resizePending
       /\ PaintAllowed /\ ~recent
       /\ lastBars' = Frame
       /\ shown' = IF lastBars = Frame THEN shown ELSE Frame
       /\ pendingFrame' = FALSE
       /\ recent' = TRUE
       /\ late' = FALSE
       /\ UNCHANGED redrawTimer
    \/ /\ ~resizePending
       /\ ~PaintAllowed \/ recent
       /\ pendingFrame' = TRUE
       /\ ScheduleRedraw
       /\ late' = FALSE
       /\ UNCHANGED <<lastBars, recent, shown>>
    \/ /\ ~resizePending
       /\ PaintAllowed /\ recent
       /\ pendingFrame' = TRUE
       /\ recent' = FALSE
       /\ late' = TRUE
       /\ UNCHANGED <<lastBars, redrawTimer, shown>>

\* TerminalWriter.SetBarRows applied to a cache `bars' and a screen `s', which
\* are lastBars and shown unless the same handler changed them before.
\* (barTop, barCount, lastBars, shown)
SetBarRowsKeepCache(geo, bars, s) ==       \* mutant: the cache survives a move
    /\ barTop' = geo.top
    /\ barCount' = geo.count
    /\ lastBars' = bars
    /\ shown' = IF BarRows = geo THEN s ELSE Wipe(s, Erased)
SetBarRows(geo, bars, s) ==
    LET same == geo.top = barTop /\ geo.count = barCount
    IN  /\ barTop' = geo.top
        /\ barCount' = geo.count
        /\ lastBars' = IF same THEN bars ELSE NoFrame
        /\ shown' = IF same THEN s ELSE Wipe(s, Erased)

\* The child-size half of syncResizeGeometry.  (ptyRows)
SyncPty(rows) == ptyRows' = IF alt THEN rows ELSE ChildRows(supArea, rows)
-------------------------------------------------------------------------------
(***************************************************************************)
(* The user, the terminal and the goroutines around the loop.              *)
(***************************************************************************)

\* The window changes height.  A terminal may drop the margins when it does,
\* and may lose what the bottom rows displayed.  The channel of the signals has
\* room for one, and the runtime drops what finds it full.
WindowResize ==
    /\ resizes < MaxResizes
    /\ \E r \in Heights \ {winRows} : winRows' = r
    /\ resizes' = resizes + 1
    /\ sig' = IF sig = "none" THEN "WINCH" ELSE sig
    /\ missed' = (missed \/ sig \in OtherSignals)
    /\ region' \in {region, 0}
    /\ shown' \in {shown, Wipe(shown, Lost)}
    /\ UNCHANGED <<regionBy, hand, bus, debCh, debTimer, pc, filterVars, pending,
                   burstVars, sizeVars, writerVars, content, altTainted, late>>

\* SIGUSR1, which asks for a reload.
OtherSignal ==
    /\ sig = "none"
    /\ sig' \in OtherSignals
    /\ UNCHANGED <<termVars, hand, missed, bus, debCh, debTimer, pc, filterVars,
                   pending, burstVars, sizeVars, writerVars, content,
                   altTainted, late>>

\* StartSignals: the size is read when the signal is taken off the channel, so
\* signals that arrive before collapse into one event with the latest size.  The
\* event of another signal is sent at once: it carries no data.
TakeSignal ==
    /\ sig # "none" /\ hand = 0
    /\ hand' = IF sig = "WINCH" THEN winRows ELSE 0
    /\ missed' = (missed /\ sig # "WINCH")
    /\ sig' = "none"
    /\ UNCHANGED <<termVars, bus, debCh, debTimer, pc, filterVars, pending,
                   burstVars, sizeVars, writerVars, content, altTainted, late>>

\* SendCtx waits for room on the bus; the window may change meanwhile.
SendSize ==
    /\ hand # 0
    /\ Len(bus) < BusCap
    /\ hand' = 0
    /\ bus' = Append(bus, ResizeEvent(hand))
    /\ UNCHANGED <<termVars, sig, missed, debCh, debTimer, pc, filterVars, pending,
                   burstVars, sizeVars, writerVars, content, altTainted, late>>

\* ResizeDebouncer.Start, first case: take the size, restart the timer.
DebounceTake ==
    /\ debCh # 0
    /\ debTimer' = debCh
    /\ debCh' = 0
    /\ UNCHANGED <<termVars, signalVars, bus, pc, filterVars, pending, burstVars,
                   sizeVars, writerVars, content, altTainted, late>>

\* Second case: the settling delay is over.  A newer size may already wait in
\* the channel: Go picks freely between two ready cases.
DebounceFire ==
    /\ debTimer # 0
    /\ Len(bus) < BusCap
    /\ bus' = Append(bus, CommitEvent(debTimer))
    /\ debTimer' = 0
    /\ UNCHANGED <<termVars, signalVars, debCh, pc, filterVars, pending, burstVars,
                   sizeVars, writerVars, content, altTainted, late>>

\* The 1/maxBarRedrawHz window after the last frame is over.
RateWindowEnds ==
    /\ recent
    /\ recent' = FALSE
    /\ UNCHANGED <<termVars, pipeVars, pc, filterVars, pending, burstVars,
                   sizeVars, barTop, barCount, lastBars, pendingFrame,
                   redrawTimer, content, altTainted, late>>
-------------------------------------------------------------------------------
(***************************************************************************)
(* The event loop: resize events.                                          *)
(***************************************************************************)

\* ResizeDebouncer.Send: the latest size replaces any other.  (debCh)
SendIfRoom(r) == debCh' = IF debCh = 0 THEN r ELSE debCh     \* mutant
SendToDebouncer(r) == debCh' = r

\* event.Resize: AnsiFilter.SetRows, then the ResizeRequest handler.  The first
\* event of a burst syncs the geometry at once, a later one only when
\* geometrySyncMinInterval has passed.
HandleResize ==
    /\ pc = "idle"
    /\ bus # <<>> /\ Head(bus).kind = "resize"
    /\ LET r     == Head(bus).rows
           first == ~resizePending
       IN  /\ fRows' = r
           /\ pre' = IF first THEN BarRows ELSE pre
           /\ resizePending' = TRUE
           /\ \/ /\ SyncPty(r)
                 /\ SetBarRows(Geometry(area, r, area), lastBars, shown)
              \/ /\ ~first
                 /\ UNCHANGED <<ptyRows, barTop, barCount, lastBars, shown>>
           /\ SendToDebouncer(r)
    /\ bus' = Tail(bus)
    /\ UNCHANGED <<winRows, resizes, region, regionBy, signalVars, debTimer, pc, alt,
                   fArea, clobbered, scrollReset, deferred, pending,
                   area, stRows, supArea, pendingFrame, recent, redrawTimer,
                   content, altTainted, late>>

\* What ClearRows(pre) leaves of the bar when the terminal grew.
AfterClear(r) ==
    IF /\ ~alt /\ r > stRows
       /\ RowsOf(pre) \cap RowsOf(BarRows) # {}
    THEN Wipe(shown, Lost)
    ELSE shown

IsLargeJump(r) == r - stRows >= LargeJump \/ stRows - r >= LargeJump

\* A burst is over.  (burstVars)
BurstOver ==
    /\ resizePending' = FALSE
    /\ pre' = NoBar

\* event.ResizeCommit: AnsiFilter.SetRows, the ResizeCommit handler, and (next
\* step) Redraw.  On the normal screen the margins are re-established; whether
\* the cursor is preserved or pinned does not matter to them.
HandleCommit ==
    /\ pc = "idle"
    /\ bus # <<>> /\ Head(bus).kind = "commit"
    /\ LET r     == Head(bus).rows
           force == ~alt /\ IsLargeJump(r)
       IN  /\ fRows' = r
           /\ stRows' = r
           /\ SyncPty(r)
           /\ SetBarRows(Geometry(area, r, area),
                         IF force THEN NoFrame ELSE lastBars, AfterClear(r))
           /\ recent' = (recent /\ ~force)
           /\ IF alt THEN ResetScrollRegion ELSE ApplyScrollRegion(area, r)
    /\ BurstOver
    /\ altTainted' = (altTainted /\ ~alt)
    /\ bus' = Tail(bus)
    /\ pc' = "redraw"
    /\ UNCHANGED <<winRows, resizes, signalVars, debCh, debTimer, alt, fArea,
                   clobbered, scrollReset, deferred, pending, area, supArea,
                   pendingFrame, redrawTimer, content, late>>
-------------------------------------------------------------------------------
(***************************************************************************)
(* The event loop: one chunk of child output.  The filter looks at one     *)
(* sequence after the other; an alternate-screen transition ends the pass, *)
(* and the bytes behind it are kept for the next pass (`deferred').        *)
(***************************************************************************)

BeginChunk ==
    /\ pc = "idle"
    /\ pc' = "filter"
    /\ UNCHANGED <<termVars, pipeVars, filterVars, pending, burstVars,
                   sizeVars, writerVars, content, altTainted, late>>

\* rewriteEraseDisplay: cursor-to-end erase with an unknown or stale cursor row.
\* It is forwarded, so it wipes the bar.
FilterErase ==
    /\ pc = "filter"
    /\ ~alt
    /\ clobbered' = TRUE
    /\ UNCHANGED <<termVars, pipeVars, pc, alt, fRows, fArea, scrollReset,
                   deferred, pending, burstVars, sizeVars,
                   writerVars, content, altTainted, late>>

\* RIS or DECSTR: rewritten to a clear of the child's rows.
FilterReset ==
    /\ pc = "filter"
    /\ ~alt
    /\ scrollReset' = TRUE
    /\ UNCHANGED <<termVars, pipeVars, pc, alt, fRows, fArea, clobbered,
                   deferred, pending, burstVars, sizeVars,
                   writerVars, content, altTainted, late>>

\* DECSTBM: clamped to the child's rows on the normal screen, as the child wrote
\* it on the alternate screen.
FilterMargins ==
    /\ pc = "filter"
    /\ region' \in IF alt THEN 0..winRows ELSE 1..ChildRows(fArea, fRows)
    /\ regionBy' = "child"
    /\ UNCHANGED <<winRows, resizes, shown, pipeVars, pc, filterVars, pending,
                   burstVars, sizeVars, writerVars, content, altTainted, late>>

\* ?1049h / ?1049l and their variants: trackAltScreen reports only real changes.
FilterAlt ==
    /\ pc = "filter"
    /\ alt' = ~alt
    /\ pending' = IF alt THEN "leave" ELSE "enter"           \* SetPending
    /\ deferred' \in BOOLEAN           \* bytes follow in this chunk, or not
    /\ pc' = "write"
    /\ UNCHANGED <<termVars, pipeVars, fRows, fArea, clobbered, scrollReset,
                   burstVars, sizeVars, writerVars, content, altTainted, late>>

FilterEnd ==
    /\ pc = "filter"
    /\ pc' = "write"
    /\ deferred' = FALSE
    /\ UNCHANGED <<termVars, pipeVars, alt, fRows, fArea, clobbered,
                   scrollReset, pending, burstVars, sizeVars,
                   writerVars, content, altTainted, late>>

FrameThisPass == clobbered /\ ~deferred /\ ~scrollReset

\* WriteOutput, up to FlushPending.
WritePlain ==
    /\ pc = "write"
    /\ ~FrameThisPass
    /\ shown' = IF clobbered THEN Wipe(shown, Erased) ELSE shown
    /\ pc' = "flush"
    /\ UNCHANGED <<winRows, resizes, region, regionBy, pipeVars, filterVars,
                   pending, burstVars, sizeVars, writerVars, content,
                   altTainted, late>>

\* WriteOutputFramed, up to FlushPending: the erase and the repaint in one
\* synchronized update, whatever the rate limit and a resize burst say.
WriteFramed ==
    /\ pc = "write"
    /\ FrameThisPass
    /\ clobbered' = FALSE
    /\ IF ~PaintAllowed
       THEN /\ shown' = Wipe(shown, Erased)
            /\ UNCHANGED <<lastBars, recent, pendingFrame, late>>
       ELSE /\ shown' = Frame
            /\ lastBars' = Frame
            /\ recent' = TRUE
            /\ pendingFrame' = FALSE
            /\ late' = FALSE
    /\ pc' = "flush"
    /\ UNCHANGED <<winRows, resizes, region, regionBy, pipeVars, alt, fRows,
                   fArea, scrollReset, deferred, pending, burstVars,
                   sizeVars, barTop, barCount, redrawTimer, content, altTainted>>

\* altScreenCoordinator.FlushPending with nothing pending.
FlushNothing ==
    /\ pc = "flush"
    /\ pending = "none"
    /\ pc' = "settle"
    /\ UNCHANGED <<termVars, pipeVars, filterVars, pending, burstVars,
                   sizeVars, writerVars, content, altTainted, late>>

\* Apply(true): TerminalWriter.OnAltEnter, margins reset, child gets every row.
AltEnter ==
    /\ pc = "flush"
    /\ pending = "enter"
    /\ pending' = "none"
    /\ pendingFrame' = FALSE
    /\ lastBars' = NoFrame
    /\ recent' = FALSE
    /\ ResetScrollRegion
    /\ ptyRows' = stRows               \* ResizeFull
    /\ altTainted' = FALSE /\ late' = FALSE
    /\ pc' = "settle"
    /\ UNCHANGED <<winRows, resizes, shown, pipeVars, filterVars,
                   burstVars, area, stRows, supArea, barTop, barCount,
                   redrawTimer, content>>

\* Apply(false): child back to its share, margins set, bar redrawn.
AltLeave ==
    /\ pc = "flush"
    /\ pending = "leave"
    /\ pending' = "none"
    /\ ptyRows' = ChildRows(supArea, stRows)
    /\ ApplyScrollRegion(area, stRows)
    /\ Redraw
    /\ altTainted' = FALSE
    /\ pc' = "settle"
    /\ UNCHANGED <<winRows, resizes, pipeVars, filterVars, burstVars,
                   area, stRows, supArea, barTop, barCount, content>>

\* Back in Loop.Run: InvalidateBar after a plain write that wiped the bar, then
\* the ScrollReset handler.
Settle ==
    /\ pc = "settle"
    /\ clobbered' = FALSE
    /\ scrollReset' = FALSE
    /\ IF clobbered \/ scrollReset
       THEN lastBars' = NoFrame /\ recent' = FALSE
       ELSE UNCHANGED <<lastBars, recent>>
    /\ IF scrollReset
       THEN ApplyScrollRegion(area, stRows) /\ altTainted' = (altTainted \/ alt)
       ELSE UNCHANGED <<region, regionBy, altTainted>>
    /\ pc' = "meta"
    /\ UNCHANGED <<winRows, resizes, shown, pipeVars, alt, fRows, fArea,
                   deferred, pending, burstVars, sizeVars, barTop,
                   barCount, pendingFrame, redrawTimer, content, late>>

\* reloadConfig with a resolved configuration whose bar has `a' rows.  Loading
\* it may fail, which changes nothing.  (content, lastBars, shown, barTop,
\* barCount, area, fArea, supArea, ptyRows, region, regionBy, altTainted)
Reload ==
    \/ UNCHANGED <<content, lastBars, shown, barTop, barCount, area, fArea,
                   supArea, ptyRows, region, regionBy, altTainted>>
    \/ /\ content' \in Lines
       /\ UNCHANGED <<lastBars, shown, barTop, barCount, area, fArea, supArea,
                      ptyRows, region, regionBy, altTainted>>
    \/ \E a \in Areas \ {area} :
        /\ content' \in Lines
        /\ area' = a /\ fArea' = a /\ supArea' = a
        /\ SetBarRows(Geometry(a, stRows, a), lastBars,
                      IF BarHere THEN Wipe(shown, Erased) ELSE shown)
        /\ ptyRows' = ChildRows(a, stRows)
        /\ ApplyScrollRegion(a, stRows)
        /\ altTainted' = (altTainted \/ alt)

\* applyFilterMeta: the OSC 777 messages the pass consumed are applied now, so
\* this is where it is chosen whether there was one that changes the overlay.
\* Then comes either the next pass or the final Redraw.
ApplyMeta ==
    /\ pc = "meta"
    /\ Reload
    /\ pc' = IF deferred THEN "filter" ELSE "redraw"
    /\ deferred' = FALSE
    /\ UNCHANGED <<winRows, resizes, pipeVars, alt, fRows, clobbered,
                   scrollReset, pending, burstVars, stRows, pendingFrame,
                   recent, redrawTimer, late>>
-------------------------------------------------------------------------------
(***************************************************************************)
(* The event loop: the other events.                                       *)
(***************************************************************************)

\* ConfigReloadRequested.
HandleReload ==
    /\ pc = "idle"
    /\ Reload
    /\ pc' = "redraw"
    /\ UNCHANGED <<winRows, resizes, pipeVars, alt, fRows, clobbered,
                   scrollReset, deferred, pending, burstVars, stRows,
                   pendingFrame, recent, redrawTimer, late>>

\* ModuleUpdated and Tick: the rendering may change.
HandleModule ==
    /\ pc = "idle"
    /\ content' \in Lines
    /\ pc' = "redraw"
    /\ UNCHANGED <<termVars, pipeVars, filterVars, pending, burstVars,
                   sizeVars, writerVars, altTainted, late>>

\* RedrawRequest from the one-shot timer.
HandleRedrawRequest ==
    /\ pc = "idle"
    /\ redrawTimer
    /\ redrawTimer' = FALSE
    /\ pc' = "redraw"
    /\ UNCHANGED <<termVars, pipeVars, filterVars, pending, burstVars,
                   sizeVars, barTop, barCount, lastBars, pendingFrame, recent,
                   content, altTainted, late>>

RedrawStep ==
    /\ pc = "redraw"
    /\ Redraw
    /\ pc' = "idle"
    /\ UNCHANGED <<winRows, resizes, region, regionBy, pipeVars, filterVars,
                   pending, burstVars, sizeVars, barTop, barCount, content,
                   altTainted>>
-------------------------------------------------------------------------------
Filtering == FilterErase \/ FilterReset \/ FilterMargins \/ FilterAlt

\* The steps the loop takes without waiting for anybody.
LoopStep ==
    \/ WritePlain \/ WriteFramed
    \/ FlushNothing \/ AltEnter \/ AltLeave
    \/ Settle \/ ApplyMeta \/ RedrawStep

Next ==
    \/ WindowResize \/ OtherSignal \/ TakeSignal \/ SendSize
    \/ DebounceTake \/ DebounceFire
    \/ RateWindowEnds
    \/ HandleResize \/ HandleCommit
    \/ BeginChunk \/ Filtering \/ FilterEnd \/ LoopStep
    \/ HandleReload \/ HandleModule \/ HandleRedrawRequest

Spec == Init /\ [][Next]_vars

(***************************************************************************)
(* The goroutines of ptyline keep running; the user and the child need do  *)
(* nothing.  A queued event is received after finitely many others because *)
(* the bus is a FIFO channel, and a chunk is finite: the model abstracts   *)
(* both orders away, so the three actions that stand for "it is its turn   *)
(* now" get strong fairness.                                               *)
(***************************************************************************)
Fairness ==
    /\ WF_vars(TakeSignal) /\ WF_vars(SendSize)
    /\ WF_vars(DebounceTake) /\ WF_vars(DebounceFire)
    /\ WF_vars(RateWindowEnds)
    /\ WF_vars(LoopStep)
    /\ SF_vars(FilterEnd)
    /\ SF_vars(HandleResize \/ HandleCommit)
    /\ SF_vars(HandleRedrawRequest)

FairSpec == Spec /\ Fairness
-------------------------------------------------------------------------------
(***************************************************************************)
(* Properties.                                                             *)
(***************************************************************************)
ValuesType ==
    /\ winRows \in Heights /\ resizes \in 0..MaxResizes
    /\ region \in Nat /\ regionBy \in {"ptyline", "child"}
    /\ shown \in Frames \cup {Erased, Lost}
    /\ sig \in {"none", "WINCH"} \cup OtherSignals /\ hand \in Heights \cup {0}
    /\ bus \in Seq(Events) /\ Len(bus) <= BusCap
    /\ debCh \in Heights \cup {0} /\ debTimer \in Heights \cup {0}
    /\ pc \in PCs
    /\ fRows \in Heights /\ fArea \in Areas
    /\ pending \in {"none", "enter", "leave"}
    /\ area \in Areas /\ supArea \in Areas
    /\ stRows \in Heights
    /\ ptyRows \in Nat \ {0}          \* the child always has a row
    /\ pre \in [top : Nat, count : Nat]
    /\ barTop \in Nat /\ barCount \in Nat
    /\ lastBars \in Frames \cup {NoFrame}
    /\ content \in Lines

FlagsType ==
    /\ missed \in BOOLEAN /\ resizePending \in BOOLEAN
    /\ alt \in BOOLEAN /\ clobbered \in BOOLEAN
    /\ scrollReset \in BOOLEAN /\ deferred \in BOOLEAN
    /\ pendingFrame \in BOOLEAN /\ recent \in BOOLEAN
    /\ redrawTimer \in BOOLEAN
    /\ altTainted \in BOOLEAN /\ late \in BOOLEAN

TypeOK == ValuesType /\ FlagsType

\* No change of the window height is still on its way to the loop, or lost.
SignalHandled == sig # "WINCH" /\ ~missed
PipelineEmpty == SignalHandled /\ hand = 0 /\ bus = <<>> /\ debCh = 0 /\ debTimer = 0

Settled == pc = "idle" /\ PipelineEmpty

\* Once a resize, reload or screen switch has been worked off on the normal
\* screen, the child has exactly the rows above the bar of the window as it is
\* now, the bar lies on the rows below, and the margins keep scrolling off the
\* bar (ARCHITECTURE.md, invariants 1 and 2).
SettledNormal ==
    Settled /\ ~alt =>
        /\ ptyRows = ChildRows(area, winRows)
        /\ barTop = BarTopRow(area, winRows)
        /\ barCount = BarCount(area, winRows, area)
        /\ ChildRows(area, winRows) >= MinMargin =>
              region \in 1..ChildRows(area, winRows)

\* On the alternate screen the child has every row and no margin of ptyline's,
\* unless a reload or a scroll reset was handled since it got there.
SettledAlt ==
    Settled /\ alt /\ ~altTainted =>
        /\ ptyRows = winRows
        /\ region = 0 \/ regionBy = "child"

\* Both: with no resize under way, child, bar and margins fit the window.
ScreenFitsWindow == SettledNormal /\ SettledAlt

RoomForEveryBar == \A a \in Areas : stRows > a

\* The repaint cache never claims that an intact frame is on the screen when the
\* child or a reload has wiped it: the next redraw would skip the repaint.
\* (Damage that a window resize does is left out: a framed repaint in a burst,
\* followed by ClearRows over rows the old and the new bar share, does leave the
\* cache wrong.  In a terminal no taller than the bar two bar heights have the
\* same geometry, and two reloads within one rate window can as well.)
CacheIsSound ==
    pc = "idle" /\ ~alt /\ BarHere /\ lastBars = Frame /\ RoomForEveryBar =>
        shown \in {Frame, Lost}

\* A frame is never painted while the child is on the alternate screen.
NoFrameOnAlt ==
    [][shown' # shown /\ shown' \in Frames => ~alt]_vars

\* Whatever the user does to the window, every burst ends, and the last height
\* reaches the program, however many older ones are still under way; unless its
\* SIGWINCH found another signal in the channel and was dropped.
ResizeCommitted == <>[](~resizePending /\ (stRows = winRows \/ missed))

\* The bar shows its current rendering again and again, whatever the rate limit
\* and the resize bursts put off; except on the alternate screen, after damage
\* only the terminal knows of, and when a timer was lost (`late').
BarCatchesUp ==
    []<>(alt \/ ~BarHere \/ late \/ shown \in {Frame, Lost})
-------------------------------------------------------------------------------
(***************************************************************************)
(* The inductive invariant behind SettledNormal and SettledAlt.            *)
(***************************************************************************)
IsResize(i) == bus[i].kind = "resize"

NoResizeQueued == \A i \in 1..Len(bus) : ~IsResize(i)

\* Unless a signal is still pending, or lost, the newest size on its way to the
\* loop is the height of the window: the size in the forwarder's hand is newer
\* than a queued Resize, a queued Resize is newer than what the debouncer
\* holds, its channel newer than its timer, its timer newer than a queued commit.
NewestSizeInFlight ==
    /\ SignalHandled /\ hand # 0 => hand = winRows
    /\ SignalHandled /\ hand = 0 =>
        /\ ~NoResizeQueued =>
              \E i \in 1..Len(bus) :
                  /\ IsResize(i) /\ bus[i].rows = winRows
                  /\ \A j \in i+1..Len(bus) : ~IsResize(j)
        /\ NoResizeQueued /\ debCh # 0 => debCh = winRows
        /\ NoResizeQueued /\ debCh = 0 /\ debTimer # 0 => debTimer = winRows
        /\ NoResizeQueued /\ debCh = 0 /\ debTimer = 0 /\ bus # <<>> =>
              bus[Len(bus)].rows = winRows
        /\ PipelineEmpty => stRows = winRows

\* A burst ends: its commit is still to come.
BurstIsCommitted ==
    resizePending =>
        \/ debCh # 0 \/ debTimer # 0
        \/ \E i \in 1..Len(bus) : bus[i].kind = "commit"

\* A transition waits only between the filter and FlushPending.
TransitionIsApplied ==
    /\ pending # "none" => pc \in {"write", "flush"}
    /\ pending = "enter" => alt
    /\ pending = "leave" => ~alt

\* Outside a burst everything is laid out for the height the loop knows.
LaidOut ==
    /\ fArea = area /\ supArea = area
    /\ ~resizePending =>
          /\ fRows = stRows
          /\ barTop = Geometry(area, stRows, area).top
          /\ barCount = Geometry(area, stRows, area).count
          /\ pending = "none" /\ ~alt => ptyRows = ChildRows(area, stRows)
          /\ pending = "none" /\ alt /\ ~altTainted => ptyRows = stRows

\* Where the margins are, when no resize may have changed them.
MarginsSet ==
    /\ pending = "none" /\ ~alt /\ PipelineEmpty
          /\ ChildRows(area, stRows) >= MinMargin =>
              region \in 1..ChildRows(area, stRows)
    /\ pending = "none" /\ alt /\ ~altTainted => region = 0 \/ regionBy = "child"

IInv == /\ NewestSizeInFlight /\ BurstIsCommitted /\ TransitionIsApplied
        /\ LaidOut /\ MarginsSet
-------------------------------------------------------------------------------
(***************************************************************************)
(* The inductive invariant behind CacheIsSound.                            *)
(***************************************************************************)

\* The height the bar is laid out for: in a burst it may differ from stRows.
LaidFor == barTop + barCount - 1

RoomAt(h) == \A a \in Areas : h > a

\* The bar has a geometry that some height gives it.
BarLaidOut == \E h \in Heights : BarRows = Geometry(area, h, area)

\* What was cached was painted: there is a bar, and the child is not on the
\* alternate screen, or only about to be moved there.
CachedWasPainted ==
    lastBars # NoFrame => BarHere /\ (alt => pending = "enter")

\* The loop has written an erase through, and forgets the cache before it is
\* done with the chunk.
WillForget == pc \in {"flush", "settle"} /\ (clobbered \/ pending = "enter")

CacheMatches ==
    lastBars # NoFrame /\ (RoomAt(stRows) \/ RoomAt(LaidFor)) /\ ~WillForget =>
        shown \in {lastBars, Lost}

CacheInv == BarLaidOut /\ CachedWasPainted /\ CacheMatches
===============================================================================
