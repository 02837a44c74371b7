---------------------------- MODULE ScreenProofs ----------------------------
(***************************************************************************)
(* Proofs about the rows below the child's: about how the terminal is      *)
(* divided, for every height of terminal and bar; about the screen         *)
(* protocol, for every set of heights, bar heights and renderings, every   *)
(* bus capacity and any number of resizes; and about the filter's believed *)
(* cursor row and the cursor's place, for every height of terminal and bar.*)
(***************************************************************************)
EXTENDS Screen, OutputFilter, SequenceTheorems, TLAPS

\* However short the terminal is, the child is given at least one row and never
\* more rows than the terminal has (reserved.Area.ChildRows).
THEOREM ChildRowsBounds ==
  ASSUME NEW reserved \in Nat, NEW rows \in Nat \ {0}
  PROVE  ChildFits(reserved, rows)
  BY DEF ChildFits, ChildRows

\* Whatever fits of the bar lies strictly below the child's rows and inside the
\* terminal (bar.Geometry): painting it can neither touch the child's rows nor
\* write past the last row, which would scroll the screen.
THEOREM BarInsideTerminal ==
  ASSUME NEW reserved \in Nat, NEW rows \in Nat \ {0}
  PROVE  BarFits(reserved, rows)
  BY DEF BarFits, RowsOf, Geometry, BarTopRow, BarCount, ChildRows

\* No row of the terminal is left to nobody: child rows plus painted bar rows
\* are all the rows there are.
THEOREM SplitExact ==
  ASSUME NEW reserved \in Nat, NEW rows \in Nat \ {0}
  PROVE  SplitIsExact(reserved, rows)
  BY DEF SplitIsExact, Geometry, BarTopRow, BarCount, ChildRows

\* Two different heights never give the same bar geometry.  This is why the
\* writer may compare geometries (TerminalWriter.SetBarRows) to decide whether a
\* resize has invalidated what it painted: every change of height is noticed.
THEOREM GeometryInjective ==
  ASSUME NEW reserved \in Nat \ {0}, NEW r1 \in Nat \ {0}, NEW r2 \in Nat \ {0},
         Geometry(reserved, r1, reserved) = Geometry(reserved, r2, reserved)
  PROVE  r1 = r2
<1>1. /\ ChildRows(reserved, r1) = ChildRows(reserved, r2)
      /\ BarCount(reserved, r1, reserved) = BarCount(reserved, r2, reserved)
  <2>1. Geometry(reserved, r1, reserved).top = Geometry(reserved, r2, reserved).top
    OBVIOUS
  <2>2. Geometry(reserved, r1, reserved).count = Geometry(reserved, r2, reserved).count
    OBVIOUS
  <2>3. QED
    BY <2>1, <2>2 DEF Geometry, BarTopRow, ChildRows
<1>2. QED
  BY <1>1 DEF ChildRows, BarCount
-------------------------------------------------------------------------------
(* The screen protocol. *)

USE HeightsAssumption, AreasAssumption, LinesAssumption, BoundsAssumption, SignalsAssumption

\* The values the geometry operators return.
LEMMA GeometryType ==
    ASSUME NEW a \in Areas, NEW r \in Heights
    PROVE  /\ ChildRows(a, r) \in Nat \ {0}
           /\ Geometry(a, r, a).top \in Nat
           /\ Geometry(a, r, a).count \in Nat
  BY DEF ChildRows, Geometry, BarTopRow, BarCount

\* What the forwarder and the debouncer append to the bus.
LEMMA QueueAppend ==
    ASSUME NEW q \in Seq(Events), NEW r \in Heights,
           NEW e \in {ResizeEvent(r), CommitEvent(r)}
    PROVE  /\ Append(q, e) \in Seq(Events)
           /\ Len(Append(q, e)) = Len(q) + 1
           /\ Append(q, e) # <<>>
           /\ \A i \in 1..Len(q) : Append(q, e)[i] = q[i]
           /\ Append(q, e)[Len(q) + 1] = e
           /\ Len(q) \in Nat
  <1>1. e \in Events
    BY DEF Events, ResizeEvent, CommitEvent
  <1> QED
    BY <1>1, AppendProperties, LenProperties

\* What the loop leaves of the bus when it receives an event.
LEMMA QueueReceive ==
    ASSUME NEW q \in Seq(Events), q # <<>>
    PROVE  /\ Head(q).rows \in Heights /\ Head(q) = q[1]
           /\ Tail(q) \in Seq(Events)
           /\ Len(q) \in Nat \ {0}
           /\ Len(Tail(q)) = Len(q) - 1
           /\ \A i \in 1..Len(Tail(q)) : Tail(q)[i] = q[i + 1]
  <1>1. Head(q) \in Events
    BY HeadTailProperties
  <1> QED
    BY <1>1, HeadTailProperties, EmptySeq DEF Events
-------------------------------------------------------------------------------
(***************************************************************************)
(* Type correctness, first of the flags and then of the other variables.   *)
(***************************************************************************)
\* app.run starts the loop with every flag a Boolean.
LEMMA FlagsInit == Init => FlagsType
  BY Zenon DEF Init, FlagsType

\* What a redraw does to the flags of the writer.
LEMMA FlagsRedraw ==
    ASSUME FlagsType, Redraw
    PROVE  /\ pendingFrame' \in BOOLEAN /\ recent' \in BOOLEAN
           /\ redrawTimer' \in BOOLEAN /\ late' \in BOOLEAN
  BY Zenon DEF FlagsType, Redraw, ScheduleRedraw, PaintAllowed

\* What a reload does to the one flag it may set.
LEMMA FlagsReload ==
    ASSUME FlagsType, Reload
    PROVE  altTainted' \in BOOLEAN
  <1>1. altTainted' = altTainted \/ altTainted' = (altTainted \/ alt)
    BY Zenon DEF Reload
  <1> QED
    BY Zenon, <1>1 DEF FlagsType

\* No handler gives a flag another kind of value.
LEMMA FlagsStep == FlagsType /\ [Next]_vars => FlagsType'
  <1> SUFFICES ASSUME FlagsType, [Next]_vars PROVE FlagsType'
    OBVIOUS
  <1> USE DEF FlagsType, termVars, signalVars, pipeVars, filterVars, burstVars, sizeVars, writerVars
  <1>1. CASE WindowResize
    <2>1. missed' \in BOOLEAN
      BY <1>1 DEF WindowResize
    <2> QED
      BY Zenon, <1>1, <2>1 DEF WindowResize
  <1>2. CASE OtherSignal
    BY Zenon, <1>2 DEF OtherSignal
  <1>26. CASE TakeSignal
    <2>1. missed' \in BOOLEAN
      BY <1>26 DEF TakeSignal
    <2> QED
      BY Zenon, <1>26, <2>1 DEF TakeSignal
  <1>27. CASE SendSize
    BY Zenon, <1>27 DEF SendSize
  <1>3. CASE DebounceTake
    BY Zenon, <1>3 DEF DebounceTake
  <1>4. CASE DebounceFire
    BY Zenon, <1>4 DEF DebounceFire
  <1>5. CASE RateWindowEnds
    BY Zenon, <1>5 DEF RateWindowEnds
  <1>6. CASE HandleResize
    BY Zenon, <1>6 DEF HandleResize
  <1>7. CASE HandleCommit
    BY Zenon, <1>7 DEF HandleCommit, BurstOver
  <1>8. CASE BeginChunk
    BY Zenon, <1>8 DEF BeginChunk
  <1>9. CASE FilterErase
    BY Zenon, <1>9 DEF FilterErase
  <1>10. CASE FilterReset
    BY Zenon, <1>10 DEF FilterReset
  <1>11. CASE FilterMargins
    BY Zenon, <1>11 DEF FilterMargins
  <1>12. CASE FilterAlt
    BY Zenon, <1>12 DEF FilterAlt
  <1>13. CASE FilterEnd
    BY Zenon, <1>13 DEF FilterEnd
  <1>14. CASE WritePlain
    BY Zenon, <1>14 DEF WritePlain
  <1>15. CASE WriteFramed
    BY Zenon, <1>15 DEF WriteFramed
  <1>16. CASE FlushNothing
    BY Zenon, <1>16 DEF FlushNothing
  <1>17. CASE AltEnter
    BY Zenon, <1>17 DEF AltEnter
  <1>18. CASE AltLeave
    BY Zenon, <1>18, FlagsRedraw DEF AltLeave
  <1>19. CASE Settle
    BY Zenon, <1>19 DEF Settle
  <1>20. CASE ApplyMeta
    BY Zenon, <1>20, FlagsReload DEF ApplyMeta
  <1>21. CASE RedrawStep
    BY Zenon, <1>21, FlagsRedraw DEF RedrawStep
  <1>22. CASE HandleReload
    BY Zenon, <1>22, FlagsReload DEF HandleReload
  <1>23. CASE HandleModule
    BY Zenon, <1>23 DEF HandleModule
  <1>24. CASE HandleRedrawRequest
    BY Zenon, <1>24 DEF HandleRedrawRequest
  <1>25. CASE UNCHANGED vars
    BY Zenon, <1>25 DEF vars
  <1> QED
    BY Zenon, <1>1, <1>2, <1>3, <1>4, <1>5, <1>6, <1>7, <1>8, <1>9, <1>10, <1>11,
       <1>12, <1>13, <1>14, <1>15, <1>16, <1>17, <1>18, <1>19, <1>20, <1>21, <1>22,
       <1>23, <1>24, <1>25, <1>26, <1>27 DEF Next, Filtering, LoopStep

\* The sizes app.run starts with.
LEMMA ValuesInit == Init => ValuesType
  <1> SUFFICES ASSUME Init PROVE ValuesType
    OBVIOUS
  <1> PICK rows \in Heights, a \in Areas, v \in Lines :
        Init!(rows, a, v)
    BY DEF Init
  <1>1. bus \in Seq(Events) /\ Len(bus) = 0
    BY EmptySeq
  <1>2. region \in Nat
    BY GeometryType
  <1> QED
    BY <1>1, <1>2, GeometryType DEF ValuesType, NoBar, PCs

\* A redraw leaves a frame or nothing in the cache and on the screen.
LEMMA ValuesRedraw ==
    ASSUME ValuesType, Redraw
    PROVE  /\ lastBars' \in Frames \cup {NoFrame}
           /\ shown' \in Frames \cup {Erased, Lost}
  BY DEF ValuesType, Redraw, ScheduleRedraw, PaintAllowed, Frame, Frames

\* The margins ApplyScrollRegion sets are rows of a terminal.
LEMMA ValuesMargins ==
    ASSUME ValuesType, NEW a \in Areas, NEW r \in Heights, ApplyScrollRegion(a, r)
    PROVE  region' \in Nat /\ regionBy' \in {"ptyline", "child"}
  BY GeometryType DEF ValuesType, ApplyScrollRegion

\* What a reload does to the sizes and to the bar.
LEMMA ValuesReload ==
    ASSUME ValuesType, Reload
    PROVE  /\ content' \in Lines
           /\ lastBars' \in Frames \cup {NoFrame}
           /\ shown' \in Frames \cup {Erased, Lost}
           /\ barTop' \in Nat /\ barCount' \in Nat
           /\ area' \in Areas /\ fArea' \in Areas /\ supArea' \in Areas
           /\ ptyRows' \in Nat \ {0}
           /\ region' \in Nat /\ regionBy' \in {"ptyline", "child"}
  BY GeometryType DEF ValuesType, Reload, SetBarRows, ApplyScrollRegion, Wipe

\* No handler leaves a size, a queue or a geometry out of its range.
LEMMA ValuesStep == ValuesType /\ [Next]_vars => ValuesType'
  <1> SUFFICES ASSUME ValuesType, [Next]_vars PROVE ValuesType'
    OBVIOUS
  <1> USE DEF ValuesType, termVars, signalVars, pipeVars, filterVars, burstVars, sizeVars, writerVars
  <1>1. CASE WindowResize
    BY <1>1 DEF WindowResize, Wipe
  <1>2. CASE OtherSignal \/ TakeSignal
    BY <1>2 DEF OtherSignal, TakeSignal
  <1>26. CASE SendSize
    BY <1>26, QueueAppend DEF SendSize
  <1>3. CASE DebounceTake
    BY <1>3 DEF DebounceTake
  <1>4. CASE DebounceFire
    BY <1>4, QueueAppend DEF DebounceFire
  <1>5. CASE RateWindowEnds
    BY <1>5 DEF RateWindowEnds
  <1>6. CASE HandleResize
    <2>1. /\ Head(bus).rows \in Heights
          /\ Tail(bus) \in Seq(Events) /\ Len(Tail(bus)) <= BusCap
      BY <1>6, QueueReceive DEF HandleResize
    <2>2. ptyRows' \in Nat \ {0} /\ barTop' \in Nat /\ barCount' \in Nat
      BY <1>6, <2>1, GeometryType DEF HandleResize, SyncPty, SetBarRows
    <2>3. /\ lastBars' \in Frames \cup {NoFrame}
          /\ shown' \in Frames \cup {Erased, Lost}
      BY <1>6 DEF HandleResize, SetBarRows, Wipe
    <2>4. pre' \in [top : Nat, count : Nat]
      BY <1>6 DEF HandleResize, BarRows
    <2> QED
      BY <1>6, <2>1, <2>2, <2>3, <2>4 DEF HandleResize, SendToDebouncer
  <1>7. CASE HandleCommit
    <2>1. /\ Head(bus).rows \in Heights
          /\ Tail(bus) \in Seq(Events) /\ Len(Tail(bus)) <= BusCap
      BY <1>7, QueueReceive DEF HandleCommit, BurstOver
    <2>2. ptyRows' \in Nat \ {0} /\ barTop' \in Nat /\ barCount' \in Nat
      BY <1>7, <2>1, GeometryType DEF HandleCommit, BurstOver, SyncPty, SetBarRows
    <2>3. /\ lastBars' \in Frames \cup {NoFrame}
          /\ shown' \in Frames \cup {Erased, Lost}
      BY <1>7 DEF HandleCommit, BurstOver, SetBarRows, Wipe, AfterClear
    <2>4. region' \in Nat /\ regionBy' \in {"ptyline", "child"}
      <3>1. ApplyScrollRegion(area, Head(bus).rows) \/ ResetScrollRegion
        BY Zenon, <1>7 DEF HandleCommit, BurstOver
      <3>2. CASE ApplyScrollRegion(area, Head(bus).rows)
        BY <2>1, <3>2, ValuesMargins
      <3>3. CASE ResetScrollRegion
        BY <3>3 DEF ResetScrollRegion
      <3> QED
        BY <3>1, <3>2, <3>3
    <2>5. pre' \in [top : Nat, count : Nat]
      BY <1>7 DEF HandleCommit, BurstOver, NoBar
    <2> QED
      BY <1>7, <2>1, <2>2, <2>3, <2>4, <2>5 DEF HandleCommit, BurstOver, PCs
  <1>8. CASE BeginChunk
    BY <1>8 DEF BeginChunk, PCs
  <1>9. CASE FilterErase
    BY <1>9 DEF FilterErase
  <1>10. CASE FilterReset
    BY <1>10 DEF FilterReset
  <1>11. CASE FilterMargins
    BY <1>11, GeometryType DEF FilterMargins
  <1>12. CASE FilterAlt
    BY <1>12 DEF FilterAlt, PCs
  <1>13. CASE FilterEnd
    BY <1>13 DEF FilterEnd, PCs
  <1>14. CASE WritePlain
    BY <1>14 DEF WritePlain, PCs, Wipe
  <1>15. CASE WriteFramed
    BY <1>15 DEF WriteFramed, PCs, Wipe, Frame, Frames
  <1>16. CASE FlushNothing
    BY <1>16 DEF FlushNothing, PCs
  <1>17. CASE AltEnter
    BY <1>17 DEF AltEnter, PCs, ResetScrollRegion
  <1>18. CASE AltLeave
    <2>1. region' \in Nat /\ regionBy' \in {"ptyline", "child"} /\ ptyRows' \in Nat \ {0}
      BY <1>18, GeometryType DEF AltLeave, ApplyScrollRegion
    <2> QED
      BY <1>18, <2>1, ValuesRedraw DEF AltLeave, PCs
  <1>19. CASE Settle
    <2>1. region' \in Nat /\ regionBy' \in {"ptyline", "child"}
      <3>1. ApplyScrollRegion(area, stRows) \/ (region' = region /\ regionBy' = regionBy)
        BY Zenon, <1>19 DEF Settle
      <3> QED
        BY <3>1, ValuesMargins
    <2> QED
      BY <1>19, <2>1 DEF Settle, PCs
  <1>20. CASE ApplyMeta
    BY <1>20, ValuesReload DEF ApplyMeta, PCs
  <1>21. CASE RedrawStep
    BY <1>21, ValuesRedraw DEF RedrawStep, PCs
  <1>22. CASE HandleReload
    BY <1>22, ValuesReload DEF HandleReload, PCs
  <1>23. CASE HandleModule
    BY <1>23 DEF HandleModule, PCs
  <1>24. CASE HandleRedrawRequest
    BY <1>24 DEF HandleRedrawRequest, PCs
  <1>25. CASE UNCHANGED vars
    BY <1>25 DEF vars
  <1> QED
    BY Zenon, <1>1, <1>2, <1>3, <1>4, <1>5, <1>6, <1>7, <1>8, <1>9, <1>10, <1>11, <1>12, <1>13, <1>14, <1>15, <1>16, <1>17, <1>18, <1>19, <1>20, <1>21, <1>22, <1>23, <1>24, <1>25, <1>26 DEF Next, Filtering, LoopStep

\* Type correctness of the whole protocol.  Part of it: however the window is
\* resized, the bar reconfigured and the screen switched, the child PTY is never
\* given zero rows (ARCHITECTURE.md, invariant 1).
THEOREM TypeCorrect == Spec => []TypeOK
  <1>1. Init => TypeOK
    BY FlagsInit, ValuesInit DEF TypeOK
  <1>2. TypeOK /\ [Next]_vars => TypeOK'
    BY FlagsStep, ValuesStep DEF TypeOK
  <1> QED
    BY <1>1, <1>2, PTL DEF Spec
-------------------------------------------------------------------------------
(***************************************************************************)
(* The inductive invariant, one conjunct after the other.                  *)
(***************************************************************************)

\* Which steps move a size through the pipeline; all others leave it alone.
LEMMA PipelineSteps ==
    ASSUME [Next]_vars
    PROVE  \/ WindowResize \/ OtherSignal \/ TakeSignal \/ SendSize \/ DebounceTake \/ DebounceFire
           \/ HandleResize \/ HandleCommit
           \/ UNCHANGED <<winRows, signalVars, bus, debCh, debTimer, stRows, resizePending>>
  <1> USE DEF termVars, signalVars, pipeVars, filterVars, burstVars, sizeVars, writerVars
  <1>1. CASE UNCHANGED vars
    BY Zenon, <1>1 DEF vars
  <1>2. CASE RateWindowEnds \/ BeginChunk \/ FilterEnd
    BY Zenon, <1>2 DEF RateWindowEnds, BeginChunk, FilterEnd
  <1>3. CASE Filtering
    BY Zenon, <1>3 DEF Filtering, FilterErase, FilterReset, FilterMargins, FilterAlt
  <1>4. CASE LoopStep
    BY Zenon, <1>4 DEF LoopStep, WritePlain, WriteFramed, FlushNothing, AltEnter,
                       AltLeave, Settle, ApplyMeta, RedrawStep
  <1>5. CASE HandleReload \/ HandleModule \/ HandleRedrawRequest
    BY Zenon, <1>5 DEF HandleReload, HandleModule, HandleRedrawRequest
  <1> QED
    BY Zenon, <1>1, <1>2, <1>3, <1>4, <1>5 DEF Next

\* No step lets an old size overtake the newest one on its way to the loop.
LEMMA NewestSizeStep ==
    ASSUME ValuesType, NewestSizeInFlight, [Next]_vars
    PROVE  NewestSizeInFlight'
  <1> USE DEF NewestSizeInFlight, NoResizeQueued, IsResize, PipelineEmpty, SignalHandled
  <1>0. sig \in {"none", "WINCH"} \cup OtherSignals /\ hand \in Heights \cup {0} /\ bus \in Seq(Events) /\ winRows \in Heights /\ stRows \in Heights
        /\ debCh \in Heights \cup {0} /\ debTimer \in Heights \cup {0}
        /\ Len(bus) \in Nat
    BY LenProperties DEF ValuesType
  <1>1. CASE WindowResize
    BY <1>0, <1>1 DEF WindowResize
  <1>2. CASE OtherSignal
    <2>1. /\ sig # "WINCH" /\ missed' = missed
          /\ UNCHANGED <<winRows, hand, bus, debCh, debTimer, stRows>>
      BY <1>2 DEF OtherSignal, termVars, sizeVars
    <2> QED
      BY <2>1
  <1>8. CASE TakeSignal
    <2>1. UNCHANGED <<winRows, bus, debCh, debTimer, stRows>> /\ winRows # 0 /\ hand = 0
      BY <1>0, <1>8 DEF TakeSignal, termVars, sizeVars
    <2>2. CASE sig = "WINCH"
      <3>1. hand' = winRows'
        BY <1>8, <2>1, <2>2 DEF TakeSignal
      <3> QED
        BY <2>1, <3>1
    <2>3. CASE sig # "WINCH"
      <3>1. hand' = hand /\ (missed' <=> missed)
        BY <1>8, <2>1, <2>3 DEF TakeSignal
      <3> QED
        BY <2>1, <2>3, <3>1
    <2> QED
      BY <2>2, <2>3
  <1>9. CASE SendSize
    <2> DEFINE n == Len(bus) + 1
    <2>1. /\ bus' # <<>> /\ Len(bus') = n /\ n \in Nat
          /\ bus'[n] = ResizeEvent(hand) /\ winRows' = winRows
          /\ hand # 0 /\ hand' = 0 /\ sig' = sig /\ missed' = missed
      BY <1>0, <1>9, QueueAppend DEF SendSize, termVars
    <2>2. bus'[n].kind = "resize" /\ bus'[n].rows = hand
      BY <2>1 DEF ResizeEvent
    <2> QED
      BY <2>1, <2>2
  <1>3. CASE DebounceTake
    BY <1>0, <1>3 DEF DebounceTake, termVars, signalVars, sizeVars
  <1>4. CASE DebounceFire
    <2>1. /\ bus' # <<>> /\ Len(bus') = Len(bus) + 1
          /\ \A i \in 1..Len(bus) : bus'[i] = bus[i]
          /\ bus'[Len(bus) + 1] = CommitEvent(debTimer)
      BY <1>0, <1>4, QueueAppend DEF DebounceFire
    <2>2. bus'[Len(bus) + 1].kind = "commit" /\ bus'[Len(bus) + 1].rows = debTimer
      BY <2>1 DEF CommitEvent
    <2>3. /\ winRows' = winRows /\ UNCHANGED <<sig, hand, missed>>
          /\ debCh' = debCh /\ debTimer' = 0 /\ debTimer # 0
      BY <1>4 DEF DebounceFire, termVars, signalVars
    <2>4. CASE ~(SignalHandled /\ hand = 0)
      BY <2>3, <2>4
    <2> SUFFICES ASSUME SignalHandled, hand = 0 PROVE NewestSizeInFlight'
      BY <2>4
    <2>5. CASE NoResizeQueued
      <3>1. NoResizeQueued' /\ bus'[Len(bus')].rows = debTimer
        BY <1>0, <2>1, <2>2, <2>5
      <3>2. /\ debCh # 0 => debCh = winRows
            /\ debCh = 0 => debTimer = winRows
        BY <2>3, <2>5
      <3> HIDE DEF NoResizeQueued
      <3> QED
        BY <2>1, <2>3, <3>1, <3>2
    <2>6. CASE ~NoResizeQueued
      <3>1. PICK i \in 1..Len(bus) : /\ bus[i].kind = "resize" /\ bus[i].rows = winRows
                                    /\ \A j \in i+1..Len(bus) : bus[j].kind # "resize"
        BY <2>6
      <3>2. /\ i \in 1..Len(bus') /\ bus'[i] = bus[i]
            /\ \A j \in i+1..Len(bus') : bus'[j].kind # "resize"
        BY <1>0, <2>1, <2>2, <3>1
      <3> QED
        BY <2>1, <2>3, <3>1, <3>2
    <2> QED
      BY <2>5, <2>6
  <1>5. CASE HandleResize
    <2>1. /\ bus # <<>> /\ Head(bus).kind = "resize" /\ bus' = Tail(bus)
          /\ debCh' = Head(bus).rows
          /\ winRows' = winRows /\ UNCHANGED <<sig, hand, missed>> /\ debTimer' = debTimer
      BY <1>5 DEF HandleResize, SendToDebouncer, signalVars
    <2>2. /\ Head(bus) = bus[1] /\ Head(bus).rows \in Heights
          /\ Len(bus') = Len(bus) - 1 /\ Len(bus) \in Nat \ {0}
          /\ \A i \in 1..Len(bus') : bus'[i] = bus[i + 1]
      BY <1>0, <2>1, QueueReceive
    <2>0. CASE ~(SignalHandled /\ hand = 0)
      BY <2>0, <2>1
    <2> SUFFICES ASSUME SignalHandled, hand = 0 PROVE NewestSizeInFlight'
      BY <2>0
    <2>3. PICK i \in 1..Len(bus) : /\ bus[i].kind = "resize" /\ bus[i].rows = winRows
                                  /\ \A j \in i+1..Len(bus) : bus[j].kind # "resize"
      BY <2>1, <2>2
    <2>4. debCh' # 0
      BY <2>1, <2>2
    <2>5. CASE i = 1
      <3>1. \A j \in 1..Len(bus') : bus'[j].kind # "resize"
        BY <2>2, <2>3, <2>5
      <3>2. debCh' = winRows'
        BY <2>1, <2>2, <2>3, <2>5
      <3>3. hand' = 0 /\ debCh' # 0 /\ NoResizeQueued'
        BY <2>1, <2>4, <3>1
      <3> HIDE DEF NoResizeQueued
      <3> QED
        BY <3>2, <3>3
    <2>6. CASE i # 1
      <3>1. i - 1 \in 1..Len(bus') /\ (i - 1) + 1 = i
        BY <2>2, <2>6
      <3>2. bus'[i - 1] = bus[i]
        BY <2>2, <3>1
      <3>3. \A j \in (i-1)+1..Len(bus') : bus'[j].kind # "resize"
        BY <2>2, <2>3, <3>1
      <3> QED
        BY <2>1, <2>3, <2>4, <3>1, <3>2, <3>3
    <2> QED
      BY <2>5, <2>6
  <1>6. CASE HandleCommit
    <2>1. /\ bus # <<>> /\ Head(bus).kind = "commit" /\ bus' = Tail(bus)
          /\ stRows' = Head(bus).rows
          /\ winRows' = winRows /\ UNCHANGED <<sig, hand, missed>>
          /\ debTimer' = debTimer /\ debCh' = debCh
      BY <1>6 DEF HandleCommit, BurstOver, signalVars
    <2>2. /\ Head(bus) = bus[1]
          /\ Len(bus') = Len(bus) - 1 /\ Len(bus) \in Nat \ {0}
          /\ \A i \in 1..Len(bus') : bus'[i] = bus[i + 1]
      BY <1>0, <2>1, QueueReceive
    <2>3. bus' = <<>> <=> Len(bus) = 1
      BY <1>0, <2>1, <2>2, QueueReceive, EmptySeq
    <2>0. CASE ~(SignalHandled /\ hand = 0)
      BY <2>0, <2>1
    <2> SUFFICES ASSUME SignalHandled, hand = 0 PROVE NewestSizeInFlight'
      BY <2>0
    <2>4. CASE NoResizeQueued
      <3>1. NoResizeQueued'
        BY <2>2, <2>4
      <3>2. debTimer' = 0 /\ debCh' = 0 => bus[Len(bus)].rows = winRows
        BY <2>1, <2>4
      <3>3. bus' # <<>> => bus'[Len(bus')] = bus[Len(bus)]
        BY <2>2, <2>3
      <3>4. bus' = <<>> => stRows' = bus[Len(bus)].rows
        BY <2>1, <2>2, <2>3
      <3>5. debCh # 0 => debCh = winRows
        BY <2>1, <2>4
      <3>6. debCh = 0 /\ debTimer # 0 => debTimer = winRows
        BY <2>1, <2>4
      <3> HIDE DEF NoResizeQueued
      <3> QED
        BY <2>1, <3>1, <3>2, <3>3, <3>4, <3>5, <3>6
    <2>5. CASE ~NoResizeQueued
      <3>1. PICK i \in 1..Len(bus) : /\ bus[i].kind = "resize" /\ bus[i].rows = winRows
                                    /\ \A j \in i+1..Len(bus) : bus[j].kind # "resize"
        BY <2>1, <2>5
      <3>2. /\ i - 1 \in 1..Len(bus') /\ bus'[i - 1] = bus[i]
            /\ \A j \in (i-1)+1..Len(bus') : bus'[j].kind # "resize"
        BY <2>1, <2>2, <3>1
      <3>3. bus' # <<>>
        BY <2>2, <2>3, <3>2
      <3> QED
        BY <2>1, <3>1, <3>2, <3>3
    <2> QED
      BY <2>4, <2>5
  <1>7. CASE UNCHANGED <<winRows, signalVars, bus, debCh, debTimer, stRows, resizePending>>
    BY <1>7 DEF signalVars
  <1> QED
    BY <1>1, <1>2, <1>3, <1>4, <1>5, <1>6, <1>7, <1>8, <1>9, PipelineSteps

\* The commit that ends a burst cannot get lost.
LEMMA BurstStep ==
    ASSUME ValuesType, BurstIsCommitted, [Next]_vars
    PROVE  BurstIsCommitted'
  <1> USE DEF BurstIsCommitted
  <1>0. bus \in Seq(Events) /\ debCh \in Heights \cup {0} /\ debTimer \in Heights \cup {0}
        /\ Len(bus) \in Nat /\ winRows \in Heights
    BY LenProperties DEF ValuesType
  <1>1. CASE WindowResize
    BY <1>1 DEF WindowResize, burstVars
  <1>2. CASE OtherSignal \/ TakeSignal
    BY <1>2 DEF OtherSignal, TakeSignal, burstVars
  <1>8. CASE SendSize
    BY <1>0, <1>8, QueueAppend DEF SendSize, burstVars
  <1>3. CASE DebounceTake
    BY <1>3 DEF DebounceTake
  <1>4. CASE DebounceFire
    <2>1. /\ Len(bus') = Len(bus) + 1
          /\ bus'[Len(bus) + 1] = CommitEvent(debTimer)
      BY <1>0, <1>4, QueueAppend DEF DebounceFire
    <2> QED
      BY <1>0, <2>1 DEF CommitEvent
  <1>5. CASE HandleResize
    BY <1>0, <1>5, QueueReceive DEF HandleResize, SendToDebouncer
  <1>6. CASE HandleCommit
    BY <1>6 DEF HandleCommit, BurstOver
  <1>7. CASE UNCHANGED <<winRows, signalVars, bus, debCh, debTimer, stRows, resizePending>>
    BY <1>7
  <1> QED
    BY <1>1, <1>2, <1>3, <1>4, <1>5, <1>6, <1>7, <1>8, PipelineSteps

\* The steps that touch nothing of the layout.
LEMMA LayoutSteps ==
    ASSUME \/ RateWindowEnds \/ BeginChunk \/ FilterErase \/ FilterReset \/ FilterEnd
           \/ WritePlain \/ WriteFramed \/ FlushNothing \/ RedrawStep
           \/ HandleModule \/ HandleRedrawRequest \/ UNCHANGED vars
    PROVE  /\ UNCHANGED <<signalVars, bus, debCh, debTimer, pending, alt, altTainted, resizePending>>
           /\ UNCHANGED <<area, fArea, supArea, fRows, stRows, ptyRows, barTop, barCount>>
           /\ UNCHANGED <<region, regionBy>>
  BY Zenon DEF RateWindowEnds, BeginChunk, FilterErase, FilterReset, FilterEnd, WritePlain,
     WriteFramed, FlushNothing, RedrawStep, HandleModule, HandleRedrawRequest,
     vars, termVars, signalVars, pipeVars, filterVars, burstVars, sizeVars, writerVars

\* The user and the other goroutines touch only the terminal, the pipeline and
\* the rate window.
LEMMA EnvironmentSteps ==
    ASSUME WindowResize \/ OtherSignal \/ TakeSignal \/ SendSize \/ DebounceTake \/ DebounceFire
    PROVE  /\ UNCHANGED <<pc, pending, alt, altTainted, resizePending>>
           /\ UNCHANGED <<area, fArea, supArea, fRows, stRows, ptyRows, barTop, barCount>>
           /\ UNCHANGED regionBy
  <1> USE DEF termVars, filterVars, burstVars, sizeVars, writerVars
  <1>1. CASE WindowResize
    BY Zenon, <1>1 DEF WindowResize
  <1>2. CASE OtherSignal \/ TakeSignal \/ SendSize
    BY Zenon, <1>2 DEF OtherSignal, TakeSignal, SendSize
  <1>3. CASE DebounceTake
    BY Zenon, <1>3 DEF DebounceTake
  <1>4. CASE DebounceFire
    BY Zenon, <1>4 DEF DebounceFire
  <1> QED
    BY <1>1, <1>2, <1>3, <1>4

\* A screen switch the filter saw is applied before the loop is idle again.
LEMMA TransitionStep ==
    ASSUME FlagsType, TransitionIsApplied, [Next]_vars
    PROVE  TransitionIsApplied'
  <1> USE DEF TransitionIsApplied, termVars, signalVars, pipeVars, filterVars, burstVars, sizeVars, writerVars
  <1>1. CASE HandleResize \/ HandleCommit \/ HandleReload \/ HandleModule \/ HandleRedrawRequest
    BY Zenon, <1>1 DEF HandleResize, HandleCommit, BurstOver, HandleReload, HandleModule, HandleRedrawRequest
  <1>2. CASE BeginChunk \/ FilterErase \/ FilterReset \/ FilterMargins \/ FilterEnd
    BY Zenon, <1>2 DEF BeginChunk, FilterErase, FilterReset, FilterMargins, FilterEnd
  <1>3. CASE FilterAlt
    <2>1. alt \in BOOLEAN
      BY Zenon DEF FlagsType
    <2> QED
      BY Zenon, <1>3, <2>1 DEF FilterAlt
  <1>4. CASE WritePlain \/ WriteFramed
    <2>1. pc' = "flush" /\ pending' = pending /\ alt' = alt
      BY Zenon, <1>4 DEF WritePlain, WriteFramed
    <2> QED
      BY <2>1
  <1>5. CASE FlushNothing \/ AltEnter \/ AltLeave
    <2>1. pending' = "none"
      BY Zenon, <1>5 DEF FlushNothing, AltEnter, AltLeave
    <2> QED
      BY <2>1
  <1>6. CASE Settle \/ ApplyMeta \/ RedrawStep
    <2>1. pc \in {"settle", "meta", "redraw"} /\ pending' = pending /\ alt' = alt
      BY Zenon, <1>6 DEF Settle, ApplyMeta, RedrawStep
    <2> QED
      BY <2>1
  <1>7. CASE WindowResize \/ OtherSignal \/ TakeSignal \/ SendSize \/ DebounceTake \/ DebounceFire
    BY <1>7, EnvironmentSteps
  <1>8. CASE RateWindowEnds \/ UNCHANGED vars
    <2>1. pc' = pc /\ pending' = pending /\ alt' = alt
      BY Zenon, <1>8 DEF RateWindowEnds, vars
    <2> QED
      BY <2>1
  <1> QED
    BY Zenon, <1>1, <1>2, <1>3, <1>4, <1>5, <1>6, <1>7, <1>8 DEF Next, Filtering, LoopStep

\* What a reload does to the layout: nothing, or everything for another bar.
LEMMA ReloadLayout ==
    ASSUME Reload, area \in Areas
    PROVE  \/ UNCHANGED <<area, fArea, supArea, ptyRows, barTop, barCount, region, regionBy, altTainted>>
           \/ \E a \in Areas :
                 /\ area' = a /\ fArea' = a /\ supArea' = a
                 /\ barTop' = Geometry(a, stRows, a).top
                 /\ barCount' = Geometry(a, stRows, a).count
                 /\ ptyRows' = ChildRows(a, stRows)
                 /\ ApplyScrollRegion(a, stRows)
                 /\ alt => altTainted'
  BY Zenon DEF Reload, SetBarRows

\* Outside a burst every handler leaves child and bar laid out for one height.
LEMMA LaidOutStep ==
    ASSUME ValuesType, TransitionIsApplied, LaidOut, [Next]_vars
    PROVE  LaidOut'
  <1> USE DEF LaidOut, termVars, signalVars, pipeVars, filterVars, burstVars, sizeVars, writerVars
  <1>1. CASE WindowResize \/ OtherSignal \/ TakeSignal \/ SendSize \/ DebounceTake \/ DebounceFire
    BY <1>1, EnvironmentSteps
  <1>2. CASE HandleResize
    BY <1>2 DEF HandleResize
  <1>3. CASE HandleCommit
    BY <1>3 DEF HandleCommit, BurstOver, SyncPty, SetBarRows, TransitionIsApplied
  <1>4. CASE FilterMargins
    BY <1>4 DEF FilterMargins
  <1>5. CASE FilterAlt
    BY <1>5 DEF FilterAlt
  <1>6. CASE AltEnter
    BY <1>6 DEF AltEnter, TransitionIsApplied
  <1>7. CASE AltLeave
    BY <1>7 DEF AltLeave, TransitionIsApplied
  <1>8. CASE Settle
    BY <1>8 DEF Settle
  <1>9. CASE ApplyMeta \/ HandleReload
    <2>1. UNCHANGED <<pending, alt, resizePending, fRows, stRows>> /\ Reload
      BY Zenon, <1>9 DEF ApplyMeta, HandleReload
    <2>2. area \in Areas
      BY DEF ValuesType
    <2> QED
      BY <2>1, <2>2, ReloadLayout
  <1>10. CASE \/ RateWindowEnds \/ BeginChunk \/ FilterErase \/ FilterReset \/ FilterEnd
              \/ WritePlain \/ WriteFramed \/ FlushNothing \/ RedrawStep
              \/ HandleModule \/ HandleRedrawRequest \/ UNCHANGED vars
    BY <1>10, LayoutSteps
  <1> QED
    BY Zenon, <1>1, <1>2, <1>3, <1>4, <1>5, <1>6, <1>7, <1>8, <1>9, <1>10
       DEF Next, Filtering, LoopStep

\* Every handler that changes the height, the bar or the screen sets the margins.
LEMMA MarginsStep ==
    ASSUME ValuesType, TransitionIsApplied, LaidOut, BurstIsCommitted, MarginsSet, [Next]_vars
    PROVE  MarginsSet'
  <1> USE DEF MarginsSet, PipelineEmpty, SignalHandled, termVars, signalVars, pipeVars, filterVars, burstVars, sizeVars, writerVars
  <1>1. CASE WindowResize
    <2>1. sig' = "WINCH" \/ missed'
      BY <1>1 DEF WindowResize, ValuesType
    <2> QED
      BY <1>1, <2>1 DEF WindowResize
  <1>2. CASE SendSize \/ DebounceFire
    <2>1. bus' # <<>>
      BY <1>2, QueueAppend DEF SendSize, DebounceFire, ValuesType
    <2> QED
      BY <1>2, <2>1 DEF SendSize, DebounceFire
  <1>13. CASE OtherSignal
    BY <1>13 DEF OtherSignal
  <1>14. CASE TakeSignal
    <2>1. winRows # 0
      BY DEF ValuesType
    <2> QED
      BY <1>14, <2>1 DEF TakeSignal
  <1>3. CASE DebounceTake
    BY <1>3 DEF DebounceTake
  <1>4. CASE HandleResize
    <2>1. debCh' # 0
      BY <1>4, QueueReceive DEF HandleResize, SendToDebouncer, ValuesType
    <2> QED
      BY <1>4, <2>1 DEF HandleResize
  <1>5. CASE HandleCommit
    <2>1. /\ area' = area /\ area \in Areas /\ alt' = alt /\ stRows' \in Heights
          /\ stRows' = Head(bus).rows
      BY <1>5, QueueReceive DEF HandleCommit, BurstOver, ValuesType
    <2>2. IF alt THEN ResetScrollRegion ELSE ApplyScrollRegion(area, stRows')
      BY Zenon, <1>5 DEF HandleCommit, BurstOver
    <2>3. CASE alt
      BY <2>1, <2>2, <2>3 DEF ResetScrollRegion
    <2>4. CASE ~alt
      BY <2>1, <2>2, <2>4, GeometryType DEF ApplyScrollRegion
    <2> QED
      BY <2>3, <2>4
  <1>6. CASE FilterMargins
    BY <1>6 DEF FilterMargins, LaidOut, BurstIsCommitted
  <1>7. CASE FilterAlt
    BY <1>7 DEF FilterAlt
  <1>8. CASE AltEnter
    BY <1>8 DEF AltEnter, TransitionIsApplied, ResetScrollRegion
  <1>9. CASE AltLeave
    <2>1. /\ area' = area /\ area \in Areas /\ stRows' = stRows /\ stRows \in Heights
          /\ ~alt' /\ ApplyScrollRegion(area, stRows)
      BY <1>9 DEF AltLeave, TransitionIsApplied, ValuesType
    <2> QED
      BY <2>1, GeometryType DEF ApplyScrollRegion
  <1>10. CASE Settle
    <2>1. /\ UNCHANGED <<pending, alt, signalVars, bus, debCh, debTimer, area, stRows>>
          /\ area \in Areas /\ stRows \in Heights
      BY <1>10 DEF Settle, ValuesType
    <2>2. \/ UNCHANGED <<region, regionBy, altTainted>>
          \/ ApplyScrollRegion(area, stRows) /\ (alt => altTainted')
      BY Zenon, <1>10 DEF Settle
    <2>3. CASE UNCHANGED <<region, regionBy, altTainted>>
      BY <2>1, <2>3
    <2>4. CASE ApplyScrollRegion(area, stRows) /\ (alt => altTainted')
      BY <2>1, <2>4, GeometryType DEF ApplyScrollRegion
    <2> QED
      BY <2>2, <2>3, <2>4
  <1>11. CASE ApplyMeta \/ HandleReload
    <2>1. UNCHANGED <<pending, alt, signalVars, bus, debCh, debTimer, stRows>> /\ Reload
      BY Zenon, <1>11 DEF ApplyMeta, HandleReload
    <2>2. area \in Areas /\ stRows \in Heights
      BY DEF ValuesType
    <2>3. CASE UNCHANGED <<area, region, regionBy, altTainted>>
      BY <2>1, <2>3
    <2>4. ASSUME NEW a \in Areas, area' = a, ApplyScrollRegion(a, stRows), alt => altTainted'
          PROVE  MarginsSet'
      BY <2>1, <2>2, <2>4, GeometryType DEF ApplyScrollRegion
    <2> QED
      BY <2>1, <2>2, <2>3, <2>4, ReloadLayout
  <1>12. CASE \/ RateWindowEnds \/ BeginChunk \/ FilterErase \/ FilterReset \/ FilterEnd
              \/ WritePlain \/ WriteFramed \/ FlushNothing \/ RedrawStep
              \/ HandleModule \/ HandleRedrawRequest \/ UNCHANGED vars
    BY <1>12, LayoutSteps
  <1> QED
    BY Zenon, <1>1, <1>2, <1>3, <1>4, <1>5, <1>6, <1>7, <1>8, <1>9, <1>10, <1>11, <1>12, <1>13, <1>14
       DEF Next, Filtering, LoopStep

\* app.run lays out the screen before it starts the loop.
LEMMA InvariantInit == Init => IInv
  <1> SUFFICES ASSUME Init PROVE IInv
    OBVIOUS
  <1> PICK rows \in Heights, a \in Areas, v \in Lines : Init!(rows, a, v)
    BY DEF Init
  <1>1. NewestSizeInFlight /\ BurstIsCommitted
    BY EmptySeq DEF NewestSizeInFlight, NoResizeQueued, SignalHandled, PipelineEmpty, BurstIsCommitted
  <1>2. TransitionIsApplied /\ LaidOut
    BY DEF TransitionIsApplied, LaidOut
  <1>3. MarginsSet
    BY GeometryType DEF MarginsSet
  <1> QED
    BY <1>1, <1>2, <1>3 DEF IInv

\* The inductive invariant: sizes reach the loop in order (event.Bus and
\* ResizeDebouncer), a burst ends with a commit, a screen switch is applied in
\* the pass that saw it, and the handlers keep child, bar and margins in step.
THEOREM Invariant == Spec => []IInv
  <1>1. TypeOK /\ IInv /\ [Next]_vars => IInv'
    BY NewestSizeStep, BurstStep, TransitionStep, LaidOutStep, MarginsStep DEF TypeOK, IInv
  <1> QED
    BY <1>1, InvariantInit, TypeCorrect, PTL DEF Spec

\* Whatever happened before, when the loop is idle and no resize is on its way,
\* the child's height, the bar and the margins fit the window as it is
\* (ARCHITECTURE.md, invariants 1 and 2, normal screen).
THEOREM NormalScreenIsLaidOut == Spec => []SettledNormal
  <1>1. TypeOK /\ IInv => SettledNormal
    BY DEF TypeOK, IInv, SettledNormal, Settled, PipelineEmpty, NewestSizeInFlight,
           BurstIsCommitted, TransitionIsApplied, LaidOut, MarginsSet, Geometry
  <1> QED
    BY <1>1, TypeCorrect, Invariant, PTL

\* The same for the alternate screen: the child has every row and ptyline's
\* margins are gone, unless a reload or a scroll reset was handled there.
THEOREM AlternateScreenIsTheChilds == Spec => []SettledAlt
  <1>1. TypeOK /\ IInv => SettledAlt
    BY DEF TypeOK, IInv, SettledAlt, Settled, PipelineEmpty, NewestSizeInFlight,
           BurstIsCommitted, TransitionIsApplied, LaidOut, MarginsSet
  <1> QED
    BY <1>1, TypeCorrect, Invariant, PTL

\* Both screens: with no resize under way, child, bar and margins fit the window.
THEOREM ScreenAlwaysFits == Spec => []ScreenFitsWindow
  BY NormalScreenIsLaidOut, AlternateScreenIsTheChilds, PTL DEF ScreenFitsWindow

\* No step paints a frame on the alternate screen, where the child owns every
\* row (ARCHITECTURE.md, invariant 2: "bar hidden").
THEOREM AlternateScreenIsNeverPainted == Spec => NoFrameOnAlt
  <1> DEFINE Paints == shown' # shown /\ shown' \in Frames
  <1>0. Erased \notin Frames /\ Lost \notin Frames
    BY DEF Erased, Lost, Frames
  <1>1. ASSUME [Next]_vars, Paints PROVE ~alt
    <2> USE DEF termVars
    <2>1. CASE WindowResize
      BY <1>0, <1>1, <2>1 DEF WindowResize, Wipe
    <2>2. CASE HandleResize
      BY <1>0, <1>1, <2>2 DEF HandleResize, SetBarRows, Wipe
    <2>3. CASE HandleCommit
      BY <1>0, <1>1, <2>3 DEF HandleCommit, BurstOver, SetBarRows, AfterClear, Wipe
    <2>4. CASE WritePlain \/ WriteFramed
      BY <1>0, <1>1, <2>4 DEF WritePlain, WriteFramed, Wipe, PaintAllowed
    <2>5. CASE AltLeave \/ RedrawStep
      BY <1>1, <2>5 DEF AltLeave, RedrawStep, Redraw, PaintAllowed
    <2>6. CASE ApplyMeta \/ HandleReload
      BY <1>0, <1>1, <2>6 DEF ApplyMeta, HandleReload, Reload, SetBarRows, Wipe
    <2>7. CASE \/ OtherSignal \/ TakeSignal \/ SendSize \/ DebounceTake \/ DebounceFire \/ RateWindowEnds
               \/ BeginChunk \/ Filtering \/ FilterEnd \/ FlushNothing \/ AltEnter \/ Settle
               \/ HandleModule \/ HandleRedrawRequest \/ UNCHANGED vars
      <3>1. shown' = shown
        BY Zenon, <2>7 DEF OtherSignal, TakeSignal, SendSize, DebounceTake, DebounceFire, RateWindowEnds,
           BeginChunk, Filtering, FilterErase, FilterReset, FilterMargins, FilterAlt,
           FilterEnd, FlushNothing, AltEnter, Settle, HandleModule, HandleRedrawRequest, vars
      <3> QED
        BY <1>1, <3>1
    <2> QED
      BY Zenon, <1>1, <2>1, <2>2, <2>3, <2>4, <2>5, <2>6, <2>7 DEF Next, LoopStep
  <1> QED
    BY <1>1, PTL DEF Spec, NoFrameOnAlt
-------------------------------------------------------------------------------
(***************************************************************************)
(* What the repaint cache claims.                                          *)
(***************************************************************************)

\* A geometry tells the height it was made for, and, if that has room for every
\* bar, also the bar.
LEMMA GeometryTells ==
    ASSUME NEW a \in Areas, NEW r \in Heights
    PROVE  /\ Geometry(a, r, a).top + Geometry(a, r, a).count - 1 = r
           /\ RoomAt(r) => Geometry(a, r, a).count = a /\ Geometry(a, r, a).top # 0
  BY DEF Geometry, BarTopRow, BarCount, ChildRows, RoomAt

\* SetBarRows keeps the cache only where the bar stays what it was.
LEMMA SetBarRowsKeeps ==
    ASSUME area \in Areas, BarLaidOut, NEW a \in Areas, NEW r \in Heights,
           NEW bars, NEW s, SetBarRows(Geometry(a, r, a), bars, s)
    PROVE  /\ barTop' = Geometry(a, r, a).top /\ barCount' = Geometry(a, r, a).count
           /\ LaidFor' = r
           /\ \/ lastBars' = NoFrame
              \/ /\ barTop' = barTop /\ barCount' = barCount
                 /\ LaidFor = r /\ (RoomAt(r) => a = area)
                 /\ lastBars' = bars /\ shown' = s
  <1>1. barTop' = Geometry(a, r, a).top /\ barCount' = Geometry(a, r, a).count
    BY DEF SetBarRows
  <1>2. LaidFor' = r
    BY <1>1, GeometryTells DEF LaidFor
  <1>3. PICK h \in Heights : BarRows = Geometry(area, h, area)
    BY DEF BarLaidOut
  <1>4. barTop = Geometry(area, h, area).top /\ barCount = Geometry(area, h, area).count
    BY <1>3 DEF BarRows
  <1>5. CASE Geometry(a, r, a).top = barTop /\ Geometry(a, r, a).count = barCount
    <2>1. barTop + barCount - 1 = h /\ barTop + barCount - 1 = r
      BY <1>4, <1>5, GeometryTells
    <2>2. RoomAt(r) => a = area
      BY <1>4, <1>5, <2>1, GeometryTells
    <2>3. lastBars' = bars /\ shown' = s
      BY <1>5 DEF SetBarRows
    <2> QED
      BY <1>1, <1>2, <1>5, <2>1, <2>2, <2>3 DEF LaidFor
  <1>6. CASE ~(Geometry(a, r, a).top = barTop /\ Geometry(a, r, a).count = barCount)
    BY <1>1, <1>2, <1>6, Zenon DEF SetBarRows
  <1> QED
    BY <1>5, <1>6

\* The steps that leave bar, cache and screen alone, but for what a resize of
\* the window damages.
LEMMA CacheLeftAlone ==
    ASSUME CacheInv, UNCHANGED <<barTop, barCount, area, lastBars, alt, stRows>>,
           shown' \in {shown, Wipe(shown, Lost)}, WillForget => WillForget',
           pending = "enter" => pending' = "enter"
    PROVE  CacheInv'
  <1>1. BarLaidOut'
    BY DEF CacheInv, BarLaidOut, BarRows
  <1>2. CachedWasPainted'
    BY DEF CacheInv, CachedWasPainted, BarHere
  <1>3. CacheMatches'
    BY DEF CacheInv, CacheMatches, RoomAt, LaidFor, Wipe
  <1> QED
    BY <1>1, <1>2, <1>3 DEF CacheInv

\* A redraw caches what it paints, and paints nothing only over the same frame.
LEMMA CacheRedraw ==
    ASSUME ValuesType, CacheInv, Redraw, UNCHANGED <<barTop, barCount, area, alt, stRows>>,
           WillForget => WillForget', pending = "enter" => pending' = "enter"
    PROVE  CacheInv'
  <1>1. CASE UNCHANGED <<lastBars, shown>>
    BY <1>1, CacheLeftAlone
  <1>2. CASE /\ ~alt /\ BarHere /\ lastBars' = Frame
             /\ shown' = IF lastBars = Frame THEN shown ELSE Frame
    <2>1. BarLaidOut'
      BY DEF CacheInv, BarLaidOut, BarRows
    <2>2. CachedWasPainted'
      BY <1>2 DEF CachedWasPainted, BarHere
    <2>3. CacheMatches'
      BY <1>2 DEF CacheInv, CacheMatches, RoomAt, LaidFor
    <2> QED
      BY <2>1, <2>2, <2>3 DEF CacheInv
  <1> QED
    BY <1>1, <1>2, Zenon DEF Redraw, PaintAllowed

\* What the two handlers of a resize do to the cache.
LEMMA CacheResized ==
    ASSUME ValuesType, CacheInv, ~WillForget, NEW r \in Heights,
           NEW bars \in {NoFrame, lastBars}, NEW s \in {shown, Wipe(shown, Lost)},
           SetBarRows(Geometry(area, r, area), bars, s), stRows' \in {stRows, r},
           UNCHANGED <<area, alt>>, pending = "enter" => pending' = "enter"
    PROVE  CacheInv'
  <1>1. /\ area \in Areas
        /\ barTop' = Geometry(area, r, area).top /\ barCount' = Geometry(area, r, area).count
        /\ LaidFor' = r
        /\ \/ lastBars' = NoFrame
           \/ /\ barTop' = barTop /\ barCount' = barCount
              /\ LaidFor = r /\ lastBars' = lastBars /\ shown' = s
    BY SetBarRowsKeeps DEF CacheInv, ValuesType
  <1>2. BarLaidOut'
    BY <1>1 DEF BarLaidOut, BarRows, Geometry
  <1>3. CachedWasPainted'
    BY <1>1 DEF CacheInv, CachedWasPainted, BarHere
  <1>4. CacheMatches'
    BY <1>1 DEF CacheInv, CacheMatches, RoomAt, Wipe
  <1> QED
    BY <1>2, <1>3, <1>4 DEF CacheInv

\* A reload with another bar forgets the cache, if there is room for every bar;
\* any other reload leaves it alone.
LEMMA CacheReload ==
    ASSUME ValuesType, CacheInv, Reload, ~WillForget, UNCHANGED <<pending, alt, stRows>>
    PROVE  CacheInv'
  <1>1. CASE UNCHANGED <<lastBars, shown, barTop, barCount, area>>
    BY <1>1, CacheLeftAlone
  <1>2. ASSUME NEW a \in Areas \ {area}, NEW s, area' = a,
               SetBarRows(Geometry(a, stRows, a), lastBars, s)
        PROVE  CacheInv'
    <2>1. /\ area \in Areas /\ stRows \in Heights
          /\ barTop' = Geometry(a, stRows, a).top /\ barCount' = Geometry(a, stRows, a).count
          /\ LaidFor' = stRows
          /\ \/ lastBars' = NoFrame
             \/ /\ barTop' = barTop /\ barCount' = barCount
                /\ lastBars' = lastBars /\ ~RoomAt(stRows)
      BY <1>2, SetBarRowsKeeps DEF CacheInv, ValuesType
    <2>2. BarLaidOut'
      BY <1>2, <2>1 DEF BarLaidOut, BarRows, Geometry
    <2>3. CachedWasPainted'
      BY <2>1 DEF CacheInv, CachedWasPainted, BarHere
    <2>4. CacheMatches'
      BY <2>1 DEF CacheMatches, RoomAt
    <2> QED
      BY <2>2, <2>3, <2>4 DEF CacheInv
  <1> QED
    BY <1>1, <1>2, Zenon DEF Reload

\* Every handler that wipes or moves the bar forgets the cache before the loop
\* looks at it again.
LEMMA CacheStep ==
    ASSUME ValuesType, TransitionIsApplied, CacheInv, [Next]_vars
    PROVE  CacheInv'
  <1> USE DEF termVars, signalVars, pipeVars, filterVars, burstVars, sizeVars, writerVars
  <1>1. CASE \/ WindowResize \/ OtherSignal \/ TakeSignal \/ SendSize \/ DebounceTake \/ DebounceFire
             \/ RateWindowEnds \/ BeginChunk \/ FilterErase \/ FilterReset
             \/ FilterMargins \/ FilterEnd \/ FlushNothing
             \/ HandleModule \/ HandleRedrawRequest \/ UNCHANGED vars
    <2>1. /\ UNCHANGED <<barTop, barCount, area, lastBars, alt, stRows, pending>>
          /\ shown' \in {shown, Wipe(shown, Lost)}
      BY <1>1 DEF WindowResize, OtherSignal, TakeSignal, SendSize, DebounceTake, DebounceFire, RateWindowEnds,
         BeginChunk, FilterErase, FilterReset, FilterMargins, FilterEnd, FlushNothing,
         HandleModule, HandleRedrawRequest, vars
    <2>2. WillForget => WillForget'
      BY <1>1 DEF WindowResize, OtherSignal, TakeSignal, SendSize, DebounceTake, DebounceFire, RateWindowEnds,
         BeginChunk, FilterErase, FilterReset, FilterMargins, FilterEnd, FlushNothing,
         HandleModule, HandleRedrawRequest, vars, WillForget
    <2> QED
      BY <2>1, <2>2, CacheLeftAlone
  <1>2. CASE FilterAlt
    <2>1. /\ UNCHANGED <<barTop, barCount, area, lastBars, shown, stRows, clobbered>>
          /\ pc = "filter" /\ pc' = "write" /\ pending = "none"
          /\ alt' = ~alt /\ pending' = IF alt THEN "leave" ELSE "enter"
      BY <1>2 DEF FilterAlt, TransitionIsApplied
    <2> QED
      BY <2>1 DEF CacheInv, BarLaidOut, BarRows, CachedWasPainted, BarHere, CacheMatches,
                  WillForget, RoomAt, LaidFor
  <1>3. CASE WritePlain
    <2>1. /\ UNCHANGED <<barTop, barCount, area, lastBars, alt, stRows, clobbered, pending>>
          /\ pc = "write" /\ pc' = "flush"
          /\ clobbered \/ shown' = shown
      BY <1>3 DEF WritePlain
    <2>2. CASE shown' = shown
      BY <2>1, <2>2, CacheLeftAlone DEF WillForget
    <2>3. CASE clobbered
      BY <2>1, <2>3 DEF CacheInv, BarLaidOut, BarRows, CachedWasPainted, BarHere,
                        CacheMatches, WillForget
    <2> QED
      BY <2>1, <2>2, <2>3
  <1>4. CASE WriteFramed
    <2>1. /\ UNCHANGED <<barTop, barCount, area, alt, stRows, pending>>
          /\ pc = "write" /\ pc' = "flush" /\ BarLaidOut'
          /\ \/ ~PaintAllowed /\ UNCHANGED lastBars
             \/ PaintAllowed /\ shown' = Frame /\ lastBars' = Frame
      BY <1>4 DEF WriteFramed, CacheInv, BarLaidOut, BarRows
    <2>2. CASE ~PaintAllowed /\ UNCHANGED lastBars
      BY <2>1, <2>2 DEF CacheInv, CachedWasPainted, BarHere, CacheMatches, WillForget,
                        PaintAllowed
    <2>3. CASE PaintAllowed /\ shown' = Frame /\ lastBars' = Frame
      BY <2>1, <2>3 DEF CacheInv, CachedWasPainted, BarHere, CacheMatches, PaintAllowed
    <2> QED
      BY <2>1, <2>2, <2>3
  <1>5. CASE AltEnter \/ Settle
    <2>1. /\ UNCHANGED <<barTop, barCount, area, alt, stRows, shown>>
          /\ \/ lastBars' = NoFrame
             \/ UNCHANGED <<lastBars, pending>> /\ pc = "settle" /\ ~clobbered
      BY <1>5 DEF AltEnter, Settle
    <2>2. CASE lastBars' = NoFrame
      BY <2>1, <2>2 DEF CacheInv, BarLaidOut, BarRows, CachedWasPainted, CacheMatches
    <2>3. CASE UNCHANGED <<lastBars, pending>> /\ pc = "settle" /\ ~clobbered
      BY <2>1, <2>3, CacheLeftAlone DEF WillForget, TransitionIsApplied
    <2> QED
      BY <2>1, <2>2, <2>3
  <1>6. CASE AltLeave \/ RedrawStep
    <2>1. /\ UNCHANGED <<barTop, barCount, area, alt, stRows>> /\ Redraw
          /\ WillForget => WillForget'
          /\ pending = "enter" => pending' = "enter"
      BY <1>6 DEF AltLeave, RedrawStep, WillForget
    <2> QED
      BY <2>1, CacheRedraw
  <1>7. CASE HandleResize
    <2>1. /\ Head(bus).rows \in Heights /\ ~WillForget
          /\ UNCHANGED <<area, alt, stRows, pending, pc>>
          /\ \/ SetBarRows(Geometry(area, Head(bus).rows, area), lastBars, shown)
             \/ UNCHANGED <<barTop, barCount, lastBars, shown>>
      BY <1>7, QueueReceive DEF HandleResize, ValuesType, WillForget
    <2>2. CASE SetBarRows(Geometry(area, Head(bus).rows, area), lastBars, shown)
      BY <2>1, <2>2, CacheResized
    <2>3. CASE UNCHANGED <<barTop, barCount, lastBars, shown>>
      BY <2>1, <2>3, CacheLeftAlone
    <2> QED
      BY <2>1, <2>2, <2>3
  <1>8. CASE HandleCommit
    <2>1. PICK bars \in {NoFrame, lastBars}, s \in {shown, Wipe(shown, Lost)} :
               SetBarRows(Geometry(area, Head(bus).rows, area), bars, s)
      BY <1>8, Zenon DEF HandleCommit, AfterClear
    <2>2. /\ Head(bus).rows \in Heights /\ ~WillForget
          /\ stRows' = Head(bus).rows /\ UNCHANGED <<area, alt, pending>>
      BY <1>8, QueueReceive DEF HandleCommit, ValuesType, WillForget
    <2> QED
      BY <2>1, <2>2, CacheResized
  <1>9. CASE ApplyMeta \/ HandleReload
    <2>1. Reload /\ ~WillForget /\ UNCHANGED <<pending, alt, stRows>>
      BY <1>9 DEF ApplyMeta, HandleReload, WillForget
    <2> QED
      BY <2>1, CacheReload
  <1> QED
    BY Zenon, <1>1, <1>2, <1>3, <1>4, <1>5, <1>6, <1>7, <1>8, <1>9
       DEF Next, Filtering, LoopStep

\* Nothing is cached when app.run starts the loop.
LEMMA CacheInit == Init => CacheInv
  <1> SUFFICES ASSUME Init PROVE CacheInv
    OBVIOUS
  <1> PICK rows \in Heights, a \in Areas, v \in Lines : Init!(rows, a, v)
    BY DEF Init
  <1>1. BarRows = Geometry(area, rows, area)
    BY DEF BarRows, Geometry
  <1> QED
    BY <1>1 DEF CacheInv, BarLaidOut, CachedWasPainted, CacheMatches

\* For any bars, heights and renderings: when the loop is idle, the frame in the
\* cache is on the screen, or was damaged by a resize of the window.  So the
\* next redraw never skips a repaint that an erase, a reload or a screen switch
\* made necessary (TerminalWriter.equalLines, SetBarRows, InvalidateBar).
THEOREM CacheStaysSound == Spec => []CacheIsSound
  <1>1. TypeOK /\ IInv /\ CacheInv /\ [Next]_vars => CacheInv'
    BY CacheStep DEF TypeOK, IInv
  <1>2. CacheInv => CacheIsSound
    BY DEF CacheInv, CacheMatches, CacheIsSound, WillForget, RoomForEveryBar, RoomAt,
           Frame, NoFrame
  <1> QED
    BY <1>1, <1>2, CacheInit, TypeCorrect, Invariant, PTL DEF Spec
-------------------------------------------------------------------------------
(* The filter's believed cursor row and the cursor's place.                *)

USE OutputFilterAssumption

\* The child's rows are fewer than the terminal's, and at least two.
LEMMA BottomFacts == bottom \in Nat /\ 1 < bottom /\ bottom < Rows
  BY DEF bottom, ChildRows

\* Nothing erased yet is a record like any other.
LEMMA NoEraseType ==
    NoErase \in [rows : SUBSET (1..Rows), from : 1..Rows, trusted : BOOLEAN, flagged : BOOLEAN]
  BY DEF NoErase

\* The filter starts with the cursor at home and no belief about it.
LEMMA FilterInitCorrect == FilterInit => FilterTypeOK /\ FilterInv
  <1> SUFFICES ASSUME FilterInit PROVE FilterTypeOK /\ FilterInv
    OBVIOUS
  <1>1. TerminalType /\ FilterType
    BY BottomFacts DEF FilterInit, TerminalType, FilterType, Screens
  <1>2. FlagType
    BY Zenon DEF FilterInit, FlagType
  <1>3. EraseType
    BY NoEraseType DEF FilterInit, EraseType
  <1>4. FilterInv
    BY BottomFacts DEF FilterInit, FilterInv, MarginsAreSet, SavedOffBar, FlagsAreTaken, AnswerIsExact,
       EscapesAreMissed, BeliefIsExact, EraseIsFaithful, CursorOffBar, NoErase, Screens,
       effectiveBottom
  <1> QED
    BY <1>1, <1>2, <1>3, <1>4 DEF FilterTypeOK
-------------------------------------------------------------------------------
\* Every step keeps rows rows ...
LEMMA RowsStay ==
    ASSUME FilterTypeOK, [FilterNext]_trackVars
    PROVE  TerminalType' /\ FilterType'
  <1> USE BottomFacts DEF FilterTypeOK, TerminalType, FilterType
  <1>1. CASE UNCHANGED trackVars
    BY <1>1 DEF trackVars, terminal, query, escapes
  <1>2. CASE Down /\ Bounded /\ OnBounds
    BY <1>2 DEF Down, FilterOnly, query, terminal, Tracks, Missed, Screens, Screen,
       DownFrom, UpFrom, Least, Most, advanceRow, setRow, effectiveBottom, RewriteErase
  <1>3. CASE Up /\ Bounded /\ OnBounds
    BY <1>3 DEF Up, FilterOnly, query, terminal, Tracks, Missed, Screens, Screen,
       DownFrom, UpFrom, Least, Most, advanceRow, setRow, effectiveBottom, RewriteErase
  <1>4. CASE Miscounted /\ Bounded /\ OnBounds
    BY <1>4 DEF Miscounted, FilterOnly, query, terminal, Tracks, Missed, Screens, Screen,
       DownFrom, UpFrom, Least, Most, advanceRow, setRow, effectiveBottom, RewriteErase
  <1>5. CASE Wrap /\ Bounded /\ OnBounds
    BY <1>5 DEF Wrap, FilterOnly, query, terminal, Tracks, Missed, Screens, Screen,
       DownFrom, UpFrom, Least, Most, advanceRow, setRow, effectiveBottom, RewriteErase
  <1>6. CASE MoveByVPR /\ Unbounded /\ OnBounds
    BY <1>6 DEF MoveByVPR, FilterOnly, query, terminal, Tracks, Missed, Screens, Screen,
       DownFrom, UpFrom, Least, Most, advanceRow, setRow, effectiveBottom, RewriteErase
  <1>7. CASE Save /\ OnBounds
    BY <1>7 DEF Save, FilterOnly, query, terminal, Tracks, Missed, Screens, Screen,
       DownFrom, UpFrom, Least, Most, advanceRow, setRow, effectiveBottom, RewriteErase
  <1>8. CASE RestoreSaved /\ OnBounds
    BY <1>8 DEF RestoreSaved, FilterOnly, query, terminal, Tracks, Missed, Screens, Screen,
       DownFrom, UpFrom, Least, Most, advanceRow, setRow, effectiveBottom, RewriteErase
  <1>9. CASE MoveTo /\ Bounded /\ OnBounds
    BY <1>9 DEF MoveTo, FilterOnly, query, terminal, Tracks, Missed, Screens, Screen,
       DownFrom, UpFrom, Least, Most, advanceRow, setRow, effectiveBottom, RewriteErase
  <1>10. CASE MoveToInAlt /\ Bounded /\ OnBounds
    BY <1>10 DEF MoveToInAlt, FilterOnly, query, terminal, Tracks, Missed, Screens, Screen,
       DownFrom, UpFrom, Least, Most, advanceRow, setRow, effectiveBottom, RewriteErase
  <1>11. CASE MoveToMalformed /\ Bounded /\ OnBounds
    BY <1>11 DEF MoveToMalformed, FilterOnly, query, terminal, Tracks, Missed, Screens, Screen,
       DownFrom, UpFrom, Least, Most, advanceRow, setRow, effectiveBottom, RewriteErase
  <1>12. CASE MoveToOutOfRange /\ Unbounded /\ OnBounds
    BY <1>12 DEF MoveToOutOfRange, FilterOnly, query, terminal, Tracks, Missed, Screens, Screen,
       DownFrom, UpFrom, Least, Most, advanceRow, setRow, effectiveBottom, RewriteErase
  <1>13. CASE EraseAll /\ Bounded /\ OnBounds
    BY <1>13 DEF EraseAll, FilterOnly, query, terminal, Tracks, Missed, Screens, Screen,
       DownFrom, UpFrom, Least, Most, advanceRow, setRow, effectiveBottom, RewriteErase
  <1>14. CASE Reset /\ Bounded /\ OnBounds
    BY <1>14 DEF Reset, FilterOnly, query, terminal, Tracks, Missed, Screens, Screen,
       DownFrom, UpFrom, Least, Most, advanceRow, setRow, effectiveBottom, RewriteErase
  <1>15. CASE SetMargins /\ Bounded /\ NotErasing
    BY <1>15 DEF SetMargins, FilterOnly, query, terminal, Tracks, Missed, Screens, Screen,
       DownFrom, UpFrom, Least, Most, advanceRow, setRow, effectiveBottom, RewriteErase
  <1>16. CASE EnterAlt /\ OnBounds
    BY <1>16 DEF EnterAlt, FilterOnly, query, terminal, Tracks, Missed, Screens, Screen,
       DownFrom, UpFrom, Least, Most, advanceRow, setRow, effectiveBottom, RewriteErase
  <1>17. CASE LeaveAlt /\ NotErasing
    BY <1>17 DEF LeaveAlt, FilterOnly, query, terminal, Tracks, Missed, Screens, Screen,
       DownFrom, UpFrom, Least, Most, advanceRow, setRow, effectiveBottom, RewriteErase
  <1>18. CASE TakeFlags /\ OnBounds
    BY <1>18 DEF TakeFlags, FilterOnly, query, terminal, Tracks, Missed, Screens, Screen,
       DownFrom, UpFrom, Least, Most, advanceRow, setRow, effectiveBottom, RewriteErase
  <1>19. CASE GiveUp /\ OnBounds
    BY <1>19 DEF GiveUp, FilterOnly, query, terminal, Tracks, Missed, Screens, Screen,
       DownFrom, UpFrom, Least, Most, advanceRow, setRow, effectiveBottom, RewriteErase
  <1>20. CASE Reconcile /\ OnBounds
    BY <1>20 DEF Reconcile, FilterOnly, query, terminal, Tracks, Missed, Screens, Screen,
       DownFrom, UpFrom, Least, Most, advanceRow, setRow, effectiveBottom, RewriteErase
  <1>21. CASE EraseToEnd /\ Overtaking /\ UNCHANGED strayed
    BY <1>21 DEF EraseToEnd, FilterOnly, query, terminal, Tracks, Missed, Screens, Screen,
       DownFrom, UpFrom, Least, Most, advanceRow, setRow, effectiveBottom, RewriteErase
  <1> QED
    BY <1>1, <1>2, <1>3, <1>4, <1>5, <1>6, <1>7, <1>8, <1>9, <1>10, <1>11, <1>12, <1>13, <1>14, <1>15, <1>16, <1>17, <1>18, <1>19, <1>20, <1>21 DEF FilterNext

\* ... and flags flags.
LEMMA FlagsStay ==
    ASSUME FilterTypeOK, [FilterNext]_trackVars
    PROVE  FlagType'
  <1> USE DEF FilterTypeOK, FlagType
  <1>1. CASE UNCHANGED trackVars
    BY <1>1 DEF trackVars, flags, query, escapes
  <1>2. CASE Down /\ Bounded /\ OnBounds
    BY <1>2 DEF Down, FilterOnly, query, flags, escapes, Tracks, Missed, RewriteErase,
       NotErasing, Overtaking, OnBounds, Bounded, Unbounded
  <1>3. CASE Up /\ Bounded /\ OnBounds
    BY <1>3 DEF Up, FilterOnly, query, flags, escapes, Tracks, Missed, RewriteErase,
       NotErasing, Overtaking, OnBounds, Bounded, Unbounded
  <1>4. CASE Miscounted /\ Bounded /\ OnBounds
    BY <1>4 DEF Miscounted, FilterOnly, query, flags, escapes, Tracks, Missed, RewriteErase,
       NotErasing, Overtaking, OnBounds, Bounded, Unbounded
  <1>5. CASE Wrap /\ Bounded /\ OnBounds
    BY <1>5 DEF Wrap, FilterOnly, query, flags, escapes, Tracks, Missed, RewriteErase,
       NotErasing, Overtaking, OnBounds, Bounded, Unbounded
  <1>6. CASE MoveByVPR /\ Unbounded /\ OnBounds
    BY <1>6 DEF MoveByVPR, FilterOnly, query, flags, escapes, Tracks, Missed, RewriteErase,
       NotErasing, Overtaking, OnBounds, Bounded, Unbounded
  <1>7. CASE Save /\ OnBounds
    BY <1>7 DEF Save, FilterOnly, query, flags, escapes, Tracks, Missed, RewriteErase,
       NotErasing, Overtaking, OnBounds, Bounded, Unbounded
  <1>8. CASE RestoreSaved /\ OnBounds
    BY <1>8 DEF RestoreSaved, FilterOnly, query, flags, escapes, Tracks, Missed, RewriteErase,
       NotErasing, Overtaking, OnBounds, Bounded, Unbounded
  <1>9. CASE MoveTo /\ Bounded /\ OnBounds
    BY <1>9 DEF MoveTo, FilterOnly, query, flags, escapes, Tracks, Missed, RewriteErase,
       NotErasing, Overtaking, OnBounds, Bounded, Unbounded
  <1>10. CASE MoveToInAlt /\ Bounded /\ OnBounds
    BY <1>10 DEF MoveToInAlt, FilterOnly, query, flags, escapes, Tracks, Missed, RewriteErase,
       NotErasing, Overtaking, OnBounds, Bounded, Unbounded
  <1>11. CASE MoveToMalformed /\ Bounded /\ OnBounds
    BY <1>11 DEF MoveToMalformed, FilterOnly, query, flags, escapes, Tracks, Missed, RewriteErase,
       NotErasing, Overtaking, OnBounds, Bounded, Unbounded
  <1>12. CASE MoveToOutOfRange /\ Unbounded /\ OnBounds
    BY <1>12 DEF MoveToOutOfRange, FilterOnly, query, flags, escapes, Tracks, Missed, RewriteErase,
       NotErasing, Overtaking, OnBounds, Bounded, Unbounded
  <1>13. CASE EraseAll /\ Bounded /\ OnBounds
    BY <1>13 DEF EraseAll, FilterOnly, query, flags, escapes, Tracks, Missed, RewriteErase,
       NotErasing, Overtaking, OnBounds, Bounded, Unbounded
  <1>14. CASE Reset /\ Bounded /\ OnBounds
    BY <1>14 DEF Reset, FilterOnly, query, flags, escapes, Tracks, Missed, RewriteErase,
       NotErasing, Overtaking, OnBounds, Bounded, Unbounded
  <1>15. CASE SetMargins /\ Bounded /\ NotErasing
    BY <1>15 DEF SetMargins, FilterOnly, query, flags, escapes, Tracks, Missed, RewriteErase,
       NotErasing, Overtaking, OnBounds, Bounded, Unbounded
  <1>16. CASE EnterAlt /\ OnBounds
    BY <1>16 DEF EnterAlt, FilterOnly, query, flags, escapes, Tracks, Missed, RewriteErase,
       NotErasing, Overtaking, OnBounds, Bounded, Unbounded
  <1>17. CASE LeaveAlt /\ NotErasing
    BY <1>17 DEF LeaveAlt, FilterOnly, query, flags, escapes, Tracks, Missed, RewriteErase,
       NotErasing, Overtaking, OnBounds, Bounded, Unbounded
  <1>18. CASE TakeFlags /\ OnBounds
    BY <1>18 DEF TakeFlags, FilterOnly, query, flags, escapes, Tracks, Missed, RewriteErase,
       NotErasing, Overtaking, OnBounds, Bounded, Unbounded
  <1>19. CASE GiveUp /\ OnBounds
    BY <1>19 DEF GiveUp, FilterOnly, query, flags, escapes, Tracks, Missed, RewriteErase,
       NotErasing, Overtaking, OnBounds, Bounded, Unbounded
  <1>20. CASE Reconcile /\ OnBounds
    BY <1>20 DEF Reconcile, FilterOnly, query, flags, escapes, Tracks, Missed, RewriteErase,
       NotErasing, Overtaking, OnBounds, Bounded, Unbounded
  <1>21. CASE EraseToEnd /\ Overtaking /\ UNCHANGED strayed
    BY <1>21 DEF EraseToEnd, FilterOnly, query, flags, escapes, Tracks, Missed, RewriteErase,
       NotErasing, Overtaking, OnBounds, Bounded, Unbounded
  <1> QED
    BY <1>1, <1>2, <1>3, <1>4, <1>5, <1>6, <1>7, <1>8, <1>9, <1>10, <1>11, <1>12, <1>13, <1>14, <1>15, <1>16, <1>17, <1>18, <1>19, <1>20, <1>21 DEF FilterNext

\* ... and what was erased a set of rows.
LEMMA EraseStays ==
    ASSUME FilterTypeOK, [FilterNext]_trackVars
    PROVE  EraseType'
  <1>1. CASE UNCHANGED trackVars
    BY <1>1 DEF FilterTypeOK, EraseType, trackVars
  <1>2. CASE erase' = NoErase
    BY <1>2, NoEraseType DEF EraseType
  <1>3. CASE EraseToEnd
    BY <1>3, BottomFacts DEF FilterTypeOK, TerminalType, FilterType, FlagType, EraseType, EraseToEnd,
       RewriteErase
  <1> QED
    BY <1>1, <1>2, <1>3 DEF FilterNext, OnBounds, NotErasing

\* The cursor stays on the screen and the believed row among the rows there are.
THEOREM FilterTypeCorrect == FilterSpec => []FilterTypeOK
  <1>1. FilterTypeOK /\ [FilterNext]_trackVars => FilterTypeOK'
    BY RowsStay, FlagsStay, EraseStays DEF FilterTypeOK
  <1> QED
    BY <1>1, FilterInitCorrect, PTL DEF FilterSpec
-------------------------------------------------------------------------------
\* The margins, and what they keep off the bar.
LEMMA MarginsStay ==
    ASSUME FilterTypeOK, FilterInv, [FilterNext]_trackVars
    PROVE  MarginsAreSet' /\ SavedOffBar' /\ FlagsAreTaken' /\ CursorOffBar' /\ EscapesAreMissed'
  <1> USE BottomFacts DEF FilterTypeOK, TerminalType, FilterType, FlagType, FilterInv, MarginsAreSet,
          SavedOffBar, FlagsAreTaken, CursorOffBar, EscapesAreMissed, AnswerIsExact,
          effectiveBottom, OnBounds
  <1>1. CASE UNCHANGED trackVars
    BY <1>1 DEF trackVars, terminal, flags, escapes, query
  <1>2. CASE Down /\ Bounded /\ OnBounds
    BY <1>2 DEF Down, FilterOnly, flags, query, terminal, escapes, Tracks, Missed, Screens,
       Screen, DownFrom, UpFrom, Least, Most, advanceRow, setRow, RewriteErase, Bounded, Unbounded
  <1>3. CASE Up /\ Bounded /\ OnBounds
    BY <1>3 DEF Up, FilterOnly, flags, query, terminal, escapes, Tracks, Missed, Screens,
       Screen, DownFrom, UpFrom, Least, Most, advanceRow, setRow, RewriteErase, Bounded, Unbounded
  <1>4. CASE Miscounted /\ Bounded /\ OnBounds
    BY <1>4 DEF Miscounted, FilterOnly, flags, query, terminal, escapes, Tracks, Missed, Screens,
       Screen, DownFrom, UpFrom, Least, Most, advanceRow, setRow, RewriteErase, Bounded, Unbounded
  <1>5. CASE Wrap /\ Bounded /\ OnBounds
    BY <1>5 DEF Wrap, FilterOnly, flags, query, terminal, escapes, Tracks, Missed, Screens,
       Screen, DownFrom, UpFrom, Least, Most, advanceRow, setRow, RewriteErase, Bounded, Unbounded
  <1>6. CASE MoveByVPR /\ Unbounded /\ OnBounds
    <2>1. cursor' \in Nat /\ drift' = TRUE
      BY <1>6 DEF MoveByVPR, Missed, Least
    <2>2. escaped' = (~altActive /\ cursor' > bottom) /\ savedEscape' = savedEscape
      BY <1>6 DEF Unbounded
    <2>3. /\ top' = top /\ bot' = bot /\ saved' = saved /\ altActive' = altActive
          /\ barClobbered' = barClobbered /\ regionReset' = regionReset /\ strayed' = strayed
      BY <1>6 DEF MoveByVPR, FilterOnly, flags
    <2>4. CursorOffBar'
      <3> SUFFICES ASSUME ~altActive', ~strayed', ~escaped' PROVE cursor' <= bottom
        OBVIOUS
      <3>1. ~altActive
        BY <2>3, Zenon
      <3>2. ~(cursor' > bottom)
        BY <2>2, <3>1, Zenon
      <3> QED
        BY <2>1, <3>2
    <2>5. EscapesAreMissed'
      BY <2>1, <2>2, <2>3
    <2>6. MarginsAreSet' /\ SavedOffBar' /\ FlagsAreTaken'
      BY <2>2, <2>3
    <2> QED
      BY <2>4, <2>5, <2>6
  <1>7. CASE Save /\ OnBounds
    BY <1>7 DEF Save, FilterOnly, flags, query, terminal, escapes, Tracks, Missed, Screens,
       Screen, DownFrom, UpFrom, Least, Most, advanceRow, setRow, RewriteErase, Bounded, Unbounded
  <1>8. CASE RestoreSaved /\ OnBounds
    BY <1>8 DEF RestoreSaved, FilterOnly, flags, query, terminal, escapes, Tracks, Missed, Screens,
       Screen, DownFrom, UpFrom, Least, Most, advanceRow, setRow, RewriteErase, Bounded, Unbounded
  <1>9. CASE MoveTo /\ Bounded /\ OnBounds
    BY <1>9 DEF MoveTo, FilterOnly, flags, query, terminal, escapes, Tracks, Missed, Screens,
       Screen, DownFrom, UpFrom, Least, Most, advanceRow, setRow, RewriteErase, Bounded, Unbounded
  <1>10. CASE MoveToInAlt /\ Bounded /\ OnBounds
    BY <1>10 DEF MoveToInAlt, FilterOnly, flags, query, terminal, escapes, Tracks, Missed, Screens,
       Screen, DownFrom, UpFrom, Least, Most, advanceRow, setRow, RewriteErase, Bounded, Unbounded
  <1>11. CASE MoveToMalformed /\ Bounded /\ OnBounds
    BY <1>11 DEF MoveToMalformed, FilterOnly, flags, query, terminal, escapes, Tracks, Missed, Screens,
       Screen, DownFrom, UpFrom, Least, Most, advanceRow, setRow, RewriteErase, Bounded, Unbounded
  <1>12. CASE MoveToOutOfRange /\ Unbounded /\ OnBounds
    BY <1>12 DEF MoveToOutOfRange, FilterOnly, flags, query, terminal, escapes, Tracks, Missed, Screens,
       Screen, DownFrom, UpFrom, Least, Most, advanceRow, setRow, RewriteErase, Bounded, Unbounded
  <1>13. CASE EraseAll /\ Bounded /\ OnBounds
    BY <1>13 DEF EraseAll, FilterOnly, flags, query, terminal, escapes, Tracks, Missed, Screens,
       Screen, DownFrom, UpFrom, Least, Most, advanceRow, setRow, RewriteErase, Bounded, Unbounded
  <1>14. CASE Reset /\ Bounded /\ OnBounds
    BY <1>14 DEF Reset, FilterOnly, flags, query, terminal, escapes, Tracks, Missed, Screens,
       Screen, DownFrom, UpFrom, Least, Most, advanceRow, setRow, RewriteErase, Bounded, Unbounded
  <1>15. CASE SetMargins /\ Bounded /\ NotErasing
    <2>1. /\ ~altActive /\ altActive' = altActive /\ cursor' = 1 /\ saved' = saved
          /\ barClobbered' = barClobbered /\ regionReset' = regionReset
          /\ escaped' = FALSE /\ savedEscape' = savedEscape
      BY <1>15 DEF SetMargins, flags, Bounded
    <2>2. ~strayed' => ~strayed /\ top' = 1 /\ bot' = bottom
      BY <1>15, Zenon DEF SetMargins
    <2> QED
      BY <2>1, <2>2
  <1>16. CASE EnterAlt /\ OnBounds
    BY <1>16 DEF EnterAlt, FilterOnly, flags, query, terminal, escapes, Tracks, Missed, Screens,
       Screen, DownFrom, UpFrom, Least, Most, advanceRow, setRow, RewriteErase, Bounded, Unbounded
  <1>17. CASE LeaveAlt /\ NotErasing
    BY <1>17 DEF LeaveAlt, FilterOnly, flags, query, terminal, escapes, Tracks, Missed, Screens,
       Screen, DownFrom, UpFrom, Least, Most, advanceRow, setRow, RewriteErase, Bounded, Unbounded
  <1>18. CASE TakeFlags /\ OnBounds
    BY <1>18 DEF TakeFlags, FilterOnly, flags, query, terminal, escapes, Tracks, Missed, Screens,
       Screen, DownFrom, UpFrom, Least, Most, advanceRow, setRow, RewriteErase, Bounded, Unbounded
  <1>19. CASE GiveUp /\ OnBounds
    BY <1>19 DEF GiveUp, FilterOnly, flags, query, terminal, escapes, Tracks, Missed, Screens,
       Screen, DownFrom, UpFrom, Least, Most, advanceRow, setRow, RewriteErase, Bounded, Unbounded
  <1>20. CASE Reconcile /\ OnBounds
    BY <1>20 DEF Reconcile, FilterOnly, flags, query, terminal, escapes, Tracks, Missed, Screens,
       Screen, DownFrom, UpFrom, Least, Most, advanceRow, setRow, RewriteErase, Bounded, Unbounded
  <1>21. CASE EraseToEnd /\ Overtaking /\ UNCHANGED strayed
    BY <1>21 DEF EraseToEnd, FilterOnly, flags, query, terminal, escapes, Tracks, Missed, Screens,
       Screen, DownFrom, UpFrom, Least, Most, advanceRow, setRow, RewriteErase, Bounded, Unbounded
  <1> QED
    BY <1>1, <1>2, <1>3, <1>4, <1>5, <1>6, <1>7, <1>8, <1>9, <1>10, <1>11, <1>12, <1>13, <1>14, <1>15, <1>16, <1>17, <1>18, <1>19, <1>20, <1>21 DEF FilterNext

\* The answer on its way, and the belief it leads to.
LEMMA BeliefStays ==
    ASSUME FilterTypeOK, FilterInv, [FilterNext]_trackVars
    PROVE  AnswerIsExact' /\ BeliefIsExact'
  <1> USE BottomFacts DEF FilterTypeOK, TerminalType, FilterType, FlagType, FilterInv, MarginsAreSet,
          AnswerIsExact, BeliefIsExact, CursorOffBar, EscapesAreMissed, effectiveBottom,
          OnBounds, NotErasing, Overtaking
  <1>1. CASE UNCHANGED trackVars
    BY <1>1 DEF trackVars, terminal, query, escapes
  <1>2. CASE Down /\ Bounded /\ OnBounds
    BY <1>2 DEF Down, FilterOnly, flags, query, terminal, escapes, Tracks, Missed, Screens,
       Screen, DownFrom, UpFrom, Least, Most, advanceRow, setRow, RewriteErase, Bounded, Unbounded
  <1>3. CASE Up /\ Bounded /\ OnBounds
    BY <1>3 DEF Up, FilterOnly, flags, query, terminal, escapes, Tracks, Missed, Screens,
       Screen, DownFrom, UpFrom, Least, Most, advanceRow, setRow, RewriteErase, Bounded, Unbounded
  <1>4. CASE Miscounted /\ Bounded /\ OnBounds
    BY <1>4 DEF Miscounted, FilterOnly, flags, query, terminal, escapes, Tracks, Missed, Screens,
       Screen, DownFrom, UpFrom, Least, Most, advanceRow, setRow, RewriteErase, Bounded, Unbounded
  <1>5. CASE Wrap /\ Bounded /\ OnBounds
    BY <1>5 DEF Wrap, FilterOnly, flags, query, terminal, escapes, Tracks, Missed, Screens,
       Screen, DownFrom, UpFrom, Least, Most, advanceRow, setRow, RewriteErase, Bounded, Unbounded
  <1>6. CASE MoveByVPR /\ Unbounded /\ OnBounds
    BY <1>6 DEF MoveByVPR, FilterOnly, flags, query, terminal, escapes, Tracks, Missed, Screens,
       Screen, DownFrom, UpFrom, Least, Most, advanceRow, setRow, RewriteErase, Bounded, Unbounded
  <1>7. CASE Save /\ OnBounds
    BY <1>7 DEF Save, FilterOnly, flags, query, terminal, escapes, Tracks, Missed, Screens,
       Screen, DownFrom, UpFrom, Least, Most, advanceRow, setRow, RewriteErase, Bounded, Unbounded
  <1>8. CASE RestoreSaved /\ OnBounds
    BY <1>8 DEF RestoreSaved, FilterOnly, flags, query, terminal, escapes, Tracks, Missed, Screens,
       Screen, DownFrom, UpFrom, Least, Most, advanceRow, setRow, RewriteErase, Bounded, Unbounded
  <1>9. CASE MoveTo /\ Bounded /\ OnBounds
    BY <1>9 DEF MoveTo, FilterOnly, flags, query, terminal, escapes, Tracks, Missed, Screens,
       Screen, DownFrom, UpFrom, Least, Most, advanceRow, setRow, RewriteErase, Bounded, Unbounded
  <1>10. CASE MoveToInAlt /\ Bounded /\ OnBounds
    BY <1>10 DEF MoveToInAlt, FilterOnly, flags, query, terminal, escapes, Tracks, Missed, Screens,
       Screen, DownFrom, UpFrom, Least, Most, advanceRow, setRow, RewriteErase, Bounded, Unbounded
  <1>11. CASE MoveToMalformed /\ Bounded /\ OnBounds
    BY <1>11 DEF MoveToMalformed, FilterOnly, flags, query, terminal, escapes, Tracks, Missed, Screens,
       Screen, DownFrom, UpFrom, Least, Most, advanceRow, setRow, RewriteErase, Bounded, Unbounded
  <1>12. CASE MoveToOutOfRange /\ Unbounded /\ OnBounds
    BY <1>12 DEF MoveToOutOfRange, FilterOnly, flags, query, terminal, escapes, Tracks, Missed, Screens,
       Screen, DownFrom, UpFrom, Least, Most, advanceRow, setRow, RewriteErase, Bounded, Unbounded
  <1>13. CASE EraseAll /\ Bounded /\ OnBounds
    BY <1>13 DEF EraseAll, FilterOnly, flags, query, terminal, escapes, Tracks, Missed, Screens,
       Screen, DownFrom, UpFrom, Least, Most, advanceRow, setRow, RewriteErase, Bounded, Unbounded
  <1>14. CASE Reset /\ Bounded /\ OnBounds
    BY <1>14 DEF Reset, FilterOnly, flags, query, terminal, escapes, Tracks, Missed, Screens,
       Screen, DownFrom, UpFrom, Least, Most, advanceRow, setRow, RewriteErase, Bounded, Unbounded
  <1>15. CASE SetMargins /\ Bounded /\ NotErasing
    BY <1>15 DEF SetMargins, FilterOnly, flags, query, terminal, escapes, Tracks, Missed, Screens,
       Screen, DownFrom, UpFrom, Least, Most, advanceRow, setRow, RewriteErase, Bounded, Unbounded
  <1>16. CASE EnterAlt /\ OnBounds
    BY <1>16 DEF EnterAlt, FilterOnly, flags, query, terminal, escapes, Tracks, Missed, Screens,
       Screen, DownFrom, UpFrom, Least, Most, advanceRow, setRow, RewriteErase, Bounded, Unbounded
  <1>17. CASE LeaveAlt /\ NotErasing
    BY <1>17 DEF LeaveAlt, FilterOnly, flags, query, terminal, escapes, Tracks, Missed, Screens,
       Screen, DownFrom, UpFrom, Least, Most, advanceRow, setRow, RewriteErase, Bounded, Unbounded
  <1>18. CASE TakeFlags /\ OnBounds
    BY <1>18 DEF TakeFlags, FilterOnly, flags, query, terminal, escapes, Tracks, Missed, Screens,
       Screen, DownFrom, UpFrom, Least, Most, advanceRow, setRow, RewriteErase, Bounded, Unbounded
  <1>19. CASE GiveUp /\ OnBounds
    BY <1>19 DEF GiveUp, FilterOnly, flags, query, terminal, escapes, Tracks, Missed, Screens,
       Screen, DownFrom, UpFrom, Least, Most, advanceRow, setRow, RewriteErase, Bounded, Unbounded
  <1>20. CASE Reconcile /\ OnBounds
    BY <1>20 DEF Reconcile, FilterOnly, flags, query, terminal, escapes, Tracks, Missed, Screens,
       Screen, DownFrom, UpFrom, Least, Most, advanceRow, setRow, RewriteErase, Bounded, Unbounded
  <1>21. CASE EraseToEnd /\ Overtaking /\ UNCHANGED strayed
    BY <1>21 DEF EraseToEnd, FilterOnly, flags, query, terminal, escapes, Tracks, Missed, Screens,
       Screen, DownFrom, UpFrom, Least, Most, advanceRow, setRow, RewriteErase, Bounded, Unbounded
  <1> QED
    BY <1>1, <1>2, <1>3, <1>4, <1>5, <1>6, <1>7, <1>8, <1>9, <1>10, <1>11, <1>12, <1>13, <1>14, <1>15, <1>16, <1>17, <1>18, <1>19, <1>20, <1>21 DEF FilterNext

\* An erase goes by what the belief was when it was rewritten.
LEMMA EraseStaysFaithful ==
    ASSUME FilterTypeOK, FilterInv, [FilterNext]_trackVars
    PROVE  EraseIsFaithful'
  <1>1. CASE UNCHANGED trackVars
    BY <1>1 DEF FilterInv, EraseIsFaithful, trackVars, bottom
  <1>2. CASE erase' = NoErase
    BY <1>2, BottomFacts DEF EraseIsFaithful, NoErase
  <1>3. CASE EraseToEnd /\ UNCHANGED strayed
    <2> DEFINE known == believed \in 1..bottom
               rows  == IF known THEN {cursor} \cup (believed + 1)..bottom ELSE cursor..Rows
    <2>1. /\ erase'.rows = rows /\ erase'.from = cursor
          /\ erase'.trusted = ~drift /\ erase'.flagged = (barClobbered \/ ~known)
          /\ ~altActive /\ (strayed' <=> strayed)
      BY <1>3 DEF EraseToEnd, RewriteErase
    <2>2. CASE ~strayed /\ escaped
      BY <2>1, <2>2, BottomFacts DEF FilterTypeOK, TerminalType, FilterInv, EscapesAreMissed,
         EraseIsFaithful
    <2>3. CASE ~strayed /\ ~escaped /\ known
      <3>1. cursor \in 1..bottom /\ rows \subseteq 1..bottom
        BY <2>1, <2>3, BottomFacts DEF FilterTypeOK, TerminalType, FilterInv, CursorOffBar
      <3>2. ~drift => rows = cursor..bottom
        BY <2>1, <2>3, <3>1, BottomFacts DEF FilterInv, BeliefIsExact
      <3>3. cursor..bottom \cap 1..bottom = cursor..bottom
        BY <3>1, BottomFacts
      <3> QED
        BY <2>1, <3>1, <3>2, <3>3, BottomFacts DEF EraseIsFaithful, bottom
    <2>4. CASE ~strayed /\ ~escaped /\ ~known
      <3>1. cursor \in 1..bottom
        BY <2>1, <2>4, BottomFacts DEF FilterTypeOK, TerminalType, FilterInv, CursorOffBar
      <3>2. cursor..Rows \cap 1..bottom = cursor..bottom
        BY <3>1, BottomFacts
      <3>3. rows = cursor..Rows
        BY <2>4
      <3>4. erase'.flagged
        BY <2>1, <2>4
      <3> QED
        BY <2>1, <3>2, <3>3, <3>4 DEF EraseIsFaithful, bottom
    <2>5. CASE strayed
      BY <2>1, <2>5 DEF EraseIsFaithful
    <2> QED
      BY <2>2, <2>3, <2>4, <2>5
  <1> QED
    BY <1>1, <1>2, <1>3 DEF FilterNext, OnBounds, NotErasing

\* Together the parts of FilterInv are inductive.
THEOREM FilterInvariant == FilterSpec => [](FilterTypeOK /\ FilterInv)
  <1>1. FilterTypeOK /\ FilterInv /\ [FilterNext]_trackVars => FilterInv'
    BY MarginsStay, BeliefStays, EraseStaysFaithful DEF FilterInv
  <1> QED
    BY <1>1, FilterInitCorrect, FilterTypeCorrect, PTL DEF FilterSpec

\* The believed row is the cursor's through any run of relative moves behind an
\* absolute one or an answer in time (advanceRow, setRow, SetBelievedRow).
THEOREM BeliefStaysExact == FilterSpec => []BeliefIsExact
  BY FilterInvariant, PTL DEF FilterInv

\* A rewritten erase spares the bar and erases what was asked for
\* (rewriteEraseDisplay).
THEOREM ErasesAreFaithful == FilterSpec => []EraseIsFaithful
  BY FilterInvariant, PTL DEF FilterInv

\* The child's cursor stays off the bar while the margins are ptyline's, or was
\* taken there by VPR or a row too large for an int, whatever was saved,
\* restored or switched since (clampCursorRow, rewriteScrollRegion).
THEOREM CursorStaysOffBar == FilterSpec => []CursorOffBar
  BY FilterInvariant, PTL DEF FilterInv
===============================================================================
