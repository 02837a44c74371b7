--------------------------- MODULE InductionProofs ---------------------------
(***************************************************************************)
(* Proofs that need induction over data: over the rows of the bar          *)
(* (Animation), over the sequences of symbols on their way to the child    *)
(* (PositionQuery), over the tokens and blocks of a row (BarLayout), over  *)
(* the symbols of a text (ValueText) and over the bytes that are scanned   *)
(* (AnsiScan).  A property of every n is proved by looking at the least n  *)
(* that does not have it; a recursive function is what satisfies its       *)
(* equation, so first there must be one.                                   *)
(***************************************************************************)
EXTENDS PositionQuery, MCAlgorithms, SequenceTheorems, FiniteSetTheorems,
        WellFoundedInduction, TLAPS

\* A set of naturals with a member has a least one: how induction is done here,
\* by a smallest counterexample.
LEMMA LeastNatural ==
    ASSUME NEW S \in SUBSET Nat, S # {}
    PROVE  \E n \in S : \A m \in S : n <= m
  <1>1. IsWellFoundedOn(OpToRel(<, Nat), Nat)
    BY NatLessThanWellFounded
  <1>2. PICK n \in S : \A m \in S : ~(<<m, n>> \in OpToRel(<, Nat))
    BY <1>1, WFMin
  <1>3. \A m \in S : m \in Nat /\ n \in Nat /\ ~(m < n)
    BY <1>2 DEF OpToRel
  <1>4. \A m \in S : n <= m
    BY <1>3
  <1> QED BY <1>2, <1>4
-------------------------------------------------------------------------------
(* Animation. *)

\* The rows down to row i are rendered.
RowsFrom(f, i, r, st) ==
    f = [j \in 0..i |-> IF j = 0 THEN Unrendered(r) ELSE Below(f[j - 1], j, st)]

\* The recursion over the rows of Bar.Render has a solution, by induction over
\* their number.
LEMMA RowsExist ==
    ASSUME NEW r, NEW st
    PROVE  \E f : RowsFrom(f, RowCount, r, st)
  <1> DEFINE Bad == {i \in Nat : ~ \E f : RowsFrom(f, i, r, st)}
  <1>1. SUFFICES ASSUME Bad # {} PROVE FALSE
    BY RowsAssumption
  <1>2. PICK i \in Bad : \A j \in Bad : i <= j
    BY <1>1, LeastNatural
  <1>3. i # 0
    <2>1. RowsFrom([j \in 0..0 |-> Unrendered(r)], 0, r, st)
      BY DEF RowsFrom
    <2> QED BY <2>1, <1>2
  <1>4. i - 1 \in Nat /\ i - 1 \notin Bad
    BY <1>2, <1>3
  <1>5. PICK f : RowsFrom(f, i - 1, r, st)
    BY <1>4
  <1> DEFINE g == [j \in 0..i |-> IF j = i THEN Below(f[i - 1], i, st) ELSE f[j]]
  <1>6. RowsFrom(g, i, r, st)
    BY <1>4, <1>5 DEF RowsFrom
  <1> QED BY <1>6, <1>2

\* So what RenderRows chooses is one.
LEMMA RowsUnfold ==
    ASSUME NEW r, NEW st
    PROVE  RowsFrom(RenderRows(r, st), RowCount, r, st)
  <1>1. \E f : RowsFrom(f, RowCount, r, st)
    BY RowsExist
  <1>2. \E f : f = [j \in 0..RowCount |->
                      IF j = 0 THEN Unrendered(r) ELSE Below(f[j - 1], j, st)]
    BY <1>1 DEF RowsFrom
  <1> DEFINE u == CHOOSE f : f = [j \in 0..RowCount |->
                      IF j = 0 THEN Unrendered(r) ELSE Below(f[j - 1], j, st)]
  <1>3. u = [j \in 0..RowCount |-> IF j = 0 THEN Unrendered(r) ELSE Below(u[j - 1], j, st)]
    BY <1>2
  <1>4. RenderRows(r, st) = u
    BY DEF RenderRows
  <1> QED BY <1>3, <1>4 DEF RowsFrom

\* Each row is rendered on what the rows above it left.
LEMMA RowsByStep ==
    ASSUME NEW r, NEW st
    PROVE  /\ RenderRows(r, st)[0] = Unrendered(r)
           /\ \A i \in 1..RowCount :
                 RenderRows(r, st)[i] = Below(RenderRows(r, st)[i - 1], i, st)
  BY RowsUnfold, RowsAssumption DEF RowsFrom

\* What a row does.
RowOK(R, i, r, st) ==
    /\ R.renderer \in Renderers
    /\ R.renderer.frameActive = FinishesSweep(i, st)
    /\ (r.frameActive \/ FinishesSweep(i, st)) => R.flag
    /\ \A m \in Modules : R.renderer.changed[m] # Unchanging => R.flag
    /\ \A m \in Modules : Open(r.changed[m], st.phase) /\ RowOf[m] # i
                              => R.renderer.changed[m] = r.changed[m]
    /\ \A m \in R.lit : /\ m \in Modules /\ RowOf[m] = i
                        /\ Open(R.renderer.changed[m], st.phase)
    /\ \A m \in Modules : RowOf[m] # i => R.renderer.last[m] = r.last[m]
    /\ \A m \in Watched(i, st) :
          /\ R.renderer.last[m] = st.snapshots[m].value
          /\ r.last[m] \notin {None, st.snapshots[m].value} => m \in R.lit
    /\ R.shine => /\ i = CommandRow /\ st.command.running
                  /\ FinishesSweep(i, st) \/ ~st.command.suppressed

\* What rendering one row does to the windows, the highlights and the schedule.
LEMMA RowDoes ==
    ASSUME NEW i \in 1..RowCount, NEW r \in Renderers, NEW st \in States
    PROVE  RowOK(RenderRow(i, r, st), i, r, st)
  <1> DEFINE w == Watched(i, st)
             noted == NoteChanges(r, w, st)
             new == refreshChangeFlag(noted, st.phase)
             R == RenderRow(i, r, st)
  <1>1. w \subseteq {m \in Modules : RowOf[m] = i}
    BY DEF Watched, Visible
  <1>2. /\ noted \in Renderers
        /\ \A m \in Modules : m \notin w => noted.last[m] = r.last[m]
                                            /\ noted.changed[m] = r.changed[m]
        /\ \A m \in w : /\ noted.last[m] = st.snapshots[m].value
                        /\ r.last[m] \notin {None, st.snapshots[m].value}
                             => noted.changed[m] = [at |-> st.phase, for |-> st.duration]
    BY <1>1 DEF NoteChanges, Renderers, States, Windows
  <1>3. \A m \in Modules : noted.changed[m] \in Windows
    BY <1>2 DEF Renderers
  <1>4. /\ new \in Renderers
        /\ new.last = noted.last
        /\ \A m \in Modules : new.changed[m] = IF Open(noted.changed[m], st.phase)
                                               THEN noted.changed[m] ELSE Unchanging
    BY <1>2, <1>3 DEF refreshChangeFlag, Renderers, Windows
  <1>5. /\ R.renderer = [new EXCEPT !.frameActive = FinishesSweep(i, st)]
        /\ R.flag = (\/ \E m \in Modules : new.changed[m] # Unchanging
                     \/ FinishesSweep(i, st)
                     \/ r.frameActive)
        /\ R.lit = {m \in w : new.changed[m] # Unchanging
                              /\ st.phase - new.changed[m].at < st.duration}
        /\ R.shine = (i = CommandRow /\ st.command.running
                        /\ (FinishesSweep(i, st) \/ ~st.command.suppressed))
    BY DEF RenderRow
  <1>6. FinishesSweep(i, st) \in BOOLEAN
    BY DEF FinishesSweep
  <1>7. /\ R.renderer \in Renderers /\ R.renderer.last = noted.last
        /\ R.renderer.changed = new.changed /\ R.renderer.frameActive = FinishesSweep(i, st)
    BY <1>4, <1>5, <1>6 DEF Renderers
  <1>8. (r.frameActive \/ FinishesSweep(i, st)) => R.flag
    BY <1>5
  <1>9. \A m \in Modules : R.renderer.changed[m] # Unchanging => R.flag
    BY <1>5, <1>7
  <1>10. \A m \in Modules : Open(r.changed[m], st.phase) /\ RowOf[m] # i
                              => R.renderer.changed[m] = r.changed[m]
    BY <1>1, <1>2, <1>4, <1>7
  <1>11. \A m \in R.lit : m \in Modules /\ RowOf[m] = i /\ Open(R.renderer.changed[m], st.phase)
    BY <1>1, <1>4, <1>5, <1>7
  <1>12. \A m \in Modules : RowOf[m] # i => R.renderer.last[m] = r.last[m]
    BY <1>1, <1>2, <1>7
  <1>13. ASSUME NEW m \in w, r.last[m] \notin {None, st.snapshots[m].value}
         PROVE  m \in R.lit
    <2>1. st.duration \in Nat /\ st.duration # 0 /\ st.phase \in Nat
      BY <1>13 DEF Watched, States
    <2>2. noted.changed[m] = [at |-> st.phase, for |-> st.duration]
      BY <1>2, <1>13
    <2>3. Open(noted.changed[m], st.phase)
      BY <2>1, <2>2 DEF Open, Unchanging
    <2>4. new.changed[m] = noted.changed[m] /\ new.changed[m] # Unchanging
      BY <2>3, <1>1, <1>4 DEF Open
    <2>5. st.phase - new.changed[m].at < st.duration
      BY <2>1, <2>2, <2>4
    <2> QED BY <2>4, <2>5, <1>5
  <1>14. R.shine => /\ i = CommandRow /\ st.command.running
                    /\ FinishesSweep(i, st) \/ ~st.command.suppressed
    BY <1>5
  <1>15. \A m \in w : R.renderer.last[m] = st.snapshots[m].value
    BY <1>2, <1>7
  <1> QED
    BY <1>7, <1>8, <1>9, <1>10, <1>11, <1>12, <1>13, <1>14, <1>15 DEF RowOK

\* What the rows down to row i have done.
RowsOK(F, i, r, st) ==
    /\ F.renderer \in Renderers
    /\ \A m \in F.lit : m \in Modules /\ RowOf[m] <= i /\ Open(F.renderer.changed[m], st.phase)
    /\ \A m \in Modules : RowOf[m] > i => F.renderer.last[m] = r.last[m]
    /\ \A m \in Modules : RowOf[m] <= i /\ m \in Watched(RowOf[m], st) =>
          /\ F.renderer.last[m] = st.snapshots[m].value
          /\ r.last[m] \notin {None, st.snapshots[m].value} => m \in F.lit
    /\ F.shine => /\ CommandRow <= i /\ st.command.running
                  /\ FinishesSweep(CommandRow, st) \/ ~st.command.suppressed
    /\ i # 0 => /\ F.renderer.frameActive = FinishesSweep(i, st)
                /\ FinishesSweep(i, st) => F.flag
                /\ F.lit # {} => F.flag
    /\ i > 1 /\ FinishesSweep(i - 1, st) => F.flag

\* What holds above a row holds below it.
LEMMA OneRowMore ==
    ASSUME NEW i \in 1..RowCount, NEW r \in Renderers, NEW st \in States, NEW F,
           RowsOK(F, i - 1, r, st)
    PROVE  RowsOK(Below(F, i, st), i, r, st)
  <1> DEFINE R == RenderRow(i, F.renderer, st)
             B == Below(F, i, st)
  <1>1. F.renderer \in Renderers
    BY DEF RowsOK
  <1>2. RowOK(R, i, F.renderer, st)
    BY <1>1, RowDoes
  <1>3. /\ B.renderer = R.renderer /\ B.flag = R.flag
        /\ B.lit = R.lit \cup F.lit
        /\ B.shine = (R.shine \/ F.shine)
    BY DEF Below, RenderRow
  <1>4. \A m \in Modules : RowOf[m] \in 1..RowCount
    BY RowsAssumption
  <1>5. i \in Nat /\ i # 0 /\ i - 1 \in Nat /\ CommandRow \in Nat
    BY RowsAssumption
  <1>6. B.renderer \in Renderers
    BY <1>2, <1>3 DEF RowOK
  <1>7. \A m \in B.lit : m \in Modules /\ RowOf[m] <= i /\ Open(B.renderer.changed[m], st.phase)
    <2>1. ASSUME NEW m \in F.lit
          PROVE  m \in Modules /\ RowOf[m] <= i /\ Open(R.renderer.changed[m], st.phase)
      <3>1. m \in Modules /\ RowOf[m] <= i - 1 /\ Open(F.renderer.changed[m], st.phase)
        BY DEF RowsOK
      <3>2. RowOf[m] # i /\ RowOf[m] <= i
        BY <3>1, <1>4, <1>5
      <3> QED BY <3>1, <3>2, <1>2 DEF RowOK
    <2>2. ASSUME NEW m \in R.lit
          PROVE  m \in Modules /\ RowOf[m] <= i /\ Open(R.renderer.changed[m], st.phase)
      BY <1>2, <1>5 DEF RowOK
    <2> QED BY <2>1, <2>2, <1>3
  <1>8. \A m \in Modules : RowOf[m] > i => B.renderer.last[m] = r.last[m]
    <2> SUFFICES ASSUME NEW m \in Modules, RowOf[m] > i PROVE R.renderer.last[m] = r.last[m]
      BY <1>3
    <2>1. RowOf[m] # i /\ RowOf[m] > i - 1
      BY <1>4, <1>5
    <2> QED BY <2>1, <1>2 DEF RowOK, RowsOK
  <1>9. ASSUME NEW m \in Modules, RowOf[m] <= i, m \in Watched(RowOf[m], st)
        PROVE  /\ B.renderer.last[m] = st.snapshots[m].value
               /\ r.last[m] \notin {None, st.snapshots[m].value} => m \in B.lit
    <2>1. CASE RowOf[m] = i
      <3>1. F.renderer.last[m] = r.last[m]
        BY <2>1, <1>5 DEF RowsOK
      <3> QED BY <3>1, <2>1, <1>9, <1>2, <1>3 DEF RowOK
    <2>2. CASE RowOf[m] # i
      <3>1. RowOf[m] <= i - 1
        BY <2>2, <1>9, <1>4, <1>5
      <3>2. /\ F.renderer.last[m] = st.snapshots[m].value
            /\ r.last[m] \notin {None, st.snapshots[m].value} => m \in F.lit
        BY <3>1, <1>9 DEF RowsOK
      <3> QED BY <3>2, <2>2, <1>2, <1>3 DEF RowOK
    <2> QED BY <2>1, <2>2
  <1>10. B.shine => /\ CommandRow <= i /\ st.command.running
                    /\ FinishesSweep(CommandRow, st) \/ ~st.command.suppressed
    <2>1. CASE R.shine
      BY <2>1, <1>2, <1>5 DEF RowOK
    <2>2. CASE F.shine
      <3>1. CommandRow <= i - 1
        BY <2>2 DEF RowsOK
      <3>2. CommandRow <= i
        BY <3>1, <1>5
      <3> QED BY <3>2, <2>2 DEF RowsOK
    <2> QED BY <2>1, <2>2, <1>3
  <1>11. B.renderer.frameActive = FinishesSweep(i, st) /\ (FinishesSweep(i, st) => B.flag)
    BY <1>2, <1>3 DEF RowOK
  <1>12. B.lit # {} => B.flag
    <2> SUFFICES ASSUME NEW m \in B.lit PROVE B.flag
      OBVIOUS
    <2>1. m \in Modules /\ B.renderer.changed[m] # Unchanging
      BY <1>7 DEF Open
    <2> QED BY <2>1, <1>2, <1>3 DEF RowOK
  <1>13. ASSUME i > 1, FinishesSweep(i - 1, st) PROVE B.flag
    <2>1. i - 1 # 0
      BY <1>13, <1>5
    <2>2. F.renderer.frameActive
      BY <2>1, <1>13 DEF RowsOK
    <2> QED BY <2>2, <1>2, <1>3 DEF RowOK
  <1> QED
    BY <1>6, <1>7, <1>8, <1>9, <1>10, <1>11, <1>12, <1>13 DEF RowsOK

\* So it holds below the last row, whatever their number.
LEMMA AllRows ==
    ASSUME NEW r \in Renderers, NEW st \in States
    PROVE  RowsOK(Render(r, st), RowCount, r, st)
  <1> DEFINE F == RenderRows(r, st)
             Bad == {i \in 0..RowCount : ~RowsOK(F[i], i, r, st)}
  <1>0. RowCount \in Nat /\ RowCount # 0
    BY RowsAssumption
  <1>1. SUFFICES ASSUME Bad # {} PROVE FALSE
    BY <1>0 DEF Render
  <1>2. PICK i \in Bad : \A j \in Bad : i <= j
    <2>1. Bad \subseteq Nat
      BY <1>0
    <2> QED BY <2>1, <1>1, LeastNatural
  <1>3. i # 0
    <2>1. F[0] = Unrendered(r)
      BY RowsByStep
    <2>2. \A m \in Modules : RowOf[m] \in 1..RowCount
      BY RowsAssumption
    <2>3. RowsOK(Unrendered(r), 0, r, st)
      BY <2>2, <1>0 DEF RowsOK, Unrendered
    <2> QED BY <2>1, <2>3, <1>2
  <1>4. i \in 1..RowCount /\ i - 1 \in 0..RowCount /\ i - 1 \notin Bad
    BY <1>0, <1>2, <1>3
  <1>5. RowsOK(F[i - 1], i - 1, r, st)
    BY <1>4
  <1>6. F[i] = Below(F[i - 1], i, st)
    BY <1>4, RowsByStep
  <1>7. RowsOK(F[i], i, r, st)
    BY <1>4, <1>5, <1>6, OneRowMore
  <1> QED BY <1>7, <1>2

\* What a frame leaves behind.
LEMMA FrameDoes ==
    ASSUME NEW r \in Renderers, NEW st \in States
    PROVE  LET frame == Render(r, st)
           IN  /\ frame.renderer \in Renderers
               /\ frame.lit # {} => frame.flag
               /\ frame.shine => st.command.running
               /\ frame.shine /\ st.command.suppressed =>
                    frame.flag \/ CommandRow < RowCount - 1
               /\ \A m \in Modules :
                    st.duration # 0 /\ st.snapshots[m].value # None /\ ~st.snapshots[m].suppressed
                    => /\ frame.renderer.last[m] = st.snapshots[m].value
                       /\ r.last[m] \notin {None, st.snapshots[m].value} => m \in frame.lit
  <1> DEFINE frame == Render(r, st)
  <1>1. RowsOK(frame, RowCount, r, st)
    BY AllRows
  <1>2. /\ RowCount \in Nat /\ RowCount # 0 /\ CommandRow \in 1..RowCount
        /\ \A m \in Modules : RowOf[m] \in 1..RowCount
    BY RowsAssumption
  <1>3. ASSUME frame.shine, st.command.suppressed
        PROVE  frame.flag \/ CommandRow < RowCount - 1
    <2>1. FinishesSweep(CommandRow, st)
      BY <1>1, <1>3 DEF RowsOK
    <2>2. CASE CommandRow = RowCount
      BY <2>1, <2>2, <1>1, <1>2 DEF RowsOK
    <2>3. CASE CommandRow = RowCount - 1
      <3>1. RowCount > 1
        BY <2>3, <1>2
      <3> QED BY <3>1, <2>1, <2>3, <1>1, <1>2 DEF RowsOK
    <2> QED BY <2>2, <2>3, <1>2
  <1>4. ASSUME NEW m \in Modules, st.duration # 0, st.snapshots[m].value # None,
               ~st.snapshots[m].suppressed
        PROVE  /\ frame.renderer.last[m] = st.snapshots[m].value
               /\ r.last[m] \notin {None, st.snapshots[m].value} => m \in frame.lit
    <2>1. m \in Watched(RowOf[m], st) /\ RowOf[m] <= RowCount
      BY <1>2, <1>4 DEF Watched, Visible
    <2> QED BY <2>1, <1>1 DEF RowsOK
  <1> QED BY <1>1, <1>2, <1>3, <1>4 DEF RowsOK
-------------------------------------------------------------------------------
\* A frame, painted in a state like that.
LEMMA PaintDoes ==
    ASSUME AnimationInv, StateOK', Paint(renderer)
    PROVE  AnimationInv' /\ LitWithTheFrame
  <1> DEFINE st == State'
             frame == Render(renderer, st)
  <1>1. st \in States /\ renderer \in Renderers
    BY DEF StateOK, AnimationInv
  <1>2. /\ renderer' = frame.renderer /\ flag' = frame.flag
        /\ shown' = [snapshots |-> snapshots', lit |-> frame.lit, shine |-> frame.shine,
                     duration |-> duration']
    BY DEF Paint, State
  <1>3. /\ st.snapshots = snapshots' /\ st.command = command' /\ st.duration = duration'
    BY DEF State
  <1>4. /\ frame.renderer \in Renderers
        /\ frame.lit # {} => frame.flag
        /\ frame.shine => st.command.running
        /\ frame.shine /\ st.command.suppressed =>
             frame.flag \/ CommandRow < RowCount - 1
        /\ \A m \in Modules :
             st.duration # 0 /\ st.snapshots[m].value # None /\ ~st.snapshots[m].suppressed
             => /\ frame.renderer.last[m] = st.snapshots[m].value
                /\ renderer.last[m] \notin {None, st.snapshots[m].value} => m \in frame.lit
    BY <1>1, FrameDoes
  <1>5. renderer' \in Renderers
    BY <1>2, <1>4
  <1>6. Remembers'
    BY <1>2, <1>3, <1>4 DEF Remembers
  <1>7. NothingFreezes'
    BY <1>2, <1>3, <1>4 DEF NothingFreezes, GoesOn, StateOK
  <1>8. LitWithTheFrame
    BY <1>2, <1>3, <1>4 DEF LitWithTheFrame, AnimationInv, Remembers
  <1> QED BY <1>5, <1>6, <1>7, <1>8 DEF AnimationInv

\* Or the frame on the screen stays as it is.
LEMMA KeepDoes ==
    ASSUME AnimationInv, StateOK', UNCHANGED frameVars, NothingFreezes'
    PROVE  AnimationInv' /\ LitWithTheFrame
  BY DEF AnimationInv, frameVars, Remembers, LitWithTheFrame

\* The redraw at the end of a handler.
LEMMA RedrawDoes ==
    ASSUME AnimationInv, State' \in States, duration' \in Durations,
           NEW wanted \in BOOLEAN, RedrawAsked(renderer, wanted),
           command'.running /\ ~command'.suppressed => animating' \/ renewed'
    PROVE  AnimationInv' /\ LitWithTheFrame
  <1>1. StateOK'
    BY DEF StateOK, AnimationInv, RedrawAsked
  <1>2. CASE Paint(renderer)
    BY <1>1, <1>2, PaintDoes
  <1>3. CASE KeepFrame(renderer) /\ (due' = TRUE \/ late' = TRUE \/ burst' \/ altScreen')
    BY <1>1, <1>3, KeepDoes DEF KeepFrame, frameVars, NothingFreezes, GoesOn
  <1> QED BY <1>2, <1>3 DEF RedrawAsked

\* The bar before the first frame.
LEMMA AnimationAtFirst == AnimationInit => AnimationInv
  <1> SUFFICES ASSUME AnimationInit PROVE AnimationInv
    OBVIOUS
  <1>1. StateOK
    BY TimesAssumption DEF AnimationInit, StateOK, State, States, Snapshot
  <1>2. renderer \in Renderers
    BY DEF AnimationInit, NewRenderer, Renderers, Windows
  <1> QED
    BY <1>1, <1>2 DEF AnimationInit, AnimationInv, Remembers, Nothing, Snapshot, NothingFreezes, GoesOn

\* Every step keeps the invariant, and lights what has changed.
LEMMA AnimationStep ==
    AnimationInv /\ [AnimationNext]_animationVars => AnimationInv' /\ LitWithTheFrame
  <1> SUFFICES ASSUME AnimationInv, [AnimationNext]_animationVars
               PROVE  AnimationInv' /\ LitWithTheFrame
    OBVIOUS
  <1> USE DEF stateVars, screenVars, request, Redraw
  <1>0. /\ StateOK /\ State \in States /\ duration \in Durations
        /\ command \in [running : BOOLEAN, suppressed : BOOLEAN]
        /\ snapshots \in [Modules -> [value : Values \cup {None}, suppressed : BOOLEAN]]
        /\ phase \in Nat /\ duration \in Nat /\ due \in BOOLEAN
    BY DEF AnimationInv, StateOK, State, States
  <1>1. ASSUME ModuleUpdated PROVE AnimationInv' /\ LitWithTheFrame
    <2>1. snapshots' \in [Modules -> [value : Values \cup {None}, suppressed : BOOLEAN]]
      BY <1>0, <1>1 DEF ModuleUpdated, Snapshot
    <2>2. State' \in States
      BY <1>0, <1>1, <2>1 DEF ModuleUpdated, State, States
    <2> QED BY <1>0, <1>1, <2>2, RedrawDoes DEF ModuleUpdated, StateOK
  <1>2. ASSUME CommandAppears PROVE AnimationInv' /\ LitWithTheFrame
    <2>1. State' \in States
      BY <1>0, <1>2 DEF CommandAppears, State, States
    <2> QED BY <1>0, <1>2, <2>1, RedrawDoes DEF CommandAppears
  <1>3. ASSUME CommandWrites PROVE AnimationInv' /\ LitWithTheFrame
    BY <1>0, <1>3, KeepDoes
       DEF CommandWrites, StateOK, State, NothingFreezes, GoesOn, AnimationInv, frameVars
  <1>4. ASSUME CommandEnds PROVE AnimationInv' /\ LitWithTheFrame
    <2>1. State' \in States
      BY <1>0, <1>4 DEF CommandEnds, State, States
    <2> QED BY <1>0, <1>4, <2>1, RedrawDoes DEF CommandEnds
  <1>5. ASSUME Tick PROVE AnimationInv' /\ LitWithTheFrame
    <2>1. command' \in [running : BOOLEAN, suppressed : BOOLEAN]
      BY <1>0, <1>5 DEF Tick, TickCommand
    <2>2. phase' \in Nat
      BY <1>0, <1>5 DEF Tick
    <2>3. State' \in States
      BY <1>0, <1>5, <2>1, <2>2 DEF Tick, State, States
    <2>4. command'.running /\ ~command'.suppressed => animating' \/ renewed'
      BY <1>0, <1>5 DEF Tick, TickCommand
    <2> QED BY <1>0, <1>5, <2>3, <2>4, RedrawDoes DEF Tick
  <1>6. ASSUME RedrawRequest PROVE AnimationInv' /\ LitWithTheFrame
    <2>1. State' \in States
      BY <1>0, <1>6 DEF RedrawRequest, State
    <2>2. RedrawAsked(renderer, FALSE)
      BY <1>6 DEF RedrawRequest
    <2> QED BY <1>0, <1>6, <2>1, <2>2, RedrawDoes DEF RedrawRequest, StateOK
  <1>7. ASSUME WriteOutputFramed PROVE AnimationInv' /\ LitWithTheFrame
    <2>1. StateOK'
      BY <1>0, <1>7 DEF WriteOutputFramed, StateOK, State
    <2> QED BY <1>7, <2>1, PaintDoes DEF WriteOutputFramed
  <1>8. ASSUME ResizeRequest PROVE AnimationInv' /\ LitWithTheFrame
    <2>1. StateOK'
      BY <1>0, <1>8 DEF ResizeRequest, StateOK, State
    <2> QED BY <1>8, <2>1, KeepDoes DEF ResizeRequest, KeepFrame, NewWithState, frameVars,
           NothingFreezes, GoesOn
  <1>9. ASSUME ResizeCommit PROVE AnimationInv' /\ LitWithTheFrame
    <2>1. State' \in States
      BY <1>0, <1>9 DEF ResizeCommit, State
    <2> QED BY <1>0, <1>9, <2>1, RedrawDoes DEF ResizeCommit, NewWithState, StateOK
  <1>10. ASSUME ConfigReload PROVE AnimationInv' /\ LitWithTheFrame
    <2>1. State' \in States
      BY <1>0, <1>10, TimesAssumption DEF ConfigReload, State, States
    <2> QED BY <1>0, <1>10, <2>1, RedrawDoes DEF ConfigReload, NewWithState
  <1>11. ASSUME EnterAltScreen PROVE AnimationInv' /\ LitWithTheFrame
    BY <1>0, <1>11, KeepDoes DEF EnterAltScreen, StateOK, State, NothingFreezes, GoesOn
  <1>12. ASSUME LeaveAltScreen PROVE AnimationInv' /\ LitWithTheFrame
    <2>1. State' \in States
      BY <1>0, <1>12 DEF LeaveAltScreen, State
    <2> QED BY <1>0, <1>12, <2>1, RedrawDoes DEF LeaveAltScreen, StateOK
  <1>13. ASSUME UNCHANGED animationVars PROVE AnimationInv' /\ LitWithTheFrame
    <2>1. StateOK'
      BY <1>0, <1>13 DEF animationVars, StateOK, State
    <2>2. NothingFreezes'
      BY <1>13 DEF animationVars, frameVars, NothingFreezes, GoesOn, AnimationInv
    <2> QED BY <1>13, <2>1, <2>2, KeepDoes DEF animationVars
  <1> QED
    BY <1>1, <1>2, <1>3, <1>4, <1>5, <1>6, <1>7, <1>8, <1>9, <1>10, <1>11, <1>12, <1>13
       DEF AnimationNext

\* While a frame on the screen shows something that still moves, a redraw is
\* scheduled (Bar.Render and the loop's timer), however many rows the bar has,
\* unless one was put off and its timer never started.
THEOREM AnimationGoesOn == AnimationSpec => []NothingFreezes
  <1>1. AnimationInv => NothingFreezes
    BY DEF AnimationInv
  <1> QED BY <1>1, AnimationAtFirst, AnimationStep, PTL DEF AnimationSpec

\* A redraw lights what has changed since the last one, and lights it with the
\* frame that shows it.
THEOREM ChangesCatchTheEye == AnimationSpec => ChangesAreLit
  <1>1. AnimationInv /\ [AnimationNext]_animationVars => [LitWithTheFrame]_animationVars
    BY AnimationStep
  <1> QED BY <1>1, AnimationAtFirst, AnimationStep, PTL DEF AnimationSpec, ChangesAreLit
-------------------------------------------------------------------------------
(* Sequences: filtering and flattening. *)

\* Induction over sequences, with a set for the predicate.
LEMMA SeqByAppend ==
    ASSUME NEW T, NEW G \in SUBSET Seq(T), <<>> \in G,
           \A s \in G, x \in T : Append(s, x) \in G
    PROVE  Seq(T) \subseteq G
  <1> DEFINE Bad == {n \in Nat : \E s \in Seq(T) : Len(s) = n /\ s \notin G}
  <1>1. SUFFICES ASSUME Bad # {} PROVE FALSE
    <2>1. \A s \in Seq(T) : Len(s) \in Nat
      BY LenProperties
    <2> QED BY <2>1
  <1>2. PICK n \in Bad : \A m \in Bad : n <= m
    BY <1>1, LeastNatural
  <1>3. PICK s \in Seq(T) : Len(s) = n /\ s \notin G
    BY <1>2
  <1>4. s # <<>>
    BY <1>3
  <1>5. PICK f \in Seq(T), x \in T : s = Append(f, x)
    BY <1>4, SequenceEmptyOrAppend
  <1>6. Len(f) \in Nat /\ n = Len(f) + 1
    BY <1>3, <1>5, AppendProperties, LenProperties
  <1>7. Len(f) \notin Bad
    <2> HIDE DEF Bad
    <2> SUFFICES ASSUME Len(f) \in Bad PROVE FALSE
      OBVIOUS
    <2>1. n <= Len(f)
      BY <1>2
    <2> QED BY <2>1, <1>6
  <1>8. f \in G
    BY <1>6, <1>7
  <1> QED BY <1>3, <1>5, <1>8

\* f is the recursion by which Only filters s.
IsOnly(f, S, s) ==
    f = [n \in 0..Len(s) |->
            IF n = 0 THEN <<>>
            ELSE IF s[n] \in S THEN Append(f[n - 1], s[n]) ELSE f[n - 1]]

\* The recursion that filters a sequence has at most one solution.
LEMMA OnlyUnique ==
    ASSUME NEW T, NEW S, NEW s \in Seq(T), NEW f, NEW g, IsOnly(f, S, s), IsOnly(g, S, s)
    PROVE  f = g
  <1> DEFINE Bad == {n \in 0..Len(s) : f[n] # g[n]}
  <1>0. Len(s) \in Nat
    BY LenProperties
  <1>1. SUFFICES ASSUME Bad # {} PROVE FALSE
    BY DEF IsOnly
  <1>2. PICK n \in Bad : \A m \in Bad : n <= m
    <2>1. Bad \subseteq Nat
      BY <1>0
    <2> QED BY <2>1, <1>1, LeastNatural
  <1>3. n # 0
    BY <1>0, <1>2 DEF IsOnly
  <1>4. n - 1 \in 0..Len(s) /\ n - 1 \notin Bad
    BY <1>0, <1>2, <1>3
  <1>5. f[n - 1] = g[n - 1]
    BY <1>4
  <1>6. f[n] = g[n]
    <2> HIDE DEF Bad
    <2>1. n \in 0..Len(s) /\ n # 0
      BY <1>2, <1>3 DEF Bad
    <2>2. f[n] = IF s[n] \in S THEN Append(f[n - 1], s[n]) ELSE f[n - 1]
      BY ONLY <2>1, IsOnly(f, S, s), Zenon DEF IsOnly
    <2>3. g[n] = IF s[n] \in S THEN Append(g[n - 1], s[n]) ELSE g[n - 1]
      BY ONLY <2>1, IsOnly(g, S, s), Zenon DEF IsOnly
    <2> QED BY ONLY <1>5, <2>2, <2>3
  <1> QED BY <1>2, <1>6

\* So Only is the last value of any solution.
LEMMA OnlyIs ==
    ASSUME NEW T, NEW S, NEW s \in Seq(T), NEW f, IsOnly(f, S, s)
    PROVE  Only(S, s) = f[Len(s)]
  <1> DEFINE u == CHOOSE g : g = [n \in 0..Len(s) |->
            IF n = 0 THEN <<>>
            ELSE IF s[n] \in S THEN Append(g[n - 1], s[n]) ELSE g[n - 1]]
  <1>1. \E g : g = [n \in 0..Len(s) |->
            IF n = 0 THEN <<>>
            ELSE IF s[n] \in S THEN Append(g[n - 1], s[n]) ELSE g[n - 1]]
    BY DEF IsOnly
  <1>2. u = [n \in 0..Len(s) |->
            IF n = 0 THEN <<>>
            ELSE IF s[n] \in S THEN Append(u[n - 1], s[n]) ELSE u[n - 1]]
    BY <1>1
  <1>3. IsOnly(u, S, s)
    BY <1>2 DEF IsOnly
  <1>4. u = f
    BY <1>3, OnlyUnique
  <1>5. Only(S, s) = u[Len(s)]
    BY DEF Only
  <1> QED BY <1>4, <1>5

\* The function for a sequence with one more element.
LEMMA OnlyStep ==
    ASSUME NEW T, NEW S, NEW s \in Seq(T), NEW x \in T, NEW f, IsOnly(f, S, s)
    PROVE  LET l == Len(s)
           IN  IsOnly([n \in 0..(l + 1) |->
                         IF n = l + 1
                         THEN IF x \in S THEN Append(f[l], x) ELSE f[l]
                         ELSE f[n]], S, Append(s, x))
  <1>1. PICK l \in Nat : l = Len(s)
    BY LenProperties
  <1>2. PICK a : a = Append(s, x)
    OBVIOUS
  <1>3. Len(a) = l + 1 /\ a[l + 1] = x /\ \A n \in 1..l : a[n] = s[n]
    BY <1>1, <1>2, AppendProperties
  <1> DEFINE g == [n \in 0..(l + 1) |->
                      IF n = l + 1
                      THEN IF x \in S THEN Append(f[l], x) ELSE f[l]
                      ELSE f[n]]
  <1>4. \A n \in 0..l :
           f[n] = IF n = 0 THEN <<>>
                  ELSE IF s[n] \in S THEN Append(f[n - 1], s[n]) ELSE f[n - 1]
    BY <1>1 DEF IsOnly
  <1>5. \A n \in 0..(l + 1) :
           g[n] = IF n = 0 THEN <<>>
                  ELSE IF a[n] \in S THEN Append(g[n - 1], a[n]) ELSE g[n - 1]
    <2> SUFFICES ASSUME NEW n \in 0..(l + 1)
                 PROVE  g[n] = IF n = 0 THEN <<>>
                               ELSE IF a[n] \in S THEN Append(g[n - 1], a[n]) ELSE g[n - 1]
      OBVIOUS
    <2>1. CASE n = l + 1
      <3>1. g[n - 1] = f[l] /\ a[n] = x /\ n # 0
        BY <2>1, <1>3
      <3> QED BY <3>1, <2>1
    <2>2. CASE n \in 1..l
      <3>1. g[n - 1] = f[n - 1] /\ a[n] = s[n] /\ g[n] = f[n] /\ n # 0 /\ n \in 0..l
        BY <2>2, <1>3
      <3> QED BY <3>1, <1>4
    <2>3. CASE n = 0
      BY <2>3, <1>4
    <2> QED BY <2>1, <2>2, <2>3
  <1> HIDE DEF g
  <1>6. g = [n \in 0..(l + 1) |-> g[n]]
    BY DEF g
  <1>7. IsOnly(g, S, a)
    BY <1>3, <1>5, <1>6 DEF IsOnly
  <1> QED BY <1>1, <1>2, <1>7 DEF g

\* There is one.
LEMMA OnlyExists ==
    ASSUME NEW T, NEW S, NEW s \in Seq(T)
    PROVE  \E f : IsOnly(f, S, s)
  <1> DEFINE G == {t \in Seq(T) : \E f : IsOnly(f, S, t)}
  <1>1. <<>> \in G
    <2>1. IsOnly([n \in 0..0 |-> <<>>], S, <<>>)
      BY DEF IsOnly
    <2> QED BY <2>1
  <1>2. ASSUME NEW t \in G, NEW x \in T
        PROVE  Append(t, x) \in G
    <2>1. PICK f : IsOnly(f, S, t)
      BY <1>2
    <2>2. \E g : IsOnly(g, S, Append(t, x))
      BY <2>1, OnlyStep
    <2>3. Append(t, x) \in Seq(T)
      BY AppendProperties
    <2> QED BY <2>2, <2>3
  <1>3. Seq(T) \subseteq G
    BY <1>1, <1>2, SeqByAppend
  <1> QED BY <1>3

\* Filtering nothing, one element more, and what comes out.
LEMMA OnlyOfEmpty == ASSUME NEW S PROVE Only(S, <<>>) = <<>>
  <1>1. IsOnly([n \in 0..0 |-> <<>>], S, <<>>)
    BY DEF IsOnly
  <1>2. <<>> \in Seq({})
    BY EmptySeq
  <1>3. Only(S, <<>>) = [n \in 0..0 |-> <<>>][Len(<<>>)]
    BY <1>1, <1>2, OnlyIs
  <1> QED BY <1>3

\* One element more.
LEMMA OnlyOfAppend ==
    ASSUME NEW T, NEW S, NEW s \in Seq(T), NEW x \in T
    PROVE  Only(S, Append(s, x)) = IF x \in S THEN Append(Only(S, s), x) ELSE Only(S, s)
  <1>1. PICK f : IsOnly(f, S, s)
    BY OnlyExists
  <1>2. PICK l \in Nat : l = Len(s)
    BY LenProperties
  <1> DEFINE g == [n \in 0..(l + 1) |->
                      IF n = l + 1
                      THEN IF x \in S THEN Append(f[l], x) ELSE f[l]
                      ELSE f[n]]
  <1>3. IsOnly(g, S, Append(s, x))
    BY <1>1, <1>2, OnlyStep
  <1>4. Append(s, x) \in Seq(T) /\ Len(Append(s, x)) = l + 1
    BY <1>2, AppendProperties
  <1>5. Only(S, Append(s, x)) = g[l + 1]
    <2> HIDE DEF g
    <2> QED BY <1>3, <1>4, OnlyIs
  <1>6. Only(S, s) = f[l]
    BY <1>1, <1>2, OnlyIs
  <1> QED BY <1>5, <1>6

\* What is left is a sequence of what was asked for.
LEMMA OnlyType ==
    ASSUME NEW T, NEW S, NEW s \in Seq(T)
    PROVE  Only(S, s) \in Seq(T) /\ Only(S, s) \in Seq(S)
  <1> DEFINE G == {t \in Seq(T) : Only(S, t) \in Seq(T) /\ Only(S, t) \in Seq(S)}
  <1>1. <<>> \in G
    BY OnlyOfEmpty, EmptySeq
  <1>2. ASSUME NEW t \in G, NEW x \in T PROVE Append(t, x) \in G
    <2>1. Append(t, x) \in Seq(T)
      BY AppendProperties
    <2>2. Only(S, Append(t, x)) = IF x \in S THEN Append(Only(S, t), x) ELSE Only(S, t)
      BY OnlyOfAppend
    <2>3. Append(Only(S, t), x) \in Seq(T) /\ (x \in S => Append(Only(S, t), x) \in Seq(S))
      BY AppendProperties
    <2> QED BY <2>1, <2>2, <2>3
  <1>3. Seq(T) \subseteq G
    BY <1>1, <1>2, SeqByAppend
  <1> QED BY <1>3

\* An element behind a concatenation is one behind its second part.
LEMMA ConcatAppend ==
    ASSUME NEW T, NEW s \in Seq(T), NEW t \in Seq(T), NEW x \in T
    PROVE  s \o Append(t, x) = Append(s \o t, x)
  <1>1. /\ <<x>> \in Seq(T) /\ Append(t, x) = t \o <<x>>
        /\ s \o t \in Seq(T) /\ Append(s \o t, x) = (s \o t) \o <<x>>
    BY AppendIsConcat, ConcatProperties
  <1> QED BY <1>1, ConcatAssociative

\* Filtering a concatenation filters its parts.
LEMMA OnlyOfConcat ==
    ASSUME NEW T, NEW S, NEW s \in Seq(T), NEW t \in Seq(T)
    PROVE  Only(S, s \o t) = Only(S, s) \o Only(S, t)
  <1> DEFINE G == {u \in Seq(T) : Only(S, s \o u) = Only(S, s) \o Only(S, u)}
  <1>0. Only(S, s) \in Seq(T)
    BY OnlyType
  <1>1. <<>> \in G
    BY <1>0, OnlyOfEmpty, ConcatEmptySeq, EmptySeq
  <1>2. ASSUME NEW u \in G, NEW x \in T PROVE Append(u, x) \in G
    <2>1. u \in Seq(T) /\ Append(u, x) \in Seq(T) /\ s \o u \in Seq(T)
      BY AppendProperties, ConcatProperties
    <2>2. s \o Append(u, x) = Append(s \o u, x)
      BY <2>1, ConcatAppend
    <2>3. Only(S, Append(s \o u, x)) =
           IF x \in S THEN Append(Only(S, s \o u), x) ELSE Only(S, s \o u)
      <3>1. PICK v \in Seq(T) : v = s \o u
        BY <2>1
      <3>2. Only(S, Append(v, x)) = IF x \in S THEN Append(Only(S, v), x) ELSE Only(S, v)
        BY OnlyOfAppend
      <3> QED BY <3>1, <3>2
    <2>4. Only(S, Append(u, x)) = IF x \in S THEN Append(Only(S, u), x) ELSE Only(S, u)
      BY <2>1, OnlyOfAppend
    <2>5. Only(S, u) \in Seq(T)
      BY <2>1, OnlyType
    <2>6. Only(S, s \o u) = Only(S, s) \o Only(S, u)
      OBVIOUS
    <2>7. Append(Only(S, s) \o Only(S, u), x) = Only(S, s) \o Append(Only(S, u), x)
      <3>1. PICK a \in Seq(T), b \in Seq(T) : a = Only(S, s) /\ b = Only(S, u)
        BY <1>0, <2>5
      <3>2. a \o Append(b, x) = Append(a \o b, x)
        BY ConcatAppend
      <3> QED BY <3>1, <3>2
    <2>8. Only(S, s \o Append(u, x)) = Only(S, s) \o Only(S, Append(u, x))
      BY <2>2, <2>3, <2>4, <2>6, <2>7
    <2> QED BY <2>1, <2>8
  <1>3. Seq(T) \subseteq G
    BY <1>1, <1>2, SeqByAppend
  <1> QED BY <1>3

\* Filtering again changes nothing.
LEMMA OnlyTwice ==
    ASSUME NEW T, NEW S, NEW s \in Seq(T)
    PROVE  Only(S, Only(S, s)) = Only(S, s)
  <1> DEFINE G == {t \in Seq(T) : Only(S, Only(S, t)) = Only(S, t)}
  <1>1. <<>> \in G
    BY OnlyOfEmpty, EmptySeq
  <1>2. ASSUME NEW t \in G, NEW x \in T PROVE Append(t, x) \in G
    <2>1. Append(t, x) \in Seq(T)
      BY AppendProperties
    <2>2. Only(S, Append(t, x)) = IF x \in S THEN Append(Only(S, t), x) ELSE Only(S, t)
      BY OnlyOfAppend
    <2>3. Only(S, t) \in Seq(T)
      BY OnlyType
    <2>4. Only(S, Append(Only(S, t), x)) =
             IF x \in S THEN Append(Only(S, Only(S, t)), x) ELSE Only(S, Only(S, t))
      BY <2>3, OnlyOfAppend
    <2> QED BY <2>1, <2>2, <2>4
  <1>3. Seq(T) \subseteq G
    BY <1>1, <1>2, SeqByAppend
  <1> QED BY <1>3

\* The elements of a sequence with one more.
LEMMA RangeOfAppend ==
    ASSUME NEW T, NEW s \in Seq(T), NEW x \in T
    PROVE  Range(Append(s, x)) = Range(s) \cup {x}
  <1>1. Append(s, x) = s \o <<x>>
    BY AppendIsConcat
  <1>2. PICK e \in Seq(T) : e = <<x>>
    <2>1. <<x>> \in Seq(T)
      BY SMT
    <2> QED BY <2>1, Zenon
  <1>3. Range(e) = {x}
    BY <1>2 DEF Range
  <1>4. Range(s \o e) = Range(s) \cup Range(e)
    BY RangeConcatenation
  <1> QED BY <1>1, <1>2, <1>3, <1>4

\* Nothing that was asked for is left out.
LEMMA OnlyRange ==
    ASSUME NEW T, NEW S, NEW s \in Seq(T)
    PROVE  Range(Only(S, s)) = Range(s) \cap S
  <1> DEFINE G == {t \in Seq(T) : Range(Only(S, t)) = Range(t) \cap S}
  <1>1. <<>> \in G
    BY OnlyOfEmpty, EmptySeq DEF Range
  <1>2. ASSUME NEW t \in G, NEW x \in T PROVE Append(t, x) \in G
    <2>1. Append(t, x) \in Seq(T) /\ Only(S, t) \in Seq(T)
      BY AppendProperties, OnlyType
    <2>2. Only(S, Append(t, x)) = IF x \in S THEN Append(Only(S, t), x) ELSE Only(S, t)
      BY OnlyOfAppend
    <2>3. /\ Range(Append(t, x)) = Range(t) \cup {x}
          /\ Range(Append(Only(S, t), x)) = Range(Only(S, t)) \cup {x}
      BY <2>1, RangeOfAppend
    <2> QED BY <2>1, <2>2, <2>3
  <1>3. Seq(T) \subseteq G
    BY <1>1, <1>2, SeqByAppend
  <1> QED BY <1>3

\* f is the recursion by which FlattenSeq concatenates ss.
IsFlat(f, ss) ==
    f = [i \in 1..Len(ss) |-> IF i = 1 THEN ss[i] ELSE f[i - 1] \o ss[i]]

\* FlattenSeq is a recursion of the same kind: at most one solution,
LEMMA FlatUnique ==
    ASSUME NEW T, NEW ss \in Seq(T), NEW f, NEW g, IsFlat(f, ss), IsFlat(g, ss)
    PROVE  f = g
  <1>0. PICK l \in Nat : l = Len(ss)
    BY LenProperties
  <1>1. /\ f = [i \in 1..l |-> f[i]]
        /\ \A i \in 1..l : f[i] = IF i = 1 THEN ss[i] ELSE f[i - 1] \o ss[i]
    BY <1>0, Zenon DEF IsFlat
  <1>2. /\ g = [i \in 1..l |-> g[i]]
        /\ \A i \in 1..l : g[i] = IF i = 1 THEN ss[i] ELSE g[i - 1] \o ss[i]
    BY <1>0, Zenon DEF IsFlat
  <1> DEFINE Bad == {n \in 1..l : f[n] # g[n]}
  <1>3. SUFFICES ASSUME Bad # {} PROVE FALSE
    <2>1. \A i \in 1..l : f[i] = g[i]
      BY <1>3
    <2> QED BY <2>1, <1>1, <1>2, Zenon
  <1>4. PICK n \in Bad : \A m \in Bad : n <= m
    <2>1. Bad \subseteq Nat
      OBVIOUS
    <2> QED BY <2>1, <1>3, LeastNatural
  <1>5. n # 1
    BY <1>1, <1>2, <1>4
  <1>6. n - 1 \in 1..l /\ n - 1 \notin Bad
    BY <1>4, <1>5
  <1>7. f[n - 1] = g[n - 1]
    BY <1>6
  <1>8. f[n] = g[n]
    <2>1. n \in 1..l
      BY <1>4
    <2>2. f[n] = f[n - 1] \o ss[n] /\ g[n] = g[n - 1] \o ss[n]
      BY <2>1, <1>1, <1>2, <1>5, Zenon
    <2> QED BY <2>2, <1>7, Zenon
  <1> QED BY <1>4, <1>8

\* FlattenSeq is the last value of any,
LEMMA FlatIs ==
    ASSUME NEW T, NEW ss \in Seq(T), ss # <<>>, NEW f, IsFlat(f, ss)
    PROVE  FlattenSeq(ss) = f[Len(ss)]
  <1> DEFINE u == CHOOSE g : g = [i \in 1..Len(ss) |-> IF i = 1 THEN ss[i] ELSE g[i - 1] \o ss[i]]
  <1>1. \E g : g = [i \in 1..Len(ss) |-> IF i = 1 THEN ss[i] ELSE g[i - 1] \o ss[i]]
    BY DEF IsFlat
  <1>2. u = [i \in 1..Len(ss) |-> IF i = 1 THEN ss[i] ELSE u[i - 1] \o ss[i]]
    BY <1>1
  <1>3. IsFlat(u, ss)
    BY <1>2 DEF IsFlat
  <1>4. u = f
    BY <1>3, FlatUnique
  <1>5. Len(ss) # 0
    BY EmptySeq
  <1>6. FlattenSeq(ss) = u[Len(ss)]
    BY <1>5 DEF FlattenSeq
  <1> QED BY <1>4, <1>6

\* one for a sequence gives one for a sequence with one more,
LEMMA FlatStep ==
    ASSUME NEW T, NEW ss \in Seq(T), NEW x \in T, NEW f, IsFlat(f, ss)
    PROVE  LET l == Len(ss)
           IN  IsFlat([i \in 1..(l + 1) |->
                         IF i = l + 1 THEN IF i = 1 THEN x ELSE f[l] \o x ELSE f[i]], Append(ss, x))
  <1>1. PICK l \in Nat : l = Len(ss)
    BY LenProperties
  <1>2. PICK a : a = Append(ss, x)
    OBVIOUS
  <1>3. Len(a) = l + 1 /\ a[l + 1] = x /\ \A n \in 1..l : a[n] = ss[n]
    BY <1>1, <1>2, AppendProperties
  <1> DEFINE g == [i \in 1..(l + 1) |->
                     IF i = l + 1 THEN IF i = 1 THEN x ELSE f[l] \o x ELSE f[i]]
  <1>4. \A i \in 1..l : f[i] = IF i = 1 THEN ss[i] ELSE f[i - 1] \o ss[i]
    BY <1>1 DEF IsFlat
  <1>5. \A i \in 1..(l + 1) : g[i] = IF i = 1 THEN a[i] ELSE g[i - 1] \o a[i]
    <2> SUFFICES ASSUME NEW i \in 1..(l + 1)
                 PROVE  g[i] = IF i = 1 THEN a[i] ELSE g[i - 1] \o a[i]
      OBVIOUS
    <2>1. CASE i = 1
      BY <2>1, <1>3, <1>4
    <2>2. CASE i = l + 1 /\ i # 1
      <3>1. g[i - 1] = f[l] /\ a[i] = x /\ g[i] = f[l] \o x
        BY <2>2, <1>3
      <3> QED BY <3>1, <2>2
    <2>3. CASE i # 1 /\ i # l + 1
      <3>1. g[i - 1] = f[i - 1] /\ a[i] = ss[i] /\ g[i] = f[i] /\ i \in 1..l
        BY <2>3, <1>3
      <3> QED BY <3>1, <2>3, <1>4
    <2> QED BY <2>1, <2>2, <2>3
  <1> HIDE DEF g
  <1>6. g = [i \in 1..(l + 1) |-> g[i]]
    BY DEF g
  <1>7. IsFlat(g, a)
    BY <1>3, <1>5, <1>6 DEF IsFlat
  <1> QED BY <1>1, <1>2, <1>7 DEF g

\* and there is one.
LEMMA FlatExists ==
    ASSUME NEW T, NEW ss \in Seq(T)
    PROVE  \E f : IsFlat(f, ss)
  <1> DEFINE G == {t \in Seq(T) : \E f : IsFlat(f, t)}
  <1>1. <<>> \in G
    <2>1. IsFlat([i \in 1..0 |-> <<>>], <<>>)
      BY DEF IsFlat
    <2> QED BY <2>1
  <1>2. ASSUME NEW t \in G, NEW x \in T
        PROVE  Append(t, x) \in G
    <2>1. PICK f : IsFlat(f, t)
      BY <1>2
    <2>2. \E g : IsFlat(g, Append(t, x))
      BY <2>1, FlatStep
    <2>3. Append(t, x) \in Seq(T)
      BY AppendProperties
    <2> QED BY <2>2, <2>3
  <1>3. Seq(T) \subseteq G
    BY <1>1, <1>2, SeqByAppend
  <1> QED BY <1>3

\* No sequences, flattened.
LEMMA FlatOfEmpty == FlattenSeq(<<>>) = <<>>
  BY DEF FlattenSeq

\* One sequence more at the end.
LEMMA FlatOfAppend ==
    ASSUME NEW T, NEW ss \in Seq(Seq(T)), NEW s \in Seq(T)
    PROVE  FlattenSeq(Append(ss, s)) = FlattenSeq(ss) \o s
  <1>1. PICK f : IsFlat(f, ss)
    BY FlatExists
  <1>2. PICK l \in Nat : l = Len(ss)
    BY LenProperties
  <1> DEFINE g == [i \in 1..(l + 1) |->
                     IF i = l + 1 THEN IF i = 1 THEN s ELSE f[l] \o s ELSE f[i]]
  <1>3. IsFlat(g, Append(ss, s))
    BY <1>1, <1>2, FlatStep
  <1>4. Append(ss, s) \in Seq(Seq(T)) /\ Append(ss, s) # <<>> /\ Len(Append(ss, s)) = l + 1
    BY <1>2, AppendProperties
  <1>5. FlattenSeq(Append(ss, s)) = g[l + 1]
    <2> HIDE DEF g
    <2> QED BY <1>3, <1>4, FlatIs
  <1>6. CASE ss = <<>>
    <2>1. l = 0
      BY <1>2, <1>6
    <2>2. g[l + 1] = s
      BY <2>1
    <2>3. FlattenSeq(ss) = <<>>
      BY <1>6, FlatOfEmpty
    <2> QED BY <1>5, <2>2, <2>3, ConcatEmptySeq
  <1>7. CASE ss # <<>>
    <2>1. l # 0
      BY <1>2, <1>7, EmptySeq
    <2>2. FlattenSeq(ss) = f[l]
      BY <1>1, <1>2, <1>7, FlatIs
    <2> QED BY <1>5, <2>1, <2>2
  <1> QED BY <1>6, <1>7

\* The type of what is flattened.
LEMMA FlatType ==
    ASSUME NEW T, NEW ss \in Seq(Seq(T))
    PROVE  FlattenSeq(ss) \in Seq(T)
  <1> DEFINE G == {t \in Seq(Seq(T)) : FlattenSeq(t) \in Seq(T)}
  <1>1. <<>> \in G
    BY FlatOfEmpty, EmptySeq
  <1>2. ASSUME NEW t \in G, NEW x \in Seq(T) PROVE Append(t, x) \in G
    <2>1. Append(t, x) \in Seq(Seq(T))
      BY AppendProperties
    <2>2. FlattenSeq(Append(t, x)) = FlattenSeq(t) \o x
      BY FlatOfAppend
    <2>3. FlattenSeq(t) \o x \in Seq(T)
      BY ConcatProperties
    <2> QED BY <2>1, <2>2, <2>3
  <1>3. Seq(Seq(T)) \subseteq G
    BY <1>1, <1>2, SeqByAppend
  <1> QED BY <1>3

\* The first sequence is the front of what is flattened.
LEMMA FlatOfFirst ==
    ASSUME NEW T, NEW ss \in Seq(Seq(T)), ss # <<>>
    PROVE  FlattenSeq(ss) = Head(ss) \o FlattenSeq(Tail(ss))
  <1> DEFINE G == {t \in Seq(Seq(T)) :
                     t # <<>> => FlattenSeq(t) = Head(t) \o FlattenSeq(Tail(t))}
  <1>1. <<>> \in G
    BY EmptySeq
  <1>2. ASSUME NEW t \in G, NEW x \in Seq(T) PROVE Append(t, x) \in G
    <2>1. /\ Append(t, x) \in Seq(Seq(T)) /\ Append(t, x) # <<>>
          /\ FlattenSeq(Append(t, x)) = FlattenSeq(t) \o x
      BY AppendProperties, FlatOfAppend, ZenonT(60)
    <2>2. CASE t = <<>>
      <3>1. Head(Append(t, x)) = x /\ Tail(Append(t, x)) = <<>>
        BY <2>2, HeadTailAppend
      <3>2. FlattenSeq(t) \o x = x /\ x \o FlattenSeq(<<>>) = x
        BY <2>2, FlatOfEmpty, ConcatEmptySeq
      <3> QED BY <2>1, <3>1, <3>2
    <2>3. CASE t # <<>>
      <3>1. Head(Append(t, x)) = Head(t) /\ Tail(Append(t, x)) = Append(Tail(t), x)
        BY <2>3, HeadTailAppend
      <3>2. Head(t) \in Seq(T) /\ Tail(t) \in Seq(Seq(T))
        BY <2>3, HeadTailProperties
      <3>3. PICK u \in Seq(Seq(T)) : u = Tail(t)
        BY <3>2
      <3>4. FlattenSeq(Append(u, x)) = FlattenSeq(u) \o x /\ FlattenSeq(u) \in Seq(T)
        BY FlatOfAppend, FlatType
      <3>5. FlattenSeq(t) = Head(t) \o FlattenSeq(u)
        BY <2>3, <3>3
      <3>6. (Head(t) \o FlattenSeq(u)) \o x = Head(t) \o (FlattenSeq(u) \o x)
        <4>1. PICK a \in Seq(T), b \in Seq(T) : a = Head(t) /\ b = FlattenSeq(u)
          BY <3>2, <3>4
        <4>2. (a \o b) \o x = a \o (b \o x)
          <5> HIDE DEF G
          <5> QED BY ConcatAssociative, SMTT(30)
        <4> QED BY <4>1, <4>2
      <3> QED BY <2>1, <3>1, <3>3, <3>4, <3>5, <3>6
    <2> QED BY <2>1, <2>2, <2>3
  <1>3. Seq(Seq(T)) \subseteq G
    BY <1>1, <1>2, SeqByAppend
  <1> QED BY <1>3
-------------------------------------------------------------------------------
(* PositionQuery: inputs, the order of keys, tails. *)

\* What the reader, the buffer, the bus and the child hold.
Inputs == Seq(Symbols)

\* ConcatAssociative, for three sequences at hand.
Regroups(p, q, c) == (p \o q) \o c = p \o (q \o c)

LEMMA ConcatRegroups ==
    ASSUME NEW T, NEW p \in Seq(T), NEW q \in Seq(T), NEW c \in Seq(T)
    PROVE  Regroups(p, q, c)
  BY ConcatAssociative, SMTT(30) DEF Regroups

\* Concatenating inputs.
LEMMA InputsRegroup ==
    ASSUME NEW a \in Inputs, NEW b \in Inputs, NEW c \in Inputs
    PROVE  Regroups(a, b, c)
  BY ConcatRegroups DEF Inputs

LEMMA Assoc ==
    ASSUME NEW a \in Inputs, NEW b \in Inputs, NEW c \in Inputs
    PROVE  (a \o b) \o c = a \o (b \o c)
  BY ConcatAssociative DEF Inputs

\* The same, for types.
LEMMA Concat ==
    ASSUME NEW a \in Inputs, NEW b \in Inputs
    PROVE  a \o b \in Inputs
  BY ConcatProperties DEF Inputs

\* What keys and replies consist of.
LEMMA SymbolKinds ==
    /\ \A n \in 0..MaxKeys : {Key(n), Esc(n), FnTail(n), ShiftF3(n)} \subseteq Symbols
    /\ \A q \in Queries \cup {Child} : Reply(q) \in Symbols
  BY ParametersAssumption DEF Symbols, Key, Esc, FnTail, ShiftF3, Reply

\* Typed: its type and its elements, of two inputs, and twice.
LEMMA TypedType ==
    ASSUME NEW s \in Inputs
    PROVE  Typed(s) \in Inputs /\ Range(Typed(s)) = Range(s) \cap Pressed
  <1>1. Typed(s) \in Seq(Symbols)
    BY OnlyType DEF Inputs, Typed
  <1>2. Range(Typed(s)) = Range(s) \cap Pressed
    BY OnlyRange DEF Inputs, Typed
  <1> QED BY <1>1, <1>2 DEF Inputs

\* What was typed in two inputs.
LEMMA TypedConcat ==
    ASSUME NEW a \in Inputs, NEW b \in Inputs
    PROVE  Typed(a \o b) = Typed(a) \o Typed(b)
  BY OnlyOfConcat DEF Inputs, Typed

\* What was typed is all typed.
LEMMA TypedTwice == ASSUME NEW s \in Inputs PROVE Typed(Typed(s)) = Typed(s)
  BY OnlyTwice DEF Inputs, Typed

\* Taking a part out keeps the order.
LEMMA OrderedWithout ==
    ASSUME NEW a \in Inputs, NEW b \in Inputs, NEW c \in Inputs, Ordered(a \o (b \o c))
    PROVE  Ordered(a \o c)
  <1> DEFINE y == a \o (b \o c)
             z == a \o c
             from(i) == IF i <= Len(a) THEN i ELSE i + Len(b)
  <1>1. /\ Len(a) \in Nat /\ Len(b) \in Nat /\ Len(c) \in Nat
        /\ Len(y) = Len(a) + Len(b) + Len(c) /\ Len(z) = Len(a) + Len(c)
    BY DEF Inputs
  <1>2. \A i \in 1..Len(z) : from(i) \in 1..Len(y) /\ z[i] = y[from(i)]
    BY <1>1 DEF Inputs
  <1>3. \A i, j \in 1..Len(z) : i < j => from(i) < from(j)
    BY <1>1
  <1> HIDE DEF y, z, from
  <1>4. Ordered(y)
    BY DEF y
  <1>5. Ordered(z)
    BY <1>2, <1>3, <1>4 DEF Ordered
  <1> QED BY <1>5 DEF z

\* So does adding later keys at the end.
LEMMA OrderedWith ==
    ASSUME NEW a \in Inputs, NEW b \in Inputs, Ordered(a), Ordered(b),
           \A s \in Range(a), t \in Range(b) : s.key < t.key
    PROVE  Ordered(a \o b)
  <1>1. PICK m \in Nat, n \in Nat, z \in Inputs : m = Len(a) /\ n = Len(b) /\ z = a \o b
    BY LenProperties, Concat DEF Inputs
  <1>2. Len(z) = m + n /\ \A i \in 1..m + n : z[i] = IF i <= m THEN a[i] ELSE b[i - m]
    BY <1>1, ConcatProperties DEF Inputs
  <1>3. Range(a) = {a[i] : i \in 1..m} /\ Range(b) = {b[i] : i \in 1..n}
    BY <1>1, RangeEquality DEF Inputs
  <1>4. \A s, t \in Symbols : s.key < t.key => Rank(s) < Rank(t)
    <2> SUFFICES ASSUME NEW s \in Symbols, NEW t \in Symbols, s.key < t.key
                 PROVE  Rank(s) < Rank(t)
      OBVIOUS
    <2>1. s.key \in Nat /\ t.key \in Nat
      BY ParametersAssumption DEF Symbols
    <2> QED BY <2>1 DEF Rank
  <1>5. (\A i \in 1..m : a[i] \in Symbols) /\ (\A i \in 1..n : b[i] \in Symbols)
    BY <1>1, ElementOfSeq DEF Inputs
  <1>6. /\ \A i, j \in 1..m : i < j => Rank(a[i]) < Rank(a[j])
        /\ \A i, j \in 1..n : i < j => Rank(b[i]) < Rank(b[j])
    BY <1>1 DEF Ordered
  <1>7. ASSUME NEW i \in 1..m + n, NEW j \in 1..m + n, i < j
        PROVE  Rank(z[i]) < Rank(z[j])
    <2>1. CASE j <= m
      <3>1. i \in 1..m /\ j \in 1..m /\ i <= m
        BY <2>1, <1>7
      <3>2. z[i] = a[i] /\ z[j] = a[j]
        BY <2>1, <3>1, <1>2
      <3> QED BY <3>1, <3>2, <1>6, <1>7
    <2>2. CASE i > m
      <3>1. PICK k \in 1..n, l \in 1..n : k = i - m /\ l = j - m /\ k < l
        <4>1. i - m \in 1..n /\ j - m \in 1..n /\ i - m < j - m
          BY <2>2, <1>7
        <4> QED BY <4>1
      <3>2. ~(i <= m) /\ ~(j <= m)
        BY <2>2, <1>7
      <3>3. z[i] = b[k] /\ z[j] = b[l]
        BY <3>1, <3>2, <1>2, Zenon
      <3> QED BY <3>1, <3>3, <1>6, Zenon
    <2>3. CASE i <= m /\ j > m
      <3>1. PICK l \in 1..n : l = j - m
        BY <2>3, <1>7
      <3>2. i \in 1..m /\ ~(j <= m)
        BY <2>3
      <3>3. z[i] = a[i] /\ z[j] = b[l]
        BY <2>3, <3>1, <3>2, <1>2, Zenon
      <3>4. a[i].key < b[l].key
        BY <3>1, <3>2, <1>3, Zenon
      <3>5. Rank(a[i]) < Rank(b[l])
        BY <3>1, <3>2, <3>4, <1>4, <1>5, Zenon
      <3> QED BY <3>3, <3>5, Zenon
    <2> QED BY <2>1, <2>2, <2>3
  <1>8. Ordered(z)
    BY <1>2, <1>7, Zenon DEF Ordered
  <1> QED BY <1>1, <1>8, Zenon

\* Order in all is order from one to the next.
LEMMA OrderedIsInOrder ==
    ASSUME NEW y \in Inputs, Ordered(y)
    PROVE  \A i \in 1..Len(y) - 1 : Rank(y[i]) < Rank(y[i + 1])
  <1>1. Len(y) \in Nat
    BY LenProperties DEF Inputs
  <1>2. \A i \in 1..Len(y) - 1 : i \in 1..Len(y) /\ i + 1 \in 1..Len(y) /\ i < i + 1
    BY <1>1
  <1> QED BY <1>2 DEF Ordered

\* Tails follow their ESC in the back part of an input too.
LEMMA FollowBehind ==
    ASSUME NEW a \in Inputs, NEW b \in Inputs, TailsFollow(a \o b)
    PROVE  TailsFollow(b)
  <1> DEFINE z == a \o b
  <1>1. /\ Len(a) \in Nat /\ Len(b) \in Nat /\ Len(z) = Len(a) + Len(b)
        /\ \A i \in 1..Len(z) : z[i] = IF i <= Len(a) THEN a[i] ELSE b[i - Len(a)]
    BY ConcatProperties DEF Inputs
  <1>2. ASSUME NEW i \in 2..Len(b), IsTail(b[i])
        PROVE  b[i - 1].sym = "esc" /\ b[i - 1].key = b[i].key
    <2>1. PICK j \in 2..Len(z) : j = i + Len(a)
      BY <1>1
    <2>2. z[j] = b[i] /\ z[j - 1] = b[i - 1]
      BY <2>1, <1>1
    <2>3. IsTail(z[j])
      BY <2>2, <1>2
    <2>4. z[j - 1].sym = "esc" /\ z[j - 1].key = z[j].key
      BY <2>1, <2>3 DEF TailsFollow
    <2> QED BY <2>2, <2>4
  <1> QED BY <1>2 DEF TailsFollow

\* Input that does not begin with a tail may be added behind any other.
LEMMA FollowOn ==
    ASSUME NEW a \in Inputs, NEW b \in Inputs, TailsFollow(a), TailsFollow(b), b # <<>>,
           ~IsTail(b[1])
    PROVE  TailsFollow(a \o b)
  <1> DEFINE z == a \o b
  <1>1. /\ Len(a) \in Nat /\ Len(b) \in Nat /\ Len(z) = Len(a) + Len(b)
        /\ \A i \in 1..Len(z) : z[i] = IF i <= Len(a) THEN a[i] ELSE b[i - Len(a)]
    BY ConcatProperties DEF Inputs
  <1>2. ASSUME NEW i \in 2..Len(z), IsTail(z[i])
        PROVE  z[i - 1].sym = "esc" /\ z[i - 1].key = z[i].key
    <2>1. CASE i <= Len(a)
      <3>1. i \in 2..Len(a) /\ z[i] = a[i] /\ z[i - 1] = a[i - 1]
        BY <2>1, <1>1
      <3>2. IsTail(a[i])
        BY <3>1, <1>2
      <3> QED BY <3>1, <3>2 DEF TailsFollow
    <2>2. CASE i = Len(a) + 1
      <3>1. z[i] = b[1]
        BY <2>2, <1>1
      <3> QED BY <3>1, <1>2
    <2>3. CASE i > Len(a) + 1
      <3>1. PICK j \in 2..Len(b) : j = i - Len(a)
        BY <2>3, <1>1
      <3>2. z[i] = b[j] /\ z[i - 1] = b[j - 1]
        BY <3>1, <2>3, <1>1
      <3>3. IsTail(b[j])
        BY <3>2, <1>2
      <3> QED BY <3>2, <3>3 DEF TailsFollow
    <2> QED BY <2>1, <2>2, <2>3, <1>1
  <1> HIDE DEF z
  <1>3. TailsFollow(z)
    BY <1>2 DEF TailsFollow
  <1> QED BY <1>3 DEF z
-------------------------------------------------------------------------------
(* PositionQuery: the stream of input and what may happen to it. *)

\* Filtering what is all asked for.
LEMMA OnlyAll ==
    ASSUME NEW S, NEW s \in Seq(S)
    PROVE  Only(S, s) = s
  <1> DEFINE G == {t \in Seq(S) : Only(S, t) = t}
  <1>1. <<>> \in G
    BY OnlyOfEmpty, EmptySeq
  <1>2. ASSUME NEW t \in G, NEW x \in S PROVE Append(t, x) \in G
    <2>1. Append(t, x) \in Seq(S)
      BY AppendProperties
    <2>2. Only(S, Append(t, x)) = IF x \in S THEN Append(Only(S, t), x) ELSE Only(S, t)
      BY OnlyOfAppend
    <2> QED BY <2>1, <2>2
  <1>3. Seq(S) \subseteq G
    BY <1>1, <1>2, SeqByAppend
  <1> QED BY <1>3

\* What is typed and on its way is in order and accounted for.
Good(y, n, lost) == y \in Inputs /\ Ordered(y) /\ Accounted(y, n, lost)

\* Losing a part that is known to be lost.
LEMMA GoodLess ==
    ASSUME NEW a \in Inputs, NEW b \in Inputs, NEW c \in Inputs, NEW n, NEW lost, NEW more,
           Good(a \o (b \o c), n, lost), lost \subseteq more,
           \A s \in Range(b) : \E t \in more : t.key = s.key
    PROVE  Good(a \o c, n, more)
  <1>1. a \o c \in Inputs /\ b \o c \in Inputs
    BY Concat
  <1>2. Ordered(a \o c)
    BY OrderedWithout DEF Good
  <1>3. PICK bc \in Inputs : bc = b \o c
    BY <1>1
  <1>4. /\ Range(a \o bc) = Range(a) \cup Range(bc)
        /\ Range(b \o c) = Range(b) \cup Range(c)
        /\ Range(a \o c) = Range(a) \cup Range(c)
    BY RangeConcatenation, ZenonT(30) DEF Inputs
  <1>5. Accounted(a \o c, n, more)
    BY <1>3, <1>4 DEF Good, Accounted
  <1> QED BY <1>1, <1>2, <1>5 DEF Good

\* Typing the next key.
LEMMA GoodMore ==
    ASSUME NEW y \in Inputs, NEW b \in Inputs, NEW n \in Nat, NEW lost,
           Good(y, n, lost), Ordered(b), b # <<>>, \A s \in Range(b) : s.key = n + 1
    PROVE  Good(y \o b, n + 1, lost)
  <1>1. y \o b \in Inputs
    BY Concat
  <1>2. Range(y \o b) = Range(y) \cup Range(b) /\ Range(y) \subseteq Symbols
    BY RangeConcatenation, RangeOfSeq DEF Inputs
  <1>3. \A s \in Symbols : s.key \in Nat
    BY ParametersAssumption DEF Symbols
  <1>4. \A s \in Range(y) : s.key <= n
    BY DEF Good, Accounted
  <1>5. \A s \in Range(y), t \in Range(b) : s.key < t.key
    BY <1>2, <1>3, <1>4
  <1>6. Ordered(y \o b)
    BY <1>5, OrderedWith DEF Good
  <1>7. b[1] \in Range(b)
    <2>1. Len(b) \in Nat \ {0} /\ Range(b) = {b[i] : i \in 1..Len(b)}
      BY EmptySeq, RangeEquality DEF Inputs
    <2> QED BY <2>1
  <1>8. \A s \in Range(y \o b) : s.key <= n + 1
    BY <1>2, <1>3, <1>4
  <1>9. ASSUME NEW k \in 1..(n + 1)
        PROVE  \E s \in Range(y \o b) \cup lost : s.key = k
    <2>1. CASE k = n + 1
      BY <2>1, <1>2, <1>7
    <2>2. CASE k \in 1..n
      BY <2>2, <1>2 DEF Good, Accounted
    <2> QED BY <2>1, <2>2
  <1> QED BY <1>1, <1>6, <1>8, <1>9 DEF Good, Accounted

\* What reaches Filter's output was at the front of what it has not decided on.
LEMMA SplitTyped ==
    ASSUME NEW c \in Inputs, NEW f \in Inputs, NEW u \in Inputs
    PROVE  /\ c \o (f \o u) = (c \o f) \o u
           /\ Typed(c \o (f \o u)) = Typed(c \o f) \o Typed(u)
           /\ Typed(c \o f) \in Inputs /\ Typed(u) \in Inputs
  <1>1. c \o (f \o u) = (c \o f) \o u
    BY Assoc
  <1>2. c \o f \in Inputs
    BY Concat
  <1>3. Typed((c \o f) \o u) = Typed(c \o f) \o Typed(u)
    BY <1>2, TypedConcat
  <1> QED BY <1>1, <1>2, <1>3, TypedType

\* Concatenating nothing.
LEMMA EmptyIn == <<>> \in Inputs /\ (\A s \in Inputs : s \o <<>> = s /\ <<>> \o s = s)
  BY ConcatEmptySeq, EmptySeq DEF Inputs

\* The streams' types.
LEMMA StreamTypes ==
    ASSUME NEW b \in Seq(Seq(Symbols)), NEW o \in Inputs, NEW d \in Inputs, NEW p \in Inputs,
           NEW i \in Inputs
    PROVE  /\ FlattenSeq(b) \in Inputs /\ FlattenSeq(b) \o o \in Inputs
           /\ (d \o p) \o i \in Inputs
           /\ (FlattenSeq(b) \o o) \o ((d \o p) \o i) \in Inputs
  <1>1. FlattenSeq(b) \in Inputs
    BY FlatType DEF Inputs
  <1> QED BY <1>1, Concat

\* The part of IInv that is about the stream.
StreamOK ==
    /\ TailsFollow(Undecided)
    /\ Good(Typed(child \o InTransit), keys, Range(dropped) \cup Taken)

\* The same, of the state.
LEMMA TypesOfStream ==
    ASSUME TypeOK
    PROVE  /\ bus \in Seq(Seq(Symbols)) /\ out \in Inputs /\ data \in Inputs /\ buf \in Inputs
           /\ inp \in Inputs
           /\ child \in Inputs /\ dropped \in Inputs
           /\ FlattenSeq(bus) \in Inputs /\ Forwarded \in Inputs /\ Undecided \in Inputs
           /\ InTransit \in Inputs
           /\ keys \in Nat
  <1>1. /\ bus \in Seq(Seq(Symbols))
        /\ out \in Inputs /\ data \in Inputs /\ buf \in Inputs /\ inp \in Inputs
        /\ child \in Inputs /\ dropped \in Inputs
    BY Zenon DEF TypeOK, Inputs
  <1>2. keys \in Nat
    BY ParametersAssumption DEF TypeOK
  <1>3. /\ FlattenSeq(bus) \in Inputs /\ FlattenSeq(bus) \o out \in Inputs
        /\ (data \o buf) \o inp \in Inputs
        /\ (FlattenSeq(bus) \o out) \o ((data \o buf) \o inp) \in Inputs
    BY <1>1, StreamTypes, Zenon
  <1> QED BY <1>1, <1>2, <1>3, Zenon DEF Forwarded, Undecided, InTransit

\* Filter lets p through.
LEMMA LetThrough ==
    ASSUME TypeOK, StreamOK, NEW p \in Inputs, NEW f2 \in Inputs, NEW u2 \in Inputs,
           f2 = Forwarded \o p, Undecided = p \o u2
    PROVE  TailsFollow(u2) /\ Typed(child \o (f2 \o u2)) = Typed(child \o InTransit)
  <1>1. Forwarded \in Inputs /\ Undecided \in Inputs /\ child \in Inputs
    BY TypesOfStream
  <1>2. TailsFollow(u2)
    BY FollowBehind DEF StreamOK
  <1>3. (Forwarded \o p) \o u2 = Forwarded \o (p \o u2)
    BY <1>1, Assoc, SMTT(30)
  <1> QED BY <1>2, <1>3 DEF InTransit

\* Filter, or the buffer, loses p.
LEMMA Loses ==
    ASSUME TypeOK, StreamOK, NEW p \in Inputs, NEW u2 \in Inputs, NEW more, Undecided = p \o u2,
           Range(dropped) \cup Taken \subseteq more,
           \A s \in Range(Typed(p)) : \E t \in more : t.key = s.key
    PROVE  TailsFollow(u2) /\ Good(Typed(child \o (Forwarded \o u2)), keys, more)
  <1>1. Forwarded \in Inputs /\ Undecided \in Inputs /\ child \in Inputs
    BY TypesOfStream
  <1>2. TailsFollow(u2)
    BY FollowBehind DEF StreamOK
  <1>3. PICK a \in Inputs, b \in Inputs, c \in Inputs :
           a = Typed(child \o Forwarded) /\ b = Typed(p) /\ c = Typed(u2)
    BY <1>1, SplitTyped, TypedType
  <1>4. Typed(Undecided) = b \o c
    BY <1>3, TypedConcat
  <1>5. Typed(child \o InTransit) = a \o (b \o c)
    <2>1. Typed(child \o (Forwarded \o Undecided)) = Typed(child \o Forwarded) \o Typed(Undecided)
      BY <1>1, SplitTyped
    <2> QED BY <2>1, <1>3, <1>4, Zenon DEF InTransit
  <1>6. Typed(child \o (Forwarded \o u2)) = a \o c
    <2>1. Typed(child \o (Forwarded \o u2)) = Typed(child \o Forwarded) \o Typed(u2)
      BY <1>1, SplitTyped, SMTT(30)
    <2> QED BY <2>1, <1>3, Zenon
  <1>7. Good(a \o (b \o c), keys, Range(dropped) \cup Taken)
    BY <1>5 DEF StreamOK
  <1>8. Good(a \o c, keys, more)
    BY <1>3, <1>7, GoodLess
  <1> QED BY <1>2, <1>6, <1>8

\* Steps that touch none of it.
LEMMA StreamSame ==
    ASSUME StreamOK, UNCHANGED <<child, bus, out, data, buf, inp, keys, dropped, chan>>
    PROVE  StreamOK'
  BY DEF StreamOK, InTransit, Forwarded, Undecided, Taken

\* Steps that let something through keep the stream,
LEMMA StreamAfterLetThrough ==
    ASSUME TypeOK, TypeOK', StreamOK, UNCHANGED <<child, keys, dropped, chan>>, NEW p \in Inputs,
           Forwarded' = Forwarded \o p, Undecided = p \o Undecided'
    PROVE  StreamOK'
  <1>1. PICK f2 \in Inputs, u2 \in Inputs : f2 = Forwarded' /\ u2 = Undecided'
    <2>1. (TypeOK => Forwarded \in Inputs /\ Undecided \in Inputs)'
      BY TypesOfStream, PTL
    <2> QED BY <2>1
  <1>2. TailsFollow(u2) /\ Typed(child \o (f2 \o u2)) = Typed(child \o InTransit)
    BY <1>1, LetThrough
  <1>3. InTransit' = f2 \o u2
    BY <1>1 DEF InTransit
  <1>4. TailsFollow(Undecided')
    BY <1>1, <1>2
  <1>5. Typed(child' \o InTransit') = Typed(child \o InTransit)
    BY <1>2, <1>3
  <1>6. Taken' = Taken
    BY DEF Taken
  <1> QED BY <1>4, <1>5, <1>6 DEF StreamOK

\* and so do those that lose it, when it is known.
LEMMA StreamAfterLoss ==
    ASSUME TypeOK, TypeOK', StreamOK, UNCHANGED <<child, bus, out, keys>>, NEW p \in Inputs,
           Undecided = p \o Undecided',
                  Range(dropped) \cup Taken \subseteq Range(dropped') \cup Taken',
           \A s \in Range(Typed(p)) : \E t \in Range(dropped') \cup Taken' : t.key = s.key
    PROVE  StreamOK'
  <1>0. PICK more : more = Range(dropped') \cup Taken'
    OBVIOUS
  <1>1. PICK u2 \in Inputs : u2 = Undecided'
    <2>1. (TypeOK => Forwarded \in Inputs /\ Undecided \in Inputs)'
      BY TypesOfStream, PTL
    <2> QED BY <2>1
  <1>2. TailsFollow(u2) /\ Good(Typed(child \o (Forwarded \o u2)), keys, more)
    BY <1>0, <1>1, Loses
  <1>3. InTransit' = Forwarded \o u2
    BY <1>1 DEF InTransit, Forwarded
  <1> QED BY <1>0, <1>1, <1>2, <1>3 DEF StreamOK

\* The input behind an action that adds s to it.
LEMMA UndecidedGrows ==
    ASSUME TypeOK, NEW s \in Inputs, inp' = inp \o s, UNCHANGED <<data, buf>>
    PROVE  Undecided' = Undecided \o s
  <1>1. data \in Inputs /\ buf \in Inputs /\ inp \in Inputs
    BY TypesOfStream
  <1>2. PICK h \in Inputs : h = data \o buf
    BY <1>1, Concat
  <1>3. h \o (inp \o s) = (h \o inp) \o s
    BY <1>1, Assoc
  <1> QED BY <1>2, <1>3 DEF Undecided

\* And what of it was typed.
LEMMA TypedGrows ==
    ASSUME TypeOK, NEW s \in Inputs, Undecided' = Undecided \o s, UNCHANGED <<child, bus, out>>
    PROVE  Typed(child' \o InTransit') = Typed(child \o InTransit) \o Typed(s)
  <1>1. child \in Inputs /\ Forwarded \in Inputs /\ Undecided \in Inputs /\ InTransit \in Inputs
    BY TypesOfStream
  <1>2. Forwarded' = Forwarded
    BY DEF Forwarded
  <1>3. Forwarded \o (Undecided \o s) = (Forwarded \o Undecided) \o s
    <2>1. Regroups(Forwarded, Undecided, s)
      BY <1>1, InputsRegroup
    <2> QED BY ONLY <2>1 DEF Regroups
  <1>4. InTransit' = InTransit \o s
    BY <1>2, <1>3 DEF InTransit
  <1>5. child \o (InTransit \o s) = (child \o InTransit) \o s /\ child \o InTransit \in Inputs
    <2>1. PICK c \in Inputs, i \in Inputs : c = child /\ i = InTransit
      BY <1>1
    <2>2. Regroups(c, i, s) /\ c \o i \in Inputs
      BY InputsRegroup, Concat
    <2> QED BY ONLY <2>1, <2>2 DEF Regroups
  <1>6. Typed((child \o InTransit) \o s) = Typed(child \o InTransit) \o Typed(s)
    BY <1>5, TypedConcat
  <1> QED BY <1>4, <1>5, <1>6

\* A press's symbols.
LEMMA Presses ==
    ASSUME NEW n \in 1..MaxKeys,
           NEW s \in {<<Key(n)>>, <<Esc(n)>>, <<Esc(n), FnTail(n)>>, <<Esc(n), ShiftF3(n)>>}
    PROVE  /\ s \in Inputs /\ s # <<>> /\ Typed(s) = s
           /\ Ordered(s) /\ TailsFollow(s) /\ ~IsTail(s[1])
           /\ \A x \in Range(s) : x.key = n
  <1>1. {Key(n), Esc(n), FnTail(n), ShiftF3(n)} \subseteq Pressed
    BY SymbolKinds DEF Pressed, Key, Esc, FnTail, ShiftF3
  <1>2. s \in Seq(Pressed) /\ s # <<>>
    <2>1. ASSUME NEW x \in Pressed, NEW y \in Pressed
          PROVE  /\ <<x>> \in Seq(Pressed) /\ <<x>> # <<>>
                 /\ <<x, y>> \in Seq(Pressed) /\ <<x, y>> # <<>>
      OBVIOUS
    <2>2. /\ <<Key(n)>> \in Seq(Pressed) /\ <<Key(n)>> # <<>>
          /\ <<Esc(n)>> \in Seq(Pressed) /\ <<Esc(n)>> # <<>>
      BY <1>1, <2>1, Zenon
    <2>3. /\ <<Esc(n), FnTail(n)>> \in Seq(Pressed) /\ <<Esc(n), FnTail(n)>> # <<>>
          /\ <<Esc(n), ShiftF3(n)>> \in Seq(Pressed) /\ <<Esc(n), ShiftF3(n)>> # <<>>
      BY <1>1, <2>1, Zenon
    <2> QED BY <2>2, <2>3, Zenon
  <1>3. s \in Inputs
    BY <1>2, SeqMonotonic DEF Inputs, Pressed
  <1>4. Typed(s) = s
    BY <1>2, OnlyAll DEF Typed
  <1>5. ~IsTail(s[1]) /\ TailsFollow(s)
    BY DEF TailsFollow, IsTail, Key, Esc, FnTail, ShiftF3
  <1>6. Ordered(s)
    BY DEF Ordered, Rank, IsTail, Key, Esc, FnTail, ShiftF3
  <1>7. \A x \in Range(s) : x.key = n
    <2>1. Range(s) = {s[i] : i \in 1..Len(s)}
      BY <1>3, RangeEquality DEF Inputs
    <2> QED BY <2>1 DEF Key, Esc, FnTail, ShiftF3
  <1> QED BY <1>2, <1>3, <1>4, <1>5, <1>6, <1>7

\* A key press adds the next key.
LEMMA StreamPressKey ==
    ASSUME TypeOK, StreamOK, PressKey
    PROVE  StreamOK'
  <1>1. PICK s \in {<<Key(keys')>>, <<Esc(keys')>>, <<Esc(keys'), FnTail(keys')>>,
                    <<Esc(keys'), ShiftF3(keys')>>} : inp' = inp \o s
    BY DEF PressKey
  <1>2. PICK n \in 1..MaxKeys : n = keys' /\ n = keys + 1 /\ keys \in Nat
    <2>1. keys \in Nat /\ keys < MaxKeys /\ keys' = keys + 1
      BY ParametersAssumption DEF PressKey, TypeOK
    <2>2. keys + 1 \in 1..MaxKeys
      BY <2>1, ParametersAssumption
    <2> QED BY <2>1, <2>2
  <1>3. /\ s \in Inputs /\ s # <<>> /\ Typed(s) = s
        /\ Ordered(s) /\ TailsFollow(s) /\ ~IsTail(s[1])
        /\ \A x \in Range(s) : x.key = n
    BY <1>1, <1>2, Presses
  <1>4. UNCHANGED <<child, bus, out, data, buf, dropped, chan>>
    BY DEF PressKey, queryVars, readerVars, histVars
  <1>5. Undecided' = Undecided \o s
    BY <1>1, <1>3, <1>4, UndecidedGrows
  <1>6. TailsFollow(Undecided \o s)
    BY <1>3, FollowOn, TypesOfStream DEF StreamOK
  <1>7. Typed(child' \o InTransit') = Typed(child \o InTransit) \o s
    BY <1>3, <1>4, <1>5, TypedGrows
  <1>0. PICK lost : lost = Range(dropped) \cup Taken
    OBVIOUS
  <1>8. PICK y \in Inputs : y = Typed(child \o InTransit)
    BY DEF StreamOK, Good
  <1>9. Good(y \o s, keys + 1, lost)
    <2>1. Good(y, keys, lost)
      BY <1>0, <1>8, Zenon DEF StreamOK
    <2>3. \A x \in Range(s) : x.key = keys + 1
      BY <1>2, <1>3, Zenon
    <2> QED BY <2>1, <2>3, <1>2, <1>3, GoodMore
  <1>10. Taken' = Taken /\ keys' = keys + 1
    BY <1>2, <1>4, Zenon DEF Taken
  <1> QED BY <1>4, <1>5, <1>6, <1>7, <1>0, <1>8, <1>9, <1>10 DEF StreamOK

\* The terminal's answer adds no key.
LEMMA StreamAnswer ==
    ASSUME TypeOK, StreamOK, Answer
    PROVE  StreamOK'
  <1>1. PICK q \in Queries \cup {Child} : q = Head(asked)
    BY HeadTailProperties DEF Answer, TypeOK
  <1>2. PICK s : s = <<Esc(0), Reply(q)>>
    OBVIOUS
  <1>3. {Esc(0), Reply(q)} \subseteq Symbols
    BY SymbolKinds, ParametersAssumption
  <1>4. s \in Inputs /\ s # <<>> /\ Range(s) = {Esc(0), Reply(q)}
    <2>1. s \in Inputs /\ s # <<>> /\ Len(s) = 2 /\ s[1] = Esc(0) /\ s[2] = Reply(q)
      BY <1>2, <1>3 DEF Inputs
    <2>2. Range(s) = {s[i] : i \in 1..Len(s)}
      BY <2>1, RangeEquality DEF Inputs
    <2> QED BY <2>1, <2>2
  <1>5. TailsFollow(s) /\ ~IsTail(s[1])
    BY <1>2 DEF TailsFollow, IsTail, Esc, Reply
  <1>6. Typed(s) = <<>>
    <2>1. Range(s) \cap Pressed = {}
      BY <1>4 DEF Pressed, Esc, Reply
    <2>2. Typed(s) \in Inputs /\ Range(Typed(s)) = {}
      BY <1>4, <2>1, TypedType
    <2>3. Len(Typed(s)) \in Nat /\ Range(Typed(s)) = {Typed(s)[i] : i \in 1..Len(Typed(s))}
      BY <2>2, LenProperties, RangeEquality DEF Inputs
    <2>4. Len(Typed(s)) = 0
      <3>1. PICK l \in Nat : l = Len(Typed(s))
        BY <2>3
      <3>2. 1..l = {}
        BY <2>2, <2>3, <3>1
      <3> QED BY <3>1, <3>2
    <2> QED BY <2>2, <2>4, EmptySeq DEF Inputs
  <1>7. UNCHANGED <<child, bus, out, data, buf, keys, dropped, chan>> /\ inp' = inp \o s
    BY <1>1, <1>2 DEF Answer, queryVars, readerVars, histVars
  <1>8. Undecided' = Undecided \o s
    BY <1>4, <1>7, UndecidedGrows
  <1>9. TailsFollow(Undecided \o s)
    BY <1>4, <1>5, FollowOn, TypesOfStream DEF StreamOK
  <1>10. Typed(child' \o InTransit') = Typed(child \o InTransit) \o <<>>
    BY <1>4, <1>6, <1>7, <1>8, TypedGrows
  <1>11. Typed(child \o InTransit) \o <<>> = Typed(child \o InTransit)
    BY EmptyIn DEF StreamOK, Good
  <1>12. Taken' = Taken
    BY <1>7 DEF Taken
  <1> QED BY <1>7, <1>8, <1>9, <1>10, <1>11, <1>12 DEF StreamOK
-------------------------------------------------------------------------------
(* PositionQuery: the reader's steps. *)

\* A sequence cut after its first n elements.
LEMMA Cut ==
    ASSUME NEW s \in Inputs, NEW n \in 0..Len(s)
    PROVE  /\ SubSeq(s, 1, n) \in Inputs /\ SubSeq(s, n + 1, Len(s)) \in Inputs
           /\ s = SubSeq(s, 1, n) \o SubSeq(s, n + 1, Len(s))
           /\ Len(SubSeq(s, 1, n)) = n
           /\ \A i \in 1..n : SubSeq(s, 1, n)[i] = s[i]
  <1>1. PICK l \in Nat : l = Len(s)
    BY LenProperties DEF Inputs
  <1>2. \A i \in 1..l : s[i] \in Symbols
    BY <1>1, ElementOfSeq DEF Inputs
  <1>3. SubSeq(s, 1, n) \in Inputs /\ Len(SubSeq(s, 1, n)) = n
        /\ \A i \in 1..n : SubSeq(s, 1, n)[i] = s[i]
    BY <1>1, <1>2, SubSeqProperties DEF Inputs
  <1>4. SubSeq(s, n + 1, l) \in Inputs
    BY <1>1, <1>2, SubSeqProperties DEF Inputs
  <1>5. SubSeq(s, 1, n) \o SubSeq(s, n + 1, l) = SubSeq(s, 1, l)
    <2>1. s \in Seq(Symbols) /\ 1 \in 1..Len(s) + 1 /\ n \in 1 - 1..Len(s) /\ l \in n..Len(s)
      BY <1>1 DEF Inputs
    <2> QED BY <2>1, ConcatAdjacentSubSeq
  <1>6. SubSeq(s, 1, l) = s
    BY <1>1, SubSeqFull DEF Inputs
  <1> QED BY <1>1, <1>3, <1>4, <1>5, <1>6

\* Filter, or the reader without it, lets a front of what is undecided through.
Moves == \E p \in Inputs : Forwarded' = Forwarded \o p /\ Undecided = p \o Undecided'

\* SendInput: from the reader into the bus, nothing changes on the way.
LEMMA MovesSendInput ==
    ASSUME TypeOK, SendInput
    PROVE  Moves
  <1>1. out \in Inputs /\ bus \in Seq(Inputs) /\ Forwarded \in Inputs /\ Undecided \in Inputs
    BY TypesOfStream DEF Inputs
  <1>2. UNCHANGED <<child, data, buf, inp, keys, dropped, chan>>
        /\ bus' = Append(bus, out) /\ out' = <<>>
    BY DEF SendInput, termVars, queryVars, histVars
  <1>3. Forwarded' = Forwarded
    <2>1. FlattenSeq(Append(bus, out)) = FlattenSeq(bus) \o out
      BY <1>1, FlatOfAppend DEF Inputs
    <2>2. (FlattenSeq(bus) \o out) \o <<>> = FlattenSeq(bus) \o out
      BY <1>1, EmptyIn DEF Forwarded
    <2> QED BY <1>2, <2>1, <2>2 DEF Forwarded
  <1>4. Undecided' = Undecided
    BY <1>2 DEF Undecided
  <1>5. Forwarded' = Forwarded \o <<>> /\ Undecided = <<>> \o Undecided' /\ <<>> \in Inputs
    BY <1>1, <1>3, <1>4, EmptyIn
  <1> QED BY <1>2, <1>5 DEF Moves

\* HandleInput: the first chunk goes from the bus to the child.
LEMMA StreamHandleInput ==
    ASSUME TypeOK, TypeOK', StreamOK, HandleInput
    PROVE  StreamOK'
  <1>1. /\ child \in Inputs /\ out \in Inputs /\ bus \in Seq(Inputs) /\ Forwarded \in Inputs
        /\ Undecided \in Inputs
        /\ (Forwarded \in Inputs)' /\ InTransit' \in Inputs
    <2>1. (TypeOK => Forwarded \in Inputs /\ InTransit \in Inputs)'
      BY TypesOfStream, PTL
    <2> QED BY <2>1, TypesOfStream DEF Inputs
  <1>2. /\ UNCHANGED <<out, data, buf, inp, keys, dropped, chan>> /\ bus # <<>>
        /\ child' = child \o Typed(Head(bus)) /\ bus' = Tail(bus)
    BY DEF HandleInput, termVars, queryVars, readerVars
  <1>3. PICK h \in Inputs : h = Head(bus)
    BY <1>1, <1>2, HeadTailProperties
  <1>4. Undecided' = Undecided
    BY <1>2 DEF Undecided
  <1>5. Forwarded = h \o Forwarded'
    <2>1. FlattenSeq(bus) = h \o FlattenSeq(Tail(bus))
      BY <1>1, <1>2, <1>3, FlatOfFirst DEF Inputs
    <2>2. FlattenSeq(Tail(bus)) \in Inputs
      BY <1>1, <1>2, HeadTailProperties, FlatType DEF Inputs
    <2>3. PICK f \in Inputs : f = FlattenSeq(Tail(bus))
      BY <2>2
    <2>4. (h \o f) \o out = h \o (f \o out)
      BY <1>1, Assoc, ZenonT(60)
    <2> QED BY <1>2, <2>1, <2>3, <2>4 DEF Forwarded
  <1>6. PICK c \in Inputs, f \in Inputs, u \in Inputs, i \in Inputs :
           c = child /\ f = Forwarded' /\ u = Undecided /\ i = InTransit'
    BY <1>1
  <1>7. i = f \o u
    BY <1>4, <1>6 DEF InTransit
  <1>8. InTransit = h \o i
    <2>1. (h \o f) \o u = h \o (f \o u)
      BY Assoc
    <2> QED BY <1>5, <1>6, <1>7, <2>1 DEF InTransit
  <1>9. Typed(c \o (h \o i)) = Typed(c) \o (Typed(h) \o Typed(i))
    <2>1. h \o i \in Inputs
      BY Concat
    <2>2. Typed(c \o (h \o i)) = Typed(c) \o Typed(h \o i)
      BY <2>1, TypedConcat
    <2>3. Typed(h \o i) = Typed(h) \o Typed(i)
      BY TypedConcat
    <2> QED BY <2>2, <2>3
  <1>10. Typed((c \o Typed(h)) \o i) = Typed(c) \o (Typed(h) \o Typed(i))
    <2>1. PICK t \in Inputs, tc \in Inputs, ti \in Inputs :
           t = Typed(h) /\ tc = Typed(c) /\ ti = Typed(i)
      BY TypedType
    <2>2. c \o t \in Inputs
      BY Concat
    <2>3. Typed((c \o t) \o i) = Typed(c \o t) \o Typed(i)
      BY <2>2, TypedConcat
    <2>4. Typed(c \o t) = Typed(c) \o Typed(t)
      BY TypedConcat
    <2>5. Typed(t) = t
      BY <2>1, TypedTwice
    <2>6. (tc \o t) \o ti = tc \o (t \o ti)
      BY Assoc, ZenonT(60)
    <2> QED BY <2>1, <2>3, <2>4, <2>5, <2>6
  <1>11. Typed(child' \o InTransit') = Typed(child \o InTransit)
    BY <1>2, <1>3, <1>6, <1>8, <1>9, <1>10
  <1>12. Taken' = Taken
    BY <1>2 DEF Taken
  <1> QED BY <1>2, <1>4, <1>11, <1>12 DEF StreamOK

\* ReadInput.
LEMMA MovesReadInput ==
    ASSUME TypeOK, HeldBack, ReadInput
    PROVE  Moves
  <1>1. PICK n \in 1..Len(inp) :
          /\ inp' = SubSeq(inp, n + 1, Len(inp))
          /\ IF armed
             THEN /\ data' = buf \o SubSeq(inp, 1, n)
                  /\ out' = <<>> /\ buf' = <<>> /\ rpc' = "filter"
             ELSE /\ out' = SubSeq(inp, 1, n)
                  /\ rpc' = "send"
                  /\ UNCHANGED <<data, buf>>
    BY DEF ReadInput
  <1>2. UNCHANGED <<child, bus, keys, dropped, chan>> /\ data = <<>> /\ out = <<>>
    BY DEF ReadInput, histVars, HeldBack
  <1>3. /\ inp \in Inputs /\ buf \in Inputs /\ Forwarded \in Inputs /\ Undecided \in Inputs
        /\ FlattenSeq(bus) \in Inputs
    BY TypesOfStream
  <1>4. n \in 0..Len(inp)
    BY <1>1, <1>3, LenProperties DEF Inputs
  <1>5. PICK p \in Inputs, r \in Inputs :
         /\ p = SubSeq(inp, 1, n) /\ r = SubSeq(inp, n + 1, Len(inp))
                                /\ inp = p \o r
    <2>1. /\ SubSeq(inp, 1, n) \in Inputs /\ SubSeq(inp, n + 1, Len(inp)) \in Inputs
          /\ inp = SubSeq(inp, 1, n) \o SubSeq(inp, n + 1, Len(inp))
      BY <1>3, <1>4, Cut
    <2> QED BY <2>1, Zenon
  <1>6. <<>> \o buf = buf /\ FlattenSeq(bus) \o <<>> = FlattenSeq(bus) /\ <<>> \in Inputs
    BY <1>3, EmptyIn
  <1>7. CASE armed
    <2>1. data' = buf \o p /\ out' = <<>> /\ buf' = <<>> /\ inp' = r
      BY <1>1, <1>5, <1>7
    <2>2. buf \o p \in Inputs /\ (buf \o p) \o <<>> = buf \o p
      BY <1>3, Concat, EmptyIn
    <2>3. (buf \o p) \o r = buf \o (p \o r)
      <3>1. PICK b \in Inputs : b = buf
        BY <1>3
      <3>2. (b \o p) \o r = b \o (p \o r)
        BY Assoc
      <3> QED BY <3>1, <3>2
    <2>4. Undecided' = Undecided
      <3>1. Undecided = buf \o (p \o r)
        BY <1>2, <1>5, <1>6 DEF Undecided
      <3>2. Undecided' = (buf \o p) \o r
        BY <2>1, <2>2 DEF Undecided
      <3> QED BY <2>3, <3>1, <3>2, Zenon
    <2>5. Forwarded' = Forwarded
      BY <1>2, <2>1 DEF Forwarded
    <2>6. Forwarded' = Forwarded \o <<>> /\ Undecided = <<>> \o Undecided'
      BY <1>3, <2>4, <2>5, EmptyIn
    <2> QED BY <1>2, <1>6, <2>6 DEF Moves
  <1>8. CASE ~armed
    <2>1. buf = <<>>
      BY <1>8 DEF HeldBack
    <2>2. out' = p /\ inp' = r /\ data' = <<>> /\ buf' = <<>>
      BY <1>1, <1>2, <1>5, <1>8, <2>1
    <2>3. <<>> \o inp = inp /\ <<>> \o r = r
      BY <1>3, EmptyIn
    <2>4. Undecided = p \o r /\ Undecided' = r
      BY <1>2, <1>5, <1>6, <2>1, <2>2, <2>3 DEF Undecided
    <2>5. Forwarded' = Forwarded \o p
      BY <1>2, <1>6, <2>2 DEF Forwarded
    <2> QED BY <1>2, <2>4, <2>5 DEF Moves
  <1> QED BY <1>7, <1>8

\* FilterEnds.
LEMMA MovesFilterEnds ==
    ASSUME TypeOK, HeldBack, FilterEnds
    PROVE  Moves
  <1>1. /\ UNCHANGED <<child, bus, buf, inp, keys, dropped, chan>> /\ buf = <<>>
        /\ out' = out \o data /\ data' = <<>>
    BY DEF FilterEnds, termVars, queryVars, histVars, HeldBack
  <1>2. data \in Inputs /\ out \in Inputs /\ inp \in Inputs /\ FlattenSeq(bus) \in Inputs
    BY TypesOfStream
  <1>3. <<>> \o <<>> = <<>> /\ <<>> \o inp = inp /\ data \o <<>> = data
    BY <1>2, EmptyIn
  <1>4. Undecided = data \o Undecided'
    BY <1>1, <1>3 DEF Undecided
  <1>5. Forwarded' = Forwarded \o data
    <2>1. (FlattenSeq(bus) \o out) \o data = FlattenSeq(bus) \o (out \o data)
      BY <1>2, Assoc
    <2> QED BY <1>1, <2>1 DEF Forwarded
  <1> QED BY <1>1, <1>2, <1>4, <1>5 DEF Moves

\* FilterKeeps.
LEMMA MovesFilterKeeps ==
    ASSUME TypeOK, HeldBack, FilterKeeps
    PROVE  Moves
  <1>1. /\ UNCHANGED <<child, bus, out, inp, keys, dropped, chan>> /\ buf = <<>>
        /\ buf' = data /\ data' = <<>>
    BY DEF FilterKeeps, termVars, histVars, HeldBack
  <1>2. data \in Inputs /\ Forwarded \in Inputs /\ Undecided \in Inputs
    BY TypesOfStream
  <1>3. data \o <<>> = data /\ <<>> \o data = data
    BY <1>2, EmptyIn
  <1>4. Undecided' = Undecided
    BY <1>1, <1>3 DEF Undecided
  <1>5. Forwarded' = Forwarded
    BY <1>1 DEF Forwarded
  <1>6. Forwarded' = Forwarded \o <<>> /\ Undecided = <<>> \o Undecided' /\ <<>> \in Inputs
    BY <1>2, <1>4, <1>5, EmptyIn
  <1> QED BY <1>1, <1>6 DEF Moves

\* FilterPasses.
LEMMA MovesFilterPasses ==
    ASSUME TypeOK, HeldBack, FilterPasses
    PROVE  Moves
  <1>1. UNCHANGED <<child, bus, buf, inp, keys, dropped, chan>> /\ buf = <<>>
    BY DEF FilterPasses, termVars, queryVars, histVars, HeldBack
  <1>2. data \in Inputs /\ out \in Inputs /\ inp \in Inputs /\ FlattenSeq(bus) \in Inputs
    BY TypesOfStream
  <1>3. PICK n \in 0..Len(data) :
           out' = out \o SubSeq(data, 1, n) /\ data' = SubSeq(data, n + 1, Len(data))
    <2>1. Len(data) \in Nat \ {0}
      BY <1>2, EmptySeq DEF FilterPasses, Inputs
    <2>2. PICK n : /\ n = IF data[1].sym = "esc" /\ IsTail(data[2]) THEN 2 ELSE 1
                   /\ out' = out \o SubSeq(data, 1, n)
                   /\ data' = SubSeq(data, n + 1, Len(data))
      BY Zenon DEF FilterPasses
    <2>3. data[1].sym = "esc" => Len(data) > 1
      BY DEF FilterPasses
    <2>4. n \in 0..Len(data)
      BY <2>1, <2>2, <2>3
    <2> QED BY <2>2, <2>4
  <1>4. PICK p \in Inputs, r \in Inputs :
         /\ p = SubSeq(data, 1, n) /\ r = SubSeq(data, n + 1, Len(data))
                                /\ data = p \o r
    <2>1. /\ SubSeq(data, 1, n) \in Inputs /\ SubSeq(data, n + 1, Len(data)) \in Inputs
          /\ data = SubSeq(data, 1, n) \o SubSeq(data, n + 1, Len(data))
      BY <1>2, Cut
    <2> QED BY <2>1, Zenon
  <1>5. Undecided = p \o Undecided'
    <2>1. (p \o r) \o <<>> = p \o r /\ r \o <<>> = r
      BY <1>2, <1>4, EmptyIn
    <2>2. (p \o r) \o inp = p \o (r \o inp)
      BY <1>2, Assoc
    <2>3. Undecided = (p \o r) \o inp
      BY <1>1, <1>4, <2>1 DEF Undecided
    <2>4. Undecided' = r \o inp
      BY <1>1, <1>3, <1>4, <2>1 DEF Undecided
    <2> QED BY <2>2, <2>3, <2>4
  <1>6. Forwarded' = Forwarded \o p
    <2>1. (FlattenSeq(bus) \o out) \o p = FlattenSeq(bus) \o (out \o p)
      BY <1>2, Assoc, ZenonT(60)
    <2> QED BY <1>1, <1>3, <1>4, <2>1 DEF Forwarded
  <1> QED BY <1>1, <1>5, <1>6 DEF Moves
\* All of these keep the stream.
LEMMA StreamMoves ==
    ASSUME TypeOK, TypeOK', StreamOK, UNCHANGED <<child, keys, dropped, chan>>, Moves
    PROVE  StreamOK'
  BY StreamAfterLetThrough DEF Moves
-------------------------------------------------------------------------------
(* PositionQuery: what is taken or lost. *)

\* A query that is armed anew, or given up, loses what the buffer holds.
LEMMA BufferIsFirst ==
    ASSUME TypeOK, HeldBack, MutexFree, UNCHANGED <<data, inp>>, buf' = <<>>
    PROVE  Undecided = buf \o Undecided'
  <1>1. data = <<>> /\ data' = <<>> /\ inp' = inp /\ buf' = <<>>
    BY DEF HeldBack, MutexFree
  <1>2. <<>> \o buf = buf /\ <<>> \o inp = inp /\ <<>> \o <<>> = <<>>
    BY TypesOfStream, EmptyIn
  <1> QED BY <1>1, <1>2 DEF Undecided

\* Arming anew and giving up lose what the buffer holds, and count it.
LEMMA StreamLosesBuffer ==
    ASSUME TypeOK, TypeOK', HeldBack, StreamOK, MutexFree,
           UNCHANGED <<child, bus, out, data, inp, keys, chan>>,
           buf' = <<>>, dropped' = dropped \o Typed(buf)
    PROVE  StreamOK'
  <1>2. buf \in Inputs /\ dropped \in Inputs /\ Typed(buf) \in Inputs
    BY TypesOfStream, TypedType
  <1>3. Undecided = buf \o Undecided'
    BY BufferIsFirst
  <1>4. Range(dropped') = Range(dropped) \cup Range(Typed(buf))
    BY <1>2, RangeConcatenation DEF Inputs
  <1>5. Taken' = Taken
    BY DEF Taken
  <1>6. Range(dropped) \cup Taken \subseteq Range(dropped') \cup Taken'
    BY <1>4, <1>5
  <1>7. \A s \in Range(Typed(buf)) : \E t \in Range(dropped') \cup Taken' : t.key = s.key
    BY <1>4
  <1> QED BY <1>2, <1>3, <1>6, <1>7, StreamAfterLoss

\* The reply that answers a query is one of that query's ESC, and it is known.
LEMMA MatchTakes ==
    ASSUME TypeOK, HeldBack, FilterMatches
    PROVE  \E p \in Inputs : /\ Len(p) = 2 /\ p[1] = data[1] /\ p[2] = data[2]
                       /\ Undecided = p \o Undecided'
  <1>1. /\ UNCHANGED <<child, bus, out, inp, keys, dropped>> /\ buf = <<>> /\ buf' = <<>>
        /\ data' = SubSeq(data, 3, Len(data)) /\ armed
        /\ Len(data) > 1 /\ data[1].sym = "esc" /\ data[2].sym = "reply"
    BY DEF FilterMatches, Matched, termVars, histVars, HeldBack
  <1>2. data \in Inputs /\ inp \in Inputs /\ Undecided \in Inputs
    BY TypesOfStream
  <1>3. Len(data) \in Nat /\ 2 \in 0..Len(data)
    BY <1>1, <1>2, LenProperties DEF Inputs
  <1>4. PICK p \in Inputs, r \in Inputs :
           /\ r = SubSeq(data, 3, Len(data)) /\ data = p \o r
           /\ Len(p) = 2 /\ p[1] = data[1] /\ p[2] = data[2]
    <2>1. /\ SubSeq(data, 1, 2) \in Inputs /\ SubSeq(data, 2 + 1, Len(data)) \in Inputs
          /\ data = SubSeq(data, 1, 2) \o SubSeq(data, 2 + 1, Len(data))
          /\ Len(SubSeq(data, 1, 2)) = 2
          /\ \A i \in 1..2 : SubSeq(data, 1, 2)[i] = data[i]
      BY <1>2, <1>3, Cut
    <2>2. 2 + 1 = 3 /\ 1 \in 1..2 /\ 2 \in 1..2
      OBVIOUS
    <2> QED BY <2>1, <2>2
  <1>5. Undecided = p \o Undecided'
    <2>1. (p \o r) \o <<>> = p \o r /\ r \o <<>> = r
      BY <1>2, <1>4, EmptyIn
    <2>2. (p \o r) \o inp = p \o (r \o inp)
      BY <1>2, Assoc
    <2>3. Undecided = (p \o r) \o inp
      BY <1>1, <1>4, <2>1 DEF Undecided
    <2>4. Undecided' = r \o inp
      BY <1>1, <1>4, <2>1 DEF Undecided
    <2> QED BY <2>2, <2>3, <2>4
  <1> QED BY <1>4, <1>5

\* A match loses at most the key whose reply it took.
LEMMA StreamFilterMatches ==
    ASSUME TypeOK, TypeOK', HeldBack, OneAnswer, StreamOK, FilterMatches
    PROVE  StreamOK'
  <1>1. /\ UNCHANGED <<child, bus, out, inp, keys, dropped>>
        /\ armed /\ Len(data) > 1 /\ data[1].sym = "esc" /\ data[2].sym = "reply"
    BY DEF FilterMatches, Matched, termVars, histVars
  <1>4. PICK p \in Inputs : /\ Len(p) = 2 /\ p[1] = data[1] /\ p[2] = data[2]
                      /\ Undecided = p \o Undecided'
    BY MatchTakes
  <1>5. Undecided = p \o Undecided'
    BY <1>4
  <1>6. p[1].key = p[2].key
    <2>1. PICK u \in Inputs : u = Undecided' /\ Undecided = p \o u
      <3>1. (TypeOK => Undecided \in Inputs)'
        BY TypesOfStream, PTL
      <3> QED BY <3>1, <1>5
    <2>2. /\ Len(u) \in Nat /\ Len(p \o u) = Len(p) + Len(u)
          /\ \A i \in 1..Len(p) + Len(u) :
                (p \o u)[i] = IF i <= Len(p) THEN p[i] ELSE u[i - Len(p)]
      BY ConcatProperties, LenProperties DEF Inputs
    <2>3. Len(p \o u) >= 2 /\ (p \o u)[1] = p[1] /\ (p \o u)[2] = p[2]
      BY <2>2, <1>4
    <2>4. IsTail(p[2])
      BY <1>1, <1>4 DEF IsTail
    <2>5. TailsFollow(p \o u)
      BY <2>1 DEF StreamOK
    <2>6. 2 \in 2..Len(p \o u) /\ 2 - 1 = 1
      BY <2>2, <2>3
    <2> QED BY <2>3, <2>4, <2>5, <2>6 DEF TailsFollow
  <1>7. cur \in Queries /\ chan[cur] = <<>> /\ chan' = [chan EXCEPT ![cur] = <<p[2]>>]
    BY <1>1, <1>4 DEF OneAnswer, FilterMatches
  <1>8. chan \in [Queries -> Inputs]
    BY DEF TypeOK, Inputs
  <1>9. Range(<<p[2]>>) = {p[2]} /\ Range(<<>>) = {}
    BY DEF Range
  <1>10. Taken \subseteq Taken' /\ p[2] \in Taken'
    <2>1. /\ chan'[cur] = <<p[2]>>
          /\ \A q \in Queries : q # cur => chan'[q] = chan[q]
      BY <1>7, <1>8
    <2>2. \A q \in Queries : Range(chan[q]) \subseteq Range(chan'[q])
      BY <1>7, <1>9, <2>1
    <2>3. p[2] \in Range(chan'[cur])
      BY <1>9, <2>1
    <2> QED BY <1>7, <2>2, <2>3 DEF Taken
  <1>11. Range(dropped) \cup Taken \subseteq Range(dropped') \cup Taken'
    BY <1>1, <1>10
  <1>12. \A s \in Range(Typed(p)) : \E t \in Range(dropped') \cup Taken' : t.key = s.key
    <2>1. Range(p) = {p[i] : i \in 1..2} /\ Range(Typed(p)) \subseteq Range(p)
      BY <1>4, RangeEquality, TypedType DEF Inputs
    <2>2. \A s \in Range(p) : s.key = p[2].key
      BY <2>1, <1>6
    <2> QED BY <1>10, <2>1, <2>2
  <1> QED BY <1>1, <1>5, <1>11, <1>12, StreamAfterLoss

\* Every step keeps the stream.
LEMMA StreamStep ==
    ASSUME TypeOK, TypeOK', HeldBack, OneAnswer, StreamOK, [Next]_vars
    PROVE  StreamOK'
  <1> USE DEF termVars, queryVars, readerVars, histVars
  <1>1. CASE PressKey
    BY <1>1, StreamPressKey
  <1>2. CASE Answer
    BY <1>2, StreamAnswer
  <1>3. ASSUME NEW q \in Queries, GraceEnds(q)
        PROVE  StreamOK'
    BY <1>3, StreamSame DEF GraceEnds
  <1>4. ASSUME NEW q \in Queries, GraceExpired(q)
        PROVE  StreamOK'
    BY <1>4, StreamLosesBuffer DEF GraceExpired
  <1>5. CASE ReaderStep
    <2>1. CASE FilterMatches
      BY <2>1, StreamFilterMatches
    <2>2. CASE ReadInput
      BY <2>2, MovesReadInput, StreamMoves DEF ReadInput
    <2>3. CASE FilterEnds \/ FilterKeeps \/ FilterPasses \/ SendInput
      <3>1. Moves
        BY <2>3, MovesFilterEnds, MovesFilterKeeps, MovesFilterPasses, MovesSendInput
      <3>2. UNCHANGED <<child, keys, dropped, chan>>
        BY <2>3 DEF FilterEnds, FilterKeeps, FilterPasses, SendInput
      <3> QED BY <3>1, <3>2, StreamMoves
    <2> QED BY <1>5, <2>1, <2>2, <2>3 DEF ReaderStep
  <1>6. CASE HandleInput
    BY <1>6, StreamHandleInput
  <1>7. CASE ChildAsks \/ Answered \/ TimesOut \/ UNCHANGED vars
    BY <1>7, StreamSame DEF ChildAsks, Answered, TimesOut, vars
  <1>8. CASE Probe \/ AskAndWait
    BY <1>8, StreamLosesBuffer DEF Probe, AskAndWait, Arm
  <1> QED BY <1>1, <1>2, <1>3, <1>4, <1>5, <1>6, <1>7, <1>8 DEF Next, LoopNext

\* Every step keeps bytes where they may be held back.
LEMMA HeldBackStep ==
    ASSUME TypeOK, HeldBack, [Next]_vars
    PROVE  HeldBack'
  <1> USE DEF termVars, queryVars, readerVars, histVars, HeldBack
  <1>1. CASE PressKey \/ Answer
    BY <1>1 DEF PressKey, Answer
  <1>2. ASSUME NEW q \in Queries, GraceEnds(q) \/ GraceExpired(q)
        PROVE  HeldBack'
    BY <1>2 DEF GraceEnds, GraceExpired, MutexFree
  <1>3. CASE ReadInput
    BY <1>3 DEF ReadInput
  <1>4. CASE FilterEnds
    BY <1>4 DEF FilterEnds
  <1>5. CASE FilterKeeps
    BY <1>5 DEF FilterKeeps
  <1>6. CASE FilterPasses
    BY <1>6 DEF FilterPasses
  <1>7. CASE FilterMatches
    BY <1>7 DEF FilterMatches, Matched
  <1>8. CASE SendInput
    BY <1>8 DEF SendInput
  <1>9. CASE HandleInput \/ ChildAsks \/ Answered \/ TimesOut \/ UNCHANGED vars
    BY <1>9 DEF HandleInput, ChildAsks, Answered, TimesOut, vars
  <1>10. CASE Probe \/ AskAndWait
    BY <1>10 DEF Probe, AskAndWait, Arm, MutexFree
  <1> QED BY <1>1, <1>2, <1>3, <1>4, <1>5, <1>6, <1>7, <1>8, <1>9, <1>10
          DEF Next, LoopNext, ReaderStep

\* Every step keeps to one answer a query.
LEMMA OneAnswerStep ==
    ASSUME TypeOK, OneAnswer, [Next]_vars
    PROVE  OneAnswer'
  <1> USE DEF termVars, queryVars, readerVars, histVars
  <1>1. CASE UNCHANGED <<chan, cur>> /\ (armed' => armed)
    BY <1>1 DEF OneAnswer
  <1>2. CASE FilterMatches
    <2>1. cur \in Queries /\ chan[cur] = <<>> /\ chan' = [chan EXCEPT ![cur] = <<data[2]>>]
          /\ cur' = cur /\ armed' = FALSE
      BY <1>2 DEF FilterMatches, Matched, OneAnswer
    <2>2. data[2] \in Replies
      <3>1. Len(data) > 1 /\ data[2].sym = "reply" /\ data \in Seq(Symbols)
        BY <1>2 DEF FilterMatches, Matched, TypeOK
      <3>2. 2 \in 1..Len(data)
        BY <3>1
      <3>3. data[2] \in Symbols
        BY <3>1, <3>2, ElementOfSeq
      <3> QED BY <3>1, <3>3 DEF Replies
    <2>3. cur \in Int /\ \A q \in Queries : q \in Int
      BY <2>1 DEF Queries
    <2>4. /\ chan'[cur] = <<data[2]>>
          /\ \A q \in Queries : q # cur => chan'[q] = chan[q]
      BY <2>1 DEF TypeOK
    <2> QED BY <2>1, <2>2, <2>3, <2>4 DEF OneAnswer
  <1>3. CASE Probe \/ AskAndWait
    <2>1. Arm
      BY <1>3 DEF Probe, AskAndWait
    <2>2. cur' = cur + 1 /\ chan' = chan /\ cur + asks < MaxQueries /\ cur \in Nat /\ asks \in Nat
      BY <2>1, ParametersAssumption DEF Arm, TypeOK
    <2>3. cur' \in Queries /\ cur' > cur
      BY <2>2, ParametersAssumption DEF Queries
    <2>4. \A q \in Queries : q > cur' => q > cur
      BY <2>2 DEF Queries
    <2> QED BY <2>2, <2>3, <2>4 DEF OneAnswer
  <1> QED
    BY <1>1, <1>2, <1>3
    DEF Next, LoopNext, ReaderStep, PressKey, Answer, GraceEnds, GraceExpired, ReadInput,
        FilterEnds, FilterKeeps, FilterPasses, SendInput, HandleInput, ChildAsks, Answered,
        TimesOut, vars
-------------------------------------------------------------------------------
(* PositionQuery: types and the invariant. *)

\* Every step keeps the types.
LEMMA TypeStep ==
    ASSUME TypeOK, HeldBack, OneAnswer, [Next]_vars
    PROVE  TypeOK'
  <1>1. CASE PressKey
    <2>1. PICK s \in {<<Key(keys')>>, <<Esc(keys')>>, <<Esc(keys'), FnTail(keys')>>,
                      <<Esc(keys'), ShiftF3(keys')>>} : inp' = inp \o s
      BY <1>1 DEF PressKey
    <2>2. keys' \in 1..MaxKeys
      <3>1. keys \in Nat /\ keys < MaxKeys /\ keys' = keys + 1
        BY <1>1, ParametersAssumption DEF PressKey, TypeOK
      <3> QED BY <3>1, ParametersAssumption
    <2>3. s \in Inputs
      BY <2>1, <2>2, Presses
    <2>4. inp' \in Seq(Symbols)
      BY <2>1, <2>3, TypesOfStream, Concat DEF Inputs
    <2>5. UNCHANGED <<asked, asks, queryVars, readerVars, bus, lpc, histVars>>
      BY <1>1 DEF PressKey
    <2>6. keys' \in 0..MaxKeys
      BY <2>2
    <2> QED BY <2>4, <2>5, <2>6, Zenon DEF TypeOK, queryVars, readerVars, histVars
  <1>2. CASE Answer
    <2>1. PICK q \in Queries \cup {Child} : q = Head(asked)
      BY <1>2, HeadTailProperties DEF Answer, TypeOK
    <2>2. {Esc(0), Reply(q)} \subseteq Symbols
      BY SymbolKinds, ParametersAssumption
    <2>3. PICK s \in Inputs : s = <<Esc(0), Reply(q)>>
      <3>1. \A x, y \in Symbols : <<x, y>> \in Seq(Symbols)
        OBVIOUS
      <3> QED BY <2>2, <3>1, Zenon DEF Inputs
    <2>4. inp' = inp \o s
      BY <1>2, <2>1, <2>3 DEF Answer
    <2>5. inp' \in Seq(Symbols)
      BY <2>4, TypesOfStream, Concat DEF Inputs
    <2>6. asked' \in Seq(Queries \cup {Child})
      BY <1>2, HeadTailProperties DEF Answer, TypeOK
    <2>7. UNCHANGED <<asks, keys, queryVars, readerVars, bus, lpc, histVars>>
      BY <1>2 DEF Answer
    <2> QED BY <2>5, <2>6, <2>7, Zenon DEF TypeOK, queryVars, readerVars, histVars
  <1>3. ASSUME NEW q \in Queries, GraceEnds(q)
        PROVE  TypeOK'
    <2>1. timer' \in [Queries -> {"off", "running", "firing"}]
      BY <1>3 DEF GraceEnds, TypeOK
    <2> QED BY <1>3, <2>1, Zenon DEF GraceEnds, TypeOK, termVars, readerVars, histVars
  <1>4. ASSUME NEW q \in Queries, GraceExpired(q)
        PROVE  TypeOK'
    <2>1. timer' \in [Queries -> {"off", "running", "firing"}]
      BY <1>4 DEF GraceExpired, TypeOK
    <2>2. dropped' \in Seq(Symbols)
      BY <1>4, TypesOfStream, TypedType, Concat DEF GraceExpired, Inputs
    <2>3. buf' \in Seq(Symbols) /\ armed' \in BOOLEAN
      BY <1>4, EmptySeq DEF GraceExpired
    <2> QED BY <1>4, <2>1, <2>2, <2>3, Zenon DEF GraceExpired, TypeOK, termVars, readerVars
  <1>5. CASE ReadInput
    <2>1. PICK n \in 1..Len(inp) :
            /\ inp' = SubSeq(inp, n + 1, Len(inp))
            /\ IF armed
               THEN /\ data' = buf \o SubSeq(inp, 1, n)
                    /\ out' = <<>> /\ buf' = <<>> /\ rpc' = "filter"
               ELSE /\ out' = SubSeq(inp, 1, n)
                    /\ rpc' = "send"
                    /\ UNCHANGED <<data, buf>>
      BY <1>5 DEF ReadInput
    <2>2. inp \in Inputs /\ buf \in Inputs /\ data \in Inputs /\ <<>> \in Inputs
      BY TypesOfStream, EmptyIn
    <2>3. n \in 0..Len(inp)
      BY <2>1, <2>2, LenProperties DEF Inputs
    <2>4. SubSeq(inp, 1, n) \in Inputs /\ SubSeq(inp, n + 1, Len(inp)) \in Inputs
      BY <2>2, <2>3, Cut
    <2>5. buf \o SubSeq(inp, 1, n) \in Inputs
      BY <2>2, <2>4, Concat
    <2>6. /\ inp' \in Inputs /\ data' \in Inputs /\ out' \in Inputs /\ buf' \in Inputs
          /\ rpc' \in {"read", "filter", "send"}
      BY <2>1, <2>2, <2>4, <2>5, Zenon
    <2> QED BY <1>5, <2>6, Zenon DEF ReadInput, TypeOK, histVars, Inputs
  <1>6. CASE FilterEnds
    <2>1. data \in Inputs /\ out \in Inputs /\ <<>> \in Inputs
      BY TypesOfStream, EmptyIn
    <2>2. out' \in Inputs /\ data' \in Inputs /\ rpc' \in {"read", "filter", "send"}
      BY <1>6, <2>1, Concat DEF FilterEnds
    <2> QED BY <1>6, <2>2, Zenon DEF FilterEnds, TypeOK, termVars, queryVars, histVars, Inputs
  <1>7. CASE FilterKeeps
    <2>1. buf' \in Inputs /\ data' \in Inputs /\ rpc' \in {"read", "filter", "send"}
      BY <1>7, TypesOfStream, EmptyIn DEF FilterKeeps
    <2> QED BY <1>7, <2>1, Zenon DEF FilterKeeps, TypeOK, termVars, histVars, Inputs
  <1>8. CASE FilterPasses
    <2>1. data \in Inputs /\ out \in Inputs
      BY TypesOfStream
    <2>2. PICK n : /\ n = IF data[1].sym = "esc" /\ IsTail(data[2]) THEN 2 ELSE 1
                   /\ out' = out \o SubSeq(data, 1, n)
                   /\ data' = SubSeq(data, n + 1, Len(data))
      BY <1>8, Zenon DEF FilterPasses
    <2>3. n \in 0..Len(data)
      <3>1. Len(data) \in Nat \ {0}
        BY <1>8, <2>1, EmptySeq DEF FilterPasses, Inputs
      <3>2. data[1].sym = "esc" => Len(data) > 1
        BY <1>8 DEF FilterPasses
      <3> QED BY <2>2, <3>1, <3>2
    <2>4. SubSeq(data, 1, n) \in Inputs /\ SubSeq(data, n + 1, Len(data)) \in Inputs
      BY <2>1, <2>3, Cut
    <2>5. out' \in Inputs /\ data' \in Inputs
      BY <2>1, <2>2, <2>4, Concat
    <2> QED BY <1>8, <2>5, Zenon DEF FilterPasses, TypeOK, termVars, queryVars, histVars, Inputs
  <1>9. CASE FilterMatches
    <2>1. Len(data) > 1 /\ data \in Inputs
      BY <1>9, TypesOfStream DEF FilterMatches, Matched
    <2>2. 2 \in 0..Len(data) /\ 2 \in 1..Len(data) /\ 2 + 1 = 3
      BY <2>1, LenProperties DEF Inputs
    <2>3. SubSeq(data, 3, Len(data)) \in Inputs
      BY <2>1, <2>2, Cut
    <2>4. data[2] \in Symbols
      BY <2>1, <2>2, ElementOfSeq DEF Inputs
    <2>5. <<data[2]>> \in Seq(Symbols)
      BY <2>4
    <2>6. chan[cur] = <<>> /\ cur \in Queries
      BY <1>9 DEF FilterMatches, Matched, OneAnswer
    <2>7. chan' = [chan EXCEPT ![cur] = <<data[2]>>]
      BY <1>9, <2>6 DEF FilterMatches
    <2>8. chan' \in [Queries -> Seq(Symbols)]
      BY <2>5, <2>7 DEF TypeOK
    <2>9. timer' \in [Queries -> {"off", "running", "firing"}]
      BY <1>9 DEF FilterMatches, TypeOK, Stop
    <2>10. buf' \in Seq(Symbols) /\ armed' \in BOOLEAN /\ data' \in Inputs
      BY <1>9, <2>3, EmptySeq DEF FilterMatches
    <2> QED BY <1>9, <2>8, <2>9, <2>10, Zenon DEF FilterMatches, TypeOK, termVars, histVars, Inputs
  <1>10. CASE SendInput
    <2>1. /\ bus' = Append(bus, out) /\ Len(bus) < BusCap /\ out \in Seq(Symbols)
          /\ bus \in Seq(Seq(Symbols))
      BY <1>10 DEF SendInput, TypeOK
    <2>2. bus' \in Seq(Seq(Symbols)) /\ Len(bus') = Len(bus) + 1
      BY <2>1, AppendProperties
    <2>3. Len(bus') <= BusCap
      BY <2>1, <2>2, LenProperties, ParametersAssumption
    <2>4. out' \in Seq(Symbols) /\ rpc' \in {"read", "filter", "send"}
      BY <1>10, EmptySeq DEF SendInput
    <2> QED BY <1>10, <2>2, <2>3, <2>4, Zenon DEF SendInput, TypeOK, termVars, queryVars, histVars
  <1>11. CASE HandleInput
    <2>1. /\ bus # <<>> /\ bus' = Tail(bus) /\ child' = child \o Typed(Head(bus))
          /\ bus \in Seq(Seq(Symbols)) /\ Len(bus) <= BusCap
      BY <1>11 DEF HandleInput, TypeOK
    <2>2. Head(bus) \in Inputs /\ bus' \in Seq(Seq(Symbols)) /\ Len(bus') = Len(bus) - 1
      BY <2>1, HeadTailProperties DEF Inputs
    <2>3. Len(bus') <= BusCap
      BY <2>1, <2>2, LenProperties, ParametersAssumption
    <2>4. child' \in Seq(Symbols)
      BY <2>1, <2>2, TypesOfStream, TypedType, Concat DEF Inputs
    <2> QED BY <1>11, <2>2, <2>3, <2>4, Zenon
            DEF HandleInput, TypeOK, termVars, queryVars, readerVars
  <1>12. CASE ChildAsks
    <2>1. asked' \in Seq(Queries \cup {Child})
      BY <1>12, AppendProperties DEF ChildAsks, TypeOK
    <2>2. asks' \in 0..MaxQueries
      <3>1. /\ asks \in 0..MaxQueries /\ cur \in 0..MaxQueries /\ cur + asks < MaxQueries
            /\ asks' = asks + 1
        BY <1>12 DEF ChildAsks, TypeOK
      <3> QED BY <3>1, ParametersAssumption
    <2> QED BY <1>12, <2>1, <2>2, Zenon DEF ChildAsks, TypeOK, queryVars, readerVars, histVars
  <1>13. CASE Probe \/ AskAndWait
    <2>1. Arm /\ UNCHANGED <<asks, keys, inp, readerVars, bus, child>> /\ lpc' \in {"idle", "wait"}
      BY <1>13 DEF Probe, AskAndWait, TypeOK
    <2>2. cur' \in Queries /\ cur' \in 0..MaxQueries
      <3>1. /\ asks \in 0..MaxQueries /\ cur \in 0..MaxQueries /\ cur + asks < MaxQueries
            /\ cur' = cur + 1
        BY <2>1 DEF Arm, TypeOK
      <3> QED BY <3>1, ParametersAssumption DEF Queries
    <2>3. asked' \in Seq(Queries \cup {Child})
      BY <2>1, <2>2, AppendProperties DEF Arm, TypeOK
    <2>4. timer' \in [Queries -> {"off", "running", "firing"}]
      BY <2>1 DEF Arm, TypeOK, Stop
    <2>5. dropped' \in Seq(Symbols)
      BY <2>1, TypesOfStream, TypedType, Concat DEF Arm, Inputs
    <2>6. buf' \in Seq(Symbols) /\ armed' \in BOOLEAN /\ chan' = chan
      BY <2>1, EmptySeq DEF Arm
    <2> QED BY <2>1, <2>2, <2>3, <2>4, <2>5, <2>6, Zenon DEF TypeOK, readerVars
  <1>14. CASE Answered \/ TimesOut
    BY <1>14, Zenon DEF Answered, TimesOut, TypeOK, termVars, queryVars, readerVars, histVars
  <1>15. CASE UNCHANGED vars
    BY <1>15, Zenon DEF TypeOK, vars, termVars, queryVars, readerVars, histVars
  <1> QED BY <1>1, <1>2, <1>3, <1>4, <1>5, <1>6, <1>7, <1>8, <1>9, <1>10, <1>11, <1>12, <1>13,
             <1>14, <1>15 DEF Next, LoopNext, ReaderStep

\* All of it holds at the start.
LEMMA AtFirst == ASSUME Init PROVE TypeOK /\ HeldBack /\ OneAnswer /\ StreamOK
  <1> USE DEF Init
  <1>1. <<>> \in Inputs /\ <<>> \o <<>> = <<>>
    BY EmptyIn
  <1>2. TypeOK
    <2>1. <<>> \in Seq(Symbols) /\ <<>> \in Seq(Seq(Symbols)) /\ <<>> \in Seq(Queries \cup {Child})
      BY EmptySeq
    <2>2. Len(<<>>) <= BusCap /\ 0 \in 0..MaxQueries /\ 0 \in 0..MaxKeys
      BY ParametersAssumption
    <2> QED BY <2>1, <2>2 DEF TypeOK
  <1>3. HeldBack
    BY DEF HeldBack
  <1>4. OneAnswer
    BY DEF OneAnswer
  <1>5. Undecided = <<>> /\ child \o InTransit = <<>>
    BY <1>1, FlatOfEmpty DEF Undecided, InTransit, Forwarded
  <1>6. Typed(<<>>) = <<>>
    BY OnlyOfEmpty DEF Typed
  <1>7. TailsFollow(<<>>)
    BY DEF TailsFollow
  <1>8. Good(<<>>, 0, Range(dropped) \cup Taken)
    <2>1. Ordered(<<>>)
      BY DEF Ordered
    <2>2. Range(<<>>) = {} /\ 1..0 = {}
      BY DEF Range
    <2> QED BY <1>1, <2>1, <2>2 DEF Good, Accounted
  <1> QED BY <1>2, <1>3, <1>4, <1>5, <1>6, <1>7, <1>8 DEF StreamOK

\* The parts proved about and the invariant that TLC checks are the same.
LEMMA StreamIsIInv == TypeOK => (IInv <=> HeldBack /\ OneAnswer /\ StreamOK)
  <1>1. SUFFICES ASSUME TypeOK PROVE IInv <=> HeldBack /\ OneAnswer /\ StreamOK
    OBVIOUS
  <1>2. child \o InTransit \in Inputs
    BY <1>1, TypesOfStream, Concat
  <1>3. Typed(child \o InTransit) \in Inputs
    BY <1>2, TypedType
  <1>4. PICK y, lost :
         y \in Inputs /\ y = Typed(child \o InTransit) /\ lost = Range(dropped) \cup Taken
    BY <1>3
  <1>5. IInv <=> HeldBack /\ TailsFollow(Undecided) /\ OneAnswer /\ Ordered(y)
           /\ Accounted(y, keys, lost)
    BY <1>1, <1>4, Zenon DEF IInv
  <1>6. StreamOK <=> TailsFollow(Undecided) /\ Ordered(y) /\ Accounted(y, keys, lost)
    BY <1>4, Zenon DEF StreamOK, Good
  <1> QED BY <1>5, <1>6, Zenon

\* The inductive invariant of the input's way: where bytes are held back, that
\* tails follow their ESC, one answer a query, order, and no key unaccounted for.
THEOREM StreamIsKept == Spec => []IInv
  <1>1. Init => IInv
    BY AtFirst, StreamIsIInv
  <1>2. IInv /\ [Next]_vars => IInv'
    <2> SUFFICES ASSUME IInv, [Next]_vars PROVE IInv'
      OBVIOUS
    <2>1. TypeOK /\ HeldBack /\ OneAnswer /\ StreamOK
      BY StreamIsIInv DEF IInv
    <2>2. TypeOK' /\ HeldBack' /\ OneAnswer'
      BY <2>1, TypeStep, HeldBackStep, OneAnswerStep
    <2>3. StreamOK'
      BY <2>1, <2>2, StreamStep
    <2>4. (TypeOK => (IInv <=> HeldBack /\ OneAnswer /\ StreamOK))'
      BY StreamIsIInv, PTL
    <2> QED BY <2>2, <2>3, <2>4
  <1> QED BY <1>1, <1>2, PTL DEF Spec

\* Type correctness of the input's way.
THEOREM TypeCorrect == Spec => []TypeOK
  <1>1. IInv => TypeOK
    BY DEF IInv
  <1> QED BY <1>1, StreamIsKept, PTL

\* Whatever is typed and however reads cut it, keys reach the child once and in
\* order, or are known to have been taken for a reply or dropped with the buffer
\* (PositionQuery.Filter, the reader and the loop).
THEOREM EveryKeyArrives == Spec => []InputArrives
  <1>1. IInv => InputArrives
    <2> SUFFICES ASSUME IInv PROVE InputArrives
      OBVIOUS
    <2>1. TypeOK
      BY DEF IInv
    <2>2. child \o InTransit \in Inputs
      BY <2>1, TypesOfStream, Concat
    <2>3. PICK y \in Inputs :
           y = Typed(child \o InTransit) /\ Range(y) = Range(child \o InTransit) \cap Pressed
      BY <2>2, TypedType
    <2>4. Ordered(y) /\ Accounted(y, keys, Range(dropped) \cup Taken)
      BY <2>3 DEF IInv
    <2>5. InputInOrder
      BY <2>3, <2>4, OrderedIsInOrder DEF InputInOrder
    <2>6. KeysAccounted
      BY <2>3, <2>4 DEF KeysAccounted, Accounted
    <2> QED BY <2>5, <2>6 DEF InputArrives
  <1> QED BY <1>1, StreamIsKept, PTL

\* Filter never finds the channel of the armed query full (the select in Filter
\* that would discard the reply never takes its default).
THEOREM FilterHasRoom == Spec => []ReplyHasRoom
  <1>1. IInv => ReplyHasRoom
    BY DEF IInv, OneAnswer, ReplyHasRoom, Queries
  <1> QED BY <1>1, StreamIsKept, PTL
-------------------------------------------------------------------------------
(* PositionQuery as a QueryChannel. *)

\* The answers of the channel.
Answers == [who : Queries \cup {Child, User}, row : {1}]

\* As what they answer.
Says(r) == [i \in 1..Len(r) |-> [who |-> r[i].who, row |-> 1]]

\* The answers in an input and how many there are.
LEMMA AnswersAreSaid ==
    ASSUME NEW s \in Inputs
    PROVE  /\ Only(Replies, s) \in Inputs
           /\ AnswersIn(s) = Says(Only(Replies, s))
           /\ AnswersIn(s) \in Seq(Answers)
           /\ Len(AnswersIn(s)) = Len(Only(Replies, s))
  <1>1. PICK r \in Inputs : r = Only(Replies, s)
    BY OnlyType DEF Inputs
  <1>2. AnswersIn(s) = Says(r)
    BY <1>1, Zenon DEF AnswersIn, Says
  <1>3. PICK l \in Nat : l = Len(r)
    BY LenProperties DEF Inputs
  <1>4. \A i \in 1..l : r[i].who \in Queries \cup {Child, User}
    <2>1. \A i \in 1..l : r[i] \in Symbols
      BY <1>3, ElementOfSeq, Zenon DEF Inputs
    <2> QED BY <2>1 DEF Symbols
  <1>5. Says(r) \in Seq(Answers) /\ Len(Says(r)) = l
    BY <1>3, <1>4 DEF Says, Answers
  <1> QED BY <1>1, <1>2, <1>3, <1>5

\* Of a concatenation.
LEMMA AnswersConcat ==
    ASSUME NEW a \in Inputs, NEW b \in Inputs
    PROVE  AnswersIn(a \o b) = AnswersIn(a) \o AnswersIn(b)
  <1>1. PICK r \in Inputs, t \in Inputs : r = Only(Replies, a) /\ t = Only(Replies, b)
    BY OnlyType DEF Inputs
  <1>2. a \o b \in Inputs /\ r \o t \in Inputs /\ Only(Replies, a \o b) = r \o t
    <2>1. a \o b \in Inputs /\ r \o t \in Inputs
      BY Concat
    <2>2. Only(Replies, a \o b) = Only(Replies, a) \o Only(Replies, b)
      BY OnlyOfConcat, SMTT(30) DEF Inputs
    <2> QED BY <1>1, <2>1, <2>2
  <1>3. AnswersIn(a) = Says(r) /\ AnswersIn(b) = Says(t) /\ AnswersIn(a \o b) = Says(r \o t)
    BY <1>1, <1>2, AnswersAreSaid
  <1>4. Says(r \o t) = Says(r) \o Says(t)
    <2>1. PICK m \in Nat, k \in Nat : m = Len(r) /\ k = Len(t)
      BY LenProperties DEF Inputs
    <2>2. PICK c \in Inputs : c = r \o t
      BY <1>2
    <2>3. Len(c) = m + k /\ \A i \in 1..m + k : c[i] = IF i <= m THEN r[i] ELSE t[i - m]
      BY <2>1, <2>2, ConcatProperties DEF Inputs
    <2>4. PICK u, v, w : u = Says(r) /\ v = Says(t) /\ w = Says(c)
      OBVIOUS
    <2>5. /\ u \in Seq(Answers) /\ v \in Seq(Answers) /\ w \in Seq(Answers)
          /\ Len(u) = m /\ Len(v) = k /\ Len(w) = m + k
      BY <1>1, <1>2, <1>3, <2>1, <2>2, <2>3, <2>4, AnswersAreSaid
    <2>6. /\ u \o v \in Seq(Answers) /\ Len(u \o v) = m + k
          /\ \A i \in 1..m + k : (u \o v)[i] = IF i <= m THEN u[i] ELSE v[i - m]
      BY <2>5, ConcatProperties
    <2>7. PICK z \in Seq(Answers) :
             z = u \o v /\ \A i \in 1..m + k : z[i] = IF i <= m THEN u[i] ELSE v[i - m]
      BY <2>6, Zenon
    <2>8. /\ \A i \in 1..m : u[i] = [who |-> r[i].who, row |-> 1]
          /\ \A i \in 1..k : v[i] = [who |-> t[i].who, row |-> 1]
          /\ \A i \in 1..m + k : w[i] = [who |-> c[i].who, row |-> 1]
      BY <2>1, <2>3, <2>4 DEF Says
    <2>9. \A i \in 1..m + k : w[i] = z[i]
      <3> SUFFICES ASSUME NEW i \in 1..m + k PROVE w[i] = z[i]
        OBVIOUS
      <3>1. CASE i <= m
        <4>1. i \in 1..m
          BY <3>1
        <4> QED BY <3>1, <4>1, <2>3, <2>7, <2>8
      <3>2. CASE i > m
        <4>1. PICK j \in 1..k : j = i - m
          BY <3>2
        <4>2. z[i] = v[j] /\ c[i] = t[j]
          <5>1. ~(i <= m) /\ i - m = j
            BY <4>1, <3>2
          <5> QED BY <5>1, <2>3, <2>7, Zenon
        <4> QED BY <4>2, <2>8
      <3> QED BY <3>1, <3>2
    <2>10. w = z
      BY <2>5, <2>6, <2>7, <2>9, SeqEqual
    <2> QED BY <2>2, <2>4, <2>7, <2>10
  <1> QED BY <1>3, <1>4

\* Of nothing,
LEMMA AnswersOfNone == AnswersIn(<<>>) = <<>>
  BY OnlyOfEmpty DEF AnswersIn

\* of one symbol,
LEMMA AnswersOfOne ==
    ASSUME NEW x \in Symbols
    PROVE  AnswersIn(<<x>>) = IF x \in Replies THEN <<[who |-> x.who, row |-> 1]>> ELSE <<>>
  <1>1. Append(<<>>, x) = <<x>> /\ <<>> \in Seq(Symbols)
    BY EmptySeq
  <1>2. Only(Replies, <<x>>) = IF x \in Replies THEN <<x>> ELSE <<>>
    <2>1. PICK e \in Seq(Symbols) : e = <<>>
      BY <1>1
    <2>2. Only(Replies, Append(e, x)) =
           IF x \in Replies THEN Append(Only(Replies, e), x) ELSE Only(Replies, e)
      BY OnlyOfAppend
    <2>3. Only(Replies, e) = <<>>
      BY <2>1, OnlyOfEmpty
    <2> QED BY <1>1, <2>1, <2>2, <2>3, Zenon
  <1> QED BY <1>2 DEF AnswersIn

\* and of two when the first is no reply.
LEMMA AnswersOfTwo ==
    ASSUME NEW x \in Symbols, NEW y \in Symbols, x \notin Replies
    PROVE  AnswersIn(<<x, y>>) = AnswersIn(<<y>>)
  <1>1. <<x>> \in Inputs /\ <<y>> \in Inputs /\ <<x, y>> = <<x>> \o <<y>>
    <2>1. <<x>> \in Seq(Symbols) /\ <<y>> \in Seq(Symbols)
      OBVIOUS
    <2>2. PICK e \in Seq(Symbols) : e = <<x>>
      BY <2>1
    <2>3. Append(e, y) = e \o <<y>>
      BY AppendIsConcat
    <2>4. Append(<<x>>, y) = <<x, y>>
      <3>1. PICK d \in Seq(Symbols) : d = <<x, y>> /\ Len(d) = 2 /\ d[1] = x /\ d[2] = y
        <4>1. <<x, y>> \in Seq(Symbols) /\ Len(<<x, y>>) = 2
          OBVIOUS
        <4> QED BY <4>1
      <3>2. Len(e) = 1 /\ e[1] = x
        BY <2>2
      <3>3. PICK g \in Seq(Symbols) : g = Append(e, y) /\ Len(g) = 2 /\ g[1] = x /\ g[2] = y
        <4>1. PICK g \in Seq(Symbols) : g = Append(e, y)
          BY AppendProperties
        <4>2. /\ Len(g) = Len(e) + 1 /\ g[Len(e) + 1] = y
              /\ \A i \in 1..Len(e) : g[i] = e[i]
          <5>1. /\ Len(Append(e, y)) = Len(e) + 1 /\ Append(e, y)[Len(e) + 1] = y
                /\ \A i \in 1..Len(e) : Append(e, y)[i] = e[i]
            BY AppendProperties
          <5> QED BY <5>1, <4>1
        <4>3. Len(g) = 2 /\ g[2] = y /\ g[1] = e[1]
          BY <3>2, <4>2
        <4> QED BY <3>2, <4>1, <4>3
      <3>4. \A i \in 1..Len(g) : g[i] = d[i]
        BY <3>1, <3>3
      <3>5. g = d
        BY <3>1, <3>3, <3>4, SeqEqual
      <3> QED BY <2>2, <3>1, <3>3, <3>5
    <2>5. <<x, y>> = <<x>> \o <<y>>
      BY <2>2, <2>3, <2>4, Zenon
    <2> QED BY <2>1, <2>5, Zenon DEF Inputs
  <1>2. AnswersIn(<<x, y>>) = AnswersIn(<<x>>) \o AnswersIn(<<y>>)
    BY <1>1, AnswersConcat
  <1>3. AnswersIn(<<x>>) = <<>> /\ AnswersIn(<<y>>) \in Seq(Answers)
    BY <1>1, AnswersOfOne, AnswersAreSaid
  <1> QED BY <1>2, <1>3, ConcatEmptySeq

\* The back of a sequence, where its front ends.
LEMMA BackOf ==
    ASSUME NEW S, NEW a \in Seq(S), NEW b \in Seq(S), NEW n \in Nat, n = Len(a)
    PROVE  /\ b = SubSeq(a \o b, n + 1, Len(a \o b))
           /\ n # 0 => n \in 1..Len(a \o b)
  <1>1. PICK k \in Nat, c \in Seq(S) : k = Len(b) /\ c = a \o b
    BY LenProperties, ConcatProperties
  <1>2. Len(c) = n + k /\ \A i \in 1..n + k : c[i] = IF i <= n THEN a[i] ELSE b[i - n]
    BY <1>1, ConcatProperties
  <1>3. \A i \in n + 1..n + k : c[i] \in S
    BY <1>2, ElementOfSeq
  <1>4. PICK d : d = SubSeq(c, n + 1, n + k)
    OBVIOUS
  <1>5. d \in Seq(S) /\ Len(d) = k /\ \A i \in 1..k : d[i] = c[n + i]
    <2>1. n + 1 \in Int /\ n + k \in Int
      OBVIOUS
    <2>2. /\ d \in Seq(S) /\ Len(d) = IF n + 1 <= n + k THEN n + k - (n + 1) + 1 ELSE 0
          /\ \A i \in 1..n + k - (n + 1) + 1 : d[i] = c[n + 1 + i - 1]
      BY <1>3, <1>4, <2>1, SubSeqProperties
    <2>3. Len(d) = k
      BY <2>2
    <2>4. \A i \in 1..k : d[i] = c[n + i]
      <3>1. \A i \in 1..k : i \in 1..n + k - (n + 1) + 1 /\ n + 1 + i - 1 = n + i
        OBVIOUS
      <3> QED BY <2>2, <3>1
    <2> QED BY <2>2, <2>3, <2>4
  <1>6. \A i \in 1..k : d[i] = b[i]
    <2>1. ASSUME NEW i \in 1..k PROVE d[i] = b[i]
      <3>1. n + i \in 1..n + k /\ ~(n + i <= n) /\ n + i - n = i
        OBVIOUS
      <3>2. c[n + i] = b[i]
        BY <1>2, <3>1
      <3> QED BY <1>5, <3>2
    <2> QED BY <2>1
  <1>7. d = b
    BY <1>1, <1>5, <1>6, SeqEqual
  <1>8. n # 0 => n \in 1..Len(c)
    BY <1>1, <1>2
  <1> QED BY <1>1, <1>2, <1>4, <1>7, <1>8, Zenon

\* The state of the channel.
CReplies == AnswersIn(Undecided)
CChan    == [q \in Queries |-> AnswersIn(chan[q])]

\* The variables of the channel.
LEMMA ChannelVars == Channel!cvars = <<asked, asks, CReplies, armed, cur, CChan>>
  BY DEF Channel!cvars, CReplies, CChan

\* Answers that Filter lets through leak; without any, nothing happens.
LEMMA LeakOrNone ==
    ASSUME TypeOK, TypeOK', NEW p \in Inputs, Undecided = p \o Undecided',
           UNCHANGED <<asked, asks, armed, cur, chan>>
    PROVE  [Channel!CNext]_(Channel!cvars)
  <1>1. PICK u \in Inputs : u = Undecided'
    <2>1. (TypeOK => Undecided \in Inputs)'
      BY TypesOfStream, PTL
    <2> QED BY <2>1
  <1>2. PICK a \in Seq(Answers), b \in Seq(Answers) : a = AnswersIn(p) /\ b = AnswersIn(u)
    BY AnswersAreSaid
  <1>3. CReplies = a \o b /\ CReplies' = b
    BY <1>1, <1>2, AnswersConcat DEF CReplies
  <1>4. CChan' = CChan
    BY DEF CChan
  <1>5. CASE a = <<>>
    <2>1. CReplies' = CReplies
      BY <1>3, <1>5, ConcatEmptySeq
    <2>2. AnswersIn(Undecided)' = AnswersIn(Undecided)
      BY <2>1 DEF CReplies
    <2>3. [q \in Queries |-> AnswersIn(chan[q])]' = [q \in Queries |-> AnswersIn(chan[q])]
      BY <1>4 DEF CChan
    <2>4. UNCHANGED Channel!cvars
      BY <2>2, <2>3, Zenon DEF Channel!cvars
    <2> QED BY <2>4
  <1>6. CASE a # <<>>
    <2>1. PICK n \in Nat : n = Len(a)
      BY LenProperties
    <2>2. n \in 1..Len(a \o b) /\ b = SubSeq(a \o b, n + 1, Len(a \o b))
      <3>1. n # 0
        BY <1>6, <2>1, EmptySeq
      <3> QED BY <2>1, <3>1, BackOf
    <2>3. Channel!Leak
      <3>1. \E m \in 1..Len(CReplies) : CReplies' = SubSeq(CReplies, m + 1, Len(CReplies))
        BY <1>3, <2>2
      <3> QED BY <1>4, <3>1 DEF Channel!Leak, CReplies, CChan
    <2> QED BY <2>3 DEF Channel!CNext
  <1> QED BY <1>5, <1>6
\* Steps that the channel does not see.
LEMMA ChannelSame ==
    ASSUME UNCHANGED <<asked, asks, armed, cur, chan>>, Undecided' = Undecided
    PROVE  UNCHANGED Channel!cvars
  <1>1. AnswersIn(Undecided)' = AnswersIn(Undecided)
    OBVIOUS
  <1>2. [q \in Queries |-> AnswersIn(chan[q])]' = [q \in Queries |-> AnswersIn(chan[q])]
    OBVIOUS
  <1> QED BY <1>1, <1>2, Zenon DEF Channel!cvars

\* What a key press or the terminal adds is one answer or none.
LEMMA AnswersGrow ==
    ASSUME TypeOK, NEW s \in Inputs, inp' = inp \o s, UNCHANGED <<data, buf>>
    PROVE  CReplies' = CReplies \o AnswersIn(s)
  <1>1. PICK u \in Inputs : u = Undecided
    BY TypesOfStream
  <1>2. Undecided' = u \o s
    BY <1>1, UndecidedGrows
  <1>3. AnswersIn(u \o s) = AnswersIn(u) \o AnswersIn(s)
    BY AnswersConcat
  <1> QED BY <1>1, <1>2, <1>3 DEF CReplies

\* A key press is TypeReply or nothing.
LEMMA ChannelPressKey ==
    ASSUME TypeOK, PressKey
    PROVE  [Channel!CNext]_(Channel!cvars)
  <1>1. PICK s \in {<<Key(keys')>>, <<Esc(keys')>>, <<Esc(keys'), FnTail(keys')>>,
                    <<Esc(keys'), ShiftF3(keys')>>} : inp' = inp \o s
    BY DEF PressKey
  <1>2. PICK n \in 1..MaxKeys : n = keys'
    <2>1. keys \in Nat /\ keys < MaxKeys /\ keys' = keys + 1
      BY ParametersAssumption DEF PressKey, TypeOK
    <2> QED BY <2>1, ParametersAssumption
  <1>3. s \in Inputs
    BY <1>1, <1>2, Presses
  <1>4. UNCHANGED <<asked, asks, armed, cur, chan, data, buf>>
    BY DEF PressKey, queryVars, readerVars
  <1>5. CReplies' = CReplies \o AnswersIn(s) /\ CReplies \in Seq(Answers)
    BY <1>1, <1>3, <1>4, AnswersGrow, AnswersAreSaid, TypesOfStream DEF CReplies
  <1>6. CChan' = CChan
    BY <1>4 DEF CChan
  <1>7. {Key(n), Esc(n), FnTail(n), ShiftF3(n)} \subseteq Symbols
    BY SymbolKinds
  <1>8. /\ Key(n) \notin Replies /\ Esc(n) \notin Replies /\ FnTail(n) \notin Replies
        /\ ShiftF3(n) \in Replies /\ ShiftF3(n).who = User
    BY <1>7 DEF Replies, Key, Esc, FnTail, ShiftF3
  <1>9. AnswersIn(s) \in {<<>>, <<[who |-> User, row |-> 1]>>}
    <2>1. /\ AnswersIn(<<Key(n)>>) = <<>> /\ AnswersIn(<<Esc(n)>>) = <<>>
          /\ AnswersIn(<<FnTail(n)>>) = <<>>
          /\ AnswersIn(<<ShiftF3(n)>>) = <<[who |-> User, row |-> 1]>>
      BY <1>7, <1>8, AnswersOfOne
    <2>2. /\ AnswersIn(<<Esc(n), FnTail(n)>>) = AnswersIn(<<FnTail(n)>>)
          /\ AnswersIn(<<Esc(n), ShiftF3(n)>>) = AnswersIn(<<ShiftF3(n)>>)
      BY <1>7, <1>8, AnswersOfTwo
    <2> QED BY <1>1, <1>2, <2>1, <2>2, Zenon
  <1>10. CASE AnswersIn(s) = <<>>
    <2>1. CReplies' = CReplies
      BY <1>5, <1>10, ConcatEmptySeq
    <2> QED BY <1>4, <1>6, <2>1, Zenon DEF Channel!cvars, CReplies, CChan
  <1>11. CASE AnswersIn(s) = <<[who |-> User, row |-> 1]>>
    <2>1. CReplies' = Append(CReplies, [who |-> User, row |-> 1])
      <3>1. [who |-> User, row |-> 1] \in Answers
        BY DEF Answers
      <3> QED BY <1>5, <1>11, <3>1, AppendIsConcat
    <2>2. Channel!TypeReply(1)
      BY <1>4, <1>6, <2>1, Zenon DEF Channel!TypeReply, Channel!User, User, CReplies, CChan
    <2> QED BY <2>2 DEF Channel!CNext
  <1> QED BY <1>9, <1>10, <1>11

\* The terminal's answer is AnswerWith.
LEMMA ChannelAnswer ==
    ASSUME TypeOK, Answer
    PROVE  Channel!CNext
  <1>1. PICK q \in Queries \cup {Child} : q = Head(asked)
    BY HeadTailProperties DEF Answer, TypeOK
  <1>2. {Esc(0), Reply(q)} \subseteq Symbols /\ Esc(0) \notin Replies /\ Reply(q) \in Replies
    <2>1. {Esc(0), Reply(q)} \subseteq Symbols
      BY SymbolKinds, ParametersAssumption
    <2> QED BY <2>1 DEF Replies, Esc, Reply
  <1>3. PICK s \in Inputs : s = <<Esc(0), Reply(q)>>
    <2>1. \A x, y \in Symbols : <<x, y>> \in Seq(Symbols)
      OBVIOUS
    <2> QED BY <1>2, <2>1, Zenon DEF Inputs
  <1>4. AnswersIn(s) = <<[who |-> q, row |-> 1]>>
    <2>1. AnswersIn(<<Esc(0), Reply(q)>>) = AnswersIn(<<Reply(q)>>)
      BY <1>2, AnswersOfTwo
    <2>2. AnswersIn(<<Reply(q)>>) = <<[who |-> Reply(q).who, row |-> 1]>>
      BY <1>2, AnswersOfOne
    <2>3. Reply(q).who = q
      BY DEF Reply
    <2> QED BY <1>3, <2>1, <2>2, <2>3, Zenon
  <1>5. UNCHANGED <<asks, armed, cur, chan, data, buf>> /\ inp' = inp \o s
        /\ asked # <<>> /\ asked' = Tail(asked)
    BY <1>1, <1>3 DEF Answer, queryVars, readerVars
  <1>6. CReplies' = CReplies \o AnswersIn(s) /\ CReplies \in Seq(Answers)
    BY <1>5, AnswersGrow, AnswersAreSaid, TypesOfStream DEF CReplies
  <1>7. CReplies' = Append(CReplies, [who |-> Head(asked), row |-> 1])
    <2>1. [who |-> q, row |-> 1] \in Answers
      BY DEF Answers
    <2> QED BY <1>1, <1>4, <1>6, <2>1, AppendIsConcat
  <1>8. CChan' = CChan
    BY <1>5 DEF CChan
  <1>9. Channel!AnswerWith(1)
    BY <1>5, <1>7, <1>8, Zenon DEF Channel!AnswerWith, CReplies, CChan
  <1> QED BY <1>9 DEF Channel!CNext

\* The buffer holds no answer.
LEMMA NoAnswerInBuffer ==
    ASSUME TypeOK, HeldBack
    PROVE  buf \in Inputs /\ AnswersIn(buf) = <<>>
  <1>1. CASE buf = <<>>
    BY <1>1, AnswersOfNone, EmptyIn
  <1>2. CASE buf # <<>>
    <2>1. Len(buf) = 1 /\ buf[1].sym = "esc" /\ buf \in Inputs
      BY <1>2, TypesOfStream DEF HeldBack
    <2>2. PICK x \in Symbols : x = buf[1]
      <3>1. 1 \in 1..Len(buf)
        BY <2>1
      <3> QED BY <2>1, <3>1, ElementOfSeq DEF Inputs
    <2>3. buf = <<x>>
      <3>1. PICK e \in Seq(Symbols) : e = <<x>> /\ Len(e) = 1 /\ e[1] = x
        <4>1. <<x>> \in Seq(Symbols) /\ Len(<<x>>) = 1
          OBVIOUS
        <4> QED BY <4>1
      <3>2. \A i \in 1..Len(buf) : buf[i] = e[i]
        BY <2>1, <2>2, <3>1
      <3> QED BY <2>1, <3>1, <3>2, SeqEqual DEF Inputs
    <2>4. x \notin Replies
      BY <2>1, <2>2 DEF Replies
    <2> QED BY <2>1, <2>3, <2>4, AnswersOfOne
  <1> QED BY <1>1, <1>2

\* So giving it up loses none.
LEMMA BufferHidesNothing ==
    ASSUME TypeOK, TypeOK', HeldBack, MutexFree, UNCHANGED <<data, inp>>, buf' = <<>>
    PROVE  CReplies' = CReplies
  <1>1. PICK u \in Inputs, p \in Inputs : u = Undecided' /\ p = buf
    <2>1. (TypeOK => Undecided \in Inputs)'
      BY TypesOfStream, PTL
    <2> QED BY <2>1, NoAnswerInBuffer
  <1>2. Undecided = p \o u
    BY <1>1, BufferIsFirst
  <1>3. AnswersIn(p \o u) = AnswersIn(p) \o AnswersIn(u) /\ AnswersIn(u) \in Seq(Answers)
    BY AnswersConcat, AnswersAreSaid
  <1>4. AnswersIn(p) = <<>>
    BY <1>1, NoAnswerInBuffer
  <1>5. AnswersIn(p \o u) = AnswersIn(u)
    BY <1>3, <1>4, ConcatEmptySeq
  <1> QED BY <1>1, <1>2, <1>5 DEF CReplies

\* A match is Take.
LEMMA ChannelFilterMatches ==
    ASSUME TypeOK, TypeOK', HeldBack, OneAnswer, FilterMatches
    PROVE  Channel!CNext
  <1>1. /\ armed /\ armed' = FALSE /\ UNCHANGED <<asked, asks, cur>>
        /\ Len(data) > 1 /\ data[1].sym = "esc" /\ data[2].sym = "reply"
    BY DEF FilterMatches, Matched, termVars
  <1>2. PICK p \in Inputs : /\ Len(p) = 2 /\ p[1] = data[1] /\ p[2] = data[2]
                       /\ Undecided = p \o Undecided'
    BY MatchTakes
  <1>3. PICK x \in Symbols, y \in Symbols : x = data[1] /\ y = data[2]
    <2>1. 1 \in 1..Len(p) /\ 2 \in 1..Len(p)
      BY <1>2
    <2> QED BY <1>2, <2>1, ElementOfSeq DEF Inputs
  <1>4. p = <<x, y>>
    <2>1. PICK e \in Seq(Symbols) : e = <<x, y>> /\ Len(e) = 2 /\ e[1] = x /\ e[2] = y
      <3>1. <<x, y>> \in Seq(Symbols) /\ Len(<<x, y>>) = 2
        OBVIOUS
      <3> QED BY <3>1
    <2>2. \A i \in 1..Len(p) : p[i] = e[i]
      BY <1>2, <1>3, <2>1
    <2> QED BY <1>2, <2>1, <2>2, SeqEqual DEF Inputs
  <1>5. PICK a : a = [who |-> y.who, row |-> 1]
    OBVIOUS
  <1>6. AnswersIn(p) = <<a>> /\ AnswersIn(<<y>>) = <<a>> /\ a \in Answers
    <2>1. x \notin Replies /\ y \in Replies /\ a \in Answers
      BY <1>1, <1>3, <1>5 DEF Replies, Answers, Symbols
    <2> QED BY <1>4, <1>5, <2>1, AnswersOfTwo, AnswersOfOne
  <1>7. PICK u \in Inputs, b \in Seq(Answers) : u = Undecided' /\ b = AnswersIn(u)
    <2>1. (TypeOK => Undecided \in Inputs)'
      BY TypesOfStream, PTL
    <2> QED BY <2>1, AnswersAreSaid
  <1>8. CReplies = <<a>> \o b /\ CReplies' = b
    BY <1>2, <1>6, <1>7, AnswersConcat DEF CReplies
  <1>9. CReplies # <<>> /\ Head(CReplies) = a /\ Tail(CReplies) = CReplies'
    <2>1. <<a>> \o b # <<>> /\ Head(<<a>> \o b) = a /\ Tail(<<a>> \o b) = b
      BY <1>6, <1>7
    <2> QED BY <1>8, <2>1, Zenon
  <1>10. /\ cur \in Queries /\ chan' = [chan EXCEPT ![cur] = <<y>>]
         /\ chan \in [Queries -> Seq(Symbols)]
    BY <1>1, <1>3 DEF OneAnswer, FilterMatches, TypeOK
  <1>11. CChan' = [CChan EXCEPT ![cur] = <<a>>]
    <2>1. CChan' = [q \in Queries |-> IF q = cur THEN <<a>> ELSE AnswersIn(chan[q])]
      BY <1>6, <1>10 DEF CChan
    <2> QED BY <1>10, <2>1 DEF CChan
  <1>12. Channel!Take
    BY <1>1, <1>9, <1>11, Zenon DEF Channel!Take, CReplies, CChan
  <1> QED BY <1>12 DEF Channel!CNext

\* What arms a query anew, and what gives one up.
LEMMA ChannelArm ==
    ASSUME TypeOK, TypeOK', HeldBack, MutexFree, Arm, UNCHANGED <<asks, data, inp>>
    PROVE  Channel!CNext
  <1>1. /\ cur + asks < MaxQueries /\ cur' = cur + 1 /\ armed' = TRUE
        /\ asked' = Append(asked, cur') /\ UNCHANGED <<asks, chan>> /\ buf' = <<>>
    BY DEF Arm
  <1>2. CReplies' = CReplies /\ CChan' = CChan
    BY <1>1, BufferHidesNothing DEF CChan
  <1>3. Channel!Ask
    BY <1>1, <1>2, Zenon DEF Channel!Ask, CReplies, CChan
  <1> QED BY <1>3 DEF Channel!CNext

\* Every step is one of the channel's or changes nothing in it.
LEMMA ChannelStep ==
    ASSUME IInv, IInv', [Next]_vars
    PROVE  [Channel!CNext]_(Channel!cvars)
  <1>0. TypeOK /\ TypeOK' /\ HeldBack /\ OneAnswer
    BY DEF IInv
  <1> USE DEF termVars, queryVars, readerVars, histVars
  <1>1. CASE PressKey \/ Answer
    BY <1>0, <1>1, ChannelPressKey, ChannelAnswer
  <1>2. ASSUME NEW q \in Queries, GraceEnds(q)
        PROVE  [Channel!CNext]_(Channel!cvars)
    BY <1>2, ChannelSame DEF GraceEnds, Undecided
  <1>3. ASSUME NEW q \in Queries, GraceExpired(q)
        PROVE  [Channel!CNext]_(Channel!cvars)
    <2>1. CReplies' = CReplies /\ CChan' = CChan
      BY <1>0, <1>3, BufferHidesNothing DEF GraceExpired, CChan
    <2>2. armed' = FALSE /\ UNCHANGED <<asked, asks, cur>>
      BY <1>3 DEF GraceExpired
    <2>3. Channel!Disarm
      BY <2>1, <2>2, Zenon DEF Channel!Disarm, CReplies, CChan
    <2> QED BY <2>3 DEF Channel!CNext
  <1>4. CASE FilterMatches
    BY <1>0, <1>4, ChannelFilterMatches
  <1>5. CASE ReadInput \/ FilterEnds \/ FilterKeeps \/ FilterPasses \/ SendInput
    <2>1. Moves
      BY <1>0, <1>5, MovesReadInput, MovesFilterEnds, MovesFilterKeeps, MovesFilterPasses,
         MovesSendInput
    <2>2. UNCHANGED <<asked, asks, armed, cur, chan>>
      BY <1>5 DEF ReadInput, FilterEnds, FilterKeeps, FilterPasses, SendInput
    <2> QED BY <1>0, <2>1, <2>2, LeakOrNone DEF Moves
  <1>6. CASE HandleInput \/ Answered \/ TimesOut \/ UNCHANGED vars
    BY <1>6, ChannelSame DEF HandleInput, Answered, TimesOut, vars, Undecided
  <1>7. CASE ChildAsks
    <2>1. /\ cur + asks < MaxQueries /\ asks' = asks + 1 /\ asked' = Append(asked, Child)
          /\ UNCHANGED <<armed, cur>>
      BY <1>7 DEF ChildAsks
    <2>2. CReplies' = CReplies /\ CChan' = CChan
      BY <1>7 DEF ChildAsks, CReplies, CChan, Undecided
    <2>3. Channel!ForeignAsk
      BY <2>1, <2>2, Zenon DEF Channel!ForeignAsk, Channel!Child, Child, CReplies, CChan
    <2> QED BY <2>3 DEF Channel!CNext
  <1>8. CASE Probe \/ AskAndWait
    BY <1>0, <1>8, ChannelArm DEF Probe, AskAndWait
  <1> QED BY <1>1, <1>2, <1>3, <1>4, <1>5, <1>6, <1>7, <1>8 DEF Next, LoopNext, ReaderStep

\* The initial states agree.
LEMMA ChannelAtFirst == Init => Channel!CInit
  <1>1. SUFFICES ASSUME Init PROVE Channel!CInit
    OBVIOUS
  <1>2. Undecided = <<>>
    <2>1. <<>> \o <<>> = <<>>
      BY EmptyIn
    <2> QED BY <1>1, <2>1 DEF Init, Undecided
  <1>3. CReplies = <<>>
    BY <1>2, AnswersOfNone DEF CReplies
  <1>4. CChan = [q \in Queries |-> <<>>]
    BY <1>1, AnswersOfNone DEF Init, CChan
  <1>5. Channel!Queries = Queries
    BY DEF Channel!Queries, Queries
  <1> QED BY <1>1, <1>3, <1>4, <1>5, Zenon DEF Init, Channel!CInit, CReplies, CChan

\* PositionQuery with its reader, timers and buffer implements the channel that
\* CursorPlacement relies on: answers in order, the first for the open question.
THEOREM ItIsAChannel == Spec => IsQueryChannel
  <1>1. Init => Channel!CInit
    BY ChannelAtFirst
  <1>2. IInv /\ IInv' /\ [Next]_vars => [Channel!CNext]_(Channel!cvars)
    BY ChannelStep
  <1> QED BY <1>1, <1>2, StreamIsKept, PTL DEF Spec, IsQueryChannel, Channel!CSpec
-------------------------------------------------------------------------------
(* Loops, and the types of a row. *)

\* What holds of 0 and, with a number, of the next one, holds of all.
LEMMA Climb ==
    ASSUME NEW n \in Nat, NEW P, 0 \in P, \A i \in 1..n : i - 1 \in P => i \in P
    PROVE  \A i \in 0..n : i \in P
  <1> DEFINE Bad == {i \in 0..n : i \notin P}
  <1>1. SUFFICES ASSUME Bad # {} PROVE FALSE
    OBVIOUS
  <1>2. PICK i \in Bad : \A j \in Bad : i <= j
    <2>1. Bad \in SUBSET Nat
      OBVIOUS
    <2> QED BY <1>1, <2>1, LeastNatural
  <1>3. i \in 1..n /\ i - 1 \in 0..n /\ ~(i <= i - 1)
    BY <1>2
  <1>4. i - 1 \notin Bad
    BY <1>2, <1>3
  <1> QED BY <1>2, <1>3, <1>4

\* n steps of a loop from b: step i makes G[i][s] of the state s.
IsRun(f, b, n, G) == f[0] = b /\ \A i \in 1..n : f[i] = G[i][f[i - 1]]

\* A loop that goes from state to state has a run of n steps.
LEMMA LoopRuns ==
    ASSUME NEW S, NEW b \in S, NEW n \in Nat, NEW G \in [1..n -> [S -> S]]
    PROVE  \E f \in [0..n -> S] : IsRun(f, b, n, G)
  <1> DEFINE Run(m, f) == f[0] = b /\ \A i \in 1..m : f[i] = G[i][f[i - 1]]
             P == {m \in 0..n : \E f \in [0..m -> S] : Run(m, f)}
  <1>1. 0 \in P
    <2> DEFINE h == [i \in 0..0 |-> b]
    <2>1. h \in [0..0 -> S]
      OBVIOUS
    <2>2. h[0] = b /\ \A i \in 1..0 : h[i] = G[i][h[i - 1]]
      OBVIOUS
    <2> HIDE DEF h
    <2> QED BY <2>1, <2>2
  <1>2. ASSUME NEW m \in 1..n, m - 1 \in P PROVE m \in P
    <2>1. PICK f \in [0..m - 1 -> S] : Run(m - 1, f)
      BY <1>2
    <2> DEFINE g == [i \in 0..m |-> IF i = m THEN G[m][f[m - 1]] ELSE f[i]]
    <2>2. f[m - 1] \in S
      BY <1>2
    <2>3. g \in [0..m -> S]
      BY <2>2, <1>2
    <2>4. Run(m, g)
      <3>1. g[0] = b
        BY <2>1
      <3>2. ASSUME NEW i \in 1..m PROVE g[i] = G[i][g[i - 1]]
        BY <2>1, <1>2
      <3> QED BY <3>1, <3>2
    <2>5. \E k \in [0..m -> S] : Run(m, k)
      BY <2>3, <2>4
    <2>6. m \in 0..n
      OBVIOUS
    <2> QED BY <2>5, <2>6
  <1>3. \A i \in 1..n : i - 1 \in P => i \in P
    BY <1>2
  <1>4. n \in P
    <2> HIDE DEF P
    <2>1. \A i \in 0..n : i \in P
      BY <1>1, <1>3, Climb
    <2> QED BY <2>1
  <1> QED BY <1>4 DEF IsRun

\* What the tokens and the settings of a row are.
Texts == [kind : {"literal"}, lead : Nat, body : Nat, trail : Nat]
Sides == {"left", "center", "right"}
Widths == [kind : {"auto"}] \cup [kind : {"cells", "percent"}, n : Nat]
ModuleTokens == [kind : {"module"}, value : Nat, outer : Nat, anchor : Sides \cup {""},
                 width : Widths]
BlockTokens == {Sep} \cup Texts \cup ModuleTokens
Tokens == {Split} \cup BlockTokens
RowRecords == [tokens : Seq(Tokens), bar : Nat, border : BOOLEAN, separator : Nat, min : Nat,
               justify : Justifications]

\* What blocks they become.
Blocks == [block : BlockTokens, anchor : Sides, priority : {0, 1}]
-------------------------------------------------------------------------------
(* BarLayout: the separators. *)

\* A separator is decided when its turn comes, and only then.
SeparatorLoop(r, a, kept) ==
    /\ kept[0] = {}
    /\ \A i \in 1..Len(a.blocks) :
          kept[i] = IF Candidate(r, a, i) THEN Collapse(r, a, kept[i - 1], i) ELSE kept[i - 1]

\* The loop over the separators of a row has a run.
LEMMA SeparatorRuns ==
    ASSUME NEW r, NEW a, a.blocks \in Seq(Blocks)
    PROVE  SeparatorLoop(r, a, visibleSeparators(r, a))
  <1> DEFINE n == Len(a.blocks)
             S == SUBSET (1..n)
             G == [i \in 1..n |-> [kept \in S |->
                      IF Candidate(r, a, i) THEN Collapse(r, a, kept, i) ELSE kept]]
             Loop(f) == f = [i \in 0..n |->
                  IF i = 0 THEN {}
                  ELSE IF Candidate(r, a, i) THEN Collapse(r, a, f[i - 1], i) ELSE f[i - 1]]
  <1>1. n \in Nat
    OBVIOUS
  <1>2. ASSUME NEW i \in 1..n, NEW kept \in S PROVE Collapse(r, a, kept, i) \in S
    BY DEF Collapse
  <1>3. G \in [1..n -> [S -> S]]
    BY <1>2
  <1>4. PICK f \in [0..n -> S] : IsRun(f, {}, n, G)
    <2>1. {} \in S
      OBVIOUS
    <2> HIDE DEF G, S, n
    <2> QED BY <1>1, <1>3, <2>1, LoopRuns
  <1>5. Loop(f)
    <2>1. ASSUME NEW i \in 1..n
          PROVE  f[i] = IF Candidate(r, a, i) THEN Collapse(r, a, f[i - 1], i) ELSE f[i - 1]
      <3>1. i - 1 \in 0..n
        BY <1>1
      <3> HIDE DEF S, n
      <3> QED BY <3>1, <1>4 DEF IsRun
    <2> HIDE DEF n
    <2> QED BY <2>1, <1>1, <1>4 DEF IsRun
  <1>6. Loop(CHOOSE g : Loop(g))
    <2> HIDE DEF Loop
    <2> QED BY <1>5
  <1>7. visibleSeparators(r, a) = CHOOSE g : Loop(g)
    BY DEF visibleSeparators
  <1> HIDE DEF n
  <1>8. Loop(visibleSeparators(r, a))
    BY <1>6, <1>7
  <1>9. visibleSeparators(r, a)[0] = {}
    BY <1>1, <1>8
  <1>10. ASSUME NEW i \in 1..n
         PROVE  visibleSeparators(r, a)[i] =
                    IF Candidate(r, a, i) THEN Collapse(r, a, visibleSeparators(r, a)[i - 1], i)
                                          ELSE visibleSeparators(r, a)[i - 1]
    BY <1>1, <1>8
  <1> QED BY <1>9, <1>10 DEF SeparatorLoop, n
\* A separator that is kept has something to separate on both sides, and something
\* is shown between it and the one before it.
LEMMA KeptSeparators ==
    ASSUME NEW r, NEW a, a.blocks \in Seq(Blocks)
    PROVE  \A i \in visibleSeparators(r, a)[Len(a.blocks)] :
              /\ i \in 1..Len(a.blocks)
              /\ Candidate(r, a, i)
              /\ \A j \in visibleSeparators(r, a)[Len(a.blocks)] :
                    j < i => ~(/\ SameAnchor(a, i, j)
                               /\ \A k \in j + 1..i - 1 :
                                     ~IsSep(a.blocks[k].block) => ~Shows(r, a, k))
  <1> DEFINE n == Len(a.blocks)
             kept == visibleSeparators(r, a)
             Near(i, j) == /\ SameAnchor(a, i, j)
                           /\ \A k \in j + 1..i - 1 :
                                 ~IsSep(a.blocks[k].block) => ~Shows(r, a, k)
             P == {m \in 0..n : kept[m] = {j \in 1..m : j \in kept[j]}}
  <1>1. n \in Nat
    OBVIOUS
  <1>2. /\ kept[0] = {}
        /\ \A i \in 1..n :
              \/ /\ ~Candidate(r, a, i) \/ \E j \in kept[i - 1] : Near(i, j)
                 /\ kept[i] = kept[i - 1]
              \/ /\ Candidate(r, a, i) /\ ~ \E j \in kept[i - 1] : Near(i, j)
                 /\ kept[i] = kept[i - 1] \cup {i}
    <2>1. /\ kept[0] = {}
          /\ \A i \in 1..n : kept[i] = IF Candidate(r, a, i) THEN Collapse(r, a, kept[i - 1], i)
                                                              ELSE kept[i - 1]
      BY SeparatorRuns DEF SeparatorLoop
    <2>2. ASSUME NEW i \in 1..n
          PROVE  Collapse(r, a, kept[i - 1], i) = IF \E j \in kept[i - 1] : Near(i, j)
                                                  THEN kept[i - 1] ELSE kept[i - 1] \cup {i}
      BY DEF Collapse
    <2> HIDE DEF kept, Near
    <2> QED BY <2>1, <2>2
  <1> HIDE DEF n, kept, Near
  <1>3. \A m \in 0..n : m \in P
    <2>1. 0 \in P
      BY <1>1, <1>2
    <2>2. ASSUME NEW m \in 1..n, m - 1 \in P PROVE m \in P
      <3>1. kept[m - 1] = {j \in 1..m - 1 : j \in kept[j]}
        BY <2>2
      <3>2. kept[m] = kept[m - 1] \/ kept[m] = kept[m - 1] \cup {m}
        BY <1>2
      <3>3. \A j \in 1..m : j \in 1..m - 1 \/ j = m
        OBVIOUS
      <3>4. m \notin kept[m - 1]
        BY <3>1
      <3>5. ASSUME NEW j \in kept[m] PROVE j \in 1..m /\ j \in kept[j]
        BY <3>1, <3>2, <3>5, <1>1
      <3>6. ASSUME NEW j \in 1..m, j \in kept[j] PROVE j \in kept[m]
        BY <3>1, <3>2, <3>3, <3>6
      <3>7. m \in 0..n
        OBVIOUS
      <3> QED BY <3>5, <3>6, <3>7
    <2> HIDE DEF P
    <2> QED BY <2>1, <2>2, <1>1, Climb
  <1>4. \A m \in 0..n : kept[m] = {j \in 1..m : j \in kept[j]}
    BY <1>3
  <1> HIDE DEF P
  <1>5. SUFFICES ASSUME NEW i \in kept[n]
                 PROVE  /\ i \in 1..n /\ Candidate(r, a, i)
                        /\ \A j \in kept[n] : j < i => ~Near(i, j)
    BY DEF n, kept, Near
  <1>6. i \in 1..n /\ i \in kept[i]
    BY <1>1, <1>4
  <1>7. i - 1 \in 0..n /\ i \notin kept[i - 1]
    BY <1>1, <1>4, <1>6
  <1>8. Candidate(r, a, i) /\ ~ \E j \in kept[i - 1] : Near(i, j)
    BY <1>2, <1>6, <1>7
  <1>9. \A j \in kept[n] : j < i => j \in kept[i - 1]
    BY <1>1, <1>4, <1>6, <1>7
  <1> QED BY <1>6, <1>8, <1>9

\* The separators of every row separate.
LEMMA RowsSeparate ==
    ASSUME NEW r, NEW a, a.blocks \in Seq(Blocks)
    PROVE  SeparatorsSeparate(a, Written(r, a))
  <1> DEFINE n == Len(a.blocks)
             b == a.blocks
             seps == visibleSeparators(r, a)[n]
             w == Written(r, a)
  <1>1. n \in Nat /\ DOMAIN a.blocks = 1..n
    OBVIOUS
  <1>2. w = {i \in 1..n : Shows(r, a, i) /\ (IsSep(b[i].block) => i \in seps)}
    BY <1>1 DEF Written
  <1>3. \A i \in seps : /\ i \in 1..n /\ Candidate(r, a, i)
                        /\ \A j \in seps : j < i => ~(/\ SameAnchor(a, i, j)
                               /\ \A k \in j + 1..i - 1 : ~IsSep(b[k].block) => ~Shows(r, a, k))
    BY KeptSeparators
  <1> HIDE DEF n, seps, w
  <1>4. SUFFICES ASSUME NEW i \in w, IsSep(b[i].block)
        PROVE  /\ \E j \in 1..i - 1 : /\ j \in w /\ b[i].anchor = b[j].anchor
                                      /\ ~IsSep(b[j].block) /\ ~IsBlank(b[j].block)
               /\ \E j \in i + 1..n : /\ j \in w /\ b[i].anchor = b[j].anchor
                                      /\ ~IsSep(b[j].block) /\ ~IsBlank(b[j].block)
               /\ \A k \in w : k > i /\ IsSep(b[k].block) /\ b[k].anchor = b[i].anchor
                       => \E j \in i + 1..k - 1 : /\ j \in w /\ b[i].anchor = b[j].anchor
                                                  /\ ~IsSep(b[j].block)
    BY DEF SeparatorsSeparate, n, w
  \* The neighbours of a separator are shown.
  <1>5. ASSUME NEW s \in seps, NEW side \in SUBSET (1..n), hasVisibleNeighbor(r, a, s, side)
        PROVE  \E j \in side :
                  /\ SameAnchor(a, s, j) /\ j \in w /\ b[j].anchor = b[s].anchor
                  /\ ~IsSep(b[j].block) /\ ~IsBlank(b[j].block)
                  /\ \A k \in side : (s < k /\ k < j) \/ (j < k /\ k < s) => Transparent(r, a, k)
    <2>1. PICK j \in side :
             /\ SameAnchor(a, s, j) /\ Shows(r, a, j) /\ ~Transparent(r, a, j)
             /\ \A k \in side : (s < k /\ k < j) \/ (j < k /\ k < s) => Transparent(r, a, k)
      BY <1>5 DEF hasVisibleNeighbor
    <2>2. ~IsSep(b[j].block) /\ ~IsBlank(b[j].block)
      BY <2>1 DEF Transparent, Shows
    <2>3. j \in w
      BY <2>1, <2>2, <1>2
    <2>4. s \in 1..n /\ j \in 1..n
      BY <1>3
    <2>5. j \in IF s < j THEN s..j ELSE j..s
      BY <2>4
    <2>6. b[j].anchor = b[s].anchor
      BY <2>1, <2>5 DEF SameAnchor
    <2> QED BY <2>1, <2>2, <2>3, <2>6
  <1>6. i \in seps /\ i \in 1..n
    BY <1>2, <1>4
  <1>7. /\ hasVisibleNeighbor(r, a, i, 1..i - 1)
        /\ hasVisibleNeighbor(r, a, i, i + 1..n)
    BY <1>3, <1>6 DEF Candidate, n
  <1>8. 1..i - 1 \in SUBSET (1..n) /\ i + 1..n \in SUBSET (1..n)
    BY <1>6, <1>1
  <1>9. \E j \in 1..i - 1 : j \in w /\ b[i].anchor = b[j].anchor
                            /\ ~IsSep(b[j].block) /\ ~IsBlank(b[j].block)
    BY <1>5, <1>6, <1>7, <1>8
  <1>10. \E j \in i + 1..n : j \in w /\ b[i].anchor = b[j].anchor
                             /\ ~IsSep(b[j].block) /\ ~IsBlank(b[j].block)
    BY <1>5, <1>6, <1>7, <1>8
  <1>11. ASSUME NEW k \in w, k > i, IsSep(b[k].block), b[k].anchor = b[i].anchor
         PROVE  \E j \in i + 1..k - 1 : j \in w /\ b[i].anchor = b[j].anchor /\ ~IsSep(b[j].block)
    <2>1. k \in seps /\ k \in 1..n
      BY <1>2, <1>11
    <2>2. ~(/\ SameAnchor(a, k, i)
            /\ \A j \in i + 1..k - 1 : ~IsSep(b[j].block) => ~Shows(r, a, j))
      BY <2>1, <1>3, <1>6, <1>11
    <2>3. CASE SameAnchor(a, k, i)
      <3>1. PICK j \in i + 1..k - 1 : ~IsSep(b[j].block) /\ Shows(r, a, j)
        BY <2>2, <2>3
      <3>2. j \in 1..n /\ j \in i..k /\ ~(k < i)
        BY <3>1, <2>1, <1>1, <1>6, <1>11
      <3>3. b[j].anchor = b[k].anchor
        BY <3>2, <2>3 DEF SameAnchor
      <3> QED BY <3>1, <3>2, <3>3, <1>2, <1>11
    <2>4. CASE ~SameAnchor(a, k, i)
      <3>1. hasVisibleNeighbor(r, a, k, 1..k - 1) /\ 1..k - 1 \in SUBSET (1..n)
        BY <1>3, <2>1, <1>1 DEF Candidate
      <3>2. PICK j \in 1..k - 1 : /\ SameAnchor(a, k, j) /\ j \in w /\ b[j].anchor = b[k].anchor
                                  /\ ~IsSep(b[j].block)
        BY <3>1, <2>1, <1>5
      <3>3. j > i
        <4>1. SUFFICES ASSUME j <= i PROVE FALSE
          BY <3>2, <1>6
        <4>2. \A m \in j..k : b[m].anchor = b[k].anchor
          BY <3>2, <2>1 DEF SameAnchor
        <4>3. \A m \in i..k : m \in j..k
          BY <4>1, <2>1, <1>6
        <4>4. \A m \in i..k : b[m].anchor = b[k].anchor
          BY <4>2, <4>3
        <4>5. ~(k < i) /\ k \in i..k
          BY <2>1, <1>6, <1>11
        <4>6. \A m \in (IF k < i THEN k..i ELSE i..k) : b[m].anchor = b[k].anchor
          BY <4>4, <4>5
        <4>7. \A m \in (IF k < i THEN k..i ELSE i..k) : a.blocks[m].anchor = a.blocks[k].anchor
          BY <4>6
        <4>8. SameAnchor(a, k, i)
          BY ONLY <4>7 DEF SameAnchor
        <4> QED BY <4>8, <2>4
      <3> QED BY <3>2, <3>3, <1>6, <1>11
    <2> QED BY <2>3, <2>4
  <1> QED BY <1>9, <1>10, <1>11
-------------------------------------------------------------------------------
(* BarLayout: what ParseFormat makes of the tokens. *)

\* What is read of the tokens.
Readings == [blocks : Seq([block : BlockTokens, section : Nat \ {0}]), sections : Nat \ {0}]

\* The kinds of tokens and what they carry.
LEMMA TokenKinds ==
    /\ \A t \in Texts : /\ t.kind = "literal" /\ t.lead \in Nat /\ t.body \in Nat /\ t.trail \in Nat
                        /\ TrimLeft(t) \in Texts /\ TrimRight(t) \in Texts
    /\ \A t \in ModuleTokens : t.kind = "module" /\ t.value \in Nat /\ t.outer \in Nat
    /\ Split.kind = "split" /\ Sep.kind = "sep"
  BY DEF Texts, ModuleTokens, Split, Sep, TrimLeft, TrimRight

\* One block more keeps what has been read well formed,
LEMMA AppendBlockType ==
    ASSUME NEW q \in Readings, NEW t \in BlockTokens
    PROVE  AppendBlock(q, t) \in Readings
  <1> DEFINE B == [block : BlockTokens, section : Nat \ {0}]
             c == InSection(q, t)
  <1>1. c \in B /\ q.blocks \in Seq(B)
    BY DEF InSection, Readings
  <1>2. Append(q.blocks, c) \in Seq(B)
    <2> HIDE DEF B, c
    <2> QED BY <1>1
  <1>3. AppendBlock(q, t) = [q EXCEPT !.blocks = Append(q.blocks, c)]
    BY DEF AppendBlock, Readings
  <1> HIDE DEF c
  <1> QED BY <1>2, <1>3 DEF Readings

\* so does a text that is not empty,
LEMMA AppendTextType ==
    ASSUME NEW q \in Readings, NEW t \in Texts
    PROVE  AppendText(q, t) \in Readings
  <1>1. t \in BlockTokens
    BY DEF BlockTokens
  <1> QED BY <1>1, AppendBlockType DEF AppendText

\* trimming the last text,
LEMMA TrimType ==
    ASSUME NEW q \in Readings
    PROVE  trimTrailingSpace(q) \in Readings
  <1>1. CASE ~EndsWith(q, "literal")
    BY <1>1 DEF trimTrailingSpace
  <1>2. CASE EndsWith(q, "literal")
    <2> DEFINE B == [block : BlockTokens, section : Nat \ {0}]
    <2>1. q.blocks \in Seq(B) /\ q.blocks # <<>>
      BY <1>2 DEF EndsWith, Readings
    <2>2. Last(q.blocks) \in B /\ Front(q.blocks) \in Seq(B)
      <3> HIDE DEF B
      <3>1. Len(q.blocks) \in 1..Len(q.blocks) /\ Len(q.blocks) \in Nat
        BY <2>1
      <3>2. Last(q.blocks) \in B
        BY <2>1, <3>1 DEF Last
      <3>3. Front(q.blocks) \in Seq(B)
        BY <2>1, <3>1 DEF Front
      <3> QED BY <3>2, <3>3
    <2>3. Last(q.blocks).block \in Texts
      <3>1. Last(q.blocks).block.kind = "literal" /\ Last(q.blocks).block \in BlockTokens
        BY <1>2, <2>2 DEF EndsWith
      <3> QED BY <3>1, TokenKinds DEF BlockTokens
    <2>4. [q EXCEPT !.blocks = Front(@)] \in Readings
      BY <2>2 DEF Readings
    <2>5. TrimRight(Last(q.blocks).block) \in Texts
      BY <2>3, TokenKinds
    <2> QED BY <1>2, <2>4, <2>5, AppendTextType DEF trimTrailingSpace
  <1> QED BY <1>1, <1>2

\* and with these every token.
LEMMA AddTokenType ==
    ASSUME NEW q \in Readings, NEW t \in Tokens
    PROVE  AddToken(q, t) \in Readings
  <1>1. CASE t = Split
    <2>1. AddToken(q, t) = [q EXCEPT !.sections = @ + 1]
      BY <1>1, TokenKinds DEF AddToken
    <2> QED BY <2>1 DEF Readings
  <1>2. CASE t = Sep
    <2>1. AddToken(q, t) = AppendBlock(trimTrailingSpace(q), t)
      BY <1>2, TokenKinds DEF AddToken
    <2> QED BY <2>1, <1>2, TrimType, AppendBlockType DEF BlockTokens
  <1>3. CASE t \in Texts
    <2>1. AddToken(q, t) = AppendText(q, IF EndsWith(q, "sep") THEN TrimLeft(t) ELSE t)
      BY <1>3, TokenKinds DEF AddToken
    <2>2. (IF EndsWith(q, "sep") THEN TrimLeft(t) ELSE t) \in Texts
      BY <1>3, TokenKinds
    <2> QED BY <2>1, <2>2, AppendTextType
  <1>4. CASE t \in ModuleTokens
    <2>1. AddToken(q, t) = AppendBlock(q, t)
      BY <1>4, TokenKinds DEF AddToken
    <2> QED BY <2>1, <1>4, AppendBlockType DEF BlockTokens
  <1> QED BY <1>1, <1>2, <1>3, <1>4 DEF Tokens, BlockTokens

\* So all tokens do: the loop of ParseFormat has a run.
LEMMA ReadingRuns ==
    ASSUME NEW ts \in Seq(Tokens)
    PROVE  sections(ts)[Len(ts)] \in Readings
  <1> DEFINE n == Len(ts)
             G == [i \in 1..n |-> [q \in Readings |-> AddToken(q, ts[i])]]
             Loop(f) ==
                 f = [i \in 0..n |-> IF i = 0 THEN NothingRead ELSE AddToken(f[i - 1], ts[i])]
  <1>1. n \in Nat /\ \A i \in 1..n : ts[i] \in Tokens
    OBVIOUS
  <1>2. G \in [1..n -> [Readings -> Readings]]
    BY <1>1, AddTokenType
  <1>3. NothingRead \in Readings
    BY DEF NothingRead, Readings
  <1>4. PICK f \in [0..n -> Readings] : IsRun(f, NothingRead, n, G)
    <2>1. n \in Nat
      OBVIOUS
    <2> HIDE DEF G, n
    <2> QED BY ONLY <2>1, <1>2, <1>3, LoopRuns
  <1>5. Loop(f)
    <2>1. ASSUME NEW i \in 1..n PROVE f[i] = AddToken(f[i - 1], ts[i])
      <3>1. i - 1 \in 0..n
        BY <1>1
      <3> HIDE DEF n
      <3> QED BY <3>1, <1>4 DEF IsRun
    <2> HIDE DEF n
    <2> QED BY <2>1, <1>1, <1>4 DEF IsRun
  <1>6. Loop(CHOOSE g : Loop(g))
    <2> HIDE DEF Loop
    <2> QED BY <1>5
  <1>7. sections(ts) = CHOOSE g : Loop(g)
    BY DEF sections
  <1>8. Loop(sections(ts))
    BY <1>6, <1>7
  <1> HIDE DEF n
  <1> DEFINE P == {i \in 0..n : sections(ts)[i] \in Readings}
  <1>9. 0 \in P
    BY <1>8, <1>1, <1>3
  <1>10. ASSUME NEW i \in 1..n, i - 1 \in P PROVE i \in P
    <2>1. sections(ts)[i] = AddToken(sections(ts)[i - 1], ts[i])
      BY <1>8, <1>1
    <2> QED BY <2>1, <1>1, <1>10, AddTokenType
  <1>11. \A i \in 0..n : i \in P
    <2> HIDE DEF P, Loop
    <2> QED BY <1>1, <1>9, <1>10, Climb
  <1>12. sections(ts)[n] \in Readings
    BY <1>11, <1>1
  <1> QED BY <1>12 DEF n

\* A row's blocks are of their kinds.
LEMMA ParseFormatType ==
    ASSUME NEW ts \in Seq(Tokens)
    PROVE  ParseFormat(ts) \in Seq(Blocks)
  <1> DEFINE all == sections(ts)[Len(ts)]
  <1>1. all \in Readings
    BY ReadingRuns
  <1> HIDE DEF all
  <1>2. all.blocks \in Seq([block : BlockTokens, section : Nat \ {0}])
    BY <1>1 DEF Readings
  <1>3. /\ Len(all.blocks) \in Nat /\ DOMAIN all.blocks = 1..Len(all.blocks)
        /\ \A i \in DOMAIN all.blocks : all.blocks[i].block \in BlockTokens
    <2> DEFINE B == [block : BlockTokens, section : Nat \ {0}]
    <2>1. \A c \in B : c.block \in BlockTokens
      OBVIOUS
    <2>2. all.blocks \in Seq(B)
      BY <1>2
    <2> HIDE DEF B
    <2>3. \A i \in DOMAIN all.blocks : all.blocks[i] \in B
      BY <2>2
    <2> QED BY <2>1, <2>2, <2>3
  <1>4. ASSUME NEW i \in DOMAIN all.blocks
        PROVE  Anchored(all.blocks[i].block, sectionAnchor(all.blocks[i].section, all.sections))
                   \in Blocks
    <2>1. sectionAnchor(all.blocks[i].section, all.sections) \in Sides
      BY DEF sectionAnchor, Sides
    <2>2. all.blocks[i].block.kind = "module" => all.blocks[i].block.anchor \in Sides \cup {""}
      BY <1>3, TokenKinds DEF BlockTokens, ModuleTokens
    <2> QED BY <1>3, <2>1, <2>2 DEF Anchored, Blocks
  <1>5. ParseFormat(ts) = [i \in 1..Len(all.blocks) |->
             Anchored(all.blocks[i].block, sectionAnchor(all.blocks[i].section, all.sections))]
    BY <1>3 DEF ParseFormat, all
  <1> QED BY <1>3, <1>4, <1>5
-------------------------------------------------------------------------------
(* Sums. *)

\* The sum of what a sequence has at some positions, step by step.
LEMMA SumRuns ==
    ASSUME NEW s \in Seq(Nat), NEW X
    PROVE  /\ SumAt(s, X)[0] = 0
           /\ \A i \in 1..Len(s) :
                 SumAt(s, X)[i] = SumAt(s, X)[i - 1] + (IF i \in X THEN s[i] ELSE 0)
           /\ \A i \in 0..Len(s) : SumAt(s, X)[i] \in Nat
  <1> DEFINE n == Len(s)
             S == Nat
             G == [i \in 1..n |-> [k \in S |-> k + (IF i \in X THEN s[i] ELSE 0)]]
             Loop(f) == f = [i \in 0..n |->
                               IF i = 0 THEN 0 ELSE f[i - 1] + (IF i \in X THEN s[i] ELSE 0)]
  <1>1. n \in Nat /\ \A i \in 1..n : s[i] \in Nat
    OBVIOUS
  <1>2. G \in [1..n -> [S -> S]]
    BY <1>1
  <1>3. PICK f \in [0..n -> S] : IsRun(f, 0, n, G)
    <2>1. n \in Nat /\ 0 \in S
      OBVIOUS
    <2> HIDE DEF G, n, S
    <2> QED BY ONLY <2>1, <1>2, LoopRuns
  <1>4. Loop(f)
    <2>1. ASSUME NEW i \in 1..n PROVE f[i] = f[i - 1] + (IF i \in X THEN s[i] ELSE 0)
      <3>1. i - 1 \in 0..n
        BY <1>1
      <3> HIDE DEF n
      <3> QED BY <3>1, <1>3 DEF IsRun
    <2> HIDE DEF n
    <2> QED BY <2>1, <1>1, <1>3 DEF IsRun
  <1>5. Loop(CHOOSE g : Loop(g))
    <2> HIDE DEF Loop
    <2> QED BY <1>4
  <1>6. SumAt(s, X) = CHOOSE g : Loop(g)
    BY DEF SumAt
  <1>7. Loop(SumAt(s, X))
    BY <1>5, <1>6
  <1> HIDE DEF n
  <1>8. SumAt(s, X)[0] = 0
    BY <1>1, <1>7
  <1>9. ASSUME NEW i \in 1..n
        PROVE  SumAt(s, X)[i] = SumAt(s, X)[i - 1] + (IF i \in X THEN s[i] ELSE 0)
    BY <1>1, <1>7
  <1> DEFINE P == {i \in 0..n : SumAt(s, X)[i] \in Nat}
  <1>10. 0 \in P
    BY <1>8, <1>1
  <1>11. ASSUME NEW i \in 1..n, i - 1 \in P PROVE i \in P
    <2>1. i \in 0..n /\ (IF i \in X THEN s[i] ELSE 0) \in Nat /\ SumAt(s, X)[i - 1] \in Nat
      BY <1>1, <1>11
    <2>2. SumAt(s, X)[i] \in Nat
      BY <1>9, <2>1
    <2> QED BY <2>1, <2>2
  <1>12. \A i \in 0..n : i \in P
    <2> HIDE DEF P, Loop
    <2> QED BY <1>1, <1>10, <1>11, Climb
  <1> QED BY <1>8, <1>9, <1>12 DEF n

\* The sum of two parts.
LEMMA SumOfParts ==
    ASSUME NEW s \in Seq(Nat), NEW X, NEW Y, X \cap Y = {}
    PROVE  \A i \in 0..Len(s) : SumAt(s, X \cup Y)[i] = SumAt(s, X)[i] + SumAt(s, Y)[i]
  <1> DEFINE n == Len(s)
             x == SumAt(s, X)
             y == SumAt(s, Y)
             z == SumAt(s, X \cup Y)
             P == {i \in 0..n : z[i] = x[i] + y[i]}
  <1>1. n \in Nat /\ \A i \in 1..n : s[i] \in Nat
    OBVIOUS
  <1>2. /\ x[0] = 0 /\ \A i \in 1..n : x[i] = x[i - 1] + (IF i \in X THEN s[i] ELSE 0)
        /\ \A i \in 0..n : x[i] \in Nat
    BY SumRuns
  <1>3. /\ y[0] = 0 /\ \A i \in 1..n : y[i] = y[i - 1] + (IF i \in Y THEN s[i] ELSE 0)
        /\ \A i \in 0..n : y[i] \in Nat
    BY SumRuns
  <1>4. /\ z[0] = 0 /\ \A i \in 1..n : z[i] = z[i - 1] + (IF i \in X \cup Y THEN s[i] ELSE 0)
        /\ \A i \in 0..n : z[i] \in Nat
    BY SumRuns
  <1> HIDE DEF n, x, y, z
  <1>5. 0 \in P
    BY <1>1, <1>2, <1>3, <1>4
  <1>6. ASSUME NEW i \in 1..n, i - 1 \in P PROVE i \in P
    <2>1. i - 1 \in 0..n /\ i \in 0..n /\ s[i] \in Nat /\ ~(i \in X /\ i \in Y)
      BY <1>1
    <2>2. /\ x[i] = x[i - 1] + (IF i \in X THEN s[i] ELSE 0)
          /\ y[i] = y[i - 1] + (IF i \in Y THEN s[i] ELSE 0)
          /\ z[i] = z[i - 1] + (IF i \in X \cup Y THEN s[i] ELSE 0)
          /\ x[i - 1] \in Nat /\ y[i - 1] \in Nat /\ z[i - 1] = x[i - 1] + y[i - 1]
      BY <2>1, <1>2, <1>3, <1>4, <1>6
    <2> QED BY <2>1, <2>2
  <1>7. \A i \in 0..n : i \in P
    <2> HIDE DEF P
    <2> QED BY <1>1, <1>5, <1>6, Climb
  <1> QED BY <1>7 DEF n, x, y, z

\* Only what it has there counts.
LEMMA SumOfSame ==
    ASSUME NEW s \in Seq(Nat), NEW t \in Seq(Nat), Len(s) = Len(t), NEW X, NEW Y,
           \A i \in 1..Len(s) : (IF i \in X THEN s[i] ELSE 0) = (IF i \in Y THEN t[i] ELSE 0)
    PROVE  \A i \in 0..Len(s) : SumAt(s, X)[i] = SumAt(t, Y)[i]
  <1> DEFINE n == Len(s)
             x == SumAt(s, X)
             y == SumAt(t, Y)
             P == {i \in 0..n : x[i] = y[i]}
  <1>1. n \in Nat
    OBVIOUS
  <1>2. x[0] = 0 /\ \A i \in 1..n : x[i] = x[i - 1] + (IF i \in X THEN s[i] ELSE 0)
    BY SumRuns
  <1>3. y[0] = 0 /\ \A i \in 1..n : y[i] = y[i - 1] + (IF i \in Y THEN t[i] ELSE 0)
    <2>1. /\ SumAt(t, Y)[0] = 0
           /\ \A i \in 1..Len(t) :
                 SumAt(t, Y)[i] = SumAt(t, Y)[i - 1] + (IF i \in Y THEN t[i] ELSE 0)
      BY SumRuns
    <2>2. n = Len(t)
      OBVIOUS
    <2> HIDE DEF n
    <2> QED BY <2>1, <2>2
  <1>4. \A i \in 1..n : (IF i \in X THEN s[i] ELSE 0) = (IF i \in Y THEN t[i] ELSE 0)
    OBVIOUS
  <1> HIDE DEF n, x, y
  <1>5. 0 \in P
    BY <1>1, <1>2, <1>3
  <1>6. ASSUME NEW i \in 1..n, i - 1 \in P PROVE i \in P
    <2>1. i \in 0..n /\ x[i - 1] = y[i - 1]
      BY <1>1, <1>6
    <2>2. x[i] = y[i]
      BY <2>1, <1>2, <1>3, <1>4
    <2> QED BY <2>1, <2>2
  <1>7. \A i \in 0..n : i \in P
    <2> HIDE DEF P
    <2> QED BY <1>1, <1>5, <1>6, Climb
  <1> QED BY <1>7 DEF n, x, y

\* At no position, and at one more.
LEMMA SumOfNone ==
    ASSUME NEW s \in Seq(Nat)
    PROVE  SumAt(s, {})[Len(s)] = 0
  <1>1. \A i \in 0..Len(s) : SumAt(s, {})[i] \in Nat
    BY SumRuns
  <1>2. \A i \in 0..Len(s) : SumAt(s, {} \cup {})[i] = SumAt(s, {})[i] + SumAt(s, {})[i]
    BY SumOfParts
  <1>3. {} \cup {} = {} /\ Len(s) \in 0..Len(s)
    OBVIOUS
  <1> QED BY <1>1, <1>2, <1>3

\* One position more.
LEMMA SumOfMore ==
    ASSUME NEW s \in Seq(Nat), NEW X, NEW k \in 1..Len(s), k \notin X
    PROVE  SumAt(s, X \cup {k})[Len(s)] = SumAt(s, X)[Len(s)] + s[k]
  <1> DEFINE n == Len(s)
             y == SumAt(s, {k})
             P == {i \in 0..n : y[i] = IF k <= i THEN s[k] ELSE 0}
  <1>1. n \in Nat /\ s[k] \in Nat /\ k \in 1..n
    OBVIOUS
  <1>2. y[0] = 0 /\ \A i \in 1..n : y[i] = y[i - 1] + (IF i \in {k} THEN s[i] ELSE 0)
    BY SumRuns
  <1>3. \A i \in 0..n : SumAt(s, X \cup {k})[i] = SumAt(s, X)[i] + y[i]
    BY SumOfParts
  <1> HIDE DEF n, y
  <1>4. 0 \in P
    BY <1>1, <1>2
  <1>5. ASSUME NEW i \in 1..n, i - 1 \in P PROVE i \in P
    <2>1. CASE i = k
      BY <2>1, <1>1, <1>2, <1>5
    <2>2. CASE i # k
      BY <2>2, <1>1, <1>2, <1>5
    <2> QED BY <2>1, <2>2
  <1>6. \A i \in 0..n : i \in P
    <2> HIDE DEF P
    <2> QED BY <1>1, <1>4, <1>5, Climb
  <1>7. n \in 0..n /\ k <= n
    BY <1>1
  <1>8. y[n] = s[k]
    BY <1>6, <1>7
  <1> QED BY <1>3, <1>7, <1>8 DEF n

\* At some of the positions, at least as much as at fewer of them.
LEMMA SumGrows ==
    ASSUME NEW s \in Seq(Nat), NEW X, NEW Y, X \subseteq Y
    PROVE  SumAt(s, X)[Len(s)] <= SumAt(s, Y)[Len(s)]
  <1>1. X \cap (Y \ X) = {} /\ X \cup (Y \ X) = Y
    OBVIOUS
  <1>2. Len(s) \in 0..Len(s)
    OBVIOUS
  <1>3. SumAt(s, Y)[Len(s)] = SumAt(s, X)[Len(s)] + SumAt(s, Y \ X)[Len(s)]
    BY <1>1, <1>2, SumOfParts
  <1>4. SumAt(s, X)[Len(s)] \in Nat /\ SumAt(s, Y \ X)[Len(s)] \in Nat
    BY <1>2, SumRuns
  <1> QED BY <1>3, <1>4
-------------------------------------------------------------------------------
(* BarLayout: the order in which blocks are considered. *)

\* The order in which the anchors are dropped.
LEMMA DropOrder ==
    /\ anchorDropOrder("right") = 1
    /\ anchorDropOrder("center") = 2
    /\ anchorDropOrder("left") = 3
  BY DEF anchorDropOrder, Anchors

\* The blocks are considered in a strict total order.
LEMMA OrderIsTotal ==
    ASSUME NEW bs \in Seq(Blocks)
    PROVE  \A i, j \in 1..Len(bs) :
              /\ i # j => Precedes(bs, i, j) \/ Precedes(bs, j, i)
              /\ ~(Precedes(bs, i, j) /\ Precedes(bs, j, i))
              /\ \A k \in 1..Len(bs) :
                     Precedes(bs, i, j) /\ Precedes(bs, j, k) => Precedes(bs, i, k)
  <1>1. \A i \in 1..Len(bs) : bs[i] \in Blocks
    OBVIOUS
  <1>2. \A c \in Blocks : c.priority \in {0, 1} /\ anchorDropOrder(c.anchor) \in {1, 2, 3}
    BY DropOrder DEF Blocks, Sides
  <1>3. \A i \in 1..Len(bs) : /\ bs[i].priority \in Nat /\ anchorDropOrder(bs[i].anchor) \in Nat
                              /\ i \in Nat
    BY <1>1, <1>2
  <1> QED BY <1>3, SMTT(30) DEF Precedes

\* So there is always a next one.
LEMMA NextExists ==
    ASSUME NEW bs \in Seq(Blocks), NEW left \in SUBSET (1..Len(bs)), left # {}
    PROVE  /\ NextInOrder(bs, left) \in left
           /\ \A j \in left \ {NextInOrder(bs, left)} : Precedes(bs, NextInOrder(bs, left), j)
  <1> DEFINE p(i) == 1 - bs[i].priority
             o(i) == 3 - anchorDropOrder(bs[i].anchor)
             A == {p(i) : i \in left}
  <1>1. \A i \in 1..Len(bs) : bs[i] \in Blocks
    OBVIOUS
  <1>2. \A c \in Blocks : c.priority \in {0, 1} /\ anchorDropOrder(c.anchor) \in {1, 2, 3}
    BY DropOrder DEF Blocks, Sides
  <1>3. \A i \in left : /\ p(i) \in Nat /\ o(i) \in Nat /\ i \in Nat
                        /\ bs[i].priority \in Nat /\ anchorDropOrder(bs[i].anchor) \in Nat
    BY <1>1, <1>2
  <1>4. PICK x \in left : \A j \in left : p(x) <= p(j)
    <2>1. A \in SUBSET Nat /\ A # {}
      BY <1>3
    <2>2. PICK m \in A : \A k \in A : m <= k
      BY <2>1, LeastNatural
    <2> QED BY <2>2
  <1> DEFINE first == {i \in left : p(i) = p(x)}
             B == {o(i) : i \in first}
  <1>5. PICK y \in first : \A j \in first : o(y) <= o(j)
    <2>1. B \in SUBSET Nat /\ B # {}
      BY <1>3
    <2>2. PICK m \in B : \A k \in B : m <= k
      BY <2>1, LeastNatural
    <2> QED BY <2>2
  <1> DEFINE best == {i \in first : o(i) = o(y)}
  <1>6. PICK z \in best : \A j \in best : z <= j
    <2>1. best \in SUBSET Nat /\ best # {}
      BY <1>3
    <2> QED BY <2>1, LeastNatural
  <1>7. ASSUME NEW j \in left, j # z PROVE Precedes(bs, z, j)
    <2>1. p(z) = p(x) /\ o(z) = o(y) /\ z \in left /\ p(x) <= p(j)
      BY <1>4, <1>6
    <2>2. p(j) = p(x) => o(y) <= o(j)
      BY <1>5
    <2>3. p(j) = p(x) /\ o(j) = o(y) => z <= j
      BY <1>6
    <2>4. /\ bs[z].priority \in Nat /\ anchorDropOrder(bs[z].anchor) \in Nat /\ z \in Nat
          /\ bs[j].priority \in Nat /\ anchorDropOrder(bs[j].anchor) \in Nat /\ j \in Nat
      BY <1>3, <2>1
    <2> HIDE DEF first, best
    <2> DEFINE pz == bs[z].priority
               pj == bs[j].priority
               oz == anchorDropOrder(bs[z].anchor)
               oj == anchorDropOrder(bs[j].anchor)
    <2>5. pz >= pj
      BY <2>1, <2>4, SMTT(30)
    <2>6. pz = pj => oz >= oj
      BY <2>1, <2>2, <2>4
    <2>7. pz = pj /\ oz = oj => z < j
      BY <1>7, <2>1, <2>3, <2>4
    <2>8. pz > pj \/ (pz = pj /\ oz > oj) \/ (pz = pj /\ oz = oj /\ z < j)
      <3> HIDE DEF pz, pj, oz, oj
      <3>1. pz \in Nat /\ pj \in Nat /\ oz \in Nat /\ oj \in Nat
        BY <2>4 DEF pz, pj, oz, oj
      <3> QED BY <2>5, <2>6, <2>7, <3>1
    <2> QED BY <2>8 DEF Precedes
  <1>8. z \in left
    BY <1>6
  <1>9. \E i \in left : \A j \in left \ {i} : Precedes(bs, i, j)
    BY <1>7, <1>8
  <1> QED BY <1>9 DEF NextInOrder

\* What is true of the choice after k blocks.
ChoiceOK(r, bs, ws, q, k) ==
    /\ q \in [visible : SUBSET (1..Len(bs)), left : SUBSET (1..Len(bs)), room : Nat]
    /\ Cardinality(q.left) = Len(bs) - k
    /\ q.visible \cap q.left = {}
    /\ q.room + SumAt(ws, q.visible)[Len(bs)] = Target(r)
    /\ \A h \in 1..Len(bs), j \in q.left : h \notin q.left => Precedes(bs, h, j)
    /\ \A h \in 1..Len(bs) : h \notin q.left \cup q.visible =>
          \/ TooNarrow(r, bs[h], ws[h])
          \/ /\ ws[h] > q.room
             /\ \A v \in q.visible : Precedes(bs, h, v) => ws[v] < ws[h]

\* One block considered keeps the choice right.
LEMMA ChoiceStep ==
    ASSUME NEW r, NEW bs \in Seq(Blocks), NEW ws \in Seq(Nat), Len(ws) = Len(bs), Target(r) \in Nat,
           NEW k \in 1..Len(bs), NEW q, ChoiceOK(r, bs, ws, q, k - 1)
    PROVE  ChoiceOK(r, bs, ws, Keep(r, bs, ws, q), k)
  <1> DEFINE n == Len(bs)
             i == NextInOrder(bs, q.left)
             new == Keep(r, bs, ws, q)
             fits == ws[i] <= q.room /\ ~TooNarrow(r, bs[i], ws[i])
             sum(X) == SumAt(ws, X)[n]
  <1>1. /\ n \in Nat /\ \A j \in 1..n : ws[j] \in Nat
        /\ k \in 1..n
    OBVIOUS
  <1>2. /\ q \in [visible : SUBSET (1..n), left : SUBSET (1..n), room : Nat]
        /\ Cardinality(q.left) = n - (k - 1)
        /\ q.visible \cap q.left = {}
        /\ q.room + sum(q.visible) = Target(r)
        /\ \A h \in 1..n, j \in q.left : h \notin q.left => Precedes(bs, h, j)
        /\ \A h \in 1..n : h \notin q.left \cup q.visible =>
              \/ TooNarrow(r, bs[h], ws[h])
              \/ /\ ws[h] > q.room
                 /\ \A v \in q.visible : Precedes(bs, h, v) => ws[v] < ws[h]
    BY DEF ChoiceOK
  <1> HIDE DEF n
  <1>3. q.left \in SUBSET (1..n) /\ q.visible \in SUBSET (1..n) /\ q.room \in Nat
    BY <1>2
  <1>4. IsFiniteSet(q.left)
    <2>1. IsFiniteSet(1..n)
      BY <1>1, FS_Interval
    <2> QED BY ONLY <2>1, <1>3, FS_Subset
  <1>5. q.left # {}
    <2>1. Cardinality(q.left) # 0
      BY <1>1, <1>2
    <2> QED BY <2>1, FS_EmptySet
  <1>6. i \in q.left /\ \A j \in q.left \ {i} : Precedes(bs, i, j)
    BY <1>3, <1>5, NextExists DEF n
  <1>7. i \in 1..n /\ ws[i] \in Nat /\ i \notin q.visible
    BY <1>1, <1>2, <1>3, <1>6
  <1> HIDE DEF i
  <1>8. Cardinality(q.left \ {i}) = n - k
    <2>1. Cardinality(q.left \ {i}) = IF i \in q.left THEN Cardinality(q.left) - 1
                                                       ELSE Cardinality(q.left)
      BY ONLY <1>4, FS_RemoveElement
    <2> QED BY <2>1, <1>1, <1>2, <1>6
  <1>9. \A h, j \in 1..n : /\ ~(Precedes(bs, h, j) /\ Precedes(bs, j, h))
    BY OrderIsTotal DEF n
  <1>10. \A h \in 1..n, j \in q.left \ {i} : h \notin q.left \ {i} => Precedes(bs, h, j)
    BY <1>2, <1>6
  <1>11. CASE fits
    <2>1. new = [visible |-> q.visible \cup {i}, left |-> q.left \ {i}, room |-> q.room - ws[i]]
      BY <1>11 DEF Keep, i
    <2>2. /\ q.room - ws[i] \in Nat /\ q.room - ws[i] <= q.room
      BY <1>3, <1>7, <1>11
    <2>3. sum(q.visible \cup {i}) = sum(q.visible) + ws[i]
      BY <1>7, SumOfMore, SMTT(30) DEF n
    <2>4. sum(q.visible) \in Nat
      <3>1. n = Len(ws) /\ n \in 0..n
        BY <1>1 DEF n
      <3> QED BY <3>1, SumRuns
    <2>5. q.room - ws[i] + sum(q.visible \cup {i}) = Target(r)
      BY <1>2, <1>3, <1>7, <2>3, <2>4
    <2>6. ASSUME NEW h \in 1..n, h \notin (q.left \ {i}) \cup (q.visible \cup {i})
          PROVE  \/ TooNarrow(r, bs[h], ws[h])
                 \/ /\ ws[h] > q.room - ws[i]
                    /\ \A v \in q.visible \cup {i} : Precedes(bs, h, v) => ws[v] < ws[h]
      <3>1. h \notin q.left \cup q.visible /\ ws[h] \in Nat
        BY <2>6, <1>1
      <3>2. CASE TooNarrow(r, bs[h], ws[h])
        BY <3>2
      <3>3. CASE ws[h] > q.room /\ \A v \in q.visible : Precedes(bs, h, v) => ws[v] < ws[h]
        <4>1. ws[h] > q.room - ws[i] /\ ws[i] < ws[h]
          BY <3>1, <3>3, <2>2, <1>3, <1>7, <1>11, SMTT(30)
        <4> QED BY <4>1, <3>3
      <3> QED BY <3>1, <3>2, <3>3, <1>2
    <2>7. (q.visible \cup {i}) \cap (q.left \ {i}) = {}
      BY <1>2
    <2>8. new \in [visible : SUBSET (1..n), left : SUBSET (1..n), room : Nat]
      BY <2>1, <2>2, <1>3, <1>7
    <2> HIDE DEF new
    <2>9. new.visible = q.visible \cup {i} /\ new.left = q.left \ {i} /\ new.room = q.room - ws[i]
      BY <2>1
    <2> QED BY <2>5, <2>6, <2>7, <2>8, <2>9, <1>8, <1>10 DEF ChoiceOK, n, new
  <1>12. CASE ~fits
    <2>1. new = [q EXCEPT !.left = @ \ {i}]
      BY <1>12 DEF Keep, i
    <2>2. new \in [visible : SUBSET (1..n), left : SUBSET (1..n), room : Nat]
      BY <2>1, <1>2
    <2>3. ASSUME NEW h \in 1..n, h \notin (q.left \ {i}) \cup q.visible
          PROVE  \/ TooNarrow(r, bs[h], ws[h])
                 \/ /\ ws[h] > q.room
                    /\ \A v \in q.visible : Precedes(bs, h, v) => ws[v] < ws[h]
      <3>1. CASE h = i
        <4>1. \A v \in q.visible : v \in 1..n /\ Precedes(bs, v, i)
          BY <1>2, <1>3, <1>6
        <4>2. \A v \in q.visible : ~Precedes(bs, i, v)
          BY <4>1, <1>7, <1>9
        <4> QED BY <3>1, <4>2, <1>12, <1>7, <1>3
      <3>2. CASE h # i
        BY <3>2, <2>3, <1>2
      <3> QED BY <3>1, <3>2
    <2> HIDE DEF new
    <2>4. new.visible = q.visible /\ new.left = q.left \ {i} /\ new.room = q.room
      BY <2>1, <1>2
    <2> QED BY <2>2, <2>3, <2>4, <1>2, <1>8, <1>10 DEF ChoiceOK, n, new
  <1> QED BY <1>11, <1>12 DEF new
-------------------------------------------------------------------------------
(* BarLayout: the blocks that are kept. *)

\* It is right when nothing has been considered,
LEMMA NobodyChosen ==
    ASSUME NEW r, NEW bs \in Seq(Blocks), NEW ws \in Seq(Nat), Len(ws) = Len(bs), Target(r) \in Nat
    PROVE  ChoiceOK(r, bs, ws, NoChoice(r, bs), 0)
  <1> DEFINE n == Len(bs)
             q == NoChoice(r, bs)
  <1>1. n \in Nat /\ DOMAIN bs = 1..n
    OBVIOUS
  <1>2. q.visible = {} /\ q.left = 1..n /\ q.room = Target(r)
    BY <1>1 DEF NoChoice
  <1>3. q \in [visible : SUBSET (1..n), left : SUBSET (1..n), room : Nat]
    BY <1>1 DEF NoChoice
  <1>4. Cardinality(1..n) = n - 0
    <2>1. 1 \in Int /\ n \in Int
      BY <1>1
    <2>2. Cardinality(1..n) = IF 1 > n THEN 0 ELSE n - 1 + 1
      BY ONLY <2>1, FS_Interval
    <2> QED BY <1>1, <2>2
  <1>5. SumAt(ws, {})[n] = 0
    BY SumOfNone
  <1> HIDE DEF q
  <1> QED BY <1>1, <1>2, <1>3, <1>4, <1>5 DEF ChoiceOK, q

\* and so when everything has.
LEMMA ArrangeRuns ==
    ASSUME NEW r, NEW bs \in Seq(Blocks), NEW ws \in Seq(Nat), Len(ws) = Len(bs), Target(r) \in Nat
    PROVE  ChoiceOK(r, bs, ws, arrange(r, bs, ws)[Len(bs)], Len(bs))
  <1> DEFINE n == Len(bs)
             S == [visible : SUBSET (1..n), left : SUBSET (1..n), room : Nat]
             OK(q, k) == ChoiceOK(r, bs, ws, q, k)
             step(q) == Keep(r, bs, ws, q)
             first == NoChoice(r, bs)
             G == [k \in 1..n |-> [q \in S |-> IF OK(q, k - 1) THEN step(q) ELSE q]]
             Loop(f) == f = [k \in 0..n |-> IF k = 0 THEN first ELSE step(f[k - 1])]
  <1>1. n \in Nat
    OBVIOUS
  <1>2. \A q, k : OK(q, k) => q \in S
    BY DEF ChoiceOK
  <1>3. ASSUME NEW k \in 1..n, NEW q, OK(q, k - 1) PROVE OK(step(q), k)
    BY <1>3, ChoiceStep
  <1>4. OK(first, 0)
    BY NobodyChosen
  <1> HIDE DEF n, S, OK, step, first
  <1>5. G \in [1..n -> [S -> S]]
    BY <1>2, <1>3
  <1>6. PICK f \in [0..n -> S] : IsRun(f, first, n, G)
    <2>1. first \in S
      BY <1>2, <1>4
    <2> HIDE DEF G
    <2> QED BY ONLY <1>1, <1>5, <2>1, LoopRuns
  <1> DEFINE P == {k \in 0..n : OK(f[k], k)}
  <1>7. ASSUME NEW k \in 1..n, OK(f[k - 1], k - 1) PROVE f[k] = step(f[k - 1])
    <2>1. k - 1 \in 0..n
      BY <1>1
    <2>2. f[k - 1] \in S
      BY <2>1
    <2> QED BY <2>2, <1>6, <1>7 DEF IsRun
  <1>8. 0 \in P
    BY <1>1, <1>4, <1>6 DEF IsRun
  <1>9. ASSUME NEW k \in 1..n, k - 1 \in P PROVE k \in P
    <2>1. OK(f[k - 1], k - 1) /\ k \in 0..n
      BY <1>9, <1>1
    <2> QED BY <2>1, <1>3, <1>7
  <1>10. \A k \in 0..n : k \in P
    <2> HIDE DEF P
    <2> QED BY <1>1, <1>8, <1>9, Climb
  <1>11. Loop(f)
    <2>1. \A k \in 1..n : f[k] = step(f[k - 1])
      BY <1>1, <1>7, <1>10
    <2> QED BY <2>1, <1>1, <1>6 DEF IsRun
  <1> HIDE DEF P
  <1>12. Loop(CHOOSE g : Loop(g))
    <2> HIDE DEF Loop
    <2> QED BY <1>11
  <1> DEFINE u == arrange(r, bs, ws)
             Q == {k \in 0..n : OK(u[k], k)}
  <1>13. u = CHOOSE g : Loop(g)
    BY DEF arrange, n, first, step
  <1> HIDE DEF u
  <1>14. Loop(u)
    BY <1>12, <1>13
  <1>15. 0 \in Q
    BY <1>1, <1>4, <1>14
  <1>16. ASSUME NEW k \in 1..n, k - 1 \in Q PROVE k \in Q
    <2>1. OK(u[k - 1], k - 1) /\ k \in 0..n
      BY <1>16, <1>1
    <2>2. u[k] = step(u[k - 1])
      BY <1>14, <1>1
    <2> QED BY <2>1, <2>2, <1>3
  <1>17. \A k \in 0..n : k \in Q
    <2> HIDE DEF Q
    <2> QED BY <1>1, <1>15, <1>16, Climb
  <1>18. n \in 0..n
    BY <1>1
  <1>19. OK(u[n], n)
    BY <1>17, <1>18
  <1> QED BY <1>19 DEF OK, u, n

\* A share of the bar in cells.
LEMMA Product ==
    ASSUME NEW x \in Nat, NEW y \in Nat
    PROVE  (x * y) \div 100 \in Nat
  <1>1. x * y \in Nat
    OBVIOUS
  <1> DEFINE z == x * y
  <1> HIDE DEF z
  <1>2. ASSUME z \in Nat PROVE z \div 100 \in Nat
    BY <1>2
  <1> QED BY <1>1, <1>2 DEF z

\* What is measured in cells is a natural number.
LEMMA WidthType ==
    ASSUME NEW r \in RowRecords, NEW c \in Blocks
    PROVE  /\ Target(r) \in Nat /\ Value(r, c) \in Nat /\ Outer(c) \in Nat
           /\ resolveWidth(r, c, Target(r)) \in Nat
  <1>1. r.bar \in Nat /\ r.border \in BOOLEAN /\ r.separator \in Nat
    BY DEF RowRecords
  <1>2. Target(r) \in Nat
    BY <1>1 DEF Target, Caps, NotNegative
  <1>3. c.block \in BlockTokens
    BY DEF Blocks
  <1>4. c.block.kind = "literal" => c.block \in Texts
    BY <1>3, TokenKinds DEF BlockTokens
  <1>5. ~IsSep(c.block) /\ ~IsLiteral(c.block) => c.block \in ModuleTokens
    BY <1>3, TokenKinds DEF BlockTokens, IsSep, IsLiteral
  <1>6. c.block.kind = "module" => c.block \in ModuleTokens
    BY <1>3, TokenKinds DEF BlockTokens
  <1>7. Value(r, c) \in Nat
    BY <1>1, <1>4, <1>5, TokenKinds DEF Value, TextWidth, IsLiteral, IsSep
  <1>8. Outer(c) \in Nat
    BY <1>6, TokenKinds DEF Outer
  <1>9. Natural(r, c) \in Nat
    BY <1>7, <1>8 DEF Natural
  <1>10. resolveWidth(r, c, Target(r)) \in Nat
    <2>1. CASE c.block.kind # "module"
      BY <2>1, <1>9 DEF resolveWidth
    <2>2. CASE c.block.kind = "module"
      <3>1. c.block.width \in Widths
        BY <2>2, <1>6 DEF ModuleTokens
      <3>2. CASE c.block.width.kind = "auto"
        BY <3>2, <2>2, <1>9 DEF resolveWidth
      <3>3. CASE c.block.width.kind = "cells"
        <4>1. c.block.width.n \in Nat
          BY <3>1, <3>3 DEF Widths
        <4> QED BY <4>1, <3>3, <2>2 DEF resolveWidth
      <3>4. CASE c.block.width.kind = "percent"
        <4>1. c.block.width.n \in Nat
          BY <3>1, <3>4 DEF Widths
        <4>2. (Target(r) * c.block.width.n) \div 100 \in Nat
          BY <4>1, <1>2, Product
        <4>3. resolveWidth(r, c, Target(r)) = (Target(r) * c.block.width.n) \div 100
          BY <3>4, <2>2 DEF resolveWidth
        <4> QED BY <4>2, <4>3
      <3> QED BY <3>1, <3>2, <3>3, <3>4 DEF Widths
    <2> QED BY <2>1, <2>2
  <1> QED BY <1>2, <1>7, <1>8, <1>10
-------------------------------------------------------------------------------
(* BarLayout: the width of the row. *)

\* What Engine.arrange makes of a row: blocks, their widths, and the positions of
\* those that are kept, which fit the bar together.
LEMMA Arrangements ==
    ASSUME NEW r \in RowRecords
    PROVE  /\ Arrange(r).blocks \in Seq(Blocks)
           /\ Arrange(r).widths \in Seq(Nat)
           /\ Len(Arrange(r).widths) = Len(Arrange(r).blocks)
           /\ Arrange(r).visible \subseteq 1..Len(Arrange(r).blocks)
           /\ SumAt(Arrange(r).widths, Arrange(r).visible)[Len(Arrange(r).blocks)] <= Target(r)
           /\ DropsOnlyWhatDoesNotFit(r, Arrange(r))
  <1> DEFINE a == Arrange(r)
             bs == ParseFormat(r.tokens)
             n == Len(bs)
             ws == [i \in DOMAIN bs |-> resolveWidth(r, bs[i], Target(r))]
             q == arrange(r, bs, ws)[n]
             sum == SumAt(ws, q.visible)[n]
  <1>1. r.tokens \in Seq(Tokens)
    BY DEF RowRecords
  <1>2. bs \in Seq(Blocks)
    BY <1>1, ParseFormatType
  <1>3. a = [blocks |-> bs, widths |-> ws, visible |-> q.visible]
    BY DEF Arrange
  <1> HIDE DEF bs, a
  <1>4. n \in Nat /\ DOMAIN bs = 1..n /\ \A i \in 1..n : bs[i] \in Blocks
    BY <1>2
  <1>5. ws \in Seq(Nat) /\ Len(ws) = n
    <2>1. ws = [i \in 1..n |-> resolveWidth(r, bs[i], Target(r))]
      BY <1>4
    <2>2. \A i \in 1..n : resolveWidth(r, bs[i], Target(r)) \in Nat
      BY <1>4, WidthType
    <2> HIDE DEF n
    <2> QED BY <2>1, <2>2, <1>4
  <1>6. Target(r) \in Nat
    BY DEF RowRecords, Target, Caps, NotNegative
  <1> HIDE DEF ws
  <1>7. ChoiceOK(r, bs, ws, q, n)
    BY <1>2, <1>5, <1>6, ArrangeRuns
  <1> HIDE DEF q
  <1>8. q.left = {}
    <2>1. q.left \in SUBSET (1..n) /\ Cardinality(q.left) = n - n
      BY <1>7 DEF ChoiceOK
    <2>2. IsFiniteSet(1..n)
      BY <1>4, FS_Interval
    <2>3. IsFiniteSet(q.left)
      BY ONLY <2>1, <2>2, FS_Subset
    <2>4. Cardinality(q.left) = 0
      BY <2>1, <1>4
    <2> QED BY <2>3, <2>4, FS_EmptySet
  <1>9. /\ q.visible \in SUBSET (1..n) /\ q.room \in Nat /\ q.room + sum = Target(r)
        /\ \A h \in 1..n : h \notin q.visible =>
              \/ TooNarrow(r, bs[h], ws[h])
              \/ /\ ws[h] > q.room
                 /\ \A v \in q.visible : Precedes(bs, h, v) => ws[v] < ws[h]
    BY <1>7, <1>8 DEF ChoiceOK
  <1>10. sum \in Nat
    <2>1. n \in 0..n /\ n = Len(ws)
      BY <1>4, <1>5
    <2> QED BY <1>5, <2>1, SumRuns
  <1> HIDE DEF sum
  <1>11. sum <= Target(r) /\ Target(r) - sum = q.room
    BY <1>6, <1>9, <1>10
  <1>12. a.blocks = bs /\ a.widths = ws /\ a.visible = q.visible
    BY <1>3
  <1> HIDE DEF n
  <1>13. DropsOnlyWhatDoesNotFit(r, a)
    <2>1. SUFFICES ASSUME NEW h \in 1..n, h \notin q.visible
                   PROVE  \/ TooNarrow(r, bs[h], ws[h])
                          \/ /\ ws[h] > Target(r) - sum
                             /\ \A v \in q.visible : Precedes(bs, h, v) => ws[v] < ws[h]
      BY <1>4, <1>12 DEF DropsOnlyWhatDoesNotFit, sum, n
    <2> QED BY <2>1, <1>9, <1>11
  <1> QED BY <1>2, <1>5, <1>9, <1>11, <1>12, <1>13 DEF sum, n, a

\* What the gaps do: the sections, if there is room for them, fill the line.
LEMMA GapsFill ==
    ASSUME NEW r, Target(r) \in Nat, NEW x \in Nat, NEW y \in Nat, NEW z \in Nat,
           x + y + z <= Target(r)
    PROVE  x + sectionGaps(r, x, y, z)[1] + y + sectionGaps(r, x, y, z)[2] + z = Target(r)
  <1> DEFINE t == Target(r)
             rest == t - x - y - z
             middle == rest \div 2
             start == (t - y) \div 2
             g == sectionGaps(r, x, y, z)
  <1>1. t \in Nat /\ rest \in Nat /\ t - y \in Nat
    OBVIOUS
  <1>2. \A k \in Nat : k \div 2 \in Nat /\ k \div 2 <= k
    OBVIOUS
  <1>3. middle \in Nat /\ middle <= rest /\ start \in Nat
    <2> HIDE DEF t, rest
    <2>1. middle \in Nat /\ middle <= rest
      BY <1>1, <1>2
    <2>2. start \in Nat
      BY <1>1, <1>2
    <2> QED BY <2>1, <2>2
  <1>4. t - x - z - y = rest
    BY <1>1
  <1> HIDE DEF middle, start
  <1>5. /\ NotNegative(rest) = rest
        /\ NotNegative((t - x - z - y) \div 2) = middle
        /\ NotNegative((t - y) \div 2) = start
        /\ NotNegative(t - x - middle - y - z) = t - x - middle - y - z
    <2>1. (t - x - z - y) \div 2 = middle
      BY <1>4 DEF middle
    <2>2. t - x - middle - y - z \in Nat
      BY <1>1, <1>3
    <2> QED BY <1>1, <1>3, <2>1, <2>2 DEF NotNegative, start
  <1>6. g = CASE y = 0 \/ r.justify = "left" -> <<0, rest>>
              [] y # 0 /\ r.justify = "right" -> <<rest, 0>>
              [] y # 0 /\ r.justify = "absolute_center" /\ start >= x /\ start + y <= t - z ->
                     <<start - x, t - start - y - z>>
              [] OTHER -> <<middle, t - x - middle - y - z>>
    BY <1>5 DEF sectionGaps
  <1>7. \/ g = <<0, rest>> \/ g = <<rest, 0>>
        \/ g = <<start - x, t - start - y - z>>
        \/ g = <<middle, t - x - middle - y - z>>
    BY <1>6
  <1> HIDE DEF g
  <1> QED BY <1>1, <1>3, <1>7 DEF g

\* So every row is exactly as wide as the bar.
LEMMA RowsFit ==
    ASSUME NEW r \in RowRecords
    PROVE  RowIsExact(r, Arrange(r), Written(r, Arrange(r)))
  <1> DEFINE a == Arrange(r)
             w == Written(r, a)
             n == Len(a.blocks)
             cells == [i \in DOMAIN a.blocks |-> CellsOf(a, i)]
             At(s) == {i \in w : a.blocks[i].anchor = s}
             sum(X) == SumAt(cells, X)[n]
  <1> SUFFICES ASSUME StyleFits(a, w), r.bar >= Caps(r)
               PROVE  /\ LineWidth(r, a, w) = Target(r)
                      /\ RowWidth(r, LineWidth(r, a, w)) = r.bar
    BY DEF RowIsExact
  <1>1. /\ a.blocks \in Seq(Blocks) /\ a.widths \in Seq(Nat) /\ Len(a.widths) = n
        /\ a.visible \subseteq 1..n /\ SumAt(a.widths, a.visible)[n] <= Target(r)
    BY Arrangements
  <1>2. w \subseteq a.visible
    BY DEF Written, Shows
  <1> HIDE DEF a, w
  <1>3. /\ n \in Nat /\ DOMAIN a.blocks = 1..n
        /\ \A i \in 1..n : a.blocks[i] \in Blocks /\ a.widths[i] \in Nat
    BY <1>1
  <1>4. Target(r) \in Nat /\ r.bar \in Nat /\ Caps(r) \in Nat /\ Target(r) = r.bar - Caps(r)
    BY DEF RowRecords, Target, Caps, NotNegative
  <1>5. \A i \in 1..n : Outer(a.blocks[i]) \in Nat
    BY <1>3, WidthType
  <1>6. \A i \in 1..n : CellsOf(a, i) \in Nat
    BY <1>3, <1>5 DEF CellsOf, ContentWidth, NotNegative
  <1>7. \A i \in w : CellsOf(a, i) = a.widths[i]
    <2>1. ASSUME NEW i \in w PROVE CellsOf(a, i) = a.widths[i]
      <3>1. Outer(a.blocks[i]) <= a.widths[i]
        BY DEF StyleFits
      <3>2. i \in 1..n
        BY <1>1, <1>2
      <3> QED BY <3>1, <3>2, <1>3, <1>5 DEF CellsOf, ContentWidth, NotNegative
    <2> QED BY <2>1
  <1>8. cells \in Seq(Nat) /\ Len(cells) = n /\ \A i \in 1..n : cells[i] = CellsOf(a, i)
    <2>1. cells = [i \in 1..n |-> CellsOf(a, i)]
      BY <1>3
    <2> HIDE DEF n
    <2> QED BY <2>1, <1>3, <1>6
  <1> HIDE DEF cells
  <1>9. \A X : sum(X) \in Nat
    <2>1. n \in 0..n /\ n = Len(cells)
      BY <1>3, <1>8
    <2> QED BY <1>8, <2>1, SumRuns
  <1>10. sum(w) <= Target(r)
    <2>1. \A i \in 0..Len(cells) : SumAt(cells, w)[i] = SumAt(a.widths, w)[i]
      <3>1. \A i \in 1..Len(cells) :
                  (IF i \in w THEN cells[i] ELSE 0) = (IF i \in w THEN a.widths[i] ELSE 0)
        BY <1>7, <1>8
      <3>2. cells \in Seq(Nat) /\ a.widths \in Seq(Nat) /\ Len(cells) = Len(a.widths)
        BY <1>1, <1>8
      <3> DEFINE t == a.widths
      <3> HIDE DEF t
      <3>3. t \in Seq(Nat) /\ Len(cells) = Len(t)
        BY <3>2 DEF t
      <3>4. \A i \in 1..Len(cells) :
                  (IF i \in w THEN cells[i] ELSE 0) = (IF i \in w THEN t[i] ELSE 0)
        BY <3>1 DEF t
      <3>5. \A i \in 0..Len(cells) : SumAt(cells, w)[i] = SumAt(t, w)[i]
        <4> HIDE DEF w
        <4>1. \A X, Y : (\A i \in 1..Len(cells) : (IF i \in X THEN cells[i] ELSE 0)
                                                    = (IF i \in Y THEN t[i] ELSE 0))
                        => \A i \in 0..Len(cells) : SumAt(cells, X)[i] = SumAt(t, Y)[i]
          BY ONLY <3>2, <3>3, SumOfSame
        <4> QED BY ONLY <3>4, <4>1
      <3> QED BY <3>5 DEF t
    <2>2. sum(w) = SumAt(a.widths, w)[n]
      BY <2>1, <1>3, <1>8
    <2>3. SumAt(a.widths, w)[n] <= SumAt(a.widths, a.visible)[n]
      BY <1>1, <1>2, SumGrows
    <2>4. n \in 0..Len(a.widths)
      BY <1>1, <1>3
    <2>5. SumAt(a.widths, w)[n] \in Nat /\ SumAt(a.widths, a.visible)[n] \in Nat
      BY <1>1, <2>4, SumRuns
    <2> QED BY <2>2, <2>3, <2>5, <1>1, <1>4
  <1>11. sum(At("left")) + sum(At("center")) + sum(At("right")) = sum(w)
    <2>1. At("left") \cap At("center") = {} /\ (At("left") \cup At("center")) \cap At("right") = {}
      OBVIOUS
    <2>2. (At("left") \cup At("center")) \cup At("right") = w
      BY <1>1, <1>2, <1>3 DEF Blocks, Sides
    <2> HIDE DEF At
    <2>3. n \in 0..Len(cells)
      BY <1>3, <1>8
    <2>4. sum(At("left") \cup At("center")) = sum(At("left")) + sum(At("center"))
      BY <2>1, <2>3, <1>8, SumOfParts
    <2>5. sum((At("left") \cup At("center")) \cup At("right"))
              = sum(At("left") \cup At("center")) + sum(At("right"))
      BY <2>1, <2>3, <1>8, SumOfParts
    <2> QED BY <2>2, <2>4, <2>5
  <1> DEFINE wide(s) == SectionWidth(r, a, w, s)
  <1>12. \A s : wide(s) \in Nat /\ wide(s) <= sum(At(s))
    <2>1. \A s : wide(s) = 0 \/ wide(s) = sum(At(s))
      BY DEF SectionWidth, cells
    <2> HIDE DEF wide, sum
    <2> QED BY <2>1, <1>9
  <1>13. wide("left") + wide("center") + wide("right") <= Target(r)
    <2> HIDE DEF wide, sum, At
    <2> QED BY <1>4, <1>9, <1>10, <1>11, <1>12
  <1>14. LineWidth(r, a, w) = Target(r)
    <2>1. LineWidth(r, a, w) =
             LET gaps == sectionGaps(r, wide("left"), wide("center"), wide("right"))
             IN  wide("left") + gaps[1] + wide("center") + gaps[2] + wide("right")
      BY DEF LineWidth
    <2> DEFINE x == wide("left")
               y == wide("center")
               z == wide("right")
    <2>2. x \in Nat /\ y \in Nat /\ z \in Nat /\ x + y + z <= Target(r)
      BY <1>12, <1>13
    <2> HIDE DEF wide, x, y, z
    <2>3. x + sectionGaps(r, x, y, z)[1] + y + sectionGaps(r, x, y, z)[2] + z = Target(r)
      BY ONLY <2>2, <1>4, GapsFill
    <2> QED BY <2>1, <2>3 DEF x, y, z
  <1> QED BY <1>4, <1>14 DEF RowWidth
-------------------------------------------------------------------------------
(* MCAlgorithms: every row. *)

\* The bounded inputs of the run are rows.
LEMMA TokensAreTokens ==
    MCTokens \subseteq Tokens /\ MCSettings \subseteq RowRecords
  <1>1. {Literal(1, 0, 0), Literal(1, 1, 1)} \subseteq Texts
    BY DEF Literal, Texts
  <1>2. {WidthAuto, Cells(2), Cells(1), Percent(50)} \subseteq Widths
    BY DEF WidthAuto, Cells, Percent, Widths
  <1>3. \A v, o \in Nat, s \in Sides \cup {""}, u \in Widths : Module(v, o, s, u) \in ModuleTokens
    BY DEF Module, ModuleTokens
  <1>4. {Module(0, 0, "", WidthAuto), Module(2, 0, "", WidthAuto), Module(1, 1, "right", WidthAuto),
         Module(1, 1, "center", Cells(2)), Module(2, 2, "", Cells(1)),
         Module(3, 0, "", Percent(50))} \subseteq ModuleTokens
    <2>1. /\ WidthAuto \in Widths /\ Cells(2) \in Widths /\ Cells(1) \in Widths
          /\ Percent(50) \in Widths
      BY <1>2
    <2>2. "" \in Sides \cup {""} /\ "right" \in Sides \cup {""} /\ "center" \in Sides \cup {""}
      BY DEF Sides
    <2>3. /\ Module(0, 0, "", WidthAuto) \in ModuleTokens
          /\ Module(2, 0, "", WidthAuto) \in ModuleTokens
          /\ Module(1, 1, "right", WidthAuto) \in ModuleTokens
      BY <1>3, <2>1, <2>2
    <2>4. /\ Module(1, 1, "center", Cells(2)) \in ModuleTokens
          /\ Module(2, 2, "", Cells(1)) \in ModuleTokens
          /\ Module(3, 0, "", Percent(50)) \in ModuleTokens
      BY <1>3, <2>1, <2>2
    <2> QED BY <2>3, <2>4
  <1>5. MCTokens \subseteq Tokens
    BY <1>1, <1>4 DEF MCTokens, Tokens, BlockTokens
  <1>6. <<>> \in Seq(Tokens)
    OBVIOUS
  <1>7. \A bar, sep, min \in Nat, border \in BOOLEAN, j \in Justifications :
            Settings(bar, border, sep, min, j) \in RowRecords
    BY <1>6 DEF Settings, RowRecords
  <1>8. MCSettings \subseteq RowRecords
    BY <1>7 DEF MCSettings, Justifications
  <1> QED BY <1>5, <1>8

\* What is laid out is the row.
RowInvariant ==
    row # None => row \in RowRecords /\ arrangement = Arrange(row) /\ written = Written(row, arrangement)

\* It is so in every state.
LEMMA RowsAreLaidOut == MCSpec => []RowInvariant
  <1>1. MCInit => RowInvariant
    BY DEF MCInit, RowInvariant
  <1>2. RowInvariant /\ [MCNext]_<<subject, inputs, histories>> => RowInvariant'
    <2> SUFFICES ASSUME RowInvariant, [MCNext]_<<subject, inputs, histories>>
                 PROVE  RowInvariant'
      OBVIOUS
    <2>1. ASSUME UNCHANGED <<row, arrangement, written>> PROVE RowInvariant'
      BY <2>1 DEF RowInvariant
    <2>2. CASE Configure
      <3>1. row' \in RowRecords
        BY <2>2, TokensAreTokens DEF Configure
      <3> QED BY <3>1, <2>2 DEF Configure, LayOut, RowInvariant
    <2>3. CASE AddBlock
      <3>1. PICK t \in MCTokens : row' = [row EXCEPT !.tokens = Append(@, t)]
        BY <2>3 DEF AddBlock
      <3>2. row \in RowRecords /\ t \in Tokens
        BY <2>3, TokensAreTokens DEF AddBlock, RowInvariant
      <3>3. Append(row.tokens, t) \in Seq(Tokens)
        <4>1. row.tokens \in Seq(Tokens)
          BY <3>2 DEF RowRecords
        <4> QED BY <4>1, <3>2
      <3>4. row' \in RowRecords
        BY <3>1, <3>2, <3>3 DEF RowRecords
      <3> QED BY <3>4, <2>3 DEF AddBlock, LayOut, RowInvariant
    <2>4. CASE Write \/ ReadByte \/ Animate \/ Track \/ UNCHANGED <<subject, inputs, histories>>
      BY <2>1, <2>4 DEF Write, ReadByte, Animate, Track, inputs
    <2> QED BY <2>2, <2>3, <2>4 DEF MCNext
  <1> QED BY <1>1, <1>2, PTL DEF MCSpec

\* Engine.arrange leaves out of a row only what has to be left out.
THEOREM RowsDropLittle == MCSpec => []OnlyWhatDoesNotFitIsDropped
  <1>1. RowInvariant => OnlyWhatDoesNotFitIsDropped
    BY Arrangements DEF RowInvariant, OnlyWhatDoesNotFitIsDropped
  <1> QED BY <1>1, RowsAreLaidOut, PTL

\* No separator that visibleSeparators keeps stands for nothing.
THEOREM SeparatorsStandBetween == MCSpec => []NoStraySeparator
  <1>1. RowInvariant => NoStraySeparator
    BY RowsSeparate, Arrangements DEF RowInvariant, NoStraySeparator
  <1> QED BY <1>1, RowsAreLaidOut, PTL
-------------------------------------------------------------------------------
(* ValueText: the cells of a text. *)

\* The cells of a text, symbol by symbol.
LEMMA CellsRun ==
    ASSUME NEW T, NEW s \in Seq(T)
    PROVE  /\ CellsTo(s)[0] = 0
           /\ \A i \in 1..Len(s) : CellsTo(s)[i] = CellsTo(s)[i - 1] + CellsOfSymbol(s[i])
           /\ \A i \in 0..Len(s) : CellsTo(s)[i] \in Nat
  <1> DEFINE n == Len(s)
             S == Nat
             G == [i \in 1..n |-> [k \in S |-> k + CellsOfSymbol(s[i])]]
             Loop(f) == f = [i \in 0..n |-> IF i = 0 THEN 0 ELSE f[i - 1] + CellsOfSymbol(s[i])]
  <1>1. n \in Nat
    OBVIOUS
  <1>2. \A c : CellsOfSymbol(c) \in Nat
    BY DEF CellsOfSymbol
  <1>3. G \in [1..n -> [S -> S]]
    BY <1>2
  <1>4. PICK f \in [0..n -> S] : IsRun(f, 0, n, G)
    <2>1. n \in Nat /\ 0 \in S
      OBVIOUS
    <2> HIDE DEF G, n, S
    <2> QED BY ONLY <2>1, <1>3, LoopRuns
  <1>5. Loop(f)
    <2>1. ASSUME NEW i \in 1..n PROVE f[i] = f[i - 1] + CellsOfSymbol(s[i])
      <3>1. i - 1 \in 0..n
        BY <1>1
      <3> HIDE DEF n
      <3> QED BY <3>1, <1>4 DEF IsRun
    <2> HIDE DEF n
    <2> QED BY <2>1, <1>1, <1>4 DEF IsRun
  <1>6. Loop(CHOOSE g : Loop(g))
    <2> HIDE DEF Loop
    <2> QED BY <1>5
  <1>7. CellsTo(s) = CHOOSE g : Loop(g)
    BY DEF CellsTo
  <1>8. Loop(CellsTo(s))
    BY <1>6, <1>7
  <1> HIDE DEF n
  <1>9. CellsTo(s)[0] = 0
    BY <1>1, <1>8
  <1>10. ASSUME NEW i \in 1..n PROVE CellsTo(s)[i] = CellsTo(s)[i - 1] + CellsOfSymbol(s[i])
    BY <1>1, <1>8
  <1> DEFINE P == {i \in 0..n : CellsTo(s)[i] \in Nat}
  <1>11. 0 \in P
    BY <1>9, <1>1
  <1>12. ASSUME NEW i \in 1..n, i - 1 \in P PROVE i \in P
    <2>1. i \in 0..n /\ CellsTo(s)[i - 1] \in Nat /\ CellsOfSymbol(s[i]) \in Nat
      BY <1>1, <1>2, <1>12
    <2>2. CellsTo(s)[i] \in Nat
      BY <1>10, <2>1
    <2> QED BY <2>1, <2>2
  <1>13. \A i \in 0..n : i \in P
    <2> HIDE DEF P, Loop
    <2> QED BY <1>1, <1>11, <1>12, Climb
  <1> QED BY <1>9, <1>10, <1>13 DEF n

\* Texts side by side.
LEMMA CellsOfConcat ==
    ASSUME NEW T, NEW s \in Seq(T), NEW t \in Seq(T)
    PROVE  TextCells(s \o t) = TextCells(s) + TextCells(t)
  <1> DEFINE m == Len(s)
             n == Len(t)
             u == s \o t
             x == CellsTo(s)
             y == CellsTo(t)
             z == CellsTo(u)
  <1>1. /\ m \in Nat /\ n \in Nat /\ u \in Seq(T) /\ Len(u) = m + n
        /\ \A i \in 1..m : u[i] = s[i]
        /\ \A i \in 1..n : u[m + i] = t[i]
    OBVIOUS
  <1>2. /\ x[0] = 0 /\ \A i \in 1..m : x[i] = x[i - 1] + CellsOfSymbol(s[i])
        /\ \A i \in 0..m : x[i] \in Nat
    BY CellsRun
  <1>3. /\ y[0] = 0 /\ \A i \in 1..n : y[i] = y[i - 1] + CellsOfSymbol(t[i])
        /\ \A i \in 0..n : y[i] \in Nat
    BY CellsRun
  <1>4. /\ z[0] = 0 /\ \A i \in 1..m + n : z[i] = z[i - 1] + CellsOfSymbol(u[i])
    BY <1>1, CellsRun
  <1>5. \A c : CellsOfSymbol(c) \in Nat
    BY DEF CellsOfSymbol
  <1> HIDE DEF m, n, u, x, y, z
  <1> DEFINE P == {i \in 0..m : z[i] = x[i]}
             Q == {i \in 0..n : z[m + i] = x[m] + y[i]}
  <1>6. \A i \in 0..m : i \in P
    <2>1. 0 \in P
      BY <1>1, <1>2, <1>4
    <2>2. ASSUME NEW i \in 1..m, i - 1 \in P PROVE i \in P
      <3>1. i \in 0..m /\ i \in 1..m + n /\ z[i - 1] = x[i - 1] /\ u[i] = s[i]
        BY <1>1, <2>2
      <3>2. z[i] = x[i]
        BY <3>1, <1>2, <1>4
      <3> QED BY <3>1, <3>2
    <2> HIDE DEF P
    <2> QED BY <1>1, <2>1, <2>2, Climb
  <1>7. \A i \in 0..n : i \in Q
    <2>1. 0 \in Q
      <3>1. m \in 0..m /\ m + 0 = m /\ x[m] + 0 = x[m]
        BY <1>1, <1>2
      <3> QED BY <3>1, <1>1, <1>3, <1>6
    <2>2. ASSUME NEW i \in 1..n, i - 1 \in Q PROVE i \in Q
      <3>1. /\ i \in 0..n /\ m + i \in 1..m + n /\ m + (i - 1) = m + i - 1
            /\ z[m + (i - 1)] = x[m] + y[i - 1] /\ u[m + i] = t[i]
        <4>1. i \in 0..n /\ m + i \in 1..m + n /\ m + (i - 1) = m + i - 1
          BY <1>1
        <4>2. z[m + (i - 1)] = x[m] + y[i - 1]
          BY <2>2
        <4> QED BY <4>1, <4>2, <1>1
      <3>2. z[m + i] = x[m] + y[i - 1] + CellsOfSymbol(t[i])
        <4> DEFINE k == m + i
        <4>1. k \in 1..m + n
          BY <3>1
        <4>2. z[k] = z[k - 1] + CellsOfSymbol(u[k])
          <5>1. \A j \in 1..m + n : z[j] = z[j - 1] + CellsOfSymbol(u[j])
            BY <1>4
          <5> HIDE DEF k
          <5> QED BY ONLY <4>1, <5>1
        <4>3. k - 1 = m + (i - 1)
          BY <1>1
        <4>4. z[k - 1] = x[m] + y[i - 1] /\ u[k] = t[i]
          BY <4>3, <3>1
        <4> QED BY <4>2, <4>4
      <3>3. y[i] = y[i - 1] + CellsOfSymbol(t[i]) /\ y[i - 1] \in Nat /\ x[m] \in Nat
        BY <1>1, <1>2, <1>3
      <3> QED BY <3>1, <3>2, <3>3, <1>5
    <2> HIDE DEF Q
    <2> QED BY <1>1, <2>1, <2>2, Climb
  <1>8. z[m + n] = x[m] + y[n]
    BY <1>7, <1>1
  <1> QED BY <1>1, <1>8 DEF TextCells, m, n, u, x, y, z

\* The cells of a text are a natural number.
LEMMA CellsType ==
    ASSUME NEW T, NEW s \in Seq(T)
    PROVE  TextCells(s) \in Nat
  <1>1. Len(s) \in 0..Len(s)
    OBVIOUS
  <1> QED BY <1>1, CellsRun DEF TextCells

\* Padding is as wide as it is long.
LEMMA CellsOfBlanks ==
    ASSUME NEW k \in Nat
    PROVE  Blanks(k) \in Seq({" "}) /\ TextCells(Blanks(k)) = k
  <1> DEFINE s == Blanks(k)
             x == CellsTo(s)
             P == {i \in 0..k : x[i] = i}
  <1>1. s \in Seq({" "}) /\ Len(s) = k /\ \A i \in 1..k : s[i] = " "
    BY DEF Blanks
  <1>2. CellsOfSymbol(" ") = 1
    BY DEF CellsOfSymbol, Wide
  <1>3. x[0] = 0 /\ \A i \in 1..k : x[i] = x[i - 1] + CellsOfSymbol(s[i])
    BY <1>1, CellsRun
  <1> HIDE DEF s, x
  <1>4. 0 \in P
    BY <1>3
  <1>5. ASSUME NEW i \in 1..k, i - 1 \in P PROVE i \in P
    <2>1. x[i] = i - 1 + 1
      BY <1>1, <1>2, <1>3, <1>5
    <2> QED BY <2>1
  <1>6. \A i \in 0..k : i \in P
    <2> HIDE DEF P
    <2> QED BY <1>4, <1>5, Climb
  <1>7. x[k] = k
    BY <1>6
  <1> QED BY <1>1, <1>7 DEF TextCells, s, x

\* The cells of no symbol and of the ellipsis.
LEMMA CellsOfFew ==
    TextCells(<<>>) = 0 /\ TextCells(<<Ellipsis>>) = 1
  <1>1. <<>> \in Seq({Ellipsis}) /\ Len(<<>>) = 0 /\ <<Ellipsis>> \in Seq({Ellipsis})
    OBVIOUS
  <1>2. CellsTo(<<>>)[0] = 0
    BY <1>1, CellsRun
  <1>3. /\ Len(<<Ellipsis>>) = 1 /\ <<Ellipsis>>[1] = Ellipsis
        /\ CellsTo(<<Ellipsis>>)[0] = 0
        /\ \A i \in 1..Len(<<Ellipsis>>) : CellsTo(<<Ellipsis>>)[i]
              = CellsTo(<<Ellipsis>>)[i - 1] + CellsOfSymbol(<<Ellipsis>>[i])
    BY <1>1, CellsRun
  <1>4. CellsTo(<<Ellipsis>>)[1] = 0 + CellsOfSymbol(Ellipsis)
    BY <1>3
  <1>5. CellsOfSymbol(Ellipsis) = 1
    BY DEF CellsOfSymbol, Ellipsis, Wide
  <1> QED BY <1>1, <1>2, <1>3, <1>4, <1>5 DEF TextCells
\* What is cut fits.
LEMMA CutsFit ==
    ASSUME NEW T, NEW s \in Seq(T), NEW n \in Nat
    PROVE  /\ CutStart(s, n) \in Seq(T) /\ TextCells(CutStart(s, n)) <= n
           /\ CutEnd(s, n) \in Seq(T) /\ TextCells(CutEnd(s, n)) <= n
  <1> DEFINE l == Len(s)
             heads == {k \in 0..l : TextCells(SubSeq(s, 1, k)) <= n}
             tails == {k \in 1..l + 1 : TextCells(SubSeq(s, k, l)) <= n}
             left == {l - k : k \in heads}
  <1>1. l \in Nat
    OBVIOUS
  <1>2. 0 \in heads /\ l + 1 \in tails
    <2>1. SubSeq(s, 1, 0) = <<>> /\ SubSeq(s, l + 1, l) = <<>>
      <3>1. Len(SubSeq(s, 1, 0)) = 0 /\ Len(SubSeq(s, l + 1, l)) = 0
        BY <1>1
      <3>2. SubSeq(s, 1, 0) \in Seq(T) /\ SubSeq(s, l + 1, l) \in Seq(T)
        BY <1>1
      <3> QED BY <3>1, <3>2
    <2>2. TextCells(SubSeq(s, 1, 0)) <= n /\ TextCells(SubSeq(s, l + 1, l)) <= n
      <3>1. TextCells(SubSeq(s, 1, 0)) = 0 /\ TextCells(SubSeq(s, l + 1, l)) = 0
        BY <2>1, CellsOfFew
      <3>2. 0 <= n
        OBVIOUS
      <3> QED BY ONLY <3>1, <3>2
    <2>3. 0 \in 0..l /\ l + 1 \in 1..l + 1
      BY <1>1
    <2> HIDE DEF l
    <2> QED BY <2>2, <2>3
  <1>3. \A k \in heads : SubSeq(s, 1, k) \in Seq(T) /\ TextCells(SubSeq(s, 1, k)) <= n
    BY <1>1
  <1>4. \A k \in tails : SubSeq(s, k, l) \in Seq(T) /\ TextCells(SubSeq(s, k, l)) <= n
    BY <1>1
  <1>5. Max(heads) \in heads
    <2>1. left \in SUBSET Nat /\ left # {}
      BY <1>1, <1>2
    <2>2. PICK d \in left : \A e \in left : d <= e
      BY <2>1, LeastNatural
    <2>3. PICK k \in heads : d = l - k
      BY <2>2
    <2>4. \A j \in heads : k >= j
      <3>1. \A j \in heads : l - k <= l - j
        BY <2>2, <2>3
      <3>2. \A j \in heads : j \in Nat /\ k \in Nat
        BY <1>1
      <3> HIDE DEF heads, l
      <3> QED BY <3>1, <3>2, <1>1
    <2>5. \E x \in heads : \A y \in heads : x >= y
      BY <2>4
    <2> HIDE DEF heads
    <2> QED BY <2>5 DEF Max
  <1>6. Min(tails) \in tails
    <2>1. tails \in SUBSET Nat /\ tails # {}
      BY <1>1, <1>2
    <2>2. PICK k \in tails : \A j \in tails : k <= j
      BY <2>1, LeastNatural
    <2>3. \A j \in tails : k <= j
      BY <2>2
    <2>4. \E x \in tails : \A y \in tails : x <= y
      BY <2>3
    <2> HIDE DEF tails
    <2> QED BY <2>4 DEF Min
  <1>7. CutStart(s, n) = SubSeq(s, 1, Max(heads)) /\ CutEnd(s, n) = SubSeq(s, Min(tails), l)
    BY DEF CutStart, CutEnd
  <1> HIDE DEF heads, tails, l
  <1> QED BY <1>3, <1>4, <1>5, <1>6, <1>7

\* Where a text can be cut.
SidesOfText == {"left", "right", "middle", "none"}

\* What is truncated fits, and what fits is not truncated.
LEMMA TruncateFits ==
    ASSUME NEW s \in Seq(TextSymbols), NEW n \in Nat, NEW side \in SidesOfText
    PROVE  /\ Truncate(s, n, side) \in Seq(TextSymbols)
           /\ TextCells(Truncate(s, n, side)) <= n
           /\ TextCells(s) <= n => Truncate(s, n, side) = s
  <1> DEFINE T == TextSymbols
             e == <<Ellipsis>>
             f == Truncate(s, n, side)
  <1>1. e \in Seq(T) /\ TextCells(e) = 1
    <2>1. Ellipsis \in TextSymbols
      BY DEF TextSymbols
    <2> QED BY <2>1, CellsOfFew
  <1>2. \A k \in Nat : /\ CutStart(s, k) \in Seq(T) /\ TextCells(CutStart(s, k)) <= k
                       /\ CutEnd(s, k) \in Seq(T) /\ TextCells(CutEnd(s, k)) <= k
    BY CutsFit
  <1>3. \A x, y \in Seq(T) : /\ x \o y \in Seq(T)
                             /\ TextCells(x \o y) = TextCells(x) + TextCells(y)
    BY CellsOfConcat
  <1>4. \A x \in Seq(T) : TextCells(x) \in Nat
    BY CellsType
  <1> HIDE DEF T, e
  <1>5. s \in Seq(T)
    BY DEF T
  <1>6. CASE TextCells(s) <= n
    <2>1. f = s
      BY <1>6 DEF Truncate
    <2> QED BY <2>1, <1>5, <1>6 DEF T
  <1>7. CASE ~(TextCells(s) <= n)
    <2>1. CASE side = "none" \/ n <= 1
      <3>1. f = CutStart(s, n)
        BY <1>7, <2>1 DEF Truncate
      <3> QED BY <3>1, <1>2, <1>7 DEF T
    <2>2. CASE side # "none" /\ n > 1
      <3>1. n - 1 \in Nat
        BY <2>2
      <3>2. CASE side = "left"
        <4>1. f = e \o CutEnd(s, n - 1)
          BY <1>7, <2>2, <3>2 DEF Truncate, e
        <4>2. f \in Seq(T) /\ TextCells(f) = 1 + TextCells(CutEnd(s, n - 1))
          BY <4>1, <3>1, <1>1, <1>2, <1>3
        <4> QED BY <4>2, <3>1, <1>2, <1>4, <1>7 DEF T
      <3>3. CASE side = "right"
        <4>1. f = CutStart(s, n - 1) \o e
          BY <1>7, <2>2, <3>3 DEF Truncate, e
        <4>2. f \in Seq(T) /\ TextCells(f) = TextCells(CutStart(s, n - 1)) + 1
          BY <4>1, <3>1, <1>1, <1>2, <1>3
        <4> QED BY <4>2, <3>1, <1>2, <1>4, <1>7 DEF T
      <3>4. CASE side = "middle"
        <4> DEFINE a == (n - 1) \div 2
                   b == n - 1 - a
                   x == CutStart(s, a)
                   y == CutEnd(s, b)
        <4>1. a \in Nat /\ b \in Nat /\ a + 1 + b = n
          BY <3>1
        <4>2. f = x \o e \o y
          BY <1>7, <2>2, <3>4 DEF Truncate, e
        <4> HIDE DEF a, b
        <4>3. /\ x \in Seq(T) /\ TextCells(x) <= a /\ TextCells(x) \in Nat
              /\ y \in Seq(T) /\ TextCells(y) <= b /\ TextCells(y) \in Nat
          BY <4>1, <1>2, <1>4
        <4> HIDE DEF x, y
        <4>4. x \o e \in Seq(T) /\ TextCells(x \o e) = TextCells(x) + 1
          BY <4>3, <1>1, <1>3
        <4>5. f \in Seq(T) /\ TextCells(f) = TextCells(x) + 1 + TextCells(y)
          BY <4>2, <4>3, <4>4, <1>3
        <4> QED BY <4>1, <4>3, <4>5, <1>7 DEF T
      <3> QED BY <3>2, <3>3, <3>4, <2>2 DEF SidesOfText
    <2> QED BY <2>1, <2>2
  <1> QED BY <1>6, <1>7

\* Padding has no letters.
LEMMA NoLettersInBlanks ==
    ASSUME NEW k \in Nat
    PROVE  Letters(Blanks(k)) = <<>> /\ Blanks(k) \in Seq(TextSymbols)
  <1> DEFINE S == TextSymbols \ {" ", "|"}
             B == {" "}
             o == Only(S, Blanks(k))
  <1>1. Blanks(k) \in Seq({" "})
    BY CellsOfBlanks
  <1>2. o \in Seq(B) /\ o \in Seq(S)
    BY <1>1, OnlyType
  <1>3. B \cap S = {}
    OBVIOUS
  <1> HIDE DEF o, S, B
  <1>4. o = <<>>
    <2>1. ASSUME o # <<>> PROVE FALSE
      <3>1. Head(o) \in B /\ Head(o) \in S
        BY <1>2, <2>1
      <3> QED BY <3>1, <1>3
    <2> QED BY <2>1
  <1>5. " " \in TextSymbols
    BY DEF TextSymbols
  <1>6. Blanks(k) \in Seq(TextSymbols)
    <2> DEFINE T == TextSymbols
    <2>1. " " \in T
      BY <1>5
    <2> HIDE DEF T
    <2> DEFINE b == " "
    <2>2. b \in T
      BY <2>1
    <2> HIDE DEF b
    <2>3. [i \in 1..k |-> b] \in Seq(T)
      BY <2>2
    <2> QED BY <2>3 DEF Blanks, T, b
  <1> QED BY <1>4, <1>6 DEF Letters, o, S

\* What is padded fills its cells and keeps its letters.
LEMMA PadFills ==
    ASSUME NEW s \in Seq(TextSymbols), NEW n \in Nat, TextCells(s) <= n,
           NEW align \in {"left", "right", "center"}
    PROVE  TextCells(Pad(s, n, align)) = n /\ Letters(Pad(s, n, align)) = Letters(s)
  <1> DEFINE T == TextSymbols
             gap == n - TextCells(s)
             half == gap \div 2
             p == Pad(s, n, align)
  <1>1. TextCells(s) \in Nat
    BY CellsType
  <1>2. gap \in Nat
    BY <1>1
  <1>3. half \in Nat /\ gap - half \in Nat
    <2> HIDE DEF gap
    <2> QED BY <1>2
  <1>4. \A k \in Nat : Blanks(k) \in Seq(T) /\ TextCells(Blanks(k)) = k /\ Letters(Blanks(k)) = <<>>
    BY CellsOfBlanks, NoLettersInBlanks
  <1>5. \A x, y \in Seq(T) : /\ x \o y \in Seq(T)
                             /\ TextCells(x \o y) = TextCells(x) + TextCells(y)
                             /\ Letters(x \o y) = Letters(x) \o Letters(y)
    <2>1. \A x, y \in Seq(T) : x \o y \in Seq(T) /\ TextCells(x \o y) = TextCells(x) + TextCells(y)
      BY CellsOfConcat
    <2>2. \A x, y \in Seq(T) : Letters(x \o y) = Letters(x) \o Letters(y)
      <3> DEFINE S == TextSymbols \ {" ", "|"}
      <3>1. \A x, y \in Seq(T) : Only(S, x \o y) = Only(S, x) \o Only(S, y)
        <4> HIDE DEF S
        <4> QED BY OnlyOfConcat
      <3> QED BY <3>1 DEF Letters
    <2> QED BY <2>1, <2>2
  <1>6. \A x \in Seq(T) : Letters(x) \in Seq(T)
    BY OnlyType DEF Letters
  <1>7. \A x \in Seq(T) : <<>> \o x = x /\ x \o <<>> = x
    OBVIOUS
  <1> HIDE DEF T
  <1>8. s \in Seq(T)
    BY DEF T
  <1>9. CASE gap <= 0
    <2>1. p = s
      BY <1>1, <1>9 DEF Pad
    <2> QED BY <2>1, <1>1, <1>2, <1>9
  <1>10. CASE gap > 0 /\ align = "right"
    <2> DEFINE x == Blanks(gap)
    <2>1. p = x \o s
      BY <1>1, <1>10 DEF Pad
    <2>2. x \in Seq(T) /\ TextCells(x) = gap /\ Letters(x) = <<>>
      BY <1>2, <1>4
    <2> HIDE DEF p, gap, x
    <2>3. TextCells(p) = gap + TextCells(s) /\ Letters(p) = <<>> \o Letters(s)
      BY <2>1, <2>2, <1>5, <1>8
    <2> QED BY <2>3, <1>1, <1>6, <1>7, <1>8 DEF p, gap
  <1>11. CASE gap > 0 /\ align = "left"
    <2> DEFINE x == Blanks(gap)
    <2>1. p = s \o x
      BY <1>1, <1>11 DEF Pad
    <2>2. x \in Seq(T) /\ TextCells(x) = gap /\ Letters(x) = <<>>
      BY <1>2, <1>4
    <2> HIDE DEF p, gap, x
    <2>3. TextCells(p) = TextCells(s) + gap /\ Letters(p) = Letters(s) \o <<>>
      BY <2>1, <2>2, <1>5, <1>8
    <2> QED BY <2>3, <1>1, <1>6, <1>7, <1>8 DEF p, gap
  <1>12. CASE gap > 0 /\ align = "center"
    <2> DEFINE x == Blanks(half)
               y == Blanks(gap - half)
    <2>1. p = x \o s \o y
      BY <1>1, <1>12 DEF Pad
    <2>2. /\ x \in Seq(T) /\ TextCells(x) = half /\ Letters(x) = <<>>
          /\ y \in Seq(T) /\ TextCells(y) = gap - half /\ Letters(y) = <<>>
      BY <1>3, <1>4
    <2> HIDE DEF x, y
    <2>3. /\ x \o s \in Seq(T) /\ TextCells(x \o s) = half + TextCells(s)
          /\ Letters(x \o s) = <<>> \o Letters(s)
      BY <2>2, <1>5, <1>8
    <2>4. /\ TextCells(p) = half + TextCells(s) + (gap - half)
          /\ Letters(p) = (<<>> \o Letters(s)) \o <<>>
      BY <2>1, <2>2, <2>3, <1>5
    <2> QED BY <2>4, <1>1, <1>2, <1>3, <1>6, <1>7, <1>8
  <1> QED BY <1>9, <1>10, <1>11, <1>12, <1>2

\* The text of every block fills it.
LEMMA BlocksFill ==
    ASSUME NEW s \in Seq(TextSymbols), NEW n \in Nat
    PROVE  BlockIsExact(s, n)
  <1> SUFFICES ASSUME NEW side \in SidesOfText, NEW align \in {"left", "right", "center"}
               PROVE  /\ TextCells(BlockText(s, n, side, align)) = n
                      /\ TextCells(s) <= n => Letters(BlockText(s, n, side, align)) = Letters(s)
    BY DEF BlockIsExact, SidesOfText
  <1> DEFINE f == Truncate(s, n, side)
  <1>1. /\ f \in Seq(TextSymbols) /\ TextCells(f) <= n
        /\ TextCells(s) <= n => f = s
    BY TruncateFits
  <1> HIDE DEF f
  <1>2. TextCells(Pad(f, n, align)) = n /\ Letters(Pad(f, n, align)) = Letters(f)
    BY <1>1, PadFills
  <1> QED BY <1>1, <1>2 DEF BlockText, f

\* The formats of the run are texts.
FormatIsText == format \in Seq(TextSymbols)

\* They stay texts while symbols are added.
LEMMA FormatsAreTexts ==
    MCSpec => []FormatIsText
  <1>1. MCSymbols \subseteq TextSymbols
    BY DEF MCSymbols, TextSymbols, Wide, Placeholders
  <1>2. MCInit => FormatIsText
    BY DEF MCInit, FormatIsText
  <1>3. FormatIsText /\ [MCNext]_<<subject, inputs, histories>> => FormatIsText'
    <2> SUFFICES ASSUME format \in Seq(TextSymbols), [MCNext]_<<subject, inputs, histories>>
                 PROVE  format' \in Seq(TextSymbols)
      BY DEF FormatIsText
    <2>1. CASE Write
      <3>1. PICK c \in MCSymbols : format' = Append(format, c)
        BY <2>1 DEF Write
      <3>2. c \in TextSymbols
        BY <1>1
      <3> DEFINE T == TextSymbols
      <3>3. format \in Seq(T)
        OBVIOUS
      <3>4. c \in T
        BY <3>2
      <3> HIDE DEF T
      <3>5. Append(format, c) \in Seq(T)
        BY <3>3, <3>4
      <3> QED BY <3>1, <3>5 DEF T
    <2>2. CASE ReadByte \/ Configure \/ AddBlock \/ Animate \/ Track
               \/ UNCHANGED <<subject, inputs, histories>>
      BY <2>2 DEF ReadByte, Configure, AddBlock, Animate, Track, inputs
    <2> QED BY <2>1, <2>2 DEF MCNext
  <1> QED BY <1>2, <1>3, PTL DEF MCSpec

\* What is written into a block fills it, whatever the text, the width of the
\* block, the side that is cut and the alignment (Truncate and Pad): what
\* RowsFillTheBar takes for granted of every block.
THEOREM BlocksAreFull == MCSpec => []BlocksAreExact
  <1>1. 0..MaxSymbols \subseteq Nat
    OBVIOUS
  <1>2. FormatIsText => BlocksAreExact
    BY <1>1, BlocksFill DEF BlocksAreExact, FormatIsText
  <1> QED BY <1>2, FormatsAreTexts, PTL

\* Every row that RenderRow writes is exactly as wide as the bar, for every
\* format and every setting, and every text as wide as its block.
THEOREM RowsFillTheBar == MCSpec => []RowsAreExact
  <1>1. RowInvariant /\ BlocksAreExact => RowsAreExact
    BY RowsFit DEF RowInvariant, RowsAreExact
  <1> QED BY <1>1, RowsAreLaidOut, BlocksAreFull, PTL
-------------------------------------------------------------------------------
(* AnsiScan: sequences and the bytes that follow them. *)

\* What is scanned: the fields of Filter, and what is left of the bytes.
ScanStates == [tail : Seq(Bytes), deferred : Seq(Bytes), todo : Seq(Bytes), alt : BOOLEAN,
               diag : BOOLEAN, frames : Seq(Seq(Bytes))]

\* The first of some bytes is found again when more bytes follow.
LEMMA FirstStays ==
    ASSUME NEW b \in Seq(Bytes), NEW c \in Seq(Bytes), NEW lo \in Nat \ {0}, NEW B,
           FirstOf(b, lo, B) # 0
    PROVE  /\ FirstOf(b, lo, B) \in lo..Len(b)
           /\ b[FirstOf(b, lo, B)] \in B
           /\ FirstOf(b \o c, lo, B) = FirstOf(b, lo, B)
  <1> DEFINE d == b \o c
             at == {j \in lo..Len(b) : b[j] \in B}
             more == {j \in lo..Len(d) : d[j] \in B}
             j0 == FirstOf(b, lo, B)
  <1>1. /\ Len(b) \in Nat /\ Len(d) \in Nat /\ Len(b) <= Len(d)
        /\ \A j \in 1..Len(b) : d[j] = b[j]
    OBVIOUS
  <1>2. at # {} /\ j0 = CHOOSE j \in at : \A k \in at : j <= k
    BY DEF FirstOf
  <1>3. at \in SUBSET Nat /\ more \in SUBSET Nat
    BY <1>1
  <1> HIDE DEF d
  <1>4. j0 \in at /\ \A k \in at : j0 <= k
    <2> HIDE DEF at, j0
    <2> QED BY <1>2, <1>3, LeastNatural
  <1>5. j0 \in more /\ \A k \in more : j0 <= k
    <2>1. j0 \in lo..Len(b) /\ b[j0] \in B
      BY <1>4
    <2> HIDE DEF j0
    <2>2. j0 \in more
      BY <2>1, <1>1
    <2>3. ASSUME NEW k \in more PROVE j0 <= k
      <3>1. CASE k <= Len(b)
        <4>1. k \in at
          BY <3>1, <1>1
        <4> QED BY <4>1, <1>4
      <3>2. CASE ~(k <= Len(b))
        BY <3>2, <2>1, <1>1
      <3> QED BY <3>1, <3>2
    <2> QED BY <2>2, <2>3
  <1>6. FirstOf(d, lo, B) = CHOOSE j \in more : \A k \in more : j <= k
    BY <1>5 DEF FirstOf
  <1> DEFINE m0 == CHOOSE j \in more : \A k \in more : j <= k
  <1>7. m0 \in more /\ \A k \in more : m0 <= k
    <2> HIDE DEF more, j0
    <2> QED BY <1>5
  <1>8. m0 = j0
    <2> HIDE DEF m0, j0, more
    <2>1. m0 \in Nat /\ j0 \in Nat /\ m0 <= j0 /\ j0 <= m0
      BY <1>3, <1>5, <1>7
    <2> QED BY <2>1
  <1>9. j0 \in lo..Len(b) /\ b[j0] \in B
    BY <1>4
  <1> QED BY <1>6, <1>8, <1>9 DEF d

\* A complete sequence stays what it is when more bytes follow.
LEMMA SequenceStays ==
    ASSUME NEW b \in Seq(Bytes), NEW c \in Seq(Bytes), scanEscape(b) # 0
    PROVE  scanEscape(b) \in 1..Len(b) /\ scanEscape(b \o c) = scanEscape(b)
  <1> DEFINE d == b \o c
  <1>1. /\ Len(b) \in Nat /\ Len(d) \in Nat /\ Len(b) <= Len(d)
        /\ \A j \in 1..Len(b) : d[j] = b[j]
        /\ d \in Seq(Bytes)
    OBVIOUS
  <1>2. ~(Len(b) < 2)
    BY DEF scanEscape
  <1>3. d[2] = b[2] /\ ~(Len(d) < 2)
    BY <1>1, <1>2
  <1>4. \A lo \in {2, 3} : \A B : FirstOf(b, lo, B) # 0 =>
            /\ FirstOf(b, lo, B) \in lo..Len(b)
            /\ b[FirstOf(b, lo, B)] \in B
            /\ FirstOf(d, lo, B) = FirstOf(b, lo, B)
    BY FirstStays
  <1> HIDE DEF d
  <1>5. CASE b[2] = "["
    <2>1. scanEscape(b) = FirstOf(b, 3, Final) /\ scanEscape(d) = FirstOf(d, 3, Final)
      BY <1>2, <1>3, <1>5 DEF scanEscape
    <2> QED BY <2>1, <1>1, <1>4 DEF d
  <1>6. CASE b[2] = "]"
    <2> DEFINE B == {"BEL", "ESC"}
               j == FirstOf(b, 3, B)
    <2>1. scanEscape(b) = scanString(b) /\ scanEscape(d) = scanString(d)
      BY <1>2, <1>3, <1>6 DEF scanEscape
    <2>2. j # 0
      BY <2>1 DEF scanString
    <2>3. j \in 3..Len(b) /\ FirstOf(d, 3, B) = j
      BY <2>2, <1>4
    <2>4. d[j] = b[j] /\ j \in Nat
      BY <2>3, <1>1
    <2>5. CASE b[j] = "BEL"
      <3>1. scanString(b) = j /\ scanString(d) = j
        BY <2>2, <2>3, <2>4, <2>5 DEF scanString
      <3> QED BY <3>1, <2>1, <2>3, <1>1 DEF d
    <2>6. CASE b[j] # "BEL"
      <3>1. j # Len(b)
        BY <2>1, <2>2, <2>6 DEF scanString
      <3>2. j + 1 \in 1..Len(b) /\ j # Len(d) /\ j - 1 \in 1..Len(b)
        BY <2>3, <3>1, <1>1
      <3>3. d[j + 1] = b[j + 1]
        BY <3>2, <1>1
      <3>4. scanString(b) = (IF b[j + 1] = "\\" THEN j + 1 ELSE j - 1)
        BY <2>2, <2>6, <3>1 DEF scanString
      <3>5. scanString(d) = (IF d[j + 1] = "\\" THEN j + 1 ELSE j - 1)
        BY <2>2, <2>3, <2>4, <2>6, <3>2 DEF scanString
      <3> HIDE DEF j
      <3> QED BY <2>1, <3>2, <3>3, <3>4, <3>5 DEF d
    <2> QED BY <2>5, <2>6
  <1>7. CASE b[2] # "[" /\ b[2] # "]"
    <2> DEFINE B == Bytes \ {" "}
    <2>1. scanEscape(b) = FirstOf(b, 2, B) /\ scanEscape(d) = FirstOf(d, 2, B)
      BY <1>2, <1>3, <1>7 DEF scanEscape
    <2> HIDE DEF B
    <2> QED BY <2>1, <1>1, <1>4 DEF d
  <1> QED BY <1>5, <1>6, <1>7

\* The back of a concatenation that begins in its first part.
LEMMA FromOfConcat ==
    ASSUME NEW T, NEW b \in Seq(T), NEW c \in Seq(T), NEW n \in 0..Len(b)
    PROVE  From(b \o c, n + 1) = From(b, n + 1) \o c
  <1>1. PICK l \in Nat : l = Len(b)
    BY LenProperties
  <1>2. PICK p, q : p = SubSeq(b, 1, n) /\ q = From(b, n + 1)
    OBVIOUS
  <1>3. p \in Seq(T) /\ Len(p) = n
    <2>1. \A i \in 1..n : b[i] \in T
      BY <1>1, ElementOfSeq
    <2>2. p \in Seq(T) /\ Len(p) = IF 1 <= n THEN n - 1 + 1 ELSE 0
      BY <2>1, <1>1, <1>2, SubSeqProperties
    <2> QED BY <2>2, <1>1
  <1>4. q \in Seq(T)
    <2>1. \A i \in n + 1..l : b[i] \in T
      BY <1>1, ElementOfSeq
    <2>2. SubSeq(b, n + 1, l) \in Seq(T)
      BY <2>1, <1>1, SubSeqProperties
    <2> QED BY <2>2, <1>1, <1>2 DEF From
  <1>5. p \o q = b
    <2>1. 1 \in 1..l + 1 /\ n \in 1 - 1..l /\ l \in n..l
      BY <1>1
    <2>2. SubSeq(b, 1, n) \o SubSeq(b, n + 1, l) = SubSeq(b, 1, l)
      BY <2>1, <1>1, ConcatAdjacentSubSeq
    <2>3. SubSeq(b, 1, l) = b
      BY <1>1, SubSeqFull
    <2> QED BY <2>2, <2>3, <1>1, <1>2 DEF From
  <1>6. PICK r \in Seq(T) : r = q \o c
    BY <1>4, ConcatProperties
  <1>7. b \o c = p \o r
    <2>1. (p \o q) \o c = p \o (q \o c)
      <3>1. p \in Seq(T) /\ q \in Seq(T) /\ c \in Seq(T)
        BY <1>3, <1>4
      <3>2. Regroups(p, q, c)
        BY ONLY <3>1, ConcatRegroups
      <3> QED BY ONLY <3>2 DEF Regroups
    <2>2. b \o c = (p \o q) \o c
      BY <1>5, Zenon
    <2>3. p \o r = p \o (q \o c)
      BY <1>6, Zenon
    <2> QED BY ONLY <2>1, <2>2, <2>3, Zenon
  <1>8. r = SubSeq(p \o r, n + 1, Len(p \o r))
    <2>1. n \in Nat
      BY <1>1
    <2> QED BY <2>1, <1>3, BackOf
  <1> QED BY <1>2, <1>6, <1>7, <1>8 DEF From

\* Nothing more can be told from what is left of the bytes.
Stuck(z) == z.todo = <<>> \/ (z.todo[1] = "ESC" /\ scanEscape(z.todo) = 0)

\* One step of the scan without its stops: at a switch it goes on, and what is
\* incomplete stays where it is.
Advance(z) ==
    LET b == z.todo
        n == scanEscape(b)
    IN  IF Stuck(z) THEN z
        ELSE IF b[1] # "ESC" THEN [z EXCEPT !.frames = Append(@, <<b[1]>>), !.todo = Tail(b)]
        ELSE [z EXCEPT !.frames = Append(@, SubSeq(b, 1, n)), !.todo = From(b, n + 1),
                       !.alt = IF SwitchesAlt(SubSeq(b, 1, n), @) THEN ~@ ELSE @]

\* What the step takes off the bytes.
LEMMA Pieces ==
    ASSUME NEW b \in Seq(Bytes), b # <<>>
    PROVE  /\ b[1] \in Bytes /\ <<b[1]>> \in Seq(Bytes)
           /\ Tail(b) \in Seq(Bytes) /\ Len(Tail(b)) < Len(b)
           /\ scanEscape(b) # 0 =>
                 /\ SubSeq(b, 1, scanEscape(b)) \in Seq(Bytes)
                 /\ From(b, scanEscape(b) + 1) \in Seq(Bytes)
                 /\ Len(From(b, scanEscape(b) + 1)) < Len(b)
  <1>1. Len(b) \in Nat \ {0} /\ \A i \in 1..Len(b) : b[i] \in Bytes
    OBVIOUS
  <1>2. Tail(b) \in Seq(Bytes) /\ Len(Tail(b)) < Len(b)
    BY HeadTailProperties, <1>1
  <1>3. b[1] \in Bytes
    BY <1>1
  <1>4. <<b[1]>> \in Seq(Bytes)
    <2> DEFINE c == b[1]
    <2>1. c \in Bytes
      BY <1>3
    <2> HIDE DEF c
    <2>2. <<c>> \in Seq(Bytes)
      BY <2>1
    <2> QED BY <2>2 DEF c
  <1>5. ASSUME scanEscape(b) # 0
        PROVE  /\ SubSeq(b, 1, scanEscape(b)) \in Seq(Bytes)
               /\ From(b, scanEscape(b) + 1) \in Seq(Bytes)
               /\ Len(From(b, scanEscape(b) + 1)) < Len(b)
    <2> DEFINE n == scanEscape(b)
    <2>1. n \in 1..Len(b)
      <3>1. <<>> \in Seq(Bytes)
        OBVIOUS
      <3> QED BY <1>5, <3>1, SequenceStays
    <2> HIDE DEF n
    <2>2. SubSeq(b, 1, n) \in Seq(Bytes)
      BY <2>1, <1>1, SubSeqProperties
    <2>3. SubSeq(b, n + 1, Len(b)) \in Seq(Bytes) /\ Len(SubSeq(b, n + 1, Len(b))) < Len(b)
      <3>1. /\ SubSeq(b, n + 1, Len(b)) \in Seq(Bytes)
            /\ Len(SubSeq(b, n + 1, Len(b))) = IF n + 1 <= Len(b) THEN Len(b) - (n + 1) + 1 ELSE 0
        BY <2>1, <1>1, SubSeqProperties
      <3> QED BY <3>1, <2>1, <1>1
    <2> QED BY <2>2, <2>3 DEF From, n
  <1> QED BY <1>2, <1>3, <1>4, <1>5

\* A step goes on, and does not touch what is not being scanned.
LEMMA AdvanceDoes ==
    ASSUME NEW z \in ScanStates
    PROVE  /\ Advance(z) \in ScanStates
           /\ Advance(z).tail = z.tail /\ Advance(z).deferred = z.deferred
           /\ Advance(z).diag = z.diag
           /\ ~Stuck(z) => Len(Advance(z).todo) < Len(z.todo)
  <1> DEFINE b == z.todo
             n == scanEscape(b)
  <1>1. b \in Seq(Bytes) /\ z.frames \in Seq(Seq(Bytes)) /\ z.alt \in BOOLEAN
    BY DEF ScanStates
  <1>2. CASE Stuck(z)
    BY <1>2 DEF Advance
  <1>3. CASE ~Stuck(z) /\ b[1] # "ESC"
    <2>1. <<b[1]>> \in Seq(Bytes) /\ Tail(b) \in Seq(Bytes) /\ Len(Tail(b)) < Len(b)
      BY <1>1, <1>3, Pieces DEF Stuck
    <2> DEFINE g == Append(z.frames, <<b[1]>>)
    <2>2. g \in Seq(Seq(Bytes))
      BY <1>1, <2>1
    <2>3. Advance(z) = [z EXCEPT !.frames = g, !.todo = Tail(b)]
      BY <1>3 DEF Advance
    <2> HIDE DEF g
    <2> QED BY <2>1, <2>2, <2>3 DEF ScanStates
  <1>4. CASE ~Stuck(z) /\ b[1] = "ESC"
    <2>1. n # 0 /\ b # <<>>
      BY <1>4 DEF Stuck
    <2> DEFINE s == SubSeq(b, 1, n)
               c == From(b, n + 1)
               g == Append(z.frames, s)
               a == IF SwitchesAlt(s, z.alt) THEN ~z.alt ELSE z.alt
    <2>2. s \in Seq(Bytes) /\ c \in Seq(Bytes) /\ Len(c) < Len(b)
      BY <1>1, <2>1, Pieces
    <2>3. g \in Seq(Seq(Bytes)) /\ a \in BOOLEAN
      <3>1. g \in Seq(Seq(Bytes))
        <4> HIDE DEF s
        <4> QED BY <1>1, <2>2
      <3>2. a \in BOOLEAN
        BY <1>1
      <3> QED BY <3>1, <3>2
    <2>4. Advance(z) = [z EXCEPT !.frames = g, !.todo = c, !.alt = a]
      BY <1>4 DEF Advance
    <2> HIDE DEF s, c, g, a
    <2> QED BY <2>2, <2>3, <2>4 DEF ScanStates
  <1> QED BY <1>2, <1>3, <1>4

\* z with more bytes to come.
With(z, c) == [z EXCEPT !.todo = @ \o c]

\* The step is the same when more bytes follow.
LEMMA AdvanceWith ==
    ASSUME NEW z \in ScanStates, NEW c \in Seq(Bytes), ~Stuck(z)
    PROVE  ~Stuck(With(z, c)) /\ Advance(With(z, c)) = With(Advance(z), c)
  <1> DEFINE b == z.todo
             d == b \o c
             n == scanEscape(b)
             w == With(z, c)
  <1>1. b \in Seq(Bytes) /\ b # <<>>
    BY DEF ScanStates, Stuck
  <1>2. /\ d \in Seq(Bytes) /\ d # <<>> /\ d[1] = b[1] /\ Tail(d) = Tail(b) \o c
        /\ Len(d) \in Nat /\ Len(b) \in Nat \ {0} /\ Len(c) \in Nat /\ Len(d) = Len(b) + Len(c)
    <2>1. /\ d \in Seq(Bytes) /\ d # <<>> /\ d[1] = b[1]
          /\ Len(d) \in Nat /\ Len(b) \in Nat \ {0} /\ Len(c) \in Nat /\ Len(d) = Len(b) + Len(c)
      BY <1>1
    <2>2. Tail(d) = Tail(b) \o c
      <3>1. Tail(d) = From(d, 2) /\ Tail(b) = From(b, 2)
        BY <1>1, <2>1, TailIsSubSeq DEF From
      <3>2. 1 \in 0..Len(b) /\ 1 + 1 = 2
        BY <2>1
      <3>3. From(d, 1 + 1) = From(b, 1 + 1) \o c
        BY <3>2, <1>1, FromOfConcat
      <3> QED BY <3>1, <3>2, <3>3
    <2> QED BY <2>1, <2>2
  <1>3. w.todo = d /\ w.frames = z.frames /\ w.alt = z.alt /\ w = [z EXCEPT !.todo = d]
    BY DEF With, ScanStates
  <1>4. CASE b[1] # "ESC"
    <2>1. ~Stuck(w)
      BY <1>2, <1>3, <1>4 DEF Stuck
    <2>2. Advance(w) = [w EXCEPT !.frames = Append(@, <<d[1]>>), !.todo = Tail(d)]
      BY <2>1, <1>2, <1>3, <1>4 DEF Advance
    <2>3. Advance(z) = [z EXCEPT !.frames = Append(@, <<b[1]>>), !.todo = Tail(b)]
      BY <1>4 DEF Advance
    <2> DEFINE g == Append(z.frames, <<b[1]>>)
    <2>4. Advance(w) = [w EXCEPT !.frames = g, !.todo = Tail(b) \o c]
      BY <2>2, <1>2, <1>3
    <2>5. Advance(z) = [z EXCEPT !.frames = g, !.todo = Tail(b)]
      BY <2>3
    <2> HIDE DEF g, b, d, w
    <2>6. Advance(w) = With(Advance(z), c)
      BY <2>4, <2>5, <1>3 DEF With, ScanStates
    <2> QED BY <2>1, <2>6 DEF w
  <1>5. CASE b[1] = "ESC"
    <2>1. n # 0
      BY <1>5 DEF Stuck
    <2>2. n \in 1..Len(b) /\ scanEscape(d) = n
      BY <2>1, <1>1, SequenceStays
    <2>3. ~Stuck(w)
      BY <1>2, <1>3, <1>5, <2>1, <2>2 DEF Stuck
    <2> DEFINE s == SubSeq(b, 1, n)
               e == From(b, n + 1)
               g == Append(z.frames, s)
               a == IF SwitchesAlt(s, z.alt) THEN ~z.alt ELSE z.alt
    <2>4. SubSeq(d, 1, n) = s
      <3>1. 1 \in 1..Len(b)
        BY <1>2
      <3> HIDE DEF n
      <3> QED BY <3>1, <2>2, <1>1, SubSeqOfConcat1
    <2>5. From(d, n + 1) = e \o c
      <3>1. n \in 0..Len(b)
        BY <2>2, <1>2
      <3> HIDE DEF n
      <3> QED BY <3>1, <1>1, FromOfConcat
    <2>6. Advance(w) = [w EXCEPT !.frames = Append(@, SubSeq(d, 1, n)), !.todo = From(d, n + 1),
                                 !.alt = IF SwitchesAlt(SubSeq(d, 1, n), w.alt) THEN ~@ ELSE @]
      BY <2>2, <2>3, <1>2, <1>3, <1>5 DEF Advance
    <2>7. Advance(w) = [w EXCEPT !.frames = g, !.todo = e \o c, !.alt = a]
      BY <2>4, <2>5, <2>6, <1>3
    <2>8. Advance(z) = [z EXCEPT !.frames = g, !.todo = e, !.alt = a]
      BY <1>5 DEF Advance
    <2> HIDE DEF g, b, d, w, e, a, n
    <2>9. Advance(w) = With(Advance(z), c)
      BY <2>7, <2>8, <1>3 DEF With, ScanStates
    <2> QED BY <2>3, <2>9 DEF w
  <1> QED BY <1>4, <1>5
-------------------------------------------------------------------------------
(* AnsiScan: where the scan gets stuck. *)

\* The scan gets from x to y.
Leads(x, y) ==
    \A P \in SUBSET ScanStates : x \in P /\ (\A z \in P : Advance(z) \in P) => y \in P

\* What is true of a state and stays true in each step is true where it leads.
LEMMA LeadsOn ==
    /\ \A x \in ScanStates : Leads(x, x) /\ Leads(x, Advance(x))
    /\ \A x, y, z : Leads(x, y) /\ Leads(y, z) => Leads(x, z)
    /\ \A x \in ScanStates : \A y : Stuck(x) /\ Leads(x, y) => y = x
  <1>1. \A x \in ScanStates : Leads(x, x) /\ Leads(x, Advance(x))
    BY DEF Leads
  <1>2. ASSUME NEW x, NEW y, NEW z, Leads(x, y), Leads(y, z) PROVE Leads(x, z)
    BY <1>2 DEF Leads
  <1>3. ASSUME NEW x \in ScanStates, NEW y, Stuck(x), Leads(x, y) PROVE y = x
    <2>1. Advance(x) = x
      BY <1>3 DEF Advance
    <2>2. {x} \in SUBSET ScanStates /\ x \in {x} /\ \A z \in {x} : Advance(z) \in {x}
      BY <2>1
    <2>3. y \in {x}
      BY <2>2, <1>3 DEF Leads
    <2> QED BY <2>3
  <1> QED BY <1>1, <1>2, <1>3

\* From one state the scan gets to one state further, or not at all.
LEMMA LeadsPast ==
    ASSUME NEW x \in ScanStates, NEW y, Leads(x, y)
    PROVE  y = x \/ Leads(Advance(x), y)
  <1> DEFINE Q == {x} \cup {w \in ScanStates : Leads(Advance(x), w)}
  <1>1. \A z \in ScanStates : Advance(z) \in ScanStates
    BY AdvanceDoes
  <1>2. Q \in SUBSET ScanStates /\ x \in Q
    OBVIOUS
  <1>3. ASSUME NEW z \in Q PROVE Advance(z) \in Q
    <2>1. CASE z = x
      BY <2>1, <1>1, LeadsOn
    <2>2. CASE z \in ScanStates /\ Leads(Advance(x), z)
      <3>1. Leads(z, Advance(z))
        BY <2>2, LeadsOn
      <3>2. Leads(Advance(x), Advance(z))
        BY <2>2, <3>1, LeadsOn
      <3> QED BY <3>2, <2>2, <1>1
    <2> QED BY <2>1, <2>2
  <1>4. y \in Q
    <2> HIDE DEF Q
    <2> QED BY <1>2, <1>3 DEF Leads
  <1> QED BY <1>4

\* Where the scan gets stuck: y is the end of z.
EndsIn(z, y) == y \in ScanStates /\ Leads(z, y) /\ Stuck(y)

\* The scan ends, ...
LEMMA ScansEnd ==
    ASSUME NEW z \in ScanStates
    PROVE  \E y : EndsIn(z, y)
  <1> DEFINE Left == {k \in Nat : \E x \in ScanStates : Leads(z, x) /\ k = Len(x.todo)}
  <1>1. \A x \in ScanStates : Len(x.todo) \in Nat
    BY DEF ScanStates
  <1>2. Left \in SUBSET Nat /\ Left # {}
    <2>1. Len(z.todo) \in Left
      BY <1>1, LeadsOn
    <2> QED BY <2>1
  <1>3. PICK k \in Left : \A m \in Left : k <= m
    <2> HIDE DEF Left
    <2> QED BY <1>2, LeastNatural
  <1>4. PICK x \in ScanStates : Leads(z, x) /\ k = Len(x.todo)
    BY <1>3
  <1>5. Stuck(x)
    <2>1. SUFFICES ASSUME ~Stuck(x) PROVE FALSE
      OBVIOUS
    <2>2. Advance(x) \in ScanStates /\ Len(Advance(x).todo) < Len(x.todo)
      BY <2>1, AdvanceDoes
    <2>3. Leads(z, Advance(x))
      BY <1>4, LeadsOn
    <2>4. Len(Advance(x).todo) \in Left
      BY <1>1, <2>2, <2>3
    <2> QED BY <1>1, <1>3, <1>4, <2>2, <2>4
  <1> QED BY <1>4, <1>5 DEF EndsIn

\* ... and from every state on the way in the same one.
LEMMA EndIsReached ==
    ASSUME NEW z \in ScanStates, NEW x, NEW y, Leads(z, x), EndsIn(z, y)
    PROVE  EndsIn(x, y)
  <1> DEFINE P == {w \in ScanStates : Leads(w, y)}
  <1>1. P \in SUBSET ScanStates /\ z \in P
    BY DEF EndsIn
  <1>2. ASSUME NEW w \in P PROVE Advance(w) \in P
    <2>1. Advance(w) \in ScanStates
      BY AdvanceDoes
    <2>2. CASE y = w
      <3>1. Advance(w) = w
        BY <2>2 DEF EndsIn, Advance
      <3> QED BY <3>1
    <2>3. CASE Leads(Advance(w), y)
      BY <2>1, <2>3
    <2> QED BY <2>2, <2>3, LeadsPast
  <1>3. x \in P
    <2> HIDE DEF P
    <2> QED BY <1>1, <1>2 DEF Leads
  <1> QED BY <1>3 DEF EndsIn

\* The end of a state.
End(z) == CHOOSE y : EndsIn(z, y)

\* It is the same for the states on the way.
LEMMA EndOf ==
    ASSUME NEW z \in ScanStates
    PROVE  /\ EndsIn(z, End(z))
           /\ \A x \in ScanStates : Leads(z, x) => End(x) = End(z)
           /\ \A y : EndsIn(z, y) => y = End(z)
           /\ Stuck(z) => End(z) = z
  <1>1. EndsIn(z, End(z))
    BY ScansEnd DEF End
  <1>2. ASSUME NEW y, EndsIn(z, y) PROVE y = End(z)
    <2>1. EndsIn(End(z), y)
      BY <1>1, <1>2, EndIsReached DEF EndsIn
    <2> QED BY <1>1, <2>1, LeadsOn DEF EndsIn
  <1>3. ASSUME NEW x \in ScanStates, Leads(z, x) PROVE End(x) = End(z)
    <2>1. EndsIn(x, End(x))
      BY ScansEnd DEF End
    <2>2. EndsIn(z, End(x))
      BY <1>3, <2>1, LeadsOn DEF EndsIn
    <2> QED BY <2>2, <1>2
  <1>4. Stuck(z) => End(z) = z
    <2>1. Stuck(z) => EndsIn(z, z)
      BY LeadsOn DEF EndsIn
    <2> QED BY <2>1, <1>2
  <1> QED BY <1>1, <1>2, <1>3, <1>4

\* What the scan leaves alone.
LEMMA LeadsKeeps ==
    ASSUME NEW z \in ScanStates, NEW x, Leads(z, x)
    PROVE  /\ x \in ScanStates
           /\ x.tail = z.tail /\ x.deferred = z.deferred /\ x.diag = z.diag
           /\ Len(x.todo) <= Len(z.todo)
  <1> DEFINE P == {w \in ScanStates : /\ w.tail = z.tail /\ w.deferred = z.deferred
                                      /\ w.diag = z.diag
                                      /\ Len(w.todo) <= Len(z.todo)}
  <1>1. \A w \in ScanStates : Len(w.todo) \in Nat
    BY DEF ScanStates
  <1>2. P \in SUBSET ScanStates /\ z \in P
    BY <1>1
  <1>3. ASSUME NEW w \in P PROVE Advance(w) \in P
    <2>1. CASE Stuck(w)
      BY <2>1 DEF Advance
    <2>2. CASE ~Stuck(w)
      BY <2>2, <1>1, AdvanceDoes
    <2> QED BY <2>1, <2>2
  <1>4. x \in P
    <2> HIDE DEF P
    <2> QED BY <1>2, <1>3 DEF Leads
  <1> QED BY <1>4

\* The bytes that follow change nothing on the way.
LEMMA LeadsWith ==
    ASSUME NEW x \in ScanStates, NEW y \in ScanStates, NEW c \in Seq(Bytes), Leads(x, y)
    PROVE  Leads(With(x, c), With(y, c))
  <1>1. SUFFICES ASSUME NEW P \in SUBSET ScanStates, With(x, c) \in P,
                        \A z \in P : Advance(z) \in P
                 PROVE  With(y, c) \in P
    BY DEF Leads
  <1> DEFINE Q == {w \in ScanStates : With(w, c) \in P}
  <1>2. Q \in SUBSET ScanStates /\ x \in Q
    BY <1>1
  <1>3. ASSUME NEW w \in Q PROVE Advance(w) \in Q
    <2>1. CASE Stuck(w)
      BY <2>1 DEF Advance
    <2>2. CASE ~Stuck(w)
      <3>1. Advance(With(w, c)) = With(Advance(w), c)
        BY <2>2, AdvanceWith
      <3>2. With(Advance(w), c) \in P
        BY <1>1, <3>1
      <3> QED BY <3>2, AdvanceDoes
    <2> QED BY <2>1, <2>2
  <1>4. y \in Q
    <2> HIDE DEF Q
    <2> QED BY <1>2, <1>3 DEF Leads
  <1> QED BY <1>4

\* The scan may wait for the bytes that follow.
LEMMA EndWith ==
    ASSUME NEW z \in ScanStates, NEW c \in Seq(Bytes)
    PROVE  End(With(End(z), c)) = End(With(z, c))
  <1>1. ASSUME NEW w \in ScanStates PROVE With(w, c) \in ScanStates
    <2>1. w.todo \o c \in Seq(Bytes)
      BY DEF ScanStates
    <2> DEFINE b == w.todo \o c
    <2> HIDE DEF b
    <2>2. [w EXCEPT !.todo = b] \in ScanStates
      BY <2>1 DEF ScanStates, b
    <2> QED BY <2>2 DEF With, b
  <1>2. End(z) \in ScanStates /\ Leads(z, End(z))
    BY EndOf DEF EndsIn
  <1>3. Leads(With(z, c), With(End(z), c))
    BY <1>2, LeadsWith
  <1> QED BY <1>1, <1>2, <1>3, EndOf
-------------------------------------------------------------------------------
(* AnsiScan: Filter's loop and the passes of the event loop. *)

\* A state from which the scan starts, and one in which it is over: no bytes
\* are left but those that wait for the next read.
Fresh == {z \in ScanStates : z.tail = <<>> /\ z.deferred = <<>>}
Quiet == {q \in ScanStates : q.todo = <<>> /\ q.deferred = <<>>}

\* The step of Filter's loop, against a step without its stops.
LEMMA ScanNextDoes ==
    ASSUME NEW z \in ScanStates
    PROVE  /\ ScanNext(z) \in ScanStates
           /\ z.todo = <<>> => ScanNext(z) = z
           /\ z.diag => ScanNext(z).diag
           /\ Stuck(z) /\ z.todo # <<>> =>
                 \/ ScanNext(z) = [z EXCEPT !.tail = z.todo, !.todo = <<>>]
                 \/ /\ ScanNext(z).diag /\ ScanNext(z).todo = <<>>
                    /\ ScanNext(z).deferred = z.deferred
           /\ ~Stuck(z) =>
                 \/ ScanNext(z) = Advance(z)
                 \/ ScanNext(z) = [Advance(z) EXCEPT !.deferred = Advance(z).todo,
                                                     !.todo = <<>>]
  <1> DEFINE b == z.todo
             n == scanEscape(b)
  <1>1. b \in Seq(Bytes) /\ z.frames \in Seq(Seq(Bytes)) /\ z.alt \in BOOLEAN
    BY DEF ScanStates
  <1>2. <<>> \in Seq(Bytes)
    OBVIOUS
  <1>3. CASE b = <<>>
    <2>1. ScanNext(z) = z /\ Stuck(z)
      BY <1>3 DEF ScanNext, Stuck
    <2> QED BY <2>1, <1>3
  <1>4. CASE b # <<>> /\ b[1] # "ESC"
    <2>1. ~Stuck(z)
      BY <1>4 DEF Stuck
    <2>2. ScanNext(z) = Advance(z)
      BY <1>4, <2>1 DEF ScanNext, Advance
    <2> QED BY <1>4, <2>1, <2>2, AdvanceDoes
  <1>5. CASE b # <<>> /\ b[1] = "ESC" /\ n = 0
    <2>1. Stuck(z)
      BY <1>5 DEF Stuck
    <2> DEFINE g == z.frames \o OneByOne(b)
    <2>2. ScanNext(z) = IF Len(b) > maxBufferedSeq(b)
                        THEN [z EXCEPT !.diag = TRUE, !.frames = g, !.todo = <<>>]
                        ELSE [z EXCEPT !.tail = b, !.todo = <<>>]
      BY <1>5 DEF ScanNext
    <2>3. g \in Seq(Seq(Bytes))
      <3>1. \A i \in 1..Len(b) : <<b[i]>> \in Seq(Bytes)
        <4>1. ASSUME NEW i \in 1..Len(b) PROVE <<b[i]>> \in Seq(Bytes)
          <5>1. PICK e \in Bytes : e = b[i]
            BY <1>1
          <5>2. <<e>> \in Seq(Bytes)
            OBVIOUS
          <5> QED BY <5>1, <5>2
        <4> QED BY <4>1
      <3>2. Len(b) \in Nat
        BY <1>1
      <3> DEFINE o == [i \in 1..Len(b) |-> <<b[i]>>]
      <3>3. o \in [1..Len(b) -> Seq(Bytes)]
        BY <3>1
      <3>4. o \in Seq(Seq(Bytes))
        <4> HIDE DEF o
        <4> QED BY <3>2, <3>3, SeqDef
      <3>5. OneByOne(b) = o
        BY <1>1 DEF OneByOne
      <3> HIDE DEF o
      <3> QED BY <3>4, <3>5, <1>1
    <2> HIDE DEF g
    <2> QED BY <1>1, <1>2, <1>5, <2>1, <2>2, <2>3 DEF ScanStates
  <1>6. CASE b # <<>> /\ b[1] = "ESC" /\ n # 0
    <2>1. ~Stuck(z)
      BY <1>6 DEF Stuck
    <2> DEFINE s == SubSeq(b, 1, n)
               c == From(b, n + 1)
               g == Append(z.frames, s)
               h == [z EXCEPT !.frames = g, !.todo = c]
    <2>2. ScanNext(z) = IF SwitchesAlt(s, z.alt)
                        THEN [h EXCEPT !.alt = ~@, !.deferred = h.todo, !.todo = <<>>]
                        ELSE h
      BY <1>6 DEF ScanNext
    <2>3. Advance(z) = [z EXCEPT !.frames = g, !.todo = c,
                                 !.alt = IF SwitchesAlt(s, z.alt) THEN ~z.alt ELSE z.alt]
      BY <1>6, <2>1 DEF Advance
    <2>4. Advance(z) \in ScanStates /\ Advance(z).diag = z.diag
      BY AdvanceDoes
    <2> HIDE DEF s, c, g, n
    <2>6. CASE SwitchesAlt(s, z.alt)
      <3>1. Advance(z) = [z EXCEPT !.frames = g, !.todo = c, !.alt = ~z.alt]
        BY <2>3, <2>6
      <3>2. ScanNext(z) = [z EXCEPT !.frames = g, !.todo = <<>>, !.alt = ~z.alt, !.deferred = c]
        BY <2>2, <2>6 DEF ScanStates
      <3>3. ScanNext(z) = [Advance(z) EXCEPT !.deferred = Advance(z).todo, !.todo = <<>>]
        BY <3>1, <3>2 DEF ScanStates
      <3>4. ScanNext(z) \in ScanStates /\ ScanNext(z).diag = Advance(z).diag
        BY <3>3, <2>4, <1>2 DEF ScanStates
      <3> QED BY <1>6, <2>1, <2>4, <2>6, <3>3, <3>4
    <2>7. CASE ~SwitchesAlt(s, z.alt)
      <3>1. Advance(z) = h
        BY <2>3, <2>7 DEF ScanStates
      <3>2. ScanNext(z) = Advance(z)
        BY <2>2, <2>7, <3>1
      <3> QED BY <1>6, <2>1, <2>4, <3>2
    <2> QED BY <2>6, <2>7
  <1> QED BY <1>3, <1>4, <1>5, <1>6

\* The bytes that were deferred are scanned.
Resumed(x) == [x EXCEPT !.todo = x.deferred, !.deferred = <<>>]

\* The scan of z has stopped at a switch: the rest waits for the next pass.
Paused(z, x) ==
    /\ x \in ScanStates /\ x.todo = <<>> /\ x.tail = <<>>
    /\ x.deferred # <<>> /\ Len(x.deferred) < Len(z.todo)
    /\ Leads(z, Resumed(x))

\* What is kept where the scan is stuck.
Settled(z) == ScanNext(End(z))

\* Filter's loop goes on, stops at a switch, or is through.
LEMMA NextOnTheWay ==
    ASSUME NEW z \in Fresh, NEW x \in Fresh, Leads(z, x)
    PROVE  \/ /\ ScanNext(x) \in Fresh /\ Leads(z, ScanNext(x))
              /\ Len(ScanNext(x).todo) < Len(x.todo)
           \/ Paused(z, ScanNext(x))
           \/ ScanNext(x) = Settled(z)
  <1>1. z \in ScanStates /\ x \in ScanStates /\ x.tail = <<>> /\ x.deferred = <<>>
    BY DEF Fresh
  <1>2. CASE Stuck(x)
    <2>1. x = End(z)
      BY <1>1, <1>2, EndOf DEF EndsIn
    <2> QED BY <2>1 DEF Settled
  <1>3. CASE ~Stuck(x)
    <2> DEFINE y == Advance(x)
    <2>1. /\ y \in ScanStates /\ y.tail = <<>> /\ y.deferred = <<>>
          /\ Len(y.todo) < Len(x.todo)
      BY <1>1, <1>3, AdvanceDoes
    <2>2. Leads(z, y)
      BY <1>1, LeadsOn
    <2>3. CASE ScanNext(x) = y
      BY <2>1, <2>2, <2>3 DEF Fresh
    <2>4. CASE ScanNext(x) = [y EXCEPT !.deferred = y.todo, !.todo = <<>>]
      <3>1. Len(y.todo) < Len(z.todo)
        <4>1. Len(x.todo) <= Len(z.todo)
          BY <1>1, LeadsKeeps
        <4>2. Len(x.todo) \in Nat /\ Len(y.todo) \in Nat /\ Len(z.todo) \in Nat
          BY <1>1, <2>1 DEF ScanStates
        <4> QED BY <2>1, <4>1, <4>2
      <3> DEFINE w == [y EXCEPT !.deferred = y.todo, !.todo = <<>>]
      <3> HIDE DEF y
      <3>2. CASE y.todo = <<>>
        <4>1. w = y
          BY <2>1, <3>2 DEF ScanStates
        <4>2. Stuck(y)
          BY <3>2 DEF Stuck
        <4>3. y = End(z)
          BY <1>1, <2>1, <2>2, <4>2, EndOf DEF EndsIn
        <4>4. ScanNext(y) = y
          BY <2>1, <3>2, ScanNextDoes
        <4> QED BY <2>4, <4>1, <4>3, <4>4 DEF Settled
      <3>3. CASE y.todo # <<>>
        <4>1. /\ w \in ScanStates /\ w.todo = <<>> /\ w.tail = <<>> /\ w.deferred = y.todo
          BY <2>1 DEF ScanStates
        <4>2. Resumed(w) = y
          BY <2>1 DEF Resumed, ScanStates
        <4> HIDE DEF w
        <4>3. Paused(z, w)
          BY <2>2, <2>4, <3>1, <3>3, <4>1, <4>2 DEF Paused
        <4> QED BY <2>4, <4>3 DEF w
      <3> QED BY <3>2, <3>3
    <2> QED BY <2>3, <2>4, <1>1, <1>3, ScanNextDoes
  <1> QED BY <1>2, <1>3

\* What is kept, and what it is worth when more bytes come.
LEMMA SettledKeeps ==
    ASSUME NEW z \in Fresh
    PROVE  /\ Settled(z) \in Quiet
           /\ z.diag => Settled(z).diag
           /\ ~Settled(z).diag =>
                 \A c \in Seq(Bytes) :
                     [Settled(z) EXCEPT !.tail = <<>>, !.todo = Settled(z).tail \o c]
                         = With(End(z), c)
  <1> DEFINE e == End(z)
             s == Settled(z)
  <1>1. z \in ScanStates /\ z.tail = <<>> /\ z.deferred = <<>>
    BY DEF Fresh
  <1>2. e \in ScanStates /\ Stuck(e) /\ Leads(z, e)
    BY <1>1, EndOf DEF EndsIn
  <1>3. e.tail = <<>> /\ e.deferred = <<>> /\ e.diag = z.diag
    BY <1>1, <1>2, LeadsKeeps
  <1>4. /\ s \in ScanStates
        /\ e.todo = <<>> => s = e
        /\ e.diag => s.diag
        /\ e.todo # <<>> =>
              \/ s = [e EXCEPT !.tail = e.todo, !.todo = <<>>]
              \/ s.diag /\ s.todo = <<>> /\ s.deferred = e.deferred
    BY <1>2, ScanNextDoes DEF Settled
  <1> HIDE DEF e, s
  <1>5. CASE e.todo = <<>>
    <2>1. s = e /\ s \in Quiet
      BY <1>3, <1>4, <1>5 DEF Quiet
    <2>2. ASSUME NEW c \in Seq(Bytes)
          PROVE  [s EXCEPT !.tail = <<>>, !.todo = s.tail \o c] = With(e, c)
      BY <1>2, <1>3, <1>5, <2>1 DEF With, ScanStates
    <2> QED BY <1>3, <1>4, <2>1, <2>2 DEF s, e
  <1>6. CASE e.todo # <<>> /\ s = [e EXCEPT !.tail = e.todo, !.todo = <<>>]
    <2>1. s.todo = <<>> /\ s.deferred = <<>> /\ s.tail = e.todo
      BY <1>2, <1>3, <1>6 DEF ScanStates
    <2>2. s \in Quiet
      BY <1>4, <2>1 DEF Quiet
    <2>3. ASSUME NEW c \in Seq(Bytes)
          PROVE  [s EXCEPT !.tail = <<>>, !.todo = s.tail \o c] = With(e, c)
      <3> DEFINE d == e.todo \o c
      <3>1. s.tail \o c = d /\ With(e, c) = [e EXCEPT !.todo = d]
        BY <2>1 DEF With
      <3> HIDE DEF d
      <3>2. [s EXCEPT !.tail = <<>>, !.todo = d] = [e EXCEPT !.todo = d]
        BY <1>2, <1>3, <1>6 DEF ScanStates
      <3> QED BY <3>1, <3>2
    <2> QED BY <1>3, <1>4, <2>2, <2>3 DEF s, e
  <1>7. CASE s.diag /\ s.todo = <<>> /\ s.deferred = e.deferred
    BY <1>3, <1>4, <1>7 DEF s, Quiet
  <1> QED BY <1>4, <1>5, <1>6, <1>7

\* Filter's loop, step by step.
LEMMA ScanRuns ==
    ASSUME NEW st \in ScanStates, NEW b \in Seq(Bytes)
    PROVE  \E f : /\ f[0] = [st EXCEPT !.todo = b]
                  /\ \A i \in 1..Len(b) : f[i] = ScanNext(f[i - 1])
                  /\ Scan(st, b) = f[Len(b)]
  <1> DEFINE n == Len(b)
             z == [st EXCEPT !.todo = b]
             S == ScanStates
             G == [i \in 1..n |-> [x \in S |-> ScanNext(x)]]
             Loop(f) == f = [k \in 0..n |-> IF k = 0 THEN z ELSE ScanNext(f[k - 1])]
  <1>1. n \in Nat
    OBVIOUS
  <1>2. z \in S
    BY DEF ScanStates
  <1>3. G \in [1..n -> [S -> S]]
    BY ScanNextDoes
  <1>4. PICK f \in [0..n -> S] : IsRun(f, z, n, G)
    <2> HIDE DEF G, n, S, z
    <2> QED BY ONLY <1>1, <1>2, <1>3, LoopRuns
  <1>5. Loop(f)
    <2>1. ASSUME NEW i \in 1..n PROVE f[i] = ScanNext(f[i - 1])
      <3>1. i - 1 \in 0..n
        BY <1>1
      <3> HIDE DEF n, z
      <3> QED BY <3>1, <1>4 DEF IsRun
    <2> HIDE DEF n, z
    <2> QED BY <2>1, <1>1, <1>4 DEF IsRun
  <1> DEFINE g == CHOOSE h : Loop(h)
  <1>6. Loop(g)
    <2> HIDE DEF Loop
    <2> QED BY <1>5
  <1>7. Scan(st, b) = g[n]
    BY DEF Scan
  <1> HIDE DEF g, n, z
  <1>8. g[0] = z /\ \A i \in 1..n : g[i] = ScanNext(g[i - 1])
    BY <1>1, <1>6
  <1> QED BY <1>7, <1>8 DEF n, z

\* After Filter's loop the bytes are settled, or wait behind a switch.
LEMMA ScanSettles ==
    ASSUME NEW st \in ScanStates, st.tail = <<>>, st.deferred = <<>>, NEW b \in Seq(Bytes)
    PROVE  \/ Scan(st, b) = Settled([st EXCEPT !.todo = b])
           \/ Paused([st EXCEPT !.todo = b], Scan(st, b))
  <1> DEFINE n == Len(b)
             z == [st EXCEPT !.todo = b]
  <1>1. n \in Nat /\ z \in Fresh /\ z.todo = b
    <2>1. n \in Nat
      OBVIOUS
    <2>2. z \in ScanStates /\ z.todo = b /\ z.tail = st.tail /\ z.deferred = st.deferred
      BY DEF ScanStates
    <2> QED BY <2>1, <2>2 DEF Fresh
  <1>2. PICK f : f[0] = z /\ (\A i \in 1..n : f[i] = ScanNext(f[i - 1])) /\ Scan(st, b) = f[n]
    BY ScanRuns
  <1> HIDE DEF z, n
  <1> DEFINE On(i) == f[i] \in Fresh /\ Leads(z, f[i]) /\ Len(f[i].todo) <= n - i
             Over(i) == f[i] = Settled(z) \/ Paused(z, f[i])
             P == {i \in 0..n : On(i) \/ Over(i)}
  <1>3. 0 \in P
    <2>1. z \in ScanStates
      BY <1>1 DEF Fresh
    <2>2. Len(f[0].todo) <= n - 0
      BY <1>1, <1>2 DEF n
    <2> QED BY <1>1, <1>2, <2>1, <2>2, LeadsOn
  <1>4. ASSUME NEW i \in 1..n, i - 1 \in P PROVE i \in P
    <2>1. i \in Nat /\ i \in 0..n /\ f[i] = ScanNext(f[i - 1])
      BY <1>1, <1>2
    <2>2. CASE On(i - 1)
      <3>1. Len(f[i - 1].todo) \in Nat
        BY <2>2 DEF Fresh, ScanStates
      <3>2. \/ /\ f[i] \in Fresh /\ Leads(z, f[i])
               /\ Len(f[i].todo) < Len(f[i - 1].todo)
            \/ Over(i)
        BY <1>1, <2>1, <2>2, NextOnTheWay
      <3>3. f[i] \in Fresh => Len(f[i].todo) \in Nat
        BY DEF Fresh, ScanStates
      <3> QED BY <1>1, <2>1, <2>2, <3>1, <3>2, <3>3
    <2>3. CASE Over(i - 1)
      <3>1. f[i - 1] \in ScanStates /\ f[i - 1].todo = <<>>
        BY <1>1, <2>3, SettledKeeps DEF Paused, Quiet
      <3>2. f[i] = f[i - 1]
        BY <2>1, <3>1, ScanNextDoes
      <3> QED BY <2>1, <2>3, <3>2
    <2> QED BY <1>4, <2>2, <2>3
  <1>5. n \in P
    <2>1. \A i \in 0..n : i \in P
      <3> HIDE DEF P
      <3> QED BY <1>1, <1>3, <1>4, Climb
    <2> QED BY <2>1, <1>1
  <1>6. CASE On(n)
    <2>1. f[n] \in ScanStates /\ f[n].todo = <<>>
      <3>1. f[n].todo \in Seq(Bytes) /\ Len(f[n].todo) <= 0
        BY <1>1, <1>6 DEF Fresh, ScanStates
      <3> QED BY <3>1, <1>6 DEF Fresh
    <2>2. z \in ScanStates
      BY <1>1 DEF Fresh
    <2>3. f[n] = End(z)
      <3>1. EndsIn(z, f[n])
        BY <2>1, <1>6 DEF EndsIn, Stuck
      <3> QED BY <3>1, <2>2, EndOf
    <2>4. ScanNext(f[n]) = f[n]
      BY <2>1, ScanNextDoes
    <2> QED BY <1>2, <2>3, <2>4 DEF Settled, z
  <1>7. CASE Over(n)
    BY <1>2, <1>7 DEF z
  <1> QED BY <1>5, <1>6, <1>7

\* What is scanned when a read comes.
Start(q, in) == [q EXCEPT !.tail = <<>>, !.todo = q.tail \o in]

\* The next pass goes on behind the switch, to the end or to a switch further on.
LEMMA NextPassSettles ==
    ASSUME NEW z \in Fresh, NEW x, x = Settled(z) \/ Paused(z, x)
    PROVE  \/ NextPass(x) = Settled(z)
           \/ /\ Paused(z, x) /\ Paused(z, NextPass(x))
              /\ Len(NextPass(x).deferred) < Len(x.deferred)
  <1>1. CASE x = Settled(z)
    <2>1. x.deferred = <<>>
      BY <1>1, SettledKeeps DEF Quiet
    <2> QED BY <1>1, <2>1 DEF NextPass
  <1>2. CASE Paused(z, x)
    <2> DEFINE y == [x EXCEPT !.deferred = <<>>]
               b == x.deferred
               r == Resumed(x)
    <2>1. x \in ScanStates /\ x.tail = <<>> /\ b # <<>> /\ b \in Seq(Bytes)
      BY <1>2 DEF Paused, ScanStates
    <2>2. y \in ScanStates /\ y.tail = <<>> /\ y.deferred = <<>>
      BY <2>1 DEF ScanStates
    <2>3. NextPass(x) = Scan(y, b)
      <3>1. b \o <<>> = b
        BY <2>1, ConcatEmptySeq
      <3> QED BY <2>1, <3>1 DEF NextPass, Filter
    <2>4. [y EXCEPT !.todo = b] = r
      BY <2>1 DEF Resumed, ScanStates
    <2>5. Scan(y, b) = Settled(r) \/ Paused(r, Scan(y, b))
      <3> HIDE DEF y, b, r
      <3> QED BY <2>1, <2>2, <2>4, ScanSettles
    <2>6. r \in ScanStates /\ r.todo = b /\ Leads(z, r)
      BY <2>1, <1>2 DEF Resumed, ScanStates, Paused
    <2>7. CASE Scan(y, b) = Settled(r)
      <3>1. End(r) = End(z)
        BY <2>6, EndOf DEF Fresh
      <3> QED BY <2>3, <2>7, <3>1 DEF Settled
    <2>8. CASE Paused(r, Scan(y, b))
      <3> DEFINE w == NextPass(x)
      <3>1. Paused(r, w)
        BY <2>3, <2>8
      <3> HIDE DEF w, r, b
      <3>2. Leads(z, Resumed(w))
        BY <2>6, <3>1, LeadsOn DEF Paused
      <3>3. Len(w.deferred) < Len(b) /\ Len(b) < Len(z.todo)
        BY <1>2, <2>6, <3>1 DEF Paused, b
      <3>4. Len(w.deferred) \in Nat /\ Len(b) \in Nat /\ Len(z.todo) \in Nat
        BY <2>1, <3>1 DEF Paused, ScanStates, Fresh
      <3>5. Paused(z, w)
        BY <3>1, <3>2, <3>3, <3>4 DEF Paused
      <3> QED BY <1>2, <3>3, <3>5 DEF w, b
    <2> QED BY <2>5, <2>7, <2>8
  <1> QED BY <1>1, <1>2

\* What the passes make of a read: where the scan gets stuck decides.
LEMMA PassesSettle ==
    ASSUME NEW q \in Quiet, NEW in \in Seq(Bytes)
    PROVE  /\ Start(q, in) \in Fresh
           /\ Passes(q, in) = Settled(Start(q, in))
  <1> DEFINE z == Start(q, in)
             b == q.tail \o in
             n == Len(q.deferred) + Len(q.tail) + Len(in)
  <1>1. /\ q \in ScanStates /\ q.todo = <<>> /\ q.deferred = <<>> /\ q.tail \in Seq(Bytes)
        /\ b \in Seq(Bytes)
    BY DEF Quiet, ScanStates
  <1>2. n \in Nat /\ n = Len(b)
    BY <1>1
  <1> DEFINE y == [q EXCEPT !.tail = <<>>]
  <1>3. y \in ScanStates /\ y.tail = <<>> /\ y.deferred = <<>>
    BY <1>1 DEF ScanStates
  <1>4. z = [y EXCEPT !.todo = b] /\ z.todo = b
    BY <1>1 DEF Start, ScanStates
  <1>5. z \in Fresh
    <2> HIDE DEF y, b, z
    <2> QED BY <1>1, <1>3, <1>4 DEF Fresh, ScanStates
  <1>6. Filter(q, in) = Scan(y, b)
    BY <1>1 DEF Filter
  <1>7. Filter(q, in) = Settled(z) \/ Paused(z, Filter(q, in))
    <2> HIDE DEF y, b, z
    <2> QED BY <1>1, <1>3, <1>4, <1>6, ScanSettles
  <1> HIDE DEF z, y, b, n
  <1> DEFINE S == {x \in ScanStates : x = Settled(z) \/ Paused(z, x)}
             G == [i \in 1..n |-> [x \in S |-> NextPass(x)]]
             first == Filter(q, in)
             Loop(f) == f = [k \in 0..n |-> IF k = 0 THEN first ELSE NextPass(f[k - 1])]
  <1>8. Settled(z) \in S
    BY <1>5, SettledKeeps DEF Quiet
  <1>9. first \in S
    BY <1>7, <1>8 DEF Paused
  <1>10. \A x \in S : \/ NextPass(x) = Settled(z)
                     \/ /\ Paused(z, x) /\ Paused(z, NextPass(x))
                        /\ Len(NextPass(x).deferred) < Len(x.deferred)
    BY <1>5, NextPassSettles
  <1>11. G \in [1..n -> [S -> S]]
    <2>1. \A x \in S : NextPass(x) \in S
      BY <1>8, <1>10 DEF Paused
    <2> HIDE DEF S
    <2> QED BY <2>1
  <1>12. PICK f \in [0..n -> S] : IsRun(f, first, n, G)
    <2> HIDE DEF G, S, first
    <2> QED BY ONLY <1>2, <1>9, <1>11, LoopRuns
  <1>13. Loop(f)
    <2>1. ASSUME NEW i \in 1..n PROVE f[i] = NextPass(f[i - 1])
      <3>1. i - 1 \in 0..n
        BY <1>2
      <3> HIDE DEF S, first
      <3> QED BY <3>1, <1>12 DEF IsRun
    <2> HIDE DEF S, first
    <2> QED BY <2>1, <1>2, <1>12 DEF IsRun
  <1> DEFINE g == CHOOSE h : Loop(h)
  <1>14. Loop(g)
    <2> HIDE DEF Loop
    <2> QED BY <1>13
  <1>15. Passes(q, in) = g[n]
    BY DEF Passes, n
  <1> HIDE DEF g
  <1>16. g[0] = first /\ \A i \in 1..n : g[i] = NextPass(g[i - 1])
    <2> HIDE DEF first
    <2> QED BY <1>2, <1>14
  <1> DEFINE On(i) == g[i] = Settled(z) \/ (Paused(z, g[i]) /\ Len(g[i].deferred) < n - i)
             P == {i \in 0..n : On(i)}
  <1>17. 0 \in P
    <2>1. Len(z.todo) = n
      BY <1>2, <1>4
    <2> HIDE DEF first
    <2>2. Paused(z, first) => Len(first.deferred) < n - 0
      BY <1>2, <2>1 DEF Paused
    <2> QED BY <1>2, <1>7, <1>16, <2>2 DEF first
  <1>18. ASSUME NEW i \in 1..n, i - 1 \in P PROVE i \in P
    <2>1. i \in 0..n /\ i \in Nat /\ g[i] = NextPass(g[i - 1])
      BY <1>2, <1>16
    <2>2. g[i - 1] = Settled(z) \/ (Paused(z, g[i - 1]) /\ Len(g[i - 1].deferred) < n - (i - 1))
      BY <1>18
    <2>3. g[i - 1] \in S
      BY <2>2, <1>8 DEF Paused
    <2>4. CASE g[i] = Settled(z)
      BY <2>1, <2>4
    <2>5. CASE /\ Paused(z, g[i - 1]) /\ Paused(z, g[i])
               /\ Len(g[i].deferred) < Len(g[i - 1].deferred)
      <3>1. Len(g[i].deferred) \in Nat /\ Len(g[i - 1].deferred) \in Nat
        BY <2>5 DEF Paused, ScanStates
      <3>2. Len(g[i - 1].deferred) < n - (i - 1)
        <4>1. Settled(z).deferred = <<>> /\ g[i - 1].deferred # <<>>
          BY <1>5, <2>5, SettledKeeps DEF Paused, Quiet
        <4> QED BY <2>2, <4>1
      <3>3. Len(g[i].deferred) < n - i
        BY <1>2, <2>1, <2>5, <3>1, <3>2
      <3> QED BY <2>1, <2>5, <3>3
    <2> QED
      <3> HIDE DEF S, P
      <3> QED BY <1>10, <2>1, <2>3, <2>4, <2>5
  <1>19. g[n] = Settled(z)
    <2>1. \A i \in 0..n : i \in P
      <3> HIDE DEF P
      <3> QED BY <1>2, <1>17, <1>18, Climb
    <2>2. n \in 0..n
      BY <1>2
    <2>3. On(n)
      BY <2>1, <2>2
    <2>4. ~(Paused(z, g[n]) /\ Len(g[n].deferred) < n - n)
      <3>1. Paused(z, g[n]) => Len(g[n].deferred) \in Nat
        BY DEF Paused, ScanStates
      <3> QED BY <1>2, <3>1
    <2> QED BY <2>3, <2>4
  <1> QED BY <1>5, <1>15, <1>19 DEF z
-------------------------------------------------------------------------------
(* AnsiScan: every cut of every stream. *)

\* Two reads make of the bytes what one makes of both, if nothing was oversized.
LEMMA ReadsJoin ==
    ASSUME NEW q \in Quiet, NEW a \in Seq(Bytes), NEW b \in Seq(Bytes)
    PROVE  /\ Passes(q, a) \in Quiet
           /\ q.diag => Passes(q, a).diag
           /\ ~Passes(q, a).diag => Passes(Passes(q, a), b) = Passes(q, a \o b)
  <1> DEFINE z == Start(q, a)
             p == Passes(q, a)
  <1>1. z \in Fresh /\ p = Settled(z) /\ p \in Quiet
    BY PassesSettle, SettledKeeps
  <1>2. q \in ScanStates /\ q.tail \in Seq(Bytes) /\ z \in ScanStates
    BY <1>1 DEF Quiet, Fresh, ScanStates
  <1>3. q.diag => p.diag
    <2>1. z.diag = q.diag
      BY <1>2 DEF Start, ScanStates
    <2> HIDE DEF z, p
    <2> QED BY <1>1, <2>1, SettledKeeps
  <1>4. ASSUME ~p.diag PROVE Passes(p, b) = Passes(q, a \o b)
    <2>1. Start(p, b) = With(End(z), b)
      <3>1. ~Settled(z).diag
        BY <1>1, <1>4
      <3>2. [Settled(z) EXCEPT !.tail = <<>>, !.todo = Settled(z).tail \o b] = With(End(z), b)
        <4> HIDE DEF z
        <4> QED BY <1>1, <3>1, SettledKeeps
      <3> QED BY <1>1, <3>2 DEF Start
    <2>2. End(Start(p, b)) = End(With(z, b))
      <3> HIDE DEF z, p
      <3> QED BY <1>2, <2>1, EndWith
    <2>3. With(z, b) = Start(q, a \o b)
      <3>1. (q.tail \o a) \o b = q.tail \o (a \o b)
        <4>1. PICK t \in Seq(Bytes) : t = q.tail
          BY <1>2
        <4>2. Regroups(t, a, b)
          BY ONLY t \in Seq(Bytes), a \in Seq(Bytes), b \in Seq(Bytes), ConcatRegroups
        <4> QED BY <4>1, <4>2 DEF Regroups
      <3> DEFINE c == q.tail \o a
                 d == q.tail \o (a \o b)
      <3>2. z = [q EXCEPT !.tail = <<>>, !.todo = c] /\ Start(q, a \o b)
                = [q EXCEPT !.tail = <<>>, !.todo = d] /\ c \o b = d
        BY <3>1 DEF Start
      <3> HIDE DEF c, d, z
      <3> QED BY <1>2, <3>2 DEF With, ScanStates
    <2>4. Passes(p, b) = Settled(Start(p, b))
      <3> HIDE DEF p
      <3> QED BY <1>1, PassesSettle
    <2>5. Passes(q, a \o b) = Settled(Start(q, a \o b))
      <3>1. a \o b \in Seq(Bytes)
        BY ConcatProperties
      <3> QED BY <3>1, PassesSettle
    <2> HIDE DEF z, p
    <2> QED BY <2>2, <2>3, <2>4, <2>5 DEF Settled
  <1> QED BY <1>1, <1>3, <1>4

\* Nothing has been read.
LEMMA NothingIsRead == NoState \in Quiet /\ Passes(NoState, <<>>) = NoState
  <1>1. <<>> \in Seq(Bytes) /\ <<>> \in Seq(Seq(Bytes))
    OBVIOUS
  <1>2. NoState \in ScanStates /\ NoState \in Quiet /\ NoState \in Fresh /\ NoState.todo = <<>>
    BY <1>1 DEF NoState, ScanStates, Quiet, Fresh
  <1>3. Start(NoState, <<>>) = NoState
    <2>1. <<>> \o <<>> = <<>>
      BY <1>1, ConcatEmptySeq
    <2>2. NoState.tail = <<>> /\ NoState.todo = <<>>
      BY DEF NoState
    <2> DEFINE t == NoState.tail \o <<>>
    <2>3. t = <<>>
      BY <2>1, <2>2
    <2> HIDE DEF t
    <2>4. [NoState EXCEPT !.tail = <<>>, !.todo = t] = NoState
      BY <1>2, <2>2, <2>3 DEF ScanStates
    <2> QED BY <2>4 DEF Start, t
  <1>4. Settled(NoState) = NoState
    <2>1. End(NoState) = NoState
      BY <1>2, EndOf DEF Stuck
    <2>2. ScanNext(NoState) = NoState
      BY <1>2, ScanNextDoes
    <2> QED BY <2>1, <2>2 DEF Settled
  <1> QED BY <1>1, <1>2, <1>3, <1>4, PassesSettle

\* The reads, one by one.
LEMMA ReadsRun ==
    ASSUME NEW chunks \in Seq(Seq(Bytes))
    PROVE  \E r : /\ r[0] = NoState
                  /\ \A i \in 1..Len(chunks) : r[i] = Passes(r[i - 1], chunks[i])
                  /\ Reads(chunks) = r[Len(chunks)]
  <1> DEFINE n == Len(chunks)
             S == Quiet
             G == [i \in 1..n |-> [q \in S |-> Passes(q, chunks[i])]]
             Loop(f) == f = [k \in 0..n |-> IF k = 0 THEN NoState
                                            ELSE Passes(f[k - 1], chunks[k])]
  <1>1. n \in Nat /\ \A i \in 1..n : chunks[i] \in Seq(Bytes)
    OBVIOUS
  <1>2. NoState \in S
    BY NothingIsRead
  <1>3. G \in [1..n -> [S -> S]]
    <2>1. ASSUME NEW i \in 1..n, NEW q \in S PROVE Passes(q, chunks[i]) \in S
      <3>1. chunks[i] \in Seq(Bytes)
        BY <1>1
      <3> QED BY <3>1, ReadsJoin
    <2> HIDE DEF S, n
    <2> QED BY <2>1
  <1>4. PICK f \in [0..n -> S] : IsRun(f, NoState, n, G)
    <2> HIDE DEF G, n, S
    <2> QED BY ONLY <1>1, <1>2, <1>3, LoopRuns
  <1>5. Loop(f)
    <2>1. ASSUME NEW i \in 1..n PROVE f[i] = Passes(f[i - 1], chunks[i])
      <3>1. i - 1 \in 0..n
        BY <1>1
      <3> HIDE DEF n
      <3> QED BY <3>1, <1>4 DEF IsRun
    <2> HIDE DEF n
    <2> QED BY <2>1, <1>1, <1>4 DEF IsRun
  <1> DEFINE g == CHOOSE h : Loop(h)
  <1>6. Loop(g)
    <2> HIDE DEF Loop
    <2> QED BY <1>5
  <1>7. Reads(chunks) = g[n]
    BY DEF Reads
  <1> HIDE DEF g, n
  <1>8. g[0] = NoState /\ \A i \in 1..n : g[i] = Passes(g[i - 1], chunks[i])
    BY <1>1, <1>6
  <1> QED BY <1>7, <1>8 DEF n

\* Two reads.
LEMMA TwoReads ==
    ASSUME NEW a \in Seq(Bytes), NEW b \in Seq(Bytes)
    PROVE  Reads(<<a, b>>) = Passes(Passes(NoState, a), b)
  <1> DEFINE c == <<a, b>>
  <1>1. c \in Seq(Seq(Bytes)) /\ Len(c) = 2 /\ c[1] = a /\ c[2] = b
    OBVIOUS
  <1> HIDE DEF c
  <1>2. PICK r : /\ r[0] = NoState
                 /\ \A i \in 1..Len(c) : r[i] = Passes(r[i - 1], c[i])
                 /\ Reads(c) = r[Len(c)]
    BY <1>1, ReadsRun
  <1>3. r[1] = Passes(r[1 - 1], c[1]) /\ r[2] = Passes(r[2 - 1], c[2]) /\ 1 - 1 = 0 /\ 2 - 1 = 1
    BY <1>1, <1>2
  <1> QED BY <1>1, <1>2, <1>3 DEF c

\* Byte after byte, every stream is what one read would have made of it.
LEMMA CutsAreLevel ==
    ASSUME NEW s \in Seq(Bytes)
    PROVE  CutsDoNotMatter(s)
  <1> DEFINE chunks == [i \in DOMAIN s |-> <<s[i]>>]
             n == Len(s)
             Before(i) == SubSeq(s, 1, i)
  <1>1. n \in Nat /\ (\A i \in 1..n : s[i] \in Bytes) /\ DOMAIN s = 1..n
    OBVIOUS
  <1>2. \A i \in 1..n : <<s[i]>> \in Seq(Bytes)
    <2>1. ASSUME NEW i \in 1..n PROVE <<s[i]>> \in Seq(Bytes)
      <3>1. PICK e \in Bytes : e = s[i]
        BY <1>1
      <3>2. <<e>> \in Seq(Bytes)
        OBVIOUS
      <3> QED BY <3>1, <3>2
    <2> QED BY <2>1
  <1>3. /\ chunks \in Seq(Seq(Bytes)) /\ Len(chunks) = n
        /\ \A i \in 1..n : chunks[i] = <<s[i]>>
    <2> DEFINE d == [i \in 1..n |-> <<s[i]>>]
    <2>1. d \in [1..n -> Seq(Bytes)] /\ chunks = d
      BY <1>1, <1>2
    <2>2. d \in Seq(Seq(Bytes)) /\ Len(d) = n
      <3> HIDE DEF d
      <3>1. d \in Seq(Seq(Bytes))
        BY <1>1, <2>1, SeqDef
      <3> QED BY <3>1, <1>1, <2>1
    <2> QED BY <2>1, <2>2
  <1>4. PICK r : /\ r[0] = NoState
                 /\ \A i \in 1..n : r[i] = Passes(r[i - 1], chunks[i])
                 /\ Bytewise(s) = r[n]
    <2> HIDE DEF chunks, n
    <2> QED BY <1>3, ReadsRun DEF Bytewise, chunks
  <1> HIDE DEF chunks, n
  <1>5. \A i \in 0..n : Before(i) \in Seq(Bytes)
    BY <1>1, SubSeqProperties DEF n
  <1>6. \A i \in 0..n : r[i] \in Quiet
    <2> DEFINE P == {i \in 0..n : r[i] \in Quiet}
    <2>1. 0 \in P
      BY <1>1, <1>4, NothingIsRead
    <2>2. ASSUME NEW i \in 1..n, i - 1 \in P PROVE i \in P
      <3>1. chunks[i] \in Seq(Bytes) /\ r[i - 1] \in Quiet /\ r[i] = Passes(r[i - 1], chunks[i])
        BY <1>2, <1>3, <1>4, <2>2
      <3>2. Passes(r[i - 1], chunks[i]) \in Quiet
        BY <3>1, ReadsJoin
      <3> QED BY <3>1, <3>2
    <2>3. \A i \in 0..n : i \in P
      <3> HIDE DEF P
      <3> QED BY <1>1, <2>1, <2>2, Climb
    <2> QED BY <2>3
  <1>7. SUFFICES ASSUME ~r[n].diag, NEW k \in 0..n PROVE CutAt(s, k) = r[n]
    BY <1>4 DEF CutsDoNotMatter, n
  <1>8. \A i \in 0..n : ~r[i].diag
    <2> DEFINE P == {i \in 0..n : ~r[n - i].diag}
    <2>1. 0 \in P
      BY <1>1, <1>7
    <2>2. ASSUME NEW i \in 1..n, i - 1 \in P PROVE i \in P
      <3> DEFINE j == n - i
      <3>1. j \in 0..n /\ j + 1 \in 1..n /\ n - (i - 1) = j + 1 /\ (j + 1) - 1 = j
        BY <1>1
      <3> HIDE DEF j
      <3>2. ~r[j + 1].diag
        BY <2>2, <3>1
      <3>3. r[j + 1] = Passes(r[j], chunks[j + 1]) /\ chunks[j + 1] \in Seq(Bytes)
        BY <1>2, <1>3, <1>4, <3>1
      <3>4. ~r[j].diag
        BY <1>6, <3>1, <3>2, <3>3, ReadsJoin
      <3> QED BY <3>4 DEF j
    <2>3. \A i \in 0..n : i \in P
      <3> HIDE DEF P
      <3> QED BY <1>1, <2>1, <2>2, Climb
    <2>4. ASSUME NEW i \in 0..n PROVE ~r[i].diag
      <3>1. n - i \in 0..n /\ n - (n - i) = i
        BY <1>1
      <3>2. n - i \in P
        BY <2>3, <3>1
      <3> QED BY <3>1, <3>2
    <2> QED BY <2>4
  <1>9. \A i \in 0..n : r[i] = Passes(NoState, Before(i))
    <2> DEFINE P == {i \in 0..n : r[i] = Passes(NoState, Before(i))}
    <2>1. 0 \in P
      <3>1. Before(0) = <<>>
        OBVIOUS
      <3>2. r[0] = Passes(NoState, Before(0))
        BY <1>4, <3>1, NothingIsRead
      <3>3. 0 \in 0..n
        BY <1>1
      <3> QED BY <3>2, <3>3
    <2>2. ASSUME NEW i \in 1..n, i - 1 \in P PROVE i \in P
      <3>1. Before(i - 1) \in Seq(Bytes) /\ <<s[i]>> \in Seq(Bytes)
        BY <1>1, <1>2, <1>5
      <3>2. Before(i) = Before(i - 1) \o <<s[i]>>
        <4>1. Before(i) = Append(Before(i - 1), s[i])
          BY <1>1 DEF n
        <4> QED BY <4>1, <3>1, <1>1, AppendIsConcat
      <3>3. r[i - 1] = Passes(NoState, Before(i - 1)) /\ ~r[i - 1].diag
        BY <1>1, <1>8, <2>2
      <3>4. r[i] = Passes(r[i - 1], <<s[i]>>)
        BY <1>3, <1>4
      <3> HIDE DEF Before
      <3>5. r[i] = Passes(NoState, Before(i))
        <4> DEFINE p == Before(i - 1)
                   e == <<s[i]>>
        <4>1. p \in Seq(Bytes) /\ e \in Seq(Bytes) /\ ~Passes(NoState, p).diag
          BY <3>1, <3>3
        <4> HIDE DEF p, e
        <4>2. Passes(Passes(NoState, p), e) = Passes(NoState, p \o e)
          BY <4>1, NothingIsRead, ReadsJoin
        <4> QED BY <4>2, <3>2, <3>3, <3>4 DEF p, e
      <3> QED BY <3>5
    <2>3. \A i \in 0..n : i \in P
      <3> HIDE DEF P
      <3> QED BY <1>1, <2>1, <2>2, Climb
    <2> QED BY <2>3
  <1>10. r[n] = Passes(NoState, s)
    <2>1. Before(n) = s
      BY SubSeqFull DEF n
    <2>2. n \in 0..n
      BY <1>1
    <2> HIDE DEF Before
    <2> QED BY <1>9, <2>1, <2>2
  <1> DEFINE a == Before(k)
             b == From(s, k + 1)
  <1>11. a \in Seq(Bytes) /\ b \in Seq(Bytes) /\ a \o b = s
    <2>1. a \in Seq(Bytes)
      BY <1>5
    <2>2. b \in Seq(Bytes)
      BY <1>1, SubSeqProperties DEF From, n
    <2>3. 1 \in 1..n + 1 /\ k \in 1 - 1..n /\ n \in k..n
      BY <1>1
    <2>4. SubSeq(s, 1, k) \o SubSeq(s, k + 1, n) = SubSeq(s, 1, n)
      BY <2>3, ConcatAdjacentSubSeq DEF n
    <2>5. SubSeq(s, 1, n) = s
      BY SubSeqFull DEF n
    <2> QED BY <2>1, <2>2, <2>4, <2>5 DEF From, n
  <1>12. CutAt(s, k) = Passes(Passes(NoState, a), b)
    <2>1. CutAt(s, k) = Reads(<<a, b>>)
      BY DEF CutAt
    <2> HIDE DEF a, b
    <2> QED BY <2>1, <1>11, TwoReads
  <1>13. r[k] = Passes(NoState, a) /\ ~r[k].diag
    BY <1>8, <1>9
  <1> HIDE DEF a, b
  <1> QED BY <1>10, <1>11, <1>12, <1>13, NothingIsRead, ReadsJoin

\* Where the reads end makes no difference to what Filter and the passes of the
\* event loop make of the child's output.
THEOREM CutsAreHarmless == MCSpec => []CutsNeverMatter
  <1>1. MCInit => stream \in Seq(Bytes)
    BY DEF MCInit
  <1>2. stream \in Seq(Bytes) /\ [MCNext]_<<subject, inputs, histories>>
            => (stream \in Seq(Bytes))'
    <2>1. ASSUME stream \in Seq(Bytes), ReadByte PROVE stream' \in Seq(Bytes)
      BY <2>1, AppendProperties DEF ReadByte
    <2>2. MCNext => ReadByte \/ UNCHANGED stream
      BY DEF MCNext, Write, Configure, AddBlock, Animate, Track, inputs
    <2> QED BY <2>1, <2>2 DEF inputs
  <1>3. stream \in Seq(Bytes) => CutsNeverMatter
    BY CutsAreLevel DEF CutsNeverMatter
  <1> QED BY <1>1, <1>2, <1>3, PTL DEF MCSpec
-------------------------------------------------------------------------------
(* AnsiScan: the terminal. *)

\* Two loops that start alike and go on alike ...
Alike(n, f, g) == f[0] = g[0] /\ \A i \in 1..n : f[i - 1] = g[i - 1] => f[i] = g[i]

\* ... are alike.
LEMMA RunsAgree ==
    ASSUME NEW n \in Nat, NEW f, NEW g, Alike(n, f, g)
    PROVE  \A i \in 0..n : f[i] = g[i]
  <1> DEFINE P == {i \in 0..n : f[i] = g[i]}
  <1>1. 0 \in P
    BY DEF Alike
  <1>2. \A i \in 1..n : i - 1 \in P => i \in P
    BY DEF Alike
  <1>3. \A i \in 0..n : i \in P
    <2> HIDE DEF P
    <2> QED BY <1>1, <1>2, Climb
  <1> QED BY <1>3

\* A sequence, and what it was before its last element.
LEMMA BeforeAppend ==
    ASSUME NEW T, NEW t \in Seq(T), NEW c \in T
    PROVE  /\ Append(t, c) \in Seq(T) /\ Len(Append(t, c)) = Len(t) + 1 /\ Len(t) \in Nat
           /\ \A i \in 1..Len(t) : Append(t, c)[i] = t[i]
           /\ Append(t, c)[Len(t) + 1] = c
           /\ \A i \in 0..Len(t) : SubSeq(Append(t, c), 1, i) = SubSeq(t, 1, i)
           /\ SubSeq(t, 1, Len(t)) = t
  <1>1. /\ Append(t, c) \in Seq(T) /\ Len(Append(t, c)) = Len(t) + 1 /\ Len(t) \in Nat
        /\ \A i \in 1..Len(t) : Append(t, c)[i] = t[i]
        /\ Append(t, c)[Len(t) + 1] = c
    BY AppendProperties, LenProperties
  <1>2. SubSeq(t, 1, Len(t)) = t
    BY SubSeqFull
  <1>3. ASSUME NEW i \in 0..Len(t) PROVE SubSeq(Append(t, c), 1, i) = SubSeq(t, 1, i)
    <2>1. CASE i = 0
      BY <2>1, SubSeqEmpty
    <2>2. CASE i # 0
      <3>1. 1 \in 1..Len(t) /\ i \in 1..Len(t) /\ <<c>> \in Seq(T)
        BY <2>2, <1>1
      <3>2. Append(t, c) = t \o <<c>>
        BY AppendIsConcat
      <3> QED BY <3>1, <3>2, SubSeqOfConcat1
    <2> QED BY <2>1, <2>2
  <1> QED BY <1>1, <1>2, <1>3

\* The states of the terminal.
TerminalModes == {"ground", "esc", "inter", "csi", "string", "stringEsc"}
TerminalStates == [frames : Seq(Seq(Bytes)), mode : TerminalModes, seq : Seq(Bytes)]
AtGround == [frames |-> <<>>, mode |-> "ground", seq |-> <<>>]

\* What a byte makes of a state is one.
LEMMA TerminalStateType ==
    ASSUME NEW vt \in TerminalStates, NEW c \in Bytes
    PROVE  Terminal(vt, c) \in TerminalStates
  <1>1. vt.frames \in Seq(Seq(Bytes)) /\ vt.seq \in Seq(Bytes) /\ vt.mode \in TerminalModes
    BY DEF TerminalStates
  <1>2. <<c>> \in Seq(Bytes) /\ <<>> \in Seq(Bytes) /\ <<"ESC">> \in Seq(Bytes)
    <2>1. "ESC" \in Bytes
      BY DEF Bytes
    <2> QED BY <2>1
  <1>3. Append(vt.seq, c) \in Seq(Bytes)
    BY <1>1, AppendProperties
  <1>4. ASSUME NEW w \in TerminalStates, NEW s \in Seq(Bytes) PROVE Done(w, s) \in TerminalStates
    <2>1. Append(w.frames, s) \in Seq(Seq(Bytes))
      BY AppendProperties DEF TerminalStates
    <2> QED BY <2>1, <1>2 DEF Done, TerminalStates, TerminalModes
  <1>5. ASSUME NEW w \in TerminalStates, NEW m \in TerminalModes
        PROVE  Stay(w, m, c) \in TerminalStates
    <2>1. Append(w.seq, c) \in Seq(Bytes)
      BY AppendProperties DEF TerminalStates
    <2> DEFINE s == Append(w.seq, c)
    <2>2. Stay(w, m, c) = [w EXCEPT !.mode = m, !.seq = s]
      BY DEF Stay
    <2> HIDE DEF s
    <2>3. s \in Seq(Bytes)
      BY <2>1 DEF s
    <2> QED BY <2>2, <2>3 DEF TerminalStates
  <1>6. ASSUME NEW w \in TerminalStates PROVE AfterEsc(w, c) \in TerminalStates
    <2>1. [w EXCEPT !.mode = "esc", !.seq = <<"ESC">>] \in TerminalStates
      BY <1>2 DEF TerminalStates, TerminalModes
    <2>2. Append(w.seq, c) \in Seq(Bytes)
      BY AppendProperties DEF TerminalStates
    <2>3. {"csi", "string", "inter"} \subseteq TerminalModes
      BY DEF TerminalModes
    <2>4. /\ Stay(w, "csi", c) \in TerminalStates /\ Stay(w, "string", c) \in TerminalStates
          /\ Stay(w, "inter", c) \in TerminalStates
          /\ Done(w, Append(w.seq, c)) \in TerminalStates
      BY <1>4, <1>5, <2>2, <2>3
    <2> QED BY <2>1, <2>4 DEF AfterEsc
  <1>7. [frames |-> Append(vt.frames, Front(vt.seq)), mode |-> "esc", seq |-> <<"ESC">>]
            \in TerminalStates
    <2>1. Front(vt.seq) \in Seq(Bytes)
      <3>1. PICK l \in Nat : l = Len(vt.seq)
        BY <1>1, LenProperties
      <3>2. \A i \in 1..l - 1 : vt.seq[i] \in Bytes
        BY <1>1, <3>1, ElementOfSeq
      <3>3. SubSeq(vt.seq, 1, l - 1) \in Seq(Bytes)
        BY <3>1, <3>2, SubSeqProperties
      <3> QED BY <3>1, <3>3 DEF Front
    <2>2. Append(vt.frames, Front(vt.seq)) \in Seq(Seq(Bytes))
      BY <1>1, <2>1, AppendProperties
    <2> QED BY <1>2, <2>2 DEF TerminalStates, TerminalModes
  <1>8. /\ Done(vt, <<c>>) \in TerminalStates /\ Done(vt, Append(vt.seq, c)) \in TerminalStates
        /\ \A m \in TerminalModes : Stay(vt, m, c) \in TerminalStates
        /\ AfterEsc(vt, c) \in TerminalStates
        /\ AfterEsc([frames |-> Append(vt.frames, Front(vt.seq)), mode |-> "esc",
                     seq |-> <<"ESC">>], c) \in TerminalStates
    BY <1>2, <1>3, <1>4, <1>5, <1>6, <1>7
  <1>9. {"esc", "inter", "csi", "string", "stringEsc"} \subseteq TerminalModes
    BY DEF TerminalModes
  <1>10. CASE vt.mode = "ground"
    BY <1>8, <1>9, <1>10 DEF Terminal
  <1>11. CASE vt.mode = "esc"
    BY <1>8, <1>11 DEF Terminal
  <1>12. CASE vt.mode = "inter"
    BY <1>8, <1>9, <1>12 DEF Terminal
  <1>13. CASE vt.mode = "csi"
    BY <1>8, <1>9, <1>13 DEF Terminal
  <1>14. CASE vt.mode = "string"
    BY <1>8, <1>9, <1>14 DEF Terminal
  <1>15. CASE vt.mode = "stringEsc"
    BY <1>8, <1>15 DEF Terminal
  <1> QED BY <1>1, <1>10, <1>11, <1>12, <1>13, <1>14, <1>15 DEF TerminalModes

\* The terminal, byte by byte.
LEMMA ExecutedRuns ==
    ASSUME NEW s \in Seq(Bytes)
    PROVE  \E e : /\ e[0] = AtGround
                  /\ \A i \in 1..Len(s) : e[i] = Terminal(e[i - 1], s[i])
                  /\ \A i \in 0..Len(s) : e[i] \in TerminalStates
                  /\ Executed(s) = e[Len(s)]
  <1> DEFINE n == Len(s)
             S == TerminalStates
             G == [i \in 1..n |-> [x \in S |-> Terminal(x, s[i])]]
             Loop(f) == f = [i \in 0..n |-> IF i = 0 THEN AtGround
                                            ELSE Terminal(f[i - 1], s[i])]
  <1>1. n \in Nat /\ \A i \in 1..n : s[i] \in Bytes
    OBVIOUS
  <1>2. AtGround \in S
    <2>1. <<>> \in Seq(Bytes) /\ <<>> \in Seq(Seq(Bytes))
      OBVIOUS
    <2> QED BY <2>1 DEF AtGround, TerminalStates, TerminalModes
  <1>3. G \in [1..n -> [S -> S]]
    <2> HIDE DEF S, n
    <2>1. ASSUME NEW i \in 1..n, NEW x \in S PROVE Terminal(x, s[i]) \in S
      BY <1>1, TerminalStateType DEF S
    <2> QED BY <2>1
  <1>4. PICK f \in [0..n -> S] : IsRun(f, AtGround, n, G)
    <2> HIDE DEF G, n, S
    <2> QED BY ONLY <1>1, <1>2, <1>3, LoopRuns
  <1>5. Loop(f)
    <2>1. ASSUME NEW i \in 1..n PROVE f[i] = Terminal(f[i - 1], s[i])
      <3>1. i - 1 \in 0..n
        BY <1>1
      <3> HIDE DEF n
      <3> QED BY <3>1, <1>4 DEF IsRun
    <2> HIDE DEF n
    <2> QED BY <2>1, <1>1, <1>4 DEF IsRun
  <1> DEFINE g == CHOOSE h : Loop(h)
  <1>6. Loop(g)
    <2> HIDE DEF Loop
    <2> QED BY <1>5
  <1>7. Executed(s) = g[n]
    BY DEF Executed, AtGround
  <1> HIDE DEF g, n
  <1>8. g[0] = AtGround /\ \A i \in 1..n : g[i] = Terminal(g[i - 1], s[i])
    BY <1>1, <1>6
  <1>9. f[0] = AtGround /\ \A i \in 1..n : f[i] = Terminal(f[i - 1], s[i])
    <2> HIDE DEF g
    <2> QED BY <1>1, <1>5
  <1>10. \A i \in 0..n : f[i] = g[i]
    <2>1. Alike(n, f, g)
      BY ONLY <1>8, <1>9 DEF Alike
    <2> QED BY ONLY <1>1, <2>1, RunsAgree
  <1>11. \A i \in 0..n : g[i] \in TerminalStates
    BY <1>4, <1>10
  <1> QED BY <1>7, <1>8, <1>11 DEF n

\* Nothing is executed of nothing; one byte more is one step more.
LEMMA ExecutedOn ==
    /\ Executed(<<>>) = AtGround
    /\ \A t \in Seq(Bytes) : Executed(t) \in TerminalStates
    /\ \A t \in Seq(Bytes), c \in Bytes : Executed(Append(t, c)) = Terminal(Executed(t), c)
  <1>1. Executed(<<>>) = AtGround
    <2>1. <<>> \in Seq(Bytes) /\ Len(<<>>) = 0
      OBVIOUS
    <2> QED BY <2>1, ExecutedRuns
  <1>2. ASSUME NEW t \in Seq(Bytes) PROVE Executed(t) \in TerminalStates
    <2>1. Len(t) \in 0..Len(t)
      OBVIOUS
    <2> QED BY <2>1, ExecutedRuns
  <1>3. ASSUME NEW t \in Seq(Bytes), NEW c \in Bytes
        PROVE  Executed(Append(t, c)) = Terminal(Executed(t), c)
    <2>1. PICK s : s = Append(t, c)
      OBVIOUS
    <2>2. /\ s \in Seq(Bytes) /\ Len(s) = Len(t) + 1 /\ Len(t) \in Nat /\ s[Len(t) + 1] = c
          /\ \A i \in 1..Len(t) : s[i] = t[i]
      BY <2>1, BeforeAppend
    <2>3. PICK e : /\ e[0] = AtGround
                   /\ \A i \in 1..Len(s) : e[i] = Terminal(e[i - 1], s[i])
                   /\ Executed(s) = e[Len(s)]
      BY <2>2, ExecutedRuns
    <2>4. PICK d : /\ d[0] = AtGround
                   /\ \A i \in 1..Len(t) : d[i] = Terminal(d[i - 1], t[i])
                   /\ Executed(t) = d[Len(t)]
      BY ExecutedRuns
    <2>5. PICK l \in Nat : l = Len(t)
      BY <2>2
    <2>6. \A i \in 1..l : d[i - 1] = e[i - 1] => d[i] = e[i]
      BY <2>2, <2>3, <2>4, <2>5
    <2>7. \A i \in 0..l : d[i] = e[i]
      <3>1. Alike(l, d, e)
        BY <2>3, <2>4, <2>6 DEF Alike
      <3> QED BY ONLY <2>5, <3>1, RunsAgree
    <2>8. e[l + 1] = Terminal(e[l], c) /\ e[l] = d[l]
      <3>1. l + 1 \in 1..Len(s) /\ (l + 1) - 1 = l /\ l \in 0..l
        BY <2>2, <2>5
      <3> QED BY <2>2, <2>3, <2>5, <2>7, <3>1
    <2> QED BY <2>1, <2>2, <2>3, <2>4, <2>5, <2>8
  <1> QED BY <1>1, <1>2, <1>3
\* The reads of a stream, byte by byte.
LEMMA BytewiseRuns ==
    ASSUME NEW s \in Seq(Bytes)
    PROVE  \E r : /\ r[0] = NoState
                  /\ \A i \in 1..Len(s) : r[i] = Passes(r[i - 1], <<s[i]>>)
                  /\ \A i \in 0..Len(s) : r[i] \in Quiet
                  /\ Bytewise(s) = r[Len(s)]
  <1> DEFINE n == Len(s)
             chunks == [i \in 1..n |-> <<s[i]>>]
  <1>1. n \in Nat /\ (\A i \in 1..n : s[i] \in Bytes) /\ DOMAIN s = 1..n
    OBVIOUS
  <1>2. \A i \in 1..n : <<s[i]>> \in Seq(Bytes)
    <2>1. ASSUME NEW i \in 1..n PROVE <<s[i]>> \in Seq(Bytes)
      <3>1. PICK e \in Bytes : e = s[i]
        BY <1>1
      <3>2. <<e>> \in Seq(Bytes)
        OBVIOUS
      <3> QED BY <3>1, <3>2
    <2> QED BY <2>1
  <1>3. /\ chunks \in Seq(Seq(Bytes)) /\ Len(chunks) = n
        /\ \A i \in 1..n : chunks[i] = <<s[i]>>
    <2>1. chunks \in [1..n -> Seq(Bytes)] /\ \A i \in 1..n : chunks[i] = <<s[i]>>
      BY <1>2
    <2>2. chunks \in Seq(Seq(Bytes)) /\ Len(chunks) = n
      <3> HIDE DEF chunks
      <3>1. chunks \in Seq(Seq(Bytes))
        BY <1>1, <2>1, SeqDef
      <3> QED BY <3>1, <1>1, <2>1
    <2> QED BY <2>1, <2>2
  <1>4. Bytewise(s) = Reads(chunks)
    BY <1>1 DEF Bytewise
  <1> HIDE DEF chunks, n
  <1>5. PICK r : /\ r[0] = NoState
                 /\ \A i \in 1..n : r[i] = Passes(r[i - 1], chunks[i])
                 /\ Bytewise(s) = r[n]
    BY <1>3, <1>4, ReadsRun
  <1>6. \A i \in 1..n : r[i] = Passes(r[i - 1], <<s[i]>>)
    BY <1>3, <1>5
  <1>7. \A i \in 0..n : r[i] \in Quiet
    <2> DEFINE P == {i \in 0..n : r[i] \in Quiet}
    <2>1. 0 \in P
      BY <1>1, <1>5, NothingIsRead
    <2>2. ASSUME NEW i \in 1..n, i - 1 \in P PROVE i \in P
      <3>1. r[i - 1] \in Quiet /\ r[i] = Passes(r[i - 1], <<s[i]>>) /\ <<s[i]>> \in Seq(Bytes)
        BY <1>2, <1>6, <2>2
      <3>2. Passes(r[i - 1], <<s[i]>>) \in Quiet
        BY <3>1, ReadsJoin
      <3>3. i \in 0..n
        BY <1>1
      <3> QED BY <3>1, <3>2, <3>3
    <2>3. \A i \in 0..n : i \in P
      <3> HIDE DEF P
      <3> QED BY <1>1, <2>1, <2>2, Climb
    <2> QED BY <2>3
  <1> QED BY <1>5, <1>6, <1>7 DEF n

\* Nothing is read of nothing; one byte more is one read more.
LEMMA BytewiseOn ==
    /\ Bytewise(<<>>) = NoState
    /\ \A t \in Seq(Bytes) : Bytewise(t) \in Quiet
    /\ \A t \in Seq(Bytes), c \in Bytes : Bytewise(Append(t, c)) = Passes(Bytewise(t), <<c>>)
  <1>1. Bytewise(<<>>) = NoState
    <2>1. <<>> \in Seq(Bytes) /\ Len(<<>>) = 0
      OBVIOUS
    <2> QED BY <2>1, BytewiseRuns
  <1>2. ASSUME NEW t \in Seq(Bytes) PROVE Bytewise(t) \in Quiet
    <2>1. Len(t) \in 0..Len(t)
      OBVIOUS
    <2> QED BY <2>1, BytewiseRuns
  <1>3. ASSUME NEW t \in Seq(Bytes), NEW c \in Bytes
        PROVE  Bytewise(Append(t, c)) = Passes(Bytewise(t), <<c>>)
    <2>1. PICK s : s = Append(t, c)
      OBVIOUS
    <2>2. /\ s \in Seq(Bytes) /\ Len(s) = Len(t) + 1 /\ Len(t) \in Nat /\ s[Len(t) + 1] = c
          /\ \A i \in 1..Len(t) : s[i] = t[i]
      BY <2>1, BeforeAppend
    <2>3. PICK e : /\ e[0] = NoState
                   /\ \A i \in 1..Len(s) : e[i] = Passes(e[i - 1], <<s[i]>>)
                   /\ Bytewise(s) = e[Len(s)]
      BY <2>2, BytewiseRuns
    <2>4. PICK d : /\ d[0] = NoState
                   /\ \A i \in 1..Len(t) : d[i] = Passes(d[i - 1], <<t[i]>>)
                   /\ Bytewise(t) = d[Len(t)]
      BY BytewiseRuns
    <2>5. PICK l \in Nat : l = Len(t)
      BY <2>2
    <2>6. \A i \in 1..l : d[i - 1] = e[i - 1] => d[i] = e[i]
      <3>1. ASSUME NEW i \in 1..l, d[i - 1] = e[i - 1] PROVE d[i] = e[i]
        <4>1. i \in 1..Len(s) /\ i \in 1..Len(t) /\ s[i] = t[i]
          BY <2>2, <2>5
        <4>2. e[i] = Passes(e[i - 1], <<s[i]>>) /\ d[i] = Passes(d[i - 1], <<t[i]>>)
          BY <2>3, <2>4, <4>1
        <4> QED BY <3>1, <4>1, <4>2
      <3> QED BY <3>1
    <2>7. \A i \in 0..l : d[i] = e[i]
      <3>1. Alike(l, d, e)
        BY <2>3, <2>4, <2>6 DEF Alike
      <3> QED BY ONLY <2>5, <3>1, RunsAgree
    <2>8. e[l + 1] = Passes(e[l], <<c>>) /\ e[l] = d[l]
      <3>1. l + 1 \in 1..Len(s) /\ (l + 1) - 1 = l /\ l \in 0..l
        BY <2>2, <2>5
      <3> QED BY <2>2, <2>3, <2>5, <2>7, <3>1
    <2> QED BY <2>1, <2>2, <2>3, <2>4, <2>5, <2>8
  <1> QED BY <1>1, <1>2, <1>3

\* The sequences of a stream fit the buffer.
AllFit(s) == \A i \in DOMAIN s : Fits(Executed(SubSeq(s, 1, i)))

\* A stream that is well formed and fits was so before its last byte, and no ESC
\* follows an ESC.
LEMMA PlainBefore ==
    ASSUME NEW t \in Seq(Bytes), NEW c \in Bytes, WellFormed(Append(t, c)), AllFit(Append(t, c))
    PROVE  /\ WellFormed(t) /\ AllFit(t)
           /\ Executed(t).mode \in {"esc", "stringEsc"} => c # "ESC"
           /\ Fits(Terminal(Executed(t), c))
  <1>1. PICK s : s = Append(t, c)
    OBVIOUS
  <1>2. PICK l \in Nat : l = Len(t)
    OBVIOUS
  <1>3. /\ s \in Seq(Bytes) /\ Len(s) = l + 1 /\ s[l + 1] = c
        /\ \A i \in 1..l : s[i] = t[i]
        /\ \A i \in 0..l : SubSeq(s, 1, i) = SubSeq(t, 1, i)
        /\ SubSeq(t, 1, l) = t
    BY <1>1, <1>2, BeforeAppend
  <1>4. DOMAIN s = 1..l + 1 /\ DOMAIN t = 1..l /\ SubSeq(s, 1, l + 1) = s /\ SubSeq(s, 1, l) = t
    <2>1. SubSeq(s, 1, Len(s)) = s
      BY <1>3, SubSeqFull
    <2>2. DOMAIN s = 1..Len(s) /\ DOMAIN t = 1..Len(t)
      BY <1>3
    <2> QED BY <1>2, <1>3, <2>1, <2>2
  <1>5. WellFormed(s) /\ AllFit(s)
    BY <1>1
  <1>6. WellFormed(t)
    <2>1. ASSUME NEW i \in 1..l PROVE i - 1 \in 0..l /\ i \in 1..l + 1
      OBVIOUS
    <2> QED BY <1>3, <1>4, <1>5, <2>1 DEF WellFormed
  <1>7. AllFit(t)
    <2>1. ASSUME NEW i \in 1..l PROVE i \in 0..l /\ i \in 1..l + 1
      OBVIOUS
    <2> QED BY <1>3, <1>4, <1>5, <2>1 DEF AllFit
  <1>8. l + 1 \in 1..l + 1 /\ (l + 1) - 1 = l
    OBVIOUS
  <1>9. Executed(t).mode \in {"esc", "stringEsc"} => c # "ESC"
    BY <1>3, <1>4, <1>5, <1>8 DEF WellFormed
  <1>10. Fits(Terminal(Executed(t), c))
    <2>1. Fits(Executed(s))
      BY <1>4, <1>5, <1>8 DEF AllFit
    <2> QED BY <2>1, <1>1, ExecutedOn
  <1> QED BY <1>6, <1>7, <1>9, <1>10
-------------------------------------------------------------------------------
\* The bytes are searched in vain, ...
LEMMA FirstOfNone ==
    ASSUME NEW b \in Seq(Bytes), NEW lo \in Nat \ {0}, NEW B,
           \A j \in lo..Len(b) : b[j] \notin B
    PROVE  FirstOf(b, lo, B) = 0
  BY DEF FirstOf

\* ... or found.
LEMMA FirstOfAt ==
    ASSUME NEW b \in Seq(Bytes), NEW lo \in Nat \ {0}, NEW B, NEW j \in lo..Len(b), b[j] \in B,
           \A k \in lo..j - 1 : b[k] \notin B
    PROVE  FirstOf(b, lo, B) = j
  <1> DEFINE at == {k \in lo..Len(b) : b[k] \in B}
  <1>1. PICK l \in Nat : l = Len(b)
    OBVIOUS
  <1>2. j \in at /\ \A k \in at : j <= k
    BY <1>1
  <1>3. \A i \in at : (\A k \in at : i <= k) => i = j
    BY <1>1, <1>2
  <1>4. FirstOf(b, lo, B) = CHOOSE i \in at : \A k \in at : i <= k
    BY <1>2 DEF FirstOf
  <1> HIDE DEF at
  <1> QED BY <1>2, <1>3, <1>4
-------------------------------------------------------------------------------
(* AnsiScan: the scanner finds what the terminal finds. *)

\* None of the bytes from lo to hi is one of B.
NoneOf(b, lo, hi, B) == \A j \in lo..hi : b[j] \notin B

\* So they are searched in vain, ...
LEMMA SearchedInVain ==
    ASSUME NEW b \in Seq(Bytes), NEW lo \in Nat \ {0}, NEW B, NoneOf(b, lo, Len(b), B)
    PROVE  FirstOf(b, lo, B) = 0
  BY FirstOfNone DEF NoneOf

\* ... or the one behind them is found.
LEMMA FoundAt ==
    ASSUME NEW b \in Seq(Bytes), NEW lo \in Nat \ {0}, NEW B, NEW j \in lo..Len(b), b[j] \in B,
           NoneOf(b, lo, j - 1, B)
    PROVE  FirstOf(b, lo, B) = j
  BY FirstOfAt DEF NoneOf

\* One byte more.
LEMMA NoneOfAppend ==
    ASSUME NEW w \in Seq(Bytes), NEW c \in Bytes, NEW l \in Nat, l = Len(w), NEW lo \in Nat \ {0},
           NEW B, NEW h \in 0..l, NoneOf(w, lo, h, B)
    PROVE  /\ NoneOf(Append(w, c), lo, h, B)
           /\ h = l /\ c \notin B => NoneOf(Append(w, c), lo, l + 1, B)
  <1>1. Append(w, c)[l + 1] = c /\ \A j \in 1..l : Append(w, c)[j] = w[j]
    BY BeforeAppend
  <1> QED BY <1>1 DEF NoneOf

\* What may come between an ESC and the end of its sequence, and what must not.
Blank == " "
Inter == Bytes \ {Blank}
Ends  == {"BEL", "ESC"}

\* A blank is none of the others.
LEMMA BlankIs ==
    /\ Blank \notin {"ESC", "[", "]", "\\", "BEL"}
    /\ \A c \in Bytes : c \in Inter <=> c # Blank
  <1>1. Blank \notin {"ESC", "[", "]", "\\", "BEL"}
    BY Zenon DEF Blank
  <1>2. \A c \in Bytes : c \in Inter <=> c # Blank
    BY DEF Inter
  <1> QED BY <1>1, <1>2

\* The scanner with a name for the blank, ...
LEMMA ScanIs ==
    ASSUME NEW b
    PROVE  scanEscape(b) = IF Len(b) < 2 THEN 0
                           ELSE CASE b[2] = "[" -> FirstOf(b, 3, Final)
                                  [] b[2] = "]" -> scanString(b)
                                  [] OTHER -> FirstOf(b, 2, Inter)
  BY Zenon DEF scanEscape, Inter, Blank

\* ... and the terminal.
LEMMA EscIs ==
    ASSUME NEW vt, NEW c
    PROVE  AfterEsc(vt, c) = CASE c = "["   -> Stay(vt, "csi", c)
                               [] c = "]"   -> Stay(vt, "string", c)
                               [] c = Blank -> Stay(vt, "inter", c)
                               [] c = "ESC" -> [vt EXCEPT !.mode = "esc", !.seq = <<"ESC">>]
                               [] OTHER     -> Done(vt, Append(vt.seq, c))
  BY Zenon DEF AfterEsc, Blank

\* Between an ESC and the end of a short sequence.
LEMMA InterIs ==
    ASSUME NEW vt, NEW c, vt.mode = "inter"
    PROVE  Terminal(vt, c) = IF c = Blank THEN Stay(vt, "inter", c)
                                          ELSE Done(vt, Append(vt.seq, c))
  BY Zenon DEF Terminal, Blank

\* What the terminal has of a sequence.
Shape(mode, w) ==
    /\ mode = "ground" => w = <<>>
    /\ mode # "ground" => w[1] = "ESC"
    /\ mode = "esc" => Len(w) = 1
    /\ mode = "inter" => Len(w) >= 2 /\ w[2] = Blank /\ NoneOf(w, 2, Len(w), Inter)
    /\ mode = "csi" => Len(w) >= 2 /\ w[2] = "[" /\ NoneOf(w, 3, Len(w), Final)
    /\ mode = "string" => Len(w) >= 2 /\ w[2] = "]" /\ NoneOf(w, 3, Len(w), Ends)
    /\ mode = "stringEsc" => /\ Len(w) >= 3 /\ w[2] = "]" /\ w[Len(w)] = "ESC"
                             /\ NoneOf(w, 3, Len(w) - 1, Ends)

\* The shapes of what begins with an ESC, read from the left, ...
LEMMA ShapesAre ==
    ASSUME NEW b, b[1] = "ESC"
    PROVE  /\ Len(b) = 1 => Shape("esc", b)
           /\ Len(b) >= 2 /\ b[2] = Blank /\ NoneOf(b, 2, Len(b), Inter) => Shape("inter", b)
           /\ Len(b) >= 2 /\ b[2] = "[" /\ NoneOf(b, 3, Len(b), Final) => Shape("csi", b)
           /\ Len(b) >= 2 /\ b[2] = "]" /\ NoneOf(b, 3, Len(b), Ends) => Shape("string", b)
           /\ Len(b) >= 3 /\ b[2] = "]" /\ b[Len(b)] = "ESC" /\ NoneOf(b, 3, Len(b) - 1, Ends)
                => Shape("stringEsc", b)
  BY DEF Shape

\* ... and what the scanner makes of them.
LEMMA ScansAre ==
    ASSUME NEW b, NEW l \in Nat, l = Len(b)
    PROVE  /\ l = 1 => scanEscape(b) = 0 /\ maxBufferedSeq(b) = MaxBufferedCSI
           /\ l >= 2 /\ b[2] = "[" => /\ scanEscape(b) = FirstOf(b, 3, Final)
                                     /\ maxBufferedSeq(b) = MaxBufferedCSI
           /\ l >= 2 /\ b[2] = "]" => /\ scanEscape(b) = scanString(b)
                                     /\ maxBufferedSeq(b) = MaxOSCPayload
           /\ l >= 2 /\ b[2] \notin {"[", "]"} => /\ scanEscape(b) = FirstOf(b, 2, Inter)
                                                /\ maxBufferedSeq(b) = MaxBufferedCSI
  <1>1. l = 1 => scanEscape(b) = 0 /\ maxBufferedSeq(b) = MaxBufferedCSI
    <2>1. l = 1 => Len(b) < 2 /\ ~(Len(b) >= 2)
      OBVIOUS
    <2> QED BY ONLY <2>1, ScanIs DEF maxBufferedSeq
  <1>2. l >= 2 => ~(Len(b) < 2) /\ Len(b) >= 2
    OBVIOUS
  <1>3. ASSUME l >= 2
        PROVE  /\ b[2] = "[" => scanEscape(b) = FirstOf(b, 3, Final)
               /\ b[2] = "]" => scanEscape(b) = scanString(b)
               /\ b[2] \notin {"[", "]"} => scanEscape(b) = FirstOf(b, 2, Inter)
    BY ONLY <1>2, <1>3, ScanIs
  <1>4. ASSUME l >= 2
        PROVE  /\ b[2] = "]" => maxBufferedSeq(b) = MaxOSCPayload
               /\ b[2] # "]" => maxBufferedSeq(b) = MaxBufferedCSI
    BY ONLY <1>2, <1>4 DEF maxBufferedSeq
  <1> QED BY ONLY <1>1, <1>3, <1>4

\* A string ends with a BEL or behind an ESC, or not yet.
LEMMA StringsAre ==
    ASSUME NEW b \in Seq(Bytes), NEW j \in 3..Len(b), NoneOf(b, 3, j - 1, Ends)
    PROVE  /\ b[j] = "BEL" => scanString(b) = j
           /\ b[j] = "ESC" /\ j = Len(b) => scanString(b) = 0
           /\ b[j] = "ESC" /\ j < Len(b) =>
                 scanString(b) = IF b[j + 1] = "\\" THEN j + 1 ELSE j - 1
  <1>1. b[j] \in Ends => FirstOf(b, 3, Ends) = j
    BY FoundAt
  <1>2. b[j] \in {"BEL", "ESC"} => FirstOf(b, 3, {"BEL", "ESC"}) = j
    BY ONLY <1>1 DEF Ends
  <1>3. PICK l \in Nat : l = Len(b)
    OBVIOUS
  <1>4. j # 0 /\ j \in Nat /\ (j < l => j # l)
    BY <1>3
  <1> QED BY ONLY <1>2, <1>3, <1>4 DEF scanString

\* The scanner is in the middle of a sequence wherever the terminal is.
LEMMA Incomplete ==
    ASSUME NEW w \in Seq(Bytes), NEW mode \in TerminalModes \ {"ground"}, Shape(mode, w)
    PROVE  /\ w # <<>> /\ w[1] = "ESC" /\ scanEscape(w) = 0
           /\ maxBufferedSeq(w) = IF mode \in {"string", "stringEsc"} THEN MaxOSCPayload
                                                                       ELSE MaxBufferedCSI
  <1>1. PICK l \in Nat : l = Len(w)
    OBVIOUS
  <1>2. w[1] = "ESC"
    BY DEF Shape
  <1>3. l >= 1 => w # <<>>
    BY <1>1
  <1>4. CASE mode = "esc"
    <2>1. l = 1
      BY <1>1, <1>4 DEF Shape
    <2>2. scanEscape(w) = 0 /\ maxBufferedSeq(w) = MaxBufferedCSI
      BY ONLY <1>1, <2>1, ScansAre
    <2> QED BY <1>2, <1>3, <1>4, <2>1, <2>2
  <1>5. CASE mode = "inter"
    <2>1. l >= 2 /\ w[2] = Blank /\ NoneOf(w, 2, l, Inter)
      BY <1>1, <1>5 DEF Shape
    <2>2. FirstOf(w, 2, Inter) = 0
      BY <1>1, <2>1, SearchedInVain
    <2>3. scanEscape(w) = 0 /\ maxBufferedSeq(w) = MaxBufferedCSI
      BY ONLY <1>1, <2>1, <2>2, ScansAre, BlankIs
    <2> QED BY <1>2, <1>3, <1>5, <2>1, <2>3
  <1>6. CASE mode = "csi"
    <2>1. l >= 2 /\ w[2] = "[" /\ NoneOf(w, 3, l, Final)
      BY <1>1, <1>6 DEF Shape
    <2>2. FirstOf(w, 3, Final) = 0
      BY <1>1, <2>1, SearchedInVain
    <2>3. scanEscape(w) = 0 /\ maxBufferedSeq(w) = MaxBufferedCSI
      BY ONLY <1>1, <2>1, <2>2, ScansAre
    <2> QED BY <1>2, <1>3, <1>6, <2>1, <2>3
  <1>7. CASE mode = "string"
    <2>1. l >= 2 /\ w[2] = "]" /\ NoneOf(w, 3, l, Ends)
      BY <1>1, <1>7 DEF Shape
    <2>2. FirstOf(w, 3, Ends) = 0
      BY <1>1, <2>1, SearchedInVain
    <2>3. scanString(w) = 0
      BY ONLY <2>2 DEF scanString, Ends
    <2>4. scanEscape(w) = 0 /\ maxBufferedSeq(w) = MaxOSCPayload
      BY ONLY <1>1, <2>1, <2>3, ScansAre
    <2> QED BY <1>2, <1>3, <1>7, <2>1, <2>4
  <1>8. CASE mode = "stringEsc"
    <2>1. l >= 3 /\ w[2] = "]" /\ w[l] = "ESC" /\ NoneOf(w, 3, l - 1, Ends)
      BY <1>1, <1>8 DEF Shape
    <2>2. scanString(w) = 0
      BY ONLY w \in Seq(Bytes), <1>1, <2>1, StringsAre
    <2>3. scanEscape(w) = 0 /\ maxBufferedSeq(w) = MaxOSCPayload
      BY ONLY <1>1, <2>1, <2>2, ScansAre
    <2> QED BY <1>2, <1>3, <1>8, <2>1, <2>3
  <1> QED BY <1>4, <1>5, <1>6, <1>7, <1>8 DEF TerminalModes

\* A byte of text, or all bytes of a sequence.
Whole(b) == \/ Len(b) = 1 /\ b[1] # "ESC"
            \/ b[1] = "ESC" /\ scanEscape(b) = Len(b)

\* The terminal goes on in the sequence, or is through with it.
LEMMA TerminalDoes ==
    ASSUME NEW vt \in TerminalStates, Shape(vt.mode, vt.seq), NEW c \in Bytes,
           vt.mode = "esc" => c # "ESC", vt.mode = "stringEsc" => c = "\\"
    PROVE  \/ \E m \in TerminalModes \ {"ground"} : /\ Terminal(vt, c) = Stay(vt, m, c)
                                                    /\ Shape(m, Append(vt.seq, c))
           \/ Terminal(vt, c) = Done(vt, Append(vt.seq, c)) /\ Whole(Append(vt.seq, c))
  <1>1. PICK w \in Seq(Bytes) : w = vt.seq
    BY DEF TerminalStates
  <1>2. PICK l \in Nat : l = Len(w)
    OBVIOUS
  <1>3. PICK b \in Seq(Bytes) : b = Append(w, c)
    BY AppendProperties
  <1>4. Len(b) = l + 1 /\ b[l + 1] = c /\ \A i \in 1..l : b[i] = w[i]
    BY <1>2, <1>3, BeforeAppend
  <1>5. SUFFICES \/ \E m \in TerminalModes \ {"ground"} : /\ Terminal(vt, c) = Stay(vt, m, c)
                                                          /\ Shape(m, b)
                 \/ Terminal(vt, c) = Done(vt, b) /\ Whole(b)
    BY <1>1, <1>3
  <1>6. {"esc", "inter", "csi", "string", "stringEsc"} \subseteq TerminalModes \ {"ground"}
    BY DEF TerminalModes
  <1>7. Shape(vt.mode, w)
    BY <1>1
  <1>8. CASE vt.mode = "ground"
    <2>1. w = <<>>
      BY <1>7, <1>8 DEF Shape
    <2>2. b = <<c>> /\ b[1] = c /\ Len(b) = 1
      BY <2>1, <1>3
    <2>3. CASE c = "ESC"
      <3>1. Shape("esc", b)
        BY <2>2, <2>3 DEF Shape
      <3> QED BY <1>6, <1>8, <2>3, <3>1 DEF Terminal
    <2>4. CASE c # "ESC"
      <3>1. Whole(b)
        BY <2>2, <2>4 DEF Whole
      <3> QED BY <1>8, <2>2, <2>4, <3>1 DEF Terminal
    <2> QED BY <2>3, <2>4
  <1>9. CASE vt.mode = "esc"
    <2>1. l = 1 /\ w[1] = "ESC"
      BY <1>2, <1>7, <1>9 DEF Shape
    <2>2. b[1] = "ESC" /\ b[2] = c /\ Len(b) = 2 /\ c # "ESC"
      BY <1>4, <1>9, <2>1
    <2>3. Terminal(vt, c) = AfterEsc(vt, c)
      BY <1>9 DEF Terminal
    <2>4. \A B : NoneOf(b, 3, 2, B)
      BY DEF NoneOf
    <2>5. CASE c = "["
      <3>1. Shape("csi", b)
        <4>1. NoneOf(b, 3, Len(b), Final) /\ Len(b) >= 2 /\ b[2] = "["
          BY ONLY <2>2, <2>4, <2>5
        <4> QED BY ONLY <2>2, <4>1, ShapesAre
      <3> QED BY <1>6, <2>3, <2>5, <3>1, EscIs, BlankIs
    <2>6. CASE c = "]"
      <3>1. Shape("string", b)
        BY ONLY <2>2, <2>4, <2>6, ShapesAre
      <3> QED BY <1>6, <2>3, <2>6, <3>1, EscIs, BlankIs
    <2>7. CASE c = Blank
      <3>1. NoneOf(b, 2, 2, Inter)
        BY <2>2, <2>7, BlankIs DEF NoneOf
      <3>2. Shape("inter", b)
        BY ONLY <2>2, <2>7, <3>1, ShapesAre
      <3> QED BY <1>6, <2>3, <2>7, <3>2, EscIs, BlankIs
    <2>8. CASE c \notin {"[", "]", Blank}
      <3>1. NoneOf(b, 2, 2 - 1, Inter) /\ b[2] \in Inter
        BY <2>2, <2>8, BlankIs DEF NoneOf
      <3>2. FirstOf(b, 2, Inter) = 2
        BY <2>2, <3>1, FoundAt
      <3>3. Whole(b)
        <4>1. scanEscape(b) = 2
          BY ONLY <2>2, <2>8, <3>2, ScansAre
        <4> QED BY ONLY <2>2, <4>1 DEF Whole
      <3>4. Terminal(vt, c) = Done(vt, b)
        BY <1>1, <1>3, <2>2, <2>3, <2>8, EscIs, BlankIs
      <3> QED BY <3>3, <3>4
    <2> QED BY <2>5, <2>6, <2>7, <2>8
  <1>10. CASE vt.mode = "inter"
    <2>1. l >= 2 /\ w[1] = "ESC" /\ w[2] = Blank /\ NoneOf(w, 2, l, Inter)
      BY <1>2, <1>7, <1>10 DEF Shape
    <2>2. b[1] = "ESC" /\ b[2] = Blank /\ l \in 0..l
      BY <1>4, <2>1
    <2>3. NoneOf(b, 2, l, Inter) /\ (c \notin Inter => NoneOf(b, 2, l + 1, Inter))
      BY <1>2, <1>3, <2>1, <2>2, NoneOfAppend
    <2>4. CASE c = Blank
      <3>1. Shape("inter", b)
        BY ONLY l \in Nat, <1>4, <2>1, <2>2, <2>3, <2>4, ShapesAre, BlankIs
      <3> QED BY <1>6, <1>10, <2>4, <3>1, InterIs
    <2>5. CASE c # Blank
      <3>1. l + 1 \in 2..Len(b) /\ (l + 1) - 1 = l /\ b[l + 1] \in Inter
        BY <1>4, <2>1, <2>5, BlankIs
      <3>2. FirstOf(b, 2, Inter) = l + 1
        BY <2>3, <3>1, FoundAt
      <3>3. Whole(b)
        <4>1. scanEscape(b) = l + 1
          BY ONLY l \in Nat, <1>4, <2>1, <2>2, <3>2, ScansAre, BlankIs
        <4> QED BY ONLY <1>4, <2>2, <4>1 DEF Whole
      <3>4. Terminal(vt, c) = Done(vt, b)
        BY <1>1, <1>3, <1>10, <2>5, InterIs
      <3> QED BY <3>3, <3>4
    <2> QED BY <2>4, <2>5
  <1>11. CASE vt.mode = "csi"
    <2>1. l >= 2 /\ w[1] = "ESC" /\ w[2] = "[" /\ NoneOf(w, 3, l, Final)
      BY <1>2, <1>7, <1>11 DEF Shape
    <2>2. b[1] = "ESC" /\ b[2] = "[" /\ l \in 0..l
      BY <1>4, <2>1
    <2>3. NoneOf(b, 3, l, Final) /\ (c \notin Final => NoneOf(b, 3, l + 1, Final))
      BY <1>2, <1>3, <2>1, <2>2, NoneOfAppend
    <2>4. CASE c \notin Final
      <3>1. Shape("csi", b)
        BY ONLY l \in Nat, <1>4, <2>1, <2>2, <2>3, <2>4, ShapesAre
      <3> QED BY <1>6, <1>11, <2>4, <3>1 DEF Terminal
    <2>5. CASE c \in Final
      <3>1. l + 1 \in 3..Len(b) /\ (l + 1) - 1 = l /\ b[l + 1] \in Final
        BY <1>4, <2>1, <2>5
      <3>2. FirstOf(b, 3, Final) = l + 1
        BY <2>3, <3>1, FoundAt
      <3>3. Whole(b)
        <4>1. scanEscape(b) = l + 1
          BY ONLY l \in Nat, <1>4, <2>1, <2>2, <3>2, ScansAre, BlankIs
        <4> QED BY ONLY <1>4, <2>2, <4>1 DEF Whole
      <3>4. Terminal(vt, c) = Done(vt, b)
        BY <1>1, <1>3, <1>11, <2>5 DEF Terminal
      <3> QED BY <3>3, <3>4
    <2> QED BY <2>4, <2>5
  <1>12. CASE vt.mode = "string"
    <2>1. l >= 2 /\ w[1] = "ESC" /\ w[2] = "]" /\ NoneOf(w, 3, l, Ends)
      BY <1>2, <1>7, <1>12 DEF Shape
    <2>2. b[1] = "ESC" /\ b[2] = "]" /\ l \in 0..l
      BY <1>4, <2>1
    <2>3. NoneOf(b, 3, l, Ends) /\ (c \notin Ends => NoneOf(b, 3, l + 1, Ends))
      BY <1>2, <1>3, <2>1, <2>2, NoneOfAppend
    <2>4. CASE c = "BEL"
      <3>1. l + 1 \in 3..Len(b) /\ (l + 1) - 1 = l /\ b[l + 1] \in Ends
        BY <1>4, <2>1, <2>4 DEF Ends
      <3>2. scanString(b) = l + 1
        BY ONLY b \in Seq(Bytes), <1>4, <2>3, <2>4, <3>1, StringsAre
      <3>3. Whole(b)
        <4>1. scanEscape(b) = l + 1
          BY ONLY l \in Nat, <1>4, <2>1, <2>2, <3>2, ScansAre
        <4> QED BY ONLY <1>4, <2>2, <4>1 DEF Whole
      <3>4. Terminal(vt, c) = Done(vt, b)
        BY <1>1, <1>3, <1>12, <2>4 DEF Terminal
      <3> QED BY <3>3, <3>4
    <2>5. CASE c = "ESC"
      <3>1. Shape("stringEsc", b)
        <4>1. Len(b) - 1 = l /\ Len(b) >= 3 /\ b[Len(b)] = "ESC"
          BY <1>4, <2>1, <2>5
        <4> QED BY ONLY <2>2, <2>3, <4>1, ShapesAre
      <3> QED BY <1>6, <1>12, <2>5, <3>1 DEF Terminal
    <2>6. CASE c \notin Ends
      <3>1. Shape("string", b)
        BY ONLY l \in Nat, <1>4, <2>1, <2>2, <2>3, <2>6, ShapesAre
      <3> QED BY <1>6, <1>12, <2>6, <3>1 DEF Terminal, Ends
    <2> QED BY <2>4, <2>5, <2>6 DEF Ends
  <1>13. CASE vt.mode = "stringEsc"
    <2>1. /\ l >= 3 /\ w[1] = "ESC" /\ w[2] = "]" /\ w[l] = "ESC" /\ c = "\\"
          /\ NoneOf(w, 3, l - 1, Ends)
      BY <1>2, <1>7, <1>13 DEF Shape
    <2>2. b[1] = "ESC" /\ b[2] = "]" /\ b[l] = "ESC" /\ l - 1 \in 0..l /\ l \in 3..Len(b)
      BY <1>4, <2>1
    <2>3. NoneOf(b, 3, l - 1, Ends)
      BY <1>2, <1>3, <2>1, <2>2, NoneOfAppend
    <2>4. scanString(b) = l + 1
      <3>1. l < Len(b) /\ b[l + 1] = "\\"
        BY <1>4, <2>1
      <3> QED BY ONLY b \in Seq(Bytes), <2>2, <2>3, <3>1, StringsAre
    <2>5. Whole(b)
      <3>1. scanEscape(b) = l + 1
        BY ONLY l \in Nat, <1>4, <2>1, <2>2, <2>4, ScansAre
      <3> QED BY ONLY <1>4, <2>2, <3>1 DEF Whole
    <2>6. Terminal(vt, c) = Done(vt, b)
      BY <1>1, <1>3, <1>13, <2>1 DEF Terminal
    <2> QED BY <2>5, <2>6
  <1> QED BY <1>8, <1>9, <1>10, <1>11, <1>12, <1>13 DEF TerminalStates, TerminalModes
\* An incomplete sequence that fits the buffer waits for more.
LEMMA SettleWaits ==
    ASSUME NEW z \in Fresh, z.todo # <<>>, z.todo[1] = "ESC", scanEscape(z.todo) = 0,
           Len(z.todo) <= maxBufferedSeq(z.todo)
    PROVE  Settled(z) = [z EXCEPT !.tail = z.todo, !.todo = <<>>]
  <1>1. z \in ScanStates /\ Stuck(z)
    BY DEF Fresh, Stuck
  <1>2. End(z) = z
    BY <1>1, EndOf
  <1>3. ~(Len(z.todo) > maxBufferedSeq(z.todo))
    <2>1. Len(z.todo) \in Nat /\ maxBufferedSeq(z.todo) \in Nat
      BY <1>1, AnsiScanAssumption, LenProperties DEF ScanStates, maxBufferedSeq
    <2> QED BY <2>1
  <1>4. ScanNext(z) = [z EXCEPT !.tail = z.todo, !.todo = <<>>]
    BY ONLY z.todo # <<>>, z.todo[1] = "ESC", scanEscape(z.todo) = 0, <1>3 DEF ScanNext
  <1> QED BY <1>2, <1>4 DEF Settled

\* What can be told apart is.
LEMMA SettleOn ==
    ASSUME NEW z \in Fresh, ~Stuck(z)
    PROVE  Advance(z) \in Fresh /\ Settled(z) = Settled(Advance(z))
  <1>1. z \in ScanStates /\ z.tail = <<>> /\ z.deferred = <<>>
    BY DEF Fresh
  <1>2. Advance(z) \in Fresh /\ Advance(z) \in ScanStates
    BY <1>1, AdvanceDoes DEF Fresh
  <1>3. Leads(z, Advance(z))
    BY <1>1, LeadsOn
  <1>4. End(Advance(z)) = End(z)
    BY <1>1, <1>2, <1>3, EndOf
  <1> QED BY <1>2, <1>4 DEF Settled

\* A byte of text or all bytes of a sequence become a frame.
LEMMA SettleEnds ==
    ASSUME NEW z \in Fresh, z.todo # <<>>, Whole(z.todo)
    PROVE  Settled(z).frames = Append(z.frames, z.todo) /\ Settled(z).tail = <<>>
  <1>1. z \in ScanStates /\ z.tail = <<>> /\ z.todo \in Seq(Bytes)
    BY DEF Fresh, ScanStates
  <1>2. PICK l \in Nat : l = Len(z.todo) /\ l # 0
    BY <1>1
  <1>3. ~Stuck(z)
    BY <1>2 DEF Whole, Stuck
  <1>4. Advance(z) \in Fresh /\ Settled(z) = Settled(Advance(z)) /\ Advance(z) \in ScanStates
    BY <1>3, SettleOn DEF Fresh
  <1>5. Advance(z).frames = Append(z.frames, z.todo) /\ Advance(z).todo = <<>>
    <2>1. CASE l = 1 /\ z.todo[1] # "ESC"
      <3>1. <<z.todo[1]>> = z.todo /\ Tail(z.todo) = <<>>
        <4>1. PICK b \in Seq(Bytes) : b = z.todo
          BY <1>1
        <4>2. Len(b) = 1
          BY <1>2, <2>1, <4>1
        <4>3. b = <<b[1]>>
          <5>1. b[1] \in Bytes /\ <<b[1]>> \in Seq(Bytes) /\ Len(<<b[1]>>) = 1 /\ <<b[1]>>[1] = b[1]
            <6>1. PICK x \in Bytes : x = b[1]
              BY ONLY b \in Seq(Bytes), <4>2
            <6>2. <<x>> \in Seq(Bytes) /\ Len(<<x>>) = 1 /\ <<x>>[1] = x
              OBVIOUS
            <6> QED BY ONLY <6>1, <6>2
          <5>2. \A i \in 1..Len(b) : b[i] = <<b[1]>>[i]
            BY ONLY <4>2, <5>1
          <5> QED BY ONLY b \in Seq(Bytes), <4>2, <5>1, <5>2, SeqEqual
        <4>4. Tail(b) = <<>>
          <5>1. b # <<>>
            BY <4>2
          <5>2. Tail(b) \in Seq(Bytes) /\ Len(Tail(b)) = 0
            BY ONLY b \in Seq(Bytes), <4>2, <5>1, HeadTailProperties
          <5> QED BY ONLY <5>2, EmptySeq
        <4> QED BY <4>1, <4>3, <4>4
      <3>2. Advance(z) = [z EXCEPT !.frames = Append(@, <<z.todo[1]>>), !.todo = Tail(z.todo)]
        BY <1>3, <2>1 DEF Advance
      <3> QED BY <1>1, <3>1, <3>2 DEF ScanStates
    <2>2. CASE z.todo[1] = "ESC" /\ scanEscape(z.todo) = l
      <3>1. SubSeq(z.todo, 1, l) = z.todo
        BY <1>1, <1>2, SubSeqFull
      <3>2. From(z.todo, l + 1) = <<>>
        BY <1>1, <1>2, SubSeqEmpty DEF From
      <3>3. /\ Advance(z).frames = Append(z.frames, SubSeq(z.todo, 1, l))
            /\ Advance(z).todo = From(z.todo, l + 1)
        BY <1>1, <1>3, <2>2 DEF Advance, ScanStates
      <3> QED BY <3>1, <3>2, <3>3
    <2> QED BY <1>2, <2>1, <2>2 DEF Whole
  <1>6. Stuck(Advance(z))
    BY <1>5 DEF Stuck
  <1>7. End(Advance(z)) = Advance(z)
    BY <1>4, <1>6, EndOf
  <1>8. ScanNext(Advance(z)) = Advance(z)
    BY <1>4, <1>5, ScanNextDoes
  <1>9. Advance(z).tail = <<>>
    BY <1>4 DEF Fresh
  <1> QED BY <1>4, <1>5, <1>7, <1>8, <1>9 DEF Settled

\* The filter between two reads and the terminal are at the same point.
Matches(q, vt) ==
    q \in Quiet /\ q.frames = vt.frames /\ q.tail = vt.seq /\ Shape(vt.mode, vt.seq)

\* What is scanned is what the terminal has and a byte: both do the same with it.
LEMMA MatchFrom ==
    ASSUME NEW z \in Fresh, NEW vt \in TerminalStates, Shape(vt.mode, vt.seq), NEW c \in Bytes,
           vt.mode = "esc" => c # "ESC", vt.mode = "stringEsc" => c = "\\",
           z.todo = Append(vt.seq, c), z.frames = vt.frames, Fits(Terminal(vt, c))
    PROVE  Matches(Settled(z), Terminal(vt, c))
  <1>1. Settled(z) \in Quiet
    BY SettledKeeps
  <1>2. PICK b \in Seq(Bytes) : b = z.todo
    BY DEF Fresh, ScanStates
  <1>3. z.todo # <<>>
    <2>1. vt.seq \in Seq(Bytes)
      BY DEF TerminalStates
    <2> QED BY <2>1
  <1>4. CASE \E m \in TerminalModes \ {"ground"} : /\ Terminal(vt, c) = Stay(vt, m, c)
                                                   /\ Shape(m, Append(vt.seq, c))
    <2>1. PICK m \in TerminalModes \ {"ground"} : Terminal(vt, c) = Stay(vt, m, c) /\ Shape(m, b)
      BY <1>2, <1>4
    <2>2. /\ Terminal(vt, c).frames = z.frames /\ Terminal(vt, c).mode = m
          /\ Terminal(vt, c).seq = b
      BY <1>2, <2>1 DEF Stay, TerminalStates
    <2>3. /\ b # <<>> /\ b[1] = "ESC" /\ scanEscape(b) = 0
          /\ maxBufferedSeq(b) = IF m \in {"string", "stringEsc"} THEN MaxOSCPayload
                                                                  ELSE MaxBufferedCSI
      BY <2>1, Incomplete
    <2>4. Len(b) <= maxBufferedSeq(b)
      BY ONLY Fits(Terminal(vt, c)), <2>2, <2>3 DEF Fits
    <2>5. Settled(z) = [z EXCEPT !.tail = z.todo, !.todo = <<>>]
      BY <1>2, <2>3, <2>4, SettleWaits
    <2>6. Settled(z).tail = b /\ Settled(z).frames = z.frames
      BY <1>2, <2>5 DEF Fresh, ScanStates
    <2> QED BY ONLY <1>1, <2>1, <2>2, <2>6 DEF Matches
  <1>5. CASE Terminal(vt, c) = Done(vt, Append(vt.seq, c)) /\ Whole(Append(vt.seq, c))
    <2>1. /\ Terminal(vt, c).frames = Append(z.frames, z.todo) /\ Terminal(vt, c).mode = "ground"
          /\ Terminal(vt, c).seq = <<>>
      BY <1>5 DEF Done
    <2>2. Settled(z).frames = Append(z.frames, z.todo) /\ Settled(z).tail = <<>>
      BY <1>3, <1>5, SettleEnds
    <2>3. Shape("ground", <<>>)
      BY DEF Shape
    <2> QED BY ONLY <1>1, <2>1, <2>2, <2>3 DEF Matches
  <1> QED BY <1>4, <1>5, TerminalDoes

\* The byte behind the ESC in a string: what is between them is a sequence.
LEMMA Boundary ==
    ASSUME NEW w \in Seq(Bytes), Shape("stringEsc", w), NEW c \in Bytes, c # "\\",
           NEW z \in Fresh, z.todo = Append(w, c)
    PROVE  /\ ~Stuck(z)
           /\ Advance(z).frames = Append(z.frames, Front(w))
           /\ Advance(z).todo = Append(<<"ESC">>, c)
  <1>1. PICK l \in Nat : l = Len(w)
    OBVIOUS
  <1>2. PICK b \in Seq(Bytes) : b = Append(w, c)
    BY AppendProperties
  <1>3. Len(b) = l + 1 /\ b[l + 1] = c /\ \A i \in 1..l : b[i] = w[i]
    BY <1>1, <1>2, BeforeAppend
  <1>4. l >= 3 /\ w[1] = "ESC" /\ w[2] = "]" /\ w[l] = "ESC" /\ NoneOf(w, 3, l - 1, Ends)
    BY ONLY Shape("stringEsc", w), <1>1 DEF Shape
  <1>5. b[1] = "ESC" /\ b[2] = "]" /\ b[l] = "ESC" /\ l - 1 \in 0..l /\ l \in 3..Len(b)
    BY <1>3, <1>4
  <1>6. NoneOf(b, 3, l - 1, Ends)
    BY <1>1, <1>2, <1>4, <1>5, NoneOfAppend
  <1>7. scanString(b) = l - 1
    <2>1. l < Len(b) /\ b[l + 1] # "\\"
      BY <1>3
    <2> QED BY ONLY b \in Seq(Bytes), <1>5, <1>6, <2>1, StringsAre
  <1>8. scanEscape(b) = l - 1 /\ l - 1 # 0
    BY ONLY l \in Nat, <1>3, <1>4, <1>5, <1>7, ScansAre
  <1>9. SubSeq(b, 1, l - 1) = Front(w)
    <2>1. SubSeq(b, 1, l - 1) = SubSeq(w, 1, l - 1)
      BY <1>1, <1>2, <1>5, BeforeAppend
    <2> QED BY <1>1, <2>1 DEF Front
  <1>10. From(b, (l - 1) + 1) = Append(<<"ESC">>, c)
    <2>1. (l - 1) + 1 = l /\ From(b, l) = SubSeq(b, l, l + 1)
      BY <1>3 DEF From
    <2>2. PICK e : e = SubSeq(b, l, l + 1)
      OBVIOUS
    <2>3. e \in Seq(Bytes) /\ Len(e) = 2 /\ e[1] = b[l] /\ e[2] = b[l + 1]
      <3>1. \A i \in l..l + 1 : b[i] \in Bytes
        BY <1>3, <1>4
      <3>2. l \in 1..Len(b) + 1 /\ l + 1 \in 1..Len(b) /\ (l + 1) - l + 1 = 2
        BY <1>3, <1>4
      <3>3. l \in Int /\ l + 1 \in Int /\ l <= l + 1
        OBVIOUS
      <3>4. /\ e \in Seq(Bytes) /\ Len(e) = (l + 1) - l + 1
            /\ \A i \in 1..(l + 1) - l + 1 : e[i] = b[l + i - 1]
        BY ONLY <2>2, <3>1, <3>3, SubSeqProperties
      <3>5. e[1] = b[l + 1 - 1] /\ e[2] = b[l + 2 - 1] /\ l + 1 - 1 = l /\ l + 2 - 1 = l + 1
        <4>1. 1 \in 1..(l + 1) - l + 1 /\ 2 \in 1..(l + 1) - l + 1
          BY ONLY l \in Nat
        <4>2. l + 1 - 1 = l /\ l + 2 - 1 = l + 1
          BY ONLY l \in Nat
        <4> QED BY ONLY <3>4, <4>1, <4>2
      <3> QED BY ONLY <3>2, <3>4, <3>5
    <2>4. PICK d : d = Append(<<"ESC">>, c)
      OBVIOUS
    <2>5. d \in Seq(Bytes) /\ Len(d) = 2 /\ d[1] = "ESC" /\ d[2] = c
      <3>1. "ESC" \in Bytes
        BY DEF Bytes
      <3>2. <<"ESC">> \in Seq(Bytes) /\ Len(<<"ESC">>) = 1 /\ <<"ESC">>[1] = "ESC"
        BY <3>1
      <3> QED BY ONLY c \in Bytes, <2>4, <3>2, BeforeAppend
    <2>6. \A i \in 1..Len(e) : e[i] = d[i]
      BY <1>3, <1>5, <2>3, <2>5
    <2>7. e = d
      BY ONLY <2>3, <2>5, <2>6, SeqEqual
    <2> QED BY <2>1, <2>2, <2>4, <2>7
  <1>11. b # <<>>
    BY <1>3
  <1>12. ~Stuck(z)
    BY ONLY z.todo = Append(w, c), <1>2, <1>5, <1>8, <1>11 DEF Stuck
  <1>13. /\ Advance(z).frames = Append(z.frames, SubSeq(b, 1, l - 1))
         /\ Advance(z).todo = From(b, (l - 1) + 1)
    BY <1>2, <1>5, <1>8, <1>12 DEF Advance, Fresh, ScanStates
  <1> QED BY <1>9, <1>10, <1>12, <1>13

\* A byte more leaves the filter where it leaves the terminal.
LEMMA MatchStep ==
    ASSUME NEW q, NEW vt \in TerminalStates, Matches(q, vt), NEW c \in Bytes,
           vt.mode \in {"esc", "stringEsc"} => c # "ESC", Fits(Terminal(vt, c))
    PROVE  Matches(Passes(q, <<c>>), Terminal(vt, c))
  <1>1. q \in Quiet /\ q \in ScanStates /\ q.frames = vt.frames /\ q.tail = vt.seq
    BY DEF Matches, Quiet
  <1>2. Shape(vt.mode, vt.seq)
    BY DEF Matches
  <1>3. <<c>> \in Seq(Bytes)
    OBVIOUS
  <1>4. PICK z : z = Start(q, <<c>>)
    OBVIOUS
  <1>5. z \in Fresh /\ Passes(q, <<c>>) = Settled(z)
    BY <1>1, <1>3, <1>4, PassesSettle
  <1>6. z.todo = Append(vt.seq, c) /\ z.frames = vt.frames
    <2>1. vt.seq \in Seq(Bytes)
      BY DEF TerminalStates
    <2>2. Append(vt.seq, c) = vt.seq \o <<c>>
      BY <2>1, AppendIsConcat
    <2>3. z.todo = q.tail \o <<c>> /\ z.frames = q.frames
      BY <1>1, <1>4 DEF Start, ScanStates
    <2> QED BY <1>1, <2>2, <2>3
  <1>7. CASE vt.mode # "stringEsc" \/ c = "\\"
    <2>1. vt.mode = "esc" => c # "ESC"
      OBVIOUS
    <2> QED BY <1>2, <1>5, <1>6, <1>7, <2>1, MatchFrom
  <1>8. CASE vt.mode = "stringEsc" /\ c # "\\"
    <2>1. PICK w \in Seq(Bytes) : w = vt.seq
      BY DEF TerminalStates
    <2>2. PICK v : v = [frames |-> Append(vt.frames, Front(w)), mode |-> "esc", seq |-> <<"ESC">>]
      OBVIOUS
    <2>3. v \in TerminalStates /\ v.mode = "esc" /\ v.seq = <<"ESC">>
          /\ v.frames = Append(vt.frames, Front(w))
      <3>1. Front(w) \in Seq(Bytes)
        <4>1. PICK l \in Nat : l = Len(w)
          OBVIOUS
        <4>2. \A i \in 1..l - 1 : w[i] \in Bytes
          BY <2>1, <4>1, ElementOfSeq
        <4>3. SubSeq(w, 1, l - 1) \in Seq(Bytes)
          BY <4>1, <4>2, SubSeqProperties
        <4> QED BY <4>1, <4>3 DEF Front
      <3>2. Append(vt.frames, Front(w)) \in Seq(Seq(Bytes))
        BY <3>1, AppendProperties DEF TerminalStates
      <3>3. "ESC" \in Bytes
        BY DEF Bytes
      <3>4. <<"ESC">> \in Seq(Bytes)
        BY <3>3
      <3> QED BY <2>2, <3>2, <3>4 DEF TerminalStates, TerminalModes
    <2>4. Terminal(vt, c) = AfterEsc(v, c) /\ Terminal(v, c) = AfterEsc(v, c)
      <3>1. Terminal(v, c) = AfterEsc(v, c)
        BY <2>3 DEF Terminal
      <3>2. Terminal(vt, c) = AfterEsc([frames |-> Append(vt.frames, Front(vt.seq)), mode |-> "esc",
                                        seq |-> <<"ESC">>], c)
        BY <1>8 DEF Terminal
      <3> QED BY <2>1, <2>2, <3>1, <3>2
    <2>5. Shape("esc", <<"ESC">>)
      BY DEF Shape
    <2>6. Shape("stringEsc", w)
      BY <1>2, <1>8, <2>1
    <2>7. /\ ~Stuck(z) /\ Advance(z).frames = v.frames
          /\ Advance(z).todo = Append(<<"ESC">>, c)
      BY <1>5, <1>6, <1>8, <2>1, <2>3, <2>6, Boundary
    <2>8. Advance(z) \in Fresh /\ Settled(z) = Settled(Advance(z))
      BY <1>5, <2>7, SettleOn
    <2>9. c # "ESC" /\ Fits(Terminal(v, c))
      BY <1>8, <2>4
    <2>10. Matches(Settled(Advance(z)), Terminal(v, c))
      BY ONLY c \in Bytes, <2>3, <2>5, <2>7, <2>8, <2>9, MatchFrom
    <2> QED BY <1>5, <2>4, <2>8, <2>10
  <1> QED BY <1>7, <1>8

\* The filter finds the terminal's sequences in every stream that is well formed
\* and whose sequences fit.
LEMMA FramesAre ==
    ASSUME NEW s \in Seq(Bytes)
    PROVE  FramesAreTheTerminals(s)
  <1> DEFINE G == {t \in Seq(Bytes) : WellFormed(t) /\ AllFit(t) =>
                                          Matches(Bytewise(t), Executed(t))}
  <1>1. <<>> \in G
    <2>1. Matches(NoState, AtGround)
      <3>1. NoState.frames = <<>> /\ NoState.tail = <<>>
        BY DEF NoState
      <3>2. AtGround.frames = <<>> /\ AtGround.seq = <<>> /\ AtGround.mode = "ground"
        BY DEF AtGround
      <3>3. Shape("ground", <<>>)
        BY DEF Shape
      <3> QED BY ONLY <3>1, <3>2, <3>3, NothingIsRead DEF Matches
    <2>2. <<>> \in Seq(Bytes)
      OBVIOUS
    <2> QED BY <2>1, <2>2, ExecutedOn, BytewiseOn
  <1>2. ASSUME NEW t \in G, NEW c \in Bytes PROVE Append(t, c) \in G
    <2>1. t \in Seq(Bytes) /\ (WellFormed(t) /\ AllFit(t) => Matches(Bytewise(t), Executed(t)))
      OBVIOUS
    <2>2. Append(t, c) \in Seq(Bytes)
      BY <2>1, AppendProperties
    <2>3. ASSUME WellFormed(Append(t, c)), AllFit(Append(t, c))
          PROVE  Matches(Bytewise(Append(t, c)), Executed(Append(t, c)))
      <3>1. /\ WellFormed(t) /\ AllFit(t)
            /\ Executed(t).mode \in {"esc", "stringEsc"} => c # "ESC"
            /\ Fits(Terminal(Executed(t), c))
        BY <2>1, <2>3, PlainBefore
      <3>2. Executed(t) \in TerminalStates
        BY <2>1, ExecutedOn
      <3>3. Matches(Bytewise(t), Executed(t))
        BY <2>1, <3>1
      <3>4. Matches(Passes(Bytewise(t), <<c>>), Terminal(Executed(t), c))
        BY ONLY c \in Bytes, <3>1, <3>2, <3>3, MatchStep
      <3> QED BY <2>1, <3>4, ExecutedOn, BytewiseOn
    <2> QED BY <2>2, <2>3
  <1>3. Seq(Bytes) \subseteq G
    <2> HIDE DEF G
    <2>1. G \subseteq Seq(Bytes)
      BY DEF G
    <2> QED BY <1>1, <1>2, <2>1, SeqByAppend
  <1>4. WellFormed(s) /\ AllFit(s) => Matches(Bytewise(s), Executed(s))
    BY <1>3
  <1> QED BY <1>4 DEF FramesAreTheTerminals, AllFit, Matches

\* What Filter takes for a sequence (scanEscape and scanString) is what the
\* terminal executes as one, in every stream of the child's output.
THEOREM SequencesAgree == MCSpec => []SequencesAreTheTerminals
  <1>1. MCInit => stream \in Seq(Bytes)
    BY DEF MCInit
  <1>2. stream \in Seq(Bytes) /\ [MCNext]_<<subject, inputs, histories>>
            => (stream \in Seq(Bytes))'
    <2>1. ASSUME stream \in Seq(Bytes), ReadByte PROVE stream' \in Seq(Bytes)
      BY <2>1, AppendProperties DEF ReadByte
    <2>2. MCNext => ReadByte \/ UNCHANGED stream
      BY DEF MCNext, Write, Configure, AddBlock, Animate, Track, inputs
    <2> QED BY <2>1, <2>2 DEF inputs
  <1>3. stream \in Seq(Bytes) => SequencesAreTheTerminals
    BY FramesAre DEF SequencesAreTheTerminals
  <1> QED BY <1>1, <1>2, <1>3, PTL DEF MCSpec
-------------------------------------------------------------------------------
(* ValueText: parts of a text, and what joins them. *)

\* The symbols without the mark.
But(T, m) == T \ {m}

\* The parts of a text between marks, of which there is one at least.
Undivided == << <<>> >>
PartsOf(T) == {ps \in Seq(Seq(T)) : ps # <<>>}

\* One symbol more divides or goes to the last part.
LEMMA DividedType ==
    ASSUME NEW T, NEW m, NEW ps \in PartsOf(But(T, m)), NEW c \in T
    PROVE  /\ Divided(ps, c, m) \in PartsOf(But(T, m))
           /\ Len(ps) \in Nat \ {0} /\ ps[Len(ps)] \in Seq(But(T, m))
           /\ c # m => Append(ps[Len(ps)], c) \in Seq(But(T, m))
  <1>1. ps \in Seq(Seq(But(T, m))) /\ ps # <<>>
    BY DEF PartsOf
  <1>2. PICK l \in Nat \ {0} : l = Len(ps)
    BY <1>1, EmptySeq
  <1>3. l \in 1..Len(ps) /\ ps[l] \in Seq(But(T, m))
    BY <1>1, <1>2, ElementOfSeq
  <1>4. CASE c = m
    <2>1. <<>> \in Seq(But(T, m))
      BY EmptySeq
    <2>2. Append(ps, <<>>) \in Seq(Seq(But(T, m))) /\ Append(ps, <<>>) # <<>>
      BY <1>1, <2>1, AppendProperties
    <2> QED BY <1>2, <1>3, <1>4, <2>2 DEF Divided, PartsOf
  <1>5. CASE c # m
    <2>1. PICK d \in But(T, m) : d = c
      BY <1>5 DEF But
    <2>2. Append(ps[l], d) \in Seq(But(T, m))
      BY <1>3, AppendProperties
    <2>3. PICK e \in Seq(But(T, m)) : e = Append(ps[l], d)
      BY <2>2
    <2>4. [ps EXCEPT ![l] = e] \in Seq(Seq(But(T, m))) /\ Len([ps EXCEPT ![l] = e]) = l
      BY <1>1, <1>2, <1>3, ExceptSeq
    <2>5. [ps EXCEPT ![l] = e] # <<>>
      BY <2>4, <1>2, EmptySeq
    <2>6. Divided(ps, c, m) = [ps EXCEPT ![l] = e]
      BY <1>2, <1>5, <2>1, <2>3 DEF Divided
    <2> QED BY <1>2, <1>3, <1>5, <2>1, <2>2, <2>4, <2>5, <2>6 DEF PartsOf
  <1> QED BY <1>4, <1>5

\* No symbol yet.
LEMMA NoSymbol == ASSUME NEW T PROVE Undivided \in PartsOf(T)
  <1>1. <<>> \in Seq(T)
    BY EmptySeq
  <1>2. Undivided \in Seq(Seq(T)) /\ Undivided # <<>>
    BY <1>1 DEF Undivided
  <1> QED BY <1>2 DEF PartsOf

\* The loop over the symbols.
SplitRun(f, t, m) == /\ f[0] = Undivided
                     /\ \A i \in 1..Len(t) : f[i] = Divided(f[i - 1], t[i], m)
                     /\ SplitAt(t, m) = f[Len(t)]

\* It has a run.
LEMMA SplitRuns ==
    ASSUME NEW T, NEW m, NEW t \in Seq(T)
    PROVE  \E f : SplitRun(f, t, m) /\ \A i \in 0..Len(t) : f[i] \in PartsOf(But(T, m))
  <1> DEFINE n == Len(t)
             S == PartsOf(But(T, m))
             G == [i \in 1..n |-> [ps \in S |-> Divided(ps, t[i], m)]]
             Loop(f) == f = [i \in 0..n |-> IF i = 0 THEN Undivided
                                            ELSE Divided(f[i - 1], t[i], m)]
  <1>1. n \in Nat /\ \A i \in 1..n : t[i] \in T
    OBVIOUS
  <1>2. Undivided \in S
    BY NoSymbol
  <1>3. G \in [1..n -> [S -> S]]
    <2> HIDE DEF S, n
    <2>1. ASSUME NEW i \in 1..n, NEW ps \in S PROVE Divided(ps, t[i], m) \in S
      BY <1>1, DividedType DEF S
    <2> QED BY <2>1
  <1>4. PICK f \in [0..n -> S] : IsRun(f, Undivided, n, G)
    <2> HIDE DEF G, n, S
    <2> QED BY ONLY <1>1, <1>2, <1>3, LoopRuns
  <1>5. Loop(f)
    <2>1. ASSUME NEW i \in 1..n PROVE f[i] = Divided(f[i - 1], t[i], m)
      <3>1. i - 1 \in 0..n
        BY <1>1
      <3> HIDE DEF n
      <3> QED BY <3>1, <1>4 DEF IsRun
    <2> HIDE DEF n
    <2> QED BY <2>1, <1>1, <1>4 DEF IsRun
  <1> DEFINE g == CHOOSE h : Loop(h)
  <1>6. Loop(g)
    <2> HIDE DEF Loop
    <2> QED BY <1>5
  <1>7. SplitAt(t, m) = g[n]
    BY DEF SplitAt, Undivided
  <1> HIDE DEF g, n
  <1>8. g[0] = Undivided /\ \A i \in 1..n : g[i] = Divided(g[i - 1], t[i], m)
    <2>1. 0 \in 0..n /\ \A i \in 1..n : i \in 0..n /\ i # 0
      BY <1>1
    <2>2. \A i \in 0..n : g[i] = IF i = 0 THEN Undivided ELSE Divided(g[i - 1], t[i], m)
      BY ONLY <1>6, Zenon
    <2> QED BY ONLY <2>1, <2>2, Zenon
  <1>9. f[0] = Undivided /\ \A i \in 1..n : f[i] = Divided(f[i - 1], t[i], m)
    <2> HIDE DEF g
    <2> QED BY <1>1, <1>5
  <1>10. \A i \in 0..n : f[i] = g[i]
    <2>1. Alike(n, f, g)
      BY ONLY <1>8, <1>9 DEF Alike
    <2> QED BY ONLY <1>1, <2>1, RunsAgree
  <1>11. \A i \in 0..n : g[i] \in S
    <2> HIDE DEF S
    <2> QED BY <1>4, <1>10
  <1> QED BY <1>7, <1>8, <1>11 DEF n, SplitRun

\* Nothing divided; one symbol more.
LEMMA SplitOn ==
    ASSUME NEW T, NEW m
    PROVE  /\ SplitAt(<<>>, m) = Undivided
           /\ \A t \in Seq(T) : SplitAt(t, m) \in PartsOf(But(T, m))
           /\ \A t \in Seq(T), c \in T :
                 SplitAt(Append(t, c), m) = Divided(SplitAt(t, m), c, m)
  <1>1. SplitAt(<<>>, m) = Undivided
    <2>1. <<>> \in Seq(T) /\ Len(<<>>) = 0
      BY EmptySeq
    <2>2. PICK f : SplitRun(f, <<>>, m)
      BY <2>1, SplitRuns
    <2> QED BY <2>1, <2>2 DEF SplitRun
  <1>2. ASSUME NEW t \in Seq(T) PROVE SplitAt(t, m) \in PartsOf(But(T, m))
    <2>1. Len(t) \in 0..Len(t)
      OBVIOUS
    <2>2. PICK f : SplitRun(f, t, m) /\ \A i \in 0..Len(t) : f[i] \in PartsOf(But(T, m))
      BY SplitRuns
    <2> QED BY <2>1, <2>2 DEF SplitRun
  <1>3. ASSUME NEW t \in Seq(T), NEW c \in T
        PROVE  SplitAt(Append(t, c), m) = Divided(SplitAt(t, m), c, m)
    <2>1. PICK s : s = Append(t, c)
      OBVIOUS
    <2>2. /\ s \in Seq(T) /\ Len(s) = Len(t) + 1 /\ Len(t) \in Nat /\ s[Len(t) + 1] = c
          /\ \A i \in 1..Len(t) : s[i] = t[i]
      BY <2>1, BeforeAppend
    <2>3. PICK e : SplitRun(e, s, m)
      BY <2>2, SplitRuns
    <2>4. PICK d : SplitRun(d, t, m)
      BY SplitRuns
    <2>5. PICK l \in Nat : l = Len(t)
      BY <2>2
    <2>6. \A i \in 1..l : d[i - 1] = e[i - 1] => d[i] = e[i]
      <3>1. ASSUME NEW i \in 1..l, d[i - 1] = e[i - 1] PROVE d[i] = e[i]
        <4>1. i \in 1..Len(s) /\ i \in 1..Len(t) /\ s[i] = t[i]
          BY <2>2, <2>5
        <4>2. e[i] = Divided(e[i - 1], s[i], m) /\ d[i] = Divided(d[i - 1], t[i], m)
          BY <2>3, <2>4, <4>1 DEF SplitRun
        <4> QED BY <3>1, <4>1, <4>2
      <3> QED BY <3>1
    <2>7. \A i \in 0..l : d[i] = e[i]
      <3>1. Alike(l, d, e)
        BY <2>3, <2>4, <2>6 DEF Alike, SplitRun
      <3> QED BY ONLY <2>5, <3>1, RunsAgree
    <2>8. e[l + 1] = Divided(e[l], c, m) /\ e[l] = d[l]
      <3>1. l + 1 \in 1..Len(s) /\ (l + 1) - 1 = l /\ l \in 0..l
        BY <2>2, <2>5
      <3> QED BY <2>2, <2>3, <2>5, <2>7, <3>1 DEF SplitRun
    <2> QED BY <2>1, <2>2, <2>3, <2>4, <2>5, <2>8 DEF SplitRun
  <1> QED BY <1>1, <1>2, <1>3

\* A part more is joined.
LEMMA JoinedType ==
    ASSUME NEW T, NEW glue \in Seq(T), NEW x \in Seq(T), NEW p \in Seq(T)
    PROVE  Joined(x, p, glue) \in Seq(T)
  <1>1. x \o glue \in Seq(T)
    BY ConcatProperties
  <1>2. x \o glue \o p \in Seq(T)
    BY <1>1, ConcatProperties
  <1> QED BY <1>2 DEF Joined

\* The loop over the parts.
JoinRun(f, ps, glue) == /\ f[0] = <<>>
                        /\ \A i \in 1..Len(ps) : f[i] = Joined(f[i - 1], ps[i], glue)
                        /\ JoinWith(ps, glue) = f[Len(ps)]

\* It has a run.
LEMMA JoinRuns ==
    ASSUME NEW T, NEW glue \in Seq(T), NEW ps \in Seq(Seq(T))
    PROVE  \E f : JoinRun(f, ps, glue) /\ \A i \in 0..Len(ps) : f[i] \in Seq(T)
  <1> DEFINE n == Len(ps)
             S == Seq(T)
             G == [i \in 1..n |-> [x \in S |-> Joined(x, ps[i], glue)]]
             Loop(f) == f = [i \in 0..n |-> IF i = 0 THEN <<>>
                                            ELSE Joined(f[i - 1], ps[i], glue)]
  <1>1. n \in Nat /\ \A i \in 1..n : ps[i] \in Seq(T)
    OBVIOUS
  <1>2. <<>> \in S
    BY EmptySeq
  <1>3. G \in [1..n -> [S -> S]]
    <2> HIDE DEF S, n
    <2>1. ASSUME NEW i \in 1..n, NEW x \in S PROVE Joined(x, ps[i], glue) \in S
      BY <1>1, JoinedType DEF S
    <2> QED BY <2>1
  <1>4. PICK f \in [0..n -> S] : IsRun(f, <<>>, n, G)
    <2> HIDE DEF G, n, S
    <2> QED BY ONLY <1>1, <1>2, <1>3, LoopRuns
  <1>5. Loop(f)
    <2>1. ASSUME NEW i \in 1..n PROVE f[i] = Joined(f[i - 1], ps[i], glue)
      <3>1. i - 1 \in 0..n
        BY <1>1
      <3> HIDE DEF n, S
      <3> QED BY <3>1, <1>4 DEF IsRun
    <2> HIDE DEF n
    <2> QED BY <2>1, <1>1, <1>4 DEF IsRun
  <1> DEFINE g == CHOOSE h : Loop(h)
  <1>6. Loop(g)
    <2> HIDE DEF Loop
    <2> QED BY <1>5
  <1>7. JoinWith(ps, glue) = g[n]
    BY DEF JoinWith
  <1> HIDE DEF g, n
  <1>8. g[0] = <<>> /\ \A i \in 1..n : g[i] = Joined(g[i - 1], ps[i], glue)
    BY ONLY <1>1, <1>6
  <1>9. f[0] = <<>> /\ \A i \in 1..n : f[i] = Joined(f[i - 1], ps[i], glue)
    <2> HIDE DEF g
    <2> QED BY <1>1, <1>5
  <1>10. \A i \in 0..n : f[i] = g[i]
    <2>1. Alike(n, f, g)
      BY ONLY <1>8, <1>9 DEF Alike
    <2> QED BY ONLY <1>1, <2>1, RunsAgree
  <1>11. \A i \in 0..n : g[i] \in S
    <2> HIDE DEF S
    <2> QED BY <1>4, <1>10
  <1> QED BY <1>7, <1>8, <1>11 DEF n, JoinRun

\* Nothing joined; one part more.
LEMMA JoinOn ==
    ASSUME NEW T, NEW glue \in Seq(T)
    PROVE  /\ JoinWith(<<>>, glue) = <<>>
           /\ \A ps \in Seq(Seq(T)) : JoinWith(ps, glue) \in Seq(T)
           /\ \A ps \in Seq(Seq(T)), p \in Seq(T) :
                 JoinWith(Append(ps, p), glue) = Joined(JoinWith(ps, glue), p, glue)
  <1>1. JoinWith(<<>>, glue) = <<>>
    <2>1. <<>> \in Seq(Seq(T)) /\ Len(<<>>) = 0
      BY EmptySeq
    <2>2. PICK f : JoinRun(f, <<>>, glue)
      BY <2>1, JoinRuns
    <2> QED BY <2>1, <2>2 DEF JoinRun
  <1>2. ASSUME NEW ps \in Seq(Seq(T)) PROVE JoinWith(ps, glue) \in Seq(T)
    <2>1. Len(ps) \in 0..Len(ps)
      OBVIOUS
    <2>2. PICK f : JoinRun(f, ps, glue) /\ \A i \in 0..Len(ps) : f[i] \in Seq(T)
      BY JoinRuns
    <2> QED BY <2>1, <2>2 DEF JoinRun
  <1>3. ASSUME NEW t \in Seq(Seq(T)), NEW c \in Seq(T)
        PROVE  JoinWith(Append(t, c), glue) = Joined(JoinWith(t, glue), c, glue)
    <2>1. PICK s : s = Append(t, c)
      OBVIOUS
    <2>2. /\ s \in Seq(Seq(T)) /\ Len(s) = Len(t) + 1 /\ Len(t) \in Nat /\ s[Len(t) + 1] = c
          /\ \A i \in 1..Len(t) : s[i] = t[i]
      BY <2>1, BeforeAppend
    <2>3. PICK e : JoinRun(e, s, glue)
      BY <2>2, JoinRuns
    <2>4. PICK d : JoinRun(d, t, glue)
      BY JoinRuns
    <2>5. PICK l \in Nat : l = Len(t)
      BY <2>2
    <2>6. \A i \in 1..l : d[i - 1] = e[i - 1] => d[i] = e[i]
      <3>1. ASSUME NEW i \in 1..l, d[i - 1] = e[i - 1] PROVE d[i] = e[i]
        <4>1. i \in 1..Len(s) /\ i \in 1..Len(t) /\ s[i] = t[i]
          BY <2>2, <2>5
        <4>2. e[i] = Joined(e[i - 1], s[i], glue) /\ d[i] = Joined(d[i - 1], t[i], glue)
          BY <2>3, <2>4, <4>1 DEF JoinRun
        <4> QED BY <3>1, <4>1, <4>2
      <3> QED BY <3>1
    <2>7. \A i \in 0..l : d[i] = e[i]
      <3>1. Alike(l, d, e)
        BY <2>3, <2>4, <2>6 DEF Alike, JoinRun
      <3> QED BY ONLY <2>5, <3>1, RunsAgree
    <2>8. e[l + 1] = Joined(e[l], c, glue) /\ e[l] = d[l]
      <3>1. l + 1 \in 1..Len(s) /\ (l + 1) - 1 = l /\ l \in 0..l
        BY <2>2, <2>5
      <3> QED BY <2>2, <2>3, <2>5, <2>7, <3>1 DEF JoinRun
    <2> QED BY <2>1, <2>2, <2>3, <2>4, <2>5, <2>8 DEF JoinRun
  <1> QED BY <1>1, <1>2, <1>3

\* The last part, and what stands before it.
LastIs(ps, fr, w, T) ==
    /\ ps = Append(fr, w) /\ w = ps[Len(ps)]
    /\ \A v \in Seq(T) : [ps EXCEPT ![Len(ps)] = v] = Append(fr, v)

\* There are such.
LEMMA PartsEnd ==
    ASSUME NEW T, NEW ps \in PartsOf(T)
    PROVE  \E fr \in Seq(Seq(T)), w \in Seq(T) : LastIs(ps, fr, w, T)
  <1>1. ps \in Seq(Seq(T)) /\ ps # <<>>
    BY DEF PartsOf
  <1>2. PICK fr \in Seq(Seq(T)), w \in Seq(T) : ps = Append(fr, w)
    BY <1>1, SequenceEmptyOrAppend
  <1>3. PICK l \in Nat : l = Len(fr)
    OBVIOUS
  <1>4. Len(ps) = l + 1 /\ ps[l + 1] = w /\ \A i \in 1..l : ps[i] = fr[i]
    BY <1>2, <1>3, BeforeAppend
  <1>5. ASSUME NEW v \in Seq(T) PROVE [ps EXCEPT ![l + 1] = v] = Append(fr, v)
    <2>1. PICK a \in Seq(Seq(T)) : a = Append(fr, v)
      BY AppendProperties
    <2>2. Len(a) = l + 1 /\ a[l + 1] = v /\ \A i \in 1..l : a[i] = fr[i]
      BY <1>3, <2>1, BeforeAppend
    <2>3. PICK b : b = [ps EXCEPT ![l + 1] = v]
      OBVIOUS
    <2>4. /\ b \in Seq(Seq(T)) /\ Len(b) = l + 1
          /\ \A i \in 1..l + 1 : b[i] = IF i = l + 1 THEN v ELSE ps[i]
      <3>1. l + 1 \in 1..Len(ps)
        BY <1>4
      <3> QED BY ONLY <1>1, <1>4, <2>3, <3>1, v \in Seq(T), ExceptSeq
    <2>5. \A i \in 1..l + 1 : b[i] = a[i]
      <3>1. \A i \in 1..l + 1 : i = l + 1 \/ i \in 1..l
        BY ONLY l \in Nat
      <3> QED BY ONLY <1>4, <2>2, <2>4, <3>1
    <2>6. b = a
      BY ONLY <2>1, <2>2, <2>4, <2>5, SeqEqual
    <2> QED BY <2>1, <2>3, <2>6
  <1> QED BY <1>2, <1>4, <1>5 DEF LastIs

\* A text without the mark is one part.
LEMMA SplitUnmarked ==
    ASSUME NEW T, NEW m, m \notin T, NEW s \in Seq(T)
    PROVE  SplitAt(s, m) = <<s>>
  <1> DEFINE G == {t \in Seq(T) : SplitAt(t, m) = <<t>>}
  <1>1. <<>> \in G
    <2>1. SplitAt(<<>>, m) = Undivided
      BY SplitOn
    <2> QED BY <2>1, EmptySeq DEF Undivided
  <1>2. ASSUME NEW t \in G, NEW c \in T PROVE Append(t, c) \in G
    <2>1. t \in Seq(T) /\ Append(t, c) \in Seq(T) /\ SplitAt(t, m) = <<t>>
      BY AppendProperties
    <2>2. SplitAt(Append(t, c), m) = Divided(<<t>>, c, m)
      BY <2>1, SplitOn
    <2>3. Divided(<<t>>, c, m) = [<<t>> EXCEPT ![1] = Append(t, c)]
      <3>1. c # m /\ Len(<<t>>) = 1 /\ <<t>>[1] = t
        OBVIOUS
      <3> QED BY <3>1 DEF Divided
    <2>4. [<<t>> EXCEPT ![1] = Append(t, c)] = <<Append(t, c)>>
      OBVIOUS
    <2> QED BY <2>1, <2>2, <2>3, <2>4
  <1>3. G \subseteq Seq(T)
    OBVIOUS
  <1> HIDE DEF G
  <1>4. s \in G
    BY <1>1, <1>2, <1>3, SeqByAppend
  <1> QED BY <1>4 DEF G

\* A text with the mark has two parts at least.
LEMMA SplitMarked ==
    ASSUME NEW T, NEW m, NEW s \in Seq(T), m \in Range(s)
    PROVE  Len(SplitAt(s, m)) >= 2
  <1> DEFINE G == {t \in Seq(T) : m \in Range(t) => Len(SplitAt(t, m)) >= 2}
  <1>1. <<>> \in G
    BY EmptySeq DEF Range
  <1>2. ASSUME NEW t \in G, NEW c \in T PROVE Append(t, c) \in G
    <2>1. t \in Seq(T) /\ Append(t, c) \in Seq(T) /\ Range(Append(t, c)) = Range(t) \cup {c}
      BY AppendProperties, RangeOfAppend
    <2>2. PICK ps : ps = SplitAt(t, m)
      OBVIOUS
    <2>3. ps \in PartsOf(But(T, m)) /\ SplitAt(Append(t, c), m) = Divided(ps, c, m)
      BY <2>1, <2>2, SplitOn
    <2>4. PICK l \in Nat \ {0} : l = Len(ps)
      BY <2>3, DividedType
    <2>5. ps \in Seq(Seq(But(T, m))) /\ <<>> \in Seq(But(T, m))
      BY <2>3, EmptySeq DEF PartsOf
    <2>6. CASE c = m
      <3>1. Len(Append(ps, <<>>)) = l + 1
        BY <2>4, <2>5, AppendProperties
      <3> QED BY <2>1, <2>3, <2>4, <2>6, <3>1 DEF Divided
    <2>7. CASE c # m
      <3>1. Append(ps[l], c) \in Seq(But(T, m)) /\ l \in 1..Len(ps)
        BY <2>3, <2>4, <2>7, DividedType
      <3>2. PICK e \in Seq(But(T, m)) : e = Append(ps[l], c)
        BY <3>1
      <3>3. Len([ps EXCEPT ![l] = e]) = l
        BY <2>4, <2>5, <3>1, ExceptSeq
      <3>4. Divided(ps, c, m) = [ps EXCEPT ![l] = e]
        BY <2>4, <2>7, <3>2 DEF Divided
      <3> QED BY <2>1, <2>2, <2>3, <2>4, <2>7, <3>3, <3>4
    <2> QED BY <2>6, <2>7
  <1>3. G \subseteq Seq(T)
    OBVIOUS
  <1> HIDE DEF G
  <1>4. s \in G
    BY <1>1, <1>2, <1>3, SeqByAppend
  <1> QED BY <1>4 DEF G

\* How the parts go on, told by their last one.
LEMMA SplitMore ==
    ASSUME NEW T, NEW m, NEW t \in Seq(T), NEW c \in T
    PROVE  \E fr \in Seq(Seq(But(T, m))), w \in Seq(But(T, m)) :
              /\ SplitAt(t, m) = Append(fr, w)
              /\ c = m => SplitAt(Append(t, c), m) = Append(Append(fr, w), <<>>)
              /\ c # m => /\ SplitAt(Append(t, c), m) = Append(fr, Append(w, c))
                          /\ Append(w, c) \in Seq(But(T, m))
  <1>1. PICK ps : ps = SplitAt(t, m)
    OBVIOUS
  <1>2. ps \in PartsOf(But(T, m)) /\ SplitAt(Append(t, c), m) = Divided(ps, c, m)
    BY <1>1, SplitOn
  <1>3. PICK fr \in Seq(Seq(But(T, m))), w \in Seq(But(T, m)) : LastIs(ps, fr, w, But(T, m))
    BY ONLY <1>2, PartsEnd
  <1>4. c # m => Append(w, c) \in Seq(But(T, m))
    BY <1>2, <1>3, DividedType DEF LastIs
  <1>5. c # m => Divided(ps, c, m) = Append(fr, Append(w, c))
    BY <1>3, <1>4 DEF Divided, LastIs
  <1>6. c = m => Divided(ps, c, m) = Append(Append(fr, w), <<>>)
    BY <1>3 DEF Divided, LastIs
  <1>7. ps = Append(fr, w)
    BY <1>3 DEF LastIs
  <1> QED BY <1>1, <1>2, <1>4, <1>5, <1>6, <1>7

\* The last part is empty at the start and behind a mark.
LEMMA LastPart ==
    ASSUME NEW T, NEW m, NEW t \in Seq(T), NEW fr \in Seq(Seq(But(T, m))), NEW w \in Seq(But(T, m)),
           SplitAt(t, m) = Append(fr, w)
    PROVE  w = <<>> <=> t = <<>> \/ t[Len(t)] = m
  <1>1. CASE t = <<>>
    <2>1. Append(fr, w) = Undivided
      BY <1>1, SplitOn
    <2>2. Append(fr, w)[Len(Append(fr, w))] = w
      BY AppendProperties
    <2>3. Undivided[Len(Undivided)] = <<>>
      BY DEF Undivided
    <2> QED BY <1>1, <2>1, <2>2, <2>3
  <1>2. CASE t # <<>>
    <2>1. PICK u \in Seq(T), c \in T : t = Append(u, c)
      BY <1>2, SequenceEmptyOrAppend
    <2>2. t[Len(t)] = c
      BY <2>1, AppendProperties
    <2>3. PICK gr \in Seq(Seq(But(T, m))), v \in Seq(But(T, m)) :
              /\ SplitAt(u, m) = Append(gr, v)
              /\ c = m => SplitAt(t, m) = Append(Append(gr, v), <<>>)
              /\ c # m => /\ SplitAt(t, m) = Append(gr, Append(v, c))
                          /\ Append(v, c) \in Seq(But(T, m))
      <3>1. \E gr \in Seq(Seq(But(T, m))), v \in Seq(But(T, m)) :
                /\ SplitAt(u, m) = Append(gr, v)
                /\ c = m => SplitAt(Append(u, c), m) = Append(Append(gr, v), <<>>)
                /\ c # m => /\ SplitAt(Append(u, c), m) = Append(gr, Append(v, c))
                            /\ Append(v, c) \in Seq(But(T, m))
        BY ONLY u \in Seq(T), c \in T, SplitMore
      <3> QED BY ONLY <2>1, <3>1
    <2>4. \A a \in Seq(Seq(But(T, m))), x \in Seq(But(T, m)) :
              Append(fr, w) = Append(a, x) => w = x
      BY AppendInjective
    <2>5. Append(gr, v) \in Seq(Seq(But(T, m))) /\ <<>> \in Seq(But(T, m))
      BY AppendProperties, EmptySeq
    <2>6. c = m => w = <<>>
      BY <2>3, <2>4, <2>5
    <2>7. c # m => w = Append(v, c) /\ Append(v, c) # <<>>
      <3>1. c # m => Append(v, c) # <<>>
        <4>1. c # m => c \in But(T, m)
          BY DEF But
        <4> QED BY ONLY <4>1, v \in Seq(But(T, m)), AppendProperties
      <3> QED BY <2>3, <2>4, <3>1
    <2> QED BY <1>2, <2>2, <2>6, <2>7
  <1> QED BY <1>1, <1>2

\* Parts without the mark are parts.
LEMMA ButIsLess ==
    ASSUME NEW T, NEW m
    PROVE  /\ \A w \in Seq(But(T, m)) : w \in Seq(T)
           /\ \A ps \in Seq(Seq(But(T, m))) : ps \in Seq(Seq(T))
           /\ \A ps \in PartsOf(But(T, m)) : ps \in Seq(Seq(T))
  <1>1. But(T, m) \subseteq T
    BY DEF But
  <1>2. \A w \in Seq(But(T, m)) : w \in Seq(T)
    BY <1>1, SeqMonotonic
  <1>3. Seq(But(T, m)) \subseteq Seq(T)
    BY <1>2
  <1>4. \A ps \in Seq(Seq(But(T, m))) : ps \in Seq(Seq(T))
    BY <1>3, SeqMonotonic
  <1> QED BY <1>2, <1>4 DEF PartsOf

\* Normalized, with a name for the blank.
LEMMA NormalizedIs ==
    ASSUME NEW t
    PROVE  Normalized(t) = JoinWith(SplitAt(t, Blank), <<Blank>>)
  BY Zenon DEF Normalized, Blank

\* Normalized, symbol by symbol: a blank counts when a letter follows.
LEMMA NormalizedOn ==
    ASSUME NEW T, Blank \in T, NEW t \in Seq(T), NEW c \in T
    PROVE  /\ Normalized(t) \in Seq(T)
           /\ c = Blank => Normalized(Append(t, c)) = Normalized(t)
           /\ c # Blank /\ (t = <<>> \/ t[Len(t)] = Blank) =>
                 Normalized(Append(t, c)) = Joined(Normalized(t), <<c>>, <<Blank>>)
           /\ c # Blank /\ ~(t = <<>> \/ t[Len(t)] = Blank) =>
                 Normalized(Append(t, c)) = Append(Normalized(t), c)
  <1>1. <<Blank>> \in Seq(T)
    OBVIOUS
  <1>2. PICK g : g = <<Blank>>
    OBVIOUS
  <1>3. g \in Seq(T)
    BY <1>1, <1>2
  <1>4. \A s : Normalized(s) = JoinWith(SplitAt(s, Blank), g)
    BY <1>2, NormalizedIs
  <1>5. SplitAt(t, Blank) \in PartsOf(But(T, Blank))
    BY SplitOn
  <1>6. Normalized(t) \in Seq(T)
    <2>1. SplitAt(t, Blank) \in Seq(Seq(T))
      BY <1>5, ButIsLess
    <2> QED BY <1>3, <1>4, <2>1, JoinOn
  <1>7. PICK fr \in Seq(Seq(But(T, Blank))), w \in Seq(But(T, Blank)) :
            /\ SplitAt(t, Blank) = Append(fr, w)
            /\ c = Blank => SplitAt(Append(t, c), Blank) = Append(Append(fr, w), <<>>)
            /\ c # Blank => /\ SplitAt(Append(t, c), Blank) = Append(fr, Append(w, c))
                            /\ Append(w, c) \in Seq(But(T, Blank))
    BY ONLY t \in Seq(T), c \in T, SplitMore
  <1>8. fr \in Seq(Seq(T)) /\ w \in Seq(T) /\ <<>> \in Seq(T)
    BY ButIsLess, EmptySeq
  <1>9. PICK x : x = JoinWith(fr, g)
    OBVIOUS
  <1>10. x \in Seq(T)
    BY <1>3, <1>8, <1>9, JoinOn
  <1>11. Normalized(t) = Joined(x, w, g)
    BY <1>3, <1>4, <1>7, <1>8, <1>9, JoinOn
  <1>12. ASSUME c = Blank PROVE Normalized(Append(t, c)) = Normalized(t)
    <2>1. Append(fr, w) \in Seq(Seq(T))
      BY <1>8, AppendProperties
    <2>2. Normalized(Append(t, c)) = Joined(JoinWith(Append(fr, w), g), <<>>, g)
      BY <1>3, <1>4, <1>7, <1>8, <1>12, <2>1, JoinOn
    <2> QED BY <1>4, <1>7, <2>2 DEF Joined
  <1>13. ASSUME c # Blank PROVE Normalized(Append(t, c)) = Joined(x, Append(w, c), g)
    <2>1. Append(w, c) \in Seq(T)
      BY <1>7, <1>13, ButIsLess
    <2> QED BY <1>3, <1>4, <1>7, <1>8, <1>9, <1>13, <2>1, JoinOn
  <1>14. w = <<>> <=> t = <<>> \/ t[Len(t)] = Blank
    BY <1>7, LastPart
  <1>15. ASSUME c # Blank, w = <<>>
         PROVE  Normalized(Append(t, c)) = Joined(Normalized(t), <<c>>, g)
    <2>1. Append(w, c) = <<c>>
      BY <1>15
    <2>2. Normalized(t) = x
      BY <1>11, <1>15 DEF Joined
    <2> QED BY <1>13, <1>15, <2>1, <2>2
  <1>16. ASSUME c # Blank, w # <<>>
         PROVE  Normalized(Append(t, c)) = Append(Normalized(t), c)
    <2>1. Append(w, c) # <<>>
      BY <1>8, AppendProperties
    <2>2. CASE x = <<>>
      <3>1. Normalized(t) = w /\ Normalized(Append(t, c)) = Append(w, c)
        BY ONLY <1>11, <1>13, <1>16, <2>1, <2>2 DEF Joined
      <3> QED BY <3>1
    <2>3. CASE x # <<>>
      <3>1. Normalized(t) = x \o g \o w /\ Normalized(Append(t, c)) = x \o g \o Append(w, c)
        BY ONLY <1>11, <1>13, <1>16, <2>1, <2>3 DEF Joined
      <3>2. x \o g \in Seq(T)
        BY <1>3, <1>10, ConcatProperties
      <3>3. (x \o g) \o Append(w, c) = Append((x \o g) \o w, c)
        BY <1>8, <3>2, ConcatAppend
      <3> QED BY <3>1, <3>3
    <2> QED BY <2>2, <2>3
  <1> QED BY <1>2, <1>6, <1>12, <1>14, <1>15, <1>16

\* Filtering what has been filtered.
LEMMA OnlyOfOnly ==
    ASSUME NEW T, NEW L, NEW M, \A c \in T : c \in L => c \in M, NEW s \in Seq(T)
    PROVE  Only(L, Only(M, s)) = Only(L, s)
  <1> DEFINE G == {t \in Seq(T) : Only(L, Only(M, t)) = Only(L, t)}
  <1>1. <<>> \in G
    BY EmptySeq, OnlyOfEmpty
  <1>2. ASSUME NEW t \in G, NEW c \in T PROVE Append(t, c) \in G
    <2>1. t \in Seq(T) /\ Append(t, c) \in Seq(T) /\ Only(L, Only(M, t)) = Only(L, t)
      BY AppendProperties
    <2>2. Only(M, t) \in Seq(T)
      BY <2>1, OnlyType
    <2>3. Only(M, Append(t, c)) = IF c \in M THEN Append(Only(M, t), c) ELSE Only(M, t)
      BY ONLY <2>1, c \in T, OnlyOfAppend
    <2>4. Only(L, Append(t, c)) = IF c \in L THEN Append(Only(L, t), c) ELSE Only(L, t)
      BY ONLY <2>1, c \in T, OnlyOfAppend
    <2>5. Only(L, Append(Only(M, t), c)) = IF c \in L THEN Append(Only(L, t), c) ELSE Only(L, t)
      BY ONLY <2>1, <2>2, c \in T, OnlyOfAppend
    <2> QED BY <2>1, <2>3, <2>4, <2>5
  <1>3. G \subseteq Seq(T)
    OBVIOUS
  <1> HIDE DEF G
  <1>4. s \in G
    BY <1>1, <1>2, <1>3, SeqByAppend
  <1> QED BY <1>4 DEF G

\* The parts are all there is but the marks.
LEMMA PartsAreAll ==
    ASSUME NEW T, NEW m, NEW s \in Seq(T)
    PROVE  FlattenSeq(SplitAt(s, m)) = Only(But(T, m), s)
  <1> DEFINE G == {t \in Seq(T) : FlattenSeq(SplitAt(t, m)) = Only(But(T, m), t)}
  <1>1. <<>> \in G
    <2>1. SplitAt(<<>>, m) = Append(<<>>, <<>>)
      <3>1. Undivided = Append(<<>>, <<>>)
        BY DEF Undivided
      <3> QED BY <3>1, SplitOn
    <2>2. <<>> \in Seq(T) /\ <<>> \in Seq(Seq(T))
      BY EmptySeq
    <2>3. FlattenSeq(Append(<<>>, <<>>)) = FlattenSeq(<<>>) \o <<>>
      BY <2>2, FlatOfAppend
    <2>4. FlattenSeq(<<>>) \o <<>> = <<>>
      BY FlatOfEmpty
    <2> QED BY <2>1, <2>2, <2>3, <2>4, OnlyOfEmpty
  <1>2. ASSUME NEW t \in G, NEW c \in T PROVE Append(t, c) \in G
    <2>1. /\ t \in Seq(T) /\ Append(t, c) \in Seq(T)
          /\ FlattenSeq(SplitAt(t, m)) = Only(But(T, m), t)
      BY AppendProperties
    <2>2. PICK fr \in Seq(Seq(But(T, m))), w \in Seq(But(T, m)) :
              /\ SplitAt(t, m) = Append(fr, w)
              /\ c = m => SplitAt(Append(t, c), m) = Append(Append(fr, w), <<>>)
              /\ c # m => /\ SplitAt(Append(t, c), m) = Append(fr, Append(w, c))
                          /\ Append(w, c) \in Seq(But(T, m))
      BY ONLY <2>1, c \in T, SplitMore
    <2>3. fr \in Seq(Seq(T)) /\ w \in Seq(T) /\ <<>> \in Seq(T) /\ Append(fr, w) \in Seq(Seq(T))
      BY ButIsLess, EmptySeq, AppendProperties
    <2>4. FlattenSeq(fr) \in Seq(T) /\ FlattenSeq(Append(fr, w)) = FlattenSeq(fr) \o w
      BY <2>3, FlatType, FlatOfAppend
    <2>5. Only(But(T, m), Append(t, c)) = IF c \in But(T, m) THEN Append(Only(But(T, m), t), c)
                                                              ELSE Only(But(T, m), t)
      BY ONLY <2>1, c \in T, OnlyOfAppend
    <2>6. CASE c = m
      <3>1. FlattenSeq(Append(Append(fr, w), <<>>)) = FlattenSeq(Append(fr, w)) \o <<>>
        BY <2>3, FlatOfAppend
      <3>2. FlattenSeq(Append(fr, w)) \o <<>> = FlattenSeq(Append(fr, w))
        BY <2>3, FlatType, ConcatEmptySeq
      <3>3. c \notin But(T, m)
        BY <2>6 DEF But
      <3> QED BY <2>1, <2>2, <2>5, <2>6, <3>1, <3>2, <3>3
    <2>7. CASE c # m
      <3>1. Append(w, c) \in Seq(T) /\ c \in But(T, m)
        BY <2>3, <2>7, AppendProperties DEF But
      <3>2. FlattenSeq(Append(fr, Append(w, c))) = FlattenSeq(fr) \o Append(w, c)
        BY <2>3, <3>1, FlatOfAppend
      <3>3. FlattenSeq(fr) \o Append(w, c) = Append(FlattenSeq(fr) \o w, c)
        BY <2>3, <2>4, ConcatAppend
      <3> QED BY <2>1, <2>2, <2>4, <2>5, <2>7, <3>1, <3>2, <3>3
    <2> QED BY <2>6, <2>7
  <1>3. G \subseteq Seq(T)
    OBVIOUS
  <1> HIDE DEF G
  <1>4. s \in G
    BY <1>1, <1>2, <1>3, SeqByAppend
  <1> QED BY <1>4 DEF G

\* Joining loses none, and adds only glue.
LEMMA OnlyOfJoined ==
    ASSUME NEW T, NEW L, NEW glue \in Seq(T), Only(L, glue) = <<>>, NEW x \in Seq(T),
           NEW p \in Seq(T)
    PROVE  Only(L, Joined(x, p, glue)) = Only(L, x) \o Only(L, p)
  <1>1. Only(L, x) \in Seq(T) /\ Only(L, p) \in Seq(T) /\ x \o glue \in Seq(T)
    BY OnlyType, ConcatProperties
  <1>2. CASE p = <<>>
    <2>1. Only(L, p) = <<>> /\ Only(L, x) \o <<>> = Only(L, x)
      BY <1>1, <1>2, OnlyOfEmpty, ConcatEmptySeq
    <2> QED BY <1>2, <2>1 DEF Joined
  <1>3. CASE p # <<>> /\ x = <<>>
    <2>1. Only(L, x) = <<>> /\ <<>> \o Only(L, p) = Only(L, p)
      BY <1>1, <1>3, OnlyOfEmpty, ConcatEmptySeq
    <2> QED BY <1>3, <2>1 DEF Joined
  <1>4. CASE p # <<>> /\ x # <<>>
    <2>1. Only(L, (x \o glue) \o p) = Only(L, x \o glue) \o Only(L, p)
      <3>1. PICK y \in Seq(T) : y = x \o glue
        BY <1>1
      <3>2. Only(L, y \o p) = Only(L, y) \o Only(L, p)
        BY ONLY y \in Seq(T), p \in Seq(T), OnlyOfConcat
      <3> QED BY <3>1, <3>2
    <2>2. Only(L, x \o glue) = Only(L, x) \o <<>>
      <3>1. Only(L, x \o glue) = Only(L, x) \o Only(L, glue)
        BY ONLY x \in Seq(T), glue \in Seq(T), OnlyOfConcat
      <3> QED BY <3>1
    <2>3. Only(L, x) \o <<>> = Only(L, x)
      BY <1>1, ConcatEmptySeq
    <2> QED BY <1>4, <2>1, <2>2, <2>3 DEF Joined
  <1> QED BY <1>2, <1>3, <1>4

\* So the parts are all there is.
LEMMA OnlyOfJoin ==
    ASSUME NEW T, NEW L, NEW glue \in Seq(T), Only(L, glue) = <<>>, NEW s \in Seq(Seq(T))
    PROVE  Only(L, JoinWith(s, glue)) = Only(L, FlattenSeq(s))
  <1> DEFINE G == {ps \in Seq(Seq(T)) : Only(L, JoinWith(ps, glue)) = Only(L, FlattenSeq(ps))}
  <1>1. <<>> \in G
    <2>1. JoinWith(<<>>, glue) = <<>> /\ FlattenSeq(<<>>) = <<>>
      BY JoinOn, FlatOfEmpty
    <2> QED BY <2>1, EmptySeq
  <1>2. ASSUME NEW ps \in G, NEW p \in Seq(T) PROVE Append(ps, p) \in G
    <2>1. /\ ps \in Seq(Seq(T)) /\ Append(ps, p) \in Seq(Seq(T))
          /\ Only(L, JoinWith(ps, glue)) = Only(L, FlattenSeq(ps))
      BY AppendProperties
    <2>2. /\ JoinWith(ps, glue) \in Seq(T)
          /\ JoinWith(Append(ps, p), glue) = Joined(JoinWith(ps, glue), p, glue)
      BY <2>1, JoinOn
    <2>3. Only(L, JoinWith(Append(ps, p), glue)) = Only(L, JoinWith(ps, glue)) \o Only(L, p)
      <3>1. PICK x \in Seq(T) : x = JoinWith(ps, glue)
        BY <2>2
      <3>2. Only(L, Joined(x, p, glue)) = Only(L, x) \o Only(L, p)
        BY ONLY x \in Seq(T), p \in Seq(T), glue \in Seq(T), Only(L, glue) = <<>>, OnlyOfJoined
      <3> QED BY <2>2, <3>1, <3>2
    <2>4. FlattenSeq(ps) \in Seq(T) /\ FlattenSeq(Append(ps, p)) = FlattenSeq(ps) \o p
      BY <2>1, FlatType, FlatOfAppend
    <2>5. Only(L, FlattenSeq(ps) \o p) = Only(L, FlattenSeq(ps)) \o Only(L, p)
      BY ONLY <2>4, p \in Seq(T), OnlyOfConcat
    <2> QED BY <2>1, <2>3, <2>4, <2>5
  <1>3. G \subseteq Seq(Seq(T))
    OBVIOUS
  <1> HIDE DEF G
  <1>4. s \in G
    BY <1>1, <1>2, <1>3, SeqByAppend
  <1> QED BY <1>4 DEF G

\* Normalizing loses no letter.
LEMMA OnlyOfNormalized ==
    ASSUME NEW T, Blank \in T, NEW L, Blank \notin L, NEW t \in Seq(T)
    PROVE  Only(L, Normalized(t)) = Only(L, t)
  <1>1. PICK g \in Seq(T) : g = <<Blank>>
    <2>1. <<Blank>> \in Seq(T)
      OBVIOUS
    <2> QED BY <2>1
  <1>2. Only(L, g) = <<>>
    <2>1. <<>> \in Seq(T) /\ g = Append(<<>>, Blank)
      BY <1>1
    <2>2. Only(L, Append(<<>>, Blank)) = Only(L, <<>>)
      <3>1. \A e \in Seq(T) : Only(L, Append(e, Blank)) = Only(L, e)
        BY ONLY Blank \in T, Blank \notin L, OnlyOfAppend
      <3> QED BY <2>1, <3>1
    <2> QED BY <2>1, <2>2, OnlyOfEmpty
  <1>3. PICK ps \in Seq(Seq(T)) : ps = SplitAt(t, Blank)
    <2>1. SplitAt(t, Blank) \in PartsOf(But(T, Blank))
      BY SplitOn
    <2> QED BY <2>1, ButIsLess
  <1>4. Only(L, JoinWith(ps, g)) = Only(L, FlattenSeq(ps))
    BY <1>2, OnlyOfJoin
  <1>5. FlattenSeq(ps) = Only(But(T, Blank), t)
    BY <1>3, PartsAreAll
  <1>6. Only(L, Only(But(T, Blank), t)) = Only(L, t)
    <2>1. \A c \in T : c \in L => c \in But(T, Blank)
      BY DEF But
    <2> QED BY <2>1, OnlyOfOnly
  <1> QED BY <1>1, <1>3, <1>4, <1>5, <1>6, NormalizedIs

\* A function over a sequence.
Mapped(h, s) == [i \in DOMAIN s |-> h[s[i]]]

\* One element more is one value more.
LEMMA MappedOn ==
    ASSUME NEW D, NEW R, NEW h \in [D -> R]
    PROVE  /\ Mapped(h, <<>>) = <<>>
           /\ \A s \in Seq(D) : Mapped(h, s) \in Seq(R)
           /\ \A s \in Seq(D), x \in D : Mapped(h, Append(s, x)) = Append(Mapped(h, s), h[x])
  <1>1. ASSUME NEW s \in Seq(D) PROVE Mapped(h, s) \in Seq(R) /\ Len(Mapped(h, s)) = Len(s)
    <2>1. s \in [1..Len(s) -> D] /\ Len(s) \in Nat
      OBVIOUS
    <2>2. Mapped(h, s) \in [1..Len(s) -> R]
      BY ONLY <2>1, h \in [D -> R] DEF Mapped
    <2> QED BY ONLY <2>1, <2>2
  <1>2. ASSUME NEW s \in Seq(D), NEW x \in D
        PROVE  Mapped(h, Append(s, x)) = Append(Mapped(h, s), h[x])
    <2>1. PICK k \in Nat, r \in Seq(D) : /\ k = Len(s) /\ r = Append(s, x) /\ Len(r) = k + 1
                                         /\ r[k + 1] = x /\ \A i \in 1..k : r[i] = s[i]
      <3>1. PICK k \in Nat : k = Len(s)
        OBVIOUS
      <3>2. PICK r \in Seq(D) : r = Append(s, x)
        BY AppendProperties
      <3>3. Len(r) = k + 1 /\ r[k + 1] = x /\ \A i \in 1..k : r[i] = s[i]
        BY <3>1, <3>2
      <3> QED BY <3>1, <3>2, <3>3
    <2>2. PICK u \in Seq(R) : u = Mapped(h, r) /\ Len(u) = k + 1
      BY <1>1, <2>1
    <2>3. PICK w \in Seq(R) : w = Mapped(h, s) /\ Len(w) = k
      BY <1>1, <2>1
    <2>4. PICK y \in R : y = h[x]
      OBVIOUS
    <2>5. PICK z \in Seq(R) : /\ z = Append(w, y) /\ Len(z) = k + 1
                              /\ z[k + 1] = y /\ \A i \in 1..k : z[i] = w[i]
      <3>1. PICK z \in Seq(R) : z = Append(w, y)
        BY ONLY w \in Seq(R), y \in R, AppendProperties
      <3>2. Len(z) = k + 1 /\ z[k + 1] = y /\ \A i \in 1..k : z[i] = w[i]
        BY ONLY <2>3, <3>1, w \in Seq(R), y \in R, k \in Nat
      <3> QED BY <3>1, <3>2
    <2>6. ASSUME NEW i \in 1..k + 1 PROVE u[i] = z[i]
      <3>1. u[i] = h[r[i]]
        BY ONLY <2>1, <2>2, i \in 1..k + 1, r \in Seq(D), k \in Nat DEF Mapped
      <3>2. i = k + 1 \/ i \in 1..k
        OBVIOUS
      <3>3. CASE i = k + 1
        BY <2>1, <2>4, <2>5, <3>1, <3>3
      <3>4. CASE i \in 1..k
        <4>1. w[i] = h[s[i]]
          BY ONLY <2>1, <2>3, <3>4, s \in Seq(D), k \in Nat DEF Mapped
        <4> QED BY <2>1, <2>5, <3>1, <3>4, <4>1
      <3> QED BY ONLY <3>2, <3>3, <3>4
    <2>7. u = z
      BY ONLY <2>2, <2>5, <2>6, u \in Seq(R), z \in Seq(R), SeqEqual
    <2> QED BY <2>1, <2>2, <2>3, <2>4, <2>5, <2>7
  <1>3. Mapped(h, <<>>) = <<>>
    <2>1. <<>> \in Seq(D) /\ Len(<<>>) = 0
      BY EmptySeq
    <2>2. Mapped(h, <<>>) \in Seq(R) /\ Len(Mapped(h, <<>>)) = 0
      BY <1>1, <2>1
    <2> QED BY <2>2, EmptySeq
  <1> QED BY <1>1, <1>2, <1>3

\* The segments that are joined.
Sgs(ps) == [i \in DOMAIN ps |-> Normalized(ps[i])]

\* The segments, part by part.
LEMMA SgsOn ==
    ASSUME NEW T, Blank \in T
    PROVE  /\ Sgs(<<>>) = <<>>
           /\ \A ps \in Seq(Seq(T)) : Sgs(ps) \in Seq(Seq(T))
           /\ \A ps \in Seq(Seq(T)), p \in Seq(T) :
                  Sgs(Append(ps, p)) = Append(Sgs(ps), Normalized(p))
  <1>1. \A p \in Seq(T) : Normalized(p) \in Seq(T)
    BY NormalizedOn
  <1>2. PICK h \in [Seq(T) -> Seq(T)] : \A p \in Seq(T) : h[p] = Normalized(p)
    <2>1. [p \in Seq(T) |-> Normalized(p)] \in [Seq(T) -> Seq(T)]
      BY <1>1
    <2> QED BY <2>1
  <1>3. ASSUME NEW ps \in Seq(Seq(T)) PROVE Sgs(ps) = Mapped(h, ps)
    <2>1. \A i \in DOMAIN ps : ps[i] \in Seq(T)
      OBVIOUS
    <2> QED BY ONLY <1>2, <2>1 DEF Sgs, Mapped
  <1>4. /\ Mapped(h, <<>>) = <<>>
        /\ \A ps \in Seq(Seq(T)) : Mapped(h, ps) \in Seq(Seq(T))
        /\ \A ps \in Seq(Seq(T)), p \in Seq(T) :
               Mapped(h, Append(ps, p)) = Append(Mapped(h, ps), h[p])
    BY ONLY h \in [Seq(T) -> Seq(T)], MappedOn
  <1>5. <<>> \in Seq(Seq(T)) /\ \A ps \in Seq(Seq(T)), p \in Seq(T) : Append(ps, p) \in Seq(Seq(T))
    BY ONLY EmptySeq, AppendProperties
  <1> QED BY ONLY <1>2, <1>3, <1>4, <1>5

\* Separated, with a name for the blank.
LEMMA SeparatedIs ==
    ASSUME NEW m
    PROVE  Separated(<<m>>) = <<Blank>> \o <<m>> \o <<Blank>>
  <1>1. PICK sep : sep = <<m>>
    OBVIOUS
  <1>2. Separated(sep) = <<Blank>> \o (IF sep = <<>> THEN <<"|">> ELSE sep) \o <<Blank>>
    BY Zenon DEF Separated, Blank
  <1>3. sep # <<>>
    BY <1>1
  <1> QED BY <1>1, <1>2, <1>3

\* The separator has no letter but its mark.
LEMMA SeparatedOn ==
    ASSUME NEW T, Blank \in T, NEW m \in T
    PROVE  /\ Separated(<<m>>) \in Seq(T)
           /\ Len(Separated(<<m>>)) = 3
           /\ Separated(<<m>>)[1] = Blank /\ Separated(<<m>>)[2] = m /\ Separated(<<m>>)[3] = Blank
           /\ \A L : Blank \notin L /\ m \notin L => Only(L, Separated(<<m>>)) = <<>>
  <1>1. PICK g \in Seq(T) : /\ g = Separated(<<m>>) /\ Len(g) = 3
                            /\ g[1] = Blank /\ g[2] = m /\ g[3] = Blank
    <2>1. PICK g : g = <<Blank>> \o <<m>> \o <<Blank>>
      OBVIOUS
    <2>2. g \in Seq(T) /\ Len(g) = 3 /\ g[1] = Blank /\ g[2] = m /\ g[3] = Blank
      BY <2>1
    <2> QED BY <2>1, <2>2, SeparatedIs
  <1>2. ASSUME NEW L, Blank \notin L, m \notin L PROVE Only(L, g) = <<>>
    <2>1. <<>> \in Seq(T) /\ <<Blank>> \in Seq(T) /\ <<Blank, m>> \in Seq(T)
      OBVIOUS
    <2>2. PICK a \in Seq(T), b \in Seq(T), c \in Seq(T) :
              a = <<>> /\ b = Append(a, Blank) /\ c = Append(b, m) /\ g = Append(c, Blank)
      <3>1. Append(Append(Append(<<>>, Blank), m), Blank) = g
        BY <1>1
      <3>2. Append(<<>>, Blank) \in Seq(T) /\ Append(Append(<<>>, Blank), m) \in Seq(T)
        OBVIOUS
      <3> QED BY <2>1, <3>1, <3>2
    <2>3. Only(L, g) = Only(L, c) /\ Only(L, c) = Only(L, b) /\ Only(L, b) = Only(L, a)
      <3>1. \A e \in Seq(T) : Only(L, Append(e, Blank)) = Only(L, e)
        BY ONLY Blank \in T, <1>2, OnlyOfAppend
      <3>2. \A e \in Seq(T) : Only(L, Append(e, m)) = Only(L, e)
        BY ONLY m \in T, <1>2, OnlyOfAppend
      <3> QED BY ONLY <2>2, <3>1, <3>2, a \in Seq(T), b \in Seq(T), c \in Seq(T)
    <2> QED BY <2>2, <2>3, OnlyOfEmpty
  <1> QED BY <1>1, <1>2

\* JoinSegments, part by part.
LEMMA JoinSegmentsOn ==
    ASSUME NEW T, Blank \in T, NEW sep, Separated(sep) \in Seq(T)
    PROVE  /\ JoinSegments(<<>>, sep) = <<>>
           /\ \A ps \in Seq(Seq(T)) : JoinSegments(ps, sep) \in Seq(T)
           /\ \A ps \in Seq(Seq(T)), p \in Seq(T) :
                  JoinSegments(Append(ps, p), sep)
                      = Joined(JoinSegments(ps, sep), Normalized(p), Separated(sep))
  <1>1. \A ps : JoinSegments(ps, sep) = JoinWith(Sgs(ps), Separated(sep))
    BY DEF JoinSegments, Sgs
  <1>2. PICK g \in Seq(T) : g = Separated(sep)
    OBVIOUS
  <1>3. JoinSegments(<<>>, sep) = <<>>
    BY <1>1, SgsOn, JoinOn
  <1>4. ASSUME NEW ps \in Seq(Seq(T)) PROVE JoinSegments(ps, sep) \in Seq(T)
    <2>1. Sgs(ps) \in Seq(Seq(T))
      BY SgsOn
    <2> QED BY <1>1, <1>2, <2>1, JoinOn
  <1>5. ASSUME NEW ps \in Seq(Seq(T)), NEW p \in Seq(T)
        PROVE  JoinSegments(Append(ps, p), sep)
                   = Joined(JoinSegments(ps, sep), Normalized(p), Separated(sep))
    <2>1. PICK s \in Seq(Seq(T)), n \in Seq(T) : s = Sgs(ps) /\ n = Normalized(p)
      BY SgsOn, NormalizedOn
    <2>2. Sgs(Append(ps, p)) = Append(s, n)
      BY <2>1, SgsOn
    <2>3. JoinWith(Append(s, n), g) = Joined(JoinWith(s, g), n, g)
      BY ONLY s \in Seq(Seq(T)), n \in Seq(T), g \in Seq(T), JoinOn
    <2> QED BY <1>1, <1>2, <2>1, <2>2, <2>3
  <1> QED BY <1>3, <1>4, <1>5

\* One sequence more is filtered by itself.
LEMMA OnlyOfFlat ==
    ASSUME NEW T, NEW L, NEW ps \in Seq(Seq(T)), NEW p \in Seq(T)
    PROVE  Only(L, FlattenSeq(Append(ps, p))) = Only(L, FlattenSeq(ps)) \o Only(L, p)
  <1>1. PICK a \in Seq(T) : a = FlattenSeq(ps)
    BY FlatType
  <1>2. FlattenSeq(Append(ps, p)) = a \o p
    BY <1>1, FlatOfAppend
  <1>3. Only(L, a \o p) = Only(L, a) \o Only(L, p)
    BY ONLY a \in Seq(T), p \in Seq(T), OnlyOfConcat
  <1> QED BY <1>1, <1>2, <1>3

\* Joining segments loses no letter.
LEMMA OnlyOfSegments ==
    ASSUME NEW T, Blank \in T, NEW L, Blank \notin L, NEW sep, Separated(sep) \in Seq(T),
           Only(L, Separated(sep)) = <<>>, NEW s \in Seq(Seq(T))
    PROVE  Only(L, JoinSegments(s, sep)) = Only(L, FlattenSeq(s))
  <1> DEFINE G == {ps \in Seq(Seq(T)) : Only(L, JoinSegments(ps, sep)) = Only(L, FlattenSeq(ps))}
  <1>1. <<>> \in G
    <2>1. JoinSegments(<<>>, sep) = <<>> /\ FlattenSeq(<<>>) = <<>>
      BY JoinSegmentsOn, FlatOfEmpty
    <2> QED BY <2>1, EmptySeq
  <1>2. ASSUME NEW ps \in G, NEW p \in Seq(T) PROVE Append(ps, p) \in G
    <2>1. /\ ps \in Seq(Seq(T)) /\ Append(ps, p) \in Seq(Seq(T))
          /\ Only(L, JoinSegments(ps, sep)) = Only(L, FlattenSeq(ps))
      BY AppendProperties
    <2>2. PICK x \in Seq(T), n \in Seq(T), g \in Seq(T) :
              x = JoinSegments(ps, sep) /\ n = Normalized(p) /\ g = Separated(sep)
      BY <2>1, JoinSegmentsOn, NormalizedOn
    <2>3. JoinSegments(Append(ps, p), sep) = Joined(x, n, g)
      BY <2>1, <2>2, JoinSegmentsOn
    <2>4. Only(L, Joined(x, n, g)) = Only(L, x) \o Only(L, n)
      <3>1. Only(L, g) = <<>>
        BY <2>2
      <3> QED BY ONLY <3>1, x \in Seq(T), n \in Seq(T), g \in Seq(T), OnlyOfJoined
    <2>5. Only(L, n) = Only(L, p)
      BY <2>2, OnlyOfNormalized
    <2>6. Only(L, FlattenSeq(Append(ps, p))) = Only(L, FlattenSeq(ps)) \o Only(L, p)
      BY <2>1, OnlyOfFlat
    <2> QED BY <2>1, <2>2, <2>3, <2>4, <2>5, <2>6
  <1>3. G \subseteq Seq(Seq(T))
    OBVIOUS
  <1> HIDE DEF G
  <1>4. s \in G
    BY <1>1, <1>2, <1>3, SeqByAppend
  <1> QED BY <1>4 DEF G
-------------------------------------------------------------------------------
(* ValueText: tidy texts. *)

\* Tidy, symbol by symbol, with a name for the blank.
TidyAt(t, i, b, m) ==
    /\ t[i] = b => i \in 2..Len(t) - 1 /\ t[i + 1] # b
    /\ t[i] = m => /\ i \in 3..Len(t) - 2
                   /\ t[i - 1] = b /\ t[i + 1] = b
                   /\ t[i - 2] # m /\ t[i + 2] # m
TidyBy(t, b, m) == \A i \in DOMAIN t : TidyAt(t, i, b, m)

\* It is Tidy.
LEMMA TidyIs ==
    ASSUME NEW t, NEW m
    PROVE  Tidy(t, m) <=> TidyBy(t, Blank, m)
  BY Zenon DEF Tidy, TidyBy, TidyAt, Blank

\* A tidy text begins and ends with a letter.
LEMMA TidyEnds ==
    ASSUME NEW T, NEW t \in Seq(T), t # <<>>, NEW b, NEW m, TidyBy(t, b, m)
    PROVE  /\ Len(t) \in Nat \ {0}
           /\ t[1] # b /\ t[1] # m /\ t[Len(t)] # b /\ t[Len(t)] # m
  <1>1. Len(t) \in Nat \ {0} /\ DOMAIN t = 1..Len(t)
    OBVIOUS
  <1>2. TidyAt(t, 1, b, m) /\ TidyAt(t, Len(t), b, m)
    BY <1>1 DEF TidyBy
  <1> QED BY <1>1, <1>2 DEF TidyAt

\* Where a text is part of another, its symbols stay as they are.
LEMMA TidyPart ==
    ASSUME NEW T, NEW a \in Seq(T), NEW b, NEW m, TidyBy(a, b, m),
           NEW t, NEW k \in Nat, NEW n \in Nat, Len(t) = n, k + Len(a) <= n,
           \A i \in 1..Len(a) : t[k + i] = a[i]
    PROVE  \A i \in k + 1..k + Len(a) : TidyAt(t, i, b, m)
  <1> SUFFICES ASSUME NEW i \in k + 1..k + Len(a)
               PROVE  TidyAt(t, i, b, m)
    OBVIOUS
  <1>1. PICK j \in 1..Len(a) : i = k + j
    <2>1. Len(a) \in Nat /\ i - k \in 1..Len(a) /\ i = k + (i - k)
      OBVIOUS
    <2> QED BY <2>1
  <1>2. TidyAt(a, j, b, m)
    BY DEF TidyBy
  <1>3. t[i] = a[j]
    BY <1>1
  <1>4. ASSUME t[i] = b PROVE i \in 2..Len(t) - 1 /\ t[i + 1] # b
    <2>1. j \in 2..Len(a) - 1 /\ a[j + 1] # b
      BY <1>2, <1>3, <1>4 DEF TidyAt
    <2>2. j + 1 \in 1..Len(a) /\ i + 1 = k + (j + 1)
      BY <1>1, <2>1
    <2>3. t[k + (j + 1)] = a[j + 1]
      BY <2>2
    <2> QED BY <1>1, <2>1, <2>2, <2>3
  <1>5. ASSUME t[i] = m
        PROVE  /\ i \in 3..Len(t) - 2
               /\ t[i - 1] = b /\ t[i + 1] = b
               /\ t[i - 2] # m /\ t[i + 2] # m
    <2>1. /\ j \in 3..Len(a) - 2
          /\ a[j - 1] = b /\ a[j + 1] = b
          /\ a[j - 2] # m /\ a[j + 2] # m
      BY <1>2, <1>3, <1>5 DEF TidyAt
    <2>2. /\ j - 1 \in 1..Len(a) /\ i - 1 = k + (j - 1)
          /\ j + 1 \in 1..Len(a) /\ i + 1 = k + (j + 1)
          /\ j - 2 \in 1..Len(a) /\ i - 2 = k + (j - 2)
          /\ j + 2 \in 1..Len(a) /\ i + 2 = k + (j + 2)
      BY <1>1, <2>1
    <2>3. /\ t[i - 1] = a[j - 1] /\ t[i + 1] = a[j + 1]
          /\ t[i - 2] = a[j - 2] /\ t[i + 2] = a[j + 2]
      BY <2>2
    <2>4. i \in 3..Len(t) - 2
      BY <1>1, <2>1
    <2> QED BY <2>1, <2>3, <2>4
  <1> QED BY <1>4, <1>5 DEF TidyAt

\* The symbols of a concatenation.
BothParts(h, a, c) == /\ Len(a) \in Nat /\ Len(c) \in Nat
                      /\ Len(h) = Len(a) + Len(c)
                      /\ \A i \in 1..Len(a) : h[i] = a[i]
                      /\ \A i \in 1..Len(c) : h[Len(a) + i] = c[i]

\* A concatenation has both.
LEMMA ConcatIs ==
    ASSUME NEW T, NEW a \in Seq(T), NEW c \in Seq(T)
    PROVE  a \o c \in Seq(T) /\ BothParts(a \o c, a, c)
  BY DEF BothParts

\* A word is tidy.
LEMMA TidyWord ==
    ASSUME NEW T, NEW w \in Seq(T), NEW b, NEW m, b \notin T, m \notin T
    PROVE  TidyBy(w, b, m)
  BY DEF TidyBy, TidyAt

\* A letter behind a tidy text.
LEMMA TidyAppend ==
    ASSUME NEW T, NEW a \in Seq(T), NEW b, NEW m, TidyBy(a, b, m), NEW c \in T, c # b, c # m
    PROVE  TidyBy(Append(a, c), b, m)
  <1>1. PICK t \in Seq(T), n \in Nat : /\ t = Append(a, c) /\ n = Len(a) /\ Len(t) = n + 1
                                       /\ \A i \in 1..n : t[i] = a[i]
                                       /\ t[n + 1] = c
    <2>1. PICK n \in Nat : n = Len(a)
      OBVIOUS
    <2>2. PICK t \in Seq(T) : t = Append(a, c)
      <3>1. Append(a, c) \in Seq(T)
        OBVIOUS
      <3> QED BY <3>1
    <2>3. Len(t) = n + 1 /\ (\A i \in 1..n : t[i] = a[i]) /\ t[n + 1] = c
      BY <2>1, <2>2
    <2> QED BY <2>1, <2>2, <2>3
  <1>2. \A i \in 1..n : TidyAt(t, i, b, m)
    <2>1. 0 \in Nat /\ n + 1 \in Nat /\ 0 + Len(a) <= n + 1
      BY <1>1
    <2>2. \A i \in 1..Len(a) : t[0 + i] = a[i]
      BY <1>1
    <2>3. \A i \in 0 + 1..0 + Len(a) : TidyAt(t, i, b, m)
      BY ONLY <1>1, <2>1, <2>2, a \in Seq(T), TidyBy(a, b, m), TidyPart
    <2> QED BY <1>1, <2>3
  <1>3. TidyAt(t, n + 1, b, m)
    BY <1>1 DEF TidyAt
  <1>4. DOMAIN t = 1..n + 1
    BY <1>1
  <1>5. \A i \in 1..n + 1 : i \in 1..n \/ i = n + 1
    OBVIOUS
  <1> QED BY <1>1, <1>2, <1>3, <1>4, <1>5 DEF TidyBy

\* Two tidy texts with a blank between them.
LEMMA TidyBlank ==
    ASSUME NEW T, NEW a \in Seq(T), NEW c \in Seq(T), NEW b \in T, NEW m, b # m,
           a # <<>>, c # <<>>, TidyBy(a, b, m), TidyBy(c, b, m)
    PROVE  TidyBy(a \o <<b>> \o c, b, m)
  <1>1. PICK t : t = a \o <<b>> \o c
    OBVIOUS
  <1>2. PICK k \in Nat \ {0}, l \in Nat \ {0} : k = Len(a) /\ l = Len(c)
    OBVIOUS
  <1>3. /\ t \in Seq(T) /\ Len(t) = k + 1 + l
        /\ \A i \in 1..k : t[i] = a[i]
        /\ t[k + 1] = b
        /\ \A i \in 1..l : t[(k + 1) + i] = c[i]
    BY <1>1, <1>2
  <1>4. \A i \in 1..k : TidyAt(t, i, b, m)
    <2>1. 0 \in Nat /\ k + 1 + l \in Nat /\ 0 + Len(a) <= k + 1 + l
      BY <1>2
    <2>2. \A i \in 1..Len(a) : t[0 + i] = a[i]
      BY <1>2, <1>3
    <2>3. \A i \in 0 + 1..0 + Len(a) : TidyAt(t, i, b, m)
      BY ONLY <1>3, <2>1, <2>2, a \in Seq(T), TidyBy(a, b, m), TidyPart
    <2> QED BY <1>2, <2>3
  <1>5. \A i \in (k + 1) + 1..(k + 1) + l : TidyAt(t, i, b, m)
    <2>1. k + 1 \in Nat /\ k + 1 + l \in Nat /\ (k + 1) + Len(c) <= k + 1 + l
      BY <1>2
    <2>2. \A i \in 1..Len(c) : t[(k + 1) + i] = c[i]
      BY <1>2, <1>3
    <2>3. \A i \in (k + 1) + 1..(k + 1) + Len(c) : TidyAt(t, i, b, m)
      BY ONLY <1>3, <2>1, <2>2, c \in Seq(T), TidyBy(c, b, m), TidyPart
    <2> QED BY <1>2, <2>3
  <1>6. TidyAt(t, k + 1, b, m)
    <2>1. c[1] # b
      BY TidyEnds
    <2>2. t[(k + 1) + 1] = c[1]
      BY <1>3
    <2> QED BY <1>2, <1>3, <2>1, <2>2 DEF TidyAt
  <1>7. DOMAIN t = 1..k + 1 + l
    BY <1>3
  <1>8. \A i \in 1..k + 1 + l : i \in 1..k \/ i = k + 1 \/ i \in (k + 1) + 1..(k + 1) + l
    OBVIOUS
  <1> QED BY <1>1, <1>4, <1>5, <1>6, <1>7, <1>8 DEF TidyBy

\* Two tidy texts with a separator between them.
LEMMA TidyMark ==
    ASSUME NEW T, NEW a \in Seq(T), NEW c \in Seq(T), NEW b \in T, NEW m \in T, b # m,
           a # <<>>, c # <<>>, TidyBy(a, b, m), TidyBy(c, b, m),
           NEW g \in Seq(T), Len(g) = 3, g[1] = b, g[2] = m, g[3] = b
    PROVE  TidyBy(a \o g \o c, b, m)
  <1>1. PICK t : t = a \o g \o c
    OBVIOUS
  <1>2. PICK k \in Nat \ {0}, l \in Nat \ {0} : k = Len(a) /\ l = Len(c)
    OBVIOUS
  <1>3. /\ t \in Seq(T) /\ Len(t) = k + 3 + l
        /\ \A i \in 1..k : t[i] = a[i]
        /\ t[k + 1] = b /\ t[k + 2] = m /\ t[k + 3] = b
        /\ \A i \in 1..l : t[(k + 3) + i] = c[i]
    <2>1. PICK h \in Seq(T) : /\ h = a \o g /\ Len(h) = k + 3
                              /\ \A i \in 1..k : h[i] = a[i]
                              /\ \A i \in 1..3 : h[k + i] = g[i]
      <3>1. PICK h \in Seq(T) : h = a \o g /\ BothParts(h, a, g)
        BY ONLY a \in Seq(T), g \in Seq(T), ConcatIs
      <3> QED BY ONLY <1>2, Len(g) = 3, <3>1 DEF BothParts
    <2>2. /\ t \in Seq(T) /\ Len(t) = (k + 3) + l
          /\ \A i \in 1..k + 3 : t[i] = h[i]
          /\ \A i \in 1..l : t[(k + 3) + i] = c[i]
      <3>1. t \in Seq(T) /\ BothParts(t, h, c)
        <4>1. h \o c \in Seq(T) /\ BothParts(h \o c, h, c)
          BY ONLY h \in Seq(T), c \in Seq(T), ConcatIs
        <4> QED BY ONLY <1>1, <2>1, <4>1
      <3> QED BY ONLY <1>2, <2>1, <3>1 DEF BothParts
    <2>3. \A i \in 1..k : t[i] = a[i]
      <3>1. \A i \in 1..k : i \in 1..k + 3
        OBVIOUS
      <3> QED BY ONLY <2>1, <2>2, <3>1
    <2>4. t[k + 1] = g[1] /\ t[k + 2] = g[2] /\ t[k + 3] = g[3]
      <3>1. /\ k + 1 \in 1..k + 3 /\ k + 2 \in 1..k + 3 /\ k + 3 \in 1..k + 3
            /\ 1 \in 1..3 /\ 2 \in 1..3 /\ 3 \in 1..3
        BY ONLY k \in Nat \ {0}
      <3>2. t[k + 1] = h[k + 1] /\ t[k + 2] = h[k + 2] /\ t[k + 3] = h[k + 3]
        BY ONLY <2>2, <3>1
      <3>3. h[k + 1] = g[1] /\ h[k + 2] = g[2] /\ h[k + 3] = g[3]
        BY ONLY <2>1, <3>1
      <3> QED BY ONLY <3>2, <3>3
    <2> QED BY ONLY <2>2, <2>3, <2>4, g[1] = b, g[2] = m, g[3] = b, k \in Nat \ {0}, l \in Nat \ {0}
  <1>4. \A i \in 1..k : TidyAt(t, i, b, m)
    <2>1. 0 \in Nat /\ k + 3 + l \in Nat /\ 0 + Len(a) <= k + 3 + l
      BY <1>2
    <2>2. \A i \in 1..Len(a) : t[0 + i] = a[i]
      BY <1>2, <1>3
    <2>3. \A i \in 0 + 1..0 + Len(a) : TidyAt(t, i, b, m)
      BY ONLY <1>3, <2>1, <2>2, a \in Seq(T), TidyBy(a, b, m), TidyPart
    <2> QED BY <1>2, <2>3
  <1>5. \A i \in (k + 3) + 1..(k + 3) + l : TidyAt(t, i, b, m)
    <2>1. k + 3 \in Nat /\ k + 3 + l \in Nat /\ (k + 3) + Len(c) <= k + 3 + l
      BY <1>2
    <2>2. \A i \in 1..Len(c) : t[(k + 3) + i] = c[i]
      BY <1>2, <1>3
    <2>3. \A i \in (k + 3) + 1..(k + 3) + Len(c) : TidyAt(t, i, b, m)
      BY ONLY <1>3, <2>1, <2>2, c \in Seq(T), TidyBy(c, b, m), TidyPart
    <2> QED BY <1>2, <2>3
  <1>6. c[1] # b /\ c[1] # m /\ a[k] # m
    BY <1>2, TidyEnds
  <1>7. t[k + 4] = c[1] /\ t[k] = a[k]
    <2>1. k \in 1..k /\ 1 \in 1..l /\ k + 4 = (k + 3) + 1
      OBVIOUS
    <2> QED BY <1>3, <2>1
  <1>8. TidyAt(t, k + 1, b, m) /\ TidyAt(t, k + 2, b, m) /\ TidyAt(t, k + 3, b, m)
    <2>1. /\ Len(t) = k + 3 + l
          /\ t[k] # m /\ t[k + 1] = b /\ t[k + 2] = m /\ t[k + 3] = b
          /\ t[k + 4] # b /\ t[k + 4] # m
      BY ONLY <1>3, <1>6, <1>7
    <2>2. /\ (k + 1) + 1 = k + 2 /\ (k + 2) + 1 = k + 3 /\ (k + 2) - 1 = k + 1
          /\ (k + 2) - 2 = k /\ (k + 2) + 2 = k + 4 /\ (k + 3) + 1 = k + 4
          /\ k + 1 \in 2..(k + 3 + l) - 1 /\ k + 2 \in 3..(k + 3 + l) - 2
          /\ k + 3 \in 2..(k + 3 + l) - 1
      BY ONLY k \in Nat \ {0}, l \in Nat \ {0}
    <2>3. TidyAt(t, k + 1, b, m)
      BY ONLY <2>1, <2>2, b # m, Zenon DEF TidyAt
    <2>4. TidyAt(t, k + 2, b, m)
      BY ONLY <2>1, <2>2, b # m, Zenon DEF TidyAt
    <2>5. TidyAt(t, k + 3, b, m)
      BY ONLY <2>1, <2>2, b # m, Zenon DEF TidyAt
    <2> QED BY ONLY <2>3, <2>4, <2>5
  <1>9. DOMAIN t = 1..k + 3 + l
    BY <1>3
  <1>10. \A i \in 1..k + 3 + l : \/ i \in 1..k \/ i \in (k + 3) + 1..(k + 3) + l
                                 \/ i = k + 1 \/ i = k + 2 \/ i = k + 3
    OBVIOUS
  <1> QED BY <1>1, <1>4, <1>5, <1>8, <1>9, <1>10 DEF TidyBy

\* Nothing is normalized to nothing.
LEMMA NormalizedNone == Normalized(<<>>) = <<>>
  <1>1. PICK g : g = <<Blank>>
    OBVIOUS
  <1>2. Normalized(<<>>) = JoinWith(SplitAt(<<>>, Blank), g)
    BY <1>1, NormalizedIs
  <1>3. PICK T : T = {Blank}
    OBVIOUS
  <1>4. g \in Seq(T) /\ <<>> \in Seq(T) /\ <<>> \in Seq(Seq(T))
    BY <1>1, <1>3, EmptySeq
  <1>5. SplitAt(<<>>, Blank) = Append(<<>>, <<>>)
    <2>1. Undivided = Append(<<>>, <<>>)
      BY DEF Undivided
    <2> QED BY <2>1, SplitOn
  <1>6. JoinWith(Append(<<>>, <<>>), g) = Joined(JoinWith(<<>>, g), <<>>, g)
    BY <1>4, JoinOn
  <1>7. JoinWith(<<>>, g) = <<>>
    BY <1>4, JoinOn
  <1> QED BY <1>2, <1>5, <1>6, <1>7 DEF Joined

\* A text is normalized to a tidy one.
LEMMA NormalizedTidy ==
    ASSUME NEW T, Blank \in T, NEW m, m \notin T, NEW s \in Seq(T)
    PROVE  TidyBy(Normalized(s), Blank, m)
  <1> DEFINE G == {t \in Seq(T) : TidyBy(Normalized(t), Blank, m)}
  <1>1. <<>> \in G
    <2>1. <<>> \in Seq(T) /\ <<>> \in Seq({})
      BY EmptySeq
    <2>2. Normalized(<<>>) = <<>>
      BY NormalizedNone
    <2>3. TidyBy(<<>>, Blank, m)
      BY DEF TidyBy
    <2> QED BY <2>1, <2>2, <2>3
  <1>2. ASSUME NEW t \in G, NEW c \in T PROVE Append(t, c) \in G
    <2>1. t \in Seq(T) /\ Append(t, c) \in Seq(T) /\ TidyBy(Normalized(t), Blank, m)
      BY AppendProperties
    <2>2. PICK n \in Seq(T) : n = Normalized(t)
      BY <2>1, NormalizedOn
    <2>3. TidyBy(n, Blank, m) /\ m # Blank /\ m # c
      BY <2>1, <2>2
    <2>4. CASE c = Blank
      <3>1. Normalized(Append(t, c)) = Normalized(t)
        BY <2>1, <2>4, NormalizedOn
      <3> QED BY <2>1, <3>1
    <2>5. CASE c # Blank /\ (t = <<>> \/ t[Len(t)] = Blank)
      <3>1. Normalized(Append(t, c)) = Joined(n, <<c>>, <<Blank>>)
        BY <2>1, <2>2, <2>5, NormalizedOn
      <3>2. PICK w \in Seq({c}) : w = <<c>>
        <4>1. <<c>> \in Seq({c})
          OBVIOUS
        <4> QED BY <4>1
      <3>3. TidyBy(w, Blank, m)
        BY ONLY <2>3, <2>5, w \in Seq({c}), TidyWord
      <3>4. w \in Seq(T) /\ w # <<>>
        BY <3>2
      <3>5. CASE n = <<>>
        <4>1. Normalized(Append(t, c)) = w
          BY <3>1, <3>2, <3>4, <3>5 DEF Joined
        <4> QED BY <2>1, <3>3, <4>1
      <3>6. CASE n # <<>>
        <4>1. Normalized(Append(t, c)) = n \o <<Blank>> \o w
          BY <3>1, <3>2, <3>4, <3>6 DEF Joined
        <4>2. TidyBy(n \o <<Blank>> \o w, Blank, m)
          BY ONLY <2>3, <3>3, <3>4, <3>6, n \in Seq(T), Blank \in T, TidyBlank
        <4> QED BY <2>1, <4>1, <4>2
      <3> QED BY <3>5, <3>6
    <2>6. CASE c # Blank /\ ~(t = <<>> \/ t[Len(t)] = Blank)
      <3>1. Normalized(Append(t, c)) = Append(n, c)
        BY <2>1, <2>2, <2>6, NormalizedOn
      <3>2. TidyBy(Append(n, c), Blank, m)
        BY ONLY <2>3, <2>6, n \in Seq(T), c \in T, TidyAppend
      <3> QED BY <2>1, <3>1, <3>2
    <2> QED BY <2>4, <2>5, <2>6
  <1>3. G \subseteq Seq(T)
    OBVIOUS
  <1> HIDE DEF G
  <1>4. s \in G
    BY <1>1, <1>2, <1>3, SeqByAppend
  <1> QED BY <1>4 DEF G

\* Segments are joined to a tidy text.
LEMMA SegmentsTidy ==
    ASSUME NEW T, Blank \in T, NEW m, m \notin T, NEW s \in Seq(Seq(T))
    PROVE  TidyBy(JoinSegments(s, <<m>>), Blank, m)
  <1> DEFINE U == T \cup {m}
             G == {ps \in Seq(Seq(T)) : TidyBy(JoinSegments(ps, <<m>>), Blank, m)}
  <1>1. PICK g \in Seq(U) : /\ g = Separated(<<m>>) /\ Len(g) = 3
                            /\ g[1] = Blank /\ g[2] = m /\ g[3] = Blank
    BY SeparatedOn
  <1>2. PICK sep : sep = <<m>>
    OBVIOUS
  <1>3. Separated(sep) \in Seq(U) /\ Separated(sep) = g
    BY <1>1, <1>2
  <1>4. \A ps \in Seq(Seq(T)) : ps \in Seq(Seq(U))
    <2>1. \A w \in Seq(T) : w \in Seq(U)
      BY SeqMonotonic
    <2>2. Seq(T) \subseteq Seq(U)
      BY <2>1
    <2> QED BY <2>2, SeqMonotonic
  <1>5. Blank \in U /\ m \in U /\ m # Blank
    OBVIOUS
  <1> HIDE DEF U
  <1>6. <<>> \in G
    <2>1. JoinSegments(<<>>, sep) = <<>>
      BY <1>3, <1>5, JoinSegmentsOn
    <2>2. TidyBy(<<>>, Blank, m)
      BY DEF TidyBy
    <2> QED BY <1>2, <2>1, <2>2, EmptySeq
  <1>7. ASSUME NEW ps \in G, NEW p \in Seq(T) PROVE Append(ps, p) \in G
    <2>1. /\ ps \in Seq(Seq(T)) /\ Append(ps, p) \in Seq(Seq(T))
          /\ TidyBy(JoinSegments(ps, sep), Blank, m)
      BY <1>2, AppendProperties
    <2>2. ps \in Seq(Seq(U)) /\ p \in Seq(U)
      BY <1>4, <2>1, SeqMonotonic DEF U
    <2>3. PICK x \in Seq(U) : x = JoinSegments(ps, sep)
      BY <1>3, <1>5, <2>2, JoinSegmentsOn
    <2>4. PICK n \in Seq(U) : n = Normalized(p)
      BY <1>5, <2>2, NormalizedOn
    <2>5. JoinSegments(Append(ps, p), sep) = Joined(x, n, g)
      BY <1>3, <1>5, <2>2, <2>3, <2>4, JoinSegmentsOn
    <2>6. TidyBy(x, Blank, m) /\ TidyBy(n, Blank, m)
      BY <2>1, <2>3, <2>4, NormalizedTidy
    <2>7. TidyBy(Joined(x, n, g), Blank, m)
      <3>1. CASE n = <<>> \/ x = <<>>
        BY ONLY <2>6, <3>1 DEF Joined
      <3>2. CASE n # <<>> /\ x # <<>>
        <4>1. TidyBy(x \o g \o n, Blank, m)
          BY ONLY <1>1, <1>5, <2>6, <3>2, x \in Seq(U), n \in Seq(U), g \in Seq(U), TidyMark
        <4> QED BY ONLY <4>1, <3>2 DEF Joined
      <3> QED BY <3>1, <3>2
    <2> QED BY <1>2, <2>1, <2>5, <2>7
  <1>8. G \subseteq Seq(Seq(T))
    OBVIOUS
  <1> HIDE DEF G
  <1>9. s \in G
    BY <1>6, <1>7, <1>8, SeqByAppend
  <1> QED BY <1>9 DEF G

\* No two blanks side by side, and none at the beginning.
NoRun(t, b) == \A i \in DOMAIN t : t[i] = b => i > 1 /\ t[i - 1] # b

\* Normalized takes no more than the blank at the end of such a text.
LEMMA NoRunStays ==
    ASSUME NEW T, Blank \in T, NEW s \in Seq(T), NoRun(s, Blank)
    PROVE  IF s # <<>> /\ s[Len(s)] = Blank THEN s = Append(Normalized(s), Blank)
                                            ELSE s = Normalized(s)
  <1> DEFINE Ending(t) == t # <<>> /\ t[Len(t)] = Blank
             G == {t \in Seq(T) : NoRun(t, Blank) =>
                       IF Ending(t) THEN t = Append(Normalized(t), Blank) ELSE t = Normalized(t)}
  <1>1. <<>> \in G
    <2>1. <<>> \in Seq(T)
      BY EmptySeq
    <2>2. Normalized(<<>>) = <<>>
      BY NormalizedNone
    <2> QED BY <2>1, <2>2
  <1>2. ASSUME NEW t \in G, NEW c \in T PROVE Append(t, c) \in G
    <2>1. t \in Seq(T) /\ Append(t, c) \in Seq(T)
      BY AppendProperties
    <2>2. SUFFICES ASSUME NoRun(Append(t, c), Blank)
                   PROVE  IF Ending(Append(t, c))
                          THEN Append(t, c) = Append(Normalized(Append(t, c)), Blank)
                          ELSE Append(t, c) = Normalized(Append(t, c))
      BY <2>1
    <2>3. PICK k \in Nat : k = Len(t)
      BY <2>1
    <2>4. PICK r \in Seq(T) : /\ r = Append(t, c) /\ Len(r) = k + 1 /\ r[k + 1] = c
                              /\ r # <<>> /\ \A i \in 1..k : r[i] = t[i]
      <3>1. PICK r \in Seq(T) : r = Append(t, c)
        BY <2>1
      <3>2. Len(r) = k + 1 /\ r[k + 1] = c /\ r # <<>> /\ \A i \in 1..k : r[i] = t[i]
        BY <2>1, <2>3, <3>1
      <3> QED BY <3>1, <3>2
    <2>5. \A i \in 1..k + 1 : r[i] = Blank => i > 1 /\ r[i - 1] # Blank
      <3>1. NoRun(r, Blank)
        BY <2>2, <2>4
      <3>2. DOMAIN r = 1..k + 1
        BY ONLY <2>4, r \in Seq(T), k \in Nat
      <3> QED BY ONLY <3>1, <3>2 DEF NoRun
    <2>6. NoRun(t, Blank)
      <3>1. DOMAIN t = 1..k
        BY <2>1, <2>3
      <3>2. \A i \in 1..k : i \in 1..k + 1 /\ (i > 1 => i - 1 \in 1..k)
        BY k \in Nat
      <3> QED BY ONLY <2>4, <2>5, <3>1, <3>2 DEF NoRun
    <2>7. IF Ending(t) THEN t = Append(Normalized(t), Blank) ELSE t = Normalized(t)
      BY <2>6
    <2>8. Ending(r) <=> c = Blank
      BY <2>4
    <2>9. PICK n \in Seq(T) : n = Normalized(t)
      BY <2>1, NormalizedOn
    <2>10. CASE c = Blank
      <3>1. k > 0 /\ r[k] # Blank
        <4>1. k + 1 \in 1..k + 1 /\ (k + 1) - 1 = k
          BY k \in Nat
        <4> QED BY ONLY <2>4, <2>5, <2>10, <4>1
      <3>2. ~Ending(t)
        <4>1. k \in 1..k
          BY <3>1
        <4> QED BY <2>3, <2>4, <3>1, <4>1
      <3>3. Normalized(Append(t, c)) = Normalized(t)
        BY <2>1, <2>10, NormalizedOn
      <3> QED BY <2>4, <2>7, <2>8, <2>10, <3>2, <3>3
    <2>11. CASE c # Blank /\ t = <<>>
      <3>1. Normalized(Append(t, c)) = Joined(Normalized(t), <<c>>, <<Blank>>)
        BY <2>1, <2>11, NormalizedOn
      <3>2. Normalized(t) = <<>>
        BY <2>11, NormalizedNone
      <3>3. Joined(<<>>, <<c>>, <<Blank>>) = <<c>>
        BY DEF Joined
      <3>4. Append(<<>>, c) = <<c>>
        OBVIOUS
      <3> QED BY <2>4, <2>8, <2>11, <3>1, <3>2, <3>3, <3>4
    <2>12. CASE c # Blank /\ Ending(t)
      <3>1. Normalized(Append(t, c)) = Joined(n, <<c>>, <<Blank>>)
        BY <2>1, <2>9, <2>12, NormalizedOn
      <3>2. t = Append(n, Blank)
        BY <2>7, <2>9, <2>12
      <3>3. n # <<>>
        <4>1. ASSUME n = <<>> PROVE FALSE
          <5>1. t[1] = Blank /\ 1 \in DOMAIN t
            BY <3>2, <4>1
          <5>2. 1 > 1
            BY ONLY <2>6, <5>1 DEF NoRun
          <5> QED BY ONLY <5>2
        <4> QED BY <4>1
      <3>4. <<c>> # <<>>
        OBVIOUS
      <3>5. Joined(n, <<c>>, <<Blank>>) = n \o <<Blank>> \o <<c>>
        BY ONLY <3>3, <3>4 DEF Joined
      <3>6. n \o <<Blank>> \o <<c>> = Append(Append(n, Blank), c)
        <4>1. n \o <<Blank>> = Append(n, Blank) /\ Append(n, Blank) \in Seq(T)
          BY ONLY n \in Seq(T), Blank \in T, AppendIsConcat, AppendProperties
        <4> QED BY ONLY <4>1, c \in T, AppendIsConcat
      <3> QED BY <2>4, <2>8, <2>12, <3>1, <3>2, <3>5, <3>6
    <2>13. CASE c # Blank /\ t # <<>> /\ ~Ending(t)
      <3>1. Normalized(Append(t, c)) = Append(Normalized(t), c)
        BY <2>1, <2>13, NormalizedOn
      <3> QED BY <2>4, <2>7, <2>8, <2>13, <3>1
    <2> QED BY <2>10, <2>11, <2>12, <2>13
  <1>3. G \subseteq Seq(T)
    OBVIOUS
  <1>4. s \in G => IF Ending(s) THEN s = Append(Normalized(s), Blank) ELSE s = Normalized(s)
    OBVIOUS
  <1> HIDE DEF G
  <1>5. s \in G
    BY <1>1, <1>2, <1>3, SeqByAppend
  <1> QED BY <1>4, <1>5

\* So a tidy text is normalized already.
LEMMA NormalizedSame ==
    ASSUME NEW T, Blank \in T, NEW t \in Seq(T), NEW m, TidyBy(t, Blank, m)
    PROVE  Normalized(t) = t
  <1>1. NoRun(t, Blank)
    <2> SUFFICES ASSUME NEW i \in DOMAIN t, t[i] = Blank
                 PROVE  i > 1 /\ t[i - 1] # Blank
      BY DEF NoRun
    <2>1. i \in 2..Len(t) - 1
      BY DEF TidyBy, TidyAt
    <2>2. i - 1 \in DOMAIN t /\ (i - 1) + 1 = i
      BY <2>1
    <2>3. t[i - 1] = Blank => t[(i - 1) + 1] # Blank
      BY <2>2 DEF TidyBy, TidyAt
    <2> QED BY <2>1, <2>2, <2>3
  <1>2. t # <<>> => t[Len(t)] # Blank
    BY TidyEnds
  <1> QED BY <1>1, <1>2, NoRunStays
-------------------------------------------------------------------------------
(* ValueText: formats and what stands for their placeholders. *)

\* What stands in a text for a symbol of its format.
Piece(c, v) == CASE c \in Placeholders -> v[c]
                 [] c = "||"           -> <<"|", "|">>
                 [] OTHER              -> <<c>>
PiecesOf(f, v) == [i \in DOMAIN f |-> Piece(f[i], v)]

\* Replace is made of them.
LEMMA ReplaceIs == \A f, v : Replace(f, v) = FlattenSeq(PiecesOf(f, v))
  BY DEF Replace, PiecesOf, Piece

\* The pieces of a longer format.
LEMMA PiecesOn ==
    ASSUME NEW F, NEW V, NEW v, \A c \in F : Piece(c, v) \in Seq(V)
    PROVE  /\ PiecesOf(<<>>, v) = <<>>
           /\ \A f \in Seq(F) : PiecesOf(f, v) \in Seq(Seq(V))
           /\ \A f \in Seq(F), c \in F :
                  PiecesOf(Append(f, c), v) = Append(PiecesOf(f, v), Piece(c, v))
  <1>1. PICK h \in [F -> Seq(V)] : \A c \in F : h[c] = Piece(c, v)
    <2>1. [c \in F |-> Piece(c, v)] \in [F -> Seq(V)]
      OBVIOUS
    <2> QED BY <2>1
  <1>2. ASSUME NEW f \in Seq(F) PROVE PiecesOf(f, v) = Mapped(h, f)
    <2>1. \A i \in DOMAIN f : f[i] \in F
      OBVIOUS
    <2> QED BY ONLY <1>1, <2>1 DEF PiecesOf, Mapped
  <1>3. /\ Mapped(h, <<>>) = <<>>
        /\ \A f \in Seq(F) : Mapped(h, f) \in Seq(Seq(V))
        /\ \A f \in Seq(F), c \in F : Mapped(h, Append(f, c)) = Append(Mapped(h, f), h[c])
    BY ONLY h \in [F -> Seq(V)], MappedOn
  <1>4. <<>> \in Seq(F) /\ \A f \in Seq(F), c \in F : Append(f, c) \in Seq(F)
    BY ONLY EmptySeq, AppendProperties
  <1> QED BY ONLY <1>1, <1>2, <1>3, <1>4

\* Replace, symbol by symbol.
LEMMA ReplaceOn ==
    ASSUME NEW F, NEW V, NEW v, \A c \in F : Piece(c, v) \in Seq(V)
    PROVE  /\ Replace(<<>>, v) = <<>>
           /\ \A f \in Seq(F) : Replace(f, v) \in Seq(V)
           /\ \A f \in Seq(F), c \in F : Replace(Append(f, c), v) = Replace(f, v) \o Piece(c, v)
  <1>1. Replace(<<>>, v) = <<>>
    BY ReplaceIs, PiecesOn, FlatOfEmpty
  <1>2. ASSUME NEW f \in Seq(F) PROVE Replace(f, v) \in Seq(V)
    <2>1. PiecesOf(f, v) \in Seq(Seq(V))
      BY PiecesOn
    <2> QED BY <2>1, ReplaceIs, FlatType
  <1>3. ASSUME NEW f \in Seq(F), NEW c \in F
        PROVE  Replace(Append(f, c), v) = Replace(f, v) \o Piece(c, v)
    <2>1. PICK w \in Seq(Seq(V)), p \in Seq(V) : w = PiecesOf(f, v) /\ p = Piece(c, v)
      BY PiecesOn
    <2>2. PiecesOf(Append(f, c), v) = Append(w, p)
      BY <2>1, PiecesOn
    <2>3. FlattenSeq(Append(w, p)) = FlattenSeq(w) \o p
      BY ONLY w \in Seq(Seq(V)), p \in Seq(V), FlatOfAppend
    <2> QED BY <2>1, <2>2, <2>3, ReplaceIs
  <1> QED BY <1>1, <1>2, <1>3

\* A format of letters stands for itself.
LEMMA ReplacePlain ==
    ASSUME NEW F, NEW v, \A c \in F : Piece(c, v) = <<c>>, NEW s \in Seq(F)
    PROVE  Replace(s, v) = s
  <1> DEFINE G == {f \in Seq(F) : Replace(f, v) = f}
  <1>1. \A c \in F : Piece(c, v) \in Seq(F)
    OBVIOUS
  <1>2. <<>> \in G
    BY <1>1, EmptySeq, ReplaceOn
  <1>3. ASSUME NEW f \in G, NEW c \in F PROVE Append(f, c) \in G
    <2>1. f \in Seq(F) /\ Replace(f, v) = f /\ Append(f, c) \in Seq(F)
      BY AppendProperties
    <2>2. Replace(Append(f, c), v) = f \o Piece(c, v)
      BY <1>1, <2>1, ReplaceOn
    <2>3. Append(f, c) = f \o <<c>>
      BY ONLY <2>1, c \in F, AppendIsConcat
    <2> QED BY <2>1, <2>2, <2>3
  <1>4. G \subseteq Seq(F)
    OBVIOUS
  <1> HIDE DEF G
  <1>5. s \in G
    BY <1>2, <1>3, <1>4, SeqByAppend
  <1> QED BY <1>5 DEF G

\* A format's pieces are texts.
PiecesIn(F, V, v) == \A c \in F : Piece(c, v) \in Seq(V)

\* Replacing part by part.
LEMMA ReplaceConcat ==
    ASSUME NEW F, NEW V, NEW v, PiecesIn(F, V, v), NEW a \in Seq(F), NEW s \in Seq(F)
    PROVE  Replace(a \o s, v) = Replace(a, v) \o Replace(s, v)
  <1> DEFINE G == {b \in Seq(F) : Replace(a \o b, v) = Replace(a, v) \o Replace(b, v)}
  <1> \A c \in F : Piece(c, v) \in Seq(V)
    BY DEF PiecesIn
  <1>1. <<>> \in G
    <2>1. a \o <<>> = a /\ <<>> \in Seq(F)
      BY ConcatEmptySeq, EmptySeq
    <2>2. PICK x \in Seq(V) : x = Replace(a, v)
      BY ReplaceOn
    <2>3. x \o <<>> = x
      BY ONLY x \in Seq(V), ConcatEmptySeq
    <2>4. Replace(<<>>, v) = <<>>
      BY ReplaceOn
    <2> QED BY <2>1, <2>2, <2>3, <2>4
  <1>2. ASSUME NEW b \in G, NEW c \in F PROVE Append(b, c) \in G
    <2>1. /\ b \in Seq(F) /\ Append(b, c) \in Seq(F)
          /\ Replace(a \o b, v) = Replace(a, v) \o Replace(b, v)
      BY AppendProperties
    <2>2. a \o Append(b, c) = Append(a \o b, c) /\ a \o b \in Seq(F)
      BY ONLY <2>1, a \in Seq(F), c \in F, ConcatAppend, ConcatProperties
    <2>3. /\ Replace(Append(b, c), v) = Replace(b, v) \o Piece(c, v)
          /\ Replace(Append(a \o b, c), v) = Replace(a \o b, v) \o Piece(c, v)
      <3>1. \A f \in Seq(F) : Replace(Append(f, c), v) = Replace(f, v) \o Piece(c, v)
        BY ReplaceOn
      <3> QED BY ONLY <2>1, <2>2, <3>1
    <2>4. PICK x \in Seq(V), y \in Seq(V), p \in Seq(V) :
              x = Replace(a, v) /\ y = Replace(b, v) /\ p = Piece(c, v)
      BY <2>1, ReplaceOn
    <2>5. (x \o y) \o p = x \o (y \o p)
      BY ONLY x \in Seq(V), y \in Seq(V), p \in Seq(V), ConcatAssociative
    <2> QED BY <2>1, <2>2, <2>3, <2>4, <2>5
  <1>3. G \subseteq Seq(F)
    OBVIOUS
  <1> HIDE DEF G
  <1>4. s \in G
    BY <1>1, <1>2, <1>3, SeqByAppend
  <1> QED BY <1>4 DEF G

\* The last part of a divided text, and those before it.
Parted(t, m, fr, w) == SplitAt(t, m) = Append(fr, w)

\* Symbols that are no mark go to the last part.
LEMMA SplitConcat ==
    ASSUME NEW T, NEW m, NEW t \in Seq(T),
           NEW fr \in Seq(Seq(But(T, m))), NEW w \in Seq(But(T, m)), Parted(t, m, fr, w),
           NEW s \in Seq(But(T, m))
    PROVE  w \o s \in Seq(But(T, m)) /\ Parted(t \o s, m, fr, w \o s)
  <1> DEFINE G == {u \in Seq(But(T, m)) : SplitAt(t \o u, m) = Append(fr, w \o u)}
  <1>1. <<>> \in G
    <2>1. t \o <<>> = t /\ w \o <<>> = w /\ <<>> \in Seq(But(T, m))
      BY ConcatEmptySeq, EmptySeq
    <2> QED BY <2>1 DEF Parted
  <1>2. ASSUME NEW u \in G, NEW c \in But(T, m) PROVE Append(u, c) \in G
    <2>1. /\ u \in Seq(But(T, m)) /\ Append(u, c) \in Seq(But(T, m))
          /\ SplitAt(t \o u, m) = Append(fr, w \o u)
      BY AppendProperties
    <2>2. c \in T /\ c # m
      BY DEF But
    <2>3. u \in Seq(T)
      BY <2>1, ButIsLess
    <2>4. PICK h \in Seq(T) : h = t \o u /\ t \o Append(u, c) = Append(h, c)
      <3>1. t \o u \in Seq(T) /\ t \o Append(u, c) = Append(t \o u, c)
        BY ONLY <2>2, <2>3, t \in Seq(T), ConcatAppend, ConcatProperties
      <3> QED BY <3>1
    <2>5. PICK x \in Seq(But(T, m)) : x = w \o u /\ w \o Append(u, c) = Append(x, c)
      <3>1. w \o u \in Seq(But(T, m)) /\ w \o Append(u, c) = Append(w \o u, c)
        BY ONLY <2>1, w \in Seq(But(T, m)), c \in But(T, m), ConcatAppend, ConcatProperties
      <3> QED BY <3>1
    <2>6. PICK fs \in Seq(Seq(But(T, m))), y \in Seq(But(T, m)) :
              /\ SplitAt(h, m) = Append(fs, y)
              /\ c = m => SplitAt(Append(h, c), m) = Append(Append(fs, y), <<>>)
              /\ c # m => /\ SplitAt(Append(h, c), m) = Append(fs, Append(y, c))
                          /\ Append(y, c) \in Seq(But(T, m))
      BY ONLY h \in Seq(T), <2>2, SplitMore
    <2>7. Append(fs, y) = Append(fr, x)
      BY <2>1, <2>4, <2>5, <2>6
    <2>8. fs = fr /\ y = x
      BY ONLY <2>7, fs \in Seq(Seq(But(T, m))), fr \in Seq(Seq(But(T, m))),
              y \in Seq(But(T, m)), x \in Seq(But(T, m)), AppendInjective
    <2> QED BY <2>1, <2>2, <2>4, <2>5, <2>6, <2>8
  <1>3. G \subseteq Seq(But(T, m))
    OBVIOUS
  <1>4. s \in G => SplitAt(t \o s, m) = Append(fr, w \o s)
    OBVIOUS
  <1> HIDE DEF G
  <1>5. s \in G
    BY <1>1, <1>2, <1>3, SeqByAppend
  <1>6. w \o s \in Seq(But(T, m))
    BY ONLY w \in Seq(But(T, m)), s \in Seq(But(T, m)), ConcatProperties
  <1> QED BY <1>4, <1>5, <1>6 DEF Parted

\* A mark begins a new part.
LEMMA SplitAtMark ==
    ASSUME NEW T, NEW m \in T, NEW t \in Seq(T)
    PROVE  SplitAt(Append(t, m), m) = Append(SplitAt(t, m), <<>>)
  BY SplitOn DEF Divided

\* What a template replaces: each part by itself.
Reps(ps, v) == [i \in DOMAIN ps |-> Replace(ps[i], v)]

\* Part by part.
LEMMA RepsOn ==
    ASSUME NEW F, NEW V, NEW v, \A c \in F : Piece(c, v) \in Seq(V)
    PROVE  /\ Reps(<<>>, v) = <<>>
           /\ \A ps \in Seq(Seq(F)) : Reps(ps, v) \in Seq(Seq(V))
           /\ \A ps \in Seq(Seq(F)), p \in Seq(F) :
                  Reps(Append(ps, p), v) = Append(Reps(ps, v), Replace(p, v))
  <1>1. \A p \in Seq(F) : Replace(p, v) \in Seq(V)
    BY ReplaceOn
  <1>2. PICK h \in [Seq(F) -> Seq(V)] : \A p \in Seq(F) : h[p] = Replace(p, v)
    <2>1. [p \in Seq(F) |-> Replace(p, v)] \in [Seq(F) -> Seq(V)]
      BY <1>1
    <2> QED BY <2>1
  <1>3. ASSUME NEW ps \in Seq(Seq(F)) PROVE Reps(ps, v) = Mapped(h, ps)
    <2>1. \A i \in DOMAIN ps : ps[i] \in Seq(F)
      OBVIOUS
    <2> QED BY ONLY <1>2, <2>1 DEF Reps, Mapped
  <1>4. /\ Mapped(h, <<>>) = <<>>
        /\ \A ps \in Seq(Seq(F)) : Mapped(h, ps) \in Seq(Seq(V))
        /\ \A ps \in Seq(Seq(F)), p \in Seq(F) :
               Mapped(h, Append(ps, p)) = Append(Mapped(h, ps), h[p])
    <2>1. PICK D, R : D = Seq(F) /\ R = Seq(V)
      OBVIOUS
    <2>2. h \in [D -> R]
      BY <2>1
    <2>3. /\ Mapped(h, <<>>) = <<>>
          /\ \A ps \in Seq(D) : Mapped(h, ps) \in Seq(R)
          /\ \A ps \in Seq(D), p \in D : Mapped(h, Append(ps, p)) = Append(Mapped(h, ps), h[p])
      BY ONLY <2>2, MappedOn, ZenonT(40)
    <2> QED BY ONLY <2>1, <2>3
  <1>5. <<>> \in Seq(Seq(F)) /\ \A ps \in Seq(Seq(F)), p \in Seq(F) : Append(ps, p) \in Seq(Seq(F))
    BY ONLY EmptySeq, AppendProperties
  <1> QED BY ONLY <1>2, <1>3, <1>4, <1>5

\* Where no value brings a mark, dividing a format and replacing in its parts
\* is replacing in the format and dividing the text.
LEMMA SplitReplace ==
    ASSUME NEW F, NEW V, NEW v, NEW m, m \in V, Piece(m, v) = <<m>>,
           \A c \in F : c # m => Piece(c, v) \in Seq(But(V, m)), NEW s \in Seq(F)
    PROVE  SplitAt(Replace(s, v), m) = Reps(SplitAt(s, m), v)
  <1> DEFINE G == {f \in Seq(F) : SplitAt(Replace(f, v), m) = Reps(SplitAt(f, m), v)}
  <1>1. \A c \in F : Piece(c, v) \in Seq(V)
    <2>1. <<m>> \in Seq(V)
      OBVIOUS
    <2> QED BY <2>1, ButIsLess
  <1>0. /\ Reps(<<>>, v) = <<>> /\ Replace(<<>>, v) = <<>>
        /\ \A f \in Seq(F) : Replace(f, v) \in Seq(V)
        /\ \A ps \in Seq(Seq(F)), p \in Seq(F) :
               Reps(Append(ps, p), v) = Append(Reps(ps, v), Replace(p, v))
        /\ \A f \in Seq(F), c \in F : Replace(Append(f, c), v) = Replace(f, v) \o Piece(c, v)
    <2>1. /\ Reps(<<>>, v) = <<>>
          /\ \A ps \in Seq(Seq(F)), p \in Seq(F) :
                 Reps(Append(ps, p), v) = Append(Reps(ps, v), Replace(p, v))
      BY ONLY <1>1, RepsOn
    <2>2. /\ Replace(<<>>, v) = <<>> /\ \A f \in Seq(F) : Replace(f, v) \in Seq(V)
          /\ \A f \in Seq(F), c \in F : Replace(Append(f, c), v) = Replace(f, v) \o Piece(c, v)
      BY ONLY <1>1, ReplaceOn
    <2> QED BY <2>1, <2>2
  <1>7. ASSUME NEW x \in Seq(V), NEW rs \in Seq(Seq(But(V, m))), NEW y \in Seq(But(V, m)),
               Parted(x, m, rs, y), NEW p \in Seq(But(V, m))
        PROVE  y \o p \in Seq(But(V, m)) /\ Parted(x \o p, m, rs, y \o p)
    BY ONLY <1>7, SplitConcat
  <1>2. <<>> \in G
    <2>1. <<>> \in Seq(F) /\ <<>> \in Seq(Seq(F)) /\ <<>> \in Seq(V)
      BY EmptySeq
    <2>2. Undivided = Append(<<>>, <<>>)
      BY DEF Undivided
    <2>3. SplitAt(<<>>, m) = Undivided
      BY SplitOn
    <2>4. Reps(Append(<<>>, <<>>), v) = Append(Reps(<<>>, v), Replace(<<>>, v))
      BY ONLY <1>0, <2>1
    <2> QED BY <1>0, <2>1, <2>2, <2>3, <2>4
  <1>3. ASSUME NEW f \in G, NEW c \in F PROVE Append(f, c) \in G
    <2>1. /\ f \in Seq(F) /\ Append(f, c) \in Seq(F)
          /\ SplitAt(Replace(f, v), m) = Reps(SplitAt(f, m), v)
      BY AppendProperties
    <2>2. PICK fr \in Seq(Seq(But(F, m))), w \in Seq(But(F, m)) :
              /\ SplitAt(f, m) = Append(fr, w)
              /\ c = m => SplitAt(Append(f, c), m) = Append(Append(fr, w), <<>>)
              /\ c # m => /\ SplitAt(Append(f, c), m) = Append(fr, Append(w, c))
                          /\ Append(w, c) \in Seq(But(F, m))
      BY ONLY <2>1, c \in F, SplitMore
    <2>3. /\ fr \in Seq(Seq(F)) /\ w \in Seq(F) /\ <<>> \in Seq(F)
          /\ Append(fr, w) \in Seq(Seq(F)) /\ Append(w, c) \in Seq(F)
      BY ButIsLess, EmptySeq, AppendProperties
    <2>4. \A d \in But(F, m) : Piece(d, v) \in Seq(But(V, m))
      BY DEF But
    <2>5. PICK x \in Seq(V) : x = Replace(f, v) /\ Replace(Append(f, c), v) = x \o Piece(c, v)
      BY ONLY <1>0, <2>1, c \in F
    <2>6. PICK rs \in Seq(Seq(But(V, m))), y \in Seq(But(V, m)) :
              rs = Reps(fr, v) /\ y = Replace(w, v)
      BY <2>4, RepsOn, ReplaceOn
    <2>7. Reps(Append(fr, w), v) = Append(rs, y)
      BY ONLY <1>0, <2>3, <2>6
    <2>8. SplitAt(x, m) = Append(rs, y)
      BY <2>1, <2>2, <2>5, <2>7
    <2>9. CASE c = m
      <3>1. x \o Piece(c, v) = Append(x, m)
        BY <2>9, AppendIsConcat
      <3>2. SplitAt(Append(x, m), m) = Append(Append(rs, y), <<>>)
        <4>1. SplitAt(Append(x, m), m) = Append(SplitAt(x, m), <<>>)
          BY ONLY x \in Seq(V), m \in V, SplitAtMark
        <4> QED BY <2>8, <4>1
      <3>3. Reps(Append(Append(fr, w), <<>>), v) = Append(Reps(Append(fr, w), v), Replace(<<>>, v))
        BY ONLY <1>0, <2>3
      <3> QED BY <1>0, <2>1, <2>2, <2>5, <2>7, <2>9, <3>1, <3>2, <3>3
    <2>10. CASE c # m
      <3>1. PICK p \in Seq(But(V, m)) : p = Piece(c, v)
        BY <2>10
      <3>2. y \o p \in Seq(But(V, m)) /\ SplitAt(x \o p, m) = Append(rs, y \o p)
        <4>1. Parted(x, m, rs, y)
          BY ONLY <2>8 DEF Parted
        <4>2. y \o p \in Seq(But(V, m)) /\ Parted(x \o p, m, rs, y \o p)
          BY ONLY <1>7, <4>1, x \in Seq(V), p \in Seq(But(V, m)), y \in Seq(But(V, m)),
                  rs \in Seq(Seq(But(V, m)))
        <4> QED BY ONLY <4>2 DEF Parted
      <3>3. Reps(Append(fr, Append(w, c)), v) = Append(rs, Replace(Append(w, c), v))
        BY ONLY <1>0, <2>3, <2>6
      <3>4. Replace(Append(w, c), v) = y \o p
        BY ONLY <1>0, <2>3, <2>6, <3>1, c \in F
      <3> QED BY <2>1, <2>2, <2>5, <2>10, <3>1, <3>2, <3>3, <3>4
    <2> QED BY <2>9, <2>10
  <1>4. G \subseteq Seq(F)
    OBVIOUS
  <1>5. s \in G => SplitAt(Replace(s, v), m) = Reps(SplitAt(s, m), v)
    OBVIOUS
  <1> HIDE DEF G
  <1>6. s \in G
    BY <1>2, <1>3, <1>4, SeqByAppend
  <1> QED BY <1>5, <1>6

\* Replacing in what was replaced.
LEMMA ReplaceTwice ==
    ASSUME NEW F, NEW V, NEW W, NEW u, NEW v, NEW w,
           \A c \in F : Piece(c, u) \in Seq(V), \A c \in V : Piece(c, v) \in Seq(W),
           \A c \in F : Piece(c, w) = Replace(Piece(c, u), v), NEW s \in Seq(F)
    PROVE  Replace(Replace(s, u), v) = Replace(s, w)
  <1> DEFINE G == {f \in Seq(F) : Replace(Replace(f, u), v) = Replace(f, w)}
  <1>1. \A c \in F : Piece(c, w) \in Seq(W)
    BY ReplaceOn
  <1>0. /\ Replace(<<>>, u) = <<>> /\ \A f \in Seq(F) : Replace(f, u) \in Seq(V)
        /\ \A f \in Seq(F), c \in F : Replace(Append(f, c), u) = Replace(f, u) \o Piece(c, u)
    BY ONLY \A c \in F : Piece(c, u) \in Seq(V), ReplaceOn
  <1>7. \A c \in V : Piece(c, v) \in Seq(W)
    OBVIOUS
  <1> PiecesIn(V, W, v)
    BY DEF PiecesIn
  <1>8. \A x, p \in Seq(V) : Replace(x \o p, v) = Replace(x, v) \o Replace(p, v)
    <2>1. ASSUME NEW x \in Seq(V), NEW p \in Seq(V)
          PROVE  Replace(x \o p, v) = Replace(x, v) \o Replace(p, v)
      BY ONLY PiecesIn(V, W, v), ReplaceConcat
    <2> QED BY <2>1
  <1>9. /\ Replace(<<>>, w) = <<>>
        /\ \A f \in Seq(F), c \in F : Replace(Append(f, c), w) = Replace(f, w) \o Piece(c, w)
    BY ONLY <1>1, ReplaceOn
  <1>2. <<>> \in G
    <2>1. Replace(<<>>, v) = <<>>
      BY <1>7, ReplaceOn
    <2> QED BY <1>0, <1>9, <2>1, EmptySeq
  <1>3. ASSUME NEW f \in G, NEW c \in F PROVE Append(f, c) \in G
    <2>1. /\ f \in Seq(F) /\ Append(f, c) \in Seq(F) /\ Replace(Replace(f, u), v) = Replace(f, w)
      BY AppendProperties
    <2>2. PICK x \in Seq(V), p \in Seq(V) : /\ x = Replace(f, u) /\ p = Piece(c, u)
                                            /\ Replace(Append(f, c), u) = x \o p
      BY ONLY <1>0, <2>1, c \in F, \A d \in F : Piece(d, u) \in Seq(V)
    <2>3. Replace(x \o p, v) = Replace(x, v) \o Replace(p, v)
      BY ONLY <1>8, x \in Seq(V), p \in Seq(V)
    <2>4. Replace(Append(f, c), w) = Replace(f, w) \o Piece(c, w)
      BY ONLY <1>9, <2>1, c \in F
    <2> QED BY <2>1, <2>2, <2>3, <2>4
  <1>4. G \subseteq Seq(F)
    OBVIOUS
  <1>5. s \in G => Replace(Replace(s, u), v) = Replace(s, w)
    OBVIOUS
  <1> HIDE DEF G
  <1>6. s \in G
    BY <1>2, <1>3, <1>4, SeqByAppend
  <1> QED BY <1>5, <1>6

\* The symbols of a value: no "||", which is two separators.
ValueSymbols == But(TextSymbols, "||")
Stroke == "|"
PlainSymbols == ValueSymbols \ Placeholders

\* Which symbols there are.
LEMMA SymbolsAre ==
    /\ Blank \in ValueSymbols /\ Stroke \in ValueSymbols /\ Blank # Stroke
    /\ Blank \in PlainSymbols /\ Stroke \in PlainSymbols
    /\ ValueSymbols \subseteq TextSymbols /\ PlainSymbols \subseteq ValueSymbols
    /\ \A c \in TextSymbols : c \in ValueSymbols \/ c = "||"
    /\ Placeholders \subseteq ValueSymbols
    /\ \A c \in PlainSymbols : c \notin Placeholders /\ c # "||"
    /\ Stroke \notin Placeholders /\ "||" \notin Placeholders
    /\ \A p \in Placeholders : p # Stroke /\ p # "||"
  <1>1. Blank \in TextSymbols /\ Blank # "||" /\ Blank # "|" /\ Blank \notin Placeholders
    BY Zenon DEF TextSymbols, Blank, Placeholders
  <1>2. "|" \in TextSymbols /\ "|" # "||" /\ "|" \notin Placeholders /\ "||" \notin Placeholders
    BY Zenon DEF TextSymbols, Placeholders
  <1>3. \A p \in Placeholders : p \in TextSymbols
    BY Zenon DEF TextSymbols
  <1> QED BY <1>1, <1>2, <1>3, Zenon DEF ValueSymbols, But, Stroke, PlainSymbols

\* Some numbers up to n have a greatest.
LEMMA GreatestNatural ==
    ASSUME NEW n \in Nat, NEW S \in SUBSET (1..n), S # {}
    PROVE  Max(S) \in S /\ Min(S) \in S
  <1>1. PICK a \in S : \A y \in S : a <= y
    BY LeastNatural
  <1>2. Min(S) \in S
    BY <1>1 DEF Min
  <1>3. PICK b \in {n - x : x \in S} : \A y \in {n - x : x \in S} : b <= y
    <2>1. {n - x : x \in S} \in SUBSET Nat /\ {n - x : x \in S} # {}
      OBVIOUS
    <2> QED BY ONLY <2>1, LeastNatural
  <1>4. PICK c \in S : b = n - c
    OBVIOUS
  <1>5. \A y \in S : c >= y
    <2> SUFFICES ASSUME NEW y \in S PROVE c >= y
      OBVIOUS
    <2>1. n - c <= n - y
      BY <1>3, <1>4
    <2>2. c \in 1..n /\ y \in 1..n
      OBVIOUS
    <2> QED BY ONLY <2>1, <2>2, n \in Nat
  <1>6. Max(S) \in S
    BY <1>5 DEF Max
  <1> QED BY <1>2, <1>6

\* What is left of a text without the blanks around it.
Solid(t) == {i \in DOMAIN t : t[i] # Blank}
Trimmed(t, solid) == IF solid = {} THEN <<>> ELSE SubSeq(t, Min(solid), Max(solid))

\* It is a text of the same symbols.
LEMMA TrimmedType ==
    ASSUME NEW T, NEW t \in Seq(T)
    PROVE  TrimSpace(t) \in Seq(T)
  <1>1. TrimSpace(t) = Trimmed(t, Solid(t))
    <2>1. TrimSpace(t) = Trimmed(t, {i \in DOMAIN t : t[i] # " "})
      BY Zenon DEF TrimSpace, Trimmed
    <2>2. {i \in DOMAIN t : t[i] # " "} = Solid(t)
      BY Zenon DEF Solid, Blank
    <2> QED BY <2>1, <2>2, Zenon
  <1>2. CASE Solid(t) = {}
    BY <1>1, <1>2, EmptySeq DEF Trimmed
  <1>3. CASE Solid(t) # {}
    <2>1. Solid(t) \in SUBSET (1..Len(t)) /\ Len(t) \in Nat
      BY DEF Solid
    <2>2. Min(Solid(t)) \in 1..Len(t) /\ Max(Solid(t)) \in 1..Len(t)
      BY <1>3, <2>1, GreatestNatural
    <2>3. SubSeq(t, Min(Solid(t)), Max(Solid(t))) \in Seq(T)
      BY <2>2, SubSeqProperties
    <2> QED BY <1>1, <1>3, <2>3 DEF Trimmed
  <1> QED BY <1>2, <1>3

\* What sanitizeExecOutput makes of a symbol.
Clean(c) == CASE c = LineEnd -> <<Blank>>
              [] c \in Control -> <<>>
              [] c \notin Control \cup {LineEnd} -> <<c>>

Cleaned(o) == [i \in DOMAIN o |-> Clean(o[i])]

\* An output cleaned is a value.
LEMMA CleanType ==
    ASSUME NEW T, Blank \in T, NEW o \in Seq(T)
    PROVE  sanitizeExecOutput(o) \in Seq(T)
  <1>1. sanitizeExecOutput(o) = TrimSpace(FlattenSeq(Cleaned(o)))
    BY Zenon DEF sanitizeExecOutput, Cleaned, Clean, Blank
  <1>2. ASSUME NEW c \in T PROVE Clean(c) \in Seq(T)
    <2>1. <<Blank>> \in Seq(T) /\ <<>> \in Seq(T) /\ <<c>> \in Seq(T)
      OBVIOUS
    <2>2. Clean(c) = <<Blank>> \/ Clean(c) = <<>> \/ Clean(c) = <<c>>
      <3>1. c = LineEnd \/ c \in Control \/ c \notin Control \cup {LineEnd}
        OBVIOUS
      <3> QED BY ONLY <3>1 DEF Clean
    <2> QED BY <2>1, <2>2
  <1>3. PICK h \in [T -> Seq(T)] : \A c \in T : h[c] = Clean(c)
    <2>1. [c \in T |-> Clean(c)] \in [T -> Seq(T)]
      BY <1>2
    <2> QED BY <2>1
  <1>4. Cleaned(o) = Mapped(h, o)
    <2>1. \A i \in DOMAIN o : o[i] \in T
      OBVIOUS
    <2> QED BY ONLY <1>3, <2>1 DEF Cleaned, Mapped
  <1>5. Mapped(h, o) \in Seq(Seq(T))
    BY ONLY h \in [T -> Seq(T)], o \in Seq(T), MappedOn
  <1>6. FlattenSeq(Mapped(h, o)) \in Seq(T)
    BY <1>5, FlatType
  <1>7. PICK x \in Seq(T) : x = FlattenSeq(Mapped(h, o))
    BY <1>6
  <1>8. TrimSpace(x) \in Seq(T)
    BY ONLY x \in Seq(T), TrimmedType
  <1> QED BY ONLY <1>1, <1>4, <1>7, <1>8

\* The pieces of a format are values.
LEMMA PiecesAreValues ==
    ASSUME NEW v \in [Placeholders -> Seq(ValueSymbols)]
    PROVE  /\ PiecesIn(TextSymbols, ValueSymbols, v) /\ PiecesIn(ValueSymbols, ValueSymbols, v)
           /\ \A c \in PlainSymbols : Piece(c, v) = <<c>>
           /\ \A p \in Placeholders : Piece(p, v) = v[p]
           /\ Piece("||", v) = <<Stroke, Stroke>>
  <1>1. /\ \A p \in Placeholders : Piece(p, v) = v[p]
        /\ Piece("||", v) = <<Stroke, Stroke>>
        /\ \A c \in PlainSymbols : Piece(c, v) = <<c>>
    BY SymbolsAre DEF Piece, Stroke
  <1>2. ASSUME NEW c \in TextSymbols PROVE Piece(c, v) \in Seq(ValueSymbols)
    <2>1. CASE c \in Placeholders
      BY <1>1, <2>1
    <2>2. CASE c = "||"
      <3>1. <<Stroke, Stroke>> \in Seq(ValueSymbols)
        BY SymbolsAre
      <3> QED BY <1>1, <2>2, <3>1
    <2>3. CASE c \in PlainSymbols
      <3>1. <<c>> \in Seq(ValueSymbols)
        BY <2>3, SymbolsAre
      <3> QED BY <1>1, <2>3, <3>1
    <2> QED BY <2>1, <2>2, <2>3, SymbolsAre DEF PlainSymbols
  <1> QED BY <1>1, <1>2, SymbolsAre DEF PiecesIn

\* What is in a text and not in a set is not in the rest.
LEMMA SeqWithin ==
    ASSUME NEW T, NEW s \in Seq(T), NEW U, ToSet(s) \cap U = {}
    PROVE  s \in Seq(T \ U)
  <1>1. \A i \in 1..Len(s) : s[i] \in T \ U
    BY DEF ToSet
  <1>2. s \in [1..Len(s) -> T \ U] /\ Len(s) \in Nat
    BY <1>1
  <1> QED BY ONLY <1>2

\* One placeholder replaced, the other left for later.
LEMMA InTurn ==
    ASSUME NEW f \in Seq(TextSymbols), NEW v \in [Placeholders -> Seq(ValueSymbols)],
           \A p \in Placeholders : Placeholders \cap ToSet(v[p]) = {}
    PROVE  ReplaceInTurn(f, v) = Replace(f, v)
  <1> DEFINE One == [q \in Placeholders |-> IF q = "{1}" THEN v["{1}"] ELSE <<q>>]
             Two == [q \in Placeholders |-> IF q = "{2}" THEN v["{2}"] ELSE <<q>>]
  <1>1. ReplaceInTurn(f, v) = Replace(Replace(f, One), Two)
    BY DEF ReplaceInTurn, ReplaceOne
  <1>2. "{1}" \in Placeholders /\ "{2}" \in Placeholders /\ "{1}" # "{2}"
        /\ \A q \in Placeholders : q = "{1}" \/ q = "{2}"
    BY DEF Placeholders
  <1>3. \A q \in Placeholders : <<q>> \in Seq(ValueSymbols)
    BY SymbolsAre
  <1>4. One \in [Placeholders -> Seq(ValueSymbols)] /\ Two \in [Placeholders -> Seq(ValueSymbols)]
    BY <1>2, <1>3
  <1>5. /\ One["{1}"] = v["{1}"] /\ One["{2}"] = <<"{2}">> /\ Two["{2}"] = v["{2}"]
    BY <1>2
  <1> HIDE DEF One, Two
  <1>6. \A s \in Seq(PlainSymbols) : Replace(s, Two) = s
    <2>1. \A c \in PlainSymbols : Piece(c, Two) = <<c>>
      BY <1>4, PiecesAreValues
    <2> QED BY ONLY <2>1, ReplacePlain
  <1>7. ASSUME NEW c \in TextSymbols PROVE Piece(c, v) = Replace(Piece(c, One), Two)
    <2>1. CASE c = "{1}"
      <3>1. v["{1}"] \in Seq(PlainSymbols)
        BY <1>2, SeqWithin DEF PlainSymbols
      <3>2. Piece(c, v) = v["{1}"] /\ Piece(c, One) = v["{1}"]
        BY <1>2, <1>4, <1>5, <2>1, PiecesAreValues
      <3> QED BY <1>6, <3>1, <3>2
    <2>2. CASE c = "{2}"
      <3>1. Piece(c, v) = v["{2}"] /\ Piece(c, One) = <<"{2}">> /\ Piece(c, Two) = v["{2}"]
        BY <1>2, <1>4, <1>5, <2>2, PiecesAreValues
      <3>2. PiecesIn(TextSymbols, ValueSymbols, Two)
        BY <1>4, PiecesAreValues
      <3>3. /\ Replace(<<>>, Two) = <<>>
            /\ \A s \in Seq(TextSymbols), d \in TextSymbols :
                   Replace(Append(s, d), Two) = Replace(s, Two) \o Piece(d, Two)
        BY ONLY <3>2, ReplaceOn DEF PiecesIn
      <3>4. Append(<<>>, c) = <<c>> /\ <<>> \in Seq(TextSymbols)
        OBVIOUS
      <3>5. Replace(<<c>>, Two) = <<>> \o v["{2}"]
        BY ONLY <3>1, <3>3, <3>4, c \in TextSymbols
      <3>6. <<>> \o v["{2}"] = v["{2}"]
        BY <1>2, ConcatEmptySeq
      <3> QED BY <2>2, <3>1, <3>5, <3>6
    <2>3. CASE c = "||"
      <3>1. <<Stroke, Stroke>> \in Seq(PlainSymbols)
        BY SymbolsAre
      <3>2. Piece(c, v) = <<Stroke, Stroke>> /\ Piece(c, One) = <<Stroke, Stroke>>
        BY <1>4, <2>3, PiecesAreValues
      <3> QED BY <1>6, <3>1, <3>2
    <2>4. CASE c \in PlainSymbols
      <3>1. <<c>> \in Seq(PlainSymbols)
        BY <2>4
      <3>2. Piece(c, v) = <<c>> /\ Piece(c, One) = <<c>>
        BY <1>4, <2>4, PiecesAreValues
      <3> QED BY <1>6, <3>1, <3>2
    <2> QED BY <1>2, <2>1, <2>2, <2>3, <2>4, SymbolsAre DEF PlainSymbols
  <1>8. PiecesIn(TextSymbols, ValueSymbols, One) /\ PiecesIn(ValueSymbols, ValueSymbols, Two)
    BY <1>4, PiecesAreValues
  <1>9. Replace(Replace(f, One), Two) = Replace(f, v)
    BY ONLY <1>7, <1>8, f \in Seq(TextSymbols), ReplaceTwice DEF PiecesIn
  <1> QED BY <1>1, <1>9
-------------------------------------------------------------------------------
(* ValueText: every way to make the text. *)

\* Sets that agree on a text's symbols leave the same of it.
LEMMA OnlySame ==
    ASSUME NEW T, NEW L, NEW M, \A c \in T : c \in L <=> c \in M, NEW s \in Seq(T)
    PROVE  Only(L, s) = Only(M, s)
  <1> DEFINE G == {t \in Seq(T) : Only(L, t) = Only(M, t)}
  <1>1. <<>> \in G
    BY EmptySeq, OnlyOfEmpty
  <1>2. ASSUME NEW t \in G, NEW c \in T PROVE Append(t, c) \in G
    <2>1. t \in Seq(T) /\ Append(t, c) \in Seq(T) /\ Only(L, t) = Only(M, t)
      BY AppendProperties
    <2>2. Only(L, Append(t, c)) = IF c \in L THEN Append(Only(L, t), c) ELSE Only(L, t)
      BY ONLY <2>1, c \in T, OnlyOfAppend
    <2>3. Only(M, Append(t, c)) = IF c \in M THEN Append(Only(M, t), c) ELSE Only(M, t)
      BY ONLY <2>1, c \in T, OnlyOfAppend
    <2>4. c \in L <=> c \in M
      OBVIOUS
    <2>5. Only(L, Append(t, c)) = Only(M, Append(t, c))
      BY ONLY <2>1, <2>2, <2>3, <2>4
    <2> QED BY <2>1, <2>5
  <1>3. G \subseteq Seq(T)
    OBVIOUS
  <1> HIDE DEF G
  <1>4. s \in G
    BY <1>1, <1>2, <1>3, SeqByAppend
  <1> QED BY <1>4 DEF G

\* CollapseSeparators, with a name for the bar.
LEMMA CollapseIs ==
    ASSUME NEW t, NEW sep
    PROVE  CollapseSeparators(t, sep) = IF Stroke \notin ToSet(t) THEN Normalized(t)
                                        ELSE JoinSegments(SplitAt(t, Stroke), sep)
  BY Zenon DEF CollapseSeparators, Stroke

\* The letters of a text and those of what is made of it.
LettersOf(m) == TextSymbols \ {Blank, m}

\* Its type is that of a text with the separator.
LEMMA CollapseType ==
    ASSUME NEW m, m \notin TextSymbols, NEW t \in Seq(ValueSymbols)
    PROVE  /\ CollapseSeparators(t, <<m>>) \in Seq(TextSymbols \cup {m})
           /\ TidyBy(CollapseSeparators(t, <<m>>), Blank, m)
           /\ Only(LettersOf(m), CollapseSeparators(t, <<m>>)) = Only(LettersOf(Stroke), t)
  <1> DEFINE V == TextSymbols
             U == TextSymbols \cup {m}
             L == LettersOf(m)
             K == LettersOf(Stroke)
  <1>1. Blank \in V /\ Blank \in U /\ m \in U /\ V \subseteq U /\ Stroke \in V
    BY SymbolsAre
  <1>2. Blank \notin L /\ m \notin L /\ Blank \notin K
    BY DEF LettersOf
  <1>3. t \in Seq(V)
    BY SymbolsAre, SeqMonotonic
  <1>4. m \notin V
    OBVIOUS
  <1>5. \A c \in But(V, Stroke) : c \in L <=> c \in K
    BY <1>4 DEF But, LettersOf
  <1>6. \A c \in V : c \in K => c \in But(V, Stroke)
    BY DEF But, LettersOf
  <1>7. PICK sep : sep = <<m>>
    OBVIOUS
  <1> HIDE DEF V, U, L, K
  <1>8. Separated(sep) \in Seq(U) /\ Only(L, Separated(sep)) = <<>>
    BY <1>1, <1>2, <1>7, SeparatedOn
  <1>9. \A s \in Seq(V) : s \in Seq(U)
    BY <1>1, SeqMonotonic
  <1>10. \A ps \in Seq(Seq(V)) : ps \in Seq(Seq(U))
    <2>1. Seq(V) \subseteq Seq(U)
      BY <1>9
    <2> QED BY <2>1, SeqMonotonic
  <1>11. CASE Stroke \notin ToSet(t)
    <2>1. CollapseSeparators(t, sep) = Normalized(t)
      BY <1>11, CollapseIs
    <2>2. Normalized(t) \in Seq(V)
      BY <1>1, <1>3, NormalizedOn
    <2>3. TidyBy(Normalized(t), Blank, m)
      BY <1>1, <1>3, <1>4, NormalizedTidy
    <2>4. Only(L, Normalized(t)) = Only(L, t)
      BY <1>1, <1>2, <1>3, OnlyOfNormalized
    <2>5. t \in Seq(But(V, Stroke))
      <3>1. t \in Seq(V \ {Stroke})
        <4>1. ToSet(t) \cap {Stroke} = {}
          BY <1>11
        <4> QED BY ONLY <1>3, <4>1, SeqWithin
      <3> QED BY <3>1 DEF But
    <2>6. Only(L, t) = Only(K, t)
      BY ONLY <1>5, <2>5, OnlySame
    <2> QED BY <1>7, <1>9, <2>1, <2>2, <2>3, <2>4, <2>6 DEF U, V, L, K
  <1>12. CASE Stroke \in ToSet(t)
    <2>1. PICK ps \in Seq(Seq(V)) : ps = SplitAt(t, Stroke)
      <3>1. SplitAt(t, Stroke) \in PartsOf(But(V, Stroke))
        BY <1>3, SplitOn
      <3> QED BY <3>1, ButIsLess
    <2>2. CollapseSeparators(t, sep) = JoinSegments(ps, sep)
      BY <1>12, <2>1, CollapseIs
    <2>3. ps \in Seq(Seq(U))
      BY <1>10
    <2>4. JoinSegments(ps, sep) \in Seq(U)
      BY <1>1, <1>8, <2>3, JoinSegmentsOn
    <2>5. TidyBy(JoinSegments(ps, sep), Blank, m)
      BY <1>1, <1>4, <1>7, SegmentsTidy
    <2>6. Only(L, JoinSegments(ps, sep)) = Only(L, FlattenSeq(ps))
      BY ONLY <1>1, <1>2, <1>8, <2>3, OnlyOfSegments
    <2>7. FlattenSeq(ps) = Only(But(V, Stroke), t)
      BY <1>3, <2>1, PartsAreAll
    <2>8. PICK x \in Seq(But(V, Stroke)) : x = Only(But(V, Stroke), t)
      BY <1>3, OnlyType
    <2>9. Only(L, x) = Only(K, x)
      BY ONLY <1>5, x \in Seq(But(V, Stroke)), OnlySame
    <2>10. Only(K, Only(But(V, Stroke), t)) = Only(K, t)
      BY ONLY <1>3, <1>6, OnlyOfOnly
    <2> QED BY <1>7, <2>2, <2>4, <2>5, <2>6, <2>7, <2>8, <2>9, <2>10 DEF U, L, K
  <1> QED BY <1>11, <1>12

\* A template of the format makes the module's text of it.
LEMMA TemplateAgrees ==
    ASSUME NEW m, m \notin TextSymbols, NEW f \in Seq(ValueSymbols),
           NEW v \in [Placeholders -> Seq(But(ValueSymbols, Stroke))],
           NEW max \in Nat \ {0}, NEW options,
           options = [separator |-> <<m>>, collapse |-> TRUE, hide |-> FALSE, max |-> max]
    PROVE  resolveTemplate(f, v, options) = GitText(f, v, <<m>>, max)
  <1> DEFINE V == ValueSymbols
             whole == Replace(f, v)
             parts == SplitAt(f, Stroke)
             text == CollapseSeparators(whole, <<m>>)
             joined == IF Len(parts) = 1 THEN Reps(parts, v)[1]
                       ELSE JoinSegments(Reps(parts, v), <<m>>)
  <1>1. v \in [Placeholders -> Seq(V)]
    BY ButIsLess
  <1>2. PiecesIn(V, V, v)
    BY <1>1, PiecesAreValues
  <1>3. whole \in Seq(V)
    BY ONLY <1>2, f \in Seq(V), ReplaceOn DEF PiecesIn
  <1>4. SplitAt(whole, Stroke) = Reps(parts, v)
    <2>1. Stroke \in V /\ Piece(Stroke, v) = <<Stroke>>
      BY <1>1, PiecesAreValues, SymbolsAre
    <2>2. ASSUME NEW c \in V, c # Stroke PROVE Piece(c, v) \in Seq(But(V, Stroke))
      <3>1. CASE c \in Placeholders
        <4>1. Piece(c, v) = v[c]
          BY <1>1, <3>1, PiecesAreValues
        <4> QED BY <3>1, <4>1
      <3>2. CASE c \in PlainSymbols
        <4>1. Piece(c, v) = <<c>>
          BY <1>1, <3>2, PiecesAreValues
        <4>2. c \in But(V, Stroke)
          BY <2>2 DEF But
        <4> QED BY <4>1, <4>2
      <3> QED BY <3>1, <3>2 DEF PlainSymbols
    <2> QED BY ONLY <2>1, <2>2, f \in Seq(V), SplitReplace
  <1>5. text \in Seq(TextSymbols \cup {m}) /\ TidyBy(text, Blank, m)
    BY <1>3, CollapseType
  <1>6. Normalized(text) = text
    <2>1. Blank \in TextSymbols \cup {m}
      BY SymbolsAre
    <2> QED BY ONLY <1>5, <2>1, NormalizedSame
  <1>7. resolveTemplate(f, v, options) = Truncate(Normalized(joined), max, "right")
    <2>1. Only(TextSymbols \ {"||"}, f) = f
      <3>1. Only(ValueSymbols, f) = f
        BY OnlyAll
      <3> QED BY <3>1 DEF ValueSymbols, But
    <2>2. /\ options.separator = <<m>> /\ options.collapse = TRUE /\ options.hide = FALSE
          /\ options.max = max /\ options.max > 0
      OBVIOUS
    <2>3. resolveTemplate(f, v, options)
              = LET blocks   == Only(TextSymbols \ {"||"}, f)
                    segments == Reps(SplitAt(blocks, Stroke), v)
                    once     == IF Len(SplitAt(blocks, Stroke)) = 1 THEN segments[1]
                                ELSE JoinSegments(segments, options.separator)
                    result   == IF options.collapse THEN Normalized(once) ELSE once
                IN  IF options.hide /\ \A p \in Placeholders \cap ToSet(f) : v[p] = <<>>
                    THEN <<>>
                    ELSE IF options.max > 0 THEN Truncate(result, options.max, "right") ELSE result
      BY ONLY Zenon DEF resolveTemplate, Reps, Stroke
    <2> QED BY ONLY <2>1, <2>2, <2>3
  <1>8. GitText(f, v, <<m>>, max) = Truncate(text, max, "right")
    BY DEF GitText
  <1> HIDE DEF V, whole, text, parts
  <1>9. CASE Stroke \in ToSet(whole)
    <2>1. Len(SplitAt(whole, Stroke)) >= 2
      <3>1. Stroke \in Range(whole)
        BY <1>9 DEF Range, ToSet
      <3> QED BY ONLY <1>3, <3>1, SplitMarked
    <2>2. Len(Reps(parts, v)) >= 2
      BY <1>4, <2>1
    <2>3. Len(parts) # 1
      <3>1. parts \in Seq(Seq(V))
        <4>1. parts \in PartsOf(But(V, Stroke))
          BY SplitOn DEF parts, V
        <4> QED BY <4>1, ButIsLess
      <3>2. Len(Reps(parts, v)) = Len(parts)
        BY <3>1 DEF Reps
      <3> QED BY ONLY <2>2, <3>2
    <2>4. joined = text
      BY <1>4, <1>9, <2>3, CollapseIs DEF text
    <2> QED BY <1>6, <1>7, <1>8, <2>4
  <1>10. CASE Stroke \notin ToSet(whole)
    <2>1. SplitAt(whole, Stroke) = <<whole>>
      <3>1. whole \in Seq(V \ {Stroke})
        <4>1. ToSet(whole) \cap {Stroke} = {}
          BY <1>10
        <4> QED BY ONLY <1>3, <4>1, SeqWithin
      <3>2. Stroke \notin V \ {Stroke}
        OBVIOUS
      <3> QED BY ONLY <3>1, <3>2, SplitUnmarked
    <2>2. Reps(parts, v) = <<whole>>
      BY <1>4, <2>1
    <2>3. Len(parts) = 1 /\ Reps(parts, v)[1] = whole
      BY <2>2 DEF Reps
    <2>4. text = Normalized(whole)
      BY <1>10, CollapseIs DEF text
    <2> QED BY <1>7, <1>8, <2>3, <2>4
  <1> QED BY <1>9, <1>10

\* What stands for the placeholders: any texts without "||".
OutputsAreTexts == outputs \in [Placeholders -> Seq(ValueSymbols)]

\* For every format, every output and every limit.
LEMMA TextTidy ==
    ASSUME NEW f \in Seq(TextSymbols), NEW o \in [Placeholders -> Seq(ValueSymbols)],
           NEW m, m \notin TextSymbols, NEW max \in Nat \ {0}
    PROVE  TextIsTidy(f, o, <<m>>, max)
  <1> DEFINE v == [p \in Placeholders |-> sanitizeExecOutput(o[p])]
             whole == Replace(f, v)
             text == CollapseSeparators(whole, <<m>>)
             options == [separator |-> <<m>>, collapse |-> TRUE, hide |-> FALSE, max |-> max]
  <1>1. v \in [Placeholders -> Seq(ValueSymbols)]
    <2>1. \A p \in Placeholders : sanitizeExecOutput(o[p]) \in Seq(ValueSymbols)
      BY SymbolsAre, CleanType
    <2> QED BY <2>1
  <1> HIDE DEF v
  <1>2. whole \in Seq(ValueSymbols)
    <2>1. PiecesIn(TextSymbols, ValueSymbols, v)
      BY <1>1, PiecesAreValues
    <2> QED BY ONLY <2>1, f \in Seq(TextSymbols), ReplaceOn DEF PiecesIn
  <1>3. /\ text \in Seq(TextSymbols \cup {m})
        /\ TidyBy(text, Blank, m)
        /\ Only(LettersOf(m), text) = Only(LettersOf(Stroke), whole)
    BY <1>2, CollapseType
  <1>4. Tidy(text, m)
    BY <1>3, TidyIs
  <1>5. Normalized(text) = text
    <2>1. Blank \in TextSymbols \cup {m}
      BY SymbolsAre
    <2> QED BY ONLY <1>3, <2>1, NormalizedSame
  <1>6. CommandText(f, v, <<m>>, max) = GitText(f, v, <<m>>, max)
    BY <1>5 DEF CommandText, GitText
  <1>7. ASSUME "||" \notin ToSet(f), \A p \in Placeholders : Stroke \notin ToSet(v[p])
        PROVE  resolveTemplate(f, v, options) = GitText(f, v, <<m>>, max)
    <2>1. f \in Seq(ValueSymbols)
      <3>1. ToSet(f) \cap {"||"} = {}
        BY <1>7
      <3>2. f \in Seq(TextSymbols \ {"||"})
        BY ONLY <3>1, f \in Seq(TextSymbols), SeqWithin
      <3> QED BY <3>2 DEF ValueSymbols, But
    <2>2. v \in [Placeholders -> Seq(But(ValueSymbols, Stroke))]
      <3>1. ASSUME NEW p \in Placeholders PROVE v[p] \in Seq(But(ValueSymbols, Stroke))
        <4>1. v[p] \in Seq(ValueSymbols) /\ ToSet(v[p]) \cap {Stroke} = {}
          BY <1>1, <1>7
        <4>2. v[p] \in Seq(ValueSymbols \ {Stroke})
          BY ONLY <4>1, SeqWithin
        <4> QED BY <4>2 DEF But
      <3> QED BY <1>1, <3>1
    <2>3. options = [separator |-> <<m>>, collapse |-> TRUE, hide |-> FALSE, max |-> max]
      OBVIOUS
    <2> QED BY ONLY <2>1, <2>2, <2>3, m \notin TextSymbols, max \in Nat \ {0}, TemplateAgrees
  <1>8. ASSUME \A p \in Placeholders : Placeholders \cap ToSet(v[p]) = {}
        PROVE  ExecText(f, o, FALSE, <<m>>, max) = GitText(f, v, <<m>>, max)
    <2>1. ReplaceInTurn(f, v) = Replace(f, v)
      BY <1>1, <1>8, InTurn
    <2>2. ExecText(f, o, FALSE, <<m>>, max)
              = Truncate(CollapseSeparators(ReplaceInTurn(f, v), <<m>>), max, "right")
      BY DEF ExecText, v
    <2> QED BY <2>1, <2>2 DEF GitText
  <1>9. LettersOf(m) = TextSymbols \ {" ", m} /\ Letters(whole) = Only(LettersOf(Stroke), whole)
    BY Zenon DEF LettersOf, Letters, Blank, Stroke
  <1>10. <<m>>[1] = m
    OBVIOUS
  <1> QED BY <1>3, <1>4, <1>6, <1>7, <1>8, <1>9, <1>10, Zenon DEF TextIsTidy, v, Stroke

\* The outputs are as they are from the start.
LEMMA OutputsStay == MCSpec => []OutputsAreTexts
  <1>1. MCOutputs \subseteq Seq(ValueSymbols)
    <2>1. /\ LineEnd \in ValueSymbols /\ "y" \in ValueSymbols /\ "escape" \in ValueSymbols
          /\ Wide \in ValueSymbols /\ "{2}" \in ValueSymbols
      BY Zenon DEF ValueSymbols, But, TextSymbols, LineEnd, Control, Wide, Placeholders
    <2>2. ASSUME NEW T, NEW a \in T, NEW b \in T, NEW c \in T, NEW d \in T, NEW e \in T
          PROVE  /\ <<>> \in Seq(T) /\ <<a>> \in Seq(T) /\ <<a, b>> \in Seq(T)
                 /\ <<a, b, c, d, e>> \in Seq(T)
      OBVIOUS
    <2>3. /\ <<>> \in Seq(ValueSymbols) /\ <<Stroke, "y">> \in Seq(ValueSymbols)
          /\ <<LineEnd, "y", "escape", Blank, Wide>> \in Seq(ValueSymbols)
          /\ <<"{2}">> \in Seq(ValueSymbols)
      BY <2>1, <2>2, SymbolsAre, Zenon
    <2> QED BY <2>3, Zenon DEF MCOutputs, Stroke, Blank
  <1>2. MCInit => OutputsAreTexts
    BY <1>1 DEF MCInit, OutputsAreTexts
  <1>3. OutputsAreTexts /\ [MCNext]_<<subject, inputs, histories>> => OutputsAreTexts'
    BY DEF OutputsAreTexts, MCNext, Write, ReadByte, Configure, AddBlock, Animate, Track, inputs
  <1> QED BY <1>2, <1>3, PTL DEF MCSpec

\* Whatever the format and the outputs, the text of a module has no separator
\* that stands for nothing and loses no letter; the exec, command and git modules
\* make the same of it, and so does a template (CollapseSeparators,
\* resolveTemplate).
THEOREM TextsStayTidy == MCSpec => []TextsAreTidy
  <1>1. "*" \notin TextSymbols
    BY Zenon DEF TextSymbols, LineEnd, Control, Wide, Ellipsis, Placeholders
  <1>2. FormatIsText /\ OutputsAreTexts => TextsAreTidy
    <2>1. \A max \in {2, 5} : max \in Nat \ {0}
      OBVIOUS
    <2> QED BY <1>1, <2>1, TextTidy DEF TextsAreTidy, FormatIsText, OutputsAreTexts
  <1> QED BY <1>2, FormatsAreTexts, OutputsStay, PTL
===============================================================================
