--------------------------- MODULE CursorPlacement ---------------------------
(***************************************************************************)
(* Keeping the cursor out of the bar.  A terminal that gets smaller takes  *)
(* the cursor along, possibly into a row of the bar; setting the margins   *)
(* saves and restores it there.  After a shrink ptyline therefore asks the *)
(* terminal where the cursor is, and after a resize on the alternate       *)
(* screen it moves it in any case: the ResizeCommit handler,               *)
(* app/resize_scroll.go and the cursor's part of altScreenCoordinator.     *)
(*                                                                         *)
(* Handling a resize or a screen switch is one step of the event loop,     *)
(* except that it waits for an answer in between.  How heights get to the  *)
(* loop is the subject of Screen: here the heights on their way are a set, *)
(* `sizes', of which the loop may commit any, in any order and more than   *)
(* once, until it has committed the window's own and none is left.  As     *)
(* long as there are some, the child may have been told of any of them (at *)
(* the first SIGWINCH of a burst, long before the commit), while the       *)
(* margins are still those of the last commit.  The bar keeps its height.  *)
(***************************************************************************)
EXTENDS ReservedArea, Integers, Sequences

CONSTANTS
    Heights,         \* heights the terminal window may have
    Bar,             \* height of the bar
    ClampsOnShrink,  \* Capabilities.ClampsCursorOnShrink
    MaxQueries,      \* bound: cursor queries of ptyline's and of the child's
    MaxResizes,      \* bound: changes of the window height
    MaxTypedReplies  \* bound: keys that look like an answer

ASSUME HeightsAssumption == Heights \subseteq (Nat \ {0}) /\ Heights # {}
ASSUME ParametersAssumption ==
    /\ Bar \in Nat \ {0} /\ ClampsOnShrink \in BOOLEAN
    /\ MaxQueries \in Nat /\ MaxResizes \in Nat /\ MaxTypedReplies \in Nat

VARIABLES
    \* the terminal and its user (external)
    winRows, resizes,
    sizes,           \* heights on their way to the loop, or on their way to be
                     \* committed by it
    cursor,          \* the cursor's row on the screen that is displayed
    saved,           \* its row on the normal screen while alt, else 0
    typed,           \* how many keys that look like an answer were pressed
    \* the query, see QueryChannel
    asked, asks, replies, armed, cur, chan,
    \* the event loop
    lpc,             \* "idle", or "wait" for the answer to `cur'
    stRows, alt, resizedDuringAlt,
    \* history
    overlapped,      \* queries sent while another was unanswered, or before
                     \* somebody else's answer was on its way, too
    strayed,         \* in the middle of a resize, or with no margins, the child
                     \* took the normal screen's cursor below its committed rows
    placed           \* what the last shrink went by: "none", "own", "foreign", "timeout"

termVars  == <<winRows, resizes, sizes, cursor, saved, typed>>
queryVars == <<asked, asks, replies, armed, cur, chan>>
loopVars  == <<lpc, stRows, alt, resizedDuringAlt>>
histVars  == <<overlapped, strayed, placed>>
vars == <<termVars, queryVars, loopVars, histVars>>

Rows == UNION {1..h : h \in Heights}

Channel == INSTANCE QueryChannel

Init ==
    /\ winRows \in Heights /\ stRows = winRows
    /\ cursor \in 1..ChildRows(Bar, winRows)
    /\ resizes = 0 /\ sizes = {} /\ saved = 0 /\ typed = 0
    /\ Channel!CInit
    /\ lpc = "idle" /\ alt = FALSE /\ resizedDuringAlt = FALSE
    /\ overlapped = {} /\ strayed = FALSE /\ placed = "none"
-------------------------------------------------------------------------------
(* The terminal, its user, and PositionQuery. *)

\* The cursor the terminal would have to put below its last row goes there.
OnScreen(row) == IF row > winRows THEN winRows ELSE row

WindowResize ==
    /\ resizes < MaxResizes
    /\ resizes' = resizes + 1
    /\ \E r \in Heights \ {winRows} :
          /\ winRows' = r /\ cursor' = IF cursor > r THEN r ELSE cursor
          /\ sizes' = sizes \cup {r}
    /\ UNCHANGED <<saved, typed, queryVars, loopVars, histVars>>

\* Answers come in order and at any time, or not at all.
Answer ==
    /\ Channel!AnswerWith(cursor)
    /\ UNCHANGED <<termVars, loopVars, histVars>>

\* Shift-F3 reaches some programs as CSI 1;2 R, an answer that says row 1.
TypeReply ==
    /\ typed < MaxTypedReplies
    /\ typed' = typed + 1
    /\ Channel!TypeReply(1)
    /\ overlapped' = (overlapped \cup {cur}) \ {0}
    /\ UNCHANGED <<winRows, resizes, sizes, cursor, saved, loopVars, strayed, placed>>

ReadReply ==
    /\ Channel!Take \/ Channel!Leak
    /\ UNCHANGED <<termVars, loopVars, histVars>>

QueryEnds ==
    /\ Channel!Disarm
    /\ UNCHANGED <<termVars, loopVars, histVars>>
-------------------------------------------------------------------------------
(* The event loop. *)

\* The child's rows as of the last commit, the ones its margins were set to.
InChildRows(row) == row <= ChildRows(Bar, stRows)

\* Between resizes margins keep the child's cursor in its rows, see CursorOffBar
\* of OutputFilter.  A terminal takes no margins of a single row.
Confined == sizes = {} /\ ChildRows(Bar, stRows) > 1

\* The child's output moves the cursor.  In the middle of a resize the child has
\* another size than the margins, and below them nothing holds the cursor.
ChildOutput ==
    /\ lpc = "idle"
    /\ cursor' \in 1..winRows
    /\ ~alt /\ Confined /\ InChildRows(cursor) => InChildRows(cursor')
    /\ strayed' = IF alt THEN strayed ELSE ~InChildRows(cursor') /\ (strayed \/ ~Confined)
    /\ UNCHANGED <<winRows, resizes, sizes, saved, typed, queryVars, loopVars,
                   overlapped, placed>>

\* ... and may ask for its position.
ChildAsks ==
    /\ lpc = "idle"
    /\ Channel!ForeignAsk
    /\ overlapped' = (overlapped \cup {cur}) \ {0}
    /\ UNCHANGED <<termVars, loopVars, strayed, placed>>

\* posQuery.Arm, and the query written.  (queryVars, overlapped)
Query ==
    /\ Channel!Ask
    /\ overlapped' = IF asked \o replies # <<>> THEN overlapped \cup {cur'} ELSE overlapped

\* ApplyScrollRegionAtChildBottom's place for the cursor; ApplyScrollRegion
\* leaves the cursor where it is.
ChildBottom(rows) == OnScreen(ChildRows(Bar, rows))

\* state.Resize.  The window's own height may be the last one on its way.
\* (stRows, sizes)
Commit(r) ==
    /\ r \in sizes
    /\ stRows' = r
    /\ sizes' = sizes \/ (r = winRows /\ sizes' = {})

\* ResizeCommit with at least as many rows as the last one: the cursor stays.
\* The answer to the probe does not move it.
CommitGrow ==
    /\ lpc = "idle" /\ ~alt
    /\ \E r \in sizes :
          /\ r >= stRows
          /\ Commit(r)
          /\ strayed' = (strayed /\ cursor > ChildRows(Bar, r))
    /\ Query
    /\ UNCHANGED <<winRows, resizes, cursor, saved, typed, lpc, alt, resizedDuringAlt, placed>>

\* ResizeCommit with fewer rows: the loop waits for the answer.
CommitShrink ==
    /\ lpc = "idle" /\ ~alt
    /\ \E r \in sizes : r < stRows /\ Commit(r)
    /\ Query
    /\ lpc' = "wait"
    /\ UNCHANGED <<winRows, resizes, cursor, saved, typed, alt, resizedDuringAlt,
                   strayed, placed>>

CommitOnAlt ==
    /\ lpc = "idle" /\ alt
    /\ \E r \in sizes : Commit(r)
    /\ resizedDuringAlt' = TRUE
    /\ UNCHANGED <<winRows, resizes, cursor, saved, typed, queryVars, lpc, alt, histVars>>

\* The answer says whether the cursor is inside the bar.
ShrinkAnsweredLax ==                \* mutant: off by one
    /\ lpc = "wait"
    /\ chan[cur] # <<>>
    /\ LET reply == chan[cur][1]
       IN  /\ cursor' = IF reply.row > ChildRows(Bar, stRows) + 1
                        THEN ChildBottom(stRows) ELSE cursor
           /\ placed' = IF reply.who = cur THEN "own" ELSE "foreign"
    /\ strayed' = (strayed /\ ~InChildRows(cursor'))
    /\ lpc' = "idle"
    /\ UNCHANGED <<winRows, resizes, sizes, saved, typed, queryVars, stRows, alt,
                   resizedDuringAlt, overlapped>>
ShrinkAnswered ==
    /\ lpc = "wait"
    /\ chan[cur] # <<>>
    /\ LET reply == chan[cur][1]
       IN  /\ cursor' = IF reply.row > ChildRows(Bar, stRows)
                        THEN ChildBottom(stRows) ELSE cursor
           /\ placed' = IF reply.who = cur THEN "own" ELSE "foreign"
    /\ strayed' = (strayed /\ ~InChildRows(cursor'))
    /\ lpc' = "idle"
    /\ UNCHANGED <<winRows, resizes, sizes, saved, typed, queryVars, stRows, alt,
                   resizedDuringAlt, overlapped>>

\* No answer in time: what is known of the terminal decides.
ShrinkTimesOut ==
    /\ lpc = "wait"
    /\ cursor' = IF ClampsOnShrink THEN ChildBottom(stRows) ELSE cursor
    /\ placed' = "timeout"
    /\ strayed' = (strayed /\ ~InChildRows(cursor'))
    /\ lpc' = "idle"
    /\ UNCHANGED <<winRows, resizes, sizes, saved, typed, queryVars, stRows, alt,
                   resizedDuringAlt, overlapped>>

\* altScreenCoordinator.Apply.  The terminal itself keeps the normal screen's
\* cursor while the alternate screen is displayed, and restores it.
AltEnter ==
    /\ lpc = "idle" /\ ~alt
    /\ alt' = TRUE
    /\ saved' = cursor
    /\ resizedDuringAlt' = FALSE
    /\ UNCHANGED <<winRows, resizes, sizes, cursor, typed, queryVars, lpc, stRows, histVars>>

AltLeave ==
    /\ lpc = "idle" /\ alt
    /\ alt' = FALSE
    /\ cursor' = IF resizedDuringAlt THEN ChildBottom(stRows) ELSE OnScreen(saved)
    /\ saved' = 0
    /\ resizedDuringAlt' = FALSE
    /\ strayed' = (strayed /\ ~InChildRows(cursor'))
    /\ Query
    /\ UNCHANGED <<winRows, resizes, sizes, typed, lpc, stRows, placed>>
-------------------------------------------------------------------------------
Next ==
    \/ WindowResize \/ Answer \/ TypeReply \/ ReadReply \/ QueryEnds
    \/ ChildOutput \/ ChildAsks
    \/ CommitGrow \/ CommitShrink \/ CommitOnAlt
    \/ ShrinkAnswered \/ ShrinkTimesOut
    \/ AltEnter \/ AltLeave

Spec == Init /\ [][Next]_vars
-------------------------------------------------------------------------------
Askers  == 1..MaxQueries
Replies == [who : Askers \cup {0, -1}, row : Nat \ {0}]

TerminalType ==
    /\ winRows \in Heights /\ cursor \in 1..winRows /\ saved \in Nat
    /\ resizes \in 0..MaxResizes /\ typed \in 0..MaxTypedReplies

QueryType ==
    /\ asked \in Seq(Askers \cup {0}) /\ asks \in 0..MaxQueries
    /\ replies \in Seq(Replies)
    /\ cur \in 0..MaxQueries
    /\ chan \in [Askers -> Seq(Replies)]
    /\ overlapped \subseteq Askers

LoopType ==
    /\ stRows \in Heights /\ sizes \subseteq Heights
    /\ lpc \in {"idle", "wait"}
    /\ placed \in {"none", "own", "foreign", "timeout"}

FlagType ==
    /\ armed \in BOOLEAN /\ alt \in BOOLEAN /\ resizedDuringAlt \in BOOLEAN
    /\ strayed \in BOOLEAN
    /\ armed => cur # 0
    /\ alt => saved # 0

TypeOK == TerminalType /\ QueryType /\ LoopType /\ FlagType

\* The last shrink was decided on grounds that do not mislead.
WellPlaced == placed \in {"none", "own"} \/ (placed = "timeout" /\ ClampsOnShrink)

\* Once the loop has committed the window's height the cursor is never inside
\* the bar, if the terminal answered the last shrink's own query or is known to
\* clamp, whatever heights, screen switches and commits of older heights came
\* before (reapplyScrollRegionAfterShrink, altScreenCoordinator.Apply) -- unless
\* the child took it below its rows while the margins did not fit, and no
\* shrink's answer has shown it since, see CursorSettles.
CursorOutOfBar ==
    /\ lpc = "idle" /\ ~alt /\ winRows = stRows
    /\ WellPlaced /\ ~strayed
    => cursor <= ChildRows(Bar, winRows)

\* What the comments of syncResizeGeometry and ResizeCommit say: once the last
\* height of a drag is committed the cursor is safe, as nothing else than a
\* shrink takes it out of the child's rows (app/app.go).
CursorSettles ==
    /\ lpc = "idle" /\ ~alt /\ sizes = {}
    /\ WellPlaced
    => cursor <= ChildRows(Bar, stRows)

\* A query that overlaps with no other and with no such key gets its own answer.
OwnAnswer ==
    \A q \in Askers : chan[q] # <<>> => chan[q][1].who = q \/ q \in overlapped
-------------------------------------------------------------------------------
(***************************************************************************)
(* The inductive invariant behind CursorOutOfBar and OwnAnswer.            *)
(***************************************************************************)

\* Outside the wait the cursor is among the rows of the last commit.
CursorAmongChildRows ==
    /\ lpc = "idle" /\ ~alt /\ WellPlaced /\ ~strayed => InChildRows(cursor)
    /\ alt /\ ~resizedDuringAlt /\ WellPlaced /\ ~strayed => InChildRows(saved)

\* While the loop waits the cursor can only have gone up since the terminal
\* answered the query the loop is waiting for.
AnswerIsNoLower ==
    lpc = "wait" =>
        /\ ~alt /\ cur # 0
        /\ \A i \in 1..Len(replies) : replies[i].who = cur => cursor <= replies[i].row
        /\ chan[cur] # <<>> /\ chan[cur][1].who = cur => cursor <= chan[cur][1].row

\* Nobody has an answer from the future.
AnswersArePast ==
    /\ \A i \in 1..Len(asked) : asked[i] <= cur
    /\ \A i \in 1..Len(replies) : replies[i].who <= cur
    /\ \A q \in Askers : q > cur => chan[q] = <<>>

\* A query that overlaps with nothing is the only one around.
AloneUnlessOverlapped ==
    cur # 0 /\ cur \notin overlapped =>
        /\ \A i \in 1..Len(asked) : asked[i] = cur
        /\ \A i \in 1..Len(replies) : replies[i].who = cur

IInv == /\ CursorAmongChildRows /\ AnswerIsNoLower /\ AnswersArePast
        /\ AloneUnlessOverlapped /\ OwnAnswer
===============================================================================
