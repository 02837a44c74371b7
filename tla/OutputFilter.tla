----------------------------- MODULE OutputFilter -----------------------------
(***************************************************************************)
(* Where the cursor is, and where AnsiFilter believes it to be: one action *)
(* per kind of control sequence the child may send, with what the filter   *)
(* does to it (proxy/ansi_filter.go) and what the terminal does with the   *)
(* result.  The filter tracks a row on the way to rewrite an erase to the  *)
(* end of the screen so that it spares the bar; a query of the cursor after*)
(* the alternate screen corrects it from another goroutine                 *)
(* (probeCursorRowAsync in app/resize_scroll.go).                          *)
(*                                                                         *)
(* The terminal is external: margins, the saved cursor of either screen    *)
(* and the effect of a sequence follow ECMA-48 and the DEC manuals the     *)
(* code's comments name.  The window keeps its height; Screen and          *)
(* CursorPlacement are about changes of it.  How bytes make a sequence is  *)
(* the subject of AnsiScan.                                                *)
(***************************************************************************)
EXTENDS ReservedArea, Integers, FiniteSets

CONSTANTS Rows, Bar      \* height of the terminal and of the bar

ASSUME OutputFilterAssumption == Bar \in Nat \ {0} /\ Rows \in Nat /\ Rows > Bar + 1

VARIABLES
    \* the terminal (external)
    cursor, top, bot,  \* the cursor's row and the margins
    saved,             \* the row saved by ESC 7 or ?1049h, per screen
    \* the filter
    altActive, believed, barClobbered, regionReset,
    \* the probe
    probe, answer,     \* a query is unanswered; the row it will be answered with
    \* history
    drift,             \* something happened that the filter does not follow
    overtaken,         \* the cursor moved since the query
    strayed,           \* the child has used margins of its own, or left the alternate
                       \* screen by ?47l or ?1047l, which do not restore the cursor
    escaped,           \* the cursor is on the bar since a move that was not clamped,
    savedEscape,       \* and so is the row saved on the normal screen
    erase              \* the erase to the end of the normal screen just done

terminal == <<cursor, top, bot, saved>>
flags    == <<barClobbered, regionReset>>
query    == <<probe, answer>>
escapes  == <<escaped, savedEscape>>
trackVars ==
    <<terminal, altActive, believed, flags, query, drift, overtaken, strayed, escapes, erase>>

bottom == ChildRows(Bar, Rows)
Screens == {"normal", "alt"}
Screen  == IF altActive THEN "alt" ELSE "normal"
NoErase == [rows |-> {}, from |-> 1, trusted |-> FALSE, flagged |-> FALSE]
Least(a, b) == IF a < b THEN a ELSE b
Most(a, b)  == IF a < b THEN b ELSE a

FilterInit ==
    /\ cursor = 1 /\ top = 1 /\ bot = bottom /\ saved = [s \in Screens |-> 1]
    /\ altActive = FALSE /\ believed = 0 /\ barClobbered = FALSE /\ regionReset = FALSE
    /\ probe = FALSE /\ answer = 0 /\ overtaken = FALSE
    /\ drift = FALSE /\ strayed = FALSE /\ escaped = FALSE /\ savedEscape = FALSE
    /\ erase = NoErase
-------------------------------------------------------------------------------
(* The terminal: margins hold a cursor that is inside of them.             *)

DownFrom(row, n) == IF row <= bot THEN Least(row + n, bot) ELSE Least(row + n, Rows)
UpFrom(row, n)   == IF row >= top THEN Most(row - n, top) ELSE Most(row - n, 1)

(* The filter's bookkeeping. *)

effectiveBottom == IF altActive THEN Rows ELSE bottom
setRow(row) == Most(Least(row, effectiveBottom), 1)
AdvanceUnbounded(delta) ==                               \* mutant: no lower edge
    IF believed = 0 THEN 0 ELSE Most(believed + delta, 1)
advanceRow(delta) ==
    IF believed = 0 THEN 0 ELSE Most(Least(believed + delta, effectiveBottom), 1)

\* A sequence whose effect on the row the filter follows, and one that it does
\* not look at.
Tracks(row)  == believed' = row /\ UNCHANGED drift
Missed       == drift' = TRUE /\ UNCHANGED believed

FilterOnly   == UNCHANGED <<top, bot, saved, altActive, flags, query>>

\* An escape of the cursor lasts until it is back above the bar.
Bounded   == escaped' = (escaped /\ cursor' > bottom) /\ UNCHANGED savedEscape
Unbounded == escaped' = (~altActive /\ cursor' > bottom) /\ UNCHANGED savedEscape
-------------------------------------------------------------------------------
(* Relative moves, forwarded as they are. *)

\* LF, IND, CUD, CNL.
Down ==
    /\ \E n \in 1..2 : cursor' = DownFrom(cursor, n) /\ Tracks(advanceRow(n))
    /\ FilterOnly

\* RI, CUU, CPL.
Up ==
    /\ \E n \in 1..2 : cursor' = UpFrom(cursor, n) /\ Tracks(advanceRow(-n))
    /\ FilterOnly

\* A count that is no number, or too large for one, is 1 to parseCount; the
\* terminal makes of it what it likes.
Miscounted ==
    /\ \E n \in 0..Rows :
          \/ cursor' = DownFrom(cursor, n) /\ believed' = advanceRow(1)
          \/ cursor' = UpFrom(cursor, n) /\ believed' = advanceRow(-1)
    /\ drift' = TRUE
    /\ FilterOnly

\* Text that reaches the right margin; NEL.
Wrap ==
    /\ cursor' = DownFrom(cursor, 1) /\ Missed
    /\ FilterOnly

\* VPR is a relative move that the margins do not hold.
MoveByVPR ==
    /\ \E n \in 1..Rows : cursor' = Least(cursor + n, Rows)
    /\ Missed
    /\ FilterOnly

\* DECSC and DECRC.
Save ==
    /\ saved' = [saved EXCEPT ![Screen] = cursor]
    /\ savedEscape' = IF altActive THEN savedEscape ELSE escaped
    /\ UNCHANGED <<cursor, top, bot, altActive, believed, flags, query, drift, escaped>>

RestoreSaved ==
    /\ cursor' = saved[Screen] /\ Missed
    /\ escaped' = (~altActive /\ savedEscape)
    /\ UNCHANGED savedEscape
    /\ FilterOnly

(* Absolute moves. *)

\* Mutant: the row is passed on as the child wrote it.
MoveToUnclamped ==
    /\ ~altActive
    /\ \E row \in 1..Rows :
          /\ cursor' = row
          /\ believed' = setRow(row)
    /\ drift' = FALSE
    /\ FilterOnly

\* CUP, HVP, VPA: the row is clamped, and then known.
MoveTo ==
    /\ ~altActive
    /\ \E row \in 1..Rows :
          LET clamped == Least(row, bottom) IN
          /\ cursor' = clamped
          /\ believed' = setRow(clamped)
    /\ drift' = FALSE
    /\ FilterOnly

MoveToInAlt ==
    /\ altActive
    /\ \E row \in 1..Rows : cursor' = row
    /\ Missed
    /\ FilterOnly

\* A row that is no number is passed on; terminals take it for row 1.
MoveToMalformed ==
    /\ cursor' = 1 /\ Missed
    /\ FilterOnly

\* So is a number too large for an int; terminals clamp it to their last row.
MoveToOutOfRange ==
    /\ cursor' = Rows /\ Missed
    /\ FilterOnly
-------------------------------------------------------------------------------
(* Erases, resets, margins. *)

\* Mutant: starts one row too late.
RewriteFromNext(known) ==
    LET rows == IF known THEN {cursor} \cup (believed + 2)..bottom ELSE cursor..Rows IN
    /\ ~altActive
    /\ erase' = [rows |-> rows, from |-> cursor, trusted |-> ~drift,
                 flagged |-> barClobbered \/ ~known]
    /\ barClobbered' = (barClobbered \/ ~known)
    /\ saved' = IF known THEN [saved EXCEPT !.normal = cursor] ELSE saved
    /\ savedEscape' = IF known THEN escaped ELSE savedEscape
    /\ UNCHANGED <<cursor, top, bot, altActive, believed, regionReset, query, drift, escaped>>

\* CSI J: with a row to go by, the lines below it are erased one by one between
\* ESC 7 and ESC 8; otherwise the terminal erases the bar as well.
RewriteErase(known) ==
    LET rows == IF known THEN {cursor} \cup (believed + 1)..bottom ELSE cursor..Rows IN
    /\ ~altActive
    /\ erase' = [rows |-> rows, from |-> cursor, trusted |-> ~drift,
                 flagged |-> barClobbered \/ ~known]
    /\ barClobbered' = (barClobbered \/ ~known)
    /\ saved' = IF known THEN [saved EXCEPT !.normal = cursor] ELSE saved
    /\ savedEscape' = IF known THEN escaped ELSE savedEscape
    /\ UNCHANGED <<cursor, top, bot, altActive, believed, regionReset, query, drift, escaped>>

EraseToEnd == RewriteErase(believed \in 1..bottom)

\* CSI 2 J becomes an erase of the child's rows from its last row upwards, and
\* so does ESC c or CSI ! p; all of them leave the cursor at home.  For a reset
\* the loop then sets the margins again, between ESC 7 and ESC 8.
EraseAll ==
    /\ ~altActive
    /\ cursor' = 1 /\ Missed
    /\ FilterOnly

Reset ==
    /\ ~altActive
    /\ cursor' = 1 /\ Missed
    /\ regionReset' = TRUE
    /\ UNCHANGED <<top, bot, saved, altActive, barClobbered, query>>

\* The loop after it has written what the filter returned.
TakeFlags ==
    /\ barClobbered \/ regionReset
    /\ barClobbered' = FALSE /\ regionReset' = FALSE
    /\ IF regionReset
       THEN /\ top' = 1 /\ bot' = bottom
            /\ saved' = [saved EXCEPT !.normal = cursor] /\ savedEscape' = escaped
       ELSE UNCHANGED <<top, bot, saved, savedEscape>>
    /\ UNCHANGED <<cursor, altActive, believed, query, drift, escaped>>

\* DECSTBM moves the cursor to row 1.
SetMargins ==
    /\ ~altActive
    /\ \/ top' = 1 /\ bot' = bottom
       \/ \E t, b \in 1..Rows :
             LET asked == IF b <= bottom THEN b ELSE bottom IN
             top' = (IF t >= asked THEN 1 ELSE t) /\ bot' = asked
    /\ cursor' = 1 /\ Missed
    /\ strayed' = (strayed \/ top' # 1 \/ bot' # bottom)
    /\ UNCHANGED <<saved, altActive, flags, query>>
-------------------------------------------------------------------------------
(* The alternate screen, and the probe when it is left.                    *)

\* ?1049h saves the cursor, ?47h and ?1047h do not; altScreenCoordinator then
\* resets the margins, which moves the cursor to row 1.
EnterAlt ==
    /\ ~altActive /\ ~barClobbered /\ ~regionReset
    /\ \/ saved' = [saved EXCEPT !.normal = cursor] /\ savedEscape' = escaped
       \/ UNCHANGED <<saved, savedEscape>>
    /\ altActive' = TRUE /\ escaped' = FALSE
    /\ cursor' = 1 /\ top' = 1 /\ bot' = Rows
    /\ Missed
    /\ UNCHANGED <<flags, query>>

\* Back on the normal screen the margins are set between ESC 7 and ESC 8, and
\* the terminal is asked for the cursor: it answers with the row that the
\* output before the query has led to.  The query forgets an earlier one.
LeaveAlt ==
    /\ altActive
    /\ \/ cursor' = saved["normal"] /\ UNCHANGED strayed
       \/ UNCHANGED cursor /\ strayed' = TRUE
    /\ saved' = [saved EXCEPT !.normal = cursor']
    /\ escaped' = savedEscape /\ UNCHANGED savedEscape
    /\ altActive' = FALSE
    /\ top' = 1 /\ bot' = bottom
    /\ Missed
    /\ probe' = TRUE /\ answer' = cursor'
    /\ UNCHANGED flags

\* No answer within cursorQueryTimeout.
GiveUp ==
    /\ probe
    /\ probe' = FALSE /\ answer' = 0
    /\ UNCHANGED <<terminal, altActive, believed, flags, drift, escapes>>

\* The goroutine of the probe; nothing orders it with the loop.  No row of the
\* bar is believed.
Reconcile ==
    /\ probe
    /\ believed' = setRow(answer)
    /\ drift' = (overtaken \/ answer > bottom)
    /\ probe' = FALSE /\ answer' = 0
    /\ UNCHANGED <<terminal, altActive, flags, escapes>>
-------------------------------------------------------------------------------
\* A query is overtaken by what moves the cursor after it.
Overtaking == overtaken' = (probe /\ probe' /\ (overtaken \/ cursor' # cursor))
NotErasing == erase' = NoErase /\ Overtaking
OnBounds   == NotErasing /\ UNCHANGED strayed

FilterNext ==
    \/ Down /\ Bounded /\ OnBounds
    \/ Up /\ Bounded /\ OnBounds
    \/ Miscounted /\ Bounded /\ OnBounds
    \/ Wrap /\ Bounded /\ OnBounds
    \/ MoveByVPR /\ Unbounded /\ OnBounds
    \/ Save /\ OnBounds
    \/ RestoreSaved /\ OnBounds
    \/ MoveTo /\ Bounded /\ OnBounds
    \/ MoveToInAlt /\ Bounded /\ OnBounds
    \/ MoveToMalformed /\ Bounded /\ OnBounds
    \/ MoveToOutOfRange /\ Unbounded /\ OnBounds
    \/ EraseAll /\ Bounded /\ OnBounds
    \/ Reset /\ Bounded /\ OnBounds
    \/ SetMargins /\ Bounded /\ NotErasing
    \/ EnterAlt /\ OnBounds
    \/ LeaveAlt /\ NotErasing
    \/ TakeFlags /\ OnBounds
    \/ GiveUp /\ OnBounds
    \/ Reconcile /\ OnBounds
    \/ EraseToEnd /\ Overtaking /\ UNCHANGED strayed

FilterSpec == FilterInit /\ [][FilterNext]_trackVars
-------------------------------------------------------------------------------
(* Properties. *)

TerminalType ==
    /\ cursor \in 1..Rows /\ top \in 1..Rows /\ bot \in 1..Rows
    /\ saved \in [Screens -> 1..Rows]
FilterType == believed \in 0..Rows /\ answer \in 0..Rows
FlagType   == /\ altActive \in BOOLEAN /\ barClobbered \in BOOLEAN /\ regionReset \in BOOLEAN
              /\ probe \in BOOLEAN /\ drift \in BOOLEAN /\ overtaken \in BOOLEAN
              /\ strayed \in BOOLEAN /\ escaped \in BOOLEAN /\ savedEscape \in BOOLEAN
EraseType ==
    erase \in [rows : SUBSET (1..Rows), from : 1..Rows, trusted : BOOLEAN, flagged : BOOLEAN]

FilterTypeOK == TerminalType /\ FilterType /\ FlagType /\ EraseType

\* After a move to a row, or an answer of the terminal in time, the believed row
\* is the cursor's through any number of relative moves, at either edge of the
\* child's area, until something happens that the filter does not follow.
BeliefIsExact == believed # 0 /\ ~drift /\ ~strayed => believed = cursor

\* An erase to the end of the screen that is rewritten on such a row erases what
\* the terminal would have erased of the child's area, and on any row nothing
\* of the bar unless the bar is flagged for a repaint, as long as the cursor has
\* not escaped onto it.
EraseIsFaithful ==
    ~strayed => /\ erase.trusted => erase.rows \cap 1..bottom = erase.from..bottom
                /\ erase.rows \subseteq 1..bottom \/ erase.flagged \/ erase.from > bottom

\* With the margins ptyline sets, only VPR and a row too large for an int take
\* the cursor into the bar (see CursorNeverOnBar): no other sequence of the
\* child's does, not even by way of a saved row or the alternate screen, and
\* what follows an escape does not prolong it.
CursorOffBar == ~altActive /\ ~strayed /\ ~escaped => cursor <= bottom

\* What the comment of clampCursorRow says: an absolute move to a row of the bar
\* is taken back to the child's last row, relative moves stay bounded by the
\* margins.
CursorNeverOnBar == ~altActive /\ ~strayed => cursor <= bottom
-------------------------------------------------------------------------------
(* Why the properties hold. *)

\* The margins are ptyline's, or the alternate screen's.
MarginsAreSet == /\ ~strayed => top = 1 /\ bot = effectiveBottom
                 /\ altActive => top = 1 /\ bot = Rows

\* The saved row of the normal screen is the child's.
SavedOffBar == ~strayed /\ ~savedEscape => saved["normal"] <= bottom

\* The flags are taken before the screen is switched.
FlagsAreTaken == altActive => ~barClobbered /\ ~regionReset

\* A query that was not overtaken is answered with the cursor's row.
AnswerIsExact == probe /\ ~overtaken => answer = cursor

\* The filter does not follow an escape.
EscapesAreMissed ==
    ~strayed => /\ escaped => drift /\ ~altActive /\ cursor > bottom
                /\ savedEscape => saved["normal"] > bottom

FilterInv == /\ MarginsAreSet /\ SavedOffBar /\ FlagsAreTaken /\ AnswerIsExact
             /\ EscapesAreMissed /\ BeliefIsExact /\ EraseIsFaithful /\ CursorOffBar
===============================================================================
