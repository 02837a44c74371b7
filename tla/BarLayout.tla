------------------------------ MODULE BarLayout -------------------------------
(***************************************************************************)
(* One row of the bar as a pure function: ParseFormat (format/format.go)   *)
(* turns the format's tokens into blocks, Engine.arrange (status/layout/   *)
(* layout.go) decides which of them fit, and RenderRow (status/renderer/   *)
(* renderer.go) lays the visible ones out in three sections.  Text is its  *)
(* width in cells; a placeholder's token carries what its module shows.    *)
(* ParseFormat sets no MinWidth, MaxWidth or fill width, so the engine's   *)
(* code for them is left out.                                              *)
(***************************************************************************)
EXTENDS Integers, Sequences, SequencesExt

Anchors == <<"right", "center", "left">>         \* in the order they are dropped
Justifications == {"left", "center", "right", "absolute_center"}

(* Tokens, as tokenize makes them. *)
Split == [kind |-> "split"]                                              \* ||
Sep   == [kind |-> "sep"]                                                \* |
Literal(lead, body, trail) == [kind |-> "literal", lead |-> lead, body |-> body, trail |-> trail]
\* {m}, {m:>}, {m:<8} or {m:<20%}: value is the width of what the module shows, 0
\* when that is empty; outer the width of its style's caps and padding.
Module(value, outer, anchor, width) ==
    [kind |-> "module", value |-> value, outer |-> outer, anchor |-> anchor, width |-> width]

WidthAuto == [kind |-> "auto"]
Cells(n) == [kind |-> "cells", n |-> n]
Percent(n) == [kind |-> "percent", n |-> n]
-------------------------------------------------------------------------------
(* ParseFormat *)

TextWidth(text) == text.lead + text.body + text.trail
IsSep(b) == b.kind = "sep"
IsLiteral(b) == b.kind = "literal"
IsBlank(b) == IsLiteral(b) /\ b.body = 0

\* strings.TrimRight and TrimLeft; a blank literal is all lead and becomes empty.
TrimRight(text) == IF text.body = 0 THEN [text EXCEPT !.lead = 0, !.trail = 0]
                                    ELSE [text EXCEPT !.trail = 0]
TrimLeft(text) == IF text.body = 0 THEN [text EXCEPT !.lead = 0, !.trail = 0]
                                   ELSE [text EXCEPT !.lead = 0]

\* What has been read: the blocks, each with the number of its section, and how
\* many sections there are.
NothingRead == [blocks |-> <<>>, sections |-> 1]
InSection(read, block) == [block |-> block, section |-> read.sections]

\* Whether the section has a last block of this kind.
EndsWith(read, kind) ==
    /\ read.blocks # <<>>
    /\ Last(read.blocks).section = read.sections
    /\ Last(read.blocks).block.kind = kind

AppendBlock(read, block) == [read EXCEPT !.blocks = Append(@, InSection(read, block))]
AppendText(read, text) == IF TextWidth(text) = 0 THEN read ELSE AppendBlock(read, text)

trimTrailingSpace(read) ==
    IF EndsWith(read, "literal")
    THEN AppendText([read EXCEPT !.blocks = Front(@)], TrimRight(Last(read.blocks).block))
    ELSE read

AddToken(read, t) ==
    CASE t.kind = "split"   -> [read EXCEPT !.sections = @ + 1]
      [] t.kind = "sep"     -> AppendBlock(trimTrailingSpace(read), t)
      [] t.kind = "module"  -> AppendBlock(read, t)
      [] t.kind = "literal" -> AppendText(read, IF EndsWith(read, "sep") THEN TrimLeft(t) ELSE t)

\* What has been read of the first i tokens.
sections(tokens) ==
    LET read[i \in 0..Len(tokens)] == IF i = 0 THEN NothingRead ELSE AddToken(read[i - 1], tokens[i])
    IN  read

sectionAnchor(i, n) ==
    IF i = 1 THEN "left" ELSE IF i = n THEN "right" ELSE "center"

\* The anchor of the section, unless the placeholder names one of its own.
Anchored(block, anchor) ==
    [block |-> block,
     anchor |-> IF block.kind = "module" /\ block.anchor # "" THEN block.anchor ELSE anchor,
     priority |-> IF block.kind = "module" THEN 0 ELSE 1]

ParseFormat(tokens) ==
    LET all == sections(tokens)[Len(tokens)] IN
    [i \in DOMAIN all.blocks |->
        Anchored(all.blocks[i].block, sectionAnchor(all.blocks[i].section, all.sections))]
-------------------------------------------------------------------------------
(* Engine.arrange: row is a record of the tokens and of the settings       *)
(*   bar (the width), border, separator (the width of its glyph), min      *)
(*   (min_block_width) and justify.                                        *)

\* What the block shows, without its style.
Value(row, b) ==
    CASE IsSep(b.block)     -> row.separator
      [] IsLiteral(b.block) -> TextWidth(b.block)
      [] OTHER              -> b.block.value

Outer(b) == IF b.block.kind = "module" THEN b.block.outer ELSE 0
Natural(row, b) == IF Value(row, b) = 0 THEN 0 ELSE Value(row, b) + Outer(b)
Caps(row) == IF row.border THEN 4 ELSE 0                  \* both ends together
NotNegative(n) == IF n < 0 THEN 0 ELSE n

TargetWithoutCaps(row) == row.bar                         \* mutant: Arrange, not ArrangeIn
Target(row) == NotNegative(row.bar - Caps(row))

resolveWidth(row, b, target) ==
    IF b.block.kind # "module" THEN Natural(row, b)
    ELSE CASE b.block.width.kind = "cells"   -> b.block.width.n
           [] b.block.width.kind = "percent" -> (target * b.block.width.n) \div 100
           [] b.block.width.kind = "auto"    -> Natural(row, b)

anchorDropOrder(anchor) == CHOOSE r \in DOMAIN Anchors : Anchors[r] = anchor

\* Block i is considered before block j.
Precedes(blocks, i, j) ==
    LET first == anchorDropOrder(blocks[i].anchor)
        other == anchorDropOrder(blocks[j].anchor)
    IN  \/ blocks[i].priority > blocks[j].priority
        \/ blocks[i].priority = blocks[j].priority /\ first > other
        \/ blocks[i].priority = blocks[j].priority /\ first = other /\ i < j

NextInOrder(blocks, left) == CHOOSE i \in left : \A j \in left \ {i} : Precedes(blocks, i, j)

TooNarrow(row, b, w) == row.min > 0 /\ b.block.kind = "module" /\ w < row.min

\* The greedy choice: the positions that are visible, those still to be
\* considered, and the room left.
NoChoice(row, blocks) == [visible |-> {}, left |-> DOMAIN blocks, room |-> Target(row)]

KeepUntilOneFails(row, blocks, widths, choice) ==          \* mutant: break, not continue
    LET i == NextInOrder(blocks, choice.left) IN
    IF widths[i] <= choice.room /\ ~TooNarrow(row, blocks[i], widths[i])
    THEN [visible |-> choice.visible \cup {i}, left |-> choice.left \ {i},
          room |-> choice.room - widths[i]]
    ELSE [choice EXCEPT !.left = @ \ {i}, !.room = -1]

\* One step of it: the block is kept if it fits in the room left.
Keep(row, blocks, widths, choice) ==
    LET i == NextInOrder(blocks, choice.left) IN
    IF widths[i] <= choice.room /\ ~TooNarrow(row, blocks[i], widths[i])
    THEN [visible |-> choice.visible \cup {i}, left |-> choice.left \ {i},
          room |-> choice.room - widths[i]]
    ELSE [choice EXCEPT !.left = @ \ {i}]

arrange(row, blocks, widths) ==
    LET choice[n \in 0..Len(blocks)] ==
            IF n = 0 THEN NoChoice(row, blocks) ELSE Keep(row, blocks, widths, choice[n - 1])
    IN  choice

\* The blocks with their widths, and the positions of the visible ones.
Arrange(row) ==
    LET blocks == ParseFormat(row.tokens)
        widths == [i \in DOMAIN blocks |-> resolveWidth(row, blocks[i], Target(row))]
    IN  [blocks |-> blocks, widths |-> widths,
         visible |-> arrange(row, blocks, widths)[Len(blocks)].visible]
-------------------------------------------------------------------------------
(* RenderRow *)

SameAnchor(a, i, j) ==
    \A k \in (IF i < j THEN i..j ELSE j..i) : a.blocks[k].anchor = a.blocks[i].anchor

Shows(row, a, i) == i \in a.visible /\ Value(row, a.blocks[i]) > 0
\* What hasVisibleNeighbor looks past: nothing to show, a separator, a blank.
Transparent(row, a, i) ==
    \/ Value(row, a.blocks[i]) = 0
    \/ i \in a.visible /\ (IsSep(a.blocks[i].block) \/ IsBlank(a.blocks[i].block))

hasVisibleNeighbor(row, a, i, side) ==
    \E j \in side :
        /\ SameAnchor(a, i, j)
        /\ Shows(row, a, j) /\ ~Transparent(row, a, j)
        /\ \A k \in side : (i < k /\ k < j) \/ (j < k /\ k < i) => Transparent(row, a, k)

Candidate(row, a, i) ==
    /\ IsSep(a.blocks[i].block) /\ Shows(row, a, i)
    /\ hasVisibleNeighbor(row, a, i, 1..i - 1)
    /\ hasVisibleNeighbor(row, a, i, i + 1..Len(a.blocks))

CollapseNothing(row, a, kept, i) == kept \cup {i}         \* mutant

\* From left to right; a separator is dropped behind a kept one with nothing
\* visible in between.
Collapse(row, a, kept, i) ==
    IF \E j \in kept :
        /\ SameAnchor(a, i, j)
        /\ \A k \in j + 1..i - 1 : ~IsSep(a.blocks[k].block) => ~Shows(row, a, k)
    THEN kept
    ELSE kept \cup {i}

visibleSeparators(row, a) ==
    LET kept[i \in 0..Len(a.blocks)] ==
            IF i = 0 THEN {}
            ELSE IF Candidate(row, a, i) THEN Collapse(row, a, kept[i - 1], i) ELSE kept[i - 1]
    IN  kept

\* The positions that are written, and the cells that each takes.
Written(row, a) ==
    LET seps == visibleSeparators(row, a)[Len(a.blocks)] IN
    {i \in DOMAIN a.blocks : Shows(row, a, i) /\ (IsSep(a.blocks[i].block) => i \in seps)}

ContentWidth(a, i) == NotNegative(a.widths[i] - Outer(a.blocks[i]))
CellsOf(a, i) == Outer(a.blocks[i]) + ContentWidth(a, i)
IsWhite(a, i) == IsBlank(a.blocks[i].block) \/ (~IsLiteral(a.blocks[i].block) /\ ContentWidth(a, i) = 0)

\* The sum of what a sequence has at some of its positions.
SumAt(s, positions) ==
    LET sum[i \in 0..Len(s)] ==
            IF i = 0 THEN 0 ELSE sum[i - 1] + (IF i \in positions THEN s[i] ELSE 0)
    IN  sum

\* The width of a section; a border row drops one that is only whitespace.
SectionWidth(row, a, written, anchor) ==
    LET here == {i \in written : a.blocks[i].anchor = anchor} IN
    IF row.border /\ \A i \in here : IsWhite(a, i) THEN 0
    ELSE SumAt([i \in DOMAIN a.blocks |-> CellsOf(a, i)], here)[Len(a.blocks)]

\* The gaps left and right of the center section, for sections of these widths.
sectionGaps(row, left, center, right) ==
    LET target == Target(row)
        rest   == NotNegative(target - left - center - right)
        middle == NotNegative((target - left - right - center) \div 2)
        start  == NotNegative((target - center) \div 2)
    IN  CASE center = 0 \/ row.justify = "left" -> <<0, rest>>
          [] center # 0 /\ row.justify = "right" -> <<rest, 0>>
          [] center # 0 /\ row.justify = "absolute_center"
                        /\ start >= left /\ start + center <= target - right ->
                 <<start - left, target - start - center - right>>
          [] OTHER -> <<middle, NotNegative(target - left - middle - center - right)>>

\* Where the right section ends, and with it the line.
LineWidth(row, a, written) ==
    LET left   == SectionWidth(row, a, written, "left")
        center == SectionWidth(row, a, written, "center")
        right  == SectionWidth(row, a, written, "right")
        gaps   == sectionGaps(row, left, center, right)
    IN  left + gaps[1] + center + gaps[2] + right

\* The row with its caps, and padded to the bar.
RowWidth(row, line) == Caps(row) + (IF line < Target(row) THEN Target(row) ELSE line)
-------------------------------------------------------------------------------
(* Properties of a row, its arrangement a and what is written of it *)

\* A style wider than the room its block was given is written in full.
StyleFits(a, written) == \A i \in written : Outer(a.blocks[i]) <= a.widths[i]

\* The row is exactly as wide as the bar, so it neither wraps into the child's
\* lines nor leaves cells of the last frame, and the right section ends at the
\* right edge.  (RenderRow and Arrange, whose comment promises that "the visible
\* total never exceeds barWidth (which would wrap the bar and corrupt the
\* screen)".  It is not so for a style that does not fit, nor for a border row on
\* a bar of fewer than four cells.)
RowIsExact(row, a, written) ==
    StyleFits(a, written) /\ row.bar >= Caps(row)
        => \A line \in {LineWidth(row, a, written)} :
               line = Target(row) /\ RowWidth(row, line) = row.bar

\* A block is dropped only if it has to be: the visible blocks leave less room
\* than it needs, and a less important one is visible only if it is narrower.
DropsOnlyWhatDoesNotFit(row, a) ==
    LET room == Target(row) - SumAt(a.widths, a.visible)[Len(a.blocks)] IN
    \A h \in DOMAIN a.blocks \ a.visible :
        \/ TooNarrow(row, a.blocks[h], a.widths[h])
        \/ /\ a.widths[h] > room
           /\ \A v \in a.visible : Precedes(a.blocks, h, v) => a.widths[v] < a.widths[h]

\* Every separator that is written stands between things that are shown: none
\* leads or ends its section, and two of them have something between them.  (The
\* something may be a blank literal between two empty modules: then the row shows
\* a doubled separator.)
SeparatorsSeparate(a, written) ==
    LET Stands(i, j) == j \in written /\ a.blocks[i].anchor = a.blocks[j].anchor
                            /\ ~IsSep(a.blocks[j].block)
    IN  \A i \in written : IsSep(a.blocks[i].block) =>
            /\ \E j \in 1..i - 1 : Stands(i, j) /\ ~IsBlank(a.blocks[j].block)
            /\ \E j \in i + 1..Len(a.blocks) : Stands(i, j) /\ ~IsBlank(a.blocks[j].block)
            /\ \A k \in written :
                   k > i /\ IsSep(a.blocks[k].block) /\ a.blocks[k].anchor = a.blocks[i].anchor
                       => \E j \in i + 1..k - 1 : Stands(i, j)
===============================================================================
