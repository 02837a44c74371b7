----------------------------- MODULE MCAlgorithms -----------------------------
(***************************************************************************)
(* Every short input of the three algorithms, a stream of bytes for the    *)
(* scanner of AnsiScan, a row for the layout of BarLayout or a format for  *)
(* ValueText, every history of the bar's animations (Animation), and every *)
(* program of control sequences for the filter (OutputFilter).  A          *)
(* behaviour is about one of the five.                                     *)
(***************************************************************************)
EXTENDS AnsiScan, BarLayout, ValueText, Animation, OutputFilter

CONSTANTS
    MaxBytes,                  \* bound: bytes of a stream, ...
    MaxSwitchBytes,            \* ... of one that is about switching screens
    MaxTokens, MaxSymbols, git

MCRowOf == [m \in Modules |-> IF m = git THEN 1 ELSE RowCount]

VARIABLES
    subject,                   \* what the behaviour is about
    stream,                    \* the bytes
    row, arrangement, written, \* the row, and what RenderRow makes of it
    format, outputs            \* the format, and what stands for its placeholders

inputs == <<stream, row, arrangement, written, format, outputs>>
histories == <<animationVars, trackVars>>

MCTokens ==
    {Split, Sep, Literal(1, 0, 0), Literal(1, 1, 1),
     Module(0, 0, "", WidthAuto), Module(2, 0, "", WidthAuto), Module(1, 1, "right", WidthAuto),
     Module(1, 1, "center", Cells(2)), Module(2, 2, "", Cells(1)), Module(3, 0, "", Percent(50))}

Settings(bar, border, separator, min, justify) ==
    [bar |-> bar, border |-> border, separator |-> separator, min |-> min, justify |-> justify,
     tokens |-> <<>>]

MCSettings ==
    {Settings(7, FALSE, 1, 0, "center"), Settings(8, TRUE, 1, 0, "absolute_center"),
     Settings(3, TRUE, 1, 0, "left"), Settings(6, FALSE, 0, 2, "right")}

\* What a module shows (Animation) is only compared.
MCSymmetry == Permutations(Values)

MCSymbols == {"x", Wide, " ", "|", "||"} \cup Placeholders
MCOutputs == {<<>>, <<LineEnd, "y", "escape", " ", Wide>>, <<"|", "y">>, <<"{2}">>}

MCInit ==
    /\ subject \in {"bytes", "row", "text", "animation", "cursor"}
    /\ stream = <<>> /\ format = <<>>
    /\ outputs \in [Placeholders -> MCOutputs]
    /\ subject # "text" => \A p \in Placeholders : outputs[p] = <<>>
    /\ row = None /\ arrangement = None /\ written = {}
    /\ AnimationInit
    /\ subject # "animation" => duration = 0
    /\ FilterInit

\* tokenize makes no literal after a literal, and takes a "|" before a "|" for a
\* split.
Follows(tokens, t) ==
    tokens # <<>> =>
        CASE Last(tokens).kind = "literal" -> t.kind # "literal"
          [] Last(tokens).kind = "sep"     -> t.kind \notin {"sep", "split"}
          [] OTHER -> TRUE

\* Enough of them to switch to the alternate screen and back, with bytes behind.
SwitchBytes == {"ESC", "[", "h", "l"}

ReadByte == /\ subject = "bytes"
            /\ \E c \in Bytes : stream' = Append(stream, c)
            /\ \/ Len(stream) < MaxBytes
               \/ Len(stream) < MaxSwitchBytes /\ Range(stream') \subseteq SwitchBytes
            /\ UNCHANGED <<subject, row, arrangement, written, format, outputs, histories>>

\* What RenderRow makes of the row.
LayOut == /\ arrangement' = Arrange(row')
          /\ written' = Written(row', arrangement')

Configure == /\ subject = "row" /\ row = None
             /\ row' \in MCSettings
             /\ LayOut
             /\ UNCHANGED <<subject, stream, format, outputs, histories>>

AddBlock == /\ row # None
            /\ Len(row.tokens) < MaxTokens
            /\ \E t \in MCTokens :
                   /\ Follows(row.tokens, t)
                   /\ row' = [row EXCEPT !.tokens = Append(@, t)]
            /\ LayOut
            /\ UNCHANGED <<subject, stream, format, outputs, histories>>

Animate == /\ subject = "animation"
           /\ AnimationNext
           /\ UNCHANGED <<subject, inputs, trackVars>>

Track == /\ subject = "cursor"
         /\ FilterNext
         /\ UNCHANGED <<subject, inputs, animationVars>>

\* tokenize never makes two separators in a row.
Write == /\ subject = "text"
         /\ Len(format) < MaxSymbols
         /\ \E c \in MCSymbols :
                /\ format # <<>> /\ Last(format) = "|" => c \notin {"|", "||"}
                /\ format' = Append(format, c)
         /\ UNCHANGED <<subject, stream, row, arrangement, written, outputs, histories>>

MCNext == Write \/ ReadByte \/ Configure \/ AddBlock \/ Animate \/ Track
MCSpec == MCInit /\ [][MCNext]_<<subject, inputs, histories>>
-------------------------------------------------------------------------------
\* The properties of AnsiScan for every stream, where the reads end
\* (Filter's tail and deferred bytes) ...
CutsNeverMatter == CutsDoNotMatter(stream)

\* ... and what the terminal makes of them (scanEscape, scanString).
SequencesAreTheTerminals == FramesAreTheTerminals(stream)

\* The width of every text in every block (Truncate and Pad; the format is the
\* text), which BarLayout takes for granted, ...
BlocksAreExact ==
    subject = "text" /\ (\A p \in Placeholders : outputs[p] = <<>>)
        => \A width \in 0..MaxSymbols : BlockIsExact(format, width)

\* ... and with it the properties of BarLayout for every row: its width
\* (RenderRow) ...
RowsAreExact == BlocksAreExact /\ (row # None => RowIsExact(row, arrangement, written))

\* ... the blocks it leaves out (Engine.arrange) ...
OnlyWhatDoesNotFitIsDropped == row # None => DropsOnlyWhatDoesNotFit(row, arrangement)

\* ... and its separators (visibleSeparators).
NoStraySeparator == row # None => SeparatorsSeparate(arrangement, written)

\* The property of ValueText: what is made of every format (CollapseSeparators, resolveTemplate).
TextsAreTidy == subject = "text" => \A max \in {2, 5} : TextIsTidy(format, outputs, <<"*">>, max)
===============================================================================
