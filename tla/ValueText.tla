------------------------------ MODULE ValueText -------------------------------
(***************************************************************************)
(* How a module's text is made: from a format with two placeholders, by    *)
(* the exec module (modules/exec.go), the command and git modules          *)
(* (modules/command.go, git.go) and a template (status/renderer/           *)
(* template.go), and how it is cut to the cells of its block               *)
(* (status/width/width.go).                                                *)
(*                                                                         *)
(* A text is a sequence of symbols: letters, one of them two cells wide,   *)
(* blanks, control characters, and the "|" of a conditional separator.  In *)
(* a format a placeholder is one symbol as well, and so is "||", which     *)
(* means two separators to a module and none at all to a template.         *)
(***************************************************************************)
EXTENDS Selection, SequencesExt

Placeholders == {"{1}", "{2}"}
Wide     == "W"                  \* a letter of two cells
Ellipsis == "..."                \* one symbol, one cell
Control  == {"escape", "bell"}   \* control characters but the line's end
LineEnd  == "newline"
TextSymbols == {"x", "y", Wide, Ellipsis, " ", "|", "||", LineEnd} \cup Control \cup Placeholders

CellsOfSymbol(c) == IF c = Wide THEN 2 ELSE 1
\* The cells of the first i symbols, and of all.
CellsTo(text) ==
    LET cells[i \in 0..Len(text)] == IF i = 0 THEN 0 ELSE cells[i - 1] + CellsOfSymbol(text[i])
    IN  cells
TextCells(text) == CellsTo(text)[Len(text)]
-------------------------------------------------------------------------------
(* status/formatting *)

\* The parts of a text between marks, as strings.Split makes them.
Divided(parts, c, mark) == IF c = mark THEN Append(parts, <<>>)
                           ELSE [parts EXCEPT ![Len(parts)] = Append(@, c)]
SplitAt(text, mark) ==
    LET parts[i \in 0..Len(text)] ==
            IF i = 0 THEN << <<>> >> ELSE Divided(parts[i - 1], text[i], mark)
    IN  parts[Len(text)]

\* strings.Join of the parts that are not empty.
Joined(text, part, glue) ==
    IF part = <<>> THEN text ELSE IF text = <<>> THEN part ELSE text \o glue \o part
JoinWith(parts, glue) ==
    LET joined[i \in 0..Len(parts)] ==
            IF i = 0 THEN <<>> ELSE Joined(joined[i - 1], parts[i], glue)
    IN  joined[Len(parts)]

\* strings.Join(strings.Fields(text), " ")
Normalized(text) == JoinWith(SplitAt(text, " "), <<" ">>)

\* The separator of a module, between blanks.
Separated(separator) == <<" ">> \o (IF separator = <<>> THEN <<"|">> ELSE separator) \o <<" ">>

\* Mutant: an empty segment leaves its separator.
JoinAllSegments(segments, separator) ==
    FoldLeft(LAMBDA text, segment :
                 IF text = <<>> THEN Normalized(segment)
                 ELSE text \o Separated(separator) \o Normalized(segment),
             <<>>, segments)

JoinSegments(segments, separator) ==
    JoinWith([i \in DOMAIN segments |-> Normalized(segments[i])], Separated(separator))

CollapseSeparators(text, separator) ==
    IF "|" \notin ToSet(text) THEN Normalized(text)
    ELSE JoinSegments(SplitAt(text, "|"), separator)
-------------------------------------------------------------------------------
(* status/width *)

\* The longest prefix and suffix of at most n cells; a wide letter across the
\* edge is dropped.
CutStart(text, n) ==
    SubSeq(text, 1, Max({k \in 0..Len(text) : TextCells(SubSeq(text, 1, k)) <= n}))
CutEnd(text, n) ==
    SubSeq(text, Min({k \in 1..Len(text) + 1 : TextCells(SubSeq(text, k, Len(text))) <= n}),
           Len(text))

Truncate(text, max, side) ==
    IF TextCells(text) <= max THEN text
    ELSE CASE side = "none" \/ max <= 1 -> CutStart(text, max)
           [] side = "left" /\ max > 1 -> <<Ellipsis>> \o CutEnd(text, max - 1)
           [] side = "middle" /\ max > 1 ->
                  LET left == (max - 1) \div 2
                  IN  CutStart(text, left) \o <<Ellipsis>> \o CutEnd(text, max - 1 - left)
           [] side = "right" /\ max > 1 -> CutStart(text, max - 1) \o <<Ellipsis>>

Blanks(n) == [i \in 1..n |-> " "]
Pad(text, width, align) ==
    LET gap == width - TextCells(text) IN
    CASE gap <= 0 -> text
      [] gap > 0 /\ align = "right"  -> Blanks(gap) \o text
      [] gap > 0 /\ align = "left"   -> text \o Blanks(gap)
      [] gap > 0 /\ align = "center" -> Blanks(gap \div 2) \o text \o Blanks(gap - gap \div 2)

\* What RenderRow writes of a value into a block.
BlockText(value, width, side, align) == Pad(Truncate(value, width, side), width, align)
-------------------------------------------------------------------------------
(* The modules *)

\* strings.NewReplacer: all placeholders at once.
Replace(format, values) ==
    FlattenSeq([i \in DOMAIN format |->
        CASE format[i] \in Placeholders -> values[format[i]]
          [] format[i] = "||"           -> <<"|", "|">>
          [] OTHER                      -> <<format[i]>>])

\* One strings.ReplaceAll after the other.
ReplaceOne(text, p, value) ==
    Replace(text, [q \in Placeholders |-> IF q = p THEN value ELSE <<q>>])
ReplaceInTurn(format, values) ==
    ReplaceOne(ReplaceOne(format, "{1}", values["{1}"]), "{2}", values["{2}"])

TrimSpace(text) ==
    LET solid == {i \in DOMAIN text : text[i] # " "}
    IN  IF solid = {} THEN <<>> ELSE SubSeq(text, Min(solid), Max(solid))

sanitizeExecOutput(output) ==
    TrimSpace(FlattenSeq([i \in DOMAIN output |->
        CASE output[i] = LineEnd -> <<" ">>
          [] output[i] \in Control -> <<>>
          [] output[i] \notin Control \cup {LineEnd} -> <<output[i]>>]))

\* Exec: {stdout} and {stderr}, of a command that may have failed.  The renderer
\* shows nothing of a snapshot with an error (blockValue).
ExecText(format, outputs, failed, separator, max) ==
    IF failed THEN <<>>
    ELSE Truncate(CollapseSeparators(
             ReplaceInTurn(format, [p \in Placeholders |-> sanitizeExecOutput(outputs[p])]),
             separator), max, "right")

\* FormatCommand and formatGit; the git module leaves out a count that is zero.
CommandText(format, values, separator, max) ==
    Truncate(Normalized(CollapseSeparators(Replace(format, values), separator)), max, "right")
GitText(format, values, separator, max) ==
    Truncate(CollapseSeparators(Replace(format, values), separator), max, "right")

\* resolveTemplate: the format's blocks are its literals, separators and modules;
\* only its own separators divide it, and "||", which would part a bar row into
\* sections, is not among the blocks.
resolveTemplate(format, values, options) ==
    LET blocks   == Only(TextSymbols \ {"||"}, format)
        parts    == SplitAt(blocks, "|")
        segments == [i \in DOMAIN parts |-> Replace(parts[i], values)]
        joined   == IF Len(parts) = 1 THEN segments[1]
                    ELSE JoinSegments(segments, options.separator)
        result   == IF options.collapse THEN Normalized(joined) ELSE joined
    IN  IF options.hide /\ \A p \in Placeholders \cap ToSet(format) : values[p] = <<>>
        THEN <<>>
        ELSE IF options.max > 0 THEN Truncate(result, options.max, "right") ELSE result
-------------------------------------------------------------------------------
(* Properties of a format, the values of its placeholders, and a width *)

\* Words, with one blank between two of them, or a separator and its two blanks.
Tidy(text, mark) ==
    \A i \in DOMAIN text :
        /\ text[i] = " " => /\ i \in 2..Len(text) - 1
                            /\ text[i + 1] # " "
        /\ text[i] = mark => /\ i \in 3..Len(text) - 2
                             /\ text[i - 1] = " " /\ text[i + 1] = " "
                             /\ text[i - 2] # mark /\ text[i + 2] # mark

Letters(text) == Only(TextSymbols \ {" ", "|"}, text)

\* Whatever is empty, the text has no separator that stands for nothing and
\* loses no letter; all modules make the same of it, and so does a template of
\* this format.  Only a "|" that a value brings along divides a module's text and
\* not a template's, and only the exec module takes a placeholder in its first
\* output for one of the format's.
TextIsTidy(format, outputs, separator, max) ==
    LET values == [p \in Placeholders |-> sanitizeExecOutput(outputs[p])]
        whole  == Replace(format, values)
        text   == CollapseSeparators(whole, separator)
        options == [separator |-> separator, collapse |-> TRUE, hide |-> FALSE, max |-> max]
    IN  /\ Tidy(text, separator[1])
        /\ Only(TextSymbols \ {" ", separator[1]}, text) = Letters(whole)
        /\ CommandText(format, values, separator, max) = GitText(format, values, separator, max)
        /\ ("||" \notin ToSet(format) /\ \A p \in Placeholders : "|" \notin ToSet(values[p]))
               => resolveTemplate(format, values, options) = GitText(format, values, separator, max)
        /\ (\A p \in Placeholders : Placeholders \cap ToSet(values[p]) = {})
               => ExecText(format, outputs, FALSE, separator, max)
                      = GitText(format, values, separator, max)

\* A block's text fills its cells exactly, wide letters, ellipsis and padding
\* included: what BarLayout takes for granted.  Nothing is cut that fits.
BlockIsExact(value, width) ==
    \A side \in {"left", "right", "middle", "none"}, align \in {"left", "right", "center"} :
        LET text == BlockText(value, width, side, align) IN
        /\ TextCells(text) = width
        /\ TextCells(value) <= width => Letters(text) = Letters(value)
===============================================================================
