------------------------------- MODULE AnsiScan -------------------------------
(***************************************************************************)
(* How AnsiFilter finds the control sequences in the child's output        *)
(* (Filter, scanEscape and scanString in proxy/ansi_filter.go) and the     *)
(* passes the event loop makes over one read.  Bytes are represented by    *)
(* classes.  A frame is what Filter forwards at once: one byte of text, or *)
(* the bytes of a sequence that is given to handleSequence.                *)
(*                                                                         *)
(* Terminal is the reference: the parser of a DEC terminal, byte by byte.  *)
(***************************************************************************)
EXTENDS Integers, SequencesExt

CONSTANTS MaxBufferedCSI, MaxOSCPayload     \* limits of an incomplete sequence

ASSUME AnsiScanAssumption == MaxBufferedCSI \in Nat /\ MaxOSCPayload \in Nat

\* "[" and "]" open a CSI and a string, "\\" closes a string; "h" and "l" at the
\* end of a CSI switch to the alternate screen and back; " " stands for 0x20 to
\* 0x2f, "0" for 0x30 to 0x3f and "x" for the control characters that are none of
\* the others.
Bytes == {"ESC", "[", "]", "\\", "h", "l", " ", "0", "BEL", "x"}
Final == {"[", "]", "\\", "h", "l"}                 \* 0x40 to 0x7e
-------------------------------------------------------------------------------
\* The first index from lo on that holds one of the bytes, or 0.
FirstOf(b, lo, bytes) ==
    LET at == {j \in lo..Len(b) : b[j] \in bytes} IN
    IF at = {} THEN 0 ELSE CHOOSE j \in at : \A k \in at : j <= k

\* Each scanner gives the length of the sequence at the start of b, 0 while it
\* is incomplete.
scanStringSwallowing(b) ==                 \* mutant: ends behind the foreign ESC
    LET j == FirstOf(b, 3, {"BEL", "ESC"}) IN
    IF j = 0 \/ (b[j] = "ESC" /\ j = Len(b)) THEN 0
    ELSE IF b[j] = "BEL" THEN j ELSE j + 1

scanString(b) ==
    LET j == FirstOf(b, 3, {"BEL", "ESC"}) IN
    IF j = 0 THEN 0
    ELSE IF b[j] = "BEL" THEN j
    ELSE IF j = Len(b) THEN 0
    ELSE IF b[j + 1] = "\\" THEN j + 1
    ELSE j - 1                             \* another ESC: a boundary

scanEscape(b) ==
    IF Len(b) < 2 THEN 0
    ELSE CASE b[2] = "[" -> FirstOf(b, 3, Final)
           [] b[2] = "]" -> scanString(b)
           [] OTHER -> FirstOf(b, 2, Bytes \ {" "})

maxBufferedSeq(rest) ==
    IF Len(rest) >= 2 /\ rest[2] = "]" THEN MaxOSCPayload ELSE MaxBufferedCSI

\* trackAltScreen reports a change only.
SwitchesAlt(seq, alt) ==
    Len(seq) >= 3 /\ seq[2] = "[" /\ Last(seq) = (IF alt THEN "l" ELSE "h")

\* todo is what is left of the bytes being scanned; diag is set when an oversized
\* sequence was passed through.
NoState == [tail |-> <<>>, deferred |-> <<>>, todo |-> <<>>, alt |-> FALSE, diag |-> FALSE,
            frames |-> <<>>]
From(b, i) == SubSeq(b, i, Len(b))
OneByOne(b) == [i \in DOMAIN b |-> <<b[i]>>]

\* Filter's loop: the next byte of text, or the next sequence.
ScanNext(st) ==
    LET b == st.todo
        n == scanEscape(b)
        handled == [st EXCEPT !.frames = Append(@, SubSeq(b, 1, n)), !.todo = From(b, n + 1)]
    IN  CASE b = <<>> -> st
          [] b # <<>> /\ b[1] # "ESC" ->
                 [st EXCEPT !.frames = Append(@, <<b[1]>>), !.todo = Tail(b)]
          [] b # <<>> /\ b[1] = "ESC" /\ n = 0 ->
                 IF Len(b) > maxBufferedSeq(b)
                 THEN [st EXCEPT !.diag = TRUE, !.frames = @ \o OneByOne(b), !.todo = <<>>]
                 ELSE [st EXCEPT !.tail = b, !.todo = <<>>]
          [] b # <<>> /\ b[1] = "ESC" /\ n # 0 ->
                 IF SwitchesAlt(SubSeq(b, 1, n), st.alt)
                 THEN [handled EXCEPT !.alt = ~@, !.deferred = handled.todo, !.todo = <<>>]
                 ELSE handled

Scan(st, b) ==
    LET scanned[k \in 0..Len(b)] ==
            IF k = 0 THEN [st EXCEPT !.todo = b] ELSE ScanNext(scanned[k - 1])
    IN  scanned[Len(b)]

\* Mutant: the tail wins, and what was deferred stays behind.
FilterTailFirst(st, in) ==
    IF st.tail # <<>> THEN Scan([st EXCEPT !.tail = <<>>], st.tail \o in)
    ELSE Scan([st EXCEPT !.deferred = <<>>], in)

Filter(st, in) ==
    IF st.deferred # <<>> THEN Scan([st EXCEPT !.deferred = <<>>], st.deferred \o in)
    ELSE Scan([st EXCEPT !.tail = <<>>], st.tail \o in)

\* The loop's passes over one read, the later ones without input.
NextPass(st) == IF st.deferred = <<>> THEN st ELSE Filter(st, <<>>)
Passes(st, in) ==
    LET passed[k \in 0..Len(st.deferred) + Len(st.tail) + Len(in)] ==
            IF k = 0 THEN Filter(st, in) ELSE NextPass(passed[k - 1])
    IN  passed[Len(st.deferred) + Len(st.tail) + Len(in)]

Reads(chunks) ==
    LET read[k \in 0..Len(chunks)] ==
            IF k = 0 THEN NoState ELSE Passes(read[k - 1], chunks[k])
    IN  read[Len(chunks)]
-------------------------------------------------------------------------------
(* The terminal (external): the state is what it has of a sequence.        *)

Ground == [mode |-> "ground", seq |-> <<>>]

\* A byte in ground state, or the one that ends a sequence there.
Done(vt, seq) == [frames |-> Append(vt.frames, seq), mode |-> "ground", seq |-> <<>>]
Stay(vt, mode, c) == [vt EXCEPT !.mode = mode, !.seq = Append(@, c)]

\* The byte after an ESC.
AfterEsc(vt, c) ==
    CASE c = "["   -> Stay(vt, "csi", c)
      [] c = "]"   -> Stay(vt, "string", c)
      [] c = " "   -> Stay(vt, "inter", c)
      [] c = "ESC" -> [vt EXCEPT !.mode = "esc", !.seq = <<"ESC">>]
      [] OTHER     -> Done(vt, Append(vt.seq, c))

Terminal(vt, c) ==
    CASE vt.mode = "ground" /\ c # "ESC" -> Done(vt, <<c>>)
      [] vt.mode = "ground" /\ c = "ESC" -> Stay(vt, "esc", c)
      [] vt.mode = "esc"    -> AfterEsc(vt, c)
      [] vt.mode = "inter"  -> IF c = " " THEN Stay(vt, "inter", c) ELSE Done(vt, Append(vt.seq, c))
      [] vt.mode = "csi"    -> IF c \in Final THEN Done(vt, Append(vt.seq, c)) ELSE Stay(vt, "csi", c)
      [] vt.mode = "string" -> IF c = "BEL" THEN Done(vt, Append(vt.seq, c))
                               ELSE Stay(vt, IF c = "ESC" THEN "stringEsc" ELSE "string", c)
      [] vt.mode = "stringEsc" ->
             IF c = "\\" THEN Done(vt, Append(vt.seq, c))
             ELSE AfterEsc([frames |-> Append(vt.frames, Front(vt.seq)), mode |-> "esc",
                            seq |-> <<"ESC">>], c)

Executed(stream) ==
    LET executed[i \in 0..Len(stream)] ==
            IF i = 0 THEN [frames |-> <<>>, mode |-> "ground", seq |-> <<>>]
            ELSE Terminal(executed[i - 1], stream[i])
    IN  executed[Len(stream)]

\* No control character inside a sequence, except those that end a string.
WellFormed(stream) ==
    \A i \in DOMAIN stream :
        LET before == Executed(SubSeq(stream, 1, i - 1)) IN
        /\ before.mode \in {"esc", "inter", "csi"} => stream[i] \notin {"ESC", "BEL", "x"}
        /\ before.mode = "stringEsc" => stream[i] # "ESC"
-------------------------------------------------------------------------------
(* Properties of a stream, and of the ways to cut it into reads. *)

Bytewise(stream) == Reads([i \in DOMAIN stream |-> <<stream[i]>>])
CutAt(stream, k) == Reads(<<SubSeq(stream, 1, k), From(stream, k + 1)>>)

\* Where the reads end makes no difference: cut anywhere, or after every byte,
\* the same sequences are handled in the same order and the same bytes wait for
\* the next read, as long as no sequence is oversized.  (Filter's tail and
\* deferred bytes; the child chooses the cuts only by chance.)
CutsDoNotMatter(stream) ==
    LET bytewise == Bytewise(stream) IN
    ~bytewise.diag => \A k \in 0..Len(stream) : CutAt(stream, k) = bytewise

\* The sequence the terminal is in the middle of fits the buffer.
Fits(vt) == Len(vt.seq) <= IF vt.mode \in {"string", "stringEsc"} THEN MaxOSCPayload
                                                                  ELSE MaxBufferedCSI

\* What the filter takes for a sequence is what the terminal executes as one:
\* on output without control characters inside sequences, whose sequences fit
\* the buffer of their kind, it sees exactly the terminal's sequences.
FramesAreTheTerminals(stream) ==
    WellFormed(stream) /\ (\A i \in DOMAIN stream : Fits(Executed(SubSeq(stream, 1, i))))
        => Bytewise(stream).frames = Executed(stream).frames
===============================================================================
