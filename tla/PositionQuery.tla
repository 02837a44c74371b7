---------------------------- MODULE PositionQuery ----------------------------
(***************************************************************************)
(* Taking the terminal's answer to a cursor query (CSI 6 n) out of the     *)
(* stream of the user's keys: terminal.PositionQuery, the stdin-reader     *)
(* goroutine it runs on, and the event loop as the one who asks and who    *)
(* receives the rest of the stream.                                        *)
(*                                                                         *)
(* The input is a sequence of symbols.  A reply and a function key are an  *)
(* ESC followed by a tail; a read can end between the two.  A read that    *)
(* ends inside a tail is handled like one that ends before it.  `key' is   *)
(* the number of the key press a symbol belongs to, 0 for a reply; `who'   *)
(* is whom a reply is meant for.  What a reply says is the subject of      *)
(* CursorPlacement.                                                        *)
(*                                                                         *)
(* PositionQuery's mutex is held while the reader is in Filter, whose loop *)
(* over the data is one action per iteration.                              *)
(***************************************************************************)
EXTENDS Selection, SequencesExt

CONSTANTS
    BusCap,          \* capacity of the event bus
    MaxQueries,      \* bound: queries of ptyline's and of the child's together
    MaxKeys          \* bound: keys pressed

ASSUME ParametersAssumption ==
    /\ BusCap \in Nat \ {0}
    /\ MaxQueries \in Nat /\ MaxKeys \in Nat

Queries == 1..MaxQueries
Child   == 0                        \* as the asker of a query
User    == -1                       \* as the one behind what looks like a reply

VARIABLES
    \* the terminal and its user (external)
    asked,           \* queries the terminal has not answered, in order
    asks,            \* queries of the child's so far
    keys,            \* keys pressed so far
    inp,             \* input nobody has read
    \* terminal.PositionQuery
    armed, buf,
    cur,             \* the last query armed; its channel is q.ch
    chan,            \* channel of each query, <<>> while empty
    timer,           \* grace timer of each query: "off", "running", "firing"
    \* the stdin reader
    rpc,             \* "read", "filter" (holding the mutex) or "send"
    data, out,
    bus,             \* StdinInput events
    \* the event loop
    lpc,             \* "idle", or "wait" for the answer to `cur'
    \* history
    child,           \* what the user typed and the child has received
    dropped          \* what the user typed and PositionQuery threw away

termVars   == <<asked, asks, keys, inp>>
queryVars  == <<armed, buf, cur, chan, timer>>
readerVars == <<rpc, data, out>>
histVars   == <<child, dropped>>
vars == <<termVars, queryVars, readerVars, bus, lpc, histVars>>

Key(n)   == [sym |-> "key", key |-> n, who |-> User]      \* any byte but ESC
Esc(n)   == [sym |-> "esc", key |-> n, who |-> User]
FnTail(n) == [sym |-> "tail", key |-> n, who |-> User]    \* the rest of a function key
Reply(q) == [sym |-> "reply", key |-> 0, who |-> q]

\* Some terminals send CSI 1;2 R for Shift-F3: a reply to whoever reads it.
ShiftF3(n) == [sym |-> "reply", key |-> n, who |-> User]

Symbols == [sym : {"key", "esc", "tail", "reply"}, key : 0..MaxKeys,
            who : Queries \cup {Child, User}]

Pressed   == {s \in Symbols : s.key # 0}
Replies   == {s \in Symbols : s.sym = "reply"}
IsTail(s) == s.sym \in {"tail", "reply"}

Typed(s) == Only(Pressed, s)

MutexFree == rpc # "filter"
-------------------------------------------------------------------------------
Init ==
    /\ asked = <<>> /\ asks = 0 /\ keys = 0 /\ inp = <<>>
    /\ armed = FALSE /\ buf = <<>> /\ cur = 0
    /\ chan = [q \in Queries |-> <<>>]
    /\ timer = [q \in Queries |-> "off"]
    /\ rpc = "read" /\ data = <<>> /\ out = <<>> /\ bus = <<>>
    /\ lpc = "idle"
    /\ child = <<>> /\ dropped = <<>>
-------------------------------------------------------------------------------
(* The terminal and its user. *)

\* One byte, the Escape key, a function key, or the one that looks like a reply.
PressKey ==
    /\ keys < MaxKeys
    /\ keys' = keys + 1
    /\ \E s \in {<<Key(keys')>>, <<Esc(keys')>>, <<Esc(keys'), FnTail(keys')>>,
                 <<Esc(keys'), ShiftF3(keys')>>} :
          inp' = inp \o s
    /\ UNCHANGED <<asked, asks, queryVars, readerVars, bus, lpc, histVars>>

\* A terminal answers queries in order and at any time, or not at all.
Answer ==
    /\ asked # <<>>
    /\ inp' = inp \o <<Esc(0), Reply(Head(asked))>>
    /\ asked' = Tail(asked)
    /\ UNCHANGED <<asks, keys, queryVars, readerVars, bus, lpc, histVars>>
-------------------------------------------------------------------------------
(* terminal.PositionQuery *)

\* Stop cannot call back a timer whose function has been started.
Stop(t) == IF t = "running" THEN "off" ELSE t

\* Arm, and the query written to the terminal.
\* (queryVars, asked, dropped)
ArmWithoutGrace ==                  \* mutant: armed until an answer comes
    /\ cur + asks < MaxQueries
    /\ cur' = cur + 1
    /\ timer' = [q \in Queries |-> Stop(timer[q])]
    /\ armed' = TRUE /\ buf' = <<>> /\ chan' = chan
    /\ dropped' = dropped \o Typed(buf)
    /\ asked' = Append(asked, cur')
Arm ==
    /\ cur + asks < MaxQueries
    /\ cur' = cur + 1
    /\ timer' = [q \in Queries |-> IF q = cur' THEN "running" ELSE Stop(timer[q])]
    /\ armed' = TRUE /\ buf' = <<>> /\ chan' = chan
    /\ dropped' = dropped \o Typed(buf)
    /\ asked' = Append(asked, cur')

GraceEnds(q) ==
    /\ timer[q] = "running"
    /\ timer' = [timer EXCEPT ![q] = "firing"]
    /\ UNCHANGED <<termVars, armed, buf, cur, chan, readerVars, bus, lpc, histVars>>

\* graceExpired, once it has the mutex: whatever query is armed by then.
GraceExpired(q) ==
    /\ timer[q] = "firing"
    /\ MutexFree
    /\ timer' = [timer EXCEPT ![q] = "off"]
    /\ armed' = FALSE
    /\ buf' = <<>> /\ dropped' = dropped \o Typed(buf)
    /\ UNCHANGED <<termVars, cur, chan, readerVars, bus, lpc, child>>
-------------------------------------------------------------------------------
(* The stdin reader: read, Filter, send. *)

\* Read some of the input and enter Filter, which passes it through unless armed.
ReadInput ==
    /\ rpc = "read"
    /\ inp # <<>>
    /\ \E n \in 1..Len(inp) :
          /\ inp' = SubSeq(inp, n + 1, Len(inp))
          /\ IF armed
             THEN /\ data' = buf \o SubSeq(inp, 1, n)
                  /\ out' = <<>> /\ buf' = <<>> /\ rpc' = "filter"
             ELSE /\ out' = SubSeq(inp, 1, n)
                  /\ rpc' = "send"
                  /\ UNCHANGED <<data, buf>>
    /\ UNCHANGED <<asked, asks, keys, armed, cur, chan, timer, bus, lpc, histVars>>

\* The loop over the data is done, or the query has been answered.
FilterEndsDropping ==               \* mutant: the rest behind a reply is lost
    /\ rpc = "filter"
    /\ data = <<>> \/ ~armed
    /\ data' = <<>>
    /\ rpc' = "send"
    /\ UNCHANGED <<termVars, queryVars, out, bus, lpc, histVars>>
FilterEnds ==
    /\ rpc = "filter"
    /\ data = <<>> \/ ~armed
    /\ out' = out \o data
    /\ data' = <<>>
    /\ rpc' = "send"
    /\ UNCHANGED <<termVars, queryVars, bus, lpc, histVars>>

\* An incomplete sequence at the end is kept for the next call.
FilterKeeps ==
    /\ rpc = "filter" /\ armed
    /\ Len(data) = 1 /\ data[1].sym = "esc"
    /\ buf' = data
    /\ data' = <<>>
    /\ rpc' = "send"
    /\ UNCHANGED <<termVars, armed, cur, chan, timer, out, bus, lpc, histVars>>

\* What cannot be a reply goes on to the child.
FilterPasses ==
    /\ rpc = "filter" /\ armed
    /\ data # <<>>
    /\ data[1].sym = "esc" => Len(data) > 1 /\ data[2].sym # "reply"
    /\ LET n == IF data[1].sym = "esc" /\ IsTail(data[2]) THEN 2 ELSE 1
       IN  /\ out' = out \o SubSeq(data, 1, n)
           /\ data' = SubSeq(data, n + 1, Len(data))
    /\ UNCHANGED <<termVars, queryVars, rpc, bus, lpc, histVars>>

\* The first reply is handed to the query that is armed, whose ever it is.
Matched == rpc = "filter" /\ armed /\ Len(data) > 1 /\ data[1].sym = "esc" /\ data[2].sym = "reply"

FilterMatchesStayingArmed ==        \* mutant: waits for more
    /\ Matched
    /\ chan' = [chan EXCEPT ![cur] = IF @ = <<>> THEN <<data[2]>> ELSE @]
    /\ timer' = [timer EXCEPT ![cur] = Stop(@)]
    /\ data' = SubSeq(data, 3, Len(data))
    /\ UNCHANGED <<termVars, armed, buf, cur, rpc, out, bus, lpc, histVars>>
FilterMatches ==
    /\ Matched
    /\ chan' = [chan EXCEPT ![cur] = IF @ = <<>> THEN <<data[2]>> ELSE @]
    /\ timer' = [timer EXCEPT ![cur] = Stop(@)]
    /\ armed' = FALSE /\ buf' = <<>>
    /\ data' = SubSeq(data, 3, Len(data))
    /\ UNCHANGED <<termVars, cur, rpc, out, bus, lpc, histVars>>

SendInput ==
    /\ rpc = "send"
    /\ Len(bus) < BusCap
    /\ bus' = Append(bus, out)
    /\ out' = <<>>
    /\ rpc' = "read"
    /\ UNCHANGED <<termVars, queryVars, data, lpc, histVars>>
-------------------------------------------------------------------------------
(* The event loop. *)

\* StdinInput: written to the child.
HandleInput ==
    /\ lpc = "idle"
    /\ bus # <<>>
    /\ child' = child \o Typed(Head(bus))
    /\ bus' = Tail(bus)
    /\ UNCHANGED <<termVars, queryVars, readerVars, lpc, dropped>>

\* The child's output contains a query of its own.
ChildAsks ==
    /\ lpc = "idle"
    /\ cur + asks < MaxQueries
    /\ asks' = asks + 1
    /\ asked' = Append(asked, Child)
    /\ UNCHANGED <<keys, inp, queryVars, readerVars, bus, lpc, histVars>>

\* probeCursorRowAsync: another goroutine waits for the answer.
Probe ==
    /\ lpc = "idle" /\ MutexFree
    /\ Arm
    /\ UNCHANGED <<asks, keys, inp, readerVars, bus, lpc, child>>

\* reapplyScrollRegionAfterShrink: the loop itself waits, for an answer or for
\* cursorQueryTimeout.
AskAndWait ==
    /\ lpc = "idle" /\ MutexFree
    /\ Arm
    /\ lpc' = "wait"
    /\ UNCHANGED <<asks, keys, inp, readerVars, bus, child>>

Answered ==
    /\ lpc = "wait"
    /\ chan[cur] # <<>>
    /\ lpc' = "idle"
    /\ UNCHANGED <<termVars, queryVars, readerVars, bus, histVars>>

TimesOut ==
    /\ lpc = "wait"
    /\ lpc' = "idle"
    /\ UNCHANGED <<termVars, queryVars, readerVars, bus, histVars>>
-------------------------------------------------------------------------------
ReaderStep ==
    \/ ReadInput
    \/ FilterEnds \/ FilterKeeps \/ FilterPasses \/ FilterMatches
    \/ SendInput

LoopNext == HandleInput \/ ChildAsks \/ Probe \/ AskAndWait \/ Answered \/ TimesOut

Next ==
    \/ PressKey \/ Answer
    \/ \E q \in Queries : GraceEnds(q) \/ GraceExpired(q)
    \/ ReaderStep
    \/ LoopNext

Spec == Init /\ [][Next]_vars

(***************************************************************************)
(* The goroutines and timers of ptyline run; nobody presses a key, and no  *)
(* terminal has to answer.  The bus is a FIFO: strong fairness for the     *)
(* loop's end of it.  Go hands a mutex on in the end to each that waits.   *)
(***************************************************************************)
Fairness ==
    /\ WF_vars(ReaderStep)
    /\ SF_vars(HandleInput) /\ WF_vars(TimesOut)
    /\ WF_vars(\E q \in Queries : GraceEnds(q))
    /\ SF_vars(\E q \in Queries : GraceExpired(q))

FairSpec == Spec /\ Fairness
-------------------------------------------------------------------------------
TypeOK ==
    /\ asked \in Seq(Queries \cup {Child})
    /\ asks \in 0..MaxQueries /\ keys \in 0..MaxKeys
    /\ inp \in Seq(Symbols) /\ data \in Seq(Symbols) /\ out \in Seq(Symbols)
    /\ armed \in BOOLEAN /\ buf \in Seq(Symbols)
    /\ cur \in 0..MaxQueries
    /\ chan \in [Queries -> Seq(Symbols)]
    /\ timer \in [Queries -> {"off", "running", "firing"}]
    /\ rpc \in {"read", "filter", "send"}
    /\ bus \in Seq(Seq(Symbols)) /\ Len(bus) <= BusCap
    /\ lpc \in {"idle", "wait"}
    /\ child \in Seq(Symbols) /\ dropped \in Seq(Symbols)

\* What is between the terminal and the child: what Filter has not decided
\* about, and what it has let through.
Undecided == data \o buf \o inp
Forwarded == FlattenSeq(bus) \o out
InTransit == Forwarded \o Undecided

Taken == UNION {Range(chan[q]) : q \in Queries}

\* No key is duplicated or overtaken by a later one on its way through the
\* reader, PositionQuery's buffer and the bus, however reads cut the input.
Rank(s) == 2 * s.key + (IF IsTail(s) THEN 1 ELSE 0)
InputInOrder ==
    LET typed == Typed(child \o InTransit)
    IN  \A i \in 1..Len(typed) - 1 : Rank(typed[i]) < Rank(typed[i + 1])

\* Every key that was pressed is on its way, arrived, or is one PositionQuery
\* took for a reply or threw away with its buffer: no other way to lose one.
KeysAccounted ==
    \A n \in 1..keys :
        \E s \in Range(child \o InTransit) \cup Range(dropped) \cup Taken : s.key = n

\* Both: what the user types arrives once and in order, or is known to be lost.
InputArrives == InputInOrder /\ KeysAccounted

\* Where bytes are held back: PositionQuery's buffer holds an ESC at most, and
\* only while a query is armed and Filter is not running.
HeldBack ==
    /\ rpc # "filter" => data = <<>>
    /\ rpc = "filter" \/ ~armed => buf = <<>>
    /\ rpc = "read" => out = <<>>
    /\ buf # <<>> => Len(buf) = 1 /\ buf[1].sym = "esc"

\* A tail in front of Filter follows its own ESC, or that one has gone ahead.
TailsFollow(s) ==
    \A i \in 2..Len(s) : IsTail(s[i]) => s[i - 1].sym = "esc" /\ s[i - 1].key = s[i].key

\* A query is answered at most once, and while it is armed not at all.
OneAnswer ==
    /\ \A q \in Queries : /\ q > cur => chan[q] = <<>>
                          /\ chan[q] # <<>> => \E r \in Replies : chan[q] = <<r>>
    /\ armed => cur \in Queries /\ chan[cur] = <<>>

\* The typed symbols y on their way, in order, and the keys pressed in all.
Ordered(y) == \A i, j \in 1..Len(y) : i < j => Rank(y[i]) < Rank(y[j])
Accounted(y, n, lost) ==
    /\ \A s \in Range(y) : s.key <= n
    /\ \A k \in 1..n : \E s \in Range(y) \cup lost : s.key = k

\* The strengthening of InputArrives.
IInv ==
    /\ TypeOK
    /\ HeldBack
    /\ TailsFollow(Undecided)
    /\ OneAnswer
    /\ Ordered(Typed(child \o InTransit))
    /\ Accounted(Typed(child \o InTransit), keys, Range(dropped) \cup Taken)

\* A reply that Filter takes out of the input always finds room in the channel
\* of the query: Filter never discards one.
ReplyHasRoom == armed => cur # 0 /\ chan[cur] = <<>>

\* What the user types gets through to the child or is thrown away: neither the
\* loop's wait nor PositionQuery's buffer holds it up for good.
InputGetsThrough == []<>(Typed(InTransit) = <<>>)

\* Seen without bytes, reads and timers, this is a QueryChannel: the replies in
\* what Filter has not looked at are the answers under way.
AnswersIn(s) ==
    LET r == Only(Replies, s)
    IN  [i \in 1..Len(r) |-> [who |-> r[i].who, row |-> 1]]

Channel == INSTANCE QueryChannel WITH
    Rows    <- {1},
    replies <- AnswersIn(Undecided),
    chan    <- [q \in Queries |-> AnswersIn(chan[q])]

IsQueryChannel == Channel!CSpec

\* The bytes that are not a reply are forwarded (the comment on Filter).
NoKeyDropped == dropped = <<>>
===============================================================================
