---------------------------- MODULE QueryChannel ----------------------------
(***************************************************************************)
(* What asking the terminal for the cursor's row comes down to, without    *)
(* bytes, reads and timers: answers come in the order of the questions,    *)
(* whoever asked; the first to come by while a question of ptyline's is    *)
(* open is taken for its answer.  PositionQuery implements this, and       *)
(* CursorPlacement uses it.                                                *)
(***************************************************************************)
EXTENDS Integers, Sequences

CONSTANTS
    Rows,            \* what an answer may say
    MaxQueries       \* bound: questions of ptyline's and of the child's together

Queries == 1..MaxQueries
Child   == 0                        \* as the asker of a question
User    == -1                       \* as the one who typed what looks like an answer

VARIABLES
    asked,           \* who waits for an answer of the terminal, in order
    asks,            \* questions of the child's so far
    replies,         \* answers ptyline has not looked at, in order
    armed,           \* the last question, `cur', is open
    cur,
    chan             \* the answer each question of ptyline's got, or <<>>

cvars == <<asked, asks, replies, armed, cur, chan>>

CInit ==
    /\ asked = <<>> /\ asks = 0 /\ replies = <<>>
    /\ armed = FALSE /\ cur = 0
    /\ chan = [q \in Queries |-> <<>>]

\* A new question closes the one before.
Ask ==
    /\ cur + asks < MaxQueries
    /\ cur' = cur + 1
    /\ armed' = TRUE
    /\ asked' = Append(asked, cur')
    /\ UNCHANGED <<asks, replies, chan>>

ForeignAsk ==
    /\ cur + asks < MaxQueries
    /\ asks' = asks + 1
    /\ asked' = Append(asked, Child)
    /\ UNCHANGED <<replies, armed, cur, chan>>

AnswerWith(row) ==
    /\ asked # <<>>
    /\ replies' = Append(replies, [who |-> Head(asked), row |-> row])
    /\ asked' = Tail(asked)
    /\ UNCHANGED <<asks, armed, cur, chan>>

\* The user presses a key that looks like an answer.
TypeReply(row) ==
    /\ replies' = Append(replies, [who |-> User, row |-> row])
    /\ UNCHANGED <<asked, asks, armed, cur, chan>>

Take ==
    /\ armed /\ replies # <<>>
    /\ chan' = [chan EXCEPT ![cur] = <<Head(replies)>>]
    /\ replies' = Tail(replies)
    /\ armed' = FALSE
    /\ UNCHANGED <<asked, asks, cur>>

\* Answers that come by with no question open go on to the child; so does one
\* that was cut in two by a read before the question was open.
Leak ==
    /\ \E n \in 1..Len(replies) : replies' = SubSeq(replies, n + 1, Len(replies))
    /\ UNCHANGED <<asked, asks, armed, cur, chan>>

\* No answer came for too long.
Disarm ==
    /\ armed' = FALSE
    /\ UNCHANGED <<asked, asks, replies, cur, chan>>

CNext ==
    \/ Ask \/ ForeignAsk \/ Take \/ Leak \/ Disarm
    \/ \E row \in Rows : AnswerWith(row) \/ TypeReply(row)

CSpec == CInit /\ [][CNext]_cvars
===============================================================================
