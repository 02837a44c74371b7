------------------------ MODULE CursorPlacementProofs ------------------------
(***************************************************************************)
(* Proofs about the placement of the cursor, for any set of heights, any   *)
(* bar, terminals that clamp and terminals that do not, and any number of  *)
(* resizes, queries and keys.                                              *)
(***************************************************************************)
EXTENDS CursorPlacement, SequenceTheorems, TLAPS

USE HeightsAssumption, ParametersAssumption DEF Askers

QueryInv == AnswersArePast /\ AloneUnlessOverlapped /\ OwnAnswer

\* The terminal starts with the cursor among the child's rows, nothing asked.
LEMMA InitCorrect == Init => TypeOK /\ IInv
  <1> SUFFICES ASSUME Init PROVE TypeOK /\ IInv
    OBVIOUS
  <1>1. /\ asked = <<>> /\ replies = <<>> /\ asks = 0 /\ cur = 0 /\ armed = FALSE
        /\ chan = [q \in Askers |-> <<>>]
    BY DEF Init, Channel!CInit, Channel!Queries
  <1>2. asked \in Seq(Askers \cup {0}) /\ replies \in Seq(Replies)
        /\ chan \in [Askers -> Seq(Replies)] /\ Len(asked) = 0 /\ Len(replies) = 0
    BY <1>1, EmptySeq
  <1>3. ChildRows(Bar, winRows) \in 1..winRows
    BY DEF Init, ChildRows
  <1>4. TerminalType /\ LoopType
    BY <1>3 DEF Init, TerminalType, LoopType
  <1>5. QueryType
    BY <1>1, <1>2 DEF Init, QueryType
  <1>6. FlagType
    BY <1>1, Zenon DEF Init, FlagType
  <1>7. IInv
    BY <1>1, <1>2, <1>3 DEF Init, IInv, CursorAmongChildRows, InChildRows, WellPlaced, AnswerIsNoLower,
       AnswersArePast, AloneUnlessOverlapped, OwnAnswer
  <1> QED
    BY <1>4, <1>5, <1>6, <1>7 DEF TypeOK

\* What the types say of the numbers the following lemmas compare.
LEMMA QueryTypeFacts ==
    ASSUME QueryType
    PROVE  /\ Len(asked) \in Nat /\ Len(replies) \in Nat
           /\ \A i \in 1..Len(asked) : asked[i] \in Int
           /\ \A i \in 1..Len(replies) : replies[i].who \in Int /\ replies[i].row \in Nat
           /\ \A q \in Askers : chan[q] # <<>> => chan[q][1].row \in Nat
           /\ cur \in Int /\ asks \in Nat /\ MaxQueries \in Nat
  <1>1. \A i \in 1..Len(asked) : asked[i] \in Askers \cup {0}
    BY ElementOfSeq DEF QueryType
  <1>2. \A i \in 1..Len(replies) : replies[i] \in Replies
    BY ElementOfSeq DEF QueryType
  <1>3. \A q \in Askers : chan[q] # <<>> => chan[q][1] \in Replies
    BY HeadTailProperties DEF QueryType
  <1> QED
    BY <1>1, <1>2, <1>3 DEF QueryType, Replies

\* posQuery.Arm: the new query has a number nobody has seen, and counts as
\* overlapped unless nothing else is around.
LEMMA AskCorrect ==
    ASSUME QueryType, QueryInv, Query
    PROVE  /\ QueryType' /\ QueryInv'
           /\ cur' = cur + 1 /\ cur' \in Askers /\ chan' = chan /\ replies' = replies
  <1>1. /\ cur + asks < MaxQueries /\ cur' = cur + 1
        /\ asked' = Append(asked, cur')
        /\ asks' = asks /\ replies' = replies /\ chan' = chan
    BY DEF Query, Channel!Ask
  <1>2. overlapped' = IF asked \o replies # <<>> THEN overlapped \cup {cur'} ELSE overlapped
    BY DEF Query
  <1>3. cur' \in Askers
    BY <1>1 DEF QueryType
  <1>4. /\ asked' \in Seq(Askers \cup {0})
        /\ Len(asked') = Len(asked) + 1
        /\ \A i \in 1..Len(asked) : asked'[i] = asked[i]
        /\ asked'[Len(asked) + 1] = cur'
    BY <1>1, <1>3, AppendProperties DEF QueryType
  <1>5. QueryType'
    <2>1. asks' \in 0..MaxQueries /\ cur' \in 0..MaxQueries
      BY <1>1, <1>3 DEF QueryType
    <2>2. replies' \in Seq(Replies) /\ chan' \in [Askers -> Seq(Replies)]
      BY <1>1 DEF QueryType
    <2>3. overlapped' \subseteq Askers
      BY <1>2, <1>3 DEF QueryType
    <2> QED
      BY <1>4, <2>1, <2>2, <2>3 DEF QueryType
  <1>6. AnswersArePast'
    <2>1. \A i \in 1..Len(asked') : asked'[i] <= cur'
      BY <1>1, <1>4, QueryTypeFacts DEF QueryInv, AnswersArePast
    <2>2. \A i \in 1..Len(replies) : replies[i].who <= cur'
      BY <1>1, QueryTypeFacts DEF QueryInv, AnswersArePast
    <2>3. \A q \in Askers : q > cur' => chan[q] = <<>>
      BY <1>1, QueryTypeFacts DEF QueryInv, AnswersArePast
    <2> QED
      BY <1>1, <2>1, <2>2, <2>3 DEF AnswersArePast
  <1>7. AloneUnlessOverlapped'
    <2> SUFFICES ASSUME cur' \notin overlapped'
                 PROVE  /\ \A i \in 1..Len(asked') : asked'[i] = cur'
                        /\ \A i \in 1..Len(replies) : replies[i].who = cur'
      BY <1>1 DEF AloneUnlessOverlapped
    <2>1. asked \o replies = <<>>
      BY <1>2
    <2>2. Len(asked) = 0 /\ Len(replies) = 0
      <3>1. Len(asked) \in Nat /\ Len(replies) \in Nat /\ Len(asked \o replies) = Len(asked) + Len(replies)
        BY DEF QueryType
      <3> QED
        BY <2>1, <3>1
    <2> QED
      BY <1>4, <2>2
  <1>8. OwnAnswer'
    BY <1>1, <1>2 DEF QueryInv, OwnAnswer
  <1> QED
    BY <1>1, <1>3, <1>5, <1>6, <1>7, <1>8 DEF QueryInv

\* The terminal's answer goes behind the others and names its asker.
LEMMA AnswerCorrect ==
    ASSUME TerminalType, QueryType, QueryInv, Channel!AnswerWith(cursor), overlapped' = overlapped
    PROVE  /\ QueryType' /\ QueryInv'
           /\ cur' = cur /\ chan' = chan
           /\ Len(replies') = Len(replies) + 1
           /\ \A i \in 1..Len(replies) : replies'[i] = replies[i]
           /\ replies'[Len(replies) + 1].row = cursor
  <1> DEFINE new == [who |-> Head(asked), row |-> cursor]
  <1>1. /\ asked # <<>> /\ replies' = Append(replies, new) /\ asked' = Tail(asked)
        /\ asks' = asks /\ armed' = armed /\ cur' = cur /\ chan' = chan
    BY DEF Channel!AnswerWith
  <1>2. /\ Head(asked) = asked[1] /\ Len(asked) \in Nat \ {0}
        /\ asked' \in Seq(Askers \cup {0}) /\ Len(asked') = Len(asked) - 1
        /\ \A i \in 1..Len(asked') : asked'[i] = asked[i + 1]
    BY <1>1, HeadTailProperties, EmptySeq DEF QueryType
  <1>3. new \in Replies
    <2>1. asked[1] \in Askers \cup {0}
      BY <1>2, ElementOfSeq DEF QueryType
    <2> QED
      <3>1. cursor \in Nat \ {0}
        BY DEF TerminalType
      <3> QED
        BY <1>2, <2>1, <3>1 DEF Replies
  <1>4. /\ replies' \in Seq(Replies)
        /\ Len(replies') = Len(replies) + 1
        /\ \A i \in 1..Len(replies) : replies'[i] = replies[i]
        /\ replies'[Len(replies) + 1] = new
    BY <1>1, <1>3, AppendProperties DEF QueryType
  <1>5. QueryType'
    BY <1>1, <1>2, <1>4 DEF QueryType
  <1>6. Len(replies) \in Nat
    BY DEF QueryType
  <1>7. AnswersArePast'
    <2>1. asked[1] <= cur
      BY <1>2 DEF QueryInv, AnswersArePast
    <2>2. \A i \in 1..Len(replies') : replies'[i].who <= cur
      <3>1. new.who <= cur
        BY <1>2, <2>1
      <3> QED
        BY <1>4, <1>6, <3>1 DEF QueryInv, AnswersArePast
    <2>3. \A i \in 1..Len(asked') : asked'[i] <= cur
      BY <1>2 DEF QueryInv, AnswersArePast
    <2> QED
      BY <1>1, <2>2, <2>3 DEF QueryInv, AnswersArePast
  <1>8. AloneUnlessOverlapped'
    BY <1>1, <1>2, <1>4, <1>6 DEF QueryInv, AloneUnlessOverlapped
  <1>9. OwnAnswer'
    BY <1>1 DEF QueryInv, OwnAnswer
  <1> QED
    BY <1>1, <1>4, <1>5, <1>7, <1>8, <1>9 DEF QueryInv

\* A key that looks like an answer makes the open query an overlapped one.
LEMMA TypeReplyCorrect ==
    ASSUME QueryType, QueryInv, TypeReply
    PROVE  /\ QueryType' /\ QueryInv'
           /\ cur' = cur /\ chan' = chan
           /\ Len(replies') = Len(replies) + 1
           /\ \A i \in 1..Len(replies) : replies'[i] = replies[i]
           /\ replies'[Len(replies) + 1].who = -1
  <1> DEFINE new == [who |-> -1, row |-> 1]
  <1>1. /\ replies' = Append(replies, new) /\ asked' = asked
        /\ asks' = asks /\ armed' = armed /\ cur' = cur /\ chan' = chan
    BY DEF TypeReply, Channel!TypeReply, Channel!User
  <1>2. overlapped' = (overlapped \cup {cur}) \ {0}
    BY DEF TypeReply
  <1>3. new \in Replies
    BY DEF Replies
  <1>4. /\ replies' \in Seq(Replies)
        /\ Len(replies') = Len(replies) + 1
        /\ \A i \in 1..Len(replies) : replies'[i] = replies[i]
        /\ replies'[Len(replies) + 1] = new
    BY <1>1, <1>3, AppendProperties DEF QueryType
  <1>5. QueryType'
    <2>1. overlapped' \subseteq Askers
      BY <1>2 DEF QueryType
    <2> QED
      BY <1>1, <1>4, <2>1 DEF QueryType
  <1>6. Len(replies) \in Nat
    BY DEF QueryType
  <1>7. AnswersArePast'
    <2>1. \A i \in 1..Len(replies') : replies'[i].who <= cur
      <3>1. new.who <= cur
        BY DEF QueryType
      <3> QED
        BY <1>4, <1>6, <3>1 DEF QueryInv, AnswersArePast
    <2> QED
      BY <1>1, <2>1 DEF QueryInv, AnswersArePast
  <1>8. AloneUnlessOverlapped'
    BY <1>1, <1>2 DEF AloneUnlessOverlapped
  <1>9. OwnAnswer'
    BY <1>1, <1>2 DEF QueryInv, OwnAnswer
  <1> QED
    BY <1>1, <1>4, <1>5, <1>7, <1>8, <1>9 DEF QueryInv

\* So does a question of the child's.
LEMMA ChildAsksCorrect ==
    ASSUME QueryType, QueryInv, ChildAsks
    PROVE  QueryType' /\ QueryInv' /\ cur' = cur /\ chan' = chan /\ replies' = replies
  <1>1. /\ cur + asks < MaxQueries /\ asks' = asks + 1 /\ asked' = Append(asked, 0)
        /\ replies' = replies /\ armed' = armed /\ cur' = cur /\ chan' = chan
    BY DEF ChildAsks, Channel!ForeignAsk, Channel!Child
  <1>2. overlapped' = (overlapped \cup {cur}) \ {0}
    BY DEF ChildAsks
  <1>3. /\ asked' \in Seq(Askers \cup {0})
        /\ Len(asked') = Len(asked) + 1 /\ Len(asked) \in Nat
        /\ \A i \in 1..Len(asked) : asked'[i] = asked[i]
        /\ asked'[Len(asked) + 1] = 0
    BY <1>1, AppendProperties DEF QueryType
  <1>4. QueryType'
    <2>1. overlapped' \subseteq Askers /\ asks' \in 0..MaxQueries
      BY <1>1, <1>2 DEF QueryType
    <2> QED
      BY <1>1, <1>3, <2>1 DEF QueryType
  <1>5. AnswersArePast'
    <2>1. \A i \in 1..Len(asked') : asked'[i] <= cur
      <3>1. 0 <= cur
        BY DEF QueryType
      <3> QED
        BY <1>3, <3>1 DEF QueryInv, AnswersArePast
    <2> QED
      BY <1>1, <2>1 DEF QueryInv, AnswersArePast
  <1>6. AloneUnlessOverlapped'
    BY <1>1, <1>2 DEF AloneUnlessOverlapped
  <1>7. OwnAnswer'
    BY <1>1, <1>2 DEF QueryInv, OwnAnswer
  <1> QED
    BY <1>1, <1>4, <1>5, <1>6, <1>7 DEF QueryInv

\* The open query takes the first answer; if it is not its own, it overlapped.
LEMMA TakeCorrect ==
    ASSUME QueryType, FlagType, QueryInv, Channel!Take, overlapped' = overlapped
    PROVE  /\ QueryType' /\ QueryInv'
           /\ cur' = cur /\ cur # 0 /\ replies # <<>>
           /\ Len(replies) \in Nat \ {0}
           /\ chan'[cur] = <<replies[1]>>
           /\ Len(replies') = Len(replies) - 1
           /\ \A i \in 1..Len(replies') : replies'[i] = replies[i + 1]
  <1>1. /\ armed /\ replies # <<>>
        /\ chan' = [chan EXCEPT ![cur] = <<Head(replies)>>]
        /\ replies' = Tail(replies) /\ armed' = FALSE
        /\ asked' = asked /\ asks' = asks /\ cur' = cur
    BY DEF Channel!Take
  <1>2. /\ Head(replies) = replies[1] /\ Len(replies) \in Nat \ {0}
        /\ replies' \in Seq(Replies) /\ Len(replies') = Len(replies) - 1
        /\ \A i \in 1..Len(replies') : replies'[i] = replies[i + 1]
        /\ Head(replies) \in Replies
    BY <1>1, HeadTailProperties, EmptySeq DEF QueryType
  <1>3. cur # 0 /\ cur \in Askers
    <2>1. cur # 0
      BY <1>1, Zenon DEF FlagType
    <2> QED
      BY <2>1 DEF QueryType
  <1>4. replies[1] \in Replies
    BY <1>2
  <1>5. <<Head(replies)>> \in Seq(Replies) /\ <<Head(replies)>>[1] = replies[1]
    BY <1>2, <1>4
  <1>6. chan' \in [Askers -> Seq(Replies)] /\ chan'[cur] = <<replies[1]>>
        /\ \A q \in Askers : q # cur => chan'[q] = chan[q]
    BY <1>1, <1>2, <1>3, <1>5 DEF QueryType
  <1>7. QueryType'
    BY <1>1, <1>2, <1>6 DEF QueryType
  <1>8. AnswersArePast'
    <2>1. \A i \in 1..Len(replies') : replies'[i].who <= cur
      BY <1>2 DEF QueryInv, AnswersArePast
    <2>2. \A q \in Askers : q > cur => chan'[q] = <<>>
      BY <1>3, <1>6 DEF QueryInv, AnswersArePast, QueryType
    <2> QED
      BY <1>1, <2>1, <2>2 DEF QueryInv, AnswersArePast
  <1>9. AloneUnlessOverlapped'
    BY <1>1, <1>2 DEF QueryInv, AloneUnlessOverlapped
  <1>10. OwnAnswer'
    <2>1. replies[1].who = cur \/ cur \in overlapped
      BY <1>2, <1>3 DEF QueryInv, AloneUnlessOverlapped
    <2>2. chan'[cur][1] = replies[1]
      BY <1>6
    <2> QED
      BY <1>6, <2>1, <2>2 DEF QueryInv, OwnAnswer
  <1> QED
    BY <1>1, <1>2, <1>3, <1>6, <1>7, <1>8, <1>9, <1>10 DEF QueryInv

\* Answers that come by go on to the child.
LEMMA LeakCorrect ==
    ASSUME QueryType, QueryInv, Channel!Leak, overlapped' = overlapped
    PROVE  /\ QueryType' /\ QueryInv'
           /\ cur' = cur /\ chan' = chan
           /\ \A i \in 1..Len(replies') : \E j \in 1..Len(replies) : replies'[i] = replies[j]
  <1>1. /\ asked' = asked /\ asks' = asks /\ armed' = armed /\ cur' = cur /\ chan' = chan
    BY DEF Channel!Leak
  <1>2. PICK n \in 1..Len(replies) : replies' = SubSeq(replies, n + 1, Len(replies))
    BY DEF Channel!Leak
  <1>3. Len(replies) \in Nat
    BY DEF QueryType
  <1>4. replies' \in Seq(Replies)
        /\ \A i \in 1..Len(replies') : i + n \in 1..Len(replies) /\ replies'[i] = replies[i + n]
    <2>1. n \in Nat \ {0} /\ \A i \in n + 1..Len(replies) : replies[i] \in Replies
      BY <1>3, ElementOfSeq DEF QueryType
    <2>2. /\ replies' \in Seq(Replies)
          /\ Len(replies') = IF n + 1 <= Len(replies) THEN Len(replies) - (n + 1) + 1 ELSE 0
          /\ \A i \in 1..Len(replies) - (n + 1) + 1 : replies'[i] = replies[n + 1 + i - 1]
      BY <1>2, <1>3, <2>1, SubSeqProperties
    <2>3. Len(replies') = Len(replies) - n
      BY <1>3, <2>1, <2>2
    <2>4. \A i \in 1..Len(replies') : i + n \in 1..Len(replies) /\ replies'[i] = replies[i + n]
      <3> SUFFICES ASSUME NEW i \in 1..Len(replies')
                   PROVE  i + n \in 1..Len(replies) /\ replies'[i] = replies[i + n]
        OBVIOUS
      <3>1. n + 1 + i - 1 = i + n /\ i \in 1..Len(replies) - (n + 1) + 1 /\ i + n \in 1..Len(replies)
        BY <1>3, <2>1, <2>3
      <3> QED
        BY <2>2, <3>1
    <2> QED
      BY <2>2, <2>4
  <1>5. QueryType'
    BY <1>1, <1>4 DEF QueryType
  <1>6. AnswersArePast'
    BY <1>1, <1>4 DEF QueryInv, AnswersArePast
  <1>7. AloneUnlessOverlapped'
    BY <1>1, <1>4 DEF QueryInv, AloneUnlessOverlapped
  <1>8. OwnAnswer'
    BY <1>1 DEF QueryInv, OwnAnswer
  <1> QED
    BY <1>1, <1>4, <1>5, <1>6, <1>7, <1>8 DEF QueryInv

\* The steps that leave the query alone.
LEMMA QueryUnchanged ==
    ASSUME QueryType, QueryInv, UNCHANGED <<queryVars, overlapped>>
    PROVE  QueryType' /\ QueryInv'
  BY DEF QueryType, QueryInv, queryVars, AnswersArePast, AloneUnlessOverlapped, OwnAnswer
-------------------------------------------------------------------------------
(* Where the cursor is. *)

\* The child has at least one row, at most all, and no fewer on a taller terminal.
LEMMA ChildRowsFacts ==
    /\ \A r \in Heights : r \in Nat \ {0} /\ ChildRows(Bar, r) \in 1..r
    /\ \A r, s \in Heights : r <= s => ChildRows(Bar, r) <= ChildRows(Bar, s)
  BY DEF ChildRows

\* Moving the cursor to the child's bottom row takes it out of the bar, also when
\* the window has changed again; restoring it never takes it down.
LEMMA ChildBottomFacts ==
    ASSUME TypeOK
    PROVE  /\ ChildBottom(stRows) \in 1..winRows
           /\ ChildBottom(stRows) <= ChildRows(Bar, stRows)
           /\ saved # 0 => OnScreen(saved) \in 1..winRows /\ OnScreen(saved) <= saved
  BY ChildRowsFacts DEF TypeOK, TerminalType, LoopType, ChildBottom, OnScreen

\* A step that moves the cursor no lower leaves both halves of the invariant
\* about it alone.
LEMMA CursorNotLowered ==
    ASSUME TypeOK, IInv, cursor' \in 1..winRows', winRows' \in Heights, cursor' <= cursor,
           saved' = saved, placed' = placed, strayed' = strayed, UNCHANGED loopVars,
           cur' = cur, replies' = replies, chan' = chan
    PROVE  CursorAmongChildRows' /\ AnswerIsNoLower'
  <1>1. cursor' \in Nat /\ cursor \in Nat /\ ChildRows(Bar, stRows) \in Nat
    BY ChildRowsFacts DEF TypeOK, TerminalType, LoopType
  <1>2. CursorAmongChildRows'
    BY <1>1 DEF IInv, CursorAmongChildRows, InChildRows, WellPlaced, loopVars
  <1>3. AnswerIsNoLower'
    <2> SUFFICES ASSUME lpc' = "wait" PROVE AnswerIsNoLower'
      BY DEF AnswerIsNoLower
    <2>1. /\ lpc = "wait" /\ alt' = alt /\ cur \in Askers
          /\ \A i \in 1..Len(replies) : replies[i].who = cur => cursor <= replies[i].row
          /\ chan[cur] # <<>> /\ chan[cur][1].who = cur => cursor <= chan[cur][1].row
      BY DEF IInv, AnswerIsNoLower, TypeOK, QueryType, loopVars
    <2>2. ~alt
      BY <2>1, Zenon DEF IInv, AnswerIsNoLower
    <2>3. \A i \in 1..Len(replies) : replies[i].who = cur => cursor' <= replies[i].row
      BY <1>1, <2>1, QueryTypeFacts DEF TypeOK
    <2>4. chan[cur] # <<>> /\ chan[cur][1].who = cur => cursor' <= chan[cur][1].row
      BY <1>1, <2>1, QueryTypeFacts DEF TypeOK
    <2> QED
      BY <2>1, <2>2, <2>3, <2>4 DEF AnswerIsNoLower
  <1> QED
    BY <1>2, <1>3

\* The window changes: the terminal may clamp the cursor, ptyline has not heard of it yet.
LEMMA WindowResizeCorrect ==
    ASSUME TypeOK, IInv, WindowResize
    PROVE  TypeOK' /\ IInv'
  <1>1. PICK r \in Heights \ {winRows} :
           /\ winRows' = r /\ cursor' = IF cursor > r THEN r ELSE cursor
           /\ sizes' = sizes \cup {r}
    BY DEF WindowResize
  <1>2. /\ UNCHANGED <<queryVars, overlapped>> /\ UNCHANGED loopVars
        /\ placed' = placed /\ strayed' = strayed
        /\ resizes' = resizes + 1 /\ resizes < MaxResizes /\ saved' = saved /\ typed' = typed
    BY DEF WindowResize, histVars
  <1>3. QueryType' /\ QueryInv'
    BY <1>2, QueryUnchanged DEF TypeOK, IInv, QueryInv
  <1>4. cursor' <= cursor /\ cursor' \in 1..winRows' /\ winRows' \in Heights
    BY <1>1, ChildRowsFacts DEF TypeOK, TerminalType
  <1>5. TerminalType' /\ LoopType'
    BY <1>1, <1>2, <1>4 DEF TypeOK, TerminalType, LoopType, loopVars
  <1>6. FlagType'
    BY <1>2, Zenon DEF TypeOK, FlagType, loopVars, queryVars
  <1>7. CursorAmongChildRows' /\ AnswerIsNoLower'
    BY <1>2, <1>4, CursorNotLowered DEF queryVars
  <1> QED
    BY <1>3, <1>5, <1>6, <1>7 DEF TypeOK, IInv, QueryInv

\* The terminal answers the oldest question with the row the cursor has now.
LEMMA AnswerStepCorrect ==
    ASSUME TypeOK, IInv, Answer
    PROVE  TypeOK' /\ IInv'
  <1>1. /\ UNCHANGED <<termVars, loopVars, histVars>> /\ Channel!AnswerWith(cursor)
        /\ armed' = armed
    BY DEF Answer, Channel!AnswerWith
  <1>2. /\ QueryType' /\ QueryInv' /\ cur' = cur /\ chan' = chan
        /\ Len(replies') = Len(replies) + 1
        /\ \A i \in 1..Len(replies) : replies'[i] = replies[i]
        /\ replies'[Len(replies) + 1].row = cursor
    BY <1>1, AnswerCorrect DEF TypeOK, IInv, QueryInv, histVars
  <1>3. TerminalType' /\ LoopType'
    BY <1>1 DEF TypeOK, TerminalType, LoopType, termVars, loopVars, histVars
  <1>4. FlagType'
    BY <1>1, <1>2, Zenon DEF TypeOK, FlagType, histVars, loopVars, termVars
  <1>5. CursorAmongChildRows'
    BY <1>1 DEF IInv, CursorAmongChildRows, InChildRows, WellPlaced, termVars, loopVars, histVars
  <1>6. AnswerIsNoLower'
    <2> SUFFICES ASSUME lpc' = "wait" PROVE AnswerIsNoLower'
      BY DEF AnswerIsNoLower
    <2>1. /\ lpc = "wait" /\ alt' = alt /\ cur \in Askers /\ cursor' = cursor /\ cursor \in Nat
          /\ \A i \in 1..Len(replies) : replies[i].who = cur => cursor <= replies[i].row
          /\ chan[cur] # <<>> /\ chan[cur][1].who = cur => cursor <= chan[cur][1].row
      BY <1>1, ChildRowsFacts DEF IInv, AnswerIsNoLower, TypeOK, QueryType, TerminalType, loopVars, termVars
    <2>2. ~alt
      BY <2>1, Zenon DEF IInv, AnswerIsNoLower
    <2>3. \A i \in 1..Len(replies') : replies'[i].who = cur => cursor <= replies'[i].row
      BY <1>2, <2>1, QueryTypeFacts DEF TypeOK
    <2> QED
      BY <1>2, <2>1, <2>2, <2>3 DEF AnswerIsNoLower
  <1> QED
    BY <1>2, <1>3, <1>4, <1>5, <1>6 DEF TypeOK, IInv, QueryInv

\* The user types what looks like an answer.
LEMMA TypeReplyStepCorrect ==
    ASSUME TypeOK, IInv, TypeReply
    PROVE  TypeOK' /\ IInv'
  <1>1. /\ UNCHANGED <<winRows, resizes, sizes, cursor, saved, loopVars, strayed, placed>>
        /\ typed < MaxTypedReplies /\ typed' = typed + 1 /\ armed' = armed
    BY DEF TypeReply, Channel!TypeReply
  <1>2. /\ QueryType' /\ QueryInv' /\ cur' = cur /\ chan' = chan
        /\ Len(replies') = Len(replies) + 1
        /\ \A i \in 1..Len(replies) : replies'[i] = replies[i]
        /\ replies'[Len(replies) + 1].who = -1
    BY TypeReplyCorrect DEF TypeOK, IInv, QueryInv
  <1>3. TerminalType' /\ LoopType'
    BY <1>1 DEF TypeOK, TerminalType, LoopType, loopVars
  <1>4. FlagType'
    BY <1>1, <1>2, Zenon DEF TypeOK, FlagType, loopVars
  <1>5. CursorAmongChildRows'
    BY <1>1 DEF IInv, CursorAmongChildRows, InChildRows, WellPlaced, loopVars
  <1>6. AnswerIsNoLower'
    <2> SUFFICES ASSUME lpc' = "wait" PROVE AnswerIsNoLower'
      BY DEF AnswerIsNoLower
    <2>1. /\ lpc = "wait" /\ alt' = alt /\ cur \in Askers /\ cursor' = cursor
          /\ \A i \in 1..Len(replies) : replies[i].who = cur => cursor <= replies[i].row
          /\ chan[cur] # <<>> /\ chan[cur][1].who = cur => cursor <= chan[cur][1].row
      BY <1>1 DEF IInv, AnswerIsNoLower, TypeOK, QueryType, loopVars
    <2>2. ~alt
      BY <2>1, Zenon DEF IInv, AnswerIsNoLower
    <2>3. \A i \in 1..Len(replies') : replies'[i].who = cur => cursor <= replies'[i].row
      <3> SUFFICES ASSUME NEW i \in 1..Len(replies'), replies'[i].who = cur
                   PROVE  cursor <= replies'[i].row
        OBVIOUS
      <3>1. Len(replies) \in Nat
        BY QueryTypeFacts DEF TypeOK
      <3>2. i # Len(replies) + 1
        BY <1>2, <2>1
      <3>3. i \in 1..Len(replies)
        BY <1>2, <3>1, <3>2
      <3> QED
        BY <1>2, <2>1, <3>3
    <2> QED
      BY <1>2, <2>1, <2>2, <2>3 DEF AnswerIsNoLower
  <1> QED
    BY <1>2, <1>3, <1>4, <1>5, <1>6 DEF TypeOK, IInv, QueryInv

\* An answer is taken for the open question, or goes on to the child.
LEMMA ReadReplyCorrect ==
    ASSUME TypeOK, IInv, ReadReply
    PROVE  TypeOK' /\ IInv'
  <1>1. /\ UNCHANGED <<termVars, loopVars, histVars>>
        /\ Channel!Take \/ Channel!Leak
    BY DEF ReadReply
  <1>2. TerminalType' /\ LoopType'
    BY <1>1 DEF TypeOK, TerminalType, LoopType, termVars, loopVars, histVars
  <1>3. CursorAmongChildRows'
    BY <1>1 DEF IInv, CursorAmongChildRows, InChildRows, WellPlaced, termVars, loopVars, histVars
  <1>4. lpc' = "wait" =>
            /\ cur \in Askers /\ cursor' = cursor
            /\ \A i \in 1..Len(replies) : replies[i].who = cur => cursor <= replies[i].row
            /\ chan[cur] # <<>> /\ chan[cur][1].who = cur => cursor <= chan[cur][1].row
    BY <1>1 DEF IInv, AnswerIsNoLower, TypeOK, QueryType, loopVars, termVars
  <1>5. lpc' = "wait" => ~alt'
    BY <1>1, Zenon DEF IInv, AnswerIsNoLower, loopVars
  <1>6. CASE Channel!Take
    <2>1. /\ QueryType' /\ QueryInv' /\ cur' = cur /\ cur # 0
          /\ Len(replies) \in Nat \ {0}
          /\ chan'[cur] = <<replies[1]>>
          /\ Len(replies') = Len(replies) - 1
          /\ \A i \in 1..Len(replies') : replies'[i] = replies[i + 1]
      BY <1>1, <1>6, TakeCorrect DEF TypeOK, IInv, QueryInv, histVars
    <2>2. FlagType'
      BY <1>1, <1>6, <2>1, Zenon DEF TypeOK, FlagType, histVars, loopVars, termVars, Channel!Take
    <2>3. AnswerIsNoLower'
      BY <1>4, <1>5, <2>1 DEF AnswerIsNoLower
    <2> QED
      BY <1>2, <1>3, <2>1, <2>2, <2>3 DEF TypeOK, IInv, QueryInv
  <1>7. CASE Channel!Leak
    <2>1. /\ QueryType' /\ QueryInv' /\ cur' = cur /\ chan' = chan
          /\ \A i \in 1..Len(replies') : \E j \in 1..Len(replies) : replies'[i] = replies[j]
      BY <1>1, <1>7, LeakCorrect DEF TypeOK, IInv, QueryInv, histVars
    <2>2. FlagType'
      BY <1>1, <1>7, <2>1, Zenon DEF TypeOK, FlagType, histVars, loopVars, termVars, Channel!Leak
    <2>3. AnswerIsNoLower'
      BY <1>4, <1>5, <2>1 DEF AnswerIsNoLower
    <2> QED
      BY <1>2, <1>3, <2>1, <2>2, <2>3 DEF TypeOK, IInv, QueryInv
  <1> QED
    BY <1>1, <1>6, <1>7

\* The grace period of a question is over.
LEMMA QueryEndsCorrect ==
    ASSUME TypeOK, IInv, QueryEnds
    PROVE  TypeOK' /\ IInv'
  <1>1. /\ UNCHANGED <<termVars, loopVars, histVars>> /\ armed' = FALSE
        /\ UNCHANGED <<asked, asks, replies, cur, chan>>
    BY DEF QueryEnds, Channel!Disarm
  <1>2. QueryType' /\ QueryInv'
    BY <1>1 DEF TypeOK, IInv, QueryType, QueryInv, AnswersArePast, AloneUnlessOverlapped, OwnAnswer, histVars
  <1>3. TerminalType' /\ LoopType'
    BY <1>1 DEF TypeOK, TerminalType, LoopType, termVars, loopVars, histVars
  <1>4. FlagType'
    BY <1>1, Zenon DEF TypeOK, FlagType, histVars, loopVars, termVars
  <1>5. CursorAmongChildRows' /\ AnswerIsNoLower'
    BY <1>1, <1>3, CursorNotLowered DEF TypeOK, TerminalType, termVars, histVars
  <1> QED
    BY <1>2, <1>3, <1>4, <1>5 DEF TypeOK, IInv, QueryInv
-------------------------------------------------------------------------------
(* The event loop. *)

\* While the loop is idle nothing is said of an answer.
LEMMA IdleIsNoLower == ASSUME lpc' = "idle" PROVE AnswerIsNoLower'
  BY DEF AnswerIsNoLower

\* The child writes: when it leaves its rows it is said to have strayed.
LEMMA ChildOutputCorrect ==
    ASSUME TypeOK, IInv, ChildOutput
    PROVE  TypeOK' /\ IInv'
  <1>1. /\ UNCHANGED <<winRows, resizes, sizes, saved, typed, queryVars, loopVars,
                        overlapped, placed>>
        /\ lpc = "idle"
        /\ cursor' \in 1..winRows
        /\ ~alt /\ Confined /\ InChildRows(cursor) => InChildRows(cursor')
        /\ strayed' = IF alt THEN strayed ELSE ~InChildRows(cursor') /\ (strayed \/ ~Confined)
    BY DEF ChildOutput
  <1>2. QueryType' /\ QueryInv'
    BY <1>1, QueryUnchanged DEF TypeOK, IInv, QueryInv
  <1>3. TerminalType' /\ LoopType'
    BY <1>1 DEF TypeOK, TerminalType, LoopType, loopVars
  <1>4. FlagType'
    BY <1>1, Zenon DEF TypeOK, FlagType, loopVars, queryVars
  <1>5. CursorAmongChildRows'
    <2>1. InChildRows(cursor)' <=> InChildRows(cursor')
      BY <1>1 DEF InChildRows, loopVars
    <2>2. ~alt /\ WellPlaced /\ ~strayed => InChildRows(cursor)
      BY <1>1, Zenon DEF IInv, CursorAmongChildRows
    <2>3. ~alt' /\ WellPlaced' /\ ~strayed' => InChildRows(cursor')
      <3> SUFFICES ASSUME ~alt', WellPlaced', ~strayed', ~InChildRows(cursor') PROVE FALSE
        OBVIOUS
      <3>1. ~alt /\ WellPlaced
        BY <1>1 DEF WellPlaced, loopVars
      <3>2. ~strayed /\ Confined
        BY <1>1, <3>1, Zenon
      <3> QED
        BY <1>1, <2>2, <3>1, <3>2, Zenon
    <2>4. alt' /\ ~resizedDuringAlt' /\ WellPlaced' /\ ~strayed' => InChildRows(saved)'
      <3> SUFFICES ASSUME alt', ~resizedDuringAlt', WellPlaced', ~strayed' PROVE InChildRows(saved)'
        OBVIOUS
      <3>1. alt /\ ~resizedDuringAlt /\ WellPlaced /\ ~strayed
        BY <1>1, Zenon DEF WellPlaced, loopVars
      <3>2. InChildRows(saved)
        BY <3>1, Zenon DEF IInv, CursorAmongChildRows
      <3> QED
        BY <1>1, <3>2 DEF InChildRows, loopVars
    <2> QED
      BY <2>1, <2>3, <2>4, Zenon DEF CursorAmongChildRows
  <1>6. AnswerIsNoLower'
    BY <1>1, IdleIsNoLower DEF loopVars
  <1> QED
    BY <1>2, <1>3, <1>4, <1>5, <1>6 DEF TypeOK, IInv, QueryInv

\* The child asks for the cursor as well.
LEMMA ChildAsksStepCorrect ==
    ASSUME TypeOK, IInv, ChildAsks
    PROVE  TypeOK' /\ IInv'
  <1>1. UNCHANGED <<termVars, loopVars, strayed, placed>> /\ lpc = "idle" /\ armed' = armed
    BY DEF ChildAsks, Channel!ForeignAsk
  <1>2. QueryType' /\ QueryInv' /\ cur' = cur
    BY ChildAsksCorrect DEF TypeOK, IInv, QueryInv
  <1>3. TerminalType' /\ LoopType'
    BY <1>1 DEF TypeOK, TerminalType, LoopType, termVars, loopVars
  <1>4. FlagType'
    BY <1>1, <1>2, Zenon DEF TypeOK, FlagType, termVars, loopVars
  <1>5. CursorAmongChildRows'
    BY <1>1 DEF IInv, CursorAmongChildRows, InChildRows, WellPlaced, termVars, loopVars
  <1>6. AnswerIsNoLower'
    BY <1>1, IdleIsNoLower DEF loopVars
  <1> QED
    BY <1>2, <1>3, <1>4, <1>5, <1>6 DEF TypeOK, IInv, QueryInv

\* Some of the heights on their way are committed, and may all have been.
LEMMA CommitFacts ==
    ASSUME TypeOK, NEW r, Commit(r)
    PROVE  r \in Heights /\ stRows' = r /\ sizes' \subseteq Heights
  BY DEF Commit, TypeOK, LoopType

\* A height is committed that is not below the last one.
LEMMA CommitGrowCorrect ==
    ASSUME TypeOK, IInv, CommitGrow
    PROVE  TypeOK' /\ IInv'
  <1>1. /\ UNCHANGED <<winRows, resizes, cursor, saved, typed, lpc, alt, resizedDuringAlt, placed>>
        /\ lpc = "idle" /\ ~alt /\ Query
    BY DEF CommitGrow
  <1>2. PICK r \in sizes : /\ r >= stRows /\ Commit(r)
                           /\ strayed' = (strayed /\ cursor > ChildRows(Bar, r))
    BY DEF CommitGrow
  <1>3. r \in Heights /\ stRows' = r /\ sizes' \subseteq Heights
    BY <1>2, CommitFacts
  <1>4. QueryType' /\ QueryInv' /\ cur' # 0
    BY <1>1, AskCorrect DEF TypeOK, IInv, QueryInv
  <1>5. TerminalType' /\ LoopType'
    BY <1>1, <1>3 DEF TypeOK, TerminalType, LoopType
  <1>6. FlagType'
    <2>1. armed' = TRUE
      BY <1>1 DEF Query, Channel!Ask
    <2>2. strayed' \in BOOLEAN
      BY <1>2
    <2> QED
      BY <1>1, <1>4, <2>1, <2>2, Zenon DEF TypeOK, FlagType
  <1>7. ChildRows(Bar, stRows) <= ChildRows(Bar, r) /\ cursor \in Nat
        /\ ChildRows(Bar, stRows) \in Nat /\ ChildRows(Bar, r) \in Nat
    BY <1>2, <1>3, ChildRowsFacts DEF TypeOK, TerminalType, LoopType
  <1>8. WellPlaced' /\ ~strayed' => InChildRows(cursor)'
    <2> SUFFICES ASSUME WellPlaced', ~strayed' PROVE InChildRows(cursor)'
      OBVIOUS
    <2>1. WellPlaced
      BY <1>1 DEF WellPlaced
    <2>2. CASE cursor > ChildRows(Bar, r)
      <3>1. ~strayed
        BY <1>2, <2>2, Zenon
      <3>2. cursor <= ChildRows(Bar, stRows)
        BY <1>1, <2>1, <3>1, Zenon DEF IInv, CursorAmongChildRows, InChildRows
      <3> QED
        BY <1>7, <2>2, <3>2
    <2>3. CASE ~(cursor > ChildRows(Bar, r))
      BY <1>1, <1>3, <1>7, <2>3 DEF InChildRows
    <2> QED
      BY <2>2, <2>3
  <1>9. CursorAmongChildRows'
    <2>1. ~alt'
      BY <1>1
    <2> QED
      BY <1>8, <2>1, Zenon DEF CursorAmongChildRows
  <1>10. AnswerIsNoLower'
    BY <1>1, IdleIsNoLower
  <1> QED
    BY <1>4, <1>5, <1>6, <1>9, <1>10 DEF TypeOK, IInv, QueryInv

\* The query of a shrink is new: nobody has answered it yet.
LEMMA CommitShrinkCorrect ==
    ASSUME TypeOK, IInv, CommitShrink
    PROVE  TypeOK' /\ IInv'
  <1>1. /\ UNCHANGED <<winRows, resizes, cursor, saved, typed, alt, resizedDuringAlt,
                        strayed, placed>>
        /\ lpc = "idle" /\ ~alt /\ Query /\ lpc' = "wait"
        /\ stRows' \in Heights /\ sizes' \subseteq Heights
    BY CommitFacts DEF CommitShrink
  <1>2. QueryType' /\ QueryInv' /\ cur' = cur + 1 /\ cur' \in Askers
        /\ chan' = chan /\ replies' = replies
    BY <1>1, AskCorrect DEF TypeOK, IInv, QueryInv
  <1>3. TerminalType' /\ LoopType'
    BY <1>1 DEF TypeOK, TerminalType, LoopType
  <1>4. FlagType'
    <2>1. armed' = TRUE /\ cur' # 0
      BY <1>1, <1>2 DEF Query, Channel!Ask
    <2> QED
      BY <1>1, <2>1, Zenon DEF TypeOK, FlagType
  <1>5. CursorAmongChildRows'
    <2>1. lpc' # "idle" /\ ~alt'
      BY <1>1
    <2> QED
      BY <2>1, Zenon DEF CursorAmongChildRows
  <1>6. AnswerIsNoLower'
    <2>1. \A i \in 1..Len(replies') : replies'[i].who # cur'
      BY <1>2, QueryTypeFacts DEF TypeOK, IInv, AnswersArePast
    <2>2. chan'[cur'] = <<>>
      BY <1>2, QueryTypeFacts DEF TypeOK, IInv, AnswersArePast
    <2>3. ~alt' /\ cur' # 0
      BY <1>1, <1>2
    <2> QED
      BY <2>1, <2>2, <2>3 DEF AnswerIsNoLower
  <1> QED
    BY <1>2, <1>3, <1>4, <1>5, <1>6 DEF TypeOK, IInv, QueryInv

\* A resize on the alternate screen is committed.
LEMMA CommitOnAltCorrect ==
    ASSUME TypeOK, IInv, CommitOnAlt
    PROVE  TypeOK' /\ IInv'
  <1>1. /\ UNCHANGED <<winRows, resizes, cursor, saved, typed, queryVars, lpc, alt, histVars>>
        /\ lpc = "idle" /\ alt /\ resizedDuringAlt' = TRUE
        /\ stRows' \in Heights /\ sizes' \subseteq Heights
    BY CommitFacts DEF CommitOnAlt
  <1>2. QueryType' /\ QueryInv'
    BY <1>1, QueryUnchanged DEF TypeOK, IInv, QueryInv, histVars
  <1>3. TerminalType' /\ LoopType'
    BY <1>1 DEF TypeOK, TerminalType, LoopType, histVars
  <1>4. FlagType'
    BY <1>1, Zenon DEF TypeOK, FlagType, queryVars, histVars
  <1>5. CursorAmongChildRows'
    BY <1>1, Zenon DEF CursorAmongChildRows
  <1>6. AnswerIsNoLower'
    BY <1>1, IdleIsNoLower
  <1> QED
    BY <1>2, <1>3, <1>4, <1>5, <1>6 DEF TypeOK, IInv, QueryInv

\* The answer to the query itself is no lower than the cursor is now, so that it
\* finds a cursor in the bar if there is one.
LEMMA ShrinkAnsweredCorrect ==
    ASSUME TypeOK, IInv, ShrinkAnswered
    PROVE  TypeOK' /\ IInv'
  <1>1. /\ UNCHANGED <<winRows, resizes, sizes, saved, typed, queryVars, stRows, alt,
                        resizedDuringAlt, overlapped>>
        /\ lpc = "wait" /\ lpc' = "idle" /\ chan[cur] # <<>>
        /\ cursor' = IF chan[cur][1].row > ChildRows(Bar, stRows)
                     THEN ChildBottom(stRows) ELSE cursor
        /\ placed' = IF chan[cur][1].who = cur THEN "own" ELSE "foreign"
        /\ strayed' = (strayed /\ ~InChildRows(cursor'))
    BY DEF ShrinkAnswered
  <1>2. QueryType' /\ QueryInv'
    BY <1>1, QueryUnchanged DEF TypeOK, IInv, QueryInv
  <1>3. cursor' \in 1..winRows
    BY <1>1, ChildBottomFacts DEF TypeOK, TerminalType
  <1>4. TerminalType' /\ LoopType'
    BY <1>1, <1>3 DEF TypeOK, TerminalType, LoopType
  <1>5. FlagType'
    BY <1>1, Zenon DEF TypeOK, FlagType, queryVars
  <1>6. ~alt'
    BY <1>1, Zenon DEF IInv, AnswerIsNoLower
  <1>7. placed' = "own" => cursor' <= ChildRows(Bar, stRows')
    <2> SUFFICES ASSUME placed' = "own" PROVE cursor' <= ChildRows(Bar, stRows)
      BY <1>1
    <2>1. cursor <= chan[cur][1].row
      BY <1>1 DEF IInv, AnswerIsNoLower
    <2>2. cursor \in Nat /\ chan[cur][1].row \in Nat /\ ChildRows(Bar, stRows) \in Nat
      <3>1. cur \in Askers
        BY <1>1 DEF TypeOK, QueryType, IInv, AnswerIsNoLower
      <3> QED
        BY <1>1, <3>1, QueryTypeFacts, ChildRowsFacts DEF TypeOK, TerminalType, LoopType
    <2> QED
      BY <1>1, <2>1, <2>2, ChildBottomFacts
  <1>8. CursorAmongChildRows'
    <2>1. placed' \in {"own", "foreign"}
      BY <1>1
    <2>2. WellPlaced' => placed' = "own"
      BY <2>1 DEF WellPlaced
    <2> QED
      BY <1>6, <1>7, <2>2, Zenon DEF CursorAmongChildRows, InChildRows
  <1>9. AnswerIsNoLower'
    BY <1>1, IdleIsNoLower
  <1> QED
    BY <1>2, <1>4, <1>5, <1>8, <1>9 DEF TypeOK, IInv, QueryInv

\* A resize to fewer rows finds no answer in time.
LEMMA ShrinkTimesOutCorrect ==
    ASSUME TypeOK, IInv, ShrinkTimesOut
    PROVE  TypeOK' /\ IInv'
  <1>1. /\ UNCHANGED <<winRows, resizes, sizes, saved, typed, queryVars, stRows, alt,
                        resizedDuringAlt, overlapped>>
        /\ lpc = "wait" /\ lpc' = "idle" /\ placed' = "timeout"
        /\ cursor' = IF ClampsOnShrink THEN ChildBottom(stRows) ELSE cursor
        /\ strayed' = (strayed /\ ~InChildRows(cursor'))
    BY DEF ShrinkTimesOut
  <1>2. QueryType' /\ QueryInv'
    BY <1>1, QueryUnchanged DEF TypeOK, IInv, QueryInv
  <1>3. cursor' \in 1..winRows
    BY <1>1, ChildBottomFacts DEF TypeOK, TerminalType
  <1>4. TerminalType' /\ LoopType'
    BY <1>1, <1>3 DEF TypeOK, TerminalType, LoopType
  <1>5. FlagType'
    BY <1>1, Zenon DEF TypeOK, FlagType, queryVars
  <1>6. ~alt'
    BY <1>1, Zenon DEF IInv, AnswerIsNoLower
  <1>7. WellPlaced' => ClampsOnShrink
    BY <1>1 DEF WellPlaced
  <1>8. ClampsOnShrink => cursor' <= ChildRows(Bar, stRows')
    BY <1>1, ChildBottomFacts
  <1>9. CursorAmongChildRows'
    BY <1>6, <1>7, <1>8, Zenon DEF CursorAmongChildRows, InChildRows
  <1>10. AnswerIsNoLower'
    BY <1>1, IdleIsNoLower
  <1> QED
    BY <1>2, <1>4, <1>5, <1>9, <1>10 DEF TypeOK, IInv, QueryInv

\* The child enters the alternate screen.
LEMMA AltEnterCorrect ==
    ASSUME TypeOK, IInv, AltEnter
    PROVE  TypeOK' /\ IInv'
  <1>1. /\ UNCHANGED <<winRows, resizes, sizes, cursor, typed, queryVars, lpc, stRows, histVars>>
        /\ lpc = "idle" /\ ~alt /\ alt' = TRUE /\ saved' = cursor /\ resizedDuringAlt' = FALSE
    BY DEF AltEnter
  <1>2. QueryType' /\ QueryInv'
    BY <1>1, QueryUnchanged DEF TypeOK, IInv, QueryInv, histVars
  <1>3. saved' \in Nat /\ saved' # 0
    BY <1>1, ChildRowsFacts DEF TypeOK, TerminalType
  <1>4. TerminalType' /\ LoopType'
    BY <1>1, <1>3 DEF TypeOK, TerminalType, LoopType, histVars
  <1>5. FlagType'
    BY <1>1, <1>3, Zenon DEF TypeOK, FlagType, queryVars, histVars
  <1>6. CursorAmongChildRows'
    BY <1>1 DEF IInv, CursorAmongChildRows, InChildRows, WellPlaced, histVars
  <1>7. AnswerIsNoLower'
    BY <1>1, IdleIsNoLower
  <1> QED
    BY <1>2, <1>4, <1>5, <1>6, <1>7 DEF TypeOK, IInv, QueryInv

\* The cursor restored on leaving was among the child's rows, unless the terminal
\* was resized in between; then it is put there.
LEMMA AltLeaveCorrect ==
    ASSUME TypeOK, IInv, AltLeave
    PROVE  TypeOK' /\ IInv'
  <1>1. /\ UNCHANGED <<winRows, resizes, sizes, typed, lpc, stRows, placed>>
        /\ lpc = "idle" /\ alt /\ alt' = FALSE /\ saved' = 0 /\ resizedDuringAlt' = FALSE
        /\ cursor' = IF resizedDuringAlt THEN ChildBottom(stRows) ELSE OnScreen(saved)
        /\ strayed' = (strayed /\ ~InChildRows(cursor'))
        /\ Query
    BY DEF AltLeave
  <1>2. QueryType' /\ QueryInv' /\ cur' # 0
    BY <1>1, AskCorrect DEF TypeOK, IInv, QueryInv
  <1>3. saved # 0
    BY <1>1, Zenon DEF TypeOK, FlagType
  <1>4. cursor' \in 1..winRows
    BY <1>1, <1>3, ChildBottomFacts
  <1>5. TerminalType' /\ LoopType'
    BY <1>1, <1>4 DEF TypeOK, TerminalType, LoopType
  <1>6. FlagType'
    <2>1. armed' = TRUE
      BY <1>1 DEF Query, Channel!Ask
    <2> QED
      BY <1>1, <1>2, <2>1, Zenon DEF TypeOK, FlagType
  <1>7. WellPlaced' /\ ~strayed' => InChildRows(cursor)'
    <2> SUFFICES ASSUME WellPlaced, ~strayed' PROVE cursor' <= ChildRows(Bar, stRows)
      BY <1>1 DEF WellPlaced, InChildRows
    <2>1. CASE resizedDuringAlt
      BY <1>1, <2>1, ChildBottomFacts
    <2>2. CASE strayed
      BY <1>1, <2>2 DEF InChildRows
    <2>3. CASE ~resizedDuringAlt /\ ~strayed
      <3>1. saved <= ChildRows(Bar, stRows)
        BY <1>1, <2>3, Zenon DEF IInv, CursorAmongChildRows, InChildRows
      <3>2. cursor' <= saved
        BY <1>1, <1>3, <2>3, ChildBottomFacts
      <3> QED
        BY <1>4, <3>1, <3>2, ChildRowsFacts DEF TypeOK, TerminalType, LoopType
    <2> QED
      BY <2>1, <2>2, <2>3
  <1>8. CursorAmongChildRows'
    BY <1>1, <1>7, Zenon DEF CursorAmongChildRows
  <1>9. AnswerIsNoLower'
    BY <1>1, IdleIsNoLower
  <1> QED
    BY <1>2, <1>5, <1>6, <1>8, <1>9 DEF TypeOK, IInv, QueryInv

\* Nothing happens.
LEMMA StutterCorrect ==
    ASSUME TypeOK, IInv, UNCHANGED vars
    PROVE  TypeOK' /\ IInv'
  <1>1. UNCHANGED <<termVars, queryVars, loopVars, histVars>>
    BY DEF vars
  <1>2. QueryType' /\ QueryInv'
    BY <1>1, QueryUnchanged DEF TypeOK, IInv, QueryInv, histVars
  <1>3. TerminalType' /\ LoopType'
    BY <1>1 DEF TypeOK, TerminalType, LoopType, termVars, loopVars, histVars
  <1>4. FlagType'
    BY <1>1, Zenon DEF TypeOK, FlagType, histVars, termVars, loopVars, queryVars
  <1>5. CursorAmongChildRows' /\ AnswerIsNoLower'
    BY <1>1, <1>3, CursorNotLowered DEF TypeOK, TerminalType, termVars, queryVars, histVars
  <1> QED
    BY <1>2, <1>3, <1>4, <1>5 DEF TypeOK, IInv, QueryInv
-------------------------------------------------------------------------------
\* Every step, by the action taken.
LEMMA StepCorrect == TypeOK /\ IInv /\ [Next]_vars => TypeOK' /\ IInv'
  <1> SUFFICES ASSUME TypeOK, IInv, [Next]_vars PROVE TypeOK' /\ IInv'
    OBVIOUS
  <1>1. CASE WindowResize
    BY <1>1, WindowResizeCorrect
  <1>2. CASE Answer
    BY <1>2, AnswerStepCorrect
  <1>3. CASE TypeReply
    BY <1>3, TypeReplyStepCorrect
  <1>4. CASE ReadReply
    BY <1>4, ReadReplyCorrect
  <1>5. CASE QueryEnds
    BY <1>5, QueryEndsCorrect
  <1>6. CASE ChildOutput
    BY <1>6, ChildOutputCorrect
  <1>7. CASE ChildAsks
    BY <1>7, ChildAsksStepCorrect
  <1>8. CASE CommitGrow
    BY <1>8, CommitGrowCorrect
  <1>9. CASE CommitShrink
    BY <1>9, CommitShrinkCorrect
  <1>10. CASE CommitOnAlt
    BY <1>10, CommitOnAltCorrect
  <1>11. CASE ShrinkAnswered
    BY <1>11, ShrinkAnsweredCorrect
  <1>12. CASE ShrinkTimesOut
    BY <1>12, ShrinkTimesOutCorrect
  <1>13. CASE AltEnter
    BY <1>13, AltEnterCorrect
  <1>14. CASE AltLeave
    BY <1>14, AltLeaveCorrect
  <1>15. CASE UNCHANGED vars
    BY <1>15, StutterCorrect
  <1> QED
    BY <1>1, <1>2, <1>3, <1>4, <1>5, <1>6, <1>7, <1>8, <1>9, <1>10, <1>11, <1>12,
       <1>13, <1>14, <1>15 DEF Next

\* The queries, the answers on their way, the cursor and the sizes are always
\* what the handlers take them for; a query that can be answered exists
\* (terminal.PositionQuery, app.ResizeCommit).
THEOREM TypeCorrect == Spec => []TypeOK
  <1>1. Spec => [](TypeOK /\ IInv)
    BY InitCorrect, StepCorrect, PTL DEF Spec
  <1> QED
    BY <1>1, PTL

\* The invariant the next two theorems rest on: what a shrink's own answer says is
\* never above the cursor, and nobody else's answer can be taken for it unless
\* the query overlapped with another one (reapplyScrollRegionAfterShrink).
THEOREM Invariant == Spec => []IInv
  <1>1. Spec => [](TypeOK /\ IInv)
    BY InitCorrect, StepCorrect, PTL DEF Spec
  <1> QED
    BY <1>1, PTL

\* Whatever heights, screen switches, queries and keys came before: once the loop
\* has committed the window's height and the last shrink went by its own answer,
\* or by the knowledge that the terminal clamps, the cursor is above the bar,
\* unless the child took it there between two commits and no shrink has come
\* across it (reapplyScrollRegionAfterShrink, altScreenCoordinator.Apply).
THEOREM CursorStaysOutOfBar == Spec => []CursorOutOfBar
  <1>1. IInv => CursorOutOfBar
    BY DEF IInv, CursorAmongChildRows, InChildRows, CursorOutOfBar
  <1> QED
    BY <1>1, Invariant, PTL

\* A query that overlaps with no other one gets the answer to itself
\* (PositionQuery.Filter).
THEOREM AnswersAreOwn == Spec => []OwnAnswer
  <1>1. IInv => OwnAnswer
    BY DEF IInv
  <1> QED
    BY <1>1, Invariant, PTL
===============================================================================
