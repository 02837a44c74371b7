--------------------------- MODULE GitRefreshProofs ---------------------------
(***************************************************************************)
(* Proofs about refreshing the git module, for any directories and workers,*)
(* any bus capacity, and any number of restarts and changes.               *)
(***************************************************************************)
EXTENDS GitRefresh, SequenceTheorems, TLAPS

\* What the shapes of the variables are.
Shapes ==
  /\ wpc \in [Workers -> Owning \cup {"none", "recheck", "reacquire"}]
  /\ wsnaps \in [Workers -> Seq(Snapshots)]
  /\ bus \in Seq([id : 1..Len(Ids), snap : Snapshots])
  /\ value \in [1..Len(Ids) -> Snapshots \cup {None}]

\* They are part of the types.
LEMMA ShapesOf == ASSUME TypeOK PROVE Shapes
  BY DEF TypeOK, Shapes

\* Two ids.
LEMMA TwoIds == Len(Ids) = 2 /\ 1..Len(Ids) = {1, 2}
  BY DEF Ids

\* What is left of a queue when its first element has been taken.
LEMMA QueueTake ==
  ASSUME NEW S, NEW q \in Seq(S), q # <<>>
  PROVE  /\ Head(q) \in S /\ Tail(q) \in Seq(S)
         /\ Len(q) \in Nat \ {0} /\ Len(Tail(q)) = Len(q) - 1
  BY HeadTailProperties, EmptySeq, LenProperties

\* A queue with something in it.
LEMMA NotEmpty == ASSUME NEW S, NEW q \in Seq(S), Len(q) \in {1, 2} PROVE q # <<>>
  BY EmptySeq

\* While the bus is left alone, so is what an id will show.
LEMMA EndsKept ==
  ASSUME UNCHANGED <<bus, value>>
  PROVE  \A i, s : EndsWith(i, s) => EndsWith(i, s)'
  BY DEF EndsWith

\* A snapshot put on the bus is what its id will show; the other ids stay.
LEMMA EndsAppend ==
  ASSUME Shapes, NEW e \in [id : 1..Len(Ids), snap : Snapshots],
         bus' = Append(bus, e), value' = value, NEW i
  PROVE  /\ e.id = i => EndsWith(i, e.snap)'
         /\ e.id # i => \A s : EndsWith(i, s) => EndsWith(i, s)'
  <1>1. /\ Len(bus) \in Nat /\ Len(bus') = Len(bus) + 1 /\ bus'[Len(bus) + 1] = e
        /\ \A k \in 1..Len(bus) : bus'[k] = bus[k]
    BY AppendProperties, LenProperties DEF Shapes
  <1>2. \A k \in 1..Len(bus') : k = Len(bus) + 1 \/ k \in 1..Len(bus)
    BY <1>1
  <1>3. ASSUME e.id = i PROVE EndsWith(i, e.snap)'
    <2>1. Len(bus') \in 1..Len(bus') /\ \A j \in Len(bus')+1..Len(bus') : FALSE
      BY <1>1
    <2> QED BY <1>1, <1>3, <2>1 DEF EndsWith
  <1>4. ASSUME e.id # i, NEW s, EndsWith(i, s) PROVE EndsWith(i, s)'
    <2>1. CASE value[i] = s /\ \A k \in 1..Len(bus) : bus[k].id # i
      <3>1. \A k \in 1..Len(bus') : bus'[k].id # i
        BY <1>1, <1>2, <1>4, <2>1
      <3> QED BY <2>1, <3>1, Zenon DEF EndsWith
    <2>2. ASSUME NEW k \in 1..Len(bus), bus[k].id = i, bus[k].snap = s,
                 \A j \in k+1..Len(bus) : bus[j].id # i
          PROVE  EndsWith(i, s)'
      <3>1. k \in 1..Len(bus') /\ bus'[k].id = i /\ bus'[k].snap = s
        BY <1>1, <2>2
      <3>2. ASSUME NEW j \in k+1..Len(bus') PROVE bus'[j].id # i
        <4>1. j = Len(bus) + 1 \/ (j \in k+1..Len(bus) /\ j \in 1..Len(bus))
          BY <1>1
        <4> QED BY <1>1, <1>4, <2>2, <4>1
      <3> QED BY <3>1, <3>2, Zenon DEF EndsWith
    <2> QED BY <1>4, <2>1, <2>2, Zenon DEF EndsWith
  <1> QED BY <1>3, <1>4, Zenon

\* Taking a snapshot off the bus and showing it changes nothing of that.
LEMMA EndsTake ==
  ASSUME Shapes, bus # <<>>, bus' = Tail(bus),
         value' = [value EXCEPT ![Head(bus).id] = Head(bus).snap],
         NEW i \in 1..Len(Ids), NEW s, EndsWith(i, s)
  PROVE  EndsWith(i, s)'
  <1>1. /\ Len(bus) - 1 \in Nat /\ Len(bus') = Len(bus) - 1 /\ Len(bus) = (Len(bus) - 1) + 1
        /\ Head(bus) = bus[1] /\ \A k \in 1..(Len(bus) - 1) : bus'[k] = bus[k + 1]
    BY HeadTailProperties, EmptySeq, LenProperties DEF Shapes
  <1>2. PICK m \in Nat : /\ Len(bus) = m + 1 /\ Len(bus') = m
                         /\ \A k \in 1..m : bus'[k] = bus[k + 1]
    BY <1>1
  <1>3. /\ bus[1].id = i => value'[i] = bus[1].snap
        /\ bus[1].id # i => value'[i] = value[i]
    BY <1>1 DEF Shapes
  <1>4. \A k \in 1..m : k + 1 \in 1..Len(bus)
    BY <1>2
  <1>5. CASE value[i] = s /\ \A k \in 1..Len(bus) : bus[k].id # i
    <2>1. 1 \in 1..Len(bus)
      BY <1>2
    <2>2. \A k \in 1..Len(bus') : bus'[k].id # i
      BY <1>2, <1>4, <1>5
    <2> QED BY <1>3, <1>5, <2>1, <2>2, Zenon DEF EndsWith
  <1>6. ASSUME NEW k \in 1..Len(bus), bus[k].id = i, bus[k].snap = s,
               \A j \in k+1..Len(bus) : bus[j].id # i
        PROVE  EndsWith(i, s)'
    <2>1. CASE k = 1
      <3>1. \A j \in 1..m : j + 1 \in k+1..Len(bus)
        BY <1>2, <2>1
      <3>2. \A j \in 1..Len(bus') : bus'[j].id # i
        BY <1>2, <1>6, <3>1
      <3> QED BY <1>3, <1>6, <2>1, <3>2, Zenon DEF EndsWith
    <2>2. CASE k # 1
      <3>1. k - 1 \in 1..m /\ k = (k - 1) + 1
        BY <1>2, <2>2
      <3>2. PICK l \in 1..m : k = l + 1
        BY <3>1
      <3>3. l \in 1..Len(bus') /\ bus'[l].id = i /\ bus'[l].snap = s
        BY <1>2, <1>6, <3>2
      <3>4. \A j \in l+1..m : j \in 1..m /\ j + 1 \in k+1..Len(bus)
        BY <1>2, <3>2
      <3>5. \A j \in l+1..Len(bus') : bus'[j].id # i
        BY <1>2, <1>6, <3>4
      <3> QED BY <3>3, <3>5, Zenon DEF EndsWith
    <2> QED BY <2>1, <2>2
  <1> QED BY <1>5, <1>6, Zenon DEF EndsWith
-------------------------------------------------------------------------------
\* A step that touches neither workers nor bus: somebody asks again, or nothing
\* that counts has happened.
LEMMA InvAsked ==
  ASSUME IInv, UNCHANGED <<wpc, wsnaps, bus, value, gitRefreshing>>,
         Due' \/ (cwd' = cwd /\ (Due => Due'))
  PROVE  IInv'
  <1>1. OneOwner' /\ RoundInHand'
    BY DEF IInv, OneOwner, RoundInHand
  <1>2. RoundUnderWay'
    BY EndsKept DEF IInv, RoundUnderWay
  <1>3. LastRound'
    BY EndsKept DEF IInv, LastRound
  <1> QED BY <1>1, <1>2, <1>3 DEF IInv

\* A caller of refreshGitMod becomes the worker.
LEMMA InvBecomes ==
  ASSUME Shapes, IInv, NEW g, NEW e, BecomeWorker(g, e), UNCHANGED <<cwd, bus, value>>,
         Due /\ ~(\E w \in Workers : wpc[w] \in {"start", "read"}) =>
            lpc' = "store" \/ gitPending'
  PROVE  IInv'
  <1>1. CASE gitRefreshing
    <2>1. UNCHANGED <<wpc, wsnaps, gitRefreshing>>
      BY <1>1 DEF BecomeWorker, workerVars, workerLocals
    <2>2. Due => Due'
      BY <2>1 DEF Due
    <2> QED BY <2>1, <2>2, InvAsked
  <1>2. CASE ~gitRefreshing
    <2>1. PICK w \in Workers : wpc[w] = "none" /\ wpc' = [wpc EXCEPT ![w] = "take"]
      BY <1>2 DEF BecomeWorker
    <2>2. gitRefreshing' /\ wsnaps' = wsnaps
      BY <1>2 DEF BecomeWorker, workerVars, workerLocals
    <2>3. \A v \in Workers : wpc[v] \notin Owning
      BY <1>2 DEF IInv, OneOwner
    <2>4. wpc'[w] = "take" /\ \A v \in Workers \ {w} : wpc'[v] = wpc[v]
      BY <2>1 DEF Shapes
    <2>5. OneOwner'
      BY <2>2, <2>3, <2>4 DEF OneOwner, Owning, Working
    <2>6. \A v \in Workers : wpc'[v] \notin {"start", "read", "check", "send"}
      BY <2>3, <2>4 DEF Owning, Working
    <2>7. RoundInHand' /\ RoundUnderWay'
      BY <2>6 DEF RoundInHand, RoundUnderWay
    <2>8. Due => Due'
      BY <2>3 DEF Due, Owning, Working
    <2>9. LastRound'
      <3>1. \A v \in Workers : wpc[v] \notin {"check", "send"}
        BY <2>3 DEF Owning, Working
      <3>2. PICK s \in Snapshots \cup {None} :
               (\A i \in 1..Len(Ids) : EndsWith(i, s)) /\ (Due \/ s.dir = cwd)
        BY <3>1 DEF IInv, LastRound
      <3>3. \A i \in 1..Len(Ids) : EndsWith(i, s)'
        BY <3>2, EndsKept
      <3> QED BY <2>8, <3>2, <3>3 DEF LastRound
    <2> QED BY <2>5, <2>7, <2>9 DEF IInv
  <1> QED BY <1>1, <1>2

\* The loop applies a snapshot.
LEMMA InvApply == ASSUME Shapes, IInv, ApplySnapshot PROVE IInv'
  <1>1. /\ bus # <<>> /\ bus' = Tail(bus)
        /\ value' = [value EXCEPT ![Head(bus).id] = Head(bus).snap]
        /\ UNCHANGED <<cwd, lpc, gitPending, gitRefreshing, wpc, wsnaps>>
    BY DEF ApplySnapshot, flagVars, workerVars, workerLocals
  <1>2. \A i \in 1..Len(Ids) : \A s : EndsWith(i, s) => EndsWith(i, s)'
    BY <1>1, EndsTake
  <1>3. Due' <=> Due
    BY <1>1 DEF Due
  <1>4. OneOwner' /\ RoundInHand'
    BY <1>1 DEF IInv, OneOwner, RoundInHand
  <1>5. RoundUnderWay'
    <2>1. ASSUME NEW w \in Workers, wpc[w] = "send", NEW i \in 1..Len(Ids) - Len(wsnaps[w])
          PROVE  EndsWith(i, wsnaps[w][1])'
      <3>1. i \in 1..Len(Ids)
        BY <2>1, TwoIds DEF IInv, RoundInHand
      <3>2. PICK s : s = wsnaps[w][1]
        OBVIOUS
      <3>3. EndsWith(i, s)
        BY <2>1, <3>2 DEF IInv, RoundUnderWay
      <3>4. EndsWith(i, s)' /\ s = wsnaps'[w][1]
        BY <1>1, <1>2, <3>1, <3>2, <3>3
      <3> QED BY <3>4
    <2> QED BY <1>1, <1>3, <2>1 DEF IInv, RoundUnderWay
  <1>6. LastRound'
    BY <1>1, <1>2, <1>3 DEF IInv, LastRound
  <1> QED BY <1>4, <1>5, <1>6 DEF IInv
-------------------------------------------------------------------------------
(* The worker. *)

\* A worker that owns the flag is the only one, and stays it until it clears it.
LEMMA OwnerAlone ==
  ASSUME Shapes, IInv, NEW w \in Workers, wpc[w] \in Owning, NEW p, wpc' = [wpc EXCEPT ![w] = p]
  PROVE  /\ gitRefreshing /\ wpc'[w] = p
         /\ \A v \in Workers \ {w} : wpc[v] \notin Owning /\ wpc'[v] = wpc[v]
         /\ p \in Owning /\ gitRefreshing' = gitRefreshing => OneOwner'
         /\ p \notin Owning /\ ~gitRefreshing' => OneOwner'
  <1>1. gitRefreshing /\ \A v \in Workers \ {w} : wpc[v] \notin Owning
    BY DEF IInv, OneOwner
  <1>2. wpc'[w] = p /\ \A v \in Workers \ {w} : wpc'[v] = wpc[v]
    BY DEF Shapes
  <1>3. ASSUME p \in Owning, gitRefreshing' = gitRefreshing PROVE OneOwner'
    BY <1>1, <1>2, <1>3 DEF OneOwner
  <1>4. ASSUME p \notin Owning, ~gitRefreshing' PROVE OneOwner'
    BY <1>1, <1>2, <1>4 DEF OneOwner
  <1> QED BY <1>1, <1>2, <1>3, <1>4

\* It takes a request, or finds none; notes the directory; clears the flag.
LEMMA InvBetween ==
  ASSUME Shapes, IInv, NEW w \in Workers, Take(w) \/ NoteDir(w) \/ Clear(w)
  PROVE  IInv'
  <1>1. PICK p : wpc' = [wpc EXCEPT ![w] = p]
    BY DEF Take, NoteDir, Clear, Goto
  <1>2. wpc[w] \in {"take", "start", "clear"} /\ UNCHANGED <<cwd, lpc, bus, value, wsnaps>>
    BY DEF Take, NoteDir, Clear, LoopAlone
  <1>3. wpc[w] \in Owning /\ \A v \in Workers \ {w} : wpc[v] \notin {"start", "read", "check", "send"}
    BY <1>1, <1>2, OwnerAlone DEF Owning, Working
  <1>4. wpc'[w] = p /\ \A v \in Workers \ {w} : wpc'[v] = wpc[v]
    BY <1>1, <1>3, OwnerAlone
  <1>5. /\ p \in {"start", "read", "clear", "recheck"}
        /\ p = "recheck" <=> Clear(w)
        /\ Clear(w) => ~gitRefreshing' /\ gitPending' = gitPending
        /\ ~Clear(w) => gitRefreshing' = gitRefreshing
        /\ Due => Due'
    <2>1. CASE Take(w)
      BY <1>1, <1>3, <1>4, <2>1 DEF Take, Goto, LoopAlone, Due, Clear, Shapes
    <2>2. CASE NoteDir(w)
      BY <1>1, <1>3, <1>4, <2>2 DEF NoteDir, Goto, LoopAlone, Due, flagVars, Clear, Shapes
    <2>3. CASE Clear(w)
      BY <1>1, <1>3, <1>4, <2>3 DEF Clear, Goto, LoopAlone, Due, Shapes
    <2> QED BY <2>1, <2>2, <2>3
  <1>6. OneOwner'
    BY <1>1, <1>3, <1>5, OwnerAlone DEF Owning, Working
  <1>7. \A v \in Workers : wpc'[v] \notin {"check", "send"} /\ wpc[v] \notin {"check", "send"}
    BY <1>2, <1>3, <1>4, <1>5
  <1>8. RoundInHand' /\ RoundUnderWay'
    BY <1>7 DEF RoundInHand, RoundUnderWay
  <1>9. LastRound'
    <2>1. PICK s \in Snapshots \cup {None} :
             (\A i \in 1..Len(Ids) : EndsWith(i, s)) /\ (Due \/ s.dir = cwd)
      BY <1>7 DEF IInv, LastRound
    <2>2. \A i \in 1..Len(Ids) : EndsWith(i, s)'
      BY <1>2, <2>1, EndsKept
    <2> QED BY <1>2, <1>5, <2>1, <2>2 DEF LastRound
  <1> QED BY <1>6, <1>8, <1>9 DEF IInv

\* It reads the directory and asks git about it.
LEMMA InvRead == ASSUME TypeOK, Shapes, IInv, NEW w \in Workers, ReadRepo(w) PROVE IInv'
  <1>1. /\ wpc[w] = "read" /\ wpc' = [wpc EXCEPT ![w] = "check"]
        /\ UNCHANGED <<cwd, lpc, bus, value, gitRefreshing>>
    BY DEF ReadRepo, Goto, LoopAlone, flagVars
  <1>2. /\ wpc'[w] = "check" /\ OneOwner'
        /\ \A v \in Workers \ {w} :
              /\ wpc[v] \notin {"start", "read", "check", "send"}
              /\ wpc'[v] = wpc[v]
    BY <1>1, OwnerAlone DEF Owning, Working
  <1>3. wsnaps'[w] = [i \in 1..Len(Ids) |-> [gm |-> wgm[w], dir |-> cwd, version |-> repo]]
    BY DEF ReadRepo, Shapes
  <1>4. Len(wsnaps'[w]) = Len(Ids) /\ Len(Ids) = 2 /\ wsnaps'[w][1].dir = cwd
        /\ \A i \in 1..Len(Ids) : wsnaps'[w][i] = wsnaps'[w][1]
    BY <1>3, TwoIds
  <1>5. RoundInHand'
    BY <1>2, <1>4 DEF RoundInHand
  <1>6. RoundUnderWay'
    BY <1>1, <1>2, <1>4 DEF RoundUnderWay
  <1>7. LastRound'
    <2>1. PICK s \in Snapshots \cup {None} : \A i \in 1..Len(Ids) : EndsWith(i, s)
      BY <1>1, <1>2 DEF IInv, LastRound
    <2>2. \A i \in 1..Len(Ids) : EndsWith(i, s)'
      BY <1>1, <2>1, EndsKept
    <2> QED BY <1>2, <2>2 DEF LastRound
  <1> QED BY <1>2, <1>5, <1>6, <1>7 DEF IInv

\* It throws a round away, and asks for another, or keeps it.
LEMMA InvChecks == ASSUME Shapes, IInv, NEW w \in Workers, Discard(w) \/ Keep(w) PROVE IInv'
  <1>1. /\ wpc[w] = "check" /\ UNCHANGED <<cwd, lpc, bus, value, gitRefreshing>>
    BY DEF Discard, Keep, LoopAlone, flagVars
  <1>2. \A v \in Workers \ {w} : wpc[v] \notin {"start", "read", "check", "send"}
    BY <1>1 DEF IInv, OneOwner, Owning, Working
  <1>3. PICK s \in Snapshots \cup {None} : \A i \in 1..Len(Ids) : EndsWith(i, s)
    BY <1>1, <1>2 DEF IInv, LastRound
  <1>4. \A i \in 1..Len(Ids) : EndsWith(i, s)'
    BY <1>1, <1>3, EndsKept
  <1>5. CASE Discard(w)
    <2>1. wpc' = [wpc EXCEPT ![w] = "take"] /\ gitPending'
      BY <1>5 DEF Discard, Goto
    <2>2. /\ wpc'[w] = "take" /\ OneOwner'
          /\ \A v \in Workers \ {w} : wpc'[v] = wpc[v]
      BY <1>1, <2>1, OwnerAlone DEF Owning, Working
    <2>3. RoundInHand' /\ RoundUnderWay'
      BY <1>2, <2>2 DEF RoundInHand, RoundUnderWay
    <2>4. LastRound'
      BY <1>4, <2>1 DEF LastRound, Due
    <2> QED BY <2>2, <2>3, <2>4 DEF IInv
  <1>6. CASE Keep(w)
    <2>1. wpc' = [wpc EXCEPT ![w] = "send"] /\ UNCHANGED <<gitPending, wsnaps>>
      BY <1>6 DEF Keep, Goto, flagVars
    <2>2. /\ wpc'[w] = "send" /\ OneOwner'
          /\ \A v \in Workers \ {w} : wpc'[v] = wpc[v]
      BY <1>1, <2>1, OwnerAlone DEF Owning, Working
    <2>3. RoundInHand'
      BY <1>1, <1>2, <2>1, <2>2, TwoIds DEF IInv, RoundInHand
    <2>4. Due => Due'
      BY <1>1, <1>2, <2>1, <2>2 DEF Due
    <2>5. RoundUnderWay'
      <3>1. Due' \/ wsnaps'[w][1].dir = cwd'
        BY <1>1, <2>1, <2>4 DEF IInv, RoundUnderWay
      <3>2. Len(wsnaps'[w]) = Len(Ids) /\ 1..Len(Ids) - Len(Ids) = {}
        BY <1>1, <2>1, TwoIds DEF IInv, RoundInHand
      <3> QED BY <1>2, <2>2, <3>1, <3>2 DEF RoundUnderWay
    <2>6. LastRound'
      BY <2>2 DEF LastRound
    <2> QED BY <2>2, <2>3, <2>5, <2>6 DEF IInv
  <1> QED BY <1>5, <1>6

\* It sends one snapshot of its round.
LEMMA InvSend == ASSUME Shapes, IInv, NEW w \in Workers, Send(w) PROVE IInv'
  <1>1. /\ wpc[w] = "send" /\ UNCHANGED <<cwd, lpc, value, gitRefreshing, gitPending>>
        /\ bus' = Append(bus, [id |-> 1 + Len(Ids) - Len(wsnaps[w]), snap |-> Head(wsnaps[w])])
        /\ wsnaps' = [wsnaps EXCEPT ![w] = Tail(wsnaps[w])]
        /\ wpc' = [wpc EXCEPT ![w] = IF Tail(wsnaps[w]) = <<>> THEN "take" ELSE "send"]
    BY DEF Send, Goto, LoopAlone, flagVars
  <1>2. PICK n \in {1, 2} : n = Len(wsnaps[w])
    BY <1>1, TwoIds DEF IInv, RoundInHand
  <1>0. PICK s : s = wsnaps[w][1]
    OBVIOUS
  <1>3. /\ Len(Ids) = 2 /\ \A i \in 1..n : wsnaps[w][i] = s
        /\ Due \/ s.dir = cwd
        /\ \A i \in 1..2 - n : EndsWith(i, s)
    BY <1>0, <1>1, <1>2, TwoIds DEF IInv, RoundInHand, RoundUnderWay
  <1>4. wsnaps[w] \in Seq(Snapshots) /\ wsnaps[w] # <<>> /\ 1 \in 1..n
    <2>1. wsnaps[w] \in Seq(Snapshots)
      BY DEF Shapes
    <2> QED BY <1>2, <2>1, EmptySeq
  <1>5. /\ Head(wsnaps[w]) = s /\ s \in Snapshots /\ Tail(wsnaps[w]) \in Seq(Snapshots)
        /\ Len(Tail(wsnaps[w])) = n - 1
        /\ \A i \in 1..n - 1 : Tail(wsnaps[w])[i] = wsnaps[w][i + 1]
    <2>1. PICK q \in Seq(Snapshots) : q = wsnaps[w] /\ q # <<>> /\ Len(q) = n /\ q[1] = s
      BY <1>0, <1>2, <1>4
    <2>2. /\ Head(q) = s /\ s \in Snapshots /\ Tail(q) \in Seq(Snapshots)
          /\ Len(Tail(q)) = n - 1 /\ \A i \in 1..n - 1 : Tail(q)[i] = q[i + 1]
      BY <1>4, <2>1, HeadTailProperties
    <2> QED BY <2>1, <2>2
  <1>6. /\ wsnaps'[w] = Tail(wsnaps[w])
        /\ \A v \in Workers \ {w} : wsnaps'[v] = wsnaps[v]
    BY <1>1, <1>5 DEF Shapes
  <1>7. Tail(wsnaps[w]) = <<>> <=> n = 1
    <2>1. Tail(wsnaps[w]) = <<>> <=> Len(Tail(wsnaps[w])) = 0
      BY <1>5, EmptySeq
    <2> QED BY <1>5, <2>1
  <1>8. /\ wpc'[w] = (IF n = 1 THEN "take" ELSE "send") /\ OneOwner'
        /\ \A v \in Workers \ {w} :
              /\ wpc[v] \notin {"start", "read", "check", "send"}
              /\ wpc'[v] = wpc[v]
    BY <1>1, <1>7, OwnerAlone DEF Owning, Working
  <1>9. Due' <=> Due
    BY <1>1, <1>8 DEF Due
  <1>10. \A i \in 1..3 - n : EndsWith(i, s)'
    <2>1. PICK e \in [id : 1..Len(Ids), snap : Snapshots] : e.id = 3 - n /\ e.snap = s
      <3>1. [id |-> 3 - n, snap |-> s] \in [id : 1..Len(Ids), snap : Snapshots]
        BY <1>2, <1>3, <1>5
      <3> QED BY <3>1
    <2>2. bus' = Append(bus, e) /\ value' = value
      BY <1>1, <1>2, <1>3, <1>5, <2>1
    <2> TAKE i \in 1..3 - n
    <2>3. CASE i = 3 - n
      BY <2>1, <2>2, <2>3, EndsAppend
    <2>4. CASE i # 3 - n
      <3>1. i \in 1..2 - n
        BY <1>2, <2>4
      <3> QED BY <1>3, <2>1, <2>2, <2>4, <3>1, EndsAppend
    <2> QED BY <2>3, <2>4
  <1>11. CASE n = 1
    <2>1. \A v \in Workers : wpc'[v] \notin {"start", "read", "check", "send"}
      BY <1>8, <1>11
    <2>2. RoundInHand' /\ RoundUnderWay'
      BY <2>1 DEF RoundInHand, RoundUnderWay
    <2>3. LastRound'
      <3>1. (\A i \in 1..Len(Ids) : EndsWith(i, s)') /\ (Due' \/ s.dir = cwd')
        BY <1>1, <1>3, <1>9, <1>10, <1>11
      <3> QED BY <1>5, <3>1 DEF LastRound
    <2> QED BY <1>8, <2>2, <2>3 DEF IInv
  <1>12. CASE n = 2
    <2>1. Len(wsnaps'[w]) = 1 /\ wsnaps'[w][1] = s
      BY <1>3, <1>5, <1>6, <1>12
    <2>2. wpc'[w] = "send"
      BY <1>8, <1>12
    <2>3. RoundInHand'
      BY <1>3, <1>8, <2>1, <2>2 DEF RoundInHand
    <2>4. RoundUnderWay'
      <3>1. Len(Ids) - Len(wsnaps'[w]) = 3 - n
        BY <1>3, <1>12, <2>1
      <3>2. \A i \in 1..Len(Ids) - Len(wsnaps'[w]) : EndsWith(i, wsnaps[w][1])'
        BY <1>10, <2>1, <3>1
      <3> QED BY <1>1, <1>3, <1>8, <1>9, <2>1, <2>2, <3>2 DEF RoundUnderWay
    <2>5. LastRound'
      BY <2>2 DEF LastRound
    <2> QED BY <1>8, <2>3, <2>4, <2>5 DEF IInv
  <1> QED BY <1>2, <1>11, <1>12

\* After Clear it looks again: it owns the flag again, or is gone.
LEMMA InvRechecks ==
  ASSUME Shapes, IInv, NEW w \in Workers, Recheck(w) \/ Reacquire(w)
  PROVE  IInv'
  <1>1. /\ wpc[w] \in {"recheck", "reacquire"} /\ UNCHANGED <<cwd, lpc, bus, value, gitPending, wsnaps>>
        /\ \/ gitRefreshing' = gitRefreshing
                /\ \E p \in {"none", "reacquire"} : wpc' = [wpc EXCEPT ![w] = p]
           \/ ~gitRefreshing /\ gitRefreshing' /\ wpc' = [wpc EXCEPT ![w] = "take"]
    BY DEF Recheck, Reacquire, Exit, Goto, LoopAlone, flagVars, workerLocals, IInv
  <1>2. PICK p \in {"none", "reacquire", "take"} :
           /\ wpc' = [wpc EXCEPT ![w] = p]
           /\ \/ p # "take" /\ gitRefreshing' = gitRefreshing
              \/ p = "take" /\ ~gitRefreshing /\ gitRefreshing'
    BY <1>1
  <1>3. wpc'[w] = p /\ \A v \in Workers \ {w} : wpc'[v] = wpc[v]
    BY <1>2 DEF Shapes
  <1>4. OneOwner'
    <2>1. CASE p # "take"
      BY <1>1, <1>2, <1>3, <2>1 DEF IInv, OneOwner, Owning, Working
    <2>2. CASE p = "take"
      BY <1>1, <1>2, <1>3, <2>2 DEF IInv, OneOwner, Owning, Working
    <2> QED BY <2>1, <2>2
  <1>5. \A v \in Workers : \A x \in {"start", "read", "check", "send"} : wpc'[v] = x <=> wpc[v] = x
    BY <1>1, <1>3
  <1>6. Due' <=> Due
    BY <1>1, <1>5 DEF Due
  <1>7. RoundInHand'
    BY <1>1, <1>5 DEF IInv, RoundInHand
  <1>8. RoundUnderWay'
    BY <1>1, <1>5, <1>6, EndsKept DEF IInv, RoundUnderWay
  <1>9. LastRound'
    BY <1>1, <1>5, <1>6, EndsKept DEF IInv, LastRound
  <1> QED BY <1>4, <1>7, <1>8, <1>9 DEF IInv
-------------------------------------------------------------------------------
(* Type correctness. *)

\* The caller's CAS leaves the types alone.
LEMMA TypeBecomes ==
  ASSUME TypeOK, NEW g \in Gens, NEW e \in BOOLEAN, BecomeWorker(g, e)
  PROVE  /\ gitRefreshing' \in BOOLEAN
         /\ wpc' \in [Workers -> Owning \cup {"none", "recheck", "reacquire"}]
         /\ wgm' \in [Workers -> Gens] /\ wexp' \in [Workers -> BOOLEAN]
         /\ UNCHANGED <<wstart, wsnaps>>
  <1>1. CASE gitRefreshing
    BY <1>1 DEF TypeOK, BecomeWorker, workerVars, workerLocals
  <1>2. CASE ~gitRefreshing
    <2>1. PICK w \in Workers : /\ wpc' = [wpc EXCEPT ![w] = "take"]
                              /\ wgm' = [wgm EXCEPT ![w] = g]
                              /\ wexp' = [wexp EXCEPT ![w] = e]
      BY <1>2 DEF BecomeWorker
    <2>2. gitRefreshing' = TRUE /\ UNCHANGED <<wstart, wsnaps>>
      BY <1>2 DEF BecomeWorker
    <2>3. "take" \in Owning
      BY DEF Owning
    <2> QED BY <2>1, <2>2, <2>3 DEF TypeOK
  <1> QED BY <1>1, <1>2

\* No step of the loop or of a ticker gives a variable a value of another type.
LEMMA TypeCallers ==
  ASSUME GitAssumption, TypeOK,
         Loop \/ RepoChanges \/ \E g \in Gens : Ticker(g)
  PROVE  TypeOK'
  <1>0. BusCap \in Nat /\ MaxGens \in Nat /\ MaxVersion \in Nat /\ MaxChanges \in Nat
    BY DEF GitAssumption
  <1>1. CASE ChangeDir
    <2>1. changes' \in 0..MaxChanges
      BY <1>0, <1>1 DEF TypeOK, ChangeDir, Gens
    <2> QED BY <1>1, <2>1 DEF TypeOK, ChangeDir, flagVars, workerVars, workerLocals
  <1>2. CASE Reload
    <2>1. gen' \in Gens
      BY <1>0, <1>2 DEF TypeOK, Reload, Gens
    <2> QED BY <1>2, <2>1 DEF TypeOK, Reload, flagVars, workerVars, workerLocals
  <1>3. CASE LoopStores
    BY <1>3 DEF TypeOK, LoopStores, workerVars, workerLocals
  <1>4. CASE LoopCas
    <2>1. BecomeWorker(gen, lexp) /\ gen \in Gens /\ lexp \in BOOLEAN
      BY <1>4 DEF LoopCas, TypeOK
    <2> QED BY <1>4, <2>1, TypeBecomes DEF TypeOK, LoopCas
  <1>5. CASE ApplySnapshot
    <2>1. /\ Head(bus) \in [id : 1..Len(Ids), snap : Snapshots]
          /\ bus' \in Seq([id : 1..Len(Ids), snap : Snapshots]) /\ Len(bus') <= BusCap
      <3>1. /\ bus \in Seq([id : 1..Len(Ids), snap : Snapshots]) /\ Len(bus) <= BusCap
            /\ bus # <<>> /\ bus' = Tail(bus)
        BY <1>5 DEF TypeOK, ApplySnapshot
      <3>2. /\ Head(bus) \in [id : 1..Len(Ids), snap : Snapshots]
            /\ Tail(bus) \in Seq([id : 1..Len(Ids), snap : Snapshots])
            /\ Len(bus) \in Nat \ {0} /\ Len(Tail(bus)) = Len(bus) - 1
        BY <3>1, QueueTake
      <3> QED BY <1>0, <3>1, <3>2
    <2>2. value' \in [1..Len(Ids) -> Snapshots \cup {None}]
      BY <1>5, <2>1 DEF TypeOK, ApplySnapshot
    <2> QED BY <1>5, <2>1, <2>2 DEF TypeOK, ApplySnapshot, flagVars, workerVars, workerLocals
  <1>6. ASSUME NEW g \in Gens, TickerFires(g) \/ TickerStores(g) PROVE TypeOK'
    <2>1. tpc' \in [Gens -> {"idle", "store", "cas"}]
      BY <1>6 DEF TypeOK, TickerFires, TickerStores
    <2> QED
      BY <1>6, <2>1 DEF TypeOK, TickerFires, TickerStores, flagVars, workerVars, workerLocals
  <1>7. ASSUME NEW g \in Gens, TickerCas(g) PROVE TypeOK'
    <2>1. BecomeWorker(g, FALSE) /\ tpc' \in [Gens -> {"idle", "store", "cas"}]
      BY <1>7 DEF TickerCas, TypeOK
    <2> QED BY <1>7, <2>1, TypeBecomes DEF TypeOK, TickerCas
  <1>8. CASE RepoChanges
    BY <1>0, <1>8 DEF TypeOK, RepoChanges, Versions, flagVars, workerVars, workerLocals
  <1> QED BY <1>1, <1>2, <1>3, <1>4, <1>5, <1>6, <1>7, <1>8 DEF Loop, Ticker

\* No step of a worker does.
LEMMA TypeWorker ==
  ASSUME GitAssumption, TypeOK, IInv, NEW w \in Workers, Worker(w)
  PROVE  TypeOK'
  <1>0. /\ BusCap \in Nat
        /\ UNCHANGED <<cwd, changes, repo, gen, lpc, lexp, tpc, value>>
    BY DEF GitAssumption, Worker, Take, NoteDir, ReadRepo, Discard, Keep, Send, Clear, Recheck,
       Reacquire, LoopAlone
  <1>1. ASSUME NEW p \in Owning \cup {"none", "recheck", "reacquire"}, Goto(w, p)
        PROVE  wpc' \in [Workers -> Owning \cup {"none", "recheck", "reacquire"}]
    BY <1>1 DEF Goto, TypeOK
  <1>2. ASSUME Exit(w)
        PROVE  /\ wpc' \in [Workers -> Owning \cup {"none", "recheck", "reacquire"}]
               /\ wgm' \in [Workers -> Gens] /\ wexp' \in [Workers -> BOOLEAN]
               /\ UNCHANGED <<wstart, wsnaps>>
    <2>1. 1 \in Gens
      BY DEF GitAssumption, Gens
    <2>2. Goto(w, "none")
      BY <1>2 DEF Exit
    <2> QED BY <1>1, <1>2, <2>1, <2>2 DEF Exit, TypeOK
  <1>3. CASE Take(w)
    <2>1. wpc' \in [Workers -> Owning \cup {"none", "recheck", "reacquire"}]
      BY <1>1, <1>3 DEF Take, Owning, Working
    <2> QED BY <1>0, <1>3, <2>1 DEF TypeOK, Take
  <1>4. CASE NoteDir(w)
    <2>1. wpc' \in [Workers -> Owning \cup {"none", "recheck", "reacquire"}]
      BY <1>1, <1>4 DEF NoteDir, Owning, Working
    <2> QED BY <1>0, <1>4, <2>1 DEF TypeOK, NoteDir, flagVars
  <1>5. CASE ReadRepo(w)
    <2>1. wpc' \in [Workers -> Owning \cup {"none", "recheck", "reacquire"}]
      BY <1>1, <1>5 DEF ReadRepo, Owning, Working
    <2>2. PICK snap \in Snapshots : wsnaps' = [wsnaps EXCEPT ![w] = [i \in 1..Len(Ids) |-> snap]]
      <3>1. [gm |-> wgm[w], dir |-> cwd, version |-> repo] \in Snapshots
        BY DEF TypeOK, Snapshots
      <3> QED BY <1>5, <3>1 DEF ReadRepo
    <2>3. [i \in 1..Len(Ids) |-> snap] \in Seq(Snapshots)
      BY TwoIds
    <2>4. wsnaps' \in [Workers -> Seq(Snapshots)]
      BY <2>2, <2>3 DEF TypeOK
    <2> QED BY <1>0, <1>5, <2>1, <2>4 DEF TypeOK, ReadRepo, flagVars
  <1>6. CASE Discard(w)
    <2>1. wpc' \in [Workers -> Owning \cup {"none", "recheck", "reacquire"}]
      BY <1>1, <1>6 DEF Discard, Owning, Working
    <2>2. wsnaps' \in [Workers -> Seq(Snapshots)]
      BY <1>6, EmptySeq DEF TypeOK, Discard
    <2> QED BY <1>0, <1>6, <2>1, <2>2 DEF TypeOK, Discard
  <1>7. CASE Keep(w)
    <2>1. wpc' \in [Workers -> Owning \cup {"none", "recheck", "reacquire"}]
      BY <1>1, <1>7 DEF Keep, Owning, Working
    <2> QED BY <1>0, <1>7, <2>1 DEF TypeOK, Keep, flagVars
  <1>8. CASE Send(w)
    <2>1. wpc' \in [Workers -> Owning \cup {"none", "recheck", "reacquire"}]
      BY <1>1, <1>8 DEF Send, Owning, Working
    <2>2. wsnaps[w] \in Seq(Snapshots) /\ wsnaps[w] # <<>> /\ Len(wsnaps[w]) \in {1, 2}
      <3>1. wpc[w] = "send" /\ wsnaps[w] \in Seq(Snapshots)
        BY <1>8 DEF Send, TypeOK
      <3>2. Len(wsnaps[w]) \in {1, 2}
        BY <1>8, <3>1, TwoIds DEF IInv, RoundInHand
      <3> QED BY <3>1, <3>2, NotEmpty
    <2>3. Head(wsnaps[w]) \in Snapshots /\ Tail(wsnaps[w]) \in Seq(Snapshots)
      BY <2>2, HeadTailProperties
    <2>4. wsnaps' \in [Workers -> Seq(Snapshots)]
      BY <1>8, <2>3 DEF Send, TypeOK
    <2>5. PICK e \in [id : 1..Len(Ids), snap : Snapshots] : bus' = Append(bus, e)
      <3>1. 1 + Len(Ids) - Len(wsnaps[w]) \in 1..Len(Ids)
        <4>1. PICK n \in {1, 2} : n = Len(wsnaps[w])
          BY <2>2
        <4>2. 1 + Len(Ids) - n \in {1, 2}
          BY TwoIds
        <4> QED BY <4>1, <4>2, TwoIds
      <3>2. [id |-> 1 + Len(Ids) - Len(wsnaps[w]), snap |-> Head(wsnaps[w])]
              \in [id : 1..Len(Ids), snap : Snapshots]
        BY <2>3, <3>1
      <3> QED BY <1>8, <3>2 DEF Send
    <2>6. /\ bus' \in Seq([id : 1..Len(Ids), snap : Snapshots]) /\ Len(bus') <= BusCap
      BY <1>0, <1>8, <2>5, AppendProperties, LenProperties DEF Send, TypeOK
    <2> QED BY <1>0, <1>8, <2>1, <2>4, <2>6 DEF TypeOK, Send, flagVars
  <1>9. CASE Clear(w)
    <2>1. wpc' \in [Workers -> Owning \cup {"none", "recheck", "reacquire"}]
      BY <1>1, <1>9 DEF Clear
    <2> QED BY <1>0, <1>9, <2>1 DEF TypeOK, Clear
  <1>10. CASE Recheck(w)
    <2>1. CASE gitPending
      <3>1. wpc' \in [Workers -> Owning \cup {"none", "recheck", "reacquire"}]
        BY <1>1, <1>10, <2>1 DEF Recheck
      <3> QED BY <1>0, <1>10, <2>1, <3>1 DEF TypeOK, Recheck, flagVars, workerLocals
    <2>2. CASE ~gitPending
      BY <1>0, <1>2, <1>10, <2>2 DEF TypeOK, Recheck, flagVars
    <2> QED BY <2>1, <2>2
  <1>11. CASE Reacquire(w)
    <2>1. CASE ~gitRefreshing
      <3>1. wpc' \in [Workers -> Owning \cup {"none", "recheck", "reacquire"}]
        BY <1>1, <1>11, <2>1 DEF Reacquire, Owning, Working
      <3> QED BY <1>0, <1>11, <2>1, <3>1 DEF TypeOK, Reacquire, workerLocals
    <2>2. CASE gitRefreshing
      BY <1>0, <1>2, <1>11, <2>2 DEF TypeOK, Reacquire
    <2> QED BY <2>1, <2>2
  <1> QED BY <1>3, <1>4, <1>5, <1>6, <1>7, <1>8, <1>9, <1>10, <1>11 DEF Worker
-------------------------------------------------------------------------------
(* The theorems. *)

\* Before the first refresh, which the loop is about to ask for.
LEMMA InitInvariant == ASSUME GitAssumption, Init PROVE TypeOK /\ IInv
  <1>1. TypeOK
    <2>1. <<>> \in Seq(Snapshots) /\ <<>> \in Seq([id : 1..Len(Ids), snap : Snapshots]) /\ Len(<<>>) = 0
      BY EmptySeq
    <2>2. 1 \in Gens
      BY DEF GitAssumption, Gens
    <2>3. /\ cwd \in Dirs /\ changes \in 0..MaxChanges /\ repo \in Versions /\ gen \in Gens
          /\ gitPending \in BOOLEAN /\ gitRefreshing \in BOOLEAN
          /\ lpc \in {"idle", "store", "cas"} /\ lexp \in BOOLEAN
      <3>1. cwd \in Dirs /\ gen \in Gens /\ lpc \in {"idle", "store", "cas"}
        BY <2>2 DEF GitAssumption, Init
      <3>2. changes \in 0..MaxChanges /\ repo \in Versions
        <4>1. changes = 0 /\ repo = 0 /\ MaxChanges \in Nat /\ MaxVersion \in Nat
          BY DEF GitAssumption, Init
        <4> QED BY <4>1 DEF Versions
      <3>3. gitPending \in BOOLEAN /\ gitRefreshing \in BOOLEAN /\ lexp \in BOOLEAN
        BY Zenon DEF Init
      <3> QED BY <3>1, <3>2, <3>3
    <2>4. /\ tpc \in [Gens -> {"idle", "store", "cas"}]
          /\ wpc \in [Workers -> Owning \cup {"none", "recheck", "reacquire"}]
          /\ wgm \in [Workers -> Gens] /\ wexp \in [Workers -> BOOLEAN]
          /\ wstart \in [Workers -> Dirs \cup {Nowhere}]
      BY <2>2 DEF Init
    <2>5. wsnaps \in [Workers -> Seq(Snapshots)] /\ value \in [1..Len(Ids) -> Snapshots \cup {None}]
      BY <2>1 DEF Init
    <2>6. bus \in Seq([id : 1..Len(Ids), snap : Snapshots]) /\ Len(bus) <= BusCap
      <3>1. bus = <<>> /\ BusCap \in Nat
        BY DEF Init, GitAssumption
      <3> QED BY <2>1, <3>1
    <2> QED BY <2>3, <2>4, <2>5, <2>6 DEF TypeOK
  <1>2. \A w \in Workers : wpc[w] = "none"
    BY DEF Init
  <1>3. OneOwner /\ RoundInHand /\ RoundUnderWay
    BY <1>2 DEF OneOwner, RoundInHand, RoundUnderWay, Owning, Working, Init
  <1>4. LastRound
    <2>1. \A i \in 1..Len(Ids) : EndsWith(i, None)
      BY EmptySeq DEF Init, EndsWith
    <2> QED BY <2>1 DEF LastRound, Due, Init
  <1> QED BY <1>1, <1>3, <1>4 DEF IInv

\* No step of the loop, a ticker, a worker or a repository breaks it.
LEMMA StepInvariant == ASSUME GitAssumption, TypeOK, IInv, [Next]_vars PROVE TypeOK' /\ IInv'
  <1>0. Shapes
    BY ShapesOf
  <1>1. CASE Loop
    <2>1. TypeOK'
      BY <1>1, TypeCallers
    <2>2. CASE ChangeDir \/ Reload \/ LoopStores
      BY <2>1, <2>2, InvAsked
         DEF ChangeDir, Reload, LoopStores, flagVars, workerVars, workerLocals, Due
    <2>3. CASE LoopCas
      <3>1. BecomeWorker(gen, lexp) /\ UNCHANGED <<cwd, bus, value, gitPending>> /\ lpc = "cas"
        BY <2>3 DEF LoopCas
      <3> QED BY <1>0, <2>1, <3>1, InvBecomes DEF Due
    <2>4. CASE ApplySnapshot
      BY <1>0, <2>1, <2>4, InvApply
    <2> QED BY <1>1, <2>1, <2>2, <2>3, <2>4 DEF Loop
  <1>2. ASSUME NEW g \in Gens, Ticker(g) PROVE TypeOK' /\ IInv'
    <2>1. TypeOK'
      BY <1>2, TypeCallers
    <2>2. CASE TickerFires(g) \/ TickerStores(g)
      BY <2>1, <2>2, InvAsked DEF TickerFires, TickerStores, flagVars, workerVars, workerLocals, Due
    <2>3. CASE TickerCas(g)
      <3>1. BecomeWorker(g, FALSE) /\ UNCHANGED <<cwd, bus, value, gitPending, lpc>>
        BY <2>3 DEF TickerCas
      <3> QED BY <1>0, <2>1, <3>1, InvBecomes DEF Due
    <2> QED BY <1>2, <2>1, <2>2, <2>3 DEF Ticker
  <1>3. CASE RepoChanges
    <2>1. TypeOK'
      BY <1>3, TypeCallers
    <2> QED BY <1>3, <2>1, InvAsked DEF RepoChanges, flagVars, workerVars, workerLocals, Due
  <1>4. ASSUME NEW w \in Workers, Worker(w) PROVE TypeOK' /\ IInv'
    <2>1. TypeOK'
      BY <1>4, TypeWorker
    <2>2. CASE Take(w) \/ NoteDir(w) \/ Clear(w)
      BY <1>0, <2>1, <2>2, InvBetween
    <2>3. CASE ReadRepo(w)
      BY <1>0, <2>1, <2>3, InvRead
    <2>4. CASE Discard(w) \/ Keep(w)
      BY <1>0, <2>1, <2>4, InvChecks
    <2>5. CASE Send(w)
      BY <1>0, <2>1, <2>5, InvSend
    <2>6. CASE Recheck(w) \/ Reacquire(w)
      BY <1>0, <2>1, <2>6, InvRechecks
    <2> QED BY <1>4, <2>1, <2>2, <2>3, <2>4, <2>5, <2>6 DEF Worker
  <1>5. CASE UNCHANGED vars
    <2>1. TypeOK'
      BY <1>5 DEF vars, TypeOK, flagVars, workerVars, workerLocals
    <2> QED BY <1>5, <2>1, InvAsked DEF vars, flagVars, workerVars, workerLocals, Due
  <1> QED BY <1>1, <1>2, <1>3, <1>4, <1>5 DEF Next

\* The types, and what a refresh of the git module keeps.
THEOREM Invariant == Spec => [](TypeOK /\ IInv)
  <1>1. Init => TypeOK /\ IInv
    BY GitAssumption, InitInvariant
  <1>2. TypeOK /\ IInv /\ [Next]_vars => TypeOK' /\ IInv'
    BY GitAssumption, StepInvariant
  <1> QED BY <1>1, <1>2, PTL DEF Spec, Safety

\* When everything is worked off, all ids show one round, of the shell's directory.
THEOREM QuietIsCurrent == Spec => []QuietMeansCurrent
  <1>1. TypeOK /\ IInv => QuietMeansCurrent
    <2> SUFFICES ASSUME TypeOK, IInv, Quiet
                 PROVE  \A i \in DOMAIN value : value[i] = value[1] /\ value[i].dir = cwd
      BY DEF QuietMeansCurrent
    <2>1. /\ lpc = "idle" /\ ~gitPending /\ bus = <<>>
          /\ \A w \in Workers : wpc[w] \notin {"start", "read", "check", "send"}
      BY DEF Quiet, Owning, Working
    <2>2. PICK s \in Snapshots \cup {None} :
             (\A i \in 1..Len(Ids) : EndsWith(i, s)) /\ s.dir = cwd
      BY <2>1 DEF IInv, LastRound, Due
    <2>3. \A i \in 1..Len(Ids) : value[i] = s
      BY <2>1, <2>2, EmptySeq DEF EndsWith
    <2>4. DOMAIN value = 1..Len(Ids) /\ 1 \in 1..Len(Ids)
      BY TwoIds DEF TypeOK
    <2> QED BY <2>2, <2>3, <2>4
  <1> QED BY <1>1, Invariant, PTL
===============================================================================
