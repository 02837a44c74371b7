-------------------------- MODULE ExecRefreshProofs --------------------------
(***************************************************************************)
(* Proofs about refreshing an exec module, for any set of directories and  *)
(* of worker goroutines, any bus capacity, and any number of restarts and  *)
(* directory changes.                                                      *)
(***************************************************************************)
EXTENDS ExecRefresh, SequenceTheorems, TLAPS

USE DirsAssumption, WorkersAssumption, LimitsAssumption DEF Gens

\* The state userModSet.Start leaves behind.
LEMMA TypeInit == Init => TypeOK
  BY EmptySeq DEF Init, TypeOK, WorkerPCs, Owning

\* The caller's CAS starts a worker that has nothing to send yet.
LEMMA TypeBecomeWorker ==
    ASSUME TypeOK, NEW g \in Gens, NEW context \in {"app", "module"}, BecomeWorker(g, context)
    PROVE  /\ refreshing' \in [Gens -> BOOLEAN]
           /\ wpc' \in [Workers -> WorkerPCs]
           /\ wgen' \in [Workers -> Gens]
           /\ wctx' \in [Workers -> {"app", "module"}]
           /\ \A w \in Workers : wpc'[w] \in {"exec", "send"} => wpc'[w] = wpc[w]
  <1> USE DEF TypeOK, WorkerPCs, Owning
  <1>1. CASE refreshing[g]
    BY <1>1 DEF BecomeWorker
  <1>2. CASE ~refreshing[g]
    <2>1. PICK w \in Workers : /\ wpc' = [wpc EXCEPT ![w] = "take"]
                              /\ wgen' = [wgen EXCEPT ![w] = g]
                              /\ wctx' = [wctx EXCEPT ![w] = context]
      BY <1>2 DEF BecomeWorker
    <2>2. refreshing' = [refreshing EXCEPT ![g] = TRUE]
      BY <1>2 DEF BecomeWorker
    <2> QED
      BY <2>1, <2>2
  <1> QED
    BY <1>1, <1>2

\* A worker that returns, or goes on without touching its locals.
LEMMA TypeLeave ==
    ASSUME TypeOK, NEW w \in Workers, NEW p \in {"take", "reacquire"},
           Return(w) \/ (wpc' = [wpc EXCEPT ![w] = p] /\ UNCHANGED <<wgen, wctx>>)
    PROVE  /\ wpc' \in [Workers -> WorkerPCs]
           /\ wgen' \in [Workers -> Gens]
           /\ wctx' \in [Workers -> {"app", "module"}]
           /\ \A v \in Workers : wpc'[v] \in {"exec", "send"} => wpc'[v] = wpc[v]
  <1> USE DEF TypeOK, WorkerPCs, Owning
  <1>1. CASE Return(w)
    BY <1>1 DEF Return
  <1>2. CASE wpc' = [wpc EXCEPT ![w] = p] /\ UNCHANGED <<wgen, wctx>>
    BY <1>2
  <1> QED
    BY <1>1, <1>2

\* No goroutine leaves a variable out of its type.
LEMMA TypeStep == TypeOK /\ [Next]_vars => TypeOK'
  <1> SUFFICES ASSUME TypeOK, [Next]_vars PROVE TypeOK'
    OBVIOUS
  <1> USE DEF flagVars, workerVars
  <1>1. CASE ChangeDir
    BY <1>1 DEF TypeOK, ChangeDir
  <1>2. CASE CommandDone
    BY <1>2 DEF TypeOK, CommandDone
  <1>3. CASE Restart
    BY <1>3 DEF TypeOK, Restart
  <1>4. CASE LoopCas
    BY <1>4, TypeBecomeWorker DEF TypeOK, LoopCas
  <1>5. CASE ApplySnapshot
    <2>1. Head(bus) \in Snapshots /\ Tail(bus) \in Seq(Snapshots) /\ Len(Tail(bus)) <= BusCap
      BY <1>5, HeadTailProperties, LenProperties DEF TypeOK, ApplySnapshot
    <2> QED
      BY <1>5, <2>1 DEF TypeOK, ApplySnapshot
  <1>6. ASSUME NEW g \in Gens, TickerFires(g) \/ TickerStore(g) PROVE TypeOK'
    BY <1>6 DEF TypeOK, TickerFires, TickerStore
  <1>7. ASSUME NEW g \in Gens, TickerCas(g) PROVE TypeOK'
    BY <1>7, TypeBecomeWorker DEF TypeOK, TickerCas
  <1>8. ASSUME NEW w \in Workers, WorkerStep(w) PROVE TypeOK'
    <2> USE DEF TypeOK, WorkerPCs, Owning
    <2>1. CASE Take(w)
      BY <2>1 DEF Take
    <2>2. CASE GiveUp(w)
      BY <2>2 DEF GiveUp, Return
    <2>3. CASE Run(w)
      BY <2>3 DEF Run, Snapshots
    <2>4. CASE RunEnds(w)
      BY <2>4 DEF RunEnds
    <2>5. CASE Clear(w)
      BY <2>5 DEF Clear
    <2>6. CASE Recheck(w)
      <3>1. UNCHANGED <<cwd, changes, gen, flagVars, lpc, tpc, wsnap, bus, value>>
        BY Zenon, <2>6 DEF Recheck
      <3>2. Return(w) \/ (wpc' = [wpc EXCEPT ![w] = "reacquire"] /\ UNCHANGED <<wgen, wctx>>)
        BY Zenon, <2>6 DEF Recheck
      <3> QED
        BY <3>1, <3>2, TypeLeave
    <2>7. CASE Reacquire(w)
      <3>1. /\ UNCHANGED <<cwd, changes, gen, pending, lpc, tpc, wsnap, bus, value>>
            /\ refreshing' \in [Gens -> BOOLEAN]
        BY <2>7 DEF Reacquire
      <3>2. Return(w) \/ (wpc' = [wpc EXCEPT ![w] = "take"] /\ UNCHANGED <<wgen, wctx>>)
        BY Zenon, <2>7 DEF Reacquire
      <3> QED
        BY <3>1, <3>2, TypeLeave
    <2> QED
      BY <1>8, <2>1, <2>2, <2>3, <2>4, <2>5, <2>6, <2>7 DEF WorkerStep
  <1>9. ASSUME NEW w \in Workers, Send(w) PROVE TypeOK'
    <2>1. bus' \in Seq(Snapshots) /\ Len(bus') <= BusCap
      <3>1. wsnap[w] \in Snapshots
        BY <1>9 DEF TypeOK, Send
      <3>2. Len(bus) \in Nat
        BY LenProperties DEF TypeOK
      <3>3. CASE bus' = bus
        BY <3>3 DEF TypeOK
      <3>4. CASE Len(bus) < BusCap /\ bus' = Append(bus, wsnap[w])
        BY <3>1, <3>2, <3>4, AppendProperties DEF TypeOK
      <3> QED
        BY <1>9, <3>3, <3>4 DEF Send, SendCtx
    <2> QED
      BY <1>9, <2>1 DEF TypeOK, Send, WorkerPCs, Owning
  <1>10. CASE UNCHANGED vars
    BY <1>10 DEF TypeOK, vars
  <1> QED
    BY <1>1, <1>2, <1>3, <1>4, <1>5, <1>6, <1>7, <1>8, <1>9, <1>10 DEF Next, LoopNext

\* Every value a variable of the model takes is of its type, and the bus never
\* holds more snapshots than its capacity (execModuleRuntime, event.Bus).
THEOREM TypeCorrect == Spec => []TypeOK
  BY TypeInit, TypeStep, PTL DEF Spec
-----------------------------------------------------------------------------
(* One owner.  A step acquires a runtime, releases one, or leaves ownership alone. *)

\* No worker exists before the first CAS.
LEMMA OwnerInit == Init => OneOwner
  BY DEF Init, OneOwner, Owners, Owning

\* The caller's CAS, or a worker's own: a free runtime gets one owner.
LEMMA OwnerAcquires ==
    ASSUME TypeOK, OneOwner, NEW w \in Workers, NEW g \in Gens,
           ~refreshing[g], wpc[w] \notin Owning,
           refreshing' = [refreshing EXCEPT ![g] = TRUE],
           wpc' = [wpc EXCEPT ![w] = "take"],
           wgen' \in [Workers -> Gens], wgen'[w] = g,
           \A v \in Workers \ {w} : wgen'[v] = wgen[v]
    PROVE  OneOwner'
  <1>1. \A v \in Workers : wgen[v] = g => wpc[v] \notin Owning
    BY DEF OneOwner, Owners
  <1>2. wpc'[w] = "take" /\ \A v \in Workers \ {w} : wpc'[v] = wpc[v]
    BY DEF TypeOK
  <1>3. refreshing'[g] /\ \A h \in Gens \ {g} : refreshing'[h] <=> refreshing[h]
    BY DEF TypeOK
  <1>4. \A u, v \in Workers :
           wgen'[u] = wgen'[v] /\ wpc'[u] \in Owning /\ wpc'[v] \in Owning => u = v
    BY <1>1, <1>2 DEF OneOwner
  <1>5. ASSUME NEW h \in Gens
        PROVE  refreshing'[h] <=> \E v \in Workers : wgen'[v] = h /\ wpc'[v] \in Owning
    <2>1. CASE h = g
      BY <1>2, <1>3, <2>1 DEF Owning
    <2>2. CASE h # g
      <3>1. refreshing[h] <=> \E v \in Workers : wgen[v] = h /\ wpc[v] \in Owning
        BY DEF OneOwner, Owners
      <3>2. \A v \in Workers : (wgen'[v] = h /\ wpc'[v] \in Owning)
                                 <=> (wgen[v] = h /\ wpc[v] \in Owning)
        BY <1>2, <2>2
      <3> QED
        BY <1>3, <2>2, <3>1, <3>2
    <2> QED
      BY <2>1, <2>2
  <1> QED
    BY <1>4, <1>5 DEF OneOwner, Owners

\* The runtimes of the other workers, when one returns or goes on.
LEMMA OthersKeepRuntime ==
    ASSUME TypeOK, NEW w \in Workers, UNCHANGED wgen \/ wgen' = [wgen EXCEPT ![w] = 1]
    PROVE  /\ wgen' \in [Workers -> Gens]
           /\ \A v \in Workers \ {w} : wgen'[v] = wgen[v]
  <1>1. wgen \in [Workers -> Gens] /\ 1 \in Gens
    BY DEF TypeOK
  <1> QED
    BY <1>1

\* A worker that owns its runtime goes on.
LEMMA OwnerGoesOn ==
    ASSUME TypeOK, OneOwner, NEW w \in Workers, NEW p \in WorkerPCs,
           wpc[w] \in Owning <=> p \in Owning,
           wpc' = [wpc EXCEPT ![w] = p], UNCHANGED refreshing,
           wgen' \in [Workers -> Gens], p \in Owning => wgen'[w] = wgen[w],
           \A v \in Workers \ {w} : wgen'[v] = wgen[v]
    PROVE  OneOwner'
  <1>1. ASSUME NEW v \in Workers
        PROVE  /\ wpc'[v] \in Owning <=> wpc[v] \in Owning
               /\ wpc[v] \in Owning => wgen'[v] = wgen[v]
    <2>1. wpc'[v] = IF v = w THEN p ELSE wpc[v]
      BY DEF TypeOK
    <2>2. CASE v = w
      BY <2>1, <2>2
    <2>3. CASE v # w
      BY <2>1, <2>3
    <2> QED
      BY <2>2, <2>3
  <1> QED
    BY <1>1 DEF OneOwner, Owners

\* A worker releases its runtime.
LEMMA OwnerReleases ==
    ASSUME TypeOK, OneOwner, NEW w \in Workers, NEW p \in WorkerPCs,
           wpc[w] \in Owning, p \notin Owning,
           wpc' = [wpc EXCEPT ![w] = p],
           refreshing' = [refreshing EXCEPT ![wgen[w]] = FALSE],
           wgen' \in [Workers -> Gens],
           \A v \in Workers \ {w} : wgen'[v] = wgen[v]
    PROVE  OneOwner'
  <1>1. /\ wpc'[w] \notin Owning
        /\ \A v \in Workers \ {w} : wpc'[v] = wpc[v] /\ wgen'[v] = wgen[v]
    BY DEF TypeOK
  <1>2. wgen[w] \in Gens
    BY DEF TypeOK
  <1>3. ~refreshing'[wgen[w]] /\ \A h \in Gens \ {wgen[w]} : refreshing'[h] <=> refreshing[h]
    BY <1>2 DEF TypeOK
  <1>4. \A u, v \in Workers :
           wgen'[u] = wgen'[v] /\ wpc'[u] \in Owning /\ wpc'[v] \in Owning => u = v
    BY <1>1 DEF OneOwner
  <1>5. ASSUME NEW h \in Gens
        PROVE  refreshing'[h] <=> \E v \in Workers : wgen'[v] = h /\ wpc'[v] \in Owning
    <2>1. CASE h = wgen[w]
      <3>1. \A v \in Workers \ {w} : ~(wgen[v] = h /\ wpc[v] \in Owning)
        BY <2>1 DEF OneOwner
      <3> QED
        BY <1>1, <1>3, <2>1, <3>1
    <2>2. CASE h # wgen[w]
      <3>1. refreshing[h] <=> \E v \in Workers : wgen[v] = h /\ wpc[v] \in Owning
        BY DEF OneOwner, Owners
      <3>2. \A v \in Workers : (wgen'[v] = h /\ wpc'[v] \in Owning)
                                 <=> (wgen[v] = h /\ wpc[v] \in Owning)
        BY <1>1, <2>2
      <3> QED
        BY <1>3, <2>2, <3>1, <3>2
    <2> QED
      BY <2>1, <2>2
  <1> QED
    BY <1>4, <1>5 DEF OneOwner, Owners

\* The caller's CAS starts a worker only where no other owns the runtime.
LEMMA OwnerBecomeWorker ==
    ASSUME TypeOK, OneOwner, NEW g \in Gens, NEW context, BecomeWorker(g, context)
    PROVE  OneOwner'
  <1>1. CASE refreshing[g]
    <2>1. UNCHANGED <<refreshing, wpc, wgen>>
      BY Zenon, <1>1 DEF BecomeWorker
    <2> QED
      BY <2>1 DEF OneOwner, Owners
  <1>2. CASE ~refreshing[g]
    <2>1. PICK w \in Workers : /\ wpc[w] = "none"
                               /\ wpc' = [wpc EXCEPT ![w] = "take"]
                               /\ wgen' = [wgen EXCEPT ![w] = g]
      BY <1>2 DEF BecomeWorker
    <2>2. refreshing' = [refreshing EXCEPT ![g] = TRUE]
      BY <1>2 DEF BecomeWorker
    <2>3. /\ wgen' \in [Workers -> Gens] /\ wgen'[w] = g
          /\ \A v \in Workers \ {w} : wgen'[v] = wgen[v]
      BY <2>1 DEF TypeOK
    <2>4. wpc[w] \notin Owning
      BY <2>1 DEF Owning
    <2> QED
      BY <1>2, <2>1, <2>2, <2>3, <2>4, OwnerAcquires
  <1> QED
    BY <1>1, <1>2

\* No step gives a runtime a second owner or forgets the one it has.
LEMMA OwnerStep == TypeOK /\ OneOwner /\ [Next]_vars => OneOwner'
  <1> SUFFICES ASSUME TypeOK, OneOwner, [Next]_vars PROVE OneOwner'
    OBVIOUS
  <1> USE DEF flagVars, workerVars
  <1>1. CASE ChangeDir \/ CommandDone \/ Restart \/ ApplySnapshot \/ UNCHANGED vars
             \/ \E g \in Gens : TickerFires(g) \/ TickerStore(g)
    <2>1. UNCHANGED <<refreshing, wpc, wgen>>
      BY Zenon, <1>1 DEF ChangeDir, CommandDone, Restart, ApplySnapshot, TickerFires, TickerStore, vars
    <2> QED
      BY <2>1 DEF OneOwner, Owners
  <1>2. CASE LoopCas
    BY <1>2, OwnerBecomeWorker DEF LoopCas, TypeOK
  <1>3. ASSUME NEW g \in Gens, TickerCas(g) PROVE OneOwner'
    BY <1>3, OwnerBecomeWorker DEF TickerCas
  <1>4. ASSUME NEW w \in Workers, Take(w) \/ Run(w) \/ RunEnds(w) \/ Send(w) PROVE OneOwner'
    <2>1. \E p \in Owning : wpc[w] \in Owning /\ wpc' = [wpc EXCEPT ![w] = p]
      BY <1>4 DEF Take, Run, RunEnds, Send, Owning
    <2>2. UNCHANGED <<refreshing, wgen>>
      BY Zenon, <1>4 DEF Take, Run, RunEnds, Send
    <2> QED
      BY <2>1, <2>2, OwnerGoesOn DEF TypeOK, WorkerPCs
  <1>5. ASSUME NEW w \in Workers, GiveUp(w) \/ Clear(w) PROVE OneOwner'
    <2>1. \E p \in WorkerPCs \ Owning : wpc' = [wpc EXCEPT ![w] = p]
      BY <1>5 DEF GiveUp, Clear, Return, WorkerPCs, Owning
    <2>2. wpc[w] \in Owning
      BY <1>5 DEF GiveUp, Clear, Owning
    <2>3. refreshing' = [refreshing EXCEPT ![wgen[w]] = FALSE]
      BY Zenon, <1>5 DEF GiveUp, Clear
    <2>4. /\ wgen' \in [Workers -> Gens]
          /\ \A v \in Workers \ {w} : wgen'[v] = wgen[v]
      <3>1. UNCHANGED wgen \/ wgen' = [wgen EXCEPT ![w] = 1]
        BY Zenon, <1>5 DEF GiveUp, Clear, Return
      <3> QED
        BY <3>1, OthersKeepRuntime
    <2> QED
      BY <2>1, <2>2, <2>3, <2>4, OwnerReleases
  <1>6. ASSUME NEW w \in Workers, Recheck(w) \/ (Reacquire(w) /\ refreshing[wgen[w]])
        PROVE  OneOwner'
    <2>1. Return(w) \/ (wpc' = [wpc EXCEPT ![w] = "reacquire"] /\ UNCHANGED wgen)
      BY Zenon, <1>6 DEF Recheck, Reacquire
    <2>2. UNCHANGED refreshing
      BY Zenon, <1>6 DEF Recheck, Reacquire
    <2>3. wpc[w] \notin Owning
      BY <1>6 DEF Recheck, Reacquire, Owning
    <2>4. /\ wgen' \in [Workers -> Gens]
          /\ \A v \in Workers \ {w} : wgen'[v] = wgen[v]
      <3>1. UNCHANGED wgen \/ wgen' = [wgen EXCEPT ![w] = 1]
        BY Zenon, <2>1 DEF Return
      <3> QED
        BY <3>1, OthersKeepRuntime
    <2>5. \E p \in WorkerPCs \ Owning : wpc' = [wpc EXCEPT ![w] = p]
      BY <2>1 DEF Return, WorkerPCs, Owning
    <2> QED
      BY <2>2, <2>3, <2>4, <2>5, OwnerGoesOn
  <1>7. ASSUME NEW w \in Workers, Reacquire(w), ~refreshing[wgen[w]] PROVE OneOwner'
    <2>1. /\ refreshing' = [refreshing EXCEPT ![wgen[w]] = TRUE]
          /\ wpc' = [wpc EXCEPT ![w] = "take"]
          /\ UNCHANGED wgen
      BY Zenon, <1>7 DEF Reacquire
    <2>2. wpc[w] \notin Owning
      BY <1>7 DEF Reacquire, Owning
    <2>3. wgen[w] \in Gens /\ wgen \in [Workers -> Gens]
      BY DEF TypeOK
    <2> QED
      BY <1>7, <2>1, <2>2, <2>3, OwnerAcquires
  <1> QED
    BY <1>1, <1>2, <1>3, <1>4, <1>5, <1>6, <1>7 DEF Next, LoopNext, WorkerStep

\* However the loop, the tickers and a worker that is just going away interleave,
\* a runtime has one worker exactly while its refreshing flag is set: its command
\* never runs twice at the same time (execModuleRuntime.refresh).
THEOREM OneOwnerAlways == Spec => []OneOwner
  BY TypeInit, TypeStep, OwnerInit, OwnerStep, PTL DEF Spec
-----------------------------------------------------------------------------
(* No lost wakeup. *)

Busy == Owning \cup {"recheck", "reacquire"}

\* Everybody who would have noticed the request is still there.
LEMMA WitnessStays ==
    ASSUME RequestIsSeen, UNCHANGED <<gen, lpc, tpc>>, pending'[gen] => pending[gen],
           \A v \in Workers : wgen[v] = gen /\ wpc[v] \in Busy
                               => wgen'[v] = gen /\ wpc'[v] \in Busy
    PROVE  RequestIsSeen'
  BY DEF RequestIsSeen, Busy

\* The worker that owns the runtime will look at the flag.
LEMMA OwnerSees ==
    ASSUME OneOwner', gen' \in Gens, refreshing'[gen']
    PROVE  RequestIsSeen'
  <1>1. \E v \in Workers : wgen'[v] = gen' /\ wpc'[v] \in Owning
    BY DEF OneOwner, Owners
  <1> QED
    BY <1>1 DEF RequestIsSeen

\* After the caller's CAS the runtime is owned, and no other worker has moved.
LEMMA CasLeavesOwner ==
    ASSUME TypeOK, NEW g \in Gens, NEW context, BecomeWorker(g, context)
    PROVE  /\ refreshing'[g]
           /\ \A v \in Workers : wpc[v] \in Busy => wgen'[v] = wgen[v] /\ wpc'[v] = wpc[v]
  <1>1. CASE refreshing[g]
    <2>1. UNCHANGED <<refreshing, wpc, wgen>>
      BY Zenon, <1>1 DEF BecomeWorker
    <2> QED
      BY <1>1, <2>1
  <1>2. CASE ~refreshing[g]
    <2>1. PICK w \in Workers : /\ wpc[w] = "none"
                               /\ wpc' = [wpc EXCEPT ![w] = "take"]
                               /\ wgen' = [wgen EXCEPT ![w] = g]
      BY <1>2 DEF BecomeWorker
    <2>2. refreshing' = [refreshing EXCEPT ![g] = TRUE]
      BY <1>2 DEF BecomeWorker
    <2> QED
      BY <2>1, <2>2 DEF TypeOK, Busy, Owning
  <1> QED
    BY <1>1, <1>2

\* No step takes the last one who would notice a request away.
LEMMA SeenStep == TypeOK /\ OneOwner /\ RequestIsSeen /\ [Next]_vars => RequestIsSeen'
  <1> SUFFICES ASSUME TypeOK, OneOwner, RequestIsSeen, [Next]_vars PROVE RequestIsSeen'
    OBVIOUS
  <1> USE DEF flagVars, workerVars
  <1>0. OneOwner' /\ TypeOK'
    BY OwnerStep, TypeStep
  <1>1. CASE ChangeDir \/ CommandDone \/ Restart
    <2>1. lpc' # "idle"
      BY <1>1 DEF ChangeDir, CommandDone, Restart
    <2> QED
      BY <2>1 DEF RequestIsSeen
  <1>2. CASE LoopCas
    <2>1. refreshing'[gen] /\ gen' = gen
      BY <1>2, CasLeavesOwner DEF LoopCas, TypeOK
    <2> QED
      BY <1>0, <2>1, OwnerSees DEF TypeOK
  <1>3. CASE ApplySnapshot \/ UNCHANGED vars
    <2>1. UNCHANGED <<gen, lpc, tpc, pending, wgen, wpc>>
      BY Zenon, <1>3 DEF ApplySnapshot, vars
    <2> QED
      BY <2>1, WitnessStays
  <1>4. ASSUME NEW g \in Gens, TickerFires(g) \/ TickerStore(g) PROVE RequestIsSeen'
    <2>1. CASE TickerFires(g)
      <3>1. UNCHANGED <<gen, lpc, pending, wgen, wpc>>
        BY Zenon, <2>1 DEF TickerFires
      <3>2. tpc[gen] = "cas" => tpc'[gen] = "cas"
        BY <2>1 DEF TickerFires, TypeOK
      <3> QED
        BY <3>1, <3>2 DEF RequestIsSeen
    <2>2. CASE TickerStore(g)
      BY <2>2 DEF TickerStore, RequestIsSeen, TypeOK
    <2> QED
      BY <1>4, <2>1, <2>2
  <1>5. ASSUME NEW g \in Gens, TickerCas(g) PROVE RequestIsSeen'
    <2>1. refreshing'[g] /\ UNCHANGED <<gen, lpc, pending>>
      BY <1>5, CasLeavesOwner DEF TickerCas
    <2>2. CASE g = gen
      BY <1>0, <2>1, <2>2, OwnerSees DEF TypeOK
    <2>3. CASE g # gen
      <3>1. tpc'[gen] = tpc[gen]
        BY <1>5, <2>3 DEF TickerCas, TypeOK
      <3>2. \A v \in Workers : wpc[v] \in Busy => wgen'[v] = wgen[v] /\ wpc'[v] = wpc[v]
        BY <1>5, CasLeavesOwner DEF TickerCas
      <3> QED
        BY <2>1, <3>1, <3>2 DEF RequestIsSeen, Busy
    <2> QED
      BY <2>2, <2>3
  <1>6. ASSUME NEW w \in Workers, Take(w) \/ Run(w) \/ RunEnds(w) \/ Send(w) \/ Clear(w)
        PROVE  RequestIsSeen'
    <2>1. UNCHANGED <<gen, lpc, tpc, wgen>>
      BY Zenon, <1>6 DEF Take, Run, RunEnds, Send, Clear
    <2>2. pending' = pending \/ pending' = [pending EXCEPT ![wgen[w]] = FALSE]
      BY Zenon, <1>6 DEF Take, Run, RunEnds, Send, Clear
    <2>3. pending'[gen] => pending[gen]
      BY <2>2 DEF TypeOK
    <2>4. \E p \in Busy : wpc' = [wpc EXCEPT ![w] = p]
      BY <1>6 DEF Take, Run, RunEnds, Send, Clear, Busy, Owning
    <2>5. \A v \in Workers : wpc[v] \in Busy => wpc'[v] \in Busy
      BY <2>4 DEF TypeOK
    <2> QED
      BY <2>1, <2>3, <2>5, WitnessStays
  <1>7. ASSUME NEW w \in Workers, GiveUp(w) PROVE RequestIsSeen'
    <2>1. wgen[w] # gen
      BY <1>7 DEF GiveUp, Cancelled, TypeOK
    <2>2. UNCHANGED <<gen, lpc, tpc, pending>>
      BY <1>7 DEF GiveUp
    <2>3. \A v \in Workers \ {w} : wgen'[v] = wgen[v] /\ wpc'[v] = wpc[v]
      BY <1>7 DEF GiveUp, Return, TypeOK
    <2> QED
      BY <2>1, <2>2, <2>3, WitnessStays
  <1>8. ASSUME NEW w \in Workers, Recheck(w) PROVE RequestIsSeen'
    <2>1. UNCHANGED <<gen, lpc, tpc, pending>>
      BY <1>8 DEF Recheck
    <2>2. CASE pending[wgen[w]]
      <3>1. wpc' = [wpc EXCEPT ![w] = "reacquire"] /\ UNCHANGED wgen
        BY Zenon, <1>8, <2>2 DEF Recheck
      <3>2. \A v \in Workers : wpc[v] \in Busy => wpc'[v] \in Busy
        BY <3>1 DEF TypeOK, Busy
      <3> QED
        BY <2>1, <3>1, <3>2, WitnessStays
    <2>3. CASE ~pending[wgen[w]]
      <3>1. Return(w)
        BY Zenon, <1>8, <2>3 DEF Recheck
      <3>2. \A v \in Workers \ {w} : wgen'[v] = wgen[v] /\ wpc'[v] = wpc[v]
        BY <3>1 DEF Return, TypeOK
      <3> QED
        BY <2>1, <2>3, <3>2 DEF RequestIsSeen
    <2> QED
      BY <2>2, <2>3
  <1>9. ASSUME NEW w \in Workers, Reacquire(w) PROVE RequestIsSeen'
    <2>1. UNCHANGED <<gen, lpc, tpc, pending>>
      BY Zenon, <1>9 DEF Reacquire
    <2>2. CASE wgen[w] = gen
      <3>1. (refreshing' = refreshing /\ refreshing[wgen[w]])
            \/ refreshing' = [refreshing EXCEPT ![wgen[w]] = TRUE]
        BY Zenon, <1>9 DEF Reacquire
      <3>2. refreshing'[gen]
        BY <2>2, <3>1 DEF TypeOK
      <3> QED
        BY <1>0, <2>1, <3>2, OwnerSees DEF TypeOK
    <2>3. CASE wgen[w] # gen
      <3>1. Return(w) \/ (wpc' = [wpc EXCEPT ![w] = "take"] /\ UNCHANGED wgen)
        BY Zenon, <1>9 DEF Reacquire
      <3>2. \A v \in Workers \ {w} : wgen'[v] = wgen[v] /\ wpc'[v] = wpc[v]
        BY <3>1 DEF Return, TypeOK
      <3> QED
        BY <2>1, <2>3, <3>2, WitnessStays
    <2> QED
      BY <2>2, <2>3
  <1> QED
    BY <1>1, <1>2, <1>3, <1>4, <1>5, <1>6, <1>7, <1>8, <1>9 DEF Next, LoopNext, WorkerStep

\* A request stored while a worker is on its way out is not lost: somebody looks
\* at the flag after it was stored (execModuleRuntime.refresh, the recheck).
THEOREM RequestIsAlwaysSeen == Spec => []RequestIsSeen
  <1>1. Init => RequestIsSeen
    BY DEF Init, RequestIsSeen
  <1> QED
    BY <1>1, TypeInit, TypeStep, OwnerInit, OwnerStep, SeenStep, PTL DEF Spec
-----------------------------------------------------------------------------
(* What stays in the bar. *)

\* A step that reads nothing, sends nothing and takes no request of the current
\* runtime's changes nothing of what is on its way.
LEMMA NothingRead ==
    ASSUME SnapshotsAreOwn, ReadIsCurrent, LastSentIsCurrent,
           UNCHANGED <<cwd, gen, wsnap, bus, value>>, pending[gen] => pending'[gen],
           \A v \in Workers :
               /\ HasRead(v)' => HasRead(v) /\ wgen'[v] = wgen[v]
               /\ wgen[v] = gen /\ HasRead(v) => HasRead(v)' /\ wgen'[v] = gen
               /\ wgen[v] = gen /\ wpc[v] = "check" => wpc'[v] = "check" /\ wgen'[v] = gen
    PROVE  SnapshotsAreOwn' /\ ReadIsCurrent' /\ LastSentIsCurrent'
  <1>1. SnapshotsAreOwn'
    BY DEF SnapshotsAreOwn
  <1>2. ReadIsCurrent'
    BY DEF ReadIsCurrent, Current
  <1>3. LastSentIsCurrent'
    <2>1. CurrentIsLast => CurrentIsLast'
      BY DEF CurrentIsLast, Current
    <2>2. ReadIsDue => ReadIsDue'
      BY DEF ReadIsDue
    <2>3. (\E w \in Workers : wgen[w] = gen /\ HasRead(w))
            => \E w \in Workers : wgen'[w] = gen' /\ HasRead(w)'
      OBVIOUS
    <2> QED
      BY <2>1, <2>2, <2>3 DEF LastSentIsCurrent
  <1> QED
    BY <1>1, <1>2, <1>3

\* Sending puts a snapshot behind all others.
LEMMA SentIsLast ==
    ASSUME TypeOK, NEW s \in Snapshots, bus' = Append(bus, s), UNCHANGED <<cwd, gen, value>>
    PROVE  /\ s = Current => CurrentIsLast'
           /\ s.gen # gen /\ CurrentIsLast => CurrentIsLast'
  <1>1. bus \in Seq(Snapshots)
    BY DEF TypeOK
  <1>2. /\ Len(bus) \in Nat /\ Len(bus') = Len(bus) + 1 /\ bus'[Len(bus) + 1] = s
        /\ \A i \in 1..Len(bus) : bus'[i] = bus[i]
    BY <1>1, AppendProperties, LenProperties
  <1>3. ASSUME s = Current PROVE CurrentIsLast'
    <2>1. Len(bus) + 1 \in 1..Len(bus') /\ bus'[Len(bus) + 1] = Current'
      BY <1>2, <1>3 DEF Current
    <2>2. \A j \in (Len(bus) + 1) + 1..Len(bus') : FALSE
      BY <1>2
    <2> QED
      BY <2>1, <2>2 DEF CurrentIsLast
  <1>4. ASSUME s.gen # gen, CurrentIsLast PROVE CurrentIsLast'
    <2>1. \A j \in 1..Len(bus') : j \in 1..Len(bus) \/ bus'[j].gen # gen
      BY <1>2, <1>4
    <2>2. CASE \E i \in 1..Len(bus) : bus[i] = Current /\ \A j \in i+1..Len(bus) : bus[j].gen # gen
      <3>1. PICK i \in 1..Len(bus) : bus[i] = Current /\ \A j \in i+1..Len(bus) : bus[j].gen # gen
        BY <2>2
      <3>2. i \in 1..Len(bus') /\ bus'[i] = Current'
        BY <1>2, <3>1 DEF Current
      <3>3. \A j \in i+1..Len(bus') : bus'[j].gen # gen
        BY <1>2, <2>1, <3>1
      <3> QED
        BY <3>2, <3>3 DEF CurrentIsLast
    <2>3. CASE /\ \A j \in 1..Len(bus) : bus[j].gen # gen
               /\ value # <<>> /\ (value.gen = gen => value.dir = cwd)
      BY <1>2, <2>1, <2>3 DEF CurrentIsLast
    <2> QED
      BY <1>4, <2>2, <2>3 DEF CurrentIsLast
  <1> QED
    BY <1>3, <1>4

\* Applying takes the first.
LEMMA AppliedIsFirst ==
    ASSUME TypeOK, CurrentIsLast, ApplySnapshot
    PROVE  CurrentIsLast'
  <1>1. /\ bus \in Seq(Snapshots) /\ bus # <<>>
        /\ value' = Head(bus) /\ bus' = Tail(bus) /\ UNCHANGED <<cwd, gen>>
    BY DEF TypeOK, ApplySnapshot
  <1>2. /\ Len(bus) \in Nat \ {0} /\ Len(bus') = Len(bus) - 1 /\ value' = bus[1]
        /\ \A i \in 1..Len(bus') : bus'[i] = bus[i + 1]
    BY <1>1, HeadTailProperties, LenProperties, EmptySeq
  <1>3. value' \in Snapshots
    BY <1>1, HeadTailProperties
  <1>4. value' # <<>>
    BY <1>3 DEF Snapshots
  <1>5. CASE \A j \in 1..Len(bus) : bus[j].gen # gen
    BY <1>1, <1>2, <1>4, <1>5 DEF CurrentIsLast
  <1>6. CASE \E i \in 1..Len(bus) : bus[i] = Current /\ \A j \in i+1..Len(bus) : bus[j].gen # gen
    <2>1. PICK i \in 1..Len(bus) : bus[i] = Current /\ \A j \in i+1..Len(bus) : bus[j].gen # gen
      BY <1>6
    <2>2. CASE i = 1
      <3>1. \A j \in 1..Len(bus') : bus'[j].gen # gen
        BY <1>2, <2>1, <2>2
      <3>2. value'.dir = cwd
        BY <1>2, <2>1, <2>2 DEF Current
      <3> QED
        BY <1>1, <1>4, <3>1, <3>2 DEF CurrentIsLast
    <2>3. CASE i # 1
      <3>1. i - 1 \in 1..Len(bus') /\ bus'[i - 1] = Current
        BY <1>2, <2>1, <2>3
      <3>2. \A j \in (i - 1)+1..Len(bus') : bus'[j].gen # gen
        BY <1>2, <2>1
      <3>3. Current' = Current /\ gen' = gen
        BY <1>1 DEF Current
      <3> QED
        BY <3>1, <3>2, <3>3 DEF CurrentIsLast
    <2> QED
      BY <2>2, <2>3
  <1> QED
    BY <1>5, <1>6 DEF CurrentIsLast

\* No step leaves an older directory of the current runtime behind the newest.
LEMMA CurrentStep ==
    ASSUME TypeOK, OneOwner, SnapshotsAreOwn, ReadIsCurrent, LastSentIsCurrent, [Next]_vars
    PROVE  SnapshotsAreOwn' /\ ReadIsCurrent' /\ LastSentIsCurrent'
  <1> USE DEF flagVars, workerVars
  <1>1. CASE ChangeDir \/ Restart
    <2>1. pending'[gen'] /\ UNCHANGED workerVars
      BY <1>1 DEF ChangeDir, Restart, TypeOK
    <2>2. SnapshotsAreOwn'
      BY <2>1 DEF SnapshotsAreOwn, HasRead
    <2> QED
      BY <2>1, <2>2 DEF ReadIsCurrent, LastSentIsCurrent, ReadIsDue
  <1>2. CASE CommandDone
    BY <1>2, NothingRead DEF CommandDone, TypeOK, HasRead
  <1>3. CASE LoopCas \/ \E g \in Gens : TickerCas(g)
    <2>1. UNCHANGED <<cwd, gen, pending, wsnap, bus, value>>
      BY <1>3 DEF LoopCas, TickerCas
    <2>2. PICK g \in Gens, context \in {"app", "module"} : BecomeWorker(g, context)
      BY <1>3 DEF LoopCas, TickerCas, TypeOK
    <2>3. \A v \in Workers : wpc[v] \in Busy => wgen'[v] = wgen[v] /\ wpc'[v] = wpc[v]
      BY <2>2, CasLeavesOwner
    <2>4. \A v \in Workers : wpc'[v] \in {"exec", "send"} => wpc'[v] = wpc[v]
      BY <2>2, TypeBecomeWorker
    <2> QED
      BY <2>1, <2>3, <2>4, NothingRead DEF HasRead, Busy, Owning
  <1>4. CASE ApplySnapshot
    <2>1. UNCHANGED <<cwd, gen, pending, workerVars>>
      BY <1>4 DEF ApplySnapshot
    <2>2. SnapshotsAreOwn' /\ ReadIsCurrent'
      BY <2>1 DEF SnapshotsAreOwn, ReadIsCurrent, HasRead, Current
    <2>3. LastSentIsCurrent'
      BY <1>4, <2>1, AppliedIsFirst DEF LastSentIsCurrent, ReadIsDue, HasRead
    <2> QED
      BY <2>2, <2>3
  <1>5. ASSUME NEW g \in Gens, TickerFires(g) \/ TickerStore(g)
        PROVE  SnapshotsAreOwn' /\ ReadIsCurrent' /\ LastSentIsCurrent'
    BY <1>5, NothingRead DEF TickerFires, TickerStore, TypeOK, HasRead
  <1>6. ASSUME NEW w \in Workers, Take(w)
        PROVE  SnapshotsAreOwn' /\ ReadIsCurrent' /\ LastSentIsCurrent'
    <2>1. /\ wpc[w] = "take" /\ UNCHANGED <<cwd, gen, wgen, wsnap, bus, value>>
          /\ wpc' = [wpc EXCEPT ![w] = IF pending[wgen[w]] THEN "check" ELSE "clear"]
          /\ pending' = [pending EXCEPT ![wgen[w]] = FALSE]
      BY <1>6 DEF Take
    <2>2. \A v \in Workers : HasRead(v)' <=> HasRead(v)
      BY <2>1 DEF HasRead, TypeOK
    <2>3. CASE wgen[w] = gen /\ pending[gen]
      <3>1. wpc'[w] = "check"
        BY <2>1, <2>3 DEF TypeOK
      <3>2. \A v \in Workers : wgen[v] = gen => ~HasRead(v)
        BY <2>1, <2>3 DEF OneOwner, Owning, HasRead
      <3>3. SnapshotsAreOwn'
        BY <2>1, <2>2 DEF SnapshotsAreOwn
      <3>4. ReadIsCurrent'
        BY <2>1, <2>2, <3>2 DEF ReadIsCurrent
      <3>5. ReadIsDue'
        BY <2>1, <2>3, <3>1 DEF ReadIsDue
      <3> QED
        BY <3>3, <3>4, <3>5 DEF LastSentIsCurrent
    <2>4. CASE ~(wgen[w] = gen /\ pending[gen])
      <3>1. pending[gen] => pending'[gen]
        BY <2>1, <2>4 DEF TypeOK
      <3>2. \A v \in Workers : wpc[v] = "check" => wpc'[v] = "check"
        BY <2>1 DEF TypeOK
      <3> QED
        BY <2>1, <2>2, <3>1, <3>2, NothingRead
    <2> QED
      BY <2>3, <2>4
  <1>7. ASSUME NEW w \in Workers, Run(w)
        PROVE  SnapshotsAreOwn' /\ ReadIsCurrent' /\ LastSentIsCurrent'
    <2>1. /\ UNCHANGED <<cwd, gen, pending, wgen, bus, value>>
          /\ wsnap'[w] = [gen |-> wgen[w], dir |-> cwd] /\ wpc'[w] = "exec"
          /\ \A v \in Workers \ {w} : wsnap'[v] = wsnap[v] /\ wpc'[v] = wpc[v]
      BY <1>7 DEF Run, TypeOK
    <2>2. SnapshotsAreOwn'
      BY <2>1 DEF SnapshotsAreOwn, HasRead
    <2>3. ReadIsCurrent'
      BY <2>1 DEF ReadIsCurrent, HasRead, Current
    <2>4. CASE wgen[w] = gen
      BY <2>1, <2>2, <2>3, <2>4 DEF LastSentIsCurrent, HasRead
    <2>5. CASE wgen[w] # gen
      <3>1. ReadIsDue => ReadIsDue'
        BY <2>1, <2>5 DEF ReadIsDue
      <3>2. \A v \in Workers : wgen[v] = gen => (HasRead(v)' <=> HasRead(v))
        BY <2>1, <2>5 DEF HasRead
      <3>3. CurrentIsLast => CurrentIsLast'
        BY <2>1 DEF CurrentIsLast, Current
      <3> QED
        BY <2>1, <2>2, <2>3, <3>1, <3>2, <3>3 DEF LastSentIsCurrent
    <2> QED
      BY <2>4, <2>5
  <1>8. ASSUME NEW w \in Workers, RunEnds(w) \/ Clear(w)
        PROVE  SnapshotsAreOwn' /\ ReadIsCurrent' /\ LastSentIsCurrent'
    <2>1. UNCHANGED <<cwd, gen, pending, wgen, wsnap, bus, value>>
      BY Zenon, <1>8 DEF RunEnds, Clear
    <2>2. \A v \in Workers : (HasRead(v)' <=> HasRead(v)) /\ (wpc[v] = "check" => wpc'[v] = "check")
      BY <1>8 DEF RunEnds, Clear, HasRead, TypeOK
    <2> QED
      BY <2>1, <2>2, NothingRead
  <1>9. ASSUME NEW w \in Workers, GiveUp(w) \/ Recheck(w) \/ Reacquire(w)
        PROVE  SnapshotsAreOwn' /\ ReadIsCurrent' /\ LastSentIsCurrent'
    <2>1. UNCHANGED <<cwd, gen, pending, wsnap, bus, value>>
      BY Zenon, <1>9 DEF GiveUp, Recheck, Reacquire
    <2>2. ~HasRead(w) /\ ~HasRead(w)' /\ (wgen[w] = gen => wpc[w] # "check")
      BY <1>9 DEF GiveUp, Recheck, Reacquire, Return, Cancelled, HasRead, TypeOK
    <2>3. \A v \in Workers \ {w} : wgen'[v] = wgen[v] /\ wpc'[v] = wpc[v]
      BY <1>9 DEF GiveUp, Recheck, Reacquire, Return, TypeOK
    <2> QED
      BY <2>1, <2>2, <2>3, NothingRead DEF HasRead
  <1>10. ASSUME NEW w \in Workers, Send(w)
         PROVE  SnapshotsAreOwn' /\ ReadIsCurrent' /\ LastSentIsCurrent'
    <2>1. /\ UNCHANGED <<cwd, gen, pending, wgen, value>>
          /\ wpc[w] = "send" /\ wpc'[w] = "take"
          /\ \A v \in Workers \ {w} : wsnap'[v] = wsnap[v] /\ wpc'[v] = wpc[v]
      BY <1>10 DEF Send, TypeOK
    <2>2. SnapshotsAreOwn' /\ ReadIsCurrent'
      BY <2>1 DEF SnapshotsAreOwn, ReadIsCurrent, HasRead, Current
    <2>3. bus' = Append(bus, wsnap[w]) \/ (Cancelled(w) /\ UNCHANGED bus)
      BY <1>10 DEF Send, SendCtx
    <2>4. HasRead(w) /\ wsnap[w] \in Snapshots /\ wsnap[w].gen = wgen[w]
      BY <2>1 DEF HasRead, SnapshotsAreOwn, TypeOK
    <2>5. ReadIsDue' = ReadIsDue
      BY <2>1 DEF ReadIsDue
    <2>6. CASE wgen[w] = gen
      <3>1. bus' = Append(bus, wsnap[w])
        BY <2>3, <2>6 DEF Cancelled, TypeOK
      <3>2. ~ReadIsDue => wsnap[w] = Current
        BY <2>4, <2>6 DEF ReadIsDue, ReadIsCurrent
      <3>3. ~ReadIsDue => CurrentIsLast'
        BY <2>1, <2>4, <3>1, <3>2, SentIsLast
      <3> QED
        BY <2>2, <2>5, <3>3 DEF LastSentIsCurrent
    <2>7. CASE wgen[w] # gen
      <3>1. CurrentIsLast => CurrentIsLast'
        <4>1. CASE bus' = Append(bus, wsnap[w])
          BY <2>1, <2>4, <2>7, <4>1, SentIsLast
        <4>2. CASE UNCHANGED bus
          BY <2>1, <4>2 DEF CurrentIsLast, Current
        <4> QED
          BY <2>3, <4>1, <4>2
      <3>2. \A v \in Workers : wgen[v] = gen => (HasRead(v)' <=> HasRead(v))
        BY <2>1, <2>7 DEF HasRead
      <3> QED
        BY <2>1, <2>2, <2>5, <3>1, <3>2 DEF LastSentIsCurrent
    <2> QED
      BY <2>6, <2>7
  <1>11. CASE UNCHANGED vars
    BY <1>11, NothingRead DEF vars, HasRead
  <1> QED
    BY <1>1, <1>2, <1>3, <1>4, <1>5, <1>6, <1>7, <1>8, <1>9, <1>10, <1>11
       DEF Next, LoopNext, WorkerStep

\* The inductive invariant: one owner, no lost request, and nothing of the
\* current runtime's behind what it read last.
THEOREM Invariant == Spec => [](TypeOK /\ IInv)
  <1>1. Init => TypeOK /\ IInv
    <2> SUFFICES ASSUME Init PROVE TypeOK /\ IInv
      OBVIOUS
    <2>1. RequestIsSeen
      BY DEF Init, RequestIsSeen
    <2>2. SnapshotsAreOwn /\ ReadIsCurrent /\ ReadIsDue
      <3>1. pending[gen]
        <4>1. gen \in Gens /\ gen = 1 /\ pending = [g \in Gens |-> g = 1]
          BY DEF Init
        <4>2. pending[gen] = (gen = 1)
          BY <4>1
        <4> QED
          BY <4>1, <4>2
      <3>2. \A w \in Workers : ~HasRead(w)
        BY DEF Init, HasRead
      <3> QED
        BY <3>1, <3>2 DEF SnapshotsAreOwn, ReadIsCurrent, ReadIsDue
    <2> QED
      BY TypeInit, OwnerInit, <2>1, <2>2 DEF IInv, LastSentIsCurrent
  <1>2. TypeOK /\ IInv /\ [Next]_vars => TypeOK' /\ IInv'
    BY TypeStep, OwnerStep, SeenStep, CurrentStep DEF IInv
  <1> QED
    BY <1>1, <1>2, PTL DEF Spec

\* When everything has come to rest, the bar shows what the module found in the
\* directory the shell is in now, or what a runtime replaced since found.
THEOREM FinalSnapshotStaysCurrent == Spec => []FinalSnapshotIsCurrent
  <1>1. TypeOK /\ IInv => FinalSnapshotIsCurrent
    <2> SUFFICES ASSUME TypeOK, IInv, Quiet
                 PROVE  value # <<>> /\ (value.gen = gen => value.dir = cwd)
      BY DEF FinalSnapshotIsCurrent
    <2>1. \A w \in Workers : wpc[w] = "none"
      BY DEF Quiet
    <2>2. ~pending[gen]
      BY <2>1 DEF IInv, RequestIsSeen, Quiet, Owning, TypeOK
    <2>3. CurrentIsLast
      BY <2>1, <2>2 DEF IInv, LastSentIsCurrent, ReadIsDue, HasRead
    <2>4. Len(bus) = 0
      BY EmptySeq DEF Quiet
    <2> QED
      BY <2>3, <2>4 DEF CurrentIsLast
  <1> QED
    BY <1>1, Invariant, PTL
-----------------------------------------------------------------------------
(* The promise. *)

Active == {"check", "exec", "send"}

\* What a step does to the workers that are refreshing decides what it is in
\* the terms of the promise: nothing, ...
LEMMA RunningStays ==
    ASSUME \A v \in Workers : (wpc'[v] \in Active <=> wpc[v] \in Active)
                               /\ (wpc[v] \in Active => wgen'[v] = wgen[v])
    PROVE  [g \in Gens |-> Running(g)]' = [g \in Gens |-> Running(g)]
  <1>1. \A g \in Gens : Running(g)' = Running(g)
    <2>1. ASSUME NEW g \in Gens PROVE Running(g)' <=> Running(g)
      BY DEF Running, Active
    <2>2. ASSUME NEW g \in Gens PROVE Running(g) \in BOOLEAN /\ Running(g)' \in BOOLEAN
      BY Zenon DEF Running
    <2> QED
      BY <2>1, <2>2
  <1> QED
    BY <1>1

\* ... a refresh begins, ...
LEMMA RunningBegins ==
    ASSUME TypeOK, NEW w \in Workers, wpc'[w] \in Active, UNCHANGED wgen,
           \A v \in Workers \ {w} : wpc'[v] = wpc[v]
    PROVE  [g \in Gens |-> Running(g)]'
              = [[g \in Gens |-> Running(g)] EXCEPT ![wgen[w]] = TRUE]
  <1>1. ASSUME NEW g \in Gens PROVE Running(g)' = IF g = wgen[w] THEN TRUE ELSE Running(g)
    <2>1. Running(g)' <=> (g = wgen[w] \/ Running(g))
      BY DEF Running, Active
    <2>2. Running(g) \in BOOLEAN /\ Running(g)' \in BOOLEAN
      BY Zenon DEF Running
    <2> QED
      BY <2>1, <2>2
  <1> QED
    BY <1>1

\* ... or a refresh is finished: by the one worker that owned the runtime.
LEMMA RunningFinishes ==
    ASSUME TypeOK, OneOwner, NEW w \in Workers, wpc[w] \in Active, wpc'[w] \notin Active,
           \A v \in Workers \ {w} : wpc'[v] = wpc[v] /\ wgen'[v] = wgen[v]
    PROVE  [g \in Gens |-> Running(g)]'
              = [[g \in Gens |-> Running(g)] EXCEPT ![wgen[w]] = FALSE]
  <1>1. \A v \in Workers \ {w} : wgen[v] = wgen[w] => wpc[v] \notin Active
    BY DEF OneOwner, Owning, Active
  <1>2. ASSUME NEW g \in Gens PROVE Running(g)' = IF g = wgen[w] THEN FALSE ELSE Running(g)
    <2>1. Running(g)' <=> (g # wgen[w] /\ Running(g))
      BY <1>1 DEF Running, Active
    <2>2. Running(g) \in BOOLEAN /\ Running(g)' \in BOOLEAN
      BY Zenon DEF Running
    <2> QED
      BY <2>1, <2>2
  <1> QED
    BY <1>2

\* The requests that wait at the start are requests of the promise.
LEMMA PromiseInit == Init => Promise!CInit
  <1> SUFFICES ASSUME Init PROVE Promise!CInit
    OBVIOUS
  <1>1. ASSUME NEW g \in Gens PROVE Running(g) = FALSE
    BY DEF Running, Init
  <1>2. \A g \in Gens : pending[g] \in BOOLEAN /\ (g # gen) \in BOOLEAN
    BY TypeInit DEF TypeOK
  <1> QED
    BY <1>1, <1>2 DEF Promise!CInit

\* A step that touches neither the request flags nor a worker that is refreshing.
LEMMA PromiseStutters ==
    ASSUME UNCHANGED <<gen, pending>>,
           \A v \in Workers : (wpc'[v] \in Active <=> wpc[v] \in Active)
                               /\ (wpc[v] \in Active => wgen'[v] = wgen[v])
    PROVE  UNCHANGED Promise!cvars
  <1>1. [g \in Gens |-> Running(g)]' = [g \in Gens |-> Running(g)]
    BY RunningStays
  <1>2. [g \in Gens |-> pending[g]]' = [g \in Gens |-> pending[g]]
    OBVIOUS
  <1>3. [g \in Gens |-> g # gen]' = [g \in Gens |-> g # gen]
    OBVIOUS
  <1> QED
    BY Zenon, <1>1, <1>2, <1>3 DEF Promise!cvars

\* Storing the flag is a request.
LEMMA PromiseRequest ==
    ASSUME TypeOK, NEW g \in Gens, pending' = [pending EXCEPT ![g] = TRUE],
           UNCHANGED <<gen, wpc, wgen>>
    PROVE  Promise!CNext
  <1>1. [h \in Gens |-> Running(h)]' = [h \in Gens |-> Running(h)]
    BY RunningStays
  <1>2. [h \in Gens |-> pending[h]]' = [[h \in Gens |-> pending[h]] EXCEPT ![g] = TRUE]
    BY DEF TypeOK
  <1>3. [h \in Gens |-> h # gen]' = [h \in Gens |-> h # gen]
    OBVIOUS
  <1>4. Promise!Request(g)
    BY Zenon, <1>1, <1>2, <1>3 DEF Promise!Request
  <1> QED
    BY Zenon, <1>4 DEF Promise!CNext

\* Stop and Start replace a module by one that starts with a request.
LEMMA PromiseReplace ==
    ASSUME TypeOK, Restart
    PROVE  Promise!CNext
  <1>0. gen \in Gens /\ gen + 1 \in Gens /\ gen # gen + 1
    BY DEF Restart, TypeOK
  <1>1. [h \in Gens |-> Running(h)]' = [h \in Gens |-> Running(h)]
    BY RunningStays DEF Restart, workerVars
  <1>2. [h \in Gens |-> pending[h]]' = [[h \in Gens |-> pending[h]] EXCEPT ![gen + 1] = TRUE]
    BY DEF Restart, TypeOK
  <1>3. [h \in Gens |-> h # gen]'
           = [[h \in Gens |-> h # gen] EXCEPT ![gen] = TRUE, ![gen + 1] = FALSE]
    BY <1>0 DEF Restart
  <1>4. [h \in Gens |-> h # gen][gen + 1]
    BY <1>0
  <1>5. PICK m \in Gens, n \in Gens : m = gen /\ n = gen + 1
    BY Zenon, <1>0
  <1>6. Promise!Replace(m, n)
    BY Zenon, <1>1, <1>2, <1>3, <1>4, <1>5 DEF Promise!Replace
  <1>7. m # n
    BY <1>0, <1>5
  <1> QED
    BY Zenon, <1>6, <1>7 DEF Promise!CNext

\* Consuming the flag begins a refresh; finding it clear is no step at all.
LEMMA PromiseTake ==
    ASSUME TypeOK, OneOwner, NEW w \in Workers, Take(w)
    PROVE  Promise!CNext \/ UNCHANGED Promise!cvars
  <1>a. wgen[w] \in Gens
    BY DEF TypeOK
  <1>b. PICK g \in Gens : g = wgen[w]
    BY Zenon, <1>a
  <1>0. wpc[w] = "take"
    BY DEF Take
  <1>1. UNCHANGED <<gen, wgen>>
    BY Zenon DEF Take
  <1>2. CASE pending[g]
    <2>1. wpc' = [wpc EXCEPT ![w] = "check"] /\ pending' = [pending EXCEPT ![g] = FALSE]
      BY Zenon, <1>2, <1>b DEF Take
    <2>2. wpc'[w] \in Active /\ \A v \in Workers \ {w} : wpc'[v] = wpc[v]
      BY <2>1 DEF TypeOK, Active
    <2>3. [h \in Gens |-> Running(h)]' = [[h \in Gens |-> Running(h)] EXCEPT ![g] = TRUE]
      BY <1>1, <1>b, <2>2, RunningBegins
    <2>4. ~Running(g)
      BY <1>0, <1>b DEF OneOwner, Owning, Running
    <2>5. [h \in Gens |-> pending[h]]' = [[h \in Gens |-> pending[h]] EXCEPT ![g] = FALSE]
      BY <2>1 DEF TypeOK
    <2>6. [h \in Gens |-> h # gen]' = [h \in Gens |-> h # gen]
      BY <1>1
    <2>7. [h \in Gens |-> pending[h]][g] /\ ~[h \in Gens |-> Running(h)][g]
      BY <1>2, <2>4
    <2>8. Promise!Begin(g)
      BY Zenon, <2>3, <2>5, <2>6, <2>7 DEF Promise!Begin
    <2>9. Promise!CNext
      BY Zenon, <1>0, <2>8 DEF Promise!CNext
    <2> QED
      BY <2>9
  <1>3. CASE ~pending[g]
    <2>1. wpc' = [wpc EXCEPT ![w] = "clear"] /\ pending' = [pending EXCEPT ![g] = FALSE]
      BY Zenon, <1>3, <1>b DEF Take
    <2>2. pending' = pending
      BY <1>3, <2>1, <1>0 DEF TypeOK
    <2>3. \A v \in Workers : wpc'[v] \in Active <=> wpc[v] \in Active
      BY <1>0, <2>1 DEF TypeOK, Active
    <2> QED
      BY <1>1, <2>2, <2>3, PromiseStutters
  <1> QED
    BY <1>2, <1>3

\* Sending the snapshot, or giving it up, finishes the refresh.
LEMMA PromiseFinish ==
    ASSUME TypeOK, OneOwner, NEW w \in Workers, Send(w) \/ GiveUp(w)
    PROVE  Promise!CNext
  <1>a. wgen[w] \in Gens
    BY DEF TypeOK
  <1>b. PICK g \in Gens : g = wgen[w]
    BY Zenon, <1>a
  <1>0. wpc[w] \in Active
    BY DEF Send, GiveUp, Active
  <1>1. UNCHANGED <<gen, pending>>
    BY Zenon DEF Send, GiveUp, flagVars
  <1>2. wpc'[w] \notin Active /\ \A v \in Workers \ {w} : wpc'[v] = wpc[v]
    BY DEF Send, GiveUp, Return, TypeOK, Active
  <1>3. UNCHANGED wgen \/ wgen' = [wgen EXCEPT ![w] = 1]
    BY Zenon DEF Send, GiveUp, Return
  <1>4. [h \in Gens |-> Running(h)]' = [[h \in Gens |-> Running(h)] EXCEPT ![g] = FALSE]
    BY <1>0, <1>b, <1>2, <1>3, OthersKeepRuntime, RunningFinishes
  <1>5. [h \in Gens |-> pending[h]]' = [h \in Gens |-> pending[h]]
    BY <1>1
  <1>6. [h \in Gens |-> h # gen]' = [h \in Gens |-> h # gen]
    BY <1>1
  <1>7. [h \in Gens |-> Running(h)][g]
    BY <1>0, <1>b DEF Running, Active
  <1>8. Promise!Finish(g)
    BY Zenon, <1>4, <1>5, <1>6, <1>7 DEF Promise!Finish
  <1> QED
    BY Zenon, <1>8 DEF Promise!CNext

\* Every step of the program is one the promise allows, or none.
LEMMA PromiseStep == TypeOK /\ OneOwner /\ [Next]_vars => [Promise!CNext]_Promise!cvars
  <1> SUFFICES ASSUME TypeOK, OneOwner, [Next]_vars
               PROVE  Promise!CNext \/ UNCHANGED Promise!cvars
    BY Zenon
  <1> USE DEF flagVars, workerVars
  <1>0. gen \in Gens
    BY DEF TypeOK
  <1>1. CASE ChangeDir \/ CommandDone
    <2>1. pending' = [pending EXCEPT ![gen] = TRUE] /\ UNCHANGED <<gen, wpc, wgen>>
      BY Zenon, <1>1 DEF ChangeDir, CommandDone
    <2> QED
      BY <1>0, <2>1, PromiseRequest
  <1>2. CASE Restart
    BY <1>2, PromiseReplace
  <1>3. CASE ApplySnapshot \/ UNCHANGED vars \/ \E g \in Gens : TickerFires(g)
    <2>1. UNCHANGED <<gen, pending, wgen, wpc>>
      BY Zenon, <1>3 DEF ApplySnapshot, TickerFires, vars
    <2> QED
      BY <2>1, PromiseStutters
  <1>4. ASSUME NEW g \in Gens, NEW context, BecomeWorker(g, context), UNCHANGED <<gen, pending>>
        PROVE  UNCHANGED Promise!cvars
    <2>1. UNCHANGED <<wpc, wgen>>
          \/ \E w \in Workers : /\ wpc[w] = "none"
                                 /\ wpc' = [wpc EXCEPT ![w] = "take"]
                                 /\ wgen' = [wgen EXCEPT ![w] = g]
      BY Zenon, <1>4 DEF BecomeWorker
    <2>2. \A v \in Workers : (wpc'[v] \in Active <=> wpc[v] \in Active)
                              /\ (wpc[v] \in Active => wgen'[v] = wgen[v])
      BY <2>1 DEF TypeOK, Active
    <2> QED
      BY <1>4, <2>2, PromiseStutters
  <1>5. CASE LoopCas
    <2>1. UNCHANGED <<gen, pending>>
      BY Zenon, <1>5 DEF LoopCas
    <2>2. \E context \in {"module", "app"} : BecomeWorker(gen, context)
      BY Zenon, <1>5 DEF LoopCas
    <2> QED
      BY <1>0, <1>4, <2>1, <2>2
  <1>6. ASSUME NEW g \in Gens, TickerStore(g) PROVE Promise!CNext
    <2>1. pending' = [pending EXCEPT ![g] = TRUE] /\ UNCHANGED <<gen, wpc, wgen>>
      BY Zenon, <1>6 DEF TickerStore
    <2> QED
      BY <2>1, PromiseRequest
  <1>7. ASSUME NEW g \in Gens, TickerCas(g) PROVE UNCHANGED Promise!cvars
    <2>1. UNCHANGED <<gen, pending>> /\ BecomeWorker(g, "module")
      BY Zenon, <1>7 DEF TickerCas
    <2> QED
      BY <1>4, <2>1
  <1>8. ASSUME NEW w \in Workers, Run(w) \/ RunEnds(w) \/ Clear(w) \/ Recheck(w) \/ Reacquire(w)
        PROVE  UNCHANGED Promise!cvars
    <2>1. UNCHANGED <<gen, pending>>
      BY Zenon, <1>8 DEF Run, RunEnds, Clear, Recheck, Reacquire
    <2>2. \E p \in WorkerPCs : /\ p \in Active <=> wpc[w] \in Active
                               /\ wpc' = [wpc EXCEPT ![w] = p]
      <3>1. CASE Run(w) \/ RunEnds(w) \/ Clear(w)
        BY <3>1 DEF Run, RunEnds, Clear, Active, WorkerPCs, Owning
      <3>2. CASE Recheck(w) \/ Reacquire(w)
        <4>1. wpc[w] \notin Active
          BY <3>2 DEF Recheck, Reacquire, Active
        <4>2. \/ wpc' = [wpc EXCEPT ![w] = "none"]
              \/ wpc' = [wpc EXCEPT ![w] = "take"]
              \/ wpc' = [wpc EXCEPT ![w] = "reacquire"]
          BY Zenon, <3>2 DEF Recheck, Reacquire, Return
        <4> QED
          BY <4>1, <4>2 DEF Active, WorkerPCs, Owning
      <3> QED
        BY <1>8, <3>1, <3>2
    <2>3. UNCHANGED wgen \/ (wgen' = [wgen EXCEPT ![w] = 1] /\ wpc[w] \notin Active)
      <3>1. CASE Run(w) \/ RunEnds(w) \/ Clear(w)
        BY Zenon, <3>1 DEF Run, RunEnds, Clear
      <3>2. CASE Recheck(w) \/ Reacquire(w)
        <4>1. UNCHANGED wgen \/ wgen' = [wgen EXCEPT ![w] = 1]
          BY Zenon, <3>2 DEF Recheck, Reacquire, Return
        <4>2. wpc[w] \notin Active
          BY <3>2 DEF Recheck, Reacquire, Active
        <4> QED
          BY <4>1, <4>2
      <3> QED
        BY <1>8, <3>1, <3>2
    <2>4. \A v \in Workers : (wpc'[v] \in Active <=> wpc[v] \in Active)
                              /\ (wpc[v] \in Active => wgen'[v] = wgen[v])
      <3>1. PICK p \in WorkerPCs : /\ p \in Active <=> wpc[w] \in Active
                                   /\ wpc' = [wpc EXCEPT ![w] = p]
        BY <2>2
      <3>2. \A v \in Workers : wpc'[v] = IF v = w THEN p ELSE wpc[v]
        BY <3>1 DEF TypeOK
      <3>3. \A v \in Workers : wpc[v] \in Active => wgen'[v] = wgen[v]
        BY <2>3 DEF TypeOK
      <3>4. ASSUME NEW v \in Workers PROVE wpc'[v] \in Active <=> wpc[v] \in Active
        <4>1. CASE v = w
          BY <3>1, <3>2, <4>1
        <4>2. CASE v # w
          BY <3>2, <4>2
        <4> QED
          BY <4>1, <4>2
      <3> QED
        BY <3>3, <3>4
    <2> QED
      BY <2>1, <2>4, PromiseStutters
  <1>9. ASSUME NEW w \in Workers, Send(w) \/ GiveUp(w) PROVE Promise!CNext
    BY <1>9, PromiseFinish
  <1>10. ASSUME NEW w \in Workers, Take(w) PROVE Promise!CNext \/ UNCHANGED Promise!cvars
    BY <1>10, PromiseTake
  <1> QED
    BY <1>1, <1>2, <1>3, <1>5, <1>6, <1>7, <1>8, <1>9, <1>10 DEF Next, LoopNext, WorkerStep

\* refresh implements its promise: requests coalesce and are never dropped, and
\* the refreshes of a runtime do not overlap (the comment on execModuleRuntime.refresh).
THEOREM RefreshKeepsPromise == Spec => PromiseSafe
  BY TypeInit, TypeStep, OwnerInit, OwnerStep, PromiseInit, PromiseStep, PTL
     DEF Spec, PromiseSafe, Promise!CSafety
=============================================================================
