---------------------------- MODULE ExecRefresh ----------------------------
(***************************************************************************)
(* Refreshing a user-defined exec module with refresh_on_cwd: one module   *)
(* id, whose runtime (execModuleRuntime) is replaced by a new one each     *)
(* time a reload changes its configuration.  Generation g is the g-th      *)
(* runtime; `gen' is the one userModSet knows now, older ones are stopped. *)
(*                                                                         *)
(* The goroutines: the event loop, which changes the directory, requests   *)
(* refreshes, reloads and applies snapshots; one ticker per generation;    *)
(* and the worker goroutines refresh starts.  An action is one atomic      *)
(* operation on a shared flag or channel.                                  *)
(*                                                                         *)
(* refresh is called with the module's own context by the ticker and by    *)
(* userModSet.Start, but with the context of the whole program by the      *)
(* shell-metadata handler: the worker inherits the one it was called with. *)
(* The program's context outlives the model; a module's is cancelled when  *)
(* its generation is stopped.                                              *)
(*                                                                         *)
(* `cwd' stands for what a command's result depends on: the directory and  *)
(* the mirrored environment, which the loop also stores before it requests *)
(* a refresh.                                                              *)
(***************************************************************************)
EXTENDS Integers, Sequences

CONSTANTS
    Dirs,            \* directories the shell may be in
    Workers,         \* worker goroutines that may exist at the same time
    BusCap,          \* capacity of the event bus
    MaxGens,         \* bound: how often the module is (re)started
    MaxChanges       \* bound: how often the directory changes

ASSUME DirsAssumption    == Dirs # {}
ASSUME WorkersAssumption == Workers # {}
ASSUME LimitsAssumption  == BusCap \in Nat \ {0} /\ MaxGens \in Nat \ {0} /\ MaxChanges \in Nat

Gens == 1..MaxGens

VARIABLES
    cwd, changes,    \* cwdHolder, and how often it changed
    gen,             \* generation of the current runtime
    pending, refreshing,     \* the two flags of every runtime
    lpc,             \* the loop: "idle", or about to CAS for a "request" or a "start"
    tpc,             \* the tickers: "idle", or about to "store" or to "cas"
    wpc, wgen, wctx, \* workers: position, runtime, context ("app" or "module")
    wsnap,           \* ... and the snapshot of the running refresh, else <<>>
    bus,             \* ModuleUpdated events
    value            \* state.Modules[id], <<>> before the first snapshot

flagVars   == <<pending, refreshing>>
workerVars == <<wpc, wgen, wctx, wsnap>>
vars == <<cwd, changes, gen, flagVars, lpc, tpc, workerVars, bus, value>>

\* A snapshot says which runtime made it and where its command ran.  A command
\* that was killed, at its deadline or because its context was cancelled, gives
\* one as well (Stale).
Snapshots == [gen : Gens, dir : Dirs]

\* Where a worker owns refreshing.
Owning   == {"take", "check", "exec", "send", "clear"}
WorkerPCs == Owning \cup {"none", "recheck", "reacquire"}

\* The context a worker was started with has been cancelled.
Cancelled(w) == wctx[w] = "module" /\ wgen[w] < gen
-------------------------------------------------------------------------------
Init ==
    /\ cwd \in Dirs /\ changes = 0
    /\ gen = 1
    /\ pending = [g \in Gens |-> g = 1]          \* Start has stored the request
    /\ refreshing = [g \in Gens |-> FALSE]
    /\ lpc = "start"
    /\ tpc = [g \in Gens |-> "idle"]
    /\ wpc = [w \in Workers |-> "none"]
    /\ wgen = [w \in Workers |-> 1]
    /\ wctx = [w \in Workers |-> "app"]
    /\ wsnap = [w \in Workers |-> <<>>]
    /\ bus = <<>> /\ value = <<>>

\* The caller's CAS on refreshing: it starts a worker or finds one running.
BecomeWorker(g, context) ==
    \/ /\ refreshing[g]
       /\ UNCHANGED <<refreshing, wpc, wgen, wctx>>
    \/ /\ ~refreshing[g]
       /\ refreshing' = [refreshing EXCEPT ![g] = TRUE]
       /\ \E w \in Workers :
            /\ wpc[w] = "none"
            /\ wpc' = [wpc EXCEPT ![w] = "take"]
            /\ wgen' = [wgen EXCEPT ![w] = g]
            /\ wctx' = [wctx EXCEPT ![w] = context]
-------------------------------------------------------------------------------
(* The event loop. *)

\* ShellMeta "cwd": store the directory, then request a refresh.
ChangeDirDropping ==        \* mutant: no request while a refresh is running
    /\ lpc = "idle"
    /\ changes < MaxChanges
    /\ cwd' \in Dirs \ {cwd}
    /\ changes' = changes + 1
    /\ pending' = [pending EXCEPT ![gen] = @ \/ ~refreshing[gen]]
    /\ lpc' = "request"
    /\ UNCHANGED <<gen, refreshing, tpc, workerVars, bus, value>>
ChangeDir ==
    /\ lpc = "idle"
    /\ changes < MaxChanges
    /\ cwd' \in Dirs \ {cwd}
    /\ changes' = changes + 1
    /\ pending' = [pending EXCEPT ![gen] = TRUE]
    /\ lpc' = "request"
    /\ UNCHANGED <<gen, refreshing, tpc, workerVars, bus, value>>

\* A matching command succeeded: refreshAfterCommand.
CommandDone ==
    /\ lpc = "idle"
    /\ pending' = [pending EXCEPT ![gen] = TRUE]
    /\ lpc' = "request"
    /\ UNCHANGED <<cwd, changes, gen, refreshing, tpc, workerVars, bus, value>>

\* Reconcile after a reload that changed the module: Stop, then Start.
Restart ==
    /\ lpc = "idle"
    /\ gen < MaxGens
    /\ gen' = gen + 1
    /\ pending' = [pending EXCEPT ![gen + 1] = TRUE]
    /\ lpc' = "start"
    /\ UNCHANGED <<cwd, changes, refreshing, tpc, workerVars, bus, value>>

LoopCas ==
    /\ lpc # "idle"
    /\ BecomeWorker(gen, IF lpc = "start" THEN "module" ELSE "app")
    /\ lpc' = "idle"
    /\ UNCHANGED <<cwd, changes, gen, pending, tpc, wsnap, bus, value>>

\* ModuleUpdated.
ApplySnapshot ==
    /\ lpc = "idle"
    /\ bus # <<>>
    /\ value' = Head(bus)
    /\ bus' = Tail(bus)
    /\ UNCHANGED <<cwd, changes, gen, flagVars, lpc, tpc, workerVars>>
-------------------------------------------------------------------------------
(* The tickers. *)

\* A stopped ticker returns: by its select or by refresh's own look at ctx.
TickerFires(g) ==
    /\ g = gen
    /\ tpc[g] = "idle"
    /\ tpc' = [tpc EXCEPT ![g] = "store"]
    /\ UNCHANGED <<cwd, changes, gen, flagVars, lpc, workerVars, bus, value>>

TickerStore(g) ==
    /\ tpc[g] = "store"
    /\ pending' = [pending EXCEPT ![g] = TRUE]
    /\ tpc' = [tpc EXCEPT ![g] = "cas"]
    /\ UNCHANGED <<cwd, changes, gen, refreshing, lpc, workerVars, bus, value>>

TickerCas(g) ==
    /\ tpc[g] = "cas"
    /\ BecomeWorker(g, "module")
    /\ tpc' = [tpc EXCEPT ![g] = "idle"]
    /\ UNCHANGED <<cwd, changes, gen, pending, lpc, wsnap, bus, value>>
-------------------------------------------------------------------------------
(* The workers. *)

\* The goroutine returns, and its locals are gone.
Return(w) ==
    /\ wpc' = [wpc EXCEPT ![w] = "none"]
    /\ wgen' = [wgen EXCEPT ![w] = 1]
    /\ wctx' = [wctx EXCEPT ![w] = "app"]

\* for pending.CompareAndSwap(true, false)
Take(w) ==
    /\ wpc[w] = "take"
    /\ wpc' = [wpc EXCEPT ![w] = IF pending[wgen[w]] THEN "check" ELSE "clear"]
    /\ pending' = [pending EXCEPT ![wgen[w]] = FALSE]
    /\ UNCHANGED <<cwd, changes, gen, refreshing, lpc, tpc, wgen, wctx, wsnap,
                   bus, value>>

\* ctx.Err() # nil: release the flag and return.
GiveUp(w) ==
    /\ wpc[w] = "check"
    /\ Cancelled(w)
    /\ refreshing' = [refreshing EXCEPT ![wgen[w]] = FALSE]
    /\ Return(w)
    /\ UNCHANGED <<cwd, changes, gen, pending, lpc, tpc, wsnap, bus, value>>

\* refreshSnapshot, its first half: read where to run.
Run(w) ==
    /\ wpc[w] = "check"
    /\ ~Cancelled(w)
    /\ wsnap' = [wsnap EXCEPT ![w] = [gen |-> wgen[w], dir |-> cwd]]
    /\ wpc' = [wpc EXCEPT ![w] = "exec"]
    /\ UNCHANGED <<cwd, changes, gen, flagVars, lpc, tpc, wgen, wctx, bus, value>>

\* Its second half: the command ends by itself or is killed.
RunEnds(w) ==
    /\ wpc[w] = "exec"
    /\ wpc' = [wpc EXCEPT ![w] = "send"]
    /\ UNCHANGED <<cwd, changes, gen, flagVars, lpc, tpc, wgen, wctx, wsnap, bus, value>>

\* Bus.SendCtx: a select, so with both cases ready either is taken.  (bus)
SendCtx(w) ==
    \/ Len(bus) < BusCap /\ bus' = Append(bus, wsnap[w])
    \/ Cancelled(w) /\ UNCHANGED bus

Send(w) ==
    /\ wpc[w] = "send"
    /\ SendCtx(w)
    /\ wsnap' = [wsnap EXCEPT ![w] = <<>>]
    /\ wpc' = [wpc EXCEPT ![w] = "take"]
    /\ UNCHANGED <<cwd, changes, gen, flagVars, lpc, tpc, wgen, wctx, value>>

Clear(w) ==
    /\ wpc[w] = "clear"
    /\ refreshing' = [refreshing EXCEPT ![wgen[w]] = FALSE]
    /\ wpc' = [wpc EXCEPT ![w] = "recheck"]
    /\ UNCHANGED <<cwd, changes, gen, pending, lpc, tpc, wgen, wctx, wsnap, bus, value>>

\* pending.Load()
RecheckNever(w) ==          \* mutant: return without looking again
    /\ wpc[w] = "recheck"
    /\ Return(w)
    /\ UNCHANGED <<cwd, changes, gen, flagVars, lpc, tpc, wsnap, bus, value>>
Recheck(w) ==
    /\ wpc[w] = "recheck"
    /\ IF pending[wgen[w]]
       THEN wpc' = [wpc EXCEPT ![w] = "reacquire"] /\ UNCHANGED <<wgen, wctx>>
       ELSE Return(w)
    /\ UNCHANGED <<cwd, changes, gen, flagVars, lpc, tpc, wsnap, bus, value>>

\* refreshing.CompareAndSwap(false, true): go on, unless another caller already did.
Reacquire(w) ==
    /\ wpc[w] = "reacquire"
    /\ IF refreshing[wgen[w]]
       THEN Return(w) /\ UNCHANGED refreshing
       ELSE /\ refreshing' = [refreshing EXCEPT ![wgen[w]] = TRUE]
            /\ wpc' = [wpc EXCEPT ![w] = "take"]
            /\ UNCHANGED <<wgen, wctx>>
    /\ UNCHANGED <<cwd, changes, gen, pending, lpc, tpc, wsnap, bus, value>>
-------------------------------------------------------------------------------
WorkerStep(w) ==
    \/ Take(w) \/ GiveUp(w) \/ Run(w) \/ RunEnds(w) \/ Clear(w)
    \/ Recheck(w) \/ Reacquire(w)

LoopNext == ChangeDir \/ CommandDone \/ Restart \/ LoopCas \/ ApplySnapshot

Next ==
    \/ LoopNext
    \/ \E g \in Gens : TickerFires(g) \/ TickerStore(g) \/ TickerCas(g)
    \/ \E w \in Workers : WorkerStep(w) \/ Send(w)

Spec == Init /\ [][Next]_vars

(***************************************************************************)
(* Goroutines keep running and a command is killed at its deadline.        *)
(* Senders blocked on a full channel are served in order, and the bus is a *)
(* FIFO between all kinds of events: strong fairness for both ends of it.  *)
(* That some sender and some ticker gets on is all that is needed.         *)
(***************************************************************************)
Fairness ==
    /\ WF_vars(LoopCas) /\ SF_vars(ApplySnapshot)
    /\ WF_vars(\E g \in Gens : TickerStore(g) \/ TickerCas(g))
    /\ \A w \in Workers : WF_vars(WorkerStep(w))
    /\ SF_vars(\E w \in Workers : Send(w))

FairSpec == Spec /\ Fairness
-------------------------------------------------------------------------------
TypeOK ==
    /\ cwd \in Dirs /\ changes \in 0..MaxChanges
    /\ gen \in Gens
    /\ pending \in [Gens -> BOOLEAN] /\ refreshing \in [Gens -> BOOLEAN]
    /\ lpc \in {"idle", "request", "start"}
    /\ tpc \in [Gens -> {"idle", "store", "cas"}]
    /\ wpc \in [Workers -> WorkerPCs]
    /\ wgen \in [Workers -> Gens]
    /\ wctx \in [Workers -> {"app", "module"}]
    /\ wsnap \in [Workers -> Snapshots \cup {<<>>}]
    /\ \A w \in Workers : wpc[w] \in {"exec", "send"} => wsnap[w] \in Snapshots
    /\ bus \in Seq(Snapshots) /\ Len(bus) <= BusCap
    /\ value \in Snapshots \cup {<<>>}

Owners(g) == {w \in Workers : wgen[w] = g /\ wpc[w] \in Owning}

\* refreshing is set exactly while one worker goroutine owns it, however a
\* worker that is just going away and a new one interleave: at most one command
\* of a runtime runs at a time.
OneOwner ==
    /\ \A v, w \in Workers :
          wgen[v] = wgen[w] /\ wpc[v] \in Owning /\ wpc[w] \in Owning => v = w
    /\ \A g \in Gens : refreshing[g] <=> Owners(g) # {}

\* A request stored in the current runtime always has somebody who will notice
\* it: the worker that owns the runtime, one that is about to look again, or a caller before its CAS.
RequestIsSeen ==
    pending[gen] =>
        \/ lpc # "idle"
        \/ tpc[gen] = "cas"
        \/ \E w \in Workers :
              wgen[w] = gen /\ wpc[w] \in Owning \cup {"recheck", "reacquire"}

Quiet ==
    /\ lpc = "idle" /\ bus = <<>>
    /\ \A g \in Gens : tpc[g] = "idle"
    /\ \A w \in Workers : wpc[w] = "none"

\* After any burst of directory changes, commands and ticks, the snapshot that
\* stays is of a command that ran in the directory the shell is in now.
FinalSnapshotIsCurrent ==
    Quiet => value # <<>> /\ (value.gen = gen => value.dir = cwd)

\* When the directory changes no more, the bar ends up with it for good.
DirectoryCatchesUp ==
    <>[](value # <<>> /\ (value.gen = gen => value.dir = cwd))

(***************************************************************************)
(* Why FinalSnapshotIsCurrent holds: what the current runtime last read is *)
(* on its way to the bar, behind everything else it ever sent.             *)
(***************************************************************************)
Current == [gen |-> gen, dir |-> cwd]

\* The worker's command has read the directory, and its snapshot is not sent.
HasRead(w) == wpc[w] \in {"exec", "send"}

\* The current runtime has still to read the directory.
ReadIsDue == pending[gen] \/ \E w \in Workers : wgen[w] = gen /\ wpc[w] = "check"

SnapshotsAreOwn == \A w \in Workers : HasRead(w) => wsnap[w].gen = wgen[w]

\* What the current runtime reads and nobody has asked to read again is current.
ReadIsCurrent ==
    ~pending[gen] => \A w \in Workers : wgen[w] = gen /\ HasRead(w) => wsnap[w] = Current

\* Nothing of the current runtime is behind a current snapshot on its way to
\* the bar, or nothing of it is on its way at all.
CurrentIsLast ==
    \/ \E i \in 1..Len(bus) :
          bus[i] = Current /\ \A j \in i+1..Len(bus) : bus[j].gen # gen
    \/ /\ \A j \in 1..Len(bus) : bus[j].gen # gen
       /\ value # <<>> /\ (value.gen = gen => value.dir = cwd)

LastSentIsCurrent ==
    ~ReadIsDue /\ (\A w \in Workers : wgen[w] = gen => ~HasRead(w)) => CurrentIsLast

IInv == /\ OneOwner /\ RequestIsSeen
        /\ SnapshotsAreOwn /\ ReadIsCurrent /\ LastSentIsCurrent

(***************************************************************************)
(* The promise.  A request is wanted while its flag is set; a refresh runs *)
(* from the worker's taking the request to its return to the flag.         *)
(***************************************************************************)
Running(g) == \E w \in Workers : wgen[w] = g /\ wpc[w] \in {"check", "exec", "send"}

Promise == INSTANCE Coalescing WITH
    Modules <- Gens,
    wanted  <- [g \in Gens |-> pending[g]],
    running <- [g \in Gens |-> Running(g)],
    stopped <- [g \in Gens |-> g # gen]

\* Without the fairness: no step of the program is one the promise excludes.
PromiseSafe == Promise!CSafety

PromiseKept == Promise!CSpec
===============================================================================
