------------------------------ MODULE GitRefresh ------------------------------
(***************************************************************************)
(* Refreshing the git module: refreshGitMod and its callers in app/app.go, *)
(* and Git.RefreshAll.  Unlike an exec module's runtime, one pair of flags *)
(* and at most one worker serve every generation of the module, the shell  *)
(* and the tickers; a worker keeps the module and the expectation of the   *)
(* caller that started it.  A round of RefreshAll gives one snapshot per   *)
(* id, which the worker sends one after the other.                         *)
(*                                                                         *)
(* A snapshot says which module made it, of which directory, and at which  *)
(* version of the repository.  An empty answer (a timeout, no repository)  *)
(* is a snapshot like any other.                                           *)
(***************************************************************************)
EXTENDS Integers, Sequences, FiniteSets

CONSTANTS
    Dirs, Home,      \* directories the shell may be in, and where it starts
    Workers,         \* worker goroutines that may exist at the same time
    BusCap,          \* capacity of the event bus
    MaxGens,         \* bound: how often the module is (re)started
    MaxChanges,      \* bound: changes of the directory and restarts together
    MaxVersion       \* bound: changes in the repository

ASSUME GitAssumption ==
    /\ Home \in Dirs /\ Workers # {} /\ IsFiniteSet(Workers)
    /\ BusCap \in Nat \ {0} /\ MaxGens \in Nat \ {0}
    /\ MaxChanges \in Nat /\ MaxVersion \in Nat

Gens     == 1..MaxGens
Versions == 0..MaxVersion

\* Two of gitSubIDs: one with the module's format, one that is raw.
Ids == <<"git", "git.branch">>

VARIABLES
    cwd, changes,    \* cwdHolder, and how often it changed
    repo,            \* the repository's version (external)
    gen,             \* generation of gitMod
    gitPending, gitRefreshing,
    lpc, lexp,       \* the loop in refreshGitMod: "idle", "store", "cas"; is there an expectedCWD
    tpc,             \* every generation's ticker in refreshGitMod, likewise
    wpc, wgm, wexp,  \* workers: position, captured module, is there an expectedCWD
    wstart, wsnaps,  \* ... cwdAtStart, and the snapshots still to be sent, in a round
    bus,             \* ModuleUpdated events
    value            \* state.Modules of both ids; None before the first snapshot

flagVars   == <<gitPending, gitRefreshing>>
workerLocals == <<wgm, wexp, wstart, wsnaps>>
workerVars == <<wpc, workerLocals>>
vars == <<cwd, changes, repo, gen, flagVars, lpc, lexp, tpc, workerVars, bus, value>>

Nowhere == 0
None == [gm |-> 0, dir |-> Nowhere, version |-> 0]

\* Where a worker owns gitRefreshing, and where it works on a request.
Working  == {"start", "read", "check", "send"}
Owning   == Working \cup {"take", "clear"}

Init ==
    /\ cwd = Home /\ changes = 0 /\ repo = 0
    /\ gen = 1
    /\ gitPending = FALSE /\ gitRefreshing = FALSE
    /\ lpc = "store" /\ lexp = FALSE             \* refreshGit("") at start-up
    /\ tpc = [g \in Gens |-> "idle"]
    /\ wpc = [w \in Workers |-> "none"]
    /\ wgm = [w \in Workers |-> 1]
    /\ wexp = [w \in Workers |-> FALSE]
    /\ wstart = [w \in Workers |-> Nowhere]
    /\ wsnaps = [w \in Workers |-> <<>>]
    /\ bus = <<>>
    /\ value = [i \in 1..Len(Ids) |-> None]
-------------------------------------------------------------------------------
(* Callers of refreshGitMod.  Both flags are atomics, so each access is a  *)
(* step of its own.                                                        *)

\* The caller's CAS: it starts a worker or leaves the request to the one there is.
BecomeWorker(g, expected) ==
    \/ gitRefreshing /\ UNCHANGED <<gitRefreshing, workerVars>>
    \/ /\ ~gitRefreshing
       /\ gitRefreshing' = TRUE
       /\ \E w \in Workers :
             /\ wpc[w] = "none"
             /\ wpc' = [wpc EXCEPT ![w] = "take"]
             /\ wgm' = [wgm EXCEPT ![w] = g]
             /\ wexp' = [wexp EXCEPT ![w] = expected]
             /\ UNCHANGED <<wstart, wsnaps>>

\* ShellMeta "cwd": the directory is there before the request.
ChangeDir ==
    /\ lpc = "idle"
    /\ changes + gen <= MaxChanges
    /\ changes' = changes + 1
    /\ cwd' \in Dirs \ {cwd}
    /\ lpc' = "store" /\ lexp' = TRUE
    /\ UNCHANGED <<repo, gen, flagVars, tpc, workerVars, bus, value>>

\* updateModules: another interval or format gives a new module and ticker.
Reload ==
    /\ lpc = "idle"
    /\ gen < MaxGens /\ changes + gen <= MaxChanges
    /\ gen' = gen + 1
    /\ lpc' = "store" /\ lexp' = FALSE
    /\ UNCHANGED <<cwd, changes, repo, flagVars, tpc, workerVars, bus, value>>

\* Mutant: no flag for a worker that is there anyway.
StoreUnlessRefreshing ==
    /\ lpc = "store"
    /\ lpc' = "cas"
    /\ gitPending' = (gitPending \/ ~gitRefreshing)
    /\ UNCHANGED <<cwd, changes, repo, gen, gitRefreshing, lexp, tpc, workerVars, bus, value>>

LoopStores ==
    /\ lpc = "store"
    /\ lpc' = "cas"
    /\ gitPending' = TRUE
    /\ UNCHANGED <<cwd, changes, repo, gen, gitRefreshing, lexp, tpc, workerVars, bus, value>>

LoopCas ==
    /\ lpc = "cas"
    /\ lpc' = "idle" /\ lexp' = FALSE
    /\ BecomeWorker(gen, lexp)
    /\ UNCHANGED <<cwd, changes, repo, gen, gitPending, tpc, bus, value>>

\* The loop takes an event off the bus.
ApplySnapshot ==
    /\ lpc = "idle"
    /\ bus # <<>>
    /\ value' = [value EXCEPT ![Head(bus).id] = Head(bus).snap]
    /\ bus' = Tail(bus)
    /\ UNCHANGED <<cwd, changes, repo, gen, flagVars, lpc, lexp, tpc, workerVars>>

\* A ticker of a generation that is gone has been cancelled, but may be on its
\* way into refreshGitMod.
TickerFires(g) ==
    /\ tpc[g] = "idle" /\ g = gen
    /\ tpc' = [tpc EXCEPT ![g] = "store"]
    /\ UNCHANGED <<cwd, changes, repo, gen, flagVars, lpc, lexp, workerVars, bus, value>>

\* Mutant: the ticker only tries to become the worker.
TickerSkipsFlag(g) ==
    /\ tpc[g] = "store"
    /\ tpc' = [tpc EXCEPT ![g] = "cas"]
    /\ UNCHANGED <<cwd, changes, repo, gen, flagVars, lpc, lexp, workerVars, bus, value>>

TickerStores(g) ==
    /\ tpc[g] = "store"
    /\ tpc' = [tpc EXCEPT ![g] = "cas"]
    /\ gitPending' = TRUE
    /\ UNCHANGED <<cwd, changes, repo, gen, gitRefreshing, lpc, lexp, workerVars, bus, value>>

TickerCas(g) ==
    /\ tpc[g] = "cas"
    /\ tpc' = [tpc EXCEPT ![g] = "idle"]
    /\ BecomeWorker(g, FALSE)
    /\ UNCHANGED <<cwd, changes, repo, gen, gitPending, lpc, lexp, bus, value>>

\* Somebody works in a repository (external).
RepoChanges ==
    /\ repo < MaxVersion
    /\ repo' = repo + 1
    /\ UNCHANGED <<cwd, changes, gen, flagVars, lpc, lexp, tpc, workerVars, bus, value>>
-------------------------------------------------------------------------------
(* The worker. *)

Goto(w, pc) == wpc' = [wpc EXCEPT ![w] = pc]
\* A goroutine that is gone has no locals any more.
Exit(w) ==
    /\ Goto(w, "none")
    /\ wgm' = [wgm EXCEPT ![w] = 1] /\ wexp' = [wexp EXCEPT ![w] = FALSE]
    /\ UNCHANGED <<wstart, wsnaps>>
LoopAlone   == UNCHANGED <<cwd, changes, repo, gen, lpc, lexp, tpc, value>>

Take(w) ==
    /\ wpc[w] = "take"
    /\ gitPending' = FALSE
    /\ Goto(w, IF gitPending THEN "start" ELSE "clear")
    /\ UNCHANGED <<gitRefreshing, wgm, wexp, wstart, wsnaps, bus>> /\ LoopAlone

NoteDir(w) ==
    /\ wpc[w] = "start"
    /\ wstart' = [wstart EXCEPT ![w] = cwd]
    /\ Goto(w, "read")
    /\ UNCHANGED <<flagVars, wgm, wexp, wsnaps, bus>> /\ LoopAlone

\* collect reads the holder itself, and asks git about what it read.
ReadRepo(w) ==
    /\ wpc[w] = "read"
    /\ LET snap == [gm |-> wgm[w], dir |-> cwd, version |-> repo] IN
       wsnaps' = [wsnaps EXCEPT ![w] = [i \in 1..Len(Ids) |-> snap]]
    /\ Goto(w, "check")
    /\ UNCHANGED <<flagVars, wgm, wexp, wstart, bus>> /\ LoopAlone

\* Results of a directory that has been left are thrown away.
Discard(w) ==
    /\ wpc[w] = "check"
    /\ wexp[w] /\ cwd # wstart[w]
    /\ gitPending' = TRUE
    /\ wsnaps' = [wsnaps EXCEPT ![w] = <<>>] /\ wstart' = [wstart EXCEPT ![w] = Nowhere]
    /\ Goto(w, "take")
    /\ UNCHANGED <<gitRefreshing, wgm, wexp, bus>> /\ LoopAlone

Keep(w) ==
    /\ wpc[w] = "check"
    /\ ~(wexp[w] /\ cwd # wstart[w])
    /\ wstart' = [wstart EXCEPT ![w] = Nowhere]
    /\ Goto(w, "send")
    /\ UNCHANGED <<flagVars, wgm, wexp, wsnaps, bus>> /\ LoopAlone

Send(w) ==
    /\ wpc[w] = "send"
    /\ Len(bus) < BusCap
    /\ bus' = Append(bus, [id |-> 1 + Len(Ids) - Len(wsnaps[w]), snap |-> Head(wsnaps[w])])
    /\ wsnaps' = [wsnaps EXCEPT ![w] = Tail(@)]
    /\ Goto(w, IF Tail(wsnaps[w]) = <<>> THEN "take" ELSE "send")
    /\ UNCHANGED <<flagVars, wgm, wexp, wstart>> /\ LoopAlone

Clear(w) ==
    /\ wpc[w] = "clear"
    /\ gitRefreshing' = FALSE
    /\ Goto(w, "recheck")
    /\ UNCHANGED <<gitPending, wgm, wexp, wstart, wsnaps, bus>> /\ LoopAlone

\* A request may have come after Take and before Clear.
Recheck(w) ==
    /\ wpc[w] = "recheck"
    /\ IF gitPending
       THEN Goto(w, "reacquire") /\ UNCHANGED workerLocals
       ELSE Exit(w)
    /\ UNCHANGED <<flagVars, bus>> /\ LoopAlone

Reacquire(w) ==
    /\ wpc[w] = "reacquire"
    /\ gitRefreshing' = TRUE
    /\ IF gitRefreshing
       THEN Exit(w)
       ELSE Goto(w, "take") /\ UNCHANGED workerLocals
    /\ UNCHANGED <<gitPending, bus>> /\ LoopAlone

Loop == ChangeDir \/ Reload \/ LoopStores \/ LoopCas \/ ApplySnapshot
Ticker(g) == TickerFires(g) \/ TickerStores(g) \/ TickerCas(g)
Worker(w) == \/ Take(w) \/ NoteDir(w) \/ ReadRepo(w) \/ Discard(w)
             \/ Keep(w) \/ Send(w) \/ Clear(w) \/ Recheck(w) \/ Reacquire(w)

Next == \/ Loop \/ RepoChanges
        \/ \E g \in Gens : Ticker(g)
        \/ \E w \in Workers : Worker(w)

Safety == Init /\ [][Next]_vars

\* The scheduler runs every goroutine, and the ticker of the current module
\* goes on ticking; the user and the repository may stop at any time.
Fairness ==
    /\ WF_vars(LoopStores) /\ WF_vars(LoopCas) /\ WF_vars(ApplySnapshot)
    /\ \A g \in Gens : WF_vars(Ticker(g))
    /\ \A w \in Workers : WF_vars(Worker(w))

Spec == Safety /\ Fairness
-------------------------------------------------------------------------------
(* Properties. *)

Snapshots == [gm : Gens, dir : Dirs, version : Versions]

\* Types; part of it: the bus never holds more than it has room for.
TypeOK ==
    /\ cwd \in Dirs /\ changes \in 0..MaxChanges
    /\ repo \in Versions /\ gen \in Gens
    /\ gitPending \in BOOLEAN /\ gitRefreshing \in BOOLEAN
    /\ lpc \in {"idle", "store", "cas"} /\ lexp \in BOOLEAN
    /\ tpc \in [Gens -> {"idle", "store", "cas"}]
    /\ wpc \in [Workers -> Owning \cup {"none", "recheck", "reacquire"}]
    /\ wgm \in [Workers -> Gens] /\ wexp \in [Workers -> BOOLEAN]
    /\ wstart \in [Workers -> Dirs \cup {Nowhere}] /\ wsnaps \in [Workers -> Seq(Snapshots)]
    /\ bus \in Seq([id : 1..Len(Ids), snap : Snapshots]) /\ Len(bus) <= BusCap
    /\ value \in [1..Len(Ids) -> Snapshots \cup {None}]

\* Nothing is under way for the bar.
Quiet == /\ lpc = "idle" /\ ~gitPending /\ bus = <<>>
         /\ \A w \in Workers : wpc[w] \notin Owning

\* When everything is worked off, all ids show one round's result, and it is
\* of the shell's directory, although a round for another one may have been
\* under way when the directory changed and may have been sent after it.
QuietMeansCurrent ==
    Quiet => \A i \in DOMAIN value : value[i] = value[1] /\ value[i].dir = cwd

\* The bar ends up with the shell's directory and what its repository is like
\* (the refresh "every interval" of startGitTicker).
BarCatchesUp ==
    <>[](\A i \in DOMAIN value : value[i].dir = cwd /\ value[i].version = repo)
-------------------------------------------------------------------------------
(* Why QuietMeansCurrent holds: an inductive invariant, in parts.          *)

\* gitRefreshing is set exactly while a worker owns it, and one at most does.
OneOwner ==
    /\ gitRefreshing <=> \E w \in Workers : wpc[w] \in Owning
    /\ \A v, w \in Workers : wpc[v] \in Owning /\ wpc[w] \in Owning => v = w

\* What is left of a round to be sent: one snapshot, for each of the last ids.
RoundInHand ==
    \A w \in Workers : wpc[w] \in {"check", "send"} =>
        /\ Len(wsnaps[w]) \in 1..Len(Ids)
        /\ wpc[w] = "check" => Len(wsnaps[w]) = Len(Ids)
        /\ \A i \in 1..Len(wsnaps[w]) : wsnaps[w][i] = wsnaps[w][1]

\* What an id shows once the bus is worked off.
EndsWith(i, s) ==
    \/ value[i] = s /\ \A k \in 1..Len(bus) : bus[k].id # i
    \/ \E k \in 1..Len(bus) :
          /\ bus[k].id = i /\ bus[k].snap = s
          /\ \A j \in k+1..Len(bus) : bus[j].id # i

\* The shell's directory will be read again.
Due == lpc = "store" \/ gitPending \/ \E w \in Workers : wpc[w] \in {"start", "read"}

\* A round on its way to the bar is of the shell's directory or is followed by
\* another; the ids it has reached show it alike.
RoundUnderWay ==
    \A w \in Workers :
        /\ wpc[w] \in {"check", "send"} => Due \/ wsnaps[w][1].dir = cwd
        /\ wpc[w] = "send" =>
              \A i \in 1..Len(Ids) - Len(wsnaps[w]) : EndsWith(i, wsnaps[w][1])

\* Between two rounds all ids show the last one, with the same provision.
LastRound ==
    (\A w \in Workers : wpc[w] # "send") =>
        \E s \in Snapshots \cup {None} :
            /\ \A i \in 1..Len(Ids) : EndsWith(i, s)
            /\ Due \/ (\E w \in Workers : wpc[w] = "check") \/ s.dir = cwd

IInv == OneOwner /\ RoundInHand /\ RoundUnderWay /\ LastRound
===============================================================================
