----------------------------- MODULE ProbeModules -----------------------------
(***************************************************************************)
(* The probe-driven system modules (probeModManager in app/probemodules.go *)
(* and status/scheduler.go), for one module, {disk}: the only one that is  *)
(* also sampled when the shell changes directory.  The manager runs on the *)
(* event loop and starts goroutines: a ticker for as long as the module    *)
(* runs, and one that samples once.  A sample that overruns its timeout is *)
(* given up and its late result discarded; the goroutine goes on with a    *)
(* stale snapshot.  Snapshots reach the state through the bus.             *)
(*                                                                         *)
(* Nothing orders two samples of one module: an older one may be shown     *)
(* after a newer one, until the next tick.                                 *)
(***************************************************************************)
EXTENDS Integers, Sequences, FiniteSets

CONSTANTS
    Workers,        \* goroutines that may exist at once
    Dirs, Home,     \* working directories, and the one at start
    Variants,       \* the intervals and formats a config may ask for
    First,          \* what it asks for at start
    None,
    BusCap, MaxGens, MaxChanges, MaxReloads

ASSUME ProbeModulesAssumption ==
    /\ Home \in Dirs /\ First \in Variants
    /\ BusCap \in Nat \ {0}
    /\ {MaxGens, MaxChanges, MaxReloads} \subseteq Nat
    /\ MaxGens >= 1 /\ Cardinality(Workers) >= 2          \* room for a start
    /\ None \notin [gen : Nat, variant : Variants]

VARIABLES
    cfg,        \* resolvedCfg.Modules["disk"]: enabled, variant
    entry,      \* mgr.entries["disk"]: gen and variant, or None
    gens,       \* modules started so far
    cancelled,  \* those whose context is cancelled
    procs,      \* the goroutines of the scheduler
    cwd,        \* cwdHolder
    bus,        \* ModuleUpdated events
    shown,      \* the snapshot in StatusState.Modules, or None
    changes, reloads

vars == <<cfg, entry, gens, cancelled, procs, cwd, bus, shown, changes, reloads>>

Configs == [enabled : BOOLEAN, variant : Variants]
\* A snapshot carries its module's configuration and, unless stale, what it
\* read: the directory stands for that.
Snapshots == [gen : 1..MaxGens, read : Dirs \cup {None}]
Idle == [pc |-> "free", gen |-> 0, ticker |-> FALSE, read |-> None]
Pcs == {"free", "wait", "refresh", "emit"}

TypeOK ==
    /\ cfg \in Configs
    /\ entry \in [gen : 1..MaxGens, variant : Variants] \cup {None}
    /\ gens \in 0..MaxGens
    /\ cancelled \subseteq 1..gens
    /\ procs \in [Workers -> [pc : Pcs, gen : 0..MaxGens, ticker : BOOLEAN, read : Dirs \cup {None}]]
    /\ cwd \in Dirs
    /\ bus \in Seq(Snapshots) /\ Len(bus) <= BusCap
    /\ shown \in Snapshots \cup {None}

Free == {w \in Workers : procs[w].pc = "free"}
-------------------------------------------------------------------------------
(* The manager: stop and start, on the event loop. *)

StopWithoutCancel == cancelled' = cancelled               \* mutant: forgets the entry only

Stop == cancelled' = cancelled \cup (IF entry = None THEN {} ELSE {entry.gen})

Ticker(gen) == [pc |-> "wait", gen |-> gen, ticker |-> TRUE, read |-> None]
Once(gen) == [pc |-> "refresh", gen |-> gen, ticker |-> FALSE, read |-> None]

\* The ticker and the first sample; which of the free workers makes no difference.
Started(p, gen) ==
    LET t == CHOOSE w \in Workers : p[w].pc = "free"
        o == CHOOSE w \in Workers \ {t} : p[w].pc = "free"
    IN  [p EXCEPT ![t] = Ticker(gen), ![o] = Once(gen)]

\* start: the probe runs first; what is not available is not polled.
StartModule(variant) ==
    \/ /\ entry' = None                                   \* probe.Available is false
       /\ UNCHANGED <<gens, procs>>
    \/ /\ gens < MaxGens
       /\ gens' = gens + 1
       /\ entry' = [gen |-> gens', variant |-> variant]
       /\ Cardinality(Free) >= 2
       /\ procs' = Started(procs, gens')

RunsAs(variant) == entry # None /\ entry.variant = variant

\* reconcileOne
Reconcile(new) ==
    \/ /\ ~new.enabled
       /\ Stop
       /\ entry' = None
       /\ UNCHANGED <<gens, procs>>
    \/ /\ new.enabled
       /\ RunsAs(new.variant)
       /\ UNCHANGED <<entry, gens, cancelled, procs>>
    \/ /\ new.enabled
       /\ ~RunsAs(new.variant)
       /\ Stop
       /\ StartModule(new.variant)

Init ==
    /\ cfg \in [enabled : BOOLEAN, variant : {First}]
    /\ cwd = Home
    /\ bus = <<>> /\ shown = None
    /\ changes = 0 /\ reloads = 0
    /\ cancelled = {}
    /\ \/ /\ entry = None                            \* disabled, or not available
          /\ gens = 0
          /\ procs = [w \in Workers |-> Idle]
       \/ /\ cfg.enabled
          /\ gens = 1
          /\ entry = [gen |-> 1, variant |-> cfg.variant]
          /\ procs = Started([w \in Workers |-> Idle], 1)

\* updateModules, after --reload or a change of overlay.
UpdateModules ==
    /\ reloads < MaxReloads
    /\ reloads' = reloads + 1
    /\ cfg' \in Configs
    /\ Reconcile(cfg')
    /\ UNCHANGED <<cwd, bus, shown, changes>>

\* The shell reports its directory: the holder is stored, then OnCWDChange.
ChangeDir ==
    /\ changes < MaxChanges
    /\ changes' = changes + 1
    /\ cwd' \in Dirs \ {cwd}
    /\ IF entry = None THEN UNCHANGED procs
       ELSE /\ Free # {}
            /\ procs' = [procs EXCEPT ![CHOOSE w \in Free : TRUE] = Once(entry.gen)]
    /\ UNCHANGED <<cfg, entry, gens, cancelled, bus, shown, reloads>>

\* The loop takes a ModuleUpdated event: StatusState.UpdateModule.
ModuleUpdated ==
    /\ bus # <<>>
    /\ bus' = Tail(bus)
    /\ shown' = Head(bus)
    /\ UNCHANGED <<cfg, entry, gens, cancelled, procs, cwd, changes, reloads>>
-------------------------------------------------------------------------------
(* The goroutines *)

Local == UNCHANGED <<cfg, entry, gens, cancelled, cwd, shown, changes, reloads>>
Goes(w, pc, read) == procs' = [procs EXCEPT ![w].pc = pc, ![w].read = read]

\* The ticker's select may take the tick even when the context is done.
TickerFires(w) ==
    /\ procs[w].pc = "wait"
    /\ Goes(w, "refresh", None)
    /\ UNCHANGED bus /\ Local

TickerStops(w) ==
    /\ procs[w].pc = "wait"
    /\ procs[w].gen \in cancelled
    /\ procs' = [procs EXCEPT ![w] = Idle]
    /\ UNCHANGED bus /\ Local

\* The sampler reads the current directory; the snapshot is the result ...
Sample(w) ==
    /\ procs[w].pc = "refresh"
    /\ Goes(w, "emit", cwd)
    /\ UNCHANGED bus /\ Local

\* ... unless it fails, or the timeout or the cancellation comes first, at the
\* latest when the result is there as well: then it is a stale one.
Overrun(w) ==
    /\ procs[w].pc = "refresh" \/ procs[w].read # None
    /\ Goes(w, "emit", None)
    /\ UNCHANGED bus /\ Local

EmitAndEnd(w) ==                                          \* mutant: the ticker returns
    /\ procs[w].pc = "emit"
    /\ Len(bus) < BusCap
    /\ bus' = Append(bus, [gen |-> procs[w].gen, read |-> procs[w].read])
    /\ procs' = [procs EXCEPT ![w] = Idle]
    /\ Local

\* scheduler.emit: SendCtx waits for room.  Its context is that of the program,
\* so what a stopped module found is sent all the same.
Emit(w) ==
    /\ procs[w].pc = "emit"
    /\ Len(bus) < BusCap
    /\ bus' = Append(bus, [gen |-> procs[w].gen, read |-> procs[w].read])
    /\ procs' = [procs EXCEPT ![w] = IF @.ticker THEN Ticker(@.gen) ELSE Idle]
    /\ Local
-------------------------------------------------------------------------------
Goroutine(w) == TickerFires(w) \/ TickerStops(w) \/ Sample(w) \/ Overrun(w) \/ Emit(w)

Next ==
    \/ UpdateModules
    \/ ChangeDir
    \/ ModuleUpdated
    \/ \E w \in Workers : Goroutine(w)

Spec == Init /\ [][Next]_vars

\* The loop and the goroutines run, and tickers tick; a select with both cases
\* ready does not always choose the same one.
Fairness ==
    /\ WF_vars(ModuleUpdated)
    /\ \A w \in Workers :
           /\ WF_vars(TickerFires(w) \/ Sample(w) \/ Overrun(w))
           /\ SF_vars(TickerStops(w))
           /\ SF_vars(Emit(w))

FairSpec == Spec /\ Fairness
-------------------------------------------------------------------------------
\* What runs is what the configuration asks for, however often it changes: the
\* only goroutines whose context is not cancelled are those of the entry, which
\* has exactly one ticker; there is no entry for a disabled module, nor one with
\* another interval or format.  (reconcileOne, start, stop.)
OnlyTheEntryRuns ==
    /\ \A w \in Workers : procs[w].pc # "free" /\ procs[w].gen \notin cancelled
                              => entry # None /\ entry.gen = procs[w].gen
    /\ entry # None =>
           /\ cfg.enabled
           /\ entry.variant = cfg.variant
           /\ entry.gen \notin cancelled
           /\ Cardinality({w \in Workers : procs[w].ticker /\ procs[w].gen = entry.gen}) = 1

\* However late the results of stopped modules and of earlier directories come,
\* once configuration and directory stay the same the bar ends up with what the
\* running module found in the current directory, or with its failure to do so.
\* (The ticker and RefreshOnce write the same entry of StatusState, unordered.)
BarCatchesUp ==
    <>[](entry # None => /\ shown # None
                         /\ shown.gen = entry.gen
                         /\ shown.read \in {cwd, None})
-------------------------------------------------------------------------------
(* Why OnlyTheEntryRuns holds. *)

\* No module is older than the first or younger than the last started.
GensAreStarted ==
    /\ \A w \in Workers : procs[w].gen \in 0..gens
    /\ entry # None => entry.gen \in 1..gens

\* A goroutine that is gone has no locals.
FreeIsIdle == \A w \in Workers : procs[w].pc = "free" => procs[w] = Idle

\* Without a cancelled context a goroutine is the entry's.
RunningIsTheEntrys ==
    \A w \in Workers : procs[w].pc # "free" /\ procs[w].gen \notin cancelled
                           => entry # None /\ entry.gen = procs[w].gen

\* The entry is as configured, runs, and has one ticker.
EntryIsConfigured ==
    entry # None => /\ cfg.enabled
                    /\ entry.variant = cfg.variant
                    /\ entry.gen \notin cancelled
EntryHasOneTicker ==
    entry # None =>
        \E t \in Workers : {w \in Workers : procs[w].ticker /\ procs[w].gen = entry.gen} = {t}

IInv == /\ GensAreStarted /\ FreeIsIdle
        /\ RunningIsTheEntrys /\ EntryIsConfigured /\ EntryHasOneTicker
===============================================================================
