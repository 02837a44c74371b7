-------------------------- MODULE ProbeModulesProofs --------------------------
(***************************************************************************)
(* Proofs about starting and stopping a probe module, for any number of    *)
(* goroutines, directories, intervals and formats, any bus capacity, and   *)
(* any number of reloads and directory changes.                            *)
(***************************************************************************)
EXTENDS ProbeModules, FiniteSetTheorems, TLAPS

USE ProbeModulesAssumption

Procs == [pc : Pcs, gen : 0..MaxGens, ticker : BOOLEAN, read : Dirs \cup {None}]

Entries == [gen : 1..MaxGens, variant : Variants]

\* There being an entry can be told from there being none.
LEMMA EntryIsSomething == ASSUME NEW e \in Entries PROVE e # None
  BY DEF Entries

\* What a goroutine is when there is none, and when start or RefreshOnce makes one.
LEMMA NewGoroutines ==
    ASSUME NEW gen \in 1..MaxGens
    PROVE  /\ {Idle, Ticker(gen), Once(gen)} \subseteq Procs
           /\ Idle.pc = "free" /\ Idle.gen = 0 /\ ~Idle.ticker
           /\ Ticker(gen).pc = "wait" /\ Ticker(gen).gen = gen /\ Ticker(gen).ticker
           /\ Once(gen).pc = "refresh" /\ Once(gen).gen = gen /\ ~Once(gen).ticker
  BY DEF Idle, Ticker, Once, Procs, Pcs

\* start always finds two different idle goroutines for its ticker and its sample.
LEMMA StartedTakesTwo ==
    ASSUME NEW p \in [Workers -> Procs], NEW gen \in 1..MaxGens,
           Cardinality({w \in Workers : p[w].pc = "free"}) >= 2
    PROVE  \E t \in Workers, o \in Workers :
               /\ t # o /\ p[t].pc = "free" /\ p[o].pc = "free"
               /\ Started(p, gen) = [p EXCEPT ![t] = Ticker(gen), ![o] = Once(gen)]
  <1> DEFINE F == {w \in Workers : p[w].pc = "free"}
             t == CHOOSE w \in Workers : p[w].pc = "free"
             o == CHOOSE w \in Workers \ {t} : p[w].pc = "free"
  <1>1. F # {} /\ F # {t}
    <2>1. Cardinality(F) >= 2
      OBVIOUS
    <2> HIDE DEF F, t
    <2>2. CASE F = {}
      BY <2>1, <2>2, FS_EmptySet
    <2>3. CASE F = {t}
      <3>1. Cardinality({t}) = 1
        BY FS_Singleton
      <3> QED
        BY <2>1, <2>3, <3>1
    <2> QED
      BY <2>2, <2>3
  <1>2. t \in F
    BY <1>1
  <1>3. o \in F /\ o # t
    <2>1. \E w \in Workers \ {t} : p[w].pc = "free"
      BY <1>1, <1>2
    <2> QED
      BY <2>1
  <1>4. Started(p, gen) = [p EXCEPT ![t] = Ticker(gen), ![o] = Once(gen)]
    BY DEF Started
  <1> QED
    BY <1>2, <1>3, <1>4
-------------------------------------------------------------------------------
\* A step of the goroutine w, which becomes r, on which the entry does not depend.
LEMMA OneGoroutine ==
    ASSUME TypeOK, IInv, UNCHANGED <<cfg, entry, gens, cancelled>>,
           NEW w \in Workers, NEW r \in Procs, procs' = [procs EXCEPT ![w] = r],
           r.pc = "free" => r = Idle,
           r.gen \in 0..gens,
           r.pc # "free" /\ r.gen \notin cancelled => entry # None /\ entry.gen = r.gen,
           entry # None => ((r.ticker /\ r.gen = entry.gen)
                               <=> (procs[w].ticker /\ procs[w].gen = entry.gen))
    PROVE  procs' \in [Workers -> Procs] /\ IInv'
  <1> USE DEF TypeOK, IInv
  <1>1. procs' \in [Workers -> Procs]
    BY DEF Procs
  <1>2. \A v \in Workers : procs'[v] = IF v = w THEN r ELSE procs[v]
    BY DEF Procs
  <1>3. GensAreStarted'
    BY <1>2 DEF GensAreStarted
  <1>4. FreeIsIdle'
    BY <1>2 DEF FreeIsIdle, Idle
  <1>5. RunningIsTheEntrys'
    BY <1>2 DEF RunningIsTheEntrys
  <1>6. EntryIsConfigured'
    BY DEF EntryIsConfigured
  <1>7. EntryHasOneTicker'
    <2>1. entry # None =>
              {v \in Workers : procs'[v].ticker /\ procs'[v].gen = entry.gen}
                  = {v \in Workers : procs[v].ticker /\ procs[v].gen = entry.gen}
      BY <1>2
    <2> QED
      BY <2>1 DEF EntryHasOneTicker
  <1> QED
    BY <1>1, <1>3, <1>4, <1>5, <1>6, <1>7

\* At start there is a module only when it is enabled and available.
LEMMA InvInit == Init => TypeOK /\ IInv
  <1> SUFFICES ASSUME Init PROVE TypeOK /\ IInv
    OBVIOUS
  <1> DEFINE idle == [w \in Workers |-> Idle]
  <1>1. idle \in [Workers -> Procs]
    BY DEF Idle, Procs, Pcs
  <1>2. bus \in Seq(Snapshots) /\ Len(bus) <= BusCap
    BY DEF Init
  <1>3. CASE entry = None /\ gens = 0 /\ procs = idle
    <2>1. TypeOK
      BY <1>1, <1>2, <1>3 DEF Init, TypeOK, Configs, Procs
    <2>2. IInv
      BY <1>3 DEF IInv, GensAreStarted, FreeIsIdle, RunningIsTheEntrys, EntryIsConfigured,
                  EntryHasOneTicker, Idle
    <2> QED
      BY <2>1, <2>2
  <1>4. CASE /\ cfg.enabled /\ gens = 1
             /\ entry = [gen |-> 1, variant |-> cfg.variant]
             /\ procs = Started(idle, 1)
    <2>1. {w \in Workers : idle[w].pc = "free"} = Workers
      BY DEF Idle
    <2>2. PICK t \in Workers, o \in Workers :
              t # o /\ procs = [idle EXCEPT ![t] = Ticker(1), ![o] = Once(1)]
      <3>1. Cardinality({w \in Workers : idle[w].pc = "free"}) >= 2
        BY <2>1
      <3> HIDE DEF idle
      <3> QED
        BY <1>1, <1>4, <3>1, StartedTakesTwo
    <2>3. /\ procs \in [Workers -> Procs]
          /\ \A w \in Workers : procs[w] = IF w = o THEN Once(1)
                                           ELSE IF w = t THEN Ticker(1) ELSE Idle
      BY <1>1, <2>2, NewGoroutines
    <2>4. entry \in Entries
      BY <1>4 DEF Init, Entries, Configs
    <2>5. TypeOK
      BY <1>2, <1>4, <2>3, <2>4 DEF Init, TypeOK, Configs, Procs, Entries
    <2>6. {w \in Workers : procs[w].ticker /\ procs[w].gen = entry.gen} = {t}
      BY <1>4, <2>2, <2>3, NewGoroutines
    <2>7. IInv
      <3>1. GensAreStarted /\ FreeIsIdle
        BY <1>4, <2>3, NewGoroutines DEF GensAreStarted, FreeIsIdle
      <3>2. RunningIsTheEntrys
        BY <1>4, <2>3, <2>4, EntryIsSomething, NewGoroutines DEF RunningIsTheEntrys
      <3>3. EntryIsConfigured
        BY <1>4 DEF Init, EntryIsConfigured
      <3>4. EntryHasOneTicker
        BY <2>6 DEF EntryHasOneTicker
      <3> QED
        BY <3>1, <3>2, <3>3, <3>4 DEF IInv
    <2> QED
      BY <2>5, <2>7
  <1> QED
    BY <1>3, <1>4 DEF Init
-------------------------------------------------------------------------------
\* Stop leaves no goroutine without a cancelled context.
LEMMA StopStopsAll ==
    ASSUME TypeOK, IInv, Stop
    PROVE  /\ cancelled' \subseteq 1..gens
           /\ \A w \in Workers : procs[w].pc # "free" => procs[w].gen \in cancelled'
  <1>1. CASE entry = None
    BY <1>1 DEF Stop, TypeOK, IInv, RunningIsTheEntrys
  <1>2. CASE entry # None
    BY <1>2 DEF Stop, TypeOK, IInv, RunningIsTheEntrys, GensAreStarted
  <1> QED
    BY <1>1, <1>2

\* Without an entry, and with everything stopped, nothing else has to hold.
LEMMA NothingRuns ==
    ASSUME TypeOK, IInv, Stop, entry' = None, UNCHANGED <<gens, procs>>
    PROVE  IInv'
  BY StopStopsAll DEF IInv, GensAreStarted, FreeIsIdle, RunningIsTheEntrys, EntryIsConfigured,
                      EntryHasOneTicker

\* A module that starts is younger than every goroutine and than every context
\* that is cancelled.
LEMMA NewModuleRuns ==
    ASSUME TypeOK, IInv, Stop, cfg' \in Configs, cfg'.enabled,
           gens < MaxGens, gens' = gens + 1,
           entry' = [gen |-> gens', variant |-> cfg'.variant],
           Cardinality(Free) >= 2, procs' = Started(procs, gens')
    PROVE  /\ entry' \in Entries
           /\ procs' \in [Workers -> Procs]
           /\ IInv'
  <1> DEFINE g == gens + 1
  <1>1. g \in 1..MaxGens /\ procs \in [Workers -> Procs]
    BY DEF TypeOK, Procs
  <1>2. PICK t \in Workers, o \in Workers :
            /\ t # o
            /\ procs' = [procs EXCEPT ![t] = Ticker(g), ![o] = Once(g)]
    BY <1>1, StartedTakesTwo DEF Free
  <1>3. /\ procs' \in [Workers -> Procs]
        /\ \A w \in Workers : procs'[w] = IF w = o THEN Once(g)
                                          ELSE IF w = t THEN Ticker(g) ELSE procs[w]
    BY <1>1, <1>2, NewGoroutines
  <1>4. entry' \in Entries
    BY <1>1 DEF Configs, Entries
  <1>5. g \notin cancelled'
    BY <1>1, StopStopsAll DEF TypeOK
  <1>6. GensAreStarted'
    <2>1. gens \in Nat /\ \A w \in Workers : procs[w].gen \in 0..gens
      BY DEF TypeOK, IInv, GensAreStarted
    <2>2. \A w \in Workers : procs'[w].gen \in 0..g
      BY <1>1, <1>3, <2>1, NewGoroutines
    <2>3. entry'.gen \in 1..g
      BY <2>1
    <2> QED
      BY <2>2, <2>3 DEF GensAreStarted
  <1>7. FreeIsIdle'
    BY <1>1, <1>3, NewGoroutines DEF FreeIsIdle, IInv
  <1>8. RunningIsTheEntrys'
    BY <1>1, <1>3, <1>4, EntryIsSomething, NewGoroutines, StopStopsAll DEF RunningIsTheEntrys
  <1>9. EntryIsConfigured'
    BY <1>5 DEF EntryIsConfigured
  <1>10. EntryHasOneTicker'
    <2>1. \A w \in Workers : procs[w].gen # g
      BY <1>1 DEF IInv, GensAreStarted, TypeOK
    <2>2. {w \in Workers : procs'[w].ticker /\ procs'[w].gen = entry'.gen} = {t}
      BY <1>1, <1>2, <1>3, <2>1, NewGoroutines
    <2> QED
      BY <2>2 DEF EntryHasOneTicker
  <1> QED
    BY <1>3, <1>4, <1>6, <1>7, <1>8, <1>9, <1>10 DEF IInv
-------------------------------------------------------------------------------
\* Every step of the loop and of a goroutine keeps the invariant.
LEMMA InvStep == TypeOK /\ IInv /\ [Next]_vars => TypeOK' /\ IInv'
  <1> SUFFICES ASSUME TypeOK, IInv, [Next]_vars PROVE TypeOK' /\ IInv'
    OBVIOUS
  <1>1. CASE UpdateModules
    <2>1. cfg' \in Configs /\ Reconcile(cfg') /\ UNCHANGED <<cwd, bus, shown>>
      BY <1>1 DEF UpdateModules
    <2>2. CASE Stop /\ entry' = None /\ UNCHANGED <<gens, procs>>
      BY <2>1, <2>2, StopStopsAll, NothingRuns DEF TypeOK
    <2>3. CASE cfg'.enabled /\ RunsAs(cfg'.variant) /\ UNCHANGED <<entry, gens, cancelled, procs>>
      <3>1. TypeOK'
        BY <2>1, <2>3 DEF TypeOK
      <3>2. IInv'
        BY <2>3 DEF IInv, GensAreStarted, FreeIsIdle, RunningIsTheEntrys, EntryIsConfigured,
                    EntryHasOneTicker, RunsAs
      <3> QED
        BY <3>1, <3>2
    <2>4. CASE /\ cfg'.enabled /\ Stop
               /\ gens < MaxGens /\ gens' = gens + 1
               /\ entry' = [gen |-> gens', variant |-> cfg'.variant]
               /\ Cardinality(Free) >= 2 /\ procs' = Started(procs, gens')
      <3>1. entry' \in Entries /\ procs' \in [Workers -> Procs] /\ IInv'
        BY <2>1, <2>4, NewModuleRuns
      <3>2. cancelled' \subseteq 1..gens' /\ gens' \in 0..MaxGens
        BY <2>4, StopStopsAll DEF TypeOK
      <3>3. TypeOK'
        BY <2>1, <3>1, <3>2 DEF TypeOK, Procs, Entries
      <3> QED
        BY <3>1, <3>3
    <2> QED
      BY <2>1, <2>2, <2>3, <2>4 DEF Reconcile, StartModule
  <1>2. CASE ChangeDir
    <2>1. CASE entry = None
      <3>1. UNCHANGED <<cfg, entry, gens, cancelled, procs, bus, shown>> /\ cwd' \in Dirs
        BY <1>2, <2>1 DEF ChangeDir
      <3> QED
        BY <3>1 DEF TypeOK, IInv, GensAreStarted, FreeIsIdle, RunningIsTheEntrys,
                    EntryIsConfigured, EntryHasOneTicker
    <2>2. CASE entry # None
      <3> DEFINE f == CHOOSE w \in Free : TRUE
      <3>1. /\ UNCHANGED <<cfg, entry, gens, cancelled, bus, shown>> /\ cwd' \in Dirs
            /\ Free # {} /\ procs' = [procs EXCEPT ![f] = Once(entry.gen)]
        BY <1>2, <2>2 DEF ChangeDir
      <3>2. f \in Workers /\ procs[f] = Idle
        BY <3>1 DEF Free, IInv, FreeIsIdle
      <3>3. Once(entry.gen) \in Procs /\ entry.gen \in 0..gens
        BY <2>2 DEF TypeOK, IInv, GensAreStarted, Once, Procs, Pcs
      <3>4. procs' \in [Workers -> Procs] /\ IInv'
        <4> DEFINE r == Once(entry.gen)
        <4>1. r.pc = "refresh" /\ r.gen = entry.gen /\ ~r.ticker /\ ~procs[f].ticker
          BY <3>2 DEF Once, Idle
        <4> HIDE DEF r, f
        <4> QED
          BY <2>2, <3>1, <3>2, <3>3, <4>1, OneGoroutine DEF r
      <3> QED
        BY <3>1, <3>4 DEF TypeOK, Procs
    <2> QED
      BY <2>1, <2>2
  <1>3. CASE ModuleUpdated
    <2>1. /\ UNCHANGED <<cfg, entry, gens, cancelled, procs, cwd>>
          /\ bus # <<>> /\ bus' = Tail(bus) /\ shown' = Head(bus)
      BY <1>3 DEF ModuleUpdated
    <2>2. Head(bus) \in Snapshots /\ Tail(bus) \in Seq(Snapshots) /\ Len(Tail(bus)) <= BusCap
      BY <2>1 DEF TypeOK
    <2>3. IInv'
      BY <2>1 DEF IInv, GensAreStarted, FreeIsIdle, RunningIsTheEntrys, EntryIsConfigured,
                  EntryHasOneTicker
    <2> QED
      BY <2>1, <2>2, <2>3 DEF TypeOK
  <1>4. ASSUME NEW w \in Workers, Goroutine(w) PROVE TypeOK' /\ IInv'
    <2>1. UNCHANGED <<cfg, entry, gens, cancelled, cwd, shown>>
      BY <1>4 DEF Goroutine, TickerFires, TickerStops, Sample, Overrun, Emit, Local
    <2>2. procs[w] \in Procs /\ procs[w].gen \in 0..gens
      BY DEF TypeOK, IInv, GensAreStarted, Procs
    <2>3. ASSUME NEW pc \in {"refresh", "emit"}, NEW read \in Dirs \cup {None},
                 procs[w].pc # "free", Goes(w, pc, read)
          PROVE  procs' \in [Workers -> Procs] /\ IInv'
      <3> DEFINE r == [procs[w] EXCEPT !.pc = pc, !.read = read]
      <3>1. /\ r \in Procs /\ r.pc = pc
            /\ r.gen = procs[w].gen /\ r.ticker = procs[w].ticker
        BY <2>2 DEF Procs, Pcs
      <3>2. procs' = [procs EXCEPT ![w] = r]
        BY <2>3 DEF Goes, TypeOK
      <3>3. procs[w].gen \notin cancelled => entry # None /\ entry.gen = procs[w].gen
        BY <2>3 DEF IInv, RunningIsTheEntrys
      <3> HIDE DEF r
      <3> QED
        BY <2>1, <2>2, <2>3, <3>1, <3>2, <3>3, OneGoroutine
    <2>4. CASE TickerFires(w) \/ Sample(w) \/ Overrun(w)
      <3>1. bus' = bus /\ cwd \in Dirs
        BY <2>4 DEF TickerFires, Sample, Overrun, TypeOK
      <3>2. procs' \in [Workers -> Procs] /\ IInv'
        <4>1. CASE TickerFires(w)
          BY <2>3, <4>1 DEF TickerFires
        <4>2. CASE Sample(w)
          BY <2>3, <3>1, <4>2 DEF Sample
        <4>3. CASE Overrun(w)
          <5>1. procs[w].pc # "free"
            BY <4>3 DEF Overrun, IInv, FreeIsIdle, Idle
          <5> QED
            BY <2>3, <4>3, <5>1 DEF Overrun
        <4> QED
          BY <2>4, <4>1, <4>2, <4>3
      <3> QED
        BY <2>1, <3>1, <3>2 DEF TypeOK, Procs
    <2>5. CASE TickerStops(w)
      <3>1. procs' = [procs EXCEPT ![w] = Idle] /\ bus' = bus /\ procs[w].gen \in cancelled
        BY <2>5 DEF TickerStops
      <3>2. Idle \in Procs /\ Idle.gen \in 0..gens /\ Idle.pc = "free" /\ ~Idle.ticker
        BY <2>2 DEF Idle, Procs, Pcs, TypeOK
      <3>3. entry # None => entry.gen # procs[w].gen
        BY <3>1 DEF IInv, EntryIsConfigured
      <3>4. procs' \in [Workers -> Procs] /\ IInv'
        BY <2>1, <3>1, <3>2, <3>3, OneGoroutine
      <3> QED
        BY <2>1, <3>1, <3>4 DEF TypeOK, Procs
    <2>6. CASE Emit(w)
      <3> DEFINE r == IF procs[w].ticker THEN Ticker(procs[w].gen) ELSE Idle
                 s == [gen |-> procs[w].gen, read |-> procs[w].read]
      <3>1. /\ procs[w].pc = "emit" /\ Len(bus) < BusCap
            /\ bus' = Append(bus, s) /\ procs' = [procs EXCEPT ![w] = r]
        BY <2>6 DEF Emit, TypeOK
      <3>2. ASSUME procs[w].ticker PROVE procs' \in [Workers -> Procs] /\ IInv'
        <4>1. /\ r \in Procs /\ r.pc = "wait" /\ r.gen = procs[w].gen /\ r.ticker
          BY <2>2, <3>2 DEF Ticker, Procs, Pcs
        <4>2. procs[w].gen \notin cancelled => entry # None /\ entry.gen = procs[w].gen
          BY <3>1 DEF IInv, RunningIsTheEntrys
        <4> HIDE DEF r
        <4> QED
          BY <2>1, <2>2, <3>1, <3>2, <4>1, <4>2, OneGoroutine
      <3>3. ASSUME ~procs[w].ticker PROVE procs' \in [Workers -> Procs] /\ IInv'
        <4>1. r = Idle /\ r \in Procs /\ r.pc = "free" /\ r.gen \in 0..gens /\ ~r.ticker
          BY <2>2, <3>3 DEF Idle, Procs, Pcs, TypeOK
        <4> HIDE DEF r
        <4> QED
          BY <2>1, <2>2, <3>1, <3>3, <4>1, OneGoroutine
      <3>4. procs' \in [Workers -> Procs] /\ IInv'
        BY <3>2, <3>3
      <3>5. s \in Snapshots
        <4>1. procs[w].gen \in 1..MaxGens
          \* no context of a module 0 is cancelled, and the entry is none
          BY <2>2, <3>1 DEF IInv, RunningIsTheEntrys, GensAreStarted, TypeOK
        <4> QED
          BY <2>2, <4>1 DEF Snapshots, Procs
      <3>6. bus' \in Seq(Snapshots) /\ Len(bus') <= BusCap
        BY <3>1, <3>5 DEF TypeOK
      <3> QED
        BY <2>1, <3>4, <3>6 DEF TypeOK, Procs
    <2> QED
      BY <1>4, <2>4, <2>5, <2>6 DEF Goroutine
  <1>5. CASE UNCHANGED vars
    BY <1>5 DEF vars, TypeOK, IInv, GensAreStarted, FreeIsIdle, RunningIsTheEntrys,
                EntryIsConfigured, EntryHasOneTicker
  <1> QED
    BY <1>1, <1>2, <1>3, <1>4, <1>5 DEF Next
-------------------------------------------------------------------------------
\* Why OnlyTheEntryRuns holds: the entry is the youngest module that is not
\* cancelled, and whatever ran before it was cancelled when it started.
THEOREM Invariant == Spec => [](TypeOK /\ IInv)
  BY InvInit, InvStep, PTL DEF Spec

\* The manager's entry, the contexts and the goroutines keep their types.
THEOREM TypeCorrect == Spec => []TypeOK
  BY Invariant, PTL

\* However the configuration changes, what runs is what it asks for, with
\* exactly one ticker (reconcileOne, start, stop).
THEOREM RunsOnlyTheEntry == Spec => []OnlyTheEntryRuns
  <1>1. TypeOK /\ IInv => OnlyTheEntryRuns
    <2> SUFFICES ASSUME IInv PROVE OnlyTheEntryRuns
      OBVIOUS
    <2>1. entry # None =>
              Cardinality({w \in Workers : procs[w].ticker /\ procs[w].gen = entry.gen}) = 1
      BY FS_Singleton DEF IInv, EntryHasOneTicker
    <2> QED
      BY <2>1 DEF IInv, RunningIsTheEntrys, EntryIsConfigured, OnlyTheEntryRuns
  <1> QED
    BY <1>1, Invariant, PTL
===============================================================================
