------------------------------ MODULE AppProofs ------------------------------
(***************************************************************************)
(* Proofs about internal/app.  First about the configuration in force      *)
(* (ConfigOverlay): types, where commands come from, that what the base    *)
(* file turns off stays off, and whose overlay is in use.  Then about the  *)
(* life of the process (Lifecycle), for any capacity of the bus and any    *)
(* number of images, chunks of output, keys, sizes and signals.            *)
(***************************************************************************)
EXTENDS ConfigOverlay, Lifecycle, SequenceTheorems, TLAPS

\* Whether c is a configuration whose modules execute what those of base do.
SameCommands(m, n) ==
    \A id \in Ids : m[id].command = n[id].command /\ m[id].source = n[id].source

\* What enables a module that was off: an overlay, or a reference that D does
\* not forbid.
EnabledOnlyBy(m, n, D, on) ==
    \A id \in D : m[id].enabled => n[id].enabled \/ id \in on

Accumulated == [ok : BOOLEAN, cfg : Config, disabled : SUBSET Ids]
FileOrNot == File \cup {None, Missing, Malformed}
-------------------------------------------------------------------------------
(* The loader. *)

\* Parsing a well-formed file gives a configuration.
LEMMA ParseType == ASSUME NEW f \in File PROVE Parse(f) \in Config
<1>1. \A id \in Ids : Parse(f).mods[id] \in Setting
  <2> TAKE id \in Ids
  <2>1. CASE id \in Listed(f)
    <3>1. f.mods[id] \in Entry
      BY <2>1 DEF File, Listed
    <3>2. Parse(f).mods[id] = [f.mods[id] EXCEPT !.enabled = (@ = "on")]
      BY <2>1 DEF Parse
    <3> QED BY <3>1, <3>2 DEF Entry, Setting
  <2>2. CASE id \notin Listed(f)
    BY <2>2, LoaderAssumption DEF Parse
  <2> QED BY <2>1, <2>2
<1> QED
  BY <1>1, LoaderAssumption DEF Parse, Config, File

\* Inference keeps commands and enables nothing that is explicitly off.
LEMMA InferProperties ==
  ASSUME NEW m \in [Ids -> Setting], NEW bar \in SUBSET Ids, NEW D \in SUBSET Ids
  PROVE  /\ InferActiveModules(m, bar, D) \in [Ids -> Setting]
         /\ SameCommands(InferActiveModules(m, bar, D), m)
         /\ EnabledOnlyBy(InferActiveModules(m, bar, D), m, D, {})
<1> DEFINE on == Referenced(m, bar, D)
           n == InferActiveModules(m, bar, D)
<1>1. \A id \in Ids : n[id] = [m[id] EXCEPT !.enabled = @ \/ id \in on]
  BY DEF InferActiveModules
<1>2. ClosedUnder(m, bar, D, Ids \ D)
  BY DEF ClosedUnder, Setting
<1>3. \A id \in D : id \notin on
  BY <1>2 DEF Referenced
<1>4. \A id \in Ids : n[id] \in Setting
  <2> TAKE id \in Ids
  <2>1. n[id] = [m[id] EXCEPT !.enabled = @ \/ id \in on] /\ m[id] \in Setting
    BY <1>1
  <2>2. n[id] = [m[id] EXCEPT !.enabled = (m[id].enabled \/ id \in on)]
    BY <2>1
  <2>3. (m[id].enabled \/ id \in on) \in BOOLEAN
    OBVIOUS
  <2> QED BY <2>1, <2>2, <2>3 DEF Setting
<1>5. n \in [Ids -> Setting]
  BY <1>4 DEF InferActiveModules
<1>6. SameCommands(n, m)
  BY <1>1 DEF SameCommands, Setting
<1>7. EnabledOnlyBy(n, m, D, {})
  BY <1>1, <1>3 DEF EnabledOnlyBy, Setting
<1> QED BY <1>5, <1>6, <1>7

\* Merging an overlay that is in scope keeps commands.
LEMMA MergeProperties ==
  ASSUME NEW c \in Config, NEW f \in File, ValidateOverlayScope(f)
  PROVE  /\ MergeOverlay(c, f) \in Config
         /\ SameCommands(MergeOverlay(c, f).mods, c.mods)
         /\ EnabledOnlyBy(MergeOverlay(c, f).mods, c.mods, Ids, Explicitly(f, "on"))
<1> DEFINE r == MergeOverlay(c, f)
<1>1. \A id \in Ids : c.mods[id] \in Setting
  BY DEF Config
<1>2. \A id \in Ids : id \notin Listed(f) => r.mods[id] = c.mods[id]
  BY DEF MergeOverlay
<1>3. ASSUME NEW id \in Listed(f)
      PROVE  /\ r.mods[id] \in Setting
             /\ r.mods[id].command = c.mods[id].command
             /\ r.mods[id].source = c.mods[id].source
             /\ r.mods[id].enabled => c.mods[id].enabled \/ id \in Explicitly(f, "on")
  <2> DEFINE e == f.mods[id]
  <2>1. id \in Ids /\ e \in Entry
    BY DEF Listed, File
  <2>2. e.source = ""
    BY DEF ValidateOverlayScope
  <2>3. r.mods[id] = MergeModuleConfig(c.mods[id], e)
    BY <2>1 DEF MergeOverlay
  <2> DEFINE en == IF e.enabled = "unset" THEN c.mods[id].enabled ELSE e.enabled = "on"
  <2>a. en \in BOOLEAN
    BY <1>1, <2>1 DEF Setting
  <2>4. MergeModuleConfig(c.mods[id], e) =
          [enabled |-> en,
           source  |-> c.mods[id].source,
           command |-> c.mods[id].command,
           format  |-> IF e.format = {} THEN c.mods[id].format ELSE e.format,
           width   |-> IF e.width = 0 THEN c.mods[id].width ELSE e.width]
    <3> DEFINE src == IF e.source = "" THEN c.mods[id].source ELSE e.source
               fmt == IF e.format = {} THEN c.mods[id].format ELSE e.format
               wid == IF e.width = 0 THEN c.mods[id].width ELSE e.width
    <3>1. MergeModuleConfig(c.mods[id], e) =
            [c.mods[id] EXCEPT !.enabled = en, !.source = src, !.format = fmt, !.width = wid]
      BY Zenon DEF MergeModuleConfig
    <3>2. src = c.mods[id].source
      BY <2>2
    <3> HIDE DEF en, src, fmt, wid
    <3>3. MergeModuleConfig(c.mods[id], e) =
            [enabled |-> en, source |-> src, command |-> c.mods[id].command,
             format |-> fmt, width |-> wid]
      BY <1>1, <2>1, <2>a, <3>1 DEF Setting
    <3> QED BY <3>2, <3>3 DEF fmt, wid
  <2> HIDE DEF en
  <2>5. r.mods[id] \in Setting
    BY <1>1, <2>1, <2>3, <2>4, <2>a DEF Setting, Entry
  <2>6. /\ r.mods[id].command = c.mods[id].command
        /\ r.mods[id].source = c.mods[id].source
    BY <2>3, <2>4
  <2>7. r.mods[id].enabled => c.mods[id].enabled \/ id \in Explicitly(f, "on")
    <3> SUFFICES ASSUME r.mods[id].enabled, ~(c.mods[id].enabled) PROVE id \in Explicitly(f, "on")
      OBVIOUS
    <3>1. en
      BY <2>3, <2>4
    <3>2. e.enabled = "on"
      BY <3>1, Zenon DEF en
    <3> QED BY <3>2 DEF Explicitly
  <2> QED BY <2>5, <2>6, <2>7
<1>4. Listed(f) \subseteq Ids
  BY DEF Listed
<1>5. \A id \in Ids : r.mods[id] \in Setting
  BY <1>1, <1>2, <1>3
<1>6. r \in Config
  BY <1>5 DEF MergeOverlay, Config, File
<1>7. SameCommands(r.mods, c.mods)
  BY <1>2, <1>3 DEF SameCommands
<1>8. EnabledOnlyBy(r.mods, c.mods, Ids, Explicitly(f, "on"))
  BY <1>2, <1>3 DEF EnabledOnlyBy
<1> QED BY <1>6, <1>7, <1>8

\* One round of the loop.
LEMMA ApplyOneProperties ==
  ASSUME NEW acc \in Accumulated, NEW f \in FileOrNot
  PROVE  LET r == ApplyOne(acc, f) IN
         /\ r \in Accumulated
         /\ SameCommands(r.cfg.mods, acc.cfg.mods)
         /\ EnabledOnlyBy(r.cfg.mods, acc.cfg.mods, Ids, SetOn(f))
         /\ acc.disabled \ SetOn(f) \subseteq r.disabled
<1> DEFINE r == ApplyOne(acc, f)
<1>0. acc.cfg \in Config /\ acc.disabled \in SUBSET Ids
  BY DEF Accumulated
<1>1. CASE ~acc.ok \/ f = None
  <2>1. r = acc
    BY <1>1 DEF ApplyOne
  <2> QED BY <2>1 DEF SameCommands, EnabledOnlyBy
<1>2. CASE ~(~acc.ok \/ f = None) /\ (f \in {Missing, Malformed} \/ ~ValidateOverlayScope(f))
  <2>1. r = [acc EXCEPT !.ok = FALSE]
    BY <1>2 DEF ApplyOne
  <2>2. r.cfg = acc.cfg /\ r.disabled = acc.disabled /\ r \in Accumulated
    BY <2>1 DEF Accumulated
  <2> QED BY <2>2 DEF SameCommands, EnabledOnlyBy
<1>3. CASE acc.ok /\ f # None /\ f \notin {Missing, Malformed} /\ ValidateOverlayScope(f)
  <2>1. f \in File /\ SetOn(f) = Explicitly(f, "on")
    BY <1>3 DEF FileOrNot, SetOn
  <2> DEFINE c == MergeOverlay(acc.cfg, f)
             D == (acc.disabled \ Explicitly(f, "on")) \cup Explicitly(f, "off")
  <2>2. r = [acc EXCEPT !.cfg = c, !.disabled = D]
    BY <1>3 DEF ApplyOne
  <2>3. /\ c \in Config
        /\ SameCommands(c.mods, acc.cfg.mods)
        /\ EnabledOnlyBy(c.mods, acc.cfg.mods, Ids, Explicitly(f, "on"))
    BY <1>0, <1>3, <2>1, MergeProperties
  <2>4. D \in SUBSET Ids
    BY <1>0 DEF Explicitly, Listed
  <2> HIDE DEF c, D
  <2>5. r.cfg = c /\ r.disabled = D /\ r \in Accumulated
    BY <2>2, <2>3, <2>4 DEF Accumulated
  <2>6. acc.disabled \ SetOn(f) \subseteq D
    BY <2>1 DEF D
  <2> QED BY <2>1, <2>3, <2>5, <2>6
<1> QED BY <1>1, <1>2, <1>3

\* Merging any two files, readable or not, over a base.
LEMMA ApplyProperties ==
  ASSUME NEW base \in Config, NEW D \in SUBSET Ids,
         NEW cli \in FileOrNot, NEW project \in FileOrNot
  PROVE  LET r == ApplyOverlays(base, D, cli, project) IN
         /\ r \in Accumulated
         /\ SameCommands(r.cfg.mods, base.mods)
         /\ EnabledOnlyBy(r.cfg.mods, base.mods, D, SetOn(cli) \cup SetOn(project))
         /\ r.ok => Validate(r.cfg.mods)
<1> DEFINE acc0 == [ok |-> TRUE, cfg |-> base, disabled |-> D]
           acc1 == ApplyOne(acc0, cli)
           acc2 == ApplyOne(acc1, project)
           mm   == InferActiveModules(acc2.cfg.mods, acc2.cfg.bar, acc2.disabled)
           r    == ApplyOverlays(base, D, cli, project)
<1>1. acc0 \in Accumulated /\ acc0.cfg.mods = base.mods /\ acc0.disabled = D
  BY DEF Accumulated
<1>2. /\ acc1 \in Accumulated
      /\ SameCommands(acc1.cfg.mods, base.mods)
      /\ EnabledOnlyBy(acc1.cfg.mods, base.mods, Ids, SetOn(cli))
      /\ D \ SetOn(cli) \subseteq acc1.disabled
  <2> HIDE DEF acc0
  <2> QED BY <1>1, ApplyOneProperties
<1>3. /\ acc2 \in Accumulated
      /\ SameCommands(acc2.cfg.mods, acc1.cfg.mods)
      /\ EnabledOnlyBy(acc2.cfg.mods, acc1.cfg.mods, Ids, SetOn(project))
      /\ acc1.disabled \ SetOn(project) \subseteq acc2.disabled
  <2> HIDE DEF acc1
  <2> QED BY <1>2, ApplyOneProperties
<1>4. r = IF ~acc2.ok THEN acc2 ELSE [acc2 EXCEPT !.cfg.mods = mm, !.ok = Validate(mm)]
  BY DEF ApplyOverlays
<1> HIDE DEF acc1, acc2, r
<1>5. SameCommands(acc2.cfg.mods, base.mods)
  BY <1>2, <1>3 DEF SameCommands
<1>6. EnabledOnlyBy(acc2.cfg.mods, base.mods, Ids, SetOn(cli) \cup SetOn(project))
  BY <1>2, <1>3 DEF EnabledOnlyBy
<1>7. D \ (SetOn(cli) \cup SetOn(project)) \subseteq acc2.disabled
  BY <1>2, <1>3
<1>8. CASE ~acc2.ok
  <2>1. r = acc2
    BY <1>4, <1>8
  <2>2. EnabledOnlyBy(r.cfg.mods, base.mods, D, SetOn(cli) \cup SetOn(project))
    BY <1>6, <2>1 DEF EnabledOnlyBy
  <2> QED BY <1>3, <1>5, <1>8, <2>1, <2>2 DEF r
<1>9. CASE acc2.ok
  <2>1. /\ acc2.cfg \in Config /\ acc2.cfg.mods \in [Ids -> Setting]
        /\ acc2.cfg.bar \in SUBSET Ids /\ acc2.disabled \in SUBSET Ids
    BY <1>3 DEF Accumulated, Config
  <2>2. /\ mm \in [Ids -> Setting]
        /\ SameCommands(mm, acc2.cfg.mods)
        /\ EnabledOnlyBy(mm, acc2.cfg.mods, acc2.disabled, {})
    BY <2>1, InferProperties
  <2> HIDE DEF mm
  <2>3. /\ r.cfg = [acc2.cfg EXCEPT !.mods = mm] /\ r.ok = Validate(mm)
        /\ r.disabled = acc2.disabled
        /\ r = [ok |-> Validate(mm), cfg |-> [acc2.cfg EXCEPT !.mods = mm],
                disabled |-> acc2.disabled]
    BY <1>3, <1>4, <1>9, <2>1 DEF Accumulated
  <2>4. [acc2.cfg EXCEPT !.mods = mm] \in Config /\ r.cfg.mods = mm
    BY <2>1, <2>2, <2>3 DEF Config
  <2>5. Validate(mm) \in BOOLEAN
    BY DEF Validate
  <2>6. r \in Accumulated
    BY <2>1, <2>3, <2>4, <2>5, Zenon DEF Accumulated
  <2>7. SameCommands(mm, base.mods)
    BY <1>5, <2>2 DEF SameCommands
  <2>8. EnabledOnlyBy(mm, base.mods, D, SetOn(cli) \cup SetOn(project))
    BY <1>6, <1>7, <2>2 DEF EnabledOnlyBy
  <2> QED BY <2>3, <2>4, <2>6, <2>7, <2>8 DEF r
<1>10. acc2.ok \in BOOLEAN
  BY <1>3 DEF Accumulated
<1> QED BY <1>8, <1>9, <1>10 DEF r

\* A base configuration: valid if it is accepted, with nothing enabled that
\* the file turns off.
LEMMA LoadProperties ==
  ASSUME NEW f \in File \cup {Missing, Malformed}
  PROVE  LET l == Load(f) IN
         /\ l \in Accumulated
         /\ \A id \in l.disabled : ~l.cfg.mods[id].enabled
<1> DEFINE l == Load(f)
<1>0. DefaultConfig \in Config /\ Default \in Accumulated /\ Default.disabled = {}
  BY LoaderAssumption DEF DefaultConfig, Default, Config, Accumulated
<1>1. CASE f = Missing
  BY <1>0, <1>1 DEF Load
<1>2. CASE f # Missing /\ f = Malformed
  <2>1. l = [Default EXCEPT !.ok = FALSE]
    BY <1>2 DEF Load
  <2> QED BY <1>0, <2>1 DEF Accumulated
<1>3. CASE f # Missing /\ f # Malformed
  <2> DEFINE c    == Parse(f)
             off  == Explicitly(f, "off")
             mm   == InferActiveModules(c.mods, c.bar, off)
             v    == Validate(mm)
  <2>1. f \in File
    BY <1>3
  <2>2. c \in Config
    BY <2>1, ParseType
  <2>3. /\ c.mods \in [Ids -> Setting] /\ c.bar \in SUBSET Ids /\ off \in SUBSET Ids
    BY <2>2 DEF Config, Explicitly, Listed
  <2>4. /\ mm \in [Ids -> Setting]
        /\ EnabledOnlyBy(mm, c.mods, off, {})
    <3> HIDE DEF c, off
    <3> QED BY <2>3, InferProperties
  <2>5. \A id \in off : ~c.mods[id].enabled
    <3> TAKE id \in off
    <3>1. id \in Listed(f) /\ id \in Ids /\ f.mods[id].enabled = "off" /\ f.mods[id] \in Entry
      BY <2>1 DEF Explicitly, Listed, File
    <3>2. c.mods[id] = [f.mods[id] EXCEPT !.enabled = (@ = "on")]
      BY <3>1 DEF Parse
    <3> QED BY <3>1, <3>2 DEF Entry
  <2>6. l = [ok |-> v, cfg |-> [c EXCEPT !.mods = mm], disabled |-> off]
    BY <1>3 DEF Load
  <2>7. v \in BOOLEAN
    BY DEF Validate
  <2> HIDE DEF c, off, mm, v
  <2>8. [c EXCEPT !.mods = mm] \in Config /\ l.cfg.mods = mm /\ l.disabled = off
    BY <2>2, <2>4, <2>6 DEF Config
  <2>9. l \in Accumulated
    BY <2>3, <2>6, <2>7, <2>8 DEF Accumulated
  <2>10. \A id \in off : ~mm[id].enabled
    BY <2>4, <2>5, <2>3 DEF EnabledOnlyBy
  <2> QED BY <2>8, <2>9, <2>10
<1> QED BY <1>1, <1>2, <1>3

SameLayout(c, d) == c.bar = d.bar /\ c.style = d.style

\* Bar and style depend on nothing else of the base.
LEMMA ApplyOneLayout ==
  ASSUME NEW acc \in Accumulated, NEW acd \in Accumulated, NEW f \in FileOrNot,
         acc.ok = acd.ok, SameLayout(acc.cfg, acd.cfg)
  PROVE  /\ ApplyOne(acc, f).ok = ApplyOne(acd, f).ok
         /\ SameLayout(ApplyOne(acc, f).cfg, ApplyOne(acd, f).cfg)
<1>1. CASE ~acc.ok \/ f = None
  BY <1>1 DEF ApplyOne, SameLayout
<1>2. CASE ~(~acc.ok \/ f = None) /\ (f \in {Missing, Malformed} \/ ~ValidateOverlayScope(f))
  <2>1. /\ ApplyOne(acc, f) = [acc EXCEPT !.ok = FALSE]
        /\ ApplyOne(acd, f) = [acd EXCEPT !.ok = FALSE]
    BY <1>2 DEF ApplyOne
  <2> QED BY <2>1 DEF Accumulated, SameLayout
<1>3. CASE acc.ok /\ f # None /\ f \notin {Missing, Malformed} /\ ValidateOverlayScope(f)
  <2> DEFINE D(a) == (a.disabled \ Explicitly(f, "on")) \cup Explicitly(f, "off")
  <2>1. /\ ApplyOne(acc, f) = [acc EXCEPT !.cfg = MergeOverlay(acc.cfg, f), !.disabled = D(acc)]
        /\ ApplyOne(acd, f) = [acd EXCEPT !.cfg = MergeOverlay(acd.cfg, f), !.disabled = D(acd)]
    BY <1>3 DEF ApplyOne
  <2>2. SameLayout(MergeOverlay(acc.cfg, f), MergeOverlay(acd.cfg, f))
    BY DEF SameLayout, MergeOverlay
  <2> HIDE DEF D
  <2>3. /\ ApplyOne(acc, f).ok = acc.ok /\ ApplyOne(acc, f).cfg = MergeOverlay(acc.cfg, f)
        /\ ApplyOne(acd, f).ok = acd.ok /\ ApplyOne(acd, f).cfg = MergeOverlay(acd.cfg, f)
    BY <2>1 DEF Accumulated
  <2> QED BY <2>2, <2>3
<1> QED BY <1>1, <1>2, <1>3

\* The same for both overlays.
LEMMA ApplyLayout ==
  ASSUME NEW base \in Config, NEW D \in SUBSET Ids, NEW other \in Config, NEW E \in SUBSET Ids,
         NEW cli \in FileOrNot, NEW project \in FileOrNot, SameLayout(base, other)
  PROVE  SameLayout(ApplyOverlays(base, D, cli, project).cfg,
                    ApplyOverlays(other, E, cli, project).cfg)
<1> DEFINE a0 == [ok |-> TRUE, cfg |-> base, disabled |-> D]
           b0 == [ok |-> TRUE, cfg |-> other, disabled |-> E]
           a1 == ApplyOne(a0, cli)
           b1 == ApplyOne(b0, cli)
           a2 == ApplyOne(a1, project)
           b2 == ApplyOne(b1, project)
           am == InferActiveModules(a2.cfg.mods, a2.cfg.bar, a2.disabled)
           bm == InferActiveModules(b2.cfg.mods, b2.cfg.bar, b2.disabled)
<1>1. a0 \in Accumulated /\ b0 \in Accumulated /\ a0.ok = b0.ok /\ SameLayout(a0.cfg, b0.cfg)
  BY DEF Accumulated
<1> HIDE DEF a0, b0
<1>2. /\ a1 \in Accumulated /\ b1 \in Accumulated
      /\ a1.ok = b1.ok /\ SameLayout(a1.cfg, b1.cfg)
  BY <1>1, ApplyOneLayout, ApplyOneProperties
<1> HIDE DEF a1, b1
<1>3. /\ a2 \in Accumulated /\ b2 \in Accumulated
      /\ a2.ok = b2.ok /\ SameLayout(a2.cfg, b2.cfg)
  BY <1>2, ApplyOneLayout, ApplyOneProperties
<1>4. /\ ApplyOverlays(base, D, cli, project) =
            IF ~a2.ok THEN a2 ELSE [a2 EXCEPT !.cfg.mods = am, !.ok = Validate(am)]
      /\ ApplyOverlays(other, E, cli, project) =
            IF ~b2.ok THEN b2 ELSE [b2 EXCEPT !.cfg.mods = bm, !.ok = Validate(bm)]
  BY DEF ApplyOverlays, a0, b0, a1, b1
<1> HIDE DEF a2, b2
<1>5. CASE ~a2.ok
  BY <1>3, <1>4, <1>5
<1>6. CASE a2.ok
  <2> HIDE DEF am, bm
  <2>1. /\ ApplyOverlays(base, D, cli, project).cfg = [a2.cfg EXCEPT !.mods = am]
        /\ ApplyOverlays(other, E, cli, project).cfg = [b2.cfg EXCEPT !.mods = bm]
    BY <1>3, <1>4, <1>6 DEF Accumulated
  <2>2. a2.cfg \in Config /\ b2.cfg \in Config
    BY <1>3 DEF Accumulated
  <2> QED BY <1>3, <2>1, <2>2 DEF SameLayout, Config
<1> QED BY <1>5, <1>6
-------------------------------------------------------------------------------
(* The specification. *)

\* The base in use has the layout and the commands of the file it was loaded
\* from.
OverlayInv ==
    /\ OverlayTypeOK
    /\ CommandsAreTheBases /\ InUseIsValid /\ LayoutIsLayered
    /\ cfg.bar = Load(loaded).cfg.bar /\ cfg.style = Load(loaded).cfg.style

\* A directory's overlay is the file of some directory, or none.
LEMMA NearestType == ASSUME NEW d \in Dirs
                     PROVE FindProjectConfig(d) \in Dirs \cup {None}
<1> DEFINE hits == {i \in DOMAIN Above[d] : files[Above[d][i]] # Missing}
           near == {i \in hits : \A j \in hits : i <= j}
<1>1. CASE near = {}
  BY <1>1 DEF FindProjectConfig
<1>2. CASE near # {}
  <2> DEFINE i == CHOOSE k \in near : TRUE
  <2>0. i \in near
    <3> HIDE DEF near
    <3> QED BY <1>2
  <2>1. i \in DOMAIN Above[d]
    BY <2>0
  <2>2. Above[d] \in Seq(Dirs)
    BY OverlayAssumption
  <2>3. Above[d][i] \in Dirs
    <3> HIDE DEF i
    <3> QED BY <2>1, <2>2
  <2>4. FindProjectConfig(d) = IF near = {} THEN None ELSE Above[d][i]
    BY DEF FindProjectConfig
  <2> QED BY <1>2, <2>3, <2>4
<1> QED BY <1>1, <1>2

\* What the overlays' paths lead to.
LEMMA FilesType == ASSUME files \in [Paths -> File \cup {Missing, Malformed}],
                          NEW p \in Dirs \cup {None}
                   PROVE  /\ files["base"] \in File \cup {Missing, Malformed}
                          /\ CliFile \in FileOrNot /\ ProjectFile(p) \in FileOrNot
<1>1. \A q \in {"base", "cli"} \cup Dirs : files[q] \in File \cup {Missing, Malformed}
  BY DEF Paths
<1> QED BY <1>1 DEF FileOrNot, CliFile, ProjectFile

\* The modules of a configuration, taken apart and put together again.
LEMMA WholeType ==
  ASSUME OverlayTypeOK
  PROVE  /\ Whole(cfg, mods) \in Config
         /\ Whole(cfg, mods).mods = mods /\ SameLayout(Whole(cfg, mods), cfg)
  BY DEF OverlayTypeOK, Whole, Config, SameLayout

\* What loading and applying overlays leave in the base.
LEMMA BaseAfterType ==
  ASSUME NEW base \in Config, NEW r \in Accumulated
  PROVE  /\ BaseAfter(base, r) \in [bar : SUBSET Ids, style : Styles \cup {None},
                                    palette : Colors \cup {None}]
         /\ BaseAfter(base, r).bar = base.bar /\ BaseAfter(base, r).style = base.style
         /\ Rest(r.cfg) \in [bar : SUBSET Ids, style : Styles \cup {None},
                             palette : Colors \cup {None}]
         /\ r.cfg.mods \in [Ids -> Setting]
<1>1. r.cfg \in Config
  BY DEF Accumulated
<1> DEFINE p == IF base.palette = None THEN None ELSE r.cfg.palette
<1>2. p \in Colors \cup {None}
  BY <1>1 DEF Config
<1>3. BaseAfter(base, r) = [bar |-> base.bar, style |-> base.style, palette |-> p]
  BY DEF BaseAfter, Rest, Config
<1> HIDE DEF p
<1> QED BY <1>1, <1>2, <1>3 DEF Config, Rest

\* Without overlays, bar and style are the base's.
LEMMA NoOverlays ==
  ASSUME NEW base \in Config, NEW D \in SUBSET Ids
  PROVE  SameLayout(ApplyOverlays(base, D, None, None).cfg, base)
<1> DEFINE acc == [ok |-> TRUE, cfg |-> base, disabled |-> D]
           mm  == InferActiveModules(base.mods, base.bar, D)
           v   == Validate(mm)
<1>1. ApplyOne(ApplyOne(acc, None), None) = acc
  BY DEF ApplyOne
<1>2. ApplyOverlays(base, D, None, None) = [acc EXCEPT !.cfg.mods = mm, !.ok = v]
  <2>1. acc.ok = TRUE /\ acc.cfg = base /\ acc.disabled = D
    OBVIOUS
  <2> HIDE DEF acc
  <2>2. ApplyOverlays(base, D, None, None) =
          IF ~acc.ok THEN acc
          ELSE [acc EXCEPT !.cfg.mods = InferActiveModules(acc.cfg.mods, acc.cfg.bar, acc.disabled),
                           !.ok = Validate(InferActiveModules(acc.cfg.mods, acc.cfg.bar, acc.disabled))]
    BY <1>1, Zenon DEF ApplyOverlays, acc
  <2> QED BY <2>1, <2>2
<1> HIDE DEF mm, v
<1>3. ApplyOverlays(base, D, None, None).cfg = [base EXCEPT !.mods = mm]
  BY <1>2
<1> QED BY <1>3 DEF SameLayout, Config

\* The layered configuration of a file that was loaded.
LEMMA LoadedType ==
  ASSUME NEW f \in File \cup {Missing, Malformed}
  PROVE  /\ Load(f) \in Accumulated /\ Load(f).cfg \in Config /\ Load(f).disabled \in SUBSET Ids
         /\ \A id \in Load(f).disabled : ~Load(f).cfg.mods[id].enabled
         /\ Load(f).ok /\ f # Missing => Validate(Load(f).cfg.mods)
         /\ Load(f).ok => f # Malformed \/ f = Missing
<1>1. Load(f) \in Accumulated /\ \A id \in Load(f).disabled : ~Load(f).cfg.mods[id].enabled
  BY LoadProperties
<1>2. Load(f).ok => f # Malformed \/ f = Missing
  BY DEF Load, Default
<1>3. Load(f).ok /\ f # Missing => Validate(Load(f).cfg.mods)
  <2> SUFFICES ASSUME Load(f).ok, f # Missing PROVE Validate(Load(f).cfg.mods)
    OBVIOUS
  <2> DEFINE c == Parse(f)
             mm == InferActiveModules(c.mods, c.bar, Explicitly(f, "off"))
             v  == Validate(mm)
  <2>1. f \in File
    BY <1>2
  <2>2. Load(f) = [ok |-> v, cfg |-> [c EXCEPT !.mods = mm], disabled |-> Explicitly(f, "off")]
    BY <1>2 DEF Load
  <2>3. c \in Config
    BY <2>1, ParseType
  <2> HIDE DEF c, mm, v
  <2>4. Load(f).cfg.mods = mm /\ v
    BY <2>2, <2>3 DEF Config
  <2> QED BY <2>4 DEF v
<1> QED BY <1>1, <1>2, <1>3 DEF Accumulated

\* What the step turns on in spite of the base file, an overlay turns on.
NothingResurrected == OnInSpiteOfBase' \subseteq OnInSpiteOfBase \cup TurnedOn'

\* The invariant holds at the start, of an adopted image, too.
LEMMA InitOverlayInv == OverlayInit => OverlayInv /\ OnInSpiteOfBase \subseteq TurnedOn
<1> SUFFICES ASSUME OverlayInit PROVE OverlayInv /\ OnInSpiteOfBase \subseteq TurnedOn
  OBVIOUS
<1> PICK adopted \in BOOLEAN : Start(adopted)
  BY DEF OverlayInit
<1> DEFINE l    == Load(files["base"])
           base == IF l.ok THEN l ELSE Default
           pr   == ProjectFile(path)
           r    == ApplyOverlays(base.cfg, base.disabled, CliFile, pr)
<1>1. files \in [Paths -> File \cup {Missing, Malformed}]
  BY OverlayAssumption DEF OverlayInit, Paths
<1>2. cwd \in Dirs /\ path \in Dirs \cup {None}
  BY NearestType DEF OverlayInit
<1>3. /\ files["base"] \in File \cup {Missing, Malformed}
      /\ CliFile \in FileOrNot /\ pr \in FileOrNot
  BY <1>1, <1>2, FilesType
<1>4. loaded \in File \cup {Missing} /\ Load(loaded) = base
  <2>1. CASE l.ok
    BY <1>3, <2>1, LoadedType DEF Start
  <2>2. CASE ~l.ok
    BY <2>2 DEF Start, Load
  <2> QED BY <2>1, <2>2
<1>5. /\ base.cfg \in Config /\ base.disabled \in SUBSET Ids
      /\ \A id \in base.disabled : ~base.cfg.mods[id].enabled
  BY <1>4, LoadedType
<1>6. Validate(base.cfg.mods)
  <2>1. CASE l.ok /\ files["base"] # Missing
    BY <1>3, <2>1, LoadedType
  <2>2. CASE ~(l.ok /\ files["base"] # Missing)
    <3>1. base = Default
      BY <2>2 DEF Load
    <3> QED BY <3>1, DefaultAssumption DEF Default, DefaultConfig
  <2> QED BY <2>1, <2>2
<1>7. /\ r \in Accumulated
      /\ SameCommands(r.cfg.mods, base.cfg.mods)
      /\ EnabledOnlyBy(r.cfg.mods, base.cfg.mods, base.disabled, SetOn(CliFile) \cup SetOn(pr))
      /\ r.ok => Validate(r.cfg.mods)
  <2> HIDE DEF base, pr
  <2> QED BY <1>3, <1>5, ApplyProperties
<1>8. /\ cfg = BaseAfter(base.cfg, r) /\ disabled = base.disabled /\ mods = r.cfg.mods
      /\ resolved = IF r.ok THEN Rest(r.cfg) ELSE BaseAfter(base.cfg, r)
      /\ inForce = IF r.ok THEN <<CliFile, pr>> ELSE <<None, None>>
      /\ tainted = (~r.ok /\ r.cfg # base.cfg)
      /\ last \in {"applied", "refused"}
  BY Zenon DEF Start
<1>9. edits = 0 /\ cache = [d \in Dirs |-> Missing] /\ reshaped = FALSE
  BY DEF OverlayInit
<1> HIDE DEF l, base, pr, r
<1>10. /\ r.cfg \in Config /\ r.ok \in BOOLEAN
  BY <1>7 DEF Accumulated
<1>11. /\ cfg \in [bar : SUBSET Ids, style : Styles \cup {None}, palette : Colors \cup {None}]
       /\ resolved \in [bar : SUBSET Ids, style : Styles \cup {None}, palette : Colors \cup {None}]
       /\ mods \in [Ids -> Setting]
       /\ cfg.bar = base.cfg.bar /\ cfg.style = base.cfg.style
  BY <1>5, <1>7, <1>8, <1>10, BaseAfterType
<1>12. OverlayTypeOK
  <2>1. inForce \in (File \cup {None, Missing, Malformed}) \X (File \cup {None, Missing, Malformed})
    BY <1>3, <1>8 DEF FileOrNot
  <2>2. tainted \in BOOLEAN
    BY <1>8
  <2>3. cache \in [Dirs -> Dirs \cup {None, Missing}] /\ reshaped \in BOOLEAN
    BY <1>9
  <2>5. edits \in 0..MaxEdits
    <3>1. MaxEdits \in Nat
      BY OverlayAssumption
    <3> QED BY <1>9, <3>1
  <2>4. disabled \in SUBSET Ids /\ last \in {"none", "applied", "refused"}
    BY <1>3, <1>5, <1>8, <1>9
  <2> QED BY <1>1, <1>2, <1>4, <1>11, <2>1, <2>2, <2>3, <2>4, <2>5 DEF OverlayTypeOK
<1>13. CommandsAreTheBases
  BY <1>4, <1>7, <1>8 DEF CommandsAreTheBases, SameCommands
<1>14. OnInSpiteOfBase \subseteq TurnedOn
  <2>1. TurnedOn = SetOn(CliFile) \cup SetOn(pr)
    BY <1>2, <1>9 DEF TurnedOn, pr
  <2> QED BY <1>5, <1>7, <1>8, <2>1 DEF OnInSpiteOfBase, EnabledOnlyBy
<1>15. InUseIsValid
  BY <1>6, <1>7, <1>8, <1>10 DEF InUseIsValid
<1>16. LayoutIsLayered
  <2>1. CASE r.ok
    <3>1. inForce[1] = CliFile /\ inForce[2] = pr
      BY <1>8, <2>1
    <3>2. Layered(loaded, CliFile, pr) = r
      BY <1>4 DEF Layered, r
    <3>3. resolved = Rest(r.cfg)
      BY <1>8, <2>1
    <3> QED BY <3>1, <3>2, <3>3 DEF LayoutIsLayered, Rest
  <2>2. CASE ~r.ok
    <3>1. inForce[1] = None /\ inForce[2] = None /\ resolved = BaseAfter(base.cfg, r)
      BY <1>8, <2>2
    <3>2. SameLayout(Layered(loaded, None, None).cfg, base.cfg)
      BY <1>4, <1>5, NoOverlays DEF Layered
    <3>3. resolved.bar = base.cfg.bar /\ resolved.style = base.cfg.style
      BY <1>5, <1>7, <3>1, BaseAfterType
    <3> QED BY <3>1, <3>2, <3>3 DEF LayoutIsLayered, SameLayout
  <2> QED BY <2>1, <2>2
<1> QED BY <1>4, <1>11, <1>12, <1>13, <1>14, <1>15, <1>16 DEF OverlayInv

\* Reporting a directory, of any of the three outcomes.
LEMMA ReportOverlayInv == ASSUME OverlayInv, NEW d \in Dirs, ReportDir(d)
                         PROVE  OverlayInv' /\ NothingResurrected
<1> DEFINE p    == IF cache[d] = Missing THEN FindProjectConfig(d) ELSE cache[d]
           base == Whole(cfg, mods)
           pr   == ProjectFile(p)
           r    == ApplyOverlays(base, disabled, CliFile, pr)
           on   == SetOn(CliFile) \cup SetOn(pr)
<1>1. OverlayTypeOK /\ p \in Dirs \cup {None}
  BY NearestType DEF OverlayInv, OverlayTypeOK
<1>2. /\ files \in [Paths -> File \cup {Missing, Malformed}]
      /\ CliFile \in FileOrNot /\ pr \in FileOrNot
  BY <1>1, FilesType DEF OverlayTypeOK
<1>3. /\ base \in Config /\ base.mods = mods /\ SameLayout(base, cfg)
      /\ disabled \in SUBSET Ids
  BY <1>1, WholeType DEF OverlayTypeOK
<1>4. /\ Load(loaded).cfg \in Config /\ Load(loaded).disabled \in SUBSET Ids
      /\ SameLayout(base, Load(loaded).cfg)
  BY <1>1, <1>3, LoadedType DEF OverlayInv, OverlayTypeOK, SameLayout
<1>5. /\ r \in Accumulated
      /\ SameCommands(r.cfg.mods, mods)
      /\ EnabledOnlyBy(r.cfg.mods, mods, disabled, on)
      /\ r.ok => Validate(r.cfg.mods)
  <2> HIDE DEF base, pr
  <2> QED BY <1>2, <1>3, ApplyProperties
<1>6. SameLayout(r.cfg, Layered(loaded, CliFile, pr).cfg)
  <2> HIDE DEF base, pr
  <2> QED BY <1>2, <1>3, <1>4, ApplyLayout DEF Layered
<1>7. /\ cwd' = d /\ UNCHANGED <<fileVars, disabled, loaded>>
      /\ \/ /\ p = path
            /\ last' = "none"
            /\ cache' = [cache EXCEPT ![d] = p]
            /\ UNCHANGED <<cfg, mods, resolved, path, inForce, tainted, reshaped>>
         \/ /\ p # path /\ Usable(r)
            /\ Accept(base, r, p)
            /\ last' = "applied"
            /\ reshaped' = (reshaped /\ cache[d] # Missing)
            /\ UNCHANGED tainted
         \/ /\ p # path /\ ~Usable(r)
            /\ Refuse(base, r)
            /\ cache' = [cache EXCEPT ![d] = p]
            /\ UNCHANGED reshaped
  BY Zenon DEF ReportDir
<1> HIDE DEF p, base, pr, r, on
<1>8. CASE p = path /\ UNCHANGED <<cfg, mods, resolved, path, inForce, tainted, reshaped>>
           /\ last' = "none" /\ cache' = [cache EXCEPT ![d] = p]
  <2>1. OverlayTypeOK'
    BY <1>1, <1>7, <1>8 DEF OverlayTypeOK, fileVars, Paths
  <2>2. UNCHANGED <<cfg, disabled, loaded, mods, resolved, inForce, tainted>>
    BY <1>7, <1>8
  <2> QED BY <2>1, <2>2 DEF OverlayInv, CommandsAreTheBases, InUseIsValid, LayoutIsLayered,
                            NothingResurrected, OnInSpiteOfBase
\* What both other outcomes do to the shared base.
<1>9. ASSUME cfg' = BaseAfter(base, r), mods' = r.cfg.mods, TurnedOn' = on
      PROVE  /\ CommandsAreTheBases' /\ NothingResurrected
             /\ cfg'.bar = Load(loaded').cfg.bar /\ cfg'.style = Load(loaded').cfg.style
             /\ cfg' \in [bar : SUBSET Ids, style : Styles \cup {None}, palette : Colors \cup {None}]
             /\ mods' \in [Ids -> Setting]
  <2>1. UNCHANGED <<disabled, loaded>>
    BY <1>7
  <2>2. CommandsAreTheBases'
    BY <1>5, <1>9, <2>1 DEF OverlayInv, CommandsAreTheBases, SameCommands
  <2>3. NothingResurrected
    BY <1>1, <1>5, <1>9, <2>1 DEF OverlayTypeOK, NothingResurrected, OnInSpiteOfBase, EnabledOnlyBy
  <2>4. cfg'.bar = base.bar /\ cfg'.style = base.style
    BY <1>3, <1>5, <1>9, BaseAfterType
  <2> QED
    BY <1>1, <1>2, <1>3, <1>4, <1>5, <1>9, <2>1, <2>2, <2>3, <2>4, BaseAfterType
    DEF OverlayTypeOK, SameLayout
<1>10. CASE /\ Usable(r) /\ Accept(base, r, p) /\ last' = "applied"
            /\ reshaped' = (reshaped /\ cache[d] # Missing)
            /\ UNCHANGED tainted
  <2>1. /\ path' = p /\ cache' = [e \in Dirs |-> Missing]
        /\ cfg' = BaseAfter(base, r) /\ mods' = r.cfg.mods /\ resolved' = Rest(r.cfg)
        /\ inForce' = <<CliFile, pr>>
    BY <1>10 DEF Accept, pr
  <2>2. inForce' \in (File \cup {None, Missing, Malformed}) \X (File \cup {None, Missing, Malformed})
    BY <1>2, <2>1 DEF FileOrNot
  <2>3. cache' \in [Dirs -> Dirs \cup {None, Missing}]
    BY <2>1
  <2>4. resolved' \in [bar : SUBSET Ids, style : Styles \cup {None}, palette : Colors \cup {None}]
    BY <1>3, <1>5, <2>1, BaseAfterType
  <2>5. TurnedOn' = on
    <3>1. cache'[cwd'] = Missing /\ path' = p /\ files' = files
      BY <1>7, <2>1 DEF fileVars
    <3> QED BY <3>1 DEF TurnedOn, on, pr, CliFile, ProjectFile
  <2>6. OverlayTypeOK'
    BY <1>1, <1>7, <1>9, <1>10, <2>1, <2>2, <2>3, <2>4, <2>5 DEF OverlayTypeOK, fileVars, Paths
  <2>7. InUseIsValid'
    BY <1>5, <1>10, <2>1 DEF InUseIsValid, Usable
  <2>8. LayoutIsLayered'
    <3>1. Layered(loaded', inForce'[1], inForce'[2]) = Layered(loaded, CliFile, pr)
      BY <1>7, <2>1
    <3> QED BY <1>6, <2>1, <3>1 DEF LayoutIsLayered, SameLayout, Rest
  <2> QED BY <1>9, <1>10, <2>1, <2>5, <2>6, <2>7, <2>8 DEF OverlayInv
<1>11. CASE /\ Refuse(base, r) /\ cache' = [cache EXCEPT ![d] = p]
            /\ UNCHANGED reshaped
  <2>1. /\ cfg' = BaseAfter(base, r) /\ mods' = r.cfg.mods
        /\ resolved' = SharedAfter(resolved, base, r)
        /\ tainted' = (tainted \/ mods' # mods \/ cfg' # cfg) /\ last' = "refused"
        /\ UNCHANGED <<path, inForce>>
    BY <1>11 DEF Refuse
  <2>2. r.cfg \in Config
    BY <1>5 DEF Accumulated
  <2>3. /\ resolved' \in [bar : SUBSET Ids, style : Styles \cup {None}, palette : Colors \cup {None}]
        /\ resolved'.bar = resolved.bar /\ resolved'.style = resolved.style
    <3> DEFINE q == IF base.palette = None THEN resolved.palette ELSE r.cfg.palette
    <3>1. q \in Colors \cup {None}
      BY <1>1, <2>2 DEF OverlayTypeOK, Config
    <3>2. resolved' = [resolved EXCEPT !.palette = q]
      BY <2>1 DEF SharedAfter
    <3> HIDE DEF q
    <3> QED BY <1>1, <3>1, <3>2 DEF OverlayTypeOK
  <2>4. tainted' \in BOOLEAN
    BY <1>1, <2>1 DEF OverlayTypeOK
  <2>5. TurnedOn' = on
    <3>1. cache'[cwd'] = p /\ files' = files
      BY <1>1, <1>7, <1>11 DEF OverlayTypeOK, fileVars
    <3>2. p # Missing
      BY <1>1, OverlayAssumption, LoaderAssumption
    <3> QED BY <3>1, <3>2 DEF TurnedOn, on, pr, CliFile, ProjectFile
  <2>6. OverlayTypeOK'
    BY <1>1, <1>7, <1>9, <1>11, <2>1, <2>3, <2>4, <2>5 DEF OverlayTypeOK, fileVars, Paths
  <2>7. InUseIsValid'
    BY <1>1, <2>1 DEF OverlayInv, OverlayTypeOK, InUseIsValid
  <2>8. LayoutIsLayered'
    <3>1. loaded' = loaded /\ inForce' = inForce
      BY <1>7, <2>1
    <3> QED BY <2>3, <3>1 DEF OverlayInv, LayoutIsLayered
  <2> QED BY <1>9, <1>11, <2>1, <2>5, <2>6, <2>7, <2>8 DEF OverlayInv
<1> QED BY <1>7, <1>8, <1>10, <1>11

\* The reload handler, with and without success.
LEMMA ReloadOverlayInv == ASSUME OverlayInv, ConfigReload PROVE OverlayInv' /\ NothingResurrected
<1> DEFINE f  == files["base"]
           l  == Load(f)
           pr == ProjectFile(path)
           r  == ApplyOverlays(l.cfg, l.disabled, CliFile, pr)
           on == SetOn(CliFile) \cup SetOn(pr)
<1>1. OverlayTypeOK /\ files \in [Paths -> File \cup {Missing, Malformed}] /\ path \in Dirs \cup {None}
  BY DEF OverlayInv, OverlayTypeOK
<1>2. f \in File \cup {Missing, Malformed} /\ CliFile \in FileOrNot /\ pr \in FileOrNot
  BY <1>1, FilesType
<1>3. \/ /\ l.ok /\ Usable(r)
         /\ Accept(l.cfg, r, path)
         /\ disabled' = l.disabled /\ loaded' = f /\ tainted' = FALSE
         /\ UNCHANGED <<fileVars, cwd, reshaped, last>>
      \/ UNCHANGED overlayVars
  BY DEF ConfigReload, RestoreBase, overlayVars, baseVars, fileVars, histVars
<1>4. CASE UNCHANGED overlayVars
  BY <1>4 DEF overlayVars, baseVars, fileVars, histVars, OverlayInv, OverlayTypeOK, CommandsAreTheBases,
              InUseIsValid, LayoutIsLayered, NothingResurrected, OnInSpiteOfBase
<1>5. CASE /\ l.ok /\ Usable(r) /\ Accept(l.cfg, r, path)
           /\ disabled' = l.disabled /\ loaded' = f /\ tainted' = FALSE
           /\ UNCHANGED <<fileVars, cwd, reshaped, last>>
  <2> HIDE DEF f
  <2>1. /\ l \in Accumulated /\ l.cfg \in Config /\ l.disabled \in SUBSET Ids
        /\ \A id \in l.disabled : ~l.cfg.mods[id].enabled
        /\ f \in File \cup {Missing}
    BY <1>2, <1>5, LoadedType
  <2> HIDE DEF l, pr
  <2>2. /\ r \in Accumulated
        /\ SameCommands(r.cfg.mods, l.cfg.mods)
        /\ EnabledOnlyBy(r.cfg.mods, l.cfg.mods, l.disabled, on)
        /\ r.ok => Validate(r.cfg.mods)
    BY <1>2, <2>1, ApplyProperties
  <2>3. Layered(f, CliFile, pr) = r
    BY DEF Layered, l
  <2>4. /\ path' = path /\ cache' = [e \in Dirs |-> Missing]
        /\ cfg' = BaseAfter(l.cfg, r) /\ mods' = r.cfg.mods /\ resolved' = Rest(r.cfg)
        /\ inForce' = <<CliFile, pr>>
    BY <1>5 DEF Accept, pr
  <2> HIDE DEF r, on
  <2>5. /\ cfg' \in [bar : SUBSET Ids, style : Styles \cup {None}, palette : Colors \cup {None}]
        /\ resolved' \in [bar : SUBSET Ids, style : Styles \cup {None}, palette : Colors \cup {None}]
        /\ mods' \in [Ids -> Setting]
        /\ cfg'.bar = l.cfg.bar /\ cfg'.style = l.cfg.style
    BY <2>1, <2>2, <2>4, BaseAfterType
  <2>6. inForce' \in (File \cup {None, Missing, Malformed}) \X (File \cup {None, Missing, Malformed})
    BY <1>2, <2>4 DEF FileOrNot
  <2>7. cache' \in [Dirs -> Dirs \cup {None, Missing}]
    BY <2>4
  <2>8. OverlayTypeOK'
    BY <1>1, <1>2, <1>5, <2>1, <2>4, <2>5, <2>6, <2>7 DEF OverlayTypeOK, fileVars, Paths
  <2>9. CommandsAreTheBases'
    BY <1>5, <2>2, <2>4 DEF CommandsAreTheBases, SameCommands, l
  <2>10. NothingResurrected
    <3>1. cache'[cwd'] = Missing /\ path' = path /\ files' = files
      BY <1>1, <1>5, <2>4 DEF OverlayInv, OverlayTypeOK, fileVars
    <3>2. TurnedOn' = on
      BY <3>1 DEF TurnedOn, on, pr, CliFile, ProjectFile
    <3> QED BY <1>5, <2>1, <2>2, <2>4, <3>2 DEF NothingResurrected, OnInSpiteOfBase, EnabledOnlyBy
  <2>11. InUseIsValid'
    BY <1>5, <2>2, <2>4 DEF InUseIsValid, Usable
  <2>12. LayoutIsLayered'
    <3>1. Layered(loaded', inForce'[1], inForce'[2]) = r
      BY <1>5, <2>3, <2>4
    <3> QED BY <2>4, <3>1 DEF LayoutIsLayered, Rest
  <2>13. cfg'.bar = Load(loaded').cfg.bar /\ cfg'.style = Load(loaded').cfg.style
    BY <1>5, <2>5 DEF l
  <2> QED BY <2>8, <2>9, <2>10, <2>11, <2>12, <2>13 DEF OverlayInv
<1> QED BY <1>3, <1>4, <1>5

\* The user's edits touch files only.
LEMMA EditOverlayInv == ASSUME OverlayInv, EditFile PROVE OverlayInv' /\ NothingResurrected
<1>1. UNCHANGED <<cwd, baseVars, resolved, mods, path, cache, inForce, tainted, last>>
  BY DEF EditFile
<1>2. /\ files' \in [Paths -> File \cup {Missing, Malformed}]
      /\ edits' \in 0..MaxEdits /\ reshaped' \in BOOLEAN
  <2>0. /\ BaseFiles \subseteq File \cup {Missing, Malformed}
        /\ Overlays \subseteq File \cup {Malformed} /\ MaxEdits \in Nat
        /\ files \in [Paths -> File \cup {Missing, Malformed}]
        /\ edits \in 0..MaxEdits /\ reshaped \in BOOLEAN
    BY OverlayAssumption DEF OverlayInv, OverlayTypeOK
  <2>1. edits' \in 0..MaxEdits
    BY <2>0 DEF EditFile
  <2>2. CASE \E b \in BaseFiles : /\ files' = [files EXCEPT !["base"] = b]
                                  /\ UNCHANGED reshaped
    BY <2>0, <2>1, <2>2
  <2>3. CASE \E p \in Paths \ {"base"}, f \in Overlays \cup {Missing} :
               /\ files' = [files EXCEPT ![p] = f]
               /\ reshaped' = (reshaped \/ (p # "cli" /\ Missing \in {f, files[p]}))
    <3> PICK p \in Paths \ {"base"}, f \in Overlays \cup {Missing} :
               /\ files' = [files EXCEPT ![p] = f]
               /\ reshaped' = (reshaped \/ (p # "cli" /\ Missing \in {f, files[p]}))
      BY <2>3
    <3>1. reshaped' \in BOOLEAN
      OBVIOUS
    <3>2. files' \in [Paths -> File \cup {Missing, Malformed}]
      BY <2>0
    <3> QED BY <2>1, <3>1, <3>2
  <2> QED BY <2>2, <2>3, Zenon DEF EditFile
<1>3. OverlayTypeOK'
  BY <1>1, <1>2 DEF OverlayInv, OverlayTypeOK, baseVars, Paths
<1> QED BY <1>1, <1>3 DEF OverlayInv, CommandsAreTheBases, InUseIsValid, LayoutIsLayered,
                          NothingResurrected, OnInSpiteOfBase, baseVars

\* Every step keeps the invariant and resurrects nothing.
LEMMA StepOverlayInv ==
  ASSUME OverlayInv, [OverlayNext]_overlayVars PROVE OverlayInv' /\ NothingResurrected
<1>1. CASE EditFile
  BY <1>1, EditOverlayInv
<1>2. CASE ConfigReload
  BY <1>2, ReloadOverlayInv
<1>3. CASE \E d \in Dirs : ReportDir(d)
  BY <1>3, ReportOverlayInv
<1>4. CASE UNCHANGED overlayVars
  BY <1>4 DEF overlayVars, baseVars, fileVars, histVars, OverlayInv, OverlayTypeOK, CommandsAreTheBases,
              InUseIsValid, LayoutIsLayered, NothingResurrected, OnInSpiteOfBase
<1> QED BY <1>1, <1>2, <1>3, <1>4 DEF OverlayNext

\* The inductive invariant of the configuration in force.
THEOREM OverlayInvariant == OverlaySpec => []OverlayInv
<1>1. OverlayInv /\ [OverlayNext]_overlayVars => OverlayInv'
  BY StepOverlayInv
<1> QED BY <1>1, InitOverlayInv, PTL DEF OverlaySpec

\* Nothing out of range gets into the configuration, whatever files there are.
THEOREM OverlayTypeCorrect == OverlaySpec => []OverlayTypeOK
<1>1. OverlayInv => OverlayTypeOK
  BY DEF OverlayInv
<1> QED BY <1>1, OverlayInvariant, PTL

\* For any overlays: what is executed is what the base file says
\* (ValidateOverlayScope), though refused overlays write into its map, too.
THEOREM CommandsStayTheBases == OverlaySpec => []CommandsAreTheBases
<1>1. OverlayInv => CommandsAreTheBases
  BY DEF OverlayInv
<1> QED BY <1>1, OverlayInvariant, PTL

\* For any overlays and templates: what the base file turns off comes on only
\* in a step that merges an overlay which says so; no reference resurrects it
\* (ApplyOverlays' rootExplicitlyDisabled), at once or by way of the shared map.
THEOREM DisabledStaysOff == OverlaySpec => InferenceResurrectsNothing
<1>1. OverlayInit => OnInSpiteOfBase \subseteq TurnedOn
  BY InitOverlayInv
<1>2. OverlayInv /\ [OverlayNext]_overlayVars
          => [OnInSpiteOfBase' \subseteq OnInSpiteOfBase \cup TurnedOn']_overlayVars
  BY StepOverlayInv DEF NothingResurrected
<1> QED BY <1>1, <1>2, OverlayInvariant, PTL DEF OverlaySpec, InferenceResurrectsNothing

\* The modules in use are valid unless a refused overlay was merged.
THEOREM InUseStaysValid == OverlaySpec => []InUseIsValid
<1>1. OverlayInv => InUseIsValid
  BY DEF OverlayInv
<1> QED BY <1>1, OverlayInvariant, PTL

\* Bar and style do not depend on what was in force before (MergeOverlay's
\* scalar fields).
THEOREM LayoutIsAlwaysLayered == OverlaySpec => []LayoutIsLayered
<1>1. OverlayInv => LayoutIsLayered
  BY DEF OverlayInv
<1> QED BY <1>1, OverlayInvariant, PTL
-------------------------------------------------------------------------------
(* Looking up and caching.  Of OverlayInv the argument needs the type         *)
(* invariant only.                                                          *)

\* A path in the cache is what looking again would give, and so is the path
\* in force, unless it is the one that the last report was refused.
Nearest == CacheIsLookup /\ OverlayFollowsDirectory

\* What is looked up depends on which files there are, not on what is in them.
LEMMA LookupStable ==
  ASSUME \A d \in Dirs : (files'[d] = Missing) = (files[d] = Missing), NEW d \in Dirs
  PROVE  FindProjectConfig(d)' = FindProjectConfig(d)
<1>1. \A i \in DOMAIN Above[d] : Above[d][i] \in Dirs
  <2>1. Above[d] \in Seq(Dirs)
    BY OverlayAssumption
  <2> QED BY <2>1
<1>2. {i \in DOMAIN Above[d] : files'[Above[d][i]] # Missing}
        = {i \in DOMAIN Above[d] : files[Above[d][i]] # Missing}
  BY <1>1
<1> DEFINE hits == {i \in DOMAIN Above[d] : files[Above[d][i]] # Missing}
<1>3. hits' = hits
  BY <1>2
<1>4. FindProjectConfig(d)
        = LET near == {i \in hits : \A j \in hits : i <= j}
          IN  IF near = {} THEN None ELSE Above[d][CHOOSE i \in near : TRUE]
  BY DEF FindProjectConfig
<1>5. FindProjectConfig(d)'
        = LET near == {i \in hits' : \A j \in hits' : i <= j}
          IN  IF near = {} THEN None ELSE Above[d][CHOOSE i \in near : TRUE]
  BY DEF FindProjectConfig
<1> HIDE DEF hits
<1> QED BY <1>3, <1>4, <1>5

\* Nothing is cached yet, and the path in force has just been looked up.
LEMMA NearestInit == OverlayInit => Nearest
BY DEF OverlayInit, Nearest, CacheIsLookup, OverlayFollowsDirectory

\* An edit that makes or removes no overlay changes no look-up.
LEMMA NearestEdit == ASSUME OverlayTypeOK, Nearest, EditFile PROVE Nearest'
<1>1. UNCHANGED <<cwd, path, cache, last>>
  BY DEF EditFile
<1>2. reshaped \in BOOLEAN /\ files \in [Paths -> File \cup {Missing, Malformed}]
  BY DEF OverlayTypeOK
<1>3. SUFFICES ASSUME ~reshaped' PROVE Nearest'
  BY DEF Nearest, CacheIsLookup, OverlayFollowsDirectory
<1>4. ~reshaped /\ \A d \in Dirs : (files'[d] = Missing) = (files[d] = Missing)
  <2>1. CASE \E b \in BaseFiles : /\ files' = [files EXCEPT !["base"] = b]
                                  /\ UNCHANGED reshaped
    BY <1>2, <1>3, <2>1, OverlayAssumption
  <2>2. CASE \E p \in Paths \ {"base"}, f \in Overlays \cup {Missing} :
               /\ files' = [files EXCEPT ![p] = f]
               /\ reshaped' = (reshaped \/ (p # "cli" /\ Missing \in {f, files[p]}))
    <3> PICK p \in Paths \ {"base"}, f \in Overlays \cup {Missing} :
               /\ files' = [files EXCEPT ![p] = f]
               /\ reshaped' = (reshaped \/ (p # "cli" /\ Missing \in {f, files[p]}))
      BY <2>2
    <3>1. ~reshaped /\ (p = "cli" \/ (f # Missing /\ files[p] # Missing))
      BY <1>2, <1>3
    <3>2. p \notin Dirs \/ (files'[p] # Missing /\ files[p] # Missing)
      BY <1>2, <3>1, OverlayAssumption
    <3>3. \A d \in Dirs : d # p => files'[d] = files[d]
      BY <1>2 DEF Paths
    <3> QED BY <3>1, <3>2, <3>3
  <2> QED BY <2>1, <2>2, Zenon DEF EditFile
<1>5. \A d \in Dirs : FindProjectConfig(d)' = FindProjectConfig(d)
  BY <1>4, LookupStable
<1>6. cwd \in Dirs
  BY DEF OverlayTypeOK
<1> QED BY <1>1, <1>4, <1>5, <1>6 DEF Nearest, CacheIsLookup, OverlayFollowsDirectory

\* A report follows the cache if that has the directory, and looks if not;
\* the two give the same while no overlay has come or gone.
LEMMA NearestReport == ASSUME OverlayTypeOK, Nearest, NEW d \in Dirs, ReportDir(d) PROVE Nearest'
<1> DEFINE p == IF cache[d] = Missing THEN FindProjectConfig(d) ELSE cache[d]
<1>1. /\ files' = files /\ cwd' = d
      /\ \/ /\ p = path /\ cache' = [cache EXCEPT ![d] = p] /\ UNCHANGED <<path, reshaped>>
         \/ /\ path' = p /\ cache' = [e \in Dirs |-> Missing]
            /\ reshaped' = (reshaped /\ cache[d] # Missing)
         \/ /\ last' = "refused" /\ cache' = [cache EXCEPT ![d] = p] /\ UNCHANGED reshaped
  BY Zenon DEF ReportDir, Accept, Refuse, fileVars
<1>2. \A e \in Dirs : FindProjectConfig(e)' = FindProjectConfig(e)
  BY <1>1, LookupStable
<1>3. ~reshaped \/ cache[d] = Missing => p = FindProjectConfig(d)
  BY DEF Nearest, CacheIsLookup
<1>4. cache \in [Dirs -> Dirs \cup {None, Missing}]
  BY DEF OverlayTypeOK
<1> HIDE DEF p
<1>5. CASE p = path /\ cache' = [cache EXCEPT ![d] = p] /\ UNCHANGED <<path, reshaped>>
  BY <1>1, <1>2, <1>3, <1>4, <1>5 DEF Nearest, CacheIsLookup, OverlayFollowsDirectory
<1>6. CASE /\ path' = p /\ cache' = [e \in Dirs |-> Missing]
           /\ reshaped' = (reshaped /\ cache[d] # Missing)
  BY <1>1, <1>2, <1>3, <1>6 DEF Nearest, CacheIsLookup, OverlayFollowsDirectory
<1>7. CASE last' = "refused" /\ cache' = [cache EXCEPT ![d] = p] /\ UNCHANGED reshaped
  BY <1>1, <1>2, <1>3, <1>4, <1>7 DEF Nearest, CacheIsLookup, OverlayFollowsDirectory
<1> QED BY <1>1, <1>5, <1>6, <1>7

\* A reload keeps the path in force and at most empties the cache.
LEMMA NearestReload == ASSUME OverlayTypeOK, Nearest, ConfigReload PROVE Nearest'
<1>1. /\ UNCHANGED <<files, cwd, path, reshaped, last>>
      /\ cache' = cache \/ cache' = [e \in Dirs |-> Missing]
  BY Zenon DEF ConfigReload, Accept, fileVars
<1>2. \A e \in Dirs : FindProjectConfig(e)' = FindProjectConfig(e)
  BY <1>1, LookupStable
<1>3. cwd \in Dirs
  BY DEF OverlayTypeOK
<1> QED BY <1>1, <1>2, <1>3 DEF Nearest, CacheIsLookup, OverlayFollowsDirectory

\* For any tree of directories and any number of edits: as long as no overlay
\* comes or goes, the one in force is the nearest one of the directory the
\* shell is in (the cwd handler, projectConfigCache, reloadConfig).
THEOREM OverlayStaysNearest == OverlaySpec => []OverlayFollowsDirectory
<1>1. OverlayTypeOK /\ Nearest /\ [OverlayNext]_overlayVars => Nearest'
  <2> SUFFICES ASSUME OverlayTypeOK, Nearest, [OverlayNext]_overlayVars PROVE Nearest'
    OBVIOUS
  <2>1. CASE EditFile
    BY <2>1, NearestEdit
  <2>2. CASE ConfigReload
    BY <2>2, NearestReload
  <2>3. CASE \E d \in Dirs : ReportDir(d)
    BY <2>3, NearestReport
  <2>4. CASE UNCHANGED overlayVars
    <3>1. UNCHANGED <<files, cwd, path, cache, reshaped, last>>
      BY <2>4 DEF overlayVars, fileVars, histVars
    <3>2. cwd \in Dirs /\ \A e \in Dirs : FindProjectConfig(e)' = FindProjectConfig(e)
      BY <3>1, LookupStable DEF OverlayTypeOK
    <3> QED BY <3>1, <3>2 DEF Nearest, CacheIsLookup, OverlayFollowsDirectory
  <2> QED BY <2>1, <2>2, <2>3, <2>4 DEF OverlayNext
<1>2. Nearest => OverlayFollowsDirectory
  BY DEF Nearest
<1> QED BY <1>1, <1>2, NearestInit, OverlayTypeCorrect, PTL DEF OverlaySpec
-------------------------------------------------------------------------------
(* The life of the process. *)

USE DEF proc, term, fd, window, sigs, kid, pty, env

\* The actions by what they are about: start-up, the loop's events, the way
\* out, the re-exec, and everything that leaves run where it is.
StartUp == \/ ParseHandoff \/ LoadConfig \/ Enter \/ QuerySize \/ AdoptChild
           \/ StartChild \/ Visuals \/ StartReaders \/ StartSignals
Loop    == \/ TakeOutput \/ TakeKey \/ TakeResize \/ TakeTermination
           \/ TakeChildExited \/ TakeReload
WayOut  == Restore \/ SignalGroup \/ AwaitGroup
Reexec  == ClearCloexec \/ SuspendRaw \/ ExecFails \/ Exec

-------------------------------------------------------------------------------
(* Events and the queue of them. *)

\* An event of two parts is a change of size.
LEMMA EventKinds ==
  ASSUME NEW e \in Events \cup {Off, Idle}
  PROVE  /\ IsResize(e) => e[1] = "resize" /\ e[2] \in Sizes
         /\ ~IsResize(e) => Len(e) = 1 /\ e[1] # "resize"
         /\ e \notin {Off, Idle} => e \in Events
         /\ e[1] = "output" => e = <<"output">>
         /\ e[1] = "exited" => e = <<"exited">>
  BY DEF Events, IsResize, Off, Idle

\* What the goroutine behind the signals holds.
LEMMA SignalKinds ==
  ASSUME QueuesType
  PROVE  /\ sg \in Events \cup {Off, Idle}
         /\ sg \notin {Off, Idle} => sg \in Events /\ sg \notin {<<"exited">>, <<"output">>}
  BY DEF QueuesType, Events, Off, Idle

\* What is put into the queue.
LEMMA QueueAppend ==
  ASSUME NEW q \in Seq(Events), NEW e \in Events
  PROVE  /\ Append(q, e) \in Seq(Events)
         /\ Len(q) \in Nat /\ Len(Append(q, e)) = Len(q) + 1
         /\ \A i \in 1..Len(q) : Append(q, e)[i] = q[i]
         /\ Append(q, e)[Len(q) + 1] = e
  BY AppendProperties, LenProperties

\* What is left when the loop has taken an event.
LEMMA QueueTake ==
  ASSUME NEW q \in Seq(Events), q # <<>>
  PROVE  /\ Head(q) \in Events /\ Head(q) = q[1] /\ Tail(q) \in Seq(Events)
         /\ Len(q) \in Nat \ {0} /\ Len(Tail(q)) = Len(q) - 1
         /\ \A i \in 1..Len(Tail(q)) : Tail(q)[i] = q[i + 1]
  BY HeadTailProperties, EmptySeq, LenProperties

\* The steps that touch the queue: all others leave it alone.
LEMMA BusSteps ==
  ASSUME [Next]_vars
  PROVE  Loop \/ Exec \/ SendSignal \/ SendOutput \/ SendExited \/ ReadKey \/ bus' = bus
  <1>1. CASE StartUp
    BY <1>1, Zenon DEF StartUp, ParseHandoff, LoadConfig, Enter, QuerySize, AdoptChild,
       StartChild, Visuals, StartReaders, StartSignals
  <1>2. CASE WayOut \/ ClearCloexec \/ SuspendRaw \/ ExecFails
    BY <1>2, Zenon DEF WayOut, Restore, SignalGroup, AwaitGroup, ClearCloexec, SuspendRaw,
       ExecFails
  <1>3. CASE TakeSignal \/ ReadPty \/ ReadPtyEnds \/ Reap \/ Drain
    BY <1>3, Zenon DEF TakeSignal, ReadPty, ReadPtyEnds, Reap, Drain
  <1>4. CASE Outside
    BY <1>4, Zenon DEF Outside, ChildWrites, ChildExits, OrphanExits, ResizeWindow,
       SendTerm, SendReload, Install
  <1>5. CASE UNCHANGED vars
    BY <1>5, Zenon DEF vars
  <1> QED
    BY <1>1, <1>2, <1>3, <1>4, <1>5, Zenon
       DEF Next, Main, StartUp, Loop, WayOut, Reexec, Signalling, Reader, Waiter
-------------------------------------------------------------------------------
(* Type correctness, but for the counts. *)

\* No step gives a variable of run, the terminal or the child another kind of value.
LEMMA StateTypeStep ==
  ASSUME LifecycleAssumption, StateType, Staged, QueuesType, [Next]_vars
  PROVE  StateType'
  <1> USE DEF LifecycleAssumption, StateType, Images, Sizes, Codes, LeaveAtOnce, Unwind,
     Terminate, Takes
  <1>1. CASE StartUp
    BY <1>1 DEF StartUp, ParseHandoff, LoadConfig, Enter, QuerySize, AdoptChild, StartChild,
                Visuals, StartReaders, StartSignals, Adopted
  <1>2. CASE Loop
    <2>1. CASE TakeResize
      <3>1. Head(bus) \in Events /\ Head(bus)[1] = "resize" /\ size' = Head(bus)[2]
        BY <2>1, QueueTake DEF TakeResize, QueuesType
      <3>2. size' \in Sizes
        BY <3>1, EventKinds
      <3> QED BY <2>1, <3>2 DEF TakeResize
    <2>2. CASE TakeOutput \/ TakeKey \/ TakeTermination \/ TakeChildExited \/ TakeReload
      BY <2>2 DEF TakeOutput, TakeKey, TakeTermination, TakeChildExited, TakeReload
    <2> QED BY <1>2, <2>1, <2>2, Zenon DEF Loop
  <1>3. CASE WayOut
    BY <1>3 DEF WayOut, Restore, SignalGroup, AwaitGroup
  <1>4. CASE Reexec
    BY <1>4 DEF Reexec, ClearCloexec, SuspendRaw, ExecFails, Exec, Staged
  <1>5. CASE Signalling
    BY <1>5 DEF Signalling, TakeSignal, SendSignal
  <1>6. CASE Reader \/ Waiter
    BY <1>6 DEF Reader, ReadPty, ReadPtyEnds, SendOutput, Waiter, Reap, Drain, SendExited
  <1>7. CASE Outside
    BY <1>7 DEF Outside, ReadKey, ChildWrites, ChildExits, OrphanExits, ResizeWindow,
                SendTerm, SendReload, Install, Listening, Deliver
  <1>8. CASE UNCHANGED vars
    BY <1>8 DEF vars
  <1> QED
    BY <1>1, <1>2, <1>3, <1>4, <1>5, <1>6, <1>7, <1>8, Zenon
       DEF Next, Main, StartUp, Loop, WayOut, Reexec

\* No step gives a flag another kind of value.
LEMMA FlagsTypeStep == ASSUME FlagsType, [Next]_vars PROVE FlagsType'
  <1> USE DEF FlagsType, LeaveAtOnce, Unwind, Terminate
  <1>1. CASE \/ ParseHandoff \/ LoadConfig \/ Visuals \/ StartReaders \/ StartSignals
             \/ SignalGroup
    BY <1>1 DEF ParseHandoff, LoadConfig, Visuals, StartReaders, StartSignals, SignalGroup
  <1>2. CASE Enter \/ QuerySize
    BY <1>2, Zenon DEF Enter, QuerySize
  <1>3. CASE AdoptChild \/ StartChild
    BY <1>3, Zenon DEF AdoptChild, StartChild
  <1>4. CASE Restore
    BY <1>4, Zenon DEF Restore
  <1>5. CASE \/ TakeOutput \/ TakeKey \/ TakeResize \/ TakeTermination \/ TakeChildExited
             \/ TakeReload
    BY <1>5 DEF TakeOutput, TakeKey, TakeResize, TakeTermination, TakeChildExited,
       TakeReload
  <1>6. CASE AwaitGroup
    BY <1>6, Zenon DEF AwaitGroup
  <1>7. CASE ClearCloexec
    BY <1>7, Zenon DEF ClearCloexec
  <1>8. CASE SuspendRaw
    BY <1>8, Zenon DEF SuspendRaw
  <1>9. CASE ExecFails
    BY <1>9, Zenon DEF ExecFails
  <1>10. CASE Exec
    BY <1>10, Zenon DEF Exec
  <1>11. CASE TakeSignal \/ SendSignal
    BY <1>11, Zenon DEF TakeSignal, SendSignal
  <1>12. CASE ReadPty \/ ReadPtyEnds \/ SendOutput \/ Reap \/ SendExited
    BY <1>12 DEF ReadPty, ReadPtyEnds, SendOutput, Reap, SendExited
  <1>13. CASE Drain
    BY <1>13, Zenon DEF Drain
  <1>14. CASE ReadKey \/ ChildWrites \/ OrphanExits
    BY <1>14 DEF ReadKey, ChildWrites, OrphanExits
  <1>15. CASE ResizeWindow
    BY <1>15, Zenon DEF ResizeWindow
  <1>16. CASE SendTerm \/ SendReload \/ Install
    BY <1>16 DEF SendTerm, SendReload, Install
  <1>17. CASE ChildExits
    BY <1>17, Zenon DEF ChildExits
  <1>18. CASE UNCHANGED vars
    BY <1>18, Zenon DEF vars
  <1> QED
    BY <1>1, <1>2, <1>3, <1>4, <1>5, <1>6, <1>7, <1>8, <1>9, <1>10, <1>11, <1>12, <1>13,
       <1>14, <1>15, <1>16, <1>17, <1>18, Zenon
       DEF Next, Main, Signalling, Reader, Waiter, Outside

\* The queue and the channel in front of it hold events, no more than fit.
LEMMA QueuesTypeStep ==
  ASSUME LifecycleAssumption, StateType, QueuesType, [Next]_vars
  PROVE  QueuesType'
  <1>1. bus' \in Seq(Events) /\ Len(bus') <= BusCap
    <2>0. bus \in Seq(Events) /\ Len(bus) <= BusCap /\ Len(bus) \in Nat /\ BusCap \in Nat
      BY LenProperties DEF QueuesType, LifecycleAssumption
    <2>1. CASE bus' = bus
      BY <2>0, <2>1
    <2>2. CASE Loop
      <3>1. bus # <<>> /\ bus' = Tail(bus)
        BY <2>2, Zenon DEF Loop, TakeOutput, TakeKey, TakeResize, TakeTermination,
           TakeChildExited, TakeReload, Takes
      <3> QED BY <2>0, <3>1, QueueTake
    <2>3. CASE Exec
      BY <2>0, <2>3, EmptySeq DEF Exec
    <2>4. CASE SendSignal \/ SendOutput \/ SendExited \/ ReadKey
      <3>1. PICK e \in Events : bus' = Append(bus, e)
        <4>1. CASE SendSignal
          BY <4>1, SignalKinds DEF SendSignal
        <4>2. CASE SendOutput \/ SendExited \/ ReadKey
          BY <4>2 DEF SendOutput, SendExited, ReadKey, Events
        <4> QED BY <2>4, <4>1, <4>2
      <3>2. Len(bus) < BusCap
        BY <2>4 DEF SendSignal, SendOutput, SendExited, ReadKey, Room
      <3> QED BY <2>0, <3>1, <3>2, QueueAppend
    <2> QED BY <2>1, <2>2, <2>3, <2>4, BusSteps
  <1>2. signals' \in {Nothing} \cup {<<s>> : s \in {"WINCH", "TERM", "USR1"}}
    <2>0. signals \in {Nothing} \cup {<<s>> : s \in {"WINCH", "TERM", "USR1"}}
      BY DEF QueuesType
    <2>1. \/ signals' = signals \/ signals' = Nothing
          \/ Deliver("WINCH") \/ Deliver("TERM") \/ Deliver("USR1")
      BY SMT DEF Next, Main, ParseHandoff, LoadConfig, Enter, QuerySize, AdoptChild,
         StartChild, Visuals, StartReaders, StartSignals, Restore, TakeOutput, TakeKey,
         TakeResize, TakeTermination, TakeChildExited, TakeReload, SignalGroup,
         AwaitGroup, ClearCloexec, SuspendRaw, ExecFails, Exec, Signalling, TakeSignal,
         SendSignal, Reader, ReadPty, ReadPtyEnds, SendOutput, Waiter, Reap, Drain,
         SendExited, Outside, ReadKey, ChildWrites, ChildExits, OrphanExits, ResizeWindow,
         SendTerm, SendReload, Install, vars
    <2> QED BY <2>0, <2>1 DEF Deliver
  <1>3. sg' \in {Off, Idle, <<"termination">>, <<"reload">>} \cup ({"resize"} \X Sizes)
    <2>0. /\ sg \in {Off, Idle, <<"termination">>, <<"reload">>} \cup ({"resize"} \X Sizes)
          /\ winsize \in Sizes
      BY DEF QueuesType, StateType
    <2>1. sg' = sg \/ sg' \in {Off, Idle} \/ TakeSignal
      BY SMT DEF Next, Main, ParseHandoff, LoadConfig, Enter, QuerySize, AdoptChild,
         StartChild, Visuals, StartReaders, StartSignals, Restore, TakeOutput, TakeKey,
         TakeResize, TakeTermination, TakeChildExited, TakeReload, SignalGroup,
         AwaitGroup, ClearCloexec, SuspendRaw, ExecFails, Exec, Signalling, SendSignal,
         Reader, ReadPty, ReadPtyEnds, SendOutput, Waiter, Reap, Drain, SendExited,
         Outside, ReadKey, ChildWrites, ChildExits, OrphanExits, ResizeWindow, SendTerm,
         SendReload, Install, vars
    <2>2. CASE TakeSignal
      <3>1. signals \in {<<"WINCH">>, <<"TERM">>, <<"USR1">>}
        BY <2>2 DEF TakeSignal, QueuesType
      <3>2. sg' \in {<<"resize", winsize>>, <<"termination">>, <<"reload">>}
        BY <2>2, <3>1 DEF TakeSignal
      <3> QED BY <2>0, <3>2
    <2> QED BY <2>0, <2>1, <2>2
  <1> QED BY <1>1, <1>2, <1>3 DEF QueuesType
-------------------------------------------------------------------------------
(* The invariant, one conjunct after the other. *)

\* Nothing has started before its place in run.
LEMMA StagedStep == ASSUME Staged, [Next]_vars PROVE Staged'
  <1> USE DEF Staged, Early, Over, LeaveAtOnce, Unwind, Terminate, Takes
  <1>1. CASE StartUp
    BY <1>1 DEF StartUp, ParseHandoff, LoadConfig, Enter, QuerySize, AdoptChild, StartChild,
                Visuals, StartReaders, StartSignals, Adopted
  <1>2. CASE Loop
    BY <1>2 DEF Loop, TakeOutput, TakeKey, TakeResize, TakeTermination, TakeChildExited,
                TakeReload
  <1>3. CASE WayOut
    BY <1>3 DEF WayOut, Restore, SignalGroup, AwaitGroup
  <1>4. CASE Reexec
    BY <1>4 DEF Reexec, ClearCloexec, SuspendRaw, ExecFails, Exec, Nothing
  <1>5. CASE Signalling
    BY <1>5 DEF Signalling, TakeSignal, SendSignal, Idle, Off
  <1>6. CASE Reader \/ Waiter
    BY <1>6 DEF Reader, ReadPty, ReadPtyEnds, SendOutput, Waiter, Reap, Drain, SendExited
  <1>7. CASE Outside
    BY <1>7 DEF Outside, ReadKey, ChildWrites, ChildExits, OrphanExits, ResizeWindow,
                SendTerm, SendReload, Install, Listening, Deliver
  <1>8. CASE UNCHANGED vars
    BY <1>8 DEF vars
  <1> QED
    BY <1>1, <1>2, <1>3, <1>4, <1>5, <1>6, <1>7, <1>8, Zenon
       DEF Next, Main, StartUp, Loop, WayOut, Reexec

\* Every way out of run goes through Restore, or has changed nothing.
LEMMA ModeStep ==
  ASSUME TypeOK, Staged, ModeIsRemembered, [Next]_vars
  PROVE  ModeIsRemembered'
  <1> USE DEF TypeOK, StateType, FlagsType, Staged, ModeIsRemembered, LeaveAtOnce, Unwind,
     Terminate, Takes
  <1>1. CASE StartUp
    BY <1>1 DEF StartUp, ParseHandoff, LoadConfig, Enter, QuerySize, AdoptChild, StartChild,
                Visuals, StartReaders, StartSignals, Adopted
  <1>2. CASE Loop
    BY <1>2 DEF Loop, TakeOutput, TakeKey, TakeResize, TakeTermination, TakeChildExited,
                TakeReload
  <1>3. CASE WayOut
    BY <1>3 DEF WayOut, Restore, SignalGroup, AwaitGroup
  <1>4. CASE Reexec
    BY <1>4 DEF Reexec, ClearCloexec, SuspendRaw, ExecFails, Exec
  <1>5. CASE Signalling
    BY <1>5 DEF Signalling, TakeSignal, SendSignal
  <1>6. CASE Reader \/ Waiter
    BY <1>6 DEF Reader, ReadPty, ReadPtyEnds, SendOutput, Waiter, Reap, Drain, SendExited
  <1>7. CASE Outside
    BY <1>7 DEF Outside, ReadKey, ChildWrites, ChildExits, OrphanExits, ResizeWindow,
                SendTerm, SendReload, Install, Listening, Deliver
  <1>8. CASE UNCHANGED vars
    BY <1>8 DEF vars
  <1> QED
    BY <1>1, <1>2, <1>3, <1>4, <1>5, <1>6, <1>7, <1>8, Zenon
       DEF Next, Main, StartUp, Loop, WayOut, Reexec

\* Each image takes the PTY over, and prepares to hand it on only in reexecSelf.
LEMMA SessionStep ==
  ASSUME TypeOK, Staged, SessionHeld, [Next]_vars
  PROVE  SessionHeld'
  <1> USE DEF TypeOK, StateType, FlagsType, Staged, Early, SessionHeld, LeaveAtOnce,
     Unwind, Terminate, Takes
  <1>1. CASE StartUp
    BY <1>1 DEF StartUp, ParseHandoff, LoadConfig, Enter, QuerySize, AdoptChild, StartChild,
                Visuals, StartReaders, StartSignals, Adopted
  <1>2. CASE Loop
    BY <1>2 DEF Loop, TakeOutput, TakeKey, TakeResize, TakeTermination, TakeChildExited,
                TakeReload
  <1>3. CASE WayOut
    BY <1>3 DEF WayOut, Restore, SignalGroup, AwaitGroup
  <1>4. CASE Reexec
    BY <1>4 DEF Reexec, ClearCloexec, SuspendRaw, ExecFails, Exec
  <1>5. CASE Signalling
    BY <1>5 DEF Signalling, TakeSignal, SendSignal
  <1>6. CASE Reader \/ Waiter
    BY <1>6 DEF Reader, ReadPty, ReadPtyEnds, SendOutput, Waiter, Reap, Drain, SendExited
  <1>7. CASE Outside
    BY <1>7 DEF Outside, ReadKey, ChildWrites, ChildExits, OrphanExits, ResizeWindow,
                SendTerm, SendReload, Install, Listening, Deliver
  <1>8. CASE UNCHANGED vars
    BY <1>8 DEF vars
  <1> QED
    BY <1>1, <1>2, <1>3, <1>4, <1>5, <1>6, <1>7, <1>8, Zenon
       DEF Next, Main, StartUp, Loop, WayOut, Reexec

\* "exited" is put into the queue by the goroutine that has reaped the child,
\* once, and the loop is left for Restore only after it or after the kill.
LEMMA ExitStep ==
  ASSUME QueuesType, Staged, ExitIsReal, [Next]_vars
  PROVE  ExitIsReal'
  <1> DEFINE Announced == \E i \in 1..Len(bus) : bus[i] = <<"exited">>
  <1>0. bus \in Seq(Events) /\ Len(bus) \in Nat
    BY LenProperties DEF QueuesType
  <1>1. wt' \in {"drain", "send", "done"} => child' = "reaped"
    BY SMT DEF Staged, Early, ExitIsReal, Next, Main, ParseHandoff, LoadConfig, Enter,
       QuerySize, AdoptChild, StartChild, Visuals, StartReaders, StartSignals, Restore,
       TakeOutput, TakeKey, TakeResize, TakeTermination, TakeChildExited, TakeReload,
       SignalGroup, AwaitGroup, ClearCloexec, SuspendRaw, ExecFails, Exec, Signalling,
       TakeSignal, SendSignal, Reader, ReadPty, ReadPtyEnds, SendOutput, Waiter, Reap,
       Drain, SendExited, Outside, ReadKey, ChildWrites, ChildExits, OrphanExits,
       ResizeWindow, SendTerm, SendReload, Install, vars
  <1>2. wt = "done" => wt' = "done" \/ (Exec /\ bus' = <<>>) \/ (StartReaders /\ bus' = bus)
    BY SMT DEF Next, Main, ParseHandoff, LoadConfig, Enter, QuerySize, AdoptChild,
       StartChild, Visuals, StartReaders, StartSignals, Restore, TakeOutput, TakeKey,
       TakeResize, TakeTermination, TakeChildExited, TakeReload, SignalGroup, AwaitGroup,
       ClearCloexec, SuspendRaw, ExecFails, Exec, Signalling, TakeSignal, SendSignal,
       Reader, ReadPty, ReadPtyEnds, SendOutput, Waiter, Reap, Drain, SendExited, Outside,
       ReadKey, ChildWrites, ChildExits, OrphanExits, ResizeWindow, SendTerm, SendReload,
       Install, vars
  <1>3. Announced' => wt' = "done"
    <2>1. CASE Announced' /\ ~Announced
      <3>1. CASE SendExited
        BY <3>1 DEF SendExited
      <3>2. CASE SendSignal \/ SendOutput \/ ReadKey
        <4>1. PICK e \in Events : bus' = Append(bus, e) /\ e # <<"exited">>
          <5>1. CASE SendSignal
            BY <5>1, SignalKinds DEF SendSignal
          <5>2. CASE SendOutput \/ ReadKey
            BY <5>2 DEF SendOutput, ReadKey, Events
          <5> QED BY <3>2, <5>1, <5>2
        <4>2. PICK i \in 1..Len(bus') : bus'[i] = <<"exited">>
          BY <2>1
        <4>3. i \in 1..Len(bus) /\ bus[i] = <<"exited">>
          <5>1. /\ Len(bus') = Len(bus) + 1 /\ bus'[Len(bus) + 1] = e
                /\ \A j \in 1..Len(bus) : bus'[j] = bus[j]
            BY <1>0, <4>1, QueueAppend
          <5>2. i = Len(bus) + 1 \/ i \in 1..Len(bus)
            BY <1>0, <4>2, <5>1
          <5>3. i # Len(bus) + 1
            BY <4>1, <4>2, <5>1
          <5> QED BY <4>2, <5>1, <5>2, <5>3
        <4> QED BY <2>1, <4>3
      <3>3. CASE Loop
        <4>1. bus # <<>> /\ bus' = Tail(bus)
          BY <3>3, Zenon DEF Loop, TakeOutput, TakeKey, TakeResize, TakeTermination,
                      TakeChildExited, TakeReload, Takes
        <4> QED BY <1>0, <2>1, <4>1, QueueTake
      <3>4. CASE Exec
        BY <2>1, <3>4 DEF Exec
      <3>5. CASE bus' = bus
        BY <2>1, <3>5
      <3> QED BY <3>1, <3>2, <3>3, <3>4, <3>5, BusSteps
    <2>2. CASE Announced' /\ Announced
      <3>1. wt = "done"
        BY <2>2 DEF ExitIsReal
      <3>2. CASE Exec /\ bus' = <<>>
        BY <2>2, <3>2
      <3>3. CASE StartReaders
        BY <2>2, <3>3 DEF StartReaders, Staged, Early
      <3> QED BY <1>2, <3>1, <3>2, <3>3
    <2> QED BY <2>1, <2>2
  <1>4. pc' = "restore" => wt' = "off" \/ child' = "reaped" \/ killed'
    <2>1. CASE TakeChildExited
      <3>1. Head(bus) \in Events /\ Head(bus) = bus[1] /\ Len(bus) \in Nat \ {0}
            /\ Head(bus)[1] = "exited" /\ UNCHANGED <<wt, child>>
        BY <1>0, <2>1, QueueTake DEF TakeChildExited, Takes
      <3>2. bus[1] = <<"exited">>
        BY <3>1, EventKinds
      <3> QED BY <3>1, <3>2 DEF ExitIsReal
    <2>2. CASE TakeOutput \/ TakeKey \/ TakeResize \/ TakeTermination \/ TakeReload \/ Reexec
      BY <2>2 DEF TakeOutput, TakeKey, TakeResize, TakeTermination, TakeReload, Takes,
         Terminate, Reexec, ClearCloexec, SuspendRaw, ExecFails, Exec
    <2>3. CASE StartUp
      BY <2>3 DEF Staged, Early, StartUp, ParseHandoff, LoadConfig, Enter, QuerySize,
         AdoptChild, StartChild, Visuals, StartReaders, StartSignals, LeaveAtOnce, Unwind
    <2>4. CASE WayOut
      BY <2>4 DEF ExitIsReal, WayOut, Restore, SignalGroup, AwaitGroup
    <2>5. CASE Signalling \/ Reader \/ Waiter \/ Outside \/ UNCHANGED vars
      BY <2>5 DEF ExitIsReal, Signalling, TakeSignal, SendSignal, Reader, ReadPty,
         ReadPtyEnds, SendOutput, Waiter, Reap, Drain, SendExited, Outside, ReadKey,
         ChildWrites, ChildExits, OrphanExits, ResizeWindow, SendTerm, SendReload,
         Install, vars
    <2> QED BY <2>1, <2>2, <2>3, <2>4, <2>5, Zenon DEF Next, Main, StartUp, WayOut, Reexec
  <1> QED BY <1>1, <1>3, <1>4 DEF ExitIsReal

\* The steps that leave queue and screen alone, and move no chunk or move it
\* from the PTY into the reader's hand, or into the PTY.
LEMMA LedgerKept ==
  ASSUME LifecycleAssumption, TypeOK, NoChunkIsLost, UNCHANGED <<bus, shown>>,
         written' \in 0..MaxOutput, inPty' \in Int,
         inPty' + InHand' - written' = inPty + InHand - written,
         cut => cut', code' = "none" => code = "none"
  PROVE  NoChunkIsLost'
  <1>1. PICK total \in [0..Len(bus) -> 0..MaxOutput] : Ledger(total)
    BY DEF NoChunkIsLost
  <1>2. /\ \A i \in 0..Len(bus) : total[i] \in Int
        /\ Len(bus) \in Nat /\ written \in Int /\ inPty \in Int /\ InHand \in Int /\ InHand' \in Int
    BY LenProperties DEF TypeOK, QueuesType, CountsType, InHand, LifecycleAssumption
  <1>3. total[Len(bus)] \in Int /\ total[0] \in Int
    BY <1>2
  <1>4. Ledger(total)'
    <2>1. /\ shown <= total[0] /\ total[Len(bus)] + inPty + InHand <= written
          /\ ~cut /\ code = "none" =>
                shown = total[0] /\ total[Len(bus)] + inPty + InHand = written
      BY <1>1 DEF Ledger
    <2>2. /\ total[Len(bus)] + inPty' + InHand' <= written'
          /\ total[Len(bus)] + inPty + InHand = written =>
                total[Len(bus)] + inPty' + InHand' = written'
      <3>1. written' \in Int
        BY DEF LifecycleAssumption
      <3>2. PICK t \in Int, p \in Int, h \in Int, w \in Int :
               t = total[Len(bus)] /\ p = inPty /\ h = InHand /\ w = written
        BY <1>2, <1>3
      <3>3. PICK p1 \in Int, h1 \in Int, w1 \in Int :
               p1 = inPty' /\ h1 = InHand' /\ w1 = written'
        BY <1>2, <3>1
      <3>4. p1 + h1 - w1 = p + h - w
        BY <3>2, <3>3, Zenon
      <3>5. t + p + h <= w => t + p1 + h1 <= w1
        BY <3>4
      <3>6. t + p + h = w => t + p1 + h1 = w1
        BY <3>4
      <3> QED BY <2>1, <3>2, <3>3, <3>5, <3>6, Zenon
    <2>3. shown' <= total[0] /\ total[Len(bus')] + inPty' + InHand' <= written'
      BY <2>1, <2>2, Zenon
    <2>4. ~cut' /\ code' = "none" =>
             shown' = total[0] /\ total[Len(bus')] + inPty' + InHand' = written'
      BY <2>1, <2>2, Zenon
    <2> QED BY <1>1, <2>3, <2>4 DEF Ledger
  <1> QED BY <1>1, <1>4 DEF NoChunkIsLost

\* What the ledger says, for a queue of n events.
LedgerOver(n, total) ==
  /\ n = Len(bus) /\ total \in [0..n -> 0..MaxOutput] /\ \A i \in 0..n : total[i] \in Nat
  /\ shown <= total[0] /\ total[n] + inPty + InHand <= written
  /\ ~cut /\ code = "none" => shown = total[0] /\ total[n] + inPty + InHand = written
  /\ \A i, j \in 0..n : i <= j => total[i] <= total[j]
  /\ \A i \in 1..n :
        /\ total[i] = total[i - 1] + (IF bus[i] = <<"output">> THEN 1 ELSE 0)
        /\ ~cut /\ bus[i] = <<"exited">> => total[n] = total[i]

\* There is such a ledger.
LEMMA LedgerOf ==
  ASSUME LifecycleAssumption, TypeOK, NoChunkIsLost
  PROVE  \E n \in Nat : \E total : LedgerOver(n, total)
  <1>1. PICK total \in [0..Len(bus) -> 0..MaxOutput] : Ledger(total)
    BY DEF NoChunkIsLost
  <1>2. Len(bus) \in Nat
    BY LenProperties DEF TypeOK, QueuesType
  <1>3. \A i \in 0..Len(bus) : total[i] \in Nat
    BY <1>1 DEF LifecycleAssumption
  <1> QED BY <1>1, <1>2, <1>3, Zenon DEF Ledger, LedgerOver

\* A new queue has a ledger.
LEMMA LedgerFor ==
  ASSUME NEW n \in Nat, Len(bus') = n, NEW t \in [0..n -> 0..MaxOutput],
         shown' <= t[0], t[n] + inPty' + InHand' <= written',
         ~cut' /\ code' = "none" => shown' = t[0] /\ t[n] + inPty' + InHand' = written',
         \A i, j \in 0..n : i <= j => t[i] <= t[j],
         \A i \in 1..n : /\ t[i] = t[i - 1] + (IF bus'[i] = <<"output">> THEN 1 ELSE 0)
                         /\ ~cut' /\ bus'[i] = <<"exited">> => t[n] = t[i]
  PROVE  NoChunkIsLost'
  <1>1. Ledger(t)'
    BY Zenon DEF Ledger
  <1> QED BY <1>1, Zenon DEF NoChunkIsLost

\* An event is put into the queue: a chunk out of the reader's hand, or something
\* else.
LEMMA LedgerAppend ==
  ASSUME LifecycleAssumption, TypeOK, NoChunkIsLost,
         NEW e \in Events, NEW d \in {0, 1}, d = (IF e = <<"output">> THEN 1 ELSE 0),
         bus' = Append(bus, e), InHand' = InHand - d,
         UNCHANGED <<shown, inPty, written, cut, code>>,
         ~cut /\ d = 1 => \A i \in 1..Len(bus) : bus[i] # <<"exited">>
  PROVE  NoChunkIsLost'
  <1>0. PICK n \in Nat : \E total : LedgerOver(n, total)
    BY LedgerOf
  <1>1. PICK total : LedgerOver(n, total)
    BY <1>0
  <1>2. /\ Len(bus') = n + 1 /\ bus'[n + 1] = e
        /\ \A i \in 1..n : bus'[i] = bus[i]
    BY <1>1, QueueAppend DEF TypeOK, QueuesType, LedgerOver
  <1>3. /\ InHand \in {0, 1} /\ InHand' \in {0, 1} /\ written \in 0..MaxOutput /\ inPty \in Nat
        /\ MaxOutput \in Nat
    BY DEF InHand, TypeOK, CountsType, LifecycleAssumption
  <1>4. \A i \in 0..n : total[i] \in Nat /\ total[i] \in 0..MaxOutput
    BY <1>1 DEF LedgerOver
  <1>5. total[n] \in Nat /\ total[n] + d \in 0..MaxOutput
    BY <1>1, <1>3, <1>4 DEF LedgerOver
  <1> DEFINE t == [i \in 0..n+1 |-> IF i = n + 1 THEN total[n] + d ELSE total[i]]
  <1>6. /\ t \in [0..n+1 -> 0..MaxOutput] /\ t[n + 1] = total[n] + d
        /\ \A i \in 0..n : t[i] = total[i]
    BY <1>4, <1>5
  <1> HIDE DEF t
  <1>7. /\ shown' <= t[0] /\ t[n + 1] + inPty' + InHand' <= written'
        /\ ~cut' /\ code' = "none" => shown' = t[0] /\ t[n + 1] + inPty' + InHand' = written'
    BY <1>1, <1>3, <1>4, <1>5, <1>6 DEF LedgerOver
  <1>8. \A i, j \in 0..n+1 : i <= j => t[i] <= t[j]
    <2>1. \A i, j \in 0..n : i <= j => total[i] <= total[j]
      BY <1>1 DEF LedgerOver
    <2> TAKE i, j \in 0..n+1
    <2>2. CASE j = n + 1 /\ i = n + 1
      BY <1>5, <1>6, <2>2
    <2>3. CASE j = n + 1 /\ i \in 0..n
      BY <1>4, <1>5, <1>6, <2>1, <2>3
    <2>4. CASE j \in 0..n
      BY <1>6, <2>1, <2>4
    <2> QED BY <2>2, <2>3, <2>4
  <1>9. ASSUME NEW i \in 1..n+1
        PROVE  /\ t[i] = t[i - 1] + (IF bus'[i] = <<"output">> THEN 1 ELSE 0)
               /\ ~cut' /\ bus'[i] = <<"exited">> => t[n + 1] = t[i]
    <2>1. CASE i = n + 1
      <3>1. n \in 0..n /\ i - 1 = n
        BY <2>1
      <3> QED BY <1>2, <1>5, <1>6, <2>1, <3>1
    <2>2. CASE i \in 1..n
      <3>1. /\ total[i] = total[i - 1] + (IF bus[i] = <<"output">> THEN 1 ELSE 0)
            /\ ~cut /\ bus[i] = <<"exited">> => total[n] = total[i]
        BY <1>1, <2>2 DEF LedgerOver
      <3>2. i \in 0..n /\ i - 1 \in 0..n
        BY <2>2
      <3>3. ~cut /\ bus[i] = <<"exited">> => d = 0
        BY <1>1, <2>2 DEF LedgerOver
      <3>4. t[i] = total[i] /\ t[i - 1] = total[i - 1] /\ bus'[i] = bus[i]
        BY <1>2, <1>6, <2>2, <3>2
      <3>5. t[n + 1] = total[n] + d /\ (d = 0 => total[n] + d = total[n])
        BY <1>5, <1>6
      <3> QED BY <3>1, <3>3, <3>4, <3>5
    <2>3. i = n + 1 \/ i \in 1..n
      OBVIOUS
    <2> QED BY <2>1, <2>2, <2>3, Zenon
  <1>10. n + 1 \in Nat /\ Len(bus') = n + 1
    BY <1>2
  <1> QED BY <1>6, <1>7, <1>8, <1>9, <1>10, LedgerFor, Zenon

\* The loop takes an event: a chunk, which it shows or cannot show, or something
\* else.
LEMMA LedgerTake ==
  ASSUME LifecycleAssumption, TypeOK, NoChunkIsLost, bus # <<>>, bus' = Tail(bus),
         NEW d \in {0, 1}, d = (IF Head(bus) = <<"output">> THEN 1 ELSE 0),
         shown' = shown + d \/ (shown' = shown /\ code' # "none"),
         code' = "none" => code = "none",
         UNCHANGED <<inPty, written, rd, cut>>
  PROVE  NoChunkIsLost'
  <1>0. PICK n \in Nat : \E total : LedgerOver(n, total)
    BY LedgerOf
  <1>1. PICK total : LedgerOver(n, total)
    BY <1>0
  <1>2. PICK m \in Nat : n = m + 1 /\ Len(bus') = m
    <2>1. n - 1 \in Nat /\ Len(bus') = n - 1
      BY <1>1, QueueTake DEF TypeOK, QueuesType, LedgerOver
    <2> QED BY <2>1
  <1>3. /\ Head(bus) = bus[1] /\ \A i \in 1..m : bus'[i] = bus[i + 1]
        /\ InHand' = InHand /\ InHand \in {0, 1} /\ written \in Nat /\ inPty \in Nat
        /\ shown \in Nat
    BY <1>2, QueueTake DEF TypeOK, QueuesType, CountsType, LifecycleAssumption, InHand
  <1>4. \A i \in 0..n : total[i] \in Nat /\ total[i] \in 0..MaxOutput
    BY <1>1 DEF LedgerOver
  <1> DEFINE t == [i \in 0..m |-> total[i + 1]]
  <1>5. t \in [0..m -> 0..MaxOutput] /\ \A i \in 0..m : t[i] = total[i + 1]
    BY <1>2, <1>4
  <1> HIDE DEF t
  <1>6. total[1] = total[0] + d
    <2>1. 1 \in 1..n
      BY <1>2
    <2>2. total[1] = total[1 - 1] + (IF bus[1] = <<"output">> THEN 1 ELSE 0)
      BY <1>1, <2>1, Zenon DEF LedgerOver
    <2> QED BY <1>3, <2>2
  <1>7. /\ shown' <= t[0] /\ t[m] + inPty' + InHand' <= written'
        /\ ~cut' /\ code' = "none" => shown' = t[0] /\ t[m] + inPty' + InHand' = written'
    <2>1. t[0] = total[1] /\ t[m] = total[n] /\ total[0] \in Nat /\ total[n] \in Nat
      BY <1>2, <1>4, <1>5
    <2>2. /\ shown <= total[0] /\ total[n] + inPty + InHand <= written
          /\ ~cut /\ code = "none" => shown = total[0] /\ total[n] + inPty + InHand = written
      BY <1>1, Zenon DEF LedgerOver
    <2>3. t[m] + inPty' + InHand' = total[n] + inPty + InHand /\ written' = written
      BY <1>3, <2>1
    <2>4. shown' <= t[0] /\ (code' = "none" /\ shown = total[0] => shown' = t[0])
      <3>1. CASE shown' = shown + d
        BY <1>3, <1>6, <2>1, <2>2, <3>1
      <3>2. CASE shown' = shown /\ code' # "none"
        BY <1>3, <1>6, <2>1, <2>2, <3>2
      <3> QED BY <3>1, <3>2
    <2> QED BY <2>2, <2>3, <2>4
  <1>8. \A i, j \in 0..m : i <= j => t[i] <= t[j]
    <2>1. \A i, j \in 0..n : i <= j => total[i] <= total[j]
      BY <1>1 DEF LedgerOver
    <2> TAKE i, j \in 0..m
    <2>2. i + 1 \in 0..n /\ j + 1 \in 0..n
      BY <1>2
    <2>3. i <= j => total[i + 1] <= total[j + 1]
      BY <2>1, <2>2
    <2> QED BY <1>5, <2>3
  <1>9. ASSUME NEW i \in 1..m
        PROVE  /\ t[i] = t[i - 1] + (IF bus'[i] = <<"output">> THEN 1 ELSE 0)
               /\ ~cut' /\ bus'[i] = <<"exited">> => t[m] = t[i]
    <2>1. /\ i + 1 \in 1..n /\ (i + 1) - 1 = (i - 1) + 1
          /\ i - 1 \in 0..m /\ i \in 0..m /\ m \in 0..m
      BY <1>2
    <2>2. /\ total[i + 1] = total[(i + 1) - 1] + (IF bus[i + 1] = <<"output">> THEN 1 ELSE 0)
          /\ ~cut /\ bus[i + 1] = <<"exited">> => total[n] = total[i + 1]
      BY <1>1, <2>1 DEF LedgerOver
    <2>3. t[i] = total[i + 1] /\ t[i - 1] = total[(i + 1) - 1] /\ t[m] = total[n]
      BY <1>2, <1>5, <2>1
    <2> QED BY <1>3, <2>2, <2>3
  <1> QED BY <1>2, <1>5, <1>7, <1>8, <1>9, LedgerFor

\* A re-exec loses what is in the queue and in the reader's hand.
LEMMA LedgerExec ==
  ASSUME LifecycleAssumption, TypeOK, NoChunkIsLost, Exec
  PROVE  NoChunkIsLost'
  <1>0. PICK n \in Nat : \E total : LedgerOver(n, total)
    BY LedgerOf
  <1>1. PICK total : LedgerOver(n, total)
    BY <1>0
  <1>2. /\ bus' = <<>> /\ rd' = "off" /\ cut' /\ UNCHANGED <<shown, inPty, written>>
        /\ InHand' = 0 /\ InHand \in {0, 1}
    BY DEF Exec, InHand
  <1>3. /\ Len(bus') = 0 /\ inPty \in Nat /\ written \in Nat /\ shown \in Nat
    BY <1>2 DEF TypeOK, CountsType, LifecycleAssumption
  <1>4. total[n] \in 0..MaxOutput /\ total[n] \in Nat /\ total[0] \in Nat
    BY <1>1 DEF LedgerOver
  <1>5. shown <= total[n] /\ total[n] + inPty <= written
    <2>1. total[0] <= total[n]
      BY <1>1 DEF LedgerOver
    <2> QED BY <1>1, <1>2, <1>3, <1>4, <2>1 DEF LedgerOver
  <1> DEFINE t == [i \in 0..0 |-> total[n]]
  <1>6. t \in [0..0 -> 0..MaxOutput] /\ t[0] = total[n]
    BY <1>4
  <1> HIDE DEF t
  <1>7. shown' <= t[0] /\ t[0] + inPty' + InHand' <= written'
    BY <1>2, <1>3, <1>4, <1>5, <1>6
  <1>8. \A i, j \in 0..0 : i <= j => t[i] <= t[j]
    BY <1>4, <1>6
  <1> QED BY <1>2, <1>3, <1>6, <1>7, <1>8, LedgerFor

\* No step loses a chunk while nothing is cut and the terminal takes all.
LEMMA LedgerStep ==
  ASSUME LifecycleAssumption, TypeOK, Staged, ExitIsReal, ReaderIsAwaited, NoChunkIsLost,
         [Next]_vars
  PROVE  NoChunkIsLost'
  <1>0. /\ inPty \in Nat /\ written \in 0..MaxOutput /\ MaxOutput \in Nat /\ InHand \in {0, 1}
        /\ InHand' \in {0, 1}
    BY DEF TypeOK, CountsType, LifecycleAssumption, InHand
  <1>1. CASE Loop
    <2>1. /\ bus # <<>> /\ bus' = Tail(bus) /\ UNCHANGED <<inPty, written, rd, cut>>
          /\ \/ /\ Head(bus)[1] = "output"
                /\ shown' = shown + 1 \/ (shown' = shown /\ code' # "none")
             \/ Head(bus)[1] # "output" /\ shown' = shown
      BY <1>1 DEF Loop, TakeOutput, TakeKey, TakeResize, TakeTermination, TakeChildExited,
                  TakeReload, Takes, Terminate
    <2>2. Head(bus) \in Events
      BY <2>1, QueueTake DEF TypeOK, QueuesType
    <2>3. Head(bus)[1] = "output" <=> Head(bus) = <<"output">>
      BY <2>2, EventKinds
    <2>4. code = "none"
      BY <1>1 DEF Staged, Over, Loop, TakeOutput, TakeKey, TakeResize, TakeTermination,
                  TakeChildExited, TakeReload, Takes
    <2>5. shown \in Nat
      BY DEF TypeOK, CountsType
    <2>6. CASE Head(bus) = <<"output">>
      <3>1. shown' = shown + 1 \/ (shown' = shown /\ code' # "none")
        BY <2>1, <2>3, <2>6
      <3> QED BY <2>1, <2>4, <2>6, <3>1, LedgerTake
    <2>7. CASE Head(bus) # <<"output">>
      <3>1. shown' = shown + 0
        BY <2>1, <2>3, <2>5, <2>7
      <3> QED BY <2>1, <2>4, <2>7, <3>1, LedgerTake
    <2> QED BY <2>6, <2>7
  <1>2. CASE Exec
    BY <1>2, LedgerExec
  <1>3. CASE SendOutput
    <2>1. /\ bus' = Append(bus, <<"output">>) /\ UNCHANGED <<shown, inPty, written, cut, code>>
          /\ InHand' = InHand - 1 /\ <<"output">> \in Events
      BY <1>3 DEF SendOutput, InHand, Events
    <2>2. ~cut => \A i \in 1..Len(bus) : bus[i] # <<"exited">>
      BY <1>3 DEF SendOutput, ExitIsReal, ReaderIsAwaited
    <2> QED BY <2>1, <2>2, LedgerAppend
  <1>4. CASE SendSignal \/ SendExited \/ ReadKey
    <2>1. PICK e \in Events : bus' = Append(bus, e) /\ e # <<"output">>
      <3>1. CASE SendSignal
        BY <3>1, SignalKinds DEF SendSignal, TypeOK
      <3>2. CASE SendExited \/ ReadKey
        BY <3>2 DEF SendExited, ReadKey, Events
      <3> QED BY <1>4, <3>1, <3>2
    <2>2. UNCHANGED <<shown, inPty, written, cut, code, rd>>
      BY <1>4 DEF SendSignal, SendExited, ReadKey
    <2>3. InHand' = InHand - 0
      BY <2>2 DEF InHand
    <2> QED BY <2>1, <2>2, <2>3, LedgerAppend
  <1>5. CASE ReadPty
    <2>1. /\ UNCHANGED <<bus, shown, written, cut, code>> /\ inPty' = inPty - 1
          /\ InHand = 0 /\ InHand' = 1
      BY <1>5 DEF ReadPty, InHand
    <2> QED BY <1>0, <2>1, LedgerKept
  <1>6. CASE ChildWrites
    <2>1. /\ UNCHANGED <<bus, shown, cut, code, rd>>
          /\ inPty' = inPty + 1 /\ written' = written + 1
          /\ written < MaxOutput /\ InHand' = InHand
      BY <1>6 DEF ChildWrites, InHand
    <2> QED BY <1>0, <2>1, LedgerKept
  <1>7. CASE \/ StartUp \/ WayOut \/ ClearCloexec \/ SuspendRaw \/ ExecFails \/ TakeSignal
             \/ ReadPtyEnds \/ Reap \/ Drain \/ ChildExits \/ OrphanExits \/ ResizeWindow
             \/ SendTerm \/ SendReload \/ Install \/ UNCHANGED vars
    <2>1. /\ UNCHANGED <<bus, shown, inPty, written>>
          /\ (cut => cut') /\ (code' = "none" => code = "none")
      <3>1. CASE ParseHandoff \/ LoadConfig \/ Enter \/ QuerySize \/ AdoptChild
        BY <3>1 DEF ParseHandoff, LoadConfig, Enter, QuerySize, AdoptChild, LeaveAtOnce
      <3>2. CASE StartChild \/ Visuals \/ StartReaders \/ StartSignals
        BY <3>2 DEF StartChild, Visuals, StartReaders, StartSignals, Unwind
      <3>3. CASE WayOut \/ ClearCloexec \/ SuspendRaw \/ ExecFails
        BY <3>3 DEF WayOut, Restore, SignalGroup, AwaitGroup, ClearCloexec, SuspendRaw,
           ExecFails
      <3>4. CASE TakeSignal \/ ReadPtyEnds \/ Reap \/ Drain
        BY <3>4 DEF TakeSignal, ReadPtyEnds, Reap, Drain, TypeOK, FlagsType
      <3>5. CASE \/ ChildExits \/ OrphanExits \/ ResizeWindow \/ SendTerm \/ SendReload
                 \/ Install \/ UNCHANGED vars
        BY <3>5 DEF ChildExits, OrphanExits, ResizeWindow, SendTerm, SendReload, Install,
           vars
      <3> QED BY <1>7, <3>1, <3>2, <3>3, <3>4, <3>5, Zenon DEF StartUp
    <2>2. rd' = "send" <=> rd = "send"
      <3>1. CASE StartReaders
        BY <3>1 DEF Staged, Early, StartReaders
      <3>2. CASE ReadPtyEnds
        BY <3>2 DEF ReadPtyEnds
      <3>3. CASE \/ ParseHandoff \/ LoadConfig \/ Enter \/ QuerySize \/ AdoptChild \/ StartChild
                 \/ Visuals \/ StartSignals
        BY <3>3, Zenon DEF ParseHandoff, LoadConfig, Enter, QuerySize, AdoptChild,
           StartChild, Visuals, StartSignals
      <3>4. CASE \/ WayOut \/ ClearCloexec \/ SuspendRaw \/ ExecFails \/ TakeSignal \/ Reap
                 \/ Drain
        BY <3>4, Zenon DEF WayOut, Restore, SignalGroup, AwaitGroup, ClearCloexec,
           SuspendRaw, ExecFails, TakeSignal, Reap, Drain
      <3>5. CASE \/ ChildExits \/ OrphanExits \/ ResizeWindow \/ SendTerm \/ SendReload
                 \/ Install \/ UNCHANGED vars
        BY <3>5, Zenon DEF ChildExits, OrphanExits, ResizeWindow, SendTerm, SendReload,
           Install, vars
      <3> QED BY <1>7, <3>1, <3>2, <3>3, <3>4, <3>5, Zenon DEF StartUp
    <2>3. InHand' = InHand
      BY <2>2 DEF InHand
    <2> QED BY <1>0, <2>1, <2>3, LedgerKept
  <1> QED
    BY <1>1, <1>2, <1>3, <1>4, <1>5, <1>6, <1>7, Zenon
       DEF Next, Main, StartUp, Loop, WayOut, Signalling, Reader, Waiter, Outside

\* So the counts stay within the bound on what the child writes.
LEMMA CountsTypeStep ==
  ASSUME LifecycleAssumption, TypeOK, QueuesType', NoChunkIsLost', [Next]_vars
  PROVE  CountsType'
  <1>1. PICK total \in [0..Len(bus') -> 0..MaxOutput] : Ledger(total)'
    BY DEF NoChunkIsLost
  <1>2. /\ inPty \in Nat /\ written \in 0..MaxOutput /\ shown \in Nat /\ MaxOutput \in Nat
        /\ InHand' \in {0, 1} /\ Len(bus') \in Nat
    BY LenProperties DEF TypeOK, CountsType, LifecycleAssumption, InHand, QueuesType
  <1>3. total[0] \in 0..MaxOutput /\ total[Len(bus')] \in 0..MaxOutput
    BY <1>1, <1>2
  <1>4. shown' <= total[0] /\ total[Len(bus')] + inPty' + InHand' <= written'
    BY <1>1 DEF Ledger
  <1>5. \/ UNCHANGED <<inPty, written, shown>>
        \/ ReadPty \/ ChildWrites \/ TakeOutput
    <2>1. CASE StartUp
      BY <2>1, Zenon DEF StartUp, ParseHandoff, LoadConfig, Enter, QuerySize, AdoptChild,
         StartChild, Visuals, StartReaders, StartSignals
    <2>2. CASE \/ TakeKey \/ TakeResize \/ TakeTermination \/ TakeChildExited \/ TakeReload
               \/ WayOut
      BY <2>2, Zenon DEF TakeKey, TakeResize, TakeTermination, TakeChildExited,
         TakeReload, WayOut, Restore, SignalGroup, AwaitGroup
    <2>3. CASE Reexec
      BY <2>3, Zenon DEF Reexec, ClearCloexec, SuspendRaw, ExecFails, Exec
    <2>4. CASE Signalling \/ ReadPtyEnds \/ SendOutput \/ Waiter
      BY <2>4, Zenon DEF Signalling, TakeSignal, SendSignal, ReadPtyEnds, SendOutput,
         Waiter, Reap, Drain, SendExited
    <2>5. CASE \/ ReadKey \/ ChildExits \/ OrphanExits \/ ResizeWindow \/ SendTerm \/ SendReload
               \/ Install \/ UNCHANGED vars
      BY <2>5, Zenon DEF ReadKey, ChildExits, OrphanExits, ResizeWindow, SendTerm,
         SendReload, Install, vars
    <2> QED
      BY <2>1, <2>2, <2>3, <2>4, <2>5, Zenon
         DEF Next, Main, StartUp, WayOut, Reexec, Signalling, Reader, Waiter, Outside
  <1>6. written' \in 0..MaxOutput /\ inPty' \in Nat /\ shown' \in Nat
    <2>1. CASE UNCHANGED <<inPty, written, shown>>
      BY <1>2, <2>1
    <2>2. CASE ReadPty
      BY <1>2, <2>2 DEF ReadPty
    <2>3. CASE ChildWrites
      BY <1>2, <2>3 DEF ChildWrites
    <2>4. CASE TakeOutput
      BY <1>2, <2>4 DEF TakeOutput
    <2> QED BY <1>5, <2>1, <2>2, <2>3, <2>4
  <1> QED BY <1>2, <1>3, <1>4, <1>6 DEF CountsType

\* When the child's exit ends the loop, all its output has been shown.
LEMMA LastChunk ==
  ASSUME LifecycleAssumption, TypeOK, Staged, ExitIsReal, ReaderIsAwaited, NoChunkIsLost,
         TakeChildExited, ~cut
  PROVE  shown = written /\ ~slave
  <1>0. PICK n \in Nat : \E total : LedgerOver(n, total)
    BY LedgerOf
  <1>1. PICK total : LedgerOver(n, total)
    BY <1>0
  <1>2. n \in Nat \ {0} /\ bus[1] = <<"exited">>
    <2>1. bus # <<>> /\ Head(bus)[1] = "exited" /\ bus \in Seq(Events)
      BY DEF TakeChildExited, Takes, TypeOK, QueuesType
    <2>2. Head(bus) \in Events /\ Head(bus) = bus[1] /\ n \in Nat \ {0}
      BY <1>1, <2>1, QueueTake DEF LedgerOver
    <2> QED BY <2>1, <2>2, EventKinds
  <1>3. wt = "done"
    BY <1>1, <1>2 DEF ExitIsReal, LedgerOver
  <1>4. inPty = 0 /\ ~slave /\ InHand = 0
    BY <1>3 DEF ReaderIsAwaited, InHand
  <1>5. code = "none"
    BY DEF TakeChildExited, Takes, Staged, Over
  <1>6. shown = total[0] /\ total[n] + inPty + InHand = written
    BY <1>1, <1>5 DEF LedgerOver
  <1>7. total[n] = total[0]
    <2>1. total[1] = total[1 - 1] + 0 /\ total[n] = total[1]
      BY <1>1, <1>2 DEF LedgerOver
    <2>2. total[0] \in Nat /\ 1 - 1 = 0
      BY <1>1 DEF LedgerOver
    <2> QED BY <2>1, <2>2
  <1>8. total[n] \in Nat
    BY <1>1 DEF LedgerOver
  <1> QED BY <1>4, <1>6, <1>7, <1>8

\* The reader ends with the PTY, and the waiting goroutine after the reader.
LEMMA AwaitStep ==
  ASSUME LifecycleAssumption, TypeOK, Staged, ExitIsReal, ReaderIsAwaited, NoChunkIsLost,
         [Next]_vars
  PROVE  ReaderIsAwaited'
  <1> USE DEF TypeOK, StateType, FlagsType, CountsType, Staged, Early, Over,
     ReaderIsAwaited, LeaveAtOnce, Unwind, Terminate, Takes
  <1>1. CASE StartUp
    BY <1>1 DEF StartUp, ParseHandoff, LoadConfig, Enter, QuerySize, AdoptChild, StartChild,
                Visuals, StartReaders, StartSignals, Adopted
  <1>2. CASE Loop
    <2>1. CASE TakeChildExited
      BY <2>1, LastChunk DEF TakeChildExited
    <2>2. CASE TakeOutput \/ TakeKey \/ TakeResize \/ TakeTermination \/ TakeReload
      BY <2>2 DEF TakeOutput, TakeKey, TakeResize, TakeTermination, TakeReload
    <2> QED BY <1>2, <2>1, <2>2, Zenon DEF Loop
  <1>3. CASE WayOut
    BY <1>3 DEF WayOut, Restore, SignalGroup, AwaitGroup
  <1>4. CASE Reexec
    BY <1>4 DEF Reexec, ClearCloexec, SuspendRaw, ExecFails, Exec
  <1>5. CASE Signalling
    BY <1>5 DEF Signalling, TakeSignal, SendSignal
  <1>6. CASE Reader \/ Waiter
    <2>1. CASE Reader
      BY <2>1 DEF Reader, ReadPty, ReadPtyEnds, SendOutput
    <2>2. CASE Reap
      BY <2>2 DEF Reap
    <2>3. CASE Drain
      BY <2>3 DEF Drain
    <2>4. CASE SendExited
      BY <2>4 DEF SendExited
    <2> QED BY <1>6, <2>1, <2>2, <2>3, <2>4 DEF Waiter
  <1>7. CASE Outside
    BY <1>7 DEF Outside, ReadKey, ChildWrites, ChildExits, OrphanExits, ResizeWindow,
                SendTerm, SendReload, Install, Listening, Deliver
  <1>8. CASE UNCHANGED vars
    BY <1>8 DEF vars
  <1> QED
    BY <1>1, <1>2, <1>3, <1>4, <1>5, <1>6, <1>7, <1>8, Zenon
       DEF Next, Main, StartUp, Loop, WayOut, Reexec

\* The newest size on its way is the window's, or the program knows it.
NewestArrives ==
  \/ IsResize(sg) /\ sg[2] = winsize
  \/ ~IsResize(sg) /\ \E i \in 1..Len(bus) :
        /\ IsResize(bus[i]) /\ bus[i][2] = winsize
        /\ \A j \in i+1..Len(bus) : ~IsResize(bus[j])
  \/ /\ ~IsResize(sg) /\ \A i \in 1..Len(bus) : ~IsResize(bus[i])
     /\ size = winsize

\* Another event at the end of the queue is not in its way.
LEMMA NewestAppend ==
  ASSUME QueuesType, NewestArrives, NEW e \in Events, ~IsResize(e), bus' = Append(bus, e),
         sg' = sg \/ (~IsResize(sg) /\ ~IsResize(sg')), UNCHANGED <<winsize, size>>
  PROVE  NewestArrives'
  <1>1. /\ Len(bus) \in Nat /\ Len(bus') = Len(bus) + 1 /\ bus'[Len(bus) + 1] = e
        /\ \A i \in 1..Len(bus) : bus'[i] = bus[i]
    BY QueueAppend DEF QueuesType
  <1>2. \A j \in 1..Len(bus') : j = Len(bus) + 1 \/ j \in 1..Len(bus)
    BY <1>1
  <1>3. CASE IsResize(sg) /\ sg[2] = winsize
    BY <1>3 DEF NewestArrives
  <1>4. ASSUME ~IsResize(sg), NEW i \in 1..Len(bus), IsResize(bus[i]), bus[i][2] = winsize,
               \A j \in i+1..Len(bus) : ~IsResize(bus[j])
        PROVE  NewestArrives'
    <2>1. i \in 1..Len(bus') /\ IsResize(bus'[i]) /\ bus'[i][2] = winsize'
      BY <1>1, <1>4
    <2>2. \A j \in i+1..Len(bus') : ~IsResize(bus'[j])
      <3> TAKE j \in i+1..Len(bus')
      <3>1. j = Len(bus) + 1 \/ (j \in i+1..Len(bus) /\ j \in 1..Len(bus))
        BY <1>1
      <3> QED BY <1>1, <1>4, <3>1
    <2> QED BY <1>4, <2>1, <2>2, Zenon DEF NewestArrives
  <1>5. CASE ~IsResize(sg) /\ (\A i \in 1..Len(bus) : ~IsResize(bus[i])) /\ size = winsize
    <2>1. \A i \in 1..Len(bus') : ~IsResize(bus'[i])
      BY <1>1, <1>2, <1>5
    <2> QED BY <1>5, <2>1, Zenon DEF NewestArrives
  <1> QED BY <1>3, <1>4, <1>5, Zenon DEF NewestArrives

\* The loop takes an event, and works with the size if it is one.
LEMMA NewestTake ==
  ASSUME QueuesType, NewestArrives, bus # <<>>, bus' = Tail(bus), UNCHANGED <<sg, winsize>>,
         IsResize(Head(bus)) => size' = Head(bus)[2], ~IsResize(Head(bus)) => size' = size
  PROVE  NewestArrives'
  <1>1. PICK m \in Nat : /\ Len(bus) = m + 1 /\ Len(bus') = m /\ Head(bus) = bus[1]
                         /\ \A i \in 1..m : bus'[i] = bus[i + 1]
    <2>1. /\ Len(bus) - 1 \in Nat /\ Len(bus') = Len(bus) - 1 /\ Len(bus) = (Len(bus) - 1) + 1
          /\ Head(bus) = bus[1] /\ \A i \in 1..(Len(bus) - 1) : bus'[i] = bus[i + 1]
      BY QueueTake DEF QueuesType
    <2> QED BY <2>1
  <1>2. CASE IsResize(sg) /\ sg[2] = winsize
    BY <1>2 DEF NewestArrives
  <1>3. ASSUME ~IsResize(sg), NEW i \in 1..Len(bus), IsResize(bus[i]), bus[i][2] = winsize,
               \A j \in i+1..Len(bus) : ~IsResize(bus[j])
        PROVE  NewestArrives'
    <2>1. CASE i = 1
      <3>1. \A j \in 1..m : j + 1 \in i+1..Len(bus)
        BY <1>1, <2>1
      <3>2. \A j \in 1..Len(bus') : ~IsResize(bus'[j])
        BY <1>1, <1>3, <3>1
      <3>3. size' = winsize'
        BY <1>1, <1>3, <2>1
      <3> QED BY <1>3, <3>2, <3>3, Zenon DEF NewestArrives
    <2>2. CASE i # 1
      <3>1. PICK k \in 1..m : i = k + 1
        <4>1. i - 1 \in 1..m /\ i = (i - 1) + 1
          BY <1>1, <2>2
        <4> QED BY <4>1
      <3>2. IsResize(bus'[k]) /\ bus'[k][2] = winsize' /\ k \in 1..Len(bus')
        BY <1>1, <1>3, <3>1
      <3>3. \A j \in k+1..m : j \in 1..m /\ j + 1 \in i+1..Len(bus)
        BY <1>1, <3>1
      <3>4. \A j \in k+1..Len(bus') : ~IsResize(bus'[j])
        BY <1>1, <1>3, <3>3
      <3> QED BY <1>3, <3>2, <3>4, Zenon DEF NewestArrives
    <2> QED BY <2>1, <2>2
  <1>4. CASE ~IsResize(sg) /\ (\A i \in 1..Len(bus) : ~IsResize(bus[i])) /\ size = winsize
    <2>1. 1 \in 1..Len(bus) /\ \A i \in 1..m : i + 1 \in 1..Len(bus)
      BY <1>1
    <2>2. (\A i \in 1..Len(bus') : ~IsResize(bus'[i])) /\ size' = winsize'
      BY <1>1, <1>4, <2>1
    <2> QED BY <1>4, <2>2, Zenon DEF NewestArrives
  <1> QED BY <1>2, <1>3, <1>4, Zenon DEF NewestArrives

\* From QuerySize on, the size of the window is known or on its way.
LEMMA SizeStep ==
  ASSUME LifecycleAssumption, TypeOK, Staged, SizeArrives, [Next]_vars
  PROVE  SizeArrives'
  <1> DEFINE Expected == /\ pc \notin {"parse", "load", "enter", "query", "gone"}
                         /\ ~missed /\ signals # <<"WINCH">>
  <1>0. /\ Expected => NewestArrives
        /\ (Expected' => NewestArrives') => SizeArrives'
    BY Zenon DEF SizeArrives, NewestArrives
  <1> SUFFICES ASSUME Expected' PROVE NewestArrives'
    BY <1>0
  <1>1. QueuesType /\ signals \in {Nothing} \cup {<<s>> : s \in {"WINCH", "TERM", "USR1"}}
    BY DEF TypeOK, QueuesType
  <1>2. ~IsResize(Off) /\ ~IsResize(Idle)
    BY DEF IsResize, Off, Idle
  <1>3. CASE QuerySize
    <2>1. bus' = <<>> /\ sg' = Off /\ size' = winsize'
      BY <1>3 DEF QuerySize, Staged, Early
    <2>2. \A i \in 1..Len(bus') : FALSE
      BY <2>1
    <2> QED BY <1>2, <2>1, <2>2, Zenon DEF NewestArrives
  <1>4. CASE ParseHandoff \/ LoadConfig \/ Enter \/ Exec \/ Restore
    BY <1>4 DEF ParseHandoff, LoadConfig, Enter, Exec, Restore, LeaveAtOnce
  <1>5. CASE TakeSignal
    <2>1. CASE signals = <<"WINCH">>
      <3>1. sg' = <<"resize", winsize'>>
        BY <1>5, <2>1 DEF TakeSignal
      <3>2. IsResize(sg') /\ sg'[2] = winsize'
        BY <3>1 DEF IsResize
      <3> QED BY <3>2, Zenon DEF NewestArrives
    <2>2. CASE signals \in {<<"TERM">>, <<"USR1">>}
      <3>1. /\ sg' \in {<<"termination">>, <<"reload">>} /\ sg = Idle
            /\ UNCHANGED <<pc, winsize, size, bus>> /\ (missed' <=> missed)
        BY <1>5, <2>2 DEF TakeSignal, TypeOK, FlagsType
      <3>2. ~IsResize(sg')
        BY <3>1 DEF IsResize
      <3>3. signals # <<"WINCH">>
        BY <2>2
      <3>4. NewestArrives
        BY <1>0, <3>1, <3>3
      <3> QED BY <1>2, <3>1, <3>2, <3>4, Zenon DEF NewestArrives
    <2> QED BY <1>1, <1>5, <2>1, <2>2 DEF TakeSignal, Nothing
  <1>6. CASE SendSignal
    <2>1. /\ bus' = Append(bus, sg) /\ sg' = Idle /\ sg \in Events
          /\ UNCHANGED <<pc, winsize, size, missed, signals>>
      BY <1>1, <1>6, SignalKinds DEF SendSignal
    <2>2. NewestArrives
      BY <1>0, <2>1
    <2>3. CASE IsResize(sg)
      <3>1. sg[2] = winsize
        BY <2>2, <2>3, Zenon DEF NewestArrives
      <3>2. /\ Len(bus') \in 1..Len(bus') /\ bus'[Len(bus')] = sg
            /\ \A j \in Len(bus')+1..Len(bus') : FALSE
        BY <1>1, <2>1, QueueAppend DEF QueuesType
      <3> QED BY <1>2, <2>1, <2>3, <3>1, <3>2 DEF NewestArrives
    <2>4. CASE ~IsResize(sg)
      BY <1>1, <1>2, <2>1, <2>2, <2>4, NewestAppend
    <2> QED BY <2>3, <2>4
  <1>7. CASE SendOutput \/ SendExited \/ ReadKey
    <2>1. /\ UNCHANGED <<pc, winsize, size, missed, signals, sg>>
          /\ bus' \in {Append(bus, e) : e \in {<<"output">>, <<"exited">>, <<"key">>}}
      BY <1>7 DEF SendOutput, SendExited, ReadKey
    <2>2. \A e \in {<<"output">>, <<"exited">>, <<"key">>} : e \in Events /\ ~IsResize(e)
      BY DEF Events, IsResize
    <2>3. NewestArrives
      BY <1>0, <2>1
    <2> QED BY <1>1, <2>1, <2>2, <2>3, NewestAppend
  <1>8. CASE Loop
    <2>1. /\ pc = "run" /\ bus # <<>> /\ bus' = Tail(bus)
          /\ UNCHANGED <<sg, winsize, missed, signals>>
          /\ \/ Head(bus)[1] = "resize" /\ size' = Head(bus)[2]
             \/ Head(bus)[1] # "resize" /\ size' = size
      BY <1>8 DEF Loop, TakeOutput, TakeKey, TakeResize, TakeTermination, TakeChildExited,
                  TakeReload, Takes
    <2>2. NewestArrives
      BY <1>0, <2>1
    <2>3. IsResize(Head(bus)) <=> Head(bus)[1] = "resize"
      BY <1>1, <2>1, QueueTake, EventKinds DEF QueuesType
    <2> QED BY <1>1, <2>1, <2>2, <2>3, NewestTake
  <1>9. CASE ResizeWindow
    BY <1>1, <1>9 DEF ResizeWindow, Deliver
  <1>10. CASE SendTerm \/ SendReload
    <2>1. UNCHANGED <<winsize, size, missed, sg, bus>> /\ (pc' = pc \/ pc' = "gone")
          /\ (signals = <<"WINCH">> => signals' = signals)
      BY <1>10 DEF SendTerm, SendReload, Deliver, Nothing
    <2> QED BY <1>0, <2>1, Zenon DEF NewestArrives
  <1>11. CASE StartSignals
    <2>1. /\ UNCHANGED <<winsize, size, missed, signals, bus>>
          /\ pc = "notify" /\ sg = Off /\ sg' = Idle
      BY <1>11 DEF StartSignals, Staged
    <2>2. NewestArrives
      BY <1>0, <2>1
    <2> QED BY <1>2, <2>1, <2>2, Zenon DEF NewestArrives
  <1>12. ASSUME UNCHANGED <<winsize, size, missed, signals, sg, bus>>,
                pc \in {"parse", "load", "enter", "query", "gone"} => pc' = pc
         PROVE  NewestArrives'
    BY <1>0, <1>12, Zenon DEF NewestArrives
  <1>13. CASE AdoptChild \/ StartChild \/ Visuals \/ StartReaders
    BY <1>12, <1>13 DEF AdoptChild, StartChild, Visuals, StartReaders
  <1>14. CASE SignalGroup \/ AwaitGroup \/ ClearCloexec \/ SuspendRaw \/ ExecFails
    BY <1>12, <1>14 DEF SignalGroup, AwaitGroup, ClearCloexec, SuspendRaw, ExecFails
  <1>15. CASE ReadPty \/ ReadPtyEnds \/ Reap \/ Drain
    BY <1>12, <1>15 DEF ReadPty, ReadPtyEnds, Reap, Drain
  <1>16. CASE ChildWrites \/ ChildExits \/ OrphanExits \/ Install \/ UNCHANGED vars
    BY <1>12, <1>16 DEF ChildWrites, ChildExits, OrphanExits, Install, vars
  <1> QED
    BY <1>3, <1>4, <1>5, <1>6, <1>7, <1>8, <1>9, <1>10, <1>11, <1>13, <1>14, <1>15, <1>16,
       Zenon
       DEF Next, Main, Loop, Signalling, Reader, Waiter, Outside

\* The terminal is left as it was found, and the child not left alone.
LEMMA CleanStep ==
  ASSUME TypeOK, Staged, ModeIsRemembered, ExitIsReal, ExitIsClean, [Next]_vars
  PROVE  ExitIsClean'
  <1> USE DEF TypeOK, StateType, FlagsType, Staged, Early, Over, ModeIsRemembered,
     ExitIsReal, ExitIsClean, TerminalIsRestored, NoOrphan, KilledEarly, Alive,
     LeaveAtOnce, Unwind, Terminate, Takes
  <1>1. CASE StartUp
    BY <1>1 DEF StartUp, ParseHandoff, LoadConfig, Enter, QuerySize, AdoptChild, StartChild,
                Visuals, StartReaders, StartSignals, Adopted
  <1>2. CASE Loop
    BY <1>2 DEF Loop, TakeOutput, TakeKey, TakeResize, TakeTermination, TakeChildExited,
                TakeReload
  <1>3. CASE WayOut
    BY <1>3 DEF WayOut, Restore, SignalGroup, AwaitGroup
  <1>4. CASE Reexec
    BY <1>4 DEF Reexec, ClearCloexec, SuspendRaw, ExecFails, Exec
  <1>5. CASE Signalling
    BY <1>5 DEF Signalling, TakeSignal, SendSignal
  <1>6. CASE Reader \/ Waiter
    BY <1>6 DEF Reader, ReadPty, ReadPtyEnds, SendOutput, Waiter, Reap, Drain, SendExited
  <1>7. CASE Outside
    BY <1>7 DEF Outside, ReadKey, ChildWrites, ChildExits, OrphanExits, ResizeWindow,
                SendTerm, SendReload, Install, Listening, Deliver
  <1>8. CASE UNCHANGED vars
    BY <1>8 DEF vars
  <1> QED
    BY <1>1, <1>2, <1>3, <1>4, <1>5, <1>6, <1>7, <1>8, Zenon
       DEF Next, Main, StartUp, Loop, WayOut, Reexec
-------------------------------------------------------------------------------
(* The theorems. *)

\* It holds when the first image starts.
LEMMA InitInvariant ==
  ASSUME LifecycleAssumption, Init
  PROVE  TypeOK /\ IInv
  <1>1. Len(bus) = 0 /\ bus \in Seq(Events) /\ 1..Len(bus) = {}
    BY EmptySeq DEF Init
  <1>2. StateType /\ FlagsType /\ QueuesType /\ CountsType
    <2>1. StateType
      BY DEF Init, LifecycleAssumption, StateType, Images, Sizes, Codes
    <2>2. FlagsType
      BY Zenon DEF Init, FlagsType
    <2>3. QueuesType
      BY <1>1 DEF Init, QueuesType, LifecycleAssumption
    <2>4. CountsType
      BY DEF Init, CountsType, LifecycleAssumption
    <2> QED BY <2>1, <2>2, <2>3, <2>4
  <1>3. Staged /\ ModeIsRemembered /\ SessionHeld /\ ExitIsReal /\ ReaderIsAwaited
    BY <1>1 DEF Init, Staged, ModeIsRemembered, SessionHeld, ExitIsReal, ReaderIsAwaited,
       Early, Over
  <1>4. SizeArrives /\ ExitIsClean
    BY DEF Init, SizeArrives, ExitIsClean, TerminalIsRestored, NoOrphan
  <1>5. NoChunkIsLost
    <2> DEFINE t == [i \in 0..0 |-> 0]
    <2>1. t \in [0..Len(bus) -> 0..MaxOutput] /\ t[0] = 0
      BY <1>1 DEF LifecycleAssumption
    <2>2. shown = 0 /\ written = 0 /\ inPty = 0 /\ InHand = 0
      BY DEF Init, InHand
    <2> HIDE DEF t
    <2>3. Ledger(t)
      BY <1>1, <2>1, <2>2 DEF Ledger
    <2> QED BY <2>1, <2>3, Zenon DEF NoChunkIsLost
  <1> QED BY <1>2, <1>3, <1>4, <1>5 DEF TypeOK, IInv

\* No step of run, of a goroutine, of the child or from outside breaks it.
LEMMA StepInvariant ==
  ASSUME LifecycleAssumption, TypeOK, IInv, [Next]_vars
  PROVE  TypeOK' /\ IInv'
  <1> USE DEF IInv
  <1>1. StateType /\ FlagsType /\ QueuesType /\ CountsType
    BY DEF TypeOK
  <1>2. StateType' /\ FlagsType' /\ QueuesType'
    BY <1>1, StateTypeStep, FlagsTypeStep, QueuesTypeStep
  <1>3. Staged' /\ ModeIsRemembered' /\ SessionHeld' /\ ExitIsClean'
    BY StagedStep, ModeStep, SessionStep, CleanStep
  <1>4. ExitIsReal' /\ ReaderIsAwaited' /\ NoChunkIsLost' /\ SizeArrives'
    BY <1>1, ExitStep, AwaitStep, LedgerStep, SizeStep
  <1>5. CountsType'
    BY <1>2, <1>4, CountsTypeStep
  <1> QED BY <1>2, <1>3, <1>4, <1>5 DEF TypeOK

\* What is always true of the process: its types, and why its exits, its session,
\* its output and its size are right, through any number of re-execs.
THEOREM Invariant == Spec => [](TypeOK /\ IInv)
  <1>1. Init => TypeOK /\ IInv
    BY LifecycleAssumption, InitInvariant
  <1>2. TypeOK /\ IInv /\ [Next]_vars => TypeOK' /\ IInv'
    BY LifecycleAssumption, StepInvariant
  <1> QED BY <1>1, <1>2, PTL DEF Spec

\* Every variable keeps its type: the bus holds no more than it has room for, and no
\* more chunks are shown than the child wrote.
THEOREM TypeCorrect == Spec => []TypeOK
  BY Invariant, PTL

\* Wherever run ends, the terminal is as it was found and no child is left that was
\* neither reaped nor killed; the exceptions are those TerminalIsRestored names.
THEOREM TerminalAndChildAreLeftClean == Spec => []ExitIsClean
  <1>1. IInv => ExitIsClean
    BY DEF IInv
  <1> QED BY <1>1, Invariant, PTL

\* Whenever the loop runs, after any number of re-execs that worked or failed, it has
\* the child's PTY to itself, the child's nonce and a raw terminal.
THEOREM EveryImageKeepsTheSession == Spec => []SessionIsKept
  <1>1. IInv => SessionIsKept
    BY DEF IInv, SessionHeld, SessionIsKept
  <1> QED BY <1>1, Invariant, PTL

\* When the child's exit ends the program, everything the child wrote has been shown,
\* unless the grace window ended or an image was replaced.
THEOREM NothingTheChildWroteIsLost == Spec => []OutputIsComplete
  <1>1. IInv => OutputIsComplete
    BY DEF IInv, ReaderIsAwaited, OutputIsComplete
  <1> QED BY <1>1, Invariant, PTL

\* With no change of size on its way, the last size that reached the loop is the
\* window's (TakeResize); the PTY's size is not in this module.
THEOREM TheLoopKnowsTheSize == Spec => []SizeIsCurrent
  <1>1. TypeOK /\ IInv => SizeIsCurrent
    <2> SUFFICES ASSUME TypeOK, SizeArrives, pc = "run", ~missed, signals # <<"WINCH">>,
                        Len(sg) = 1, \A i \in DOMAIN bus : Len(bus[i]) = 1
                 PROVE  size = winsize
      BY DEF IInv, SizeIsCurrent
    <2>1. ~IsResize(sg)
      BY DEF IsResize
    <2>2. DOMAIN bus = 1..Len(bus)
      BY LenProperties DEF TypeOK, QueuesType
    <2>3. \A i \in 1..Len(bus) : ~IsResize(bus[i])
      BY <2>2 DEF IsResize
    <2> QED BY <2>1, <2>3 DEF SizeArrives
  <1> QED BY <1>1, Invariant, PTL
===============================================================================
