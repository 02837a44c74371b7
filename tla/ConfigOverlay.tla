---------------------------- MODULE ConfigOverlay ----------------------------
(***************************************************************************)
(* Which configuration is in force: the start-up, the cwd handler, the     *)
(* reload handler and appState.reloadConfig (app/app.go, app/reload.go)    *)
(* over the loader's operators.  All of it runs on the event loop, so each *)
(* handler is one step.                                                    *)
(*                                                                         *)
(* A Config is copied by value, but the maps in it are shared by the       *)
(* copies: MergeOverlay and inferActiveModules write into the map that     *)
(* as.cfg.Modules and resolvedCfg.Modules both refer to.  `mods' is that   *)
(* one map.  A palette is shared likewise, if the base file has one; if    *)
(* not, the base's is nil and each merge makes a map of its own.           *)
(***************************************************************************)
EXTENDS ConfigLoader, Sequences

CONSTANTS
    Dirs,            \* directories the shell may be in
    Above,           \* each with its ancestors, nearest first
    HasCliOverlay,   \* started with --ptyline
    BaseFiles,       \* contents the base file may have
    Overlays,        \* contents an overlay may have
    MaxEdits         \* bound: changes of files

ASSUME OverlayAssumption ==
    /\ Above \in [Dirs -> Seq(Dirs)]
    /\ HasCliOverlay \in BOOLEAN /\ MaxEdits \in Nat
    /\ "base" \notin Dirs /\ "cli" \notin Dirs
    /\ None \notin Dirs /\ Missing \notin Dirs
    /\ BaseFiles \subseteq File \cup {Missing, Malformed}
    /\ Overlays \subseteq File \cup {Malformed}

VARIABLES
    \* the user (external)
    files,           \* "base", "cli" and each directory's .ptyline
    edits,
    cwd,             \* as the shell reported it last
    \* appState
    cfg,             \* as.cfg without its modules
    disabled,        \* as.cfgExplicitDisabled
    resolved,        \* *as.resolvedCfg without its modules
    mods,            \* the Modules of both
    path,            \* projectOverlayPath
    cache,           \* projectConfigCache; Missing: no entry
    \* history
    loaded,          \* the base file's contents that cfg comes from
    inForce,         \* the overlays' contents that resolved comes from
    tainted,         \* a refused reload has merged into mods or the palette
    reshaped,        \* an overlay has come or gone since the path in force, or
                     \* one in the cache, was looked up
    last             \* what became of the last report: "none", "applied", "refused"

fileVars == <<files, edits>>
baseVars == <<cfg, disabled, loaded>>
histVars == <<inForce, tainted, reshaped, last>>
overlayVars == <<fileVars, cwd, baseVars, resolved, mods, path, cache, histVars>>

Paths == {"base", "cli"} \cup Dirs

\* What is left of a Config when its modules are kept apart.
Rest(c) == [bar |-> c.bar, style |-> c.style, palette |-> c.palette]
Whole(c, m) == [bar |-> c.bar, style |-> c.style, palette |-> c.palette, mods |-> m]

FindProjectConfig(d) ==
    LET hits == {i \in DOMAIN Above[d] : files[Above[d][i]] # Missing}
        near == {i \in hits : \A j \in hits : i <= j}
    IN  IF near = {} THEN None ELSE Above[d][CHOOSE i \in near : TRUE]

CliFile == IF HasCliOverlay THEN files["cli"] ELSE None
ProjectFile(p) == IF p = None THEN None ELSE files[p]

\* A mutant that forgets ApplyOverlays' error.
VisualsUsable(r) == ~VisualsFail(r.cfg)

Usable(r) == r.ok /\ ~VisualsFail(r.cfg)

\* A mutant: a pointer to the base instead of a copy.
BaseAfterByReference(base, r) == Rest(r.cfg)

\* Applying overlays writes into the maps of the base it starts from.
BaseAfter(base, r) ==
    [Rest(base) EXCEPT !.palette = IF @ = None THEN None ELSE r.cfg.palette]
SharedAfter(old, base, r) ==
    [old EXCEPT !.palette = IF base.palette = None THEN @ ELSE r.cfg.palette]

\* Start-up: an adopted image goes on without what it cannot load, any other
\* one exits, and each exits when it cannot build the visuals.
Start(adopted) ==
    LET l    == Load(files["base"])
        base == IF l.ok THEN l ELSE Default
        r    == ApplyOverlays(base.cfg, base.disabled, CliFile, ProjectFile(path))
    IN  /\ adopted \/ (l.ok /\ r.ok)
        /\ cfg = BaseAfter(base.cfg, r)
        /\ disabled = base.disabled
        /\ resolved = IF r.ok THEN Rest(r.cfg) ELSE BaseAfter(base.cfg, r)
        /\ mods = r.cfg.mods
        /\ ~VisualsFail(resolved)
        /\ loaded = IF l.ok THEN files["base"] ELSE Missing
        /\ inForce = IF r.ok THEN <<CliFile, ProjectFile(path)>> ELSE <<None, None>>
        /\ tainted = (~r.ok /\ r.cfg # base.cfg)
        /\ last = IF r.ok THEN "applied" ELSE "refused"

OverlayInit ==
    /\ \E b \in BaseFiles, c \in Overlays, ps \in [Dirs -> Overlays \cup {Missing}] :
          files = [p \in Paths |-> IF p = "base" THEN b ELSE IF p = "cli" THEN c ELSE ps[p]]
    /\ edits = 0
    /\ cwd \in Dirs
    /\ path = FindProjectConfig(cwd)
    /\ cache = [d \in Dirs |-> Missing]
    /\ reshaped = FALSE
    /\ \E adopted \in BOOLEAN : Start(adopted)
-------------------------------------------------------------------------------
(* The user's files. *)

EditFile ==
    /\ edits < MaxEdits
    /\ edits' = edits + 1
    /\ \/ \E b \in BaseFiles :
             b # files["base"] /\ files' = [files EXCEPT !["base"] = b] /\ UNCHANGED reshaped
       \/ \E p \in Paths \ {"base"}, f \in Overlays \cup {Missing} :
             /\ f # files[p]
             /\ files' = [files EXCEPT ![p] = f]
             /\ reshaped' = (reshaped \/ (p # "cli" /\ Missing \in {f, files[p]}))
    /\ UNCHANGED <<cwd, baseVars, resolved, mods, path, cache, inForce, tainted, last>>
-------------------------------------------------------------------------------
(* reloadConfig, once ApplyOverlays has returned r for the base it was     *)
(* given.                                                                  *)

\* A mutant that forgets to empty the cache.
AcceptKeepingCache(base, r, p) ==
    /\ path' = p /\ cache' = cache
    /\ cfg' = BaseAfter(base, r) /\ mods' = r.cfg.mods /\ resolved' = Rest(r.cfg)
    /\ inForce' = <<CliFile, ProjectFile(p)>>

\* Everything comes from the new configuration.
Accept(base, r, p) ==
    /\ path' = p
    /\ cache' = [d \in Dirs |-> Missing]
    /\ cfg' = BaseAfter(base, r)
    /\ mods' = r.cfg.mods
    /\ resolved' = Rest(r.cfg)
    /\ inForce' = <<CliFile, ProjectFile(p)>>

\* The fields stay, but what was merged into the shared maps stays as well.
Refuse(base, r) ==
    /\ cfg' = BaseAfter(base, r)
    /\ mods' = r.cfg.mods
    /\ resolved' = SharedAfter(resolved, base, r)
    /\ tainted' = (tainted \/ mods' # mods \/ cfg' # cfg)
    /\ last' = "refused"
    /\ UNCHANGED <<path, inForce>>

\* The cwd handler, which reloads without force.
ReportDir(d) ==
    LET p    == IF cache[d] = Missing THEN FindProjectConfig(d) ELSE cache[d]
        base == Whole(cfg, mods)
        r    == ApplyOverlays(base, disabled, CliFile, ProjectFile(p))
    IN  /\ cwd' = d
        /\ \/ /\ p = path
              /\ last' = "none"
              /\ cache' = [cache EXCEPT ![d] = p]
              /\ UNCHANGED <<cfg, mods, resolved, path, inForce, tainted, reshaped>>
           \/ /\ p # path /\ Usable(r)
              /\ Accept(base, r, p)
              /\ last' = "applied"
              /\ reshaped' = (reshaped /\ cache[d] # Missing)
              /\ UNCHANGED tainted
           \/ /\ p # path /\ ~Usable(r)
              /\ Refuse(base, r)
              /\ cache' = [cache EXCEPT ![d] = p]
              /\ UNCHANGED reshaped
        /\ UNCHANGED <<fileVars, disabled, loaded>>

RestoreBase(l, r) == UNCHANGED <<baseVars, resolved, mods>>

\* The reload handler: a fresh base, which is dropped again, together with
\* the maps in it, when it cannot be used with the overlays.
ConfigReload ==
    LET l == Load(files["base"])
        r == ApplyOverlays(l.cfg, l.disabled, CliFile, ProjectFile(path))
    IN  /\ \/ /\ l.ok /\ Usable(r)
              /\ Accept(l.cfg, r, path)
              /\ disabled' = l.disabled
              /\ loaded' = files["base"]
              /\ tainted' = FALSE
           \/ /\ ~(l.ok /\ Usable(r))
              /\ RestoreBase(l, r)
              /\ UNCHANGED <<path, cache, inForce, tainted>>
        /\ UNCHANGED <<fileVars, cwd, reshaped, last>>

OverlayNext == EditFile \/ ConfigReload \/ \E d \in Dirs : ReportDir(d)

OverlaySpec == OverlayInit /\ [][OverlayNext]_overlayVars
-------------------------------------------------------------------------------
(* Properties. *)

\* Every variable has values of its kind; nothing out of range gets into the
\* modules' map that the copies of the configuration share (MergeOverlay).
OverlayTypeOK ==
    /\ files \in [Paths -> File \cup {Missing, Malformed}] /\ edits \in 0..MaxEdits
    /\ cwd \in Dirs
    /\ cfg \in [bar : SUBSET Ids, style : Styles \cup {None}, palette : Colors \cup {None}]
    /\ resolved \in [bar : SUBSET Ids, style : Styles \cup {None}, palette : Colors \cup {None}]
    /\ mods \in [Ids -> Setting] /\ disabled \subseteq Ids
    /\ path \in Dirs \cup {None} /\ cache \in [Dirs -> Dirs \cup {None, Missing}]
    /\ loaded \in File \cup {Missing}
    /\ inForce \in (File \cup {None, Missing, Malformed}) \X (File \cup {None, Missing, Malformed})
    /\ tainted \in BOOLEAN /\ reshaped \in BOOLEAN
    /\ last \in {"none", "applied", "refused"}

\* What a module executes is what the base file says, whatever overlays were
\* merged, in force or refused, since it was loaded: "overlays must not change
\* command execution" (ValidateOverlayScope), though they share its map.
CommandsAreTheBases ==
    LET base == Load(loaded).cfg.mods IN
    \A id \in Ids : mods[id].command = base[id].command /\ mods[id].source = base[id].source

SetOn(f) == IF f \in {None, Missing, Malformed} THEN {} ELSE Explicitly(f, "on")

\* What the base file turns off and is on all the same, and what the overlays
\* turn on that the configuration was last made with: a path that was refused
\* is in the cache.
OnInSpiteOfBase == {id \in disabled : mods[id].enabled}
TurnedOn == SetOn(CliFile)
                \cup SetOn(ProjectFile(IF cache[cwd] = Missing THEN path ELSE cache[cwd]))

\* A module the base file turns off comes on only in a step that merges an
\* overlay which turns it on explicitly: being in an overlay's bar, or in a
\* template that is, resurrects it neither at once nor by way of the shared map
\* after later merges, reloads and changes of directory (ApplyOverlays'
\* rootExplicitlyDisabled).  That it goes off again with the overlay is what
\* EnabledIsLayered says, which does not hold.
InferenceResurrectsNothing ==
    /\ OnInSpiteOfBase \subseteq TurnedOn
    /\ [][OnInSpiteOfBase' \subseteq OnInSpiteOfBase \cup TurnedOn']_overlayVars

\* The layering the documentation describes: each layer over a fresh base.
Layered(base, cli, project) ==
    LET l == Load(base) IN ApplyOverlays(l.cfg, l.disabled, cli, project)

\* Bar and style are exactly those of the base file and the overlays in
\* force, in spite of everything that was in force or refused before.
LayoutIsLayered ==
    LET c == Layered(loaded, inForce[1], inForce[2]).cfg
    IN  resolved.bar = c.bar /\ resolved.style = c.style

\* Which modules are on, likewise, unless a refused overlay was merged as well:
\* "the effective config is layered", so an overlay that is not in force any
\* more has no part in it.
EnabledIsLayered ==
    ~tainted => \A id \in Ids :
        mods[id].enabled = Layered(loaded, inForce[1], inForce[2]).cfg.mods[id].enabled

\* The modules in use are a valid configuration as long as no refused overlay
\* got into their map: what is refused must not be half applied (reloadConfig).
InUseIsValid == ~tainted => Validate(mods)

\* While no .ptyline has come or gone, the overlay in force is the nearest one
\* of the shell's directory, unless that one was refused: neither the cache
\* nor the comparison with the path in force misses a change of directory.
OverlayFollowsDirectory ==
    ~reshaped /\ last # "refused" => path = FindProjectConfig(cwd)

\* Why it holds: a path in the cache is what a look at the files would give.
CacheIsLookup ==
    ~reshaped => \A d \in Dirs : cache[d] # Missing => cache[d] = FindProjectConfig(d)
===============================================================================
