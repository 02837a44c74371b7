---------------------------- MODULE ConfigLoader ----------------------------
(***************************************************************************)
(* Loading the configuration (config/loader.go): parsing the base file     *)
(* over the defaults, merging an overlay, enabling the modules that the    *)
(* bar refers to, and validating the result.                               *)
(*                                                                         *)
(* A file is abstracted to one field of each kind the merge treats         *)
(* differently: the bar's references and the style (scalars), a palette    *)
(* (a map that may be nil), and per module `enabled' (three-valued in a    *)
(* file), a format's references, a width and a command.  A module that is  *)
(* not in the map is one with the zero setting.                            *)
(***************************************************************************)
EXTENDS Integers

CONSTANTS
    Ids,             \* module ids
    Builtins,        \* those of the program itself
    Commands,        \* command lines of exec modules
    Styles,          \* style presets
    Colors,          \* what a palette entry may hold
    Broken,          \* a style or colour that the visuals cannot be built with
    None,            \* an unset field
    Missing,         \* instead of a file: there is none
    Malformed,       \* instead of a file: it cannot be read or decoded
    DefaultMods,     \* Default().Modules
    DefaultBar       \* the ids the default bar refers to

Sources   == {"", "template", "exec"}
Widths    == -1..1
ZeroModule == [enabled |-> FALSE, source |-> "", command |-> None,
               format |-> {}, width |-> 0]
Setting == [enabled : BOOLEAN, source : Sources, command : Commands \cup {None},
            format : SUBSET Ids, width : Widths]
Config == [bar : SUBSET Ids, style : Styles \cup {None}, palette : Colors \cup {None},
           mods : [Ids -> Setting]]

ASSUME LoaderAssumption ==
    /\ Builtins \subseteq Ids /\ DefaultBar \subseteq Ids
    /\ DefaultMods \in [Ids -> Setting]
    /\ None \notin Commands \cup Styles \cup Colors
    /\ Broken \in Styles /\ Broken \in Colors
    /\ None # Missing /\ None # Malformed /\ Missing # Malformed

\* What a file says of a module that it lists; only a base file's `source' counts.
Entry == [enabled : {"unset", "on", "off"}, source : Sources,
          command : Commands \cup {None}, format : SUBSET Ids, width : Widths]

\* A readable, well-formed file.
File == [bar : SUBSET Ids, style : Styles \cup {None}, palette : Colors \cup {None},
         mods : [Ids -> Entry \cup {None}]]

\* The modules whose `enabled' the file sets to v.
Listed(f) == {id \in Ids : f.mods[id] # None}
Explicitly(f, v) == {id \in Listed(f) : f.mods[id].enabled = v}

ModuleSource(id, m) ==
    IF m.source # "" THEN m.source ELSE IF id \in Builtins THEN "" ELSE "exec"

\* A listed module starts from zero, not from its default.
Parse(f) ==
    [bar |-> IF f.bar = {} THEN DefaultBar ELSE f.bar,
     style |-> f.style, palette |-> f.palette,
     mods |-> [id \in Ids |->
         IF id \in Listed(f)
         THEN [f.mods[id] EXCEPT !.enabled = (@ = "on")]
         ELSE DefaultMods[id]]]

\* Whether S has what the bar and its own templates refer to.
ClosedUnder(mods, bar, disabled, S) ==
    /\ bar \ disabled \subseteq S
    /\ \A id \in S : ModuleSource(id, mods[id]) = "template"
                         => mods[id].format \ disabled \subseteq S

Referenced(mods, bar, disabled) ==
    LET closed == {S \in SUBSET Ids : ClosedUnder(mods, bar, disabled, S)}
    IN  {id \in Ids : \A S \in closed : id \in S}

\* A mutant: a template's references are enabled in any case.
InferThroughTemplates(mods, bar, disabled) ==
    LET on == Referenced(mods, bar \ disabled, {})
    IN  [id \in Ids |-> [mods[id] EXCEPT !.enabled = @ \/ id \in on]]

InferActiveModules(mods, bar, disabled) ==
    LET on == Referenced(mods, bar, disabled)
    IN  [id \in Ids |-> [mods[id] EXCEPT !.enabled = @ \/ id \in on]]

Validate(mods) ==
    LET templates == {id \in Ids : ModuleSource(id, mods[id]) = "template"} IN
    \A id \in Ids :
       LET m == mods[id] IN
       /\ m.width >= 0
       /\ id \in templates => m.format # {} /\ m.format \cap templates = {}
       /\ (ModuleSource(id, m) = "exec" /\ m.command = None)
              => ~m.enabled /\ m.source = ""

ASSUME DefaultAssumption == Validate(DefaultMods)

\* A mutant that forgets the source.
ValidateOverlayCommand(f) == \A id \in Listed(f) : f.mods[id].command = None

\* An overlay must not choose what is executed.
ValidateOverlayScope(f) ==
    \A id \in Listed(f) : f.mods[id].command = None /\ f.mods[id].source = ""

MergeModuleConfig(base, e) ==
    [base EXCEPT
       !.enabled = IF e.enabled = "unset" THEN @ ELSE e.enabled = "on",
       !.source  = IF e.source = "" THEN @ ELSE e.source,
       !.format  = IF e.format = {} THEN @ ELSE e.format,
       !.width   = IF e.width = 0 THEN @ ELSE e.width]

MergeOverlay(c, f) ==
    [bar |-> IF f.bar = {} THEN c.bar ELSE f.bar,
     style |-> IF f.style = None THEN c.style ELSE f.style,
     palette |-> IF f.palette = None THEN c.palette ELSE f.palette,
     mods |-> [id \in Ids |-> IF id \in Listed(f)
                              THEN MergeModuleConfig(c.mods[id], f.mods[id])
                              ELSE c.mods[id]]]

\* One round of ApplyOverlays' loop; `None' is an empty path.
ApplyOne(acc, f) ==
    IF ~acc.ok \/ f = None THEN acc
    ELSE IF f \in {Missing, Malformed} THEN [acc EXCEPT !.ok = FALSE]
    ELSE IF ~ValidateOverlayScope(f) THEN [acc EXCEPT !.ok = FALSE]
    ELSE [acc EXCEPT !.cfg = MergeOverlay(@, f),
                     !.disabled = (@ \ Explicitly(f, "on")) \cup Explicitly(f, "off")]

\* The merged configuration, and whether it may be used.  Its modules are
\* what the base's map holds afterwards, whether it may or not.
ApplyOverlays(base, disabled, cli, project) ==
    LET merged == ApplyOne(ApplyOne([ok |-> TRUE, cfg |-> base, disabled |-> disabled],
                                    cli), project)
        mods == InferActiveModules(merged.cfg.mods, merged.cfg.bar, merged.disabled)
    IN  IF ~merged.ok THEN merged
        ELSE [merged EXCEPT !.cfg.mods = mods, !.ok = Validate(mods)]

DefaultConfig == [bar |-> DefaultBar, style |-> None, palette |-> None, mods |-> DefaultMods]
Default == [ok |-> TRUE, cfg |-> DefaultConfig, disabled |-> {}]

\* The base configuration that a file gives; a malformed one gives none.
Load(f) ==
    IF f = Missing THEN Default
    ELSE IF f = Malformed THEN [Default EXCEPT !.ok = FALSE]
    ELSE LET c    == Parse(f)
             off  == Explicitly(f, "off")
             mods == InferActiveModules(c.mods, c.bar, off)
         IN  [ok |-> Validate(mods), cfg |-> [c EXCEPT !.mods = mods], disabled |-> off]

VisualsFail(c) == c.style = Broken \/ c.palette = Broken
===============================================================================
