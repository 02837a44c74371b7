--------------------------- MODULE MCConfigOverlay ---------------------------
(***************************************************************************)
(* Constant values for the model-checking runs of ConfigOverlay: a base    *)
(* with an exec module (x), a template (t) and a built-in (git), an id     *)
(* that nothing defines (y), and overlays that are good and that are bad   *)
(* in each of the ways the code tells apart.                               *)
(***************************************************************************)
EXTENDS ConfigOverlay

MCDefaultMods ==
    [id \in Ids |-> IF id = "git" THEN [ZeroModule EXCEPT !.enabled = TRUE] ELSE ZeroModule]

MCAbove == [d \in Dirs |-> IF d = "work" THEN <<"work">> ELSE <<d, "work">>]

Said == [enabled |-> "unset", source |-> "", command |-> None, format |-> {}, width |-> 0]
Plain == [bar |-> {}, style |-> None, palette |-> None, mods |-> [id \in Ids |-> None]]
Listing(id, e) == [Plain.mods EXCEPT ![id] = e]

Exec     == [Said EXCEPT !.command = "c1"]
Template == [Said EXCEPT !.source = "template", !.format = {"git"}]

MCBaseFiles ==
    {[Plain EXCEPT !.mods = [Listing("x", Exec) EXCEPT !["t"] = Template]],
     [Plain EXCEPT !.palette = "red", !.bar = {"t"},
                   !.mods = [Listing("x", [Exec EXCEPT !.enabled = "off"]) EXCEPT !["t"] = Template]],
     Malformed}

MCOverlays ==
    {[Plain EXCEPT !.bar = {"git", "x"}],
     [Plain EXCEPT !.bar = {"t"}, !.mods = Listing("t", [Said EXCEPT !.format = {"x"}])],
     [Plain EXCEPT !.mods = Listing("x", [Said EXCEPT !.enabled = "on", !.width = 1])],
     [Plain EXCEPT !.bar = {"y"}],
     [Plain EXCEPT !.palette = "broken", !.style = "fine",
                   !.mods = Listing("git", [Said EXCEPT !.enabled = "off"])],
     [Plain EXCEPT !.mods = Listing("x", [Said EXCEPT !.source = "template", !.format = {"git"}])],
     Malformed}
===============================================================================
