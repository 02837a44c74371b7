----------------------------- MODULE ReservedArea -----------------------------
(***************************************************************************)
(* The arithmetic of the reserved rows: how a terminal of a given height   *)
(* is divided between the child program (the top rows) and ptyline's own   *)
(* status bar (the rows below them).  internal/reserved/area.go owns the   *)
(* "rows minus reserved" rule, internal/app/bar/bar.go derives from it     *)
(* where the bar is painted.                                               *)
(*                                                                         *)
(* Heights are uint16 in the code.  ChildRows subtracts only when the      *)
(* terminal is taller than the bar, so no operation here can wrap and the  *)
(* definitions are over Nat.  BarTopRow and Geometry add one to at most    *)
(* rows; rows = 65535 with no reserved row is the single input for which   *)
(* the code's uint16 sum wraps.  A configuration always has at least one   *)
(* bar row (bar.BuildRows), so it cannot be reached.                       *)
(***************************************************************************)
EXTENDS Integers

\* The height the child PTY is told it has.  Never less than 1.
ChildRows(reserved, rows) ==
    IF rows <= reserved THEN 1 ELSE rows - reserved

\* 1-based first row of the bar.
BarTopRow(reserved, rows) == ChildRows(reserved, rows) + 1

\* How many of the `want' bar rows fit below the child area.
BarCount(reserved, rows, want) ==
    LET room == rows - ChildRows(reserved, rows)
    IN  IF room > want THEN want ELSE IF room < 0 THEN 0 ELSE room

\* Where the bar is painted: first row and number of rows.
Geometry(reserved, rows, want) ==
    [top |-> BarTopRow(reserved, rows), count |-> BarCount(reserved, rows, want)]

\* The rows of a bar geometry.
RowsOf(geo) == geo.top .. (geo.top + geo.count - 1)

-------------------------------------------------------------------------------
\* The facts the protocol modules rely on.  They are proved for every height
\* in ScreenProofs.

\* The child keeps at least one row, and never more than the terminal has.
ChildFits(reserved, rows) == ChildRows(reserved, rows) \in 1..rows

\* The bar never paints past the last row and never overlaps the child's rows.
BarFits(reserved, rows) ==
    LET geo == Geometry(reserved, rows, reserved)
    IN  \A r \in RowsOf(geo) : r <= rows /\ r > ChildRows(reserved, rows)

\* Child rows and bar rows together are exactly the rows of the terminal.
SplitIsExact(reserved, rows) ==
    LET geo == Geometry(reserved, rows, reserved)
    IN  rows = ChildRows(reserved, rows) + geo.count
===============================================================================
