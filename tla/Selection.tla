------------------------------ MODULE Selection -------------------------------
(***************************************************************************)
(* SelectSeq for a set in place of an operator, as a recursive function    *)
(* that a proof can unfold.  PositionQuery tells the keys of its input     *)
(* with it, and ValueText the letters of a text.                           *)
(***************************************************************************)
EXTENDS Integers, Sequences

\* The members of S in s, in the order in which they are there.
Only(S, s) ==
    LET only[n \in 0..Len(s)] ==
            IF n = 0 THEN <<>>
            ELSE IF s[n] \in S THEN Append(only[n - 1], s[n]) ELSE only[n - 1]
    IN  only[Len(s)]
===============================================================================
