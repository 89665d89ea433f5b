------------------------------ MODULE MCColumns ------------------------------
(* Small instances of Columns for TLC.                                     *)
EXTENDS Columns, TLC

CONSTANTS c1, c2, c3

Named  == (c1 :> 0) @@ (c2 :> 1) @@ (c3 :> 0)
Placed == (c1 :> 1) @@ (c2 :> 2) @@ (c3 :> 3)

Visible(f, p, s) == [family |-> f, precision |-> p, scale |-> s,
                     hidden |-> FALSE, computed |-> FALSE]

\* Temporal families at three ranks, numbers at each limit of the mapper.
SmallShapes ==
    [oracle |->
        {Visible("TIMESTAMPTZ", NONE, 6), Visible("TIMESTAMP", NONE, 6),
         Visible("TIMESTAMP", NONE, 9), Visible("DATE", NONE, NONE),
         Visible("VARCHAR2", NONE, NONE), Visible("NUMBER", NONE, NONE),
         Visible("NUMBER", 10, 0), Visible("NUMBER", 2, 5), Visible("NUMBER", 38, -84)},
     sqlserver |->
        {Visible("DATETIME2", NONE, 7), Visible("DATETIME", NONE, NONE),
         Visible("TIMESTAMP", NONE, NONE), Visible("DATE", NONE, NONE),
         Visible("DECIMAL", 38, 38), Visible("VARCHAR", NONE, NONE),
         [Visible("DATETIME2", NONE, 7) EXCEPT !.hidden = TRUE],
         [Visible("DATETIME2", NONE, 7) EXCEPT !.computed = TRUE]}]

=============================================================================
