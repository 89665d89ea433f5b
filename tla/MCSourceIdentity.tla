---------------------------- MODULE MCSourceIdentity ----------------------------
(* A small instance of SourceIdentity for TLC.                             *)
EXTENDS SourceIdentity

CONSTANTS r1, r2, s1

Text == {"NULL", "", "oracle", " Oracle ", "mssql", "postgres", "srv", "SRV ", "HR", "HR "}

Stripped == [v \in Text |-> CASE v = " Oracle " -> "Oracle"
                              [] v = "SRV "     -> "SRV"
                              [] v = "HR "      -> "HR"
                              [] OTHER          -> v]
Letters == Text \cup {"Oracle", "SRV", "hr"}
MCTrim  == [v \in Letters |-> IF v \in Text THEN Stripped[v] ELSE v]
MCLower == [v \in Letters |-> CASE v \in {"Oracle"} -> "oracle"
                                [] v \in {"SRV"}    -> "srv"
                                [] v \in {"HR"}     -> "hr"
                                [] OTHER            -> v]

\* Four columns that may differ; the database behaves as the server does.
MCRegistrations ==
    {[system |-> s, server |-> v, database |-> "NULL", schema |-> c, table |-> "HR"] :
        s \in {"NULL", "", " Oracle ", "mssql", "postgres"},
        v \in {"NULL", "", "srv", "SRV "},
        c \in {"HR", "HR ", ""}}

MCSeedOf == [s \in {s1} |-> [system |-> "oracle", server |-> "NULL", database |-> "NULL",
                             schema |-> "HR", table |-> "HR"]]

=============================================================================
