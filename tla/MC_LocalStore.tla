--------------------------- MODULE MC_LocalStore ---------------------------
(* Instantiates LocalStore for TLC: the user, one project and two time     *)
(* entries (two of one kind, so that rowids can be reused between them).   *)
EXTENDS LocalStore

CONSTANTS p1, t1, t2

MCCollection == <<p1, t1, t2>>
MCKindOf == [x \in {User, p1, t1, t2} |->
               CASE x = User -> "user"
                 [] x = p1   -> "project"
                 [] OTHER    -> "time_entry"]
=============================================================================
