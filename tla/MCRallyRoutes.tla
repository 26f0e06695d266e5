--------------------------- MODULE MCRallyRoutes ---------------------------
(***************************************************************************)
(* One small route for TLC.  An organizer binds nothing, one task sent twice *)
(* or a task that is not stored.                                           *)
(***************************************************************************)
EXTENDS RallyRoutes, TLC

CONSTANTS t1, t2

Sent == {1} \X {<<>>, <<t1, t1>>, <<t1, t2>>}

Places == {{}, {1}}

Interchangeable == Permutations(Editors)

=============================================================================
