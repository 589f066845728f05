------------------------------ MODULE MCShell -------------------------------
(***************************************************************************)
(* Small instances of Shell: two requests over two processes, two key      *)
(* versions and a roster of each kind: fitting, short, unknown, repeated.  *)
(***************************************************************************)
EXTENDS Shell

CONSTANTS user, merchant, other

MCSegmentNames == {user, merchant}

MCRosters == {<<user, merchant>>, <<user>>, <<user, merchant, other>>, <<user, user>>}

============================================================================
