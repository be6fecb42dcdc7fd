---------------------------- MODULE MCApiServer ----------------------------
(***************************************************************************)
(* An instance of ApiServer for TLC: a family binding, an inactive type    *)
(* binding of another characteristic, and an id for its return.            *)
(***************************************************************************)
EXTENDS ApiServer

CONSTANTS r1, r2, gauge, color

Two == [id \in BindingIds |->
  IF id = 1 THEN [key |-> <<"FAMILY", gauge>>, active |-> TRUE, revision |-> 1]
  ELSE IF id = 2 THEN [key |-> <<"TYPE", color>>, active |-> FALSE, revision |-> 1]
  ELSE None]

Again == {<<"TYPE", color>>}
=============================================================================
