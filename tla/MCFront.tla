------------------------------ MODULE MCFront ------------------------------
(***************************************************************************)
(* Every operation, behind no proxy, one, or two.                          *)
(***************************************************************************)
EXTENDS Front

\* Nothing, an address of somebody else, and blanks around it.
MCForged == {<<>>, <<"another">>, <<"blank", "another", "blank">>}
=============================================================================
