---------------------------- MODULE MCPublication ----------------------------
(***************************************************************************)
(* A small instance of Publication: two calls of accept_file and one of    *)
(* review with the same output, so that a kind meets itself and the other  *)
(* one.  Four parts of one byte fit the limit exactly; a part of six bytes *)
(* does not.                                                               *)
(***************************************************************************)
EXTENDS Publication

=============================================================================
