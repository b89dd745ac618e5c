---------------------------- MODULE MCExactState ----------------------------
(***************************************************************************)
(* Small instances of ExactState.                                          *)
(***************************************************************************)
EXTENDS ExactState

Mode(k, d, c) == [kind |-> k, directory |-> d, capacity |-> c]

\* Segments of one and of several records, with and without a directory.
AllModes == {Mode("fixed", d, c) : d \in BOOLEAN, c \in {1, 3}}
                \cup {Mode("bytes", d, c) : d \in BOOLEAN, c \in {1, 2}}

\* One value of no length, one of length one and one of length two.
ShortLengths == <<0, 1, 2>>

=============================================================================
