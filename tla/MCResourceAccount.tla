--------------------------- MODULE MCResourceAccount ---------------------------
(***************************************************************************)
(* Small instances of ResourceAccount: an operation's root account, a      *)
(* partition's child account below it and a distinct state's child below   *)
(* that, which is the deepest path the engine builds.                      *)
(***************************************************************************)
EXTENDS ResourceAccount

MCPath == [operation |-> <<"root">>,
           partition |-> <<"root", "part">>,
           distinct  |-> <<"root", "part", "leaf">>]

\* The root's limit is the largest word, so that a sum can overflow it.
MCCap == [c \in Counters |-> CASE c = <<"memory", "root">> -> 3
                               [] c = <<"memory", "part">> -> 2
                               [] OTHER                    -> 1]

Ask(a, k, b) == [account |-> a, kind |-> k, bytes |-> b]

\* Requests that fit everywhere, that only a leaf refuses after the root and
\* the child were charged, and that meet in the root only.
MCRequests == {Ask("operation", "memory", 2), Ask("distinct", "memory", 1),
               Ask("distinct", "memory", 2), Ask("distinct", "temp", 1)}

=============================================================================
