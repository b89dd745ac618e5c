------------------------------- MODULE MCKeyMerge -------------------------------
(***************************************************************************)
(* Small instances of KeyMerge: every table of a few rows on either side,  *)
(* spread over the runs in every way.                                      *)
(***************************************************************************)
EXTENDS KeyMerge, SequencesExt

CONSTANTS LeftRows, RightRows   \* bounds: the rows of each side

\* All sides of at most n rows: the run and the value of each row.
Sides(n) ==
    UNION {{[r \in Run |->
              SetToSortSeq({[value |-> table[i].value, row |-> i] :
                              i \in {j \in 1..m : table[j].run = r}}, Precedes)] :
            table \in [1..m -> [run : Run, value : Value]]} : m \in 0..n}

MCInputs == {[s \in Side |-> IF s = "left" THEN l ELSE r] :
                l \in Sides(LeftRows), r \in Sides(RightRows)}
=================================================================================
