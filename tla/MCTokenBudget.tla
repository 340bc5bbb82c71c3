--------------------------- MODULE MCTokenBudget ---------------------------
(***************************************************************************)
(* Small instances of TokenBudget for TLC: GPUs from too small for one     *)
(* probe to never filled, with light and heavy weights and a sample of half *)
(* its credit to all of it, and every group of at most GroupRows rows of    *)
(* the lengths below.                                                      *)
(***************************************************************************)
EXTENDS TokenBudget

CONSTANTS GroupRows,   \* rows of the largest group
          RowTokens    \* their lengths

MCHosts ==
    {h \in [cuda : {TRUE}, total : {20}, weights : {2, 6},
            perToken : {0, 1, 3, 9}, context : {0, 2}, batchTokens : {0},
            sample : {2, 3, 4}] :
        h.context # 0 => h.sample <= h.context}
    \cup
    [cuda : {FALSE}, total : {0}, weights : {0}, perToken : {0},
     context : {9}, batchTokens : {-1, 2, 6, 15}, sample : {4}]

MCGroups == UNION {[1..n -> RowTokens] : n \in 0..GroupRows}
=============================================================================
