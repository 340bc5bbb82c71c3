------------------------------ MODULE MCLicense ------------------------------
(***************************************************************************)
(* License for TLC: one key of every form, and signed keys of every scope. *)
(* They expire at time 4; the clock runs to 14, past the longest grace.    *)
(***************************************************************************)
EXTENDS License

MCKey(form, exp, category, model) ==
    [form |-> form, exp |-> exp, category |-> category, model |-> model]

MCKeys ==
    {MCKey(f, 4, "absent", "*") : f \in {"none", "malformed", "forged", "garbled",
                                         "unreadable", "signed"}}
    \cup {MCKey("signed", 4, c, "absent") : c \in {"text", "reranker", "rerankr"}}
    \cup {MCKey("signed", 4, "absent", m) : m \in {"absent", "nano", "other"}}
    \cup {MCKey("signed", 4, "text", "nano"), MCKey("signed", 0, "absent", "*")}

MCGraces == {0, 1, 6}
MCModelNames == {"jinaai/nano", "nano"}
==============================================================================
