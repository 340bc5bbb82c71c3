------------------------------ MODULE MCBatcher ------------------------------
(***************************************************************************)
(* Small instances of Batcher for TLC.  Calls are numbered; their rows,    *)
(* lengths and kinds are fixed per instance.                               *)
(***************************************************************************)
EXTENDS Batcher

CONSTANTS Instance   \* which of the requests below arrive

\* merge   two calls of strings that share a key, one with a row that does
\*         not fit by itself, and a call that mixes a string and an image; any
\*         call with the first leaves room for the third, the others do not
\* lone    an empty call, a mixed call of three rows with an oversize one, and
\*         a call of two strings
\* images  one call of two strings and an image
Requests ==
    [merge  |-> [size  |-> <<1, 2, 2>>,
                 len   |-> <<<<2>>, <<1, 2>>, <<1, 4>>>>,
                 media |-> {<<3, 2>>}, over |-> {<<2, 2>>},
                 key   |-> <<"query", "query", "query">>],
     lone   |-> [size  |-> <<0, 3, 2>>,
                 len   |-> <<<<>>, <<2, 1, 1>>, <<1, 1>>>>,
                 media |-> {<<2, 1>>}, over |-> {<<2, 3>>},
                 key   |-> <<"query", "query", "query">>],
     images |-> [size  |-> <<3>>, len |-> <<<<1, 1, 4>>>>,
                 media |-> {<<1, 3>>}, over |-> {}, key |-> <<"query">>]]

Chosen == Requests[Instance]

MCJob == DOMAIN Chosen.size
MCSize == Chosen.size
MCSlots == UNION {{j} \X (1..MCSize[j]) : j \in MCJob}
MCTokens == [s \in MCSlots |-> Chosen.len[s[1]][s[2]]]
MCText == MCSlots \ Chosen.media
MCOversize == Chosen.over
MCBaseKey == Chosen.key
==============================================================================
