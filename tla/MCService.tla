----------------------------- MODULE MCService ------------------------------
(***************************************************************************)
(* Service for TLC.                                                        *)
(***************************************************************************)
EXTENDS Service

CONSTANTS c1, k1, v

Put1 == [collection |-> c1, key |-> k1, op |-> OpPut, value |-> v,
         validFrom |-> ZeroTime]
Del1 == [collection |-> c1, key |-> k1, op |-> OpDelete, value |-> NoValue,
         validFrom |-> ZeroTime]

SomeRequests == {Put1, Del1}

(* Two writes, a write and a read of it, a single write as the typed calls *)
(* send it, a statement that cannot run before one that could, a text that *)
(* does not parse.                                                         *)
SomeBatches ==
    {<<Write(Put1), Write(Del1)>>,
     <<Write(Put1), Read(<<c1, k1>>)>>,
     <<Write(Put1)>>,
     <<Unconfigured, Write(Del1)>>,
     Malformed}
=============================================================================
