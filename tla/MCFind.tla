------------------------------- MODULE MCFind -------------------------------
(***************************************************************************)
(* Find and Search for TLC: every kind of JSON value against every kind of *)
(* operand, with 5 standing for the first integer float64 cannot hold.     *)
(***************************************************************************)
EXTENDS Search

SomeFields ==
    {Missing, Null, Bool(1), Num(1), Num(4), Num(5), Str(1), Str(3),
     Arr({Num(1)}), Arr({Null, Str(1)})}

SomeOperands ==
    {Null, Bool(0), Bool(1), Num(1), Num(4), Num(5), Str(1), Str(3),
     Arr({}), Arr({Num(1), Str(3)}), Arr({Null, Bool(1)})}
=============================================================================
