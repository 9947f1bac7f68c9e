---------------------------- MODULE MCRegistry ----------------------------
(* Handlers over three types that may contain themselves and each other.       *)
EXTENDS Registry

CONSTANTS t, u, w, Upload, List

\* A method with one result and two arguments, another of this name with one
\* argument, and a variadic one.
Fun(n, v, o, i) ==
  [name |-> n, isFunc |-> TRUE, variadic |-> v, outs |-> o, ins |-> i]
Methods ==
  {Fun(Upload, FALSE, <<t>>, <<u, t>>), Fun(Upload, FALSE, <<>>, <<u>>),
   Fun(List, TRUE, <<>>, <<t>>)}
=============================================================================
