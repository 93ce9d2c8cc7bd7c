------------------------ MODULE MCFailurePropagation ------------------------
(***************************************************************************)
(* Failure propagation from two roots: a short and a long path from a meet *)
(* in d, which also needs the second root e; f hangs off the end.          *)
(***************************************************************************)
EXTENDS FailurePropagation

CONSTANTS a, b, c, d, e, f

TwoRootDeps ==
  [n \in {a, b, c, d, e, f} |->
     CASE n = a -> {} [] n = b -> {a} [] n = c -> {b} [] n = d -> {a, c, e}
       [] n = e -> {} [] n = f -> {d}]

=============================================================================
