------------------------------ MODULE MCRunLoop ------------------------------
(* Bounded instances of RunLoop for TLC: some callers of each kind.        *)
EXTENDS RunLoop, TLC

CONSTANTS m1, s1, w1, r1, r2, t1, c1, e1

KindOf(c) ==
    CASE c = m1 -> "message"
      [] c = s1 -> "service"
      [] c = w1 -> "write"
      [] c \in {r1, r2} -> "restart"
      [] c = t1 -> "terminate"
      [] c = c1 -> "control"
      [] c = e1 -> "stop"

MCKind == [c \in Callers |-> KindOf(c)]

(* The two restarts are interchangeable.                                   *)
AlikeRestarts == Permutations({r1, r2})

=============================================================================
