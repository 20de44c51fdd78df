---------------------------- MODULE FifoChannel ----------------------------
(***************************************************************************)
(* What every queue between two threads of the trading system promises:    *)
(* the values handed over come out once each, in the order they went in.   *)
(* `in' is the history of what was put, `out' of what was taken.           *)
(* LockFreeQueue is shown to implement this specification.                 *)
(***************************************************************************)
EXTENDS Naturals, Sequences

CONSTANT Values

VARIABLES in, out

vars == <<in, out>>

Init == in = <<>> /\ out = <<>>

Put(v) == in' = Append(in, v) /\ UNCHANGED out

Get ==
    /\ Len(out) < Len(in)
    /\ out' = Append(out, in[Len(out) + 1])
    /\ UNCHANGED in

Next == Get \/ \E v \in Values : Put(v)

Spec == Init /\ [][Next]_vars

=============================================================================
