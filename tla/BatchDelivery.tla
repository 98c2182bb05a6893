---------------------------- MODULE BatchDelivery ----------------------------
(***************************************************************************)
(* What a transfer promises: the receiver ends up with the files of the    *)
(* batch, whole, in the order they were selected, none twice, and          *)
(* acknowledges nothing but the whole batch.                               *)
(***************************************************************************)
EXTENDS Naturals, Sequences

CONSTANT Batches  \* the batches a sender may select; a file is its length

VARIABLES files, saved, acked

vars == <<files, saved, acked>>

Whole(i) == [file |-> i, chunks |-> [k \in 1..files[i + 1] |-> k - 1]]

Init ==
    /\ files \in Batches
    /\ saved = <<>>
    /\ acked = FALSE

Deliver ==
    /\ Len(saved) < Len(files)
    /\ saved' = Append(saved, Whole(Len(saved)))
    /\ acked' \in {FALSE, Len(saved') = Len(files)}
    /\ UNCHANGED files

Next == Deliver

Spec == Init /\ [][Next]_vars

=============================================================================
