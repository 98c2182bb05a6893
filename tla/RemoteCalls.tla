----------------------------- MODULE RemoteCalls -----------------------------
(***************************************************************************)
(* What a page may rely on when it calls functions of another thread:      *)
(* calls run in the order they were made, each at most once, and they are  *)
(* settled in that order, each once; a call that is resolved has run.  One *)
(* that is rejected may have run, or may still run.                        *)
(***************************************************************************)
EXTENDS Naturals

VARIABLES made,      \* how many calls were made
          ran,       \* the calls that ran
          resolved,
          rejected

vars == <<made, ran, resolved, rejected>>

Outstanding == (1..made) \ (resolved \cup rejected)

Init ==
    /\ made = 0
    /\ ran = {}
    /\ resolved = {}
    /\ rejected = {}

Make ==
    /\ made' = made + 1
    /\ UNCHANGED <<ran, resolved, rejected>>

Run(i) ==
    /\ \A j \in ran : j < i
    /\ ran' = ran \cup {i}
    /\ UNCHANGED <<made, resolved, rejected>>

\* The caller may go on with its next call at once.
Resolve(i) ==
    /\ i \in ran
    /\ \A j \in Outstanding : i <= j
    /\ resolved' = resolved \cup {i}
    /\ made' \in {made, made + 1}
    /\ UNCHANGED <<ran, rejected>>

RejectUpTo(i) ==
    /\ rejected' = rejected \cup {j \in Outstanding : j <= i}
    /\ UNCHANGED <<made, ran, resolved>>

Next ==
    \/ Make
    \/ \E i \in 1..made : Run(i) \/ RejectUpTo(i)
    \/ \E i \in Outstanding : Resolve(i)

Spec == Init /\ [][Next]_vars

=============================================================================
