------------------------------ MODULE SerialLog ------------------------------
(***************************************************************************)
(* What DB::Write promises its concurrent callers, whatever the grouping:  *)
(* the calls take effect one after the other in the order in which they    *)
(* queued, or fail without effect, and every caller is told which.         *)
(***************************************************************************)
EXTENDS Naturals, Sequences

CONSTANT Calls

VARIABLES
    queue,      \* calls that have been made and not decided yet, in order
    applied,    \* calls that took effect, in order
    failed,     \* calls that will be told of an error
    answered    \* what callers have been told: the call, and whether it was OK

vars == <<queue, applied, failed, answered>>

Elements(s) == {s[i] : i \in DOMAIN s}

Init ==
    /\ queue = <<>>
    /\ applied = <<>>
    /\ failed = {}
    /\ answered = {}

Submit(c) ==
    /\ c \notin Elements(queue) \cup Elements(applied) \cup failed
    /\ queue' = Append(queue, c)
    /\ UNCHANGED <<applied, failed, answered>>

\* The first n calls take effect together.
Apply(n) ==
    /\ applied' = applied \o SubSeq(queue, 1, n)
    /\ queue' = SubSeq(queue, n + 1, Len(queue))
    /\ UNCHANGED <<failed, answered>>

\* The first n calls fail together.
Fail(n) ==
    /\ failed' = failed \cup Elements(SubSeq(queue, 1, n))
    /\ queue' = SubSeq(queue, n + 1, Len(queue))
    /\ UNCHANGED <<applied, answered>>

\* A caller is told once, OK if and only if its call took effect.
Answer(c) ==
    /\ c \in Elements(applied) \cup failed
    /\ \A a \in answered : a.call # c
    /\ answered' = answered \cup {[call |-> c, ok |-> c \in Elements(applied)]}
    /\ UNCHANGED <<queue, applied, failed>>

Next ==
    \/ \E c \in Calls : Submit(c) \/ Answer(c)
    \/ \E n \in 1..Len(queue) : Apply(n) \/ Fail(n)

Spec == Init /\ [][Next]_vars

=============================================================================
