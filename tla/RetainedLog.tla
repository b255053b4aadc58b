---------------------------- MODULE RetainedLog ----------------------------
(***************************************************************************)
(* What a log with retention promises its readers: the messages sent to it *)
(* are recorded one after the other, none twice; one is left out only when *)
(* an accident happens, in that very step, or while the log is down, and   *)
(* only an accident takes it down.  Some are given up later, and what is   *)
(* kept stays in order.                                                    *)
(***************************************************************************)
EXTENDS Naturals, Sequences

VARIABLES
    log,        \* the messages kept, by their number
    next,       \* number of the message to be recorded next
    accidents,  \* how many there have been
    up          \* whether the log is being served

Init == log = <<>> /\ next = 1

\* n messages are kept, and stay in their order
Part ==
    \E n \in 0..Len(log) : \E at \in [1..n -> DOMAIN log] :
        /\ \A i, j \in 1..n : i < j => at[i] < at[j]
        /\ log' = [i \in 1..n |-> log[at[i]]]

Record ==
    /\ log' = Append(log, next)
    /\ next' = next + 1

Forget == Part /\ UNCHANGED next

Lose ==
    /\ Part /\ next' > next
    /\ accidents' > accidents \/ ~up

Next ==
    /\ accidents' >= accidents
    /\ up /\ ~up' => accidents' > accidents
    /\ Record \/ Forget \/ Lose

Spec == Init /\ [][Next]_<<log, next, accidents, up>>
=============================================================================
