--------------------------- MODULE OrderedDelivery ---------------------------
(***************************************************************************)
(* What message delivery promises to the callback of one task object,      *)
(* whatever the threads do: it is called with messages the task wants, in  *)
(* the order of their arrival, at most once for each, and from the first   *)
(* one on without skipping any.  Which message is first, and whether a     *)
(* next one comes, is left open: both depend on when the task was          *)
(* registered and stopped.                                                 *)
(***************************************************************************)
EXTENDS Naturals, Sequences

CONSTANTS Task, Topic, Wants  \* Wants: task -> topics it asked for

VARIABLES arrived, delivered   \* topics in order; task -> messages it got

Init ==
    /\ arrived = <<>>
    /\ delivered = [t \in Task |-> <<>>]

Arrive ==
    /\ \E topic \in Topic : arrived' = Append(arrived, topic)
    /\ UNCHANGED delivered

\* no message after k and before m is wanted by t
NoneBetween(t, k, m) == \A i \in (k + 1)..(m - 1) : arrived[i] \notin Wants[t]

Follows(t, m) ==
    LET got == delivered[t] IN
    got # <<>> => got[Len(got)] < m /\ NoneBetween(t, got[Len(got)], m)

Deliver(t) ==
    /\ \E m \in 1..Len(arrived) :
          /\ arrived[m] \in Wants[t]
          /\ Follows(t, m)
          /\ delivered' = [delivered EXCEPT ![t] = Append(@, m)]
    /\ UNCHANGED arrived

Next == Arrive \/ \E t \in Task : Deliver(t)

Spec == Init /\ [][Next]_<<arrived, delivered>>
=============================================================================
