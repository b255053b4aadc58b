---------------------------- MODULE MCTopicMatch ----------------------------
(* All filters and topics of at most MaxLevels levels over three ordinary  *)
(* levels, one of them empty.                                              *)
EXTENDS TopicMatch

CONSTANTS a, b, MaxLevels

MCLevel == {a, b, Empty}

Upto(S) == UNION {[1..n -> S] : n \in 1..MaxLevels} \ {<<Empty>>}

MCTopics == Upto(MCLevel)
MCFilters == {f \in Upto(MCLevel \cup {Plus, Hash}) :
                \A k \in 1..(Len(f) - 1) : f[k] # Hash}
=============================================================================
