----------------------------- MODULE TopicMatch -----------------------------
(***************************************************************************)
(* How a message finds its receivers: is_topic_match of the dispatcher     *)
(* (component/mqttclient), a loop over the levels of a filter and a topic, *)
(* and the comparison on_message makes (component/messagebusmosq).  A      *)
(* string is the sequence of the levels between its '/'; "a/" has an empty *)
(* second one.                                                             *)
(***************************************************************************)
EXTENDS Naturals, Sequences

CONSTANTS
    Level,        \* ordinary levels
    Empty,        \* the empty one
    Plus, Hash,   \* the levels "+" and "#"
    Filters,      \* what may be subscribed to
    Topics        \* what may be published to

\* what MQTT allows: no empty string, no wildcard in a topic, "#" only last
IsTopic(t) == t \in Seq(Level) /\ t \notin {<<>>, <<Empty>>}
IsFilter(f) ==
    /\ f \in Seq(Level \cup {Plus, Hash}) /\ f \notin {<<>>, <<Empty>>}
    /\ \A k \in 1..(Len(f) - 1) : f[k] # Hash

ASSUME MatchAssumption ==
    /\ Empty \in Level /\ Plus \notin Level /\ Hash \notin Level /\ Plus # Hash
    /\ \A t \in Topics : IsTopic(t)
    /\ \A f \in Filters : IsFilter(f)

VARIABLES
    pattern, topic,   \* the arguments
    pc,               \* "start", "loop" or "done"
    i,                \* levels compared
    matched           \* the result

vars == <<pattern, topic, pc, i, matched>>

\* split: getline gives no token after the last delimiter
Split(s) == IF s[Len(s)] = Empty THEN SubSeq(s, 1, Len(s) - 1) ELSE s

pattern_parts == Split(pattern)
topic_parts == Split(topic)

Init ==
    /\ pattern \in Filters /\ topic \in Topics
    /\ pc = "start" /\ i = 0 /\ matched = FALSE

Answer(m) == pc' = "done" /\ matched' = m /\ UNCHANGED <<pattern, topic, i>>

Start ==
    /\ pc = "start"
    /\ IF pattern = topic \/ pattern = <<Hash>>
       THEN Answer(TRUE)
       ELSE pc' = "loop" /\ UNCHANGED <<pattern, topic, i, matched>>

\* mutant: two levels are skipped
CompareTwo ==
    /\ pc = "loop"
    /\ i < Len(pattern_parts) /\ i < Len(topic_parts)
    /\ pattern_parts[i + 1] \in {Plus, topic_parts[i + 1]}
    /\ i' = i + 2 /\ UNCHANGED <<pattern, topic, pc, matched>>

Compare ==
    /\ pc = "loop"
    /\ i < Len(pattern_parts) /\ i < Len(topic_parts)
    /\ pattern_parts[i + 1] \in {Plus, topic_parts[i + 1]}
    /\ i' = i + 1 /\ UNCHANGED <<pattern, topic, pc, matched>>

Decide ==
    /\ pc = "loop"
    /\ i < Len(pattern_parts) /\ i < Len(topic_parts)
    /\ pattern_parts[i + 1] \notin {Plus, topic_parts[i + 1]}
    /\ Answer(pattern_parts[i + 1] = Hash)

\* mutant: the rest of the topic is not looked at
EndPattern ==
    /\ pc = "loop"
    /\ i = Len(pattern_parts) \/ i = Len(topic_parts)
    /\ Answer(i = Len(pattern_parts))

End ==
    /\ pc = "loop"
    /\ i = Len(pattern_parts) \/ i = Len(topic_parts)
    /\ Answer(i = Len(pattern_parts) /\ i = Len(topic_parts))

Next == Start \/ Compare \/ Decide \/ End

Spec == Init /\ [][Next]_vars

-----------------------------------------------------------------------------
\* mutant: wildcards are not looked at
BusMatchEqual(f, t) == t = f

\* on_message: equal strings, or equal up to the first "+"
BusMatch(f, t) ==
    \/ t = f
    \/ \E k \in 1..Len(f) :
          /\ f[k] = Plus /\ \A j \in 1..(k - 1) : f[j] # Plus
          /\ Len(t) >= k /\ \A j \in 1..(k - 1) : f[j] = t[j]

-----------------------------------------------------------------------------
(* Properties *)

\* the topics a filter is for, by the MQTT standard (4.7.1): level by level,
\* "#" stands for any number of levels, none included
MqttMatch(f, t) ==
    LET agree(n) == \A k \in 1..n : f[k] \in {Plus, t[k]}
        last == Len(f)
    IN  IF f # <<>> /\ f[last] = Hash
        THEN Len(t) >= last - 1 /\ agree(last - 1)
        ELSE Len(t) = last /\ agree(last)

\* "a/#" and "a"
Parent(f, t) == f # <<>> /\ f[Len(f)] = Hash /\ Len(t) = Len(f) - 1

TypeOK ==
    /\ pattern \in Filters /\ topic \in Topics
    /\ pc \in {"start", "loop", "done"} /\ matched \in BOOLEAN
    /\ i \in Nat /\ i <= Len(pattern_parts) /\ i <= Len(topic_parts)

\* The dispatcher gives a task the messages its filters are for by the
\* standard, with two exceptions: an empty last level does not count, and "#"
\* does not stand for no level at all (MqttClient.cpp:309-339).
MatchesExactly ==
    pc = "done" =>
        (matched <=> /\ MqttMatch(pattern_parts, topic_parts)
                     /\ ~Parent(pattern_parts, topic_parts))

\* The bus calls the handler for every message a filter with "+" is for; it may
\* call it for others, and it knows no "#" (messagebus.cpp:284-297).
BusNeverMisses ==
    MqttMatch(pattern, topic) /\ pattern[Len(pattern)] # Hash
        => BusMatch(pattern, topic)
=============================================================================
