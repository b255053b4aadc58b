-------------------------- MODULE TopicMatchProofs --------------------------
(***************************************************************************)
(* Proofs about the matching of filters and topics, of any length and over *)
(* any levels.                                                             *)
(***************************************************************************)
EXTENDS TopicMatch, SequenceTheorems, WellFoundedInduction, TLAPS

\* A prefix of a sequence.
LEMMA PrefixLevels ==
  ASSUME NEW S, NEW s \in Seq(S), NEW n \in Nat, n < Len(s)
  PROVE  /\ SubSeq(s, 1, n) \in Seq(S) /\ Len(SubSeq(s, 1, n)) = n
         /\ \A k \in 1..n : SubSeq(s, 1, n)[k] = s[k]
<1>1. \A k \in 1..n : s[k] \in S  OBVIOUS
<1> QED  BY <1>1, SubSeqProperties

\* split keeps the levels, drops at most one, and leaves at least one.
LEMMA SplitLevels ==
  ASSUME NEW S, NEW s \in Seq(S), s # <<>>, s # <<Empty>>
  PROVE  /\ Split(s) \in Seq(S) /\ Split(s) # <<>>
         /\ Len(Split(s)) <= Len(s)
         /\ \A k \in 1..Len(Split(s)) : Split(s)[k] = s[k]
         /\ s[Len(s)] # Empty => Split(s) = s
<1>1. Len(s) \in Nat /\ Len(s) > 0
  OBVIOUS
<1>2. CASE s[Len(s)] # Empty
  BY <1>1, <1>2 DEF Split
<1>3. CASE s[Len(s)] = Empty
  <2>1. Len(s) # 1
    BY <1>3
  <2>2. Split(s) = SubSeq(s, 1, Len(s) - 1)
    BY <1>3 DEF Split
  <2>3. /\ Split(s) \in Seq(S) /\ Len(Split(s)) = Len(s) - 1
        /\ \A k \in 1..(Len(s) - 1) : Split(s)[k] = s[k]
    <3>1. PICK n \in Nat : n = Len(s) - 1
      BY <1>1
    <3> QED  BY <1>1, <2>2, <3>1, PrefixLevels
  <2> QED  BY <1>1, <1>3, <2>1, <2>3
<1> QED  BY <1>2, <1>3

\* TypeOK without the result
IndexOK ==
    /\ pattern \in Filters /\ topic \in Topics
    /\ pc \in {"start", "loop", "done"}
    /\ i \in Nat /\ i <= Len(pattern_parts) /\ i <= Len(topic_parts)

LEMMA TypeParts == TypeOK <=> IndexOK /\ matched \in BOOLEAN
  BY Zenon DEF TypeOK, IndexOK

\* the levels seen so far agree, and none of them is "#"
LoopInv ==
    /\ pc = "start" => i = 0
    /\ pc = "loop" => \A k \in 1..i : /\ pattern_parts[k] \in {Plus, topic_parts[k]}
                                      /\ pattern_parts[k] # Hash

Inv == TypeOK /\ LoopInv /\ MatchesExactly

\* What the levels of a filter and a topic are.
LEMMA Parts ==
  ASSUME pattern \in Filters, topic \in Topics
  PROVE  /\ pattern_parts \in Seq(Level \cup {Plus, Hash}) /\ pattern_parts # <<>>
         /\ topic_parts \in Seq(Level) /\ topic_parts # <<>>
         /\ Len(pattern_parts) \in Nat \ {0} /\ Len(topic_parts) \in Nat \ {0}
         /\ \A k \in 1..(Len(pattern_parts) - 1) : pattern_parts[k] # Hash
         /\ \A k \in 1..Len(topic_parts) : topic_parts[k] \in Level
<1>1. IsFilter(pattern) /\ IsTopic(topic)
  BY MatchAssumption
<1>2. /\ pattern_parts \in Seq(Level \cup {Plus, Hash}) /\ pattern_parts # <<>>
      /\ Len(pattern_parts) <= Len(pattern)
      /\ \A k \in 1..Len(pattern_parts) : pattern_parts[k] = pattern[k]
  BY <1>1, SplitLevels DEF IsFilter, pattern_parts
<1>3. topic_parts \in Seq(Level) /\ topic_parts # <<>>
  BY <1>1, SplitLevels DEF IsTopic, topic_parts
<1>4. Len(pattern_parts) \in Nat \ {0} /\ Len(topic_parts) \in Nat \ {0}
  BY <1>2, <1>3
<1>5. \A k \in 1..(Len(pattern_parts) - 1) : pattern_parts[k] # Hash
  BY <1>1, <1>2, <1>4 DEF IsFilter
<1> QED  BY <1>2, <1>3, <1>4, <1>5

LEMMA Initially == Init => Inv
<1> SUFFICES ASSUME Init PROVE Inv  OBVIOUS
<1>1. Len(pattern_parts) \in Nat /\ Len(topic_parts) \in Nat
  BY Parts DEF Init
<1>2. IndexOK  BY <1>1 DEF Init, IndexOK
<1>3. matched \in BOOLEAN  BY DEF Init
<1>4. LoopInv /\ MatchesExactly  BY DEF Init, LoopInv, MatchesExactly
<1> QED  BY <1>2, <1>3, <1>4, TypeParts DEF Inv

\* The result is a Boolean in every step.
LEMMA ResultStep ==
  ASSUME matched \in BOOLEAN, [Next]_vars
  PROVE  matched' \in BOOLEAN
<1>1. ASSUME NEW m \in BOOLEAN, Answer(m)
      PROVE  matched' \in BOOLEAN
  BY <1>1 DEF Answer
<1>2. CASE matched' = matched
  BY <1>2
<1> QED  BY <1>1, <1>2 DEF Next, Start, Compare, Decide, End, vars

\* Every step keeps the types and the loop's invariant.
LEMMA LoopStep ==
  ASSUME Inv, [Next]_vars
  PROVE  TypeOK' /\ LoopInv'
<1>1. IndexOK  BY TypeParts DEF Inv
<1>2. /\ Len(pattern_parts) \in Nat /\ Len(topic_parts) \in Nat
      /\ \A k \in 1..Len(topic_parts) : topic_parts[k] \in Level
  BY <1>1, Parts DEF IndexOK
<1>3. pattern_parts' = pattern_parts /\ topic_parts' = topic_parts
  BY DEF Next, Start, Compare, Decide, End, Answer, vars, pattern_parts,
     topic_parts
<1>4. IndexOK' /\ LoopInv'
  <2>1. CASE Start
    BY <1>1, <1>2, <1>3, <2>1 DEF Inv, IndexOK, LoopInv, Start, Answer
  <2>2. CASE Compare
    <3>1. pattern_parts[i + 1] # Hash
      BY <1>1, <1>2, <2>2, MatchAssumption DEF IndexOK, Compare
    <3> QED  BY <1>1, <1>2, <1>3, <2>2, <3>1 DEF Inv, IndexOK, LoopInv, Compare
  <2>3. CASE Decide \/ End
    BY <1>1, <1>2, <1>3, <2>3 DEF IndexOK, LoopInv, Decide, End, Answer
  <2>4. CASE UNCHANGED vars
    BY <1>1, <1>3, <2>4 DEF Inv, IndexOK, LoopInv, vars
  <2> QED  BY <2>1, <2>2, <2>3, <2>4 DEF Next
<1>5. matched' \in BOOLEAN  BY ResultStep, TypeParts DEF Inv
<1> QED  BY <1>4, <1>5 DEF TypeOK, IndexOK

\* Every step keeps the answer right.
LEMMA AnswerStep ==
  ASSUME Inv, [Next]_vars
  PROVE  MatchesExactly'
<1> DEFINE f == pattern_parts
           t == topic_parts
<1>1. /\ pattern \in Filters /\ topic \in Topics /\ i \in Nat
      /\ i <= Len(f) /\ i <= Len(t)
  BY DEF Inv, TypeOK
<1>2. /\ Len(f) \in Nat \ {0} /\ Len(t) \in Nat \ {0} /\ f # <<>>
      /\ \A k \in 1..(Len(f) - 1) : f[k] # Hash
      /\ \A k \in 1..Len(t) : t[k] \in Level
  BY <1>1, Parts
<1>3. f' = f /\ t' = t
  BY DEF Next, Start, Compare, Decide, End, Answer, vars, pattern_parts,
     topic_parts
<1> DEFINE Right == MqttMatch(f, t) /\ ~Parent(f, t)
<1>4. Right' <=> Right
  BY <1>3
<1>5. CASE Start
  <2>1. pattern = topic => Right
    BY <1>2, MatchAssumption DEF MqttMatch, Parent, pattern_parts, topic_parts
  <2>2. pattern = <<Hash>> => Right
    <3>1. pattern = <<Hash>> => f = <<Hash>>
      BY MatchAssumption DEF pattern_parts, Split
    <3> QED  BY <1>2, <3>1 DEF MqttMatch, Parent
  <2> QED  BY <1>4, <1>5, <2>1, <2>2 DEF Start, Answer, MatchesExactly
<1>6. CASE Decide
  <2>1. i + 1 \in 1..Len(f) /\ i + 1 \in 1..Len(t) /\ f[i + 1] \notin {Plus, t[i + 1]}
    BY <1>1, <1>2, <1>6 DEF Decide
  <2>2. \A k \in 1..i : f[k] \in {Plus, t[k]}
    BY <1>6 DEF Inv, LoopInv, Decide
  <2>3. Right <=> f[i + 1] = Hash
    BY <1>1, <1>2, <2>1, <2>2 DEF MqttMatch, Parent
  <2> QED  BY <1>4, <1>6, <2>3 DEF Decide, Answer, MatchesExactly
<1>7. CASE End
  <2>1. \A k \in 1..i : f[k] \in {Plus, t[k]} /\ f[k] # Hash
    BY <1>7 DEF Inv, LoopInv, End
  <2>2. i = Len(f) \/ i = Len(t)
    BY <1>7 DEF End
  <2>3. Right <=> i = Len(f) /\ i = Len(t)
    BY <1>1, <1>2, <2>1, <2>2 DEF MqttMatch, Parent
  <2> QED  BY <1>4, <1>7, <2>3 DEF End, Answer, MatchesExactly
<1>8. CASE Compare \/ UNCHANGED vars
  BY <1>3, <1>8 DEF Inv, MatchesExactly, Compare, vars
<1> QED  BY <1>5, <1>6, <1>7, <1>8 DEF Next

\* The invariant of the comparison.
THEOREM MatchInvariant == Spec => []Inv
<1>1. Inv /\ [Next]_vars => Inv'
  BY LoopStep, AnswerStep DEF Inv
<1> QED  BY Initially, <1>1, PTL DEF Spec

\* The loop stays inside both sequences of levels (MqttClient.cpp:317-323).
THEOREM TypeOKHolds == Spec => []TypeOK
<1>1. Inv => TypeOK  BY DEF Inv
<1> QED  BY MatchInvariant, <1>1, PTL

\* is_topic_match decides what the standard says, but for the two exceptions,
\* for filters and topics of any length (MqttClient.cpp:309-339).
THEOREM MatchesExactlyHolds == Spec => []MatchesExactly
<1>1. Inv => MatchesExactly  BY DEF Inv
<1> QED  BY MatchInvariant, <1>1, PTL

\* A set of natural numbers has a smallest element.
LEMMA SmallestOf ==
  ASSUME NEW T \in SUBSET Nat, T # {}
  PROVE  \E k \in T : \A j \in T : k <= j
<1>1. PICK k \in T : \A j \in T : <<j, k>> \notin OpToRel(<, Nat)
  BY NatLessThanWellFounded, WFMin
<1>2. \A j \in T : ~(j < k)
  BY <1>1 DEF OpToRel
<1> QED  BY <1>2

\* The bus finds the handlers of every filter with "+" that a topic matches
\* (messagebus.cpp:284-297).
THEOREM BusNeverMissesHolds == Spec => []BusNeverMisses
<1>1. TypeOK => BusNeverMisses
  <2> SUFFICES ASSUME TypeOK, MqttMatch(pattern, topic),
                      pattern[Len(pattern)] # Hash, topic # pattern
               PROVE  BusMatch(pattern, topic)
    BY DEF BusNeverMisses, BusMatch
  <2>1. /\ pattern \in Seq(Level \cup {Plus, Hash}) /\ topic \in Seq(Level)
        /\ pattern # <<>>
    BY MatchAssumption DEF TypeOK, IsFilter, IsTopic
  <2>2. /\ Len(topic) = Len(pattern) /\ Len(pattern) \in Nat
        /\ \A k \in 1..Len(pattern) : pattern[k] \in {Plus, topic[k]}
    BY <2>1 DEF MqttMatch
  <2> DEFINE Pluses == {k \in 1..Len(pattern) : pattern[k] = Plus}
  <2>3. Pluses # {} /\ Pluses \in SUBSET Nat
    BY <2>1, <2>2
  <2>4. PICK k \in Pluses : \A j \in Pluses : k <= j
    <3> HIDE DEF Pluses
    <3> QED  BY <2>3, SmallestOf
  <2>5. \A j \in 1..(k - 1) : j \in 1..Len(pattern) /\ j \notin Pluses
    BY <2>2, <2>4
  <2> QED  BY <2>2, <2>4, <2>5 DEF BusMatch
<1> QED  BY TypeOKHolds, <1>1, PTL
=============================================================================
