---------------------------- MODULE MCMessageBus ----------------------------
(* Threads and topics of an application of the message bus. *)
EXTENDS MessageBus

CONSTANTS main, worker, x, y

OneThread == {main}
TwoThreads == {main, worker}
OneTopic == {x}
TwoTopics == {x, y}
=============================================================================
