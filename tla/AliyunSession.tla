--------------------------- MODULE AliyunSession ---------------------------
(***************************************************************************)
(* The session with the cloud broker (AliyunMqttClient and the calls of    *)
(* MqttClientManager that pass on to it, component/mqttclient).  The       *)
(* operators below are the calls; the module of the program that makes     *)
(* them says when.                                                         *)
(*                                                                         *)
(* link and granted stand for paho and the broker: no callback for a lost  *)
(* connection is set, so the client does not hear of one, and every        *)
(* session is a clean one.                                                 *)
(***************************************************************************)
VARIABLES
    client,     \* MqttClientManager::_client is set
    handle,     \* AliyunMqttClient::_client: "unset" (indeterminate) or "made"
    connected,  \* AliyunMqttClient::_connected
    link,       \* the connection: "up" or "down"
    granted     \* topics the broker has subscribed on it

sessionVars == <<client, handle, connected, link, granted>>

SessionInit ==
    /\ client = FALSE /\ handle = "unset" /\ connected = FALSE
    /\ link = "down" /\ granted = {}

\* MqttClientManager::init: the constructor does not initialize _client
NewClient ==
    /\ client' = TRUE /\ handle' = "unset" /\ connected' = FALSE
    /\ UNCHANGED <<link, granted>>

\* mutant: what create returns is not looked at
ConnectUnchecked(ok) ==
    IF connected \/ ~client
    THEN ok = connected /\ UNCHANGED sessionVars
    ELSE /\ IF ok THEN link' = "up" /\ granted' = {} ELSE UNCHANGED <<link, granted>>
         /\ connected' = TRUE
         /\ handle' \in {handle, "made"} /\ (ok => handle' = "made")
         /\ UNCHANGED client

\* connect, which returns ok: a client that calls itself connected returns at
\* once, create and connect may fail
ConnectSession(ok) ==
    IF connected \/ ~client
    THEN ok = connected /\ UNCHANGED sessionVars
    ELSE /\ IF ok THEN link' = "up" /\ granted' = {} ELSE UNCHANGED <<link, granted>>
         /\ connected' = ok
         /\ handle' \in {handle, "made"} /\ (ok => handle' = "made")
         /\ UNCHANGED client

\* subscribe; when its answer does not come back the broker may have granted it
SubscribeSession(topic, ok) ==
    /\ IF connected /\ link = "up"
       THEN granted' \in {granted \cup {topic}} \cup (IF ok THEN {} ELSE {granted})
       ELSE ~ok /\ UNCHANGED granted
    /\ UNCHANGED <<client, handle, connected, link>>

\* publish waits for the broker's acknowledgement
PublishSession(ok) ==
    /\ ok => connected /\ link = "up"
    /\ UNCHANGED sessionVars

\* ~AliyunMqttClient: disconnect, and the handle is destroyed.  One that was
\* never made has any value, and the process may die of destroying it: it ends
\* here in any case.
CloseSession ==
    /\ client' = FALSE /\ handle' = "unset" /\ connected' = FALSE
    /\ link' = "down" /\ granted' = {}

\* the connection breaks
LoseSession ==
    /\ link = "up"
    /\ link' = "down" /\ granted' = {}
    /\ UNCHANGED <<client, handle, connected>>

\* types; a client that calls itself connected has a handle
SessionTypeOK ==
    /\ client \in BOOLEAN /\ handle \in {"unset", "made"}
    /\ connected \in BOOLEAN /\ link \in {"up", "down"}
    /\ connected => client /\ handle = "made"
=============================================================================
