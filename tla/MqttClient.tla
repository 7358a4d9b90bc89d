----------------------------- MODULE MqttClient -----------------------------
(***************************************************************************)
(* What the two halves of mqttregistry.js, subscribing (MqttSubscriptions) *)
(* and publishing (MqttPublications), have in common: the connection to    *)
(* the broker, the requests the client library has not been answered, and  *)
(* the timers of those to be made again.                                   *)
(***************************************************************************)
EXTENDS Integers, SequencesExt

CONSTANTS
  Retries,    \* constants.mqtt.retries
  MaxErrors,  \* bound: requests that fail or are denied
  MaxDrops    \* bound: connections lost, crashes included

ASSUME ClientAssumption == Retries \in Nat /\ MaxErrors \in Nat /\ MaxDrops \in Nat

VARIABLES
  connected,
  calls,   \* requests on their way to the broker, first to last
  timers,  \* requests to be made again
  errors, drops

LoseConnection ==
  /\ connected
  /\ drops < MaxDrops
  /\ drops' = drops + 1
  /\ connected' = FALSE
=============================================================================
