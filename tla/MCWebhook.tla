------------------------------ MODULE MCWebhook ------------------------------
(* Small instances of Webhook for TLC. *)
EXTENDS WebhookClaims, TLC

CONSTANTS a1, a2, push, tag, install, ping, junk

Kind == [d \in Deliveries |->
            CASE d = push -> "push"
              [] d = tag -> "tag"
              [] d = install -> "installation"
              [] d = ping -> "ignored"
              [] d = junk -> "malformed"]

\* Everything is sent by the first app; the second one replaces it.
Sender == [d \in Deliveries |-> a1]

RequestSymmetry == Permutations(Requests)
==============================================================================
