------------------------- MODULE MCWebhookDelivery -------------------------
(* Small instances of the webhook deliveries: p1 and p2 are overlapping    *)
(* calls of one process, p3 is a call of another.                          *)
EXTENDS WebhookDelivery

CONSTANTS w1, w2, p1, p2, p3

MCWorker == [p \in Pollers |-> IF p = p3 THEN w2 ELSE w1]
MCRetryDelay == [n \in 1..MaxAttempts |-> 1]
=============================================================================
