-------------------------- MODULE MCWebhookDelivery --------------------------
EXTENDS WebhookDelivery

CONSTANTS e1, e2

\* Nobody wants the second event.
MCWants == [ep \in Endpoint |-> {e1}]
==============================================================================
