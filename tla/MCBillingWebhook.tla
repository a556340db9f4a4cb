------------------------- MODULE MCBillingWebhook -------------------------
(* Instances of BillingWebhook small enough for TLC.                       *)
EXTENDS BillingWebhook

CONSTANTS h1, h2

Event(k, n, l) == [kind |-> k, attempt |-> n, last |-> l]
Plain(k) == Event(k, 0, FALSE)

\* The fourth decline, a payment and a new subscription; the fourth decline and a fifth
\* (where Stripe retries more often than its default), with the subscription's own update
\* about them; or a subscription that begins, stops being paid and ends.
MCScripts == {<<Event("failed", 4, FALSE), Plain("paid"), Plain("updated")>>,
              <<Event("failed", 4, FALSE), Event("failed", 5, TRUE), Plain("delinquent")>>,
              <<Plain("updated"), Plain("delinquent"), Plain("deleted")>>}
=============================================================================
