----------------------------- MODULE MCDelivery -----------------------------
(* Instances of Delivery for TLC. *)
EXTENDS Delivery

Channel(kind, severities, target) ==
  [kind |-> kind, severities |-> severities, target |-> target]

\* A correlated incident of two services, and a single alert, which has no ID.
Correlated == [id |-> "i", services |-> 2, fatal |-> FALSE, spikes |-> 0]
Single == [id |-> NoID, services |-> 1, fatal |-> FALSE, spikes |-> 5]

\* Severities come and go through the filter of Slack; Teams has no webhook.
Filtered ==
  [diagnosis |-> TRUE, incidents |-> {Correlated},
   channels |-> <<Channel("teams", {}, FALSE), Channel("slack", {"P1"}, TRUE)>>]

\* All severities are listed, which an incident without one does not pass.
Listed ==
  [diagnosis |-> TRUE, incidents |-> {Single},
   channels |-> <<Channel("email", {"P1", "P2", "P3"}, TRUE)>>]

\* Two webhooks at a time, without diagnosis; to Slack a single alert looks
\* the same in every event.
Webhooks ==
  [diagnosis |-> FALSE, incidents |-> {Single},
   channels |-> <<Channel("slack", {}, TRUE), Channel("teams", {}, TRUE)>>]

\* An email without recipients beside a webhook.
NoRecipients ==
  [diagnosis |-> FALSE, incidents |-> {Correlated},
   channels |-> <<Channel("email", {}, FALSE), Channel("slack", {}, TRUE)>>]

\* No channel can be used.
Unusable ==
  [diagnosis |-> FALSE, incidents |-> {Correlated},
   channels |-> <<Channel("slack", {}, FALSE), Channel("pager", {}, TRUE)>>]

MCScenario == {Filtered, Listed, Webhooks, NoRecipients, Unusable}
=============================================================================
