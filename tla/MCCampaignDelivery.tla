------------------------- MODULE MCCampaignDelivery -------------------------
(***************************************************************************)
(* Instances of CampaignDelivery for TLC.                                  *)
(***************************************************************************)
EXTENDS CampaignDelivery

\* Email to everybody who consents, email to a segment, text
\* messages, WhatsApp messages.
MCCampaigns ==
    {[medium |-> "email", segmented |-> FALSE],
     [medium |-> "email", segmented |-> TRUE],
     [medium |-> "sms", segmented |-> FALSE],
     [medium |-> "whatsapp", segmented |-> TRUE]}
=============================================================================
