------------------------ MODULE MCWebhookCertificate ------------------------
(* Constants for the runs of WebhookCertificate. *)
EXTENDS WebhookCertificate

CONSTANTS v, w

=============================================================================
