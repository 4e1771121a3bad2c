----------------------------- MODULE MCConsent -----------------------------
(* The consent to a laser job, with a few changes of the sender.           *)
EXTENDS Consent
=============================================================================
