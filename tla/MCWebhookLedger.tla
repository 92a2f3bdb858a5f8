-------------------------- MODULE MCWebhookLedger --------------------------
(* Small instances of WebhookLedger for TLC. *)
EXTENDS WebhookLedger, TLC

(* Handlers differ only in name, and so do sweepers. *)
WorkerSymmetry == Permutations(Handlers) \cup Permutations(Sweepers)
=============================================================================
