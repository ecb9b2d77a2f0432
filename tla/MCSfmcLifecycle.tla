---------------------------- MODULE MCSfmcLifecycle ----------------------------
(* Two NICs that share the notifier, each with at most one queued work. *)
EXTENDS SfmcLifecycle
===============================================================================
