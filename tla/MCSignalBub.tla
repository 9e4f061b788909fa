----------------------------- MODULE MCSignalBub -----------------------------
(* Small instances of module SignalBub for TLC. *)
EXTENDS SignalBub

AllOps == {"acquire", "delivered", "source_init", "init", "final"}
PollingOps == {"acquire", "delivered"}
=============================================================================
