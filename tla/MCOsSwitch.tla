----------------------------- MODULE MCOsSwitch -----------------------------
(* Three tasks, so that a switch can be asked for twice before it is done, *)
(* and interrupts that nest once: see OsSwitch.cfg.                        *)
EXTENDS OsSwitch

Nested == 2
=============================================================================
