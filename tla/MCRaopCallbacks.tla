-------------------------- MODULE MCRaopCallbacks --------------------------
(* Bounds for TLC.  A StartIn of all Callbacks, in callbacks.cfg, shows where *)
(* a start() inside a callback does not work.                                *)
EXTENDS RaopCallbacks
============================================================================
