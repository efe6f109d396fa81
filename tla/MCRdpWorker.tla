----------------------------- MODULE MCRdpWorker -----------------------------
(* Instances of RdpWorker for TLC.                                         *)
EXTENDS RdpWorker

ControlCommands == Controls
InputCommands   == Inputs
=============================================================================
