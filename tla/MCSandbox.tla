----------------------------- MODULE MCSandbox ------------------------------
(* Small instances of ContainerizedSandbox for TLC.                        *)
EXTENDS ContainerizedSandbox
=============================================================================
