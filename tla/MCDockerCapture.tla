--------------------------- MODULE MCDockerCapture ---------------------------
(* Instances of DockerCapture for TLC. *)
EXTENDS DockerCapture

CONSTANTS e1, e2, old
===============================================================================
