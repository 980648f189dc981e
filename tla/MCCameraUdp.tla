----------------------------- MODULE MCCameraUdp -----------------------------
(* Instances of CameraUdp for TLC. *)
EXTENDS CameraUdp

\* The first plane is twice the size of the second, as Y is of U and V in each direction.
TwoPlanes == <<2, 1>>
===============================================================================
