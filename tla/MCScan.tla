------------------------------- MODULE MCScan -------------------------------
(* Instance of Scan for TLC: one device and few changes, with channels     *)
(* small enough to fill. *)
EXTENDS Scan

MCDevices == {"dev1"}
MCThreads == {"t1", "t2"}
=============================================================================
