---------------------------- MODULE MCLanTransfer ----------------------------
(***************************************************************************)
(* Small instances of LanTransfer.  Transfers a and b come from the same   *)
(* device, c from another one.                                             *)
(***************************************************************************)
EXTENDS LanTransfer, TLC

CONSTANTS a, b, c, f, g, h, near, far

MCDevice == {near, far}
MCDeviceOf == [t \in Transfer |-> IF t = c THEN far ELSE near]

\* The files of a transfer differ in nothing but their name.
FileSymmetry == Permutations(File)
=============================================================================
