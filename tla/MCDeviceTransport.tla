------------------------- MODULE MCDeviceTransport -------------------------
(* Small instances of the device transport.  c1, c2 and c3 belong to the   *)
(* HomeBase s1, c4 is the standalone camera s2.                            *)
EXTENDS DeviceTransport, TLC

CONSTANTS s1, s2, c1, c2, c3, c4, k1, k2, k3

MCOwnerOf == [c \in Camera |-> IF c = c4 THEN s2 ELSE s1]

(* Calls are interchangeable, and so are the cameras of one station. *)
MCSymmetry == Permutations(Call) \cup Permutations({c1, c2, c3})
=============================================================================
