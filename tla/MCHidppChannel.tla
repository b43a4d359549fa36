--------------------------- MODULE MCHidppChannel ---------------------------
(***************************************************************************)
(* Instances of HidppChannel: r1, r2 and the send_and_forget call r4 share *)
(* a header, r3 has its own.  On a long-only channel the short requests r1 *)
(* and r2 are re-framed; on a short-only one the long request r3 is        *)
(* refused.                                                                *)
(***************************************************************************)
EXTENDS HidppChannel, TLC

CONSTANTS r1, r2, r3, r4

\* One function of one device, called more than once.
MCHeaderOf == [r \in Requests |-> IF r = r3 THEN "other" ELSE "shared"]

MCWidthOf == [r \in Requests |-> IF r \in {r1, r2} THEN "short" ELSE "long"]

\* r1 and r2 are alike: one header, one width, both answered.
Symmetry == Permutations({r1, r2})
=============================================================================
