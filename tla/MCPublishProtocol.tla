-------------------------- MODULE MCPublishProtocol --------------------------
(* Small instances of PublishProtocol for TLC: two stored loads, of which the newer is active. *)
EXTENDS PublishProtocol

CONSTANTS w1, w2, e1, l1, l2, older, newer, d

MCBase == {older, newer}

\* Two direct writes, a draft editor and a load; or one write, an editor and two loads.
MCCasts == {{w1, w2, e1, l2}, {w1, e1, l1, l2}}
=============================================================================
