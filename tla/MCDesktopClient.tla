-------------------------- MODULE MCDesktopClient --------------------------
(* Instances of DesktopClient for TLC.                                     *)
EXTENDS DesktopClient

CONSTANTS l1, l2, home, office

(* Who signs in first owns the Space listed first, who signs in next is a  *)
(* guest there.                                                            *)
MCFirstOf == [l \in {l1, l2} |-> IF l = l1 THEN home ELSE office]
=============================================================================
