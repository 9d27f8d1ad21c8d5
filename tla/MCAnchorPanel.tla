---------------------------- MODULE MCAnchorPanel ----------------------------
(* Instances of AnchorPanel: two accounts, two amounts, one transfer, of        *)
(* another tab or of this one.                                                 *)
EXTENDS AnchorPanelProperties

CONSTANTS a1, a2, x1, x2
=============================================================================
