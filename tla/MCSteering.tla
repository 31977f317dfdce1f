----------------------------- MODULE MCSteering -----------------------------
(***************************************************************************)
(* Instances of Steering for TLC.                                          *)
(***************************************************************************)
EXTENDS Steering

CONSTANTS t1, t2, r1, plug, m1, m2

TwoTyped == {t1, t2}
OneTyped == {t1}
OneReport == {r1}
OnePlugin == {plug}
\* Two messages of one plugin, and one.
TwoSpoken == (m1 :> plug) @@ (m2 :> plug)
OneSpoken == m1 :> plug
=============================================================================
