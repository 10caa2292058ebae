---------------------------- MODULE MCVisualStore ----------------------------
(* Two videos, two images and two requests at a time.                       *)
EXTENDS VisualStore

CONSTANTS v1, v2, i1, i2, r1, r2

MCAsset == {v1, v2, i1, i2}
MCVideoAsset == {v1, v2}
MCRequest == {r1, r2}
=============================================================================
