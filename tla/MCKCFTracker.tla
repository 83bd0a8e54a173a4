---------------------------- MODULE MCKCFTracker ----------------------------
(* Two oblong regions, whose patches have equal areas and swapped sides (22 *)
(* or 24 by 8, and 8 by 22 or 24), one so thin that its patch is empty, and  *)
(* one without extent.                                                       *)
EXTENDS KCFTracker

MCRois == {<<60, 25>>, <<25, 60>>, <<25, 2>>, <<0, 0>>}
MCSurfaces == {1, 2}
=============================================================================
