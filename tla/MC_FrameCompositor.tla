-------------------------- MODULE MC_FrameCompositor --------------------------
(* The two labels begin with the same glyph.  The surfaces cross a tile to   *)
(* the right and to the bottom, and have every size of a block.              *)
EXTENDS FrameCompositor

CONSTANTS l1, l2, t1, t2, b1

SameFirst == [l \in Labels |-> 1]

SmallSurfaces == {<<97, 2, 1>>, <<40, 18, 2>>, <<5, 40, 4>>, <<9, 33, 8>>,
                  <<20, 18, 16>>}
==============================================================================
