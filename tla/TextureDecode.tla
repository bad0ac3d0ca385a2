--------------------------- MODULE TextureDecode ----------------------------
(***************************************************************************)
(* rex_texture.h: where the blocks of a tiled Xenos texture are.  A block  *)
(* is a texel, or 4 x 4 texels of a compressed format.  The operators on   *)
(* bits are written with \div and %: x & 7 is x % 8, y & 6 is              *)
(* y % 8 - y % 2, offset & ~0x1FF is offset - offset % 512.  The sides of  *)
(* a texture have 13 bits, so that nothing here reaches 2^32.              *)
(***************************************************************************)
EXTENDS Integers

CONSTANT Surfaces   \* <<width, height, bytes per block>>, in blocks

BlockSizes == {1, 2, 4, 8, 16}

ASSUME SurfaceAssumption ==
  Surfaces \subseteq (Nat \ {0}) \X (Nat \ {0}) \X BlockSizes

Pow2 == <<1, 2, 4, 8, 16>>
Shl(v, k) == v * Pow2[k + 1]
Shr(v, k) == v \div Pow2[k + 1]

LogBpp(texelPitch) ==
  (texelPitch \div 4) + Shr(texelPitch \div 2, texelPitch \div 4)

Align32(v) == (v + 31) - ((v + 31) % 32)

\* The tile of a block, and the place of the block in it.
Macro(x, y, width) == (x \div 32) + (y \div 32) * (Align32(width) \div 32)
Micro(x, y) == (x % 8) + ((y % 8) - (y % 2)) * 4

\* Mutation: the odd rows of a pair are not set apart.
Offset_Pairs(x, y, width, log) ==
  LET micro == Shl(Micro(x, y), log)
  IN  Shl(Macro(x, y, width) * 128, log)
        + (micro - (micro % 16)) * 2 + (micro % 16)
        + Shl(((y % 16) - (y % 8)) * 8, log)

Offset(x, y, width, log) ==
  LET micro == Shl(Micro(x, y), log)
  IN  Shl(Macro(x, y, width) * 128, log)
        + (micro - (micro % 16)) * 2 + (micro % 16)
        + Shl(((y % 16) - (y % 8)) * 8, log) + (y % 2) * 16

\* The bytes before block (x, y), and the same in blocks.
Swizzled(offset, x, y) ==
  (offset - (offset % 512)) * 8 + ((offset % 512) - (offset % 64)) * 4
    + (offset % 64) + ((y % 32) - (y % 16)) * 128
    + (((((y % 16) - (y % 8)) \div 4) + (x \div 8)) % 4) * 64

XGAddress2DTiledOffset(x, y, width, texelPitch) ==
  LET log == LogBpp(texelPitch)
  IN  Shr(Swizzled(Offset(x, y, width, log), x, y), log)

TiledSizeBytes(s) == Align32(s[1]) * Align32(s[2]) * s[3]

-----------------------------------------------------------------------------
Blocks(s) == (0 .. s[1] - 1) \X (0 .. s[2] - 1)

PlaceOf(s) == [p \in Blocks(s) |-> XGAddress2DTiledOffset(p[1], p[2], s[1], s[3])]

Untile(src, s) == [p \in Blocks(s) |-> src[PlaceOf(s)[p]]]

\* Rows from the top, each from the left: of two blocks in one place the later
\* one stays.
Later(p, q) == p[2] > q[2] \/ (p[2] = q[2] /\ p[1] > q[1])

Tile(lin, s) ==
  [o \in {PlaceOf(s)[p] : p \in Blocks(s)} |->
     lin[CHOOSE p \in Blocks(s) :
           /\ PlaceOf(s)[p] = o
           /\ \A q \in Blocks(s) : PlaceOf(s)[q] = o => ~ Later(q, p)]]

\* A surface of whole pages of 4 KiB.
WholePages(s) == TiledSizeBytes(s) % 4096 = 0

\* Every block of the surface lies inside a buffer of TiledSizeBytes when that
\* is whole pages, which it is for 4 bytes per block and more (the comment at
\* TiledSizeBytes).
StaysInside(s) ==
  WholePages(s) =>
    \A p \in Blocks(s) : (PlaceOf(s)[p] + 1) * s[3] <= TiledSizeBytes(s)

\* What was tiled is untiled as it was, whatever its blocks hold: no two share
\* a place (what SelfTest tries for six sizes).
RoundTrip(s) ==
  LET lin == [p \in Blocks(s) |-> p] IN Untile(Tile(lin, s), s) = lin

\* Untile reads each block where Tile put it, inside the buffer the code
\* reckons with, for every shape of a texture.
SurfacesKeepTheirBlocks ==
  \A s \in Surfaces : StaysInside(s) /\ RoundTrip(s)
==============================================================================
