------------------------------ MODULE Textures ------------------------------
(***************************************************************************)
(* Textures of the graphics processor: binding a texture to its object     *)
(* (crates/exbawks-gpu/src/nv2a.rs, bind_texture and MemoryTexture), where *)
(* a texel of a mip level lies, how a compressed block is decoded          *)
(* (texture.rs), and how a coordinate outside the texture is brought back  *)
(* inside (raster.rs, address_texel).                                      *)
(*                                                                         *)
(* A texture is the record of the title's registers: [format, rect, log,   *)
(* claimed, pitch, offset, object], the object [base, limit].  Addresses   *)
(* are bytes.  A compressed block is the sequence of its bytes.            *)
(***************************************************************************)
EXTENDS Integers, Sequences, FiniteSets, FiniteSetsExt

CONSTANTS MAX_TEXTURE_DIMENSION, TextureCases, BlockCases
VARIABLE bound

DXT1_BLOCK_BYTES == 8
DXT_ALPHA_BLOCK_BYTES == 16
Greater(a, b) == IF a > b THEN a ELSE b
Lesser(a, b) == IF a < b THEN a ELSE b
DivCeil(a, b) == (a + b - 1) \div b

IsLinear(t) == t.format \in {"linearA8R8G8B8", "linearX8R8G8B8", "linearR5G6B5"}
\* The logarithms are authoritative unless the format is linear: the rectangle
\* of an earlier texture stays behind in the register.
Extent(t) == IF IsLinear(t) THEN t.rect ELSE <<2^t.log[1], 2^t.log[2]>>

Layout(t) ==
  CASE t.format \in {"linearA8R8G8B8", "linearX8R8G8B8"} -> "linear"
    [] t.format \in {"swizzledA8R8G8B8", "swizzledX8R8G8B8"} -> "swizzled"
    [] t.format \in {"dxt1", "dxt3", "dxt5"} -> t.format
    [] OTHER -> "none"

\* bind_texture refuses an empty, oversized or undecoded texture.
CanBind(t) ==
  LET e == Extent(t)
  IN /\ e[1] > 0 /\ e[2] > 0
     /\ Layout(t) # "none"
     /\ Layout(t) = "linear" => t.pitch # 0
     /\ e[1] <= MAX_TEXTURE_DIMENSION /\ e[2] <= MAX_TEXTURE_DIMENSION

Base(t) == t.object.base + t.offset
End(t) == t.object.base + t.object.limit + 1

\* The chain stops at the one-by-one level whatever the format word claims.
Levels(t) ==
  LET possible == 1 + Greater(t.log[1], t.log[2])
  IN IF Layout(t) = "linear" THEN 1 ELSE Lesser(Greater(t.claimed, 1), possible)

LevelExtent(t, level) == [i \in 1..2 |-> Greater(Extent(t)[i] \div 2^level, 1)]
\* Mutant: small levels are not padded to whole blocks.
BytesUnpadded(t, level) ==
  LET e == LevelExtent(t, level)
  IN CASE Layout(t) = "dxt1" -> (e[1] * e[2]) \div 2
       [] Layout(t) \in {"dxt3", "dxt5"} -> e[1] * e[2]
       [] Layout(t) = "swizzled" -> e[1] * e[2] * 4
       [] OTHER -> 0
LevelBytes(t, level) ==
  LET e == LevelExtent(t, level)
      blocks == DivCeil(e[1], 4) * DivCeil(e[2], 4)
  IN CASE Layout(t) = "dxt1" -> blocks * DXT1_BLOCK_BYTES
       [] Layout(t) \in {"dxt3", "dxt5"} -> blocks * DXT_ALPHA_BLOCK_BYTES
       [] Layout(t) = "swizzled" -> e[1] * e[2] * 4
       [] OTHER -> 0

\* measure_levels: each level begins where the one before it ends.
LevelBase(t, level) ==
  LET base[l \in 0..level] == IF l = 0 THEN Base(t) ELSE base[l - 1] + LevelBytes(t, l - 1)
  IN base[level]

BitOf(n, i) == (n \div 2^i) % 2
\* The bits of the two coordinates alternate until the shorter one runs out;
\* the rest of the longer one follows.
SwizzleIndex(x, y, wbits, hbits) ==
  LET place[n \in 0..wbits + hbits] ==
        IF n = 0 THEN [index |-> 0, xb |-> 0, yb |-> 0, x |-> TRUE]
        ELSE LET p == place[n - 1]
                 takeX == p.xb < wbits /\ (p.x \/ p.yb >= hbits)
             IN IF takeX THEN [index |-> p.index + BitOf(x, p.xb) * 2^(n - 1), xb |-> p.xb + 1, yb |-> p.yb, x |-> FALSE]
                ELSE [index |-> p.index + BitOf(y, p.yb) * 2^(n - 1), xb |-> p.xb, yb |-> p.yb + 1, x |-> TRUE]
  IN place[wbits + hbits].index

Log2(n) == CHOOSE k \in 0..12 : 2^k = n

\* The addresses of the dwords texel_in reads for one texel.
TexelReads(t, level, x, y) ==
  LET l == Lesser(level, Levels(t) - 1)
      e == LevelExtent(t, l)
      base == LevelBase(t, l)
      block == (y \div 4) * DivCeil(e[1], 4) + (x \div 4)
  IN CASE Layout(t) = "swizzled" -> {base + 4 * SwizzleIndex(x, y, Log2(e[1]), Log2(e[2]))}
       [] Layout(t) = "linear" -> {base + y * t.pitch + 4 * x}
       [] Layout(t) = "dxt1" -> {base + block * DXT1_BLOCK_BYTES + k : k \in {0, 4}}
       [] OTHER -> {base + block * DXT_ALPHA_BLOCK_BYTES + k : k \in {0, 4, 8, 12}}

\* MemoryTexture::read: outside its object a texture reads zero.
ReadsMemory(t, address) == Base(t) <= address /\ address < End(t)

-----------------------------------------------------------------------------
(* Compressed blocks.                                                      *)
Expand565(v) ==
  LET r == (v \div 2048) % 32
      g == (v \div 32) % 64
      b == v % 32
  IN <<r * 8 + r \div 4, g * 4 + g \div 16, b * 8 + b \div 4, 255>>

Mix(a, b, n, d) == [i \in 1..4 |-> IF i = 4 THEN 255 ELSE (a[i] * (d - n) + b[i] * n) \div d]
Endpoint565(block, at) == block[at] + 256 * block[at + 1]

ColorTexel(block, x, y, fourColors) ==
  LET c0 == Expand565(Endpoint565(block, 1))
      c1 == Expand565(Endpoint565(block, 3))
      index == (block[5 + (y % 4)] \div 4^(x % 4)) % 4
  IN CASE index = 0 -> c0
       [] index = 1 -> c1
       [] index = 2 -> IF fourColors THEN Mix(c0, c1, 1, 3) ELSE Mix(c0, c1, 1, 2)
       [] index = 3 -> IF fourColors THEN Mix(c0, c1, 2, 3) ELSE <<0, 0, 0, 0>>

Dxt1Texel(block, x, y) == ColorTexel(block, x, y, Endpoint565(block, 1) > Endpoint565(block, 3))
DxtOpaqueTexel(block, x, y) == ColorTexel(block, x, y, TRUE)

Dxt3Alpha(block, x, y) ==
  LET nibble == (block[1 + 2 * (y % 4) + (x % 4) \div 2] \div 16^(x % 2)) % 16
  IN nibble * 16 + nibble

\* The three-bit index of a texel in the 48-bit field from byte two.
Dxt5Index(block, x, y) ==
  LET shift == ((y % 4) * 4 + (x % 4)) * 3
      FieldBit(i) == BitOf(block[3 + i \div 8], i % 8)
  IN FieldBit(shift) + 2 * FieldBit(shift + 1) + 4 * FieldBit(shift + 2)

Dxt5Value(first, second, index) ==
  CASE index = 0 -> first
    [] index = 1 -> second
    [] index > 1 /\ first > second -> (first * (8 - index) + second * (index - 1)) \div 7
    [] index \in 2..5 /\ first <= second -> (first * (6 - index) + second * (index - 1)) \div 5
    [] index = 6 /\ first <= second -> 0
    [] index = 7 /\ first <= second -> 255
Dxt5Alpha(block, x, y) == Dxt5Value(block[1], block[2], Dxt5Index(block, x, y))

\* Texel coordinates outside the extent, by the programmed mode.
AddressTexel(mode, texel, extent) ==
  IF extent <= 0 THEN 0
  ELSE CASE mode = "wrap" -> texel % extent
         [] mode = "mirror" -> LET period == texel % (extent * 2)
                               IN IF period < extent THEN period ELSE extent * 2 - 1 - period
         [] OTHER -> Greater(0, Lesser(texel, extent - 1))

-----------------------------------------------------------------------------
TextureInit ==
  bound \in [k : {"texture"}, t : TextureCases] \cup [k : {"block"}, t : BlockCases]
           \cup [k : {"address"}, t : [mode : {"wrap", "mirror", "clamp"}, extent : 1..MAX_TEXTURE_DIMENSION]]

Texels(t) == UNION {{<<l, x, y>> : x \in 0..LevelExtent(t, l)[1] - 1, y \in 0..LevelExtent(t, l)[2] - 1} : l \in 0..Levels(t) - 1}
SharesBlock(t, a, b) == /\ Layout(t) \in {"dxt1", "dxt3", "dxt5"}
                        /\ a[1] = b[1] /\ a[2] \div 4 = b[2] \div 4 /\ a[3] \div 4 = b[3] \div 4

\* No two texels of a texture, of one level or of two, read the same memory,
\* unless they are of the same compressed block: the Morton order is one to
\* one on every power-of-two extent, rows do not overlap, a level's padded
\* blocks do not run into the next level, and the chain ends at its
\* one-by-one level (swizzle_index, level_bytes, measure_levels).
TexelsDisjoint ==
  (bound.k = "texture" /\ CanBind(bound.t)) =>
    LET t == bound.t
        texels == Texels(t)
        reads == [p \in texels |-> TexelReads(t, p[1], p[2], p[3])]
    IN \A p, q \in texels : p = q \/ SharesBlock(t, p, q) \/ reads[p] \cap reads[q] = {}

\* A bound texture reads only its own object's memory, at whatever offset it
\* was bound, for every texel of every level, and its levels up to the last
\* one lie one after another ("refusing to leave its object").
SamplesStayInObject ==
  (bound.k = "texture" /\ CanBind(bound.t)) =>
    \A p \in Texels(bound.t) : \A a \in TexelReads(bound.t, p[1], p[2], p[3]) :
      ReadsMemory(bound.t, a) => a \in bound.t.object.base..bound.t.object.base + bound.t.object.limit

\* A whole texture that fits its object is read whole: no texel of any level
\* is cut off by the end of the object or by its own base.
FittingTextureReadWhole ==
  (bound.k = "texture" /\ CanBind(bound.t) /\ Layout(bound.t) # "linear") =>
    LET t == bound.t
        last == Levels(t) - 1
    IN LevelBase(t, last) + LevelBytes(t, last) <= End(t) =>
         \A p \in Texels(t) : \A a \in TexelReads(t, p[1], p[2], p[3]) : ReadsMemory(t, a)

\* The alpha a block gives is what the format says.  The sixteen three-bit
\* indices of DXT5 are two groups of 24 bits, one for each pair of rows, and
\* select values that never leave the two endpoints except for the explicit 0
\* and 255; the four-bit alphas of DXT3 are a word per row; the colour half of
\* an alpha-carrying block is never transparent, whichever way its endpoints
\* are ordered (dxt5_alpha, dxt3_alpha, dxt_opaque_texel).
BlocksDecode ==
  bound.k = "block" =>
    LET b == bound.t
        Group(y) == IF y < 2 THEN b[3] + 256 * b[4] + 65536 * b[5] ELSE b[6] + 256 * b[7] + 65536 * b[8]
        ends == Min({b[1], b[2]})..Max({b[1], b[2]})
    IN \A x, y \in 0..3 :
         LET index == (Group(y) \div 8^(4 * (y % 2) + x)) % 8
             alpha == Dxt5Alpha(b, x, y)
         IN /\ index = 0 => alpha = b[1]
            /\ index = 1 => alpha = b[2]
            /\ alpha \in ends \cup (IF b[1] <= b[2] /\ index \in {6, 7} THEN {0, 255} ELSE {})
            /\ (b[1] <= b[2] /\ index = 6) => alpha = 0
            /\ (b[1] <= b[2] /\ index = 7) => alpha = 255
            /\ DxtOpaqueTexel(b, x, y)[4] = 255
            /\ Dxt3Alpha(b, x, y) = 17 * (((b[1 + 2 * y] + 256 * b[2 + 2 * y]) \div 16^x) % 16)
            /\ (Dxt1Texel(b, x, y)[4] = 0) => Endpoint565(b, 1) <= Endpoint565(b, 3)

\* A texture laid past its edge tiles without a seam: wrapping repeats it,
\* mirroring reverses every other tile and repeats the texel at each fold,
\* also below zero, clamping holds the edge, and inside the texture every
\* mode names the texel itself (address_texel).
AddressingTiles ==
  bound.k = "address" =>
    LET e == bound.t.extent
        At(n) == AddressTexel(bound.t.mode, n, e)
    IN \A n \in -3 * e..3 * e :
         /\ At(n) \in 0..e - 1
         /\ n \in 0..e - 1 => At(n) = n
         /\ bound.t.mode = "wrap" => At(n + e) = At(n)
         /\ bound.t.mode = "mirror" => At(-1 - n) = At(n) /\ At(n + 1) - At(n) \in -1..1
         /\ bound.t.mode = "clamp" => At(n + 1) - At(n) \in 0..1


\* A texel is fetched from its own memory, addressed and decoded as its format
\* says (the clauses above).
TexturesAgree ==
  TexelsDisjoint /\ SamplesStayInObject /\ FittingTextureReadWhole /\ BlocksDecode /\ AddressingTiles
=============================================================================
