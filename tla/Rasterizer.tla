----------------------------- MODULE Rasterizer -----------------------------
(***************************************************************************)
(* Filling the triangles of one draw (crates/exbawks-gpu/src/raster.rs).   *)
(* rasterize_draw splits the rows of a large draw into bands and hands     *)
(* them to a thread pool; every band fills its rows of the triangles that  *)
(* reach them, in submission order, reading the surface it blends with and *)
(* tests depth against.  Here a band's pixel is two steps, one that reads  *)
(* and one that writes, and the bands interleave freely.                   *)
(*                                                                         *)
(* Positions are in half pixels, so pixel centres are odd; texture         *)
(* coordinates are in 1/CoordUnit of the texture.  A colour is [c, a]: c   *)
(* stands for each of the three colour channels, which are treated alike.  *)
(* The f32 arithmetic of the code is exact here.                           *)
(***************************************************************************)
EXTENDS Textures, Shading, SequencesExt

CONSTANTS
  Draws,                  \* [target, vertices, triangles, texture, program, state]
  Texel(_, _, _),         \* the texel of a level at x, y
  MAX_DRAW_BANDS, PARALLEL_DRAW_PIXELS, PIXELS_PER_BAND, HostProcessors
VARIABLES
  draw,                   \* the draw being filled
  pixels, depths,         \* the colour and depth surfaces, by address
  bands                   \* what each band has still to do
rasterVars == <<draw, pixels, depths, bands>>

CoordUnit == 8
Absolute(n) == IF n < 0 THEN -n ELSE n
FloorHalf(n) == n \div 2
CeilHalf(n) == (n + 1) \div 2

\* Twice the signed area of three points, in quarter pixels.
EdgeOf(a, b, px, py) == (px - a.x) * (b.y - a.y) - (py - a.y) * (b.x - a.x)
Area(t) == EdgeOf(t[1], t[2], t[3].x, t[3].y)
Corners(d, i) == [k \in 1..3 |-> d.vertices[d.triangles[i][k]]]
Ys(t) == {t[k].y : k \in 1..3}
Xs(t) == {t[k].x : k \in 1..3}

\* Facing, before the winding is normalised.
Culled(cull, area) ==
  LET front == (area > 0) = cull.frontClockwise
  IN cull.enabled /\ CASE cull.face = "front" -> front
                       [] cull.face = "back" -> ~front
                       [] cull.face = "both" -> TRUE
                       [] OTHER -> FALSE
Wound(t) == IF Area(t) < 0 THEN <<t[1], t[3], t[2]>> ELSE t

EdgeWeights(t, x, y) ==
  LET cx == 2 * x + 1
      cy == 2 * y + 1
  IN <<EdgeOf(t[2], t[3], cx, cy), EdgeOf(t[3], t[1], cx, cy), EdgeOf(t[1], t[2], cx, cy)>>

\* A centre on an edge is inside.
Within(w) == \A k \in 1..3 : w[k] >= 0

InClip(g, x, y) == x \in g.clip_x..g.clip_x + g.width - 1 /\ y \in g.clip_y..g.clip_y + g.height - 1
PixelAddress(g, x, y) == g.base + y * g.pitch + x * 4
DepthAddress(g, x, y) == g.zeta + y * g.zeta_pitch + x * 4

\* The pixels fill_triangle_rows visits, a row at a time.
FillRows(d, i, rows) ==
  LET t == Corners(d, i)
      g == d.target
      w == Wound(t)
      left == Greater(FloorHalf(Min(Xs(t))), g.clip_x)
      right == Lesser(CeilHalf(Max(Xs(t))), g.clip_x + g.width)
      top == Max({FloorHalf(Min(Ys(t))), g.clip_y, rows[1]})
      bottom == Min({CeilHalf(Max(Ys(t))), g.clip_y + g.height, rows[2]})
      wide == right - left
  IN IF Area(t) = 0 \/ Culled(d.state.cull, Area(t)) \/ left >= right \/ top >= bottom THEN <<>>
     ELSE SelectSeq([n \in 1..wide * (bottom - top) |->
                       [i |-> i, x |-> left + ((n - 1) % wide), y |-> top + ((n - 1) \div wide)]],
                    LAMBDA p : Within(EdgeWeights(w, p.x, p.y)) /\ InClip(g, p.x, p.y))

\* The comparisons of the depth and alpha tests.
Passes(function, value, against) ==
  CASE function = "never" -> FALSE
    [] function = "less" -> value < against
    [] function = "equal" -> value = against
    [] function = "lequal" -> value <= against
    [] function = "greater" -> value > against
    [] function = "notequal" -> value # against
    [] function = "gequal" -> value >= against
    [] function = "always" -> TRUE

\* Interpolation rounds a colour and truncates a depth.
Summed(w, v) == w[1] * v[1] + w[2] * v[2] + w[3] * v[3]
InterpolateColor(w, v, area) == Clamped((2 * Summed(w, v) + area) \div (2 * area), 0, 255)

\* The level by how many texels the triangle covers for each pixel.
MipLevel(d, t, area) ==
  LET e == d.texture.extent
      U(k) == t[k].u * e[1]
      V(k) == t[k].v * e[2]
      \* both doubled, in CoordUnit^2 and in quarter pixels
      covered == 4 * Absolute((U(2) - U(1)) * (V(3) - V(1)) - (U(3) - U(1)) * (V(2) - V(1)))
      scaled == area * CoordUnit * CoordUnit
      levels == {l \in 1..d.texture.levels - 1 : covered >= 2^(2 * l - 1) * scaled}
  IN IF d.texture.levels <= 1 \/ levels = {} THEN 0 ELSE Max(levels)

\* One sample, at num/den texels along each axis.
Sampled(d, level, num, den) ==
  LET e == [k \in 1..2 |-> Greater(d.texture.extent[k] \div 2^level, 1)]
      At(x, y) == Texel(level, AddressTexel(d.texture.mode, x, e[1]), AddressTexel(d.texture.mode, y, e[2]))
      near == [k \in 1..2 |-> num[k] \div den]
      shifted == [k \in 1..2 |-> 2 * num[k] - den]
      low == [k \in 1..2 |-> shifted[k] \div (2 * den)]
      part == [k \in 1..2 |-> shifted[k] % (2 * den)]
      rest == [k \in 1..2 |-> 2 * den - part[k]]
      Blend(f) == LET total == At(low[1], low[2])[f] * rest[1] * rest[2] + At(low[1] + 1, low[2])[f] * part[1] * rest[2]
                             + At(low[1], low[2] + 1)[f] * rest[1] * part[2] + At(low[1] + 1, low[2] + 1)[f] * part[1] * part[2]
                  IN (2 * total + 4 * den * den) \div (8 * den * den)
  IN IF d.texture.filtered /\ ~d.state.unfiltered THEN [c |-> Blend("c"), a |-> Blend("a")]
     ELSE At(near[1], near[2])

\* Coordinates interpolate in the plane of the triangle, by 1/w.
TexelFor(d, t, w, area) ==
  LET by == [k \in 1..3 |-> w[k] * t[k].iw]
      over == IF Summed(by, <<1, 1, 1>>) = 0 THEN area ELSE Summed(by, <<1, 1, 1>>)
      level == MipLevel(d, t, area)
      e == [k \in 1..2 |-> Greater(d.texture.extent[k] \div 2^level, 1)]
  IN Sampled(d, level, <<Summed(by, <<t[1].u, t[2].u, t[3].u>>) * e[1], Summed(by, <<t[1].v, t[2].v, t[3].v>>) * e[2]>>,
             over * CoordUnit)

Modulate(l, r) == [c |-> (l.c * r.c + 127) \div 255, a |-> (l.a * r.a + 127) \div 255]

White == [c |-> 255, a |-> 255]
AsLanes(c) == [i \in Lanes |-> (IF i = 4 THEN c.a ELSE c.c) * (Unit \div 255)]
OfLanes(lanes) == [c |-> lanes[1], a |-> lanes[4]]
\* The combiners, once programmed, replace the fixed modulation.
Shaded(d, diffuse, texel) ==
  LET regs == [r \in RegisterNames |-> CASE r = "diffuse" -> AsLanes(diffuse)
                                         [] r = "texture0" -> AsLanes(texel)
                                         [] r \in {"texture1", "texture2", "texture3"} -> AsLanes(White)
                                         [] OTHER -> Zero]
  IN IF Programmed(d.program) THEN OfLanes(Evaluate(d.program, regs))
     ELSE IF d.texture.bound THEN Modulate(texel, diffuse) ELSE diffuse
\* The colour a fragment has before it meets the surface; an unbound unit
\* reads white.
FragmentColor(d, t, w, area) ==
  Shaded(d, [c |-> InterpolateColor(w, <<t[1].c, t[2].c, t[3].c>>, area),
             a |-> InterpolateColor(w, <<t[1].a, t[2].a, t[3].a>>, area)],
         IF d.texture.bound THEN TexelFor(d, t, w, area) ELSE White)

\* The blend factors, for the colour channels and for alpha.
BlendFactor(code, s, o, channel) ==
  LET S(x) == IF channel = "c" THEN x.c ELSE x.a
  IN CASE code = "zero" -> 0
       [] code = "srcColor" -> S(s)
       [] code = "oneMinusSrcColor" -> 255 - S(s)
       [] code = "srcAlpha" -> s.a
       [] code = "oneMinusSrcAlpha" -> 255 - s.a
       [] code = "dstAlpha" -> o.a
       [] code = "oneMinusDstAlpha" -> 255 - o.a
       [] code = "dstColor" -> S(o)
       [] code = "oneMinusDstColor" -> 255 - S(o)
       [] code = "srcAlphaSaturate" /\ channel = "c" -> Lesser(s.a, 255 - o.a)
       [] OTHER -> 255
Combined(blend, s, o) ==
  LET Channel(f) == Lesser(255, (s[f] * BlendFactor(blend.source, s, o, f)
                                 + o[f] * BlendFactor(blend.destination, s, o, f) + 127) \div 255)
  IN [c |-> Channel("c"), a |-> Channel("a")]

\* What one pixel does, from the surface as it is read: [drawn] is whether it
\* reaches the surface, [z] the depth it leaves, -1 for none.
Nothing == [drawn |-> FALSE, color |-> White, z |-> -1]
Tested(d, p, ps, ds, value, color) ==
  LET depth == d.state.depth
      tested == (depth.test \/ depth.write) /\ d.target.zeta >= 0
      blend == d.state.blend
      over == blend.source = "srcAlpha" /\ blend.destination = "oneMinusSrcAlpha"
      final == IF blend.enabled THEN Combined(blend, color, ps[PixelAddress(d.target, p.x, p.y)]) ELSE color
  IN IF \/ tested /\ depth.test /\ ~Passes(depth.function, value, ds[DepthAddress(d.target, p.x, p.y)].z)
        \/ d.state.alpha.enabled /\ ~Passes(d.state.alpha.function, color.a, d.state.alpha.reference)
        \/ blend.enabled /\ color.a = 0 /\ over
     THEN Nothing
     ELSE [drawn |-> TRUE, color |-> final, z |-> IF tested /\ depth.write THEN value ELSE -1]
ShadePixel(d, p, ps, ds) ==
  LET t == Wound(Corners(d, p.i))
      area == Absolute(Area(t))
      w == EdgeWeights(t, p.x, p.y)
  IN Tested(d, p, ps, ds, Greater(0, Summed(w, <<t[1].z, t[2].z, t[3].z>>) \div area), FragmentColor(d, t, w, area))

StorePixel(ps, d, p, r) ==
  IF r.drawn THEN [ps EXCEPT ![PixelAddress(d.target, p.x, p.y)] = r.color] ELSE ps
\* The stencil byte is read back and kept.
StoreDepth(ds, d, p, r) ==
  IF r.drawn /\ r.z >= 0 THEN [ds EXCEPT ![DepthAddress(d.target, p.x, p.y)].z = r.z] ELSE ds

-----------------------------------------------------------------------------
(* The rows a draw can touch, and how they are split.                      *)
Used(d) == {d.triangles[i][k] : i \in DOMAIN d.triangles, k \in 1..3}
FirstRow(d) == Greater(Min({Greater(FloorHalf(d.vertices[v].y), 0) : v \in Used(d)}), d.target.clip_y)
LastRow(d) == Lesser(Max({Greater(CeilHalf(d.vertices[v].y), 0) + 1 : v \in Used(d)}), d.target.clip_y + d.target.height)
Height(d) == LastRow(d) - FirstRow(d)
CoveredArea(d) == FoldFunction(LAMBDA a, b : a + b, 0, [i \in DOMAIN d.triangles |-> Absolute(Area(Corners(d, i))) \div 8])

BandCount(d) ==
  LET n == Min({CoveredArea(d) \div PIXELS_PER_BAND, HostProcessors, Height(d), MAX_DRAW_BANDS})
  IN IF n <= 1 \/ CoveredArea(d) < PARALLEL_DRAW_PIXELS THEN 1 ELSE n
RowsEach(d) == DivCeil(Height(d), BandCount(d))

BandRows(d, b) == LET start == FirstRow(d) + RowsEach(d) * (b - 1)
                  IN <<Lesser(start, LastRow(d)), Lesser(start + RowsEach(d), LastRow(d))>>
BandOfRow(d, y) == 1 + (Greater(y - FirstRow(d), 0) \div RowsEach(d))

\* Mutant: a triangle goes to the band its top is in.
BinnedByTop(d, b) == SelectSeq([i \in DOMAIN d.triangles |-> i],
                       LAMBDA i : b = BandOfRow(d, Greater(FloorHalf(Min(Ys(Corners(d, i)))), FirstRow(d))))
\* A triangle lands in every band it crosses, in submission order.
Binned(d, b) ==
  SelectSeq([i \in DOMAIN d.triangles |-> i],
    LAMBDA i : LET ys == Ys(Corners(d, i))
                   top == Max({FloorHalf(Min(ys)), 0, FirstRow(d)})
                   bottom == Lesser(Greater(CeilHalf(Max(ys)), 0) + 1, LastRow(d))
               IN top < bottom /\ b \in BandOfRow(d, top)..BandOfRow(d, bottom - 1))

BandWork(d, b) ==
  LET own == IF BandCount(d) = 1 THEN [i \in DOMAIN d.triangles |-> i] ELSE Binned(d, b)
      rows == IF BandCount(d) = 1 THEN <<FirstRow(d), LastRow(d)>> ELSE BandRows(d, b)
  IN FlattenSeq([k \in DOMAIN own |-> FillRows(d, own[k], rows)])

\* One band: the pixels left, what it has read for the first of them, and how
\* many it has written.
Idle == [held |-> FALSE, result |-> Nothing]
RasterInit ==
  /\ draw \in Draws
  /\ pixels = draw.surface
  /\ depths = draw.zbuffer
  /\ bands = IF FirstRow(draw) >= LastRow(draw) THEN <<>>
             ELSE [b \in 1..BandCount(draw) |-> [left |-> BandWork(draw, b), read |-> Idle, written |-> 0]]

ReadSurface(b) ==
  /\ bands[b].left # <<>> /\ ~bands[b].read.held
  /\ bands' = [bands EXCEPT ![b].read = [held |-> TRUE, result |-> ShadePixel(draw, Head(bands[b].left), pixels, depths)]]
  /\ UNCHANGED <<draw, pixels, depths>>

WriteSurface(b) ==
  LET p == Head(bands[b].left)
      r == bands[b].read.result
  IN /\ bands[b].read.held
     /\ pixels' = StorePixel(pixels, draw, p, r)
     /\ depths' = StoreDepth(depths, draw, p, r)
     /\ bands' = [bands EXCEPT ![b] = [left |-> Tail(@.left), read |-> Idle, written |-> @.written + IF r.drawn THEN 1 ELSE 0]]
     /\ UNCHANGED draw

RasterNext == \E b \in DOMAIN bands : ReadSurface(b) \/ WriteSurface(b)
RasterDone == \A b \in DOMAIN bands : bands[b].left = <<>>

-----------------------------------------------------------------------------

Painted(s, d, p, r) ==
  [ps |-> StorePixel(s.ps, d, p, r), ds |-> StoreDepth(s.ds, d, p, r), written |-> s.written + IF r.drawn THEN 1 ELSE 0]
\* What one thread would have drawn: every triangle in order over all rows.
OneThread(d) ==
  LET work == FlattenSeq([i \in DOMAIN d.triangles |-> FillRows(d, i, <<0, d.target.clip_y + d.target.height>>)])
      after[n \in 0..Len(work)] ==
        IF n = 0 THEN [ps |-> d.surface, ds |-> d.zbuffer, written |-> 0]
        ELSE LET s == after[n - 1] IN Painted(s, d, work[n], ShadePixel(d, work[n], s.ps, s.ds))
  IN after[Len(work)]

ShowsFrame(one) ==
  /\ pixels = one.ps /\ depths = one.ds
  /\ one.written = FoldFunction(LAMBDA b, n : b.written + n, 0, bands)
\* However the bands interleave, the frame is the one a single thread draws:
\* the same colours, depths and stencils and the same count of pixels, with
\* blending and depth tests reading what earlier triangles left ("the frame is
\* the frame a single thread would have drawn", rasterize_draw).
BandsDrawOneFrame ==
  RasterDone => ShowsFrame(OneThread(draw))

=============================================================================
