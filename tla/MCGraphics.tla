----------------------------- MODULE MCGraphics -----------------------------
(***************************************************************************)
(* The graphics processor, one part in each behaviour: textures and the    *)
(* shading arithmetic by operand, draws filled by several threads, the     *)
(* command engine, the ring that feeds it, and the device registers.       *)
(***************************************************************************)
EXTENDS Rasterizer, GpuSubmission, TLC

VARIABLE gpart
graphicsVars == <<rasterVars, bound, shade, gpart, engineVars, submissionVars, deviceVars>>

-----------------------------------------------------------------------------
(* Textures, bound at the start of their object, into it, and so far into  *)
(* it that their last levels lie outside; and blocks whose endpoints go up *)
(* and down.                                                               *)
MCObject == [base |-> 64, limit |-> 447]
MCTextures ==
  [format : {"linearA8R8G8B8", "swizzledX8R8G8B8", "dxt1", "dxt3", "dxt5", "linearR5G6B5"}, rect : {<<5, 2>>},
   log : {<<0, 0>>, <<3, 0>>, <<1, 3>>, <<3, 3>>}, claimed : {0, 2, 9}, pitch : {32}, offset : {0, 256}, object : {MCObject}]
  \cup [format : {"linearX8R8G8B8", "swizzledA8R8G8B8"}, rect : {<<0, 0>>, <<9, 1>>}, log : {<<2, 2>>}, claimed : {3}, pitch : {0, 64},
        offset : {0}, object : {MCObject}]
MCBlocks == {<<a, b, i, j, k, l, m, n, i, k>> : a \in {0, 80, 255}, b \in {0, 80}, i \in {0, 57, 255}, j \in {5, 250},
                                                k \in {36, 219}, l \in {0, 170}, m \in {99}, n \in {1, 198}}

-----------------------------------------------------------------------------
(* Combiner stages over registers with distinct lanes.                     *)
MCRegs == [r \in RegisterNames |->
             CASE r = "diffuse" -> <<4080, 2040, 1020, 3060>>
               [] r = "texture0" -> <<0, 4080, 2040, 1020>>
               [] r = "spare0" -> <<2040, 2040, -2040, 2040>>
               [] r = "spare1" -> <<510, 4080, 0, 0>>
               [] OTHER -> Zero]
In(r, alpha, map) == [reg |-> r, alpha |-> alpha, map |-> map]
Portion(a, b, c, d, ab, cd, sum, dots, mux, scale) ==
  [a |-> a, b |-> b, c |-> c, d |-> d, ab |-> ab, cd |-> cd, sum |-> sum,
   abDot |-> dots[1], cdDot |-> dots[2], mux |-> mux, scale |-> scale]
MCPortions ==
  {Portion(In("diffuse", FALSE, map), In("spare0", alpha, "signed"), In("constant0", FALSE, "invert"),
           In("texture0", ~alpha, "expand"), dest, "spare1", "spare0", dots, mux, scale) :
     map \in {"unsigned", "expandNegate", "halfBias"}, alpha \in BOOLEAN, dest \in {"spare0", "texture0", "fog"},
     dots \in {<<FALSE, FALSE>>, <<TRUE, FALSE>>}, mux \in BOOLEAN, scale \in {"none", "biasDouble"}}
MCAlphaPortions ==
  {Portion(In("spare0", FALSE, "halfBiasNegate"), In("spare1", TRUE, "negate"), In("constant1", FALSE, "unsigned"),
           In("diffuse", FALSE, "signed"), dest, cd, "spare1", <<TRUE, FALSE>>, mux, scale) :
     dest \in {"spare0", "diffuse"}, cd \in {"spare0", "zero"}, mux \in BOOLEAN, scale \in {"half", "quadruple", "bias", "double"}}
MCStages == [stage : [color : MCPortions, alpha : MCAlphaPortions, factor0 : {<<1020, 0, 4080, 2040>>},
                      factor1 : {<<0, 4080, 0, 1020>>}], regs : {MCRegs}]

FIn(r, alpha, invert) == [reg |-> r, alpha |-> alpha, invert |-> invert]
MCFinals ==
  [final : {[a |-> FIn(ra, alpha, inv), b |-> FIn(rb, FALSE, inv), c |-> FIn("diffuse", ~alpha, FALSE), d |-> FIn(rd, FALSE, FALSE),
             e |-> FIn("texture0", FALSE, inv), f |-> FIn("diffuse", TRUE, FALSE), g |-> FIn("spare1", TRUE, TRUE)] :
             ra \in {"texture0", "diffuse", "zero"}, rb \in {"texture0", "spare1", "fog"}, rd \in {"zero", "product", "spare0+specular"},
             alpha \in BOOLEAN, inv \in BOOLEAN}, regs : {MCRegs}]

Src(kind, index, swizzle, negate) == [kind |-> kind, index |-> index, swizzle |-> swizzle, negate |-> negate]
Instruction(v, s, b, out, toOut, outScalar, final) ==
  [vector |-> v, scalar |-> s, a |-> Src("input", 0, <<1, 2, 3, 4>>, FALSE), b |-> b,
   c |-> Src("temporary", 1, <<2, 1, 3, 3>>, TRUE), temp |-> 1, tempMask |-> {1, 3}, tempScalarMask |-> {2},
   outMask |-> {1, 2, 4}, out |-> out, toOutput |-> toOut, outScalar |-> outScalar, final |-> final]
MCInstructions(final) ==
  {Instruction(op[1], op[2], b, out, TRUE, os, final) :
     op \in {<<"mov", "nop">>, <<"mad", "rcp">>, <<"dp3", "mov">>, <<"nop", "rsq">>, <<"slt", "log">>},
     b \in {Src("input", 1, <<4, 4, 2, 1>>, FALSE), Src("constant", 3, <<1, 1, 1, 1>>, TRUE)}, out \in {0, 3, 200}, os \in BOOLEAN}
MCVertexPrograms ==
  [program : {<<Instruction("add", "nop", Src("input", 1, <<1, 2, 3, 4>>, FALSE), 1, FALSE, FALSE, FALSE), w>> :
                w \in MCInstructions(TRUE) \cup MCInstructions(FALSE)},
   inputs : {[i \in 0..1 |-> IF i = 0 THEN <<1, 0, 1, -1>> ELSE <<0, 1, -1, 1>>]}]

-----------------------------------------------------------------------------
(* Draws into a four by five surface, split into up to three bands.        *)
MCTexel(level, x, y) == [c |-> (40 * x + 90 * y + 25 * level) % 256, a |-> IF x = y THEN 255 ELSE 100]
P(x, y, c, a, z, u, v) == [x |-> x, y |-> y, c |-> c, a |-> a, z |-> z, u |-> u, v |-> v, iw |-> 1]
NoTexture == [bound |-> FALSE, extent |-> <<1, 1>>, levels |-> 1, mode |-> "clamp", filtered |-> FALSE]
NoProgram == [active |-> 0, stages |-> <<>>, hasFinal |-> FALSE, final |-> 0]
Plain == [unfiltered |-> FALSE,
          blend |-> [enabled |-> FALSE, source |-> "one", destination |-> "zero"],
          depth |-> [test |-> FALSE, write |-> FALSE, function |-> "less"],
          cull |-> [enabled |-> FALSE, face |-> "back", frontClockwise |-> TRUE],
          alpha |-> [enabled |-> FALSE, function |-> "greater", reference |-> 120]]
Words == {4 * k : k \in 0..19}
DrawOf(vertices, triangles, quad, texture, program, state) ==
  [target |-> [base |-> 0, pitch |-> 16, clip_x |-> 0, clip_y |-> 0, width |-> 4, height |-> 5, zeta |-> 0, zeta_pitch |-> 16],
   surface |-> [w \in Words |-> [c |-> 100 + w, a |-> 200]], zbuffer |-> [w \in Words |-> [z |-> 60 + w, s |-> 7]],
   vertices |-> vertices, triangles |-> triangles, quad |-> quad, texture |-> texture, program |-> program, state |-> state]
Square == <<P(0, 0, 0, 0, 10, 0, 0), P(8, 0, 255, 255, 90, 8, 0), P(8, 10, 90, 128, 10, 8, 8), P(0, 10, 30, 60, 200, 0, 8)>>
Skewed == <<P(1, 0, 0, 0, 10, 0, 0), P(8, 3, 255, 255, 90, 16, 0), P(5, 10, 90, 128, 10, 16, 16), P(0, 7, 30, 60, 200, -8, 16)>>
Fan == <<<<1, 2, 3>>, <<1, 3, 4>>>>
Overlap == <<<<1, 2, 3>>, <<4, 2, 3>>, <<2, 1, 4>>>>
Blending(s, d) == [Plain EXCEPT !.blend = [enabled |-> TRUE, source |-> s, destination |-> d]]
DepthTesting(f) == [Plain EXCEPT !.depth = [test |-> TRUE, write |-> TRUE, function |-> f]]
MipTexture == [bound |-> TRUE, extent |-> <<8, 4>>, levels |-> 3, mode |-> "mirror", filtered |-> TRUE]
OneStage == [active |-> 1, hasFinal |-> FALSE, final |-> 0,
             stages |-> <<[color |-> Portion(In("diffuse", FALSE, "unsigned"), In("texture0", FALSE, "invert"), In("texture0", FALSE, "unsigned"),
                                             In("texture0", TRUE, "unsigned"), "zero", "zero", "spare0", <<FALSE, FALSE>>, FALSE, "none"),
                           alpha |-> Portion(In("diffuse", TRUE, "unsigned"), In("texture1", TRUE, "unsigned"), In("zero", TRUE, "unsigned"),
                                             In("zero", TRUE, "unsigned"), "spare0", "zero", "zero", <<FALSE, FALSE>>, FALSE, "none"),
                           factor0 |-> Zero, factor1 |-> Zero]>>]
OffScreen == DrawOf(<<P(0, -9, 0, 0, 0, 0, 0), P(9, -9, 0, 0, 0, 0, 0), P(0, -4, 0, 0, 0, 0, 0)>>, <<<<1, 2, 3>>>>, FALSE, NoTexture, NoProgram, Plain)
MCDraws ==
  {OffScreen,
   DrawOf(Square, Fan, TRUE, NoTexture, NoProgram, Blending("srcAlpha", "oneMinusSrcAlpha")),
   DrawOf(Skewed, Overlap, FALSE, NoTexture, NoProgram, Blending("dstColor", "one")),
   DrawOf(Skewed, Fan, TRUE, MipTexture, NoProgram, Blending("srcAlphaSaturate", "oneMinusDstAlpha")),
   DrawOf(Square, Overlap, FALSE, NoTexture, NoProgram, DepthTesting("less")),
   DrawOf(Skewed, Overlap, FALSE, [MipTexture EXCEPT !.mode = "wrap", !.filtered = FALSE], OneStage, DepthTesting("gequal")),
   DrawOf(Square, Overlap, FALSE, NoTexture, NoProgram,
          [Plain EXCEPT !.cull.enabled = TRUE, !.alpha.enabled = TRUE, !.blend = [enabled |-> TRUE, source |-> "one", destination |-> "srcColor"]])}

-----------------------------------------------------------------------------
(* The command engine. A display surface at 0 and at 32, an effect texture *)
(* at 64, a vertex array at 128 whose last vertex is behind the eye, and a *)
(* semaphore at 192.                                                       *)
MCInstance == (1 :> [handle |-> 1, object |-> [base |-> 0, limit |-> 127]]) @@ (2 :> [handle |-> 2, object |-> [base |-> 128, limit |-> 63]])
              @@ (3 :> [handle |-> 3, object |-> [base |-> 192, limit |-> 7]])
MCVertices == <<1, 1, 0, 1, 0, 0, 0, 1, 4, 0, 0, 2, 3, 1, 0, 0>>
MCMemory == [w \in {4 * i : i \in 0 .. 49} |-> IF w \in 128 .. 191 THEN MCVertices[(w - 128) \div 4 + 1] ELSE 0]
M(method, argument) == [method |-> method, argument |-> argument]
RECURSIVE Run(_, _)
Run(methods, r) == IF methods = <<>> THEN r ELSE Run(Tail(methods), ApplyMethod(r.e, r.v, Head(methods).method, Head(methods).argument))
MCSetUp == <<M("OBJECT", 9), M("DMA_COLOR", 1), M("DMA_VERTEX_A", 2), M("DMA_SEMAPHORE", 3), M("SEMAPHORE_OFFSET", 4), M("PITCH", 16 + 64 * 16),
             M("CLIP_VERTICAL", 64 * 2), M("CLIP_HORIZONTAL", 64 * 4), M("CLEAR_RECT_HORIZONTAL", 64 * 9), M("CLEAR_RECT_VERTICAL", 64 * 9),
             M("ZETA_OFFSET", 96), M("ZSTENCIL_CLEAR_VALUE", 5), M("COLOR_CLEAR_VALUE", 0), M("POSITION_FORMAT", 1 + 8 * 4 + 64 * 16),
             M("POSITION_OFFSET", 64), M("DIFFUSE_OFFSET", 0), M("DMA_VERTEX_B", 35), M("DIFFUSE_2F", 3), M("DIFFUSE_4F", 7), M("DIFFUSE_4UB", 65),
             M("DIFFUSE_FORMAT", 8 + 2), M("PROGRAM_LOAD", 1), M("PROGRAM", 6), M("PROGRAM_START", 9), M("EXECUTION_MODE", 0)>>
MCBound == Run(MCSetUp, [e |-> NewEngine, v |-> MCMemory]).e

\* A few methods at a time, around primitives.
Inline(dwords) == [i \in DOMAIN dwords |-> M("INLINE_ARRAY", dwords[i])]
MCMethods == {<<M("BEGIN_END", 0)>>, <<M("COMBINER_CONTROL", 2), M("BEGIN_END", 2)>>, <<M("BEGIN_END", 4), M("COMBINER_CONTROL", 1)>>, <<M("ELEMENT16", 2 * 64 + 1)>>, <<M("ELEMENT32", 3)>>,
              Inline(<<3, 1, 0, 0, 1, 1, 5>>)}
CONSTANT MaxMethods
MethodsNext ==
  /\ gpart = "methods" /\ Cardinality({i \in DOMAIN seen : seen[i].method \notin {"INLINE_ARRAY", "COMBINER_CONTROL"}}) + Cardinality({i \in DOMAIN seen : seen[i].argument = 5}) < MaxMethods
  /\ \E m \in MCMethods : \E r \in {Run(m, [e |-> eng, v |-> vram])} : eng' = r.e /\ vram' = r.v /\ seen' = seen \o m
  /\ UNCHANGED <<push, walk>>

\* A title that turns between surfaces, draws and clears.
MCTargets == {<<0, 4>>, <<32, 4>>, <<64, 1>>}
Turn(t) == <<M("COLOR_OFFSET", t[1]), M("CLIP_HORIZONTAL", 64 * t[2])>>
MCOperations == {<<M("CLEAR_SURFACE", 64)>>, <<M("CLEAR_SURFACE", 65)>>,
                 <<M("BEGIN_END", 1), M("ELEMENT16", 64 * 2 + 1), M("ELEMENT32", 0), M("BEGIN_END", 0)>>,
                 <<M("BEGIN_END", 3), M("ELEMENT16", 64), M("ELEMENT16", 3 * 64 + 2), M("BEGIN_END", 0)>>,
                 <<M("BEGIN_END", 4), M("ELEMENT16", 64), M("ELEMENT16", 3 * 64 + 2), M("BEGIN_END", 0)>>,
                 <<M("POSITION_FORMAT", 1 + 8 * 2), M("DIFFUSE_FORMAT", 0), M("BEGIN_END", 1)>> \o Inline(<<3, 1, 0, 0, 1, 1>>)
                   \o <<M("BEGIN_END", 0), M("POSITION_FORMAT", 1 + 8 * 4 + 64 * 16), M("DIFFUSE_FORMAT", 8 + 2)>>,
                 <<M("EXECUTION_MODE", 2), M("DIFFUSE_FORMAT", 8), M("BEGIN_END", 2)>> \o Inline(<<0, 1, 0, 1, 65, 0, 0, 0, 2, 65, 1, 1, 0, 0, 65>>)
                   \o <<M("BEGIN_END", 0), M("EXECUTION_MODE", 0), M("DIFFUSE_FORMAT", 8 + 2)>>,
                 <<M("TEXTURE", 1), M("BEGIN_END", 5), M("ELEMENT32", 0), M("BEGIN_END", 0), M("TEXTURE", 0)>>}
CONSTANT MaxOperations
FramesNext ==
  /\ gpart = "frames" /\ eng.operations < MaxOperations
  /\ \/ \E t \in MCTargets, o \in MCOperations :
          \E r \in {Run(Turn(t) \o o, [e |-> eng, v |-> vram])} :
              eng' = [r.e EXCEPT !.draws = <<>>, !.skipped = 0, !.unsupported = 0] /\ vram' = r.v
     \/ eng.completed.base # -1 /\ eng' = TakeCompletedFrame(eng) /\ UNCHANGED vram
  /\ UNCHANGED <<push, walk, seen>>

\* Pushbuffers of three words.
MCWords == {Word("jump", 0, <<>>, 0), Word("jump", 4, <<>>, 0), Word("call", 8, <<>>, 0), Word("return", 0, <<>>, 0),
            Word("header", 0, <<"OBJECT">>, 0), Word("header", 0, <<"OBJECT", "OBJECT", "OBJECT">>, 0), Word("bad", 0, <<>>, 0)}
WalksNext == gpart = "walks" /\ PusherStep

-----------------------------------------------------------------------------
MCSetups == {[tier |-> "whp", reuse |-> "get"], [tier |-> "whp", reuse |-> "fence"], [tier |-> "interpreter", reuse |-> "fence"]}
AnyBound == [k |-> "address", t |-> [mode |-> "clamp", extent |-> 1]]
AnyShade == [k |-> "none"]
NoPush == [w \in {0} |-> Word("bad", 0, <<>>, 0)]
EngineInit ==
  /\ vram = MCMemory
  /\ gpart \notin {"mapping", "display"} => ram = [c \in Cells |-> 0] /\ title = NewTitle(1)
  /\ IF gpart = "ring" THEN RingInit
     ELSE /\ setup = CHOOSE x \in MCSetups : TRUE
          /\ ring = [queued |-> 0, kicked |-> 0] /\ batch = <<>>
          /\ seen = <<>>
          /\ eng = MCBound
          /\ IF gpart = "walks" THEN \E put \in {8, 12, 16} : walk = Submitted(0, put) ELSE walk = AtRest
          /\ IF gpart = "walks" THEN push \in [{0, 4, 8} -> MCWords] ELSE push = NoPush
          /\ IF gpart \in {"mapping", "display"} THEN DeviceInit ELSE dev = NewDevices

GraphicsInit ==
  /\ gpart \in {"textures", "shading", "draws", "methods", "frames", "walks", "ring", "mapping", "display"}
  /\ IF gpart = "textures" THEN TextureInit ELSE bound = AnyBound
  /\ IF gpart = "shading" THEN ShadeInit ELSE shade = AnyShade
  /\ IF gpart = "draws" THEN RasterInit
     ELSE draw = OffScreen /\ pixels = OffScreen.surface /\ depths = OffScreen.zbuffer /\ bands = <<>>
  /\ EngineInit

GraphicsNext ==
  /\ UNCHANGED <<gpart, bound, shade>>
  /\ \/ RasterNext /\ UNCHANGED <<engineVars, submissionVars, deviceVars>>
     \/ (MethodsNext \/ FramesNext \/ WalksNext) /\ UNCHANGED <<rasterVars, submissionVars, deviceVars>>
     \/ gpart = "ring" /\ RingNext /\ UNCHANGED <<rasterVars, ram, title>>
     \/ ((gpart = "mapping" /\ MappingNext) \/ (gpart = "display" /\ DisplayNext)) /\ UNCHANGED <<rasterVars, engineVars, submissionVars>>

\* The walk and the tick go on: a walk is a loop of the emulator's own, and the
\* interpreter's run loop pumps a tick every virtual millisecond.
Walking == <<walk, batch>>
GraphicsFair == []<>~(Engaged \/ dev.submissions # <<>>) \/ []<><<Walking' # Walking>>_graphicsVars
GraphicsSpec == GraphicsInit /\ [][GraphicsNext]_graphicsVars /\ GraphicsFair
=============================================================================
