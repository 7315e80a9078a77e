------------------------- MODULE PushbufferEngine --------------------------
(***************************************************************************)
(* The graphics processor's command engine (exbawks-gpu nv2a.rs): the      *)
(* pusher that walks a submitted range, the methods it applies, primitive  *)
(* assembly, clears, and the record of which surface holds a frame.        *)
(*                                                                         *)
(* Guest memory is dwords at byte addresses. A packed argument holds two   *)
(* halves of Half values each. Floats are whole numbers. What a triangle   *)
(* covers is Rasterizer's: here it paints the pixel of its first corner.   *)
(* What a vertex program computes is Shading's: here it is the identity,   *)
(* as are the fixed pipeline's matrices and lights. The registers only     *)
(* shading reads are one per group, latched and handed to the draw.        *)
(***************************************************************************)
EXTENDS Integers, Sequences, SequencesExt, FiniteSets, FiniteSetsExt, Bitwise

CONSTANTS
    Half,                   \* values of half an argument
    Instance,               \* instance memory: the hash table, slot -> [handle, object]
    IndexBits,              \* width of a slot number
    MAX_SURFACE_DIMENSION,
    PRESENTABLE_WIDTH,
    MAX_INLINE_DWORDS,
    MAX_ELEMENTS,
    PROGRAM_SLOTS,          \* TRANSFORM_PROGRAM_SLOTS
    MAX_DWORDS_PER_SUBMIT

VARIABLES
    eng,      \* PushbufferEngine, one channel
    vram,     \* guest memory: surfaces, arrays, semaphores
    push,     \* guest memory: the pushbuffer's words
    walk,     \* submit_inner: the walk in progress
    seen      \* the methods applied so far, in order (history)

engineVars == <<eng, vram, push, walk, seen>>

Low(argument) == argument % Half
High(argument) == argument \div Half
Smaller(a, b) == IF a < b THEN a ELSE b
Larger(a, b) == IF a > b THEN a ELSE b
AbsoluteOf(a) == IF a < 0 THEN -a ELSE a

-----------------------------------------------------------------------------
(* Objects. *)

NoObject == [base |-> -1, limit |-> -1]

RamhtHash(handle, channel) ==
  LET fold[v \in 0 .. handle] == IF v = 0 THEN 0 ELSE (v % 2^IndexBits) ^^ fold[v \div 2^IndexBits]
  IN  fold[handle] ^^ (channel * 2^(IndexBits - 4))

ResolveDmaObject(handle, channel) ==
  LET slot == RamhtHash(handle, channel) % 2^IndexBits
  IN  IF slot \in DOMAIN Instance /\ Instance[slot].handle = handle THEN Instance[slot].object ELSE NoObject

-----------------------------------------------------------------------------
(* Surfaces. *)

NewSurface ==
  [color_dma |-> NoObject, color_offset |-> 0, zeta_offset |-> 0, zeta_pitch |-> 0, color_pitch |-> 0, clip_x |-> 0, clip_width |-> 0,
   clip_y |-> 0, clip_height |-> 0, clear_color |-> 0, clear_zstencil |-> 0, clear_x |-> <<0, 0>>, clear_y |-> <<0, 0>>]

ClearBounds(s, pitch) ==
  [left |-> Larger(s.clear_x[1], s.clip_x),
   right |-> Smaller(Smaller(s.clear_x[2], s.clip_x + s.clip_width), Smaller(pitch \div 4, MAX_SURFACE_DIMENSION)),
   top |-> Larger(s.clear_y[1], s.clip_y),
   bottom |-> Smaller(Smaller(s.clear_y[2], s.clip_y + s.clip_height), MAX_SURFACE_DIMENSION)]

\* Rows are filled up to the first that starts past `limit`, counted from `origin`.
Cleared(s, v, base, pitch, origin) ==
  LET b == ClearBounds(s, pitch)
      past == {r \in b.top .. b.bottom - 1 : base + r * pitch + b.left * 4 - origin > s.color_dma.limit}
      last == IF past = {} THEN b.bottom - 1 ELSE Min(past) - 1
  IN  {base + r * pitch + c * 4 : r \in b.top .. last, c \in b.left .. b.right - 1} \cap DOMAIN v

Filled(v, cells, value) == [w \in DOMAIN v |-> IF w \in cells THEN value ELSE v[w]]

NoTarget == [base |-> -1, pitch |-> 0, width |-> 0, height |-> 0, clip_x |-> 0, clip_y |-> 0]
RenderTarget(s) ==
  LET width == Smaller(Smaller(s.clip_width, MAX_SURFACE_DIMENSION), s.color_pitch \div 4)
      height == Smaller(Smaller(s.clip_height, MAX_SURFACE_DIMENSION), Larger(s.color_dma.limit \div s.color_pitch, 1))
  IN  IF s.color_dma = NoObject \/ s.color_pitch = 0 \/ width = 0 \/ s.clip_height = 0 THEN NoTarget
      ELSE [base |-> s.color_dma.base + s.color_offset, pitch |-> s.color_pitch, width |-> width, height |-> height,
            clip_x |-> s.clip_x, clip_y |-> s.clip_y]

NewHistory == [drawn |-> 0, cleared |-> 0, blended |-> 0, pitch |-> 0, width |-> 0, height |-> 0]
HistoryOf(e, base) == IF base \in DOMAIN e.history THEN e.history[base] ELSE NewHistory
WithHistory(e, base, h) == [e EXCEPT !.history = [b \in DOMAIN @ \cup {base} |-> IF b = base THEN h ELSE @[b]], !.operations = @ + 1]

\* Mutant: a clear leaves the count of what was drawn.
AfterClearCounting(h, operation) == [h EXCEPT !.cleared = operation]
AfterClear(h, operation) == [h EXCEPT !.cleared = operation, !.blended = 0]

ClearColor(e, v) ==
  LET s == e.surface
      base == s.color_dma.base + s.color_offset
      cells == Cleared(s, v, base, s.color_pitch, base)
  IN  IF s.color_dma = NoObject \/ s.color_pitch = 0 \/ cells = {} THEN [e |-> e, v |-> v]
      ELSE [e |-> WithHistory(e, base, AfterClear(HistoryOf(e, base), e.operations + 1)),
            v |-> Filled(v, cells, s.clear_color)]

ClearZeta(s, v) ==
  IF s.color_dma = NoObject \/ s.zeta_pitch = 0 \/ s.zeta_offset = 0 THEN v
  ELSE Filled(v, Cleared(s, v, s.color_dma.base + s.zeta_offset, s.zeta_pitch, s.color_dma.base), s.clear_zstencil)

\* CLEAR_SURFACE: the colour channels by the high half, depth by the low one.
ClearSurface(e, v, argument) ==
  LET colored == IF High(argument) # 0 THEN ClearColor(e, v) ELSE [e |-> e, v |-> v]
  IN  [colored EXCEPT !.v = IF Low(argument) # 0 THEN ClearZeta(e.surface, @) ELSE @]

-----------------------------------------------------------------------------
(* Vertices. An attribute is four components; `position` comes first.      *)

NoFormat == [kind |-> "float", size |-> 0]
AttributeDwords(f) == IF f.size = 0 THEN 0 ELSE IF f.kind # "float" THEN 1 ELSE f.size
Stride(e) == AttributeDwords(e.formats["position"]) + AttributeDwords(e.formats["diffuse"])
AttributeDefaults(e) == [a \in {"position", "diffuse"} |-> 
  IF e.constantSet[a] THEN e.constants[a] ELSE IF a = "diffuse" THEN <<1, 1, 1, 1>> ELSE <<0, 0, 0, 1>>]

\* `dwords` components as given, the rest as the hardware defaults.
Components(read(_), dwords) == [i \in 1 .. 4 |-> IF i <= dwords THEN read(i - 1) ELSE IF i = 4 THEN 1 ELSE 0]
Unpacked(word) == <<High(word), Low(word), 0, 1>>       \* red above blue, as D3DCOLOR
UnpackedBytes(word) == <<Low(word), High(word), 0, 1>>  \* in memory order

\* One vertex, placed: at or behind the eye it keeps its place and is marked.
PlaceVertex(a) ==
  LET w == a["position"][4]
  IN  IF w <= 0 THEN <<[x |-> 0, y |-> 0, color |-> 0, front |-> FALSE]>>
      ELSE <<[x |-> a["position"][1] \div w, y |-> a["position"][2] \div w, color |-> a["diffuse"][1], front |-> TRUE]>>

\* One index: each enabled attribute from its array, or as the last vertex left it.
FetchAttribute(e, v, index, old, a) ==
  LET object == IF e.vertexDma[High(e.offsets[a]) + 1] # NoObject THEN e.vertexDma[High(e.offsets[a]) + 1] ELSE e.vertexDma[1]
      at == object.base + Low(e.offsets[a]) + index * e.strides[a]
      word(i) == IF at + 4 * i \in DOMAIN v THEN v[at + 4 * i] ELSE 0
  IN  IF e.formats[a].size = 0 \/ object = NoObject \/ Low(e.offsets[a]) > object.limit \/ index * e.strides[a] > object.limit THEN old
      ELSE IF e.formats[a].kind = "d3dcolor" THEN Unpacked(word(0))
      ELSE IF e.formats[a].kind = "ubyte" THEN UnpackedBytes(word(0))
      ELSE Components(word, e.formats[a].size)

AssembleArrays(e, v) ==
  LET attributes[n \in 0 .. Len(e.elements)] ==
        IF n = 0 THEN AttributeDefaults(e)
        ELSE [a \in {"position", "diffuse"} |-> FetchAttribute(e, v, e.elements[n], attributes[n - 1][a], a)]
  IN  FlattenSeq([n \in 1 .. Len(e.elements) |-> PlaceVertex(attributes[n])])

\* One chunk of the inline stream.
LoadAttributes(e, chunk, old) ==
  LET first == AttributeDwords(e.formats["position"])
      position(i) == chunk[i + 1]
      diffuse(i) == chunk[first + i + 1]
  IN  [a \in {"position", "diffuse"} |->
         IF e.formats[a].size = 0 THEN old[a]
         ELSE IF a = "position" THEN Components(position, first)
         ELSE IF e.formats[a].kind # "float" THEN Unpacked(chunk[first + 1])
         ELSE Components(diffuse, e.formats[a].size)]

\* Without a program only positions already in pixels are drawn, and they are known by lying outside any clip volume.
Pretransformed(chunks, size) ==
  \E i \in 1 .. Smaller(3, Len(chunks)) :
    LET w == IF size >= 4 THEN Larger(AbsoluteOf(chunks[i][4]), 1) ELSE 1
    IN  AbsoluteOf(chunks[i][1]) > 2 * w \/ AbsoluteOf(chunks[i][2]) > 2 * w
InPixels(e, chunk) ==
  LET first == AttributeDwords(e.formats["position"])
  IN  [x |-> chunk[1], y |-> chunk[2], color |-> IF e.formats["diffuse"].size # 0 THEN chunk[first + 1] ELSE Half - 1, front |-> TRUE]

AssembleInline(e) ==
  LET stride == Stride(e)
      count == IF stride = 0 THEN 0 ELSE Len(e.inline) \div stride
      chunks == [i \in 1 .. count |-> SubSeq(e.inline, (i - 1) * stride + 1, i * stride)]
      attributes[n \in 0 .. count] == IF n = 0 THEN AttributeDefaults(e) ELSE LoadAttributes(e, chunks[n], attributes[n - 1])
  IN  IF e.formats["position"].kind # "float" \/ e.formats["position"].size < 2 THEN <<>>
      ELSE IF e.programmed THEN FlattenSeq([n \in 1 .. count |-> PlaceVertex(attributes[n])])
      ELSE IF Pretransformed(chunks, e.formats["position"].size) THEN [i \in 1 .. count |-> InPixels(e, chunks[i])]
      ELSE <<>>

-----------------------------------------------------------------------------
(* Primitives. *)

NoPrimitive == "none"

\* The triangles of a primitive, as places in its list of vertices.
Assemble(primitive, count) ==
  CASE primitive = "triangles" -> [i \in 1 .. count \div 3 |-> <<3 * i - 2, 3 * i - 1, 3 * i>>]
    [] primitive = "strip" -> [i \in 1 .. Larger(count - 2, 0) |-> IF i % 2 = 1 THEN <<i, i + 1, i + 2>> ELSE <<i + 1, i, i + 2>>]
    [] primitive = "fan" -> [i \in 1 .. Larger(count - 2, 0) |-> <<1, i + 1, i + 2>>]
    [] primitive = "quads" -> [i \in 1 .. 2 * (count \div 4) |->
                                 LET q == 4 * ((i - 1) \div 2)
                                 IN  IF i % 2 = 1 THEN <<q + 1, q + 2, q + 3>> ELSE <<q + 1, q + 3, q + 4>>]
    [] OTHER -> <<>>
Drawable == {"triangles", "strip", "fan", "quads"}

\* The pixel a triangle paints, if the clip holds it.
PixelOf(t, corner) ==
  IF corner.x \in t.clip_x .. t.clip_x + t.width - 1 /\ corner.y \in t.clip_y .. t.clip_y + t.height - 1
  THEN {t.base + corner.y * t.pitch + corner.x * 4} ELSE {}
Paint(v, t, corners) ==
  FoldLeft(LAMBDA m, c : Filled(m, PixelOf(t, c), c.color), v, corners)

\* Leaving a display-sized surface for another target completes its frame.
MoveTo(e, t) ==
  IF e.lastTarget # t.base /\ e.lastWidth >= PRESENTABLE_WIDTH
  THEN [e EXCEPT !.completed = [base |-> e.lastTarget, width |-> e.lastWidth]] ELSE e

DrawTriangles(e, v, t, vertices, triangles) ==
  LET facing == SelectSeq(triangles, LAMBDA tri : \A i \in 1 .. 3 : vertices[tri[i]].front)
      corners == [i \in 1 .. Len(facing) |-> vertices[facing[i][1]]]
      drawn == Cardinality({i \in 1 .. Len(corners) : PixelOf(t, corners[i]) # {}})
      moved == [MoveTo(e, t) EXCEPT !.lastTarget = t.base, !.lastWidth = t.width]
      h == HistoryOf(moved, t.base)
  IN  [e |-> IF drawn = 0 THEN moved
             ELSE WithHistory(moved, t.base, [h EXCEPT !.drawn = moved.operations + 1, !.blended = @ + drawn,
                                                       !.pitch = t.pitch, !.width = t.width, !.height = t.height]),
       v |-> Paint(v, t, corners)]

Closed(e) == [e EXCEPT !.primitive = NoPrimitive, !.inline = <<>>, !.elements = <<>>]

\* SET_BEGIN_END(0). A unit whose texture cannot be bound leaves the primitive undrawn.
EndPrimitive(e, v) ==
  LET vertices == IF e.elements = <<>> THEN AssembleInline(e) ELSE AssembleArrays(e, v)
      target == RenderTarget(e.surface)
      closed == [Closed(e) EXCEPT !.draws = Append(@, [primitive |-> e.primitive, inline |-> e.inline, elements |-> e.elements,
                                                            shading |-> e.shading])]
  IN  IF e.primitive = NoPrimitive THEN [e |-> e, v |-> v]
      ELSE IF target = NoTarget \/ vertices = <<>> THEN [e |-> [closed EXCEPT !.skipped = @ + 1], v |-> v]
      ELSE IF e.unbindable THEN [e |-> [closed EXCEPT !.unsupported = @ + 1], v |-> v]
      ELSE IF e.primitive \notin Drawable THEN [e |-> [closed EXCEPT !.skipped = @ + 1], v |-> v]
      ELSE DrawTriangles(closed, v, target, vertices, Assemble(e.primitive, Len(vertices)))

-----------------------------------------------------------------------------
(* Methods. *)

Kinds == <<"d3dcolor", "float", "ubyte">>
Primitives == <<"triangles", "strip", "fan", "quads", "lines">>

\* Binding an object to a subchannel or a context: what a handle names, or nothing.
BindObject(e, method, argument) ==
  LET object == ResolveDmaObject(argument, 0)
  IN  CASE method = "OBJECT" -> [e EXCEPT !.handle = argument]
        [] method = "DMA_SEMAPHORE" -> [e EXCEPT !.semaphore = object]
        [] method = "DMA_COLOR" -> [e EXCEPT !.surface.color_dma = object]
        [] method = "DMA_VERTEX_A" -> [e EXCEPT !.vertexDma[1] = object]
        [] method = "DMA_VERTEX_B" -> [e EXCEPT !.vertexDma[2] = object]

LatchSurface(e, method, argument) ==
  CASE method = "CLIP_HORIZONTAL" -> [e EXCEPT !.surface.clip_x = Low(argument), !.surface.clip_width = High(argument)]
    [] method = "CLIP_VERTICAL" -> [e EXCEPT !.surface.clip_y = Low(argument), !.surface.clip_height = High(argument)]
    [] method = "PITCH" -> [e EXCEPT !.surface.color_pitch = Low(argument), !.surface.zeta_pitch = High(argument)]
    [] method = "ZETA_OFFSET" -> [e EXCEPT !.surface.zeta_offset = argument]
    [] method = "COLOR_OFFSET" -> [e EXCEPT !.surface.color_offset = argument]
    [] method = "COLOR_CLEAR_VALUE" -> [e EXCEPT !.surface.clear_color = argument]
    [] method = "ZSTENCIL_CLEAR_VALUE" -> [e EXCEPT !.surface.clear_zstencil = argument]
    [] method = "CLEAR_RECT_HORIZONTAL" -> [e EXCEPT !.surface.clear_x = <<Low(argument), High(argument)>>]
    [] method = "CLEAR_RECT_VERTICAL" -> [e EXCEPT !.surface.clear_y = <<Low(argument), High(argument)>>]

LatchVertex(e, method, argument) ==
  LET format == [kind |-> Kinds[(Low(argument) % 8) + 1], size |-> Low(argument) \div 8]
  IN  CASE method = "POSITION_FORMAT" -> [e EXCEPT !.formats["position"] = format, !.strides["position"] = High(argument)]
        [] method = "DIFFUSE_FORMAT" -> [e EXCEPT !.formats["diffuse"] = format, !.strides["diffuse"] = High(argument)]
        [] method = "POSITION_OFFSET" -> [e EXCEPT !.offsets["position"] = argument]
        [] method = "DIFFUSE_OFFSET" -> [e EXCEPT !.offsets["diffuse"] = argument]

\* Two indices in one dword are pushed both or neither.
PushElements(e, method, argument) ==
  LET indices == IF method = "ELEMENT16" THEN <<Low(argument), High(argument)>> ELSE <<argument>>
  IN  IF e.primitive # NoPrimitive /\ Len(e.elements) + Len(indices) <= MAX_ELEMENTS THEN [e EXCEPT !.elements = @ \o indices] ELSE e

PushInline(e, argument) ==
  IF e.primitive # NoPrimitive /\ Len(e.inline) < MAX_INLINE_DWORDS THEN [e EXCEPT !.inline = Append(@, argument)] ELSE e

\* The program and its constants arrive a dword at a time at a cursor that runs on past the end.
Upload(e, method, argument) ==
  CASE method = "PROGRAM" -> [e EXCEPT !.program = [i \in DOMAIN @ |-> IF i = e.load THEN argument ELSE @[i]], !.load = @ + 1]
    [] method = "PROGRAM_LOAD" -> [e EXCEPT !.load = 4 * argument]
    [] method = "PROGRAM_START" -> [e EXCEPT !.start = Smaller(argument, PROGRAM_SLOTS)]
    [] method = "EXECUTION_MODE" -> [e EXCEPT !.programmed = argument = 2]

\* A constant attribute; two floats give the other lanes their defaults the first time.
SetConstant(e, method, argument) ==
  CASE method = "DIFFUSE_2F" ->
         [e EXCEPT !.constants["diffuse"] = [(IF e.constantSet["diffuse"] THEN @ ELSE <<0, 0, 0, 1>>) EXCEPT ![1] = argument],
                   !.constantSet["diffuse"] = TRUE]
    [] method = "DIFFUSE_4F" -> [e EXCEPT !.constants["diffuse"][1] = argument, !.constantSet["diffuse"] = TRUE]
    [] method = "DIFFUSE_4UB" -> [e EXCEPT !.constants["diffuse"] = <<Low(argument), High(argument), 0, 0>>, !.constantSet["diffuse"] = TRUE]

\* Tests and blending, combiners, lights and matrices.
ShadingRegisters == {"BLEND_FUNC", "COMBINER_CONTROL", "LIGHTING_ENABLE", "COMPOSITE_MATRIX"}
LatchShading(e, method, argument) == [e EXCEPT !.shading[method] = argument]

\* A texture unit is enabled with a format that can be bound, or with one that cannot.
LatchTexture(e, argument) == [e EXCEPT !.unbindable = argument = 1]

\* Mutant: a primitive opened over an open one goes on with its vertices.
BeginKeeping(e, v, argument) == IF argument = 0 THEN EndPrimitive(e, v) ELSE [e |-> [e EXCEPT !.primitive = Primitives[argument]], v |-> v]
BeginEnd(e, v, argument) ==
  IF argument = 0 THEN EndPrimitive(e, v)
  ELSE [e |-> [e EXCEPT !.primitive = Primitives[argument], !.inline = <<>>, !.elements = <<>>], v |-> v]

ReleaseSemaphore(e, v, argument) ==
  LET at == e.semaphore.base + e.semaphoreOffset
  IN  IF e.semaphore # NoObject /\ at \in DOMAIN v THEN [e |-> [e EXCEPT !.releases = @ + 1], v |-> [v EXCEPT ![at] = argument]]
      ELSE [e |-> e, v |-> v]

ApplyMethod(e, v, method, argument) ==
  CASE method \in {"OBJECT", "DMA_SEMAPHORE", "DMA_COLOR", "DMA_VERTEX_A", "DMA_VERTEX_B"} -> [e |-> BindObject(e, method, argument), v |-> v]
    [] method = "SEMAPHORE_OFFSET" -> [e |-> [e EXCEPT !.semaphoreOffset = argument], v |-> v]
    [] method \in {"CLIP_HORIZONTAL", "CLIP_VERTICAL", "PITCH", "ZETA_OFFSET", "COLOR_OFFSET", "COLOR_CLEAR_VALUE", "ZSTENCIL_CLEAR_VALUE",
                   "CLEAR_RECT_HORIZONTAL", "CLEAR_RECT_VERTICAL"} -> [e |-> LatchSurface(e, method, argument), v |-> v]
    [] method = "CLEAR_SURFACE" -> ClearSurface(e, v, argument)
    [] method \in {"POSITION_FORMAT", "DIFFUSE_FORMAT", "POSITION_OFFSET", "DIFFUSE_OFFSET"} -> [e |-> LatchVertex(e, method, argument), v |-> v]
    [] method \in {"ELEMENT16", "ELEMENT32"} -> [e |-> PushElements(e, method, argument), v |-> v]
    [] method \in {"PROGRAM", "PROGRAM_LOAD", "PROGRAM_START", "EXECUTION_MODE"} -> [e |-> Upload(e, method, argument), v |-> v]
    [] method \in {"DIFFUSE_2F", "DIFFUSE_4F", "DIFFUSE_4UB"} -> [e |-> SetConstant(e, method, argument), v |-> v]
    [] method \in ShadingRegisters -> [e |-> LatchShading(e, method, argument), v |-> v]
    [] method = "TEXTURE" -> [e |-> LatchTexture(e, argument), v |-> v]
    [] method = "BEGIN_END" -> BeginEnd(e, v, argument)
    [] method = "INLINE_ARRAY" -> [e |-> PushInline(e, argument), v |-> v]
    [] method = "SEMAPHORE_RELEASE" -> ReleaseSemaphore(e, v, argument)
    [] OTHER -> [e |-> e, v |-> v]

-----------------------------------------------------------------------------
(* The pusher. A word is a jump, a call, a return, a header that sends its *)
(* arguments to `methods` in turn, or none of these; as an argument it is  *)
(* its value.                                                              *)

Word(op, to, methods, value) == [op |-> op, to |-> to, methods |-> methods, value |-> value]
NoReturn == -1
AtRest == [active |-> FALSE, cursor |-> 0, target |-> 0, budget |-> 0, back |-> NoReturn, methods |-> <<>>]

NewEngine ==
  [handle |-> 0, semaphore |-> NoObject, semaphoreOffset |-> 0, surface |-> NewSurface, vertexDma |-> <<NoObject, NoObject>>,
   formats |-> [a \in {"position", "diffuse"} |-> NoFormat], strides |-> [a \in {"position", "diffuse"} |-> 0],
   offsets |-> [a \in {"position", "diffuse"} |-> 0], constants |-> [a \in {"position", "diffuse"} |-> <<0, 0, 0, 0>>],
   constantSet |-> [a \in {"position", "diffuse"} |-> FALSE], primitive |-> NoPrimitive, inline |-> <<>>, elements |-> <<>>,
   program |-> [i \in 0 .. 4 * PROGRAM_SLOTS - 1 |-> 0], load |-> 0, start |-> 0, programmed |-> FALSE, unbindable |-> FALSE,
   shading |-> [r \in ShadingRegisters |-> 0],
   history |-> <<>>, operations |-> 0, lastTarget |-> 0, lastWidth |-> 0, completed |-> [base |-> -1, width |-> 0],
   skipped |-> 0, unsupported |-> 0, releases |-> 0, aborted |-> 0, draws |-> <<>>]

Submitted(get, put) == [AtRest EXCEPT !.active = TRUE, !.cursor = get, !.target = put, !.budget = MAX_DWORDS_PER_SUBMIT]

Abandon ==
  /\ walk' = AtRest
  /\ eng' = [eng EXCEPT !.aborted = @ + 1]
  /\ UNCHANGED <<vram, push, seen>>

Spend(budget, word) == Larger(budget - 1 - Len(word.methods), 0)

\* One control word.
WalkWord ==
  /\ walk.active /\ walk.methods = <<>> /\ walk.cursor # walk.target
  /\ IF walk.budget = 0 \/ walk.cursor \notin DOMAIN push THEN Abandon
     ELSE LET word == push[walk.cursor]
              next == [walk EXCEPT !.cursor = @ + 4, !.budget = Spend(@, word)]
          IN  IF (word.op = "return" /\ walk.back = NoReturn) \/ word.op = "bad" THEN Abandon
              ELSE /\ walk' = CASE word.op = "jump" -> [next EXCEPT !.cursor = word.to]
                                [] word.op = "call" -> [next EXCEPT !.cursor = word.to, !.back = next.cursor]
                                [] word.op = "return" -> [next EXCEPT !.cursor = walk.back, !.back = NoReturn]
                                [] word.op = "header" -> [next EXCEPT !.methods = word.methods]
                   /\ UNCHANGED <<eng, vram, push, seen>>

Apply(method, argument) ==
  /\ \E applied \in {ApplyMethod(eng, vram, method, argument)} : eng' = applied.e /\ vram' = applied.v
  /\ seen' = Append(seen, [method |-> method, argument |-> argument])

\* One argument of the header before it.
WalkArgument ==
  /\ walk.active /\ walk.methods # <<>>
  /\ IF walk.cursor \notin DOMAIN push THEN Abandon
     ELSE /\ Apply(Head(walk.methods), push[walk.cursor].value)
          /\ walk' = [walk EXCEPT !.cursor = @ + 4, !.methods = Tail(@)]
          /\ UNCHANGED push

WalkEnd ==
  /\ walk.active /\ walk.methods = <<>> /\ walk.cursor = walk.target
  /\ walk' = AtRest
  /\ UNCHANGED <<eng, vram, push, seen>>

PusherStep == WalkWord \/ WalkArgument \/ WalkEnd

-----------------------------------------------------------------------------
(* What a caller asks the engine. *)

TakeCompletedFrame(e) == [e EXCEPT !.completed = [base |-> -1, width |-> 0]]

-----------------------------------------------------------------------------
(* Properties. *)

\* A surface's record and its memory agree: pixels count as drawn since the last
\* clear exactly when the surface holds one, in whatever order the title turns
\* from one surface to another (nv2a.rs surface_history, clear_color_surface).
\* For titles that clear whole surfaces.
PictureSinceClear ==
  \A b \in DOMAIN eng.history :
    LET h == eng.history[b]
        cells == {b + r * h.pitch + c * 4 : r \in 0 .. h.height - 1, c \in 0 .. h.width - 1}
    IN  h.drawn > 0 => (h.blended > 0 <=> \E w \in cells : vram[w] # eng.surface.clear_color)

\* A primitive is drawn from the vertex data sent between its begin and its
\* end and nothing else: none sent outside a primitive, or to one that another
\* begin cut short, reaches a draw, and none is lost below the caps
\* (nv2a.rs SET_BEGIN_END, ARRAY_ELEMENT16/32, INLINE_ARRAY). It is shaded as
\* the registers stand at its end.
DrawsAsSubmitted ==
  LET marks == {i \in DOMAIN seen : seen[i].method = "BEGIN_END"}
      opener(i) == Max({0} \cup {j \in marks : j < i})
      ends == {i \in marks : seen[i].argument = 0 /\ opener(i) # 0 /\ seen[opener(i)].argument # 0}
      body(i) == SubSeq(seen, opener(i) + 1, i - 1)
      dwords(i) == SelectSeq(body(i), LAMBDA m : m.method = "INLINE_ARRAY")
      indices(i) == FlattenSeq([k \in DOMAIN body(i) |->
                      LET m == body(i)[k]
                      IN  CASE m.method = "ELEMENT16" -> <<Low(m.argument), High(m.argument)>>
                            [] m.method = "ELEMENT32" -> <<m.argument>>
                            [] OTHER -> <<>>])
      latest(i, r) == LET sets == {j \in 1 .. i : seen[j].method = r} IN IF sets = {} THEN 0 ELSE seen[Max(sets)].argument
      inOrder == SetToSortSeq(ends, LAMBDA a, b : a < b)
  IN  /\ Len(eng.draws) = Len(inOrder)
      /\ \A n \in DOMAIN inOrder :
           LET i == inOrder[n]
               d == eng.draws[n]
           IN  /\ \A r \in ShadingRegisters : d.shading[r] = latest(i, r)
               /\ d.primitive = Primitives[seen[opener(i)].argument]
               /\ d.inline = [k \in 1 .. Smaller(Len(dwords(i)), MAX_INLINE_DWORDS) |-> dwords(i)[k].argument]
               /\ IF Len(indices(i)) <= MAX_ELEMENTS THEN d.elements = indices(i) ELSE Len(d.elements) <= MAX_ELEMENTS

\* A walk ends, at PUT or abandoned, whatever the pushbuffer holds: jumps in a
\* circle and headers that send thousands of arguments spend its budget
\* (nv2a.rs submit_inner, MAX_DWORDS_PER_SUBMIT).
WalksEnd == walk.active ~> ~walk.active
=============================================================================
