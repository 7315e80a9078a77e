---------------------------- MODULE Translator ----------------------------
(***************************************************************************)
(* The path from guest code to host code: the basic-block decoder          *)
(* (cpu/decode.rs), the register-only subset and its oracle (cpu/subset.rs *)
(* and cpu/interpret.rs), the planner and the emitter (jit/plan.rs and     *)
(* jit/emit.rs) and the dispatcher that runs an emitted block              *)
(* (jit/dispatch.rs). Host code is a sequence of micro-operations on a     *)
(* pointer to the guest's CPU state and the host's EAX, EDX and stack.     *)
(***************************************************************************)
EXTENDS Interpreter

CONSTANTS Blocks,          \* programs, as the interpreter's, to translate
          MaxInstructions, \* DecodeConfig.max_instructions
          MaxBlockBytes    \* DecodeConfig.max_bytes

VARIABLES guest,   \* the CPU state the host code points to
          host,    \* [eax, edx, stack, flags, at]
          block,   \* the decoded block, and the guest state it was entered with
          emitted  \* [ops, eip, exit, count, ranges]

translatorVars == <<guest, host, block, emitted>>

-----------------------------------------------------------------------------
(* Decoding *)

\* BasicBlockDecoder::decode over the bytes of a program, up to its exit.
FlowNext(i) == i.kind \notin BranchKinds
WindowEnd(p) == IF p.exit - p.eip <= MaxBlockBytes THEN p.exit ELSE p.eip + MaxBlockBytes
DecodeBlock(p) ==
    LET limit == WindowEnd(p)
        run[n \in 0 .. MaxInstructions] ==
          IF n = 0 THEN [list |-> <<>>, end |-> p.eip, stop |-> "open"]
          ELSE LET b == run[n - 1]
               IN  IF b.stop # "open" \/ b.end >= limit THEN b
                   ELSE IF b.end \notin DOMAIN p.code \/ b.end + p.code[b.end].len > limit
                        THEN [b EXCEPT !.stop = "invalid"]
                   ELSE LET i == p.code[b.end]
                        IN  [list |-> Append(b.list, i), end |-> b.end + i.len,
                             stop |-> IF FlowNext(i) THEN "open" ELSE "flow"]
        b == run[MaxInstructions]
    IN  IF b.stop # "open" THEN b
        ELSE [b EXCEPT !.stop = IF b.end < limit THEN "instructions"
                                ELSE IF limit < p.exit THEN "bytes" ELSE "input"]

-----------------------------------------------------------------------------
(* The register-only subset and its oracle *)

SubsetAlu == {"add", "sub", "and", "or", "xor"}
Gpr32(i, o) == i.w = "D" /\ o.k = "reg"
Source32(i) == i.w = "D" /\ i.src.k \in {"reg", "imm"}
\* classify_register_op, which is None for everything else.
RegisterOnly(i) ==
    \/ i.kind = "nop"
    \/ (i.kind = "mov" \/ (i.kind = "alu" /\ i.op \in SubsetAlu)) /\ Gpr32(i, i.dst) /\ Source32(i)

\* interpret.rs `apply`: its own formulas, all on 32 bits.
OracleFlags(op, a, b, r) ==
    ResultBits(r, "D")
    \cup When(op = "add" /\ r < a, "CF") \cup When(op = "sub" /\ a < b, "CF")
    \cup When(op \in {"add", "sub"} /\ NibbleCarry(a, b, r), "AF")
    \cup When(op = "add" /\ AddOverflow(a, b, r, "D"), "OF")
    \cup When(op = "sub" /\ Sign(a, "D") # Sign(b, "D") /\ Sign(a, "D") # Sign(r, "D"), "OF")
Computed(op, a, b) ==
    CASE op = "add" -> Dword(a + b) [] op = "sub" -> Dword(a - b)
      [] op = "and" -> a & b [] op = "or" -> a | b [] op = "xor" -> a ^^ b
DefinedFlagsAll(op) == ArithmeticFlags
DefinedFlags(op) == IF op \in {"add", "sub"} THEN ArithmeticFlags ELSE LogicDefined
OperandValue(s, o) == IF o.k = "reg" THEN s.gpr[o.r] ELSE o.value
ApplyRegisterOp(s, i) ==
    CASE i.kind = "nop" -> s
      [] i.kind = "mov" -> [s EXCEPT !.gpr[i.dst.r] = OperandValue(s, i.src)]
      [] i.kind = "alu" ->
           LET a == s.gpr[i.dst.r]
               b == OperandValue(s, i.src)
               r == Computed(i.op, a, b)
           IN  [s EXCEPT !.gpr[i.dst.r] = r,
                         !.flags = MergeFlags(@, DefinedFlags(i.op), OracleFlags(i.op, a, b, r))]
StepRegisterOnly(s, i) == [ApplyRegisterOp(s, i) EXCEPT !.eip = Dword(@ + i.len)]

-----------------------------------------------------------------------------
(* Planning and emitting *)

MemoryUsers == {"push", "pop", "pushad", "popad", "pushfd", "popfd", "leave", "string"}
UsesMemory(i) == i.kind \in MemoryUsers \/ i.dst.k = "mem" \/ i.src.k = "mem"
RewriteClass(i) == IF ~FlowNext(i) THEN "control" ELSE IF UsesMemory(i) THEN "memory" ELSE "native"

Micro(op, arg) == [m |-> op, arg |-> arg]
\* BlockAssembler::merge_flags
MergeOps(mask) == <<Micro("pop", "edx"), Micro("andEdx", mask), Micro("loadFlags", "eax"),
                    Micro("clearEax", mask), Micro("orEax", "edx"), Micro("storeFlags", "eax")>>
\* BlockAssembler::register_op: the flags are pushed before EAX is reused.
RegisterOps(i) ==
    CASE i.kind = "nop" -> <<Micro("nop", "none")>>
      [] i.kind = "mov" -> <<Micro("loadEax", i.src), Micro("storeEax", i.dst)>>
      [] i.kind = "alu" ->
           <<Micro("loadEax", i.dst)>>
           \o (IF i.src.k = "reg" THEN <<Micro("loadEdx", i.src), Micro("alu", [op |-> i.op, src |-> [k |-> "edx"]])>>
               ELSE <<Micro("alu", [op |-> i.op, src |-> i.src])>>)
           \o <<Micro("push", "flags"), Micro("storeEax", i.dst)>> \o MergeOps(DefinedFlags(i.op))
Epilogue(eip, exit) == <<Micro("storeEip", eip), Micro("exit", exit)>>

\* DirectEmitter::emit: the translated prefix, then the epilogue. A range is
\* the host operations of one guest instruction.
EmittedPrefix(b) ==
    LET failing == {k \in DOMAIN b.list : ~RegisterOnly(b.list[k])}
    IN  IF failing = {} THEN Len(b.list) ELSE (CHOOSE k \in failing : \A j \in failing : k <= j) - 1
ExitEip(p, b, n) == LET sum[k \in 0 .. n] == IF k = 0 THEN p.eip ELSE sum[k - 1] + b.list[k].len
                    IN  IF n = Len(b.list) THEN b.end ELSE sum[n]
Emit(p, b) ==
    LET n == EmittedPrefix(b)
        exit == IF n = Len(b.list) THEN "DirectSuccessor" ELSE "UnsupportedInstruction"
        ops[k \in 0 .. n] == IF k = 0 THEN <<>> ELSE ops[k - 1] \o RegisterOps(b.list[k])
    IN  [ops |-> ops[n] \o Epilogue(ExitEip(p, b, n), exit), count |-> n,
         ranges |-> [k \in 1 .. n |-> <<Len(ops[k - 1]) + 1, Len(ops[k])>>]]

-----------------------------------------------------------------------------
(* Running an emitted block *)

\* The host's own arithmetic (outside this repository): its flags are those
\* of the exact result, and logic leaves AF undefined.
HostFlags(op, a, b, r, af) ==
    LET signed(x) == Signed(x, "D")
        exact == IF op = "add" THEN signed(a) + signed(b) ELSE signed(a) - signed(b)
        low(x) == x % 2 ^ NibbleBits
    IN  ResultBits(r, "D")
        \cup (IF op \in {"add", "sub"}
              THEN When(IF op = "add" THEN a + b >= Size("D") ELSE a - b < 0, "CF")
                   \cup When(signed(r) # exact, "OF")
                   \cup When(IF op = "add" THEN low(a) + low(b) >= 2 ^ NibbleBits ELSE low(a) < low(b), "AF")
              ELSE af)

HostAlu(arg, af) ==
    LET b == IF arg.src.k = "edx" THEN host.edx ELSE arg.src.value
        r == Computed(arg.op, host.eax, b)
    IN  host' = [host EXCEPT !.eax = r, !.flags = HostFlags(arg.op, host.eax, b, r, af), !.at = @ + 1]

Advance(h) == [h EXCEPT !.at = @ + 1]
HostStep ==
    /\ host.at <= Len(emitted.ops)
    /\ LET o == emitted.ops[host.at]
           g == guest
       IN  CASE o.m = "alu" -> (\E af \in {{}, {"AF"}} : HostAlu(o.arg, af)) /\ UNCHANGED guest
             [] o.m = "storeEax"   -> guest' = [g EXCEPT !.gpr[o.arg.r] = host.eax] /\ host' = Advance(host)
             [] o.m = "storeFlags" -> guest' = [g EXCEPT !.flags = host.eax] /\ host' = Advance(host)
             [] o.m = "storeEip"   -> guest' = [g EXCEPT !.eip = o.arg] /\ host' = Advance(host)
             [] OTHER -> UNCHANGED guest /\ host' = Advance(
                  CASE o.m \in {"nop", "exit"} -> host
                    [] o.m = "loadEax"  -> [host EXCEPT !.eax = OperandValue(g, o.arg)]
                    [] o.m = "loadEdx"  -> [host EXCEPT !.edx = OperandValue(g, o.arg)]
                    [] o.m = "push"     -> [host EXCEPT !.stack = Append(@, host.flags)]
                    [] o.m = "pop"      -> [host EXCEPT !.stack = SubSeq(@, 1, Len(@) - 1), !.edx = host.stack[Len(host.stack)]]
                    [] o.m = "andEdx"   -> [host EXCEPT !.edx = @ \cap o.arg]
                    [] o.m = "loadFlags" -> [host EXCEPT !.eax = g.flags]
                    [] o.m = "clearEax" -> [host EXCEPT !.eax = @ \ o.arg]
                    [] o.m = "orEax"    -> [host EXCEPT !.eax = @ \cup host.edx])
    /\ UNCHANGED <<block, emitted>>

TranslatorInit ==
    \E p \in Blocks :
        LET b == DecodeBlock(p)
            usable == b.stop # "invalid" /\ b.list # <<>>
        IN  /\ guest = p
            /\ block = [list |-> b.list, end |-> b.end, stop |-> b.stop, entry |-> p]
            /\ emitted = IF usable THEN Emit(p, b) ELSE [ops |-> <<>>, count |-> 0, ranges |-> <<>>]
            /\ host = [eax |-> 0, edx |-> 0, stack |-> <<>>, flags |-> {}, at |-> 1]
TranslatorNext == HostStep

-----------------------------------------------------------------------------
(* Properties *)

BlockReturned == emitted.ops # <<>> /\ host.at > Len(emitted.ops)
SameRegisters(s, t) == s.gpr = t.gpr /\ s.flags = t.flags
SameCpu(s, t) == SameRegisters(s, t) /\ s.eip = t.eip
Stepped(Op(_, _), n) ==
    LET run[k \in 0 .. n] == IF k = 0 THEN block.entry ELSE Op(run[k - 1], block.list[k]) IN run[n]

\* An emitted block returns with the registers and flags of the oracle
\* step_register_only and of the interpreter's own step, whatever the host
\* leaves in the flags its operation does not define.
RegistersAgree ==
    BlockReturned =>
        /\ SameRegisters(guest, Stepped(StepRegisterOnly, emitted.count))
        /\ SameRegisters(guest, Stepped(LAMBDA s, i : StepOnce(s), emitted.count))
        /\ host.stack = <<>>

\* Where an emitted block reports an unsupported instruction, the interpreter
\* goes on from the reported EIP to the end of the decoded block and ends
\* where it would have without the block.
ExitsResume ==
    BlockReturned =>
        LET rest[k \in 0 .. Len(block.list) - emitted.count] == IF k = 0 THEN guest ELSE StepOnce(rest[k - 1])
            Resumes(done) == /\ SameCpu(done, Stepped(LAMBDA s, i : StepOnce(s), Len(block.list)))
                             /\ block.stop = "flow" \/ done.eip = block.end
        IN  Resumes(rest[Len(block.list) - emitted.count])

\* The emitter never translates an instruction the planner would send to the
\* memory or control-flow lowering, and its source ranges tile the code before
\* the epilogue (BlockSourceMap refuses overlapping or empty ranges).
EmissionWithinPlan ==
    /\ \A k \in 1 .. emitted.count : RewriteClass(block.list[k]) = "native"
    /\ \A k \in 1 .. emitted.count :
          /\ emitted.ranges[k][1] <= emitted.ranges[k][2]
          /\ emitted.ranges[k][1] = IF k = 1 THEN 1 ELSE emitted.ranges[k - 1][2] + 1

\* A translated block, and the interpreter after it, leave the guest as
\* interpreting it all would have, and emitter and planner agree on what is
\* translated (the clauses above).
TranslationAgrees == RegistersAgree /\ ExitsResume /\ EmissionWithinPlan
=============================================================================
