------------------------------- MODULE Chunk --------------------------------
(***************************************************************************)
(* The chunk the compiler fills: the code and the constants in buffers     *)
(* that double, the offsets jumps are given before and after their targets *)
(* are known, the line records; and the two readers of the code, the       *)
(* machine and the disassembler, which step over an instruction by its     *)
(* opcode.                                                                 *)
(*                                                                         *)
(* A byte keeps how it was emitted, as an opcode or as an argument, which  *)
(* the buffer does not: the readers' steps are compared with it.  A        *)
(* multi-byte argument is its value in its first byte; no argument of a    *)
(* jump, a count of locals or a 16-bit index is so large that its last     *)
(* byte is not 0.                                                          *)
(*                                                                         *)
(* Of the instructions that are emitted alike one stands for all.  Left    *)
(* out are an opcode alone or an opcode with one short argument that an    *)
(* expression adds between the others (operators, calls, literals, this,   *)
(* a local read or assigned), what a constructor puts before its return,   *)
(* and the empty block, which is an error.  `open` holds what the C        *)
(* functions under way have still to patch, `at` what may come next in the *)
(* source; Compiler has the grammar.                                       *)
(***************************************************************************)
EXTENDS Integers, SequencesExt

CONSTANTS
  FirstCap,    \* 8: the capacity of a buffer that grows from 0
  ByteConsts,  \* UINT8_MAX: constants below it have a one-byte index
  Indices,     \* 65536: an index, and the capacity of the constants, is a uint16_t
  Registers,   \* bound of the model: the registers that are written
  MaxOps,      \* bound of the model: instructions, in sources of one line, two and so on
  MaxCaptured, \* bound of the model: variables that a function captures
  MaxOpen      \* bound of the model: constructs open at a time

OpOp == 28         \* OP_OP as a byte
Unpatched == 255   \* for 0xffffffff, which is past every target

ASSUME ChunkAssumption ==
  /\ FirstCap \in Nat /\ FirstCap > 4
  /\ ByteConsts \in Nat /\ Indices \in Nat /\ FirstCap < Indices
  \* Doubling leads from FirstCap to Indices.
  /\ \E S \in SUBSET (FirstCap .. Indices) :
       {FirstCap, Indices} \subseteq S /\ \A n \in S \ {Indices} : 2 * n \in S
  /\ Registers \subseteq Nat
  /\ MaxOps \in Seq(Nat) /\ MaxCaptured \in Nat /\ MaxOpen \in Nat

VARIABLES
  code,      \* c->code, opcount bytes of it; the first at 1
  capacity,  \* c->capacity
  lines,     \* the line records, [opstart, opend]
  consts,    \* c->consts: count and capacity
  open, at,
  ended      \* how the process was ended, if it was

vars == <<code, capacity, lines, consts, open, at, ended>>

opcount == Len(code)

Running == ended = "no"

Init ==
  /\ code = <<>> /\ capacity = 0
  /\ lines = <<[opstart |-> 0, opend |-> 0]>>
  /\ consts = [count |-> 0, capacity |-> 0]
  /\ open = <<>> /\ at = "body"
  /\ ended = "no"

-----------------------------------------------------------------------------
(* The buffers.  A buffer is [bytes, cap]. *)

Byte(o, n) == [op |-> o, arg |-> n, line |-> Len(lines)]

Op(o) == Byte(o, 0)

Arg(n) == Byte("-", n)

Wide(n, bytes) == [i \in 1 .. bytes |-> Arg(IF i = 1 THEN n ELSE 0)]

\* Slip: the buffer grows when it is overfull.
M_Grown(cap, needed) ==
  IF cap >= needed THEN cap ELSE IF cap < FirstCap THEN FirstCap ELSE 2 * cap

\* The capacity for opcode number `needed` and the bytes before it.
Grown(cap, needed) ==
  IF cap > needed THEN cap ELSE IF cap < FirstCap THEN FirstCap ELSE 2 * cap

chput(b, byte) ==
  [bytes |-> Append(b.bytes, byte), cap |-> Grown(b.cap, Len(b.bytes))]

chputn(b, bytes) ==
  [bytes |-> b.bytes \o bytes, cap |-> Grown(b.cap, Len(b.bytes) + Len(bytes))]

\* The capacity after puts one after another that ask for these lengths.
GrownFor(cap, needed) ==
  LET after[k \in 0 .. Len(needed)] == IF k = 0 THEN cap ELSE Grown(after[k - 1], needed[k])
  IN  after[Len(needed)]

chputs(b, bytes) ==
  [bytes |-> b.bytes \o bytes,
   cap |-> GrownFor(b.cap, [k \in 1 .. Len(bytes) |-> Len(b.bytes) + k - 1])]

\* Indices of two bytes, each put by a chputn, the last one first.
chputs16(b, indices) ==
  [bytes |-> b.bytes \o [k \in 1 .. 2 * Len(indices) |->
               Arg(IF k % 2 = 1 THEN indices[Len(indices) - k \div 2] ELSE 0)],
   cap |-> GrownFor(b.cap, [k \in 1 .. Len(indices) |-> Len(b.bytes) + 2 * k])]

\* Slip: the last byte is always taken away.
M_chunputif(b, o, other) == [b EXCEPT !.bytes = Front(@)]

\* Takes the last byte away if it is o, else puts the other.
chunputif(b, o, other) ==
  IF Last(b.bytes).op = o \/ (Last(b.bytes).op = "-" /\ Last(b.bytes).arg = OpOp)
    THEN [b EXCEPT !.bytes = Front(@)] ELSE chput(b, Op(other))

\* The operand is written without a look at the capacity.
jump_to(b, o, target) ==
  LET c == chput(b, Op(o))
  IN  [c EXCEPT !.bytes = @ \o Wide(Len(c.bytes) + 4 - target, 4)]

\* A jump whose operand is patched later.
emit_jump(b, o) == chputs(b, <<Op(o)>> \o Wide(Unpatched, 4))

\* Where the operand of the jump emitted last is.
JumpArg(b) == Len(b.bytes) - 4

\* The first byte that is patched is an argument then, whatever it was.
confirm_jump(b, offset) ==
  [b EXCEPT !.bytes[offset + 1] = [@ EXCEPT !.op = "-", !.arg = Len(b.bytes) - 4 - offset]]

Instructions(bytes) == Len(SelectSeq(bytes, LAMBDA byte : byte.op # "-"))

Buffer == [bytes |-> code, cap |-> capacity]

\* The bounds of the model: n lines may have this code.
InBounds(n, bytes) == n \in DOMAIN MaxOps /\ Instructions(bytes) <= MaxOps[n]

SetBuffer(b) ==
  /\ InBounds(Len(lines), b.bytes)
  /\ code' = b.bytes /\ capacity' = b.cap

-----------------------------------------------------------------------------
(* Constants. *)

\* The capacity for one more constant.
ConstCap ==
  IF consts.capacity > consts.count THEN consts.capacity
  ELSE IF consts.capacity < FirstCap THEN FirstCap ELSE (2 * consts.capacity) % Indices

\* realloc to no bytes answers NULL, and the process ends.
add_const ==
  IF ConstCap = 0 THEN ended' = "not enough memory" /\ UNCHANGED consts
  ELSE consts' = [count |-> consts.count + 1, capacity |-> ConstCap] /\ UNCHANGED ended

\* What __insert_op puts for the constant it has just added.
Inserted(b, op, op16) ==
  IF consts.count < ByteConsts THEN chputs(b, <<Op(op), Arg(consts.count)>>)
  ELSE IF consts.count = Indices - 1 THEN b
  ELSE chputn(chput(b, Op(op16)), Wide(consts.count, 2))

insert_op(b, op, op16) ==
  /\ add_const
  /\ IF ConstCap = 0 THEN UNCHANGED <<code, capacity>> ELSE SetBuffer(Inserted(b, op, op16))

-----------------------------------------------------------------------------
(* Lines. *)

\* Slip: the record of the line before is not closed.
M_NewLine ==
  /\ Running /\ InBounds(Len(lines) + 1, code)
  /\ lines' = Append(lines, [opstart |-> opcount, opend |-> 0])
  /\ UNCHANGED <<code, capacity, consts, open, at, ended>>

\* chputl: the next token begins a new line, and any token may, since advance looks at
\* the line of each; between the emissions of one action no token is read.
NewLine ==
  /\ Running /\ InBounds(Len(lines) + 1, code)
  /\ lines' = Append([lines EXCEPT ![Len(lines)].opend = opcount],
                     [opstart |-> opcount, opend |-> 0])
  /\ UNCHANGED <<code, capacity, consts, open, at, ended>>

-----------------------------------------------------------------------------
(* The emissions, in the order of the source.  An expression is to come in an  *)
(* "operand", has just ended in an "expression"; a statement is to come in a   *)
(* "body" and has just ended in a "statement"; a "clause" of a for, which may   *)
(* be empty, is to come.                                                       *)

Top == IF open = <<>> THEN [is |-> "source"] ELSE Last(open)

BeginsStatement == at = "body" \/ (at = "statement" /\ Top.is \in {"block", "source"})

BeginsExpression ==
  BeginsStatement \/ at = "operand" \/ (at = "clause" /\ Top.is \in {"for", "condition"})

\* The expression that ends or the declaration that comes is a statement of its own.
OfStatement == Top.is \in {"source", "block", "body", "for body"}

\* scope_depth is not 0: within a block, a function or a for.
InScope == \E i \in DOMAIN open : open[i].is \notin {"if", "tail", "loop", "body", "class"}

InFunction == \E i \in DOMAIN open : open[i].is = "function"

Push(c) == Len(open) < MaxOpen /\ open' = Append(open, c)

Pop == open' = Front(open)

Replace(c) == open' = Append(Front(open), c)

Emitted(b, next) ==
  /\ SetBuffer(b)
  /\ at' = next
  /\ UNCHANGED <<lines, consts, ended>>

\* A number or a string; a global that is read or assigned, a field.
Constant ==
  /\ Running /\ BeginsExpression
  /\ insert_op(Buffer, "OP_CONST", "OP_CONST_16")
  /\ at' = "expression"
  /\ UNCHANGED <<lines, open>>

EndStatement ==
  /\ Running /\ at = "expression" /\ OfStatement
  /\ Emitted(chput(Buffer, Op("OP_OP")), "statement")
  /\ UNCHANGED open

Declare(r) ==
  /\ Running /\ at = "expression" /\ OfStatement /\ InScope
  /\ Emitted(chputs(Buffer, <<Op("OP_PUT_8_WITH_POP"), Arg(r)>>), "statement")
  /\ UNCHANGED open

\* The register's number is not the last byte here.
DeclareVoid ==
  /\ Running /\ BeginsStatement /\ InScope
  /\ Emitted(chput(chputs(Buffer, <<Op("OP_PUT_8_VOID"), Arg(0)>>), Op("OP_OP")), "statement")
  /\ UNCHANGED open

DefineGlobal ==
  /\ Running /\ at = "expression" /\ OfStatement /\ ~InScope
  /\ insert_op(Buffer, "OP_DEFINE_GLOBAL", "OP_DEFINE_GLOBAL_16")
  /\ at' = "statement"
  /\ UNCHANGED <<lines, open>>

Return ==
  /\ Running /\ at = "expression" /\ Top.is \in {"block", "body", "for body"} /\ InFunction
  /\ Emitted(chput(chputn(chput(Buffer, Op("OP_COLLECT_LOCALS")), Wide(1, 2)), Op("OP_RETURN")),
             "statement")
  /\ UNCHANGED open

BeginIf ==
  /\ Running /\ at = "expression"
  /\ LET b == emit_jump(Buffer, "OP_JUMP_IF_FALSE")
     IN  Emitted(b, "operand") /\ Push([is |-> "if", arg |-> JumpArg(b)])

Else ==
  /\ Running /\ at = "expression" /\ Top.is = "if"
  /\ LET b == emit_jump(Buffer, "OP_JUMP")
     IN  /\ Emitted(confirm_jump(b, Top.arg), "operand")
         /\ Replace([is |-> "tail", arg |-> JumpArg(b)])

EndIf ==
  /\ Running /\ at = "expression" /\ Top.is = "if"
  /\ LET b == emit_jump(Buffer, "OP_JUMP")
     IN  Emitted(confirm_jump(chput(confirm_jump(b, Top.arg), Op("OP_LOAD_NOTHING")), JumpArg(b)),
                 "expression")
  /\ Pop

\* and, or: the second operand is skipped, or takes the place of the first.
BeginSecond ==
  /\ Running /\ at = "expression"
  /\ LET b == emit_jump(Buffer, "OP_JUMP_IF_FALSE_ONSTACK")
     IN  /\ Emitted(chput(b, Op("OP_OP")), "operand")
         /\ Push([is |-> "tail", arg |-> JumpArg(b)])

EndTail ==
  /\ Running /\ at = "expression" /\ Top.is = "tail"
  /\ Emitted(confirm_jump(Buffer, Top.arg), "expression")
  /\ Pop

\* A while.
BeginLoop ==
  /\ Running /\ BeginsStatement
  /\ Push([is |-> "loop", start |-> opcount])
  /\ at' = "operand"
  /\ UNCHANGED <<code, capacity, lines, consts, ended>>

LoopBody ==
  /\ Running /\ at = "expression" /\ Top.is = "loop"
  /\ LET b == emit_jump(Buffer, "OP_JUMP_IF_FALSE")
     IN  /\ Emitted(b, "body")
         /\ Replace([is |-> "body", start |-> Top.start, exit |-> JumpArg(b)])

BeginFor ==
  /\ Running /\ BeginsStatement
  /\ Push([is |-> "for"])
  /\ at' = "clause"
  /\ UNCHANGED <<code, capacity, lines, consts, ended>>

BeginCondition(b) ==
  /\ Emitted(b, "clause")
  /\ Replace([is |-> "condition", start |-> Len(b.bytes)])

\* Nothing, a variable without a value, an expression, or a variable with a value.
Initializer ==
  /\ Running /\ Top.is = "for"
  /\ \/ at = "clause" /\ BeginCondition(Buffer)
     \/ at = "clause" /\ BeginCondition(chputs(Buffer, <<Op("OP_PUT_8_VOID"), Arg(0)>>))
     \/ at = "expression" /\ BeginCondition(chput(Buffer, Op("OP_OP")))
     \/ at = "expression" /\ BeginCondition(chputs(Buffer, <<Op("OP_PUT_8"), Arg(0)>>))

\* `ex` stays 0, where no operand of a jump can be.
NoCondition ==
  /\ Running /\ at = "clause" /\ Top.is = "condition"
  /\ Replace([is |-> "clauses", start |-> Top.start, exit |-> 0])
  /\ UNCHANGED <<code, capacity, lines, consts, at, ended>>

EndCondition ==
  /\ Running /\ at = "expression" /\ Top.is = "condition"
  /\ LET b == emit_jump(Buffer, "OP_JUMP_IF_FALSE")
     IN  /\ Emitted(b, "clause")
         /\ Replace([is |-> "clauses", start |-> Top.start, exit |-> JumpArg(b)])

NoIncrement ==
  /\ Running /\ at = "clause" /\ Top.is = "clauses"
  /\ Replace([is |-> "for body", start |-> Top.start, exit |-> Top.exit])
  /\ at' = "body"
  /\ UNCHANGED <<code, capacity, lines, consts, ended>>

BeginIncrement ==
  /\ Running /\ at = "clause" /\ Top.is = "clauses"
  /\ LET b == emit_jump(Buffer, "OP_JUMP")
     IN  /\ Emitted(b, "operand")
         /\ Replace([is |-> "increment", start |-> Top.start, exit |-> Top.exit,
                     skip |-> JumpArg(b)])

EndIncrement ==
  /\ Running /\ at = "expression" /\ Top.is = "increment"
  /\ Emitted(confirm_jump(jump_to(chput(Buffer, Op("OP_OP")), "OP_JUMP_BACK", Top.start),
                          Top.skip),
             "body")
  /\ Replace([is |-> "for body", start |-> Top.skip + 4, exit |-> Top.exit])

\* Slip: a for is taken to have a condition.
M_EndLoop ==
  /\ Running /\ at = "statement" /\ Top.is \in {"body", "for body"}
  /\ Emitted(confirm_jump(jump_to(Buffer, "OP_JUMP_BACK", Top.start), Top.exit), "statement")
  /\ Pop

EndLoop ==
  /\ Running /\ at = "statement" /\ Top.is \in {"body", "for body"}
  /\ LET b == jump_to(Buffer, "OP_JUMP_BACK", Top.start)
     IN  Emitted(IF Top.exit = 0 THEN b ELSE confirm_jump(b, Top.exit), "statement")
  /\ Pop

BeginBlock ==
  /\ Running /\ BeginsExpression
  /\ Push([is |-> "block"])
  /\ at' = "body"
  /\ UNCHANGED <<code, capacity, lines, consts, ended>>

\* The value of the block is its last statement's, or nothing.
EndBlock ==
  /\ Running /\ at = "statement" /\ Top.is = "block"
  /\ Emitted(chputn(chput(chunputif(Buffer, "OP_OP", "OP_LOAD_NOTHING"), Op("OP_COLLECT_LOCALS")),
                    Wide(1, 2)), "expression")
  /\ Pop

BeginFunction ==
  /\ Running /\ BeginsExpression
  /\ LET b == emit_jump(Buffer, "OP_JUMP")
     IN  Emitted(b, "operand") /\ Push([is |-> "function", arg |-> JumpArg(b)])

EndFunction(captured) ==
  /\ Running /\ at = "expression" /\ Top.is = "function"
  /\ LET b == confirm_jump(chput(Buffer, Op("OP_RETURN")), Top.arg)
         c == Inserted(b, "OP_DECLARE_FUNCTION", "OP_DECLARE_FUNCTION_16")
     IN  /\ add_const
         /\ SetBuffer(IF ConstCap = 0 THEN b
                      ELSE chputs(c, <<Arg(captured)>> \o [i \in 1 .. captured |-> Arg(0)]))
  /\ Pop
  /\ at' = IF Len(open) > 1 /\ open[Len(open) - 1].is = "class" THEN "member" ELSE "expression"
  /\ UNCHANGED lines

BeginClass ==
  /\ Running /\ BeginsExpression
  /\ Push([is |-> "class", names |-> <<>>])
  /\ at' = "member"
  /\ UNCHANGED <<code, capacity, lines, consts, ended>>

\* The name is a constant that no instruction is put for.
BeginMethod ==
  /\ Running /\ at = "member" /\ Len(open) < MaxOpen
  /\ add_const
  /\ LET b == emit_jump(Buffer, "OP_JUMP")
     IN  IF ConstCap = 0 THEN UNCHANGED <<code, capacity, open>>
           ELSE /\ SetBuffer(b)
                /\ open' = Append(Append(Front(open),
                                         [Top EXCEPT !.names = Append(@, consts.count)]),
                                  [is |-> "function", arg |-> JumpArg(b)])
  /\ at' = "operand"
  /\ UNCHANGED lines

EndClass ==
  /\ Running /\ at = "member" /\ Top.names # <<>>
  /\ add_const
  /\ LET b == chput(Inserted(Buffer, "OP_DECLARE_CLASS", "OP_DECLARE_CLASS_16"), Arg(Len(Top.names)))
     IN  IF ConstCap = 0 THEN UNCHANGED <<code, capacity>>
           ELSE SetBuffer(chputs16(b, Top.names))
  /\ Pop
  /\ at' = "expression"
  /\ UNCHANGED lines

\* fin_chunk
EndOfSource ==
  /\ Running /\ BeginsStatement /\ open = <<>> /\ ended' = "compiled"
  /\ SetBuffer(chput(Buffer, Op("OP_EXIT")))
  /\ UNCHANGED <<lines, consts, open, at>>

Next ==
  \/ NewLine \/ Constant
  \/ EndStatement \/ DefineGlobal \/ Return
  \/ DeclareVoid \/ \E r \in Registers : Declare(r)
  \/ BeginIf \/ Else \/ EndIf \/ BeginSecond \/ EndTail
  \/ BeginLoop \/ LoopBody
  \/ BeginFor \/ Initializer \/ NoCondition \/ EndCondition
  \/ NoIncrement \/ BeginIncrement \/ EndIncrement
  \/ EndLoop
  \/ BeginBlock \/ EndBlock
  \/ BeginFunction
  \/ \E captured \in 0 .. MaxCaptured : EndFunction(captured)
  \/ BeginClass \/ BeginMethod \/ EndClass
  \/ EndOfSource

Spec == Init /\ [][Next]_vars

-----------------------------------------------------------------------------
(* The readers.  A row of a reader says of opcodes how many bytes of arguments *)
(* follow them: n, and for each unit of the nth, `each` more.                 *)

Row(ops, n, each) == [ops |-> ops, n |-> n, each |-> each]

\* run: the operators, literals and pops, which take their operands from the stack.
RunAlone ==
  {"OP_EXIT", "OP_FLOAT_UN_PLUS", "OP_FLOAT_NEGATE", "OP_LOGNOT", "OP_STRING_EQ", "OP_STR_CONC",
   "OP_LOAD_VOID", "OP_LOAD_NOTHING", "OP_LOAD_TRUTH", "OP_LOAD_LIES", "OP_NEQ", "OP_EQ",
   "OP_GTE", "OP_LTE", "OP_LT", "OP_GT", "OP_FLOAT_MULT_2", "OP_FLOAT_SUB", "OP_FLOAT_DIVIDE",
   "OP_FLOAT_SUM_2", "OP_INDEX_SET", "OP_INDEX_GET", "OP_RETURN", "OP_LOAD_THIS",
   "OP_OP_NOFREE", "OP_OP", "OP_FOR_LOOP", "OP_FOR_LOOP_END"}

RunAccesses ==
  {"OP_PUT_8_WITH_POP", "OP_LOAD_CLOSURE", "OP_PUT_CLOSURE", "OP_LOAD_LINK", "OP_PUT_LINK",
   "OP_PUT_8", "OP_LOAD_8", "OP_PUT_8_VOID", "OP_PUT_8_NOTHING"}

RunJumps ==
  {"OP_JUMP_BACK", "OP_JUMP", "OP_JUMP_IF_TRUE_ONSTACK", "OP_JUMP_IF_TRUE",
   "OP_JUMP_IF_FALSE_ONSTACK", "OP_JUMP_IF_FALSE"}

RunFrames == {"OP_COLLECT_LOCALS", "OP_CALL"}

RunGlobals ==
  {Row({"OP_LOAD_GLOBAL", "OP_DEFINE_GLOBAL", "OP_ASSIGN_GLOBAL"}, 1, 0),
   Row({"OP_LOAD_GLOBAL_16", "OP_DEFINE_GLOBAL_16", "OP_ASSIGN_GLOBAL_16"}, 2, 0)}

RunFields == {Row({"OP_SET", "OP_GET"}, 1, 0), Row({"OP_SET_16", "OP_GET_16"}, 2, 0)}

RunConstants == {Row({"OP_CONST"}, 1, 0), Row({"OP_CONST_16"}, 2, 0)}

\* A class with a wide index: neither the number of methods nor their names.
RunClasses == {Row({"OP_DECLARE_CLASS"}, 2, 2), Row({"OP_DECLARE_CLASS_16"}, 2, 0)}

RunFunctions == {Row({"OP_DECLARE_FUNCTION"}, 2, 1), Row({"OP_DECLARE_FUNCTION_16"}, 3, 1)}

Machine ==
  {Row(RunAlone, 0, 0), Row(RunAccesses, 1, 0), Row(RunJumps, 4, 0), Row(RunFrames, 2, 0)}
    \cup RunGlobals \cup RunFields \cup RunConstants \cup RunClasses \cup RunFunctions

Opcodes == UNION {row.ops : row \in Machine}

ShownFields == {Row({"OP_SET", "OP_GET"}, 1, 0), Row({"OP_SET_16", "OP_GET_16"}, 2, 0)}

\* OP_DECLARE_FUNCTION_16 has no case.
ShownDeclarations ==
  {Row({"OP_DECLARE_FUNCTION"}, 2, 1), Row({"OP_DECLARE_CLASS"}, 2, 2),
   Row({"OP_DECLARE_CLASS_16"}, 3, 2)}

ShownConstants == {Row({"OP_CONST"}, 1, 0), Row({"OP_CONST_16"}, 2, 0)}

ShownAlone ==
  {"OP_EXIT", "OP_FOR_LOOP", "OP_FOR_LOOP_END", "OP_FLOAT_NEGATE", "OP_FLOAT_UN_PLUS",
   "OP_FLOAT_SUM_2", "OP_FLOAT_SUB", "OP_FLOAT_MULT_2", "OP_FLOAT_DIVIDE", "OP_LOAD_TRUTH",
   "OP_LOAD_LIES", "OP_LOGNOT", "OP_LOAD_VOID", "OP_LOAD_NOTHING", "OP_EQ", "OP_NEQ", "OP_GT",
   "OP_GTE", "OP_LT", "OP_LTE", "OP_STR_CONC", "OP_STRING_EQ", "OP_OP_NOFREE", "OP_OP",
   "OP_LOAD_THIS", "OP_RETURN"}

ShownGlobals ==
  {Row({"OP_DEFINE_GLOBAL", "OP_LOAD_GLOBAL", "OP_ASSIGN_GLOBAL"}, 1, 0),
   Row({"OP_DEFINE_GLOBAL_16", "OP_LOAD_GLOBAL_16", "OP_ASSIGN_GLOBAL_16"}, 2, 0)}

ShownJumps ==
  {"OP_JUMP_IF_FALSE", "OP_JUMP_IF_TRUE", "OP_JUMP", "OP_JUMP_BACK", "OP_JUMP_IF_FALSE_ONSTACK",
   "OP_JUMP_IF_TRUE_ONSTACK"}

ShownAccesses ==
  {"OP_LOAD_CLOSURE", "OP_PUT_CLOSURE", "OP_LOAD_LINK", "OP_PUT_LINK", "OP_LOAD_8", "OP_PUT_8",
   "OP_PUT_8_WITH_POP", "OP_PUT_8_NOTHING", "OP_PUT_8_VOID"}

ShownFrames == {"OP_COLLECT_LOCALS", "OP_CALL"}

Shown ==
  {Row(ShownAlone, 0, 0), Row(ShownAccesses, 1, 0), Row(ShownJumps, 4, 0), Row(ShownFrames, 2, 0)}
    \cup ShownFields \cup ShownDeclarations \cup ShownConstants \cup ShownGlobals

\* What has no case is shown as unknown, and taken to be alone.
ShownUnknown == Row(Opcodes \ UNION {row.ops : row \in Shown}, 0, 0)

Disassembler == Shown \cup {ShownUnknown}

\* The length of the instruction at position i, as the reader takes it.
LengthAt(reader, i) ==
  LET row == CHOOSE row \in reader : code[i].op \in row.ops
  IN  1 + row.n + (IF row.each = 0 THEN 0 ELSE row.each * code[i + row.n].arg)

\* Where a reader comes by that starts at the first byte, as long as it meets opcodes.
Visited(reader) ==
  LET from[i \in Nat \ {0}] ==
        {i} \cup (IF i <= opcount /\ code[i].op # "-" THEN from[i + LengthAt(reader, i)] ELSE {})
  IN  from[1]

Emissions == {i \in 1 .. opcount : code[i].op # "-"} \cup {opcount + 1}

\* Where the machine goes on after the jump at position i.
Target(i) == i + 5 + (IF code[i].op = "OP_JUMP_BACK" THEN -1 ELSE 1) * code[i + 1].arg

\* Jumps whose operand is still to be patched.
Pending ==
  UNION {{open[k][m] : m \in DOMAIN open[k] \cap {"arg", "exit", "skip"}} : k \in DOMAIN open}

-----------------------------------------------------------------------------
(* Properties. *)

\* Types: code and constants are written inside their buffers, whatever the lengths they
\* grow by; only the operand of a jump back may lie past the end, and the next byte that is
\* put finds room for itself and that operand (chput, chputn, jump_to, __add_const).
TypeOK ==
  /\ \/ opcount <= capacity
     \/ opcount <= capacity + 4 /\ opcount > 4 /\ code[opcount - 4].op = "OP_JUMP_BACK"
  /\ capacity \in Nat
  /\ at \in {"operand", "expression", "clause", "body", "statement", "member"}
  /\ consts.count <= consts.capacity /\ consts.capacity < Indices
  /\ \A i \in 1 .. opcount : code[i].op \in Opcodes \cup {"-"} /\ code[i].arg \in Nat
  /\ ended \in {"no", "compiled", "not enough memory"}

\* A register's number was taken for OP_OP by chunputif.
ArgDropped ==
  \E i \in 1 .. opcount - 1 : code[i].op = "OP_PUT_8_WITH_POP" /\ code[i + 1].op # "-"

\* Functions and classes whose constant has a wide index.
WideDeclared ==
  \E i \in 1 .. opcount : code[i].op \in {"OP_DECLARE_FUNCTION_16", "OP_DECLARE_CLASS_16"}

\* The machine and the disassembler come by the instructions as they were emitted, and by
\* the end of the code, unless chunputif dropped an argument or a declaration is wide
\* (run, disassemble_chunk, and every chput of the compiler).
ReadAsEmitted ==
  ~ArgDropped /\ ~WideDeclared =>
    Visited(Machine) = Emissions /\ Visited(Disassembler) = Emissions

\* A jump, once patched, goes to an instruction or to where the next one will be put; a
\* block that takes its last OP_OP away moves no target (confirm_jump, jump_to, chunputif).
JumpsLand ==
  \A i \in 1 .. opcount :
    code[i].op \in RunJumps /\ i \notin Pending => Target(i) \in Emissions

\* The line record that __runtime_error finds for an instruction is the one of the line
\* it was compiled on, if a further line follows; only an OP_COLLECT_LOCALS put in place
\* of a dropped byte may be found on an earlier line (chputl, __find_lninfo_for_op).
LinesKept ==
  \A i \in 1 .. opcount :
    i <= lines[Len(lines)].opstart =>
      \E r \in DOMAIN lines :
        /\ lines[r].opstart < i /\ i <= lines[r].opend
        /\ code[i].op # "-" =>
             r = code[i].line \/ (r < code[i].line /\ code[i].op = "OP_COLLECT_LOCALS")
=============================================================================
