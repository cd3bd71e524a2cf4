# TLA+ verification of guru

guru is a small bytecode language in C: a scanner, a one-pass Pratt compiler that
emits code into a chunk, a virtual machine that runs the chunk, and under both an
allocator with a collector and a hash map. Everything runs in one thread. What makes it
hard is not concurrency but long sequences of legal calls: a pool that is cut
and merged in every order, a table that is rehashed in the middle of an insertion, frames that are cut
out of one register file by counts the compiler made, code whose bytes are taken back and patched,
reference counts kept by hand.

This directory holds TLA+ modules for those parts, TLC runs that check them on small
instances, and TLAPS proofs for every size.

## Inventory

| Component | State | Operations | What makes it correct |
|---|---|---|---|
| Blob pool (`value.c`) | the region between `start` and `cap`, a header (`len`, `rc`, tag) in front of each blob, `__first_free_offset` | `__alloc_blob`, `__gc_collect`, `obtake`, `obfree` | blobs tile the region; a blob in use is not moved, cut or handed out; a free blob can be found; an allocation ends, and ends the process only when there is no room |
| Hash map (`hashmap.c`) | the table, `cap`, `len`, a vacant/unset/used mark per slot | `set_val`, `get_val`, `unset_val`, `__rehash` | it is a map; every call ends |
| Globals and interned strings (`value.c`) | two hash maps keyed by names, blobs of the pool | `set_global`, `get_global`, `get_int_str`, clean-up when a count drops | a name has one value; an interned string is alive as long as it can be found |
| Reference counts (`value.c`, `vm.c`) | `rc` of each header | `obtake`, `obfree` at each opcode | no blob is free while a register, operand, global or field refers to it |
| Classes and instances (`object.c`) | per instance a hash map of fields, per class its methods | `take_instance`, `get_field`, `set_field`, OP_GET, OP_SET | a method runs with the instance it was read from |
| Call frames (`vm.c`, `compiler.c`, `compiler_utils.c`) | the register file `r`, `current_frame_offset` | OP_CALL, OP_RETURN, the stores to registers | a call's registers are its own; a return finds its caller |
| Virtual machine (`vm.c`) | operand stack, `ip`, frame offset, error flag | `run`, one case per opcode | pops match pushes, jumps land on instructions, an error stops the program |
| Compiler (`compiler.c`) | token now and then, block depth, state flags | `compile`, the statement and expression functions | it emits code whose stack effect is balanced on every path; forward jumps are confirmed |
| Scopes and locals (`compiler_utils.c`) | `locals`, `local_count`, `scope_depth`, a stack of register counters, closures | `__loc_var_decl`, `__begin_scope`, `__end_scope`, `__add_local`-style look-up, links | a name is resolved as lexical scoping says, to a register that holds it |
| Code chunk and constants (`bytecode.c`, `value.c`) | growing buffers of code, constants, line records | `chput`, `chputn`, `chunputif`, `jump_to`, constant insertion | writes stay in the buffer, an index fits its operand |
| Scanner (`scanner.c`) | the index in the source, the line | `scgett` | nothing of the source is lost, nothing behind it is read, a call ends |
| Disassembler (`debug.c`) | none | `disassemble_chunk` | it steps through the code as the machine does |
| Natives (`ffi.c`) | none of their own | file output, `garbage_collect` | the collector may run between any two instructions |
| Entry, tests | | | not modelled, see below |

How they interact. The compiler calls the chunk, the scopes and, for every name and
string, the interned-string map, which allocates from the pool. The machine calls the pool
for strings, callables, classes and instances, and the maps for globals and fields.
The pool calls nobody. `__gc_collect` runs inside `__alloc_blob` when the search reaches the
end, and from the native `garbage_collect`. The compiler and the machine share the chunk
only, but the code carries compile-time counts (number of locals, register numbers, link
or plain) that the machine trusts.

Hard behaviours. No crash recovery and no concurrency: nothing is persisted and there is
one thread. What is left: sequences (cut, merge, rehash, nested calls, blocks), boundaries
(tight tails, full tables, 8- and 16-bit counters that wrap), values used after what they
were computed from has changed (an index across a rehash), and loops without a bound that
have to end. `PROJECT.json` lists each hazard at its line.

## Modules

| Module | Models | How it corresponds to the code |
|---|---|---|
| `BlobPool` | `__alloc_blob`, `__gc_collect`, the effect of `obtake`/`obfree` on a header | one action per turn of a loop; `pc` says which loop. `len` and `rc` map the offset of each header to its fields, so that their domain is the set of headers; `ffo` is `__first_free_offset`; sizes are bytes, the region's and the header's are constants |
| `BlobSpace` | what the pool promises: disjoint extents that do not move | abstract specification of `BlobPool` |
| `BlobPoolProofs` | | proofs about `BlobPool` |
| `HashMap` | `set_val`, `get_val`, `unset_val`, `__rehash` and the recursion between `set_val` and `__rehash` | one action per probe; a stack holds the C frames with the locals that survive a call (the index, the key, the old table). A key is a model value with a hash; `Extends` says which stored key begins with which searched one, which is what `memcmp` sees |
| `KeyMap` | what a map promises | abstract specification of `HashMap` |
| `HashMapProofs` | | proofs about `HashMap` |
| `CallFrames` | OP_CALL, OP_RETURN, OP_PUT_8 and the compile-time counts they rest on | registers and offset are the machine's; `acts` holds what the compiler knew at each point (live locals, register counter) and where the frame is, neither of which the program keeps |
| `CallStack` | a stack of activations | abstract specification of `CallFrames` |
| `CallFramesProofs` | | proofs about `CallFrames` |
| `Scopes` | `locals`, `local_count`, `scope_depth`, the counters of `stack`, the captures, and `__comp_identifier` with `resolve_local` | one action per place where the compiler changes them, in the order a source makes it: declaring, completing, beginning and ending a block or a function literal, a use, an assignment around its right-hand side. `ThisNames` are the names that begin with `this`, which `__comp_identifier` looks at before any local. `open` is the C stack of the constructs under way; `code` is the access emitted last |
| `LexicalScope` | which declaration a name means, and which names mean the receiver | abstract specification of `Scopes` |
| `ScopesProofs` | | proofs about `Scopes` |
| `Compiler` | `compile` and every statement and expression function | a pushdown automaton: `work` is the C stack, one step is the code between two calls. A token is one of 26 kinds, those with the same rule are one. Of the code there is the point of emission: operand height, reachable or not, the last byte, what has gone wrong. What an instruction takes and leaves is read from its case in `run` (`Operators`, `Registers`, ...) |
| `CompilerProofs` | | proofs about `Compiler` |
| `Chunk` | `chput`, `chputn`, `chunputif`, `chputl`, `jump_to`, `emit_jump`, `confirm_jump`, `__insert_op`, `__add_const`, and for each opcode how far `run` and `disassemble_chunk` step | one action per place where a construct emits code or patches it. A byte keeps whether it was put as an opcode, which the buffer does not: that is what the readers' steps are compared with. `open` is the C stack, with the offsets still to patch; `at` is what may come next in the source, so that each clause of a `for` may be empty. A line may begin between any two actions, as `advance` looks at the line of every token |
| `Scanner` | `scgett` | the loop over blanks and comments takes one step per turn, a token one step; a character is its class |
| `SourceProofs` | | proofs about `Chunk` and about `Scanner`, whose `ScanInit`, `ScanNext`, `ScanSpec` and `ScanTypeOK` are so named to stand beside `Chunk`'s |
| `Methods` | OP_GET, OP_SET, OP_CALL of functions, methods and classes, OP_LOAD_THIS, OP_RETURN, and the error flag | one action per instruction and outcome. `this` is the member of the callable that all instances of a class share; `of`, beside each method read and each activation, is the instance meant, which the program does not keep |
| `MethodsProofs` | | proofs about `Methods` |
| `Closures` | links: what `resolve_local` decides when an access is compiled, what OP_DECLARE_FUNCTION, OP_LOAD_LINK, OP_PUT_LINK, OP_LOAD_8 and OP_PUT_8 do when it is run | first the actions compile a body, as the compiler does, then they run it, any number of times, one action per instruction. A value is the number of the store that made it; `vals` holds what each variable should have. A link is named for the evaluation that made it, as an address nobody gives back |
| `ClosuresProofs` | | proofs about `Closures` |

The `MC*` modules and the `.cfg` files give the constants values for TLC. Definitions
that begin with `M_` are slips that a later edit of the code could make; each property of a passing
run is shown to fail under one of them.

## Runs

| Run | Configuration | Shows |
|---|---|---|
| `pool` | a region of 14 bytes, headers of 2, requests of 1 to 3, counts up to 2 | types, tiling, no lost free block, complete merges, the over-read only past a tight tail, exits only when nothing fits before the merge, every allocation ends, `BlobSpace` |
| `map` | capacity large enough not to grow, nothing unset; colliding keys, wrap-around | every set key is found, `KeyMap` |
| `map_grow` | capacity from 4 to 16, `unset_val` and a key that another one begins with, a rehash inside a rehash | bounds, `len` covers the used slots, every call ends |
| `frames` | offset of 12 instead of 256, two functions, no block ends inside a function | activations share no register; `CallStack` |
| `frames_return` | blocks too | types; every return finds its caller, even where locals are overwritten |
| `scopes` | everything inside a function | types, the locals are those of the open scopes; no two live locals share a register; a load names the register that was stored to; a captured name is in the function's own list; while no block has ended, the register moved to the heap is the variable's; `LexicalScope`, with a name that begins with `this` among the names |
| `compiler` | all tokens, sources up to their first error, no quirk | operands suffice, each member has its name, paths agree, a return leaves one value, statements leave none, an accepted source has closed its brackets |
| `compiler_ends` | 17 of the tokens, what is compiled after errors too | at the end of the source the compiler ends, unless it is in a block or a class literal |
| `chunk` | up to 9 opcodes with their arguments on one line, 6 on two and 5 on three, lines that begin anywhere, two constructs open, buffers that begin at 5, two indices of one byte and eight of two | code and constants stay in their buffers; the machine and the disassembler step through the code as it was emitted, a byte taken back or not; a patched jump lands on an instruction, and a `for` without a condition patches none; an instruction is found on the line it was compiled on |
| `scanner` | every text of up to four characters of ten classes | nothing behind the text is read, nothing of it lost, the end is reached |
| `methods` | two classes, two instances, three activations | `this` is the instance the method was read from |
| `closures` | two locals, three functions, bodies of six instructions with a branch or a loop, run repeatedly | an access compiled for a link meets a link; a captured variable stays one variable |

### Bounds

*Pool.* A header of 2 bytes and requests of 1 to 3 instead of 16 and up: up to five
headers fit. Three adjacent blocks are enough for a merge of a run, a block on either side of
it, and a tail too short for a header; all three occur, the last one in `OverrunOnlyPastTightTail`'s premise.

*Hash map.* Three keys, two with the last slot as home and the third with the first, collide
and wrap around; `map_grow` reaches a rehash that an insertion of a rehash triggers. `MaxCap`
stops the growth where another doubling would repeat the one before.

*Frames.* With `Width` 12 three activations fit below the width (a frame without
locals is 4 registers), which is enough for caller, callee and callee's callee. `MaxFrame`
is the largest offset a call may ask for, in both runs below the width: the code has no such limit
(see Disagreements). `MaxLocals` 2 allows a local before a block and one after.

*Chunk.* The capacities of the code are 5, 10, 20 and so on: the first growth comes within every construct and the
second within most. `ByteConsts` 2 and `Indices` 10 stand for 255 and 65536: a capacity that doubles reaches 0 as the code's
does. Nine opcodes (`MaxOps`) are what a `for` with a condition, an increment and a body takes.
Three lines are what the records need at the end of a block: one before and one behind the byte that is taken back; such sources are given fewer opcodes. `Registers` has one number that is not OP_OP's and the one that is, and a
function captures up to one variable (`MaxCaptured`). Two constructs inside each other meet at each patch.

*Scanner.* Each decision of `scgett` looks at the next character or the one behind it; four characters are enough for
a token with both, after another one, or a comment, the end of its line and what follows.

*Methods.* Two instances are the least that can be confused, and three activations allow a method to call one of the same
name on the other object and go on. The method of one parameter can be given a method of the other object.

*Closures.* Two locals, one captured by two functions or both by one, in a branch or a loop, in bodies that run again in the registers of
the first run. `Offsets` is the one of a function called outside of functions (see Disagreements).

*Scopes.* The bounds (`MCScopes.cfg`) allow a function in a function, a block in each, and names that shadow each other:
two, and a third that begins with `this` (`ThisNames`).
`Width` stands for the 256 values of a register number. `Lines` are those `locals[-1].depth` can show: beyond any
depth, as in a source that begins with more lines than it nests scopes.

*Compiler.* The source is any sequence of tokens, so the bounds are of nesting only: `MaxDepth` 2 expressions inside
each other, three around a block or a function literal (`MaxBodies`), one loop in another's place, calls of two
arguments, classes of two methods. Each construct thus appears inside each other one and with a statement around and
within it. The length of a source, and of each list of statements, is not bounded. After an error (`compiler_ends`) the
code is no longer looked at, and 17 tokens are enough to reach each loop of the recovery: the operators left out add
expressions and no loop.

`Quirks` names the constructs whose code is known not to balance (see Disagreements); the runs have
none of them, and with any one of them the property named there fails. All that `compiler` shows, and all that is proved of it, is of
sources without them: `return`, for one, comes only where the function has no operand in the block around (`BlockAtBase`).

### Fairness

`AllocReturns`, `Returns`, `EndsOutsideBraces` and `ReachesEnd` need some; `Compiler` and `Scanner` assume weak fairness of their next step, since
`compile` and `scgett` run in one thread and wait for nothing: the compiler asks for tokens until the end. The other two assume weak fairness of the steps inside
a call (`__alloc_blob` with its collection; the map's operations): the program has
one thread and a call runs without interruption until it returns. That a client calls at all is not assumed.

`CallFrames` is checked with `CHECK_DEADLOCK FALSE`: `run` returns `RESULT_RERR` after an error and the
program stops. `BlobPool` may stop where the process exits, and `Scopes` at a compile error. `Methods` stops at an error like
`CallFrames`, `Chunk` when the source has been compiled or memory is out, `Scanner` after the end of the text, `Closures` after an access
out of order or when a bound is reached.

## What is proved

Each proof module names an inductive invariant and shows that it holds at the start, that each action keeps it,
and that it implies the property. None of the theorems has a bound: the sizes are the constants, under the `ASSUME` of
the module that declares them and the hypotheses named here.

`BlobPoolProofs`, for every region, header size and set of request sizes (at least 1):

* `PoolTypes`, `PoolTiled`, `PoolSearchCoversFree`: types; walking from the start
  by `__next_blob` meets every header and reaches exactly `cap`; no free blob lies below
  `__first_free_offset`.
* `PoolImplementsBlobSpace`: the refinement to `BlobSpace`.
* `PoolFullyMerged`, `PoolOverrun`, `PoolGiveUpJustified`: after a collection no two free blobs are neighbours; what
  is read past the region is read past a tail that is too short for a header; after a pass that saw free memory the process exits only
  when no block of the merged pool holds the request.

The first invariant is `IInv == TypeOK /\ Tiled /\ Cursor`. Tiling alone is not inductive: a
collector step merges the block at its cursor into `prev` and keeps the tiling only if the cursor is the
offset of a header, `prev` ends where it begins, and `prev` is free. That is `Cursor`, with the fact that
nothing moves `__first_free_offset` from 0. `CInv` adds what a pass has seen so far: below the cursor no two free
blobs meet, and the search has found nothing large enough before it. The clients are assumed to count references to blocks
in use only. The machine's instructions do not keep to that (see Not modelled).

`CallFramesProofs`, for every set of functions, every width, and every depth, under
`Limits`: no call asks for an offset past the width, and locals around and inside a
function plus four stay below it. The code does not check these.

* `FramesTypes`, `FramesReturn`: types, and every return finds its caller,
  blocks or not. The invariant is `Frames == TypeOK /\ Small /\ Stacked /\ ReturnsToCaller`. `ReturnsToCaller` is about
  register contents and is not inductive: a callee's writes keep the return registers below only because
  its frame begins after them, which is `Stacked`; and `Stacked` is kept by a call only because the
  number of live locals does not exceed what was declared (`Small`), so the frame step does not wrap.
* `FramesAreApart`, `FramesImplementCallStack`, with `~Blocks`: then the live locals have the
  first registers (`Dense`), the count in the frame step covers them, and registers of different activations are disjoint.
  With blocks `Dense` fails, and so does the theorem.

`HashMapProofs`, for every set of keys with any hashes and every capacity:

* `MapTypes`, `MapLenCoversUsed`: types, and `len` is not below the number of used slots, growth, rehashes inside a
  rehash and unset slots included. An insertion may have counted an entry that it has yet to write, and a rehash has several of
  them on the C stack: `Counted` adds these to the used slots, `Shape` says what a frame can be while the
  table has its size.
* `MapFindable`, `MapImplementsKeyMap` under `Steady`: the table does not grow, no key is unset and none begins with another. Then
  `Probing` holds: every slot from a key's home to where it is stored is used by another key. Each
  of the three conditions is necessary (see Disagreements). `Probing` is inductive with the bound on the load that makes
  `set_val` grow the table, so that no search goes round.

`ScopesProofs`, for any names, nesting and number of locals, under `Limits`: all locals are in functions, no scope ends on a line whose number
is a depth, and the framed index of a local fits a byte. The first two keep out the items of
Disagreements; the third is the width the code takes for granted.

* `ScopesTypes`, `ScopesRegistersApart`, `ScopesLoadStored`: indices fit; live locals of a function have different
  registers and no later declaration gets one of them; a load or store names the register of its declaration.
* `ScopesSlotOfOwnList`, `ScopesCapturesItsRegister`, with at most two functions inside each other: an access to a captured variable finds it in its own function's list; and,
  while no block has ended, the register that is moved is the variable's. With three both are false.
* `ScopesImplementLexicalScope`: the refinement to `LexicalScope`, with any number of functions inside each other. The beginning of a scope
  maps to `Enter`, its end to `Leave`, the point where a declaration is complete to `Introduce`, an instruction for a variable to `Access`, one
  for the receiver to `Receive`, the rest to `Other`, which changes no scope. A name that begins with `this` means the receiver even where a variable of that name
  is declared, and is never assigned; every other name means the innermost variable whose declaration is complete.

The array of locals says nothing of the constructs they belong to, yet `__end_scope` drops the right ones only if those of the scope
are the last. `IInv` is therefore about a function `own`, from locals to the constructs open: it does not decrease
along the array and gives each local its depth and its function (`Placed`); the variable of an assignment under way belongs to a construct
further out, so that it outlives the right-hand side, and stays captured (`Assigned`). `Registers` says that the registers
of a function go up with its locals, `Captures` that a list names live outer variables, each once. For the
refinement the names matter too: `Meant` says that no two variables of a scope have the same one, the one being declared included, and that what an
assignment under way has resolved is still what its name means when it is stored: what its right-hand side declared has ended by then. It also says that this name does not begin with `this`.

`MethodsProofs`, for any classes, instances, methods and depth of calls: `MethodsTypes`, and `MethodsKeepReceiver` without `Overlaps`. The invariant of
the second says of each method value on the stack or among the arguments of an activation that the callable's `this` is still the object it was read
from; an activation has copied it, so it is free to change after the call.

`SourceProofs`, the two ends of compiling. Of `Scanner`, for every text of every length: `ScannerTypes` (nothing behind the NUL is read but after a last '#'; each line is counted once) and
`ScannerSkipsBlanksOnly`. The invariant adds `Looking`: the character looked at is the one at the cursor, while the loop looks for a token.

Of `Chunk`, for every nesting of constructs, each clause of a `for` empty or not, and any number of opcodes, lines, constants, captured variables and methods: `Types`, `Reading`, `Landing` and
`LineRecords`, the properties of the run `chunk`. A line may begin anywhere in the source. The invariant is `IInv == Source /\ Room /\ Constants /\ Records /\ Recorded(code) /\ States`:

* `Source`: every opcode put begins an instruction of its own length (`Whole`) and is followed by where one begins or will,
  unless it is one that the readers take for another length (`Odd`, which are `ArgDropped` and `WideDeclared`). What a construct under way keeps on the C stack
  is a jump not yet patched or the beginning of an instruction (`Holds`), and every other jump has `Landed`. The exit
  of a `for` without a condition is 0, which no operand's offset is, since an opcode comes before it. `chunputif` takes a byte
  back at the end of a block, without looking at what comes before it. It keeps all of this because of what the statement before ended with (`Ended`): an OP_OP to which no jump leads and at which no loop
  begins (`Fresh`), the register of a declaration, or a byte it does not take for OP_OP.
* `Room`: the bytes are inside of their buffer but for the operand of a jump back, which `jump_to` writes past it by up to four bytes and for which the next
  put makes room. A buffer taken at any time within an action is at most four bytes over (`Work`), so one doubling is always enough.
* `Constants`: the capacities are those that doubling leads through from the first one, or 0 after the last. This is why it never is 65536.
* `Recorded`: a byte lies in the record of the line it was compiled on, or it is the OP_COLLECT_LOCALS put where the byte taken back was the first of its
  line: then its line is the one before. `Records` says that the records follow each other without a gap.

`ReadAsEmitted` is about what a reader meets from the first byte on, by steps of the length its own table says. `Reads` says of a table that it has
the length of every opcode that is emitted, and that it has one only (`MachineReads`, `DisassemblerReads`). The steps then lead from each beginning of an instruction
to the next one (`Follows`). So from each beginning a reader meets just those that are not before it (`VisitedAll`): if there were others, the last of them would
lead to one of which it is true.

`CompilerProofs`, for every source of every length and nesting without a construct of `Quirks`: `Suffice`, `Agree`, `OneResult`, `Balance`
and `TypeCorrect`, the properties of the run `compiler` (its bounds are constants, and the theorems are for all values of them).

What is under way says nothing of the stack it expects, so the height cannot be read off a state. The invariant gives
it: before each item of `work` there is an expected point (`Ready`), with the height of the stack, that of
the innermost block, the brackets that are open, and whether an expression has just ended; and each item leads from its point to the next
one (`Leads`). An expression leads to one operand more, a statement to none, the end of a function's body comes where there is one, and a jump
that an item still has to confirm or go back by left the height that is met there (`Lands`). The point of emission is at the first of these heights or
cannot be reached (`Fits`). Each action is a lemma: its items, with points of their own, fit between the point where the old one
was and the one it led to. What is saved and put back by an expression (`Base`) is kept with any `Quirks`.

`ClosuresProofs`, for bodies of any length, any nesting, any number of calls and functions: `ClosuresLinkMeetsLink` and `ClosuresShared`, where the
function is called outside of functions (`Offsets = {Home}`; see Disagreements for others).

`CodeInv` is about what has been compiled: constructs lie inside each other (`WellNested`), a jump back leads to its own head, and each use comes
after a declaration that every way to it passes (`Covers`). `RunInv` follows the machine through it: wherever a declaration covers
the next instruction the variable is there (`Reached`), whatever jumps were taken. The rest is about who shares: `Bonds` are all pairs
of a link, in a function or in a register, and the variable it stands for. No link is in two of them with different variables and no variable with different
links (`Paired`); a variable that has not moved is in none, and in its own register only (`Alone`). A capture adds a bond for each
variable it moves, a store goes through one bond, and a declaration leaves those of the turn before to the functions that have them.

Only model-checked: liveness, which needs ENABLED (`AllocReturns`, `Returns`, `ReachesEnd`, `EndsOutsideBraces`). The safety properties and the
refinements that the runs check are all proved.

## Disagreements

Met while modelling, and seen in the program itself or in its source. Where an item begins with a constant or a definition of a
module, that is what keeps it out of the runs; changed, it brings it in, and the property named fails.

Memory and maps:

* The premise `gcFree # 0` of `GiveUpJustified` (`BlobPool`): the collector counts only the first block of a free run, before the
  merge (`value.c:235`), and the allocator exits when two totals are equal (`value.c:87`). A first pass that counts
  nothing ends the process although the merged block would fit.
* `UnsetKeys` with a table that cannot grow (`MCHashMap.cfg`): `set_val` reuses an unset slot without looking further; the
  key is stored twice and comes back after `unset_val` (`hashmap.c:92`). `KeyMap` fails.
* `Extends` (`MCHashMap.cfg`): keys are compared over the searched key's length (`hashmap.c:117`): with the default capacity
  `var age = 1; var a = 2;` makes one global. `KeyMap` fails.
* `MaxCap` above `InitialCap` (`MCHashMap.cfg`): the entry whose insertion makes the table grow is put where the smaller table had
  its place (`hashmap.c:96`), and is not found again. `Findable` fails. `test/hashmap_test.c` begins with tables large enough.
* Counts: a constant or a register is pushed without `obtake`, and what takes an operand may `obfree` it (`vm.c:602`): `x;` of a
  string gives back a count nobody took.

Calls, locals and links (the examples want some lines before them, for the reason the first item gives):

* `Lines` (`MCScopes.cfg`): with no local left `__end_scope` reads the depth of `locals[-1]`, which is the line
  (`compiler_utils.c:74`). Where it equals the scope's depth, as on the first lines of a source, `local_count` wraps to 255. With a
  depth among `Lines` `TypeOK` fails.
* `ThisNames` (`MCScopes.cfg`): every name that begins with `this` is the receiver (`compiler.c:229`, `memcmp` over four characters; the
  scanner has no keyword `this`). A variable or parameter `thisOne` can be declared; it is never read, captured or assigned: its use loads the receiver, and its
  assignment is an error. `LexicalScope` has these names as the code has them, so nothing fails.
* `MaxFrame` above `Width` (`MCCallFrames.cfg`): the 8-bit frame offset wraps, at 64 nested calls without locals
  (`vm.c:337`). `FramesApart` fails.
* `Blocks` (`MCCallFrames.cfg`): the frame step counts live locals, registers are numbered by another counter
  (`compiler.c:373`): `var f = fun (x) { return 0; }; var m = fun () { { var a = 1; }; var b = 2; f(3); return b; };` does not
  return 2. `FramesApart` fails.
* `TopBlocks` (`MCScopes.cfg`): outside of functions a declaration returns a register and does not record it
  (`compiler_utils.c:99`): in `{ var a = 1; var b = 2; system.io.print_file(system.io.stdout, b); };` b is 1. `LoadsWhatWasStored` fails.
* The premise of `CapturesItsRegister` (`Scopes`): after a block has ended in a function, the register moved to the heap is
  not the captured variable's (`compiler_utils.c:153`).
* A third function inside another (bounds of `MCScopes.cfg`): `is_link`, one number for a local, then names a place in another
  function's list (`compiler_utils.c:154`). With `MaxFuns` 3 `SlotOfOwnList` and `CapturesItsRegister` fail.
* `Offsets` {4, 5} (`MCClosures.cfg`): a moved register is named relative to the frame it is in and used relative to register 0.
  `var mk = fun (x) fun () x; var g = fun (y) mk(5); var k = g(9);` and then
  `k()` gives 9. `Shared` fails.
* `Derail` (`Closures`): whether a local is a link is decided in the order of the text (`compiler.c:276`). A branch that is not
  taken, or a loop that comes round, meets a plain register where a link is meant or the other way round.
* `Overlaps` (`MCMethods.cfg`): `this` is stored in the callable that all instances share (`vm.c:567`): `a.get(b.get(0))` runs
  both on b. `ReceiverKept` fails.
* `GetWide` (`Methods`): OP_GET_16 asks the field's name, not the object (`vm.c:587`), and always fails.

Code:

* `ArgDropped` (`Chunk`): in a function's block with 25 locals the register's number is OP_OP's, and `chunputif` drops it instead of
  an instruction (`bytecode.c:28`). `ReadAsEmitted` fails.
* `WideDeclared` (`Chunk`): OP_DECLARE_FUNCTION_16 is no case of the disassembler and OP_DECLARE_CLASS_16 is read by it as two bytes;
  the machine reads the header of the function's blob as the callable (`vm.c:672`). `ReadAsEmitted` fails.
* The capacity of the constants is a `uint16_t` and 0 after 32768 (`value.c:38`): the compiler ends with "not enough memory" and
  "too many constants" is never reached.
* The last line record is never closed: an error on the last line is reported on line 1. The
  compiler adds one record, of the next line's number, however many lines the next token is further down (`compiler_utils.c:48`):
  blank lines are not counted.
* The list of a class's method names is said to hold 20 and holds 10, and grows to a number of bytes
  (`compiler_utils.c:219-221`, `:237`): a class with more methods writes behind it.
* Quirk `var`: a local without a value pops an operand that is not there (`compiler.c:94-96`). `OperandsSuffice`.
* Quirk `for`: `for (var i = e; ...)` leaves e's value (`compiler.c:133`). `StatementsBalanced`.
* Quirk `return`: `100 + { return 2; }` returns with 100 below its result (`compiler.c:118`). `ReturnsOne`, with expressions three deep.
* Quirk `link`: an assignment to a captured local pops its value, and the statement pops again (`vm.c:270`). `OperandsSuffice`.
* Quirk `consts`: from the 256th constant on, the declaration of a global pops twice (`vm.c:460`). `OperandsSuffice`.
* Quirk `fields`: a field of a class is counted and has no name in the list (`compiler.c:553-577`). `OperandsSuffice`.

Sources:

* `{}` is always an error, since an empty block leaves its brace to what follows
  (`compiler.c:430`); a block or a class literal cut off by the end of the source makes the compiler report and
  never end (`compiler.c:435`, `:483`), and so does a token in a class literal that begins no member and is no closing brace,
  whatever follows it. `InBraces` in `EndsOutsideBraces` is for these.
* `CommentRunsOn` (`Scanner`): a comment followed by a line that begins with a slash is skipped for ever (`scanner.c:43`). Any other
  comment that a line follows ends in an unknown token.
* '#' as the last character passes the NUL (`scanner.c:76`); a number may not end in its point; a newline taken by an
  erroneous token is not counted.
* A native's check of its arguments looks at registers the call has not written (`ffi.c:34`).

## Not modelled

* *Globals and interned strings, reference counts.* The maps are `HashMap`, the blobs `BlobPool`; the counts between them are kept by the
  instructions. A load takes no count and OP_OP, OP_EQ and OP_STR_CONC give one back, so "nothing reachable is free" does not hold
  even of programs of one statement, and there is no promise of the code to check.
* *Natives* other than `garbage_collect` (output), `main.c` (arguments and files), the disassembler's printing (its steps are in `Chunk`),
  the keywords (`ident_scan_dfa`, a name of either kind is one class of token in `Scanner`).
* Results of arithmetic, of strings and of arrays. `Compiler` has the number of operands, `Methods` objects only.
* `__realloc_blob`, `unset_val_r` and `take_instance` have no callers.
* In `CallFrames`: operands (any value), and locals of blocks at the top
  level. In `Scopes`: what follows the first compile error. In `Chunk`: what an expression adds between the
  other instructions as an opcode alone or with one short argument (operators, calls, literals, `this`, locals read or assigned), what a constructor puts
  before its return, fields of a class, and the empty block, which is an error. In `Compiler`: locals (`Scopes`), operands of instructions (`Chunk`), `block_stack`,
  whose first value is not defined, other than that it may refuse a return.

## Plan

The parts with behaviour of their own are modelled, and their safety properties and refinements are proved. Open are the hazards without a
property (`PROJECT.json`): the height of the operand stack, the reference counts, `block_stack` and the list of method names. None has a promise
that the code keeps; a property of them would come with the code that makes one.
