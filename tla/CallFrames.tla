----------------------------- MODULE CallFrames -----------------------------
(***************************************************************************)
(* The registers of vm.c and the frames that OP_CALL and OP_RETURN cut them *)
(* into.                                                                    *)
(*                                                                          *)
(* There is one register file.  A function's registers lie at               *)
(* current_frame_offset: four for the call itself, then its locals.  How far *)
(* a call moves the offset is a byte of code: the number of locals the      *)
(* compiler counted at that point, plus four.  Which register a local has is *)
(* another count, which the end of a block does not take back.  acts holds  *)
(* these compile-time facts for the activations under way, and where their  *)
(* frames are; the program keeps neither.                                   *)
(*                                                                          *)
(* Operands are not modelled: a popped value is any value.  Nor are the     *)
(* locals of the top level, whose registers the compiler gets wrong         *)
(* (compiler_utils.c:99-105): the first activation has none.                *)
(***************************************************************************)
EXTENDS Integers, Sequences

CONSTANTS
  Width,      \* 256: current_frame_offset and code bytes are uint8_t
  NumRegs,    \* LOCAL_VARIABLE_STACK_SIZE (1024)
  Funs, Vals, Insts, Sites,
  Arity,      \* [Funs -> Nat]
  Outer,      \* [Funs -> Nat]: live locals around the function literal
  Methods,    \* the functions with __is_method
  NOTHING,    \* __GURU_NOTHING
  ZERO,       \* a register never written
  MaxArgs,    \* bound of the model: arguments of a call
  MaxLocals,  \* bound of the model: locals a function declares
  MaxFrame,   \* bound of the model: the offset a call may ask for
  Blocks      \* whether blocks with locals of their own end before the function

Priv == 4     \* PRIVILEGED_STACK_SLOTS

ASSUME FrameAssumption ==
  /\ Width \in Nat /\ Priv < Width
  /\ NumRegs \in Nat /\ 2 * Width + Priv <= NumRegs
  /\ MaxArgs \in 0 .. Width - 1
  /\ MaxLocals \in Nat /\ MaxFrame \in Nat
  /\ Arity \in [Funs -> 0 .. MaxArgs] /\ Outer \in [Funs -> Nat]
  /\ Methods \subseteq Funs
  /\ Blocks \in BOOLEAN

Receivers == Insts \cup {NOTHING}

Contents == Sites \cup (0 .. Width - 1) \cup Funs \cup Receivers \cup Vals \cup {ZERO}

VARIABLES
  cfo,      \* v->current_frame_offset
  r,        \* v->r
  at,       \* where control went last: a function entered, a site returned to
  running,  \* FALSE once run() has returned RESULT_RERR
  acts      \* the activations, the running one last

vars == <<cfo, r, at, running, acts>>

Act == acts[Len(acts)]

\* The register of a local, and what the compiler counts as locals here.
Register(n) == cfo + Priv + n

LocalCount == Act.outer + Len(Act.live)

Init ==
  /\ cfo = 0
  /\ r = [x \in 0 .. NumRegs - 1 |-> ZERO]
  /\ at = <<"main">>
  /\ running = TRUE
  /\ acts = <<[base |-> 0, outer |-> 0, live |-> <<>>, next |-> 0]>>

-----------------------------------------------------------------------------
(* OP_CALL *)

\* Slip: the locals around the function are all that is counted.
M_Step == (Act.outer + Priv) % Width

\* The code byte: comp->local_count + PRIVILEGED_STACK_SLOTS.
Step == (LocalCount + Priv) % Width

Callee == (cfo + Step) % Width

\* The arguments are popped into the new frame before the callee is looked at.
Passed(args) ==
  [x \in DOMAIN r |-> LET i == x - Callee - Priv + 1 IN
                      IF i \in 1 .. Len(args) THEN args[i] ELSE r[x]]

\* Slip: the new offset is saved, not the old one.
M_Entered(site, f, this, args) ==
  [Passed(args) EXCEPT ![Callee] = site, ![Callee + 1] = Callee,
                       ![Callee + 2] = f, ![Callee + 3] = this]

\* Slip: the two return registers are swapped.
M_Swapped(site, f, this, args) ==
  [Passed(args) EXCEPT ![Callee] = cfo, ![Callee + 1] = site,
                       ![Callee + 2] = f, ![Callee + 3] = this]

\* Slip: the receiver goes to the register below.
M_Receiver(site, f, this, args) ==
  [Passed(args) EXCEPT ![Callee] = site, ![Callee + 1] = cfo,
                       ![Callee + 2] = this]

\* R_RETURN_INSTR_PTR, R_RETURN_STACK_FRAME, R_FUNC, R_THIS
Entered(site, f, this, args) ==
  [Passed(args) EXCEPT ![Callee] = site, ![Callee + 1] = cfo,
                       ![Callee + 2] = f, ![Callee + 3] = this]

Calling == running /\ cfo + Step <= MaxFrame

\* A constructor is called with the new instance, a method with the receiver
\* that its callable was read from last, a function with nothing.
CallFunction(site, f, this, args) ==
  /\ Calling
  /\ Len(args) >= Arity[f]
  /\ r' = Entered(site, f, this, args)
  /\ cfo' = Callee
  /\ at' = <<"enter", f>>
  /\ acts' = Append(acts, [base |-> Callee, outer |-> Outer[f],
                           live |-> [j \in 1 .. Arity[f] |-> j - 1],
                           next |-> Arity[f]])
  /\ UNCHANGED running

\* "not enough function arguments"
CallTooFew(site, f, this, args) ==
  /\ Calling
  /\ Len(args) < Arity[f]
  /\ r' = Entered(site, f, this, args)
  /\ cfo' = Callee
  /\ running' = FALSE
  /\ UNCHANGED <<at, acts>>

\* A native, or a class without a constructor: back at once.
CallInPlace(args) ==
  /\ Calling
  /\ r' = Passed(args)
  /\ UNCHANGED <<cfo, at, running, acts>>

\* A native given wrong arguments, a constructor or a callee that is no function.
CallRefused(args) ==
  /\ Calling
  /\ r' = Passed(args)
  /\ cfo' = Callee
  /\ running' = FALSE
  /\ UNCHANGED <<at, acts>>

-----------------------------------------------------------------------------
(* OP_RETURN; a function's end, or a return statement inside one. *)
Return ==
  /\ running
  /\ Len(acts) > 1
  /\ at' = <<"return", r[cfo]>>
  /\ cfo' = r[cfo + 1]
  /\ acts' = SubSeq(acts, 1, Len(acts) - 1)
  /\ UNCHANGED <<r, running>>

\* OP_PUT_8 on a local that is live.
Assign(j, v) ==
  /\ running
  /\ r' = [r EXCEPT ![Register(Act.live[j])] = v]
  /\ UNCHANGED <<cfo, at, running, acts>>

\* A declaration with its OP_PUT_8_WITH_POP, OP_PUT_8 or OP_PUT_8_VOID: the
\* register is the next one of the function, whichever are free.
Declare(v) ==
  /\ running
  /\ Len(acts) > 1
  /\ Act.next < MaxLocals
  /\ r' = [r EXCEPT ![Register(Act.next)] = v]
  /\ acts' = [acts EXCEPT ![Len(acts)].live = Append(@, Act.next),
                          ![Len(acts)].next = (@ + 1) % Width]
  /\ UNCHANGED <<cfo, at, running>>

\* A block ends and its locals, from the j-th of the function on, are gone;
\* OP_COLLECT_LOCALS leaves the registers as they are.
EndBlock(j) ==
  /\ running
  /\ Blocks
  /\ acts' = [acts EXCEPT ![Len(acts)].live = SubSeq(@, 1, j - 1)]
  /\ UNCHANGED <<cfo, r, at, running>>

Args == UNION {[1 .. n -> Vals] : n \in 0 .. MaxArgs}

This(f) == IF f \in Methods THEN Insts ELSE {NOTHING}

Next ==
  \/ \E args \in Args :
       \/ CallInPlace(args) \/ CallRefused(args)
       \/ \E site \in Sites, f \in Funs : \E this \in This(f) :
            CallFunction(site, f, this, args) \/ CallTooFew(site, f, this, args)
  \/ Return
  \/ \E j \in DOMAIN Act.live : EndBlock(j) \/ \E v \in Vals : Assign(j, v)
  \/ \E v \in Vals : Declare(v)

Spec == Init /\ [][Next]_vars
-----------------------------------------------------------------------------
(* Properties. *)

Activations ==
  [base : 0 .. Width - 1, outer : Nat, live : Seq(0 .. Width - 1), next : 0 .. Width - 1]

\* Types: what the offset is restored from is an offset, and every register an
\* instruction names is one of the file.
TypeOK ==
  /\ cfo \in 0 .. Width - 1
  /\ r \in [0 .. NumRegs - 1 -> Contents]
  /\ running \in BOOLEAN
  /\ acts \in Seq(Activations) \ {<<>>}

Owned(act) ==
  {act.base + x : x \in 0 .. Priv - 1} \cup
  {act.base + Priv + act.live[j] : j \in DOMAIN act.live}

\* "each function call grabs another frame" (vm.h:75): no two activations have a
\* register in common.
FramesApart ==
  \A m, n \in DOMAIN acts : m # n => Owned(acts[m]) \cap Owned(acts[n]) = {}

\* A return finds the frame it came from, and so does every return after it:
\* nothing a function does to its registers reaches the return registers of the
\* activations below, even when locals of a caller are overwritten.
ReturnsToCaller ==
  /\ cfo = Act.base \/ ~running
  /\ \A n \in 2 .. Len(acts) : r[acts[n].base + 1] = acts[n - 1].base

\* What the registers say of an activation.
Frame(regs, act) ==
  [ret |-> regs[act.base], fn |-> regs[act.base + 2], this |-> regs[act.base + 3],
   locals |-> [j \in DOMAIN act.live |-> regs[act.base + Priv + act.live[j]]]]

Image(regs, as) == [n \in DOMAIN as |-> Frame(regs, as[n])]

Stack == INSTANCE CallStack WITH stack <- Image(r, acts)

\* The registers hold the call stack that CallStack promises: an activation's
\* locals, function and receiver change by its own assignments only, and a
\* return goes where the call was made.
ImplementsCallStack == Stack!Spec

=============================================================================
