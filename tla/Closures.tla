------------------------------ MODULE Closures ------------------------------
(***************************************************************************)
(* Captured variables: how a local moves from its register to the heap     *)
(* when a function literal that uses it is evaluated, and how the function *)
(* around goes on using it.                                                *)
(*                                                                         *)
(* Whether an access is to a link or to a plain register is decided when   *)
(* it is compiled: a local is a link from its first capture in the source  *)
(* on.  The register becomes a link when the capture is run.  The module   *)
(* compiles any body of a function, with branches and loops, and runs it   *)
(* any number of times.                                                    *)
(*                                                                         *)
(* A value is the number of the store that made it, so that no two are     *)
(* equal.  vals, and `of` of a callable, say which variable is meant; the  *)
(* program does not keep them.                                             *)
(***************************************************************************)
EXTENDS Integers, Sequences, SequencesExt

CONSTANTS
  Offsets,    \* the frame offsets the function is called at
  MaxLocals,  \* bound of the model: locals
  MaxCode,    \* bound of the model: instructions of the body
  MaxNest,    \* bound of the model: constructs inside each other
  MaxStores,  \* bound of the model: values stored
  MaxFuns     \* bound of the model: callables made

Priv == 4     \* PRIVILEGED_STACK_SLOTS
Home == Priv  \* the offset of a function called outside of functions

ASSUME ClosureAssumption ==
  /\ Offsets \subseteq Nat
  /\ MaxLocals \in Nat /\ MaxCode \in Nat /\ MaxNest \in Nat
  /\ MaxStores \in Nat /\ MaxFuns \in Nat

VARIABLES
  code,       \* the body, compiled so far
  locals,     \* the locals of the function: links or not, in scope or not
  nest,       \* the constructs being compiled
  compiled,   \* the body is complete
  r,          \* v->r
  heap,       \* the contents of links
  callables,  \* the function literals evaluated, with their links
  act,        \* the activation under way, <<>> if there is none
  vals,       \* the value each variable should have
  stores,     \* values stored so far
  derailed    \* an access ran out of order with the captures

compiling == <<code, locals, nest, compiled>>
machine == <<r, heap, callables, act, vals, stores, derailed>>
vars == <<compiling, machine>>

Plain(v) == [link |-> FALSE, v |-> v]
Link(h) == [link |-> TRUE, v |-> h]

Registers == 0 .. 2 * Priv + MaxLocals + CHOOSE o \in Offsets : \A p \in Offsets : p <= o

Init ==
  /\ code = <<>> /\ locals = <<>> /\ nest = <<>> /\ compiled = FALSE
  /\ r = [k \in Registers |-> Plain(0)]
  /\ heap = <<>> /\ callables = <<>> /\ act = <<>>
  /\ vals = <<>> /\ stores = 0 /\ derailed = FALSE

-----------------------------------------------------------------------------
(* The compiler. *)

Emits(instr) ==
  /\ ~compiled /\ Len(code) < MaxCode
  /\ code' = Append(code, instr)
  /\ UNCHANGED <<compiled, machine>>

\* A local goes on having a register when its block has ended, but no longer the one its
\* captures name (see CapturesItsRegister in Scopes): it is the last to be declared.
Declare ==
  /\ Len(locals) < MaxLocals /\ \A i \in DOMAIN locals : locals[i].live
  /\ Emits([op |-> "PUT_8_WITH_POP", local |-> Len(locals) + 1])
  /\ locals' = Append(locals, [link |-> FALSE, live |-> TRUE])
  /\ nest' = nest

Usable == {i \in DOMAIN locals : locals[i].live}

Load == \E i \in Usable :
  /\ Emits([op |-> IF locals[i].link THEN "LOAD_LINK" ELSE "LOAD_8", local |-> i])
  /\ UNCHANGED <<locals, nest>>

\* After the right-hand side, which may capture the variable.
Assign == \E i \in Usable :
  /\ Emits([op |-> IF locals[i].link THEN "PUT_LINK" ELSE "PUT_8", local |-> i])
  /\ UNCHANGED <<locals, nest>>

\* Slip: the variable is a link for other functions only.
M_Captured(caps) == locals

Captured(caps) ==
  [i \in DOMAIN locals |-> [locals[i] EXCEPT !.link = @ \/ \E k \in DOMAIN caps : caps[k] = i]]

\* A function literal: the locals it uses, in the order it uses them.
Capture == \E caps \in {<<i>> : i \in Usable} \cup {<<i, j>> : i, j \in Usable} :
  /\ IsInjective(caps)
  /\ Emits([op |-> "DECLARE_FUNCTION", caps |-> caps])
  /\ locals' = Captured(caps)
  /\ nest' = nest

\* The body of an if, of an and, of a loop: a jump over it.
Begin == \E kind \in {"if", "loop"} :
  /\ Len(nest) < MaxNest
  /\ Emits([op |-> "JUMP_IF_FALSE", to |-> 0])
  /\ nest' = Append(nest, [kind |-> kind, at |-> Len(code) + 1, outer |-> Len(locals)])
  /\ locals' = locals

Confirmed(at) == [code EXCEPT ![at].to = Len(code) + 1]

EndScope(outer) ==
  locals' = [i \in DOMAIN locals |-> [locals[i] EXCEPT !.live = @ /\ i <= outer]]

EndIf ==
  /\ nest # <<>> /\ Last(nest).kind = "if"
  /\ code' = Confirmed(Last(nest).at)
  /\ EndScope(Last(nest).outer) /\ nest' = Front(nest)
  /\ UNCHANGED <<compiled, machine>>

EndLoop ==
  /\ nest # <<>> /\ Last(nest).kind = "loop" /\ Len(code) < MaxCode
  /\ code' = Append([code EXCEPT ![Last(nest).at].to = Len(code) + 2],
                    [op |-> "JUMP_BACK", to |-> Last(nest).at])
  /\ EndScope(Last(nest).outer) /\ nest' = Front(nest)
  /\ UNCHANGED <<compiled, machine>>

\* A body that captures nothing is of no interest.
EndBody ==
  /\ ~compiled /\ nest = <<>>
  /\ \E p \in DOMAIN code : code[p].op = "DECLARE_FUNCTION"
  /\ compiled' = TRUE
  /\ UNCHANGED <<code, locals, nest, machine>>

-----------------------------------------------------------------------------
(* The machine. *)

\* Where the function itself finds its local, and where a capture of it does.
Register(i) == act.offset + Priv + i - 1
Place(i) == Priv * 2 + i - 1

Call == \E offset \in Offsets :
  /\ compiled /\ act = <<>> /\ ~derailed
  /\ act' = [offset |-> offset, pc |-> 1, var |-> [i \in DOMAIN locals |-> 0],
             moved |-> [i \in DOMAIN locals |-> FALSE]]
  /\ UNCHANGED <<compiling, r, heap, callables, vals, stores, derailed>>

Running(ops) == act # <<>> /\ act.pc <= Len(code) /\ code[act.pc].op \in ops /\ ~derailed

Instr == code[act.pc]

Step(f) == act' = [f EXCEPT !.pc = @ + 1]

Storing == stores < MaxStores /\ stores' = stores + 1

\* Slip: a link that a call before has left in the register is stored through.
M_RunDeclare ==
  /\ Running({"PUT_8_WITH_POP"}) /\ Storing
  /\ LET n == Register(Instr.local)
     IN  IF r[n].link
         THEN heap' = [heap EXCEPT ![r[n].v] = stores'] /\ r' = r
         ELSE r' = [r EXCEPT ![n] = Plain(stores')] /\ heap' = heap
  /\ vals' = Append(vals, stores')
  /\ Step([act EXCEPT !.var[Instr.local] = Len(vals) + 1, !.moved[Instr.local] = FALSE])
  /\ UNCHANGED <<compiling, callables, derailed>>

\* A declaration makes a new variable, in a loop each time.
RunDeclare ==
  /\ Running({"PUT_8_WITH_POP"}) /\ Storing
  /\ r' = [r EXCEPT ![Register(Instr.local)] = Plain(stores')]
  /\ vals' = Append(vals, stores')
  /\ Step([act EXCEPT !.var[Instr.local] = Len(vals) + 1, !.moved[Instr.local] = FALSE])
  /\ UNCHANGED <<compiling, heap, callables, derailed>>

\* Whether a capture of the local comes before the instruction, in the source.
CaptureBefore(i) ==
  \E p \in 1 .. act.pc - 1 :
    code[p].op = "DECLARE_FUNCTION" /\ \E k \in DOMAIN code[p].caps : code[p].caps[k] = i

\* The captures that ran are those that were compiled.
InOrder(i) == act.moved[i] = CaptureBefore(i)

Accessing == Running({"LOAD_8", "LOAD_LINK", "PUT_8", "PUT_LINK"})

\* A register is dereferenced that holds no link, or a link is loaded or overwritten.
Derail ==
  /\ Accessing /\ ~InOrder(Instr.local)
  /\ derailed' = TRUE
  /\ UNCHANGED <<compiling, r, heap, callables, act, vals, stores>>

RunLoad ==
  /\ Running({"LOAD_8", "LOAD_LINK"}) /\ InOrder(Instr.local)
  /\ Step(act)
  /\ UNCHANGED <<compiling, r, heap, callables, vals, stores, derailed>>

RunAssign ==
  /\ Running({"PUT_8", "PUT_LINK"}) /\ InOrder(Instr.local) /\ Storing
  /\ LET n == Register(Instr.local)
     IN  IF Instr.op = "PUT_LINK"
         THEN heap' = [heap EXCEPT ![r[n].v] = stores'] /\ r' = r
         ELSE r' = [r EXCEPT ![n] = Plain(stores')] /\ heap' = heap
  /\ vals' = [vals EXCEPT ![act.var[Instr.local]] = stores']
  /\ Step(act)
  /\ UNCHANGED <<compiling, callables, derailed>>

\* A register that holds a link already is shared.
Moves(place) == ~r[place].link

\* No link is given the place of another: links are named for the capture that makes them.
Fresh(place) == <<Len(callables) + 1, place>>

RunCapture ==
  /\ Running({"DECLARE_FUNCTION"}) /\ Len(callables) < MaxFuns
  /\ LET caps == Instr.caps
         moving == {n \in DOMAIN r : Moves(n) /\ \E k \in DOMAIN caps : n = Place(caps[k])}
         made == {Fresh(n) : n \in moving}
     IN  /\ heap' = [h \in DOMAIN heap \cup made |-> IF h \in made THEN r[h[2]].v ELSE heap[h]]
         /\ r' = [n \in DOMAIN r |-> IF n \in moving THEN Link(Fresh(n)) ELSE r[n]]
         /\ callables' = Append(callables,
              [links |-> [k \in DOMAIN caps |-> r'[Place(caps[k])].v],
               of |-> [k \in DOMAIN caps |-> act.var[caps[k]]]])
         /\ Step([act EXCEPT !.moved =
                    [i \in DOMAIN @ |-> @[i] \/ \E k \in DOMAIN caps : caps[k] = i]])
  /\ UNCHANGED <<compiling, vals, stores, derailed>>

RunJump ==
  /\ Running({"JUMP_IF_FALSE", "JUMP_BACK"})
  /\ \/ act' = [act EXCEPT !.pc = Instr.to]
     \/ Instr.op = "JUMP_IF_FALSE" /\ Step(act)
  /\ UNCHANGED <<compiling, r, heap, callables, vals, stores, derailed>>

\* The registers stay as they are.
RunReturn ==
  /\ act # <<>> /\ act.pc > Len(code)
  /\ act' = <<>>
  /\ UNCHANGED <<compiling, r, heap, callables, vals, stores, derailed>>

\* OP_PUT_CLOSURE, in a call of any of the callables, from anywhere.
PutClosure ==
  /\ ~derailed /\ Storing
  /\ \E c \in DOMAIN callables : \E k \in DOMAIN callables[c].links :
       /\ heap' = [heap EXCEPT ![callables[c].links[k]] = stores']
       /\ vals' = [vals EXCEPT ![callables[c].of[k]] = stores']
  /\ UNCHANGED <<compiling, r, callables, act, derailed>>

Next ==
  \/ Declare \/ Load \/ Assign \/ Capture \/ Begin \/ EndIf \/ EndLoop \/ EndBody
  \/ Call \/ RunDeclare \/ Derail \/ RunLoad \/ RunAssign \/ RunCapture \/ RunJump \/ RunReturn
  \/ PutClosure

Spec == Init /\ [][Next]_vars

-----------------------------------------------------------------------------
(* Properties. *)

\* LOAD_LINK and PUT_LINK meet a link, LOAD_8 and PUT_8 a plain value, if the captures
\* before them in the source have run since the declaration, and none after them; on a
\* second turn of a loop and in a second call too, whose registers hold the links of the
\* first (run() never looks at the tag).
LinkMeetsLink ==
  Accessing /\ InOrder(Instr.local) =>
    r[Register(Instr.local)].link = (Instr.op \in {"LOAD_LINK", "PUT_LINK"})

Content(reg) == IF reg.link THEN heap[reg.v] ELSE reg.v

\* A variable is one variable: the activation that declared it and all functions that
\* captured it see the latest store of any of them, and no store to another (the links
\* made by OP_DECLARE_FUNCTION are shared, and made anew for each declaration).
Shared ==
  ~derailed =>
    /\ \A c \in DOMAIN callables : \A k \in DOMAIN callables[c].links :
         heap[callables[c].links[k]] = vals[callables[c].of[k]]
    /\ act # <<>> => \A i \in DOMAIN act.var :
         act.var[i] # 0 => Content(r[Register(i)]) = vals[act.var[i]]
=============================================================================
