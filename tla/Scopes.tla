------------------------------- MODULE Scopes -------------------------------
(***************************************************************************)
(* How the compiler resolves names: the array of locals, the depth of scopes,*)
(* the stack of register counters (one for each function literal being       *)
(* compiled) and the variables each of them captures.                        *)
(*                                                                          *)
(* A C function that calls the compiler again before it is done (a           *)
(* declaration with its initialiser, an assignment with its right-hand side, *)
(* a block, a function literal) is two steps, and stays in open between      *)
(* them with what it still needs.  Tokens other than names are not modelled,  *)
(* nor is anything after the first error: no code of such a program is run.  *)
(*                                                                          *)
(* locals holds the first local_count elements of the array, the first at 1. *)
(* The members that __loc_var_decl does not write outside of functions hold  *)
(* anything, what the stack or an earlier local left there.                  *)
(***************************************************************************)
EXTENDS Integers, Sequences, FiniteSetsExt

CONSTANTS
  Names, NONE,
  ThisNames,  \* the names whose first four characters are "this"
  Width,      \* 256: local_count and the register counters are uint8_t
  Lines,      \* bound of the model: line numbers at which a scope ends
  Garbage,    \* bound of the model: what an unwritten member holds
  MaxLocals,  \* bound of the model: live locals
  MaxRegs,    \* bound of the model: registers of a function
  MaxOpen,    \* bound of the model: constructs open at a time
  MaxFuns,    \* bound of the model: function literals inside each other
  TopBlocks   \* whether blocks outside of functions have locals

Priv == 4     \* PRIVILEGED_STACK_SLOTS

ASSUME ScopeAssumption ==
  /\ ThisNames \subseteq Names
  /\ Width \in Nat \ {0} /\ MaxLocals \in 0 .. Width - 2 /\ MaxRegs \in 0 .. Width - 1 - Priv
  /\ Lines \subseteq Nat \ {0} /\ Garbage \subseteq 0 .. Width - 1
  /\ MaxOpen \in Nat /\ MaxFuns \in Nat
  /\ TopBlocks \in BOOLEAN

VARIABLES
  locals,       \* comp->locals, up to local_count
  scope_depth,
  counters,     \* comp->stack: s[0 .. head - 1]
  closures,     \* the captures of each function literal being compiled
  open,         \* the C functions under way, and their locals
  code,         \* the access just emitted
  rotten

vars == <<locals, scope_depth, counters, closures, open, code, rotten>>

LocalCount == Len(locals)

FunDepth == Len(counters)

Top == open[Len(open)]

Pop(s) == SubSeq(s, 1, Len(s) - 1)

Init ==
  /\ locals = <<>> /\ scope_depth = 0
  /\ counters = <<>> /\ closures = <<>>
  /\ open = <<>>
  /\ code = NONE
  /\ rotten = FALSE

Within(kind) == ~rotten /\ open # <<>> /\ Top.kind = kind

\* An expression, or one more operand of it, may begin.
Expression == ~rotten /\ ~Within("params")

Opening == Expression /\ Len(open) < MaxOpen

-----------------------------------------------------------------------------
(* Scopes. *)

\* The locals that __end_scope leaves.
ScopeFloor == Max({0} \cup {i \in DOMAIN locals : locals[i].depth # scope_depth})

Unwritten ==
  [name |-> NONE, depth |-> 0, is_const |-> 0, ofsetted |-> 0, compiled_function |-> 0,
   real |-> 0, is_link |-> 0, put |-> 0]

\* With no local left the loop reads locals[-1].depth, which is comp->line; if that
\* is the depth, local_count goes on to Width - 1 and counts what was never written.
EndScope(line) ==
  /\ locals' = IF locals # <<>> /\ ScopeFloor = 0 /\ line = scope_depth
                 THEN [i \in 1 .. Width - 1 |-> Unwritten] ELSE SubSeq(locals, 1, ScopeFloor)
  /\ scope_depth' = scope_depth - 1

BeginBlock ==
  /\ Opening
  /\ scope_depth' = scope_depth + 1
  /\ open' = Append(open, [kind |-> "block"])
  /\ code' = NONE
  /\ UNCHANGED <<locals, counters, closures, rotten>>

\* The end of a block, or of a for statement with the variable of its header.
EndBlock(line) ==
  /\ Within("block")
  /\ EndScope(line)
  /\ open' = Pop(open)
  /\ code' = NONE
  /\ UNCHANGED <<counters, closures, rotten>>

-----------------------------------------------------------------------------
(* Declarations. *)

\* "already a variable with this name in this scope."
Declared(x) ==
  \E i \in DOMAIN locals :
    /\ locals[i].name = x
    /\ \A j \in i .. LocalCount : locals[j].depth >= scope_depth

MayDeclare ==
  /\ LocalCount < MaxLocals
  /\ counters # <<>> => counters[FunDepth] < MaxRegs

NewLocal(x, depth, register, unwritten) ==
  [name |-> x, depth |-> depth, is_const |-> 0, is_link |-> 0,
   ofsetted |-> unwritten, compiled_function |-> unwritten, real |-> unwritten,
   put |-> register]

\* Slip: the counter of the function is read and left as it is.
M_Decl(x, depth) ==
  /\ locals' = Append(locals,
       [NewLocal(x, depth, counters[FunDepth] + Priv, 0) EXCEPT
          !.real = LocalCount, !.ofsetted = counters[FunDepth],
          !.compiled_function = FunDepth])
  /\ UNCHANGED counters

\* A local gets the next register of its function.  At the top level it has one in
\* the declaration's store only (put); the members that say which are not written.
Decl(x, depth) ==
  IF counters # <<>>
    THEN /\ locals' = Append(locals,
              [NewLocal(x, depth, counters[FunDepth] + Priv, 0) EXCEPT
                 !.real = LocalCount, !.ofsetted = counters[FunDepth],
                 !.compiled_function = FunDepth])
         /\ counters' = [counters EXCEPT ![FunDepth] = (@ + 1) % Width]
    ELSE /\ \E g \in Garbage : locals' = Append(locals, NewLocal(x, depth, LocalCount + Priv, g))
         /\ UNCHANGED counters

\* var and const: the variable has depth 0 while its initialiser is compiled.
BeginDecl(x) ==
  /\ Opening /\ Within("block") /\ MayDeclare
  /\ TopBlocks \/ counters # <<>>
  /\ Decl(x, 0)
  /\ rotten' = Declared(x)
  /\ open' = Append(open, [kind |-> "decl"])
  /\ code' = NONE
  /\ UNCHANGED <<scope_depth, closures>>

\* __loc_var_init, __loc_const_init
EndDecl(const) ==
  /\ Within("decl")
  /\ locals' = [locals EXCEPT ![LocalCount].depth = scope_depth,
                              ![LocalCount].is_const = const]
  /\ open' = Pop(open)
  /\ code' = NONE
  /\ UNCHANGED <<scope_depth, counters, closures, rotten>>

-----------------------------------------------------------------------------
(* Function literals and methods. *)

BeginFun ==
  /\ Opening /\ FunDepth < MaxFuns
  /\ scope_depth' = scope_depth + 1
  /\ closures' = Append(closures, <<>>)
  /\ counters' = Append(counters, 0)
  /\ open' = Append(open, [kind |-> "params"])
  /\ code' = NONE
  /\ UNCHANGED <<locals, rotten>>

Param(x) ==
  /\ Within("params") /\ MayDeclare
  /\ Decl(x, scope_depth)
  /\ rotten' = Declared(x)
  /\ code' = NONE
  /\ UNCHANGED <<scope_depth, closures, open>>

EndParams ==
  /\ Within("params")
  /\ open' = [open EXCEPT ![Len(open)] = [kind |-> "fun"]]
  /\ code' = NONE
  /\ UNCHANGED <<locals, scope_depth, counters, closures, rotten>>

\* Slip: the list of captures of the function around is not put back.
M_EndFun(line) ==
  /\ Within("fun")
  /\ counters' = Pop(counters)
  /\ EndScope(line)
  /\ open' = Pop(open)
  /\ code' = NONE
  /\ UNCHANGED <<closures, rotten>>

EndFun(line) ==
  /\ Within("fun")
  /\ counters' = Pop(counters)
  /\ closures' = Pop(closures)
  /\ EndScope(line)
  /\ open' = Pop(open)
  /\ code' = NONE
  /\ UNCHANGED rotten

-----------------------------------------------------------------------------
(* Uses of a name. *)

\* Slip: a variable is visible in its own initialiser.
M_Visible(x) == {i \in DOMAIN locals : locals[i].name = x}

\* Locals of this name whose declaration is complete; the last one is it.
Visible(x) == {i \in DOMAIN locals : locals[i].depth # 0 /\ locals[i].name = x}

Resolved(x) == Max(Visible(x))

\* Slip: the frame around the function is not counted.
M_Place(i) == (locals[i].real + Priv) % Width

\* Where the machine will find the variable: its index, and a frame for each function.
FramedIndex(i) == locals[i].real + Priv * FunDepth

Place(i) == FramedIndex(i) % Width

Outer(i) == FunDepth > locals[i].compiled_function

\* Slip: a variable that any function has captured is taken to be in this one's list.
M_Captured(i) == locals[i].is_link # 0

Captured(i) ==
  locals[i].is_link # 0 /\ \E k \in DOMAIN closures[FunDepth] :
                             closures[FunDepth][k].place = FramedIndex(i)

\* resolve_local: an outer function's variable is put in this function's list.
Resolve(x) ==
  IF Visible(x) # {} /\ Outer(Resolved(x)) /\ ~Captured(Resolved(x))
    THEN /\ closures' = [closures EXCEPT ![FunDepth] =
              Append(@, [place |-> Place(Resolved(x)), local |-> Resolved(x)])]
         /\ locals' = [locals EXCEPT ![Resolved(x)].is_link = Len(closures[FunDepth]) + 1]
    ELSE UNCHANGED <<closures, locals>>

\* Slip: the register of a variable is its place in locals.
M_Access(i, link, assign) ==
  [local |-> i, assign |-> assign,
   op |-> IF Outer(i) THEN "CLOSURE" ELSE IF link # 0 THEN "LINK" ELSE "8",
   arg |-> IF Outer(i) THEN link - 1 ELSE i - 1 + Priv]

\* The access that __comp_identifier emits, with is_link as it is by then.
Access(i, link, assign) ==
  [local |-> i, assign |-> assign,
   op |-> IF Outer(i) THEN "CLOSURE" ELSE IF link # 0 THEN "LINK" ELSE "8",
   arg |-> IF Outer(i) THEN link - 1 ELSE locals[i].ofsetted + Priv]

GlobalAccess(x, assign) == [global |-> x, assign |-> assign]

Use(x) ==
  /\ Expression /\ x \notin ThisNames
  /\ Resolve(x)
  /\ code' = IF Visible(x) = {} THEN GlobalAccess(x, FALSE)
             ELSE Access(Resolved(x), locals'[Resolved(x)].is_link, FALSE)
  /\ UNCHANGED <<scope_depth, counters, open, rotten>>

\* Such a name is the receiver, and no variable of that name is looked for.
UseThis(x) ==
  /\ Expression /\ x \in ThisNames
  /\ code' = [this |-> x]
  /\ UNCHANGED <<locals, scope_depth, counters, closures, open, rotten>>

\* "cant assign to this"
AssignThis(x) ==
  /\ Expression /\ x \in ThisNames
  /\ rotten' = TRUE
  /\ code' = NONE
  /\ UNCHANGED <<locals, scope_depth, counters, closures, open>>

\* An assignment resolves its variable first and compiles its right-hand side then.
BeginAssign(x) ==
  /\ Opening /\ x \notin ThisNames
  /\ Resolve(x)
  /\ rotten' = (Visible(x) # {} /\ locals[Resolved(x)].is_const = 1)
  /\ open' = Append(open, IF Visible(x) = {} THEN [kind |-> "assign", global |-> x]
                          ELSE [kind |-> "assign", local |-> Resolved(x)])
  /\ code' = NONE
  /\ UNCHANGED <<scope_depth, counters>>

EndAssign ==
  /\ Within("assign")
  /\ code' = IF "global" \in DOMAIN Top THEN GlobalAccess(Top.global, TRUE)
             ELSE Access(Top.local, locals[Top.local].is_link, TRUE)
  /\ open' = Pop(open)
  /\ UNCHANGED <<locals, scope_depth, counters, closures, rotten>>

Next ==
  \/ BeginBlock \/ BeginFun \/ EndParams \/ EndAssign
  \/ \E line \in Lines : EndBlock(line) \/ EndFun(line)
  \/ \E const \in 0 .. 1 : EndDecl(const)
  \/ \E x \in Names : BeginDecl(x) \/ Param(x) \/ Use(x) \/ BeginAssign(x)
                     \/ UseThis(x) \/ AssignThis(x)

Spec == Init /\ [][Next]_vars
-----------------------------------------------------------------------------
(* Properties. *)

\* Types: every index and register the compiler keeps fits the byte it is kept in, each
\* function literal under way has its counter and its list, no local is left of a scope that
\* has ended, and there are no more locals than may be declared.
TypeOK ==
  /\ LocalCount <= MaxLocals
  /\ scope_depth \in Nat
  /\ counters \in Seq(0 .. Width - 1) /\ Len(closures) = FunDepth
  /\ \A i \in DOMAIN locals :
       /\ locals[i].name \in Names \cup {NONE}
       /\ locals[i].depth <= scope_depth \/ rotten
       /\ \A m \in {"ofsetted", "compiled_function", "real", "is_link"} :
            locals[i][m] \in 0 .. Width - 1

\* No two live locals of a function have a register in common, and none has one
\* that a later declaration gets.
RegistersApart ==
  \A i \in DOMAIN locals : LET h == locals[i].compiled_function IN
    h \in DOMAIN counters =>
      /\ locals[i].ofsetted < counters[h]
      /\ \A j \in DOMAIN locals : j # i /\ locals[j].compiled_function = h =>
           locals[j].ofsetted # locals[i].ofsetted

Local == code # NONE /\ "local" \in DOMAIN code

\* An access to a variable of the running function names the register that its
\* declaration stored to.
LoadsWhatWasStored ==
  Local => code.op = "CLOSURE" \/ code.arg = locals[code.local].put

\* An access to an outer function's variable names its place in the list of this
\* function, not in that of another which captures it too.
SlotOfOwnList ==
  Local /\ code.op = "CLOSURE" =>
    /\ code.arg + 1 \in DOMAIN closures[FunDepth]
    /\ closures[FunDepth][code.arg + 1].local = code.local

\* Live locals outside of the function at this depth: what the calls that lead to
\* it, each made where the function is written, leave below its frame.
Around(h) == Cardinality({i \in DOMAIN locals : locals[i].compiled_function < h})

HomeRegister(i) ==
  LET h == locals[i].compiled_function IN Priv * h + Around(h) + locals[i].put

\* No block with locals has ended in a function under way.
NoBlockEnded ==
  \A h \in DOMAIN counters :
    counters[h] = Cardinality({i \in DOMAIN locals : locals[i].compiled_function = h})

\* OP_DECLARE_FUNCTION moves the captured variable itself to the heap, and no other
\* register, while no block has taken registers and every function is called where
\* it is written.
CapturesItsRegister == NoBlockEnded =>
  \A h \in DOMAIN closures : \A k \in DOMAIN closures[h] :
    closures[h][k].place = HomeRegister(closures[h][k].local)

ScopeImage(d) ==
  LET Of == {i \in DOMAIN locals : locals[i].depth = d}
  IN  [x \in {locals[i].name : i \in Of} |->
        \E i \in Of : locals[i].name = x /\ locals[i].is_const = 1]

AccessImage ==
  IF code = NONE THEN NONE
  ELSE IF "this" \in DOMAIN code THEN [receiver |-> code.this]
  ELSE IF Local
    THEN [name |-> locals[code.local].name, scope |-> locals[code.local].depth,
          assign |-> code.assign]
    ELSE [name |-> code.global, scope |-> 0, assign |-> code.assign]

Lexical == INSTANCE LexicalScope WITH
  scopes <- [d \in 1 .. scope_depth |-> ScopeImage(d)], access <- AccessImage

\* Names mean what LexicalScope says: shadowing, initialisers that use an outer
\* variable of the same name, function literals and constants included, and names
\* that begin with "this", which mean the receiver even where they are declared
\* (resolve_local, __comp_identifier).
ImplementsLexicalScope == Lexical!Spec

=============================================================================
