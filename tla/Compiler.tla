------------------------------ MODULE Compiler ------------------------------
(***************************************************************************)
(* The compiler as a pushdown automaton: which token it takes when, what it *)
(* emits for it, and how many operands the machine's stack has where that code *)
(* runs.                                                                   *)
(*                                                                         *)
(* work is the C stack: what is left to do of each C function under way, the *)
(* innermost first, with the locals that are used later (the places of jumps, *)
(* counts, the saved state).  One step is the code between two calls of a  *)
(* function of the compiler.  The source is any sequence of tokens: each one *)
(* that is taken is followed by one of those Offered.                      *)
(*                                                                         *)
(* Of the code there is only the point where the next instruction goes: the *)
(* height of the operand stack there (in the function being compiled), whether *)
(* it can be reached, the last byte, and what has gone wrong so far.  Nothing *)
(* of it is kept once there was an error: such code is not run.  Tokens that *)
(* the compiler treats alike are one ("atom", the operators of each kind); *)
(* COLLECT_LOCALS and the operands of instructions are left out.           *)
(***************************************************************************)
EXTENDS Integers, Sequences, FiniteSets

CONSTANTS
  Source,      \* bound of the model: the tokens that occur
  MaxDepth,    \* bound of the model: expressions inside each other
  MaxBodies,   \* bound of the model: the same, around a block or a function literal
  MaxAfter,    \* bound of the model: expressions inside each other after an error
  MaxLoops,    \* bound of the model: loops inside each other
  MaxArgs,     \* bound of the model: arguments of a call
  MaxMembers,  \* bound of the model: members of a class literal
  Quirks,      \* constructs with unbalanced code that the source uses
  Recover      \* whether what is compiled after an error is looked at

Tokens ==
  {"EOF", "atom", "ident", "(", ")", "{", "}", "[", "]", ",", ".", ";", "=", "-", "==", "or",
   "const", "var", "return", "for", "while", "if", "else", "fun", "class", "other"}

ASSUME CompilerAssumption ==
  /\ Source \subseteq Tokens /\ "EOF" \in Source
  /\ MaxDepth \in Nat /\ MaxBodies \in Nat /\ MaxAfter \in Nat /\ MaxLoops \in Nat
  /\ MaxArgs \in Nat /\ MaxMembers \in Nat \ {0}
  /\ Quirks \subseteq {"var", "for", "return", "link", "consts", "fields"}
  /\ Recover \in BOOLEAN

VARIABLES
  now,      \* comp->now
  work,
  point,
  permit,   \* ASSIGN_PERMIT
  panic,    \* PANIC_MODE
  rotten,   \* ROTTEN
  opened    \* brackets of any kind taken and not closed

vars == <<now, work, point, permit, panic, rotten, opened>>

Openers == {"(", "{", "["}

Closers == {")", "}", "]"}

-----------------------------------------------------------------------------
(* What the machine's instructions take from the operand stack and leave there. *)

Operators == [UNARY |-> <<1, 1>>, BINARY |-> <<2, 1>>]

Indexing == [INDEX_SET |-> <<3, 1>>, INDEX_GET |-> <<2, 1>>]

\* The loads of constants and literals are no different from those of variables.
Registers ==
  [LOAD |-> <<0, 1>>, PUT |-> <<1, 1>>, PUT_8_WITH_POP |-> <<1, 0>>, PUT_LINK |-> <<1, 0>>,
   PUT_8_VOID |-> <<0, 0>>]

Jumps == [JUMP_IF |-> <<1, 0>>, JUMP_IF_ONSTACK |-> <<1, 1>>]

\* DEFINE_GLOBAL_16 has no break and goes on as OP_NOFREE.
Globals == [DEFINE_GLOBAL |-> <<1, 0>>, DEFINE_GLOBAL_16 |-> <<2, 0>>, OP |-> <<1, 0>>]

Fields == [GET |-> <<1, 1>>, SET |-> <<2, 1>>]

Call(args) == <<args + 1, 1>>

DeclareClass(members) == <<members, 1>>

DeclareFunction == <<0, 1>>

-----------------------------------------------------------------------------
(* The point of emission. *)

Start == [height |-> 0, dead |-> FALSE, last |-> "other", faults |-> {}]

Dead(p) == [p EXCEPT !.height = 0, !.dead = TRUE, !.last = "other"]

Fault(p, if, what) == IF if /\ ~p.dead THEN [p EXCEPT !.faults = @ \cup {what}] ELSE p

After(p, effect) ==
  [Fault(p, p.height < effect[1], "operands") EXCEPT
     !.height = IF p.dead THEN 0 ELSE @ - effect[1] + effect[2],
     !.last = IF effect = Globals.OP THEN "OP" ELSE "other"]

\* A jump to here or from here, as far as the stack goes.
Mark(p) == [height |-> p.height, dead |-> p.dead]

\* confirm_jump: a jump from m arrives here.
Join(p, m) ==
  IF p.dead THEN [p EXCEPT !.height = m.height, !.dead = m.dead]
  ELSE Fault(p, ~m.dead /\ m.height # p.height, "paths")

\* jump_to: back to m.
Back(p, m) == Dead(Fault(p, ~m.dead /\ m.height # p.height, "paths"))

\* chunputif, at the end of a block: the last value is not discarded, or there is one.
PutIf(p) ==
  IF p.last = "OP" THEN [p EXCEPT !.height = IF p.dead THEN 0 ELSE @ + 1, !.last = "other"]
  ELSE After(p, Registers.LOAD)

Returned(p) == Dead(Fault(p, p.height # 1, "return"))

-----------------------------------------------------------------------------
(* Calls, continuations and tokens. *)

Do(at) == [at |-> at]

Expr(prec) == [at |-> "expr", prec |-> prec]

Expect(t) == [at |-> "expect", token |-> t]

Emit(effect) == [at |-> "emit", effect |-> effect]

Confirm(m) == [at |-> "confirm", jump |-> m]

At(what) == work # <<>> /\ Head(work).at = what

Top == Head(work)

\* Something of what encloses a declaration has begun a scope, or is a function.
InScope ==
  \E i \in DOMAIN work :
    work[i].at \in {"block", "endFun", "endMethod", "forInit", "forVar", "forExit", "forCond",
                    "forIncr", "forBack", "forEnd"}

InFunction == \E i \in DOMAIN work : work[i].at \in {"endFun", "endMethod"}

Depth == Cardinality({i \in DOMAIN work : work[i].at = "infix"})

Loops == Cardinality({i \in DOMAIN work : work[i].at \in {"whileEnd", "forEnd"}})

\* Tokens that begin an expression inside another.
Opening == {"(", "[", "=", "-", "==", "or", "if", "for", "while", "class"}

Following(what) == work' # <<>> /\ Head(work').at \in what

\* The innermost block around has no operand of its function under it.
BlockAtBase ==
  \A i \in DOMAIN work :
    work[i].at = "block" /\ (\A j \in 1..(i - 1) : work[j].at # "block") => work[i].base.height = 0

Asked(t) ==
  \/ Following({"var"}) /\ t = "="
  \/ Following({"expect"}) /\ Head(work').token = t

\* The source is any, but for the bounds of the model and the constructs not in Quirks.
Offered ==
  {t \in Source :
     /\ Depth' >= (IF rotten' THEN MaxAfter ELSE MaxDepth) => Asked(t) \/ t \notin Opening
     /\ Depth' >= MaxBodies => Asked(t) \/ t \notin {"{", "fun"}
     /\ Loops' >= MaxLoops => t \notin {"for", "while"}
     /\ work' = <<>> => t = now
     /\ (\E i \in DOMAIN work' : work'[i].at = "arg" /\ work'[i].n >= MaxArgs) => t # ","
     /\ (\E i \in DOMAIN work' : work'[i].at = "members" /\ work'[i].count >= MaxMembers)
          => t \notin {"fun", "var"}
     /\ ~rotten' =>
          /\ Following({"var"}) /\ InScope' => t = "=" \/ "var" \in Quirks
          /\ Following({"forVar"}) => t # "=" \/ "for" \in Quirks
          /\ t = "return" => (point'.height = 0 /\ BlockAtBase') \/ "return" \in Quirks
          /\ Following({"member", "members"}) => t # "var" \/ "fields" \in Quirks}

Become(items, p) ==
  /\ work' = IF rotten' /\ ~Recover THEN <<>> ELSE items \o Tail(work)
  /\ point' = IF rotten' THEN Start ELSE p

Stay(items, p) == UNCHANGED <<now, panic, rotten, opened>> /\ Become(items, p)

\* comp_err_report
Report == panic' = TRUE /\ rotten' = TRUE

Refuse(items) == Report /\ Become(items, Start) /\ opened' = 0 /\ UNCHANGED now

\* advance, which reports what the scanner does not know and goes on to the next.  What is
\* reported of a name just taken (declared already, a constant too many) is no different.
Take(items, p) ==
  /\ UNCHANGED <<panic, rotten>> \/ Report
  /\ Become(items, p)
  /\ now' \in IF now = "EOF" THEN {"EOF"} ELSE Offered
  /\ opened' = IF rotten' THEN 0
               ELSE opened + (IF now \in Openers THEN 1 ELSE IF now \in Closers THEN -1 ELSE 0)

Count(n) == IF rotten THEN 0 ELSE n + 1

-----------------------------------------------------------------------------
(* Straight code. *)

Init ==
  /\ now \in Source
  /\ work = <<Do("program")>>
  /\ point = Start
  /\ permit = FALSE
  /\ panic \in BOOLEAN /\ rotten = panic
  /\ opened = 0

\* Slip: whatever token there is, it is taken for the one that is expected.
M_ExpectToken ==
  /\ At("expect")
  /\ Take(<<>>, point)
  /\ UNCHANGED permit

\* panic_if_not_this
ExpectToken ==
  /\ At("expect")
  /\ IF now = Top.token THEN Take(<<>>, point) ELSE Refuse(<<>>)
  /\ UNCHANGED permit

EmitCode ==
  /\ At("emit")
  /\ Stay(<<>>, After(point, Top.effect))
  /\ UNCHANGED permit

ConfirmJump ==
  /\ At("confirm")
  /\ Stay(<<>>, Join(point, Top.jump))
  /\ UNCHANGED permit

-----------------------------------------------------------------------------
(* The program and its statements. *)

Program ==
  /\ At("program")
  /\ IF now = "EOF" THEN Stay(<<>>, point)
     ELSE Stay(<<Do("statement"), Do("synchronize"), Do("program")>>, point)
  /\ UNCHANGED permit

\* One token is dropped, whatever it is.
Synchronize ==
  /\ At("synchronize")
  /\ \/ ~panic /\ Stay(<<>>, point)
     \/ /\ panic /\ now = "EOF"
        /\ panic' = FALSE /\ UNCHANGED <<now, rotten, opened>>
        /\ Become(<<>>, point)
     \/ /\ panic /\ now # "EOF"
        /\ panic' \in BOOLEAN /\ UNCHANGED <<rotten, opened>>
        /\ Become(<<>>, point)
        /\ now' \in Offered
  /\ UNCHANGED permit

Define ==
  {Globals.DEFINE_GLOBAL} \cup (IF "consts" \in Quirks THEN {Globals.DEFINE_GLOBAL_16} ELSE {})

\* The store that ends a declaration.
Store == IF InScope THEN {Registers.PUT_8_WITH_POP} ELSE Define

ConstStatement ==
  /\ At("statement") /\ now = "const"
  /\ \E store \in Store :
       Take(<<Expect("ident"), Expect("="), Expr(1), Emit(store), Expect(";")>>, point)
  /\ UNCHANGED permit

VarStatement ==
  /\ At("statement") /\ now = "var"
  /\ Take(<<Expect("ident"), Do("var"), Expect(";")>>, point)
  /\ UNCHANGED permit

\* Without a value a local gets PUT_8_VOID and an OP_OP.
VarValue ==
  /\ At("var")
  /\ \E store \in Store :
       \/ now = "=" /\ Take(<<Expr(1), Emit(store)>>, point)
       \/ /\ now # "="
          /\ Stay(<<>>, IF InScope THEN After(After(point, Registers.PUT_8_VOID), Globals.OP)
                        ELSE After(After(point, Registers.LOAD), store))
  /\ UNCHANGED permit

\* return outside of a function is reported and compiled like any other.  So it may be inside
\* of one: the number of blocks it looks at has no initial value.
ReturnStatement ==
  /\ At("statement") /\ now = "return"
  /\ \/ InFunction /\ Take(<<Expr(1), Do("return"), Expect(";")>>, point)
     \/ /\ Report
        /\ Become(<<Expr(1), Do("return"), Expect(";")>>, Start)
        /\ now' \in Offered
        /\ opened' = 0
  /\ UNCHANGED permit

ReturnCode ==
  /\ At("return")
  /\ Stay(<<>>, Returned(point))
  /\ UNCHANGED permit

ExpressionStatement ==
  /\ At("statement") /\ now \notin {"const", "var", "return", "for", "while"}
  /\ Stay(<<Expr(1), Emit(Globals.OP), Expect(";")>>, point)
  /\ UNCHANGED permit

-----------------------------------------------------------------------------
(* Loops. *)

WhileStatement ==
  /\ At("statement") /\ now = "while"
  /\ Take(<<Expect("("), Expr(1), Expect(")"), [at |-> "while", loop |-> Mark(point)]>>, point)
  /\ UNCHANGED permit

WhileBody ==
  /\ At("while")
  /\ LET body == After(point, Jumps.JUMP_IF) IN
       Stay(<<Do("statement"), [at |-> "whileEnd", loop |-> Top.loop, exit |-> Mark(body)]>>, body)
  /\ UNCHANGED permit

ForStatement ==
  /\ At("statement") /\ now = "for"
  /\ Take(<<Expect("("), Do("forInit")>>, point)
  /\ UNCHANGED permit

\* Slip: the value of an initializer that declares nothing is not dropped.
M_ForInit ==
  /\ At("forInit")
  /\ \/ now = "var" /\ Take(<<Expect("ident"), Do("forVar")>>, point)
     \/ now = ";" /\ Stay(<<Expect(";"), Do("forCond")>>, point)
     \/ now \notin {"var", ";"} /\ Stay(<<Expr(1), Expect(";"), Do("forCond")>>, point)
  /\ UNCHANGED permit

ForInit ==
  /\ At("forInit")
  /\ \/ now = "var" /\ Take(<<Expect("ident"), Do("forVar")>>, point)
     \/ now = ";" /\ Stay(<<Expect(";"), Do("forCond")>>, point)
     \/ /\ now \notin {"var", ";"}
        /\ Stay(<<Expr(1), Emit(Globals.OP), Expect(";"), Do("forCond")>>, point)
  /\ UNCHANGED permit

\* The value of the variable is stored and stays on the stack.
ForVar ==
  /\ At("forVar")
  /\ \/ now = "=" /\ Take(<<Expr(1), Emit(Registers.PUT), Expect(";"), Do("forCond")>>, point)
     \/ now # "=" /\ Stay(<<Expect(";"), Do("forCond")>>, After(point, Registers.PUT_8_VOID))
  /\ UNCHANGED permit

Nowhere == [height |-> 0, dead |-> TRUE]

ForCondition ==
  /\ At("forCond")
  /\ \/ now # ";" /\ Stay(<<Expr(1), [at |-> "forExit", cond |-> Mark(point)]>>, point)
     \/ /\ now = ";"
        /\ Stay(<<Expect(";"), [at |-> "forIncr", cond |-> Mark(point), exit |-> Nowhere]>>, point)
  /\ UNCHANGED permit

ForExit ==
  /\ At("forExit")
  /\ LET p == After(point, Jumps.JUMP_IF) IN
       Stay(<<Expect(";"), [at |-> "forIncr", cond |-> Top.cond, exit |-> Mark(p)]>>, p)
  /\ UNCHANGED permit

\* The increment is compiled before the body, which jumps back to it.
ForIncrement ==
  /\ At("forIncr")
  /\ \/ /\ now # ")"
        /\ Stay(<<Expr(1), [at |-> "forBack", cond |-> Top.cond, exit |-> Top.exit,
                            incr |-> Mark(point)]>>, point)
     \/ /\ now = ")"
        /\ Stay(<<Expect(")"), Do("statement"),
                  [at |-> "forEnd", loop |-> Top.cond, exit |-> Top.exit]>>, point)
  /\ UNCHANGED permit

ForBack ==
  /\ At("forBack")
  /\ Stay(<<Expect(")"), Do("statement"),
            [at |-> "forEnd", loop |-> Top.incr, exit |-> Top.exit]>>,
          Join(Back(After(point, Globals.OP), Top.cond), Top.incr))
  /\ UNCHANGED permit

\* The end of a loop's body.
Loop ==
  /\ At("whileEnd") \/ At("forEnd")
  /\ Stay(<<>>, Join(Back(point, Top.loop), Top.exit))
  /\ UNCHANGED permit

-----------------------------------------------------------------------------
(* Expressions. *)

\* The precedences, in their order.
Precedence ==
  [t \in Tokens |->
     CASE t = "or" -> 2 [] t = "==" -> 4 [] t = "-" -> 6
       [] t \in {"(", "[", "."} -> 9 [] OTHER -> 0]

Unary == 8

HasPrefix == {"(", "{", "-", "atom", "ident", "fun", "if", "class"}

\* What the prefix function of a token has to do, the token taken.
Prefix(t) ==
  CASE t = "(" -> <<Expr(1), Expect(")")>>
    [] t = "-" -> <<Expr(Unary), Emit(Operators.UNARY)>>
    [] t = "atom" -> <<Emit(Registers.LOAD)>>
    [] t = "ident" -> <<Do("identifier")>>
    [] t = "if" -> <<Expect("("), Expr(1), Expect(")"), Do("then")>>
    [] t = "class" -> <<Expect("{"), [at |-> "member", count |-> 0, named |-> 0]>>
    [] t = "fun" -> <<Do("fun")>>
    [] t = "{" -> <<Do("brace")>>

\* __comp_with_precedence up to its loop; the state is put back when that ends.
Expression ==
  /\ At("expr")
  /\ \/ /\ now \in HasPrefix
        /\ Take(Prefix(now) \o <<[at |-> "infix", prec |-> Top.prec,
                                  permit |-> permit, panic |-> panic']>>, point)
        /\ permit' = (Top.prec <= 1)
     \/ now \notin HasPrefix /\ Refuse(<<>>) /\ UNCHANGED permit

\* What the infix function of a token has to do, the token taken.
Infix(t) ==
  CASE t = "or" -> <<Expr(2), Confirm(Mark(After(point, Jumps.JUMP_IF_ONSTACK)))>>
    [] t = "(" -> <<[at |-> "args", n |-> 0]>>
    [] t = "[" -> <<Expr(1), Expect("]"), Do("index")>>
    [] t = "." -> <<Expect("ident"), Do("field")>>
    [] OTHER -> <<Expr(Precedence[t] + 1), Emit(Operators.BINARY)>>

InfixCode(t) ==
  IF t = "or" THEN After(After(point, Jumps.JUMP_IF_ONSTACK), Globals.OP) ELSE point

Operator ==
  /\ At("infix") /\ Top.prec <= Precedence[now]
  /\ Take(Infix(now) \o <<Top>>, InfixCode(now))
  /\ UNCHANGED permit

EndExpression ==
  /\ At("infix") /\ Top.prec > Precedence[now]
  /\ permit' = Top.permit
  /\ panic' = (panic \/ Top.panic)
  /\ UNCHANGED <<now, rotten, opened>>
  /\ Become(<<>>, point)

\* An assignment leaves its value, but for OP_PUT_LINK.
Assigning == {Registers.PUT} \cup (IF "link" \in Quirks THEN {Registers.PUT_LINK} ELSE {})

\* "this" and constants are refused, everything where assignment is not permitted.
Identifier ==
  /\ At("identifier")
  /\ \/ now # "=" /\ Stay(<<>>, After(point, Registers.LOAD))
     \/ now = "=" /\ Refuse(<<>>)
     \/ /\ now = "=" /\ permit
        /\ \E effect \in Assigning : Take(<<Expr(1), Emit(effect)>>, point)
  /\ UNCHANGED permit

Then ==
  /\ At("then")
  /\ LET p == After(point, Jumps.JUMP_IF) IN
       Stay(<<Expr(1), [at |-> "else", jump |-> Mark(p)]>>, p)
  /\ UNCHANGED permit

\* Slip: an if without else has no value where its condition is false.
M_Else ==
  /\ At("else")
  /\ LET p == Join(Dead(point), Top.jump) IN
       \/ now = "else" /\ Take(<<Expr(1), Confirm(Mark(point))>>, p)
       \/ now # "else" /\ Stay(<<>>, Join(p, Mark(point)))
  /\ UNCHANGED permit

Else ==
  /\ At("else")
  /\ LET p == Join(Dead(point), Top.jump) IN
       \/ now = "else" /\ Take(<<Expr(1), Confirm(Mark(point))>>, p)
       \/ now # "else" /\ Stay(<<>>, Join(After(p, Registers.LOAD), Mark(point)))
  /\ UNCHANGED permit

Arguments ==
  /\ At("args")
  /\ \/ now = ")" /\ Take(<<>>, After(point, Call(Top.n)))
     \/ now # ")" /\ Stay(<<Expr(1), [at |-> "arg", n |-> Count(Top.n)]>>, point)
  /\ UNCHANGED permit

\* Slip: a comma counts, too.
M_Argument ==
  /\ At("arg")
  /\ \/ now = "," /\ Take(<<[at |-> "args", n |-> Count(Top.n)]>>, point)
     \/ now # "," /\ Stay(<<Expect(")"), Emit(Call(Top.n))>>, point)
  /\ UNCHANGED permit

Argument ==
  /\ At("arg")
  /\ \/ now = "," /\ Take(<<[at |-> "args", n |-> Top.n]>>, point)
     \/ now # "," /\ Stay(<<Expect(")"), Emit(Call(Top.n))>>, point)
  /\ UNCHANGED permit

Index ==
  /\ At("index")
  /\ \/ now = "=" /\ Take(<<Expr(1), Emit(Indexing.INDEX_SET)>>, point)
     \/ now # "=" /\ Stay(<<>>, After(point, Indexing.INDEX_GET))
  /\ UNCHANGED permit

Field ==
  /\ At("field")
  /\ \/ now = "=" /\ Take(<<Expr(1), Do("set")>>, point)
     \/ now # "=" /\ Stay(<<>>, After(point, Fields.GET))
  /\ UNCHANGED permit

SetField ==
  /\ At("set")
  /\ IF permit THEN Stay(<<>>, After(point, Fields.SET)) ELSE Refuse(<<>>)
  /\ UNCHANGED permit

-----------------------------------------------------------------------------
(* Blocks. *)

\* An empty block leaves its brace where it is.
BeginBlock ==
  /\ At("brace")
  /\ Stay(IF now = "}" THEN <<>> ELSE <<[at |-> "block", base |-> Mark(point)]>>,
          IF now = "}" THEN After(point, Registers.LOAD) ELSE point)
  /\ UNCHANGED permit

Block ==
  /\ At("block")
  /\ \/ now # "}" /\ Stay(<<Do("statement"), Do("synchronize"), Top>>, point)
     \/ now = "}" /\ Take(<<>>, PutIf(point))
  /\ UNCHANGED permit

-----------------------------------------------------------------------------
(* Function literals, methods and classes. *)

BeginFun ==
  /\ At("fun")
  /\ Stay(<<Expect("("), Do("params"), Do("enter"), Expr(1),
            [at |-> "endFun", jump |-> Mark(point)]>>, Dead(point))
  /\ UNCHANGED permit

Parameters ==
  /\ At("params")
  /\ \/ now = ")" /\ Take(<<>>, point)
     \/ now # ")" /\ Stay(<<Expect("ident"), Do("param")>>, point)
  /\ UNCHANGED permit

\* Slip: only the closing parenthesis ends the parameters.
M_Parameter ==
  /\ At("param")
  /\ \/ now = "," /\ Take(<<Do("params")>>, point)
     \/ now # "," /\ Stay(<<Do("params")>>, point)
  /\ UNCHANGED permit

Parameter ==
  /\ At("param")
  /\ \/ now = "," /\ Take(<<Do("params")>>, point)
     \/ now # "," /\ Stay(<<Expect(")")>>, point)
  /\ UNCHANGED permit

\* func_begin: a call begins here, with no operand of its own.
Enter ==
  /\ At("enter")
  /\ Stay(<<>>, [point EXCEPT !.height = 0, !.dead = FALSE])
  /\ UNCHANGED permit

EndFun ==
  /\ At("endFun")
  /\ Stay(<<>>, After(Join(Returned(point), Top.jump), DeclareFunction))
  /\ UNCHANGED permit

\* A class literal takes members until a closing brace; one that is not a member stays.
Member ==
  /\ At("member")
  /\ LET next == [at |-> "members", count |-> Count(Top.count), named |-> Top.named] IN
       \/ /\ now = "fun"
          /\ Take(<<Expect("ident"), Do("method"), Expect(";"),
                    [next EXCEPT !.named = Count(@)]>>, point)
       \/ now = "var" /\ Take(<<Expect("ident"), Do("value"), next>>, point)
       \/ now \notin {"fun", "var"} /\ Refuse(<<next>>)
  /\ UNCHANGED permit

BeginMethod ==
  /\ At("method")
  /\ Stay(<<Expect("("), Do("params"), Do("enter"), Expr(1),
            [at |-> "endMethod", jump |-> Mark(point)]>>, Dead(point))
  /\ UNCHANGED permit

\* Slip: the constructor's value stays under its object.
M_EndMethod ==
  /\ At("endMethod")
  /\ \E p \in {point, After(point, Registers.LOAD)} :
       Stay(<<>>, After(Join(Returned(p), Top.jump), DeclareFunction))
  /\ UNCHANGED permit

\* A constructor's value is dropped, it returns its object.
EndMethod ==
  /\ At("endMethod")
  /\ \E p \in {point, After(After(point, Globals.OP), Registers.LOAD)} :
       Stay(<<>>, After(Join(Returned(p), Top.jump), DeclareFunction))
  /\ UNCHANGED permit

FieldValue ==
  /\ At("value")
  /\ \/ now = "=" /\ Take(<<Expr(1)>>, point)
     \/ now # "=" /\ Stay(<<>>, After(point, Registers.LOAD))
  /\ UNCHANGED permit

EndMember ==
  /\ At("members")
  /\ \/ /\ now = "}"
        /\ Take(<<>>, Fault(After(point, DeclareClass(Top.count)),
                          Top.count # Top.named, "unnamed"))
     \/ /\ now # "}"
        /\ Stay(<<[at |-> "member", count |-> Top.count, named |-> Top.named]>>, point)
  /\ UNCHANGED permit

Finished == work = <<>> /\ UNCHANGED vars

Next ==
  \/ ExpectToken \/ EmitCode \/ ConfirmJump
  \/ Program \/ Synchronize
  \/ ConstStatement \/ VarStatement \/ VarValue
  \/ ReturnStatement \/ ReturnCode \/ ExpressionStatement
  \/ WhileStatement \/ WhileBody
  \/ ForStatement \/ ForInit \/ ForVar \/ ForCondition \/ ForExit \/ ForIncrement
  \/ ForBack \/ Loop
  \/ Expression \/ Operator \/ EndExpression \/ Identifier \/ Then \/ Else
  \/ Arguments \/ Argument \/ Index \/ Field \/ SetField
  \/ BeginBlock \/ Block
  \/ BeginFun \/ Parameters \/ Parameter \/ Enter \/ EndFun
  \/ Member \/ BeginMethod \/ EndMethod \/ FieldValue \/ EndMember
  \/ Finished

Spec == Init /\ [][Next]_vars /\ WF_vars(Next)

-----------------------------------------------------------------------------
(* Properties. *)

\* Types: no more brackets are closed than were opened, and none is left open in a source
\* that has been accepted.
TypeOK ==
  /\ now \in Tokens
  /\ point.height \in Int /\ point.dead \in BOOLEAN
  /\ permit \in BOOLEAN /\ panic \in BOOLEAN /\ rotten \in BOOLEAN /\ (panic => rotten)
  /\ opened \in IF work = <<>> /\ ~rotten THEN {0} ELSE Nat

\* No instruction takes more operands than its function has left on the stack, and
\* OP_DECLARE_CLASS finds a name for each member it takes.
OperandsSuffice == {"operands", "unnamed"} \cap point.faults = {}

\* Wherever two paths of the code meet, the operand stack has the same height on both.
PathsAgree == "paths" \notin point.faults

\* A function that returns leaves one value, its result, and nothing under it.
ReturnsOne == "return" \notin point.faults

\* Between statements a block has as many operands as before its first one, so that
\* the expression around it finds its own.
StatementsBalanced ==
  /\ At("block") /\ ~rotten /\ ~point.dead => point.height = Top.base.height
  /\ At("program") /\ ~rotten /\ ~point.dead => point.height = 0

InBraces == \E i \in DOMAIN work : work[i].at \in {"brace", "block", "member", "members"}

\* At the end of the source the compiler comes to an end, wherever it is, but not in
\* a block or a class literal.
EndsOutsideBraces == now = "EOF" /\ ~InBraces ~> work = <<>>

=============================================================================
