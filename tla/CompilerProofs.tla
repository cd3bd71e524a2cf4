--------------------------- MODULE CompilerProofs ---------------------------
(***************************************************************************)
(* Why the code of any source without the constructs of Quirks is balanced. *)
(*                                                                         *)
(* Whatever is left to do promises something of the stack: an expression leaves *)
(* one operand more, a statement none, the end of a function finds one.  So *)
(* there is an expected point before each item of work, Ready says, and the *)
(* item Leads from its point to that of the next one.  The point of emission *)
(* Fits the expected point before the first item, or cannot be reached.    *)
(* Each action is a lemma: it puts items with points of their own in the place *)
(* of the first one, between the point where it was and the one it led to.  *)
(***************************************************************************)
EXTENDS Compiler, SequenceTheorems, NaturalsInduction, WellFoundedInduction, TLAPS

-----------------------------------------------------------------------------
(* Expected points. *)

\* A height of -1 is that of code that cannot be reached.
Heights == Nat \cup {-1}

\* h: the height; base: that of the innermost block; close: the brackets that are open;
\* inside: whether an expression has just ended; fresh: whether a token was just taken.
Points == [h : Heights, base : Heights, close : Nat, inside : BOOLEAN, fresh : BOOLEAN]

Final == [h |-> 0, base |-> 0, close |-> 0, inside |-> FALSE, fresh |-> FALSE]

Level(m) == IF m.dead THEN -1 ELSE m.height

Marks == [height : Nat, dead : BOOLEAN]

\* A jump from m may arrive where the height is h.
Meets(m, h) == m \in Marks /\ Level(m) \in {-1, h}

\* The same where one more operand comes.
MeetsOneMore(m, h) == m \in Marks /\ (Level(m) = -1 \/ h = Level(m) + 1)

Uses(a, b, effect) == IF a = -1 THEN b = -1 ELSE a >= effect[1] /\ b = (a - effect[1]) + effect[2]

-----------------------------------------------------------------------------
(* What an item of work promises. *)

\* What the code of an item does to the stack.
Effect(item) ==
  CASE item.at \in {"infix", "then", "else", "field"} -> <<1, 1>>
    [] item.at \in {"expr", "identifier", "fun", "method", "brace"} -> <<0, 1>>
    [] item.at \in {"while", "forExit", "forBack", "return"} -> <<1, 0>>
    [] item.at \in {"index", "set"} -> <<2, 1>>
    [] item.at = "emit" -> item.effect
    [] item.at \in {"args", "arg"} -> Call(item.n)
    [] item.at \in {"member", "members"} -> DeclareClass(item.count)
    [] OTHER -> <<0, 0>>

\* From one stack to another one: a function's, or a block's with its value.
Between == {"enter", "endFun", "endMethod", "block"}

\* The brackets that an item closes, less those it opens.
Closes(item) ==
  CASE item.at = "expect" ->
         IF item.token \in Openers THEN -1 ELSE IF item.token \in Closers THEN 1 ELSE 0
    [] item.at \in {"args", "arg", "brace", "block", "member", "members", "params", "param",
                    "forInit", "forVar", "forCond", "forExit", "forIncr", "forBack"} -> 1
    [] OTHER -> 0

\* What only comes where statements do.
InBlock == {"statement", "while", "forInit", "forVar", "forCond", "forExit", "forIncr", "forBack",
            "program"}

\* What may follow an expression.
Enclosing == {"infix", "emit", "confirm", "expect", "else", "arg", "set", "return", "endFun",
              "endMethod", "forExit", "forBack"}

\* What does not end with an expression.
Separate == {"expect", "statement", "synchronize", "program", "while", "forInit", "forVar",
             "forCond", "forExit", "forIncr", "forBack", "whileEnd", "forEnd", "params", "param",
             "enter"}

\* What comes right after a token that was taken.
Asking == {"var", "forVar", "member", "members", "brace"}

Typed(item) ==
  /\ item.at \in {"expr", "infix"} => item.prec \in Nat \ {0}
  /\ item.at = "infix" => item.permit \in BOOLEAN /\ item.panic = FALSE
  /\ item.at = "emit" => item.effect \in Nat \X Nat
  /\ item.at \in {"args", "arg"} => item.n \in Nat
  /\ item.at \in {"member", "members"} => item.count \in Nat /\ item.named = item.count
  /\ item.at = "expect" => item.token \notin {"}", "EOF"}
  /\ item.at # "value"

\* The jumps of an item arrive at the stack they left.
Lands(item, h) ==
  /\ item.at = "confirm" => Meets(item.jump, h)
  /\ item.at = "while" => Meets(item.loop, h)
  /\ item.at \in {"whileEnd", "forEnd"} => Meets(item.loop, h) /\ Meets(item.exit, h)
  /\ item.at \in {"forExit", "forIncr", "forBack"} => Meets(item.cond, h)
  /\ item.at \in {"forIncr", "forBack"} => Meets(item.exit, h)
  /\ item.at = "forBack" => Meets(item.incr, h)
  /\ item.at \in {"else", "endFun", "endMethod"} => MeetsOneMore(item.jump, h)
  /\ item.at = "block" => MeetsOneMore(item.base, h)

Balanced(item, x, y) ==
  /\ item.at \notin Between => Uses(x.h, y.h, Effect(item))
  /\ item.at = "enter" => y.h = 0
  /\ item.at \in {"endFun", "endMethod"} => x.h = 1
  /\ item.at = "block" => x.h = Level(item.base)
  /\ item.at = "program" => x.h = 0
  /\ item.at = "return" => y.h \in {-1, 0}
  /\ item.at \in InBlock => y.h = y.base

Leads(item, x, y) ==
  /\ Typed(item)
  /\ Lands(item, y.h)
  /\ Balanced(item, x, y)
  /\ x.base = IF item.at = "block" THEN Level(item.base) ELSE y.base
  /\ x.close = y.close + Closes(item)
  /\ x.inside => item.at \in Enclosing
  /\ item.at \notin Separate => y.inside
  /\ item.at \in Asking => x.fresh
  /\ y.fresh => item.at = "expect"

\* There are points on the way from x, before the first item of w, to its end.
Ready(w, x) ==
  \E S, f :
    /\ w \in Seq(S)
    /\ f \in [1 .. Len(w) + 1 -> Points]
    /\ f[1] = x /\ f[Len(w) + 1] = Final
    /\ \A k \in 1 .. Len(w) : Leads(w[k], f[k], f[k + 1])

Spots == [height : Nat, dead : BOOLEAN, last : {"other", "OP"}, faults : {{}}]

\* A point of the code without a fault, at the expected height or not to be reached.
Sound(p, h) == p \in Spots /\ Level(p) \in {-1, h}

\* The brace of an empty block is counted until something else is taken.
Counted(x) == opened = x.close \/ (opened = x.close + 1 /\ x.inside /\ now = "}")

Answered ==
  /\ At("forVar") => now # "="
  /\ At("var") /\ InScope => now = "="
  /\ At("member") \/ At("members") => now # "var"
  /\ At("brace") /\ now = "return" => point.height = 0

Fits(x) ==
  /\ Sound(point, x.h)
  /\ Counted(x)
  /\ Answered
  /\ now = "return" => x.base \in {-1, 0}

Saved(item) ==
  item.at = "infix" =>
    item.permit \in BOOLEAN /\ item.panic \in BOOLEAN /\ (item.panic => rotten)

Base ==
  /\ now \in Tokens /\ permit \in BOOLEAN
  /\ panic \in BOOLEAN /\ rotten \in BOOLEAN /\ (panic => rotten)
  /\ \E S : work \in Seq(S)
  /\ \A i \in 1 .. Len(work) : Saved(work[i])
  /\ rotten => point = Start /\ opened = 0

Live == ~rotten => \E x \in Points : Ready(work, x) /\ Fits(x)

CInv == Base /\ Live

-----------------------------------------------------------------------------
(* Sequences of items. *)

LEMMA ReadyNil ==
  ASSUME NEW x, Ready(<<>>, x)
  PROVE  x = Final
BY DEF Ready

LEMMA FinalPoint == Final \in Points
BY DEF Final, Points, Heights

LEMMA ReadyHead ==
  ASSUME NEW w, NEW x, Ready(w, x), w # <<>>
  PROVE  \E y \in Points : Leads(Head(w), x, y) /\ Ready(Tail(w), y)
<1>1. PICK S, f :
        /\ w \in Seq(S)
        /\ f \in [1 .. Len(w) + 1 -> Points]
        /\ f[1] = x /\ f[Len(w) + 1] = Final
        /\ \A k \in 1 .. Len(w) : Leads(w[k], f[k], f[k + 1])
  BY DEF Ready
<1>2. PICK n \in Nat : n = Len(w)
  BY <1>1, LenProperties
<1>3. n >= 1
  BY <1>1, <1>2, EmptySeq, SMT
<1>4. /\ Tail(w) \in Seq(S) /\ Len(Tail(w)) = n - 1
      /\ \A k \in 1 .. n - 1 : Tail(w)[k] = w[k + 1]
  BY <1>1, <1>2, <1>3
<1>5. PICK m \in Nat : m = n - 1
  BY <1>3
<1> DEFINE g == [k \in 1 .. n |-> f[k + 1]]
<1>6. g \in [1 .. n -> Points] /\ g[1] = f[2] /\ g[n] = Final
  BY <1>1, <1>2, <1>3
<1>7. \A k \in 1 .. m : Leads(Tail(w)[k], g[k], g[k + 1])
  <2> SUFFICES ASSUME NEW k \in 1 .. m PROVE Leads(Tail(w)[k], g[k], g[k + 1])
    OBVIOUS
  <2>1. g[k] = f[k + 1] /\ g[k + 1] = f[k + 2] /\ k + 1 \in 1 .. n /\ (k + 1) + 1 = k + 2
    BY <1>5
  <2>2. Leads(w[k + 1], f[k + 1], f[k + 2])
    BY <1>1, <1>2, <2>1
  <2> QED
    BY <1>4, <1>5, <2>1, <2>2
<1>8. Ready(Tail(w), f[2])
  <2> HIDE DEF g
  <2>1. Len(Tail(w)) = m /\ m + 1 = n
    BY <1>4, <1>5
  <2> QED
    BY <1>4, <1>6, <1>7, <2>1 DEF Ready
<1>9. Head(w) = w[1] /\ Leads(w[1], f[1], f[2]) /\ f[2] \in Points
  BY <1>1, <1>2, <1>3
<1> QED
  BY <1>1, <1>8, <1>9

LEMMA Put ==
  ASSUME NEW a, NEW w, NEW x \in Points, NEW y, Leads(a, x, y), Ready(w, y)
  PROVE  Ready(<<a>> \o w, x)
<1>1. PICK S, f :
        /\ w \in Seq(S)
        /\ f \in [1 .. Len(w) + 1 -> Points]
        /\ f[1] = y /\ f[Len(w) + 1] = Final
        /\ \A k \in 1 .. Len(w) : Leads(w[k], f[k], f[k + 1])
  BY DEF Ready
<1>2. PICK n \in Nat : n = Len(w)
  BY <1>1, LenProperties
<1> DEFINE T == S \cup {a}
           g == [k \in 1 .. n + 2 |-> IF k = 1 THEN x ELSE f[k - 1]]
<1>3. PICK v : v = <<a>> \o w
  OBVIOUS
<1>4. <<a>> \in Seq(T) /\ w \in Seq(T) /\ Len(<<a>>) = 1 /\ <<a>>[1] = a
  <2>1. \A i \in 1 .. n : w[i] \in S
    BY <1>1, <1>2
  <2> QED
    BY <1>1, <1>2, <2>1
<1>5. /\ v \in Seq(T) /\ Len(v) = n + 1 /\ v[1] = a
      /\ \A k \in 2 .. n + 1 : v[k] = w[k - 1]
  <2> HIDE DEF T
  <2> QED
    BY <1>2, <1>3, <1>4, ConcatProperties
<1>6. g \in [1 .. n + 2 -> Points] /\ g[1] = x /\ g[n + 2] = Final
  <2>1. \A k \in 1 .. n + 2 : k # 1 => k - 1 \in 1 .. n + 1
    OBVIOUS
  <2> QED
    BY <1>1, <1>2, <2>1
<1>7. \A k \in 1 .. n + 1 : Leads(v[k], g[k], g[k + 1])
  <2> SUFFICES ASSUME NEW k \in 1 .. n + 1 PROVE Leads(v[k], g[k], g[k + 1])
    OBVIOUS
  <2>1. CASE k = 1
    <3>1. g[1] = x /\ g[2] = y /\ v[1] = a
      BY <1>1, <1>5
    <3> QED
      BY <2>1, <3>1
  <2>2. CASE k # 1
    <3>1. PICK j \in 1 .. n : j = k - 1
      BY <2>2
    <3>2. g[k] = f[j] /\ g[k + 1] = f[j + 1] /\ v[k] = w[j]
      BY <1>5, <2>2, <3>1
    <3> QED
      BY <1>1, <1>2, <3>1, <3>2
  <2> QED
    BY <2>1, <2>2
<1>8. Len(v) + 1 = n + 2
  BY <1>5
<1> QED
  <2> HIDE DEF g, T
  <2> QED
    BY <1>3, <1>5, <1>6, <1>7, <1>8 DEF Ready

LEMMA Front ==
  ASSUME NEW T, NEW s \in Seq(T), NEW u \in Seq(T), NEW a \in T,
         Len(s) = Len(u) + 1, s[1] = a, \A i \in 1 .. Len(u) : s[i + 1] = u[i]
  PROVE  s = <<a>> \o u
<1>1. PICK v : v = <<a>> \o u
  OBVIOUS
<1>2. PICK n \in Nat : n = Len(u)
  BY LenProperties
<1>3. <<a>> \in Seq(T) /\ Len(<<a>>) = 1 /\ <<a>>[1] = a
  OBVIOUS
<1>4. /\ v \in Seq(T) /\ Len(v) = n + 1
      /\ \A i \in 1 .. n + 1 : v[i] = IF i <= 1 THEN <<a>>[i] ELSE u[i - 1]
  BY <1>1, <1>2, <1>3, ConcatProperties
<1>5. \A i \in 1 .. n + 1 : v[i] = s[i]
  <2> TAKE i \in 1 .. n + 1
  <2>1. CASE i = 1
    BY <1>3, <1>4, <2>1
  <2>2. CASE i # 1
    <3>1. PICK j \in 1 .. n : j = i - 1
      BY <2>2
    <3>2. v[i] = u[j] /\ s[j + 1] = u[j] /\ j + 1 = i
      BY <1>2, <1>4, <2>2, <3>1
    <3> QED
      BY <3>2
  <2> QED
    BY <2>1, <2>2
<1> QED
  BY <1>1, <1>2, <1>4, <1>5, SeqEqual

\* A list of items in front of w, the first one first.
LEMMA Several2 ==
  ASSUME NEW S, NEW w \in Seq(S), NEW a, NEW b
  PROVE  <<a, b>> \o w = <<a>> \o (<<b>> \o w)
<1> DEFINE T == S \cup {a, b}
<1>1. w \in Seq(T) /\ <<a>> \in Seq(T) /\ a \in T
  BY SeqMonotonic
<1>2. <<a, b>> \in Seq(T) /\ <<a, b>>[1] = a
  OBVIOUS
<1>3. Len(<<a, b>>) = 2 /\ Len(<<b>>) = 1
  OBVIOUS
<1>4. \A i \in 1 .. 1 : <<a, b>>[i + 1] = <<b>>[i]
  OBVIOUS
<1>5. <<b>> \in Seq(T)
  OBVIOUS
<1> HIDE DEF T
<1>6. PICK s : s = <<a, b>>
  OBVIOUS
<1>7. PICK u : u = <<b>>
  OBVIOUS
<1>8. /\ s \in Seq(T) /\ u \in Seq(T) /\ Len(u) = 1 /\ Len(s) = Len(u) + 1
      /\ s[1] = a /\ \A i \in 1 .. Len(u) : s[i + 1] = u[i]
  BY <1>2, <1>3, <1>4, <1>5, <1>6, <1>7
<1>9. s = <<a>> \o u
  BY <1>1, <1>8, Front
<1>10. s \o w = <<a>> \o (u \o w)
  BY <1>1, <1>8, <1>9, ConcatAssociative
<1> QED
  BY <1>6, <1>7, <1>10

LEMMA Several3 ==
  ASSUME NEW S, NEW w \in Seq(S), NEW a, NEW b, NEW c
  PROVE  <<a, b, c>> \o w = <<a>> \o (<<b, c>> \o w)
<1> DEFINE T == S \cup {a, b, c}
<1>1. w \in Seq(T) /\ <<a>> \in Seq(T) /\ a \in T
  BY SeqMonotonic
<1>2. <<a, b, c>> \in Seq(T) /\ <<a, b, c>>[1] = a
  OBVIOUS
<1>3. Len(<<a, b, c>>) = 3 /\ Len(<<b, c>>) = 2
  OBVIOUS
<1>4. \A i \in 1 .. 2 : <<a, b, c>>[i + 1] = <<b, c>>[i]
  OBVIOUS
<1>5. <<b, c>> \in Seq(T)
  OBVIOUS
<1> HIDE DEF T
<1>6. PICK s : s = <<a, b, c>>
  OBVIOUS
<1>7. PICK u : u = <<b, c>>
  OBVIOUS
<1>8. /\ s \in Seq(T) /\ u \in Seq(T) /\ Len(u) = 2 /\ Len(s) = Len(u) + 1
      /\ s[1] = a /\ \A i \in 1 .. Len(u) : s[i + 1] = u[i]
  BY <1>2, <1>3, <1>4, <1>5, <1>6, <1>7
<1>9. s = <<a>> \o u
  BY <1>1, <1>8, Front
<1>10. s \o w = <<a>> \o (u \o w)
  BY <1>1, <1>8, <1>9, ConcatAssociative
<1> QED
  BY <1>6, <1>7, <1>10

LEMMA Several4 ==
  ASSUME NEW S, NEW w \in Seq(S), NEW a, NEW b, NEW c, NEW d
  PROVE  <<a, b, c, d>> \o w = <<a>> \o (<<b, c, d>> \o w)
<1> DEFINE T == S \cup {a, b, c, d}
<1>1. w \in Seq(T) /\ <<a>> \in Seq(T) /\ a \in T
  BY SeqMonotonic
<1>2. <<a, b, c, d>> \in Seq(T) /\ <<a, b, c, d>>[1] = a
  OBVIOUS
<1>3. Len(<<a, b, c, d>>) = 4 /\ Len(<<b, c, d>>) = 3
  OBVIOUS
<1>4. \A i \in 1 .. 3 : <<a, b, c, d>>[i + 1] = <<b, c, d>>[i]
  OBVIOUS
<1>5. <<b, c, d>> \in Seq(T)
  OBVIOUS
<1> HIDE DEF T
<1>6. PICK s : s = <<a, b, c, d>>
  OBVIOUS
<1>7. PICK u : u = <<b, c, d>>
  OBVIOUS
<1>8. /\ s \in Seq(T) /\ u \in Seq(T) /\ Len(u) = 3 /\ Len(s) = Len(u) + 1
      /\ s[1] = a /\ \A i \in 1 .. Len(u) : s[i + 1] = u[i]
  BY <1>2, <1>3, <1>4, <1>5, <1>6, <1>7
<1>9. s = <<a>> \o u
  BY <1>1, <1>8, Front
<1>10. s \o w = <<a>> \o (u \o w)
  BY <1>1, <1>8, <1>9, ConcatAssociative
<1> QED
  BY <1>6, <1>7, <1>10

LEMMA Several5 ==
  ASSUME NEW S, NEW w \in Seq(S), NEW a, NEW b, NEW c, NEW d, NEW e
  PROVE  <<a, b, c, d, e>> \o w = <<a>> \o (<<b, c, d, e>> \o w)
<1> DEFINE T == S \cup {a, b, c, d, e}
<1>1. w \in Seq(T) /\ <<a>> \in Seq(T) /\ a \in T
  BY SeqMonotonic
<1>2. <<a, b, c, d, e>> \in Seq(T) /\ <<a, b, c, d, e>>[1] = a
  OBVIOUS
<1>3. Len(<<a, b, c, d, e>>) = 5 /\ Len(<<b, c, d, e>>) = 4
  OBVIOUS
<1>4. \A i \in 1 .. 4 : <<a, b, c, d, e>>[i + 1] = <<b, c, d, e>>[i]
  OBVIOUS
<1>5. <<b, c, d, e>> \in Seq(T)
  OBVIOUS
<1> HIDE DEF T
<1>6. PICK s : s = <<a, b, c, d, e>>
  OBVIOUS
<1>7. PICK u : u = <<b, c, d, e>>
  OBVIOUS
<1>8. /\ s \in Seq(T) /\ u \in Seq(T) /\ Len(u) = 4 /\ Len(s) = Len(u) + 1
      /\ s[1] = a /\ \A i \in 1 .. Len(u) : s[i + 1] = u[i]
  BY <1>2, <1>3, <1>4, <1>5, <1>6, <1>7
<1>9. s = <<a>> \o u
  BY <1>1, <1>8, Front
<1>10. s \o w = <<a>> \o (u \o w)
  BY <1>1, <1>8, <1>9, ConcatAssociative
<1> QED
  BY <1>6, <1>7, <1>10


LEMMA Put2 ==
  ASSUME NEW a, NEW b, NEW w, NEW x \in Points, NEW x2 \in Points, NEW y,
         Leads(a, x, x2), Leads(b, x2, y), Ready(w, y)
  PROVE  Ready(<<a, b>> \o w, x)
<1>1. PICK S : w \in Seq(S)
  BY DEF Ready
<1>2. Ready(<<b>> \o w, x2)
  BY Put
<1>3. <<a, b>> \o w = <<a>> \o (<<b>> \o w)
  BY <1>1, Several2
<1> QED
  BY <1>2, <1>3, Put

LEMMA Put3 ==
  ASSUME NEW a, NEW b, NEW c, NEW w,
         NEW x \in Points, NEW x2 \in Points, NEW x3 \in Points, NEW y,
         Leads(a, x, x2), Leads(b, x2, x3), Leads(c, x3, y), Ready(w, y)
  PROVE  Ready(<<a, b, c>> \o w, x)
<1>1. PICK S : w \in Seq(S)
  BY DEF Ready
<1>2. Ready(<<b, c>> \o w, x2)
  BY Put2
<1>3. <<a, b, c>> \o w = <<a>> \o (<<b, c>> \o w)
  BY <1>1, Several3
<1> QED
  BY <1>2, <1>3, Put

LEMMA Put4 ==
  ASSUME NEW a, NEW b, NEW c, NEW d, NEW w,
         NEW x \in Points, NEW x2 \in Points, NEW x3 \in Points, NEW x4 \in Points, NEW y,
         Leads(a, x, x2), Leads(b, x2, x3), Leads(c, x3, x4), Leads(d, x4, y), Ready(w, y)
  PROVE  Ready(<<a, b, c, d>> \o w, x)
<1>1. PICK S : w \in Seq(S)
  BY DEF Ready
<1>2. Ready(<<b, c, d>> \o w, x2)
  BY Put3
<1>3. <<a, b, c, d>> \o w = <<a>> \o (<<b, c, d>> \o w)
  BY <1>1, Several4
<1> QED
  BY <1>2, <1>3, Put

LEMMA Put5 ==
  ASSUME NEW a, NEW b, NEW c, NEW d, NEW e, NEW w, NEW x \in Points,
         NEW x2 \in Points, NEW x3 \in Points, NEW x4 \in Points, NEW x5 \in Points, NEW y,
         Leads(a, x, x2), Leads(b, x2, x3), Leads(c, x3, x4), Leads(d, x4, x5), Leads(e, x5, y),
         Ready(w, y)
  PROVE  Ready(<<a, b, c, d, e>> \o w, x)
<1>1. PICK S : w \in Seq(S)
  BY DEF Ready
<1>2. Ready(<<b, c, d, e>> \o w, x2)
  BY Put4
<1>3. <<a, b, c, d, e>> \o w = <<a>> \o (<<b, c, d, e>> \o w)
  BY <1>1, Several5
<1> QED
  BY <1>2, <1>3, Put

LEMMA Put0 ==
  ASSUME NEW w, NEW x, Ready(w, x)
  PROVE  Ready(<<>> \o w, x)
<1>1. PICK S : w \in Seq(S)
  BY DEF Ready
<1> QED
  BY <1>1, ConcatEmptySeq

LEMMA Minimum ==
  ASSUME NEW S \in SUBSET Nat, S # {}
  PROVE  \E x \in S : \A y \in S : x <= y
<1>1. PICK x \in S : \A y \in S : ~(<<y, x>> \in OpToRel(<, Nat))
  BY NatLessThanWellFounded, WFMin
<1>2. \A y \in S : x <= y
  <2> TAKE y \in S
  <2>1. ~(y < x)
    BY <1>1 DEF OpToRel
  <2> QED
    BY <2>1
<1> QED
  BY <1>2

\* The base expected is the one that the innermost block has, or the program's.
LEMMA BaseOfBlock ==
  ASSUME NEW w, NEW x, Ready(w, x),
         \A i \in DOMAIN w :
           w[i].at = "block" /\ (\A j \in 1 .. (i - 1) : w[j].at # "block")
             => w[i].base.height = 0
  PROVE  x.base \in {-1, 0}
<1>1. PICK S, f :
        /\ w \in Seq(S)
        /\ f \in [1 .. Len(w) + 1 -> Points]
        /\ f[1] = x /\ f[Len(w) + 1] = Final
        /\ \A k \in 1 .. Len(w) : Leads(w[k], f[k], f[k + 1])
  BY DEF Ready
<1>2. PICK n \in Nat : n = Len(w) /\ DOMAIN w = 1 .. n
  BY <1>1, LenProperties
<1> DEFINE Good == {k \in 1 .. n + 1 : f[k].base \in {-1, 0}}
           Blocks == {k \in 1 .. n : w[k].at = "block"}
<1>3. \A k \in Blocks : (\A j \in 1 .. k - 1 : j \notin Blocks) => k \in Good
  <2> TAKE k \in Blocks
  <2> HAVE \A j \in 1 .. k - 1 : j \notin Blocks
  <2>1. k \in 1 .. n /\ w[k].at = "block"
    OBVIOUS
  <2>2. \A j \in 1 .. k - 1 : w[j].at # "block"
    OBVIOUS
  <2>3. w[k].base.height = 0
    BY <1>2, <2>1, <2>2
  <2>4. f[k].base = Level(w[k].base)
    BY <1>1, <1>2, <2>1 DEF Leads
  <2> QED
    BY <2>1, <2>3, <2>4 DEF Level
<1>4. \A k \in 1 .. n : k \notin Blocks => f[k].base = f[k + 1].base
  BY <1>1, <1>2 DEF Leads
<1>5. n + 1 \in Good
  BY <1>1, <1>2 DEF Final
<1>6. PICK m \in Good : \A k \in Good : m <= k
  <2>1. Good \in SUBSET Nat /\ Good # {}
    BY <1>5
  <2> HIDE DEF Good
  <2> QED
    BY <2>1, Minimum
<1>7. m \in 1 .. n + 1
  OBVIOUS
<1>8. m = 1
  <2> SUFFICES ASSUME m # 1 PROVE FALSE
    OBVIOUS
  <2>1. PICK k \in 1 .. n : k + 1 = m
    <3>1. m - 1 \in 1 .. n /\ (m - 1) + 1 = m
      BY <1>7
    <3> QED
      BY <3>1
  <2>2. k \notin Good
    <3>1. ~(m <= k)
      BY <2>1
    <3> QED
      BY <1>6, <3>1
  <2>3. k \in Blocks
    <3> SUFFICES ASSUME k \notin Blocks PROVE FALSE
      OBVIOUS
    <3>1. f[k].base = f[m].base
      BY <1>4, <2>1
    <3> QED
      BY <2>1, <2>2, <3>1, <1>6
  <2>4. PICK b \in Blocks : \A j \in Blocks : b <= j
    <3>1. Blocks \in SUBSET Nat /\ Blocks # {}
      BY <2>3
    <3> HIDE DEF Blocks
    <3> QED
      BY <3>1, Minimum
  <2>5. b \in Good
    <3>1. \A j \in 1 .. b - 1 : ~(b <= j)
      OBVIOUS
    <3>2. \A j \in 1 .. b - 1 : j \notin Blocks
      BY <2>4, <3>1
    <3> QED
      BY <1>3, <3>2
  <2>6. m <= b /\ b <= k
    BY <1>6, <2>3, <2>4, <2>5
  <2>7. b \in 1 .. n
    OBVIOUS
  <2> QED
    BY <1>7, <2>1, <2>6, <2>7
<1> QED
  BY <1>1, <1>6, <1>8

-----------------------------------------------------------------------------
(* The point of emission. *)

LEMMA AfterSound ==
  ASSUME NEW p, NEW a \in Heights, NEW b \in Heights, NEW e \in Nat \X Nat,
         Sound(p, a), Uses(a, b, e)
  PROVE  Sound(After(p, e), b)
<1>1. PICK q : q = Fault(p, p.height < e[1], "operands")
  OBVIOUS
<1>2. q = p
  BY <1>1 DEF Fault, Sound, Spots, Level, Uses, Heights
<1>3. PICK r : r = After(p, e)
  OBVIOUS
<1>4. r = [p EXCEPT !.height = IF p.dead THEN 0 ELSE @ - e[1] + e[2],
                    !.last = IF e = Globals.OP THEN "OP" ELSE "other"]
  BY <1>1, <1>2, <1>3 DEF After
<1>5. p \in Spots /\ e[1] \in Nat /\ e[2] \in Nat
  BY DEF Sound
<1>6. /\ r.dead = p.dead /\ r.faults = p.faults
      /\ r.height = IF p.dead THEN 0 ELSE p.height - e[1] + e[2]
      /\ r.last \in {"other", "OP"}
      /\ r \in [height : {r.height}, dead : BOOLEAN, last : {"other", "OP"}, faults : {{}}]
  BY <1>4, <1>5 DEF Spots
<1>7. r.height \in Nat /\ Level(r) \in {-1, b}
  BY <1>5, <1>6 DEF Sound, Spots, Level, Uses, Heights
<1> QED
  BY <1>3, <1>6, <1>7 DEF Sound, Spots

LEMMA DeadSound ==
  ASSUME NEW p \in Spots, NEW h
  PROVE  Sound(Dead(p), h) /\ Dead(p).dead = TRUE
BY DEF Sound, Spots, Dead, Level

LEMMA JoinSound ==
  ASSUME NEW p, NEW m, NEW h \in Heights, Sound(p, h), Meets(m, h)
  PROVE  Sound(Join(p, m), h)
<1>1. CASE p.dead
  BY <1>1 DEF Join, Sound, Spots, Level, Meets, Marks
<1>2. CASE ~p.dead
  <2>1. ~(~m.dead /\ m.height # p.height)
    BY <1>2 DEF Sound, Spots, Level, Meets, Marks, Heights
  <2>2. Join(p, m) = p
    BY <1>2, <2>1 DEF Join, Fault
  <2> QED
    BY <2>2
<1> QED
  BY <1>1, <1>2

LEMMA BackSound ==
  ASSUME NEW p, NEW m, NEW h \in Heights, NEW g, Sound(p, h), Meets(m, h)
  PROVE  Sound(Back(p, m), g)
<1>1. Fault(p, ~m.dead /\ m.height # p.height, "paths") = p
  BY DEF Fault, Sound, Spots, Level, Meets, Marks, Heights
<1> QED
  BY <1>1, DeadSound DEF Back, Sound

LEMMA ReturnedSound ==
  ASSUME NEW p, NEW g, Sound(p, 1)
  PROVE  Sound(Returned(p), g) /\ Returned(p).dead = TRUE
<1>1. Fault(p, p.height # 1, "return") = p
  BY DEF Fault, Sound, Spots, Level
<1> QED
  BY <1>1, DeadSound DEF Returned, Sound

LEMMA PutIfSound ==
  ASSUME NEW p, NEW a \in Heights, NEW b \in Heights, Sound(p, a), a = -1 \/ b = a + 1
  PROVE  Sound(PutIf(p), b)
<1>1. CASE p.last = "OP"
  <2>1. PutIf(p) = [p EXCEPT !.height = IF p.dead THEN 0 ELSE @ + 1, !.last = "other"]
    BY <1>1 DEF PutIf
  <2>2. PICK r : r = PutIf(p)
    OBVIOUS
  <2>3. p \in Spots
    BY DEF Sound
  <2>4. /\ r.height = (IF p.dead THEN 0 ELSE p.height + 1) /\ r.dead = p.dead
        /\ r \in [height : {r.height}, dead : BOOLEAN, last : {"other", "OP"}, faults : {{}}]
    BY <2>1, <2>2, <2>3 DEF Spots
  <2>5. r.height \in Nat /\ Level(r) \in {-1, b}
    BY <2>3, <2>4 DEF Sound, Spots, Level, Heights
  <2> QED
    BY <2>2, <2>4, <2>5 DEF Sound, Spots
<1>2. CASE p.last # "OP"
  <2>1. PICK c \in Heights : c = IF a = -1 THEN -1 ELSE b
    BY DEF Heights
  <2>2. Uses(a, c, <<0, 1>>)
    BY <2>1 DEF Uses, Heights
  <2>3. Sound(After(p, <<0, 1>>), c)
    BY <2>2, AfterSound
  <2>4. PutIf(p) = After(p, <<0, 1>>)
    BY <1>2 DEF PutIf, Registers
  <2> QED
    BY <2>1, <2>3, <2>4 DEF Sound
<1> QED
  BY <1>1, <1>2

LEMMA MarkMeets ==
  ASSUME NEW p, NEW h, Sound(p, h)
  PROVE  Meets(Mark(p), h)
BY DEF Sound, Spots, Mark, Meets, Marks, Level

LEMMA MarkMeetsOneMore ==
  ASSUME NEW p, NEW h \in Heights, NEW g, Sound(p, h), h = -1 \/ g = h + 1
  PROVE  MeetsOneMore(Mark(p), g)
BY DEF Sound, Spots, Mark, MeetsOneMore, Marks, Level

-----------------------------------------------------------------------------
(* What an action has to show. *)

\* The first item, its point and the one it leads to.
LEMMA Facing ==
  ASSUME Live, ~rotten, work # <<>>
  PROVE  \E x \in Points, y \in Points :
           Fits(x) /\ Ready(work, x) /\ Leads(Top, x, y) /\ Ready(Tail(work), y)
<1>1. PICK x \in Points : Ready(work, x) /\ Fits(x)
  BY DEF Live
<1>2. PICK y \in Points : Leads(Head(work), x, y) /\ Ready(Tail(work), y)
  BY <1>1, ReadyHead
<1> QED
  BY <1>1, <1>2 DEF Top

\* What is first and waits for a token just taken has a fresh point.
LEMMA FreshFirst ==
  ASSUME NEW w, NEW x, Ready(w, x), w # <<>>, Head(w).at \in Asking
  PROVE  x.fresh
BY ReadyHead DEF Leads

LEMMA Stays ==
  ASSUME NEW x \in Points, Fits(x), ~rotten, NEW items, NEW p, Stay(items, p),
         NEW z \in Points, Ready(items \o Tail(work), z), Sound(p, z.h), Counted(z),
         z.fresh => At("member")' /\ now # "var",
         z.base = x.base \/ (z.base = Level(point) /\ (now = "return" => point.height = 0))
  PROVE  Live'
<1>1. /\ ~rotten' /\ now' = now /\ opened' = opened
      /\ work' = items \o Tail(work) /\ point' = p
  BY DEF Stay, Become
<1>2. Ready(work', z)
  BY <1>1
<1>3. Answered'
  <2>1. CASE z.fresh
    BY <1>1, <2>1 DEF Answered, At
  <2>2. CASE ~z.fresh
    <3>1. work' # <<>> => Head(work').at \notin Asking
      BY <1>2, <2>2, FreshFirst
    <3> QED
      BY <3>1 DEF Answered, At, Asking
  <2> QED
    BY <2>1, <2>2
<1>4. now' = "return" => z.base \in {-1, 0}
  BY <1>1 DEF Fits, Level
<1>5. Sound(point', z.h)
  BY <1>1
<1>6. opened' = z.close \/ (opened' = z.close + 1 /\ z.inside /\ now' = "}")
  BY <1>1 DEF Counted
<1>7. PICK v : v = z
  OBVIOUS
<1>8. Fits(v)'
  BY <1>3, <1>4, <1>5, <1>6, <1>7 DEF Fits, Counted
<1> QED
  BY <1>2, <1>7, <1>8 DEF Live

\* The token that follows, where no construct is one of Quirks.
LEMMA NextToken ==
  ASSUME Quirks = {}, ~rotten', now' \in Offered
  PROVE  /\ now' \in Tokens
         /\ At("var")' /\ InScope' => now' = "="
         /\ At("forVar")' => now' # "="
         /\ At("member")' \/ At("members")' => now' # "var"
         /\ now' = "return" => point'.height = 0 /\ BlockAtBase'
BY CompilerAssumption DEF Offered, Following, At

Closing == IF now \in Openers THEN 1 ELSE IF now \in Closers THEN -1 ELSE 0

LEMMA Takes ==
  ASSUME Quirks = {}, ~rotten', now # "EOF", NEW items, NEW p, Take(items, p),
         NEW z \in Points, Ready(items \o Tail(work), z), Sound(p, z.h),
         opened + Closing = z.close
  PROVE  Live'
<1>1. /\ opened' = opened + Closing /\ now' \in Offered
      /\ work' = items \o Tail(work) /\ point' = p
  BY DEF Take, Become, Closing
<1>2. Ready(work', z)
  BY <1>1
<1>3. now' = "return" => z.base \in {-1, 0}
  <2> SUFFICES ASSUME now' = "return" PROVE z.base \in {-1, 0}
    OBVIOUS
  <2>1. BlockAtBase'
    BY <1>1, NextToken
  <2> QED
    BY <1>2, <2>1, BaseOfBlock DEF BlockAtBase
<1>4. Sound(point', z.h) /\ opened' = z.close
  BY <1>1
<1>5. PICK v : v = z
  OBVIOUS
<1>6. Fits(v)'
  BY <1>1, <1>3, <1>4, <1>5, NextToken DEF Fits, Counted, Answered
<1> QED
  BY <1>2, <1>5, <1>6 DEF Live

-----------------------------------------------------------------------------
(* Types, with any Quirks: what expressions save is put back as it was. *)

\* Items that may be in work after this step.
Savable(items) == \E S : items \in Seq(S) /\ \A s \in S : Saved(s)'

LEMMA Savable0 == Savable(<<>>)
<1>1. PICK S : S = {}
  OBVIOUS
<1>2. <<>> \in Seq(S) /\ \A s \in S : Saved(s)'
  BY <1>1
<1> QED
  BY <1>2 DEF Savable

LEMMA Savable1 ==
  ASSUME NEW a, a.at # "infix"
  PROVE  Savable(<<a>>)
<1>1. PICK S : S = {a}
  OBVIOUS
<1>2. <<a>> \in Seq(S)
  BY <1>1
<1>3. \A s \in S : Saved(s)'
  BY <1>1 DEF Saved
<1> QED
  BY <1>2, <1>3 DEF Savable

LEMMA Savable2 ==
  ASSUME NEW a, NEW b, a.at # "infix", b.at # "infix"
  PROVE  Savable(<<a, b>>)
<1>1. PICK S : S = {a, b}
  OBVIOUS
<1>2. <<a, b>> \in Seq(S)
  BY <1>1
<1>3. \A s \in S : Saved(s)'
  BY <1>1 DEF Saved
<1> QED
  BY <1>2, <1>3 DEF Savable

LEMMA Savable3 ==
  ASSUME NEW a, NEW b, NEW c, a.at # "infix", b.at # "infix", c.at # "infix"
  PROVE  Savable(<<a, b, c>>)
<1>1. PICK S : S = {a, b, c}
  OBVIOUS
<1>2. <<a, b, c>> \in Seq(S)
  BY <1>1
<1>3. \A s \in S : Saved(s)'
  BY <1>1 DEF Saved
<1> QED
  BY <1>2, <1>3 DEF Savable

LEMMA Savable4 ==
  ASSUME NEW a, NEW b, NEW c, NEW d,
         a.at # "infix", b.at # "infix", c.at # "infix", d.at # "infix"
  PROVE  Savable(<<a, b, c, d>>)
<1>1. PICK S : S = {a, b, c, d}
  OBVIOUS
<1>2. <<a, b, c, d>> \in Seq(S)
  BY <1>1
<1>3. \A s \in S : Saved(s)'
  BY <1>1 DEF Saved
<1> QED
  BY <1>2, <1>3 DEF Savable

LEMMA Savable5 ==
  ASSUME NEW a, NEW b, NEW c, NEW d, NEW e, a.at # "infix", b.at # "infix",
         c.at # "infix", d.at # "infix", e.at # "infix"
  PROVE  Savable(<<a, b, c, d, e>>)
<1>1. PICK S : S = {a, b, c, d, e}
  OBVIOUS
<1>2. <<a, b, c, d, e>> \in Seq(S)
  BY <1>1
<1>3. \A s \in S : Saved(s)'
  BY <1>1 DEF Saved
<1> QED
  BY <1>2, <1>3 DEF Savable

LEMMA SavableConcat ==
  ASSUME NEW u, NEW v, Savable(u), Savable(v)
  PROVE  Savable(u \o v)
<1>1. PICK S : u \in Seq(S) /\ \A s \in S : Saved(s)'
  BY DEF Savable
<1>2. PICK T : v \in Seq(T) /\ \A s \in T : Saved(s)'
  BY DEF Savable
<1> DEFINE R == S \cup T
<1>3. u \in Seq(R) /\ v \in Seq(R)
  BY <1>1, <1>2, SeqMonotonic
<1>4. \A s \in R : Saved(s)'
  BY <1>1, <1>2
<1> HIDE DEF R
<1>5. u \o v \in Seq(R)
  BY <1>3, ConcatProperties
<1> QED
  BY <1>4, <1>5 DEF Savable

LEMMA Becomes ==
  ASSUME Base, work # <<>>, NEW items, NEW p, Become(items, p), Savable(items), rotten => rotten'
  PROVE  /\ (\E S : work \in Seq(S))'
         /\ (\A i \in 1 .. Len(work) : Saved(work[i]))'
<1>1. PICK S : work \in Seq(S)
  BY DEF Base
<1>2. PICK n \in Nat : n = Len(work) /\ n >= 1
  <2>1. PICK n \in Nat : n = Len(work)
    BY <1>1, LenProperties
  <2>2. n >= 1
    BY <1>1, <2>1, EmptySeq, SMT
  <2> QED
    BY <2>1, <2>2
<1>3. /\ Tail(work) \in Seq(S) /\ Len(Tail(work)) = n - 1
      /\ \A k \in 1 .. n - 1 : Tail(work)[k] = work[k + 1]
  BY <1>1, <1>2
<1>4. PICK R : R = {work[k] : k \in 1 .. n}
  OBVIOUS
<1>5. \A s \in R : Saved(s)'
  <2> TAKE s \in R
  <2>1. PICK k \in 1 .. n : s = work[k]
    BY <1>4
  <2>2. Saved(s)
    BY <1>2, <2>1 DEF Base
  <2> QED
    BY <2>2 DEF Saved, Base
<1>6. Tail(work) \in Seq(R)
  <2>1. PICK m \in Nat : m = n - 1
    BY <1>2
  <2>2. \A k \in 1 .. m : Tail(work)[k] \in R
    <3> TAKE k \in 1 .. m
    <3>1. k + 1 \in 1 .. n /\ Tail(work)[k] = work[k + 1]
      BY <1>3, <2>1
    <3> QED
      BY <1>4, <3>1
  <2>3. PICK t : t = Tail(work)
    OBVIOUS
  <2>4. t \in Seq(S) /\ Len(t) = m /\ \A k \in 1 .. m : t[k] \in R
    BY <1>3, <2>1, <2>2, <2>3
  <2>5. t = [k \in 1 .. m |-> t[k]]
    BY <2>4
  <2>6. t \in [1 .. m -> R]
    BY <2>4, <2>5
  <2>7. t \in Seq(R)
    BY <2>6
  <2> QED
    BY <2>3, <2>7
<1>7. Savable(Tail(work))
  BY <1>5, <1>6 DEF Savable
<1>8. Savable(items \o Tail(work)) /\ Savable(<<>>)
  BY <1>7, SavableConcat, Savable0
<1>9. \E v : v = work' /\ Savable(v)
  BY <1>8 DEF Become
<1>10. PICK v, T : v = work' /\ v \in Seq(T) /\ \A s \in T : Saved(s)'
  BY <1>9 DEF Savable
<1>11. \A i \in 1 .. Len(v) : v[i] \in T
  BY <1>10, ElementOfSeq
<1>12. \A i \in 1 .. Len(v) : Saved(v[i])'
  <2> TAKE i \in 1 .. Len(v)
  <2>1. PICK s \in T : s = v[i]
    BY <1>11
  <2> QED
    BY <1>10, <2>1
<1> QED
  BY <1>10, <1>12

LEMMA BaseStay ==
  ASSUME Base, work # <<>>, NEW items, NEW p, Stay(items, p), Savable(items), permit' \in BOOLEAN
  PROVE  Base'
<1>1. Become(items, p) /\ (rotten => rotten')
  BY DEF Stay
<1>2. /\ (\E S : work \in Seq(S))'
      /\ (\A i \in 1 .. Len(work) : Saved(work[i]))'
  BY <1>1, Becomes
<1>3. /\ (now \in Tokens /\ permit \in BOOLEAN)'
      /\ (panic \in BOOLEAN /\ rotten \in BOOLEAN /\ (panic => rotten))'
      /\ (rotten => point = Start /\ opened = 0)'
  BY DEF Base, Stay, Become
<1> QED
  BY <1>2, <1>3 DEF Base

LEMMA BaseTake ==
  ASSUME Base, work # <<>>, NEW items, NEW p, Take(items, p), Savable(items), permit' \in BOOLEAN
  PROVE  Base'
<1>1. Become(items, p) /\ (rotten => rotten')
  BY DEF Take, Report
<1>2. /\ (\E S : work \in Seq(S))'
      /\ (\A i \in 1 .. Len(work) : Saved(work[i]))'
  BY <1>1, Becomes
<1>3. now' \in Tokens
  BY CompilerAssumption DEF Base, Take, Offered, Tokens
<1>4. (panic \in BOOLEAN /\ rotten \in BOOLEAN /\ (panic => rotten))'
  <2>1. CASE UNCHANGED <<panic, rotten>>
    BY <2>1 DEF Base
  <2>2. CASE Report
    BY <2>2 DEF Report
  <2> QED
    BY <2>1, <2>2 DEF Take
<1>5. (rotten => point = Start /\ opened = 0)'
  BY DEF Take, Become
<1> QED
  BY <1>2, <1>3, <1>4, <1>5 DEF Base

LEMMA BaseRefuse ==
  ASSUME Base, work # <<>>, NEW items, Refuse(items), Savable(items), permit' \in BOOLEAN
  PROVE  Base'
<1>1. Become(items, Start) /\ (rotten => rotten')
  BY DEF Refuse, Report
<1>2. /\ (\E S : work \in Seq(S))'
      /\ (\A i \in 1 .. Len(work) : Saved(work[i]))'
  BY <1>1, Becomes
<1>3. /\ (now \in Tokens /\ permit \in BOOLEAN)'
      /\ (panic \in BOOLEAN /\ rotten \in BOOLEAN /\ (panic => rotten))'
      /\ (rotten => point = Start /\ opened = 0)'
  BY DEF Base, Refuse, Become, Report
<1> QED
  BY <1>2, <1>3 DEF Base

LEMMA BaseStraight ==
  ASSUME Base,
         \/ ExpectToken \/ EmitCode \/ ConfirmJump \/ Program \/ Synchronize
         \/ ConstStatement \/ VarStatement \/ VarValue
         \/ ReturnStatement \/ ReturnCode \/ ExpressionStatement
  PROVE  Base'
<1> USE BaseStay, BaseTake, BaseRefuse, Savable0, Savable1, Savable2, Savable3, Savable4, Savable5
    DEF At, Do, Expr, Expect, Emit, Confirm
<1>0. permit \in BOOLEAN
  BY DEF Base
<1>1. CASE ExpectToken
  BY <1>0, <1>1 DEF ExpectToken
<1>2. CASE EmitCode
  BY <1>0, <1>2 DEF EmitCode
<1>3. CASE ConfirmJump
  BY <1>0, <1>3 DEF ConfirmJump
<1>4. CASE Program
  BY <1>0, <1>4 DEF Program
<1>5. CASE Synchronize
  <2>1. CASE ~panic /\ Stay(<<>>, point)
    BY <1>0, <1>5, <2>1 DEF Synchronize
  <2>2. CASE panic /\ now = "EOF" /\ panic' = FALSE /\ UNCHANGED <<now, rotten, opened>> /\ Become(<<>>, point)
    <3>1. /\ (\E S : work \in Seq(S))'
          /\ (\A i \in 1 .. Len(work) : Saved(work[i]))'
      BY <1>5, <2>2, Becomes DEF Synchronize
    <3> QED
      BY <1>5, <2>2, <3>1 DEF Base, Become, Synchronize
  <2>3. CASE /\ panic /\ now # "EOF"
             /\ panic' \in BOOLEAN /\ UNCHANGED <<rotten, opened>>
             /\ Become(<<>>, point)
             /\ now' \in Offered
    <3>1. /\ (\E S : work \in Seq(S))'
          /\ (\A i \in 1 .. Len(work) : Saved(work[i]))'
      BY <1>5, <2>3, Becomes DEF Synchronize
    <3>2. now' \in Tokens
      BY <2>3, CompilerAssumption DEF Offered
    <3> QED
      BY <1>5, <2>3, <3>1, <3>2 DEF Base, Become, Synchronize
  <2> QED
    BY <1>5, <2>1, <2>2, <2>3 DEF Synchronize
<1>6. CASE ConstStatement
  BY <1>0, <1>6 DEF ConstStatement
<1>7. CASE VarStatement
  BY <1>0, <1>7 DEF VarStatement
<1>8. CASE VarValue
  BY <1>0, <1>8 DEF VarValue
<1>9. CASE ReturnStatement
  <2>1. CASE Take(<<Expr(1), Do("return"), Expect(";")>>, point)
    BY <1>0, <1>9, <2>1 DEF ReturnStatement
  <2>2. CASE /\ Report
             /\ Become(<<Expr(1), Do("return"), Expect(";")>>, Start)
             /\ now' \in Offered
             /\ opened' = 0
    <3>1. Savable(<<Expr(1), Do("return"), Expect(";")>>)
      OBVIOUS
    <3>2. work # <<>> /\ rotten'
      BY <1>9, <2>2 DEF ReturnStatement, Report
    <3>3. /\ (\E S : work \in Seq(S))'
          /\ (\A i \in 1 .. Len(work) : Saved(work[i]))'
      BY <2>2, <3>1, <3>2, Becomes
    <3>4. now' \in Tokens
      BY <2>2, CompilerAssumption DEF Offered
    <3>5. permit' \in BOOLEAN
      BY <1>0, <1>9 DEF ReturnStatement
    <3> QED
      BY <2>2, <3>3, <3>4, <3>5 DEF Base, Become, Report
  <2> QED
    BY <1>9, <2>1, <2>2 DEF ReturnStatement
<1>10. CASE ReturnCode
  BY <1>0, <1>10 DEF ReturnCode
<1>11. CASE ExpressionStatement
  BY <1>0, <1>11 DEF ExpressionStatement
<1> QED
  BY <1>1, <1>2, <1>3, <1>4, <1>5, <1>6, <1>7, <1>8, <1>9, <1>10, <1>11

LEMMA BaseLoops ==
  ASSUME Base,
         \/ WhileStatement \/ WhileBody \/ ForStatement \/ ForInit \/ ForVar \/ ForCondition
         \/ ForExit \/ ForIncrement \/ ForBack \/ Loop
  PROVE  Base'
<1> USE BaseStay, BaseTake, BaseRefuse, Savable0, Savable1, Savable2, Savable3, Savable4, Savable5
    DEF At, Do, Expr, Expect, Emit, Confirm
<1>0. permit \in BOOLEAN
  BY DEF Base
<1>1. CASE WhileStatement
  BY <1>0, <1>1 DEF WhileStatement
<1>2. CASE WhileBody
  BY <1>0, <1>2 DEF WhileBody
<1>3. CASE ForStatement
  BY <1>0, <1>3 DEF ForStatement
<1>4. CASE ForInit
  BY <1>0, <1>4 DEF ForInit
<1>5. CASE ForVar
  BY <1>0, <1>5 DEF ForVar
<1>6. CASE ForCondition
  BY <1>0, <1>6 DEF ForCondition
<1>7. CASE ForExit
  BY <1>0, <1>7 DEF ForExit
<1>8. CASE ForIncrement
  BY <1>0, <1>8 DEF ForIncrement
<1>9. CASE ForBack
  BY <1>0, <1>9 DEF ForBack
<1>10. CASE Loop
  BY <1>0, <1>10 DEF Loop
<1> QED
  BY <1>1, <1>2, <1>3, <1>4, <1>5, <1>6, <1>7, <1>8, <1>9, <1>10

LEMMA TopSaved ==
  ASSUME Base, work # <<>>
  PROVE  Saved(Top)
<1>1. PICK S : work \in Seq(S)
  BY DEF Base
<1>2. 1 \in 1 .. Len(work) /\ Top = work[1]
  BY <1>1, EmptySeq DEF Top
<1> QED
  BY <1>2 DEF Base

LEMMA SavablePrefix ==
  ASSUME now \in HasPrefix
  PROVE  Savable(Prefix(now))
<1> USE Savable1, Savable2, Savable4 DEF Do, Expr, Expect, Emit, Confirm
<1>1. CASE now = "("
  BY <1>1 DEF Prefix
<1>2. CASE now = "-"
  BY <1>2 DEF Prefix
<1>3. CASE now = "atom"
  BY <1>3 DEF Prefix
<1>4. CASE now = "ident"
  BY <1>4 DEF Prefix
<1>5. CASE now = "if"
  BY <1>5 DEF Prefix
<1>6. CASE now = "class"
  BY <1>6 DEF Prefix
<1>7. CASE now = "fun"
  BY <1>7 DEF Prefix
<1>8. CASE now = "{"
  BY <1>8 DEF Prefix
<1> QED
  BY <1>1, <1>2, <1>3, <1>4, <1>5, <1>6, <1>7, <1>8 DEF HasPrefix

LEMMA SavableInfix == Savable(Infix(now))
<1> USE Savable1, Savable2, Savable3 DEF Do, Expr, Expect, Emit, Confirm
<1>1. CASE now = "or"
  BY <1>1 DEF Infix
<1>2. CASE now = "("
  BY <1>2 DEF Infix
<1>3. CASE now = "["
  BY <1>3 DEF Infix
<1>4. CASE now = "."
  BY <1>4 DEF Infix
<1>5. CASE now \notin {"or", "(", "[", "."}
  BY <1>5 DEF Infix
<1> QED
  BY <1>1, <1>2, <1>3, <1>4, <1>5

LEMMA BaseExpressions ==
  ASSUME Base,
         \/ Expression \/ Operator \/ EndExpression \/ Identifier \/ Then \/ Else
         \/ Arguments \/ Argument \/ Index \/ Field \/ SetField
  PROVE  Base'
<1> USE BaseStay, BaseTake, BaseRefuse, Savable0, Savable1, Savable2, Savable3, Savable4, Savable5
    DEF At, Do, Expr, Expect, Emit, Confirm
<1>0. permit \in BOOLEAN
  BY DEF Base
<1>1. CASE Expression
  <2>1. CASE now \in HasPrefix
    <3> DEFINE rest == <<[at |-> "infix", prec |-> Top.prec, permit |-> permit, panic |-> panic']>>
    <3>1. Take(Prefix(now) \o rest, point)
      BY <1>1, <2>1 DEF Expression
    <3>5. work # <<>>
      BY <1>1 DEF Expression
    <3>6. permit' \in BOOLEAN
      <4>1. permit' = (Top.prec <= 1)
        BY <1>1, <2>1 DEF Expression
      <4> QED
        BY <4>1
    <3>2. panic' \in BOOLEAN /\ (panic' => rotten')
      <4>1. CASE UNCHANGED <<panic, rotten>>
        BY <4>1 DEF Base
      <4>2. CASE Report
        BY <4>2 DEF Report
      <4> HIDE DEF rest
      <4> QED
        BY <3>1, <4>1, <4>2 DEF Take
    <3>3. Savable(rest)
      <4>1. PICK r : r = [at |-> "infix", prec |-> Top.prec, permit |-> permit, panic |-> panic']
        OBVIOUS
      <4>2. Saved(r)'
        BY <1>0, <3>2, <4>1 DEF Saved
      <4>3. PICK S : S = {r}
        OBVIOUS
      <4>4. <<r>> \in Seq(S) /\ \A s \in S : Saved(s)'
        BY <4>2, <4>3
      <4> QED
        BY <4>1, <4>4 DEF Savable
    <3>4. Savable(Prefix(now))
      BY <2>1, SavablePrefix
    <3> HIDE DEF rest
    <3> QED
      BY <3>1, <3>3, <3>4, <3>5, <3>6, SavableConcat, BaseTake
  <2>2. CASE now \notin HasPrefix
    BY <1>0, <1>1, <2>2 DEF Expression
  <2> QED
    BY <2>1, <2>2
<1>2. CASE Operator
  <2>1. Take(Infix(now) \o <<Top>>, InfixCode(now)) /\ permit' \in BOOLEAN /\ work # <<>>
    BY <1>0, <1>2 DEF Operator
  <2>2. Savable(<<Top>>)
    <3>1. PICK r : r = Top
      OBVIOUS
    <3>2. Saved(r)'
      <4>1. Saved(r)
        BY <2>1, <3>1, TopSaved
      <4> QED
        BY <2>1, <4>1 DEF Saved, Take, Report
    <3>3. PICK S : S = {r}
      OBVIOUS
    <3>4. <<r>> \in Seq(S) /\ \A s \in S : Saved(s)'
      BY <3>2, <3>3
    <3> QED
      BY <3>1, <3>4 DEF Savable
  <2>3. Savable(Infix(now))
    BY SavableInfix
  <2> QED
    BY <2>1, <2>2, <2>3, SavableConcat, BaseTake
<1>3. CASE EndExpression
  <2>1. work # <<>> /\ Top.at = "infix" /\ Saved(Top)
    BY <1>3, TopSaved DEF EndExpression, Top
  <2>2. /\ (\E S : work \in Seq(S))'
        /\ (\A i \in 1 .. Len(work) : Saved(work[i]))'
    BY <1>3, <2>1, Becomes DEF EndExpression
  <2>3. permit' \in BOOLEAN
    BY <1>3, <2>1 DEF EndExpression, Saved
  <2>4. (panic \in BOOLEAN /\ rotten \in BOOLEAN /\ (panic => rotten))'
    BY <1>3, <2>1 DEF EndExpression, Saved, Base
  <2> QED
    BY <1>3, <2>2, <2>3, <2>4 DEF Base, Become, EndExpression
<1>4. CASE Identifier
  BY <1>0, <1>4 DEF Identifier
<1>5. CASE Then
  BY <1>0, <1>5 DEF Then
<1>6. CASE Else
  BY <1>0, <1>6 DEF Else
<1>7. CASE Arguments
  BY <1>0, <1>7 DEF Arguments
<1>8. CASE Argument
  BY <1>0, <1>8 DEF Argument
<1>9. CASE Index
  BY <1>0, <1>9 DEF Index
<1>10. CASE Field
  BY <1>0, <1>10 DEF Field
<1>11. CASE SetField
  BY <1>0, <1>11 DEF SetField
<1> QED
  BY <1>1, <1>2, <1>3, <1>4, <1>5, <1>6, <1>7, <1>8, <1>9, <1>10, <1>11

LEMMA BaseLiterals ==
  ASSUME Base,
         \/ BeginBlock \/ Block \/ BeginFun \/ Parameters \/ Parameter \/ Enter
         \/ EndFun \/ Member \/ BeginMethod \/ EndMethod \/ FieldValue \/ EndMember
  PROVE  Base'
<1> USE BaseStay, BaseTake, BaseRefuse, Savable0, Savable1, Savable2, Savable3, Savable4, Savable5
    DEF At, Do, Expr, Expect, Emit, Confirm
<1>0. permit \in BOOLEAN
  BY DEF Base
<1>1. CASE BeginBlock
  BY <1>0, <1>1 DEF BeginBlock
<1>2. CASE Block
  BY <1>0, <1>2 DEF Block, Top
<1>3. CASE BeginFun
  BY <1>0, <1>3 DEF BeginFun
<1>4. CASE Parameters
  BY <1>0, <1>4 DEF Parameters
<1>5. CASE Parameter
  BY <1>0, <1>5 DEF Parameter
<1>6. CASE Enter
  BY <1>0, <1>6 DEF Enter
<1>7. CASE EndFun
  BY <1>0, <1>7 DEF EndFun
<1>8. CASE Member
  BY <1>0, <1>8 DEF Member
<1>9. CASE BeginMethod
  BY <1>0, <1>9 DEF BeginMethod
<1>10. CASE EndMethod
  BY <1>0, <1>10 DEF EndMethod
<1>11. CASE FieldValue
  BY <1>0, <1>11 DEF FieldValue
<1>12. CASE EndMember
  BY <1>0, <1>12 DEF EndMember
<1> QED
  BY <1>1, <1>2, <1>3, <1>4, <1>5, <1>6, <1>7, <1>8, <1>9, <1>10, <1>11, <1>12

-----------------------------------------------------------------------------
(* Straight code. *)

USE DEF Effect, Between, Closes, InBlock, Enclosing, Separate, Asking

More(h) == IF h = -1 THEN -1 ELSE h + 1

Less(h) == IF h = -1 THEN -1 ELSE h - 1

\* A point between the items of an action.
Is(z, h, base, close, inside, fresh) ==
  /\ z \in Points
  /\ z.h = h /\ z.base = base /\ z.close = close /\ z.inside = inside /\ z.fresh = fresh

LEMMA APoint ==
  ASSUME NEW h \in Heights, NEW base \in Heights, NEW close \in Nat,
         NEW inside \in BOOLEAN, NEW fresh \in BOOLEAN
  PROVE  \E z : Is(z, h, base, close, inside, fresh)
<1>1. PICK z : z = [h |-> h, base |-> base, close |-> close, inside |-> inside, fresh |-> fresh]
  OBVIOUS
<1>2. Is(z, h, base, close, inside, fresh)
  BY <1>1 DEF Is, Points
<1> QED
  BY <1>2

LEMMA APointInside ==
  ASSUME NEW h \in Heights, NEW base \in Heights, NEW close \in Nat,
         NEW inside \in BOOLEAN, NEW fresh \in BOOLEAN
  PROVE  \E z : Is(z, h, base, close + 1, inside, fresh)
<1>1. close + 1 \in Nat
  OBVIOUS
<1> QED
  BY <1>1, APoint

LEMMA NextHeights ==
  ASSUME NEW h \in Heights
  PROVE  /\ More(h) \in Heights /\ More(h) # 0
         /\ h # 0 => Less(h) \in Heights /\ More(Less(h)) = h
BY DEF More, Less, Heights

\* The heights of code with one operand more, or less.
LEMMA UsesSame ==
  ASSUME NEW a \in Heights, NEW b \in Heights
  PROVE  /\ Uses(a, b, <<0, 0>>) <=> a = b
         /\ Uses(a, b, <<1, 1>>) <=> a = b /\ a # 0
<1>1. <<0, 0>>[1] = 0 /\ <<0, 0>>[2] = 0 /\ <<1, 1>>[1] = 1 /\ <<1, 1>>[2] = 1
  OBVIOUS
<1>2. CASE a = -1
  BY <1>2 DEF Uses
<1>3. CASE a # -1
  <2>1. PICK n \in Nat : n = a
    BY <1>3 DEF Heights
  <2>2. (n - 0) + 0 = n /\ (n - 1) + 1 = n
    OBVIOUS
  <2> QED
    BY <1>1, <1>3, <2>1, <2>2 DEF Uses
<1> QED
  BY <1>2, <1>3

LEMMA UsesOneMore ==
  ASSUME NEW a \in Heights, NEW b \in Heights
  PROVE  Uses(a, b, <<0, 1>>) <=> b = More(a)
<1>1. <<0, 1>>[1] = 0 /\ <<0, 1>>[2] = 1
  OBVIOUS
<1>2. CASE a = -1
  BY <1>2 DEF Uses, More
<1>3. CASE a # -1
  <2>1. PICK n \in Nat : n = a
    BY <1>3 DEF Heights
  <2>2. (n - 0) + 1 = n + 1
    OBVIOUS
  <2> QED
    BY <1>1, <1>3, <2>1, <2>2 DEF Uses, More
<1> QED
  BY <1>2, <1>3

LEMMA UsesOneLess ==
  ASSUME NEW a \in Heights, NEW b \in Heights
  PROVE  /\ Uses(a, b, <<1, 0>>) <=> a = More(b)
         /\ Uses(a, b, <<2, 1>>) <=> a = More(b) /\ b # 0
<1>1. <<1, 0>>[1] = 1 /\ <<1, 0>>[2] = 0 /\ <<2, 1>>[1] = 2 /\ <<2, 1>>[2] = 1
  OBVIOUS
<1>2. CASE a = -1
  BY <1>2 DEF Uses, More, Heights
<1>3. CASE a # -1
  <2>1. PICK n \in Nat : n = a
    BY <1>3 DEF Heights
  <2>2. CASE b = -1
    BY <1>1, <1>3, <2>1, <2>2 DEF Uses, More
  <2>3. CASE b # -1
    <3>1. PICK m \in Nat : m = b
      BY <2>3 DEF Heights
    <3>2. (n >= 1 /\ m = (n - 1) + 0) <=> n = m + 1
      OBVIOUS
    <3>3. (n >= 2 /\ m = (n - 2) + 1) <=> n = m + 1 /\ m # 0
      OBVIOUS
    <3> QED
      BY <1>1, <1>3, <2>1, <2>3, <3>1, <3>2, <3>3 DEF Uses, More
  <2> QED
    BY <2>2, <2>3
<1> QED
  BY <1>2, <1>3

\* One operand more for a call with one argument more.
LEMMA UsesArgument ==
  ASSUME NEW a \in Heights, NEW b \in Heights, NEW n \in Nat
  PROVE  Uses(a, b, <<n, 1>>) <=> Uses(More(a), b, <<n + 1, 1>>)
<1>1. CASE a = -1
  BY <1>1 DEF Uses, More
<1>2. CASE a # -1
  <2>1. PICK m \in Nat : m = a
    BY <1>2 DEF Heights
  <2>2. More(a) = m + 1 /\ m + 1 # -1
    BY <1>2, <2>1 DEF More
  <2>3. (m >= n <=> m + 1 >= n + 1) /\ (m - n) + 1 = ((m + 1) - (n + 1)) + 1
    OBVIOUS
  <2> QED
    BY <1>2, <2>1, <2>2, <2>3 DEF Uses
<1> QED
  BY <1>1, <1>2

LEMMA LeadsExpect ==
  ASSUME NEW t, t \notin {"}", "EOF"}, NEW x \in Points, NEW y \in Points,
         y.h = x.h, x.base = y.base,
         x.close = y.close + (IF t \in Openers THEN -1 ELSE IF t \in Closers THEN 1 ELSE 0)
  PROVE  Leads(Expect(t), x, y)
<1>1. PICK a : a = Expect(t)
  OBVIOUS
<1>2. a.at = "expect" /\ a.token = t
  BY <1>1 DEF Expect
<1>3. Closes(a) = IF t \in Openers THEN -1 ELSE IF t \in Closers THEN 1 ELSE 0
  BY <1>2
<1>4. Effect(a) = <<0, 0>>
  BY <1>2
<1>5. Uses(x.h, y.h, <<0, 0>>)
  BY UsesSame DEF Points
<1> HIDE DEF Closes, Effect
<1> QED
  BY <1>1, <1>2, <1>3, <1>4, <1>5 DEF Leads, Typed, Lands, Balanced

LEMMA LeadsToken ==
  ASSUME NEW t, t \notin Openers \cup Closers, t # "EOF", NEW x \in Points, NEW y \in Points,
         y.h = x.h, x.base = y.base, x.close = y.close
  PROVE  Leads(Expect(t), x, y)
<1>1. x.close = y.close + 0
  BY DEF Points
<1> QED
  BY <1>1, LeadsExpect DEF Closers

LEMMA LeadsOpener ==
  ASSUME NEW t \in Openers, NEW x \in Points, NEW y \in Points,
         y.h = x.h, x.base = y.base, y.close = x.close + 1
  PROVE  Leads(Expect(t), x, y)
<1>1. x.close = y.close + (-1)
  BY DEF Points
<1> QED
  BY <1>1, LeadsExpect DEF Openers

LEMMA LeadsCloser ==
  ASSUME NEW t \in Closers \ {"}"}, NEW x \in Points, NEW y \in Points,
         y.h = x.h, x.base = y.base, x.close = y.close + 1
  PROVE  Leads(Expect(t), x, y)
<1>1. t \notin Openers /\ t # "EOF"
  BY DEF Openers, Closers
<1> QED
  BY <1>1, LeadsExpect

LEMMA LeadsExpr ==
  ASSUME NEW n \in Nat \ {0}, NEW x \in Points, NEW y \in Points,
         y.h = More(x.h), x.base = y.base, x.close = y.close, ~x.inside, y.inside, ~y.fresh
  PROVE  Leads(Expr(n), x, y)
BY DEF Expr, Leads, Typed, Lands, Balanced, Uses, Points, Heights, More

LEMMA LeadsEmit ==
  ASSUME NEW e \in Nat \X Nat, NEW x \in Points, NEW y \in Points,
         Uses(x.h, y.h, e), x.base = y.base, x.close = y.close, y.inside, ~y.fresh
  PROVE  Leads(Emit(e), x, y)
<1>1. PICK a : a = Emit(e)
  OBVIOUS
<1>2. a.at = "emit" /\ a.effect = e
  BY <1>1 DEF Emit
<1>3. Closes(a) = 0
  BY <1>2
<1>4. Effect(a) = e
  BY <1>2
<1> HIDE DEF Closes, Effect
<1>5. x.close = y.close + 0
  BY DEF Points
<1> QED
  BY <1>1, <1>2, <1>3, <1>4, <1>5 DEF Leads, Typed, Lands, Balanced

LEMMA LeadsConfirm ==
  ASSUME NEW m, NEW x \in Points, NEW y \in Points, Meets(m, y.h),
         x.h = y.h, x.base = y.base, x.close = y.close, y.inside, ~y.fresh
  PROVE  Leads(Confirm(m), x, y)
BY DEF Confirm, Leads, Typed, Lands, Balanced, Uses, Points, Heights

LEMMA LeadsStatement ==
  ASSUME NEW x \in Points, NEW y \in Points, x.h = y.h, y.h = y.base,
         x.base = y.base, x.close = y.close, ~x.inside, ~y.fresh
  PROVE  Leads(Do("statement"), x, y)
BY DEF Do, Leads, Typed, Lands, Balanced, Uses, Points, Heights

LEMMA UnspoiledTake ==
  ASSUME Base, NEW items, NEW p, Take(items, p), ~rotten'
  PROVE  ~rotten /\ ~panic
BY DEF Base, Take, Report

LEMMA UnspoiledStay ==
  ASSUME Base, NEW items, NEW p, Stay(items, p), ~rotten'
  PROVE  ~rotten /\ ~panic
BY DEF Base, Stay

LEMMA Spoiled ==
  ASSUME NEW items, Refuse(items)
  PROVE  rotten'
BY DEF Refuse, Report

\* A token other than the brace of an empty block was counted.
LEMMA AllCounted ==
  ASSUME NEW x, Fits(x), now # "}" \/ ~x.inside
  PROVE  opened = x.close
BY DEF Fits, Counted

\* An action that takes the first item out and stays: its code fits the item's promise.
LEMMA Pops ==
  ASSUME NEW x \in Points, NEW y \in Points, Fits(x), ~rotten, NEW p, Stay(<<>>, p),
         Leads(Top, x, y), Ready(Tail(work), y), Sound(p, y.h),
         Closes(Top) = 0, Top.at \notin {"block", "expect"},
         x.inside => Top.at \notin Separate
  PROVE  Live'
<1>1. /\ y.close = x.close /\ (x.inside => y.inside) /\ ~y.fresh /\ y.base = x.base
  BY DEF Leads, Points
<1>2. Ready(<<>> \o Tail(work), y)
  BY Put0
<1>3. Counted(y)
  BY <1>1 DEF Fits, Counted
<1> QED
  BY <1>1, <1>2, <1>3, Stays

LEMMA LiveEmitCode ==
  ASSUME CInv, EmitCode, ~rotten'
  PROVE  Live'
<1>1. ~rotten /\ work # <<>> /\ Top.at = "emit" /\ Stay(<<>>, After(point, Top.effect))
  BY DEF EmitCode, At, Stay, Top
<1>2. PICK x \in Points, y \in Points :
        Fits(x) /\ Ready(work, x) /\ Leads(Top, x, y) /\ Ready(Tail(work), y)
  BY <1>1, Facing DEF CInv
<1>3. Sound(After(point, Top.effect), y.h)
  <2>1. Top.effect \in Nat \X Nat /\ Uses(x.h, y.h, Top.effect)
    BY <1>1, <1>2 DEF Leads, Typed, Balanced, Effect, Between
  <2> QED
    BY <1>2, <2>1, AfterSound DEF Fits, Points
<1> QED
  BY <1>1, <1>2, <1>3, Pops DEF Closes, Separate

LEMMA LiveConfirmJump ==
  ASSUME CInv, ConfirmJump, ~rotten'
  PROVE  Live'
<1>1. ~rotten /\ work # <<>> /\ Top.at = "confirm" /\ Stay(<<>>, Join(point, Top.jump))
  BY DEF ConfirmJump, At, Stay, Top
<1>2. PICK x \in Points, y \in Points :
        Fits(x) /\ Ready(work, x) /\ Leads(Top, x, y) /\ Ready(Tail(work), y)
  BY <1>1, Facing DEF CInv
<1>3. Sound(Join(point, Top.jump), y.h)
  <2>1. Meets(Top.jump, y.h) /\ x.h = y.h
    BY <1>1, <1>2 DEF Leads, Lands, Balanced, Effect, Between, Uses, Points, Heights
  <2> QED
    BY <1>2, <2>1, JoinSound DEF Fits, Points
<1> QED
  BY <1>1, <1>2, <1>3, Pops DEF Closes, Separate

LEMMA LiveExpectToken ==
  ASSUME CInv, Quirks = {}, ExpectToken, ~rotten'
  PROVE  Live'
<1>1. /\ ~rotten /\ work # <<>> /\ Top.at = "expect"
      /\ now = Top.token /\ Take(<<>>, point)
  BY DEF ExpectToken, At, Take, Refuse, Report, Top, CInv, Base
<1>2. PICK x \in Points, y \in Points :
        Fits(x) /\ Ready(work, x) /\ Leads(Top, x, y) /\ Ready(Tail(work), y)
  BY <1>1, Facing DEF CInv
<1>3. now \notin {"}", "EOF"} /\ opened = x.close
  BY <1>1, <1>2 DEF Leads, Typed, Fits, Counted
<1>4. Sound(point, y.h)
  BY <1>1, <1>2 DEF Leads, Balanced, Effect, Between, Uses, Points, Heights, Fits
<1>5. opened + Closing = y.close
  <2>1. Closes(Top) = IF now \in Openers THEN -1 ELSE IF now \in Closers THEN 1 ELSE 0
    BY <1>1 DEF Closes
  <2>2. x.close = y.close + Closes(Top) /\ x.close \in Nat /\ y.close \in Nat
    BY <1>2 DEF Leads, Points
  <2>6. PICK o \in Nat : o = opened /\ o = x.close
    BY <1>3, <2>2
  <2>7. PICK c \in Nat : c = y.close
    BY <2>2
  <2>8. PICK d \in Int : d = Closes(Top)
    BY <2>1
  <2>3. o = c + d
    BY <2>2, <2>6, <2>7, <2>8
  <2>4. Closing = 0 - d
    BY <2>1, <2>8 DEF Closing
  <2>5. o + (0 - d) = c
    BY <2>3
  <2> QED
    BY <2>4, <2>5, <2>6, <2>7
<1>6. Ready(<<>> \o Tail(work), y)
  BY <1>2, Put0
<1> QED
  BY <1>1, <1>3, <1>4, <1>5, <1>6, Takes

LEMMA LiveProgram ==
  ASSUME CInv, Program, ~rotten'
  PROVE  Live'
<1>1. ~rotten /\ work # <<>> /\ Top = Head(work) /\ Top.at = "program"
  BY DEF Program, At, Stay, Top
<1>2. PICK x \in Points, y \in Points :
        Fits(x) /\ Ready(work, x) /\ Leads(Top, x, y) /\ Ready(Tail(work), y)
  BY <1>1, Facing DEF CInv
<1>3. /\ x.h = y.h /\ y.h = y.base /\ x.base = y.base /\ x.close = y.close /\ ~x.inside /\ ~y.fresh
  BY <1>1, <1>2 DEF Leads, Balanced, Effect, Between, Uses, Points, Heights, Closes, InBlock, Enclosing
<1>4. CASE now = "EOF"
  <2>1. Stay(<<>>, point) /\ Sound(point, y.h)
    BY <1>2, <1>3, <1>4 DEF Program, Fits
  <2> QED
    BY <1>1, <1>2, <1>3, <2>1, Pops DEF Closes
<1>5. CASE now # "EOF"
  <2> DEFINE z == [x EXCEPT !.fresh = FALSE]
  <2>1. Stay(<<Do("statement"), Do("synchronize"), Do("program")>>, point)
    BY <1>5 DEF Program
  <2>2. z \in Points
    BY DEF Points
  <2>3. /\ Leads(Do("statement"), z, z) /\ Leads(Do("synchronize"), z, z)
        /\ Leads(Do("program"), z, y)
    BY <1>1, <1>2, <1>3 DEF Leads, Typed, Lands, Balanced, Do, Effect, Between, Uses, Points,
      Heights, Closes, InBlock, Enclosing, Separate, Asking
  <2>4. Ready(<<Do("statement"), Do("synchronize"), Do("program")>> \o Tail(work), z)
    BY <1>2, <2>2, <2>3, Put3
  <2> QED
    BY <1>1, <1>2, <1>3, <2>1, <2>2, <2>4, Stays DEF Fits, Points, Counted
<1> QED
  BY <1>4, <1>5

LEMMA LiveSynchronize ==
  ASSUME CInv, Synchronize, ~rotten'
  PROVE  Live'
<1>1. ~rotten /\ work # <<>> /\ Top.at = "synchronize"
  <2>1. ~rotten
    BY UnspoiledStay DEF Synchronize, CInv
  <2> QED
    BY <2>1 DEF Synchronize, At, Top
<1>2. PICK x \in Points, y \in Points :
        Fits(x) /\ Ready(work, x) /\ Leads(Top, x, y) /\ Ready(Tail(work), y)
  BY <1>1, Facing DEF CInv
<1>3. /\ x.h \in Heights /\ y.h \in Heights /\ x.base \in Heights /\ x.close \in Nat
      /\ y.close \in Nat /\ x.inside \in BOOLEAN /\ x.h = y.h /\ ~x.inside /\ ~panic
  BY <1>1, <1>2, UsesSame, UsesOneMore, UsesOneLess DEF Leads, Typed, Lands, Balanced, Points,
    CInv, Base
<1>4. Stay(<<>>, point) /\ Sound(point, y.h)
  BY <1>1, <1>2, <1>3 DEF Synchronize, Fits
<1> QED
  BY <1>1, <1>2, <1>3, <1>4, Pops

LEMMA LiveConstStatement ==
  ASSUME CInv, Quirks = {}, ConstStatement, ~rotten'
  PROVE  Live'
<1>1. ~rotten /\ work # <<>> /\ Top.at = "statement"
  <2>1. ~rotten
    BY UnspoiledTake DEF ConstStatement, CInv
  <2> QED
    BY <2>1 DEF ConstStatement, At, Top
<1>2. PICK x \in Points, y \in Points :
        Fits(x) /\ Ready(work, x) /\ Leads(Top, x, y) /\ Ready(Tail(work), y)
  BY <1>1, Facing DEF CInv
<1>3. /\ x.h \in Heights /\ y.h \in Heights /\ x.base \in Heights /\ x.close \in Nat
      /\ y.close \in Nat /\ x.inside \in BOOLEAN /\ y.h = x.h /\ y.h = y.base
      /\ x.base = y.base /\ x.close = y.close /\ ~x.inside /\ ~y.fresh
  BY <1>1, <1>2, UsesSame, UsesOneMore, UsesOneLess DEF Leads, Typed, Lands, Balanced, Points
<1>4. /\ now = "const"
      /\ Take(<<Expect("ident"), Expect("="), Expr(1), Emit(<<1, 0>>), Expect(";")>>, point)
  BY DEF ConstStatement, Store, Define, Registers, Globals
<1>5. now = "const"
  BY <1>4
<1> QED
  <2>1. PICK z1 : Is(z1, x.h, x.base, x.close, FALSE, FALSE)
    BY <1>3, APoint
  <2>2. PICK z2 : Is(z2, x.h, x.base, x.close, FALSE, FALSE)
    BY <1>3, APoint
  <2>3. PICK z3 : Is(z3, x.h, x.base, x.close, FALSE, FALSE)
    BY <1>3, APoint
  <2>4. PICK z4 : Is(z4, More(x.h), x.base, x.close, TRUE, FALSE)
    BY <1>3, APoint, NextHeights
  <2>5. PICK z5 : Is(z5, x.h, x.base, x.close, TRUE, FALSE)
    BY <1>3, APoint
  <2>6. Leads(Expect("ident"), z1, z2)
    BY <2>1, <2>2, LeadsToken DEF Is, Openers, Closers
  <2>7. Leads(Expect("="), z2, z3)
    BY <2>2, <2>3, LeadsToken DEF Is, Openers, Closers
  <2>8. Leads(Expr(1), z3, z4)
    BY <2>3, <2>4, LeadsExpr DEF Is
  <2>9. Leads(Emit(<<1, 0>>), z4, z5)
    <3>1. <<1, 0>> \in Nat \X Nat
      OBVIOUS
    <3>2. Uses(z4.h, z5.h, <<1, 0>>)
      BY <2>4, <2>5, NextHeights, UsesSame, UsesOneMore, UsesOneLess DEF Is, Points
    <3> QED
      BY <2>4, <2>5, <3>1, <3>2, LeadsEmit DEF Is
  <2>10. Leads(Expect(";"), z5, y)
    BY <1>3, <2>5, LeadsToken DEF Is, Openers, Closers
  <2>11. Ready(<<Expect("ident"), Expect("="), Expr(1),
                 Emit(<<1, 0>>), Expect(";")>> \o Tail(work), z1)
    <3>1. z1 \in Points /\ z2 \in Points /\ z3 \in Points /\ z4 \in Points /\ z5 \in Points
      BY <2>1, <2>2, <2>3, <2>4, <2>5 DEF Is
    <3>2. PICK a, b, c, d, e : /\ a = Expect("ident") /\ b = Expect("=")
                               /\ c = Expr(1) /\ d = Emit(<<1, 0>>) /\ e = Expect(";")
      OBVIOUS
    <3>3. /\ Leads(a, z1, z2) /\ Leads(b, z2, z3) /\ Leads(c, z3, z4)
          /\ Leads(d, z4, z5) /\ Leads(e, z5, y) /\ Ready(Tail(work), y)
      BY <1>2, <2>6, <2>7, <2>8, <2>9, <2>10, <3>2
    <3>4. Ready(<<a, b, c, d, e>> \o Tail(work), z1)
      BY <3>1, <3>3, Put5
    <3> QED
      BY <3>2, <3>4
  <2>12. Sound(point, z1.h)
    BY <1>2, <1>3, <2>1 DEF Is, Fits
  <2>13. now # "EOF" /\ opened + Closing = z1.close
    <3>1. opened = x.close
      BY <1>2, <1>3, <1>5, AllCounted
    <3>2. now # "EOF" /\ Closing = 0
      BY <1>5 DEF Closing, Openers, Closers
    <3> QED
      BY <1>3, <2>1, <3>1, <3>2 DEF Is
  <2> QED
    BY <1>1, <1>2, <1>4, <2>1, <2>11, <2>12, <2>13, Takes DEF Is

LEMMA LiveVarStatement ==
  ASSUME CInv, Quirks = {}, VarStatement, ~rotten'
  PROVE  Live'
<1>1. ~rotten /\ work # <<>> /\ Top.at = "statement"
  <2>1. ~rotten
    BY UnspoiledTake DEF VarStatement, CInv
  <2> QED
    BY <2>1 DEF VarStatement, At, Top
<1>2. PICK x \in Points, y \in Points :
        Fits(x) /\ Ready(work, x) /\ Leads(Top, x, y) /\ Ready(Tail(work), y)
  BY <1>1, Facing DEF CInv
<1>3. /\ x.h \in Heights /\ y.h \in Heights /\ x.base \in Heights /\ x.close \in Nat
      /\ y.close \in Nat /\ x.inside \in BOOLEAN /\ y.h = x.h /\ y.h = y.base
      /\ x.base = y.base /\ x.close = y.close /\ ~x.inside /\ ~y.fresh
  BY <1>1, <1>2, UsesSame, UsesOneMore, UsesOneLess DEF Leads, Typed, Lands, Balanced, Points
<1>4. now = "var"
  BY DEF VarStatement
<1> QED
  <2>1. Take(<<Expect("ident"), Do("var"), Expect(";")>>, point)
    BY <1>4 DEF VarStatement
  <2>2. PICK z1 : Is(z1, x.h, x.base, x.close, FALSE, FALSE)
    BY <1>3, APoint
  <2>3. PICK z2 : Is(z2, x.h, x.base, x.close, FALSE, TRUE)
    BY <1>3, APoint
  <2>4. PICK z3 : Is(z3, x.h, x.base, x.close, TRUE, FALSE)
    BY <1>3, APoint
  <2>5. Leads(Expect("ident"), z1, z2)
    BY <2>2, <2>3, LeadsToken DEF Is, Openers, Closers
  <2>6. Leads(Do("var"), z2, z3)
    BY <1>3, <2>3, <2>4, UsesSame, UsesOneMore, UsesOneLess DEF Do, Leads, Typed, Lands,
      Balanced, Is, Points
  <2>7. Leads(Expect(";"), z3, y)
    BY <1>3, <2>4, LeadsToken DEF Is, Openers, Closers
  <2>8. Ready(<<Expect("ident"), Do("var"), Expect(";")>> \o Tail(work), z1)
    <3>1. z1 \in Points /\ z2 \in Points /\ z3 \in Points
      BY <2>2, <2>3, <2>4 DEF Is
    <3> QED
      BY <1>2, <2>5, <2>6, <2>7, <3>1, Put3
  <2>9. Sound(point, z1.h)
    BY <1>2, <1>3, <2>2 DEF Is, Fits
  <2>10. now # "EOF" /\ opened + Closing = z1.close
    <3>1. opened = x.close
      BY <1>2, <1>3, <1>4, AllCounted
    <3>2. now # "EOF" /\ Closing = 0
      BY <1>4 DEF Closing, Openers, Closers
    <3> QED
      BY <1>3, <2>2, <3>1, <3>2 DEF Is
  <2> QED
    BY <1>1, <1>2, <2>1, <2>2, <2>8, <2>9, <2>10, Takes DEF Is

LEMMA LiveVarValue ==
  ASSUME CInv, Quirks = {}, VarValue, ~rotten'
  PROVE  Live'
<1>1. ~rotten /\ work # <<>> /\ Top.at = "var"
  <2>1. ~rotten
    BY UnspoiledStay, UnspoiledTake DEF VarValue, CInv
  <2> QED
    BY <2>1 DEF VarValue, At, Top
<1>2. PICK x \in Points, y \in Points :
        Fits(x) /\ Ready(work, x) /\ Leads(Top, x, y) /\ Ready(Tail(work), y)
  BY <1>1, Facing DEF CInv
<1>3. /\ x.h \in Heights /\ y.h \in Heights /\ x.base \in Heights /\ x.close \in Nat
      /\ y.close \in Nat /\ x.inside \in BOOLEAN /\ y.h = x.h /\ x.base = y.base
      /\ x.close = y.close /\ ~x.inside /\ ~y.fresh /\ y.inside
  BY <1>1, <1>2, UsesSame, UsesOneMore, UsesOneLess DEF Leads, Typed, Lands, Balanced, Points
<1>4. CASE now = "="
  <2>1. Take(<<Expr(1), Emit(<<1, 0>>)>>, point)
    BY <1>4 DEF VarValue, Store, Define, Registers, Globals
  <2>2. PICK z1 : Is(z1, x.h, x.base, x.close, FALSE, FALSE)
    BY <1>3, APoint
  <2>3. PICK z2 : Is(z2, More(x.h), x.base, x.close, TRUE, FALSE)
    BY <1>3, APoint, NextHeights
  <2>4. Leads(Expr(1), z1, z2)
    BY <2>2, <2>3, LeadsExpr DEF Is
  <2>5. Leads(Emit(<<1, 0>>), z2, y)
    <3>1. <<1, 0>> \in Nat \X Nat
      OBVIOUS
    <3>2. Uses(z2.h, y.h, <<1, 0>>)
      BY <1>3, <2>3, NextHeights, UsesSame, UsesOneMore, UsesOneLess DEF Is, Points
    <3> QED
      BY <1>3, <2>3, <3>1, <3>2, LeadsEmit DEF Is
  <2>6. Ready(<<Expr(1), Emit(<<1, 0>>)>> \o Tail(work), z1)
    <3>1. z1 \in Points /\ z2 \in Points
      BY <2>2, <2>3 DEF Is
    <3> QED
      BY <1>2, <2>4, <2>5, <3>1, Put2
  <2>7. Sound(point, z1.h)
    BY <1>2, <1>3, <2>2 DEF Is, Fits
  <2>8. now # "EOF" /\ opened + Closing = z1.close
    <3>1. opened = x.close
      BY <1>2, <1>3, <1>4, AllCounted
    <3>2. now # "EOF" /\ Closing = 0
      BY <1>4 DEF Closing, Openers, Closers
    <3> QED
      BY <1>3, <2>2, <3>1, <3>2 DEF Is
  <2> QED
    BY <1>1, <1>2, <2>1, <2>2, <2>6, <2>7, <2>8, Takes DEF Is
<1>5. CASE now # "="
  <2>1. ~InScope
    BY <1>1, <1>2, <1>5 DEF Fits, Answered, At, Top
  <2>2. Stay(<<>>, After(After(point, <<0, 1>>), <<1, 0>>))
    BY <1>5, <2>1 DEF VarValue, Store, Define, Registers, Globals
  <2>3. Sound(After(point, <<0, 1>>), More(x.h))
    BY <1>2, <1>3, NextHeights, UsesOneMore, AfterSound DEF Fits
  <2>4. Sound(After(After(point, <<0, 1>>), <<1, 0>>), y.h)
    BY <1>3, <2>3, NextHeights, UsesOneLess, AfterSound
  <2> QED
    BY <1>1, <1>2, <1>3, <2>2, <2>4, Pops
<1> QED
  BY <1>4, <1>5

LEMMA LeadsReturn ==
  ASSUME NEW x \in Points, NEW y \in Points, x.h = More(y.h), y.h \in {-1, 0},
         x.base = y.base, x.close = y.close, y.inside, ~y.fresh
  PROVE  Leads(Do("return"), x, y)
BY UsesOneLess DEF Do, Leads, Typed, Lands, Balanced, Points

LEMMA LiveReturnStatement ==
  ASSUME CInv, Quirks = {}, ReturnStatement, ~rotten'
  PROVE  Live'
<1>1. ~rotten /\ work # <<>> /\ Top.at = "statement"
  <2>1. ~rotten
    BY UnspoiledTake DEF ReturnStatement, CInv, Report
  <2> QED
    BY <2>1 DEF ReturnStatement, At, Top
<1>2. PICK x \in Points, y \in Points :
        Fits(x) /\ Ready(work, x) /\ Leads(Top, x, y) /\ Ready(Tail(work), y)
  BY <1>1, Facing DEF CInv
<1>3. /\ x.h \in Heights /\ y.h \in Heights /\ x.base \in Heights /\ x.close \in Nat
      /\ y.close \in Nat /\ x.inside \in BOOLEAN /\ y.h = x.h /\ y.h = y.base
      /\ x.base = y.base /\ x.close = y.close /\ ~x.inside /\ ~y.fresh
  BY <1>1, <1>2, UsesSame, UsesOneMore, UsesOneLess DEF Leads, Typed, Lands, Balanced, Points
<1>4. now = "return" /\ x.h \in {-1, 0}
  BY <1>2, <1>3 DEF ReturnStatement, Fits
<1> QED
  <2>1. Take(<<Expr(1), Do("return"), Expect(";")>>, point)
    BY <1>4 DEF ReturnStatement, Report
  <2>2. PICK z1 : Is(z1, x.h, x.base, x.close, FALSE, FALSE)
    BY <1>3, APoint
  <2>3. PICK z2 : Is(z2, More(x.h), x.base, x.close, TRUE, FALSE)
    BY <1>3, APoint, NextHeights
  <2>4. PICK z3 : Is(z3, x.h, x.base, x.close, TRUE, FALSE)
    BY <1>3, APoint
  <2>5. Leads(Expr(1), z1, z2)
    BY <2>2, <2>3, LeadsExpr DEF Is
  <2>6. Leads(Do("return"), z2, z3)
    BY <2>3, <2>4, <1>4, LeadsReturn DEF Is
  <2>7. Leads(Expect(";"), z3, y)
    BY <1>3, <2>4, LeadsToken DEF Is, Openers, Closers
  <2>8. Ready(<<Expr(1), Do("return"), Expect(";")>> \o Tail(work), z1)
    <3>1. z1 \in Points /\ z2 \in Points /\ z3 \in Points
      BY <2>2, <2>3, <2>4 DEF Is
    <3> QED
      BY <1>2, <2>5, <2>6, <2>7, <3>1, Put3
  <2>9. Sound(point, z1.h)
    BY <1>2, <1>3, <2>2 DEF Is, Fits
  <2>10. now # "EOF" /\ opened + Closing = z1.close
    <3>1. opened = x.close
      BY <1>2, <1>3, <1>4, AllCounted
    <3>2. now # "EOF" /\ Closing = 0
      BY <1>4 DEF Closing, Openers, Closers
    <3> QED
      BY <1>3, <2>2, <3>1, <3>2 DEF Is
  <2> QED
    BY <1>1, <1>2, <2>1, <2>2, <2>8, <2>9, <2>10, Takes DEF Is

LEMMA LiveReturnCode ==
  ASSUME CInv, ReturnCode, ~rotten'
  PROVE  Live'
<1>1. ~rotten /\ work # <<>> /\ Top.at = "return"
  <2>1. ~rotten
    BY UnspoiledStay DEF ReturnCode, CInv
  <2> QED
    BY <2>1 DEF ReturnCode, At, Top
<1>2. PICK x \in Points, y \in Points :
        Fits(x) /\ Ready(work, x) /\ Leads(Top, x, y) /\ Ready(Tail(work), y)
  BY <1>1, Facing DEF CInv
<1>3. /\ x.h \in Heights /\ y.h \in Heights /\ x.base \in Heights /\ x.close \in Nat
      /\ y.close \in Nat /\ x.inside \in BOOLEAN /\ x.h = More(y.h) /\ y.h \in {-1, 0}
  BY <1>1, <1>2, UsesSame, UsesOneMore, UsesOneLess DEF Leads, Typed, Lands, Balanced, Points
<1>4. Sound(point, 1)
  BY <1>2, <1>3 DEF Fits, Sound, More
<1>5. Stay(<<>>, Returned(point)) /\ Sound(Returned(point), y.h)
  BY <1>4, ReturnedSound DEF ReturnCode
<1> QED
  BY <1>1, <1>2, <1>5, Pops

LEMMA LiveExpressionStatement ==
  ASSUME CInv, ExpressionStatement, ~rotten'
  PROVE  Live'
<1>1. ~rotten /\ work # <<>> /\ Top.at = "statement"
  <2>1. ~rotten
    BY UnspoiledStay DEF ExpressionStatement, CInv
  <2> QED
    BY <2>1 DEF ExpressionStatement, At, Top
<1>2. PICK x \in Points, y \in Points :
        Fits(x) /\ Ready(work, x) /\ Leads(Top, x, y) /\ Ready(Tail(work), y)
  BY <1>1, Facing DEF CInv
<1>3. /\ x.h \in Heights /\ y.h \in Heights /\ x.base \in Heights /\ x.close \in Nat
      /\ y.close \in Nat /\ x.inside \in BOOLEAN /\ y.h = x.h /\ y.h = y.base
      /\ x.base = y.base /\ x.close = y.close /\ ~x.inside /\ ~y.fresh
  BY <1>1, <1>2, UsesSame, UsesOneMore, UsesOneLess DEF Leads, Typed, Lands, Balanced, Points
<1> QED
  <2>1. Stay(<<Expr(1), Emit(<<1, 0>>), Expect(";")>>, point)
    BY DEF ExpressionStatement, Globals
  <2>2. PICK z1 : Is(z1, x.h, x.base, x.close, FALSE, FALSE)
    BY <1>3, APoint
  <2>3. PICK z2 : Is(z2, More(x.h), x.base, x.close, TRUE, FALSE)
    BY <1>3, APoint, NextHeights
  <2>4. PICK z3 : Is(z3, x.h, x.base, x.close, TRUE, FALSE)
    BY <1>3, APoint
  <2>5. Leads(Expr(1), z1, z2)
    BY <2>2, <2>3, LeadsExpr DEF Is
  <2>6. Leads(Emit(<<1, 0>>), z2, z3)
    <3>1. <<1, 0>> \in Nat \X Nat
      OBVIOUS
    <3>2. Uses(z2.h, z3.h, <<1, 0>>)
      BY <2>3, <2>4, NextHeights, UsesSame, UsesOneMore, UsesOneLess DEF Is, Points
    <3> QED
      BY <2>3, <2>4, <3>1, <3>2, LeadsEmit DEF Is
  <2>7. Leads(Expect(";"), z3, y)
    BY <1>3, <2>4, LeadsToken DEF Is, Openers, Closers
  <2>8. Ready(<<Expr(1), Emit(<<1, 0>>), Expect(";")>> \o Tail(work), z1)
    <3>1. z1 \in Points /\ z2 \in Points /\ z3 \in Points
      BY <2>2, <2>3, <2>4 DEF Is
    <3> QED
      BY <1>2, <2>5, <2>6, <2>7, <3>1, Put3
  <2>9. Sound(point, z1.h)
    BY <1>2, <1>3, <2>2 DEF Is, Fits
  <2>10. Counted(z1) /\ ~z1.fresh /\ z1.base = x.base
    BY <1>2, <1>3, <2>2 DEF Is, Fits, Counted
  <2> QED
    BY <1>1, <1>2, <2>1, <2>2, <2>8, <2>9, <2>10, Stays DEF Is

-----------------------------------------------------------------------------
(* Loops. *)

LEMMA LiveWhileStatement ==
  ASSUME CInv, Quirks = {}, WhileStatement, ~rotten'
  PROVE  Live'
<1>1. ~rotten /\ work # <<>> /\ Top.at = "statement"
  <2>1. ~rotten
    BY UnspoiledTake DEF WhileStatement, CInv
  <2> QED
    BY <2>1 DEF WhileStatement, At, Top
<1>2. PICK x \in Points, y \in Points :
        Fits(x) /\ Ready(work, x) /\ Leads(Top, x, y) /\ Ready(Tail(work), y)
  BY <1>1, Facing DEF CInv
<1>3. /\ x.h \in Heights /\ y.h \in Heights /\ x.base \in Heights /\ x.close \in Nat
      /\ y.close \in Nat /\ x.inside \in BOOLEAN /\ y.h = x.h /\ y.h = y.base
      /\ x.base = y.base /\ x.close = y.close /\ ~x.inside /\ ~y.fresh
  BY <1>1, <1>2, UsesSame, UsesOneMore, UsesOneLess DEF Leads, Typed, Lands, Balanced, Points
<1>4. now = "while"
  BY DEF WhileStatement
<1>5. Meets(Mark(point), x.h)
  BY <1>2, MarkMeets DEF Fits
<1> QED
  <2>1. Take(<<Expect("("), Expr(1), Expect(")"), [at |-> "while", loop |-> Mark(point)]>>, point)
    BY <1>4 DEF WhileStatement
  <2>2. PICK z1 : Is(z1, x.h, x.base, x.close, FALSE, FALSE)
    BY <1>3, APoint
  <2>3. PICK z2 : Is(z2, x.h, x.base, x.close + 1, FALSE, FALSE)
    BY <1>3, APointInside
  <2>4. PICK z3 : Is(z3, More(x.h), x.base, x.close + 1, TRUE, FALSE)
    BY <1>3, APointInside, NextHeights
  <2>5. PICK z4 : Is(z4, More(x.h), x.base, x.close, FALSE, FALSE)
    BY <1>3, APoint, NextHeights
  <2>6. Leads(Expect("("), z1, z2)
    BY <2>2, <2>3, LeadsOpener DEF Is, Openers
  <2>7. Leads(Expr(1), z2, z3)
    BY <2>3, <2>4, LeadsExpr DEF Is
  <2>8. Leads(Expect(")"), z3, z4)
    BY <2>4, <2>5, <1>3, LeadsCloser DEF Is, Closers
  <2>9. Leads([at |-> "while", loop |-> Mark(point)], z4, y)
    <3>1. PICK a : a = [at |-> "while", loop |-> Mark(point)]
      OBVIOUS
    <3>2. a.at = "while" /\ a.loop = Mark(point)
      BY <3>1
    <3>3. Effect(a) = <<1, 0>> /\ Closes(a) = 0
      BY <3>2
    <3>4. Uses(z4.h, y.h, <<1, 0>>)
      BY <1>3, <2>5, <1>5, UsesSame, UsesOneMore, UsesOneLess DEF Is, Points
    <3>5. z4.close = y.close + 0
      BY <1>3, <2>5, <1>5 DEF Is, Points
    <3> HIDE DEF Effect, Closes
    <3>6. Leads(a, z4, y)
      BY <1>3, <2>5, <1>5, <3>2, <3>3, <3>4, <3>5 DEF Leads, Typed, Lands, Balanced, Is
    <3> QED
      BY <3>1, <3>6
  <2>10. Ready(<<Expect("("), Expr(1), Expect(")"),
                 [at |-> "while", loop |-> Mark(point)]>> \o Tail(work), z1)
    <3>1. z1 \in Points /\ z2 \in Points /\ z3 \in Points /\ z4 \in Points
      BY <2>2, <2>3, <2>4, <2>5 DEF Is
    <3>2. PICK a, b, c, d : /\ a = Expect("(") /\ b = Expr(1)
                            /\ c = Expect(")") /\ d = [at |-> "while", loop |-> Mark(point)]
      OBVIOUS
    <3>3. /\ Leads(a, z1, z2) /\ Leads(b, z2, z3) /\ Leads(c, z3, z4)
          /\ Leads(d, z4, y) /\ Ready(Tail(work), y)
      BY <1>2, <2>6, <2>7, <2>8, <2>9, <3>2
    <3>4. Ready(<<a, b, c, d>> \o Tail(work), z1)
      BY <3>1, <3>3, Put4
    <3> QED
      BY <3>2, <3>4
  <2>11. Sound(point, z1.h)
    BY <1>2, <1>3, <2>2 DEF Is, Fits
  <2>12. now # "EOF" /\ opened + Closing = z1.close
    <3>1. opened = x.close
      BY <1>2, <1>3, <1>4, AllCounted
    <3>2. now # "EOF" /\ Closing = 0
      BY <1>4 DEF Closing, Openers, Closers
    <3> QED
      BY <1>3, <2>2, <3>1, <3>2 DEF Is
  <2> QED
    BY <1>1, <1>2, <2>1, <2>2, <2>10, <2>11, <2>12, Takes DEF Is

LEMMA LiveWhileBody ==
  ASSUME CInv, WhileBody, ~rotten'
  PROVE  Live'
<1>1. ~rotten /\ work # <<>> /\ Top.at = "while"
  <2>1. ~rotten
    BY UnspoiledStay DEF WhileBody, CInv
  <2> QED
    BY <2>1 DEF WhileBody, At, Top
<1>2. PICK x \in Points, y \in Points :
        Fits(x) /\ Ready(work, x) /\ Leads(Top, x, y) /\ Ready(Tail(work), y)
  BY <1>1, Facing DEF CInv
<1>3. /\ x.h \in Heights /\ y.h \in Heights /\ x.base \in Heights /\ x.close \in Nat
      /\ y.close \in Nat /\ x.inside \in BOOLEAN /\ x.h = More(y.h) /\ y.h = y.base
      /\ x.base = y.base /\ x.close = y.close /\ ~x.inside /\ ~y.fresh
      /\ Meets(Top.loop, y.h)
  BY <1>1, <1>2, UsesSame, UsesOneMore, UsesOneLess DEF Leads, Typed, Lands, Balanced, Points
<1>4. PICK body : body = After(point, <<1, 0>>)
  OBVIOUS
<1>5. Sound(body, y.h) /\ Meets(Mark(body), y.h)
  <2>1. Sound(body, y.h)
    BY <1>2, <1>3, <1>4, UsesOneLess, AfterSound DEF Fits
  <2> QED
    BY <2>1, MarkMeets
<1> QED
  <2>1. Stay(<<Do("statement"),
               [at |-> "whileEnd", loop |-> Top.loop, exit |-> Mark(body)]>>, body)
    BY <1>4 DEF WhileBody, Jumps
  <2>2. PICK z1 : Is(z1, y.h, x.base, x.close, FALSE, FALSE)
    BY <1>3, APoint
  <2>3. PICK z2 : Is(z2, y.h, x.base, x.close, FALSE, FALSE)
    BY <1>3, APoint
  <2>4. Leads(Do("statement"), z1, z2)
    BY <1>3, <2>2, <2>3, LeadsStatement DEF Is
  <2>5. Leads([at |-> "whileEnd", loop |-> Top.loop, exit |-> Mark(body)], z2, y)
    <3>1. PICK a : a = [at |-> "whileEnd", loop |-> Top.loop, exit |-> Mark(body)]
      OBVIOUS
    <3>2. a.at = "whileEnd" /\ a.loop = Top.loop /\ a.exit = Mark(body)
      BY <3>1
    <3>3. Effect(a) = <<0, 0>> /\ Closes(a) = 0
      BY <3>2
    <3>4. Uses(z2.h, y.h, <<0, 0>>)
      BY <1>3, <2>3, <1>5, UsesSame, UsesOneMore, UsesOneLess DEF Is, Points
    <3>5. z2.close = y.close + 0
      BY <1>3, <2>3, <1>5 DEF Is, Points
    <3> HIDE DEF Effect, Closes
    <3>6. Leads(a, z2, y)
      BY <1>3, <2>3, <1>5, <3>2, <3>3, <3>4, <3>5 DEF Leads, Typed, Lands, Balanced, Is
    <3> QED
      BY <3>1, <3>6
  <2>6. Ready(<<Do("statement"),
                [at |-> "whileEnd", loop |-> Top.loop, exit |-> Mark(body)]>> \o Tail(work), z1)
    <3>1. z1 \in Points /\ z2 \in Points
      BY <2>2, <2>3 DEF Is
    <3> QED
      BY <1>2, <2>4, <2>5, <3>1, Put2
  <2>7. Sound(body, z1.h)
    BY <1>5, <2>2 DEF Is
  <2>8. Counted(z1) /\ ~z1.fresh /\ z1.base = x.base
    BY <1>2, <1>3, <2>2 DEF Is, Fits, Counted
  <2> QED
    BY <1>1, <1>2, <2>1, <2>2, <2>6, <2>7, <2>8, Stays DEF Is

LEMMA LiveForStatement ==
  ASSUME CInv, Quirks = {}, ForStatement, ~rotten'
  PROVE  Live'
<1>1. ~rotten /\ work # <<>> /\ Top.at = "statement"
  <2>1. ~rotten
    BY UnspoiledTake DEF ForStatement, CInv
  <2> QED
    BY <2>1 DEF ForStatement, At, Top
<1>2. PICK x \in Points, y \in Points :
        Fits(x) /\ Ready(work, x) /\ Leads(Top, x, y) /\ Ready(Tail(work), y)
  BY <1>1, Facing DEF CInv
<1>3. /\ x.h \in Heights /\ y.h \in Heights /\ x.base \in Heights /\ x.close \in Nat
      /\ y.close \in Nat /\ x.inside \in BOOLEAN /\ y.h = x.h /\ y.h = y.base
      /\ x.base = y.base /\ x.close = y.close /\ ~x.inside /\ ~y.fresh
  BY <1>1, <1>2, UsesSame, UsesOneMore, UsesOneLess DEF Leads, Typed, Lands, Balanced, Points
<1>4. now = "for"
  BY DEF ForStatement
<1> QED
  <2>1. Take(<<Expect("("), Do("forInit")>>, point)
    BY <1>4 DEF ForStatement
  <2>2. PICK z1 : Is(z1, x.h, x.base, x.close, FALSE, FALSE)
    BY <1>3, APoint
  <2>3. PICK z2 : Is(z2, x.h, x.base, x.close + 1, FALSE, FALSE)
    BY <1>3, APointInside
  <2>4. Leads(Expect("("), z1, z2)
    BY <2>2, <2>3, LeadsOpener DEF Is, Openers
  <2>5. Leads(Do("forInit"), z2, y)
    BY <1>3, <2>3, UsesSame, UsesOneMore, UsesOneLess DEF Do, Leads, Typed, Lands, Balanced, Is,
      Points
  <2>6. Ready(<<Expect("("), Do("forInit")>> \o Tail(work), z1)
    <3>1. z1 \in Points /\ z2 \in Points
      BY <2>2, <2>3 DEF Is
    <3> QED
      BY <1>2, <2>4, <2>5, <3>1, Put2
  <2>7. Sound(point, z1.h)
    BY <1>2, <1>3, <2>2 DEF Is, Fits
  <2>8. now # "EOF" /\ opened + Closing = z1.close
    <3>1. opened = x.close
      BY <1>2, <1>3, <1>4, AllCounted
    <3>2. now # "EOF" /\ Closing = 0
      BY <1>4 DEF Closing, Openers, Closers
    <3> QED
      BY <1>3, <2>2, <3>1, <3>2 DEF Is
  <2> QED
    BY <1>1, <1>2, <2>1, <2>2, <2>6, <2>7, <2>8, Takes DEF Is

LEMMA LiveForInit ==
  ASSUME CInv, Quirks = {}, ForInit, ~rotten'
  PROVE  Live'
<1>1. ~rotten /\ work # <<>> /\ Top.at = "forInit"
  <2>1. ~rotten
    BY UnspoiledStay, UnspoiledTake DEF ForInit, CInv
  <2> QED
    BY <2>1 DEF ForInit, At, Top
<1>2. PICK x \in Points, y \in Points :
        Fits(x) /\ Ready(work, x) /\ Leads(Top, x, y) /\ Ready(Tail(work), y)
  BY <1>1, Facing DEF CInv
<1>3. /\ x.h \in Heights /\ y.h \in Heights /\ x.base \in Heights /\ x.close \in Nat
      /\ y.close \in Nat /\ x.inside \in BOOLEAN /\ y.h = x.h /\ y.h = y.base
      /\ x.base = y.base /\ x.close = y.close + 1 /\ ~x.inside /\ ~y.fresh
  BY <1>1, <1>2, UsesSame, UsesOneMore, UsesOneLess DEF Leads, Typed, Lands, Balanced, Points
<1>4. CASE now = "var"
  <2>1. Take(<<Expect("ident"), Do("forVar")>>, point)
    BY <1>4 DEF ForInit
  <2>2. PICK z1 : Is(z1, x.h, x.base, x.close, FALSE, FALSE)
    BY <1>3, APoint
  <2>3. PICK z2 : Is(z2, x.h, x.base, x.close, FALSE, TRUE)
    BY <1>3, APoint
  <2>4. Leads(Expect("ident"), z1, z2)
    BY <2>2, <2>3, LeadsToken DEF Is, Openers, Closers
  <2>5. Leads(Do("forVar"), z2, y)
    BY <1>3, <2>3, UsesSame, UsesOneMore, UsesOneLess DEF Do, Leads, Typed, Lands, Balanced, Is,
      Points
  <2>6. Ready(<<Expect("ident"), Do("forVar")>> \o Tail(work), z1)
    <3>1. z1 \in Points /\ z2 \in Points
      BY <2>2, <2>3 DEF Is
    <3> QED
      BY <1>2, <2>4, <2>5, <3>1, Put2
  <2>7. Sound(point, z1.h)
    BY <1>2, <1>3, <2>2 DEF Is, Fits
  <2>8. now # "EOF" /\ opened + Closing = z1.close
    <3>1. opened = x.close
      BY <1>2, <1>3, <1>4, AllCounted
    <3>2. now # "EOF" /\ Closing = 0
      BY <1>4 DEF Closing, Openers, Closers
    <3> QED
      BY <1>3, <2>2, <3>1, <3>2 DEF Is
  <2> QED
    BY <1>1, <1>2, <2>1, <2>2, <2>6, <2>7, <2>8, Takes DEF Is
<1>5. CASE now = ";"
  <2>1. Stay(<<Expect(";"), Do("forCond")>>, point)
    BY <1>5 DEF ForInit
  <2>2. PICK z1 : Is(z1, x.h, x.base, x.close, FALSE, FALSE)
    BY <1>3, APoint
  <2>3. PICK z2 : Is(z2, x.h, x.base, x.close, FALSE, FALSE)
    BY <1>3, APoint
  <2>4. Leads(Expect(";"), z1, z2)
    BY <2>2, <2>3, LeadsToken DEF Is, Openers, Closers
  <2>5. Leads(Do("forCond"), z2, y)
    BY <1>3, <2>3, UsesSame, UsesOneMore, UsesOneLess DEF Do, Leads, Typed, Lands, Balanced, Is,
      Points
  <2>6. Ready(<<Expect(";"), Do("forCond")>> \o Tail(work), z1)
    <3>1. z1 \in Points /\ z2 \in Points
      BY <2>2, <2>3 DEF Is
    <3> QED
      BY <1>2, <2>4, <2>5, <3>1, Put2
  <2>7. Sound(point, z1.h)
    BY <1>2, <1>3, <2>2 DEF Is, Fits
  <2>8. Counted(z1) /\ ~z1.fresh /\ z1.base = x.base
    BY <1>2, <1>3, <2>2 DEF Is, Fits, Counted
  <2> QED
    BY <1>1, <1>2, <2>1, <2>2, <2>6, <2>7, <2>8, Stays DEF Is
<1>6. CASE now \notin {"var", ";"}
  <2>1. Stay(<<Expr(1), Emit(<<1, 0>>), Expect(";"), Do("forCond")>>, point)
    BY <1>6 DEF ForInit, Globals
  <2>2. PICK z1 : Is(z1, x.h, x.base, x.close, FALSE, FALSE)
    BY <1>3, APoint
  <2>3. PICK z2 : Is(z2, More(x.h), x.base, x.close, TRUE, FALSE)
    BY <1>3, APoint, NextHeights
  <2>4. PICK z3 : Is(z3, x.h, x.base, x.close, TRUE, FALSE)
    BY <1>3, APoint
  <2>5. PICK z4 : Is(z4, x.h, x.base, x.close, FALSE, FALSE)
    BY <1>3, APoint
  <2>6. Leads(Expr(1), z1, z2)
    BY <2>2, <2>3, LeadsExpr DEF Is
  <2>7. Leads(Emit(<<1, 0>>), z2, z3)
    <3>1. <<1, 0>> \in Nat \X Nat
      OBVIOUS
    <3>2. Uses(z2.h, z3.h, <<1, 0>>)
      BY <2>3, <2>4, NextHeights, UsesSame, UsesOneMore, UsesOneLess DEF Is, Points
    <3> QED
      BY <2>3, <2>4, <3>1, <3>2, LeadsEmit DEF Is
  <2>8. Leads(Expect(";"), z3, z4)
    BY <2>4, <2>5, LeadsToken DEF Is, Openers, Closers
  <2>9. Leads(Do("forCond"), z4, y)
    BY <1>3, <2>5, UsesSame, UsesOneMore, UsesOneLess DEF Do, Leads, Typed, Lands, Balanced, Is,
      Points
  <2>10. Ready(<<Expr(1), Emit(<<1, 0>>), Expect(";"), Do("forCond")>> \o Tail(work), z1)
    <3>1. z1 \in Points /\ z2 \in Points /\ z3 \in Points /\ z4 \in Points
      BY <2>2, <2>3, <2>4, <2>5 DEF Is
    <3>2. PICK a, b, c, d : /\ a = Expr(1) /\ b = Emit(<<1, 0>>)
                            /\ c = Expect(";") /\ d = Do("forCond")
      OBVIOUS
    <3>3. /\ Leads(a, z1, z2) /\ Leads(b, z2, z3) /\ Leads(c, z3, z4)
          /\ Leads(d, z4, y) /\ Ready(Tail(work), y)
      BY <1>2, <2>6, <2>7, <2>8, <2>9, <3>2
    <3>4. Ready(<<a, b, c, d>> \o Tail(work), z1)
      BY <3>1, <3>3, Put4
    <3> QED
      BY <3>2, <3>4
  <2>11. Sound(point, z1.h)
    BY <1>2, <1>3, <2>2 DEF Is, Fits
  <2>12. Counted(z1) /\ ~z1.fresh /\ z1.base = x.base
    BY <1>2, <1>3, <2>2 DEF Is, Fits, Counted
  <2> QED
    BY <1>1, <1>2, <2>1, <2>2, <2>10, <2>11, <2>12, Stays DEF Is
<1> QED
  BY <1>4, <1>5, <1>6

LEMMA LiveForVar ==
  ASSUME CInv, ForVar, ~rotten'
  PROVE  Live'
<1>1. ~rotten /\ work # <<>> /\ Top.at = "forVar"
  <2>1. ~rotten
    BY UnspoiledStay, UnspoiledTake DEF ForVar, CInv
  <2> QED
    BY <2>1 DEF ForVar, At, Top
<1>2. PICK x \in Points, y \in Points :
        Fits(x) /\ Ready(work, x) /\ Leads(Top, x, y) /\ Ready(Tail(work), y)
  BY <1>1, Facing DEF CInv
<1>3. /\ x.h \in Heights /\ y.h \in Heights /\ x.base \in Heights /\ x.close \in Nat
      /\ y.close \in Nat /\ x.inside \in BOOLEAN /\ y.h = x.h /\ y.h = y.base
      /\ x.base = y.base /\ x.close = y.close + 1 /\ ~x.inside /\ ~y.fresh
  BY <1>1, <1>2, UsesSame, UsesOneMore, UsesOneLess DEF Leads, Typed, Lands, Balanced, Points
<1>4. now # "="
  BY <1>1, <1>2 DEF Fits, Answered, At, Top
<1>5. Sound(After(point, <<0, 0>>), x.h)
  BY <1>2, <1>3, UsesSame, AfterSound DEF Fits
<1> QED
  <2>1. Stay(<<Expect(";"), Do("forCond")>>, After(point, <<0, 0>>))
    BY <1>4 DEF ForVar, Registers
  <2>2. PICK z1 : Is(z1, x.h, x.base, x.close, FALSE, FALSE)
    BY <1>3, APoint
  <2>3. PICK z2 : Is(z2, x.h, x.base, x.close, FALSE, FALSE)
    BY <1>3, APoint
  <2>4. Leads(Expect(";"), z1, z2)
    BY <2>2, <2>3, LeadsToken DEF Is, Openers, Closers
  <2>5. Leads(Do("forCond"), z2, y)
    BY <1>3, <2>3, UsesSame, UsesOneMore, UsesOneLess DEF Do, Leads, Typed, Lands, Balanced, Is,
      Points
  <2>6. Ready(<<Expect(";"), Do("forCond")>> \o Tail(work), z1)
    <3>1. z1 \in Points /\ z2 \in Points
      BY <2>2, <2>3 DEF Is
    <3> QED
      BY <1>2, <2>4, <2>5, <3>1, Put2
  <2>7. Sound(After(point, <<0, 0>>), z1.h)
    BY <1>5, <2>2 DEF Is
  <2>8. Counted(z1) /\ ~z1.fresh /\ z1.base = x.base
    BY <1>2, <1>3, <2>2 DEF Is, Fits, Counted
  <2> QED
    BY <1>1, <1>2, <2>1, <2>2, <2>6, <2>7, <2>8, Stays DEF Is

LEMMA LiveForCondition ==
  ASSUME CInv, ForCondition, ~rotten'
  PROVE  Live'
<1>1. ~rotten /\ work # <<>> /\ Top.at = "forCond"
  <2>1. ~rotten
    BY UnspoiledStay DEF ForCondition, CInv
  <2> QED
    BY <2>1 DEF ForCondition, At, Top
<1>2. PICK x \in Points, y \in Points :
        Fits(x) /\ Ready(work, x) /\ Leads(Top, x, y) /\ Ready(Tail(work), y)
  BY <1>1, Facing DEF CInv
<1>3. /\ x.h \in Heights /\ y.h \in Heights /\ x.base \in Heights /\ x.close \in Nat
      /\ y.close \in Nat /\ x.inside \in BOOLEAN /\ y.h = x.h /\ y.h = y.base
      /\ x.base = y.base /\ x.close = y.close + 1 /\ ~x.inside /\ ~y.fresh
  BY <1>1, <1>2, UsesSame, UsesOneMore, UsesOneLess DEF Leads, Typed, Lands, Balanced, Points
<1>4. Meets(Mark(point), x.h) /\ Meets(Nowhere, x.h)
  BY <1>2, MarkMeets DEF Fits, Meets, Nowhere, Marks, Level
<1>5. CASE now # ";"
  <2>1. Stay(<<Expr(1), [at |-> "forExit", cond |-> Mark(point)]>>, point)
    BY <1>5 DEF ForCondition
  <2>2. PICK z1 : Is(z1, x.h, x.base, x.close, FALSE, FALSE)
    BY <1>3, APoint
  <2>3. PICK z2 : Is(z2, More(x.h), x.base, x.close, TRUE, FALSE)
    BY <1>3, APoint, NextHeights
  <2>4. Leads(Expr(1), z1, z2)
    BY <2>2, <2>3, LeadsExpr DEF Is
  <2>5. Leads([at |-> "forExit", cond |-> Mark(point)], z2, y)
    <3>1. PICK a : a = [at |-> "forExit", cond |-> Mark(point)]
      OBVIOUS
    <3>2. a.at = "forExit" /\ a.cond = Mark(point)
      BY <3>1
    <3>3. Effect(a) = <<1, 0>> /\ Closes(a) = 1
      BY <3>2
    <3>4. Uses(z2.h, y.h, <<1, 0>>)
      BY <1>3, <2>3, <1>4, UsesSame, UsesOneMore, UsesOneLess DEF Is, Points
    <3>5. z2.close = y.close + 1
      BY <1>3, <2>3, <1>4 DEF Is, Points
    <3> HIDE DEF Effect, Closes
    <3>6. Leads(a, z2, y)
      BY <1>3, <2>3, <1>4, <3>2, <3>3, <3>4, <3>5 DEF Leads, Typed, Lands, Balanced, Is
    <3> QED
      BY <3>1, <3>6
  <2>6. Ready(<<Expr(1), [at |-> "forExit", cond |-> Mark(point)]>> \o Tail(work), z1)
    <3>1. z1 \in Points /\ z2 \in Points
      BY <2>2, <2>3 DEF Is
    <3> QED
      BY <1>2, <2>4, <2>5, <3>1, Put2
  <2>7. Sound(point, z1.h)
    BY <1>2, <1>3, <2>2 DEF Is, Fits
  <2>8. Counted(z1) /\ ~z1.fresh /\ z1.base = x.base
    BY <1>2, <1>3, <2>2 DEF Is, Fits, Counted
  <2> QED
    BY <1>1, <1>2, <2>1, <2>2, <2>6, <2>7, <2>8, Stays DEF Is
<1>6. CASE now = ";"
  <2>1. Stay(<<Expect(";"), [at |-> "forIncr", cond |-> Mark(point), exit |-> Nowhere]>>, point)
    BY <1>6 DEF ForCondition
  <2>2. PICK z1 : Is(z1, x.h, x.base, x.close, FALSE, FALSE)
    BY <1>3, APoint
  <2>3. PICK z2 : Is(z2, x.h, x.base, x.close, FALSE, FALSE)
    BY <1>3, APoint
  <2>4. Leads(Expect(";"), z1, z2)
    BY <2>2, <2>3, LeadsToken DEF Is, Openers, Closers
  <2>5. Leads([at |-> "forIncr", cond |-> Mark(point), exit |-> Nowhere], z2, y)
    <3>1. PICK a : a = [at |-> "forIncr", cond |-> Mark(point), exit |-> Nowhere]
      OBVIOUS
    <3>2. a.at = "forIncr" /\ a.cond = Mark(point) /\ a.exit = Nowhere
      BY <3>1
    <3>3. Effect(a) = <<0, 0>> /\ Closes(a) = 1
      BY <3>2
    <3>4. Uses(z2.h, y.h, <<0, 0>>)
      BY <1>3, <2>3, <1>4, UsesSame, UsesOneMore, UsesOneLess DEF Is, Points
    <3>5. z2.close = y.close + 1
      BY <1>3, <2>3, <1>4 DEF Is, Points
    <3> HIDE DEF Effect, Closes
    <3>6. Leads(a, z2, y)
      BY <1>3, <2>3, <1>4, <3>2, <3>3, <3>4, <3>5 DEF Leads, Typed, Lands, Balanced, Is
    <3> QED
      BY <3>1, <3>6
  <2>6. Ready(<<Expect(";"),
                [at |-> "forIncr", cond |-> Mark(point), exit |-> Nowhere]>> \o Tail(work), z1)
    <3>1. z1 \in Points /\ z2 \in Points
      BY <2>2, <2>3 DEF Is
    <3> QED
      BY <1>2, <2>4, <2>5, <3>1, Put2
  <2>7. Sound(point, z1.h)
    BY <1>2, <1>3, <2>2 DEF Is, Fits
  <2>8. Counted(z1) /\ ~z1.fresh /\ z1.base = x.base
    BY <1>2, <1>3, <2>2 DEF Is, Fits, Counted
  <2> QED
    BY <1>1, <1>2, <2>1, <2>2, <2>6, <2>7, <2>8, Stays DEF Is
<1> QED
  BY <1>5, <1>6

LEMMA LiveForExit ==
  ASSUME CInv, ForExit, ~rotten'
  PROVE  Live'
<1>1. ~rotten /\ work # <<>> /\ Top.at = "forExit"
  <2>1. ~rotten
    BY UnspoiledStay DEF ForExit, CInv
  <2> QED
    BY <2>1 DEF ForExit, At, Top
<1>2. PICK x \in Points, y \in Points :
        Fits(x) /\ Ready(work, x) /\ Leads(Top, x, y) /\ Ready(Tail(work), y)
  BY <1>1, Facing DEF CInv
<1>3. /\ x.h \in Heights /\ y.h \in Heights /\ x.base \in Heights /\ x.close \in Nat
      /\ y.close \in Nat /\ x.inside \in BOOLEAN /\ x.h = More(y.h) /\ y.h = y.base
      /\ x.base = y.base /\ x.close = y.close + 1 /\ ~y.fresh /\ Meets(Top.cond, y.h)
  BY <1>1, <1>2, UsesSame, UsesOneMore, UsesOneLess DEF Leads, Typed, Lands, Balanced, Points
<1>4. PICK p : p = After(point, <<1, 0>>)
  OBVIOUS
<1>5. Sound(p, y.h) /\ Meets(Mark(p), y.h)
  <2>1. Sound(p, y.h)
    BY <1>2, <1>3, <1>4, UsesOneLess, AfterSound DEF Fits
  <2> QED
    BY <2>1, MarkMeets
<1> QED
  <2>1. Stay(<<Expect(";"), [at |-> "forIncr", cond |-> Top.cond, exit |-> Mark(p)]>>, p)
    BY <1>4 DEF ForExit, Jumps
  <2>2. PICK z1 : Is(z1, y.h, x.base, x.close, x.inside, FALSE)
    BY <1>3, APoint
  <2>3. PICK z2 : Is(z2, y.h, x.base, x.close, FALSE, FALSE)
    BY <1>3, APoint
  <2>4. Leads(Expect(";"), z1, z2)
    BY <2>2, <2>3, LeadsToken DEF Is, Openers, Closers
  <2>5. Leads([at |-> "forIncr", cond |-> Top.cond, exit |-> Mark(p)], z2, y)
    <3>1. PICK a : a = [at |-> "forIncr", cond |-> Top.cond, exit |-> Mark(p)]
      OBVIOUS
    <3>2. a.at = "forIncr" /\ a.cond = Top.cond /\ a.exit = Mark(p)
      BY <3>1
    <3>3. Effect(a) = <<0, 0>> /\ Closes(a) = 1
      BY <3>2
    <3>4. Uses(z2.h, y.h, <<0, 0>>)
      BY <1>3, <2>3, <1>5, UsesSame, UsesOneMore, UsesOneLess DEF Is, Points
    <3>5. z2.close = y.close + 1
      BY <1>3, <2>3, <1>5 DEF Is, Points
    <3> HIDE DEF Effect, Closes
    <3>6. Leads(a, z2, y)
      BY <1>3, <2>3, <1>5, <3>2, <3>3, <3>4, <3>5 DEF Leads, Typed, Lands, Balanced, Is
    <3> QED
      BY <3>1, <3>6
  <2>6. Ready(<<Expect(";"),
                [at |-> "forIncr", cond |-> Top.cond, exit |-> Mark(p)]>> \o Tail(work), z1)
    <3>1. z1 \in Points /\ z2 \in Points
      BY <2>2, <2>3 DEF Is
    <3> QED
      BY <1>2, <2>4, <2>5, <3>1, Put2
  <2>7. Sound(p, z1.h)
    BY <1>5, <2>2 DEF Is
  <2>8. Counted(z1) /\ ~z1.fresh /\ z1.base = x.base
    BY <1>2, <1>3, <2>2 DEF Is, Fits, Counted
  <2> QED
    BY <1>1, <1>2, <2>1, <2>2, <2>6, <2>7, <2>8, Stays DEF Is

LEMMA LiveForIncrement ==
  ASSUME CInv, ForIncrement, ~rotten'
  PROVE  Live'
<1>1. ~rotten /\ work # <<>> /\ Top.at = "forIncr"
  <2>1. ~rotten
    BY UnspoiledStay DEF ForIncrement, CInv
  <2> QED
    BY <2>1 DEF ForIncrement, At, Top
<1>2. PICK x \in Points, y \in Points :
        Fits(x) /\ Ready(work, x) /\ Leads(Top, x, y) /\ Ready(Tail(work), y)
  BY <1>1, Facing DEF CInv
<1>3. /\ x.h \in Heights /\ y.h \in Heights /\ x.base \in Heights /\ x.close \in Nat
      /\ y.close \in Nat /\ x.inside \in BOOLEAN /\ y.h = x.h /\ y.h = y.base
      /\ x.base = y.base /\ x.close = y.close + 1 /\ ~x.inside /\ ~y.fresh
      /\ Meets(Top.cond, y.h) /\ Meets(Top.exit, y.h)
  BY <1>1, <1>2, UsesSame, UsesOneMore, UsesOneLess DEF Leads, Typed, Lands, Balanced, Points
<1>4. Meets(Mark(point), x.h)
  BY <1>2, MarkMeets DEF Fits
<1>5. CASE now # ")"
  <2>1. Stay(<<Expr(1),
               [at |-> "forBack", cond |-> Top.cond, exit |-> Top.exit, incr |-> Mark(point)]>>, point)
    BY <1>5 DEF ForIncrement
  <2>2. PICK z1 : Is(z1, x.h, x.base, x.close, FALSE, FALSE)
    BY <1>3, APoint
  <2>3. PICK z2 : Is(z2, More(x.h), x.base, x.close, TRUE, FALSE)
    BY <1>3, APoint, NextHeights
  <2>4. Leads(Expr(1), z1, z2)
    BY <2>2, <2>3, LeadsExpr DEF Is
  <2>5. Leads([at |-> "forBack", cond |-> Top.cond, exit |-> Top.exit, incr |-> Mark(point)], z2, y)
    <3>1. PICK a : a = [at |-> "forBack", cond |-> Top.cond, exit |-> Top.exit, incr |-> Mark(point)]
      OBVIOUS
    <3>2. a.at = "forBack" /\ a.cond = Top.cond /\ a.exit = Top.exit /\ a.incr = Mark(point)
      BY <3>1
    <3>3. Effect(a) = <<1, 0>> /\ Closes(a) = 1
      BY <3>2
    <3>4. Uses(z2.h, y.h, <<1, 0>>)
      BY <1>3, <2>3, <1>4, UsesSame, UsesOneMore, UsesOneLess DEF Is, Points
    <3>5. z2.close = y.close + 1
      BY <1>3, <2>3, <1>4 DEF Is, Points
    <3> HIDE DEF Effect, Closes
    <3>6. Leads(a, z2, y)
      BY <1>3, <2>3, <1>4, <3>2, <3>3, <3>4, <3>5 DEF Leads, Typed, Lands, Balanced, Is
    <3> QED
      BY <3>1, <3>6
  <2>6. Ready(<<Expr(1),
                [at |-> "forBack", cond |-> Top.cond, exit |-> Top.exit, incr |-> Mark(point)]>> \o Tail(work), z1)
    <3>1. z1 \in Points /\ z2 \in Points
      BY <2>2, <2>3 DEF Is
    <3> QED
      BY <1>2, <2>4, <2>5, <3>1, Put2
  <2>7. Sound(point, z1.h)
    BY <1>2, <1>3, <2>2 DEF Is, Fits
  <2>8. Counted(z1) /\ ~z1.fresh /\ z1.base = x.base
    BY <1>2, <1>3, <2>2 DEF Is, Fits, Counted
  <2> QED
    BY <1>1, <1>2, <2>1, <2>2, <2>6, <2>7, <2>8, Stays DEF Is
<1>6. CASE now = ")"
  <2>1. Stay(<<Expect(")"), Do("statement"),
               [at |-> "forEnd", loop |-> Top.cond, exit |-> Top.exit]>>, point)
    BY <1>6 DEF ForIncrement
  <2>2. PICK z1 : Is(z1, x.h, x.base, x.close, FALSE, FALSE)
    BY <1>3, APoint
  <2>3. PICK z2 : Is(z2, x.h, x.base, y.close, FALSE, FALSE)
    BY <1>3, APoint
  <2>4. PICK z3 : Is(z3, x.h, x.base, y.close, FALSE, FALSE)
    BY <1>3, APoint
  <2>5. Leads(Expect(")"), z1, z2)
    BY <2>2, <2>3, <1>3, LeadsCloser DEF Is, Closers
  <2>6. Leads(Do("statement"), z2, z3)
    BY <1>3, <2>3, <2>4, LeadsStatement DEF Is
  <2>7. Leads([at |-> "forEnd", loop |-> Top.cond, exit |-> Top.exit], z3, y)
    <3>1. PICK a : a = [at |-> "forEnd", loop |-> Top.cond, exit |-> Top.exit]
      OBVIOUS
    <3>2. a.at = "forEnd" /\ a.loop = Top.cond /\ a.exit = Top.exit
      BY <3>1
    <3>3. Effect(a) = <<0, 0>> /\ Closes(a) = 0
      BY <3>2
    <3>4. Uses(z3.h, y.h, <<0, 0>>)
      BY <1>3, <2>4, UsesSame, UsesOneMore, UsesOneLess DEF Is, Points
    <3>5. z3.close = y.close + 0
      BY <1>3, <2>4 DEF Is, Points
    <3> HIDE DEF Effect, Closes
    <3>6. Leads(a, z3, y)
      BY <1>3, <2>4, <3>2, <3>3, <3>4, <3>5 DEF Leads, Typed, Lands, Balanced, Is
    <3> QED
      BY <3>1, <3>6
  <2>8. Ready(<<Expect(")"), Do("statement"),
                [at |-> "forEnd", loop |-> Top.cond, exit |-> Top.exit]>> \o Tail(work), z1)
    <3>1. z1 \in Points /\ z2 \in Points /\ z3 \in Points
      BY <2>2, <2>3, <2>4 DEF Is
    <3> QED
      BY <1>2, <2>5, <2>6, <2>7, <3>1, Put3
  <2>9. Sound(point, z1.h)
    BY <1>2, <1>3, <2>2 DEF Is, Fits
  <2>10. Counted(z1) /\ ~z1.fresh /\ z1.base = x.base
    BY <1>2, <1>3, <2>2 DEF Is, Fits, Counted
  <2> QED
    BY <1>1, <1>2, <2>1, <2>2, <2>8, <2>9, <2>10, Stays DEF Is
<1> QED
  BY <1>5, <1>6

LEMMA LiveForBack ==
  ASSUME CInv, ForBack, ~rotten'
  PROVE  Live'
<1>1. ~rotten /\ work # <<>> /\ Top.at = "forBack"
  <2>1. ~rotten
    BY UnspoiledStay DEF ForBack, CInv
  <2> QED
    BY <2>1 DEF ForBack, At, Top
<1>2. PICK x \in Points, y \in Points :
        Fits(x) /\ Ready(work, x) /\ Leads(Top, x, y) /\ Ready(Tail(work), y)
  BY <1>1, Facing DEF CInv
<1>3. /\ x.h \in Heights /\ y.h \in Heights /\ x.base \in Heights /\ x.close \in Nat
      /\ y.close \in Nat /\ x.inside \in BOOLEAN /\ x.h = More(y.h) /\ y.h = y.base
      /\ x.base = y.base /\ x.close = y.close + 1 /\ ~y.fresh /\ Meets(Top.cond, y.h)
      /\ Meets(Top.exit, y.h) /\ Meets(Top.incr, y.h)
  BY <1>1, <1>2, UsesSame, UsesOneMore, UsesOneLess DEF Leads, Typed, Lands, Balanced, Points
<1>4. PICK p : p = Join(Back(After(point, <<1, 0>>), Top.cond), Top.incr)
  OBVIOUS
<1>5. Sound(p, y.h)
  <2>1. Sound(After(point, <<1, 0>>), y.h)
    BY <1>2, <1>3, UsesOneLess, AfterSound DEF Fits
  <2>2. Sound(Back(After(point, <<1, 0>>), Top.cond), y.h)
    BY <1>3, <2>1, BackSound
  <2> QED
    BY <1>3, <1>4, <2>2, JoinSound
<1> QED
  <2>1. Stay(<<Expect(")"), Do("statement"),
               [at |-> "forEnd", loop |-> Top.incr, exit |-> Top.exit]>>, p)
    BY <1>4 DEF ForBack, Globals
  <2>2. PICK z1 : Is(z1, y.h, x.base, x.close, x.inside, FALSE)
    BY <1>3, APoint
  <2>3. PICK z2 : Is(z2, y.h, x.base, y.close, FALSE, FALSE)
    BY <1>3, APoint
  <2>4. PICK z3 : Is(z3, y.h, x.base, y.close, FALSE, FALSE)
    BY <1>3, APoint
  <2>5. Leads(Expect(")"), z1, z2)
    BY <2>2, <2>3, <1>3, LeadsCloser DEF Is, Closers
  <2>6. Leads(Do("statement"), z2, z3)
    BY <1>3, <2>3, <2>4, LeadsStatement DEF Is
  <2>7. Leads([at |-> "forEnd", loop |-> Top.incr, exit |-> Top.exit], z3, y)
    <3>1. PICK a : a = [at |-> "forEnd", loop |-> Top.incr, exit |-> Top.exit]
      OBVIOUS
    <3>2. a.at = "forEnd" /\ a.loop = Top.incr /\ a.exit = Top.exit
      BY <3>1
    <3>3. Effect(a) = <<0, 0>> /\ Closes(a) = 0
      BY <3>2
    <3>4. Uses(z3.h, y.h, <<0, 0>>)
      BY <1>3, <2>4, UsesSame, UsesOneMore, UsesOneLess DEF Is, Points
    <3>5. z3.close = y.close + 0
      BY <1>3, <2>4 DEF Is, Points
    <3> HIDE DEF Effect, Closes
    <3>6. Leads(a, z3, y)
      BY <1>3, <2>4, <3>2, <3>3, <3>4, <3>5 DEF Leads, Typed, Lands, Balanced, Is
    <3> QED
      BY <3>1, <3>6
  <2>8. Ready(<<Expect(")"), Do("statement"),
                [at |-> "forEnd", loop |-> Top.incr, exit |-> Top.exit]>> \o Tail(work), z1)
    <3>1. z1 \in Points /\ z2 \in Points /\ z3 \in Points
      BY <2>2, <2>3, <2>4 DEF Is
    <3> QED
      BY <1>2, <2>5, <2>6, <2>7, <3>1, Put3
  <2>9. Sound(p, z1.h)
    BY <1>5, <2>2 DEF Is
  <2>10. Counted(z1) /\ ~z1.fresh /\ z1.base = x.base
    BY <1>2, <1>3, <2>2 DEF Is, Fits, Counted
  <2> QED
    BY <1>1, <1>2, <2>1, <2>2, <2>8, <2>9, <2>10, Stays DEF Is

LEMMA LiveLoop ==
  ASSUME CInv, Loop, ~rotten'
  PROVE  Live'
<1>1. ~rotten /\ work # <<>> /\ Top.at \in {"whileEnd", "forEnd"}
  <2>1. ~rotten
    BY UnspoiledStay DEF Loop, CInv
  <2> QED
    BY <2>1 DEF Loop, At, Top
<1>2. PICK x \in Points, y \in Points :
        Fits(x) /\ Ready(work, x) /\ Leads(Top, x, y) /\ Ready(Tail(work), y)
  BY <1>1, Facing DEF CInv
<1>3. /\ x.h \in Heights /\ y.h \in Heights /\ x.base \in Heights /\ x.close \in Nat
      /\ y.close \in Nat /\ x.inside \in BOOLEAN /\ x.h = y.h /\ ~x.inside
      /\ Meets(Top.loop, y.h) /\ Meets(Top.exit, y.h)
  BY <1>1, <1>2, UsesSame, UsesOneMore, UsesOneLess DEF Leads, Typed, Lands, Balanced, Points
<1>4. Sound(Join(Back(point, Top.loop), Top.exit), y.h)
  <2>1. Sound(Back(point, Top.loop), y.h)
    BY <1>2, <1>3, BackSound DEF Fits
  <2> QED
    BY <1>3, <2>1, JoinSound
<1>5. Stay(<<>>, Join(Back(point, Top.loop), Top.exit))
  BY DEF Loop
<1> QED
  BY <1>1, <1>2, <1>3, <1>4, <1>5, Pops

-----------------------------------------------------------------------------
(* Expressions. *)

LEMMA PrecedenceIs ==
  /\ Precedence["=="] = 4 /\ Precedence["-"] = 6
  /\ \A t \in Tokens : Precedence[t] \in Nat
  /\ \A t \in Tokens : t \notin {"or", "==", "-", "(", "[", "."} => ~(Precedence[t] > 0)
BY DEF Precedence, Tokens

LEMMA PutLast ==
  ASSUME NEW S, NEW u \in Seq(S), NEW e, NEW w, NEW x, NEW y, Ready(w, y),
         Ready(u \o (<<e>> \o w), x)
  PROVE  Ready((u \o <<e>>) \o w, x)
<1>1. PICK R : w \in Seq(R)
  BY DEF Ready
<1>2. PICK T : T = (S \cup R) \cup {e}
  OBVIOUS
<1>3. u \in Seq(T) /\ w \in Seq(T) /\ <<e>> \in Seq(T)
  <2>1. u \in Seq(T) /\ w \in Seq(T)
    BY <1>1, <1>2, SeqMonotonic
  <2> QED
    BY <1>2, <2>1
<1>4. (u \o <<e>>) \o w = u \o (<<e>> \o w)
  BY <1>3, ConcatAssociative
<1> QED
  BY <1>4

\* What a prefix function has to do leads to the end of an operand.
LEMMA PrefixReady ==
  ASSUME now \in HasPrefix, NEW x \in Points, NEW v, Is(v, More(x.h), x.base, x.close, TRUE, FALSE),
         NEW w, Ready(w, v)
  PROVE  \E z \in Points :
           Ready(Prefix(now) \o w, z) /\ z.h = x.h /\ z.close = x.close + Closing
<1>1. x.h \in Heights /\ x.base \in Heights /\ x.close \in Nat
  BY DEF Points
<1>2. v \in Points /\ Is(v, More(x.h), x.base, x.close, TRUE, FALSE) /\ Ready(w, v)
  BY DEF Is
<1>3. CASE now = "("
  <2>1. Prefix(now) = <<Expr(1), Expect(")")>>
    BY <1>3 DEF Prefix
  <2>2. PICK z1 : Is(z1, x.h, x.base, x.close + 1, FALSE, FALSE)
    BY <1>1, APointInside
  <2>3. PICK z2 : Is(z2, More(x.h), x.base, x.close + 1, TRUE, FALSE)
    BY <1>1, APointInside, NextHeights
  <2>4. Leads(Expr(1), z1, z2)
    BY <1>1, <2>2, <2>3, LeadsExpr DEF Is
  <2>5. Leads(Expect(")"), z2, v)
    BY <1>1, <2>3, <1>2, LeadsCloser DEF Is, Closers
  <2>6. Ready(<<Expr(1), Expect(")")>> \o w, z1)
    BY <2>2, <2>3, <2>4, <2>5, Put2 DEF Is
  <2>7. Closing = 1
    BY <1>3 DEF Closing, Openers, Closers
  <2> QED
    BY <1>1, <2>1, <2>2, <2>6, <2>7 DEF Is
<1>4. CASE now = "-"
  <2>1. Prefix(now) = <<Expr(Unary), Emit(<<1, 1>>)>>
    BY <1>4 DEF Prefix, Operators
  <2>2. PICK z1 : Is(z1, x.h, x.base, x.close, FALSE, FALSE)
    BY <1>1, APoint
  <2>3. PICK z2 : Is(z2, More(x.h), x.base, x.close, TRUE, FALSE)
    BY <1>1, APoint, NextHeights
  <2>4. Leads(Expr(Unary), z1, z2)
    BY <1>1, <2>2, <2>3, LeadsExpr DEF Is, Unary
  <2>5. Leads(Emit(<<1, 1>>), z2, v)
    <3>1. <<1, 1>> \in Nat \X Nat
      OBVIOUS
    <3>2. Uses(z2.h, v.h, <<1, 1>>)
      BY <1>1, <2>3, <1>2, NextHeights, UsesSame, UsesOneMore, UsesOneLess DEF Is, Points
    <3> QED
      BY <1>1, <2>3, <1>2, <3>1, <3>2, LeadsEmit DEF Is
  <2>6. Ready(<<Expr(Unary), Emit(<<1, 1>>)>> \o w, z1)
    BY <2>2, <2>3, <2>4, <2>5, Put2 DEF Is
  <2>7. Closing = 0
    BY <1>4 DEF Closing, Openers, Closers
  <2> QED
    BY <1>1, <2>1, <2>2, <2>6, <2>7 DEF Is
<1>5. CASE now = "atom"
  <2>1. Prefix(now) = <<Emit(<<0, 1>>)>>
    BY <1>5 DEF Prefix, Registers
  <2>2. PICK z1 : Is(z1, x.h, x.base, x.close, FALSE, FALSE)
    BY <1>1, APoint
  <2>3. Leads(Emit(<<0, 1>>), z1, v)
    <3>1. <<0, 1>> \in Nat \X Nat
      OBVIOUS
    <3>2. Uses(z1.h, v.h, <<0, 1>>)
      BY <1>1, <2>2, <1>2, NextHeights, UsesSame, UsesOneMore, UsesOneLess DEF Is, Points
    <3> QED
      BY <1>1, <2>2, <1>2, <3>1, <3>2, LeadsEmit DEF Is
  <2>4. Ready(<<Emit(<<0, 1>>)>> \o w, z1)
    BY <2>2, <2>3, Put DEF Is
  <2>5. Closing = 0
    BY <1>5 DEF Closing, Openers, Closers
  <2> QED
    BY <1>1, <2>1, <2>2, <2>4, <2>5 DEF Is
<1>6. CASE now = "ident"
  <2>1. Prefix(now) = <<Do("identifier")>>
    BY <1>6 DEF Prefix
  <2>2. PICK z1 : Is(z1, x.h, x.base, x.close, FALSE, FALSE)
    BY <1>1, APoint
  <2>3. Leads(Do("identifier"), z1, v)
    BY <1>1, <2>2, <1>2, UsesSame, UsesOneMore, UsesOneLess DEF Do, Leads, Typed, Lands,
      Balanced, Is, Points
  <2>4. Ready(<<Do("identifier")>> \o w, z1)
    BY <2>2, <2>3, Put DEF Is
  <2>5. Closing = 0
    BY <1>6 DEF Closing, Openers, Closers
  <2> QED
    BY <1>1, <2>1, <2>2, <2>4, <2>5 DEF Is
<1>7. CASE now = "if"
  <2>1. Prefix(now) = <<Expect("("), Expr(1), Expect(")"), Do("then")>>
    BY <1>7 DEF Prefix
  <2>2. PICK z1 : Is(z1, x.h, x.base, x.close, FALSE, FALSE)
    BY <1>1, APoint
  <2>3. PICK z2 : Is(z2, x.h, x.base, x.close + 1, FALSE, FALSE)
    BY <1>1, APointInside
  <2>4. PICK z3 : Is(z3, More(x.h), x.base, x.close + 1, TRUE, FALSE)
    BY <1>1, APointInside, NextHeights
  <2>5. PICK z4 : Is(z4, More(x.h), x.base, x.close, FALSE, FALSE)
    BY <1>1, APoint, NextHeights
  <2>6. Leads(Expect("("), z1, z2)
    BY <1>1, <2>2, <2>3, LeadsOpener DEF Is, Openers
  <2>7. Leads(Expr(1), z2, z3)
    BY <1>1, <2>3, <2>4, LeadsExpr DEF Is
  <2>8. Leads(Expect(")"), z3, z4)
    BY <1>1, <2>4, <2>5, LeadsCloser DEF Is, Closers
  <2>9. Leads(Do("then"), z4, v)
    BY <1>1, <2>5, <1>2, NextHeights, UsesSame, UsesOneMore, UsesOneLess DEF Do, Leads, Typed,
      Lands, Balanced, Is, Points
  <2>10. Ready(<<Expect("("), Expr(1), Expect(")"), Do("then")>> \o w, z1)
    <3>1. z1 \in Points /\ z2 \in Points /\ z3 \in Points /\ z4 \in Points
      BY <2>2, <2>3, <2>4, <2>5 DEF Is
    <3>2. PICK a, b, c, d : /\ a = Expect("(") /\ b = Expr(1)
                            /\ c = Expect(")") /\ d = Do("then")
      OBVIOUS
    <3>3. Leads(a, z1, z2) /\ Leads(b, z2, z3) /\ Leads(c, z3, z4) /\ Leads(d, z4, v)
      BY <2>6, <2>7, <2>8, <2>9, <3>2
    <3>4. Ready(<<a, b, c, d>> \o w, z1)
      BY <3>1, <3>3, Put4
    <3> QED
      BY <3>2, <3>4
  <2>11. Closing = 0
    BY <1>7 DEF Closing, Openers, Closers
  <2> QED
    BY <1>1, <2>1, <2>2, <2>10, <2>11 DEF Is
<1>8. CASE now = "class"
  <2>1. PICK m : m = [at |-> "member", count |-> 0, named |-> 0]
    OBVIOUS
  <2>2. m.at = "member" /\ m.count = 0 /\ m.named = 0
    BY <2>1
  <2>3. Prefix(now) = <<Expect("{"), m>>
    BY <1>8, <2>1 DEF Prefix
  <2>4. PICK z1 : Is(z1, x.h, x.base, x.close, FALSE, FALSE)
    BY <1>1, APoint
  <2>5. PICK z2 : Is(z2, x.h, x.base, x.close + 1, FALSE, TRUE)
    BY <1>1, APointInside
  <2>6. Leads(Expect("{"), z1, z2)
    BY <1>1, <2>4, <2>5, LeadsOpener DEF Is, Openers
  <2>7. Leads(m, z2, v)
    <3>1. Effect(m) = <<0, 1>> /\ Closes(m) = 1
      BY <2>2 DEF DeclareClass
    <3>2. Uses(z2.h, v.h, <<0, 1>>)
      BY <1>1, <1>2, <2>5, UsesOneMore DEF Is, Points
    <3> HIDE DEF Effect, Closes
    <3> QED
      BY <1>1, <1>2, <2>2, <2>5, <3>1, <3>2 DEF Leads, Typed, Lands, Balanced, Is
  <2>8. Ready(<<Expect("{"), m>> \o w, z1)
    BY <1>2, <2>4, <2>5, <2>6, <2>7, Put2 DEF Is
  <2>9. Closing = 0
    BY <1>8 DEF Closing, Openers, Closers
  <2>10. Ready(Prefix(now) \o w, z1)
    BY <2>3, <2>8
  <2> QED
    BY <1>1, <2>4, <2>9, <2>10 DEF Is
<1>9. CASE now = "fun"
  <2>1. Prefix(now) = <<Do("fun")>>
    BY <1>9 DEF Prefix
  <2>2. PICK z1 : Is(z1, x.h, x.base, x.close, FALSE, FALSE)
    BY <1>1, APoint
  <2>3. Leads(Do("fun"), z1, v)
    BY <1>1, <2>2, <1>2, UsesSame, UsesOneMore, UsesOneLess DEF Do, Leads, Typed, Lands,
      Balanced, Is, Points
  <2>4. Ready(<<Do("fun")>> \o w, z1)
    BY <2>2, <2>3, Put DEF Is
  <2>5. Closing = 0
    BY <1>9 DEF Closing, Openers, Closers
  <2> QED
    BY <1>1, <2>1, <2>2, <2>4, <2>5 DEF Is
<1>10. CASE now = "{"
  <2>1. Prefix(now) = <<Do("brace")>>
    BY <1>10 DEF Prefix
  <2>2. PICK z1 : Is(z1, x.h, x.base, x.close + 1, FALSE, TRUE)
    BY <1>1, APointInside
  <2>3. Leads(Do("brace"), z1, v)
    BY <1>1, <2>2, <1>2, UsesSame, UsesOneMore, UsesOneLess DEF Do, Leads, Typed, Lands,
      Balanced, Is, Points
  <2>4. Ready(<<Do("brace")>> \o w, z1)
    BY <2>2, <2>3, Put DEF Is
  <2>5. Closing = 1
    BY <1>10 DEF Closing, Openers, Closers
  <2> QED
    BY <1>1, <2>1, <2>2, <2>4, <2>5 DEF Is
<1> QED
  BY <1>3, <1>4, <1>5, <1>6, <1>7, <1>8, <1>9, <1>10 DEF HasPrefix

LEMMA LiveExpression ==
  ASSUME CInv, Quirks = {}, Expression, ~rotten'
  PROVE  Live'
<1>1. ~rotten /\ work # <<>> /\ Top.at = "expr"
  <2>1. ~rotten
    BY UnspoiledTake, Spoiled DEF Expression, CInv
  <2> QED
    BY <2>1 DEF Expression, At, Top
<1>2. PICK x \in Points, y \in Points :
        Fits(x) /\ Ready(work, x) /\ Leads(Top, x, y) /\ Ready(Tail(work), y)
  BY <1>1, Facing DEF CInv
<1>3. /\ x.h \in Heights /\ y.h \in Heights /\ x.base \in Heights /\ x.close \in Nat
      /\ y.close \in Nat /\ x.inside \in BOOLEAN /\ y.h = More(x.h) /\ x.base = y.base
      /\ x.close = y.close /\ ~x.inside /\ y.inside /\ ~y.fresh
  BY <1>1, <1>2, UsesSame, UsesOneMore, UsesOneLess DEF Leads, Typed, Lands, Balanced, Points
<1>4. now \in HasPrefix /\ now \notin {"}", "EOF"}
  BY Spoiled DEF Expression, HasPrefix
<1>5. PICK e : e = [at |-> "infix", prec |-> Top.prec, permit |-> permit, panic |-> panic']
  OBVIOUS
<1>6. Take(Prefix(now) \o <<e>>, point)
  BY <1>4, <1>5 DEF Expression
<1>7. e.at = "infix" /\ e.prec \in Nat \ {0} /\ e.permit \in BOOLEAN /\ e.panic = FALSE
  <2>1. e.at = "infix" /\ e.prec = Top.prec /\ e.permit = permit /\ e.panic = panic'
    BY <1>5
  <2>2. Top.prec \in Nat \ {0}
    BY <1>1, <1>2 DEF Leads, Typed
  <2>3. panic' = FALSE
    BY <1>1, <1>6 DEF CInv, Base, Take, Report
  <2> QED
    BY <2>1, <2>2, <2>3 DEF CInv, Base
<1>8. PICK v : Is(v, More(x.h), x.base, x.close, TRUE, FALSE)
  BY <1>3, APoint, NextHeights
<1>9. Leads(e, v, y)
  <2>1. Effect(e) = <<1, 1>> /\ Closes(e) = 0
    BY <1>7
  <2>2. Uses(v.h, y.h, <<1, 1>>)
    BY <1>3, <1>8, NextHeights, UsesSame DEF Is, Points
  <2>3. v.close = y.close + 0
    BY <1>3, <1>8 DEF Is, Points
  <2> HIDE DEF Effect, Closes
  <2> QED
    BY <1>3, <1>7, <1>8, <2>1, <2>2, <2>3 DEF Leads, Typed, Lands, Balanced, Is
<1>10. Ready(<<e>> \o Tail(work), v)
  BY <1>2, <1>8, <1>9, Put DEF Is
<1>11. PICK z \in Points :
         /\ Ready(Prefix(now) \o (<<e>> \o Tail(work)), z)
         /\ z.h = x.h /\ z.close = x.close + Closing
  BY <1>2, <1>4, <1>8, <1>10, PrefixReady
<1>12. PICK S : Prefix(now) \in Seq(S)
  BY <1>4, SavablePrefix DEF Savable
<1>13. Ready((Prefix(now) \o <<e>>) \o Tail(work), z)
  BY <1>2, <1>11, <1>12, PutLast
<1>14. opened + Closing = z.close
  BY <1>2, <1>4, <1>11, AllCounted
<1>15. Sound(point, z.h)
  BY <1>2, <1>11 DEF Fits
<1> QED
  BY <1>1, <1>4, <1>6, <1>11, <1>13, <1>14, <1>15, Takes

\* What an infix function has to do leads from one operand back to it.
LEMMA InfixReady ==
  ASSUME Precedence[now] > 0, now \in Tokens, NEW x \in Points, x.h # 0, Sound(point, x.h),
         NEW v, Is(v, x.h, x.base, x.close, TRUE, FALSE), NEW w, Ready(w, v)
  PROVE  \E z \in Points :
           Ready(Infix(now) \o w, z) /\ Sound(InfixCode(now), z.h) /\ z.close = x.close + Closing
<1>1. /\ x.h \in Heights /\ x.h # 0 /\ x.base \in Heights /\ x.close \in Nat
      /\ Less(x.h) \in Heights /\ More(Less(x.h)) = x.h
  BY NextHeights DEF Points
<1>2. v \in Points /\ Is(v, x.h, x.base, x.close, TRUE, FALSE) /\ Ready(w, v)
  BY DEF Is
<1>3. CASE now = "or"
  <2>1. PICK p : p = After(point, <<1, 1>>)
    OBVIOUS
  <2>2. Sound(p, x.h)
    BY <1>1, <2>1, UsesSame, AfterSound
  <2>3. InfixCode(now) = After(p, <<1, 0>>) /\ Sound(After(p, <<1, 0>>), Less(x.h))
    <3>1. InfixCode(now) = After(p, <<1, 0>>)
      BY <1>3, <2>1 DEF InfixCode, Jumps, Globals
    <3> QED
      BY <1>1, <2>2, <3>1, UsesOneLess, AfterSound
  <2>4. Infix(now) = <<Expr(2), Confirm(Mark(p))>>
    BY <1>3, <2>1 DEF Infix, Jumps
  <2>5. PICK z1 : Is(z1, Less(x.h), x.base, x.close, FALSE, FALSE)
    BY <1>1, APoint
  <2>6. PICK z2 : Is(z2, x.h, x.base, x.close, TRUE, FALSE)
    BY <1>1, APoint
  <2>7. Leads(Expr(2), z1, z2)
    BY <1>1, <2>5, <2>6, LeadsExpr DEF Is
  <2>8. Leads(Confirm(Mark(p)), z2, v)
    BY <1>2, <2>2, <2>6, MarkMeets, LeadsConfirm DEF Is
  <2>9. Ready(<<Expr(2), Confirm(Mark(p))>> \o w, z1)
    BY <1>2, <2>5, <2>6, <2>7, <2>8, Put2 DEF Is
  <2>10. Closing = 0
    BY <1>3 DEF Closing, Openers, Closers
  <2> QED
    BY <1>1, <2>3, <2>4, <2>5, <2>9, <2>10 DEF Is
<1>4. ASSUME now # "or"
      PROVE  InfixCode(now) = point
  BY <1>4 DEF InfixCode
<1>5. CASE now = "("
  <2>1. PICK m : m = [at |-> "args", n |-> 0]
    OBVIOUS
  <2>2. m.at = "args" /\ m.n = 0
    BY <2>1
  <2>3. Infix(now) = <<m>>
    BY <1>5, <2>1 DEF Infix
  <2>4. PICK z1 : Is(z1, x.h, x.base, x.close + 1, FALSE, FALSE)
    BY <1>1, APointInside
  <2>5. Leads(m, z1, v)
    <3>1. Effect(m) = <<1, 1>> /\ Closes(m) = 1
      BY <2>2 DEF Call
    <3>2. Uses(z1.h, v.h, <<1, 1>>)
      BY <1>1, <1>2, <2>4, UsesSame DEF Is, Points
    <3> HIDE DEF Effect, Closes
    <3> QED
      BY <1>1, <1>2, <2>2, <2>4, <3>1, <3>2 DEF Leads, Typed, Lands, Balanced, Is
  <2>6. Ready(<<m>> \o w, z1)
    BY <1>2, <2>4, <2>5, Put DEF Is
  <2>7. Closing = 1
    BY <1>5 DEF Closing, Openers, Closers
  <2> QED
    BY <1>1, <1>4, <1>5, <2>3, <2>4, <2>6, <2>7 DEF Is
<1>6. CASE now = "["
  <2>1. Infix(now) = <<Expr(1), Expect("]"), Do("index")>>
    BY <1>6 DEF Infix
  <2>2. PICK z1 : Is(z1, x.h, x.base, x.close + 1, FALSE, FALSE)
    BY <1>1, APointInside
  <2>3. PICK z2 : Is(z2, More(x.h), x.base, x.close + 1, TRUE, FALSE)
    BY <1>1, APointInside, NextHeights
  <2>4. PICK z3 : Is(z3, More(x.h), x.base, x.close, FALSE, FALSE)
    BY <1>1, APoint, NextHeights
  <2>5. Leads(Expr(1), z1, z2)
    BY <1>1, <2>2, <2>3, LeadsExpr DEF Is
  <2>6. Leads(Expect("]"), z2, z3)
    BY <1>1, <2>3, <2>4, LeadsCloser DEF Is, Closers
  <2>7. Leads(Do("index"), z3, v)
    BY <1>1, <2>4, <1>2, UsesSame, UsesOneMore, UsesOneLess DEF Do, Leads, Typed, Lands,
      Balanced, Is, Points
  <2>8. Ready(<<Expr(1), Expect("]"), Do("index")>> \o w, z1)
    <3>1. z1 \in Points /\ z2 \in Points /\ z3 \in Points
      BY <2>2, <2>3, <2>4 DEF Is
    <3>2. PICK a, b, c : /\ a = Expr(1) /\ b = Expect("]")
                         /\ c = Do("index")
      OBVIOUS
    <3>3. Leads(a, z1, z2) /\ Leads(b, z2, z3) /\ Leads(c, z3, v)
      BY <2>5, <2>6, <2>7, <3>2
    <3>4. Ready(<<a, b, c>> \o w, z1)
      BY <3>1, <3>3, Put3
    <3> QED
      BY <3>2, <3>4
  <2>9. Closing = 1
    BY <1>6 DEF Closing, Openers, Closers
  <2> QED
    BY <1>1, <1>4, <1>6, <2>1, <2>2, <2>8, <2>9 DEF Is
<1>7. CASE now = "."
  <2>1. Infix(now) = <<Expect("ident"), Do("field")>>
    BY <1>7 DEF Infix
  <2>2. PICK z1 : Is(z1, x.h, x.base, x.close, FALSE, FALSE)
    BY <1>1, APoint
  <2>3. PICK z2 : Is(z2, x.h, x.base, x.close, FALSE, FALSE)
    BY <1>1, APoint
  <2>4. Leads(Expect("ident"), z1, z2)
    BY <1>1, <2>2, <2>3, LeadsToken DEF Is, Openers, Closers
  <2>5. Leads(Do("field"), z2, v)
    BY <1>1, <2>3, <1>2, UsesSame, UsesOneMore, UsesOneLess DEF Do, Leads, Typed, Lands,
      Balanced, Is, Points
  <2>6. Ready(<<Expect("ident"), Do("field")>> \o w, z1)
    BY <2>2, <2>3, <2>4, <2>5, Put2 DEF Is
  <2>7. Closing = 0
    BY <1>7 DEF Closing, Openers, Closers
  <2> QED
    BY <1>1, <1>4, <1>7, <2>1, <2>2, <2>6, <2>7 DEF Is
<1>8. CASE now \in {"==", "-"}
  <2>0. PICK q \in Nat \ {0} : q = Precedence[now] + 1
    BY <1>8, PrecedenceIs
  <2>1. Infix(now) = <<Expr(q), Emit(<<2, 1>>)>>
    BY <1>8, <2>0 DEF Infix, Operators
  <2>2. PICK z1 : Is(z1, x.h, x.base, x.close, FALSE, FALSE)
    BY <1>1, APoint
  <2>3. PICK z2 : Is(z2, More(x.h), x.base, x.close, TRUE, FALSE)
    BY <1>1, APoint, NextHeights
  <2>4. Leads(Expr(q), z1, z2)
    BY <1>1, <2>2, <2>3, LeadsExpr DEF Is
  <2>5. Leads(Emit(<<2, 1>>), z2, v)
    <3>1. <<2, 1>> \in Nat \X Nat
      OBVIOUS
    <3>2. Uses(z2.h, v.h, <<2, 1>>)
      BY <1>1, <2>3, <1>2, NextHeights, UsesSame, UsesOneMore, UsesOneLess DEF Is, Points
    <3> QED
      BY <1>1, <2>3, <1>2, <3>1, <3>2, LeadsEmit DEF Is
  <2>6. Ready(<<Expr(q), Emit(<<2, 1>>)>> \o w, z1)
    BY <2>2, <2>3, <2>4, <2>5, Put2 DEF Is
  <2>7. Closing = 0
    BY <1>8 DEF Closing, Openers, Closers
  <2> QED
    BY <1>1, <1>4, <1>8, <2>1, <2>2, <2>6, <2>7 DEF Is
<1> QED
  BY <1>3, <1>5, <1>6, <1>7, <1>8, PrecedenceIs

LEMMA LiveOperator ==
  ASSUME CInv, Quirks = {}, Operator, ~rotten'
  PROVE  Live'
<1>1. ~rotten /\ work # <<>> /\ Top.at = "infix"
  <2>1. ~rotten
    BY UnspoiledTake DEF Operator, CInv
  <2> QED
    BY <2>1 DEF Operator, At, Top
<1>2. PICK x \in Points, y \in Points :
        Fits(x) /\ Ready(work, x) /\ Leads(Top, x, y) /\ Ready(Tail(work), y)
  BY <1>1, Facing DEF CInv
<1>3. /\ x.h \in Heights /\ y.h \in Heights /\ x.base \in Heights /\ x.close \in Nat
      /\ y.close \in Nat /\ x.inside \in BOOLEAN /\ y.h = x.h /\ x.h # 0
      /\ x.base = y.base /\ x.close = y.close /\ y.inside /\ ~y.fresh
      /\ Top.prec \in Nat \ {0}
  BY <1>1, <1>2, UsesSame, UsesOneMore, UsesOneLess DEF Leads, Typed, Lands, Balanced, Points
<1>4. now \in Tokens /\ Precedence[now] > 0 /\ now \notin {"}", "EOF"}
  <2>1. now \in Tokens /\ Top.prec <= Precedence[now]
    BY DEF Operator, CInv, Base
  <2>2. Precedence[now] \in Nat
    BY <2>1, PrecedenceIs
  <2>3. Precedence[now] > 0
    BY <1>3, <2>1, <2>2
  <2>4. ~(Precedence["}"] > 0) /\ ~(Precedence["EOF"] > 0)
    BY PrecedenceIs DEF Tokens
  <2>5. now \notin {"}", "EOF"}
    BY <2>3, <2>4, Zenon
  <2> QED
    BY <2>1, <2>3, <2>5, Zenon
<1>5. PICK e : e = Top
  OBVIOUS
<1>6. Take(Infix(now) \o <<e>>, InfixCode(now))
  BY <1>5 DEF Operator
<1>7. PICK v : Is(v, x.h, x.base, x.close, TRUE, FALSE)
  BY <1>3, APoint
<1>8. Leads(e, v, y)
  <2>1. Effect(e) = <<1, 1>> /\ Closes(e) = 0
    BY <1>1, <1>5
  <2>2. v.close = y.close + 0 /\ v.h = x.h
    BY <1>3, <1>7 DEF Is, Points
  <2> HIDE DEF Effect, Closes
  <2> QED
    BY <1>1, <1>2, <1>3, <1>5, <1>7, <2>1, <2>2 DEF Leads, Balanced, Is
<1>9. Ready(<<e>> \o Tail(work), v)
  BY <1>2, <1>7, <1>8, Put DEF Is
<1>10. PICK z \in Points :
         /\ Ready(Infix(now) \o (<<e>> \o Tail(work)), z)
         /\ Sound(InfixCode(now), z.h) /\ z.close = x.close + Closing
  BY <1>2, <1>3, <1>4, <1>7, <1>9, InfixReady DEF Fits
<1>11. PICK S : Infix(now) \in Seq(S)
  BY SavableInfix DEF Savable
<1>12. Ready((Infix(now) \o <<e>>) \o Tail(work), z)
  BY <1>2, <1>10, <1>11, PutLast
<1>13. opened + Closing = z.close
  BY <1>2, <1>4, <1>10, AllCounted
<1> QED
  BY <1>1, <1>4, <1>6, <1>10, <1>12, <1>13, Takes

LEMMA LiveEndExpression ==
  ASSUME CInv, EndExpression, ~rotten'
  PROVE  Live'
<1>1. ~rotten /\ work # <<>> /\ Top.at = "infix"
  <2>1. ~rotten
    BY DEF EndExpression
  <2> QED
    BY <2>1 DEF EndExpression, At, Top
<1>2. PICK x \in Points, y \in Points :
        Fits(x) /\ Ready(work, x) /\ Leads(Top, x, y) /\ Ready(Tail(work), y)
  BY <1>1, Facing DEF CInv
<1>3. /\ x.h \in Heights /\ y.h \in Heights /\ x.base \in Heights /\ x.close \in Nat
      /\ y.close \in Nat /\ x.inside \in BOOLEAN /\ ~panic /\ Top.panic = FALSE
      /\ x.h = y.h
  BY <1>1, <1>2, UsesSame, UsesOneMore, UsesOneLess DEF Leads, Typed, Lands, Balanced, Points,
    CInv, Base
<1>4. Stay(<<>>, point)
  BY <1>3 DEF EndExpression, Stay, CInv, Base
<1>5. Sound(point, y.h)
  BY <1>2, <1>3 DEF Fits
<1> QED
  BY <1>1, <1>2, <1>4, <1>5, Pops

LEMMA LiveIdentifier ==
  ASSUME CInv, Quirks = {}, Identifier, ~rotten'
  PROVE  Live'
<1>1. ~rotten /\ work # <<>> /\ Top.at = "identifier"
  <2>1. ~rotten
    BY UnspoiledTake, UnspoiledStay, Spoiled DEF Identifier, CInv
  <2> QED
    BY <2>1 DEF Identifier, At, Top
<1>2. PICK x \in Points, y \in Points :
        Fits(x) /\ Ready(work, x) /\ Leads(Top, x, y) /\ Ready(Tail(work), y)
  BY <1>1, Facing DEF CInv
<1>3. /\ x.h \in Heights /\ y.h \in Heights /\ x.base \in Heights /\ x.close \in Nat
      /\ y.close \in Nat /\ x.inside \in BOOLEAN /\ y.h = More(x.h) /\ ~x.inside
      /\ x.base = y.base /\ x.close = y.close /\ y.inside /\ ~y.fresh
  BY <1>1, <1>2, UsesSame, UsesOneMore, UsesOneLess DEF Leads, Typed, Lands, Balanced, Points
<1>4. CASE now = "="
  <2>1. Take(<<Expr(1), Emit(<<1, 1>>)>>, point)
    BY <1>4, Spoiled DEF Identifier, Assigning, Registers
  <2>2. PICK z1 : Is(z1, x.h, x.base, x.close, FALSE, FALSE)
    BY <1>3, APoint
  <2>3. PICK z2 : Is(z2, More(x.h), x.base, x.close, TRUE, FALSE)
    BY <1>3, APoint, NextHeights
  <2>4. Leads(Expr(1), z1, z2)
    BY <2>2, <2>3, LeadsExpr DEF Is
  <2>5. Leads(Emit(<<1, 1>>), z2, y)
    <3>1. <<1, 1>> \in Nat \X Nat
      OBVIOUS
    <3>2. Uses(z2.h, y.h, <<1, 1>>)
      BY <1>3, <2>3, NextHeights, UsesSame, UsesOneMore, UsesOneLess DEF Is, Points
    <3> QED
      BY <1>3, <2>3, <3>1, <3>2, LeadsEmit DEF Is
  <2>6. Ready(<<Expr(1), Emit(<<1, 1>>)>> \o Tail(work), z1)
    <3>1. z1 \in Points /\ z2 \in Points
      BY <2>2, <2>3 DEF Is
    <3> QED
      BY <1>2, <2>4, <2>5, <3>1, Put2
  <2>7. Sound(point, z1.h)
    BY <1>2, <1>3, <2>2 DEF Is, Fits
  <2>8. now # "EOF" /\ opened + Closing = z1.close
    <3>1. opened = x.close
      BY <1>2, <1>3, <1>4, AllCounted
    <3>2. now # "EOF" /\ Closing = 0
      BY <1>4 DEF Closing, Openers, Closers
    <3> QED
      BY <1>3, <2>2, <3>1, <3>2 DEF Is
  <2> QED
    BY <1>1, <1>2, <2>1, <2>2, <2>6, <2>7, <2>8, Takes DEF Is
<1>5. CASE now # "="
  <2>1. Stay(<<>>, After(point, <<0, 1>>))
    BY <1>5 DEF Identifier, Registers
  <2>2. Sound(After(point, <<0, 1>>), y.h)
    BY <1>2, <1>3, UsesOneMore, AfterSound DEF Fits
  <2> QED
    BY <1>1, <1>2, <1>3, <2>1, <2>2, Pops
<1> QED
  BY <1>4, <1>5

LEMMA LiveThen ==
  ASSUME CInv, Then, ~rotten'
  PROVE  Live'
<1>1. ~rotten /\ work # <<>> /\ Top.at = "then"
  <2>1. ~rotten
    BY UnspoiledStay DEF Then, CInv
  <2> QED
    BY <2>1 DEF Then, At, Top
<1>2. PICK x \in Points, y \in Points :
        Fits(x) /\ Ready(work, x) /\ Leads(Top, x, y) /\ Ready(Tail(work), y)
  BY <1>1, Facing DEF CInv
<1>3. /\ x.h \in Heights /\ y.h \in Heights /\ x.base \in Heights /\ x.close \in Nat
      /\ y.close \in Nat /\ x.inside \in BOOLEAN /\ y.h = x.h /\ x.h # 0 /\ ~x.inside
      /\ x.base = y.base /\ x.close = y.close /\ y.inside /\ ~y.fresh
  BY <1>1, <1>2, UsesSame, UsesOneMore, UsesOneLess DEF Leads, Typed, Lands, Balanced, Points
<1>4. Less(x.h) \in Heights /\ More(Less(x.h)) = x.h
  BY <1>3, NextHeights
<1>5. PICK p : p = After(point, <<1, 0>>)
  OBVIOUS
<1>6. Sound(p, Less(x.h))
  BY <1>2, <1>3, <1>4, <1>5, UsesOneLess, AfterSound DEF Fits
<1>7. MeetsOneMore(Mark(p), x.h)
  <2>1. Less(x.h) = -1 \/ x.h = Less(x.h) + 1
    BY <1>4 DEF More
  <2> QED
    BY <1>4, <1>6, <2>1, MarkMeetsOneMore
<1> QED
  <2>1. Stay(<<Expr(1), [at |-> "else", jump |-> Mark(p)]>>, p)
    BY <1>5 DEF Then, Jumps
  <2>2. PICK z1 : Is(z1, Less(x.h), x.base, x.close, FALSE, FALSE)
    BY <1>3, <1>4, APoint, NextHeights
  <2>3. PICK z2 : Is(z2, x.h, x.base, x.close, TRUE, FALSE)
    BY <1>3, <1>4, APoint
  <2>4. Leads(Expr(1), z1, z2)
    BY <2>2, <2>3, <1>4, LeadsExpr DEF Is
  <2>5. Leads([at |-> "else", jump |-> Mark(p)], z2, y)
    <3>1. PICK a : a = [at |-> "else", jump |-> Mark(p)]
      OBVIOUS
    <3>2. a.at = "else" /\ a.jump = Mark(p)
      BY <3>1
    <3>3. Effect(a) = <<1, 1>> /\ Closes(a) = 0
      BY <3>2
    <3>4. Uses(z2.h, y.h, <<1, 1>>)
      BY <1>3, <2>3, <1>7, UsesSame, UsesOneMore, UsesOneLess DEF Is, Points
    <3>5. z2.close = y.close + 0
      BY <1>3, <2>3, <1>7 DEF Is, Points
    <3> HIDE DEF Effect, Closes
    <3>6. Leads(a, z2, y)
      BY <1>3, <2>3, <1>7, <3>2, <3>3, <3>4, <3>5 DEF Leads, Typed, Lands, Balanced, Is
    <3> QED
      BY <3>1, <3>6
  <2>6. Ready(<<Expr(1), [at |-> "else", jump |-> Mark(p)]>> \o Tail(work), z1)
    <3>1. z1 \in Points /\ z2 \in Points
      BY <2>2, <2>3 DEF Is
    <3> QED
      BY <1>2, <2>4, <2>5, <3>1, Put2
  <2>7. Sound(p, z1.h)
    BY <1>6, <2>2 DEF Is
  <2>8. Counted(z1) /\ ~z1.fresh /\ z1.base = x.base
    BY <1>2, <1>3, <2>2 DEF Is, Fits, Counted
  <2> QED
    BY <1>1, <1>2, <2>1, <2>2, <2>6, <2>7, <2>8, Stays DEF Is

LEMMA LiveElse ==
  ASSUME CInv, Quirks = {}, Else, ~rotten'
  PROVE  Live'
<1>1. ~rotten /\ work # <<>> /\ Top.at = "else"
  <2>1. ~rotten
    BY UnspoiledStay, UnspoiledTake DEF Else, CInv
  <2> QED
    BY <2>1 DEF Else, At, Top
<1>2. PICK x \in Points, y \in Points :
        Fits(x) /\ Ready(work, x) /\ Leads(Top, x, y) /\ Ready(Tail(work), y)
  BY <1>1, Facing DEF CInv
<1>3. /\ x.h \in Heights /\ y.h \in Heights /\ x.base \in Heights /\ x.close \in Nat
      /\ y.close \in Nat /\ x.inside \in BOOLEAN /\ y.h = x.h /\ x.h # 0
      /\ MeetsOneMore(Top.jump, x.h) /\ x.base = y.base /\ x.close = y.close /\ y.inside
      /\ ~y.fresh
  BY <1>1, <1>2, UsesSame, UsesOneMore, UsesOneLess DEF Leads, Typed, Lands, Balanced, Points
<1>4. Less(x.h) \in Heights /\ More(Less(x.h)) = x.h
  BY <1>3, NextHeights
<1>5. PICK p : p = Join(Dead(point), Top.jump)
  OBVIOUS
<1>6. Sound(p, Less(x.h))
  <2>1. Sound(Dead(point), Less(x.h))
    BY <1>2, DeadSound DEF Fits, Sound
  <2>2. Meets(Top.jump, Less(x.h))
    BY <1>3 DEF Meets, MeetsOneMore, Marks, Level, Less, Heights
  <2> QED
    BY <1>4, <1>5, <2>1, <2>2, JoinSound
<1>7. Meets(Mark(point), x.h)
  BY <1>2, MarkMeets DEF Fits
<1>8. CASE now = "else"
  <2>1. Take(<<Expr(1), Confirm(Mark(point))>>, p)
    BY <1>8, <1>5 DEF Else
  <2>2. PICK z1 : Is(z1, Less(x.h), x.base, x.close, FALSE, FALSE)
    BY <1>3, <1>4, APoint, NextHeights
  <2>3. PICK z2 : Is(z2, x.h, x.base, x.close, TRUE, FALSE)
    BY <1>3, <1>4, APoint
  <2>4. Leads(Expr(1), z1, z2)
    BY <2>2, <2>3, <1>4, LeadsExpr DEF Is
  <2>5. Leads(Confirm(Mark(point)), z2, y)
    BY <1>3, <2>3, <1>7, LeadsConfirm DEF Is
  <2>6. Ready(<<Expr(1), Confirm(Mark(point))>> \o Tail(work), z1)
    <3>1. z1 \in Points /\ z2 \in Points
      BY <2>2, <2>3 DEF Is
    <3> QED
      BY <1>2, <2>4, <2>5, <3>1, Put2
  <2>7. Sound(p, z1.h)
    BY <1>6, <2>2 DEF Is
  <2>8. now # "EOF" /\ opened + Closing = z1.close
    <3>1. opened = x.close
      BY <1>2, <1>3, <1>8, AllCounted
    <3>2. now # "EOF" /\ Closing = 0
      BY <1>8 DEF Closing, Openers, Closers
    <3> QED
      BY <1>3, <2>2, <3>1, <3>2 DEF Is
  <2> QED
    BY <1>1, <1>2, <2>1, <2>2, <2>6, <2>7, <2>8, Takes DEF Is
<1>9. CASE now # "else"
  <2>1. Stay(<<>>, Join(After(p, <<0, 1>>), Mark(point)))
    BY <1>5, <1>9 DEF Else, Registers
  <2>2. Sound(After(p, <<0, 1>>), x.h)
    BY <1>4, <1>6, <1>3, UsesOneMore, AfterSound
  <2>3. Sound(Join(After(p, <<0, 1>>), Mark(point)), y.h)
    BY <1>3, <1>7, <2>2, JoinSound
  <2> QED
    BY <1>1, <1>2, <1>3, <2>1, <2>3, Pops
<1> QED
  BY <1>8, <1>9

LEMMA LiveArguments ==
  ASSUME CInv, Quirks = {}, Arguments, ~rotten'
  PROVE  Live'
<1>1. ~rotten /\ work # <<>> /\ Top.at = "args"
  <2>1. ~rotten
    BY UnspoiledStay, UnspoiledTake DEF Arguments, CInv
  <2> QED
    BY <2>1 DEF Arguments, At, Top
<1>2. PICK x \in Points, y \in Points :
        Fits(x) /\ Ready(work, x) /\ Leads(Top, x, y) /\ Ready(Tail(work), y)
  BY <1>1, Facing DEF CInv
<1>3. /\ x.h \in Heights /\ y.h \in Heights /\ x.base \in Heights /\ x.close \in Nat
      /\ y.close \in Nat /\ x.inside \in BOOLEAN /\ ~x.inside /\ x.base = y.base
      /\ x.close = y.close + 1 /\ y.inside /\ ~y.fresh /\ Top.n \in Nat
      /\ Uses(x.h, y.h, <<Top.n + 1, 1>>)
  BY <1>1, <1>2, UsesSame, UsesOneMore, UsesOneLess DEF Leads, Typed, Lands, Balanced, Points,
    Call
<1>4. CASE now = ")"
  <2>1. Take(<<>>, After(point, <<Top.n + 1, 1>>))
    BY <1>4 DEF Arguments, Call
  <2>2. Sound(After(point, <<Top.n + 1, 1>>), y.h)
    BY <1>2, <1>3, AfterSound DEF Fits
  <2>3. opened + Closing = y.close
    <3>1. opened = x.close
      BY <1>2, <1>3, AllCounted
    <3>2. Closing = -1
      BY <1>4 DEF Closing, Openers, Closers
    <3> QED
      BY <1>3, <3>1, <3>2
  <2>4. Ready(<<>> \o Tail(work), y)
    BY <1>2, Put0
  <2> QED
    BY <1>1, <1>4, <2>1, <2>2, <2>3, <2>4, Takes
<1>5. CASE now # ")"
  <2>1. PICK n \in Nat : n = Top.n + 1
    BY <1>3
  <2>2. PICK a : a = [at |-> "arg", n |-> n]
    OBVIOUS
  <2>3. a.at = "arg" /\ a.n = n
    BY <2>2
  <2>4. Stay(<<Expr(1), a>>, point)
    BY <1>1, <1>5, <2>1, <2>2 DEF Arguments, Count
  <2>5. PICK z1 : Is(z1, x.h, x.base, x.close, FALSE, FALSE)
    BY <1>3, APoint
  <2>6. PICK z2 : Is(z2, More(x.h), x.base, x.close, TRUE, FALSE)
    BY <1>3, APoint, NextHeights
  <2>7. Leads(Expr(1), z1, z2)
    BY <2>5, <2>6, LeadsExpr DEF Is
  <2>8. Leads(a, z2, y)
    <3>1. Effect(a) = <<n + 1, 1>> /\ Closes(a) = 1
      BY <2>3 DEF Call
    <3>2. Uses(z2.h, y.h, <<n + 1, 1>>)
      BY <1>3, <2>1, <2>6, UsesArgument DEF Is
    <3> HIDE DEF Effect, Closes
    <3> QED
      BY <1>3, <2>3, <2>6, <3>1, <3>2 DEF Leads, Typed, Lands, Balanced, Is
  <2>9. Ready(<<Expr(1), a>> \o Tail(work), z1)
    BY <1>2, <2>5, <2>6, <2>7, <2>8, Put2 DEF Is
  <2>10. Sound(point, z1.h) /\ Counted(z1) /\ ~z1.fresh /\ z1.base = x.base
    BY <1>2, <1>3, <2>5 DEF Is, Fits, Counted
  <2> QED
    BY <1>1, <1>2, <2>4, <2>5, <2>9, <2>10, Stays DEF Is
<1> QED
  BY <1>4, <1>5

LEMMA LiveArgument ==
  ASSUME CInv, Quirks = {}, Argument, ~rotten'
  PROVE  Live'
<1>1. ~rotten /\ work # <<>> /\ Top.at = "arg"
  <2>1. ~rotten
    BY UnspoiledStay, UnspoiledTake DEF Argument, CInv
  <2> QED
    BY <2>1 DEF Argument, At, Top
<1>2. PICK x \in Points, y \in Points :
        Fits(x) /\ Ready(work, x) /\ Leads(Top, x, y) /\ Ready(Tail(work), y)
  BY <1>1, Facing DEF CInv
<1>3. /\ x.h \in Heights /\ y.h \in Heights /\ x.base \in Heights /\ x.close \in Nat
      /\ y.close \in Nat /\ x.inside \in BOOLEAN /\ x.base = y.base
      /\ x.close = y.close + 1 /\ y.inside /\ ~y.fresh /\ Top.n \in Nat
      /\ Uses(x.h, y.h, <<Top.n + 1, 1>>)
  BY <1>1, <1>2, UsesSame, UsesOneMore, UsesOneLess DEF Leads, Typed, Lands, Balanced, Points,
    Call
<1>4. CASE now = ","
  <2>1. PICK a : a = [at |-> "args", n |-> Top.n]
    OBVIOUS
  <2>2. a.at = "args" /\ a.n = Top.n
    BY <2>1
  <2>3. Take(<<a>>, point)
    BY <1>4, <2>1 DEF Argument
  <2>4. PICK z1 : Is(z1, x.h, x.base, x.close, FALSE, FALSE)
    BY <1>3, APoint
  <2>5. Leads(a, z1, y)
    <3>1. Effect(a) = <<Top.n + 1, 1>> /\ Closes(a) = 1
      BY <2>2 DEF Call
    <3> HIDE DEF Effect, Closes
    <3> QED
      BY <1>3, <2>2, <2>4, <3>1 DEF Leads, Typed, Lands, Balanced, Is
  <2>6. Ready(<<a>> \o Tail(work), z1)
    BY <1>2, <2>4, <2>5, Put DEF Is
  <2>7. Sound(point, z1.h)
    BY <1>2, <2>4 DEF Is, Fits
  <2>8. opened + Closing = z1.close
    <3>1. opened = x.close
      BY <1>2, <1>4, AllCounted
    <3>2. Closing = 0
      BY <1>4 DEF Closing, Openers, Closers
    <3> QED
      BY <1>3, <2>4, <3>1, <3>2 DEF Is
  <2> QED
    BY <1>1, <1>4, <2>3, <2>4, <2>6, <2>7, <2>8, Takes DEF Is
<1>5. CASE now # ","
  <2>1. PICK e \in Nat \X Nat : e = <<Top.n + 1, 1>>
    BY <1>3
  <2>2. Stay(<<Expect(")"), Emit(e)>>, point)
    BY <1>5, <2>1 DEF Argument, Call
  <2>3. PICK z1 : Is(z1, x.h, x.base, x.close, x.inside, FALSE)
    BY <1>3, APoint
  <2>4. PICK z2 : Is(z2, x.h, x.base, y.close, FALSE, FALSE)
    BY <1>3, APoint
  <2>5. Leads(Expect(")"), z1, z2)
    BY <1>3, <2>3, <2>4, LeadsCloser DEF Is, Closers
  <2>6. Leads(Emit(e), z2, y)
    BY <1>3, <2>1, <2>4, LeadsEmit DEF Is
  <2>7. Ready(<<Expect(")"), Emit(e)>> \o Tail(work), z1)
    BY <1>2, <2>3, <2>4, <2>5, <2>6, Put2 DEF Is
  <2>8. Sound(point, z1.h) /\ Counted(z1) /\ ~z1.fresh /\ z1.base = x.base
    BY <1>2, <1>3, <2>3 DEF Is, Fits, Counted
  <2> QED
    BY <1>1, <1>2, <2>2, <2>3, <2>7, <2>8, Stays DEF Is
<1> QED
  BY <1>4, <1>5

LEMMA UsesThreeForOne ==
  ASSUME NEW h \in Heights, h # 0
  PROVE  Uses(More(More(h)), h, <<3, 1>>)
<1>1. Uses(More(h), h, <<2, 1>>) /\ More(h) \in Heights
  BY UsesOneLess, NextHeights
<1>2. <<2 + 1, 1>> = <<3, 1>>
  OBVIOUS
<1> QED
  BY <1>1, <1>2, UsesArgument

LEMMA LiveIndex ==
  ASSUME CInv, Quirks = {}, Index, ~rotten'
  PROVE  Live'
<1>1. ~rotten /\ work # <<>> /\ Top.at = "index"
  <2>1. ~rotten
    BY UnspoiledStay, UnspoiledTake DEF Index, CInv
  <2> QED
    BY <2>1 DEF Index, At, Top
<1>2. PICK x \in Points, y \in Points :
        Fits(x) /\ Ready(work, x) /\ Leads(Top, x, y) /\ Ready(Tail(work), y)
  BY <1>1, Facing DEF CInv
<1>3. /\ x.h \in Heights /\ y.h \in Heights /\ x.base \in Heights /\ x.close \in Nat
      /\ y.close \in Nat /\ x.inside \in BOOLEAN /\ x.h = More(y.h) /\ y.h # 0
      /\ ~x.inside /\ x.base = y.base /\ x.close = y.close /\ y.inside /\ ~y.fresh
  BY <1>1, <1>2, UsesSame, UsesOneMore, UsesOneLess DEF Leads, Typed, Lands, Balanced, Points
<1>4. CASE now = "="
  <2>1. Take(<<Expr(1), Emit(<<3, 1>>)>>, point)
    BY <1>4 DEF Index, Indexing
  <2>2. PICK z1 : Is(z1, x.h, x.base, x.close, FALSE, FALSE)
    BY <1>3, APoint
  <2>3. PICK z2 : Is(z2, More(x.h), x.base, x.close, TRUE, FALSE)
    BY <1>3, APoint, NextHeights
  <2>4. Leads(Expr(1), z1, z2)
    BY <2>2, <2>3, LeadsExpr DEF Is
  <2>5. Leads(Emit(<<3, 1>>), z2, y)
    <3>1. <<3, 1>> \in Nat \X Nat
      OBVIOUS
    <3>2. Uses(z2.h, y.h, <<3, 1>>)
      BY <1>1, UsesThreeForOne,  <1>3, <2>3, NextHeights, UsesSame, UsesOneMore, UsesOneLess DEF Is, Points
    <3> QED
      BY <1>3, <2>3, <3>1, <3>2, LeadsEmit DEF Is
  <2>6. Ready(<<Expr(1), Emit(<<3, 1>>)>> \o Tail(work), z1)
    <3>1. z1 \in Points /\ z2 \in Points
      BY <2>2, <2>3 DEF Is
    <3> QED
      BY <1>2, <2>4, <2>5, <3>1, Put2
  <2>7. Sound(point, z1.h)
    BY <1>2, <1>3, <2>2 DEF Is, Fits
  <2>8. now # "EOF" /\ opened + Closing = z1.close
    <3>1. opened = x.close
      BY <1>2, <1>3, <1>4, AllCounted
    <3>2. now # "EOF" /\ Closing = 0
      BY <1>4 DEF Closing, Openers, Closers
    <3> QED
      BY <1>3, <2>2, <3>1, <3>2 DEF Is
  <2> QED
    BY <1>1, <1>2, <2>1, <2>2, <2>6, <2>7, <2>8, Takes DEF Is
<1>5. CASE now # "="
  <2>1. Stay(<<>>, After(point, <<2, 1>>))
    BY <1>5 DEF Index, Indexing
  <2>2. Sound(After(point, <<2, 1>>), y.h)
    BY <1>2, <1>3, UsesOneLess, AfterSound DEF Fits
  <2> QED
    BY <1>1, <1>2, <1>3, <2>1, <2>2, Pops
<1> QED
  BY <1>4, <1>5

LEMMA LiveField ==
  ASSUME CInv, Quirks = {}, Field, ~rotten'
  PROVE  Live'
<1>1. ~rotten /\ work # <<>> /\ Top.at = "field"
  <2>1. ~rotten
    BY UnspoiledStay, UnspoiledTake DEF Field, CInv
  <2> QED
    BY <2>1 DEF Field, At, Top
<1>2. PICK x \in Points, y \in Points :
        Fits(x) /\ Ready(work, x) /\ Leads(Top, x, y) /\ Ready(Tail(work), y)
  BY <1>1, Facing DEF CInv
<1>3. /\ x.h \in Heights /\ y.h \in Heights /\ x.base \in Heights /\ x.close \in Nat
      /\ y.close \in Nat /\ x.inside \in BOOLEAN /\ x.h = y.h /\ y.h # 0 /\ ~x.inside
      /\ x.base = y.base /\ x.close = y.close /\ y.inside /\ ~y.fresh
  BY <1>1, <1>2, UsesSame, UsesOneMore, UsesOneLess DEF Leads, Typed, Lands, Balanced, Points
<1>4. CASE now = "="
  <2>1. Take(<<Expr(1), Do("set")>>, point)
    BY <1>4 DEF Field
  <2>2. PICK z1 : Is(z1, x.h, x.base, x.close, FALSE, FALSE)
    BY <1>3, APoint
  <2>3. PICK z2 : Is(z2, More(x.h), x.base, x.close, TRUE, FALSE)
    BY <1>3, APoint, NextHeights
  <2>4. Leads(Expr(1), z1, z2)
    BY <2>2, <2>3, LeadsExpr DEF Is
  <2>5. Leads(Do("set"), z2, y)
    BY <1>3, <2>3, UsesSame, UsesOneMore, UsesOneLess DEF Do, Leads, Typed, Lands, Balanced, Is,
      Points
  <2>6. Ready(<<Expr(1), Do("set")>> \o Tail(work), z1)
    <3>1. z1 \in Points /\ z2 \in Points
      BY <2>2, <2>3 DEF Is
    <3> QED
      BY <1>2, <2>4, <2>5, <3>1, Put2
  <2>7. Sound(point, z1.h)
    BY <1>2, <1>3, <2>2 DEF Is, Fits
  <2>8. now # "EOF" /\ opened + Closing = z1.close
    <3>1. opened = x.close
      BY <1>2, <1>3, <1>4, AllCounted
    <3>2. now # "EOF" /\ Closing = 0
      BY <1>4 DEF Closing, Openers, Closers
    <3> QED
      BY <1>3, <2>2, <3>1, <3>2 DEF Is
  <2> QED
    BY <1>1, <1>2, <2>1, <2>2, <2>6, <2>7, <2>8, Takes DEF Is
<1>5. CASE now # "="
  <2>1. Stay(<<>>, After(point, <<1, 1>>))
    BY <1>5 DEF Field, Fields
  <2>2. Sound(After(point, <<1, 1>>), y.h)
    BY <1>2, <1>3, UsesSame, AfterSound DEF Fits
  <2> QED
    BY <1>1, <1>2, <1>3, <2>1, <2>2, Pops
<1> QED
  BY <1>4, <1>5

LEMMA LiveSetField ==
  ASSUME CInv, SetField, ~rotten'
  PROVE  Live'
<1>1. ~rotten /\ work # <<>> /\ Top.at = "set"
  <2>1. ~rotten
    BY UnspoiledStay, Spoiled DEF SetField, CInv
  <2> QED
    BY <2>1 DEF SetField, At, Top
<1>2. PICK x \in Points, y \in Points :
        Fits(x) /\ Ready(work, x) /\ Leads(Top, x, y) /\ Ready(Tail(work), y)
  BY <1>1, Facing DEF CInv
<1>3. /\ x.h \in Heights /\ y.h \in Heights /\ x.base \in Heights /\ x.close \in Nat
      /\ y.close \in Nat /\ x.inside \in BOOLEAN /\ x.h = More(y.h) /\ y.h # 0
  BY <1>1, <1>2, UsesSame, UsesOneMore, UsesOneLess DEF Leads, Typed, Lands, Balanced, Points
<1>4. Stay(<<>>, After(point, <<2, 1>>))
  BY Spoiled DEF SetField, Fields
<1>5. Sound(After(point, <<2, 1>>), y.h)
  BY <1>2, <1>3, UsesOneLess, AfterSound DEF Fits
<1> QED
  BY <1>1, <1>2, <1>4, <1>5, Pops

-----------------------------------------------------------------------------
(* Blocks. *)

LEMMA LiveBeginBlock ==
  ASSUME CInv, BeginBlock, ~rotten'
  PROVE  Live'
<1>1. ~rotten /\ work # <<>> /\ Top.at = "brace"
  <2>1. ~rotten
    BY UnspoiledStay DEF BeginBlock, CInv
  <2> QED
    BY <2>1 DEF BeginBlock, At, Top
<1>2. PICK x \in Points, y \in Points :
        Fits(x) /\ Ready(work, x) /\ Leads(Top, x, y) /\ Ready(Tail(work), y)
  BY <1>1, Facing DEF CInv
<1>3. /\ x.h \in Heights /\ y.h \in Heights /\ x.base \in Heights /\ x.close \in Nat
      /\ y.close \in Nat /\ x.inside \in BOOLEAN /\ y.h = More(x.h) /\ x.base = y.base
      /\ x.close = y.close + 1 /\ ~x.inside /\ y.inside /\ ~y.fresh
  BY <1>1, <1>2, UsesSame, UsesOneMore, UsesOneLess DEF Leads, Typed, Lands, Balanced, Points
<1>4. opened = x.close
  BY <1>2, <1>3, AllCounted
<1>5. CASE now = "}"
  <2>1. Stay(<<>>, After(point, <<0, 1>>))
    BY <1>5 DEF BeginBlock, Registers
  <2>2. Sound(After(point, <<0, 1>>), y.h)
    BY <1>2, <1>3, UsesOneMore, AfterSound DEF Fits
  <2>3. Counted(y)
    BY <1>3, <1>4, <1>5 DEF Counted
  <2>4. Ready(<<>> \o Tail(work), y)
    BY <1>2, Put0
  <2> QED
    BY <1>1, <1>2, <1>3, <2>1, <2>2, <2>3, <2>4, Stays
<1>6. CASE now # "}"
  <2>1. PICK a : a = [at |-> "block", base |-> Mark(point)]
    OBVIOUS
  <2>2. a.at = "block" /\ a.base = Mark(point)
    BY <2>1
  <2>3. Stay(<<a>>, point)
    BY <1>6, <2>1 DEF BeginBlock
  <2>4. Level(point) \in Heights /\ Level(Mark(point)) = Level(point)
    BY <1>2 DEF Fits, Sound, Spots, Level, Mark, Heights
  <2>5. PICK z : Is(z, Level(point), Level(point), x.close, FALSE, FALSE)
    BY <1>3, <2>4, APoint
  <2>6. MeetsOneMore(Mark(point), y.h)
    <3>1. x.h = -1 \/ y.h = x.h + 1
      BY <1>3 DEF More
    <3> QED
      BY <1>2, <1>3, <3>1, MarkMeetsOneMore DEF Fits
  <2>7. Leads(a, z, y)
    <3>1. Closes(a) = 1
      BY <2>2
    <3> HIDE DEF Closes, Effect
    <3> QED
      BY <1>3, <2>2, <2>4, <2>5, <2>6, <3>1 DEF Leads, Typed, Lands, Balanced, Is
  <2>8. Ready(<<a>> \o Tail(work), z)
    BY <1>2, <2>5, <2>7, Put DEF Is
  <2>9. Sound(point, z.h) /\ Counted(z)
    BY <1>2, <1>4, <2>5 DEF Is, Fits, Counted, Sound
  <2>10. now = "return" => point.height = 0
    BY <1>1, <1>2 DEF Fits, Answered, At, Top
  <2> QED
    BY <1>1, <1>2, <2>3, <2>5, <2>8, <2>9, <2>10, Stays DEF Is
<1> QED
  BY <1>5, <1>6

LEMMA LiveBlock ==
  ASSUME CInv, Quirks = {}, Block, ~rotten'
  PROVE  Live'
<1>1. ~rotten /\ work # <<>> /\ Top.at = "block"
  <2>1. ~rotten
    BY UnspoiledStay, UnspoiledTake DEF Block, CInv
  <2> QED
    BY <2>1 DEF Block, At, Top
<1>2. PICK x \in Points, y \in Points :
        Fits(x) /\ Ready(work, x) /\ Leads(Top, x, y) /\ Ready(Tail(work), y)
  BY <1>1, Facing DEF CInv
<1>3. /\ x.h \in Heights /\ y.h \in Heights /\ x.base \in Heights /\ x.close \in Nat
      /\ y.close \in Nat /\ x.inside \in BOOLEAN /\ x.base = x.h
      /\ (x.h = -1 \/ y.h = x.h + 1) /\ x.close = y.close + 1 /\ ~x.inside /\ y.inside
      /\ ~y.fresh
  BY <1>1, <1>2, UsesSame, UsesOneMore, UsesOneLess DEF Leads, Typed, Lands, Balanced, Points,
    MeetsOneMore
<1>4. opened = x.close
  BY <1>2, <1>3, AllCounted
<1>5. CASE now # "}"
  <2>1. PICK e : e = Top
    OBVIOUS
  <2>2. Stay(<<Do("statement"), Do("synchronize"), e>>, point)
    BY <1>5, <2>1 DEF Block
  <2>3. PICK z : Is(z, x.h, x.base, x.close, FALSE, FALSE)
    BY <1>3, APoint
  <2>4. Leads(Do("statement"), z, z)
    BY <1>3, <2>3, LeadsStatement DEF Is
  <2>5. Leads(Do("synchronize"), z, z)
    BY <1>3, <2>3, UsesSame DEF Do, Leads, Typed, Lands, Balanced, Is, Points
  <2>6. Leads(e, z, y)
    <3> HIDE DEF Effect, Closes
    <3> QED
      BY <1>1, <1>2, <1>3, <2>1, <2>3 DEF Leads, Balanced, Is
  <2>7. Ready(<<Do("statement"), Do("synchronize"), e>> \o Tail(work), z)
    <3>1. PICK a, b : a = Do("statement") /\ b = Do("synchronize")
      OBVIOUS
    <3>2. Ready(<<a, b, e>> \o Tail(work), z)
      BY <1>2, <2>3, <2>4, <2>5, <2>6, <3>1, Put3 DEF Is
    <3> QED
      BY <3>1, <3>2
  <2>8. Sound(point, z.h) /\ Counted(z) /\ ~z.fresh /\ z.base = x.base
    BY <1>2, <1>4, <2>3 DEF Is, Fits, Counted
  <2> QED
    BY <1>1, <1>2, <2>2, <2>3, <2>7, <2>8, Stays DEF Is
<1>6. CASE now = "}"
  <2>1. Take(<<>>, PutIf(point))
    BY <1>6 DEF Block
  <2>2. Sound(PutIf(point), y.h)
    BY <1>2, <1>3, PutIfSound DEF Fits
  <2>3. opened + Closing = y.close
    <3>1. Closing = -1
      BY <1>6 DEF Closing, Openers, Closers
    <3> QED
      BY <1>3, <1>4, <3>1
  <2>4. Ready(<<>> \o Tail(work), y)
    BY <1>2, Put0
  <2> QED
    BY <1>1, <1>2, <1>6, <2>1, <2>2, <2>3, <2>4, Takes
<1> QED
  BY <1>5, <1>6

-----------------------------------------------------------------------------
(* Function literals, methods and classes. *)

LEMMA LiveBeginFun ==
  ASSUME CInv, BeginFun, ~rotten'
  PROVE  Live'
<1>1. ~rotten /\ work # <<>> /\ Top.at = "fun"
  <2>1. ~rotten
    BY UnspoiledStay DEF BeginFun, CInv
  <2> QED
    BY <2>1 DEF BeginFun, At, Top
<1>2. PICK x \in Points, y \in Points :
        Fits(x) /\ Ready(work, x) /\ Leads(Top, x, y) /\ Ready(Tail(work), y)
  BY <1>1, Facing DEF CInv
<1>3. /\ x.h \in Heights /\ y.h \in Heights /\ x.base \in Heights /\ x.close \in Nat
      /\ y.close \in Nat /\ x.inside \in BOOLEAN /\ y.h = More(x.h) /\ x.base = y.base
      /\ x.close = y.close /\ ~x.inside /\ y.inside /\ ~y.fresh
  BY <1>1, <1>2, UsesSame, UsesOneMore, UsesOneLess DEF Leads, Typed, Lands, Balanced, Points
<1>4. 0 \in Heights /\ 1 \in Heights /\ More(0) = 1
  BY DEF Heights, More
<1>5. Sound(Dead(point), 0)
  BY <1>2, DeadSound DEF Fits, Sound
<1>6. MeetsOneMore(Mark(point), y.h)
  <2>1. x.h = -1 \/ y.h = x.h + 1
    BY <1>3 DEF More
  <2> QED
    BY <1>2, <1>3, <2>1, MarkMeetsOneMore DEF Fits
<1>7. PICK a : a = [at |-> "endFun", jump |-> Mark(point)]
  OBVIOUS
<1>8. a.at = "endFun" /\ a.jump = Mark(point)
  BY <1>7
<1>9. Stay(<<Expect("("), Do("params"), Do("enter"), Expr(1), a>>, Dead(point))
  BY <1>7 DEF BeginFun
<1>10. PICK z1 : Is(z1, 0, x.base, x.close, FALSE, FALSE)
  BY <1>3, <1>4, APoint
<1>11. PICK z2 : Is(z2, 0, x.base, x.close + 1, FALSE, FALSE)
  BY <1>3, <1>4, APointInside
<1>12. PICK z3 : Is(z3, 1, x.base, x.close, TRUE, FALSE)
  BY <1>3, <1>4, APoint
<1>13. Leads(Expect("("), z1, z2)
  BY <1>10, <1>11, LeadsOpener DEF Is, Openers
<1>14. Leads(Do("params"), z2, z1)
  BY <1>10, <1>11, <1>4, UsesSame DEF Do, Leads, Typed, Lands, Balanced, Is
<1>15. Leads(Do("enter"), z1, z1)
  BY <1>10, <1>3 DEF Do, Leads, Typed, Lands, Balanced, Is
<1>16. Leads(Expr(1), z1, z3)
  BY <1>10, <1>12, <1>4, LeadsExpr DEF Is
<1>17. Leads(a, z3, y)
  <2>1. Closes(a) = 0 /\ x.close + 0 = x.close
    BY <1>3, <1>8
  <2> HIDE DEF Effect, Closes
  <2> QED
    BY <1>3, <1>6, <1>8, <1>12, <2>1 DEF Leads, Typed, Lands, Balanced, Is
<1>18. Ready(<<Expect("("), Do("params"), Do("enter"), Expr(1), a>> \o Tail(work), z1)
  <2>1. PICK b, c, d, e : b = Expect("(") /\ c = Do("params") /\ d = Do("enter") /\ e = Expr(1)
    OBVIOUS
  <2>2. z1 \in Points /\ z2 \in Points /\ z3 \in Points
    BY <1>10, <1>11, <1>12 DEF Is
  <2>3. Leads(b, z1, z2) /\ Leads(c, z2, z1) /\ Leads(d, z1, z1) /\ Leads(e, z1, z3)
    BY <1>13, <1>14, <1>15, <1>16, <2>1
  <2>4. Ready(<<b, c, d, e, a>> \o Tail(work), z1)
    BY <1>2, <1>17, <2>2, <2>3, Put5
  <2> QED
    BY <2>1, <2>4
<1>19. Sound(Dead(point), z1.h) /\ Counted(z1) /\ ~z1.fresh /\ z1.base = x.base
  BY <1>2, <1>3, <1>5, <1>10 DEF Is, Fits, Counted
<1> QED
  BY <1>1, <1>2, <1>9, <1>10, <1>18, <1>19, Stays DEF Is

LEMMA LiveBeginMethod ==
  ASSUME CInv, BeginMethod, ~rotten'
  PROVE  Live'
<1>1. ~rotten /\ work # <<>> /\ Top.at = "method"
  <2>1. ~rotten
    BY UnspoiledStay DEF BeginMethod, CInv
  <2> QED
    BY <2>1 DEF BeginMethod, At, Top
<1>2. PICK x \in Points, y \in Points :
        Fits(x) /\ Ready(work, x) /\ Leads(Top, x, y) /\ Ready(Tail(work), y)
  BY <1>1, Facing DEF CInv
<1>3. /\ x.h \in Heights /\ y.h \in Heights /\ x.base \in Heights /\ x.close \in Nat
      /\ y.close \in Nat /\ x.inside \in BOOLEAN /\ y.h = More(x.h) /\ x.base = y.base
      /\ x.close = y.close /\ ~x.inside /\ y.inside /\ ~y.fresh
  BY <1>1, <1>2, UsesSame, UsesOneMore, UsesOneLess DEF Leads, Typed, Lands, Balanced, Points
<1>4. 0 \in Heights /\ 1 \in Heights /\ More(0) = 1
  BY DEF Heights, More
<1>5. Sound(Dead(point), 0)
  BY <1>2, DeadSound DEF Fits, Sound
<1>6. MeetsOneMore(Mark(point), y.h)
  <2>1. x.h = -1 \/ y.h = x.h + 1
    BY <1>3 DEF More
  <2> QED
    BY <1>2, <1>3, <2>1, MarkMeetsOneMore DEF Fits
<1>7. PICK a : a = [at |-> "endMethod", jump |-> Mark(point)]
  OBVIOUS
<1>8. a.at = "endMethod" /\ a.jump = Mark(point)
  BY <1>7
<1>9. Stay(<<Expect("("), Do("params"), Do("enter"), Expr(1), a>>, Dead(point))
  BY <1>7 DEF BeginMethod
<1>10. PICK z1 : Is(z1, 0, x.base, x.close, FALSE, FALSE)
  BY <1>3, <1>4, APoint
<1>11. PICK z2 : Is(z2, 0, x.base, x.close + 1, FALSE, FALSE)
  BY <1>3, <1>4, APointInside
<1>12. PICK z3 : Is(z3, 1, x.base, x.close, TRUE, FALSE)
  BY <1>3, <1>4, APoint
<1>13. Leads(Expect("("), z1, z2)
  BY <1>10, <1>11, LeadsOpener DEF Is, Openers
<1>14. Leads(Do("params"), z2, z1)
  BY <1>10, <1>11, <1>4, UsesSame DEF Do, Leads, Typed, Lands, Balanced, Is
<1>15. Leads(Do("enter"), z1, z1)
  BY <1>10, <1>3 DEF Do, Leads, Typed, Lands, Balanced, Is
<1>16. Leads(Expr(1), z1, z3)
  BY <1>10, <1>12, <1>4, LeadsExpr DEF Is
<1>17. Leads(a, z3, y)
  <2>1. Closes(a) = 0 /\ x.close + 0 = x.close
    BY <1>3, <1>8
  <2> HIDE DEF Effect, Closes
  <2> QED
    BY <1>3, <1>6, <1>8, <1>12, <2>1 DEF Leads, Typed, Lands, Balanced, Is
<1>18. Ready(<<Expect("("), Do("params"), Do("enter"), Expr(1), a>> \o Tail(work), z1)
  <2>1. PICK b, c, d, e : b = Expect("(") /\ c = Do("params") /\ d = Do("enter") /\ e = Expr(1)
    OBVIOUS
  <2>2. z1 \in Points /\ z2 \in Points /\ z3 \in Points
    BY <1>10, <1>11, <1>12 DEF Is
  <2>3. Leads(b, z1, z2) /\ Leads(c, z2, z1) /\ Leads(d, z1, z1) /\ Leads(e, z1, z3)
    BY <1>13, <1>14, <1>15, <1>16, <2>1
  <2>4. Ready(<<b, c, d, e, a>> \o Tail(work), z1)
    BY <1>2, <1>17, <2>2, <2>3, Put5
  <2> QED
    BY <2>1, <2>4
<1>19. Sound(Dead(point), z1.h) /\ Counted(z1) /\ ~z1.fresh /\ z1.base = x.base
  BY <1>2, <1>3, <1>5, <1>10 DEF Is, Fits, Counted
<1> QED
  BY <1>1, <1>2, <1>9, <1>10, <1>18, <1>19, Stays DEF Is

LEMMA LiveParameters ==
  ASSUME CInv, Quirks = {}, Parameters, ~rotten'
  PROVE  Live'
<1>1. ~rotten /\ work # <<>> /\ Top.at = "params"
  <2>1. ~rotten
    BY UnspoiledStay, UnspoiledTake DEF Parameters, CInv
  <2> QED
    BY <2>1 DEF Parameters, At, Top
<1>2. PICK x \in Points, y \in Points :
        Fits(x) /\ Ready(work, x) /\ Leads(Top, x, y) /\ Ready(Tail(work), y)
  BY <1>1, Facing DEF CInv
<1>3. /\ x.h \in Heights /\ y.h \in Heights /\ x.base \in Heights /\ x.close \in Nat
      /\ y.close \in Nat /\ x.inside \in BOOLEAN /\ x.h = y.h /\ x.base = y.base
      /\ x.close = y.close + 1 /\ ~x.inside /\ ~y.fresh
  BY <1>1, <1>2, UsesSame, UsesOneMore, UsesOneLess DEF Leads, Typed, Lands, Balanced, Points
<1>4. CASE now = ")"
  <2>1. Take(<<>>, point)
    BY <1>4 DEF Parameters
  <2>2. Sound(point, y.h)
    BY <1>2, <1>3 DEF Fits
  <2>3. opened + Closing = y.close
    <3>1. opened = x.close
      BY <1>2, <1>3, AllCounted
    <3>2. Closing = -1
      BY <1>4 DEF Closing, Openers, Closers
    <3> QED
      BY <1>3, <3>1, <3>2
  <2>4. Ready(<<>> \o Tail(work), y)
    BY <1>2, Put0
  <2> QED
    BY <1>1, <1>4, <2>1, <2>2, <2>3, <2>4, Takes
<1>5. CASE now # ")"
  <2>1. Stay(<<Expect("ident"), Do("param")>>, point)
    BY <1>5 DEF Parameters
  <2>2. PICK z1 : Is(z1, x.h, x.base, x.close, FALSE, FALSE)
    BY <1>3, APoint
  <2>3. PICK z2 : Is(z2, x.h, x.base, x.close, FALSE, FALSE)
    BY <1>3, APoint
  <2>4. Leads(Expect("ident"), z1, z2)
    BY <2>2, <2>3, LeadsToken DEF Is, Openers, Closers
  <2>5. Leads(Do("param"), z2, y)
    BY <1>3, <2>3, UsesSame, UsesOneMore, UsesOneLess DEF Do, Leads, Typed, Lands, Balanced, Is,
      Points
  <2>6. Ready(<<Expect("ident"), Do("param")>> \o Tail(work), z1)
    <3>1. z1 \in Points /\ z2 \in Points
      BY <2>2, <2>3 DEF Is
    <3> QED
      BY <1>2, <2>4, <2>5, <3>1, Put2
  <2>7. Sound(point, z1.h)
    BY <1>2, <1>3, <2>2 DEF Is, Fits
  <2>8. Counted(z1) /\ ~z1.fresh /\ z1.base = x.base
    BY <1>2, <1>3, <2>2 DEF Is, Fits, Counted
  <2> QED
    BY <1>1, <1>2, <2>1, <2>2, <2>6, <2>7, <2>8, Stays DEF Is
<1> QED
  BY <1>4, <1>5

LEMMA LiveParameter ==
  ASSUME CInv, Quirks = {}, Parameter, ~rotten'
  PROVE  Live'
<1>1. ~rotten /\ work # <<>> /\ Top.at = "param"
  <2>1. ~rotten
    BY UnspoiledStay, UnspoiledTake DEF Parameter, CInv
  <2> QED
    BY <2>1 DEF Parameter, At, Top
<1>2. PICK x \in Points, y \in Points :
        Fits(x) /\ Ready(work, x) /\ Leads(Top, x, y) /\ Ready(Tail(work), y)
  BY <1>1, Facing DEF CInv
<1>3. /\ x.h \in Heights /\ y.h \in Heights /\ x.base \in Heights /\ x.close \in Nat
      /\ y.close \in Nat /\ x.inside \in BOOLEAN /\ x.h = y.h /\ x.base = y.base
      /\ x.close = y.close + 1 /\ ~x.inside /\ ~y.fresh
  BY <1>1, <1>2, UsesSame, UsesOneMore, UsesOneLess DEF Leads, Typed, Lands, Balanced, Points
<1>4. CASE now = ","
  <2>1. Take(<<Do("params")>>, point)
    BY <1>4 DEF Parameter
  <2>2. PICK z1 : Is(z1, x.h, x.base, x.close, FALSE, FALSE)
    BY <1>3, APoint
  <2>3. Leads(Do("params"), z1, y)
    BY <1>3, <2>2, UsesSame, UsesOneMore, UsesOneLess DEF Do, Leads, Typed, Lands, Balanced, Is,
      Points
  <2>4. Ready(<<Do("params")>> \o Tail(work), z1)
    <3>1. z1 \in Points
      BY <2>2 DEF Is
    <3> QED
      BY <1>2, <2>3, <3>1, Put
  <2>5. Sound(point, z1.h)
    BY <1>2, <1>3, <2>2 DEF Is, Fits
  <2>6. now # "EOF" /\ opened + Closing = z1.close
    <3>1. opened = x.close
      BY <1>2, <1>3, <1>4, AllCounted
    <3>2. now # "EOF" /\ Closing = 0
      BY <1>4 DEF Closing, Openers, Closers
    <3> QED
      BY <1>3, <2>2, <3>1, <3>2 DEF Is
  <2> QED
    BY <1>1, <1>2, <2>1, <2>2, <2>4, <2>5, <2>6, Takes DEF Is
<1>5. CASE now # ","
  <2>1. Stay(<<Expect(")")>>, point)
    BY <1>5 DEF Parameter
  <2>2. PICK z1 : Is(z1, x.h, x.base, x.close, FALSE, FALSE)
    BY <1>3, APoint
  <2>3. Leads(Expect(")"), z1, y)
    BY <2>2, <1>3, LeadsCloser DEF Is, Closers
  <2>4. Ready(<<Expect(")")>> \o Tail(work), z1)
    <3>1. z1 \in Points
      BY <2>2 DEF Is
    <3> QED
      BY <1>2, <2>3, <3>1, Put
  <2>5. Sound(point, z1.h)
    BY <1>2, <1>3, <2>2 DEF Is, Fits
  <2>6. Counted(z1) /\ ~z1.fresh /\ z1.base = x.base
    BY <1>2, <1>3, <2>2 DEF Is, Fits, Counted
  <2> QED
    BY <1>1, <1>2, <2>1, <2>2, <2>4, <2>5, <2>6, Stays DEF Is
<1> QED
  BY <1>4, <1>5

LEMMA LiveEnter ==
  ASSUME CInv, Enter, ~rotten'
  PROVE  Live'
<1>1. ~rotten /\ work # <<>> /\ Top.at = "enter"
  <2>1. ~rotten
    BY UnspoiledStay DEF Enter, CInv
  <2> QED
    BY <2>1 DEF Enter, At, Top
<1>2. PICK x \in Points, y \in Points :
        Fits(x) /\ Ready(work, x) /\ Leads(Top, x, y) /\ Ready(Tail(work), y)
  BY <1>1, Facing DEF CInv
<1>3. /\ x.h \in Heights /\ y.h \in Heights /\ x.base \in Heights /\ x.close \in Nat
      /\ y.close \in Nat /\ x.inside \in BOOLEAN /\ y.h = 0 /\ ~x.inside
  BY <1>1, <1>2, UsesSame, UsesOneMore, UsesOneLess DEF Leads, Typed, Lands, Balanced, Points
<1>4. PICK p : p = [point EXCEPT !.height = 0, !.dead = FALSE]
  OBVIOUS
<1>5. Stay(<<>>, p)
  BY <1>4 DEF Enter
<1>6. Sound(p, y.h)
  BY <1>2, <1>3, <1>4 DEF Fits, Sound, Spots, Level
<1> QED
  BY <1>1, <1>2, <1>3, <1>5, <1>6, Pops

\* A function that leaves its result, and the literal that stands for it.
LEMMA DeclaredSound ==
  ASSUME NEW p, NEW m, NEW h \in Heights, Sound(p, 1), MeetsOneMore(m, h)
  PROVE  Sound(After(Join(Returned(p), m), DeclareFunction), h)
<1>1. PICK g \in Heights : g = Level(m)
  BY DEF MeetsOneMore, Marks, Level, Heights
<1>2. Sound(Returned(p), g)
  BY ReturnedSound
<1>3. Meets(m, g)
  BY <1>1 DEF Meets, MeetsOneMore
<1>4. Sound(Join(Returned(p), m), g)
  BY <1>2, <1>3, JoinSound
<1>5. Sound(After(Join(Returned(p), m), DeclareFunction), More(g))
  BY <1>4, NextHeights, UsesOneMore, AfterSound DEF DeclareFunction
<1>6. g = -1 \/ More(g) = h
  BY <1>1 DEF MeetsOneMore, More
<1> QED
  BY <1>5, <1>6 DEF Sound, More

LEMMA LiveEndFun ==
  ASSUME CInv, EndFun, ~rotten'
  PROVE  Live'
<1>1. ~rotten /\ work # <<>> /\ Top.at = "endFun"
  <2>1. ~rotten
    BY UnspoiledStay DEF EndFun, CInv
  <2> QED
    BY <2>1 DEF EndFun, At, Top
<1>2. PICK x \in Points, y \in Points :
        Fits(x) /\ Ready(work, x) /\ Leads(Top, x, y) /\ Ready(Tail(work), y)
  BY <1>1, Facing DEF CInv
<1>3. /\ x.h \in Heights /\ y.h \in Heights /\ x.base \in Heights /\ x.close \in Nat
      /\ y.close \in Nat /\ x.inside \in BOOLEAN /\ x.h = 1 /\ MeetsOneMore(Top.jump, y.h)
  BY <1>1, <1>2, UsesSame, UsesOneMore, UsesOneLess DEF Leads, Typed, Lands, Balanced, Points
<1>4. Stay(<<>>, After(Join(Returned(point), Top.jump), DeclareFunction))
  BY DEF EndFun
<1>5. Sound(After(Join(Returned(point), Top.jump), DeclareFunction), y.h)
  BY <1>2, <1>3, DeclaredSound DEF Fits
<1> QED
  BY <1>1, <1>2, <1>4, <1>5, Pops

LEMMA LiveEndMethod ==
  ASSUME CInv, EndMethod, ~rotten'
  PROVE  Live'
<1>1. ~rotten /\ work # <<>> /\ Top.at = "endMethod"
  <2>1. ~rotten
    BY UnspoiledStay DEF EndMethod, CInv
  <2> QED
    BY <2>1 DEF EndMethod, At, Top
<1>2. PICK x \in Points, y \in Points :
        Fits(x) /\ Ready(work, x) /\ Leads(Top, x, y) /\ Ready(Tail(work), y)
  BY <1>1, Facing DEF CInv
<1>3. /\ x.h \in Heights /\ y.h \in Heights /\ x.base \in Heights /\ x.close \in Nat
      /\ y.close \in Nat /\ x.inside \in BOOLEAN /\ x.h = 1 /\ MeetsOneMore(Top.jump, y.h)
  BY <1>1, <1>2, UsesSame, UsesOneMore, UsesOneLess DEF Leads, Typed, Lands, Balanced, Points
<1>4. PICK p \in {point, After(After(point, <<1, 0>>), <<0, 1>>)} :
        Stay(<<>>, After(Join(Returned(p), Top.jump), DeclareFunction))
  BY DEF EndMethod, Globals, Registers
<1>5. Sound(p, 1)
  <2>1. 0 \in Heights /\ 1 \in Heights /\ More(0) = 1
    BY DEF Heights, More
  <2>2. Sound(point, 1)
    BY <1>2, <1>3 DEF Fits
  <2>3. Sound(After(point, <<1, 0>>), 0)
    BY <2>1, <2>2, UsesOneLess, AfterSound
  <2>4. Sound(After(After(point, <<1, 0>>), <<0, 1>>), 1)
    BY <2>1, <2>3, UsesOneMore, AfterSound
  <2> QED
    BY <2>2, <2>4
<1>6. Sound(After(Join(Returned(p), Top.jump), DeclareFunction), y.h)
  BY <1>3, <1>5, DeclaredSound
<1> QED
  BY <1>1, <1>2, <1>4, <1>6, Pops

LEMMA LiveMember ==
  ASSUME CInv, Quirks = {}, Member, ~rotten'
  PROVE  Live'
<1>1. ~rotten /\ work # <<>> /\ Top.at = "member"
  <2>1. ~rotten
    BY UnspoiledTake, Spoiled DEF Member, CInv
  <2> QED
    BY <2>1 DEF Member, At, Top
<1>2. PICK x \in Points, y \in Points :
        Fits(x) /\ Ready(work, x) /\ Leads(Top, x, y) /\ Ready(Tail(work), y)
  BY <1>1, Facing DEF CInv
<1>3. /\ x.h \in Heights /\ y.h \in Heights /\ x.base \in Heights /\ x.close \in Nat
      /\ y.close \in Nat /\ x.inside \in BOOLEAN /\ x.base = y.base
      /\ x.close = y.close + 1 /\ ~x.inside /\ y.inside /\ ~y.fresh /\ Top.count \in Nat
      /\ Top.named = Top.count /\ Uses(x.h, y.h, <<Top.count, 1>>)
  BY <1>1, <1>2, UsesSame, UsesOneMore, UsesOneLess DEF Leads, Typed, Lands, Balanced, Points,
    DeclareClass
<1>4. now = "fun"
  BY <1>1, <1>2, Spoiled DEF Member, Fits, Answered, At, Top
<1>5. PICK n \in Nat : n = Top.count + 1
  BY <1>3
<1>6. PICK a : a = [at |-> "members", count |-> n, named |-> n]
  OBVIOUS
<1>7. a.at = "members" /\ a.count = n /\ a.named = n
  BY <1>6
<1>8. Take(<<Expect("ident"), Do("method"), Expect(";"), a>>, point)
  <2>1. [[at |-> "members", count |-> Count(Top.count), named |-> Top.named]
           EXCEPT !.named = Count(@)] = a
    BY <1>1, <1>3, <1>5, <1>6 DEF Count
  <2> QED
    BY <1>4, <2>1 DEF Member
<1>9. PICK z1 : Is(z1, x.h, x.base, x.close, FALSE, FALSE)
  BY <1>3, APoint
<1>10. PICK z2 : Is(z2, More(x.h), x.base, x.close, TRUE, FALSE)
  BY <1>3, APoint, NextHeights
<1>11. PICK z3 : Is(z3, More(x.h), x.base, x.close, FALSE, TRUE)
  BY <1>3, APoint, NextHeights
<1>12. Leads(Expect("ident"), z1, z1)
  BY <1>9, LeadsToken DEF Is, Openers, Closers
<1>13. Leads(Do("method"), z1, z2)
  BY <1>3, <1>9, <1>10, UsesOneMore DEF Do, Leads, Typed, Lands, Balanced, Is, Points
<1>14. Leads(Expect(";"), z2, z3)
  BY <1>10, <1>11, LeadsToken DEF Is, Openers, Closers
<1>15. Leads(a, z3, y)
  <2>1. Effect(a) = <<n, 1>> /\ Closes(a) = 1
    BY <1>7 DEF DeclareClass
  <2>2. Uses(z3.h, y.h, <<n, 1>>)
    BY <1>3, <1>5, <1>11, UsesArgument DEF Is
  <2> HIDE DEF Effect, Closes
  <2> QED
    BY <1>3, <1>7, <1>11, <2>1, <2>2 DEF Leads, Typed, Lands, Balanced, Is
<1>16. Ready(<<Expect("ident"), Do("method"), Expect(";"), a>> \o Tail(work), z1)
  <2>1. PICK b, c, d : b = Expect("ident") /\ c = Do("method") /\ d = Expect(";")
    OBVIOUS
  <2>2. z1 \in Points /\ z2 \in Points /\ z3 \in Points
    BY <1>9, <1>10, <1>11 DEF Is
  <2>3. Leads(b, z1, z1) /\ Leads(c, z1, z2) /\ Leads(d, z2, z3)
    BY <1>12, <1>13, <1>14, <2>1
  <2>4. Ready(<<b, c, d, a>> \o Tail(work), z1)
    BY <1>2, <1>15, <2>2, <2>3, Put4
  <2> QED
    BY <2>1, <2>4
<1>17. Sound(point, z1.h)
  BY <1>2, <1>9 DEF Is, Fits
<1>18. opened + Closing = z1.close
  <2>1. opened = x.close
    BY <1>2, <1>3, AllCounted
  <2>2. Closing = 0
    BY <1>4 DEF Closing, Openers, Closers
  <2> QED
    BY <1>3, <1>9, <2>1, <2>2 DEF Is
<1> QED
  BY <1>1, <1>4, <1>8, <1>9, <1>16, <1>17, <1>18, Takes DEF Is

\* The item put in the place of the first one comes first.
LEMMA FirstOf ==
  ASSUME Base, work # <<>>, NEW a, work' = <<a>> \o Tail(work)
  PROVE  work' # <<>> /\ Head(work') = a
<1>1. PICK S : work \in Seq(S)
  BY DEF Base
<1>2. PICK T : T = S \cup {a}
  OBVIOUS
<1>3. Tail(work) \in Seq(T) /\ <<a>> \in Seq(T) /\ Len(<<a>>) = 1 /\ <<a>>[1] = a
  <2>1. Tail(work) \in Seq(S)
    BY <1>1
  <2>2. Tail(work) \in Seq(T)
    BY <1>2, <2>1, SeqMonotonic
  <2> QED
    BY <1>2, <2>2
<1>4. PICK v : v = <<a>> \o Tail(work)
  OBVIOUS
<1>5. PICK t, s : t = Tail(work) /\ s = <<a>>
  OBVIOUS
<1>6. PICK n \in Nat : n = Len(t)
  BY <1>3, <1>5, LenProperties
<1>7. v \in Seq(T) /\ Len(v) = 1 + n /\ \A i \in 1 .. 1 + n : v[i] = IF i <= 1 THEN s[i] ELSE t[i - 1]
  BY <1>3, <1>4, <1>5, <1>6, ConcatProperties
<1>8. v # <<>> /\ v[1] = a
  BY <1>3, <1>5, <1>7
<1> QED
  BY <1>4, <1>8

LEMMA LiveEndMember ==
  ASSUME CInv, Quirks = {}, EndMember, ~rotten'
  PROVE  Live'
<1>1. ~rotten /\ work # <<>> /\ Top.at = "members"
  <2>1. ~rotten
    BY UnspoiledStay, UnspoiledTake DEF EndMember, CInv
  <2> QED
    BY <2>1 DEF EndMember, At, Top
<1>2. PICK x \in Points, y \in Points :
        Fits(x) /\ Ready(work, x) /\ Leads(Top, x, y) /\ Ready(Tail(work), y)
  BY <1>1, Facing DEF CInv
<1>3. /\ x.h \in Heights /\ y.h \in Heights /\ x.base \in Heights /\ x.close \in Nat
      /\ y.close \in Nat /\ x.inside \in BOOLEAN /\ x.base = y.base
      /\ x.close = y.close + 1 /\ ~x.inside /\ y.inside /\ ~y.fresh /\ Top.count \in Nat
      /\ Top.named = Top.count /\ Uses(x.h, y.h, <<Top.count, 1>>)
  BY <1>1, <1>2, UsesSame, UsesOneMore, UsesOneLess DEF Leads, Typed, Lands, Balanced, Points,
    DeclareClass
<1>4. opened = x.close
  BY <1>2, <1>3, AllCounted
<1>5. CASE now = "}"
  <2>1. PICK p : p = After(point, <<Top.count, 1>>)
    OBVIOUS
  <2>2. Take(<<>>, p)
    BY <1>3, <1>5, <2>1 DEF EndMember, DeclareClass, Fault
  <2>3. Sound(p, y.h)
    BY <1>2, <1>3, <2>1, AfterSound DEF Fits
  <2>4. opened + Closing = y.close
    <3>1. Closing = -1
      BY <1>5 DEF Closing, Openers, Closers
    <3> QED
      BY <1>3, <1>4, <3>1
  <2>5. Ready(<<>> \o Tail(work), y)
    BY <1>2, Put0
  <2> QED
    BY <1>1, <1>5, <2>2, <2>3, <2>4, <2>5, Takes
<1>6. CASE now # "}"
  <2>1. PICK a : a = [at |-> "member", count |-> Top.count, named |-> Top.named]
    OBVIOUS
  <2>2. a.at = "member" /\ a.count = Top.count /\ a.named = Top.count
    BY <1>3, <2>1
  <2>3. Stay(<<a>>, point)
    BY <1>6, <2>1 DEF EndMember
  <2>4. PICK z : Is(z, x.h, x.base, x.close, FALSE, TRUE)
    BY <1>3, APoint
  <2>5. Leads(a, z, y)
    <3>1. Effect(a) = <<Top.count, 1>> /\ Closes(a) = 1
      BY <2>2 DEF DeclareClass
    <3> HIDE DEF Effect, Closes
    <3> QED
      BY <1>3, <2>2, <2>4, <3>1 DEF Leads, Typed, Lands, Balanced, Is
  <2>6. Ready(<<a>> \o Tail(work), z)
    BY <1>2, <2>4, <2>5, Put DEF Is
  <2>7. Sound(point, z.h) /\ Counted(z) /\ z.base = x.base
    BY <1>2, <1>3, <1>4, <2>4 DEF Is, Fits, Counted
  <2>8. At("member")'
    <3>1. work' = <<a>> \o Tail(work)
      BY <2>3 DEF Stay, Become
    <3>2. work' # <<>> /\ Head(work') = a
      BY <1>1, <3>1, FirstOf DEF CInv
    <3> QED
      BY <2>2, <3>2 DEF At
  <2>9. now # "var"
    BY <1>1, <1>2 DEF Fits, Answered, At, Top
  <2> QED
    BY <1>1, <1>2, <2>3, <2>4, <2>6, <2>7, <2>8, <2>9, Stays DEF Is
<1> QED
  BY <1>5, <1>6

LEMMA LiveFieldValue ==
  ASSUME CInv, FieldValue, ~rotten'
  PROVE  Live'
<1>1. ~rotten /\ work # <<>> /\ Top.at = "value"
  <2>1. ~rotten
    BY UnspoiledTake, UnspoiledStay DEF FieldValue, CInv
  <2> QED
    BY <2>1 DEF FieldValue, At, Top
<1> QED
  BY <1>1, Facing DEF CInv, Leads, Typed

-----------------------------------------------------------------------------
(* The invariant. *)

LEMMA InitCInv == Init => CInv
<1> SUFFICES ASSUME Init PROVE CInv
  OBVIOUS
<1>1. PICK a : a = Do("program")
  OBVIOUS
<1>2. a.at = "program" /\ work = <<a>> /\ <<a>> \in Seq({a}) /\ Len(<<a>>) = 1 /\ <<a>>[1] = a
  BY <1>1 DEF Init, Do
<1>3. Base
  <2>1. \E S : work \in Seq(S)
    BY <1>2
  <2>2. \A i \in 1 .. Len(work) : Saved(work[i])
    BY <1>2 DEF Saved
  <2> QED
    BY <2>1, <2>2, CompilerAssumption DEF Init, Base
<1>4. PICK x \in Points : x = Final
  BY FinalPoint
<1>5. Leads(a, x, x)
  <2>1. x.h = 0 /\ x.base = 0 /\ x.close = 0 /\ ~x.inside /\ ~x.fresh
    BY <1>4 DEF Final
  <2>2. Effect(a) = <<0, 0>> /\ Closes(a) = 0 /\ Uses(0, 0, <<0, 0>>)
    BY <1>2, UsesSame DEF Heights
  <2> HIDE DEF Effect, Closes
  <2> QED
    BY <1>2, <2>1, <2>2 DEF Leads, Typed, Lands, Balanced
<1>6. Ready(work, x)
  <2>1. Ready(<<>>, x)
    <3>1. PICK S : S = {a}
      OBVIOUS
    <3>2. PICK w : w = <<>>
      OBVIOUS
    <3>3. w \in Seq(S) /\ Len(w) = 0
      BY <3>2
    <3>4. PICK f : f = [k \in 1 .. 1 |-> x]
      OBVIOUS
    <3>5. f \in [1 .. Len(w) + 1 -> Points] /\ f[1] = x /\ f[Len(w) + 1] = Final
      BY <1>4, <3>3, <3>4
    <3>6. \A k \in 1 .. Len(w) : Leads(w[k], f[k], f[k + 1])
      BY <3>3
    <3>7. Ready(w, x)
      BY <3>3, <3>5, <3>6 DEF Ready
    <3> QED
      BY <3>2, <3>7
  <2>2. Ready(<<a>> \o <<>>, x)
    BY <1>5, <2>1, Put
  <2>3. <<a>> \o <<>> = <<a>>
    BY <1>2, ConcatEmptySeq
  <2> QED
    BY <1>2, <2>2, <2>3
<1>7. Sound(point, 0)
  BY DEF Init, Start, Sound, Spots, Level
<1>8. Head(work).at = "program"
  BY <1>2
<1>9. Fits(x)
  BY <1>4, <1>7, <1>8 DEF Init, Fits, Final, Counted, Answered, At
<1> QED
  BY <1>3, <1>6, <1>9 DEF CInv, Live

LEMMA BaseStep == Base /\ [Next]_vars => Base'
<1> SUFFICES ASSUME Base, [Next]_vars PROVE Base'
  OBVIOUS
<1>1. CASE UNCHANGED vars
  <2>1. /\ now' = now /\ work' = work /\ point' = point /\ permit' = permit
        /\ panic' = panic /\ rotten' = rotten /\ opened' = opened
    BY <1>1 DEF vars
  <2> QED
    BY <2>1 DEF Base, Saved
<1>2. CASE Finished
  <2>1. /\ now' = now /\ work' = work /\ point' = point /\ permit' = permit
        /\ panic' = panic /\ rotten' = rotten /\ opened' = opened
    BY <1>2 DEF Finished, vars
  <2> QED
    BY <2>1 DEF Base, Saved
<1> QED
  BY <1>1, <1>2, BaseStraight, BaseLoops, BaseExpressions, BaseLiterals DEF Next

\* A step of a source that is accepted so far.
LEMMA LiveStep ==
  ASSUME Quirks = {}, CInv, [Next]_vars
  PROVE  Live'
<1>1. CASE rotten'
  BY <1>1 DEF Live
<1> SUFFICES ASSUME ~rotten' PROVE Live'
  BY <1>1
<1>2. ASSUME UNCHANGED vars
      PROVE  Live'
  <2>1. /\ now' = now /\ work' = work /\ point' = point
        /\ rotten' = rotten /\ opened' = opened
    BY <1>2 DEF vars
  <2>2. PICK x \in Points : Ready(work, x) /\ Fits(x)
    BY <2>1 DEF CInv, Live
  <2>3. Fits(x)'
    BY <2>1, <2>2 DEF Fits, Counted, Answered, At, InScope
  <2>4. Ready(work', x)
    BY <2>1, <2>2
  <2> QED
    BY <2>3, <2>4 DEF Live
<1>3. CASE UNCHANGED vars \/ Finished
  BY <1>2, <1>3 DEF Finished
<1>4. CASE \/ ExpectToken \/ EmitCode \/ ConfirmJump \/ Program \/ Synchronize
           \/ ConstStatement \/ VarStatement \/ VarValue
           \/ ReturnStatement \/ ReturnCode \/ ExpressionStatement
  BY <1>4, LiveExpectToken, LiveEmitCode, LiveConfirmJump, LiveProgram, LiveSynchronize,
    LiveConstStatement, LiveVarStatement, LiveVarValue, LiveReturnStatement, LiveReturnCode,
    LiveExpressionStatement
<1>5. CASE \/ WhileStatement \/ WhileBody \/ ForStatement \/ ForInit \/ ForVar \/ ForCondition
           \/ ForExit \/ ForIncrement \/ ForBack \/ Loop
  BY <1>5, LiveWhileStatement, LiveWhileBody, LiveForStatement, LiveForInit, LiveForVar,
    LiveForCondition, LiveForExit, LiveForIncrement, LiveForBack, LiveLoop
<1>6. CASE \/ Expression \/ Operator \/ EndExpression \/ Identifier \/ Then \/ Else
           \/ Arguments \/ Argument \/ Index \/ Field \/ SetField
  BY <1>6, LiveExpression, LiveOperator, LiveEndExpression, LiveIdentifier, LiveThen, LiveElse,
    LiveArguments, LiveArgument, LiveIndex, LiveField, LiveSetField
<1>7. CASE \/ BeginBlock \/ Block \/ BeginFun \/ Parameters \/ Parameter \/ Enter
           \/ EndFun \/ Member \/ BeginMethod \/ EndMethod \/ FieldValue \/ EndMember
  BY <1>7, LiveBeginBlock, LiveBlock, LiveBeginFun, LiveParameters, LiveParameter, LiveEnter,
    LiveEndFun, LiveMember, LiveBeginMethod, LiveEndMethod, LiveFieldValue, LiveEndMember
<1> QED
  BY <1>3, <1>4, <1>5, <1>6, <1>7 DEF Next

LEMMA CInvAlways ==
  ASSUME Quirks = {}
  PROVE  Spec => []CInv
<1>1. CInv /\ [Next]_vars => CInv'
  BY BaseStep, LiveStep DEF CInv
<1> QED
  BY <1>1, InitCInv, PTL DEF Spec

-----------------------------------------------------------------------------
(* What it means for the code. *)

LEMMA CInvTypes == CInv => TypeOK
<1> SUFFICES ASSUME CInv PROVE TypeOK
  OBVIOUS
<1>1. point.height \in Int /\ point.dead \in BOOLEAN
  <2>1. CASE rotten
    <3>1. point = Start
      BY <2>1 DEF CInv, Base
    <3> QED
      BY <3>1 DEF Start
  <2>2. CASE ~rotten
    BY <2>2 DEF CInv, Live, Fits, Sound, Spots
  <2> QED
    BY <2>1, <2>2
<1>2. opened \in IF work = <<>> /\ ~rotten THEN {0} ELSE Nat
  <2>1. CASE rotten
    BY <2>1 DEF CInv, Base
  <2>2. CASE ~rotten
    <3>1. PICK x \in Points : Ready(work, x) /\ Counted(x)
      BY <2>2 DEF CInv, Live, Fits
    <3>2. opened \in Nat
      <4>1. PICK n \in Nat : n = x.close
        BY DEF Points
      <4>2. opened = n \/ opened = n + 1
        BY <3>1, <4>1 DEF Counted
      <4> QED
        BY <4>2
    <3>3. ASSUME work = <<>>
          PROVE  opened = 0
      <4>1. x = Final
        BY <3>1, <3>3, ReadyNil
      <4>2. x.close = 0 /\ x.inside = FALSE
        BY <4>1 DEF Final
      <4> QED
        BY <3>1, <4>2 DEF Counted
    <3> QED
      BY <3>2, <3>3
  <2> QED
    BY <2>1, <2>2
<1> QED
  BY <1>1, <1>2 DEF CInv, Base, TypeOK

LEMMA CInvFaultless == CInv => point.faults = {}
BY DEF CInv, Base, Live, Fits, Sound, Spots, Start

LEMMA CInvBalanced == CInv => StatementsBalanced
<1> SUFFICES ASSUME CInv, ~rotten, ~point.dead, At("block") \/ At("program")
             PROVE  /\ At("block") => point.height = Top.base.height
                    /\ At("program") => point.height = 0
  BY DEF StatementsBalanced
<1>1. work # <<>> /\ Top.at \in {"block", "program"}
  BY DEF At, Top
<1>2. PICK x \in Points, y \in Points :
        Fits(x) /\ Ready(work, x) /\ Leads(Top, x, y) /\ Ready(Tail(work), y)
  BY <1>1, Facing DEF CInv
<1>3. point.height = x.h /\ x.h \in Nat
  BY <1>2 DEF Fits, Sound, Spots, Level, Points, Heights
<1>4. CASE Top.at = "block"
  <2>1. x.h = Level(Top.base)
    BY <1>2, <1>4 DEF Leads, Balanced
  <2> QED
    BY <1>3, <1>4, <2>1 DEF At, Top, Level
<1>5. CASE Top.at = "program"
  <2>1. x.h = 0
    BY <1>2, <1>5 DEF Leads, Balanced
  <2> QED
    BY <1>3, <1>5, <2>1 DEF At, Top
<1> QED
  BY <1>1, <1>4, <1>5

\* The brackets of what is accepted match, whatever the source.
THEOREM TypeCorrect ==
  ASSUME Quirks = {}
  PROVE  Spec => []TypeOK
BY CInvAlways, CInvTypes, PTL

\* No instruction of any program lacks an operand, and no class literal the name of a member.
THEOREM Suffice ==
  ASSUME Quirks = {}
  PROVE  Spec => []OperandsSuffice
<1>1. CInv => OperandsSuffice
  BY CInvFaultless DEF OperandsSuffice
<1> QED
  BY <1>1, CInvAlways, PTL

\* The operand stack is as high on every path to an instruction.
THEOREM Agree ==
  ASSUME Quirks = {}
  PROVE  Spec => []PathsAgree
<1>1. CInv => PathsAgree
  BY CInvFaultless DEF PathsAgree
<1> QED
  BY <1>1, CInvAlways, PTL

\* Every return of every function has its result on the stack and nothing else.
THEOREM OneResult ==
  ASSUME Quirks = {}
  PROVE  Spec => []ReturnsOne
<1>1. CInv => ReturnsOne
  BY CInvFaultless DEF ReturnsOne
<1> QED
  BY <1>1, CInvAlways, PTL

\* A statement leaves the stack as it found it, in a block of any depth and in the program.
THEOREM Balance ==
  ASSUME Quirks = {}
  PROVE  Spec => []StatementsBalanced
BY CInvAlways, CInvBalanced, PTL
=============================================================================
