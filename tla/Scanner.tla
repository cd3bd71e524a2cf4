------------------------------ MODULE Scanner -------------------------------
(***************************************************************************)
(* The scanner: from the characters of a source to tokens, one call of     *)
(* scgett for each.  The loop that skips blanks and comments takes one     *)
(* step per turn, since it may turn for ever; a token is taken in one      *)
(* step.                                                                   *)
(*                                                                         *)
(* A character is the class it belongs to.  "=" stands for all that may be *)
(* followed by '=', "?" for all that begin no token; words are not told    *)
(* apart (ident_scan_dfa looks at characters already taken).               *)
(***************************************************************************)
EXTENDS Integers, Sequences, FiniteSetsExt

CONSTANTS
  Chars,   \* the characters of sources
  MaxLen   \* bound of the model: characters of a source

ASSUME ScannerAssumption ==
  /\ Chars \subseteq {"blank", "newline", "/", "digit", ".", "letter", "#", "=", "quote", "?"}
  /\ MaxLen \in Nat

VARIABLES
  text,    \* the source, without the NUL that ends it
  beyond,  \* the byte behind that NUL, which belongs to nobody
  crnt,    \* s->crnt, the index of the character to look at next
  st,      \* s->st
  line,    \* s->line
  char,    \* the character the skipping loop works with
  from,    \* where the call began
  kind     \* t->type, "calling" during the call

ScanVars == <<text, beyond, crnt, st, line, char, from, kind>>

Length == Len(text)

At(i) == IF i < Length THEN text[i + 1] ELSE IF i = Length THEN "NUL" ELSE beyond

AtEnd(i) == At(i) = "NUL"

ScanInit ==
  /\ text \in UNION {[1 .. n -> Chars] : n \in 0 .. MaxLen}
  /\ beyond \in {"/", "?"}
  /\ crnt = 0 /\ st = 0 /\ line = 1 /\ from = 0
  /\ char = "NUL"
  /\ kind = "none"

\* The compiler asks for a token, until it gets the end.
Call ==
  /\ kind \notin {"calling", "EOF"} /\ crnt <= Length
  /\ kind' = "calling" /\ from' = crnt /\ char' = At(crnt)
  /\ UNCHANGED <<text, beyond, crnt, st, line>>

-----------------------------------------------------------------------------
(* Blanks and comments. *)

SkipTo(i, l) ==
  /\ crnt' = i /\ char' = At(i) /\ line' = l
  /\ UNCHANGED <<text, beyond, st, from, kind>>

SkipBlank == kind = "calling" /\ char = "blank" /\ SkipTo(crnt + 1, line)

SkipNewline == kind = "calling" /\ char = "newline" /\ SkipTo(crnt + 1, line + 1)

\* Slip: one slash is enough.
M_InComment == char = "/"

InComment == char = "/" /\ At(crnt + 1) = "/"

\* The first end of a line, or of the text, from i on.
LineEnd(i) == Min({e \in i .. Length : At(e) \in {"newline", "NUL"}})

\* The loop inside has a character of its own: the one outside still is a slash.
SkipComment ==
  /\ kind = "calling" /\ InComment
  /\ crnt' = LineEnd(crnt)
  /\ UNCHANGED <<text, beyond, st, line, char, from, kind>>

-----------------------------------------------------------------------------
(* Tokens. *)

\* The token that ends before i.
Token(k, i) ==
  /\ st' = crnt /\ crnt' = i /\ kind' = k
  /\ UNCHANGED <<text, beyond, line, char, from>>

Begins(class) ==
  /\ kind = "calling" /\ char \notin {"blank", "newline"} /\ ~InComment
  /\ At(crnt) = class

Eof == Begins("NUL") /\ Token("EOF", crnt)

\* Any number of points, each with a digit after it.
Number ==
  /\ Begins("digit")
  /\ LET e == Min({i \in crnt + 1 .. Length :
                     At(i) # "digit" /\ ~(At(i) = "." /\ At(i + 1) = "digit")})
     IN  IF At(e) = "." THEN Token("ERROR", e + 1) ELSE Token("NUMBER", e)

Identifier ==
  /\ Begins("letter")
  /\ Token("IDENTIFIER", Min({i \in crnt + 1 .. Length : At(i) \notin {"letter", "digit"}}))

Single == (Begins(".") \/ Begins("/")) /\ Token("SINGLE", crnt + 1)

\* Slip: the character after it is taken whatever it is.
M_Pair == Begins("=") /\ Token("PAIR", crnt + 2)

Pair == Begins("=") /\ Token("PAIR", IF At(crnt + 1) = "=" THEN crnt + 2 ELSE crnt + 1)

\* The character after it is taken whatever it is.
Hash == Begins("#") /\ Token(IF At(crnt + 1) \in {"=", "#"} THEN "PAIR" ELSE "ERROR", crnt + 2)

\* A string that the text ends in, or a line.
String ==
  /\ Begins("quote")
  /\ LET e == Min({i \in crnt + 1 .. Length : At(i) \in {"quote", "newline", "NUL"}})
     IN  CASE At(e) = "quote" -> Token("STRING", e + 1)
           [] At(e) = "newline" -> Token("ERROR", e + 1)
           [] At(e) = "NUL" -> Token("ERROR", e)

\* Slip: the character stays where it is.
M_Unknown == (Begins("?") \/ Begins("newline")) /\ Token("ERROR", crnt)

\* After a comment the end of its line is not skipped.
Unknown == (Begins("?") \/ Begins("newline")) /\ Token("ERROR", crnt + 1)

scgett ==
  \/ SkipBlank \/ SkipNewline \/ SkipComment
  \/ Eof \/ Number \/ Identifier \/ Single \/ Pair \/ Hash \/ String \/ Unknown

ScanNext == Call \/ scgett

\* The compiler asks again until the end, and a call is not left.
ScanSpec == ScanInit /\ [][ScanNext]_ScanVars /\ WF_ScanVars(ScanNext)

-----------------------------------------------------------------------------
(* Properties. *)

\* Types: the NUL is never passed, so that no token is made of what lies behind the text,
\* other than by a text that ends in '#' (the loops of scgett, each with its own test), and
\* no line is counted twice; ends of lines that errors take are not counted.
ScanTypeOK ==
  /\ crnt <= Length \/ (crnt = Length + 1 /\ text[Length] = "#")
  /\ crnt \in Nat /\ st \in 0 .. crnt /\ from \in 0 .. crnt
  /\ line \in 1 .. 1 + Cardinality({i \in 0 .. crnt - 1 : At(i) = "newline"})
  /\ char \in Chars \cup {"/", "NUL"}
  /\ kind \in {"none", "calling", "EOF", "ERROR", "NUMBER", "IDENTIFIER", "SINGLE", "PAIR",
               "STRING"}

\* Whether a comment covers index i, if a call began at `from`.
Commented(i) ==
  \E j \in from .. i :
    /\ At(j) = "/" /\ At(j + 1) = "/"
    /\ \A k \in j .. i : At(k) # "newline"

\* What a call passes over before its token is blank or in a comment: nothing of the source
\* is lost between tokens (scgett).
SkipsBlanksOnly ==
  kind = "calling" => \A i \in from .. crnt - 1 : At(i) \in {"blank", "newline"} \/ Commented(i)

\* A comment that ends where the next line, or what is behind the text, begins with a
\* slash: the loop takes it for the comment going on, and the comment's end stays ahead.
CommentRunsOn ==
  /\ kind = "calling" /\ char = "/"
  /\ At(crnt) \in {"newline", "NUL"} /\ At(crnt + 1) = "/"

\* Every call ends and every token takes some of the text, so that a compiler that asks
\* again gets to the end, whatever the errors on the way; unless a comment runs on.
ReachesEnd == <>(kind = "EOF" \/ CommentRunsOn \/ crnt > Length)
=============================================================================
