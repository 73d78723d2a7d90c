-------------------------------- MODULE Lexer --------------------------------
(***************************************************************************)
(* The lexical analyser 0002 (scanner.c, scanner.h, main.c): scanToken is  *)
(* called until it returns the token of the end.  A character is a string  *)
(* of length one, "" stands for the terminating zero.  The type of an      *)
(* operator or keyword is its text; the other types are words.             *)
(***************************************************************************)
EXTENDS Naturals, Sequences, FiniteSets

CONSTANT Sources   \* the texts to be scanned

VARIABLES source,   \* the text
          current,  \* the position of the next character, scanner.current
          line,     \* scanner.line
          tokens    \* what run has printed: type, line and the text from start
                    \* up to, not including, the position of the next one

vars == <<source, current, line, tokens>>

Init == /\ source \in Sources /\ current = 1 /\ line = 1 /\ tokens = <<>>

-----------------------------------------------------------------------------
(* Characters and positions.                                               *)

Letters ==
  {"a", "b", "c", "d", "e", "f", "g", "h", "i", "j", "k", "l", "m", "n", "o", "p", "q", "r", "s",
   "t", "u", "v", "w", "x", "y", "z", "A", "B", "C", "D", "E", "F", "G", "H", "I", "J", "K", "L",
   "M", "N", "O", "P", "Q", "R", "S", "T", "U", "V", "W", "X", "Y", "Z", "_"}
Digits == {"0", "1", "2", "3", "4", "5", "6", "7", "8", "9"}

isAlphaUnderline(c) == c \in Letters
isDigit(c) == c \in Digits

Positions == 1..(Len(source) + 1)
Ending(p) == p > Len(source)
At(p) == IF Ending(p) THEN "" ELSE SubSeq(source, p, p)
Text(p, q) == SubSeq(source, p, IF q > Len(source) THEN Len(source) ELSE q - 1)

\* The loops of advance(): the first position from p on where the text ends or the
\* character is one of those that stop the loop, or none of those it passes over.
Until(p, stopping) ==
  CHOOSE q \in Positions : /\ q >= p /\ (Ending(q) \/ At(q) \in stopping)
                           /\ \A r \in p..(q - 1) : ~Ending(r) /\ At(r) \notin stopping

Past(p, passed) ==
  CHOOSE q \in Positions : /\ q >= p /\ (Ending(q) \/ At(q) \notin passed)
                           /\ \A r \in p..(q - 1) : ~Ending(r) /\ At(r) \in passed

EndOfLine(p) == Until(p, {"\n"})
Newlines(p, q) == Cardinality({i \in p..(q - 1) : At(i) = "\n"})

Blank(p) == At(p) \in {" ", "\r", "\t", "\n"}
Comment(p) == At(p) = "/" /\ At(p + 1) = "/"

\* skipWhitespace: blanks, and comments up to, not including, the end of line.
Begun == LET Skip[p \in Positions] ==
               IF Blank(p) THEN Skip[p + 1]
               ELSE IF Comment(p) THEN Skip[EndOfLine(p)] ELSE p
         IN Skip[current]

-----------------------------------------------------------------------------
(* Tokens.                                                                 *)

\* makeToken and errorToken: the token is on the line reached before it.
Emit(type, q) ==
  /\ current' = q
  /\ line' = line + Newlines(current, Begun)
  /\ tokens' = Append(tokens, [type |-> type, line |-> line', from |-> Begun, to |-> q])
  /\ UNCHANGED source

EndOfFile == Ending(Begun) /\ Emit("eof", Begun)

\* checkKeyword: of the word w, length characters after the first start ones.
CheckKeyword(w, start, length, rest) ==
  start + length = Len(w) /\ SubSeq(w, start + 1, Len(w)) = SubSeq(rest, 1, length)

\* The branches of identifierType: the characters tested, and what is compared
\* with the others.
Branches ==
  {<<"b", 4, "reak">>, <<"ca", 2, "se">>, <<"ch", 2, "ar">>, <<"cons", 1, "t">>,
   <<"cont", 4, "inue">>, <<"de", 5, "fault">>, <<"do", 0, "">>, <<"do", 4, "uble">>,
   <<"el", 2, "se">>, <<"en", 2, "um">>, <<"fl", 3, "oat">>, <<"fo", 1, "r">>,
   <<"g", 3, "oto">>, <<"if", 0, "">>, <<"in", 1, "t">>, <<"l", 3, "ong">>,
   <<"r", 5, "eturn">>, <<"sh", 3, "ort">>, <<"sig", 3, "ned">>, <<"siz", 3, "eof">>,
   <<"st", 4, "ruct">>, <<"sw", 4, "itch">>, <<"t", 6, "ypedef">>, <<"uni", 2, "on">>,
   <<"uns", 5, "igned">>, <<"v", 3, "oid">>, <<"w", 4, "hile">>}

IdentifierType(w) ==
  IF \E b \in Branches : /\ Len(b[1]) <= Len(w) /\ SubSeq(w, 1, Len(b[1])) = b[1]
                         /\ CheckKeyword(w, Len(b[1]), b[2], b[3])
  THEN w ELSE "identifier"

Identifier ==
  /\ isAlphaUnderline(At(Begun))
  /\ LET q == Past(Begun, Letters \cup Digits) IN
       Emit(IdentifierType(Text(Begun, q)), q)

\* Mutant: a point need not be followed by a digit.
NumberWithPoint ==
  /\ isDigit(At(Begun))
  /\ LET q == Past(Begun, Digits) IN
       Emit("number", IF At(q) = "." THEN Past(q + 1, Digits) ELSE q)

\* Digits, and a point with digits behind it.
Number ==
  /\ isDigit(At(Begun))
  /\ LET q == Past(Begun, Digits) IN
       Emit("number", IF At(q) = "." /\ isDigit(At(q + 1))
                      THEN Past(q + 1, Digits) ELSE q)

Singles == {"(", ")", "[", "]", "{", "}", ",", ".", ";", "~"}

\* What may follow the first character of an operator of two.
Match == [c \in {"+", "-", "*", "/", "%", "&", "|", "^", "=", "!", "<", ">"} |->
            CASE c = "-" -> {"-", "=", ">"}
              [] c \in {"+", "&", "|", "<", ">"} -> {c, "="}
              [] OTHER -> {"="}]

Punctuation ==
  \/ At(Begun) \in Singles /\ Emit(At(Begun), Begun + 1)
  \/ /\ At(Begun) \in DOMAIN Match
     /\ LET q == IF At(Begun + 1) \in Match[At(Begun)] THEN Begun + 2 ELSE Begun + 1 IN
          Emit(Text(Begun, q), q)

\* string: from the opening quote to the closing one, which must come before the
\* line and the text end.
StringLiteral ==
  /\ At(Begun) = "\""
  /\ LET q == Until(Begun + 1, {"\"", "\n"}) IN
       IF At(q) = "\"" THEN Emit("string", q + 1) ELSE Emit("error", q)

\* character: the same with at most one character in between.
CharacterLiteral ==
  /\ At(Begun) = "'"
  /\ LET q == Until(Begun + 1, {"'", "\n"}) IN
       IF At(q) # "'" THEN Emit("error", q)
       ELSE Emit(IF q - Begun <= 2 THEN "character" ELSE "error", q + 1)

\* errorTokenWithChar: none of these.
Unexpected ==
  /\ ~Ending(Begun)
  /\ LET c == At(Begun) IN
       ~isAlphaUnderline(c) /\ ~isDigit(c) /\ c \notin Singles /\ c \notin DOMAIN Match
       /\ c \notin {"\"", "'"}
  /\ Emit("error", Begun + 1)

\* run ends with the token of the end.
Done == tokens # <<>> /\ tokens[Len(tokens)].type = "eof"

ScanToken ==
  /\ ~Done
  /\ \/ EndOfFile \/ Identifier \/ Number \/ Punctuation
     \/ StringLiteral \/ CharacterLiteral \/ Unexpected

Next == ScanToken

Spec == Init /\ [][Next]_vars

-----------------------------------------------------------------------------
(* The tokens of scanner.h, without regard to how they are found.          *)

Operators ==
  {"(", ")", "[", "]", "{", "}", ",", ".", ";", "~", "+", "++", "+=", "-", "--", "-=", "->",
   "*", "*=", "/", "/=", "%", "%=", "&", "&=", "&&", "|", "|=", "||", "^", "^=", "=", "==",
   "!", "!=", "<", "<=", "<<", ">", ">=", ">>"}

Keywords ==
  {"signed", "unsigned", "char", "short", "int", "long", "float", "double", "struct", "union",
   "enum", "void", "if", "else", "switch", "case", "default", "while", "do", "for", "break",
   "continue", "return", "goto", "const", "sizeof", "typedef"}

AllOf(w, P(_)) == \A i \in 1..Len(w) : P(SubSeq(w, i, i))
Digital(w) == Len(w) > 0 /\ AllOf(w, isDigit)
Quoted(w, q) == /\ Len(w) >= 2 /\ SubSeq(w, 1, 1) = q /\ SubSeq(w, Len(w), Len(w)) = q
                /\ AllOf(SubSeq(w, 2, Len(w) - 1), LAMBDA c : c \notin {q, "\n"})

\* A character has exactly one between its quotes, say the requirements
\* (过程笔记.md:53) and the comment on character() (scanner.c:268); the code takes ''
\* too and says so itself (scanner.c:289-292), and it is the code that counts here.
SingleCharacter(w) == Quoted(w, "'") /\ Len(w) = 3
EmptyCharacter(w) == w = "''"

\* The types a text has as a token.
TypesOf(w) ==
  (IF w \in Operators \cup Keywords THEN {w} ELSE {})
  \cup (IF /\ w # "" /\ w \notin Keywords /\ isAlphaUnderline(SubSeq(w, 1, 1))
           /\ AllOf(w, LAMBDA c : isAlphaUnderline(c) \/ isDigit(c))
        THEN {"identifier"} ELSE {})
  \cup (IF \/ Digital(w)
           \/ \E i \in 2..(Len(w) - 1) : /\ Digital(SubSeq(w, 1, i - 1)) /\ SubSeq(w, i, i) = "."
                                         /\ Digital(SubSeq(w, i + 1, Len(w)))
        THEN {"number"} ELSE {})
  \cup (IF Quoted(w, "\"") THEN {"string"} ELSE {})
  \cup (IF SingleCharacter(w) \/ EmptyCharacter(w) THEN {"character"} ELSE {})

Last == tokens[Len(tokens)]
Scanned == tokens # <<>> /\ Last.type # "eof"

\* Every token is the longest text of its type (scanner.h:12-77) that begins
\* where it begins: no operator is split, no keyword taken for an identifier or
\* the other way round (scanner.c:150-264), no number cut.
LongestMatch ==
  Scanned /\ Last.type # "error" =>
    /\ TypesOf(Text(Last.from, Last.to)) = {Last.type}
    /\ \A q \in (Last.to + 1)..(Len(source) + 1) : TypesOf(Text(Last.from, q)) = {}

\* An error is reported only where no token begins (scanner.c:266-301, 342-372).
ErrorsOnlyWhereNothingFits ==
  Scanned /\ Last.type = "error" =>
    \A q \in (Last.from + 1)..(Len(source) + 1) : TypesOf(Text(Last.from, q)) = {}

\* Between two tokens there are blanks and comments only, and nothing is scanned
\* twice (scanner.c:79-105 and the position every error leaves behind).
NothingSkipped ==
  tokens # <<>> =>
    LET p == IF Len(tokens) = 1 THEN 1 ELSE tokens[Len(tokens) - 1].to IN
    /\ Last.from >= p
    /\ \A i \in p..(Last.from - 1) :
         \/ Blank(i)
         \/ \E j \in p..i : j < Last.from - 1 /\ Comment(j) /\ Newlines(j, i + 1) = 0

\* A token is on the line on which it begins, whatever errors came before it
\* (scanner.c:89-92, 278, 347).
LinesCounted == tokens # <<>> => Last.line = 1 + Newlines(1, Last.from)

\* Every token but the end is of one character at least, the errors included, so
\* that main's loop comes to the end of the text (main.c:21-33).
Advances == Len(tokens) <= Len(source) + 1

\* What was scanned last is a token of the language, or an error, at its place; ''
\* counts as one, against the requirements.
TokensAreRight ==
  LongestMatch /\ ErrorsOnlyWhereNothingFits /\ NothingSkipped /\ LinesCounted /\ Advances
=============================================================================
