------------------------------ MODULE MCPrograms ------------------------------
(***************************************************************************)
(* The time wheel of NetDisk, the lexer 0002 and the programs of           *)
(* SmallPrograms.  The wheel is a ring of four slots of two seconds, so    *)
(* that divisions have remainders, with a main loop up to five seconds     *)
(* late, so that a tick may be of two steps and leave a second over.  A    *)
(* behaviour is of one program; the variables of the others stay as they   *)
(* are.  The liveness properties forbid symmetry.                          *)
(***************************************************************************)
EXTENDS TimeWheel, SmallPrograms
CONSTANTS p1, p2, c1, c2, c3
VARIABLES v1, v2, v3, v4                           \* of Lexer

TextsOf(alphabet, n) ==
  LET Of[k \in 0..n] == IF k = 0 THEN {""} ELSE Of[k - 1] \cup {s \o c : s \in Of[k - 1], c \in alphabet}
  IN Of[n]

\* Every text of three characters, and every keyword with neighbours.
Keywords == {"signed", "unsigned", "char", "short", "int", "long", "float", "double", "struct",
             "union", "enum", "void", "if", "else", "switch", "case", "default", "while", "do",
             "for", "break", "continue", "return", "goto", "const", "sizeof", "typedef"}
Sources == TextsOf({"a", "1", ".", "/", "+", "=", "\"", "'", "\n", " ", "$", "-", ">"}, 3)
           \cup UNION {{w \o "x", SubSeq(w, 1, Len(w) - 1), "x" \o w, w \o "1 ", "// \n" \o w} :
                         w \in Keywords}
           \cup {"'ab'", "'a", "\"a\nb\"", "1.25+", "a//b\nc", "->>", "<<=", "&&&", "||=", "/'/"}

TypedLines ==
  TextsOf({"c", "d", " ", "\t", "\n"}, 5) \cup {"cd d c", " ls  cd\td", "cd cdcd cd"}

L == INSTANCE Lexer WITH source <- v1, current <- v2, line <- v3, tokens <- v4

text == <<v1, v2, v3, v4>>
all == <<programs, vars, text>>

Unused == v1 = 0 /\ v2 = 0 /\ v3 = 0 /\ v4 = 0

MCInit ==
  /\ Init   \* of the wheel
  /\ \/ InitOfOne /\ Unused
     \/ program = "wheel" /\ Idle /\ Unused
     \/ program = "lexer" /\ L!Init /\ Idle

\* A step of one program leaves the variables of the others alone.
Scans(A) == program = "lexer" /\ A /\ UNCHANGED <<programs, vars>>
OfThree(A) == A /\ UNCHANGED <<vars, text>>
Turns(A) == program = "wheel" /\ A /\ UNCHANGED <<programs, text>>

MCNext == Scans(L!Next) \/ OfThree(StepOfOne) \/ Turns(Next)

\* The fairness of each program, as its module states it.
MCFairness ==
  /\ \A t \in {p1, p2, c1, c2, c3} : WF_all(OfThree(Produces(P!Step(t))))
  /\ SF_all(Turns(Tick)) /\ WF_all(Turns(AddKnownRefresh)) /\ WF_all(Turns(Second))

MCSpec == MCInit /\ [][MCNext]_all /\ MCFairness

-------------------------------------------------------------------------------
(* What the modules state of their programs, under the same names.         *)

\* Every token is the longest, in its place and on its line (0002, scanner.c).
TokensAreRight == program = "lexer" => L!TokensAreRight
\* Whoever waits for the list is woken; threads of a kind are alike, so one of each
\* stands for all (0006, main.c:75, 94).
EveryoneIsWoken ==
  \A t \in {p1, c1} : (program = "producers" /\ t \in waiting) ~> (program = "producers" => t \notin waiting)
===============================================================================
