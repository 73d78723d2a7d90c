----------------------------- MODULE CommandLine -----------------------------
(***************************************************************************)
(* separate_cmd_path.c of the client: the command and its two paths are    *)
(* taken out of the line the user typed, by get_cmd, which also cuts the   *)
(* line, and then get_path1 and get_path2.                                 *)
(***************************************************************************)
EXTENDS Naturals, Sequences, FiniteSets

CONSTANTS Lines,      \* what the user may type
          Commands,   \* the ten names get_cmd compares with
          Size        \* of the buffer for a path, 256 in the program

VARIABLES typed,   \* the line as it was typed
          line,    \* the buffer
          cmd,     \* the command, unknown or not read yet
          paths    \* the paths read so far

vars == <<typed, line, cmd, paths>>

Init == typed \in Lines /\ line = typed /\ cmd = "none" /\ paths = <<>>

Blanks == {" ", "\t"}
Char(s, p) == SubSeq(s, p, p)

\* The first position from p on that the loop does not pass over, or the end.
Stop(s, p, Passed(_)) ==
  CHOOSE q \in p..(Len(s) + 1) : /\ q > Len(s) \/ ~Passed(Char(s, q))
                                 /\ \A r \in p..(q - 1) : Passed(Char(s, r))

skip_whitespace(s, p) == Stop(s, p, LAMBDA c : c \in Blanks)
get_word(s, p) == Stop(s, p, LAMBDA c : c \notin Blanks \cup {"\n"})
FirstLine(s) == SubSeq(s, 1, Stop(s, 1, LAMBDA c : c # "\n") - 1)

\* The line ends at the first newline, and its first word is compared.
get_cmd ==
  /\ cmd = "none"
  /\ line' = FirstLine(line)
  /\ LET p == skip_whitespace(line', 1)
         word == SubSeq(line', p, get_word(line', p) - 1)
     IN cmd' = IF word \in Commands THEN word ELSE "unknown"
  /\ UNCHANGED <<typed, paths>>

Cut(word) == IF Len(word) < Size THEN word ELSE SubSeq(word, 1, Size - 1)

\* Mutant: the blanks behind the command are not passed over.
get_pathAtOnce(n) ==
  /\ cmd \in Commands /\ Len(paths) = n - 1
  /\ LET After[i \in 0..n] == IF i = 0 THEN skip_whitespace(line, 1)
                              ELSE get_word(line, After[i - 1])
     IN paths' = Append(paths, Cut(SubSeq(line, After[n], get_word(line, After[n]) - 1)))
  /\ UNCHANGED <<typed, line, cmd>>

\* get_path1 and get_path2: behind the command, and behind the first path, what is
\* between two blanks, as far as the buffer holds it.
get_path(n) ==
  /\ cmd \in Commands /\ Len(paths) = n - 1
  /\ LET After[i \in 0..n] == IF i = 0 THEN skip_whitespace(line, 1)
                              ELSE skip_whitespace(line, get_word(line, After[i - 1]))
     IN paths' = Append(paths, Cut(SubSeq(line, After[n], get_word(line, After[n]) - 1)))
  /\ UNCHANGED <<typed, line, cmd>>

Next == get_cmd \/ get_path(1) \/ get_path(2)

Spec == Init /\ [][Next]_vars

-----------------------------------------------------------------------------
(* The words of a line, without regard to how they are found.              *)

Begins(s) == {i \in 1..Len(s) : Char(s, i) \notin Blanks /\ (i = 1 \/ Char(s, i - 1) \in Blanks)}

Word(s, n) ==
  IF Cardinality(Begins(s)) < n THEN SubSeq(s, 1, 0)
  ELSE LET i == CHOOSE j \in Begins(s) : Cardinality({k \in Begins(s) : k <= j}) = n
           end == CHOOSE j \in i..(Len(s) + 1) :
                    /\ j > Len(s) \/ Char(s, j) \in Blanks
                    /\ \A k \in i..(j - 1) : Char(s, k) \notin Blanks
       IN SubSeq(s, i, end - 1)

\* The command and the paths are the words of the first line typed, whatever blanks
\* are between them, if the buffers hold them (separate_cmd_path.c:25-92).
PathsAreWords ==
  LET s == FirstLine(typed) IN
  /\ cmd \in Commands => cmd = Word(s, 1)
  /\ cmd = "unknown" => Word(s, 1) \notin Commands
  /\ \A n \in 1..Len(paths) : Len(Word(s, n + 1)) < Size => paths[n] = Word(s, n + 1)
=============================================================================
