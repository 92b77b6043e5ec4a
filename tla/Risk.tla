-------------------------------- MODULE Risk ---------------------------------
(***************************************************************************)
(* sandbox/risk.py: the score of a shell command, over lines of tokens.    *)
(* A token stands for its class: "ls" for every read-only program without  *)
(* writing arguments, "make" for a program nobody listed, ".rc" for a      *)
(* hidden path, "/" for a root of the disk, "x" for a plain word.  The     *)
(* tokens are those shlex hands over: operators with no blank between them *)
(* come as one token, ";>" for `ls;>f`, which is in none of the scorer's   *)
(* lists of operators and is a word to it.  A line grows by a token a      *)
(* step, so that every line up to a length is scored.                      *)
(***************************************************************************)
EXTENDS Naturals, Sequences, FiniteSets, SequencesExt

CONSTANTS Tokens, MaxTokens   \* tokens of a line; bound: its length

VARIABLE line

\* The lists of programs and of arguments, by class.
ReadOnlyPrograms == {"ls", "find", "sort", "uniq"}
WritingArgs      == [find |-> {"-exec"}, sort |-> {"-o"}]
OutputOperand    == {"uniq"}
Network          == {"curl"}
Shells           == {"sh"}
Interpreters     == {"python"}
HighPrograms     == {"xargs"}
Escalate         == {"sudo"}
Copies           == {"cp"}
Separators       == {";", "|", "&"}
OutRedirects     == {">", ">&"}
JoinedOperators  == {";>"}        \* operators that shlex returns as one token
Options          == {"-exec", "-o", "-c", "-r"}
Assignments      == {"A=1"}
Rank             == [low |-> 0, medium |-> 1, high |-> 2, destructive |-> 3]

Dotfile(t) == t = ".rc"
Has(toks, t) == \E i \in DOMAIN toks : toks[i] = t
AnyOf(toks, S) == \E i \in DOMAIN toks : toks[i] \in S

RiskInit == line = <<>>
TypeToken(t) ==
  /\ Len(line) < MaxTokens
  /\ line' = Append(line, t)
RiskNext == \E t \in Tokens : TypeToken(t)
RiskSpec == RiskInit /\ [][RiskNext]_line

-----------------------------------------------------------------------------
(* _raw_destructive: sudo anywhere, a download piped into a shell, or a      *)
(* redirect to a hidden file, each looked for in the text of the line.       *)
PipeShell(toks) ==
  \E i, j \in DOMAIN toks :
    /\ toks[i] \in Network /\ i < j /\ toks[j] = "|"
    /\ \A k \in i..(j - 1) : toks[k] # "|"
    /\ j < Len(toks) /\ toks[j + 1] \in Shells
RawDestructive(toks) ==
  \/ Has(toks, "sudo")
  \/ PipeShell(toks)
  \/ \E i \in DOMAIN toks : toks[i] \in {">", ";>"} /\ i < Len(toks) /\ Dotfile(toks[i + 1])

\* _parse: one command after another; a redirect takes the next token as its
\* target, whatever it is, and a duplicated descriptor is not a write.
NoCommand(piped) == [words |-> <<>>, writes |-> {}, pipedIn |-> piped]
Flush(p) == IF p.current.words # <<>> \/ p.current.writes # {}
            THEN Append(p.commands, p.current) ELSE p.commands
ParseToken(p, t) ==
  IF p.pending # "" THEN
         [p EXCEPT !.pending = "",
                   !.current.writes = IF p.pending # ">&" \/ t \notin {"1"} THEN @ \cup {t} ELSE @]
  ELSE IF t \in Separators THEN [commands |-> Flush(p), current |-> NoCommand(t = "|"), pending |-> ""]
  ELSE IF t \in OutRedirects THEN [p EXCEPT !.pending = t]
  ELSE IF t = "<" THEN p
  ELSE [p EXCEPT !.current.words = Append(@, t)]
Parsed(toks) ==
  FoldLeft(ParseToken, [commands |-> <<>>, current |-> NoCommand(FALSE), pending |-> ""], toks)

\* _special: scores that do not depend on the allowlist; {} for none.
Special(program, args, pipedIn) ==
  IF program \in Escalate THEN {"destructive"}
  ELSE IF program = "rm" /\ Has(args, "-r") /\ Has(args, "/") THEN {"destructive"}
  ELSE IF program = "tee" /\ Has(args, ".rc") THEN {"destructive"}
  ELSE IF program \in Copies /\ Has(args, ".rc") THEN {"high"}
  ELSE IF program \in Network \cup HighPrograms THEN {"high"}
  ELSE IF program \in Shells /\ (pipedIn \/ Has(args, "-c") \/ args = <<>>) THEN {"high"}
  ELSE IF program \in Interpreters /\ (pipedIn \/ Has(args, "-c")) THEN {"high"}
  ELSE IF program = "git" THEN IF args # <<>> /\ args[1] = "push" THEN {"high"} ELSE {"medium"}
  ELSE {}

\* _writes_by_argument: an option that writes or runs, or a second operand.
WritesByArgument(program, args) ==
  \/ program \in DOMAIN WritingArgs /\ AnyOf(args, WritingArgs[program])
  \/ program \in OutputOperand /\ Cardinality({i \in DOMAIN args : args[i] \notin Options}) > 1

\* _without_assignments
WithoutAssignments(words) ==
  LET first == {i \in DOMAIN words : words[i] \notin Assignments}
  IN  IF first = {} THEN <<>> ELSE SubSeq(words, CHOOSE i \in first : \A j \in first : i <= j, Len(words))

\* The faulty score that lets an assignment before a known program pass.
ScoreAssigned(item) ==
  LET words  == WithoutAssignments(item.words)
      writes == item.writes \ {"/dev/null"}
      args   == Tail(words)
  IN  IF ".rc" \in writes THEN "destructive"
      ELSE IF words = <<>> THEN IF writes # {} \/ item.words # <<>> THEN "medium" ELSE "low"
      ELSE IF Special(words[1], args, item.pipedIn) # {} THEN
             CHOOSE r \in Special(words[1], args, item.pipedIn) : TRUE
      ELSE IF writes # {} \/ words[1] \notin ReadOnlyPrograms THEN "medium"
      ELSE IF WritesByArgument(words[1], args) THEN IF words[1] = "find" THEN "high" ELSE "medium"
      ELSE "low"

\* _score of one simple command.
Score(item) ==
  LET words  == WithoutAssignments(item.words)
      writes == item.writes \ {"/dev/null"}
      args   == Tail(words)
  IN  IF ".rc" \in writes THEN "destructive"
      ELSE IF words = <<>> THEN IF writes # {} \/ item.words # <<>> THEN "medium" ELSE "low"
      ELSE IF Special(words[1], args, item.pipedIn) # {} THEN
             CHOOSE r \in Special(words[1], args, item.pipedIn) : TRUE
      ELSE IF writes # {} \/ item.words # words THEN "medium"
      ELSE IF words[1] \notin ReadOnlyPrograms THEN "medium"
      ELSE IF WritesByArgument(words[1], args) THEN IF words[1] = "find" THEN "high" ELSE "medium"
      ELSE "low"

\* risk_of
Worst(commands) ==
  LET scores == {Score(commands[i]) : i \in DOMAIN commands} \cup {"low"}
  IN  CHOOSE r \in scores : \A s \in scores : Rank[s] <= Rank[r]
RiskOf(toks) ==
  LET p == Parsed(toks)
  IN  IF RawDestructive(toks) THEN "destructive"
      ELSE IF p.pending # "" THEN "medium"
      ELSE IF Worst(Flush(p)) # "low" THEN Worst(Flush(p))
      ELSE IF Has(toks, "$(") THEN "high"
      ELSE IF Has(toks, "$v") THEN "medium"
      ELSE "low"

-----------------------------------------------------------------------------
(* What a shell does with a line, position by position: the reference.       *)
Operators      == Separators \cup OutRedirects \cup {"<"}
IsTarget(i)    == i > 1 /\ line[i - 1] \in OutRedirects \cup {"<"}
IsWord(i)      == line[i] \notin Operators /\ ~IsTarget(i)
SameCommand(h, i) == \A k \in h..i : line[k] \notin Separators
\* The words of i's command up to i; the first of them is its program.
WordsTo(i)     == {h \in 1..i : IsWord(h) /\ SameCommand(h, i)}
ProgramOf(i)   == line[CHOOSE h \in WordsTo(i) : \A k \in WordsTo(i) : h <= k]

HarmlessTarget(i) ==
  line[i - 1] = "<" \/ line[i] = "/dev/null" \/ (line[i - 1] = ">&" /\ line[i] = "1")
HarmlessWord(i) ==
  /\ ProgramOf(i) \in ReadOnlyPrograms
  /\ ProgramOf(i) \in DOMAIN WritingArgs => line[i] \notin WritingArgs[ProgramOf(i)]
  /\ ProgramOf(i) \in OutputOperand =>
       Cardinality({h \in WordsTo(i) : line[h] \notin Options}) <= 2

\* A command that names its input before its program.
InputFirst(i) == line[i] = "<" /\ ~\E h \in 1..i : IsWord(h) /\ SameCommand(h, i)

(* A line scored `low`, which `auto` runs without asking and without         *)
(* confinement, only runs read-only programs: every program word is on the   *)
(* allowlist, no redirect writes a file, no argument makes it write, and     *)
(* nothing is substituted or set in its environment (risk.risk_of).  Two     *)
(* kinds of line are left out, because the code scores them low whatever     *)
(* they do: an input redirect before the program, where the scorer takes the *)
(* file for the program, and operators run together, which it takes for an   *)
(* argument (`ls ;> f` writes f).                                            *)
LowIsReadOnly ==
  /\ RiskOf(line) = "low"
  /\ ~\E i \in DOMAIN line : InputFirst(i) \/ line[i] \in JoinedOperators
  =>
    \A i \in DOMAIN line :
      /\ line[i] \notin {"$(", "$v"}
      /\ line[i] \notin Operators => IF IsTarget(i) THEN HarmlessTarget(i) ELSE HarmlessWord(i)

=============================================================================
