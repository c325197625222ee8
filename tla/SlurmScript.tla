---------------------------- MODULE SlurmScript ----------------------------
(***************************************************************************)
(* The Slurm script parser, pkg/parser/slurm.go: what SlurmFlags reads in  *)
(* the #SBATCH lines at the head of a script, and what findCommand,        *)
(* validateEnvVars and the flag set of srun make of one line of its body.  *)
(* A line is a sequence of words; of a word only what the parser looks at  *)
(* is kept, in the sets below.                                             *)
(***************************************************************************)
EXTENDS Naturals, Sequences, FiniteSets

CONSTANTS
    Embedded,     \* <<w, c>>: the word w is longer than c and contains it
    Mentioned,    \* <<w, c>>: w is a quoted text with c between blanks
    Assignments,  \* words like A=1 or A="1 2"
    Semicolons,   \* words that end in one semicolon
    Options,      \* words that start with a dash
    Inline,       \* options with their value behind an equals sign
    HelpOptions   \* -h and --help

Commands == {"srun", "sbatch", "salloc", "wait", "sinfo", "scontrol", "squeue", "scancel"}

notSupportedCommands == Commands \ {"srun"}

ASSUME WordAssumption ==
    /\ Inline \subseteq Options /\ HelpOptions \subseteq Options /\ "--" \notin Options
    /\ \A c \in Commands : <<c, c>> \notin Embedded

-----------------------------------------------------------------------------
(***************************************************************************)
(* The #SBATCH lines.                                                      *)
(***************************************************************************)

\* The names SlurmFlags accepts for each field of ParsedSlurmFlags.
FlagNames ==
    [array  |-> {"a", "array"},    cpus    |-> {"cpus-per-task"}, gpus    |-> {"gpus-per-task"},
     mem    |-> {"mem"},           memTask |-> {"mem-per-task"},  memCpu  |-> {"mem-per-cpu"},
     memGpu |-> {"mem-per-gpu"},   nodes   |-> {"N", "nodes"},    ntasks  |-> {"n", "ntasks"},
     output |-> {"o", "output"},   error   |-> {"e", "error"},    input   |-> {"i", "input"},
     name   |-> {"J", "job-name"}, time    |-> {"t", "time"},     partition |-> {"p", "partition"}]

Fields == DOMAIN FlagNames

\* The fields whose text must be a quantity, a list of GPUs or a number, and
\* the two texts that are none.
Parsed     == {"cpus", "gpus", "mem", "memTask", "memCpu", "memGpu", "nodes", "ntasks"}
Unparsable == {"", "?"}
Bad(f, v)  == f \in Parsed /\ v \in Unparsable

(***************************************************************************)
(* A line of a script: its words, whether a backslash joins it to the next *)
(* one, its kind ("blank", "comment", "directive" or "command") and, in a  *)
(* directive, the options: --key=val ("long"), -k val ("short") or         *)
(* --key val ("spaced").                                                   *)
(***************************************************************************)
ScriptLine ==
    [words : Seq(STRING), cont : BOOLEAN, kind : {"blank", "comment", "directive", "command"},
     opts : Seq([key : STRING, val : STRING, form : {"long", "short", "spaced"}])]

\* extractKeyValue: the first long option, else the first short one.
extractKeyValue(line) ==
    LET of(form) == {k \in 1..Len(line.opts) : line.opts[k].form = form}
        first(S) == line.opts[CHOOSE k \in S : \A j \in S : k <= j]
    IN  IF of("long") # {} THEN <<first(of("long"))>>
        ELSE IF of("short") # {} THEN <<first(of("short"))>> ELSE <<>>

\* One round of SlurmFlags' loop.
ReadLine(r, line, ignoreUnknown) ==
    LET kv    == extractKeyValue(line)
        known == {f \in Fields : kv[1].key \in FlagNames[f]}
    IN  IF line.kind \in {"blank", "comment"} THEN r
        ELSE IF line.kind = "command" THEN [r EXCEPT !.stop = TRUE]
        ELSE IF kv = <<>> THEN r
        ELSE IF known = {} THEN [r EXCEPT !.stop = ~ignoreUnknown, !.err = ~ignoreUnknown]
        ELSE IF \E f \in known : Bad(f, kv[1].val) THEN [r EXCEPT !.stop = TRUE, !.err = TRUE]
        ELSE [r EXCEPT !.vals = [f \in Fields |-> IF f \in known THEN kv[1].val ELSE r.vals[f]]]

\* SlurmFlags: the values of the directives and whether there was an error.
SlurmFlags(script, ignoreUnknown) ==
    LET after[k \in 0..Len(script)] ==
            IF k = 0 THEN [stop |-> FALSE, err |-> FALSE, vals |-> [f \in Fields |-> ""]]
            ELSE IF after[k - 1].stop THEN after[k - 1]
            ELSE ReadLine(after[k - 1], script[k], ignoreUnknown)
    IN  after[Len(script)]

-----------------------------------------------------------------------------
(***************************************************************************)
(* One logical line of the body.                                           *)
(***************************************************************************)

\* Where the text of command c occurs first in the line; 0 for nowhere.
FirstText(line, c) ==
    LET where == {k \in 1..Len(line) : line[k] = c \/ <<line[k], c>> \in Embedded \cup Mentioned}
    IN  IF where = {} THEN 0 ELSE CHOOSE k \in where : \A j \in where : k <= j

\* findCommand looks at that first occurrence only: it must be a word.
findCommand(line, c) ==
    LET k == FirstText(line, c)
    IN  IF k # 0 /\ <<line[k], c>> \notin Embedded THEN k ELSE 0

\* validateEnvVars: assignments, each "export" ended by "&&" or a semicolon
\* before the next one; a word with a semicolon passes unseen.
validateEnvVars(words) ==
    LET ends == {k \in 1..Len(words) : words[k] = "&&" \/ words[k] \in Semicolons}
    IN  \A k \in 1..Len(words) :
            \/ words[k] \in Assignments \/ k \in ends
            \/ /\ words[k] = "export"
               /\ \E e \in ends : e > k /\ \A j \in (k + 1)..e : words[j] # "export"

\* The flag set of srun: options are dropped wherever they stand, and one
\* without an inline value takes along the next word unless it is an option.
srunArgs(words) ==
    LET n == Len(words)
        args[k \in 1..(n + 1)] ==
            IF k > n THEN <<>>
            ELSE IF words[k] = "--" THEN SubSeq(words, k + 1, n)
            ELSE IF words[k] \notin Options THEN <<words[k]>> \o args[k + 1]
            ELSE IF words[k] \in Inline \/ k = n THEN args[k + 1]
            ELSE IF words[k + 1] \in Options \cup {"--"} THEN args[k + 1] ELSE args[k + 2]
    IN  args[1]

\* Parse returns an error for -h and --help before a "--".
AsksForHelp(words) ==
    \E k \in 1..Len(words) : words[k] \in HelpOptions /\ \A j \in 1..k : words[j] # "--"

\* The line with its srun replaced by the command srun runs.
Replaced(line) ==
    LET k == findCommand(line, "srun")
    IN  IF k = 0 THEN line ELSE SubSeq(line, 1, k - 1) \o srunArgs(SubSeq(line, k + 1, Len(line)))

\* Why SlurmValidateAndReplaceScript refuses a line.
BadSrun(line) ==
    LET k    == findCommand(line, "srun")
        rest == SubSeq(line, k + 1, Len(line))
    IN  /\ k # 0
        /\ \/ line[k] # "srun"
           \/ AsksForHelp(rest) \/ srunArgs(rest) = <<>>
           \/ ~validateEnvVars(SubSeq(line, 1, k - 1))

\* Mutant of Unsupported: wait is missing from notSupportedCommands.
Unsupported_NoWait(line) == \E c \in notSupportedCommands \ {"wait"} : findCommand(Replaced(line), c) # 0

Unsupported(line) == \E c \in notSupportedCommands : findCommand(Replaced(line), c) # 0
=============================================================================
