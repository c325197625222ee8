----------------------------- MODULE SlurmInput -----------------------------
(***************************************************************************)
(* What kjobctl create slurm makes of its input: slurmBuilder.parse in     *)
(* pkg/builder/slurm_builder.go merges the flags, the SBATCH_ variables    *)
(* and the #SBATCH lines and reads the array, complete has the script      *)
(* checked and rewritten by SlurmValidateAndReplaceScript, and build makes *)
(* the labels and the script from which each pod takes its array index.    *)
(* The sizes of the job are the subject of SlurmSizing.                    *)
(***************************************************************************)
EXTENDS SlurmScript, ArrayIndexes

CONSTANTS
    Takes,        \* the options of srun that Slurm lets take the next word
    Inputs
(***************************************************************************)
(* The inputs to consider, in groups.  Of each: flags and env, the texts   *)
(* of flags and of SBATCH_ variables that are set; script, its lines, and  *)
(* readable, whether the file can be read; ignoreUnknown, the flag; tasks, *)
(* the number of tasks complete arrived at; array and time, what the texts *)
(* of these two fields mean; a text that is not in them is none the        *)
(* parsers accept.  The text "" is "not given".                            *)
(***************************************************************************)
IsInput(x) ==
    /\ x.flags \in [Fields -> STRING] /\ \A v \in DOMAIN x.env : x.env[v] \in STRING
    /\ x.script \in Seq(ScriptLine) /\ x.readable \in BOOLEAN /\ x.ignoreUnknown \in BOOLEAN
    /\ x.tasks \in Nat
    /\ \A v \in DOMAIN x.array : x.array[v] \in ArrayText
    /\ \A v \in DOMAIN x.time : x.time[v] \in TimeText

ASSUME InputsAssumption == \A group \in Inputs : \A x \in group : IsInput(x)

ASSUME TakesAssumption == Takes \subseteq Options \ Inline

VARIABLES
    in,
    pc,           \* "parse", "envs", "flags", "array", "scan", "label", "built", "failed", "killed"
    b,            \* the fields of the builder
    n, line,      \* the loop of SlurmValidateAndReplaceScript: lines read, words kept
    sruns, out,   \* its srunCount and the lines written
    label         \* the time limit label, 0 for none

vars == <<in, pc, b, n, line, sruns, out, label, text, at, i, indexes>>

lineVars == <<n, line, sruns, out>>

Init ==
    /\ \E group \in Inputs : in \in group
    /\ b = in.flags
    /\ pc = "parse" /\ n = 0 /\ line = <<>> /\ sruns = 0 /\ out = <<>> /\ label = 0
    /\ text = [kind |-> "other"] /\ at = "idle" /\ i = 0 /\ indexes = <<>>

-----------------------------------------------------------------------------
\* The variable getSbatchEnvs reads for a field.
EnvOf ==
    [array  |-> "SBATCH_ARRAY_INX",     gpus |-> "SBATCH_GPUS_PER_TASK", mem |-> "SBATCH_MEM_PER_NODE",
     memTask |-> "SBATCH_MEM_PER_CPU",  memGpu |-> "SBATCH_MEM_PER_GPU", output |-> "SBATCH_OUTPUT",
     error  |-> "SBATCH_ERROR",         input |-> "SBATCH_INPUT",        name |-> "SBATCH_JOB_NAME",
     partition |-> "SBATCH_PARTITION",  time |-> "SBATCH_TIMELIMIT"]

\* The fields the environment decides: not given as a flag, and set.
FromEnv == {f \in DOMAIN EnvOf : b[f] = "" /\ EnvOf[f] \in DOMAIN in.env}

\* os.ReadFile and the templates.
ReadScript ==
    /\ pc = "parse"
    /\ pc' = IF in.readable THEN "envs" ELSE "failed"
    /\ UNCHANGED <<in, b, lineVars, label, arrayVars>>

\* A variable that is set but empty is an error where a quantity is expected
\* and nothing elsewhere.
getSbatchEnvs ==
    /\ pc = "envs"
    /\ \/ /\ \E f \in FromEnv : Bad(f, in.env[EnvOf[f]])
          /\ pc' = "failed" /\ UNCHANGED b
       \/ /\ \A f \in FromEnv : ~Bad(f, in.env[EnvOf[f]])
          /\ pc' = "flags"
          /\ b' = [f \in Fields |-> IF f \in FromEnv THEN in.env[EnvOf[f]] ELSE b[f]]
    /\ UNCHANGED <<in, lineVars, label, arrayVars>>

ArrayOf(v) == IF v \in DOMAIN in.array THEN in.array[v] ELSE [kind |-> "other"]

\* Mutant of replaceScriptFlags: the script wins over flags and environment.
replaceScriptFlags_Overrides ==
    LET read == SlurmFlags(in.script, in.ignoreUnknown)
    IN  /\ pc = "flags"
        /\ \/ read.err /\ pc' = "failed" /\ UNCHANGED <<b, text>>
           \/ /\ ~read.err /\ pc' = "array"
              /\ b' = [f \in Fields |-> IF read.vals[f] # "" THEN read.vals[f] ELSE b[f]]
              /\ text' = IF b'["array"] = "" THEN text ELSE ArrayOf(b'["array"])
        /\ UNCHANGED <<in, lineVars, label, at, i, indexes>>

\* What neither flags nor environment set comes from the script.
replaceScriptFlags ==
    LET read == SlurmFlags(in.script, in.ignoreUnknown)
    IN  /\ pc = "flags"
        /\ \/ read.err /\ pc' = "failed" /\ UNCHANGED <<b, text>>
           \/ /\ ~read.err /\ pc' = "array"
              /\ b' = [f \in Fields |-> IF b[f] = "" THEN read.vals[f] ELSE b[f]]
              /\ text' = IF b'["array"] = "" THEN text ELSE ArrayOf(b'["array"])
        /\ UNCHANGED <<in, lineVars, label, at, i, indexes>>

\* The end of parse: the array, if there is one.
ParseArray ==
    /\ pc = "array"
    /\ IF b["array"] = "" THEN UNCHANGED arrayVars
       ELSE (at = "idle" /\ ParseArrayIndexes) \/ RangeStep
    /\ pc' = IF at' = "refused" THEN "failed" ELSE IF at' = "killed" THEN "killed"
             ELSE IF at' = "loop" THEN pc ELSE "scan"
    /\ UNCHANGED <<in, b, lineVars, label>>

-----------------------------------------------------------------------------
\* Mutant of Joined: the part of a line before its backslash is forgotten.
Joined_DropsFirstPart == in.script[n + 1].words

\* The line read next, behind what is kept of the lines before it.
Joined == line \o in.script[n + 1].words

\* One round of SlurmValidateAndReplaceScript's loop: a line is kept for the
\* next one, written as an empty line, refused, or written with its srun
\* replaced.
ScanLine ==
    /\ pc = "scan" /\ n < Len(in.script)
    /\ n' = n + 1
    /\ \/ /\ in.script[n + 1].cont
          /\ line' = Joined /\ UNCHANGED <<pc, sruns, out>>
       \/ /\ ~in.script[n + 1].cont /\ Joined = <<>>
          /\ out' = Append(out, <<>>) /\ UNCHANGED <<pc, line, sruns>>
       \/ /\ ~in.script[n + 1].cont /\ Joined # <<>>
          /\ (in.tasks > 1 /\ sruns > 0) \/ BadSrun(Joined) \/ Unsupported(Joined)
          /\ pc' = "failed" /\ UNCHANGED <<line, sruns, out>>
       \/ /\ ~in.script[n + 1].cont /\ Joined # <<>>
          /\ ~((in.tasks > 1 /\ sruns > 0) \/ BadSrun(Joined) \/ Unsupported(Joined))
          /\ sruns' = sruns + (IF findCommand(Joined, "srun") # 0 THEN 1 ELSE 0)
          /\ out' = Append(out, Replaced(Joined)) /\ line' = <<>> /\ UNCHANGED pc
    /\ UNCHANGED <<in, b, label, arrayVars>>

\* Its end: a line still waiting for its continuation is dropped.
ScanEnd ==
    /\ pc = "scan" /\ n = Len(in.script)
    /\ pc' = "label"
    /\ UNCHANGED <<in, b, lineVars, label, arrayVars>>

-----------------------------------------------------------------------------
TimeOf(v) ==
    IF v = "" THEN [kind |-> "unset"]
    ELSE IF v \in DOMAIN in.time THEN in.time[v] ELSE [kind |-> "other"]

\* The time limit in withKueueLabels.
BuildLabel ==
    /\ pc = "label"
    /\ LET t == TimeOf(b["time"])
       IN  \/ TimeRefused(t) /\ pc' = "failed" /\ UNCHANGED label
           \/ ~TimeRefused(t) /\ pc' = "built" /\ label' = TimeLabel(t)
    /\ UNCHANGED <<in, b, lineVars, arrayVars>>

\* completion: the number of pods of an array job; the init script of the pod
\* with completion index k takes the (k + 1)-th of the comma separated indexes.
Completions == Len(indexes)
TaskId(k)   == indexes[k + 1]

Done == pc \in {"built", "failed", "killed"} /\ UNCHANGED vars

Next ==
    \/ ReadScript \/ getSbatchEnvs \/ replaceScriptFlags \/ ParseArray
    \/ ScanLine \/ ScanEnd \/ BuildLabel
    \/ Done

Spec == Init /\ [][Next]_vars

-----------------------------------------------------------------------------
(***************************************************************************)
(* Properties.                                                             *)
(***************************************************************************)

\* The table of docs/run_slurm.md: which variable stands for which option.
\* SBATCH_MEM_PER_CPU is left out: the code reads it as --mem-per-task.
Documented ==
    [array  |-> "SBATCH_ARRAY_INX",     gpus |-> "SBATCH_GPUS_PER_TASK", mem |-> "SBATCH_MEM_PER_NODE",
     memGpu |-> "SBATCH_MEM_PER_GPU",   output |-> "SBATCH_OUTPUT",      error |-> "SBATCH_ERROR",
     input  |-> "SBATCH_INPUT",         name |-> "SBATCH_JOB_NAME",
     partition |-> "SBATCH_PARTITION",  time |-> "SBATCH_TIMELIMIT"]

\* The lines of the script before its first command.
Header == {k \in 1..Len(in.script) : \A j \in 1..k : in.script[j].kind # "command"}

\* Each directive holds one option, in a form the parser reads.
PlainDirectives ==
    \A k \in Header : in.script[k].kind = "directive" =>
        Len(in.script[k].opts) = 1 /\ in.script[k].opts[1].form # "spaced"

\* The directives for a field, by the names SlurmFlags knows (slurm.go:94); -c
\* and -D, --chdir of docs/run_slurm.md:29 and :42 are not among them, and so
\* count for no field.
DirectivesFor(f) ==
    {k \in Header : in.script[k].kind = "directive" /\ in.script[k].opts[1].key \in FlagNames[f]}

\* The flag, else the variable, else the last directive.
Promised(f) ==
    IF in.flags[f] # "" THEN in.flags[f]
    ELSE IF f \in DOMAIN Documented /\ Documented[f] \in DOMAIN in.env /\ in.env[Documented[f]] # ""
         THEN in.env[Documented[f]]
    ELSE IF DirectivesFor(f) = {} THEN ""
    ELSE LET last == CHOOSE k \in DirectivesFor(f) : \A j \in DirectivesFor(f) : j <= k
         IN  in.script[last].opts[1].val

\* Flags override the environment and the environment the script, field by
\* field, and the last of several directives counts (parse), for all fields
\* but the two that SBATCH_MEM_PER_CPU is about.
Precedence ==
    (pc = "built" /\ PlainDirectives) =>
        \A f \in Fields \ {"memTask", "memCpu"} : b[f] = Promised(f)

\* Each index the array denotes is the task id of exactly one pod and there
\* are no other pods, unless the loop variable leaves int32; and reading an
\* array only uses up the memory if it does, or if the array is that large
\* (ParseArrayIndexes, completion, the init script).
ArrayAsWritten ==
    /\ (pc = "built" /\ b["array"] # "" /\ NoWrap(text)) =>
           /\ Completions = Cardinality(Denoted(text))
           /\ {TaskId(k) : k \in 0..(Completions - 1)} = Denoted(text)
    /\ pc = "killed" => ~NoWrap(text) \/ Cardinality(Denoted(text)) > Memory

\* A limit that an int32 can hold becomes the label, to the second, in every
\* format; a limit of zero becomes none (TimeLimitToSeconds, withKueueLabels).
TimeAsWritten ==
    LET t == TimeOf(b["time"])
    IN  (pc = "built" /\ t.kind = "fields") => (Meant(t) <= MaxInt => label = Meant(t))

LineEnds == {k \in 1..Len(in.script) : ~in.script[k].cont}

\* The words of the logical line that ends with line e.
Logical(e) ==
    LET first == 1 + Cardinality({k \in 1..e : \E j \in k..(e - 1) : j \in LineEnds})
        gather[k \in (first - 1)..e] ==
            IF k < first THEN <<>> ELSE gather[k - 1] \o in.script[k].words
    IN  gather[e]

\* Where the program of an srun line starts, by Slurm's reading of its options.
Program(words) ==
    LET from[k \in 1..(Len(words) + 2)] ==
            IF k > Len(words) \/ words[k] \notin Options \cup {"--"} THEN k
            ELSE IF words[k] = "--" THEN k + 1
            ELSE IF words[k] \in Takes THEN from[k + 2] ELSE from[k + 1]
    IN  from[1]

\* Lines srun's flag set reads as Slurm does: options that bring a value, and
\* then "--", or a program without options of its own.
Readable(words) ==
    LET p    == Program(words)
        dash == Options \cup {"--"}
    IN  /\ p <= Len(words)
        /\ \A k \in 1..(p - 1) : words[k] \in Options =>
              words[k] \in Inline \/ (words[k] \in Takes /\ words[k + 1] \notin dash)
        /\ \/ p > 1 /\ words[p - 1] = "--"
           \/ \A k \in p..Len(words) : words[k] \notin dash

\* The script the pods run is the one that was written: line for line, joined
\* where a backslash joins, with each srun replaced by its program and the
\* program's arguments; nothing is lost but a last line that ends in a
\* backslash (SlurmValidateAndReplaceScript).
ScriptAsWritten ==
    pc = "built" =>
        /\ Len(out) = Cardinality(LineEnds)
        /\ \A e \in LineEnds :
              LET words == Logical(e)
                  k     == findCommand(words, "srun")
                  rest  == SubSeq(words, k + 1, Len(words))
                  got   == out[Cardinality(LineEnds \cap 1..e)]
              IN  IF k = 0 THEN got = words
                  ELSE Readable(rest) =>
                       got = SubSeq(words, 1, k - 1) \o SubSeq(rest, Program(rest), Len(rest))

\* Of the commands of Slurm that the pods do not have none is left in the
\* script they run, as the program of an srun neither, where findCommand could
\* have seen it: it looks at the first occurrence in a line only, so that one
\* behind a word that contains its name stays.  An srun stays there too, and
\* behind the srun of its line that is replaced: "srun a && srun b" becomes
\* "a && srun b" (SlurmValidateAndReplaceScript, slurm.go:238-273).
NoSlurmCommandLeft ==
    pc = "built" =>
        \A e \in LineEnds :
            LET words     == Logical(e)
                srun      == findCommand(words, "srun")
                got       == out[Cardinality(LineEnds \cap 1..e)]
                Hidden(k) == \E j \in 1..(k - 1) : <<got[j], got[k]>> \in Embedded
                Another   == srun # 0 /\ \E j \in (srun + 1)..Len(words) : words[j] = "srun"
            IN  \A k \in 1..Len(got) :
                    /\ got[k] \in notSupportedCommands => Hidden(k)
                    /\ got[k] = "srun" => Hidden(k) \/ (Another /\ srun <= k)
=============================================================================
