---------------------------- MODULE MCSlurmInput ----------------------------
(***************************************************************************)
(* Inputs for SlurmInput: every array and every time limit over a small    *)
(* int32, every way three sources can set four kinds of fields, and every  *)
(* script of up to three short lines.  Each group varies one of them.      *)
(***************************************************************************)
EXTENDS SlurmInput

MCEmbedded   == {<<"xwait", "wait">>, <<"xsrun", "srun">>}
MCMentioned  == {<<"'a wait b'", "wait">>, <<"'a srun b'", "srun">>}
MCAssign     == {"A=1"}
MCSemi       == {"A=1;"}
MCOptions    == {"-n", "-q", "--mem=1", "--help"}
MCInline     == {"--mem=1"}
MCHelp       == {"--help"}
MCTakes      == {"-n"}

NoFlags == [f \in Fields |-> ""]
NoEnv   == [v \in {} |-> ""]

Base == [flags |-> NoFlags, env |-> NoEnv, script |-> <<>>, readable |-> TRUE,
         ignoreUnknown |-> FALSE, tasks |-> 1,
         array |-> [v \in {"F", "E", "S", "T"} |-> [kind |-> "list", nums |-> <<1>>]],
         time  |-> [v \in {"F", "E", "S", "T"} |-> [kind |-> "unlimited"]]]

\* Arrays: lists of up to three numbers, ranges with every step and end.
Lists  == UNION {[1..k -> 0..Half] : k \in 1..2} \cup [1..3 -> 0..3]
Arrays == [kind : {"other"}] \cup [kind : {"list"}, nums : Lists]
          \cup [kind : {"range"}, from : 0..Half, to : 0..Half, mark : {"", ":", "%"}, num : {0, 1, 2, 3, Half}]

ArrayInputs ==
    {[Base EXCEPT !.flags = [@ EXCEPT !["array"] = "F"], !.array = [v \in {"F"} |-> a]] : a \in Arrays}

\* Time limits: every format, fields beyond the end of int32 among them.
Times == [kind : {"other", "unlimited"}]
         \cup [kind : {"fields"}, dash : BOOLEAN,
               fields : UNION {[1..k -> {0, 1, 2, 5, Half}] : k \in 0..4}]

TimeInputs ==
    {[Base EXCEPT !.flags = [@ EXCEPT !["time"] = "F"], !.time = [v \in {"F"} |-> t]] : t \in Times}

\* Merging: a text field, an array, a quantity, a number and the two memory
\* sizes of SBATCH_MEM_PER_CPU, from every combination of sources.
Opt(key, val, form) == [key |-> key, val |-> val, form |-> form]
Directive(opts)     == [kind |-> "directive", opts |-> opts, words |-> <<"#SBATCH">>, cont |-> FALSE]
Comment             == [kind |-> "comment", opts |-> <<>>, words |-> <<"#">>, cont |-> FALSE]
Command(words)      == [kind |-> "command", opts |-> <<>>, words |-> words, cont |-> FALSE]

Heads ==
    {<<>>, <<Directive(<<Opt("i", "S", "short")>>)>>,
     <<Comment, Directive(<<Opt("input", "S", "long")>>), Directive(<<Opt("input", "T", "long")>>)>>,
     <<Command(<<"prog">>), Directive(<<Opt("input", "S", "long")>>)>>,
     <<Directive(<<Opt("input", "S", "spaced")>>)>>,
     <<Directive(<<Opt("nodes", "?", "long")>>)>>,
     <<Directive(<<Opt("c", "S", "short")>>)>>,
     <<Directive(<<Opt("mem-per-gpu", "S", "long"), Opt("input", "S", "long")>>)>>,
     <<Directive(<<Opt("mem-per-cpu", "S", "long")>>), Directive(<<Opt("array", "S", "long")>>)>>,
     <<Directive(<<Opt("mem-per-task", "S", "long")>>), Directive(<<Opt("nonesuch", "S", "long")>>),
       Directive(<<Opt("n", "S", "short")>>)>>}

MergeFields == {"input", "array", "memTask", "memGpu"}
MergeEnvs   == {"SBATCH_INPUT", "SBATCH_ARRAY_INX", "SBATCH_MEM_PER_CPU", "SBATCH_MEM_PER_GPU"}

MergeInputs ==
    {[Base EXCEPT !.flags = [f \in Fields |-> IF f \in given THEN "F" ELSE ""], !.env = env,
                  !.script = head, !.ignoreUnknown = ignore] :
        given \in SUBSET MergeFields,
        env \in {[e \in S |-> v] : S \in SUBSET MergeEnvs, v \in {"", "E"}},
        head \in Heads, ignore \in BOOLEAN}

\* Scripts of up to three lines: one of any words, with lines that are joined,
\* blank, plain or a second srun around it.
Vocabulary == {"srun", "wait", "xwait", "xsrun", "prog", "A=1", "A=1;", "export", "&&", "-n", "-q", "--mem=1",
               "--help", "--", "'a wait b'", "'a srun b'"}
Texts     == UNION {[1..k -> Vocabulary] : k \in 1..3}
             \cup [1..4 -> {"srun", "A=1;", "export", "prog", "-n"}]
Line(w, c) == [kind |-> "command", opts |-> <<>>, words |-> w, cont |-> c]
Blank     == [kind |-> "blank", opts |-> <<>>, words |-> <<>>, cont |-> FALSE]
Around    == {Blank, Line(<<"srun", "prog">>, FALSE), Line(<<"srun">>, TRUE), Line(<<"prog">>, TRUE)}

ScriptInputs ==
    {[Base EXCEPT !.script = <<Line(w, FALSE)>>] : w \in Texts}
    \cup {[Base EXCEPT !.script = <<x, Line(w, c), y>>, !.tasks = k] :
             w \in UNION {[1..l -> {"srun", "prog", "A=1", "-n", "wait"}] : l \in 1..2},
             x \in Around, y \in Around, c \in BOOLEAN, k \in {1, 2}}

MCInputs == {{[Base EXCEPT !.readable = FALSE]}, ArrayInputs, TimeInputs, MergeInputs, ScriptInputs}
=============================================================================
