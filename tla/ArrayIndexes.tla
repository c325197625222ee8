---------------------------- MODULE ArrayIndexes ----------------------------
(***************************************************************************)
(* The array of a Slurm job: ParseArrayIndexes in                          *)
(* pkg/parser/array_indexes.go.  The loop of parseRangeIndexes is kept as  *)
(* steps, because its int32 variable may wrap around and never pass the    *)
(* end of the range: the process then appends until its memory is used up. *)
(***************************************************************************)
EXTENDS Integers, Sequences, FiniteSets, TimeLimit

CONSTANT Memory   \* how many indexes the process can hold

ASSUME MemoryAssumption == Memory \in Nat \ {0}

VARIABLES
    text,         \* the array as it was written
    at,           \* "idle", "loop", "done", "refused" or "killed"
    i,            \* the loop variable
    indexes       \* the indexes appended so far

arrayVars == <<text, at, i, indexes>>

(***************************************************************************)
(* An array as it was written: a comma separated list of numbers (one      *)
(* number is a list), a range with an optional step ":" or limit "%", or   *)
(* anything else.                                                          *)
(***************************************************************************)
ArrayText == [kind : {"other"}] \cup [kind : {"list"}, nums : Seq(Nat)]
             \cup [kind : {"range"}, from : Nat, to : Nat, mark : {"", ":", "%"}, num : Nat]

\* commaIndexesRegex and rangeIndexesRegex: only the first number of a list
\* and the start of a range may begin with a zero.
ListMatches(t)  == t.kind = "list" /\ \A k \in 2..Len(t.nums) : t.nums[k] > 0
RangeMatches(t) == t.kind = "range" /\ t.to > 0 /\ (t.mark # "" => t.num > 0)

\* parseCommaSeparatedIndexes: every number fits, and they increase.
ListOK(t) ==
    /\ \A k \in 1..Len(t.nums) : Fits(t.nums[k])
    /\ \A k \in 2..Len(t.nums) : t.nums[k - 1] < t.nums[k]

\* parseRangeIndexes before its loop.
RangeOK(t) == (t.mark = "" \/ Fits(t.num)) /\ Fits(t.from) /\ Fits(t.to) /\ t.from <= t.to

Step(t) == IF t.mark = ":" THEN t.num ELSE 1

\* slices.Sort: at place k stands the number that has fewer than k smaller ones
\* and at least k that are not greater.
Sorted(s) ==
    LET Less(v)   == Cardinality({j \in DOMAIN s : s[j] < v})
        NoMore(v) == Cardinality({j \in DOMAIN s : s[j] <= v})
    IN  [k \in DOMAIN s |-> CHOOSE v \in {s[j] : j \in DOMAIN s} : Less(v) < k /\ k <= NoMore(v)]

\* ParseArrayIndexes up to the loop.
ParseArrayIndexes ==
    /\ \/ /\ ListMatches(text) /\ ListOK(text)
          /\ at' = "done" /\ indexes' = Sorted(text.nums) /\ UNCHANGED i
       \/ /\ RangeMatches(text) /\ RangeOK(text)
          /\ at' = "loop" /\ i' = text.from /\ UNCHANGED indexes
       \/ /\ ~(ListMatches(text) /\ ListOK(text)) /\ ~(RangeMatches(text) /\ RangeOK(text))
          /\ at' = "refused" /\ UNCHANGED <<i, indexes>>
    /\ UNCHANGED text

\* Mutant of RangeStep: the end of the range is left out.
RangeStep_HalfOpen ==
    /\ at = "loop"
    /\ \/ /\ i < text.to /\ Len(indexes) < Memory
          /\ indexes' = Append(indexes, i) /\ i' = Wrap(i + Step(text)) /\ UNCHANGED at
       \/ /\ i < text.to /\ Len(indexes) = Memory
          /\ at' = "killed" /\ UNCHANGED <<i, indexes>>
       \/ /\ i >= text.to
          /\ at' = "done" /\ indexes' = Sorted(indexes) /\ UNCHANGED i
    /\ UNCHANGED text

\* One test of the loop's condition and what follows it: the body, death for
\* want of memory, or the sort after the loop.
RangeStep ==
    /\ at = "loop"
    /\ \/ /\ i <= text.to /\ Len(indexes) < Memory
          /\ indexes' = Append(indexes, i) /\ i' = Wrap(i + Step(text)) /\ UNCHANGED at
       \/ /\ i <= text.to /\ Len(indexes) = Memory
          /\ at' = "killed" /\ UNCHANGED <<i, indexes>>
       \/ /\ i > text.to
          /\ at' = "done" /\ indexes' = Sorted(indexes) /\ UNCHANGED i
    /\ UNCHANGED text

-----------------------------------------------------------------------------
\* The indexes a well-formed text stands for.
Denoted(t) ==
    IF t.kind = "list" THEN {t.nums[k] : k \in 1..Len(t.nums)}
    ELSE {n \in t.from..t.to : (n - t.from) % Step(t) = 0}

\* The loop variable of a range stays inside int32.
NoWrap(t) == t.kind = "range" => t.to + Step(t) <= MaxInt
=============================================================================
