----------------------------- MODULE TimeLimit -----------------------------
(***************************************************************************)
(* The time limit of --time: TimeLimitToSeconds and isValidTimeSpec in     *)
(* pkg/parser/time_limit.go, and the label withKueueLabels makes of it.    *)
(* A text is abstracted to what the scanner tells apart: one of the words  *)
(* for "no limit", a run of numbers with the separators between them, or   *)
(* anything else.  All arithmetic is that of int32.                        *)
(***************************************************************************)
EXTENDS Integers, Sequences

CONSTANTS
    Half,         \* an int32 is a number of -Half..(Half - 1): 2^31 in the code
    Minute,       \* 60 seconds, and 60 minutes in an hour
    HoursPerDay   \* 24

ASSUME TimeAssumption == Half \in Nat \ {0} /\ Minute \in Nat \ {0} /\ HoursPerDay \in Nat \ {0}

MaxInt == Half - 1

\* What an int32 variable holds after a result x was assigned to it.
Wrap(x) == ((x + Half) % (2 * Half)) - Half

Fits(x) == x <= MaxInt

Hour == Minute * Minute
Day  == HoursPerDay * Hour

(***************************************************************************)
(* A time limit as it was written: "unset" (nothing), "unlimited" ("-1",   *)
(* INFINITE, UNLIMITED), "other" (letters, misplaced separators), or       *)
(* "fields": the numbers from left to right, the first of them followed by *)
(* a dash if dash holds and by a colon otherwise.                          *)
(***************************************************************************)
TimeText == [kind : {"unset", "unlimited", "other"}]
            \cup [kind : {"fields"}, dash : BOOLEAN, fields : Seq(Nat)]

\* isValidTimeSpec: a dash is followed by one to three numbers; without one
\* there are one to three numbers in all.
isValidTimeSpec(t) ==
    /\ t.kind = "fields"
    /\ Len(t.fields) \in (IF t.dash THEN 2..4 ELSE 1..3)

\* fmt.Sscanf stops at the first number an int32 cannot hold; the variables
\* it did not reach stay 0.
Scans(t, k) == k <= Len(t.fields) /\ \A j \in 1..k : Fits(t.fields[j])
Scan(t, k)  == IF Scans(t, k) THEN t.fields[k] ELSE 0

\* Mutant of Seconds: two numbers without a dash are hours and minutes.
Seconds_HoursMinutes(t) ==
    IF t.dash
    THEN Wrap(Wrap(Scan(t, 1) * Day) + Wrap(Scan(t, 2) * Hour) + Wrap(Scan(t, 3) * Minute)
              + Scan(t, 4))
    ELSE Wrap(Wrap(Scan(t, 1) * Hour) + Wrap(Scan(t, 2) * Minute) + Scan(t, 3))

\* The sum that TimeLimitToSeconds computes.  Without a dash three numbers
\* are hours, minutes and seconds, and fewer are minutes and seconds.
Seconds(t) ==
    IF t.dash
    THEN Wrap(Wrap(Scan(t, 1) * Day) + Wrap(Scan(t, 2) * Hour) + Wrap(Scan(t, 3) * Minute)
              + Scan(t, 4))
    ELSE IF Scans(t, 3)
         THEN Wrap(Wrap(Scan(t, 1) * Hour) + Wrap(Scan(t, 2) * Minute) + Scan(t, 3))
         ELSE Wrap(Wrap(Scan(t, 1) * Minute) + Scan(t, 2))

\* The refusal of withKueueLabels.
TimeRefused(t) == t.kind \notin {"unset", "unlimited"} /\ ~isValidTimeSpec(t)

\* TimeLimitToSeconds returns nil or a number, and withKueueLabels writes the
\* label for a positive one only; 0 stands for an object without the label.
TimeLabel(t) ==
    IF t.kind # "fields" \/ Seconds(t) <= 0 THEN 0 ELSE Seconds(t)

-----------------------------------------------------------------------------
\* What a text of one of the six formats means: the seconds, in unbounded
\* arithmetic, that Slurm gives it.
Weights(t) ==
    IF t.dash THEN SubSeq(<<Day, Hour, Minute, 1>>, 1, Len(t.fields))
    ELSE IF Len(t.fields) = 3 THEN <<Hour, Minute, 1>> ELSE SubSeq(<<Minute, 1>>, 1, Len(t.fields))

Meant(t) ==
    LET part(k) == IF k <= Len(t.fields) THEN t.fields[k] * Weights(t)[k] ELSE 0
    IN  part(1) + part(2) + part(3) + part(4)
=============================================================================
