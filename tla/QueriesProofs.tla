--------------------------- MODULE QueriesProofs ---------------------------
(***************************************************************************)
(* The safety of list, describe and completion, for any objects, command   *)
(* lines, page sizes and any number of changes by other clients.           *)
(***************************************************************************)
EXTENDS Queries, FiniteSetTheorems, FunctionTheorems, SequenceTheorems, TLAPS

-----------------------------------------------------------------------------
(***************************************************************************)
(* Where the commands are, and what the cluster holds.                     *)
(***************************************************************************)

\* Each command has steps of its own.
StepsOf(verb) ==
    CASE verb = "list"     -> {"start", "list", "more"}
      [] verb = "describe" -> {"start", "find", "maps", "describe"}
      [] verb = "complete" -> {"suggest"}
      [] OTHER             -> {"start"}

\* The cluster is finite, what was there all the time is there, and a command
\* that has not ended is at one of its steps and has shown nothing unless it
\* is describing.
BaseInv ==
    /\ q \in Queries
    /\ objs \subseteq Objects /\ IsFiniteSet(objs) /\ stable \subseteq objs
    /\ ~Ended => pc \in StepsOf(q.verb)
    /\ ~Ended /\ q.verb # "describe" => shown = <<>>

\* The cluster only changes when the command does not step.
LEMMA BaseInvariant == Spec => []BaseInv
  <1>1. Init => BaseInv
    BY QueriesAssumption DEF Init, BaseInv, Ended, StepsOf
  <1>2. BaseInv /\ [Next]_vars => BaseInv'
    <2> SUFFICES ASSUME BaseInv, [Next]_vars PROVE BaseInv'
      OBVIOUS
    <2> USE DEF BaseInv, Ended, StepsOf, clusterVars
    <2>1. CASE Complete
      BY <2>1 DEF Complete
    <2>2. ASSUME NEW cmd, NEW class, RunList(cmd, class) PROVE BaseInv'
      <3>1. pc \in {"list", "more"} /\ UNCHANGED <<q, objs, stable>>
        BY <2>2 DEF RunList
      <3>2. q.verb = "list"
        BY <3>1
      <3>3. pc' \in {"error", "ok"} \/ (pc' = "more" /\ shown' = shown)
        BY <2>2 DEF RunList
      <3> QED
        BY <3>1, <3>2, <3>3
    <2>3. CASE CompleteDescribe
      BY <2>3 DEF CompleteDescribe
    <2>4. CASE Find
      BY <2>4 DEF Find
    <2>5. CASE getConfigMaps
      BY <2>5 DEF getConfigMaps
    <2>6. CASE DescribeNext
      BY <2>6 DEF DescribeNext
    <2>7. CASE DescribeEnd
      BY <2>7 DEF DescribeEnd
    <2>8. CASE Suggest
      BY <2>8 DEF Suggest, NamesFunc, JobNameFunc, PodNameFunc, RayJobNameFunc, RayClusterNameFunc,
                  ApplicationProfileNameFunc, LocalQueueNameFunc
    <2>9. CASE Change
      <3>1. PICK o \in Objects : objs' = (IF o \in objs THEN objs \ {o} ELSE objs \cup {o}) /\ stable' = stable \ {o}
        BY <2>9 DEF Change
      <3>2. IsFiniteSet(objs')
        BY <3>1, FS_AddElement, FS_RemoveElement
      <3>3. objs' \subseteq Objects /\ stable' \subseteq objs'
        BY <3>1
      <3> QED
        BY <2>9, <3>2, <3>3 DEF Change
    <2>10. CASE Done \/ UNCHANGED vars
      BY <2>10 DEF Done, vars
    <2> QED
      BY <2>1, <2>2, <2>3, <2>4, <2>5, <2>6, <2>7, <2>8, <2>9, <2>10
         DEF Next, ListJob, ListSlurm, ListInteractive, ListRayJob, ListRayCluster
  <1> QED
    BY <1>1, <1>2, PTL DEF Spec

-----------------------------------------------------------------------------
(***************************************************************************)
(* list.                                                                   *)
(***************************************************************************)

\* The table of the objects in S: a header and each object once.
TableOf(t, S) ==
    IF S = {} THEN t = <<>>
    ELSE /\ t \in Seq(Objects \cup {Header}) /\ Len(t) > 0 /\ t[1] = Header
         /\ \A k \in 2..Len(t) : t[k] \in S
         /\ \A o \in S : \E k \in 2..Len(t) : t[k] = o
         /\ \A j, k \in 2..Len(t) : j # k => t[j] # t[k]

\* A page is a sequence of different objects.
LEMMA PageType ==
  ASSUME q.limit \in Int, NEW rest, IsFiniteSet(rest), NEW page \in Pages(rest)
  PROVE  /\ page \in Seq(rest) /\ Returned(page) = {page[k] : k \in 1..Len(page)}
         /\ \A j, k \in 1..Len(page) : j # k => page[j] # page[k]
  <1> DEFINE size == IF q.limit <= 0 \/ Cardinality(rest) < q.limit THEN Cardinality(rest) ELSE q.limit
  <1>1. size \in Nat
    BY FS_CardinalityType
  <1>2. page \in [1..size -> rest] /\ \A j, k \in 1..size : j # k => page[j] # page[k]
    BY DEF Pages
  <1>3. page \in Seq(rest) /\ Len(page) = size
    BY <1>1, <1>2
  <1> QED
    BY <1>2, <1>3 DEF Returned

\* A page added to a table that holds none of its objects gives a table.
LEMMA TableGrows ==
  ASSUME q.limit \in Int, NEW S \in SUBSET Objects, NEW rest \in SUBSET Objects, IsFiniteSet(rest),
         S \cap rest = {}, TableOf(buffer, S), NEW page \in Pages(rest)
  PROVE  TableOf(buffer \o Table(page), S \cup Returned(page))
  <1>1. /\ page \in Seq(Objects \cup {Header}) /\ Returned(page) = {page[k] : k \in 1..Len(page)}
        /\ \A k \in 1..Len(page) : page[k] \in rest
        /\ \A j, k \in 1..Len(page) : j # k => page[j] # page[k]
    BY PageType
  <1>2. CASE Len(page) = 0
    <2>1. page = <<>> /\ Returned(page) = {}
      BY <1>1, <1>2
    <2>2. Table(page) = <<>>
      BY <2>1 DEF Table
    <2>3. buffer \o <<>> = buffer
      BY DEF TableOf
    <2> QED
      BY <2>1, <2>2, <2>3
  <1>3. CASE Len(page) > 0 /\ S = {}
    <2>1. buffer = <<>> /\ page # <<>> /\ Table(page) = <<Header>> \o page
      BY <1>3 DEF TableOf, Table
    <2> DEFINE t == <<Header>> \o page
    <2>2. t \in Seq(Objects \cup {Header}) /\ Len(t) = Len(page) + 1 /\ t[1] = Header
            /\ \A k \in 1..Len(page) : t[k + 1] = page[k]
      BY <1>1
    <2>3. buffer \o Table(page) = t
      BY <2>1, <2>2
    <2> HIDE DEF t
    <2>4. \A k \in 2..Len(t) : k - 1 \in 1..Len(page) /\ t[k] = page[k - 1]
      <3> SUFFICES ASSUME NEW k \in 2..Len(t) PROVE k - 1 \in 1..Len(page) /\ t[k] = page[k - 1]
        OBVIOUS
      <3>1. k - 1 \in 1..Len(page) /\ (k - 1) + 1 = k
        BY <2>2, <1>1
      <3> QED
        BY <2>2, <3>1
    <2>5. TableOf(t, Returned(page))
      <3>1. Returned(page) # {}
        <4>1. 1 \in 1..Len(page)
          BY <1>1, <1>3
        <4>2. page[1] \in Returned(page)
          BY <4>1, <1>1
        <4> QED
          BY <4>2
      <3>2. \A k \in 2..Len(t) : t[k] \in Returned(page)
        BY <1>1, <2>4
      <3>3. \A o \in Returned(page) : \E k \in 2..Len(t) : t[k] = o
        <4> SUFFICES ASSUME NEW o \in Returned(page) PROVE \E k \in 2..Len(t) : t[k] = o
          OBVIOUS
        <4>1. PICK k \in 1..Len(page) : page[k] = o
          BY <1>1
        <4>2. k + 1 \in 2..Len(t) /\ t[k + 1] = o
          BY <2>2, <4>1, <1>1
        <4> QED
          BY <4>2
      <3>4. \A j, k \in 2..Len(t) : j # k => t[j] # t[k]
        <4> SUFFICES ASSUME NEW j \in 2..Len(t), NEW k \in 2..Len(t), j # k PROVE t[j] # t[k]
          OBVIOUS
        <4>1. j - 1 # k - 1
          OBVIOUS
        <4> QED
          BY <4>1, <2>4, <1>1
      <3>5. Len(t) > 0
        BY <2>2, <1>1
      <3> QED
        BY <2>2, <3>1, <3>2, <3>3, <3>4, <3>5 DEF TableOf
    <2> QED
      BY <1>3, <2>3, <2>5
  <1>4. CASE Len(page) > 0 /\ S # {}
    <2>1. /\ buffer \in Seq(Objects \cup {Header}) /\ Len(buffer) > 0 /\ buffer[1] = Header
          /\ \A k \in 2..Len(buffer) : buffer[k] \in S
          /\ \A o \in S : \E k \in 2..Len(buffer) : buffer[k] = o
          /\ \A j, k \in 2..Len(buffer) : j # k => buffer[j] # buffer[k]
      BY <1>4 DEF TableOf
    <2>2. buffer # <<>> /\ Table(page) = page
      <3>1. buffer # <<>>
        BY <2>1
      <3>2. <<>> \o page = page
        BY <1>1
      <3> QED
        BY <3>1, <3>2 DEF Table
    <2> DEFINE t == buffer \o page
               n == Len(buffer)
    <2>3. /\ n \in Nat /\ Len(page) \in Nat /\ t \in Seq(Objects \cup {Header}) /\ Len(t) = n + Len(page)
          /\ \A k \in 1..n : t[k] = buffer[k]
          /\ \A k \in 1..Len(page) : t[n + k] = page[k]
      BY <1>1, <2>1
    <2> HIDE DEF t, n
    <2>4. \A k \in (n + 1)..Len(t) : k - n \in 1..Len(page) /\ t[k] = page[k - n]
      <3> SUFFICES ASSUME NEW k \in (n + 1)..Len(t) PROVE k - n \in 1..Len(page) /\ t[k] = page[k - n]
        OBVIOUS
      <3>1. k - n \in 1..Len(page) /\ n + (k - n) = k
        BY <2>3
      <3> QED
        BY <2>3, <3>1
    <2>5. \A k \in 2..Len(t) : (k \in 2..n /\ t[k] \in S) \/ (k \in (n + 1)..Len(t) /\ t[k] \in rest)
      <3> SUFFICES ASSUME NEW k \in 2..Len(t)
                   PROVE (k \in 2..n /\ t[k] \in S) \/ (k \in (n + 1)..Len(t) /\ t[k] \in rest)
        OBVIOUS
      <3>1. CASE k <= n
        <4>1. k \in 2..n /\ k \in 1..n
          BY <2>3, <3>1
        <4>2. t[k] = buffer[k]
          BY <2>3, <4>1
        <4>3. buffer[k] \in S
          BY <2>1, <4>1 DEF n
        <4> QED
          BY <4>1, <4>2, <4>3
      <3>2. CASE ~ (k <= n)
        <4>1. k \in (n + 1)..Len(t)
          BY <2>3, <3>2
        <4> QED
          BY <4>1, <2>4, <1>1
      <3> QED
        BY <3>1, <3>2
    <2>6. \A k \in 2..Len(t) : t[k] \in S \cup Returned(page)
      BY <2>4, <2>5, <1>1
    <2>7. ASSUME NEW o \in S \cup Returned(page) PROVE \E k \in 2..Len(t) : t[k] = o
      <3>1. CASE o \in S
        <4>1. PICK k \in 2..n : buffer[k] = o
          BY <2>1, <3>1 DEF n
        <4>2. k \in 2..Len(t) /\ t[k] = o
          BY <2>3, <4>1
        <4> QED
          BY <4>2
      <3>2. CASE o \in Returned(page)
        <4>1. PICK k \in 1..Len(page) : page[k] = o
          BY <1>1, <3>2
        <4>2. n + k \in 2..Len(t) /\ t[n + k] = o
          BY <2>1, <2>3, <4>1 DEF n
        <4> QED
          BY <4>2
      <3> QED
        BY <3>1, <3>2
    <2>8. ASSUME NEW j \in 2..Len(t), NEW k \in 2..Len(t), j # k PROVE t[j] # t[k]
      <3>1. CASE j \in 2..n /\ k \in 2..n
        BY <2>1, <2>3, <2>8, <3>1 DEF n
      <3>2. CASE j \in (n + 1)..Len(t) /\ k \in (n + 1)..Len(t)
        <4>1. j - n # k - n
          BY <2>3, <2>8
        <4> QED
          BY <4>1, <2>4, <3>2, <1>1
      <3>3. CASE (t[j] \in S /\ t[k] \in rest) \/ (t[j] \in rest /\ t[k] \in S)
        BY <3>3
      <3> QED
        BY <2>5, <3>1, <3>2, <3>3
    <2>9. t[1] = Header /\ Len(t) > 0
      BY <2>1, <2>3 DEF n
    <2>10. TableOf(t, S \cup Returned(page))
      BY <1>4, <2>3, <2>6, <2>7, <2>8, <2>9 DEF TableOf
    <2> QED
      BY <2>2, <2>10 DEF t
  <1> QED
    BY <1>1, <1>2, <1>3, <1>4

\* What a list has buffered is the table of the objects it has been given so
\* far, what it has shown the table of all of them, and with an error it has
\* shown nothing.
ListInv ==
    q.verb = "list" =>
        /\ pc \in {"start", "list"} => buffer = <<>>
        /\ pc = "more" => /\ matched \subseteq Objects /\ IsFiniteSet(matched) /\ left \subseteq matched
                          /\ TableOf(buffer, matched \ left)
        /\ pc = "ok" => matched \subseteq Objects /\ IsFiniteSet(matched) /\ TableOf(shown, matched)
        /\ pc = "error" => shown = <<>>

\* A round of a list keeps its table.
LEMMA ListRound ==
  ASSUME BaseInv, ListInv, NEW cmd, NEW class \in SUBSET objs, RunList(cmd, class)
  PROVE  ListInv'
  <1>1. pc \in {"list", "more"} /\ q.verb = "list" /\ q' = q /\ q.limit \in Int /\ shown = <<>>
    BY QueriesAssumption DEF RunList, BaseInv, Ended, StepsOf
  <1>2. CASE pc' = "error" /\ UNCHANGED <<matched, left, tail, buffer, shown>>
    BY <1>1, <1>2 DEF ListInv
  <1> DEFINE rest == IF pc = "list" THEN {o \in class : ListSelects(o)} ELSE left
             S    == IF pc = "list" THEN {} ELSE matched \ left
  <1>3. ASSUME NEW page \in Pages(rest),
               matched' = IF pc = "list" THEN rest ELSE matched,
               left' = rest \ Returned(page), buffer' = buffer \o Table(page),
               \/ (left' # {} \/ tail) /\ pc' = "more"
               \/ left' = {} /\ pc' = "ok" /\ shown' = buffer'
        PROVE  ListInv'
    <2>1. /\ rest \in SUBSET Objects /\ IsFiniteSet(rest) /\ S \in SUBSET Objects /\ S \cap rest = {}
          /\ matched' \subseteq Objects /\ IsFiniteSet(matched') /\ rest \subseteq matched' /\ S = matched' \ rest
          /\ TableOf(buffer, S)
      <3>1. CASE pc = "list"
        <4>1. rest \subseteq objs
          BY <3>1
        <4>2. rest \in SUBSET Objects /\ IsFiniteSet(rest)
          BY <4>1, FS_Subset DEF BaseInv
        <4> HIDE DEF rest
        <4>3. matched' = rest /\ S = {} /\ buffer = <<>>
          BY <1>1, <1>3, <3>1 DEF ListInv
        <4> QED
          BY <4>2, <4>3 DEF TableOf
      <3>2. CASE pc = "more"
        <4>1. rest = left /\ S = matched \ left /\ matched' = matched
          BY <1>3, <3>2
        <4>2. matched \subseteq Objects /\ IsFiniteSet(matched) /\ left \subseteq matched /\ TableOf(buffer, matched \ left)
          BY <1>1, <3>2 DEF ListInv
        <4>3. IsFiniteSet(left)
          BY <4>2, FS_Subset
        <4> HIDE DEF rest, S
        <4> QED
          BY <4>1, <4>2, <4>3
      <3> QED
        BY <1>1, <3>1, <3>2
    <2> HIDE DEF rest, S
    <2>2. TableOf(buffer', S \cup Returned(page))
      BY <1>1, <1>3, <2>1, TableGrows
    <2>3. Returned(page) \subseteq rest
      BY <1>1, <2>1, PageType
    <2>4. S \cup Returned(page) = matched' \ left'
      BY <1>3, <2>1, <2>3
    <2>5. left' \subseteq matched'
      BY <1>3, <2>1
    <2>6. TableOf(buffer', matched' \ left')
      BY <2>2, <2>4
    <2>7. TableOf(buffer, matched \ left)'
      BY <2>6 DEF TableOf
    <2>8. CASE pc' = "more"
      BY <1>1, <2>1, <2>5, <2>7, <2>8 DEF ListInv
    <2>9. CASE left' = {} /\ pc' = "ok" /\ shown' = buffer'
      <3>1. TableOf(shown', matched')
        BY <2>6, <2>9
      <3>2. TableOf(shown, matched)'
        BY <3>1 DEF TableOf
      <3> QED
        BY <1>1, <2>1, <2>9, <3>2 DEF ListInv
    <2> QED
      BY <1>3, <2>8, <2>9
  <1> QED
    BY <1>2, <1>3 DEF RunList

\* The same for the other steps, which are not those of a list that is under
\* way.
LEMMA ListInvariant == Spec => []ListInv
  <1>1. Init => ListInv
    BY DEF Init, ListInv
  <1>2. BaseInv /\ ListInv /\ [Next]_vars => ListInv'
    <2> SUFFICES ASSUME BaseInv, ListInv, [Next]_vars PROVE ListInv'
      OBVIOUS
    <2>1. CASE Complete
      <3>1. pc' \in {"error", "list"} /\ UNCHANGED <<q, buffer, shown>> /\ pc = "start"
        BY <2>1 DEF Complete
      <3>2. pc' = "error" /\ q.verb = "list" => shown = <<>>
        BY <3>1 DEF BaseInv, Ended
      <3> QED
        BY <3>1, <3>2 DEF ListInv
    <2>2. CASE ListJob \/ ListSlurm \/ ListInteractive \/ ListRayJob \/ ListRayCluster
      <3>1. \A kind, mode : Class(kind, mode) \in SUBSET objs
        BY DEF Class
      <3> QED
        BY <2>2, <3>1, ListRound DEF ListJob, ListSlurm, ListInteractive, ListRayJob, ListRayCluster
    <2>3. CASE q.verb # "list" /\ q' = q
      BY <2>3 DEF ListInv
    <2>4. CASE CompleteDescribe
      BY <2>3, <2>4 DEF CompleteDescribe
    <2>5. CASE Find
      BY <2>3, <2>5 DEF Find, BaseInv, Ended, StepsOf
    <2>6. CASE getConfigMaps
      BY <2>3, <2>6 DEF getConfigMaps, BaseInv, Ended, StepsOf
    <2>7. CASE DescribeNext
      BY <2>3, <2>7 DEF DescribeNext, BaseInv, Ended, StepsOf
    <2>8. CASE DescribeEnd
      BY <2>3, <2>8 DEF DescribeEnd, BaseInv, Ended, StepsOf
    <2>9. CASE Suggest
      <3>1. pc = "suggest" /\ q' = q
        BY <2>9 DEF Suggest, NamesFunc, JobNameFunc, PodNameFunc, RayJobNameFunc, RayClusterNameFunc,
                    ApplicationProfileNameFunc, LocalQueueNameFunc
      <3>2. q.verb # "list"
        BY <3>1 DEF BaseInv, Ended, StepsOf
      <3> QED
        BY <2>3, <3>1, <3>2
    <2>10. CASE Change
      BY <2>10 DEF Change, ListInv, TableOf
    <2>11. CASE Done \/ UNCHANGED vars
      BY <2>11 DEF Done, vars, ListInv, TableOf
    <2> QED
      BY <2>1, <2>2, <2>4, <2>5, <2>6, <2>7, <2>8, <2>9, <2>10, <2>11 DEF Next
  <1> QED
    BY <1>1, <1>2, BaseInvariant, PTL DEF Spec

\* A table of a finite set has as many rows below its header as the set has
\* members.
LEMMA TableRows ==
  ASSUME NEW t, NEW S \in SUBSET Objects, IsFiniteSet(S), S # {}, TableOf(t, S)
  PROVE  t[1] = Header /\ Len(t) = 1 + Cardinality(S) /\ {t[k] : k \in 2..Len(t)} = S
  <1>1. /\ t \in Seq(Objects \cup {Header}) /\ Len(t) > 0 /\ t[1] = Header
        /\ \A k \in 2..Len(t) : t[k] \in S
        /\ \A o \in S : \E k \in 2..Len(t) : t[k] = o
        /\ \A j, k \in 2..Len(t) : j # k => t[j] # t[k]
    BY DEF TableOf
  <1> DEFINE f == [k \in 2..Len(t) |-> t[k]]
  <1>2. f \in Bijection(2..Len(t), S)
    <2>1. f \in [2..Len(t) -> S]
      BY <1>1
    <2>2. \A j, k \in 2..Len(t) : f[j] = f[k] => j = k
      BY <1>1
    <2>3. \A o \in S : \E k \in 2..Len(t) : f[k] = o
      BY <1>1
    <2> HIDE DEF f
    <2> QED
      BY <2>1, <2>2, <2>3, Fun_IsBij
  <1>3. Len(t) \in Int /\ Len(t) >= 1
    BY <1>1
  <1>4. IsFiniteSet(2..Len(t)) /\ Cardinality(2..Len(t)) = Len(t) - 1
    BY <1>3, FS_Interval
  <1>5. ExistsBijection(2..Len(t), S)
    BY <1>2 DEF ExistsBijection
  <1>6. Cardinality(S) = Len(t) - 1
    BY <1>4, <1>5, FS_Bijection
  <1> QED
    BY <1>1, <1>3, <1>6

\* A list that succeeds shows a header and every object that matched, each
\* once, and one that fails or finds none shows nothing, for every page size,
\* every cut into pages and any changes meanwhile (Run of the list commands).
THEOREM ListShowsAll == Spec => []ListExact
  <1>1. ListInv => ListExact
    <2> SUFFICES ASSUME ListInv, Ended, q.verb = "list" PROVE
          IF pc = "error" \/ matched = {} THEN shown = <<>>
          ELSE /\ shown[1] = Header /\ Len(shown) = 1 + Cardinality(matched)
               /\ {shown[k] : k \in 2..Len(shown)} = matched
      BY DEF ListExact
    <2>1. CASE pc = "error"
      BY <2>1 DEF ListInv
    <2>2. CASE pc = "ok" /\ matched = {}
      BY <2>2 DEF ListInv, TableOf
    <2>3. CASE pc = "ok" /\ matched # {}
      <3>1. matched \in SUBSET Objects /\ IsFiniteSet(matched) /\ TableOf(shown, matched)
        BY <2>3 DEF ListInv
      <3> QED
        BY <2>3, <3>1, TableRows
    <2> QED
      BY <2>1, <2>2, <2>3 DEF Ended
  <1> QED
    BY <1>1, ListInvariant, PTL

-----------------------------------------------------------------------------
(***************************************************************************)
(* describe.                                                               *)
(***************************************************************************)

\* What describe asks the API server for, first and in all.
Found  == {o \in Objects : DescribeSelects(o)}
Wanted == Found \cup {o \in Objects : q.cmd = "slurm" /\ MapSelects(o)}

\* What is still to be described and what has been.
Kept == infos \cup {shown[k] : k \in 1..Len(shown)}

\* The objects of s are different and ordered by name, and those in rest have
\* to come after them.
InOrder(s, rest) ==
    /\ \A j, k \in 1..Len(s) : j < k => s[j].name <= s[k].name /\ s[j] # s[k]
    /\ \A k \in 1..Len(s), o \in rest : s[k].name <= o.name /\ s[k] # o

\* Describe shows what it asked for, by name and no object twice; what comes
\* later has no smaller name; and nothing that was there all the time is lost.
DescribeInv ==
    q.verb = "describe" =>
        /\ infos \subseteq Wanted /\ shown \in Seq(Wanted) /\ errs \in BOOLEAN
        /\ InOrder(shown, infos)
        /\ pc \in {"start", "find", "maps"} => shown = <<>>
        /\ pc = "maps" => q.cmd = "slurm" /\ stable \cap Found \subseteq infos
        /\ pc \in {"describe", "ok"} /\ errs = FALSE => \A o \in stable \cap Wanted : o.profile # "" => o \in Kept
        /\ pc = "ok" => infos = {} /\ errs = FALSE

\* What is asked for depends on the command line alone.
LEMMA SelectorsFixed ==
  ASSUME q' = q
  PROVE  Found' = Found /\ Wanted' = Wanted
  BY DEF Found, Wanted, DescribeSelects, MapSelects, InNamespace, Matches, Kind

\* Before anything is shown any order will do.
LEMMA NothingShown == \A rest : InOrder(<<>>, rest)
  BY DEF InOrder

\* One object more is shown, or passed over, or lost to an error.
LEMMA DescribeRound == BaseInv /\ DescribeInv /\ DescribeNext => DescribeInv'
  <1> SUFFICES ASSUME BaseInv, DescribeInv, DescribeNext PROVE DescribeInv'
    OBVIOUS
  <1>1. q.verb = "describe" /\ q' = q /\ pc = "describe" /\ pc' = pc /\ stable' = stable
    BY DEF DescribeNext, BaseInv, Ended, StepsOf, clusterVars
  <1>2. PICK o \in First :
          /\ infos' = infos \ {o}
          /\ \/ o.profile = "" /\ UNCHANGED <<shown, errs>>
             \/ o.profile # "" /\ shown' = Append(shown, o) /\ UNCHANGED errs
             \/ o.profile # "" /\ errs' = TRUE /\ UNCHANGED shown
    BY DEF DescribeNext
  <1>3. o \in infos /\ \A p \in infos : o.name <= p.name
    BY <1>2 DEF First
  <1>4. /\ infos \subseteq Wanted /\ shown \in Seq(Wanted) /\ errs \in BOOLEAN
        /\ InOrder(shown, infos)
        /\ errs = FALSE => \A p \in stable \cap Wanted : p.profile # "" => p \in Kept
    BY <1>1 DEF DescribeInv
  <1>5. Wanted' = Wanted
    BY <1>1, SelectorsFixed
  <1>6. CASE UNCHANGED shown /\ (errs' = TRUE \/ (o.profile = "" /\ errs' = errs))
    <2>1. errs' = FALSE => \A p \in stable \cap Wanted : p.profile # "" => p \in Kept'
      BY <1>2, <1>4, <1>6 DEF Kept
    <2>2. InOrder(shown', infos')
      BY <1>2, <1>4, <1>6 DEF InOrder
    <2> QED
      BY <1>1, <1>2, <1>4, <1>5, <1>6, <2>1, <2>2 DEF DescribeInv
  <1>7. CASE shown' = Append(shown, o) /\ errs' = errs
    <2> DEFINE n == Len(shown)
    <2>1. /\ n \in Nat /\ shown' \in Seq(Wanted) /\ Len(shown') = n + 1 /\ shown'[n + 1] = o
          /\ \A k \in 1..n : shown'[k] = shown[k]
      <3>1. o \in Wanted /\ shown \in Seq(Wanted)
        BY <1>3, <1>4
      <3> QED
        BY <1>7, <3>1, AppendProperties
    <2> HIDE DEF n
    <2>2. \A k \in 1..Len(shown') : (k \in 1..n /\ shown'[k] = shown[k]) \/ (k = n + 1 /\ shown'[k] = o)
      BY <2>1
    <2>5. ASSUME NEW j \in 1..Len(shown'), NEW k \in 1..Len(shown'), j < k
          PROVE  shown'[j].name <= shown'[k].name /\ shown'[j] # shown'[k]
      <3>1. j \in 1..n /\ shown'[j] = shown[j]
        BY <2>1, <2>5
      <3>2. CASE k \in 1..n
        BY <1>4, <2>1, <2>5, <3>1, <3>2 DEF n, InOrder
      <3>3. CASE shown'[k] = o
        BY <1>3, <1>4, <3>1, <3>3 DEF n, InOrder
      <3> QED
        BY <2>2, <3>2, <3>3
    <2>6. ASSUME NEW k \in 1..Len(shown'), NEW p \in infos'
          PROVE  shown'[k].name <= p.name /\ shown'[k] # p
      <3>1. p \in infos /\ p # o
        BY <1>2
      <3> QED
        BY <1>3, <1>4, <2>2, <3>1 DEF n, InOrder
    <2>7. ASSUME errs = FALSE, NEW p \in stable \cap Wanted, p.profile # "" PROVE p \in Kept'
      <3>1. CASE p = o
        <4>1. n + 1 \in 1..Len(shown')
          BY <2>1
        <4> QED
          BY <3>1, <4>1, <2>1 DEF Kept
      <3>2. CASE \E k \in 1..n : shown[k] = p
        <4>1. PICK k \in 1..n : shown[k] = p
          BY <3>2
        <4>2. k \in 1..Len(shown') /\ shown'[k] = p
          BY <2>1, <4>1
        <4> QED
          BY <4>2 DEF Kept
      <3>3. CASE p # o /\ p \in infos
        BY <1>2, <3>3 DEF Kept
      <3> QED
        BY <1>4, <2>7, <3>1, <3>2, <3>3 DEF Kept, n
    <2>8. InOrder(shown', infos')
      BY <2>5, <2>6 DEF InOrder
    <2> QED
      BY <1>1, <1>2, <1>4, <1>5, <1>7, <2>1, <2>7, <2>8 DEF DescribeInv
  <1> QED
    BY <1>2, <1>6, <1>7

\* Every step keeps what describe has found.
LEMMA DescribeInvariant == Spec => []DescribeInv
  <1>1. Init => DescribeInv
    <2> SUFFICES ASSUME Init PROVE DescribeInv
      OBVIOUS
    <2>1. pc \in {"start", "suggest"} /\ infos = {} /\ shown = <<>> /\ errs = FALSE
      BY DEF Init
    <2>2. shown \in Seq(Wanted) /\ InOrder(shown, infos)
      BY <2>1, NothingShown
    <2> QED
      BY <2>1, <2>2 DEF DescribeInv
  <1>2. BaseInv /\ DescribeInv /\ [Next]_vars => DescribeInv'
    <2> SUFFICES ASSUME BaseInv, DescribeInv, [Next]_vars PROVE DescribeInv'
      OBVIOUS
    <2>1. CASE q.verb # "describe" /\ q' = q
      BY <2>1 DEF DescribeInv
    <2>2. CASE Complete
      BY <2>1, <2>2 DEF Complete
    <2>3. ASSUME NEW cmd, NEW class, RunList(cmd, class) PROVE DescribeInv'
      BY <2>1, <2>3 DEF RunList, BaseInv, Ended, StepsOf
    <2>4. CASE Suggest
      <3>1. pc = "suggest" /\ q' = q
        BY <2>4 DEF Suggest, NamesFunc, JobNameFunc, PodNameFunc, RayJobNameFunc, RayClusterNameFunc,
                    ApplicationProfileNameFunc, LocalQueueNameFunc
      <3> QED
        BY <2>1, <3>1 DEF BaseInv, Ended, StepsOf
    <2>5. CASE CompleteDescribe
      <3>1. /\ pc = "start" /\ pc' \in {"error", "find"} /\ q.verb = "describe"
            /\ UNCHANGED <<q, infos, shown, errs, stable>>
        BY <2>5 DEF CompleteDescribe, clusterVars
      <3>2. Wanted' = Wanted
        BY <3>1, SelectorsFixed
      <3>3. shown = <<>>
        BY <3>1 DEF DescribeInv
      <3> QED
        BY <3>1, <3>2, <3>3, NothingShown DEF DescribeInv
    <2>6. CASE Find
      <3>1. pc = "find" /\ q.verb = "describe" /\ UNCHANGED <<q, shown, errs, stable>> /\ shown = <<>> /\ errs \in BOOLEAN
        BY <2>6 DEF Find, clusterVars, BaseInv, Ended, StepsOf, DescribeInv
      <3>2. Found' = Found /\ Wanted' = Wanted
        BY <3>1, SelectorsFixed
      <3>3. CASE pc' = "error" /\ UNCHANGED infos
        BY <3>1, <3>2, <3>3, NothingShown DEF DescribeInv
      <3>4. CASE infos' = {o \in objs : DescribeSelects(o)} /\ pc' = IF q.cmd = "slurm" THEN "maps" ELSE "describe"
        <4>1. infos' \subseteq Wanted /\ stable \cap Found \subseteq infos'
          BY <3>4 DEF BaseInv, Found, Wanted
        <4>2. pc' = "describe" => stable \cap Wanted \subseteq Kept'
          BY <3>4, <4>1 DEF Wanted, Kept
        <4> QED
          BY <3>1, <3>2, <3>4, <4>1, <4>2, NothingShown DEF DescribeInv
      <3> QED
        BY <2>6, <3>3, <3>4 DEF Find
    <2>7. CASE getConfigMaps
      <3>1. /\ pc = "maps" /\ q.verb = "describe" /\ UNCHANGED <<q, shown, errs, stable>> /\ shown = <<>> /\ errs \in BOOLEAN
            /\ q.cmd = "slurm" /\ stable \cap Found \subseteq infos /\ infos \subseteq Wanted
        BY <2>7 DEF getConfigMaps, clusterVars, BaseInv, Ended, StepsOf, DescribeInv
      <3>2. Found' = Found /\ Wanted' = Wanted
        BY <3>1, SelectorsFixed
      <3>3. CASE pc' = "error" /\ UNCHANGED infos
        BY <3>1, <3>2, <3>3, NothingShown DEF DescribeInv
      <3>4. CASE infos' = infos \cup {o \in objs : MapSelects(o)} /\ pc' = "describe"
        <4>1. infos' \subseteq Wanted /\ stable \cap Wanted \subseteq infos'
          BY <3>1, <3>4 DEF BaseInv, Wanted
        <4>2. stable \cap Wanted \subseteq Kept'
          BY <4>1 DEF Kept
        <4> QED
          BY <3>1, <3>2, <3>4, <4>1, <4>2, NothingShown DEF DescribeInv
      <3> QED
        BY <2>7, <3>3, <3>4 DEF getConfigMaps
    <2>8. CASE DescribeNext
      BY <2>8, DescribeRound
    <2>9. CASE DescribeEnd
      <3>1. /\ pc = "describe" /\ infos = {} /\ pc' = (IF errs THEN "error" ELSE "ok") /\ q.verb = "describe"
            /\ UNCHANGED <<q, infos, shown, errs, stable>>
        BY <2>9 DEF DescribeEnd, clusterVars, BaseInv, Ended, StepsOf
      <3>2. Wanted' = Wanted /\ Kept' = Kept
        BY <3>1, SelectorsFixed DEF Kept
      <3> QED
        BY <3>1, <3>2 DEF DescribeInv
    <2>10. CASE Change
      <3>1. UNCHANGED <<q, pc, infos, shown, errs>> /\ stable' \subseteq stable
        BY <2>10 DEF Change
      <3>2. Found' = Found /\ Wanted' = Wanted /\ Kept' = Kept
        BY <3>1, SelectorsFixed DEF Kept
      <3> QED
        BY <3>1, <3>2 DEF DescribeInv
    <2>11. CASE Done \/ UNCHANGED vars
      <3>1. UNCHANGED <<q, pc, infos, shown, errs, stable>>
        BY <2>11 DEF Done, vars
      <3>2. Found' = Found /\ Wanted' = Wanted /\ Kept' = Kept
        BY <3>1, SelectorsFixed DEF Kept
      <3> QED
        BY <3>1, <3>2 DEF DescribeInv
    <2> QED
      BY <2>2, <2>3, <2>4, <2>5, <2>6, <2>7, <2>8, <2>9, <2>10, <2>11
         DEF Next, ListJob, ListSlurm, ListInteractive, ListRayJob, ListRayCluster
  <1> QED
    BY <1>1, <1>2, BaseInvariant, PTL DEF Spec

\* A Job of describe slurm and its ConfigMap are the only objects of that
\* name that it asks for.
LEMMA OnlyTwo ==
  ASSUME q.cmd = "slurm", ~q.all, NEW o \in Found, NEW m \in Objects,
         m.kind = "ConfigMap", m.ns = o.ns, m.name = o.name,
         NEW p \in Wanted, p.name = o.name
  PROVE  p = o \/ p = m
  <1>1. o \in Objects /\ o.kind = "Job" /\ o.ns = "here"
    BY DEF Found, DescribeSelects, InNamespace, Kind
  <1>2. p \in Objects /\ p.kind \in {"Job", "ConfigMap"} /\ p.ns = "here"
    BY DEF Found, Wanted, DescribeSelects, MapSelects, InNamespace, Kind
  <1> QED
    BY <1>1, <1>2, QueriesAssumption

\* What was shown at a place.
LEMMA PlaceProperty ==
  ASSUME shown \in Seq(Objects), NEW o, NEW i \in 1..Len(shown), shown[i] = o
  PROVE  Place(o) \in 1..Len(shown) /\ shown[Place(o)] = o
  BY DEF Place

\* Two objects of one name, with no third, stand next to each other in an
\* ordered sequence.
LEMMA SideBySide ==
  ASSUME NEW s \in Seq(Objects), InOrder(s, {}), NEW a \in 1..Len(s), NEW b \in 1..Len(s), a < b,
         s[a].name = s[b].name, \A c \in 1..Len(s) : s[c].name = s[a].name => s[c] = s[a] \/ s[c] = s[b]
  PROVE  b - a = 1
  <1> SUFFICES ASSUME b # a + 1 PROVE FALSE
    OBVIOUS
  <1> DEFINE c == a + 1
  <1>1. c \in 1..Len(s) /\ a < c /\ c < b
    OBVIOUS
  <1>2. s[a].name \in Int /\ s[b].name \in Int /\ s[c].name \in Int
    BY <1>1, QueriesAssumption
  <1>3. s[a].name <= s[c].name /\ s[c].name <= s[b].name /\ s[a] # s[c] /\ s[c] # s[b]
    BY <1>1 DEF InOrder
  <1> HIDE DEF c
  <1>4. s[c].name = s[a].name
    BY <1>2, <1>3
  <1> QED
    BY <1>1, <1>3, <1>4

\* A describe that succeeds shows all that was there all the time, and in
\* describe slurm each Job and its ConfigMap side by side, whatever the
\* selectors, the order of the answer and the changes (Run, getConfigMaps).
THEOREM DescribeShowsTogether == Spec => []DescribedTogether
  <1>1. BaseInv /\ DescribeInv => DescribedTogether
    <2> SUFFICES ASSUME BaseInv, DescribeInv, pc = "ok", q.verb = "describe" PROVE DescribedTogether
      BY DEF DescribedTogether
    <2>1. /\ shown \in Seq(Wanted) /\ InOrder(shown, {}) /\ infos = {} /\ stable \subseteq Objects
          /\ \A o \in stable \cap Wanted : o.profile # "" => o \in Kept
      BY DEF DescribeInv, BaseInv
    <2>2. \A o \in stable \cap Wanted : o.profile # "" => \E k \in 1..Len(shown) : shown[k] = o
      BY <2>1 DEF Kept
    <2>3. shown \in Seq(Objects) /\ DOMAIN shown = 1..Len(shown) /\ \A k \in 1..Len(shown) : shown[k] \in Wanted
      <3>1. Wanted \subseteq Objects
        BY DEF Wanted, Found
      <3>2. shown \in Seq(Wanted)
        BY <2>1
      <3>3. \A k \in 1..Len(shown) : shown[k] \in Wanted
        BY <3>2, ElementOfSeq
      <3> QED
        BY <3>1, <3>2, <3>3, SeqMonotonic, LenProperties
    <2>4. ASSUME NEW o \in stable, DescribeSelects(o), o.profile # ""
          PROVE  \E k \in DOMAIN shown : shown[k] = o
      <3>1. o \in Wanted
        BY <2>1, <2>4 DEF Wanted, Found
      <3> QED
        BY <2>2, <2>3, <2>4, <3>1
    <2>5. ASSUME q.cmd = "slurm", ~q.all, NEW o \in stable, NEW m \in stable,
                 DescribeSelects(o), o.profile # "", m.kind = "ConfigMap", m.ns = o.ns, m.name = o.name,
                 m.profile # "", m.mode = "Slurm"
          PROVE  (\E k \in DOMAIN shown : shown[k] = m) /\ Place(m) - Place(o) \in {1, -1}
      <3>1. o \in Found /\ m \in Objects
        BY <2>1, <2>5 DEF Found
      <3>2. o.kind = "Job" /\ o.ns = "here" /\ (q.name # 0 => o.name = q.name)
        BY <2>5 DEF DescribeSelects, InNamespace, Kind
      <3>3. m \in Wanted /\ o # m
        BY <2>5, <3>1, <3>2 DEF Wanted, MapSelects
      <3>4. PICK i \in 1..Len(shown) : shown[i] = m
        BY <2>2, <2>5, <3>3
      <3>5. PICK j \in 1..Len(shown) : shown[j] = o
        BY <2>3, <2>4, <2>5
      <3> DEFINE a == Place(o)
                 b == Place(m)
      <3>6. a \in 1..Len(shown) /\ shown[a] = o
        BY <2>3, <3>5, PlaceProperty
      <3>7. b \in 1..Len(shown) /\ shown[b] = m
        BY <2>3, <3>4, PlaceProperty
      <3> HIDE DEF a, b
      <3>8. \A c \in 1..Len(shown) : shown[c].name = o.name => shown[c] = o \/ shown[c] = m
        <4>1. \A p \in Wanted : p.name = o.name => p = o \/ p = m
          BY <2>5, <3>1, OnlyTwo
        <4> QED
          BY <2>3, <4>1
      <3>9. CASE a < b
        <4>1. b - a = 1
          BY <2>1, <2>3, <2>5, <3>6, <3>7, <3>8, <3>9, SideBySide
        <4> QED
          BY <2>3, <3>4, <4>1 DEF a, b
      <3>10. CASE b < a
        <4>1. a - b = 1
          BY <2>1, <2>3, <2>5, <3>6, <3>7, <3>8, <3>10, SideBySide
        <4>2. b - a = -1
          BY <3>6, <3>7, <4>1
        <4> QED
          BY <2>3, <3>4, <4>2 DEF a, b
      <3>11. a # b
        BY <3>3, <3>6, <3>7
      <3>12. a < b \/ b < a
        BY <3>6, <3>7, <3>11
      <3> QED
        BY <3>9, <3>10, <3>12
    <2> QED
      BY <2>4, <2>5 DEF DescribedTogether
  <1> QED
    BY <1>1, BaseInvariant, DescribeInvariant, PTL

-----------------------------------------------------------------------------
(***************************************************************************)
(* Completion.                                                             *)
(***************************************************************************)

\* Of a set that is not larger than the limit the first page holds all.
LEMMA OnePage ==
  ASSUME NEW here \in SUBSET Objects, IsFiniteSet(here), Cardinality(here) <= CompletionLimit, NEW o \in here
  PROVE  Cardinality({p \in here : p.name < o.name}) < CompletionLimit
  <1> DEFINE before == {p \in here : p.name < o.name}
  <1>1. o.name \in Int
    BY QueriesAssumption
  <1>2. o \notin before
    BY <1>1
  <1>3. before \in SUBSET here /\ before # here
    BY <1>2
  <1> HIDE DEF before
  <1>4. /\ Cardinality(here) \in Nat /\ Cardinality(before) \in Nat
        /\ Cardinality(before) <= Cardinality(here) /\ Cardinality(before) # Cardinality(here)
    BY <1>3, FS_Subset, FS_CardinalityType
  <1>5. Cardinality(before) < CompletionLimit
    BY <1>4, QueriesAssumption
  <1> QED
    BY <1>5 DEF before

\* As many increasing names as there are objects are the names of all of them.
LEMMA AllNames ==
  ASSUME NEW S \in SUBSET Objects, IsFiniteSet(S), NEW s \in [1..Cardinality(S) -> S],
         \A j, k \in DOMAIN s : j < k => s[j].name < s[k].name
  PROVE  {s[k].name : k \in DOMAIN s} = {o.name : o \in S}
  <1>1. Cardinality(S) \in Nat /\ DOMAIN s = 1..Cardinality(S)
    BY FS_CardinalityType
  <1>2. \A j, k \in 1..Cardinality(S) : s[j] = s[k] => j = k
    <2> SUFFICES ASSUME NEW j \in 1..Cardinality(S), NEW k \in 1..Cardinality(S), s[j] = s[k], j # k PROVE FALSE
      OBVIOUS
    <2>1. s[j].name \in Int
      BY QueriesAssumption
    <2>2. j < k \/ k < j
      BY <1>1
    <2>3. s[j].name < s[j].name
      BY <1>1, <2>2
    <2> QED
      BY <2>1, <2>3
  <1>3. s \in Injection(1..Cardinality(S), S)
    BY <1>2, Fun_IsInj
  <1>4. Cardinality(1..Cardinality(S)) = Cardinality(S)
    BY <1>1, FS_Interval
  <1>5. s \in Surjection(1..Cardinality(S), S)
    BY <1>3, <1>4, FS_Injection, Zenon
  <1>6. \A o \in S : \E k \in 1..Cardinality(S) : s[k] = o
    BY <1>5 DEF Surjection
  <1> QED
    BY <1>1, <1>6

\* What the List call of a function finds, of the current namespace, is what
\* the delete command of that name accepts.
Usable == {o \in objs : DeleteAccepts(o)}

\* The names suggested are among those of the objects found, and all of them
\* unless there are more than the limit.
LEMMA Suggested ==
  ASSUME BaseInv, NEW cmd, NEW found \in SUBSET objs, NamesFunc(cmd, found), pc' = "ok",
         {o \in found : o.ns = "here"} = Usable
  PROVE  /\ {shown'[k].name : k \in DOMAIN shown'} \subseteq {o.name : o \in Usable} \ q.args
         /\ Cardinality(Usable) <= CompletionLimit =>
               {shown'[k].name : k \in DOMAIN shown'} = {o.name : o \in Usable} \ q.args
  <1> DEFINE here == {o \in found : o.ns = "here"}
             list == {o \in here : Cardinality({p \in here : p.name < o.name}) < CompletionLimit}
             args == {o \in list : o.name \notin q.args}
  <1>1. PICK s \in [1..Cardinality(args) -> args] :
          (\A j, k \in DOMAIN s : j < k => s[j].name < s[k].name) /\ shown' = s
    BY DEF NamesFunc
  <1>2. here \in SUBSET objs /\ list \in SUBSET here /\ args \in SUBSET list
    OBVIOUS
  <1>3. here = Usable
    OBVIOUS
  <1>4. Cardinality(here) <= CompletionLimit => list = here
    <2>1. here \in SUBSET Objects /\ IsFiniteSet(here)
      BY <1>2, FS_Subset DEF BaseInv
    <2> QED
      BY <2>1, OnePage
  <1>5. {o.name : o \in args} = {o.name : o \in list} \ q.args
    OBVIOUS
  <1> HIDE DEF here, list, args
  <1>6. args \in SUBSET Objects /\ IsFiniteSet(args)
    <2>1. args \in SUBSET objs
      BY <1>2
    <2> QED
      BY <2>1, FS_Subset DEF BaseInv
  <1>7. {s[k].name : k \in DOMAIN s} = {o.name : o \in args}
    BY <1>1, <1>6, AllNames
  <1>8. {o.name : o \in args} \subseteq {o.name : o \in here} \ q.args
    BY <1>2, <1>5
  <1>9. list = here => {o.name : o \in args} = {o.name : o \in here} \ q.args
    BY <1>5
  <1> QED
    BY <1>1, <1>3, <1>4, <1>7, <1>8, <1>9

\* Each function lists what its delete command accepts.
LEMMA FoundIsUsable ==
  /\ q.cmd = "job" => {o \in Kjob(Class("Job", "Job")) : o.ns = "here"} = Usable
  /\ q.cmd = "slurm" => {o \in Kjob(Class("Job", "Slurm")) : o.ns = "here"} = Usable
  /\ q.cmd = "interactive" => {o \in Kjob(Class("Pod", "")) : o.ns = "here"} = Usable
  /\ q.cmd = "rayjob" => {o \in Kjob(Class("RayJob", "")) : o.ns = "here"} = Usable
  /\ q.cmd = "raycluster" => {o \in Kjob(Class("RayCluster", "")) : o.ns = "here"} = Usable
  <1> USE DEF Kjob, Class, Matches, Usable, DeleteAccepts, Kind
  <1>1. q.cmd = "job" => {o \in Kjob(Class("Job", "Job")) : o.ns = "here"} = Usable
    OBVIOUS
  <1>2. q.cmd = "slurm" => {o \in Kjob(Class("Job", "Slurm")) : o.ns = "here"} = Usable
    OBVIOUS
  <1>3. q.cmd = "interactive" => {o \in Kjob(Class("Pod", "")) : o.ns = "here"} = Usable
    OBVIOUS
  <1>4. q.cmd = "rayjob" => {o \in Kjob(Class("RayJob", "")) : o.ns = "here"} = Usable
    OBVIOUS
  <1>5. q.cmd = "raycluster" => {o \in Kjob(Class("RayCluster", "")) : o.ns = "here"} = Usable
    OBVIOUS
  <1> QED
    BY <1>1, <1>2, <1>3, <1>4, <1>5

\* The same for the step of the command line's function.
LEMMA SuggestStep ==
  ASSUME BaseInv, Suggest, pc' = "ok", q.cmd \notin {"profile", "localqueue"}
  PROVE  /\ {shown'[k].name : k \in DOMAIN shown'} \subseteq {o.name : o \in Usable} \ q.args
         /\ Cardinality(Usable) <= CompletionLimit =>
               {shown'[k].name : k \in DOMAIN shown'} = {o.name : o \in Usable} \ q.args
  <1>1. \A kind, mode : Kjob(Class(kind, mode)) \in SUBSET objs
    BY DEF Kjob, Class
  <1>2. \A cmd, found : NamesFunc(cmd, found) => q.cmd = cmd
    BY DEF NamesFunc
  <1>3. CASE NamesFunc("job", Kjob(Class("Job", "Job")))
    BY <1>1, <1>2, <1>3, FoundIsUsable, Suggested
  <1>4. CASE NamesFunc("slurm", Kjob(Class("Job", "Slurm")))
    BY <1>1, <1>2, <1>4, FoundIsUsable, Suggested
  <1>5. CASE NamesFunc("interactive", Kjob(Class("Pod", "")))
    BY <1>1, <1>2, <1>5, FoundIsUsable, Suggested
  <1>6. CASE NamesFunc("rayjob", Kjob(Class("RayJob", "")))
    BY <1>1, <1>2, <1>6, FoundIsUsable, Suggested
  <1>7. CASE NamesFunc("raycluster", Kjob(Class("RayCluster", "")))
    BY <1>1, <1>2, <1>7, FoundIsUsable, Suggested
  <1> QED
    BY <1>2, <1>3, <1>4, <1>5, <1>6, <1>7
       DEF Suggest, JobNameFunc, PodNameFunc, RayJobNameFunc, RayClusterNameFunc,
           ApplicationProfileNameFunc, LocalQueueNameFunc

\* The names suggested for a delete command are names it accepts, without the
\* ones typed, and all of them unless there are more than the limit, for any
\* cluster and any changes before the call (JobNameFunc and the others).
THEOREM SuggestionsAreUsable == Spec => []SuggestionsUsable
  <1>1. Init => SuggestionsUsable
    BY DEF Init, SuggestionsUsable
  <1>2. BaseInv /\ SuggestionsUsable /\ [Next]_vars => SuggestionsUsable'
    <2> SUFFICES ASSUME BaseInv, SuggestionsUsable, [Next]_vars,
                        pc' = "ok", q'.verb = "complete", q'.cmd \notin {"profile", "localqueue"}
                 PROVE  SuggestionsUsable'
      BY DEF SuggestionsUsable
    <2>1. q' = q
      BY DEF Next, vars, Complete, RunList, ListJob, ListSlurm, ListInteractive, ListRayJob, ListRayCluster,
             CompleteDescribe, Find, getConfigMaps, DescribeNext, DescribeEnd, Suggest, NamesFunc, JobNameFunc,
             PodNameFunc, RayJobNameFunc, RayClusterNameFunc, ApplicationProfileNameFunc, LocalQueueNameFunc,
             Change, Done
    <2>2. CASE Suggest
      <3>1. objs' = objs
        BY <2>2 DEF Suggest, NamesFunc, JobNameFunc, PodNameFunc, RayJobNameFunc, RayClusterNameFunc,
                    ApplicationProfileNameFunc, LocalQueueNameFunc, clusterVars
      <3>2. {o \in objs : DeleteAccepts(o)}' = Usable
        BY <2>1, <3>1 DEF Usable, DeleteAccepts, Kind
      <3> QED
        BY <2>1, <2>2, <3>2, SuggestStep DEF SuggestionsUsable
    <2>3. CASE pc = "ok" /\ UNCHANGED vars
      <3>1. UNCHANGED <<q, objs, shown>>
        BY <2>3 DEF vars
      <3>2. {o \in objs : DeleteAccepts(o)}' = {o \in objs : DeleteAccepts(o)}
        BY <3>1 DEF DeleteAccepts, Kind
      <3> QED
        BY <2>3, <3>1, <3>2 DEF SuggestionsUsable
    <2>4. pc = "suggest" \/ pc = "ok" \/ pc = "error"
      BY <2>1 DEF BaseInv, StepsOf, Ended
    <2>5. Suggest \/ (pc = "ok" /\ UNCHANGED vars)
      BY <2>1, <2>4
         DEF Next, vars, Ended, Complete, RunList, ListJob, ListSlurm, ListInteractive, ListRayJob, ListRayCluster,
             CompleteDescribe, Find, getConfigMaps, DescribeNext, DescribeEnd, Change, Done
    <2> QED
      BY <2>2, <2>3, <2>5
  <1> QED
    BY <1>1, <1>2, BaseInvariant, PTL DEF Spec

=============================================================================
