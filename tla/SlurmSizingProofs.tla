------------------------- MODULE SlurmSizingProofs -------------------------
(***************************************************************************)
(* Proofs about SlurmSizing for every integer width, every template and    *)
(* every input.                                                            *)
(***************************************************************************)
EXTENDS SlurmSizing, FiniteSetTheorems, TLAPS

(***************************************************************************)
(* Go's arithmetic.                                                        *)
(***************************************************************************)

\* The result of an int32 operation is an int32 value.
LEMMA WrapRange ==
  ASSUME NEW x \in Int
  PROVE  Wrap(x) \in GoInt
  <1>1. Half \in Nat /\ Half > 0
    BY HalfAssumption
  <1>2. DEFINE m == (x + Half) % (2 * Half)
  <1>3. m \in 0..(2 * Half - 1)
    BY <1>1
  <1>4. QED
    BY <1>1, <1>3 DEF Wrap, GoInt, MinInt, MaxInt

\* An operation that stays in range is exact.
LEMMA WrapExact ==
  ASSUME NEW x \in GoInt
  PROVE  Wrap(x) = x
  <1>1. Half \in Nat /\ Half > 0
    BY HalfAssumption
  <1>2. x + Half \in 0..(2 * Half - 1)
    BY <1>1 DEF GoInt, MinInt, MaxInt
  <1>3. (x + Half) % (2 * Half) = x + Half
    BY <1>1, <1>2
  <1>4. QED
    BY <1>1, <1>3 DEF Wrap, GoInt, MinInt, MaxInt

\* 0 and 1 are int32 values.
LEMMA SmallInts == 0 \in GoInt /\ 1 \in GoInt /\ GoInt \subseteq Int /\ MinInt \in GoInt /\ MaxInt \in GoInt
  BY HalfAssumption DEF GoInt, MinInt, MaxInt

\* Whatever a float division is converted to is an int32 value.
LEMMA QuotientRange ==
  ASSUME NEW a \in GoInt, NEW b \in GoInt
  PROVE  Quotients(a, b) \subseteq GoInt
  BY SmallInts DEF Quotients

\* A positive number divided by a positive one without a fraction: the
\* quotient is exact and positive.
LEMMA ExactQuotient ==
  ASSUME NEW a \in GoInt, NEW b \in GoInt, a >= 1, b >= 1,
         NEW q \in Quotients(a, b), ~Exceeds(a, b, q)
  PROVE  q >= 1 /\ q * b = a
  <1>0. a \in Nat /\ b \in Nat /\ b > 0 /\ a > 0
    BY SmallInts
  <1>1. Abs(a) = a /\ Abs(b) = b
    BY <1>0 DEF Abs
  <1>2. DEFINE d == a \div b
  <1>3. d \in Nat /\ d * b <= a /\ d <= a
    BY <1>0
  <1>4. d \in GoInt
    BY <1>3, <1>0, HalfAssumption DEF GoInt, MinInt, MaxInt
  <1>5. q = d
    BY <1>0, <1>1, <1>4 DEF Quotients
  <1>6. a <= d * b
    BY <1>0, <1>3, <1>5 DEF Exceeds
  <1>7. d * b = a
    BY <1>0, <1>3, <1>6
  <1>8. d # 0
    BY <1>0, <1>7
  <1>9. QED
    BY <1>3, <1>5, <1>7, <1>8

-----------------------------------------------------------------------------
(***************************************************************************)
(* complete.                                                               *)
(***************************************************************************)

\* Of three int32 sizes complete makes three int32 sizes.
LEMMA SizesRange ==
  ASSUME NEW n \in GoInt, NEW t \in GoInt, NEW p \in GoInt, NEW s \in Sizes(n, t, p)
  PROVE  s.nodes \in GoInt /\ s.nTasks \in GoInt /\ s.perNode \in GoInt
  <1>1. n * p \in Int /\ Wrap(n * p) \in GoInt
    BY SmallInts, WrapRange
  <1>2. WholeQuotients(t, p) \subseteq GoInt /\ WholeQuotients(t, n) \subseteq GoInt
    BY QuotientRange DEF WholeQuotients
  <1>3. QED
    BY <1>1, <1>2 DEF Sizes, Size

\* With at least one task per node asked for and at least one task to run,
\* complete leaves a positive number of nodes with sizes that agree, or a
\* negative one that was given.
LEMMA SizesGood ==
  ASSUME NEW n \in GoInt, NEW t \in GoInt, NEW p \in GoInt, p >= 1,
         NEW s \in Sizes(n, t, p), s.nTasks >= 1
  PROVE  /\ s.nodes >= 1 => s.perNode >= 1 /\ s.nTasks = Wrap(s.nodes * s.perNode)
         /\ s.nodes < 1 => s.nodes = n /\ n < 0
  <1>0. n \in Int /\ t \in Int /\ p \in Int
    BY SmallInts
  <1>1. Wrap(0) = 0
    BY WrapExact, SmallInts
  <1>2. CASE n # 1 /\ t # 1 /\ p # 1
    <2>1. t = Wrap(n * p) /\ s = Size(n, t, p)
      BY <1>2 DEF Sizes
    <2>2. n # 0
      <3>1. SUFFICES ASSUME n = 0 PROVE FALSE
        OBVIOUS
      <3>2. n * p = 0
        BY <3>1, <1>0
      <3>3. QED
        BY <3>2, <2>1, <1>1 DEF Size
    <2>3. QED
      BY <1>0, <2>1, <2>2 DEF Size
  <1>3. CASE n = 1 /\ t # 1 /\ p # 1
    <2>1. PICK q \in WholeQuotients(t, p) : s = Size(q, t, p)
      BY <1>3 DEF Sizes
    <2>2. t >= 1
      BY <2>1 DEF Size
    <2>3. q >= 1 /\ q * p = t
      BY <2>1, <2>2, ExactQuotient DEF WholeQuotients
    <2>4. Wrap(q * p) = t
      BY <2>3, WrapExact
    <2>5. q \in Int
      BY <2>1, QuotientRange, SmallInts DEF WholeQuotients
    <2>6. QED
      BY <2>1, <2>3, <2>4, <2>5 DEF Size
  <1>4. CASE t # 1 /\ p = 1
    <2>1. PICK q \in WholeQuotients(t, n) : s = Size(n, t, q)
      BY <1>4 DEF Sizes
    <2>2. t >= 1
      BY <2>1 DEF Size
    <2>3. n # 0
      BY <1>0, <2>1, <2>2 DEF WholeQuotients, Exceeds
    <2>4. CASE n >= 1
      <3>1. q >= 1 /\ q * n = t
        BY <2>1, <2>2, <2>4, ExactQuotient DEF WholeQuotients
      <3>2. q \in Int
        BY <2>1, QuotientRange, SmallInts DEF WholeQuotients
      <3>3. n * q = t
        BY <1>0, <3>1, <3>2
      <3>4. Wrap(n * q) = t
        BY <3>3, WrapExact
      <3>5. QED
        BY <1>0, <2>1, <2>4, <3>1, <3>4 DEF Size
    <2>5. QED
      BY <1>0, <2>1, <2>3, <2>4 DEF Size
  <1>5. CASE t = 1 /\ p # 1
    <2>1. s = Size(n, Wrap(n * p), p)
      BY <1>5 DEF Sizes
    <2>2. n # 0
      <3>1. SUFFICES ASSUME n = 0 PROVE FALSE
        OBVIOUS
      <3>2. n * p = 0
        BY <3>1, <1>0
      <3>3. QED
        BY <3>2, <2>1, <1>1 DEF Size
    <2>3. QED
      BY <1>0, <2>1, <2>2 DEF Size
  <1>6. CASE t = 1 /\ p = 1
    <2>1. n = 1 /\ s = Size(n, t, p)
      BY <1>6 DEF Sizes
    <2>2. Wrap(1) = 1
      BY WrapExact, SmallInts
    <2>3. QED
      BY <1>6, <2>1, <2>2 DEF Size
  <1>7. QED
    BY <1>2, <1>3, <1>4, <1>5, <1>6

-----------------------------------------------------------------------------
(***************************************************************************)
(* Types.                                                                  *)
(***************************************************************************)

\* ptr.Deref of an optional value.
LEMMA DerefIn ==
  ASSUME NEW S, NEW opt \in Optional(S), opt # {}
  PROVE  Deref(opt) \in opt /\ Deref(opt) \in S
  BY DEF Deref, Optional

\* ptr.Deref of a value.
LEMMA DerefOne ==
  ASSUME NEW v
  PROVE  Deref({v}) = v
  BY DEF Deref

\* ptr.Deref of an optional size.
LEMMA DerefSize ==
  ASSUME NEW opt \in Optional(GoInt)
  PROVE  Deref(opt) \in GoInt
  <1>1. CASE opt = {}
    BY <1>1, SmallInts DEF Deref
  <1>2. CASE opt # {}
    BY <1>2, DerefIn
  <1>3. QED
    BY <1>1, <1>2

\* The quantities of a task.
LEMMA TaskTypes ==
  ASSUME in \in Input
  PROVE  Cpus \in Nat /\ Gpus \in Nat /\ TaskMemory \in Nat
  <1>1. in.cpus \in Optional(Nat) /\ in.gpus \in Optional(Nat) /\ in.mem \in Nat
    BY DEF Input
  <1>2. Cpus \in Nat /\ Gpus \in Nat
    BY <1>1, DerefIn DEF Cpus, Gpus
  <1>3. QED
    BY <1>1, <1>2 DEF TaskMemory

\* The containers made from one of the template.
LEMMA ContainerTypes ==
  ASSUME in \in Input, in.template # <<>>, NEW own \in Own
  PROVE  Worker(own) \in Container /\ Other(own) \in Container
  <1>1. in.template \in Seq(Own) /\ in.mem \in Nat
    BY DEF Input
  <1>2. Len(in.template) \in Nat \ {0}
    BY <1>1
  <1>3. MemoryLimit \in Nat
    BY <1>1, <1>2 DEF MemoryLimit
  <1>4. QED
    BY <1>3, TaskTypes DEF Worker, Other, Container, Own

\* The initial states have their types.
LEMMA TypeInit == Init => TypeOK
  <1> SUFFICES ASSUME Init PROVE TypeOK
    OBVIOUS
  <1>1. in \in Input
    BY InputsAssumption DEF Init
  <1>2. nodes \in Optional(GoInt) /\ nTasks \in Optional(GoInt) /\ perNode \in Optional(GoInt)
    BY DEF Init, Optional
  <1>3. QED
    BY <1>1, <1>2 DEF Init, TypeOK, None, NoEnv

\* Every step keeps the types.
LEMMA TypeNext == TypeOK /\ [Next]_vars => TypeOK'
  <1> SUFFICES ASSUME TypeOK, [Next]_vars PROVE TypeOK'
    OBVIOUS
  <1>0. in \in Input /\ Cpus \in Nat /\ Gpus \in Nat /\ TaskMemory \in Nat
    BY TaskTypes DEF TypeOK
  <1>1. CASE CheckFlags
    BY <1>1 DEF TypeOK, CheckFlags, Stop, Goto
  <1>2. CASE Parse
    <2>1. /\ in.flags.nodes \in Optional(GoInt) /\ in.flags.nTasks \in Optional(GoInt)
          /\ in.flags.perNode \in Optional(GoInt)
          /\ in.script.nodes \in Optional(GoInt) /\ in.script.nTasks \in Optional(GoInt)
      BY <1>0 DEF Input
    <2>2. QED
      BY <1>2, <2>1 DEF TypeOK, Parse, Stop, Goto, Else
  <1>3. CASE Complete
    <2>1. /\ Deref(nodes) \in GoInt /\ Deref(nTasks) \in GoInt /\ Deref(perNode) \in GoInt
      BY DerefSize DEF TypeOK
    <2>2. CASE Stop("error")
      BY <2>2 DEF TypeOK, Stop, Goto
    <2>3. CASE ~Stop("error")
      <3>1. PICK s \in Sizes(Deref(nodes), Deref(nTasks), Deref(perNode)) :
                /\ nodes' = {s.nodes} /\ nTasks' = {s.nTasks} /\ perNode' = {s.perNode}
                /\ pc' = "build" /\ UNCHANGED <<in, containers, total, env, completions>>
        BY <1>3, <2>3 DEF Complete, Goto
      <3>2. {s.nodes} \in Optional(GoInt) /\ {s.nTasks} \in Optional(GoInt) /\ {s.perNode} \in Optional(GoInt)
        BY <2>1, SizesRange DEF Optional
      <3>3. QED
        BY <3>1, <3>2 DEF TypeOK
    <2>4. QED
      BY <2>2, <2>3
  <1>4. CASE NewJob
    <2>1. completion \in Int
      <3>1. in.array \in Nat
        BY <1>0 DEF Input
      <3>2. Deref(nodes) \in Int
        BY DerefSize, SmallInts DEF TypeOK
      <3>3. QED
        BY <3>1, <3>2 DEF completion
    <2>2. QED
      BY <1>4, <2>1 DEF TypeOK, NewJob, Stop, Goto
  <1>5. CASE TemplateContainer
    <2>1. in.template \in Seq(Own) /\ containers \in Seq(Container) /\ Len(containers) < Len(in.template)
      BY <1>0, <1>5 DEF TemplateContainer, Input, TypeOK
    <2>2. PICK own \in Own : own = in.template[Len(containers) + 1]
      BY <2>1
    <2>3. Worker(own) \in Container /\ Other(own) \in Container
      BY <1>0, <2>1, ContainerTypes
    <2>4. containers' \in Seq(Container)
      <3>1. containers \in Seq(Container)
        BY DEF TypeOK
      <3>2. \E c \in Container : containers' = Append(containers, c)
        BY <1>5, <2>2, <2>3 DEF TemplateContainer
      <3>3. QED
        BY <3>1, <3>2
    <2>5. total' \in [cpus : Nat, gpus : Nat, mem : Nat]
      <3>1. total \in [cpus : Nat, gpus : Nat, mem : Nat]
        BY DEF TypeOK
      <3>2. total' = total \/ Add(Cpus, Gpus, TaskMemory)
        BY <1>5 DEF TemplateContainer
      <3>3. QED
        BY <1>0, <3>1, <3>2 DEF Add
    <2>6. QED
      BY <1>5, <2>4, <2>5 DEF TemplateContainer, TypeOK
  <1>6. CASE Replica
    <2>1. CASE in.template = <<>>
      BY <1>6, <2>1 DEF Replica, TypeOK, Stop, Goto
    <2>2. CASE in.template # <<>>
      <3>0. in.template \in Seq(Own) /\ containers \in Seq(Container)
        BY <1>0 DEF Input, TypeOK
      <3>1. Len(containers) >= 1 /\ containers \in Seq(Container)
        BY <1>6, <2>2, <3>0 DEF Replica
      <3>2. containers[1] \in Container
        BY <3>1
      <3>3. containers' \in Seq(Container)
        BY <1>6, <2>2, <3>1, <3>2 DEF Replica
      <3>4. total' \in [cpus : Nat, gpus : Nat, mem : Nat]
        BY <1>0, <1>6, <2>2 DEF Replica, ReplicaTotals, Add, TypeOK
      <3>5. QED
        BY <1>6, <2>2, <3>3, <3>4 DEF Replica, TypeOK
    <2>3. QED
      BY <2>1, <2>2
  <1>7. CASE Totals
    <2>1. in.mem \in Nat
      BY <1>0 DEF Input
    <2>2. total.cpus \in Nat /\ total.gpus \in Nat /\ total.mem \in Nat
      BY DEF TypeOK
    <2>3. total.gpus # 0 => total.cpus \div total.gpus \in Nat
      BY <2>2
    <2>4. env' \in [cpusOnNode : Nat, gpus : Nat, memPerNode : Nat, cpusPerGpu : Nat]
      BY <1>7, <2>1, <2>2, <2>3 DEF Totals
    <2>5. QED
      BY <1>7, <2>4 DEF Totals, Goto, TypeOK
  <1>8. CASE BuildScripts
    BY <1>8 DEF TypeOK, BuildScripts, Stop, Goto
  <1>9. CASE UNCHANGED vars
    BY <1>9 DEF TypeOK, vars
  <1>10. QED
    BY <1>1, <1>2, <1>3, <1>4, <1>5, <1>6, <1>7, <1>8, <1>9 DEF Next, Terminated

\* The sizes, containers and totals of a Slurm job have their types, for every
\* width of the integers (slurm_builder.go, complete and build).
THEOREM TypeCorrect == Spec => []TypeOK
  BY TypeInit, TypeNext, PTL DEF Spec

-----------------------------------------------------------------------------
(***************************************************************************)
(* The sizes of a Job.                                                     *)
(***************************************************************************)

SizeInv == TypeOK /\ Given /\ Checked /\ Sized /\ PanicsOnlyOnBadInput

\* What complete is given: at least one task per node, and a number of nodes
\* that is positive or comes from the script.
LEMMA CompleteGiven ==
  ASSUME TypeOK, Given, Checked, pc = "complete"
  PROVE  /\ Deref(perNode) >= 1
         /\ Deref(nodes) < 1 => Deref(nodes) \in in.script.nodes
  <1>1. /\ FlagsOK /\ perNode = in.flags.perNode
        /\ nodes \in {in.flags.nodes, in.script.nodes}
    BY DEF Given, Checked
  <1>2. perNode \in Optional(GoInt) /\ nodes \in Optional(GoInt)
    BY DEF TypeOK
  <1>3. Deref({}) = 1
    BY DEF Deref
  <1>4. perNode # {} => Deref(perNode) \in in.flags.perNode /\ Deref(perNode) \in Int
    BY <1>1, <1>2, DerefIn, SmallInts
  <1>5. nodes # {} => Deref(nodes) \in nodes /\ Deref(nodes) \in Int
    BY <1>2, DerefIn, SmallInts
  <1>6. Deref(perNode) >= 1
    <2>1. CASE perNode = {}
      BY <2>1, <1>3
    <2>2. CASE perNode # {}
      BY <2>2, <1>1, <1>4 DEF FlagsOK
    <2>3. QED
      BY <2>1, <2>2
  <1>7. ASSUME Deref(nodes) < 1
        PROVE  Deref(nodes) \in in.script.nodes
    <2>1. nodes # {}
      BY <1>3, <1>7
    <2>2. Deref(nodes) \notin in.flags.nodes
      BY <1>1, <1>5, <1>7, <2>1 DEF FlagsOK
    <2>3. QED
      BY <1>1, <1>5, <2>1, <2>2
  <1>8. QED
    BY <1>6, <1>7

\* The sizes that complete accepts are good ones.
LEMMA CompleteSized ==
  ASSUME TypeOK, Given, Checked, pc = "complete",
         NEW s \in Sizes(Deref(nodes), Deref(nTasks), Deref(perNode)), Accepted(s)
  PROVE  Good(s.nodes, s.nTasks, s.perNode) /\ ArrayOK(s.nodes)
  <1>1. Deref(nodes) \in GoInt /\ Deref(nTasks) \in GoInt /\ Deref(perNode) \in GoInt
    BY DerefSize DEF TypeOK
  <1>2. Deref(perNode) >= 1 /\ (Deref(nodes) < 1 => Deref(nodes) \in in.script.nodes)
    BY CompleteGiven
  <1>3. s.nTasks >= 1 /\ ArrayOK(s.nodes)
    BY DEF Accepted, ScriptOK
  <1>4. /\ s.nodes >= 1 => s.perNode >= 1 /\ s.nTasks = Wrap(s.nodes * s.perNode)
        /\ s.nodes < 1 => s.nodes = Deref(nodes) /\ Deref(nodes) < 0
    BY <1>1, <1>2, <1>3, SizesGood
  <1>5. s.nodes < 1 => \E v \in in.script.nodes : v < 0
    <2>1. Deref(nodes) \in Int
      BY <1>1, SmallInts
    <2>2. QED
      BY <1>2, <1>4, <2>1
  <1>6. QED
    BY <1>3, <1>4, <1>5 DEF Good

\* The number of completions is at least one, or the script asked for a
\* negative number of nodes.
LEMMA CompletionSized ==
  ASSUME TypeOK, Sized, pc = "script", completion <= 0
  PROVE  \E v \in in.script.nodes : v < 0
  <1>1. in.array \in Nat
    BY DEF TypeOK, Input
  <1>2. Deref(nodes) \in Int
    BY DerefSize, SmallInts DEF TypeOK
  <1>3. in.array = 0 /\ Deref(nodes) < 1
    BY <1>1, <1>2 DEF completion
  <1>4. QED
    BY <1>3 DEF Sized, Good

\* The invariant holds initially.
LEMMA SizeInit == Init => SizeInv
  BY TypeInit DEF Init, SizeInv, Given, Checked, Sized, PanicsOnlyOnBadInput

\* Every step keeps the invariant.
LEMMA SizeNext == SizeInv /\ [Next]_vars => SizeInv'
  <1> SUFFICES ASSUME SizeInv, [Next]_vars PROVE SizeInv'
    OBVIOUS
  <1> USE DEF SizeInv
  <1>0. TypeOK'
    BY TypeNext
  <1>1. CASE CheckFlags
    BY <1>0, <1>1 DEF CheckFlags, Stop, Goto, Given, Checked, FlagsOK, Sized, PanicsOnlyOnBadInput
  <1>2. CASE Parse
    BY <1>0, <1>2 DEF Parse, Stop, Goto, Else, Given, Checked, FlagsOK, Sized, PanicsOnlyOnBadInput
  <1>3. CASE Complete
    <2>1. CASE Stop("error")
      BY <1>0, <2>1 DEF Stop, Goto, Given, Checked, Sized, PanicsOnlyOnBadInput
    <2>2. CASE ~Stop("error")
      <3>1. PICK s \in Sizes(Deref(nodes), Deref(nTasks), Deref(perNode)) :
                /\ Accepted(s)
                /\ nodes' = {s.nodes} /\ nTasks' = {s.nTasks} /\ perNode' = {s.perNode}
                /\ pc' = "build" /\ in' = in
        BY <1>3, <2>2 DEF Complete, Goto
      <3>2. pc = "complete"
        BY <1>3 DEF Complete
      <3>3. Good(s.nodes, s.nTasks, s.perNode) /\ ArrayOK(s.nodes)
        BY <3>1, <3>2, CompleteSized
      <3>4. Deref(nodes') = s.nodes /\ Deref(nTasks') = s.nTasks /\ Deref(perNode') = s.perNode
        BY <3>1, DerefOne
      <3>5. Sized'
        BY <3>1, <3>3, <3>4 DEF Sized, Good, ArrayOK
      <3>6. QED
        BY <1>0, <3>1, <3>5 DEF Given, Checked, PanicsOnlyOnBadInput
    <2>3. QED
      BY <2>1, <2>2
  <1>4. CASE NewJob
    BY <1>0, <1>4 DEF NewJob, Stop, Goto, Given, Checked, Sized, Good, ArrayOK, completion, PanicsOnlyOnBadInput
  <1>5. CASE TemplateContainer
    BY <1>0, <1>5 DEF TemplateContainer, Given, Checked, Sized, Good, ArrayOK, completion, PanicsOnlyOnBadInput
  <1>6. CASE Replica
    BY <1>0, <1>6 DEF Replica, Stop, Goto, Given, Checked, Sized, Good, ArrayOK, completion, PanicsOnlyOnBadInput
  <1>7. CASE Totals
    BY <1>0, <1>7 DEF Totals, Goto, Given, Checked, Sized, Good, ArrayOK, completion, PanicsOnlyOnBadInput
  <1>8. CASE BuildScripts
    <2>1. completion <= 0 => \E v \in in.script.nodes : v < 0
      BY <1>8, CompletionSized DEF BuildScripts
    <2>2. QED
      BY <1>0, <1>8, <2>1 DEF BuildScripts, Stop, Goto, Given, Checked, Sized, Good, ArrayOK, completion,
         PanicsOnlyOnBadInput
  <1>9. CASE UNCHANGED vars
    BY <1>0, <1>9 DEF vars, Given, Checked, FlagsOK, Sized, Good, ArrayOK, completion, PanicsOnlyOnBadInput
  <1>10. QED
    BY <1>1, <1>2, <1>3, <1>4, <1>5, <1>6, <1>7, <1>8, <1>9 DEF Next, Terminated

\* A Job that is built has positive sizes that agree as int32 values, whichever
\* of the three were given and wherever (slurm_builder.go:405-436), for every
\* width of the integers.
THEOREM SizesAlwaysAgree == Spec => []SizesAgree
  <1>1. SizeInv => SizesAgree
    <2> SUFFICES ASSUME SizeInv, pc = "done"
                 PROVE  /\ Deref(nodes) >= 1 /\ Deref(perNode) >= 1 /\ Deref(nTasks) >= 1
                        /\ Deref(nTasks) = Wrap(Deref(nodes) * Deref(perNode))
      BY DEF SizesAgree
    <2>1. Deref(nodes) \in Int
      BY DerefSize, SmallInts DEF SizeInv, TypeOK
    <2>2. Deref(nodes) >= 1
      BY <2>1 DEF SizeInv, Sized, ArrayOK, completion
    <2>3. QED
      BY <2>2 DEF SizeInv, Sized, Good
  <1>2. QED
    BY <1>1, SizeInit, SizeNext, PTL DEF Spec

\* Building a Slurm job panics only on a template without containers or a
\* script with a negative number of nodes (create.go:656-678,
\* slurm_builder.go:539), for every width of the integers.
THEOREM PanicsOnlyThere == Spec => []PanicsOnlyOnBadInput
  <1>1. SizeInv => PanicsOnlyOnBadInput
    BY DEF SizeInv
  <1>2. QED
    BY <1>1, SizeInit, SizeNext, PTL DEF Spec

-----------------------------------------------------------------------------
(***************************************************************************)
(* The containers of a Job and the totals.                                 *)
(***************************************************************************)

PerUnit == in.memFlags \cap {"cpu", "gpu"} # {}

WorkerUnits(cs, field) == Units(cs, WorkersOf(cs), field)

Counted(sum, cs, field) ==
    IsFiniteSet(WorkerUnits(cs, field)) /\ sum = Cardinality(WorkerUnits(cs, field))

\* Nothing is made before the template is there.
Fresh == pc \in {"flags", "parse", "complete", "build"} => containers = <<>> /\ total = None

\* What NewJob settles, and the check of the memory flags before it.
Settled ==
    /\ pc \in {"build", "template", "script", "done"} => MemoryOK
    /\ pc \in {"template", "script", "done"} => completions = completion

\* The number of containers in and after the loops.
Filled ==
    /\ pc \in {"template", "script", "done"} =>
           Len(containers) <= Len(in.template) \/ Replicas < Deref(perNode)
    /\ pc \in {"script", "done"} => Len(containers) >= Len(in.template) /\ ~MoreReplicas

\* A container that runs the script and requests what the flags say.
Tasked(c) == c.worker /\ (Asked => c.cpus = Cpus /\ c.mem = TaskMemory)

\* If the first container is a worker its replicas are, and if the flags give
\* requests the totals are the workers' sums.
Requested ==
    FirstIsWorker =>
        /\ Len(containers) >= 1 => Tasked(containers[1])
        /\ Len(in.template) = 1 => \A k \in DOMAIN containers : containers[k].worker
        /\ Asked => Counted(total.cpus, containers, "cpus")
        /\ Asked /\ PerUnit => Counted(total.mem, containers, "mem")

\* What the script is told are the totals.
Told ==
    pc \in {"script", "done"} =>
        env.cpusOnNode = total.cpus /\ (PerUnit => env.memPerNode = total.mem)

PodInv == SizeInv /\ Fresh /\ Settled /\ Filled /\ Requested /\ Told

\* No container requests anything of an empty sequence.
LEMMA UnitsNone ==
  ASSUME NEW field
  PROVE  Counted(0, <<>>, field)
  <1>1. WorkerUnits(<<>>, field) = {}
    BY DEF WorkerUnits, WorkersOf, Units
  <1>2. QED
    BY <1>1, FS_EmptySet DEF Counted

\* A container that does not run the script adds nothing to the sum.
LEMMA UnitsOther ==
  ASSUME NEW cs \in Seq(Container), NEW c \in Container, ~c.worker, NEW field,
         NEW sum, Counted(sum, cs, field)
  PROVE  Counted(sum, Append(cs, c), field)
  <1>1. WorkersOf(Append(cs, c)) = WorkersOf(cs)
    BY DEF WorkersOf
  <1>2. \A k \in WorkersOf(cs) : Append(cs, c)[k] = cs[k]
    BY DEF WorkersOf
  <1>3. WorkerUnits(Append(cs, c), field) = WorkerUnits(cs, field)
    BY <1>1, <1>2 DEF WorkerUnits, Units
  <1>4. QED
    BY <1>3 DEF Counted

\* A worker that is appended adds what it requests to the sum.
LEMMA UnitsAppend ==
  ASSUME NEW cs \in Seq(Container), NEW c \in Container, c.worker, NEW field, c[field] \in Nat,
         NEW sum \in Nat, Counted(sum, cs, field)
  PROVE  Counted(sum + c[field], Append(cs, c), field)
  <1> DEFINE n == Len(cs) + 1
             new == {n} \X (1..c[field])
             old == WorkerUnits(cs, field)
  <1>1. n \in Nat /\ DOMAIN cs = 1..(n - 1) /\ DOMAIN Append(cs, c) = 1..n
    OBVIOUS
  <1>2. /\ Append(cs, c)[n] = c
        /\ \A k \in DOMAIN cs : Append(cs, c)[k] = cs[k]
    OBVIOUS
  <1>3. WorkerUnits(Append(cs, c), field) = old \cup new
    <2>1. \A k \in 1..n : k \in DOMAIN cs \/ k = n
      BY <1>1
    <2>2. \A k \in DOMAIN cs : k \in 1..n
      BY <1>1
    <2>3. n \in 1..n
      BY <1>1
    <2>4. WorkersOf(Append(cs, c)) = WorkersOf(cs) \cup {n}
      BY <1>1, <1>2, <2>1, <2>2, <2>3 DEF WorkersOf
    <2>5. \A k \in WorkersOf(cs) : Append(cs, c)[k] = cs[k]
      BY <1>2 DEF WorkersOf
    <2>6. Units(Append(cs, c), WorkersOf(cs) \cup {n}, field) = Units(cs, WorkersOf(cs), field) \cup new
      <3>1. \A k \in WorkersOf(cs) : Append(cs, c)[k][field] = cs[k][field]
        BY <2>5
      <3>2. Append(cs, c)[n][field] = c[field]
        BY <1>2
      <3> DEFINE more == Append(cs, c)
      <3>3. \A k \in WorkersOf(cs) : {k} \X (1..more[k][field]) = {k} \X (1..cs[k][field])
        BY <3>1
      <3>4. {n} \X (1..more[n][field]) = new
        BY <3>2
      <3> HIDE DEF n, more, new
      <3>5. ASSUME NEW x
            PROVE  /\ x \in Units(more, WorkersOf(cs) \cup {n}, field) <=>
                        \E k \in WorkersOf(cs) \cup {n} : x \in {k} \X (1..more[k][field])
                   /\ x \in Units(cs, WorkersOf(cs), field) <=>
                        \E k \in WorkersOf(cs) : x \in {k} \X (1..cs[k][field])
        BY DEF Units
      <3>6. ASSUME NEW x
            PROVE  x \in Units(more, WorkersOf(cs) \cup {n}, field)
                     <=> x \in Units(cs, WorkersOf(cs), field) \cup new
        BY <3>3, <3>4, <3>5, Zenon
      <3>7. Units(more, WorkersOf(cs) \cup {n}, field) = Units(cs, WorkersOf(cs), field) \cup new
        BY <3>6
      <3>8. QED
        BY <3>7 DEF more
    <2>7. QED
      BY <2>4, <2>6 DEF WorkerUnits
  <1>4. old \cap new = {}
    <2>1. n \notin DOMAIN cs
      BY <1>1
    <2>2. QED
      BY <2>1 DEF WorkerUnits, WorkersOf, Units
  <1>5. IsFiniteSet(new) /\ Cardinality(new) = c[field]
    <2>1. IsFiniteSet({n}) /\ Cardinality({n}) = 1
      BY FS_Singleton
    <2>2. \A m \in Nat : IsFiniteSet(1..m) /\ Cardinality(1..m) = m
      <3>1. SUFFICES ASSUME NEW m \in Nat PROVE IsFiniteSet(1..m) /\ Cardinality(1..m) = m
        OBVIOUS
      <3>2. 1 \in Int /\ m \in Int
        OBVIOUS
      <3>3. IsFiniteSet(1..m) /\ Cardinality(1..m) = IF 1 > m THEN 0 ELSE m - 1 + 1
        BY <3>2, FS_Interval, Zenon
      <3>4. QED
        BY <3>3
    <2>3. IsFiniteSet(1..c[field]) /\ Cardinality(1..c[field]) = c[field]
      BY <2>2
    <2>4. IsFiniteSet(new) /\ Cardinality(new) = Cardinality({n}) * Cardinality(1..c[field])
      BY <2>1, <2>3, FS_Product
    <2>5. 1 * c[field] = c[field]
      OBVIOUS
    <2>6. QED
      BY <2>1, <2>3, <2>4, <2>5
  <1>6. IsFiniteSet(old) /\ Cardinality(old) = sum
    BY DEF Counted
  <1>7. /\ IsFiniteSet(old \cup new)
        /\ Cardinality(old \cup new) = Cardinality(old) + Cardinality(new) - Cardinality(old \cap new)
    BY <1>5, <1>6, FS_Union
  <1>8. Cardinality(old \cap new) = 0
    BY <1>4, FS_EmptySet
  <1> HIDE DEF old, new
  <1>9. Cardinality(old \cup new) = sum + c[field]
    BY <1>5, <1>6, <1>7, <1>8
  <1>10. QED
    BY <1>3, <1>7, <1>9 DEF Counted

\* At most one of the memory flags is accepted.
LEMMA OneMemoryFlag ==
  ASSUME in \in Input, MemoryOK, NEW f \in in.memFlags, NEW g \in in.memFlags
  PROVE  f = g
  <1>1. IsFiniteSet(MemoryFlags)
    <2>1. IsFiniteSet({"node"} \cup {"task"} \cup {"cpu"} \cup {"gpu"})
      <3>1. IsFiniteSet({"node"})
        BY FS_Singleton
      <3>2. IsFiniteSet({"node"} \cup {"task"})
        BY <3>1, FS_AddElement
      <3>3. IsFiniteSet({"node"} \cup {"task"} \cup {"cpu"})
        BY <3>2, FS_AddElement
      <3>4. QED
        BY <3>3, FS_AddElement
    <2>2. MemoryFlags = {"node"} \cup {"task"} \cup {"cpu"} \cup {"gpu"}
      BY DEF MemoryFlags
    <2>3. QED
      BY <2>1, <2>2
  <1>2. in.memFlags \in SUBSET MemoryFlags
    BY DEF Input
  <1>3. IsFiniteSet(in.memFlags)
    BY <1>1, <1>2, FS_Subset
  <1>4. Cardinality(in.memFlags) \in Nat /\ Cardinality(in.memFlags) <= 1
    BY <1>3, FS_CardinalityType DEF MemoryOK
  <1>5. Cardinality(in.memFlags) # 0
    BY <1>3, FS_EmptySet
  <1>6. Cardinality(in.memFlags) = 1
    BY <1>4, <1>5
  <1>7. QED
    BY <1>3, <1>6, FS_Singleton

\* With memory per CPU or per GPU there is none per node and none per task.
LEMMA OnlyPerUnit ==
  ASSUME in \in Input, MemoryOK, PerUnit
  PROVE  "node" \notin in.memFlags /\ "task" \notin in.memFlags
  <1>1. PICK f \in {"cpu", "gpu"} : f \in in.memFlags
    BY DEF PerUnit
  <1>2. QED
    BY <1>1, OneMemoryFlag

\* The invariant holds initially.
LEMMA PodInit == Init => PodInv
  <1> SUFFICES ASSUME Init PROVE PodInv
    OBVIOUS
  <1>1. containers = <<>> /\ total.cpus = 0 /\ total.mem = 0 /\ Len(containers) = 0
    BY DEF Init, None
  <1>2. Requested
    BY <1>1, UnitsNone DEF Requested
  <1>3. QED
    BY <1>2, SizeInit DEF Init, PodInv, Fresh, Settled, Filled, Told

\* What the sums depend on besides containers and totals.
LEMMA InputOnly ==
  ASSUME in' = in
  PROVE  /\ Asked' = Asked /\ PerUnit' = PerUnit /\ FirstIsWorker' = FirstIsWorker
         /\ Cpus' = Cpus /\ TaskMemory' = TaskMemory
  BY DEF Asked, PerUnit, FirstIsWorker, IsWorker, Cpus, Gpus, TaskMemory

\* A worker that is appended together with what it adds to the totals.
LEMMA AppendRequested ==
  ASSUME PodInv, in' = in, FirstIsWorker, NEW c \in Container, Tasked(c),
         containers' = Append(containers, c), total'.cpus = total.cpus + Cpus,
         PerUnit => total'.mem = total.mem + TaskMemory
  PROVE  Requested'
  <1>0. TypeOK /\ in \in Input /\ containers \in Seq(Container) /\ Requested
    BY DEF PodInv, SizeInv, TypeOK
  <1>1. total.cpus \in Nat /\ total.mem \in Nat /\ Cpus \in Nat /\ TaskMemory \in Nat
    BY <1>0, TaskTypes DEF TypeOK
  <1>2. Asked => Counted(total'.cpus, containers', "cpus")
    <2>1. SUFFICES ASSUME Asked PROVE Counted(total'.cpus, containers', "cpus")
      OBVIOUS
    <2>2. c.worker /\ c["cpus"] = Cpus /\ Counted(total.cpus, containers, "cpus")
      BY <1>0, <2>1 DEF Tasked, Requested
    <2>3. Counted(total.cpus + c["cpus"], Append(containers, c), "cpus")
      BY <1>0, <1>1, <2>2, UnitsAppend
    <2>4. QED
      BY <2>2, <2>3
  <1>3. Asked /\ PerUnit => Counted(total'.mem, containers', "mem")
    <2>1. SUFFICES ASSUME Asked, PerUnit PROVE Counted(total'.mem, containers', "mem")
      OBVIOUS
    <2>2. c.worker /\ c["mem"] = TaskMemory /\ Counted(total.mem, containers, "mem")
      BY <1>0, <2>1 DEF Tasked, Requested
    <2>3. Counted(total.mem + c["mem"], Append(containers, c), "mem")
      BY <1>0, <1>1, <2>2, UnitsAppend
    <2>4. QED
      BY <2>1, <2>2, <2>3
  <1>4. Tasked(containers'[1])
    <2>1. CASE Len(containers) = 0
      BY <2>1, <1>0
    <2>2. CASE Len(containers) # 0
      <3>1. Len(containers) >= 1 /\ containers'[1] = containers[1]
        BY <1>0, <2>2
      <3>2. QED
        BY <1>0, <3>1 DEF Requested
    <2>3. QED
      BY <2>1, <2>2
  <1>5. Len(in.template) = 1 => \A k \in DOMAIN containers' : containers'[k].worker
    <2>1. SUFFICES ASSUME Len(in.template) = 1, NEW k \in DOMAIN containers' PROVE containers'[k].worker
      OBVIOUS
    <2>2. \/ k \in DOMAIN containers /\ containers'[k] = containers[k]
          \/ containers'[k] = c
      BY <1>0, <2>1
    <2>3. QED
      BY <1>0, <2>1, <2>2 DEF Requested, Tasked
  <1>6. QED
    BY <1>2, <1>3, <1>4, <1>5, InputOnly DEF Requested, Tasked

\* The loop over the template keeps the sums.
LEMMA TemplateRequested ==
  ASSUME PodInv, TemplateContainer
  PROVE  Requested'
  <1>0. TypeOK /\ in \in Input /\ containers \in Seq(Container) /\ Requested
    BY DEF PodInv, SizeInv, TypeOK
  <1>1. in' = in /\ in.template \in Seq(Own) /\ Len(containers) < Len(in.template)
    BY <1>0 DEF TemplateContainer, Input
  <1> SUFFICES ASSUME FirstIsWorker
               PROVE  Requested'
    BY <1>1, InputOnly DEF Requested
  <1>2. PICK own \in Own : own = in.template[Len(containers) + 1]
    BY <1>0, <1>1
  <1>3. Worker(own) \in Container /\ Other(own) \in Container
    BY <1>0, <1>1, ContainerTypes
  <1>4. CASE IsWorker(Len(containers) + 1)
    <2>1. Tasked(Worker(own))
      BY DEF Worker, Tasked
    <2>2. containers' = Append(containers, Worker(own))
            /\ total'.cpus = total.cpus + Cpus /\ total'.mem = total.mem + TaskMemory
      BY <1>2, <1>4 DEF TemplateContainer, Add
    <2>3. QED
      BY <1>1, <1>3, <2>1, <2>2, AppendRequested
  <1>5. CASE ~IsWorker(Len(containers) + 1)
    <2>1. containers' = Append(containers, Other(own)) /\ total' = total /\ ~Other(own).worker
      BY <1>2, <1>5 DEF TemplateContainer, Other
    <2>2. Len(containers) >= 1
      BY <1>0, <1>5 DEF FirstIsWorker
    <2>3. containers'[1] = containers[1]
      BY <1>0, <2>1, <2>2
    <2>4. Len(in.template) # 1
      BY <1>0, <1>1, <2>2
    <2>5. Asked => Counted(total'.cpus, containers', "cpus")
      BY <1>0, <1>3, <2>1, UnitsOther DEF Requested
    <2>6. Asked /\ PerUnit => Counted(total'.mem, containers', "mem")
      BY <1>0, <1>3, <2>1, UnitsOther DEF Requested
    <2>7. Tasked(containers'[1])
      BY <1>0, <2>2, <2>3 DEF Requested
    <2>8. QED
      BY <1>1, <2>4, <2>5, <2>6, <2>7, InputOnly DEF Requested, Tasked
  <1>6. QED
    BY <1>4, <1>5

\* The loop that replicates the first container keeps the sums.
LEMMA ReplicaRequested ==
  ASSUME PodInv, Replica
  PROVE  Requested'
  <1>0. TypeOK /\ in \in Input /\ containers \in Seq(Container) /\ Requested /\ MemoryOK
    BY DEF PodInv, SizeInv, TypeOK, Settled, Replica
  <1>1. in' = in /\ in.template \in Seq(Own)
    BY <1>0 DEF Replica, Stop, Input
  <1> SUFFICES ASSUME FirstIsWorker
               PROVE  Requested'
    BY <1>1, InputOnly DEF Requested
  <1>2. in.template # <<>>
    BY DEF FirstIsWorker
  <1>3. Len(containers) >= 1
    BY <1>0, <1>1, <1>2 DEF Replica
  <1>4. containers[1] \in Container /\ Tasked(containers[1])
    BY <1>0, <1>3 DEF Requested
  <1>5. containers' = Append(containers, containers[1]) /\ total'.cpus = total.cpus + Cpus
    BY <1>2 DEF Replica, ReplicaTotals, Add
  <1>6. PerUnit => total'.mem = total.mem + TaskMemory
    <2>1. PerUnit => "task" \notin in.memFlags
      BY <1>0, OnlyPerUnit
    <2>2. QED
      BY <1>2, <2>1 DEF Replica, ReplicaTotals, Add
  <1>7. QED
    BY <1>1, <1>4, <1>5, <1>6, AppendRequested

\* A step that leaves input, containers and totals alone keeps the sums.
LEMMA RequestedUnchanged ==
  ASSUME Requested, UNCHANGED <<in, containers, total>>
  PROVE  Requested'
  BY InputOnly DEF Requested, Tasked

\* Every step keeps the invariant.
LEMMA PodNext == PodInv /\ [Next]_vars => PodInv'
  <1> SUFFICES ASSUME PodInv, [Next]_vars PROVE PodInv'
    OBVIOUS
  <1>0. SizeInv /\ SizeInv' /\ Fresh /\ Settled /\ Filled /\ Requested /\ Told /\ TypeOK
    BY SizeNext DEF PodInv, SizeInv
  <1> USE DEF PodInv
  <1>j. in \in Input /\ in.template \in Seq(Own) /\ containers \in Seq(Container) /\ Deref(perNode) \in Int
    BY <1>0, DerefSize, SmallInts DEF TypeOK, Input
  <1>i. in \in Input /\ Len(in.template) \in Nat /\ containers \in Seq(Container) /\ Deref(perNode) \in Int
    BY <1>j
  <1> DEFINE Ends == \E how \in {"error", "panic"} : Stop(how)
  <1>1. CASE Ends
    <2>1. Requested'
      BY <1>0, <1>1, RequestedUnchanged DEF Stop
    <2>2. pc' \in {"error", "panic"}
      BY <1>1 DEF Stop, Goto
    <2>3. QED
      BY <1>0, <2>1, <2>2 DEF Fresh, Settled, Filled, Told
  <1>2. CASE CheckFlags /\ ~Ends
    <2>1. Stop("parse") /\ pc = "flags"
      BY <1>2 DEF CheckFlags
    <2>2. Requested'
      BY <1>0, <2>1, RequestedUnchanged DEF Stop
    <2>3. QED
      BY <1>0, <2>1, <2>2 DEF Stop, Goto, Fresh, Settled, Filled, Told
  <1>3. CASE Parse /\ ~Ends
    <2>1. pc = "parse" /\ pc' = "complete" /\ UNCHANGED <<in, containers, total>>
      BY <1>3 DEF Parse, Goto
    <2>2. Requested'
      BY <1>0, <2>1, RequestedUnchanged
    <2>3. QED
      BY <1>0, <2>1, <2>2 DEF Fresh, Settled, Filled, Told
  <1>4. CASE Complete /\ ~Ends
    <2>1. pc = "complete" /\ pc' = "build" /\ MemoryOK /\ UNCHANGED <<in, containers, total>>
      BY <1>4 DEF Complete, Goto, Accepted
    <2>2. Requested'
      BY <1>0, <2>1, RequestedUnchanged
    <2>3. MemoryOK'
      BY <2>1 DEF MemoryOK
    <2>4. QED
      BY <1>0, <2>1, <2>2, <2>3 DEF Fresh, Settled, Filled, Told
  <1>5. CASE NewJob /\ ~Ends
    <2>1. /\ pc = "build" /\ pc' = "template" /\ completions' = completion
          /\ UNCHANGED <<in, nodes, nTasks, perNode, containers, total, env>>
      BY <1>5 DEF NewJob, Goto
    <2>2. Requested'
      BY <1>0, <2>1, RequestedUnchanged
    <2>3. MemoryOK' /\ completion' = completion
      BY <1>0, <2>1 DEF MemoryOK, completion, Settled
    <2>4. Len(containers') = 0
      BY <1>0, <2>1 DEF Fresh
    <2>5. Filled'
      BY <1>i, <2>1, <2>4 DEF Filled
    <2>6. QED
      BY <1>0, <2>1, <2>2, <2>3, <2>5 DEF Fresh, Settled, Told
  <1>6. CASE TemplateContainer
    <2>1. /\ pc = "template" /\ pc' = "template" /\ UNCHANGED <<in, nodes, nTasks, perNode, completions>>
          /\ Len(containers) < Len(in.template) /\ Len(containers') = Len(containers) + 1
      BY <1>6, <1>i DEF TemplateContainer
    <2>2. Requested'
      BY <1>6, TemplateRequested
    <2>3. MemoryOK' /\ completion' = completion
      BY <1>0, <2>1 DEF MemoryOK, completion, Settled
    <2>4. Filled'
      BY <1>i, <2>1 DEF Filled
    <2>5. QED
      BY <1>0, <2>1, <2>2, <2>3, <2>4 DEF Fresh, Settled, Told
  <1>7. CASE Replica /\ ~Ends
    <2>1. /\ pc = "template" /\ pc' = "template" /\ UNCHANGED <<in, nodes, nTasks, perNode, completions>>
          /\ Len(containers') = Len(containers) + 1 /\ Replicas + 1 < Deref(perNode)
      BY <1>7, <1>i DEF Replica, MoreReplicas
    <2>2. Requested'
      BY <1>7, ReplicaRequested
    <2>3. MemoryOK' /\ completion' = completion
      BY <1>0, <2>1 DEF MemoryOK, completion, Settled
    <2>4. Replicas' < Deref(perNode')
      <3>1. Len(containers) \in Nat
        BY <1>i
      <3>2. Replicas' = Replicas + 1 /\ Deref(perNode') = Deref(perNode)
        BY <1>i, <2>1, <3>1 DEF Replicas
      <3>3. QED
        BY <2>1, <3>2
    <2>5. Filled'
      BY <2>1, <2>4 DEF Filled
    <2>6. QED
      BY <1>0, <2>1, <2>2, <2>3, <2>5 DEF Fresh, Settled, Told
  <1>8. CASE Totals
    <2>1. /\ pc = "template" /\ pc' = "script" /\ Len(containers) >= Len(in.template) /\ ~MoreReplicas
          /\ UNCHANGED <<in, nodes, nTasks, perNode, containers, total, completions>>
          /\ env'.cpusOnNode = total.cpus
          /\ "node" \notin in.memFlags => env'.memPerNode = total.mem
      BY <1>8 DEF Totals, Goto
    <2>2. Requested'
      BY <1>0, <2>1, RequestedUnchanged
    <2>3. MemoryOK /\ MemoryOK' /\ completion' = completion
      BY <1>0, <2>1 DEF MemoryOK, completion, Settled
    <2>4. Filled'
      BY <1>0, <2>1 DEF Filled, Replicas, MoreReplicas
    <2>5. PerUnit => "node" \notin in.memFlags
      BY <1>i, <2>3, OnlyPerUnit
    <2>6. Told'
      BY <2>1, <2>5 DEF Told, PerUnit
    <2>7. QED
      BY <1>0, <2>1, <2>2, <2>3, <2>4, <2>6 DEF Fresh, Settled
  <1>9. CASE BuildScripts /\ ~Ends
    <2>1. pc = "script" /\ Stop("done")
      BY <1>9 DEF BuildScripts
    <2>2. Requested'
      BY <1>0, <2>1, RequestedUnchanged DEF Stop
    <2>3. MemoryOK' /\ completion' = completion
      BY <1>0, <2>1 DEF MemoryOK, completion, Settled, Stop
    <2>4. Filled'
      BY <1>0, <2>1 DEF Filled, Replicas, MoreReplicas, Stop, Goto
    <2>5. QED
      BY <1>0, <2>1, <2>2, <2>3, <2>4 DEF Stop, Goto, Fresh, Settled, Told, PerUnit
  <1>10. CASE UNCHANGED vars
    <2>1. Requested'
      BY <1>0, <1>10, RequestedUnchanged DEF vars
    <2>2. QED
      BY <1>0, <1>10, <2>1 DEF vars, Fresh, Settled, MemoryOK, completion, Filled, Replicas, MoreReplicas,
         Told, PerUnit
  <1>11. QED
    BY <1>1, <1>2, <1>3, <1>4, <1>5, <1>6, <1>7, <1>8, <1>9, <1>10 DEF Next, Terminated

\* A Job made from a template with one container, a worker, runs the script in
\* as many containers as there are tasks, or that many for each index of an
\* array (slurm_builder.go:295-315), unless their number overflows, for every
\* width of the integers.
THEOREM EveryTaskRuns == Spec => []RunsEveryTask
  <1>1. PodInv => RunsEveryTask
    <2> SUFFICES ASSUME PodInv, pc = "done", Len(in.template) = 1, FirstIsWorker,
                        Deref(nodes) * Deref(perNode) \in GoInt
                 PROVE  /\ \A k \in DOMAIN containers : containers[k].worker
                        /\ (IF in.array # 0 THEN 1 ELSE completions) * Len(containers) = Deref(nTasks)
      BY DEF RunsEveryTask
    <2>0. TypeOK
      BY DEF PodInv, SizeInv
    <2>1. /\ Deref(nodes) \in Int /\ Deref(perNode) \in Int /\ Len(containers) \in Nat
          /\ in.array \in Nat
      <3>1. Deref(nodes) \in Int /\ Deref(perNode) \in Int
        BY <2>0, DerefSize, SmallInts DEF TypeOK
      <3>2. containers \in Seq(Container) /\ in.array \in Nat
        BY <2>0 DEF TypeOK, Input
      <3>3. QED
        BY <3>1, <3>2
    <2>2. Deref(nodes) >= 1
      BY <2>1 DEF PodInv, SizeInv, Sized, ArrayOK, completion
    <2>3. Deref(perNode) >= 1 /\ Deref(nTasks) = Deref(nodes) * Deref(perNode)
      BY <2>2, WrapExact DEF PodInv, SizeInv, Sized, Good
    <2>4. Len(containers) = Deref(perNode)
      BY <2>1, <2>3 DEF PodInv, Filled, Replicas, MoreReplicas
    <2>5. (IF in.array # 0 THEN 1 ELSE completions) = Deref(nodes)
      BY DEF PodInv, Settled, SizeInv, Sized, ArrayOK, completion
    <2>6. \A k \in DOMAIN containers : containers[k].worker
      BY DEF PodInv, Requested
    <2>7. QED
      BY <2>1, <2>3, <2>4, <2>5, <2>6
  <1>2. QED
    BY <1>1, PodInit, PodNext, PTL DEF Spec

\* When the flags give the workers requests, SLURM_CPUS_ON_NODE, and with
\* memory per CPU or per GPU SLURM_MEM_PER_NODE, are the sums of what the
\* containers that run the script request (slurm_builder.go:228-319), for every
\* template whose first container is a worker, whatever its containers request
\* of their own accord, and every number of replicas.
THEOREM TotalsAreSums == Spec => []TellsWhatIsRequested
  <1>1. PodInv => TellsWhatIsRequested
    BY DEF PodInv, TellsWhatIsRequested, Told, Requested, Counted, WorkerUnits, PerUnit, Sum
  <1>2. QED
    BY <1>1, PodInit, PodNext, PTL DEF Spec
=============================================================================
