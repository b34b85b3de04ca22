--------------------------- MODULE ModelTurnProofs ---------------------------
(***************************************************************************)
(* Proofs about ModelTurn, for any budget, any lengths and memories, any    *)
(* generations and any schemas.                                             *)
(***************************************************************************)
EXTENDS ModelTurn, FiniteSetTheorems, SequenceTheorems, WellFoundedInduction, TLAPS

(* Induction, on sets of numbers.                                           *)

(* A set of natural numbers has a least one. *)
LEMMA LeastNumber ==
  ASSUME NEW T, T \subseteq Nat, T # {}
  PROVE  \E x \in T : \A y \in T : x <= y
<1>1. PICK x \in T : \A y \in T : ~(<<y, x>> \in OpToRel(<, Nat))
  BY NatLessThanWellFounded, WFMin
<1>2. \A y \in T : ~(y < x)
  BY <1>1 DEF OpToRel
<1> QED BY <1>2

(* A set of natural numbers that has 0 and the successor of each of its     *)
(* elements has them all.                                                   *)
LEMMA SetInduction ==
  ASSUME NEW D, 0 \in D, \A k \in Nat : k \in D => k + 1 \in D
  PROVE  \A k \in Nat : k \in D
<1> SUFFICES ASSUME Nat \ D # {} PROVE FALSE
  OBVIOUS
<1>1. PICK x \in Nat \ D : \A y \in Nat \ D : x <= y
  BY LeastNumber
<1>2. x - 1 \in Nat /\ x - 1 \notin Nat \ D
  BY <1>1
<1>3. x \in D
  BY <1>2
<1> QED BY <1>1, <1>3

(* What F makes, step by step, out of a first value.                        *)
StepFunctions(n, S) == [1..n -> [S -> S]]

IsSteps(f, F, n, S, s0) ==
  f \in [0..n -> S] /\ f[0] = s0 /\ \A i \in 1..n : f[i] = F[i][f[i - 1]]

(* Such a function exists, so that a recursive definition over numbers is    *)
(* what it says.                                                            *)
LEMMA StepsExist ==
  ASSUME NEW n \in Nat, NEW S, NEW s0 \in S, NEW F \in StepFunctions(n, S)
  PROVE  \E f : IsSteps(f, F, n, S, s0)
<1> SUFFICES \E f \in [0..n -> S] : f[0] = s0 /\ \A i \in 1..n : f[i] = F[i][f[i - 1]]
  BY DEF IsSteps
<1> USE DEF StepFunctions
<1> DEFINE Steps(f, k) == f[0] = s0 /\ \A i \in 1..k : f[i] = F[i][f[i - 1]]
           D == {k \in Nat : k <= n => \E f \in [0..k -> S] : Steps(f, k)}
<1>1. 0 \in D
  <2>1. [i \in 0..0 |-> s0] \in [0..0 -> S] /\ Steps([i \in 0..0 |-> s0], 0)
    OBVIOUS
  <2> QED BY <2>1
<1>2. ASSUME NEW k \in Nat, k \in D PROVE k + 1 \in D
  <2> SUFFICES ASSUME k + 1 <= n PROVE \E g \in [0..k + 1 -> S] : Steps(g, k + 1)
    OBVIOUS
  <2>1. PICK f \in [0..k -> S] : Steps(f, k)
    BY <1>2
  <2> DEFINE g == [i \in 0..k + 1 |-> IF i <= k THEN f[i] ELSE F[i][f[i - 1]]]
  <2>2. f[k] \in S /\ F[k + 1] \in [S -> S]
    OBVIOUS
  <2>3. F[k + 1][f[k]] \in S
    BY <2>2
  <2>4. \A i \in 0..k + 1 : g[i] \in S
    <3> SUFFICES ASSUME NEW i \in 0..k + 1 PROVE g[i] \in S
      OBVIOUS
    <3>1. CASE i <= k
      BY <3>1
    <3>2. CASE i = k + 1
      BY <2>3, <3>2
    <3> QED BY <3>1, <3>2
  <2>5. g \in [0..k + 1 -> S]
    BY <2>4
  <2>6. \A i \in 1..k + 1 : g[i - 1] = f[i - 1]
    OBVIOUS
  <2>7. \A i \in 1..k + 1 : g[i] = F[i][f[i - 1]]
    <3> SUFFICES ASSUME NEW i \in 1..k + 1 PROVE g[i] = F[i][f[i - 1]]
      OBVIOUS
    <3>1. CASE i <= k
      <4>1. g[i] = f[i] /\ i \in 1..k
        BY <3>1
      <4> QED BY <4>1, <2>1
    <3>2. CASE ~(i <= k)
      BY <3>2
    <3> QED BY <3>1, <3>2
  <2>8. Steps(g, k + 1)
    <3>1. g[0] = s0
      BY <2>1
    <3> HIDE DEF g
    <3> QED BY <3>1, <2>6, <2>7
  <2> HIDE DEF g, Steps
  <2> QED BY <2>5, <2>8
<1>3. n \in D
  <2> HIDE DEF D
  <2> QED BY <1>1, <1>2, SetInduction
<1> QED BY <1>3

-----------------------------------------------------------------------------
(* The context.                                                             *)

(* What the properties ask of a context for a prompt and a task. *)
Fits(c) ==
  IF c.system + 1 <= MaxChars THEN Total(c) <= MaxChars ELSE c.task = 0 /\ c.memory = <<>>

CutLast(c, task) ==
  c.task < task =>
    c.memory = <<>> /\ (Total(c) = MaxChars \/ (c.system + 1 > MaxChars /\ c.task = 0))

(* _trim_required makes a context fit, if there is memory in it only when   *)
(* the prompt leaves room.                                                  *)
LEMMA TrimFits ==
  ASSUME NEW system \in Nat, NEW task \in Nat, NEW memory, MaxChars \in Nat,
         system + 1 > MaxChars => memory = <<>>
  PROVE  LET c == [system |-> system, task |-> task, memory |-> memory]
         IN Fits(Trim(c)) /\ CutLast(Trim(c), task)
<1> DEFINE c == [system |-> system, task |-> task, memory |-> memory]
           bare == [c EXCEPT !.memory = <<>>]
<1>1. bare = [system |-> system, task |-> task, memory |-> <<>>]
  OBVIOUS
<1>2. Total(bare) = system + 1 + task
  BY <1>1 DEF Total
<1>3. CASE Total(c) <= MaxChars
  <2>1. Trim(c) = c
    BY <1>3 DEF Trim
  <2>2. system + 1 <= MaxChars
    <3> SUFFICES ASSUME system + 1 > MaxChars PROVE FALSE
      OBVIOUS
    <3>1. Total(c) = system + 1 + task
      BY DEF Total
    <3> QED BY <3>1, <1>3
  <2> QED BY <2>1, <2>2, <1>3 DEF Fits, CutLast
<1>4. CASE ~(Total(c) <= MaxChars) /\ Total(bare) <= MaxChars
  <2>1. Trim(c) = bare
    BY <1>4 DEF Trim
  <2>2. system + 1 <= MaxChars
    BY <1>2, <1>4
  <2> QED BY <2>1, <2>2, <1>1, <1>4 DEF Fits, CutLast
<1>5. CASE ~(Total(c) <= MaxChars) /\ ~(Total(bare) <= MaxChars)
  <2> DEFINE room == IF MaxChars - system - 1 < 0 THEN 0 ELSE MaxChars - system - 1
             cut == [system |-> system, task |-> IF task < room THEN task ELSE room,
                     memory |-> <<>>]
  <2>1. Allowance(bare) = room
    BY <1>1 DEF Allowance, AtLeast0
  <2>2. Trim(c) = [bare EXCEPT !.task = IF @ < Allowance(bare) THEN @ ELSE Allowance(bare)]
    <3>1. Allowance(c) = Allowance(bare)
      BY <1>1 DEF Allowance
    <3> QED BY <1>5, <3>1 DEF Trim
  <2>3. Trim(c) = cut
    BY <2>1, <2>2, <1>1
  <2>4. room \in Nat /\ cut.task \in Nat
    OBVIOUS
  <2>5. Total(cut) = system + 1 + cut.task
    BY DEF Total
  <2>6. cut.task = room
    BY <1>2, <1>5
  <2>7. Fits(cut)
    BY <2>5, <2>6 DEF Fits
  <2>8. CutLast(cut, task)
    <3>1. cut.memory = <<>> /\ cut.system = system
      OBVIOUS
    <3>2. Total(cut) = MaxChars \/ (system + 1 > MaxChars /\ cut.task = 0)
      BY <2>5, <2>6
    <3> HIDE DEF cut
    <3> QED BY <3>1, <3>2 DEF CutLast
  <2> QED BY <2>3, <2>7, <2>8
<1> QED BY <1>3, <1>4, <1>5

LEMMA BuildFits ==
  ASSUME NEW system \in Nat, NEW task \in Nat, NEW memories, MaxChars \in Nat
  PROVE  /\ Fits(Build(system, task, memories))
         /\ CutLast(Build(system, task, memories), task)
<1> DEFINE memory == IF Remaining(system, task) <= 0 THEN <<>>
                     ELSE Select(SearchMemories(memories), Remaining(system, task))
<1>1. system + 1 > MaxChars => Remaining(system, task) = 0
  BY DEF Remaining, AtLeast0
<1>2. system + 1 > MaxChars => memory = <<>>
  BY <1>1
<1>3. Build(system, task, memories) = Trim([system |-> system, task |-> task, memory |-> memory])
  BY DEF Build
<1> HIDE DEF memory
<1> QED BY <1>2, <1>3, TrimFits

(* A context is only looked at right after it was built. *)
LEMMA ContextIsBuilt ==
  ASSUME TurnAssumption, BudgetKept, TaskBeforeMemory, [Next]_vars
  PROVE  BudgetKept' /\ TaskBeforeMemory'
<1>1. CASE Assemble
  <2>1. PICK system \in Prompts, task \in Tasks, memories \in Memories :
          /\ input' = [system |-> system, task |-> task, memories |-> memories]
          /\ context' = Build(system, task, memories)
    BY <1>1 DEF Assemble
  <2>2. system \in Nat /\ task \in Nat /\ MaxChars \in Nat
    BY TurnAssumption DEF TurnAssumption
  <2>3. Fits(context') /\ CutLast(context', task) /\ input'.task = task
    BY <2>1, <2>2, BuildFits
  <2> QED BY <2>3 DEF BudgetKept, TaskBeforeMemory, Fits, CutLast, Total
<1>2. CASE Offer \/ AskLocal \/ AskOther \/ Interpret \/ Execute
  <2>1. stage' # "offer"
    BY <1>2 DEF Offer, AskLocal, AskOther, Interpret, Execute
  <2> QED BY <2>1 DEF BudgetKept, TaskBeforeMemory
<1>3. CASE UNCHANGED vars
  BY <1>3 DEF vars, BudgetKept, TaskBeforeMemory, Total
<1> QED BY <1>1, <1>2, <1>3 DEF Next

(* The assembled context keeps to its budget, memory included, and is cut   *)
(* to nothing beside a prompt that leaves no room (ContextAssembler.build,  *)
(* _trim_required).                                                         *)
THEOREM ContextKeepsBudget == Spec => []BudgetKept
<1>1. Init => BudgetKept /\ TaskBeforeMemory
  BY DEF Init, BudgetKept, TaskBeforeMemory
<1>2. BudgetKept /\ TaskBeforeMemory /\ [Next]_vars => (BudgetKept /\ TaskBeforeMemory)'
  BY TurnAssumption, ContextIsBuilt
<1> QED BY <1>1, <1>2, PTL DEF Spec

(* The task is cut only when all memory is out, and then to the exact       *)
(* budget: not by a character more than it asks for, and to nothing only    *)
(* beside a system prompt that exceeds it alone (_trim_required).           *)
THEOREM TaskIsCutLast == Spec => []TaskBeforeMemory
<1>1. Init => BudgetKept /\ TaskBeforeMemory
  BY DEF Init, BudgetKept, TaskBeforeMemory
<1>2. BudgetKept /\ TaskBeforeMemory /\ [Next]_vars => (BudgetKept /\ TaskBeforeMemory)'
  BY TurnAssumption, ContextIsBuilt
<1> QED BY <1>1, <1>2, PTL DEF Spec

-----------------------------------------------------------------------------
(* The length of a message.                                                 *)

LengthSteps(f, lines) ==
  /\ f[0] = Heading - 1
  /\ \A i \in 1..Len(lines) : f[i] = f[i - 1] + 1 + lines[i].len

(* The length of a message, line by line. *)
LEMMA JoinedIsASum ==
  ASSUME MemoryAssumption, NEW memories \in Memories, NEW lines \in Seq(memories), lines # <<>>
  PROVE  \E f \in [0..Len(lines) -> Int] : LengthSteps(f, lines) /\ Joined(lines) = f[Len(lines)]
<1> DEFINE n == Len(lines)
           F == [i \in 1..n |-> [sum \in Int |-> sum + 1 + lines[i].len]]
           Rec(g) == [i \in 0..n |-> IF i = 0 THEN Heading - 1 ELSE g[i - 1] + 1 + lines[i].len]
           length[i \in 0..n] == IF i = 0 THEN Heading - 1 ELSE length[i - 1] + 1 + lines[i].len
<1>1. n \in Nat /\ Heading - 1 \in Int /\ \A i \in 1..n : lines[i].len \in Nat
  <2>1. \A i \in 1..n : lines[i] \in memories
    OBVIOUS
  <2> QED BY <2>1 DEF MemoryAssumption
<1>2. F \in StepFunctions(n, Int)
  <2> HIDE DEF n
  <2> QED BY <1>1 DEF StepFunctions
<1>3. PICK g \in [0..n -> Int] : g[0] = Heading - 1 /\ \A i \in 1..n : g[i] = F[i][g[i - 1]]
  <2> DEFINE s0 == Heading - 1
  <2>1. s0 \in Int
    BY <1>1
  <2> HIDE DEF F, n, s0
  <2>2. \E g : IsSteps(g, F, n, Int, s0)
    BY <1>1, <1>2, <2>1, StepsExist
  <2> QED BY <2>2 DEF IsSteps, s0
<1>4. \A i \in 1..n : g[i] = g[i - 1] + 1 + lines[i].len
  <2> SUFFICES ASSUME NEW i \in 1..n PROVE g[i] = g[i - 1] + 1 + lines[i].len
    OBVIOUS
  <2>1. g[i - 1] \in Int
    <3> HIDE DEF n
    <3> QED BY <1>1
  <2> HIDE DEF n
  <2> QED BY <1>3, <2>1
<1>5. g = Rec(g)
  <2>1. \A i \in 0..n : g[i] = Rec(g)[i]
    <3> HIDE DEF n
    <3> QED BY <1>1, <1>3, <1>4
  <2> HIDE DEF n
  <2> QED BY <2>1
<1>6. length = Rec(length)
  BY <1>5, Zenon
<1>7. length[0] = Heading - 1 /\ \A i \in 1..n : length[i] = length[i - 1] + 1 + lines[i].len
  <2> HIDE DEF n, length
  <2> QED BY <1>1, <1>6
<1>8. \A k \in Nat : k <= n => length[k] \in Int
  <2> DEFINE D == {k \in Nat : k <= n => length[k] \in Int}
  <2>1. 0 \in D
    <3> HIDE DEF n, length
    <3> QED BY <1>1, <1>7
  <2>2. ASSUME NEW k \in Nat, k \in D PROVE k + 1 \in D
    <3> HIDE DEF n, length
    <3> SUFFICES ASSUME k + 1 <= n PROVE length[k + 1] \in Int
      OBVIOUS
    <3>1. k + 1 \in 1..n /\ (k + 1) - 1 = k /\ k <= n
      BY <1>1
    <3>2. length[k + 1] = length[k] + 1 + lines[k + 1].len
      BY <1>7, <3>1
    <3>3. length[k] \in Int /\ lines[k + 1].len \in Nat
      BY <1>1, <2>2, <3>1
    <3> QED BY <3>2, <3>3
  <2> HIDE DEF D
  <2>3. \A k \in Nat : k \in D
    BY <2>1, <2>2, SetInduction
  <2> QED BY <2>3 DEF D
<1>9. length \in [0..n -> Int]
  <2> HIDE DEF n, length
  <2>1. \A i \in 0..n : length[i] \in Int
    BY <1>1, <1>8
  <2> QED BY <2>1, <1>6
<1>10. Joined(lines) = length[n]
  BY Zenon DEF Joined
<1> HIDE DEF length
<1> QED BY <1>7, <1>9, <1>10 DEF LengthSteps

Begins(s, t) ==
  /\ Len(s) \in Nat /\ Len(t) \in Nat /\ Len(s) <= Len(t)
  /\ \A i \in 1..Len(s) : s[i] = t[i]

(* The same first lines have the same length. *)
LEMMA SameSteps ==
  ASSUME NEW f, NEW h, NEW s, NEW t, Begins(s, t), LengthSteps(f, s), LengthSteps(h, t)
  PROVE  f[Len(s)] = h[Len(s)]
<1> USE DEF Begins
<1> DEFINE D == {k \in Nat : k <= Len(s) => f[k] = h[k]}
<1>1. 0 \in D
  BY DEF LengthSteps
<1>2. ASSUME NEW k \in Nat, k \in D PROVE k + 1 \in D
  <2> SUFFICES ASSUME k + 1 <= Len(s) PROVE f[k + 1] = h[k + 1]
    OBVIOUS
  <2>1. k + 1 \in 1..Len(s) /\ k + 1 \in 1..Len(t) /\ (k + 1) - 1 = k /\ k <= Len(s)
    OBVIOUS
  <2>2. f[k + 1] = f[k] + 1 + s[k + 1].len /\ h[k + 1] = h[k] + 1 + t[k + 1].len
    BY <2>1 DEF LengthSteps
  <2> QED BY <1>2, <2>1, <2>2
<1>3. Len(s) \in D
  <2> HIDE DEF D
  <2> QED BY <1>1, <1>2, SetInduction
<1> QED BY <1>3

(* One more line costs itself and a newline, or the heading.                *)
LEMMA JoinedAppend ==
  ASSUME MemoryAssumption, NEW memories \in Memories, NEW lines \in Seq(memories),
         NEW m \in memories
  PROVE  /\ Joined(Append(lines, m)) =
              IF lines = <<>> THEN Heading + m.len ELSE Joined(lines) + 1 + m.len
         /\ Joined(lines) \in Int
<1> DEFINE n == Len(lines)
           more == Append(lines, m)
<1>1. n \in Nat /\ Heading \in Nat /\ m.len \in Nat
  BY DEF MemoryAssumption
<1>2. /\ more \in Seq(memories) /\ more # <<>> /\ Len(more) = n + 1 /\ more[n + 1] = m
      /\ \A i \in 1..n : lines[i] = more[i]
  OBVIOUS
<1>3. PICK h \in [0..n + 1 -> Int] : LengthSteps(h, more) /\ Joined(more) = h[n + 1]
  BY <1>2, JoinedIsASum
<1>4. Joined(more) = h[n] + 1 + m.len
  <2>1. n + 1 \in 1..Len(more) /\ (n + 1) - 1 = n
    BY <1>1, <1>2
  <2>2. h[n + 1] = h[(n + 1) - 1] + 1 + more[n + 1].len
    BY <1>3, <2>1 DEF LengthSteps
  <2> QED BY <1>2, <1>3, <2>1, <2>2
<1>5. CASE lines = <<>>
  <2>1. n = 0 /\ h[0] = Heading - 1 /\ Joined(lines) = 0
    BY <1>3, <1>5 DEF LengthSteps, Joined
  <2> QED BY <1>1, <1>4, <1>5, <2>1
<1>6. CASE lines # <<>>
  <2>1. PICK f \in [0..n -> Int] : LengthSteps(f, lines) /\ Joined(lines) = f[n]
    BY <1>6, JoinedIsASum
  <2>2. f[n] = h[n]
    <3>1. Begins(lines, more)
      BY <1>1, <1>2 DEF Begins
    <3>2. LengthSteps(f, lines) /\ LengthSteps(h, more)
      BY <1>3, <2>1
    <3> HIDE DEF more
    <3> QED BY <3>1, <3>2, SameSteps
  <2>3. f[n] \in Int
    BY <1>1, <2>1
  <2> HIDE DEF more, n
  <2> QED BY <1>4, <1>6, <2>1, <2>2, <2>3 DEF more
<1> QED BY <1>5, <1>6

-----------------------------------------------------------------------------
(* The hits that are taken.                                                 *)

SelectionSteps(f, hits, room) ==
  /\ f[0] = [chosen |-> <<>>, left |-> room]
  /\ \A i \in 1..Len(hits) : f[i] = TakeIfFits(f[i - 1], hits[i])

(* The hits are looked at one by one (ContextAssembler.build). *)
LEMMA SelectionIsStepwise ==
  ASSUME MemoryAssumption, NEW memories \in Memories, NEW hits \in Seq(memories), NEW room \in Nat
  PROVE  \E f : SelectionSteps(f, hits, room) /\ Select(hits, room) = f[Len(hits)].chosen
<1> DEFINE n == Len(hits)
           S == [chosen : Seq(memories), left : Int]
           s0 == [chosen |-> <<>>, left |-> room]
           F == [i \in 1..n |-> [acc \in S |-> TakeIfFits(acc, hits[i])]]
           Rec(g) == [i \in 0..n |-> IF i = 0 THEN [chosen |-> <<>>, left |-> room]
                                     ELSE TakeIfFits(g[i - 1], hits[i])]
           after[i \in 0..n] == IF i = 0 THEN [chosen |-> <<>>, left |-> room]
                                ELSE TakeIfFits(after[i - 1], hits[i])
<1>1. n \in Nat /\ Heading \in Nat /\ s0 \in S /\ \A i \in 1..n : hits[i] \in memories
  BY DEF MemoryAssumption
<1>2. \A acc \in S, m \in memories : TakeIfFits(acc, m) \in S
  <2> SUFFICES ASSUME NEW acc \in S, NEW m \in memories PROVE TakeIfFits(acc, m) \in S
    OBVIOUS
  <2>1. m.len \in Nat
    BY DEF MemoryAssumption
  <2>2. Cost(acc.chosen, m) \in Int
    BY <1>1, <2>1 DEF Cost
  <2>3. Append(acc.chosen, m) \in Seq(memories)
    OBVIOUS
  <2> QED BY <2>2, <2>3 DEF TakeIfFits
<1>3. F \in StepFunctions(n, S)
  <2> HIDE DEF n, S
  <2> QED BY <1>1, <1>2 DEF StepFunctions
<1>4. PICK g : IsSteps(g, F, n, S, s0)
  <2> HIDE DEF n, S, F, s0
  <2> QED BY <1>1, <1>3, StepsExist
<1>5. \A i \in 1..n : g[i] = TakeIfFits(g[i - 1], hits[i])
  <2> SUFFICES ASSUME NEW i \in 1..n PROVE g[i] = TakeIfFits(g[i - 1], hits[i])
    OBVIOUS
  <2> HIDE DEF n, S
  <2>1. g[i - 1] \in S
    BY <1>1, <1>4 DEF IsSteps
  <2> QED BY <1>4, <2>1 DEF IsSteps
<1>6. g = Rec(g)
  <2>1. \A i \in 0..n : g[i] = Rec(g)[i]
    <3> HIDE DEF n, S
    <3> QED BY <1>1, <1>4, <1>5 DEF IsSteps
  <2> HIDE DEF n, S
  <2> QED BY <1>4, <2>1 DEF IsSteps
<1>7. after = Rec(after)
  BY <1>6, Zenon
<1>8. SelectionSteps(after, hits, room)
  <2> HIDE DEF after
  <2>1. \A i \in 0..n : after[i] = Rec(after)[i]
    BY <1>7
  <2> QED BY <1>1, <2>1 DEF SelectionSteps
<1>9. Select(hits, room) = after[n].chosen
  BY Zenon DEF Select
<1> HIDE DEF after
<1> QED BY <1>8, <1>9

(* Hits come by rank. *)
ByRank(hits) == \A i, j \in 1..Len(hits) : Ranked(hits[i], hits[j]) <=> i < j

(* m is left out for want of room, after the better lines of what is taken. *)
LeftOut(taken, m, room) ==
  \E n \in 0..Len(taken) :
    /\ \A i \in 1..Len(taken) : i <= n <=> Ranked(taken[i], m)
    /\ Joined(Append(SubSeq(taken, 1, n), m)) > room

TakenFrom(taken, hits, i) == \A x \in 1..Len(taken) : \E y \in 1..i : taken[x] = hits[y]

(* What is left of the room is what the taken lines do not use. *)
Spent(taken, left, room) == room = left + (IF taken = <<>> THEN 0 ELSE Joined(taken))

(* After the first i hits. *)
SelectionInv(acc, hits, room, i) ==
  /\ acc.left \in Nat
  /\ Spent(acc.chosen, acc.left, room)
  /\ TakenFrom(acc.chosen, hits, i)
  /\ \A j \in 1..i : hits[j] \in ToSet(acc.chosen) \/ LeftOut(acc.chosen, hits[j], room)

(* What is left out stays left out when a worse line is added.              *)
LEMMA LeftOutStays ==
  ASSUME NEW memories, NEW taken \in Seq(memories), NEW m, NEW o \in memories, NEW room,
         LeftOut(taken, m, room), ~Ranked(o, m)
  PROVE  LeftOut(Append(taken, o), m, room)
<1> DEFINE more == Append(taken, o)
<1>1. PICK n \in 0..Len(taken) :
        /\ \A i \in 1..Len(taken) : i <= n <=> Ranked(taken[i], m)
        /\ Joined(Append(SubSeq(taken, 1, n), m)) > room
  BY DEF LeftOut
<1>2. /\ Len(more) = Len(taken) + 1 /\ Len(taken) \in Nat /\ more[Len(taken) + 1] = o
      /\ \A i \in 1..Len(taken) : more[i] = taken[i]
  OBVIOUS
<1>3. SubSeq(more, 1, n) = SubSeq(taken, 1, n)
  <2>1. n \in Nat /\ n <= Len(taken) /\ \A i \in 1..n : more[i] = taken[i]
    BY <1>2
  <2> QED BY <1>2, <2>1
<1>4. \A i \in 1..Len(more) : i <= n <=> Ranked(more[i], m)
  <2> SUFFICES ASSUME NEW i \in 1..Len(more) PROVE i <= n <=> Ranked(more[i], m)
    OBVIOUS
  <2> HIDE DEF more
  <2>1. CASE i = Len(taken) + 1
    BY <1>2, <2>1
  <2>2. CASE i # Len(taken) + 1
    <3>1. i \in 1..Len(taken)
      BY <1>2, <2>2
    <3> QED BY <1>1, <1>2, <3>1
  <2> QED BY <2>1, <2>2
<1>5. n \in 0..Len(more)
  BY <1>2
<1> HIDE DEF more
<1> QED BY <1>1, <1>3, <1>4, <1>5 DEF LeftOut, more

(* The cost of a line is what it takes from the room. *)
LEMMA CostIsExact ==
  ASSUME MemoryAssumption, NEW memories \in Memories, NEW taken \in Seq(memories),
         NEW m \in memories, NEW room \in Nat, NEW left \in Nat, Spent(taken, left, room)
  PROVE  Cost(taken, m) \in Int /\ Spent(Append(taken, m), left - Cost(taken, m), room)
<1>1. /\ Joined(Append(taken, m)) =
           IF taken = <<>> THEN Heading + m.len ELSE Joined(taken) + 1 + m.len
      /\ Joined(taken) \in Int
  BY JoinedAppend
<1>2. m.len \in Nat /\ Heading \in Nat /\ Append(taken, m) # <<>>
  BY DEF MemoryAssumption
<1>3. CASE taken = <<>>
  <2>1. Cost(taken, m) = m.len + Heading
    BY <1>3 DEF Cost
  <2>2. room = left /\ Joined(Append(taken, m)) = Heading + m.len
    BY <1>1, <1>3 DEF Spent
  <2>3. room = left - Cost(taken, m) + Joined(Append(taken, m))
    BY ONLY <1>2, <2>1, <2>2, left \in Nat
  <2> QED BY <1>2, <2>1, <2>3 DEF Spent
<1>4. CASE taken # <<>>
  <2>1. Cost(taken, m) = m.len + 1
    BY <1>4 DEF Cost
  <2>2. room = left + Joined(taken) /\ Joined(Append(taken, m)) = Joined(taken) + 1 + m.len
    BY <1>1, <1>4 DEF Spent
  <2>3. Joined(taken) \in Int /\ m.len \in Nat
    BY <1>1, <1>2
  <2>4. room = left - Cost(taken, m) + Joined(Append(taken, m))
    BY ONLY <2>1, <2>2, <2>3, left \in Nat
  <2> QED BY <1>2, <2>1, <2>4 DEF Spent
<1> QED BY <1>3, <1>4

(* The next hit is taken, or left out for want of room. *)
LEMMA SelectionStep ==
  ASSUME MemoryAssumption, NEW memories \in Memories, NEW hits \in Seq(memories), ByRank(hits),
         NEW room \in Nat, NEW i \in 1..Len(hits),
         NEW acc, acc.chosen \in Seq(memories), SelectionInv(acc, hits, room, i - 1)
  PROVE  LET next == TakeIfFits(acc, hits[i]) IN
         /\ next.chosen \in Seq(memories)
         /\ SelectionInv(next, hits, room, i)
<1> DEFINE m == hits[i]
           cost == Cost(acc.chosen, m)
           taken == acc.chosen
           more == Append(taken, m)
           next == TakeIfFits(acc, m)
<1> SUFFICES next.chosen \in Seq(memories) /\ SelectionInv(next, hits, room, i)
  OBVIOUS
<1>1. m \in memories /\ m.len \in Nat /\ Heading \in Nat \ {0} /\ acc.left \in Nat
  BY DEF MemoryAssumption, SelectionInv
<1>2. cost \in Int /\ Spent(more, acc.left - cost, room)
  <2>1. Spent(taken, acc.left, room)
    BY DEF SelectionInv
  <2> QED BY <1>1, <2>1, CostIsExact
<1>3. CASE cost <= acc.left
  <2>1. next = [chosen |-> more, left |-> acc.left - cost]
    BY <1>3 DEF TakeIfFits
  <2>2. next.chosen = more /\ next.left = acc.left - cost
    BY <2>1
  <2>3. /\ more \in Seq(memories) /\ more # <<>> /\ Len(more) = Len(taken) + 1
        /\ Len(taken) \in Nat /\ more[Len(taken) + 1] = m
        /\ \A x \in 1..Len(taken) : more[x] = taken[x]
    <3>1. taken \in Seq(memories)
      OBVIOUS
    <3> HIDE DEF m, taken
    <3> QED BY ONLY <1>1, <3>1, AppendProperties, LenProperties DEF more
  <2>4. next.left \in Nat /\ Spent(more, next.left, room)
    BY <1>1, <1>2, <1>3, <2>2
  <2>5. TakenFrom(more, hits, i)
    <3> SUFFICES ASSUME NEW x \in 1..Len(more) PROVE \E y \in 1..i : more[x] = hits[y]
      BY DEF TakenFrom
    <3> HIDE DEF more
    <3>1. CASE x = Len(taken) + 1
      BY <2>3, <3>1
    <3>2. CASE x # Len(taken) + 1
      <4>1. x \in 1..Len(taken)
        BY <2>3, <3>2
      <4>2. PICK y \in 1..i - 1 : taken[x] = hits[y]
        BY <4>1 DEF SelectionInv, TakenFrom
      <4>3. more[x] = hits[y] /\ y \in 1..i
        BY <2>3, <4>1, <4>2
      <4> QED BY <4>3
    <3> QED BY <3>1, <3>2
  <2>6. ASSUME NEW j \in 1..i
        PROVE  hits[j] \in ToSet(more) \/ LeftOut(more, hits[j], room)
    <3>1. CASE j = i
      <4>1. Len(taken) + 1 \in DOMAIN more
        BY <2>3
      <4> HIDE DEF more
      <4> QED BY <2>3, <3>1, <4>1 DEF ToSet
    <3>2. CASE j # i
      <4>1. j \in 1..i - 1 /\ j \in 1..Len(hits)
        BY <3>2
      <4>2. CASE hits[j] \in ToSet(taken)
        <5>1. PICK x \in 1..Len(taken) : taken[x] = hits[j]
          <6>1. DOMAIN taken = 1..Len(taken)
            OBVIOUS
          <6> QED BY <4>2, <6>1 DEF ToSet
        <5>2. x \in DOMAIN more /\ more[x] = hits[j]
          BY <2>3, <5>1
        <5> HIDE DEF more
        <5> QED BY <5>2 DEF ToSet
      <4>3. CASE LeftOut(taken, hits[j], room)
        <5>1. ~Ranked(m, hits[j])
          BY <4>1 DEF ByRank
        <5> QED BY <1>1, <4>3, <5>1, LeftOutStays
      <4> HIDE DEF more
      <4> QED BY <4>1, <4>2, <4>3 DEF SelectionInv
    <3> QED BY <3>1, <3>2
  <2> HIDE DEF more, next
  <2> QED BY <2>1, <2>2, <2>3, <2>4, <2>5, <2>6 DEF SelectionInv
<1>4. CASE ~(cost <= acc.left)
  <2>1. next = acc
    BY <1>4 DEF TakeIfFits
  <2>2. TakenFrom(taken, hits, i)
    <3> SUFFICES ASSUME NEW x \in 1..Len(taken) PROVE \E y \in 1..i : taken[x] = hits[y]
      BY DEF TakenFrom
    <3>1. PICK y \in 1..i - 1 : taken[x] = hits[y]
      BY DEF SelectionInv, TakenFrom
    <3> QED BY <3>1
  <2>3. LeftOut(taken, m, room)
    <3>1. Joined(more) > room
      <4>1. room = acc.left - cost + Joined(more)
        <5>1. more # <<>>
          <6>1. taken \in Seq(memories) /\ m \in memories
            BY <1>1
          <6> HIDE DEF m, taken
          <6> QED BY ONLY <6>1, AppendProperties DEF more
        <5> HIDE DEF more
        <5> QED BY <1>2, <5>1 DEF Spent
      <4>2. Joined(more) \in Int
        <5>1. more \in Seq(memories)
          BY <1>1
        <5> HIDE DEF more
        <5> QED BY <1>1, <5>1, JoinedAppend
      <4> QED BY <1>1, <1>2, <1>4, <4>1, <4>2
    <3>2. SubSeq(taken, 1, Len(taken)) = taken
      OBVIOUS
    <3>3. \A x \in 1..Len(taken) : x <= Len(taken) <=> Ranked(taken[x], m)
      <4> SUFFICES ASSUME NEW x \in 1..Len(taken) PROVE Ranked(taken[x], m)
        OBVIOUS
      <4>1. PICK y \in 1..i - 1 : taken[x] = hits[y]
        BY DEF SelectionInv, TakenFrom
      <4>2. y \in 1..Len(hits) /\ y < i
        BY <4>1
      <4> QED BY <4>1, <4>2 DEF ByRank
    <3>4. Len(taken) \in 0..Len(taken)
      OBVIOUS
    <3> QED BY <3>1, <3>2, <3>3, <3>4 DEF LeftOut
  <2>4. ASSUME NEW j \in 1..i
        PROVE  hits[j] \in ToSet(taken) \/ LeftOut(taken, hits[j], room)
    <3>1. CASE j = i
      BY <2>3, <3>1
    <3>2. CASE j # i
      <4>1. j \in 1..i - 1
        BY <3>2
      <4> QED BY <4>1 DEF SelectionInv
    <3> QED BY <3>1, <3>2
  <2> HIDE DEF next
  <2> QED BY <2>1, <2>2, <2>4 DEF SelectionInv
<1> QED BY <1>3, <1>4

(* When all hits were looked at. *)
LEMMA SelectionHolds ==
  ASSUME MemoryAssumption, NEW memories \in Memories, NEW hits \in Seq(memories), ByRank(hits),
         NEW room \in Nat
  PROVE  \E acc : /\ acc.chosen = Select(hits, room)
                  /\ acc.chosen \in Seq(memories)
                  /\ SelectionInv(acc, hits, room, Len(hits))
<1> DEFINE Good(f, k) == f[k].chosen \in Seq(memories) /\ SelectionInv(f[k], hits, room, k)
<1>1. PICK f : SelectionSteps(f, hits, room) /\ Select(hits, room) = f[Len(hits)].chosen
  BY SelectionIsStepwise
<1> DEFINE D == {k \in Nat : k <= Len(hits) => Good(f, k)}
<1>2. 0 \in D
  <2>1. f[0].chosen = <<>> /\ f[0].left = room
    BY <1>1 DEF SelectionSteps
  <2>2. /\ f[0].chosen \in Seq(memories) /\ Len(f[0].chosen) = 0
        /\ room = f[0].left + 0 /\ f[0].left \in Nat
    BY <2>1
  <2>3. Spent(f[0].chosen, f[0].left, room) /\ TakenFrom(f[0].chosen, hits, 0)
    BY <2>1, <2>2 DEF Spent, TakenFrom
  <2>4. SelectionInv(f[0], hits, room, 0)
    BY <2>2, <2>3 DEF SelectionInv
  <2> QED BY <2>2, <2>4
<1>3. ASSUME NEW k \in Nat, k \in D PROVE k + 1 \in D
  <2> SUFFICES ASSUME k + 1 <= Len(hits) PROVE Good(f, k + 1)
    OBVIOUS
  <2>1. k + 1 \in 1..Len(hits) /\ (k + 1) - 1 = k /\ k <= Len(hits)
    OBVIOUS
  <2>2. f[k + 1] = TakeIfFits(f[k], hits[k + 1])
    BY <1>1, <2>1 DEF SelectionSteps
  <2>3. f[k].chosen \in Seq(memories) /\ SelectionInv(f[k], hits, room, (k + 1) - 1)
    BY <1>3, <2>1
  <2> QED BY <2>1, <2>2, <2>3, SelectionStep
<1>4. Len(hits) \in D /\ Len(hits) \in Nat
  <2> HIDE DEF D
  <2> QED BY <1>2, <1>3, SetInduction
<1> QED BY <1>1, <1>4

-----------------------------------------------------------------------------
(* The order of the hits.                                                   *)

StrictOrder(R, S) ==
  /\ \A a \in S : <<a, a>> \notin R
  /\ \A a, b, c \in S : <<a, b>> \in R /\ <<b, c>> \in R => <<a, c>> \in R
  /\ \A a, b \in S : a = b \/ <<a, b>> \in R \/ <<b, a>> \in R

Below(R, S, m) == {o \in S : <<o, m>> \in R}

(* Ranks are numbers. *)
LEMMA BelowIsFinite ==
  ASSUME NEW S, IsFiniteSet(S), NEW R, NEW m
  PROVE  IsFiniteSet(Below(R, S, m)) /\ Cardinality(Below(R, S, m)) \in Nat
<1>1. Below(R, S, m) \in SUBSET S
  BY DEF Below
<1> HIDE DEF Below
<1> QED BY <1>1, FS_Subset, FS_CardinalityType

(* Of two elements in order, the first has fewer below it. *)
LEMMA RankRises ==
  ASSUME NEW S, IsFiniteSet(S), NEW R, StrictOrder(R, S), NEW a \in S, NEW b \in S, <<a, b>> \in R
  PROVE  Cardinality(Below(R, S, a)) < Cardinality(Below(R, S, b))
<1> DEFINE A == Below(R, S, a)
           B == Below(R, S, b)
<1>1. IsFiniteSet(A) /\ IsFiniteSet(B) /\ Cardinality(A) \in Nat /\ Cardinality(B) \in Nat
  BY BelowIsFinite
<1>2. a \notin A /\ A \cup {a} \in SUBSET B
  BY DEF StrictOrder, Below
<1> HIDE DEF A, B
<1>3. Cardinality(A \cup {a}) = Cardinality(A) + 1
  BY <1>1, <1>2, FS_AddElement
<1>4. Cardinality(A \cup {a}) <= Cardinality(B)
  BY <1>1, <1>2, FS_Subset
<1> QED BY <1>1, <1>3, <1>4 DEF A, B

(* The rank of an element is its position, and every position is held.      *)
LEMMA RanksAreExact ==
  ASSUME NEW S, IsFiniteSet(S), NEW R, StrictOrder(R, S)
  PROVE  /\ \A a, b \in S : <<a, b>> \in R <=>
              Cardinality(Below(R, S, a)) < Cardinality(Below(R, S, b))
         /\ \A i \in 1..Cardinality(S) : \E m \in S : Cardinality(Below(R, S, m)) = i - 1
<1> DEFINE rank(m) == Cardinality(Below(R, S, m))
           n == Cardinality(S)
           f == [m \in S |-> rank(m)]
<1>1. n \in Nat /\ \A m \in S : rank(m) \in Nat
  BY BelowIsFinite, FS_CardinalityType
<1>2. \A a, b \in S : <<a, b>> \in R => rank(a) < rank(b)
  BY RankRises
<1>3. ASSUME NEW a \in S, NEW b \in S
      PROVE  (<<a, b>> \in R <=> rank(a) < rank(b)) /\ (rank(a) = rank(b) => a = b)
  <2>1. a = b \/ <<a, b>> \in R \/ <<b, a>> \in R
    BY DEF StrictOrder
  <2>2. <<a, b>> \in R => rank(a) < rank(b)
    BY <1>2
  <2>3. <<b, a>> \in R => rank(b) < rank(a)
    BY <1>2
  <2>4. rank(a) \in Nat /\ rank(b) \in Nat
    BY <1>1
  <2> HIDE DEF rank
  <2> QED BY <2>1, <2>2, <2>3, <2>4
<1>4. \A m \in S : rank(m) \in 0..n - 1
  <2> SUFFICES ASSUME NEW m \in S PROVE rank(m) \in 0..n - 1
    OBVIOUS
  <2>1. Below(R, S, m) \in SUBSET (S \ {m})
    BY DEF Below, StrictOrder
  <2>2. IsFiniteSet(S \ {m}) /\ Cardinality(S \ {m}) = n - 1
    BY FS_RemoveElement
  <2>3. rank(m) <= n - 1
    BY <2>1, <2>2, FS_Subset
  <2> QED BY <1>1, <2>3
<1>5. f \in Injection(S, 0..n - 1)
  <2>1. f \in [S -> 0..n - 1]
    BY <1>4
  <2>2. \A a, b \in S : f[a] = f[b] => a = b
    <3> HIDE DEF rank
    <3> QED BY <1>3
  <2> HIDE DEF f
  <2> QED BY <2>1, <2>2 DEF Injection, IsInjective
<1>6. IsFiniteSet(0..n - 1) /\ Cardinality(0..n - 1) = n
  <2>1. 0 \in Int /\ n - 1 \in Int
    BY <1>1
  <2>2. IsFiniteSet(0..n - 1) /\ Cardinality(0..n - 1) = IF 0 > n - 1 THEN 0 ELSE n - 1 - 0 + 1
    BY <2>1, FS_Interval
  <2> HIDE DEF n
  <2> QED BY <1>1, <2>2
<1>7. f \in Surjection(S, 0..n - 1)
  <2> HIDE DEF f, n
  <2> QED BY <1>5, <1>6, FS_Injection DEF n
<1>8. ASSUME NEW i \in 1..n PROVE \E m \in S : rank(m) = i - 1
  <2>1. i - 1 \in 0..n - 1
    BY <1>1
  <2> HIDE DEF rank, n
  <2> QED BY <1>7, <2>1 DEF Surjection
<1> QED BY <1>3, <1>8

(* s lists S in the order R. *)
Lists(s, R, S) ==
  /\ s \in [1..Cardinality(S) -> S]
  /\ \A i \in 1..Cardinality(S) : Cardinality(Below(R, S, s[i])) = i - 1

InOrder(s, R) == \A i, j \in 1..Len(s) : <<s[i], s[j]>> \in R <=> i < j

(* A list by rank is in order. *)
LEMMA ListsAreInOrder ==
  ASSUME NEW S, IsFiniteSet(S), NEW R, StrictOrder(R, S), NEW s, Lists(s, R, S)
  PROVE  s \in Seq(S) /\ InOrder(s, R)
<1> DEFINE rank(m) == Cardinality(Below(R, S, m))
           n == Cardinality(S)
<1>1. n \in Nat
  BY FS_CardinalityType
<1>2. s \in [1..n -> S] /\ \A i \in 1..n : rank(s[i]) = i - 1
  BY DEF Lists
<1>3. s \in Seq(S) /\ Len(s) = n
  <2> HIDE DEF n, rank
  <2> QED BY <1>1, <1>2
<1>4. ASSUME NEW i \in 1..n, NEW j \in 1..n PROVE <<s[i], s[j]>> \in R <=> i < j
  <2>1. s[i] \in S /\ s[j] \in S /\ rank(s[i]) = i - 1 /\ rank(s[j]) = j - 1
    BY <1>2
  <2>2. <<s[i], s[j]>> \in R <=> rank(s[i]) < rank(s[j])
    BY <2>1, RanksAreExact
  <2> HIDE DEF rank, n
  <2> QED BY <1>1, <2>1, <2>2
<1> QED BY <1>3, <1>4 DEF InOrder

(* The first of them. *)
LEMMA TakeKeepsOrder ==
  ASSUME NEW S, NEW s \in Seq(S), NEW R, NEW n \in Nat
  PROVE  Take(s, n) \in Seq(S) /\ (InOrder(s, R) => InOrder(Take(s, n), R))
<1> DEFINE k == IF Len(s) < n THEN Len(s) ELSE n
           t == SubSeq(s, 1, k)
<1>1. k \in Nat /\ k <= Len(s) /\ Take(s, n) = t
  BY DEF Take
<1>2. t \in Seq(S) /\ Len(t) = k /\ \A i \in 1..k : t[i] = s[i]
  <2> HIDE DEF k
  <2> QED BY <1>1
<1>3. InOrder(s, R) => InOrder(t, R)
  <2> SUFFICES ASSUME InOrder(s, R), NEW i \in 1..k, NEW j \in 1..k
               PROVE  <<s[i], s[j]>> \in R <=> i < j
    <3> HIDE DEF k, t
    <3> QED BY <1>2 DEF InOrder
  <2>1. i \in 1..Len(s) /\ j \in 1..Len(s)
    <3> HIDE DEF k
    <3> QED BY <1>1
  <2> QED BY <2>1 DEF InOrder
<1> QED BY <1>1, <1>2, <1>3

BeforeOn(S) == {p \in S \X S : Before(p[1], p[2])}
RankedOn(S) == {p \in S \X S : Ranked(p[1], p[2])}

(* Salience and id order memories strictly, and so do matches before them.  *)
LEMMA MemoriesAreOrdered ==
  ASSUME MemoryAssumption, NEW memories \in Memories, NEW S \in SUBSET memories
  PROVE  IsFiniteSet(S) /\ StrictOrder(BeforeOn(S), S) /\ StrictOrder(RankedOn(S), S)
<1>1. IsFiniteSet(S)
  BY FS_Subset DEF MemoryAssumption
<1>2. /\ \A m \in S : m.id \in Int /\ m.salience \in Int /\ m.matches \in Int
      /\ \A m, o \in S : m.id = o.id => m = o
  BY DEF MemoryAssumption
<1>3. \A a, b \in S : /\ <<a, b>> \in BeforeOn(S) <=> Before(a, b)
                      /\ <<a, b>> \in RankedOn(S) <=> Ranked(a, b)
  BY DEF BeforeOn, RankedOn
<1>4. StrictOrder(BeforeOn(S), S)
  BY <1>2, <1>3 DEF StrictOrder, Before
<1>5. StrictOrder(RankedOn(S), S)
  BY <1>2, <1>3 DEF StrictOrder, Before, Ranked
<1> QED BY <1>1, <1>4, <1>5

(* A sorted sequence of memories lists them. *)
LEMMA SortedLists ==
  ASSUME MemoryAssumption, NEW memories \in Memories, NEW S \in SUBSET memories
  PROVE  Lists(Sorted(S, Before), BeforeOn(S), S) /\ Lists(Sorted(S, Ranked), RankedOn(S), S)
<1>1. IsFiniteSet(S) /\ StrictOrder(BeforeOn(S), S) /\ StrictOrder(RankedOn(S), S)
  BY MemoriesAreOrdered
<1>2. Lists(Sorted(S, Before), BeforeOn(S), S)
  <2> DEFINE at(i) == CHOOSE m \in S : Cardinality({o \in S : Before(o, m)}) = i - 1
  <2>1. \A m \in S : {o \in S : Before(o, m)} = Below(BeforeOn(S), S, m)
    BY DEF Below, BeforeOn
  <2>2. ASSUME NEW i \in 1..Cardinality(S)
        PROVE  at(i) \in S /\ Cardinality(Below(BeforeOn(S), S, at(i))) = i - 1
    <3>1. \E m \in S : Cardinality(Below(BeforeOn(S), S, m)) = i - 1
      BY <1>1, RanksAreExact
    <3>2. \E m \in S : Cardinality({o \in S : Before(o, m)}) = i - 1
      BY <2>1, <3>1
    <3>3. at(i) \in S /\ Cardinality({o \in S : Before(o, at(i))}) = i - 1
      BY <3>2, Zenon
    <3> QED BY <2>1, <3>3
  <2>3. Sorted(S, Before) = [i \in 1..Cardinality(S) |-> at(i)]
    BY DEF Sorted
  <2> HIDE DEF at
  <2> QED BY <2>2, <2>3 DEF Lists
<1>3. Lists(Sorted(S, Ranked), RankedOn(S), S)
  <2> DEFINE at(i) == CHOOSE m \in S : Cardinality({o \in S : Ranked(o, m)}) = i - 1
  <2>1. \A m \in S : {o \in S : Ranked(o, m)} = Below(RankedOn(S), S, m)
    BY DEF Below, RankedOn
  <2>2. ASSUME NEW i \in 1..Cardinality(S)
        PROVE  at(i) \in S /\ Cardinality(Below(RankedOn(S), S, at(i))) = i - 1
    <3>1. \E m \in S : Cardinality(Below(RankedOn(S), S, m)) = i - 1
      BY <1>1, RanksAreExact
    <3>2. \E m \in S : Cardinality({o \in S : Ranked(o, m)}) = i - 1
      BY <2>1, <3>1
    <3>3. at(i) \in S /\ Cardinality({o \in S : Ranked(o, at(i))}) = i - 1
      BY <3>2, Zenon
    <3> QED BY <2>1, <3>3
  <2>3. Sorted(S, Ranked) = [i \in 1..Cardinality(S) |-> at(i)]
    BY DEF Sorted
  <2> HIDE DEF at
  <2> QED BY <2>2, <2>3 DEF Lists
<1> QED BY <1>2, <1>3

(* What the search returns are memories, by rank. *)
LEMMA HitsAreByRank ==
  ASSUME MemoryAssumption, NEW memories \in Memories
  PROVE  SearchMemories(memories) \in Seq(memories) /\ ByRank(SearchMemories(memories))
<1> DEFINE rows == Take(Sorted(memories, Before), 4 * MemoryLimit)
           S == ToSet(rows)
           hits == Take(Sorted(S, Ranked), MemoryLimit)
<1>1. MemoryLimit \in Nat /\ 4 * MemoryLimit \in Nat
  BY DEF MemoryAssumption
<1>2. Sorted(memories, Before) \in Seq(memories)
  BY MemoriesAreOrdered, ListsAreInOrder, SortedLists
<1>3. rows \in Seq(memories)
  BY <1>1, <1>2, TakeKeepsOrder
<1>4. S \in SUBSET memories
  <2> HIDE DEF rows
  <2>1. \A i \in DOMAIN rows : rows[i] \in memories
    BY <1>3
  <2> QED BY <2>1 DEF ToSet
<1> HIDE DEF rows, S
<1>5. Sorted(S, Ranked) \in Seq(S) /\ InOrder(Sorted(S, Ranked), RankedOn(S))
  BY <1>4, MemoriesAreOrdered, ListsAreInOrder, SortedLists
<1>6. hits \in Seq(S) /\ InOrder(hits, RankedOn(S))
  BY <1>1, <1>5, TakeKeepsOrder
<1> HIDE DEF hits
<1>7. ByRank(hits)
  <2> SUFFICES ASSUME NEW i \in 1..Len(hits), NEW j \in 1..Len(hits)
               PROVE  Ranked(hits[i], hits[j]) <=> i < j
    BY DEF ByRank
  <2>1. hits[i] \in S /\ hits[j] \in S
    BY <1>6
  <2>2. <<hits[i], hits[j]>> \in RankedOn(S) <=> Ranked(hits[i], hits[j])
    BY <2>1 DEF RankedOn
  <2> QED BY <1>6, <2>2 DEF InOrder
<1>8. hits \in Seq(memories)
  BY <1>4, <1>6, SeqMonotonic
<1>9. SearchMemories(memories) = hits
  BY DEF SearchMemories, hits, S, rows
<1> QED BY <1>7, <1>8, <1>9

-----------------------------------------------------------------------------
(* The best memories, in the context.                                       *)

(* A hit that is not in the context would not fit after the better ones.    *)
TakesBest(c, memories) ==
  \A m \in ToSet(SearchMemories(memories)) \ ToSet(c.memory) :
    \E n \in 0..Len(c.memory) :
      /\ \A i \in DOMAIN c.memory : i <= n <=> Ranked(c.memory[i], m)
      /\ Total([c EXCEPT !.memory = Append(SubSeq(@, 1, n), m)]) > MaxChars

(* More lines than the room holds are more than the budget.                 *)
LEMMA TooLong ==
  ASSUME NEW system \in Nat, NEW task \in Nat, NEW memory, NEW lines, NEW room \in Nat,
         MaxChars \in Nat, room >= MaxChars - (system + task + 1) - 1,
         lines # <<>>, Joined(lines) \in Int, Joined(lines) > room
  PROVE  Total([[system |-> system, task |-> task, memory |-> memory]
                  EXCEPT !.memory = lines]) > MaxChars
<1> DEFINE c == [system |-> system, task |-> task, memory |-> lines]
<1>1. [[system |-> system, task |-> task, memory |-> memory] EXCEPT !.memory = lines] = c
  OBVIOUS
<1>2. Total(c) = system + 1 + task + (1 + Joined(lines))
  BY DEF Total
<1>3. system + 1 + task + (1 + Joined(lines)) > MaxChars
  OBVIOUS
<1> QED BY <1>1, <1>2, <1>3

(* What is taken is within the budget, and what is left out is beyond it.   *)
LEMMA SelectionIsBest ==
  ASSUME MemoryAssumption, MaxChars \in Nat, NEW system \in Nat, NEW task \in Nat,
         NEW memories \in Memories, NEW room \in Nat,
         room = MaxChars - (system + task + 1) - 1
  PROVE  LET c == [system |-> system, task |-> task,
                   memory |-> Select(SearchMemories(memories), room)]
         IN Total(c) <= MaxChars /\ TakesBest(c, memories)
<1> DEFINE hits == SearchMemories(memories)
           taken == Select(hits, room)
           c == [system |-> system, task |-> task, memory |-> taken]
<1>1. hits \in Seq(memories) /\ ByRank(hits)
  BY HitsAreByRank
<1>2. PICK acc : /\ acc.chosen = taken /\ acc.chosen \in Seq(memories)
                 /\ SelectionInv(acc, hits, room, Len(hits))
  <2> HIDE DEF hits
  <2> QED BY <1>1, SelectionHolds
<1>3. /\ acc.left \in Nat /\ Spent(taken, acc.left, room) /\ taken \in Seq(memories)
      /\ \A j \in 1..Len(hits) : hits[j] \in ToSet(taken) \/ LeftOut(taken, hits[j], room)
  BY <1>2 DEF SelectionInv
<1>4. DOMAIN hits = 1..Len(hits) /\ DOMAIN taken = 1..Len(taken) /\ Len(taken) \in Nat
  <2> HIDE DEF hits, taken
  <2> QED BY <1>1, <1>3
<1> HIDE DEF hits, taken
<1>5. Total(c) <= MaxChars
  <2>1. CASE taken = <<>>
    <3>1. Total(c) = system + 1 + task
      BY <2>1 DEF Total
    <3> QED BY <3>1
  <2>2. CASE taken # <<>>
    <3>1. Total(c) = system + 1 + task + (1 + Joined(taken))
      BY <2>2 DEF Total
    <3>2. room = acc.left + Joined(taken)
      BY <1>3, <2>2 DEF Spent
    <3>3. Joined(taken) \in Int
      <4>1. PICK f \in [0..Len(taken) -> Int] : Joined(taken) = f[Len(taken)]
        BY <1>3, <2>2, JoinedIsASum
      <4> QED BY <1>4, <4>1
    <3>4. acc.left \in Nat
      BY <1>3
    <3> HIDE DEF c
    <3> QED BY <3>1, <3>2, <3>3, <3>4
  <2> QED BY <2>1, <2>2
<1>6. ASSUME NEW m \in ToSet(hits) \ ToSet(taken)
      PROVE  \E n \in 0..Len(taken) :
               /\ \A i \in DOMAIN taken : i <= n <=> Ranked(taken[i], m)
               /\ Total([c EXCEPT !.memory = Append(SubSeq(taken, 1, n), m)]) > MaxChars
  <2>1. PICK j \in 1..Len(hits) : hits[j] = m
    BY <1>4 DEF ToSet
  <2>2. m \in memories /\ LeftOut(taken, m, room)
    BY <1>1, <1>3, <2>1
  <2>3. PICK n \in 0..Len(taken) :
          /\ \A i \in 1..Len(taken) : i <= n <=> Ranked(taken[i], m)
          /\ Joined(Append(SubSeq(taken, 1, n), m)) > room
    BY <2>2 DEF LeftOut
  <2> DEFINE lines == Append(SubSeq(taken, 1, n), m)
  <2>4. lines \in Seq(memories) /\ lines # <<>>
    <3> DEFINE better == SubSeq(taken, 1, n)
    <3>1. better \in Seq(memories)
      BY <1>3, <1>4
    <3> HIDE DEF better
    <3>2. Append(better, m) \in Seq(memories) /\ Append(better, m) # <<>>
      BY <2>2, <3>1
    <3> QED BY <3>2 DEF better
  <2> HIDE DEF lines
  <2>5. Joined(lines) \in Int
    BY <2>2, <2>4, JoinedAppend
  <2>6. Total([c EXCEPT !.memory = lines]) > MaxChars
    <3>1. Joined(lines) > room
      BY <2>3 DEF lines
    <3>2. room >= MaxChars - (system + task + 1) - 1
      OBVIOUS
    <3>3. Total([[system |-> system, task |-> task, memory |-> taken]
                   EXCEPT !.memory = lines]) > MaxChars
      BY ONLY <2>4, <2>5, <3>1, <3>2, TooLong, MaxChars \in Nat, room \in Nat,
              system \in Nat, task \in Nat
    <3> QED BY <3>3
  <2> QED BY <1>4, <2>3, <2>6 DEF lines
<1>7. TakesBest(c, memories)
  <2>1. c.memory = taken
    OBVIOUS
  <2> HIDE DEF c
  <2> QED BY <1>6, <2>1 DEF TakesBest, hits
<1> QED BY <1>5, <1>7 DEF hits, taken

(* With the whole task in it, a context takes the best memories             *)
(* (ContextAssembler.build).                                                *)
LEMMA BuildTakesBest ==
  ASSUME MemoryAssumption, MaxChars \in Nat, NEW system \in Nat, NEW task \in Nat,
         NEW memories \in Memories
  PROVE  TakesBest(Build(system, task, memories), memories)
            \/ Build(system, task, memories).task # task
<1> DEFINE room == Remaining(system, task)
           memory == IF room <= 0 THEN <<>> ELSE Select(SearchMemories(memories), room)
           c == [system |-> system, task |-> task, memory |-> memory]
<1>1. Build(system, task, memories) = Trim(c)
  BY DEF Build
<1>2. /\ room \in Nat /\ room >= MaxChars - (system + task + 1) - 1
      /\ room > 0 => room = MaxChars - (system + task + 1) - 1
  BY DEF Remaining, AtLeast0
<1>3. CASE room > 0
  <2>1. Total(c) <= MaxChars /\ TakesBest(c, memories)
    <3>1. c = [system |-> system, task |-> task,
               memory |-> Select(SearchMemories(memories), room)]
      <4> HIDE DEF room
      <4> QED BY <1>2, <1>3
    <3> HIDE DEF room, c
    <3> QED BY <1>2, <1>3, <3>1, SelectionIsBest
  <2> HIDE DEF c
  <2>2. Trim(c) = c
    BY <2>1 DEF Trim
  <2> QED BY <1>1, <2>1, <2>2
<1>4. CASE room = 0
  <2> DEFINE bare == [system |-> system, task |-> task, memory |-> <<>>]
  <2>1. c = bare
    BY <1>4
  <2>2. [bare EXCEPT !.memory = <<>>] = bare
    OBVIOUS
  <2>3. \/ Trim(c) = bare
        \/ Trim(c) = [bare EXCEPT !.task = IF @ < Allowance(bare) THEN @ ELSE Allowance(bare)]
    <3>1. Allowance(c) = Allowance(bare)
      BY <2>1
    <3> HIDE DEF bare, c
    <3> QED BY <2>1, <2>2 DEF Trim
  <2>4. Trim(c).memory = <<>> /\ Trim(c).system = system /\ (Trim(c).task = task => Trim(c) = bare)
    <3> HIDE DEF c
    <3> QED BY <2>3
  <2>5. TakesBest(bare, memories)
    <3> SUFFICES ASSUME NEW m \in ToSet(SearchMemories(memories))
                 PROVE \E n \in 0..Len(bare.memory) :
                         /\ \A i \in DOMAIN bare.memory : i <= n <=> Ranked(bare.memory[i], m)
                         /\ Total([bare EXCEPT !.memory = Append(SubSeq(@, 1, n), m)]) > MaxChars
      BY DEF TakesBest
    <3>1. m \in memories
      <4> DEFINE hits == SearchMemories(memories)
      <4>1. hits \in Seq(memories)
        BY HitsAreByRank
      <4> HIDE DEF hits
      <4>2. \A i \in DOMAIN hits : hits[i] \in memories
        BY <4>1
      <4> QED BY <4>2 DEF ToSet, hits
    <3> DEFINE lines == Append(<<>>, m)
    <3>2. lines \in Seq(memories) /\ lines # <<>> /\ <<>> \in Seq(memories)
      BY <3>1
    <3>3. Joined(lines) = Heading + m.len /\ m.len \in Nat /\ Heading \in Nat \ {0}
      BY <3>1, <3>2, JoinedAppend DEF MemoryAssumption
    <3> HIDE DEF lines
    <3>4. Joined(lines) \in Int /\ Joined(lines) > room
      BY <1>4, <3>3
    <3>5. Total([bare EXCEPT !.memory = lines]) > MaxChars
      <4> HIDE DEF room
      <4> QED BY <1>2, <3>2, <3>4, TooLong
    <3>6. [bare EXCEPT !.memory = Append(SubSeq(@, 1, 0), m)] = [bare EXCEPT !.memory = lines]
      BY DEF lines
    <3>7. 0 \in 0..Len(bare.memory) /\ DOMAIN bare.memory = {}
      OBVIOUS
    <3> HIDE DEF bare
    <3> QED BY <3>5, <3>6, <3>7
  <2> HIDE DEF bare, c
  <2> QED BY <1>1, <2>4, <2>5
<1> HIDE DEF room, c
<1> QED BY <1>2, <1>3, <1>4

(* Only the step that builds a context has to be looked at. *)
LEMMA BestStep ==
  ASSUME TurnAssumption, MemoryAssumption, BestMemoryFirst, [Next]_vars
  PROVE  BestMemoryFirst'
<1>1. CASE Assemble
  <2>1. PICK system \in Prompts, task \in Tasks, memories \in Memories :
          /\ input' = [system |-> system, task |-> task, memories |-> memories]
          /\ context' = Build(system, task, memories)
    BY <1>1 DEF Assemble
  <2>2. system \in Nat /\ task \in Nat /\ MaxChars \in Nat
    BY TurnAssumption DEF TurnAssumption
  <2>3. TakesBest(context', memories) \/ context'.task # task
    BY <2>1, <2>2, BuildTakesBest
  <2>4. input'.task = task /\ input'.memories = memories
    BY <2>1
  <2> QED BY <2>3, <2>4 DEF BestMemoryFirst, TakesBest, Total
<1>2. CASE Offer \/ AskLocal \/ AskOther \/ Interpret \/ Execute
  <2>1. stage' # "offer"
    BY <1>2 DEF Offer, AskLocal, AskOther, Interpret, Execute
  <2> QED BY <2>1 DEF BestMemoryFirst
<1>3. CASE UNCHANGED vars
  BY <1>3 DEF vars, BestMemoryFirst, Total
<1> QED BY <1>1, <1>2, <1>3 DEF Next

(* A memory that the query finds is left out only when the better ones and  *)
(* it are more than the budget: none is lost to a worse one                 *)
(* (ContextAssembler.build, search_memories).                               *)
THEOREM BestMemoryIsTaken == Spec => []BestMemoryFirst
<1>1. Init => BestMemoryFirst
  BY DEF Init, BestMemoryFirst
<1>2. BestMemoryFirst /\ [Next]_vars => BestMemoryFirst'
  BY TurnAssumption, MemoryAssumption, BestStep
<1> QED BY <1>1, <1>2, PTL DEF Spec

-----------------------------------------------------------------------------
(* The answer of the local model.                                           *)

(* What the properties ask of a decision about a generation. *)
Honest(generated, d) ==
  /\ d.kind = "final" => Markup(generated) = {}
  /\ d.kind = "call" =>
       \E i \in Openings(generated), j \in Endings(generated) :
         Answers(generated, d, i, j) /\ (Whole(generated, d, i, j) \/ Unclosed(generated, i, j))

(* A call is to a tool that was offered, with the arguments that the        *)
(* endpoint took from the generation.                                       *)
Checked(generated, d, tools) ==
  d.kind = "call" =>
    /\ d.name \in DOMAIN tools
    /\ Spans(generated) # {}
    /\ Arguments(Body(generated), tools[d.name]) # Refused
    /\ d.fields = Arguments(Body(generated), tools[d.name]).fields

(* Accepted arguments carry the names that were generated, and leave        *)
(* nothing in the body.                                                     *)
LEMMA ArgumentsKeepNames ==
  ASSUME NEW body, NEW schema, Arguments(body, schema) # Refused
  PROVE  /\ NoResidue(body)
         /\ DOMAIN Arguments(body, schema).fields = {body[k].name : k \in Starts(body)}
BY DEF Arguments

(* The match of the regular expression: the first opening that an ending    *)
(* follows, which is the first of all, and the first ending after it.       *)
LEMMA MatchIsFirst ==
  ASSUME NEW g, g \in Seq(ToSet(g)), Spans(g) # {}
  PROVE  /\ Match(g) \in Spans(g)
         /\ \A k \in Openings(g) : Match(g)[1] <= k
         /\ \A k \in Endings(g) : Match(g)[1] + 2 <= k => Match(g)[2] <= k
<1>1. Openings(g) \subseteq Nat /\ Endings(g) \subseteq Nat
  BY DEF Openings, Endings
<1>2. PICK c \in Spans(g) : TRUE
  OBVIOUS
<1>3. c[1] \in Openings(g) /\ c[2] \in Endings(g) /\ c[1] + 2 <= c[2]
  BY <1>2 DEF Spans
<1>4. PICK i \in Openings(g) : \A k \in Openings(g) : i <= k
  BY <1>1, <1>3, LeastNumber
<1> DEFINE T == {k \in Endings(g) : i + 2 <= k}
<1>5. T \subseteq Nat /\ c[2] \in T
  BY <1>1, <1>3, <1>4
<1>6. PICK j \in T : \A k \in T : j <= k
  BY <1>5, LeastNumber
<1>7. <<i, j>> \in Spans(g)
  BY <1>6 DEF Spans
<1>8. \A d \in Spans(g) : i <= d[1] /\ j <= d[2]
  <2> SUFFICES ASSUME NEW d \in Spans(g) PROVE i <= d[1] /\ j <= d[2]
    OBVIOUS
  <2>1. d[1] \in Openings(g) /\ d[2] \in Endings(g) /\ d[1] + 2 <= d[2]
    BY DEF Spans
  <2>2. i <= d[1]
    BY <1>4, <2>1
  <2>3. i + 2 <= d[2]
    BY <1>1, <2>1, <2>2
  <2> QED BY <1>6, <2>1, <2>2, <2>3
<1> DEFINE first(m) == m \in Spans(g) /\ \A d \in Spans(g) : m[1] <= d[1] /\ m[2] <= d[2]
<1>9. first(<<i, j>>)
  BY <1>7, <1>8
<1>10. first(Match(g))
  BY <1>9 DEF Match
<1> DEFINE a == Match(g)[1]
           b == Match(g)[2]
<1>11. a \in Openings(g) /\ a <= i
  BY <1>7, <1>10 DEF Spans
<1>12. \A k \in Openings(g) : a <= k
  BY <1>1, <1>4, <1>11
<1>13. ASSUME NEW k \in Endings(g), a + 2 <= k PROVE b <= k
  <2>1. <<a, k>> \in Spans(g)
    BY <1>11, <1>13 DEF Spans
  <2> QED BY <1>10, <2>1
<1> QED BY <1>10, <1>12, <1>13

(* Where the match lies, and where its body.                                *)
LEMMA BodyIsInside ==
  ASSUME NEW g, g \in Seq(ToSet(g)), NEW i, NEW j, <<i, j>> = Match(g), <<i, j>> \in Spans(g)
  PROVE  /\ i \in Nat /\ j \in Nat /\ i + 2 <= j
         /\ i \in Openings(g) /\ j \in Endings(g) /\ i + 1 \in DOMAIN g /\ j + 1 \in DOMAIN g
         /\ g[i + 1].kind = "function" /\ Name(g) = g[i + 1].name
         /\ DOMAIN Body(g) = 1..j - i - 2
         /\ \A k \in 1..j - i - 2 : Body(g)[k] = g[k + i + 1]
<1>1. /\ i \in Openings(g) /\ j \in Endings(g) /\ i + 2 <= j
      /\ Match(g)[1] = i /\ Match(g)[2] = j
  BY DEF Spans
<1>2. DOMAIN g = 1..Len(g) /\ Len(g) \in Nat
  OBVIOUS
<1>3. /\ i \in DOMAIN g /\ i + 1 \in DOMAIN g /\ g[i + 1].kind = "function"
      /\ j \in DOMAIN g /\ j + 1 \in DOMAIN g
  BY <1>1 DEF Openings, Endings
<1>4. Body(g) = SubSeq(g, i + 2, j - 1) /\ Name(g) = g[i + 1].name
  BY <1>1 DEF Body, Name
<1>5. \A k \in i + 2..j - 1 : g[k] \in ToSet(g)
  BY <1>2, <1>3
<1> DEFINE m == i + 2
           n == j - 1
<1>6. m \in Int /\ n \in Int /\ m <= n + 1 /\ n - m + 1 = j - i - 2
  BY <1>1, <1>2, <1>3
<1>7. \A k \in Int : m + k - 1 = k + i + 1
  BY <1>2, <1>3
<1>8. Body(g) = SubSeq(g, m, n) /\ \A k \in m..n : g[k] \in ToSet(g)
  BY <1>4, <1>5
<1> HIDE DEF m, n
<1>9. /\ Body(g) \in Seq(ToSet(g))
      /\ Len(Body(g)) = IF m <= n THEN n - m + 1 ELSE 0
      /\ \A k \in 1..n - m + 1 : Body(g)[k] = g[m + k - 1]
  <2>1. \A o \in m..n : g[o] \in ToSet(g)
    BY <1>8
  <2>2. /\ SubSeq(g, m, n) \in Seq(ToSet(g))
        /\ Len(SubSeq(g, m, n)) = IF m <= n THEN n - m + 1 ELSE 0
        /\ \A k \in 1..n - m + 1 : SubSeq(g, m, n)[k] = g[m + k - 1]
    <3>1. m \in Int /\ n \in Int
      BY <1>6
    <3> QED BY ONLY <2>1, <3>1, SubSeqProperties
  <2> QED BY <1>8, <2>2
<1>10. Len(Body(g)) = j - i - 2
  BY ONLY <1>6, <1>9
<1>11. DOMAIN Body(g) = 1..j - i - 2
  BY <1>9, <1>10
<1>12. \A k \in 1..j - i - 2 : Body(g)[k] = g[k + i + 1]
  <2> SUFFICES ASSUME NEW k \in 1..j - i - 2 PROVE Body(g)[k] = g[k + i + 1]
    OBVIOUS
  <2>1. Body(g)[k] = g[m + k - 1]
    BY <1>6, <1>9
  <2>2. k \in Int
    OBVIOUS
  <2> QED BY <1>7, <2>1, <2>2
<1>13. i \in Nat /\ j \in Nat
  BY <1>2, <1>3
<1> QED BY <1>1, <1>3, <1>4, <1>11, <1>12, <1>13

(* A parameter in a body is cut off by another start tag.                   *)
StartKinds == {"tool_call", "function", "parameter"}

CutOff(body) ==
  \E k, l \in DOMAIN body :
    /\ k < l /\ body[k].kind = "parameter" /\ body[l].kind \in StartKinds
    /\ \A n \in k..l : ~IsEnd(body[n], "parameter")

(* Otherwise the matches of the parameters lie side by side, one for each   *)
(* start tag.                                                               *)
LEMMA StartTagsBegin ==
  ASSUME NEW body, NEW n \in Nat, DOMAIN body = 1..n, NoResidue(body), ~CutOff(body),
         NEW l \in DOMAIN body, body[l].kind \in StartKinds
  PROVE  l \in Starts(body)
<1> SUFFICES ASSUME l \notin Starts(body) PROVE FALSE
  OBVIOUS
<1> DEFINE ends == {m \in 1..l - 1 : IsEnd(body[m], "parameter")}
<1>1. l \in Nat /\ l > 1 /\ ~IsEnd(body[l - 1], "parameter") /\ ~IsEnd(body[l], "parameter")
  BY DEF Starts, IsEnd, StartKinds
<1>2. ASSUME NEW k \in Starts(body), k < l, \A m \in k..l - 1 : m \notin ends
      PROVE  FALSE
  <2>1. k \in DOMAIN body /\ k \in 1..n /\ body[k].kind = "parameter"
    BY <1>2 DEF Starts, NoResidue
  <2>2. \A m \in k..l : ~IsEnd(body[m], "parameter")
    BY <1>1, <1>2, <2>1
  <2> QED BY <1>2, <2>1, <2>2 DEF CutOff
<1>3. CASE ends = {}
  <2>1. 1 \in Starts(body)
    BY <1>1 DEF Starts
  <2> QED BY <1>1, <1>2, <1>3, <2>1
<1>4. CASE ends # {}
  <2> DEFINE back == {x \in 1..l : l - x \in ends}
  <2>1. PICK m \in ends : TRUE
    BY <1>4
  <2>2. l - m \in back
    BY <1>1, <2>1
  <2>3. PICK x \in back : \A y \in back : x <= y
    <3>1. back \subseteq Nat
      BY <1>1
    <3> HIDE DEF back
    <3> QED BY <2>2, <3>1, LeastNumber
  <2> DEFINE last == l - x
  <2>4. last \in 1..l - 1 /\ IsEnd(body[last], "parameter")
    BY <2>3
  <2>5. \A o \in last + 1..l - 1 : o \notin ends
    <3> SUFFICES ASSUME NEW o \in last + 1..l - 1, o \in ends PROVE FALSE
      OBVIOUS
    <3>1. l - o \in 1..l /\ l - (l - o) = o /\ l - o < x
      BY <1>1, <2>3, <2>4
    <3>2. l - o \in back
      BY <3>1
    <3> QED BY <2>3, <3>1, <3>2
  <2>6. last # l - 1
    BY <1>1, <2>4
  <2>7. last + 1 \in DOMAIN body /\ last + 1 < l /\ last + 1 - 1 = last
    BY <1>1, <2>4, <2>6
  <2>8. last + 1 \in Starts(body)
    BY <2>4, <2>7 DEF Starts
  <2> HIDE DEF last, ends
  <2> QED BY <1>2, <2>5, <2>7, <2>8
<1> QED BY <1>3, <1>4

(* What the endpoint commits to is the first call, its own parameters, and  *)
(* the only one unless a parameter is cut off.                              *)
LEMMA CallIsAnswered ==
  ASSUME NEW g, g \in Seq(ToSet(g)), Spans(g) # {}, SuffixIsClean(g), NEW schema,
         Arguments(Body(g), schema) # Refused,
         NEW d, d.name = Name(g), d.fields = Arguments(Body(g), schema).fields
  PROVE  \E i \in Openings(g), j \in Endings(g) :
           Answers(g, d, i, j) /\ (Whole(g, d, i, j) \/ Unclosed(g, i, j))
<1> DEFINE i == Match(g)[1]
           j == Match(g)[2]
           body == Body(g)
<1>1. /\ Match(g) \in Spans(g)
      /\ \A k \in Openings(g) : i <= k
      /\ \A k \in Endings(g) : i + 2 <= k => j <= k
  BY MatchIsFirst
<1>2. <<i, j>> = Match(g) /\ <<i, j>> \in Spans(g)
  BY <1>1 DEF Spans
<1>3. /\ i \in Nat /\ j \in Nat /\ i + 2 <= j
      /\ i \in Openings(g) /\ j \in Endings(g) /\ i + 1 \in DOMAIN g /\ j + 1 \in DOMAIN g
      /\ g[i + 1].kind = "function" /\ Name(g) = g[i + 1].name
      /\ DOMAIN body = 1..j - i - 2
      /\ \A k \in 1..j - i - 2 : body[k] = g[k + i + 1]
  <2> HIDE DEF i, j
  <2> QED BY <1>2, BodyIsInside
<1>4. NoResidue(body) /\ DOMAIN d.fields = {body[k].name : k \in Starts(body)}
  BY ArgumentsKeepNames
<1>5. \A k \in Markup(g) : k <= j + 1
  BY DEF SuffixIsClean
<1>6. DOMAIN g \subseteq Nat
  OBVIOUS
<1> HIDE DEF i, j, body
<1>7. ASSUME NEW k \in Starts(body)
      PROVE  /\ k \in 1..j - i - 2 /\ k + i + 1 \in Parameters(g, i, j)
             /\ body[k].name = g[k + i + 1].name
  <2>1. k \in 1..j - i - 2 /\ body[k].kind = "parameter"
    BY <1>3, <1>4 DEF Starts, NoResidue
  <2>2. k + i + 1 \in i + 2..j - 1 /\ body[k] = g[k + i + 1]
    BY <1>3, <2>1
  <2> QED BY <2>1, <2>2 DEF Parameters
<1>8. Answers(g, d, i, j)
  <2>1. ASSUME NEW k \in Endings(g), i < k PROVE k = j
    <3>1. /\ k \in Nat /\ k + 1 \in Nat /\ k + 1 \in Markup(g)
          /\ g[k].kind = "end"
      BY <1>6 DEF Endings, Markup, IsEnd
    <3>2. k # i + 1
      BY <1>3, <3>1
    <3>3. j <= k
      BY <1>1, <1>3, <2>1, <3>1, <3>2
    <3>4. k + 1 <= j + 1
      BY <1>5, <3>1
    <3> QED BY <1>3, <3>1, <3>3, <3>4
  <2>2. DOMAIN d.fields \subseteq {g[k].name : k \in Parameters(g, i, j)}
    BY <1>4, <1>7
  <2> QED BY <1>1, <1>3, <1>5, <2>1, <2>2 DEF Answers
<1>9. CASE CutOff(body)
  <2>1. PICK k, l \in DOMAIN body :
          /\ k < l /\ body[k].kind = "parameter" /\ body[l].kind \in StartKinds
          /\ \A n \in k..l : ~IsEnd(body[n], "parameter")
    BY <1>9 DEF CutOff
  <2> DEFINE a == k + i + 1
             b == l + i + 1
  <2>2. /\ a \in i + 2..j - 1 /\ b \in i + 2..j - 1 /\ a < b
        /\ g[a] = body[k] /\ g[b] = body[l]
    BY <1>3, <2>1
  <2>3. ASSUME NEW n \in a..b PROVE ~IsEnd(g[n], "parameter")
    <3>1. n - i - 1 \in k..l /\ n - i - 1 \in 1..j - i - 2 /\ (n - i - 1) + i + 1 = n
      <4>1. i \in Nat /\ j \in Nat /\ k \in 1..j - i - 2 /\ l \in 1..j - i - 2
        BY <1>3, <2>1
      <4>2. n \in k + i + 1..l + i + 1
        BY <2>3
      <4> QED BY ONLY <4>1, <4>2
    <3>2. body[n - i - 1] = g[n]
      BY <1>3, <3>1
    <3> QED BY <2>1, <3>1, <3>2
  <2> HIDE DEF a, b
  <2>4. a \in Parameters(g, i, j)
    BY <2>1, <2>2 DEF Parameters
  <2>5. Unclosed(g, i, j)
    BY <2>1, <2>2, <2>3, <2>4 DEF Unclosed, StartKinds
  <2> QED BY <1>3, <1>8, <2>5
<1>10. CASE ~CutOff(body)
  <2>1. ASSUME NEW k \in i + 2..j - 1, g[k].kind \in StartKinds
        PROVE  k \in Parameters(g, i, j) /\ g[k].name \in DOMAIN d.fields
    <3> DEFINE l == k - i - 1
    <3>1. l \in DOMAIN body /\ l + i + 1 = k /\ body[l] = g[k]
      BY <1>3
    <3>2. j - i - 2 \in Nat
      BY <1>3
    <3>3. l \in Starts(body)
      <4> HIDE DEF l
      <4> QED BY <1>3, <1>4, <1>10, <2>1, <3>1, <3>2, StartTagsBegin
    <3> HIDE DEF l
    <3> QED BY <1>4, <1>7, <3>1, <3>3
  <2>2. ASSUME NEW k \in Openings(g) PROVE k = i
    <3>1. k \in Nat /\ g[k].kind = "tool_call" /\ k <= j + 1 /\ i <= k
      BY <1>1, <1>5, <1>6 DEF Openings, Markup
    <3>2. k # i + 1
      BY <1>3, <3>1
    <3>3. k # j /\ k # j + 1
      BY <1>3, <3>1 DEF Endings, IsEnd
    <3>4. k \notin i + 2..j - 1
      <4> SUFFICES ASSUME k \in i + 2..j - 1 PROVE FALSE
        OBVIOUS
      <4>1. k \in Parameters(g, i, j)
        BY <2>1, <3>1 DEF StartKinds
      <4> QED BY <3>1, <4>1 DEF Parameters
    <3>5. i \in Nat /\ j \in Nat /\ k \in Nat /\ k <= j + 1 /\ i <= k
      BY <1>3, <3>1
    <3> QED BY ONLY <3>2, <3>3, <3>4, <3>5
  <2>3. {g[k].name : k \in Parameters(g, i, j)} \subseteq DOMAIN d.fields
    BY <2>1 DEF Parameters, StartKinds
  <2>4. Whole(g, d, i, j)
    BY <1>3, <2>2, <2>3 DEF Whole
  <2> QED BY <1>3, <1>8, <2>4
<1> QED BY <1>9, <1>10

(* parse_qwen_response refuses, or says what was generated. *)
LEMMA ParseIsHonest ==
  ASSUME NEW generated, NEW tools, generated \in Seq(ToSet(generated)),
         Parse(generated, tools) # Refused
  PROVE  LET parsed == Parse(generated, tools) IN
         /\ parsed.kind \in {"text", "call"}
         /\ parsed.kind = "text" => Markup(generated) = {}
         /\ parsed.kind = "call" => Honest(generated, parsed)
         /\ Checked(generated, parsed, tools)
<1>1. CASE Spans(generated) = {}
  <2>1. Parse(generated, tools) = IF Markup(generated) # {} \/ generated = <<>> THEN Refused
                                  ELSE [kind |-> "text"]
    BY <1>1 DEF Parse
  <2> QED BY <2>1 DEF Checked
<1>2. CASE Spans(generated) # {}
  <2> DEFINE name == Name(generated)
             arguments == Arguments(Body(generated), tools[name])
             parsed == [kind |-> "call", id |-> "minted", name |-> name,
                        fields |-> arguments.fields]
  <2>1. /\ SuffixIsClean(generated) /\ name \in DOMAIN tools /\ arguments # Refused
        /\ Parse(generated, tools) = parsed
    BY <1>2 DEF Parse
  <2>2. /\ parsed.kind = "call" /\ parsed.kind # "text" /\ parsed.kind # "final"
        /\ parsed.name = name /\ parsed.fields = arguments.fields
    OBVIOUS
  <2> HIDE DEF parsed
  <2>3. Checked(generated, parsed, tools)
    BY <1>2, <2>1, <2>2 DEF Checked
  <2>4. Honest(generated, parsed)
    BY <1>2, <2>1, <2>2, CallIsAnswered DEF Honest
  <2> QED BY <2>1, <2>2, <2>3, <2>4
<1> QED BY <1>1, <1>2

(* A message of the endpoint is read as what was parsed: to_openai_message  *)
(* and parse_response.                                                      *)
LEMMA MessageIsRead ==
  ASSUME NEW parsed, parsed.kind \in {"text", "call"}
  PROVE  LET d == Response(Message(parsed)) IN
         /\ parsed.kind = "text" => d = [kind |-> "final"]
         /\ parsed.kind = "call" => d = [kind |-> "call", id |-> parsed.id, name |-> parsed.name,
                                         fields |-> parsed.fields]
<1>1. CASE parsed.kind = "text"
  BY <1>1 DEF Message, Response
<1>2. CASE parsed.kind = "call"
  <2> DEFINE object == [is |-> "object", fields |-> parsed.fields]
             call == [id |-> parsed.id, name |-> parsed.name, arguments |-> object]
             message == [content |-> "null", calls |-> <<call>>]
  <2>1. Message(parsed) = message
    BY <1>2 DEF Message
  <2>2. message.calls # <<>> /\ Len(message.calls) = 1 /\ Head(message.calls) = call
    OBVIOUS
  <2>3. DecodedArguments(object) = parsed.fields
    BY DEF DecodedArguments
  <2>4. call.arguments = object /\ object.is = "object" /\ call.id = parsed.id
        /\ call.name = parsed.name
    OBVIOUS
  <2> HIDE DEF object, call, message
  <2> QED BY <1>2, <2>1, <2>2, <2>3, <2>4 DEF Response
<1> QED BY <1>1, <1>2

(* The endpoint's reply to the adapter. *)
LocalReply(generated, tools) == Reply("/v1/chat/completions", TRUE, generated, tools)

LEMMA LocalReplyIsParsed ==
  ASSUME NEW generated, NEW tools
  PROVE  LocalReply(generated, tools) =
           IF Parse(generated, tools) = Refused THEN [status |-> 422]
           ELSE [status |-> 200, choices |-> <<Message(Parse(generated, tools))>>]
BY DEF LocalReply, Reply

(* A decision got from the endpoint is honest about the generation. *)
LEMMA AnswerIsHonest ==
  ASSUME NEW generated, NEW tools, NEW answer, NEW d, generated \in Seq(ToSet(generated)),
         answer = LocalReply(generated, tools),
         d = IF answer.status # 200 \/ answer.choices = <<>> THEN Error
             ELSE Response(Head(answer.choices))
  PROVE  Honest(generated, d) /\ Checked(generated, d, tools)
<1> DEFINE parsed == Parse(generated, tools)
<1>1. CASE parsed = Refused
  <2>1. answer = [status |-> 422]
    BY <1>1, LocalReplyIsParsed
  <2>2. d = Error
    BY <2>1
  <2> QED BY <2>2 DEF Honest, Checked, Error
<1>2. CASE parsed # Refused
  <2>1. answer = [status |-> 200, choices |-> <<Message(parsed)>>]
    BY <1>2, LocalReplyIsParsed
  <2>2. d = Response(Message(parsed))
    BY <2>1
  <2>3. /\ parsed.kind \in {"text", "call"}
        /\ parsed.kind = "text" => Markup(generated) = {}
        /\ parsed.kind = "call" => Honest(generated, parsed)
        /\ Checked(generated, parsed, tools)
    BY <1>2, ParseIsHonest
  <2> HIDE DEF parsed
  <2>4. CASE parsed.kind = "text"
    <3>1. d = [kind |-> "final"]
      BY <2>2, <2>3, <2>4, MessageIsRead
    <3>2. d.kind = "final"
      BY <3>1
    <3> QED BY <2>3, <2>4, <3>2 DEF Honest, Checked
  <2>5. CASE parsed.kind = "call"
    <3>1. d = [kind |-> "call", id |-> parsed.id, name |-> parsed.name, fields |-> parsed.fields]
      BY <2>2, <2>3, <2>5, MessageIsRead
    <3>2. d.kind = "call" /\ d.name = parsed.name /\ d.fields = parsed.fields
      BY <3>1
    <3>3. \A i, j : /\ Answers(generated, parsed, i, j) => Answers(generated, d, i, j)
                    /\ Whole(generated, parsed, i, j) => Whole(generated, d, i, j)
      BY <3>2, Zenon DEF Answers, Whole
    <3>4. PICK i \in Openings(generated), j \in Endings(generated) :
            Answers(generated, parsed, i, j)
            /\ (Whole(generated, parsed, i, j) \/ Unclosed(generated, i, j))
      BY <2>3, <2>5 DEF Honest
    <3>5. Answers(generated, d, i, j)
          /\ (Whole(generated, d, i, j) \/ Unclosed(generated, i, j))
      BY <3>3, <3>4
    <3>6. d.kind # "final"
      BY <3>2
    <3>7. Honest(generated, d)
      BY <3>5, <3>6 DEF Honest
    <3> QED BY <2>3, <2>5, <3>2, <3>7 DEF Checked
  <2> QED BY <2>3, <2>4, <2>5
<1> QED BY <1>1, <1>2

(* From the endpoint's reply to the decision, what is carried is the reply  *)
(* to this generation, with the tools that were offered.                    *)
AnswerInv ==
  /\ stage \in {"context", "offer", "ask"} => raw = <<>>
  /\ stage = "interpret" /\ raw # <<>> =>
       raw \in Generated /\ reply = LocalReply(raw, Offered)
  /\ NoMarkupAsText

LEMMA AnswerStep ==
  ASSUME TurnAssumption, AnswerInv, [Next]_vars
  PROVE  AnswerInv'
<1>1. CASE Assemble \/ Offer
  <2>1. raw = <<>> /\ raw' = raw
    BY <1>1 DEF Assemble, Offer, AnswerInv
  <2> QED BY <2>1 DEF AnswerInv, NoMarkupAsText
<1>2. CASE AskLocal
  <2>1. stage' = "interpret" /\ UNCHANGED <<tool, granted>>
    BY <1>2 DEF AskLocal
  <2>2. raw' \in Generated /\ reply' = LocalReply(raw', Offered)
    BY <1>2, Zenon DEF AskLocal, LocalReply
  <2>3. Offered' = Offered
    BY <2>1 DEF Offered
  <2> QED BY <2>1, <2>2, <2>3 DEF AnswerInv, NoMarkupAsText
<1>3. CASE AskOther
  <2>1. raw = <<>> /\ raw' = raw
    BY <1>3 DEF AskOther, AnswerInv
  <2> QED BY <2>1 DEF AnswerInv, NoMarkupAsText
<1>4. CASE Interpret
  <2>1. stage = "interpret" /\ stage' = "execute" /\ raw' = raw
    BY <1>4 DEF Interpret
  <2>2. decision' = IF reply.status # 200 \/ reply.choices = <<>> THEN Error
                    ELSE Response(Head(reply.choices))
    BY <1>4 DEF Interpret
  <2>3. ASSUME raw # <<>> PROVE Honest(raw, decision')
    <3>1. raw \in Generated /\ reply = LocalReply(raw, Offered)
      BY <2>1, <2>3 DEF AnswerInv
    <3>2. raw \in Seq(ToSet(raw))
      BY <3>1, TurnAssumption DEF TurnAssumption
    <3> QED BY <2>2, <3>1, <3>2, AnswerIsHonest
  <2> QED BY <2>1, <2>3 DEF AnswerInv, NoMarkupAsText, Honest
<1>5. CASE Execute
  <2>1. stage' = "end"
    BY <1>5 DEF Execute
  <2> QED BY <2>1 DEF AnswerInv, NoMarkupAsText
<1>6. CASE UNCHANGED vars
  BY <1>6 DEF vars, AnswerInv, NoMarkupAsText, Offered
<1> QED BY <1>1, <1>2, <1>3, <1>4, <1>5, <1>6 DEF Next

(* A final text is one without any tool markup.  A call is the first one    *)
(* generated, with parameters of its own and nothing but text after it; and *)
(* the only one, with all of its parameters, for any generation in which no *)
(* start tag cuts off one of them (parse_qwen_response, to_openai_message,  *)
(* parse_response).                                                         *)
THEOREM MarkupIsNeverText == Spec => []NoMarkupAsText
<1>1. Init => AnswerInv
  BY DEF Init, AnswerInv, NoMarkupAsText
<1>2. AnswerInv /\ [Next]_vars => AnswerInv'
  BY TurnAssumption, AnswerStep
<1>3. AnswerInv => NoMarkupAsText
  BY DEF AnswerInv
<1> QED BY <1>1, <1>2, <1>3, PTL DEF Spec

-----------------------------------------------------------------------------
(* Schemas: what the registry accepts, and what it means.                   *)

(* A sequence has as many elements as positions only if no two are equal.   *)
LEMMA NoDuplicates ==
  ASSUME NEW items, items \in Seq(ToSet(items))
  PROVE  Cardinality({items[i] : i \in DOMAIN items}) = Len(items) <=>
           \A i, j \in DOMAIN items : items[i] = items[j] => i = j
<1> DEFINE S == 1..Len(items)
           T == {items[i] : i \in DOMAIN items}
<1>1. DOMAIN items = S /\ Len(items) \in Nat
  OBVIOUS
<1>2. IsFiniteSet(S) /\ Cardinality(S) = Len(items)
  <2>1. IsFiniteSet(S) /\ Cardinality(S) = IF 1 > Len(items) THEN 0 ELSE Len(items) - 1 + 1
    BY <1>1, FS_Interval
  <2> QED BY <1>1, <2>1
<1>3. items \in Surjection(S, T)
  <2>1. items \in [S -> T]
    BY <1>1
  <2> QED BY <1>1, <2>1 DEF Surjection
<1> HIDE DEF S, T
<1>4. Cardinality(S) = Cardinality(T) <=> items \in Injection(S, T)
  BY <1>2, <1>3, FS_Surjection
<1>5. items \in [S -> T]
  BY <1>3 DEF Surjection
<1>6. items \in Injection(S, T) <=> \A i, j \in S : items[i] = items[j] => i = j
  BY <1>5 DEF Injection, IsInjective
<1> QED BY <1>1, <1>2, <1>4, <1>6 DEF T

(* Exactly one position, counted or named.                                  *)
LEMMA ExactlyOne ==
  ASSUME NEW S, IsFiniteSet(S), NEW P
  PROVE  Cardinality(S \cap P) = 1 <=> \E i \in S : \A j \in S : j \in P <=> i = j
<1>1. IsFiniteSet(S \cap P)
  BY FS_Subset
<1>2. Cardinality(S \cap P) = 1 <=> \E x : S \cap P = {x}
  BY <1>1, FS_Singleton
<1> QED BY <1>2

(* Registry and meaning agree on what is judged inside. *)
InsideAgrees(s, v) == \A p \in Inside(s, v) : Admits(p[1], p[2]) <=> Means(p[1], p[2])

(* Validation goes into schemas that registration has checked.              *)
LEMMA InsideAreChildren ==
  ASSUME NEW s, NEW v, NEW p \in Inside(s, v)
  PROVE  p[1] \in Children(s)
<1> DEFINE A == UNION {{<<s[key][i], v>> : i \in DOMAIN s[key]} :
                         key \in DOMAIN s \cap {"allOf", "anyOf", "oneOf"}}
           B == {<<s.items, v.items[i]>> : i \in DOMAIN v.items}
           C == UNION {{<<schema, v.fields[k]>> : schema \in FieldSchemas(s, k)} :
                         k \in DOMAIN v.fields}
<1>1. CASE p \in A
  BY <1>1 DEF Children
<1>2. CASE Has(s, "not") /\ p = <<s.not, v>>
  BY <1>2 DEF Children, Has
<1>3. CASE Has(s, "items") /\ p \in B
  BY <1>3 DEF Children, Has
<1>4. CASE p \in C
  BY <1>4 DEF Children, FieldSchemas
<1>5. p \in (IF Has(s, "not") THEN {<<s.not, v>>} ELSE {})
           \cup (IF v.type = "array" /\ Has(s, "items") THEN B ELSE {})
           \cup (IF v.type = "object" THEN C ELSE {})
           \cup A
  BY DEF Inside
<1> HIDE DEF A, B, C
<1> QED BY <1>1, <1>2, <1>3, <1>4, <1>5

(* The parts are judged alike where the whole is.                           *)
LEMMA PartsAgree ==
  ASSUME NEW s, NEW v, InsideAgrees(s, v)
  PROVE  /\ Has(s, "allOf") =>
              \A i \in DOMAIN s.allOf : Admits(s.allOf[i], v) <=> Means(s.allOf[i], v)
         /\ Has(s, "anyOf") =>
              \A i \in DOMAIN s.anyOf : Admits(s.anyOf[i], v) <=> Means(s.anyOf[i], v)
         /\ Has(s, "oneOf") =>
              \A i \in DOMAIN s.oneOf : Admits(s.oneOf[i], v) <=> Means(s.oneOf[i], v)
         /\ Has(s, "not") => (Admits(s.not, v) <=> Means(s.not, v))
         /\ v.type = "array" /\ Has(s, "items") =>
              \A i \in DOMAIN v.items : Admits(s.items, v.items[i]) <=> Means(s.items, v.items[i])
         /\ v.type = "object" =>
              \A k \in DOMAIN v.fields : \A schema \in FieldSchemas(s, k) :
                Admits(schema, v.fields[k]) <=> Means(schema, v.fields[k])
<1>1. ASSUME NEW schema, NEW w, <<schema, w>> \in Inside(s, v)
      PROVE  Admits(schema, w) <=> Means(schema, w)
  BY <1>1 DEF InsideAgrees
<1>2. ASSUME NEW key \in {"allOf", "anyOf", "oneOf"}, Has(s, key), NEW i \in DOMAIN s[key]
      PROVE  Admits(s[key][i], v) <=> Means(s[key][i], v)
  <2>1. <<s[key][i], v>> \in Inside(s, v)
    BY <1>2 DEF Inside, Has
  <2> QED BY <1>1, <2>1
<1>3. Has(s, "not") => (Admits(s.not, v) <=> Means(s.not, v))
  BY <1>1 DEF Inside
<1>4. ASSUME v.type = "array", Has(s, "items"), NEW i \in DOMAIN v.items
      PROVE  Admits(s.items, v.items[i]) <=> Means(s.items, v.items[i])
  <2>1. <<s.items, v.items[i]>> \in Inside(s, v)
    BY <1>4 DEF Inside
  <2> QED BY <1>1, <2>1
<1>5. ASSUME v.type = "object", NEW k \in DOMAIN v.fields, NEW schema \in FieldSchemas(s, k)
      PROVE  Admits(schema, v.fields[k]) <=> Means(schema, v.fields[k])
  <2>1. <<schema, v.fields[k]>> \in Inside(s, v)
    BY <1>5 DEF Inside
  <2> QED BY <1>1, <2>1
<1> QED BY <1>2, <1>3, <1>4, <1>5

(* Keyword by keyword.                                                      *)
LEMMA AnyAgrees ==
  ASSUME NEW s, NEW v, Recursive(s, v), InsideAgrees(s, v), ~Confusing(s, v)
  PROVE  HoldsOfAny(s, v) <=>
           /\ Has(s, "type") => \E i \in DOMAIN s.type : JsonTypeMatches(v, s.type[i])
           /\ Has(s, "enum") => \E w \in s.enum : PyEqual(v, w)
           /\ Has(s, "const") => PyEqual(v, s.const)
           /\ Has(s, "allOf") => \A i \in DOMAIN s.allOf : Admits(s.allOf[i], v)
           /\ Has(s, "anyOf") => \E i \in DOMAIN s.anyOf : Admits(s.anyOf[i], v)
           /\ Has(s, "oneOf") => Cardinality({i \in DOMAIN s.oneOf : Admits(s.oneOf[i], v)}) = 1
           /\ Has(s, "not") => ~Admits(s.not, v)
<1>1. \A type : JsonTypeMatches(v, type) <=>
                  type \in {v.type} \cup (IF v.type = "integer" THEN {"number"} ELSE {})
  BY DEF JsonTypeMatches
<1>2. \A w \in Operands(s) : PyEqual(v, w) <=> JsonEqual(v, w)
  BY DEF Confusing
<1>3. /\ Has(s, "enum") => \A w \in s.enum : PyEqual(v, w) <=> JsonEqual(v, w)
      /\ Has(s, "const") => (PyEqual(v, s.const) <=> JsonEqual(v, s.const))
  BY <1>2 DEF Operands
<1>4. ASSUME Has(s, "oneOf")
      PROVE  Cardinality({i \in DOMAIN s.oneOf : Admits(s.oneOf[i], v)}) = 1 <=>
               \E i \in DOMAIN s.oneOf : \A j \in DOMAIN s.oneOf :
                 Means(s.oneOf[j], v) <=> i = j
  <2> DEFINE S == DOMAIN s.oneOf
             P == {i \in S : Admits(s.oneOf[i], v)}
  <2>1. s.oneOf \in Seq(ToSet(s.oneOf))
    BY <1>4 DEF Recursive
  <2>2. IsFiniteSet(S)
    <3>1. S = 1..Len(s.oneOf) /\ 1 \in Int /\ Len(s.oneOf) \in Int
      BY <2>1
    <3> QED BY <3>1, FS_Interval
  <2>3. S \cap P = P
    OBVIOUS
  <2>4. \A j \in S : j \in P <=> Means(s.oneOf[j], v)
    BY <1>4, PartsAgree
  <2>5. Cardinality(S \cap P) = 1 <=> \E i \in S : \A j \in S : j \in P <=> i = j
    <3> HIDE DEF S, P
    <3> QED BY <2>2, ExactlyOne
  <2> QED BY <2>3, <2>4, <2>5
<1>5. /\ Has(s, "allOf") =>
           \A i \in DOMAIN s.allOf : Admits(s.allOf[i], v) <=> Means(s.allOf[i], v)
      /\ Has(s, "anyOf") =>
           \A i \in DOMAIN s.anyOf : Admits(s.anyOf[i], v) <=> Means(s.anyOf[i], v)
      /\ Has(s, "not") => (Admits(s.not, v) <=> Means(s.not, v))
  BY PartsAgree
<1> QED BY <1>1, <1>3, <1>4, <1>5 DEF HoldsOfAny

LEMMA ArrayAgrees ==
  ASSUME NEW s, NEW v, Recursive(s, v), InsideAgrees(s, v), ~Confusing(s, v)
  PROVE  HoldsOfArray(s, v) <=> (v.type = "array" => AcceptsArray(s, v.items))
<1> SUFFICES ASSUME v.type = "array"
             PROVE HoldsOfArray(s, v) <=> AcceptsArray(s, v.items)
  BY DEF HoldsOfArray
<1>1. v.items \in Seq(ToSet(v.items))
  BY DEF Recursive
<1>2. Has(s, "items") =>
        \A i \in DOMAIN v.items : Admits(s.items, v.items[i]) <=> Means(s.items, v.items[i])
  BY PartsAgree
<1>3. ASSUME Has(s, "uniqueItems"), s.uniqueItems
      PROVE  Cardinality({v.items[i] : i \in DOMAIN v.items}) = Len(v.items) <=>
               \A i, j \in DOMAIN v.items : JsonEqual(v.items[i], v.items[j]) => i = j
  <2>1. \A i, j \in DOMAIN v.items :
          JsonEqual(v.items[i], v.items[j]) <=> v.items[i] = v.items[j]
    BY <1>3 DEF Confusing, JsonEqual
  <2> QED BY <1>1, <2>1, NoDuplicates
<1> QED BY <1>2, <1>3 DEF HoldsOfArray, AcceptsArray

LEMMA ObjectAgrees ==
  ASSUME NEW s, NEW v, InsideAgrees(s, v)
  PROVE  HoldsOfObject(s, v) <=> (v.type = "object" => AcceptsObject(s, v.fields))
<1> SUFFICES ASSUME v.type = "object"
             PROVE HoldsOfObject(s, v) <=> AcceptsObject(s, v.fields)
  BY DEF HoldsOfObject
<1> DEFINE fields == v.fields
           names == DOMAIN fields
           known == {k \in names : Has(s, "properties") /\ k \in DOMAIN s.properties}
<1>1. ExtraOf(s, fields) = names \ known
  BY DEF ExtraOf
<1>2. \A k \in known : FieldSchemas(s, k) = {s.properties[k]}
  BY DEF FieldSchemas
<1>3. \A k \in names \ known : FieldSchemas(s, k) =
        IF Has(s, "additionalProperties") /\ s.additionalProperties.is = "schema"
        THEN {s.additionalProperties.of} ELSE {}
  BY DEF FieldSchemas
<1>4. \A k \in names : \A schema \in FieldSchemas(s, k) :
        Admits(schema, fields[k]) <=> Means(schema, fields[k])
  BY PartsAgree
<1>5. Has(s, "properties") => DOMAIN s.properties \cap names = known
  OBVIOUS
<1>6. (\A k \in names : \A schema \in FieldSchemas(s, k) : Means(schema, fields[k])) <=>
        /\ \A k \in known : Admits(s.properties[k], fields[k])
        /\ Has(s, "additionalProperties") /\ s.additionalProperties.is = "schema" =>
             \A k \in names \ known : Admits(s.additionalProperties.of, fields[k])
  <2>1. names = known \cup (names \ known)
    OBVIOUS
  <2> HIDE DEF names, known, fields
  <2> QED BY <1>2, <1>3, <1>4, <2>1
<1>7. Has(s, "additionalProperties") /\ s.additionalProperties.is = "false" =>
        ((\A k \in names : FieldSchemas(s, k) # {}) <=> ExtraOf(s, fields) = {})
  <2>1. known \subseteq names
    OBVIOUS
  <2> HIDE DEF names, known, fields
  <2> QED BY <1>1, <1>2, <1>3, <2>1
<1>8. ~Has(s, "properties") => known = {}
  OBVIOUS
<1>9. Has(s, "required") => (s.required \ names = {} <=> s.required \subseteq names)
  OBVIOUS
<1>10. HoldsOfObject(s, v) <=>
         /\ Has(s, "required") => s.required \ names = {}
         /\ Has(s, "minProperties") => Cardinality(names) >= s.minProperties
         /\ Has(s, "maxProperties") => Cardinality(names) <= s.maxProperties
         /\ \A k \in names : \A schema \in FieldSchemas(s, k) : Means(schema, fields[k])
         /\ Has(s, "additionalProperties") /\ s.additionalProperties.is = "false" =>
              \A k \in names : FieldSchemas(s, k) # {}
  BY DEF HoldsOfObject
<1> HIDE DEF names, known, fields
<1>11. AcceptsObject(s, fields) <=>
         /\ Has(s, "required") => s.required \subseteq names
         /\ Has(s, "minProperties") => Cardinality(names) >= s.minProperties
         /\ Has(s, "maxProperties") => Cardinality(names) <= s.maxProperties
         /\ \A k \in known : Admits(s.properties[k], fields[k])
         /\ Has(s, "additionalProperties") /\ s.additionalProperties.is = "false" =>
              ExtraOf(s, fields) = {}
         /\ Has(s, "additionalProperties") /\ s.additionalProperties.is = "schema" =>
              \A k \in names \ known : Admits(s.additionalProperties.of, fields[k])
  BY <1>1, <1>5, <1>8 DEF AcceptsObject, names
<1> QED BY <1>6, <1>7, <1>9, <1>10, <1>11 DEF fields

(* One level: the registry looks at every keyword that registration lets    *)
(* through (_SUPPORTED_SCHEMA_KEYS, _validate_schema_value).                *)
LEMMA LevelAgrees ==
  ASSUME NEW s, NEW v, Supported(s), Recursive(s, v), InsideAgrees(s, v), ~Confusing(s, v)
  PROVE  Accepts(s, v) <=> Holds(s, v)
<1>1. HoldsOfNumber(s, v) <=> (IsNumber(v) => AcceptsNumber(s, v.n))
  BY DEF HoldsOfNumber, AcceptsNumber
<1>2. HoldsOfString(s, v) <=> (v.type = "string" => AcceptsString(s, v))
  BY DEF HoldsOfString, AcceptsString
<1>3. DOMAIN s \subseteq SupportedKeys
  BY DEF Supported
<1>4. Holds(s, v) <=> /\ HoldsOfAny(s, v) /\ HoldsOfNumber(s, v) /\ HoldsOfString(s, v)
                      /\ HoldsOfArray(s, v) /\ HoldsOfObject(s, v)
  BY <1>3, Zenon DEF Holds, SupportedKeys
<1> QED BY <1>1, <1>2, <1>4, AnyAgrees, ArrayAgrees, ObjectAgrees DEF Accepts

(* A validation in J goes on in J, and nothing in J is confusing.           *)
Plain(J) ==
  \A p \in J : Recursive(p[1], p[2]) /\ Inside(p[1], p[2]) \subseteq J /\ ~Confusing(p[1], p[2])

(* By induction on how deep schemas nest.                                   *)
LEMMA ReadingsAgree ==
  ASSUME NEW J, Plain(J), NEW p \in J, Supported(p[1])
  PROVE  Accepts(p[1], p[2]) <=> Holds(p[1], p[2])
<1> DEFINE Agrees(q) == Supported(q[1]) => (Accepts(q[1], q[2]) <=> Holds(q[1], q[2]))
           D == {n \in Nat : \A q \in J : Nests(q[1]) < n => Agrees(q)}
<1>1. \A q \in J : /\ Recursive(q[1], q[2]) /\ Inside(q[1], q[2]) \subseteq J
                   /\ ~Confusing(q[1], q[2]) /\ Nests(q[1]) \in Nat
  BY DEF Plain, Recursive
<1>2. 0 \in D
  BY <1>1
<1>3. ASSUME NEW n \in Nat, n \in D PROVE n + 1 \in D
  <2> SUFFICES ASSUME NEW q \in J, Nests(q[1]) < n + 1, Supported(q[1])
               PROVE  Accepts(q[1], q[2]) <=> Holds(q[1], q[2])
    OBVIOUS
  <2>1. InsideAgrees(q[1], q[2])
    <3> SUFFICES ASSUME NEW r \in Inside(q[1], q[2])
                 PROVE  Admits(r[1], r[2]) <=> Means(r[1], r[2])
      BY DEF InsideAgrees
    <3>1. r \in J /\ Recursive(r[1], r[2]) /\ Nests(r[1]) \in Nat
      BY <1>1
    <3>2. r[1] \in Children(q[1])
      BY InsideAreChildren
    <3>3. Nests(r[1]) < Nests(q[1]) /\ Supported(r[1])
      <4>1. Recursive(q[1], q[2])
        BY <1>1
      <4>2. Nests(r[1]) < Nests(q[1])
        BY <3>2, <4>1 DEF Recursive
      <4>3. Registers(r[1])
        BY <3>2 DEF Supported
      <4> QED BY <3>1, <4>2, <4>3 DEF Recursive
    <3>4. Agrees(r)
      <4>1. Nests(q[1]) \in Nat
        BY <1>1
      <4>2. Nests(r[1]) < n
        BY <3>1, <3>3, <4>1
      <4> HIDE DEF Agrees
      <4> QED BY <1>3, <3>1, <4>2
    <3> QED BY <3>1, <3>3, <3>4 DEF Recursive
  <2>2. Recursive(q[1], q[2]) /\ ~Confusing(q[1], q[2])
    BY <1>1
  <2> QED BY <2>1, <2>2, LevelAgrees
<1>4. Nests(p[1]) + 1 \in D
  <2>1. Nests(p[1]) + 1 \in Nat
    BY <1>1
  <2> HIDE DEF D
  <2> QED BY <1>2, <1>3, <2>1, SetInduction
<1>5. Agrees(p)
  <2>1. Nests(p[1]) < Nests(p[1]) + 1
    BY <1>1
  <2> HIDE DEF Agrees
  <2> QED BY <1>4, <2>1
<1> QED BY <1>5

(* What the registry does with arguments it may be given. *)
LEMMA RegistryIsExact ==
  ASSUME RegistryAssumption, NEW s \in Schemas, Supported(s), NEW v \in Given(s),
         \A p \in Judged(s, v) : ~Confusing(p[1], p[2])
  PROVE  Accepts(s, v) <=> Holds(s, v)
<1>1. Plain(Judged(s, v))
  BY DEF RegistryAssumption, Plain
<1>2. <<s, v>> \in Judged(s, v) /\ <<s, v>>[1] = s /\ <<s, v>>[2] = v
  BY DEF Judged
<1> HIDE DEF Judged
<1> QED BY <1>1, <1>2, ReadingsAgree

-----------------------------------------------------------------------------
(* The admission of the call.                                               *)

(* Literals are read as JSON types. *)
LEMMA ReadingsAreJsonTypes ==
  ASSUME NEW literal
  PROVE  Readings(literal) \cup {"string"} \subseteq JsonTypes
BY DEF Readings, JsonTypes

LEMMA ValueHasItsType ==
  ASSUME NEW literal, NEW type \in JsonTypes
  PROVE  Value(literal, type).type = type
BY DEF Value, JsonTypes

(* An argument of the local model has one of the types its schema declares  *)
(* (_coerce_parameter).                                                     *)
LEMMA CoercedHasDeclaredType ==
  ASSUME NEW literal, NEW schema, Coercible(literal, schema),
         Declared(schema) \in Seq(ToSet(Declared(schema)))
  PROVE  \E i \in DOMAIN Declared(schema) :
           Coerced(literal, schema).type = Declared(schema)[i]
<1> DEFINE types == Declared(schema)
           reads == {i \in DOMAIN types : types[i] \in Readings(literal) \cup {"string"}}
           first == CHOOSE i \in reads : \A j \in reads : i <= j
<1>1. reads # {}
  BY DEF Coercible
<1>2. reads \subseteq Nat
  <2>1. DOMAIN types = 1..Len(types)
    OBVIOUS
  <2> QED BY <2>1
<1>3. \E i \in reads : \A j \in reads : i <= j
  <2> HIDE DEF reads
  <2> QED BY <1>1, <1>2, LeastNumber
<1>4. first \in reads
  <2> HIDE DEF reads
  <2> QED BY <1>3
<1>5. types[first] \in JsonTypes
  BY <1>4, ReadingsAreJsonTypes
<1>6. Coerced(literal, schema) = Value(literal, types[first])
  BY DEF Coerced
<1> HIDE DEF first
<1> QED BY <1>4, <1>5, <1>6, ValueHasItsType

(* A schema that says nothing but a type takes every value of that type.    *)
LEMMA TypeSuffices ==
  ASSUME NEW s, NEW v, DOMAIN s \subseteq {"type"},
         Has(s, "type") => \E i \in DOMAIN s.type : s.type[i] = v.type
  PROVE  Accepts(s, v)
BY DEF Accepts, Has, JsonTypeMatches, AcceptsObject, AcceptsArray, AcceptsString,
       AcceptsNumber, IsNumber, ExtraOf

(* What the endpoint lets through is among what the registry may be given.  *)
LEMMA LocalArgumentsAreGiven ==
  ASSUME NEW s, NEW generated \in Generated, Spans(generated) # {},
         Arguments(Body(generated), s) # Refused
  PROVE  [type |-> "object", fields |-> Arguments(Body(generated), s).fields] \in Given(s)
<1> DEFINE matched == {g \in Generated : Spans(g) # {}}
           local == {Arguments(Body(g), s) : g \in matched} \ {Refused}
<1>1. generated \in matched
  OBVIOUS
<1>2. Arguments(Body(generated), s) \in local
  <2> HIDE DEF matched
  <2> QED BY <1>1
<1>3. Arguments(Body(generated), s).fields \in {arguments.fields : arguments \in local}
  <2> HIDE DEF local
  <2> QED BY <1>2
<1> QED BY <1>3 DEF Given

(* Likewise the arguments of another provider.                              *)
LEMMA OtherArgumentsAreGiven ==
  ASSUME NEW s, NEW answer \in Payloads, answer.status = 200, answer.choices # <<>>,
         Response(Head(answer.choices)).kind = "call"
  PROVE  [type |-> "object", fields |-> Response(Head(answer.choices)).fields] \in Given(s)
<1> DEFINE message == Head(answer.choices)
           call == Head(message.calls)
           replies == {r \in Payloads : r.status = 200 /\ r.choices # <<>>}
           asked == {Head(r.choices).calls : r \in replies} \ {<<>>}
           taken == {c \in {Head(calls) : calls \in asked} : c.arguments.is \in {"object", "empty"}}
<1>1. /\ message.calls # <<>> /\ call.arguments.is \in {"object", "empty"}
      /\ Response(message).fields = DecodedArguments(call.arguments)
  BY DEF Response, Error
<1>2. message.calls \in asked
  BY <1>1
<1>3. call \in taken
  <2> HIDE DEF asked
  <2> QED BY <1>1, <1>2
<1>4. DecodedArguments(call.arguments) \in {DecodedArguments(c.arguments) : c \in taken}
  <2> HIDE DEF taken, call
  <2> QED BY <1>3
<1> QED BY <1>1, <1>4 DEF Given

(* The endpoint's checks on a call, and the registry's on what came of it,  *)
(* agree on a schema that asks only for types and names (parse_qwen_response, *)
(* _validate_schema_value).                                                 *)
LEMMA ArgumentsAreAdmitted ==
  ASSUME TurnAssumption, RegistryAssumption,
         NEW s \in Schemas, Supported(s), TypesOnly(s),
         NEW generated \in Generated, Spans(generated) # {},
         Arguments(Body(generated), s) # Refused
  PROVE  Accepts(s, [type |-> "object", fields |-> Arguments(Body(generated), s).fields])
<1> DEFINE body == Body(generated)
           names == {body[k].name : k \in Starts(body)}
           at(name) == CHOOSE k \in Starts(body) : body[k].name = name
           fields == Arguments(Body(generated), s).fields
           v == [type |-> "object", fields |-> fields]
<1>1. ASSUME NEW p \in Inside(s, v) PROVE Recursive(p[1], p[2])
  <2>1. v \in Given(s)
    BY LocalArgumentsAreGiven
  <2>2. /\ <<s, v>> \in Judged(s, v) /\ <<s, v>>[1] = s /\ <<s, v>>[2] = v
        /\ \A q \in Judged(s, v) :
             Recursive(q[1], q[2]) /\ Inside(q[1], q[2]) \subseteq Judged(s, v)
    BY <2>1, RegistryAssumption DEF RegistryAssumption, Judged
  <2> HIDE DEF v
  <2> QED BY <2>2
<1>2. /\ fields = [name \in names |-> Coerced(Literal(body, at(name)), SchemaOf(s, name))]
      /\ Closed(s) => names \subseteq DOMAIN Properties(s)
      /\ \A k \in Starts(body) : Coercible(Literal(body, k), SchemaOf(s, body[k].name))
      /\ Required(s) \subseteq names
  BY Arguments(Body(generated), s) # Refused, Zenon DEF Arguments
<1>3. DOMAIN fields = names
  BY <1>2
<1>4. ASSUME NEW name \in names \cap DOMAIN Properties(s)
      PROVE  Admits(Properties(s)[name], fields[name])
  <2> DEFINE schema == Properties(s)[name]
             literal == Literal(body, at(name))
  <2>1. at(name) \in Starts(body) /\ body[at(name)].name = name
    OBVIOUS
  <2>2. SchemaOf(s, name) = schema
    BY DEF SchemaOf
  <2>3. fields[name] = Coerced(literal, schema) /\ Coercible(literal, schema)
    <3>1. fields[name] = Coerced(literal, SchemaOf(s, name))
      BY <1>2
    <3>2. Coercible(literal, SchemaOf(s, body[at(name)].name))
      BY <1>2, <2>1
    <3> HIDE DEF fields, at, schema
    <3> QED BY <3>1, <3>2, <2>1, <2>2
  <2>4. Declared(schema) \in Seq(ToSet(Declared(schema)))
    BY DEF TurnAssumption
  <2>5. \E k \in DOMAIN Declared(schema) : fields[name].type = Declared(schema)[k]
    <3> HIDE DEF fields, at, schema
    <3> QED BY <2>3, <2>4, CoercedHasDeclaredType
  <2>6. DOMAIN schema \subseteq {"type"}
    BY DEF TypesOnly
  <2>7. Has(schema, "type") => Declared(schema) = schema.type
    BY DEF Has, Declared
  <2>8. Recursive(schema, fields[name])
    <3>1. <<schema, fields[name]>> \in Inside(s, v)
      <4>1. Has(s, "properties") /\ name \in DOMAIN s.properties /\ schema = s.properties[name]
        BY DEF Has, Properties
      <4>2. schema \in FieldSchemas(s, name) /\ name \in DOMAIN fields
        BY <1>3, <4>1 DEF FieldSchemas
      <4>3. v.type = "object" /\ v.fields = fields
        OBVIOUS
      <4> HIDE DEF v, fields, schema
      <4> QED BY <4>2, <4>3 DEF Inside
    <3> QED BY <1>1, <3>1
  <2> SUFFICES Admits(schema, fields[name])
    OBVIOUS
  <2> HIDE DEF schema, literal, fields
  <2>9. Has(schema, "type") => \E k \in DOMAIN schema.type : schema.type[k] = fields[name].type
    BY <2>5, <2>7
  <2>10. Accepts(schema, fields[name])
    BY <2>6, <2>9, TypeSuffices
  <2> QED BY <2>8, <2>10 DEF Recursive
<1>5. Accepts(s, v)
  <2>1. AcceptsObject(s, fields)
    <3>1. Has(s, "properties") =>
            DOMAIN s.properties = DOMAIN Properties(s) /\ s.properties = Properties(s)
      BY DEF Has, Properties
    <3>2. ~Has(s, "properties") => DOMAIN Properties(s) = {}
      BY DEF Has, Properties
    <3>3. Has(s, "required") => s.required \subseteq DOMAIN fields
      BY <1>2, <1>3 DEF Has, Required
    <3>4. Has(s, "properties") =>
            \A k \in DOMAIN s.properties \cap DOMAIN fields : Admits(s.properties[k], fields[k])
      BY <1>3, <1>4, <3>1
    <3>5. ExtraOf(s, fields) = names \ DOMAIN Properties(s)
      BY <1>3, <3>1, <3>2 DEF ExtraOf
    <3>6. Has(s, "additionalProperties") =>
            /\ s.additionalProperties.is = "false" => ExtraOf(s, fields) = {}
            /\ s.additionalProperties.is # "schema"
      BY <1>2, <3>5 DEF Has, Closed, TypesOnly
    <3>7. ~Has(s, "minProperties") /\ ~Has(s, "maxProperties")
      BY DEF TypesOnly, Has
    <3> HIDE DEF fields
    <3> QED BY <3>3, <3>4, <3>6, <3>7 DEF AcceptsObject
  <2>2. Has(s, "type") => \E k \in DOMAIN s.type : JsonTypeMatches(v, s.type[k])
    BY DEF TypesOnly, JsonTypeMatches
  <2>3. /\ ~Has(s, "enum") /\ ~Has(s, "const") /\ ~Has(s, "allOf") /\ ~Has(s, "anyOf")
        /\ ~Has(s, "oneOf") /\ ~Has(s, "not")
    BY DEF TypesOnly, Has
  <2>4. /\ v.type # "array" /\ v.type # "string" /\ ~IsNumber(v) /\ v.fields = fields
    BY DEF IsNumber
  <2> HIDE DEF v
  <2> QED BY <2>1, <2>2, <2>3, <2>4 DEF Accepts
<1> QED BY <1>5

(* The tool is a registered one; the decision a checked answer of the       *)
(* endpoint, or another provider's; the arguments are ones that the         *)
(* registry may be given.                                                   *)
IsGiven(s, d) ==
  d.kind = "call" /\ d.name = "t" => [type |-> "object", fields |-> d.fields] \in Given(s)

AdmissionInv ==
  /\ AnswerInv
  /\ stage \in {"ask", "interpret", "execute"} => tool \in Schemas /\ Supported(tool)
  /\ stage = "interpret" /\ raw = <<>> => reply \in Payloads \/ reply.status # 200
  /\ stage = "execute" /\ raw # <<>> => raw \in Generated /\ Checked(raw, decision, Offered)
  /\ stage = "execute" => IsGiven(tool, decision)
  /\ stage # "end" => outcome = "none"
  /\ CallsAreAdmissible /\ AdmittedIsValid

(* The endpoint refuses an empty generation. *)
LEMMA NothingGenerated ==
  ASSUME NEW tools
  PROVE  LocalReply(<<>>, tools) = [status |-> 422]
<1>1. Spans(<<>>) = {}
  BY DEF Spans, Openings
<1>2. Parse(<<>>, tools) = Refused
  BY <1>1 DEF Parse
<1> QED BY <1>2, LocalReplyIsParsed

(* A call the endpoint let through brings arguments to the registry.        *)
LEMMA CheckedIsGiven ==
  ASSUME NEW generated \in Generated, NEW d, Checked(generated, d, Offered)
  PROVE  IsGiven(tool, d)
<1> SUFFICES ASSUME d.kind = "call", d.name = "t"
             PROVE  [type |-> "object", fields |-> d.fields] \in Given(tool)
  BY DEF IsGiven
<1>1. Offered["t"] = tool
  BY DEF Checked, Offered
<1>2. /\ Spans(generated) # {} /\ Arguments(Body(generated), tool) # Refused
      /\ d.fields = Arguments(Body(generated), tool).fields
  BY <1>1 DEF Checked
<1> QED BY <1>2, LocalArgumentsAreGiven

LEMMA AdmissionStep ==
  ASSUME TurnAssumption, RegistryAssumption, AdmissionInv, [Next]_vars
  PROVE  AdmissionInv'
<1>1. AnswerInv'
  BY AnswerStep DEF AdmissionInv
<1>2. CASE Assemble
  BY <1>1, <1>2 DEF Assemble, AdmissionInv, CallsAreAdmissible, AdmittedIsValid
<1>3. CASE Offer
  <2>1. tool' \in Schemas /\ Supported(tool') /\ stage' = "ask" /\ outcome' = "none"
    BY <1>3 DEF Offer, AdmissionInv
  <2> QED BY <1>1, <2>1 DEF AdmissionInv, CallsAreAdmissible, AdmittedIsValid
<1>4. CASE AskLocal \/ AskOther
  <2>1. stage = "ask" /\ stage' = "interpret" /\ tool' = tool /\ outcome' = "none"
    BY <1>4 DEF AskLocal, AskOther, AdmissionInv
  <2>2. raw' = <<>> => reply' \in Payloads \/ reply'.status # 200
    <3>1. CASE AskLocal
      <4>1. reply' = LocalReply(raw', Offered)
        BY <3>1, Zenon DEF AskLocal, LocalReply
      <4> QED BY <4>1, NothingGenerated
    <3>2. CASE AskOther
      BY <3>2 DEF AskOther
    <3> QED BY <1>4, <3>1, <3>2
  <2> QED BY <1>1, <2>1, <2>2 DEF AdmissionInv, CallsAreAdmissible, AdmittedIsValid
<1>5. CASE Interpret
  <2>1. /\ stage = "interpret" /\ stage' = "execute" /\ UNCHANGED <<raw, tool, granted>>
        /\ outcome' = "none" /\ tool \in Schemas /\ Supported(tool)
    BY <1>5 DEF Interpret, AdmissionInv
  <2>2. decision' = IF reply.status # 200 \/ reply.choices = <<>> THEN Error
                    ELSE Response(Head(reply.choices))
    BY <1>5 DEF Interpret
  <2>3. ASSUME raw # <<>> PROVE raw \in Generated /\ Checked(raw, decision', Offered)
    <3>1. raw \in Generated /\ reply = LocalReply(raw, Offered)
      BY <2>1, <2>3 DEF AdmissionInv, AnswerInv
    <3>2. raw \in Seq(ToSet(raw))
      BY <3>1, TurnAssumption DEF TurnAssumption
    <3> QED BY <2>2, <3>1, <3>2, AnswerIsHonest
  <2>4. Offered' = Offered
    BY <2>1 DEF Offered
  <2>5. IsGiven(tool, decision')
    <3>1. CASE raw # <<>>
      BY <2>3, <3>1, CheckedIsGiven
    <3>2. CASE raw = <<>>
      <4>1. SUFFICES ASSUME decision'.kind = "call"
                     PROVE  [type |-> "object", fields |-> decision'.fields] \in Given(tool)
        BY DEF IsGiven
      <4>2. /\ reply.status = 200 /\ reply.choices # <<>> /\ reply \in Payloads
            /\ decision' = Response(Head(reply.choices))
        BY <2>1, <2>2, <3>2, <4>1 DEF AdmissionInv, Error
      <4> QED BY <4>1, <4>2, OtherArgumentsAreGiven
    <3> QED BY <3>1, <3>2
  <2> QED BY <1>1, <2>1, <2>3, <2>4, <2>5
          DEF AdmissionInv, CallsAreAdmissible, AdmittedIsValid, IsGiven
<1>6. CASE Execute
  <2> DEFINE arguments == [type |-> "object", fields |-> decision.fields]
  <2>1. /\ stage = "execute" /\ stage' = "end" /\ decision.kind = "call"
        /\ UNCHANGED <<raw, tool, decision>>
        /\ outcome' = IF decision.name # "t" \/ ~granted THEN "denied"
                      ELSE IF Accepts(tool, arguments) THEN "admitted" ELSE "invalid"
    BY <1>6, Zenon DEF Execute
  <2>2. tool \in Schemas /\ Supported(tool)
    BY <2>1 DEF AdmissionInv
  <2>3. ASSUME raw # <<>>, TypesOnly(tool) PROVE outcome' = "admitted"
    <3>1. raw \in Generated /\ Checked(raw, decision, Offered)
      BY <2>1, <2>3 DEF AdmissionInv
    <3>2. granted /\ decision.name = "t" /\ Offered["t"] = tool
      BY <2>1, <3>1 DEF Checked, Offered
    <3>3. /\ Spans(raw) # {} /\ Arguments(Body(raw), tool) # Refused
          /\ decision.fields = Arguments(Body(raw), tool).fields
      BY <2>1, <3>1, <3>2 DEF Checked
    <3>4. Accepts(tool, arguments)
      BY <2>2, <2>3, <3>1, <3>3, ArgumentsAreAdmitted
    <3> QED BY <2>1, <3>2, <3>4
  <2>4. ASSUME outcome' \in {"admitted", "invalid"},
               \A p \in Judged(tool, arguments) : ~Confusing(p[1], p[2])
        PROVE  outcome' = "admitted" <=> Holds(tool, arguments)
    <3>1. arguments \in Given(tool)
      BY <2>1, <2>4 DEF AdmissionInv, IsGiven
    <3>2. Accepts(tool, arguments) <=> Holds(tool, arguments)
      <4> HIDE DEF arguments
      <4> QED BY <2>2, <2>4, <3>1, RegistryIsExact
    <3>3. outcome' = "admitted" <=> Accepts(tool, arguments)
      <4> HIDE DEF arguments
      <4> QED BY <2>1, <2>4
    <3> QED BY <3>2, <3>3
  <2>5. CallsAreAdmissible'
    BY <2>1, <2>3 DEF CallsAreAdmissible
  <2>6. AdmittedIsValid'
    <3>1. tool' = tool /\ [type |-> "object", fields |-> decision'.fields] = arguments
      BY <2>1
    <3> HIDE DEF arguments
    <3> QED BY <2>4, <3>1 DEF AdmittedIsValid
  <2> QED BY <1>1, <2>1, <2>5, <2>6 DEF AdmissionInv
<1>7. CASE UNCHANGED vars
  <2>1. Offered' = Offered /\ AdmittedIsValid'
    BY <1>7 DEF vars, Offered, AdmissionInv, AdmittedIsValid
  <2> QED BY <1>1, <1>7, <2>1 DEF vars, AdmissionInv, CallsAreAdmissible, IsGiven
<1> QED BY <1>2, <1>3, <1>4, <1>5, <1>6, <1>7 DEF Next

LEMMA AdmissionHolds == Spec => []AdmissionInv
<1>1. Init => AdmissionInv
  BY DEF Init, AdmissionInv, AnswerInv, NoMarkupAsText, CallsAreAdmissible, AdmittedIsValid
<1>2. AdmissionInv /\ [Next]_vars => AdmissionInv'
  BY TurnAssumption, RegistryAssumption, AdmissionStep
<1> QED BY <1>1, <1>2, PTL DEF Spec

(* Endpoint and registry never disagree about types and names: over a       *)
(* schema that asks for nothing else, a call that passed the endpoint is    *)
(* admitted (parse_qwen_response, _validate_schema_value, execute).         *)
THEOREM LocalCallsAreAdmitted == Spec => []CallsAreAdmissible
<1>1. AdmissionInv => CallsAreAdmissible
  BY DEF AdmissionInv
<1> QED BY <1>1, AdmissionHolds, PTL

(* The registry enforces every keyword it lets through, at any depth: what  *)
(* it admits or refuses, of any provider, is what the schema describes or   *)
(* does not (_check_supported_schema, _validate_schema_value, execute).     *)
THEOREM RegistryMeansSchema == Spec => []AdmittedIsValid
<1>1. AdmissionInv => AdmittedIsValid
  BY DEF AdmissionInv
<1> QED BY <1>1, AdmissionHolds, PTL
=============================================================================
