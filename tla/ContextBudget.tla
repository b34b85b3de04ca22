---------------------------- MODULE ContextBudget ----------------------------
(***************************************************************************)
(* The context assembler (src/pre_active/context.py) with the search it     *)
(* makes (src/pre_active/store.py), on lengths: what fits into a budget of  *)
(* MaxChars next to the system prompt and the task.                         *)
(*                                                                          *)
(* A memory is [id, len, salience, matches]: ids grow with the time of      *)
(* creation, and among equal times in the order the database returns them;  *)
(* len is the length of its line, matches how many terms of the query its   *)
(* text contains.                                                           *)
(***************************************************************************)
EXTENDS Integers, Sequences, SequencesExt, FiniteSets

CONSTANTS MaxChars, MemoryLimit, Heading  \* Heading: length of the first line

Before(a, b) == a.salience > b.salience \/ (a.salience = b.salience /\ a.id > b.id)
Ranked(a, b) == a.matches > b.matches \/ (a.matches = b.matches /\ Before(a, b))
Take(s, n) == SubSeq(s, 1, IF Len(s) < n THEN Len(s) ELSE n)

(* SetToSortSeq, without its search through all permutations. *)
Sorted(S, Less(_, _)) ==
  [i \in 1..Cardinality(S) |-> CHOOSE m \in S : Cardinality({o \in S : Less(o, m)}) = i - 1]

(* The most salient 4 * limit rows, ranked by matches, cut to the limit. *)
SearchMemories(memories) ==
  LET rows == Take(Sorted(memories, Before), 4 * MemoryLimit)
  IN Take(Sorted(ToSet(rows), Ranked), MemoryLimit)

AtLeast0(n) == IF n < 0 THEN 0 ELSE n

(* The lines of one message, under its heading, joined by newlines. *)
Joined(lines) ==
  LET length[i \in 0..Len(lines)] ==
        IF i = 0 THEN Heading - 1 ELSE length[i - 1] + 1 + lines[i].len
  IN IF lines = <<>> THEN 0 ELSE length[Len(lines)]

(* The messages joined by newlines; a memory message is there or not. *)
Total(c) == c.system + 1 + c.task + (IF c.memory = <<>> THEN 0 ELSE 1 + Joined(c.memory))

(* What the system prompt leaves to a task that has to be cut. *)
BugAllowance(c) == AtLeast0(MaxChars - c.system)
BugAllowanceTwice(c) == AtLeast0(MaxChars - c.system - 2)
Allowance(c) == AtLeast0(MaxChars - c.system - 1)

(* _trim_required *)
Trim(c) ==
  LET bare == [c EXCEPT !.memory = <<>>] IN
  IF Total(c) <= MaxChars THEN c
  ELSE IF Total(bare) <= MaxChars THEN bare
  ELSE [bare EXCEPT !.task = IF @ < Allowance(c) THEN @ ELSE Allowance(c)]

(* Each hit that still fits is taken. *)
BugCost(chosen, m) == m.len + (IF chosen = <<>> THEN Heading ELSE 0)
Cost(chosen, m) == m.len + (IF chosen = <<>> THEN Heading ELSE 1)

Remaining(system, task) == AtLeast0(MaxChars - (system + task + 1) - 1)

TakeIfFits(acc, m) ==
  IF Cost(acc.chosen, m) <= acc.left
  THEN [chosen |-> Append(acc.chosen, m), left |-> acc.left - Cost(acc.chosen, m)] ELSE acc

Select(hits, room) ==
  LET after[i \in 0..Len(hits)] ==
        IF i = 0 THEN [chosen |-> <<>>, left |-> room] ELSE TakeIfFits(after[i - 1], hits[i])
  IN after[Len(hits)].chosen

Build(system, task, memories) ==
  Trim([system |-> system, task |-> task,
        memory |-> IF Remaining(system, task) <= 0 THEN <<>>
                   ELSE Select(SearchMemories(memories), Remaining(system, task))])
=============================================================================
