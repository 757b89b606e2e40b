----------------------------- MODULE PickUpTask -----------------------------
(***************************************************************************)
(* ManageModular.PickUpTask (manager.go): the weighted random choice among  *)
(* the candidate tasks the Manager collected for one AskTask.               *)
(*                                                                         *)
(* The candidates are sorted by priority (sort.Slice, not stable), a number *)
(* r is drawn from [0, total priority), and the first task whose running    *)
(* priority sum reaches r is returned.  The model draws every order the     *)
(* sort may produce and every r, and compares the walk with the reference   *)
(* pick the Manager's documentation describes: task k owns the r in         *)
(* [prefix(k-1), prefix(k)), so it is chosen with probability p(k) / total. *)
(***************************************************************************)
EXTENDS Naturals, Sequences, FiniteSets, Functions, SequencesExt

CONSTANTS
  Priorities,    \* the priorities a candidate may carry
  MaxCandidates  \* bound: the most candidates one AskTask collects

ASSUME /\ Priorities \subseteq Nat \ {0}
       /\ MaxCandidates \in Nat \ {0}

NoPick == 0      \* PickUpTask returned nil

VARIABLES
  cands,   \* the candidates' priorities, indexed by candidate
  order,   \* the candidates after sort.Slice, as a sequence of indexes
  r,       \* randPriority
  picked,  \* the index of the returned candidate, or NoPick
  pc

vars == <<cands, order, r, picked, pc>>

Candidates == UNION {[1..n -> Priorities] : n \in 0..MaxCandidates}

\* Every result sort.Slice may produce: an ascending order of the indexes.
SortedOrders(ps) ==
  {o \in [1..Len(ps) -> 1..Len(ps)] :
     IsInjective(o) /\ \A i, j \in 1..Len(ps) : i < j => ps[o[i]] <= ps[o[j]]}

TotalPriority(ps) == FoldFunction(+, 0, ps)

\* Mutant of Walk: compares the running sum before adding the current task.
RECURSIVE WalkBeforeAdd(_, _, _, _)
WalkBeforeAdd(ps, o, rand, acc) ==
  IF o = <<>> THEN NoPick
  ELSE IF acc >= rand THEN Head(o)
  ELSE WalkBeforeAdd(ps, Tail(o), rand, acc + ps[Head(o)])

\* The loop of PickUpTask: add the task's priority, return it once the sum
\* reaches randPriority, return nil if the loop runs out.
RECURSIVE Walk(_, _, _, _)
Walk(ps, o, rand, acc) ==
  IF o = <<>> THEN NoPick
  ELSE LET sum == acc + ps[Head(o)] IN
       IF sum >= rand THEN Head(o) ELSE Walk(ps, Tail(o), rand, sum)

\* The reference weighted pick: the task whose half-open prefix interval
\* contains rand.
RefPick(ps, o, rand) ==
  LET prefix(k) == FoldFunction(+, 0, [i \in 1..k |-> ps[o[i]]])
  IN CHOOSE i \in DOMAIN o : prefix(i - 1) <= rand /\ rand < prefix(i)

Init ==
  /\ cands \in Candidates
  /\ order = <<>>
  /\ r = 0
  /\ picked = NoPick
  /\ pc = "start"

\* PickUpTask(ctx, tasks), in one step: the two early returns, then sort,
\* draw and walk.
Pick ==
  /\ pc = "start"
  /\ pc' = "done"
  /\ \/ /\ Len(cands) = 0
        /\ UNCHANGED <<order, r, picked>>
     \/ /\ Len(cands) = 1
        /\ picked' = 1
        /\ UNCHANGED <<order, r>>
     \/ /\ Len(cands) > 1
        /\ order' \in SortedOrders(cands)
        /\ r' \in 0..(TotalPriority(cands) - 1)
        /\ picked' = Walk(cands, order', r', 0)
  /\ UNCHANGED cands

Done ==
  /\ pc = "done"
  /\ UNCHANGED vars

Next == Pick \/ Done

Spec == Init /\ [][Next]_vars

-----------------------------------------------------------------------------

(* PickUpTask returns one of the candidates whenever there is one: the     *)
(* running sum reaches the total priority, which exceeds every draw.       *)
PickedIsCandidate ==
  pc = "done" /\ Len(cands) > 0 => picked \in DOMAIN cands

(* Each candidate is chosen for exactly as many draws as its priority, so  *)
(* with probability priority / total (the fairness AskTask relies on): the *)
(* walk agrees with the reference pick for every draw.                     *)
PickIsProportional ==
  pc = "done" /\ Len(cands) > 1 => picked = RefPick(cands, order, r)
=============================================================================
