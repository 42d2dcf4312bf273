---------------------------- MODULE SeqlenBalancing ----------------------------
(***************************************************************************)
(* Partitions of rows with balanced total lengths: the differencing method *)
(* of Karmarkar and Karp, and the micro-batches of bounded token count     *)
(* made with it. A row is its index from 1, lens[i] its length.            *)
(***************************************************************************)
EXTENDS Integers, Sequences, FiniteSets, SequencesExt, FiniteSetsExt, DataProto

(* sorted and heapq, by insertion: an index is put behind the earlier ones *)
(* that it has not to come before. `before` holds the pairs of indices of  *)
(* which the first has to come first.                                      *)
PutIn(order, m, before) ==
  InsertAt(order, 1 + Cardinality({k \in DOMAIN order : <<m, order[k]>> \notin before}), m)
Arrangement(n, before) ==
  LET placed[m \in 0..n] == IF m = 0 THEN << >> ELSE PutIn(placed[m - 1], m, before)
  IN  placed[n]

(* Set.__lt__: by sum, then by size, then by the first index, in which two *)
(* groups of the same size differ.                                         *)
Heavier(a, b) ==
  \/ a.sum > b.sum
  \/ a.sum = b.sum /\ Len(a.rows) > Len(b.rows)
  \/ a.sum = b.sum /\ Len(a.rows) = Len(b.rows) /\ a.rows # << >> /\ a.rows[1] > b.rows[1]

(* The groups of a State are always in descending order.                   *)
Ordered(groups) ==
  Reordered(groups, Arrangement(Len(groups),
    {p \in (DOMAIN groups) \X (DOMAIN groups) : Heavier(groups[p[1]], groups[p[2]])}))

(* State.__lt__: the widest spread is popped first.                        *)
Spread(state) == state[1].sum - Last(state).sum
Sooner(s, t) ==
  \/ Spread(s) > Spread(t)
  \/ Spread(s) = Spread(t) /\ Heavier(s[1], t[1])

(* Mutant of MergedStates: heavy groups are given to heavy groups.         *)
MergedInOrder(s, t) ==
  Ordered([i \in DOMAIN s |-> [sum |-> s[i].sum + t[i].sum, rows |-> s[i].rows \o t[i].rows]])

(* State.merge: the heaviest group takes in the lightest of the other.     *)
MergedStates(s, t) ==
  Ordered([i \in DOMAIN s |->
             LET other == t[Len(s) + 1 - i]
             IN  [sum |-> s[i].sum + other.sum, rows |-> s[i].rows \o other.rows]])

(* The two states popped first are merged into one, until one is left.     *)
Popped(states) ==
  Reordered(states, Arrangement(Len(states),
    {p \in (DOMAIN states) \X (DOMAIN states) : Sooner(states[p[1]], states[p[2]])}))
MergeTwo(queue) == Append(SubSeq(queue, 3, Len(queue)), MergedStates(queue[1], queue[2]))
Differenced(states) ==
  LET merged[m \in 0..(Len(states) - 1)] ==
        IF m = 0 THEN states ELSE MergeTwo(Popped(merged[m - 1]))
  IN  merged[Len(states) - 1][1]

(* karmarkar_karp: k rows of neighbouring lengths to a state at first, or  *)
(* with equal_size = False one row.                                        *)
FirstStates(lens, k, equal) ==
  LET order == Arrangement(Len(lens),
        {p \in (DOMAIN lens) \X (DOMAIN lens) : lens[p[1]] < lens[p[2]]})
      Alone(row) == [sum |-> lens[row], rows |-> <<row>>]
      Empty == [sum |-> 0, rows |-> << >>]
  IN  IF equal
      THEN [n \in 1..(Len(lens) \div k) |-> Ordered([i \in 1..k |-> Alone(order[(n - 1) * k + i])])]
      ELSE [n \in 1..Len(lens) |-> [i \in 1..k |-> IF i = 1 THEN Alone(order[n]) ELSE Empty]]

(* get_seqlen_balanced_partitions: k partitions, each in ascending order.  *)
Ascending(rows) ==
  Reordered(rows, Arrangement(Len(rows),
    {p \in (DOMAIN rows) \X (DOMAIN rows) : rows[p[1]] < rows[p[2]]}))
Partitions(lens, k, equal) ==
  LET groups == Differenced(FirstStates(lens, k, equal))
  IN  [i \in 1..k |-> Ascending(groups[i].rows)]

-----------------------------------------------------------------------------
Total(numbers) ==
  LET sum[n \in 0..Len(numbers)] == IF n = 0 THEN 0 ELSE sum[n - 1] + numbers[n]
  IN  sum[Len(numbers)]
SumOver(rows, lens) == Total([i \in DOMAIN rows |-> lens[rows[i]]])

(* rearrange_micro_batches: as many as the tokens need (the same number on *)
(* all ranks), the heaviest for the attention first.                       *)
MicroBatchesNeeded(lens, maxTokens) ==
  LET needed == (Total(lens) + maxTokens - 1) \div maxTokens
  IN  IF needed < Len(lens) THEN needed ELSE Len(lens)

Workload(part, lens) == Total([i \in DOMAIN part |-> lens[part[i]] * lens[part[i]]])

FirstRow(part) == IF part = << >> THEN 0 ELSE part[1]

MicroBatches(lens, count) ==
  LET parts == Partitions(lens, count, FALSE)
      Before(a, b) == \/ Workload(a, lens) > Workload(b, lens)
                      \/ Workload(a, lens) = Workload(b, lens) /\ FirstRow(a) > FirstRow(b)
  IN  Reordered(parts, Arrangement(count,
        {p \in (1..count) \X (1..count) : Before(parts[p[1]], parts[p[2]])}))

(* Mutant of ReverseIdx: the map itself.                                   *)
SameIdx(idx) == idx

(* get_reverse_idx: where each row went.                                   *)
ReverseIdx(idx) == [i \in DOMAIN idx |-> CHOOSE k \in DOMAIN idx : idx[k] = i]
=============================================================================
