--------------------------- MODULE NaiveRewardManager ---------------------------
(***************************************************************************)
(* The "srpo" reward manager cuts a response at tokens of high entropy; a  *)
(* process reward model scores the segments. A position is counted from 0, *)
(* a segment <<s, e>> holds the positions s to e - 1.                      *)
(***************************************************************************)
EXTENDS Integers, Sequences, FiniteSets, SequencesExt

CONSTANTS
  MaxBranches,   \* max_branches: anchors looked for
  MinGap         \* min_gap

ASSUME BranchAssumption == MaxBranches \in Nat \ {0} /\ MinGap \in Nat

(* torch.topk over the first n positions, whatever the entropies, sorted.  *)
Anchors(n) ==
  {s \in [1..MaxBranches -> 0..(n - 1)] : \A i \in 2..MaxBranches : s[i - 1] < s[i]}

(* The first loop: an anchor is kept if the next is farther than min_gap,  *)
(* else the first one that is; the assignment i = j does not move the      *)
(* for, so that an anchor may be kept late and twice.                      *)
Kept(sorted) ==
  LET Far(i) == {j \in (i + 1)..Len(sorted) : sorted[j] - sorted[i] > MinGap}
      Nearest(i) == CHOOSE j \in Far(i) : \A k \in Far(i) : j <= k
      Of(i) == CASE i + 1 \in Far(i) -> <<sorted[i]>>
                 [] i + 1 \notin Far(i) /\ Far(i) # {} -> <<sorted[Nearest(i)]>>
                 [] OTHER -> << >>
  IN  FlattenSeq([i \in 1..(Len(sorted) - 1) |-> Of(i)])

(* Mutant of Cuts: every anchor is a cut.                                  *)
CutsAnywhere(anchors) == anchors

(* The second loop: cuts go forward by at least min_gap.                   *)
NextCut(cuts, a) ==
  IF a - (IF cuts = << >> THEN 0 ELSE Last(cuts)) >= MinGap THEN Append(cuts, a) ELSE cuts
Cuts(anchors) ==
  LET cuts[i \in 0..Len(anchors)] == IF i = 0 THEN << >> ELSE NextCut(cuts[i - 1], anchors[i])
  IN  cuts[Len(anchors)]

(* The segments between the cuts; the last loop drops empty ones and fills *)
(* gaps.                                                                   *)
End(done) == IF done = << >> THEN 0 ELSE Last(done)[2]
Fill(done, seg) ==
  CASE seg[2] <= seg[1]  -> done
    [] seg[1] > End(done) /\ seg[1] < seg[2] -> done \o << <<End(done), seg[1]>>, seg >>
    [] OTHER -> Append(done, seg)
Sanitized(segments, n) ==
  LET done[i \in 0..Len(segments)] == IF i = 0 THEN << >> ELSE Fill(done[i - 1], segments[i])
      all == done[Len(segments)]
  IN  IF End(all) < n THEN Append(all, <<End(all), n>>) ELSE all

(* entropy_segmentation(entropies, 0, n) when topk gives these anchors.    *)
EntropySegmentation(anchors, n) ==
  IF n < MaxBranches + 1 THEN << <<0, n>> >>
  ELSE LET ends == <<0>> \o Cuts(Kept(anchors)) \o <<n>>
       IN  Sanitized([i \in 1..(Len(ends) - 1) |-> <<ends[i], ends[i + 1]>>], n)
=============================================================================
