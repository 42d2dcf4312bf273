--------------------- MODULE OneStepOffRayTrainer_proofs ---------------------
(***************************************************************************)
(* Proofs about OneStepOffRayTrainer, for every number of steps, epochs,   *)
(* rows and starts: how old the weights behind a batch and behind a        *)
(* validation can be, which response a reward belongs to, how many batches *)
(* resumes skip, how much training a job that stops early has lost, and    *)
(* that nobody waits for what nobody is doing.                             *)
(***************************************************************************)
EXTENDS OneStepOffRayTrainer, SequenceTheorems, TLAPS

-----------------------------------------------------------------------------
(* The inductive invariant, part by part *)

InFlight == future.state \in {"generating", "generated"}

Drawing == {"draw", "sync", "launch"}
Training == {"prepare", "reward", "update"}
Trained == {"validate", "validating", "save", "advance"}

(* Which batch is where: none is in flight before the next is drawn, and   *)
(* the batch of this step is there from the moment it was taken.           *)
BatchInv ==
  /\ pc \in {"down", "validate_first", "validating_first", "draw"} => future = None
  /\ pc \in {"sync", "launch"} => future.state = "drawn"
  /\ pc \notin {"sync", "launch"} => future.state # "drawn"
  /\ future.state = "none" => future = None
  /\ pc \in {"down", "validate_first", "validating_first", "wait", "finished", "ended"}
       => current = None
  /\ pc \in Training \cup Trained \cup {"updating"} => current # None

(* Which calls are under way: a group is asked for one thing at a time,    *)
(* but for a validation behind a generation.                               *)
ActorCalls ==
  /\ pc = "launch" => actorQ = rolloutQ /\ actorQ \in {<< >>, << "sync" >>}
  /\ pc = "updating" => actorQ \in {<< >>, << "update" >>}
  /\ pc \notin {"launch", "updating"} => actorQ = << >>

RolloutCalls ==
  /\ pc = "validating_first" => rolloutQ \in {<< >>, << "validate" >>}
  /\ pc = "validating" =>
       rolloutQ \in {<< >>, << "validate" >>, << "generate", "validate" >>}
  /\ pc \in {"wait", "updating", "finished", "ended"} \cup Training \cup (Trained \ {"validating"})
       => rolloutQ \in {<< >>, << "generate" >>}
  /\ pc \in {"down", "validate_first", "draw", "sync"} => rolloutQ = << >>
  /\ future.state = "generating" <=>
       rolloutQ \in {<< "generate" >>, << "generate", "validate" >>}

(* A batch in flight belongs to the weights the rollout group still has.   *)
FutureWeights == future.state = "generated" => future.weights = rollout

(* How far the rollout group's weights are behind: the sync of this step   *)
(* makes up for the updates before it, and one update follows it.          *)
HasUpdated == pc \in Trained \/ (pc = "updating" /\ actorQ = << >>)
NotYetUpdated == pc \in Training \/ (pc = "updating" /\ actorQ # << >>)

RolloutLag ==
  /\ pc = "launch" /\ rolloutQ = << >> => rollout = actor
  /\ pc = "wait" /\ InFlight => actor - rollout \in 0..1
  /\ pc \in Drawing /\ current # None => actor - rollout \in 0..1
  /\ NotYetUpdated => actor - rollout \in 0..1 /\ (InFlight => rollout = actor)
  /\ HasUpdated => actor - rollout \in 0..2 /\ (InFlight => actor - rollout \in 0..1)

CurrentLag ==
  pc \in Drawing \cup Training /\ current # None => actor - current.weights \in 0..1

MeasuredWeights ==
  /\ pc = "validating" /\ rolloutQ = << >> => measured = rollout
  /\ pc = "save" /\ MustTest => measured = rollout

(* The rows keep the order of the generation until they are balanced.      *)
RowOrder ==
  /\ pc \in Drawing \cup {"prepare"} /\ current # None => order = AsGenerated
  /\ pc = "reward" /\ ~opts.balance => order = AsGenerated
  /\ RewardsFollowRows

(* How far the job can get: one step past the last one per start.          *)
Progress ==
  /\ pc \notin {"down", "finished", "ended"} => run >= 1 /\ globalSteps \in 1..(TotalSteps + run)
  /\ point.done <= TotalSteps + run /\ point.weights <= point.done
  /\ pc \in {"validate_first", "validating_first", "wait"} \cup Drawing \/ NotYetUpdated
       => actor < globalSteps
  /\ HasUpdated => actor <= globalSteps

IInv ==
  /\ TypeOK
  /\ BatchInv
  /\ ActorCalls
  /\ RolloutCalls
  /\ FutureWeights
  /\ RolloutLag
  /\ CurrentLag
  /\ MeasuredWeights
  /\ RowOrder
  /\ Progress

-----------------------------------------------------------------------------
(* A call behind another: the one queue of two calls that occurs.           *)
LEMMA AppendSecond ==
  ASSUME NEW S, NEW c \in S, NEW d \in S
  PROVE  Append(<< c >>, d) = << c, d >>
<1> DEFINE s == Append(<< c >>, d)
           t == << c, d >>
<1>1. /\ << c >> \in Seq(S) /\ Len(<< c >>) = 1 /\ << c >>[1] = c
      /\ t \in Seq(S) /\ Len(t) = 2 /\ t[1] = c /\ t[2] = d
  OBVIOUS
<1>2. s \in Seq(S) /\ Len(s) = 2 /\ s[1] = c /\ s[2] = d
  BY <1>1, AppendProperties
<1> HIDE DEF s, t
<1>3. \A i \in 1..Len(s) : s[i] = t[i]
  BY <1>1, <1>2
<1>4. s = t
  BY <1>1, <1>2, <1>3, SeqEqual
<1> QED BY <1>4 DEF s, t

LEMMA ValidateIsQueued ==
  /\ "validate" \in {<< "validate" >>[i] : i \in 1..Len(<< "validate" >>)}
  /\ "validate" \in {<< "generate", "validate" >>[i] :
                        i \in 1..Len(<< "generate", "validate" >>)}
OBVIOUS

(* What taking or adding a call makes of the queues that occur.            *)
LEMMA ActorQueues ==
  /\ << >> \in Seq({"sync", "update"}) /\ Len(<< >>) = 0
  /\ \A c \in {"sync", "update"} :
       /\ << c >> \in Seq({"sync", "update"}) /\ Len(<< c >>) = 1
       /\ << c >> # << >> /\ Head(<< c >>) = c /\ Tail(<< c >>) = << >>
       /\ Append(<< >>, c) = << c >>
OBVIOUS

LEMMA RolloutQueues ==
  /\ << >> \in Seq({"sync", "generate", "validate"}) /\ Len(<< >>) = 0
  /\ \A c \in {"sync", "generate", "validate"} :
       /\ << c >> \in Seq({"sync", "generate", "validate"}) /\ Len(<< c >>) = 1
       /\ << c >> # << >> /\ Head(<< c >>) = c /\ Tail(<< c >>) = << >>
       /\ Append(<< >>, c) = << c >>
  /\ << "sync" >> # << "generate" >> /\ << "sync" >> # << "validate" >>
  /\ << "generate" >> # << "validate" >>
OBVIOUS

LEMMA TwoCalls ==
  /\ << "generate", "validate" >> \in Seq({"sync", "generate", "validate"})
  /\ Len(<< "generate", "validate" >>) = 2
  /\ << "generate", "validate" >> # << >>
  /\ Head(<< "generate", "validate" >>) = "generate"
  /\ Tail(<< "generate", "validate" >>) = << "validate" >>
  /\ \A c \in {"sync", "generate", "validate"} : << "generate", "validate" >> # << c >>
  /\ Append(<< "generate" >>, "validate") = << "generate", "validate" >>
<1>1. Append(<< "generate" >>, "validate") = << "generate", "validate" >>
  <2> DEFINE S == {"generate", "validate"}
  <2>1. "generate" \in S /\ "validate" \in S
    OBVIOUS
  <2> HIDE DEF S
  <2> QED BY ONLY <2>1, AppendSecond
<1>2. \A c \in {"sync", "generate", "validate"} : << "generate", "validate" >> # << c >>
  OBVIOUS
<1>3. /\ << "generate", "validate" >> \in Seq({"sync", "generate", "validate"})
      /\ Len(<< "generate", "validate" >>) = 2
  OBVIOUS
<1>4. /\ << "generate", "validate" >> # << >>
      /\ Head(<< "generate", "validate" >>) = "generate"
      /\ Tail(<< "generate", "validate" >>) = << "validate" >>
  OBVIOUS
<1> QED BY ONLY <1>1, <1>2, <1>3, <1>4

LEMMA QueuesOfTwo ==
  \A q \in {<< >>, << "generate" >>, << "validate" >>, << "generate", "validate" >>} :
    q \in Seq({"sync", "generate", "validate"}) /\ Len(q) <= 2
<1> SUFFICES
      ASSUME NEW q \in {<< >>, << "generate" >>, << "validate" >>, << "generate", "validate" >>}
      PROVE  q \in Seq({"sync", "generate", "validate"}) /\ Len(q) <= 2
  OBVIOUS
<1>1. CASE q = << >>
  BY <1>1
<1>2. CASE q = << "generate" >>
  BY <1>2
<1>3. CASE q = << "validate" >>
  BY <1>3
<1>4. CASE q = << "generate", "validate" >>
  BY <1>4
<1> QED BY <1>1, <1>2, <1>3, <1>4

LEMMA ConstantFacts ==
  /\ TotalSteps \in Nat /\ MaxRuns \in Nat /\ EpochLen \in Nat /\ EpochLen >= 1
  /\ TotalEpochs \in Nat /\ TotalEpochs >= 1
  /\ CriticWarmup \in Int /\ SaveFreq \in Int /\ TestFreq \in Int
  /\ MaxStep = TotalSteps + MaxRuns
  /\ Weights = 0..MaxStep
  /\ None \in Batches
BY OneStepOffAssumption DEF MaxStep, None, Batches, Weights

LEMMA BatchTypes ==
  /\ \A p \in 0..EpochLen : [None EXCEPT !.pos = p, !.state = "drawn"] \in Batches
  /\ \A b \in Batches : [b EXCEPT !.state = "generating"] \in Batches
  /\ \A b \in Batches, w \in Weights :
       [b EXCEPT !.state = "generated", !.weights = w] \in Batches
BY ConstantFacts DEF Batches

LEMMA AsGeneratedIsAnOrder == AsGenerated \in Orders
BY DEF AsGenerated, Orders, Rows

LEMMA SameTest == globalSteps' = globalSteps => (MustTest' <=> MustTest)
BY DEF MustTest, IsLastStep

LEMMA InitIInv == Init => IInv
BY ConstantFacts, AsGeneratedIsAnOrder, ActorQueues, RolloutQueues, TwoCalls
DEF Init, IInv, TypeOK, BatchInv, ActorCalls, RolloutCalls, FutureWeights, RolloutLag,
    CurrentLag, MeasuredWeights, RowOrder, Progress, InFlight, Drawing, Training,
    Trained, HasUpdated, NotYetUpdated, RewardsFollowRows, None, Nothing
LEMMA StepIInv == IInv /\ [Next]_vars => IInv'
<1> SUFFICES ASSUME IInv, [Next]_vars PROVE IInv'
  OBVIOUS
<1> USE SameTest, ConstantFacts, AsGeneratedIsAnOrder, ActorQueues, RolloutQueues, TwoCalls
    DEF IInv, TypeOK, BatchInv, ActorCalls, RolloutCalls, FutureWeights, RolloutLag,
    CurrentLag, MeasuredWeights, RowOrder, Progress, InFlight, Drawing, Training,
    Trained, HasUpdated, NotYetUpdated, RewardsFollowRows, Goto, vars, jobVars, dataVars,
    batchVars, queueVars, weightVars
<1>1. CASE Start
  <2>1. TypeOK'
    BY <1>1, SMTT(60) DEF Start, Batches
  <2>2. BatchInv'
    BY <1>1 DEF Start, Batches
  <2>3. ActorCalls'
    BY <1>1 DEF Start, Batches
  <2>4. RolloutCalls'
    BY <1>1 DEF Start, Batches
  <2>5. FutureWeights'
    BY <1>1 DEF Start, Batches, None
  <2>6. RolloutLag'
    BY <1>1 DEF Start, Batches
  <2>7. CurrentLag'
    BY <1>1 DEF Start, Batches
  <2>8. MeasuredWeights'
    BY <1>1 DEF Start, Batches
  <2>9. RowOrder'
    BY <1>1 DEF Start, Batches
  <2>10. Progress'
    BY <1>1 DEF Start, Batches
  <2> QED BY ONLY <2>1, <2>2, <2>3, <2>4, <2>5, <2>6, <2>7, <2>8, <2>9, <2>10 DEF IInv
<1>2. CASE CallValidate
  <2>1. TypeOK'
    <3>1. rolloutQ' \in {<< "validate" >>, << "generate", "validate" >>}
      BY <1>2 DEF CallValidate
    <3>2. rolloutQ' \in Seq({"sync", "generate", "validate"}) /\ Len(rolloutQ') <= 2
      BY ONLY <3>1, QueuesOfTwo
    <3> QED BY <3>2, <1>2 DEF CallValidate
  <2>2. BatchInv'
    BY <1>2 DEF CallValidate
  <2>3. ActorCalls'
    BY <1>2 DEF CallValidate
  <2>4. RolloutCalls'
    BY <1>2 DEF CallValidate
  <2>5. FutureWeights'
    BY <1>2 DEF CallValidate
  <2>6. RolloutLag'
    BY <1>2 DEF CallValidate
  <2>7. CurrentLag'
    BY <1>2 DEF CallValidate
  <2>8. MeasuredWeights'
    BY <1>2 DEF CallValidate
  <2>9. RowOrder'
    BY <1>2 DEF CallValidate
  <2>10. Progress'
    BY <1>2 DEF CallValidate
  <2> QED BY ONLY <2>1, <2>2, <2>3, <2>4, <2>5, <2>6, <2>7, <2>8, <2>9, <2>10 DEF IInv
<1>3. CASE Validated
  <2>1. TypeOK'
    BY <1>3 DEF Validated
  <2>2. BatchInv'
    BY <1>3 DEF Validated
  <2>3. ActorCalls'
    BY <1>3 DEF Validated
  <2>4. RolloutCalls'
    BY <1>3 DEF Validated
  <2>5. FutureWeights'
    BY <1>3 DEF Validated
  <2>6. RolloutLag'
    BY <1>3 DEF Validated
  <2>7. CurrentLag'
    BY <1>3 DEF Validated
  <2>8. MeasuredWeights'
    BY ValidateIsQueued, <1>3 DEF Validated
  <2>9. RowOrder'
    BY <1>3 DEF Validated
  <2>10. Progress'
    BY <1>3 DEF Validated
  <2> QED BY ONLY <2>1, <2>2, <2>3, <2>4, <2>5, <2>6, <2>7, <2>8, <2>9, <2>10 DEF IInv
<1>4. CASE Draw
  <2>1. TypeOK'
    <3>1. pos' \in 0..EpochLen /\ epoch' \in 0..(TotalEpochs - 1)
      <4>1. CASE pos < EpochLen
        <5>1. pos' = pos + 1 /\ epoch' = epoch
          BY ONLY <1>4, <4>1 DEF Draw
        <5> QED BY ONLY <5>1, <4>1, IInv, ConstantFacts DEF IInv, TypeOK
      <4>2. CASE ~(pos < EpochLen)
        <5>1. pos' = 1 /\ epoch' = epoch + 1 /\ epoch + 1 < TotalEpochs
          BY ONLY <1>4, <4>2 DEF Draw, MoreData
        <5> QED BY ONLY <5>1, IInv, ConstantFacts DEF IInv, TypeOK
      <4> QED BY ONLY <4>1, <4>2
    <3>2. future' \in Batches
      BY ONLY <3>1, <1>4, BatchTypes DEF Draw
    <3> QED BY <3>1, <3>2, <1>4 DEF Draw
  <2>2. BatchInv'
    BY <1>4 DEF Draw, MoreData, None, Batches
  <2>3. ActorCalls'
    BY <1>4 DEF Draw, MoreData, None, Batches
  <2>4. RolloutCalls'
    BY <1>4 DEF Draw, MoreData, None, Batches
  <2>5. FutureWeights'
    BY <1>4 DEF Draw, MoreData, None, Batches
  <2>6. RolloutLag'
    BY <1>4 DEF Draw, MoreData, None, Batches
  <2>7. CurrentLag'
    BY <1>4 DEF Draw, MoreData, None, Batches
  <2>8. MeasuredWeights'
    BY <1>4 DEF Draw, MoreData, None, Batches
  <2>9. RowOrder'
    BY <1>4 DEF Draw, MoreData, None, Batches
  <2>10. Progress'
    BY <1>4 DEF Draw, MoreData, None, Batches
  <2> QED BY ONLY <2>1, <2>2, <2>3, <2>4, <2>5, <2>6, <2>7, <2>8, <2>9, <2>10 DEF IInv
<1>5. CASE DrawNothing
  <2>1. TypeOK'
    BY <1>5 DEF DrawNothing, AfterDraw, MoreData
  <2>2. BatchInv'
    BY <1>5 DEF DrawNothing, AfterDraw, MoreData
  <2>3. ActorCalls'
    BY <1>5 DEF DrawNothing, AfterDraw, MoreData
  <2>4. RolloutCalls'
    BY <1>5 DEF DrawNothing, AfterDraw, MoreData
  <2>5. FutureWeights'
    BY <1>5 DEF DrawNothing, AfterDraw, MoreData
  <2>6. RolloutLag'
    BY <1>5 DEF DrawNothing, AfterDraw, MoreData, None
  <2>7. CurrentLag'
    BY <1>5 DEF DrawNothing, AfterDraw, MoreData
  <2>8. MeasuredWeights'
    BY <1>5 DEF DrawNothing, AfterDraw, MoreData
  <2>9. RowOrder'
    BY <1>5 DEF DrawNothing, AfterDraw, MoreData
  <2>10. Progress'
    BY <1>5 DEF DrawNothing, AfterDraw, MoreData
  <2> QED BY ONLY <2>1, <2>2, <2>3, <2>4, <2>5, <2>6, <2>7, <2>8, <2>9, <2>10 DEF IInv
<1>6. CASE CallSync
  BY <1>6, SMTT(60) DEF CallSync
<1>7. CASE Launch
  <2>1. TypeOK'
    <3>1. future' \in Batches
      BY ONLY <1>7, IInv, BatchTypes DEF IInv, TypeOK, Launch
    <3> QED BY <3>1, <1>7 DEF Launch, AfterDraw
  <2>2. BatchInv'
    BY <1>7 DEF Launch, AfterDraw, Batches
  <2>3. ActorCalls'
    BY <1>7 DEF Launch, AfterDraw, Batches
  <2>4. RolloutCalls'
    BY <1>7 DEF Launch, AfterDraw, Batches
  <2>5. FutureWeights'
    BY <1>7 DEF Launch, AfterDraw, Batches
  <2>6. RolloutLag'
    BY <1>7 DEF Launch, AfterDraw, Batches
  <2>7. CurrentLag'
    BY <1>7 DEF Launch, AfterDraw, Batches
  <2>8. MeasuredWeights'
    BY <1>7 DEF Launch, AfterDraw, Batches
  <2>9. RowOrder'
    BY <1>7 DEF Launch, AfterDraw, Batches
  <2>10. Progress'
    BY <1>7 DEF Launch, AfterDraw, Batches
  <2> QED BY ONLY <2>1, <2>2, <2>3, <2>4, <2>5, <2>6, <2>7, <2>8, <2>9, <2>10 DEF IInv
<1>8. CASE TakeBatch
  BY <1>8 DEF TakeBatch, None, IsLastStep, Batches
<1>9. CASE LeaveLoop
  BY <1>9 DEF LeaveLoop
<1>10. CASE Balance
  BY <1>10 DEF Balance
<1>11. CASE ComputeReward
  BY <1>11 DEF ComputeReward
<1>12. CASE GetReward
  <2>1. TypeOK'
    BY <1>12 DEF GetReward
  <2>2. BatchInv'
    BY <1>12 DEF GetReward
  <2>3. ActorCalls'
    BY <1>12 DEF GetReward
  <2>4. RolloutCalls'
    BY <1>12 DEF GetReward
  <2>5. FutureWeights'
    BY <1>12 DEF GetReward
  <2>6. RolloutLag'
    BY <1>12 DEF GetReward
  <2>7. CurrentLag'
    BY <1>12 DEF GetReward
  <2>8. MeasuredWeights'
    BY <1>12 DEF GetReward
  <2>9. RowOrder'
    <3>1. /\ pc = "reward" /\ pc' = "update" /\ opts.asyncReward
          /\ rewards' = AsGenerated /\ order' = order /\ opts' = opts
      BY <1>12 DEF GetReward
    <3>2. \A i \in Rows : AsGenerated[i] = i
      BY DEF AsGenerated
    <3>3. ~opts.balance => order = AsGenerated
      BY <3>1
    <3>4. RewardsFollowRows'
      BY <3>1, <3>2, <3>3
    <3> QED BY <3>1, <3>4
  <2>10. Progress'
    BY <1>12 DEF GetReward
  <2> QED BY ONLY <2>1, <2>2, <2>3, <2>4, <2>5, <2>6, <2>7, <2>8, <2>9, <2>10 DEF IInv
<1>13. CASE CallUpdate
  BY <1>13 DEF CallUpdate, AfterUpdate
<1>14. CASE SkipUpdate
  BY <1>14 DEF SkipUpdate, AfterUpdate
<1>15. CASE Updated
  BY <1>15 DEF Updated, AfterUpdate
<1>16. CASE Save
  BY SMTT(30), <1>16 DEF Save, MustSave, IsLastStep, Batches
<1>17. CASE NextStep
  BY <1>17 DEF NextStep, None, IsLastStep
<1>18. CASE WeightSync
  BY <1>18 DEF WeightSync, Calls
<1>19. CASE Update
  BY <1>19 DEF Update, Calls
<1>20. CASE Generate
  <2>1. TypeOK'
    <3>1. future' \in Batches
      BY ONLY <1>20, IInv, BatchTypes DEF IInv, TypeOK, Generate
    <3>2. rolloutQ' \in {<< >>, << "validate" >>}
      BY <1>20 DEF Generate, Calls
    <3>3. rolloutQ' \in Seq({"sync", "generate", "validate"}) /\ Len(rolloutQ') <= 2
      BY ONLY <3>2, QueuesOfTwo
    <3> QED BY <3>1, <3>3, <1>20 DEF Generate
  <2>2. BatchInv'
    BY <1>20 DEF Generate, Calls, Batches
  <2>3. ActorCalls'
    BY <1>20 DEF Generate, Calls, Batches
  <2>4. RolloutCalls'
    BY <1>20 DEF Generate, Calls, Batches
  <2>5. FutureWeights'
    BY <1>20 DEF Generate, Calls, Batches
  <2>6. RolloutLag'
    BY <1>20 DEF Generate, Calls, Batches
  <2>7. CurrentLag'
    BY <1>20 DEF Generate, Calls, Batches
  <2>8. MeasuredWeights'
    BY <1>20 DEF Generate, Calls, Batches
  <2>9. RowOrder'
    BY <1>20 DEF Generate, Calls, Batches
  <2>10. Progress'
    BY <1>20 DEF Generate, Calls, Batches
  <2> QED BY ONLY <2>1, <2>2, <2>3, <2>4, <2>5, <2>6, <2>7, <2>8, <2>9, <2>10 DEF IInv
<1>21. CASE Validate
  <2>1. TypeOK'
    BY <1>21 DEF Validate, Calls
  <2>2. BatchInv'
    BY <1>21 DEF Validate, Calls
  <2>3. ActorCalls'
    BY <1>21 DEF Validate, Calls
  <2>4. RolloutCalls'
    BY <1>21 DEF Validate, Calls
  <2>5. FutureWeights'
    BY <1>21 DEF Validate, Calls
  <2>6. RolloutLag'
    BY <1>21 DEF Validate, Calls
  <2>7. CurrentLag'
    BY <1>21 DEF Validate, Calls
  <2>8. MeasuredWeights'
    BY <1>21 DEF Validate, Calls
  <2>9. RowOrder'
    BY <1>21 DEF Validate, Calls
  <2>10. Progress'
    BY <1>21 DEF Validate, Calls
  <2> QED BY ONLY <2>1, <2>2, <2>3, <2>4, <2>5, <2>6, <2>7, <2>8, <2>9, <2>10 DEF IInv
<1>22. CASE RewardTask
  <2>1. TypeOK'
    BY <1>22 DEF RewardTask, Score, Batches
  <2>2. BatchInv'
    <3>1. ASSUME NEW b \in Batches, b.state = "generated"
          PROVE  b # None /\ Score(b) # None /\ Score(b).state = "generated"
      BY ONLY <3>1 DEF Score, Batches, None
    <3>2. /\ pc' = pc /\ future \in Batches /\ current \in Batches
          /\ \/ /\ future.state = "generated" /\ future' = Score(future)
                /\ current' = current
             \/ /\ current.state = "generated" /\ current' = Score(current)
                /\ future' = future
      BY ONLY <1>22, TypeOK DEF TypeOK, RewardTask, jobVars
    <3>3. BatchInv
      OBVIOUS
    <3> HIDE DEF None
    <3> QED BY ONLY <3>1, <3>2, <3>3 DEF BatchInv, Training, Trained
  <2>3. ActorCalls'
    BY <1>22 DEF RewardTask, Score, Batches
  <2>4. RolloutCalls'
    BY <1>22 DEF RewardTask, Score, Batches
  <2>5. FutureWeights'
    BY <1>22 DEF RewardTask, Score, Batches
  <2>6. RolloutLag'
    BY <1>22 DEF RewardTask, Score, Batches, None
  <2>7. CurrentLag'
    BY <1>22 DEF RewardTask, Score, Batches, None
  <2>8. MeasuredWeights'
    BY <1>22 DEF RewardTask, Score, Batches
  <2>9. RowOrder'
    BY <1>22 DEF RewardTask, Score, Batches, None
  <2>10. Progress'
    BY <1>22 DEF RewardTask, Score, Batches
  <2> QED BY ONLY <2>1, <2>2, <2>3, <2>4, <2>5, <2>6, <2>7, <2>8, <2>9, <2>10 DEF IInv
<1>23. CASE Crash
  BY <1>23 DEF Crash, Up, None, Batches
<1>24. CASE UNCHANGED vars
  BY <1>24
<1> QED BY <1>1, <1>2, <1>3, <1>4, <1>5, <1>6, <1>7, <1>8, <1>9, <1>10, <1>11, <1>12, <1>13, <1>14, <1>15, <1>16, <1>17, <1>18, <1>19, <1>20, <1>21, <1>22, <1>23, <1>24 DEF Next, Driver, Groups

THEOREM Invariance == Spec => []IInv
<1>1. Init => IInv
  BY InitIInv
<1>2. IInv /\ [Next]_vars => IInv'
  BY StepIInv
<1> QED BY <1>1, <1>2, PTL DEF Spec

-----------------------------------------------------------------------------
(* Results *)

(* The variables of the pipeline keep their types in every interleaving.   *)
THEOREM TypeCorrect == Spec => []TypeOK
<1>1. IInv => TypeOK
  BY DEF IInv
<1> QED BY <1>1, Invariance, PTL

(* A batch the actor trains on was generated by its weights, or by those   *)
(* before its last update.                                                 *)
THEOREM OneStepOff == Spec => []AtMostOneStepOff
<1>1. ASSUME IInv, pc \in {"reward", "update"}
      PROVE  current.weights \in {actor - 1, actor}
  <2>1. current # None
    BY <1>1 DEF IInv, BatchInv, Training
  <2>2. actor - current.weights \in 0..1
    BY <1>1, <2>1 DEF IInv, CurrentLag, Training
  <2>3. current \in Batches /\ actor \in Weights
    BY <1>1 DEF IInv, TypeOK
  <2>4. current.weights \in Weights
    BY ONLY <2>3 DEF Batches
  <2>5. actor \in Int /\ current.weights \in Int
    BY ONLY <2>3, <2>4, ConstantFacts DEF Weights, MaxStep
  <2>6. QED
    BY ONLY <2>2, <2>5
<1>2. IInv => AtMostOneStepOff
  BY <1>1 DEF AtMostOneStepOff
<1> QED BY <1>2, Invariance, PTL

(* A validation measures weights one update old, or two at a step that     *)
(* launched no generation.                                                 *)
THEOREM MeasuresRecent == Spec => []MeasuresRecentModel
<1>1. IInv => MeasuresRecentModel
  BY ConstantFacts
  DEF IInv, TypeOK, BatchInv, RolloutLag, MeasuredWeights, MeasuresRecentModel,
      HasUpdated, Trained, InFlight, Batches
<1> QED BY <1>1, Invariance, PTL

(* A row is trained with the reward of another response exactly when the    *)
(* start balances its batches, launches rewards with the generation, and    *)
(* the balancing has moved that row; for every number of rows and whatever  *)
(* settings the starts of the job have.                                     *)
THEOREM RewardsAligned == Spec => []RewardsFollowRows
<1>1. IInv => RewardsFollowRows
  BY DEF IInv, RowOrder
<1> QED BY <1>1, Invariance, PTL

-----------------------------------------------------------------------------
(* Which batch of the data a step trains on                                *)

(* At most n past a whole number of passes over the data.                  *)
Ahead(x, n) == \E k \in 0..n, m \in Int : x = k + m * EpochLen

(* The dataloader has drawn the batch of this step and of the next one, or *)
(* the first of them, or neither.                                          *)
Undrawn ==
  IF current # None /\ future # None THEN 1
  ELSE IF current = None /\ future = None THEN -1 ELSE 0

(* Every start but the first may have found the dataloader one batch past  *)
(* the step it resumes from: the position saved with a step is that of the *)
(* batch in flight.                                                        *)
DataInv ==
  /\ Ahead(point.pos - point.done, run)
  /\ future # None => future.pos = pos
  /\ Up => Ahead(pos - globalSteps - Undrawn, run - 1)
  /\ Up /\ current # None => Ahead(current.pos - globalSteps, run - 1)

LEMMA AheadMore ==
  ASSUME NEW x \in Int, NEW n \in Nat, Ahead(x, n)
  PROVE  Ahead(x, n + 1) /\ Ahead(x + 1, n + 1)
<1>1. PICK k \in 0..n, m \in Int : x = k + m * EpochLen
  BY DEF Ahead
<1>2. m * EpochLen \in Int
  BY <1>1, ConstantFacts
<1>3. k \in 0..(n + 1) /\ k + 1 \in 0..(n + 1) /\ x + 1 = (k + 1) + m * EpochLen
  BY <1>1, <1>2
<1> QED BY <1>1, <1>3 DEF Ahead

(* One pass back is as far ahead.                                          *)
LEMMA AheadPass ==
  ASSUME NEW x \in Int, NEW n \in Nat, Ahead(x, n)
  PROVE  Ahead(x - EpochLen, n)
<1>1. PICK k \in 0..n, m \in Int : x = k + m * EpochLen
  BY DEF Ahead
<1>2. m - 1 \in Int /\ (m - 1) * EpochLen = m * EpochLen - EpochLen /\ m * EpochLen \in Int
  BY <1>1, ConstantFacts
<1>3. x - EpochLen = k + (m - 1) * EpochLen
  BY <1>1, <1>2, ConstantFacts
<1> QED BY <1>2, <1>3 DEF Ahead

LEMMA AheadIsRemainder ==
  ASSUME NEW x \in Int, NEW n \in Nat, Ahead(x, n)
  PROVE  x % EpochLen <= n
<1>1. PICK k \in 0..n, m \in Int : x = k + m * EpochLen
  BY DEF Ahead
<1> DEFINE q == x \div EpochLen
           w == x % EpochLen
<1>2. /\ q \in Int /\ w \in 0..(EpochLen - 1) /\ x = EpochLen * q + w
      /\ EpochLen \in Nat /\ EpochLen >= 1
  BY ConstantFacts
<1> HIDE DEF q, w
<1>3. EpochLen * (q - m) = EpochLen * q - m * EpochLen /\ q - m \in Int
      /\ EpochLen * q \in Int /\ m * EpochLen \in Int
  BY ONLY <1>1, <1>2
<1>4. w = k - EpochLen * (q - m)
  BY <1>1, <1>2, <1>3
<1>5. CASE q - m >= 0
  <2>1. EpochLen * (q - m) >= 0
    BY ONLY <1>2, <1>3, <1>5
  <2> QED BY <1>1, <1>3, <1>4, <2>1 DEF w
<1>6. CASE q - m <= -1
  <2>1. EpochLen * (q - m) <= EpochLen * (-1)
    BY ONLY <1>2, <1>3, <1>6
  <2>2. w >= EpochLen
    BY <1>1, <1>2, <1>3, <1>4, <2>1
  <2> QED BY <1>2, <2>2
<1> QED BY <1>3, <1>5, <1>6

(* The positions and steps are numbers.                                    *)
LEMMA DataTypes ==
  ASSUME IInv
  PROVE  /\ pos \in 0..EpochLen /\ globalSteps \in Nat /\ run \in Nat
         /\ point.pos \in Nat /\ point.done \in Nat
         /\ future.pos \in Nat /\ current.pos \in Nat
         /\ Up => run - 1 \in Nat
BY ConstantFacts DEF IInv, TypeOK, Progress, Batches, Up

(* What the steps of the pipeline have to do with the data: but for six    *)
(* kinds of step, a step moves no batch and no counter.                    *)
Counting == Start \/ Draw \/ TakeBatch \/ Save \/ NextStep \/ Crash

Quiet ==
  /\ UNCHANGED <<pos, globalSteps, point, run>>
  /\ future'.pos = future.pos /\ (future' = None <=> future = None)
  /\ current'.pos = current.pos /\ (current' = None <=> current = None)
  /\ Up' => Up
  /\ \/ pc' = pc
     \/ /\ pc \notin {"advance", "finished"} /\ pc' \notin {"advance", "finished"}
        /\ Up /\ (pc' = "ended" => pc = "wait")

LEMMA StepKinds ==
  ASSUME IInv, [Next]_vars, ~Counting
  PROVE  Quiet
<1> USE DEF IInv, TypeOK, BatchInv, Up, Quiet, jobVars, dataVars, batchVars, queueVars,
            weightVars, Goto
<1>1. CASE UNCHANGED vars
  BY <1>1 DEF vars
<1>2. CASE CallValidate \/ Validated \/ DrawNothing \/ CallSync
  BY <1>2 DEF CallValidate, Validated, DrawNothing, AfterDraw, CallSync
<1>3. CASE Launch
  BY <1>3 DEF Launch, AfterDraw, Batches, None
<1>4. CASE LeaveLoop \/ Balance \/ ComputeReward \/ GetReward
  BY <1>4 DEF LeaveLoop, Balance, ComputeReward, GetReward
<1>5. CASE CallUpdate \/ SkipUpdate \/ Updated
  BY <1>5 DEF CallUpdate, SkipUpdate, Updated, AfterUpdate
<1>6. CASE WeightSync \/ Update \/ Validate
  BY <1>6 DEF WeightSync, Update, Validate
<1>7. CASE Generate
  <2>1. rolloutQ # <<>> /\ Head(rolloutQ) = "generate"
    BY <1>7 DEF Generate, Calls
  <2>2. RolloutCalls
    OBVIOUS
  <2>3. rolloutQ \notin {<< >>, << "validate" >>, << "sync" >>}
    BY <2>1, RolloutQueues
  <2>4. pc # "launch"
    <3>1. ActorCalls
      OBVIOUS
    <3> QED BY <2>3, <3>1 DEF ActorCalls
  <2>5. rolloutQ \in {<< "generate" >>, << "generate", "validate" >>}
    BY <2>2, <2>3, <2>4 DEF RolloutCalls, Training, Trained
  <2>6. future.state = "generating"
    BY <2>2, <2>5 DEF RolloutCalls
  <2>7. future # None /\ future'.pos = future.pos /\ future' # None
    <3>1. /\ future \in Batches
          /\ future' = [future EXCEPT !.state = "generated", !.weights = rollout]
      BY ONLY <1>7, IInv DEF Generate, IInv, TypeOK
    <3>2. future'.pos = future.pos /\ future'.state = "generated"
      BY ONLY <3>1 DEF Batches
    <3> QED BY ONLY <2>6, <3>2 DEF None
  <2> QED BY <1>7, <2>7 DEF Generate
<1>8. CASE RewardTask
  BY <1>8 DEF RewardTask, Score, Batches, None
<1> QED
  BY <1>1, <1>2, <1>3, <1>4, <1>5, <1>6, <1>7, <1>8 DEF Next, Driver, Groups, Counting

LEMMA InitDataInv == Init => DataInv
<1> SUFFICES ASSUME Init PROVE DataInv
  OBVIOUS
<1>1. 0 = 0 + 0 * EpochLen
  BY ConstantFacts
<1>2. Ahead(0 - 0, 0)
  BY <1>1 DEF Ahead
<1> QED BY <1>2 DEF Init, DataInv, Nothing, Up

LEMMA QuietDataInv ==
  ASSUME DataInv, Quiet
  PROVE  DataInv'
BY DEF DataInv, Quiet, Undrawn

LEMMA StartDataInv ==
  ASSUME IInv, DataInv, Start
  PROVE  DataInv'
<1>1. /\ pos' = point.pos /\ globalSteps' = point.done + 1 /\ run' = run + 1
      /\ UNCHANGED <<point, future, current>> /\ pc = "down"
  BY DEF Start, Goto, batchVars
<1>2. current = None /\ future = None
  BY <1>1 DEF IInv, BatchInv
<1>3. run' - 1 = run /\ pos' - globalSteps' - Undrawn' = point.pos - point.done
  BY <1>1, <1>2, DataTypes DEF Undrawn
<1>4. Ahead(point.pos - point.done, run + 1)
  BY DataTypes, AheadMore DEF DataInv
<1> QED BY <1>1, <1>2, <1>3, <1>4 DEF DataInv

(* The next batch is the next of the pass, or the first of the next one.   *)
LEMMA DrawDataInv ==
  ASSUME IInv, DataInv, Draw
  PROVE  DataInv'
<1>1. /\ pc = "draw" /\ pc' = "sync" /\ UNCHANGED <<globalSteps, point, run, current>>
      /\ pos' = IF pos < EpochLen THEN pos + 1 ELSE 1
      /\ future' = [None EXCEPT !.pos = pos', !.state = "drawn"]
  BY DEF Draw, Goto, jobVars
<1>2. future = None /\ Up /\ Up'
  BY <1>1 DEF IInv, BatchInv, Up
<1>3. future' # None /\ future'.pos = pos'
  BY <1>1 DEF None
<1>4. Undrawn' = Undrawn + 1 /\ Undrawn \in Int
  BY <1>1, <1>2, <1>3 DEF Undrawn
<1> DEFINE x == pos - globalSteps - Undrawn
<1>5. x \in Int /\ run - 1 \in Nat /\ Ahead(x, run - 1)
  BY <1>2, <1>4, DataTypes DEF DataInv
<1>6. \/ pos' - globalSteps' - Undrawn' = x
      \/ pos' - globalSteps' - Undrawn' = x - EpochLen
  <2> DEFINE u == Undrawn
             p == pos'
  <2>1. /\ pos \in 0..EpochLen /\ globalSteps \in Int /\ EpochLen \in Nat
        /\ globalSteps' = globalSteps /\ p = (IF pos < EpochLen THEN pos + 1 ELSE 1)
    BY <1>1, DataTypes, ConstantFacts
  <2>2. u \in Int /\ Undrawn' = u + 1 /\ x = pos - globalSteps - u
    BY <1>4
  <2> HIDE DEF x, u, p
  <2>3. CASE pos < EpochLen
    <3>1. p - globalSteps - (u + 1) = x
      BY ONLY <2>1, <2>2, <2>3
    <3> QED BY <2>1, <2>2, <3>1 DEF p
  <2>4. CASE pos = EpochLen
    <3>1. p - globalSteps - (u + 1) = x - EpochLen
      BY ONLY <2>1, <2>2, <2>4
    <3> QED BY <2>1, <2>2, <3>1 DEF p
  <2> QED BY <2>1, <2>3, <2>4
<1>7. Ahead(pos' - globalSteps' - Undrawn', run - 1)
  <2> HIDE DEF x
  <2> QED BY <1>5, <1>6, AheadPass
<1> QED BY <1>1, <1>2, <1>3, <1>7 DEF DataInv

LEMMA TakeBatchDataInv ==
  ASSUME IInv, DataInv, TakeBatch
  PROVE  DataInv'
<1>1. /\ pc = "wait" /\ current' = future /\ future' = None /\ future.state = "generated"
      /\ UNCHANGED <<pos, globalSteps, point, run>>
  BY DEF TakeBatch, Goto, jobVars, dataVars
<1>2. current = None /\ future # None /\ Up
  BY <1>1 DEF IInv, BatchInv, None, Up
<1>3. Undrawn' = 0 /\ Undrawn = 0 /\ current'.pos = pos
  BY <1>1, <1>2 DEF Undrawn, DataInv
<1>4. Ahead(pos - globalSteps, run - 1)
  <2>1. pos - globalSteps - Undrawn = pos - globalSteps
    BY <1>3, DataTypes
  <2> QED BY <1>2, <2>1 DEF DataInv
<1>5. pos' - globalSteps' - Undrawn' = pos - globalSteps
  BY <1>1, <1>3, DataTypes
<1> QED BY <1>1, <1>3, <1>4, <1>5 DEF DataInv

(* The position a save writes is past the batch in flight, if there is one. *)
LEMMA SaveDataInv ==
  ASSUME IInv, DataInv, Save
  PROVE  DataInv'
<1>1. /\ pc = "save" /\ pc' = "advance"
      /\ \/ point' = [done |-> globalSteps, pos |-> pos, weights |-> actor]
         \/ point' = point
      /\ UNCHANGED <<pos, globalSteps, run, future, current>>
  BY DEF Save, Goto, dataVars, batchVars
<1>2. current # None /\ Up /\ Undrawn \in {0, 1}
  BY <1>1 DEF IInv, BatchInv, Trained, Undrawn, Up
<1>3. Ahead(point'.pos - point'.done, run)
  <2>1. CASE point' = point
    BY <2>1 DEF DataInv
  <2>2. CASE point' = [done |-> globalSteps, pos |-> pos, weights |-> actor]
    <3> DEFINE x == pos - globalSteps - Undrawn
    <3>1. x \in Int /\ run - 1 \in Nat /\ (run - 1) + 1 = run /\ Ahead(x, run - 1)
      BY <1>2, DataTypes DEF DataInv
    <3>2. point'.pos - point'.done \in {x, x + 1}
      BY <1>2, <2>2, DataTypes
    <3> HIDE DEF x
    <3> QED BY <3>1, <3>2, AheadMore
  <2> QED BY <1>1, <2>1, <2>2
<1> QED BY <1>1, <1>2, <1>3 DEF DataInv, Undrawn, Up

LEMMA NextStepDataInv ==
  ASSUME IInv, DataInv, NextStep
  PROVE  DataInv'
<1>1. /\ pc = "advance" /\ current' = None /\ globalSteps' = globalSteps + 1
      /\ UNCHANGED <<pos, point, run, future>>
  BY DEF NextStep, Goto, dataVars
<1>2. current # None /\ Up
  BY <1>1 DEF IInv, BatchInv, Trained, Up
<1>3. Undrawn' = Undrawn - 1 /\ Undrawn \in Int
  BY <1>1, <1>2 DEF Undrawn
<1>4. pos' - globalSteps' - Undrawn' = pos - globalSteps - Undrawn
  BY <1>1, <1>3, DataTypes
<1> QED BY <1>1, <1>2, <1>4 DEF DataInv

LEMMA StepDataInv ==
  ASSUME IInv, DataInv, [Next]_vars
  PROVE  DataInv'
<1>1. CASE Crash
  BY <1>1 DEF Crash, jobVars, dataVars, DataInv, Up
<1> QED
  BY <1>1, StepKinds, QuietDataInv, StartDataInv, DrawDataInv, TakeBatchDataInv,
     SaveDataInv, NextStepDataInv DEF Counting

(* The batch a step is trained on is its own, or later by at most one per  *)
(* resume, around the passes over the data: none is trained on twice, and  *)
(* a start skips no more than the batch that was in flight at its save.    *)
THEOREM SkipsAtMostOne == Spec => []SkipsOnePerResume
<1>1. IInv /\ DataInv => SkipsOnePerResume
  <2> SUFFICES ASSUME IInv, DataInv, pc = "reward"
               PROVE  (current.pos - globalSteps) % EpochLen < run
    BY DEF SkipsOnePerResume
  <2>1. current # None /\ Up
    BY DEF IInv, BatchInv, Training, Up
  <2>2. /\ Ahead(current.pos - globalSteps, run - 1) /\ run - 1 \in Nat /\ run \in Nat
        /\ current.pos - globalSteps \in Int
    BY <2>1, DataTypes DEF DataInv
  <2>3. (current.pos - globalSteps) % EpochLen <= run - 1
    BY <2>2, AheadIsRemainder
  <2>4. (current.pos - globalSteps) % EpochLen \in Int
    BY <2>2, ConstantFacts
  <2> QED BY <2>2, <2>3, <2>4
<1>2. IInv /\ DataInv /\ [Next]_vars => DataInv'
  BY StepDataInv
<1> QED BY <1>1, <1>2, InitDataInv, Invariance, PTL DEF Spec

-----------------------------------------------------------------------------
(* What a job has saved when it stops                                      *)

(* Since the last save no step was due to be saved, and what was saved is  *)
(* a step that was due.                                                    *)
SavedInv ==
  SaveFreq > 0 =>
    /\ point.done % SaveFreq = 0 \/ point.done >= TotalSteps
    /\ Up /\ pc # "advance" => globalSteps - 1 - point.done \in 0..(SaveFreq - 1)
    /\ pc = "advance" => /\ globalSteps - point.done \in 0..(SaveFreq - 1)
                         /\ IsLastStep => point.done = globalSteps
    /\ StoppedIsSaved

(* One save interval on, the step is due again.                            *)
LEMMA DueAgain ==
  ASSUME NEW d \in Nat, SaveFreq > 0, d % SaveFreq = 0
  PROVE  (d + SaveFreq) % SaveFreq = 0
<1> DEFINE F == SaveFreq
           q == d \div F
           u == (d + F) \div F
           w == (d + F) % F
<1>1. F \in Nat \ {0}
  BY ConstantFacts
<1>2. /\ q \in Int /\ d = F * q
      /\ u \in Int /\ w \in 0..(F - 1) /\ d + F = F * u + w
  BY <1>1
<1> HIDE DEF F, q, u, w
<1>3. w = F * (q + 1 - u) /\ q + 1 - u \in Int
  <2>1. F * (q + 1 - u) = F * q + F - F * u
    BY ONLY <1>1, <1>2
  <2>2. F * q \in Int /\ F * u \in Int
    BY ONLY <1>1, <1>2
  <2> QED BY <1>1, <1>2, <2>1, <2>2
<1>4. CASE q + 1 - u >= 1
  <2>1. F * (q + 1 - u) >= F
    BY ONLY <1>1, <1>3, <1>4
  <2> QED BY <1>1, <1>2, <1>3, <2>1
<1>5. CASE q + 1 - u <= -1
  <2>1. F * (q + 1 - u) <= -F
    BY ONLY <1>1, <1>3, <1>5
  <2> QED BY <1>1, <1>2, <1>3, <2>1
<1>6. CASE q + 1 - u = 0
  <2>1. w = 0
    BY <1>1, <1>3, <1>6
  <2> QED BY <2>1 DEF w, F
<1> QED BY <1>3, <1>4, <1>5, <1>6

LEMMA StepSavedInv ==
  ASSUME IInv, SavedInv, [Next]_vars
  PROVE  SavedInv'
<1> SUFFICES ASSUME SaveFreq > 0
             PROVE  SavedInv'
  BY DEF SavedInv
<1>0. /\ globalSteps \in Nat /\ point.done \in Nat /\ SaveFreq \in Nat /\ TotalSteps \in Nat
  BY DataTypes, ConstantFacts
<1>1. CASE Quiet
  BY <1>0, <1>1 DEF Quiet, SavedInv, StoppedIsSaved, IsLastStep, Up
<1>2. CASE Start
  <2>1. /\ globalSteps' = point.done + 1 /\ point' = point
        /\ pc' \in {"validate_first", "draw"}
    BY <1>2 DEF Start, Goto
  <2> QED BY <1>0, <2>1 DEF SavedInv, StoppedIsSaved
<1>3. CASE Draw \/ TakeBatch
  <2>1. /\ UNCHANGED <<globalSteps, point>> /\ Up /\ pc # "advance"
        /\ pc' \in {"sync", "prepare", "draw"}
    BY <1>3 DEF Draw, TakeBatch, Goto, jobVars, Up
  <2> QED BY <1>0, <2>1 DEF SavedInv, StoppedIsSaved
<1>4. CASE Save
  <2>1. /\ pc = "save" /\ pc' = "advance" /\ globalSteps' = globalSteps
        /\ point' = IF MustSave THEN [done |-> globalSteps, pos |-> pos, weights |-> actor]
                    ELSE point
    BY <1>4 DEF Save, Goto
  <2>2. CASE MustSave
    <3>1. point'.done = globalSteps
      BY <2>1, <2>2
    <3>2. globalSteps % SaveFreq = 0 \/ globalSteps >= TotalSteps
      BY <2>2 DEF MustSave, IsLastStep
    <3> QED BY <1>0, <2>1, <3>1, <3>2 DEF SavedInv, StoppedIsSaved
  <2>3. CASE ~MustSave
    <3>1. ~IsLastStep /\ globalSteps % SaveFreq # 0 /\ globalSteps < TotalSteps
      BY <1>0, <2>3 DEF MustSave, IsLastStep
    <3>2. /\ globalSteps - 1 - point.done \in 0..(SaveFreq - 1)
          /\ point.done % SaveFreq = 0 \/ point.done >= TotalSteps
      BY <2>1 DEF SavedInv, Up
    <3>3. point.done % SaveFreq = 0
      BY <1>0, <3>1, <3>2
    <3>4. globalSteps # point.done + SaveFreq
      BY <1>0, <3>1, <3>3, DueAgain
    <3> QED BY <1>0, <2>1, <2>3, <3>1, <3>2, <3>4 DEF SavedInv, StoppedIsSaved, IsLastStep
  <2> QED BY <2>2, <2>3
<1>5. CASE NextStep
  <2>1. /\ pc = "advance" /\ globalSteps' = globalSteps + 1 /\ point' = point
        /\ \/ pc' = "finished" /\ IsLastStep
           \/ pc' = "wait"
    BY <1>5 DEF NextStep, Goto
  <2> QED BY <1>0, <2>1 DEF SavedInv, StoppedIsSaved, Up
<1>6. CASE Crash
  BY <1>6 DEF Crash, jobVars, SavedInv, StoppedIsSaved, Up
<1> QED BY <1>1, <1>2, <1>3, <1>4, <1>5, <1>6, StepKinds DEF Counting

(* A job that trained its last step has saved it, and one that left the    *)
(* loop for want of a batch has lost less than one save interval.          *)
THEOREM StoppedAlwaysSaved == Spec => []StoppedIsSaved
<1>1. Init => SavedInv
  <2>1. SaveFreq > 0 => 0 % SaveFreq = 0
    BY ConstantFacts
  <2> QED BY <2>1 DEF Init, SavedInv, StoppedIsSaved, Nothing, Up
<1>2. IInv /\ SavedInv /\ [Next]_vars => SavedInv'
  BY StepSavedInv
<1>3. SavedInv => StoppedIsSaved
  BY DEF SavedInv, StoppedIsSaved
<1> QED BY <1>1, <1>2, <1>3, Invariance, PTL DEF Spec

-----------------------------------------------------------------------------
(* Whoever waits, waits for something that is being done: a group that has  *)
(* come to the broadcast has the other with it, and the driver waits for    *)
(* the call its group is at, or has the answer.                            *)
NobodyWaitsInVain ==
  /\ Calls(actorQ, "sync") <=> Calls(rolloutQ, "sync")
  /\ pc = "launch" => rolloutQ = << >> \/ Calls(rolloutQ, "sync")
  /\ pc = "wait" => future = None \/ future.state = "generated" \/ Calls(rolloutQ, "generate")
  /\ pc = "reward" /\ opts.asyncReward => current.state = "generated"
  /\ pc = "updating" => actorQ = << >> \/ Calls(actorQ, "update")
  /\ pc \in {"validating_first", "validating"} =>
       rolloutQ = << >> \/ Calls(rolloutQ, "generate") \/ Calls(rolloutQ, "validate")

(* A batch is only taken when it is generated.                             *)
TakenInv == current.state \in {"none", "generated"} /\ (current.state = "none" => current = None)

LEMMA TakenHolds ==
  /\ Init => TakenInv
  /\ TakenInv /\ [Next]_vars => TakenInv'
<1>1. Init => TakenInv
  BY DEF Init, TakenInv, None
<1>2. ASSUME TakenInv, [Next]_vars PROVE TakenInv'
  <2>1. CASE UNCHANGED current
    BY <1>2, <2>1 DEF TakenInv
  <2>2. CASE TakeBatch
    BY <2>2 DEF TakeBatch, TakenInv
  <2>3. CASE NextStep \/ Crash
    BY <2>3 DEF NextStep, Crash, TakenInv, None
  <2>4. CASE RewardTask
    <3>1. UNCHANGED current \/ (current' = Score(current) /\ current.state = "generated")
      BY <2>4 DEF RewardTask
    <3>2. current' = Score(current) /\ current.state = "generated" => TakenInv'
      BY DEF Score, TakenInv
    <3> QED BY <2>1, <3>1, <3>2
  <2> QED BY <1>2, <2>1, <2>2, <2>3, <2>4 DEF Next, Driver, Groups, Start, CallValidate,
      Validated, Draw, DrawNothing, CallSync, Launch, LeaveLoop, Balance, ComputeReward,
      GetReward, CallUpdate, SkipUpdate, Updated, Save, WeightSync, Update, Generate,
      Validate, vars, batchVars
<1> QED BY <1>1, <1>2

LEMMA CallsUnderWay ==
  /\ \A c \in {"sync", "generate", "validate", "update"} : \A d : Calls(<< c >>, d) <=> c = d
  /\ Calls(<< "generate", "validate" >>, "generate")
  /\ ~Calls(<< "generate", "validate" >>, "sync")
  /\ \A d : ~Calls(<< >>, d)
BY TwoCalls DEF Calls

(* NobodyWaitsInVain: the two groups come to the broadcast together, after  *)
(* every crash as well, and no reader of a future waits for an answer that  *)
(* nobody is working on.                                                   *)
THEOREM NobodyHangs == Spec => []NobodyWaitsInVain
<1>1. ASSUME IInv, TakenInv PROVE NobodyWaitsInVain
  <2>1. TypeOK /\ BatchInv /\ ActorCalls /\ RolloutCalls
    BY <1>1 DEF IInv
  <2>2. CASE pc = "launch"
    <3>1. actorQ = rolloutQ /\ actorQ \in {<< >>, << "sync" >>}
      BY <2>1, <2>2 DEF ActorCalls
    <3> QED BY <2>2, <3>1, CallsUnderWay DEF NobodyWaitsInVain
  <2>3. CASE pc # "launch"
    <3>1. actorQ \in {<< >>, << "update" >>} /\ (pc # "updating" => actorQ = << >>)
      BY <2>1, <2>3 DEF ActorCalls
    <3>2. rolloutQ \in {<< >>, << "generate" >>, << "validate" >>, << "generate", "validate" >>}
      BY <2>1, <2>3 DEF RolloutCalls, TypeOK, Training, Trained
    <3>3. ~Calls(actorQ, "sync") /\ ~Calls(rolloutQ, "sync")
      BY <3>1, <3>2, CallsUnderWay
    <3>4. pc = "updating" => actorQ = << >> \/ Calls(actorQ, "update")
      BY <3>1, CallsUnderWay
    <3>5. rolloutQ = << >> \/ Calls(rolloutQ, "generate") \/ Calls(rolloutQ, "validate")
      BY <3>2, CallsUnderWay
    <3>6. pc = "wait" => future = None \/ future.state = "generated" \/ Calls(rolloutQ, "generate")
      <4> SUFFICES ASSUME pc = "wait", future # None, future.state # "generated"
                   PROVE  Calls(rolloutQ, "generate")
        OBVIOUS
      <4>1. future.state = "generating"
        BY <2>1 DEF TypeOK, Batches, BatchInv
      <4>2. rolloutQ \in {<< "generate" >>, << "generate", "validate" >>}
        BY <2>1, <4>1 DEF RolloutCalls
      <4> QED BY <4>2, CallsUnderWay
    <3>7. pc = "reward" => current.state = "generated"
      BY <1>1, <2>1 DEF BatchInv, TakenInv, Training
    <3> QED BY <2>3, <3>3, <3>4, <3>5, <3>6, <3>7 DEF NobodyWaitsInVain
  <2> QED BY <2>2, <2>3
<1> QED BY <1>1, InitIInv, StepIInv, TakenHolds, PTL DEF Spec
=============================================================================
