-------------------------- MODULE HybridEngine_proofs --------------------------
(* Proofs about HybridEngine, for any group of ranks and any configuration. *)
EXTENDS HybridEngine, TLAPS

(* The configurations in which a generation renews the engine's weights:   *)
(* servers must free their cache and take no LoRA adapter.                 *)
Supported == Switches /\ ~(cfg.async /\ cfg.lora)

Before == {"gather", "offload", "resume", "base", "weights", "kv", "rollout"}
After == {"release", "sleep", "done"}

(* Where the ranks are in a call, and which steps are still to come.       *)
CallInv ==
  /\ call # "fit" => call = next
  /\ call = "fit" => \A r \in Ranks : pc[r] = "ready"
  /\ call = "generate" => \A r \in Ranks : pc[r] \in Before \cup After
  /\ call \in Calls \ {"generate"} =>
       \A r \in Ranks : pc[r] \in {"compute", "unload", "done"}
  /\ \A r, s \in Ranks : pc[r] = "compute" => pc[s] = "compute"
  /\ \/ next \in {"generate", "log_prob", "ref"}
     \/ next = "update" /\ \A r \in Ranks : pc[r] \in {"ready", "compute"}
     => step < MaxSteps
  /\ \A r \in Ranks : actor[r] \in {step, step + 1}
  /\ next = "load" => step = 0

(* A batch that has been sampled, or scored, and not yet trained on.       *)
SampledFresh ==
  \/ next \in {"log_prob", "ref"}
  \/ next = "update" /\ \A r \in Ranks : pc[r] \in {"ready", "compute"}
  \/ next = "generate" /\ \E r \in Ranks : pc[r] \in After
ScoredFresh ==
  \/ next = "log_prob" /\ \E r \in Ranks : pc[r] \in {"unload", "done"}
  \/ next = "ref"
  \/ next = "update" /\ \A r \in Ranks : pc[r] \in {"ready", "compute"}

(* What the engine holds on the way to rollout mode, and the batch.        *)
EngineInv ==
  /\ \A r \in Ranks : cfg.lora => synced[r]
  /\ \A r \in Ranks : cfg.lora /\ (cfg.level = 1 \/ pc[r] = "weights")
         => weights[r] = Base
  /\ \A r \in Ranks : pc[r] \in {"kv", "rollout"} => Sampling(r) = actor[r]
  /\ prefix # {} => \A r \in Ranks : pc[r] = "release"
  /\ SampledFresh => \A r \in Ranks : batch.sampled = {actor[r]}
PolicyInv ==
  /\ \A r, s \in Ranks : actor[r] = actor[s]
  /\ ScoredFresh => \A r \in Ranks : batch.scored = {actor[r]}
  /\ Supported => EngineInv

(* What of the actor is on the GPU at each point of a call.                *)
RoomInv ==
  cfg.offload => \A r \in Ranks :
    /\ pc[r] \notin {"gather", "offload", "compute", "unload"} => onGpu[r] = {}
    /\ pc[r] \in {"gather", "offload"} \/ call \notin {"load", "update"}
         => onGpu[r] \subseteq {"params"}
    /\ cfg.free /\ resident[r] # {}
         => pc[r] \in {"base", "weights", "kv", "rollout", "release", "sleep"}

(* Which stream each variable holds.                                       *)
StreamInv ==
  Switches => \A r \in Ranks :
    IF pc[r] \in {"rollout", "release", "sleep"}
    THEN trainRng[r] = Stream("train", drawn.train) /\ current[r].at = drawn.gen
    ELSE current[r] = Stream("train", drawn.train) /\ genRng[r].at = drawn.gen

IInv == TypeOK /\ CallInv /\ PolicyInv /\ RoomInv /\ StreamInv

-----------------------------------------------------------------------------
(* Changing one value of a function keeps its range.                       *)
LEMMA ExceptInRange ==
  ASSUME NEW S, NEW T, NEW f \in [S -> T], NEW q \in S, NEW v \in T
  PROVE  [f EXCEPT ![q] = v] \in [S -> T]
OBVIOUS

(* A job starts in the invariant.                                          *)
LEMMA InitInv == Init => IInv
BY HybridAssumption DEF HybridAssumption, Init, IInv, TypeOK, CallInv, PolicyInv,
  EngineInv, SampledFresh, ScoredFresh, RoomInv, StreamInv, Setting, Calls, Pcs,
  Policies, Trained, Engine, Streams, Stream, Switches, Before, After, Base, Dummy,
  Discarded, Restored, Supported, Sampling

(* Every step keeps the invariant.                                         *)
LEMMA StepInv == IInv /\ [Next]_vars => IInv'
<1> SUFFICES ASSUME IInv, [Next]_vars PROVE IInv'
  OBVIOUS
<1> USE HybridAssumption
<1> USE DEF HybridAssumption, Setting, Calls, Pcs, Policies, Trained, Engine, Streams,
  Stream, Draw, Switches, Before, After, Base, Dummy, Discarded, Restored, Supported,
  Sampling, SampledFresh, ScoredFresh, Advance, Together, LastStep, NeedsBase, Asleep,
  driverVars, modelVars, engineVars, rngVars, TypeOK, CallInv, PolicyInv, EngineInv,
  RoomInv, StreamInv, IInv
<1>1. CASE Call
  <2>1. TypeOK'
    BY <1>1 DEF Call
  <2>2. CallInv'
    BY <1>1 DEF Call
  <2>3. PolicyInv'
    BY <1>1 DEF Call
  <2>4. RoomInv'
    BY ZenonT(30), <1>1 DEF Call
  <2>5. StreamInv'
    BY <1>1 DEF Call
  <2> QED
    BY <2>1, <2>2, <2>3, <2>4, <2>5
<1>2. CASE Return
  <2>1. TypeOK'
    BY <1>2 DEF Return
  <2>2. CallInv'
    BY <1>2 DEF Return
  <2>3. PolicyInv'
    BY <1>2 DEF Return
  <2>4. RoomInv'
    BY <1>2 DEF Return
  <2>5. StreamInv'
    BY <1>2 DEF Return
  <2> QED
    BY <2>1, <2>2, <2>3, <2>4, <2>5
<1>3. CASE Gather
  <2>1. TypeOK'
    BY <1>3 DEF Gather
  <2>2. CallInv'
    BY <1>3 DEF Gather
  <2>3. PolicyInv'
    BY <1>3 DEF Gather
  <2>4. RoomInv'
    BY <1>3 DEF Gather
  <2>5. StreamInv'
    BY SMTT(30), <1>3 DEF Gather
  <2> QED
    BY <2>1, <2>2, <2>3, <2>4, <2>5
<1>4. CASE UpdateBase
  <2>1. TypeOK'
    BY <1>4 DEF UpdateBase
  <2>2. CallInv'
    BY <1>4 DEF UpdateBase
  <2>3. PolicyInv'
    BY <1>4 DEF UpdateBase
  <2>4. RoomInv'
    BY <1>4 DEF UpdateBase
  <2>5. StreamInv'
    BY <1>4 DEF UpdateBase
  <2> QED
    BY <2>1, <2>2, <2>3, <2>4, <2>5
<1>5. CASE UpdateWeights
  <2>1. TypeOK'
    BY <1>5 DEF UpdateWeights
  <2>2. CallInv'
    BY <1>5 DEF UpdateWeights
  <2>3. PolicyInv'
    BY <1>5 DEF UpdateWeights
  <2>4. RoomInv'
    BY <1>5 DEF UpdateWeights
  <2>5. StreamInv'
    BY <1>5 DEF UpdateWeights
  <2> QED
    BY <2>1, <2>2, <2>3, <2>4, <2>5
<1>6. CASE Generate
  <2>1. TypeOK'
    BY <1>6 DEF Generate
  <2>2. CallInv'
    BY <1>6 DEF Generate
  <2>3. PolicyInv'
    BY <1>6 DEF Generate
  <2>4. RoomInv'
    BY <1>6 DEF Generate
  <2>5. StreamInv'
    BY <1>6 DEF Generate
  <2> QED
    BY <2>1, <2>2, <2>3, <2>4, <2>5
<1>7. CASE ResetPrefixCache
  <2>1. TypeOK'
    BY <1>7 DEF ResetPrefixCache
  <2>2. CallInv'
    BY <1>7 DEF ResetPrefixCache
  <2>3. PolicyInv'
    BY <1>7 DEF ResetPrefixCache
  <2>4. RoomInv'
    BY <1>7 DEF ResetPrefixCache
  <2>5. StreamInv'
    BY <1>7 DEF ResetPrefixCache
  <2> QED
    BY <2>1, <2>2, <2>3, <2>4, <2>5
<1>8. CASE LogProb
  <2>1. TypeOK'
    BY <1>8 DEF LogProb
  <2>2. CallInv'
    BY <1>8 DEF LogProb
  <2>3. PolicyInv'
    BY <1>8 DEF LogProb
  <2>4. RoomInv'
    BY <1>8 DEF LogProb
  <2>5. StreamInv'
    BY <1>8 DEF LogProb
  <2> QED
    BY <2>1, <2>2, <2>3, <2>4, <2>5
<1>9. CASE RefLogProb
  <2>1. TypeOK'
    BY <1>9 DEF RefLogProb
  <2>2. CallInv'
    BY <1>9 DEF RefLogProb
  <2>3. PolicyInv'
    BY <1>9 DEF RefLogProb
  <2>4. RoomInv'
    BY <1>9 DEF RefLogProb
  <2>5. StreamInv'
    BY <1>9 DEF RefLogProb
  <2> QED
    BY <2>1, <2>2, <2>3, <2>4, <2>5
<1>10. CASE Update
  <2>1. TypeOK'
    <3>a. next = "update" /\ \A r \in Ranks : pc[r] = "compute"
      BY <1>10, CallInv, call \in Calls DEF Update
    <3>b. step < MaxSteps
      BY ONLY <3>a, CallInv DEF CallInv
    <3>c. \A r \in Ranks : actor[r] \in 0..MaxSteps
      BY ONLY <3>b, CallInv, TypeOK, HybridAssumption DEF CallInv, TypeOK,
             HybridAssumption, Policies
    <3>1. (cfg \in Settings /\ call \in Calls \cup {"fit"}
           /\ next \in Calls \cup {"stop"} /\ step \in 0..MaxSteps)'
      BY <1>10 DEF Update
    <3>2. (pc \in [Ranks -> Pcs] /\ actor \in [Ranks -> Policies])'
      BY ONLY <3>c, <1>10, TypeOK, HybridAssumption DEF Update, Together, TypeOK,
             Policies, Pcs, HybridAssumption
    <3>3. (onGpu \in [Ranks -> SUBSET Trained]
           /\ resident \in [Ranks -> SUBSET Engine])'
      BY <1>10 DEF Update
    <3>4. (weights \in [Ranks -> Policies \cup {Dummy, Discarded}])'
      BY <1>10 DEF Update
    <3>5. (adapter \in [Ranks -> Policies \cup {Dummy, Discarded}])'
      BY <1>10 DEF Update
    <3>6. (prefix \subseteq Policies \cup {Dummy, Discarded}
           /\ synced \in [Ranks -> BOOLEAN])'
      BY <1>10 DEF Update
    <3>7. (current \in [Ranks -> Streams])'
      BY <1>10 DEF Update
    <3>8. (trainRng \in [Ranks -> Streams] /\ genRng \in [Ranks -> Streams])'
      BY <1>10 DEF Update
    <3>9. (drawn \in [train: Nat, gen: Nat])'
      BY <1>10 DEF Update
    <3>10. (batch \in [sampled: SUBSET (Policies \cup {Dummy, Discarded}),
           scored: SUBSET Policies])'
      BY <1>10 DEF Update
    <3> QED
      BY <3>1, <3>2, <3>3, <3>4, <3>5, <3>6, <3>7, <3>8, <3>9, <3>10
  <2>2. CallInv'
    BY <1>10 DEF Update
  <2>3. PolicyInv'
    BY <1>10 DEF Update
  <2>4. RoomInv'
    BY <1>10 DEF Update
  <2>5. StreamInv'
    BY <1>10 DEF Update
  <2> QED
    BY <2>1, <2>2, <2>3, <2>4, <2>5
<1>11. CASE Load
  <2>1. TypeOK'
    BY <1>11 DEF Load
  <2>2. CallInv'
    BY <1>11 DEF Load
  <2>3. PolicyInv'
    BY <1>11 DEF Load
  <2>4. RoomInv'
    BY <1>11 DEF Load
  <2>5. StreamInv'
    BY <1>11 DEF Load
  <2> QED
    BY <2>1, <2>2, <2>3, <2>4, <2>5
<1>12. CASE Save
  <2>1. TypeOK'
    BY <1>12 DEF Save
  <2>2. CallInv'
    BY <1>12 DEF Save
  <2>3. PolicyInv'
    BY <1>12 DEF Save
  <2>4. RoomInv'
    BY <1>12 DEF Save
  <2>5. StreamInv'
    BY <1>12 DEF Save
  <2> QED
    BY <2>1, <2>2, <2>3, <2>4, <2>5
<1>13. ASSUME NEW q \in Ranks, Offload(q) PROVE IInv'
  <2>1. TypeOK'
    BY <1>13 DEF Offload
  <2>2. CallInv'
    BY <1>13 DEF Offload
  <2>3. PolicyInv'
    BY <1>13 DEF Offload
  <2>4. RoomInv'
    BY <1>13 DEF Offload
  <2>5. StreamInv'
    BY <1>13 DEF Offload
  <2> QED
    BY <2>1, <2>2, <2>3, <2>4, <2>5
<1>14. ASSUME NEW q \in Ranks, ResumeWeights(q) PROVE IInv'
  <2>1. TypeOK'
    BY <1>14 DEF ResumeWeights
  <2>2. CallInv'
    BY <1>14 DEF ResumeWeights
  <2>3. PolicyInv'
    BY <1>14 DEF ResumeWeights
  <2>4. RoomInv'
    BY <1>14 DEF ResumeWeights
  <2>5. StreamInv'
    BY <1>14 DEF ResumeWeights
  <2> QED
    BY <2>1, <2>2, <2>3, <2>4, <2>5
<1>15. ASSUME NEW q \in Ranks, ResumeKv(q) PROVE IInv'
  <2>1. TypeOK'
    BY <1>15 DEF ResumeKv
  <2>2. CallInv'
    BY <1>15 DEF ResumeKv
  <2>3. PolicyInv'
    BY <1>15 DEF ResumeKv
  <2>4. RoomInv'
    BY <1>15 DEF ResumeKv
  <2>5. StreamInv'
    BY <1>15 DEF ResumeKv
  <2> QED
    BY <2>1, <2>2, <2>3, <2>4, <2>5
<1>16. ASSUME NEW q \in Ranks, TrainerMode(q) PROVE IInv'
  <2>1. TypeOK'
    <3>a. /\ weights' \in {weights, [weights EXCEPT ![q] = Discarded]}
          /\ adapter' \in {adapter, [adapter EXCEPT ![q] = Discarded]}
          /\ resident' \in {resident, [resident EXCEPT ![q] = {}]}
      BY ONLY <1>16, TypeOK DEF TrainerMode, Asleep, TypeOK
    <3>1. (cfg \in Settings /\ call \in Calls \cup {"fit"}
           /\ next \in Calls \cup {"stop"} /\ step \in 0..MaxSteps)'
      BY <1>16 DEF TrainerMode
    <3>2. (pc \in [Ranks -> Pcs] /\ actor \in [Ranks -> Policies])'
      BY <1>16 DEF TrainerMode
    <3>3. (onGpu \in [Ranks -> SUBSET Trained]
           /\ resident \in [Ranks -> SUBSET Engine])'
      BY ONLY <3>a, <1>16, TypeOK, ExceptInRange, Ranks \in {Ranks},
             {} \in SUBSET Engine DEF TrainerMode, TypeOK, modelVars
    <3>4. (weights \in [Ranks -> Policies \cup {Dummy, Discarded}])'
      <4>1. weights \in [Ranks -> Policies \cup {Dummy, Discarded}]
        BY ONLY TypeOK DEF TypeOK
      <4>2. [weights EXCEPT ![q] = Discarded] \in [Ranks -> Policies \cup {Dummy, Discarded}]
        BY ONLY <4>1, ExceptInRange, q \in Ranks,
                Discarded \in Policies \cup {Dummy, Discarded}
      <4> QED
        BY ONLY <3>a, <4>1, <4>2
    <3>5. (adapter \in [Ranks -> Policies \cup {Dummy, Discarded}])'
      <4>1. adapter \in [Ranks -> Policies \cup {Dummy, Discarded}]
        BY ONLY TypeOK DEF TypeOK
      <4>2. [adapter EXCEPT ![q] = Discarded] \in [Ranks -> Policies \cup {Dummy, Discarded}]
        BY ONLY <4>1, ExceptInRange, q \in Ranks,
                Discarded \in Policies \cup {Dummy, Discarded}
      <4> QED
        BY ONLY <3>a, <4>1, <4>2
    <3>6. (prefix \subseteq Policies \cup {Dummy, Discarded}
           /\ synced \in [Ranks -> BOOLEAN])'
      BY <1>16 DEF TrainerMode
    <3>7. (current \in [Ranks -> Streams])'
      BY <1>16 DEF TrainerMode
    <3>8. (trainRng \in [Ranks -> Streams] /\ genRng \in [Ranks -> Streams])'
      BY <1>16 DEF TrainerMode
    <3>9. (drawn \in [train: Nat, gen: Nat])'
      BY <1>16 DEF TrainerMode
    <3>10. (batch \in [sampled: SUBSET (Policies \cup {Dummy, Discarded}),
           scored: SUBSET Policies])'
      BY <1>16 DEF TrainerMode
    <3> QED
      BY <3>1, <3>2, <3>3, <3>4, <3>5, <3>6, <3>7, <3>8, <3>9, <3>10
  <2>2. CallInv'
    BY <1>16 DEF TrainerMode
  <2>3. PolicyInv'
    BY <1>16 DEF TrainerMode
  <2>4. RoomInv'
    BY <1>16 DEF TrainerMode
  <2>5. StreamInv'
    BY <1>16 DEF TrainerMode
  <2> QED
    BY <2>1, <2>2, <2>3, <2>4, <2>5
<1>17. ASSUME NEW q \in Ranks, Unload(q) PROVE IInv'
  <2>1. TypeOK'
    BY <1>17 DEF Unload
  <2>2. CallInv'
    BY <1>17 DEF Unload
  <2>3. PolicyInv'
    <3>a. pc[q] = "unload" /\ pc' = [pc EXCEPT ![q] = "done"]
      BY ONLY <1>17 DEF Unload, Advance
    <3>b. call # "fit" /\ call # "generate"
      BY ONLY <3>a, <1>17, CallInv DEF CallInv, Before, After
    <3>c. next # "generate" /\ pc'[q] = "done"
      BY ONLY <3>a, <3>b, <1>17, CallInv, TypeOK DEF CallInv, TypeOK
    <3>1. (\A r, s \in Ranks : actor[r] = actor[s])'
      BY <1>17 DEF Unload
    <3>2. (ScoredFresh => \A r \in Ranks : batch.scored = {actor[r]})'
      BY <1>17 DEF Unload
    <3>3. (Supported => \A r \in Ranks : cfg.lora => synced[r])'
      BY <1>17 DEF Unload
    <3>4. (Supported => \A r \in Ranks : cfg.lora
           /\ (cfg.level = 1 \/ pc[r] = "weights") => weights[r] = Base)'
      BY <1>17 DEF Unload
    <3>5. (Supported => \A r \in Ranks : pc[r] \in {"kv", "rollout"}
           => Sampling(r) = actor[r])'
      BY <1>17 DEF Unload
    <3>6. (Supported /\ prefix # {} => \A r \in Ranks : pc[r] = "release")'
      BY <1>17 DEF Unload
    <3>7. (Supported /\ SampledFresh => \A r \in Ranks : batch.sampled = {actor[r]})'
      BY <3>c, <1>17 DEF Unload
    <3> QED
      BY <3>1, <3>2, <3>3, <3>4, <3>5, <3>6, <3>7
  <2>4. RoomInv'
    BY <1>17 DEF Unload
  <2>5. StreamInv'
    BY <1>17 DEF Unload
  <2> QED
    BY <2>1, <2>2, <2>3, <2>4, <2>5
<1>18. CASE UNCHANGED vars
  BY <1>18 DEF vars
<1> QED
  BY <1>1, <1>2, <1>3, <1>4, <1>5, <1>6, <1>7, <1>8, <1>9, <1>10, <1>11, <1>12, <1>13,
         <1>14, <1>15, <1>16, <1>17, <1>18 DEF Next, Finished, RolloutStep, ActorStep,
                RankStep

(* The facts that hold in every state.                                     *)
THEOREM Invariant == Spec => []IInv
<1>1. Init => IInv
  BY InitInv
<1>2. IInv /\ [Next]_vars => IInv'
  BY StepInv
<1> QED
  BY <1>1, <1>2, PTL DEF Spec

(* Type correctness.                                                       *)
THEOREM TypeCorrect == Spec => []TypeOK
<1>1. IInv => TypeOK
  BY DEF IInv
<1> QED
  BY <1>1, Invariant, PTL

(* In every supported configuration, whatever the number of ranks and of   *)
(* steps, update_actor trains on a batch sampled with the parameters the   *)
(* actor holds, on every rank and with no KV block of an older policy.     *)
THEOREM OnPolicy == Spec => [](Supported => OnPolicyBatch)
<1>1. IInv => (Supported => OnPolicyBatch)
  BY HybridAssumption DEF IInv, CallInv, PolicyInv, EngineInv, SampledFresh,
         ScoredFresh, OnPolicyBatch
<1> QED
  BY <1>1, Invariant, PTL

(* The engine's memory and the actor's are never on the GPU together.      *)
THEOREM Room == Spec => []RoomForCache
<1>1. IInv => RoomForCache
  BY DEF IInv, RoomInv, RoomForCache
<1> QED
  BY <1>1, Invariant, PTL

(* Training and generation each continue their own random stream.          *)
THEOREM StreamsKept == Spec => []StreamsContinue
<1>1. IInv => StreamsContinue
  BY DEF IInv, TypeOK, CallInv, StreamInv, StreamsContinue, Calls
<1> QED
  BY <1>1, Invariant, PTL

-----------------------------------------------------------------------------
(* The ranks meet at every collective *)

(* Unless the driver is between two calls, a rank has a step of its own, or *)
(* all ranks have come to one and the same collective, or are done.        *)
RanksMeet ==
  \/ call = "fit"
  \/ \E r \in Ranks : pc[r] \in {"offload", "resume", "kv", "sleep", "unload"}
  \/ \E at \in {"gather", "base", "weights", "rollout", "release", "done"} :
       \A r \in Ranks : pc[r] = at
  \/ call # "generate" /\ \A r \in Ranks : pc[r] = "compute"

(* Between two collectives the ranks are in the same section of the call.  *)
Sections ==
  {{"ready"}, {"gather"}, {"offload", "resume", IF NeedsBase THEN "base" ELSE "weights"},
   {"weights"}, {"kv", "rollout"}, {"release"}, {"sleep", "done"}, {"compute"},
   {"unload", "done"}}

SectionInv == \E part \in Sections : \A r \in Ranks : pc[r] \in part

(* A rank's own steps stay within a section.                               *)
LEMMA StaysInSection ==
  ASSUME SectionInv, pc \in [Ranks -> Pcs], NEW r \in Ranks, RankStep(r)
  PROVE  SectionInv'
<1>1. PICK part \in Sections : \A q \in Ranks : pc[q] \in part
  BY DEF SectionInv
<1>2. PICK from, to : /\ Advance(r, from, to)
                      /\ \/ from = "offload" /\ to = "resume"
                         \/ from = "resume" /\ to = IF NeedsBase THEN "base" ELSE "weights"
                         \/ from = "kv" /\ to = "rollout"
                         \/ from \in {"sleep", "unload"} /\ to = "done"
  BY DEF RankStep, Offload, ResumeWeights, ResumeKv, TrainerMode, Unload
<1>3. to \in part
  BY <1>1, <1>2 DEF Sections, Advance
<1>4. \A q \in Ranks : pc'[q] \in part
  BY <1>1, <1>2, <1>3 DEF Advance
<1>5. UNCHANGED cfg
  BY DEF RankStep, Offload, ResumeWeights, ResumeKv, TrainerMode, Unload, driverVars
<1>6. Sections' = Sections
  BY <1>5 DEF Sections, NeedsBase
<1> QED BY <1>4, <1>6 DEF SectionInv

(* A collective takes them all to the next.                                *)
LEMMA MeetsInSection ==
  ASSUME NEW to, to \in {"ready", "gather", "offload", "weights", "kv", "rollout", "release",
                         "sleep", "done", "compute", "unload"},
         pc' = [r \in Ranks |-> to]
  PROVE  SectionInv'
<1>1. \E part \in Sections' : to \in part
  BY DEF Sections
<1> QED BY <1>1 DEF SectionInv

LEMMA StepSectionInv == IInv /\ SectionInv /\ [Next]_vars => SectionInv'
<1> SUFFICES ASSUME IInv, SectionInv, [Next]_vars PROVE SectionInv'
  OBVIOUS
<1>1. CASE Call
  <2>1. pc' = [r \in Ranks |->
                 IF next = "generate" THEN IF Switches THEN "gather" ELSE "rollout"
                 ELSE "compute"]
    BY <1>1 DEF Call
  <2> QED BY <2>1, MeetsInSection
<1>2. CASE Return
  BY <1>2, MeetsInSection DEF Return
<1>3. CASE RolloutStep
  BY <1>3, MeetsInSection
  DEF RolloutStep, Gather, UpdateBase, UpdateWeights, Generate, ResetPrefixCache, Together
<1>4. CASE ActorStep
  BY <1>4, MeetsInSection DEF ActorStep, LogProb, RefLogProb, Update, Load, Save, Together
<1>5. CASE \E r \in Ranks : RankStep(r)
  BY <1>5, StaysInSection DEF IInv, TypeOK
<1>6. CASE UNCHANGED <<pc, cfg>>
  BY <1>6 DEF SectionInv, Sections, NeedsBase
<1> QED BY <1>1, <1>2, <1>3, <1>4, <1>5, <1>6 DEF Next, Finished, vars, driverVars

(* Whatever the mode, the sleep level, the adapter or the offloading: no    *)
(* rank waits in a gather, an update of the engine's weights, a generation *)
(* or a call on the actor for one that is elsewhere.                       *)
THEOREM RanksAlwaysMeet == Spec => []RanksMeet
<1>1. Init => SectionInv
  BY DEF Init, SectionInv, Sections
<1>2. ASSUME IInv, SectionInv PROVE RanksMeet
  <2> SUFFICES ASSUME call # "fit" PROVE RanksMeet
    BY DEF RanksMeet
  <2>1. \A r \in Ranks : pc[r] # "ready" /\ (pc[r] = "compute" => call # "generate")
    BY <1>2 DEF IInv, TypeOK, CallInv, Before, After
  <2>2. PICK part \in Sections : \A r \in Ranks : pc[r] \in part
    BY <1>2 DEF SectionInv
  <2>3. PICK q \in Ranks : TRUE
    BY HybridAssumption
  <2> QED BY <2>1, <2>2, <2>3 DEF RanksMeet, Sections
<1> QED BY <1>1, <1>2, InitInv, StepInv, StepSectionInv, PTL DEF Spec
==============================================================================
