-------------------------- MODULE ToolAgentLoop_proofs -------------------------
(* Proofs about ToolAgentLoop, for any number of conversations, of calls per *)
(* turn, of threads and of permits, and for all the settings of a worker.    *)
EXTENDS ToolAgentLoop, FiniteSetTheorems, SequenceTheorems, TLAPS

Searching == {s \in Slots : call[s].at = "searching"}

(* Types, of a conversation's record only what its calls depend on.           *)
Tries == 0 .. MaxRetries - 1

CallType ==
  /\ DOMAIN conv = Conversations
  /\ \A c \in Conversations : "state" \in DOMAIN conv[c]
  /\ call \in [Slots -> [at : Stages, tries : Tries]]
  /\ permits \in Nat /\ releases \in Nat

(* Calls are under way only in the turn that made them.                      *)
IdleConv == \A s \in Slots : conv[s[1]].state # "tools" => call[s].at = "none"

(* A call is in the limiter's queue once, while it waits for a permit.       *)
QueueInv ==
  /\ acquires \in Seq(Slots)
  /\ \A i \in 1 .. Len(acquires) : call[acquires[i]].at = "acquiring"
  /\ \A i, j \in 1 .. Len(acquires) : acquires[i] = acquires[j] => i = j

(* Every permit is in the limiter, with a search, or on its way back.        *)
PermitInv == permits + Cardinality(Searching) + releases = RateLimit

LimiterInv == CallType /\ IdleConv /\ QueueInv /\ PermitInv

-----------------------------------------------------------------------------
(* The slots are finitely many, and so are the searches.                     *)
LEMMA SearchingFinite == IsFiniteSet(Searching) /\ Cardinality(Searching) \in Nat
<1>1. IsFiniteSet(Calls)
  BY LengthAssumption, FS_Interval DEF Calls
<1>2. IsFiniteSet(Slots)
  BY <1>1, BoundAssumption, FS_Product DEF Slots
<1>3. QED
  BY <1>2, FS_Subset, FS_CardinalityType DEF Searching

(* A step that leaves the same calls searching keeps their number.           *)
LEMMA SameSearches ==
  ASSUME \A s \in Slots : call'[s].at = "searching" <=> call[s].at = "searching"
  PROVE  Searching' = Searching
BY DEF Searching, Slots, Calls

(* A step that starts one search adds one to their number.                   *)
LEMMA SearchStarts ==
  ASSUME NEW s \in Slots, call[s].at # "searching", call'[s].at = "searching",
         \A t \in Slots \ {s} : call'[t] = call[t]
  PROVE  Cardinality(Searching') = Cardinality(Searching) + 1
<1>1. Searching' = Searching \cup {s} /\ s \notin Searching
  BY DEF Searching, Slots, Calls
<1>2. QED
  BY <1>1, SearchingFinite, FS_AddElement

(* A step that ends one search takes one from their number.                  *)
LEMMA SearchLeaves ==
  ASSUME NEW s \in Slots, call[s].at = "searching", call'[s].at # "searching",
         \A t \in Slots \ {s} : call'[t] = call[t]
  PROVE  Cardinality(Searching') = Cardinality(Searching) - 1
<1>1. Searching' = Searching \ {s} /\ s \in Searching
  BY DEF Searching, Slots, Calls
<1>2. QED
  BY <1>1, SearchingFinite, FS_RemoveElement

(* The queue is kept by a step that changes it not, nor any call in it.      *)
LEMMA SameQueue ==
  ASSUME QueueInv, UNCHANGED acquires,
         \A s \in Slots : call[s].at = "acquiring" => call'[s].at = "acquiring"
  PROVE  QueueInv'
BY DEF QueueInv

-----------------------------------------------------------------------------
LEMMA LimiterInit == Init => LimiterInv
<1> SUFFICES ASSUME Init PROVE LimiterInv
  OBVIOUS
<1>1. CallType
  BY PoolAssumption DEF Init, CallType, NewConversation, NoCall, Stages, Tries
<1>2. IdleConv
  BY DEF Init, IdleConv, NoCall, Slots
<1>3. QueueInv
  BY EmptySeq DEF Init, QueueInv
<1>4. PermitInv
  <2>1. Searching = {}
    BY DEF Init, Searching, NoCall
  <2>2. QED
    BY <2>1, FS_EmptySet, PoolAssumption DEF Init, PermitInv
<1>5. QED
  BY <1>1, <1>2, <1>3, <1>4 DEF LimiterInv

(* A step of a conversation that makes no call leaves the limiter as it is:  *)
(* its slots are empty, or are all answered and then emptied.                *)
LEMMA QuietStep ==
  ASSUME LimiterInv, NEW c \in Conversations,
         call' \in [Slots -> [at : Stages, tries : Tries]],
         \A s \in Slots : call[s].at \in {"acquiring", "searching"} => call'[s] = call[s],
         \A s \in Slots : call'[s].at = "searching" => call[s].at = "searching",
         DOMAIN conv' = Conversations,
         \A d \in Conversations \ {c} : conv'[d] = conv[d],
         "state" \in DOMAIN conv'[c],
         \A s \in Slots : IF s[1] = c THEN conv'[c].state # "tools" => call'[s].at = "none"
                         ELSE call'[s] = call[s],
         LimiterUnchanged
  PROVE  LimiterInv'
<1>1. CallType'
  BY DEF CallType, LimiterInv, LimiterUnchanged
<1>2. IdleConv'
  BY DEF IdleConv, LimiterInv, Slots
<1>3. QueueInv'
  BY SameQueue DEF LimiterInv, LimiterUnchanged
<1>4. PermitInv'
  BY SameSearches DEF PermitInv, LimiterInv, LimiterUnchanged
<1>5. QED
  BY <1>1, <1>2, <1>3, <1>4 DEF LimiterInv

LEMMA LimiterConversation ==
  ASSUME LimiterInv, NEW c \in Conversations, Conversation(c)
  PROVE  LimiterInv'
<1> USE DEF LimiterInv, CallType, IdleConv, Slots, Become, Stages, NoCall
<1>0. 0 \in Tries
  BY PoolAssumption DEF Tries
<1>1. CASE Begin(c)
  BY <1>1, QuietStep DEF Begin
<1>2. ASSUME NEW n \in 0 .. MaxReply, NEW k \in 0 .. MaxCalls, Generate(c, n, k)
      PROVE  LimiterInv'
  <2> DEFINE d == [conv[c] EXCEPT !.ids = @ \o Copies(n, "assistant"),
                                  !.mask = @ \o Copies(n, 1),
                                  !.logprobs = IF setting.logprobs
                                               THEN @ \o Copies(n, "model") ELSE @,
                                  !.assistantTurns = @ + 1]
             next == IF Ends(d) THEN "terminated"
                     ELSE IF k > 0 THEN "tools"
                     ELSE IF setting.interaction THEN "interacting" ELSE "terminated"
  <2>1. /\ conv' = [conv EXCEPT ![c] = [d EXCEPT !.state = next]]
        /\ call' = [s \in Slots |-> IF s[1] = c /\ next = "tools" /\ s[2] <= k
                                    THEN [NoCall EXCEPT !.at = "new"] ELSE call[s]]
        /\ LimiterUnchanged
    BY ONLY <1>2 DEF Generate, Become
  <2>3. "state" \in DOMAIN d
    OBVIOUS
  <2> HIDE DEF d, next
  <2>2. conv[c].state = "generating"
    BY <1>2 DEF Generate
  <2> QED BY <1>0, <2>1, <2>2, <2>3, QuietStep
<1>3. CASE NoRoom(c)
  BY <1>3, QuietStep DEF NoRoom
<1>4. ASSUME NEW n \in 1 .. MaxAnswer, NEW images \in 0 .. 1, ProcessTools(c, n, images)
      PROVE  LimiterInv'
  BY <1>0, <1>4, QuietStep DEF ProcessTools, Answered, Append0
<1>5. ASSUME NEW n \in 1 .. MaxAnswer, Interact(c, n)
      PROVE  LimiterInv'
  BY <1>5, QuietStep DEF Interact, Append0
<1>6. QED
  BY <1>1, <1>2, <1>3, <1>4, <1>5 DEF Conversation

-----------------------------------------------------------------------------
(* What every step of a call or of the limiter keeps: the conversations, and *)
(* that a call under way stays under way.                                    *)
LEMMA CallStep ==
  ASSUME LimiterInv, UNCHANGED conv, NEW s \in Slots, call[s].at # "none",
         NEW at \in Stages, NEW n \in Tries,
         call' = [call EXCEPT ![s] = [at |-> at, tries |-> n]],
         permits' \in Nat, releases' \in Nat
  PROVE  CallType' /\ IdleConv'
BY DEF LimiterInv, CallType, IdleConv, Slots

LEMMA Restaged ==
  ASSUME LimiterInv, NEW s \in Slots, NEW at, Stage(s, at)
  PROVE  call' = [call EXCEPT ![s] = [at |-> at, tries |-> call[s].tries]]
<1>1. call[s] = [at |-> call[s].at, tries |-> call[s].tries]
  BY DEF LimiterInv, CallType
<1>2. [call[s] EXCEPT !.at = at] = [at |-> at, tries |-> call[s].tries]
  BY <1>1
<1>3. QED
  BY <1>2 DEF Stage

LEMMA LimiterToolCall ==
  ASSUME LimiterInv, NEW s \in Slots, ToolCall(s)
  PROVE  LimiterInv'
<1> USE DEF LimiterInv, LimiterUnchanged
<1>0. /\ call \in [Slots -> [at : Stages, tries : Tries]]
      /\ permits \in Nat /\ releases \in Nat
      /\ call[s].tries \in Tries
      /\ {"answered", "pooled", "acquiring", "returned", "searching"} \subseteq Stages
  BY DEF CallType, Stages
<1>1. CASE StartCall(s) \/ ReleaseInstance(s)
  <2>1. PICK at \in {"answered", "pooled"} :
          call' = [call EXCEPT ![s] = [at |-> at, tries |-> call[s].tries]]
    BY <1>1, Restaged DEF StartCall, ReleaseInstance
  <2>2. call[s].at \in {"new", "returned"} /\ UNCHANGED <<conv, permits, acquires, releases>>
    BY <1>1 DEF StartCall, ReleaseInstance
  <2>3. CallType' /\ IdleConv'
    BY <1>0, <2>1, <2>2, CallStep
  <2>4. QueueInv'
    BY <1>0, <2>1, <2>2, SameQueue
  <2>5. PermitInv'
    BY <1>0, <2>1, <2>2, SameSearches DEF PermitInv
  <2>6. QED
    BY <2>3, <2>4, <2>5
<1>2. CASE TakeThread(s)
  <2>1. call' = [call EXCEPT ![s] = [at |-> "acquiring", tries |-> call[s].tries]]
    BY <1>2, Restaged DEF TakeThread
  <2>2. call[s].at = "pooled" /\ acquires' = Append(acquires, s) /\ UNCHANGED <<conv, permits, releases>>
    BY <1>2 DEF TakeThread
  <2>3. CallType' /\ IdleConv'
    BY <1>0, <2>1, <2>2, CallStep
  <2>4. QueueInv'
    <3>1. acquires \in Seq(Slots) /\ acquires' \in Seq(Slots) /\ Len(acquires') = Len(acquires) + 1
      BY <2>2, AppendProperties DEF QueueInv
    <3>2. \A i \in 1 .. Len(acquires) : acquires'[i] = acquires[i] /\ acquires[i] \in Slots
      BY <2>2, AppendProperties DEF QueueInv
    <3>3. acquires'[Len(acquires')] = s
      BY <2>2, AppendProperties DEF QueueInv
    <3>4. \A i \in 1 .. Len(acquires) : acquires[i] # s
      BY <2>2 DEF QueueInv
    <3>5. Len(acquires) \in Nat
      BY <3>1, LenProperties
    <3>6. \A i \in 1 .. Len(acquires') : call'[acquires'[i]].at = "acquiring"
      BY <1>0, <2>1, <3>1, <3>2, <3>3, <3>4, <3>5 DEF QueueInv
    <3>7. ASSUME NEW i \in 1 .. Len(acquires'), NEW j \in 1 .. Len(acquires'),
                 acquires'[i] = acquires'[j]
          PROVE  i = j
      BY <3>1, <3>2, <3>3, <3>4, <3>5, <3>7 DEF QueueInv
    <3>8. QED
      BY <3>1, <3>6, <3>7 DEF QueueInv
  <2>5. PermitInv'
    BY <1>0, <2>1, <2>2, SameSearches DEF PermitInv
  <2>6. QED
    BY <2>3, <2>4, <2>5
<1>3. CASE SearchEnds(s) \/ (SearchFails(s) /\ ~(call[s].tries + 1 < MaxRetries))
  <2>1. call' = [call EXCEPT ![s] = [at |-> "returned", tries |-> call[s].tries]]
    BY <1>3, Restaged DEF SearchEnds, SearchFails, LeavePool
  <2>2. call[s].at = "searching" /\ releases' = releases + 1 /\ UNCHANGED <<conv, permits, acquires>>
    BY <1>3 DEF SearchEnds, SearchFails, LeavePool
  <2>3. CallType' /\ IdleConv'
    <3>1. permits' \in Nat /\ releases' \in Nat
      BY <1>0, <2>2
    <3>2. QED
      BY ONLY <1>0, <2>1, <2>2, <3>1, CallStep, LimiterInv, s \in Slots
  <2>4. QueueInv'
    BY <1>0, <2>1, <2>2, SameQueue
  <2>5. Cardinality(Searching') = Cardinality(Searching) - 1
    BY <1>0, <2>1, <2>2, SearchLeaves
  <2>6. PermitInv'
    BY <1>0, <2>2, <2>5, SearchingFinite, PoolAssumption DEF PermitInv
  <2>7. QED
    BY <2>3, <2>4, <2>6
<1>4. CASE SearchFails(s) /\ call[s].tries + 1 < MaxRetries
  <2>1. call' = [call EXCEPT ![s] = [at |-> "searching", tries |-> call[s].tries + 1]]
    BY <1>0, <1>4 DEF SearchFails
  <2>2. call[s].at = "searching" /\ UNCHANGED <<conv, permits, acquires, releases>>
    BY <1>4 DEF SearchFails
  <2>3. CallType' /\ IdleConv'
    <3>1. /\ permits' \in Nat /\ releases' \in Nat
          /\ call[s].tries + 1 \in Tries /\ call[s].at # "none"
      BY <1>0, <1>4, <2>2, PoolAssumption DEF Tries
    <3>2. QED
      BY ONLY <1>0, <2>1, <2>2, <3>1, CallStep, LimiterInv, s \in Slots
  <2>4. QueueInv'
    BY <1>0, <2>1, <2>2, SameQueue
  <2>5. PermitInv'
    BY <1>0, <2>1, <2>2, SameSearches DEF PermitInv
  <2>6. QED
    BY <2>3, <2>4, <2>5
<1>5. QED
  BY <1>1, <1>2, <1>3, <1>4 DEF ToolCall

LEMMA LimiterLimiter ==
  ASSUME LimiterInv, Limiter
  PROVE  LimiterInv'
<1> USE DEF LimiterInv
<1>1. CASE Acquire
  <2> DEFINE s == Head(acquires)
  <2>1. /\ acquires \in Seq(Slots) /\ acquires # <<>> /\ Len(acquires) \in Nat \ {0}
        /\ s \in Slots /\ s = acquires[1]
        /\ acquires' \in Seq(Slots) /\ Len(acquires') = Len(acquires) - 1
        /\ \A i \in 1 .. Len(acquires') : acquires'[i] = acquires[i + 1]
    BY <1>1, HeadTailProperties, EmptySeq DEF Acquire, QueueInv
  <2>2. call[s].at = "acquiring" /\ call[s].tries \in Tries
    BY <2>1 DEF QueueInv, CallType
  <2>3. call' = [call EXCEPT ![s] = [at |-> "searching", tries |-> call[s].tries]]
    BY <1>1, <2>1, Restaged DEF Acquire
  <2>4. permits > 0 /\ permits' = permits - 1 /\ UNCHANGED <<conv, releases>>
    BY <1>1 DEF Acquire
  <2>5. call \in [Slots -> [at : Stages, tries : Tries]] /\ permits \in Nat /\ releases \in Nat
    BY DEF CallType
  <2> HIDE DEF s
  <2>6. CallType' /\ IdleConv'
    <3>1. permits' \in Nat /\ releases' \in Nat /\ "searching" \in Stages
      BY <2>4, <2>5 DEF Stages
    <3>2. QED
      BY ONLY <2>1, <2>2, <2>3, <2>4, <3>1, CallStep, LimiterInv
  <2>7. QueueInv'
    <3>1. \A i \in 1 .. Len(acquires') : acquires'[i] # s
      BY <2>1 DEF QueueInv
    <3>2. \A i \in 1 .. Len(acquires') : acquires'[i] \in Slots /\ call[acquires'[i]].at = "acquiring"
      BY SMTT(30), <2>1 DEF QueueInv
    <3>3. \A i, j \in 1 .. Len(acquires') : acquires'[i] = acquires'[j] => i = j
      BY <2>1 DEF QueueInv
    <3>4. QED
      BY <2>1, <2>3, <2>5, <3>1, <3>2, <3>3 DEF QueueInv
  <2>8. Cardinality(Searching') = Cardinality(Searching) + 1
    BY <2>1, <2>2, <2>3, <2>5, SearchStarts
  <2>9. PermitInv'
    BY <2>4, <2>5, <2>8, SearchingFinite, PoolAssumption DEF PermitInv
  <2>10. QED
    BY <2>6, <2>7, <2>9
<1>2. CASE Release
  <2>1. CallType'
    BY <1>2 DEF Release, CallType
  <2>2. IdleConv' /\ QueueInv'
    BY <1>2, SameQueue DEF Release, IdleConv
  <2>3. Searching' = Searching
    BY <1>2, SameSearches DEF Release
  <2>4. PermitInv'
    BY <1>2, <2>3, SearchingFinite, PoolAssumption DEF Release, PermitInv, CallType
  <2>5. QED
    BY <2>1, <2>2, <2>4
<1>3. QED
  BY <1>1, <1>2 DEF Limiter

-----------------------------------------------------------------------------
(* Each step keeps the limiter's invariant.                                  *)
THEOREM LimiterInvariant == Spec => []LimiterInv
<1>1. ASSUME LimiterInv, [Next]_vars PROVE LimiterInv'
  <2>1. CASE UNCHANGED vars
    BY <1>1, <2>1 DEF vars, LimiterInv, CallType, IdleConv, QueueInv, PermitInv, Searching
  <2>2. CASE Terminated
    BY <2>1, <2>2 DEF Terminated
  <2>3. QED
    BY <1>1, <2>1, <2>2, LimiterConversation, LimiterToolCall, LimiterLimiter DEF Next
<1>2. QED
  BY <1>1, LimiterInit, PTL DEF Spec

(* RateRespected: whatever the conversations, their tool calls and the two   *)
(* concurrency groups of the limiter do, there are never more searches than  *)
(* permits, and no permit is lost or made up.                                *)
THEOREM RateIsRespected == Spec => []RateRespected
<1>1. ASSUME LimiterInv PROVE RateRespected
  BY <1>1, SearchingFinite, PoolAssumption
  DEF LimiterInv, CallType, PermitInv, RateRespected, Searching
<1>2. QED
  BY <1>1, LimiterInvariant, PTL

-----------------------------------------------------------------------------
(* The tokens of a conversation.                                             *)

Bits == {0, 1}
Logs == {"model", "zero"}

Data == [state : States, ids : Seq(Kinds), mask : Seq(Bits), logprobs : Seq(Logs),
         images : Nat, imageTokens : Nat, userTurns : Nat, assistantTurns : Nat]

(* After the prompt, one bit of the mask for every token, 1 on the model's.  *)
MaskAligned(ids, mask) ==
  /\ Len(ids) = PromptTokens + Len(mask)
  /\ \A i \in 1 .. PromptTokens : ids[i] = "prompt"
  /\ \A i \in 1 .. Len(mask) : mask[i] = 1 <=> ids[PromptTokens + i] = "assistant"

LogsAligned(mask, logprobs) ==
  /\ Len(logprobs) = Len(mask)
  /\ \A i \in 1 .. Len(mask) : logprobs[i] = IF mask[i] = 1 THEN "model" ELSE "zero"

(* Room: without a user and without a token kept back, the response is full  *)
(* only when the conversation is over.                                       *)
ConvInv(d) ==
  /\ d \in Data
  /\ d.state = "pending" => d.mask = <<>> /\ d.logprobs = <<>> /\ d.images = d.imageTokens
  /\ d.state # "pending" => MaskAligned(d.ids, d.mask)
  /\ setting.logprobs => LogsAligned(d.mask, d.logprobs)
  /\ d.state \in {"tools", "interacting", "terminated"} => Len(d.mask) > 0
  /\ d.state = "generating" /\ ~setting.interaction => Len(d.mask) < ResponseLength
  /\ d.state = "interacting" => setting.interaction
  /\ d.imageTokens <= d.images
  /\ d.state \notin {"terminated", "raised"} => d.imageTokens = d.images

ConvsInv ==
  /\ setting \in Setting
  /\ conv \in [Conversations -> Data]
  /\ \A c \in Conversations : ConvInv(conv[c])

(* What a sequence is after n more of the same.                              *)
More(s, n, x) == s \o Copies(n, x)

LEMMA MoreIs ==
  ASSUME NEW S, NEW s \in Seq(S), NEW n \in Nat, NEW x \in S
  PROVE  /\ More(s, n, x) \in Seq(S)
         /\ Len(More(s, n, x)) = Len(s) + n
         /\ \A i \in 1 .. Len(s) + n :
              More(s, n, x)[i] = IF i <= Len(s) THEN s[i] ELSE x
<1>1. /\ Copies(n, x) \in Seq(S) /\ Len(Copies(n, x)) = n
      /\ \A i \in 1 .. n : Copies(n, x)[i] = x
  BY DEF Copies
<1>2. Len(s) \in Nat
  BY LenProperties
<1> DEFINE t == Copies(n, x)
<1> HIDE DEF t
<1>3. t \in Seq(S) /\ Len(t) = n /\ \A i \in 1 .. n : t[i] = x
  BY <1>1 DEF t
<1>4. /\ s \o t \in Seq(S) /\ Len(s \o t) = Len(s) + Len(t)
      /\ \A i \in 1 .. Len(s) + Len(t) : (s \o t)[i] = IF i <= Len(s) THEN s[i] ELSE t[i - Len(s)]
  BY ONLY <1>3, ConcatProperties, s \in Seq(S)
<1>5. \A i \in 1 .. Len(s) + n : (s \o t)[i] = IF i <= Len(s) THEN s[i] ELSE x
  BY ONLY <1>2, <1>3, <1>4, n \in Nat
<1>6. QED
  BY <1>2, <1>3, <1>4, <1>5 DEF t, More

LEMMA PromptAligned ==
  /\ Copies(PromptTokens, "prompt") \in Seq(Kinds)
  /\ MaskAligned(Copies(PromptTokens, "prompt"), <<>>)
BY LengthAssumption DEF Copies, MaskAligned, Kinds

(* n tokens of a kind, and n bits that tell whether it is the model's.       *)
LEMMA MaskGrows ==
  ASSUME NEW ids \in Seq(Kinds), NEW mask \in Seq(Bits), MaskAligned(ids, mask),
         NEW n \in Nat, NEW kind \in Kinds, NEW bit \in Bits, bit = 1 <=> kind = "assistant"
  PROVE  MaskAligned(More(ids, n, kind), More(mask, n, bit))
<1> DEFINE ids2 == More(ids, n, kind)
           mask2 == More(mask, n, bit)
<1>1. /\ Len(ids2) = Len(ids) + n
      /\ \A i \in 1 .. Len(ids) + n : ids2[i] = IF i <= Len(ids) THEN ids[i] ELSE kind
  <2>1. Len(ids2) = Len(ids) + n
    BY ONLY ZenonT(30), MoreIs, ids \in Seq(Kinds), n \in Nat, kind \in Kinds
  <2>2. ASSUME NEW i \in 1 .. Len(ids) + n
        PROVE  ids2[i] = IF i <= Len(ids) THEN ids[i] ELSE kind
    BY ONLY MoreIs, ids \in Seq(Kinds), n \in Nat, kind \in Kinds, i \in 1 .. Len(ids) + n
  <2>3. QED
    BY <2>1, <2>2
<1>2. /\ Len(mask2) = Len(mask) + n
      /\ \A i \in 1 .. Len(mask) + n : mask2[i] = IF i <= Len(mask) THEN mask[i] ELSE bit
  <2>1. Len(mask2) = Len(mask) + n
    BY ONLY ZenonT(30), MoreIs, mask \in Seq(Bits), n \in Nat, bit \in Bits
  <2>2. ASSUME NEW i \in 1 .. Len(mask) + n
        PROVE  mask2[i] = IF i <= Len(mask) THEN mask[i] ELSE bit
    BY ONLY MoreIs, mask \in Seq(Bits), n \in Nat, bit \in Bits, i \in 1 .. Len(mask) + n
  <2>3. QED
    BY <2>1, <2>2
<1>3. Len(ids) \in Nat /\ Len(mask) \in Nat /\ PromptTokens \in Nat
  BY LenProperties, LengthAssumption
<1> HIDE DEF ids2, mask2
<1>4. Len(ids2) = PromptTokens + Len(mask2)
  BY <1>1, <1>2, <1>3 DEF MaskAligned
<1>5. \A i \in 1 .. PromptTokens : ids2[i] = "prompt"
  BY <1>1, <1>3 DEF MaskAligned
<1>6. ASSUME NEW i \in 1 .. Len(mask2)
      PROVE  mask2[i] = 1 <=> ids2[PromptTokens + i] = "assistant"
  <2>1. CASE i <= Len(mask)
    BY <1>1, <1>2, <1>3, <2>1 DEF MaskAligned
  <2>2. CASE i > Len(mask)
    BY <1>1, <1>2, <1>3, <2>2 DEF MaskAligned
  <2>3. QED
    BY <1>2, <1>3, <2>1, <2>2
<1>7. MaskAligned(ids2, mask2)
  BY <1>4, <1>5, <1>6 DEF MaskAligned
<1>8. QED
  BY <1>7 DEF ids2, mask2

LEMMA LogsGrow ==
  ASSUME NEW mask \in Seq(Bits), NEW logprobs \in Seq(Logs),
         LogsAligned(mask, logprobs), NEW n \in Nat, NEW bit \in Bits,
         NEW x \in Logs, x = IF bit = 1 THEN "model" ELSE "zero"
  PROVE  LogsAligned(More(mask, n, bit), More(logprobs, n, x))
<1> DEFINE mask2 == More(mask, n, bit)
           logs2 == More(logprobs, n, x)
<1>1. /\ Len(logs2) = Len(logprobs) + n
      /\ \A i \in 1 .. Len(logprobs) + n : logs2[i] = IF i <= Len(logprobs) THEN logprobs[i] ELSE x
  <2>1. Len(logs2) = Len(logprobs) + n
    BY ONLY ZenonT(30), MoreIs, logprobs \in Seq(Logs), n \in Nat, x \in Logs
  <2>2. ASSUME NEW i \in 1 .. Len(logprobs) + n
        PROVE  logs2[i] = IF i <= Len(logprobs) THEN logprobs[i] ELSE x
    BY ONLY MoreIs, logprobs \in Seq(Logs), n \in Nat, x \in Logs, i \in 1 .. Len(logprobs) + n
  <2>3. QED
    BY <2>1, <2>2
<1>2. /\ Len(mask2) = Len(mask) + n
      /\ \A i \in 1 .. Len(mask) + n : mask2[i] = IF i <= Len(mask) THEN mask[i] ELSE bit
  <2>1. Len(mask2) = Len(mask) + n
    BY ONLY ZenonT(30), MoreIs, mask \in Seq(Bits), n \in Nat, bit \in Bits
  <2>2. ASSUME NEW i \in 1 .. Len(mask) + n
        PROVE  mask2[i] = IF i <= Len(mask) THEN mask[i] ELSE bit
    BY ONLY MoreIs, mask \in Seq(Bits), n \in Nat, bit \in Bits, i \in 1 .. Len(mask) + n
  <2>3. QED
    BY <2>1, <2>2
<1>3. Len(mask) \in Nat /\ Len(logprobs) = Len(mask)
  BY LenProperties DEF LogsAligned
<1> HIDE DEF logs2, mask2
<1>4. ASSUME NEW i \in 1 .. Len(mask2)
      PROVE  logs2[i] = IF mask2[i] = 1 THEN "model" ELSE "zero"
  <2>1. CASE i <= Len(mask)
    BY <1>1, <1>2, <1>3, <2>1 DEF LogsAligned
  <2>2. CASE i > Len(mask)
    BY <1>1, <1>2, <1>3, <2>2
  <2>3. QED
    BY <1>2, <1>3, <2>1, <2>2
<1>5. LogsAligned(mask2, logs2)
  BY <1>1, <1>2, <1>3, <1>4 DEF LogsAligned
<1>6. QED
  BY <1>5 DEF logs2, mask2

(* A conversation whose tokens have grown by n of a kind.                    *)
LEMMA Grown ==
  ASSUME setting \in Setting, NEW d, ConvInv(d), d.state # "pending",
         NEW n \in Nat, NEW kind \in Kinds, NEW e,
         e.ids = More(d.ids, n, kind),
         e.mask = More(d.mask, n, IF kind = "assistant" THEN 1 ELSE 0),
         \/ e.logprobs = More(d.logprobs, n, IF kind = "assistant" THEN "model" ELSE "zero")
         \/ e.logprobs = d.logprobs /\ ~setting.logprobs
  PROVE  /\ e.ids \in Seq(Kinds) /\ e.mask \in Seq(Bits) /\ e.logprobs \in Seq(Logs)
         /\ MaskAligned(e.ids, e.mask)
         /\ setting.logprobs => LogsAligned(e.mask, e.logprobs)
         /\ Len(e.mask) = Len(d.mask) + n /\ Len(d.mask) \in Nat
<1> DEFINE bit == IF kind = "assistant" THEN 1 ELSE 0
           x == IF kind = "assistant" THEN "model" ELSE "zero"
<1>1. /\ d.ids \in Seq(Kinds) /\ d.mask \in Seq(Bits) /\ d.logprobs \in Seq(Logs)
      /\ MaskAligned(d.ids, d.mask)
      /\ setting.logprobs => LogsAligned(d.mask, d.logprobs)
  BY DEF ConvInv, Data
<1>2. /\ bit \in Bits /\ x \in Logs
      /\ bit = 1 <=> kind = "assistant"
      /\ x = IF bit = 1 THEN "model" ELSE "zero"
  BY DEF Bits, Logs
<1> HIDE DEF bit, x
<1>3. e.mask = More(d.mask, n, bit)
  BY DEF bit
<1>4. \/ e.logprobs = More(d.logprobs, n, x)
      \/ e.logprobs = d.logprobs /\ ~setting.logprobs
  BY DEF x
<1>5. e.ids \in Seq(Kinds)
  BY ONLY <1>1, MoreIs, n \in Nat, kind \in Kinds, e.ids = More(d.ids, n, kind)
<1>6. e.mask \in Seq(Bits) /\ Len(e.mask) = Len(d.mask) + n
  BY ONLY <1>1, <1>2, <1>3, MoreIs, n \in Nat
<1>7. e.logprobs \in Seq(Logs)
  <2>1. More(d.logprobs, n, x) \in Seq(Logs)
    BY ONLY <1>1, <1>2, MoreIs, n \in Nat
  <2>2. QED
    BY <1>1, <1>4, <2>1
<1>8. MaskAligned(e.ids, e.mask)
  BY ONLY <1>1, <1>2, <1>3, MaskGrows, n \in Nat, kind \in Kinds, e.ids = More(d.ids, n, kind)
<1>9. setting.logprobs => LogsAligned(e.mask, e.logprobs)
  BY ONLY <1>1, <1>2, <1>3, <1>4, LogsGrow, n \in Nat
<1>10. QED
  BY <1>1, <1>5, <1>6, <1>7, <1>8, <1>9, LenProperties

(* The other conversations are left alone.                                   *)
LEMMA OneConversation ==
  ASSUME ConvsInv, NEW c \in Conversations, NEW e, ConvInv(e), Become(c, e)
  PROVE  ConvsInv'
<1>1. e \in Data
  BY DEF ConvInv
<1>2. setting' = setting /\ conv' = [conv EXCEPT ![c] = e] /\ conv' \in [Conversations -> Data]
  BY <1>1 DEF ConvsInv, Become
<1>3. \A b \in Conversations : ConvInv(conv'[b])
  BY <1>2 DEF ConvsInv
<1>4. \A b \in Conversations : ConvInv(conv[b])'
  BY <1>2, <1>3 DEF ConvInv
<1>5. QED
  BY <1>2, <1>4 DEF ConvsInv

LEMMA ConvsInit == Init => ConvsInv
<1> SUFFICES ASSUME Init PROVE ConvsInv
  OBVIOUS
<1>1. NewConversation \in Data /\ <<>> \in Seq(Bits) /\ <<>> \in Seq(Logs)
  BY EmptySeq DEF NewConversation, Data, States
<1>2. LogsAligned(<<>>, <<>>)
  BY DEF LogsAligned
<1>3. ConvInv(NewConversation)
  BY <1>1, <1>2 DEF ConvInv, NewConversation
<1>4. QED
  BY <1>1, <1>3, SettingsAssumption DEF Init, ConvsInv

LEMMA BeginConv ==
  ASSUME ConvsInv, NEW c \in Conversations, Begin(c)
  PROVE  ConvsInv'
<1> DEFINE d == conv[c]
           e == [d EXCEPT !.state = "generating", !.ids = Copies(PromptTokens, "prompt")]
<1>1. ConvInv(d) /\ d \in Data /\ d.state = "pending"
  BY DEF ConvsInv, Begin
<1>2. e \in Data
  BY <1>1, PromptAligned DEF Data, States
<1>3. /\ e.state = "generating" /\ e.ids = Copies(PromptTokens, "prompt") /\ e.mask = <<>>
      /\ e.logprobs = <<>> /\ e.images = e.imageTokens /\ e.images \in Nat
  BY <1>1 DEF ConvInv, Data
<1> HIDE DEF e
<1>4. ConvInv(e)
  BY <1>2, <1>3, PromptAligned, LengthAssumption DEF ConvInv, LogsAligned
<1>5. QED
  BY <1>4, OneConversation DEF Begin, e

LEMMA GenerateConv ==
  ASSUME ConvsInv, NEW c \in Conversations, NEW n \in 0 .. MaxReply, NEW k \in 0 .. MaxCalls,
         Generate(c, n, k)
  PROVE  ConvsInv'
<1> DEFINE d == conv[c]
           New(next) ==
             [state |-> next, ids |-> More(d.ids, n, "assistant"), mask |-> More(d.mask, n, 1),
              logprobs |-> IF setting.logprobs THEN More(d.logprobs, n, "model") ELSE d.logprobs,
              images |-> d.images, imageTokens |-> d.imageTokens,
              userTurns |-> d.userTurns, assistantTurns |-> d.assistantTurns + 1]
<1>1. /\ ConvInv(d) /\ d \in Data /\ d.state = "generating"
      /\ setting \in Setting /\ n \in Nat /\ "assistant" \in Kinds
      /\ n > 0 \/ EmptyReply(d)
  BY BoundAssumption DEF ConvsInv, Generate, Kinds
<1>2. PICK next \in {"tools", "interacting", "terminated"} :
        Become(c, New(next)) /\ (next = "interacting" => setting.interaction)
  <2> DEFINE g == [d EXCEPT !.ids = @ \o Copies(n, "assistant"), !.mask = @ \o Copies(n, 1),
                            !.logprobs = IF setting.logprobs THEN @ \o Copies(n, "model") ELSE @,
                            !.assistantTurns = @ + 1]
             next == IF Ends(g) THEN "terminated"
                     ELSE IF k > 0 THEN "tools"
                     ELSE IF setting.interaction THEN "interacting" ELSE "terminated"
  <2>1. Become(c, [g EXCEPT !.state = next])
    BY DEF Generate
  <2>2. [g EXCEPT !.state = next] = New(next)
    <3> HIDE DEF next
    <3>1. /\ DOMAIN g = {"state", "ids", "mask", "logprobs", "images", "imageTokens",
                         "userTurns", "assistantTurns"}
          /\ g = [x \in DOMAIN g |-> g[x]]
      BY <1>1 DEF Data
    <3>2. /\ g.ids = d.ids \o Copies(n, "assistant") /\ g.mask = d.mask \o Copies(n, 1)
          /\ g.logprobs = IF setting.logprobs THEN d.logprobs \o Copies(n, "model") ELSE d.logprobs
          /\ g.assistantTurns = d.assistantTurns + 1 /\ g.userTurns = d.userTurns
          /\ g.images = d.images /\ g.imageTokens = d.imageTokens
      BY <1>1 DEF Data
    <3> HIDE DEF g, next
    <3>3. [g EXCEPT !.state = next] =
            [state |-> next, ids |-> g.ids, mask |-> g.mask, logprobs |-> g.logprobs,
             images |-> g.images, imageTokens |-> g.imageTokens,
             userTurns |-> g.userTurns, assistantTurns |-> g.assistantTurns]
      BY <3>1
    <3>4. QED
      BY ONLY <3>2, <3>3 DEF More
  <2>3. next \in {"tools", "interacting", "terminated"} /\ (next = "interacting" => setting.interaction)
    OBVIOUS
  <2>4. QED
    BY ONLY <2>1, <2>2, <2>3
<1> DEFINE e == New(next)
<1>3. /\ e.ids = More(d.ids, n, "assistant") /\ e.mask = More(d.mask, n, 1)
      /\ e.logprobs = IF setting.logprobs THEN More(d.logprobs, n, "model") ELSE d.logprobs
      /\ e.state = next /\ e.images = d.images /\ e.imageTokens = d.imageTokens
  OBVIOUS
<1>4. d.state # "pending" /\ d.assistantTurns \in Nat /\ d.userTurns \in Nat
      /\ d.images \in Nat /\ d.imageTokens = d.images
  BY <1>1 DEF ConvInv, Data
<1> HIDE DEF e
<1>5. /\ e.ids \in Seq(Kinds) /\ e.mask \in Seq(Bits) /\ e.logprobs \in Seq(Logs)
      /\ MaskAligned(e.ids, e.mask)
      /\ setting.logprobs => LogsAligned(e.mask, e.logprobs)
      /\ Len(e.mask) = Len(d.mask) + n /\ Len(d.mask) \in Nat
  BY <1>1, <1>3, <1>4, Grown
<1>6. Len(e.mask) > 0
  <2>1. CASE n > 0
    BY <1>1, <1>5, <2>1
  <2>2. CASE EmptyReply(d)
    <3>1. Len(d.ids) = PromptTokens + Len(d.mask) /\ Len(d.ids) \in Nat
      BY <1>1, <1>4, LenProperties DEF ConvInv, MaskAligned, Data
    <3>2. PromptLength + ResponseLength - Len(d.ids) - 1 = 0
      BY <1>1, <2>2 DEF EmptyReply, Room
    <3>3. QED
      BY <1>1, <1>5, <3>1, <3>2, LengthAssumption
  <2>3. QED
    BY <1>1, <2>1, <2>2
<1>7. e \in Data
  BY <1>3, <1>4, <1>5 DEF Data, States, e
<1>8. ConvInv(e)
  BY <1>2, <1>3, <1>4, <1>5, <1>6, <1>7 DEF ConvInv
<1>9. QED
  BY <1>2, <1>8, OneConversation DEF e

LEMMA NoRoomConv ==
  ASSUME ConvsInv, NEW c \in Conversations, NoRoom(c)
  PROVE  ConvsInv'
<1> DEFINE d == conv[c]
           e == [d EXCEPT !.state = "raised"]
<1>1. ConvInv(d) /\ d \in Data /\ d.state = "generating"
  BY DEF ConvsInv, NoRoom
<1>2. /\ e \in Data /\ e.state = "raised" /\ e.ids = d.ids /\ e.mask = d.mask
      /\ e.logprobs = d.logprobs /\ e.images = d.images /\ e.imageTokens = d.imageTokens
  BY <1>1 DEF Data, States
<1> HIDE DEF e
<1>3. ConvInv(e)
  BY <1>1, <1>2 DEF ConvInv
<1>4. QED
  BY <1>3, OneConversation DEF NoRoom, e

Fields == {"state", "ids", "mask", "logprobs", "images", "imageTokens",
           "userTurns", "assistantTurns"}

LEMMA DataIs ==
  ASSUME NEW e, e = [x \in Fields |-> e[x]],
         e.state \in States, e.ids \in Seq(Kinds), e.mask \in Seq(Bits), e.logprobs \in Seq(Logs),
         e.images \in Nat, e.imageTokens \in Nat, e.userTurns \in Nat, e.assistantTurns \in Nat
  PROVE  e \in Data
<1>1. e = [state |-> e.state, ids |-> e.ids, mask |-> e.mask, logprobs |-> e.logprobs,
           images |-> e.images, imageTokens |-> e.imageTokens,
           userTurns |-> e.userTurns, assistantTurns |-> e.assistantTurns]
  BY DEF Fields
<1>2. QED
  BY <1>1 DEF Data

(* What Append0 makes of a conversation.                                     *)
LEMMA Append0Is ==
  ASSUME NEW d, d = [x \in Fields |-> d[x]], NEW kind, NEW n,
         NEW a, a = Append0(d, kind, n)
  PROVE  /\ a = [x \in Fields |-> a[x]]
         /\ a.ids = More(d.ids, n, kind) /\ a.mask = More(d.mask, n, 0)
         /\ a.logprobs = IF d.logprobs = <<>> THEN <<>> ELSE More(d.logprobs, n, "zero")
         /\ a.images = d.images /\ a.imageTokens = d.imageTokens
         /\ a.userTurns = d.userTurns /\ a.assistantTurns = d.assistantTurns
<1>1. /\ a.ids = d.ids \o Copies(n, kind) /\ a.mask = d.mask \o Copies(n, 0)
      /\ a.logprobs = IF d.logprobs = <<>> THEN d.logprobs ELSE d.logprobs \o Copies(n, "zero")
      /\ a.images = d.images /\ a.imageTokens = d.imageTokens
      /\ a.userTurns = d.userTurns /\ a.assistantTurns = d.assistantTurns
  BY DEF Append0, Fields
<1>2. a = [x \in Fields |-> a[x]]
  BY DEF Append0
<1>3. QED
  BY ONLY <1>1, <1>2 DEF More

(* An answer: n tokens of a kind that nobody generated.                      *)
LEMMA Answer0 ==
  ASSUME setting \in Setting, NEW d, ConvInv(d), d.state \in {"tools", "interacting"},
         NEW n \in Nat, NEW kind \in {"tool", "user"},
         NEW e, e = [x \in Fields |-> e[x]],
         e.ids = More(d.ids, n, kind), e.mask = More(d.mask, n, 0),
         e.logprobs = IF d.logprobs = <<>> THEN <<>> ELSE More(d.logprobs, n, "zero"),
         e.images \in Nat, e.imageTokens = e.images,
         e.userTurns \in Nat, e.assistantTurns \in Nat,
         e.state \in {"generating", "terminated"},
         e.state = "generating" /\ ~setting.interaction => Len(d.mask) + n < ResponseLength
  PROVE  ConvInv(e)
<1>1. setting.logprobs => d.logprobs # <<>>
  <2>1. Len(d.mask) > 0 /\ (setting.logprobs => Len(d.logprobs) = Len(d.mask))
    BY DEF ConvInv, LogsAligned
  <2>2. QED
    BY <2>1
<1>2. /\ e.ids \in Seq(Kinds) /\ e.mask \in Seq(Bits) /\ e.logprobs \in Seq(Logs)
      /\ MaskAligned(e.ids, e.mask)
      /\ setting.logprobs => LogsAligned(e.mask, e.logprobs)
      /\ Len(e.mask) = Len(d.mask) + n /\ Len(d.mask) \in Nat
  <2>1. d.state # "pending" /\ kind \in Kinds /\ kind # "assistant"
    BY DEF Kinds
  <2>2. CASE d.logprobs = <<>>
    BY <1>1, <2>1, <2>2, Grown
  <2>3. CASE d.logprobs # <<>>
    BY <2>1, <2>3, Grown
  <2>4. QED
    BY <2>2, <2>3
<1>3. Len(e.mask) > 0
  <2>1. Len(d.mask) > 0
    BY DEF ConvInv
  <2>2. QED
    BY ONLY <1>2, <2>1, n \in Nat
<1>4. e \in Data
  BY <1>2, DataIs DEF States
<1>5. QED
  BY <1>2, <1>3, <1>4 DEF ConvInv

LEMMA ProcessToolsConv ==
  ASSUME ConvsInv, NEW c \in Conversations, NEW n \in 1 .. MaxAnswer, NEW images \in 0 .. 1,
         ProcessTools(c, n, images)
  PROVE  ConvsInv'
<1> DEFINE d == [conv[c] EXCEPT !.images = @ + images]
           a == Append0(d, "tool", n)
           e == [a EXCEPT !.state = "generating", !.userTurns = @ + 1, !.imageTokens = @ + images]
<1>1. /\ ConvInv(conv[c]) /\ conv[c] \in Data /\ conv[c].state = "tools"
      /\ setting \in Setting /\ n \in Nat /\ images \in Nat
  BY BoundAssumption DEF ConvsInv, ProcessTools
<1>2. /\ conv[c].images \in Nat /\ conv[c].imageTokens = conv[c].images
      /\ conv[c].userTurns \in Nat /\ conv[c].assistantTurns \in Nat
      /\ conv[c] = [x \in Fields |-> conv[c][x]]
  BY <1>1 DEF ConvInv, Data, Fields
<1>3. CASE Become(c, [conv[c] EXCEPT !.state = "raised"])
  <2> DEFINE f == [conv[c] EXCEPT !.state = "raised"]
  <2>1. /\ f \in Data /\ f.state = "raised" /\ f.ids = conv[c].ids /\ f.mask = conv[c].mask
        /\ f.logprobs = conv[c].logprobs /\ f.images = conv[c].images
        /\ f.imageTokens = conv[c].imageTokens
    BY <1>1 DEF Data, States
  <2> HIDE DEF f
  <2>2. ConvInv(f)
    BY <1>1, <1>2, <2>1 DEF ConvInv
  <2>3. QED
    BY <1>3, <2>2, OneConversation DEF f
<1>4. CASE Become(c, [d EXCEPT !.state = "terminated"])
  <2> DEFINE f == [d EXCEPT !.state = "terminated"]
  <2>1. /\ f \in Data /\ f.state = "terminated" /\ f.ids = conv[c].ids /\ f.mask = conv[c].mask
        /\ f.logprobs = conv[c].logprobs /\ f.images = conv[c].images + images
        /\ f.imageTokens = conv[c].imageTokens
    <3>1. d \in Data /\ d.images = conv[c].images + images
      <4>1. conv[c] \in Data /\ conv[c].images + images \in Nat
        BY <1>1, <1>2
      <4>2. QED
        BY ONLY <4>1 DEF Data
    <3>2. /\ d.ids = conv[c].ids /\ d.mask = conv[c].mask
          /\ d.logprobs = conv[c].logprobs /\ d.imageTokens = conv[c].imageTokens
      BY <1>1 DEF Data
    <3> HIDE DEF d
    <3>3. QED
      BY <3>1, <3>2 DEF Data, States
  <2> HIDE DEF f
  <2>2. ConvInv(f)
    BY <1>1, <1>2, <2>1 DEF ConvInv
  <2>3. QED
    BY <1>4, <2>2, OneConversation DEF f
<1>5. CASE Become(c, e) /\ Len(d.mask) + n < ResponseLength
  <2>1. /\ d = [x \in Fields |-> d[x]] /\ d.ids = conv[c].ids /\ d.mask = conv[c].mask
        /\ d.logprobs = conv[c].logprobs /\ d.images = conv[c].images + images
        /\ d.imageTokens = conv[c].imageTokens /\ d.userTurns = conv[c].userTurns
        /\ d.assistantTurns = conv[c].assistantTurns
    BY <1>1, <1>2 DEF Fields
  <2> HIDE DEF d
  <2>2. /\ a = [x \in Fields |-> a[x]]
        /\ a.ids = More(d.ids, n, "tool") /\ a.mask = More(d.mask, n, 0)
        /\ a.logprobs = IF d.logprobs = <<>> THEN <<>> ELSE More(d.logprobs, n, "zero")
        /\ a.images = d.images /\ a.imageTokens = d.imageTokens
        /\ a.userTurns = d.userTurns /\ a.assistantTurns = d.assistantTurns
    BY ONLY <2>1, Append0Is
  <2> HIDE DEF a
  <2>3. /\ e = [x \in Fields |-> e[x]] /\ e.ids = a.ids /\ e.mask = a.mask
        /\ e.logprobs = a.logprobs /\ e.images = a.images /\ e.state = "generating"
        /\ e.imageTokens = a.imageTokens + images /\ e.userTurns = a.userTurns + 1
        /\ e.assistantTurns = a.assistantTurns
    BY ONLY <2>2 DEF Fields
  <2> HIDE DEF e
  <2>4. ConvInv(e)
    <3>1. /\ e.ids = More(conv[c].ids, n, "tool") /\ e.mask = More(conv[c].mask, n, 0)
          /\ e.logprobs = IF conv[c].logprobs = <<>> THEN <<>> ELSE More(conv[c].logprobs, n, "zero")
      BY ONLY <2>1, <2>2, <2>3
    <3>2. /\ e.images \in Nat /\ e.imageTokens = e.images /\ e.userTurns \in Nat
          /\ e.assistantTurns \in Nat /\ Len(conv[c].mask) + n < ResponseLength
      <4>1. /\ conv[c].images \in Nat /\ conv[c].imageTokens = conv[c].images /\ images \in Nat
            /\ conv[c].userTurns \in Nat /\ conv[c].assistantTurns \in Nat
        BY ONLY <1>1, <1>2
      <4>2. /\ e.images = conv[c].images + images
            /\ e.imageTokens = conv[c].imageTokens + images
            /\ e.userTurns = conv[c].userTurns + 1
            /\ e.assistantTurns = conv[c].assistantTurns
        BY ONLY <2>1, <2>2, <2>3
      <4>3. Len(conv[c].mask) + n < ResponseLength
        BY ONLY <1>5, <2>1
      <4>4. QED
        BY ONLY <4>1, <4>2, <4>3
    <3>3. QED
      BY ONLY <1>1, <2>3, <3>1, <3>2, Answer0
  <2>5. QED
    BY <1>5, <2>4, OneConversation
<1>6. QED
  BY <1>3, <1>4, <1>5 DEF ProcessTools

LEMMA InteractConv ==
  ASSUME ConvsInv, NEW c \in Conversations, NEW n \in 1 .. MaxAnswer, Interact(c, n)
  PROVE  ConvsInv'
<1> DEFINE d == conv[c]
           a == Append0(d, "user", n)
           e(next) == [a EXCEPT !.state = next, !.userTurns = @ + 1]
<1>1. /\ ConvInv(d) /\ d \in Data /\ d.state = "interacting" /\ setting.interaction
      /\ setting \in Setting /\ n \in Nat
  BY BoundAssumption DEF ConvsInv, Interact, ConvInv
<1>2. PICK next \in {"terminated", "generating"} : Become(c, e(next))
  BY DEF Interact
<1>3. /\ d.images \in Nat /\ d.imageTokens = d.images
      /\ d.userTurns \in Nat /\ d.assistantTurns \in Nat
      /\ d = [x \in Fields |-> d[x]]
  BY <1>1 DEF ConvInv, Data, Fields
<1>4. /\ a = [x \in Fields |-> a[x]]
      /\ a.ids = More(d.ids, n, "user") /\ a.mask = More(d.mask, n, 0)
      /\ a.logprobs = IF d.logprobs = <<>> THEN <<>> ELSE More(d.logprobs, n, "zero")
      /\ a.images = d.images /\ a.imageTokens = d.imageTokens
      /\ a.userTurns = d.userTurns /\ a.assistantTurns = d.assistantTurns
  BY ONLY <1>3, Append0Is
<1> HIDE DEF a, d
<1> DEFINE f == e(next)
<1>5. /\ f = [x \in Fields |-> f[x]] /\ f.ids = a.ids /\ f.mask = a.mask
      /\ f.logprobs = a.logprobs /\ f.images = a.images /\ f.state = next
      /\ f.imageTokens = a.imageTokens /\ f.userTurns = a.userTurns + 1
      /\ f.assistantTurns = a.assistantTurns
  BY ONLY <1>4 DEF Fields
<1>6. Become(c, f)
  BY <1>2
<1> HIDE DEF f
<1>7. ConvInv(f)
  <2>1. /\ f.ids = More(d.ids, n, "user") /\ f.mask = More(d.mask, n, 0)
        /\ f.logprobs = IF d.logprobs = <<>> THEN <<>> ELSE More(d.logprobs, n, "zero")
    BY ONLY <1>4, <1>5
  <2>2. /\ f.images \in Nat /\ f.imageTokens = f.images /\ f.userTurns \in Nat
        /\ f.assistantTurns \in Nat /\ f.state \in {"generating", "terminated"}
    BY ONLY <1>3, <1>4, <1>5, next \in {"terminated", "generating"}
  <2>3. QED
    BY ONLY <1>1, <1>5, <2>1, <2>2, Answer0
<1>8. QED
  BY <1>6, <1>7, OneConversation
LEMMA ConvsNext == ConvsInv /\ [Next]_vars => ConvsInv'
<1> SUFFICES ASSUME ConvsInv, [Next]_vars PROVE ConvsInv'
  OBVIOUS
<1>1. CASE UNCHANGED <<setting, conv>>
  BY <1>1 DEF ConvsInv, ConvInv
<1>2. ASSUME NEW c \in Conversations, Conversation(c) PROVE ConvsInv'
  BY <1>2, BeginConv, GenerateConv, NoRoomConv, ProcessToolsConv, InteractConv DEF Conversation
<1>3. ASSUME NEW s \in Slots, ToolCall(s) PROVE UNCHANGED <<setting, conv>>
  BY <1>3 DEF ToolCall, StartCall, TakeThread, SearchEnds, SearchFails, LeavePool, ReleaseInstance
<1>4. CASE Limiter \/ Terminated \/ UNCHANGED vars
  BY <1>1, <1>4 DEF Limiter, Acquire, Release, Terminated, vars
<1>5. QED
  BY <1>1, <1>2, <1>3, <1>4 DEF Next

(* The invariant of the conversations' tokens holds throughout.              *)
THEOREM ConvsInvariant == Spec => []ConvsInv
BY ConvsInit, ConvsNext, PTL DEF Spec

(* ImagesHaveTokens: the images that ToolAgentLoop keeps for the model are   *)
(* those its tokens speak of, and only a conversation that ended has more.   *)
THEOREM ImagesKeepTheirTokens == Spec => []ImagesHaveTokens
<1>1. ConvsInv => ImagesHaveTokens
  BY DEF ConvsInv, ConvInv, ImagesHaveTokens
<1>2. QED
  BY <1>1, ConvsInvariant, PTL

(* RefusedOnlyForUsers: the length tests of _handle_processing_tools_state   *)
(* always leave room for a generation, whatever the lengths, unless a user   *)
(* answers or the server keeps a token back.                                 *)
THEOREM ToolsLeaveRoom == Spec => []RefusedOnlyForUsers
<1>1. ASSUME ConvsInv PROVE RefusedOnlyForUsers
  <2> SUFFICES ASSUME NEW c \in Conversations, conv[c].state = "generating",
                      ~setting.interaction, ~(setting.reserved > 0)
               PROVE  ~(Room(conv[c]) < 1)
    BY DEF RefusedOnlyForUsers
  <2>1. /\ Len(conv[c].ids) = PromptTokens + Len(conv[c].mask)
        /\ Len(conv[c].mask) < ResponseLength /\ setting.reserved = 0
    BY <1>1 DEF ConvsInv, ConvInv, MaskAligned, Setting
  <2>2. Len(conv[c].mask) \in Nat
    BY <1>1, LenProperties DEF ConvsInv, Data
  <2> DEFINE m == Len(conv[c].mask)
  <2>3. Room(conv[c]) = PromptLength + ResponseLength - (PromptTokens + m) - 0
    BY <2>1 DEF Room
  <2>4. m \in Nat /\ m < ResponseLength
    BY <2>1, <2>2
  <2> HIDE DEF m
  <2>5. QED
    BY ONLY <2>3, <2>4, LengthAssumption
<1>2. QED
  BY <1>1, ConvsInvariant, PTL

(* OutputAligned: what a conversation hands on is the prompt and a response  *)
(* whose mask and logprobs say of every token whether the model made it.     *)
THEOREM OutputIsAligned == Spec => []OutputAligned
<1>1. ASSUME ConvsInv PROVE OutputAligned
  <2> SUFFICES ASSUME NEW c \in Conversations, conv[c].state = "terminated"
               PROVE  LET out == Output(conv[c]) IN
                        /\ out.prompt = Copies(PromptTokens, "prompt")
                        /\ out.response # <<>> /\ Len(out.mask) = Len(out.response)
                        /\ \A i \in DOMAIN out.response :
                             out.mask[i] = 1 <=> out.response[i] = "assistant"
                        /\ setting.logprobs =>
                             out.logprobs = [i \in DOMAIN out.mask |->
                                              IF out.mask[i] = 1 THEN "model" ELSE "zero"]
    BY DEF OutputAligned
  <2> DEFINE ids == conv[c].ids
             mask == conv[c].mask
             logs == conv[c].logprobs
             m == Len(mask)
             r == IF ResponseLength < m THEN ResponseLength ELSE m
  <2>1. /\ ids \in Seq(Kinds) /\ mask \in Seq(Bits) /\ logs \in Seq(Logs)
        /\ MaskAligned(ids, mask) /\ (setting.logprobs => LogsAligned(mask, logs))
        /\ m > 0
    BY <1>1 DEF ConvsInv, ConvInv, Data
  <2>2. /\ m \in Nat /\ Len(ids) = PromptTokens + m /\ r \in Nat /\ r <= m /\ r > 0
        /\ PromptTokens \in Nat
    BY <2>1, LenProperties, LengthAssumption DEF MaskAligned
  <2> DEFINE answer == SubSeq(ids, PromptTokens + 1, PromptTokens + m)
  <2>3. /\ answer \in Seq(Kinds) /\ Len(answer) = m
        /\ \A i \in 1 .. m : answer[i] = ids[PromptTokens + i]
    <3>1. \A i \in PromptTokens + 1 .. PromptTokens + m : ids[i] \in Kinds
      BY <2>1, <2>2, ElementOfSeq
    <3>2. QED
      BY <2>2, <3>1, SubSeqProperties
  <2> DEFINE out == Output(conv[c])
             U(s) == Upto(s, ResponseLength)
  <2>4. /\ out.prompt = SubSeq(ids, 1, PromptTokens) /\ out.response = U(answer)
        /\ out.mask = U(mask) /\ out.logprobs = U(logs)
    <3>1. Len(ids) - Len(mask) = PromptTokens
      BY <2>2
    <3>2. QED
      BY <2>2, <3>1 DEF Output
  <2> HIDE DEF ids, mask, logs, m, answer, out
  <2>5. ASSUME NEW S, NEW s \in Seq(S), Len(s) = m
        PROVE  /\ Upto(s, ResponseLength) \in Seq(S) /\ Len(Upto(s, ResponseLength)) = r
               /\ \A i \in 1 .. r : Upto(s, ResponseLength)[i] = s[i]
    BY <2>2, <2>5, LengthAssumption DEF Upto
  <2>6. out.prompt = Copies(PromptTokens, "prompt")
    <3>1. SubSeq(ids, 1, PromptTokens) = [i \in 1 .. PromptTokens |-> "prompt"]
      BY <2>1, <2>2 DEF MaskAligned
    <3>2. QED
      BY <2>4, <3>1 DEF Copies
  <2> HIDE DEF U, r
  <2>7. /\ U(answer) \in Seq(Kinds) /\ Len(U(answer)) = r
        /\ \A i \in 1 .. r : U(answer)[i] = ids[PromptTokens + i]
    <3>1. /\ U(answer) \in Seq(Kinds) /\ Len(U(answer)) = r
          /\ \A i \in 1 .. r : U(answer)[i] = answer[i]
      BY <2>3, <2>5 DEF U
    <3>2. QED
      BY <2>2, <2>3, <3>1
  <2>8. /\ U(mask) \in Seq(Bits) /\ Len(U(mask)) = r
        /\ \A i \in 1 .. r : U(mask)[i] = mask[i]
    <3>1. mask \in Seq(Bits) /\ Len(mask) = m
      BY <2>1 DEF m
    <3>2. QED
      BY <2>5, <3>1 DEF U
  <2>9. setting.logprobs =>
          /\ U(logs) \in Seq(Logs) /\ Len(U(logs)) = r
          /\ \A i \in 1 .. r : U(logs)[i] = IF mask[i] = 1 THEN "model" ELSE "zero"
    <3> SUFFICES ASSUME setting.logprobs
                 PROVE  /\ U(logs) \in Seq(Logs) /\ Len(U(logs)) = r
                        /\ \A i \in 1 .. r : U(logs)[i] = IF mask[i] = 1 THEN "model" ELSE "zero"
      OBVIOUS
    <3>1. /\ logs \in Seq(Logs) /\ Len(logs) = m
          /\ \A i \in 1 .. m : logs[i] = IF mask[i] = 1 THEN "model" ELSE "zero"
      BY <2>1 DEF LogsAligned, m
    <3>2. /\ U(logs) \in Seq(Logs) /\ Len(U(logs)) = r
          /\ \A i \in 1 .. r : U(logs)[i] = logs[i]
      BY <2>5, <3>1 DEF U
    <3>3. QED
      BY <2>2, <3>1, <3>2
  <2>10. out.response # <<>> /\ Len(out.mask) = Len(out.response) /\ DOMAIN out.response = 1 .. r
    BY <2>2, <2>7, <2>8, <2>4
  <2>11. \A i \in 1 .. r : out.mask[i] = 1 <=> out.response[i] = "assistant"
    <3>1. \A i \in 1 .. m : mask[i] = 1 <=> ids[PromptTokens + i] = "assistant"
      BY <2>1 DEF MaskAligned, m
    <3>2. QED
      BY ONLY <2>2, <2>7, <2>8, <2>4, <3>1
  <2>12. setting.logprobs =>
           out.logprobs = [i \in DOMAIN out.mask |-> IF out.mask[i] = 1 THEN "model" ELSE "zero"]
    <3> SUFFICES ASSUME setting.logprobs
                 PROVE  U(logs) = [i \in 1 .. r |-> IF U(mask)[i] = 1 THEN "model" ELSE "zero"]
      BY <2>8, <2>4
    <3>1. U(logs) = [i \in 1 .. r |-> U(logs)[i]]
      BY <2>9
    <3>2. QED
      BY <2>8, <2>9, <3>1
  <2>13. QED
    BY <2>6, <2>10, <2>11, <2>12 DEF out
<1>2. QED
  BY <1>1, ConvsInvariant, PTL

-----------------------------------------------------------------------------
(* A call that waits for a permit is in the limiter's queue.                 *)
AllQueued ==
  \A s \in Slots : call[s].at = "acquiring" => \E i \in 1 .. Len(acquires) : acquires[i] = s

LEMMA AllQueuedNext == LimiterInv /\ AllQueued /\ [Next]_vars => AllQueued'
<1> SUFFICES ASSUME LimiterInv, AllQueued, [Next]_vars PROVE AllQueued'
  OBVIOUS
<1>0. /\ acquires \in Seq(Slots) /\ Len(acquires) \in Nat
      /\ call \in [Slots -> [at : Stages, tries : Tries]]
  BY LenProperties DEF LimiterInv, QueueInv, CallType
<1>1. ASSUME UNCHANGED acquires,
             \A s \in Slots : call'[s].at = "acquiring" => call[s].at = "acquiring"
      PROVE  AllQueued'
  BY <1>1 DEF AllQueued
<1>2. ASSUME NEW c \in Conversations, Conversation(c) PROVE AllQueued'
  <2>1. \A s \in Slots : call'[s].at = "acquiring" => call[s].at = "acquiring"
    <3>1. ASSUME NEW n \in 0 .. MaxReply, NEW k \in 0 .. MaxCalls, Generate(c, n, k)
          PROVE  \A s \in Slots : call'[s].at = "acquiring" => call[s].at = "acquiring"
      <4>1. ASSUME NEW s \in Slots
            PROVE  call'[s] = call[s] \/ call'[s] = [NoCall EXCEPT !.at = "new"]
        BY <3>1 DEF Generate
      <4>2. [NoCall EXCEPT !.at = "new"].at = "new"
        BY DEF NoCall
      <4>3. QED
        BY <4>1, <4>2
    <3>2. ASSUME NEW n \in 1 .. MaxAnswer, NEW images \in 0 .. 1, ProcessTools(c, n, images)
          PROVE  \A s \in Slots : call'[s].at = "acquiring" => call[s].at = "acquiring"
      <4>1. ASSUME NEW s \in Slots PROVE call'[s] = call[s] \/ call'[s] = NoCall
        BY <3>2 DEF ProcessTools
      <4>2. QED
        BY <4>1 DEF NoCall
    <3>3. QED
      BY <1>2, <3>1, <3>2 DEF Conversation, Begin, NoRoom, Interact
  <2>2. UNCHANGED acquires
    BY <1>2 DEF Conversation, Begin, Generate, NoRoom, ProcessTools, Interact, LimiterUnchanged
  <2>3. QED
    BY <1>1, <2>1, <2>2
<1>3. ASSUME NEW s \in Slots, ToolCall(s), ~TakeThread(s) PROVE AllQueued'
  <2>1. \A t \in Slots : call'[t].at = "acquiring" => call[t].at = "acquiring"
    BY <1>0, <1>3 DEF ToolCall, StartCall, SearchEnds, SearchFails, LeavePool, ReleaseInstance, Stage
  <2>2. UNCHANGED acquires
    BY <1>3
    DEF ToolCall, StartCall, SearchEnds, SearchFails, LeavePool, ReleaseInstance, LimiterUnchanged
  <2>3. QED
    BY <1>1, <2>1, <2>2
<1>4. ASSUME NEW s \in Slots, TakeThread(s) PROVE AllQueued'
  <2>1. /\ Len(acquires') = Len(acquires) + 1 /\ acquires'[Len(acquires) + 1] = s
        /\ \A i \in 1 .. Len(acquires) : acquires'[i] = acquires[i]
    BY <1>0, <1>4, AppendProperties DEF TakeThread
  <2>2. \A t \in Slots \ {s} : call'[t] = call[t]
    BY <1>0, <1>4 DEF TakeThread, Stage
  <2>3. QED
    BY <1>0, <2>1, <2>2 DEF AllQueued
<1>5. CASE Acquire
  <2>1. /\ Len(acquires') = Len(acquires) - 1 /\ Len(acquires) > 0
        /\ \A i \in 1 .. Len(acquires') : acquires'[i] = acquires[i + 1]
        /\ Head(acquires) = acquires[1] /\ Head(acquires) \in Slots
    BY <1>0, <1>5, HeadTailProperties, EmptySeq DEF Acquire
  <2>2. /\ call'[Head(acquires)].at = "searching"
        /\ \A t \in Slots \ {Head(acquires)} : call'[t] = call[t]
    BY <1>0, <1>5, <2>1 DEF Acquire, Stage
  <2>3. ASSUME NEW t \in Slots, call'[t].at = "acquiring"
        PROVE  \E i \in 1 .. Len(acquires') : acquires'[i] = t
    <3>1. PICK j \in 1 .. Len(acquires) : acquires[j] = t
      BY <2>2, <2>3 DEF AllQueued
    <3>2. j # 1
      BY <2>1, <2>2, <2>3, <3>1
    <3>3. j - 1 \in 1 .. Len(acquires') /\ acquires'[j - 1] = t
      BY <1>0, <2>1, <3>1, <3>2
    <3>4. QED
      BY <3>3
  <2>4. QED
    BY <2>3 DEF AllQueued
<1>6. CASE Release \/ Terminated \/ UNCHANGED vars
  BY <1>1, <1>6 DEF Release, Terminated, vars
<1>7. QED
  BY <1>2, <1>3, <1>4, <1>5, <1>6 DEF Next, Limiter

(* TypeOK: the state is well typed, the worker's setting is one of those it  *)
(* may run with, and the limiter's queue holds the calls that wait in it.    *)
THEOREM TypeCorrect == Spec => []TypeOK
<1>1. Init => AllQueued /\ setting \in Settings
  BY DEF Init, AllQueued, NoCall
<1>2. LimiterInv /\ ConvsInv /\ AllQueued /\ setting \in Settings => TypeOK
  <2> SUFFICES ASSUME LimiterInv, ConvsInv, AllQueued, setting \in Settings PROVE TypeOK
    OBVIOUS
  <2>1. ASSUME NEW c \in Conversations
        PROVE  /\ conv[c].state \in States
               /\ Range(conv[c].ids) \subseteq Kinds /\ Range(conv[c].mask) \subseteq {0, 1}
               /\ Range(conv[c].logprobs) \subseteq {"model", "zero"}
               /\ conv[c].images \in Nat /\ conv[c].imageTokens \in Nat
               /\ conv[c].userTurns \in Nat /\ conv[c].assistantTurns \in Nat
    <3>1. ASSUME NEW S, NEW q \in Seq(S) PROVE Range(q) \subseteq S
      BY LenProperties DEF Range
    <3>2. conv[c] \in Data
      BY DEF ConvsInv
    <3>3. QED
      BY <3>1, <3>2 DEF Data, Bits, Logs
  <2>2. \A s \in Slots : call[s].at \in Stages /\ call[s].tries \in 0 .. MaxRetries - 1
    BY DEF LimiterInv, CallType, Tries
  <2>3. permits \in 0 .. RateLimit /\ releases \in Nat
    BY SearchingFinite, PoolAssumption DEF LimiterInv, CallType, PermitInv
  <2>4. Range(acquires) = {s \in Slots : call[s].at = "acquiring"}
    <3>1. Range(acquires) = {acquires[i] : i \in 1 .. Len(acquires)}
      BY LenProperties DEF LimiterInv, QueueInv, Range
    <3>2. \A i \in 1 .. Len(acquires) : acquires[i] \in Slots /\ call[acquires[i]].at = "acquiring"
      BY ElementOfSeq DEF LimiterInv, QueueInv
    <3>3. QED
      BY <3>1, <3>2 DEF AllQueued
  <2>5. QED
    BY <2>1, <2>2, <2>3, <2>4 DEF TypeOK
<1>3. ASSUME [Next]_vars PROVE setting' = setting
  <2>1. ASSUME NEW c \in Conversations, Conversation(c) PROVE setting' = setting
    <3>1. ASSUME NEW e, Become(c, e) PROVE setting' = setting
      BY <3>1 DEF Become
    <3>2. QED
      BY <2>1, <3>1 DEF Conversation, Begin, Generate, NoRoom, ProcessTools, Interact
  <2>2. ASSUME NEW s \in Slots, ToolCall(s) PROVE setting' = setting
    BY <2>2 DEF ToolCall, StartCall, TakeThread, SearchEnds, SearchFails, LeavePool, ReleaseInstance
  <2>3. CASE Limiter \/ Terminated \/ UNCHANGED vars
    BY <2>3 DEF Limiter, Acquire, Release, Terminated, vars
  <2>4. QED
    BY <1>3, <2>1, <2>2, <2>3 DEF Next
<1>4. setting \in Settings /\ [Next]_vars => (setting \in Settings)'
  BY <1>3
<1>5. QED
  BY <1>1, <1>2, <1>4, AllQueuedNext, LimiterInvariant, ConvsInvariant, PTL DEF Spec

-----------------------------------------------------------------------------
(* What a worker has to wait for is on its way                               *)

(* Unless every conversation is over, something goes on: a server, a user, a *)
(* search, or a step that waits for neither a thread nor a permit.           *)
SomethingGoesOn ==
  \/ \A c \in Conversations : Over(c)
  \/ \E c \in Conversations : \/ conv[c].state \in {"pending", "generating", "interacting"}
                              \/ conv[c].state = "tools" /\ Answered(c)
  \/ \E s \in Slots : call[s].at \in {"new", "searching", "returned"}
  \/ \E s \in Slots : call[s].at = "pooled" /\ Cardinality({t \in Slots : InPool(t)}) < NumWorkers
  \/ acquires # << >> /\ permits > 0
  \/ releases > 0

(* When every conversation is over there is no instance and no call at the   *)
(* limiter, and the permits that are not back are on their way.              *)
NothingLeftBehind ==
  (\A c \in Conversations : Over(c)) =>
    /\ \A s \in Slots : ~Live(s) /\ call[s].at # "new"
    /\ acquires = << >> /\ permits + releases = RateLimit

(* A call that waits for a permit waits for a search or a release.           *)
LEMMA PermitsComeBack ==
  ASSUME LimiterInv, AllQueued, NEW s \in Slots, call[s].at = "acquiring"
  PROVE  SomethingGoesOn
<1>1. acquires # << >>
  <2>1. PICK i \in 1 .. Len(acquires) : acquires[i] = s
    BY DEF AllQueued
  <2>2. acquires \in Seq(Slots)
    BY DEF LimiterInv, QueueInv
  <2>3. QED
    BY <2>1, <2>2, EmptySeq
<1>2. CASE permits > 0 \/ releases > 0
  BY <1>1, <1>2 DEF SomethingGoesOn
<1>3. CASE permits = 0 /\ releases = 0
  <2>1. Cardinality(Searching) # 0
    BY <1>3, SearchingFinite, PoolAssumption DEF LimiterInv, PermitInv
  <2>2. Searching # {}
    BY <2>1, FS_EmptySet
  <2>3. QED
    BY <2>2 DEF Searching, SomethingGoesOn
<1>4. QED
  BY <1>2, <1>3 DEF LimiterInv, CallType

(* No conversation waits for a thread or a permit that nobody gives back,    *)
(* however many share the pool and the limiter of one rate.                  *)
THEOREM NobodyStarves == Spec => []SomethingGoesOn
<1>1. ASSUME LimiterInv, ConvsInv, AllQueued PROVE SomethingGoesOn
  <2> SUFFICES ASSUME NEW c \in Conversations, conv[c].state = "tools", ~Answered(c)
               PROVE  SomethingGoesOn
    <3>1. \A c \in Conversations : conv[c].state \in States
      BY <1>1 DEF ConvsInv, Data
    <3>2. QED
      BY <3>1 DEF SomethingGoesOn, States, Over
  <2>1. PICK s \in Slots : call[s].at \notin {"none", "answered"}
    BY DEF Answered
  <2>2. call[s].at \in {"new", "pooled", "acquiring", "searching", "returned"}
    BY <1>1, <2>1 DEF LimiterInv, CallType, Stages
  <2>3. CASE call[s].at \in {"new", "searching", "returned"}
    BY <2>3 DEF SomethingGoesOn
  <2>4. CASE call[s].at = "acquiring"
    BY <1>1, <2>4, PermitsComeBack
  <2>5. CASE call[s].at = "pooled" /\ \A t \in Slots : ~InPool(t)
    <3>1. {t \in Slots : InPool(t)} = {}
      BY <2>5
    <3>2. Cardinality({t \in Slots : InPool(t)}) < NumWorkers
      BY <3>1, FS_EmptySet, PoolAssumption
    <3>3. QED
      BY <2>5, <3>2 DEF SomethingGoesOn
  <2>6. CASE \E t \in Slots : InPool(t)
    <3>1. PICK t \in Slots : InPool(t)
      BY <2>6
    <3>2. CASE call[t].at = "acquiring"
      BY <1>1, <3>2, PermitsComeBack
    <3>3. CASE call[t].at = "searching"
      BY <3>3 DEF SomethingGoesOn
    <3>4. QED
      BY <3>1, <3>2, <3>3 DEF InPool
  <2>7. QED
    BY <2>2, <2>3, <2>4, <2>5, <2>6
<1>2. Init => AllQueued
  BY DEF Init, AllQueued, NoCall
<1>3. QED
  BY <1>1, <1>2, AllQueuedNext, LimiterInvariant, ConvsInvariant, PTL DEF Spec

(* The conversations of a batch never end with an instance unreleased, with  *)
(* a search or a queued call, or with a permit lost.                         *)
THEOREM QuietAtTheEnd == Spec => []NothingLeftBehind
<1>1. ASSUME LimiterInv, \A c \in Conversations : Over(c)
      PROVE  /\ \A s \in Slots : ~Live(s) /\ call[s].at # "new"
             /\ acquires = << >> /\ permits + releases = RateLimit
  <2>1. \A s \in Slots : call[s].at = "none"
    BY <1>1 DEF LimiterInv, IdleConv, Over, Slots
  <2>2. acquires = << >>
    <3>1. acquires \in Seq(Slots) /\ ~(1 \in 1 .. Len(acquires))
      BY <1>1, <2>1, ElementOfSeq DEF LimiterInv, QueueInv
    <3>2. QED
      BY <3>1, EmptySeq, LenProperties
  <2>3. permits + releases = RateLimit
    <3>1. Searching = {}
      BY <2>1 DEF Searching
    <3>2. QED
      BY <1>1, <3>1, FS_EmptySet DEF LimiterInv, PermitInv, CallType
  <2>4. QED
    BY <2>1, <2>2, <2>3 DEF Live
<1>2. LimiterInv => NothingLeftBehind
  BY <1>1 DEF NothingLeftBehind
<1>3. QED
  BY <1>2, LimiterInvariant, PTL
=============================================================================
