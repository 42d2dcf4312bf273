--------------------------- MODULE SGLangRollout ---------------------------
(***************************************************************************)
(* Multi-turn generation with SGLang: SGLangRollout of                      *)
(* verl/workers/rollout/sglang_rollout/sglang_rollout.py and the            *)
(* AsyncRolloutRequest it advances (verl/workers/rollout/schemas.py).       *)
(*                                                                         *)
(* One asyncio task runs each request: it asks the engine, calls tools and  *)
(* asks the interaction, and grows the request's tokens and its loss mask   *)
(* message by message.  The batch waits until enough tasks are done,        *)
(* cancels the others and puts padding in their place, and builds the rows. *)
(* Between two awaits a task runs alone, so an action goes from the answer  *)
(* of one awaited call to the next call.  A token is the kind of message it *)
(* belongs to; "gen" is the generation prompt of the chat template, which   *)
(* is part of the assistant's message in the template, and "close" a token  *)
(* that ends a reply.  use_inference_chat_template is False.               *)
(***************************************************************************)
EXTENDS Integers, FiniteSets, SequencesExt

CONSTANTS
  N,                    \* requests in the batch, in the order of its rows
  WithTools,            \* the requests with tools_kwargs
  WithInteraction,      \* the requests with interaction_kwargs
  PromptTokens,         \* tokens of the raw prompt, without the generation prompt
  PromptLength,         \* config.prompt_length
  ResponseLength,       \* config.response_length
  MaxModelLen,          \* config.max_model_len
  MaxAssistantTurns,    \* config.multi_turn.max_assistant_turns
  MaxUserTurns,         \* config.multi_turn.max_user_turns
  Target,               \* int(N * (1 - over_sample_rate)), see TargetAssumption
  MaxReply,             \* bound: tokens of one reply, without those that end it
  MaxToolTokens,        \* bound: tokens of the tools' answers, when made and in a turn
  MayFail               \* a call to the engine, a tool or the interaction may raise

Requests == 1 .. N

ASSUME LengthAssumption ==
  /\ N \in Nat \ {0} /\ PromptTokens \in Nat \ {0} /\ MaxReply \in Nat \ {0}
  /\ WithTools \subseteq Requests /\ WithInteraction \subseteq Requests
  /\ PromptLength \in Nat /\ ResponseLength \in Nat \ {0} /\ MaxModelLen \in Nat
  /\ MaxModelLen >= PromptLength + ResponseLength
  /\ MaxAssistantTurns \in Nat \ {0} /\ MaxUserTurns \in Nat /\ MaxToolTokens \in Nat
ASSUME TargetAssumption == Target \in 0 .. N

VARIABLES
  req,        \* the requests, each with the place where its task is suspended
  validate,   \* meta_info["validate"]
  calcLogProbs,  \* config.calculate_log_probs
  skipTokenizer, \* config.skip_tokenizer_init: the engine's tokens are appended as they are
  phase,      \* of the batch: waiting | gathered | built | failed
  counted,    \* tasks that as_completed has handed out
  fault       \* some call has raised

settings == <<validate, calcLogProbs, skipTokenizer>>
vars == <<req, settings, phase, counted, fault>>

-----------------------------------------------------------------------------
(* The request *)

Awaiting == {"queued", "create", "start", "engine", "tools", "interaction", "release", "logprobs"}
Over == {"returned", "padded", "raised"}
Kinds == {"prompt", "gen", "assistant", "close", "tool", "user", "pad"}

\* min(max_model_len, prompt_length + response_length), the request's own limit
RequestLen == PromptLength + ResponseLength

Copies(n, x) == [i \in 1 .. n |-> x]
Upto(s, n) == SubSeq(s, 1, IF n < Len(s) THEN n ELSE Len(s))

PromptIds == Append(Copies(PromptTokens, "prompt"), "gen")

\* AsyncRolloutRequest as _preprocess_prompt_to_async_rollout_requests makes it
NewRequest ==
  [at |-> "queued", ids |-> PromptIds, loss |-> Copies(Len(PromptIds), 0), messages |-> <<>>,
   turns |-> 0, userTurns |-> 0, finish |-> "none", held |-> FALSE,
   response |-> <<>>, mask |-> <<>>, logprobs |-> <<>>]

\* A message by its tokens: n of its kind, and those that end a reply.  In the chat
\* template these are two, as in <|im_end|> and a newline
Reply(n, close) == [kind |-> "assistant", n |-> n, close |-> close]
Answer(kind, n) == [kind |-> kind, n |-> n, close |-> 0]
Content(m) == Copies(m.n, m.kind) \o Copies(m.close, "close")

\* _update_input_ids: tokens and as many entries of the loss mask are appended
Extend(q, ids, trained) ==
  [q EXCEPT !.ids = @ \o ids, !.loss = @ \o Copies(Len(ids), trained)]

AddMessage(q, m, trained) ==
  [Extend(q, Content(m), trained) EXCEPT !.messages = Append(@, m)]

\* Mutant: the generation prompt leaves the tokens, its loss mask stays
RemoveGenIds(q) == IF Last(q.ids) = "gen" THEN [q EXCEPT !.ids = Front(@)] ELSE q

\* _remove_generation_prompt_ids_if_present
RemoveGen(q) ==
  IF Last(q.ids) = "gen" THEN [q EXCEPT !.ids = Front(@), !.loss = Front(@)] ELSE q

\* get_generation_prompt_ids, which adds the generation prompt it is asked for
AddGen(q) == IF Last(q.ids) = "gen" THEN q ELSE Extend(q, <<"gen">>, 0)

\* add_tool_response_messages, a no-op when every response is empty
AddTools(q, n) == IF n = 0 THEN q ELSE AddMessage(RemoveGen(q), Answer("tool", n), 0)

\* truncate_output_ids
Truncate(q) ==
  LET ids == Upto(q.ids, RequestLen)
      loss == Upto(q.loss, RequestLen)
      after(s) == Upto(SubSeq(s, Len(PromptIds) + 1, Len(s)), ResponseLength)
  IN [q EXCEPT !.ids = ids, !.loss = loss, !.response = after(ids), !.mask = after(loss)]

\* Mutant: a generation prompt that no reply followed stays at the end
FinalizeAsIs(q) ==
  IF q.finish \notin {"stop", "length"} THEN [q EXCEPT !.at = "raised"]
  ELSE [Truncate(q) EXCEPT !.at = IF calcLogProbs THEN "logprobs" ELSE "returned"]

\* Mutant: finalize knows no other reason than stop
FinalizeStop(q) ==
  IF q.finish # "stop" THEN [q EXCEPT !.at = "raised"]
  ELSE [Truncate(RemoveGen(q)) EXCEPT !.at = IF calcLogProbs THEN "logprobs" ELSE "returned"]

\* finalize: a reason that is neither stop nor length raises
Finalize(q) ==
  IF q.finish \notin {"stop", "length"} THEN [q EXCEPT !.at = "raised"]
  ELSE [Truncate(RemoveGen(q)) EXCEPT !.at = IF calcLogProbs THEN "logprobs" ELSE "returned"]

\* Mutant: the end of the loop finalizes before it releases, and forgets to
LeaveHolding(q, reason) ==
  Finalize([q EXCEPT !.finish = IF q.turns >= MaxAssistantTurns THEN "stop" ELSE reason])

\* The end of the while loop of _async_rollout_a_request, up to the next await
Leave(q, reason) ==
  LET f == [q EXCEPT !.finish = IF q.turns >= MaxAssistantTurns THEN "stop" ELSE reason]
  IN IF f.held THEN [f EXCEPT !.at = "release"] ELSE Finalize(f)

\* The RUNNING branch, up to the call to the engine
AskEngine(q) ==
  LET g == AddGen(q)
  IN IF Len(g.ids) + 1 >= MaxModelLen THEN Leave(g, "length") ELSE [g EXCEPT !.at = "engine"]

\* `len(_req.input_ids) >= max_model_len`: input_ids has shape (1, n), its len is 1
RowsFull == 1 >= MaxModelLen

\* _create_padding_request, from the request as it was before its task
Padding ==
  [NewRequest EXCEPT !.at = "padded", !.response = Copies(ResponseLength, "pad"),
                     !.mask = Copies(ResponseLength, 0)]

-----------------------------------------------------------------------------
(* The tasks *)

Init ==
  /\ req = [r \in Requests |-> NewRequest]
  /\ validate \in BOOLEAN /\ calcLogProbs \in BOOLEAN /\ skipTokenizer \in BOOLEAN
  /\ phase = "waiting"
  /\ counted = {}
  /\ fault = FALSE

\* Once the batch has failed its event loop no longer runs
Running(r, where) == phase = "waiting" /\ req[r].at = where

Becomes(r, q) == req' = [req EXCEPT ![r] = q] /\ UNCHANGED <<settings, phase, counted, fault>>

\* _handle_pending_state: the calls that create the tools, then start_interaction
Begin(r) ==
  /\ Running(r, "queued")
  /\ Becomes(r, IF r \in WithTools THEN [req[r] EXCEPT !.at = "create"]
                ELSE IF r \in WithInteraction THEN [req[r] EXCEPT !.at = "start"]
                ELSE AskEngine(req[r]))

\* What the tools answer when they are made becomes a message like any answer of theirs
CreateTools(r, n) ==
  /\ Running(r, "create")
  /\ LET q == AddTools([req[r] EXCEPT !.held = TRUE], n)
     IN Becomes(r, IF r \in WithInteraction THEN [q EXCEPT !.at = "start"] ELSE AskEngine(q))

StartInteraction(r) == Running(r, "start") /\ Becomes(r, AskEngine(req[r]))

\* _handle_engine_generate
MaxNewTokens(q) ==
  LET room == MaxModelLen - Len(q.ids) - 1 IN IF room < ResponseLength THEN room ELSE ResponseLength

\* Its tokens as the engine sampled them, up to max_new_tokens, the token that stopped
\* it among them, if one did
Sampled(q) ==
  {m \in {Reply(n, stop) : n \in 0 .. MaxReply, stop \in {0, 1}} :
     m.n + m.close \in 1 .. MaxNewTokens(q)}

\* Its text tokenised again in the chat template, to however many tokens
Retokenized == {Reply(n, 2) : n \in 0 .. MaxReply}

WithReply(q, m) == [AddMessage(q, m, 1) EXCEPT !.turns = @ + 1]

\* The engine answers.  A reply that calls tools is tokenised from the text without the
\* calls and the calls themselves, whatever the setting; a request without tools of its
\* own may still name one
EngineReplies(r) ==
  /\ Running(r, "engine")
  /\ LET more == req[r].turns + 1 < MaxAssistantTurns
     IN \/ \E m \in IF skipTokenizer THEN Sampled(req[r]) ELSE Retokenized :
             LET q == WithReply(req[r], m)
             IN \/ m.close # 1 /\ Becomes(r, Leave(q, "length"))  \* finish_reason length
                \/ WithTools # {} /\ Becomes(r, Leave(q, "stop")) \* a call that does not parse
                \/ Becomes(r, IF r \in WithInteraction /\ q.userTurns < MaxUserTurns /\ more
                              THEN [q EXCEPT !.at = "interaction", !.userTurns = @ + 1]
                              ELSE Leave(q, "stop"))
        \/ /\ WithTools # {}
           /\ \E m \in Retokenized :
                LET q == WithReply(req[r], m)
                IN Becomes(r, IF more THEN [q EXCEPT !.at = "tools"] ELSE Leave(q, "tool_calls"))

\* TOOL_CALLING, from the tools' answers on
ToolsReply(r, n) ==
  /\ Running(r, "tools")
  /\ LET q == AddTools(req[r], n)
     IN Becomes(r, IF RowsFull THEN Leave(q, "stop") ELSE AskEngine(q))

\* INTERACTING, from the simulated user's answer on
InteractionReplies(r) ==
  /\ Running(r, "interaction")
  /\ \/ Becomes(r, Leave(req[r], "stop"))                      \* should_terminate_sequence
     \/ /\ req[r].userTurns <= MaxUserTurns
        /\ LET q == AddMessage(req[r], Answer("user", 1), 0)
           IN Becomes(r, IF RowsFull THEN Leave(q, "stop") ELSE AskEngine(q))

\* calc_reward_and_release_fn for every tool, then finalize
ReleaseTools(r) == Running(r, "release") /\ Becomes(r, Finalize([req[r] EXCEPT !.held = FALSE]))

\* The call for the log probabilities: one for every token but the first, and the
\* row keeps the last len(response_ids) of them, where response_ids has shape (1, n)
TakeLogProbs(r) ==
  /\ Running(r, "logprobs")
  /\ LET all == [i \in 1 .. Len(req[r].ids) - 1 |-> i + 1]
         rows == 1
     IN Becomes(r, [req[r] EXCEPT !.at = "returned",
                                  !.logprobs = SubSeq(all, Len(all) - rows + 1, Len(all))])

\* A tool that is not in the tool map, or any call that raises
CallRaises(r) ==
  /\ MayFail
  /\ phase = "waiting"
  /\ req[r].at \in Awaiting \ {"queued"}
  /\ req' = [req EXCEPT ![r].at = "raised"]
  /\ fault' = TRUE
  /\ UNCHANGED <<settings, phase, counted>>

TaskStep(r) ==
  \/ Begin(r)
  \/ \E n \in 0 .. MaxToolTokens : CreateTools(r, n)
  \/ StartInteraction(r)
  \/ EngineReplies(r)
  \/ \E n \in 0 .. MaxToolTokens : ToolsReply(r, n)
  \/ InteractionReplies(r)
  \/ ReleaseTools(r)
  \/ TakeLogProbs(r)
  \/ CallRaises(r)

-----------------------------------------------------------------------------
(* The batch: _req_level_generate_sequences *)

IsOver(r) == req[r].at \in Over

\* t.cancel() for every task that is not done: it continues with CancelledError only
CancelOthers == [r \in Requests |-> IF IsOver(r) THEN req[r] ELSE [Padding EXCEPT !.held = req[r].held]]

\* run_with_cancellation takes the next completed task; enough of them, or one
\* that raised, end the wait and cancel the rest
TakeCompleted(r) ==
  /\ phase = "waiting" /\ ~validate
  /\ \A s \in Requests : req[s].at # "queued"   \* every task starts in the loop's first pass
  /\ IsOver(r) /\ r \notin counted
  /\ counted' = counted \cup {r}
  /\ LET raises == req[r].at = "raised"
         enough == Cardinality(counted') >= Target \/ counted' = Requests
     IN /\ req' = IF raises \/ enough THEN CancelOthers ELSE req
        /\ phase' = IF raises THEN "failed" ELSE IF enough THEN "gathered" ELSE "waiting"
  /\ UNCHANGED <<settings, fault>>

\* Mutant: the wait for all does not see an exception
GatherReturned ==
  /\ phase = "waiting" /\ validate
  /\ \A r \in Requests : req[r].at = "returned"
  /\ phase' = "gathered"
  /\ UNCHANGED <<req, settings, counted, fault>>

\* In validation the batch waits for all; the first exception ends it at once
GatherAll ==
  /\ phase = "waiting" /\ validate
  /\ \/ /\ \E r \in Requests : req[r].at = "raised"
        /\ phase' = "failed"
     \/ /\ \A r \in Requests : req[r].at = "returned"
        /\ phase' = "gathered"
  /\ UNCHANGED <<req, settings, counted, fault>>

\* Sorting the results reads batch_data_id of an exception, and a padding request
\* has no log probabilities to take the last of
BuildFails ==
  \/ \E r \in Requests : req[r].at = "raised"
  \/ calcLogProbs /\ \E r \in Requests : req[r].at = "padded"

Build ==
  /\ phase = "gathered"
  /\ phase' = IF BuildFails THEN "failed" ELSE "built"
  /\ UNCHANGED <<req, settings, counted, fault>>

BatchStep == (\E r \in Requests : TakeCompleted(r)) \/ GatherAll \/ Build

\* The call of generate_sequences is over
Terminated == phase \in {"built", "failed"} /\ UNCHANGED vars

Next == (\E r \in Requests : TaskStep(r)) \/ BatchStep \/ Terminated

Spec == Init /\ [][Next]_vars

\* The event loop resumes every task whose call is answered, and the calls answer
FairSpec ==
  /\ Spec
  /\ \A r \in Requests : WF_vars(TaskStep(r))
  /\ WF_vars(BatchStep)

-----------------------------------------------------------------------------
(* Properties *)

\* Type invariant: tokens and loss mask of a request have one length at every await.
TypeOK ==
  /\ \A r \in Requests :
       /\ req[r].at \in Awaiting \cup Over
       /\ Range(req[r].ids) \subseteq Kinds /\ Range(req[r].response) \subseteq Kinds
       /\ Len(req[r].loss) = Len(req[r].ids) /\ Len(req[r].mask) = Len(req[r].response)
       /\ req[r].turns \in 0 .. MaxAssistantTurns /\ req[r].userTurns \in 0 .. MaxUserTurns
       /\ req[r].finish \in {"none", "stop", "length", "tool_calls"}
       /\ req[r].held \in BOOLEAN
  /\ validate \in BOOLEAN /\ calcLogProbs \in BOOLEAN /\ skipTokenizer \in BOOLEAN
  /\ fault \in BOOLEAN
  /\ phase \in {"waiting", "gathered", "built", "failed"}
  /\ counted \subseteq Requests

\* One message after the generation prompt it belongs to, if it is a reply
Turn(m) == IF m.kind = "assistant" THEN <<"gen">> \o Content(m) ELSE Content(m)

\* The conversation message by message
TurnByTurn(messages) ==
  LET ids[k \in 0 .. Len(messages)] ==
        IF k = 0 THEN Copies(PromptTokens, "prompt") ELSE ids[k - 1] \o Turn(messages[k])
  IN ids[Len(messages)]

\* "Tokenization is performed turn by turn and the resulting token ids are concatenated
\* to form the full conversation", rollout.yaml: the response of a row is that, from
\* behind the prompt on and cut to the limits, whichever branch added or removed the
\* generation prompt on the way, and the loss mask is 1 on the model's replies only.
\* Prompt and response together are the conversation just when it starts with a reply:
\* an answer of a tool that is made takes the generation prompt's place in the tokens,
\* not in the prompt that was set aside.  A padding row trains nothing.
RowsAreConversations ==
  phase = "built" =>
    \A r \in Requests :
      LET q == req[r]
          whole == TurnByTurn(q.messages)
      IN /\ Len(q.response) <= ResponseLength /\ Len(q.mask) = Len(q.response)
         /\ \A i \in DOMAIN q.response :
              q.mask[i] = 1 <=> q.response[i] \in {"assistant", "close"}
         /\ q.at = "returned" /\ q.response # <<>> =>
              /\ IsPrefix(SubSeq(whole, 1, Len(PromptIds)) \o q.response, whole)
              /\ IsPrefix(PromptIds \o q.response, whole)
                   <=> Head(q.messages).kind = "assistant"

\* A batch that is built holds at least Target finished conversations, and in
\* validation all of them; only a call that raised, or the log probabilities of
\* an aborted request, can keep it from being built.
EnoughAnswered ==
  /\ phase = "built" =>
       Cardinality({r \in Requests : req[r].at = "returned"}) >= (IF validate THEN N ELSE Target)
  /\ phase = "failed" =>
       fault \/ (calcLogProbs /\ \E r \in Requests : req[r].at = "padded")

\* The tools made for a request are released by the time its row is built, unless
\* the request was aborted: a cancelled task never comes to its release.
ToolsReleased ==
  phase = "built" => \A r \in Requests : req[r].held => req[r].at = "padded" /\ ~validate

\* Every call of generate_sequences ends, however long the conversations would go on.
BatchEnds == <>(phase \in {"built", "failed"})
=============================================================================
