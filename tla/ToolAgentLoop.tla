---------------------------- MODULE ToolAgentLoop ----------------------------
(***************************************************************************)
(* Conversations with tools in one AgentLoopWorker: the state machine of    *)
(* ToolAgentLoop (verl/experimental/agent_loop/tool_agent_loop.py) and the  *)
(* search tool behind it (verl/tools/search_tool.py): its instances, its    *)
(* execution pool of threads, and the rate limiter, a named actor.          *)
(*                                                                         *)
(* A conversation is one asyncio task; each tool call of a turn is a task   *)
(* of its own, and its search runs in a thread of the pool.  A token is the *)
(* kind of message it belongs to, and ids holds every token since the       *)
(* prompt.  AgentLoop.tla models the same conversations from the outside,   *)
(* one generation after the other.                                         *)
(***************************************************************************)
EXTENDS Integers, FiniteSets, SequencesExt

CONSTANTS
  Conversations,       \* the prompts of the worker's share of the batch
  PromptTokens,        \* tokens of a prompt, its generation prompt included
  PromptLength,        \* config.prompt_length
  ResponseLength,      \* config.response_length
  MaxParallelCalls,    \* config.multi_turn.max_parallel_calls
  Settings,            \* the other settings a worker may run with, see Setting
  NumWorkers,          \* threads of a tool's execution pool
  RateLimit,           \* rate_limit of the tool that was initialised first
  MaxRetries,          \* MAX_RETRIES of a search
  MaxReply,            \* bound: tokens of one generation
  MaxCalls,            \* bound: tool calls parsed from one generation
  MaxAnswer            \* bound: tokens of the answers of one turn

ASSUME LengthAssumption ==
  /\ PromptLength \in Nat /\ PromptTokens \in 1 .. PromptLength
  /\ ResponseLength \in Nat \ {0, 1} /\ MaxParallelCalls \in Nat \ {0}

\* max_assistant_turns and max_user_turns (0 when not set), whether there is an
\* interaction_config_path, a processor for images and a logprob for every token, and
\* the tokens of the context that the server keeps free: 0 for vLLM, 1 for SGLang
Setting == [assistantTurns : Nat, userTurns : Nat, interaction : BOOLEAN,
            processor : BOOLEAN, logprobs : BOOLEAN, reserved : {0, 1}]
ASSUME SettingsAssumption == Settings \subseteq Setting
ASSUME PoolAssumption == {NumWorkers, RateLimit, MaxRetries} \subseteq Nat \ {0}
ASSUME BoundAssumption ==
  IsFiniteSet(Conversations) /\ {MaxReply, MaxCalls, MaxAnswer} \subseteq Nat

VARIABLES
  setting,   \* the worker's settings
  conv,      \* the AgentData of each conversation, and where its task is
  call,      \* the tool calls of each conversation's current turn
  permits,   \* _semaphore of the TokenBucketWorker
  acquires,  \* calls waiting in its acquire group, which has one thread
  releases   \* release calls under way to it

vars == <<setting, conv, call, permits, acquires, releases>>

-----------------------------------------------------------------------------
Calls == 1 .. MaxParallelCalls
Slots == Conversations \X Calls

States == {"pending", "generating", "tools", "interacting", "terminated", "raised"}
Stages == {"none", "new", "pooled", "acquiring", "searching", "returned", "answered"}
Kinds == {"prompt", "assistant", "tool", "user"}

Copies(n, x) == [i \in 1 .. n |-> x]

NoCall == [at |-> "none", tries |-> 0]

NewConversation ==
  [state |-> "pending", ids |-> <<>>, mask |-> <<>>, logprobs |-> <<>>,
   images |-> 0, imageTokens |-> 0, userTurns |-> 0, assistantTurns |-> 0]

Init ==
  /\ setting \in Settings
  /\ conv = [c \in Conversations |-> NewConversation]
  /\ call = [s \in Slots |-> NoCall]
  /\ permits = RateLimit
  /\ acquires = <<>>
  /\ releases = 0

Become(c, d) == conv' = [conv EXCEPT ![c] = d] /\ UNCHANGED setting
Stage(s, at) == call' = [call EXCEPT ![s].at = at]
LimiterUnchanged == UNCHANGED <<permits, acquires, releases>>

\* Mutant: the tokens are masked out and get no logprob
Append0Mask(d, kind, n) == [d EXCEPT !.ids = @ \o Copies(n, kind), !.mask = @ \o Copies(n, 0)]

\* Tokens nobody generated: masked out, with a logprob of 0.0 when there are logprobs
Append0(d, kind, n) ==
  [d EXCEPT !.ids = @ \o Copies(n, kind), !.mask = @ \o Copies(n, 0),
            !.logprobs = IF @ = <<>> THEN @ ELSE @ \o Copies(n, "zero")]

-----------------------------------------------------------------------------
(* The state machine of a conversation *)

\* start_interaction and _handle_pending_state
Begin(c) ==
  /\ conv[c].state = "pending"
  /\ Become(c, [conv[c] EXCEPT !.state = "generating", !.ids = Copies(PromptTokens, "prompt")])
  /\ UNCHANGED call /\ LimiterUnchanged

\* What the server leaves for a generation: max_model_len is prompt_length + response_length
Room(d) == PromptLength + ResponseLength - Len(d.ids) - setting.reserved

\* SGLang, asked for no token at all, answers with none
EmptyReply(d) == Room(d) = 0 /\ setting.reserved = 1 /\ ~setting.logprobs

\* The three tests after a generation
Ends(d) ==
  \/ Len(d.mask) >= ResponseLength
  \/ setting.assistantTurns > 0 /\ d.assistantTurns >= setting.assistantTurns
  \/ setting.userTurns > 0 /\ d.userTurns >= setting.userTurns

\* _handle_generating_state: n tokens, in which the parser finds k tool calls, of
\* which the first max_parallel_calls are made
Generate(c, n, k) ==
  /\ conv[c].state = "generating"
  /\ IF n > 0 THEN n <= Room(conv[c]) ELSE k = 0 /\ EmptyReply(conv[c])
  /\ LET d == [conv[c] EXCEPT !.ids = @ \o Copies(n, "assistant"), !.mask = @ \o Copies(n, 1),
                              !.logprobs = IF setting.logprobs THEN @ \o Copies(n, "model") ELSE @,
                              !.assistantTurns = @ + 1]
         next == IF Ends(d) THEN "terminated"
                 ELSE IF k > 0 THEN "tools"
                 ELSE IF setting.interaction THEN "interacting" ELSE "terminated"
     IN /\ Become(c, [d EXCEPT !.state = next])
        /\ call' = [s \in Slots |-> IF s[1] = c /\ next = "tools" /\ s[2] <= k
                                    THEN [NoCall EXCEPT !.at = "new"] ELSE call[s]]
  /\ LimiterUnchanged

\* vLLM refuses max_tokens below 1; SGLang a negative number, and there is no token to
\* take the logprobs of.  The exception ends the conversation.
NoRoom(c) ==
  /\ conv[c].state = "generating"
  /\ Room(conv[c]) < 1 /\ ~EmptyReply(conv[c])
  /\ Become(c, [conv[c] EXCEPT !.state = "raised"])
  /\ UNCHANGED call /\ LimiterUnchanged

Answered(c) == \A s \in Slots : s[1] = c => call[s].at \in {"none", "answered"}

\* Mutant: the answers may fill the response to its last token
ProcessToolsToTheEnd(c, n, images) ==
  /\ conv[c].state = "tools" /\ Answered(c)
  /\ LET d == [conv[c] EXCEPT !.images = @ + images]
     IN Become(c, IF images > 0 /\ ~setting.processor THEN [conv[c] EXCEPT !.state = "raised"]
                  ELSE IF Len(d.mask) + n > ResponseLength THEN [d EXCEPT !.state = "terminated"]
                  ELSE [Append0(d, "tool", n) EXCEPT !.state = "generating", !.userTurns = @ + 1,
                                                     !.imageTokens = @ + images])
  /\ call' = [s \in Slots |-> IF s[1] = c THEN NoCall ELSE call[s]]
  /\ LimiterUnchanged

\* Mutant: answers that do not fit are left out, and the conversation goes on
ProcessToolsThatFit(c, n, images) ==
  /\ conv[c].state = "tools" /\ Answered(c)
  /\ LET d == [conv[c] EXCEPT !.images = @ + images]
     IN Become(c, IF images > 0 /\ ~setting.processor THEN [conv[c] EXCEPT !.state = "raised"]
                  ELSE IF Len(d.mask) + n >= ResponseLength THEN [d EXCEPT !.state = "generating"]
                  ELSE [Append0(d, "tool", n) EXCEPT !.state = "generating", !.userTurns = @ + 1,
                                                     !.imageTokens = @ + images])
  /\ call' = [s \in Slots |-> IF s[1] = c THEN NoCall ELSE call[s]]
  /\ LimiterUnchanged

\* _handle_processing_tools_state, once every call has answered: n tokens for all the
\* answers, with the images of some.  Images are kept before the answers are known to fit.
ProcessTools(c, n, images) ==
  /\ conv[c].state = "tools"
  /\ Answered(c)
  /\ LET d == [conv[c] EXCEPT !.images = @ + images]
         fits == Len(d.mask) + n < ResponseLength
     IN Become(c, IF images > 0 /\ ~setting.processor THEN [conv[c] EXCEPT !.state = "raised"]
                  ELSE IF ~fits THEN [d EXCEPT !.state = "terminated"]
                  ELSE [Append0(d, "tool", n) EXCEPT !.state = "generating", !.userTurns = @ + 1,
                                                     !.imageTokens = @ + images])
  /\ call' = [s \in Slots |-> IF s[1] = c THEN NoCall ELSE call[s]]
  /\ LimiterUnchanged

\* _handle_interacting_state: the answer is appended whatever its length
Interact(c, n) ==
  /\ conv[c].state = "interacting"
  /\ \E next \in {"terminated", "generating"} :
       Become(c, [Append0(conv[c], "user", n) EXCEPT !.state = next, !.userTurns = @ + 1])
  /\ UNCHANGED call /\ LimiterUnchanged

-----------------------------------------------------------------------------
(* A tool call: _call_tool and SearchTool *)

\* An instance lives from create to release; the arguments of a call that does not
\* parse, or names no tool, make none
Live(s) == call[s].at \in {"pooled", "acquiring", "searching", "returned"}

\* _call_tool up to the pool; without a query_list execute answers at once
StartCall(s) ==
  /\ call[s].at = "new"
  /\ \/ Stage(s, "answered")
     \/ Stage(s, "pooled")
  /\ UNCHANGED <<setting, conv>> /\ LimiterUnchanged

InPool(s) == call[s].at \in {"acquiring", "searching"}

\* A thread of the pool takes the call and asks the limiter
TakeThread(s) ==
  /\ call[s].at = "pooled"
  /\ Cardinality({t \in Slots : InPool(t)}) < NumWorkers
  /\ Stage(s, "acquiring")
  /\ acquires' = Append(acquires, s)
  /\ UNCHANGED <<setting, conv, permits, releases>>

\* TokenBucketWorker.acquire: the first call waits on the semaphore, the others behind it
Acquire ==
  /\ acquires # <<>> /\ permits > 0
  /\ permits' = permits - 1
  /\ acquires' = Tail(acquires)
  /\ Stage(Head(acquires), "searching")
  /\ UNCHANGED <<setting, conv, releases>>

\* The function is done, with a result or an error: the exit stack sends the release
LeavePool(s) ==
  /\ Stage(s, "returned")
  /\ releases' = releases + 1
  /\ UNCHANGED <<setting, conv, permits, acquires>>

\* call_search_api: a success or an error that is not retried ends the search; a server
\* error, a failed connection or a timeout is tried again, MaxRetries times in all
SearchEnds(s) == call[s].at = "searching" /\ LeavePool(s)

\* Mutant: one attempt more than MaxRetries
SearchFailsOnceMore(s) ==
  /\ call[s].at = "searching"
  /\ IF call[s].tries < MaxRetries
     THEN /\ call' = [call EXCEPT ![s].tries = @ + 1]
          /\ UNCHANGED <<setting, conv>> /\ LimiterUnchanged
     ELSE LeavePool(s)

\* Mutant: a search that failed for good does not give its permit back
SearchFailsHolding(s) ==
  /\ call[s].at = "searching"
  /\ call' = IF call[s].tries + 1 < MaxRetries THEN [call EXCEPT ![s].tries = @ + 1]
             ELSE [call EXCEPT ![s].at = "returned"]
  /\ UNCHANGED <<setting, conv>> /\ LimiterUnchanged

SearchFails(s) ==
  /\ call[s].at = "searching"
  /\ IF call[s].tries + 1 < MaxRetries
     THEN /\ call' = [call EXCEPT ![s].tries = @ + 1]
          /\ UNCHANGED <<setting, conv>> /\ LimiterUnchanged
     ELSE LeavePool(s)

\* Mutant: the release runs in the acquires' group, behind those that wait
ReleaseBehind ==
  /\ releases > 0 /\ acquires = <<>>
  /\ permits' = permits + 1
  /\ releases' = releases - 1
  /\ UNCHANGED <<setting, conv, call, acquires>>

\* TokenBucketWorker.release, in a concurrency group of its own
Release ==
  /\ releases > 0
  /\ permits' = permits + 1
  /\ releases' = releases - 1
  /\ UNCHANGED <<setting, conv, call, acquires>>

\* execute takes the result, and _call_tool releases the instance
ReleaseInstance(s) ==
  /\ call[s].at = "returned"
  /\ Stage(s, "answered")
  /\ UNCHANGED <<setting, conv>> /\ LimiterUnchanged

-----------------------------------------------------------------------------
Conversation(c) ==
  \/ Begin(c)
  \/ \E n \in 0 .. MaxReply, k \in 0 .. MaxCalls : Generate(c, n, k)
  \/ NoRoom(c)
  \/ \E n \in 1 .. MaxAnswer, images \in 0 .. 1 : ProcessTools(c, n, images)
  \/ \E n \in 1 .. MaxAnswer : Interact(c, n)

ToolCall(s) ==
  \/ StartCall(s)
  \/ TakeThread(s)
  \/ SearchEnds(s) \/ SearchFails(s)
  \/ ReleaseInstance(s)

Limiter == Acquire \/ Release

\* Every conversation is over
Over(c) == conv[c].state \in {"terminated", "raised"}
Terminated == (\A c \in Conversations : Over(c)) /\ UNCHANGED vars

Next ==
  \/ \E c \in Conversations : Conversation(c)
  \/ \E s \in Slots : ToolCall(s)
  \/ Limiter
  \/ Terminated

Spec == Init /\ [][Next]_vars

\* Servers, tools and interactions answer in the end, threads are scheduled, and the
\* two concurrency groups of the limiter run on their own
FairSpec ==
  /\ Spec
  /\ \A c \in Conversations : WF_vars(Conversation(c))
  /\ \A s \in Slots : WF_vars(ToolCall(s))
  /\ WF_vars(Acquire) /\ WF_vars(Release)

-----------------------------------------------------------------------------
(* The AgentLoopOutput of a conversation that ended *)

Upto(s, n) == SubSeq(s, 1, IF n < Len(s) THEN n ELSE Len(s))

\* response_ids is cut off the end of prompt_ids, by the length of the mask
Output(d) ==
  LET n == Len(d.ids) - Len(d.mask)
  IN [prompt |-> SubSeq(d.ids, 1, n),
      response |-> Upto(SubSeq(d.ids, n + 1, Len(d.ids)), ResponseLength),
      mask |-> Upto(d.mask, ResponseLength),
      logprobs |-> Upto(d.logprobs, ResponseLength)]

-----------------------------------------------------------------------------
(* Properties *)

\* Type invariant; the calls that wait for a permit are those queued at the limiter.
TypeOK ==
  /\ setting \in Settings
  /\ \A c \in Conversations :
       /\ conv[c].state \in States
       /\ Range(conv[c].ids) \subseteq Kinds /\ Range(conv[c].mask) \subseteq {0, 1}
       /\ Range(conv[c].logprobs) \subseteq {"model", "zero"}
       /\ conv[c].images \in Nat /\ conv[c].imageTokens \in Nat
       /\ conv[c].userTurns \in Nat /\ conv[c].assistantTurns \in Nat
  /\ \A s \in Slots : call[s].at \in Stages /\ call[s].tries \in 0 .. MaxRetries - 1
  /\ permits \in 0 .. RateLimit /\ releases \in Nat
  /\ Range(acquires) = {s \in Slots : call[s].at = "acquiring"}

\* What a conversation hands on is its own: the prompt as it came in, a response
\* within its length whose mask is 1 on the model's tokens only, and, when asked
\* for, the model's logprob on exactly those, over any order of generations, tool
\* answers and user turns.
OutputAligned ==
  \A c \in Conversations : conv[c].state = "terminated" =>
    LET out == Output(conv[c]) IN
      /\ out.prompt = Copies(PromptTokens, "prompt")
      /\ out.response # <<>> /\ Len(out.mask) = Len(out.response)
      /\ \A i \in DOMAIN out.response : out.mask[i] = 1 <=> out.response[i] = "assistant"
      /\ setting.logprobs => out.logprobs = [i \in DOMAIN out.mask |-> IF out.mask[i] = 1 THEN "model" ELSE "zero"]

\* Tool answers never fill the context: a conversation is only refused a generation
\* after a user's answer, whose length nobody tests, or where the server keeps a
\* token back; an image the model cannot take is the one other way to fail.
RefusedOnlyForUsers ==
  \A c \in Conversations :
    conv[c].state = "generating" /\ Room(conv[c]) < 1 => setting.interaction \/ setting.reserved > 0

\* The images handed on are those the tokens speak of, unless the answers that
\* brought the last ones were dropped for their length.
ImagesHaveTokens ==
  \A c \in Conversations :
    /\ conv[c].imageTokens <= conv[c].images
    /\ conv[c].state \notin {"terminated", "raised"} => conv[c].imageTokens = conv[c].images

\* The limiter counts right: never more searches than permits, and every permit is
\* free, held by a search, or on its way back.
RateRespected ==
  LET searching == Cardinality({s \in Slots : call[s].at = "searching"})
  IN searching <= RateLimit /\ permits + searching + releases = RateLimit

\* Every conversation ends, whatever its searches do, and leaves nothing behind: no
\* tool instance, and all the permits back in the limiter.
EndsQuietly ==
  <>[](/\ \A c \in Conversations : Over(c)
       /\ \A s \in Slots : ~Live(s)
       /\ permits = RateLimit)

=============================================================================
