-------------------------- MODULE SGLangRollout_proofs -------------------------
(* Proofs about SGLangRollout, for any number of requests and of turns, any   *)
(* lengths, and any share of the requests that is enough: the tools of every  *)
(* answered request are released, and its row renders its conversation.       *)
EXTENDS SGLangRollout, FiniteSetTheorems, SequenceTheorems, WellFoundedInduction, TLAPS

Bits == {0, 1}
Reasons == {"none", "stop", "length", "tool_calls"}
Fields == {"at", "ids", "loss", "messages", "turns", "userTurns", "finish", "held",
           "response", "mask", "logprobs"}

IsRecord(q) == q = [x \in Fields |-> q[x]]

(* The tokens start with the prompt and have a loss mask of their length.     *)
Tokens(q) ==
  /\ q.ids \in Seq(Kinds) /\ q.loss \in Seq(Bits)
  /\ Len(q.loss) = Len(q.ids) /\ Len(q.ids) > 0 /\ q.ids[1] = "prompt"

Row(q) ==
  q.response \in Seq(Kinds) /\ q.mask \in Seq(Bits) /\ Len(q.mask) = Len(q.response)

(* Where a request is in its conversation, apart from what its task awaits.   *)
Open(q) ==
  /\ IsRecord(q) /\ Tokens(q) /\ Row(q)
  /\ q.turns \in 0 .. MaxAssistantTurns /\ q.userTurns \in 0 .. MaxUserTurns
  /\ q.finish \in Reasons /\ q.held \in BOOLEAN

(* Tools are held until the release, which comes with a reason to finish, a   *)
(* task that still converses has turns left, and one at the engine has room.  *)
Good(q) ==
  /\ Open(q)
  /\ q.at \in Awaiting \cup Over
  /\ q.at \in {"logprobs", "returned"} => ~q.held
  /\ q.at = "release" => q.finish \in {"stop", "length"}
  /\ q.at \in {"queued", "create", "start", "engine", "tools", "interaction"} =>
       q.turns < MaxAssistantTurns
  /\ q.at = "engine" => Len(q.ids) + 1 < MaxModelLen

(* What a request says or is told: some tokens, and only a reply has others   *)
(* that end it.                                                               *)
Messages ==
  {m \in [kind : {"assistant", "tool", "user"}, n : Nat, close : Nat] :
     m.n + m.close > 0 /\ (m.kind # "assistant" => m.close = 0)}

(* The tokens of a reply.                                                     *)
Spoken == {"assistant", "close"}

(* What a change of the tokens leaves alone.                                  *)
Kept(q, e) ==
  /\ IsRecord(e)
  /\ e.at = q.at /\ e.turns = q.turns /\ e.userTurns = q.userTurns /\ e.finish = q.finish
  /\ e.held = q.held /\ e.response = q.response /\ e.mask = q.mask

-----------------------------------------------------------------------------
(* The helpers                                                                *)

LEMMA CopiesType ==
  ASSUME NEW n \in Nat, NEW S, NEW x \in S
  PROVE  Copies(n, x) \in Seq(S) /\ Len(Copies(n, x)) = n /\ \A i \in 1 .. n : Copies(n, x)[i] = x
BY DEF Copies

LEMMA UptoType ==
  ASSUME NEW S, NEW s \in Seq(S), NEW n \in Nat
  PROVE  /\ Upto(s, n) \in Seq(S)
         /\ Len(Upto(s, n)) = IF n < Len(s) THEN n ELSE Len(s)
         /\ Len(Upto(s, n)) > 0 => Upto(s, n)[1] = s[1]
BY LenProperties DEF Upto

LEMMA ConcatFirst ==
  ASSUME NEW S, NEW s \in Seq(S), NEW t \in Seq(S), NEW u, u = s \o t, Len(s) > 0
  PROVE  u[1] = s[1]
<1>1. Len(s) \in Nat /\ Len(t) \in Nat
  BY LenProperties
<1>2. QED
  BY <1>1

LEMMA ContentIs ==
  ASSUME NEW m \in Messages, NEW c, c = Content(m)
  PROVE  /\ c \in Seq(Kinds) /\ Len(c) \in Nat /\ Len(c) > 0
         /\ \A i \in 1 .. Len(c) : c[i] \in {m.kind, "close"} /\ c[i] # "gen"
         /\ m.kind # "assistant" => \A i \in 1 .. Len(c) : c[i] = m.kind
<1> DEFINE a == Copies(m.n, m.kind)
           b == Copies(m.close, "close")
<1>1. /\ m.n \in Nat /\ m.close \in Nat /\ m.n + m.close > 0
      /\ m.kind \in {"assistant", "tool", "user"} /\ (m.kind # "assistant" => m.close = 0)
      /\ m.kind \in Kinds /\ "close" \in Kinds /\ m.kind # "gen"
  BY DEF Messages, Kinds
<1>2. /\ a \in Seq(Kinds) /\ Len(a) = m.n /\ \A i \in 1 .. m.n : a[i] = m.kind
      /\ b \in Seq(Kinds) /\ Len(b) = m.close /\ \A i \in 1 .. m.close : b[i] = "close"
  BY <1>1, CopiesType
<1>3. c = a \o b
  BY DEF Content
<1> HIDE DEF a, b
<1>4. c \in Seq(Kinds) /\ Len(c) = m.n + m.close
  <2>1. c \in Seq(Kinds) /\ Len(c) = Len(a) + Len(b)
    BY ONLY <1>2, <1>3, ConcatProperties
  <2> QED BY ONLY <1>2, <2>1
<1>5. ASSUME NEW i \in 1 .. Len(c)
      PROVE  c[i] = IF i <= m.n THEN m.kind ELSE "close"
  <2>1. i \in 1 .. (m.n + m.close)
    BY <1>4
  <2>2. c[i] = IF i <= Len(a) THEN a[i] ELSE b[i - Len(a)]
    BY <1>1, <1>2, <1>3, <2>1
  <2>3. CASE i <= m.n
    BY <1>1, <1>2, <2>1, <2>2, <2>3
  <2>4. CASE i > m.n
    <3>1. i - m.n \in 1 .. m.close
      BY <1>1, <2>1, <2>4
    <3> QED BY <1>1, <1>2, <2>1, <2>2, <2>4, <3>1
  <2> QED BY <1>1, <2>1, <2>3, <2>4
<1>6. m.kind # "assistant" => \A i \in 1 .. Len(c) : i <= m.n
  BY <1>1, <1>4
<1> QED BY <1>1, <1>4, <1>5, <1>6

LEMMA ExtendKeeps ==
  ASSUME NEW q, IsRecord(q), Tokens(q), NEW more \in Seq(Kinds), NEW bit \in Bits,
         NEW e, e = Extend(q, more, bit)
  PROVE  Kept(q, e) /\ Tokens(e)
<1> DEFINE n == Len(more)
           bits == Copies(n, bit)
<1>1. /\ Kept(q, e) /\ e.ids = q.ids \o more /\ e.loss = q.loss \o bits
  BY DEF IsRecord, Fields, Extend, Kept
<1>2. /\ n \in Nat /\ Len(more) = n
      /\ bits \in Seq(Bits) /\ Len(bits) = n
  BY CopiesType, LenProperties
<1> HIDE DEF n, bits
<1>3. /\ e.ids \in Seq(Kinds) /\ Len(e.ids) = Len(q.ids) + n /\ e.ids[1] = q.ids[1]
  <2>1. q.ids \in Seq(Kinds) /\ Len(q.ids) > 0 /\ e.ids = q.ids \o more
    BY <1>1 DEF Tokens
  <2>2. PICK s, u : s = q.ids /\ u = e.ids
    OBVIOUS
  <2>3. /\ s \in Seq(Kinds) /\ u = s \o more
        /\ more \in Seq(Kinds) /\ Len(more) = n
    BY ONLY <1>2, <2>1, <2>2, more \in Seq(Kinds)
  <2>4. u \in Seq(Kinds) /\ Len(u) = Len(s) + n
    <3>1. u \in Seq(Kinds) /\ Len(u) = Len(s) + Len(more)
      BY ONLY <2>3, ConcatProperties
    <3> QED BY ONLY <2>3, <3>1
  <2>5. Len(s) > 0 => u[1] = s[1]
    BY ONLY <2>3, ConcatFirst
  <2>6. QED
    BY ONLY <2>1, <2>2, <2>4, <2>5
<1>4. e.loss \in Seq(Bits) /\ Len(e.loss) = Len(q.loss) + n
  <2>1. q.loss \in Seq(Bits) /\ e.loss = q.loss \o bits
    BY <1>1 DEF Tokens
  <2>2. PICK s, u : s = q.loss /\ u = e.loss
    OBVIOUS
  <2>3. /\ s \in Seq(Bits) /\ u = s \o bits
        /\ bits \in Seq(Bits) /\ Len(bits) = n
    BY ONLY <1>2, <2>1, <2>2
  <2>4. u \in Seq(Bits) /\ Len(u) = Len(s) + n
    <3>1. u \in Seq(Bits) /\ Len(u) = Len(s) + Len(bits)
      BY ONLY <2>3, ConcatProperties
    <3> QED BY ONLY <2>3, <3>1
  <2>5. QED
    BY ONLY <2>2, <2>4
<1>5. QED
  BY <1>1, <1>2, <1>3, <1>4, LenProperties DEF Tokens

LEMMA AddMessageKeeps ==
  ASSUME NEW q, IsRecord(q), Tokens(q), NEW m \in Messages, NEW bit \in Bits,
         NEW e, e = AddMessage(q, m, bit)
  PROVE  Kept(q, e) /\ Tokens(e)
<1> DEFINE c == Content(m)
           x == Extend(q, c, bit)
<1>0. c \in Seq(Kinds)
  BY ContentIs
<1> HIDE DEF c
<1>1. Kept(q, x) /\ Tokens(x)
  BY <1>0, ExtendKeeps
<1> HIDE DEF x
<1>2. e = [x EXCEPT !.messages = Append(@, m)]
  BY DEF AddMessage, x, c
<1>3. Kept(x, e) /\ e.ids = x.ids /\ e.loss = x.loss
  BY <1>1, <1>2 DEF Kept, IsRecord, Fields
<1>4. QED
  BY <1>1, <1>3 DEF Kept, Tokens

LEMMA AnswerIs ==
  ASSUME NEW kind \in {"tool", "user"}, NEW n \in Nat \ {0}
  PROVE  Answer(kind, n) \in Messages /\ Answer(kind, n).kind = kind
BY DEF Answer, Messages

LEMMA ReplyIs ==
  ASSUME NEW n \in Nat, NEW close \in Nat, n + close > 0
  PROVE  Reply(n, close) \in Messages /\ Reply(n, close).kind = "assistant"
BY DEF Reply, Messages

LEMMA RemoveGenKeeps ==
  ASSUME NEW q, IsRecord(q), Tokens(q), NEW e, e = RemoveGen(q)
  PROVE  Kept(q, e) /\ Tokens(e)
<1>1. CASE Last(q.ids) # "gen"
  BY <1>1 DEF RemoveGen, Kept
<1>2. CASE Last(q.ids) = "gen"
  <2>1. Kept(q, e) /\ e.ids = Front(q.ids) /\ e.loss = Front(q.loss)
    BY <1>2 DEF IsRecord, Fields, RemoveGen, Kept
  <2>2. q.ids \in Seq(Kinds) /\ q.loss \in Seq(Bits) /\ Len(q.ids) \in Nat
    BY LenProperties DEF Tokens
  <2>3. Len(q.ids) > 1
    BY <1>2, <2>2 DEF Tokens, Last
  <2>4. /\ Front(q.ids) \in Seq(Kinds) /\ Len(Front(q.ids)) = Len(q.ids) - 1
        /\ Front(q.ids)[1] = q.ids[1]
    BY <2>2, <2>3, ElementOfSeq, SubSeqProperties DEF Front
  <2>5. Front(q.loss) \in Seq(Bits) /\ Len(Front(q.loss)) = Len(q.loss) - 1
    BY <2>2, <2>3, ElementOfSeq, SubSeqProperties DEF Front, Tokens
  <2>6. QED
    BY <2>1, <2>2, <2>3, <2>4, <2>5 DEF Tokens
<1>3. QED
  BY <1>1, <1>2

LEMMA AddGenKeeps ==
  ASSUME NEW q, IsRecord(q), Tokens(q), NEW e, e = AddGen(q)
  PROVE  Kept(q, e) /\ Tokens(e)
<1>1. CASE Last(q.ids) = "gen"
  BY <1>1 DEF AddGen, Kept
<1>2. CASE Last(q.ids) # "gen"
  <2>1. e = Extend(q, << "gen" >>, 0) /\ << "gen" >> \in Seq(Kinds) /\ 0 \in Bits
    BY <1>2 DEF AddGen, Kinds, Bits
  <2>2. QED
    BY <2>1, ExtendKeeps
<1>3. QED
  BY <1>1, <1>2

LEMMA AddToolsKeeps ==
  ASSUME NEW q, IsRecord(q), Tokens(q), NEW n \in Nat, NEW e, e = AddTools(q, n)
  PROVE  Kept(q, e) /\ Tokens(e)
<1>1. CASE n = 0
  BY <1>1 DEF AddTools, Kept
<1>2. CASE n # 0
  <2> DEFINE g == RemoveGen(q)
  <2>1. Kept(q, g) /\ Tokens(g)
    BY RemoveGenKeeps
  <2> HIDE DEF g
  <2>2. e = AddMessage(g, Answer("tool", n), 0) /\ Answer("tool", n) \in Messages /\ 0 \in Bits
    BY <1>2, AnswerIs DEF AddTools, Bits, g
  <2>3. Kept(g, e) /\ Tokens(e)
    BY <2>1, <2>2, AddMessageKeeps DEF Kept
  <2>4. QED
    BY <2>1, <2>3 DEF Kept
<1>3. QED
  BY <1>1, <1>2

LEMMA TruncateKeeps ==
  ASSUME NEW q, IsRecord(q), Tokens(q), NEW e, e = Truncate(q)
  PROVE  /\ IsRecord(e) /\ Tokens(e) /\ Row(e)
         /\ e.at = q.at /\ e.turns = q.turns /\ e.userTurns = q.userTurns
         /\ e.finish = q.finish /\ e.held = q.held
<1> DEFINE ids == Upto(q.ids, RequestLen)
           loss == Upto(q.loss, RequestLen)
           p == Len(PromptIds)
           after(s) == SubSeq(s, p + 1, Len(s))
<1>1. /\ IsRecord(e) /\ e.at = q.at /\ e.turns = q.turns /\ e.userTurns = q.userTurns
      /\ e.finish = q.finish /\ e.held = q.held /\ e.ids = ids /\ e.loss = loss
      /\ e.response = Upto(after(ids), ResponseLength)
      /\ e.mask = Upto(after(loss), ResponseLength)
  BY DEF IsRecord, Fields, Truncate
<1>2. RequestLen \in Nat /\ RequestLen > 0 /\ ResponseLength \in Nat /\ p \in Nat
  BY LengthAssumption DEF RequestLen, PromptIds, Copies
<1> HIDE DEF p
<1>3. /\ ids \in Seq(Kinds) /\ loss \in Seq(Bits) /\ Len(ids) = Len(loss)
      /\ Len(ids) > 0 /\ ids[1] = "prompt"
  BY <1>2, UptoType, LenProperties DEF Tokens
<1> HIDE DEF ids, loss
<1>4. after(ids) \in Seq(Kinds) /\ after(loss) \in Seq(Bits) /\ Len(after(ids)) = Len(after(loss))
  <2>1. ASSUME NEW S, NEW s \in Seq(S)
        PROVE  after(s) \in Seq(S) /\ Len(after(s)) = IF p + 1 <= Len(s) THEN Len(s) - p ELSE 0
    <3>1. Len(s) \in Nat /\ \A i \in p + 1 .. Len(s) : s[i] \in S
      BY <1>2, ElementOfSeq, LenProperties
    <3>2. QED
      BY <1>2, <3>1, SubSeqProperties
  <2>2. QED
    BY <1>3, <2>1
<1> HIDE DEF after
<1>5. Row(e)
  BY <1>1, <1>2, <1>4, UptoType DEF Row
<1>6. QED
  BY <1>1, <1>3, <1>5 DEF Tokens

(* A request that is finished for a known reason is not left raised.         *)
LEMMA FinalizeGood ==
  ASSUME NEW q, Open(q), ~q.held, q.finish \in {"stop", "length"}, NEW e, e = Finalize(q)
  PROVE  Good(e) /\ e.at \in {"logprobs", "returned"}
<1> DEFINE g == RemoveGen(q)
           t == Truncate(g)
<1>1. Kept(q, g) /\ Tokens(g)
  BY RemoveGenKeeps DEF Open
<1> HIDE DEF g
<1>2. /\ IsRecord(t) /\ Tokens(t) /\ Row(t)
      /\ t.turns = g.turns /\ t.userTurns = g.userTurns
      /\ t.finish = g.finish /\ t.held = g.held
  BY <1>1, TruncateKeeps DEF Kept
<1> HIDE DEF t
<1>3. e = [t EXCEPT !.at = IF calcLogProbs THEN "logprobs" ELSE "returned"]
  BY DEF Finalize, g, t
<1>4. /\ IsRecord(e) /\ e.at \in {"logprobs", "returned"}
      /\ e.ids = t.ids /\ e.loss = t.loss /\ e.response = t.response /\ e.mask = t.mask
      /\ e.turns = t.turns /\ e.userTurns = t.userTurns /\ e.finish = t.finish /\ e.held = t.held
  BY <1>2, <1>3 DEF IsRecord, Fields
<1>5. Open(e)
  BY <1>1, <1>2, <1>4 DEF Open, Kept, Tokens, Row
<1>6. QED
  BY <1>1, <1>2, <1>4, <1>5 DEF Good, Kept, Awaiting, Over

(* The end of the loop: only with turns left can the reason be a tool call.  *)
LEMMA LeaveGood ==
  ASSUME NEW q, Open(q), NEW reason \in {"stop", "length", "tool_calls"},
         reason = "tool_calls" => q.turns >= MaxAssistantTurns, NEW e, e = Leave(q, reason)
  PROVE  Good(e) /\ e.at \in {"release", "logprobs", "returned"}
<1> DEFINE why == IF q.turns >= MaxAssistantTurns THEN "stop" ELSE reason
           f == [q EXCEPT !.finish = why]
<1>1. why \in {"stop", "length"}
  OBVIOUS
<1> HIDE DEF why
<1>2. /\ IsRecord(f) /\ f.finish = why /\ f.held = q.held
      /\ f.ids = q.ids /\ f.loss = q.loss /\ f.response = q.response /\ f.mask = q.mask
      /\ f.turns = q.turns /\ f.userTurns = q.userTurns
  BY DEF Open, IsRecord, Fields
<1> HIDE DEF f
<1>3. e = IF f.held THEN [f EXCEPT !.at = "release"] ELSE Finalize(f)
  BY DEF Leave, f, why
<1>4. Open(f)
  BY <1>1, <1>2 DEF Open, Tokens, Row, Reasons
<1>5. CASE f.held
  <2>1. e = [f EXCEPT !.at = "release"]
    BY <1>3, <1>5
  <2>2. /\ IsRecord(e) /\ e.at = "release" /\ e.finish = f.finish /\ e.held = f.held
        /\ e.ids = f.ids /\ e.loss = f.loss /\ e.response = f.response /\ e.mask = f.mask
        /\ e.turns = f.turns /\ e.userTurns = f.userTurns
    BY <1>2, <2>1 DEF IsRecord, Fields
  <2>3. Open(e)
    BY <1>4, <2>2 DEF Open, Tokens, Row
  <2>4. QED
    BY <1>1, <1>2, <2>2, <2>3 DEF Good, Awaiting
<1>6. CASE ~f.held
  BY <1>1, <1>2, <1>3, <1>4, <1>6, FinalizeGood
<1>7. QED
  BY <1>5, <1>6

LEMMA AskGood ==
  ASSUME NEW q, Open(q), q.turns < MaxAssistantTurns, NEW e, e = AskEngine(q)
  PROVE  Good(e) /\ e.at \in {"engine", "release", "logprobs", "returned"}
<1> DEFINE g == AddGen(q)
<1>1. Kept(q, g) /\ Tokens(g)
  BY AddGenKeeps DEF Open
<1> HIDE DEF g
<1>2. Open(g)
  BY <1>1 DEF Open, Kept, Row
<1>3. e = IF Len(g.ids) + 1 >= MaxModelLen THEN Leave(g, "length") ELSE [g EXCEPT !.at = "engine"]
  BY DEF AskEngine, g
<1>4. CASE e = Leave(g, "length")
  BY <1>2, <1>4, LeaveGood
<1>5. CASE e = [g EXCEPT !.at = "engine"] /\ Len(g.ids) + 1 < MaxModelLen
  <2>1. /\ IsRecord(e) /\ e.at = "engine" /\ e.finish = g.finish /\ e.held = g.held
        /\ e.ids = g.ids /\ e.loss = g.loss /\ e.response = g.response /\ e.mask = g.mask
        /\ e.turns = g.turns /\ e.userTurns = g.userTurns
    BY <1>1, <1>5 DEF Kept, IsRecord, Fields
  <2>2. Open(e)
    BY <1>2, <2>1 DEF Open, Tokens, Row
  <2>3. g.turns < MaxAssistantTurns
    BY <1>1 DEF Kept
  <2>4. Len(e.ids) + 1 < MaxModelLen
    BY <1>5, <2>1
  <2>5. QED
    BY <2>1, <2>2, <2>3, <2>4 DEF Good, Awaiting, Over
<1>6. QED
  BY <1>1, <1>3, <1>4, <1>5, LengthAssumption DEF Tokens

(* A change of what the task awaits.                                         *)
LEMMA MoveGood ==
  ASSUME NEW q, Open(q), NEW at,
         at \in {"create", "start", "tools", "raised"},
         at # "raised" => q.turns < MaxAssistantTurns,
         NEW e, e = [q EXCEPT !.at = at]
  PROVE  Good(e) /\ e.at = at
<1>1. /\ IsRecord(e) /\ e.at = at /\ e.finish = q.finish /\ e.held = q.held
      /\ e.ids = q.ids /\ e.loss = q.loss /\ e.response = q.response /\ e.mask = q.mask
      /\ e.turns = q.turns /\ e.userTurns = q.userTurns
  BY DEF Open, IsRecord, Fields
<1>2. Open(e)
  BY <1>1 DEF Open, Tokens, Row
<1>3. QED
  BY <1>1, <1>2 DEF Good, Awaiting, Over

-----------------------------------------------------------------------------
(* The tasks                                                                 *)

(* What a step of a task makes of its request.                               *)
Advances(r, q) ==
  /\ Becomes(r, q) /\ phase = "waiting" /\ req[r].at \in Awaiting
  /\ Good(q) /\ q.at \in Awaiting \cup {"returned"}

GoodInv ==
  /\ req = [r \in Requests |-> req[r]]
  /\ \A r \in Requests : Good(req[r])
  /\ validate \in BOOLEAN /\ calcLogProbs \in BOOLEAN /\ skipTokenizer \in BOOLEAN
  /\ fault \in BOOLEAN
  /\ phase \in {"waiting", "gathered", "built", "failed"}
  /\ counted \subseteq Requests

LEMMA BeginAdvances ==
  ASSUME GoodInv, NEW r \in Requests,
         \/ Begin(r) \/ StartInteraction(r)
         \/ \E n \in 0 .. MaxToolTokens : CreateTools(r, n)
  PROVE  \E q : Advances(r, q)
<1> USE DEF Advances, Running, Awaiting
<1>1. Open(req[r]) /\ Good(req[r])
  BY DEF GoodInv, Good
<1>2. CASE Begin(r)
  <2>1. req[r].turns < MaxAssistantTurns
    BY <1>1, <1>2 DEF Good, Begin
  <2>2. CASE Becomes(r, [req[r] EXCEPT !.at = "create"])
    BY <1>1, <1>2, <2>1, <2>2, MoveGood DEF Begin
  <2>3. CASE Becomes(r, [req[r] EXCEPT !.at = "start"])
    BY <1>1, <1>2, <2>1, <2>3, MoveGood DEF Begin
  <2>4. CASE Becomes(r, AskEngine(req[r]))
    BY <1>1, <1>2, <2>1, <2>4, AskGood DEF Begin
  <2>5. QED
    BY <1>2, <2>2, <2>3, <2>4 DEF Begin
<1>3. ASSUME NEW n \in 0 .. MaxToolTokens, CreateTools(r, n)
      PROVE  \E q : Advances(r, q)
  <2> DEFINE h == [req[r] EXCEPT !.held = TRUE]
             q == AddTools(h, n)
  <2>1. /\ IsRecord(h) /\ h.finish = req[r].finish /\ h.held = TRUE
        /\ h.ids = req[r].ids /\ h.loss = req[r].loss
        /\ h.response = req[r].response /\ h.mask = req[r].mask
        /\ h.turns = req[r].turns /\ h.userTurns = req[r].userTurns
    BY <1>1 DEF Open, IsRecord, Fields
  <2>2. \/ Becomes(r, [q EXCEPT !.at = "start"])
        \/ Becomes(r, AskEngine(q))
    BY <1>3 DEF CreateTools
  <2>3. phase = "waiting" /\ req[r].at = "create"
    BY <1>3 DEF CreateTools
  <2> HIDE DEF h
  <2>4. Open(h) /\ h.turns < MaxAssistantTurns
    BY <1>1, <2>1, <2>3 DEF Open, Tokens, Row, Good
  <2>5. Kept(h, q) /\ Tokens(q)
    <3>1. n \in Nat
      BY LengthAssumption
    <3>2. QED
      BY <2>4, <3>1, AddToolsKeeps DEF Open
  <2> HIDE DEF q
  <2>6. Open(q) /\ q.turns < MaxAssistantTurns
    BY <2>4, <2>5 DEF Open, Kept, Row
  <2>7. QED
    BY <2>2, <2>3, <2>6, MoveGood, AskGood
<1>4. CASE StartInteraction(r)
  <2>1. req[r].turns < MaxAssistantTurns
    BY <1>1, <1>4 DEF Good, StartInteraction
  <2>2. QED
    BY <1>1, <1>4, <2>1, AskGood DEF StartInteraction
<1>5. QED
  BY <1>2, <1>3, <1>4

(* Every reply has a token, of its text or to end it.                        *)
LEMMA RepliesAre ==
  ASSUME NEW q, NEW m \in Sampled(q) \cup Retokenized, Len(q.ids) \in Nat
  PROVE  m \in Messages /\ m.kind = "assistant"
<1>1. MaxReply \in Nat /\ MaxNewTokens(q) \in Int
  BY LengthAssumption DEF MaxNewTokens
<1>2. CASE m \in Sampled(q)
  <2>1. PICK n \in 0 .. MaxReply, stop \in {0, 1} : m = Reply(n, stop)
    BY <1>2 DEF Sampled
  <2>2. m.n = n /\ m.close = stop
    BY <2>1 DEF Reply
  <2>3. n \in Nat /\ stop \in Nat /\ n + stop > 0
    BY <1>1, <1>2, <2>2 DEF Sampled
  <2>4. QED
    BY <2>1, <2>3, ReplyIs
<1>3. CASE m \in Retokenized
  <2>1. PICK n \in 0 .. MaxReply : m = Reply(n, 2)
    BY <1>3 DEF Retokenized
  <2>2. n \in Nat /\ 2 \in Nat /\ n + 2 > 0
    BY <1>1
  <2>3. QED
    BY <2>1, <2>2, ReplyIs
<1>4. QED
  BY <1>2, <1>3

(* What the answer of the engine makes of its request.                       *)
Answered(r, q) ==
  \/ \E reason \in {"stop", "length"} : Becomes(r, Leave(q, reason))
  \/ q.turns >= MaxAssistantTurns /\ Becomes(r, Leave(q, "tool_calls"))
  \/ q.turns < MaxAssistantTurns /\ Becomes(r, [q EXCEPT !.at = "tools"])
  \/ /\ q.userTurns < MaxUserTurns /\ q.turns < MaxAssistantTurns
     /\ Becomes(r, [q EXCEPT !.at = "interaction", !.userTurns = @ + 1])

LEMMA ReplyArrives ==
  ASSUME NEW r \in Requests, EngineReplies(r), Open(req[r])
  PROVE  \E m \in Messages : m.kind = "assistant" /\ Answered(r, WithReply(req[r], m))
<1>1. Len(req[r].ids) \in Nat /\ IsRecord(req[r]) /\ req[r].turns \in Nat
  BY LenProperties DEF Open, Tokens
<1>2. ASSUME NEW m \in Messages PROVE WithReply(req[r], m).turns = req[r].turns + 1
  BY <1>1 DEF WithReply, AddMessage, Extend, IsRecord, Fields
<1>3. MaxAssistantTurns \in Nat
  BY LengthAssumption
<1>4. CASE \E m \in IF skipTokenizer THEN Sampled(req[r]) ELSE Retokenized :
             LET q == WithReply(req[r], m)
             IN \/ m.close # 1 /\ Becomes(r, Leave(q, "length"))
                \/ WithTools # {} /\ Becomes(r, Leave(q, "stop"))
                \/ Becomes(r, IF /\ r \in WithInteraction /\ q.userTurns < MaxUserTurns
                                 /\ req[r].turns + 1 < MaxAssistantTurns
                              THEN [q EXCEPT !.at = "interaction", !.userTurns = @ + 1]
                              ELSE Leave(q, "stop"))
  <2>1. PICK m \in IF skipTokenizer THEN Sampled(req[r]) ELSE Retokenized :
             LET q == WithReply(req[r], m)
             IN \/ m.close # 1 /\ Becomes(r, Leave(q, "length"))
                \/ WithTools # {} /\ Becomes(r, Leave(q, "stop"))
                \/ Becomes(r, IF /\ r \in WithInteraction /\ q.userTurns < MaxUserTurns
                                 /\ req[r].turns + 1 < MaxAssistantTurns
                              THEN [q EXCEPT !.at = "interaction", !.userTurns = @ + 1]
                              ELSE Leave(q, "stop"))
    BY <1>4
  <2>2. m \in Messages /\ m.kind = "assistant"
    BY <1>1, RepliesAre
  <2> DEFINE q == WithReply(req[r], m)
  <2>3. q.turns = req[r].turns + 1
    BY <1>2, <2>2
  <2>4. \/ Becomes(r, Leave(q, "length"))
        \/ Becomes(r, Leave(q, "stop"))
        \/ /\ q.userTurns < MaxUserTurns /\ req[r].turns + 1 < MaxAssistantTurns
           /\ Becomes(r, [q EXCEPT !.at = "interaction", !.userTurns = @ + 1])
    BY <2>1
  <2> HIDE DEF q
  <2>5. Answered(r, q)
    BY <2>3, <2>4 DEF Answered
  <2>6. QED
    BY <2>2, <2>5 DEF q
<1>5. CASE \E m \in Retokenized :
             LET q == WithReply(req[r], m)
             IN Becomes(r, IF req[r].turns + 1 < MaxAssistantTurns THEN [q EXCEPT !.at = "tools"]
                           ELSE Leave(q, "tool_calls"))
  <2>1. PICK m \in Retokenized :
             LET q == WithReply(req[r], m)
             IN Becomes(r, IF req[r].turns + 1 < MaxAssistantTurns THEN [q EXCEPT !.at = "tools"]
                           ELSE Leave(q, "tool_calls"))
    BY <1>5
  <2>2. m \in Messages /\ m.kind = "assistant"
    BY <1>1, RepliesAre
  <2> DEFINE q == WithReply(req[r], m)
  <2>3. q.turns = req[r].turns + 1
    BY <1>2, <2>2
  <2>4. Becomes(r, IF req[r].turns + 1 < MaxAssistantTurns THEN [q EXCEPT !.at = "tools"]
                   ELSE Leave(q, "tool_calls"))
    BY <2>1
  <2> HIDE DEF q
  <2>5. Answered(r, q)
    BY <1>1, <1>3, <2>3, <2>4 DEF Answered
  <2>6. QED
    BY <2>2, <2>5 DEF q
<1>6. QED
  BY <1>4, <1>5 DEF EngineReplies

LEMMA EngineAdvances ==
  ASSUME GoodInv, NEW r \in Requests, EngineReplies(r)
  PROVE  \E q : Advances(r, q)
<1> USE DEF Advances, Running, Awaiting
<1>1. /\ Open(req[r]) /\ Good(req[r]) /\ req[r].at = "engine" /\ phase = "waiting"
      /\ req[r].turns \in Nat /\ req[r].turns < MaxAssistantTurns
  <2>1. req[r].at = "engine" /\ phase = "waiting"
    BY DEF EngineReplies
  <2>2. Good(req[r])
    BY DEF GoodInv
  <2>3. Open(req[r]) /\ req[r].turns < MaxAssistantTurns
    BY <2>1, <2>2 DEF Good
  <2>4. QED
    BY <2>1, <2>2, <2>3 DEF Open
<1>0. PICK reply \in Messages : Answered(r, WithReply(req[r], reply))
  BY <1>1, ReplyArrives
<1> DEFINE m == AddMessage(req[r], reply, 1)
           q == WithReply(req[r], reply)
<1>2. Kept(req[r], m) /\ Tokens(m)
  <2>1. 1 \in Bits
    BY DEF Bits
  <2>2. QED
    BY <1>1, <2>1, AddMessageKeeps DEF Open
<1>a. q = [m EXCEPT !.turns = @ + 1]
  BY DEF WithReply
<1> HIDE DEF m, q
<1>3. /\ IsRecord(q) /\ q.finish = req[r].finish /\ q.held = req[r].held
      /\ q.ids = m.ids /\ q.loss = m.loss
      /\ q.response = req[r].response /\ q.mask = req[r].mask
      /\ q.turns = req[r].turns + 1 /\ q.userTurns = req[r].userTurns
  BY <1>2, <1>a DEF Kept, IsRecord, Fields
<1>4. Open(q)
  <2>1. q.turns \in 0 .. MaxAssistantTurns
    BY ONLY <1>1, <1>3, LengthAssumption
  <2>2. Tokens(q)
    BY ONLY <1>2, <1>3 DEF Tokens
  <2>3. QED
    BY <1>1, <1>3, <2>1, <2>2 DEF Open, Row
<1>5. CASE \/ \E reason \in {"stop", "length"} : Becomes(r, Leave(q, reason))
           \/ q.turns >= MaxAssistantTurns /\ Becomes(r, Leave(q, "tool_calls"))
  BY <1>1, <1>4, <1>5, LeaveGood
<1>6. CASE q.turns < MaxAssistantTurns /\ Becomes(r, [q EXCEPT !.at = "tools"])
  BY <1>1, <1>4, <1>6, MoveGood
<1>7. CASE /\ Becomes(r, [q EXCEPT !.at = "interaction", !.userTurns = @ + 1])
           /\ q.userTurns < MaxUserTurns /\ q.turns < MaxAssistantTurns
  <2> DEFINE e == [q EXCEPT !.at = "interaction", !.userTurns = @ + 1]
  <2>1. /\ IsRecord(e) /\ e.at = "interaction" /\ e.finish = q.finish /\ e.held = q.held
        /\ e.ids = q.ids /\ e.loss = q.loss /\ e.response = q.response /\ e.mask = q.mask
        /\ e.turns = q.turns /\ e.userTurns = q.userTurns + 1
    BY <1>4 DEF Open, IsRecord, Fields
  <2> HIDE DEF e
  <2>2. Open(e)
    <3>1. q.userTurns \in 0 .. MaxUserTurns
      BY <1>4 DEF Open
    <3>2. e.userTurns \in 0 .. MaxUserTurns
      BY ONLY <1>7, <2>1, <3>1, LengthAssumption
    <3>3. QED
      BY <1>4, <2>1, <3>2 DEF Open, Tokens, Row
  <2>3. Good(e)
    BY <1>7, <2>1, <2>2 DEF Good
  <2>4. QED
    BY <1>1, <1>7, <2>1, <2>3 DEF e
<1>8. QED
  BY <1>0, <1>5, <1>6, <1>7 DEF Answered, q

LEMMA AnswerAdvances ==
  ASSUME GoodInv, NEW r \in Requests,
         \/ \E n \in 0 .. MaxToolTokens : ToolsReply(r, n)
         \/ InteractionReplies(r)
  PROVE  \E q : Advances(r, q)
<1> USE DEF Advances, Running, Awaiting
<1>1. /\ Open(req[r]) /\ Good(req[r]) /\ phase = "waiting"
      /\ req[r].at \in {"tools", "interaction"} /\ req[r].turns < MaxAssistantTurns
  BY DEF GoodInv, Good, ToolsReply, InteractionReplies
<1>2. ASSUME NEW q, Kept(req[r], q), Tokens(q) PROVE Open(q) /\ q.turns < MaxAssistantTurns
  BY <1>1, <1>2 DEF Open, Kept, Row
<1>3. ASSUME NEW q, Open(q), q.turns < MaxAssistantTurns,
             Becomes(r, IF RowsFull THEN Leave(q, "stop") ELSE AskEngine(q))
      PROVE  \E e : Advances(r, e)
  BY <1>1, <1>3, LeaveGood, AskGood
<1>4. ASSUME NEW n \in 0 .. MaxToolTokens, ToolsReply(r, n) PROVE \E q : Advances(r, q)
  <2> DEFINE q == AddTools(req[r], n)
  <2>1. n \in Nat
    BY LengthAssumption
  <2>2. Kept(req[r], q) /\ Tokens(q)
    BY <1>1, <2>1, AddToolsKeeps DEF Open
  <2>3. Becomes(r, IF RowsFull THEN Leave(q, "stop") ELSE AskEngine(q))
    BY <1>4 DEF ToolsReply
  <2> HIDE DEF q
  <2>4. QED
    BY <1>2, <1>3, <2>2, <2>3
<1>5. CASE InteractionReplies(r)
  <2> DEFINE q == AddMessage(req[r], Answer("user", 1), 0)
  <2>1. Kept(req[r], q) /\ Tokens(q)
    <3>1. Answer("user", 1) \in Messages /\ 0 \in Bits
      BY AnswerIs DEF Bits
    <3>2. QED
      BY <1>1, <3>1, AddMessageKeeps DEF Open
  <2>2. \/ Becomes(r, Leave(req[r], "stop"))
        \/ Becomes(r, IF RowsFull THEN Leave(q, "stop") ELSE AskEngine(q))
    BY <1>5 DEF InteractionReplies
  <2> HIDE DEF q
  <2>3. CASE Becomes(r, Leave(req[r], "stop"))
    BY <1>1, <2>3, LeaveGood
  <2>4. QED
    BY <1>2, <1>3, <2>1, <2>2, <2>3
<1>6. QED
  BY <1>4, <1>5

LEMMA EndAdvances ==
  ASSUME GoodInv, NEW r \in Requests, ReleaseTools(r) \/ TakeLogProbs(r)
  PROVE  \E q : Advances(r, q)
<1> USE DEF Advances, Running, Awaiting
<1>1. Open(req[r]) /\ Good(req[r])
  BY DEF GoodInv, Good
<1>2. CASE ReleaseTools(r)
  <2> DEFINE q == [req[r] EXCEPT !.held = FALSE]
  <2>1. /\ IsRecord(q) /\ q.finish = req[r].finish /\ q.held = FALSE
        /\ q.ids = req[r].ids /\ q.loss = req[r].loss
        /\ q.response = req[r].response /\ q.mask = req[r].mask
        /\ q.turns = req[r].turns /\ q.userTurns = req[r].userTurns
    BY <1>1 DEF Open, IsRecord, Fields
  <2>2. Becomes(r, Finalize(q)) /\ req[r].at = "release" /\ phase = "waiting"
    BY <1>2 DEF ReleaseTools
  <2> HIDE DEF q
  <2>3. Open(q) /\ ~q.held /\ q.finish \in {"stop", "length"}
    BY <1>1, <2>1, <2>2 DEF Open, Tokens, Row, Good
  <2>4. QED
    BY <2>2, <2>3, FinalizeGood
<1>3. CASE TakeLogProbs(r)
  <2>1. PICK logs : Becomes(r, [req[r] EXCEPT !.at = "returned", !.logprobs = logs])
    BY <1>3 DEF TakeLogProbs
  <2> DEFINE q == [req[r] EXCEPT !.at = "returned", !.logprobs = logs]
  <2>2. /\ IsRecord(q) /\ q.at = "returned" /\ q.finish = req[r].finish /\ q.held = req[r].held
        /\ q.ids = req[r].ids /\ q.loss = req[r].loss
        /\ q.response = req[r].response /\ q.mask = req[r].mask
        /\ q.turns = req[r].turns /\ q.userTurns = req[r].userTurns
    BY <1>1 DEF Open, IsRecord, Fields
  <2>3. req[r].at = "logprobs" /\ phase = "waiting"
    BY <1>3 DEF TakeLogProbs
  <2> HIDE DEF q
  <2>4. Open(q)
    BY <1>1, <2>2 DEF Open, Tokens, Row
  <2>5. Good(q)
    BY <1>1, <2>2, <2>3, <2>4 DEF Good, Over
  <2>6. QED
    BY <2>1, <2>2, <2>3, <2>5 DEF q
<1>4. QED
  BY <1>2, <1>3

-----------------------------------------------------------------------------
(* The batch                                                                 *)

(* Padding replaces the aborted requests of a batch that is not validated;   *)
(* a raised request has met a fault; the tasks that were counted returned.   *)
BatchInv ==
  /\ \A r \in Requests : req[r].at = "padded" => phase # "waiting" /\ ~validate
  /\ \A r \in Requests : req[r].at = "raised" => fault
  /\ phase # "failed" => \A r \in counted : req[r].at = "returned"
  /\ phase \in {"gathered", "built"} =>
       /\ \A r \in Requests : IsOver(r)
       /\ IF validate THEN \A r \in Requests : req[r].at = "returned"
          ELSE Cardinality(counted) >= Target
  /\ phase = "built" => \A r \in Requests : req[r].at # "raised"
  /\ phase = "failed" => fault \/ (calcLogProbs /\ \E r \in Requests : req[r].at = "padded")

RolloutInv == GoodInv /\ BatchInv

LEMMA RolloutInit == Init => RolloutInv
<1> SUFFICES ASSUME Init PROVE RolloutInv
  OBVIOUS
<1>1. Open(NewRequest)
  <2>1. IsRecord(NewRequest)
    BY DEF IsRecord, Fields, NewRequest
  <2>2. /\ PromptIds \in Seq(Kinds) /\ Len(PromptIds) = PromptTokens + 1
        /\ PromptIds[1] = "prompt"
    BY LengthAssumption DEF PromptIds, Copies, Kinds
  <2>3. Copies(Len(PromptIds), 0) \in Seq(Bits) /\ Len(Copies(Len(PromptIds), 0)) = Len(PromptIds)
    BY <2>2, CopiesType, LengthAssumption DEF Bits
  <2>4. Tokens(NewRequest)
    BY <2>2, <2>3, LengthAssumption DEF Tokens, NewRequest
  <2>5. QED
    BY <2>1, <2>4, LengthAssumption DEF Open, Row, NewRequest, Reasons
<1>2. Good(NewRequest) /\ NewRequest.at = "queued"
  BY <1>1, LengthAssumption DEF Good, NewRequest, Awaiting
<1>3. GoodInv
  BY <1>2 DEF Init, GoodInv
<1>4. BatchInv
  BY <1>2 DEF Init, BatchInv
<1>5. QED
  BY <1>3, <1>4 DEF RolloutInv

(* A padding request is one like any other to the batch.                     *)
LEMMA PaddingGood ==
  ASSUME NEW held \in BOOLEAN, NEW e, e = [Padding EXCEPT !.held = held]
  PROVE  Good(e) /\ e.at = "padded" /\ e.held = held
<1>1. PromptIds \in Seq(Kinds) /\ Len(PromptIds) = PromptTokens + 1 /\ PromptIds[1] = "prompt"
  BY SMTT(30), LengthAssumption DEF PromptIds, Copies, Kinds
<1>2. Copies(Len(PromptIds), 0) \in Seq(Bits) /\ Len(Copies(Len(PromptIds), 0)) = Len(PromptIds)
  BY SMTT(30), <1>1, CopiesType, LengthAssumption DEF Bits
<1>3. /\ Copies(ResponseLength, "pad") \in Seq(Kinds) /\ Copies(ResponseLength, 0) \in Seq(Bits)
      /\ Len(Copies(ResponseLength, "pad")) = Len(Copies(ResponseLength, 0))
  <2>1. "pad" \in Kinds /\ 0 \in Bits /\ ResponseLength \in Nat
    BY LengthAssumption DEF Bits, Kinds
  <2>2. /\ Copies(ResponseLength, "pad") \in Seq(Kinds)
        /\ Len(Copies(ResponseLength, "pad")) = ResponseLength
    BY ONLY <2>1, CopiesType
  <2>3. /\ Copies(ResponseLength, 0) \in Seq(Bits)
        /\ Len(Copies(ResponseLength, 0)) = ResponseLength
    BY ONLY <2>1, CopiesType
  <2>4. QED
    BY <2>2, <2>3
<1>4. /\ IsRecord(e) /\ e.at = "padded" /\ e.held = held /\ e.ids = PromptIds
      /\ e.loss = Copies(Len(PromptIds), 0) /\ e.response = Copies(ResponseLength, "pad")
      /\ e.mask = Copies(ResponseLength, 0) /\ e.turns = 0 /\ e.userTurns = 0 /\ e.finish = "none"
  BY DEF IsRecord, Fields, Padding, NewRequest
<1>5. Open(e)
  BY SMTT(30), <1>1, <1>2, <1>3, <1>4, LengthAssumption DEF Open, Tokens, Row, Reasons
<1>6. QED
  BY <1>4, <1>5 DEF Good, Over

LEMMA AdvanceKeeps ==
  ASSUME RolloutInv, NEW r \in Requests, NEW q, Advances(r, q)
  PROVE  RolloutInv'
<1>1. /\ req' = [req EXCEPT ![r] = q] /\ UNCHANGED <<settings, phase, counted, fault>>
      /\ phase = "waiting" /\ req[r].at \in Awaiting /\ Good(q) /\ q.at \in Awaiting \cup {"returned"}
  BY DEF Advances, Becomes
<1>2. GoodInv'
  BY <1>1 DEF RolloutInv, GoodInv, Good, Open, settings
<1>3. BatchInv'
  BY <1>1 DEF RolloutInv, GoodInv, BatchInv, Awaiting, settings
<1>4. QED
  BY <1>2, <1>3 DEF RolloutInv

LEMMA RaiseKeeps ==
  ASSUME RolloutInv, NEW r \in Requests, CallRaises(r)
  PROVE  RolloutInv'
<1> DEFINE q == [req[r] EXCEPT !.at = "raised"]
<1>1. Open(req[r]) /\ req = [s \in Requests |-> req[s]]
  BY DEF RolloutInv, GoodInv, Good
<1>2. Good(q) /\ q.at = "raised"
  BY <1>1, MoveGood
<1>3. /\ req' = [req EXCEPT ![r] = q] /\ fault' = TRUE /\ UNCHANGED <<settings, phase, counted>>
      /\ phase = "waiting" /\ req[r].at \in Awaiting
  <2>1. req' = [req EXCEPT ![r].at = "raised"]
    BY DEF CallRaises
  <2>2. QED
    BY <2>1 DEF CallRaises
<1> HIDE DEF q
<1>4. GoodInv'
  BY <1>2, <1>3 DEF RolloutInv, GoodInv, settings
<1>5. BatchInv'
  BY <1>2, <1>3 DEF RolloutInv, GoodInv, BatchInv, Awaiting, settings
<1>6. QED
  BY <1>4, <1>5 DEF RolloutInv

LEMMA TaskKeeps ==
  ASSUME RolloutInv, NEW r \in Requests, TaskStep(r)
  PROVE  RolloutInv'
<1>1. GoodInv
  BY DEF RolloutInv
<1>2. CASE CallRaises(r)
  BY <1>2, RaiseKeeps
<1>3. CASE \E q : Advances(r, q)
  BY <1>3, AdvanceKeeps
<1>4. QED
  BY <1>1, <1>2, <1>3, BeginAdvances, EngineAdvances, AnswerAdvances, EndAdvances DEF TaskStep

LEMMA TakeKeeps ==
  ASSUME RolloutInv, NEW r \in Requests, TakeCompleted(r)
  PROVE  RolloutInv'
<1> DEFINE raises == req[r].at = "raised"
           enough == Cardinality(counted') >= Target \/ counted' = Requests
<1>1. /\ phase = "waiting" /\ ~validate /\ IsOver(r) /\ counted' = counted \cup {r}
      /\ req' = IF raises \/ enough THEN CancelOthers ELSE req
      /\ phase' = IF raises THEN "failed" ELSE IF enough THEN "gathered" ELSE "waiting"
      /\ UNCHANGED <<settings, fault>>
  BY DEF TakeCompleted
<1>2. /\ GoodInv /\ BatchInv /\ counted' \subseteq Requests
      /\ req = [s \in Requests |-> req[s]]
  BY <1>1 DEF RolloutInv, GoodInv
<1>3. ~raises => req[r].at = "returned"
  BY <1>1, <1>2 DEF BatchInv, IsOver, Over
<1>4. enough => Cardinality(counted') >= Target
  <2>1. Cardinality(Requests) = N /\ Target <= N
    BY FS_Interval, LengthAssumption, TargetAssumption DEF Requests
  <2>2. QED
    BY <2>1, LengthAssumption, TargetAssumption
<1> HIDE DEF raises, enough
<1>5. ASSUME NEW s \in Requests
      PROVE  /\ Good(CancelOthers[s])
             /\ CancelOthers[s].at \in Over
             /\ IsOver(s) => CancelOthers[s] = req[s]
             /\ ~IsOver(s) => CancelOthers[s].at = "padded"
  <2>1. CASE IsOver(s)
    BY <1>2, <2>1 DEF CancelOthers, GoodInv, IsOver
  <2>2. CASE ~IsOver(s)
    <3>1. req[s].held \in BOOLEAN /\ CancelOthers[s] = [Padding EXCEPT !.held = req[s].held]
      BY <1>2, <2>2 DEF CancelOthers, GoodInv, Good, Open
    <3>2. QED
      BY <2>2, <3>1, PaddingGood DEF Over
  <2>3. QED
    BY <2>1, <2>2
<1>6. CancelOthers = [s \in Requests |-> CancelOthers[s]]
  BY DEF CancelOthers
<1>7. GoodInv'
  BY <1>1, <1>2, <1>5, <1>6 DEF GoodInv, settings
<1>8. BatchInv'
  <2>1. CASE raises
    <3>1. phase' = "failed" /\ fault' /\ req' = CancelOthers
      BY <1>1, <1>2, <2>1 DEF BatchInv, raises
    <3>2. \A s \in Requests : req'[s].at = "raised" => fault'
      BY <3>1
    <3>3. QED
      BY <1>1, <3>1, <3>2 DEF BatchInv, settings
  <2>2. CASE ~raises /\ enough
    <3>1. phase' = "gathered" /\ req' = CancelOthers
      BY <1>1, <2>2
    <3>2. \A s \in counted' : req'[s].at = "returned"
      BY <1>1, <1>2, <1>3, <1>5, <2>2, <3>1 DEF BatchInv, IsOver, Over, GoodInv
    <3>3. \A s \in Requests : req'[s].at = "raised" => fault'
      BY <1>1, <1>2, <1>5, <3>1 DEF BatchInv
    <3>4. QED
      BY <1>1, <1>4, <1>5, <2>2, <3>1, <3>2, <3>3 DEF BatchInv, IsOver, settings
  <2>3. CASE ~raises /\ ~enough
    BY <1>1, <1>2, <1>3, <2>3 DEF BatchInv, IsOver, settings
  <2>4. QED
    BY <2>1, <2>2, <2>3
<1>9. QED
  BY <1>7, <1>8 DEF RolloutInv

LEMMA RolloutNext == RolloutInv /\ [Next]_vars => RolloutInv'
<1> SUFFICES ASSUME RolloutInv, [Next]_vars PROVE RolloutInv'
  OBVIOUS
<1>1. CASE GatherAll
  BY <1>1 DEF GatherAll, RolloutInv, GoodInv, BatchInv, IsOver, Over, settings
<1>2. CASE Build
  BY <1>2 DEF Build, BuildFails, RolloutInv, GoodInv, BatchInv, IsOver, Over, settings
<1>3. CASE UNCHANGED vars
  BY <1>3 DEF vars, settings, RolloutInv, GoodInv, BatchInv, IsOver
<1>4. QED
  BY <1>1, <1>2, <1>3, TaskKeeps, TakeKeeps DEF Next, BatchStep, Terminated

THEOREM RolloutInvariant == Spec => []RolloutInv
BY RolloutInit, RolloutNext, PTL DEF Spec

(* TypeOK: the requests keep their types, and a loss mask for every token, at *)
(* every await, whatever the template's helpers append and remove.           *)
THEOREM TypeCorrect == Spec => []TypeOK
<1>1. ASSUME RolloutInv PROVE TypeOK
  <2>1. ASSUME NEW S, NEW s \in Seq(S) PROVE Range(s) \subseteq S
    BY LenProperties DEF Range
  <2>2. QED
    BY <1>1, <2>1 DEF RolloutInv, GoodInv, Good, Open, Tokens, Row, Reasons, TypeOK
<1>2. QED
  BY <1>1, RolloutInvariant, PTL

(* ToolsReleased: a request of a batch that was built has released its tools, *)
(* on every way out of its loop, unless it was aborted.                      *)
THEOREM ToolsAreReleased == Spec => []ToolsReleased
<1>1. RolloutInv => ToolsReleased
  BY DEF RolloutInv, GoodInv, BatchInv, Good, Open, IsOver, Over, ToolsReleased
<1>2. QED
  BY <1>1, RolloutInvariant, PTL

(* EnoughAnswered: a batch is built from enough finished conversations, and  *)
(* nothing but a call that raised or the missing log probabilities of an     *)
(* aborted request keeps it from being built.                                *)
THEOREM EnoughReturned == Spec => []EnoughAnswered
<1>1. ASSUME RolloutInv PROVE EnoughAnswered
  <2> DEFINE returned == {r \in Requests : req[r].at = "returned"}
  <2>1. IsFiniteSet(Requests) /\ Cardinality(Requests) = N
    BY FS_Interval, LengthAssumption DEF Requests
  <2>2. IsFiniteSet(returned) /\ Cardinality(returned) \in Nat
    BY <2>1, FS_Subset, FS_CardinalityType
  <2>3. CASE phase = "built" /\ validate
    <3>1. returned = Requests
      BY <1>1, <2>3 DEF RolloutInv, BatchInv
    <3>2. Cardinality(returned) = N
      BY ONLY <2>1, <3>1
    <3>3. N >= N
      BY LengthAssumption
    <3>4. QED
      BY <2>3, <3>2, <3>3 DEF EnoughAnswered
  <2>4. CASE phase = "built" /\ ~validate
    <3>1. counted \subseteq returned /\ Cardinality(counted) >= Target
      BY <1>1, <2>4 DEF RolloutInv, GoodInv, BatchInv
    <3>2. Cardinality(counted) <= Cardinality(returned) /\ Cardinality(counted) \in Nat
      BY <2>2, <3>1, FS_Subset, FS_CardinalityType
    <3>3. Target \in Nat
      BY TargetAssumption, LengthAssumption
    <3>4. QED
      BY <2>2, <2>4, <3>1, <3>2, <3>3 DEF EnoughAnswered
  <2>5. CASE phase # "built"
    BY <1>1, <2>5 DEF RolloutInv, BatchInv, EnoughAnswered
  <2>6. QED
    BY <2>3, <2>4, <2>5
<1>2. QED
  BY <1>1, RolloutInvariant, PTL

-----------------------------------------------------------------------------
(* The batch goes on                                                         *)

(* While the batch waits, a call of some task is to be answered, by an engine *)
(* that has room for a token, or the wait has something to take: a completed *)
(* task it has not counted, an exception, or the answer of every request.    *)
BatchGoesOn ==
  phase = "waiting" =>
    /\ \A r \in Requests : req[r].at = "engine" => MaxNewTokens(req[r]) > 0
    /\ \/ \E r \in Requests : req[r].at \in Awaiting
       \/ ~validate /\ \E r \in Requests : IsOver(r) /\ r \notin counted
       \/ validate /\ \/ \E r \in Requests : req[r].at = "raised"
                      \/ \A r \in Requests : req[r].at = "returned"

(* The wait ends with the last completed task, whatever share was enough.    *)
WaitsForSome == phase = "waiting" => counted # Requests

LEMMA NotAllCounted ==
  /\ Init => WaitsForSome
  /\ WaitsForSome /\ [Next]_vars => WaitsForSome'
<1>1. Init => WaitsForSome
  <2>1. 1 \in Requests
    BY LengthAssumption DEF Requests
  <2>2. Init => counted = {}
    BY DEF Init
  <2>3. QED
    BY <2>1, <2>2 DEF WaitsForSome
<1>2. ASSUME phase = "waiting" => counted # Requests, [Next]_vars, phase' = "waiting"
      PROVE  counted' # Requests
  <2>1. CASE \E r \in Requests : TakeCompleted(r)
    BY <1>2, <2>1 DEF TakeCompleted
  <2>2. CASE UNCHANGED <<phase, counted>>
    BY <1>2, <2>2
  <2>3. CASE GatherAll \/ Build
    BY <1>2, <2>3 DEF GatherAll, Build
  <2>4. ASSUME NEW r \in Requests, TaskStep(r) PROVE UNCHANGED <<phase, counted>>
    BY <2>4
    DEF TaskStep, Begin, CreateTools, StartInteraction, EngineReplies, ToolsReply,
        InteractionReplies, ReleaseTools, TakeLogProbs, CallRaises, Becomes
  <2>5. QED
    BY <1>2, <2>1, <2>2, <2>3, <2>4 DEF Next, BatchStep, Terminated, vars
<1>3. QED
  BY <1>1, <1>2 DEF WaitsForSome, Requests

(* The batch never waits for a task that is over and counted, and no request *)
(* goes to the engine without room for the token it asks for.                *)
THEOREM BatchNeverStuck == Spec => []BatchGoesOn
<1>1. ASSUME RolloutInv, phase = "waiting", counted # Requests
      PROVE  BatchGoesOn
  <2>1. ASSUME NEW r \in Requests, req[r].at = "engine" PROVE MaxNewTokens(req[r]) > 0
    <3>1. Good(req[r])
      BY <1>1 DEF RolloutInv, GoodInv
    <3>2. Len(req[r].ids) \in Nat /\ Len(req[r].ids) + 1 < MaxModelLen
      BY <2>1, <3>1 DEF Good, Open, Tokens
    <3>3. QED
      BY <3>2, LengthAssumption DEF MaxNewTokens
  <2>2. CASE \A r \in Requests : req[r].at \notin Awaiting
    <3>1. \A r \in Requests : req[r].at \in {"returned", "raised"}
      BY <1>1, <2>2 DEF RolloutInv, GoodInv, Good, BatchInv, Over
    <3>2. \E r \in Requests : r \notin counted
      BY <1>1 DEF RolloutInv, GoodInv
    <3>3. QED
      BY <1>1, <2>1, <2>2, <3>1, <3>2 DEF BatchGoesOn, IsOver, Over, RolloutInv, GoodInv
  <2>3. QED
    BY <2>1, <2>2 DEF BatchGoesOn
<1>2. RolloutInv /\ WaitsForSome => BatchGoesOn
  BY <1>1 DEF BatchGoesOn, WaitsForSome
<1>3. QED
  BY <1>2, NotAllCounted, RolloutInvariant, PTL DEF Spec

-----------------------------------------------------------------------------
(* Induction, for the rendering of a conversation message by message         *)

(* Natural numbers are well-founded, so a set that holds 0 and the successors *)
(* of its members holds all of them.                                         *)
LEMMA LeastNumber ==
  ASSUME NEW T, T \subseteq Nat, T # {}
  PROVE  \E n \in T : \A m \in T : ~(m < n)
<1> DEFINE R == OpToRel(<, Nat)
<1>1. IsWellFoundedOn(R, Nat)
  BY NatLessThanWellFounded
<1> HIDE DEF R
<1>2. PICK n \in T : \A m \in T : ~(<<m, n>> \in R)
  BY <1>1, WFMin
<1>3. \A m \in T : m < n => <<m, n>> \in R
  BY DEF R, OpToRel
<1> QED BY <1>2, <1>3

LEMMA Induction ==
  ASSUME NEW T, 0 \in T, \A n \in Nat : n \in T => n + 1 \in T
  PROVE  Nat \subseteq T
<1> SUFFICES ASSUME Nat \ T # {} PROVE FALSE
  OBVIOUS
<1>1. PICK n \in Nat \ T : \A m \in Nat \ T : ~(m < n)
  BY LeastNumber
<1>2. n # 0 /\ n - 1 \in Nat /\ n - 1 < n
  BY <1>1
<1>3. n - 1 \in T
  BY <1>1, <1>2
<1> QED BY <1>1, <1>2, <1>3

(* g renders the first n messages of ms, one after the other.              *)
Renders(g, ms, n) ==
  g = [k \in 0 .. n |-> IF k = 0 THEN Copies(PromptTokens, "prompt") ELSE g[k - 1] \o Turn(ms[k])]

LEMMA RendersAt ==
  ASSUME NEW g, NEW ms, NEW n \in Nat, Renders(g, ms, n)
  PROVE  /\ g[0] = Copies(PromptTokens, "prompt")
         /\ \A k \in 1 .. n : g[k] = g[k - 1] \o Turn(ms[k])
<1> DEFINE f == [k \in 0 .. n |-> IF k = 0 THEN Copies(PromptTokens, "prompt")
                                  ELSE g[k - 1] \o Turn(ms[k])]
<1>1. g = f
  BY Zenon DEF Renders
<1>2. f[0] = Copies(PromptTokens, "prompt")
  OBVIOUS
<1>3. \A k \in 1 .. n : f[k] = g[k - 1] \o Turn(ms[k])
  OBVIOUS
<1> HIDE DEF f
<1> QED BY <1>1, <1>2, <1>3, Zenon

LEMMA RenderingExists ==
  ASSUME NEW ms
  PROVE  \A n \in Nat : \E g : Renders(g, ms, n)
<1> DEFINE T == {n \in Nat : \E g : Renders(g, ms, n)}
<1>1. 0 \in T
  <2> DEFINE g == [k \in 0 .. 0 |-> Copies(PromptTokens, "prompt")]
  <2>1. g = [k \in 0 .. 0 |-> IF k = 0 THEN Copies(PromptTokens, "prompt") ELSE g[k - 1] \o Turn(ms[k])]
    OBVIOUS
  <2> HIDE DEF g
  <2> QED BY <2>1, Zenon DEF Renders
<1>2. ASSUME NEW n \in Nat, n \in T
      PROVE  n + 1 \in T
  <2>1. PICK g : Renders(g, ms, n)
    BY <1>2
  <2>2. /\ g[0] = Copies(PromptTokens, "prompt")
        /\ \A k \in 1 .. n : g[k] = g[k - 1] \o Turn(ms[k])
    BY <2>1, RendersAt
  <2> DEFINE h == [k \in 0 .. n + 1 |-> IF k = n + 1 THEN g[n] \o Turn(ms[n + 1]) ELSE g[k]]
             e == [k \in 0 .. n + 1 |-> IF k = 0 THEN Copies(PromptTokens, "prompt")
                                        ELSE h[k - 1] \o Turn(ms[k])]
  <2>3. ASSUME NEW k \in 0 .. n + 1
        PROVE  h[k] = e[k]
    <3>1. CASE k = 0
      <4>1. h[k] = g[0] /\ e[k] = Copies(PromptTokens, "prompt")
        BY <3>1
      <4> HIDE DEF h, e
      <4> QED BY <2>2, <4>1
    <3>2. CASE k = n + 1
      <4>1. h[k] = g[n] \o Turn(ms[n + 1]) /\ h[k - 1] = g[n]
        BY <3>2
      <4>2. e[k] = h[k - 1] \o Turn(ms[k])
        BY <3>2
      <4> HIDE DEF h, e
      <4> QED BY <3>2, <4>1, <4>2
    <3>3. CASE k \in 1 .. n
      <4>1. h[k] = g[k] /\ h[k - 1] = g[k - 1]
        BY <3>3
      <4>2. e[k] = h[k - 1] \o Turn(ms[k])
        BY <3>3
      <4> HIDE DEF h, e
      <4> QED BY <2>2, <3>3, <4>1, <4>2
    <3> QED BY <3>1, <3>2, <3>3
  <2>4. h = e
    <3> HIDE DEF e
    <3>1. h = [k \in 0 .. n + 1 |-> h[k]] /\ e = [k \in 0 .. n + 1 |-> e[k]]
      BY DEF e
    <3> HIDE DEF h
    <3> QED BY <2>3, <3>1
  <2>5. Renders(h, ms, n + 1)
    <3> HIDE DEF h
    <3> QED BY <2>4, Zenon DEF Renders
  <2>6. n + 1 \in Nat
    OBVIOUS
  <2> HIDE DEF h, e
  <2> QED BY <2>5, <2>6, Zenon
<1> HIDE DEF T
<1>3. Nat \subseteq T
  BY <1>1, <1>2, Induction
<1> QED BY <1>3 DEF T

LEMMA SameRendering ==
  ASSUME NEW ms, NEW mt, NEW n \in Nat, NEW p \in Nat, n <= p, NEW f, NEW g,
         Renders(f, ms, n), Renders(g, mt, p), \A k \in 1 .. n : ms[k] = mt[k]
  PROVE  \A k \in 0 .. n : f[k] = g[k]
<1> DEFINE T == {k \in Nat : k <= n => f[k] = g[k]}
<1>0. /\ f[0] = g[0]
      /\ \A k \in 1 .. n : f[k] = f[k - 1] \o Turn(ms[k])
      /\ \A k \in 1 .. p : g[k] = g[k - 1] \o Turn(mt[k])
  <2>1. /\ f[0] = Copies(PromptTokens, "prompt")
        /\ \A k \in 1 .. n : f[k] = f[k - 1] \o Turn(ms[k])
    BY ONLY n \in Nat, Renders(f, ms, n), RendersAt
  <2>2. /\ g[0] = Copies(PromptTokens, "prompt")
        /\ \A k \in 1 .. p : g[k] = g[k - 1] \o Turn(mt[k])
    BY ONLY p \in Nat, Renders(g, mt, p), RendersAt
  <2> QED BY ONLY <2>1, <2>2
<1>1. 0 \in T
  BY <1>0
<1>2. ASSUME NEW k \in Nat, k \in T
      PROVE  k + 1 \in T
  <2> SUFFICES k + 1 <= n => f[k + 1] = g[k + 1]
    OBVIOUS
  <2>1. CASE k + 1 <= n
    <3> DEFINE j == k + 1
    <3>1. j \in 1 .. n /\ j \in 1 .. p /\ j - 1 = k
      BY <2>1
    <3> HIDE DEF j
    <3>2. f[j] = f[k] \o Turn(ms[j]) /\ g[j] = g[k] \o Turn(mt[j])
      BY <1>0, <3>1
    <3>3. f[k] = g[k] /\ ms[j] = mt[j]
      BY <1>2, <2>1, <3>1
    <3> QED BY <3>2, <3>3 DEF j
  <2> QED BY <2>1
<1> HIDE DEF T
<1>3. Nat \subseteq T
  BY <1>1, <1>2, Induction
<1> QED BY <1>3 DEF T

LEMMA TurnsRender ==
  ASSUME NEW ms, Len(ms) \in Nat
  PROVE  \E g : Renders(g, ms, Len(ms)) /\ TurnByTurn(ms) = g[Len(ms)]
<1> DEFINE ids[k \in 0 .. Len(ms)] ==
             IF k = 0 THEN Copies(PromptTokens, "prompt") ELSE ids[k - 1] \o Turn(ms[k])
<1>1. \E g : g = [k \in 0 .. Len(ms) |->
                   IF k = 0 THEN Copies(PromptTokens, "prompt") ELSE g[k - 1] \o Turn(ms[k])]
  BY RenderingExists DEF Renders
<1>2. ids = [k \in 0 .. Len(ms) |->
               IF k = 0 THEN Copies(PromptTokens, "prompt") ELSE ids[k - 1] \o Turn(ms[k])]
  BY <1>1, Zenon
<1>3. TurnByTurn(ms) = ids[Len(ms)]
  BY Zenon DEF TurnByTurn
<1> HIDE DEF ids
<1> QED BY <1>2, <1>3, Zenon DEF Renders

LEMMA NoTurns == TurnByTurn(<< >>) = Copies(PromptTokens, "prompt")
<1>1. Len(<< >>) = 0
  OBVIOUS
<1>2. PICK g : Renders(g, << >>, 0) /\ TurnByTurn(<< >>) = g[0]
  BY <1>1, TurnsRender
<1> QED BY <1>2, RendersAt

LEMMA OneMoreTurn ==
  ASSUME NEW ms \in Seq(Messages), NEW m \in Messages
  PROVE  TurnByTurn(Append(ms, m)) = TurnByTurn(ms) \o Turn(m)
<1> DEFINE mt == Append(ms, m)
           n == Len(ms)
<1>1. /\ n \in Nat /\ Len(mt) = n + 1 /\ mt[n + 1] = m
      /\ \A k \in 1 .. n : ms[k] = mt[k]
  BY AppendProperties, LenProperties
<1> HIDE DEF mt
<1>2. PICK f : Renders(f, ms, n) /\ TurnByTurn(ms) = f[n]
  BY <1>1, TurnsRender
<1> HIDE DEF n
<1>3. PICK g : Renders(g, mt, n + 1) /\ TurnByTurn(mt) = g[n + 1]
  BY <1>1, TurnsRender
<1>4. f[n] = g[n]
  BY <1>1, <1>2, <1>3, SameRendering
<1>5. g[n + 1] = g[n] \o Turn(mt[n + 1])
  <2> DEFINE j == n + 1
  <2>1. j \in 1 .. (n + 1) /\ j - 1 = n /\ n + 1 \in Nat
    BY <1>1
  <2> HIDE DEF j
  <2>2. g[j] = g[n] \o Turn(mt[j])
    BY <1>3, <2>1, RendersAt
  <2> QED BY <2>2 DEF j
<1> QED BY <1>1, <1>2, <1>3, <1>4, <1>5 DEF mt

-----------------------------------------------------------------------------
(* The tokens of a request are the rendering of its conversation             *)

(* The loss mask is 1 on the tokens of the replies.                        *)
Marked(ids, loss) == \A i \in 1 .. Len(ids) : loss[i] = 1 <=> ids[i] \in Spoken

(* A conversation starts with the prompt, then with a generation prompt if *)
(* it starts with a reply, and it never ends with one.                     *)
Rendering(ms) ==
  LET t == TurnByTurn(ms)
  IN /\ t \in Seq(Kinds) /\ Len(t) >= PromptTokens /\ t[Len(t)] # "gen"
     /\ \A i \in 1 .. PromptTokens : t[i] = "prompt"
     /\ IF ms = << >> THEN Len(t) = PromptTokens
        ELSE Len(t) > PromptTokens /\ (t[PromptTokens + 1] = "gen" <=> ms[1].kind = "assistant")

Talk(q) == q.messages \in Seq(Messages) /\ Rendering(q.messages) /\ Marked(q.ids, q.loss)

(* The tokens are the conversation so far, or end with the prompt for the  *)
(* next reply.                                                             *)
Said(q) == q.ids = TurnByTurn(q.messages)
Asked(q) == q.ids = Append(TurnByTurn(q.messages), "gen")

LEMMA PromptIs ==
  /\ PromptIds \in Seq(Kinds) /\ Len(PromptIds) = PromptTokens + 1
  /\ \A i \in 1 .. PromptTokens : PromptIds[i] = "prompt"
  /\ PromptIds[PromptTokens + 1] = "gen"
  /\ PromptIds = Append(Copies(PromptTokens, "prompt"), "gen")
<1> DEFINE c == Copies(PromptTokens, "prompt")
<1>1. /\ c \in Seq(Kinds) /\ Len(c) = PromptTokens /\ \A i \in 1 .. PromptTokens : c[i] = "prompt"
      /\ PromptTokens \in Nat
  BY LengthAssumption, CopiesType DEF Kinds
<1> HIDE DEF c
<1>2. "gen" \in Kinds
  BY DEF Kinds
<1>3. PromptIds = Append(c, "gen")
  BY DEF PromptIds, c
<1> QED BY <1>1, <1>2, <1>3, AppendProperties DEF c

LEMMA TurnIs ==
  ASSUME NEW m \in Messages, NEW t, t = Turn(m)
  PROVE  /\ t \in Seq(Kinds) /\ Len(t) \in Nat /\ Len(t) > 0 /\ t[Len(t)] # "gen"
         /\ t[1] = "gen" <=> m.kind = "assistant"
<1> DEFINE c == Content(m)
<1>1. /\ c \in Seq(Kinds) /\ Len(c) \in Nat /\ Len(c) > 0
      /\ \A i \in 1 .. Len(c) : c[i] # "gen"
  BY ContentIs
<1>2. t = IF m.kind = "assistant" THEN << "gen" >> \o c ELSE c
  BY DEF Turn
<1> HIDE DEF c
<1>3. "gen" \in Kinds
  BY DEF Kinds
<1>4. CASE m.kind = "assistant"
  <2>1. t = << "gen" >> \o c
    BY <1>2, <1>4
  <2>2. t \in Seq(Kinds) /\ Len(t) = Len(c) + 1 /\ t[1] = "gen" /\ t[Len(c) + 1] = c[Len(c)]
    BY ONLY <1>1, <1>3, <2>1
  <2> QED BY <1>1, <1>4, <2>2
<1>5. CASE m.kind # "assistant"
  <2>1. t = c
    BY <1>2, <1>5
  <2> QED BY <1>1, <1>5, <2>1
<1> QED BY <1>4, <1>5

LEMMA RenderingGrows ==
  ASSUME NEW ms \in Seq(Messages), Rendering(ms), NEW m \in Messages
  PROVE  Append(ms, m) \in Seq(Messages) /\ Rendering(Append(ms, m))
<1> DEFINE t == TurnByTurn(ms)
           mt == Append(ms, m)
           u == TurnByTurn(mt)
           a == Turn(m)
<1>1. /\ mt \in Seq(Messages) /\ mt # << >>
      /\ ms # << >> => mt[1] = ms[1]
      /\ ms = << >> => mt[1] = m
  BY AppendProperties, LenProperties
<1>2. /\ a \in Seq(Kinds) /\ Len(a) \in Nat /\ Len(a) > 0 /\ a[Len(a)] # "gen"
      /\ a[1] = "gen" <=> m.kind = "assistant"
  BY TurnIs
<1>3. /\ t \in Seq(Kinds) /\ Len(t) \in Nat /\ Len(t) >= PromptTokens
      /\ \A i \in 1 .. PromptTokens : t[i] = "prompt"
      /\ ms = << >> => Len(t) = PromptTokens
      /\ ms # << >> => /\ Len(t) > PromptTokens
                       /\ t[PromptTokens + 1] = "gen" <=> ms[1].kind = "assistant"
  BY LenProperties DEF Rendering
<1>4. u = t \o a
  BY OneMoreTurn
<1> HIDE DEF t, u, a
<1>5. /\ u \in Seq(Kinds) /\ Len(u) = Len(t) + Len(a)
      /\ \A i \in 1 .. Len(t) : u[i] = t[i]
      /\ \A i \in 1 .. Len(a) : u[Len(t) + i] = a[i]
  BY ONLY <1>2, <1>3, <1>4
<1>6. u[Len(u)] # "gen"
  BY ONLY <1>2, <1>3, <1>5
<1>7. PromptTokens \in Nat
  BY LengthAssumption
<1>8. u[PromptTokens + 1] = "gen" <=> mt[1].kind = "assistant"
  <2>1. CASE ms # << >>
    <3>1. u[PromptTokens + 1] = t[PromptTokens + 1]
      BY <1>3, <1>5, <1>7, <2>1
    <3> QED BY <1>1, <1>3, <2>1, <3>1
  <2>2. CASE ms = << >>
    <3>1. Len(t) = PromptTokens /\ 1 \in 1 .. Len(a)
      BY <1>2, <1>3, <2>2
    <3>2. u[PromptTokens + 1] = a[1]
      BY ONLY <1>5, <3>1
    <3> QED BY <1>1, <1>2, <2>2, <3>2
  <2> QED BY <2>1, <2>2
<1>9. Len(u) > PromptTokens /\ \A i \in 1 .. PromptTokens : u[i] = "prompt"
  <2>1. Len(u) > PromptTokens
    BY ONLY <1>2, <1>3, <1>5, <1>7
  <2>2. \A i \in 1 .. PromptTokens : i \in 1 .. Len(t)
    BY ONLY <1>3, <1>7
  <2> QED BY ONLY <1>3, <1>5, <2>1, <2>2
<1> HIDE DEF mt
<1>10. Rendering(mt)
  BY <1>1, <1>5, <1>6, <1>7, <1>8, <1>9 DEF Rendering, u
<1> QED BY <1>1, <1>10 DEF mt

LEMMA MarkedMore ==
  ASSUME NEW ids \in Seq(Kinds), NEW loss \in Seq(Bits), Len(ids) = Len(loss), Marked(ids, loss),
         NEW c \in Seq(Kinds), NEW bit \in Bits, \A i \in 1 .. Len(c) : bit = 1 <=> c[i] \in Spoken
  PROVE  Marked(ids \o c, loss \o Copies(Len(c), bit))
<1> DEFINE n == Len(c)
           d == Copies(n, bit)
<1>1. /\ n \in Nat /\ Len(c) = n
      /\ d \in Seq(Bits) /\ Len(d) = n /\ \A i \in 1 .. n : d[i] = bit
  BY CopiesType, LenProperties
<1>0. \A i \in 1 .. n : bit = 1 <=> c[i] \in Spoken
  OBVIOUS
<1> HIDE DEF n, d
<1>2. Len(ids) \in Nat
  BY LenProperties
<1>3. ASSUME NEW i \in 1 .. (Len(ids) + n)
      PROVE  (loss \o d)[i] = 1 <=> (ids \o c)[i] \in Spoken
  <2>1. CASE i <= Len(ids)
    <3>1. (loss \o d)[i] = loss[i] /\ (ids \o c)[i] = ids[i] /\ i \in 1 .. Len(ids)
      BY <1>1, <1>2, <2>1
    <3> QED BY <3>1 DEF Marked
  <2>2. CASE i > Len(ids)
    <3>1. i - Len(ids) \in 1 .. n /\ i \in 1 .. (Len(ids) + Len(c))
      BY ONLY <1>1, <1>2, <2>2, i \in 1 .. (Len(ids) + n)
    <3>2. (ids \o c)[i] = c[i - Len(ids)]
      <4>1. i \in 1 .. (Len(ids) + Len(c)) /\ ~(i <= Len(ids)) /\ Len(c) \in Nat
        BY ONLY <1>1, <1>2, <2>2, <3>1, i \in 1 .. (Len(ids) + n)
      <4> QED BY ONLY <1>2, <4>1, ids \in Seq(Kinds), c \in Seq(Kinds), ConcatProperties
    <3>3. (loss \o d)[i] = d[i - Len(ids)]
      BY <1>1, <1>2, <2>2, <3>1
    <3> QED BY ONLY <1>0, <1>1, <3>1, <3>2, <3>3
  <2>3. i <= Len(ids) \/ i > Len(ids)
    BY <1>2
  <2> QED BY <2>1, <2>2, <2>3
<1>4. Len(ids \o c) = Len(ids) + n
  <2>1. Len(ids \o c) = Len(ids) + Len(c)
    BY <1>1, ConcatProperties
  <2> QED BY ONLY <1>1, <2>1
<1>5. Marked(ids \o c, loss \o d)
  BY <1>3, <1>4 DEF Marked
<1> QED BY <1>5 DEF n, d

(* What a helper makes of the tokens and the messages.                     *)
LEMMA AddMessageIs ==
  ASSUME NEW q, IsRecord(q), NEW m, NEW bit, NEW e, e = AddMessage(q, m, bit)
  PROVE  /\ e.ids = q.ids \o Content(m) /\ e.loss = q.loss \o Copies(Len(Content(m)), bit)
         /\ e.messages = Append(q.messages, m)
<1> DEFINE c == Content(m)
           x == Extend(q, c, bit)
<1> HIDE DEF c
<1>1. /\ IsRecord(x) /\ x.ids = q.ids \o c /\ x.loss = q.loss \o Copies(Len(c), bit)
      /\ x.messages = q.messages
  BY DEF IsRecord, Fields, Extend
<1> HIDE DEF x
<1>2. e = [x EXCEPT !.messages = Append(@, m)]
  BY DEF AddMessage, x, c
<1>3. e.ids = x.ids /\ e.loss = x.loss /\ e.messages = Append(x.messages, m)
  BY <1>1, <1>2 DEF IsRecord, Fields
<1> QED BY <1>1, <1>3 DEF c

(* The loss mask of a message is 1 just when it is a reply.                *)
LEMMA MessageMarked ==
  ASSUME NEW q, IsRecord(q), Tokens(q), Marked(q.ids, q.loss), NEW m \in Messages,
         NEW bit \in Bits, bit = 1 <=> m.kind = "assistant", NEW e, e = AddMessage(q, m, bit)
  PROVE  Marked(e.ids, e.loss)
<1> DEFINE c == Content(m)
<1>1. /\ c \in Seq(Kinds) /\ Len(c) \in Nat
      /\ \A i \in 1 .. Len(c) : c[i] \in {m.kind, "close"}
      /\ m.kind # "assistant" => \A i \in 1 .. Len(c) : c[i] = m.kind
  BY ContentIs
<1>2. e.ids = q.ids \o c /\ e.loss = q.loss \o Copies(Len(c), bit)
  BY AddMessageIs
<1> HIDE DEF c
<1>3. \A i \in 1 .. Len(c) : bit = 1 <=> c[i] \in Spoken
  BY <1>1 DEF Spoken, Messages
<1>4. q.ids \in Seq(Kinds) /\ q.loss \in Seq(Bits) /\ Len(q.ids) = Len(q.loss)
  BY DEF Tokens
<1>5. Marked(q.ids \o c, q.loss \o Copies(Len(c), bit))
  BY ONLY <1>1, <1>3, <1>4, Marked(q.ids, q.loss), bit \in Bits, MarkedMore
<1> QED BY <1>2, <1>5

LEMMA ReplyTalks ==
  ASSUME NEW q, Open(q), Talk(q), Asked(q), NEW m \in Messages, m.kind = "assistant",
         NEW e, e = AddMessage(q, m, 1)
  PROVE  Talk(e) /\ Said(e)
<1> DEFINE t == TurnByTurn(q.messages)
           c == Content(m)
<1>0. IsRecord(q) /\ Tokens(q)
  BY DEF Open
<1>1. e.ids = q.ids \o c /\ e.messages = Append(q.messages, m)
  BY <1>0, AddMessageIs
<1>2. q.messages \in Seq(Messages) /\ Rendering(q.messages) /\ Marked(q.ids, q.loss)
  BY DEF Talk
<1>3. Turn(m) = << "gen" >> \o c
  BY DEF Turn
<1>4. TurnByTurn(e.messages) = t \o Turn(m)
  BY <1>1, <1>2, OneMoreTurn
<1>5. e.messages \in Seq(Messages) /\ Rendering(e.messages)
  BY <1>1, <1>2, RenderingGrows
<1>6. t \in Seq(Kinds) /\ c \in Seq(Kinds) /\ << "gen" >> \in Seq(Kinds) /\ "gen" \in Kinds
  BY <1>2, ContentIs DEF Rendering, Kinds
<1>7. q.ids = Append(t, "gen")
  BY DEF Asked
<1> HIDE DEF t, c
<1>8. Append(t, "gen") \o c = t \o (<< "gen" >> \o c)
  <2>1. Append(t, "gen") = t \o << "gen" >>
    BY <1>6, AppendIsConcat
  <2> QED BY <1>6, <2>1, ConcatAssociative
<1>9. Said(e)
  BY <1>1, <1>3, <1>4, <1>7, <1>8 DEF Said
<1>10. Marked(e.ids, e.loss)
  BY <1>0, <1>2, MessageMarked DEF Bits
<1> QED BY <1>5, <1>9, <1>10 DEF Talk

LEMMA AnswerTalks ==
  ASSUME NEW q, IsRecord(q), Tokens(q), Talk(q), Said(q), NEW m \in Messages,
         m.kind # "assistant", NEW e, e = AddMessage(q, m, 0)
  PROVE  Talk(e) /\ Said(e)
<1>1. e.ids = q.ids \o Content(m) /\ e.messages = Append(q.messages, m)
  BY AddMessageIs
<1>2. q.messages \in Seq(Messages) /\ Rendering(q.messages) /\ Marked(q.ids, q.loss)
  BY DEF Talk
<1>3. Turn(m) = Content(m)
  BY DEF Turn
<1>4. TurnByTurn(e.messages) = TurnByTurn(q.messages) \o Turn(m)
  BY <1>1, <1>2, OneMoreTurn
<1>5. e.messages \in Seq(Messages) /\ Rendering(e.messages)
  BY <1>1, <1>2, RenderingGrows
<1>6. Said(e)
  BY <1>1, <1>3, <1>4 DEF Said
<1>7. Marked(e.ids, e.loss)
  BY <1>2, MessageMarked DEF Bits
<1> QED BY <1>5, <1>6, <1>7 DEF Talk

LEMMA RemoveGenTalks ==
  ASSUME NEW q, IsRecord(q), Tokens(q), Talk(q), Said(q) \/ Asked(q), NEW e, e = RemoveGen(q)
  PROVE  Talk(e) /\ Said(e) /\ e.messages = q.messages
<1> DEFINE t == TurnByTurn(q.messages)
<1>1. t \in Seq(Kinds) /\ Len(t) \in Nat /\ t[Len(t)] # "gen"
  BY LenProperties DEF Talk, Rendering
<1>2. CASE Said(q)
  <2>1. Last(q.ids) # "gen"
    BY <1>1, <1>2 DEF Said, Last
  <2>2. e = q
    BY <2>1 DEF RemoveGen
  <2> QED BY <1>2, <2>2
<1>3. CASE Asked(q)
  <2> HIDE DEF t
  <2>1. q.ids = Append(t, "gen") /\ "gen" \in Kinds
    BY <1>3 DEF Asked, t, Kinds
  <2>2. /\ Len(q.ids) = Len(t) + 1 /\ q.ids[Len(t) + 1] = "gen" /\ q.ids \in Seq(Kinds)
        /\ \A i \in 1 .. Len(t) : q.ids[i] = t[i]
    BY <1>1, <2>1, AppendProperties
  <2>3. e = [q EXCEPT !.ids = Front(@), !.loss = Front(@)]
    BY <2>2 DEF RemoveGen, Last
  <2>4. e.ids = Front(q.ids) /\ e.loss = Front(q.loss) /\ e.messages = q.messages
    BY <2>3 DEF IsRecord, Fields
  <2>5. /\ Front(q.ids) \in Seq(Kinds) /\ Len(Front(q.ids)) = Len(t)
        /\ \A i \in 1 .. Len(t) : Front(q.ids)[i] = q.ids[i]
    BY <1>1, <2>2, ElementOfSeq, SubSeqProperties DEF Front
  <2>6. \A i \in 1 .. Len(t) : Front(q.loss)[i] = q.loss[i]
    BY <1>1, <2>2 DEF Front, Tokens
  <2>7. e.ids = t
    BY <1>1, <2>2, <2>4, <2>5, SeqEqual
  <2>8. Marked(e.ids, e.loss)
    BY <1>1, <2>2, <2>4, <2>5, <2>6 DEF Marked, Talk
  <2> QED BY <2>4, <2>7, <2>8 DEF Talk, Said, t
<1> QED BY <1>2, <1>3

LEMMA AddGenTalks ==
  ASSUME NEW q, IsRecord(q), Tokens(q), Talk(q), Said(q) \/ Asked(q), NEW e, e = AddGen(q)
  PROVE  Talk(e) /\ Asked(e) /\ e.messages = q.messages
<1> DEFINE t == TurnByTurn(q.messages)
<1>1. t \in Seq(Kinds) /\ Len(t) \in Nat /\ t[Len(t)] # "gen" /\ "gen" \in Kinds
  BY LenProperties DEF Talk, Rendering, Kinds
<1>2. CASE Asked(q)
  <2>1. Last(q.ids) = "gen"
    <3> HIDE DEF t
    <3>1. q.ids = Append(t, "gen")
      BY <1>2 DEF Asked, t
    <3> QED BY <1>1, <3>1, AppendProperties DEF Last
  <2>2. e = q
    BY <2>1 DEF AddGen
  <2> QED BY <1>2, <2>2
<1>3. CASE Said(q)
  <2>1. Last(q.ids) # "gen"
    BY <1>1, <1>3 DEF Said, Last
  <2>2. e = Extend(q, << "gen" >>, 0)
    BY <2>1 DEF AddGen
  <2> DEFINE c == << "gen" >>
  <2>3. e.ids = q.ids \o c /\ e.loss = q.loss \o Copies(Len(c), 0) /\ e.messages = q.messages
    BY <2>2 DEF Extend, IsRecord, Fields
  <2>4. c = << "gen" >> /\ c \in Seq(Kinds) /\ \A i \in 1 .. Len(c) : c[i] = "gen"
    BY <1>1
  <2> HIDE DEF c
  <2>5. Asked(e)
    <3> HIDE DEF t
    <3>1. q.ids = t
      BY <1>3 DEF Said, t
    <3> QED BY <1>1, <2>3, <2>4, <3>1, AppendIsConcat DEF Asked, t
  <2>6. Marked(e.ids, e.loss)
    <3>1. /\ q.ids \in Seq(Kinds) /\ q.loss \in Seq(Bits) /\ Len(q.ids) = Len(q.loss)
          /\ Marked(q.ids, q.loss) /\ 0 \in Bits
          /\ \A i \in 1 .. Len(c) : 0 = 1 <=> c[i] \in Spoken
      BY <2>4 DEF Tokens, Talk, Bits, Spoken
    <3>2. Marked(q.ids \o c, q.loss \o Copies(Len(c), 0))
      BY ONLY <2>4, <3>1, MarkedMore
    <3> QED BY <2>3, <3>2
  <2> QED BY <2>3, <2>5, <2>6 DEF Talk
<1> QED BY <1>2, <1>3

(* A tool that answers takes the generation prompt's place.                *)
LEMMA AddToolsTalks ==
  ASSUME NEW q, IsRecord(q), Tokens(q), Talk(q), Said(q) \/ Asked(q), NEW n \in Nat,
         NEW e, e = AddTools(q, n)
  PROVE  Talk(e) /\ (Said(e) \/ Asked(e)) /\ (Said(q) => Said(e))
<1>1. CASE n = 0
  BY <1>1 DEF AddTools
<1>2. CASE n # 0
  <2> DEFINE g == RemoveGen(q)
             m == Answer("tool", n)
  <2>1. IsRecord(g) /\ Tokens(g) /\ Talk(g) /\ Said(g)
    BY RemoveGenKeeps, RemoveGenTalks DEF Kept
  <2>2. m \in Messages /\ m.kind # "assistant"
    BY <1>2, AnswerIs
  <2>3. e = AddMessage(g, m, 0)
    BY <1>2 DEF AddTools
  <2> HIDE DEF g, m
  <2> QED BY <2>1, <2>2, <2>3, AnswerTalks
<1> QED BY <1>1, <1>2

-----------------------------------------------------------------------------
(* The row of a finished conversation                                        *)

(* What a row is made of: at most so many tokens, each with its mask.      *)
FilledRow(q) ==
  Len(q.response) <= ResponseLength /\ Len(q.mask) = Len(q.response) /\ Marked(q.response, q.mask)

TrainsOn(q) ==
  /\ FilledRow(q)
  /\ q.response # << >> =>
       /\ IsPrefix(SubSeq(TurnByTurn(q.messages), 1, Len(PromptIds)) \o q.response,
                   TurnByTurn(q.messages))
       /\ IsPrefix(PromptIds \o q.response, TurnByTurn(q.messages))
            <=> Head(q.messages).kind = "assistant"

(* Wherever its task is suspended, the tokens of a request are the         *)
(* rendering of its conversation, and the generation prompt is at their    *)
(* end just when the engine is asked next, or was not asked again.         *)
Converses(q) ==
  /\ q.at \in {"queued", "create", "engine"} => Talk(q) /\ Asked(q)
  /\ q.at \in {"tools", "interaction"} => Talk(q) /\ Said(q)
  /\ q.at \in {"start", "release"} => Talk(q) /\ (Said(q) \/ Asked(q))
  /\ q.at \in {"logprobs", "returned"} => TrainsOn(q)
  /\ q.at = "padded" => FilledRow(q)

(* What Truncate keeps of the first m elements: up to n of those after the *)
(* first p.                                                                *)
Cut(s, p, m, n) == Upto(SubSeq(Upto(s, m), p + 1, Len(Upto(s, m))), n)

IsCut(u, s, p, n) ==
  /\ Len(u) \in Nat /\ Len(u) <= n
  /\ \A i \in 1 .. Len(u) : u[i] = s[p + i] /\ p + i \in 1 .. Len(s)

LEMMA CutIs ==
  ASSUME NEW S, NEW s \in Seq(S), NEW p \in Nat, NEW m \in Nat, NEW n \in Nat,
         NEW u, u = Cut(s, p, m, n)
  PROVE  u \in Seq(S) /\ IsCut(u, s, p, n)
<1> DEFINE v == Upto(s, m)
           w == SubSeq(v, p + 1, Len(v))
<1>1. /\ v \in Seq(S) /\ Len(v) \in Nat /\ Len(v) <= Len(s) /\ Len(s) \in Nat
      /\ \A i \in 1 .. Len(v) : v[i] = s[i]
  <2>1. Len(s) \in Nat /\ v \in Seq(S) /\ Len(v) \in Nat /\ Len(v) <= Len(s)
    BY UptoType, LenProperties
  <2>2. \A i \in 1 .. Len(v) : v[i] = s[i]
    BY <2>1 DEF Upto
  <2> QED BY <2>1, <2>2
<1> HIDE DEF v
<1>2. /\ w \in Seq(S) /\ Len(w) = (IF p + 1 <= Len(v) THEN Len(v) - p ELSE 0)
      /\ \A i \in 1 .. Len(w) : w[i] = v[p + i]
  <2>1. \A i \in p + 1 .. Len(v) : v[i] \in S
    BY <1>1, ElementOfSeq
  <2>2. w \in Seq(S) /\ Len(w) = (IF p + 1 <= Len(v) THEN Len(v) - p ELSE 0)
    BY <1>1, <2>1, SubSeqProperties
  <2>3. \A i \in 1 .. Len(w) : w[i] = v[p + i]
    BY <1>1, <2>2
  <2> QED BY <2>2, <2>3
<1> HIDE DEF w
<1>3. u = Upto(w, n)
  BY DEF Cut, v, w
<1>4. u \in Seq(S) /\ Len(u) \in Nat /\ Len(u) <= n /\ Len(u) <= Len(w) /\ Len(w) \in Nat
      /\ w \in Seq(S)
  <2>1. w \in Seq(S) /\ Len(w) \in Nat
    BY ONLY <1>2, LenProperties
  <2>2. /\ u \in Seq(S) /\ Len(u) \in Nat
        /\ Len(u) = IF n < Len(w) THEN n ELSE Len(w)
    BY ONLY <1>3, <2>1, n \in Nat, UptoType, LenProperties
  <2> QED BY ONLY <2>1, <2>2, n \in Nat
<1>5. ASSUME NEW i \in 1 .. Len(u)
      PROVE  u[i] = w[i]
  <2> DEFINE k == IF n < Len(w) THEN n ELSE Len(w)
  <2>1. k \in Nat /\ k <= Len(w)
    BY ONLY <1>4, n \in Nat
  <2>2. u = SubSeq(w, 1, k)
    BY <1>3 DEF Upto
  <2> HIDE DEF k
  <2>3. Len(u) = k
    BY ONLY <1>4, <2>1, <2>2
  <2> QED BY ONLY <1>4, <2>1, <2>2, <2>3, i \in 1 .. Len(u)
<1>6. ASSUME NEW i \in 1 .. Len(u)
      PROVE  u[i] = s[p + i] /\ p + i \in 1 .. Len(s)
  <2>1. i \in 1 .. Len(w) /\ p + i \in 1 .. Len(v)
    BY ONLY <1>1, <1>2, <1>4, p \in Nat, i \in 1 .. Len(u)
  <2>2. w[i] = v[p + i] /\ v[p + i] = s[p + i]
    BY <1>1, <1>2, <2>1
  <2> QED BY <1>1, <1>5, <2>1, <2>2
<1> QED BY <1>4, <1>6 DEF IsCut

(* a stands in t behind the first p elements.                              *)
Behind(a, t, p) == p + Len(a) <= Len(t) /\ \A i \in 1 .. Len(a) : a[i] = t[p + i]

(* What it takes to put s there.                                           *)
LEMMA PrefixOf ==
  ASSUME NEW s \in Seq(Kinds), NEW a \in Seq(Kinds), NEW t \in Seq(Kinds), NEW p \in Nat,
         Len(s) = p, Behind(a, t, p)
  PROVE  IsPrefix(s \o a, t) <=> \A i \in 1 .. p : s[i] = t[i]
<1> DEFINE b == s \o a
<1>0. p + Len(a) <= Len(t) /\ \A i \in 1 .. Len(a) : a[i] = t[p + i]
  BY DEF Behind
<1>1. /\ Len(a) \in Nat /\ Len(t) \in Nat /\ Len(b) = p + Len(a) /\ Len(b) <= Len(t)
      /\ \A i \in 1 .. p : b[i] = s[i]
      /\ \A i \in 1 .. Len(a) : b[p + i] = a[i]
      /\ b \in Seq(Kinds)
  <2>1. Len(a) \in Nat /\ Len(t) \in Nat
    BY LenProperties
  <2>2. b \in Seq(Kinds) /\ Len(b) = p + Len(a)
    BY <2>1, ConcatProperties
  <2>3. \A i \in 1 .. p : b[i] = s[i]
    BY <2>1
  <2>4. \A i \in 1 .. Len(a) : b[p + i] = a[i]
    BY <2>1
  <2> HIDE DEF b
  <2> QED BY <1>0, <2>1, <2>2, <2>3, <2>4
<1> HIDE DEF b
<1>2. IsPrefix(b, t) <=> \A i \in 1 .. Len(b) : b[i] = t[i]
  <2>1. IsPrefix(b, t) <=> SubSeq(b, 1, Len(b)) = SubSeq(t, 1, Len(b))
    BY <1>1 DEF IsPrefix
  <2> DEFINE v == SubSeq(b, 1, Len(b))
             w == SubSeq(t, 1, Len(b))
  <2>2. /\ v = [i \in 1 .. Len(b) |-> b[i]]
        /\ w = [i \in 1 .. Len(b) |-> t[i]]
    BY <1>1
  <2> HIDE DEF v, w
  <2>3. v = w <=> \A i \in 1 .. Len(b) : b[i] = t[i]
    <3>1. /\ \A i \in 1 .. Len(b) : v[i] = b[i]
          /\ \A i \in 1 .. Len(b) : w[i] = t[i]
      BY <2>2
    <3> QED BY <2>2, <3>1
  <2> QED BY <2>1, <2>3 DEF v, w
<1>3. \A i \in 1 .. Len(b) : i > p => b[i] = t[i]
  <2> TAKE i \in 1 .. Len(b)
  <2> HAVE i > p
  <2> DEFINE j == i - p
  <2>1. j \in 1 .. Len(a) /\ i = p + j
    BY <1>1
  <2> HIDE DEF j
  <2> QED BY <1>0, <1>1, <2>1
<1>4. (\A i \in 1 .. Len(b) : b[i] = t[i]) <=> \A i \in 1 .. p : s[i] = t[i]
  <2>1. \A i \in 1 .. p : i \in 1 .. Len(b)
    BY ONLY <1>1, p \in Nat
  <2>2. \A i \in 1 .. Len(b) : i > p \/ i \in 1 .. p
    BY ONLY <1>1, p \in Nat
  <2>3. ASSUME \A i \in 1 .. p : s[i] = t[i], NEW i \in 1 .. Len(b)
        PROVE  b[i] = t[i]
    <3>1. CASE i > p
      BY ONLY <1>3, <2>3, <3>1
    <3>2. CASE i \in 1 .. p
      BY ONLY <1>1, <2>3, <3>2
    <3> QED BY <2>2, <3>1, <3>2
  <2>4. ASSUME \A i \in 1 .. Len(b) : b[i] = t[i], NEW i \in 1 .. p
        PROVE  s[i] = t[i]
    BY ONLY <1>1, <2>1, <2>4
  <2> QED BY <2>3, <2>4
<1> QED BY <1>2, <1>4 DEF b

(* The prompt of the row goes before a just when t has a generation prompt  *)
(* in that place.                                                          *)
LEMMA PromptPrefix ==
  ASSUME NEW a \in Seq(Kinds), NEW t \in Seq(Kinds), NEW p \in Nat, p = PromptTokens + 1,
         Behind(a, t, p), \A i \in 1 .. PromptTokens : t[i] = "prompt"
  PROVE  IsPrefix(PromptIds \o a, t) <=> t[p] = "gen"
<1>1. PICK s : s = PromptIds
  OBVIOUS
<1>2. /\ s \in Seq(Kinds) /\ Len(s) = p /\ PromptTokens \in Nat
      /\ \A i \in 1 .. PromptTokens : s[i] = "prompt"
      /\ s[p] = "gen"
  BY <1>1, PromptIs, LengthAssumption
<1>3. IsPrefix(s \o a, t) <=> \A i \in 1 .. p : s[i] = t[i]
  BY <1>2, PrefixOf
<1>4. (\A i \in 1 .. p : s[i] = t[i]) <=> t[p] = "gen"
  <2>1. \A i \in 1 .. p : i = p \/ i \in 1 .. PromptTokens
    BY <1>2
  <2>2. p \in 1 .. p
    BY <1>2
  <2> QED BY <1>2, <2>1, <2>2
<1> QED BY <1>1, <1>3, <1>4

LEMMA TruncateTrains ==
  ASSUME NEW q, IsRecord(q), Tokens(q), Talk(q), Said(q), NEW e, e = Truncate(q)
  PROVE  TrainsOn(e)
<1> DEFINE t == TurnByTurn(q.messages)
           p == Len(PromptIds)
<1>1. /\ e.response = Cut(q.ids, p, RequestLen, ResponseLength)
      /\ e.mask = Cut(q.loss, p, RequestLen, ResponseLength)
      /\ e.messages = q.messages
  BY DEF IsRecord, Fields, Truncate, Cut
<1>2. RequestLen \in Nat /\ ResponseLength \in Nat /\ p \in Nat /\ p = PromptTokens + 1
      /\ PromptTokens \in Nat
  BY LengthAssumption, PromptIs DEF RequestLen
<1>3. q.ids \in Seq(Kinds) /\ q.loss \in Seq(Bits) /\ Len(q.ids) = Len(q.loss) /\ q.ids = t
  BY DEF Tokens, Said
<1>4. Row(e)
  BY TruncateKeeps
<1> HIDE DEF p, t
<1> DEFINE a == e.response
           b == e.mask
<1>5. /\ a \in Seq(Kinds) /\ Len(a) \in Nat /\ Len(a) <= ResponseLength
      /\ \A i \in 1 .. Len(a) : a[i] = q.ids[p + i] /\ p + i \in 1 .. Len(q.ids)
  <2>1. a \in Seq(Kinds) /\ IsCut(a, q.ids, p, ResponseLength)
    BY <1>1, <1>2, <1>3, CutIs
  <2> QED BY <2>1 DEF IsCut
<1>6. \A i \in 1 .. Len(b) : b[i] = q.loss[p + i]
  <2>1. IsCut(b, q.loss, p, ResponseLength)
    BY <1>1, <1>2, <1>3, CutIs
  <2> QED BY <2>1 DEF IsCut
<1>7. Len(a) = Len(b)
  BY <1>4 DEF Row
<1> HIDE DEF a, b
<1>8. Marked(a, b)
  <2>1. Marked(q.ids, q.loss)
    BY DEF Talk
  <2> QED BY <1>5, <1>6, <1>7, <2>1 DEF Marked
<1>9. ASSUME a # << >>
      PROVE  /\ IsPrefix(SubSeq(t, 1, p) \o a, t)
             /\ IsPrefix(PromptIds \o a, t) <=> Head(q.messages).kind = "assistant"
  <2>1. Len(a) > 0
    BY <1>5, <1>9
  <2>2. /\ p + Len(a) <= Len(t) /\ t \in Seq(Kinds) /\ Len(t) \in Nat
        /\ Behind(a, t, p)
    <3>1. Len(a) \in 1 .. Len(a)
      BY <1>5, <2>1
    <3> QED BY <1>3, <1>5, <3>1, LenProperties DEF Behind
  <2>3. /\ \A i \in 1 .. PromptTokens : t[i] = "prompt"
        /\ t[p] = "gen" <=> Head(q.messages).kind = "assistant"
    <3>1. q.messages # << >>
      <4>1. q.messages = << >> => Len(t) = PromptTokens
        BY DEF Talk, Rendering, t
      <4> QED BY <1>2, <1>5, <2>1, <2>2, <4>1
    <3>2. /\ \A i \in 1 .. PromptTokens : t[i] = "prompt"
          /\ t[PromptTokens + 1] = "gen" <=> q.messages[1].kind = "assistant"
      BY <3>1 DEF Talk, Rendering, t
    <3>3. Head(q.messages) = q.messages[1]
      BY <3>1 DEF Talk
    <3> QED BY <1>2, <3>2, <3>3
  <2> DEFINE s == SubSeq(t, 1, p)
  <2>4. s \in Seq(Kinds) /\ Len(s) = p /\ \A i \in 1 .. p : s[i] = t[i]
    BY <1>2, <1>5, <2>2
  <2> HIDE DEF s
  <2>5. IsPrefix(s \o a, t)
    BY <1>2, <1>5, <2>2, <2>4, PrefixOf
  <2>6. IsPrefix(PromptIds \o a, t) <=> t[p] = "gen"
    <3>1. a \in Seq(Kinds) /\ t \in Seq(Kinds) /\ p \in Nat
      BY <1>2, <1>5, <2>2
    <3> QED BY ONLY <1>2, <2>2, <2>3, <3>1, PromptPrefix
  <2> QED BY <2>3, <2>5, <2>6 DEF s
<1>10. FilledRow(e)
  BY <1>5, <1>7, <1>8 DEF FilledRow, a, b
<1> QED BY <1>1, <1>9, <1>10 DEF TrainsOn, a, p, t

(* A change of other fields keeps what is said about the tokens.           *)
Same(q, e) == e.ids = q.ids /\ e.loss = q.loss /\ e.messages = q.messages

LEMMA SameTalks ==
  ASSUME NEW q, NEW e, Same(q, e)
  PROVE  (Talk(q) <=> Talk(e)) /\ (Said(q) <=> Said(e)) /\ (Asked(q) <=> Asked(e))
BY DEF Same, Talk, Said, Asked

LEMMA FinalizeConverses ==
  ASSUME NEW q, Open(q), Talk(q), Said(q) \/ Asked(q), NEW e, e = Finalize(q)
  PROVE  Converses(e)
<1> DEFINE g == RemoveGen(q)
           c == Truncate(g)
<1>1. /\ IsRecord(q) /\ Tokens(q)
      /\ Kept(q, g) /\ Tokens(g) /\ Talk(g) /\ Said(g)
  BY RemoveGenKeeps, RemoveGenTalks DEF Open
<1> HIDE DEF g
<1>2. TrainsOn(c) /\ IsRecord(c)
  BY <1>1, TruncateTrains, TruncateKeeps DEF Kept
<1> HIDE DEF c
<1>3. \/ e = [q EXCEPT !.at = "raised"]
      \/ e = [c EXCEPT !.at = IF calcLogProbs THEN "logprobs" ELSE "returned"]
  BY DEF Finalize, g, c
<1>4. CASE e = [q EXCEPT !.at = "raised"]
  <2>1. e.at = "raised"
    BY <1>1, <1>4 DEF IsRecord, Fields
  <2> QED BY <2>1 DEF Converses
<1>5. CASE e = [c EXCEPT !.at = IF calcLogProbs THEN "logprobs" ELSE "returned"]
  <2>1. /\ e.at \in {"logprobs", "returned"} /\ e.response = c.response /\ e.mask = c.mask
        /\ e.messages = c.messages
    BY <1>2, <1>5 DEF IsRecord, Fields
  <2> QED BY <1>2, <2>1 DEF Converses, TrainsOn, FilledRow
<1> QED BY <1>3, <1>4, <1>5

LEMMA LeaveConverses ==
  ASSUME NEW q, Open(q), Talk(q), Said(q) \/ Asked(q), NEW reason \in Reasons,
         NEW e, e = Leave(q, reason)
  PROVE  Converses(e)
<1> DEFINE why == IF q.turns >= MaxAssistantTurns THEN "stop" ELSE reason
           f == [q EXCEPT !.finish = why]
<1>1. why \in Reasons
  BY DEF Reasons
<1> HIDE DEF why
<1>2. /\ IsRecord(f) /\ f.finish = why /\ f.held = q.held
      /\ f.ids = q.ids /\ f.loss = q.loss /\ f.response = q.response /\ f.mask = q.mask
      /\ f.turns = q.turns /\ f.userTurns = q.userTurns /\ f.messages = q.messages
  BY DEF Open, IsRecord, Fields
<1> HIDE DEF f
<1>3. Open(f)
  BY <1>1, <1>2 DEF Open, Tokens, Row
<1>4. Talk(f) /\ (Said(f) \/ Asked(f))
  BY <1>2, SameTalks DEF Same
<1>5. e = IF f.held THEN [f EXCEPT !.at = "release"] ELSE Finalize(f)
  BY DEF Leave, f, why
<1>6. CASE f.held
  <2>1. e = [f EXCEPT !.at = "release"]
    BY <1>5, <1>6
  <2>2. e.at = "release" /\ Same(f, e)
    BY <1>2, <2>1 DEF IsRecord, Fields, Same
  <2> QED BY <1>4, <2>2, SameTalks DEF Converses
<1>7. CASE ~f.held
  BY <1>3, <1>4, <1>5, <1>7, FinalizeConverses
<1> QED BY <1>6, <1>7

LEMMA AskConverses ==
  ASSUME NEW q, Open(q), Talk(q), Said(q) \/ Asked(q), NEW e, e = AskEngine(q)
  PROVE  Converses(e)
<1> DEFINE g == AddGen(q)
<1>1. IsRecord(q) /\ Tokens(q) /\ Kept(q, g) /\ Tokens(g) /\ Talk(g) /\ Asked(g)
  BY AddGenKeeps, AddGenTalks DEF Open
<1> HIDE DEF g
<1>2. Open(g)
  BY <1>1 DEF Open, Kept, Row
<1>3. e = IF Len(g.ids) + 1 >= MaxModelLen THEN Leave(g, "length") ELSE [g EXCEPT !.at = "engine"]
  BY DEF AskEngine, g
<1>4. CASE e = Leave(g, "length")
  BY <1>1, <1>2, <1>4, LeaveConverses DEF Reasons
<1>5. CASE e = [g EXCEPT !.at = "engine"]
  <2>1. e.at = "engine" /\ Same(g, e)
    BY <1>1, <1>5 DEF Kept, IsRecord, Fields, Same
  <2> QED BY <1>1, <2>1, SameTalks DEF Converses
<1> QED BY <1>3, <1>4, <1>5

-----------------------------------------------------------------------------
(* The tasks keep it                                                         *)

ConverseInv == \A r \in Requests : Converses(req[r])

LEMMA BeginConverses ==
  ASSUME GoodInv, ConverseInv, NEW r \in Requests,
         \/ Begin(r) \/ StartInteraction(r)
         \/ \E n \in 0 .. MaxToolTokens : CreateTools(r, n)
  PROVE  \E q : Becomes(r, q) /\ Converses(q)
<1>1. /\ Open(req[r]) /\ IsRecord(req[r])
      /\ Talk(req[r]) /\ (Said(req[r]) \/ Asked(req[r]))
  BY DEF GoodInv, Good, Open, ConverseInv, Converses, Begin, CreateTools, StartInteraction, Running
<1>2. ASSUME NEW q, NEW at \in {"create", "start"}, IsRecord(q), Talk(q),
             Asked(q) \/ (at = "start" /\ Said(q)), NEW e, e = [q EXCEPT !.at = at]
      PROVE  Converses(e)
  <2>1. e.at = at /\ Same(q, e)
    BY <1>2 DEF IsRecord, Fields, Same
  <2> QED BY <1>2, <2>1, SameTalks DEF Converses
<1>3. CASE Begin(r)
  <2>0. Asked(req[r])
    BY <1>3 DEF ConverseInv, Converses, Begin, Running
  <2>1. CASE Becomes(r, [req[r] EXCEPT !.at = "create"])
    BY <1>1, <1>2, <2>0, <2>1
  <2>2. CASE Becomes(r, [req[r] EXCEPT !.at = "start"])
    BY <1>1, <1>2, <2>0, <2>2
  <2>3. CASE Becomes(r, AskEngine(req[r]))
    BY <1>1, <2>3, AskConverses
  <2> QED BY <1>3, <2>1, <2>2, <2>3 DEF Begin
<1>4. ASSUME NEW n \in 0 .. MaxToolTokens, CreateTools(r, n)
      PROVE  \E q : Becomes(r, q) /\ Converses(q)
  <2> DEFINE h == [req[r] EXCEPT !.held = TRUE]
             q == AddTools(h, n)
  <2>1. /\ IsRecord(h) /\ h.finish = req[r].finish /\ h.held = TRUE
        /\ h.ids = req[r].ids /\ h.loss = req[r].loss
        /\ h.response = req[r].response /\ h.mask = req[r].mask
        /\ h.turns = req[r].turns /\ h.userTurns = req[r].userTurns
        /\ h.messages = req[r].messages
    BY <1>1 DEF IsRecord, Fields
  <2>2. \/ Becomes(r, [q EXCEPT !.at = "start"])
        \/ Becomes(r, AskEngine(q))
    BY <1>4 DEF CreateTools
  <2> HIDE DEF h
  <2>3. Open(h) /\ Talk(h) /\ (Said(h) \/ Asked(h)) /\ Tokens(h)
    BY <1>1, <2>1, SameTalks DEF Open, Tokens, Row, Same
  <2>4. n \in Nat
    BY LengthAssumption
  <2>5. Kept(h, q) /\ Tokens(q) /\ Talk(q) /\ (Said(q) \/ Asked(q))
    BY <2>1, <2>3, <2>4, AddToolsKeeps, AddToolsTalks
  <2> HIDE DEF q
  <2>6. Open(q) /\ IsRecord(q)
    BY <2>3, <2>5 DEF Open, Kept, Row
  <2>7. CASE Becomes(r, [q EXCEPT !.at = "start"])
    BY <1>2, <2>5, <2>6, <2>7
  <2>8. CASE Becomes(r, AskEngine(q))
    BY <2>5, <2>6, <2>8, AskConverses
  <2> QED BY <2>2, <2>7, <2>8
<1>5. CASE StartInteraction(r)
  BY <1>1, <1>5, AskConverses DEF StartInteraction
<1> QED BY <1>3, <1>4, <1>5

LEMMA EngineConverses ==
  ASSUME GoodInv, ConverseInv, NEW r \in Requests, EngineReplies(r)
  PROVE  \E q : Becomes(r, q) /\ Converses(q)
<1>1. /\ Open(req[r]) /\ Good(req[r]) /\ req[r].at = "engine"
      /\ Talk(req[r]) /\ Asked(req[r])
      /\ req[r].turns \in Nat /\ req[r].turns < MaxAssistantTurns
  <2>1. req[r].at = "engine"
    BY DEF EngineReplies, Running
  <2>2. Good(req[r]) /\ Converses(req[r])
    BY DEF GoodInv, ConverseInv
  <2>3. Open(req[r]) /\ req[r].turns < MaxAssistantTurns
    BY <2>1, <2>2 DEF Good
  <2>4. Talk(req[r]) /\ Asked(req[r])
    BY <2>1, <2>2 DEF Converses
  <2> QED BY <2>1, <2>2, <2>3, <2>4 DEF Open
<1>0. PICK reply \in Messages :
        reply.kind = "assistant" /\ Answered(r, WithReply(req[r], reply))
  BY <1>1, ReplyArrives
<1> DEFINE m == AddMessage(req[r], reply, 1)
           q == WithReply(req[r], reply)
<1>2. Kept(req[r], m) /\ Tokens(m)
  <2>1. 1 \in Bits
    BY DEF Bits
  <2> QED BY <1>1, <2>1, AddMessageKeeps DEF Open
<1>3. Talk(m) /\ Said(m)
  BY <1>0, <1>1, ReplyTalks
<1>a. q = [m EXCEPT !.turns = @ + 1]
  BY DEF WithReply
<1> HIDE DEF m, q
<1>4. /\ IsRecord(q) /\ q.finish = req[r].finish /\ q.held = req[r].held
      /\ q.ids = m.ids /\ q.loss = m.loss /\ q.messages = m.messages
      /\ q.response = req[r].response /\ q.mask = req[r].mask
      /\ q.turns = req[r].turns + 1 /\ q.userTurns = req[r].userTurns
  BY <1>2, <1>a DEF Kept, IsRecord, Fields
<1>5. Open(q) /\ Talk(q) /\ Said(q)
  <2>1. q.turns \in 0 .. MaxAssistantTurns
    BY ONLY <1>1, <1>4, LengthAssumption
  <2>2. Tokens(q)
    BY ONLY <1>2, <1>4 DEF Tokens
  <2>3. Open(q)
    BY <1>1, <1>4, <2>1, <2>2 DEF Open, Row
  <2>4. Same(m, q)
    BY <1>4 DEF Same
  <2> QED BY <1>3, <1>4, <2>3, <2>4, SameTalks
<1>6. CASE \E reason \in Reasons : Becomes(r, Leave(q, reason))
  BY <1>5, <1>6, LeaveConverses
<1>7. CASE Becomes(r, [q EXCEPT !.at = "tools"])
  <2> DEFINE e == [q EXCEPT !.at = "tools"]
  <2>1. e.at = "tools" /\ Same(q, e) /\ e.messages = q.messages
    BY <1>4 DEF IsRecord, Fields, Same
  <2> HIDE DEF e
  <2>2. Converses(e)
    BY <1>5, <2>1, SameTalks DEF Converses
  <2> QED BY <1>7, <2>2 DEF e
<1>8. CASE Becomes(r, [q EXCEPT !.at = "interaction", !.userTurns = @ + 1])
  <2> DEFINE e == [q EXCEPT !.at = "interaction", !.userTurns = @ + 1]
  <2>1. e.at = "interaction" /\ Same(q, e) /\ e.messages = q.messages
    BY <1>4 DEF IsRecord, Fields, Same
  <2> HIDE DEF e
  <2>2. Converses(e)
    BY <1>5, <2>1, SameTalks DEF Converses
  <2> QED BY <1>8, <2>2 DEF e
<1> QED BY <1>0, <1>6, <1>7, <1>8 DEF Answered, Reasons, q

LEMMA AnswerConverses ==
  ASSUME GoodInv, ConverseInv, NEW r \in Requests,
         \/ \E n \in 0 .. MaxToolTokens : ToolsReply(r, n)
         \/ InteractionReplies(r)
  PROVE  \E q : Becomes(r, q) /\ Converses(q)
<1>1. /\ Open(req[r]) /\ Talk(req[r]) /\ Said(req[r])
      /\ IsRecord(req[r]) /\ Tokens(req[r])
  BY DEF GoodInv, Good, Open, ToolsReply, InteractionReplies, Running, ConverseInv, Converses
<1>2. ASSUME NEW q, Open(q), Talk(q), Said(q),
             Becomes(r, IF RowsFull THEN Leave(q, "stop") ELSE AskEngine(q))
      PROVE  \E e : Becomes(r, e) /\ Converses(e)
  <2>1. "stop" \in Reasons
    BY DEF Reasons
  <2> QED BY <1>2, <2>1, LeaveConverses, AskConverses
<1>4. ASSUME NEW n \in 0 .. MaxToolTokens, ToolsReply(r, n)
      PROVE  \E q : Becomes(r, q) /\ Converses(q)
  <2> DEFINE q == AddTools(req[r], n)
  <2>1. Becomes(r, IF RowsFull THEN Leave(q, "stop") ELSE AskEngine(q))
    BY <1>4 DEF ToolsReply
  <2>2. n \in Nat
    BY LengthAssumption
  <2>3. Kept(req[r], q) /\ Tokens(q) /\ Talk(q) /\ Said(q)
    BY <1>1, <2>2, AddToolsKeeps, AddToolsTalks
  <2> HIDE DEF q
  <2>4. Open(q)
    BY <1>1, <2>3 DEF Open, Kept, Row
  <2> QED BY <1>2, <2>1, <2>3, <2>4
<1>5. CASE InteractionReplies(r)
  <2> DEFINE m == Answer("user", 1)
             q == AddMessage(req[r], m, 0)
  <2>0. m \in Messages /\ m.kind # "assistant" /\ 0 \in Bits
    BY AnswerIs DEF Bits
  <2>4. \/ Becomes(r, Leave(req[r], "stop"))
        \/ Becomes(r, IF RowsFull THEN Leave(q, "stop") ELSE AskEngine(q))
    BY <1>5 DEF InteractionReplies
  <2> HIDE DEF m
  <2>5. Kept(req[r], q) /\ Tokens(q) /\ Talk(q) /\ Said(q)
    BY <1>1, <2>0, AddMessageKeeps, AnswerTalks
  <2> HIDE DEF q
  <2>1. Open(q)
    BY <1>1, <2>5 DEF Open, Kept, Row
  <2>3. CASE Becomes(r, Leave(req[r], "stop"))
    <3>1. "stop" \in Reasons
      BY DEF Reasons
    <3> QED BY <1>1, <2>3, <3>1, LeaveConverses
  <2> QED BY <1>2, <2>1, <2>3, <2>4, <2>5
<1> QED BY <1>4, <1>5

LEMMA EndConverses ==
  ASSUME GoodInv, ConverseInv, NEW r \in Requests, ReleaseTools(r) \/ TakeLogProbs(r)
  PROVE  \E q : Becomes(r, q) /\ Converses(q)
<1>1. Open(req[r]) /\ IsRecord(req[r])
  BY DEF GoodInv, Good, Open
<1>2. CASE ReleaseTools(r)
  <2> DEFINE q == [req[r] EXCEPT !.held = FALSE]
  <2>1. /\ IsRecord(q) /\ q.finish = req[r].finish /\ q.held = FALSE
        /\ q.ids = req[r].ids /\ q.loss = req[r].loss
        /\ q.response = req[r].response /\ q.mask = req[r].mask
        /\ q.turns = req[r].turns /\ q.userTurns = req[r].userTurns
        /\ q.messages = req[r].messages
    BY <1>1 DEF IsRecord, Fields
  <2>2. Becomes(r, Finalize(q)) /\ req[r].at = "release"
    BY <1>2 DEF ReleaseTools, Running
  <2> HIDE DEF q
  <2>3. Talk(req[r]) /\ (Said(req[r]) \/ Asked(req[r]))
    BY <2>2 DEF ConverseInv, Converses
  <2>4. Open(q) /\ Talk(q) /\ (Said(q) \/ Asked(q))
    BY <1>1, <2>1, <2>3, SameTalks DEF Open, Tokens, Row, Same
  <2> QED BY <2>2, <2>4, FinalizeConverses
<1>3. CASE TakeLogProbs(r)
  <2>1. PICK logs : Becomes(r, [req[r] EXCEPT !.at = "returned", !.logprobs = logs])
    BY <1>3 DEF TakeLogProbs
  <2> DEFINE q == [req[r] EXCEPT !.at = "returned", !.logprobs = logs]
  <2>2. /\ q.at = "returned" /\ q.messages = req[r].messages
        /\ q.response = req[r].response /\ q.mask = req[r].mask
    BY <1>1 DEF IsRecord, Fields
  <2>3. TrainsOn(req[r])
    BY <1>3 DEF TakeLogProbs, Running, ConverseInv, Converses
  <2> HIDE DEF q
  <2>4. Converses(q)
    BY <2>2, <2>3 DEF Converses, TrainsOn, FilledRow
  <2> QED BY <2>1, <2>4 DEF q
<1> QED BY <1>2, <1>3

LEMMA TaskConverses ==
  ASSUME GoodInv, ConverseInv, NEW r \in Requests, TaskStep(r)
  PROVE  ConverseInv'
<1>1. CASE CallRaises(r)
  <2>1. req' = [req EXCEPT ![r].at = "raised"] /\ IsRecord(req[r])
        /\ req = [s \in Requests |-> req[s]]
    BY <1>1 DEF CallRaises, GoodInv, Good, Open
  <2>2. req'[r].at = "raised" /\ \A s \in Requests : s # r => req'[s] = req[s]
    BY <2>1 DEF IsRecord, Fields
  <2>3. ASSUME NEW s \in Requests
        PROVE  Converses(req'[s])
    BY <2>2 DEF ConverseInv, Converses
  <2> QED BY <2>3 DEF ConverseInv, Converses, TrainsOn, FilledRow, Talk, Said, Asked
<1>2. CASE \E q : Becomes(r, q) /\ Converses(q)
  <2>1. PICK q : Becomes(r, q) /\ Converses(q)
    BY <1>2
  <2>2. \A s \in Requests : req'[s] = IF s = r THEN q ELSE req[s]
    BY <2>1 DEF Becomes, GoodInv
  <2>3. ASSUME NEW s \in Requests
        PROVE  Converses(req'[s])
    BY <2>1, <2>2 DEF ConverseInv
  <2> QED BY <2>3 DEF ConverseInv, Converses, TrainsOn, FilledRow, Talk, Said, Asked
<1> QED
  BY <1>1, <1>2, BeginConverses, EngineConverses, AnswerConverses, EndConverses DEF TaskStep

LEMMA PaddingFills ==
  ASSUME NEW held, NEW e, e = [Padding EXCEPT !.held = held]
  PROVE  Converses(e)
<1>1. /\ e.at = "padded" /\ e.response = Copies(ResponseLength, "pad")
      /\ e.mask = Copies(ResponseLength, 0)
  BY DEF Padding, NewRequest
<1>2. ResponseLength \in Nat
  BY LengthAssumption
<1>3. /\ Len(Copies(ResponseLength, "pad")) = ResponseLength
      /\ Len(Copies(ResponseLength, 0)) = ResponseLength
      /\ \A i \in 1 .. ResponseLength : /\ Copies(ResponseLength, "pad")[i] = "pad"
                                        /\ Copies(ResponseLength, 0)[i] = 0
  BY <1>2 DEF Copies
<1> QED BY <1>1, <1>2, <1>3 DEF Converses, FilledRow, Marked, Spoken

LEMMA ConverseInit == Init => ConverseInv
<1>1. /\ NewRequest.at = "queued" /\ NewRequest.ids = PromptIds /\ NewRequest.messages = << >>
      /\ NewRequest.loss = Copies(Len(PromptIds), 0)
  BY DEF NewRequest
<1>2. << >> \in Seq(Messages)
  OBVIOUS
<1>3. Rendering(<< >>)
  <2> DEFINE t == Copies(PromptTokens, "prompt")
  <2>1. /\ t \in Seq(Kinds) /\ Len(t) = PromptTokens /\ PromptTokens \in Nat /\ PromptTokens > 0
        /\ \A i \in 1 .. PromptTokens : t[i] = "prompt"
    BY LengthAssumption, CopiesType DEF Kinds
  <2> HIDE DEF t
  <2>2. t[Len(t)] # "gen" /\ Len(t) >= PromptTokens
    BY <2>1
  <2>3. TurnByTurn(<< >>) = t
    BY NoTurns DEF t
  <2>4. Len(<< >>) = 0
    OBVIOUS
  <2> QED BY <2>1, <2>2, <2>3, <2>4 DEF Rendering
<1>4. Marked(PromptIds, Copies(Len(PromptIds), 0))
  <2>1. /\ PromptTokens \in Nat /\ Len(PromptIds) = PromptTokens + 1
        /\ \A i \in 1 .. PromptTokens : PromptIds[i] = "prompt"
        /\ PromptIds[PromptTokens + 1] = "gen"
    BY PromptIs, LengthAssumption
  <2>2. \A i \in 1 .. Len(PromptIds) : Copies(Len(PromptIds), 0)[i] = 0 /\ PromptIds[i] \notin Spoken
    BY <2>1 DEF Copies, Spoken
  <2> QED BY <2>2 DEF Marked
<1>5. PromptIds = Append(TurnByTurn(<< >>), "gen")
  BY NoTurns, PromptIs
<1>6. Converses(NewRequest)
  BY <1>1, <1>2, <1>3, <1>4, <1>5 DEF Converses, Talk, Asked
<1> QED BY <1>6 DEF Init, ConverseInv

LEMMA ConverseNext ==
  ASSUME RolloutInv, ConverseInv, [Next]_vars
  PROVE  ConverseInv'
<1>1. GoodInv
  BY DEF RolloutInv
<1>2. CASE UNCHANGED req
  BY <1>2 DEF ConverseInv, Converses, TrainsOn, FilledRow, Talk, Said, Asked
<1>3. CASE req' = CancelOthers
  <2>1. ASSUME NEW r \in Requests
        PROVE  Converses(CancelOthers[r])
    BY PaddingFills DEF CancelOthers, ConverseInv
  <2> QED
    BY <1>3, <2>1 DEF ConverseInv, Converses, TrainsOn, FilledRow, Talk, Said, Asked
<1>4. UNCHANGED req \/ req' = CancelOthers \/ \E r \in Requests : TaskStep(r)
  BY DEF Next, BatchStep, TakeCompleted, GatherAll, Build, Terminated, vars
<1> QED BY <1>1, <1>2, <1>3, <1>4, TaskConverses

(* RowsAreConversations: for any lengths and limits, replies as they were   *)
(* sampled or tokenised again, and tools that answer when they are made,    *)
(* the response of a row is the conversation turn by turn from behind the   *)
(* prompt on, cut to the limits; it continues the prompt of the row just    *)
(* when the conversation starts with a reply; and its loss mask is 1 on the *)
(* model's replies only.                                                    *)
THEOREM RowsRenderConversations == Spec => []RowsAreConversations
<1>1. RolloutInv /\ ConverseInv => RowsAreConversations
  <2> SUFFICES ASSUME RolloutInv, ConverseInv, phase = "built", NEW r \in Requests
               PROVE  LET q == req[r] IN
                        /\ Len(q.response) <= ResponseLength /\ Len(q.mask) = Len(q.response)
                        /\ \A i \in DOMAIN q.response :
                             q.mask[i] = 1 <=> q.response[i] \in {"assistant", "close"}
                        /\ q.at = "returned" /\ q.response # << >> =>
                             /\ IsPrefix(SubSeq(TurnByTurn(q.messages), 1, Len(PromptIds))
                                           \o q.response, TurnByTurn(q.messages))
                             /\ IsPrefix(PromptIds \o q.response, TurnByTurn(q.messages))
                                  <=> Head(q.messages).kind = "assistant"
    BY DEF RowsAreConversations
  <2>1. req[r].at \in {"returned", "padded"}
    BY DEF RolloutInv, BatchInv, IsOver, Over
  <2>2. FilledRow(req[r]) /\ (req[r].at = "returned" => TrainsOn(req[r]))
    BY <2>1 DEF ConverseInv, Converses, TrainsOn
  <2>3. DOMAIN req[r].response = 1 .. Len(req[r].response)
    BY LenProperties DEF RolloutInv, GoodInv, Good, Open, Row
  <2> QED BY <2>2, <2>3 DEF TrainsOn, FilledRow, Marked, Spoken
<1>2. RolloutInv /\ ConverseInv /\ [Next]_vars => ConverseInv'
  BY ConverseNext
<1> QED BY <1>1, <1>2, ConverseInit, RolloutInvariant, PTL DEF Spec
=============================================================================
