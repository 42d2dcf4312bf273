------------------------------- MODULE MCPPOStep -------------------------------
(* Instances of PPOStep. *)
EXTENDS PPOStep

Base == [prompts |-> 1, n |-> 1, world |-> 1, tp |-> 1, sp |-> 1, mini |-> 2, micro |-> 1,
         epochs |-> 1, dynamic |-> FALSE, tokens |-> 8, balance |-> FALSE, ref |-> FALSE, critic |-> FALSE,
         warmup |-> 0, profile |-> {}, continuous |-> FALSE, start |-> 1, total |-> 1]

(* Six rows of unequal length on two ranks, in dynamic micro-batches, two  *)
(* epochs of each update.                                                  *)
Uneven == [Base EXCEPT !.prompts = 3, !.n = 2, !.world = 2, !.dynamic = TRUE, !.balance = TRUE,
                       !.epochs = 2]

(* Groups of two ranks, in rollout, in training and in both; fixed and     *)
(* dynamic micro-batches; a reference policy and a critic.                 *)
Grouped == {[Base EXCEPT !.prompts = 2, !.n = 2, !.world = 4, !.tp = g[1], !.sp = g[2],
                         !.dynamic = d, !.balance = b, !.ref = TRUE, !.critic = TRUE, !.mini = 1,
                         !.epochs = 2] :
              g \in {<<1, 2>>, <<2, 1>>, <<2, 2>>}, d \in BOOLEAN, b \in BOOLEAN}

(* Three steps with any of them profiled, from a fresh start or a resume,  *)
(* before and after the warmup of the critic.                              *)
Profiled == {[Base EXCEPT !.profile = p, !.continuous = c, !.start = s, !.total = 3, !.warmup = 2] :
               p \in SUBSET (1..4), c \in BOOLEAN, s \in 1..2}

MCSettings == {Uneven} \cup Grouped \cup Profiled
MCLengths == [c \in MCSettings |-> CASE c = Uneven -> {2, 4, 7}
                                    [] c \in Grouped -> {2, 5}
                                    [] OTHER -> {1}]

(* One response to a prompt, on two ranks. *)
Single == {[Base EXCEPT !.prompts = 4, !.world = 2, !.balance = TRUE]}
SingleLengths == [c \in Single |-> {1, 3}]
=============================================================================
