----------------------- MODULE FSDPCheckpointManager -----------------------
(***************************************************************************)
(* The checkpoint managers of one worker group: every rank of the group    *)
(* runs FSDPCheckpointManager.save_checkpoint on the same folder, in step  *)
(* with the others only where the code calls torch.distributed.barrier().  *)
(*                                                                         *)
(* The disk holds one shard per rank and folder.  A shard stands for the   *)
(* three files a rank writes (model, optimizer, extra state): it is Torn   *)
(* from the moment the first of them is opened until the last is closed.   *)
(*                                                                         *)
(* The trainer that owns the group supplies the folder's step and the      *)
(* state its ranks hold, as the arguments of the RPC do; it conjoins an    *)
(* action of this module with what it does itself.                         *)
(***************************************************************************)
EXTENDS Integers, Sequences

CONSTANTS
  Ranks,        \* the ranks of the worker group; rank 0 rotates
  Steps,        \* the global steps a folder global_step_<s> can be named after
  States,       \* the training states a rank can hold
  MaxKeep,      \* max_ckpt_to_keep, 0 for None
  SaveHfModel,  \* "hf_model" is among the save contents
  RemoveMayFail,\* rmtree(ignore_errors=True) may leave files behind
  Absent,       \* no file
  Torn          \* files of an unfinished save, or of two different saves

VARIABLES
  shard,        \* on disk: what each folder holds for each rank
  dirs,         \* on disk: the folders that exist
  saved,        \* rank 0's previous_saved_paths, in memory
  doomed,       \* the folders rank 0 is removing
  phase         \* where each rank is in save_checkpoint

diskVars == <<shard, dirs>>
vars == <<shard, dirs, saved, doomed, phase>>

Phases == {"idle", "rotate", "remove", "mkdir", "entered", "write", "writing",
           "written", "hf", "hf_wait", "append", "returned"}

Contents == States \cup {Absent, Torn}

(* The group's ranks have built their managers and nothing was ever saved. *)
Init ==
  /\ shard = [s \in Steps |-> [r \in Ranks |-> Absent]]
  /\ dirs = {}
  /\ saved = << >>
  /\ doomed = {}
  /\ phase = [r \in Ranks |-> "idle"]

Move(r, from, to) ==
  /\ phase[r] = from
  /\ phase' = [phase EXCEPT ![r] = to]

(* A barrier: every rank has arrived, and all leave together. *)
Barrier(at, to) ==
  /\ \A r \in Ranks : phase[r] = at
  /\ phase' = to

Idle == \A r \in Ranks : phase[r] = "idle"

(* The RPC reaches every rank; only rank 0 looks at the rotation. *)
Call ==
  /\ Idle
  /\ phase' = [r \in Ranks |-> IF r = 0 THEN "rotate" ELSE "mkdir"]
  /\ UNCHANGED <<shard, dirs, saved, doomed>>

(* The oldest folders go BEFORE the new one is written: after this step    *)
(* rank 0 remembers MaxKeep - 1 folders.                                   *)
KeepNone == Len(saved) - MaxKeep + 2   \* mutant: one folder too many goes
KeepOneMore == Len(saved) - MaxKeep    \* mutant: one folder too many stays
KeepStart == Len(saved) - MaxKeep + 1

Rotate ==
  /\ Move(0, "rotate", "remove")
  /\ IF MaxKeep > 0 /\ Len(saved) >= MaxKeep
     THEN /\ doomed' = {saved[i] : i \in 1..KeepStart} \cap dirs
          /\ saved' = SubSeq(saved, KeepStart + 1, Len(saved))
     ELSE UNCHANGED <<doomed, saved>>
  /\ UNCHANGED <<shard, dirs>>

(* rmtree deletes the files one after the other, the folder last. *)
RemoveFile(d, r) ==
  /\ d \in doomed
  /\ shard[d][r] # Absent
  /\ shard' = [shard EXCEPT ![d][r] = Absent]
  /\ UNCHANGED <<dirs, saved, doomed, phase>>

RemoveDir(d) ==
  /\ d \in doomed
  /\ \A r \in Ranks : shard[d][r] = Absent
  /\ dirs' = dirs \ {d}
  /\ doomed' = doomed \ {d}
  /\ UNCHANGED <<shard, saved, phase>>

RemoveFails(d) ==
  /\ RemoveMayFail
  /\ d \in doomed
  /\ doomed' = doomed \ {d}
  /\ UNCHANGED <<shard, dirs, saved, phase>>

Mkdir(r, step) ==
  /\ \/ Move(r, "mkdir", "entered")
     \/ r = 0 /\ doomed = {} /\ Move(r, "remove", "entered")
  /\ dirs' = dirs \cup {step}
  /\ UNCHANGED <<shard, saved, doomed>>

EnterBarrier ==
  /\ Barrier("entered", [r \in Ranks |-> "write"])
  /\ UNCHANGED <<shard, dirs, saved, doomed>>

BeginWrite(r, step) ==
  /\ Move(r, "write", "writing")
  /\ shard' = [shard EXCEPT ![step][r] = Torn]
  /\ UNCHANGED <<dirs, saved, doomed>>

EndWrite(r, step, state) ==
  /\ Move(r, "writing", "written")
  /\ shard' = [shard EXCEPT ![step][r] = state]
  /\ UNCHANGED <<dirs, saved, doomed>>

(* "wait for everyone to dump to local" *)
DumpBarrier ==
  /\ Barrier("written", [r \in Ranks |-> IF ~SaveHfModel THEN "append"
                                         ELSE IF r = 0 THEN "hf" ELSE "hf_wait"])
  /\ UNCHANGED <<shard, dirs, saved, doomed>>

(* Mutant of SaveHf: rank 0 goes on without the second barrier. *)
SaveHfAndGo ==
  /\ Move(0, "hf", "append")
  /\ UNCHANGED <<shard, dirs, saved, doomed>>

(* Rank 0 dumps the gathered model, which no resume reads. *)
SaveHf ==
  /\ Move(0, "hf", "hf_wait")
  /\ UNCHANGED <<shard, dirs, saved, doomed>>

HfBarrier ==
  /\ Barrier("hf_wait", [r \in Ranks |-> "append"])
  /\ UNCHANGED <<shard, dirs, saved, doomed>>

(* Every rank appends to its own list; only rank 0's is ever read. *)
Return(r, step) ==
  /\ Move(r, "append", "returned")
  /\ saved' = IF r = 0 THEN Append(saved, step) ELSE saved
  /\ UNCHANGED <<shard, dirs, doomed>>

(* One step of rank r inside save_checkpoint(step), holding `state`. *)
RankStep(r, step, state) ==
  \/ r = 0 /\ Rotate
  \/ r = 0 /\ \E d \in doomed : \/ \E q \in Ranks : RemoveFile(d, q)
                               \/ RemoveDir(d)
                               \/ RemoveFails(d)
  \/ Mkdir(r, step)
  \/ BeginWrite(r, step)
  \/ EndWrite(r, step, state)
  \/ r = 0 /\ SaveHf
  \/ Return(r, step)

BarrierStep == EnterBarrier \/ DumpBarrier \/ HfBarrier

(* The controller has every rank's answer. *)
Collect ==
  /\ \A r \in Ranks : phase[r] = "returned"
  /\ phase' = [r \in Ranks |-> "idle"]
  /\ UNCHANGED <<shard, dirs, saved, doomed>>

(* The processes are gone: the memory is lost, the disk stays as it is. *)
Exit ==
  /\ saved' = << >>
  /\ doomed' = {}
  /\ phase' = [r \in Ranks |-> "idle"]
  /\ UNCHANGED <<shard, dirs>>

(* load_checkpoint: each rank reads its own shard of the folder.  A missing *)
(* shard raises; a torn one raises or is taken for a state (files of two    *)
(* saves load without complaint).                                          *)
LoadRaises(step) == \E r \in Ranks : shard[step][r] \in {Absent, Torn}
LoadYields(step) == \A r \in Ranks : shard[step][r] # Absent

Complete(step) == \A r \in Ranks : shard[step][r] \in States

(* A checkpoint of one moment: complete, and the same state on all ranks. *)
Uniform(step) ==
  /\ Complete(step)
  /\ \A r, q \in Ranks : shard[step][r] = shard[step][q]

TypeOK ==
  /\ shard \in [Steps -> [Ranks -> Contents]]
  /\ dirs \subseteq Steps
  /\ saved \in Seq(Steps)
  /\ doomed \subseteq Steps
  /\ phase \in [Ranks -> Phases]

-----------------------------------------------------------------------------
(* What a save keeps safe *)

PastWrite == {"written", "hf", "hf_wait", "append", "returned"}

(* Rank 0 remembers earlier folders, and the one of this save once it has   *)
(* appended it.                                                            *)
RemembersOlder(step) ==
  \A i \in 1..Len(saved) :
    \/ saved[i] < step
    \/ i = Len(saved) /\ saved[i] = step /\ phase[0] = "returned"

(* A save of `step` is under way, the tracker names the folder `tracked`,   *)
(* and rank r holds state[r]: no step of the save endangers that folder.    *)
SaveInv(step, tracked, state) ==
  /\ TypeOK
  /\ doomed # {} => phase[0] = "remove"
  /\ \A d \in doomed : d < step /\ d # tracked
  /\ \A r \in Ranks : phase[r] \in PastWrite => shard[step][r] = state[r]
  /\ RemembersOlder(step)
  /\ phase[0] # "returned" => \A i \in 1..(Len(saved) - 1) : saved[i] # tracked

-----------------------------------------------------------------------------
(* What lets a save come to its end *)

(* Between two barriers the ranks are in the same part of the save, and     *)
(* rank 0 alone rotates and gathers the model.                             *)
Preparing == {"rotate", "remove", "mkdir", "entered"}
Dumping == {"write", "writing", "written"}
Gathering == {"hf", "hf_wait"}
Leaving == {"append", "returned"}

AllIn(part) == \A r \in Ranks : phase[r] \in part

Abreast ==
  /\ AllIn(Preparing) \/ AllIn(Dumping) \/ AllIn(Gathering) \/ AllIn(Leaving)
  /\ \A r \in Ranks \ {0} : phase[r] \notin {"rotate", "remove", "hf"}

(* A rank has something to do that waits for nobody, or all ranks are where *)
(* they wait for each other.                                               *)
NobodyWaitsInVain ==
  \/ phase[0] \in {"rotate", "remove", "hf"}
  \/ \E r \in Ranks : phase[r] \in {"mkdir", "write", "writing", "append"}
  \/ \E wait \in {"entered", "written", "hf_wait", "returned"} : AllIn({wait})
=============================================================================
