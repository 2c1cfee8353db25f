-------------------------- MODULE InstanceLifecycle --------------------------
(***************************************************************************)
(* What instances promise to the pool, to the dialers and to the user: the *)
(* four-state machine of Status, when an instance has a client, and that   *)
(* its end is final.                                                       *)
(*                                                                         *)
(*    Probing  --> Normal    the pool has confirmed the egress             *)
(*    Normal   --> Probing   lost tunnel or replay                         *)
(*    Probing, Normal --> Draining --> Probing                             *)
(*    any      --> Disabled --> Probing                                    *)
(*    any      --> over                                                    *)
(***************************************************************************)
CONSTANTS
  Inst,                \* the instances
  States               \* the statuses

VARIABLES
  status,              \* [Inst -> States], what others read
  client,              \* [Inst -> BOOLEAN], there is a client
  over                 \* [Inst -> BOOLEAN], in.stopped

vars == <<status, client, over>>

Init ==
  /\ status = [i \in Inst |-> "Probing"]
  /\ client = [i \in Inst |-> FALSE]
  /\ over = [i \in Inst |-> FALSE]

Become(i, s) == status' = [status EXCEPT ![i] = s]

(* A client is started and closed while the instance is Probing. *)
Rebuild(i) ==
  /\ status[i] = "Probing"
  /\ client' = [client EXCEPT ![i] = ~@]
  /\ UNCHANGED <<status, over>>

(* An instance is admitted to service only with a client. *)
Admit(i) ==
  /\ status[i] = "Probing" /\ client[i]
  /\ Become(i, "Normal")
  /\ UNCHANGED <<client, over>>

BackToProbing(i) ==
  /\ status[i] # "Probing"
  /\ Become(i, "Probing")
  /\ UNCHANGED <<client, over>>

StartDraining(i) ==
  /\ status[i] \in {"Probing", "Normal"} /\ client[i]
  /\ Become(i, "Draining")
  /\ UNCHANGED <<client, over>>

(* No client outlives the moment its instance is Disabled. *)
Disable(i) ==
  /\ status[i] # "Disabled"
  /\ Become(i, "Disabled")
  /\ client' = [client EXCEPT ![i] = FALSE]
  /\ UNCHANGED over

End(i) ==
  /\ over' = [over EXCEPT ![i] = TRUE]
  /\ client' = [client EXCEPT ![i] = FALSE]
  /\ UNCHANGED status

Step(i) ==
  /\ ~over[i]
  /\ Rebuild(i) \/ Admit(i) \/ BackToProbing(i) \/ StartDraining(i) \/ Disable(i) \/ End(i)

Next == \E i \in Inst : Step(i)

Spec == Init /\ [][Next]_vars
=============================================================================
