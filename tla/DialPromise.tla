----------------------------- MODULE DialPromise -----------------------------
(***************************************************************************)
(* What DialContext promises (dial.go): a dial ends with one open           *)
(* connection, through one instance, or with an error and none; while it    *)
(* runs it holds at most one at a time.  A connection that was handed out   *)
(* is only ever closed.                                                     *)
(***************************************************************************)
CONSTANTS Dial, Inst

VARIABLES
  phase,  \* [Dial -> {"idle", "dialling", "conn", "error"}]
  held    \* [Dial -> SUBSET Inst], the instances of its open connections

vars == <<phase, held>>

Init == phase = [d \in Dial |-> "idle"] /\ held = [d \in Dial |-> {}]

Set(d, p, h) == phase' = [phase EXCEPT ![d] = p] /\ held' = [held EXCEPT ![d] = h]

Start(d) == phase[d] = "idle" /\ Set(d, "dialling", {})
Refuse(d) == phase[d] \in {"idle", "dialling"} /\ held[d] = {} /\ Set(d, "error", {})
Try(d) ==
  phase[d] = "dialling" /\ held[d] = {} /\ \E i \in Inst : Set(d, "dialling", {i})
Drop(d) == phase[d] = "dialling" /\ Set(d, "dialling", {})
HandOut(d) == phase[d] = "dialling" /\ held[d] # {} /\ Set(d, "conn", held[d])
Lose(D) ==
  /\ \A d \in D : phase[d] = "conn"
  /\ held' = [d \in Dial |-> IF d \in D THEN {} ELSE held[d]]
  /\ UNCHANGED phase

Next ==
  \/ \E d \in Dial : Start(d) \/ Refuse(d) \/ Try(d) \/ Drop(d) \/ HandOut(d)
  \/ \E D \in SUBSET Dial : Lose(D)

Spec == Init /\ [][Next]_vars
=============================================================================
