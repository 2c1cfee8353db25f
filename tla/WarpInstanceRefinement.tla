----------------------- MODULE WarpInstanceRefinement -----------------------
(***************************************************************************)
(* Instances implement InstanceLifecycle: every step of the goroutine, of  *)
(* the client's Run and of the environment is a step of the four-state     *)
(* machine or changes nothing that the pool, the dialers and the user see. *)
(***************************************************************************)
EXTENDS WarpInstanceProofs

-----------------------------------------------------------------------------
(* The abstract variables *)

(* What the abstract variables see of a step of instance i. *)
SameClient == [j \in Inst |-> tunnel[j] # "none"]' = [j \in Inst |-> tunnel[j] # "none"]
NoClient(i) ==
  [j \in Inst |-> tunnel[j] # "none"]' =
    [[j \in Inst |-> tunnel[j] # "none"] EXCEPT ![i] = FALSE]
SameOver == [j \in Inst |-> Stopped(j)]' = [j \in Inst |-> Stopped(j)]

LEMMA ClientView ==
  ASSUME IInv, NEW i \in Inst
  PROVE  /\ UNCHANGED tunnel => SameClient
         /\ tunnel' = [tunnel EXCEPT ![i] = "none"] => NoClient(i)
         /\ CloseClient(i) => NoClient(i)
<1>1. tunnel \in [Inst -> Tunnels]
  BY DEF IInv, TypeOK
<1>2. ASSUME UNCHANGED tunnel PROVE SameClient
  BY <1>2 DEF SameClient
<1>3. ASSUME tunnel' = [tunnel EXCEPT ![i] = "none"] PROVE NoClient(i)
  BY <1>1, <1>3 DEF NoClient
<1> QED BY <1>2, <1>3 DEF CloseClient

LEMMA OverView ==
  ASSUME IInv, NEW i \in Inst, pc[i] \notin {"report", "done"},
         NEW place \in Places \ {"report", "done"}
  PROVE  /\ UNCHANGED pc => SameOver
         /\ pc' = [pc EXCEPT ![i] = place] => SameOver
<1>1. pc \in [Inst -> Places]
  BY DEF IInv, TypeOK, ControlTypeOK
<1>2. ASSUME UNCHANGED pc PROVE SameOver
  BY <1>2 DEF SameOver, Stopped
<1>3. ASSUME pc' = [pc EXCEPT ![i] = place] PROVE SameOver
  BY <1>1, <1>3 DEF SameOver, Stopped
<1> QED BY <1>2, <1>3

-----------------------------------------------------------------------------
(* The steps that others see *)

LEMMA Invisible ==
  ASSUME UNCHANGED status, SameClient, SameOver
  PROVE  UNCHANGED Lifecycle!vars
BY DEF SameClient, SameOver, Lifecycle!vars

(* A status changes and the client stays: BackToProbing, Admit, StartDraining. *)
LEMMA StatusStep ==
  ASSUME IInv, NEW i \in Inst, pc[i] \notin {"report", "done"}, NEW s \in Status,
         status' = [status EXCEPT ![i] = s], SameClient, SameOver,
         \/ s = status[i]
         \/ s = "Probing"
         \/ s = "Normal" /\ status[i] = "Probing" /\ tunnel[i] # "none"
         \/ s = "Draining" /\ status[i] \in {"Probing", "Normal"} /\ tunnel[i] # "none"
  PROVE  Lifecycle!Next \/ UNCHANGED Lifecycle!vars
<1>t. status \in [Inst -> Status]
  BY DEF IInv, TypeOK, ControlTypeOK
<1>1. CASE s = status[i]
  <2>1. UNCHANGED status
    BY <1>t, <1>1
  <2> QED BY <2>1, Invisible
<1>2. CASE s = "Probing" /\ status[i] # "Probing"
  <2>1. Lifecycle!BackToProbing(i)
    BY <1>2 DEF Lifecycle!BackToProbing, Lifecycle!Become, SameClient, SameOver
  <2> QED BY <2>1 DEF Lifecycle!Next, Lifecycle!Step, Stopped
<1>3. CASE s = "Normal" /\ status[i] = "Probing" /\ tunnel[i] # "none"
  <2>1. Lifecycle!Admit(i)
    BY <1>3 DEF Lifecycle!Admit, Lifecycle!Become, SameClient, SameOver
  <2> QED BY <2>1 DEF Lifecycle!Next, Lifecycle!Step, Stopped
<1>4. CASE s = "Draining" /\ status[i] \in {"Probing", "Normal"} /\ tunnel[i] # "none"
  <2>1. Lifecycle!StartDraining(i)
    BY <1>4 DEF Lifecycle!StartDraining, Lifecycle!Become, SameClient, SameOver
  <2> QED BY <2>1 DEF Lifecycle!Next, Lifecycle!Step, Stopped
<1> QED BY <1>1, <1>2, <1>3, <1>4

LEMMA DisableStep ==
  ASSUME IInv, NEW i \in Inst, DisableClient(i)
  PROVE  Lifecycle!Next
<1>1. pc[i] \notin {"report", "done"} /\ status[i] # "Disabled"
  BY ControlGuards DEF DisableClient, DrainDisable, IInv, StatusMatchesPlace
<1>2. status' = [status EXCEPT ![i] = "Disabled"]
  BY DEF DisableClient, Disable, DrainDisable, SetStatus
<1>3. NoClient(i)
  BY ClientView DEF DisableClient
<1>4. SameOver
  <2>1. \E place \in {"emit", "loop"} : pc' = [pc EXCEPT ![i] = place]
    BY DEF DisableClient, Disable, DrainDisable, EmitNext, Goto
  <2> QED BY <1>1, <2>1, OverView DEF Places
<1>5. Lifecycle!Disable(i)
  BY <1>1, <1>2, <1>3, <1>4
  DEF Lifecycle!Disable, Lifecycle!Become, NoClient, SameOver
<1> QED BY <1>1, <1>5 DEF Lifecycle!Next, Lifecycle!Step, Stopped

LEMMA EndStep ==
  ASSUME IInv, NEW i \in Inst, ReleaseAll(i)
  PROVE  Lifecycle!Next
<1>1. pc[i] = "finalize" /\ pc' = [pc EXCEPT ![i] = "report"] /\ UNCHANGED status
  BY DEF ReleaseAll, Finalize, Goto, face
<1>2. NoClient(i)
  BY ClientView DEF ReleaseAll
<1>3. [j \in Inst |-> Stopped(j)]' = [[j \in Inst |-> Stopped(j)] EXCEPT ![i] = TRUE]
  <2>1. pc \in [Inst -> Places]
    BY DEF IInv, TypeOK, ControlTypeOK
  <2> QED BY <1>1, <2>1 DEF Stopped
<1>4. Lifecycle!End(i)
  BY <1>1, <1>2, <1>3 DEF Lifecycle!End, NoClient
<1> QED BY <1>1, <1>4 DEF Lifecycle!Next, Lifecycle!Step, Stopped

(* ensureClient closes the client at its start, or has none to close. *)
LEMMA CloseStep ==
  ASSUME IInv, NEW i \in Inst, BuildClose(i)
  PROVE  Lifecycle!Next \/ UNCHANGED Lifecycle!vars
<1>1. pc[i] = "build" /\ UNCHANGED <<pc, status>> /\ CloseClient(i)
  BY DEF BuildClose, controlVars
<1>2. status[i] = "Probing"
  BY <1>1 DEF IInv, StatusMatchesPlace
<1>3. NoClient(i) /\ SameOver
  BY <1>1, ClientView, OverView DEF Places
<1>4. CASE tunnel[i] = "none"
  <2>1. SameClient
    BY <1>3, <1>4 DEF SameClient, NoClient
  <2> QED BY <1>1, <1>3, <2>1, Invisible
<1>5. CASE tunnel[i] # "none"
  <2>1. Lifecycle!Rebuild(i)
    BY <1>1, <1>2, <1>3, <1>5 DEF Lifecycle!Rebuild, NoClient, SameOver
  <2> QED BY <1>1, <2>1 DEF Lifecycle!Next, Lifecycle!Step, Stopped
<1> QED BY <1>4, <1>5

LEMMA StartStep ==
  ASSUME IInv, NEW i \in Inst, StartOk(i)
  PROVE  Lifecycle!Next
<1>1. /\ pc[i] = "build" /\ UNCHANGED status /\ tunnel' = [tunnel EXCEPT ![i] = "up"]
      /\ \E place \in {"emit", "probe"} : pc' = [pc EXCEPT ![i] = place]
  BY DEF StartOk, BuildDone, EmitNext, Goto, face
<1>2. status[i] = "Probing" /\ tunnel[i] = "none"
  BY <1>1 DEF IInv, StatusMatchesPlace, ClientMatchesPhase, StartOk
<1>3. SameOver
  BY <1>1, OverView DEF Places
<1>4. tunnel \in [Inst -> Tunnels]
  BY DEF IInv, TypeOK
<1>5. [j \in Inst |-> tunnel[j] # "none"]' =
        [[j \in Inst |-> tunnel[j] # "none"] EXCEPT ![i] = ~@]
  BY <1>1, <1>2, <1>4
<1>6. Lifecycle!Rebuild(i)
  BY <1>1, <1>2, <1>3, <1>5 DEF Lifecycle!Rebuild, SameOver
<1> QED BY <1>1, <1>6 DEF Lifecycle!Next, Lifecycle!Step, Stopped

LEMMA RunStep ==
  ASSUME IInv, NEW i \in Inst, RunReturns(i) \/ RunSignals(i)
  PROVE  UNCHANGED Lifecycle!vars
<1>1. tunnel \in [Inst -> Tunnels]
  BY DEF IInv, TypeOK
<1>2. SameClient
  BY <1>1 DEF RunReturns, RunSignals, SameClient
<1>3. UNCHANGED <<pc, status>>
  BY DEF RunReturns, RunSignals, controlVars
<1>4. SameOver
  BY <1>3 DEF SameOver, Stopped
<1> QED BY <1>2, <1>3, <1>4, Invisible

(* Every other step changes the status at most. *)
LEMMA OtherStep ==
  ASSUME IInv, NEW i \in Inst, UNCHANGED tunnel,
         \/ ControlOnly(i) \/ ReplayIdentity(i) \/ EnableClient(i) \/ CutConns(i)
         \/ LoseTunnel(i)
  PROVE  Lifecycle!Next \/ UNCHANGED Lifecycle!vars
<1>c. SameClient
  BY ClientView
<1>p. ClientMatchesPhase /\ StatusMatchesPlace /\ status \in [Inst -> Status]
  BY DEF IInv, TypeOK, ControlTypeOK
<1>1. CASE Confirm(i)
  <2>1. pc[i] = "loop" /\ UNCHANGED pc
    BY <1>1, ControlGuards DEF Confirm
  <2>2. SameOver
    BY <2>1, OverView DEF Places
  <2>3. status[i] = "Probing" => tunnel[i] # "none"
    BY <1>p, <2>1 DEF ClientMatchesPhase
  <2>4. CASE status[i] = "Probing"
    <3>1. status' = [status EXCEPT ![i] = "Normal"]
      BY <1>1, <2>4 DEF Confirm, SetStatus
    <3> QED BY <1>c, <2>1, <2>2, <2>3, <2>4, <3>1, StatusStep DEF Status
  <2>5. CASE status[i] # "Probing"
    <3>1. UNCHANGED status
      BY <1>1, <1>p, <2>5 DEF Confirm, SetStatus
    <3> QED BY <1>c, <2>2, <3>1, Invisible
  <2> QED BY <2>4, <2>5
<1>2. CASE Drain(i)
  <2>1. pc[i] = "loop" /\ status[i] \in {"Probing", "Normal"}
    BY <1>2, ControlGuards
  <2>2. pc' = [pc EXCEPT ![i] = "drain"] /\ status' = [status EXCEPT ![i] = "Draining"]
    BY <1>2 DEF Drain, Goto, SetStatus
  <2>3. SameOver
    BY <2>1, <2>2, OverView DEF Places
  <2>4. tunnel[i] # "none"
    BY <1>p, <2>1 DEF ClientMatchesPhase
  <2> QED BY <1>c, <2>1, <2>2, <2>3, <2>4, StatusStep DEF Status
<1>3. CASE Replay(i) \/ Enable(i) \/ DrainExpire(i) \/ HandleLost(i)
  <2>1. pc[i] \in {"loop", "drain"}
    BY <1>3, ControlGuards DEF DrainExpire
  <2>2. /\ \E place \in {"build", "emit"} : pc' = [pc EXCEPT ![i] = place]
        /\ status' = [status EXCEPT ![i] = "Probing"]
    BY <1>3 DEF Replay, Enable, DrainExpire, HandleLost, EmitNext, Goto, SetStatus
  <2>3. SameOver
    BY <2>1, <2>2, OverView DEF Places
  <2> QED BY <1>c, <2>1, <2>2, <2>3, StatusStep DEF Status
<1>4. CASE \/ Reprobe(i) \/ Stop(i) \/ Ignore(i) \/ Probe(i) \/ ReprobeExpire(i) \/ Park(i)
  <2>1. pc[i] \notin {"report", "done"}
    BY <1>4, ControlGuards DEF Probe, ReprobeExpire, Park, Waiting
  <2>2. /\ UNCHANGED status
        /\ \/ UNCHANGED pc
           \/ \E place \in {"reprobe", "finalize", "emit", "probe"} :
                pc' = [pc EXCEPT ![i] = place]
    BY <1>4 DEF Reprobe, Stop, Ignore, Probe, ReprobeExpire, Park, Goto, face
  <2>3. SameOver
    BY <2>1, <2>2, OverView DEF Places
  <2> QED BY <1>c, <2>2, <2>3, Invisible
<1>5. CASE Report(i)
  <2>1. pc[i] = "report" /\ pc' = [pc EXCEPT ![i] = "done"] /\ UNCHANGED status
    BY <1>5 DEF Report, Goto, face
  <2>2. pc \in [Inst -> Places]
    BY DEF IInv, TypeOK, ControlTypeOK
  <2>3. SameOver
    BY <2>1, <2>2 DEF SameOver, Stopped
  <2> QED BY <1>c, <2>1, <2>3, Invisible
<1> QED
  BY <1>1, <1>2, <1>3, <1>4, <1>5
  DEF ControlOnly, ReplayIdentity, EnableClient, CutConns, LoseTunnel

(* Emits, interrupted waits and panics change nothing that others see. *)
LEMMA QuietStep ==
  ASSUME IInv, NEW i \in Inst,
         EmitAndGoOn(i) \/ StopInWait(i) \/ CancelInWait(i) \/ PanicOutside(i)
  PROVE  UNCHANGED Lifecycle!vars
<1>1. pc[i] \notin {"report", "done"}
  BY DEF EmitAndGoOn, Emit, StopInWait, StopWait, CancelInWait, Cancel, PanicOutside, Panic,
         Waiting
<1>2. UNCHANGED <<status, tunnel>>
  BY DEF EmitAndGoOn, Emit, StopInWait, StopWait, CancelInWait, Cancel, PanicOutside, Panic,
         face, clientVars
<1>3. \E place \in {"build", "probe", "loop", "finalize"} : pc' = [pc EXCEPT ![i] = place]
  <2>1. \A kind : Resume(kind) \in {"build", "probe", "loop"}
    BY DEF Resume
  <2>2. Interrupted(i) \in {"loop", "finalize"}
    BY DEF Interrupted
  <2> QED
    BY <2>1, <2>2 DEF EmitAndGoOn, Emit, StopInWait, StopWait, CancelInWait, Cancel,
       PanicOutside, Panic, Goto
<1>4. SameOver
  BY <1>1, <1>3, OverView DEF Places
<1> QED BY <1>2, <1>4, ClientView, Invisible

LEMMA AbstractStep == IInv /\ [Next]_vars => [Lifecycle!Next]_(Lifecycle!vars)
<1> SUFFICES ASSUME IInv, [Next]_vars
             PROVE  Lifecycle!Next \/ UNCHANGED Lifecycle!vars
  OBVIOUS
<1>1. CASE UNCHANGED <<pc, status, tunnel>>
  <2>1. SameClient /\ SameOver
    BY <1>1 DEF SameClient, SameOver, Stopped
  <2> QED BY <1>1, <2>1, Invisible
<1>2. ASSUME NEW i \in Inst, InstanceStep(i)
      PROVE  Lifecycle!Next \/ UNCHANGED Lifecycle!vars
  <2>1. CASE ControlOnly(i) \/ ReplayIdentity(i) \/ EnableClient(i) \/ CutConns(i)
             \/ LoseTunnel(i)
    <3>1. UNCHANGED tunnel
      BY <2>1 DEF ControlOnly, ReplayIdentity, EnableClient, CutConns, LoseTunnel, ownVars,
                  clientVars
    <3> QED BY <2>1, <3>1, OtherStep
  <2>2. CASE \/ DisableClient(i) \/ ReleaseAll(i) \/ BuildClose(i) \/ StartOk(i)
             \/ RunReturns(i) \/ RunSignals(i)
             \/ EmitAndGoOn(i) \/ StopInWait(i) \/ CancelInWait(i) \/ PanicOutside(i)
    BY <2>2, DisableStep, EndStep, CloseStep, StartStep, RunStep, QuietStep
  <2>3. CASE \/ BackoffExpire(i) \/ Provision(i) \/ AcquireSem(i) \/ StartFail(i)
             \/ DiscardSignal(i) \/ OrphanSignals(i) \/ Environment(i)
    BY <1>1, <2>3 DEF BackoffExpire, Provision, AcquireSem, StartFail, DiscardSignal,
       OrphanSignals, Environment, SendCommand, DialPick, DialEnd, CloseConn, controlVars,
       face, ownVars, clientVars
  <2> QED BY <1>2, <2>1, <2>2, <2>3 DEF InstanceStep, Manage, RunGoroutine
<1>3. CASE TakeEvent \/ CloseContext \/ UNCHANGED vars
  BY <1>1, <1>3 DEF TakeEvent, CloseContext, vars, controlVars, face, ownVars, clientVars
<1> QED BY <1>2, <1>3 DEF Next, InstanceStep, Terminated

LEMMA NoneStopped ==
  ASSUME pc = [i \in Inst |-> "build"]
  PROVE  \A j \in Inst : Stopped(j) = FALSE
BY DEF Stopped

LEMMA AbstractInit == Init => Lifecycle!Init
<1> SUFFICES ASSUME Init PROVE Lifecycle!Init
  OBVIOUS
<1>1. [j \in Inst |-> tunnel[j] # "none"] = [j \in Inst |-> FALSE]
  BY DEF Init
<1>2. [j \in Inst |-> Stopped(j)] = [j \in Inst |-> FALSE]
  <2>1. \A j \in Inst : Stopped(j) = FALSE
    BY NoneStopped DEF Init, ControlInit
  <2> QED BY <2>1, Zenon
<1>3. status = [j \in Inst |-> "Probing"]
  BY DEF Init, ControlInit
<1> QED BY <1>1, <1>2, <1>3 DEF Lifecycle!Init

(* Every instance keeps the promises of InstanceLifecycle, for every number of
   instances and all capacities (instance.go:292-413). *)
THEOREM InstanceImplementsLifecycle == Spec => ImplementsLifecycle
<1> QED
  BY IInvInit, IInvStep, AbstractInit, AbstractStep, PTL
  DEF Spec, ImplementsLifecycle, Lifecycle!Spec
==============================================================================
