--------------------------- MODULE WarpPoolProofs ---------------------------
(***************************************************************************)
(* The coordinator keeps its books, for any number of instances, keys and  *)
(* ports and any capacity of the channels: the type of the state, the      *)
(* registry of keys and its abstract specification, the ports, and that an *)
(* instance leaves nothing behind.                                         *)
(*                                                                         *)
(* The argument for the last one is about the event channel: whatever is   *)
(* queued there is from members, and evStopped is the last word of its     *)
(* instance, so that no report can bring back what removeInstance forgot.  *)
(***************************************************************************)
EXTENDS WarpPool, InstanceControlProofs, PortAllocatorProofs

(* TypeOK without what InstanceControlProofs and PortAllocatorProofs show. *)
MembersOK ==
  /\ members \subseteq Inst
  /\ portOf \in [Inst -> Offsets \cup {NoPort}]
  /\ nextSeq \in 0..Cardinality(Inst)

RegistryOK ==
  /\ keyOf \in [Inst -> Key \cup {Undecided, Exempt}]
  /\ owner \in [Key -> Inst \cup {Nobody}]

CountsOK ==
  /\ empties \in [Inst -> 0..(ProbeFailLimit - 1)]
  /\ unheard \subseteq Inst

UsersOK ==
  /\ at \in Stations
  /\ targets \subseteq Inst
  /\ min \in Nat /\ max \in Nat /\ lo \in Nat /\ hi \in Nat
  /\ minCall \in Nat /\ maxCall \in Nat
  /\ wake \in BOOLEAN
  /\ requests \subseteq [inst : Inst, cmd : RequestCmd]
  /\ closed \in BOOLEAN
  /\ troubles \in 0..MaxTroubles
  /\ calling \in BOOLEAN

(* Instances are created in order, and are members until they have exited. *)
Membership ==
  /\ \A i \in Inst : (pc[i] = "none") <=> ~(i < nextSeq)
  /\ \A i \in members : pc[i] # "none"
  /\ \A i \in Inst \ members : pc[i] \in {"none", "done"}

(* The queue holds events of members, evStopped after all others of its
   instance. *)
LastWords ==
  /\ \A i \in Inst : pc[i] = "emit" => out[i].kind # "Stopped"
  /\ \A n \in 1..Len(events) :
       /\ events[n].inst \in members
       /\ events[n].kind = "Stopped" => pc[events[n].inst] = "done"
  /\ \A m, n \in 1..Len(events) :
       m < n /\ events[m].kind = "Stopped" => events[n].inst # events[m].inst

(* What a patrol checks stays a member until it has answered. *)
PatrolOnMembers == at = "patrol" => targets \subseteq members

PoolInv ==
  /\ ControlTypeOK /\ IInv
  /\ MembersOK /\ RegistryOK /\ CountsOK /\ UsersOK
  /\ Membership /\ LastWords /\ PatrolOnMembers
  /\ RegistryConsistent /\ NothingLeftBehind

-----------------------------------------------------------------------------
(* The control state *)

LEMMA SendAllType ==
  ASSUME QueuesOK, NEW S, NEW c \in CmdKind, SendAll(S, c)
  PROVE  /\ cmds' \in [Inst -> Seq(CmdKind)]
         /\ \A j \in Inst : Len(cmds'[j]) <= CmdCap
<1>1. /\ cmds \in [Inst -> Seq(CmdKind)] /\ CmdCap \in Nat
      /\ \A j \in Inst : Len(cmds[j]) <= CmdCap
  BY ControlAssumption DEF QueuesOK
<1>2. \A i \in Inst :
        /\ Len(cmds[i]) \in Nat /\ Append(cmds[i], c) \in Seq(CmdKind)
        /\ Len(Append(cmds[i], c)) = Len(cmds[i]) + 1
  BY <1>1, LenProperties, AppendProperties
<1>3. cmds' = [i \in Inst |-> IF i \in S /\ Len(cmds[i]) < CmdCap /\ Alive(i)
                             THEN Append(cmds[i], c) ELSE cmds[i]]
  BY DEF SendAll, Accepts
<1> QED BY <1>1, <1>2, <1>3

(* A step of others than the goroutine: it may send, take an event or end the
   context, and a patrol stores egresses. *)
TakesEvent == events # <<>> /\ events' = Tail(events)

LEMMA OthersControl ==
  ASSUME ControlTypeOK,
         UNCHANGED <<pc, status, awaitConfirm, pending, replaying, out>>,
         egressVal' \in [Inst -> Egress], ctxDone' \in BOOLEAN,
         cmds' \in [Inst -> Seq(CmdKind)], \A j \in Inst : Len(cmds'[j]) <= CmdCap,
         events' = events \/ TakesEvent
  PROVE  ControlTypeOK'
<1>1. FieldsOK /\ QueuesOK /\ EventsOK
  BY ControlTypeParts
<1>2. FieldsOK'
  BY <1>1 DEF FieldsOK, Status
<1>3. QueuesOK'
  BY <1>1 DEF QueuesOK
<1>4. EventsOK'
  <2>1. EventCap \in Nat /\ Len(events) \in Nat
    BY <1>1, ControlAssumption, LenProperties DEF EventsOK
  <2>2. CASE TakesEvent
    BY <1>1, <2>1, <2>2, HeadTailProperties DEF EventsOK, TakesEvent
  <2> QED BY <1>1, <2>2 DEF EventsOK
<1> QED BY <1>2, <1>3, <1>4, Zenon DEF ControlTypeOK, FieldsOK, QueuesOK, EventsOK

LEMMA HeadEvent ==
  ASSUME ControlTypeOK, events # <<>>
  PROVE  /\ Head(events) \in Event /\ Head(events).inst \in Inst
         /\ Head(events).egress \in Egress /\ Head(events).kind \in EvKind
         /\ Len(events) \in Nat \ {0} /\ Head(events) = events[1]
         /\ Tail(events) \in Seq(Event) /\ Len(Tail(events)) = Len(events) - 1
         /\ \A n \in 1..Len(Tail(events)) : Tail(events)[n] = events[n + 1]
<1>1. events \in Seq(Event)
  BY DEF ControlTypeOK
<1>2. Head(events) \in Event
  BY <1>1, HeadTailProperties
<1> QED BY <1>1, <1>2, HeadTailProperties, LenProperties, EmptySeq DEF Event

LEMMA ControlStays ==
  ASSUME PoolInv, Next PROVE ControlTypeOK'
<1>0. ControlTypeOK /\ QueuesOK
  BY ControlTypeParts DEF PoolInv
<1>1. ASSUME UNCHANGED controlVars PROVE ControlTypeOK'
  BY <1>0, <1>1 DEF ControlTypeOK, controlVars
<1>2. ASSUME NEW i \in Inst, ControlStep(i) PROVE ControlTypeOK'
  BY <1>0, <1>2, ControlTypeStep
<1>3. cmds \in [Inst -> Seq(CmdKind)] /\ (\A j \in Inst : Len(cmds[j]) <= CmdCap)
  BY <1>0 DEF QueuesOK
<1>4. egressVal \in [Inst -> Egress] /\ ctxDone \in BOOLEAN
  BY <1>0 DEF ControlTypeOK
<1>5. CASE TakeReady
  <2>1. HandleReady(Head(events).inst, Head(events).egress) /\ Head(events).inst \in Inst
    BY <1>0, <1>5, HeadEvent DEF TakeReady
  <2>2. \E c \in CmdKind : Send(Head(events).inst, c)
    BY <2>1 DEF HandleReady, AdmitExempt, RetryEmpty, ReplayEmpty, ReplayDuplicate,
                AdmitUnique, CmdKind
  <2>3. cmds' \in [Inst -> Seq(CmdKind)] /\ (\A j \in Inst : Len(cmds'[j]) <= CmdCap)
    BY <1>0, <2>1, <2>2, SendType
  <2>4. /\ UNCHANGED <<pc, face, pending, replaying, out>>
        /\ ctxDone' = ctxDone /\ TakesEvent
    BY <1>5, Zenon DEF TakeReady, TakesEvent
  <2> QED BY <1>0, <1>4, <2>3, <2>4, OthersControl DEF face
<1>6. CASE TakeLeft \/ TakeStopped \/ CoordinatorPanic \/ Close
  <2>1. /\ UNCHANGED <<pc, face, queues, replaying, out>>
        /\ events' = events \/ TakesEvent
        /\ ctxDone' \in BOOLEAN
    <3>1. CASE TakeLeft
      BY <1>4, <3>1, Zenon DEF TakeLeft, TakesEvent
    <3>2. CASE TakeStopped
      BY <1>4, <3>2, Zenon DEF TakeStopped, TakesEvent
    <3>3. CASE CoordinatorPanic
      BY <1>4, <3>3, Zenon DEF CoordinatorPanic, TakesEvent
    <3>4. CASE Close
      BY <3>4 DEF Close
    <3> QED BY <1>6, <3>1, <3>2, <3>3, <3>4
  <2> QED BY <1>0, <1>3, <1>4, <2>1, OthersControl DEF face, queues
<1>7. CASE EvictOnce \/ HealthResults \/ Reconfirm
  <2>1. \E S \in SUBSET Inst, c \in CmdKind : SendAll(S, c)
    <3>1. CASE EvictOnce
      <4>1. SendAll({v \in members : IsVictim(v)}, "Stop")
        BY <3>1 DEF EvictOnce
      <4>2. {v \in members : IsVictim(v)} \in SUBSET Inst
        BY DEF PoolInv, MembersOK
      <4> QED BY <4>1, <4>2 DEF CmdKind
    <3>2. CASE HealthResults
      <4>1. PICK failed \in SUBSET targets : SendAll(failed, "Drain")
        BY <3>2 DEF HealthResults
      <4>2. failed \in SUBSET Inst
        BY <4>1 DEF PoolInv, UsersOK
      <4> QED BY <4>1, <4>2 DEF CmdKind
    <3>3. CASE Reconfirm
      <4>1. SendAll(Unconfirmed, "Confirm") /\ Unconfirmed \in SUBSET Inst
        BY <3>3 DEF Reconfirm, Unconfirmed, PoolInv, MembersOK
      <4> QED BY <4>1 DEF CmdKind
    <3> QED BY <1>7, <3>1, <3>2, <3>3
  <2>2. cmds' \in [Inst -> Seq(CmdKind)] /\ (\A j \in Inst : Len(cmds'[j]) <= CmdCap)
    BY <1>0, <2>1, SendAllType
  <2>3. /\ UNCHANGED <<pc, status, awaitConfirm, pending, replaying, out>>
        /\ egressVal' = egressVal /\ ctxDone' = ctxDone /\ events' = events
    BY <1>7 DEF EvictOnce, HealthResults, Reconfirm, face
  <2> QED BY <1>0, <1>4, <2>2, <2>3, OthersControl
<1>8. CASE SendRequest
  <2>1. PICK r \in requests : Send(r.inst, r.cmd)
    BY <1>8 DEF SendRequest
  <2>2. r.inst \in Inst /\ r.cmd \in CmdKind
    BY <2>1 DEF PoolInv, UsersOK, RequestCmd, CmdKind
  <2>3. cmds' \in [Inst -> Seq(CmdKind)] /\ (\A j \in Inst : Len(cmds'[j]) <= CmdCap)
    BY <1>0, <2>1, <2>2, SendType
  <2>4. /\ UNCHANGED <<pc, status, awaitConfirm, pending, replaying, out>>
        /\ egressVal' = egressVal /\ ctxDone' = ctxDone /\ events' = events
    BY <1>8 DEF SendRequest, face
  <2> QED BY <1>0, <1>4, <2>3, <2>4, OthersControl
<1>9. CASE PatrolResult
  <2>1. PICK i \in targets, eg \in Egress : ApplyEgress(i, eg)
    BY <1>9 DEF PatrolResult
  <2>2. i \in Inst
    BY <2>1 DEF PoolInv, UsersOK
  <2>3. egressVal' \in [Inst -> Egress]
    BY <1>4, <2>1 DEF ApplyEgress
  <2>4. cmds' \in [Inst -> Seq(CmdKind)] /\ (\A j \in Inst : Len(cmds'[j]) <= CmdCap)
    <3>1. CASE PatrolDrains(i, eg)
      <4>1. PICK v \in Inst : Send(v, "Drain")
        BY <2>2, <3>1 DEF PatrolDrains, PoolInv, MembersOK
      <4> QED BY <1>0, <4>1, SendType DEF CmdKind
    <3>2. CASE UNCHANGED cmds
      BY <1>3, <3>2
    <3> QED BY <2>1, <3>1, <3>2 DEF ApplyEgress
  <2>5. /\ UNCHANGED <<pc, status, awaitConfirm, pending, replaying, out>>
        /\ ctxDone' = ctxDone /\ events' = events
    BY <1>9 DEF PatrolResult
  <2> QED BY <1>0, <1>4, <2>3, <2>4, <2>5, OthersControl
<1>10. CASE FillCreate
  BY <1>2, <1>10 DEF FillCreate, ControlStep
<1>11. ASSUME NEW i \in Inst, Manage(i) PROVE ControlTypeOK'
  BY <1>2, <1>11 DEF Manage, Handle, Wait, Proceed, Fault, ControlStep
<1>12. CASE \/ Align \/ FillDone \/ FillFull \/ FillFails \/ HealthTick \/ EgressTick
            \/ PatrolDone \/ WakeUp \/ CoordinatorExit \/ RequestStatus
            \/ TestMin \/ TestMax \/ StoreMin \/ StoreMax \/ Terminated
  BY <1>1, <1>12 DEF Align, FillDone, FillFull, FillFails, HealthTick, EgressTick, PatrolDone,
     WakeUp, CoordinatorExit, RequestStatus, TestMin, TestMax, StoreMin, StoreMax,
     Terminated, vars
<1> QED BY <1>5, <1>6, <1>7, <1>8, <1>9, <1>10, <1>11, <1>12
        DEF Next, Coordinator, Users

-----------------------------------------------------------------------------
(* What a step of a goroutine can do: it moves a live instance, and has reported
   the end of its instance when it is done. *)

Says(i, m) == events' = events \/ events' = Append(events, EventOf(i, m))

LEMMA GoroutineMoves ==
  ASSUME ControlTypeOK, NEW i \in Inst, Manage(i)
  PROVE  /\ pc[i] \notin {"none", "done"} /\ pc'[i] # "none"
         /\ \A j \in Inst \ {i} : pc'[j] = pc[j] /\ out'[j] = out[j]
         /\ pc'[i] = "emit" => out'[i].kind # "Stopped"
         /\ \/ events' = events /\ (pc'[i] = "done" => pc[i] = "report")
            \/ pc[i] = "emit" /\ pc'[i] # "done" /\ Says(i, out[i])
            \/ pc[i] = "report" /\ pc'[i] = "done" /\ Says(i, Note("Stopped"))
<1>1. /\ pc \in [Inst -> Places] /\ out \in [Inst -> Message]
  BY DEF ControlTypeOK
<1>2. CASE \/ Confirm(i) \/ Reprobe(i) \/ Replay(i) \/ Drain(i) \/ Disable(i)
           \/ Enable(i) \/ Stop(i) \/ Ignore(i) \/ HandleLost(i)
  <2>1. pc[i] = "loop"
    BY <1>2, ControlGuards
  <2>2. /\ events' = events
        /\ \/ pc' = pc /\ out' = out
           \/ (\E p \in {"reprobe", "build", "drain", "finalize"} : Goto(i, p)) /\ out' = out
           \/ EmitNext(i, "Disabled") \/ EmitNext(i, "Lost")
    BY <1>2 DEF Confirm, Reprobe, Replay, Drain, Disable, Enable, Stop, Ignore, HandleLost
  <2> QED BY <1>1, <2>1, <2>2 DEF Goto, EmitNext, Note
<1>3. CASE \/ Park(i) \/ StopWait(i) \/ Cancel(i) \/ ReprobeExpire(i)
           \/ DrainExpire(i) \/ DrainDisable(i)
  BY <1>1, <1>3 DEF Park, StopWait, Cancel, ReprobeExpire, DrainExpire, DrainDisable,
     Waiting, Interrupted, Goto, EmitNext, Note
<1>4. CASE BuildDone(i) \/ Probe(i) \/ Panic(i) \/ Finalize(i)
  BY <1>1, <1>4 DEF BuildDone, Probe, Panic, Finalize, Goto, EmitNext, Note
<1>5. CASE Emit(i)
  BY <1>1, <1>5 DEF Emit, Resume, Goto, Says
<1>6. CASE Report(i)
  BY <1>1, <1>6 DEF Report, Goto, Says
<1> QED BY <1>2, <1>3, <1>4, <1>5, <1>6 DEF Manage, Handle, Wait, Proceed, Fault

(* What every other step leaves alone. *)
LEMMA OthersMoveNothing ==
  ASSUME Next PROVE \/ \E i \in Inst : Manage(i)
                    \/ FillCreate
                    \/ UNCHANGED <<pc, out>> /\ (events' = events \/ TakesEvent)
<1>1. CASE TakeReady \/ TakeLeft \/ TakeStopped
  BY <1>1, Zenon DEF TakeReady, TakeLeft, TakeStopped, TakesEvent
<1>2. CASE CoordinatorPanic
  BY <1>2, Zenon DEF CoordinatorPanic, TakesEvent
<1>3. CASE \/ Align \/ FillDone \/ FillFull \/ FillFails \/ HealthTick \/ EgressTick
           \/ PatrolDone \/ WakeUp \/ CoordinatorExit \/ RequestStatus
           \/ TestMin \/ TestMax \/ StoreMin \/ StoreMax \/ Terminated
  BY <1>3 DEF Align, FillDone, FillFull, FillFails, HealthTick, EgressTick, PatrolDone,
     WakeUp, CoordinatorExit, RequestStatus, TestMin, TestMax, StoreMin, StoreMax,
     Terminated, vars, controlVars
<1>4. CASE \/ EvictOnce \/ HealthResults \/ Reconfirm \/ PatrolResult \/ SendRequest
           \/ Close
  BY <1>4 DEF EvictOnce, HealthResults, Reconfirm, PatrolResult, SendRequest, Close
<1> QED BY <1>1, <1>2, <1>3, <1>4 DEF Next, Coordinator, Users

LEMMA OthersKeepMembers ==
  ASSUME Next PROVE \/ FillCreate \/ TakeStopped
                    \/ UNCHANGED <<members, portOf, nextSeq, used>>
<1>1. CASE TakeReady \/ TakeLeft \/ CoordinatorPanic
  BY <1>1, Zenon DEF TakeReady, TakeLeft, CoordinatorPanic, memberVars, portVars
<1>2. CASE FillFails
  BY <1>2 DEF FillFails, Exhausted, memberVars, portVars
<1>3. CASE \/ Align \/ FillDone \/ FillFull \/ HealthTick \/ EgressTick
           \/ PatrolDone \/ WakeUp \/ CoordinatorExit \/ RequestStatus
           \/ TestMin \/ TestMax \/ StoreMin \/ StoreMax \/ Terminated
  BY <1>3 DEF Align, FillDone, FillFull, HealthTick, EgressTick, PatrolDone,
     WakeUp, CoordinatorExit, RequestStatus, TestMin, TestMax, StoreMin, StoreMax,
     Terminated, vars, poolVars, memberVars, portVars
<1>4. CASE \/ EvictOnce \/ HealthResults \/ Reconfirm \/ PatrolResult \/ SendRequest
           \/ Close
  BY <1>4 DEF EvictOnce, HealthResults, Reconfirm, PatrolResult, SendRequest, Close,
     memberVars, portVars
<1>5. ASSUME NEW i \in Inst, Manage(i) PROVE UNCHANGED <<members, portOf, nextSeq, used>>
  BY <1>5 DEF Manage, poolVars, memberVars, portVars
<1> QED BY <1>1, <1>2, <1>3, <1>4, <1>5 DEF Next, Coordinator, Users

-----------------------------------------------------------------------------
(* Members and ports *)

LEMMA Numbers == Inst \subseteq Nat /\ \A i \in Inst : i + 1 \in 0..Cardinality(Inst)
BY PoolAssumption

(* FillCreate and TakeStopped, in terms of members and ports. *)
LEMMA CreateFacts ==
  ASSUME PoolInv, FillCreate
  PROVE  /\ nextSeq \in Inst /\ nextSeq \notin members /\ pc[nextSeq] = "none"
         /\ pc' = [pc EXCEPT ![nextSeq] = "build"]
         /\ UNCHANGED <<out, events>>
         /\ members' = members \cup {nextSeq} /\ nextSeq' = nextSeq + 1
         /\ \E off \in Offsets :
              /\ Acquire(off) /\ off \notin used /\ used' = used \cup {off}
              /\ portOf' = [portOf EXCEPT ![nextSeq] = off]
<1>1. /\ nextSeq \in Inst /\ Create(nextSeq)
      /\ members' = members \cup {nextSeq} /\ nextSeq' = nextSeq + 1
  BY DEF FillCreate, Lacking
<1>2. /\ pc[nextSeq] = "none" /\ pc' = [pc EXCEPT ![nextSeq] = "build"]
      /\ UNCHANGED <<out, events>>
  BY <1>1 DEF Create, Goto
<1>3. nextSeq \notin members
  BY <1>2 DEF PoolInv, Membership
<1>4. PICK off \in Offsets : Acquire(off) /\ portOf' = [portOf EXCEPT ![nextSeq] = off]
  BY DEF FillCreate
<1>5. off \notin used /\ used' = used \cup {off}
  <2>1. CASE Reuse(off)
    <3>1. free # <<>> /\ free \in Seq(Offsets) /\ off = free[Len(free)]
      BY <2>1 DEF Reuse, PoolInv, IInv, PortTypeOK
    <3>2. Len(free) \in 1..Len(free)
      BY <3>1, EmptySeq, LenProperties
    <3>3. OnStack(off)
      BY <3>1, <3>2 DEF OnStack
    <3> QED BY <2>1, <3>3 DEF Reuse, PoolInv, IInv, PortsPartition
  <2>2. CASE Extend(off)
    BY <2>2 DEF Extend, Unseen
  <2> QED BY <1>4, <2>1, <2>2 DEF Acquire
<1> QED BY <1>1, <1>2, <1>3, <1>4, <1>5

LEMMA RemoveFacts ==
  ASSUME PoolInv, TakeStopped, NEW i, i = Head(events).inst
  PROVE  /\ i \in members /\ pc[i] = "done" /\ portOf[i] \in used
         /\ UNCHANGED <<pc, out, nextSeq>> /\ TakesEvent
         /\ members' = members \ {i} /\ at' = "align"
         /\ ReleaseKey(i) /\ Forget(i) /\ Settle(i)
         /\ Release(portOf[i]) /\ used' = used \ {portOf[i]}
         /\ portOf' = [portOf EXCEPT ![i] = NoPort]
<1>1. /\ events # <<>> /\ Head(events).kind = "Stopped" /\ events' = Tail(events)
      /\ members' = members \ {i} /\ at' = "align"
      /\ ReleaseKey(i) /\ Forget(i) /\ Settle(i)
      /\ IF portOf[i] = NoPort THEN UNCHANGED portVars ELSE Release(portOf[i])
      /\ portOf' = [portOf EXCEPT ![i] = NoPort]
      /\ UNCHANGED <<pc, out, nextSeq>>
  BY Zenon DEF TakeStopped, ToAlign
<1>2. events[1] = Head(events) /\ 1 \in 1..Len(events)
  <2>1. ControlTypeOK
    BY DEF PoolInv
  <2> QED BY <1>1, <2>1, HeadEvent
<1>3. i \in members /\ pc[i] = "done"
  BY <1>1, <1>2 DEF PoolInv, LastWords
<1>4. portOf[i] \in used /\ portOf[i] # NoPort
  <2>1. portOf[i] \in used
    BY <1>3 DEF PoolInv, NothingLeftBehind
  <2>2. used \subseteq Offsets /\ NoPort \notin Offsets
    BY PoolAssumption DEF PoolInv, IInv, PortTypeOK, Offsets
  <2> QED BY <2>1, <2>2
<1>5. Release(portOf[i]) /\ used' = used \ {portOf[i]}
  BY <1>1, <1>4 DEF Release
<1>6. TakesEvent
  BY <1>1, Zenon DEF TakesEvent
<1> QED BY <1>1, <1>3, <1>4, <1>5, <1>6

LEMMA PortStays ==
  ASSUME PoolInv, Next PROVE IInv'
<1>0. IInv
  BY DEF PoolInv
<1>1. CASE FillCreate
  <2>1. PICK off \in Offsets : Acquire(off)
    BY <1>1 DEF FillCreate
  <2> QED BY <1>0, <2>1, PortStepInv DEF PortNext
<1>2. CASE TakeStopped
  <2>1. PICK off \in Offsets : Release(off)
    BY <1>2, RemoveFacts DEF PoolInv, IInv, PortTypeOK
  <2> QED BY <1>0, <2>1, PortStepInv DEF PortNext
<1>3. CASE FillFails
  BY <1>0, <1>3, PortStepInv DEF FillFails, PortNext
<1>4. UNCHANGED portVars \/ FillCreate \/ TakeStopped \/ FillFails
  <2>1. CASE TakeReady \/ TakeLeft \/ CoordinatorPanic
    BY <2>1, Zenon DEF TakeReady, TakeLeft, CoordinatorPanic
  <2>2. CASE \/ Align \/ FillDone \/ FillFull \/ HealthTick \/ EgressTick
             \/ PatrolDone \/ WakeUp \/ CoordinatorExit \/ RequestStatus
             \/ TestMin \/ TestMax \/ StoreMin \/ StoreMax \/ Terminated
    BY <2>2 DEF Align, FillDone, FillFull, HealthTick, EgressTick, PatrolDone,
       WakeUp, CoordinatorExit, RequestStatus, TestMin, TestMax, StoreMin, StoreMax,
       Terminated, vars, poolVars
  <2>3. CASE \/ EvictOnce \/ HealthResults \/ Reconfirm \/ PatrolResult \/ SendRequest
             \/ Close
    BY <2>3 DEF EvictOnce, HealthResults, Reconfirm, PatrolResult, SendRequest, Close
  <2>4. ASSUME NEW i \in Inst, Manage(i) PROVE UNCHANGED portVars
    BY <2>4 DEF Manage, poolVars
  <2> QED BY <2>1, <2>2, <2>3, <2>4 DEF Next, Coordinator, Users
<1> QED BY <1>0, <1>1, <1>2, <1>3, <1>4, PortStepInv

LEMMA MembersStay ==
  ASSUME PoolInv, Next PROVE MembersOK' /\ Membership'
<1>0. MembersOK /\ Membership /\ ControlTypeOK
  BY DEF PoolInv
<1>1. CASE FillCreate
  <2>1. PICK off \in Offsets : portOf' = [portOf EXCEPT ![nextSeq] = off]
    BY <1>1, CreateFacts
  <2>2. MembersOK'
    BY <1>0, <1>1, <2>1, CreateFacts, Numbers DEF MembersOK
  <2>3. \A i \in Inst : (i < nextSeq + 1) <=> (i < nextSeq \/ i = nextSeq)
    <3>1. nextSeq \in Nat /\ Inst \subseteq Nat
      BY <1>1, CreateFacts, Numbers
    <3> QED BY <3>1
  <2>4. pc \in [Inst -> Places]
    BY <1>0 DEF ControlTypeOK
  <2>5. \A i \in Inst : (pc'[i] = "none") <=> ~(i < nextSeq')
    BY <1>0, <1>1, <2>3, <2>4, CreateFacts DEF Membership
  <2>6. /\ \A i \in members' : pc'[i] # "none"
        /\ \A i \in Inst \ members' : pc'[i] \in {"none", "done"}
    BY <1>0, <1>1, <2>4, CreateFacts DEF Membership, MembersOK
  <2> QED BY <2>2, <2>5, <2>6 DEF Membership
<1>2. CASE TakeStopped
  BY <1>0, <1>2, RemoveFacts DEF MembersOK, Membership
<1>3. CASE UNCHANGED <<members, portOf, nextSeq>>
  <2>1. MembersOK'
    BY <1>0, <1>3 DEF MembersOK
  <2>2. ASSUME NEW i \in Inst, Manage(i) PROVE Membership'
    <3>1. /\ pc[i] \notin {"none", "done"} /\ pc'[i] # "none"
          /\ \A j \in Inst \ {i} : pc'[j] = pc[j]
      BY <1>0, <2>2, GoroutineMoves
    <3>2. members \subseteq Inst
      BY <1>0 DEF MembersOK
    <3> QED BY <1>0, <1>3, <3>1, <3>2 DEF Membership
  <2>3. CASE UNCHANGED pc
    BY <1>0, <1>3, <2>1, <2>3 DEF Membership
  <2>4. CASE FillCreate
    BY <1>1, <2>4
  <2> QED BY <2>1, <2>2, <2>3, <2>4, <1>1, OthersMoveNothing
<1> QED BY <1>1, <1>2, <1>3, OthersKeepMembers

-----------------------------------------------------------------------------
(* The event channel *)

(* LastWords without the head: it is used with the members that remain. *)
LEMMA RestOfQueue ==
  ASSUME PoolInv, TakesEvent
  PROVE  /\ Len(events') \in Nat
         /\ \A n \in 1..Len(events') :
              /\ n + 1 \in 1..Len(events) /\ events'[n] = events[n + 1]
              /\ events'[n].inst \in members
              /\ events'[n].kind = "Stopped" => pc[events'[n].inst] = "done"
              /\ events[1].kind = "Stopped" => events'[n].inst # events[1].inst
         /\ \A m, n \in 1..Len(events') :
              m < n /\ events'[m].kind = "Stopped" => events'[n].inst # events'[m].inst
<1>1. ControlTypeOK /\ LastWords
  BY DEF PoolInv
<1>2. events # <<>> /\ events' = Tail(events)
  BY Zenon DEF TakesEvent
<1>3. /\ Len(events) \in Nat \ {0} /\ Len(events') = Len(events) - 1
      /\ \A n \in 1..Len(events') : events'[n] = events[n + 1]
  BY <1>1, <1>2, HeadEvent, Zenon
<1>4. \A n \in 1..Len(events') : n + 1 \in 1..Len(events) /\ 1 < n + 1
  BY <1>3
<1>5. 1 \in 1..Len(events) /\ Len(events') \in Nat
  BY <1>3
<1>6. \A m, n \in 1..Len(events') : m < n => m + 1 < n + 1
  BY <1>5
<1>7. \A m, n \in 1..Len(events) :
        m < n /\ events[m].kind = "Stopped" => events[n].inst # events[m].inst
  BY <1>1 DEF LastWords
<1>8. \A n \in 1..Len(events) :
        /\ events[n].inst \in members
        /\ events[n].kind = "Stopped" => pc[events[n].inst] = "done"
  BY <1>1 DEF LastWords
<1>9. ASSUME NEW n \in 1..Len(events')
      PROVE  /\ events'[n].inst \in members
             /\ events'[n].kind = "Stopped" => pc[events'[n].inst] = "done"
             /\ events[1].kind = "Stopped" => events'[n].inst # events[1].inst
  <2>1. n + 1 \in 1..Len(events) /\ 1 < n + 1 /\ events'[n] = events[n + 1]
    BY <1>3, <1>4
  <2>2. events[1].kind = "Stopped" => events[n + 1].inst # events[1].inst
    BY <1>5, <1>7, <2>1
  <2> QED BY <1>8, <2>1, <2>2
<1>10. ASSUME NEW m \in 1..Len(events'), NEW n \in 1..Len(events'),
              m < n, events'[m].kind = "Stopped"
       PROVE  events'[n].inst # events'[m].inst
  <2>1. /\ m + 1 \in 1..Len(events) /\ events'[m] = events[m + 1]
        /\ n + 1 \in 1..Len(events) /\ events'[n] = events[n + 1]
    BY <1>3, <1>4
  <2>2. m + 1 < n + 1
    BY <1>6, <1>10
  <2> QED BY <1>7, <1>10, <2>1, <2>2
<1> QED BY <1>3, <1>4, <1>5, <1>9, <1>10

(* A report of an instance that has not been done yet comes last. *)
LEMMA QueueGrows ==
  ASSUME PoolInv, NEW i \in Inst, pc[i] \notin {"none", "done"},
         UNCHANGED members, NEW m \in Message, events' = Append(events, EventOf(i, m)),
         \A j \in Inst \ {i} : pc'[j] = pc[j],
         m.kind = "Stopped" => pc'[i] = "done",
         \A j \in Inst : pc'[j] = "emit" => out'[j].kind # "Stopped"
  PROVE  LastWords'
<1>1. i \in members /\ members \subseteq Inst
  BY DEF PoolInv, Membership, MembersOK
<1>2. LastWords /\ events \in Seq(Event) /\ Len(events) \in Nat
  BY LenProperties DEF PoolInv, ControlTypeOK
<1>3. EventOf(i, m).inst = i /\ EventOf(i, m).kind = m.kind /\ EventOf(i, m) \in Event
  BY DEF EventOf, Event, Message
<1>4. /\ Len(events') = Len(events) + 1
      /\ \A n \in 1..Len(events) : events'[n] = events[n]
      /\ events'[Len(events) + 1] = EventOf(i, m)
  BY <1>2, <1>3, AppendProperties
<1>5. \A n \in 1..Len(events') : n \in 1..Len(events) \/ n = Len(events) + 1
  BY <1>2, <1>4
<1>6. \A n \in 1..Len(events) :
        /\ events[n].inst \in members
        /\ events[n].kind = "Stopped" => pc[events[n].inst] = "done" /\ events[n].inst # i
  BY <1>2 DEF LastWords
<1>7. \A n \in 1..Len(events') :
        /\ events'[n].inst \in members'
        /\ events'[n].kind = "Stopped" => pc'[events'[n].inst] = "done"
  BY <1>1, <1>3, <1>4, <1>5, <1>6
<1>8. ASSUME NEW k \in 1..Len(events'), NEW n \in 1..Len(events'), k < n,
             events'[k].kind = "Stopped"
      PROVE  events'[n].inst # events'[k].inst
  <2>1. k \in 1..Len(events)
    BY <1>2, <1>4, <1>8
  <2>2. CASE n \in 1..Len(events)
    BY <1>2, <1>4, <1>8, <2>1, <2>2 DEF LastWords
  <2>3. CASE n = Len(events) + 1
    BY <1>3, <1>4, <1>6, <1>8, <2>1, <2>3
  <2> QED BY <1>5, <2>2, <2>3
<1> QED BY <1>7, <1>8 DEF LastWords

LEMMA QueueStays ==
  ASSUME PoolInv, Next PROVE LastWords'
<1>0. LastWords /\ Membership /\ ControlTypeOK /\ members \subseteq Inst
  BY DEF PoolInv, MembersOK
<1>1. CASE FillCreate
  <2>1. /\ pc' = [pc EXCEPT ![nextSeq] = "build"] /\ out' = out /\ events' = events
        /\ nextSeq \notin members /\ members' = members \cup {nextSeq}
    BY <1>1, CreateFacts
  <2>2. pc \in [Inst -> Places]
    BY <1>0 DEF ControlTypeOK
  <2>3. \A j \in Inst : pc'[j] = pc[j] \/ pc'[j] = "build"
    BY <2>1, <2>2
  <2>4. \A j \in members : pc'[j] = pc[j]
    BY <1>0, <2>1, <2>2
  <2> QED BY <1>0, <2>1, <2>3, <2>4 DEF LastWords
<1>2. CASE TakeStopped
  <2>1. TakesEvent /\ UNCHANGED <<pc, out>> /\ members' = members \ {Head(events).inst}
    BY <1>2, RemoveFacts
  <2>2. Head(events) = events[1] /\ events[1].kind = "Stopped"
    BY <1>0, <1>2, HeadEvent, Zenon DEF TakeStopped
  <2> QED BY <1>0, <2>1, <2>2, RestOfQueue DEF LastWords
<1>3. ASSUME UNCHANGED members, TakesEvent, UNCHANGED <<pc, out>> PROVE LastWords'
  BY <1>0, <1>3, RestOfQueue DEF LastWords
<1>4. ASSUME UNCHANGED members, UNCHANGED <<pc, out, events>> PROVE LastWords'
  BY <1>0, <1>4 DEF LastWords
<1>5. ASSUME UNCHANGED members, NEW i \in Inst, Manage(i) PROVE LastWords'
  <2>1. /\ pc[i] \notin {"none", "done"}
        /\ \A j \in Inst \ {i} : pc'[j] = pc[j] /\ out'[j] = out[j]
        /\ pc'[i] = "emit" => out'[i].kind # "Stopped"
        /\ \/ events' = events
           \/ pc[i] = "emit" /\ Says(i, out[i])
           \/ pc'[i] = "done" /\ Says(i, Note("Stopped"))
    BY <1>0, <1>5, GoroutineMoves
  <2>2. \A j \in Inst : pc'[j] = "emit" => out'[j].kind # "Stopped"
    BY <1>0, <2>1 DEF LastWords
  <2>3. CASE events' = events
    BY <1>0, <1>5, <2>1, <2>2, <2>3 DEF LastWords
  <2>4. CASE pc[i] = "emit" /\ events' = Append(events, EventOf(i, out[i]))
    <3>1. out[i] \in Message /\ out[i].kind # "Stopped"
      BY <1>0, <2>4 DEF ControlTypeOK, LastWords
    <3> QED BY <1>5, <2>1, <2>2, <2>4, <3>1, QueueGrows
  <2>5. CASE pc'[i] = "done" /\ events' = Append(events, EventOf(i, Note("Stopped")))
    <3>1. Note("Stopped") \in Message
      BY NotesAreMessages DEF EvKind
    <3> QED BY <1>5, <2>1, <2>2, <2>5, <3>1, QueueGrows
  <2> QED BY <2>1, <2>3, <2>4, <2>5 DEF Says
<1> QED BY <1>1, <1>2, <1>3, <1>4, <1>5, OthersMoveNothing, OthersKeepMembers

-----------------------------------------------------------------------------
(* The registry *)

(* Every step, in terms of keysByInst and usedKeys: a key is released, or a
   member enters with a key that is not another's, or exempt. *)
Releases == \E i \in Inst : ReleaseKey(i)
Exempts == \E i \in members : MarkExempt(i) /\ UNCHANGED members
Enters ==
  \E i \in members, k \in Key :
    ~Taken(k, i) /\ Register(i, k) /\ UNCHANGED members

LEMMA RegistrySteps ==
  ASSUME PoolInv, Next
  PROVE  UNCHANGED <<keyOf, owner>> \/ Releases \/ Exempts \/ Enters
<1>0. ControlTypeOK
  BY DEF PoolInv
<1>1. CASE TakeReady
  <2>1. events # <<>> /\ HandleReady(Head(events).inst, Head(events).egress)
    BY <1>1, Zenon DEF TakeReady
  <2>2. Head(events).inst \in members
    BY <1>0, <2>1, HeadEvent DEF PoolInv, LastWords
  <2>3. UNCHANGED members
    BY <1>1, Zenon DEF TakeReady, memberVars
  <2> QED BY <2>1, <2>2, <2>3 DEF HandleReady, AdmitExempt, RetryEmpty, ReplayEmpty,
             ReplayDuplicate, AdmitUnique, Exempts, Enters
<1>2. CASE TakeLeft
  <2>1. events # <<>> /\ ReleaseKey(Head(events).inst)
    BY <1>2, Zenon DEF TakeLeft
  <2>2. Head(events).inst \in Inst
    BY <1>0, <2>1, HeadEvent
  <2> QED BY <2>1, <2>2 DEF Releases
<1>3. CASE TakeStopped
  BY <1>3, RemoveFacts DEF Releases, PoolInv, MembersOK
<1>4. CASE PatrolResult
  <2>1. PICK i \in targets, eg \in Egress : ApplyEgress(i, eg) /\ at = "patrol"
    BY <1>4 DEF PatrolResult
  <2>2. i \in members /\ i \in Inst
    BY <2>1 DEF PoolInv, PatrolOnMembers, MembersOK
  <2>3. UNCHANGED members
    BY <1>4 DEF PatrolResult, memberVars
  <2> QED BY <2>1, <2>2, <2>3 DEF ApplyEgress, Releases, Enters
<1>5. UNCHANGED <<keyOf, owner>> \/ TakeReady \/ TakeLeft \/ TakeStopped \/ PatrolResult
  <2>1. CASE CoordinatorPanic
    BY <2>1, Zenon DEF CoordinatorPanic, registryVars
  <2>2. CASE \/ Align \/ FillDone \/ FillFull \/ FillCreate \/ FillFails \/ HealthTick
             \/ EgressTick \/ PatrolDone \/ WakeUp \/ CoordinatorExit \/ RequestStatus
             \/ TestMin \/ TestMax \/ StoreMin \/ StoreMax \/ Terminated
    BY <2>2 DEF Align, FillDone, FillFull, FillCreate, FillFails, HealthTick, EgressTick,
       PatrolDone, WakeUp, CoordinatorExit, RequestStatus, TestMin, TestMax, StoreMin,
       StoreMax, Terminated, vars, poolVars, registryVars
  <2>3. CASE EvictOnce \/ HealthResults \/ Reconfirm \/ SendRequest \/ Close
    BY <2>3 DEF EvictOnce, HealthResults, Reconfirm, SendRequest, Close, registryVars
  <2>4. ASSUME NEW i \in Inst, Manage(i) PROVE UNCHANGED <<keyOf, owner>>
    BY <2>4 DEF Manage, poolVars, registryVars
  <2> QED BY <2>1, <2>2, <2>3, <2>4 DEF Next, Coordinator, Users
<1> QED BY <1>1, <1>2, <1>3, <1>4, <1>5

LEMMA KeyValues ==
  /\ Undecided \notin Key /\ Exempt \notin Key /\ Undecided # Exempt /\ Nobody \notin Inst
BY PoolAssumption

LEMMA RegistryStays ==
  ASSUME PoolInv, Next PROVE RegistryOK' /\ RegistryConsistent'
<1>0. /\ keyOf \in [Inst -> Key \cup {Undecided, Exempt}]
      /\ owner \in [Key -> Inst \cup {Nobody}]
      /\ \A i \in Inst, k \in Key : keyOf[i] = k <=> owner[k] = i
      /\ members \subseteq Inst
  BY DEF PoolInv, RegistryOK, RegistryConsistent, MembersOK
<1>1. \A i \in Inst :
        /\ OwnerWithout(i) \in [Key -> Inst \cup {Nobody}]
        /\ \A k \in Key : OwnerWithout(i)[k] = IF owner[k] = i THEN Nobody ELSE owner[k]
  BY <1>0 DEF OwnerWithout
<1>2. ASSUME NEW i \in Inst, owner' = OwnerWithout(i),
             NEW x \in {Undecided, Exempt}, keyOf' = [keyOf EXCEPT ![i] = x]
      PROVE  RegistryOK' /\ RegistryConsistent'
  BY <1>0, <1>1, <1>2, KeyValues DEF RegistryOK, RegistryConsistent
<1>3. ASSUME NEW i \in Inst, NEW k \in Key, ~Taken(k, i), Register(i, k)
      PROVE  RegistryOK' /\ RegistryConsistent'
  <2>1. owner[k] \in {Nobody, i} /\ OwnerWithout(i)[k] = Nobody
    BY <1>0, <1>1, <1>3 DEF Taken
  <2>2. /\ keyOf' = [keyOf EXCEPT ![i] = k]
        /\ owner' = [OwnerWithout(i) EXCEPT ![k] = i]
    BY <1>3 DEF Register
  <2>3. RegistryOK'
    BY <1>0, <1>1, <2>2 DEF RegistryOK
  <2>4. ASSUME NEW j \in Inst, NEW l \in Key PROVE keyOf'[j] = l <=> owner'[l] = j
    BY <1>0, <1>1, <2>1, <2>2, KeyValues
  <2> QED BY <2>3, <2>4 DEF RegistryConsistent
<1>4. CASE UNCHANGED <<keyOf, owner>>
  BY <1>0, <1>4 DEF RegistryOK, RegistryConsistent
<1>5. CASE Releases
  BY <1>2, <1>5 DEF Releases, ReleaseKey
<1>6. CASE Exempts
  BY <1>0, <1>2, <1>6 DEF Exempts, MarkExempt
<1>7. CASE Enters
  BY <1>0, <1>3, <1>7 DEF Enters
<1> QED BY <1>4, <1>5, <1>6, <1>7, RegistrySteps

(* The counts of empty probes and the verdicts that were dropped. *)
Counts ==
  \/ UNCHANGED empties
  \/ \E i \in Inst : Forget(i)
  \/ /\ \E i \in members : /\ empties[i] + 1 < ProbeFailLimit
                          /\ empties' = [empties EXCEPT ![i] = @ + 1]
     /\ UNCHANGED members

LEMMA CountSteps ==
  ASSUME PoolInv, Next
  PROVE  Counts /\ (UNCHANGED unheard \/ \E i \in Inst : Hear(i) \/ Settle(i))
<1>0. ControlTypeOK /\ members \subseteq Inst
  BY DEF PoolInv, MembersOK
<1>1. CASE TakeReady
  <2>1. events # <<>> /\ HandleReady(Head(events).inst, Head(events).egress)
    BY <1>1, Zenon DEF TakeReady
  <2>2. Head(events).inst \in members /\ Head(events).inst \in Inst
    BY <1>0, <2>1, HeadEvent DEF PoolInv, LastWords
  <2>3. UNCHANGED members
    BY <1>1, Zenon DEF TakeReady, memberVars
  <2> QED BY <2>1, <2>2, <2>3 DEF HandleReady, AdmitExempt, RetryEmpty, ReplayEmpty,
             ReplayDuplicate, AdmitUnique, Counts
<1>2. CASE TakeLeft
  <2>1. events # <<>> /\ Settle(Head(events).inst) /\ UNCHANGED empties
    BY <1>2, Zenon DEF TakeLeft
  <2>2. Head(events).inst \in Inst
    BY <1>0, <2>1, HeadEvent
  <2> QED BY <2>1, <2>2 DEF Counts
<1>3. CASE TakeStopped
  BY <1>0, <1>3, RemoveFacts DEF Counts
<1>4. UNCHANGED <<empties, unheard>> \/ TakeReady \/ TakeLeft \/ TakeStopped
  <2>1. CASE CoordinatorPanic
    BY <2>1, Zenon DEF CoordinatorPanic, registryVars
  <2>2. CASE \/ Align \/ FillDone \/ FillFull \/ FillCreate \/ FillFails \/ HealthTick
             \/ EgressTick \/ PatrolDone \/ WakeUp \/ CoordinatorExit \/ RequestStatus
             \/ TestMin \/ TestMax \/ StoreMin \/ StoreMax \/ Terminated
    BY <2>2 DEF Align, FillDone, FillFull, FillCreate, FillFails, HealthTick, EgressTick,
       PatrolDone, WakeUp, CoordinatorExit, RequestStatus, TestMin, TestMax, StoreMin,
       StoreMax, Terminated, vars, poolVars, registryVars
  <2>3. CASE EvictOnce \/ HealthResults \/ Reconfirm \/ SendRequest \/ Close \/ PatrolResult
    BY <2>3 DEF EvictOnce, HealthResults, Reconfirm, SendRequest, Close, PatrolResult,
       registryVars
  <2>4. ASSUME NEW i \in Inst, Manage(i) PROVE UNCHANGED <<empties, unheard>>
    BY <2>4 DEF Manage, poolVars, registryVars
  <2> QED BY <2>1, <2>2, <2>3, <2>4 DEF Next, Coordinator, Users
<1> QED BY <1>1, <1>2, <1>3, <1>4 DEF Counts

LEMMA CountsStay ==
  ASSUME PoolInv, Next PROVE CountsOK'
<1>1. /\ empties \in [Inst -> 0..(ProbeFailLimit - 1)] /\ unheard \subseteq Inst
      /\ ProbeFailLimit \in Nat \ {0} /\ members \subseteq Inst
  BY PoolAssumption DEF PoolInv, CountsOK, MembersOK
<1>2. empties' \in [Inst -> 0..(ProbeFailLimit - 1)]
  <2>1. Counts
    BY CountSteps
  <2> QED BY <1>1, <2>1 DEF Counts, Forget
<1>3. unheard' \subseteq Inst
  <2>1. UNCHANGED unheard \/ \E i \in Inst : Hear(i) \/ Settle(i)
    BY CountSteps
  <2> QED BY <1>1, <2>1 DEF Hear, Settle
<1> QED BY <1>2, <1>3 DEF CountsOK

LEMMA NothingStaysBehind ==
  ASSUME PoolInv, Next PROVE NothingLeftBehind'
<1>0. /\ \A i \in Inst \ members :
            keyOf[i] = Undecided /\ empties[i] = 0 /\ portOf[i] = NoPort
      /\ used = {portOf[i] : i \in members}
      /\ \A i, j \in members : i # j => portOf[i] # portOf[j]
      /\ members \subseteq Inst
      /\ keyOf \in [Inst -> Key \cup {Undecided, Exempt}]
      /\ empties \in [Inst -> 0..(ProbeFailLimit - 1)]
      /\ portOf \in [Inst -> Offsets \cup {NoPort}]
  BY DEF PoolInv, NothingLeftBehind, MembersOK, RegistryOK, CountsOK
<1>1. \A i \in Inst \ members : i \in Inst \ members' => keyOf'[i] = Undecided
  <2>1. UNCHANGED <<keyOf, owner>> \/ Releases \/ Exempts \/ Enters
    BY RegistrySteps
  <2> QED BY <1>0, <2>1 DEF Releases, ReleaseKey, Exempts, MarkExempt, Enters, Register
<1>2. \A i \in Inst \ members : i \in Inst \ members' => empties'[i] = 0
  <2>1. Counts
    BY CountSteps
  <2> QED BY <1>0, <2>1 DEF Counts, Forget
<1>3. CASE FillCreate
  <2>1. PICK off \in Offsets :
          /\ off \notin used /\ used' = used \cup {off}
          /\ portOf' = [portOf EXCEPT ![nextSeq] = off]
    BY <1>3, CreateFacts
  <2>2. nextSeq \in Inst /\ nextSeq \notin members /\ members' = members \cup {nextSeq}
    BY <1>3, CreateFacts
  <2>3. portOf'[nextSeq] = off /\ \A i \in members : portOf'[i] = portOf[i]
    BY <1>0, <2>1, <2>2
  <2>4. used' = {portOf'[i] : i \in members'}
    BY <1>0, <2>1, <2>2, <2>3
  <2>5. \A i, j \in members' : i # j => portOf'[i] # portOf'[j]
    BY <1>0, <2>1, <2>2, <2>3
  <2>6. \A i \in Inst \ members' : portOf'[i] = NoPort
    BY <1>0, <2>1, <2>2
  <2> QED BY <1>1, <1>2, <2>2, <2>4, <2>5, <2>6 DEF NothingLeftBehind
<1>4. CASE TakeStopped
  <2> DEFINE r == Head(events).inst
  <2>1. /\ r \in members /\ members' = members \ {r}
        /\ ReleaseKey(r) /\ Forget(r)
        /\ used' = used \ {portOf[r]} /\ portOf' = [portOf EXCEPT ![r] = NoPort]
    BY <1>4, RemoveFacts
  <2> HIDE DEF r
  <2>2. keyOf'[r] = Undecided /\ empties'[r] = 0 /\ portOf'[r] = NoPort
    BY <1>0, <2>1 DEF ReleaseKey, Forget
  <2>3. \A i \in Inst \ {r} : portOf'[i] = portOf[i]
    BY <1>0, <2>1
  <2>4. used' = {portOf'[i] : i \in members'}
    BY <1>0, <2>1, <2>3
  <2>5. \A i, j \in members' : i # j => portOf'[i] # portOf'[j]
    BY <1>0, <2>1, <2>3
  <2>6. \A i \in Inst \ members' : i = r \/ i \in Inst \ members
    BY <2>1
  <2> QED BY <1>0, <1>1, <1>2, <2>2, <2>3, <2>4, <2>5, <2>6 DEF NothingLeftBehind
<1>5. CASE UNCHANGED <<members, portOf, nextSeq, used>>
  BY <1>0, <1>1, <1>2, <1>5 DEF NothingLeftBehind
<1> QED BY <1>3, <1>4, <1>5, OthersKeepMembers

-----------------------------------------------------------------------------
(* The coordinator's place, the limits and the users *)

LEMMA PatrolStays ==
  ASSUME PoolInv, Next PROVE PatrolOnMembers'
<1>0. at = "patrol" => targets \subseteq members
  BY DEF PoolInv, PatrolOnMembers
<1>1. CASE TakeReady \/ TakeLeft \/ TakeStopped
  BY <1>1, Zenon DEF TakeReady, TakeLeft, TakeStopped, ToSelect, ToAlign, PatrolOnMembers
<1>2. CASE \/ Align \/ FillDone \/ FillFull \/ FillFails \/ EvictOnce \/ HealthTick
           \/ HealthResults \/ Reconfirm \/ PatrolDone \/ WakeUp \/ CoordinatorExit
           \/ CoordinatorPanic
  BY <1>2 DEF Align, FillDone, FillFull, FillFails, EvictOnce, HealthTick, HealthResults,
     Reconfirm, PatrolDone, WakeUp, CoordinatorExit, CoordinatorPanic, ToSelect, ToAlign,
     PatrolOnMembers
<1>3. CASE FillCreate
  BY <1>3 DEF FillCreate, Lacking, PatrolOnMembers
<1>4. CASE EgressTick
  BY <1>4 DEF EgressTick, NormalMembers, memberVars, PatrolOnMembers
<1>5. CASE PatrolResult
  BY <1>0, <1>5 DEF PatrolResult, memberVars, PatrolOnMembers
<1>6. ASSUME UNCHANGED <<at, targets, members>> PROVE PatrolOnMembers'
  BY <1>0, <1>6 DEF PatrolOnMembers
<1>7. CASE \/ RequestStatus \/ SendRequest \/ TestMin \/ TestMax \/ StoreMin
           \/ StoreMax \/ Close \/ Terminated
  BY <1>6, <1>7 DEF RequestStatus, SendRequest, TestMin, TestMax, StoreMin, StoreMax,
     Close, Terminated, vars, poolVars, memberVars
<1>8. ASSUME NEW i \in Inst, Manage(i) PROVE PatrolOnMembers'
  BY <1>6, <1>8 DEF Manage, poolVars, memberVars
<1> QED BY <1>1, <1>2, <1>3, <1>4, <1>5, <1>7, <1>8 DEF Next, Coordinator, Users

LEMMA UsersStay ==
  ASSUME PoolInv, Next PROVE UsersOK'
<1> USE PoolAssumption DEF UsersOK, Stations
<1>0. UsersOK /\ members \subseteq Inst
  BY DEF PoolInv, MembersOK
<1>1. ASSUME Trouble PROVE troubles' \in 0..MaxTroubles
  BY <1>0, <1>1 DEF Trouble
<1>2. CASE TakeReady \/ TakeLeft \/ TakeStopped
  <2>1. /\ UNCHANGED <<targets, limitVars, userVars>>
        /\ at' \in {"select", "align"}
    BY <1>2, Zenon DEF TakeReady, TakeLeft, TakeStopped, ToSelect, ToAlign
  <2> QED BY <1>0, <2>1 DEF limitVars, userVars
<1>3. CASE Align \/ FillDone \/ FillFull \/ FillFails \/ EvictOnce \/ FillCreate
  <2>1. UNCHANGED userVars
    BY <1>3 DEF Align, FillDone, FillFull, FillFails, EvictOnce, FillCreate
  <2>2. CASE Align \/ FillDone \/ FillFull
    BY <1>0, <2>1, <2>2 DEF Align, FillDone, FillFull, LeaveFill, ToSelect, limitVars, userVars
  <2>3. CASE FillFails \/ EvictOnce \/ FillCreate
    BY <1>0, <2>1, <2>3 DEF FillFails, EvictOnce, FillCreate, LeaveFill, ToSelect, limitVars,
       userVars
  <2> QED BY <1>3, <2>2, <2>3
<1>4. CASE HealthTick \/ Reconfirm \/ PatrolDone \/ WakeUp \/ CoordinatorExit
  BY <1>0, <1>4 DEF HealthTick, Reconfirm, PatrolDone, WakeUp, CoordinatorExit,
     NormalMembers, ToAlign, limitVars, userVars
<1>5. CASE EgressTick
  BY <1>0, <1>1, <1>5 DEF EgressTick, NormalMembers, limitVars
<1>6. CASE HealthResults
  BY <1>0, <1>1, <1>6 DEF HealthResults, limitVars
<1>7. CASE PatrolResult
  BY <1>0, <1>7 DEF PatrolResult, limitVars, userVars
<1>8. CASE CoordinatorPanic
  BY <1>0, <1>1, <1>8 DEF CoordinatorPanic, limitVars
<1>9. CASE RequestStatus
  BY <1>0, <1>1, <1>9 DEF RequestStatus, limitVars
<1>10. CASE SendRequest \/ Close \/ Terminated
  BY <1>0, <1>10 DEF SendRequest, Close, Terminated, limitVars, vars, poolVars, userVars
<1>11. CASE TestMin \/ TestMax \/ StoreMin \/ StoreMax
  <2>1. CASE TestMin
    BY <1>0, <2>1 DEF TestMin, userVars
  <2>2. CASE TestMax
    BY <1>0, <2>2 DEF TestMax, userVars
  <2>3. CASE StoreMin \/ StoreMax
    <3>1. wake' = TRUE
      BY <2>3, Zenon DEF StoreMin, StoreMax
    <3>2. min' \in Nat /\ max' \in Nat /\ minCall' \in Nat /\ maxCall' \in Nat
      BY <1>0, <2>3 DEF StoreMin, StoreMax
    <3>3. UNCHANGED <<at, targets, lo, hi, requests, closed, troubles, calling>>
      BY <2>3 DEF StoreMin, StoreMax, userVars
    <3> QED BY <1>0, <3>1, <3>2, <3>3
  <2> QED BY <1>11, <2>1, <2>2, <2>3
<1>12. ASSUME NEW i \in Inst, Manage(i) PROVE UsersOK'
  BY <1>0, <1>1, <1>12 DEF Manage, poolVars, limitVars, userVars
<1> QED BY <1>2, <1>3, <1>4, <1>5, <1>6, <1>7, <1>8, <1>9, <1>10, <1>11, <1>12
        DEF Next, Coordinator, Users

-----------------------------------------------------------------------------
(* The invariant and what follows from it *)

LEMMA PoolInitInv == Init => PoolInv
<1> SUFFICES ASSUME Init PROVE PoolInv
  OBVIOUS
<1> USE DEF Init
<1>1. ControlTypeOK /\ events = <<>> /\ \A i \in Inst : pc[i] = "none"
  BY ControlTypeInit DEF Places, ControlInit
<1>2. IInv
  BY PortInitInv
<1>3. MembersOK /\ RegistryOK /\ CountsOK
  BY PoolAssumption DEF MembersOK, RegistryOK, CountsOK
<1>4. UsersOK
  <2>1. calling \in BOOLEAN /\ closed \in BOOLEAN /\ wake \in BOOLEAN
    BY Zenon
  <2>2. troubles \in 0..MaxTroubles
    <3>1. MaxTroubles \in Nat /\ (troubles = MaxTroubles \/ troubles = 0)
      BY PoolAssumption
    <3> QED BY <3>1
  <2>3. /\ min \in Nat /\ max \in Nat /\ lo \in Nat /\ hi \in Nat
        /\ minCall \in Nat /\ maxCall \in Nat
    BY PoolAssumption
  <2> QED BY <2>1, <2>2, <2>3 DEF UsersOK, Stations
<1>5. Membership
  BY <1>1, Numbers DEF Membership
<1>6. LastWords
  <2>1. Len(events) = 0
    BY <1>1, EmptySeq
  <2> QED BY <1>1, <2>1 DEF LastWords
<1>7. PatrolOnMembers /\ NothingLeftBehind
  BY DEF PatrolOnMembers, NothingLeftBehind, PortInit
<1>8. RegistryConsistent
  BY KeyValues DEF RegistryConsistent
<1> QED BY <1>1, <1>2, <1>3, <1>4, <1>5, <1>6, <1>7, <1>8 DEF PoolInv

LEMMA PoolStutters ==
  ASSUME PoolInv, UNCHANGED vars PROVE PoolInv'
<1>1. UNCHANGED controlVars /\ UNCHANGED portVars /\ UNCHANGED memberVars
      /\ UNCHANGED registryVars /\ UNCHANGED limitVars /\ UNCHANGED userVars
      /\ at' = at /\ targets' = targets
  BY DEF vars, poolVars
<1>2. ControlTypeOK' /\ IInv'
  BY <1>1, PortStepInv DEF PoolInv, ControlTypeOK, controlVars
<1>3. MembersOK' /\ RegistryOK' /\ CountsOK'
  BY <1>1 DEF PoolInv, MembersOK, RegistryOK, CountsOK, memberVars, registryVars
<1>4. UsersOK'
  BY <1>1 DEF PoolInv, UsersOK, limitVars, userVars
<1>5. Membership' /\ LastWords' /\ PatrolOnMembers'
  BY <1>1 DEF PoolInv, Membership, LastWords, PatrolOnMembers, controlVars, memberVars
<1>6. RegistryConsistent' /\ NothingLeftBehind'
  BY <1>1 DEF PoolInv, RegistryConsistent, NothingLeftBehind, registryVars, memberVars,
     portVars
<1> QED BY <1>2, <1>3, <1>4, <1>5, <1>6 DEF PoolInv

LEMMA PoolInvInductive == PoolInv /\ [Next]_vars => PoolInv'
<1> SUFFICES ASSUME PoolInv, [Next]_vars PROVE PoolInv'
  OBVIOUS
<1>1. CASE Next
  BY <1>1, ControlStays, PortStays, MembersStay, RegistryStays, CountsStay, UsersStay,
     QueueStays, PatrolStays, NothingStaysBehind DEF PoolInv
<1>2. CASE UNCHANGED vars
  BY <1>2, PoolStutters
<1> QED BY <1>1, <1>2

(* What the argument turns on, in every reachable state: events come from
   members and evStopped is the last of its instance, so that no report brings
   back what removeInstance has forgotten (pool.go:219-228, instance.go:208). *)
THEOREM PoolInvAlways == Spec => []PoolInv
BY PoolInitInv, PoolInvInductive, PTL DEF Spec

(* The state keeps its type, no channel exceeds its capacity, and the counts,
   ports and numbers stay in their ranges (pool.go, the fields of Pool). *)
THEOREM PoolType == Spec => []TypeOK
<1>1. PoolInv => TypeOK
  BY DEF PoolInv, IInv, MembersOK, RegistryOK, CountsOK, UsersOK, TypeOK
<1> QED BY <1>1, PoolInvAlways, PTL

(* usedKeys and keysByInst stay inverse (pool.go:174-216, :381-413), whatever
   the number of instances and keys. *)
THEOREM RegistryIsConsistent == Spec => []RegistryConsistent
<1>1. PoolInv => RegistryConsistent
  BY DEF PoolInv
<1> QED BY <1>1, PoolInvAlways, PTL

(* removeInstance leaves nothing behind, and no late report of the instance
   brings it back (pool.go:219-228). *)
THEOREM NothingIsLeftBehind == Spec => []NothingLeftBehind
<1>1. PoolInv => NothingLeftBehind
  BY DEF PoolInv
<1> QED BY <1>1, PoolInvAlways, PTL

(* An instance is removed after its goroutine has ended
   (instance.go:208-213). *)
THEOREM RemovedHasStopped == Spec => []RemovedIsStopped
<1>1. PoolInv => RemovedIsStopped
  BY DEF PoolInv, Membership, RemovedIsStopped
<1> QED BY <1>1, PoolInvAlways, PTL

(* The coordinator uses the allocator as PortAllocator says
   (pool.go:127, :226). *)
THEOREM PoolPorts == Spec => []PortsPartition
<1>1. PoolInv => PortsPartition
  BY DEF PoolInv, IInv
<1> QED BY <1>1, PoolInvAlways, PTL

(* The two maps of the coordinator implement one registry, in which a key
   passes from one instance to another only by being free in between
   (pool.go:195-216, :399-413). *)
LEMMA RegistryRefines ==
  ASSUME PoolInv, Next PROVE [KeyBook!Next]_owner
<1>0. /\ owner \in [Key -> Inst \cup {Nobody}] /\ members \subseteq Inst
      /\ \A i \in Inst, k \in Key : keyOf[i] = k <=> owner[k] = i
  BY DEF PoolInv, RegistryOK, RegistryConsistent, MembersOK
<1>1. \A i \in Inst : OwnerWithout(i) = KeyBook!Without(i)
  BY <1>0 DEF OwnerWithout, KeyBook!Without
<1>2. ASSUME NEW i \in Inst, owner' = OwnerWithout(i) PROVE KeyBook!Next
  BY <1>1, <1>2 DEF KeyBook!Next, KeyBook!Leave
<1>3. CASE Releases
  BY <1>2, <1>3 DEF Releases, ReleaseKey
<1>4. CASE Exempts
  BY <1>0, <1>2, <1>4 DEF Exempts, MarkExempt
<1>5. CASE Enters
  <2>1. PICK i \in members, k \in Key : ~Taken(k, i) /\ Register(i, k)
    BY <1>5 DEF Enters
  <2>2. KeyBook!Claim(i, k) /\ i \in Inst
    BY <1>0, <1>1, <2>1 DEF Taken, Register, KeyBook!Claim
  <2> QED BY <2>2 DEF KeyBook!Next
<1> QED BY <1>3, <1>4, <1>5, RegistrySteps

(* usedKeys, maintained with the help of keysByInst, implements KeyRegistry: an
   instance has one key at most and takes it from nobody (pool.go:195-216,
   :399-413). *)
THEOREM RegistryImplements == Spec => ImplementsKeyRegistry
<1>1. Init => KeyBook!Init
  BY DEF Init, KeyBook!Init
<1>2. PoolInv /\ [Next]_vars => [KeyBook!Next]_owner
  <2>1. UNCHANGED vars => UNCHANGED owner
    BY DEF vars, poolVars, registryVars
  <2> QED BY <2>1, RegistryRefines
<1> QED BY <1>1, <1>2, PoolInvAlways, PTL
        DEF Spec, ImplementsKeyRegistry, KeyBook!Spec
-----------------------------------------------------------------------------
(* No instance is forgotten.  Whoever waits to be judged has a report in the
   channel, or has been judged, and then the verdict is in line, registered or
   marked as dropped.  It loses none of these by what happens in between: an
   event that releases its key is older than its report, a patrol that releases
   its key was begun before its report, and the Stop that cuts the wait of a
   Reprobe short was sent before it was Probing, and so before its verdict. *)

Verdicts == {"Reprobe", "Replay"}
LeftKind == {"Lost", "Drained", "Replayed", "Disabled"}

NoStop(q) == \A n \in 1..Len(q) : q[n] # "Stop"
HasVerdict(q) == \E n \in 1..Len(q) : q[n] \in Verdicts
VerdictIn(q) ==
  \E n \in 1..Len(q) : q[n] \in Verdicts /\ \A m \in 1..Len(q) : n < m => q[m] # "Stop"

(* A verdict in line that no Stop follows. *)
Verdict(i) == VerdictIn(cmds[i]) \/ (HasVerdict(pending[i]) /\ NoStop(cmds[i]))

Attended(i) == Reported(i) \/ keyOf[i] # Undecided \/ i \in unheard \/ Verdict(i)

Awaits(i) == status[i] = "Probing" /\ pc[i] \in {"loop", "reprobe"}

(* A command that ends the wait of a Reprobe is on its way. *)
Idles(i) == Awaits(i) /\ (pc[i] = "loop" \/ ~NoStop(cmds[i]))

ReportFollows(i) ==
  \A n \in 1..Len(events) :
    events[n].inst = i /\ events[n].kind \in LeftKind =>
      \E m \in 1..Len(events) : n < m /\ events[m].inst = i /\ events[m].kind = "Ready"

AttendedOne(i) ==
  /\ StatusFitsPlace(i)
  /\ ~ctxDone =>
       /\ Awaits(i) => ReportFollows(i)
       /\ at = "patrol" /\ i \in targets /\ Awaits(i) => Reported(i)
       /\ at # "exit" /\ i \in members /\ Idles(i) => Attended(i)

LEMMA TailKeeps ==
  ASSUME NEW q \in Seq(CmdKind), q # <<>>
  PROVE  /\ NoStop(q) => NoStop(Tail(q))
         /\ VerdictIn(q) => VerdictIn(Tail(q)) \/ (Head(q) \in Verdicts /\ NoStop(Tail(q)))
         /\ HasVerdict(q) => HasVerdict(Tail(q)) \/ Head(q) \in Verdicts
         /\ Head(q) # "Stop" /\ NoStop(Tail(q)) => NoStop(q)
<1>1. /\ Tail(q) \in Seq(CmdKind) /\ Len(Tail(q)) = Len(q) - 1
      /\ \A n \in 1..Len(Tail(q)) : Tail(q)[n] = q[n + 1]
  BY HeadTailProperties
<1>2. Len(q) \in Nat \ {0} /\ Head(q) = q[1]
  BY EmptySeq, HeadIsFirst
<1>3. \A n \in 1..Len(Tail(q)) : n + 1 \in 1..Len(q)
  BY <1>1, <1>2
<1>4. ASSUME NEW n \in 1..Len(q), n # 1
      PROVE  n - 1 \in 1..Len(Tail(q)) /\ q[n] = Tail(q)[n - 1]
  <2>1. n - 1 \in 1..Len(Tail(q)) /\ (n - 1) + 1 = n
    BY <1>1, <1>2, <1>4
  <2> QED BY <1>1, <2>1
<1>5. NoStop(q) => NoStop(Tail(q))
  BY <1>1, <1>3 DEF NoStop
<1>6. HasVerdict(q) => HasVerdict(Tail(q)) \/ Head(q) \in Verdicts
  BY <1>2, <1>4 DEF HasVerdict
<1>7. Head(q) # "Stop" /\ NoStop(Tail(q)) => NoStop(q)
  BY <1>2, <1>4 DEF NoStop
<1>8. ASSUME VerdictIn(q)
      PROVE  VerdictIn(Tail(q)) \/ (Head(q) \in Verdicts /\ NoStop(Tail(q)))
  <2>1. PICK n \in 1..Len(q) : q[n] \in Verdicts /\ \A m \in 1..Len(q) : n < m => q[m] # "Stop"
    BY <1>8 DEF VerdictIn
  <2>2. CASE n = 1
    <3>1. ASSUME NEW m \in 1..Len(Tail(q)) PROVE Tail(q)[m] # "Stop"
      <4>1. m + 1 \in 1..Len(q) /\ n < m + 1
        BY <1>1, <1>2, <2>2
      <4> QED BY <1>1, <2>1, <4>1
    <3> QED BY <1>2, <2>1, <2>2, <3>1 DEF NoStop
  <2>3. CASE n # 1
    <3>1. n - 1 \in 1..Len(Tail(q)) /\ Tail(q)[n - 1] \in Verdicts
      BY <1>4, <2>1, <2>3
    <3>2. ASSUME NEW m \in 1..Len(Tail(q)), n - 1 < m PROVE Tail(q)[m] # "Stop"
      <4>1. m + 1 \in 1..Len(q) /\ n < m + 1
        BY <1>1, <1>2, <3>2
      <4> QED BY <1>1, <2>1, <4>1
    <3> QED BY <3>1, <3>2 DEF VerdictIn
  <2> QED BY <2>2, <2>3
<1> QED BY <1>5, <1>6, <1>7, <1>8

LEMMA AppendKeeps ==
  ASSUME NEW q \in Seq(CmdKind), NEW c \in CmdKind, c # "Stop"
  PROVE  /\ NoStop(q) => NoStop(Append(q, c))
         /\ VerdictIn(q) => VerdictIn(Append(q, c))
         /\ HasVerdict(q) => HasVerdict(Append(q, c))
         /\ c \in Verdicts => VerdictIn(Append(q, c)) /\ HasVerdict(Append(q, c))
<1>1. /\ Len(Append(q, c)) = Len(q) + 1 /\ Len(q) \in Nat
      /\ \A n \in 1..Len(q) : Append(q, c)[n] = q[n]
      /\ Append(q, c)[Len(q) + 1] = c
  BY AppendProperties, LenProperties
<1>2. /\ \A n \in 1..Len(Append(q, c)) : n \in 1..Len(q) \/ n = Len(q) + 1
      /\ \A n \in 1..Len(q) : n \in 1..Len(Append(q, c))
      /\ Len(q) + 1 \in 1..Len(Append(q, c))
  BY <1>1
<1>3. NoStop(q) => NoStop(Append(q, c))
  BY <1>1, <1>2 DEF NoStop
<1>4. HasVerdict(q) => HasVerdict(Append(q, c))
  BY <1>1, <1>2 DEF HasVerdict
<1>5. ASSUME VerdictIn(q) PROVE VerdictIn(Append(q, c))
  <2>1. PICK n \in 1..Len(q) : q[n] \in Verdicts /\ \A m \in 1..Len(q) : n < m => q[m] # "Stop"
    BY <1>5 DEF VerdictIn
  <2>2. \A m \in 1..Len(Append(q, c)) : n < m => Append(q, c)[m] # "Stop"
    BY <1>1, <1>2, <2>1
  <2> QED BY <1>1, <1>2, <2>1, <2>2 DEF VerdictIn
<1>6. ASSUME c \in Verdicts PROVE VerdictIn(Append(q, c))
  <2>1. \A m \in 1..Len(Append(q, c)) : ~(Len(q) + 1 < m)
    BY <1>1
  <2> QED BY <1>1, <1>2, <1>6, <2>1 DEF VerdictIn
<1>7. c \in Verdicts => HasVerdict(Append(q, c))
  BY <1>1, <1>2 DEF HasVerdict
<1> QED BY <1>3, <1>4, <1>5, <1>6, <1>7

(* Commands sent to j, other than Stop, come after its verdict. *)
LEMMA QuietVerdict ==
  ASSUME QueuesOK, NEW j \in Inst, pending'[j] = pending[j],
         \/ cmds'[j] = cmds[j]
         \/ \E c \in CmdKind \ {"Stop"} : cmds'[j] = Append(cmds[j], c)
  PROVE  /\ Verdict(j) => Verdict(j)'
         /\ ~NoStop(cmds'[j]) => ~NoStop(cmds[j])
<1>1. CASE cmds'[j] = cmds[j]
  BY <1>1 DEF Verdict
<1>2. CASE \E c \in CmdKind \ {"Stop"} : cmds'[j] = Append(cmds[j], c)
  <2>1. PICK c \in CmdKind \ {"Stop"} : cmds'[j] = Append(cmds[j], c)
    BY <1>2
  <2>2. cmds[j] \in Seq(CmdKind)
    BY DEF QueuesOK
  <2>3. /\ NoStop(cmds[j]) => NoStop(Append(cmds[j], c))
        /\ VerdictIn(cmds[j]) => VerdictIn(Append(cmds[j], c))
    BY <2>2, AppendKeeps
  <2> QED BY <2>1, <2>3 DEF Verdict
<1> QED BY <1>1, <1>2

(* The events that j waits for, when one more is queued or one is taken. *)
LEMMA EventsGrow ==
  ASSUME ControlTypeOK, NEW e \in Event, events' = Append(events, e), NEW j \in Inst
  PROVE  /\ Reported(j) => Reported(j)'
         /\ e.inst = j /\ e.kind = "Ready" => Reported(j)' /\ ReportFollows(j)'
         /\ e.inst # j /\ ReportFollows(j) => ReportFollows(j)'
<1>1. /\ events \in Seq(Event) /\ Len(events) \in Nat /\ DOMAIN events = 1..Len(events)
  BY LenProperties DEF ControlTypeOK
<1>2. /\ Len(events') = Len(events) + 1 /\ DOMAIN events' = 1..Len(events')
      /\ \A n \in 1..Len(events) : events'[n] = events[n]
      /\ events'[Len(events) + 1] = e
  <2>1. Append(events, e) \in Seq(Event)
    BY <1>1, AppendProperties
  <2> QED BY <1>1, <2>1, AppendProperties, LenProperties
<1>3. /\ \A n \in 1..Len(events') : n \in 1..Len(events) \/ n = Len(events) + 1
      /\ \A n \in 1..Len(events) : n \in 1..Len(events') /\ n < Len(events) + 1
      /\ Len(events) + 1 \in 1..Len(events')
  BY <1>1, <1>2
<1>4. Reported(j) => Reported(j)'
  BY <1>1, <1>2, <1>3 DEF Reported
<1>5. ASSUME e.inst = j, e.kind = "Ready" PROVE Reported(j)' /\ ReportFollows(j)'
  <2>1. Reported(j)'
    BY <1>2, <1>3, <1>5 DEF Reported
  <2>2. ASSUME NEW n \in 1..Len(events'), events'[n].kind \in LeftKind
        PROVE  n < Len(events) + 1
    BY <1>2, <1>3, <1>5, <2>2 DEF LeftKind
  <2>3. ReportFollows(j)'
    BY <1>2, <1>3, <1>5, <2>2 DEF ReportFollows
  <2> QED BY <2>1, <2>3
<1>6. ASSUME e.inst # j, ReportFollows(j) PROVE ReportFollows(j)'
  <2> SUFFICES ASSUME NEW n \in 1..Len(events'), events'[n].inst = j, events'[n].kind \in LeftKind
               PROVE  \E m \in 1..Len(events') :
                        n < m /\ events'[m].inst = j /\ events'[m].kind = "Ready"
    BY DEF ReportFollows
  <2>1. n \in 1..Len(events) /\ events'[n] = events[n]
    BY <1>2, <1>3, <1>6
  <2>2. PICK m \in 1..Len(events) : n < m /\ events[m].inst = j /\ events[m].kind = "Ready"
    BY <1>6, <2>1 DEF ReportFollows
  <2> QED BY <1>2, <1>3, <2>2
<1> QED BY <1>4, <1>5, <1>6

LEMMA EventsShrink ==
  ASSUME ControlTypeOK, TakesEvent, NEW j \in Inst
  PROVE  /\ Reported(j) => Reported(j)' \/ (Head(events).inst = j /\ Head(events).kind = "Ready")
         /\ ReportFollows(j) => ReportFollows(j)'
         /\ ReportFollows(j) /\ Head(events).inst = j /\ Head(events).kind \in LeftKind => Reported(j)'
<1>1. events # <<>> /\ events' = Tail(events)
  BY Zenon DEF TakesEvent
<1>2. /\ Len(events) \in Nat \ {0} /\ Len(events') = Len(events) - 1
      /\ Head(events) = events[1] /\ events' \in Seq(Event)
      /\ \A n \in 1..Len(events') : events'[n] = events[n + 1]
  BY <1>1, HeadEvent
<1>3. DOMAIN events = 1..Len(events) /\ DOMAIN events' = 1..Len(events')
  BY <1>2, LenProperties DEF ControlTypeOK
<1>4. ASSUME NEW n \in 1..Len(events), n # 1
      PROVE  n - 1 \in 1..Len(events') /\ events'[n - 1] = events[n]
  <2>1. n - 1 \in 1..Len(events') /\ (n - 1) + 1 = n
    BY <1>2, <1>4
  <2> QED BY <1>2, <2>1
<1>5. Reported(j) => Reported(j)' \/ (Head(events).inst = j /\ Head(events).kind = "Ready")
  BY <1>2, <1>3, <1>4 DEF Reported
<1>6. ASSUME ReportFollows(j) PROVE ReportFollows(j)'
  <2> SUFFICES ASSUME NEW n \in 1..Len(events'), events'[n].inst = j, events'[n].kind \in LeftKind
               PROVE  \E m \in 1..Len(events') :
                        n < m /\ events'[m].inst = j /\ events'[m].kind = "Ready"
    BY DEF ReportFollows
  <2>1. n + 1 \in 1..Len(events) /\ events[n + 1] = events'[n]
    BY <1>2
  <2>2. PICK m \in 1..Len(events) : n + 1 < m /\ events[m].inst = j /\ events[m].kind = "Ready"
    BY <1>6, <2>1 DEF ReportFollows
  <2>3. m # 1 /\ n < m - 1
    BY <2>2
  <2>4. m - 1 \in 1..Len(events') /\ events'[m - 1] = events[m]
    BY <1>4, <2>3
  <2> QED BY <2>2, <2>3, <2>4
<1>7. ASSUME ReportFollows(j), Head(events).inst = j, Head(events).kind \in LeftKind
      PROVE  Reported(j)'
  <2>1. 1 \in 1..Len(events)
    BY <1>2
  <2>2. PICK m \in 1..Len(events) : 1 < m /\ events[m].inst = j /\ events[m].kind = "Ready"
    BY <1>2, <1>7, <2>1 DEF ReportFollows
  <2>3. m - 1 \in 1..Len(events') /\ events'[m - 1] = events[m]
    <3>1. m # 1
      BY <2>2
    <3> QED BY <1>4, <3>1
  <2> QED BY <1>3, <2>2, <2>3 DEF Reported
<1> QED BY <1>5, <1>6, <1>7


(* How a goroutine comes to wait for its verdict, and what it does meanwhile. *)
LEMMA GoroutineAwaits ==
  ASSUME FieldsOK, NEW j \in Inst, ControlStep(j), StatusFitsPlace(j), ~ctxDone, Awaits(j)'
  PROVE  \/ /\ Emit(j) /\ out[j].kind = "Ready"
            /\ events' = Append(events, EventOf(j, out[j]))
         \/ /\ Awaits(j) /\ UNCHANGED events
            /\ Reprobe(j) \/ Ignore(j) \/ Park(j) \/ StopWait(j)
<1>1. /\ pc \in [Inst -> Places] /\ status \in [Inst -> Status] /\ out \in [Inst -> Message]
  BY DEF FieldsOK
<1>2. status'[j] = "Probing" /\ pc'[j] \in {"loop", "reprobe"}
  BY DEF Awaits
<1>3. ~Confirm(j)
  BY <1>1, <1>2 DEF Confirm, SetStatus
<1>4. ~Replay(j) /\ ~Drain(j) /\ ~Enable(j) /\ ~Stop(j)
  BY <1>1, <1>2 DEF Replay, Drain, Enable, Stop, Goto
<1>5. ~Disable(j) /\ ~DrainDisable(j) /\ ~Cancel(j)
  BY <1>1, <1>2 DEF Disable, DrainDisable, SetStatus, Cancel
<1>6. /\ ~ReprobeExpire(j) /\ ~DrainExpire(j) /\ ~HandleLost(j) /\ ~BuildDone(j)
      /\ ~Probe(j)
  BY <1>1, <1>2 DEF ReprobeExpire, DrainExpire, HandleLost, BuildDone, Probe, EmitNext, Goto
<1>7. ~Create(j) /\ ~Panic(j) /\ ~Finalize(j) /\ ~Report(j)
  BY <1>1, <1>2 DEF Create, Panic, Finalize, Report, Goto
<1>8. ASSUME Emit(j)
      PROVE  out[j].kind = "Ready" /\ events' = Append(events, EventOf(j, out[j]))
  <2>1. /\ pc[j] = "emit" /\ status'[j] = status[j] /\ pc'[j] = Resume(out[j].kind)
        /\ events' = Append(events, EventOf(j, out[j]))
    BY <1>1, <1>8 DEF Emit, Goto, face
  <2>2. out[j].kind \in EvKind /\ out[j].kind # "Stopped" /\ out[j].kind # "Disabled"
    BY <1>1, <1>2, <2>1 DEF StatusFitsPlace, Message
  <2>3. out[j].kind \notin {"Lost", "Drained", "Replayed"}
    BY <1>2, <2>1 DEF Resume
  <2> QED BY <2>1, <2>2, <2>3 DEF EvKind
<1>9. ASSUME Reprobe(j) PROVE Awaits(j) /\ UNCHANGED events
  BY <1>9, ControlGuards DEF Reprobe, Awaits
<1>10. ASSUME Ignore(j) \/ Park(j) PROVE Awaits(j) /\ UNCHANGED events
  BY <1>2, <1>10 DEF Ignore, Park, face, Awaits
<1>11. ASSUME StopWait(j) PROVE Awaits(j) /\ UNCHANGED events
  BY <1>1, <1>2, <1>11 DEF StopWait, Interrupted, Waiting, Goto, face, Awaits
<1> QED
  BY <1>3, <1>4, <1>5, <1>6, <1>7, <1>8, <1>9, <1>10, <1>11 DEF ControlStep

(* While it waits it takes no verdict out of line unless it acts on it, and a
   Stop that is still to come is behind none. *)
LEMMA GoroutineVerdict ==
  ASSUME QueuesOK, NEW j \in Inst, Reprobe(j) \/ Ignore(j) \/ Park(j) \/ StopWait(j),
         pc \in [Inst -> Places], Awaits(j), Idles(j)'
  PROVE  Idles(j) /\ (Verdict(j) => Verdict(j)')
<1>1. cmds[j] \in Seq(CmdKind) /\ pending[j] \in Seq(CmdKind)
  BY DEF QueuesOK
<1>2. ASSUME cmds[j] # <<>>
      PROVE  /\ NoStop(cmds[j]) => NoStop(Tail(cmds[j]))
             /\ VerdictIn(cmds[j]) => \/ VerdictIn(Tail(cmds[j]))
                                      \/ Head(cmds[j]) \in Verdicts /\ NoStop(Tail(cmds[j]))
  BY <1>1, <1>2, TailKeeps
<1>3. CASE Reprobe(j)
  <2>1. /\ Dequeue(j, "Reprobe") /\ pc[j] = "loop" /\ pc'[j] = "reprobe"
    BY <1>3, ControlGuards DEF Reprobe, Takes, Goto
  <2>2. Idles(j) /\ ~NoStop(cmds'[j])
    BY <2>1 DEF Idles
  <2>3. CASE cmds' = cmds
    BY <2>2, <2>3 DEF Verdict
  <2>4. CASE Receive(j, "Reprobe")
    <3>1. cmds[j] # <<>> /\ cmds'[j] = Tail(cmds[j])
      BY <2>4 DEF Receive, QueuesOK
    <3>2. ~NoStop(cmds[j]) /\ (VerdictIn(cmds[j]) => VerdictIn(cmds'[j]))
      BY <1>2, <2>2, <3>1
    <3> QED BY <2>2, <3>2 DEF Verdict
  <2> QED BY <2>1, <2>3, <2>4 DEF Dequeue
<1>4. CASE Ignore(j)
  <2>1. PICK c \in CmdKind : Dequeue(j, c) /\ status[j] \notin Applies[c]
    BY <1>4 DEF Ignore
  <2>2. c \notin Verdicts
    BY <2>1, AppliesValues DEF Awaits, Verdicts
  <2>3. Idles(j)
    BY <1>4, ControlGuards DEF Idles
  <2>4. CASE /\ pending[j] # <<>> /\ c = Head(pending[j])
             /\ pending' = [pending EXCEPT ![j] = Tail(@)] /\ cmds' = cmds
    <3>1. pending'[j] = Tail(pending[j])
      BY <2>4 DEF QueuesOK
    <3>2. HasVerdict(pending[j]) => HasVerdict(pending'[j])
      BY <1>1, <2>2, <2>4, <3>1, TailKeeps
    <3> QED BY <2>3, <2>4, <3>2 DEF Verdict
  <2>5. CASE Receive(j, c) /\ pending' = pending
    <3>1. cmds[j] # <<>> /\ cmds'[j] = Tail(cmds[j]) /\ c = Head(cmds[j])
      BY <2>5 DEF Receive, QueuesOK
    <3>2. /\ NoStop(cmds[j]) => NoStop(cmds'[j])
          /\ VerdictIn(cmds[j]) => VerdictIn(cmds'[j])
      BY <1>2, <2>2, <3>1
    <3> QED BY <2>3, <2>5, <3>2 DEF Verdict
  <2> QED BY <2>1, <2>4, <2>5 DEF Dequeue
<1>5. CASE Park(j)
  <2>1. PICK c \in CmdKind : Receive(j, c)
    BY <1>5 DEF Park
  <2>2. cmds[j] # <<>> /\ cmds'[j] = Tail(cmds[j])
    BY <2>1 DEF Receive, QueuesOK
  <2>3. pc[j] = "reprobe" /\ pc' = pc
    BY <1>5 DEF Park, Waiting, Awaits
  <2>4. ~NoStop(cmds'[j])
    BY <2>3 DEF Idles
  <2>5. ~NoStop(cmds[j]) /\ (VerdictIn(cmds[j]) => VerdictIn(cmds'[j]))
    BY <1>2, <2>2, <2>4
  <2> QED BY <2>5 DEF Verdict, Idles
<1>6. CASE StopWait(j)
  <2>1. cmds[j] # <<>> /\ cmds'[j] = Tail(cmds[j]) /\ Head(cmds[j]) = "Stop"
    BY <1>6 DEF StopWait, Receive, QueuesOK
  <2>2. ~NoStop(cmds[j])
    <3>1. 1 \in 1..Len(cmds[j]) /\ cmds[j][1] = "Stop"
      BY <1>1, <2>1, HeadIsFirst, EmptySeq
    <3> QED BY <3>1 DEF NoStop
  <2>3. VerdictIn(cmds[j]) => VerdictIn(cmds'[j])
    BY <1>2, <2>1 DEF Verdicts
  <2> QED BY <2>2, <2>3 DEF Verdict, Idles
<1> QED BY <1>3, <1>4, <1>5, <1>6

(* A step of others: whoever waits keeps what attends to it. *)
LEMMA QuietStep ==
  ASSUME QueuesOK, NEW j \in Inst, AttendedOne(j),
         pc'[j] = pc[j], status'[j] = status[j], awaitConfirm'[j] = awaitConfirm[j],
         out'[j] = out[j], pending'[j] = pending[j], ctxDone' = ctxDone,
         \/ cmds'[j] = cmds[j]
         \/ \E c \in CmdKind \ {"Stop"} : cmds'[j] = Append(cmds[j], c),
         Awaits(j) /\ ReportFollows(j) => ReportFollows(j)',
         ~ctxDone /\ at' = "patrol" /\ j \in targets' /\ Awaits(j) => Reported(j)',
         /\ ~ctxDone /\ at # "exit" /\ j \in members /\ Awaits(j)
         /\ at' # "exit" /\ j \in members'
         /\ Reported(j) \/ keyOf[j] # Undecided \/ j \in unheard
         => Reported(j)' \/ keyOf'[j] # Undecided \/ j \in unheard' \/ Verdict(j)',
         at' # "exit" => at # "exit", j \in members' => j \in members
  PROVE  AttendedOne(j)'
<1>1. StatusFitsPlace(j)'
  BY DEF AttendedOne, StatusFitsPlace
<1>2. /\ Verdict(j) => Verdict(j)'
      /\ ~NoStop(cmds'[j]) => ~NoStop(cmds[j])
  BY QuietVerdict
<1>3. (Awaits(j)' => Awaits(j)) /\ (Idles(j)' => Idles(j))
  BY <1>2 DEF Awaits, Idles
<1>4. CASE ctxDone
  BY <1>1, <1>4 DEF AttendedOne
<1>5. CASE ~ctxDone
  <2>1. Awaits(j)' => ReportFollows(j)'
    BY <1>3, <1>5 DEF AttendedOne
  <2>2. at' = "patrol" /\ j \in targets' /\ Awaits(j)' => Reported(j)'
    BY <1>3, <1>5
  <2>3. ASSUME at' # "exit", j \in members', Idles(j)' PROVE Attended(j)'
    <3>1. Attended(j) /\ Awaits(j)
      BY <1>3, <1>5, <2>3 DEF AttendedOne, Idles
    <3> QED BY <1>2, <1>5, <2>3, <3>1 DEF Attended
  <2> QED BY <1>1, <2>1, <2>2, <2>3 DEF AttendedOne
<1> QED BY <1>4, <1>5

(* The goroutine of another instance. *)
LEMMA GoroutineApart ==
  ASSUME ControlTypeOK, NEW i \in Inst, ControlStep(i), NEW j \in Inst \ {i}
  PROVE  /\ pc'[j] = pc[j] /\ status'[j] = status[j] /\ awaitConfirm'[j] = awaitConfirm[j]
         /\ out'[j] = out[j] /\ cmds'[j] = cmds[j] /\ pending'[j] = pending[j]
         /\ ctxDone' = ctxDone
         /\ \/ events' = events
            \/ \E e \in Event : events' = Append(events, e) /\ e.inst # j
<1>t. FieldsOK /\ QueuesOK
  BY ControlTypeParts
<1>1. /\ pc'[j] = pc[j] /\ status'[j] = status[j] /\ awaitConfirm'[j] = awaitConfirm[j]
      /\ out'[j] = out[j]
  BY <1>t DEF FieldsOK, ControlStep, Confirm, Reprobe, Replay, Drain, Disable, Enable, Stop,
     Ignore, Park, StopWait, Cancel, ReprobeExpire, DrainExpire, DrainDisable, Create,
     BuildDone, Probe, Emit, HandleLost, Panic, Finalize, Report, Goto, SetStatus, EmitNext,
     face
<1>2. cmds'[j] = cmds[j] /\ pending'[j] = pending[j]
  BY <1>t DEF QueuesOK, ControlStep, Confirm, Reprobe, Replay, Drain, Disable, Enable, Stop,
     Ignore, Park, StopWait, Cancel, ReprobeExpire, DrainExpire, DrainDisable, Create,
     BuildDone, Probe, Emit, HandleLost, Panic, Finalize, Report, Takes, Dequeue, Receive,
     queues
<1>3. ctxDone' = ctxDone
  BY DEF ControlStep, Confirm, Reprobe, Replay, Drain, Disable, Enable, Stop,
     Ignore, Park, StopWait, Cancel, ReprobeExpire, DrainExpire, DrainDisable, Create,
     BuildDone, Probe, Emit, HandleLost, Panic, Finalize, Report
<1>4. ASSUME NEW m \in Message PROVE EventOf(i, m) \in Event /\ EventOf(i, m).inst # j
  BY <1>4 DEF EventOf, Event, Message
<1>5. out[i] \in Message /\ Note("Stopped") \in Message
  BY <1>t, NotesAreMessages DEF FieldsOK, EvKind
<1>6. \/ events' = events \/ events' = Append(events, EventOf(i, out[i]))
      \/ events' = Append(events, EventOf(i, Note("Stopped")))
  BY DEF ControlStep, Confirm, Reprobe, Replay, Drain, Disable, Enable, Stop,
     Ignore, Park, StopWait, Cancel, ReprobeExpire, DrainExpire, DrainDisable, Create,
     BuildDone, Probe, Emit, HandleLost, Panic, Finalize, Report
<1> QED BY <1>1, <1>2, <1>3, <1>4, <1>5, <1>6

LEMMA AttendedWhenAnotherMoves ==
  ASSUME ControlTypeOK, NEW i \in Inst, ControlStep(i), NEW j \in Inst \ {i},
         AttendedOne(j), UNCHANGED <<at, targets, keyOf, unheard>>,
         j \in members' => j \in members
  PROVE  AttendedOne(j)'
<1>1. QueuesOK
  BY ControlTypeParts
<1>2. /\ Awaits(j) /\ ReportFollows(j) => ReportFollows(j)'
      /\ Reported(j) => Reported(j)'
  <2>1. CASE events' = events
    BY <2>1 DEF ReportFollows, Reported
  <2>2. CASE \E e \in Event : events' = Append(events, e) /\ e.inst # j
    BY <2>2, EventsGrow
  <2> QED BY <2>1, <2>2, GoroutineApart
<1>3. ~ctxDone /\ at' = "patrol" /\ j \in targets' /\ Awaits(j) => Reported(j)'
  BY <1>2 DEF AttendedOne
<1> QED BY <1>1, <1>2, <1>3, QuietStep, GoroutineApart

LEMMA AttendedWhenItMoves ==
  ASSUME ControlTypeOK, NEW j \in Inst, ControlStep(j), AttendedOne(j),
         UNCHANGED <<at, targets, keyOf, unheard>>, j \in members' => j \in members
  PROVE  AttendedOne(j)'
<1>t. FieldsOK /\ QueuesOK /\ pc \in [Inst -> Places] /\ out \in [Inst -> Message]
  BY ControlTypeParts DEF FieldsOK
<1>1. StatusFitsPlace(j) /\ StatusFitsPlace(j)' /\ ctxDone' = ctxDone
  <2>1. StatusFitsPlace(j)
    BY DEF AttendedOne
  <2>2. ctxDone' = ctxDone
    BY DEF ControlStep, Confirm, Reprobe, Replay, Drain, Disable, Enable, Stop,
       Ignore, Park, StopWait, Cancel, ReprobeExpire, DrainExpire, DrainDisable, Create,
       BuildDone, Probe, Emit, HandleLost, Panic, Finalize, Report
  <2> QED BY <1>t, <2>1, <2>2, PlaceStep
<1>2. CASE ctxDone \/ ~Awaits(j)'
  BY <1>1, <1>2 DEF AttendedOne, Idles
<1>3. CASE ~ctxDone /\ Awaits(j)'
  <2>1. CASE out[j].kind = "Ready" /\ events' = Append(events, EventOf(j, out[j]))
    <3>1. EventOf(j, out[j]) \in Event
      BY <1>t DEF EventOf, Event, Message
    <3>2. EventOf(j, out[j]).inst = j /\ EventOf(j, out[j]).kind = "Ready"
      BY <2>1 DEF EventOf
    <3>3. Reported(j)' /\ ReportFollows(j)'
      BY <2>1, <3>1, <3>2, EventsGrow
    <3> QED BY <1>1, <3>3 DEF AttendedOne, Attended
  <2>2. CASE /\ Awaits(j) /\ UNCHANGED events
             /\ Reprobe(j) \/ Ignore(j) \/ Park(j) \/ StopWait(j)
    <3>1. ReportFollows(j)' /\ (Reported(j) => Reported(j)')
      BY <1>3, <2>2 DEF AttendedOne, ReportFollows, Reported
    <3>2. at' = "patrol" /\ j \in targets' /\ Awaits(j)' => Reported(j)'
      BY <1>3, <2>2, <3>1 DEF AttendedOne
    <3>3. ASSUME at' # "exit", j \in members', Idles(j)' PROVE Attended(j)'
      <4>1. Idles(j) /\ (Verdict(j) => Verdict(j)')
        BY <1>t, <2>2, <3>3, GoroutineVerdict
      <4>2. Attended(j)
        BY <1>3, <3>3, <4>1 DEF AttendedOne
      <4> QED BY <3>1, <4>1, <4>2 DEF Attended
    <3> QED BY <1>1, <3>1, <3>2, <3>3 DEF AttendedOne
  <2> QED BY <1>t, <1>1, <1>3, <2>1, <2>2, GoroutineAwaits
<1> QED BY <1>2, <1>3

(* The steps that read an event. *)
LEMMA AttendedByReady ==
  ASSUME PoolInv, TakeReady, NEW j \in Inst, AttendedOne(j)
  PROVE  AttendedOne(j)'
<1> DEFINE i == Head(events).inst
<1>t. ControlTypeOK /\ QueuesOK /\ RegistryOK /\ unheard \subseteq Inst
  BY ControlTypeParts DEF PoolInv, CountsOK
<1>1. /\ at = "select" /\ at' = "select" /\ targets' = targets /\ TakesEvent
      /\ HandleReady(i, Head(events).egress) /\ Head(events).kind = "Ready" /\ i \in Inst
      /\ UNCHANGED <<pc, face, pending, out, ctxDone, members>>
  BY <1>t, HeadEvent, Zenon DEF TakeReady, TakesEvent, ToSelect, memberVars
<1>2. \E c \in CmdKind \ {"Stop"} :
        /\ Send(i, c)
        /\ \/ c \in Verdicts /\ Hear(i) /\ keyOf' = keyOf
           \/ (\A m \in Inst \ {i} : keyOf'[m] = keyOf[m]) /\ keyOf'[i] # Undecided /\ Settle(i)
  <2>1. \A k \in Key \cup {Exempt} : k # Undecided
    BY PoolAssumption
  <2> DEFINE eg == Head(events).egress
  <2>2. ASSUME AdmitExempt(i, eg) \/ AdmitUnique(i, eg)
        PROVE  /\ Send(i, "Confirm") /\ Settle(i) /\ keyOf'[i] # Undecided
               /\ \A m \in Inst \ {i} : keyOf'[m] = keyOf[m]
    BY <1>t, <1>1, <2>1, <2>2 DEF AdmitExempt, AdmitUnique, MarkExempt, Register, RegistryOK
  <2>3. ASSUME RetryEmpty(i, eg) \/ ReplayEmpty(i, eg) \/ ReplayDuplicate(i, eg)
        PROVE  \E c \in Verdicts : Send(i, c) /\ Hear(i) /\ keyOf' = keyOf
    BY <2>3 DEF RetryEmpty, ReplayEmpty, ReplayDuplicate, Verdicts
  <2> HIDE DEF i
  <2>4. Verdicts \subseteq CmdKind \ {"Stop"} /\ "Confirm" \in CmdKind \ {"Stop"}
    BY DEF Verdicts, CmdKind
  <2> QED BY <1>1, <2>2, <2>3, <2>4 DEF HandleReady
<1> HIDE DEF i
<1>3. PICK c \in CmdKind \ {"Stop"} :
        /\ Send(i, c)
        /\ \/ c \in Verdicts /\ Hear(i) /\ keyOf' = keyOf
           \/ (\A m \in Inst \ {i} : keyOf'[m] = keyOf[m]) /\ keyOf'[i] # Undecided /\ Settle(i)
  BY <1>2
<1>4. cmds'[j] = cmds[j] \/ cmds'[j] = Append(cmds[j], c)
  BY <1>t, <1>3 DEF Send, QueuesOK
<1>5. ReportFollows(j) => ReportFollows(j)'
  BY <1>t, <1>1, EventsShrink
<1>6. Reported(j) /\ j # i => Reported(j)'
  BY <1>t, <1>1, EventsShrink DEF i
<1>7. CASE j # i
  <2>1. keyOf'[j] = keyOf[j] /\ (j \in unheard => j \in unheard')
    BY <1>3, <1>7 DEF Hear, Settle
  <2> QED BY <1>t, <1>1, <1>4, <1>5, <1>6, <1>7, <2>1, QuietStep DEF face
<1>8. CASE j = i
  <2>1. CASE keyOf'[i] # Undecided
    BY <1>t, <1>1, <1>4, <1>5, <1>8, <2>1, QuietStep DEF face
  <2>2. CASE c \in Verdicts /\ Hear(i)
    <3>1. CASE Accepts(i)
      <4>1. cmds'[j] = Append(cmds[j], c) /\ cmds[j] \in Seq(CmdKind)
        BY <1>t, <1>3, <1>8, <3>1 DEF Send, QueuesOK
      <4>2. VerdictIn(cmds'[j])
        BY <2>2, <4>1, AppendKeeps
      <4> QED BY <1>t, <1>1, <1>4, <1>5, <4>2, QuietStep DEF face, Verdict
    <3>2. CASE ~Accepts(i)
      <4>1. j \in unheard'
        BY <1>8, <2>2, <3>2 DEF Hear
      <4> QED BY <1>t, <1>1, <1>4, <1>5, <4>1, QuietStep DEF face
    <3> QED BY <3>1, <3>2
  <2> QED BY <1>3, <2>1, <2>2
<1> QED BY <1>7, <1>8

LEMMA AttendedByLeft ==
  ASSUME PoolInv, TakeLeft, NEW j \in Inst, AttendedOne(j)
  PROVE  AttendedOne(j)'
<1> DEFINE i == Head(events).inst
<1>t. ControlTypeOK /\ QueuesOK /\ RegistryOK
  BY ControlTypeParts DEF PoolInv
<1>1. /\ at = "select" /\ at' = "align" /\ TakesEvent /\ ReleaseKey(i) /\ Settle(i)
      /\ Head(events).kind \in LeftKind
      /\ UNCHANGED <<pc, face, queues, out, ctxDone, members>>
  BY Zenon DEF TakeLeft, TakesEvent, ToAlign, memberVars, LeftKind
<1>2. /\ ReportFollows(j) => ReportFollows(j)'
      /\ Reported(j) => Reported(j)'
      /\ ReportFollows(j) /\ j = i => Reported(j)'
  BY <1>t, <1>1, EventsShrink DEF LeftKind
<1> HIDE DEF i
<1>3. CASE j # i
  <2>1. keyOf'[j] = keyOf[j] /\ (j \in unheard => j \in unheard')
    BY <1>t, <1>1, <1>3 DEF ReleaseKey, Settle, RegistryOK
  <2> QED BY <1>t, <1>1, <1>2, <2>1, QuietStep DEF face, queues
<1>4. CASE j = i
  <2>1. Awaits(j) /\ ~ctxDone => Reported(j)'
    BY <1>2, <1>4 DEF AttendedOne
  <2> QED BY <1>t, <1>1, <1>2, <2>1, QuietStep DEF face, queues
<1> QED BY <1>3, <1>4

LEMMA AttendedByStopped ==
  ASSUME PoolInv, TakeStopped, NEW j \in Inst, AttendedOne(j)
  PROVE  AttendedOne(j)'
<1> DEFINE i == Head(events).inst
<1>t. ControlTypeOK /\ QueuesOK /\ RegistryOK
  BY ControlTypeParts DEF PoolInv
<1>1. /\ at = "select" /\ at' = "align" /\ TakesEvent /\ ReleaseKey(i) /\ Settle(i)
      /\ Head(events).kind = "Stopped" /\ members' = members \ {i}
      /\ UNCHANGED <<pc, face, queues, out, ctxDone>>
  BY Zenon DEF TakeStopped, TakesEvent, ToAlign
<1>2. /\ ReportFollows(j) => ReportFollows(j)'
      /\ Reported(j) => Reported(j)'
  BY <1>t, <1>1, EventsShrink
<1> HIDE DEF i
<1>3. CASE j # i
  <2>1. keyOf'[j] = keyOf[j] /\ (j \in unheard => j \in unheard')
    BY <1>t, <1>1, <1>3 DEF ReleaseKey, Settle, RegistryOK
  <2> QED BY <1>t, <1>1, <1>2, <2>1, QuietStep DEF face, queues
<1>4. CASE j = i
  BY <1>t, <1>1, <1>2, <1>4, QuietStep DEF face, queues
<1> QED BY <1>3, <1>4

(* A result of the patrol may release the key of whom it checked, and who waits
   by then has reported since. *)
LEMMA AttendedByPatrol ==
  ASSUME PoolInv, PatrolResult, NEW j \in Inst, AttendedOne(j)
  PROVE  AttendedOne(j)'
<1>t. ControlTypeOK /\ QueuesOK /\ RegistryOK /\ targets \subseteq Inst
  BY ControlTypeParts DEF PoolInv, UsersOK
<1>1. /\ at = "patrol" /\ at' = at
      /\ UNCHANGED <<pc, status, awaitConfirm, pending, out, events, ctxDone, unheard, members>>
  BY DEF PatrolResult, memberVars
<1>2. PICK i \in targets, eg \in Egress : ApplyEgress(i, eg) /\ targets' = targets \ {i}
  BY DEF PatrolResult
<1>3. cmds'[j] = cmds[j] \/ cmds'[j] = Append(cmds[j], "Drain")
  <2>1. cmds' = cmds \/ \E v \in Inst : Send(v, "Drain")
    <3>1. ASSUME PatrolDrains(i, eg) PROVE \E v \in Inst : Send(v, "Drain")
      <4>1. PICK v : Send(v, "Drain") /\ (v = i \/ (v = owner[eg] /\ v \in members))
        BY <3>1 DEF PatrolDrains
      <4>2. v \in Inst
        BY <1>t, <4>1 DEF PoolInv, MembersOK
      <4> QED BY <4>1, <4>2
    <3> QED BY <1>2, <3>1 DEF ApplyEgress
  <2> QED BY <1>t, <2>1 DEF Send, QueuesOK
<1>4. /\ (j # i => keyOf'[j] = keyOf[j])
      /\ keyOf'[j] # Undecided \/ j = i \/ keyOf'[j] = keyOf[j]
  <2>1. \/ keyOf' = keyOf \/ keyOf' = [keyOf EXCEPT ![i] = Undecided]
        \/ keyOf' = [keyOf EXCEPT ![i] = eg]
    BY <1>2 DEF ApplyEgress, ReleaseKey, Register
  <2> QED BY <1>t, <2>1 DEF RegistryOK
<1>5. /\ Reported(j)' <=> Reported(j)
      /\ ReportFollows(j) => ReportFollows(j)'
  BY <1>1 DEF Reported, ReportFollows
<1>6. ~ctxDone /\ j \in targets /\ Awaits(j) => Reported(j)
  BY <1>1 DEF AttendedOne
<1>7. ~ctxDone /\ at' = "patrol" /\ j \in targets' /\ Awaits(j) => Reported(j)'
  BY <1>2, <1>5, <1>6
<1>8. ~ctxDone /\ Awaits(j) /\ keyOf'[j] # keyOf[j] => Reported(j)'
  BY <1>2, <1>4, <1>5, <1>6
<1>9. "Drain" \in CmdKind \ {"Stop"}
  BY DEF CmdKind
<1> QED BY <1>t, <1>1, <1>3, <1>5, <1>7, <1>8, <1>9, QuietStep

(* An evicted instance is none that waits. *)
LEMMA AttendedByEviction ==
  ASSUME PoolInv, EvictOnce, NEW j \in Inst, AttendedOne(j)
  PROVE  AttendedOne(j)'
<1>t. ControlTypeOK /\ QueuesOK
  BY ControlTypeParts DEF PoolInv
<1>1. /\ at = "evict" /\ at' = "select"
      /\ UNCHANGED <<pc, face, pending, out, events, ctxDone, keyOf, unheard, members>>
  BY DEF EvictOnce, ToSelect, registryVars, memberVars
<1>2. StatusFitsPlace(j)'
  BY <1>1 DEF AttendedOne, StatusFitsPlace, face
<1>3. ReportFollows(j) => ReportFollows(j)'
  BY <1>1 DEF ReportFollows
<1>4. (Reported(j) => Reported(j)') /\ (Awaits(j)' => Awaits(j))
  BY <1>1 DEF Reported, Awaits, face
<1>5. CASE status[j] = "Probing"
  <2>1. cmds'[j] = cmds[j]
    BY <1>5 DEF EvictOnce, SendAll, IsVictim, Evictable
  <2> QED BY <1>t, <1>1, <1>3, <1>4, <2>1, QuietStep DEF face
<1>6. CASE status[j] # "Probing"
  BY <1>1, <1>2, <1>6 DEF AttendedOne, Awaits, Idles, face
<1> QED BY <1>5, <1>6

(* Confirm, Drain and the users' commands. *)
LEMMA AttendedBySends ==
  ASSUME PoolInv, HealthResults \/ Reconfirm \/ SendRequest, NEW j \in Inst, AttendedOne(j)
  PROVE  AttendedOne(j)'
<1>t. ControlTypeOK /\ QueuesOK
  BY ControlTypeParts DEF PoolInv
<1>1. /\ UNCHANGED <<pc, face, pending, out, events, ctxDone, keyOf, unheard, members>>
      /\ \/ at \in {"health", "reconfirm"} /\ at' \in {"reconfirm", "align"}
         \/ at' = at /\ targets' = targets
  BY DEF HealthResults, Reconfirm, SendRequest, ToAlign, registryVars, memberVars
<1>2. \E c \in CmdKind \ {"Stop"} : cmds'[j] = cmds[j] \/ cmds'[j] = Append(cmds[j], c)
  <2>1. CASE HealthResults \/ Reconfirm
    <3>1. \E S : SendAll(S, "Drain") \/ SendAll(S, "Confirm")
      BY <2>1 DEF HealthResults, Reconfirm
    <3> QED BY <3>1 DEF SendAll, CmdKind
  <2>2. CASE SendRequest
    <3>1. PICK r \in requests : Send(r.inst, r.cmd)
      BY <2>2 DEF SendRequest
    <3>2. r.cmd \in CmdKind \ {"Stop"} /\ r.inst \in Inst
      BY <3>1 DEF PoolInv, UsersOK, RequestCmd, CmdKind
    <3> QED BY <1>t, <3>1, <3>2 DEF Send, QueuesOK
  <2> QED BY <2>1, <2>2
<1>3. /\ ReportFollows(j) => ReportFollows(j)'
      /\ Reported(j) => Reported(j)'
  BY <1>1 DEF ReportFollows, Reported
<1>4. ~ctxDone /\ at' = "patrol" /\ j \in targets' /\ Awaits(j) => Reported(j)'
  BY <1>1, <1>3 DEF AttendedOne
<1>5. at' # "exit" => at # "exit"
  BY <1>1
<1> QED BY <1>t, <1>1, <1>2, <1>3, <1>4, <1>5, QuietStep DEF face

(* The coordinator's other steps begin a patrol with instances that are Normal,
   or read the state; with a panic it ends. *)
LEMMA AttendedByRest ==
  ASSUME PoolInv, NEW j \in Inst, AttendedOne(j),
         \/ EgressTick \/ CoordinatorPanic \/ Close
         \/ Align \/ FillDone \/ FillFull \/ FillFails \/ HealthTick \/ PatrolDone \/ WakeUp
         \/ CoordinatorExit \/ RequestStatus \/ TestMin \/ TestMax \/ StoreMin \/ StoreMax
         \/ Terminated
  PROVE  AttendedOne(j)'
<1>t. ControlTypeOK /\ QueuesOK
  BY ControlTypeParts DEF PoolInv
<1>1. CASE \/ Align \/ FillDone \/ FillFull \/ FillFails \/ HealthTick \/ PatrolDone \/ WakeUp
           \/ CoordinatorExit \/ RequestStatus \/ TestMin \/ TestMax \/ StoreMin \/ StoreMax
           \/ Terminated
  <2>1. UNCHANGED <<controlVars, keyOf, unheard, members>>
    BY <1>1 DEF Align, FillDone, FillFull, FillFails, HealthTick, PatrolDone, WakeUp,
       CoordinatorExit, RequestStatus, TestMin, TestMax, StoreMin, StoreMax, Terminated,
       vars, poolVars, registryVars, memberVars
  <2>2. \/ at # "exit" /\ at' # "patrol"
        \/ at' = "exit"
        \/ at' = at /\ targets' = targets
    BY <1>1 DEF Align, FillDone, FillFull, FillFails, HealthTick, PatrolDone, WakeUp, Lacking,
       CoordinatorExit, RequestStatus, TestMin, TestMax, StoreMin, StoreMax, Terminated,
       vars, poolVars, ToSelect, ToAlign
  <2>3. /\ ReportFollows(j) => ReportFollows(j)'
        /\ Reported(j) => Reported(j)'
    BY <2>1 DEF ReportFollows, Reported, controlVars
  <2>4. ~ctxDone /\ at' = "patrol" /\ j \in targets' /\ Awaits(j) => Reported(j)'
    BY <2>2, <2>3 DEF AttendedOne
  <2>5. at' # "exit" => at # "exit"
    BY <2>2
  <2> QED BY <1>t, <2>1, <2>3, <2>4, <2>5, QuietStep DEF controlVars
<1>2. CASE EgressTick
  <2>1. /\ UNCHANGED <<controlVars, keyOf, unheard, members>>
        /\ at = "select" /\ at' = "patrol" /\ targets' \subseteq NormalMembers
    BY <1>2 DEF EgressTick, registryVars, memberVars
  <2>2. /\ ReportFollows(j) => ReportFollows(j)'
        /\ Reported(j) => Reported(j)'
    BY <2>1 DEF ReportFollows, Reported, controlVars
  <2>3. ~(j \in targets' /\ Awaits(j))
    BY <2>1 DEF NormalMembers, Awaits
  <2> QED BY <1>t, <2>1, <2>2, <2>3, QuietStep DEF controlVars
<1>3. CASE CoordinatorPanic
  <2>1. /\ UNCHANGED <<pc, face, queues, out, ctxDone, members>> /\ at' = "exit"
        /\ (events' = events \/ TakesEvent)
    BY <1>3, Zenon DEF CoordinatorPanic, TakesEvent, memberVars
  <2>2. ReportFollows(j) => ReportFollows(j)'
    <3>1. CASE events' = events
      BY <3>1 DEF ReportFollows
    <3>2. CASE TakesEvent
      BY <1>t, <3>2, EventsShrink
    <3> QED BY <2>1, <3>1, <3>2
  <2> QED BY <1>t, <2>1, <2>2, QuietStep DEF face, queues
<1>4. CASE Close
  <2>1. UNCHANGED <<pc, face, out>> /\ ctxDone'
    BY <1>4 DEF Close
  <2> QED BY <2>1 DEF AttendedOne, StatusFitsPlace, face
<1> QED BY <1>1, <1>2, <1>3, <1>4

AttendedInv == \A i \in Inst : AttendedOne(i)

LEMMA AttendedInductive == PoolInv /\ AttendedInv /\ [Next]_vars => AttendedInv'
<1> SUFFICES ASSUME PoolInv, AttendedInv, [Next]_vars, NEW j \in Inst
             PROVE  AttendedOne(j)'
  BY DEF AttendedInv
<1>t. ControlTypeOK /\ AttendedOne(j)
  BY DEF PoolInv, AttendedInv
<1>1. ASSUME NEW i \in Inst, Manage(i) PROVE AttendedOne(j)'
  <2>1. ControlStep(i) /\ UNCHANGED <<at, targets, keyOf, unheard, members>>
    BY <1>1 DEF Manage, Handle, Wait, Proceed, Fault, ControlStep, poolVars, registryVars,
       memberVars
  <2>2. CASE i = j
    BY <1>t, <2>1, <2>2, AttendedWhenItMoves
  <2>3. CASE i # j
    BY <1>t, <2>1, <2>3, AttendedWhenAnotherMoves
  <2> QED BY <2>2, <2>3
<1>2. CASE FillCreate
  <2>1. /\ nextSeq \in Inst /\ Create(nextSeq) /\ members' = members \cup {nextSeq}
        /\ UNCHANGED <<at, targets, keyOf, unheard>>
    BY <1>2 DEF FillCreate, registryVars
  <2>2. PICK i \in Inst : i = nextSeq
    BY <2>1
  <2>3. ControlStep(i) /\ members' = members \cup {i}
    BY <2>1, <2>2 DEF ControlStep
  <2>4. CASE i # j
    BY <1>t, <2>1, <2>3, <2>4, AttendedWhenAnotherMoves
  <2>5. CASE i = j
    <3>1. StatusFitsPlace(j)'
      BY <1>t, <2>3, <2>5, PlaceStep, ControlTypeParts DEF AttendedOne
    <3>2. pc'[j] = "build"
      BY <1>t, <2>1, <2>2, <2>5 DEF Create, Goto, ControlTypeOK
    <3> QED BY <3>1, <3>2 DEF AttendedOne, Awaits, Idles
  <2> QED BY <2>4, <2>5
<1>3. CASE UNCHANGED vars
  <2>1. UNCHANGED <<controlVars, keyOf, unheard, members, at, targets>>
    BY <1>3 DEF vars, poolVars, registryVars, memberVars
  <2> QED BY <1>t, <2>1 DEF AttendedOne, StatusFitsPlace, Awaits, Idles, ReportFollows, Reported,
             Attended, Verdict, controlVars
<1> QED BY <1>t, <1>1, <1>2, <1>3, AttendedByReady, AttendedByLeft, AttendedByStopped,
           AttendedByPatrol, AttendedByEviction, AttendedBySends, AttendedByRest
        DEF Next, Coordinator, Users

(* Whoever waits to be judged and has nothing left to do by itself will hear of
   the coordinator: its report is in the channel, its entry makes
   reconfirmProbing send Confirm again (pool.go:371-379), or its verdict was
   dropped by a full channel (pool.go:188, :192, :196), for any number of
   instances, any capacity of the channels and every order of admissions,
   patrols (pool.go:392), evictions and losses. *)
THEOREM ProbingIsAttendedAlways == Spec => []ProbingIsAttended
<1>1. Init => AttendedInv
  <2>1. Init => ControlTypeOK /\ at = "align" /\ \A i \in Inst : pc[i] = "none" /\ status[i] = "Probing"
    BY PoolInitInv DEF Init, ControlInit, PoolInv
  <2> QED BY <2>1 DEF AttendedInv, AttendedOne, StatusFitsPlace, Awaits, Idles
<1>2. PoolInv /\ AttendedInv => ProbingIsAttended
  <2> SUFFICES ASSUME PoolInv, AttendedInv, NEW i \in members, Idle(i), ~ctxDone, at # "exit"
               PROVE  Reported(i) \/ i \in Unconfirmed \cup unheard
    BY DEF ProbingIsAttended
  <2>1. i \in Inst /\ QueuesOK
    BY ControlTypeParts DEF PoolInv, MembersOK
  <2>2. Idles(i) /\ awaitConfirm[i] /\ status[i] = "Probing"
    BY <2>1 DEF Idle, AttendedInv, AttendedOne, StatusFitsPlace, Idles, Awaits
  <2>3. Attended(i)
    BY <2>1, <2>2 DEF AttendedInv, AttendedOne
  <2>4. ~Verdict(i)
    <3>1. cmds[i] \in Seq(CmdKind) /\ pending[i] \in Seq(CmdKind)
      BY <2>1 DEF QueuesOK
    <3>2. pending[i] \o cmds[i] = <<>>
      BY DEF Idle, InLine
    <3>3. pending[i] = <<>> /\ cmds[i] = <<>>
      BY <3>1, <3>2, ConcatMoves, ConcatEmptySeq
    <3>4. Len(pending[i]) = 0 /\ Len(cmds[i]) = 0
      BY <3>3, EmptySeq
    <3> QED BY <3>4 DEF Verdict, VerdictIn, HasVerdict
  <2> QED BY <2>2, <2>3, <2>4 DEF Attended, Unconfirmed
<1>3. Spec => []AttendedInv
  BY <1>1, PoolInitInv, PoolInvInductive, AttendedInductive, PTL DEF Spec
<1> QED BY <1>2, <1>3, PoolInvAlways, PTL
==============================================================================
