------------------------------- MODULE WarpPool -------------------------------
(***************************************************************************)
(* The pool: the coordinator goroutine (pool.go, reconcile) with the       *)
(* registry of egress keys, the ports and the number of instances,         *)
(* composed with the management goroutines of InstanceControl and with the *)
(* port allocator.  Users call SetStatus, SetMin, SetMax and Close.        *)
(*                                                                         *)
(* Instances are numbered in the order of their creation.  What an         *)
(* instance owns (client, identity, connections) is in WarpInstance; here  *)
(* a tunnel may be lost whenever WarpInstance lets it.                     *)
(***************************************************************************)
EXTENDS InstanceControl, PortAllocator, FiniteSets

CONSTANTS
  Key,             \* the dedupe keys a probe can lead to
  Unkeyed,         \* an egress with an address for which DedupeKeyer is empty
  Nobody,          \* no owner of a key
  Undecided,       \* no entry in keysByInst
  Exempt,          \* the entry "" in keysByInst
  NoPort,          \* no entry in portOf
  Evictor,         \* "None" or "Oldest"
  ProbeFailLimit,  \* probeFailLimit
  InitMin, InitMax,        \* Options.Min and Max
  MinCalls, MaxCalls,      \* the arguments of SetMin and SetMax, see calling
  HealthChecks, Patrols,   \* healthCheck may fail, egressCheck runs
  MaxTroubles      \* bound on losses, panics, failed checks, patrols, requests

ASSUME PoolAssumption ==
  /\ Inst = 0..(Cardinality(Inst) - 1) /\ Cardinality(Inst) \in Nat \ {0}
  /\ Egress \subseteq Key \cup {Zero, Unkeyed}
  /\ Zero \notin Key /\ Unkeyed \notin Key /\ Zero # Unkeyed
  /\ Nobody \notin Inst
  /\ Undecided \notin Key /\ Exempt \notin Key /\ Undecided # Exempt
  /\ NoPort \notin 0..LastOffset
  /\ Evictor \in {"None", "Oldest"}
  /\ ProbeFailLimit \in Nat \ {0}
  /\ InitMin \in Nat \ {0} /\ InitMax \in Nat /\ InitMin <= InitMax
  /\ MinCalls \subseteq Nat \ {0} /\ MaxCalls \subseteq Nat \ {0}
  /\ HealthChecks \in BOOLEAN /\ Patrols \in BOOLEAN
  /\ MaxTroubles \in Nat

VARIABLES
  at,          \* where the coordinator is, see Stations
  targets,     \* the instances being checked by healthCheck or egressCheck
  members,     \* the keys of p.instances, which publish makes the snapshot
  keyOf,       \* [Inst -> Key \cup {Undecided, Exempt}], keysByInst
  owner,       \* [Key -> Inst \cup {Nobody}], usedKeys
  empties,     \* [Inst -> Nat], emptyByInst
  unheard,     \* history: instances whose last verdict, not to admit, was dropped
  portOf,      \* [Inst -> Offsets \cup {NoPort}]
  nextSeq,     \* the number of the next instance
  min, max,    \* the limits in force
  lo, hi,      \* the limits align has read, 0 elsewhere
  minCall, maxCall,  \* SetMin / SetMax past its test: the value, else 0
  wake,        \* the wake channel holds a token
  requests,    \* SetStatus calls past their test: [inst, cmd]
  closed,      \* p.closed
  troubles,    \* how much of MaxTroubles is used
  calling      \* bound: whether users call SetMin and SetMax in this behaviour,
               \* which then has no troubles

registryVars == <<keyOf, owner, empties, unheard>>
memberVars == <<members, portOf, nextSeq>>
limitVars == <<min, max, lo, hi, minCall, maxCall, wake>>
userVars == <<requests, closed, troubles, calling>>
poolVars == <<at, targets, registryVars, memberVars, limitVars, userVars, portVars>>
vars == <<controlVars, poolVars>>

Stations == {"select", "health", "reconfirm", "patrol", "align", "fill", "evict",
             "exit"}

RequestCmd == {"Drain", "Disable", "Enable"}

TypeOK ==
  /\ ControlTypeOK
  /\ PortTypeOK
  /\ at \in Stations
  /\ targets \subseteq Inst
  /\ members \subseteq Inst
  /\ keyOf \in [Inst -> Key \cup {Undecided, Exempt}]
  /\ owner \in [Key -> Inst \cup {Nobody}]
  /\ empties \in [Inst -> 0..(ProbeFailLimit - 1)]
  /\ unheard \subseteq Inst
  /\ portOf \in [Inst -> Offsets \cup {NoPort}]
  /\ nextSeq \in 0..Cardinality(Inst)
  /\ min \in Nat /\ max \in Nat /\ lo \in Nat /\ hi \in Nat
  /\ minCall \in Nat /\ maxCall \in Nat
  /\ wake \in BOOLEAN
  /\ requests \subseteq [inst : Inst, cmd : RequestCmd]
  /\ closed \in BOOLEAN
  /\ troubles \in 0..MaxTroubles
  /\ calling \in BOOLEAN

(* newPool; reconcile begins with align. *)
Init ==
  /\ ControlInit("none")
  /\ PortInit
  /\ at = "align" /\ targets = {}
  /\ members = {} /\ nextSeq = 0
  /\ keyOf = [i \in Inst |-> Undecided]
  /\ owner = [k \in Key |-> Nobody]
  /\ empties = [i \in Inst |-> 0] /\ unheard = {}
  /\ portOf = [i \in Inst |-> NoPort]
  /\ min = InitMin /\ max = InitMax /\ lo = 0 /\ hi = 0
  /\ minCall = 0 /\ maxCall = 0 /\ wake = FALSE
  /\ requests = {} /\ closed = FALSE
  /\ calling \in {FALSE, MinCalls \cup MaxCalls # {}}
  /\ troubles = IF calling THEN MaxTroubles ELSE 0

-----------------------------------------------------------------------------
(* Building blocks *)

Trouble == troubles < MaxTroubles /\ troubles' = troubles + 1

(* send to every instance of S at once; sends to different instances do not
   interfere. *)
SendAll(S, c) ==
  cmds' = [i \in Inst |-> IF i \in S /\ Accepts(i) THEN Append(cmds[i], c) ELSE cmds[i]]

Active == {i \in members : status[i] \in {"Normal", "Probing"}}
NormalMembers == {i \in members : status[i] = "Normal"}

(* owner without what releaseKey(i) takes away: the entry of i's key, if it
   is still i's. *)
OwnerWithout(i) ==
  [k \in Key |-> IF k = keyOf[i] /\ owner[k] = i THEN Nobody ELSE owner[k]]

(* Faulty variant: usedKeys keeps the key. *)
ReleaseKeyHalf(i) ==
  /\ keyOf' = [keyOf EXCEPT ![i] = Undecided]
  /\ UNCHANGED owner

ReleaseKey(i) ==
  /\ keyOf' = [keyOf EXCEPT ![i] = Undecided]
  /\ owner' = OwnerWithout(i)

(* Faulty variant: the key held before is not released. *)
RegisterOnly(i, k) ==
  /\ keyOf' = [keyOf EXCEPT ![i] = k]
  /\ owner' = [owner EXCEPT ![k] = i]

(* releaseKey, then the new entries. *)
Register(i, k) ==
  /\ keyOf' = [keyOf EXCEPT ![i] = k]
  /\ owner' = [OwnerWithout(i) EXCEPT ![k] = i]

(* Faulty variant: an exempt instance gets no entry. *)
ExemptUnmarked(i) ==
  /\ keyOf' = [keyOf EXCEPT ![i] = Undecided]
  /\ owner' = OwnerWithout(i)

MarkExempt(i) ==
  /\ keyOf' = [keyOf EXCEPT ![i] = Exempt]
  /\ owner' = OwnerWithout(i)

(* Whether a verdict that asks for another probe gets through. *)
Hear(i) == unheard' = IF Accepts(i) THEN unheard \ {i} ELSE unheard \cup {i}

Settle(i) == unheard' = unheard \ {i}

Forget(i) == empties' = [empties EXCEPT ![i] = 0]

(* Faulty variant: a younger owner does not count. *)
TakenByOlder(k, i) == owner[k] # Nobody /\ owner[k] < i

Taken(k, i) == owner[k] \notin {Nobody, i}

ToSelect == at' = "select" /\ UNCHANGED targets
ToAlign == at' = "align" /\ UNCHANGED targets

-----------------------------------------------------------------------------
(* handleReady *)

AdmitExempt(i, eg) ==
  /\ eg = Unkeyed
  /\ MarkExempt(i) /\ Forget(i)
  /\ Send(i, "Confirm") /\ Settle(i)

(* Faulty variant: one probe too many. *)
RetryEmptyPastLimit(i, eg) ==
  /\ eg = Zero /\ empties[i] < ProbeFailLimit
  /\ empties' = [empties EXCEPT ![i] = @ + 1]
  /\ Send(i, "Reprobe") /\ Hear(i)
  /\ UNCHANGED <<keyOf, owner>>

RetryEmpty(i, eg) ==
  /\ eg = Zero /\ empties[i] + 1 < ProbeFailLimit
  /\ empties' = [empties EXCEPT ![i] = @ + 1]
  /\ Send(i, "Reprobe") /\ Hear(i)
  /\ UNCHANGED <<keyOf, owner>>

ReplayEmpty(i, eg) ==
  /\ eg = Zero /\ empties[i] + 1 >= ProbeFailLimit
  /\ Forget(i)
  /\ Send(i, "Replay") /\ Hear(i)
  /\ UNCHANGED <<keyOf, owner>>

ReplayDuplicate(i, eg) ==
  /\ eg \in Key /\ Taken(eg, i)
  /\ Send(i, "Replay") /\ Hear(i)
  /\ UNCHANGED <<keyOf, owner, empties>>

AdmitUnique(i, eg) ==
  /\ eg \in Key /\ ~Taken(eg, i)
  /\ Register(i, eg) /\ Forget(i)
  /\ Send(i, "Confirm") /\ Settle(i)

HandleReady(i, eg) ==
  \/ AdmitExempt(i, eg) \/ RetryEmpty(i, eg) \/ ReplayEmpty(i, eg)
  \/ ReplayDuplicate(i, eg) \/ AdmitUnique(i, eg)

TakeReady ==
  /\ at = "select" /\ events # <<>> /\ Head(events).kind = "Ready"
  /\ events' = Tail(events)
  /\ HandleReady(Head(events).inst, Head(events).egress)
  /\ ToSelect
  /\ UNCHANGED <<pc, face, pending, replaying, out, ctxDone, memberVars, limitVars,
                 userVars, portVars>>

(* evLost, evDrained, evReplayed, evDisabled *)
TakeLeft ==
  /\ at = "select" /\ events # <<>>
  /\ Head(events).kind \in {"Lost", "Drained", "Replayed", "Disabled"}
  /\ events' = Tail(events)
  /\ ReleaseKey(Head(events).inst) /\ Settle(Head(events).inst)
  /\ ToAlign
  /\ UNCHANGED <<pc, face, queues, replaying, out, ctxDone, empties, memberVars,
                 limitVars, userVars, portVars>>

(* Faulty variant: the count of empty probes stays. *)
TakeStoppedKeepingCount ==
  /\ at = "select" /\ events # <<>> /\ Head(events).kind = "Stopped"
  /\ events' = Tail(events)
  /\ LET i == Head(events).inst IN
       /\ members' = members \ {i}
       /\ ReleaseKey(i) /\ Settle(i)
       /\ IF portOf[i] = NoPort THEN UNCHANGED portVars ELSE Release(portOf[i])
       /\ portOf' = [portOf EXCEPT ![i] = NoPort]
  /\ ToAlign
  /\ UNCHANGED <<pc, face, queues, replaying, out, ctxDone, empties, nextSeq, limitVars,
                 userVars>>

(* removeInstance *)
TakeStopped ==
  /\ at = "select" /\ events # <<>> /\ Head(events).kind = "Stopped"
  /\ events' = Tail(events)
  /\ LET i == Head(events).inst IN
       /\ members' = members \ {i}
       /\ ReleaseKey(i) /\ Forget(i) /\ Settle(i)
       /\ IF portOf[i] = NoPort THEN UNCHANGED portVars ELSE Release(portOf[i])
       /\ portOf' = [portOf EXCEPT ![i] = NoPort]
  /\ ToAlign
  /\ UNCHANGED <<pc, face, queues, replaying, out, ctxDone, nextSeq, limitVars, userVars>>

-----------------------------------------------------------------------------
(* align: it reads the limits once, the statuses again and again *)

Align ==
  /\ at = "align"
  /\ IF Cardinality(members) > max
     THEN at' = "evict" /\ UNCHANGED <<lo, hi>>
     ELSE at' = "fill" /\ lo' = min /\ hi' = max
  /\ UNCHANGED <<controlVars, targets, registryVars, memberVars, min, max, minCall,
                 maxCall, wake, userVars, portVars>>

(* The limits that were read count no more. *)
LeaveFill == lo' = 0 /\ hi' = 0 /\ UNCHANGED <<min, max, minCall, maxCall, wake>>

FillDone ==
  /\ at = "fill" /\ Cardinality(Active) >= lo
  /\ ToSelect /\ LeaveFill
  /\ UNCHANGED <<controlVars, registryVars, memberVars, userVars, portVars>>

FillFull ==
  /\ at = "fill" /\ Cardinality(Active) < lo /\ Cardinality(members) >= hi
  /\ at' = "evict" /\ UNCHANGED targets /\ LeaveFill
  /\ UNCHANGED <<controlVars, registryVars, memberVars, userVars, portVars>>

Lacking == at = "fill" /\ Cardinality(Active) < lo /\ Cardinality(members) < hi

(* createInstance; the set Inst bounds how many a run can create. *)
FillCreate ==
  /\ Lacking /\ nextSeq \in Inst
  /\ Create(nextSeq)
  /\ \E off \in Offsets : Acquire(off) /\ portOf' = [portOf EXCEPT ![nextSeq] = off]
  /\ members' = members \cup {nextSeq}
  /\ nextSeq' = nextSeq + 1
  /\ UNCHANGED <<at, targets, registryVars, limitVars, userVars>>

FillFails ==
  /\ Lacking
  /\ \/ Exhausted
     \/ nextSeq \notin Inst /\ UNCHANGED portVars
  /\ ToSelect /\ LeaveFill
  /\ UNCHANGED <<controlVars, registryVars, memberVars, userVars>>

(* EvictOldest: Disabled before Draining before Normal, then by age. *)
Priority(s) == CASE s = "Disabled" -> 0 [] s = "Draining" -> 1 [] OTHER -> 2
Evictable == {i \in members : status[i] # "Probing"}
IsVictim(v) ==
  /\ Evictor = "Oldest" /\ v \in Evictable
  /\ \A i \in Evictable \ {v} :
       \/ Priority(status[v]) < Priority(status[i])
       \/ Priority(status[v]) = Priority(status[i]) /\ v < i

(* Faulty variant: the victim leaves the pool before it has stopped. *)
EvictOnceRemoving ==
  /\ at = "evict"
  /\ LET victims == {v \in members : IsVictim(v)} IN
       /\ SendAll(victims, "Stop")
       /\ members' = members \ victims
       /\ keyOf' = [i \in Inst |-> IF i \in victims THEN Undecided ELSE keyOf[i]]
       /\ owner' = [k \in Key |-> IF owner[k] \in victims THEN Nobody ELSE owner[k]]
       /\ empties' = [i \in Inst |-> IF i \in victims THEN 0 ELSE empties[i]]
       /\ UNCHANGED unheard
  /\ ToSelect
  /\ UNCHANGED <<pc, face, pending, replaying, out, events, ctxDone, portOf, nextSeq,
                 limitVars, userVars, portVars>>

EvictOnce ==
  /\ at = "evict"
  /\ SendAll({v \in members : IsVictim(v)}, "Stop")
  /\ ToSelect
  /\ UNCHANGED <<pc, face, pending, replaying, out, events, ctxDone, registryVars,
                 memberVars, limitVars, userVars, portVars>>

-----------------------------------------------------------------------------
(* The tickers: healthCheck, reconfirmProbing, egressCheck *)

HealthTick ==
  /\ at = "select"
  /\ at' = "health" /\ targets' = NormalMembers
  /\ UNCHANGED <<controlVars, registryVars, memberVars, limitVars, userVars, portVars>>

(* Every check has answered; those that failed are drained. *)
HealthResults ==
  /\ at = "health"
  /\ \E failed \in SUBSET targets :
       /\ failed # {} => HealthChecks
       /\ IF failed = {} THEN UNCHANGED troubles ELSE Trouble
       /\ SendAll(failed, "Drain")
  /\ at' = "reconfirm" /\ targets' = {}
  /\ UNCHANGED <<pc, face, pending, replaying, out, events, ctxDone, registryVars,
                 memberVars, limitVars, requests, closed, calling, portVars>>

(* Faulty variant: only the instances without an entry. *)
UnconfirmedUndecided ==
  {i \in members : keyOf[i] = Undecided /\ status[i] = "Probing" /\ awaitConfirm[i]}

Unconfirmed ==
  {i \in members : keyOf[i] # Undecided /\ status[i] = "Probing" /\ awaitConfirm[i]}

(* Faulty variant: the health tick does not align. *)
ReconfirmNoAlign ==
  /\ at = "reconfirm"
  /\ SendAll(Unconfirmed, "Confirm")
  /\ ToSelect
  /\ UNCHANGED <<pc, face, pending, replaying, out, events, ctxDone, registryVars,
                 memberVars, limitVars, userVars, portVars>>

Reconfirm ==
  /\ at = "reconfirm"
  /\ SendAll(Unconfirmed, "Confirm")
  /\ ToAlign
  /\ UNCHANGED <<pc, face, pending, replaying, out, events, ctxDone, registryVars,
                 memberVars, limitVars, userVars, portVars>>

(* A probe that panics gives no result. *)
EgressTick ==
  /\ at = "select" /\ Patrols /\ Trouble
  /\ at' = "patrol" /\ targets' \in SUBSET NormalMembers
  /\ UNCHANGED <<controlVars, registryVars, memberVars, limitVars, requests, closed,
                 calling, portVars>>

(* applyEgress, when the result takes the instance out of the registry or
   leaves the registry as it is. *)
PatrolDrains(i, eg) ==
  \/ eg = Zero /\ Send(i, "Drain")
  \/ /\ eg \in Key /\ keyOf[i] # eg /\ Taken(eg, i)
     /\ LET victim == IF owner[eg] \in members /\ owner[eg] > i THEN owner[eg] ELSE i
        IN Send(victim, "Drain")

ApplyEgress(i, eg) ==
  /\ egressVal' = [egressVal EXCEPT ![i] = IF eg = Zero THEN @ ELSE eg]
  /\ \/ PatrolDrains(i, eg) /\ UNCHANGED <<keyOf, owner>>
     \/ eg = Unkeyed /\ ReleaseKey(i) /\ UNCHANGED cmds
     \/ eg \in Key /\ keyOf[i] = eg /\ UNCHANGED <<keyOf, owner, cmds>>
     \/ eg \in Key /\ keyOf[i] # eg /\ ~Taken(eg, i) /\ Register(i, eg) /\ UNCHANGED cmds

PatrolResult ==
  /\ at = "patrol"
  /\ \E i \in targets, eg \in Egress : ApplyEgress(i, eg) /\ targets' = targets \ {i}
  /\ UNCHANGED <<at, pc, status, awaitConfirm, pending, replaying, out, events, ctxDone,
                 empties, unheard, memberVars, limitVars, userVars, portVars>>

PatrolDone ==
  /\ at = "patrol" /\ targets = {}
  /\ ToAlign
  /\ UNCHANGED <<controlVars, registryVars, memberVars, limitVars, userVars, portVars>>

WakeUp ==
  /\ at = "select" /\ wake
  /\ wake' = FALSE
  /\ ToAlign
  /\ UNCHANGED <<controlVars, registryVars, memberVars, min, max, lo, hi, minCall,
                 maxCall, userVars, portVars>>

CoordinatorExit ==
  /\ at = "select" /\ ctxDone
  /\ at' = "exit" /\ UNCHANGED targets
  /\ UNCHANGED <<controlVars, registryVars, memberVars, limitVars, userVars, portVars>>

(* The DedupeKeyer (in handleReady and applyEgress) and the Evictor are
   supplied by the user; if one panics the coordinator ends and the pool refuses
   dials. *)
CoordinatorPanic ==
  /\ Trouble
  /\ \/ at = "evict" /\ UNCHANGED events
     \/ at = "patrol" /\ targets # {} /\ UNCHANGED events
     \/ /\ at = "select" /\ events # <<>> /\ Head(events).kind = "Ready"
        /\ events' = Tail(events)
  /\ at' = "exit" /\ UNCHANGED targets
  /\ closed' = TRUE
  /\ UNCHANGED <<pc, face, queues, replaying, out, ctxDone, registryVars, memberVars,
                 limitVars, requests, calling, portVars>>

Coordinator ==
  \/ TakeReady \/ TakeLeft \/ TakeStopped
  \/ Align \/ FillDone \/ FillFull \/ FillCreate \/ FillFails \/ EvictOnce
  \/ HealthTick \/ HealthResults \/ Reconfirm
  \/ EgressTick \/ PatrolResult \/ PatrolDone
  \/ WakeUp \/ CoordinatorExit

-----------------------------------------------------------------------------
(* The users *)

(* setStatus reads the status, and sends the command later. *)
RequestStatus ==
  /\ Trouble
  /\ \E i \in members, c \in RequestCmd :
       /\ status[i] \in CASE c = "Drain" -> {"Probing", "Normal"}
                          [] c = "Disable" -> Status \ {"Disabled"}
                          [] c = "Enable" -> {"Disabled"}
       /\ requests' = requests \cup {[inst |-> i, cmd |-> c]}
  /\ UNCHANGED <<controlVars, at, targets, registryVars, memberVars, limitVars, closed,
                 calling, portVars>>

SendRequest ==
  /\ \E r \in requests : Send(r.inst, r.cmd) /\ requests' = requests \ {r}
  /\ UNCHANGED <<pc, face, pending, replaying, out, events, ctxDone, at, targets,
                 registryVars, memberVars, limitVars, closed, troubles, calling,
                 portVars>>

(* setMin and setMax test against the other limit, and store later. *)
TestMin ==
  /\ calling /\ minCall = 0
  /\ \E n \in MinCalls : n <= max /\ minCall' = n
  /\ UNCHANGED <<controlVars, at, targets, registryVars, memberVars, min, max, lo, hi,
                 maxCall, wake, userVars, portVars>>

TestMax ==
  /\ calling /\ maxCall = 0
  /\ \E n \in MaxCalls : n >= min /\ maxCall' = n
  /\ UNCHANGED <<controlVars, at, targets, registryVars, memberVars, min, max, lo, hi,
                 minCall, wake, userVars, portVars>>

StoreMin ==
  /\ minCall # 0
  /\ min' = minCall /\ minCall' = 0 /\ wake' = TRUE
  /\ UNCHANGED <<controlVars, at, targets, registryVars, memberVars, max, lo, hi,
                 maxCall, userVars, portVars>>

StoreMax ==
  /\ maxCall # 0
  /\ max' = maxCall /\ maxCall' = 0 /\ wake' = TRUE
  /\ UNCHANGED <<controlVars, at, targets, registryVars, memberVars, min, lo, hi,
                 minCall, userVars, portVars>>

(* Close; it returns when the coordinator and the members have exited. *)
Close ==
  /\ ~ctxDone
  /\ ctxDone' = TRUE /\ closed' = TRUE
  /\ UNCHANGED <<pc, face, queues, replaying, out, events, at, targets, registryVars,
                 memberVars, limitVars, requests, troubles, calling, portVars>>

CloseReturned == ctxDone /\ at = "exit" /\ \A i \in members : pc[i] = "done"

Users == RequestStatus \/ SendRequest \/ TestMin \/ TestMax \/ StoreMin \/ StoreMax \/ Close

-----------------------------------------------------------------------------
(* The instances.  A tunnel is lost only where WarpInstance allows it (its
   invariants SignalsMatchClient and ClientMatchesPhase). *)

Handle(i) ==
  \/ Confirm(i) \/ Reprobe(i) \/ Replay(i) \/ Drain(i) \/ Disable(i) \/ Enable(i)
  \/ Stop(i) \/ Ignore(i)

Wait(i) ==
  \/ Park(i) \/ StopWait(i) \/ Cancel(i)
  \/ ReprobeExpire(i) \/ DrainExpire(i) \/ DrainDisable(i)

Proceed(i) ==
  BuildDone(i) \/ Probe(i) \/ Emit(i) \/ Finalize(i) \/ Report(i)

Fault(i) ==
  \/ HandleLost(i) /\ status[i] # "Disabled"
  \/ Panic(i)

Manage(i) ==
  \/ (Handle(i) \/ Wait(i) \/ Proceed(i)) /\ UNCHANGED poolVars
  \/ /\ Fault(i) /\ Trouble
     /\ UNCHANGED <<at, targets, registryVars, memberVars, limitVars, requests, closed,
                    calling, portVars>>

Terminated == CloseReturned /\ UNCHANGED vars

Next ==
  \/ Coordinator \/ CoordinatorPanic
  \/ Users
  \/ \E i \in Inst : Manage(i)
  \/ Terminated

Spec == Init /\ [][Next]_vars

(* Fairness, in three strengths; each property is checked under the weakest it
   holds for.  Nothing is assumed of users, losses, failed checks and panics. *)

(* The coordinator runs, and its health ticker, one of the ready cases of its
   select again and again, is served again and again. *)
TickingSpec == Spec /\ WF_vars(Coordinator) /\ SF_vars(HealthTick)

(* Besides, its select serves the event channel again and again, and the
   goroutines of the instances run.  BuildDone stands for ensureClient and its
   retries: starting a client is assumed to succeed in the end. *)
RunningSpec ==
  /\ TickingSpec
  /\ SF_vars(TakeReady \/ TakeLeft \/ TakeStopped)
  /\ \A i \in Inst : WF_vars((Handle(i) \/ Wait(i) \/ Proceed(i)) /\ UNCHANGED poolVars)

(* Enough for the end of the pool: the coordinator's select does not starve the
   cancellation, which is ready from then on. *)
EndingSpec == RunningSpec /\ SF_vars(CoordinatorExit)

(* Besides, no select starves a case that is ready again and again: a
   cancellation, the end of a wait, room in the event channel. *)
FairSpec ==
  /\ RunningSpec
  /\ SF_vars(CoordinatorExit)
  /\ \A i \in Inst :
       /\ SF_vars(BuildDone(i) /\ UNCHANGED poolVars)
       /\ SF_vars(Emit(i) /\ UNCHANGED poolVars)
       /\ SF_vars((ReprobeExpire(i) \/ DrainExpire(i)) /\ UNCHANGED poolVars)
       /\ SF_vars(Cancel(i) /\ pc[i] = "loop" /\ UNCHANGED poolVars)

-----------------------------------------------------------------------------
(* Safety *)

(* usedKeys and keysByInst are inverse: a key has the owner that holds it and
   no other, through every order of admission, release, patrol and removal
   (pool.go:174-216 and :381-413). *)
RegistryConsistent ==
  \A i \in Inst, k \in Key : keyOf[i] = k <=> owner[k] = i

(* The two maps together are one registry in which an instance has one key at
   most and nobody loses a key to another: admission, release, the patrol's
   change of key and removal are its claims and departures, although each of
   them looks up the key to free in the other map (pool.go:195-216 and
   :399-413). *)
KeyBook == INSTANCE KeyRegistry WITH holder <- owner
ImplementsKeyRegistry == KeyBook!Spec

(* No instance is forgotten while it waits to be judged.  One that is Probing
   and has nothing left to do by itself has a command in line, or a report the
   coordinator has yet to read, or an entry by which reconfirmProbing will send
   Confirm again: whatever the admissions, releases, patrols and losses in
   between, and also when the marker of an exempt instance is taken by a patrol
   (pool.go:392).  The exception is the one the code has: a Reprobe or Replay
   dropped by a full channel is not sent again (pool.go:188, :192, :196). *)
Idle(i) == status[i] = "Probing" /\ pc[i] = "loop" /\ InLine(i) = <<>>
Reported(i) == \E n \in DOMAIN events : events[n].inst = i /\ events[n].kind = "Ready"

ProbingIsAttended ==
  \A i \in members :
    Idle(i) /\ ~ctxDone /\ at # "exit" => Reported(i) \/ i \in Unconfirmed \cup unheard

(* Only members hold keys, probe counts and ports, and two members never
   listen on the same port: removeInstance leaves nothing behind
   (pool.go:219-228). *)
NothingLeftBehind ==
  /\ \A i \in Inst \ members :
       keyOf[i] = Undecided /\ empties[i] = 0 /\ portOf[i] = NoPort
  /\ used = {portOf[i] : i \in members}
  /\ \A i, j \in members : i # j => portOf[i] # portOf[j]

(* An instance is removed, and its port given to another, only after its
   goroutine has closed the client that listened there (evStopped is the last
   thing an instance reports, instance.go:208-213). *)
RemovedIsStopped == \A i \in Inst \ members : pc[i] \in {"none", "done"}

(* As long as nothing has gone wrong, no two Normal instances share a key:
   whoever is judged later is replayed (pool.go:195-198). *)
Unique ==
  \A i, j \in NormalMembers :
    i # j /\ egressVal[i] \in Key => egressVal[i] # egressVal[j]

UniqueUndisturbed == troubles = 0 => Unique

-----------------------------------------------------------------------------
(* Liveness *)

(* Whenever fewer instances are active than SetMin asks for, the pool gets
   back to that number, unless it is full, has no port left or ends (align is
   run by every event that takes an instance out, by the ticks and by wake). *)
Short == Cardinality(Active) < min
CannotGrow ==
  \/ Cardinality(members) >= max \/ used = Offsets \/ nextSeq \notin Inst
  \/ at = "exit" \/ ctxDone

SelfHeals == Short ~> ~Short \/ CannotGrow

(* Close returns: the coordinator ends, and every member's goroutine with it,
   also after the coordinator has panicked (pool.go:532-544). *)
CloseReturns == ctxDone ~> CloseReturned

(* An instance that was admitted does not stay Probing: a Confirm that was
   dropped by a full channel is sent again (pool.go:371-379). *)
AdmittedIsConfirmed ==
  \A i \in Inst :
    keyOf[i] # Undecided ~>
      \/ keyOf[i] = Undecided \/ status[i] \in {"Normal", "Disabled"}
      \/ pc[i] = "done" \/ at = "exit" \/ ctxDone

(* An instance that has ended is removed, whatever order its end, the events
   of others and the checks of the coordinator come in (feat/pool.md:31). *)
StoppedIsRemoved ==
  \A i \in Inst : i \in members /\ pc[i] = "done" /\ ~ctxDone ~>
    i \notin members \/ at = "exit" \/ ctxDone
=============================================================================
