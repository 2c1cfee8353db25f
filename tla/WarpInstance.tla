----------------------------- MODULE WarpInstance -----------------------------
(***************************************************************************)
(* Instances with what they own: the amz client and the goroutine in its   *)
(* Run, the signals of lost tunnels (runExit), the identity in the state   *)
(* file, the endpoint, a slot of the semaphore that the pool shares among  *)
(* its instances, and the registered connections.                          *)
(*                                                                         *)
(* Everything outside the instances is an environment that may do anything *)
(* the pool and the dialers can do: send any command at any time, take     *)
(* events, cancel the context, dial through a Normal instance.             *)
(*                                                                         *)
(* The generation counter gen is modelled by what it decides: closeClient  *)
(* and watchRun increment it, so a signal is current (TRUE in runExit) if  *)
(* its client has not been closed since, and stale (FALSE) otherwise.      *)
(***************************************************************************)
EXTENDS InstanceControl, FiniteSets

CONSTANTS
  Commands,           \* the commands the environment sends
  ReplayConcurrency,  \* capacity of replaySem
  NumEndpoints,       \* length of the endpoint list
  HasCredSource,      \* a CredentialSource is configured
  DiskFaults,         \* removing a state file may fail
  Conn,               \* the connections dialers may open
  RunExitCap,         \* runExitCap
  MaxOrphans          \* bound on Run goroutines of closed clients

ASSUME InstanceAssumption ==
  /\ Commands \subseteq CmdKind
  /\ ReplayConcurrency \in Nat \ {0}
  /\ NumEndpoints \in Nat \ {0}
  /\ HasCredSource \in BOOLEAN
  /\ DiskFaults \in BOOLEAN
  /\ RunExitCap \in Nat \ {0}
  /\ MaxOrphans \in Nat \ {0}

VARIABLES
  step,       \* [Inst -> Steps], where ensureClient is
  keepState,  \* [Inst -> BOOLEAN], its variable of that name
  delay,      \* [Inst -> BOOLEAN], its variable delay is positive
  tunnel,     \* [Inst -> Tunnels], the client and its Run
  orphans,    \* [Inst -> Nat], Runs of closed clients that have not signalled
  runExit,    \* [Inst -> Seq(BOOLEAN)], the lost signals: is it current?
  stateFile,  \* [Inst -> BOOLEAN], the state file (the identity) exists
  epIdx,      \* [Inst -> 0..NumEndpoints-1], index of the current endpoint
  sem,        \* the holders of replaySem
  dialing,    \* [Inst -> SUBSET Conn], dials that picked the instance
  conns       \* [Inst -> SUBSET Conn], the registered connections

buildVars == <<step, keepState, delay>>
clientVars == <<tunnel, orphans, runExit>>
identityVars == <<stateFile, epIdx>>
connVars == <<dialing, conns>>
ownVars == <<buildVars, clientVars, identityVars, sem, connVars>>
vars == <<controlVars, ownVars>>

(* The steps of one round of ensureClient. *)
Steps == {"close", "wait", "provision", "sem", "start"}

(* none: in.client is nil.  up: Run is running.  lost: Run has returned and
   its goroutine has not signalled yet.  down: it has. *)
Tunnels == {"none", "up", "lost", "down"}

TypeOK ==
  /\ ControlTypeOK
  /\ step \in [Inst -> Steps]
  /\ keepState \in [Inst -> BOOLEAN]
  /\ delay \in [Inst -> BOOLEAN]
  /\ tunnel \in [Inst -> Tunnels]
  /\ orphans \in [Inst -> 0..MaxOrphans]
  /\ runExit \in [Inst -> Seq(BOOLEAN)]
  /\ \A i \in Inst : Len(runExit[i]) <= RunExitCap
  /\ stateFile \in [Inst -> BOOLEAN]
  /\ epIdx \in [Inst -> 0..(NumEndpoints - 1)]
  /\ sem \subseteq Inst
  /\ dialing \in [Inst -> SUBSET Conn]
  /\ conns \in [Inst -> SUBSET Conn]

(* newInstance has just started the goroutines; state files may be left over
   from an earlier pool. *)
Init ==
  /\ ControlInit("build")
  /\ step = [i \in Inst |-> "close"]
  /\ keepState = [i \in Inst |-> TRUE]
  /\ delay = [i \in Inst |-> FALSE]
  /\ tunnel = [i \in Inst |-> "none"]
  /\ orphans = [i \in Inst |-> 0]
  /\ runExit = [i \in Inst |-> <<>>]
  /\ stateFile \in [Inst -> BOOLEAN]
  /\ epIdx \in [Inst -> 0..(NumEndpoints - 1)]
  /\ sem = {}
  /\ dialing = [i \in Inst |-> {}]
  /\ conns = [i \in Inst |-> {}]

-----------------------------------------------------------------------------
(* Building blocks *)

(* Faulty variant: closing the client leaves the generation as it is. *)
CloseClientSameGen(i) ==
  /\ tunnel' = [tunnel EXCEPT ![i] = "none"]
  /\ orphans' = [orphans EXCEPT ![i] = IF tunnel[i] \in {"up", "lost"} THEN @ + 1 ELSE @]
  /\ UNCHANGED runExit

(* closeClient: the generation moves on, so every queued signal and the one
   the Run of this client will send are stale. *)
CloseClient(i) ==
  /\ tunnel' = [tunnel EXCEPT ![i] = "none"]
  /\ orphans' = [orphans EXCEPT ![i] = IF tunnel[i] \in {"up", "lost"} THEN @ + 1 ELSE @]
  /\ runExit' = [runExit EXCEPT ![i] = [k \in 1..Len(@) |-> FALSE]]

(* removeState logs a failure and goes on. *)
RemoveState(i) ==
  \/ stateFile' = [stateFile EXCEPT ![i] = FALSE]
  \/ DiskFaults /\ UNCHANGED stateFile

NextEndpoint(i) == epIdx' = [epIdx EXCEPT ![i] = (@ + 1) % NumEndpoints]

(* Faulty variant: the signal is queued whatever the capacity. *)
SignalUnbounded(i, current) == runExit' = [runExit EXCEPT ![i] = Append(@, current)]

(* A non-blocking send on runExit. *)
Signal(i, current) ==
  runExit' = IF Len(runExit[i]) < RunExitCap
             THEN [runExit EXCEPT ![i] = Append(@, current)]
             ELSE runExit

(* ensureClient(keep, d), called with d > 0 iff wait. *)
CallEnsureClient(i, keep, wait) ==
  /\ keepState' = [keepState EXCEPT ![i] = keep]
  /\ delay' = [delay EXCEPT ![i] = wait]
  /\ step' = [step EXCEPT ![i] = "close"]

(* The next round after a failure gives up the identity and backs off. *)
Retry(i) == CallEnsureClient(i, FALSE, TRUE)

(* The variables of ensureClient are dead outside it. *)
LeaveEnsureClient(i) == CallEnsureClient(i, TRUE, FALSE)

StepTo(i, s) == step' = [step EXCEPT ![i] = s] /\ UNCHANGED <<keepState, delay>>

-----------------------------------------------------------------------------
(* ensureClient *)

(* Faulty variant: every round moves to the next endpoint. *)
BuildCloseRotating(i) ==
  /\ pc[i] = "build" /\ step[i] = "close"
  /\ CloseClient(i)
  /\ IF keepState[i] THEN UNCHANGED stateFile ELSE RemoveState(i)
  /\ NextEndpoint(i)
  /\ StepTo(i, IF delay[i] THEN "wait" ELSE "provision")
  /\ UNCHANGED <<controlVars, sem, connVars>>

BuildClose(i) ==
  /\ pc[i] = "build" /\ step[i] = "close"
  /\ CloseClient(i)
  /\ IF keepState[i] THEN UNCHANGED identityVars ELSE RemoveState(i) /\ NextEndpoint(i)
  /\ StepTo(i, IF delay[i] THEN "wait" ELSE "provision")
  /\ UNCHANGED <<controlVars, sem, connVars>>

BackoffExpire(i) ==
  /\ pc[i] = "build" /\ step[i] = "wait"
  /\ StepTo(i, "provision")
  /\ UNCHANGED <<controlVars, clientVars, identityVars, sem, connVars>>

(* provisionCredential: it asks the source only when there is no state file;
   without credential the registration is anonymous. *)
Provision(i) ==
  /\ pc[i] = "build" /\ step[i] = "provision"
  /\ \/ StepTo(i, "sem") /\ UNCHANGED stateFile
     \/ /\ HasCredSource /\ ~stateFile[i]
        /\ stateFile' = [stateFile EXCEPT ![i] = TRUE]
        /\ StepTo(i, "sem")
     \/ /\ HasCredSource /\ ~stateFile[i]
        /\ Retry(i)
        /\ UNCHANGED stateFile
  /\ UNCHANGED <<controlVars, clientVars, epIdx, sem, connVars>>

AcquireSem(i) ==
  /\ pc[i] = "build" /\ step[i] = "sem"
  /\ Cardinality(sem) < ReplayConcurrency
  /\ sem' = sem \cup {i}
  /\ StepTo(i, "start")
  /\ UNCHANGED <<controlVars, clientVars, identityVars, connVars>>

(* Faulty variant: a failed start keeps the semaphore for the retry. *)
StartFailHolding(i) ==
  /\ pc[i] = "build" /\ step[i] = "start"
  /\ Retry(i)
  /\ \E written \in BOOLEAN : stateFile' = [stateFile EXCEPT ![i] = @ \/ written]
  /\ UNCHANGED <<controlVars, clientVars, epIdx, sem, connVars>>

(* NewClient or Start fails; the registration may have been written. *)
StartFail(i) ==
  /\ pc[i] = "build" /\ step[i] = "start"
  /\ sem' = sem \ {i}
  /\ Retry(i)
  /\ \E written \in BOOLEAN : stateFile' = [stateFile EXCEPT ![i] = @ \/ written]
  /\ UNCHANGED <<controlVars, clientVars, epIdx, connVars>>

(* The client has started: its registration is in the state file, and
   watchRun runs it under a new generation. *)
StartOk(i) ==
  /\ BuildDone(i) /\ step[i] = "start"
  /\ sem' = sem \ {i}
  /\ orphans[i] < MaxOrphans
  /\ tunnel' = [tunnel EXCEPT ![i] = "up"]
  /\ stateFile' = [stateFile EXCEPT ![i] = TRUE]
  /\ LeaveEnsureClient(i)
  /\ UNCHANGED <<orphans, runExit, epIdx, connVars>>

-----------------------------------------------------------------------------
(* The client's own goroutine, and the signals of lost tunnels *)

RunReturns(i) ==
  /\ tunnel[i] = "up"
  /\ tunnel' = [tunnel EXCEPT ![i] = "lost"]
  /\ UNCHANGED <<controlVars, buildVars, orphans, runExit, identityVars, sem, connVars>>

RunSignals(i) ==
  /\ tunnel[i] = "lost"
  /\ tunnel' = [tunnel EXCEPT ![i] = "down"]
  /\ Signal(i, TRUE)
  /\ UNCHANGED <<controlVars, buildVars, orphans, identityVars, sem, connVars>>

OrphanSignals(i) ==
  /\ orphans[i] > 0
  /\ orphans' = [orphans EXCEPT ![i] = @ - 1]
  /\ Signal(i, FALSE)
  /\ UNCHANGED <<controlVars, buildVars, tunnel, identityVars, sem, connVars>>

TakeSignal(i, current) ==
  /\ runExit[i] # <<>> /\ Head(runExit[i]) = current
  /\ runExit' = [runExit EXCEPT ![i] = Tail(@)]

LoseTunnel(i) ==
  /\ HandleLost(i)
  /\ TakeSignal(i, TRUE)
  /\ UNCHANGED <<buildVars, tunnel, orphans, identityVars, sem, connVars>>

DiscardSignal(i) ==
  /\ pc[i] = "loop" /\ pending[i] = <<>>
  /\ TakeSignal(i, FALSE)
  /\ UNCHANGED <<controlVars, buildVars, tunnel, orphans, identityVars, sem, connVars>>

-----------------------------------------------------------------------------
(* The actions of InstanceControl with what they do to the instance *)

(* Actions that touch nothing the instance owns. *)
ControlOnly(i) ==
  /\ \/ Confirm(i) \/ Reprobe(i) \/ Drain(i) \/ Stop(i) \/ Ignore(i)
     \/ Probe(i) \/ ReprobeExpire(i) \/ Report(i)
     \/ Park(i) /\ (pc[i] = "build" => step[i] = "wait")
  /\ UNCHANGED ownVars

ReplayIdentity(i) ==
  /\ Replay(i)
  /\ CallEnsureClient(i, FALSE, TRUE)
  /\ UNCHANGED <<clientVars, identityVars, sem, connVars>>

EnableClient(i) ==
  /\ Enable(i)
  /\ CallEnsureClient(i, TRUE, FALSE)
  /\ UNCHANGED <<clientVars, identityVars, sem, connVars>>

(* Faulty variant: a Disable that interrupts a drain leaves the client. *)
DisableClientInLoopOnly(i) ==
  /\ \/ Disable(i) /\ CloseClient(i)
     \/ DrainDisable(i) /\ UNCHANGED clientVars
  /\ UNCHANGED <<buildVars, identityVars, sem, connVars>>

(* Faulty variant: Disable gives up the identity like a replay. *)
DisableClientForgetting(i) ==
  /\ Disable(i) \/ DrainDisable(i)
  /\ CloseClient(i)
  /\ RemoveState(i)
  /\ UNCHANGED <<buildVars, epIdx, sem, connVars>>

DisableClient(i) ==
  /\ Disable(i) \/ DrainDisable(i)
  /\ CloseClient(i)
  /\ UNCHANGED <<buildVars, identityVars, sem, connVars>>

(* Faulty variant: the drain expires without closing the connections. *)
CutConnsNever(i) ==
  /\ DrainExpire(i)
  /\ UNCHANGED <<ownVars>>

CutConns(i) ==
  /\ DrainExpire(i)
  /\ conns' = [conns EXCEPT ![i] = {}]
  /\ UNCHANGED <<buildVars, clientVars, identityVars, sem, dialing>>

(* After Lost and Drained, emit is followed by ensureClient: the first keeps
   the identity and does not wait, the second does the opposite. *)
EmitAndGoOn(i) ==
  /\ Emit(i)
  /\ CASE out[i].kind = "Lost" -> CallEnsureClient(i, TRUE, FALSE)
       [] out[i].kind = "Drained" -> CallEnsureClient(i, FALSE, TRUE)
       [] OTHER -> UNCHANGED buildVars
  /\ UNCHANGED <<clientVars, identityVars, sem, connVars>>

StopInWait(i) ==
  /\ StopWait(i)
  /\ pc[i] = "build" => step[i] = "wait"
  /\ LeaveEnsureClient(i)
  /\ UNCHANGED <<clientVars, identityVars, sem, connVars>>

CancelInWait(i) ==
  /\ Cancel(i)
  /\ pc[i] = "build" => step[i] \in {"wait", "sem"}
  /\ LeaveEnsureClient(i)
  /\ UNCHANGED <<clientVars, identityVars, sem, connVars>>

(* The prober, the factory, and the credential source where it is asked. *)
CallsUserCode(i) ==
  \/ pc[i] = "probe" \/ step[i] = "start"
  \/ step[i] = "provision" /\ HasCredSource /\ ~stateFile[i]

(* Faulty variant: the semaphore is not released by a deferred call. *)
PanicOutsideHolding(i) ==
  /\ Panic(i)
  /\ CallsUserCode(i)
  /\ LeaveEnsureClient(i)
  /\ UNCHANGED <<clientVars, identityVars, sem, connVars>>

(* startUnderSem releases the semaphore in a deferred call. *)
PanicOutside(i) ==
  /\ Panic(i)
  /\ CallsUserCode(i)
  /\ sem' = sem \ {i}
  /\ LeaveEnsureClient(i)
  /\ UNCHANGED <<clientVars, identityVars, connVars>>

ReleaseAll(i) ==
  /\ Finalize(i)
  /\ CloseClient(i)
  /\ conns' = [conns EXCEPT ![i] = {}]
  /\ RemoveState(i)
  /\ UNCHANGED <<buildVars, epIdx, sem, dialing>>

-----------------------------------------------------------------------------
(* The environment: the pool, the user and the dialers *)

SendCommand(i) ==
  /\ \E c \in Commands : Accepts(i) /\ Send(i, c)
  /\ UNCHANGED <<pc, face, pending, replaying, out, events, ctxDone, ownVars>>

TakeEvent ==
  /\ events # <<>>
  /\ events' = Tail(events)
  /\ UNCHANGED <<pc, face, queues, replaying, out, ctxDone, ownVars>>

CloseContext ==
  /\ ~ctxDone
  /\ ctxDone' = TRUE
  /\ UNCHANGED <<pc, face, queues, replaying, out, events, ownVars>>

Unused(c) == \A i \in Inst : c \notin dialing[i] \cup conns[i]

(* dialView: the candidate was Normal when it was picked and its proxy takes
   the connection; trackConn is called later.  A dial that finds no proxy
   fails and changes nothing here. *)
DialPick(i) ==
  /\ status[i] = "Normal" /\ tunnel[i] # "none"
  /\ \E c \in Conn : Unused(c) /\ dialing' = [dialing EXCEPT ![i] = @ \cup {c}]
  /\ UNCHANGED <<controlVars, buildVars, clientVars, identityVars, sem, conns>>

DialEnd(i) ==
  /\ \E c \in dialing[i] :
       /\ dialing' = [dialing EXCEPT ![i] = @ \ {c}]
       /\ \/ conns' = [conns EXCEPT ![i] = @ \cup {c}]
          \/ UNCHANGED conns
  /\ UNCHANGED <<controlVars, buildVars, clientVars, identityVars, sem>>

(* instanceConn.Close *)
CloseConn(i) ==
  /\ \E c \in conns[i] : conns' = [conns EXCEPT ![i] = @ \ {c}]
  /\ UNCHANGED <<controlVars, buildVars, clientVars, identityVars, sem, dialing>>

-----------------------------------------------------------------------------
Manage(i) ==
  \/ ControlOnly(i) \/ ReplayIdentity(i) \/ EnableClient(i) \/ DisableClient(i)
  \/ CutConns(i) \/ EmitAndGoOn(i) \/ StopInWait(i) \/ CancelInWait(i)
  \/ PanicOutside(i) \/ ReleaseAll(i)
  \/ BuildClose(i) \/ BackoffExpire(i) \/ Provision(i) \/ AcquireSem(i)
  \/ StartFail(i) \/ StartOk(i)
  \/ LoseTunnel(i) \/ DiscardSignal(i)

RunGoroutine(i) == RunReturns(i) \/ RunSignals(i) \/ OrphanSignals(i)

Environment(i) == SendCommand(i) \/ DialPick(i) \/ DialEnd(i) \/ CloseConn(i)

(* Every goroutine has exited: the pool that owns the instances is gone. *)
Terminated ==
  /\ \A i \in Inst : pc[i] = "done" /\ orphans[i] = 0
  /\ UNCHANGED vars

Next ==
  \/ \E i \in Inst : Manage(i) \/ RunGoroutine(i) \/ Environment(i)
  \/ TakeEvent
  \/ CloseContext
  \/ Terminated

Spec == Init /\ [][Next]_vars

-----------------------------------------------------------------------------
(* Fairness.  A goroutine that can run runs (weak fairness of its steps).
   Where a select has several ready cases Go picks one at random, so a case
   that is ready again and again is picked (strong fairness of Cancel).
   Nothing is assumed of the environment: commands, events, losses, panics. *)
Fairness ==
  \A i \in Inst :
    /\ WF_vars(Manage(i))
    /\ SF_vars(CancelInWait(i) /\ pc[i] \in {"build", "drain"})
    /\ SF_vars(CancelInWait(i) /\ pc[i] = "loop")
    /\ SF_vars(CancelInWait(i) /\ pc[i] = "reprobe" /\ pending[i] = <<>>)
    /\ SF_vars(AcquireSem(i))
    /\ WF_vars(RunSignals(i))
    /\ WF_vars(OrphanSignals(i))

FairSpec == Spec /\ Fairness

-----------------------------------------------------------------------------
(* Safety *)

(* At most one client per instance, and it exists exactly when the instance
   is in service: ensureClient closes the old client before it starts another
   (instance.go:419), a Disabled instance has none whatever path disabled it
   (:351, :406), and a stopped one has none (:613). *)
ClientMatchesPhase ==
  \A i \in Inst :
    /\ step[i] # "close" => tunnel[i] = "none"
    /\ pc[i] \in {"probe", "reprobe", "drain"} => tunnel[i] # "none"
    /\ pc[i] \in {"loop", "emit"} => (tunnel[i] = "none" <=> status[i] = "Disabled")
    /\ Stopped(i) => tunnel[i] = "none"

(* A signal that counts as current is about the client the instance has, and
   that client is down: the late return of an old Run never restarts a healthy
   client (the comparison of generations, instance.go:310 and :515). *)
SignalsMatchClient ==
  \A i \in Inst :
    (\E k \in DOMAIN runExit[i] : runExit[i][k]) => tunnel[i] = "down"

(* An instance that serves or is disabled has its identity on disk, so the
   repair of a lost tunnel and Enable can reuse it (instance.go:372, :357):
   only a replay, a failed start or the end gives it up. *)
IdentityKept ==
  \A i \in Inst :
    pc[i] \in {"probe", "emit", "loop", "reprobe", "drain"} => stateFile[i]

(* The slots of the replay semaphore are held by the instances that are
   starting a client and by nobody else, on the failure, panic and stop paths
   too (instance.go:472-475), and never by more than ReplayConcurrency. *)
SemHolders ==
  /\ sem = {i \in Inst : step[i] = "start"}
  /\ Cardinality(sem) <= ReplayConcurrency

(* Between two commands awaitConfirm says exactly whether the status is
   Probing or Normal, so reconfirmProbing (pool.go:375) repairs a dropped
   Confirm and never confirms twice. *)
AwaitTracksProbing ==
  \A i \in Inst : pc[i] = "loop" =>
    /\ status[i] = "Probing" => awaitConfirm[i]
    /\ status[i] = "Normal" => ~awaitConfirm[i]

(* Only Enable brings a Disabled instance back: no signal of the tunnel that
   was closed, no expired drain and no parked command does. *)
DisabledUntilEnabled ==
  [][\A i \in Inst :
       status[i] = "Disabled" /\ status'[i] # "Disabled" =>
         TakesNext(i, "Enable")]_vars

(* An identity stays on the endpoint it was registered at: the index moves
   only when the state file is gone (instance.go:540 says the endpoint advances
   with a change of identity only).  A state file that cannot be removed breaks
   this: the run that checks it has no DiskFaults. *)
EndpointFollowsIdentity ==
  [][\A i \in Inst : stateFile[i] /\ stateFile'[i] => epIdx'[i] = epIdx[i]]_vars

(* A drain that expires and the end of the instance cut every registered
   connection (instance.go:390 and :614). *)
ConnsAreCut ==
  [][\A i \in Inst :
       \/ status[i] = "Draining" /\ status'[i] = "Probing"
       \/ ~Stopped(i) /\ Stopped(i)'
       => conns'[i] = {}]_vars

(* Every instance keeps the promises of InstanceLifecycle, through all its
   waits, interruptions and rebuilds (the state machine that instance.go:124
   and the handlers below it write piece by piece). *)
Lifecycle ==
  INSTANCE InstanceLifecycle WITH
    States <- Status,
    client <- [i \in Inst |-> tunnel[i] # "none"],
    over <- [i \in Inst |-> Stopped(i)]

ImplementsLifecycle == Lifecycle!Spec

-----------------------------------------------------------------------------
(* Liveness *)

(* After the pool's context is cancelled every goroutine of every instance
   exits, whatever it was waiting for: a backoff, a drain, the semaphore, a
   full event channel that nobody reads (Close waits for them, pool.go:540). *)
CloseTerminates ==
  ctxDone ~> \A i \in Inst : pc[i] = "done" /\ orphans[i] = 0

(* An instance that waits for the replay semaphore gets it or is cancelled:
   whoever holds it gives it back, also when the user's factory panics inside
   Start (the deferred releaseSem, instance.go:475). *)
SemIsGranted == \A i \in Inst : step[i] = "sem" ~> step[i] # "sem"

-----------------------------------------------------------------------------
(* What the documentation says and the code does not do.  Each of the
   following is checked by a run that finds it violated. *)

(* docs/warp-pool/feat/instance.md:47: in any state cmdStop leads to the end.
   handle(cmdReprobe) drops the false that waitBackoff returns for it. *)
StopEndsInstance ==
  [][\A i \in Inst :
       /\ pc[i] # "finalize" /\ cmds[i] # <<>> /\ Head(cmds[i]) = "Stop"
       /\ cmds'[i] = Tail(cmds[i])
       => pc'[i] = "finalize"]_vars

(* instance.go:74 and pool.go:478: a disabled instance leaves the uniqueness
   registry through evDisabled.  A Disable during a drain reports nothing. *)
DisabledIsAnnounced ==
  [][\A i \in Inst :
       status[i] # "Disabled" /\ status'[i] = "Disabled" =>
         pc'[i] = "emit" /\ out'[i].kind = "Disabled"]_vars

(* instance.go:20: the buffer of runExit leaves room for a new loss behind the
   stale signal of a closed client.  Two stale signals fill it. *)
LossIsSignalled ==
  \A i \in Inst : pc[i] = "loop" /\ tunnel[i] = "down" /\ ~ctxDone =>
    \E k \in DOMAIN runExit[i] : runExit[i][k]
=============================================================================
