------------------------- MODULE WarpInstanceProofs -------------------------
(***************************************************************************)
(* What holds of the instances for every number of them, every capacity    *)
(* and every list of endpoints.                                            *)
(***************************************************************************)
EXTENDS WarpInstance, InstanceControlProofs, FiniteSetTheorems

(* TypeOK without the control state. *)
OwnTypeOK ==
  /\ step \in [Inst -> Steps]
  /\ keepState \in [Inst -> BOOLEAN]
  /\ delay \in [Inst -> BOOLEAN]
  /\ tunnel \in [Inst -> Tunnels]
  /\ orphans \in [Inst -> 0..MaxOrphans]
  /\ runExit \in [Inst -> Seq(BOOLEAN)]
  /\ \A i \in Inst : Len(runExit[i]) <= RunExitCap
  /\ stateFile \in [Inst -> BOOLEAN]
  /\ epIdx \in [Inst -> 0..(NumEndpoints - 1)]
  /\ sem \subseteq Inst
  /\ dialing \in [Inst -> SUBSET Conn]
  /\ conns \in [Inst -> SUBSET Conn]

LEMMA TypeParts == TypeOK <=> ControlTypeOK /\ OwnTypeOK
BY Zenon DEF TypeOK, OwnTypeOK

(* A client whose Run has not signalled will be an orphan if it is closed. *)
OrphanRoom == \A i \in Inst : tunnel[i] \in {"up", "lost"} => orphans[i] < MaxOrphans

(* Where the goroutine is says which status it has published. *)
StatusMatchesPlace ==
  \A i \in Inst :
    /\ step[i] # "close" => pc[i] = "build"
    /\ pc[i] \in {"build", "probe", "reprobe"} => status[i] = "Probing"
    /\ pc[i] = "drain" => status[i] = "Draining"
    /\ pc[i] = "emit" =>
         status[i] = IF out[i].kind = "Disabled" THEN "Disabled" ELSE "Probing"

IInv ==
  /\ TypeOK
  /\ OrphanRoom
  /\ StatusMatchesPlace
  /\ \A i \in Inst : StatusFitsPlace(i)
  /\ ClientMatchesPhase
  /\ SignalsMatchClient
  /\ IdentityKept
  /\ SemHolders
  /\ IsFiniteSet(sem)

(* The steps of one instance and of what surrounds it. *)
InstanceStep(i) == Manage(i) \/ RunGoroutine(i) \/ Environment(i)

(* The steps that close a client. *)
Closes(i) == DisableClient(i) \/ ReleaseAll(i) \/ BuildClose(i)

-----------------------------------------------------------------------------
(* Types *)

(* The control state moves by InstanceControl's actions and by the arrival of
   commands only. *)
LEMMA ControlMoves ==
  ASSUME NEW i \in Inst, InstanceStep(i)
  PROVE  ControlStep(i) \/ UNCHANGED controlVars \/ SendCommand(i)
BY DEF InstanceStep, Manage, RunGoroutine, Environment, ControlStep, ControlOnly,
       ReplayIdentity, EnableClient, DisableClient, CutConns, EmitAndGoOn, StopInWait,
       CancelInWait, PanicOutside, ReleaseAll, BuildClose, BackoffExpire, Provision,
       AcquireSem, StartFail, StartOk, LoseTunnel, DiscardSignal, RunReturns,
       RunSignals, OrphanSignals, DialPick, DialEnd, CloseConn

LEMMA ControlTypeKept ==
  ASSUME TypeOK, NEW i \in Inst, InstanceStep(i)
  PROVE  ControlTypeOK'
<1>1. ControlTypeOK
  BY TypeParts
<1>2. CASE ControlStep(i)
  BY <1>1, <1>2, ControlTypeStep
<1>3. CASE UNCHANGED controlVars
  BY <1>1, <1>3 DEF ControlTypeOK, controlVars
<1>4. CASE SendCommand(i)
  <2>1. FieldsOK /\ QueuesOK /\ EventsOK
    BY <1>1, ControlTypeParts
  <2>2. PICK c \in Commands : Send(i, c)
    BY <1>4 DEF SendCommand
  <2>3. c \in CmdKind
    BY InstanceAssumption
  <2>4. /\ cmds' \in [Inst -> Seq(CmdKind)]
        /\ \A j \in Inst : Len(cmds'[j]) <= CmdCap
    BY <2>1, <2>2, <2>3, SendType
  <2>5. FieldsOK' /\ QueuesOK' /\ EventsOK'
    BY <1>4, <2>1, <2>4 DEF SendCommand, FieldsOK, QueuesOK, EventsOK, face
  <2> QED BY <2>5, Zenon DEF ControlTypeOK, FieldsOK, QueuesOK, EventsOK
<1> QED BY <1>2, <1>3, <1>4, ControlMoves

(* The lost signals after each of the changes the code makes to them. *)
LEMMA StaleSignals ==
  ASSUME OwnTypeOK, NEW i \in Inst, CloseClient(i)
  PROVE  /\ runExit' \in [Inst -> Seq(BOOLEAN)]
         /\ \A j \in Inst : Len(runExit'[j]) <= RunExitCap
         /\ \A j \in Inst \ {i} : runExit'[j] = runExit[j]
         /\ \A k \in DOMAIN runExit'[i] : ~runExit'[i][k]
<1> DEFINE stale == [k \in 1..Len(runExit[i]) |-> FALSE]
<1>1. runExit \in [Inst -> Seq(BOOLEAN)] /\ \A j \in Inst : Len(runExit[j]) <= RunExitCap
  BY DEF OwnTypeOK
<1>2. Len(runExit[i]) \in Nat
  BY <1>1, LenProperties
<1>3. stale \in Seq(BOOLEAN) /\ Len(stale) = Len(runExit[i])
  BY <1>2
<1>4. runExit' = [runExit EXCEPT ![i] = stale]
  BY DEF CloseClient
<1>5. DOMAIN stale = 1..Len(runExit[i]) /\ \A k \in 1..Len(runExit[i]) : ~stale[k]
  OBVIOUS
<1> HIDE DEF stale
<1> QED BY <1>1, <1>3, <1>4, <1>5

LEMMA QueuedSignal ==
  ASSUME OwnTypeOK, NEW i \in Inst, NEW current \in BOOLEAN, Signal(i, current)
  PROVE  /\ runExit' \in [Inst -> Seq(BOOLEAN)]
         /\ \A j \in Inst : Len(runExit'[j]) <= RunExitCap
         /\ \A j \in Inst \ {i} : runExit'[j] = runExit[j]
         /\ \/ runExit'[i] = runExit[i]
            \/ \A k \in DOMAIN runExit'[i] :
                 (k \in DOMAIN runExit[i] /\ runExit'[i][k] = runExit[i][k])
                 \/ runExit'[i][k] = current
<1>1. runExit \in [Inst -> Seq(BOOLEAN)] /\ \A j \in Inst : Len(runExit[j]) <= RunExitCap
  BY DEF OwnTypeOK
<1>2. runExit[i] \in Seq(BOOLEAN) /\ Len(runExit[i]) \in Nat /\ RunExitCap \in Nat
  BY <1>1, LenProperties, InstanceAssumption
<1>3. CASE Len(runExit[i]) < RunExitCap
  <2> DEFINE longer == Append(runExit[i], current)
  <2>1. /\ longer \in Seq(BOOLEAN) /\ Len(longer) = Len(runExit[i]) + 1
        /\ \A k \in 1..Len(runExit[i]) : longer[k] = runExit[i][k]
        /\ longer[Len(runExit[i]) + 1] = current
    BY <1>2, AppendProperties
  <2>2. runExit' = [runExit EXCEPT ![i] = longer]
    BY <1>3 DEF Signal
  <2>3. DOMAIN longer = 1..(Len(runExit[i]) + 1) /\ DOMAIN runExit[i] = 1..Len(runExit[i])
    BY <1>2, <2>1, LenProperties
  <2> HIDE DEF longer
  <2>4. Len(longer) <= RunExitCap
    BY <1>2, <1>3, <2>1
  <2>5. \A k \in DOMAIN longer :
          (k \in DOMAIN runExit[i] /\ longer[k] = runExit[i][k]) \/ longer[k] = current
    BY <1>2, <2>1, <2>3
  <2> QED BY <1>1, <2>1, <2>2, <2>4, <2>5
<1>4. CASE ~(Len(runExit[i]) < RunExitCap)
  BY <1>1, <1>4 DEF Signal
<1> QED BY <1>3, <1>4

LEMMA TakenSignal ==
  ASSUME OwnTypeOK, NEW i \in Inst, NEW current \in BOOLEAN, TakeSignal(i, current)
  PROVE  /\ runExit' \in [Inst -> Seq(BOOLEAN)]
         /\ \A j \in Inst : Len(runExit'[j]) <= RunExitCap
         /\ \A j \in Inst \ {i} : runExit'[j] = runExit[j]
         /\ \A k \in DOMAIN runExit'[i] :
              k + 1 \in DOMAIN runExit[i] /\ runExit'[i][k] = runExit[i][k + 1]
<1>1. runExit \in [Inst -> Seq(BOOLEAN)] /\ \A j \in Inst : Len(runExit[j]) <= RunExitCap
  BY DEF OwnTypeOK
<1>2. runExit[i] \in Seq(BOOLEAN) /\ Len(runExit[i]) \in Nat /\ RunExitCap \in Nat
  BY <1>1, LenProperties, InstanceAssumption
<1> DEFINE rest == Tail(runExit[i])
<1>3. /\ rest \in Seq(BOOLEAN) /\ Len(rest) = Len(runExit[i]) - 1
      /\ \A k \in 1..Len(rest) : rest[k] = runExit[i][k + 1]
  BY <1>2, HeadTailProperties DEF TakeSignal
<1>4. DOMAIN rest = 1..Len(rest) /\ DOMAIN runExit[i] = 1..Len(runExit[i])
  BY <1>2, <1>3, LenProperties
<1>5. runExit' = [runExit EXCEPT ![i] = rest]
  BY DEF TakeSignal
<1> HIDE DEF rest
<1>6. Len(rest) <= RunExitCap
  BY <1>1, <1>2, <1>3
<1>7. \A k \in DOMAIN rest : k + 1 \in DOMAIN runExit[i] /\ rest[k] = runExit[i][k + 1]
  BY <1>2, <1>3, <1>4
<1> QED BY <1>1, <1>3, <1>5, <1>6, <1>7

LEMMA ClosedClient ==
  ASSUME OwnTypeOK, OrphanRoom, NEW i \in Inst, CloseClient(i)
  PROVE  /\ tunnel' = [tunnel EXCEPT ![i] = "none"]
         /\ orphans' \in [Inst -> 0..MaxOrphans]
         /\ \A j \in Inst \ {i} : orphans'[j] = orphans[j]
<1>1. tunnel[i] \in {"up", "lost"} => orphans[i] < MaxOrphans
  BY DEF OrphanRoom
<1>2. orphans \in [Inst -> 0..MaxOrphans] /\ MaxOrphans \in Nat
  BY InstanceAssumption DEF OwnTypeOK
<1> QED BY <1>1, <1>2 DEF CloseClient

LEMMA EndpointInRange ==
  ASSUME OwnTypeOK, NEW i \in Inst, NextEndpoint(i)
  PROVE  epIdx' \in [Inst -> 0..(NumEndpoints - 1)]
<1>1. epIdx[i] \in 0..(NumEndpoints - 1) /\ NumEndpoints \in Nat \ {0}
  BY InstanceAssumption DEF OwnTypeOK
<1>2. (epIdx[i] + 1) % NumEndpoints \in 0..(NumEndpoints - 1)
  BY <1>1
<1> QED BY <1>2 DEF OwnTypeOK, NextEndpoint

LEMMA OwnTypeKept ==
  ASSUME TypeOK, OrphanRoom, NEW i \in Inst, InstanceStep(i)
  PROVE  OwnTypeOK'
<1>t. OwnTypeOK
  BY TypeParts
<1> USE InstanceAssumption
    DEF Steps, Tunnels, ownVars, buildVars, clientVars, identityVars, connVars
<1>1. CASE ControlOnly(i)
  BY <1>t, <1>1 DEF ControlOnly, OwnTypeOK
<1>2. CASE ReplayIdentity(i)
  BY <1>t, <1>2 DEF ReplayIdentity, CallEnsureClient, OwnTypeOK
<1>3. CASE EnableClient(i)
  BY <1>t, <1>3 DEF EnableClient, CallEnsureClient, OwnTypeOK
<1>4. CASE DisableClient(i)
  <2>1. /\ runExit' \in [Inst -> Seq(BOOLEAN)]
        /\ \A j \in Inst : Len(runExit'[j]) <= RunExitCap
    BY <1>t, <1>4, StaleSignals DEF DisableClient
  <2>2. tunnel' \in [Inst -> Tunnels] /\ orphans' \in [Inst -> 0..MaxOrphans]
    BY <1>t, <1>4, ClosedClient DEF DisableClient, OwnTypeOK
  <2> QED
    BY <1>t, <1>4, <2>1, <2>2 DEF DisableClient, OwnTypeOK
<1>5. CASE CutConns(i)
  BY <1>t, <1>5 DEF CutConns, OwnTypeOK
<1>6. CASE EmitAndGoOn(i)
  BY <1>t, <1>6 DEF EmitAndGoOn, CallEnsureClient, OwnTypeOK
<1>7. CASE StopInWait(i)
  BY <1>t, <1>7 DEF StopInWait, LeaveEnsureClient, CallEnsureClient, OwnTypeOK
<1>8. CASE CancelInWait(i)
  BY <1>t, <1>8 DEF CancelInWait, LeaveEnsureClient, CallEnsureClient, OwnTypeOK
<1>9. CASE PanicOutside(i)
  BY <1>t, <1>9 DEF PanicOutside, LeaveEnsureClient, CallEnsureClient, OwnTypeOK
<1>10. CASE ReleaseAll(i)
  <2>1. /\ runExit' \in [Inst -> Seq(BOOLEAN)]
        /\ \A j \in Inst : Len(runExit'[j]) <= RunExitCap
    BY <1>t, <1>10, StaleSignals DEF ReleaseAll
  <2>2. tunnel' \in [Inst -> Tunnels] /\ orphans' \in [Inst -> 0..MaxOrphans]
    BY <1>t, <1>10, ClosedClient DEF ReleaseAll, OwnTypeOK
  <2> QED
    BY <1>t, <1>10, <2>1, <2>2 DEF ReleaseAll, RemoveState, OwnTypeOK
<1>11. CASE BuildClose(i)
  <2>1. /\ runExit' \in [Inst -> Seq(BOOLEAN)]
        /\ \A j \in Inst : Len(runExit'[j]) <= RunExitCap
    BY <1>t, <1>11, StaleSignals DEF BuildClose
  <2>2. tunnel' \in [Inst -> Tunnels] /\ orphans' \in [Inst -> 0..MaxOrphans]
    BY <1>t, <1>11, ClosedClient DEF BuildClose, OwnTypeOK
  <2>3. epIdx' \in [Inst -> 0..(NumEndpoints - 1)]
    BY <1>t, <1>11, EndpointInRange DEF BuildClose, OwnTypeOK
  <2> QED
    BY <1>t, <1>11, <2>1, <2>2, <2>3 DEF BuildClose, RemoveState, StepTo, OwnTypeOK
<1>12. CASE BackoffExpire(i)
  BY <1>t, <1>12 DEF BackoffExpire, StepTo, OwnTypeOK
<1>13. CASE Provision(i)
  BY <1>t, <1>13 DEF Provision, StepTo, Retry, CallEnsureClient, OwnTypeOK
<1>14. CASE AcquireSem(i)
  BY <1>t, <1>14 DEF AcquireSem, StepTo, OwnTypeOK
<1>15. CASE StartFail(i)
  BY <1>t, <1>15 DEF StartFail, Retry, CallEnsureClient, OwnTypeOK
<1>16. CASE StartOk(i)
  BY <1>t, <1>16 DEF StartOk, LeaveEnsureClient, CallEnsureClient, OwnTypeOK
<1>17. CASE LoseTunnel(i)
  <2>1. /\ runExit' \in [Inst -> Seq(BOOLEAN)]
        /\ \A j \in Inst : Len(runExit'[j]) <= RunExitCap
    BY <1>t, <1>17, TakenSignal DEF LoseTunnel
  <2> QED
    BY <1>t, <1>17, <2>1 DEF LoseTunnel, OwnTypeOK
<1>18. CASE DiscardSignal(i)
  <2>1. /\ runExit' \in [Inst -> Seq(BOOLEAN)]
        /\ \A j \in Inst : Len(runExit'[j]) <= RunExitCap
    BY <1>t, <1>18, TakenSignal DEF DiscardSignal
  <2> QED
    BY <1>t, <1>18, <2>1 DEF DiscardSignal, OwnTypeOK
<1>19. CASE RunReturns(i)
  BY <1>t, <1>19 DEF RunReturns, OwnTypeOK
<1>20. CASE RunSignals(i)
  <2>1. /\ runExit' \in [Inst -> Seq(BOOLEAN)]
        /\ \A j \in Inst : Len(runExit'[j]) <= RunExitCap
    BY <1>t, <1>20, QueuedSignal DEF RunSignals
  <2> QED
    BY <1>t, <1>20, <2>1 DEF RunSignals, OwnTypeOK
<1>21. CASE OrphanSignals(i)
  <2>1. /\ runExit' \in [Inst -> Seq(BOOLEAN)]
        /\ \A j \in Inst : Len(runExit'[j]) <= RunExitCap
    BY <1>t, <1>21, QueuedSignal DEF OrphanSignals
  <2>2. orphans' \in [Inst -> 0..MaxOrphans]
    BY <1>t, <1>21 DEF OrphanSignals, OwnTypeOK
  <2> QED
    BY <1>t, <1>21, <2>1, <2>2 DEF OrphanSignals, OwnTypeOK
<1>22. CASE SendCommand(i)
  BY <1>t, <1>22 DEF SendCommand, OwnTypeOK
<1>23. CASE DialPick(i)
  BY <1>t, <1>23 DEF DialPick, OwnTypeOK
<1>24. CASE DialEnd(i)
  <2>1. PICK c \in dialing[i] :
          /\ dialing' = [dialing EXCEPT ![i] = @ \ {c}]
          /\ conns' = [conns EXCEPT ![i] = @ \cup {c}] \/ UNCHANGED conns
    BY <1>24 DEF DialEnd
  <2>2. dialing[i] \subseteq Conn /\ conns[i] \subseteq Conn /\ c \in Conn
    BY <1>t DEF OwnTypeOK
  <2>3. dialing' \in [Inst -> SUBSET Conn]
    BY <1>t, <2>1, <2>2 DEF OwnTypeOK
  <2>4. conns' \in [Inst -> SUBSET Conn]
    <3>1. conns[i] \cup {c} \in SUBSET Conn /\ conns \in [Inst -> SUBSET Conn]
      BY <1>t, <2>2 DEF OwnTypeOK
    <3> QED BY <2>1, <3>1
  <2> QED
    BY <1>t, <1>24, <2>3, <2>4 DEF DialEnd, OwnTypeOK
<1>25. CASE CloseConn(i)
  BY <1>t, <1>25 DEF CloseConn, OwnTypeOK
<1> QED
  BY <1>1, <1>2, <1>3, <1>4, <1>5, <1>6, <1>7, <1>8, <1>9, <1>10, <1>11, <1>12,
     <1>13, <1>14, <1>15, <1>16, <1>17, <1>18, <1>19, <1>20, <1>21, <1>22, <1>23,
     <1>24, <1>25
  DEF InstanceStep, Manage, RunGoroutine, Environment

-----------------------------------------------------------------------------
(* The parts of the invariant, each with the actions that disturb it *)

LEMMA PlaceKept ==
  ASSUME IInv, NEW i \in Inst, InstanceStep(i)
  PROVE  StatusMatchesPlace'
<1>t. /\ pc \in [Inst -> Places] /\ status \in [Inst -> Status] /\ step \in [Inst -> Steps]
      /\ out \in [Inst -> Message] /\ tunnel \in [Inst -> Tunnels]
  BY DEF IInv, TypeOK, ControlTypeOK
<1>p. StatusMatchesPlace
  BY DEF IInv
<1>1. CASE ControlOnly(i)
  BY <1>t, <1>p, ControlGuards, <1>1
  DEF ControlOnly, Confirm, SetStatus, Reprobe, Goto, Drain, Stop, Ignore, Probe,
      ReprobeExpire, Report, Park, StatusMatchesPlace, ownVars, buildVars, clientVars,
      identityVars, connVars, controlVars, face, queues
<1>2. CASE ReplayIdentity(i)
  BY <1>t, <1>p, ControlGuards, <1>2
  DEF ReplayIdentity, Replay, Goto, SetStatus, CallEnsureClient, StatusMatchesPlace,
      ownVars, buildVars, clientVars, identityVars, connVars, controlVars, face, queues
<1>3. CASE EnableClient(i)
  BY <1>t, <1>p, ControlGuards, <1>3
  DEF EnableClient, Enable, Goto, SetStatus, CallEnsureClient, StatusMatchesPlace,
      ownVars, buildVars, clientVars, identityVars, connVars, controlVars, face, queues
<1>4. CASE DisableClient(i)
  BY <1>t, <1>p, ControlGuards, <1>4
  DEF DisableClient, Disable, Goto, SetStatus, EmitNext, Note, DrainDisable,
      CloseClient, StatusMatchesPlace, ownVars, buildVars, clientVars, identityVars,
      connVars, controlVars, face, queues
<1>5. CASE CutConns(i)
  BY <1>t, <1>p, ControlGuards, <1>5
  DEF CutConns, DrainExpire, Goto, SetStatus, EmitNext, Note, StatusMatchesPlace,
      ownVars, buildVars, clientVars, identityVars, connVars, controlVars, face, queues
<1>6. CASE EmitAndGoOn(i)
  BY <1>t, <1>p, ControlGuards, <1>6
  DEF EmitAndGoOn, Emit, Goto, Resume, CallEnsureClient, StatusMatchesPlace, ownVars,
      buildVars, clientVars, identityVars, connVars, controlVars, face, queues
<1>7. CASE StopInWait(i)
  BY <1>t, <1>p, ControlGuards, <1>7
  DEF StopInWait, StopWait, Goto, Interrupted, LeaveEnsureClient, CallEnsureClient,
      StatusMatchesPlace, ownVars, buildVars, clientVars, identityVars, connVars,
      controlVars, face, queues
<1>8. CASE CancelInWait(i)
  BY <1>t, <1>p, ControlGuards, <1>8
  DEF CancelInWait, Cancel, Goto, Interrupted, LeaveEnsureClient, CallEnsureClient,
      StatusMatchesPlace, ownVars, buildVars, clientVars, identityVars, connVars,
      controlVars, face, queues
<1>9. CASE PanicOutside(i)
  BY <1>t, <1>p, ControlGuards, <1>9
  DEF PanicOutside, Panic, Goto, LeaveEnsureClient, CallEnsureClient,
      StatusMatchesPlace, ownVars, buildVars, clientVars, identityVars, connVars,
      controlVars, face, queues
<1>10. CASE ReleaseAll(i)
  BY <1>t, <1>p, ControlGuards, <1>10
  DEF ReleaseAll, Finalize, Goto, CloseClient, RemoveState, StatusMatchesPlace, ownVars,
      buildVars, clientVars, identityVars, connVars, controlVars, face, queues
<1>11. CASE BuildClose(i)
  BY <1>t, <1>p, ControlGuards, <1>11
  DEF BuildClose, CloseClient, RemoveState, NextEndpoint, StepTo, StatusMatchesPlace,
      ownVars, buildVars, clientVars, identityVars, connVars, controlVars, face, queues
<1>12. CASE BackoffExpire(i)
  BY <1>t, <1>p, ControlGuards, <1>12
  DEF BackoffExpire, StepTo, StatusMatchesPlace, ownVars, buildVars, clientVars,
      identityVars, connVars, controlVars, face, queues
<1>13. CASE Provision(i)
  BY <1>t, <1>p, ControlGuards, <1>13
  DEF Provision, StepTo, Retry, CallEnsureClient, StatusMatchesPlace, ownVars,
      buildVars, clientVars, identityVars, connVars, controlVars, face, queues
<1>14. CASE AcquireSem(i)
  BY <1>t, <1>p, ControlGuards, <1>14
  DEF AcquireSem, StepTo, StatusMatchesPlace, ownVars, buildVars, clientVars,
      identityVars, connVars, controlVars, face, queues
<1>15. CASE StartFail(i)
  BY <1>t, <1>p, ControlGuards, <1>15
  DEF StartFail, Retry, CallEnsureClient, StatusMatchesPlace, ownVars, buildVars,
      clientVars, identityVars, connVars, controlVars, face, queues
<1>16. CASE StartOk(i)
  BY <1>t, <1>p, ControlGuards, <1>16
  DEF StartOk, BuildDone, Goto, EmitNext, Note, LeaveEnsureClient, CallEnsureClient,
      StatusMatchesPlace, ownVars, buildVars, clientVars, identityVars, connVars,
      controlVars, face, queues
<1>17. CASE LoseTunnel(i)
  BY <1>t, <1>p, ControlGuards, <1>17
  DEF LoseTunnel, HandleLost, Goto, SetStatus, EmitNext, Note, TakeSignal,
      StatusMatchesPlace, ownVars, buildVars, clientVars, identityVars, connVars,
      controlVars, face, queues
<1>18. CASE UNCHANGED <<pc, status, out, step>>
  BY <1>t, <1>p, ControlGuards, <1>18
  DEF StatusMatchesPlace, ownVars, buildVars, clientVars, identityVars, connVars,
      controlVars, face, queues
<1>19. ASSUME \/ DiscardSignal(i) \/ RunReturns(i) \/ RunSignals(i) \/ OrphanSignals(i)
           \/ SendCommand(i) \/ DialPick(i) \/ DialEnd(i) \/ CloseConn(i)
      PROVE  UNCHANGED <<pc, status, out, step>>
  BY <1>19
  DEF DiscardSignal, RunReturns, RunSignals, OrphanSignals, SendCommand, DialPick,
      DialEnd, CloseConn, ownVars, buildVars, clientVars, identityVars, connVars,
      controlVars, face, queues
<1> QED
  BY <1>1, <1>2, <1>3, <1>4, <1>5, <1>6, <1>7, <1>8, <1>9, <1>10, <1>11, <1>12, <1>13,
     <1>14, <1>15, <1>16, <1>17, <1>18, <1>19
  DEF InstanceStep, Manage, RunGoroutine, Environment

LEMMA StatusFitsKept ==
  ASSUME IInv, NEW i \in Inst, InstanceStep(i)
  PROVE  \A j \in Inst : StatusFitsPlace(j)'
<1>1. FieldsOK /\ \A j \in Inst : StatusFitsPlace(j)
  BY ControlTypeParts DEF IInv, TypeOK
<1>2. CASE ControlStep(i)
  BY <1>1, <1>2, PlaceStep, PlaceOfOthers
<1>3. CASE UNCHANGED controlVars \/ SendCommand(i)
  BY <1>1, <1>3 DEF SendCommand, controlVars, face, StatusFitsPlace
<1> QED BY <1>2, <1>3, ControlMoves

LEMMA ClientKept ==
  ASSUME IInv, NEW i \in Inst, InstanceStep(i)
  PROVE  ClientMatchesPhase'
<1>t. /\ pc \in [Inst -> Places] /\ status \in [Inst -> Status] /\ step \in [Inst -> Steps]
      /\ out \in [Inst -> Message] /\ tunnel \in [Inst -> Tunnels]
  BY DEF IInv, TypeOK, ControlTypeOK
<1>p. StatusMatchesPlace /\ ClientMatchesPhase
  BY DEF IInv
<1>s. LoseTunnel(i) => tunnel[i] = "down"
  <2> SUFFICES ASSUME LoseTunnel(i) PROVE tunnel[i] = "down"
    OBVIOUS
  <2>1. runExit[i] \in Seq(BOOLEAN) /\ runExit[i] # <<>> /\ Head(runExit[i]) = TRUE
    BY DEF LoseTunnel, TakeSignal, IInv, TypeOK
  <2>2. Len(runExit[i]) \in Nat \ {0} /\ DOMAIN runExit[i] = 1..Len(runExit[i])
    BY <2>1, EmptySeq, LenProperties
  <2>3. runExit[i][1] = TRUE
    BY <2>1, HeadIsFirst
  <2> QED BY <2>2, <2>3 DEF IInv, SignalsMatchClient
<1>1. CASE ControlOnly(i)
  BY <1>t, <1>p, ControlGuards, <1>1
  DEF ControlOnly, Confirm, SetStatus, Reprobe, Goto, Drain, Stop, Ignore, Probe,
      ReprobeExpire, Report, Park, StatusMatchesPlace, ClientMatchesPhase, Stopped,
      ownVars, buildVars, clientVars, identityVars, connVars, controlVars, face, queues
<1>2. CASE ReplayIdentity(i)
  BY <1>t, <1>p, ControlGuards, <1>2
  DEF ReplayIdentity, Replay, Goto, SetStatus, CallEnsureClient, StatusMatchesPlace,
      ClientMatchesPhase, Stopped, ownVars, buildVars, clientVars, identityVars,
      connVars, controlVars, face, queues
<1>3. CASE EnableClient(i)
  BY <1>t, <1>p, ControlGuards, <1>3
  DEF EnableClient, Enable, Goto, SetStatus, CallEnsureClient, StatusMatchesPlace,
      ClientMatchesPhase, Stopped, ownVars, buildVars, clientVars, identityVars,
      connVars, controlVars, face, queues
<1>4. CASE DisableClient(i)
  BY <1>t, <1>p, ControlGuards, <1>4
  DEF DisableClient, Disable, Goto, SetStatus, EmitNext, Note, DrainDisable,
      CloseClient, StatusMatchesPlace, ClientMatchesPhase, Stopped, ownVars, buildVars,
      clientVars, identityVars, connVars, controlVars, face, queues
<1>5. CASE CutConns(i)
  BY <1>t, <1>p, ControlGuards, <1>5
  DEF CutConns, DrainExpire, Goto, SetStatus, EmitNext, Note, StatusMatchesPlace,
      ClientMatchesPhase, Stopped, ownVars, buildVars, clientVars, identityVars,
      connVars, controlVars, face, queues
<1>6. CASE EmitAndGoOn(i)
  BY <1>t, <1>p, ControlGuards, <1>6
  DEF EmitAndGoOn, Emit, Goto, Resume, CallEnsureClient, StatusMatchesPlace,
      ClientMatchesPhase, Stopped, ownVars, buildVars, clientVars, identityVars,
      connVars, controlVars, face, queues
<1>7. CASE StopInWait(i)
  BY <1>t, <1>p, ControlGuards, <1>7
  DEF StopInWait, StopWait, Goto, Interrupted, LeaveEnsureClient, CallEnsureClient,
      StatusMatchesPlace, ClientMatchesPhase, Stopped, ownVars, buildVars, clientVars,
      identityVars, connVars, controlVars, face, queues
<1>8. CASE CancelInWait(i)
  BY <1>t, <1>p, ControlGuards, <1>8
  DEF CancelInWait, Cancel, Goto, Interrupted, LeaveEnsureClient, CallEnsureClient,
      StatusMatchesPlace, ClientMatchesPhase, Stopped, ownVars, buildVars, clientVars,
      identityVars, connVars, controlVars, face, queues
<1>9. CASE PanicOutside(i)
  BY <1>t, <1>p, ControlGuards, <1>9
  DEF PanicOutside, Panic, Goto, LeaveEnsureClient, CallEnsureClient,
      StatusMatchesPlace, ClientMatchesPhase, Stopped, ownVars, buildVars, clientVars,
      identityVars, connVars, controlVars, face, queues
<1>10. CASE ReleaseAll(i)
  BY <1>t, <1>p, ControlGuards, <1>10
  DEF ReleaseAll, Finalize, Goto, CloseClient, RemoveState, StatusMatchesPlace,
      ClientMatchesPhase, Stopped, ownVars, buildVars, clientVars, identityVars,
      connVars, controlVars, face, queues
<1>11. CASE BuildClose(i)
  BY <1>t, <1>p, ControlGuards, <1>11
  DEF BuildClose, CloseClient, RemoveState, NextEndpoint, StepTo, StatusMatchesPlace,
      ClientMatchesPhase, Stopped, ownVars, buildVars, clientVars, identityVars,
      connVars, controlVars, face, queues
<1>12. CASE BackoffExpire(i)
  BY <1>t, <1>p, ControlGuards, <1>12
  DEF BackoffExpire, StepTo, StatusMatchesPlace, ClientMatchesPhase, Stopped, ownVars,
      buildVars, clientVars, identityVars, connVars, controlVars, face, queues
<1>13. CASE Provision(i)
  BY <1>t, <1>p, ControlGuards, <1>13
  DEF Provision, StepTo, Retry, CallEnsureClient, StatusMatchesPlace,
      ClientMatchesPhase, Stopped, ownVars, buildVars, clientVars, identityVars,
      connVars, controlVars, face, queues
<1>14. CASE AcquireSem(i)
  BY <1>t, <1>p, ControlGuards, <1>14
  DEF AcquireSem, StepTo, StatusMatchesPlace, ClientMatchesPhase, Stopped, ownVars,
      buildVars, clientVars, identityVars, connVars, controlVars, face, queues
<1>15. CASE StartFail(i)
  BY <1>t, <1>p, ControlGuards, <1>15
  DEF StartFail, Retry, CallEnsureClient, StatusMatchesPlace, ClientMatchesPhase,
      Stopped, ownVars, buildVars, clientVars, identityVars, connVars, controlVars,
      face, queues
<1>16. CASE StartOk(i)
  BY <1>t, <1>p, ControlGuards, <1>16
  DEF StartOk, BuildDone, Goto, EmitNext, Note, LeaveEnsureClient, CallEnsureClient,
      StatusMatchesPlace, ClientMatchesPhase, Stopped, ownVars, buildVars, clientVars,
      identityVars, connVars, controlVars, face, queues
<1>17. CASE LoseTunnel(i)
  <2>1. pc[i] = "loop" /\ tunnel[i] # "none"
    BY <1>s, <1>17 DEF LoseTunnel, HandleLost
  <2>2. /\ pc' = [pc EXCEPT ![i] = "emit"] /\ status' = [status EXCEPT ![i] = "Probing"]
        /\ UNCHANGED <<step, tunnel>>
    BY <1>17 DEF LoseTunnel, HandleLost, EmitNext, Goto, SetStatus, buildVars
  <2> QED BY <1>t, <1>p, <2>1, <2>2 DEF ClientMatchesPhase, Stopped
<1>18. CASE RunReturns(i)
  BY <1>t, <1>p, ControlGuards, <1>18
  DEF RunReturns, StatusMatchesPlace, ClientMatchesPhase, Stopped, ownVars, buildVars,
      clientVars, identityVars, connVars, controlVars, face, queues
<1>19. CASE RunSignals(i)
  BY <1>t, <1>p, ControlGuards, <1>19
  DEF RunSignals, Signal, StatusMatchesPlace, ClientMatchesPhase, Stopped, ownVars,
      buildVars, clientVars, identityVars, connVars, controlVars, face, queues
<1>20. CASE UNCHANGED <<pc, status, tunnel, step>>
  BY <1>t, <1>p, ControlGuards, <1>20
  DEF StatusMatchesPlace, ClientMatchesPhase, Stopped, ownVars, buildVars, clientVars,
      identityVars, connVars, controlVars, face, queues
<1>21. ASSUME \/ DiscardSignal(i) \/ OrphanSignals(i) \/ SendCommand(i) \/ DialPick(i)
           \/ DialEnd(i) \/ CloseConn(i)
      PROVE  UNCHANGED <<pc, status, tunnel, step>>
  BY <1>21
  DEF DiscardSignal, OrphanSignals, SendCommand, DialPick, DialEnd, CloseConn, ownVars,
      buildVars, clientVars, identityVars, connVars, controlVars, face, queues
<1> QED
  BY <1>1, <1>2, <1>3, <1>4, <1>5, <1>6, <1>7, <1>8, <1>9, <1>10, <1>11, <1>12, <1>13,
     <1>14, <1>15, <1>16, <1>17, <1>18, <1>19, <1>20, <1>21
  DEF InstanceStep, Manage, RunGoroutine, Environment

LEMMA IdentityStays ==
  ASSUME IInv, NEW i \in Inst, InstanceStep(i)
  PROVE  IdentityKept'
<1>t. pc \in [Inst -> Places] /\ stateFile \in [Inst -> BOOLEAN] /\ out \in [Inst -> Message]
  BY DEF IInv, TypeOK, ControlTypeOK
<1>p. IdentityKept /\ StatusMatchesPlace
  BY DEF IInv
<1>1. CASE ControlOnly(i)
  BY <1>t, <1>p, ControlGuards, <1>1
  DEF ControlOnly, Confirm, SetStatus, Reprobe, Goto, Drain, Stop, Ignore, Probe,
      ReprobeExpire, Report, Park, IdentityKept, StatusMatchesPlace, ownVars, buildVars,
      clientVars, identityVars, connVars, controlVars, face, queues
<1>2. CASE ReplayIdentity(i)
  BY <1>t, <1>p, ControlGuards, <1>2
  DEF ReplayIdentity, Replay, Goto, SetStatus, CallEnsureClient, IdentityKept,
      StatusMatchesPlace, ownVars, buildVars, clientVars, identityVars, connVars,
      controlVars, face, queues
<1>3. CASE EnableClient(i)
  BY <1>t, <1>p, ControlGuards, <1>3
  DEF EnableClient, Enable, Goto, SetStatus, CallEnsureClient, IdentityKept,
      StatusMatchesPlace, ownVars, buildVars, clientVars, identityVars, connVars,
      controlVars, face, queues
<1>4. CASE DisableClient(i)
  BY <1>t, <1>p, ControlGuards, <1>4
  DEF DisableClient, Disable, Goto, SetStatus, EmitNext, Note, DrainDisable,
      CloseClient, IdentityKept, StatusMatchesPlace, ownVars, buildVars, clientVars,
      identityVars, connVars, controlVars, face, queues
<1>5. CASE CutConns(i)
  BY <1>t, <1>p, ControlGuards, <1>5
  DEF CutConns, DrainExpire, Goto, SetStatus, EmitNext, Note, IdentityKept,
      StatusMatchesPlace, ownVars, buildVars, clientVars, identityVars, connVars,
      controlVars, face, queues
<1>6. CASE EmitAndGoOn(i)
  BY <1>t, <1>p, ControlGuards, <1>6
  DEF EmitAndGoOn, Emit, Goto, Resume, CallEnsureClient, IdentityKept,
      StatusMatchesPlace, ownVars, buildVars, clientVars, identityVars, connVars,
      controlVars, face, queues
<1>7. CASE StopInWait(i)
  BY <1>t, <1>p, ControlGuards, <1>7
  DEF StopInWait, StopWait, Goto, Interrupted, LeaveEnsureClient, CallEnsureClient,
      IdentityKept, StatusMatchesPlace, ownVars, buildVars, clientVars, identityVars,
      connVars, controlVars, face, queues
<1>8. CASE CancelInWait(i)
  BY <1>t, <1>p, ControlGuards, <1>8
  DEF CancelInWait, Cancel, Goto, Interrupted, LeaveEnsureClient, CallEnsureClient,
      IdentityKept, StatusMatchesPlace, ownVars, buildVars, clientVars, identityVars,
      connVars, controlVars, face, queues
<1>9. CASE PanicOutside(i)
  BY <1>t, <1>p, ControlGuards, <1>9
  DEF PanicOutside, Panic, Goto, LeaveEnsureClient, CallEnsureClient, IdentityKept,
      StatusMatchesPlace, ownVars, buildVars, clientVars, identityVars, connVars,
      controlVars, face, queues
<1>10. CASE ReleaseAll(i)
  BY <1>t, <1>p, ControlGuards, <1>10
  DEF ReleaseAll, Finalize, Goto, CloseClient, RemoveState, IdentityKept,
      StatusMatchesPlace, ownVars, buildVars, clientVars, identityVars, connVars,
      controlVars, face, queues
<1>11. CASE BuildClose(i)
  BY <1>t, <1>p, ControlGuards, <1>11
  DEF BuildClose, CloseClient, RemoveState, NextEndpoint, StepTo, IdentityKept,
      StatusMatchesPlace, ownVars, buildVars, clientVars, identityVars, connVars,
      controlVars, face, queues
<1>12. CASE Provision(i)
  BY <1>t, <1>p, ControlGuards, <1>12
  DEF Provision, StepTo, Retry, CallEnsureClient, IdentityKept, StatusMatchesPlace,
      ownVars, buildVars, clientVars, identityVars, connVars, controlVars, face, queues
<1>13. CASE StartFail(i)
  BY <1>t, <1>p, ControlGuards, <1>13
  DEF StartFail, Retry, CallEnsureClient, IdentityKept, StatusMatchesPlace, ownVars,
      buildVars, clientVars, identityVars, connVars, controlVars, face, queues
<1>14. CASE StartOk(i)
  BY <1>t, <1>p, ControlGuards, <1>14
  DEF StartOk, BuildDone, Goto, EmitNext, Note, LeaveEnsureClient, CallEnsureClient,
      IdentityKept, StatusMatchesPlace, ownVars, buildVars, clientVars, identityVars,
      connVars, controlVars, face, queues
<1>15. CASE LoseTunnel(i)
  BY <1>t, <1>p, <1>15
  DEF LoseTunnel, HandleLost, EmitNext, Goto, IdentityKept, identityVars
<1>16. CASE UNCHANGED <<pc, stateFile>>
  BY <1>t, <1>p, ControlGuards, <1>16
  DEF IdentityKept, StatusMatchesPlace, ownVars, buildVars, clientVars, identityVars,
      connVars, controlVars, face, queues
<1>17. ASSUME \/ BackoffExpire(i) \/ AcquireSem(i) \/ DiscardSignal(i) \/ RunReturns(i)
           \/ RunSignals(i) \/ OrphanSignals(i) \/ SendCommand(i) \/ DialPick(i)
           \/ DialEnd(i) \/ CloseConn(i)
      PROVE  UNCHANGED <<pc, stateFile>>
  BY <1>17
  DEF BackoffExpire, AcquireSem, DiscardSignal, RunReturns, RunSignals, OrphanSignals,
      SendCommand, DialPick, DialEnd, CloseConn, ownVars, buildVars, clientVars,
      identityVars, connVars, controlVars, face, queues
<1> QED
  BY <1>1, <1>2, <1>3, <1>4, <1>5, <1>6, <1>7, <1>8, <1>9, <1>10, <1>11, <1>12, <1>13,
     <1>14, <1>15, <1>16, <1>17
  DEF InstanceStep, Manage, RunGoroutine, Environment

LEMMA OrphanRoomKept ==
  ASSUME IInv, NEW i \in Inst, InstanceStep(i)
  PROVE  OrphanRoom'
<1>t. tunnel \in [Inst -> Tunnels] /\ orphans \in [Inst -> 0..MaxOrphans] /\ MaxOrphans \in Nat
  BY InstanceAssumption DEF IInv, TypeOK
<1>p. OrphanRoom /\ ClientMatchesPhase
  BY DEF IInv
<1>1. CASE DisableClient(i)
  BY <1>t, <1>p, <1>1
  DEF DisableClient, Disable, Goto, SetStatus, EmitNext, Note, DrainDisable,
      CloseClient, OrphanRoom, ClientMatchesPhase
<1>2. CASE ReleaseAll(i)
  BY <1>t, <1>p, <1>2
  DEF ReleaseAll, Finalize, Goto, CloseClient, RemoveState, OrphanRoom,
      ClientMatchesPhase
<1>3. CASE BuildClose(i)
  BY <1>t, <1>p, <1>3
  DEF BuildClose, CloseClient, RemoveState, NextEndpoint, StepTo, OrphanRoom,
      ClientMatchesPhase
<1>4. CASE StartOk(i)
  BY <1>t, <1>p, <1>4
  DEF StartOk, BuildDone, Goto, EmitNext, Note, LeaveEnsureClient, CallEnsureClient,
      OrphanRoom, ClientMatchesPhase
<1>5. CASE RunReturns(i)
  BY <1>t, <1>p, <1>5 DEF RunReturns, OrphanRoom, ClientMatchesPhase
<1>6. CASE RunSignals(i)
  BY <1>t, <1>p, <1>6 DEF RunSignals, Signal, OrphanRoom, ClientMatchesPhase
<1>7. CASE OrphanSignals(i)
  BY <1>t, <1>p, <1>7 DEF OrphanSignals, Signal, OrphanRoom, ClientMatchesPhase
<1>8. CASE UNCHANGED <<tunnel, orphans>>
  BY <1>t, <1>p, <1>8 DEF OrphanRoom, ClientMatchesPhase
<1>9. ASSUME \/ ControlOnly(i) \/ ReplayIdentity(i) \/ EnableClient(i) \/ CutConns(i)
           \/ EmitAndGoOn(i) \/ StopInWait(i) \/ CancelInWait(i) \/ PanicOutside(i)
           \/ BackoffExpire(i) \/ Provision(i) \/ AcquireSem(i) \/ StartFail(i)
           \/ LoseTunnel(i) \/ DiscardSignal(i) \/ SendCommand(i) \/ DialPick(i)
           \/ DialEnd(i) \/ CloseConn(i)
      PROVE  UNCHANGED <<tunnel, orphans>>
  BY <1>9
  DEF ControlOnly, Confirm, Reprobe, Drain, Stop, Ignore, Probe, ReprobeExpire, Report,
      Park, ReplayIdentity, Replay, EnableClient, Enable, CutConns, DrainExpire,
      EmitAndGoOn, Emit, StopInWait, StopWait, CancelInWait, Cancel, PanicOutside,
      Panic, BackoffExpire, Provision, AcquireSem, StartFail, LoseTunnel, HandleLost,
      DiscardSignal, SendCommand, DialPick, DialEnd, CloseConn, ownVars, buildVars,
      clientVars, identityVars, connVars, controlVars, face, queues
<1> QED
  BY <1>1, <1>2, <1>3, <1>4, <1>5, <1>6, <1>7, <1>8, <1>9
  DEF InstanceStep, Manage, RunGoroutine, Environment

LEMMA SignalsKept ==
  ASSUME IInv, NEW i \in Inst, InstanceStep(i)
  PROVE  SignalsMatchClient'
<1>t. OwnTypeOK
  BY TypeParts DEF IInv
<1>p. SignalsMatchClient /\ ClientMatchesPhase
  BY DEF IInv
<1>1. CASE Closes(i)
  <2>1. CloseClient(i)
    BY <1>1 DEF Closes, DisableClient, ReleaseAll, BuildClose
  <2>2. /\ \A j \in Inst \ {i} : runExit'[j] = runExit[j] /\ tunnel'[j] = tunnel[j]
        /\ \A k \in DOMAIN runExit'[i] : ~runExit'[i][k]
    BY <1>t, <2>1, StaleSignals DEF CloseClient, OwnTypeOK
  <2> QED BY <1>p, <2>2 DEF SignalsMatchClient
<1>2. CASE StartOk(i)
  <2>1. tunnel[i] = "none"
    BY <1>p, <1>2 DEF StartOk, ClientMatchesPhase
  <2>2. tunnel' = [tunnel EXCEPT ![i] = "up"] /\ runExit' = runExit
    BY <1>2 DEF StartOk
  <2> QED BY <1>p, <2>1, <2>2 DEF SignalsMatchClient
<1>3. CASE RunReturns(i)
  <2>1. tunnel[i] = "up" /\ tunnel' = [tunnel EXCEPT ![i] = "lost"] /\ runExit' = runExit
    BY <1>3 DEF RunReturns
  <2> QED BY <1>p, <2>1 DEF SignalsMatchClient
<1>4. CASE RunSignals(i)
  <2>1. tunnel'[i] = "down" /\ \A j \in Inst \ {i} : tunnel'[j] = tunnel[j]
    BY <1>t, <1>4 DEF RunSignals, OwnTypeOK
  <2>2. \A j \in Inst \ {i} : runExit'[j] = runExit[j]
    BY <1>t, <1>4, QueuedSignal DEF RunSignals
  <2> QED BY <1>p, <2>1, <2>2 DEF SignalsMatchClient
<1>5. CASE OrphanSignals(i)
  <2>1. tunnel' = tunnel
    BY <1>5 DEF OrphanSignals
  <2>2. /\ \A j \in Inst \ {i} : runExit'[j] = runExit[j]
        /\ \/ runExit'[i] = runExit[i]
           \/ \A k \in DOMAIN runExit'[i] :
                (k \in DOMAIN runExit[i] /\ runExit'[i][k] = runExit[i][k])
                \/ runExit'[i][k] = FALSE
    BY <1>t, <1>5, QueuedSignal DEF OrphanSignals
  <2>3. (\E k \in DOMAIN runExit'[i] : runExit'[i][k]) =>
          \E k \in DOMAIN runExit[i] : runExit[i][k]
    BY <2>2, Zenon
  <2> QED BY <1>p, <2>1, <2>2, <2>3 DEF SignalsMatchClient
<1>6. CASE LoseTunnel(i) \/ DiscardSignal(i)
  <2>1. tunnel' = tunnel /\ \E current \in BOOLEAN : TakeSignal(i, current)
    BY <1>6 DEF LoseTunnel, DiscardSignal
  <2>2. /\ \A j \in Inst \ {i} : runExit'[j] = runExit[j]
        /\ \A k \in DOMAIN runExit'[i] :
             k + 1 \in DOMAIN runExit[i] /\ runExit'[i][k] = runExit[i][k + 1]
    BY <1>t, <2>1, TakenSignal
  <2>3. (\E k \in DOMAIN runExit'[i] : runExit'[i][k]) =>
          \E k \in DOMAIN runExit[i] : runExit[i][k]
    BY <2>2, Zenon
  <2> QED BY <1>p, <2>1, <2>2, <2>3 DEF SignalsMatchClient
<1>7. CASE UNCHANGED <<tunnel, runExit>>
  BY <1>p, <1>7 DEF SignalsMatchClient
<1>8. \/ Closes(i) \/ StartOk(i) \/ RunReturns(i) \/ RunSignals(i) \/ OrphanSignals(i)
      \/ LoseTunnel(i) \/ DiscardSignal(i) \/ UNCHANGED <<tunnel, runExit>>
  BY DEF InstanceStep, Manage, RunGoroutine, Environment, Closes, ControlOnly,
         ReplayIdentity, EnableClient, CutConns, EmitAndGoOn, StopInWait, CancelInWait,
         PanicOutside, BackoffExpire, Provision, AcquireSem, StartFail, SendCommand,
         DialPick, DialEnd, CloseConn, ownVars, clientVars
<1> QED BY <1>1, <1>2, <1>3, <1>4, <1>5, <1>6, <1>7, <1>8

(* A step that takes no slot and gives none back starts no client. *)
LEMMA SemKept ==
  ASSUME IInv, NEW i \in Inst, InstanceStep(i)
  PROVE  SemHolders' /\ IsFiniteSet(sem')
<1>t. step \in [Inst -> Steps] /\ ReplayConcurrency \in Nat /\ pc \in [Inst -> Places]
  BY InstanceAssumption DEF IInv, TypeOK, ControlTypeOK
<1>p. /\ sem = {j \in Inst : step[j] = "start"}
      /\ Cardinality(sem) <= ReplayConcurrency
      /\ IsFiniteSet(sem) /\ Cardinality(sem) \in Nat
  BY FS_CardinalityType DEF IInv, SemHolders
<1>s. pc[i] # "build" => step[i] = "close"
  BY DEF IInv, StatusMatchesPlace
<1>1. CASE AcquireSem(i)
  <2>1. sem' = sem \cup {i} /\ step' = [step EXCEPT ![i] = "start"]
    BY <1>1 DEF AcquireSem, StepTo
  <2>2. /\ IsFiniteSet(sem')
        /\ Cardinality(sem') = IF i \in sem THEN Cardinality(sem) ELSE Cardinality(sem) + 1
    BY <1>p, <2>1, FS_AddElement
  <2>3. Cardinality(sem) < ReplayConcurrency
    BY <1>1 DEF AcquireSem
  <2>4. Cardinality(sem') <= ReplayConcurrency
    BY <1>p, <1>t, <2>2, <2>3
  <2>5. sem' = {j \in Inst : step'[j] = "start"}
    BY <1>t, <1>p, <2>1
  <2> QED BY <2>2, <2>4, <2>5 DEF SemHolders
<1>2. CASE StartFail(i) \/ StartOk(i) \/ PanicOutside(i)
  <2>1. sem' = sem \ {i} /\ step' = [step EXCEPT ![i] = "close"]
    BY <1>2 DEF StartFail, StartOk, PanicOutside, Retry, LeaveEnsureClient, CallEnsureClient
  <2>2. /\ IsFiniteSet(sem')
        /\ Cardinality(sem') = IF i \in sem THEN Cardinality(sem) - 1 ELSE Cardinality(sem)
    BY <1>p, <2>1, FS_RemoveElement
  <2>3. Cardinality(sem') <= ReplayConcurrency
    BY <1>p, <1>t, <2>2
  <2>4. sem' = {j \in Inst : step'[j] = "start"}
    BY <1>t, <1>p, <2>1
  <2> QED BY <2>2, <2>3, <2>4 DEF SemHolders
<1>3. CASE /\ sem' = sem
           /\ step[i] # "start" /\ step'[i] # "start"
           /\ \A j \in Inst \ {i} : step'[j] = step[j]
  <2>1. {j \in Inst : step'[j] = "start"} = {j \in Inst : step[j] = "start"}
    BY <1>3
  <2> QED BY <1>p, <1>3, <2>1 DEF SemHolders
<1>4. CASE sem' = sem /\ step' = step
  BY <1>p, <1>4 DEF SemHolders
<1>5. CASE ReplayIdentity(i) \/ EnableClient(i) \/ EmitAndGoOn(i)
  <2>1. pc[i] # "build"
    BY <1>5, ControlGuards DEF ReplayIdentity, EnableClient, EmitAndGoOn, Emit
  <2>2. sem' = sem /\ (step' = step \/ step' = [step EXCEPT ![i] = "close"])
    BY <1>5 DEF ReplayIdentity, EnableClient, EmitAndGoOn, CallEnsureClient, buildVars
  <2> QED BY <1>t, <1>s, <1>3, <1>4, <2>1, <2>2
<1>6. CASE StopInWait(i) \/ CancelInWait(i)
  <2>1. step[i] # "start"
    BY <1>s, <1>6 DEF StopInWait, CancelInWait
  <2>2. sem' = sem /\ step' = [step EXCEPT ![i] = "close"]
    BY <1>6 DEF StopInWait, CancelInWait, LeaveEnsureClient, CallEnsureClient
  <2> QED BY <1>t, <1>3, <2>1, <2>2
<1>7. CASE BuildClose(i) \/ BackoffExpire(i) \/ Provision(i)
  <2>1. step[i] # "start" /\ sem' = sem
    BY <1>7 DEF BuildClose, BackoffExpire, Provision
  <2>2. \E s \in {"wait", "provision", "sem", "close"} : step' = [step EXCEPT ![i] = s]
    BY <1>7 DEF BuildClose, BackoffExpire, Provision, StepTo, Retry, CallEnsureClient
  <2> QED BY <1>t, <1>3, <2>1, <2>2
<1>8. \/ AcquireSem(i) \/ StartFail(i) \/ StartOk(i) \/ PanicOutside(i)
      \/ ReplayIdentity(i) \/ EnableClient(i) \/ EmitAndGoOn(i)
      \/ StopInWait(i) \/ CancelInWait(i)
      \/ BuildClose(i) \/ BackoffExpire(i) \/ Provision(i)
      \/ sem' = sem /\ step' = step
  BY DEF InstanceStep, Manage, RunGoroutine, Environment, ControlOnly, DisableClient,
         CutConns, ReleaseAll, LoseTunnel, DiscardSignal, RunReturns, RunSignals,
         OrphanSignals, SendCommand, DialPick, DialEnd, CloseConn, ownVars, buildVars
<1> QED BY <1>1, <1>2, <1>4, <1>5, <1>6, <1>7, <1>8

-----------------------------------------------------------------------------
(* The invariant *)

LEMMA IInvInit == Init => IInv
<1> SUFFICES ASSUME Init PROVE IInv
  OBVIOUS
<1>1. <<>> \in Seq(BOOLEAN) /\ Len(<<>>) = 0 /\ DOMAIN <<>> = {}
  BY EmptySeq, LenProperties
<1>2. ControlTypeOK
  BY ControlTypeInit DEF Init, Places
<1>3. OwnTypeOK
  BY <1>1, InstanceAssumption DEF Init, OwnTypeOK, Steps, Tunnels
<1>4. /\ OrphanRoom /\ StatusMatchesPlace /\ ClientMatchesPhase /\ IdentityKept
      /\ \A i \in Inst : StatusFitsPlace(i)
  BY DEF Init, ControlInit, OrphanRoom, StatusMatchesPlace, ClientMatchesPhase,
         IdentityKept, Stopped, StatusFitsPlace
<1>5. SignalsMatchClient
  BY <1>1 DEF Init, SignalsMatchClient
<1>6. SemHolders /\ IsFiniteSet(sem)
  <2>1. sem = {} /\ {i \in Inst : step[i] = "start"} = {}
    BY DEF Init
  <2> QED BY <2>1, FS_EmptySet, InstanceAssumption DEF SemHolders
<1> QED BY <1>2, <1>3, <1>4, <1>5, <1>6, TypeParts DEF IInv

LEMMA IInvStep == IInv /\ [Next]_vars => IInv'
<1> SUFFICES ASSUME IInv, [Next]_vars PROVE IInv'
  OBVIOUS
<1>1. ASSUME NEW i \in Inst, InstanceStep(i) PROVE IInv'
  <2>1. TypeOK /\ OrphanRoom
    BY DEF IInv
  <2>2. ControlTypeOK' /\ OwnTypeOK'
    BY <1>1, <2>1, ControlTypeKept, OwnTypeKept
  <2>3. TypeOK'
    BY <2>2, Zenon DEF TypeOK, OwnTypeOK
  <2> QED
    BY <1>1, <2>3, OrphanRoomKept, PlaceKept, StatusFitsKept, ClientKept, SignalsKept,
       IdentityStays, SemKept DEF IInv
<1>2. ASSUME UNCHANGED <<pc, face, queues, replaying, out, ownVars>>,
             events' \in Seq(Event) /\ Len(events') <= EventCap, ctxDone' \in BOOLEAN
      PROVE  IInv'
  <2>1. ControlTypeOK'
    BY <1>2 DEF IInv, TypeOK, ControlTypeOK, face, queues
  <2>2. OwnTypeOK'
    BY <1>2, TypeParts DEF IInv, OwnTypeOK, ownVars, buildVars, clientVars, identityVars,
                           connVars
  <2>3. TypeOK'
    BY <2>1, <2>2, Zenon DEF TypeOK, OwnTypeOK
  <2> QED
    BY <1>2, <2>3 DEF IInv, OrphanRoom, StatusMatchesPlace, StatusFitsPlace, ClientMatchesPhase,
       SignalsMatchClient, IdentityKept, SemHolders, Stopped, ownVars, buildVars,
       clientVars, identityVars, face
<1>e. events \in Seq(Event) /\ Len(events) <= EventCap /\ ctxDone \in BOOLEAN
  BY DEF IInv, TypeOK, ControlTypeOK
<1>3. CASE TakeEvent
  <2>1. /\ Tail(events) \in Seq(Event) /\ Len(Tail(events)) = Len(events) - 1
        /\ Len(events) \in Nat /\ EventCap \in Nat
    BY <1>3, <1>e, HeadTailProperties, LenProperties, ControlAssumption DEF TakeEvent
  <2>2. Len(Tail(events)) <= EventCap
    BY <1>e, <2>1
  <2> QED BY <1>2, <1>3, <1>e, <2>1, <2>2 DEF TakeEvent
<1>4. CASE CloseContext
  BY <1>2, <1>4, <1>e DEF CloseContext
<1>5. CASE UNCHANGED vars
  BY <1>2, <1>5, <1>e DEF vars, controlVars, face, queues
<1> QED
  BY <1>1, <1>3, <1>4, <1>5 DEF Next, InstanceStep, Terminated

(* The state of every instance has its type in every reachable state: no
   channel beyond its capacity and no index beyond the list of endpoints
   (instance.go:250, :502 and :541). *)
THEOREM TypeCorrect == Spec => []TypeOK
<1>1. IInv => TypeOK
  BY DEF IInv
<1> QED BY <1>1, IInvInit, IInvStep, PTL DEF Spec

(* An instance has a client exactly when it is in service (instance.go:419,
   :351, :406 and :613), whatever the commands, losses, panics and
   cancellations, and in whatever order they come. *)
THEOREM ClientMatchesPhaseAlways == Spec => []ClientMatchesPhase
<1>1. IInv => ClientMatchesPhase
  BY DEF IInv
<1> QED BY <1>1, IInvInit, IInvStep, PTL DEF Spec

(* A late signal of a closed client never counts as current (the generations,
   instance.go:310 and :515). *)
THEOREM SignalsMatchClientAlways == Spec => []SignalsMatchClient
<1>1. IInv => SignalsMatchClient
  BY DEF IInv
<1> QED BY <1>1, IInvInit, IInvStep, PTL DEF Spec

(* An instance that serves or is disabled has its identity on disk
   (instance.go:357 and :372). *)
THEOREM IdentityKeptAlways == Spec => []IdentityKept
<1>1. IInv => IdentityKept
  BY DEF IInv
<1> QED BY <1>1, IInvInit, IInvStep, PTL DEF Spec

(* The replay semaphore is held by the instances that start a client and by
   nobody else, and never by more than ReplayConcurrency (instance.go:472-475). *)
THEOREM SemHoldersAlways == Spec => []SemHolders
<1>1. IInv => SemHolders
  BY DEF IInv
<1> QED BY <1>1, IInvInit, IInvStep, PTL DEF Spec

(* Between two commands awaitConfirm says whether the status is Probing or
   Normal (pool.go:375): every report sets it on the way to Probing
   (instance.go:573), and the Confirm that clears it ends Probing. *)
THEOREM AwaitTracksProbingAlways == Spec => []AwaitTracksProbing
<1>1. IInv => AwaitTracksProbing
  BY DEF IInv, StatusFitsPlace, AwaitTracksProbing
<1> QED BY <1>1, IInvInit, IInvStep, PTL DEF Spec

-----------------------------------------------------------------------------
(* Action properties *)

(* The steps that publish a status. *)
LEMMA StatusMoves ==
  ASSUME NEW i \in Inst, InstanceStep(i)
  PROVE  \/ UNCHANGED status
         \/ Confirm(i) \/ Replay(i) \/ Drain(i) \/ Disable(i) \/ DrainDisable(i) \/ Enable(i)
         \/ CutConns(i) \/ LoseTunnel(i)
BY DEF InstanceStep, Manage, RunGoroutine, Environment, ControlOnly, ReplayIdentity,
       EnableClient, DisableClient, EmitAndGoOn, StopInWait, CancelInWait, PanicOutside,
       ReleaseAll, BuildClose, BackoffExpire, Provision, AcquireSem, StartFail, StartOk,
       DiscardSignal, RunReturns, RunSignals, OrphanSignals, SendCommand, DialPick, DialEnd,
       CloseConn, Reprobe, Stop, Ignore, Probe, ReprobeExpire, Report, Park, Emit, StopWait,
       Cancel, Panic, Finalize, BuildDone, controlVars, face

(* A tunnel that is reported lost is that of an instance in service. *)
LEMMA LosesClient ==
  ASSUME IInv, NEW i \in Inst, LoseTunnel(i)
  PROVE  status[i] \in {"Probing", "Normal"}
<1>1. /\ runExit[i] \in Seq(BOOLEAN) /\ runExit[i] # <<>> /\ Head(runExit[i]) = TRUE
      /\ pc[i] = "loop" /\ status[i] \in Status
  BY DEF IInv, TypeOK, ControlTypeOK, LoseTunnel, TakeSignal, HandleLost
<1>2. Len(runExit[i]) \in Nat \ {0}
  BY <1>1, EmptySeq, Zenon
<1>3. 1 \in DOMAIN runExit[i]
  <2>1. DOMAIN runExit[i] = 1..Len(runExit[i])
    BY <1>1, LenProperties, Zenon
  <2>2. 1 \in 1..Len(runExit[i])
    BY <1>2
  <2> QED BY <2>1, <2>2
<1>4. runExit[i][1] = TRUE
  BY <1>1, HeadIsFirst
<1>5. tunnel[i] = "down"
  BY <1>3, <1>4 DEF IInv, SignalsMatchClient
<1> QED BY <1>1, <1>5 DEF IInv, ClientMatchesPhase, StatusFitsPlace, Status

LEMMA LeavesDisabled ==
  ASSUME IInv, NEW i \in Inst, InstanceStep(i), NEW j \in Inst,
         status[j] = "Disabled", status'[j] # "Disabled"
  PROVE  TakesNext(j, "Enable")
<1>1. QueuesOK /\ StatusFitsPlace(i) /\ status \in [Inst -> Status]
  BY ControlTypeParts DEF IInv, TypeOK, FieldsOK
<1>2. CASE Confirm(i) \/ Replay(i) \/ Drain(i) \/ Disable(i) \/ DrainDisable(i) \/ CutConns(i)
  BY <1>1, <1>2, ControlGuards DEF Confirm, Replay, Drain, Disable, DrainDisable, CutConns,
     DrainExpire, SetStatus, StatusFitsPlace
<1>3. CASE LoseTunnel(i)
  BY <1>1, <1>3, LosesClient DEF LoseTunnel, HandleLost, SetStatus
<1>4. CASE Enable(i)
  <2>1. j = i /\ Dequeue(i, "Enable")
    BY <1>1, <1>4 DEF Enable, SetStatus, Takes
  <2> QED BY <1>1, <2>1, DequeuesNext
<1> QED BY <1>2, <1>3, <1>4, StatusMoves

(* Only Enable ends Disabled: a drain that expires is one of a Draining
   instance, and a signal that counts as current is about a client, which a
   Disabled instance has none of (instance.go:310, :351, :406). *)
THEOREM DisabledUntilEnabledAlways == Spec => DisabledUntilEnabled
<1>1. IInv /\ [Next]_vars =>
        [\A i \in Inst : status[i] = "Disabled" /\ status'[i] # "Disabled" =>
           TakesNext(i, "Enable")]_vars
  <2> SUFFICES ASSUME IInv, Next, NEW j \in Inst, status[j] = "Disabled",
                      status'[j] # "Disabled"
               PROVE  TakesNext(j, "Enable")
    OBVIOUS
  <2>1. PICK i \in Inst : InstanceStep(i)
    BY DEF Next, TakeEvent, CloseContext, Terminated, vars, controlVars, face, InstanceStep
  <2> QED BY <2>1, LeavesDisabled
<1> QED BY <1>1, IInvInit, IInvStep, PTL DEF Spec, DisabledUntilEnabled

(* The steps that move the endpoint or cut connections. *)
LEMMA EndpointMoves ==
  ASSUME NEW i \in Inst, InstanceStep(i), epIdx' # epIdx
  PROVE  BuildClose(i) /\ ~keepState[i]
BY DEF InstanceStep, Manage, RunGoroutine, Environment, ControlOnly, ReplayIdentity,
       EnableClient, DisableClient, CutConns, EmitAndGoOn, StopInWait, CancelInWait,
       PanicOutside, ReleaseAll, BuildClose, BackoffExpire, Provision, AcquireSem, StartFail,
       StartOk, LoseTunnel, DiscardSignal, RunReturns, RunSignals, OrphanSignals, SendCommand,
       DialPick, DialEnd, CloseConn, ownVars, identityVars

(* Where a state file can be removed, the endpoint moves only when the
   identity is given up, in the same round of ensureClient
   (instance.go:419-428, :540). *)
THEOREM EndpointFollowsIdentityAlways ==
  ASSUME DiskFaults = FALSE
  PROVE  Spec => EndpointFollowsIdentity
<1>1. IInv /\ [Next]_vars =>
        [\A i \in Inst : stateFile[i] /\ stateFile'[i] => epIdx'[i] = epIdx[i]]_vars
  <2> SUFFICES ASSUME IInv, Next, NEW j \in Inst, stateFile[j], stateFile'[j],
                      epIdx'[j] # epIdx[j]
               PROVE  FALSE
    OBVIOUS
  <2>1. PICK i \in Inst : InstanceStep(i)
    BY DEF Next, TakeEvent, CloseContext, Terminated, vars, ownVars, identityVars, InstanceStep
  <2>2. BuildClose(i) /\ ~keepState[i]
    BY <2>1, EndpointMoves
  <2>3. stateFile' = [stateFile EXCEPT ![i] = FALSE] /\ NextEndpoint(i)
    BY <2>2 DEF BuildClose, RemoveState
  <2>4. stateFile \in [Inst -> BOOLEAN] /\ epIdx \in [Inst -> 0..(NumEndpoints - 1)]
    BY DEF IInv, TypeOK
  <2> QED BY <2>3, <2>4 DEF NextEndpoint
<1> QED BY <1>1, IInvInit, IInvStep, PTL DEF Spec, EndpointFollowsIdentity

(* An instance ends by finalize alone. *)
LEMMA StopsByFinalize ==
  ASSUME IInv, NEW i \in Inst, InstanceStep(i), NEW j \in Inst, ~Stopped(j), Stopped(j)'
  PROVE  j = i /\ ReleaseAll(i)
<1>1. pc \in [Inst -> Places] /\ out \in [Inst -> Message]
  BY DEF IInv, TypeOK, ControlTypeOK
<1>2. CASE UNCHANGED pc
  BY <1>2 DEF Stopped
<1>3. CASE ReleaseAll(i)
  BY <1>1, <1>3 DEF ReleaseAll, Finalize, Goto, Stopped
<1>4. CASE ControlOnly(i)
  BY <1>1, <1>4 DEF ControlOnly, Confirm, Reprobe, Drain, Stop, Ignore, Probe, ReprobeExpire,
     Report, Park, Goto, Stopped
<1>5. CASE ReplayIdentity(i) \/ EnableClient(i) \/ DisableClient(i) \/ CutConns(i)
           \/ LoseTunnel(i)
  BY <1>1, <1>5 DEF ReplayIdentity, EnableClient, DisableClient, CutConns, LoseTunnel, Replay,
     Enable, Disable, DrainDisable, DrainExpire, HandleLost, EmitNext, Goto, Stopped
<1>6. CASE EmitAndGoOn(i) \/ StopInWait(i) \/ CancelInWait(i) \/ PanicOutside(i) \/ StartOk(i)
  BY <1>1, <1>6 DEF EmitAndGoOn, StopInWait, CancelInWait, PanicOutside, StartOk, Emit, Resume,
     StopWait, Cancel, Interrupted, Panic, BuildDone, EmitNext, Goto, Stopped
<1> QED BY <1>2, <1>3, <1>4, <1>5, <1>6 DEF InstanceStep, Manage, RunGoroutine, Environment,
  BuildClose, BackoffExpire, Provision, AcquireSem, StartFail, DiscardSignal, RunReturns,
  RunSignals, OrphanSignals, SendCommand, DialPick, DialEnd, CloseConn, controlVars

(* A drain ends Draining only when its time is up, and then it cuts every
   connection, as finalize does (instance.go:390, :614). *)
LEMMA ConnsCut ==
  ASSUME IInv, NEW i \in Inst, InstanceStep(i), NEW j \in Inst,
         \/ status[j] = "Draining" /\ status'[j] = "Probing"
         \/ ~Stopped(j) /\ Stopped(j)'
  PROVE  conns'[j] = {}
<1>1. /\ StatusFitsPlace(i) /\ status \in [Inst -> Status] /\ conns \in [Inst -> SUBSET Conn]
  BY DEF IInv, TypeOK, ControlTypeOK
<1>2. CASE ~Stopped(j) /\ Stopped(j)'
  BY <1>1, <1>2, StopsByFinalize DEF ReleaseAll
<1>3. CASE status[j] = "Draining" /\ status'[j] = "Probing"
  <2>1. ~(Confirm(i) \/ Replay(i) \/ Drain(i) \/ Disable(i) \/ DrainDisable(i) \/ Enable(i))
    BY <1>1, <1>3, ControlGuards DEF Confirm, Replay, Drain, Disable, DrainDisable, Enable,
       SetStatus
  <2>2. ~LoseTunnel(i)
    BY <1>1, <1>3, LosesClient DEF LoseTunnel, HandleLost, SetStatus
  <2>3. CutConns(i)
    BY <1>3, <2>1, <2>2, StatusMoves
  <2>4. j = i
    BY <1>1, <1>3, <2>3 DEF CutConns, DrainExpire, SetStatus
  <2> QED BY <1>1, <2>3, <2>4 DEF CutConns
<1> QED BY <1>2, <1>3

(* A drain whose time is up and the end of an instance leave no registered
   connection open (instance.go:390, :614). *)
THEOREM ConnsAreCutAlways == Spec => ConnsAreCut
<1>1. IInv /\ [Next]_vars =>
        [\A i \in Inst :
           \/ status[i] = "Draining" /\ status'[i] = "Probing"
           \/ ~Stopped(i) /\ Stopped(i)'
           => conns'[i] = {}]_vars
  <2> SUFFICES ASSUME IInv, Next, NEW j \in Inst,
                      \/ status[j] = "Draining" /\ status'[j] = "Probing"
                      \/ ~Stopped(j) /\ Stopped(j)'
               PROVE  conns'[j] = {}
    OBVIOUS
  <2>1. PICK i \in Inst : InstanceStep(i)
    BY DEF Next, TakeEvent, CloseContext, Terminated, vars, controlVars, face, Stopped,
       InstanceStep
  <2> QED BY <2>1, ConnsCut
<1> QED BY <1>1, IInvInit, IInvStep, PTL DEF Spec, ConnsAreCut
==============================================================================
