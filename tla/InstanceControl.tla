--------------------------- MODULE InstanceControl ---------------------------
(***************************************************************************)
(* The control of an instance's management goroutine (instance.go, manage  *)
(* and what it calls): its status, its command channel, the commands it    *)
(* parks while it waits, and the events it reports to the pool.            *)
(*                                                                         *)
(* The goroutine is cut at the places where it can block or be observed,   *)
(* and pc[i] names the place:                                              *)
(*   none      not created yet                                             *)
(*   build     inside ensureClient                                         *)
(*   probe     inside prober.Probe, called by probeAndReport               *)
(*   emit      inside emit, sending out[i]                                 *)
(*   loop      at the top of the loop of manage                            *)
(*   drain     in the select of drain                                      *)
(*   reprobe   in waitBackoff, called by handle for cmdReprobe             *)
(*   finalize  manage has returned, recoverManage has not run              *)
(*   report    finalize has run, evStopped is not sent yet                 *)
(*   done      the goroutine has exited                                    *)
(*                                                                         *)
(* WarpInstance adds the client, the identity and the connections of an    *)
(* instance to these actions; WarpPool adds the coordinator.               *)
(***************************************************************************)
EXTENDS Naturals, Sequences

CONSTANTS
  Inst,        \* the instances
  Egress,      \* what a probe can return
  Zero,        \* the all-zero Egress{}: the probe found no address
  CmdCap,      \* cmdChanCap
  EventCap,    \* eventChanCap
  MaxPending   \* bound on the parked commands (a slice without bound in the code)

ASSUME ControlAssumption ==
  /\ Zero \in Egress
  /\ CmdCap \in Nat \ {0}
  /\ EventCap \in Nat \ {0}
  /\ MaxPending \in Nat \ {0}

VARIABLES
  pc,            \* [Inst -> place], see above
  status,        \* [Inst -> Status], the atomic the pool and dial read
  awaitConfirm,  \* [Inst -> BOOLEAN], a probe was reported and not confirmed
  egressVal,     \* [Inst -> Egress], the last egress that was found
  cmds,          \* [Inst -> Seq(CmdKind)], the command channel
  pending,       \* [Inst -> Seq(CmdKind)], commands parked by a wait
  replaying,     \* [Inst -> BOOLEAN], ensureClient was called by cmdReplay
  out,           \* [Inst -> Message], what emit is sending
  events,        \* the pool's event channel, shared by the instances
  ctxDone        \* the pool's context is cancelled

face == <<status, awaitConfirm, egressVal>>
queues == <<cmds, pending>>
controlVars == <<pc, status, awaitConfirm, egressVal, cmds, pending,
                 replaying, out, events, ctxDone>>

Status == {"Probing", "Normal", "Draining", "Disabled"}
CmdKind == {"Confirm", "Reprobe", "Replay", "Drain", "Disable", "Enable", "Stop"}
EvKind == {"Ready", "Lost", "Drained", "Replayed", "Disabled", "Stopped"}
Message == [kind : EvKind, egress : Egress]
Event == [inst : Inst, kind : EvKind, egress : Egress]

Places == {"none", "build", "probe", "emit", "loop", "drain", "reprobe",
           "finalize", "report", "done"}

Note(kind) == [kind |-> kind, egress |-> Zero]
EventOf(i, m) == [inst |-> i, kind |-> m.kind, egress |-> m.egress]

(* Every field of the shared state has its type and no channel exceeds its
   capacity. *)
ControlTypeOK ==
  /\ pc \in [Inst -> Places]
  /\ status \in [Inst -> Status]
  /\ awaitConfirm \in [Inst -> BOOLEAN]
  /\ egressVal \in [Inst -> Egress]
  /\ cmds \in [Inst -> Seq(CmdKind)]
  /\ pending \in [Inst -> Seq(CmdKind)]
  /\ replaying \in [Inst -> BOOLEAN]
  /\ out \in [Inst -> Message]
  /\ events \in Seq(Event)
  /\ ctxDone \in BOOLEAN
  /\ \A i \in Inst : Len(cmds[i]) <= CmdCap /\ Len(pending[i]) <= MaxPending
  /\ Len(events) <= EventCap

(* place is where the goroutines start: "none" for a pool that creates its
   instances, "build" for instances that newInstance has just started. *)
ControlInit(place) ==
  /\ pc = [i \in Inst |-> place]
  /\ status = [i \in Inst |-> "Probing"]
  /\ awaitConfirm = [i \in Inst |-> FALSE]
  /\ egressVal = [i \in Inst |-> Zero]
  /\ cmds = [i \in Inst |-> <<>>]
  /\ pending = [i \in Inst |-> <<>>]
  /\ replaying = [i \in Inst |-> FALSE]
  /\ out = [i \in Inst |-> Note("Stopped")]
  /\ events = <<>>
  /\ ctxDone = FALSE

-----------------------------------------------------------------------------
(* Building blocks *)

Goto(i, place) == pc' = [pc EXCEPT ![i] = place]
SetStatus(i, s) == status' = [status EXCEPT ![i] = s]
EmitNext(i, kind) == Goto(i, "emit") /\ out' = [out EXCEPT ![i] = Note(kind)]

Stopped(i) == pc[i] \in {"report", "done"}          \* in.stopped
Alive(i) == pc[i] \notin {"none", "report", "done"}

Accepts(i) == Alive(i) /\ Len(cmds[i]) < CmdCap

(* send: a command for a stopped instance or a full channel is dropped. *)
Send(i, c) == cmds' = IF Accepts(i) THEN [cmds EXCEPT ![i] = Append(@, c)] ELSE cmds

Receive(i, c) ==
  /\ cmds[i] # <<>>
  /\ c = Head(cmds[i])
  /\ cmds' = [cmds EXCEPT ![i] = Tail(@)]

(* The loop takes a parked command before it looks at the channel. *)
InLine(i) == pending[i] \o cmds[i]
TakesNext(i, c) == pc[i] = "loop" /\ InLine(i) # <<>> /\ Head(InLine(i)) = c

(* Faulty variant: a command in the channel goes first. *)
DequeueChannelFirst(i, c) ==
  /\ pc[i] = "loop"
  /\ \/ Receive(i, c) /\ UNCHANGED pending
     \/ /\ cmds[i] = <<>> /\ pending[i] # <<>>
        /\ c = Head(pending[i])
        /\ pending' = [pending EXCEPT ![i] = Tail(@)]
        /\ UNCHANGED cmds

Dequeue(i, c) ==
  /\ pc[i] = "loop"
  /\ \/ /\ pending[i] # <<>>
        /\ c = Head(pending[i])
        /\ pending' = [pending EXCEPT ![i] = Tail(@)]
        /\ UNCHANGED cmds
     \/ /\ pending[i] = <<>>
        /\ Receive(i, c)
        /\ UNCHANGED pending

(* The statuses in which handle acts on a command; elsewhere it ignores it. *)
Applies ==
  [c \in CmdKind |->
     CASE c = "Reprobe" -> {"Probing"}
       [] c \in {"Replay", "Drain"} -> {"Probing", "Normal"}
       [] c = "Disable" -> Status \ {"Disabled"}
       [] c = "Enable" -> {"Disabled"}
       [] OTHER -> Status]

Takes(i, c) == Dequeue(i, c) /\ status[i] \in Applies[c]

-----------------------------------------------------------------------------
(* handle, one action per command *)

(* Faulty variant: Confirm leaves awaitConfirm set. *)
ConfirmStillAwaiting(i) ==
  /\ Takes(i, "Confirm")
  /\ SetStatus(i, IF status[i] = "Probing" THEN "Normal" ELSE status[i])
  /\ UNCHANGED <<pc, awaitConfirm, egressVal, replaying, out, events, ctxDone>>

Confirm(i) ==
  /\ Takes(i, "Confirm")
  /\ awaitConfirm' = [awaitConfirm EXCEPT ![i] = FALSE]
  /\ SetStatus(i, IF status[i] = "Probing" THEN "Normal" ELSE status[i])
  /\ UNCHANGED <<pc, egressVal, replaying, out, events, ctxDone>>

Reprobe(i) ==
  /\ Takes(i, "Reprobe")
  /\ Goto(i, "reprobe")
  /\ UNCHANGED <<face, replaying, out, events, ctxDone>>

Replay(i) ==
  /\ Takes(i, "Replay")
  /\ SetStatus(i, "Probing")
  /\ replaying' = [replaying EXCEPT ![i] = TRUE]
  /\ Goto(i, "build")
  /\ UNCHANGED <<awaitConfirm, egressVal, out, events, ctxDone>>

Drain(i) ==
  /\ Takes(i, "Drain")
  /\ SetStatus(i, "Draining")
  /\ Goto(i, "drain")
  /\ UNCHANGED <<awaitConfirm, egressVal, replaying, out, events, ctxDone>>

Disable(i) ==
  /\ Takes(i, "Disable")
  /\ SetStatus(i, "Disabled")
  /\ EmitNext(i, "Disabled")
  /\ UNCHANGED <<awaitConfirm, egressVal, replaying, events, ctxDone>>

Enable(i) ==
  /\ Takes(i, "Enable")
  /\ SetStatus(i, "Probing")
  /\ Goto(i, "build")
  /\ UNCHANGED <<awaitConfirm, egressVal, replaying, out, events, ctxDone>>

Stop(i) ==
  /\ Takes(i, "Stop")
  /\ Goto(i, "finalize")
  /\ UNCHANGED <<face, replaying, out, events, ctxDone>>

Ignore(i) ==
  /\ \E c \in CmdKind : Dequeue(i, c) /\ status[i] \notin Applies[c]
  /\ UNCHANGED <<pc, face, replaying, out, events, ctxDone>>

-----------------------------------------------------------------------------
(* The waits: ensureClient's backoff, drain, and the backoff of cmdReprobe *)

Waiting == {"build", "reprobe", "drain"}

(* waitBackoff and drain keep a command for later, unless it is Stop, or
   Disable during a drain. *)
Park(i) ==
  /\ pc[i] \in Waiting
  /\ Len(pending[i]) < MaxPending
  /\ \E c \in CmdKind \ {"Stop"} :
       /\ pc[i] = "drain" => c # "Disable"
       /\ Receive(i, c)
       /\ pending' = [pending EXCEPT ![i] = Append(@, c)]
  /\ UNCHANGED <<pc, face, replaying, out, events, ctxDone>>

(* Faulty variant: the loop goes on after it has seen the cancellation. *)
InterruptedNoReturn(i) == IF pc[i] \in {"reprobe", "loop"} THEN "loop" ELSE "finalize"

(* Where an interrupted wait leads: ensureClient and drain report the end to
   manage, handle(cmdReprobe) drops waitBackoff's false and returns to the
   loop. *)
Interrupted(i) == IF pc[i] = "reprobe" THEN "loop" ELSE "finalize"

StopWait(i) ==
  /\ pc[i] \in Waiting
  /\ Receive(i, "Stop")
  /\ Goto(i, Interrupted(i))
  /\ UNCHANGED <<face, pending, replaying, out, events, ctxDone>>

Cancel(i) ==
  /\ ctxDone
  /\ pc[i] \in Waiting \cup {"loop"}
  /\ pc[i] = "loop" => pending[i] = <<>>
  /\ Goto(i, Interrupted(i))
  /\ UNCHANGED <<face, queues, replaying, out, events, ctxDone>>

ReprobeExpire(i) ==
  /\ pc[i] = "reprobe"
  /\ Goto(i, "probe")
  /\ UNCHANGED <<face, queues, replaying, out, events, ctxDone>>

DrainExpire(i) ==
  /\ pc[i] = "drain"
  /\ SetStatus(i, "Probing")
  /\ EmitNext(i, "Drained")
  /\ UNCHANGED <<awaitConfirm, egressVal, queues, replaying, events, ctxDone>>

(* A Disable that interrupts a drain is not reported to the pool. *)
DrainDisable(i) ==
  /\ pc[i] = "drain"
  /\ Receive(i, "Disable")
  /\ SetStatus(i, "Disabled")
  /\ Goto(i, "loop")
  /\ UNCHANGED <<awaitConfirm, egressVal, pending, replaying, out, events, ctxDone>>

-----------------------------------------------------------------------------
(* The rest of the goroutine *)

(* newInstance *)
Create(i) ==
  /\ pc[i] = "none"
  /\ Goto(i, "build")
  /\ UNCHANGED <<face, queues, replaying, out, events, ctxDone>>

(* ensureClient returns true. *)
BuildDone(i) ==
  /\ pc[i] = "build"
  /\ replaying' = [replaying EXCEPT ![i] = FALSE]
  /\ \/ replaying[i] /\ EmitNext(i, "Replayed")
     \/ ~replaying[i] /\ Goto(i, "probe") /\ UNCHANGED out
  /\ UNCHANGED <<face, queues, events, ctxDone>>

(* probeAndReport: a failed probe is reported as the zero egress. *)
Probe(i) ==
  /\ pc[i] = "probe"
  /\ \E eg \in Egress :
       /\ egressVal' = [egressVal EXCEPT ![i] = IF eg = Zero THEN @ ELSE eg]
       /\ out' = [out EXCEPT ![i] = [kind |-> "Ready", egress |-> eg]]
  /\ awaitConfirm' = [awaitConfirm EXCEPT ![i] = TRUE]
  /\ Goto(i, "emit")
  /\ UNCHANGED <<status, queues, replaying, events, ctxDone>>

(* What follows each emit in the code. *)
Resume(kind) ==
  CASE kind \in {"Lost", "Drained"} -> "build"
    [] kind = "Replayed" -> "probe"
    [] OTHER -> "loop"

(* Faulty variant: emit blocks until there is room, the context being
   cancelled or not. *)
EmitBlocking(i) ==
  /\ pc[i] = "emit"
  /\ Len(events) < EventCap
  /\ events' = Append(events, EventOf(i, out[i]))
  /\ Goto(i, Resume(out[i].kind))
  /\ out' = [out EXCEPT ![i] = Note("Stopped")]
  /\ UNCHANGED <<face, queues, replaying, ctxDone>>

Emit(i) ==
  /\ pc[i] = "emit"
  /\ \/ Len(events) < EventCap /\ events' = Append(events, EventOf(i, out[i]))
     \/ ctxDone /\ UNCHANGED events
  /\ Goto(i, Resume(out[i].kind))
  /\ out' = [out EXCEPT ![i] = Note("Stopped")]
  /\ UNCHANGED <<face, queues, replaying, ctxDone>>

(* handleLost, called when the signal of the current client is received. *)
HandleLost(i) ==
  /\ pc[i] = "loop"
  /\ pending[i] = <<>>
  /\ SetStatus(i, "Probing")
  /\ EmitNext(i, "Lost")
  /\ UNCHANGED <<awaitConfirm, egressVal, queues, replaying, events, ctxDone>>

(* A prober, factory or credential source supplied by the user may panic;
   recoverManage turns that into the end of the instance. *)
Panic(i) ==
  /\ pc[i] \in {"build", "probe"}
  /\ Goto(i, "finalize")
  /\ UNCHANGED <<face, queues, replaying, out, events, ctxDone>>

(* finalize; nobody reads the queues any more. *)
Finalize(i) ==
  /\ pc[i] = "finalize"
  /\ Goto(i, "report")
  /\ cmds' = [cmds EXCEPT ![i] = <<>>]
  /\ pending' = [pending EXCEPT ![i] = <<>>]
  /\ UNCHANGED <<face, replaying, out, events, ctxDone>>

(* recoverManage reports evStopped without blocking: a full channel loses it. *)
Report(i) ==
  /\ pc[i] = "report"
  /\ Goto(i, "done")
  /\ events' = IF Len(events) < EventCap
               THEN Append(events, EventOf(i, Note("Stopped")))
               ELSE events
  /\ UNCHANGED <<face, queues, replaying, out, ctxDone>>
=============================================================================
