---------------------------- MODULE WarpPoolUnique ----------------------------
(***************************************************************************)
(* No two Normal instances share a key as long as nothing has gone wrong,   *)
(* for any number of instances and keys.                                    *)
(*                                                                          *)
(* The argument is that an undisturbed instance is always in one of three   *)
(* phases: it is trying (it is in a round, or its report is under way, and  *)
(* nobody has judged it), it has been told to try again (one verdict is in  *)
(* line and nothing else is under way), or it has been admitted with the    *)
(* key of the egress it has, and nothing that could change either is under  *)
(* way.  A verdict that is late finds the egress it was made for.           *)
(***************************************************************************)
EXTENDS WarpPoolProofs

(* The command channel *)
AllStop(s) == \A n \in 1..Len(s) : s[n] = "Stop"
Assents(s) == \A n \in 1..Len(s) : s[n] \in {"Confirm", "Stop"}
Retries(s) ==
  \E n \in 1..Len(s) :
    /\ s[n] \in {"Reprobe", "Replay"}
    /\ \A m \in 1..Len(s) : m # n => s[m] = "Stop"

(* The event channel, seen by instance i with egress v *)
Fits(eg, v) == eg = Zero \/ eg = v
Mute(i, q) == \A n \in 1..Len(q) : q[n].inst = i => q[n].kind = "Stopped"
NoReady(i, q) == \A n \in 1..Len(q) : q[n].inst = i => q[n].kind # "Ready"
Reports(i, q, v) ==
  \A n \in 1..Len(q) : q[n].inst = i =>
    /\ q[n].kind \in {"Ready", "Replayed", "Stopped"}
    /\ q[n].kind = "Ready" =>
         /\ Fits(q[n].egress, v)
         /\ \A m \in 1..Len(q) : n < m /\ q[m].inst = i => q[m].kind = "Stopped"

Running == {"build", "probe", "emit", "reprobe"}

Undecisive(i) == keyOf[i] = Undecided /\ status[i] = "Probing" /\ pc[i] # "none"

Fresh(i) ==
  keyOf[i] = Undecided /\ status[i] = "Probing" /\ pc[i] = "none" /\ cmds[i] = <<>>

Trying(i) ==
  /\ Undecisive(i) /\ AllStop(cmds[i])
  /\ Reports(i, events, egressVal[i])
  /\ pc[i] \in Running => NoReady(i, events)
  /\ pc[i] = "emit" => \/ out[i].kind = "Ready" /\ Fits(out[i].egress, egressVal[i])
                       \/ out[i].kind = "Replayed"

Told(i) ==
  /\ Undecisive(i) /\ Retries(cmds[i])
  /\ pc[i] \notin Running /\ Mute(i, events)

Admitted(i) ==
  /\ keyOf[i] # Undecided
  /\ egressVal[i] \in Key => keyOf[i] = egressVal[i]
  /\ status[i] \in {"Probing", "Normal"} /\ Assents(cmds[i])
  /\ pc[i] \notin Running \cup {"none"} /\ Mute(i, events)

Gone(i) == i \notin members /\ pc[i] = "done"

Stands(i) ==
  /\ pending[i] = <<>> /\ pc[i] # "drain"
  /\ Fresh(i) \/ Trying(i) \/ Told(i) \/ Admitted(i) \/ Gone(i)

Undisturbed == requests = {} /\ at # "patrol" /\ \A i \in Inst : Stands(i)

UniqueInv == troubles = 0 => Undisturbed

-----------------------------------------------------------------------------
(* The channels *)

LEMMA LineGrows ==
  ASSUME NEW s \in Seq(CmdKind), NEW c \in CmdKind
  PROVE  /\ AllStop(s) /\ c = "Stop" => AllStop(Append(s, c))
         /\ Assents(s) /\ c \in {"Stop", "Confirm"} => Assents(Append(s, c))
         /\ Retries(s) /\ c = "Stop" => Retries(Append(s, c))
         /\ AllStop(s) /\ c \in {"Reprobe", "Replay"} => Retries(Append(s, c))
         /\ AllStop(s) => Assents(s)
<1>1. /\ Len(s) \in Nat /\ Len(Append(s, c)) = Len(s) + 1
      /\ \A n \in 1..Len(s) : Append(s, c)[n] = s[n]
      /\ Append(s, c)[Len(s) + 1] = c
  BY AppendProperties, LenProperties
<1>2. \A n \in 1..Len(Append(s, c)) : n \in 1..Len(s) \/ n = Len(s) + 1
  BY <1>1
<1>3. \A n \in 1..Len(s) : n \in 1..Len(Append(s, c)) /\ n # Len(s) + 1
  BY <1>1
<1>4. Len(s) + 1 \in 1..Len(Append(s, c))
  BY <1>1
<1>5. AllStop(s) => Assents(s)
  BY DEF AllStop, Assents
<1>6. /\ AllStop(s) /\ c = "Stop" => AllStop(Append(s, c))
      /\ Assents(s) /\ c \in {"Stop", "Confirm"} => Assents(Append(s, c))
  BY <1>1, <1>2 DEF AllStop, Assents
<1>7. ASSUME Retries(s), c = "Stop" PROVE Retries(Append(s, c))
  <2>1. PICK n \in 1..Len(s) : /\ s[n] \in {"Reprobe", "Replay"}
                               /\ \A m \in 1..Len(s) : m # n => s[m] = "Stop"
    BY <1>7 DEF Retries
  <2>2. \A m \in 1..Len(Append(s, c)) : m # n => Append(s, c)[m] = "Stop"
    BY <1>1, <1>2, <1>7, <2>1
  <2> QED BY <1>1, <1>3, <2>1, <2>2 DEF Retries
<1>8. ASSUME AllStop(s), c \in {"Reprobe", "Replay"} PROVE Retries(Append(s, c))
  <2>1. \A m \in 1..Len(Append(s, c)) : m # Len(s) + 1 => Append(s, c)[m] = "Stop"
    BY <1>1, <1>2, <1>8 DEF AllStop
  <2> QED BY <1>1, <1>4, <1>8, <2>1 DEF Retries
<1> QED BY <1>5, <1>6, <1>7, <1>8

LEMMA NothingInLine == AllStop(<<>>) /\ Assents(<<>>)
BY EmptySeq DEF AllStop, Assents

LEMMA LineMoves ==
  ASSUME NEW s \in Seq(CmdKind), s # <<>>
  PROVE  /\ AllStop(s) => Head(s) = "Stop" /\ AllStop(Tail(s))
         /\ Assents(s) => Head(s) \in {"Confirm", "Stop"} /\ Assents(Tail(s))
         /\ Retries(s) => \/ Head(s) = "Stop" /\ Retries(Tail(s))
                          \/ Head(s) \in {"Reprobe", "Replay"} /\ AllStop(Tail(s))
<1>1. /\ Len(s) \in Nat \ {0} /\ Head(s) = s[1] /\ Len(Tail(s)) = Len(s) - 1
      /\ \A n \in 1..Len(Tail(s)) : Tail(s)[n] = s[n + 1]
  BY HeadTailProperties, LenProperties, EmptySeq
<1>2. /\ 1 \in 1..Len(s)
      /\ \A n \in 1..Len(Tail(s)) : n + 1 \in 1..Len(s) /\ n + 1 # 1
  BY <1>1
<1>3. /\ AllStop(s) => Head(s) = "Stop" /\ AllStop(Tail(s))
      /\ Assents(s) => Head(s) \in {"Confirm", "Stop"} /\ Assents(Tail(s))
  BY <1>1, <1>2 DEF AllStop, Assents
<1>4. ASSUME Retries(s)
      PROVE  \/ Head(s) = "Stop" /\ Retries(Tail(s))
             \/ Head(s) \in {"Reprobe", "Replay"} /\ AllStop(Tail(s))
  <2>1. PICK n \in 1..Len(s) : /\ s[n] \in {"Reprobe", "Replay"}
                               /\ \A m \in 1..Len(s) : m # n => s[m] = "Stop"
    BY <1>4 DEF Retries
  <2>2. CASE n = 1
    BY <1>1, <1>2, <2>1, <2>2 DEF AllStop
  <2>3. CASE n # 1
    <3>1. n - 1 \in 1..Len(Tail(s)) /\ Tail(s)[n - 1] = s[n]
      BY <1>1, <2>1, <2>3
    <3>2. \A m \in 1..Len(Tail(s)) : m # n - 1 => Tail(s)[m] = "Stop"
      BY <1>1, <1>2, <2>1
    <3> QED BY <1>1, <1>2, <2>1, <2>3, <3>1, <3>2 DEF Retries
  <2> QED BY <2>2, <2>3
<1> QED BY <1>3, <1>4

LEMMA QueueMoves ==
  ASSUME NEW q \in Seq(Event), q # <<>>, NEW i \in Inst, NEW v
  PROVE  /\ Mute(i, q) => Mute(i, Tail(q))
         /\ NoReady(i, q) => NoReady(i, Tail(q))
         /\ Reports(i, q, v) => Reports(i, Tail(q), v)
         /\ Reports(i, q, v) /\ Head(q).inst = i /\ Head(q).kind = "Ready"
              => Fits(Head(q).egress, v) /\ Mute(i, Tail(q)) /\ ~NoReady(i, q)
         /\ Head(q).inst = i /\ Head(q).kind # "Stopped" => ~Mute(i, q)
<1>1. /\ Len(q) \in Nat \ {0} /\ Head(q) = q[1] /\ Len(Tail(q)) = Len(q) - 1
      /\ \A n \in 1..Len(Tail(q)) : Tail(q)[n] = q[n + 1]
  BY HeadTailProperties, LenProperties, EmptySeq
<1>2. /\ 1 \in 1..Len(q)
      /\ \A n \in 1..Len(Tail(q)) : n + 1 \in 1..Len(q) /\ 1 < n + 1
      /\ \A m, n \in 1..Len(Tail(q)) : m < n => m + 1 < n + 1
  BY <1>1
<1>3. /\ Mute(i, q) => Mute(i, Tail(q))
      /\ NoReady(i, q) => NoReady(i, Tail(q))
  BY <1>1, <1>2 DEF Mute, NoReady
<1>4. Reports(i, q, v) => Reports(i, Tail(q), v)
  BY <1>1, <1>2 DEF Reports
<1>5. Reports(i, q, v) /\ Head(q).inst = i /\ Head(q).kind = "Ready"
        => Fits(Head(q).egress, v) /\ Mute(i, Tail(q)) /\ ~NoReady(i, q)
  BY <1>1, <1>2 DEF Reports, Mute, NoReady
<1>6. Head(q).inst = i /\ Head(q).kind # "Stopped" => ~Mute(i, q)
  BY <1>1, <1>2 DEF Mute
<1> QED BY <1>3, <1>4, <1>5, <1>6

LEMMA QueueIsMute ==
  ASSUME NEW q, NEW i, NEW v, Mute(i, q)
  PROVE  Reports(i, q, v) /\ NoReady(i, q)
BY DEF Mute, Reports, NoReady

LEMMA QueueAppends ==
  ASSUME NEW q \in Seq(Event), NEW e \in Event, NEW i \in Inst, NEW v
  PROVE  /\ e.inst # i \/ e.kind = "Stopped" =>
              /\ Mute(i, q) => Mute(i, Append(q, e))
              /\ NoReady(i, q) => NoReady(i, Append(q, e))
              /\ Reports(i, q, v) => Reports(i, Append(q, e), v)
         /\ Reports(i, q, v) /\ NoReady(i, q) /\ e.kind = "Replayed" =>
              Reports(i, Append(q, e), v) /\ NoReady(i, Append(q, e))
         /\ Reports(i, q, v) /\ NoReady(i, q) /\ e.kind = "Ready" /\ Fits(e.egress, v) =>
              Reports(i, Append(q, e), v)
<1>1. /\ Len(q) \in Nat /\ Len(Append(q, e)) = Len(q) + 1
      /\ \A n \in 1..Len(q) : Append(q, e)[n] = q[n]
      /\ Append(q, e)[Len(q) + 1] = e
  BY AppendProperties, LenProperties
<1>2. /\ \A n \in 1..Len(Append(q, e)) : n \in 1..Len(q) \/ n = Len(q) + 1
      /\ \A n \in 1..Len(Append(q, e)) : ~(Len(q) + 1 < n)
  BY <1>1
<1>4. ASSUME e.inst # i \/ e.kind = "Stopped"
      PROVE  /\ Mute(i, q) => Mute(i, Append(q, e))
             /\ NoReady(i, q) => NoReady(i, Append(q, e))
  BY <1>1, <1>2, <1>4 DEF Mute, NoReady
<1>5. ASSUME e.inst # i \/ e.kind = "Stopped", Reports(i, q, v)
      PROVE  Reports(i, Append(q, e), v)
  BY <1>1, <1>2, <1>5 DEF Reports
<1>6. ASSUME Reports(i, q, v), NoReady(i, q), e.kind = "Replayed"
      PROVE  Reports(i, Append(q, e), v) /\ NoReady(i, Append(q, e))
  BY <1>1, <1>2, <1>6 DEF Reports, NoReady
<1>7. ASSUME Reports(i, q, v), NoReady(i, q), e.kind = "Ready", Fits(e.egress, v)
      PROVE  Reports(i, Append(q, e), v)
  BY <1>1, <1>2, <1>7 DEF Reports, NoReady
<1> QED BY <1>4, <1>5, <1>6, <1>7

-----------------------------------------------------------------------------
(* An instance to which nothing happens but a Stop, a repeated Confirm, or the
   progress of the event channel *)

QueueKeeps(i) ==
  \/ events' = events \/ TakesEvent
  \/ \E e \in Event : events' = Append(events, e) /\ (e.inst # i \/ e.kind = "Stopped")

LineKeeps(i) ==
  \/ cmds'[i] = cmds[i]
  \/ cmds'[i] = Append(cmds[i], "Stop") /\ Accepts(i)
  \/ cmds'[i] = Append(cmds[i], "Confirm") /\ Accepts(i) /\ keyOf[i] # Undecided

LEMMA ChannelsKept ==
  ASSUME ControlTypeOK, NEW i \in Inst, QueueKeeps(i), NEW v
  PROVE  /\ Mute(i, events) => Mute(i, events')
         /\ NoReady(i, events) => NoReady(i, events')
         /\ Reports(i, events, v) => Reports(i, events', v)
<1>1. events \in Seq(Event)
  BY DEF ControlTypeOK
<1>2. CASE TakesEvent
  <2>1. events # <<>> /\ events' = Tail(events)
    BY <1>2, Zenon DEF TakesEvent
  <2> QED BY <1>1, <2>1, QueueMoves
<1>3. ASSUME NEW e \in Event, events' = Append(events, e), e.inst # i \/ e.kind = "Stopped"
      PROVE  /\ Mute(i, events) => Mute(i, events')
             /\ NoReady(i, events) => NoReady(i, events')
             /\ Reports(i, events, v) => Reports(i, events', v)
  BY <1>1, <1>3, QueueAppends
<1> QED BY <1>2, <1>3 DEF QueueKeeps

LEMMA Bystander ==
  ASSUME ControlTypeOK, NEW i \in Inst, Stands(i),
         pc'[i] = pc[i], status'[i] = status[i], egressVal'[i] = egressVal[i],
         pending'[i] = pending[i], out'[i] = out[i], keyOf'[i] = keyOf[i],
         i \in members' => i \in members, LineKeeps(i), QueueKeeps(i)
  PROVE  Stands(i)'
<1>1. cmds[i] \in Seq(CmdKind)
  BY DEF ControlTypeOK
<1>2. "Stop" \in CmdKind /\ "Confirm" \in CmdKind
  BY DEF CmdKind
<1>3. CASE Fresh(i)
  <2>1. cmds'[i] = cmds[i]
    BY <1>3 DEF LineKeeps, Accepts, Alive, Fresh
  <2> QED BY <1>3, <2>1 DEF Stands, Fresh
<1>4. CASE Trying(i)
  <2>1. AllStop(cmds'[i])
    BY <1>1, <1>2, <1>4, LineGrows DEF LineKeeps, Trying, Undecisive
  <2>2. /\ Reports(i, events', egressVal'[i])
        /\ pc'[i] \in Running => NoReady(i, events')
    BY <1>4, ChannelsKept DEF Trying
  <2> QED BY <1>4, <2>1, <2>2 DEF Stands, Trying, Undecisive
<1>5. CASE Told(i)
  <2>1. Retries(cmds'[i])
    BY <1>1, <1>2, <1>5, LineGrows DEF LineKeeps, Told, Undecisive
  <2>2. Mute(i, events')
    BY <1>5, ChannelsKept DEF Told
  <2> QED BY <1>5, <2>1, <2>2 DEF Stands, Told, Undecisive
<1>6. CASE Admitted(i)
  <2>1. Assents(cmds'[i])
    BY <1>1, <1>2, <1>6, LineGrows DEF LineKeeps, Admitted
  <2>2. Mute(i, events')
    BY <1>6, ChannelsKept DEF Admitted
  <2> QED BY <1>6, <2>1, <2>2 DEF Stands, Admitted
<1>7. CASE Gone(i)
  BY <1>7 DEF Stands, Gone
<1> QED BY <1>3, <1>4, <1>5, <1>6, <1>7 DEF Stands

-----------------------------------------------------------------------------
(* The instance whose goroutine moves *)

LEMMA GoroutineOwns ==
  ASSUME ControlTypeOK, NEW i \in Inst, Handle(i) \/ Wait(i) \/ Proceed(i),
         NEW j \in Inst \ {i}
  PROVE  /\ pc'[j] = pc[j] /\ status'[j] = status[j] /\ egressVal'[j] = egressVal[j]
         /\ pending'[j] = pending[j] /\ out'[j] = out[j] /\ cmds'[j] = cmds[j]
<1>1. /\ pc \in [Inst -> Places] /\ status \in [Inst -> Status]
      /\ egressVal \in [Inst -> Egress] /\ out \in [Inst -> Message]
      /\ cmds \in [Inst -> Seq(CmdKind)] /\ pending \in [Inst -> Seq(CmdKind)]
  BY DEF ControlTypeOK
<1>2. ASSUME NEW c, Dequeue(i, c) PROVE pending'[j] = pending[j] /\ cmds'[j] = cmds[j]
  BY <1>1, <1>2 DEF Dequeue, Receive
<1>3. CASE Handle(i)
  BY <1>1, <1>2, <1>3 DEF Handle, Confirm, Reprobe, Replay, Drain, Disable, Enable, Stop,
     Ignore, Takes, Goto, SetStatus, EmitNext, face
<1>4. CASE Wait(i)
  BY <1>1, <1>4 DEF Wait, Park, StopWait, Cancel, ReprobeExpire, DrainExpire, DrainDisable,
     Receive, Goto, SetStatus, EmitNext, face, queues
<1>5. CASE Proceed(i)
  BY <1>1, <1>5 DEF Proceed, BuildDone, Probe, Emit, Finalize, Report, Goto, EmitNext,
     face, queues
<1> QED BY <1>3, <1>4, <1>5

LEMMA LoopTakes ==
  ASSUME ControlTypeOK, NEW i \in Inst, Stands(i), NEW c, Dequeue(i, c)
  PROVE  /\ pc[i] = "loop" /\ pending'[i] = <<>>
         /\ \/ Trying(i) /\ c = "Stop" /\ AllStop(cmds'[i])
            \/ Told(i) /\ c = "Stop" /\ Retries(cmds'[i])
            \/ Told(i) /\ c \in {"Reprobe", "Replay"} /\ AllStop(cmds'[i])
            \/ Admitted(i) /\ c \in {"Confirm", "Stop"} /\ Assents(cmds'[i])
<1>1. cmds[i] \in Seq(CmdKind) /\ cmds \in [Inst -> Seq(CmdKind)] /\ pending[i] = <<>>
  BY DEF ControlTypeOK, Stands
<1>2. /\ pc[i] = "loop" /\ cmds[i] # <<>> /\ c = Head(cmds[i])
      /\ cmds'[i] = Tail(cmds[i]) /\ pending'[i] = <<>>
  BY <1>1, Zenon DEF Dequeue, Receive
<1>3. Trying(i) \/ Told(i) \/ Admitted(i)
  BY <1>2 DEF Stands, Fresh, Gone
<1>4. /\ AllStop(cmds[i]) => c = "Stop" /\ AllStop(cmds'[i])
      /\ Assents(cmds[i]) => c \in {"Confirm", "Stop"} /\ Assents(cmds'[i])
      /\ Retries(cmds[i]) => \/ c = "Stop" /\ Retries(cmds'[i])
                             \/ c \in {"Reprobe", "Replay"} /\ AllStop(cmds'[i])
  BY <1>1, <1>2, LineMoves
<1> QED BY <1>2, <1>3, <1>4 DEF Trying, Told, Admitted

LEMMA HandleKeeps ==
  ASSUME ControlTypeOK, NEW i \in Inst, Stands(i), Handle(i), UNCHANGED poolVars
  PROVE  Stands(i)'
<1>1. /\ pc \in [Inst -> Places] /\ status \in [Inst -> Status]
      /\ keyOf' = keyOf
  BY DEF ControlTypeOK, poolVars, registryVars
<1>2. CASE Confirm(i)
  <2>1. Dequeue(i, "Confirm") /\ UNCHANGED <<pc, egressVal, out, events>>
        /\ status'[i] \in {status[i], "Normal"}
    BY <1>1, <1>2 DEF Confirm, Takes, SetStatus
  <2>2. Admitted(i) /\ Assents(cmds'[i]) /\ pending'[i] = <<>>
    BY <2>1, LoopTakes
  <2>3. Admitted(i)'
    BY <1>1, <2>1, <2>2 DEF Admitted
  <2> QED BY <2>1, <2>2, <2>3 DEF Stands
<1>3. CASE Reprobe(i) \/ Replay(i)
  <2>1. PICK c \in {"Reprobe", "Replay"} : Dequeue(i, c)
    BY <1>3 DEF Reprobe, Replay, Takes
  <2>2. Told(i) /\ AllStop(cmds'[i]) /\ pending'[i] = <<>>
    BY <2>1, LoopTakes
  <2>3. /\ UNCHANGED <<egressVal, out, events>> /\ status'[i] = "Probing"
        /\ pc'[i] \in {"reprobe", "build"}
    BY <1>1, <1>3, <2>2 DEF Reprobe, Replay, Goto, SetStatus, face, Told, Undecisive
  <2>4. Reports(i, events, egressVal[i]) /\ NoReady(i, events)
    BY <2>2, QueueIsMute DEF Told
  <2>5. Trying(i)'
    BY <1>1, <2>2, <2>3, <2>4 DEF Trying, Undecisive, Told
  <2> QED BY <2>2, <2>3, <2>5 DEF Stands
<1>4. CASE Stop(i)
  <2>1. /\ Dequeue(i, "Stop") /\ UNCHANGED <<status, egressVal, out, events>>
        /\ pc'[i] = "finalize"
    BY <1>1, <1>4 DEF Stop, Takes, Goto, face
  <2>2. /\ pc[i] = "loop" /\ pending'[i] = <<>>
        /\ \/ Trying(i) /\ AllStop(cmds'[i])
           \/ Told(i) /\ Retries(cmds'[i])
           \/ Admitted(i) /\ Assents(cmds'[i])
    BY <2>1, LoopTakes
  <2>3. Trying(i)' \/ Told(i)' \/ Admitted(i)'
    BY <1>1, <2>1, <2>2 DEF Trying, Told, Admitted, Undecisive, Running
  <2> QED BY <2>1, <2>2, <2>3 DEF Stands
<1>5. CASE Drain(i) \/ Disable(i) \/ Enable(i)
  <2>1. PICK c \in {"Drain", "Disable", "Enable"} : Dequeue(i, c)
    BY <1>5 DEF Drain, Disable, Enable, Takes
  <2> QED BY <2>1, LoopTakes
<1>6. CASE Ignore(i)
  <2>1. PICK c \in CmdKind : Dequeue(i, c) /\ status[i] \notin Applies[c]
    BY <1>6 DEF Ignore
  <2>2. \/ c \in {"Confirm", "Stop"}
        \/ c \in {"Reprobe", "Replay"} /\ status[i] = "Probing"
    BY <2>1, LoopTakes DEF Told, Undecisive
  <2>3. Applies["Confirm"] = Status /\ Applies["Stop"] = Status
    BY DEF Applies, CmdKind
  <2> QED BY <1>1, <2>1, <2>2, <2>3, AppliesValues
<1> QED BY <1>2, <1>3, <1>4, <1>5, <1>6 DEF Handle

LEMMA WaitKeeps ==
  ASSUME ControlTypeOK, NEW i \in Inst, Stands(i), Wait(i), UNCHANGED poolVars
  PROVE  Stands(i)'
<1>1. /\ pc \in [Inst -> Places] /\ keyOf' = keyOf /\ members' = members
      /\ cmds \in [Inst -> Seq(CmdKind)] /\ cmds[i] \in Seq(CmdKind)
  BY DEF ControlTypeOK, poolVars, registryVars, memberVars
<1>2. pc[i] \in Running \cup {"loop"} /\ pending[i] = <<>>
  BY DEF Wait, Park, StopWait, Cancel, ReprobeExpire, DrainExpire, DrainDisable, Waiting,
     Running, Stands
<1>3. pc[i] \in Running => Trying(i)
  BY DEF Stands, Fresh, Told, Admitted, Gone, Running
<1>4. ASSUME pc[i] \in Running, NEW c, Receive(i, c)
      PROVE  c = "Stop" /\ cmds'[i] = Tail(cmds[i]) /\ AllStop(cmds'[i])
  <2>1. cmds[i] # <<>> /\ c = Head(cmds[i]) /\ cmds'[i] = Tail(cmds[i])
    BY <1>1, <1>4, Zenon DEF Receive
  <2> QED BY <1>1, <1>3, <1>4, <2>1, LineMoves DEF Trying
<1>5. pc[i] # "drain"
  BY DEF Stands
<1>6. CASE Park(i)
  <2>1. PICK c \in CmdKind \ {"Stop"} : Receive(i, c)
    BY <1>6 DEF Park
  <2>2. pc[i] \in Running
    BY <1>5, <1>6 DEF Park, Waiting, Running
  <2> QED BY <1>4, <2>1, <2>2
<1>7. CASE StopWait(i)
  <2>1. /\ Receive(i, "Stop") /\ UNCHANGED <<face, pending, out, events>>
        /\ pc[i] \in {"build", "reprobe"} /\ pc'[i] \in {"loop", "finalize"}
    BY <1>1, <1>5, <1>7 DEF StopWait, Waiting, Goto, Interrupted
  <2>2. Trying(i) /\ AllStop(cmds'[i])
    BY <1>3, <1>4, <2>1 DEF Running
  <2>3. Trying(i)'
    BY <1>1, <2>1, <2>2 DEF Trying, Undecisive, face, Running
  <2> QED BY <1>2, <2>1, <2>3 DEF Stands
<1>8. CASE Cancel(i)
  <2>1. /\ UNCHANGED <<face, cmds, pending, out, events>>
        /\ pc[i] \in {"build", "reprobe", "loop"} /\ pc'[i] \in {"loop", "finalize"}
    BY <1>1, <1>5, <1>8 DEF Cancel, Waiting, Goto, Interrupted, queues
  <2>2. Trying(i) \/ Told(i) \/ Admitted(i)
    BY <2>1 DEF Stands, Fresh, Gone
  <2>3. Trying(i)' \/ Told(i)' \/ Admitted(i)'
    BY <1>1, <2>1, <2>2 DEF Trying, Told, Admitted, Undecisive, face, Running
  <2> QED BY <1>2, <2>1, <2>3 DEF Stands
<1>9. CASE ReprobeExpire(i)
  <2>1. /\ UNCHANGED <<face, cmds, pending, out, events>>
        /\ pc[i] = "reprobe" /\ pc'[i] = "probe"
    BY <1>1, <1>9 DEF ReprobeExpire, Goto, queues
  <2>2. Trying(i)'
    BY <1>1, <1>3, <2>1 DEF Trying, Undecisive, face, Running
  <2> QED BY <1>2, <2>1, <2>2 DEF Stands
<1>10. CASE DrainExpire(i) \/ DrainDisable(i)
  BY <1>5, <1>10 DEF DrainExpire, DrainDisable
<1> QED BY <1>6, <1>7, <1>8, <1>9, <1>10 DEF Wait

LEMMA ProceedKeeps ==
  ASSUME ControlTypeOK, NEW i \in Inst, Stands(i), Proceed(i), UNCHANGED poolVars
  PROVE  Stands(i)'
<1>1. /\ pc \in [Inst -> Places] /\ out \in [Inst -> Message] /\ keyOf' = keyOf
      /\ egressVal \in [Inst -> Egress] /\ cmds \in [Inst -> Seq(CmdKind)]
      /\ pending \in [Inst -> Seq(CmdKind)] /\ events \in Seq(Event)
      /\ members' = members /\ pending[i] = <<>>
  BY DEF ControlTypeOK, poolVars, registryVars, memberVars, Stands
<1>2. pc[i] \in Running => Trying(i) /\ NoReady(i, events)
  BY DEF Stands, Fresh, Told, Admitted, Gone, Running, Trying
<1>3. CASE BuildDone(i)
  <2>1. /\ UNCHANGED <<face, cmds, pending, events>> /\ pc[i] = "build"
        /\ \/ pc'[i] = "emit" /\ out'[i].kind = "Replayed"
           \/ pc'[i] = "probe"
    BY <1>1, <1>3 DEF BuildDone, EmitNext, Goto, Note, queues
  <2>2. Trying(i)'
    BY <1>1, <1>2, <2>1 DEF Trying, Undecisive, face, Running
  <2> QED BY <1>1, <2>1, <2>2 DEF Stands
<1>4. CASE Probe(i)
  <2>1. /\ UNCHANGED <<status, cmds, pending, events>> /\ pc[i] = "probe" /\ pc'[i] = "emit"
        /\ out'[i].kind = "Ready" /\ Fits(out'[i].egress, egressVal'[i])
    BY <1>1, <1>4 DEF Probe, Goto, Fits, queues
  <2>2. Trying(i) /\ NoReady(i, events)
    BY <1>2, <2>1 DEF Running
  <2>3. Reports(i, events, egressVal'[i])
    BY <2>2 DEF Trying, Reports, NoReady
  <2>4. Trying(i)'
    BY <1>1, <2>1, <2>2, <2>3 DEF Trying, Undecisive
  <2> QED BY <1>1, <2>1, <2>4 DEF Stands
<1>5. CASE Emit(i)
  <2>1. Trying(i) /\ NoReady(i, events) /\ pc[i] = "emit"
    BY <1>2, <1>5 DEF Emit, Running
  <2>2. /\ UNCHANGED <<face, cmds, pending>>
        /\ events' = events \/ events' = Append(events, EventOf(i, out[i]))
        /\ pc'[i] = IF out[i].kind = "Replayed" THEN "probe" ELSE "loop"
    BY <1>1, <1>5, <2>1 DEF Emit, Goto, Resume, Trying, queues
  <2>3. /\ EventOf(i, out[i]) \in Event /\ EventOf(i, out[i]).kind = out[i].kind
        /\ EventOf(i, out[i]).egress = out[i].egress
    BY <1>1 DEF EventOf, Event, Message
  <2>4. /\ Reports(i, events', egressVal[i])
        /\ out[i].kind = "Replayed" => NoReady(i, events')
    BY <1>1, <2>1, <2>2, <2>3, QueueAppends DEF Trying
  <2>5. Trying(i)'
    BY <1>1, <2>1, <2>2, <2>4 DEF Trying, Undecisive, face, Running
  <2> QED BY <1>1, <2>2, <2>5 DEF Stands
<1>6. CASE Finalize(i)
  <2>1. /\ UNCHANGED <<face, out, events>> /\ pc[i] = "finalize" /\ pc'[i] = "report"
        /\ cmds'[i] = <<>> /\ pending'[i] = <<>>
    BY <1>1, <1>6 DEF Finalize, Goto
  <2>2. Trying(i) \/ Told(i) \/ Admitted(i)
    BY <2>1 DEF Stands, Fresh, Gone
  <2>3. AllStop(cmds'[i]) /\ Assents(cmds'[i])
    BY <2>1, NothingInLine
  <2>4. Trying(i)' \/ Admitted(i)'
    BY <1>1, <2>1, <2>2, <2>3, QueueIsMute
       DEF Trying, Told, Admitted, Undecisive, face, Running
  <2> QED BY <2>1, <2>4 DEF Stands
<1>7. CASE Report(i)
  <2>1. /\ UNCHANGED <<face, cmds, pending, out>> /\ pc[i] = "report" /\ pc'[i] = "done"
        /\ events' = events \/ events' = Append(events, EventOf(i, Note("Stopped")))
    BY <1>1, <1>7 DEF Report, Goto, queues
  <2>2. EventOf(i, Note("Stopped")) \in Event /\ EventOf(i, Note("Stopped")).kind = "Stopped"
    BY NotesAreMessages DEF EventOf, Event, Note, EvKind, Message
  <2>3. QueueKeeps(i)
    BY <2>1, <2>2 DEF QueueKeeps
  <2>4. Trying(i) \/ Told(i) \/ Admitted(i)
    BY <2>1 DEF Stands, Fresh, Gone
  <2>5. Trying(i)' \/ Told(i)' \/ Admitted(i)'
    BY <1>1, <2>1, <2>3, <2>4, ChannelsKept
       DEF Trying, Told, Admitted, Undecisive, face, Running
  <2> QED BY <1>1, <2>1, <2>5 DEF Stands
<1> QED BY <1>3, <1>4, <1>5, <1>6, <1>7 DEF Proceed

LEMMA GoroutineKeeps ==
  ASSUME PoolInv, \A i \in Inst : Stands(i), NEW g \in Inst, Manage(g),
         troubles = 0, troubles' = 0
  PROVE  \A i \in Inst : Stands(i)'
<1>1. ControlTypeOK /\ troubles + 1 # 0
  BY DEF PoolInv
<1>2. Handle(g) \/ Wait(g) \/ Proceed(g)
  BY <1>1 DEF Manage, Trouble
<1>3. UNCHANGED poolVars
  BY <1>1 DEF Manage, Trouble
<1>4. keyOf' = keyOf /\ members' = members
  BY <1>3 DEF poolVars, registryVars, memberVars
<1>5. Stands(g)'
  BY <1>1, <1>2, <1>3, HandleKeeps, WaitKeeps, ProceedKeeps
<1>6. ASSUME NEW i \in Inst \ {g} PROVE Stands(i)'
  <2>1. \/ events' = events
        \/ \E m \in Message : events' = Append(events, EventOf(g, m))
    <3>1. out[g] \in Message /\ Note("Stopped") \in Message
      BY <1>1, NotesAreMessages DEF ControlTypeOK, EvKind
    <3> QED BY <1>1, <3>1, GoroutineMoves DEF Says
  <2>2. \A m \in Message : EventOf(g, m) \in Event /\ EventOf(g, m).inst # i
    BY <1>6 DEF EventOf, Event, Message
  <2>3. QueueKeeps(i)
    BY <2>1, <2>2 DEF QueueKeeps
  <2>4. /\ pc'[i] = pc[i] /\ status'[i] = status[i] /\ egressVal'[i] = egressVal[i]
        /\ pending'[i] = pending[i] /\ out'[i] = out[i] /\ cmds'[i] = cmds[i]
    BY <1>1, <1>2, GoroutineOwns
  <2> QED BY <1>1, <1>4, <2>3, <2>4, Bystander DEF LineKeeps
<1> QED BY <1>5, <1>6

-----------------------------------------------------------------------------
(* The coordinator *)

(* A step that moves no goroutine, releases no key and at most sends Stop, or
   Confirm to those it has admitted. *)
LEMMA AllBystanders ==
  ASSUME PoolInv, \A i \in Inst : Stands(i),
         UNCHANGED <<pc, face, pending, out, keyOf>>, members' \subseteq members,
         events' = events \/ TakesEvent, \A i \in Inst : LineKeeps(i)
  PROVE  \A i \in Inst : Stands(i)'
<1>1. ControlTypeOK
  BY DEF PoolInv
<1>2. UNCHANGED <<status, egressVal>>
  BY DEF face
<1>3. \A i \in Inst : QueueKeeps(i)
  BY DEF QueueKeeps
<1> QED BY <1>1, <1>2, <1>3, Bystander

(* The instance that has reported is trying. *)
LEMMA ReporterTries ==
  ASSUME PoolInv, events # <<>>, NEW i, i = Head(events).inst, i \in Inst => Stands(i),
         Head(events).kind # "Stopped"
  PROVE  /\ i \in members /\ i \in Inst /\ Trying(i)
         /\ Head(events).kind = "Ready" =>
              /\ Fits(Head(events).egress, egressVal[i])
              /\ pc[i] \notin Running /\ Mute(i, Tail(events))
<1>1. ControlTypeOK /\ events \in Seq(Event) /\ LastWords /\ Membership
  BY DEF PoolInv, ControlTypeOK
<1>2. Head(events) = events[1] /\ 1 \in 1..Len(events) /\ i \in Inst
  BY <1>1, HeadEvent
<1>3. i \in members /\ pc[i] # "none"
  BY <1>1, <1>2 DEF LastWords, Membership
<1>4. Trying(i)
  <2>1. ~Mute(i, events)
    BY <1>1, <1>2, QueueMoves
  <2> QED BY <1>2, <1>3, <2>1 DEF Stands, Fresh, Told, Admitted, Gone
<1>5. ASSUME Head(events).kind = "Ready"
      PROVE  /\ Fits(Head(events).egress, egressVal[i]) /\ pc[i] \notin Running
             /\ Mute(i, Tail(events))
  BY <1>1, <1>2, <1>4, <1>5, QueueMoves DEF Trying
<1> QED BY <1>2, <1>3, <1>4, <1>5

LEMMA SendFacts ==
  ASSUME ControlTypeOK, NEW i \in Inst, NEW c, Send(i, c)
  PROVE  /\ cmds'[i] = cmds[i] \/ cmds'[i] = Append(cmds[i], c)
         /\ \A j \in Inst \ {i} : cmds'[j] = cmds[j]
<1>1. cmds \in [Inst -> Seq(CmdKind)]
  BY DEF ControlTypeOK
<1> QED BY <1>1 DEF Send

LEMMA EgressValues == Zero \notin Key /\ Unkeyed \notin Key /\ Zero # Unkeyed
BY PoolAssumption

LEMMA JudgingKeeps ==
  ASSUME PoolInv, \A i \in Inst : Stands(i), TakeReady
  PROVE  \A i \in Inst : Stands(i)'
<1>0. PICK r, eg : r = Head(events).inst /\ eg = Head(events).egress
  OBVIOUS
<1>1. /\ events # <<>> /\ Head(events).kind = "Ready" /\ events' = Tail(events)
      /\ HandleReady(r, eg) /\ TakesEvent
      /\ UNCHANGED <<pc, face, pending, out, members>>
  BY <1>0, Zenon DEF TakeReady, TakesEvent, memberVars
<1>2. /\ r \in members /\ r \in Inst /\ Trying(r)
      /\ Fits(eg, egressVal[r]) /\ pc[r] \notin Running /\ Mute(r, events')
  BY <1>0, <1>1, ReporterTries
<1>3. /\ ControlTypeOK /\ cmds[r] \in Seq(CmdKind) /\ keyOf \in [Inst -> Key \cup {Undecided, Exempt}]
      /\ UNCHANGED <<status, egressVal>>
  BY <1>1, <1>2 DEF PoolInv, ControlTypeOK, RegistryOK, face
<1>4. /\ pending'[r] = <<>> /\ pc'[r] # "drain" /\ pc'[r] # "none" /\ pc'[r] = pc[r]
      /\ status'[r] = "Probing"
  BY <1>1, <1>2, <1>3 DEF Stands, Trying, Undecisive
<1>5. ASSUME NEW c \in CmdKind, Send(r, c), \A j \in Inst \ {r} : keyOf'[j] = keyOf[j]
      PROVE  \A j \in Inst \ {r} : Stands(j)'
  <2>1. \A j \in Inst \ {r} : LineKeeps(j) /\ QueueKeeps(j)
    BY <1>1, <1>2, <1>3, <1>5, SendFacts DEF LineKeeps, QueueKeeps
  <2> QED BY <1>1, <1>2, <1>3, <1>5, <2>1, Bystander
<1>6. ASSUME Send(r, "Confirm"), keyOf'[r] # Undecided,
             egressVal[r] \in Key => keyOf'[r] = egressVal[r],
             \A j \in Inst \ {r} : keyOf'[j] = keyOf[j]
      PROVE  \A i \in Inst : Stands(i)'
  <2>1. Assents(cmds'[r])
    BY <1>2, <1>3, <1>6, SendFacts, LineGrows DEF Trying, CmdKind
  <2>2. Admitted(r)'
    BY <1>1, <1>2, <1>3, <1>4, <1>6, <2>1 DEF Admitted, Running
  <2>3. Stands(r)'
    BY <1>4, <2>2 DEF Stands
  <2> QED BY <1>5, <1>6, <2>3 DEF CmdKind
<1>7. ASSUME NEW c \in {"Reprobe", "Replay"}, Send(r, c), keyOf' = keyOf
      PROVE  \A i \in Inst : Stands(i)'
  <2>1. AllStop(cmds'[r]) \/ Retries(cmds'[r])
    BY <1>2, <1>3, <1>7, SendFacts, LineGrows DEF Trying, CmdKind
  <2>2. Reports(r, events', egressVal'[r])
    BY <1>2, QueueIsMute
  <2>3. Trying(r)' \/ Told(r)'
    BY <1>1, <1>2, <1>3, <1>4, <1>7, <2>1, <2>2 DEF Trying, Told, Undecisive, Running
  <2>4. Stands(r)'
    BY <1>4, <2>3 DEF Stands
  <2> QED BY <1>5, <1>7, <2>4 DEF CmdKind
<1>8. CASE AdmitExempt(r, eg)
  <2>1. /\ eg = Unkeyed /\ keyOf'[r] = Exempt /\ Send(r, "Confirm")
        /\ \A j \in Inst \ {r} : keyOf'[j] = keyOf[j]
    BY <1>2, <1>3, <1>8 DEF AdmitExempt, MarkExempt
  <2>2. egressVal[r] \notin Key
    BY <1>2, <2>1, EgressValues DEF Fits
  <2> QED BY <1>6, <2>1, <2>2, KeyValues
<1>9. CASE AdmitUnique(r, eg)
  <2>1. /\ eg \in Key /\ keyOf'[r] = eg /\ Send(r, "Confirm")
        /\ \A j \in Inst \ {r} : keyOf'[j] = keyOf[j]
    BY <1>2, <1>3, <1>9 DEF AdmitUnique, Register
  <2>2. egressVal[r] = eg
    BY <1>2, <2>1, EgressValues DEF Fits
  <2> QED BY <1>6, <2>1, <2>2, KeyValues
<1>10. CASE RetryEmpty(r, eg) \/ ReplayEmpty(r, eg) \/ ReplayDuplicate(r, eg)
  BY <1>7, <1>10 DEF RetryEmpty, ReplayEmpty, ReplayDuplicate
<1> QED BY <1>1, <1>8, <1>9, <1>10 DEF HandleReady

LEMMA LeavingKeeps ==
  ASSUME PoolInv, \A i \in Inst : Stands(i), TakeLeft \/ TakeStopped
  PROVE  \A i \in Inst : Stands(i)'
<1>1. keyOf \in [Inst -> Key \cup {Undecided, Exempt}] /\ ControlTypeOK
  BY DEF PoolInv, RegistryOK
<1>2. CASE TakeLeft
  <2>1. /\ events # <<>> /\ Head(events).kind # "Stopped" /\ TakesEvent
        /\ ReleaseKey(Head(events).inst)
        /\ UNCHANGED <<pc, face, pending, out, cmds, members>>
    BY <1>2, Zenon DEF TakeLeft, TakesEvent, memberVars, queues
  <2>2. Head(events).inst \in Inst /\ keyOf[Head(events).inst] = Undecided
    BY <2>1, ReporterTries DEF Trying, Undecisive
  <2>3. keyOf' = keyOf
    BY <1>1, <2>1, <2>2 DEF ReleaseKey
  <2> QED BY <2>1, <2>3, AllBystanders DEF LineKeeps
<1>3. CASE TakeStopped
  <2>1. PICK r : r = Head(events).inst
    OBVIOUS
  <2>2. /\ r \in members /\ pc[r] = "done" /\ ReleaseKey(r) /\ TakesEvent
        /\ members' = members \ {r} /\ UNCHANGED <<pc, out>>
    BY <1>3, <2>1, RemoveFacts
  <2>3. UNCHANGED <<face, pending, cmds>>
    BY <1>3, Zenon DEF TakeStopped, queues
  <2>4. Stands(r)'
    BY <2>2, <2>3 DEF Stands, Gone, PoolInv, MembersOK
  <2>5. \A i \in Inst \ {r} : keyOf'[i] = keyOf[i] /\ LineKeeps(i) /\ QueueKeeps(i)
    BY <1>1, <2>2, <2>3 DEF ReleaseKey, LineKeeps, QueueKeeps
  <2>6. UNCHANGED <<status, egressVal>>
    BY <2>3 DEF face
  <2>7. \A i \in Inst \ {r} : Stands(i)'
    BY <1>1, <2>2, <2>3, <2>5, <2>6, Bystander
  <2> QED BY <2>4, <2>7
<1> QED BY <1>2, <1>3

LEMMA CreatingKeeps ==
  ASSUME PoolInv, \A i \in Inst : Stands(i), FillCreate
  PROVE  \A i \in Inst : Stands(i)'
<1>0. PICK born : born = nextSeq
  OBVIOUS
<1>1. /\ born \in Inst /\ born \notin members /\ pc[born] = "none"
      /\ pc' = [pc EXCEPT ![born] = "build"]
      /\ UNCHANGED <<out, events>> /\ members' = members \cup {born}
  BY <1>0, CreateFacts
<1>2. UNCHANGED <<status, egressVal, cmds, pending, keyOf>>
  BY DEF FillCreate, Create, face, queues, registryVars
<1>3. ControlTypeOK /\ pc \in [Inst -> Places] /\ LastWords
  BY DEF PoolInv, ControlTypeOK
<1>4. /\ keyOf[born] = Undecided /\ status[born] = "Probing"
      /\ cmds[born] = <<>> /\ pending[born] = <<>>
  BY <1>1 DEF Fresh, Stands, Trying, Told, Admitted, Gone, Undecisive
<1>5. Mute(born, events)
  BY <1>1, <1>3 DEF LastWords, Mute
<1>6. /\ pc'[born] = "build" /\ \A i \in Inst \ {born} : pc'[i] = pc[i]
  BY <1>1, <1>3
<1>7. Undecisive(born)'
  BY <1>2, <1>4, <1>6 DEF Undecisive
<1>8. AllStop(cmds'[born])
  BY <1>2, <1>4, NothingInLine
<1>9. Reports(born, events', egressVal'[born]) /\ NoReady(born, events')
  BY <1>1, <1>5, QueueIsMute
<1>10. Trying(born)'
  BY <1>6, <1>7, <1>8, <1>9 DEF Trying
<1>11. Stands(born)'
  BY <1>2, <1>4, <1>6, <1>10 DEF Stands
<1>12. ASSUME NEW i \in Inst \ {born} PROVE Stands(i)'
  BY <1>1, <1>2, <1>3, <1>6, Bystander DEF LineKeeps, QueueKeeps
<1> QED BY <1>1, <1>11, <1>12

LEMMA SendingKeeps ==
  ASSUME PoolInv, \A i \in Inst : Stands(i), EvictOnce \/ HealthResults \/ Reconfirm,
         troubles = 0, troubles' = 0
  PROVE  \A i \in Inst : Stands(i)'
<1>1. /\ UNCHANGED <<pc, face, pending, out, events, keyOf, members>>
  BY DEF EvictOnce, HealthResults, Reconfirm, registryVars, memberVars
<1>2. cmds \in [Inst -> Seq(CmdKind)]
  BY DEF PoolInv, ControlTypeOK
<1>3. \A i \in Inst : LineKeeps(i)
  <2>1. CASE EvictOnce
    BY <1>2, <2>1 DEF EvictOnce, SendAll, LineKeeps
  <2>2. CASE HealthResults
    <3>1. SendAll({}, "Drain")
      BY <2>2 DEF HealthResults, Trouble
    <3> QED BY <1>2, <3>1 DEF SendAll, LineKeeps
  <2>3. CASE Reconfirm
    BY <1>2, <2>3 DEF Reconfirm, Unconfirmed, SendAll, LineKeeps
  <2> QED BY <2>1, <2>2, <2>3
<1> QED BY <1>1, <1>3, AllBystanders

-----------------------------------------------------------------------------

LEMMA UniqueInvInit == Init => UniqueInv
<1> SUFFICES ASSUME Init PROVE Undisturbed
  BY DEF UniqueInv
<1>1. requests = {} /\ at = "align"
  BY DEF Init
<1>2. \A i \in Inst : Stands(i)
  BY DEF Init, ControlInit, Stands, Fresh
<1> QED BY <1>1, <1>2 DEF Undisturbed

LEMMA NothingAsked ==
  ASSUME Undisturbed, Next, troubles = 0, troubles' = 0
  PROVE  requests' = {} /\ at' # "patrol"
<1>1. requests = {} /\ at # "patrol" /\ troubles + 1 # 0
  BY DEF Undisturbed
<1>2. CASE TakeReady \/ TakeLeft \/ TakeStopped
  BY <1>1, <1>2, Zenon DEF TakeReady, TakeLeft, TakeStopped, ToSelect, ToAlign, userVars
<1>3. CASE CoordinatorPanic \/ EgressTick \/ RequestStatus
  BY <1>1, <1>3 DEF CoordinatorPanic, EgressTick, RequestStatus, Trouble
<1>4. CASE \/ Align \/ FillDone \/ FillFull \/ FillCreate \/ FillFails \/ EvictOnce
           \/ HealthTick \/ HealthResults \/ Reconfirm \/ PatrolResult \/ PatrolDone
           \/ WakeUp \/ CoordinatorExit
  BY <1>1, <1>4 DEF Align, FillDone, FillFull, FillCreate, FillFails, EvictOnce, HealthTick,
     HealthResults, Reconfirm, PatrolResult, PatrolDone, WakeUp, CoordinatorExit,
     ToSelect, ToAlign, userVars
<1>5. CASE SendRequest \/ TestMin \/ TestMax \/ StoreMin \/ StoreMax \/ Close \/ Terminated
  BY <1>1, <1>5 DEF SendRequest, TestMin, TestMax, StoreMin, StoreMax, Close, Terminated,
     vars, poolVars, userVars
<1>6. ASSUME NEW i \in Inst, Manage(i) PROVE UNCHANGED <<requests, at>>
  BY <1>6 DEF Manage, poolVars, userVars
<1> QED BY <1>1, <1>2, <1>3, <1>4, <1>5, <1>6 DEF Next, Coordinator, Users

LEMMA UndisturbedStays ==
  ASSUME PoolInv, Undisturbed, Next, troubles = 0, troubles' = 0
  PROVE  Undisturbed'
<1>1. /\ requests = {} /\ at # "patrol" /\ troubles + 1 # 0
      /\ \A i \in Inst : Stands(i)
  BY DEF Undisturbed
<1>2. CASE \/ TakeReady \/ TakeLeft \/ TakeStopped \/ FillCreate
           \/ EvictOnce \/ HealthResults \/ Reconfirm \/ \E i \in Inst : Manage(i)
  BY <1>1, <1>2, JudgingKeeps, LeavingKeeps, CreatingKeeps, SendingKeeps, GoroutineKeeps,
     NothingAsked DEF Undisturbed
<1>3. CASE CoordinatorPanic \/ EgressTick \/ RequestStatus \/ SendRequest \/ PatrolResult
           \/ PatrolDone
  BY <1>1, <1>3 DEF CoordinatorPanic, EgressTick, RequestStatus, SendRequest, PatrolResult,
     PatrolDone, Trouble
<1>4. ASSUME UNCHANGED <<pc, face, cmds, pending, out, events, keyOf, members>>
      PROVE  Undisturbed'
  <2>1. \A i \in Inst : LineKeeps(i)
    BY <1>4 DEF LineKeeps
  <2>2. \A i \in Inst : Stands(i)'
    BY <1>1, <1>4, <2>1, AllBystanders
  <2> QED BY <2>2, NothingAsked DEF Undisturbed
<1>5. CASE \/ Align \/ FillDone \/ FillFull \/ FillFails \/ HealthTick
           \/ WakeUp \/ CoordinatorExit \/ TestMin \/ TestMax \/ StoreMin \/ StoreMax
           \/ Close \/ Terminated
  BY <1>4, <1>5 DEF Align, FillDone, FillFull, FillFails, HealthTick, WakeUp,
     CoordinatorExit, TestMin, TestMax, StoreMin, StoreMax, Close, Terminated, vars,
     poolVars, registryVars, memberVars, controlVars, face, queues
<1> QED BY <1>2, <1>3, <1>5 DEF Next, Coordinator, Users

LEMMA TroublesGrow ==
  ASSUME Next, PoolInv PROVE troubles' = 0 => troubles = 0
<1>1. troubles \in Nat
  BY PoolAssumption DEF PoolInv, UsersOK
<1>2. troubles' = troubles \/ troubles' = troubles + 1
  <2>1. CASE TakeReady \/ TakeLeft \/ TakeStopped
    BY <2>1, Zenon DEF TakeReady, TakeLeft, TakeStopped, userVars
  <2>2. CASE CoordinatorPanic \/ EgressTick \/ RequestStatus
    BY <2>2 DEF CoordinatorPanic, EgressTick, RequestStatus, Trouble
  <2>3. CASE \/ Align \/ FillDone \/ FillFull \/ FillCreate \/ FillFails \/ EvictOnce
             \/ HealthTick \/ HealthResults \/ Reconfirm \/ PatrolResult \/ PatrolDone
             \/ WakeUp \/ CoordinatorExit
    BY <2>3 DEF Align, FillDone, FillFull, FillCreate, FillFails, EvictOnce, HealthTick,
       HealthResults, Reconfirm, PatrolResult, PatrolDone, WakeUp, CoordinatorExit,
       Trouble, userVars
  <2>4. CASE \/ SendRequest \/ TestMin \/ TestMax \/ StoreMin \/ StoreMax \/ Close
             \/ Terminated
    BY <2>4 DEF SendRequest, TestMin, TestMax, StoreMin, StoreMax, Close, Terminated,
       vars, poolVars, userVars
  <2>5. ASSUME NEW i \in Inst, Manage(i)
        PROVE  troubles' = troubles \/ troubles' = troubles + 1
    BY <2>5 DEF Manage, Trouble, poolVars, userVars
  <2> QED BY <2>1, <2>2, <2>3, <2>4, <2>5 DEF Next, Coordinator, Users
<1> QED BY <1>1, <1>2

LEMMA UniqueInvStays == PoolInv /\ UniqueInv /\ [Next]_vars => UniqueInv'
<1> SUFFICES ASSUME PoolInv, UniqueInv, [Next]_vars, troubles' = 0 PROVE Undisturbed'
  BY DEF UniqueInv
<1>1. CASE UNCHANGED vars
  BY <1>1 DEF UniqueInv, Undisturbed, Stands, Fresh, Trying, Told, Admitted, Gone,
     Undecisive, vars, poolVars, controlVars, registryVars, memberVars, userVars
<1>2. CASE Next
  <2>1. troubles = 0
    BY <1>2, TroublesGrow
  <2> QED BY <1>2, <2>1, UndisturbedStays DEF UniqueInv
<1> QED BY <1>1, <1>2

(* As long as nothing has gone wrong no two Normal instances share a key, also
   when verdicts arrive late, are repeated by the health tick or lost, and
   whatever is created, evicted and removed meanwhile (pool.go:174-216,
   :371-379, :530-544). *)
THEOREM UniqueAlways == Spec => []UniqueUndisturbed
<1>1. ASSUME PoolInv, UniqueInv PROVE UniqueUndisturbed
  <2> SUFFICES ASSUME troubles = 0, NEW i \in NormalMembers, NEW j \in NormalMembers,
                      i # j, egressVal[i] \in Key, egressVal[i] = egressVal[j]
               PROVE  FALSE
    BY DEF UniqueUndisturbed, Unique
  <2>1. ASSUME NEW x \in NormalMembers PROVE x \in Inst /\ Admitted(x)
    <3>1. x \in Inst /\ Stands(x) /\ x \in members /\ status[x] = "Normal"
      BY <1>1, <2>1 DEF UniqueInv, Undisturbed, NormalMembers, PoolInv, MembersOK
    <3> QED BY <3>1 DEF Stands, Fresh, Trying, Told, Undecisive, Gone
  <2>2. keyOf[i] = egressVal[i] /\ keyOf[j] = egressVal[i]
    BY <2>1 DEF Admitted
  <2> QED BY <1>1, <2>1, <2>2 DEF PoolInv, RegistryConsistent
<1>2. PoolInv /\ UniqueInv => UniqueUndisturbed
  BY <1>1
<1> QED BY <1>2, PoolInvAlways, UniqueInvInit, UniqueInvStays, PTL DEF Spec
=============================================================================
