------------------------ MODULE InstanceControlProofs ------------------------
(***************************************************************************)
(* What the actions of the management goroutine keep, whoever composes     *)
(* them: the types, and which status goes with which place.  Facts for the *)
(* proofs about WarpInstance, WarpPool and RetryCycle.                     *)
(***************************************************************************)
EXTENDS InstanceControl, SequenceTheorems, TLAPS

(* The parts of ControlTypeOK that an action disturbs together. *)
FieldsOK ==
  /\ pc \in [Inst -> Places]
  /\ status \in [Inst -> Status]
  /\ awaitConfirm \in [Inst -> BOOLEAN]
  /\ egressVal \in [Inst -> Egress]
  /\ replaying \in [Inst -> BOOLEAN]
  /\ out \in [Inst -> Message]
  /\ ctxDone \in BOOLEAN

QueuesOK ==
  /\ cmds \in [Inst -> Seq(CmdKind)]
  /\ pending \in [Inst -> Seq(CmdKind)]
  /\ \A i \in Inst : Len(cmds[i]) <= CmdCap /\ Len(pending[i]) <= MaxPending

EventsOK == events \in Seq(Event) /\ Len(events) <= EventCap

LEMMA ControlTypeParts == ControlTypeOK <=> FieldsOK /\ QueuesOK /\ EventsOK
BY Zenon DEF ControlTypeOK, FieldsOK, QueuesOK, EventsOK

LEMMA NotesAreMessages == \A kind \in EvKind : Note(kind) \in Message
BY ControlAssumption DEF Note, Message

-----------------------------------------------------------------------------
(* Sequences *)

LEMMA HeadIsFirst ==
  ASSUME NEW S, NEW s \in Seq(S), s # <<>>
  PROVE  Head(s) = s[1]
<1>1. Len(s) \in Nat \ {0}
  BY EmptySeq
<1>2. 1 \in 1..Len(s) /\ Len(s) \in 1..Len(s)
  BY <1>1
<1>3. Head(SubSeq(s, 1, Len(s))) = s[1]
  BY <1>2, HeadTailOfSubSeq
<1> QED BY <1>3, SubSeqFull

(* The head and the rest of two lines, one behind the other. *)
LEMMA ConcatMoves ==
  ASSUME NEW S, NEW s \in Seq(S), NEW t \in Seq(S), s # <<>>
  PROVE  /\ s \o t \in Seq(S) /\ s \o t # <<>>
         /\ Head(s \o t) = Head(s) /\ Tail(s \o t) = Tail(s) \o t
<1>1. Len(s) \in Nat \ {0} /\ Len(t) \in Nat
  BY EmptySeq, LenProperties
<1>2. /\ s \o t \in Seq(S) /\ Len(s \o t) = Len(s) + Len(t)
      /\ \A n \in 1..(Len(s) + Len(t)) :
           (s \o t)[n] = IF n <= Len(s) THEN s[n] ELSE t[n - Len(s)]
  BY ConcatProperties
<1>3. s \o t # <<>>
  BY <1>1, <1>2, EmptySeq
<1>4. Head(s \o t) = Head(s)
  <2>1. 1 \in 1..(Len(s) + Len(t)) /\ 1 <= Len(s)
    BY <1>1
  <2>2. Head(s \o t) = (s \o t)[1] /\ Head(s) = s[1]
    BY <1>2, <1>3, HeadIsFirst
  <2> QED BY <1>2, <2>1, <2>2
<1>5. Tail(s \o t) = Tail(s) \o t
  <2>1. /\ Tail(s) \in Seq(S) /\ Len(Tail(s)) = Len(s) - 1
        /\ \A n \in 1..Len(Tail(s)) : Tail(s)[n] = s[n + 1]
    BY HeadTailProperties
  <2>2. /\ Tail(s \o t) \in Seq(S) /\ Len(Tail(s \o t)) = Len(s \o t) - 1
        /\ \A n \in 1..Len(Tail(s \o t)) : Tail(s \o t)[n] = (s \o t)[n + 1]
    BY <1>2, <1>3, HeadTailProperties
  <2>3. /\ Tail(s) \o t \in Seq(S) /\ Len(Tail(s) \o t) = Len(Tail(s)) + Len(t)
        /\ \A n \in 1..(Len(Tail(s)) + Len(t)) :
             (Tail(s) \o t)[n] = IF n <= Len(Tail(s)) THEN Tail(s)[n] ELSE t[n - Len(Tail(s))]
    BY <2>1, ConcatProperties
  <2>4. Len(Tail(s \o t)) = Len(Tail(s) \o t)
    BY <1>1, <1>2, <2>1, <2>2, <2>3
  <2>5. ASSUME NEW n \in 1..Len(Tail(s \o t)) PROVE Tail(s \o t)[n] = (Tail(s) \o t)[n]
    <3>1. /\ n \in Nat \ {0} /\ n <= Len(Tail(s)) + Len(t) /\ n + 1 <= Len(s) + Len(t)
      BY <1>1, <1>2, <2>1, <2>2
    <3>2. Tail(s \o t)[n] = IF n + 1 <= Len(s) THEN s[n + 1] ELSE t[n + 1 - Len(s)]
      <4>1. n + 1 \in 1..(Len(s) + Len(t))
        BY <1>1, <3>1
      <4> QED BY <1>2, <2>2, <4>1
    <3>3. CASE n + 1 <= Len(s)
      <4>1. n \in 1..Len(Tail(s)) /\ n \in 1..(Len(Tail(s)) + Len(t)) /\ n <= Len(Tail(s))
        BY <1>1, <2>1, <3>1, <3>3
      <4> QED BY <2>1, <2>3, <3>2, <3>3, <4>1
    <3>4. CASE ~(n + 1 <= Len(s))
      <4>1. /\ n \in 1..(Len(Tail(s)) + Len(t)) /\ ~(n <= Len(Tail(s)))
            /\ n + 1 - Len(s) = n - Len(Tail(s))
        BY <1>1, <2>1, <3>1, <3>4
      <4> QED BY <2>3, <3>2, <3>4, <4>1
    <3> QED BY <3>3, <3>4
  <2> QED BY <2>2, <2>3, <2>4, <2>5, SeqEqual
<1> QED BY <1>2, <1>3, <1>4, <1>5

-----------------------------------------------------------------------------
(* Channels: a bounded queue of each instance, changed at one of them *)

LEMMA ShorterQueue ==
  ASSUME NEW S, NEW cap \in Nat, NEW q \in [Inst -> Seq(S)],
         \A j \in Inst : Len(q[j]) <= cap,
         NEW i \in Inst, q[i] # <<>>
  PROVE  /\ Head(q[i]) \in S
         /\ [q EXCEPT ![i] = Tail(@)] \in [Inst -> Seq(S)]
         /\ \A j \in Inst : Len([q EXCEPT ![i] = Tail(@)][j]) <= cap
<1>1. q[i] \in Seq(S) /\ Len(q[i]) \in Nat
  BY LenProperties
<1>2. Head(q[i]) \in S /\ Tail(q[i]) \in Seq(S) /\ Len(Tail(q[i])) = Len(q[i]) - 1
  BY <1>1, HeadTailProperties
<1>3. Len(Tail(q[i])) <= cap
  BY <1>1, <1>2
<1> QED BY <1>2, <1>3

LEMMA LongerQueue ==
  ASSUME NEW S, NEW cap \in Nat, NEW q \in [Inst -> Seq(S)],
         \A j \in Inst : Len(q[j]) <= cap,
         NEW i \in Inst, Len(q[i]) < cap, NEW x \in S
  PROVE  /\ [q EXCEPT ![i] = Append(@, x)] \in [Inst -> Seq(S)]
         /\ \A j \in Inst : Len([q EXCEPT ![i] = Append(@, x)][j]) <= cap
<1>1. q[i] \in Seq(S) /\ Len(q[i]) \in Nat
  BY LenProperties
<1>2. Append(q[i], x) \in Seq(S) /\ Len(Append(q[i], x)) = Len(q[i]) + 1
  BY <1>1, AppendProperties
<1>3. Len(Append(q[i], x)) <= cap
  BY <1>1, <1>2
<1> QED BY <1>2, <1>3

LEMMA EmptiedQueue ==
  ASSUME NEW S, NEW cap \in Nat, NEW q \in [Inst -> Seq(S)],
         \A j \in Inst : Len(q[j]) <= cap, NEW i \in Inst
  PROVE  /\ [q EXCEPT ![i] = <<>>] \in [Inst -> Seq(S)]
         /\ \A j \in Inst : Len([q EXCEPT ![i] = <<>>][j]) <= cap
<1>1. <<>> \in Seq(S) /\ Len(<<>>) = 0
  BY EmptySeq
<1> QED BY <1>1

LEMMA ReceiveType ==
  ASSUME QueuesOK, NEW i \in Inst, NEW c, Receive(i, c)
  PROVE  /\ c \in CmdKind
         /\ cmds' \in [Inst -> Seq(CmdKind)]
         /\ \A j \in Inst : Len(cmds'[j]) <= CmdCap
<1>1. /\ cmds \in [Inst -> Seq(CmdKind)] /\ CmdCap \in Nat
      /\ \A j \in Inst : Len(cmds[j]) <= CmdCap
  BY ControlAssumption DEF QueuesOK
<1> QED BY <1>1, ShorterQueue DEF Receive

LEMMA SendType ==
  ASSUME QueuesOK, NEW i \in Inst, NEW c \in CmdKind, Send(i, c)
  PROVE  /\ cmds' \in [Inst -> Seq(CmdKind)]
         /\ \A j \in Inst : Len(cmds'[j]) <= CmdCap
<1>1. /\ cmds \in [Inst -> Seq(CmdKind)] /\ CmdCap \in Nat
      /\ \A j \in Inst : Len(cmds[j]) <= CmdCap
  BY ControlAssumption DEF QueuesOK
<1>2. CASE Accepts(i)
  BY <1>1, <1>2, LongerQueue DEF Send, Accepts
<1>3. CASE ~Accepts(i)
  BY <1>1, <1>3 DEF Send
<1> QED BY <1>2, <1>3

LEMMA DequeueType ==
  ASSUME QueuesOK, NEW i \in Inst, NEW c, Dequeue(i, c)
  PROVE  QueuesOK'
<1>1. /\ pending \in [Inst -> Seq(CmdKind)] /\ MaxPending \in Nat
      /\ \A j \in Inst : Len(pending[j]) <= MaxPending
  BY ControlAssumption DEF QueuesOK
<1>2. CASE /\ pending[i] # <<>>
           /\ pending' = [pending EXCEPT ![i] = Tail(@)]
           /\ UNCHANGED cmds
  <2>1. /\ pending' \in [Inst -> Seq(CmdKind)]
        /\ \A j \in Inst : Len(pending'[j]) <= MaxPending
    BY <1>1, <1>2, ShorterQueue
  <2> QED BY <1>2, <2>1 DEF QueuesOK
<1>3. CASE Receive(i, c) /\ UNCHANGED pending
  <2>1. /\ cmds' \in [Inst -> Seq(CmdKind)]
        /\ \A j \in Inst : Len(cmds'[j]) <= CmdCap
    BY <1>3, ReceiveType
  <2> QED BY <1>3, <2>1 DEF QueuesOK
<1> QED BY <1>2, <1>3 DEF Dequeue

LEMMA ParkType ==
  ASSUME QueuesOK, NEW i \in Inst, Park(i)
  PROVE  QueuesOK'
<1>1. /\ pending \in [Inst -> Seq(CmdKind)] /\ MaxPending \in Nat
      /\ \A j \in Inst : Len(pending[j]) <= MaxPending
  BY ControlAssumption DEF QueuesOK
<1>2. PICK c \in CmdKind \ {"Stop"} :
        Receive(i, c) /\ pending' = [pending EXCEPT ![i] = Append(@, c)]
  BY DEF Park
<1>3. /\ cmds' \in [Inst -> Seq(CmdKind)]
      /\ \A j \in Inst : Len(cmds'[j]) <= CmdCap
  BY <1>2, ReceiveType
<1>4. /\ pending' \in [Inst -> Seq(CmdKind)]
      /\ \A j \in Inst : Len(pending'[j]) <= MaxPending
  BY <1>1, <1>2, LongerQueue DEF Park
<1> QED BY <1>3, <1>4 DEF QueuesOK

LEMMA TypedEvent ==
  ASSUME EventsOK, NEW i \in Inst, NEW m \in Message, Len(events) < EventCap
  PROVE  /\ Append(events, EventOf(i, m)) \in Seq(Event)
         /\ Len(Append(events, EventOf(i, m))) <= EventCap
<1>1. EventOf(i, m) \in Event
  BY DEF EventOf, Event, Message
<1>2. events \in Seq(Event) /\ Len(events) \in Nat /\ EventCap \in Nat
  BY ControlAssumption, LenProperties DEF EventsOK
<1>3. /\ Append(events, EventOf(i, m)) \in Seq(Event)
      /\ Len(Append(events, EventOf(i, m))) = Len(events) + 1
  BY <1>1, <1>2, AppendProperties
<1> QED BY <1>2, <1>3

-----------------------------------------------------------------------------
(* Every action *)

(* The steps of the goroutine. *)
ControlStep(i) ==
  \/ Confirm(i) \/ Reprobe(i) \/ Replay(i) \/ Drain(i) \/ Disable(i) \/ Enable(i)
  \/ Stop(i) \/ Ignore(i)
  \/ Park(i) \/ StopWait(i) \/ Cancel(i)
  \/ ReprobeExpire(i) \/ DrainExpire(i) \/ DrainDisable(i)
  \/ Create(i) \/ BuildDone(i) \/ Probe(i) \/ Emit(i) \/ HandleLost(i) \/ Panic(i)
  \/ Finalize(i) \/ Report(i)

LEMMA FieldsStep ==
  ASSUME FieldsOK, NEW i \in Inst, ControlStep(i)
  PROVE  FieldsOK'
<1>1. CASE Confirm(i)
  BY <1>1 DEF Confirm, Goto, SetStatus, face, FieldsOK, Places, Status
<1>2. CASE Reprobe(i)
  BY <1>2 DEF Reprobe, Goto, face, FieldsOK, Places, Status
<1>3. CASE Replay(i)
  BY <1>3 DEF Replay, Goto, SetStatus, FieldsOK, Places, Status
<1>4. CASE Drain(i)
  BY <1>4 DEF Drain, Goto, SetStatus, FieldsOK, Places, Status
<1>5. CASE Disable(i)
  BY <1>5, NotesAreMessages DEF Disable, SetStatus, EmitNext, Goto, FieldsOK, Places, Status, EvKind
<1>6. CASE Enable(i)
  BY <1>6 DEF Enable, Goto, SetStatus, FieldsOK, Places, Status
<1>7. CASE Stop(i)
  BY <1>7 DEF Stop, Goto, face, FieldsOK, Places, Status
<1>8. CASE Ignore(i)
  BY <1>8 DEF Ignore, face, FieldsOK, Places, Status
<1>9. CASE Park(i)
  BY <1>9 DEF Park, face, FieldsOK, Places, Status
<1>10. CASE StopWait(i)
  BY <1>10 DEF StopWait, Goto, Interrupted, face, FieldsOK, Places, Status
<1>11. CASE Cancel(i)
  BY <1>11 DEF Cancel, Goto, Interrupted, face, FieldsOK, Places, Status
<1>12. CASE ReprobeExpire(i)
  BY <1>12 DEF ReprobeExpire, Goto, face, FieldsOK, Places, Status
<1>13. CASE DrainExpire(i)
  BY <1>13, NotesAreMessages DEF DrainExpire, SetStatus, EmitNext, Goto, FieldsOK, Places, Status, EvKind
<1>14. CASE DrainDisable(i)
  BY <1>14 DEF DrainDisable, SetStatus, Goto, FieldsOK, Places, Status
<1>15. CASE Create(i)
  BY <1>15 DEF Create, Goto, face, FieldsOK, Places, Status
<1>16. CASE BuildDone(i)
  BY <1>16, NotesAreMessages DEF BuildDone, EmitNext, Goto, face, FieldsOK, Places, Status, EvKind
<1>17. CASE Probe(i)
  BY <1>17, ControlAssumption DEF Probe, Goto, FieldsOK, Places, Status, Message, EvKind
<1>18. CASE Emit(i)
  BY <1>18, NotesAreMessages DEF Emit, Goto, Resume, face, FieldsOK, Places, Status, EvKind
<1>19. CASE HandleLost(i)
  BY <1>19, NotesAreMessages DEF HandleLost, SetStatus, EmitNext, Goto, FieldsOK, Places, Status, EvKind
<1>20. CASE Panic(i)
  BY <1>20 DEF Panic, Goto, face, FieldsOK, Places, Status
<1>21. CASE Finalize(i)
  BY <1>21 DEF Finalize, Goto, face, FieldsOK, Places, Status
<1>22. CASE Report(i)
  BY <1>22 DEF Report, Goto, face, FieldsOK, Places, Status
<1> QED
  BY <1>1, <1>2, <1>3, <1>4, <1>5, <1>6, <1>7, <1>8, <1>9, <1>10, <1>11, <1>12, <1>13, <1>14, <1>15, <1>16, <1>17, <1>18, <1>19, <1>20, <1>21, <1>22 DEF ControlStep

LEMMA QueuesStep ==
  ASSUME QueuesOK, NEW i \in Inst, ControlStep(i)
  PROVE  QueuesOK'
<1>1. CASE \E c \in CmdKind : Dequeue(i, c)
  BY <1>1, DequeueType
<1>2. CASE Park(i)
  BY <1>2, ParkType
<1>3. CASE (\E c \in CmdKind : Receive(i, c)) /\ UNCHANGED pending
  <2>1. /\ cmds' \in [Inst -> Seq(CmdKind)]
        /\ \A j \in Inst : Len(cmds'[j]) <= CmdCap
    BY <1>3, ReceiveType
  <2> QED BY <1>3, <2>1 DEF QueuesOK
<1>4. CASE Finalize(i)
  <2>1. /\ cmds' \in [Inst -> Seq(CmdKind)]
        /\ \A j \in Inst : Len(cmds'[j]) <= CmdCap
    BY <1>4, EmptiedQueue, ControlAssumption DEF Finalize, QueuesOK
  <2>2. /\ pending' \in [Inst -> Seq(CmdKind)]
        /\ \A j \in Inst : Len(pending'[j]) <= MaxPending
    BY <1>4, EmptiedQueue, ControlAssumption DEF Finalize, QueuesOK
  <2> QED BY <2>1, <2>2 DEF QueuesOK
<1>5. CASE UNCHANGED queues
  BY <1>5 DEF queues, QueuesOK
<1>6. \/ \E c \in CmdKind : Dequeue(i, c)
      \/ Park(i)
      \/ (\E c \in CmdKind : Receive(i, c)) /\ UNCHANGED pending
      \/ Finalize(i)
      \/ UNCHANGED queues
  <2>1. CASE \/ Confirm(i) \/ Reprobe(i) \/ Replay(i) \/ Drain(i) \/ Disable(i)
             \/ Enable(i) \/ Stop(i) \/ Ignore(i)
    BY <2>1 DEF Confirm, Reprobe, Replay, Drain, Disable, Enable, Stop, Ignore, Takes,
                CmdKind
  <2>2. CASE StopWait(i) \/ DrainDisable(i)
    BY <2>2 DEF StopWait, DrainDisable, CmdKind
  <2>3. CASE \/ Cancel(i) \/ ReprobeExpire(i) \/ DrainExpire(i) \/ Create(i)
             \/ BuildDone(i) \/ Probe(i) \/ Emit(i) \/ HandleLost(i) \/ Panic(i)
             \/ Report(i)
    BY <2>3 DEF Cancel, ReprobeExpire, DrainExpire, Create, BuildDone, Probe, Emit,
                HandleLost, Panic, Report
  <2> QED BY <2>1, <2>2, <2>3 DEF ControlStep
<1> QED BY <1>1, <1>2, <1>3, <1>4, <1>5, <1>6

LEMMA EventsStep ==
  ASSUME FieldsOK, EventsOK, NEW i \in Inst, ControlStep(i)
  PROVE  EventsOK'
<1>1. CASE UNCHANGED events
  BY <1>1 DEF EventsOK
<1>2. CASE Emit(i)
  <2>1. out[i] \in Message
    BY DEF FieldsOK
  <2> QED BY <1>1, <1>2, <2>1, TypedEvent DEF Emit, EventsOK
<1>3. CASE Report(i)
  <2>1. Note("Stopped") \in Message
    BY NotesAreMessages DEF EvKind
  <2> QED BY <1>1, <1>3, <2>1, TypedEvent DEF Report, EventsOK
<1>4. UNCHANGED events \/ Emit(i) \/ Report(i)
  BY DEF ControlStep, Confirm, Reprobe, Replay, Drain, Disable, Enable, Stop, Ignore,
         Park, StopWait, Cancel, ReprobeExpire, DrainExpire, DrainDisable, Create,
         BuildDone, Probe, HandleLost, Panic, Finalize
<1> QED BY <1>1, <1>2, <1>3, <1>4

LEMMA ControlTypeStep ==
  ASSUME ControlTypeOK, NEW i \in Inst, ControlStep(i)
  PROVE  ControlTypeOK'
<1>1. FieldsOK /\ QueuesOK /\ EventsOK
  BY ControlTypeParts
<1>2. FieldsOK' /\ QueuesOK' /\ EventsOK'
  BY <1>1, FieldsStep, QueuesStep, EventsStep
<1> QED
  BY <1>2, Zenon DEF ControlTypeOK, FieldsOK, QueuesOK, EventsOK

LEMMA ControlTypeInit == \A place \in Places : ControlInit(place) => ControlTypeOK
<1> SUFFICES ASSUME NEW place \in Places, ControlInit(place) PROVE ControlTypeOK
  OBVIOUS
<1>1. FieldsOK
  BY ControlAssumption, NotesAreMessages DEF ControlInit, FieldsOK, Status, EvKind
<1>2. \A S : <<>> \in Seq(S) /\ Len(<<>>) = 0
  BY EmptySeq
<1>3. QueuesOK
  BY <1>2, ControlAssumption DEF ControlInit, QueuesOK
<1>4. EventsOK
  BY <1>2, ControlAssumption DEF ControlInit, EventsOK
<1> QED BY <1>1, <1>3, <1>4, ControlTypeParts

(* Where a command takes effect. *)
LEMMA AppliesValues ==
  /\ Applies["Reprobe"] = {"Probing"}
  /\ Applies["Replay"] = {"Probing", "Normal"}
  /\ Applies["Drain"] = {"Probing", "Normal"}
  /\ Applies["Disable"] = Status \ {"Disabled"}
  /\ Applies["Enable"] = {"Disabled"}
BY DEF Applies, CmdKind

(* Where the goroutine is when it acts, and what it has published. *)
LEMMA ControlGuards ==
  ASSUME NEW i \in Inst
  PROVE  /\ Confirm(i) \/ Stop(i) \/ Ignore(i) => pc[i] = "loop"
         /\ Reprobe(i) => pc[i] = "loop" /\ status[i] = "Probing"
         /\ Replay(i) \/ Drain(i) => pc[i] = "loop" /\ status[i] \in {"Probing", "Normal"}
         /\ Disable(i) => pc[i] = "loop" /\ status[i] # "Disabled"
         /\ Enable(i) => pc[i] = "loop" /\ status[i] = "Disabled"
         /\ HandleLost(i) => pc[i] = "loop"
BY AppliesValues DEF Confirm, Reprobe, Replay, Drain, Disable, Enable, Stop, Ignore,
                     HandleLost, Takes, Dequeue
(* The next command in line is the one that is taken. *)
LEMMA DequeuesNext ==
  ASSUME QueuesOK, NEW i \in Inst, NEW c, Dequeue(i, c)
  PROVE  TakesNext(i, c)
<1>1. pending[i] \in Seq(CmdKind) /\ cmds[i] \in Seq(CmdKind)
  BY DEF QueuesOK
<1>2. CASE pending[i] # <<>>
  <2>1. c = Head(pending[i])
    BY <1>2 DEF Dequeue
  <2> QED BY <1>1, <1>2, <2>1, ConcatMoves DEF TakesNext, InLine, Dequeue
<1>3. CASE pending[i] = <<>>
  <2>1. cmds[i] # <<>> /\ c = Head(cmds[i])
    BY <1>3 DEF Dequeue, Receive
  <2>2. pending[i] \o cmds[i] = cmds[i]
    BY <1>1, <1>3, ConcatEmptySeq
  <2> QED BY <2>1, <2>2 DEF TakesNext, InLine, Dequeue
<1> QED BY <1>2, <1>3

(* Where the goroutine is says which status it has published, and whether it
   waits to be judged: awaitConfirm is set by every report and cleared by the
   Confirm that ends Probing. *)
StatusFitsPlace(i) ==
  /\ pc[i] \in {"none", "build", "probe"} => status[i] = "Probing"
  /\ pc[i] = "reprobe" => status[i] = "Probing" /\ awaitConfirm[i]
  /\ pc[i] = "drain" => status[i] = "Draining"
  /\ pc[i] = "emit" =>
       /\ out[i].kind # "Stopped"
       /\ status[i] = IF out[i].kind = "Disabled" THEN "Disabled" ELSE "Probing"
       /\ out[i].kind = "Ready" => awaitConfirm[i]
  /\ pc[i] = "loop" =>
       /\ status[i] # "Draining"
       /\ status[i] = "Probing" => awaitConfirm[i]
       /\ status[i] = "Normal" => ~awaitConfirm[i]

LEMMA PlaceStep ==
  ASSUME FieldsOK, NEW i \in Inst, StatusFitsPlace(i), ControlStep(i)
  PROVE  StatusFitsPlace(i)'
<1>t. /\ pc \in [Inst -> Places] /\ status \in [Inst -> Status]
      /\ awaitConfirm \in [Inst -> BOOLEAN] /\ out \in [Inst -> Message]
  BY DEF FieldsOK
<1>1. CASE Confirm(i) \/ Reprobe(i) \/ Stop(i) \/ Ignore(i)
  BY <1>1, <1>t, ControlGuards DEF Confirm, Reprobe, Stop, Ignore, Goto, SetStatus, face,
     StatusFitsPlace
<1>2. CASE Replay(i) \/ Drain(i) \/ Enable(i)
  BY <1>2, <1>t, ControlGuards DEF Replay, Drain, Enable, Goto, SetStatus, StatusFitsPlace
<1>3. CASE Disable(i) \/ HandleLost(i) \/ DrainExpire(i)
  BY <1>3, <1>t, ControlGuards DEF Disable, HandleLost, DrainExpire, Goto, SetStatus, EmitNext,
     Note, StatusFitsPlace
<1>4. CASE DrainDisable(i)
  BY <1>4, <1>t DEF DrainDisable, Goto, SetStatus, StatusFitsPlace
<1>5. CASE Park(i) \/ Panic(i) \/ Finalize(i) \/ Report(i) \/ Create(i)
  BY <1>5, <1>t DEF Park, Panic, Finalize, Report, Create, Goto, face, StatusFitsPlace
<1>6. CASE StopWait(i) \/ Cancel(i) \/ ReprobeExpire(i)
  BY <1>6, <1>t DEF StopWait, Cancel, ReprobeExpire, Interrupted, Goto, face, StatusFitsPlace,
     Waiting
<1>7. CASE BuildDone(i)
  BY <1>7, <1>t DEF BuildDone, EmitNext, Note, Goto, face, StatusFitsPlace
<1>8. CASE Probe(i)
  BY <1>8, <1>t DEF Probe, Goto, StatusFitsPlace
<1>9. CASE Emit(i)
  BY <1>9, <1>t DEF Emit, Resume, Goto, face, StatusFitsPlace, Message, EvKind
<1> QED BY <1>1, <1>2, <1>3, <1>4, <1>5, <1>6, <1>7, <1>8, <1>9 DEF ControlStep

(* A step of one goroutine leaves the others where they are. *)
LEMMA PlaceOfOthers ==
  ASSUME FieldsOK, NEW i \in Inst, ControlStep(i), NEW j \in Inst \ {i}, StatusFitsPlace(j)
  PROVE  StatusFitsPlace(j)'
<1>1. /\ pc'[j] = pc[j] /\ status'[j] = status[j] /\ awaitConfirm'[j] = awaitConfirm[j]
      /\ out'[j] = out[j]
  BY DEF FieldsOK, ControlStep, Confirm, Reprobe, Replay, Drain, Disable, Enable, Stop, Ignore,
     Park, StopWait, Cancel, ReprobeExpire, DrainExpire, DrainDisable, Create, BuildDone,
     Probe, Emit, HandleLost, Panic, Finalize, Report, Goto, SetStatus, EmitNext, face
<1> QED BY <1>1 DEF StatusFitsPlace
==============================================================================
