------------------------------ MODULE RetryCycle ------------------------------
(***************************************************************************)
(* How an instance retries: a pool is made from Options, and an instance    *)
(* goes round probing, being judged by the keyer (handleReady), and waiting *)
(* for longer and longer (backoffDelay, waitBackoff) before it probes again *)
(* or starts again with a new identity.  To the control of InstanceControl  *)
(* this module adds the options, real egresses and keys, and time, in ticks. *)
(*                                                                         *)
(* The other instances are seen only by the keys they may hold.  The pool   *)
(* is not closed here and does not evict.                                   *)
(***************************************************************************)
EXTENDS InstanceControl, Options, EgressKeys

CONSTANTS
  Raws,           \* the Options the caller may pass
  WordBits,       \* width of time.Duration
  ShiftLimit,     \* backoffShiftLimit
  DrainTicks,     \* DrainTimeout
  ProbeFailLimit, \* probeFailLimit
  Calls,          \* the commands users send
  MaxCalls,       \* bound on commands of users and on losses, each
  MaxWord         \* bound on the options' durations

ASSUME RetryAssumption ==
  /\ Egress \subseteq Exit /\ Zero = NoExit /\ HTTPProbes \subseteq Egress
  /\ WordBits \in Nat \ {0} /\ ShiftLimit \in Nat
  /\ DrainTicks \in Nat \ {0} /\ ProbeFailLimit \in Nat \ {0}
  /\ Calls \subseteq {"Drain", "Disable", "Enable"}
  /\ MaxCalls \in Nat /\ MaxWord \in Nat
  /\ Raws \subseteq OptionsRecord /\ \A o \in Raws : o.max <= MaxWord
  /\ DefaultMax <= MaxWord /\ DrainTicks <= MaxWord

VARIABLES
  made,      \* "new", "refused" or "running": what newPool has come to
  opts,      \* the options: as passed, then with defaults
  backoffN,  \* [Inst -> 0..ShiftLimit], in.backoffN, of which no more is read
  timer,     \* [Inst -> [len, left : Int]], the running timer of a wait, or NoTimer
  empties,   \* [Inst -> Nat], emptyByInst
  calm,      \* starts succeed, probes find an address and no other has its key
  calls, losses,  \* how much of MaxCalls is used
  drawn      \* history: the last delay of each instance since it was confirmed,
             \* the ticks since, and whether a delay was shorter than the one
             \* before, or drawn before that one was over

retryVars == <<made, opts, backoffN, timer, empties, calm, calls, losses, drawn>>
vars == <<controlVars, retryVars>>

NoTimer == [len |-> 0, left |-> 0]
NoDraw == [last |-> 0, since |-> 0, faster |-> FALSE, early |-> FALSE]

TypeOK ==
  /\ ControlTypeOK
  /\ made \in {"new", "refused", "running"}
  /\ backoffN \in [Inst -> 0..ShiftLimit]
  /\ \A i \in Inst : timer[i].left \in 0..timer[i].len /\ timer[i].len \in 0..MaxWord
  /\ empties \in [Inst -> 0..(ProbeFailLimit - 1)]
  /\ calm \in BOOLEAN
  /\ calls \in 0..MaxCalls /\ losses \in 0..MaxCalls

Init ==
  /\ ControlInit("none")
  /\ made = "new" /\ opts \in Raws
  /\ backoffN = [i \in Inst |-> 0]
  /\ timer = [i \in Inst |-> NoTimer]
  /\ empties = [i \in Inst |-> 0]
  /\ calm = FALSE /\ calls = 0 /\ losses = 0
  /\ drawn = [i \in Inst |-> NoDraw]

-----------------------------------------------------------------------------
(* Durations *)

(* n as a signed word *)
Word(n) == ((n + 2^(WordBits - 1)) % 2^WordBits) - 2^(WordBits - 1)

(* Faulty variant: a product that has wrapped to nothing or less is returned. *)
BackoffDelayWrapped(n) ==
  LET d == Word(opts.start * 2^n) IN IF d > opts.max THEN opts.max ELSE d

BackoffDelay(n) ==
  LET d == Word(opts.start * 2^n) IN IF d > opts.max \/ d <= 0 THEN opts.max ELSE d

Least(m, n) == IF m < n THEN m ELSE n

SetTimer(i, d) ==
  timer' = [timer EXCEPT ![i] = IF d > 0 THEN [len |-> d, left |-> d] ELSE NoTimer]
StopTimer(i) == timer' = [timer EXCEPT ![i] = NoTimer]

(* backoffDelay, and the wait for what it returns *)
StartBackoff(i) ==
  LET d == BackoffDelay(backoffN[i])
      h == drawn[i]
  IN  /\ backoffN' = [backoffN EXCEPT ![i] = Least(@ + 1, ShiftLimit)]
      /\ SetTimer(i, d)
      /\ drawn' = [drawn EXCEPT ![i] =
           [last |-> d, since |-> 0,
            faster |-> h.faster \/ d < h.last, early |-> h.early \/ h.since < h.last]]

NoBackoff == UNCHANGED <<backoffN, timer, drawn>>

Waits(i) == timer[i].len > 0
WaitOver(i) == timer[i].left = 0

Tick ==
  /\ \E i \in Inst : timer[i].left > 0
  /\ timer' = [i \in Inst |->
       IF timer[i].left > 0 THEN [timer[i] EXCEPT !.left = @ - 1] ELSE timer[i]]
  /\ drawn' = [i \in Inst |->
       [drawn[i] EXCEPT !.since = Least(@ + 1, MaxWord)]]
  /\ UNCHANGED <<controlVars, made, opts, backoffN, empties, calm, calls, losses>>

-----------------------------------------------------------------------------
(* newPool and createInstance *)

New ==
  /\ made = "new"
  /\ IF Valid(WithDefaults(opts))
     THEN /\ made' = "running" /\ opts' = WithDefaults(opts)
     ELSE /\ made' = "refused" /\ UNCHANGED opts
  /\ UNCHANGED <<controlVars, backoffN, timer, empties, calm, calls, losses, drawn>>

Start(i) ==
  /\ made = "running"
  /\ Create(i)
  /\ UNCHANGED retryVars

-----------------------------------------------------------------------------
(* The instance.  Of its waits, those with a timer are cut short by nobody. *)

ConfirmResets(i) ==
  /\ Confirm(i)
  /\ IF status[i] = "Probing"
     THEN /\ backoffN' = [backoffN EXCEPT ![i] = 0]
          /\ drawn' = [drawn EXCEPT ![i] = [@ EXCEPT !.last = 0, !.since = 0]]
     ELSE UNCHANGED <<backoffN, drawn>>
  /\ UNCHANGED timer

ReprobeWaits(i) == Reprobe(i) /\ StartBackoff(i)
ReplayWaits(i) == Replay(i) /\ StartBackoff(i)

DrainWaits(i) == Drain(i) /\ SetTimer(i, DrainTicks) /\ UNCHANGED <<backoffN, drawn>>

(* ensureClient(true, 0), after the status is set *)
HandleOther(i) ==
  /\ Disable(i) \/ Enable(i) \/ Ignore(i)
  /\ NoBackoff

(* Faulty variant: a command ends the wait. *)
ParkEnds(i) ==
  /\ Waits(i) /\ Park(i)
  /\ IF pc[i] = "drain" THEN UNCHANGED timer ELSE StopTimer(i)
  /\ UNCHANGED <<backoffN, drawn>>

(* Faulty variant: the timer is stopped for a command and not started again. *)
ParkStops(i) ==
  /\ Waits(i) /\ Park(i)
  /\ timer' = [timer EXCEPT ![i] = [len |-> 1, left |-> -1]]
  /\ UNCHANGED <<backoffN, drawn>>

(* The timer of waitBackoff starts anew; that of drain goes on. *)
ParkRestarts(i) ==
  /\ Waits(i) /\ Park(i)
  /\ IF pc[i] = "drain" THEN UNCHANGED timer ELSE SetTimer(i, timer[i].len)
  /\ UNCHANGED <<backoffN, drawn>>

DrainInterrupted(i) == DrainDisable(i) /\ StopTimer(i) /\ UNCHANGED <<backoffN, drawn>>

WaitEnds(i) ==
  /\ WaitOver(i)
  /\ ReprobeExpire(i) \/ DrainExpire(i)
  /\ StopTimer(i) /\ UNCHANGED <<backoffN, drawn>>

(* A round of ensureClient: no credential, no client, or one that has started. *)
BuildFails(i) ==
  /\ pc[i] = "build" /\ WaitOver(i) /\ ~calm
  /\ StartBackoff(i)
  /\ UNCHANGED controlVars

BuildSucceeds(i) ==
  /\ WaitOver(i) /\ BuildDone(i)
  /\ StopTimer(i) /\ UNCHANGED <<backoffN, drawn>>

ProbeEnds(i) ==
  /\ Probe(i)
  /\ calm => out'[i].egress # NoExit
  /\ NoBackoff

(* What follows evDrained is a start with a new identity, after a delay. *)
EmitThen(i) ==
  /\ Emit(i)
  /\ IF out[i].kind = "Drained" THEN StartBackoff(i) ELSE NoBackoff

Manage(i) ==
  /\ \/ ConfirmResets(i) \/ ReprobeWaits(i) \/ ReplayWaits(i) \/ DrainWaits(i)
     \/ HandleOther(i) \/ ParkRestarts(i) \/ DrainInterrupted(i) \/ WaitEnds(i)
     \/ BuildFails(i) \/ BuildSucceeds(i) \/ ProbeEnds(i) \/ EmitThen(i)
  /\ UNCHANGED <<made, opts, empties, calm, calls, losses>>

-----------------------------------------------------------------------------
(* The coordinator: handleReady with the keyer of the options; other events
   release the key, which is not kept here. *)

Forget(i) == empties' = [empties EXCEPT ![i] = 0]

(* Faulty variant: one probe too many. *)
JudgeEmptyLate(i) ==
  IF empties[i] < ProbeFailLimit
  THEN empties' = [empties EXCEPT ![i] = @ + 1] /\ Send(i, "Reprobe")
  ELSE Forget(i) /\ Send(i, "Replay")

JudgeEmpty(i) ==
  IF empties[i] + 1 < ProbeFailLimit
  THEN empties' = [empties EXCEPT ![i] = @ + 1] /\ Send(i, "Reprobe")
  ELSE Forget(i) /\ Send(i, "Replay")

Judge(i, eg) ==
  LET key == KeyOf(opts.keyer, eg) IN
    \/ Whitelisted(opts.keyer, eg) /\ Forget(i) /\ Send(i, "Confirm")
    \/ /\ key = <<>> /\ ~Whitelisted(opts.keyer, eg)
       /\ JudgeEmpty(i)
    \/ key # <<>> /\ ~calm /\ Send(i, "Replay") /\ UNCHANGED empties
    \/ key # <<>> /\ Forget(i) /\ Send(i, "Confirm")

Coordinator ==
  /\ events # <<>>
  /\ events' = Tail(events)
  /\ IF Head(events).kind = "Ready"
     THEN Judge(Head(events).inst, Head(events).egress)
     ELSE UNCHANGED <<empties, cmds>>
  /\ UNCHANGED <<pc, face, pending, replaying, out, ctxDone, made, opts, backoffN, timer,
                 calm, calls, losses, drawn>>

-----------------------------------------------------------------------------
(* Users, losses, and what the world is like *)

Call ==
  /\ made = "running" /\ calls < MaxCalls
  /\ \E i \in Inst, c \in Calls : Send(i, c)
  /\ calls' = calls + 1
  /\ UNCHANGED <<pc, face, pending, replaying, out, events, ctxDone, made, opts, backoffN,
                 timer, empties, calm, losses, drawn>>

Lose ==
  /\ losses < MaxCalls
  /\ \E i \in Inst : HandleLost(i) /\ status[i] # "Disabled"
  /\ losses' = losses + 1
  /\ UNCHANGED <<made, opts, backoffN, timer, empties, calm, calls, drawn>>

Turn ==
  /\ made = "running"
  /\ calm' = ~calm
  /\ UNCHANGED <<controlVars, made, opts, backoffN, timer, empties, calls, losses, drawn>>

Refused == made = "refused" /\ UNCHANGED vars

Next ==
  \/ New \/ \E i \in Inst : Start(i) \/ Manage(i)
  \/ Tick \/ Coordinator \/ Call \/ Lose \/ Turn \/ Refused

(* Time passes, the goroutines run, and nothing is assumed of users, losses
   and the world. *)
Spec ==
  /\ Init /\ [][Next]_vars
  /\ WF_vars(New) /\ WF_vars(Tick) /\ WF_vars(Coordinator)
  /\ \A i \in Inst : WF_vars(Start(i)) /\ WF_vars(Manage(i))

-----------------------------------------------------------------------------
(* What Validate lets through is what the rest of the code relies on: limits
   that newPool can start from, a base that leaves a port, room in the
   semaphore of starts, and a range for the backoff; and it never refuses the
   defaults (options.go:64-166, pool.go:73-98). *)
OptionsContract ==
  /\ made = "running" =>
       /\ 1 <= opts.Min /\ opts.Min <= opts.Max
       /\ PortLimit - opts.base \in 0..(PortLimit - 1)
       /\ opts.concurrency >= 1 /\ opts.period >= 1
       /\ opts.start \in 1..opts.max
       /\ opts.keyer \in Keyers /\ opts.transport \in Transports
  /\ made = "refused" => ~ (OnlyLimits(opts) /\ opts.Min \in 1..opts.Max /\ opts.Max <= PortLimit)

(* Two exits have the same key exactly if they share every address the keyer
   counts, and one that lacks them all has none, whatever the probes of the two
   families and a prober of the user leave in the fields (egress.go:118-158). *)
KeysAreExact ==
  made = "running" =>
    \A e, f \in Egress :
      /\ KeyOf(opts.keyer, e) = KeyOf(opts.keyer, f) <=>
           Counted(opts.keyer, e) = Counted(opts.keyer, f)
      /\ KeyOf(opts.keyer, e) = <<>> <=> Counted(opts.keyer, e) = {}

(* An instance in service has an exit to show, whatever failed probes, stale
   verdicts, losses and commands came before (egress.go:25-27). *)
NormalHasExit == \A i \in Inst : status[i] = "Normal" => egressVal[i] # NoExit

(* As long as an instance is not confirmed no delay is shorter than the one
   before, whichever of the five callers of backoffDelay draws it, and all are
   between start and maximum: a product that leaves the word is caught, as long
   as the start takes no more bits than the shift leaves (instance.go:545-553). *)
FitsShifted == opts.start * 2^ShiftLimit < 2^WordBits

RetriesSlowDown ==
  made = "running" /\ FitsShifted =>
    \A i \in Inst :
      ~drawn[i].faster /\ (drawn[i].last = 0 \/ drawn[i].last \in opts.start..opts.max)

(* No backoff is cut short: the next delay is drawn only after the last one has
   passed in full, whatever commands arrive in between (instance.go:555-574). *)
BackoffIsServed == \A i \in Inst : ~drawn[i].early

(* A command that was parked is not overtaken by a later one, whichever waits
   it is parked by; only Disable, which ends a drain, goes first
   (instance.go:290-297, :385-414, :571). *)
HandledInOrder ==
  [][\A i \in Inst :
       LET line == InLine(i)
           after == InLine(i)'
       IN  \/ after = line
           \/ line # <<>> /\ after = Tail(line)
           \/ \E c \in CmdKind : after = Append(line, c)
           \/ pc[i] = "drain" /\ status'[i] = "Disabled"]_<<pc, status, cmds, pending>>

(* When the world calms down the instance gets back into service, through
   waits that commands restart, retries, replays and stale verdicts, unless a
   user has disabled it. *)
Recovers ==
  <>[]calm /\ <>(made = "running") =>
    \A i \in Inst : <>[](status[i] \in {"Normal", "Disabled"})
=============================================================================
