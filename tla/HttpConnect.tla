----------------------------- MODULE HttpConnect -----------------------------
(***************************************************************************)
(* DialThroughProxyHTTP (internal/amzwrap/amzwrap.go): a connection through *)
(* an instance's HTTP proxy.  The dialling goroutine does the CONNECT       *)
(* handshake; a watcher goroutine breaks a blocked read or write when the   *)
(* context ends, by moving the deadline of the connection to the past.      *)
(*                                                                          *)
(* A dial d tries instance after instance under one context, so there may   *)
(* be a connection and a watcher for every pair <<d, i>>.  The proxy and    *)
(* the network are the environment: they may refuse, answer, or stall for   *)
(* ever.                                                                    *)
(***************************************************************************)
CONSTANTS
  Dial,     \* calls of DialContext and DialContextWithKey
  Inst,     \* instances
  Contexts  \* the combinations of contexts to dial under, see ctx

(* "unused": the dial is not made. *)
CtxKind == {"unused", "background", "cancel", "deadline"}

ASSUME CtxAssumption == Contexts \subseteq [Dial -> CtxKind]

VARIABLES
  ctx,        \* [Dial -> CtxKind], the same throughout a behaviour
  step,       \* [Dial -> STRING], where the dialling goroutine is
  via,        \* [Dial -> Inst], the instance of the current attempt
  late,       \* the dials whose context's deadline has passed
  over,       \* the dials whose context has ended
  open,       \* the connections <<d, i>> that are open
  deadline,   \* [Dial \X Inst -> {"none", "ctx", "past"}]
  watcher,    \* [Dial \X Inst -> WatcherState]
  watchStop   \* the pairs whose watchStop is closed

ctxVars == <<ctx, late, over>>
connectVars == <<open, deadline, watcher, watchStop>>

Attempt == Dial \X Inst
Handshake == {"connect", "send", "answer", "clear"}
WatcherState == {"none", "starting", "parked", "firing", "gone"}

ConnectTypeOK ==
  /\ ctx \in Contexts
  /\ via \in [Dial -> Inst]
  /\ late \subseteq Dial /\ over \subseteq Dial
  /\ open \subseteq Attempt
  /\ deadline \in [Attempt -> {"none", "ctx", "past"}]
  /\ watcher \in [Attempt -> WatcherState]
  /\ watchStop \subseteq Attempt

ConnectInit ==
  /\ ctx \in Contexts
  /\ late = {} /\ over = {} /\ open = {}
  /\ deadline = [a \in Attempt |-> "none"]
  /\ watcher = [a \in Attempt |-> "none"]
  /\ watchStop = {}

Now(d) == <<d, via[d]>>
At(d, s) == step[d] = s
Go(d, s) == step' = [step EXCEPT ![d] = s]

(* A read or write on the connection fails at once. *)
Expired(a) ==
  \/ deadline[a] = "past"
  \/ deadline[a] = "ctx" /\ a[1] \in late

-----------------------------------------------------------------------------
(* The dialling goroutine *)

ConnectFails(d) ==
  /\ At(d, "connect")
  /\ Go(d, "failed")
  /\ UNCHANGED <<via, ctxVars, connectVars>>

(* The connection gets the deadline of the context before the watcher can
   run. *)
Connected(d) ==
  /\ At(d, "connect")
  /\ open' = open \cup {Now(d)}
  /\ deadline' = [deadline EXCEPT ![Now(d)] =
                    IF ctx[d] = "deadline" THEN "ctx" ELSE "none"]
  /\ IF ctx[d] = "background"
     THEN watchStop' = watchStop \cup {Now(d)} /\ UNCHANGED watcher
     ELSE watcher' = [watcher EXCEPT ![Now(d)] = "starting"] /\ UNCHANGED watchStop
  /\ Go(d, "send")
  /\ UNCHANGED <<via, ctxVars>>

(* stopWatch: closing the channel decides the select of a parked watcher. *)
StopWatch(a) ==
  /\ watchStop' = watchStop \cup {a}
  /\ watcher' = [watcher EXCEPT ![a] = IF @ = "parked" THEN "gone" ELSE @]

(* Faulty variant: the watcher of a failed handshake is left alone. *)
FailUnwatched(d) ==
  /\ open' = open \ {Now(d)}
  /\ Go(d, "failed")
  /\ UNCHANGED <<via, ctxVars, deadline, watcher, watchStop>>

(* Faulty variant: fail returns without closing the connection. *)
FailOpen(d) ==
  /\ StopWatch(Now(d))
  /\ Go(d, "failed")
  /\ UNCHANGED <<via, ctxVars, open, deadline>>

(* fail; a closed connection has no deadline. *)
Fail(d) ==
  /\ StopWatch(Now(d))
  /\ open' = open \ {Now(d)}
  /\ deadline' = [deadline EXCEPT ![Now(d)] = "none"]
  /\ Go(d, "failed")
  /\ UNCHANGED <<via, ctxVars>>

Send(d) ==
  /\ At(d, "send") /\ ~Expired(Now(d))
  /\ Go(d, "answer")
  /\ UNCHANGED <<via, ctxVars, connectVars>>

(* A 2xx answer; the bytes the proxy sent after it stay readable. *)
Answered(d) ==
  /\ At(d, "answer") /\ ~Expired(Now(d))
  /\ StopWatch(Now(d))
  /\ Go(d, "clear")
  /\ UNCHANGED <<via, ctxVars, open, deadline>>

(* The peer closes, the answer is no HTTP or not 2xx, or the deadline has
   passed. *)
Refused(d) == step[d] \in {"send", "answer"} /\ Fail(d)
TimedOut(d) == step[d] \in {"send", "answer"} /\ Expired(Now(d)) /\ Fail(d)

(* Faulty variant: the deadline of the handshake stays. *)
ClearedNot(d) ==
  /\ At(d, "clear")
  /\ Go(d, "won")
  /\ UNCHANGED <<via, ctxVars, connectVars>>

(* SetDeadline(time.Time{}) *)
Cleared(d) ==
  /\ At(d, "clear")
  /\ deadline' = [deadline EXCEPT ![Now(d)] = "none"]
  /\ Go(d, "won")
  /\ UNCHANGED <<via, ctxVars, open, watcher, watchStop>>

-----------------------------------------------------------------------------
(* The watcher *)

Watcher(a, from, to) ==
  /\ watcher[a] = from
  /\ watcher' = [watcher EXCEPT ![a] = to]
  /\ UNCHANGED <<step, via, ctxVars, open, watchStop>>

(* Its select, when it gets to run: with both channels ready either is taken. *)
WatchParks(a) ==
  /\ a[1] \notin over /\ a \notin watchStop
  /\ Watcher(a, "starting", "parked") /\ UNCHANGED deadline
WatchSeesStop(a) ==
  a \in watchStop /\ Watcher(a, "starting", "gone") /\ UNCHANGED deadline
WatchSeesEnd(a) ==
  a[1] \in over /\ Watcher(a, "starting", "firing") /\ UNCHANGED deadline

(* SetDeadline(time.Now()); on a closed connection it does nothing. *)
WatchFires(a) ==
  /\ Watcher(a, "firing", "gone")
  /\ deadline' = IF a \in open THEN [deadline EXCEPT ![a] = "past"] ELSE deadline

Watch(a) == WatchParks(a) \/ WatchSeesStop(a) \/ WatchSeesEnd(a) \/ WatchFires(a)

-----------------------------------------------------------------------------
(* The context: its timer, and its CancelFunc, which wakes parked watchers. *)

TimeUp(d) ==
  /\ ctx[d] = "deadline" /\ d \notin late
  /\ late' = late \cup {d}
  /\ UNCHANGED <<ctx, step, via, over, connectVars>>

(* Faulty variant: nobody listens when the context has a deadline as well. *)
CtxEndsUnheard(d) ==
  /\ ctx[d] \in {"cancel", "deadline"} /\ d \notin over
  /\ over' = over \cup {d}
  /\ UNCHANGED <<ctx, step, via, late, connectVars>>

CtxEnds(d) ==
  /\ ctx[d] \in {"cancel", "deadline"} /\ d \notin over
  /\ over' = over \cup {d}
  /\ watcher' = [a \in Attempt |->
       IF a[1] = d /\ watcher[a] = "parked" THEN "firing" ELSE watcher[a]]
  /\ UNCHANGED <<ctx, step, via, late, open, deadline, watchStop>>

Handshakes(d) ==
  \/ ConnectFails(d) \/ Connected(d) \/ Send(d) \/ Answered(d)
  \/ Refused(d) \/ TimedOut(d) \/ Cleared(d)

-----------------------------------------------------------------------------
(* A connection that was handed out has a deadline only if the context ended,
   and then from a watcher that had not seen watchStop (amzwrap.go:171-173);
   in particular the deadline of the context is gone. *)
HandedOutClean ==
  \A a \in open : step[a[1]] \in {"won", "returned"} /\ deadline[a] # "none" =>
    a[1] \in over /\ deadline[a] = "past"
=============================================================================
