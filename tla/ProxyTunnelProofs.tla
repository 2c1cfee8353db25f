-------------------------- MODULE ProxyTunnelProofs --------------------------
(***************************************************************************)
(* Proofs about ProxyTunnel, PoolDial and HttpConnect: the safety           *)
(* properties of a dial, for any number of dials, instances and keys.       *)
(***************************************************************************)
EXTENDS ProxyTunnel, FiniteSetTheorems, TLAPS

(* A dial holds at most one connection, that of its current attempt: from the
   moment it is connected until it is handed out, and from then on until it
   is closed (amzwrap.go:126-174, dial.go:66-79). *)
Handshaken == {"send", "answer", "clear", "won"}

ConnInHand ==
  /\ \A d \in Dial, i \in Inst : <<d, i>> \in open =>
       /\ i = via[d]
       /\ step[d] \in Handshaken \/ result[d] = "conn"
  /\ \A d \in Dial : step[d] \in Handshaken => <<d, via[d]>> \in open
  /\ \A d \in Dial : result[d] # "none" <=> step[d] = "returned"
  /\ \A d \in Dial, i \in Inst : d \in conns[i] => i = via[d] /\ result[d] = "conn"

(* A watcher that is about to break a connection has seen its context end. *)
FiresAtEnd ==
  \A d \in Dial, i \in Inst : watcher[<<d, i>>] = "firing" => d \in over

(* i comes before j in the order that dial d tries its candidates in. *)
Before(d, i, j) ==
  IF key[d] = NoKey THEN InTurn(d, start[d], i, j) ELSE Outranks(d, i, j)

(* What was tried came before what was not. *)
InOrder ==
  \A d \in Dial :
    /\ todo[d] \subseteq chosen[d]
    /\ step[d] \in {"idle", "pick", "returned"} => chosen[d] = {}
    /\ \A i \in chosen[d] \ todo[d], j \in todo[d] : Before(d, i, j)

DialInv == TypeOK /\ ConnInHand /\ FiresAtEnd /\ HandedOutClean /\ InOrder

-----------------------------------------------------------------------------
(* The step taken: one of a dial, of its handshake, of a watcher, of a context
   or of the instances, or one of the handler that no dial notices. *)
DialAlone(d) ==
  \/ Begin(d) \/ BeginClosed(d) \/ Pick(d) \/ PickNone(d) \/ TryNext(d) \/ GiveUp(d)
  \/ AttemptFailed(d) \/ Track(d) \/ CloseConn(d)
HandshakeAlone(d) ==
  /\ \/ ConnectFails(d) \/ Connected(d) \/ Send(d) \/ Answered(d) \/ Refused(d) \/ Cleared(d)
  /\ UNCHANGED <<poolVars, conns, dialVars>>
ContextAlone(d) == (TimeUp(d) \/ CtxEnds(d)) /\ UNCHANGED <<poolVars, conns, dialVars>>
WatchAlone(a) == Watch(a) /\ UNCHANGED <<poolVars, conns, dialVars>>

LEMMA DialStepIs ==
  ASSUME NEW d \in Dial, DialStep(d)
  PROVE  DialAlone(d) \/ HandshakeAlone(d)
BY DEF DialStep, DialAlone, HandshakeAlone, Handshakes, Refused, TimedOut

LEMMA HandlerIs ==
  ASSUME NEW d \in Tunnel, Handler(d)
  PROVE  DialAlone(d) \/ HandshakeAlone(d) \/ PoolUnchanged
<1>1. d \in Dial
  BY TunnelAssumption
<1>2. CASE DialConn(d)
  BY <1>1, <1>2, DialStepIs DEF DialConn
<1>3. CASE CloseTarget(d)
  BY <1>3 DEF CloseTarget, DialAlone
<1> QED
  BY <1>2, <1>3 DEF Handler, Request, BadGateway, Dialled, Hijack, Reply, RelayReturns,
     CloseClient

LEMMA StepTaken ==
  ASSUME [Next]_vars
  PROVE  \/ \E d \in Dial : DialAlone(d) \/ HandshakeAlone(d) \/ ContextAlone(d)
         \/ \E a \in Attempt : WatchAlone(a)
         \/ Instances
         \/ PoolUnchanged
<1>1. CASE \E d \in Tunnel : Handler(d)
  BY <1>1, HandlerIs, TunnelAssumption
<1>2. CASE \E d \in Tunnel, w \in Way : Copy(d, w)
  BY <1>2 DEF Copy, CopyEnds, CopyTells
<1>3. CASE \E d \in Dial \ Tunnel : User(d)
  BY <1>3, DialStepIs DEF User, DialAlone
<1>4. CASE \E d \in Dial : RequestCtx(d)
  BY <1>4 DEF RequestCtx, ContextAlone
<1>5. CASE \E a \in Attempt : WatchStep(a) /\ UNCHANGED tunnelVars
  BY <1>5 DEF WatchStep, WatchAlone
<1>6. CASE UNCHANGED vars
  BY <1>6 DEF vars, PoolUnchanged
<1> QED BY <1>1, <1>2, <1>3, <1>4, <1>5, <1>6 DEF Next

-----------------------------------------------------------------------------
(* Types *)

LEMMA TurnType ==
  ASSUME NEW n \in Nat \ {0}, NEW c \in Int
  PROVE  c % n \in 0..(n - 1)
OBVIOUS

LEMMA AloneTypes ==
  ASSUME TypeOK, NEW d \in Dial, DialAlone(d)
  PROVE  DialTypeOK'
<1> USE DEF TypeOK, DialTypeOK, ConnectTypeOK, ctxVars, connectVars, poolVars, choiceVars,
            dialVars, Steps, Result, Handshake
<1>1. CASE Begin(d)
  <2>1. (cursor + 1) % CursorSize \in 0..(CursorSize - 1)
    BY TurnType, DialAssumption
  <2>2. PICK k \in Keys[d] : /\ key' = [key EXCEPT ![d] = k]
                             /\ IF k = NoKey THEN TakeTurn(d) ELSE UNCHANGED <<start, cursor>>
    BY <1>1 DEF Begin
  <2>3. k \in Key \cup {NoKey}
    BY <2>2, DialAssumption
  <2>4. start' \in [Dial -> 0..(CursorSize - 1)] /\ cursor' \in 0..(CursorSize - 1)
    BY <2>1, <2>2 DEF TakeTurn
  <2>5. step' \in [Dial -> Steps]
    BY <1>1 DEF Begin, Go
  <2> QED BY <1>1, <2>2, <2>3, <2>4, <2>5 DEF Begin
<1>2. ASSUME NEW r \in Result, Return(d, r)
      PROVE  /\ step' \in [Dial -> Steps] /\ result' \in [Dial -> Result]
             /\ key' \in [Dial -> Key \cup {NoKey}]
             /\ start' \in [Dial -> 0..(CursorSize - 1)]
             /\ chosen' \in [Dial -> SUBSET Inst] /\ todo' \in [Dial -> SUBSET Inst]
  <2>1. 0 \in 0..(CursorSize - 1)
    BY DialAssumption
  <2> QED BY <1>2, <2>1 DEF Return, Go
<1>3. CASE BeginClosed(d) \/ PickNone(d) \/ GiveUp(d)
  BY <1>2, <1>3 DEF BeginClosed, PickNone, GiveUp
<1>4. CASE Pick(d)
  BY <1>4 DEF Pick, Go
<1>5. CASE TryNext(d)
  BY <1>5 DEF TryNext, Go
<1>6. CASE AttemptFailed(d)
  BY <1>6 DEF AttemptFailed, GoOn, Go
<1>7. CASE Track(d)
  <2>1. conns' \in [Inst -> SUBSET Dial]
    BY <1>7 DEF Track
  <2> QED BY <1>2, <1>7, <2>1 DEF Track
<1>8. CASE CloseConn(d)
  BY <1>8 DEF CloseConn, Close, Now, Attempt
<1> QED BY <1>1, <1>3, <1>4, <1>5, <1>6, <1>7, <1>8 DEF DialAlone

LEMMA ConnectTypes ==
  ASSUME TypeOK, NEW d \in Dial, HandshakeAlone(d) \/ ContextAlone(d)
  PROVE  DialTypeOK'
<1> USE DEF TypeOK, DialTypeOK, ConnectTypeOK, ctxVars, connectVars, poolVars, choiceVars,
            dialVars
<1>1. Now(d) \in Attempt
  BY DEF Now, Attempt
<1>2. ASSUME NEW s \in Steps, Go(d, s)
      PROVE  step' \in [Dial -> Steps]
  BY <1>2 DEF Go
<1>3. {"send", "failed", "answer", "won", "clear"} \subseteq Steps
  BY DEF Steps, Handshake
<1>4. CASE HandshakeAlone(d) /\ Connected(d)
  <2>1. open' \subseteq Attempt
    BY <1>1, <1>4 DEF Connected
  <2>2. deadline' \in [Attempt -> {"none", "ctx", "past"}]
    BY <1>4 DEF Connected
  <2>3. watcher' \in [Attempt -> WatcherState] /\ watchStop' \subseteq Attempt
    BY <1>1, <1>4 DEF Connected, WatcherState
  <2> QED BY <1>2, <1>3, <1>4, <2>1, <2>2, <2>3 DEF HandshakeAlone, Connected
<1>5. CASE HandshakeAlone(d) /\ (Answered(d) \/ Refused(d))
  <2>1. StopWatch(Now(d)) => watcher' \in [Attempt -> WatcherState] /\ watchStop' \subseteq Attempt
    BY <1>1 DEF StopWatch, WatcherState
  <2>2. deadline' \in [Attempt -> {"none", "ctx", "past"}] /\ open' \subseteq Attempt
    BY <1>5 DEF Answered, Refused, Fail
  <2> QED BY <1>2, <1>3, <1>5, <2>1, <2>2 DEF HandshakeAlone, Answered, Refused, Fail
<1>6. CASE HandshakeAlone(d) /\ (ConnectFails(d) \/ Send(d) \/ Cleared(d))
  <2>1. deadline' \in [Attempt -> {"none", "ctx", "past"}]
    BY <1>6 DEF ConnectFails, Send, Cleared
  <2> QED BY <1>2, <1>3, <1>6, <2>1 DEF HandshakeAlone, ConnectFails, Send, Cleared
<1>7. CASE ContextAlone(d)
  BY <1>7 DEF ContextAlone, TimeUp, CtxEnds, WatcherState
<1> QED BY <1>4, <1>5, <1>6, <1>7 DEF HandshakeAlone

LEMMA EnvironmentTypes ==
  ASSUME TypeOK, (\E a \in Attempt : WatchAlone(a)) \/ Instances \/ PoolUnchanged
  PROVE  DialTypeOK'
<1> USE DEF TypeOK, DialTypeOK, ConnectTypeOK, ctxVars, connectVars, poolVars, choiceVars,
            dialVars
<1>1. CASE \E a \in Attempt : WatchAlone(a)
  <2>1. PICK a \in Attempt : WatchAlone(a)
    BY <1>1
  <2>2. watcher' \in [Attempt -> WatcherState]
    BY <2>1 DEF WatchAlone, Watch, WatchParks, WatchSeesStop, WatchSeesEnd, WatchFires, Watcher,
       WatcherState
  <2>3. deadline' \in [Attempt -> {"none", "ctx", "past"}]
    BY <2>1 DEF WatchAlone, Watch, WatchParks, WatchSeesStop, WatchSeesEnd, WatchFires
  <2>4. UNCHANGED <<step, via, ctxVars, open, watchStop, poolVars, conns, dialVars>>
    BY <2>1 DEF WatchAlone, Watch, WatchParks, WatchSeesStop, WatchSeesEnd, WatchFires, Watcher
  <2> QED BY <2>2, <2>3, <2>4
<1>2. CASE Instances
  BY <1>2 DEF Instances, Leave, Enter, CutConns, PoolClose, Close
<1>3. CASE PoolUnchanged
  BY <1>3 DEF PoolUnchanged
<1> QED BY <1>1, <1>2, <1>3

LEMMA TunnelTypes ==
  ASSUME TypeOK, [Next]_vars
  PROVE  /\ tun' \in [Tunnel -> TunnelStep] /\ client' \subseteq Tunnel
         /\ copy' \in [Tunnel -> [Way -> CopyState]] /\ done' \in [Tunnel -> 0..2]
<1> USE DEF TypeOK, TunnelStep, CopyState, Way, Tun, tunnelVars
<1>1. CASE \E d \in Tunnel : Handler(d)
  <2>1. PICK d \in Tunnel : Handler(d)
    BY <1>1
  <2>2. CASE Request(d) \/ DialConn(d) \/ BadGateway(d) \/ Dialled(d) \/ Hijack(d)
    BY <2>2 DEF Request, DialConn, BadGateway, Dialled, Hijack
  <2>3. CASE Reply(d)
    BY <2>3 DEF Reply
  <2>4. CASE RelayReturns(d)
    BY <2>4 DEF RelayReturns
  <2>5. CASE CloseClient(d) \/ CloseTarget(d)
    BY <2>5 DEF CloseClient, CloseTarget
  <2> QED BY <2>1, <2>2, <2>3, <2>4, <2>5 DEF Handler
<1>2. CASE \E d \in Tunnel, w \in Way : Copy(d, w)
  BY <1>2 DEF Copy, CopyEnds, CopyTells
<1>3. CASE UNCHANGED tunnelVars
  BY <1>3
<1> QED BY <1>1, <1>2, <1>3 DEF Next, vars, User, RequestCtx

LEMMA TypesStep ==
  ASSUME TypeOK, [Next]_vars
  PROVE  TypeOK'
<1>1. DialTypeOK'
  BY StepTaken, AloneTypes, ConnectTypes, EnvironmentTypes
<1> QED BY <1>1, TunnelTypes DEF TypeOK

-----------------------------------------------------------------------------
(* The connection of a dial *)

LEMMA InHandAlone ==
  ASSUME TypeOK, ConnInHand, NEW d \in Dial, DialAlone(d)
  PROVE  ConnInHand'
<1> USE DEF TypeOK, DialTypeOK, ConnectTypeOK, ConnInHand, Handshaken, Now, Go, At,
            ctxVars, connectVars, poolVars, choiceVars, dialVars
<1>1. CASE Begin(d)
  BY <1>1 DEF Begin
<1>2. CASE BeginClosed(d) \/ PickNone(d) \/ GiveUp(d)
  <2>1. /\ step[d] \notin Handshaken /\ step' = [step EXCEPT ![d] = "returned"]
        /\ \E r \in Result \ {"none", "conn"} : result' = [result EXCEPT ![d] = r]
    BY <1>2 DEF BeginClosed, PickNone, GiveUp, Return, Result
  <2>2. UNCHANGED <<via, open, conns>> /\ step[d] # "returned"
    BY <1>2 DEF BeginClosed, PickNone, GiveUp
  <2> QED BY <2>1, <2>2
<1>3. CASE Pick(d) \/ AttemptFailed(d)
  BY <1>3 DEF Pick, AttemptFailed, GoOn
<1>4. CASE TryNext(d)
  BY <1>4 DEF TryNext
<1>5. CASE Track(d)
  BY <1>5 DEF Track, Return
<1>6. CASE CloseConn(d)
  BY <1>6 DEF CloseConn, Close
<1> QED BY <1>1, <1>2, <1>3, <1>4, <1>5, <1>6 DEF DialAlone

LEMMA InHandHandshake ==
  ASSUME TypeOK, ConnInHand, NEW d \in Dial, HandshakeAlone(d)
  PROVE  ConnInHand'
<1> USE DEF HandshakeAlone, TypeOK, DialTypeOK, ConnectTypeOK, ConnInHand, Handshaken, Now, Go,
            At, ctxVars, connectVars, poolVars, dialVars
<1>1. CASE ConnectFails(d) \/ Send(d) \/ Cleared(d)
  <2>1. /\ UNCHANGED <<via, open>> /\ step[d] \in Handshaken \cup {"connect"}
        /\ \E s \in {"failed", "answer", "won"} : step' = [step EXCEPT ![d] = s]
        /\ step[d] = "connect" <=> step'[d] = "failed"
    BY <1>1 DEF ConnectFails, Send, Cleared
  <2> QED BY <2>1
<1>2. CASE Connected(d)
  BY <1>2 DEF Connected
<1>3. CASE Answered(d)
  BY <1>3 DEF Answered
<1>4. CASE Refused(d)
  BY <1>4 DEF Refused, Fail
<1> QED BY <1>1, <1>2, <1>3, <1>4

LEMMA InHandEnvironment ==
  ASSUME TypeOK, ConnInHand,
         \/ \E d \in Dial : ContextAlone(d)
         \/ \E a \in Attempt : WatchAlone(a)
         \/ Instances \/ PoolUnchanged
  PROVE  ConnInHand'
<1> USE DEF TypeOK, DialTypeOK, ConnectTypeOK, ConnInHand, Handshaken, ctxVars, connectVars,
            poolVars, dialVars
<1>1. CASE \E d \in Dial : ContextAlone(d)
  BY <1>1 DEF ContextAlone, TimeUp, CtxEnds
<1>2. CASE \E a \in Attempt : WatchAlone(a)
  BY <1>2 DEF WatchAlone, Watch, WatchParks, WatchSeesStop, WatchSeesEnd, WatchFires, Watcher
<1>3. CASE PoolClose \/ (\E i \in Inst : Leave(i) \/ Enter(i))
  BY <1>3 DEF Leave, Enter, PoolClose
<1>4. CASE \E i \in Inst : CutConns(i)
  <2>1. PICK i \in Inst : /\ open' = open \ {<<d, i>> : d \in conns[i]}
                          /\ conns' = [conns EXCEPT ![i] = {}]
                          /\ UNCHANGED <<step, via, result>>
    BY <1>4 DEF CutConns, Close
  <2>2. \A d \in conns[i] : step[d] \notin Handshaken
    OBVIOUS
  <2> QED BY <2>1, <2>2
<1>5. CASE PoolUnchanged
  BY <1>5 DEF PoolUnchanged
<1> QED BY <1>1, <1>2, <1>3, <1>4, <1>5 DEF Instances

LEMMA InHandStep ==
  ASSUME TypeOK, ConnInHand, [Next]_vars
  PROVE  ConnInHand'
BY StepTaken, InHandAlone, InHandHandshake, InHandEnvironment

-----------------------------------------------------------------------------
(* Its watcher and its deadline *)

LEMMA FiresStep ==
  ASSUME TypeOK, FiresAtEnd, [Next]_vars
  PROVE  FiresAtEnd'
<1> USE DEF TypeOK, DialTypeOK, ConnectTypeOK, FiresAtEnd, ctxVars, connectVars, Attempt
<1>1. ASSUME NEW d \in Dial, DialAlone(d)
      PROVE  FiresAtEnd'
  BY <1>1 DEF DialAlone, Begin, BeginClosed, Pick, PickNone, TryNext, GiveUp, AttemptFailed,
     Track, CloseConn
<1>2. ASSUME NEW d \in Dial, HandshakeAlone(d)
      PROVE  FiresAtEnd'
  BY <1>2 DEF HandshakeAlone, ConnectFails, Connected, Send, Answered, Refused, Fail, StopWatch,
     Cleared, Now
<1>3. ASSUME NEW d \in Dial, ContextAlone(d)
      PROVE  FiresAtEnd'
  BY <1>3 DEF ContextAlone, TimeUp, CtxEnds
<1>4. ASSUME NEW a \in Attempt, WatchAlone(a)
      PROVE  FiresAtEnd'
  BY <1>4 DEF WatchAlone, Watch, WatchParks, WatchSeesStop, WatchSeesEnd, WatchFires, Watcher
<1>5. CASE Instances
  BY <1>5 DEF Instances, Leave, Enter, CutConns, PoolClose
<1>6. CASE PoolUnchanged
  BY <1>6 DEF PoolUnchanged
<1> QED BY <1>1, <1>2, <1>3, <1>4, <1>5, <1>6, StepTaken

(* A handed out connection keeps the deadline it has, unless its watcher
   fires, and loses that of its context before it is handed out
   (amzwrap.go:171-173). *)
LEMMA CleanStep ==
  ASSUME TypeOK, ConnInHand, FiresAtEnd, HandedOutClean, [Next]_vars
  PROVE  HandedOutClean'
<1> DEFINE Clean(d, i) ==
      <<d, i>> \in open /\ step[d] \in {"won", "returned"} /\ deadline[<<d, i>>] # "none" =>
        d \in over /\ deadline[<<d, i>>] = "past"
<1>1. HandedOutClean <=> \A d \in Dial, i \in Inst : Clean(d, i)
  BY DEF TypeOK, DialTypeOK, ConnectTypeOK, HandedOutClean, Attempt
<1>2. open' \subseteq Dial \X Inst
  BY TypesStep DEF TypeOK, DialTypeOK, ConnectTypeOK, Attempt
<1>3. HandedOutClean' <=> \A d \in Dial, i \in Inst : Clean(d, i)'
  BY <1>2 DEF HandedOutClean
<1> USE DEF TypeOK, DialTypeOK, ConnectTypeOK, ctxVars, connectVars, ConnInHand, Handshaken
<1>4. ASSUME NEW e \in Dial, DialAlone(e)
      PROVE  \A d \in Dial, i \in Inst : Clean(d, i)'
  BY <1>1, <1>4 DEF DialAlone, Begin, BeginClosed, Pick, PickNone, TryNext, GiveUp,
     AttemptFailed, Track, CloseConn, Close, Return, GoOn, Go, At, Now, Attempt
<1>5. ASSUME NEW e \in Dial, HandshakeAlone(e)
      PROVE  \A d \in Dial, i \in Inst : Clean(d, i)'
  <2> USE DEF HandshakeAlone, Now, Go, At, Attempt
  <2>1. CASE ConnectFails(e) \/ Send(e)
    BY <1>1, <2>1 DEF ConnectFails, Send
  <2>2. CASE Answered(e)
    BY <1>1, <2>2 DEF Answered
  <2>3. CASE Connected(e)
    BY <1>1, <2>3 DEF Connected
  <2>4. CASE Refused(e)
    BY <1>1, <2>4 DEF Refused, Fail
  <2>5. CASE Cleared(e)
    BY <1>1, <2>5 DEF Cleared
  <2> QED BY <1>5, <2>1, <2>2, <2>3, <2>4, <2>5
<1>6. ASSUME NEW e \in Dial, ContextAlone(e)
      PROVE  \A d \in Dial, i \in Inst : Clean(d, i)'
  BY <1>1, <1>6 DEF ContextAlone, TimeUp, CtxEnds
<1>7. ASSUME NEW a \in Attempt, WatchAlone(a)
      PROVE  \A d \in Dial, i \in Inst : Clean(d, i)'
  BY <1>1, <1>7 DEF WatchAlone, Watch, WatchParks, WatchSeesStop, WatchSeesEnd, WatchFires,
     Watcher, FiresAtEnd, Attempt
<1>8. CASE Instances
  BY <1>1, <1>3, <1>8 DEF Instances, Leave, Enter, CutConns, Close, PoolClose, Attempt
<1>9. CASE PoolUnchanged
  BY <1>1, <1>3, <1>9 DEF PoolUnchanged
<1> QED BY <1>3, <1>4, <1>5, <1>6, <1>7, <1>8, <1>9, StepTaken

-----------------------------------------------------------------------------
(* The order of the candidates *)

(* The order of a dial is a matter of its own choice. *)
LEMMA BeforeKept ==
  ASSUME NEW d \in Dial, chosen'[d] = chosen[d], start'[d] = start[d], key'[d] = key[d],
         NEW i \in Inst, NEW j \in Inst
  PROVE  Before(d, i, j)' <=> Before(d, i, j)
<1>1. InTurn(d, start[d], i, j)' <=> InTurn(d, start[d], i, j)
  BY DEF InTurn
<1> QED BY <1>1 DEF Before, Outranks

(* What InOrder says of dial d. *)
DialInOrder(d) ==
  /\ todo[d] \subseteq chosen[d]
  /\ step[d] \in {"idle", "pick", "returned"} => chosen[d] = {}
  /\ \A i \in chosen[d] \ todo[d], j \in todo[d] : Before(d, i, j)

(* A dial that neither picks, tries nor returns keeps its order. *)
LEMMA OrderKept ==
  ASSUME TypeOK, NEW d \in Dial, DialInOrder(d), chosen'[d] = chosen[d], start'[d] = start[d],
         key'[d] = key[d], todo'[d] = todo[d],
         \/ step'[d] = step[d]
         \/ step[d] \notin {"idle", "pick"} /\ step'[d] \notin {"idle", "pick", "returned"}
  PROVE  DialInOrder(d)'
<1>1. chosen[d] \subseteq Inst
  BY DEF TypeOK, DialTypeOK
<1> QED BY <1>1, BeforeKept DEF DialInOrder

(* One that does leaves the others alone. *)
OthersKept(d) ==
  \A e \in Dial \ {d} :
    /\ chosen'[e] = chosen[e] /\ start'[e] = start[e] /\ key'[e] = key[e]
    /\ todo'[e] = todo[e] /\ step'[e] = step[e]

LEMMA OrderAlone ==
  ASSUME TypeOK, InOrder, NEW d \in Dial, DialAlone(d)
  PROVE  InOrder'
<1>1. \A e \in Dial : DialInOrder(e)
  BY DEF InOrder, DialInOrder
<1>2. SUFFICES OthersKept(d) /\ DialInOrder(d)'
  BY <1>1, OrderKept DEF OthersKept, InOrder, DialInOrder
<1> USE DEF TypeOK, DialTypeOK, ConnectTypeOK
<1>3. CASE Begin(d)
  <2>1. OthersKept(d) /\ step'[d] = "pick" /\ chosen'[d] = {} /\ todo'[d] = {}
    BY <1>1, <1>3 DEF Begin, TakeTurn, Go, At, OthersKept, DialInOrder
  <2> QED BY <2>1 DEF DialInOrder
<1>4. CASE BeginClosed(d) \/ PickNone(d) \/ GiveUp(d) \/ Track(d)
  <2>1. PICK r \in Result : Return(d, r)
    BY <1>4 DEF BeginClosed, PickNone, GiveUp, Track, Result
  <2>2. OthersKept(d) /\ step'[d] = "returned" /\ chosen'[d] = {} /\ todo'[d] = {}
    BY <2>1 DEF Return, Go, OthersKept
  <2> QED BY <2>2 DEF DialInOrder
<1>5. CASE Pick(d)
  <2>1. OthersKept(d) /\ step'[d] = "next" /\ chosen'[d] = normal /\ todo'[d] = normal
    BY <1>5 DEF Pick, Go, OthersKept
  <2> QED BY <2>1 DEF DialInOrder
<1>6. CASE TryNext(d)
  <2>1. PICK i \in Inst : IsNext(d, i) /\ todo' = [todo EXCEPT ![d] = @ \ {i}]
    BY <1>6 DEF TryNext
  <2>2. /\ OthersKept(d) /\ step'[d] = "connect" /\ UNCHANGED <<chosen, start, key>>
        /\ todo'[d] = todo[d] \ {i}
    BY <1>6, <2>1 DEF TryNext, Go, OthersKept, choiceVars
  <2>3. i \in todo[d] /\ \A j \in todo[d] : Before(d, i, j)
    BY <2>1 DEF IsNext, Before
  <2>4. \A x \in chosen[d] \ todo'[d], y \in todo'[d] : Before(d, x, y)
    BY <1>1, <2>2, <2>3 DEF DialInOrder
  <2>5. \A x \in chosen'[d] \ todo'[d], y \in todo'[d] : Before(d, x, y)'
    BY <1>1, <2>2, <2>4, BeforeKept DEF DialInOrder
  <2> QED BY <1>1, <2>2, <2>5 DEF DialInOrder
<1>7. CASE AttemptFailed(d) \/ CloseConn(d)
  <2>1. OthersKept(d)
    BY <1>7 DEF AttemptFailed, CloseConn, GoOn, Go, OthersKept, dialVars, choiceVars
  <2>2. DialInOrder(d)'
    BY <1>1, <1>7, OrderKept DEF AttemptFailed, CloseConn, GoOn, Go, At, dialVars, choiceVars
  <2> QED BY <2>1, <2>2
<1> QED BY <1>3, <1>4, <1>5, <1>6, <1>7 DEF DialAlone

LEMMA OrderStep ==
  ASSUME TypeOK, InOrder, [Next]_vars
  PROVE  InOrder'
<1>1. \A e \in Dial : DialInOrder(e)
  BY DEF InOrder, DialInOrder
<1>2. ASSUME UNCHANGED dialVars,
             \A e \in Dial :
               \/ step'[e] = step[e]
               \/ step[e] \notin {"idle", "pick"} /\ step'[e] \notin {"idle", "pick", "returned"}
      PROVE  InOrder'
  BY <1>1, <1>2, OrderKept DEF dialVars, choiceVars, InOrder, DialInOrder
<1> USE DEF TypeOK, DialTypeOK, ConnectTypeOK
<1>3. CASE \E d \in Dial : HandshakeAlone(d)
  BY <1>2, <1>3 DEF HandshakeAlone, ConnectFails, Connected, Send, Answered, Refused, Fail,
     Cleared, Go, At
<1>4. CASE \E d \in Dial : ContextAlone(d)
  BY <1>2, <1>4 DEF ContextAlone, TimeUp, CtxEnds
<1>5. CASE \E a \in Attempt : WatchAlone(a)
  BY <1>2, <1>5 DEF WatchAlone, Watch, WatchParks, WatchSeesStop, WatchSeesEnd, WatchFires,
     Watcher
<1>6. CASE Instances
  BY <1>2, <1>6 DEF Instances, Leave, Enter, CutConns, PoolClose
<1>7. CASE PoolUnchanged
  BY <1>2, <1>7 DEF PoolUnchanged
<1> QED BY <1>3, <1>4, <1>5, <1>6, <1>7, StepTaken, OrderAlone

-----------------------------------------------------------------------------
(* The invariant *)

LEMMA DialInvInit == Init => DialInv
<1>1. Init => TypeOK
  <2>1. 1 \in Inst /\ 0 \in 0..(CursorSize - 1)
    BY DialAssumption
  <2>2. Init => ConnectTypeOK
    BY <2>1 DEF Init, DialInit, ConnectInit, ConnectTypeOK, WatcherState
  <2>3. Init => DialTypeOK
    <3>1. Init => /\ step \in [Dial -> Steps] /\ result \in [Dial -> Result]
                  /\ closed \in BOOLEAN /\ normal \subseteq Inst /\ cursor \in 0..(CursorSize - 1)
      BY <2>1 DEF Init, DialInit, Steps, Result
    <3>2. Init => /\ conns \in [Inst -> SUBSET Dial]
                  /\ chosen \in [Dial -> SUBSET Inst] /\ todo \in [Dial -> SUBSET Inst]
      BY DEF Init, DialInit
    <3>3. Init => /\ key \in [Dial -> Key \cup {NoKey}]
                  /\ start \in [Dial -> 0..(CursorSize - 1)]
      BY <2>1 DEF Init, DialInit
    <3> QED BY <2>2, <3>1, <3>2, <3>3 DEF DialTypeOK
  <2> QED BY <2>3 DEF Init, TypeOK, TunnelStep, CopyState
<1>2. Init => ConnInHand /\ FiresAtEnd /\ HandedOutClean /\ InOrder
  BY DEF Init, DialInit, ConnectInit, ConnInHand, Handshaken, FiresAtEnd, Attempt,
     HandedOutClean, InOrder
<1> QED BY <1>1, <1>2 DEF DialInv

LEMMA DialInvStep == DialInv /\ [Next]_vars => DialInv'
BY TypesStep, InHandStep, FiresStep, CleanStep, OrderStep DEF DialInv

(* No step of a dial, a watcher, a tunnel or an instance takes a variable out
   of its type; in particular nothing is counted past the room of done
   (main.go:166) and the cursor keeps its width (dial.go:62). *)
THEOREM TunnelType == Spec => []TypeOK
<1>1. DialInv => TypeOK
  BY DEF DialInv
<1> QED BY <1>1, DialInvInit, DialInvStep, PTL DEF Spec

(* A connection that was handed out has a deadline only if the context ended,
   from a watcher that had not seen watchStop (amzwrap.go:171-173). *)
THEOREM HandedOutCleanAlways == Spec => []HandedOutClean
<1>1. DialInv => HandedOutClean
  BY DEF DialInv
<1> QED BY <1>1, DialInvInit, DialInvStep, PTL DEF Spec

(* Dials with one key never try two candidates of both in opposite orders
   (affinityOrder, dial.go:115-123). *)
THEOREM KeyOrderAgreesAlways == Spec => []KeyOrderAgrees
<1>1. DialInv => KeyOrderAgrees
  <2> SUFFICES ASSUME DialInv, NEW d \in Dial, NEW e \in Dial, key[d] # NoKey, key[d] = key[e],
                      NEW i \in chosen[d] \ todo[d], NEW j \in chosen[e] \ todo[e],
                      j \in todo[d], i \in todo[e]
               PROVE  FALSE
    BY DEF KeyOrderAgrees
  <2>1. Outranks(d, i, j) /\ Outranks(e, j, i)
    BY DEF DialInv, InOrder, Before
  <2>2. i \in Inst /\ j \in Inst /\ key[d] \in Key
    BY DEF DialInv, TypeOK, DialTypeOK
  <2>3. Rank[key[d]][i] \in Nat /\ Rank[key[d]][j] \in Nat
    BY <2>2, DialAssumption
  <2>4. Rank[key[d]][i] = Rank[key[d]][j]
    BY <2>1, <2>3 DEF Outranks
  <2>5. i = j
    BY <2>2, <2>4, DialAssumption
  <2> QED BY <2>5
<1> QED BY <1>1, DialInvInit, DialInvStep, PTL DEF Spec

-----------------------------------------------------------------------------
(* What a user of the pool may rely on *)

Held(d) == {i \in Inst : <<d, i>> \in open}
Phases == [d \in Dial |-> Phase(d)]
Helds == [d \in Dial |-> Held(d)]

(* The phase and the connections of the others are what they were. *)
Apart(d) ==
  \A e \in Dial \ {d} : Phase(e)' = Phase(e) /\ Held(e)' = Held(e)

LEMMA HeldIs ==
  ASSUME ConnInHand, NEW d \in Dial
  PROVE  /\ step[d] \in Handshaken => Held(d) = {via[d]} \cap Inst
         /\ step[d] \notin Handshaken /\ result[d] # "conn" => Held(d) = {}
         /\ Held(d) \subseteq {via[d]}
BY DEF Held, ConnInHand

LEMMA PromiseAlone ==
  ASSUME DialInv, NEW d \in Dial, DialAlone(d)
  PROVE  [Promise!Next]_(Promise!vars)
<1> DEFINE SetTo(p, h) == /\ Phases' = [Phases EXCEPT ![d] = p]
                          /\ Helds' = [Helds EXCEPT ![d] = h]
<1>1. ASSUME Apart(d), NEW p, NEW h, Phase(d)' = p, Held(d)' = h
      PROVE  SetTo(p, h)
  BY <1>1 DEF Apart, Phases, Helds
<1>2. ASSUME NEW p, NEW h, SetTo(p, h)
      PROVE  Promise!Set(d, p, h)
  BY <1>2 DEF Promise!Set, Phases, Helds, Held
<1> USE DEF TypeOK, DialTypeOK, ConnectTypeOK, DialInv
<1>3. CASE Begin(d)
  <2>1. Phase(d) = "idle" /\ Phase(d)' = "dialling" /\ Held(d)' = {} /\ Apart(d)
    BY <1>3, HeldIs DEF Begin, Go, At, Phase, Held, Apart, connectVars, ConnInHand, Handshaken
  <2>2. Promise!Start(d)
    BY <1>1, <1>2, <2>1 DEF Promise!Start
  <2> QED BY <2>2 DEF Promise!Next
<1>4. CASE BeginClosed(d) \/ PickNone(d) \/ GiveUp(d)
  <2>1. /\ step[d] \in {"idle", "pick", "next"} /\ step' = [step EXCEPT ![d] = "returned"]
        /\ \E r \in Result \ {"none", "conn"} : result' = [result EXCEPT ![d] = r]
        /\ UNCHANGED open
    BY <1>4 DEF BeginClosed, PickNone, GiveUp, Return, Go, At, Result, connectVars
  <2>2. /\ Phase(d) \in {"idle", "dialling"} /\ Phase(d)' = "error"
        /\ Held(d) = {} /\ Held(d)' = {} /\ Apart(d)
    BY <2>1, HeldIs DEF Phase, Held, Apart, ConnInHand, Handshaken
  <2>3. Promise!Refuse(d)
    BY <1>1, <1>2, <2>2 DEF Promise!Refuse, Phases, Helds, Held
  <2> QED BY <2>3 DEF Promise!Next
<1>5. CASE Pick(d) \/ TryNext(d) \/ AttemptFailed(d)
  <2>1. /\ step[d] \in {"pick", "next", "failed"}
        /\ \E s \in {"next", "connect"} : step' = [step EXCEPT ![d] = s]
        /\ UNCHANGED <<open, result>>
    BY <1>5 DEF Pick, TryNext, AttemptFailed, GoOn, Go, At, connectVars
  <2>2. \A e \in Dial : Phase(e)' = Phase(e) /\ Held(e)' = Held(e)
    BY <2>1 DEF Phase, Held
  <2> QED BY <2>2 DEF Promise!vars, Phases, Helds, Held
<1>6. CASE Track(d)
  <2>1. /\ step[d] = "won" /\ step' = [step EXCEPT ![d] = "returned"]
        /\ result' = [result EXCEPT ![d] = "conn"] /\ UNCHANGED open
    BY <1>6 DEF Track, Return, Go, At, connectVars
  <2>2. /\ Phase(d) = "dialling" /\ Phase(d)' = "conn" /\ Apart(d)
        /\ Held(d) # {} /\ Held(d)' = Held(d)
    BY <2>1, HeldIs DEF Phase, Held, Apart, Handshaken, ConnInHand
  <2>3. PICK h : h = Held(d)
    OBVIOUS
  <2>4. SetTo("conn", h)
    BY <1>1, <2>2, <2>3
  <2>5. Promise!Set(d, "conn", h)
    BY <1>2, <2>4
  <2>6. h = [e \in Dial |-> {i \in Inst : <<e, i>> \in open}][d]
    BY <2>3 DEF Held
  <2>7. Promise!HandOut(d)
    BY <2>2, <2>3, <2>5, <2>6 DEF Promise!HandOut, Promise!Set
  <2> QED BY <2>7 DEF Promise!Next
<1>7. CASE CloseConn(d)
  <2>1. /\ result[d] = "conn" /\ open' = open \ {<<d, via[d]>>} /\ UNCHANGED <<step, result>>
    BY <1>7 DEF CloseConn, Close, Now, dialVars
  <2>2. /\ Phase(d) = "conn" /\ Held(d)' = {}
        /\ \A e \in Dial : Phase(e)' = Phase(e) /\ (e # d => Held(e)' = Held(e))
    BY <2>1, HeldIs DEF Phase, Held, ConnInHand
  <2>3. Promise!Lose({d})
    BY <2>2 DEF Promise!Lose, Phases, Helds, Held
  <2> QED BY <2>3 DEF Promise!Next
<1> QED BY <1>3, <1>4, <1>5, <1>6, <1>7 DEF DialAlone

LEMMA PromiseHandshake ==
  ASSUME DialInv, NEW d \in Dial, HandshakeAlone(d)
  PROVE  [Promise!Next]_(Promise!vars)
<1> USE DEF TypeOK, DialTypeOK, ConnectTypeOK, DialInv
<1>1. ASSUME \A e \in Dial : Phase(e)' = Phase(e), NEW h,
             Phase(d) = "dialling", Held(d)' = h, \A e \in Dial \ {d} : Held(e)' = Held(e)
      PROVE  Promise!Set(d, "dialling", h)
  BY <1>1 DEF Promise!Set, Phases, Helds, Held
<1>2. \A e \in Dial : Phase(e)' = Phase(e)
  BY DEF HandshakeAlone, ConnectFails, Connected, Send, Answered, Refused, Fail, Cleared, Go,
     At, dialVars, Phase
<1>3. Phase(d) = "dialling"
  BY DEF HandshakeAlone, ConnectFails, Connected, Send, Answered, Refused, Fail, Cleared, At,
     Phase
<1>4. CASE Connected(d)
  <2>1. step[d] = "connect" /\ result[d] = "none" /\ open' = open \cup {<<d, via[d]>>}
    BY <1>4 DEF Connected, At, Now, ConnInHand, Result
  <2>2. /\ Held(d) = {} /\ Held(d)' = {via[d]}
        /\ \A e \in Dial \ {d} : Held(e)' = Held(e)
    BY <2>1, HeldIs DEF Held, Handshaken
  <2>3. Promise!Try(d)
    BY <1>1, <1>2, <1>3, <2>2 DEF Promise!Try, Phases, Helds, Held
  <2> QED BY <2>3 DEF Promise!Next
<1>5. CASE Refused(d)
  <2>1. open' = open \ {<<d, via[d]>>}
    BY <1>5 DEF Refused, Fail, Now
  <2>2. Held(d)' = {} /\ \A e \in Dial \ {d} : Held(e)' = Held(e)
    BY <2>1, HeldIs DEF Held, ConnInHand
  <2>3. Promise!Drop(d)
    BY <1>1, <1>2, <1>3, <2>2 DEF Promise!Drop, Phases
  <2> QED BY <2>3 DEF Promise!Next
<1>6. CASE UNCHANGED open
  <2>1. \A e \in Dial : Held(e)' = Held(e)
    BY <1>6 DEF Held
  <2> QED BY <1>2, <2>1 DEF Promise!vars, Phases, Helds, Held
<1> QED
  BY <1>4, <1>5, <1>6 DEF HandshakeAlone, ConnectFails, Send, Answered, Cleared, connectVars

LEMMA PromiseCut ==
  ASSUME DialInv, NEW i \in Inst, CutConns(i), NEW D, D = conns[i]
  PROVE  Promise!Lose(D)
<1> USE DEF TypeOK, DialTypeOK, ConnectTypeOK, DialInv
<1>1. open' = open \ {<<d, i>> : d \in conns[i]} /\ UNCHANGED <<step, result>>
  BY DEF CutConns, Close, dialVars
<1>2. \A d \in Dial : Phase(d)' = Phase(d)
  BY <1>1 DEF Phase
<1>3. \A d \in conns[i] : d \in Dial /\ Phase(d) = "conn"
  BY DEF ConnInHand, Phase
<1>4. \A d \in Dial : Held(d)' = IF d \in conns[i] THEN {} ELSE Held(d)
  BY <1>1 DEF Held, ConnInHand
<1> QED BY <1>2, <1>3, <1>4 DEF Promise!Lose, Phases, Helds, Held

LEMMA PromiseStep ==
  ASSUME DialInv, [Next]_vars
  PROVE  [Promise!Next]_(Promise!vars)
<1>1. ASSUME UNCHANGED <<step, result, open>>
      PROVE  UNCHANGED Promise!vars
  <2>1. \A d \in Dial : Phase(d)' = Phase(d) /\ Held(d)' = Held(d)
    BY <1>1 DEF Phase, Held
  <2> QED BY <2>1 DEF Promise!vars, Phases, Helds, Held
<1>2. CASE \E d \in Dial : ContextAlone(d)
  BY <1>1, <1>2 DEF ContextAlone, TimeUp, CtxEnds, connectVars, dialVars
<1>3. CASE \E a \in Attempt : WatchAlone(a)
  BY <1>1, <1>3 DEF WatchAlone, Watch, WatchParks, WatchSeesStop, WatchSeesEnd, WatchFires,
     Watcher, dialVars
<1>4. CASE \E i \in Inst : CutConns(i)
  <2>1. PICK i \in Inst : CutConns(i)
    BY <1>4
  <2>2. PICK D \in SUBSET Dial : D = conns[i]
    BY DEF DialInv, TypeOK, DialTypeOK
  <2>3. Promise!Lose(D)
    BY <2>1, <2>2, PromiseCut
  <2> QED BY <2>3 DEF Promise!Next
<1>5. CASE Instances /\ ~ \E i \in Inst : CutConns(i)
  BY <1>1, <1>5 DEF Instances, Leave, Enter, PoolClose, connectVars, dialVars
<1>6. CASE PoolUnchanged
  BY <1>1, <1>6 DEF PoolUnchanged, connectVars, dialVars
<1> QED BY <1>2, <1>3, <1>4, <1>5, <1>6, StepTaken, PromiseAlone, PromiseHandshake

(* A dial ends with one connection or with an error and none, and what was
   handed out is only ever closed (dial.go:18-22, :66-90). *)
THEOREM KeepsPromiseAlways == Spec => KeepsPromise
<1>1. Init => Promise!Init
  <2> SUFFICES ASSUME Init PROVE Promise!Init
    OBVIOUS
  <2>1. \A d \in Dial : Phase(d) = "idle" /\ Held(d) = {}
    BY DEF Init, DialInit, ConnectInit, Phase, Held
  <2> QED BY <2>1 DEF Promise!Init, Held
<1>2. DialInv /\ [Next]_vars => [Promise!Next]_(Promise!vars)
  BY PromiseStep
<1> QED BY <1>1, <1>2, DialInvInit, DialInvStep, PTL DEF Spec, KeepsPromise, Promise!Spec

-----------------------------------------------------------------------------
(* The cursor *)

(* The dials that are made and those that have begun; the ones with a turn. *)
Used == {d \in Dial : ctx[d] # "unused"}
Begun == {d \in Dial : step[d] # "idle"}
HasTurn(d) == key[d] = NoKey /\ step[d] \notin {"idle", "returned"}

(* The cursor does not come round to the turn of a dial in progress: no more
   dials are made than the cursor has values, 2^64 in the code. *)
CursorLasts ==
  /\ IsFiniteSet(Dial)
  /\ \A c \in Contexts : Cardinality({d \in Dial : c[d] # "unused"}) <= CursorSize

(* Two dials never have one turn, and until all have begun the next turn is
   above all those taken. *)
TurnsDiffer ==
  /\ Begun \subseteq Used
  /\ \A d, e \in Dial : HasTurn(d) /\ HasTurn(e) /\ d # e => start[d] # start[e]
  /\ \/ Begun = Used
     \/ /\ cursor <= Cardinality(Begun)
        /\ \A d \in Dial : HasTurn(d) => start[d] < cursor

LEMMA BegunFinite ==
  ASSUME TypeOK, CursorLasts
  PROVE  /\ IsFiniteSet(Begun) /\ IsFiniteSet(Used)
         /\ Cardinality(Begun) \in Nat /\ Cardinality(Used) \in Nat
         /\ Cardinality(Used) <= CursorSize
<1>1. IsFiniteSet(Begun) /\ IsFiniteSet(Used)
  BY FS_Subset DEF CursorLasts, Begun, Used
<1>2. ctx \in Contexts
  BY DEF TypeOK, DialTypeOK, ConnectTypeOK
<1> QED BY <1>1, <1>2, FS_CardinalityType DEF CursorLasts, Used

(* Only a step that takes a turn disturbs this. *)
LEMMA TurnsKept ==
  ASSUME TypeOK, CursorLasts, TurnsDiffer, UNCHANGED <<ctx, cursor>>,
         Begun \subseteq Begun', Begun' \subseteq Used, IsFiniteSet(Begun'),
         \A d \in Dial : HasTurn(d)' => HasTurn(d) /\ start'[d] = start[d]
  PROVE  TurnsDiffer'
<1>1. Used' = Used
  BY DEF Used
<1>2. CASE Begun = Used
  BY <1>1, <1>2 DEF TurnsDiffer
<1>3. CASE Begun # Used
  <2>1. Cardinality(Begun) <= Cardinality(Begun)'
    BY FS_Subset
  <2>2. Cardinality(Begun) \in Nat /\ Cardinality(Begun)' \in Nat /\ cursor \in Int
    BY BegunFinite, FS_CardinalityType DEF TypeOK, DialTypeOK
  <2> QED BY <1>1, <1>3, <2>1, <2>2 DEF TurnsDiffer
<1> QED BY <1>2, <1>3

LEMMA TurnTaken ==
  ASSUME TypeOK, CursorLasts, TurnsDiffer, NEW d \in Dial, Begin(d),
         key' = [key EXCEPT ![d] = NoKey], TakeTurn(d)
  PROVE  TurnsDiffer'
<1> DEFINE b == Cardinality(Begun)
<1>1. /\ d \in Used /\ d \notin Begun /\ Used' = Used /\ Begun' = Begun \cup {d}
  BY DEF Begin, Used, Begun, At, Go, ctxVars, TypeOK, DialTypeOK
<1>2. /\ b \in Nat /\ Cardinality(Begun') = b + 1 /\ IsFiniteSet(Begun')
  BY <1>1, BegunFinite, FS_AddElement
<1>3. /\ cursor <= b /\ \A e \in Dial : HasTurn(e) => start[e] < cursor
  BY <1>1 DEF TurnsDiffer
<1>4. \A e \in Dial \ {d} : (HasTurn(e)' <=> HasTurn(e)) /\ start'[e] = start[e]
  BY DEF Begin, TakeTurn, Go, HasTurn, TypeOK, DialTypeOK
<1>5. start'[d] = cursor /\ cursor' = (cursor + 1) % CursorSize
  BY DEF TakeTurn, TypeOK, DialTypeOK
<1>6. /\ cursor \in Nat /\ cursor + 1 <= CursorSize /\ CursorSize \in Nat \ {0}
      /\ \A e \in Dial : start[e] \in Nat
  BY DialAssumption DEF TypeOK, DialTypeOK
<1>7. \A e, f \in Dial : HasTurn(e)' /\ HasTurn(f)' /\ e # f => start'[e] # start'[f]
  BY <1>3, <1>4, <1>5, <1>6 DEF TurnsDiffer
<1>8. Begun' \subseteq Used'
  BY <1>1 DEF TurnsDiffer
<1>9. CASE cursor + 1 < CursorSize
  <2>1. cursor' = cursor + 1
    BY <1>5, <1>6, <1>9
  <2>2. \A e \in Dial : HasTurn(e)' => start'[e] < cursor'
    BY <1>3, <1>4, <1>5, <1>6, <2>1
  <2>3. cursor' <= Cardinality(Begun')
    BY <1>2, <1>3, <1>6, <2>1
  <2> QED BY <1>7, <1>8, <2>2, <2>3 DEF TurnsDiffer
<1>10. CASE cursor + 1 = CursorSize
  <2>1. Cardinality(Used) <= Cardinality(Begun')
    BY <1>2, <1>3, <1>6, <1>10, BegunFinite
  <2>2. Cardinality(Begun') <= Cardinality(Used) /\ Begun' \in SUBSET Used
    BY <1>1, <1>8, BegunFinite, FS_Subset
  <2>3. Begun' = Used
    BY <1>2, <2>1, <2>2, BegunFinite, FS_Subset
  <2> QED BY <1>1, <1>7, <1>8, <2>3 DEF TurnsDiffer
<1> QED BY <1>6, <1>9, <1>10

LEMMA TurnsStep ==
  ASSUME DialInv, CursorLasts, TurnsDiffer, [Next]_vars
  PROVE  TurnsDiffer'
<1> USE DEF DialInv
<1>1. TypeOK' /\ IsFiniteSet(Begun')
  BY TypesStep, FS_Subset DEF CursorLasts, Begun
<1> USE DEF TypeOK, DialTypeOK, ConnectTypeOK
<1>2. ASSUME UNCHANGED <<ctx, cursor>>,
             \A d \in Dial :
               /\ step[d] # "idle" => step'[d] # "idle"
               /\ step'[d] # "idle" => step[d] # "idle" \/ ctx[d] # "unused"
               /\ HasTurn(d)' => HasTurn(d) /\ start'[d] = start[d]
      PROVE  TurnsDiffer'
  <2>1. Begun \subseteq Begun' /\ Begun' \subseteq Used
    BY <1>2 DEF Begun, Used, TurnsDiffer
  <2> QED BY <1>1, <1>2, <2>1, TurnsKept
<1>3. ASSUME NEW d \in Dial, DialAlone(d)
      PROVE  TurnsDiffer'
  <2>1. CASE Begin(d)
    <3>1. PICK k \in Keys[d] :
            /\ key' = [key EXCEPT ![d] = k]
            /\ IF k = NoKey THEN TakeTurn(d) ELSE UNCHANGED <<start, cursor>>
      BY <2>1 DEF Begin
    <3>2. CASE k = NoKey
      BY <2>1, <3>1, <3>2, TurnTaken
    <3>3. CASE k # NoKey
      BY <1>2, <2>1, <3>1, <3>3 DEF Begin, Go, At, ctxVars, HasTurn
    <3> QED BY <3>2, <3>3
  <2>2. CASE BeginClosed(d) \/ PickNone(d) \/ GiveUp(d) \/ Track(d)
    <3>1. /\ step' = [step EXCEPT ![d] = "returned"] /\ UNCHANGED <<ctx, cursor>>
          /\ step[d] # "idle" \/ ctx[d] # "unused"
          /\ key' = [key EXCEPT ![d] = NoKey] /\ start' = [start EXCEPT ![d] = 0]
      BY <2>2 DEF BeginClosed, PickNone, GiveUp, Track, Return, Go, At, ctxVars
    <3> QED BY <1>2, <3>1 DEF HasTurn
  <2>3. CASE Pick(d) \/ TryNext(d) \/ AttemptFailed(d)
    <3>1. /\ step[d] \notin {"idle", "returned"} /\ UNCHANGED <<ctx, cursor, key, start>>
          /\ \E s \in {"next", "connect"} : step' = [step EXCEPT ![d] = s]
      BY <2>3 DEF Pick, TryNext, AttemptFailed, GoOn, Go, At, ctxVars, choiceVars
    <3> QED BY <1>2, <3>1 DEF HasTurn
  <2>4. CASE CloseConn(d)
    BY <1>2, <2>4 DEF CloseConn, dialVars, choiceVars, ctxVars, HasTurn
  <2> QED BY <1>3, <2>1, <2>2, <2>3, <2>4 DEF DialAlone
<1>4. ASSUME NEW d \in Dial, HandshakeAlone(d)
      PROVE  TurnsDiffer'
  <2>1. /\ step[d] \notin {"idle", "returned"} /\ UNCHANGED <<ctx, cursor, key, start>>
        /\ \E s \in Steps \ {"idle", "returned"} : step' = [step EXCEPT ![d] = s]
    BY <1>4 DEF HandshakeAlone, ConnectFails, Connected, Send, Answered, Refused, Fail, Cleared,
       Go, At, ctxVars, dialVars, choiceVars, Steps, Handshake
  <2> QED BY <1>2, <2>1 DEF HasTurn
<1>5. CASE UNCHANGED <<step, ctx, dialVars>>
  BY <1>2, <1>5 DEF dialVars, choiceVars, HasTurn
<1>6. (\E d \in Dial : ContextAlone(d)) => UNCHANGED <<step, ctx, dialVars>>
  BY DEF ContextAlone, TimeUp, CtxEnds
<1>7. (\E a \in Attempt : WatchAlone(a)) => UNCHANGED <<step, ctx, dialVars>>
  BY DEF WatchAlone, Watch, WatchParks, WatchSeesStop, WatchSeesEnd, WatchFires, Watcher, ctxVars
<1>8. Instances \/ PoolUnchanged => UNCHANGED <<step, ctx, dialVars>>
  BY DEF Instances, Leave, Enter, CutConns, PoolClose, PoolUnchanged, ctxVars
<1> QED BY <1>3, <1>4, <1>5, <1>6, <1>7, <1>8, StepTaken

(* Among the elements of a finite set of integers each rank is taken. *)
LEMMA RankTaken ==
  ASSUME NEW C \in SUBSET Int, IsFiniteSet(C), NEW r \in 0..(Cardinality(C) - 1)
  PROVE  \E x \in C : Cardinality({y \in C : y < x}) = r
<1> DEFINE below(x) == {y \in C : y < x}
           n == Cardinality(C)
           T == 0..(n - 1)
           f == [x \in C |-> Cardinality(below(x))]
<1>1. n \in Nat /\ \A x \in C : IsFiniteSet(below(x)) /\ Cardinality(below(x)) \in Nat
  BY FS_Subset, FS_CardinalityType
<1>2. \A x \in C : Cardinality(below(x)) < n
  <2> SUFFICES ASSUME NEW x \in C PROVE Cardinality(below(x)) < n
    OBVIOUS
  <2>1. below(x) \in SUBSET C /\ x \notin below(x)
    OBVIOUS
  <2>2. Cardinality(below(x)) <= n /\ Cardinality(below(x)) # n
    BY <2>1, FS_Subset
  <2> QED BY <1>1, <2>2
<1>3. \A x, z \in C : x < z => Cardinality(below(x)) < Cardinality(below(z))
  <2> SUFFICES ASSUME NEW x \in C, NEW z \in C, x < z
               PROVE  Cardinality(below(x)) < Cardinality(below(z))
    OBVIOUS
  <2>1. \A y \in C : y < x => y < z
    OBVIOUS
  <2>2. /\ below(x) \in SUBSET below(z)
        /\ x \in below(z) /\ x \notin below(x)
    <3>1. \A y \in below(x) : y \in below(z)
      BY <2>1
    <3>2. x \in below(z) /\ x \notin below(x)
      OBVIOUS
    <3> QED BY <3>1, <3>2
  <2>3. /\ Cardinality(below(x)) <= Cardinality(below(z))
        /\ Cardinality(below(x)) # Cardinality(below(z))
    BY <1>1, <2>2, FS_Subset
  <2> QED BY <1>1, <2>3
<1>4. f \in Injection(C, T)
  <2>1. f \in [C -> T]
    BY <1>1, <1>2
  <2>2. \A x, z \in C : f[x] = f[z] => x = z
    BY <1>1, <1>3
  <2> QED BY <2>1, <2>2 DEF Injection, IsInjective
<1>5. IsFiniteSet(T) /\ Cardinality(T) = n
  BY <1>1, FS_Interval
<1>6. f \in Surjection(C, T)
  BY <1>4, <1>5, FS_Injection
<1>7. PICK x \in C : f[x] = r
  BY <1>6 DEF Surjection
<1> QED BY <1>7

(* Equal remainders are those of numbers a multiple apart. *)
LEMMA Quotient ==
  ASSUME NEW n \in Nat \ {0}, NEW a \in Int
  PROVE  a = n * (a \div n) + (a % n) /\ a \div n \in Int
OBVIOUS

LEMMA MultiplesApart ==
  ASSUME NEW n \in Nat \ {0}, NEW q \in Int, NEW r \in Int, q > r
  PROVE  n * q - n * r >= n
<1>1. n * (q - r) = n * q - n * r
  OBVIOUS
<1>2. n * (q - r) >= n
  OBVIOUS
<1> QED BY <1>1, <1>2

LEMMA SameRemainder ==
  ASSUME NEW n \in Nat \ {0}, NEW a \in Nat, NEW b \in Nat, a % n = b % n,
         a - b \in (1 - n)..(n - 1)
  PROVE  a = b
<1>1. PICK q \in Int, r \in Int : a = n * q + (a % n) /\ b = n * r + (a % n)
  <2>1. a = n * (a \div n) + (a % n) /\ a \div n \in Int
    BY Quotient
  <2>2. b = n * (b \div n) + (b % n) /\ b \div n \in Int
    BY Quotient
  <2> QED BY <2>1, <2>2
<1>2. a % n \in Int
  OBVIOUS
<1>3. CASE q > r
  <2>1. n * q - n * r >= n
    BY <1>3, MultiplesApart
  <2> QED BY <2>1, <1>1, <1>2
<1>4. CASE r > q
  <2>1. n * r - n * q >= n
    BY <1>4, MultiplesApart
  <2> QED BY <2>1, <1>1, <1>2
<1>5. CASE r = q
  BY <1>1, <1>5
<1> QED BY <1>3, <1>4, <1>5

LEMMA ZeroOffset ==
  ASSUME NEW n \in Nat \ {0}, NEW a \in 0..(n - 1), NEW b \in 0..(n - 1), (a - b) % n = 0
  PROVE  a = b
OBVIOUS

(* The candidate that is first in turn is the one whose rank is the start,
   modulo their number. *)
LEMMA FirstInTurn ==
  ASSUME NEW d \in Dial, chosen[d] \subseteq Int, IsFiniteSet(chosen[d]), NEW n \in Nat,
         NEW i \in chosen[d], \A j \in chosen[d] \ {i} : InTurn(d, n, i, j)
  PROVE  Cardinality({y \in chosen[d] : y < i}) = n % Cardinality(chosen[d])
<1> DEFINE c == Cardinality(chosen[d])
           index(x) == Cardinality({y \in chosen[d] : y < x})
           first == n % c
<1>1. c \in Nat \ {0}
  BY FS_CardinalityType, FS_EmptySet
<1>2. first \in 0..(c - 1)
  BY <1>1
<1>3. PICK j \in chosen[d] : index(j) = first
  BY <1>2, RankTaken
<1>4. index(i) \in 0..(c - 1)
  <2>1. {y \in chosen[d] : y < i} \in SUBSET chosen[d] /\ i \notin {y \in chosen[d] : y < i}
    OBVIOUS
  <2>2. index(i) \in Nat /\ index(i) <= c /\ index(i) # c
    BY <2>1, FS_Subset, FS_CardinalityType
  <2> QED BY <1>1, <2>2
<1>5. j # i => (index(i) - first) % c <= (index(j) - first) % c
  BY DEF InTurn
<1> HIDE DEF c, index, first
<1>6. CASE j # i
  <2>1. (index(j) - first) % c = 0
    BY <1>1, <1>2, <1>3
  <2>2. (index(i) - first) % c \in 0..(c - 1)
    BY <1>1, <1>2, <1>4
  <2>3. (index(i) - first) % c = 0
    BY <1>1, <1>5, <1>6, <2>1, <2>2
  <2>4. index(i) = first
    BY <1>1, <1>2, <1>4, <2>3, ZeroOffset
  <2> QED BY <2>4 DEF index, first, c
<1>7. CASE j = i
  BY <1>3, <1>7 DEF index, first, c
<1> QED BY <1>6, <1>7

(* The one that is gone from the candidates. *)
LEMMA OneGone ==
  ASSUME NEW C, IsFiniteSet(C), NEW S \in SUBSET C, Cardinality(S) = Cardinality(C) - 1
  PROVE  \E i \in C : C \ S = {i}
<1>1. Cardinality(C \ S) = Cardinality(C) - Cardinality(C \cap S) /\ IsFiniteSet(C \ S)
  BY FS_Difference
<1>2. C \cap S = S /\ Cardinality(C) \in Nat
  BY FS_CardinalityType
<1>3. Cardinality(C \ S) = 1
  BY <1>1, <1>2
<1>4. \E i : C \ S = {i}
  BY <1>1, <1>3, FS_Singleton
<1> QED BY <1>4

(* Of dials that choose from the same instances and took their turns less than
   their number apart, no two begin with the same one, however their steps
   interleave (dial.go:62, :83-84). *)
THEOREM RotationSpreadsAlways ==
  ASSUME CursorLasts
  PROVE  Spec => []RotationSpreads
<1>1. DialInv /\ TurnsDiffer => RotationSpreads
  <2> SUFFICES ASSUME DialInv, TurnsDiffer, NEW d \in Dial, NEW e \in Dial, d # e,
                      key[d] = NoKey, key[e] = NoKey,
                      Cardinality(chosen[d]) > 1, chosen[d] = chosen[e],
                      start[d] - start[e]
                        \in (1 - Cardinality(chosen[d]))..(Cardinality(chosen[d]) - 1),
                      Cardinality(todo[d]) = Cardinality(chosen[d]) - 1, todo[d] = todo[e]
               PROVE  FALSE
    BY DEF RotationSpreads
  <2> DEFINE C == chosen[d]
  <2>1. /\ C \subseteq Inst /\ todo[d] \in SUBSET C /\ start[d] \in Nat /\ start[e] \in Nat
    BY DialAssumption DEF DialInv, InOrder, TypeOK, DialTypeOK
  <2>2. IsFiniteSet(C) /\ C \in SUBSET Int /\ Cardinality(C) \in Nat \ {0}
    <3>1. IsFiniteSet(Inst) /\ Inst \subseteq Int
      BY DialAssumption, FS_Interval
    <3>2. IsFiniteSet(C)
      BY <2>1, <3>1, FS_Subset
    <3>3. Cardinality(C) \in Nat
      BY <3>2, FS_CardinalityType
    <3>4. C \in SUBSET Int
      BY <2>1, <3>1
    <3>5. Cardinality(C) # 0
      BY <3>3
    <3> QED BY <3>2, <3>3, <3>4, <3>5
  <2>3. PICK i \in C : C \ todo[d] = {i}
    BY <2>1, <2>2, OneGone
  <2>4. /\ \A j \in C \ {i} : InTurn(d, start[d], i, j)
        /\ \A j \in C \ {i} : InTurn(e, start[e], i, j)
    BY <2>3 DEF DialInv, InOrder, Before
  <2>5. start[d] % Cardinality(C) = start[e] % Cardinality(C)
    <3>1. Cardinality({y \in chosen[d] : y < i}) = start[d] % Cardinality(chosen[d])
      BY <2>1, <2>2, <2>4, FirstInTurn
    <3>2. Cardinality({y \in chosen[e] : y < i}) = start[e] % Cardinality(chosen[e])
      BY <2>1, <2>2, <2>4, FirstInTurn
    <3> QED BY <3>1, <3>2
  <2>6. start[d] = start[e]
    BY <2>1, <2>2, <2>5, SameRemainder
  <2>7. HasTurn(d) /\ HasTurn(e)
    BY <2>3 DEF DialInv, InOrder, HasTurn
  <2> QED BY <2>6, <2>7 DEF TurnsDiffer
<1>2. Init => TurnsDiffer
  <2>1. Init => Begun = {} /\ cursor = 0 /\ \A d \in Dial : ~HasTurn(d)
    BY DEF Init, DialInit, Begun, HasTurn
  <2> QED BY <2>1, FS_EmptySet DEF TurnsDiffer
<1>3. DialInv /\ TurnsDiffer /\ [Next]_vars => TurnsDiffer'
  BY TurnsStep
<1> QED BY <1>1, <1>2, <1>3, DialInvInit, DialInvStep, PTL DEF Spec

=============================================================================
