----------------------------- MODULE ProxyTunnel -----------------------------
(***************************************************************************)
(* The proxy command (cmd/proxy/main.go): one goroutine per CONNECT request *)
(* dials through the pool, takes the client's connection over from the HTTP *)
(* server, and relays both directions until one of them ends.               *)
(*                                                                          *)
(* A request is the dial it makes, d.  The context of the dial is the one   *)
(* of the request: net/http ends it when the client goes away, before the   *)
(* connection is taken over, and after the handler has returned.  The other *)
(* dials are of users of the library, with a context of their own.          *)
(***************************************************************************)
EXTENDS PoolDial

CONSTANT Tunnel  \* the dials that are CONNECT requests

ASSUME TunnelAssumption ==
  /\ Tunnel \subseteq Dial
  /\ \A c \in Contexts, d \in Tunnel : c[d] \in {"unused", "cancel"}

VARIABLES
  tun,       \* [Tunnel -> TunnelStep], where tunnelConnect is
  client,    \* the requests whose client connection is open
  copy,      \* [Tunnel -> [Way -> CopyState]], the goroutines of relay
  done       \* [Tunnel -> 0..2], messages in done

tunnelVars == <<tun, client, copy, done>>
vars == <<step, via, ctxVars, connectVars, poolVars, conns, dialVars, tunnelVars>>

Way == {"up", "down"}
TunnelStep == {"idle", "dial", "hijack", "reply", "relay", "closing", "release",
               "returned"}
CopyState == {"none", "copying", "sending", "gone"}

TypeOK ==
  /\ DialTypeOK
  /\ tun \in [Tunnel -> TunnelStep]
  /\ client \subseteq Tunnel
  /\ copy \in [Tunnel -> [Way -> CopyState]]
  /\ done \in [Tunnel -> 0..2]

Init ==
  /\ DialInit
  /\ tun = [d \in Tunnel |-> "idle"]
  /\ client = Tunnel
  /\ copy = [d \in Tunnel |-> [w \in Way |-> "none"]]
  /\ done = [d \in Tunnel |-> 0]

(* The environment of a dial is left as it is by a step of the handler. *)
PoolUnchanged == UNCHANGED <<step, via, ctxVars, connectVars, poolVars, conns, dialVars>>

Tun(d, from, to) == tun[d] = from /\ tun' = [tun EXCEPT ![d] = to]

-----------------------------------------------------------------------------
(* tunnelConnect *)

Request(d) ==
  /\ ctx[d] # "unused"
  /\ Tun(d, "idle", "dial")
  /\ UNCHANGED <<client, copy, done>> /\ PoolUnchanged

DialConn(d) == tun[d] = "dial" /\ DialStep(d) /\ UNCHANGED tunnelVars

(* http.Error: the client keeps its connection to the server. *)
BadGateway(d) ==
  /\ step[d] = "returned" /\ result[d] # "conn"
  /\ Tun(d, "dial", "returned")
  /\ UNCHANGED <<client, copy, done>> /\ PoolUnchanged

Dialled(d) ==
  /\ result[d] = "conn"
  /\ Tun(d, "dial", "hijack")
  /\ UNCHANGED <<client, copy, done>> /\ PoolUnchanged

Hijack(d) ==
  /\ \/ Tun(d, "hijack", "reply")
     \/ Tun(d, "hijack", "release")
  /\ UNCHANGED <<client, copy, done>> /\ PoolUnchanged

Reply(d) ==
  /\ \/ Tun(d, "reply", "relay") /\ d \in client
        /\ copy' = [copy EXCEPT ![d] = [w \in Way |-> "copying"]]
     \/ Tun(d, "reply", "closing") /\ UNCHANGED copy
  /\ UNCHANGED <<client, done>> /\ PoolUnchanged

(* The first message ends relay. *)
RelayReturns(d) ==
  /\ done[d] > 0 /\ Tun(d, "relay", "closing")
  /\ done' = [done EXCEPT ![d] = @ - 1]
  /\ UNCHANGED <<client, copy>> /\ PoolUnchanged

(* The deferred calls: client.Close, if it was taken over, then target.Close. *)
CloseClient(d) ==
  /\ Tun(d, "closing", "release")
  /\ client' = client \ {d}
  /\ UNCHANGED <<copy, done>> /\ PoolUnchanged

CloseTarget(d) ==
  /\ Tun(d, "release", "returned")
  /\ IF Now(d) \in open THEN CloseConn(d) ELSE PoolUnchanged
  /\ UNCHANGED <<client, copy, done>>

-----------------------------------------------------------------------------
(* The two copies of relay *)

(* io.Copy returns: one of the two connections is closed here or by its other
   end, or has a deadline in the past. *)
CopyEnds(d, w) ==
  /\ copy[d][w] = "copying"
  /\ copy' = [copy EXCEPT ![d][w] = "sending"]
  /\ UNCHANGED <<tun, client, done>> /\ PoolUnchanged

Broken(d) == d \notin client \/ Now(d) \notin open \/ Expired(Now(d))
CopyBreaks(d, w) == Broken(d) /\ CopyEnds(d, w)

(* Faulty variant: done without room, which nobody reads a second time. *)
CopyTellsReader(d, w) ==
  /\ copy[d][w] = "sending" /\ done[d] = 0 /\ tun[d] = "relay"
  /\ done' = [done EXCEPT ![d] = @ + 1]
  /\ copy' = [copy EXCEPT ![d][w] = "gone"]
  /\ UNCHANGED <<tun, client>> /\ PoolUnchanged

(* done has room for both. *)
CopyTells(d, w) ==
  /\ copy[d][w] = "sending" /\ done[d] < 2
  /\ done' = [done EXCEPT ![d] = @ + 1]
  /\ copy' = [copy EXCEPT ![d][w] = "gone"]
  /\ UNCHANGED <<tun, client>> /\ PoolUnchanged

-----------------------------------------------------------------------------
(* Hijack stops the reader of the HTTP server that watches for the client's
   end; the context ends for good when the handler has returned. *)
RequestCtx(d) ==
  /\ d \in Tunnel => tun[d] \in {"dial", "hijack", "returned"}
  /\ TimeUp(d) \/ CtxEnds(d)
  /\ UNCHANGED <<poolVars, conns, dialVars, tunnelVars>>

Handler(d) ==
  \/ Request(d) \/ DialConn(d) \/ BadGateway(d) \/ Dialled(d) \/ Hijack(d) \/ Reply(d)
  \/ RelayReturns(d) \/ CloseClient(d) \/ CloseTarget(d)

Copy(d, w) == CopyEnds(d, w) \/ CopyTells(d, w)

User(d) == (DialStep(d) \/ CloseConn(d)) /\ UNCHANGED tunnelVars

Next ==
  \/ \E d \in Tunnel : Handler(d)
  \/ \E d \in Tunnel, w \in Way : Copy(d, w)
  \/ \E d \in Dial \ Tunnel : User(d)
  \/ \E d \in Dial : RequestCtx(d)
  \/ \E a \in Attempt : WatchStep(a) /\ UNCHANGED tunnelVars
  \/ Instances /\ UNCHANGED tunnelVars

Spec == Init /\ [][Next]_vars

(* Fairness: goroutines that can go on do, I/O past its deadline fails, a
   context past its deadline ends, and net.Dialer gives up when its context
   ends.  Nothing is assumed of proxies, clients and users, which may stall. *)
FairSpec ==
  /\ Spec
  /\ \A d \in Dial : WF_vars(DialGoesOn(d) /\ UNCHANGED tunnelVars)
  /\ \A d \in Dial : WF_vars(d \in late /\ RequestCtx(d))
  /\ \A d \in Tunnel : WF_vars(RelayReturns(d) \/ CloseClient(d) \/ CloseTarget(d))
  /\ \A d \in Tunnel, w \in Way : WF_vars(CopyBreaks(d, w) \/ CopyTells(d, w))
  /\ \A a \in Attempt : WF_vars(WatchStep(a) /\ UNCHANGED tunnelVars)

-----------------------------------------------------------------------------
(* A dial whose context ends returns, also when the proxy accepts and then
   says nothing: the watcher, or the deadline, breaks the handshake
   (amzwrap.go:137-154). *)
CancelledDialReturns ==
  \A d \in Dial : d \in over ~> step[d] \in {"idle", "returned"}

(* No dial leaves a watcher behind (amzwrap.go:143, :152, :156, :172). *)
WatchersEnd ==
  \A d \in Dial : step[d] = "returned" ~>
    \A i \in Inst : watcher[<<d, i>>] \in {"none", "gone"}

(* When one direction ends, the client leaves or the instance cuts its
   connections, the whole tunnel is taken down: both connections are closed
   and both goroutines end (main.go:125, :134, :166-176). *)
TunnelComesDown ==
  \A d \in Tunnel :
    tun[d] = "relay" /\ (Broken(d) \/ \E w \in Way : copy[d][w] # "copying") ~>
      /\ tun[d] = "returned" /\ d \notin client /\ Now(d) \notin open
      /\ \A w \in Way : copy[d][w] = "gone"

(* DialPromise is what a user of the pool may rely on. *)
Phase(d) ==
  CASE step[d] = "idle" -> "idle"
    [] step[d] = "returned" /\ result[d] = "conn" -> "conn"
    [] step[d] = "returned" /\ result[d] # "conn" -> "error"
    [] OTHER -> "dialling"

Promise == INSTANCE DialPromise WITH
  phase <- [d \in Dial |-> Phase(d)],
  held <- [d \in Dial |-> {i \in Inst : <<d, i>> \in open}]

KeepsPromise == Promise!Spec
=============================================================================
