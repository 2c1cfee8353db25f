------------------------------ MODULE PoolDial ------------------------------
(***************************************************************************)
(* DialContext and DialContextWithKey (dial.go): a dial takes the Normal     *)
(* instances of the snapshot, in turn from a cursor or by the rank of a key, *)
(* and tries them one after the other with HttpConnect.  A connection is     *)
(* registered at its instance until its user or the instance closes it.     *)
(*                                                                          *)
(* What the instances do is reduced to what a dial can see: they enter and   *)
(* leave Normal, cut the connections registered with them, and end.          *)
(***************************************************************************)
EXTENDS HttpConnect, Integers, FiniteSets

CONSTANTS
  Key,       \* affinity keys
  NoKey,     \* the empty key, and DialContext
  Keys,      \* [Dial -> SUBSET (Key \cup {NoKey})]
  Rank,      \* [Key -> [Inst -> Nat]], fnv64a(key + id)
  CursorSize \* 2^64

ASSUME DialAssumption ==
  /\ Inst = 1..Cardinality(Inst) /\ Cardinality(Inst) \in Nat \ {0}
  /\ NoKey \notin Key
  /\ Keys \in [Dial -> SUBSET (Key \cup {NoKey})]
  /\ Rank \in [Key -> [Inst -> Nat]]
  /\ \A k \in Key, i, j \in Inst : i # j => Rank[k][i] # Rank[k][j]
  /\ CursorSize \in Nat \ {0}

VARIABLES
  closed,       \* p.closed
  normal,       \* the instances of the snapshot that are Normal
  conns,        \* [Inst -> SUBSET Dial], the connections registered
  cursor,       \* p.cursor
  key,          \* [Dial -> Key \cup {NoKey}]
  start,        \* [Dial -> 0..(CursorSize - 1)]
  chosen,       \* [Dial -> SUBSET Inst], its candidates
  todo,         \* [Dial -> SUBSET Inst], those it has not tried
  result        \* [Dial -> Result]

poolVars == <<closed, normal>>
choiceVars == <<cursor, key, start, chosen>>
dialVars == <<choiceVars, todo, result>>

Result == {"none", "conn", "ErrClosed", "ErrNoInstance", "ctx", "lastErr"}
Steps == {"idle", "pick", "next", "failed", "won", "returned"} \cup Handshake

DialTypeOK ==
  /\ ConnectTypeOK
  /\ step \in [Dial -> Steps]
  /\ closed \in BOOLEAN
  /\ normal \subseteq Inst
  /\ conns \in [Inst -> SUBSET Dial]
  /\ cursor \in 0..(CursorSize - 1)
  /\ key \in [Dial -> Key \cup {NoKey}]
  /\ start \in [Dial -> 0..(CursorSize - 1)]
  /\ chosen \in [Dial -> SUBSET Inst]
  /\ todo \in [Dial -> SUBSET Inst]
  /\ result \in [Dial -> Result]

DialInit ==
  /\ ConnectInit
  /\ step = [d \in Dial |-> "idle"]
  /\ via = [d \in Dial |-> 1]
  /\ closed = FALSE /\ normal = Inst
  /\ conns = [i \in Inst |-> {}]
  /\ cursor = 0
  /\ key = [d \in Dial |-> NoKey]
  /\ start = [d \in Dial |-> 0]
  /\ chosen = [d \in Dial |-> {}]
  /\ todo = [d \in Dial |-> {}]
  /\ result = [d \in Dial |-> "none"]

-----------------------------------------------------------------------------
(* The order of the candidates.  The snapshot is in the order of creation,
   which is that of the numbers. *)

(* Round the candidates, from the one with index n: i comes before j. *)
InTurn(d, n, i, j) ==
  LET index(x) == Cardinality({y \in chosen[d] : y < x})
      first == n % Cardinality(chosen[d])
      place(x) == (index(x) - first) % Cardinality(chosen[d])
  IN  place(i) <= place(j)

(* Faulty variant: the score leaves out the ID, and the sort is not stable. *)
OutranksByKeyOnly(d, i, j) == Rank[key[d]][1] >= Rank[key[d]][1]

(* affinityOrder: the higher score first *)
Outranks(d, i, j) == Rank[key[d]][i] >= Rank[key[d]][j]

IsNext(d, i) ==
  /\ i \in todo[d]
  /\ \A j \in todo[d] :
       IF key[d] = NoKey THEN InTurn(d, start[d], i, j) ELSE Outranks(d, i, j)

(* The variables of dial and dialKey end with it. *)
Return(d, r) ==
  /\ Go(d, "returned")
  /\ result' = [result EXCEPT ![d] = r]
  /\ key' = [key EXCEPT ![d] = NoKey]
  /\ start' = [start EXCEPT ![d] = 0]
  /\ chosen' = [chosen EXCEPT ![d] = {}]
  /\ todo' = [todo EXCEPT ![d] = {}]

GoOn(d, s) == Go(d, s) /\ UNCHANGED <<key, start, chosen, todo, result>>

-----------------------------------------------------------------------------
(* The dial *)

(* Faulty variant: the cursor is read and not advanced. *)
TakeTurnLate(d) == start' = [start EXCEPT ![d] = cursor] /\ UNCHANGED cursor

(* Faulty variant: the cursor is not cut to its width. *)
TakeTurnUnbounded(d) ==
  /\ start' = [start EXCEPT ![d] = cursor]
  /\ cursor' = cursor + 1

(* p.cursor.Add(1) - 1 *)
TakeTurn(d) ==
  /\ start' = [start EXCEPT ![d] = cursor]
  /\ cursor' = (cursor + 1) % CursorSize

Begin(d) ==
  /\ ctx[d] # "unused" /\ At(d, "idle") /\ ~closed
  /\ \E k \in Keys[d] :
       /\ key' = [key EXCEPT ![d] = k]
       /\ IF k = NoKey THEN TakeTurn(d) ELSE UNCHANGED <<start, cursor>>
  /\ Go(d, "pick")
  /\ UNCHANGED <<via, ctxVars, connectVars, poolVars, conns, chosen, todo, result>>

BeginClosed(d) ==
  /\ ctx[d] # "unused" /\ At(d, "idle") /\ closed
  /\ Return(d, "ErrClosed")
  /\ UNCHANGED <<via, ctxVars, connectVars, poolVars, conns, cursor>>

(* normalCandidates and the order; the statuses are read one after the other
   in the code, and at once here. *)
Pick(d) ==
  /\ At(d, "pick") /\ normal # {}
  /\ chosen' = [chosen EXCEPT ![d] = normal]
  /\ todo' = [todo EXCEPT ![d] = normal]
  /\ Go(d, "next")
  /\ UNCHANGED <<via, ctxVars, connectVars, poolVars, conns, cursor, key, start, result>>

PickNone(d) ==
  /\ At(d, "pick") /\ normal = {}
  /\ Return(d, "ErrNoInstance")
  /\ UNCHANGED <<via, ctxVars, connectVars, poolVars, conns, cursor>>

TryNext(d) ==
  /\ At(d, "next") /\ d \notin over
  /\ \E i \in Inst :
       /\ IsNext(d, i)
       /\ via' = [via EXCEPT ![d] = i]
       /\ todo' = [todo EXCEPT ![d] = @ \ {i}]
  /\ Go(d, "connect")
  /\ UNCHANGED <<ctxVars, connectVars, poolVars, conns, choiceVars, result>>

GiveUp(d) ==
  /\ At(d, "next")
  /\ \/ todo[d] # {} /\ d \in over /\ Return(d, "ctx")
     \/ todo[d] = {} /\ Return(d, "lastErr")
  /\ UNCHANGED <<via, ctxVars, connectVars, poolVars, conns, cursor>>


AttemptFailed(d) ==
  /\ At(d, "failed")
  /\ GoOn(d, "next")
  /\ UNCHANGED <<via, ctxVars, connectVars, poolVars, conns, cursor>>

(* trackConn: whatever has become of the instance since. *)
Track(d) ==
  /\ At(d, "won")
  /\ conns' = [conns EXCEPT ![via[d]] = @ \cup {d}]
  /\ Return(d, "conn")
  /\ UNCHANGED <<via, ctxVars, connectVars, poolVars, cursor>>

(* A closed connection has no deadline. *)
Close(S) ==
  /\ open' = open \ S
  /\ deadline' = [a \in Attempt |-> IF a \in S THEN "none" ELSE deadline[a]]

(* instanceConn.Close: untrackConn, and the connection. *)
CloseConn(d) ==
  /\ result[d] = "conn" /\ Now(d) \in open
  /\ Close({Now(d)})
  /\ conns' = [conns EXCEPT ![via[d]] = @ \ {d}]
  /\ UNCHANGED <<step, via, ctxVars, watcher, watchStop, poolVars, dialVars>>

DialStep(d) ==
  \/ Begin(d) \/ BeginClosed(d) \/ Pick(d) \/ PickNone(d) \/ TryNext(d) \/ GiveUp(d)
  \/ AttemptFailed(d) \/ Track(d)
  \/ Handshakes(d) /\ UNCHANGED <<poolVars, conns, dialVars>>

(* The steps of a dial that wait for nobody. *)
DialGoesOn(d) ==
  \/ Pick(d) \/ PickNone(d) \/ TryNext(d) \/ GiveUp(d)
  \/ AttemptFailed(d) \/ Track(d)
  \/ (TimedOut(d) \/ Cleared(d)) /\ UNCHANGED <<poolVars, conns, dialVars>>
  \/ d \in over /\ ConnectFails(d) /\ UNCHANGED <<poolVars, conns, dialVars>>

WatchStep(a) == Watch(a) /\ UNCHANGED <<poolVars, conns, dialVars>>

-----------------------------------------------------------------------------
(* The instances and the pool *)

Leave(i) ==
  /\ i \in normal
  /\ normal' = normal \ {i}
  /\ UNCHANGED <<step, via, ctxVars, connectVars, closed, conns, dialVars>>

Enter(i) ==
  /\ i \notin normal
  /\ normal' = normal \cup {i}
  /\ UNCHANGED <<step, via, ctxVars, connectVars, closed, conns, dialVars>>

(* closeConns, when the time of Draining is up and in finalize *)
CutConns(i) ==
  /\ i \notin normal
  /\ Close({<<d, i>> : d \in conns[i]})
  /\ conns' = [conns EXCEPT ![i] = {}]
  /\ UNCHANGED <<step, via, ctxVars, watcher, watchStop, poolVars, dialVars>>

PoolClose ==
  /\ ~closed
  /\ closed' = TRUE
  /\ UNCHANGED <<step, via, ctxVars, connectVars, normal, conns, dialVars>>

Instances == (\E i \in Inst : Leave(i) \/ Enter(i) \/ CutConns(i)) \/ PoolClose

-----------------------------------------------------------------------------
(* The cursor spreads the load: of dials that choose from the same n instances
   and took their turns within n of each other, no two begin with the same
   instance, however their steps interleave (dial.go:62, :83-84). *)
RotationSpreads ==
  \A d, e \in Dial :
    LET n == Cardinality(chosen[d]) IN
    /\ d # e /\ key[d] = NoKey /\ key[e] = NoKey
    /\ n > 1 /\ chosen[d] = chosen[e]
    /\ start[d] - start[e] \in (1 - n)..(n - 1)
    /\ Cardinality(todo[d]) = n - 1
    => todo[d] # todo[e]

(* Dials with one key never try two instances, both of which they could
   choose from, in opposite orders: a key keeps its instance while others
   come and go, and goes to the same next one when it fails (affinityOrder,
   dial.go:115-123). *)
KeyOrderAgrees ==
  \A d, e \in Dial :
    key[d] # NoKey /\ key[d] = key[e] =>
      ~ \E i \in chosen[d] \ todo[d], j \in chosen[e] \ todo[e] :
          j \in todo[d] /\ i \in todo[e]
=============================================================================
