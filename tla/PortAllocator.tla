---------------------------- MODULE PortAllocator ----------------------------
(***************************************************************************)
(* portAllocator (pool.go): offsets of listening ports above the base of   *)
(* ListenBase.  Released offsets are reused last in, first out, before a   *)
(* new one is taken.  An offset o stands for the port base + o, and        *)
(* LastOffset for maxListenPort - base.                                    *)
(***************************************************************************)
EXTENDS Integers, Sequences

CONSTANT LastOffset

ASSUME PortAssumption == LastOffset \in Nat

VARIABLES
  next,   \* the smallest offset that was never given out
  used,   \* the offsets in use
  free    \* the stack of released offsets

portVars == <<next, used, free>>

Offsets == 0..LastOffset

PortTypeOK ==
  /\ next \in 0..(LastOffset + 1)
  /\ used \subseteq Offsets
  /\ free \in Seq(Offsets)

PortInit ==
  /\ next = 0
  /\ used = {}
  /\ free = <<>>

-----------------------------------------------------------------------------
(* acquire, when a released offset can be reused *)
Reuse(off) ==
  /\ free # <<>>
  /\ off = free[Len(free)]
  /\ free' = SubSeq(free, 1, Len(free) - 1)
  /\ used' = used \cup {off}
  /\ UNCHANGED next

(* Faulty variant: the scan ends one offset early. *)
UnseenShort == {o \in next..(LastOffset - 1) : o \notin used}

(* acquire, otherwise: the scan skips offsets that are in use. *)
Unseen == {o \in next..LastOffset : o \notin used}

(* Faulty variant: next is not moved past the offset that is handed out. *)
ExtendInPlace(off) ==
  /\ free = <<>>
  /\ off \in Unseen
  /\ \A o \in Unseen : off <= o
  /\ next' = off
  /\ used' = used \cup {off}
  /\ UNCHANGED free

Extend(off) ==
  /\ free = <<>>
  /\ off \in Unseen
  /\ \A o \in Unseen : off <= o
  /\ next' = off + 1
  /\ used' = used \cup {off}
  /\ UNCHANGED free

Acquire(off) == Reuse(off) \/ Extend(off)

(* acquire returns false; the scan has moved next to its end. *)
Exhausted ==
  /\ free = <<>>
  /\ Unseen = {}
  /\ next' = IF next <= LastOffset THEN LastOffset + 1 ELSE next
  /\ UNCHANGED <<used, free>>

(* release ignores an offset that is not in use. *)
Release(off) ==
  /\ IF off \in used
     THEN used' = used \ {off} /\ free' = Append(free, off)
     ELSE UNCHANGED <<used, free>>
  /\ UNCHANGED next

PortNext ==
  \/ \E off \in Offsets : Acquire(off) \/ Release(off)
  \/ Exhausted

PortSpec == PortInit /\ [][PortNext]_portVars

-----------------------------------------------------------------------------
OnStack(off) == \E k \in 1..Len(free) : free[k] = off

(* Every offset handed out so far is either in use or waiting on the stack
   once: none is lost and none can be given to two instances, whatever order
   instances come and go in (acquire and release, pool.go:581-608). *)
PortsPartition ==
  /\ \A off \in Offsets : (off < next) <=> (off \in used \/ OnStack(off))
  /\ \A off \in used : ~OnStack(off)
  /\ \A j, k \in 1..Len(free) : free[j] = free[k] => j = k

(* An offset that acquire hands out was not in use, and acquire gives up only
   when the whole segment is in use (pool.go:598). *)
AcquireIsSound ==
  [][/\ \A off \in Offsets : Acquire(off) => off \notin used
     /\ Exhausted => used = Offsets]_portVars
=============================================================================
