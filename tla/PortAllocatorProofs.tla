------------------------- MODULE PortAllocatorProofs -------------------------
(***************************************************************************)
(* The port allocator never gives an offset to two holders and never loses *)
(* one, for every size of the segment.                                     *)
(***************************************************************************)
EXTENDS PortAllocator, SequenceTheorems, TLAPS

IInv == PortTypeOK /\ PortsPartition

(* What is left of a stack when its top is taken. *)
LEMMA PopStack ==
  ASSUME NEW S, NEW s \in Seq(S), s # <<>>,
         NEW t, t = SubSeq(s, 1, Len(s) - 1)
  PROVE  /\ Len(s) \in Nat \ {0}
         /\ t \in Seq(S)
         /\ Len(t) = Len(s) - 1
         /\ \A k \in 1..Len(t) : t[k] = s[k]
<1>1. Len(s) \in Nat \ {0}
  BY EmptySeq
<1>2. \A k \in 1..(Len(s) - 1) : s[k] \in S
  BY <1>1, ElementOfSeq
<1>3. /\ t \in Seq(S)
      /\ Len(t) = IF 1 <= Len(s) - 1 THEN (Len(s) - 1) - 1 + 1 ELSE 0
      /\ \A k \in 1..((Len(s) - 1) - 1 + 1) : t[k] = s[1 + k - 1]
  BY <1>1, <1>2, SubSeqProperties
<1>4. Len(t) = Len(s) - 1
  <2>1. \A n \in Nat \ {0} : (IF 1 <= n - 1 THEN (n - 1) - 1 + 1 ELSE 0) = n - 1
    OBVIOUS
  <2> QED BY <1>1, <1>3, <2>1, Zenon
<1>5. \A k \in 1..Len(t) : t[k] = s[k]
  BY <1>1, <1>3, <1>4, SMT
<1> QED BY <1>1, <1>3, <1>4, <1>5

(* What is on a stack when an element is pushed. *)
LEMMA PushStack ==
  ASSUME NEW S, NEW s \in Seq(S), NEW x \in S, NEW t, t = Append(s, x)
  PROVE  /\ Len(s) \in Nat
         /\ t \in Seq(S)
         /\ Len(t) = Len(s) + 1
         /\ \A k \in 1..Len(s) : t[k] = s[k]
         /\ t[Len(s) + 1] = x
BY AppendProperties, LenProperties

LEMMA PortInitInv == PortInit => IInv
BY PortAssumption, SMT DEF PortInit, IInv, PortTypeOK, PortsPartition, OnStack, Offsets

LEMMA PortStepInv == IInv /\ [PortNext]_portVars => IInv'
<1> SUFFICES ASSUME IInv, [PortNext]_portVars PROVE IInv'
  OBVIOUS
<1>p. /\ LastOffset \in Nat /\ next \in 0..(LastOffset + 1)
      /\ used \subseteq Offsets /\ free \in Seq(Offsets)
  BY PortAssumption DEF IInv, PortTypeOK
<1>q. \A o \in Offsets : (o < next) <=> (o \in used \/ OnStack(o))
  BY DEF IInv, PortsPartition
<1>r. \A o \in used : ~OnStack(o)
  BY DEF IInv, PortsPartition
<1>s. \A j, k \in 1..Len(free) : free[j] = free[k] => j = k
  BY DEF IInv, PortsPartition
<1>1. ASSUME NEW off \in Offsets, Reuse(off) PROVE IInv'
  <2>1. /\ Len(free) \in Nat \ {0}
        /\ free' \in Seq(Offsets)
        /\ Len(free') = Len(free) - 1
        /\ \A k \in 1..Len(free') : free'[k] = free[k]
    BY <1>1, <1>p, PopStack DEF Reuse
  <2>2. off = free[Len(free)] /\ used' = used \cup {off} /\ next' = next
    BY <1>1 DEF Reuse
  <2>3. PortTypeOK'
    BY <1>p, <2>1, <2>2 DEF PortTypeOK, Offsets
  <2>4. ~OnStack(off)'
    BY <1>s, <2>1, <2>2, SMT DEF OnStack
  <2>5. ASSUME NEW o \in Offsets, o # off PROVE OnStack(o) <=> OnStack(o)'
    <3>1. ASSUME OnStack(o) PROVE OnStack(o)'
      <4>1. PICK k \in 1..Len(free) : free[k] = o
        BY <3>1 DEF OnStack
      <4>2. k \in 1..Len(free') /\ free'[k] = o
        BY <4>1, <2>1, <2>2, <2>5, SMT
      <4> QED BY <4>2 DEF OnStack
    <3>2. ASSUME OnStack(o)' PROVE OnStack(o)
      <4>1. PICK k \in 1..Len(free') : free'[k] = o
        BY <3>2 DEF OnStack
      <4>2. k \in 1..Len(free) /\ free[k] = o
        BY <4>1, <2>1, SMT
      <4> QED BY <4>2 DEF OnStack
    <3> QED BY <3>1, <3>2
  <2>6. OnStack(off)
    BY <2>1, <2>2, SMT DEF OnStack
  <2>7. \A o \in Offsets : (o < next)' <=> (o \in used \/ OnStack(o))'
    BY <1>q, <2>2, <2>4, <2>5, <2>6
  <2>8. \A o \in used' : ~OnStack(o)'
    BY <1>p, <1>r, <2>2, <2>4, <2>5
  <2>9. \A j, k \in 1..Len(free') : free'[j] = free'[k] => j = k
    <3>1. \A k \in 1..Len(free') : k \in 1..Len(free)
      BY <2>1, SMT
    <3> QED BY <1>s, <2>1, <3>1
  <2> QED BY <2>3, <2>7, <2>8, <2>9 DEF IInv, PortsPartition
<1>2. ASSUME NEW off \in Offsets, Extend(off) PROVE IInv'
  <2>1. \A o \in Offsets : ~OnStack(o)
    BY <1>2, SMT DEF Extend, OnStack
  <2>2. off = next /\ next <= LastOffset
    BY <1>2, <1>p, <1>q, <2>1, SMT DEF Extend, Unseen, Offsets
  <2>3. next' = off + 1 /\ used' = used \cup {off} /\ free' = free
    BY <1>2 DEF Extend
  <2>4. \A o \in Offsets : ~OnStack(o)'
    BY <2>1, <2>3 DEF OnStack
  <2>5. PortTypeOK'
    BY <1>p, <2>2, <2>3, SMT DEF PortTypeOK, Offsets
  <2>6. \A o \in Offsets : (o < next)' <=> (o \in used \/ OnStack(o))'
    BY <1>p, <1>q, <2>1, <2>2, <2>3, <2>4, SMT DEF Offsets
  <2>7. \A o \in used' : ~OnStack(o)'
    BY <1>p, <1>2, <2>3, <2>4
  <2> QED BY <1>s, <2>3, <2>5, <2>6, <2>7 DEF IInv, PortsPartition
<1>3. ASSUME NEW off \in Offsets, Release(off) PROVE IInv'
  <2>1. CASE off \notin used
    <3>1. UNCHANGED portVars
      BY <1>3, <2>1 DEF Release, portVars
    <3> QED BY <3>1 DEF portVars, IInv, PortTypeOK, PortsPartition, OnStack
  <2>2. CASE off \in used
    <3>1. /\ Len(free) \in Nat
          /\ free' \in Seq(Offsets)
          /\ Len(free') = Len(free) + 1
          /\ \A k \in 1..Len(free) : free'[k] = free[k]
          /\ free'[Len(free) + 1] = off
      BY <1>3, <1>p, <2>2, PushStack DEF Release
    <3>2. used' = used \ {off} /\ next' = next
      BY <1>3, <2>2 DEF Release
    <3>3. PortTypeOK'
      BY <1>p, <3>1, <3>2 DEF PortTypeOK
    <3>4. OnStack(off)' /\ ~OnStack(off) /\ off < next
      <4>1. Len(free) + 1 \in 1..Len(free')
        BY <3>1, SMT
      <4> QED BY <1>q, <1>r, <2>2, <3>1, <4>1 DEF OnStack
    <3>5. ASSUME NEW o \in Offsets, o # off PROVE OnStack(o) <=> OnStack(o)'
      <4>1. ASSUME OnStack(o) PROVE OnStack(o)'
        <5>1. PICK k \in 1..Len(free) : free[k] = o
          BY <4>1 DEF OnStack
        <5>2. k \in 1..Len(free') /\ free'[k] = o
          BY <5>1, <3>1, SMT
        <5> QED BY <5>2 DEF OnStack
      <4>2. ASSUME OnStack(o)' PROVE OnStack(o)
        <5>1. PICK k \in 1..Len(free') : free'[k] = o
          BY <4>2 DEF OnStack
        <5>2. k \in 1..Len(free) /\ free[k] = o
          BY <5>1, <3>1, <3>5, SMT
        <5> QED BY <5>2 DEF OnStack
      <4> QED BY <4>1, <4>2
    <3>6. \A o \in Offsets : (o < next)' <=> (o \in used \/ OnStack(o))'
      BY <1>q, <3>2, <3>4, <3>5
    <3>7. \A o \in used' : ~OnStack(o)'
      BY <1>p, <1>r, <3>2, <3>5
    <3>8. \A j, k \in 1..Len(free') : free'[j] = free'[k] => j = k
      <4>1. \A j \in 1..Len(free) : free[j] # off
        BY <3>4 DEF OnStack
      <4> QED BY <1>s, <3>1, <4>1, SMT
    <3> QED BY <3>3, <3>6, <3>7, <3>8 DEF IInv, PortsPartition
  <2> QED BY <2>1, <2>2
<1>4. ASSUME Exhausted PROVE IInv'
  <2>1. \A o \in Offsets : ~OnStack(o)
    BY <1>4, SMT DEF Exhausted, OnStack
  <2>2. \A o \in Offsets : o < next
    BY <1>4, <1>p, <1>q, <2>1, SMT DEF Exhausted, Unseen, Offsets
  <2>3. /\ next' \in 0..(LastOffset + 1)
        /\ \A o \in Offsets : o < next'
        /\ used' = used /\ free' = free
    BY <1>4, <1>p, <2>2, SMT DEF Exhausted, Offsets
  <2> QED BY <1>p, <1>q, <1>r, <1>s, <2>2, <2>3
          DEF IInv, PortTypeOK, PortsPartition, OnStack
<1>5. CASE UNCHANGED portVars
  BY <1>5 DEF portVars, IInv, PortTypeOK, PortsPartition, OnStack
<1> QED BY <1>1, <1>2, <1>3, <1>4, <1>5 DEF PortNext, Acquire

(* The offsets handed out so far are split between those in use and those on
   the stack (pool.go:581-608), for every LastOffset. *)
THEOREM PortsPartitionAlways == PortSpec => []PortsPartition
<1>1. IInv => PortsPartition
  BY DEF IInv
<1> QED BY PortInitInv, PortStepInv, <1>1, PTL DEF PortSpec

(* acquire never hands out an offset in use, and fails only when all are. *)
THEOREM AcquireSound == PortSpec => AcquireIsSound
<1> DEFINE Sound == /\ \A off \in Offsets : Acquire(off) => off \notin used
                    /\ Exhausted => used = Offsets
<1>1. IInv => Sound
  <2> SUFFICES ASSUME IInv PROVE Sound
    OBVIOUS
  <2> USE PortAssumption DEF IInv, PortTypeOK, PortsPartition, OnStack, Offsets
  <2>1. ASSUME NEW off \in Offsets, Reuse(off) PROVE off \notin used
    <3>1. Len(free) \in 1..Len(free) /\ off = free[Len(free)]
      BY <2>1, SMT DEF Reuse
    <3> QED BY <3>1
  <2>2. ASSUME NEW off \in Offsets, Extend(off) PROVE off \notin used
    BY <2>2 DEF Extend, Unseen
  <2>3. ASSUME Exhausted PROVE used = Offsets
    <3>1. \A o \in Offsets : ~OnStack(o)
      BY <2>3, SMT DEF Exhausted
    <3>2. \A o \in Offsets : o \in used
      BY <2>3, <3>1, SMT DEF Exhausted, Unseen
    <3> QED BY <3>2
  <2> QED BY <2>1, <2>2, <2>3 DEF Acquire
<1>2. IInv /\ [PortNext]_portVars => [Sound]_portVars
  BY <1>1
<1> QED BY PortInitInv, PortStepInv, <1>2, PTL DEF PortSpec, AcquireIsSound
=============================================================================
