----------------------------- MODULE EgressKeys -----------------------------
(***************************************************************************)
(* Probing for an egress and the key it is judged by (egress.go).           *)
(***************************************************************************)
EXTENDS Sequences

CONSTANTS
  Addr4, Addr6,  \* addresses of the two families
  NoAddr         \* the zero netip.Addr

(* "|" is between the two halves of a key. *)
ASSUME AddrAssumption ==
  Addr4 \cap Addr6 = {} /\ {NoAddr, "|"} \cap (Addr4 \cup Addr6) = {}

Addr == Addr4 \cup Addr6
Exit == [v4 : Addr \cup {NoAddr}, v6 : Addr \cup {NoAddr}]
NoExit == [v4 |-> NoAddr, v6 |-> NoAddr]

(* probeStack: an answer x of the service counts if it is an address of the
   family asked for; NoAddr stands for every failure on the way to it. *)
ProbeStack(x, family) == IF x \in family THEN x ELSE NoAddr

(* HTTPProber.Probe asks for both at the same time; each may fail alone. *)
HTTPProbes ==
  {[v4 |-> ProbeStack(x, Addr4), v6 |-> ProbeStack(y, Addr6)] :
     x \in Addr \cup {NoAddr}, y \in Addr \cup {NoAddr}}

(* The keyers; a key is the sequence of what its text consists of.  A prober
   supplied by the user may put an address into the wrong field. *)
V4Key(e) == IF e.v4 \in Addr4 THEN <<e.v4>> ELSE <<>>
V6Key(e) == IF e.v6 \in Addr6 THEN <<e.v6>> ELSE <<>>

(* Faulty variant: empty unless both are there. *)
BothKeyStrict(e) ==
  IF V4Key(e) = <<>> \/ V6Key(e) = <<>> THEN <<>> ELSE V4Key(e) \o <<"|">> \o V6Key(e)

BothKey(e) ==
  IF V4Key(e) = <<>> /\ V6Key(e) = <<>> THEN <<>> ELSE V4Key(e) \o <<"|">> \o V6Key(e)

KeyOf(keyer, e) ==
  CASE keyer = "DedupeByV4" -> V4Key(e)
    [] keyer = "DedupeByV6" -> V6Key(e)
    [] keyer = "DedupeByBoth" -> BothKey(e)

(* Faulty variant: a failed probe is exempt as well. *)
WhitelistedAlways(keyer, e) == KeyOf(keyer, e) = <<>>

(* whitelistedEmptyKey *)
Whitelisted(keyer, e) == KeyOf(keyer, e) = <<>> /\ e # NoExit

(* What two exits may not share under a keyer. *)
Counted(keyer, e) ==
  (IF keyer = "DedupeByV6" THEN {} ELSE {e.v4} \cap Addr4)
  \cup (IF keyer = "DedupeByV4" THEN {} ELSE {e.v6} \cap Addr6)
=============================================================================
