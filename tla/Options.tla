------------------------------- MODULE Options -------------------------------
(***************************************************************************)
(* Options (options.go): withDefaults fills what the caller left zero, and  *)
(* Validate accepts or refuses the result; newPool runs them in this order. *)
(*                                                                         *)
(* One field, period, stands for the four durations treated alike           *)
(* (HealthInterval, HealthTimeout, EgressCheckInterval, DrainTimeout); an    *)
(* address is its port.  Texts that are no host:port are ports out of range, *)
(* and the hooks and the state directory, which only have to be there, are  *)
(* left out.                                                                *)
(***************************************************************************)
EXTENDS Integers

CONSTANTS
  Unset,      \* "" and nil
  PortLimit,  \* maxListenPort
  DefaultBase, DefaultPeriod, DefaultStart, DefaultMax, DefaultConcurrency

ASSUME DefaultsAssumption ==
  /\ PortLimit \in Nat \ {0}
  /\ DefaultBase \in 1..PortLimit
  /\ DefaultPeriod \in Nat \ {0} /\ DefaultConcurrency \in Nat \ {0}
  /\ DefaultStart \in Nat \ {0} /\ DefaultMax \in Nat /\ DefaultStart <= DefaultMax

Keyers == {"DedupeByV4", "DedupeByV6", "DedupeByBoth"}
Transports == {"socks5", "http"}

(* The fields of Options; "tcp" is any text that names no transport. *)
OptionsRecord ==
  [Min : Int, Max : Int, base : Int \cup {Unset}, endpoints : SUBSET Int,
   keyer : Keyers \cup {Unset}, period : Int, start : Int, max : Int, concurrency : Int,
   transport : Transports \cup {"tcp", Unset}]

IfUnset(x, default) == IF x = Unset THEN default ELSE x
IfNotPositive(n, default) == IF n <= 0 THEN default ELSE n

(* Faulty variant: a field without a default. *)
WithoutPeriod(o) ==
  [o EXCEPT
     !.base = IfUnset(@, DefaultBase),
     !.keyer = IfUnset(@, "DedupeByV6"),
     !.start = IfNotPositive(@, DefaultStart),
     !.max = IfNotPositive(@, DefaultMax),
     !.concurrency = IfNotPositive(@, DefaultConcurrency),
     !.transport = IfUnset(@, "socks5")]

WithDefaults(o) ==
  [o EXCEPT
     !.base = IfUnset(@, DefaultBase),
     !.keyer = IfUnset(@, "DedupeByV6"),
     !.period = IfNotPositive(@, DefaultPeriod),
     !.start = IfNotPositive(@, DefaultStart),
     !.max = IfNotPositive(@, DefaultMax),
     !.concurrency = IfNotPositive(@, DefaultConcurrency),
     !.transport = IfUnset(@, "socks5")]

IsPort(p) == p \in 1..PortLimit

Valid(o) ==
  /\ 0 < o.Min /\ o.Min <= o.Max /\ o.Max <= PortLimit
  /\ IsPort(o.base) /\ \A p \in o.endpoints : IsPort(p)
  /\ o.period > 0 /\ o.concurrency > 0
  /\ 0 < o.start /\ o.start <= o.max
  /\ o.transport \in Transports

(* What the caller may leave out: everything but Min and Max. *)
OnlyLimits(o) ==
  /\ o.base = Unset /\ o.keyer = Unset /\ o.transport = Unset /\ o.endpoints = {}
  /\ o.period = 0 /\ o.start = 0 /\ o.max = 0 /\ o.concurrency = 0
=============================================================================
