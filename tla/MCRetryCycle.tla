---------------------------- MODULE MCRetryCycle ----------------------------
(* Values for the run of RetryCycle. *)
EXTENDS RetryCycle

CONSTANTS i1, x4, x6

OneInst == {i1}
FourAddr == {x4}
SixAddr == {x6}
EmptyExit == NoExit
(* What HTTPProber finds, and an address in the wrong field. *)
Exits == HTTPProbes \cup {[v4 |-> NoAddr, v6 |-> x4]}

(* Options that leave out what they can; others that differ from an accepted
   one in one field each, so that every check of Validate decides once. *)
Plain ==
  [Min |-> 1, Max |-> 2, base |-> Unset, endpoints |-> {}, keyer |-> Unset, period |-> 0,
   start |-> 0, max |-> 0, concurrency |-> 0, transport |-> Unset]
SlowStart == [Plain EXCEPT !.start = 3, !.keyer = "DedupeByV4", !.transport = "http"]
LongWait == [Plain EXCEPT !.max = 6, !.keyer = "DedupeByBoth", !.base = 9, !.endpoints = {1}]
Wrong ==
  { [Plain EXCEPT !.Min = 0], [Plain EXCEPT !.Min = 3], [Plain EXCEPT !.Max = 10],
    [Plain EXCEPT !.base = 10], [Plain EXCEPT !.endpoints = {0, 1}],
    [Plain EXCEPT !.start = 5], [Plain EXCEPT !.transport = "tcp"] }
SomeOptions == {Plain, SlowStart, LongWait} \cup Wrong

AllCalls == {"Drain", "Disable", "Enable"}
=============================================================================
