---------------------------- MODULE MCProxyTunnel ----------------------------
(* Values for the run of ProxyTunnel. *)
EXTENDS ProxyTunnel, TLC

CONSTANTS t, u, v, k

Dials == {t, u, v}
OneTunnel == {t}
TwoInsts == {1, 2}
OneKey == {k}
AnyKey == [d \in Dials |-> IF d = t THEN {NoKey} ELSE {k, NoKey}]
Ranks == [x \in OneKey |-> [i \in TwoInsts |-> i]]

Under(ct, cu, cv) == (t :> ct) @@ (u :> cu) @@ (v :> cv)
SomeContexts ==
  { Under("cancel", "unused", "unused"), Under("unused", "deadline", "unused"),
    Under("unused", "background", "background") }
=============================================================================
