---------------------------- MODULE MCPushToTalk ----------------------------
(* Instances of PushToTalk for TLC. *)
EXTENDS PushToTalk, TLC

CONSTANTS c1, c2

MCNames == c1 :> "one" @@ c2 :> "two"
MCScan  == <<1, 2>>

Plan(one, two, others, n) == [calls |-> c1 :> one @@ c2 :> two, env |-> others, log |-> n]

\* The log is short where there is much else; the first plans fill a longer one with the
\* entries of one client and of both, in every order.
MCPlans == {Plan({"key", "unkey"}, {"key"}, {}, 4),
            Plan({"key", "unkey"}, {"key", "unkey"}, {}, 3),
            Plan({"key", "unkey", "say"}, {}, {"stop"}, 3),
            Plan({"key", "unkey"}, {"key"}, {"mic"}, 2),
            Plan({"say"}, {"key", "unkey"}, {"mic"}, 1),
            Plan({"key", "unkey"}, {}, {"tune", "scan", "stop"}, 1),
            Plan({"burst"}, {"key"}, {"mode", "stop", "nodevice"}, 1)}
=============================================================================
