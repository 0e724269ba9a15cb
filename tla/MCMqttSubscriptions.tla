------------------------ MODULE MCMqttSubscriptions ------------------------
(* Small instances of MqttSubscriptions for TLC.                           *)
EXTENDS MqttSubscriptions
CONSTANTS w1, w2, w3, t1, t2, n1, n2

(* Two subscriptions on topics of their own, a third that shares both.     *)
MCTopicsOf == [w \in Watchers |->
                 CASE w = w1 -> {t1} [] w = w2 -> {t2} [] w = w3 -> {t1, t2}]
(* One connection for everything.                                          *)
MCOneConnection == [t \in {t1, t2} |-> n1]
(* A connection for each topic.                                            *)
MCTwoConnections == [t \in {t1, t2} |-> IF t = t1 THEN n1 ELSE n2]
=============================================================================
