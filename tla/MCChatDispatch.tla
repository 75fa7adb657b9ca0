--------------------------- MODULE MCChatDispatch ---------------------------
(* Values for TLC: drains of the web process and of the worker.            *)
EXTENDS ChatDispatch

CONSTANTS w1, w2, k1, Web, Background

WebAndWorker == [d \in {w1, k1} |-> IF d = k1 THEN Background ELSE Web]
TwoInWeb == [d \in {w1, w2, k1} |-> IF d = k1 THEN Background ELSE Web]
=============================================================================
