----------------------------- MODULE MCChatQueue -----------------------------
(***************************************************************************)
(* Small deployments for ChatQueue.                                        *)
(***************************************************************************)
EXTENDS ChatQueue

CONSTANTS q1, q2, q3, w1, w2

ThreeRequests == {q1, q2, q3}
TwoWorkers == {w1, w2}
=============================================================================
