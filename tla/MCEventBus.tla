----------------------------- MODULE MCEventBus -----------------------------
(* Two requests in the threads of one worker.                              *)
EXTENDS EventBus

MCRequests == {"schedule", "explosion"}
=============================================================================
