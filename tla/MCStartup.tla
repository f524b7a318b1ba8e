----------------------------- MODULE MCStartup -----------------------------
(* Three workers, two demo clients and a client of the installation.       *)
EXTENDS Startup

MCWorkers == {"w1", "w2", "w3"}
MCExpected == {"ACME-MFG", "TEXTILE-PRO"}
MCOthers == {"SAMPLE"}
=============================================================================
