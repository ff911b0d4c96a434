----------------------------- MODULE MCWorkers -----------------------------
(* Instances of Workers for TLC. *)
EXTENDS Workers

\* The workers are 1 and 2: one that is full with its first client and takes two
\* events at a time, and one that can have both clients and takes one.
MCMaxEvents == <<2, 1>>
MCMaxFds == <<1, 2>>
=============================================================================
