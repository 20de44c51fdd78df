---------------------------- MODULE MCOrderEntry ----------------------------
(***************************************************************************)
(* OrderEntry for TLC.  A configuration file cannot write a function.      *)
(***************************************************************************)
EXTENDS OrderEntry

\* Three requests; two of them are of client 2, whose ACCEPTED responses go to
\* client 1.
OneAndTwo == [c \in Clients |-> IF c = 1 THEN 1 ELSE 2]

=============================================================================
