------------------------------ MODULE MCServer ------------------------------
(***************************************************************************)
(* The clients of the run of Server: one that sends anything, and one whose*)
(* work is under way when the server is told to stop.                      *)
(***************************************************************************)
EXTENDS Server

SomeClients == {"c1", "c2"}

SomeFrames == [c \in SomeClients |-> IF c = "c1" THEN Frames ELSE {"work"}]

=============================================================================
