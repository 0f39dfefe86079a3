---------------------------- MODULE MCTaskInput ----------------------------
(* Every text of up to five characters around a limit of three.             *)
EXTENDS TaskInput

AllContents == BoundedSeq(Characters \ {"bad"}, 5) \cup BoundedSeq({"x", "bad"}, 3)
=============================================================================
