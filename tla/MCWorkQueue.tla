---------------------------- MODULE MCWorkQueue ----------------------------
(* Instances of WorkQueue: the file store with one message, whose every    *)
(* file operation is a step, the others with two.                          *)
EXTENDS WorkQueue

AllBackends == {"fs", "firestore", "memory"}
Messages    == [b \in AllBackends |-> IF b = "fs" THEN 1 ELSE 2]
AllKinds    == [b \in AllBackends |-> CASE b = "fs"        -> {"active", "staged"}
                                      [] b = "firestore" -> {"active"}
                                      [] b = "memory"    -> {"plain", "active", "staged"}]
(* Nothing in src/ calls commitStaged or discardStaged: no crash there.    *)
CrashInLanes == Pc \ {"down", "commitWrite", "commitUnlink", "discardWrite", "discardUnlink"}

=============================================================================
