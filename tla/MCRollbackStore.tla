-------------------------- MODULE MCRollbackStore ---------------------------
(***************************************************************************)
(* Two goroutines whose stores were built with different spellings of the  *)
(* one state file's path.                                                  *)
(***************************************************************************)
EXTENDS RollbackStore, TLC

CONSTANTS t1, t2

MCThread == {t1, t2}
MCPath == {"state.json", "./state.json"}
MCStorePath == (t1 :> "state.json") @@ (t2 :> "./state.json")
MCCleanAbs == [p \in MCPath |-> "/var/lib/app/state.json"]
=============================================================================
