------------------------- MODULE MCExclusiveWriter --------------------------
(***************************************************************************)
(* Three stores, two spellings of one file and a second file, two closers. *)
(***************************************************************************)
EXTENDS ExclusiveWriter, TLC

MCPath == {"rev.json", "./rev.json", "other.json"}
MCCleanAbs == ("rev.json" :> "/a/rev.json") @@ ("./rev.json" :> "/a/rev.json")
                 @@ ("other.json" :> "/a/other.json")
=============================================================================
