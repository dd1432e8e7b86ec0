----------------------------- MODULE MCRelease -----------------------------
(* Release on small instances: two crates, one of them needed by the other.*)
EXTENDS Release

MCNeeds == [c \in Crate |-> IF c = "tsv" THEN {"tsv_lang"} ELSE {}]
Anywhere == {"idle", "unstale", "cargo", "sentinel", "lock", "stamp", "print",
             "gates", "test", "npm", "finalize", "tag", "push", "unsentinel"}
AtRest   == {"idle"}
Never    == {}
Either   == BOOLEAN
ByScript == {FALSE}
=============================================================================
