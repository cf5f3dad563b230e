------------------------- MODULE MCExtractionCache -------------------------
(***************************************************************************)
(* Commands, over what others change meanwhile: two scans and their cache; *)
(* two saves and loads of the glossary; the Git state one reports.         *)
(***************************************************************************)
EXTENDS ExtractionCache, GlossaryStore, RepositoryStamp, TLC

VARIABLE command

Symmetric == Permutations(Procs)

(***************************************************************************)
(* Scans, of releases that share one cache format, over a code file that   *)
(* one of them takes for a doc, and a host file that may hold a managed    *)
(* block.                                                                  *)
(***************************************************************************)
Release(c, g) == [cache_version |-> c, generator_version |-> g]

MCVersions == {Release(5, 1), Release(5, 2)}

MCClass ==
  [v \in MCVersions |->
     [r \in {"main", "AGENTS.md"} |->
        IF r = "main" /\ v # Release(5, 1) THEN "python" ELSE "doc"]]

(***************************************************************************)
(* Two spellings and orders of one glossary, one that names a path twice,  *)
(* and one that outgrows the ceiling when it is laid out.                  *)
(***************************************************************************)
Prefix(path, spelling) == [path |-> path, spelling |-> spelling]
Concept(id, prefixes) == [id |-> id, prefixes |-> prefixes]

MCDocuments ==
  {<<Concept(1, <<>>), Concept(2, <<Prefix(1, "NFD"), Prefix(2, "NFC")>>)>>,
   <<Concept(2, <<Prefix(2, "NFC"), Prefix(1, "NFC")>>), Concept(1, <<>>)>>,
   <<Concept(1, <<Prefix(1, "NFC"), Prefix(1, "NFD")>>)>>,
   <<Concept(3, <<>>)>>}

MCCompactBytes == <<1, 1, 2>>
MCStoredBytes == <<1, 1, 3>>

(***************************************************************************)
(* Commits of two trees, without a glossary and with one of two.           *)
(***************************************************************************)
CONSTANTS tree1, tree2, g1, g2

MCCommits ==
  {[tree |-> t, glossary |-> g] : t \in {tree1, tree2}, g \in {None, g1}}
    \cup {[tree |-> tree2, glossary |-> g2]}

(***************************************************************************)
(* One of them; the others stand still at their beginning.  The host file  *)
(* starts with a managed block (bound).                                    *)
(***************************************************************************)
NoScans == disk = [r \in Rels |-> CHOOSE b \in Readable : b.block = "none"] /\ Init
NoStore == out = "missing" /\ StoreInit
NoStamp ==
  /\ repository = [head |-> None, tree |-> tree1, glossary |-> None, ignored |-> FALSE] /\ report = "brief"
  /\ StampInit

MCInit ==
  \/ command = "scan" /\ Init /\ disk["AGENTS.md"].block = "one" /\ NoStore /\ NoStamp
  \/ command = "glossary" /\ StoreInit /\ NoScans /\ NoStamp
  \/ command = "stamp" /\ StampInit /\ NoScans /\ NoStore

MCNext ==
  /\ UNCHANGED command
  /\ \/ command = "scan" /\ Next /\ UNCHANGED <<store, stamping>>
     \/ command = "glossary" /\ StoreNext /\ UNCHANGED <<vars, stamping>>
     \/ command = "stamp" /\ StampNext /\ UNCHANGED <<vars, store>>

MCSpec == MCInit /\ [][MCNext]_<<command, vars, store, stamping>>
=============================================================================
