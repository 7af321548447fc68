-------------------------- MODULE MCEvidenceLedger --------------------------
(* Imports for EvidenceLedger: publications, a valid and an invalid         *)
(* superseding command under the same run id, one that keeps a piece of the *)
(* old evidence, a research replay that touches a live revision, a revision *)
(* cycle inside a command, and commands of another security.                *)
EXTENDS EvidenceLedger

CONSTANTS amzn, goog, v1, v2

MCUpper == [t \in {"AMZN", "amzn", "GOOG"} |-> IF t = "amzn" THEN "AMZN" ELSE t]

Bundle(s, t, v, b) == [security |-> s, ticker |-> t, vintage |-> v, basis |-> b]
AmznBundle == Bundle(amzn, "AMZN", v1, "a")
GoogBundle == Bundle(goog, "GOOG", v1, "g")

\* A further vintage of a security, and another security under its ticker.
MCBundles == {AmznBundle, GoogBundle, [AmznBundle EXCEPT !.vintage = v2],
              [GoogBundle EXCEPT !.ticker = "amzn"]}

Obs(id, revision, supersedes) == [id |-> id, revision |-> revision, supersedes |-> supersedes]

Import(run, s, prior, obs) ==
  [run |-> run, security |-> s, bundle |-> IF s = amzn THEN AmznBundle ELSE GoogBundle,
   eps_basis |-> IF s = amzn THEN "a" ELSE "g", projects |-> TRUE, prior |-> prior,
   mode |-> "operational", admissible |-> TRUE, observations |-> obs]

First == Import("A", amzn, None, {Obs("o1", "r1", None)})
Second == Import("B", amzn, "A", {Obs("o2", "r2", "r1")})
Inadmissible == [Second EXCEPT !.admissible = FALSE]
KeepsEvidence == Import("C", amzn, "A", {Obs("o1", "r1", None), Obs("o3", "r2", "r1")})
Research == [Import("D", amzn, None, {Obs("o4", "r1", None)}) EXCEPT
               !.projects = FALSE, !.mode = "certified_backfill_research"]
Backfill == [Import("C", amzn, "A", {Obs("o5", "r3", None)}) EXCEPT
               !.mode = "certified_backfill_research"]
Cyclic == Import("E", amzn, None, {Obs("o6", "r3", "r4"), Obs("o7", "r4", "r3")})
Orphan == Import("F", amzn, "A", {Obs("o8", "r5", "r4")})
Foreign == Import("G", goog, None, {Obs("o9", "r3", None)})
ForeignRevision == Import("H", goog, "G", {Obs("o2", "r6", "r1")})
ReusedId == [Import("J", amzn, None, {Obs("o2", "r5", None)}) EXCEPT !.projects = FALSE]
ForeignGroup == Import("I", goog, None, {Obs("o10", "r1", None)})

MCCommands == {First, Second, Inadmissible, KeepsEvidence, Research, Backfill, Cyclic,
               Orphan, Foreign, ForeignRevision, ForeignGroup, ReusedId}
AmznCommands == {First, Second, Inadmissible, KeepsEvidence, Backfill}
MCRevisions == {"r1", "r2", "r3", "r4", "r5", "r6"}
=============================================================================
