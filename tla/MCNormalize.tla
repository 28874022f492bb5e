----------------------------- MODULE MCNormalize -----------------------------
(***************************************************************************)
(* Instances of Normalize for TLC.  A payload is named for what it is:     *)
(* two versions of one record, and one payload for each way to be unusable *)
(***************************************************************************)
EXTENDS Normalize

CONSTANTS r1, r2

Body_(name, stage, storable, key) ==
  [name |-> name, stage |-> stage, storable |-> storable, key |-> key]

Old == Body_("old", "none", TRUE, "a")
New == Body_("new", "none", TRUE, "a")
Tombstone == Body_("tombstone", "null", TRUE, "a")
NotJson == Body_("not_json", "json", TRUE, "a")
BadRow == Body_("bad_row", "row", TRUE, "a")
NotText == Body_("not_text", "text", TRUE, "a")
Junk == Body_("junk", "json", FALSE, "a")

TwoVersions == {Old, New, NotJson}
AnyKind == {Old, New, BadRow, NotText, Junk, NotJson, Tombstone}

MCKeys == {"a", "b"}
MCKeyOf == [p \in Payloads |-> p.key]
MCFailsAt == [p \in Payloads |-> p.stage]
MCStorable == [p \in Payloads |-> p.storable]
=============================================================================
