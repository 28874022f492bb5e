------------------------------- MODULE MCReplay -------------------------------
(***************************************************************************)
(* Instances of Replay for TLC.  "bad" is rejected, and its sample (after  *)
(* jsonb and json.dumps) is a message with another hash; "void" is JSON    *)
(* null, which is rejected and has no sample.                              *)
(***************************************************************************)
EXTENDS Replay

MCPayloads == {"bad", "bad_copy", "void"}
MCFails == MCPayloads
MCSample == [p \in MCPayloads |->
               CASE p \in {"bad", "bad_copy"} -> "bad_copy"
                 [] p = "void" -> NoSample]
O(mode, dry, resolve, book) ==
  [mode |-> mode, dry |-> dry, resolve |-> resolve, book |-> book]

SomeOptions == {O("postgres", FALSE, TRUE, TRUE), O("postgres", TRUE, FALSE, TRUE),
                O("kafka", FALSE, FALSE, TRUE), O("kafka", TRUE, FALSE, TRUE)}

MCArrived == << "void", "bad" >>
=============================================================================
