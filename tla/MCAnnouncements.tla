---------------------------- MODULE MCAnnouncements ----------------------------
(***************************************************************************)
(* Two handlers at a time; a resource in review or in the catalogue.       *)
(***************************************************************************)
EXTENDS Announcements, TLC

CONSTANTS c1, c2, v1, v2, buyer, fan

First(s) == [v \in Versions |->
    IF v = v1 THEN [state |-> s, signed |-> TRUE, failed |-> FALSE] ELSE Absent]
Work(at, n, losses, ops, crowded) ==
    [status |-> at, versions |-> First(IF at = "PUBLISHED" THEN "PUBLISHED" ELSE "CANDIDATE"),
     left |-> n, losses |-> losses, ops |-> ops, crowded |-> crowded]

MCWorkloads ==
    { Work("PENDING_REVIEW", 3, 0, {"upload", "moderate", "patch"}, {}),
      Work("PENDING_REVIEW", 2, 1, {"upload", "moderate", "age"}, {"release"}),
      Work("PENDING_REVIEW", 3, 0, {"moderate", "verify", "yank"}, {"alerts"}),
      Work("PUBLISHED", 2, 1, {"upload", "rollback", "yank"}, {}),
      Work("PUBLISHED", 3, 1, {"upload", "rollback", "buy"}, {"versions", "buyers"}),
      Work("PUBLISHED", 3, 0, {"upload", "moderate"}, {"buyers"}) }
=============================================================================
