----------------------------- MODULE MCSources -----------------------------
(* Instances of Sources for TLC. *)
EXTENDS Sources

CONSTANTS v1, v2, none, r1

OneVersion == {v1}
TwoVersions == {v1, v2}
TextOnly == {"extract"}
ViewOnly == {"view"}
OneReader == {r1}
NoReader == {}
FilesMayStay == {"immutable_original", "placed_candidate", "data_view", "upload_staging"}

============================================================================
