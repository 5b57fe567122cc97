------------------------ MODULE MCDetectionPipeline ------------------------
(* Instances of DetectionPipeline for TLC: a person and one camera that can be tampered with. *)
EXTENDS DetectionPipeline, TLC

CONSTANTS internal_person, external_tamper, external

Cameras == {internal_person, external_tamper}
Roles == {external}
Shown == {{"hand"}, {"hand", "model"}}
Views == {"picture", "dark"}
Pictures == {"picture"}
SourceOf == [r \in Roles |-> external_tamper]
None == {}
===========================================================================
