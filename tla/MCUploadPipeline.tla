--------------------------- MODULE MCUploadPipeline ---------------------------
(* Instances of UploadPipeline for TLC.                                        *)
EXTENDS UploadPipeline, TLC

\* Uploads and Workers are interchangeable in every safety property.
SafetySymmetry == Permutations(Uploads) \cup Permutations(Workers)

AllDisturbances == DisturbanceKinds
=============================================================================
