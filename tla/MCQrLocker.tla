----------------------------- MODULE MCQrLocker -----------------------------
(* Instances of QrLocker for TLC. *)
EXTENDS QrLocker

CONSTANTS parcel, courier

TwoTokens == {parcel, courier}
OneToken  == {parcel}
=============================================================================
