------------------------------- MODULE Absence -------------------------------
(***************************************************************************)
(* The absence of a row, a value or an owner, shared by the modules whose  *)
(* components are checked side by side in MCServices.                      *)
(***************************************************************************)
CONSTANT None \* a model value, so that it differs from every row and number
=============================================================================
