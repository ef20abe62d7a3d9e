------------------------------ MODULE MCWbxml ------------------------------
(* The texts of the run: a carriage return, a blank, and the name of a public  *)
(* identifier, which is long enough to be shared.                             *)
EXTENDS Wbxml

MCTexts == {<<CR>>, <<SPACE>>, PublicName(5)}
=============================================================================
