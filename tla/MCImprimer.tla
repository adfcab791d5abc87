----------------------------- MODULE MCImprimer -----------------------------
(* Values for the constants of Imprimer: a printer for the type of the     *)
(* files and one that needs a conversion.                                  *)
EXTENDS Imprimer

Names == <<"first", "second">>
Types == <<"txt", "ps">>
OneFileType == {"txt"}
AnySet == {{1}, {2}, {1, 2}}
OneConversion == {<<"txt", "ps">>}
=============================================================================
