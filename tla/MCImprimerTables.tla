-------------------------- MODULE MCImprimerTables --------------------------
(* Values for the constants of ImprimerTables.                             *)
EXTENDS ImprimerTables

CONSTANTS txt, ps, pdf, Alice, Bob

ThreeTypes == {txt, ps, pdf}
\* Two ways from txt to pdf, two circles and a conversion of a type to itself.
SomeConversions == {<<txt, txt>>, <<txt, ps>>, <<txt, pdf>>, <<ps, txt>>, <<ps, pdf>>, <<pdf, txt>>}
TwoTypes == {txt, pdf}
TwoNames == {Alice, Bob}
TextPrints == [type : {txt}, names : {<<>>, <<Alice>>, <<Alice, Bob>>}]
=============================================================================
