---------------------------- MODULE MCNegotiation ----------------------------
(* Values for Negotiation's constants: the default order of mechanisms and *)
(* an unusual one, and servers that advertise nothing, something unknown,  *)
(* only PLAIN, and several.                                                *)
EXTENDS Negotiation

MCPreferences == {<<>>, <<"X-TOKEN", "PLAIN", "SCRAM-SHA-1">>}
MCOffers == {{}, {"X-TOKEN"}, {"PLAIN"}, {"EXTERNAL", "PLAIN", "SCRAM-SHA-1"}}
=============================================================================
