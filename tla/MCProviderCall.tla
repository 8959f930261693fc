--------------------------- MODULE MCProviderCall ---------------------------
(* Instance of ProviderCall for TLC; the values are in the configuration.    *)
EXTENDS ProviderCall
=============================================================================
