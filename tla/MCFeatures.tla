----------------------------- MODULE MCFeatures -----------------------------
(* One or two features of one group.                                        *)
EXTENDS Features

OneGroup == {<<"Test">>}
OneName == {<<"Enabled">>}
TwoNames == {<<"Enabled">>, <<"notInitialized">>}
=============================================================================
