------------------------------- MODULE MCNames --------------------------------
(***************************************************************************)
(* Names of up to three parts, with a character of two bytes at each place *)
(* where a part may end.                                                   *)
(***************************************************************************)
EXTENDS DeviceNames

MCNewNames == {<<>>, <<"a">>, <<"a", "a">>, <<"h", "t", "a">>, <<"a", "h", "t">>,
               <<"a", "a", "a", "a">>, <<"a", "a", "a", "h", "t">>,
               <<"a", "a", "h", "t", "a", "a">>, <<"h", "t", "h", "t", "a">>}

Spec == NameInit /\ [][NameNext]_nameVars
=============================================================================
