------------------------------ MODULE TimeZonesMC ------------------------------
(***************************************************************************)
(* Two goroutines; a zone with a link, UTC, spellings of the zero offset   *)
(* and of an ordinary one, and names that are not supported.               *)
(***************************************************************************)
EXTENDS TimeZones, TLC

MCPrimary == "Kolkata" :> "Kolkata" @@ "Calcutta" :> "Kolkata" @@ "UTC" :> "UTC"

MCNames == { <<"zone", "Kolkata">>, <<"zone", "Calcutta">>, <<"zone", "Mars">>,
             <<"offset", 1, 0, 0>>, <<"offset", -1, 0, 0>>, <<"offset", -1, 23, 59>>,
             <<"offset", 1, 24, 0>> }

MCKeys == {CanonicalName(name) : name \in MCNames \cup {UTC}} \ {Unsupported}

MCFallible == { <<"zone", "Kolkata">> }
MCUnique   == { <<"zone", "UTC">> }
MCNoName    == <<"none">>
MCHostNames == { <<"zone", "Calcutta">>, MCNoName }
===============================================================================
