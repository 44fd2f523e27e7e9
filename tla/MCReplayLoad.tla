---------------------------- MODULE MCReplayLoad ----------------------------
(* A player without a stable id, two players of one name on opposite       *)
(* teams, one whose name is not known, and two who attack.                 *)
EXTENDS ReplayLoad

MCRoster == <<"x", "a", "v", "w", "z">>
MCEos == [p \in {"x", "a", "v", "w", "z"} |-> IF p = "x" THEN None ELSE p]
MCName == ("x" :> "X") @@ ("a" :> "A") @@ ("v" :> "N") @@ ("w" :> "N") @@ ("z" :> None)
MCTeam == ("x" :> 1) @@ ("a" :> 1) @@ ("v" :> 2) @@ ("w" :> 1) @@ ("z" :> 2)
MCWeapon == ("x" :> None) @@ ("a" :> "rifle") @@ ("v" :> "bandage") @@ ("w" :> "rifle")
            @@ ("z" :> "rifle")
MCAttacks == {<<"a", "v">>, <<"a", "w">>, <<"x", "w">>}
MCMortals == {"w", "z"}
MCVehicleTickets == "APC" :> 3
MCClassTickets == "BTR82A" :> 2
=============================================================================
