----------------------------- MODULE MCFrerSetup -----------------------------
(* FrerSetup for TLC, with the table BOARDS of the script. *)
EXTENDS FrerSetup, TLC

TwoBoards == <<"esp32-1", "esp32-2">>
TwoPorts  == "esp32-1" :> "Gi 1/3" @@ "esp32-2" :> "Gi 1/6"
TwoVlans  == "esp32-1" :> 200 @@ "esp32-2" :> 201

\* Nothing, or both ends of the flow README.md calls direction A.
FirstAttempt == {{}, {e \in End : e[1] = "esp32-1" /\ e[2] = "up"}}
=============================================================================
