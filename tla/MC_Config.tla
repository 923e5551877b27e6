------------------------------ MODULE MC_Config ------------------------------
(* An environment that sets both PORT and SERVER_PORT, to different ports;  *)
(* everything else is unset.                                                *)
EXTENDS Config

MCEnvValuesAliased ==
    ("PORT" :> {8080}) @@ ("SERVER_PORT" :> {9000})
    @@ [k \in DOMAIN EnvMappings |-> {Unset}]
====
