----------------------------- MODULE MCOptions -----------------------------
(* TLC instance of Options: three keys of the general family, chosen after *)
(* init_default_settings, which gives enable-check-update the default "N"  *)
(* and allow-remote-config-modification the default "Y"; direct-server is  *)
(* overwritten, as a custom client's OVERWRITE_SETTINGS does.              *)
EXTENDS Options

MCKeys == {"enable-check-update", "allow-remote-config-modification", "direct-server"}

MCVals == {"Y", "N"}

MCKeyKind ==
    [k \in MCKeys |-> IF k = "enable-check-update" THEN "enable" ELSE "allow"]

MCOverwrite ==
    [k \in MCKeys |-> IF k = "direct-server" THEN "Y" ELSE Absent]

MCDefault ==
    [k \in MCKeys |-> CASE k = "enable-check-update" -> "N"
                        [] k = "allow-remote-config-modification" -> "Y"
                        [] OTHER -> Absent]
====
