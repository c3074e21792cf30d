------------------------------ MODULE MCEncoder ------------------------------
(***************************************************************************)
(* TLC instance of Encoder.  Every source with its automatic choice and    *)
(* with nvenc, on a machine that has the encoders of its platform or only  *)
(* the software one.                                                       *)
(***************************************************************************)
EXTENDS Encoder

Platform(s) == IF s = "ddagrab" THEN WindowsFamilies ELSE LinuxFamilies

PlatformConfigs ==
    {c \in ConfigType :
        /\ c.available \in {Platform(c.source), Platform(c.source) \cap {"libx264"}}
        /\ c.requested \in {"auto", "nvenc"}}
=============================================================================
