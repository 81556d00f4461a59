--------------------------- MODULE MCRaopSession ---------------------------
(* Instances of RaopSession for TLC. *)
EXTENDS RaopSession

Cfg(auth, ap2, strict, creds, pw) ==
    [auth |-> auth, airplay2 |-> ap2, strict |-> strict, creds |-> creds, password |-> pw]

\* One AirPlay 1 receiver of each kind.
Ap1Configs == {
    Cfg("None",      FALSE, FALSE, "none", FALSE),
    Cfg("Password",  FALSE, FALSE, "none", TRUE),
    Cfg("AuthSetup", FALSE, FALSE, "none", TRUE),
    Cfg("LegacyPin", FALSE, FALSE, "none", FALSE)}

\* AirPlay 2 receivers, with and without strict authentication and stored
\* credentials.
HapConfigs ==
    {Cfg("HapTransient", TRUE, strict, "none", FALSE) : strict \in BOOLEAN}
    \cup {Cfg("HapPin", TRUE, strict, creds, FALSE) :
            strict \in BOOLEAN, creds \in {"none", "usable"}}

AllConfigs == Ap1Configs \cup HapConfigs

\* Receivers of each protocol, with each kind of retry and fallback.
FewConfigs == {
    Cfg("Password",     FALSE, FALSE, "none", TRUE),
    Cfg("AuthSetup",    FALSE, FALSE, "none", TRUE),
    Cfg("HapTransient", TRUE,  FALSE, "none", FALSE),
    Cfg("HapPin",       TRUE,  TRUE,  "none", FALSE)}

PasswordConfigs  == {Cfg("Password", FALSE, FALSE, "none", TRUE)}
PinConfigs       == {Cfg("HapPin", TRUE, FALSE, "none", FALSE)}
============================================================================
