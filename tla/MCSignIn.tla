-------------------------------- MODULE MCSignIn --------------------------------
EXTENDS SignIn

\* Every flow, by a user who waits for the answers and by one who does not.
MCFlows == SSO \cup {"code", "device"}
=============================================================================
