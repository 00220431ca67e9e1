------------------------- MODULE MCWebsitePasskeys -------------------------
(* Instances of WebsitePasskeys for TLC.                                   *)
EXTENDS WebsitePasskeys

CONSTANTS create, use

CreateThenUse == <<create, use>>
OnlyCreate == {create}
=============================================================================
