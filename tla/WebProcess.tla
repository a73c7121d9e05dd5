----------------------------- MODULE WebProcess ----------------------------
(***************************************************************************)
(* The web processes as a whole: the OAuth flow that connects a drive and  *)
(* the handlers on accounts run in the same workers, so a process that is  *)
(* busy with one cannot serve the other, and one kill wipes the dictionary *)
(* of OAuth states and the local cache together.                           *)
(***************************************************************************)
EXTENDS OAuthFlow, Accounts

webVars == <<workers, oauthVars, accountVars>>

WebInit == WorkersInit /\ OAuthInit /\ AccountsInit

KillWorker(p) == Kill(p) /\ OAuthWiped(p) /\ AccountsWiped(p)

WebNext ==
    \/ OAuthNext /\ UNCHANGED accountVars
    \/ AccountsNext /\ UNCHANGED oauthVars
    \/ \E p \in Process : KillWorker(p)

WebSpec == WebInit /\ [][WebNext]_webVars

WebTypeOK == WorkersTypeOK /\ OAuthTypeOK /\ AccountsTypeOK
=============================================================================
