------------------------ MODULE CredentialsProperties ------------------------
(* What the module Credentials is checked for. *)
EXTENDS Credentials

(* The token of Vault never ends unless somebody revoked it, Vault was away when it
   was due, or it has reached its maximum age, where Vault answers a renewal without
   extending the lease (services/vault_client.py:208-261: checks every 300 s,
   renewed 600 s before the end). *)
TokenKept == ~token.valid => token.capped \/ lapse

(* A rotation of the password alone refuses no session, at whatever moment of its
   opening it happens and whatever the loop and other sessions do to the engine: a
   session is refused after three attempts only if Vault or the database failed it,
   or another one put an engine of an older password in place meanwhile
   (storage/database.py:188-248). *)
RotationRefusesNobody == \A s \in Sessions : at[s] = "refused" => s \in shaken

(* An engine with a password that was rotated away does not stay, even when no
   session is opened and when two initialize calls finished in the wrong order
   (storage/database.py:463-491, services/vault_database_service.py:120-127). *)
EngineCatchesUp == (url # 0) ~> (url = 0)
=============================================================================
