---------------------------- MODULE MCCredentials ----------------------------
(* A small instance of Credentials for TLC: a tick is 300 s. *)
EXTENDS CredentialsProperties

CONSTANTS request, task
=============================================================================
