-------------------------- MODULE MCCredentialFile --------------------------
(* Small instances of CredentialFile for TLC. *)
EXTENDS CredentialFile

MCCallers == Keepers \cup HostCalls
MCResults == Tokens \cup {Blank, Failed}
=============================================================================
