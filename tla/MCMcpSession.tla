---------------------------- MODULE MCMcpSession ----------------------------
(***************************************************************************)
(* Instances of McpSession for TLC.                                        *)
(***************************************************************************)
EXTENDS McpSession

MCSupported == <<"2025-06-18", "2025-11-25">>

\* A client asks for a version in the middle of the list, for the last one, or for one that
\* the server declares and does not support.
MCRequested == {"2025-06-18", "2025-11-25", "2025-11-05"}

=============================================================================
