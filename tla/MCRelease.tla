------------------------------- MODULE MCRelease -------------------------------
(* Release on small instances; each configuration says which of main's      *)
(* commits are faithful exports and declare the version.                    *)
EXTENDS Release

(* The options verify-provenance requires as committed, and without the one *)
(* release.yml deliberately does not pass.                                  *)
MCCommitted == Given \cup {"tag"}
MCRepaired == Given
=============================================================================
