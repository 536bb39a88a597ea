--------------------------- MODULE MCInstallation ---------------------------
(* Small instances of Installation for TLC. *)
EXTENDS Installation

MCReleases == 1..2
=============================================================================
