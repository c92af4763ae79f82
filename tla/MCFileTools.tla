----------------------------- MODULE MCFileTools ------------------------------
(* An instance of FileTools for TLC on its own, for the server in a Linux  *)
(* container, with the host's drives mounted under HOST_MNT_PREFIX.        *)
EXTENDS FileTools

CONSTANTS p

OneText == {<<p>>}

=============================================================================
