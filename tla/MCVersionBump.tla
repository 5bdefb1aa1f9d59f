--------------------------- MODULE MCVersionBump ---------------------------
(***************************************************************************)
(* VersionBump for TLC: a file with numbers, one with two marks, one whose *)
(* pattern wants a version, and a lockfile whose second mark is optional.  *)
(***************************************************************************)
EXTENDS VersionBump, TLC

CONSTANTS header, capi, gomod, lock

MCOrder == <<header, capi, lock, gomod>>
MCMarks == header :> {"LATTICE_VERSION", "MAJOR_MINOR_PATCH"}
           @@ capi :> {"lattice_version", "test"}
           @@ lock :> {"version", "root"}
           @@ gomod :> {"require"}
===============================================================================
