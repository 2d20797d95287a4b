--------------------------- MODULE MCDatabaseImport ---------------------------
(* A small instance of DatabaseImport for TLC: values of the constants only.  *)
EXTENDS DatabaseImport
CONSTANTS upload1, upload2, upload3
=============================================================================
