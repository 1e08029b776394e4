---------------------------- MODULE MCPageTables ----------------------------
(* Model-checking instance of PageTables: tables of two entries, so sixteen *)
(* virtual pages, of which the lowest four are the user's.                  *)
EXTENDS PageTables

UartAtTop == <<3>>
=============================================================================
