------------------------------ MODULE MCPages ------------------------------
(* TLC instance of Pages: two subjects, and two requests at once.           *)
EXTENDS Pages
=============================================================================
