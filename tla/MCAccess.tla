------------------------------ MODULE MCAccess ------------------------------
(***************************************************************************)
(* A small instance of Access: the administrator, and one reader.           *)
(***************************************************************************)
EXTENDS Access

MCRequests == 1..1
MCSubjects == {"Root", "bob"}
MCKeys == {"root", "bob"}
MCLower == [s \in MCSubjects |-> IF s = "Root" THEN "root" ELSE s]
MCNames == 1..4
MCUserNameFor == [s \in MCSubjects |-> IF s = "bob" THEN 3 ELSE 4]
MCDeclaredNames == {1}
MCBootstrap == 2
MCAdmin == "Root"
=============================================================================
