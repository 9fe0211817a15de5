----------------------------- MODULE MCLibrary -----------------------------
(* Instances of Library for TLC.                                           *)
EXTENDS Library

Fresh == [settings : {Empty}, config : {NoFile, Nothing, Foreign}]
Used == [settings : [{"ram"} -> Rams], config : {Foreign}]
SomeStarts == Fresh \cup Used

=============================================================================
