------------------------------ MODULE MCOsHeap ------------------------------
(* Values for TLC: an application that uses os_realloc and one that does not. *)
EXTENDS OsHeap

UseSets == {{}, {"realloc"}}
ReallocUse == {{"realloc"}}
=============================================================================
