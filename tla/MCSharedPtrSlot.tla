--------------------------- MODULE MCSharedPtrSlot ---------------------------
(* Model-checking instance of SharedPtrSlot. *)
EXTENDS SharedPtrSlot
=============================================================================
