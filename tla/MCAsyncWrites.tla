--------------------------- MODULE MCAsyncWrites ---------------------------
(* AsyncWrites.tla on a small instance; its configuration gives every        *)
(* constant a value.                                                        *)
EXTENDS AsyncWritesProperties
=============================================================================
