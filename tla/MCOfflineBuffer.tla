--------------------------- MODULE MCOfflineBuffer ---------------------------
(* A small instance of OfflineBuffer: two messages in a row do not parse, as  *)
(* many as drain() looks at.                                                  *)
EXTENDS OfflineBuffer

MCUnreadable == {2, 3}
=============================================================================
