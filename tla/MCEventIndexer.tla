--------------------------- MODULE MCEventIndexer ---------------------------
(* One gift, with events enough for more than one page: events of different  *)
(* gifts meet only in the cursor and in the pages.                           *)
EXTENDS EventIndexer
=============================================================================
