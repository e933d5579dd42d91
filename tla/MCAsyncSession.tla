--------------------------- MODULE MCAsyncSession ---------------------------
(* A server whose local time is ahead of UTC: LockDate lies in the future,   *)
(* and the age of a new item is negative.                                    *)
EXTENDS AsyncSessionStore

MCInitialAge == -1
=============================================================================
