--------------------------- MODULE MCClientServer ---------------------------
(* Instances of ClientServer for TLC: one dwq_server2, one dwq_client2 of   *)
(* each kind.                                                              *)
EXTENDS ClientServer, TLC

CONSTANTS server, sync, async       \* the processes, as their files
\* The threads of dwq_server2, dwq_client2 sync, and dwq_client2 async.
CONSTANTS tServer, tSync, tMain, tCallback

Files   == tServer :> server @@ tSync :> sync @@ tMain :> async @@ tCallback :> async
Program == tServer :> "server" @@ tSync :> "sync" @@ tMain :> "async"
              @@ tCallback :> "callback"
AllMay  == [t \in Thread |-> {"register", "request", "reply", "event", "read"}]
=============================================================================
