------------------------------- MODULE MCDwq -------------------------------
(* Instances of Dwq for TLC: who shares a file with whom.                  *)
EXTENDS DwqProps, TLC

CONSTANTS c1, c2        \* context addresses
CONSTANTS t1, t2, t3    \* threads

TwoThreads   == {t1, t2}
ThreeThreads == {t1, t2, t3}

\* One thread for every file.
OneEach == t1 :> c1 @@ t2 :> c2
\* Two threads share the file at c1.
SharedFile == t1 :> c1 @@ t2 :> c1 @@ t3 :> c2
\* Two threads share the file at c2.
SharedClient == t1 :> c1 @@ t2 :> c2 @@ t3 :> c2

ServerCalls == {"register", "reply", "event", "read"}
ClientCalls == {"request", "read"}

\* t1 serves, t2 writes requests and may register a handle for callbacks.
ServesAndCalls == [t \in Thread |-> IF t = t1 THEN ServerCalls
                                   ELSE ClientCalls \cup {"register"}]
\* t1 and t2 serve, t3 is a client.
TwoServers == [t \in Thread |-> IF t = t3 THEN ClientCalls ELSE ServerCalls]

\* t1 serves, t2 writes requests, t3 only reads.
OneWriter == [t \in Thread |-> IF t = t1 THEN ServerCalls
                              ELSE IF t = t2 THEN ClientCalls ELSE {"read"}]

\* Orderly but for LookupsLandFirst.
LateLookupSpec == Init /\ [][Next /\ ClosesWhenAnswered /\ RegistersOnce]_vars

FairSpec == Spec /\ Fairness
=============================================================================
