----------------------------- MODULE RpcService -----------------------------
(***************************************************************************)
(* What the driver promises of a request, without lists, locks or threads: *)
(* it is refused at once, or it is taken by a server at most once and then *)
(* answered or called back, or it is answered by the driver when the       *)
(* server goes away; it is answered at most once, and the answer is handed *)
(* out once or goes with the file that should have read it.  It may get    *)
(* lost, but what is lost, refused or finished never moves again.          *)
(***************************************************************************)
CONSTANT Tx         \* the requests

VARIABLE status     \* status[x]: how far request x has got

Status == {"none", "refused", "queued", "serving", "replied", "unserved",
           "delivered", "calledBack", "abandoned", "lost"}

TypeOK == status \in [Tx -> Status]

Init == status = [x \in Tx |-> "none"]

Move(x, from, to) ==
    /\ status[x] \in from
    /\ status' = [status EXCEPT ![x] = to]

Submit(x)     == Move(x, {"none"}, "queued")
Refuse(x)     == Move(x, {"none"}, "refused")
Take(x)       == Move(x, {"queued"}, "serving")
Reply(x)      == Move(x, {"serving"}, "replied")
ServerGone(x) == Move(x, {"queued", "serving"}, "unserved")
CallBack(x)   == Move(x, {"serving"}, "calledBack")
Hand(x)       == Move(x, {"replied", "unserved"}, "delivered")

MoveAll(xs, from, to) ==
    /\ \A x \in xs : status[x] \in from
    /\ status' = [x \in Tx |-> IF x \in xs THEN to ELSE status[x]]

\* The file that is closed takes with it the answers nobody read, ...
Abandon(xs) == MoveAll(xs, {"replied", "unserved"}, "abandoned")

\* ... and memory that is freed what others still put there.
Lose(xs) == MoveAll(xs, {"queued", "serving", "replied", "unserved"}, "lost")

Next ==
    \/ \E x \in Tx : \/ Submit(x) \/ Refuse(x) \/ Take(x) \/ Reply(x)
                     \/ ServerGone(x) \/ CallBack(x) \/ Hand(x)
    \/ \E xs \in SUBSET Tx : Abandon(xs) \/ Lose(xs)

Spec == Init /\ [][Next]_status
=============================================================================
