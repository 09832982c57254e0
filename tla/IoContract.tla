----------------------------- MODULE IoContract -----------------------------
(***************************************************************************)
(* What the block layer is promised of the driver: a request that was      *)
(* handed over is answered once, with success only if its data went where  *)
(* the request wants it, and a namespace is gone only when none of its     *)
(* requests is unanswered.                                                 *)
(***************************************************************************)
CONSTANTS Ios, NsIos
VARIABLES state,      \* per request: "new", "open", "ok" or "failed"
          moves,      \* the requests that ask for data to be moved
          delivered,  \* the requests with no data left to move
          nsGone      \* the namespace has been freed

cvars == <<state, moves, delivered, nsGone>>

Init == /\ state = [i \in Ios |-> "new"]
        /\ moves \in SUBSET Ios
        /\ delivered = Ios \ moves
        /\ nsGone = FALSE

Accept(i) == /\ state[i] = "new"
             /\ i \in NsIos => ~nsGone
             /\ state' = [state EXCEPT ![i] = "open"]
             /\ UNCHANGED <<moves, delivered, nsGone>>

Deliver(i) == /\ state[i] = "open"
              /\ delivered' = delivered \cup {i}
              /\ UNCHANGED <<state, moves, nsGone>>

Succeed(i) == /\ state[i] = "open"
              /\ i \in delivered
              /\ state' = [state EXCEPT ![i] = "ok"]
              /\ UNCHANGED <<moves, delivered, nsGone>>

Fail(i) == /\ state[i] = "open"
           /\ state' = [state EXCEPT ![i] = "failed"]
           /\ UNCHANGED <<moves, delivered, nsGone>>

RemoveNs == /\ \A i \in NsIos : state[i] # "open"
            /\ nsGone' = TRUE
            /\ UNCHANGED <<state, moves, delivered>>

Next == \/ \E i \in Ios : Accept(i) \/ Deliver(i) \/ Succeed(i) \/ Fail(i)
        \/ RemoveNs

Spec == Init /\ [][Next]_cvars
=============================================================================
