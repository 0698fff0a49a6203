----------------------------- MODULE FriendGraph ------------------------------
(***************************************************************************)
(* What the friend service promises when requests do not overlap: one      *)
(* relation per unordered pair of accounts and four operations on it, each *)
(* a single step.  A relation remembers who made the last move.            *)
(***************************************************************************)
CONSTANTS Accounts, NoOne

VARIABLE rel

Pairs == {{u, v} : u, v \in Accounts} \ {{u} : u \in Accounts}

Nothing == [status |-> "", action |-> NoOne]

Init == rel = [p \in Pairs |-> Nothing]

Put(p, status, u) == rel' = [rel EXCEPT ![p] = [status |-> status, action |-> u]]

(* u asks: there is no relation, or the last request was turned down. *)
Send(p, u) ==
    /\ rel[p] = Nothing \/ rel[p].status = "rejected"
    /\ Put(p, "pending", u)

(* u decides on a request that the other one has sent. *)
Decide(p, u) ==
    /\ rel[p].status = "pending"
    /\ rel[p].action # u
    /\ \E status \in {"accepted", "rejected"} : Put(p, status, u)

(* Either of the two ends the relation, or withdraws or drops a request. *)
Remove(p) == rel[p] # Nothing /\ rel' = [rel EXCEPT ![p] = Nothing]

Next == \E p \in Pairs : Remove(p) \/ \E u \in p : Send(p, u) \/ Decide(p, u)

Spec == Init /\ [][Next]_rel

===============================================================================
