------------------------------ MODULE MCAccounts -------------------------------
(* Accounts for TLC: an empty database, and one with an administrator and a   *)
(* beta user who are both logged in.                                          *)
EXTENDS Accounts

CONSTANTS ann, bob, cid, A1, B1, p1, r1, r2

MCKind == [c \in {A1, B1} |-> IF c = A1 THEN "admin" ELSE "beta"]

NoUsers == [u \in {ann, bob, cid} |-> Nobody]
NoInvites == [c \in {A1, B1} |-> NoInvite]
Unowned == [p \in {p1} |-> None]
MCStart ==
    {[users |-> NoUsers, sessions |-> {}, invites |-> NoInvites, owner |-> Unowned],
     [users |-> [NoUsers EXCEPT ![ann] = Account("admin", 0, "bootstrap"),
                                ![bob] = Account("beta", 2, "invite")],
      sessions |-> {ann, bob},
      invites |-> [NoInvites EXCEPT ![B1] = [max |-> 2, used |-> 1, live |-> TRUE, uses |-> {bob}]],
      owner |-> [Unowned EXCEPT ![p1] = bob]],
     [users |-> [NoUsers EXCEPT ![ann] = Account("admin", 0, "bootstrap")], sessions |-> {ann},
      invites |-> [NoInvites EXCEPT ![B1] = [max |-> 1, used |-> 0, live |-> TRUE, uses |-> {}]],
      owner |-> Unowned]}

================================================================================
